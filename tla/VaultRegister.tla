--------------------------- MODULE VaultRegister ---------------------------
(***************************************************************************)
(* What the clients of a vault rely on, whatever the protocol: a register  *)
(* with load and conditional store.  A client that loaded the register may *)
(* store into it as long as nobody has stored since, and a store spends    *)
(* everybody's load, also if the value came back to what it was.           *)
(***************************************************************************)
CONSTANTS Client, Value, None

VARIABLES
  value,  \* the register, None before the first store
  fresh   \* the clients whose load is of the present value

vars == <<value, fresh>>

Init == value = None /\ fresh = {}

Load(w) ==
  /\ fresh' = fresh \cup {w}
  /\ UNCHANGED value

\* The client gives up, or its store is refused.
Forget(w) ==
  /\ fresh' = fresh \ {w}
  /\ UNCHANGED value

Store(w) ==
  /\ w \in fresh
  /\ value' \in Value \ {value}
  /\ fresh' = {}

Next == \E w \in Client : Load(w) \/ Forget(w) \/ Store(w)

Spec == Init /\ [][Next]_vars
=============================================================================
