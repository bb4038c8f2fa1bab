--------------------------- MODULE VaultSyncProofs ---------------------------
(***************************************************************************)
(* Proofs about VaultSync for every set of devices, API keys and prefixes. *)
(* The contract's rule "seq must increase" and the clients' rule "seq =     *)
(* what I read + 1" together make the vault a compare-and-swap register;   *)
(* the invariant says what a client may conclude from the seq it read.     *)
(***************************************************************************)
EXTENDS VaultSync, TLAPS

USE ScopeAssumption, OwnerAssumption, NoneAssumption, DeviceAssumption

\* The argument of an operation fits its goal.
ArgOK ==
  \A w \in Client : op[w] # None =>
    IF op[w].goal \in {"mint", "revoke"} THEN op[w].arg \subseteq ApiKey
    ELSE op[w].arg \subseteq Prefix

\* Who is about to write has read a vault, unless it found none to ensure.
WriteOK ==
  \A w \in Client : op[w] # None =>
    (op[w].seen # None <=> op[w].step = "write" /\ op[w].goal # "ensure")

\* What a device that compared, and found nobody else ahead, still knows: as
\* long as the vault's seq is the one it compared with, the vault holds no
\* site key it lacks, but for the one it is about to drop.
Ahead(o) ==
  \/ o.goal = "quiet" /\ o.step \in {"fetch", "write"}
  \/ o.goal \in {"create", "add", "drop"} /\ (o.aligned \/ o.step \in {"fetch", "write"})

Lacks(o) == IF o.goal = "drop" THEN o.arg ELSE {}

CmpOK ==
  \A d \in Device : op[d] # None =>
    /\ op[d].cmp # 0 => vault # None /\ op[d].cmp <= vault.seq
    /\ op[d].cmp # 0 /\ op[d].cmp = vault.seq /\ Ahead(op[d])
         => vault.repos \subseteq repos[d] \cup Lacks(op[d])

Inv == TypeOK /\ ArgOK /\ WriteOK /\ SeenIsPast /\ CmpOK

ComparedKeep ==
  \A d \in Device :
    Wrote(d, {"quiet", "create", "add", "drop"}) /\ op[d].cmp = vault.seq
      => DroppedBy(d) \subseteq Asked(d)

\* A step that leaves the vault alone, and of the delegates all but the
\* client's own, keeps the invariant if the client's own record does.
LEMMA Local ==
  ASSUME Inv, NEW w \in Client, NEW o \in Op \cup {None},
         UNCHANGED vault,
         repos' \in [Device -> SUBSET Prefix],
         pages' \in [Device -> SUBSET Prefix],
         bundle' \subseteq Prefix,
         \A d \in Device : d # w => repos'[d] = repos[d],
         op' = [op EXCEPT ![w] = o],
         o # None =>
           /\ IF o.goal \in {"mint", "revoke"} THEN o.arg \subseteq ApiKey ELSE o.arg \subseteq Prefix
           /\ o.seen # None <=> o.step = "write" /\ o.goal # "ensure"
           /\ o.seen # None => o.seen = vault
           /\ w \in Device =>
                /\ o.cmp # 0 => vault # None /\ o.cmp <= vault.seq
                /\ o.cmp # 0 /\ o.cmp = vault.seq /\ Ahead(o)
                     => vault.repos \subseteq repos'[w] \cup Lacks(o)
  PROVE  Inv'
<1>1. TypeOK'
  BY DEF Inv, TypeOK
<1>2. \A v \in Client : op'[v] = IF v = w THEN o ELSE op[v]
  BY DEF Inv, TypeOK
<1>3. ArgOK' /\ WriteOK'
  BY <1>2 DEF Inv, ArgOK, WriteOK
<1>4. SeenIsPast'
  <2>1. vault # None => vault.seq \in Nat
    BY DEF Inv, TypeOK, Vault
  <2> QED
    BY <1>2, <2>1 DEF Inv, SeenIsPast
<1>5. CmpOK'
  BY <1>2 DEF Inv, CmpOK, Ahead, Lacks, Client
<1> QED
  BY <1>1, <1>3, <1>4, <1>5 DEF Inv

LEMMA Types ==
  ASSUME Inv
  PROVE  /\ repos \in [Device -> SUBSET Prefix] /\ pages \in [Device -> SUBSET Prefix]
         /\ bundle \subseteq Prefix
         /\ \A w \in Client : op[w] \in Op \cup {None}
         /\ \A d \in Device : d \in Client
  BY DEF Inv, TypeOK, Client

\* The client's operation is over.
LEMMA Ends ==
  ASSUME Inv, NEW w \in Client, Done(w), UNCHANGED vault,
         repos' \in [Device -> SUBSET Prefix],
         pages' \in [Device -> SUBSET Prefix],
         UNCHANGED bundle,
         \A d \in Device : d # w => repos'[d] = repos[d]
  PROVE  Inv'
  BY Types, Local DEF Done

\* A write that reaches the contract.
LEMMA Submitted ==
  ASSUME Inv, NEW w \in Client, op[w] # None, op[w].step = "write",
         NEW next \in Vault, Submit(w, next),
         IF op[w].seen = None THEN next.seq = 1 ELSE next.seq = op[w].seen.seq + 1
  PROVE  /\ Inv'
         /\ vault' # vault => op[w].seen = vault /\ vault' = next
         /\ op' = [op EXCEPT ![w] = None]
<1>1. op' = [op EXCEPT ![w] = None] /\ UNCHANGED <<repos, pages, bundle>>
  BY DEF Submit, Done
<1>2. CASE vault' = vault
  BY <1>1, <1>2, Types, Ends DEF Done
<1>3. CASE vault' # vault
  <2>1. vault' = next /\ MayUpsert(vault, next)
    BY <1>3 DEF Submit
  <2>2. op[w] \in Op /\ op[w].seen \in Vault \cup {None}
    BY DEF Inv, TypeOK, Op
  <2>3. vault \in Vault \cup {None}
    BY DEF Inv, TypeOK
  <2>4. vault # None => vault.seq \in Nat \ {0} /\ vault.seq < next.seq
    BY <2>1, <2>3 DEF MayUpsert, Vault
  <2>5. op[w].seen = vault
    <3>1. CASE op[w].seen = None
      BY <2>4, <3>1
    <3>2. CASE op[w].seen # None
      BY <2>2, <2>4, <3>2 DEF Inv, SeenIsPast, Vault
    <3> QED
      BY <3>1, <3>2
  <2>6. next.seq \in Nat \ {0} /\ next # None
    BY DEF Vault
  <2>7. \A v \in Client : op'[v] = IF v = w THEN None ELSE op[v]
    BY <1>1 DEF Inv, TypeOK
  <2>8. TypeOK'
    BY <1>1, <2>1 DEF Inv, TypeOK
  <2>9. ArgOK' /\ WriteOK'
    BY <2>7 DEF Inv, ArgOK, WriteOK
  <2>10. SeenIsPast'
    <3>1. ASSUME NEW v \in Client, op[v] # None, op[v].seen # None
          PROVE  vault # None /\ op[v].seen.seq <= vault.seq /\ op[v].seen.seq \in Nat
      BY <3>1 DEF Inv, SeenIsPast, TypeOK, Op, Vault
    <3> QED
      BY <2>1, <2>4, <2>6, <2>7, <3>1 DEF SeenIsPast
  <2>11. CmpOK'
    <3>1. ASSUME NEW d \in Device, op[d] # None, op[d].cmp # 0
          PROVE  vault # None /\ op[d].cmp <= vault.seq /\ op[d].cmp \in Nat
      BY <3>1 DEF Inv, CmpOK, TypeOK, Op, Client
    <3>2. \A d \in Device : d \in Client
      BY DEF Client
    <3> QED
      BY <1>1, <2>1, <2>4, <2>6, <2>7, <3>1, <3>2 DEF CmpOK
  <2> QED
    BY <1>1, <2>1, <2>5, <2>8, <2>9, <2>10, <2>11 DEF Inv
<1> QED
  BY <1>2, <1>3

\* combineSyncKinds says "in_sync" of two slices in sync, and "vault_behind"
\* only when neither slice has a key the device lacks.
LEMMA CombineBehind ==
  ASSUME NEW local, NEW remote, NEW pl, NEW pr,
         Combine(Kind(local, remote), Kind(pl, pr)) \in {"in_sync", "vault_behind"}
  PROVE  remote \subseteq local
  BY DEF Combine, Kind

\* A comparison that found the device in sync or ahead read the vault, and
\* the vault held no site key the device lacks.
LEMMA ComparedBehind ==
  ASSUME Inv, NEW d \in Device, NEW kind \in SyncKinds(d)
  PROVE  /\ kind # "no_vault" => vault \in Vault
         /\ kind \in {"in_sync", "vault_behind"} => vault.repos \subseteq repos[d]
<1>1. CASE vault = None
  BY <1>1 DEF SyncKinds
<1>2. CASE vault # None
  BY <1>2, CombineBehind DEF SyncKinds, Inv, TypeOK
<1> QED
  BY <1>1, <1>2

LEMMA StepCompare ==
  ASSUME Inv, NEW d \in Device, Compare(d)
  PROVE  Inv' /\ vault' = vault
<1>1. PICK kind \in SyncKinds(d) :
        LET seq == IF kind = "no_vault" THEN 0 ELSE vault.seq
        IN  /\ \/ /\ Doing(d, {"create", "add", "drop"}, "compare")
                  /\ op' = [op EXCEPT ![d].step = "change", ![d].cmp = seq,
                                      ![d].aligned = Aligned(op[d].goal, kind)]
               \/ /\ Doing(d, {"quiet"}, "compare")
                  /\ op' = [op EXCEPT ![d] =
                              IF kind = "vault_behind"
                                THEN [@ EXCEPT !.step = "fetch", !.cmp = seq]
                              ELSE IF kind = "delegate_behind"
                                THEN [@ EXCEPT !.step = "fetch", !.goal = "pull"]
                              ELSE None]
            /\ UNCHANGED <<vault, repos, pages, bundle>>
  BY DEF Compare
<1> DEFINE seq == IF kind = "no_vault" THEN 0 ELSE vault.seq
<1>2. /\ kind # "no_vault" => vault \in Vault
      /\ kind \in {"in_sync", "vault_behind"} => vault.repos \subseteq repos[d]
  BY ComparedBehind
<1>3. seq \in Nat /\ (seq # 0 => vault # None /\ seq <= vault.seq)
  BY <1>2 DEF Vault
<1>4. d \in Client
  BY DEF Client
<1>5. op[d] # None /\ op[d] \in Op
  BY <1>1, <1>4 DEF Doing, Inv, TypeOK
<1>6. /\ IF op[d].goal \in {"mint", "revoke"} THEN op[d].arg \subseteq ApiKey
         ELSE op[d].arg \subseteq Prefix
      /\ op[d].seen # None => op[d].seen \in Vault
  BY <1>4, <1>5 DEF Inv, ArgOK, Op
<1>7. CASE /\ Doing(d, {"create", "add", "drop"}, "compare")
           /\ op' = [op EXCEPT ![d].step = "change", ![d].cmp = seq,
                               ![d].aligned = Aligned(op[d].goal, kind)]
  <2> DEFINE o == [op[d] EXCEPT !.step = "change", !.cmp = seq,
                                !.aligned = Aligned(op[d].goal, kind)]
  <2>1. op' = [op EXCEPT ![d] = o]
    BY <1>7
  <2>2. o \in Op
    BY <1>3, <1>5 DEF Op, Aligned
  <2>3. /\ o.goal = op[d].goal /\ o.goal \in {"create", "add", "drop"}
        /\ o.step = "change" /\ o.seen = op[d].seen /\ o.arg = op[d].arg
        /\ o.cmp = seq /\ o.aligned = Aligned(op[d].goal, kind)
    BY <1>5, <1>7 DEF Op, Doing
  <2>4. o.seen = None
    BY <1>4, <1>7, <2>3 DEF Inv, WriteOK, Doing
  <2>5. Ahead(o) => vault.repos \subseteq repos[d]
    BY <1>2, <2>3 DEF Ahead, Aligned
  <2> HIDE DEF o
  <2>6. Inv'
    BY <1>1, <1>3, <1>4, <1>6, <2>1, <2>2, <2>3, <2>4, <2>5, Types, Local
  <2> QED
    BY <1>1, <2>6
<1>8. CASE /\ Doing(d, {"quiet"}, "compare")
           /\ op' = [op EXCEPT ![d] =
                       IF kind = "vault_behind" THEN [@ EXCEPT !.step = "fetch", !.cmp = seq]
                       ELSE IF kind = "delegate_behind"
                         THEN [@ EXCEPT !.step = "fetch", !.goal = "pull"]
                       ELSE None]
  <2> DEFINE o == IF kind = "vault_behind" THEN [op[d] EXCEPT !.step = "fetch", !.cmp = seq]
                  ELSE IF kind = "delegate_behind"
                    THEN [op[d] EXCEPT !.step = "fetch", !.goal = "pull"]
                  ELSE None
  <2>1. op' = [op EXCEPT ![d] = o]
    BY <1>8
  <2>2. o \in Op \cup {None}
    BY <1>3, <1>5 DEF Op, Goal
  <2>3. op[d].seen = None
    BY <1>4, <1>8 DEF Inv, WriteOK, Doing
  <2>4. op[d].cmp # 0 => vault # None /\ op[d].cmp <= vault.seq
    BY <1>5 DEF Inv, CmpOK
  <2>5. o # None =>
          /\ o.goal \in {"quiet", "pull"} /\ o.step = "fetch"
          /\ o.seen = None /\ o.arg = op[d].arg
          /\ o.goal = "quiet" => o.cmp = seq /\ kind = "vault_behind"
          /\ o.goal = "pull" => o.cmp = op[d].cmp
    BY <1>5, <1>8, <2>3 DEF Op, Doing
  <2>6. o # None => op[d].goal = "quiet" /\ op[d].arg \subseteq Prefix
    BY <1>6, <1>8 DEF Doing
  <2> HIDE DEF o
  <2>7. Inv'
    BY <1>1, <1>2, <1>3, <1>4, <2>1, <2>2, <2>4, <2>5, <2>6, Types, Local DEF Ahead
  <2> QED
    BY <1>1, <2>7
<1> QED
  BY <1>1, <1>7, <1>8

LEMMA StepBegin ==
  ASSUME Inv, NEW w \in Client, NEW goal \in Goal, NEW arg,
         IF goal \in {"mint", "revoke"} THEN arg \subseteq ApiKey ELSE arg \subseteq Prefix,
         Begin(w, goal, arg)
  PROVE  Inv' /\ vault' = vault
<1> DEFINE o == [goal |-> goal, step |-> FirstStep(goal), arg |-> arg,
                 aligned |-> FALSE, cmp |-> 0, seen |-> None]
<1>1. op' = [op EXCEPT ![w] = o] /\ UNCHANGED <<vault, repos, pages, bundle>>
  BY DEF Begin
<1>2. o \in Op
  <2>1. arg \in (SUBSET Prefix) \cup (SUBSET ApiKey)
    OBVIOUS
  <2>2. FirstStep(goal) \in {"compare", "change", "fetch", "write"}
    BY DEF FirstStep
  <2> QED
    BY <2>1, <2>2 DEF Op
<1>3. /\ o.goal = goal /\ o.arg = arg /\ o.seen = None /\ o.cmp = 0
      /\ o.step # "write"
  BY DEF FirstStep
<1> HIDE DEF o
<1> QED
  BY <1>1, <1>2, <1>3, Types, Local

LEMMA StepStart ==
  ASSUME Inv, NEW d \in Device, Start(d)
  PROVE  Inv' /\ vault' = vault
<1>1. d \in Client
  BY Types
<1>2. \A p \in Prefix : {p} \subseteq Prefix
  OBVIOUS
<1>3. \A k \in ApiKey : {k} \subseteq ApiKey
  OBVIOUS
<1>4. /\ {"quiet", "push", "pull", "ensure", "settings", "create", "add", "drop", "leave"} \subseteq Goal
      /\ {"mint", "revoke"} \subseteq Goal
  BY DEF Goal, PushGoal
<1>5. CASE \E goal \in {"quiet", "push", "pull", "ensure", "settings"} : Begin(d, goal, {})
  BY <1>1, <1>4, <1>5, StepBegin
<1>6. CASE \E p \in Prefix : Unused(p) /\ Begin(d, "create", {p})
  BY <1>1, <1>2, <1>4, <1>6, StepBegin
<1>7. CASE \E ps \in SUBSET Prefix : Begin(d, "add", ps)
  BY <1>1, <1>4, <1>7, StepBegin
<1>8. CASE \E p \in Prefix, goal \in {"drop", "leave"} : Begin(d, goal, {p})
  BY <1>1, <1>2, <1>4, <1>8, StepBegin
<1>9. CASE \E k \in ApiKey, goal \in {"mint", "revoke"} : Begin(d, goal, {k})
  BY <1>1, <1>3, <1>4, <1>9, StepBegin
<1> QED
  BY <1>5, <1>6, <1>7, <1>8, <1>9 DEF Start

LEMMA StepChange ==
  ASSUME Inv, NEW d \in Device, Change(d)
  PROVE  Inv' /\ vault' = vault
<1> DEFINE o == IF op[d].aligned \/ op[d].goal = "leave"
                THEN [op[d] EXCEPT !.step = "fetch"] ELSE None
<1>1. /\ op' = [op EXCEPT ![d] = o] /\ UNCHANGED <<vault, pages, bundle>>
      /\ op[d] # None /\ op[d] \in Op /\ op[d].step = "change"
      /\ op[d].goal \in {"create", "add", "drop", "leave"}
      /\ d \in Client /\ op[d].arg \subseteq Prefix
  BY Types DEF Change, Doing, Inv, ArgOK
<1>2. repos' = [repos EXCEPT ![d] = IF op[d].goal \in {"drop", "leave"}
                                    THEN @ \ op[d].arg ELSE @ \cup op[d].arg]
  BY DEF Change
<1>3. repos' \in [Device -> SUBSET Prefix] /\ \A e \in Device : e # d => repos'[e] = repos[e]
  BY <1>1, <1>2, Types
<1>4. o \in Op \cup {None}
  BY <1>1 DEF Op
<1>5. o # None =>
        /\ o.goal = op[d].goal /\ o.arg = op[d].arg /\ o.cmp = op[d].cmp
        /\ o.seen = op[d].seen /\ o.aligned = op[d].aligned /\ o.step = "fetch"
        /\ op[d].aligned \/ op[d].goal = "leave"
  BY <1>1 DEF Op
<1>6. op[d].seen = None
  BY <1>1 DEF Inv, WriteOK
<1>7. op[d].cmp # 0 => vault # None /\ op[d].cmp <= vault.seq
  BY <1>1 DEF Inv, CmpOK
<1>8. op[d].cmp # 0 /\ op[d].cmp = vault.seq /\ op[d].aligned /\ op[d].goal # "leave"
        => vault.repos \subseteq repos'[d] \cup (IF op[d].goal = "drop" THEN op[d].arg ELSE {})
  BY <1>1, <1>2, Types DEF Inv, CmpOK, Ahead, Lacks
<1> HIDE DEF o
<1>9. o # None /\ Ahead(o) => op[d].aligned /\ op[d].goal # "leave"
  BY <1>1, <1>5 DEF Ahead
<1>10. o # None => Lacks(o) = IF op[d].goal = "drop" THEN op[d].arg ELSE {}
  BY <1>5 DEF Lacks
<1> QED
  BY <1>1, <1>3, <1>4, <1>5, <1>6, <1>7, <1>8, <1>9, <1>10, Types, Local

LEMMA StepFetch ==
  ASSUME Inv, NEW w \in Client, Fetch(w)
  PROVE  Inv' /\ vault' = vault
<1>0. PICK read \in {vault, None} :
        op' = [op EXCEPT ![w] = IF (op[w].goal = "ensure") = (read = None)
                                THEN [@ EXCEPT !.step = "write", !.seen = read] ELSE None]
  BY DEF Fetch
<1> DEFINE o == IF (op[w].goal = "ensure") = (read = None)
                THEN [op[w] EXCEPT !.step = "write", !.seen = read] ELSE None
<1>1. /\ op' = [op EXCEPT ![w] = o] /\ UNCHANGED <<vault, repos, pages, bundle>>
      /\ op[w] # None /\ op[w] \in Op /\ op[w].step = "fetch"
  BY <1>0, Types DEF Fetch
<1>2. o \in Op \cup {None}
  BY <1>1 DEF Op, Inv, TypeOK
<1>3. o # None =>
        /\ o.goal = op[w].goal /\ o.arg = op[w].arg /\ o.cmp = op[w].cmp
        /\ o.aligned = op[w].aligned /\ o.step = "write" /\ o.seen = read
        /\ op[w].goal = "ensure" <=> read = None
  BY <1>1 DEF Op
<1>4. IF op[w].goal \in {"mint", "revoke"} THEN op[w].arg \subseteq ApiKey
      ELSE op[w].arg \subseteq Prefix
  BY <1>1 DEF Inv, ArgOK
<1> HIDE DEF o
<1>5. w \in Device /\ o # None =>
        /\ o.cmp # 0 => vault # None /\ o.cmp <= vault.seq
        /\ o.cmp # 0 /\ o.cmp = vault.seq /\ Ahead(o)
             => vault.repos \subseteq repos[w] \cup Lacks(o)
  BY <1>1, <1>3 DEF Inv, CmpOK, Ahead, Lacks
<1> QED
  BY <1>1, <1>2, <1>3, <1>4, <1>5, Types, Local

\* The states the clients submit.  Each is built from the state the client
\* read, or is the first; this is all the invariant needs of them.
Written(w) ==
  \E next \in Vault :
    /\ op[w] # None /\ op[w].step = "write"
    /\ Submit(w, next)
    /\ IF op[w].seen = None THEN next.seq = 1 ELSE next.seq = op[w].seen.seq + 1
    /\ op[w].goal \in PushGoal => w \in Device /\ next.repos = repos[w]

LEMMA StepWrite ==
  ASSUME Inv, NEW w \in Client,
         \/ w \in Device /\ (\/ WritePush(w) \/ WriteSettings(w) \/ WriteMint(w)
                             \/ WriteRevoke(w) \/ WriteEnsure(w))
         \/ w \in ApiKey /\ WriteBundle(w)
  PROVE  Written(w)
<1>1. /\ op[w] # None => op[w] \in Op
      /\ op[w] # None /\ op[w].goal \in {"mint", "revoke"} => op[w].arg \subseteq ApiKey
      /\ op[w] # None /\ op[w].step = "write" /\ op[w].goal # "ensure" => op[w].seen \in Vault
      /\ op[w] # None /\ op[w].step = "write" /\ op[w].goal = "ensure" => op[w].seen = None
  BY Types DEF Inv, ArgOK, WriteOK, Op
<1>2. /\ w \in Device => repos[w] \subseteq Prefix /\ pages[w] \subseteq Prefix
      /\ bundle \subseteq Prefix
  BY Types
<1>4. CASE w \in Device /\ WritePush(w)
  <2>1. PICK ps \in Exported(w) :
          Submit(w, [op[w].seen EXCEPT !.seq = @ + 1, !.by = Owner,
                                       !.repos = repos[w], !.pages = ps])
    BY <1>4 DEF WritePush
  <2>2. ps \in SUBSET Prefix
    BY <1>2, <1>4 DEF Exported
  <2>3. op[w] # None /\ op[w].step = "write" /\ op[w].goal \in PushGoal
    BY <1>4 DEF WritePush, Doing
  <2>4. op[w].seen \in Vault
    BY <1>1, <2>3 DEF PushGoal
  <2> DEFINE next == [op[w].seen EXCEPT !.seq = op[w].seen.seq + 1, !.by = Owner,
                                       !.repos = repos[w], !.pages = ps]
  <2>5. next \in Vault /\ next.seq = op[w].seen.seq + 1 /\ next.repos = repos[w]
    <3> DEFINE v == op[w].seen
               rs == repos[w]
               n  == v.seq + 1
    <3>1. v \in Vault /\ rs \in SUBSET Prefix /\ n \in Nat \ {0}
      BY <1>2, <1>4, <2>4 DEF Vault
    <3>2. next = [v EXCEPT !.seq = n, !.by = Owner, !.repos = rs, !.pages = ps]
      OBVIOUS
    <3> HIDE DEF v, rs, n, next
    <3>3. next \in Vault /\ next.seq = n /\ next.repos = rs
      BY <2>2, <3>1, <3>2 DEF Vault
    <3> QED
      BY <3>3 DEF v, rs, n
  <2>6. Submit(w, next)
    BY <2>1
  <2> HIDE DEF next
  <2> QED
    BY <1>4, <2>3, <2>4, <2>5, <2>6 DEF Written
<1>5. CASE w \in Device /\ WriteMint(w)
  <2>1. op[w] # None /\ op[w].step = "write" /\ op[w].goal = "mint"
    BY <1>5 DEF WriteMint, Doing
  <2>2. op[w].seen \in Vault /\ op[w].seen.keys \cup op[w].arg \in SUBSET ApiKey
    BY <1>1, <2>1 DEF Vault
  <2> DEFINE v  == op[w].seen
             ks == v.keys \cup op[w].arg
             n  == v.seq + 1
             next == [v EXCEPT !.seq = n, !.by = Owner, !.pages = {}, !.keys = ks]
  <2>3. next \in Vault /\ next.seq = op[w].seen.seq + 1
    <3>1. v \in Vault /\ ks \in SUBSET ApiKey /\ n \in Nat \ {0}
      BY <2>2 DEF Vault
    <3> HIDE DEF v, ks, n
    <3>2. next \in Vault /\ next.seq = n
      BY <3>1 DEF Vault
    <3> QED
      BY <3>2 DEF v, n
  <2>4. Submit(w, next)
    BY <1>5 DEF WriteMint
  <2> HIDE DEF next
  <2> QED
    BY <2>1, <2>2, <2>3, <2>4 DEF Written, PushGoal
<1>6. CASE w \in Device /\ WriteRevoke(w)
  <2>1. op[w] # None /\ op[w].step = "write" /\ op[w].goal = "revoke"
    BY <1>6 DEF WriteRevoke, Doing
  <2>2. op[w].seen \in Vault /\ op[w].seen.keys \ op[w].arg \in SUBSET ApiKey
    BY <1>1, <2>1 DEF Vault
  <2> DEFINE v  == op[w].seen
             ks == v.keys \ op[w].arg
             n  == v.seq + 1
             next == [v EXCEPT !.seq = n, !.by = Owner, !.pages = {}, !.keys = ks]
  <2>3. next \in Vault /\ next.seq = op[w].seen.seq + 1
    <3>1. v \in Vault /\ ks \in SUBSET ApiKey /\ n \in Nat \ {0}
      BY <2>2 DEF Vault
    <3> HIDE DEF v, ks, n
    <3>2. next \in Vault /\ next.seq = n
      BY <3>1 DEF Vault
    <3> QED
      BY <3>2 DEF v, n
  <2>4. Submit(w, next)
    BY <1>6 DEF WriteRevoke
  <2> HIDE DEF next
  <2> QED
    BY <2>1, <2>2, <2>3, <2>4 DEF Written, PushGoal
<1>7. CASE w \in Device /\ WriteEnsure(w)
  <2>1. op[w] # None /\ op[w].step = "write" /\ op[w].goal = "ensure" /\ op[w].seen = None
    BY <1>1, <1>7 DEF WriteEnsure, Doing
  <2>2. [seq |-> 1, by |-> Owner, repos |-> repos[w], pages |-> {}, keys |-> {}] \in Vault
    BY <1>2, <1>7 DEF Vault
  <2> QED
    BY <1>7, <2>1, <2>2 DEF Written, WriteEnsure, PushGoal
<1>8. CASE w \in ApiKey /\ WriteBundle(w)
  <2>1. op[w] # None /\ op[w].step = "write" /\ op[w].goal = "sync-bundle"
    BY <1>8 DEF WriteBundle, Doing
  <2>2. op[w].seen \in Vault /\ op[w].seen.repos \cup bundle \in SUBSET Prefix
    BY <1>1, <1>2, <2>1 DEF Vault
  <2> DEFINE next == [op[w].seen EXCEPT !.seq = op[w].seen.seq + 1, !.by = w,
                                       !.repos = op[w].seen.repos \cup bundle]
  <2>3. next \in Vault /\ next.seq = op[w].seen.seq + 1
    <3> DEFINE v  == op[w].seen
               rs == v.repos \cup bundle
               n  == v.seq + 1
    <3>1. v \in Vault /\ rs \in SUBSET Prefix /\ n \in Nat \ {0}
      BY <2>2 DEF Vault
    <3>2. next = [v EXCEPT !.seq = n, !.by = w, !.repos = rs]
      OBVIOUS
    <3> HIDE DEF v, rs, n, next
    <3>3. next \in Vault /\ next.seq = n
      BY <1>8, <3>1, <3>2 DEF Vault
    <3> QED
      BY <3>3 DEF v, n
  <2>4. Submit(w, next)
    BY <1>8 DEF WriteBundle
  <2> HIDE DEF next
  <2> QED
    BY <2>1, <2>2, <2>3, <2>4 DEF Written, PushGoal
<1>9. CASE w \in Device /\ WriteSettings(w)
  <2>1. op[w] # None /\ op[w].step = "write" /\ op[w].goal = "settings"
    BY <1>9 DEF WriteSettings, Doing
  <2>2. op[w].seen \in Vault
    BY <1>1, <2>1
  <2> DEFINE v == op[w].seen
             n == v.seq + 1
             next == [v EXCEPT !.seq = n, !.by = Owner]
  <2>3. next \in Vault /\ next.seq = op[w].seen.seq + 1
    <3>1. v \in Vault /\ n \in Nat \ {0}
      BY <2>2 DEF Vault
    <3> HIDE DEF v, n
    <3>2. next \in Vault /\ next.seq = n
      BY <3>1 DEF Vault
    <3> QED
      BY <3>2 DEF v, n
  <2>4. Submit(w, next)
    BY <1>9 DEF WriteSettings
  <2> HIDE DEF next
  <2> QED
    BY <2>1, <2>2, <2>3, <2>4 DEF Written, PushGoal
<1> QED
  BY <1>4, <1>5, <1>6, <1>7, <1>8, <1>9

\* What a step has to do with vault and delegates, whoever takes it.
LEMMA StepInv ==
  ASSUME Inv, Next
  PROVE  Inv' /\ (vault' # vault => \E w \in Client : Written(w) /\ op[w].seen = vault)
<1>1. ASSUME NEW w \in Client, Written(w)
      PROVE  Inv' /\ (vault' # vault => op[w].seen = vault)
  BY <1>1, Submitted DEF Written
<1>2. ASSUME NEW d \in Device, DeviceNext(d)
      PROVE  Inv' /\ (vault' # vault => Written(d) /\ op[d].seen = vault)
  <2>1. d \in Client
    BY Types
  <2>2. CASE Start(d)
    BY <2>2, StepStart
  <2>3. CASE Compare(d)
    BY <2>3, StepCompare
  <2>4. CASE Change(d)
    BY <2>4, StepChange
  <2>5. CASE \/ WritePush(d) \/ WriteSettings(d) \/ WriteMint(d)
             \/ WriteRevoke(d) \/ WriteEnsure(d)
    BY <1>1, <2>1, <2>5, StepWrite
  <2>6. CASE Pull(d)
    <3>1. op[d] # None /\ op[d].step = "write" /\ op[d].goal = "pull"
      BY <2>6 DEF Pull, Doing
    <3>2. op[d].seen \in Vault
      BY <2>1, <3>1, Types DEF Inv, WriteOK, Op
    <3>3. /\ op[d].seen.repos \subseteq Prefix
          /\ op[d].seen.pages \subseteq Prefix
      BY <3>2 DEF Vault
    <3> QED
      BY <2>1, <2>6, <3>3, Types, Ends DEF Pull
  <2>7. CASE Relogin(d)
    <3>1. op' = [op EXCEPT ![d] = None]
      BY <2>7, Types DEF Relogin, Inv, TypeOK
    <3> QED
      BY <2>1, <2>7, <3>1, Types, Ends DEF Relogin, Done
  <2>8. CASE \E p \in Prefix : EnablePages(d, p)
    <3>1. PICK p \in Prefix : EnablePages(d, p)
      BY <2>8
    <3>2. op' = [op EXCEPT ![d] = None]
      BY <3>1, Types DEF EnablePages, Inv, TypeOK
    <3> QED
      BY <2>1, <3>1, <3>2, Types, Ends DEF EnablePages, Done
  <2> QED
    BY <1>2, <2>2, <2>3, <2>4, <2>5, <2>6, <2>7, <2>8 DEF DeviceNext
<1>3. ASSUME NEW k \in ApiKey, Begin(k, "sync-bundle", {}) \/ WriteBundle(k)
      PROVE  Inv' /\ (vault' # vault => Written(k) /\ op[k].seen = vault)
  <2>1. k \in Client /\ "sync-bundle" \in Goal
    BY DEF Client, Goal
  <2>2. CASE Begin(k, "sync-bundle", {})
    BY <2>1, <2>2, StepBegin
  <2>3. CASE WriteBundle(k)
    BY <1>1, <2>1, <2>3, StepWrite
  <2> QED
    BY <1>3, <2>2, <2>3
<1>4. ASSUME NEW w \in Client, Fetch(w) \/ Fail(w)
      PROVE  Inv' /\ vault' = vault
  <2>1. CASE Fail(w)
    BY <2>1, Types, Ends DEF Fail
  <2> QED
    BY <1>4, <2>1, StepFetch
<1>5. ASSUME NEW p \in Prefix, BundleCreate(p)
      PROVE  Inv' /\ vault' = vault
  <2>1. UNCHANGED <<vault, repos, pages, op>> /\ bundle' \subseteq Prefix
    BY <1>5, Types DEF BundleCreate
  <2>2. TypeOK'
    BY <2>1 DEF Inv, TypeOK
  <2> QED
    BY <2>1, <2>2 DEF Inv, ArgOK, WriteOK, SeenIsPast, CmpOK, Ahead, Lacks
<1> QED
  BY <1>2, <1>3, <1>4, <1>5, Types DEF Next, Client

LEMMA StutterInv ==
  ASSUME Inv, UNCHANGED vars
  PROVE  Inv'
  BY DEF vars, Inv, TypeOK, ArgOK, WriteOK, SeenIsPast, CmpOK, Ahead, Lacks

LEMMA InitInv == Init => Inv
  BY DEF Init, Inv, TypeOK, ArgOK, WriteOK, SeenIsPast, CmpOK, Client

LEMMA SpecInv == Spec => []Inv
  BY InitInv, StepInv, StutterInv, PTL DEF Spec

\* Type correctness.
THEOREM TypeCorrect == Spec => []TypeOK
<1>1. Inv => TypeOK
  BY DEF Inv
<1> QED
  BY <1>1, SpecInv, PTL

\* What a client read is a past state of the vault, or the present one.
THEOREM SeenIsPastAlways == Spec => []SeenIsPast
<1>1. Inv => SeenIsPast
  BY DEF Inv
<1> QED
  BY <1>1, SpecInv, PTL

\* Who wrote the vault, and from what.
LEMMA Writer ==
  ASSUME Inv, Next, vault' # vault
  PROVE  \E w \in Client :
           /\ op[w] # None /\ op[w].seen = vault /\ op[w].step = "write"
           /\ vault' \in Vault
           /\ vault # None => vault'.seq > vault.seq
           /\ op' = [op EXCEPT ![w] = None]
           /\ op[w].goal \in PushGoal => w \in Device /\ vault'.repos = repos[w]
<1>1. PICK w \in Client : Written(w) /\ op[w].seen = vault
  BY StepInv
<1>2. PICK next \in Vault :
        /\ op[w] # None /\ op[w].step = "write"
        /\ Submit(w, next)
        /\ IF op[w].seen = None THEN next.seq = 1 ELSE next.seq = op[w].seen.seq + 1
        /\ op[w].goal \in PushGoal => w \in Device /\ next.repos = repos[w]
  BY <1>1 DEF Written
<1>3. vault' = next /\ op' = [op EXCEPT ![w] = None]
  BY <1>2, Submitted
<1>4. vault # None => next.seq > vault.seq
  BY <1>1, <1>2 DEF Inv, TypeOK, Vault
<1> QED
  BY <1>1, <1>2, <1>3, <1>4

\* A step is one client's: it leaves the operations of the others alone.
LEMMA OneClient ==
  ASSUME Inv, Next
  PROVE  \/ UNCHANGED op
         \/ \E w \in Client : \A v \in Client : v # w => op'[v] = op[v]
<1> DEFINE Only(w) == \A v \in Client : v # w => op'[v] = op[v]
<1>0. op \in [Client -> Op \cup {None}]
  BY DEF Inv, TypeOK
<1>1. ASSUME NEW w \in Client, NEW next, Submit(w, next) PROVE Only(w)
  BY <1>0, <1>1 DEF Submit, Done
<1>2. ASSUME NEW w \in Client, NEW goal, NEW arg, Begin(w, goal, arg) PROVE Only(w)
  BY <1>2, Types DEF Begin
<1>3. ASSUME NEW d \in Device, DeviceNext(d) PROVE Only(d)
  <2>0. d \in Client
    BY Types
  <2>1. CASE Start(d)
    BY <1>2, <2>0, <2>1 DEF Start
  <2>2. CASE Compare(d)
    BY <1>0, <2>0, <2>2 DEF Compare
  <2>3. CASE Change(d) \/ Pull(d)
    BY <1>0, <2>0, <2>3 DEF Change, Pull, Done
  <2>4. CASE WritePush(d) \/ WriteSettings(d) \/ WriteMint(d) \/ WriteRevoke(d) \/ WriteEnsure(d)
    BY <1>1, <2>0, <2>4 DEF WritePush, WriteSettings, WriteMint, WriteRevoke, WriteEnsure
  <2>5. CASE Relogin(d) \/ \E p \in Prefix : EnablePages(d, p)
    BY <2>5 DEF Relogin, EnablePages
  <2> QED
    BY <1>3, <2>1, <2>2, <2>3, <2>4, <2>5 DEF DeviceNext
<1>4. ASSUME NEW k \in ApiKey, Begin(k, "sync-bundle", {}) \/ WriteBundle(k) PROVE Only(k)
  BY <1>1, <1>2, <1>4 DEF WriteBundle, Client
<1>5. ASSUME NEW w \in Client, Fetch(w) \/ Fail(w) PROVE Only(w)
  BY <1>0, <1>5 DEF Fetch, Fail, Done
<1>6. ASSUME NEW p \in Prefix, BundleCreate(p) PROVE UNCHANGED op
  BY <1>6 DEF BundleCreate
<1> QED
  BY <1>3, <1>4, <1>5, <1>6, Types DEF Next, Client

LEMMA StepRegister == Inv /\ [Next]_vars => [Register!Next]_(Register!vars)
<1> SUFFICES ASSUME Inv, [Next]_vars PROVE [Register!Next]_(Register!vars)
  OBVIOUS
<1>1. CASE UNCHANGED vars
  <2>1. Fresh' = Fresh
    BY <1>1 DEF Fresh, vars
  <2> QED
    BY <1>1, <2>1 DEF Register!vars, vars
<1>2. CASE Next /\ vault' # vault
  <2>1. PICK w \in Client :
          /\ op[w] # None /\ op[w].seen = vault /\ op[w].step = "write"
          /\ vault' \in Vault
          /\ vault # None => vault'.seq > vault.seq
          /\ op' = [op EXCEPT ![w] = None]
    BY <1>2, Writer
  <2>2. w \in Fresh
    BY <2>1 DEF Fresh
  <2>3. ASSUME NEW v \in Client, op'[v] # None, op'[v].seen = vault' PROVE FALSE
    <3>1. op'[v] = op[v]
      BY <2>1, <2>3 DEF Inv, TypeOK
    <3>2. op[v].seen # None /\ op[v].seen = vault'
      BY <2>1, <2>3, <3>1
    <3>3. vault # None /\ vault'.seq <= vault.seq
      BY <2>3, <3>1, <3>2 DEF Inv, SeenIsPast
    <3> QED
      BY <2>1, <3>3 DEF Inv, TypeOK, Vault
  <2>4. Fresh' = {}
    BY <2>3 DEF Fresh
  <2>5. Register!Store(w)
    BY <1>2, <2>1, <2>2, <2>4 DEF Register!Store
  <2> QED
    BY <2>5 DEF Register!Next
<1>3. CASE Next /\ vault' = vault
  <2>1. CASE UNCHANGED op
    <3>1. Fresh' = Fresh
      BY <1>3, <2>1 DEF Fresh
    <3> QED
      BY <1>3, <3>1 DEF Register!vars
  <2>2. CASE \E w \in Client : \A v \in Client : v # w => op'[v] = op[v]
    <3>1. PICK w \in Client : \A v \in Client : v # w => op'[v] = op[v]
      BY <2>2
    <3>2. \A v \in Client : v # w => (v \in Fresh' <=> v \in Fresh)
      BY <1>3, <3>1 DEF Fresh
    <3>3. Fresh \subseteq Client /\ Fresh' \subseteq Client
      BY DEF Fresh
    <3>4. CASE w \in Fresh'
      <4>1. Fresh' = Fresh \cup {w}
        BY <3>2, <3>3, <3>4
      <4> QED
        BY <1>3, <4>1 DEF Register!Next, Register!Load
    <3>5. CASE w \notin Fresh'
      <4>1. Fresh' = Fresh \ {w}
        BY <3>2, <3>3, <3>5
      <4> QED
        BY <1>3, <4>1 DEF Register!Next, Register!Forget
    <3> QED
      BY <3>4, <3>5
  <2> QED
    BY <1>3, <2>1, <2>2, OneClient
<1> QED
  BY <1>1, <1>2, <1>3

LEMMA StepCompared == Inv /\ [Next]_vars => [ComparedKeep]_vars
<1> SUFFICES ASSUME Inv, Next, NEW d \in Device,
                    Wrote(d, {"quiet", "create", "add", "drop"}), op[d].cmp = vault.seq
             PROVE  DroppedBy(d) \subseteq Asked(d)
  BY DEF ComparedKeep, vars
<1>1. /\ vault' # vault /\ op[d] # None /\ op'[d] = None /\ op[d].step = "write"
      /\ op[d].goal \in {"quiet", "create", "add", "drop"}
  BY DEF Wrote, Doing
<1>2. PICK w \in Client :
        /\ op' = [op EXCEPT ![w] = None]
        /\ op[w].goal \in PushGoal => w \in Device /\ vault'.repos = repos[w]
  BY <1>1, Writer
<1>3. d = w
  BY <1>1, <1>2 DEF Inv, TypeOK, Client
<1>4. vault'.repos = repos[d]
  BY <1>1, <1>2, <1>3 DEF PushGoal
<1>5. CASE vault = None
  BY <1>5 DEF DroppedBy
<1>6. CASE vault # None
  <2>1. op[d].cmp # 0
    BY <1>6 DEF Inv, TypeOK, Vault
  <2>2. vault.repos \subseteq repos[d] \cup Lacks(op[d])
    BY <1>1, <2>1 DEF Inv, CmpOK, Ahead
  <2> QED
    BY <1>4, <1>6, <2>2 DEF DroppedBy, Asked, Lacks
<1> QED
  BY <1>5, <1>6

\* The vault and its clients implement the register with conditional store:
\* a write lands only on the state its client read, whatever the others do.
THEOREM ImplementsRegister == Spec => ActsAsRegister
<1>1. Init => Register!Init
  BY DEF Init, Register!Init, Fresh
<1> QED
  BY <1>1, SpecInv, StepRegister, PTL DEF Spec, ActsAsRegister, Register!Spec

\* A push that compared the vault first, and wrote the state it compared with,
\* takes no site key from the vault but the one the user deleted.
THEOREM ComparedPushKeepsKeysAlways == Spec => ComparedPushKeepsKeys
<1>1. [ComparedKeep]_vars
      => [\A d \in Device :
            Wrote(d, {"quiet", "create", "add", "drop"}) /\ op[d].cmp = vault.seq
              => DroppedBy(d) \subseteq Asked(d)]_vars
  BY DEF ComparedKeep
<1> QED
  BY <1>1, SpecInv, StepCompared, PTL DEF Spec, ComparedPushKeepsKeys
=============================================================================
