--------------------------- MODULE VaultReplicas ---------------------------
(***************************************************************************)
(* The copies that nodes hold of one vault.  VaultSync follows the clients *)
(* of one copy; here every write is one step, and what is at stake is what *)
(* copies that are written apart do to each other: contracts/forge-vault   *)
(* takes the state of a peer for one more update, checked against its own  *)
(* copy.                                                                   *)
(***************************************************************************)
EXTENDS ForgeVault

CONSTANTS VaultHost, MaxVaultSeq

ASSUME VaultBoundAssumption == MaxVaultSeq \in Nat

VARIABLE copies  \* the copy of each node, None if it hosts none

replicaVars == <<copies>>

SeqOf(n) == IF copies[n] = None THEN 0 ELSE copies[n].seq

Store(n, next) == copies' = [copies EXCEPT ![n] = next]

\* The owner's browser on a node publishes over the copy it finds there.
OwnerWrites(n) ==
  /\ SeqOf(n) < MaxVaultSeq
  /\ \E repos, pages \in SUBSET Prefix, keys \in SUBSET ApiKey :
       Store(n, [seq |-> SeqOf(n) + 1, by |-> Owner,
                 repos |-> repos, pages |-> pages, keys |-> keys])

\* A command line tool writes the envelopes of its scope.
KeyWrites(n, k) ==
  /\ copies[n] # None
  /\ SeqOf(n) < MaxVaultSeq
  /\ \E repos, pages \in SUBSET Prefix :
       LET next == [copies[n] EXCEPT !.seq = @ + 1, !.by = k,
                                     !.repos = repos, !.pages = pages]
       IN  MayUpsert(copies[n], next) /\ Store(n, next)

\* A node without a copy stores what validate_state accepts.
MayReceive(mine, theirs) ==
  IF mine = None THEN Valid(theirs) ELSE MayUpsert(mine, theirs)

SyncVaults(n, o) ==
  /\ copies[o] # None
  /\ MayReceive(copies[n], copies[o])
  /\ Store(n, copies[o])

ReplicasInit == copies = [n \in VaultHost |-> None]

ReplicasNext ==
  \E n \in VaultHost :
    \/ OwnerWrites(n)
    \/ \E k \in ApiKey : KeyWrites(n, k)
    \/ \E o \in VaultHost : SyncVaults(n, o)

ReplicasSpec == ReplicasInit /\ [][ReplicasNext]_replicaVars

ReplicasFairness == \A n, o \in VaultHost : WF_replicaVars(SyncVaults(n, o))

-----------------------------------------------------------------------------
ReplicasTypeOK == copies \in [VaultHost -> Vault \cup {None}]

\* A key that the contract lets write one envelope only never changes, in any
\* copy, the other one or the list of keys: what replaces a copy under its
\* signature differs from it in its scope alone, however many writes of others
\* the copy has missed.
KeysKeepToScope ==
  [][\A n \in VaultHost :
       (copies[n] # None /\ copies'[n] # copies[n] /\ copies'[n].by \in ApiKey) =>
         /\ copies'[n].keys = copies[n].keys
         /\ "repos" \notin Scope[copies'[n].by] => copies'[n].repos = copies[n].repos
         /\ "pages" \notin Scope[copies'[n].by] => copies'[n].pages = copies[n].pages]_replicaVars

\* Copies part: two states with one seq, or a key's state that a copy refuses
\* because it missed the owner's write before it. The owner has written since, a
\* state with a seq no other state has; the copies are together again.
OwnerWroteLast ==
  \E n \in VaultHost : /\ copies[n] # None /\ copies[n].by = Owner
                       /\ \A o \in VaultHost : SeqOf(o) < SeqOf(n) \/ copies[o] = copies[n]
VaultCopiesMeet == \A n, o \in VaultHost : copies[n] = copies[o]
=============================================================================
