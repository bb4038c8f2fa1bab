-------------------------- MODULE ContractsProofs --------------------------
(***************************************************************************)
(* Proofs about the copies that nodes hold of four contracts, for every    *)
(* set of nodes, clients, identities and messages and every bound: the     *)
(* repository's metadata, its stars, the vault, and the profile; about the *)
(* session that first Puts two of them; and about all five side by side.   *)
(***************************************************************************)
EXTENDS MCContracts, FiniteSetTheorems, TLAPS

-----------------------------------------------------------------------------
(***************************************************************************)
(* Metadata.  The type invariant is inductive as it stands.                *)
(***************************************************************************)

LEMMA ChannelAdd ==
  ASSUME NEW M, IsFiniteSet(M), NEW s \in Channel(M), NEW m \in M,
         m \notin s, Cardinality(s) < MaxChannel
  PROVE  s \cup {m} \in Channel(M)
<1>1. s \in SUBSET M /\ IsFiniteSet(s)
  BY FS_Subset DEF Channel
<1>2. Cardinality(s \cup {m}) = Cardinality(s) + 1 /\ Cardinality(s) \in Nat
  BY <1>1, FS_AddElement, FS_CardinalityType
<1>3. Cardinality(s) + 1 <= MaxChannel
  BY <1>2, MetaAssumption
<1> QED
  BY <1>1, <1>2, <1>3 DEF Channel

LEMMA ChannelPrune ==
  ASSUME NEW M, IsFiniteSet(M), NEW s \in Channel(M), NEW P
  PROVE  s \ P \in Channel(M)
<1>1. s \in SUBSET M /\ IsFiniteSet(s) /\ s \ P \in SUBSET s
  BY FS_Subset DEF Channel
<1>2. /\ Cardinality(s \ P) <= Cardinality(s)
      /\ Cardinality(s) \in Nat /\ Cardinality(s \ P) \in Nat
  BY <1>1, FS_Subset, FS_CardinalityType
<1>3. Cardinality(s) <= MaxChannel /\ MaxChannel \in Nat
  BY MetaAssumption DEF Channel
<1> QED
  BY <1>1, <1>2, <1>3 DEF Channel

LEMMA ChannelEmpty ==
  ASSUME NEW M
  PROVE  {} \in Channel(M)
BY FS_EmptySet, MetaAssumption DEF Channel

LEMMA FetchedMeta ==
  ASSUME MetaTypeOK, NEW c \in MetaClient, NEW s \in fetchForgeRepoMeta(c), Exists(s)
  PROVE  s \in Meta
BY MetaAssumption DEF MetaTypeOK, fetchForgeRepoMeta, Exists

\* A client signs a well-formed state over what it read.
LEMMA SignedMeta ==
  ASSUME NEW c \in MetaClient, NEW s, Exists(s) => s \in Meta /\ s.seq < MaxMetaSeq,
         NEW x \in Settings \cup {NoSettings}, NEW P
  PROVE  Signed(c, s, x, P) \in Meta
<1>1. SignsAs[c] \in MetaOwner /\ MaxMetaSeq \in Nat \ {0}
  BY MetaAssumption
<1>2. CASE ~Exists(s)
  BY <1>1, <1>2, ChannelEmpty DEF Signed, Meta
<1>3. CASE Exists(s)
  <2>1. s.public \ P \in Channel(Public) /\ s.private \ P \in Channel(Private)
    BY <1>3, ChannelPrune, MetaAssumption DEF Meta
  <2>2. s.seq + 1 \in 1..MaxMetaSeq
    BY <1>1, <1>3 DEF Meta
  <2> QED
    BY <1>1, <1>3, <2>1, <2>2 DEF Signed, Meta
<1> QED
  BY <1>2, <1>3

LEMMA MetaTypeInit == MetaInit => MetaTypeOK
<1> SUFFICES ASSUME MetaInit PROVE MetaTypeOK
  OBVIOUS
<1>1. \A M : {} \in Channel(M)
  BY ChannelEmpty
<1>2. 1 \in 1..MaxMetaSeq
  BY MetaAssumption
<1>3. [seq : {1}, owner : MetaOwner, settings : {NoSettings}, seal : {FALSE},
       public : {{}}, private : {{}}] \subseteq Meta
  BY <1>1, <1>2 DEF Meta
<1> QED
  BY <1>3 DEF MetaInit, MetaTypeOK

LEMMA MetaTypeStep == MetaTypeOK /\ [MetaNext]_metaVars => MetaTypeOK'
<1> SUFFICES ASSUME MetaTypeOK, [MetaNext]_metaVars PROVE MetaTypeOK'
  OBVIOUS
<1>1. ASSUME NEW n \in MetaHost, NEW m \in Public, AppendPublic(n, m) PROVE MetaTypeOK'
  <2>1. meta[n] \in Meta
    BY <1>1 DEF AppendPublic, MayAppendTo, MetaTypeOK, Exists
  <2>2. meta[n].public \cup {m} \in Channel(Public)
    BY <1>1, <2>1, ChannelAdd, MetaAssumption DEF AppendPublic, MayAppendTo, Meta
  <2>3. [meta[n] EXCEPT !.public = @ \cup {m}] \in Meta
    BY <2>1, <2>2 DEF Meta
  <2> QED
    BY <1>1, <2>3 DEF AppendPublic, MetaTypeOK
<1>2. ASSUME NEW n \in MetaHost, NEW m \in Private, AppendPrivate(n, m) PROVE MetaTypeOK'
  <2>1. meta[n] \in Meta
    BY <1>2 DEF AppendPrivate, MayAppendTo, MetaTypeOK, Exists
  <2>2. meta[n].private \cup {m} \in Channel(Private)
    BY <1>2, <2>1, ChannelAdd, MetaAssumption DEF AppendPrivate, MayAppendTo, Meta
  <2>3. [meta[n] EXCEPT !.private = @ \cup {m}] \in Meta
    BY <2>1, <2>2 DEF Meta
  <2> QED
    BY <1>2, <2>3 DEF AppendPrivate, MetaTypeOK
<1>3. ASSUME NEW n \in MetaHost, NEW o \in MetaHost, SyncMeta(n, o) PROVE MetaTypeOK'
  BY <1>3 DEF SyncMeta, MetaTypeOK
<1>4. ASSUME Forgotten PROVE MetaTypeOK'
  BY <1>4 DEF Forgotten, MetaTypeOK
<1>5. ASSUME NEW c \in MetaClient, EnsureMeta(c) PROVE MetaTypeOK'
  <2>1. PICK s \in fetchForgeRepoMeta(c) :
          /\ Exists(s) => ~s.seal /\ s.seq < MaxMetaSeq
          /\ SetDraft(c, Signed(c, s, SettingsOf(s), {}))
    BY <1>5 DEF EnsureMeta
  <2>2. Exists(s) => s \in Meta
    BY FetchedMeta
  <2>3. SettingsOf(s) \in Settings \cup {NoSettings}
    BY <2>2 DEF SettingsOf, Meta
  <2>4. Signed(c, s, SettingsOf(s), {}) \in Meta
    BY <2>1, <2>2, <2>3, SignedMeta
  <2> QED
    BY <2>1, <2>4 DEF SetDraft, MetaTypeOK
<1>6. ASSUME NEW c \in MetaClient, UpsertMeta(c) PROVE MetaTypeOK'
  <2>1. PICK s \in fetchForgeRepoMeta(c) :
          /\ Exists(s) => s.seq < MaxMetaSeq
          /\ \/ \E new \in Settings : SetDraft(c, Signed(c, s, new, {}))
             \/ \E m \in Public \cup Private : SetDraft(c, Signed(c, s, SettingsOf(s), {m}))
    BY <1>6 DEF UpsertMeta
  <2>2. Exists(s) => s \in Meta
    BY FetchedMeta
  <2>3. SettingsOf(s) \in Settings \cup {NoSettings}
    BY <2>2 DEF SettingsOf, Meta
  <2>4. PICK x \in Settings \cup {NoSettings}, P \in SUBSET (Public \cup Private) :
          SetDraft(c, Signed(c, s, x, P))
    BY <2>1, <2>3
  <2>5. Signed(c, s, x, P) \in Meta
    BY <2>1, <2>2, SignedMeta
  <2> QED
    BY <2>4, <2>5 DEF SetDraft, MetaTypeOK
<1>7. ASSUME NEW c \in MetaClient, SaveMeta(c) PROVE MetaTypeOK'
  BY <1>7, FetchedMeta DEF SaveMeta, MetaTypeOK, Exists
<1>8. ASSUME NEW c \in MetaClient, RestoreMeta(c) PROVE MetaTypeOK'
  BY <1>8 DEF RestoreMeta, SetDraft, MetaTypeOK
<1>9. ASSUME NEW c \in MetaClient, PutMeta(c) PROVE MetaTypeOK'
  BY <1>9, MetaAssumption DEF PutMeta, MetaTypeOK
<1>10. ASSUME NEW c \in MetaClient, DropDraft(c) PROVE MetaTypeOK'
  BY <1>10 DEF DropDraft, SetDraft, MetaTypeOK
<1>11. CASE UNCHANGED metaVars
  BY <1>11 DEF metaVars, MetaTypeOK
<1> QED
  BY <1>1, <1>2, <1>3, <1>4, <1>5, <1>6, <1>7, <1>8, <1>9, <1>10, <1>11 DEF MetaNext

\* Copies, snapshots and drafts of the metadata are states the contract accepts,
\* with their channels within the cap, for any nodes, clients and messages.
THEOREM MetaTypeCorrect == MetaSpec => []MetaTypeOK
BY MetaTypeInit, MetaTypeStep, PTL DEF MetaSpec

\* What MetaOnlyAdvances says of the copy of one node.
GoesOn(s, t) ==
  Exists(s) /\ Exists(t) =>
    /\ t.owner = s.owner
    /\ \/ t.seq > s.seq
       \/ /\ [t EXCEPT !.public = {}, !.private = {}] = [s EXCEPT !.public = {}, !.private = {}]
          /\ s.public \subseteq t.public
          /\ s.private \subseteq t.private

LEMMA UpsertGoesOn ==
  ASSUME NEW s, NEW t, MayUpsertMeta(s, t)
  PROVE  GoesOn(s, t)
BY DEF MayUpsertMeta, GoesOn

LEMMA MetaStep ==
  ASSUME MetaTypeOK, MetaTypeOK', [MetaNext]_metaVars, NEW n \in MetaHost
  PROVE  GoesOn(meta[n], meta'[n])
<1>0. CASE meta'[n] = meta[n]
  BY <1>0 DEF GoesOn
<1>1. ASSUME NEW h \in MetaHost, NEW m \in Public, AppendPublic(h, m)
      PROVE  GoesOn(meta[n], meta'[n])
  <2>1. CASE h # n
    BY <1>0, <1>1, <2>1 DEF AppendPublic, MetaTypeOK
  <2>2. CASE h = n
    <3>1. /\ meta[n] \in Meta
          /\ meta'[n] = [meta[n] EXCEPT !.public = @ \cup {m}]
      BY <1>1, <2>2 DEF AppendPublic, MayAppendTo, MetaTypeOK, Exists
    <3>2. meta'[n].owner = meta[n].owner /\ meta[n].public \subseteq meta'[n].public
          /\ meta'[n].private = meta[n].private
      BY <3>1 DEF Meta
    <3>3. [meta'[n] EXCEPT !.public = {}, !.private = {}]
            = [meta[n] EXCEPT !.public = {}, !.private = {}]
      BY <3>1 DEF Meta
    <3> QED
      BY <3>2, <3>3 DEF GoesOn
  <2> QED
    BY <2>1, <2>2
<1>2. ASSUME NEW h \in MetaHost, NEW m \in Private, AppendPrivate(h, m)
      PROVE  GoesOn(meta[n], meta'[n])
  <2>1. CASE h # n
    BY <1>0, <1>2, <2>1 DEF AppendPrivate, MetaTypeOK
  <2>2. CASE h = n
    <3>1. /\ meta[n] \in Meta
          /\ meta'[n] = [meta[n] EXCEPT !.private = @ \cup {m}]
      BY <1>2, <2>2 DEF AppendPrivate, MayAppendTo, MetaTypeOK, Exists
    <3>2. meta'[n].owner = meta[n].owner /\ meta[n].private \subseteq meta'[n].private
          /\ meta'[n].public = meta[n].public
      BY <3>1 DEF Meta
    <3>3. [meta'[n] EXCEPT !.public = {}, !.private = {}]
            = [meta[n] EXCEPT !.public = {}, !.private = {}]
      BY <3>1 DEF Meta
    <3> QED
      BY <3>2, <3>3 DEF GoesOn
  <2> QED
    BY <2>1, <2>2
<1>3. ASSUME NEW h \in MetaHost, NEW o \in MetaHost, SyncMeta(h, o)
      PROVE  GoesOn(meta[n], meta'[n])
  <2>1. h # n => meta'[n] = meta[n]
    BY <1>3 DEF SyncMeta, MetaTypeOK
  <2>2. h = n => MayUpsertMeta(meta[n], meta'[n])
    BY <1>3 DEF SyncMeta, MetaTypeOK
  <2> QED
    BY <1>0, <2>1, <2>2, UpsertGoesOn
<1>4. ASSUME NEW c \in MetaClient, PutMeta(c) PROVE GoesOn(meta[n], meta'[n])
  <2>1. c # n => meta'[n] = meta[n]
    BY <1>4 DEF PutMeta, MetaTypeOK
  <2>2. c = n => MayUpsertMeta(meta[n], meta'[n])
    BY <1>4 DEF PutMeta, MetaTypeOK
  <2> QED
    BY <1>0, <2>1, <2>2, UpsertGoesOn
<1>5. CASE Forgotten
  BY <1>5 DEF Forgotten, GoesOn, Exists
<1>6. CASE UNCHANGED meta
  BY <1>0, <1>6
<1> QED
  BY <1>1, <1>2, <1>3, <1>4, <1>5, <1>6 DEF MetaNext, metaVars, EnsureMeta, UpsertMeta,
     SaveMeta, RestoreMeta, DropDraft, SetDraft

\* However many holders of the site key write, restore and exchange states, the
\* copy of a node keeps its owner and only goes on while the node hosts it.
THEOREM MetaOnlyAdvancesAlways == MetaSpec => MetaOnlyAdvances
<1>1. MetaTypeOK /\ MetaTypeOK' /\ [MetaNext]_metaVars
        => \A n \in MetaHost : GoesOn(meta[n], meta'[n])
  BY MetaStep
<1>2. MetaTypeOK /\ MetaTypeOK' /\ [MetaNext]_metaVars
        => [\A n \in MetaHost :
       (Exists(meta[n]) /\ Exists(meta'[n])) =>
         /\ meta'[n].owner = meta[n].owner
         /\ \/ meta'[n].seq > meta[n].seq
            \/ /\ [meta'[n] EXCEPT !.public = {}, !.private = {}]
                    = [meta[n] EXCEPT !.public = {}, !.private = {}]
               /\ meta[n].public \subseteq meta'[n].public
               /\ meta[n].private \subseteq meta'[n].private]_metaVars
  BY <1>1 DEF GoesOn
<1> QED
  BY <1>2, MetaTypeCorrect, PTL DEF MetaSpec, MetaOnlyAdvances

-----------------------------------------------------------------------------
(***************************************************************************)
(* Stars.  A date in a copy must stand for a signed star, and nobody but   *)
(* the fickle may have signed an unstar.                                   *)
(***************************************************************************)
StarOf(i, t) == [kind |-> "star", who |-> i, starred_at |-> t]

StarsInv ==
  /\ StarsTypeOK
  /\ \A n \in StarHost, i \in Stargazer :
       stars[n][i] # 0 => StarOf(i, stars[n][i]) \in opinions
  /\ \A op \in opinions : op.kind = "unstar" => op.who \in Fickle

StaysOnce ==
  \A n \in StarHost, i \in Stargazer :
    /\ stars'[n][i] # 0 => StarOf(i, stars'[n][i]) \in opinions
    /\ (stars[n][i] # 0 /\ i \notin Fickle) => stars'[n][i] # 0

LEMMA StarsInvInit == StarsInit => StarsInv
BY StarAssumption DEF StarsInit, StarsInv, StarsTypeOK

LEMMA StarsStep == StarsInv /\ [StarsNext]_starVars => StarsInv' /\ StaysOnce
<1> SUFFICES ASSUME StarsInv, [StarsNext]_starVars PROVE StarsInv' /\ StaysOnce
  OBVIOUS
<1> USE StarAssumption DEF StarsInv, StarsTypeOK, StaysOnce
<1>1. ASSUME NEW i \in Stargazer, NEW kind \in {"star", "unstar"}, SignOpinion(i, kind)
      PROVE  StarsInv' /\ StaysOnce
  <2>1. PICK t \in 1..MaxStarTime :
          /\ kind = "unstar" => i \in Fickle
          /\ opinions' = opinions \cup {[kind |-> kind, who |-> i, starred_at |-> t]}
          /\ UNCHANGED <<hosting, stars>>
    BY <1>1 DEF SignOpinion
  <2>2. [kind |-> kind, who |-> i, starred_at |-> t] \in Op
    BY DEF Op
  <2> QED
    BY <2>1, <2>2
<1>2. ASSUME NEW n \in StarHost, PutEmptyStars(n) PROVE StarsInv' /\ StaysOnce
  BY <1>2 DEF PutEmptyStars
<1>3. ASSUME NEW n \in StarHost, NEW op \in opinions, apply(n, op)
      PROVE  StarsInv' /\ StaysOnce
  <2>1. /\ op \in Op /\ op.who \in Stargazer /\ op.starred_at \in 1..MaxStarTime
        /\ op.kind \in {"star", "unstar"}
    BY DEF Op
  <2>2. op.kind = "star" => op = StarOf(op.who, op.starred_at)
    BY <2>1 DEF Op, StarOf
  <2>3. \A m \in StarHost, i \in Stargazer :
          stars'[m][i] = IF m = n /\ i = op.who
                           THEN IF op.kind = "star" THEN op.starred_at ELSE 0
                           ELSE stars[m][i]
    BY <1>3, <2>1 DEF apply
  <2>4. stars' \in [StarHost -> [Stargazer -> 0..MaxStarTime]]
    BY <1>3, <2>1 DEF apply
  <2>5. UNCHANGED <<hosting, opinions>>
    BY <1>3 DEF apply
  <2> QED
    BY <2>1, <2>2, <2>3, <2>4, <2>5
<1>4. ASSUME NEW n \in StarHost, NEW o \in StarHost, SyncStars(n, o)
      PROVE  StarsInv' /\ StaysOnce
  <2>1. \A m \in StarHost, i \in Stargazer :
          stars'[m][i] = IF m = n /\ stars[o][i] # 0 THEN stars[o][i] ELSE stars[m][i]
    BY <1>4 DEF SyncStars, merge
  <2>2. stars' \in [StarHost -> [Stargazer -> 0..MaxStarTime]]
    BY <1>4 DEF SyncStars, merge
  <2>3. UNCHANGED <<hosting, opinions>>
    BY <1>4 DEF SyncStars
  <2> QED
    BY <2>1, <2>2, <2>3
<1>5. CASE UNCHANGED starVars
  BY <1>5 DEF starVars
<1> QED
  BY <1>1, <1>2, <1>3, <1>4, <1>5 DEF StarsNext

\* The hosts, the copies and the signed operations are well formed, for any
\* nodes and identities.
THEOREM StarsTypeCorrect == StarsSpec => []StarsTypeOK
BY StarsInvInit, StarsStep, PTL DEF StarsSpec, StarsInv

\* No merge, empty Put or repeated update takes away the star of an identity
\* that never unstarred, or shows one it did not sign.
THEOREM StarsStayAlways == StarsSpec => StarsStay
<1>1. StarsInv /\ [StarsNext]_starVars =>
        [\A n \in StarHost, i \in Stargazer :
       /\ stars'[n][i] # 0 =>
            [kind |-> "star", who |-> i, starred_at |-> stars'[n][i]] \in opinions
       /\ (stars[n][i] # 0 /\ i \notin Fickle) => stars'[n][i] # 0]_starVars
  BY StarsStep DEF StaysOnce, StarOf
<1> QED
  BY <1>1, StarsInvInit, StarsStep, PTL DEF StarsSpec, StarsStay

-----------------------------------------------------------------------------
(***************************************************************************)
(* Vault copies.                                                           *)
(***************************************************************************)
LEMMA ReplicasInvInit == ReplicasInit => ReplicasTypeOK
BY DEF ReplicasInit, ReplicasTypeOK

LEMMA KeysState ==
  ASSUME NEW s \in Vault, NEW k \in ApiKey, NEW R \in SUBSET Prefix, NEW G \in SUBSET Prefix
  PROVE  [s EXCEPT !.seq = @ + 1, !.by = k, !.repos = R, !.pages = G] \in Vault
<1>1. s.seq + 1 \in Nat \ {0}
  BY DEF Vault
<1>2. [s EXCEPT !.seq = @ + 1] \in Vault
  BY <1>1 DEF Vault
<1> QED
  BY <1>2 DEF Vault

\* What replaces a copy went through the contract, or is the owner's.
ReplacedWell ==
  \A n \in VaultHost :
    copies[n] # None /\ copies'[n] # copies[n] =>
      copies'[n].by = Owner \/ MayUpsert(copies[n], copies'[n])

LEMMA ReplicasStep ==
  ReplicasTypeOK /\ [ReplicasNext]_replicaVars => ReplicasTypeOK' /\ ReplacedWell
<1> SUFFICES ASSUME ReplicasTypeOK, [ReplicasNext]_replicaVars
             PROVE  ReplicasTypeOK' /\ ReplacedWell
  OBVIOUS
<1> USE NoneAssumption, VaultBoundAssumption DEF ReplicasTypeOK, ReplacedWell
<1>1. ASSUME NEW n \in VaultHost, OwnerWrites(n) PROVE ReplicasTypeOK' /\ ReplacedWell
  <2>1. SeqOf(n) + 1 \in Nat \ {0}
    BY DEF SeqOf, Vault
  <2>2. PICK repos, pages \in SUBSET Prefix, keys \in SUBSET ApiKey :
          Store(n, [seq |-> SeqOf(n) + 1, by |-> Owner,
                    repos |-> repos, pages |-> pages, keys |-> keys])
    BY <1>1 DEF OwnerWrites
  <2>3. [seq |-> SeqOf(n) + 1, by |-> Owner,
         repos |-> repos, pages |-> pages, keys |-> keys] \in Vault
    BY <2>1 DEF Vault
  <2> QED
    BY <2>2, <2>3 DEF Store
<1>2. ASSUME NEW n \in VaultHost, NEW k \in ApiKey, KeyWrites(n, k)
      PROVE  ReplicasTypeOK' /\ ReplacedWell
  <2>1. copies[n] \in Vault
    BY <1>2 DEF KeyWrites
  <2>2. PICK next \in Vault : MayUpsert(copies[n], next) /\ Store(n, next)
    <3>1. PICK repos, pages \in SUBSET Prefix :
            LET next == [copies[n] EXCEPT !.seq = @ + 1, !.by = k,
                                          !.repos = repos, !.pages = pages]
            IN  MayUpsert(copies[n], next) /\ Store(n, next)
      BY <1>2 DEF KeyWrites
    <3>2. [copies[n] EXCEPT !.seq = @ + 1, !.by = k,
                            !.repos = repos, !.pages = pages] \in Vault
      BY <2>1, KeysState
    <3> QED
      BY <3>1, <3>2, Zenon
  <2> QED
    BY <2>2 DEF Store
<1>3. ASSUME NEW n \in VaultHost, NEW o \in VaultHost, SyncVaults(n, o)
      PROVE  ReplicasTypeOK' /\ ReplacedWell
  BY <1>3 DEF SyncVaults, MayReceive, Store
<1>4. CASE UNCHANGED replicaVars
  BY <1>4 DEF replicaVars
<1> QED
  BY <1>1, <1>2, <1>3, <1>4 DEF ReplicasNext

\* Every copy of a vault is a well-formed state, for any nodes, keys and bound.
THEOREM ReplicasTypeCorrect == ReplicasSpec => []ReplicasTypeOK
BY ReplicasInvInit, ReplicasStep, PTL DEF ReplicasSpec

\* However many writes a copy has missed, a state of an API key that replaces it
\* differs from it in the envelopes of the key's scope alone.
THEOREM KeysKeepToScopeAlways == ReplicasSpec => KeysKeepToScope
<1>1. ReplicasTypeOK /\ [ReplicasNext]_replicaVars =>
        [\A n \in VaultHost :
       (copies[n] # None /\ copies'[n] # copies[n] /\ copies'[n].by \in ApiKey) =>
         /\ copies'[n].keys = copies[n].keys
         /\ "repos" \notin Scope[copies'[n].by] => copies'[n].repos = copies[n].repos
         /\ "pages" \notin Scope[copies'[n].by] => copies'[n].pages = copies[n].pages]_replicaVars
  BY ReplicasStep, OwnerAssumption DEF ReplacedWell, MayUpsert, OpsDeltaAllowed
<1> QED
  BY <1>1, ReplicasInvInit, ReplicasStep, PTL DEF ReplicasSpec, KeysKeepToScope

-----------------------------------------------------------------------------
(***************************************************************************)
(* Profile.  What a browser is about to Put was made from what it read;    *)
(* of the two probes of a read one answer is picked, so it is a state that *)
(* some node, or the older hash, holds.                                    *)
(***************************************************************************)
State == [seq : Nat, bio : Bio \cup {Blank}, meta : PublicMeta \cup {Blank},
          pk : BOOLEAN, inbox : Inbox]

Kind == {"edit", "notice", "prune", "stub", "backfill", "migrate"}

KeepsBio == {"notice", "prune", "backfill"}

DraftOK(o) ==
  /\ o \in [step : {"publish"}, kind : Kind, base : State \cup {NoProfile},
            bio : Bio \cup {Blank}, meta : PublicMeta \cup {Blank}, pk : BOOLEAN,
            inbox : Inbox, open : SUBSET {"inbox", "meta"}]
  /\ o.kind \in KeepsBio => o.bio = o.base.bio
  /\ o.kind \in {"notice", "backfill"} => o.meta = o.base.meta /\ "meta" \notin o.open
  /\ o.kind = "prune" => "meta" \in o.open
  /\ o.kind = "migrate" => o.base \in State

PutOK(o) ==
  /\ o \in [step : {"put"}, kind : Kind, base : State \cup {NoProfile},
            again : State \cup {NoProfile}, state : Profile]
  /\ o.kind \in KeepsBio => o.state.bio = o.base.bio
  /\ o.kind \in {"notice", "backfill"} => o.state.meta = o.base.meta
  /\ o.kind = "prune" /\ Found(o.again) => o.state.meta = o.again.meta
  /\ o.kind = "migrate" => o.base \in State
  /\ ~Found(o.again) => o.state.seq = 1

FoundOK(o) == o \in [step : {"migrate"}, found : State]

FlowOK(o) == o = NoProfile \/ DraftOK(o) \/ PutOK(o) \/ FoundOK(o)

ProfileInv ==
  /\ profile \in [Host -> Profile \cup {NoProfile}]
  /\ legacy \in State \cup {NoProfile}
  /\ DOMAIN flow = Browser /\ flow = [d \in Browser |-> flow[d]]
  /\ \A d \in Browser : FlowOK(flow[d])

LEMMA ProfileIsState == Profile \subseteq State /\ NoProfile \notin State
BY ProfileAssumption DEF Profile, State, Inbox, Message

LEMMA InboxFinite ==
  ASSUME NEW s \in Inbox
  PROVE  IsFiniteSet(s) /\ Cardinality(s) \in Nat
BY ProfileAssumption, FS_Subset, FS_CardinalityType DEF Inbox, Message

LEMMA InboxEmpty == {} \in Inbox
BY ProfileAssumption, FS_EmptySet DEF Inbox

LEMMA InboxAdd ==
  ASSUME NEW s \in Inbox, NEW m \in Message, Cardinality(s) < MaxInbox
  PROVE  s \cup {m} \in Inbox
<1>1. /\ Cardinality(s) \in Nat
      /\ \/ Cardinality(s \cup {m}) = Cardinality(s) + 1
         \/ Cardinality(s \cup {m}) = Cardinality(s)
  BY InboxFinite, FS_AddElement
<1>2. Cardinality(s \cup {m}) <= MaxInbox
  BY <1>1, ProfileAssumption
<1> QED
  BY <1>2 DEF Inbox

LEMMA InboxPart ==
  ASSUME NEW s \in Inbox, NEW t \in SUBSET s
  PROVE  t \in Inbox
<1>1. /\ Cardinality(t) <= Cardinality(s)
      /\ Cardinality(s) \in Nat /\ Cardinality(t) \in Nat
  BY InboxFinite, FS_Subset, FS_CardinalityType
<1>2. Cardinality(t) <= MaxInbox
  BY <1>1, ProfileAssumption DEF Inbox
<1> QED
  BY <1>2 DEF Inbox

\* A notice keeps the inbox within its cap.
LEMMA KeptInbox ==
  ASSUME NEW s \in Inbox, NEW m \in Message, NEW k \in Kept(s, m)
  PROVE  k \in Inbox
<1> DEFINE others == s \ {m}
           room   == KeepNotices - 1
           n      == IF Cardinality(others) < room THEN Cardinality(others) ELSE room
<1>1. PICK t \in kSubset(n, others) : k = t \cup {m}
  BY DEF Kept
<1>2. t \in SUBSET others /\ Cardinality(t) = n
  BY <1>1 DEF kSubset
<1>3. others \in Inbox /\ t \in Inbox
  BY <1>2, InboxPart
<1>4. Cardinality(others) \in Nat
  BY <1>3, InboxFinite
<1>5. n < MaxInbox
  BY <1>4, ProfileAssumption
<1> QED
  BY <1>1, <1>2, <1>3, <1>5, InboxAdd

\* Better decides between any two states.
LEMMA BetterTotal ==
  ASSUME NEW p \in State, NEW q \in State
  PROVE  Better(p, p) /\ (Better(p, q) \/ Better(q, p))
<1>1. /\ p.seq \in Nat /\ q.seq \in Nat
      /\ Cardinality(p.inbox) \in Nat /\ Cardinality(q.inbox) \in Nat
  BY InboxFinite DEF State
<1>2. \A s \in State : Sparse(s) => Cardinality(s.inbox) = 0
  BY FS_EmptySet DEF Sparse
<1>3. CASE Sparse(p) <=> Sparse(q)
  BY <1>1, <1>3 DEF Better
<1>4. CASE Sparse(p) /\ ~Sparse(q)
  <2>1. Cardinality(p.inbox) = 0
    BY <1>2, <1>4
  <2> QED
    BY <1>1, <1>4, <2>1 DEF Better
<1>5. CASE ~Sparse(p) /\ Sparse(q)
  <2>1. Cardinality(q.inbox) = 0
    BY <1>2, <1>5
  <2> QED
    BY <1>1, <1>5, <2>1 DEF Better
<1> QED
  BY <1>3, <1>4, <1>5

\* Of the answers of two probes one is picked.
LEMMA PickOne ==
  ASSUME NEW S \in SUBSET State, NEW p \in State, NEW q \in State, S \subseteq {p, q}
  PROVE  pickBestProfile(S) \in S \cup {NoProfile}
<1>1. CASE S = {}
  BY <1>1 DEF pickBestProfile
<1>2. CASE S # {}
  <2>1. Pool(S) \subseteq S /\ Pool(S) # {}
    BY <1>2 DEF Pool
  <2>2. \E b \in Pool(S) : \A c \in Pool(S) : Better(b, c)
    <3>1. Pool(S) \subseteq {p, q}
      BY <2>1
    <3> QED
      BY <2>1, <3>1, BetterTotal
  <2> QED
    BY <1>2, <2>1, <2>2 DEF pickBestProfile
<1> QED
  BY <1>1, <1>2

LEMMA CurrentState ==
  ASSUME ProfileInv, NEW d \in Browser
  PROVE  Current(d) \subseteq State /\ Legacy \subseteq State
BY ProfileIsState, ProfileAssumption DEF ProfileInv, Current, Legacy, Found

LEMMA ReadState ==
  ASSUME ProfileInv, NEW d \in Browser, NEW p \in fetchForgeProfile(d), Found(p)
  PROVE  p \in State
<1>1. PICK c \in {{}} \cup {{x} : x \in Current(d)}, l \in SUBSET Legacy :
        p = pickBestProfile(c \cup l)
  BY DEF fetchForgeProfile
<1>2. c \subseteq State /\ l \subseteq State
  <2>1. Current(d) \subseteq State /\ Legacy \subseteq State
    BY CurrentState
  <2>2. CASE c = {}
    BY <2>1, <2>2
  <2>3. CASE \E x \in Current(d) : c = {x}
    BY <2>1, <2>3
  <2> QED
    BY <2>2, <2>3
<1>3. PICK x : c \subseteq {x}
  OBVIOUS
<1>4. l \subseteq {legacy}
  BY DEF Legacy
<1>5. CASE c \cup l = {}
  BY <1>1, <1>5 DEF pickBestProfile, Found
<1>6. CASE c = {} /\ l # {}
  <2>1. legacy \in State /\ c \cup l \subseteq {legacy, legacy}
    BY <1>2, <1>4, <1>6
  <2> QED
    BY <1>1, <1>2, <2>1, PickOne DEF Found
<1>7. CASE c # {} /\ l = {}
  <2>1. x \in State /\ c \cup l \subseteq {x, x}
    BY <1>2, <1>3, <1>7
  <2> QED
    BY <1>1, <1>2, <2>1, PickOne DEF Found
<1>8. CASE c # {} /\ l # {}
  <2>1. x \in State /\ legacy \in State /\ c \cup l \subseteq {x, legacy}
    BY <1>2, <1>3, <1>4, <1>8
  <2> QED
    BY <1>1, <1>2, <2>1, PickOne DEF Found
<1> QED
  BY <1>5, <1>6, <1>7, <1>8

\* A browser goes on with a well-formed record; nothing else changes.
LEMMA FlowStep ==
  ASSUME ProfileInv, NEW d \in Browser, NEW o, FlowOK(o), Goto(d, o)
  PROVE  ProfileInv'
BY DEF ProfileInv, Goto

\* A node stores a well-formed state.
LEMMA StoreStep ==
  ASSUME ProfileInv, NEW n \in Host, NEW s \in Profile,
         profile' = [profile EXCEPT ![n] = s], UNCHANGED <<legacy, flow>>
  PROVE  ProfileInv'
BY DEF ProfileInv

LEMMA MakesDraft ==
  ASSUME NEW kind \in Kind, NEW base \in State \cup {NoProfile}, NEW bio \in Bio \cup {Blank},
         NEW mt \in PublicMeta \cup {Blank}, NEW pk \in BOOLEAN, NEW inbox \in Inbox,
         NEW open \in SUBSET {"inbox", "meta"},
         kind \in KeepsBio => bio = base.bio,
         kind \in {"notice", "backfill"} => mt = base.meta /\ "meta" \notin open,
         kind = "prune" => "meta" \in open,
         kind = "migrate" => base \in State
  PROVE  FlowOK(Draft(kind, base, bio, mt, pk, inbox, open))
BY DEF FlowOK, DraftOK, Draft

LEMMA ProfileInvInit == ProfileInit => ProfileInv
<1> SUFFICES ASSUME ProfileInit PROVE ProfileInv
  OBVIOUS
<1>1. legacy \in State \cup {NoProfile}
  BY ProfileAssumption, InboxEmpty DEF ProfileInit, State
<1> QED
  BY <1>1 DEF ProfileInit, ProfileInv, FlowOK

LEMMA ProfileStep == ProfileInv /\ [ProfileNext]_profileVars => ProfileInv'
<1> SUFFICES ASSUME ProfileInv, [ProfileNext]_profileVars PROVE ProfileInv'
  OBVIOUS
<1>0. /\ NoProfile \in State \cup {NoProfile}
      /\ Blank \in Bio \cup {Blank} /\ Blank \in PublicMeta \cup {Blank}
      /\ {} \in Inbox
      /\ FlowOK(NoProfile)
  BY InboxEmpty DEF FlowOK
<1>a. \A p \in State : /\ p.bio \in Bio \cup {Blank} /\ p.meta \in PublicMeta \cup {Blank}
                       /\ p.pk \in BOOLEAN /\ p.inbox \in Inbox
  BY DEF State
<1>1. ASSUME NEW d \in Browser, UpdateProfile(d) PROVE ProfileInv'
  <2> DEFINE empty == [bio |-> Blank, meta |-> Blank]
             own(p) == IF Found(p) THEN p ELSE empty
  <2>1. PICK p \in fetchForgeProfile(d), b \in Bio \cup {Blank}, x \in PublicMeta \cup {Blank},
             named \in SUBSET {"bio", "meta"} :
          Goto(d, Draft("edit", NoProfile, IF "bio" \in named THEN b ELSE own(p).bio,
                        IF "meta" \in named THEN x ELSE own(p).meta, FALSE, {}, {"inbox"}))
    BY <1>1 DEF UpdateProfile
  <2>2. own(p).bio \in Bio \cup {Blank} /\ own(p).meta \in PublicMeta \cup {Blank}
    BY <1>0, <1>a, ReadState
  <2>3. PICK bio \in Bio \cup {Blank}, mt \in PublicMeta \cup {Blank} :
          Goto(d, Draft("edit", NoProfile, bio, mt, FALSE, {}, {"inbox"}))
    <3> HIDE DEF own
    <3> QED
      BY <2>1, <2>2
  <2>4. FlowOK(Draft("edit", NoProfile, bio, mt, FALSE, {}, {"inbox"}))
    BY <1>0, MakesDraft DEF Kind, KeepsBio
  <2> QED
    BY <2>3, <2>4, FlowStep
<1>2. ASSUME NEW d \in Browser, NEW m \in Notice, NotifySelf(d, m) PROVE ProfileInv'
  <2>1. PICK p \in fetchForgeProfile(d) :
          IF Found(p)
            THEN \E s \in Kept(p.inbox, m) :
                   Goto(d, Draft("notice", p, p.bio, p.meta, TRUE, s, {}))
            ELSE End(d)
    BY <1>2 DEF NotifySelf
  <2>2. CASE Found(p)
    <3>1. PICK s \in Kept(p.inbox, m) :
            Goto(d, Draft("notice", p, p.bio, p.meta, TRUE, s, {}))
      BY <2>1, <2>2
    <3>2. p \in State
      BY <2>2, ReadState
    <3>3. s \in Inbox
      BY <1>a, <3>2, KeptInbox DEF Message
    <3>4. FlowOK(Draft("notice", p, p.bio, p.meta, TRUE, s, {}))
      BY <1>a, <3>2, <3>3, MakesDraft DEF Kind, KeepsBio
    <3> QED
      BY <3>1, <3>4, FlowStep
  <2>3. CASE ~Found(p)
    BY <1>0, <2>1, <2>3, FlowStep DEF End
  <2> QED
    BY <2>2, <2>3
<1>3. ASSUME NEW d \in Browser, NEW m \in Message, PruneInbox(d, {m}) PROVE ProfileInv'
  <2>1. PICK p \in fetchForgeProfile(d) :
          IF Found(p)
            THEN Goto(d, Draft("prune", p, p.bio, Blank, p.pk, p.inbox \ {m}, {"meta"}))
            ELSE End(d)
    BY <1>3 DEF PruneInbox
  <2>2. CASE Found(p)
    <3>1. p \in State
      BY <2>2, ReadState
    <3>2. p.inbox \ {m} \in Inbox
      BY <1>a, <3>1, InboxPart
    <3>3. FlowOK(Draft("prune", p, p.bio, Blank, p.pk, p.inbox \ {m}, {"meta"}))
      BY <1>a, <3>1, <3>2, MakesDraft DEF Kind, KeepsBio
    <3> QED
      BY <2>1, <2>2, <3>3, FlowStep
  <2>3. CASE ~Found(p)
    BY <1>0, <2>1, <2>3, FlowStep DEF End
  <2> QED
    BY <2>2, <2>3
<1>4. ASSUME NEW d \in Browser, PublishStub(d) PROVE ProfileInv'
  <2>1. FlowOK(Draft("stub", NoProfile, Blank, Blank, TRUE, {}, {"meta"}))
    BY <1>0, MakesDraft DEF Kind, KeepsBio
  <2> QED
    BY <1>4, <2>1, FlowStep DEF PublishStub
<1>5. ASSUME NEW d \in Browser, FoundProfile(d) PROVE ProfileInv'
  <2>1. PICK p \in fetchForgeProfile(d) \ {NoProfile} :
          Goto(d, [step |-> "migrate", found |-> p])
    BY <1>5 DEF FoundProfile
  <2>2. p \in State
    BY ReadState DEF Found
  <2>3. FlowOK([step |-> "migrate", found |-> p])
    BY <2>2 DEF FlowOK, FoundOK
  <2> QED
    BY <2>1, <2>3, FlowStep
<1>6. ASSUME NEW d \in Browser, Migrate(d) PROVE ProfileInv'
  <2>1. flow[d].found \in State
    BY <1>6 DEF Migrate, Idle, ProfileInv, FlowOK, DraftOK, PutOK, FoundOK
  <2>2. PICK cur \in Current(d) \cup {NoProfile}, old \in Legacy \cup {NoProfile} :
          \/ /\ MayMigrate(cur, old)
             /\ Goto(d, Draft("migrate", flow[d].found, old.bio, old.meta, old.pk, old.inbox, {}))
          \/ /\ ~Migrates(cur, old)
             /\ Backfill(d, IF Found(cur) THEN cur ELSE flow[d].found)
    BY <1>6 DEF Migrate
  <2>3. CASE /\ MayMigrate(cur, old)
             /\ Goto(d, Draft("migrate", flow[d].found, old.bio, old.meta, old.pk, old.inbox, {}))
    <3>1. old \in State
      BY <2>3, CurrentState DEF MayMigrate, Found
    <3>2. FlowOK(Draft("migrate", flow[d].found, old.bio, old.meta, old.pk, old.inbox, {}))
      BY <1>a, <2>1, <3>1, MakesDraft DEF Kind, KeepsBio
    <3> QED
      BY <2>3, <3>2, FlowStep
  <2>4. CASE Backfill(d, IF Found(cur) THEN cur ELSE flow[d].found)
    <3>1. PICK p \in State : Backfill(d, p)
      BY <2>1, <2>4, CurrentState DEF Found
    <3>2. FlowOK(BackfillDraft(p))
      BY <1>a, MakesDraft DEF BackfillDraft, Kind, KeepsBio
    <3> QED
      BY <1>0, <3>1, <3>2, FlowStep DEF Backfill, End
  <2> QED
    BY <2>2, <2>3, <2>4
<1>7. ASSUME NEW d \in Browser, Publish(d) PROVE ProfileInv'
  <2>1. DraftOK(flow[d])
    BY <1>7 DEF Publish, Idle, ProfileInv, FlowOK, PutOK, FoundOK
  <2>2. PICK p \in fetchForgeProfile(d) :
          /\ Found(p) => p.seq < MaxProfileSeq
          /\ Goto(d, [step |-> "put", kind |-> flow[d].kind, base |-> flow[d].base,
                      again |-> p, state |-> Sign(flow[d], p)])
    BY <1>7 DEF Publish
  <2>3. Found(p) => p \in State
    BY ReadState
  <2>4. /\ Sign(flow[d], p) \in Profile
        /\ Sign(flow[d], p).bio = flow[d].bio
        /\ "meta" \notin flow[d].open => Sign(flow[d], p).meta = flow[d].meta
        /\ "meta" \in flow[d].open /\ Found(p) => Sign(flow[d], p).meta = p.meta
        /\ ~Found(p) => Sign(flow[d], p).seq = 1
    BY <1>0, <2>1, <2>2, <2>3, ProfileAssumption DEF DraftOK, Sign, Profile, State
  <2>5. PutOK([step |-> "put", kind |-> flow[d].kind, base |-> flow[d].base,
               again |-> p, state |-> Sign(flow[d], p)])
    <3>1. p \in State \cup {NoProfile}
      BY <2>3 DEF Found
    <3> QED
      BY <2>1, <2>4, <3>1 DEF PutOK, DraftOK, KeepsBio
  <2> QED
    BY <2>2, <2>5, FlowStep DEF FlowOK
<1>8. ASSUME NEW d \in Browser, ~Idle(d), flow[d].step = "put"
      PROVE  PutOK(flow[d])
  BY <1>8 DEF Idle, ProfileInv, FlowOK, DraftOK, FoundOK
<1>9. ASSUME NEW o, PutOK(o) \/ DraftOK(o),
             NEW p, o.kind = "migrate" => p \in State
      PROVE  FlowOK(AfterPublish(o, p))
  <2>1. p \in State => FlowOK(BackfillDraft(p))
    BY <1>a, MakesDraft DEF BackfillDraft, Kind, KeepsBio
  <2> QED
    BY <1>0, <1>9, <2>1 DEF AfterPublish
<1>10. ASSUME NEW d \in Browser, Put(d) PROVE ProfileInv'
  <2>1. PutOK(flow[d]) /\ flow[d].state \in Profile
    BY <1>8, <1>10 DEF Put, PutOK
  <2>2. FlowOK(AfterPublish(flow[d], flow[d].state))
    BY <1>9, <2>1, ProfileIsState
  <2> QED
    BY <1>10, <2>1, <2>2, ProfileAssumption DEF Put, ProfileInv
<1>11. ASSUME NEW d \in Browser, PublishFails(d) PROVE ProfileInv'
  <2>1. DraftOK(flow[d]) \/ PutOK(flow[d])
    BY <1>11 DEF PublishFails, Idle, ProfileInv, FlowOK, FoundOK
  <2>2. FlowOK(AfterPublish(flow[d], flow[d].base))
    BY <1>9, <2>1 DEF DraftOK, PutOK
  <2> QED
    BY <1>11, <2>2, FlowStep DEF PublishFails
<1>12. ASSUME NEW d \in Browser, Abandon(d) PROVE ProfileInv'
  BY <1>0, <1>12, FlowStep DEF Abandon, End
<1>13. ASSUME NEW n \in Host, NEW m \in Mail, AppendInbox(n, m) PROVE ProfileInv'
  <2>1. profile[n] \in Profile
    BY <1>13 DEF AppendInbox, MayAppend, Found, ProfileInv
  <2>2. profile[n].inbox \cup {m} \in Inbox
    BY <1>13, <2>1, InboxAdd DEF AppendInbox, MayAppend, Profile, Message
  <2>3. [profile[n] EXCEPT !.inbox = @ \cup {m}] \in Profile
    BY <2>1, <2>2 DEF Profile
  <2> QED
    BY <1>13, <2>3, StoreStep DEF AppendInbox
<1>14. ASSUME NEW n \in Host, NEW o \in Host, SyncProfile(n, o) PROVE ProfileInv'
  <2>1. profile[o] \in Profile
    BY <1>14 DEF SyncProfile, Found, ProfileInv
  <2> QED
    BY <1>14, <2>1, StoreStep DEF SyncProfile
<1>15. CASE UNCHANGED profileVars
  BY <1>15 DEF profileVars, ProfileInv
<1> QED
  BY <1>1, <1>2, <1>3, <1>4, <1>5, <1>6, <1>7, <1>10, <1>11, <1>12, <1>13, <1>14, <1>15
     DEF ProfileNext

LEMMA ProfileInvTypes == ProfileInv => ProfileTypeOK
BY DEF ProfileInv, ProfileTypeOK, Idle, FlowOK, DraftOK, PutOK, FoundOK

\* Copies are well formed and inboxes stay within their cap, for any nodes,
\* browsers and messages.
THEOREM ProfileTypeCorrect == ProfileSpec => []ProfileTypeOK
BY ProfileInvTypes, ProfileInvInit, ProfileStep, PTL DEF ProfileSpec

\* A profile signed by somebody who found none never replaces one.
THEOREM BlindPutReplacesNothingAlways == ProfileSpec => BlindPutReplacesNothing
<1>1. ASSUME ProfileInv, NEW d \in Browser, Put(d), ~Found(flow[d].again), Found(profile[d])
      PROVE  FALSE
  <2>1. flow[d].state.seq = 1
    BY <1>1 DEF Put, Idle, ProfileInv, FlowOK, DraftOK, PutOK, FoundOK
  <2>2. profile[d].seq \in Nat /\ profile[d].seq >= 1
    BY <1>1, ProfileAssumption DEF ProfileInv, Found, Profile
  <2> QED
    BY <1>1, <2>1, <2>2 DEF Put, MayReplace
<1>2. ProfileInv =>
        [\A d \in Browser :
           (Put(d) /\ ~Found(flow[d].again)) => ~Found(profile[d])]_profileVars
  BY <1>1
<1> QED
  BY <1>2, ProfileInvInit, ProfileStep, PTL DEF ProfileSpec, BlindPutReplacesNothing

\* Notices, prunes and backfills leave what is signed as it is, unless the owner
\* published in between; of a prune this holds for meta if its second read saw
\* what the first did.
THEOREM InboxWritesKeepBioAlways == ProfileSpec => InboxWritesKeepBio
<1> DEFINE Keeps(d) ==
       /\ profile'[d].bio = profile[d].bio
       /\ profile'[d].meta # profile[d].meta
            => flow[d].kind = "prune" /\ ~SameSigned(flow[d].again, profile[d])
<1>1. ASSUME ProfileInv, NEW d \in Browser, Put(d), flow[d].kind \in KeepsBio,
             SameSigned(flow[d].base, profile[d])
      PROVE  Keeps(d)
  <2>1. PutOK(flow[d])
    BY <1>1 DEF Put, Idle, ProfileInv, FlowOK, DraftOK, FoundOK
  <2>2. profile'[d] = flow[d].state
    BY <1>1, ProfileAssumption DEF Put, ProfileInv
  <2> QED
    BY <1>1, <2>1, <2>2 DEF PutOK, KeepsBio, SameSigned
<1>2. ProfileInv =>
        [\A d \in Browser :
           (/\ Put(d)
            /\ flow[d].kind \in {"notice", "prune", "backfill"}
            /\ Found(profile[d]) /\ SameSigned(flow[d].base, profile[d]))
           => Keeps(d)]_profileVars
  <2> HIDE DEF Keeps
  <2> QED
    BY <1>1 DEF KeepsBio
<1> QED
  BY <1>2, ProfileInvInit, ProfileStep, PTL DEF ProfileSpec, InboxWritesKeepBio
-----------------------------------------------------------------------------
(***************************************************************************)
(* The session.  Beside the types: a task that may ask for a vault has the *)
(* address of one and a rename the seed of an account, whoever signed out  *)
(* or in since it was started; and nobody signs out while a profile that   *)
(* was read is being saved.                                                *)
(***************************************************************************)
OnVault == {"reach", "profile", "rename", "renamed", "publish", "export", "vaultGet", "vaultPut",
            "after", "delegates", "import", "repoKeys"}
OffVault == {"rest", "who", "where", "sealed", "logout", "read", "savePut"}

TaskState == [pc : OnVault \cup OffVault,
              kind : {"none", "create", "bundle", "phrase", "signOut", "save"},
              as : Nobody, at : Nobody, key : Nobody, gets : 0..1, puts : 0..2, round : 1..2]
Tasked(x) == /\ x \in TaskState
             /\ x.pc \in OnVault => x.at \in Account
             /\ x.pc = "renamed" => x.key \in Account
TasksWell(ts) == ts \in [Task -> TaskState] /\ \A t \in Task : Tasked(ts[t])

PageState == [open : BOOLEAN, ready : BOOLEAN, mine : BOOLEAN, on : BOOLEAN,
              view : {"hub", "create", "restore", "backup"}, shown : Nobody,
              effect : {"rest", "due", "waits", "failed"}]

DeviceOK == device \in Nobody
TabOK == tabId \in Nobody /\ tabVault \in Nobody /\ tabSeed \in Nobody
NetOK == published \subseteq Account /\ known \subseteq Account /\ vaultSeq \in [Account -> 0..2]
PageOK == page \in PageState
WorkOK == TasksWell(task)
SaverIn == task["form"].pc = "savePut" => device # NoAccount

AccountInv == DeviceOK /\ TabOK /\ NetOK /\ PageOK /\ WorkOK /\ SaverIn

\* The tasks after a step that does not begin to save a profile.
Well(ts) == TasksWell(ts) /\ (ts["form"].pc = "savePut" => task["form"].pc = "savePut")
Goes == Well(task')

LEMMA AccountUnchanged ==
  /\ UNCHANGED device /\ DeviceOK => DeviceOK'
  /\ UNCHANGED tabVars /\ TabOK => TabOK'
  /\ UNCHANGED netVars /\ NetOK => NetOK'
  /\ UNCHANGED page /\ PageOK => PageOK'
  /\ UNCHANGED task /\ WorkOK => Goes
  /\ Goes => WorkOK'
  /\ Goes /\ SaverIn /\ (UNCHANGED device \/ device' # NoAccount) => SaverIn'
BY DEF DeviceOK, TabOK, NetOK, PageOK, WorkOK, SaverIn, Goes, Well, tabVars, netVars

LEMMA SomebodyOK == NoAccount \in Nobody /\ Account \subseteq Nobody
                    /\ Nobody \ {NoAccount} = Account /\ NoAccount \notin Account
BY AccountAssumption DEF Nobody

LEMMA Steps == /\ "profile" \in OnVault /\ "reach" \in OnVault /\ "vaultGet" \in OnVault
               /\ {"rest", "who", "where", "sealed", "logout", "read", "savePut"}
                    \cap OnVault = {}
               /\ "rest" \in OffVault /\ "who" \in OffVault /\ "savePut" \in OffVault
BY DEF OnVault, OffVault

LEMMA RestTasked == /\ Tasked(Rest) /\ Rest.pc = "rest"
                    /\ Tasked([Rest EXCEPT !.pc = "who"]) /\ [Rest EXCEPT !.pc = "who"].pc = "who"
BY SomebodyOK, Steps DEF Tasked, Rest, TaskState

LEMMA PutTask ==
  ASSUME NEW ts, Well(ts), NEW t \in Task, NEW x, Tasked(x), x.pc # "savePut"
  PROVE  Well([ts EXCEPT ![t] = x])
<1>1. TasksWell([ts EXCEPT ![t] = x])
  BY DEF Well, TasksWell, Tasked
<1>2. "form" \in Task
  BY DEF Task
<1> QED
  BY <1>1, <1>2 DEF Well, TasksWell

LEMMA TaskFacts ==
  ASSUME WorkOK, NEW t \in Task
  PROVE  /\ Well(task) /\ task[t] \in TaskState /\ Tasked(task[t])
         /\ task[t].as \in Nobody /\ task[t].at \in Nobody /\ task[t].key \in Nobody
         /\ task[t].puts \in 0..2
         /\ task[t].pc \in OnVault => task[t].at \in Account
         /\ task[t].pc = "renamed" => task[t].key \in Account
         /\ \A u : [task EXCEPT ![t] = u][t] = u
BY DEF Well, WorkOK, TasksWell, Tasked, TaskState

\* What a step writes into the record of a task.
Turn(x, pc) == [x EXCEPT !.pc = pc, !.gets = 0]
WithKey(x, key) == [x EXCEPT !.key = key]
WithAs(x, as) == [x EXCEPT !.as = as]
WithAt(x, at) == [x EXCEPT !.at = at]
WithPuts(x, puts) == [x EXCEPT !.puts = puts]
Again(x) == [x EXCEPT !.round = 2]

LEMMA Writes ==
  ASSUME NEW x \in TaskState
  PROVE  /\ \A pc \in OnVault \cup OffVault :
              Turn(x, pc) \in TaskState /\ Turn(x, pc).pc = pc /\ Turn(x, pc).at = x.at
         /\ \A key \in Nobody : /\ WithKey(x, key) \in TaskState /\ WithKey(x, key).pc = x.pc
                                /\ WithKey(x, key).at = x.at /\ WithKey(x, key).key = key
         /\ \A as \in Nobody : WithAs(x, as) \in TaskState /\ WithAs(x, as).pc = x.pc
         /\ \A at \in Nobody : /\ WithAt(x, at) \in TaskState /\ WithAt(x, at).pc = x.pc
                               /\ WithAt(x, at).at = at
         /\ \A puts \in 0..2 : /\ WithPuts(x, puts) \in TaskState /\ WithPuts(x, puts).pc = x.pc
                               /\ WithPuts(x, puts).at = x.at
         /\ Again(x) \in TaskState /\ Again(x).pc = x.pc /\ Again(x).at = x.at
<1>1. ASSUME NEW pc \in OnVault \cup OffVault
      PROVE  Turn(x, pc) \in TaskState /\ Turn(x, pc).pc = pc /\ Turn(x, pc).at = x.at
  <2> DEFINE y == [x EXCEPT !.pc = pc]
  <2>1. y \in TaskState /\ y.pc = pc /\ y.at = x.at
    BY DEF TaskState
  <2> HIDE DEF y
  <2>2. /\ [y EXCEPT !.gets = 0] \in TaskState /\ [y EXCEPT !.gets = 0].pc = y.pc
        /\ [y EXCEPT !.gets = 0].at = y.at
    BY <2>1 DEF TaskState
  <2>3. Turn(x, pc) = [y EXCEPT !.gets = 0]
    BY DEF Turn, y
  <2> QED
    BY <2>1, <2>2, <2>3
<1>2. \A key \in Nobody : /\ WithKey(x, key) \in TaskState /\ WithKey(x, key).pc = x.pc
                          /\ WithKey(x, key).at = x.at /\ WithKey(x, key).key = key
  BY DEF TaskState, WithKey
<1>3. \A as \in Nobody : WithAs(x, as) \in TaskState /\ WithAs(x, as).pc = x.pc
  BY DEF TaskState, WithAs
<1>4. \A at \in Nobody : /\ WithAt(x, at) \in TaskState /\ WithAt(x, at).pc = x.pc
                         /\ WithAt(x, at).at = at
  BY DEF TaskState, WithAt
<1>5. \A puts \in 0..2 : /\ WithPuts(x, puts) \in TaskState /\ WithPuts(x, puts).pc = x.pc
                         /\ WithPuts(x, puts).at = x.at
  BY DEF TaskState, WithPuts
<1>6. Again(x) \in TaskState /\ Again(x).pc = x.pc /\ Again(x).at = x.at
  BY DEF TaskState, Again
<1> QED
  BY <1>1, <1>2, <1>3, <1>4, <1>5, <1>6

\* A task that goes to another step, with the attempts counted anew.
LEMMA Turned ==
  ASSUME WorkOK, NEW t \in Task, NEW pc \in OnVault \cup OffVault,
         pc \in OnVault => task[t].at \in Account, pc # "renamed"
  PROVE  /\ Tasked(Turn(task[t], pc)) /\ Turn(task[t], pc).pc = pc
         /\ To(t, pc) = [task EXCEPT ![t] = Turn(task[t], pc)]
         /\ To(t, pc)[t] = Turn(task[t], pc)
<1>1. task[t] \in TaskState
  BY TaskFacts
<1>2. Turn(task[t], pc) \in TaskState /\ Turn(task[t], pc).pc = pc /\ Turn(task[t], pc).at = task[t].at
  BY <1>1, Writes
<1>3. To(t, pc) = [task EXCEPT ![t] = Turn(task[t], pc)]
  BY DEF To, Turn, WorkOK, TasksWell
<1>4. To(t, pc)[t] = Turn(task[t], pc)
  BY <1>3, TaskFacts
<1> QED
  BY <1>2, <1>3, <1>4 DEF Tasked

LEMMA ToOK ==
  ASSUME WorkOK, NEW t \in Task, NEW pc \in OnVault \cup OffVault,
         pc \in OnVault => task[t].at \in Account, pc # "savePut", pc # "renamed"
  PROVE  Well(To(t, pc))
<1> DEFINE x == Turn(task[t], pc)
<1>1. Tasked(x) /\ x.pc # "savePut" /\ To(t, pc) = [task EXCEPT ![t] = x]
  BY Turned
<1>2. Well(task)
  BY TaskFacts
<1> HIDE DEF x
<1>3. Well([task EXCEPT ![t] = x])
  BY <1>1, <1>2, PutTask
<1> QED
  BY <1>1, <1>3

LEMMA AgainOK ==
  ASSUME WorkOK, NEW t \in Task, task[t].pc # "savePut"
  PROVE  Well([task EXCEPT ![t].gets = 1])
<1> DEFINE x == [task[t] EXCEPT !.gets = 1]
<1>1. x \in TaskState /\ x.pc = task[t].pc /\ x.at = task[t].at /\ x.key = task[t].key
  BY TaskFacts DEF TaskState
<1>2. [task EXCEPT ![t].gets = 1] = [task EXCEPT ![t] = x]
  OBVIOUS
<1> HIDE DEF x
<1>3. Tasked(x)
  BY <1>1, TaskFacts DEF Tasked
<1> QED
  BY <1>1, <1>2, <1>3, PutTask, TaskFacts

LEMMA StopsOK ==
  ASSUME WorkOK, NEW t \in Task
  PROVE  Well([task EXCEPT ![t] = Rest])
BY PutTask, RestTasked, TaskFacts

LEMMA EnsuringOK == ASSUME NEW ts, Well(ts) PROVE Well(Ensuring(ts))
BY PutTask, RestTasked DEF Ensuring, Task

LEMMA HeardOK ==
  ASSUME PageOK, NEW id \in Nobody
  PROVE  Heard(page, id) \in PageState
BY DEF Heard, PageOK, PageState

LEMMA EnsureEndsOK ==
  ASSUME WorkOK, PageOK, NEW ok \in BOOLEAN, EnsureEnds(ok)
  PROVE  Goes /\ PageOK'
<1>1. Goes
  BY StopsOK DEF EnsureEnds, Goes, Task
<1>2. [page EXCEPT !.on = ok, !.effect = IF ok THEN "rest" ELSE "failed"] \in PageState
  BY DEF PageOK, PageState
<1> QED
  BY <1>1, <1>2 DEF EnsureEnds, PageOK

LEMMA ThrowsOK ==
  ASSUME WorkOK, PageOK, NEW t \in Task, Throws(t), t = "ensure" => task[t].at \in Account
  PROVE  Goes /\ PageOK'
<1>1. CASE task' = [task EXCEPT ![t] = Rest] /\ UNCHANGED page
  BY <1>1, StopsOK, AccountUnchanged DEF Goes
<1>2. CASE EnsureEnds(FALSE)
  BY <1>2, EnsureEndsOK
<1> DEFINE x == [task[t] EXCEPT !.pc = "profile", !.gets = 0, !.puts = 0, !.round = 2]
<1>3. CASE t = "ensure" /\ task' = [task EXCEPT ![t] = x] /\ UNCHANGED page
  <2>1. x \in TaskState /\ x.pc = "profile" /\ x.at = task[t].at
    <3> DEFINE y == Turn(task[t], "profile")
               z == WithPuts(y, 0)
    <3>1. y \in TaskState /\ y.pc = "profile" /\ y.at = task[t].at
      BY TaskFacts, Steps, Writes
    <3> HIDE DEF y
    <3>2. z \in TaskState /\ z.pc = y.pc /\ z.at = y.at
      BY <3>1, Writes
    <3> HIDE DEF z
    <3>3. Again(z) \in TaskState /\ Again(z).pc = z.pc /\ Again(z).at = z.at
      BY <3>2, Writes
    <3>4. x = Again(z)
      BY DEF Again, WithPuts, Turn, y, z
    <3> HIDE DEF x
    <3> QED
      BY <3>1, <3>2, <3>3, <3>4
  <2> HIDE DEF x
  <2>2. Tasked(x)
    BY <1>3, <2>1 DEF Tasked
  <2> QED
    BY <1>3, <2>1, <2>2, TaskFacts, PutTask, AccountUnchanged DEF Goes
<1> QED
  BY <1>1, <1>2, <1>3 DEF Throws

LEMMA RefreshedOK ==
  ASSUME WorkOK, PageOK, NEW id \in Nobody, NEW ok \in BOOLEAN, Refreshed(id, ok)
  PROVE  Goes /\ PageOK'
<1>1. Goes
  BY StopsOK DEF Refreshed, Goes, Task
<1>2. PageOK'
  BY DEF Refreshed, PageOK, PageState
<1> QED
  BY <1>1, <1>2

LEMMA SetSessionOK ==
  ASSUME NEW id \in Nobody, NEW at \in Nobody, NEW seed \in Nobody, SetSession(id, at, seed)
  PROVE  TabOK'
BY SomebodyOK DEF SetSession, TabOK

\* nobody stands for what is done without an answer.
LEMMA CurrentIdentityOK ==
  ASSUME WorkOK, PageOK, DeviceOK, TabOK, NEW t \in Task, task[t].pc = "who",
         \/ CurrentIdentity(t, task' = To(t, "where") /\ UNCHANGED page)
         \/ CurrentIdentity(t, Refreshed(NoAccount, page.on))
         \/ CurrentIdentity(t, EnsureEnds(FALSE))
  PROVE  Goes /\ PageOK' /\ tabId' \in Nobody
<1>1. Well(To(t, "where")) /\ Well([task EXCEPT ![t].gets = 1])
  <2>1. "where" \in OffVault /\ "where" \notin OnVault
    BY DEF OnVault, OffVault
  <2> QED
    BY <2>1, ToOK, AgainOK
<1>2. Heard(page, device) \in PageState /\ page.on \in BOOLEAN
  BY HeardOK DEF DeviceOK, PageOK, PageState
<1>3. tabId' \in Nobody
  BY DEF CurrentIdentity, DeviceOK, TabOK
<1>4. CASE task' = To(t, "where") /\ page' \in PageState
  BY <1>1, <1>3, <1>4 DEF Goes, PageOK
<1>5. CASE task' = [task EXCEPT ![t].gets = 1] /\ UNCHANGED page
  BY <1>1, <1>3, <1>5 DEF Goes, PageOK
<1>6. CASE Refreshed(NoAccount, page.on)
  BY <1>2, <1>3, <1>6, RefreshedOK, SomebodyOK
<1>7. CASE EnsureEnds(FALSE)
  BY <1>3, <1>7, EnsureEndsOK
<1> QED
  BY <1>2, <1>4, <1>5, <1>6, <1>7 DEF CurrentIdentity, PageOK
-----------------------------------------------------------------------------
LEMMA WhoOK ==
  ASSUME AccountInv, NEW t \in Task, Who(t)
  PROVE  AccountInv'
<1>1. DeviceOK' /\ NetOK' /\ UNCHANGED device
  BY AccountUnchanged DEF AccountInv, Who
<1>2. Goes /\ PageOK' /\ tabId' \in Nobody
  <2>1. CASE task' = To(t, "where") /\ UNCHANGED <<tabId, page, spent>>
    <3>1. "where" \in OffVault /\ "where" \notin OnVault
      BY DEF OnVault, OffVault
    <3>2. Well(To(t, "where"))
      BY <3>1, ToOK DEF AccountInv
    <3> QED
      BY <2>1, <3>2, AccountUnchanged DEF AccountInv, Goes, TabOK
  <2> QED
    BY <2>1, CurrentIdentityOK DEF Who, AccountInv, Pc
<1> QED
  BY <1>1, <1>2, AccountUnchanged DEF AccountInv, TabOK, Who

LEMMA VaultAddressOK ==
  ASSUME DeviceOK, TabOK, NEW v \in Nobody, VaultAddress(v)
  PROVE  tabVault' \in Nobody /\ tabSeed' \in Nobody
BY DEF DeviceOK, TabOK, VaultAddress

LEMMA SoftProbeOK ==
  ASSUME WorkOK, PageOK, TabOK, NEW t \in Task, NEW v, SoftProbe(t, v)
  PROVE  Goes /\ PageOK'
<1>1. Well([task EXCEPT ![t] = Rest])
  BY StopsOK
<1>2. PICK hit \in {FALSE, vaultSeq[v] > 0} :
        \/ t = "page" /\ Refreshed(tabId, hit)
        \/ /\ UNCHANGED page
           /\ task' = IF hit THEN [task EXCEPT ![t] = Rest] ELSE Ensuring([task EXCEPT ![t] = Rest])
  BY DEF SoftProbe
<1>3. hit \in BOOLEAN
  <2>1. FALSE \in BOOLEAN /\ (vaultSeq[v] > 0) \in BOOLEAN
    OBVIOUS
  <2> QED
    BY <2>1, Zenon
<1> QED
  BY <1>1, <1>2, <1>3, EnsuringOK, RefreshedOK DEF Goes, PageOK, TabOK

LEMMA WhereOK ==
  ASSUME AccountInv, NEW t \in Task, Where(t)
  PROVE  AccountInv'
<1>1. DeviceOK' /\ NetOK' /\ UNCHANGED <<tabId, device>>
  BY AccountUnchanged DEF AccountInv, Where
<1>2. PICK v \in Nobody :
        /\ VaultAddress(v)
        /\ \/ SoftProbe(t, v)
           \/ Refreshed(tabId, FALSE)
           \/ task' = [task EXCEPT ![t] = Rest] /\ UNCHANGED page
           \/ /\ v # NoAccount /\ UNCHANGED page
              /\ task' = [To(t, "reach") EXCEPT ![t].as = tabId, ![t].at = v]
           \/ EnsureEnds(FALSE)
  BY DEF Where
<1>3. TabOK'
  BY <1>1, <1>2, VaultAddressOK DEF AccountInv, TabOK
<1> DEFINE x == [task[t] EXCEPT !.pc = "reach", !.gets = 0, !.as = tabId, !.at = v]
<1>4. [To(t, "reach") EXCEPT ![t].as = tabId, ![t].at = v] = [task EXCEPT ![t] = x]
  BY TaskFacts DEF AccountInv, To, TaskState
<1>5. x \in TaskState /\ x.pc = "reach" /\ x.at = v
  <2> DEFINE y == Turn(task[t], "reach")
             z == WithAs(y, tabId)
  <2>1. y \in TaskState /\ y.pc = "reach"
    <3>1. task[t] \in TaskState
      BY TaskFacts DEF AccountInv
    <3>2. "reach" \in OnVault \cup OffVault
      BY Steps
    <3> QED
      BY <3>1, <3>2, Writes
  <2> HIDE DEF y
  <2>2. z \in TaskState /\ z.pc = y.pc
    BY <2>1, Writes DEF AccountInv, TabOK
  <2> HIDE DEF z
  <2>3. WithAt(z, v) \in TaskState /\ WithAt(z, v).pc = z.pc /\ WithAt(z, v).at = v
    BY <2>2, Writes
  <2>4. x = WithAt(z, v)
    BY DEF WithAt, WithAs, Turn, y, z
  <2> HIDE DEF x
  <2> QED
    BY <2>1, <2>2, <2>3, <2>4
<1> HIDE DEF x
<1>6. v # NoAccount => Well([task EXCEPT ![t] = x])
  BY <1>5, PutTask, TaskFacts, SomebodyOK DEF AccountInv, Tasked
<1>7. Goes /\ PageOK'
  BY <1>2, <1>4, <1>6, SoftProbeOK, RefreshedOK, StopsOK, EnsureEndsOK
     DEF AccountInv, Goes, PageOK, TabOK
<1> QED
  BY <1>1, <1>3, <1>7, AccountUnchanged DEF AccountInv

LEMMA ReachOK ==
  ASSUME AccountInv, NEW t \in Task, Reach(t)
  PROVE  AccountInv'
<1>1. task[t].at \in Account
  BY TaskFacts DEF AccountInv, Reach, Pc, OnVault
<1>2. Well(To(t, "profile"))
  BY <1>1, ToOK DEF AccountInv, OnVault
<1>3. Goes /\ PageOK'
  BY <1>2, EnsureEndsOK DEF AccountInv, Reach, Goes, PageOK
<1> QED
  BY <1>3, AccountUnchanged DEF AccountInv, Reach

LEMMA GetTwiceOK ==
  ASSUME WorkOK, PageOK, NEW t \in Task, GetTwice(t), task[t].pc # "savePut",
         t = "ensure" => task[t].at \in Account
  PROVE  Goes /\ PageOK'
BY AgainOK, ThrowsOK DEF GetTwice, Goes, PageOK

LEMMA FindProfileOK ==
  ASSUME AccountInv, NEW t \in Task, FindProfile(t)
  PROVE  AccountInv'
<1>1. task[t].at \in Account /\ task[t].pc # "savePut"
  BY TaskFacts DEF AccountInv, FindProfile, Pc, OnVault
<1>2. Well(To(t, "rename")) /\ Well(To(t, "export")) /\ Well(To(t, "publish"))
  BY <1>1, ToOK DEF AccountInv, OnVault
<1>3. Goes /\ PageOK'
  BY <1>1, <1>2, GetTwiceOK DEF AccountInv, FindProfile, Goes, PageOK
<1> QED
  BY <1>3, AccountUnchanged DEF AccountInv, FindProfile

LEMMA ReadSeedOK ==
  ASSUME WorkOK, PageOK, DeviceOK, NEW t \in Task, NEW next \in OnVault,
         ReadSeed(t, next), task[t].at \in Account
  PROVE  Goes /\ PageOK'
<1> DEFINE x == [task[t] EXCEPT !.pc = next, !.gets = 0, !.key = device]
<1>1. [To(t, next) EXCEPT ![t].key = device] = [task EXCEPT ![t] = x]
  BY DEF To, WorkOK, TasksWell, TaskState
<1>2. x \in TaskState /\ x.pc = next /\ x.at = task[t].at /\ x.key = device
  <2> DEFINE y == Turn(task[t], next)
  <2>1. y \in TaskState /\ y.pc = next /\ y.at = task[t].at
    BY TaskFacts, Writes
  <2> HIDE DEF y
  <2>2. /\ WithKey(y, device) \in TaskState /\ WithKey(y, device).pc = y.pc
        /\ WithKey(y, device).at = y.at /\ WithKey(y, device).key = device
    BY <2>1, Writes DEF DeviceOK
  <2>3. x = WithKey(y, device)
    BY DEF WithKey, Turn, y
  <2> HIDE DEF x
  <2> QED
    BY <2>1, <2>2, <2>3
<1> HIDE DEF x
<1>3. device # NoAccount => Well([task EXCEPT ![t] = x])
  BY <1>2, TaskFacts, SomebodyOK, Steps, PutTask DEF Tasked, DeviceOK
<1> QED
  BY <1>1, <1>3, ThrowsOK DEF ReadSeed, Goes, PageOK

LEMMA SeedStepsOK ==
  ASSUME AccountInv, NEW t \in Task, RenameReads(t) \/ ExportSeed(t)
  PROVE  AccountInv'
<1>1. task[t].at \in Account /\ "renamed" \in OnVault /\ "vaultGet" \in OnVault
  BY TaskFacts DEF AccountInv, RenameReads, ExportSeed, Pc, OnVault
<1>2. Goes /\ PageOK'
  BY <1>1, ReadSeedOK DEF AccountInv, RenameReads, ExportSeed
<1> QED
  BY <1>2, AccountUnchanged DEF AccountInv, RenameReads, ExportSeed

LEMMA RenameImportsOK ==
  ASSUME AccountInv, NEW t \in Task, RenameImports(t)
  PROVE  AccountInv'
<1>1. task[t].at \in Account /\ task[t].key \in Account /\ task[t].key \in Nobody
  BY TaskFacts DEF AccountInv, RenameImports, Pc, OnVault
<1>2. Well(To(t, "export")) /\ Heard(page, task[t].key) \in PageState
  BY <1>1, ToOK, HeardOK DEF AccountInv, OnVault
<1>3. Goes /\ PageOK'
  BY <1>1, <1>2, ThrowsOK DEF AccountInv, RenameImports, Goes, PageOK
<1>4. DeviceOK'
  BY <1>1 DEF AccountInv, RenameImports, DeviceOK
<1>5. TabOK'
  BY <1>1, SetSessionOK, AccountUnchanged DEF AccountInv, RenameImports, TabOK
<1>6. UNCHANGED device \/ device' # NoAccount
  BY <1>1, SomebodyOK DEF RenameImports, tabVars
<1> QED
  BY <1>3, <1>4, <1>5, <1>6, AccountUnchanged DEF AccountInv, RenameImports

LEMMA PublishProfileOK ==
  ASSUME AccountInv, NEW t \in Task, PublishProfile(t)
  PROVE  AccountInv'
<1>1. task[t].at \in Account
  BY TaskFacts DEF AccountInv, PublishProfile, Pc, OnVault
<1>2. Well(To(t, "export"))
  BY <1>1, ToOK DEF AccountInv, OnVault
<1>3. Goes /\ PageOK'
  BY <1>1, <1>2, ThrowsOK DEF AccountInv, PublishProfile, Goes, PageOK
<1>4. NetOK'
  BY SomebodyOK DEF AccountInv, DeviceOK, PublishProfile, NetOK
<1> QED
  BY <1>3, <1>4, AccountUnchanged DEF AccountInv, PublishProfile

LEMMA VaultEnsuredOK ==
  ASSUME WorkOK, PageOK, TabOK, NEW t \in Task, task[t].at \in Account, VaultEnsured(t)
  PROVE  Goes /\ PageOK' /\ tabVault' \in Nobody
<1>1. Well(To(t, "sealed")) /\ Well(To(t, "after"))
  <2>1. "sealed" \in OffVault /\ "after" \in OnVault
    BY DEF OnVault, OffVault
  <2> QED
    BY <2>1, ToOK
<1>2. Heard(page, tabId) \in PageState
  BY HeardOK DEF TabOK
<1> QED
  BY <1>1, <1>2, TaskFacts DEF VaultEnsured, Goes, PageOK

LEMMA FindVaultOK ==
  ASSUME AccountInv, NEW t \in Task, FindVault(t)
  PROVE  AccountInv'
<1>1. task[t].at \in Account
  BY TaskFacts DEF AccountInv, FindVault, Pc, OnVault
<1>2. Well(To(t, "vaultPut"))
  BY <1>1, ToOK DEF AccountInv, OnVault
<1>3. Goes /\ PageOK' /\ tabVault' \in Nobody
  BY <1>1, <1>2, VaultEnsuredOK DEF AccountInv, FindVault, Goes, PageOK, TabOK
<1>4. TabOK'
  BY <1>3 DEF AccountInv, TabOK, FindVault
<1> QED
  BY <1>3, <1>4, AccountUnchanged DEF AccountInv, FindVault

LEMMA PutVaultOK ==
  ASSUME AccountInv, NEW t \in Task, PutVault(t)
  PROVE  AccountInv'
<1>1. task[t].at \in Account /\ task[t].puts \in 0..2
  BY TaskFacts DEF AccountInv, PutVault, Pc, OnVault
<1> DEFINE x == [task[t] EXCEPT !.pc = "vaultGet", !.gets = 0, !.puts = task[t].puts + 1]
           again == [To(t, "vaultGet") EXCEPT ![t].puts = @ + 1]
<1>2. again = [task EXCEPT ![t] = x]
  BY TaskFacts DEF AccountInv, To, TaskState
<1>3. task[t].puts < 2 => x \in TaskState /\ x.pc = "vaultGet" /\ x.at = task[t].at
  <2> DEFINE y == Turn(task[t], "vaultGet")
             n == task[t].puts + 1
  <2>1. task[t].puts < 2 => n \in 0..2
    BY <1>1
  <2>2. y \in TaskState /\ y.pc = "vaultGet" /\ y.at = task[t].at
    BY TaskFacts, Steps, Writes DEF AccountInv
  <2>3. x = WithPuts(y, n)
    BY DEF WithPuts, Turn
  <2> HIDE DEF x, y, n
  <2> QED
    BY <2>1, <2>2, <2>3, Writes
<1> HIDE DEF x
<1>4. task[t].puts < 2 => Well(again)
  BY <1>1, <1>2, <1>3, TaskFacts, PutTask DEF AccountInv, Tasked
<1>5. \/ /\ vaultSeq' = [vaultSeq EXCEPT ![task[t].at] = IF @ = 0 THEN 1 ELSE @]
         /\ VaultEnsured(t)
      \/ /\ task[t].puts < 2 /\ task' = again
         /\ UNCHANGED <<page, vaultSeq, tabVault>>
      \/ Throws(t) /\ UNCHANGED <<vaultSeq, tabVault>>
  BY DEF PutVault
<1> HIDE DEF again
<1>6. Goes /\ PageOK' /\ tabVault' \in Nobody
  BY <1>1, <1>4, <1>5, VaultEnsuredOK, ThrowsOK DEF AccountInv, Goes, PageOK, TabOK
<1>7. vaultSeq' \in [Account -> 0..2]
  BY <1>1, <1>5 DEF AccountInv, NetOK
<1>8. TabOK' /\ NetOK'
  BY <1>6, <1>7 DEF AccountInv, TabOK, NetOK, PutVault
<1> QED
  BY <1>6, <1>8, AccountUnchanged DEF AccountInv, PutVault

LEMMA AfterOK ==
  ASSUME AccountInv, NEW t \in Task, After(t)
  PROVE  AccountInv'
<1>1. task[t].at \in Account
  BY TaskFacts DEF AccountInv, After, Pc, OnVault
<1>2. Goes /\ PageOK'
  BY <1>1, EnsureEndsOK, ThrowsOK DEF AccountInv, After
<1> QED
  BY <1>2, AccountUnchanged DEF AccountInv, After
-----------------------------------------------------------------------------
LEMMA SubmitsOK ==
  ASSUME AccountInv, NEW kind \in {"create", "bundle", "phrase", "signOut", "save"},
         NEW a \in Nobody, NEW at \in Nobody, NEW pc \in OnVault \cup OffVault, pc \notin {"renamed", "savePut"},
         pc \in OnVault => at \in Account, Submits(kind, a, at, pc)
  PROVE  Goes /\ PageOK'
<1> DEFINE x == [Rest EXCEPT !.pc = pc, !.kind = kind, !.as = a, !.at = at, !.key = a]
<1>1. x \in TaskState /\ x.pc = pc /\ x.at = at
  BY RestTasked DEF Tasked, TaskState
<1>2. task' = [task EXCEPT !["form"] = x] /\ page' = [page EXCEPT !.mine = page.open]
  BY DEF Submits
<1> HIDE DEF x
<1>3. Goes
  BY <1>1, <1>2, PutTask, TaskFacts DEF AccountInv, Tasked, Goes, Task
<1>4. PageOK'
  BY <1>2 DEF AccountInv, PageOK, PageState
<1> QED
  BY <1>3, <1>4

LEMMA FormsOK ==
  ASSUME AccountInv,
         \/ \E a \in Account : Create(a) \/ \E kind \in {"bundle", "phrase"} : Restore(a, kind)
         \/ SignOut \/ SaveProfile
  PROVE  AccountInv'
<1>1. "delegates" \in OnVault \cup OffVault /\ "logout" \in OffVault /\ "read" \in OffVault
      /\ "logout" \notin OnVault /\ "read" \notin OnVault
  BY DEF OnVault, OffVault
<1>2. Goes /\ PageOK'
  BY <1>1, SubmitsOK, SomebodyOK DEF Create, Restore, SignOut, SaveProfile, AccountInv, TabOK
<1> QED
  BY <1>2, AccountUnchanged DEF AccountInv, Create, Restore, SignOut, SaveProfile

LEMMA FormFacts ==
  ASSUME WorkOK
  PROVE  /\ "form" \in Task /\ "form" # "ensure"
         /\ task["form"].as \in Nobody /\ task["form"].at \in Nobody
         /\ task["form"].pc \in OnVault => task["form"].at \in Account
         /\ Well([task EXCEPT !["form"] = Rest])
BY TaskFacts, StopsOK DEF Task

LEMMA PrepareOK ==
  ASSUME AccountInv, Prepare
  PROVE  AccountInv'
<1>1. task["form"].at \in Account /\ task["form"].pc # "savePut"
  BY FormFacts DEF AccountInv, Prepare, Pc, OnVault
<1>2. Well(To("form", "import"))
  BY <1>1, FormFacts, ToOK DEF AccountInv, OnVault
<1>3. Goes /\ PageOK'
  BY <1>1, <1>2, FormFacts, GetTwiceOK DEF AccountInv, Prepare, Goes, PageOK
<1> QED
  BY <1>3, AccountUnchanged DEF AccountInv, Prepare

LEMMA SignedInOK ==
  ASSUME PageOK, NEW a \in Nobody, SignedIn(a)
  PROVE  TabOK' /\ PageOK'
BY SetSessionOK, HeardOK DEF SignedIn, PageOK

LEMMA ImportOK ==
  ASSUME AccountInv, Import
  PROVE  AccountInv'
<1>1. task["form"].at \in Account /\ task["form"].as \in Nobody
  BY FormFacts DEF AccountInv, Import, Pc, OnVault
<1>2. /\ Well(To("form", "repoKeys")) /\ Well(To("form", "profile"))
      /\ To("form", "repoKeys")["form"].pc = "repoKeys"
      /\ To("form", "profile")["form"].pc = "profile"
  BY <1>1, FormFacts, ToOK, Turned DEF AccountInv, OnVault
<1>3. CASE FormFails("form") /\ UNCHANGED <<device, tabVars>>
  <2>1. Goes /\ PageOK'
    BY <1>3, FormFacts, ThrowsOK DEF AccountInv, FormFails
  <2> QED
    BY <1>3, <2>1, AccountUnchanged DEF AccountInv, Import
<1>4. ASSUME device' = task["form"].as,
             \/ task' = To("form", "repoKeys") /\ UNCHANGED <<tabVars, page>>
             \/ task' = To("form", "profile") /\ SignedIn(task["form"].as)
      PROVE  AccountInv'
  <2>1. DeviceOK' /\ Goes /\ SaverIn'
    BY <1>1, <1>2, <1>4 DEF DeviceOK, Goes, SaverIn
  <2>2. TabOK' /\ PageOK'
    BY <1>1, <1>4, SignedInOK, AccountUnchanged DEF AccountInv
  <2> QED
    BY <2>1, <2>2, AccountUnchanged DEF AccountInv, Import
<1> QED
  BY <1>3, <1>4 DEF Import

LEMMA RepoKeysOK ==
  ASSUME AccountInv, RepoKeys
  PROVE  AccountInv'
<1>1. task["form"].at \in Account /\ task["form"].as \in Nobody
  BY FormFacts DEF AccountInv, RepoKeys, Pc, OnVault
<1>2. Well(To("form", "profile"))
  BY <1>1, FormFacts, ToOK DEF AccountInv, OnVault
<1>3. CASE FormFails("form") /\ UNCHANGED tabVars
  <2>1. Goes /\ PageOK'
    BY <1>3, FormFacts, ThrowsOK DEF AccountInv, FormFails
  <2> QED
    BY <1>3, <2>1, AccountUnchanged DEF AccountInv, RepoKeys
<1>4. CASE task' = To("form", "profile") /\ SignedIn(task["form"].as)
  BY <1>1, <1>2, <1>4, SignedInOK, AccountUnchanged DEF AccountInv, RepoKeys, Goes
<1> QED
  BY <1>3, <1>4 DEF RepoKeys

LEMMA ThenRefreshOK ==
  ASSUME WorkOK
  PROVE  Well(ThenRefresh(task)) /\ ThenRefresh(task)["form"].pc = "rest"
<1>1. Well([task EXCEPT !["form"] = Rest])
  BY FormFacts
<1>2. [task EXCEPT !["form"] = Rest, !["page"] = [Rest EXCEPT !.pc = "who"]]
        = [[task EXCEPT !["form"] = Rest] EXCEPT !["page"] = [Rest EXCEPT !.pc = "who"]]
  OBVIOUS
<1>3. Well([[task EXCEPT !["form"] = Rest] EXCEPT !["page"] = [Rest EXCEPT !.pc = "who"]])
  BY <1>1, PutTask, RestTasked DEF Task
<1>4. [task EXCEPT !["form"] = Rest]["form"].pc = "rest"
  BY FormFacts, TaskFacts, RestTasked
<1>5. [task EXCEPT !["form"] = Rest, !["page"] = [Rest EXCEPT !.pc = "who"]]["form"].pc = "rest"
  <2>1. [task EXCEPT !["form"] = Rest] \in [Task -> TaskState]
    BY <1>1 DEF Well, TasksWell
  <2>2. "form" \in Task /\ "form" # "page"
    BY DEF Task
  <2>3. ASSUME NEW f \in [Task -> TaskState], NEW x
        PROVE  [f EXCEPT !["page"] = x]["form"] = f["form"]
    BY <2>2
  <2> QED
    BY <1>2, <1>4, <2>1, <2>3
<1> QED
  BY <1>1, <1>2, <1>3, <1>4, <1>5 DEF ThenRefresh

LEMMA SealedOK ==
  ASSUME AccountInv, Sealed
  PROVE  AccountInv'
<1> DEFINE create == task["form"].kind = "create"
           id == IF create THEN task["form"].as ELSE tabId
           p == [page EXCEPT !.view = IF create THEN "backup" ELSE "hub", !.effect = "due",
                             !.on = IF create THEN FALSE ELSE page.on,
                             !.shown = IF id = NoAccount THEN page.shown ELSE id]
<1>1. create \in BOOLEAN /\ id \in Nobody
  BY FormFacts DEF AccountInv, TabOK
<1>2. /\ page' = Submitted(p)
      /\ task' = IF create THEN [task EXCEPT !["form"] = Rest] ELSE ThenRefresh(task)
  BY DEF Sealed
<1> HIDE DEF id, create
<1>3. p \in PageState
  BY <1>1 DEF AccountInv, PageOK, PageState
<1> HIDE DEF p
<1>4. PageOK'
  BY <1>2, <1>3 DEF AccountInv, PageOK, Submitted
<1>5. Goes
  BY <1>2, FormFacts, ThenRefreshOK DEF AccountInv, Goes
<1> QED
  BY <1>4, <1>5, AccountUnchanged DEF AccountInv, Sealed

LEMMA ConfirmBackupOK ==
  ASSUME AccountInv, ConfirmBackup
  PROVE  AccountInv'
<1>1. PageOK'
  BY DEF AccountInv, PageOK, PageState, ConfirmBackup
<1>2. NetOK'
  BY SomebodyOK DEF AccountInv, PageOK, PageState, NetOK, ConfirmBackup
<1> QED
  BY <1>1, <1>2, AccountUnchanged DEF AccountInv, ConfirmBackup

LEMMA LoggedOutOK ==
  ASSUME AccountInv, LoggedOut
  PROVE  AccountInv'
<1>1. CASE FormFails("form") /\ UNCHANGED <<device, tabVars>>
  <2>1. Goes /\ PageOK'
    BY <1>1, FormFacts, ThrowsOK DEF AccountInv, FormFails
  <2> QED
    BY <1>1, <2>1, AccountUnchanged DEF AccountInv, LoggedOut
<1>2. ASSUME device' = NoAccount, SetSession(NoAccount, NoAccount, NoAccount),
             page' = Submitted([page EXCEPT !.view = "hub", !.effect = "due"]),
             task' = ThenRefresh(task)
      PROVE  AccountInv'
  <2>1. DeviceOK' /\ TabOK'
    BY <1>2, SomebodyOK, SetSessionOK DEF DeviceOK
  <2>2. PageOK'
    BY <1>2 DEF AccountInv, PageOK, PageState, Submitted
  <2>3. Goes /\ SaverIn'
    BY <1>2, ThenRefreshOK DEF AccountInv, Goes, SaverIn
  <2> QED
    BY <2>1, <2>2, <2>3, AccountUnchanged DEF AccountInv, LoggedOut
<1> QED
  BY <1>1, <1>2 DEF LoggedOut

LEMMA SaveReadsOK ==
  ASSUME AccountInv, SaveReads
  PROVE  AccountInv'
<1> DEFINE x == [task["form"] EXCEPT !.pc = "savePut", !.gets = 0, !.as = device]
<1>1. [To("form", "savePut") EXCEPT !["form"].as = device] = [task EXCEPT !["form"] = x]
  BY FormFacts, TaskFacts DEF AccountInv, WorkOK, TasksWell, To, TaskState
<1>2. x \in TaskState /\ x.pc = "savePut"
  <2> DEFINE y == Turn(task["form"], "savePut")
  <2>1. y \in TaskState /\ y.pc = "savePut"
    BY FormFacts, TaskFacts, Steps, Writes DEF AccountInv
  <2>2. x = WithAs(y, device)
    BY DEF WithAs, Turn
  <2> HIDE DEF x, y
  <2> QED
    BY <2>1, <2>2, Writes DEF AccountInv, DeviceOK
<1> HIDE DEF x
<1>3. TasksWell([task EXCEPT !["form"] = x])
  BY <1>2, FormFacts, Steps DEF AccountInv, WorkOK, TasksWell, Tasked
<1>4. CASE device # NoAccount /\ UNCHANGED page /\ task' = [task EXCEPT !["form"] = x]
  <2>1. WorkOK' /\ SaverIn'
    BY <1>3, <1>4 DEF WorkOK, SaverIn, SaveReads
  <2> QED
    BY <1>4, <2>1, AccountUnchanged DEF AccountInv, SaveReads
<1>5. CASE Throws("form")
  <2>1. Goes /\ PageOK'
    BY <1>5, FormFacts, ThrowsOK DEF AccountInv
  <2> QED
    BY <2>1, AccountUnchanged DEF AccountInv, SaveReads
<1> QED
  BY <1>1, <1>4, <1>5 DEF SaveReads

LEMMA SavePutOK ==
  ASSUME AccountInv, SavePut
  PROVE  AccountInv'
<1>1. CASE FormFails("form") /\ UNCHANGED <<tabVars, published>>
  <2>1. Goes /\ PageOK'
    BY <1>1, FormFacts, ThrowsOK DEF AccountInv, FormFails
  <2> QED
    BY <1>1, <2>1, AccountUnchanged DEF AccountInv, SavePut, netVars
<1>2. ASSUME published' = published \cup {device},
             SetSession(task["form"].as,
                        IF task["form"].at = NoAccount THEN tabVault ELSE task["form"].at, tabSeed),
             page' = Heard(page, task["form"].as), task' = ThenRefresh(task)
      PROVE  AccountInv'
  <2>1. TabOK' /\ PageOK' /\ Goes
    BY <1>2, FormFacts, SetSessionOK, HeardOK, ThenRefreshOK
       DEF AccountInv, TabOK, PageOK, Goes
  <2>2. device # NoAccount
    BY DEF AccountInv, SaverIn, SavePut, Pc
  <2>3. NetOK'
    BY <1>2, <2>2, SomebodyOK DEF AccountInv, DeviceOK, NetOK, SavePut
  <2> QED
    BY <2>1, <2>3, AccountUnchanged DEF AccountInv, SavePut
<1> QED
  BY <1>1, <1>2 DEF SavePut

LEMMA PageStepsOK ==
  ASSUME AccountInv,
         \/ \E v \in {"hub", "create", "restore"} : SwitchView(v)
         \/ SkeletonCap \/ EnsureEffect \/ RetryVault
  PROVE  AccountInv'
<1>1. PageOK'
  BY DEF AccountInv, PageOK, PageState, SwitchView, SkeletonCap, EnsureEffect, RetryVault
<1>2. Goes
  BY EnsuringOK, FormFacts, TaskFacts DEF AccountInv, Goes, SwitchView, SkeletonCap, EnsureEffect, RetryVault
<1> QED
  BY <1>1, <1>2, AccountUnchanged
     DEF AccountInv, SwitchView, SkeletonCap, EnsureEffect, RetryVault

LEMMA OpensOK ==
  /\ Closed \in PageState
  /\ \A id \in Nobody : Opened(id) \in PageState
BY SomebodyOK DEF Closed, Opened, PageState

LEMMA LeaveOpenOK ==
  ASSUME AccountInv, LeavePage \/ OpenPage
  PROVE  AccountInv'
<1>1. PageOK'
  BY OpensOK DEF AccountInv, TabOK, PageOK, LeavePage, OpenPage
<1>2. Goes
  <2>1. "page" \in Task /\ WorkOK /\ Well(task)
    BY FormFacts, TaskFacts DEF AccountInv, Task
  <2>2. Well([task EXCEPT !["page"] = Rest])
        /\ Well([task EXCEPT !["page"] = [Rest EXCEPT !.pc = "who"]])
    BY <2>1, PutTask, RestTasked
  <2> QED
    BY <2>2 DEF Goes, LeavePage, OpenPage
<1> QED
  BY <1>1, <1>2, AccountUnchanged DEF AccountInv, LeavePage, OpenPage

LEMMA LoadsOK ==
  ASSUME AccountInv, Loads
  PROVE  AccountInv'
<1>1. TabOK'
  BY SomebodyOK DEF AccountInv, TabOK, Loads
<1>2. PageOK'
  BY <1>1, OpensOK DEF TabOK, PageOK, Loads
<1>3. Goes
  BY RestTasked DEF Goes, Well, TasksWell, Tasked, Task, Loads
<1> QED
  BY <1>1, <1>2, <1>3, AccountUnchanged DEF AccountInv, Loads

LEMMA AccountInvInit == AccountInit => AccountInv
<1> SUFFICES ASSUME AccountInit  PROVE AccountInv
  OBVIOUS
<1>1. DeviceOK /\ TabOK /\ NetOK
  BY SomebodyOK DEF AccountInit, DeviceOK, TabOK, NetOK
<1>2. PageOK
  BY OpensOK DEF AccountInit, PageOK
<1>3. WorkOK /\ SaverIn
  BY RestTasked DEF AccountInit, WorkOK, SaverIn, TasksWell, Tasked, Task
<1> QED
  BY <1>1, <1>2, <1>3 DEF AccountInv

LEMMA AccountInvStep == AccountInv /\ [AccountNext]_accountVars => AccountInv'
<1> SUFFICES ASSUME AccountInv, [AccountNext]_accountVars  PROVE AccountInv'
  OBVIOUS
<1>1. CASE UNCHANGED accountVars
  BY <1>1, AccountUnchanged DEF AccountInv, accountVars
<1>2. ASSUME NEW t \in Task, TaskNext(t)  PROVE AccountInv'
  BY <1>2, WhoOK, WhereOK, ReachOK, FindProfileOK, SeedStepsOK, RenameImportsOK,
     PublishProfileOK, FindVaultOK, PutVaultOK, AfterOK DEF TaskNext
<1>3. CASE FormNext
  BY <1>3, PrepareOK, ImportOK, RepoKeysOK, SealedOK, LoggedOutOK, SaveReadsOK, SavePutOK
     DEF FormNext
<1> QED
  BY <1>1, <1>2, <1>3, FormsOK, ConfirmBackupOK, PageStepsOK, LeaveOpenOK, LoadsOK
     DEF AccountNext, AccountWork, Reload, Visit

LEMMA AccountInvTypes == AccountInv => AccountTypeOK
<1> SUFFICES ASSUME AccountInv  PROVE AccountTypeOK
  OBVIOUS
<1>1. /\ {device, tabId, tabVault, tabSeed, page.shown} \subseteq Nobody
      /\ page.view \in {"hub", "create", "restore", "backup"}
      /\ page.effect \in {"rest", "due", "waits", "failed"}
  BY DEF AccountInv, DeviceOK, TabOK, PageOK, PageState
<1>2. \A t \in Task : /\ {task[t].as, task[t].at, task[t].key} \subseteq Nobody
                      /\ task[t].gets \in 0..1 /\ task[t].puts \in 0..2 /\ task[t].round \in 1..2
  BY TaskFacts DEF AccountInv, TaskState
<1> QED
  BY <1>1, <1>2 DEF AccountInv, NetOK, AccountTypeOK

\* The type invariant of the session: identities, addresses and seeds are accounts or
\* none, also in what a task carries past a sign-out.
THEOREM AccountTypeCorrect == AccountSpec => []AccountTypeOK
BY AccountInvTypes, AccountInvInit, AccountInvStep, PTL DEF AccountSpec
-----------------------------------------------------------------------------
(***************************************************************************)
(* The five side by side.  They share no state: a step of one leaves the   *)
(* others as they are, and each starts as it starts by itself.             *)
(***************************************************************************)
ContractsInv == MetaTypeOK /\ StarsInv /\ ReplicasTypeOK /\ ProfileInv /\ AccountInv

LEMMA ContractsInvInit == MCInit => ContractsInv
BY MetaTypeInit, StarsInvInit, ReplicasInvInit, ProfileInvInit, AccountInvInit
   DEF MCInit, ContractsInv

LEMMA ContractsStepsAreParts ==
  [MCNext]_mcVars =>
    /\ [MetaNext]_metaVars /\ [StarsNext]_starVars /\ [ReplicasNext]_replicaVars
    /\ [ProfileNext]_profileVars /\ [AccountNext]_accountVars
BY DEF MCNext, mcVars

LEMMA ContractsInvStep == ContractsInv /\ [MCNext]_mcVars => ContractsInv'
<1> SUFFICES ASSUME ContractsInv, [MCNext]_mcVars  PROVE ContractsInv'
  OBVIOUS
<1>1. /\ [MetaNext]_metaVars /\ [StarsNext]_starVars /\ [ReplicasNext]_replicaVars
      /\ [ProfileNext]_profileVars /\ [AccountNext]_accountVars
  BY ContractsStepsAreParts
<1>2. MetaTypeOK' /\ StarsInv' /\ ReplicasTypeOK'
  BY <1>1, MetaTypeStep, StarsStep, ReplicasStep DEF ContractsInv
<1>3. ProfileInv' /\ AccountInv'
  BY <1>1, ProfileStep, AccountInvStep DEF ContractsInv
<1> QED
  BY <1>2, <1>3 DEF ContractsInv

\* The type invariant of the contracts and of the session, in the composition the
\* contracts run checks.
THEOREM ContractsTypeOKAlways == MCSpec => []ContractsTypeOK
<1>1. ContractsInv => ContractsTypeOK
  BY ProfileInvTypes, AccountInvTypes DEF ContractsInv, StarsInv, ContractsTypeOK
<1> QED
  BY <1>1, ContractsInvInit, ContractsInvStep, PTL DEF MCSpec

\* Every safety property of the contracts run, in the composition it checks: the
\* theorems about the contracts hold of the contracts side by side.
THEOREM ContractsAreSafe ==
  MCSpec => /\ BlindPutReplacesNothing /\ InboxWritesKeepBio
            /\ MetaOnlyAdvances /\ StarsStay /\ KeysKeepToScope
<1>1. MCInit => ProfileInit /\ MetaInit /\ StarsInit /\ ReplicasInit
  BY DEF MCInit
<1>2. MCSpec => ProfileSpec /\ MetaSpec /\ StarsSpec /\ ReplicasSpec
  BY <1>1, ContractsStepsAreParts, PTL DEF MCSpec, ProfileSpec, MetaSpec, StarsSpec, ReplicasSpec
<1> QED
  BY <1>2, BlindPutReplacesNothingAlways, InboxWritesKeepBioAlways, MetaOnlyAdvancesAlways,
     StarsStayAlways, KeysKeepToScopeAlways
=============================================================================
