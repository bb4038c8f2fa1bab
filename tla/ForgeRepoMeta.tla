--------------------------- MODULE ForgeRepoMeta ---------------------------
(***************************************************************************)
(* Settings and message channels of one repository: the forge-repo         *)
(* contract (contracts/forge-repo/src/lib.rs), the copies nodes hold, and  *)
(* the clients of forge-repo.ts that provision, rewrite and restore it.    *)
(*                                                                         *)
(* The owner's upsert carries everything and needs a higher seq; an append *)
(* of any sender adds one message and leaves seq and signatures alone.  A  *)
(* peer's state is an upsert too.  Clients read before they write, and a   *)
(* read that fails looks like a missing state.                             *)
(***************************************************************************)
EXTENDS Naturals, FiniteSets

CONSTANTS
  MetaHost,       \* nodes that may hold a copy
  MetaClient,     \* browsers with the site key, each on the node it names
  MetaOwner,      \* identities that hold the site key
  SignsAs,        \* the one each client is signed in with
  Settings, NoSettings,
  Public, Private,  \* messages, each sent to one of the two channels
  MaxChannel,     \* MAX_CHANNEL_MESSAGES (128)
  MaxMetaSeq,     \* bound of the model
  NoMeta

ASSUME MetaAssumption ==
  /\ MetaClient \subseteq MetaHost
  /\ SignsAs \in [MetaClient -> MetaOwner]
  /\ NoSettings \notin Settings
  /\ MaxChannel \in Nat /\ MaxMetaSeq \in Nat \ {0}
  /\ IsFiniteSet(Public) /\ IsFiniteSet(Private)

VARIABLES
  meta,   \* the copy of each node, NoMeta if it has none
  saved,  \* the snapshot in the backup of each client
  draft   \* the signed state a client is about to Put, NoMeta if none

metaVars == <<meta, saved, draft>>

Channel(M) == {s \in SUBSET M : Cardinality(s) <= MaxChannel}

Meta == [seq : 1..MaxMetaSeq, owner : MetaOwner,
         settings : Settings \cup {NoSettings}, seal : BOOLEAN,
         public : Channel(Public), private : Channel(Private)]

Exists(s) == s # NoMeta

(***************************************************************************)
(* The contract.                                                           *)
(***************************************************************************)
MayUpsertMeta_SameSeq(prev, next) ==
  Exists(prev) => next.seq >= prev.seq /\ next.owner = prev.owner

\* apply_upsert
MayUpsertMeta(prev, next) ==
  Exists(prev) => next.seq > prev.seq /\ next.owner = prev.owner

\* Where apply_append_public and apply_append_private agree.
MayAppendTo(s, channel, m) ==
  /\ Exists(s)
  /\ m \notin channel
  /\ Cardinality(channel) < MaxChannel

\* A signed message reaches a node, once or again.
AppendPublic(n, m) ==
  /\ MayAppendTo(meta[n], meta[n].public, m)
  /\ meta' = [meta EXCEPT ![n].public = @ \cup {m}]
  /\ UNCHANGED <<saved, draft>>

AppendPrivate(n, m) ==
  /\ MayAppendTo(meta[n], meta[n].private, m)
  /\ meta[n].seal
  /\ meta' = [meta EXCEPT ![n].private = @ \cup {m}]
  /\ UNCHANGED <<saved, draft>>

SyncMeta(n, o) ==
  /\ Exists(meta[o])
  /\ MayUpsertMeta(meta[n], meta[o])
  /\ meta' = [meta EXCEPT ![n] = meta[o]]
  /\ UNCHANGED <<saved, draft>>

\* The nodes that host the contract give it up, for lack of interest.
Forgotten ==
  /\ \E n \in MetaHost : Exists(meta[n])
  /\ meta' = [n \in MetaHost |-> NoMeta]
  /\ UNCHANGED <<saved, draft>>

(***************************************************************************)
(* The clients.                                                            *)
(***************************************************************************)

\* fetchForgeRepoMeta: a soft GET, from the node's copy or, if it has none,
\* from the network; any failure gives null.
fetchForgeRepoMeta(c) ==
  {NoMeta} \cup (IF Exists(meta[c]) THEN {meta[c]} ELSE {meta[n] : n \in MetaHost})

\* What a client signs after it read s: the seq after it, and its channels
\* unless it prunes messages from them.
Signed(c, s, settings, pruned) ==
  [seq      |-> IF Exists(s) THEN s.seq + 1 ELSE 1,
   owner    |-> SignsAs[c],
   settings |-> settings,
   seal     |-> TRUE,
   public   |-> IF Exists(s) THEN s.public \ pruned ELSE {},
   private  |-> IF Exists(s) THEN s.private \ pruned ELSE {}]

SettingsOf(s) == IF Exists(s) THEN s.settings ELSE NoSettings

SetDraft(c, s) == draft' = [draft EXCEPT ![c] = s] /\ UNCHANGED <<meta, saved>>

\* ensureForgeRepoMeta: it stops if the state it reads has its seal key.
EnsureMeta(c) ==
  /\ ~Exists(draft[c])
  /\ \E s \in fetchForgeRepoMeta(c) :
       /\ Exists(s) => ~s.seal /\ s.seq < MaxMetaSeq
       /\ SetDraft(c, Signed(c, s, SettingsOf(s), {}))

\* upsertForgeRepoMeta
UpsertMeta(c) ==
  /\ ~Exists(draft[c])
  /\ \E s \in fetchForgeRepoMeta(c) :
       /\ Exists(s) => s.seq < MaxMetaSeq
       /\ \/ \E new \in Settings : SetDraft(c, Signed(c, s, new, {}))
          \/ \E m \in Public \cup Private : SetDraft(c, Signed(c, s, SettingsOf(s), {m}))

\* A backup keeps the state it reads; restoreForgeRepoMetaSnapshot Puts it again.
SaveMeta(c) ==
  /\ \E s \in fetchForgeRepoMeta(c) \ {NoMeta} : saved' = [saved EXCEPT ![c] = s]
  /\ UNCHANGED <<meta, draft>>

RestoreMeta(c) ==
  /\ ~Exists(draft[c])
  /\ Exists(saved[c])
  /\ SetDraft(c, saved[c])

\* putOrUpdateForgeRepoMeta: the Puts that follow a lost answer, and the Update
\* after them, carry the same seq, so the copy that took the first refuses them.
PutMeta(c) ==
  /\ Exists(draft[c])
  /\ MayUpsertMeta(meta[c], draft[c])
  /\ meta' = [meta EXCEPT ![c] = draft[c]]
  /\ draft' = [draft EXCEPT ![c] = NoMeta]
  /\ UNCHANGED saved

\* It is refused, lost, or the tab is closed.
DropDraft(c) == Exists(draft[c]) /\ SetDraft(c, NoMeta)

\* A node may host what an owner published before seal keys were provisioned.
MetaInit ==
  /\ meta \in [MetaHost -> {NoMeta} \cup
       [seq : {1}, owner : MetaOwner, settings : {NoSettings}, seal : {FALSE},
        public : {{}}, private : {{}}]]
  /\ saved = [c \in MetaClient |-> NoMeta]
  /\ draft = [c \in MetaClient |-> NoMeta]

MetaNext ==
  \/ \E n \in MetaHost :
       \/ \E m \in Public : AppendPublic(n, m)
       \/ \E m \in Private : AppendPrivate(n, m)
       \/ \E o \in MetaHost : SyncMeta(n, o)
  \/ Forgotten
  \/ \E c \in MetaClient :
       \/ EnsureMeta(c) \/ UpsertMeta(c) \/ SaveMeta(c) \/ RestoreMeta(c)
       \/ PutMeta(c) \/ DropDraft(c)

MetaSpec == MetaInit /\ [][MetaNext]_metaVars

-----------------------------------------------------------------------------
\* Every copy, snapshot and draft is a state the contract accepts, its channels
\* within their cap.
MetaTypeOK ==
  /\ meta \in [MetaHost -> Meta \cup {NoMeta}]
  /\ saved \in [MetaClient -> Meta \cup {NoMeta}]
  /\ draft \in [MetaClient -> Meta \cup {NoMeta}]

\* While a node hosts the contract no other holder of the site key takes it over,
\* and its copy only goes on: a new seq, or the same one with more messages.  So
\* neither a Put built on a missed read, nor a restored snapshot, nor a slower
\* peer undoes an upsert or drops a message of the same seq.
MetaOnlyAdvances ==
  [][\A n \in MetaHost :
       (Exists(meta[n]) /\ Exists(meta'[n])) =>
         /\ meta'[n].owner = meta[n].owner
         /\ \/ meta'[n].seq > meta[n].seq
            \/ /\ [meta'[n] EXCEPT !.public = {}, !.private = {}]
                    = [meta[n] EXCEPT !.public = {}, !.private = {}]
               /\ meta[n].public \subseteq meta'[n].public
               /\ meta[n].private \subseteq meta'[n].private]_metaVars
=============================================================================
