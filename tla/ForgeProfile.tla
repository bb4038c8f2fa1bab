---------------------------- MODULE ForgeProfile ----------------------------
(***************************************************************************)
(* The public profile of one identity with its inbox: the forge-profile    *)
(* contract (contracts/forge-profile/src/lib.rs), the copies nodes hold of *)
(* it, and the owner's browsers that rewrite it (forge-profile.ts and the  *)
(* flows of auth-api.ts and account-heal.ts that call it).                 *)
(*                                                                         *)
(* The signed fields are two values, each Blank when nothing is filled in: *)
(* bio, which every caller names, and meta (public_meta), which some leave *)
(* to a second read.  The inbox, which no owner signature covers, is the   *)
(* set of its messages.                                                    *)
(* An operation reads, reads again for the seq, then Puts.  A read asks    *)
(* the instances of the present and of an older WASM hash, and either      *)
(* answer may be missed.                                                   *)
(***************************************************************************)
EXTENDS Naturals, FiniteSets, FiniteSetsExt

CONSTANTS
  Host,           \* the nodes that may hold a copy
  Browser,        \* the nodes the owner's browsers are on
  Bio, PublicMeta, \* what may be filled in, in the form and as status or pins
  Blank,          \* nothing filled in
  Mail, Notice,   \* messages of others; system notices of the owner to himself
  MaxInbox,       \* MAX_INBOX_MESSAGES (64)
  KeepNotices,    \* what a notice leaves in the inbox, itself included (50)
  LegacySeq,      \* seq of the profile under the older hash
  MaxProfileSeq,  \* bound of the model
  NoProfile

ASSUME ProfileAssumption ==
  /\ Browser \subseteq Host
  /\ Blank \notin Bio \cup PublicMeta
  /\ NoProfile \notin [seq : Nat, bio : Bio \cup {Blank}, meta : PublicMeta \cup {Blank},
                       pk : BOOLEAN, inbox : SUBSET (Mail \cup Notice)]
  /\ MaxInbox \in Nat /\ KeepNotices \in 1..MaxInbox
  /\ LegacySeq \in Nat /\ MaxProfileSeq \in Nat \ {0}
  /\ IsFiniteSet(Mail \cup Notice)

VARIABLES
  profile,  \* the copy of each node, NoProfile if it hosts none
  legacy,   \* the profile under the older hash, which nobody writes any more
  flow        \* what each browser is doing, NoProfile if nothing

profileVars == <<profile, legacy, flow>>

Message == Mail \cup Notice

Inbox == {s \in SUBSET Message : Cardinality(s) <= MaxInbox}

Profile == [seq : 1..MaxProfileSeq, bio : Bio \cup {Blank}, meta : PublicMeta \cup {Blank},
            pk : BOOLEAN, inbox : Inbox]

Found(p) == p # NoProfile

(***************************************************************************)
(* The contract.                                                           *)
(***************************************************************************)

MayReplace_SameSeq(old, new) == Found(old) => new.seq >= old.seq

\* apply_upsert: the contract's own identity, so only seq decides.  A node
\* that hosts nothing stores what validate_state accepts.
MayReplace(old, new) == Found(old) => new.seq > old.seq

MayAppend_Full(p, m) == Found(p) /\ p.pk /\ m \notin p.inbox

MayAppend(p, m) ==
  /\ Found(p)
  /\ p.pk
  /\ m \notin p.inbox
  /\ Cardinality(p.inbox) < MaxInbox

(***************************************************************************)
(* What a reliable read returns.                                           *)
(***************************************************************************)

Sparse(p) == p.bio = Blank /\ p.meta = Blank /\ p.inbox = {}

\* A rich state is preferred if it is at least as new as every sparse stub.
Pool(S) ==
  LET rich == {p \in S : ~Sparse(p)}
  IN  IF \E r \in rich : \A s \in S \ rich : r.seq >= s.seq THEN rich ELSE S

Better(p, q) ==
  \/ p.seq > q.seq
  \/ /\ p.seq = q.seq
     /\ ~Sparse(q) => ~Sparse(p)
     /\ Cardinality(p.inbox) >= Cardinality(q.inbox)

pickBestProfile(S) ==
  IF S = {} THEN NoProfile
  ELSE CHOOSE p \in Pool(S) : \A q \in Pool(S) : Better(p, q)

\* The node answers with its copy, or with one it finds in the network.
Current(d) ==
  {p \in IF Found(profile[d]) THEN {profile[d]} ELSE {profile[e] : e \in Host} : Found(p)}

Legacy == {legacy} \ {NoProfile}

\* Each of the two probes answers, or its failure is taken for a missing one.
fetchForgeProfile(d) ==
  LET Answer == {{}} \cup {{p} : p \in Current(d)}
  IN  UNION {{pickBestProfile(c \cup l) : l \in SUBSET Legacy} : c \in Answer}

(***************************************************************************)
(* The owner's operations.  A draft is what the caller hands to            *)
(* publishForgeProfile; open names what it leaves to the second read: the  *)
(* inbox with its key, or meta.                                            *)
(***************************************************************************)
Idle(d) == flow[d] = NoProfile

Draft(kind, base, bio, meta, pk, inbox, open) ==
  [step |-> "publish", kind |-> kind, base |-> base, bio |-> bio, meta |-> meta,
   pk |-> pk, inbox |-> inbox, open |-> open]

Goto(d, o) ==
  /\ flow' = [flow EXCEPT ![d] = o]
  /\ UNCHANGED <<profile, legacy>>

End(d) == Goto(d, NoProfile)

\* updatePublicProfile: what the caller names is as they filled it in, the rest
\* as the first read has it, or empty if that found nothing.
UpdateProfile(d) ==
  /\ Idle(d)
  /\ \E p \in fetchForgeProfile(d), b \in Bio \cup {Blank}, x \in PublicMeta \cup {Blank},
        named \in SUBSET {"bio", "meta"} :
       LET own == IF Found(p) THEN p ELSE [bio |-> Blank, meta |-> Blank]
       IN  Goto(d, Draft("edit", NoProfile, IF "bio" \in named THEN b ELSE own.bio,
                         IF "meta" \in named THEN x ELSE own.meta, FALSE, {}, {"inbox"}))

\* A notice to oneself rewrites the profile; slice(-50) keeps the latest, which
\* the set does not order: any of that number.
Kept(inbox, m) ==
  LET others == inbox \ {m}
      room   == KeepNotices - 1
  IN  {s \cup {m} : s \in kSubset(IF Cardinality(others) < room
                                    THEN Cardinality(others) ELSE room, others)}

NotifySelf_NoBio(d, m) ==
  /\ Idle(d)
  /\ \E p \in fetchForgeProfile(d) :
       IF Found(p)
         THEN \E s \in Kept(p.inbox, m) :
                Goto(d, Draft("notice", p, Blank, p.meta, TRUE, s, {}))
         ELSE End(d)

NotifySelf(d, m) ==
  /\ Idle(d)
  /\ \E p \in fetchForgeProfile(d) :
       IF Found(p)
         THEN \E s \in Kept(p.inbox, m) :
                Goto(d, Draft("notice", p, p.bio, p.meta, TRUE, s, {}))
         ELSE End(d)

\* pruneInboxMessages names no public_meta.
PruneInbox(d, drop) ==
  /\ Idle(d)
  /\ \E p \in fetchForgeProfile(d) :
       IF Found(p)
         THEN Goto(d, Draft("prune", p, p.bio, Blank, p.pk, p.inbox \ drop, {"meta"}))
         ELSE End(d)

\* ensureForgeProfilePublished, when its read found nothing.
PublishStub(d) ==
  /\ Idle(d)
  /\ NoProfile \in fetchForgeProfile(d)
  /\ Goto(d, Draft("stub", NoProfile, Blank, Blank, TRUE, {}, {"meta"}))

\* A profile was found: it is moved to the present hash, then gets its inbox key.
FoundProfile(d) ==
  /\ Idle(d)
  /\ \E p \in fetchForgeProfile(d) \ {NoProfile} :
       Goto(d, [step |-> "migrate", found |-> p])

BackfillDraft(p) == Draft("backfill", p, p.bio, p.meta, TRUE, p.inbox, {})

Backfill(d, p) == IF p.pk THEN End(d) ELSE Goto(d, BackfillDraft(p))

\* migrateForgeProfileToCurrentWasm publishes a rich older profile if the present
\* one is missing, older, or a stub that is not newer; of two rich ones with one
\* seq the avatars, which are not modelled, decide.
Migrates(cur, old) ==
  /\ Found(old) /\ ~Sparse(old)
  /\ Found(cur) => cur.seq < old.seq \/ (Sparse(cur) /\ cur.seq = old.seq)

MayMigrate(cur, old) ==
  /\ Found(old) /\ ~Sparse(old)
  /\ Found(cur) => cur.seq <= old.seq

Migrate(d) ==
  /\ ~Idle(d) /\ flow[d].step = "migrate"
  /\ \E cur \in Current(d) \cup {NoProfile}, old \in Legacy \cup {NoProfile} :
       \/ /\ MayMigrate(cur, old)
          /\ Goto(d, Draft("migrate", flow[d].found, old.bio, old.meta, old.pk, old.inbox, {}))
       \/ /\ ~Migrates(cur, old)
          /\ Backfill(d, IF Found(cur) THEN cur ELSE flow[d].found)

\* publishForgeProfile: the seq, and the fields the draft leaves open, come
\* from a read of its own.
Sign(o, p) ==
  [seq   |-> IF Found(p) THEN p.seq + 1 ELSE 1,
   bio   |-> o.bio,
   meta  |-> IF "meta" \in o.open /\ Found(p) THEN p.meta ELSE o.meta,
   pk    |-> o.pk \/ ("inbox" \in o.open /\ Found(p) /\ p.pk),
   inbox |-> IF "inbox" \in o.open /\ Found(p) THEN p.inbox ELSE o.inbox]

Publish(d) ==
  /\ ~Idle(d) /\ flow[d].step = "publish"
  /\ \E p \in fetchForgeProfile(d) :
       /\ Found(p) => p.seq < MaxProfileSeq
       /\ Goto(d, [step |-> "put", kind |-> flow[d].kind, base |-> flow[d].base,
                   again |-> p, state |-> Sign(flow[d], p)])

\* What follows in the flow that published: only the sign-in goes on, from the
\* profile p it now knows.
AfterPublish(o, p) ==
  IF o.kind = "migrate" /\ ~p.pk THEN BackfillDraft(p) ELSE NoProfile

\* putOrUpdateForgeProfile: the Put merges into the node's copy.
Put(d) ==
  /\ ~Idle(d) /\ flow[d].step = "put"
  /\ MayReplace(profile[d], flow[d].state)
  /\ profile' = [profile EXCEPT ![d] = flow[d].state]
  /\ flow' = [flow EXCEPT ![d] = AfterPublish(flow[d], flow[d].state)]
  /\ UNCHANGED legacy

\* The signature fails, or the Put is refused or lost and so is the Update that
\* is tried next.
PublishFails(d) ==
  /\ ~Idle(d) /\ flow[d].step \in {"publish", "put"}
  /\ Goto(d, AfterPublish(flow[d], flow[d].base))

\* The tab is closed.
Abandon(d) == ~Idle(d) /\ End(d)

(***************************************************************************)
(* The network.                                                            *)
(***************************************************************************)

\* A signed append of somebody else reaches a node, for the first time or again.
AppendInbox(n, m) ==
  /\ MayAppend(profile[n], m)
  /\ profile' = [profile EXCEPT ![n].inbox = @ \cup {m}]
  /\ UNCHANGED <<legacy, flow>>

\* A node gets the whole state of another, which is an upsert to it.
SyncProfile(n, o) ==
  /\ Found(profile[o])
  /\ MayReplace(profile[n], profile[o])
  /\ profile' = [profile EXCEPT ![n] = profile[o]]
  /\ UNCHANGED <<legacy, flow>>

ProfileInit ==
  /\ profile = [n \in Host |-> NoProfile]
  /\ legacy \in {NoProfile} \cup [seq : {LegacySeq}, bio : Bio, meta : PublicMeta \cup {Blank},
                                 pk : {FALSE}, inbox : {{}}]
  /\ flow = [d \in Browser |-> NoProfile]

ProfileNext ==
  \/ \E d \in Browser :
       \/ UpdateProfile(d)
       \/ \E m \in Notice : NotifySelf(d, m)
       \/ \E m \in Message : PruneInbox(d, {m})
       \/ PublishStub(d) \/ FoundProfile(d) \/ Migrate(d)
       \/ Publish(d) \/ Put(d) \/ PublishFails(d) \/ Abandon(d)
  \/ \E n \in Host :
       \/ \E m \in Mail : AppendInbox(n, m)
       \/ \E o \in Host : SyncProfile(n, o)

ProfileSpec == ProfileInit /\ [][ProfileNext]_profileVars

\* Nodes that are connected exchange states again and again.
ProfileFairness == \A n, o \in Host : WF_profileVars(SyncProfile(n, o))

ProfileFairSpec == ProfileSpec /\ ProfileFairness

-----------------------------------------------------------------------------
\* Copies are well formed and the inbox stays within its cap, whoever wrote.
ProfileTypeOK ==
  /\ profile \in [Host -> Profile \cup {NoProfile}]
  /\ \A d \in Browser : ~Idle(d) /\ flow[d].step = "put" => flow[d].state \in Profile

\* A Put that was built without finding any profile (a missed read is taken for
\* a missing profile) replaces nothing, because its seq starts over.
BlindPutReplacesNothing ==
  [][\A d \in Browser :
       (Put(d) /\ ~Found(flow[d].again)) => ~Found(profile[d])]_profileVars

\* A notice, a prune and the backfill of the inbox key are about the inbox: if
\* the owner published nothing since they read the profile, all that is signed
\* stays.  A prune, which takes meta from another read than the rest, loses it
\* only if that read saw another profile than the first (the older hash's).
SameSigned(p, q) == Found(p) /\ p.seq = q.seq /\ p.bio = q.bio /\ p.meta = q.meta

InboxWritesKeepBio ==
  [][\A d \in Browser :
       (/\ Put(d)
        /\ flow[d].kind \in {"notice", "prune", "backfill"}
        /\ Found(profile[d]) /\ SameSigned(flow[d].base, profile[d]))
       => /\ profile'[d].bio = profile[d].bio
          /\ profile'[d].meta # profile[d].meta
               => flow[d].kind = "prune" /\ ~SameSigned(flow[d].again, profile[d])]_profileVars

\* The owner has stopped; the nodes that host the profile have one seq.
OwnerRests == \A d \in Browser : Idle(d)
ProfileCopiesMeet ==
  \A n, o \in Host : Found(profile[n]) /\ Found(profile[o]) => profile[n].seq = profile[o].seq

\* forge-profile.ts:260: "picks the richest state so a stub Put on a new
\* avatar-limit WASM cannot hide the real profile".  The stub is what sign-in
\* and account healing Put when they take the profile for missing.
StubCannotHideProfile ==
  [][\A d \in Browser :
       (Put(d) /\ flow[d].kind = "stub")
       => LET before == {p \in {profile[d], legacy} : Found(p)}
              after  == {p \in {profile'[d], legacy} : Found(p)}
          IN  (\E p \in before : ~Sparse(p)) => ~Sparse(pickBestProfile(after))]_profileVars
=============================================================================
