--------------------------- MODULE ForgeRegistry ---------------------------
(***************************************************************************)
(* contracts/forge-registry: the public listing contract, as the set of    *)
(* copies of its state that Freenet nodes ("replicas") hold.               *)
(*                                                                         *)
(* A replica's state is what its maps hold under ONE prefix.  Its site key *)
(* (repo_owner_vk, which the prefix abbreviates) is fixed; what varies is  *)
(* who can sign with it.  Signatures are taken to be unforgeable: an       *)
(* operation can be submitted exactly when somebody could have signed it,  *)
(* to any replica, at any time, any number of times.                       *)
(*                                                                         *)
(* An operation on its own goes to the prefix it was signed for.  A state  *)
(* to merge need not: merge_states stores a grant or an invite under the   *)
(* key it arrives under, and judges it by the listing of the prefix it was *)
(* signed for.  Rows under this prefix that were signed for another are    *)
(* the strays below; whether the other prefix's listing lets one pass is   *)
(* left open.  Listings and tombstones are re-keyed by merge_states.       *)
(*                                                                         *)
(* A listing, a tombstone and a grant are reduced to the fields the        *)
(* contract compares: identity and seq.  The clients draw seq from         *)
(* Date.now(), so an identity signs one payload per seq of each kind.      *)
(***************************************************************************)
EXTENDS Integers

CONSTANTS
  Replica,        \* nodes that may host a copy of the contract state
  Identity,       \* fingerprints freenet:id:...
  SiteKeyHolder,  \* the identities that can co-sign with the repo's site key
  UpsertSeq,      \* seqs that listings are signed with
  RemoveSeq,      \* seqs that unregister operations are signed with
  GrantSeq,       \* seqs of contributor grants and of pending invites
  StrayTo,        \* whom such a row of another prefix may be about
  StraySeq,       \* and its seqs
  None            \* no listing, no tombstone, no invite

ASSUME IdentityAssumption == SiteKeyHolder \subseteq Identity
ASSUME SeqAssumption ==
  /\ UpsertSeq \subseteq Nat
  /\ RemoveSeq \subseteq Nat
  /\ GrantSeq \subseteq Nat \ {0}

ASSUME StrayAssumption == StrayTo \subseteq Identity /\ StraySeq \subseteq GrantSeq

VARIABLE replica

vars == <<replica>>

Entry  == [id : SiteKeyHolder, seq : UpsertSeq]
Remove == [id : SiteKeyHolder, seq : RemoveSeq]
\* A pending invite carries the signature of the owner who sent it; by = None:
\* the owner of another prefix, for that prefix.
Invite == [by : SiteKeyHolder \cup {None}, seq : GrantSeq]
OwnInvite == [by : SiteKeyHolder, seq : GrantSeq]

ASSUME NoneAssumption == None \notin Entry \cup Remove \cup Invite \cup Identity

\* contributors[c] = 0: c has no row; c \in strays: its row is for another prefix.
State == [hosted       : BOOLEAN,
          repo         : Entry \cup {None},
          removed      : Remove \cup {None},
          contributors : [Identity -> GrantSeq \cup {0}],
          strays       : SUBSET Identity,
          pending      : [Identity -> Invite \cup {None}]]

NoContributors == [c \in Identity |-> 0]
NoPending == [c \in Identity |-> None]

Empty == [hosted |-> TRUE, repo |-> None, removed |-> None,
          contributors |-> NoContributors, strays |-> {}, pending |-> NoPending]

Unhosted == [Empty EXCEPT !.hosted = FALSE]

TypeOK == replica \in [Replica -> State]
-----------------------------------------------------------------------------
(***************************************************************************)
(* The checks the operations share.  (validate_* : the signatures and the  *)
(* field formats are what membership in the sets above stands for.)        *)
(***************************************************************************)
TombstoneBlocks(s, seq) == s.removed # None /\ s.removed.seq >= seq

\* Mutant: the identities of the old and the new listing are not compared.
MayList_AnyOwner(s, e) ==
  ~TombstoneBlocks(s, e.seq) /\ (s.repo # None => e.seq > s.repo.seq)

MayList(s, e) ==
  /\ ~TombstoneBlocks(s, e.seq)
  /\ s.repo # None => s.repo.id = e.id /\ e.seq > s.repo.seq

MayRemove(s, op) ==
  /\ s.removed # None => op.seq > s.removed.seq
  /\ s.repo # None => s.repo.id = op.id /\ op.seq > s.repo.seq

ValidContributorAdd(s, c) == s.repo # None /\ c # s.repo.id

ValidContributorRemove(s, c, by) == s.repo # None /\ by \in {s.repo.id, c}

ValidPendingAdd(s, c, inv) ==
  /\ s.repo # None
  /\ c # s.repo.id
  /\ s.contributors[c] = 0
  /\ inv.by = s.repo.id

\* The owner's cancel needs the site key too, the invitee's decline does not.
ValidPendingRemove(s, c, by) ==
  /\ s.repo # None
  /\ \/ by = s.repo.id /\ by \in SiteKeyHolder
     \/ by = c
-----------------------------------------------------------------------------
(***************************************************************************)
(* merge_states: the incoming removals, listings, grants and invites, in   *)
(* this order, each re-validated against what the earlier ones left.       *)
(***************************************************************************)
\* Mutant: the tombstone survives the listing.
List_KeepTombstone(s, e) == [s EXCEPT !.repo = e]

List(s, e) == [s EXCEPT !.removed = None, !.repo = e]

\* Mutants: the roster survives the listing; the tombstone takes the listing's
\* seq.
Unlist_KeepContributors(s, op) ==
  [s EXCEPT !.removed = op, !.repo = None, !.strays = {}, !.pending = NoPending]
Unlist_ListingSeq(s, op) ==
  [s EXCEPT !.removed = [op EXCEPT !.seq = IF s.repo = None THEN @ ELSE s.repo.seq],
            !.repo = None, !.contributors = NoContributors, !.strays = {},
            !.pending = NoPending]

Unlist(s, op) == [s EXCEPT !.removed = op, !.repo = None,
                           !.contributors = NoContributors, !.strays = {},
                           !.pending = NoPending]

MergeRemoved(s, op) ==
  LET newer      == s.removed = None \/ op.seq > s.removed.seq
      supersedes == s.repo # None /\ s.repo.id = op.id /\ op.seq > s.repo.seq
  IN  IF op = None \/ ~newer THEN s
      ELSE IF supersedes THEN Unlist(s, op)
      ELSE IF s.repo # None /\ s.removed = None THEN s
      ELSE [s EXCEPT !.removed = op]

\* Mutant: a merged listing is not held against the tombstone.
MergeRepo_NoTombstone(s, e) ==
  IF e # None /\ (s.repo # None => s.repo.id = e.id /\ e.seq > s.repo.seq) THEN List(s, e) ELSE s

MergeRepo(s, e) == IF e # None /\ MayList(s, e) THEN List(s, e) ELSE s

\* Does in's row for c pass validate_contributor_add, validate_pending_invite_add?
\* The strays that do not were dropped from in (Passing).
Granted(s, in, c) ==
  /\ in.contributors[c] # 0
  /\ c \in in.strays \/ ValidContributorAdd(s, c)

Invited(s, in, c) ==
  /\ in.pending[c] # None
  /\ in.pending[c].by = None \/ ValidPendingAdd(s, c, in.pending[c])

TakeGrants(s, in, taken) ==
  [s EXCEPT !.contributors = [c \in Identity |-> IF c \in taken THEN in.contributors[c] ELSE @[c]],
            !.strays = (@ \ taken) \cup (taken \cap in.strays)]

NewerGrants(s, in) ==
  {c \in Identity : Granted(s, in, c) /\ in.contributors[c] > s.contributors[c]}

\* Mutants: a merged grant leaves the invite; a merged grant never replaces
\* an older one.
MergeContributors_KeepPending(s, in) == TakeGrants(s, in, NewerGrants(s, in))
MergeContributors_FirstWins(s, in) ==
  [TakeGrants(s, in, {c \in Identity : Granted(s, in, c) /\ s.contributors[c] = 0}) EXCEPT
    !.pending = [c \in Identity |-> IF Granted(s, in, c) THEN None ELSE @[c]]]

\* A grant that is not newer still clears the invite of its contributor.
MergeContributors(s, in) ==
  [TakeGrants(s, in, NewerGrants(s, in)) EXCEPT
    !.pending = [c \in Identity |-> IF Granted(s, in, c) THEN None ELSE @[c]]]

MergePending(s, in) ==
  [s EXCEPT !.pending = [c \in Identity |->
      IF /\ Invited(s, in, c)
         /\ s.pending[c] # None => in.pending[c].seq > s.pending[c].seq
        THEN in.pending[c] ELSE s.pending[c]]]

\* Mutant: the grants are merged before the listing they belong to.
Merge_GrantsFirst(s, in) ==
  LET s1 == MergeRemoved(s, in.removed)
      s2 == MergeContributors(s1, in)
      s3 == MergeRepo(s2, in.repo)
  IN  MergePending(s3, in)

Merge(s, in) ==
  LET s1 == MergeRemoved(s, in.removed)
      s2 == MergeRepo(s1, in.repo)
      s3 == MergeContributors(s2, in)
  IN  MergePending(s3, in)

StrayInvites(s) == {c \in Identity : s.pending[c] # None /\ s.pending[c].by = None}

Without(in, grants, invites) ==
  [in EXCEPT !.contributors = [c \in Identity |-> IF c \in grants THEN 0 ELSE @[c]],
             !.strays = @ \ grants,
             !.pending = [c \in Identity |-> IF c \in invites THEN None ELSE @[c]]]

\* What is left of a state when the other prefixes' listings refuse some strays.
Passing(in) ==
  {Without(in, grants, invites) :
     grants \in SUBSET in.strays, invites \in SUBSET StrayInvites(in)}

\* The rows that were signed for this prefix.
OwnRows(s) == Without(s, s.strays, StrayInvites(s))
-----------------------------------------------------------------------------
(***************************************************************************)
(* The state the first Put brings to a node that hosts nothing is stored   *)
(* when validate_state accepts it: that function checks grants and invites *)
(* against the listing only when the listing is there.                     *)
(***************************************************************************)
ValidState(s) ==
  s.repo # None =>
    \A c \in Identity :
      /\ s.contributors[c] # 0 => c \in s.strays \/ ValidContributorAdd(s, c)
      /\ s.pending[c] # None =>
           s.pending[c].by = None \/ ValidPendingAdd(s, c, s.pending[c])

\* The partial states that are Put: one per kind of write of the SPA, and a row
\* of another prefix under the key of this one.
StrayGrant(c, q) == [Empty EXCEPT !.contributors[c] = q, !.strays = {c}]
StrayInvite(c, q) == [Empty EXCEPT !.pending[c] = [by |-> None, seq |-> q]]

Partial ==
       {[Empty EXCEPT !.repo = e] : e \in Entry}
  \cup {[Empty EXCEPT !.removed = op] : op \in Remove}
  \cup {[Empty EXCEPT !.contributors[c] = q] : c \in Identity, q \in GrantSeq}
  \cup {[Empty EXCEPT !.pending[c] = inv] : c \in Identity, inv \in OwnInvite}
  \cup {StrayGrant(c, q) : c \in StrayTo, q \in StraySeq}
  \cup {StrayInvite(c, q) : c \in StrayTo, q \in StraySeq}
  \cup {Empty}

\* What of a state that is sent counts at a copy: a copy that merges it judges
\* every row, the first Put is stored whole.
Arriving(s, sent) == IF s.hosted THEN Passing(sent) ELSE {sent}

Receive(s, in) ==
  IF s.hosted THEN Merge(s, in)
  ELSE IF ValidState(in) THEN in ELSE s
-----------------------------------------------------------------------------
Set(r, s) == replica' = [replica EXCEPT ![r] = s]

\* { "upsert": entry }
Upsert(r, e) ==
  /\ replica[r].hosted
  /\ MayList(replica[r], e)
  /\ Set(r, List(replica[r], e))

\* { "remove": op }.  A tombstone is kept even when nothing was listed.
Unregister(r, op) ==
  /\ replica[r].hosted
  /\ MayRemove(replica[r], op)
  /\ Set(r, Unlist(replica[r], op))

\* { "add_contributor": grant }
AddContributor(r, c, q) ==
  /\ replica[r].hosted
  /\ ValidContributorAdd(replica[r], c)
  /\ LET s == replica[r]
         newer == {c} \cap {d \in Identity : q > s.contributors[d]}
     IN  Set(r, [TakeGrants(s, [Empty EXCEPT !.contributors[c] = q], newer) EXCEPT
                   !.pending[c] = None])

\* { "remove_contributor": grant }: the row goes and leaves nothing behind;
\* the operation's seq is not compared with the row's.
RemoveContributor(r, c, by) ==
  /\ replica[r].hosted
  /\ ValidContributorRemove(replica[r], c, by)
  /\ Set(r, [replica[r] EXCEPT !.contributors[c] = 0, !.strays = @ \ {c}])

\* { "add_pending_invite": invite }
AddPendingInvite(r, c, inv) ==
  /\ replica[r].hosted
  /\ ValidPendingAdd(replica[r], c, inv)
  /\ replica[r].pending[c] # None => inv.seq > replica[r].pending[c].seq
  /\ Set(r, [replica[r] EXCEPT !.pending[c] = inv])

\* { "remove_pending_invite": invite }: cancelled by the owner, declined by
\* the invitee.
RemovePendingInvite(r, c, by) ==
  /\ replica[r].hosted
  /\ ValidPendingRemove(replica[r], c, by)
  /\ Set(r, [replica[r] EXCEPT !.pending[c] = None])

\* A client's Put, the SPA's first choice for all but the two removals.
Put(r, part) == \E in \in Arriving(replica[r], part) : Set(r, Receive(replica[r], in))

\* get_state_delta hands out the whole state, so a peer's copy reaches r as
\* a full state to merge.
Sync(r, p) ==
  /\ replica[p].hosted
  /\ \E in \in Arriving(replica[r], replica[p]) : Set(r, Receive(replica[r], in))

Update(r) ==
  \/ \E e \in Entry : Upsert(r, e)
  \/ \E op \in Remove : Unregister(r, op)
  \/ \E c \in Identity, q \in GrantSeq : AddContributor(r, c, q)
  \/ \E c \in Identity, by \in SiteKeyHolder : RemoveContributor(r, c, by)
  \/ \E c \in Identity, inv \in OwnInvite : AddPendingInvite(r, c, inv)
  \/ \E c \in Identity, by \in Identity : RemovePendingInvite(r, c, by)
  \/ \E part \in Partial : Put(r, part)

Next == \E r \in Replica : Update(r) \/ \E p \in Replica : Sync(r, p)

\* A node hosts nothing yet, or the empty state that ensureForgeRegistryExists Puts.
Init == replica \in [Replica -> {Unhosted, Empty}]

Spec == Init /\ [][Next]_vars

\* The contract as its own update logic builds it: every copy starts empty.
InitHosted == replica = [r \in Replica |-> Empty]

HostedSpec == InitHosted /\ [][Next]_vars
-----------------------------------------------------------------------------
(***************************************************************************)
(* Properties of every copy, however its node came to host it (Spec).      *)
(***************************************************************************)

\* A copy never holds a listing and a tombstone of the prefix together: the
\* "removed" phase of merge_states has a branch for that case, and no order
\* of updates, Puts and merges reaches it.
ListedXorRemoved ==
  \A r \in Replica : replica[r].repo = None \/ replica[r].removed = None

\* Nobody with a contributor row under the prefix, its own or a stray one, is
\* invited by an invite for this prefix: a grant clears the invite, and an invite
\* that arrives after the grant, in a merge or alone, is refused.
InviteeNotContributor ==
  \A r \in Replica, c \in Identity :
    LET s == replica[r]
    IN  s.contributors[c] = 0 \/ s.pending[c] = None \/ c \in StrayInvites(s)

\* What a copy says of the prefix: the seq of its listing or tombstone.
Version(s) ==
  IF s.repo # None THEN s.repo.seq
  ELSE IF s.removed # None THEN s.removed.seq ELSE -1

\* No identity is in both maps.
RowsApart(s) == \A c \in Identity : s.contributors[c] = 0 \/ s.pending[c] = None

\* A Put that a client sends again after a lost answer, or a peer's state that
\* arrives twice, changes nothing the second time, strays included: one pass of
\* merge_states takes all it will ever take, because a later phase opens no door
\* to an earlier one.  (A first Put is stored unjudged, so there the claim is of
\* states that do not grant and invite the same identity.)
RedeliveryChangesNothing ==
  \A r \in Replica :
    \A sent \in Partial \cup {replica[p] : p \in {q \in Replica : replica[q].hosted}} :
      /\ replica[r].hosted => \A in \in Passing(sent) :
           Merge(Merge(replica[r], in), in) = Merge(replica[r], in)
      /\ ~replica[r].hosted /\ ValidState(sent) /\ RowsApart(sent) =>
           \A in \in Passing(sent) : Merge(sent, in) = sent

\* A copy's listing or tombstone is only ever replaced by a newer one, so no
\* late update, Put or peer copy resurrects an unregistered listing or rolls
\* one back.
VersionAdvances ==
  [][\A r \in Replica :
       \/ replica'[r].repo = replica[r].repo /\ replica'[r].removed = replica[r].removed
       \/ Version(replica'[r]) > Version(replica[r])]_vars

\* While a copy lists the prefix nobody takes it over: the owner changes
\* only across an unregister.
OwnerKeepsListing ==
  [][\A r \in Replica :
       replica[r].repo # None /\ replica'[r].repo # None
         => replica'[r].repo.id = replica[r].repo.id]_vars
-----------------------------------------------------------------------------
(***************************************************************************)
(* Properties of copies that all started from the empty state (HostedSpec).*)
(***************************************************************************)

\* The owner of the listing has no contributor row for this prefix, also after
\* the prefix was unregistered and listed again by a former contributor.
OwnerNotContributor ==
  \A r \in Replica :
    LET s == replica[r]
    IN  s.repo # None => s.contributors[s.repo.id] = 0 \/ s.repo.id \in s.strays

\* Grants and invites for this prefix live and die with the listing they belong
\* to; without a listing only strays are left.
RosterNeedsListing ==
  \A r \in Replica, c \in Identity :
    LET s == replica[r]
    IN  s.repo = None => /\ s.contributors[c] = 0 \/ c \in s.strays
                         /\ s.pending[c] = None \/ c \in StrayInvites(s)

\* Every invite for this prefix that a copy shows was signed by the owner it
\* shows, and invites somebody else.
InvitesByOwner ==
  \A r \in Replica, c \in Identity :
    LET s == replica[r]
    IN  s.pending[c] # None => \/ c \in StrayInvites(s)
                               \/ /\ s.repo # None
                                  /\ s.pending[c].by = s.repo.id
                                  /\ c # s.repo.id

\* Two copies that have exchanged the rows signed for this prefix: a merge of
\* them in either direction leaves a copy as it is.
Synced(r, p) ==
  /\ replica[r].hosted /\ Merge(replica[r], OwnRows(replica[p])) = replica[r]
  /\ replica[p].hosted /\ Merge(replica[p], OwnRows(replica[r])) = replica[p]

Owners(s) == {x.id : x \in {s.repo, s.removed} \ {None}}

\* No listing of one copy and tombstone of the other have the same seq.
SeqsApart(s, t) == s.repo = None \/ t.removed = None \/ s.repo.seq # t.removed.seq

\* Neither copy holds a stray row for c.
AtHome(s, t, c) == c \notin s.strays \cup t.strays \cup StrayInvites(s) \cup StrayInvites(t)

\* Copies with nothing left to tell each other agree on the prefix, and on every
\* identity neither has a stray row for, if one identity signed what both say of
\* the prefix, and no listing has the seq of an unregister: a merge loses nothing
\* it would need.
SyncedReplicasAgree ==
  \A r \in Replica : \A p \in Replica \ {r} :
    LET s == replica[r]
        t == replica[p]
        oneOwner == \E id \in SiteKeyHolder : Owners(s) \cup Owners(t) \subseteq {id}
    IN  SeqsApart(s, t) /\ SeqsApart(t, s) /\ oneOwner /\ Synced(r, p) =>
          /\ s.repo = t.repo /\ s.removed = t.removed
          /\ \A c \in Identity : AtHome(s, t, c) =>
               s.contributors[c] = t.contributors[c] /\ s.pending[c] = t.pending[c]

\* Of copies that all started empty, whatever updates, Puts and merges bring:
\* the grants and invites signed for the prefix belong to its listing, and its
\* owner has none (forge-registry, the purge of an unregister and the checks of
\* merge_states).
HostedRosters == InitHosted => [](OwnerNotContributor /\ RosterNeedsListing /\ InvitesByOwner)

\* Copies that all started empty and exchanged everything agree (merge_states).
HostedCopiesAgree == InitHosted => []SyncedReplicasAgree
=============================================================================
