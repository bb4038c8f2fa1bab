------------------------ MODULE ForgeRegistryProofs ------------------------
(***************************************************************************)
(* Proofs about ForgeRegistry for every set of replicas, identities, site  *)
(* key holders and seqs.  The invariant is one of the single copy (Good):  *)
(* each phase of merge_states preserves it, hence a merge does, and a step *)
(* changes one copy.                                                       *)
(***************************************************************************)
EXTENDS ForgeRegistry, TLAPS

Xor(s) == s.repo = None \/ s.removed = None
Stray(i) == i # None /\ i.by = None
Disjoint(s) ==
  \A c \in Identity : s.contributors[c] = 0 \/ s.pending[c] = None \/ Stray(s.pending[c])
Blank(s) == s.hosted \/ (s.repo = None /\ s.removed = None)

Good(s) == s \in State /\ Xor(s) /\ Disjoint(s) /\ Blank(s)

\* From s to t the listing or tombstone stays, or is replaced by a newer one.
Advances(s, t) ==
  \/ t.repo = s.repo /\ t.removed = s.removed
  \/ Version(t) > Version(s)

KeepsOwner(s, t) == s.repo # None /\ t.repo # None => t.repo.id = s.repo.id

Inv == TypeOK /\ \A r \in Replica : Good(replica[r])

USE SeqAssumption, StrayAssumption, IdentityAssumption, NoneAssumption

LEMMA StrayOrOwn ==
  ASSUME NEW i \in Invite
  PROVE  i # None /\ (Stray(i) <=> i.by = None) /\ (~Stray(i) => i \in OwnInvite)
  BY DEF Invite, OwnInvite, Stray

LEMMA VersionType ==
  ASSUME NEW s, Good(s)
  PROVE  /\ Version(s) \in Int
         /\ Version(s) >= -1
         /\ s.repo # None \/ s.removed # None => Version(s) >= 0
<1>1. s.repo # None => s.repo.seq \in Nat
  BY DEF Good, State, Entry
<1>2. s.removed # None => s.removed.seq \in Nat
  BY DEF Good, State, Remove
<1> QED
  BY <1>1, <1>2 DEF Version

LEMMA EmptyGood == Good(Empty) /\ Good(Unhosted)
  BY DEF Good, State, Xor, Disjoint, Blank, Empty, Unhosted, NoContributors, NoPending

LEMMA UnlistGood ==
  ASSUME NEW s, Good(s), s.hosted, NEW op \in Remove
  PROVE  Good(Unlist(s, op)) /\ Unlist(s, op).hosted
  BY DEF Good, State, Xor, Disjoint, Blank, Unlist, NoContributors, NoPending

LEMMA ListGood ==
  ASSUME NEW s, Good(s), s.hosted, NEW e \in Entry
  PROVE  Good(List(s, e)) /\ List(s, e).hosted
  BY DEF Good, State, Xor, Disjoint, Blank, List

LEMMA MergeRemovedGood ==
  ASSUME NEW s, Good(s), s.hosted, NEW op \in Remove \cup {None}
  PROVE  /\ Good(MergeRemoved(s, op)) /\ MergeRemoved(s, op).hosted
         /\ Advances(s, MergeRemoved(s, op))
         /\ KeepsOwner(s, MergeRemoved(s, op))
<1>1. CASE MergeRemoved(s, op) = s
  BY <1>1 DEF Advances, KeepsOwner
<1>2. CASE op # None /\ MergeRemoved(s, op) = Unlist(s, op)
                     /\ s.repo # None /\ op.seq > s.repo.seq
  <2>1. Good(Unlist(s, op)) /\ Unlist(s, op).hosted
    BY <1>2, UnlistGood
  <2>2. Unlist(s, op).repo = None /\ Unlist(s, op).removed = op
    BY DEF Unlist, Good, State
  <2>3. op.seq \in Nat /\ s.repo.seq \in Nat
    BY <1>2 DEF Good, State, Entry, Remove
  <2>4. Version(Unlist(s, op)) > Version(s)
    BY <1>2, <2>2, <2>3 DEF Version
  <2> QED
    BY <1>2, <2>1, <2>2, <2>4 DEF Advances, KeepsOwner
<1>3. CASE /\ op # None /\ MergeRemoved(s, op) = [s EXCEPT !.removed = op]
           /\ s.repo = None
           /\ s.removed = None \/ op.seq > s.removed.seq
  BY <1>3 DEF Good, State, Xor, Disjoint, Blank, Advances, KeepsOwner, Version, Remove
<1> QED
  BY <1>1, <1>2, <1>3 DEF MergeRemoved, Good, Xor

LEMMA MergeRepoGood ==
  ASSUME NEW s, Good(s), s.hosted, NEW e \in Entry \cup {None}
  PROVE  /\ Good(MergeRepo(s, e)) /\ MergeRepo(s, e).hosted
         /\ Advances(s, MergeRepo(s, e))
         /\ KeepsOwner(s, MergeRepo(s, e))
<1>1. CASE MergeRepo(s, e) = s
  BY <1>1 DEF Advances, KeepsOwner
<1>2. CASE e \in Entry /\ MayList(s, e) /\ MergeRepo(s, e) = List(s, e)
  <2>1. Good(List(s, e)) /\ List(s, e).hosted
    BY <1>2, ListGood
  <2>2. List(s, e).repo = e /\ List(s, e).removed = None
    BY DEF List, Good, State
  <2>3. /\ e # None
        /\ e.seq \in Nat
        /\ s.repo # None => s.repo.seq \in Nat
        /\ s.removed # None => s.removed.seq \in Nat
    BY <1>2 DEF Good, State, Entry, Remove
  <2>4. Version(List(s, e)) > Version(s)
    BY <1>2, <2>2, <2>3 DEF Version, MayList, TombstoneBlocks
  <2>5. KeepsOwner(s, List(s, e))
    BY <1>2, <2>2 DEF KeepsOwner, MayList
  <2> QED
    BY <1>2, <2>1, <2>4, <2>5 DEF Advances
<1> QED
  BY <1>1, <1>2 DEF MergeRepo

\* What the third phase leaves: the newer grants, and no invite that a grant clears.
LEMMA MergedGrants ==
  ASSUME NEW s \in State, NEW in \in State
  PROVE  LET t == MergeContributors(s, in)
             n == NewerGrants(s, in)
         IN  /\ t.hosted = s.hosted /\ t.repo = s.repo /\ t.removed = s.removed
             /\ t.strays = (s.strays \ n) \cup (n \cap in.strays)
             /\ \A c \in Identity :
                  /\ t.contributors[c] = IF c \in n THEN in.contributors[c] ELSE s.contributors[c]
                  /\ t.pending[c] = IF Granted(s, in, c) THEN None ELSE s.pending[c]
             /\ t \in State
<1> DEFINE n == NewerGrants(s, in)
           g == [c \in Identity |-> IF c \in n THEN in.contributors[c] ELSE s.contributors[c]]
           y == (s.strays \ n) \cup (n \cap in.strays)
           i == [c \in Identity |-> IF Granted(s, in, c) THEN None ELSE s.pending[c]]
           u == TakeGrants(s, in, n)
           t == MergeContributors(s, in)
<1>0. /\ in.contributors \in [Identity -> GrantSeq \cup {0}]
      /\ s.contributors \in [Identity -> GrantSeq \cup {0}]
      /\ in.strays \subseteq Identity /\ s.strays \subseteq Identity
      /\ s.pending \in [Identity -> Invite \cup {None}]
  BY DEF State
<1>1. u = [s EXCEPT !.contributors = g, !.strays = y]
  BY DEF TakeGrants, State
<1>2. t = [s EXCEPT !.contributors = g, !.strays = y, !.pending = i]
  BY <1>1 DEF MergeContributors, State
<1>3. /\ g \in [Identity -> GrantSeq \cup {0}]
      /\ y \in SUBSET Identity
      /\ i \in [Identity -> Invite \cup {None}]
  BY <1>0
<1> HIDE DEF g, y, i, n, t
<1>4. /\ t.hosted = s.hosted /\ t.repo = s.repo /\ t.removed = s.removed
      /\ t.contributors = g /\ t.strays = y /\ t.pending = i /\ t \in State
  BY <1>2, <1>3 DEF State
<1> QED
  BY <1>4 DEF g, y, i, n, t

\* What the fourth phase leaves.
LEMMA MergedInvites ==
  ASSUME NEW s \in State, NEW in \in State
  PROVE  LET t == MergePending(s, in)
         IN  /\ t.hosted = s.hosted /\ t.repo = s.repo /\ t.removed = s.removed
             /\ t.contributors = s.contributors /\ t.strays = s.strays
             /\ \A c \in Identity : t.pending[c] =
                  IF /\ Invited(s, in, c)
                     /\ s.pending[c] # None => in.pending[c].seq > s.pending[c].seq
                    THEN in.pending[c] ELSE s.pending[c]
             /\ t \in State
  BY DEF MergePending, State

LEMMA MergeContributorsGood ==
  ASSUME NEW s, Good(s), s.hosted, NEW in \in State
  PROVE  LET t == MergeContributors(s, in)
         IN  Good(t) /\ t.hosted /\ t.repo = s.repo /\ t.removed = s.removed
<1> DEFINE t == MergeContributors(s, in)
<1>1. /\ t.hosted = s.hosted /\ t.repo = s.repo /\ t.removed = s.removed /\ t \in State
      /\ \A c \in Identity :
           /\ t.contributors[c] = IF c \in NewerGrants(s, in) THEN in.contributors[c]
                                                              ELSE s.contributors[c]
           /\ t.pending[c] = IF Granted(s, in, c) THEN None ELSE s.pending[c]
  BY MergedGrants DEF Good
<1>2. Disjoint(t)
  BY <1>1 DEF Good, Disjoint, NewerGrants
<1> HIDE DEF t
<1> QED
  BY <1>1, <1>2 DEF Good, Xor, Blank, t

LEMMA MergePendingGood ==
  ASSUME NEW s, Good(s), s.hosted, NEW in \in State
  PROVE  LET t == MergePending(s, in)
         IN  Good(t) /\ t.hosted /\ t.repo = s.repo /\ t.removed = s.removed
<1> DEFINE t == MergePending(s, in)
<1>1. /\ t.hosted = s.hosted /\ t.repo = s.repo /\ t.removed = s.removed /\ t \in State
      /\ t.contributors = s.contributors
      /\ \A c \in Identity : t.pending[c] =
           IF /\ Invited(s, in, c)
              /\ s.pending[c] # None => in.pending[c].seq > s.pending[c].seq
             THEN in.pending[c] ELSE s.pending[c]
  BY MergedInvites DEF Good
<1>2. Disjoint(t)
  BY <1>1 DEF Good, Disjoint, Invited, ValidPendingAdd, Stray
<1> HIDE DEF t
<1> QED
  BY <1>1, <1>2 DEF Good, Xor, Blank, t

\* Neither phase that follows the listing touches it, so Advances and
\* KeepsOwner have to be carried over the first two phases only.
LEMMA MergeGood ==
  ASSUME NEW s, Good(s), s.hosted, NEW in \in State, Xor(in)
  PROVE  /\ Good(Merge(s, in)) /\ Merge(s, in).hosted
         /\ Advances(s, Merge(s, in))
         /\ KeepsOwner(s, Merge(s, in))
<1> DEFINE s1 == MergeRemoved(s, in.removed)
           s2 == MergeRepo(s1, in.repo)
           s3 == MergeContributors(s2, in)
           s4 == MergePending(s3, in)
<1>0. /\ in.removed \in Remove \cup {None}
      /\ in.repo \in Entry \cup {None}
  BY DEF State
<1>1. Good(s1) /\ s1.hosted /\ Advances(s, s1) /\ KeepsOwner(s, s1)
  BY <1>0, MergeRemovedGood
<1>2. Good(s2) /\ s2.hosted /\ Advances(s1, s2) /\ KeepsOwner(s1, s2)
  BY <1>0, <1>1, MergeRepoGood
<1> HIDE DEF s1, s2
<1>3. Good(s3) /\ s3.hosted /\ s3.repo = s2.repo /\ s3.removed = s2.removed
  BY <1>2, MergeContributorsGood
<1> HIDE DEF s3
<1>4. Good(s4) /\ s4.hosted /\ s4.repo = s3.repo /\ s4.removed = s3.removed
  BY <1>3, MergePendingGood
<1> HIDE DEF s4
<1>5. Advances(s, s2)
  <2>1. Version(s) \in Int /\ Version(s1) \in Int /\ Version(s2) \in Int
    BY <1>1, <1>2, VersionType
  <2>2. /\ s1.repo = s.repo /\ s1.removed = s.removed => Version(s1) = Version(s)
        /\ s2.repo = s1.repo /\ s2.removed = s1.removed => Version(s2) = Version(s1)
    BY DEF Version
  <2> QED
    BY <2>1, <2>2, <1>1, <1>2 DEF Advances
<1>6. KeepsOwner(s, s2)
  <2>1. CASE in.repo = None
    BY <2>1, <1>1 DEF s2, MergeRepo
  <2>2. CASE in.removed = None
    BY <2>2, <1>2 DEF s1, MergeRemoved
  <2> QED
    BY <2>1, <2>2 DEF Xor
<1>7. Advances(s, s4) /\ KeepsOwner(s, s4)
  BY <1>3, <1>4, <1>5, <1>6 DEF Advances, KeepsOwner, Version
<1>8. Merge(s, in) = s4
  BY DEF Merge, s1, s2, s3, s4
<1> QED
  BY <1>4, <1>7, <1>8

LEMMA PartialGood ==
  ASSUME NEW part \in Partial
  PROVE  Good(part)
<1>1. CASE \E e \in Entry : part = [Empty EXCEPT !.repo = e]
  BY <1>1, EmptyGood DEF Good, State, Xor, Disjoint, Blank, Empty
<1>2. CASE \E op \in Remove : part = [Empty EXCEPT !.removed = op]
  BY <1>2, EmptyGood DEF Good, State, Xor, Disjoint, Blank, Empty
<1>3. CASE \E c \in Identity, q \in GrantSeq : part = [Empty EXCEPT !.contributors[c] = q]
  <2>1. PICK c \in Identity, q \in GrantSeq : part = [Empty EXCEPT !.contributors[c] = q]
    BY <1>3
  <2>2. [NoContributors EXCEPT ![c] = q] \in [Identity -> GrantSeq \cup {0}]
    BY DEF NoContributors
  <2> QED
    BY <2>1, <2>2 DEF Good, State, Xor, Disjoint, Blank, Empty, NoPending
<1>4. CASE \E c \in Identity, i \in Invite : part = [Empty EXCEPT !.pending[c] = i]
  <2>1. PICK c \in Identity, i \in Invite : part = [Empty EXCEPT !.pending[c] = i]
    BY <1>4
  <2>2. [NoPending EXCEPT ![c] = i] \in [Identity -> Invite \cup {None}]
    BY DEF NoPending
  <2> QED
    BY <2>1, <2>2 DEF Good, State, Xor, Disjoint, Blank, Empty, NoContributors
<1>5. CASE part = Empty
  BY <1>5, EmptyGood
<1>6. CASE \E c \in StrayTo, q \in StraySeq : part = StrayGrant(c, q)
  <2>1. PICK c \in StrayTo, q \in StraySeq : part = StrayGrant(c, q)
    BY <1>6
  <2>2. c \in Identity /\ [NoContributors EXCEPT ![c] = q] \in [Identity -> GrantSeq \cup {0}]
    BY DEF NoContributors
  <2> QED
    BY <2>1, <2>2 DEF StrayGrant, Good, State, Xor, Disjoint, Blank, Empty, NoPending
<1>7. \A c \in StrayTo, q \in StraySeq : c \in Identity /\ [by |-> None, seq |-> q] \in Invite
  BY DEF Invite
<1>8. OwnInvite \subseteq Invite
  BY DEF OwnInvite, Invite
<1>9. CASE \E c \in StrayTo, q \in StraySeq : part = StrayInvite(c, q)
  <2>1. PICK c \in StrayTo, q \in StraySeq : part = StrayInvite(c, q)
    BY <1>9
  <2> QED
    BY <1>4, <1>7, <2>1 DEF StrayInvite
<1>10. CASE \E c \in Identity, inv \in OwnInvite : part = [Empty EXCEPT !.pending[c] = inv]
  <2>1. PICK c \in Identity, inv \in OwnInvite : part = [Empty EXCEPT !.pending[c] = inv]
    BY <1>10
  <2> QED
    BY <1>4, <1>8, <2>1
<1> QED
  BY <1>1, <1>2, <1>3, <1>5, <1>6, <1>9, <1>10 DEF Partial

\* A state keeps its form when some strays are taken out.
WithoutIs(in, no, nor, t) ==
  /\ t.hosted = in.hosted /\ t.repo = in.repo /\ t.removed = in.removed
  /\ t.strays = in.strays \ no
  /\ \A c \in Identity :
       /\ t.contributors[c] = IF c \in no THEN 0 ELSE in.contributors[c]
       /\ t.pending[c] = IF c \in nor THEN None ELSE in.pending[c]
  /\ t \in State

LEMMA WithoutFields ==
  ASSUME NEW in \in State, NEW no \in SUBSET in.strays, NEW nor \in SUBSET Identity
  PROVE  WithoutIs(in, no, nor, Without(in, no, nor))
  BY DEF Without, WithoutIs, State

LEMMA PassingGood ==
  ASSUME NEW s, Good(s), NEW in \in Passing(s)
  PROVE  Good(in) /\ in.hosted = s.hosted
<1>1. PICK no \in SUBSET s.strays, nor \in SUBSET StrayInvites(s) : in = Without(s, no, nor)
  BY DEF Passing
<1>a. s \in State /\ nor \in SUBSET Identity
  BY DEF Good, StrayInvites
<1>b. WithoutIs(s, no, nor, in)
  BY <1>1, <1>a, WithoutFields
<1>2. /\ in.hosted = s.hosted /\ in.repo = s.repo /\ in.removed = s.removed /\ in \in State
      /\ \A c \in Identity :
           /\ in.contributors[c] = IF c \in no THEN 0 ELSE s.contributors[c]
           /\ in.pending[c] = IF c \in nor THEN None ELSE s.pending[c]
  BY <1>b DEF WithoutIs
<1> QED
  BY <1>2 DEF Good, Xor, Disjoint, Blank

LEMMA ArrivingGood ==
  ASSUME NEW s, NEW sent, Good(sent), NEW in \in Arriving(s, sent)
  PROVE  Good(in) /\ in.hosted = sent.hosted
  BY PassingGood DEF Arriving

LEMMA ReceiveGood ==
  ASSUME NEW s, Good(s), NEW in, Good(in)
  PROVE  /\ Good(Receive(s, in))
         /\ Advances(s, Receive(s, in))
         /\ KeepsOwner(s, Receive(s, in))
<1>1. CASE s.hosted
  BY <1>1, MergeGood DEF Receive, Good
<1>2. CASE ~s.hosted /\ Receive(s, in) = in
  <2>1. s.repo = None /\ s.removed = None
    BY <1>2 DEF Good, Blank
  <2>2. Advances(s, in)
    <3>1. Version(s) = -1
      BY <2>1 DEF Version
    <3> QED
      BY <2>1, <3>1, VersionType DEF Advances
  <2> QED
    BY <1>2, <2>1, <2>2 DEF KeepsOwner
<1>3. CASE ~s.hosted /\ Receive(s, in) = s
  BY <1>3 DEF Advances, KeepsOwner
<1> QED
  BY <1>1, <1>2, <1>3 DEF Receive
-----------------------------------------------------------------------------
\* Every step sets one copy r to a good state t that its old state may become.
Stepped(r, t) ==
  /\ replica' = [replica EXCEPT ![r] = t]
  /\ Good(t)
  /\ Advances(replica[r], t)
  /\ KeepsOwner(replica[r], t)

\* The copy after an add_contributor.
Added(s, c, q) ==
  [TakeGrants(s, [Empty EXCEPT !.contributors[c] = q], {c} \cap {d \in Identity : q > s.contributors[d]})
     EXCEPT !.pending[c] = None]

AddedIs(s, c, q, t) ==
  /\ t.hosted = s.hosted /\ t.repo = s.repo /\ t.removed = s.removed
  /\ t.strays = IF q > s.contributors[c] THEN s.strays \ {c} ELSE s.strays
  /\ \A d \in Identity :
       /\ t.contributors[d] = IF d = c /\ q > s.contributors[c] THEN q ELSE s.contributors[d]
       /\ t.pending[d] = IF d = c THEN None ELSE s.pending[d]
  /\ t \in State

LEMMA AddedFields ==
  ASSUME NEW s \in State, NEW c \in Identity, NEW q \in GrantSeq
  PROVE  AddedIs(s, c, q, Added(s, c, q))
<1> DEFINE in == [Empty EXCEPT !.contributors[c] = q]
           n == {c} \cap {d \in Identity : q > s.contributors[d]}
           g == [d \in Identity |-> IF d \in n THEN in.contributors[d] ELSE s.contributors[d]]
           h == [s.contributors EXCEPT ![c] = IF q > @ THEN q ELSE @]
           y == (s.strays \ n) \cup (n \cap in.strays)
           i == [s.pending EXCEPT ![c] = None]
           t == Added(s, c, q)
<1>0. /\ s.contributors \in [Identity -> GrantSeq \cup {0}] /\ s.strays \subseteq Identity
      /\ s.pending \in [Identity -> Invite \cup {None}]
  BY DEF State
<1>1. in.contributors[c] = q /\ in.strays = {}
  BY DEF Empty, NoContributors
<1>2. TakeGrants(s, in, n) = [s EXCEPT !.contributors = g, !.strays = y]
  BY DEF TakeGrants, State
<1>3. n = IF q > s.contributors[c] THEN {c} ELSE {}
  OBVIOUS
<1> HIDE DEF in, n
<1>4. g = h
  BY <1>0, <1>1, <1>3
<1>5. y = IF q > s.contributors[c] THEN s.strays \ {c} ELSE s.strays
  BY <1>1, <1>3
<1>6. h \in [Identity -> GrantSeq \cup {0}] /\ i \in [Identity -> Invite \cup {None}]
      /\ y \in SUBSET Identity
  BY <1>0, <1>5
<1>7. t = [s EXCEPT !.contributors = h, !.strays = y, !.pending = i]
  BY <1>2, <1>4 DEF Added, State, in, n
<1> HIDE DEF g, h, y, i, t
<1>8. /\ t.hosted = s.hosted /\ t.repo = s.repo /\ t.removed = s.removed
      /\ t.contributors = h /\ t.strays = y /\ t.pending = i /\ t \in State
  BY <1>6, <1>7 DEF State
<1>9. \A d \in Identity :
        /\ h[d] = IF d = c /\ q > s.contributors[c] THEN q ELSE s.contributors[d]
        /\ i[d] = IF d = c THEN None ELSE s.pending[d]
  BY <1>0 DEF h, i
<1> QED
  BY <1>5, <1>8, <1>9 DEF t, AddedIs

LEMMA AddedGood ==
  ASSUME NEW s, Good(s), NEW c \in Identity, NEW q \in GrantSeq
  PROVE  LET t == Added(s, c, q)
         IN  Good(t) /\ t.hosted = s.hosted /\ t.repo = s.repo /\ t.removed = s.removed
<1> DEFINE t == Added(s, c, q)
<1>1. /\ t.hosted = s.hosted /\ t.repo = s.repo /\ t.removed = s.removed
      /\ \A d \in Identity :
           /\ t.contributors[d] = IF d = c /\ q > s.contributors[c] THEN q ELSE s.contributors[d]
           /\ t.pending[d] = IF d = c THEN None ELSE s.pending[d]
      /\ t \in State
  <2>1. AddedIs(s, c, q, t)
    BY AddedFields DEF Good
  <2> HIDE DEF t
  <2> QED
    BY <2>1 DEF AddedIs
<1> HIDE DEF t
<1>2. Good(t)
  BY <1>1 DEF Good, State, Xor, Disjoint, Blank
<1> QED
  BY <1>1, <1>2 DEF t

LEMMA UpdateSteps ==
  ASSUME Inv, NEW r \in Replica, Update(r)
  PROVE  \E t : Stepped(r, t)
<1> DEFINE s == replica[r]
<1>0. Good(s)
  BY DEF Inv
<1>1. ASSUME NEW e \in Entry, Upsert(r, e)
      PROVE  \E t : Stepped(r, t)
  <2>1. MergeRepo(s, e) = List(s, e)
    BY <1>1 DEF Upsert, MergeRepo
  <2>2. Stepped(r, MergeRepo(s, e))
    BY <1>0, <1>1, <2>1, MergeRepoGood DEF Upsert, Stepped, Set
  <2> QED
    BY <2>2
<1>2. ASSUME NEW op \in Remove, Unregister(r, op)
      PROVE  \E t : Stepped(r, t)
  <2>1. Good(Unlist(s, op))
    BY <1>0, <1>2, UnlistGood DEF Unregister
  <2>2. Unlist(s, op).repo = None /\ Unlist(s, op).removed = op
    BY <1>0 DEF Unlist, Good, State
  <2>3. /\ op # None
        /\ op.seq \in Nat
        /\ s.repo # None => s.repo.seq \in Nat
        /\ s.removed # None => s.removed.seq \in Nat
    BY <1>0 DEF Good, State, Entry, Remove
  <2>4. Version(Unlist(s, op)) > Version(s)
    BY <1>2, <2>2, <2>3 DEF Version, Unregister, MayRemove
  <2> QED
    BY <1>2, <2>1, <2>2, <2>4 DEF Unregister, Stepped, Set, Advances, KeepsOwner
<1>3. ASSUME NEW t, replica' = [replica EXCEPT ![r] = t],
             Good(t), t.repo = s.repo, t.removed = s.removed
      PROVE  \E u : Stepped(r, u)
  BY <1>3 DEF Stepped, Advances, KeepsOwner
<1>4. ASSUME NEW c \in Identity, NEW q \in GrantSeq, AddContributor(r, c, q)
      PROVE  \E t : Stepped(r, t)
  <2>1. PICK t : /\ Good(t) /\ t.repo = s.repo /\ t.removed = s.removed
                 /\ replica' = [replica EXCEPT ![r] = t]
    <3>1. LET t == Added(s, c, q)
          IN  Good(t) /\ t.hosted = s.hosted /\ t.repo = s.repo /\ t.removed = s.removed
      BY <1>0, AddedGood
    <3>2. replica' = [replica EXCEPT ![r] = Added(s, c, q)]
      BY <1>4 DEF AddContributor, Set, Added
    <3> QED
      BY <3>1, <3>2
  <2> QED
    BY <1>3, <2>1
<1>5. ASSUME NEW c \in Identity, NEW by, RemoveContributor(r, c, by)
      PROVE  \E t : Stepped(r, t)
  <2> DEFINE t == [s EXCEPT !.contributors[c] = 0, !.strays = @ \ {c}]
  <2>1. Good(t) /\ t.repo = s.repo /\ t.removed = s.removed
    BY <1>0 DEF Good, State, Xor, Disjoint, Blank
  <2> QED
    BY <1>3, <1>5, <2>1 DEF RemoveContributor, Set
<1>6. ASSUME NEW c \in Identity, NEW inv \in OwnInvite, AddPendingInvite(r, c, inv)
      PROVE  \E t : Stepped(r, t)
  <2> DEFINE t == [s EXCEPT !.pending[c] = inv]
  <2>1. Good(t) /\ t.repo = s.repo /\ t.removed = s.removed
    BY <1>0, <1>6 DEF Good, State, Xor, Disjoint, Blank, AddPendingInvite, ValidPendingAdd,
                      OwnInvite, Invite
  <2> QED
    BY <1>3, <1>6, <2>1 DEF AddPendingInvite, Set
<1>7. ASSUME NEW c \in Identity, NEW by, RemovePendingInvite(r, c, by)
      PROVE  \E t : Stepped(r, t)
  <2> DEFINE t == [s EXCEPT !.pending[c] = None]
  <2>1. Good(t) /\ t.repo = s.repo /\ t.removed = s.removed
    BY <1>0 DEF Good, State, Xor, Disjoint, Blank
  <2> QED
    BY <1>3, <1>7, <2>1 DEF RemovePendingInvite, Set
<1>8. ASSUME NEW part \in Partial, Put(r, part)
      PROVE  \E t : Stepped(r, t)
  BY <1>0, <1>8, PartialGood, ArrivingGood, ReceiveGood DEF Put, Set, Stepped
<1> QED
  BY <1>1, <1>2, <1>4, <1>5, <1>6, <1>7, <1>8 DEF Update

LEMMA NextSteps ==
  ASSUME Inv, Next
  PROVE  \E r \in Replica : \E t : Stepped(r, t)
<1>1. ASSUME NEW r \in Replica, NEW p \in Replica, Sync(r, p)
      PROVE  \E t : Stepped(r, t)
  BY <1>1, ArrivingGood, ReceiveGood DEF Sync, Set, Stepped, Inv
<1> QED
  BY <1>1, UpdateSteps DEF Next

LEMMA InvInductive == Inv /\ [Next]_vars => Inv'
<1> SUFFICES ASSUME Inv, [Next]_vars PROVE Inv'
  OBVIOUS
<1>1. CASE Next
  <2>1. PICK r \in Replica : \E t : Stepped(r, t)
    BY <1>1, NextSteps
  <2> QED
    BY <2>1 DEF Inv, Stepped, TypeOK, Good
<1>2. CASE UNCHANGED vars
  BY <1>2 DEF Inv, TypeOK, vars
<1> QED
  BY <1>1, <1>2

LEMMA InvAlways == Spec => []Inv
<1>1. Init => Inv
  BY EmptyGood DEF Init, Inv, TypeOK, Good
<1> QED
  BY <1>1, InvInductive, PTL DEF Spec
-----------------------------------------------------------------------------
\* TypeOK: every copy is a ForgeRegistryState.
THEOREM TypeCorrect == Spec => []TypeOK
<1>1. Inv => TypeOK
  BY DEF Inv
<1> QED
  BY <1>1, InvAlways, PTL

\* A copy never holds a listing and a tombstone together.
THEOREM ListedXorRemovedAlways == Spec => []ListedXorRemoved
<1>1. Inv => ListedXorRemoved
  BY DEF Inv, Good, Xor, ListedXorRemoved
<1> QED
  BY <1>1, InvAlways, PTL

\* Nobody who has a contributor row under the prefix is invited for it.
THEOREM InviteeNotContributorAlways == Spec => []InviteeNotContributor
<1>1. Inv => InviteeNotContributor
  BY DEF Inv, Good, Disjoint, InviteeNotContributor, Stray, StrayInvites
<1> QED
  BY <1>1, InvAlways, PTL

LEMMA NextAdvances ==
  ASSUME Inv, [Next]_vars, NEW r \in Replica
  PROVE  Advances(replica[r], replica'[r]) /\ KeepsOwner(replica[r], replica'[r])
<1>1. CASE Next
  <2>1. PICK q \in Replica : \E t : Stepped(q, t)
    BY <1>1, NextSteps
  <2>2. CASE q = r
    BY <2>1, <2>2 DEF Stepped, Inv, TypeOK
  <2>3. CASE q # r
    BY <2>1, <2>3 DEF Stepped, Inv, TypeOK, Advances, KeepsOwner
  <2> QED
    BY <2>2, <2>3
<1>2. CASE UNCHANGED vars
  BY <1>2 DEF vars, Advances, KeepsOwner
<1> QED
  BY <1>1, <1>2

\* A listing or tombstone is only ever replaced by a newer one: no late
\* update, Put or peer copy resurrects an unregistered listing.
THEOREM VersionAdvancesAlways == Spec => VersionAdvances
<1>1. Inv /\ [Next]_vars =>
        [\A r \in Replica :
           \/ replica'[r].repo = replica[r].repo /\ replica'[r].removed = replica[r].removed
           \/ Version(replica'[r]) > Version(replica[r])]_vars
  BY NextAdvances DEF Advances
<1> QED
  BY <1>1, InvAlways, PTL DEF Spec, VersionAdvances

\* The owner of a copy's listing changes only across an unregister.
THEOREM OwnerKeepsListingAlways == Spec => OwnerKeepsListing
<1>1. Inv /\ [Next]_vars =>
        [\A r \in Replica :
           replica[r].repo # None /\ replica'[r].repo # None
             => replica'[r].repo.id = replica[r].repo.id]_vars
  BY NextAdvances DEF KeepsOwner
<1> QED
  BY <1>1, InvAlways, PTL DEF Spec, OwnerKeepsListing
-----------------------------------------------------------------------------
(***************************************************************************)
(* The roster of a copy that started from the empty state: its grants and  *)
(* invites, those that are strays apart.  What a merge brings in need not  *)
(* be a good roster: a client Puts a grant or an invite without the        *)
(* listing it is for.                                                      *)
(***************************************************************************)
Roster(s) ==
  \A c \in Identity :
    /\ s.contributors[c] = 0 \/ c \in s.strays \/ ValidContributorAdd(s, c)
    /\ \/ s.pending[c] = None \/ Stray(s.pending[c])
       \/ ValidContributorAdd(s, c) /\ s.pending[c].by = s.repo.id

Sound(s) == Good(s) /\ s.hosted /\ Roster(s)

HostedInv == TypeOK /\ \A r \in Replica : Sound(replica[r])

LEMMA UnlistSound ==
  ASSUME NEW s, Sound(s), NEW op \in Remove
  PROVE  Sound(Unlist(s, op))
<1>1. Roster(Unlist(s, op))
  BY DEF Sound, Good, State, Roster, Unlist, NoContributors, NoPending
<1> QED
  BY <1>1, UnlistGood DEF Sound

\* A new owner finds only strays: nothing was listed.
LEMMA ListSound ==
  ASSUME NEW s, Sound(s), NEW e \in Entry, MayList(s, e)
  PROVE  Sound(List(s, e))
<1>1. /\ List(s, e).contributors = s.contributors /\ List(s, e).strays = s.strays
      /\ List(s, e).pending = s.pending /\ List(s, e).repo = e
  BY DEF List, Sound, Good, State
<1>2. e # None /\ (s.repo # None => s.repo.id = e.id)
  BY DEF MayList
<1>3. Roster(List(s, e))
  BY <1>1, <1>2 DEF Sound, Roster, ValidContributorAdd
<1> QED
  BY <1>3, ListGood DEF Sound

LEMMA MergeRemovedSound ==
  ASSUME NEW s, Sound(s), NEW op \in Remove \cup {None}
  PROVE  Sound(MergeRemoved(s, op))
<1>1. CASE MergeRemoved(s, op) = s
  BY <1>1
<1>2. CASE op \in Remove /\ MergeRemoved(s, op) = Unlist(s, op)
  BY <1>2, UnlistSound
<1>3. CASE op \in Remove /\ MergeRemoved(s, op) = [s EXCEPT !.removed = op]
  <2>1. Good(MergeRemoved(s, op)) /\ MergeRemoved(s, op).hosted
    BY MergeRemovedGood DEF Sound
  <2>2. Roster([s EXCEPT !.removed = op])
    BY DEF Sound, Good, State, Roster, ValidContributorAdd
  <2> QED
    BY <1>3, <2>1, <2>2 DEF Sound
<1> QED
  BY <1>1, <1>2, <1>3 DEF MergeRemoved

LEMMA MergeRepoSound ==
  ASSUME NEW s, Sound(s), NEW e \in Entry \cup {None}
  PROVE  Sound(MergeRepo(s, e))
  BY ListSound DEF MergeRepo

LEMMA MergeContributorsSound ==
  ASSUME NEW s, Sound(s), NEW in \in State
  PROVE  Sound(MergeContributors(s, in))
<1> DEFINE t == MergeContributors(s, in)
<1>1. Good(t) /\ t.hosted /\ t.repo = s.repo
  BY MergeContributorsGood DEF Sound
<1>2. /\ t.strays = (s.strays \ NewerGrants(s, in)) \cup (NewerGrants(s, in) \cap in.strays)
      /\ \A c \in Identity :
           /\ t.contributors[c] = IF c \in NewerGrants(s, in) THEN in.contributors[c]
                                                              ELSE s.contributors[c]
           /\ t.pending[c] = IF Granted(s, in, c) THEN None ELSE s.pending[c]
  BY MergedGrants DEF Sound, Good
<1> HIDE DEF t
<1>3. Roster(t)
  <2> SUFFICES ASSUME NEW c \in Identity
               PROVE  /\ t.contributors[c] = 0 \/ c \in t.strays \/ ValidContributorAdd(t, c)
                      /\ \/ t.pending[c] = None \/ Stray(t.pending[c])
                         \/ ValidContributorAdd(t, c) /\ t.pending[c].by = t.repo.id
    BY DEF Roster
  <2>1. ValidContributorAdd(t, c) <=> ValidContributorAdd(s, c)
    BY <1>1 DEF ValidContributorAdd
  <2>2. c \in NewerGrants(s, in) => c \in in.strays \/ ValidContributorAdd(s, c)
    BY DEF NewerGrants, Granted
  <2>3. t.pending[c] # None => t.pending[c] = s.pending[c]
    BY <1>2
  <2> QED
    BY <1>1, <1>2, <2>1, <2>2, <2>3 DEF Sound, Roster
<1> QED
  BY <1>1, <1>3 DEF Sound, t

LEMMA MergePendingSound ==
  ASSUME NEW s, Sound(s), NEW in \in State
  PROVE  Sound(MergePending(s, in))
<1> DEFINE t == MergePending(s, in)
<1>1. Good(t) /\ t.hosted /\ t.repo = s.repo
  BY MergePendingGood DEF Sound
<1>2. /\ t.contributors = s.contributors /\ t.strays = s.strays
      /\ \A c \in Identity : t.pending[c] =
           IF /\ Invited(s, in, c)
              /\ s.pending[c] # None => in.pending[c].seq > s.pending[c].seq
             THEN in.pending[c] ELSE s.pending[c]
  BY MergedInvites DEF Sound, Good
<1> HIDE DEF t
<1>3. Roster(t)
  BY <1>1, <1>2 DEF Sound, Roster, Invited, ValidPendingAdd, ValidContributorAdd, Stray
<1> QED
  BY <1>1, <1>3 DEF Sound, t

LEMMA MergeSound ==
  ASSUME NEW s, Sound(s), NEW in \in State
  PROVE  Sound(Merge(s, in))
<1>1. /\ in.removed \in Remove \cup {None}
      /\ in.repo \in Entry \cup {None}
  BY DEF State
<1> QED
  BY <1>1, MergeRemovedSound, MergeRepoSound, MergeContributorsSound, MergePendingSound
  DEF Merge

LEMMA HostedUpdateStep ==
  ASSUME HostedInv, NEW r \in Replica, Update(r)
  PROVE  \E t : Sound(t) /\ replica' = [replica EXCEPT ![r] = t]
<1> DEFINE s == replica[r]
           Goal == \E t : Sound(t) /\ replica' = [replica EXCEPT ![r] = t]
<1>0. Sound(s) /\ Good(s) /\ s.hosted /\ s \in State
  BY DEF HostedInv, Sound, Good
<1>1. ASSUME NEW e \in Entry, Upsert(r, e) PROVE Goal
  BY <1>0, <1>1, ListSound DEF Upsert, Set
<1>2. ASSUME NEW op \in Remove, Unregister(r, op) PROVE Goal
  BY <1>0, <1>2, UnlistSound DEF Unregister, Set
<1>3. ASSUME NEW c \in Identity, NEW q \in GrantSeq, AddContributor(r, c, q) PROVE Goal
  <2> DEFINE t == Added(s, c, q)
  <2>1. Good(t) /\ t.hosted /\ t.repo = s.repo
    BY <1>0, AddedGood
  <2>2. /\ t.strays = IF q > s.contributors[c] THEN s.strays \ {c} ELSE s.strays
        /\ \A d \in Identity :
             /\ t.contributors[d] = IF d = c /\ q > s.contributors[c] THEN q ELSE s.contributors[d]
             /\ t.pending[d] = IF d = c THEN None ELSE s.pending[d]
    <3>1. AddedIs(s, c, q, t)
      BY <1>0, AddedFields
    <3> HIDE DEF t
    <3> QED
      BY <3>1 DEF AddedIs
  <2>3. replica' = [replica EXCEPT ![r] = t] /\ ValidContributorAdd(s, c)
    BY <1>3 DEF AddContributor, Set, Added
  <2> HIDE DEF t
  <2>4. Roster(t)
    BY <1>0, <2>1, <2>2, <2>3 DEF ValidContributorAdd, Sound, Roster, State
  <2> QED
    BY <2>1, <2>3, <2>4 DEF Sound
<1>4. ASSUME NEW c \in Identity, NEW by, RemoveContributor(r, c, by) PROVE Goal
  <2> DEFINE t == [s EXCEPT !.contributors[c] = 0, !.strays = @ \ {c}]
  <2>1. Good(t) /\ t.hosted
    BY <1>0 DEF Good, State, Xor, Disjoint, Blank
  <2>2. Roster(t)
    BY <1>0 DEF Sound, Roster, State, ValidContributorAdd
  <2> QED
    BY <1>4, <2>1, <2>2 DEF RemoveContributor, Set, Sound
<1>5. ASSUME NEW c \in Identity, NEW inv \in OwnInvite, AddPendingInvite(r, c, inv) PROVE Goal
  <2> DEFINE t == [s EXCEPT !.pending[c] = inv]
  <2>1. Good(t) /\ t.hosted
    BY <1>0, <1>5 DEF Good, State, Xor, Disjoint, Blank, AddPendingInvite, ValidPendingAdd,
                      OwnInvite, Invite
  <2>2. Roster(t)
    BY <1>0, <1>5 DEF AddPendingInvite, ValidPendingAdd, Sound, Roster, State, ValidContributorAdd
  <2> QED
    BY <1>5, <2>1, <2>2 DEF AddPendingInvite, Set, Sound
<1>6. ASSUME NEW c \in Identity, NEW by, RemovePendingInvite(r, c, by) PROVE Goal
  <2> DEFINE t == [s EXCEPT !.pending[c] = None]
  <2>1. Good(t) /\ t.hosted
    BY <1>0 DEF Good, State, Xor, Disjoint, Blank
  <2>2. Roster(t)
    BY <1>0 DEF Sound, Roster, State, ValidContributorAdd
  <2> QED
    BY <1>6, <2>1, <2>2 DEF RemovePendingInvite, Set, Sound
<1>7. ASSUME NEW part \in Partial, Put(r, part) PROVE Goal
  BY <1>0, <1>7, PartialGood, ArrivingGood, MergeSound DEF Put, Set, Receive, Good
<1> QED
  BY <1>1, <1>2, <1>3, <1>4, <1>5, <1>6, <1>7 DEF Update

LEMMA HostedInvInductive == HostedInv /\ [Next]_vars => HostedInv'
<1> SUFFICES ASSUME HostedInv, [Next]_vars PROVE HostedInv'
  OBVIOUS
<1>1. CASE \E r \in Replica : \E t : Sound(t) /\ replica' = [replica EXCEPT ![r] = t]
  BY <1>1 DEF HostedInv, TypeOK, Sound, Good
<1>2. ASSUME NEW r \in Replica, NEW p \in Replica, Sync(r, p)
      PROVE  \E t : Sound(t) /\ replica' = [replica EXCEPT ![r] = t]
  BY <1>2, ArrivingGood, MergeSound DEF Sync, Set, Receive, HostedInv, Sound, Good
<1>3. CASE UNCHANGED vars
  BY <1>3 DEF HostedInv, TypeOK, vars
<1> QED
  BY <1>1, <1>2, <1>3, HostedUpdateStep DEF Next

LEMMA HostedInvAlways == HostedSpec => []HostedInv
<1>1. Roster(Empty)
  BY DEF Roster, Empty, NoContributors, NoPending
<1>2. Empty.hosted
  BY DEF Empty
<1>3. InitHosted => HostedInv
  BY <1>1, <1>2, EmptyGood DEF InitHosted, HostedInv, TypeOK, Sound, Good
<1> QED
  BY <1>3, HostedInvInductive, PTL DEF HostedSpec

\* The listing's owner never has a contributor row for the prefix in its copy.
THEOREM OwnerNotContributorAlways == HostedSpec => []OwnerNotContributor
<1>1. HostedInv => OwnerNotContributor
  BY DEF HostedInv, Sound, Good, State, Entry, Roster, ValidContributorAdd, Stray, StrayInvites,
         OwnerNotContributor
<1> QED
  BY <1>1, HostedInvAlways, PTL

\* Grants and invites signed for the prefix live and die with its listing.
THEOREM RosterNeedsListingAlways == HostedSpec => []RosterNeedsListing
<1>1. HostedInv => RosterNeedsListing
  BY DEF HostedInv, Sound, Good, State, Entry, Roster, ValidContributorAdd, Stray, StrayInvites,
         RosterNeedsListing
<1> QED
  BY <1>1, HostedInvAlways, PTL

\* Every invite for the prefix was signed by the owner the copy shows.
THEOREM InvitesByOwnerAlways == HostedSpec => []InvitesByOwner
<1>1. HostedInv => InvitesByOwner
  BY DEF HostedInv, Sound, Good, State, Entry, Roster, ValidContributorAdd, Stray, StrayInvites,
         InvitesByOwner
<1> QED
  BY <1>1, HostedInvAlways, PTL

\* What the three say, of every behaviour in which all copies start empty.
THEOREM HostedRostersAlways == Spec => HostedRosters
<1>1. Spec /\ InitHosted => HostedSpec
  BY PTL DEF Spec, HostedSpec
<1> QED
  BY <1>1, OwnerNotContributorAlways, RosterNeedsListingAlways, InvitesByOwnerAlways, PTL DEF HostedRosters
-----------------------------------------------------------------------------
(***************************************************************************)
(* Convergence: a copy that has taken another's state, and hands back what *)
(* it made of it, leaves both with the same state.                         *)
(***************************************************************************)
\* One identity signed what both copies say of the prefix, and no listing of
\* one has the seq of the other's tombstone.
Compatible(s, t) ==
  /\ \E id \in SiteKeyHolder : Owners(s) \cup Owners(t) \subseteq {id}
  /\ SeqsApart(s, t) /\ SeqsApart(t, s)

LEMMA OneOwner ==
  ASSUME NEW s, Sound(s), NEW t, Sound(t), Compatible(s, t)
  PROVE  \A x \in {s.repo, s.removed, t.repo, t.removed} \ {None},
            y \in {s.repo, s.removed, t.repo, t.removed} \ {None} : x.id = y.id
<1>1. PICK id \in SiteKeyHolder : Owners(s) \cup Owners(t) \subseteq {id}
  BY DEF Compatible
<1>2. \A x \in {s.repo, s.removed, t.repo, t.removed} \ {None} : x.id = id
  BY <1>1 DEF Owners
<1> QED
  BY <1>2

\* What the copies say of the prefix, in terms of its seq: the higher wins.
LEMMA SeqTypes ==
  ASSUME NEW s, Sound(s)
  PROVE  /\ s.repo # None => s.repo \in Entry /\ s.repo.seq \in Nat
         /\ s.removed # None => s.removed \in Remove /\ s.removed.seq \in Nat
         /\ s.repo = None \/ s.removed = None
  BY DEF Sound, Good, Xor, State, Entry, Remove

\* The listing and the tombstone u after the first two phases of a merge of t into s:
\* those of the newer copy, and only an unregister touches the rest.
NewerHead(s, t, u) ==
  /\ Version(t) > Version(s) => u.repo = t.repo /\ u.removed = t.removed
  /\ Version(t) <= Version(s) => u = s
  /\ u.repo # None => u.contributors = s.contributors /\ u.pending = s.pending

LEMMA HeadOfMerge ==
  ASSUME NEW s, Sound(s), NEW t, Sound(t), Compatible(s, t)
  PROVE  NewerHead(s, t, MergeRepo(MergeRemoved(s, t.removed), t.repo))
<1> DEFINE v == MergeRemoved(s, t.removed)
           u == MergeRepo(v, t.repo)
<1> SUFFICES NewerHead(s, t, u)
  OBVIOUS
<1>1. /\ s.repo # None => s.repo \in Entry /\ s.repo.seq \in Nat
      /\ s.removed # None => s.removed \in Remove /\ s.removed.seq \in Nat
      /\ s.repo = None \/ s.removed = None
      /\ t.repo # None => t.repo \in Entry /\ t.repo.seq \in Nat
      /\ t.removed # None => t.removed \in Remove /\ t.removed.seq \in Nat
      /\ t.repo = None \/ t.removed = None
  BY SeqTypes
<1>2. s \in State
  BY DEF Sound, Good
<1>3. CASE t.repo = None /\ t.removed = None
  <2>1. v = s /\ u = s
    BY <1>3 DEF MergeRemoved, MergeRepo
  <2>2. Version(t) = -1 /\ Version(s) >= -1 /\ Version(s) \in Int
    BY <1>1, <1>3 DEF Version
  <2> HIDE DEF u
  <2> QED
    BY <2>1, <2>2 DEF NewerHead
<1>4. CASE t.removed # None
  <2>1. t.repo = None /\ u = v /\ Version(t) = t.removed.seq
    BY <1>1, <1>4 DEF MergeRepo, Version
  <2>2. CASE s.repo # None
    <3>1. s.removed = None /\ Version(s) = s.repo.seq /\ s.repo.id = t.removed.id
      BY <1>1, <1>4, <2>2, OneOwner DEF Version
    <3>2. s.repo.seq # t.removed.seq
      BY <1>4, <2>2 DEF Compatible, SeqsApart
    <3>3. CASE t.removed.seq > s.repo.seq
      <4>1. v = Unlist(s, t.removed)
        BY <1>4, <2>2, <3>1, <3>3 DEF MergeRemoved
      <4>2. v.repo = None /\ v.removed = t.removed
        BY <1>2, <4>1 DEF Unlist, State
      <4> HIDE DEF v, u
      <4> QED
        BY <1>1, <1>4, <2>1, <2>2, <3>1, <3>3, <4>2 DEF NewerHead
    <3>4. CASE t.removed.seq < s.repo.seq
      <4>1. v = s
        BY <1>1, <1>4, <2>2, <3>1, <3>4 DEF MergeRemoved
      <4> HIDE DEF v, u
      <4> QED
        BY <1>1, <1>4, <2>1, <2>2, <3>1, <3>4, <4>1 DEF NewerHead
    <3> QED
      BY <1>1, <1>4, <2>2, <3>2, <3>3, <3>4
  <2>3. CASE s.repo = None
    <3>1. CASE s.removed = None \/ t.removed.seq > s.removed.seq
      <4>1. v = [s EXCEPT !.removed = t.removed]
        BY <1>4, <2>3, <3>1 DEF MergeRemoved
      <4>2. v.repo = None /\ v.removed = t.removed
        BY <1>2, <2>3, <4>1 DEF State
      <4>3. Version(t) > Version(s)
        BY <1>1, <1>4, <2>1, <2>3, <3>1 DEF Version
      <4> HIDE DEF v, u
      <4> QED
        BY <1>1, <2>1, <2>3, <4>2, <4>3 DEF Version, NewerHead
    <3>2. CASE ~(s.removed = None \/ t.removed.seq > s.removed.seq)
      <4>1. v = s
        BY <3>2 DEF MergeRemoved
      <4>2. Version(t) <= Version(s)
        BY <1>1, <1>4, <2>1, <2>3, <3>2 DEF Version
      <4> HIDE DEF v, u
      <4> QED
        BY <1>1, <2>1, <2>3, <4>1, <4>2 DEF Version, NewerHead
    <3> QED
      BY <3>1, <3>2
  <2> QED
    BY <2>2, <2>3
<1>5. CASE t.repo # None
  <2>1. t.removed = None /\ v = s /\ Version(t) = t.repo.seq
    BY <1>1, <1>5 DEF MergeRemoved, Version
  <2>2. CASE MayList(s, t.repo)
    <3>1. u = List(s, t.repo)
      BY <1>5, <2>1, <2>2 DEF MergeRepo
    <3>2. /\ u.repo = t.repo /\ u.removed = None
          /\ u.contributors = s.contributors /\ u.pending = s.pending
      BY <1>2, <3>1 DEF List, State
    <3>3. Version(t) > Version(s)
      BY <1>1, <1>5, <2>1, <2>2 DEF Version, MayList, TombstoneBlocks
    <3> HIDE DEF u
    <3> QED
      BY <1>1, <2>1, <3>2, <3>3 DEF Version, NewerHead
  <2>3. CASE ~MayList(s, t.repo)
    <3>1. u = s
      BY <2>1, <2>3 DEF MergeRepo
    <3>2. s.repo # None => s.repo.id = t.repo.id
      BY <1>5, OneOwner
    <3>3. s.removed # None => s.removed.seq # t.repo.seq
      BY <1>5 DEF Compatible, SeqsApart
    <3>4. Version(t) <= Version(s)
      BY <1>1, <1>5, <2>1, <2>3, <3>2, <3>3 DEF Version, MayList, TombstoneBlocks
    <3> HIDE DEF u
    <3> QED
      BY <1>1, <2>1, <3>1, <3>4 DEF Version, NewerHead
  <2> QED
    BY <2>2, <2>3
<1> QED
  BY <1>3, <1>4, <1>5

\* The last two phases of a merge leave the head alone.
LEMMA MergeKeepsHead ==
  ASSUME NEW s, Sound(s), NEW t, Sound(t)
  PROVE  LET u == MergeRepo(MergeRemoved(s, t.removed), t.repo)
         IN  Merge(s, t).repo = u.repo /\ Merge(s, t).removed = u.removed
<1> DEFINE v == MergeRemoved(s, t.removed)
           u == MergeRepo(v, t.repo)
<1> SUFFICES Merge(s, t).repo = u.repo /\ Merge(s, t).removed = u.removed
  OBVIOUS
<1>0. t.removed \in Remove \cup {None} /\ t.repo \in Entry \cup {None}
  BY DEF Sound, Good, State
<1>1. Good(v) /\ v.hosted
  BY <1>0, MergeRemovedGood DEF Sound
<1>2. Good(u)
  <2> HIDE DEF v
  <2> QED
    BY <1>0, <1>1, MergeRepoGood
<1>3. Merge(s, t) = MergePending(MergeContributors(u, t), t)
  BY DEF Merge
<1> HIDE DEF u
<1> QED
  BY <1>2, <1>3, MergedGrants, MergedInvites DEF Sound, Good

\* Copies with equal versions show the same listing and the same tombstone.
LEMMA EqualVersions ==
  ASSUME NEW s, Sound(s), NEW t, Sound(t), Compatible(s, t), Version(s) = Version(t)
  PROVE  s.repo = t.repo /\ s.removed = t.removed
<1>1. s.repo = None => Version(s) = IF s.removed # None THEN s.removed.seq ELSE -1
  BY DEF Version
<1>2. s.repo # None /\ t.removed # None => s.repo.seq # t.removed.seq
  BY DEF Compatible, SeqsApart
<1>3. t.repo # None /\ s.removed # None => t.repo.seq # s.removed.seq
  BY DEF Compatible, SeqsApart
<1>4. CASE s.repo # None /\ t.repo # None
  <2>1. s.repo.id = t.repo.id /\ s.repo.seq = t.repo.seq
    BY <1>4, OneOwner DEF Version
  <2> QED
    BY <1>4, <2>1, SeqTypes DEF Entry
<1>5. CASE s.repo = None /\ t.repo = None /\ s.removed # None /\ t.removed # None
  <2>1. s.removed.id = t.removed.id /\ s.removed.seq = t.removed.seq
    BY <1>5, OneOwner DEF Version
  <2> QED
    BY <1>5, <2>1, SeqTypes DEF Remove
<1>6. s.repo = None /\ t.repo # None => s.removed # None /\ s.removed.seq = t.repo.seq
  BY SeqTypes DEF Version
<1>7. t.repo = None /\ s.repo # None => t.removed # None /\ t.removed.seq = s.repo.seq
  BY SeqTypes DEF Version
<1>8. s.repo = None /\ t.repo = None => (s.removed = None <=> t.removed = None)
  BY SeqTypes DEF Version
<1> QED
  BY <1>2, <1>3, <1>4, <1>5, <1>6, <1>7, <1>8

LEMMA GrantSeqsAreNat == \A q \in GrantSeq \cup {0} : q \in Nat
<1>1. \A q \in GrantSeq : q \in Nat \ {0}
  BY Zenon
<1> QED
  BY <1>1

LEMMA GrantsAreNat ==
  ASSUME NEW s, Sound(s), NEW c \in Identity
  PROVE  s.contributors[c] \in Nat
<1>1. s.contributors[c] \in GrantSeq \cup {0}
  BY DEF Sound, Good, State
<1> QED
  BY <1>1, GrantSeqsAreNat

\* A copy that takes nothing more from one with the same listing has its grants.
LEMMA SyncedGrants ==
  ASSUME NEW s, Sound(s), NEW t, Sound(t), s.repo = t.repo, s.removed = t.removed,
         Compatible(s, t), Merge(s, t) = s, NEW c \in Identity, c \notin t.strays
  PROVE  t.contributors[c] <= s.contributors[c]
<1> DEFINE u == MergeRepo(MergeRemoved(s, t.removed), t.repo)
           w == MergeContributors(s, t)
<1>1. u = s
  BY HeadOfMerge, VersionType DEF NewerHead, Version, Sound
<1>2. s = MergePending(w, t)
  BY <1>1 DEF Merge
<1>3. s.contributors[c] \in Nat /\ t.contributors[c] \in Nat
  BY GrantsAreNat
<1>4. /\ w \in State
      /\ w.contributors[c] = IF c \in NewerGrants(s, t) THEN t.contributors[c]
                                                        ELSE s.contributors[c]
  BY MergedGrants DEF Sound, Good
<1> HIDE DEF w
<1>5. s.contributors = w.contributors
  BY <1>2, <1>4, MergedInvites DEF Sound, Good
<1>6. t.contributors[c] # 0 => Granted(s, t, c)
  BY DEF Granted, ValidContributorAdd, Sound, Roster
<1> QED
  BY <1>3, <1>4, <1>5, <1>6 DEF NewerGrants

\* The same of the invites.
LEMMA SyncedInvites ==
  ASSUME NEW s, Sound(s), NEW t, Sound(t), s.repo = t.repo, s.removed = t.removed,
         Compatible(s, t), Merge(s, t) = s, NEW c \in Identity,
         s.contributors[c] = t.contributors[c], t.pending[c] # None, ~Stray(t.pending[c])
  PROVE  s.pending[c] # None /\ t.pending[c].seq <= s.pending[c].seq
<1> DEFINE u == MergeRepo(MergeRemoved(s, t.removed), t.repo)
           w == MergeContributors(s, t)
<1>1. u = s
  BY HeadOfMerge, VersionType DEF NewerHead, Version, Sound
<1>2. s = MergePending(w, t)
  BY <1>1 DEF Merge
<1>3. t.contributors[c] = 0 /\ s.contributors[c] = 0
  BY DEF Sound, Good, Disjoint
<1>4. ~Granted(s, t, c) /\ c \notin NewerGrants(s, t)
  BY <1>3 DEF Granted, NewerGrants
<1>5. w \in State /\ w.repo = s.repo /\ w.contributors[c] = 0 /\ w.pending[c] = s.pending[c]
  BY <1>3, <1>4, MergedGrants DEF Sound, Good
<1> HIDE DEF w
<1>6. Invited(w, t, c)
  BY <1>5 DEF Invited, ValidPendingAdd, ValidContributorAdd, Sound, Roster
<1>8. s.pending[c] = IF w.pending[c] # None => t.pending[c].seq > w.pending[c].seq
                     THEN t.pending[c] ELSE w.pending[c]
  BY <1>2, <1>5, <1>6, MergedInvites DEF Sound, Good
<1>9. t.pending[c].seq \in Nat /\ (s.pending[c] # None => s.pending[c].seq \in Nat)
  BY DEF Sound, Good, State, Invite
<1> QED
  BY <1>5, <1>8, <1>9

\* The rows of a copy that were signed for the prefix are a copy of their own.
LEMMA OwnRowsSound ==
  ASSUME NEW s, Sound(s)
  PROVE  LET t == OwnRows(s)
         IN  /\ Sound(t) /\ t.repo = s.repo /\ t.removed = s.removed /\ t.strays = {}
             /\ \A c \in Identity \ (s.strays \cup StrayInvites(s)) :
                  t.contributors[c] = s.contributors[c] /\ t.pending[c] = s.pending[c]
<1> DEFINE t == OwnRows(s)
<1>1. /\ t = Without(s, s.strays, StrayInvites(s)) /\ s.strays \in SUBSET s.strays
      /\ StrayInvites(s) \in SUBSET Identity /\ s \in State
  BY DEF OwnRows, StrayInvites, Sound, Good
<1>2. t \in Passing(s)
  BY <1>1 DEF Passing
<1>3. Good(t) /\ t.hosted
  BY <1>2, PassingGood DEF Sound
<1>b. WithoutIs(s, s.strays, StrayInvites(s), t)
  BY <1>1, WithoutFields
<1>4. /\ t.repo = s.repo /\ t.removed = s.removed /\ t.strays = {}
      /\ \A c \in Identity :
           /\ t.contributors[c] = IF c \in s.strays THEN 0 ELSE s.contributors[c]
           /\ t.pending[c] = IF c \in StrayInvites(s) THEN None ELSE s.pending[c]
  BY <1>b DEF WithoutIs
<1> HIDE DEF t
<1>5. Roster(t)
  BY <1>4 DEF Sound, Roster, ValidContributorAdd, Stray, StrayInvites
<1> QED
  BY <1>3, <1>4, <1>5 DEF Sound, t

\* Two compatible copies that take nothing more of each other's own rows agree on
\* the prefix, and on everybody neither has a stray row for.
LEMMA SyncedAgree ==
  ASSUME NEW s, Sound(s), NEW t, Sound(t), Compatible(s, t),
         Merge(s, OwnRows(t)) = s, Merge(t, OwnRows(s)) = t
  PROVE  /\ s.repo = t.repo /\ s.removed = t.removed
         /\ \A c \in Identity : AtHome(s, t, c) =>
              s.contributors[c] = t.contributors[c] /\ s.pending[c] = t.pending[c]
<1> DEFINE S == OwnRows(s)
           T == OwnRows(t)
<1>0. /\ Sound(S) /\ S.repo = s.repo /\ S.removed = s.removed /\ S.strays = {}
      /\ \A c \in Identity \ (s.strays \cup StrayInvites(s)) :
           S.contributors[c] = s.contributors[c] /\ S.pending[c] = s.pending[c]
      /\ Sound(T) /\ T.repo = t.repo /\ T.removed = t.removed /\ T.strays = {}
      /\ \A c \in Identity \ (t.strays \cup StrayInvites(t)) :
           T.contributors[c] = t.contributors[c] /\ T.pending[c] = t.pending[c]
  BY OwnRowsSound
<1> HIDE DEF S, T
<1>1. Compatible(s, T) /\ Compatible(t, S) /\ Merge(s, T) = s /\ Merge(t, S) = t
  BY <1>0 DEF Compatible, Owners, SeqsApart, S, T
<1>2. /\ Version(s) \in Int /\ Version(t) \in Int
      /\ Version(S) = Version(s) /\ Version(T) = Version(t)
  BY <1>0, VersionType DEF Sound, Version
<1>3. ~(Version(t) > Version(s))
  <2> SUFFICES ASSUME Version(t) > Version(s) PROVE s.repo = t.repo /\ s.removed = t.removed
    BY <1>2 DEF Version
  <2> QED
    BY <1>0, <1>1, <1>2, HeadOfMerge, MergeKeepsHead DEF NewerHead
<1>4. ~(Version(s) > Version(t))
  <2> SUFFICES ASSUME Version(s) > Version(t) PROVE s.repo = t.repo /\ s.removed = t.removed
    BY <1>2 DEF Version
  <2> QED
    BY <1>0, <1>1, <1>2, HeadOfMerge, MergeKeepsHead DEF NewerHead
<1>5. s.repo = t.repo /\ s.removed = t.removed
  BY <1>2, <1>3, <1>4, EqualVersions
<1>6. ASSUME NEW c \in Identity, AtHome(s, t, c)
      PROVE  s.contributors[c] = t.contributors[c] /\ s.pending[c] = t.pending[c]
  <2>1. /\ S.contributors[c] = s.contributors[c] /\ S.pending[c] = s.pending[c]
        /\ T.contributors[c] = t.contributors[c] /\ T.pending[c] = t.pending[c]
        /\ ~Stray(s.pending[c]) /\ ~Stray(t.pending[c])
    BY <1>0, <1>6 DEF AtHome, Stray, StrayInvites
  <2>2. s.contributors[c] \in Nat /\ t.contributors[c] \in Nat
    BY GrantsAreNat
  <2>3. T.contributors[c] <= s.contributors[c] /\ S.contributors[c] <= t.contributors[c]
    BY <1>0, <1>1, <1>5, SyncedGrants
  <2>4. s.contributors[c] = t.contributors[c]
    BY <2>1, <2>2, <2>3
  <2>5. /\ t.pending[c] # None => s.pending[c] # None /\ t.pending[c].seq <= s.pending[c].seq
        /\ s.pending[c] # None => t.pending[c] # None /\ s.pending[c].seq <= t.pending[c].seq
    <3>1. T.pending[c] # None => s.pending[c] # None /\ T.pending[c].seq <= s.pending[c].seq
      BY <1>0, <1>1, <1>5, <2>1, <2>4, SyncedInvites
    <3>2. S.pending[c] # None => t.pending[c] # None /\ S.pending[c].seq <= t.pending[c].seq
      BY <1>0, <1>1, <1>5, <2>1, <2>4, SyncedInvites
    <3> QED
      BY <2>1, <3>1, <3>2
  <2>6. CASE s.pending[c] = None \/ t.pending[c] = None
    BY <2>4, <2>5, <2>6
  <2>7. CASE s.pending[c] # None /\ t.pending[c] # None
    <3>1. s.pending[c] \in Invite /\ t.pending[c] \in Invite
      BY <2>7 DEF Sound, Good, State
    <3>2. s.pending[c].by = t.pending[c].by
      BY <1>5, <2>1, <2>7 DEF Sound, Roster
    <3>3. s.pending[c].seq \in GrantSeq /\ t.pending[c].seq \in GrantSeq
      BY <3>1 DEF Invite
    <3>4. s.pending[c].seq \in Nat /\ t.pending[c].seq \in Nat
      BY <3>3, GrantSeqsAreNat
    <3>5. s.pending[c].seq = t.pending[c].seq
      BY <2>5, <2>7, <3>4
    <3>6. s.pending[c] = t.pending[c]
      BY <3>1, <3>2, <3>5 DEF Invite
    <3> QED
      BY <2>4, <3>6
  <2> QED
    BY <2>6, <2>7
<1> QED
  BY <1>5, <1>6

\* Copies that all started empty and have exchanged the rows of the prefix agree on
\* it, and on everybody neither has a stray row for, if one identity signed what
\* both say of the prefix and no listing has the seq of an unregister (forge-registry
\* merge_states).
THEOREM HostedCopiesAgreeAlways == Spec => HostedCopiesAgree
<1>1. Spec /\ InitHosted => HostedSpec
  BY PTL DEF Spec, HostedSpec
<1>2. HostedInv => SyncedReplicasAgree
  BY SyncedAgree DEF HostedInv, SyncedReplicasAgree, Synced, Compatible
<1> QED
  BY <1>1, <1>2, HostedInvAlways, PTL DEF HostedCopiesAgree
-----------------------------------------------------------------------------
LEMMA SeqsAreNat ==
  /\ \A e \in Entry : e.seq \in Nat
  /\ \A op \in Remove : op.seq \in Nat
  /\ \A v \in Invite : v.seq \in Nat
<1>1. \A q \in UpsertSeq : q \in Nat
  BY Zenon
<1>2. \A q \in RemoveSeq : q \in Nat
  BY Zenon
<1>3. \A e \in Entry : e.seq \in UpsertSeq
  BY DEF Entry
<1>4. \A op \in Remove : op.seq \in RemoveSeq
  BY DEF Remove
<1>5. \A v \in Invite : v.seq \in GrantSeq
  BY DEF Invite
<1> QED
  BY <1>1, <1>2, <1>3, <1>4, <1>5, GrantSeqsAreNat

LEMMA RowsAreNat ==
  ASSUME NEW g \in [Identity -> GrantSeq \cup {0}], NEW c \in Identity
  PROVE  g[c] \in Nat
<1>1. g[c] \in GrantSeq \cup {0}
  OBVIOUS
<1> QED
  BY <1>1, GrantSeqsAreNat

\* What is left of `in` for a copy t to take, phase by phase: nothing.
RemovedTaken(t, op) ==
  \/ op = None
  \/ t.removed # None /\ op.seq <= t.removed.seq
  \/ t.repo # None /\ t.removed = None /\ ~(t.repo.id = op.id /\ op.seq > t.repo.seq)
RepoTaken(t, e) == e = None \/ ~MayList(t, e)
GrantsTaken(t, in) ==
  \A c \in Identity : Granted(t, in, c) => in.contributors[c] <= t.contributors[c]
\* The grant clears the invite, and a stray invite that came with it is put back.
InvitesTaken(t, in) ==
  \A c \in Identity :
    /\ Granted(t, in, c) =>
         t.pending[c] = IF Stray(in.pending[c]) THEN in.pending[c] ELSE None
    /\ ~Granted(t, in, c) /\ Invited(t, in, c) =>
         t.pending[c] # None /\ in.pending[c].seq <= t.pending[c].seq

Taken(t, in) ==
  /\ RemovedTaken(t, in.removed)
  /\ RepoTaken(t, in.repo)
  /\ GrantsTaken(t, in)
  /\ InvitesTaken(t, in)

\* Then a merge leaves t as it is.
LEMMA TakenIsFixed ==
  ASSUME NEW t \in State, NEW in \in State, Taken(t, in)
  PROVE  Merge(t, in) = t
<1>0. /\ in.removed \in Remove \cup {None}
      /\ in.contributors \in [Identity -> GrantSeq \cup {0}]
      /\ in.pending \in [Identity -> Invite \cup {None}]
      /\ t.removed \in Remove \cup {None}
      /\ t.contributors \in [Identity -> GrantSeq \cup {0}]
      /\ t.pending \in [Identity -> Invite \cup {None}]
  BY DEF State
<1>1. MergeRemoved(t, in.removed) = t
  <2>1. \A op \in Remove : op.seq \in Int
    BY SeqsAreNat
  <2> QED
    BY <1>0, <2>1 DEF Taken, RemovedTaken, MergeRemoved
<1>2. MergeRepo(t, in.repo) = t
  BY DEF Taken, RepoTaken, MergeRepo
<1> DEFINE w == MergeContributors(t, in)
<1>3. /\ w.hosted = t.hosted /\ w.repo = t.repo /\ w.removed = t.removed
      /\ w.contributors = t.contributors /\ w.strays = t.strays /\ w \in State
      /\ \A c \in Identity : w.pending[c] = IF Granted(t, in, c) THEN None ELSE t.pending[c]
  <2>1. \A c \in Identity : in.contributors[c] \in Int /\ t.contributors[c] \in Int
    BY <1>0, RowsAreNat
  <2>2. NewerGrants(t, in) = {}
    BY <2>1 DEF Taken, GrantsTaken, NewerGrants
  <2> HIDE DEF w
  <2>3. /\ w.hosted = t.hosted /\ w.repo = t.repo /\ w.removed = t.removed
        /\ w.strays = t.strays /\ w \in State
        /\ \A c \in Identity :
             /\ w.contributors[c] = t.contributors[c]
             /\ w.pending[c] = IF Granted(t, in, c) THEN None ELSE t.pending[c]
    <3>1. LET u == MergeContributors(t, in)
              n == NewerGrants(t, in)
          IN  /\ u.hosted = t.hosted /\ u.repo = t.repo /\ u.removed = t.removed
              /\ u.strays = (t.strays \ n) \cup (n \cap in.strays)
              /\ \A c \in Identity :
                   /\ u.contributors[c] = IF c \in n THEN in.contributors[c] ELSE t.contributors[c]
                   /\ u.pending[c] = IF Granted(t, in, c) THEN None ELSE t.pending[c]
              /\ u \in State
      BY MergedGrants
    <3>2. (t.strays \ {}) \cup ({} \cap in.strays) = t.strays
      OBVIOUS
    <3> QED
      BY <2>2, <3>1, <3>2 DEF w
  <2>4. w.contributors = t.contributors
    BY <2>3 DEF State
  <2> QED
    BY <2>3, <2>4
<1> HIDE DEF w
<1>4. MergePending(w, in) = t
  <2> DEFINE u == MergePending(w, in)
  <2>1. /\ u.hosted = t.hosted /\ u.repo = t.repo /\ u.removed = t.removed
        /\ u.contributors = t.contributors /\ u.strays = t.strays /\ u \in State
        /\ \A c \in Identity : u.pending[c] =
             IF /\ Invited(w, in, c)
                /\ w.pending[c] # None => in.pending[c].seq > w.pending[c].seq
               THEN in.pending[c] ELSE w.pending[c]
    BY <1>3, MergedInvites
  <2> HIDE DEF u
  <2>2. ASSUME NEW c \in Identity PROVE u.pending[c] = t.pending[c]
    <3>1. Invited(w, in, c) <=> Invited(t, in, c)
      BY <1>3 DEF Invited, ValidPendingAdd
    <3>2. CASE Granted(t, in, c)
      <4>1. w.pending[c] = None /\ t.contributors[c] # 0
        <5>1. in.contributors[c] \in Nat /\ t.contributors[c] \in Nat /\ in.contributors[c] # 0
          BY <1>0, <3>2, RowsAreNat DEF Granted
        <5> QED
          BY <1>3, <3>2, <5>1 DEF Taken, GrantsTaken
      <4>2. Invited(t, in, c) <=> Stray(in.pending[c])
        BY <4>1 DEF Invited, ValidPendingAdd, Stray
      <4> QED
        BY <2>1, <3>1, <3>2, <4>1, <4>2 DEF Taken, InvitesTaken
    <3>3. CASE ~Granted(t, in, c)
      <4>1. w.pending[c] = t.pending[c]
        BY <1>3, <3>3
      <4>2. Invited(t, in, c) =>
              t.pending[c] # None /\ in.pending[c].seq \in Int /\ t.pending[c].seq \in Int
              /\ in.pending[c].seq <= t.pending[c].seq
        BY <1>0, <3>3, SeqsAreNat DEF Taken, InvitesTaken, Invited
      <4> QED
        BY <2>1, <3>1, <4>1, <4>2
    <3> QED
      BY <3>2, <3>3
  <2>3. u.pending = t.pending
    BY <2>1, <2>2 DEF State
  <2>4. u = t
    BY <2>1, <2>3 DEF State
  <2> QED
    BY <2>4 DEF u
<1> QED
  BY <1>1, <1>2, <1>4 DEF Merge, w

\* One merge takes all there is to take.
LEMMA MergeTakes ==
  ASSUME NEW s, Good(s), s.hosted, NEW in, Good(in)
  PROVE  Taken(Merge(s, in), in)
<1> DEFINE s1 == MergeRemoved(s, in.removed)
           s2 == MergeRepo(s1, in.repo)
           s3 == MergeContributors(s2, in)
           s4 == MergePending(s3, in)
<1>0. /\ in.removed \in Remove \cup {None}
      /\ in.repo \in Entry \cup {None}
      /\ in.contributors \in [Identity -> GrantSeq \cup {0}]
      /\ in.pending \in [Identity -> Invite \cup {None}]
  BY DEF Good, State
<1>1. Good(s1) /\ s1.hosted
  BY <1>0, MergeRemovedGood
<1>2. Good(s2) /\ s2.hosted
  BY <1>0, <1>1, MergeRepoGood
<1>3. RemovedTaken(s1, in.removed)
  <2>1. \A op \in Remove : op.seq \in Int /\ op # None
    BY SeqsAreNat
  <2>2. s.removed \in Remove \cup {None}
    BY DEF Good, State
  <2>3. s \in State
    BY DEF Good
  <2>4. CASE in.removed = None
    BY <2>4 DEF RemovedTaken
  <2>5. CASE s.removed # None /\ in.removed # None /\ ~(in.removed.seq > s.removed.seq)
    BY <1>0, <2>1, <2>2, <2>5 DEF RemovedTaken, MergeRemoved
  <2>6. CASE /\ in.removed # None
             /\ s.removed = None \/ in.removed.seq > s.removed.seq
    <3>1. CASE /\ s.repo # None /\ s.removed = None
               /\ ~(s.repo.id = in.removed.id /\ in.removed.seq > s.repo.seq)
      BY <2>6, <3>1 DEF RemovedTaken, MergeRemoved
    <3>2. CASE ~(/\ s.repo # None /\ s.removed = None
                 /\ ~(s.repo.id = in.removed.id /\ in.removed.seq > s.repo.seq))
      <4>1. s1.removed = in.removed
        BY <2>3, <2>6, <3>2 DEF MergeRemoved, Unlist, State
      <4> QED
        BY <1>0, <2>1, <2>6, <4>1 DEF RemovedTaken
    <3> QED
      BY <3>1, <3>2
  <2> QED
    BY <2>4, <2>5, <2>6
<1> HIDE DEF s1
<1>4. RemovedTaken(s2, in.removed)
  <2>1. CASE in.repo = None
    BY <1>3, <2>1 DEF s2, MergeRepo
  <2>2. CASE in.removed = None
    BY <2>2 DEF RemovedTaken
  <2> QED
    BY <2>1, <2>2 DEF Good, Xor
<1>5. RepoTaken(s2, in.repo)
  <2>1. CASE in.repo # None /\ MayList(s1, in.repo)
    <3>1. s2.repo = in.repo
      BY <1>1, <2>1 DEF s2, MergeRepo, List, Good, State
    <3>2. in.repo.seq \in Int
      BY <1>0, <2>1, SeqsAreNat
    <3> QED
      BY <2>1, <3>1, <3>2 DEF RepoTaken, MayList
  <2>2. CASE ~(in.repo # None /\ MayList(s1, in.repo))
    BY <2>2 DEF s2, MergeRepo, RepoTaken
  <2> QED
    BY <2>1, <2>2
<1> HIDE DEF s2
<1>6. Good(s3) /\ s3.hosted /\ s3.repo = s2.repo /\ s3.removed = s2.removed
  BY <1>2, MergeContributorsGood DEF Good
<1>7. \A c \in Identity :
        /\ s3.contributors[c] = IF c \in NewerGrants(s2, in) THEN in.contributors[c]
                                                            ELSE s2.contributors[c]
        /\ s3.pending[c] = IF Granted(s2, in, c) THEN None ELSE s2.pending[c]
  BY <1>2, MergedGrants DEF Good
<1> HIDE DEF s3
<1>8. Good(s4) /\ s4.hosted /\ s4.repo = s3.repo /\ s4.removed = s3.removed
  BY <1>6, MergePendingGood DEF Good
<1>9. s4.contributors = s3.contributors
  BY <1>6, MergedInvites DEF Good
<1>10. \A c \in Identity : s4.pending[c] =
         IF /\ Invited(s3, in, c)
            /\ s3.pending[c] # None => in.pending[c].seq > s3.pending[c].seq
           THEN in.pending[c] ELSE s3.pending[c]
  BY <1>6, MergedInvites DEF Good
<1> HIDE DEF s4
<1>11. ASSUME NEW c \in Identity
       PROVE  /\ Granted(s4, in, c) <=> Granted(s2, in, c)
              /\ Invited(s4, in, c) <=> Invited(s3, in, c)
              /\ in.contributors[c] \in Nat /\ s2.contributors[c] \in Nat
  BY <1>0, <1>2, <1>6, <1>8, <1>9, RowsAreNat
     DEF Granted, Invited, ValidContributorAdd, ValidPendingAdd, Good, State
<1>12. GrantsTaken(s4, in) /\ InvitesTaken(s4, in)
  <2> SUFFICES ASSUME NEW c \in Identity
               PROVE  /\ Granted(s4, in, c) =>
                           /\ in.contributors[c] <= s4.contributors[c]
                           /\ s4.pending[c] = IF Stray(in.pending[c]) THEN in.pending[c] ELSE None
                      /\ ~Granted(s4, in, c) /\ Invited(s4, in, c) =>
                           s4.pending[c] # None /\ in.pending[c].seq <= s4.pending[c].seq
    BY DEF GrantsTaken, InvitesTaken
  <2>1. CASE Granted(s2, in, c)
    <3>1. /\ in.contributors[c] # 0 /\ in.contributors[c] <= s3.contributors[c]
          /\ s3.contributors[c] # 0 /\ s3.pending[c] = None
      BY <1>7, <1>11, <2>1 DEF NewerGrants, Granted
    <3>2. Invited(s3, in, c) <=> Stray(in.pending[c])
      BY <3>1 DEF Invited, ValidPendingAdd, Stray
    <3> QED
      BY <1>9, <1>10, <1>11, <2>1, <3>1, <3>2
  <2>2. CASE ~Granted(s2, in, c) /\ Invited(s3, in, c)
    <3>1. in.pending[c] # None /\ in.pending[c].seq \in Int
      BY <1>0, <2>2, SeqsAreNat DEF Invited
    <3>2. s3.pending[c] # None => s3.pending[c].seq \in Int
      BY <1>6, SeqsAreNat DEF Good, State
    <3> QED
      BY <1>10, <1>11, <2>2, <3>1, <3>2
  <2> QED
    BY <1>11, <2>1, <2>2
<1>13. Merge(s, in) = s4
  BY DEF Merge, s1, s2, s3, s4
<1> QED
  BY <1>4, <1>5, <1>6, <1>8, <1>12, <1>13
     DEF Taken, RemovedTaken, RepoTaken, MayList, TombstoneBlocks

\* A copy without an identity in both maps has nothing to take from itself, or from
\* what is left of it without some strays.
LEMMA OwnTaken ==
  ASSUME NEW s, Good(s), RowsApart(s), NEW in \in Passing(s)
  PROVE  Taken(s, in)
<1>0. s \in State /\ in \in State
  BY PassingGood DEF Good
<1>1. PICK no \in SUBSET s.strays, nor \in SUBSET StrayInvites(s) : in = Without(s, no, nor)
  BY DEF Passing
<1>a. nor \in SUBSET Identity
  BY DEF StrayInvites
<1>b. WithoutIs(s, no, nor, in)
  BY <1>0, <1>1, <1>a, WithoutFields
<1>2. /\ in.repo = s.repo /\ in.removed = s.removed
      /\ \A c \in Identity :
           /\ in.contributors[c] = IF c \in no THEN 0 ELSE s.contributors[c]
           /\ in.pending[c] = IF c \in nor THEN None ELSE s.pending[c]
  BY <1>b DEF WithoutIs
<1>3. RemovedTaken(s, in.removed)
  <2>1. s.removed # None => s.removed.seq \in Int
    BY <1>0, SeqsAreNat DEF State
  <2> QED
    BY <1>2, <2>1 DEF RemovedTaken
<1>4. RepoTaken(s, in.repo)
  <2>1. s.repo # None => s.repo.seq \in Int
    BY <1>0, SeqsAreNat DEF State
  <2> QED
    BY <1>2, <2>1 DEF RepoTaken, MayList
<1>5. GrantsTaken(s, in) /\ InvitesTaken(s, in)
  <2> SUFFICES ASSUME NEW c \in Identity
               PROVE  /\ Granted(s, in, c) =>
                           /\ in.contributors[c] <= s.contributors[c]
                           /\ s.pending[c] = IF Stray(in.pending[c]) THEN in.pending[c] ELSE None
                      /\ Invited(s, in, c) =>
                           s.pending[c] # None /\ in.pending[c].seq <= s.pending[c].seq
    BY DEF GrantsTaken, InvitesTaken
  <2>1. s.contributors[c] \in Int /\ (s.pending[c] # None => s.pending[c].seq \in Int)
    BY <1>0, RowsAreNat, SeqsAreNat DEF State
  <2>2. Granted(s, in, c) => in.contributors[c] = s.contributors[c] /\ s.pending[c] = None
    BY <1>2 DEF Granted, RowsApart
  <2>3. Invited(s, in, c) => in.pending[c] = s.pending[c] /\ s.pending[c] # None
    BY <1>2 DEF Invited
  <2>4. s.pending[c] = None => ~Stray(in.pending[c])
    BY <1>2 DEF Stray
  <2> QED
    BY <2>1, <2>2, <2>3, <2>4
<1> QED
  BY <1>3, <1>4, <1>5 DEF Taken

LEMMA MergeTwice ==
  ASSUME NEW s, Good(s), s.hosted, NEW in, Good(in)
  PROVE  Merge(Merge(s, in), in) = Merge(s, in)
<1>1. Good(Merge(s, in))
  BY MergeGood DEF Good
<1> QED
  BY <1>1, MergeTakes, TakenIsFixed DEF Good

\* A Put that is sent again, or a peer's state that arrives twice, changes
\* nothing the second time, for any copy a node can hold (merge_states).
THEOREM RedeliveryChangesNothingAlways == Spec => []RedeliveryChangesNothing
<1>1. ASSUME NEW sent, Good(sent), NEW in \in Passing(sent)
      PROVE  /\ \A s : Good(s) /\ s.hosted => Merge(Merge(s, in), in) = Merge(s, in)
             /\ RowsApart(sent) => Merge(sent, in) = sent
  BY <1>1, PassingGood, MergeTwice, OwnTaken, TakenIsFixed DEF Good
<1>2. ASSUME Inv PROVE RedeliveryChangesNothing
  <2>1. \A p \in Replica : Good(replica[p])
    BY <1>2 DEF Inv
  <2>2. \A sent \in Partial \cup {replica[p] : p \in {q \in Replica : replica[q].hosted}} : Good(sent)
    BY <2>1, PartialGood
  <2> QED
    BY <1>1, <2>1, <2>2 DEF RedeliveryChangesNothing
<1> QED
  BY <1>2, InvAlways, PTL
=============================================================================
