--------------------------- MODULE LifecycleProofs ---------------------------
(***************************************************************************)
(* Proofs about operations that await one request after the other, over a  *)
(* copy of the registry contract: an invitation (Invites) and the removal  *)
(* of a repository (RepoLifecycle), for any people, tabs and clocks.  What *)
(* a merge does to the copy is cited from ForgeRegistryProofs.             *)
(***************************************************************************)
EXTENDS MCBrowser, VaultSyncProofs, DutyProofs, PublishProofs, TLAPS

-----------------------------------------------------------------------------
(***************************************************************************)
(* Invitations.                                                            *)
(***************************************************************************)
IP == INSTANCE ForgeRegistryProofs WITH
        Replica <- {Lister}, Identity <- Invitee \cup {Lister},
        SiteKeyHolder <- Invitee \cup {Lister},
        UpsertSeq <- 1..MaxSign, RemoveSeq <- 1..MaxSign, GrantSeq <- 1..MaxSign,
        StrayTo <- {}, StraySeq <- {}, None <- Nobody, replica <- [r \in {Lister} |-> listed]

LEMMA InvitesRegistry ==
  /\ Nobody \notin IP!Entry \cup IP!Remove \cup IP!Invite \cup (Invitee \cup {Lister})
  /\ 1..MaxSign \subseteq Nat \ {0} /\ 1..MaxSign \subseteq Nat
BY InvitesAssumption, NobodyAssumption
   DEF G!Entry, G!Remove, G!Invite, IP!Entry, IP!Remove, IP!Invite

LEMMA InvitesMerge ==
  ASSUME NEW s, NEW in
  PROVE  G!Merge(s, in) = IP!Merge(s, in)
<1>1. \A u, rm : G!MergeRemoved(u, rm) = IP!MergeRemoved(u, rm)
  BY DEF G!MergeRemoved, G!Unlist, G!NoContributors, G!NoPending,
         IP!MergeRemoved, IP!Unlist, IP!NoContributors, IP!NoPending
<1>2. \A u, e : G!MergeRepo(u, e) = IP!MergeRepo(u, e)
  BY DEF G!MergeRepo, G!MayList, G!TombstoneBlocks, G!List,
         IP!MergeRepo, IP!MayList, IP!TombstoneBlocks, IP!List
<1>3. \A u : G!MergeContributors(u, in) = IP!MergeContributors(u, in)
  <2>1. \A u, c : G!Granted(u, in, c) <=> IP!Granted(u, in, c)
    BY DEF G!Granted, G!ValidContributorAdd, IP!Granted, IP!ValidContributorAdd
  <2>2. \A u : G!NewerGrants(u, in) = IP!NewerGrants(u, in)
    BY <2>1 DEF G!NewerGrants, IP!NewerGrants
  <2>3. \A u, n : G!TakeGrants(u, in, n) = IP!TakeGrants(u, in, n)
    BY DEF G!TakeGrants, IP!TakeGrants
  <2> QED
    BY <2>1, <2>2, <2>3 DEF G!MergeContributors, IP!MergeContributors
<1>4. \A u : G!MergePending(u, in) = IP!MergePending(u, in)
  BY DEF G!MergePending, G!Invited, G!ValidPendingAdd,
         IP!MergePending, IP!Invited, IP!ValidPendingAdd
<1> QED
  BY <1>1, <1>2, <1>3, <1>4 DEF G!Merge, IP!Merge

\* The copy is a good one, and whoever lists the prefix is the owner.
ListedOK(s) == IP!Good(s) /\ s.hosted /\ (s.repo # Nobody => s.repo.id = Lister)

DoingOK(d) ==
  \A i \in Invitee : /\ d[i].step = "grant" => d[i].coupon \in Time
                     /\ d[i].step = "import" => d[i].reached \/ d[i].cut

InvitesInv ==
  /\ InvitesTypeOK /\ ListedOK(listed) /\ DoingOK(doing)
  /\ sending.step # "none" => sending.coupon \in Time

\* What a merge of s with a partial state does, phase by phase.
LEMMA MergeListed ==
  ASSUME NEW s, ListedOK(s), NEW in \in IP!State, IP!Xor(in),
         in.repo # Nobody => in.repo.id = Lister
  PROVE  ListedOK(G!Merge(s, in))
<1> DEFINE s1 == IP!MergeRemoved(s, in.removed)
           s2 == IP!MergeRepo(s1, in.repo)
           s3 == IP!MergeContributors(s2, in)
           s4 == IP!MergePending(s3, in)
<1>1. IP!Good(IP!Merge(s, in)) /\ IP!Merge(s, in).hosted
  BY InvitesRegistry, IP!MergeGood DEF ListedOK
<1>2. s1.repo # Nobody => s1.repo = s.repo
  BY DEF IP!MergeRemoved, IP!Unlist, ListedOK, IP!Good, IP!State
<1>3. /\ in.removed \in IP!Remove \cup {Nobody} /\ in.repo \in IP!Entry \cup {Nobody}
  BY DEF IP!State
<1>4. IP!Good(s1) /\ s1.hosted
  BY <1>3, InvitesRegistry, IP!MergeRemovedGood DEF ListedOK
<1>5. IP!Good(s2) /\ s2.hosted
  <2> HIDE DEF s1
  <2> QED
    BY <1>3, <1>4, InvitesRegistry, IP!MergeRepoGood
<1>6. s2.repo # Nobody => s2.repo = s1.repo \/ s2.repo = in.repo
  <2> HIDE DEF s1
  <2> QED
    BY <1>4 DEF IP!MergeRepo, IP!List, IP!Good, IP!State
<1>7. s3.repo = s2.repo /\ IP!Good(s3) /\ s3.hosted
  <2> HIDE DEF s2
  <2> QED
    BY <1>3, <1>5, InvitesRegistry, IP!MergeContributorsGood
<1>8. s4.repo = s3.repo
  <2> HIDE DEF s3
  <2> QED
    BY <1>3, <1>7, InvitesRegistry, IP!MergePendingGood
<1>9. s4 = G!Merge(s, in)
  BY InvitesMerge DEF IP!Merge
<1> HIDE DEF s1, s2, s3, s4
<1> QED
  BY <1>1, <1>2, <1>6, <1>7, <1>8, <1>9, InvitesMerge DEF ListedOK

\* A grant that is put shows, as long as the prefix is listed.
LEMMA GrantShows ==
  ASSUME NEW s, ListedOK(s), NEW i \in Invitee, NEW q \in Time
  PROVE  LET t == G!Merge(s, [G!Empty EXCEPT !.contributors[i] = q])
         IN  ListedOK(t) /\ (t.repo = Nobody \/ t.contributors[i] # 0)
<1> DEFINE in == [G!Empty EXCEPT !.contributors[i] = q]
           t == G!Merge(s, in)
<1>1. /\ in \in IP!State /\ IP!Xor(in) /\ in.repo = Nobody /\ in.removed = Nobody
      /\ in.contributors[i] = q
  BY DEF G!Empty, G!NoContributors, G!NoPending, IP!State, IP!Xor, Time
<1>2. ListedOK(t)
  <2> HIDE DEF in
  <2> QED
    BY <1>1, MergeListed
<1>3. t = IP!MergePending(IP!MergeContributors(s, in), in)
  <2> HIDE DEF in
  <2> QED
    BY <1>1, InvitesMerge DEF IP!Merge, IP!MergeRemoved, IP!MergeRepo
<1>4. s \in IP!State /\ (s.repo # Nobody => s.repo.id = Lister)
  BY DEF ListedOK, IP!Good
<1> DEFINE u == IP!MergeContributors(s, in)
<1>5. /\ u.repo = s.repo
      /\ u.contributors[i] = IF IP!Granted(s, in, i) /\ in.contributors[i] > s.contributors[i]
                               THEN in.contributors[i] ELSE s.contributors[i]
  <2> HIDE DEF in
  <2> QED
    BY <1>1, <1>4, InvitesRegistry, IP!MergedGrants DEF IP!NewerGrants
<1>6. u.repo = s.repo /\ (s.repo # Nobody => u.contributors[i] # 0)
  <2>1. s.contributors[i] \in Nat /\ q \in Nat /\ q # 0
    BY <1>4, InvitesAssumption DEF IP!State, Time
  <2>2. s.repo # Nobody => IP!Granted(s, in, i)
    <3> HIDE DEF in
    <3> QED
      BY <1>1, <1>4, <2>1, InvitesAssumption DEF IP!Granted, IP!ValidContributorAdd
  <2> HIDE DEF in, u
  <2> QED
    BY <1>1, <1>5, <2>1, <2>2
<1>7. t.repo = u.repo /\ t.contributors = u.contributors
  <2>1. u \in IP!State
    <3> HIDE DEF in
    <3> QED
      BY <1>1, InvitesRegistry, IP!MergeContributorsGood DEF ListedOK, IP!Good
  <2> HIDE DEF u, in, t
  <2>2. t = IP!MergePending(u, in)
    BY <1>3 DEF u
  <2> QED
    BY <1>1, <2>1, <2>2, InvitesRegistry, IP!MergedInvites
<1> QED
  BY <1>2, <1>6, <1>7

LEMMA InvitesStates ==
  /\ G!State = IP!State /\ G!Empty = IP!Empty
  /\ G!Entry = IP!Entry /\ G!Remove = IP!Remove /\ G!Invite = IP!Invite
BY DEF G!State, G!Entry, G!Remove, G!Invite, G!Empty, G!NoContributors, G!NoPending,
       IP!State, IP!Entry, IP!Remove, IP!Invite, IP!Empty, IP!NoContributors, IP!NoPending

LEMMA Noted ==
  ASSUME NEW x \in InviteeDoing, NEW a \in BOOLEAN, NEW b \in BOOLEAN
  PROVE  [step |-> x.step, coupon |-> x.coupon, reached |-> a, cut |-> b] \in InviteeDoing
BY DEF InviteeDoing

\* The parts of an accept that the registry's next state decides.
LEMMA Takes ==
  ASSUME NEW s, NEW d \in [Invitee -> InviteeDoing], Take(s, d),
         \A i \in Invitee :
           /\ d[i].step = "grant" => d[i].coupon \in Time
           /\ d[i].step = "import" => \/ d[i].reached \/ d[i].cut
                                      \/ s.contributors[i] # 0 \/ s.repo = Nobody
  PROVE  listed' = s /\ doing' \in [Invitee -> InviteeDoing] /\ DoingOK(doing')
<1> DEFINE e(i) == IF d[i].step = "none" THEN d[i] ELSE
       [d[i] EXCEPT !.reached = @ \/ s.contributors[i] # 0, !.cut = @ \/ s.repo = Nobody]
<1>1. listed' = s /\ doing' = [i \in Invitee |-> e(i)]
  BY DEF Take
<1>2. ASSUME NEW i \in Invitee
      PROVE  /\ e(i) \in InviteeDoing
             /\ e(i).step = "grant" => e(i).coupon \in Time
             /\ e(i).step = "import" => e(i).reached \/ e(i).cut
  <2>1. d[i] \in InviteeDoing
    OBVIOUS
  <2>2. CASE d[i].step = "none"
    BY <2>1, <2>2
  <2>3. CASE d[i].step # "none"
    <3> DEFINE a == d[i].reached \/ s.contributors[i] # 0
               b == d[i].cut \/ s.repo = Nobody
    <3>1. a \in BOOLEAN /\ b \in BOOLEAN
      OBVIOUS
    <3>2. e(i) = [step |-> d[i].step, coupon |-> d[i].coupon, reached |-> a, cut |-> b]
      BY <2>1, <2>3 DEF InviteeDoing
    <3>3. d[i].step = "import" => a \/ b
      OBVIOUS
    <3>4. d[i].step = "grant" => d[i].coupon \in Time
      OBVIOUS
    <3> HIDE DEF a, b, e
    <3>5. /\ e(i).step = d[i].step /\ e(i).coupon = d[i].coupon
          /\ e(i).reached = a /\ e(i).cut = b
      BY <3>2
    <3>7. e(i) \in InviteeDoing
      BY <2>1, <3>1, <3>2, Noted
    <3> QED
      BY <3>3, <3>4, <3>5, <3>7
  <2> QED
    BY <2>2, <2>3
<1> HIDE DEF e
<1>3. doing' \in [Invitee -> InviteeDoing]
  BY <1>1, <1>2
<1>4. DoingOK(doing')
  BY <1>1, <1>2 DEF DoingOK
<1> QED
  BY <1>1, <1>3, <1>4

\* A step of one invitee that leaves the registry alone.
LEMMA MovesOn ==
  ASSUME InvitesInv, NEW i \in Invitee, NEW x \in InviteeDoing,
         doing' = [doing EXCEPT ![i] = x],
         x.step = "grant" => x.coupon \in Time,
         x.step = "import" => x.reached \/ x.cut
  PROVE  doing' \in [Invitee -> InviteeDoing] /\ DoingOK(doing')
<1>1. doing \in [Invitee -> InviteeDoing]
  BY DEF InvitesInv, InvitesTypeOK
<1>2. \A j \in Invitee : doing'[j] = IF j = i THEN x ELSE doing[j]
  BY <1>1
<1> QED
  BY <1>1, <1>2 DEF DoingOK, InvitesInv

\* What one invitee turns to, as a value.
LEMMA Turns ==
  ASSUME InvitesInv, NEW i \in Invitee
  PROVE  /\ doing[i] \in InviteeDoing
         /\ AtRest \in InviteeDoing
         /\ Rest(i) = [doing EXCEPT ![i] = AtRest]
         /\ \A step \in {"import", "prune", "drop key"} :
              /\ [doing[i] EXCEPT !.step = step] \in InviteeDoing
              /\ To(i, step) = [doing EXCEPT ![i] = [doing[i] EXCEPT !.step = step]]
BY DEF InvitesInv, InvitesTypeOK, InviteeDoing, AtRest, Rest, To

\* A step of the owner: what it puts or takes away leaves a good copy, and no
\* accept is disturbed.
LEMMA OwnerTakes ==
  ASSUME InvitesInv, NEW s, ListedOK(s), Take(s, doing)
  PROVE  listed' \in G!State /\ ListedOK(listed') /\ doing' \in [Invitee -> InviteeDoing] /\ DoingOK(doing')
<1>1. doing \in [Invitee -> InviteeDoing] /\ DoingOK(doing)
  BY DEF InvitesInv, InvitesTypeOK
<1>2. listed' = s /\ doing' \in [Invitee -> InviteeDoing] /\ DoingOK(doing')
  BY <1>1, Takes DEF DoingOK
<1> QED
  BY <1>2, InvitesStates DEF ListedOK, IP!Good

LEMMA NextStampTyped == ASSUME InvitesInv, Tick PROVE NextStamp \in Time /\ stamp' \in Time
BY InvitesAssumption DEF InvitesInv, InvitesTypeOK, Tick, NextStamp, Time

\* A row that is taken away leaves a good copy.
LEMMA RowsGo ==
  ASSUME NEW s, ListedOK(s), NEW i \in Invitee
  PROVE  /\ ListedOK([s EXCEPT !.pending[i] = Nobody])
         /\ ListedOK([s EXCEPT !.contributors[i] = 0])
         /\ [s EXCEPT !.contributors[i] = 0].repo = s.repo
         /\ \A j \in Invitee \ {i} : [s EXCEPT !.contributors[i] = 0].contributors[j] = s.contributors[j]
BY DEF ListedOK, IP!Good, IP!State, IP!Xor, IP!Disjoint, IP!Blank

LEMMA OwnerSteps ==
  ASSUME InvitesInv,
         \/ \E i \in Invitee : BeginSend(i) \/ CancelInvite(i)
         \/ RecordInvite \/ DeliverInvite \/ SendFails \/ UnlistRepo \/ ListRepo
  PROVE  InvitesInv'
<1>0. /\ ListedOK(listed) /\ InvitesTypeOK /\ DoingOK(doing)
      /\ sending.step # "none" => sending.coupon \in Time
  BY DEF InvitesInv
<1>1. ASSUME NEW i \in Invitee, BeginSend(i) PROVE InvitesInv'
  BY <1>0, <1>1, NextStampTyped DEF BeginSend, InvitesInv, InvitesTypeOK, Sending
<1>2. ASSUME NEW i \in Invitee, CancelInvite(i) PROVE InvitesInv'
  <2>1. ListedOK([listed EXCEPT !.pending[i] = Nobody])
    BY <1>0, RowsGo
  <2>2. Take([listed EXCEPT !.pending[i] = Nobody], doing)
    BY <1>2 DEF CancelInvite
  <2>3. listed' \in G!State /\ ListedOK(listed') /\ doing' \in [Invitee -> InviteeDoing] /\ DoingOK(doing')
    BY <2>1, <2>2, OwnerTakes
  <2> QED
    BY <1>0, <1>2, <2>3 DEF CancelInvite, InvitesInv, InvitesTypeOK
<1>3. CASE RecordInvite
  <2> DEFINE put == G!Merge(listed, [G!Empty EXCEPT !.pending[sending.to] = [by |-> Lister, seq |-> NextStamp]])
  <2>1. NextStamp \in Time /\ stamp' \in Time
    BY <1>3, NextStampTyped DEF RecordInvite
  <2>2. sending \in Sending
    BY <1>0 DEF InvitesTypeOK
  <2>3. ListedOK(put)
    <3>1. sending.to \in Invitee \cup {Lister}
      BY <2>2 DEF Sending
    <3> DEFINE in == [G!Empty EXCEPT !.pending[sending.to] = [by |-> Lister, seq |-> NextStamp]]
    <3>2. in \in IP!State /\ IP!Xor(in) /\ in.repo = Nobody
      BY <2>1, <3>1 DEF G!Empty, G!NoContributors, G!NoPending, IP!State, IP!Xor, IP!Invite, Time
    <3> HIDE DEF in
    <3> QED
      BY <1>0, <3>2, MergeListed DEF in
  <2>4. Take(put, doing) /\ sending' \in {[sending EXCEPT !.step = "deliver"], NotSending}
    BY <1>3 DEF RecordInvite
  <2> HIDE DEF put
  <2>5. listed' \in G!State /\ ListedOK(listed') /\ doing' \in [Invitee -> InviteeDoing] /\ DoingOK(doing')
    BY <2>3, <2>4, OwnerTakes
  <2>6. sending' \in Sending /\ (sending'.step # "none" => sending'.coupon \in Time)
    BY <1>0, <1>3, <2>2, <2>4 DEF RecordInvite, Sending, NotSending
  <2> QED
    BY <1>0, <1>3, <2>1, <2>5, <2>6 DEF RecordInvite, InvitesInv, InvitesTypeOK
<1>4. CASE DeliverInvite
  <2>1. sending \in Sending /\ inbox \in [Invitee -> SUBSET Time]
    BY <1>0 DEF InvitesTypeOK
  <2>2. /\ UNCHANGED <<listed, stamp, holds, doing>> /\ sending' = NotSending /\ sending.step # "none"
        /\ inbox' = [inbox EXCEPT ![sending.to] = @ \cup {sending.coupon}]
    BY <1>4 DEF DeliverInvite
  <2>3. inbox' \in [Invitee -> SUBSET Time]
    BY <1>0, <2>1, <2>2
  <2>4. NotSending \in Sending /\ NotSending.step = "none"
    BY DEF Sending, NotSending
  <2> QED
    BY <1>0, <2>2, <2>3, <2>4 DEF InvitesInv, InvitesTypeOK
<1>5. CASE SendFails
  BY <1>0, <1>5 DEF SendFails, InvitesInv, InvitesTypeOK, Sending, NotSending
<1>6. CASE UnlistRepo
  <2> DEFINE in == [G!Empty EXCEPT !.removed = [id |-> Lister, seq |-> NextStamp]]
  <2>1. NextStamp \in Time /\ stamp' \in Time
    BY <1>6, NextStampTyped DEF UnlistRepo
  <2>2. in \in IP!State /\ IP!Xor(in) /\ in.repo = Nobody
    BY <2>1 DEF G!Empty, G!NoContributors, G!NoPending, IP!State, IP!Xor, IP!Remove, Time
  <2>3. Take(G!Merge(listed, in), doing)
    BY <1>6 DEF UnlistRepo
  <2> HIDE DEF in
  <2>4. ListedOK(G!Merge(listed, in))
    BY <1>0, <2>2, MergeListed
  <2>5. listed' \in G!State /\ ListedOK(listed') /\ doing' \in [Invitee -> InviteeDoing] /\ DoingOK(doing')
    BY <2>3, <2>4, OwnerTakes
  <2> QED
    BY <1>0, <1>6, <2>1, <2>5 DEF UnlistRepo, InvitesInv, InvitesTypeOK
<1>7. CASE ListRepo
  <2> DEFINE in == [G!Empty EXCEPT !.repo = [id |-> Lister, seq |-> NextStamp]]
  <2>1. NextStamp \in Time /\ stamp' \in Time
    BY <1>7, NextStampTyped DEF ListRepo
  <2>2. in \in IP!State /\ IP!Xor(in) /\ in.repo.id = Lister
    BY <2>1 DEF G!Empty, G!NoContributors, G!NoPending, IP!State, IP!Xor, IP!Entry, Time
  <2>3. Take(G!Merge(listed, in), doing)
    BY <1>7 DEF ListRepo
  <2> HIDE DEF in
  <2>4. ListedOK(G!Merge(listed, in))
    BY <1>0, <2>2, MergeListed
  <2>5. listed' \in G!State /\ ListedOK(listed') /\ doing' \in [Invitee -> InviteeDoing] /\ DoingOK(doing')
    BY <2>3, <2>4, OwnerTakes
  <2> QED
    BY <1>0, <1>7, <2>1, <2>5 DEF ListRepo, InvitesInv, InvitesTypeOK
<1> QED
  BY <1>1, <1>2, <1>3, <1>4, <1>5, <1>6, <1>7

\* The invitee's steps that leave the registry alone.
LEMMA QuietSteps ==
  ASSUME InvitesInv, NEW i \in Invitee,
         \/ \E m \in inbox[i] : BeginAccept(i, m) \/ BeginDeny(i, m)
         \/ ImportKey(i) \/ Prune(i) \/ BeginLeave(i) \/ DropSiteKey(i) \/ InviteeFails(i)
  PROVE  InvitesInv'
<1>0. /\ ListedOK(listed) /\ InvitesTypeOK /\ inbox[i] \subseteq Time
      /\ doing[i] \in InviteeDoing
  BY DEF InvitesInv, InvitesTypeOK
<1>1. SUFFICES ASSUME listed' = listed, UNCHANGED <<stamp, sending>>,
                      inbox' \in [Invitee -> SUBSET Time], holds' \subseteq Invitee,
                      NEW x \in InviteeDoing, doing' = [doing EXCEPT ![i] = x],
                      x.step = "grant" => x.coupon \in Time,
                      x.step = "import" => x.reached \/ x.cut
               PROVE  InvitesInv'
  <2>1. ASSUME NEW m \in inbox[i], BeginAccept(i, m) PROVE InvitesInv'
    <3> DEFINE x == [AtRest EXCEPT !.step = IF Granted(i) THEN "import" ELSE "grant",
                                   !.coupon = m, !.reached = Granted(i)]
    <3>1. doing' = [doing EXCEPT ![i] = x] /\ UNCHANGED <<listed, stamp, inbox, holds, sending>>
      BY <2>1 DEF BeginAccept, Quietly
    <3>2. m \in Time /\ Granted(i) \in BOOLEAN
      BY <1>0 DEF Granted
    <3>3. /\ x \in InviteeDoing
          /\ x.step = "grant" => x.coupon \in Time
          /\ x.step = "import" => x.reached \/ x.cut
      <4> HIDE DEF Granted
      <4> QED
        BY <3>2 DEF AtRest, InviteeDoing
    <3> HIDE DEF x
    <3> QED
      BY <1>0, <1>1, <3>1, <3>3 DEF InvitesTypeOK
  <2>2. ASSUME NEW m \in inbox[i], BeginDeny(i, m) PROVE InvitesInv'
    <3> DEFINE x == [AtRest EXCEPT !.step = "decline", !.coupon = m]
    <3>1. doing' = [doing EXCEPT ![i] = x] /\ UNCHANGED <<listed, stamp, inbox, holds, sending>>
      BY <2>2 DEF BeginDeny, Quietly
    <3>2. x \in InviteeDoing /\ x.step = "decline"
      BY <1>0 DEF AtRest, InviteeDoing
    <3> HIDE DEF x
    <3> QED
      BY <1>0, <1>1, <3>1, <3>2 DEF InvitesTypeOK
  <2>3. CASE ImportKey(i)
    BY <1>0, <1>1, <2>3, Turns DEF ImportKey, Quietly, InvitesTypeOK, InviteeDoing
  <2>4. CASE Prune(i)
    BY <1>0, <1>1, <2>4, Turns DEF Prune, Quietly, InvitesTypeOK, AtRest
  <2>5. CASE BeginLeave(i)
    <3> DEFINE x == [AtRest EXCEPT !.step = "remove grant"]
    <3>1. doing' = [doing EXCEPT ![i] = x] /\ UNCHANGED <<listed, stamp, inbox, holds, sending>>
      BY <2>5 DEF BeginLeave, Quietly
    <3>2. x \in InviteeDoing /\ x.step = "remove grant"
      BY DEF AtRest, InviteeDoing
    <3> HIDE DEF x
    <3> QED
      BY <1>0, <1>1, <3>1, <3>2 DEF InvitesTypeOK
  <2>6. CASE DropSiteKey(i)
    BY <1>0, <1>1, <2>6, Turns DEF DropSiteKey, Quietly, InvitesTypeOK, AtRest
  <2>7. CASE InviteeFails(i)
    BY <1>0, <1>1, <2>7, Turns DEF InviteeFails, Quietly, InvitesTypeOK, AtRest
  <2> QED
    BY <2>1, <2>2, <2>3, <2>4, <2>5, <2>6, <2>7
<1>2. doing' \in [Invitee -> InviteeDoing] /\ DoingOK(doing')
  BY <1>1, MovesOn
<1> QED
  BY <1>0, <1>1, <1>2 DEF InvitesInv, InvitesTypeOK

\* The invitee's steps that the registry takes: the grant, the decline, leaving.
LEMMA RegistrySteps ==
  ASSUME InvitesInv, NEW i \in Invitee,
         PutGrant(i) \/ PutGrantLost(i) \/ Decline(i) \/ RemoveGrant(i)
  PROVE  InvitesInv'
<1>0. /\ ListedOK(listed) /\ InvitesTypeOK /\ DoingOK(doing)
      /\ doing \in [Invitee -> InviteeDoing]
  BY DEF InvitesInv, InvitesTypeOK
<1>1. SUFFICES ASSUME NEW s, ListedOK(s), NEW x \in InviteeDoing, NEW d,
                      d = [doing EXCEPT ![i] = x], Take(s, d),
                      UNCHANGED <<stamp, inbox, holds, sending>>, x.step # "grant",
                      x.step = "import" => s.contributors[i] # 0 \/ s.repo = Nobody
               PROVE  InvitesInv'
  <2>1. ASSUME PutGrant(i) \/ PutGrantLost(i) PROVE InvitesInv'
    <3> DEFINE s == G!Merge(listed, [G!Empty EXCEPT !.contributors[i] = doing[i].coupon])
    <3>1. doing[i].coupon \in Time
      BY <1>0, <2>1 DEF DoingOK, PutGrant, PutGrantLost
    <3>2. ListedOK(s) /\ (s.contributors[i] # 0 \/ s.repo = Nobody)
      BY <1>0, <3>1, GrantShows
    <3> HIDE DEF s
    <3>3. CASE PutGrant(i)
      <4>1. Take(s, To(i, "import")) /\ UNCHANGED <<stamp, inbox, holds, sending>>
        BY <3>3 DEF PutGrant, s
      <4> QED
        BY <1>1, <3>2, <4>1, Turns DEF InviteeDoing
    <3>4. CASE PutGrantLost(i)
      <4>1. Take(s, Rest(i)) /\ UNCHANGED <<stamp, inbox, holds, sending>>
        BY <3>4 DEF PutGrantLost, s
      <4> QED
        BY <1>1, <3>2, <4>1, Turns DEF AtRest
    <3> QED
      BY <2>1, <3>3, <3>4
  <2>2. CASE Decline(i)
    <3> DEFINE s == [listed EXCEPT !.pending[i] = Nobody]
    <3>1. ListedOK(s)
      BY <1>0, RowsGo
    <3>2. Take(s, To(i, "prune")) /\ UNCHANGED <<stamp, inbox, holds, sending>>
      BY <2>2 DEF Decline
    <3> HIDE DEF s
    <3>3. [doing[i] EXCEPT !.step = "prune"].step = "prune"
      BY <1>0 DEF InviteeDoing
    <3> QED
      BY <1>1, <3>1, <3>2, <3>3, Turns
  <2>3. CASE RemoveGrant(i)
    <3> DEFINE s == [listed EXCEPT !.contributors[i] = 0]
    <3>1. ListedOK(s)
      BY <1>0, RowsGo
    <3>2. Take(s, To(i, "drop key")) /\ UNCHANGED <<stamp, inbox, holds, sending>>
      BY <2>3 DEF RemoveGrant
    <3> HIDE DEF s
    <3>3. [doing[i] EXCEPT !.step = "drop key"].step = "drop key"
      BY <1>0 DEF InviteeDoing
    <3> QED
      BY <1>1, <3>1, <3>2, <3>3, Turns
  <2> QED
    BY <2>1, <2>2, <2>3
<1>2. d \in [Invitee -> InviteeDoing] /\ \A j \in Invitee : d[j] = IF j = i THEN x ELSE doing[j]
  BY <1>0, <1>1
<1>3. \A j \in Invitee :
        /\ d[j].step = "grant" => d[j].coupon \in Time
        /\ d[j].step = "import" => d[j].reached \/ d[j].cut \/ s.contributors[j] # 0 \/ s.repo = Nobody
  BY <1>0, <1>1, <1>2 DEF DoingOK
<1>4. listed' = s /\ doing' \in [Invitee -> InviteeDoing] /\ DoingOK(doing')
  BY <1>1, <1>2, <1>3, Takes
<1>5. s \in G!State
  BY <1>1, InvitesStates DEF ListedOK, IP!Good
<1> QED
  BY <1>0, <1>1, <1>4, <1>5 DEF InvitesInv, InvitesTypeOK

LEMMA InvitesInvInit == InvitesInit => InvitesInv
<1> SUFFICES ASSUME InvitesInit PROVE InvitesInv
  OBVIOUS
<1>1. 1 \in Time
  BY InvitesAssumption DEF Time
<1>2. ListedOK(listed)
  BY <1>1 DEF InvitesInit, ListedOK, IP!Good, IP!State, IP!Entry, IP!Xor, IP!Disjoint, IP!Blank,
              G!Empty, G!NoContributors, G!NoPending, Time
<1>3. AtRest \in InviteeDoing /\ NotSending \in Sending /\ NotSending.step = "none"
  BY DEF AtRest, InviteeDoing, NotSending, Sending
<1>4. DoingOK(doing)
  BY DEF InvitesInit, DoingOK, AtRest
<1> QED
  BY <1>1, <1>2, <1>3, <1>4, InvitesStates
     DEF InvitesInit, InvitesInv, InvitesTypeOK, ListedOK, IP!Good

LEMMA InvitesInvStep == InvitesInv /\ [InvitesNext]_inviteVars => InvitesInv'
<1> SUFFICES ASSUME InvitesInv, [InvitesNext]_inviteVars PROVE InvitesInv'
  OBVIOUS
<1>1. CASE UNCHANGED inviteVars
  BY <1>1 DEF inviteVars, InvitesInv, InvitesTypeOK
<1>2. CASE InvitesNext
  BY <1>2, OwnerSteps, QuietSteps, RegistrySteps DEF InvitesNext
<1> QED
  BY <1>1, <1>2

LEMMA InvitesInvHolds == InvitesSpec => []InvitesInv
BY InvitesInvInit, InvitesInvStep, PTL DEF InvitesSpec

\* Types (repo-invite.ts, registry contract): whatever the invitee, the owner and
\* the registry do.
THEOREM InvitesTypeCorrect == InvitesSpec => []InvitesTypeOK
<1>1. InvitesInv => InvitesTypeOK
  BY DEF InvitesInv
<1> QED
  BY <1>1, InvitesInvHolds, PTL

\* acceptRepoInvite, for any number of invitees and any clock: who imports the
\* site key was shown as a contributor since the accept began, unless the
\* repository was off the registry meanwhile.
THEOREM KeyFollowsGrantAlways == InvitesSpec => KeyFollowsGrant
<1>1. InvitesInv /\ [InvitesNext]_inviteVars =>
        [\A i \in Invitee : i \in holds' \ holds => doing[i].reached \/ doing[i].cut]_inviteVars
  <2> SUFFICES ASSUME InvitesInv, InvitesNext, NEW i \in Invitee, i \in holds' \ holds
               PROVE  doing[i].reached \/ doing[i].cut
    OBVIOUS
  <2>1. ImportKey(i)
    BY DEF InvitesNext, BeginSend, CancelInvite, RecordInvite, DeliverInvite, SendFails, UnlistRepo,
           ListRepo, BeginAccept, BeginDeny, PutGrant, PutGrantLost, ImportKey, Decline, Prune,
           BeginLeave, RemoveGrant, DropSiteKey, InviteeFails
  <2> QED
    BY <2>1 DEF ImportKey, InvitesInv, DoingOK
<1> QED
  BY <1>1, InvitesInvHolds, PTL DEF InvitesSpec, KeyFollowsGrant
-----------------------------------------------------------------------------
(***************************************************************************)
(* The life of a repository.                                               *)
(***************************************************************************)
LP == INSTANCE ForgeRegistryProofs WITH
        Replica <- {Self}, Identity <- {Self}, SiteKeyHolder <- {Self},
        UpsertSeq <- 1..MaxTime, RemoveSeq <- 1..(MaxTime + 1), GrantSeq <- {1},
        StrayTo <- {}, StraySeq <- {}, None <- Unlisted, replica <- [r \in {Self} |-> registry]

LEMMA LifeRegistry ==
  /\ Unlisted \notin LP!Entry \cup LP!Remove \cup LP!Invite \cup {Self}
  /\ 1..MaxTime \subseteq Nat /\ 1..(MaxTime + 1) \subseteq Nat /\ {1} \subseteq Nat \ {0}
BY LifeAssumption, UnlistedAssumption
   DEF R!Entry, R!Remove, R!Invite, LP!Entry, LP!Remove, LP!Invite

LEMMA LifeMerge ==
  ASSUME NEW s, NEW in
  PROVE  R!Merge(s, in) = LP!Merge(s, in)
<1>1. \A u, rm : R!MergeRemoved(u, rm) = LP!MergeRemoved(u, rm)
  BY DEF R!MergeRemoved, R!Unlist, R!NoContributors, R!NoPending,
         LP!MergeRemoved, LP!Unlist, LP!NoContributors, LP!NoPending
<1>2. \A u, e : R!MergeRepo(u, e) = LP!MergeRepo(u, e)
  BY DEF R!MergeRepo, R!MayList, R!TombstoneBlocks, R!List,
         LP!MergeRepo, LP!MayList, LP!TombstoneBlocks, LP!List
<1>3. \A u : R!MergeContributors(u, in) = LP!MergeContributors(u, in)
  <2>1. \A u, c : R!Granted(u, in, c) <=> LP!Granted(u, in, c)
    BY DEF R!Granted, R!ValidContributorAdd, LP!Granted, LP!ValidContributorAdd
  <2>2. \A u : R!NewerGrants(u, in) = LP!NewerGrants(u, in)
    BY <2>1 DEF R!NewerGrants, LP!NewerGrants
  <2>3. \A u, n : R!TakeGrants(u, in, n) = LP!TakeGrants(u, in, n)
    BY DEF R!TakeGrants, LP!TakeGrants
  <2> QED
    BY <2>1, <2>2, <2>3 DEF R!MergeContributors, LP!MergeContributors
<1>4. \A u : R!MergePending(u, in) = LP!MergePending(u, in)
  BY DEF R!MergePending, R!Invited, R!ValidPendingAdd,
         LP!MergePending, LP!Invited, LP!ValidPendingAdd
<1> QED
  BY <1>1, <1>2, <1>3, <1>4 DEF R!Merge, LP!Merge

LEMMA LifeStates == R!State = LP!State
BY DEF R!State, R!Entry, R!Remove, R!Invite, LP!State, LP!Entry, LP!Remove, LP!Invite

Copy(s) == LP!Good(s) /\ s.hosted

LEMMA CopyVersion ==
  ASSUME NEW s, Copy(s)
  PROVE  /\ LP!Version(s) \in Int
         /\ s.repo # Unlisted => /\ s.repo.id = Self
                                 /\ s.repo.seq \in 1..MaxTime
                                 /\ LP!Version(s) = s.repo.seq
<1>1. LP!Version(s) \in Int
  BY LifeRegistry, LP!VersionType DEF Copy
<1> QED
  BY <1>1 DEF Copy, LP!Good, LP!State, LP!Entry, LP!Version

\* The registry never goes back, whatever a tab puts.
LEMMA ListingTaken ==
  ASSUME Copy(registry), NEW seq \in 1..MaxTime, TakeListing(seq)
  PROVE  Copy(registry') /\ LP!Version(registry') >= LP!Version(registry)
<1> DEFINE in == [R!Empty EXCEPT !.repo = [id |-> Self, seq |-> seq]]
<1>1. in \in LP!State /\ LP!Xor(in)
  BY DEF R!Empty, R!NoContributors, R!NoPending, LP!State, LP!Entry, LP!Xor
<1>2. registry' = LP!Merge(registry, in)
  BY LifeMerge DEF TakeListing
<1> HIDE DEF in
<1>3. Copy(registry') /\ LP!Advances(registry, registry')
  BY <1>1, <1>2, LifeRegistry, LP!MergeGood DEF Copy
<1> QED
  BY <1>3, CopyVersion DEF LP!Advances, LP!Version

\* A removal leaves a listing only where that is as new as the removal.
LEMMA RemovalTaken ==
  ASSUME Copy(registry), NEW seq \in 1..(MaxTime + 1), TakeRemoval(seq)
  PROVE  /\ Copy(registry') /\ LP!Version(registry') >= LP!Version(registry)
         /\ LP!Version(registry') >= seq
<1> DEFINE in == [R!Empty EXCEPT !.removed = [id |-> Self, seq |-> seq]]
           o == [id |-> Self, seq |-> seq]
           s1 == LP!MergeRemoved(registry, o)
<1>1. /\ in \in LP!State /\ LP!Xor(in) /\ in.removed = o /\ in.repo = Unlisted
      /\ o \in LP!Remove
  BY DEF R!Empty, R!NoContributors, R!NoPending, LP!State, LP!Remove, LP!Xor
<1>2. registry' = LP!Merge(registry, in)
  BY LifeMerge DEF TakeRemoval
<1>3. Copy(registry') /\ LP!Advances(registry, registry')
  <2> HIDE DEF in
  <2> QED
    BY <1>1, <1>2, LifeRegistry, LP!MergeGood DEF Copy
<1>4. LP!Version(registry') >= LP!Version(registry)
  BY <1>3, CopyVersion DEF LP!Advances, LP!Version
<1>5. Copy(s1) /\ LP!Version(s1) >= seq
  <2>1. Copy(s1)
    BY <1>1, LifeRegistry, LP!MergeRemovedGood DEF Copy
  <2>2. /\ registry.repo # Unlisted => registry.repo.id = Self /\ registry.repo.seq \in Nat
        /\ registry.removed # Unlisted => registry.removed.seq \in Nat
        /\ registry.repo = Unlisted \/ registry.removed = Unlisted
        /\ registry \in LP!State
    BY LifeRegistry DEF Copy, LP!Good, LP!Xor, LP!State, LP!Entry, LP!Remove
  <2>3. o # Unlisted /\ o.seq = seq /\ o.id = Self /\ seq \in Nat
    BY <1>1, LifeRegistry
  <2> HIDE DEF o
  <2>4. CASE registry.removed # Unlisted /\ ~(seq > registry.removed.seq)
    <3>1. s1 = registry
      BY <2>3, <2>4 DEF LP!MergeRemoved
    <3> QED
      BY <2>1, <2>2, <2>3, <2>4, <3>1 DEF LP!Version
  <2>5. CASE /\ registry.removed = Unlisted \/ seq > registry.removed.seq
             /\ registry.repo # Unlisted /\ seq > registry.repo.seq
    <3>1. s1 = LP!Unlist(registry, o)
      BY <2>2, <2>3, <2>5 DEF LP!MergeRemoved
    <3>2. s1.repo = Unlisted /\ s1.removed = o
      BY <2>2, <3>1 DEF LP!Unlist, LP!State
    <3> QED
      BY <2>1, <2>3, <3>2 DEF LP!Version
  <2>6. CASE registry.repo # Unlisted /\ ~(seq > registry.repo.seq)
    <3>1. s1 = registry
      BY <2>2, <2>3, <2>6 DEF LP!MergeRemoved
    <3> QED
      BY <2>1, <2>2, <2>3, <2>6, <3>1 DEF LP!Version
  <2>7. CASE registry.repo = Unlisted /\ (registry.removed = Unlisted \/ seq > registry.removed.seq)
    <3>1. s1 = [registry EXCEPT !.removed = o]
      BY <2>3, <2>7 DEF LP!MergeRemoved
    <3>2. s1.repo = Unlisted /\ s1.removed = o
      BY <2>2, <2>7, <3>1 DEF LP!State
    <3> QED
      BY <2>1, <2>3, <3>2 DEF LP!Version
  <2> QED
    BY <2>4, <2>5, <2>6, <2>7
<1>6. registry'.repo = s1.repo /\ registry'.removed = s1.removed
  <2> DEFINE s3 == LP!MergeContributors(s1, in)
  <2>1. registry' = LP!MergePending(s3, in)
    <3> HIDE DEF in
    <3> QED
      BY <1>1, <1>2 DEF LP!Merge, LP!MergeRepo
  <2> HIDE DEF in, o, s1
  <2>3. LP!Good(s3) /\ s3.hosted /\ s3.repo = s1.repo /\ s3.removed = s1.removed
    BY <1>1, <1>5, LifeRegistry, LP!MergeContributorsGood DEF Copy
  <2> HIDE DEF s3
  <2> QED
    BY <1>1, <2>1, <2>3, LifeRegistry, LP!MergePendingGood
<1> QED
  BY <1>3, <1>4, <1>5, <1>6 DEF LP!Version

\* What the step of a chore says of where it came from, given the deletion mark and
\* what the registry says of the prefix.
ChoreOK(c, del, version) ==
  /\ c \in Chore
  /\ c.marked => del
  /\ c.step = "put listing" => c.seq \in 1..MaxTime
  /\ c.step \in {"look", "site down", "pages off"} => c.does \in {"disable", "unregister", "delete"}
  /\ c.does \in {"unregister", "delete"} => c.seq \in 1..(MaxTime + 1)
  /\ c.step = "mark" => c.does = "delete"
  /\ c.step = "remove" => c.does = "unregister" \/ (c.does = "delete" /\ c.marked)
  /\ c.step = "drop key" => del /\ version >= c.seq

LifeInv ==
  /\ LifeTypeOK /\ Copy(registry)
  /\ warm \in [Window -> (0..MaxTime) \cup {Cold}]
  /\ \A w \in Window : ChoreOK(chore[w], deleted, LP!Version(registry))

LEMMA NoEarlier ==
  ASSUME NEW a \in Int, NEW b \in Int, NEW c \in Int, a >= b, b >= c PROVE a >= c
OBVIOUS

\* A step of one tab that takes nothing back.
LEMMA TabMoves ==
  ASSUME LifeInv, NEW w \in Window, NEW x, chore' = [chore EXCEPT ![w] = x],
         Copy(registry'), LP!Version(registry') >= LP!Version(registry),
         deleted' \in BOOLEAN, deleted => deleted', key' \in BOOLEAN, siteMeta' \in Switch,
         siteMirror' \in Switch, site' \in {"none", "live", "down"}, clock' \in 0..MaxTime,
         warm' \in [Window -> (0..MaxTime) \cup {Cold}], stateCopy' \in [Window -> StateCopies],
         ChoreOK(x, deleted', LP!Version(registry'))
  PROVE  LifeInv'
<1>1. LP!Version(registry) \in Int /\ LP!Version(registry') \in Int
  BY CopyVersion DEF LifeInv
<1>2. chore \in [Window -> Chore] /\ x \in Chore
  BY DEF LifeInv, LifeTypeOK, ChoreOK
<1>3. chore' \in [Window -> Chore] /\ \A v \in Window : chore'[v] = IF v = w THEN x ELSE chore[v]
  BY <1>2
<1>4. ASSUME NEW v \in Window PROVE ChoreOK(chore'[v], deleted', LP!Version(registry'))
  <2>1. CASE v = w
    BY <1>3, <2>1
  <2>2. CASE v # w
    <3>1. ChoreOK(chore[v], deleted, LP!Version(registry)) /\ chore'[v] = chore[v]
      BY <1>3, <2>2 DEF LifeInv
    <3>2. chore[v].seq \in Int
      BY <1>2, LifeAssumption DEF Chore
    <3>3. chore[v].step = "drop key" => LP!Version(registry') >= chore[v].seq
      <4>1. chore[v].step = "drop key" => LP!Version(registry) >= chore[v].seq
        BY <3>1 DEF ChoreOK
      <4> QED
        BY <1>1, <3>2, <4>1, NoEarlier
    <3>4. deleted => deleted'
      OBVIOUS
    <3> QED
      BY <3>1, <3>3, <3>4 DEF ChoreOK
  <2> QED
    BY <2>1, <2>2
<1>5. registry' \in R!State
  BY LifeStates DEF Copy, LP!Good
<1>6. warm' \in [Window -> 0..Cold]
  BY LifeAssumption DEF Cold
<1> QED
  BY <1>3, <1>4, <1>5, <1>6 DEF LifeInv, LifeTypeOK

\* The chores of a tab, as values.
LEMMA ChoreMoves ==
  ASSUME LifeInv, NEW w \in Window
  PROVE  /\ chore[w] \in Chore /\ NoChore \in Chore
         /\ \A step \in ChoreStep :
              /\ [chore[w] EXCEPT !.step = step] \in Chore
              /\ GoTo(w, step) <=> chore' = [chore EXCEPT ![w] = [chore[w] EXCEPT !.step = step]]
         /\ Stop(w) <=> chore' = [chore EXCEPT ![w] = NoChore]
<1>1. chore \in [Window -> Chore] /\ chore[w] \in Chore
  BY DEF LifeInv, LifeTypeOK
<1>2. NoChore \in Chore
  BY LifeAssumption DEF NoChore, Chore, ChoreStep
<1>3. ASSUME NEW step \in ChoreStep PROVE [chore[w] EXCEPT !.step = step] \in Chore
  BY <1>1 DEF Chore
<1> QED
  BY <1>1, <1>2, <1>3 DEF GoTo, Stop

LEMMA NoChoreOK == ASSUME NEW del, NEW version PROVE ChoreOK(NoChore, del, version)
BY LifeAssumption DEF ChoreOK, NoChore, Chore, ChoreStep

LEMMA StepOK ==
  ASSUME NEW c \in Chore, NEW step \in ChoreStep, NEW del, NEW version, NEW newer,
         ChoreOK(c, del, version),
         step = "put listing" => c.seq \in 1..MaxTime,
         step \in {"look", "site down", "pages off"} => c.does \in {"disable", "unregister", "delete"},
         step = "mark" => c.does = "delete",
         step = "remove" => c.does = "unregister" \/ (c.does = "delete" /\ c.marked),
         step = "drop key" => del /\ newer >= c.seq
  PROVE  ChoreOK([c EXCEPT !.step = step], del, newer)
<1> DEFINE x == [c EXCEPT !.step = step]
<1>1. /\ x \in Chore /\ x.step = step /\ x.does = c.does /\ x.seq = c.seq /\ x.marked = c.marked
  BY DEF Chore
<1> HIDE DEF x
<1> QED
  BY <1>1 DEF ChoreOK, x

\* What Proceed comes to, once the Pages are down.
LEMMA Proceeds ==
  ASSUME LifeInv, NEW w \in Window, chore[w].step \in {"look", "pages off"}, Proceed(w),
         NEW newer
  PROVE  \E x : chore' = [chore EXCEPT ![w] = x] /\ ChoreOK(x, deleted, newer)
<1>1. ChoreOK(chore[w], deleted, LP!Version(registry)) /\ chore[w] \in Chore
  BY DEF LifeInv, LifeTypeOK
<1>2. chore[w].does \in {"disable", "unregister", "delete"}
  BY <1>1 DEF ChoreOK
<1>3. CASE chore[w].does = "disable"
  <2>1. Stop(w)
    BY <1>3 DEF Proceed, AfterPages
  <2> QED
    BY <2>1, NoChoreOK DEF Stop
<1>4. CASE chore[w].does = "delete" /\ ~chore[w].marked
  <2>1. GoTo(w, "mark")
    BY <1>4 DEF Proceed, AfterPages
  <2>2. ChoreOK([chore[w] EXCEPT !.step = "mark"], deleted, newer)
    BY <1>1, <1>4, StepOK DEF ChoreStep
  <2> QED
    BY <2>1, <2>2, ChoreMoves DEF ChoreStep
<1>5. CASE chore[w].does = "unregister" \/ (chore[w].does = "delete" /\ chore[w].marked)
  <2>1. GoTo(w, "remove")
    BY <1>5 DEF Proceed, AfterPages
  <2>2. ChoreOK([chore[w] EXCEPT !.step = "remove"], deleted, newer)
    BY <1>1, <1>5, StepOK DEF ChoreStep
  <2> QED
    BY <2>1, <2>2, ChoreMoves DEF ChoreStep
<1> QED
  BY <1>1, <1>2, <1>3, <1>4, <1>5

WarmOK == warm \in [Window -> (0..MaxTime) \cup {Cold}]
CopiesOK == stateCopy \in [Window -> StateCopies]

LEMMA LifeFacts ==
  ASSUME LifeInv, NEW w \in Window
  PROVE  /\ Copy(registry) /\ deleted \in BOOLEAN /\ key \in BOOLEAN /\ siteMeta \in Switch
         /\ siteMirror \in Switch /\ site \in {"none", "live", "down"} /\ clock \in 0..MaxTime
         /\ WarmOK /\ CopiesOK /\ chore \in [Window -> Chore] /\ chore[w] \in Chore
         /\ chore = [chore EXCEPT ![w] = chore[w]]
         /\ ChoreOK(chore[w], deleted, LP!Version(registry))
         /\ ListedSeq \in 0..MaxTime
<1>1. ListedSeq \in 0..MaxTime
  BY CopyVersion, LifeAssumption DEF LifeInv, ListedSeq
<1>2. chore \in [Window -> Chore]
  BY DEF LifeInv, LifeTypeOK
<1>3. chore[w] \in Chore /\ chore = [chore EXCEPT ![w] = chore[w]]
  BY <1>2
<1> QED
  BY <1>1, <1>2, <1>3 DEF LifeInv, LifeTypeOK, WarmOK, CopiesOK

\* A step of one tab that leaves the registry and the clock alone.
LEMMA TabMovesOn ==
  ASSUME LifeInv, NEW w \in Window, NEW x, chore' = [chore EXCEPT ![w] = x],
         registry' = registry, clock' = clock,
         deleted' \in BOOLEAN, deleted => deleted', key' \in BOOLEAN, siteMeta' \in Switch,
         siteMirror' \in Switch, site' \in {"none", "live", "down"}, WarmOK', CopiesOK',
         ChoreOK(x, deleted', LP!Version(registry))
  PROVE  LifeInv'
<1>1. Copy(registry) /\ LP!Version(registry) \in Int
  BY CopyVersion DEF LifeInv
<1>2. Copy(registry') /\ LP!Version(registry') >= LP!Version(registry)
  BY <1>1
<1>3. clock' \in 0..MaxTime
  BY LifeFacts
<1> QED
  BY <1>2, <1>3, TabMoves DEF WarmOK, CopiesOK

\* What a tab may have cached.
LEMMA Warms ==
  ASSUME LifeInv, NEW w \in Window, NEW v \in (0..MaxTime) \cup {Cold},
         warm' = warm \/ warm' = [warm EXCEPT ![w] = v]
  PROVE  WarmOK'
BY DEF LifeInv, WarmOK

LEMMA CopiesKept ==
  ASSUME LifeInv, NEW w \in Window, NEW c \in StateCopies,
         stateCopy' = stateCopy \/ stateCopy' = [stateCopy EXCEPT ![w] = c]
  PROVE  CopiesOK'
BY DEF LifeInv, LifeTypeOK, CopiesOK

\* A Put of the pages extension, and one whose answer does not come.
LEMMA PagesWritten ==
  ASSUME LifeInv, NEW w \in Window, NEW to \in Switch, NEW left \in StateCopies,
         PagesPut(w, to, left)
  PROVE  siteMeta' \in Switch /\ CopiesOK'
<1>1. siteMeta \in StateCopies /\ siteMeta \in Switch /\ stateCopy \in [Window -> StateCopies]
  BY DEF LifeInv, LifeTypeOK, StateCopies
<1>2. CASE /\ siteMeta' = to
           /\ stateCopy' = [v \in Window |-> IF v = w THEN left
                                           ELSE IF stateCopy[v] = "newest" THEN siteMeta
                                           ELSE stateCopy[v]]
  BY <1>1, <1>2 DEF CopiesOK
<1>3. CASE siteMeta' = siteMeta /\ stateCopy' = [stateCopy EXCEPT ![w] = left]
  BY <1>1, <1>3, CopiesKept
<1> QED
  BY <1>2, <1>3 DEF PagesPut

LEMMA PagesWriteEnds ==
  ASSUME LifeInv, NEW w \in Window, NEW to \in Switch,
         PagesPut(w, to, "unread") \/ PagesPutFails(w, to)
  PROVE  siteMeta' \in Switch /\ CopiesOK'
<1>1. siteMeta \in Switch /\ CopiesOK
  BY LifeFacts
<1>2. CASE PagesPut(w, to, "unread")
  BY <1>2, PagesWritten DEF StateCopies
<1>3. CASE UNCHANGED <<siteMeta, stateCopy>>
  BY <1>1, <1>3 DEF CopiesOK
<1>4. CASE PagesPut(w, to, IF stateCopy[w] \in Switch THEN stateCopy[w] ELSE siteMeta)
  <2>1. (IF stateCopy[w] \in Switch THEN stateCopy[w] ELSE siteMeta) \in StateCopies
    BY <1>1 DEF StateCopies
  <2> QED
    BY <1>4, <2>1, PagesWritten
<1> QED
  BY <1>2, <1>3, <1>4 DEF PagesPutFails

LEMMA CacheSteps ==
  ASSUME LifeInv, NEW w \in Window, Refresh(w) \/ Invalidate(w) \/ Copies(w) \/ Drops(w)
  PROVE  LifeInv'
<1>1. WarmOK'
  BY LifeFacts, Warms DEF Refresh, Invalidate, Copies, Drops, WarmOK
<1>2. CopiesOK'
  <2>1. "unread" \in StateCopies /\ "newest" \in StateCopies
    BY DEF StateCopies
  <2>2. \/ stateCopy' = stateCopy
        \/ stateCopy' = [stateCopy EXCEPT ![w] = "unread"]
        \/ stateCopy' = [stateCopy EXCEPT ![w] = "newest"]
    BY DEF Refresh, Invalidate, Copies, Drops
  <2> QED
    BY <2>1, <2>2, CopiesKept
<1>3. UNCHANGED <<registry, deleted, siteMeta, siteMirror, site, key, clock, chore>>
  BY DEF Refresh, Invalidate, Copies, Drops
<1> QED
  BY <1>1, <1>2, <1>3, LifeFacts, TabMovesOn

\* A tab stops.
LEMMA Stops ==
  ASSUME LifeInv, NEW w \in Window, Stop(w), registry' = registry, clock' = clock,
         deleted' \in BOOLEAN, deleted => deleted', key' \in BOOLEAN, siteMeta' \in Switch,
         siteMirror' \in Switch, site' \in {"none", "live", "down"}, WarmOK', CopiesOK'
  PROVE  LifeInv'
BY ChoreMoves, NoChoreOK, TabMovesOn

LEMMA CloseSteps ==
  ASSUME LifeInv, NEW w \in Window, CloseWindow(w)
  PROVE  LifeInv'
<1>1. WarmOK' /\ Stop(w) /\ UNCHANGED <<registry, deleted, siteMeta, siteMirror, site, key, clock>>
  BY LifeFacts DEF CloseWindow, WarmOK
<1>2. CopiesOK'
  BY CopiesKept DEF CloseWindow, StateCopies
<1> QED
  BY <1>1, <1>2, LifeFacts, Stops

Does == {"register", "publish", "disable", "unregister", "delete"}

\* What a chore begins with.
BeginOK(does, step, seq) ==
  /\ step = "put listing" => seq \in 1..MaxTime
  /\ step \in {"put listing", "site up", "look"}
  /\ step = "look" => does \in {"disable", "unregister", "delete"}
  /\ does \in {"unregister", "delete"} => seq \in 1..(MaxTime + 1)

LEMMA Begins ==
  ASSUME NEW does \in Does, NEW step \in ChoreStep, NEW seq \in 0..(MaxTime + 1),
         NEW del, NEW version, BeginOK(does, step, seq)
  PROVE  ChoreOK([NoChore EXCEPT !.does = does, !.step = step, !.seq = seq], del, version)
<1> DEFINE x == [NoChore EXCEPT !.does = does, !.step = step, !.seq = seq]
<1>1. x \in Chore /\ x.does = does /\ x.step = step /\ x.seq = seq /\ x.marked = FALSE
  BY DEF Chore, NoChore, Does
<1> HIDE DEF x
<1> QED
  BY <1>1 DEF ChoreOK, BeginOK, x

LEMMA BeginSteps ==
  ASSUME LifeInv, NEW w \in Window,
         BeginRegister(w) \/ BeginPages(w) \/ BeginDisable(w)
         \/ \E does \in {"unregister", "delete"} : BeginRemoval(w, does)
  PROVE  LifeInv'
<1>0. 0 \in 0..(MaxTime + 1) /\ 1 \in 1..(MaxTime + 1) /\ 1 \in 0..(MaxTime + 1)
  BY LifeAssumption
<1>1. CASE BeginRegister(w)
  <2>1. clock \in 0..MaxTime /\ clock < MaxTime /\ clock' = clock + 1
    BY <1>1, LifeFacts DEF BeginRegister
  <2>2. clock' \in 1..MaxTime /\ clock' \in 0..MaxTime /\ clock' \in 0..(MaxTime + 1)
    BY <2>1, LifeAssumption
  <2> DEFINE x == [NoChore EXCEPT !.does = "register", !.step = "put listing", !.seq = clock']
  <2>3. /\ chore' = [chore EXCEPT ![w] = x]
        /\ UNCHANGED <<registry, deleted, siteMeta, siteMirror, site, key, warm, stateCopy>>
    BY <1>1 DEF BeginRegister, BeginChore
  <2>4. ChoreOK(x, deleted, LP!Version(registry))
    BY <2>2, Begins DEF ChoreStep, Does, BeginOK
  <2> HIDE DEF x
  <2>5. Copy(registry') /\ LP!Version(registry') >= LP!Version(registry)
    BY <2>3, CopyVersion DEF LifeInv
  <2>6. ChoreOK(x, deleted', LP!Version(registry'))
    BY <2>3, <2>4
  <2> QED
    BY <2>2, <2>3, <2>5, <2>6, LifeFacts, TabMoves DEF WarmOK, CopiesOK
<1>2. CASE BeginPages(w)
  <2> DEFINE x == [NoChore EXCEPT !.does = "publish", !.step = "site up", !.seq = 0]
  <2>1. /\ chore' = [chore EXCEPT ![w] = x]
        /\ UNCHANGED <<registry, deleted, siteMeta, siteMirror, site, key, clock, warm, stateCopy>>
    BY <1>2 DEF BeginPages, BeginChore
  <2>2. ChoreOK(x, deleted', LP!Version(registry))
    BY <1>0, Begins DEF ChoreStep, Does, BeginOK
  <2> HIDE DEF x
  <2> QED
    BY <2>1, <2>2, LifeFacts, TabMovesOn DEF WarmOK, CopiesOK
<1>3. CASE BeginDisable(w)
  <2> DEFINE x == [NoChore EXCEPT !.does = "disable", !.step = "look", !.seq = 0]
  <2>1. /\ chore' = [chore EXCEPT ![w] = x]
        /\ UNCHANGED <<registry, deleted, siteMeta, siteMirror, site, key, clock, warm, stateCopy>>
    BY <1>3 DEF BeginDisable, BeginChore
  <2>2. ChoreOK(x, deleted', LP!Version(registry))
    BY <1>0, Begins DEF ChoreStep, Does, BeginOK
  <2> HIDE DEF x
  <2> QED
    BY <2>1, <2>2, LifeFacts, TabMovesOn DEF WarmOK, CopiesOK
<1>4. ASSUME NEW does \in {"unregister", "delete"}, BeginRemoval(w, does) PROVE LifeInv'
  <2>1. warm \in [Window -> (0..MaxTime) \cup {Cold}] /\ ListedSeq \in 0..MaxTime
    BY LifeFacts DEF WarmOK
  <2>2. UNCHANGED <<registry, deleted, siteMeta, siteMirror, site, key, clock, stateCopy>>
    BY <1>4 DEF BeginRemoval
  <2>3. PICK seq : BeginChore(w, does, "look", seq) /\
          \/ Look(w) /\ seq = warm'[w] + 1
          \/ UNCHANGED warm /\ seq = 1
    BY <1>4 DEF BeginRemoval
  <2>4. /\ warm' = warm \/ warm' = [warm EXCEPT ![w] = ListedSeq]
        /\ seq \in 1..(MaxTime + 1)
    <3>1. CASE warm' = warm /\ seq = 1
      BY <1>0, <3>1
    <3>2. CASE warm[w] # Cold /\ warm' = warm /\ seq = warm'[w] + 1
      BY <2>1, <3>2, LifeAssumption
    <3>3. CASE warm' = [warm EXCEPT ![w] = ListedSeq] /\ seq = warm'[w] + 1
      BY <2>1, <3>3, LifeAssumption
    <3> QED
      BY <2>3, <3>1, <3>2, <3>3 DEF Look
  <2>5. WarmOK'
    BY <2>1, <2>4, Warms
  <2>6. seq \in 0..(MaxTime + 1)
    BY <2>4
  <2> DEFINE x == [NoChore EXCEPT !.does = does, !.step = "look", !.seq = seq]
  <2>7. chore' = [chore EXCEPT ![w] = x]
    BY <2>3 DEF BeginChore
  <2>8. ChoreOK(x, deleted', LP!Version(registry))
    BY <2>4, <2>6, Begins DEF ChoreStep, Does, BeginOK
  <2> HIDE DEF x
  <2> QED
    BY <2>2, <2>5, <2>7, <2>8, LifeFacts, TabMovesOn DEF CopiesOK
<1> QED
  BY <1>1, <1>2, <1>3, <1>4

LEMMA PutSteps ==
  ASSUME LifeInv, NEW w \in Window, PutListing(w) \/ PutListingFails(w)
  PROVE  LifeInv'
<1>1. chore[w].seq \in 1..MaxTime /\ Stop(w)
      /\ UNCHANGED <<deleted, siteMeta, siteMirror, site, key, clock, stateCopy>>
  BY LifeFacts DEF PutListing, PutListingFails, AtStep, ChoreOK
<1>2. Copy(registry) /\ LP!Version(registry) \in Int
  BY CopyVersion DEF LifeInv
<1>3. Copy(registry') /\ LP!Version(registry') >= LP!Version(registry)
  <2>1. TakeListing(chore[w].seq) \/ UNCHANGED registry
    BY DEF PutListing, PutListingFails
  <2> QED
    BY <1>1, <1>2, <2>1, ListingTaken
<1>4. WarmOK'
  <2>1. chore[w].seq \in (0..MaxTime) \cup {Cold}
    BY <1>1
  <2>2. warm' = warm \/ warm' = [warm EXCEPT ![w] = chore[w].seq]
    BY DEF PutListing, PutListingFails
  <2> QED
    BY <2>1, <2>2, Warms
<1> QED
  BY <1>1, <1>3, <1>4, LifeFacts, ChoreMoves, NoChoreOK, TabMoves DEF WarmOK, CopiesOK

\* A tab goes on to the next step.
LEMMA GoesTo ==
  ASSUME LifeInv, NEW w \in Window, NEW step \in ChoreStep, GoTo(w, step),
         registry' = registry, clock' = clock,
         deleted' = deleted, key' \in BOOLEAN, siteMeta' \in Switch,
         siteMirror' \in Switch, site' \in {"none", "live", "down"}, WarmOK', CopiesOK',
         step = "put listing" => chore[w].seq \in 1..MaxTime,
         step \in {"look", "site down", "pages off"} => chore[w].does \in {"disable", "unregister", "delete"},
         step = "mark" => chore[w].does = "delete",
         step = "remove" => chore[w].does = "unregister" \/ (chore[w].does = "delete" /\ chore[w].marked),
         step = "drop key" => deleted /\ LP!Version(registry) >= chore[w].seq
  PROVE  LifeInv'
<1> DEFINE x == [chore[w] EXCEPT !.step = step]
<1>1. chore' = [chore EXCEPT ![w] = x]
  BY ChoreMoves
<1>2. ChoreOK(x, deleted, LP!Version(registry))
  BY LifeFacts, StepOK
<1> HIDE DEF x
<1>3. ChoreOK(x, deleted', LP!Version(registry))
  BY <1>2
<1> QED
  BY <1>1, <1>3, LifeFacts, TabMovesOn

LEMMA PagesSteps ==
  ASSUME LifeInv, NEW w \in Window, SiteUp(w) \/ PagesOn(w)
  PROVE  LifeInv'
<1>1. CASE SiteUp(w)
  <2>1. site' \in {"none", "live", "down"} /\ WarmOK' /\ CopiesOK'
        /\ UNCHANGED <<registry, deleted, siteMeta, siteMirror, key, clock>>
    BY <1>1, LifeFacts DEF SiteUp, WarmOK, CopiesOK
  <2>2. GoTo(w, "pages on") \/ Stop(w)
    BY <1>1 DEF SiteUp
  <2>3. CASE GoTo(w, "pages on")
    BY <2>1, <2>3, LifeFacts, GoesTo DEF ChoreStep
  <2>4. CASE Stop(w)
    BY <2>1, <2>4, LifeFacts, Stops
  <2> QED
    BY <2>2, <2>3, <2>4
<1>2. CASE PagesOn(w)
  <2>1. siteMirror' \in Switch /\ WarmOK' /\ Stop(w)
        /\ UNCHANGED <<registry, deleted, site, key, clock>>
    BY <1>2, LifeFacts DEF PagesOn, WarmOK, Switch
  <2>2. PagesPut(w, "on", "unread") \/ PagesPutFails(w, "on")
    BY <1>2 DEF PagesOn
  <2>3. siteMeta' \in Switch /\ CopiesOK'
    BY <2>2, PagesWriteEnds DEF Switch
  <2> QED
    BY <2>1, <2>3, LifeFacts, Stops
<1> QED
  BY <1>1, <1>2

\* After the Pages, a removal goes where Proceed sends it.
LEMMA ProceedsOn ==
  ASSUME LifeInv, NEW w \in Window, Proceed(w), chore[w].step \in {"look", "pages off"},
         registry' = registry, clock' = clock, deleted' = deleted, key' = key,
         siteMeta' \in Switch, siteMirror' \in Switch, site' \in {"none", "live", "down"}, WarmOK',
         CopiesOK'
  PROVE  LifeInv'
<1>1. PICK x : chore' = [chore EXCEPT ![w] = x] /\ ChoreOK(x, deleted, LP!Version(registry))
  BY Proceeds
<1>2. ChoreOK(x, deleted', LP!Version(registry))
  BY <1>1
<1> QED
  BY <1>1, <1>2, LifeFacts, TabMovesOn

LEMMA TakeDownSteps ==
  ASSUME LifeInv, NEW w \in Window, LookAtPages(w) \/ SiteDown(w) \/ PagesOff(w)
  PROVE  LifeInv'
<1>0. chore[w].does \in {"disable", "unregister", "delete"}
      /\ chore[w].step \in {"look", "site down", "pages off"}
  BY LifeFacts DEF ChoreOK, LookAtPages, SiteDown, PagesOff, AtStep
<1>1. CASE LookAtPages(w)
  <2>1. WarmOK' /\ UNCHANGED <<registry, deleted, siteMeta, siteMirror, site, key, clock>>
        /\ chore[w].step = "look"
    BY <1>1, LifeFacts DEF LookAtPages, WarmOK, AtStep
  <2>2. CopiesOK'
    <3>1. stateCopy[w] \in StateCopies /\ "newest" \in StateCopies
      BY LifeFacts DEF CopiesOK, StateCopies
    <3>2. \/ stateCopy' = stateCopy
          \/ stateCopy' = [stateCopy EXCEPT ![w] = IF @ = "unread" THEN "newest" ELSE @]
      BY <1>1 DEF LookAtPages
    <3> QED
      BY <3>1, <3>2, CopiesKept
  <2>3. \E shown : TakesDown(w, shown)
    BY <1>1 DEF LookAtPages
  <2>4. GoTo(w, "site down") \/ GoTo(w, "pages off") \/ Proceed(w)
    BY <2>3 DEF TakesDown
  <2>5. CASE GoTo(w, "site down")
    BY <1>0, <2>1, <2>2, <2>5, LifeFacts, GoesTo DEF ChoreStep
  <2>6. CASE GoTo(w, "pages off")
    BY <1>0, <2>1, <2>2, <2>6, LifeFacts, GoesTo DEF ChoreStep
  <2>7. CASE Proceed(w)
    BY <2>1, <2>2, <2>7, LifeFacts, ProceedsOn
  <2> QED
    BY <2>4, <2>5, <2>6, <2>7
<1>2. CASE SiteDown(w)
  <2>1. WarmOK' /\ CopiesOK' /\ site' \in {"none", "live", "down"} /\ GoTo(w, "pages off")
        /\ UNCHANGED <<registry, deleted, siteMeta, siteMirror, key, clock>>
    BY <1>2, LifeFacts DEF SiteDown, WarmOK, CopiesOK
  <2> QED
    BY <1>0, <2>1, LifeFacts, GoesTo DEF ChoreStep
<1>3. CASE PagesOff(w)
  <2>1. /\ WarmOK' /\ siteMirror' \in Switch
        /\ UNCHANGED <<registry, deleted, site, key, clock>>
        /\ chore[w].step = "pages off"
    BY <1>3, LifeFacts DEF PagesOff, WarmOK, Switch, AtStep
  <2>2. /\ Proceed(w) \/ Stop(w)
        /\ PagesPut(w, "off", "unread") \/ PagesPutFails(w, "off")
    BY <1>3 DEF PagesOff
  <2>5. siteMeta' \in Switch /\ CopiesOK'
    BY <2>2, PagesWriteEnds DEF Switch
  <2>3. CASE Proceed(w)
    BY <2>1, <2>3, <2>5, LifeFacts, ProceedsOn
  <2>4. CASE Stop(w)
    BY <2>1, <2>4, <2>5, LifeFacts, Stops
  <2> QED
    BY <2>2, <2>3, <2>4
<1> QED
  BY <1>1, <1>2, <1>3

LEMMA RemovalSteps ==
  ASSUME LifeInv, NEW w \in Window,
         Mark(w) \/ RemoveAnswered(w) \/ RemoveFails(w) \/ DropKey(w)
  PROVE  LifeInv'
<1>0. Copy(registry) /\ LP!Version(registry) \in Int /\ chore[w] \in Chore
      /\ ChoreOK(chore[w], deleted, LP!Version(registry))
  BY LifeFacts, CopyVersion
<1>1. CASE Mark(w)
  <2>0. /\ UNCHANGED <<registry, siteMeta, siteMirror, site, key, clock>> /\ WarmOK'
        /\ chore[w].does = "delete"
    BY <1>0, <1>1, LifeFacts DEF Mark, WarmOK, AtStep, ChoreOK
  <2>3. CopiesOK'
    <3>1. stateCopy' = stateCopy \/ stateCopy' = [stateCopy EXCEPT ![w] = "unread"]
      BY <1>1 DEF Mark
    <3> QED
      BY <3>1, CopiesKept DEF StateCopies
  <2>1. CASE deleted' = TRUE /\ chore' = [chore EXCEPT ![w].step = "look", ![w].marked = TRUE]
    <3> DEFINE x == [chore[w] EXCEPT !.step = "look", !.marked = TRUE]
    <3>1. chore' = [chore EXCEPT ![w] = x]
      BY <2>1, LifeFacts
    <3>2. x \in Chore /\ x.step = "look" /\ x.does = chore[w].does /\ x.seq = chore[w].seq
      BY <1>0 DEF Chore, ChoreStep
    <3> HIDE DEF x
    <3>3. chore[w].seq \in 1..(MaxTime + 1)
      BY <1>0, <2>0 DEF ChoreOK
    <3>4. ChoreOK(x, deleted', LP!Version(registry))
      BY <2>0, <2>1, <3>2, <3>3 DEF ChoreOK
    <3> QED
      BY <2>0, <2>1, <2>3, <3>1, <3>4, LifeFacts, TabMovesOn
  <2>2. CASE deleted' \in {deleted} \cup (IF key THEN {TRUE} ELSE {}) /\ Stop(w)
    <3>1. deleted' \in BOOLEAN /\ (deleted => deleted')
      BY <2>2, LifeFacts
    <3> QED
      BY <2>0, <2>2, <2>3, <3>1, LifeFacts, Stops
  <2> QED
    BY <1>1, <2>1, <2>2 DEF Mark
<1>2. CASE RemoveAnswered(w)
  <2>0. /\ UNCHANGED <<deleted, siteMeta, siteMirror, site, key, clock, stateCopy>>
        /\ chore[w].step = "remove" /\ TakeRemoval(chore[w].seq)
    BY <1>2 DEF RemoveAnswered, AtStep
  <2>1. chore[w].does = "unregister" \/ (chore[w].does = "delete" /\ chore[w].marked)
    BY <1>0, <2>0 DEF ChoreOK
  <2>2. chore[w].seq \in 1..(MaxTime + 1)
    BY <1>0, <2>1 DEF ChoreOK
  <2>3. /\ Copy(registry') /\ LP!Version(registry') >= LP!Version(registry)
        /\ LP!Version(registry') >= chore[w].seq
    BY <1>0, <2>0, <2>2, RemovalTaken
  <2>4. CASE chore[w].does = "unregister"
    <3>1. warm' = [warm EXCEPT ![w] = 0] /\ Stop(w)
      BY <1>2, <2>4 DEF RemoveAnswered
    <3>2. WarmOK'
      <4>1. 0 \in (0..MaxTime) \cup {Cold}
        BY LifeAssumption
      <4> QED
        BY <3>1, <4>1, Warms
    <3> QED
      BY <2>0, <2>3, <3>1, <3>2, LifeFacts, ChoreMoves, NoChoreOK, TabMoves DEF WarmOK, CopiesOK
  <2>5. CASE chore[w].does # "unregister"
    <3>1. warm' = [warm EXCEPT ![w] = Cold] /\ GoTo(w, "drop key")
      BY <1>2, <2>5 DEF RemoveAnswered
    <3>2. WarmOK'
      BY <3>1, Warms
    <3> DEFINE x == [chore[w] EXCEPT !.step = "drop key"]
    <3>3. chore' = [chore EXCEPT ![w] = x]
      BY <3>1, ChoreMoves DEF ChoreStep
    <3>4. deleted = TRUE
      BY <1>0, <2>1, <2>5, LifeFacts DEF ChoreOK
    <3>5. ChoreOK(x, deleted, LP!Version(registry'))
      BY <1>0, <2>3, <3>4, StepOK DEF ChoreStep
    <3> HIDE DEF x
    <3>6. ChoreOK(x, deleted', LP!Version(registry'))
      BY <2>0, <3>5
    <3> QED
      BY <2>0, <2>3, <3>2, <3>3, <3>6, LifeFacts, TabMoves DEF WarmOK, CopiesOK
  <2> QED
    BY <2>4, <2>5
<1>3. CASE RemoveFails(w)
  <2>0. /\ UNCHANGED <<deleted, siteMeta, siteMirror, site, key, clock, warm, stateCopy>> /\ Stop(w)
        /\ chore[w].step = "remove" /\ (TakeRemoval(chore[w].seq) \/ registry' = registry)
    BY <1>3 DEF RemoveFails, AtStep
  <2>1. chore[w].does \in {"unregister", "delete"}
    BY <1>0, <2>0 DEF ChoreOK
  <2>2. chore[w].seq \in 1..(MaxTime + 1)
    BY <1>0, <2>1 DEF ChoreOK
  <2>3. Copy(registry') /\ LP!Version(registry') >= LP!Version(registry)
    BY <1>0, <2>0, <2>2, RemovalTaken
  <2> QED
    BY <2>0, <2>3, LifeFacts, ChoreMoves, NoChoreOK, TabMoves DEF WarmOK, CopiesOK
<1>4. CASE DropKey(w)
  <2>1. /\ UNCHANGED <<registry, deleted, siteMeta, siteMirror, site, clock>>
        /\ Stop(w) /\ key' \in BOOLEAN /\ CopiesOK'
    BY <1>4, LifeFacts DEF DropKey, CopiesOK
  <2>2. WarmOK'
    <3>1. warm \in [Window -> (0..MaxTime) \cup {Cold}] /\ 0 \in (0..MaxTime) \cup {Cold}
      BY LifeAssumption, LifeFacts DEF WarmOK
    <3>2. warm' = [warm EXCEPT ![w] = IF key' THEN warm[w] ELSE 0]
      BY <1>4 DEF DropKey
    <3>3. (IF key' THEN warm[w] ELSE 0) \in (0..MaxTime) \cup {Cold}
      BY <3>1
    <3> QED
      BY <3>2, <3>3, Warms
  <2> QED
    BY <2>1, <2>2, LifeFacts, Stops
<1> QED
  BY <1>1, <1>2, <1>3, <1>4

LEMMA LifeInvInit == LifeInit => LifeInv
<1> SUFFICES ASSUME LifeInit PROVE LifeInv
  OBVIOUS
<1>1. Copy(registry)
  BY DEF LifeInit, Copy, LP!Good, LP!State, LP!Xor, LP!Disjoint, LP!Blank,
         R!Empty, R!NoContributors, R!NoPending
<1>2. warm \in [Window -> (0..MaxTime) \cup {Cold}] /\ warm \in [Window -> 0..Cold]
      /\ clock \in 0..MaxTime
  BY LifeAssumption DEF LifeInit, Cold
<1>3. NoChore \in Chore
  BY LifeAssumption DEF NoChore, Chore, ChoreStep
<1>4. chore \in [Window -> Chore] /\ \A w \in Window : ChoreOK(chore[w], deleted, LP!Version(registry))
  BY <1>3, NoChoreOK DEF LifeInit
<1> QED
  BY <1>1, <1>2, <1>4, LifeStates DEF LifeInit, LifeInv, LifeTypeOK, Copy, LP!Good, Switch, StateCopies

LEMMA LifeInvStep == LifeInv /\ [LifeNext]_lifeVars => LifeInv'
<1> SUFFICES ASSUME LifeInv, [LifeNext]_lifeVars PROVE LifeInv'
  OBVIOUS
<1>1. CASE UNCHANGED lifeVars
  BY <1>1 DEF lifeVars, LifeInv, LifeTypeOK
<1>2. CASE LifeNext
  BY <1>2, CacheSteps, CloseSteps, BeginSteps, PutSteps, PagesSteps, TakeDownSteps, RemovalSteps
     DEF LifeNext
<1> QED
  BY <1>1, <1>2

LEMMA LifeInvHolds == LifeSpec => []LifeInv
BY LifeInvInit, LifeInvStep, PTL DEF LifeSpec

\* Types (owner-api.ts, native-pages.ts): for any tabs and any clock.
THEOREM LifeTypeCorrect == LifeSpec => []LifeTypeOK
<1>1. LifeInv => LifeTypeOK
  BY DEF LifeInv
<1> QED
  BY <1>1, LifeInvHolds, PTL

\* nativeDeleteRepo: when the site key goes, the repository is marked as deleted
\* and no listing is left that is older than the removal, for any number of tabs
\* at whatever steps of whatever chores.
THEOREM KeyGoesLastAlways == LifeSpec => KeyGoesLast
<1>1. LifeInv /\ [LifeNext]_lifeVars =>
        [key /\ ~key' =>
           /\ deleted
           /\ \E w \in Window :
                AtStep(w, "drop key") /\ (registry.repo = Unlisted \/ ListedSeq >= chore[w].seq)]_lifeVars
  <2> SUFFICES ASSUME LifeInv, LifeNext, key, ~key'
               PROVE  /\ deleted
                      /\ \E w \in Window :
                           AtStep(w, "drop key") /\ (registry.repo = Unlisted \/ ListedSeq >= chore[w].seq)
    OBVIOUS
  <2>1. PICK w \in Window : DropKey(w)
    BY DEF LifeNext, Refresh, Invalidate, Copies, Drops, CloseWindow, BeginRegister, PutListing, PutListingFails,
           BeginPages, SiteUp, PagesOn, BeginDisable, BeginRemoval, LookAtPages, SiteDown, PagesOff,
           Mark, RemoveAnswered, RemoveFails, DropKey
  <2>2. AtStep(w, "drop key")
    BY <2>1 DEF DropKey
  <2>3. deleted /\ LP!Version(registry) >= chore[w].seq
    BY <2>2, LifeFacts DEF AtStep, ChoreOK
  <2>4. registry.repo = Unlisted \/ ListedSeq = LP!Version(registry)
    BY CopyVersion DEF LifeInv, ListedSeq
  <2> QED
    BY <2>2, <2>3, <2>4
<1> QED
  BY <1>1, LifeInvHolds, PTL DEF LifeSpec, KeyGoesLast
-----------------------------------------------------------------------------
(***************************************************************************)
(* The parts of the browser side by side.  They share no state: a step of  *)
(* one leaves the others as they are, and each starts as it starts by      *)
(* itself.  The part a behaviour is about never changes.                   *)
(***************************************************************************)
BrowserInv ==
  /\ part \in {"vault", "goods", "duty", "edits", "packs", "life", "invites"}
  /\ Inv /\ GoodsInv /\ DutyInv /\ EditsInv /\ PacksInv /\ LifeInv /\ InvitesInv

LEMMA BrowserInvInit == BrowserInit => BrowserInv
BY InitInv, GoodsInvInit, DutyInvInit, EditsInvInit, PacksInvInit, LifeInvInit, InvitesInvInit
   DEF BrowserInit, BrowserInv

LEMMA BrowserStepsAreParts ==
  [BrowserNext]_browserVars =>
    /\ [Next]_vars /\ [GoodsNext]_goodsVars /\ [DutyNext]_dutyVars /\ [EditsNext]_editVars
    /\ [PacksNext]_packVars /\ [LifeNext]_lifeVars /\ [InvitesNext]_inviteVars
    /\ UNCHANGED part
BY DEF BrowserNext, browserVars

LEMMA BrowserInvStep == BrowserInv /\ [BrowserNext]_browserVars => BrowserInv'
<1> SUFFICES ASSUME BrowserInv, [BrowserNext]_browserVars  PROVE BrowserInv'
  OBVIOUS
<1>1. /\ [Next]_vars /\ [GoodsNext]_goodsVars /\ [DutyNext]_dutyVars /\ [EditsNext]_editVars
      /\ [PacksNext]_packVars /\ [LifeNext]_lifeVars /\ [InvitesNext]_inviteVars
      /\ UNCHANGED part
  BY BrowserStepsAreParts
<1>2. Inv'
  BY <1>1, StepInv, StutterInv DEF BrowserInv
<1>3. GoodsInv' /\ DutyInv' /\ EditsInv'
  BY <1>1, GoodsStep, DutyStepOK, EditsStep DEF BrowserInv
<1>4. PacksInv' /\ LifeInv' /\ InvitesInv'
  BY <1>1, PacksStep, LifeInvStep, InvitesInvStep DEF BrowserInv
<1> QED
  BY <1>1, <1>2, <1>3, <1>4 DEF BrowserInv

\* The type invariant of what the browser does for an account, in the composition the
\* browser run checks.
THEOREM BrowserTypeOKAlways == BrowserSpec => []BrowserTypeOK
<1>1. BrowserInv => TypeOK /\ GoodsTypeOK /\ DutyTypeOK /\ EditsTypeOK
  BY DEF BrowserInv, Inv, GoodsInv, DutyInv, EditsInv
<1>2. BrowserInv => PacksTypeOK /\ LifeTypeOK /\ InvitesTypeOK
  BY DEF BrowserInv, PacksInv, LifeInv, InvitesInv
<1>3. BrowserInv => BrowserTypeOK
  BY <1>1, <1>2 DEF BrowserInv, BrowserTypeOK
<1> QED
  BY <1>3, BrowserInvInit, BrowserInvStep, PTL DEF BrowserSpec

\* Every safety property of the browser run, in the composition it checks: the
\* theorems about the parts, the refinement of the register among them, hold of the
\* parts side by side.
THEOREM BrowserIsSafe ==
  BrowserSpec =>
    /\ []SeenIsPast /\ ActsAsRegister /\ ComparedPushKeepsKeys
    /\ []WorkerNeedsConsent /\ SignsOnlyWhileOn /\ RestoredIsLive /\ []SecretOpensCommit
    /\ []EditSeesOwnPush /\ []TipIsWhole /\ KeyGoesLast /\ KeyFollowsGrant
<1>1. BrowserInit => /\ Init /\ GoodsInit /\ DutyInit /\ EditsInit /\ PacksInit
                     /\ LifeInit /\ InvitesInit
  BY DEF BrowserInit
<1>2. BrowserSpec => /\ Spec /\ GoodsSpec /\ DutySpec /\ EditsSpec /\ PacksSpec
                     /\ LifeSpec /\ InvitesSpec
  BY <1>1, BrowserStepsAreParts, PTL
     DEF BrowserSpec, Spec, GoodsSpec, DutySpec, EditsSpec, PacksSpec, LifeSpec, InvitesSpec
<1> QED
  BY <1>2, SeenIsPastAlways, ImplementsRegister, ComparedPushKeepsKeysAlways,
     WorkerNeedsConsentAlways, SignsOnlyWhileOnAlways, RestoredIsLiveAlways, SecretOpensCommitAlways,
     EditSeesOwnPushAlways, TipIsWholeAlways, KeyGoesLastAlways, KeyFollowsGrantAlways
=============================================================================
