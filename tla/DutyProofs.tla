----------------------------- MODULE DutyProofs -----------------------------
(***************************************************************************)
(* Proofs about the background duties of a browser, for any number of      *)
(* tabs, rounds, services and accounts: a node's commitment can be opened, *)
(* and no duty runs without consent.                                       *)
(***************************************************************************)
EXTENDS TycheDuty, PublicGoods, FiniteSetTheorems, TLAPS

-----------------------------------------------------------------------------
(***************************************************************************)
(* Commit and reveal.  The Web Lock of a round covers every step between   *)
(* the secret being read, or drawn, and the update being answered.         *)
(***************************************************************************)
Holding == {"sign", "publish", "wait"}

RoundOf(t) == duty[t].on.round

DutyOK(t) ==
  /\ duty[t].step \in Holding => roundLock[RoundOf(t)] = t
  /\ duty[t].step \in {"sign", "publish"} /\ duty[t].on.kind = "commit" =>
       /\ duty[t].secret \in Secret /\ stored[RoundOf(t)] = duty[t].secret
       /\ committed[RoundOf(t)] \subseteq {duty[t].secret}
       /\ duty[t].step = "sign" /\ duty[t].created => committed[RoundOf(t)] = {}
  /\ duty[t].step \in {"sign", "publish"} /\ duty[t].on.kind = "reveal" =>
       duty[t].secret \in Secret /\ stage[RoundOf(t)] # "open"
  /\ duty[t].step = "wait" /\ duty[t].on.kind = "reveal" => RoundOf(t) \in revealSent

RoundOK(r) ==
  /\ \A a, b \in committed[r] : a = b
  /\ commitOf[r] # 0 => commitOf[r] \in committed[r]
  /\ r \notin revealSent => committed[r] \subseteq {stored[r]}
  /\ r \in revealSent => stage[r] # "open"

DutyInv ==
  /\ DutyTypeOK
  /\ \A t \in Tab : DutyOK(t)
  /\ \A r \in Round : RoundOK(r)
  /\ \A u \in onTheWay : u.on.kind = "commit" => u.secret \in committed[u.on.round]

LEMMA IdleOK == Idle \in Duty /\ [Idle EXCEPT !.step = "next"] \in Duty
<1>1. PICK r \in Round : TRUE
  BY DutyAssumption
<1>2. [kind |-> "commit", round |-> r] \in Action
  BY DEF Action
<1>3. (CHOOSE a \in Action : TRUE) \in Action
  BY <1>2
<1> DEFINE a == CHOOSE x \in Action : TRUE
<1>4. a \in Action /\ Idle = [step |-> "idle", on |-> a, secret |-> 0, created |-> FALSE]
  BY <1>3 DEF Idle
<1> HIDE DEF a
<1> QED
  BY <1>4 DEF Duty, Step

LEMMA DutyInvInit == DutyInit => DutyInv
BY IdleOK, DutyAssumption
   DEF DutyInit, DutyInv, DutyTypeOK, DutyOK, RoundOK, Idle, Holding, Secret

\* A tab moves to d without a change of anything shared, and without the lock.
LEMMA DutyLocal ==
  ASSUME DutyInv, NEW t \in Tab, NEW d \in Duty, d.step \notin Holding,
         duty' = [duty EXCEPT ![t] = d], plan' \in [Tab -> SUBSET Action],
         UNCHANGED <<stored, drawn, roundLock, contract, committed, revealSent>>
  PROVE  DutyInv'
<1>1. \A v \in Tab : duty'[v] = IF v = t THEN d ELSE duty[v]
  BY DEF DutyInv, DutyTypeOK
<1>2. DutyTypeOK'
  BY DEF DutyInv, DutyTypeOK, contract
<1>3. ASSUME NEW v \in Tab PROVE DutyOK(v)'
  <2>1. CASE v = t
    BY <1>1, <2>1 DEF DutyOK, Holding
  <2>2. CASE v # t
    <3>1. duty'[v] = duty[v] /\ DutyOK(v)
      BY <1>1, <2>2 DEF DutyInv
    <3> QED
      BY <3>1 DEF DutyOK, RoundOf, contract
  <2> QED
    BY <2>1, <2>2
<1> QED
  BY <1>2, <1>3 DEF DutyInv, RoundOK, contract

\* It ends an action: the lock is free, and it may forget the secret.
LEMMA LeaveOK ==
  ASSUME DutyInv, NEW t \in Tab, duty[t].step \in Holding, Leave(t),
         UNCHANGED <<drawn, contract, committed, revealSent>>,
         \/ UNCHANGED stored
         \/ /\ stored' = [stored EXCEPT ![RoundOf(t)] = 0]
            /\ committed[RoundOf(t)] = {} \/ RoundOf(t) \in revealSent
  PROVE  DutyInv'
<1>0. RoundOf(t) \in Round /\ duty[t].on \in Action
  BY DEF DutyInv, DutyTypeOK, Duty, Action, RoundOf
<1>1. \A v \in Tab : duty'[v] = IF v = t THEN [Idle EXCEPT !.step = "next"] ELSE duty[v]
  BY DEF DutyInv, DutyTypeOK, Leave
<1>2. /\ \A r \in Round : roundLock'[r] = IF r = RoundOf(t) THEN NoTab ELSE roundLock[r]
      /\ roundLock' \in [Round -> Tab \cup {NoTab}]
  BY <1>0 DEF DutyInv, DutyTypeOK, Leave, RoundOf
<1>3. /\ \A r \in Round : r # RoundOf(t) => stored'[r] = stored[r]
      /\ stored' \in [Round -> Secret \cup {0}]
  BY <1>0 DEF DutyInv, DutyTypeOK
<1>4. plan' \in [Tab -> SUBSET Action] /\ duty' \in [Tab -> Duty]
  BY <1>0, IdleOK DEF DutyInv, DutyTypeOK, Leave
<1>5. DutyTypeOK'
  BY <1>2, <1>3, <1>4 DEF DutyInv, DutyTypeOK, contract
<1>6. [Idle EXCEPT !.step = "next"].step = "next"
  BY DEF Idle
<1>7. ASSUME NEW v \in Tab PROVE DutyOK(v)'
  <2>1. CASE v = t
    BY <1>1, <1>6, <2>1 DEF DutyOK, Holding
  <2>2. CASE v # t /\ duty[v].step \notin Holding
    BY <1>1, <2>2 DEF DutyOK, Holding
  <2>3. CASE v # t /\ duty[v].step \in Holding
    <3>1. roundLock[RoundOf(t)] = t /\ roundLock[RoundOf(v)] = v /\ DutyOK(v)
      BY <2>3 DEF DutyInv, DutyOK
    <3>2. RoundOf(v) \in Round /\ RoundOf(v) # RoundOf(t) /\ duty'[v] = duty[v]
      BY <1>1, <2>3, <3>1 DEF DutyInv, DutyTypeOK, Duty, Action, RoundOf
    <3>3. /\ stored'[RoundOf(v)] = stored[RoundOf(v)]
          /\ roundLock'[RoundOf(v)] = roundLock[RoundOf(v)]
      BY <1>2, <1>3, <3>2
    <3> QED
      BY <3>1, <3>2, <3>3 DEF DutyOK, RoundOf, contract
  <2> QED
    BY <2>1, <2>2, <2>3
<1>8. ASSUME NEW r \in Round PROVE RoundOK(r)'
  BY <1>3 DEF DutyInv, RoundOK, contract
<1> QED
  BY <1>5, <1>7, <1>8 DEF DutyInv, contract

\* It takes the lock of a round nobody holds, with the secret stored there.
LEMMA LockOK ==
  ASSUME DutyInv, NEW t \in Tab, NEW d \in Duty, NEW x \in Secret,
         d.step = "sign", d.secret = x, roundLock[d.on.round] = NoTab,
         roundLock' = [roundLock EXCEPT ![d.on.round] = t],
         duty' = [duty EXCEPT ![t] = d],
         stored' = [stored EXCEPT ![d.on.round] = x], drawn' \in 0..MaxSecrets,
         stored[d.on.round] = 0 \/ stored[d.on.round] = x,
         d.on.kind = "commit" => d.on.round \notin revealSent
                                 /\ (d.created => stored[d.on.round] = 0),
         d.on.kind = "reveal" => stage[d.on.round] # "open" /\ stored[d.on.round] = x,
         UNCHANGED <<plan, contract, committed, revealSent>>
  PROVE  DutyInv'
<1> DEFINE q == d.on.round
<1>0. q \in Round /\ d.on.kind \in {"commit", "reveal"} /\ x # 0
  BY DutyAssumption DEF Duty, Action, Secret
<1>1. \A v \in Tab : duty'[v] = IF v = t THEN d ELSE duty[v]
  BY DEF DutyInv, DutyTypeOK
<1>2. /\ \A r \in Round : roundLock'[r] = IF r = q THEN t ELSE roundLock[r]
      /\ \A r \in Round : stored'[r] = IF r = q THEN x ELSE stored[r]
  BY <1>0 DEF DutyInv, DutyTypeOK
<1>3. DutyTypeOK'
  BY <1>0 DEF DutyInv, DutyTypeOK, contract
<1>4. q \notin revealSent => committed[q] \subseteq {x} /\ (stored[q] = 0 => committed[q] = {})
  <2>1. committed[q] \subseteq Secret /\ 0 \notin Secret
    BY <1>0, DutyAssumption DEF DutyInv, DutyTypeOK, Secret
  <2> QED
    BY <1>0, <2>1 DEF DutyInv, RoundOK
<1>5. ASSUME NEW v \in Tab PROVE DutyOK(v)'
  <2>1. CASE v = t
    BY <1>0, <1>1, <1>2, <1>4, <2>1 DEF DutyOK, Holding, RoundOf, contract
  <2>2. CASE v # t /\ duty[v].step \notin Holding
    BY <1>1, <2>2 DEF DutyOK, Holding
  <2>3. CASE v # t /\ duty[v].step \in Holding
    <3>1. DutyOK(v) /\ roundLock[RoundOf(v)] = v /\ v # NoTab /\ RoundOf(v) \in Round
      BY <2>3, DutyAssumption DEF DutyInv, DutyOK, DutyTypeOK, Duty, Action, RoundOf
    <3>2. RoundOf(v) # q /\ duty'[v] = duty[v]
      BY <1>1, <2>3, <3>1
    <3> QED
      BY <1>2, <3>1, <3>2 DEF DutyOK, RoundOf, contract
  <2> QED
    BY <2>1, <2>2, <2>3
<1>6. ASSUME NEW r \in Round PROVE RoundOK(r)'
  BY <1>2, <1>4 DEF DutyInv, RoundOK, contract
<1> QED
  BY <1>3, <1>5, <1>6 DEF DutyInv, contract

LEMMA DutyStepOK == DutyInv /\ [DutyNext]_dutyVars => DutyInv'
<1> SUFFICES ASSUME DutyInv, [DutyNext]_dutyVars PROVE DutyInv'
  OBVIOUS
<1>0. /\ DutyTypeOK /\ Idle \in Duty /\ Idle.step = "idle"
      /\ \A t \in Tab : duty[t] \in Duty /\ plan[t] \subseteq Action /\ DutyOK(t)
                        /\ duty[t].on \in Action /\ RoundOf(t) \in Round
  BY IdleOK DEF DutyInv, DutyTypeOK, Idle, Duty, Action, RoundOf
<1>1. ASSUME NEW t \in Tab, NEW s \in {"plan", "next"}, duty[t].step \notin Holding,
             duty' = [duty EXCEPT ![t].step = s], plan' \in [Tab -> SUBSET Action],
             UNCHANGED <<stored, drawn, roundLock, contract, committed, revealSent>>
      PROVE  DutyInv'
  <2>1. [duty[t] EXCEPT !.step = s] \in Duty /\ [duty[t] EXCEPT !.step = s].step = s
    BY <1>0 DEF Duty, Step
  <2>2. duty' = [duty EXCEPT ![t] = [duty[t] EXCEPT !.step = s]]
    BY <1>1
  <2> QED
    BY <1>1, <2>1, <2>2, DutyLocal DEF Holding
<1>2. ASSUME NEW t \in Tab, StartDuty(t) \/ Plan(t) \/ EndDuty(t) PROVE DutyInv'
  <2>1. CASE StartDuty(t)
    BY <1>0, <1>1, <2>1 DEF StartDuty, At, Holding, DutyTypeOK
  <2>2. CASE Plan(t)
    <3>1. duty[t].step = "plan" /\ Planned \subseteq Action
      BY <2>2 DEF Plan, At, Planned
    <3>2. CASE plan' = [plan EXCEPT ![t] = Planned] /\ duty' = [duty EXCEPT ![t].step = "next"]
      BY <1>0, <1>1, <2>2, <3>1, <3>2 DEF Plan, Holding, DutyTypeOK
    <3>3. CASE plan' = plan /\ duty' = [duty EXCEPT ![t] = Idle]
      BY <1>0, <2>2, <3>3, DutyLocal DEF Plan, Holding, DutyTypeOK
    <3> QED
      BY <2>2, <3>2, <3>3 DEF Plan
  <2>3. CASE EndDuty(t)
    BY <1>0, <2>3, DutyLocal DEF EndDuty, Holding, DutyTypeOK
  <2> QED
    BY <1>2, <2>1, <2>2, <2>3
<1>3. ASSUME NEW t \in Tab, NEW a \in Action, SkipAction(t, a) PROVE DutyInv'
  <2>1. DutyTypeOK'
    BY <1>0, <1>3 DEF SkipAction, DutyTypeOK, contract
  <2> QED
    BY <1>3, <2>1 DEF SkipAction, DutyInv, DutyOK, RoundOK, RoundOf, contract
<1>4. ASSUME NEW t \in Tab, NEW a \in Action, LockForCommit(t, a) PROVE DutyInv'
  <2> DEFINE x == FreshSecret(a.round)
             d == [step |-> "sign", on |-> a, secret |-> x, created |-> x # stored[a.round]]
  <2>1. /\ a.kind = "commit" /\ a.round \in Round /\ x \in Secret
        /\ stage[a.round] = "open" /\ roundLock[a.round] = NoTab
        /\ roundLock' = [roundLock EXCEPT ![a.round] = t]
        /\ duty' = [duty EXCEPT ![t] = d]
        /\ stored' = [stored EXCEPT ![a.round] = x]
        /\ UNCHANGED <<plan, contract, committed, revealSent>>
    BY <1>4 DEF LockForCommit, Action
  <2>2. d \in Duty
    BY <2>1 DEF Duty, Step
  <2>3. stored[a.round] = 0 \/ stored[a.round] = x
    BY DEF FreshSecret
  <2>4. a.round \notin revealSent
    BY <2>1 DEF DutyInv, RoundOK
  <2>5. drawn' \in 0..MaxSecrets
    <3>1. drawn \in 0..MaxSecrets /\ x \in 1..MaxSecrets
      BY <1>0, <2>1 DEF DutyTypeOK, Secret
    <3>2. x # stored[a.round] => x = drawn + 1
      BY DEF FreshSecret
    <3>3. drawn' = IF x # stored[a.round] THEN drawn + 1 ELSE drawn
      BY <1>4 DEF LockForCommit
    <3> QED
      BY <3>1, <3>2, <3>3
  <2>6. /\ d.step = "sign" /\ d.secret = x /\ d.on = a
        /\ d.created => stored[a.round] = 0
    BY <2>3
  <2> HIDE DEF x, d
  <2> QED
    BY <2>1, <2>2, <2>3, <2>4, <2>5, <2>6, LockOK
<1>5. ASSUME NEW t \in Tab, NEW a \in Action, LockForReveal(t, a) PROVE DutyInv'
  <2> DEFINE x == stored[a.round]
             d == [step |-> "sign", on |-> a, secret |-> x, created |-> FALSE]
  <2>1. /\ a.kind = "reveal" /\ a.round \in Round /\ x # 0
        /\ stage[a.round] = "closed" /\ roundLock[a.round] = NoTab
        /\ roundLock' = [roundLock EXCEPT ![a.round] = t]
        /\ duty' = [duty EXCEPT ![t] = d]
        /\ UNCHANGED <<stored, drawn, plan, contract, committed, revealSent>>
    BY <1>5 DEF LockForReveal, Action
  <2>2. x \in Secret
    BY <1>0, <2>1 DEF DutyTypeOK
  <2>3. d \in Duty /\ d.step = "sign" /\ d.secret = x /\ d.on = a
    BY <2>2 DEF Duty, Step
  <2>4. stored' = [stored EXCEPT ![a.round] = x] /\ drawn' \in 0..MaxSecrets
    BY <1>0, <2>1 DEF DutyTypeOK
  <2>5. a.kind # "commit" /\ stage[a.round] # "open"
    BY <2>1
  <2>6. stored[a.round] = x
    OBVIOUS
  <2> HIDE DEF x, d
  <2> QED
    BY <2>1, <2>2, <2>3, <2>4, <2>5, <2>6, LockOK
<1>6. ASSUME NEW t \in Tab, SignAnswers(t) PROVE DutyInv'
  <2>1. [duty[t] EXCEPT !.step = "publish"] \in Duty
    BY <1>0 DEF Duty, Step
  <2>2. /\ duty' = [duty EXCEPT ![t] = [duty[t] EXCEPT !.step = "publish"]]
        /\ duty[t].step = "sign"
        /\ UNCHANGED <<stored, drawn, roundLock, plan, contract, committed, revealSent>>
    BY <1>6 DEF SignAnswers, At
  <2>3. /\ duty'[t].step = "publish" /\ duty'[t].on = duty[t].on
        /\ duty'[t].secret = duty[t].secret
        /\ \A v \in Tab : v # t => duty'[v] = duty[v]
    BY <1>0, <2>2 DEF DutyTypeOK, Duty
  <2>4. ASSUME NEW v \in Tab PROVE DutyOK(v)'
    <3>1. CASE v = t
      BY <1>0, <2>2, <2>3, <3>1 DEF DutyOK, Holding, RoundOf, contract
    <3>2. CASE v # t
      BY <1>0, <2>2, <2>3, <3>2 DEF DutyOK, RoundOf, contract
    <3> QED
      BY <3>1, <3>2
  <2>5. DutyTypeOK'
    BY <1>0, <2>1, <2>2 DEF DutyTypeOK, contract
  <2> QED
    BY <2>2, <2>4, <2>5 DEF DutyInv, RoundOK, contract
<1>7. ASSUME NEW t \in Tab, SignFails(t) PROVE DutyInv'
  <2>1. /\ duty[t].step = "sign" /\ duty[t].step \in Holding /\ Leave(t)
        /\ UNCHANGED <<drawn, contract, committed, revealSent>>
    BY <1>7 DEF SignFails, At, Holding
  <2>2. CASE Forgets(duty[t])
    <3>1. stored' = [stored EXCEPT ![RoundOf(t)] = 0] /\ committed[RoundOf(t)] = {}
      BY <1>0, <1>7, <2>1, <2>2 DEF SignFails, Forgets, DutyOK, RoundOf
    <3> QED
      BY <2>1, <3>1, LeaveOK
  <2>3. CASE ~Forgets(duty[t])
    BY <1>7, <2>1, <2>3, LeaveOK DEF SignFails
  <2> QED
    BY <2>2, <2>3
<1>8. ASSUME NEW t \in Tab, Publish(t) PROVE DutyInv'
  <2> DEFINE q == RoundOf(t)
             x == duty[t].secret
             d == [duty[t] EXCEPT !.step = "wait"]
             u == [on |-> duty[t].on, secret |-> x]
  <2>1. /\ duty[t].step = "publish" /\ duty[t].on.kind \in {"commit", "reveal"} /\ q \in Round
        /\ duty' = [duty EXCEPT ![t] = d] /\ onTheWay' = onTheWay \cup {u}
        /\ UNCHANGED <<stored, drawn, roundLock, plan, commitOf, revealed, stage>>
    BY <1>0, <1>8 DEF Publish, At, Action
  <2>2. d \in Duty /\ d.step = "wait" /\ d.on = duty[t].on
    BY <1>0 DEF Duty, Step
  <2>3. x \in Secret
    BY <1>0, <2>1 DEF DutyOK
  <2>4. u \in [on : Action, secret : Secret] /\ u.on = duty[t].on /\ u.secret = x
    BY <1>0, <2>3
  <2>5. CASE duty[t].on.kind = "commit"
    <3>1. committed' = [committed EXCEPT ![q] = @ \cup {x}] /\ revealSent' = revealSent
      BY <1>8, <2>5 DEF Publish, RoundOf
    <3>2. stored[q] = x /\ committed[q] \subseteq {x} /\ roundLock[q] = t
      BY <1>0, <2>1, <2>5 DEF DutyOK, Holding
    <3>3. \A r \in Round : committed'[r] = IF r = q THEN {x} ELSE committed[r]
      BY <1>0, <2>1, <3>1, <3>2 DEF DutyTypeOK
    <3>4. committed' \in [Round -> SUBSET Secret]
      BY <1>0, <2>1, <2>3, <3>1 DEF DutyTypeOK
    <3>5. DutyTypeOK'
      BY <1>0, <2>1, <2>2, <2>4, <3>1, <3>4 DEF DutyTypeOK
    <3>6. \A v \in Tab : duty'[v] = IF v = t THEN d ELSE duty[v]
      BY <1>0, <2>1 DEF DutyTypeOK
    <3>7. ASSUME NEW v \in Tab PROVE DutyOK(v)'
      <4>1. CASE v = t
        <5>1. duty'[t].step = "wait" /\ duty'[t].on = duty[t].on
          BY <2>2, <3>6
        <5> QED
          BY <2>1, <2>5, <3>2, <4>1, <5>1 DEF DutyOK, RoundOf
      <4>2. CASE v # t /\ duty[v].step \notin Holding
        BY <3>6, <4>2 DEF DutyOK, Holding
      <4>3. CASE v # t /\ duty[v].step \in Holding
        <5>1. DutyOK(v) /\ RoundOf(v) \in Round /\ RoundOf(v) # q /\ duty'[v] = duty[v]
          BY <1>0, <3>2, <3>6, <4>3 DEF DutyOK
        <5>2. committed'[RoundOf(v)] = committed[RoundOf(v)]
          BY <3>3, <5>1
        <5> QED
          BY <2>1, <3>1, <5>1, <5>2 DEF DutyOK, RoundOf
      <4> QED
        BY <4>1, <4>2, <4>3
    <3>8. ASSUME NEW r \in Round PROVE RoundOK(r)'
      <4>1. RoundOK(r)
        BY DEF DutyInv
      <4>2. CASE r = q
        <5>1. committed'[r] = {x} /\ stored'[r] = x /\ committed[r] \subseteq {x}
          BY <2>1, <3>2, <3>3, <4>2
        <5> QED
          BY <2>1, <3>1, <4>1, <5>1 DEF RoundOK
      <4>3. CASE r # q
        BY <2>1, <3>1, <3>3, <4>1, <4>3 DEF RoundOK
      <4> QED
        BY <4>2, <4>3
    <3>9. ASSUME NEW w \in onTheWay', w.on.kind = "commit" PROVE w.secret \in committed'[w.on.round]
      <4>1. CASE w = u
        BY <2>1, <2>4, <3>3, <4>1 DEF RoundOf
      <4>2. CASE w \in onTheWay
        <5>1. w.secret \in committed[w.on.round] /\ w.on.round \in Round
          BY <1>0, <3>9, <4>2 DEF DutyInv, DutyTypeOK, Action
        <5> QED
          BY <1>0, <3>1, <5>1 DEF DutyTypeOK
      <4> QED
        BY <2>1, <3>9, <4>1, <4>2
    <3> QED
      BY <3>5, <3>7, <3>8, <3>9 DEF DutyInv
  <2>6. CASE duty[t].on.kind = "reveal"
    <3>1. committed' = committed /\ revealSent' = revealSent \cup {q}
      BY <1>8, <2>6 DEF Publish, RoundOf
    <3>2. stage[q] # "open" /\ roundLock[q] = t
      BY <1>0, <2>1, <2>6 DEF DutyOK, Holding
    <3>3. DutyTypeOK'
      BY <1>0, <2>1, <2>2, <2>4, <3>1 DEF DutyTypeOK
    <3>4. \A v \in Tab : duty'[v] = IF v = t THEN d ELSE duty[v]
      BY <1>0, <2>1 DEF DutyTypeOK
    <3>5. ASSUME NEW v \in Tab PROVE DutyOK(v)'
      <4>1. CASE v = t
        <5>1. duty'[t].step = "wait" /\ duty'[t].on = duty[t].on
          BY <2>2, <3>4
        <5> QED
          BY <2>1, <3>1, <3>2, <4>1, <5>1 DEF DutyOK, RoundOf
      <4>2. CASE v # t
        <5>1. DutyOK(v) /\ duty'[v] = duty[v]
          BY <1>0, <3>4, <4>2
        <5>2. /\ UNCHANGED <<roundLock, stored, stage, committed>>
              /\ revealSent \subseteq revealSent' /\ RoundOf(v)' = RoundOf(v)
          BY <2>1, <3>1, <5>1 DEF RoundOf
        <5> HIDE DEF q, x, d, u
        <5> QED
          BY <5>1, <5>2 DEF DutyOK
      <4> QED
        BY <4>1, <4>2
    <3>6. \A r \in Round : RoundOK(r)'
      BY <2>1, <3>1, <3>2 DEF DutyInv, RoundOK
    <3>7. u.on.kind # "commit"
      BY <2>4, <2>6
    <3> QED
      BY <2>1, <3>1, <3>3, <3>5, <3>6, <3>7 DEF DutyInv
  <2> QED
    BY <2>1, <2>5, <2>6
<1>9. ASSUME NEW t \in Tab, NEW ok \in BOOLEAN, PublishEnds(t, ok) PROVE DutyInv'
  <2>1. /\ duty[t].step = "wait" /\ duty[t].step \in Holding /\ Leave(t)
        /\ UNCHANGED <<drawn, contract, committed, revealSent>>
    BY <1>9 DEF PublishEnds, At, Holding
  <2>2. CASE ok /\ duty[t].on.kind = "reveal"
    <3>1. stored' = [stored EXCEPT ![RoundOf(t)] = 0] /\ RoundOf(t) \in revealSent
      BY <1>0, <1>9, <2>1, <2>2 DEF PublishEnds, DutyOK, RoundOf
    <3> QED
      BY <2>1, <3>1, LeaveOK
  <2>3. CASE ~(ok /\ duty[t].on.kind = "reveal")
    BY <1>9, <2>1, <2>3, LeaveOK DEF PublishEnds
  <2> QED
    BY <2>2, <2>3
<1>10. ASSUME NEW t \in Tab, Reload(t) PROVE DutyInv'
  <2>1. /\ \A v \in Tab : duty'[v] = IF v = t THEN Idle ELSE duty[v]
        /\ \A r \in Round : roundLock'[r] = IF roundLock[r] = t THEN NoTab ELSE roundLock[r]
        /\ UNCHANGED <<stored, drawn, contract, committed, revealSent>>
    BY <1>0, <1>10 DEF Reload, DutyTypeOK
  <2>2. DutyTypeOK'
    BY <1>0, <1>10 DEF Reload, DutyTypeOK, contract
  <2>3. ASSUME NEW v \in Tab PROVE DutyOK(v)'
    <3>1. CASE v = t
      BY <1>0, <2>1, <3>1 DEF DutyOK, Holding
    <3>2. CASE v # t
      BY <1>0, <2>1, <3>2 DEF DutyOK, RoundOf, contract
    <3> QED
      BY <3>1, <3>2
  <2> QED
    BY <2>1, <2>2, <2>3 DEF DutyInv, RoundOK, contract
<1>11. ASSUME NEW u \in onTheWay, Deliver(u) PROVE DutyInv'
  <2>1. /\ u.on.round \in Round /\ u.secret \in Secret
        /\ u.on.kind = "commit" => u.secret \in committed[u.on.round]
    BY <1>0 DEF DutyInv, DutyTypeOK, Action
  <2>2. /\ onTheWay' \subseteq onTheWay
        /\ UNCHANGED <<stored, drawn, roundLock, duty, plan, stage, committed, revealSent>>
        /\ \/ u.on.kind = "commit" /\ commitOf' = [commitOf EXCEPT ![u.on.round] = u.secret]
              /\ UNCHANGED revealed
           \/ revealed' = revealed \cup {u.on.round} /\ UNCHANGED commitOf
           \/ UNCHANGED <<commitOf, revealed>>
    BY <1>11 DEF Deliver
  <2>3. DutyTypeOK'
    BY <1>0, <2>1, <2>2 DEF DutyTypeOK
  <2>4. \A r \in Round : commitOf'[r] = commitOf[r] \/ commitOf'[r] \in committed[r]
    BY <1>0, <2>1, <2>2 DEF DutyTypeOK
  <2>5. \A r \in Round : RoundOK(r)'
    BY <2>2, <2>4 DEF DutyInv, RoundOK
  <2>6. \A v \in Tab : DutyOK(v)'
    BY <1>0, <2>2 DEF DutyOK, RoundOf
  <2> QED
    BY <2>2, <2>3, <2>5, <2>6 DEF DutyInv
<1>12. ASSUME NEW r \in Round, Advance(r) PROVE DutyInv'
  <2>1. /\ \A s \in Round : stage'[s] = stage[s] \/ stage'[s] \in {"closed", "finalized"}
        /\ stage' \in [Round -> {"open", "closed", "finalized"}] /\ revealed' \subseteq Round
        /\ UNCHANGED <<stored, drawn, roundLock, duty, plan, onTheWay, commitOf, committed, revealSent>>
    BY <1>0, <1>12 DEF Advance, DutyTypeOK
  <2>2. DutyTypeOK'
    BY <1>0, <2>1 DEF DutyTypeOK
  <2>3. \A s \in Round : RoundOK(s)'
    BY <2>1 DEF DutyInv, RoundOK
  <2>4. \A v \in Tab : DutyOK(v)'
    BY <1>0, <2>1 DEF DutyOK, RoundOf
  <2> QED
    BY <2>1, <2>2, <2>3, <2>4 DEF DutyInv
<1>13. CASE UNCHANGED dutyVars
  BY <1>0, <1>13 DEF dutyVars, contract, DutyInv, DutyTypeOK, DutyOK, RoundOK, RoundOf
<1> QED
  BY <1>2, <1>3, <1>4, <1>5, <1>6, <1>7, <1>8, <1>9, <1>10, <1>11, <1>12, <1>13
     DEF DutyNext, DutyStep

\* What tabs, localStorage and the contract hold is well formed, for any of them.
THEOREM DutyTypeCorrect == DutySpec => []DutyTypeOK
<1>1. DutyInv => DutyTypeOK
  BY DEF DutyInv
<1> QED
  BY <1>1, DutyInvInit, DutyStepOK, PTL DEF DutySpec

\* However many tabs race, crash and retry, a node publishes one commitment of a
\* round and keeps the secret that opens it until its reveal was sent.
THEOREM SecretOpensCommitAlways == DutySpec => []SecretOpensCommit
<1>1. ASSUME NEW S, \A a, b \in S : a = b PROVE Cardinality(S) <= 1
  <2>1. CASE S = {}
    BY <2>1, FS_EmptySet
  <2>2. CASE S # {}
    <3>1. PICK a \in S : S = {a}
      BY <1>1, <2>2
    <3> QED
      BY <3>1, FS_Singleton
  <2> QED
    BY <2>1, <2>2
<1>2. DutyInv => SecretOpensCommit
  BY <1>1 DEF DutyInv, RoundOK, SecretOpensCommit
<1> QED
  BY <1>2, DutyInvInit, DutyStepOK, PTL DEF DutySpec

-----------------------------------------------------------------------------
(***************************************************************************)
(* Consent.  Of the starts that wait for a delegate, only the latest has   *)
(* an effect, and it was asked for under the switches as they are.  An     *)
(* approval that is on, here or in what a restore will write back, has its *)
(* switch on; what a restore found valid, the delegate has held since.     *)
(***************************************************************************)
OnOK(a, c) == \A s \in Service : a[s] # NoAuth /\ a[s].on => c[s]

StartOK(st) ==
  /\ st.live \subseteq st.allowed
  /\ account # SignedOut /\ st.latest => \A s \in st.allowed : consent[s]

RestoreOK(r) ==
  /\ OnOK(r.auth, r.consent)
  /\ \A s \in Service : liveNode[s] \in Node => liveNode[s] \in r.held[s]
  /\ \A s \in r.valid :
       r.record[s] # NoAuth /\ r.record[s].owner = r.who /\ r.record[s].node \in r.held[s]

GoodsInv ==
  /\ GoodsTypeOK /\ WorkerNeedsConsent
  /\ ~mounted => worker = {} /\ starting = {}
  /\ OnOK(auth, consent)
  /\ \A st \in starting : StartOK(st)
  /\ \A r \in restore : RestoreOK(r)

LEMMA GoodsInvInit == GoodsInit => GoodsInv
<1> SUFFICES ASSUME GoodsInit PROVE GoodsInv
  OBVIOUS
<1>1. saveQueue \in Seq(Auths) /\ Len(saveQueue) <= MaxSaves
  BY GoodsAssumption DEF GoodsInit
<1>2. GoodsTypeOK
  BY <1>1 DEF GoodsInit, GoodsTypeOK
<1> QED
  BY <1>2 DEF GoodsInit, GoodsInv, WorkerNeedsConsent, OnOK

\* Stopped or not, a run is a run.
LEMMA WatchesOK ==
  ASSUME GoodsTypeOK, NEW on, Watches(on)
  PROVE  worker' = on /\ runs' \subseteq Run
<1>1. \A run \in Run : [run EXCEPT !.stopped = TRUE] \in Run
  BY DEF Run
<1> QED
  BY <1>1 DEF GoodsTypeOK, Watches

LEMMA ApplyOK ==
  ASSUME GoodsInv, NEW c \in [Service -> BOOLEAN], NEW a \in Auths,
         NEW who \in Account \cup {SignedOut}, ApplyConsent(c, a, who)
  PROVE  /\ worker' \subseteq Service /\ starting' \subseteq StartRecord /\ runs' \subseteq Run
         /\ ~mounted => worker' = {} /\ starting' = {}
         /\ \A st \in starting' : st.live \subseteq st.allowed
         /\ who # SignedOut =>
              /\ \A s \in worker' : c[s]
              /\ \A st \in starting' : st.latest => \A s \in st.allowed : c[s]
<1>0. /\ worker \subseteq Service /\ starting \subseteq StartRecord /\ runs \subseteq Run
      /\ GoodsTypeOK /\ \A st \in starting : st.live \subseteq st.allowed
      /\ ~mounted => worker = {} /\ starting = {}
  BY DEF GoodsInv, GoodsTypeOK, StartOK
<1>1. CASE who = SignedOut \/ ~mounted
  <2>1. UNCHANGED <<worker, starting, runs>>
    BY <1>1 DEF ApplyConsent
  <2> QED
    BY <1>0, <1>1, <2>1
<1>2. CASE who # SignedOut /\ mounted
  <2> DEFINE new == [allowed |-> Allowed(c, a, who), auth |-> a, who |-> who, latest |-> TRUE,
                     live |-> {}]
  <2>1. /\ Watches(worker \cap Allowed(c, a, who))
        /\ starting' = {[st EXCEPT !.latest = FALSE] : st \in starting} \cup {new}
    BY <1>2 DEF ApplyConsent
  <2>2. Allowed(c, a, who) \subseteq Service /\ \A s \in Allowed(c, a, who) : c[s]
    BY DEF Allowed
  <2>3. \A st \in starting :
          /\ [st EXCEPT !.latest = FALSE] \in StartRecord
          /\ ~[st EXCEPT !.latest = FALSE].latest
          /\ [st EXCEPT !.latest = FALSE].live \subseteq [st EXCEPT !.latest = FALSE].allowed
    BY <1>0 DEF StartRecord
  <2>4. new \in StartRecord /\ new.live = {} /\ \A s \in new.allowed : c[s]
    BY <1>2, <2>2 DEF StartRecord
  <2>5. worker' = worker \cap Allowed(c, a, who) /\ runs' \subseteq Run
    BY <1>0, <2>1, WatchesOK
  <2> HIDE DEF new
  <2>6. \A st \in starting' : /\ st \in StartRecord /\ st.live \subseteq st.allowed
                              /\ st.latest => \A s \in st.allowed : c[s]
    BY <2>1, <2>3, <2>4
  <2> QED
    BY <1>0, <1>2, <2>2, <2>5, <2>6
<1> QED
  BY <1>1, <1>2

\* What watches and what waits follows from ApplyConsent, the rest is types.
LEMMA AppliedOK ==
  ASSUME GoodsInv, ApplyConsent(consent', auth', account'), mounted' = mounted,
         consent' \in [Service -> BOOLEAN], auth' \in Auths, OnOK(auth', consent'),
         account' \in Account \cup {SignedOut}, UNCHANGED <<liveNode, vaultGoods>>,
         saveQueue' \in Seq(Auths), Len(saveQueue') <= MaxSaves, restore' \subseteq restore
  PROVE  GoodsInv'
<1>1. /\ worker' \subseteq Service /\ starting' \subseteq StartRecord /\ runs' \subseteq Run
      /\ ~mounted => worker' = {} /\ starting' = {}
      /\ \A st \in starting' : st.live \subseteq st.allowed
      /\ account' # SignedOut =>
           /\ \A s \in worker' : consent'[s]
           /\ \A st \in starting' : st.latest => \A s \in st.allowed : consent'[s]
  BY ApplyOK
<1>2. GoodsTypeOK'
  BY <1>1 DEF GoodsInv, GoodsTypeOK
<1>3. WorkerNeedsConsent' /\ \A st \in starting' : StartOK(st)'
  BY <1>1 DEF WorkerNeedsConsent, StartOK
<1>4. \A r \in restore' : RestoreOK(r)'
  BY DEF GoodsInv, RestoreOK
<1> QED
  BY <1>1, <1>2, <1>3, <1>4 DEF GoodsInv, OnOK

\* Nothing that watches or waits to changes, nor the switches.
LEMMA QuietOK ==
  ASSUME GoodsInv, UNCHANGED <<consent, account, mounted, worker, starting>>,
         auth' \in Auths, OnOK(auth', consent), runs' \subseteq Run,
         liveNode' \in [Service -> Node \cup {NoNode}], vaultGoods' \in [Account -> Auths],
         saveQueue' \in Seq(Auths), Len(saveQueue') <= MaxSaves,
         restore' \subseteq Restore, \A r \in restore' : RestoreOK(r)'
  PROVE  GoodsInv'
<1>1. GoodsTypeOK'
  BY DEF GoodsInv, GoodsTypeOK
<1>2. WorkerNeedsConsent' /\ \A st \in starting' : StartOK(st)'
  BY DEF GoodsInv, WorkerNeedsConsent, StartOK
<1> QED
  BY <1>1, <1>2 DEF GoodsInv, OnOK

\* The approvals and switches that a restore leaves.
LEMMA RestoredOK ==
  ASSUME GoodsInv, NEW r \in Restore, RestoreOK(r), Restored(r)
  PROVE  auth' \in Auths /\ consent' \in [Service -> BOOLEAN] /\ OnOK(auth', consent')
<1>1. /\ r.record \in Auths /\ r.auth \in Auths /\ r.consent \in [Service -> BOOLEAN]
      /\ auth \in Auths /\ consent \in [Service -> BOOLEAN] /\ OnOK(auth, consent)
      /\ OnOK(r.auth, r.consent) /\ \A s \in r.valid : r.record[s] \in Auth /\ r.record[s] # NoAuth
      /\ r.valid \subseteq Service
  BY DEF GoodsInv, GoodsTypeOK, Restore, RestoreOK, Auths
<1>2. auth' \in Auths
  BY <1>1 DEF Restored, Auths
<1>3. \A s \in Service : (s \in r.valid /\ r.record[s].on) \in BOOLEAN
  BY <1>1 DEF Auth
<1>4. consent' \in [Service -> BOOLEAN]
  BY <1>1, <1>3 DEF Restored
<1>5. ASSUME NEW s \in Service, auth'[s] # NoAuth, auth'[s].on PROVE consent'[s]
  <2>1. auth'[s] = IF s \notin r.services THEN r.auth[s] ELSE IF KeepsLocal(s) THEN auth[s]
                   ELSE IF s \in r.valid THEN r.record[s] ELSE NoAuth
    BY DEF Restored
  <2>2. consent'[s] = IF s \notin r.services THEN r.consent[s] ELSE IF KeepsLocal(s) THEN consent[s]
                      ELSE s \in r.valid /\ r.record[s].on
    BY DEF Restored
  <2> QED
    BY <1>1, <1>5, <2>1, <2>2 DEF OnOK
<1> QED
  BY <1>2, <1>4, <1>5 DEF OnOK

LEMMA CommitsOK ==
  ASSUME GoodsInv, NEW r \in Restore, RestoreOK(r), Commits(r), restore' \subseteq restore,
         UNCHANGED <<account, liveNode, vaultGoods, saveQueue, mounted>>
  PROVE  GoodsInv'
<1>0. GoodsTypeOK
  BY DEF GoodsInv
<1>1. CASE UNCHANGED <<auth, consent, worker, starting, runs>>
  <2>1. \A q \in restore' : q \in Restore /\ RestoreOK(q)'
    BY <1>0, <1>1 DEF GoodsInv, GoodsTypeOK, RestoreOK
  <2> QED
    BY <1>0, <1>1, <2>1, QuietOK DEF GoodsInv, GoodsTypeOK
<1>2. CASE Restored(r)
  <2>1. auth' \in Auths /\ consent' \in [Service -> BOOLEAN] /\ OnOK(auth', consent')
    BY <1>2, RestoredOK
  <2>2. ApplyConsent(consent', auth', account)
    BY <1>2 DEF Restored
  <2> QED
    BY <1>0, <2>1, <2>2, AppliedOK DEF GoodsTypeOK
<1> QED
  BY <1>1, <1>2 DEF Commits

\* What a restore notes when it begins.
LEMMA BegunOK ==
  ASSUME GoodsInv, account # SignedOut, NEW S \in SUBSET Service, NEW whole \in BOOLEAN
  PROVE  LET r == [services |-> S, record |-> vaultGoods[account], who |-> account, whole |-> whole,
                   auth |-> [s \in Service |-> IF s \in S THEN NoAuth ELSE auth[s]],
                   consent |-> [s \in Service |-> s \notin S /\ consent[s]],
                   asked |-> {}, valid |-> {}, held |-> [s \in Service |-> {liveNode[s]} \cap Node]]
         IN  r \in Restore /\ RestoreOK(r)
<1> DEFINE a == [s \in Service |-> IF s \in S THEN NoAuth ELSE auth[s]]
           c == [s \in Service |-> s \notin S /\ consent[s]]
           h == [s \in Service |-> {liveNode[s]} \cap Node]
           v == vaultGoods[account]
<1>1. a \in Auths /\ c \in [Service -> BOOLEAN] /\ h \in [Service -> SUBSET Node]
      /\ v \in Auths /\ account \in Account
  BY DEF GoodsInv, GoodsTypeOK, Auths
<1>2. OnOK(a, c)
  BY DEF GoodsInv, OnOK
<1>3. \A s \in Service : liveNode[s] \in Node => liveNode[s] \in h[s]
  OBVIOUS
<1> HIDE DEF a, c, h, v
<1> DEFINE r == [services |-> S, record |-> v, who |-> account, whole |-> whole, auth |-> a,
                 consent |-> c, asked |-> {}, valid |-> {}, held |-> h]
<1>4. r \in Restore /\ RestoreOK(r)
  BY <1>1, <1>2, <1>3 DEF Restore, RestoreOK
<1> QED
  BY <1>4 DEF a, c, h, v

\* A delegate holds another identity: what the restores noted grows.
LEMMA HeldOK ==
  ASSUME GoodsInv, NEW s \in Service, NEW n \in Node \cup {NoNode},
         liveNode' = [liveNode EXCEPT ![s] = n] \/ (liveNode' = liveNode /\ n = liveNode[s]),
         restore' = {[r EXCEPT !.held[s] = @ \cup ({n} \cap Node)] : r \in restore}
  PROVE  /\ liveNode' \in [Service -> Node \cup {NoNode}]
         /\ restore' \subseteq Restore /\ \A r \in restore' : RestoreOK(r)'
<1>0. liveNode \in [Service -> Node \cup {NoNode}] /\ restore \subseteq Restore
  BY DEF GoodsInv, GoodsTypeOK
<1>1. /\ liveNode' \in [Service -> Node \cup {NoNode}]
      /\ liveNode'[s] = n /\ \A x \in Service : x # s => liveNode'[x] = liveNode[x]
  BY <1>0
<1>2. ASSUME NEW r \in restore, NEW h, h = [r.held EXCEPT ![s] = @ \cup ({n} \cap Node)],
             NEW q, q = [r EXCEPT !.held = h]
      PROVE  q \in Restore /\ RestoreOK(q)'
  <2>1. r \in Restore /\ r.held \in [Service -> SUBSET Node] /\ RestoreOK(r)
        /\ r.valid \subseteq Service
    BY <1>0, <1>2 DEF Restore, GoodsInv
  <2>2. h \in [Service -> SUBSET Node] /\ (\A x \in Service : r.held[x] \subseteq h[x])
        /\ (n \in Node => n \in h[s])
    BY <1>2, <2>1
  <2>3. /\ q \in Restore /\ q.held = h /\ q.auth = r.auth /\ q.consent = r.consent
        /\ q.valid = r.valid /\ q.record = r.record /\ q.who = r.who
    BY <1>2, <2>1, <2>2 DEF Restore
  <2>4. \A x \in Service : liveNode'[x] \in Node => liveNode'[x] \in h[x]
    BY <1>1, <2>1, <2>2 DEF RestoreOK
  <2> QED
    BY <2>1, <2>2, <2>3, <2>4 DEF RestoreOK, OnOK
<1>3. ASSUME NEW q \in restore' PROVE q \in Restore /\ RestoreOK(q)'
  <2>1. PICK r \in restore : q = [r EXCEPT !.held[s] = @ \cup ({n} \cap Node)]
    OBVIOUS
  <2>2. q = [r EXCEPT !.held = [r.held EXCEPT ![s] = @ \cup ({n} \cap Node)]]
    BY <2>1
  <2> QED
    BY <1>2, <2>2
<1> QED
  BY <1>1, <1>3

LEMMA GoodsStep == GoodsInv /\ [GoodsNext]_goodsVars => GoodsInv'
<1> SUFFICES ASSUME GoodsInv, [GoodsNext]_goodsVars PROVE GoodsInv'
  OBVIOUS
<1>0. GoodsTypeOK /\ OnOK(auth, consent) /\ \A r \in restore : r \in Restore /\ RestoreOK(r)
  BY DEF GoodsInv, GoodsTypeOK
\* The queue of saves.
<1>1. ASSUME NEW a \in Auths, Len(saveQueue) < MaxSaves
      PROVE  Append(saveQueue, a) \in Seq(Auths) /\ Len(Append(saveQueue, a)) <= MaxSaves
  BY <1>0, <1>1, GoodsAssumption DEF GoodsTypeOK
\* Restores are as they were, and so are the identities of the delegates.
<1>2. ASSUME UNCHANGED <<restore, liveNode>>
      PROVE  restore' \subseteq Restore /\ \A r \in restore' : RestoreOK(r)'
  BY <1>0, <1>2 DEF RestoreOK
<1>3. CASE MountWorker
  BY <1>0, <1>2, <1>3 DEF MountWorker, GoodsInv, GoodsTypeOK, WorkerNeedsConsent, StartOK
<1>4. CASE Reapply
  BY <1>0, <1>4, AppliedOK DEF Reapply, GoodsTypeOK
<1>5. CASE Save
  <2>1. /\ Tail(saveQueue) \in Seq(Auths) /\ Len(Tail(saveQueue)) <= MaxSaves
        /\ Head(saveQueue) \in Auths
    BY <1>0, <1>5, GoodsAssumption DEF Save, GoodsTypeOK
  <2>2. vaultGoods' \in [Account -> Auths]
    BY <1>0, <1>5, <2>1 DEF Save, Saved, GoodsTypeOK
  <2> QED
    BY <1>0, <1>2, <1>5, <2>1, <2>2, QuietOK DEF Save, GoodsTypeOK
<1>6. ASSUME NEW who \in Account \cup {SignedOut}, ChangeAccount(who) PROVE GoodsInv'
  BY <1>0, <1>6, AppliedOK DEF ChangeAccount, GoodsTypeOK
<1>7. ASSUME NEW st \in starting, StartWorkers(st) PROVE GoodsInv'
  <2>1. runs' \subseteq Run /\ (worker' = worker \/ (st.latest /\ worker' = st.live))
    BY <1>0, <1>7, WatchesOK DEF StartWorkers, Current, GoodsTypeOK
  <2>2. /\ starting' \subseteq starting /\ st.live \subseteq st.allowed /\ st.allowed \subseteq Service
        /\ UNCHANGED <<consent, auth, account, liveNode, vaultGoods, saveQueue, restore, mounted>>
    BY <1>0, <1>7 DEF StartWorkers, GoodsInv, GoodsTypeOK, StartRecord, StartOK
  <2>3. GoodsTypeOK' /\ WorkerNeedsConsent'
    BY <1>0, <2>1, <2>2 DEF GoodsInv, GoodsTypeOK, WorkerNeedsConsent, StartOK
  <2>4. \A q \in starting' : StartOK(q)'
    BY <2>2 DEF GoodsInv, StartOK
  <2>5. mounted'
    BY <1>7, <2>2 DEF GoodsInv
  <2> QED
    BY <1>0, <1>2, <2>2, <2>3, <2>4, <2>5 DEF GoodsInv, OnOK
<1>8. ASSUME NEW st \in starting, NEW s \in Service, AnswerStart(st, s) PROVE GoodsInv'
  <2> DEFINE new == [st EXCEPT !.live = @ \cup {s}]
  <2>1. /\ starting' = (starting \ {st}) \cup {new} /\ s \in st.allowed
        /\ UNCHANGED <<consent, auth, account, liveNode, vaultGoods, saveQueue, restore, mounted,
                       worker, runs>>
    BY <1>8 DEF AnswerStart
  <2>2. st \in StartRecord /\ StartOK(st)
    BY <1>0 DEF GoodsInv, GoodsTypeOK
  <2>3. /\ new \in StartRecord /\ new.live = st.live \cup {s} /\ new.allowed = st.allowed
        /\ new.latest = st.latest
    BY <2>2 DEF StartRecord
  <2> HIDE DEF new
  <2>4. GoodsTypeOK'
    BY <1>0, <2>1, <2>3 DEF GoodsTypeOK
  <2>5. \A q \in starting' : q.live \subseteq q.allowed
                             /\ (account # SignedOut /\ q.latest => \A x \in q.allowed : consent[x])
    BY <2>1, <2>2, <2>3 DEF GoodsInv, StartOK
  <2>6. \A q \in starting' : StartOK(q)'
    BY <2>1, <2>5 DEF StartOK
  <2>7. mounted
    BY DEF GoodsInv
  <2> QED
    BY <1>0, <1>2, <2>1, <2>4, <2>6, <2>7 DEF GoodsInv, WorkerNeedsConsent, OnOK
<1>9. ASSUME NEW s \in Service, TickDuty(s) PROVE GoodsInv'
  <2>1. [of |-> s, step |-> "ask", node |-> NoNode, stopped |-> FALSE] \in Run
    BY DEF Run
  <2>2. runs' \subseteq Run
    BY <1>0, <1>9, <2>1 DEF TickDuty, GoodsTypeOK
  <2> QED
    BY <1>0, <1>2, <1>9, <2>2, QuietOK DEF TickDuty, GoodsTypeOK
<1>10. ASSUME NEW run \in runs, AnswerRun(run) \/ CheckWitness(run) \/ EndRun(run)
       PROVE  GoodsInv'
  <2>1. run \in Run /\ liveNode[run.of] \in Node \cup {NoNode}
    BY <1>0 DEF GoodsTypeOK, Run
  <2>2. /\ [run EXCEPT !.step = "sign"] \in Run
        /\ [run EXCEPT !.step = "check", !.node = liveNode[run.of]] \in Run
    BY <2>1 DEF Run
  <2>3. PICK rest \in SUBSET Run : Becomes(run, rest)
    BY <1>10, <2>2 DEF AnswerRun, CheckWitness, EndRun
  <2>4. runs' \subseteq Run
    BY <1>0, <2>3 DEF Becomes, GoodsTypeOK
  <2> QED
    BY <1>0, <1>2, <2>3, <2>4, QuietOK DEF Becomes, GoodsTypeOK
<1>11. ASSUME NEW s \in Service, NEW n \in Node, InitializeService(s, n) PROVE GoodsInv'
  <2>1. liveNode' \in [Service -> Node \cup {NoNode}] /\ liveNode'[s] \in Node
    BY <1>0, <1>11 DEF InitializeService, GoodsTypeOK
  <2> DEFINE m == liveNode'[s]
             on == auth[s] # NoAuth /\ auth[s].node = liveNode'[s] /\ auth[s].on
             new == [owner |-> account, node |-> liveNode'[s], on |-> on]
  <2>2. on \in BOOLEAN /\ (on => consent[s])
    BY <1>0 DEF GoodsTypeOK, Auths, Auth, OnOK
  <2>3. account \in Account /\ auth' = [auth EXCEPT ![s] = new]
    BY <1>0, <1>11 DEF InitializeService, GoodsTypeOK
  <2> HIDE DEF on
  <2>4. new \in Auth /\ new.on = on
    BY <2>1, <2>2, <2>3 DEF Auth
  <2>5. auth' \in Auths
    BY <1>0, <2>3, <2>4 DEF GoodsTypeOK, Auths
  <2>6. OnOK(auth', consent)
    BY <1>0, <2>2, <2>3, <2>4 DEF GoodsTypeOK, Auths, OnOK
  <2>7. restore' \subseteq Restore /\ \A r \in restore' : RestoreOK(r)'
    <3>1. liveNode' = IF liveNode[s] = NoNode THEN [liveNode EXCEPT ![s] = n] ELSE liveNode
      BY <1>11 DEF InitializeService
    <3>2. PICK k : k = liveNode'[s]
      OBVIOUS
    <3>3. k \in Node /\ (liveNode' = [liveNode EXCEPT ![s] = k] \/ (liveNode' = liveNode /\ k = liveNode[s]))
      BY <1>0, <2>1, <3>1, <3>2 DEF GoodsTypeOK
    <3>4. restore' = {[r EXCEPT !.held[s] = @ \cup ({k} \cap Node)] : r \in restore}
      <4>1. {k} \cap Node = {k}
        BY <3>3
      <4> QED
        BY <1>11, <3>2, <4>1 DEF InitializeService
    <3> QED
      BY <3>3, <3>4, HeldOK
  <2> QED
    BY <1>0, <1>1, <1>11, <2>1, <2>5, <2>6, <2>7, QuietOK DEF InitializeService, GoodsTypeOK
<1>12. ASSUME NEW s \in Service, NEW on \in BOOLEAN, Toggle(s, on) PROVE GoodsInv'
  <2>1. auth[s] \in Auth
    BY <1>0, <1>12 DEF Toggle, GoodsTypeOK, Auths
  <2> DEFINE new == [auth[s] EXCEPT !.on = on]
  <2>2. new \in Auth /\ new.on = on
    BY <2>1 DEF Auth
  <2>3. auth' = [auth EXCEPT ![s] = new] /\ consent' = [consent EXCEPT ![s] = on]
    BY <1>12 DEF Toggle
  <2> HIDE DEF new
  <2>4. auth' \in Auths /\ consent' \in [Service -> BOOLEAN] /\ OnOK(auth', consent')
    BY <1>0, <2>2, <2>3 DEF GoodsTypeOK, Auths, OnOK
  <2>5. /\ ApplyConsent(consent', auth', account) /\ saveQueue' = Append(saveQueue, auth')
        /\ Len(saveQueue) < MaxSaves
        /\ UNCHANGED <<account, liveNode, vaultGoods, restore, mounted>>
    BY <1>12 DEF Toggle
  <2> QED
    BY <1>0, <1>1, <2>4, <2>5, AppliedOK DEF GoodsTypeOK
<1>13. ASSUME NEW whole \in BOOLEAN, BeginRestore(whole) PROVE GoodsInv'
  <2> DEFINE S == IF whole THEN Service ELSE {s \in Service : auth[s] = NoAuth}
             r == [services |-> S, record |-> vaultGoods[account], who |-> account, whole |-> whole,
                   auth |-> [s \in Service |-> IF s \in S THEN NoAuth ELSE auth[s]],
                   consent |-> [s \in Service |-> s \notin S /\ consent[s]],
                   asked |-> {}, valid |-> {}, held |-> [s \in Service |-> {liveNode[s]} \cap Node]]
  <2>1. /\ account # SignedOut
        /\ IF ToAsk(r) = {} THEN Commits(r) /\ UNCHANGED restore
           ELSE restore' = {r} /\ UNCHANGED <<auth, consent, worker, starting, runs>>
        /\ UNCHANGED <<account, liveNode, vaultGoods, saveQueue, mounted>>
    BY <1>13 DEF BeginRestore
  <2>2. r \in Restore /\ RestoreOK(r)
    BY <2>1, BegunOK
  <2>3. PICK q : q = r
    OBVIOUS
  <2> HIDE DEF r
  <2>4. CASE ToAsk(r) = {}
    BY <2>1, <2>2, <2>3, <2>4, CommitsOK
  <2>5. CASE ToAsk(r) # {}
    <3>1. restore' = {q} /\ UNCHANGED <<auth, consent, worker, starting, runs>>
      BY <2>1, <2>3, <2>5
    <3>2. q \in Restore /\ RestoreOK(q)
      BY <2>2, <2>3
    <3>3. restore' \subseteq Restore /\ \A x \in restore' : RestoreOK(x)'
      BY <2>1, <3>1, <3>2 DEF RestoreOK
    <3> QED
      BY <1>0, <2>1, <3>1, <3>3, QuietOK DEF GoodsTypeOK
  <2> QED
    BY <2>4, <2>5
<1>14. ASSUME NEW r \in restore, Validate(r) PROVE GoodsInv'
  <2>1. PICK s \in ToAsk(r) : AskDelegate(r, s)
    <3>1. (CHOOSE x \in ToAsk(r) : TRUE) \in ToAsk(r)
      BY <1>14 DEF Validate
    <3> QED
      BY <1>14, <3>1 DEF Validate
  <2>2. PICK now : now = [r EXCEPT !.asked = @ \cup {s}]
    OBVIOUS
  <2>3. r \in Restore /\ RestoreOK(r) /\ s \in Service /\ r.record[s] \in Auth
        /\ r.record[s] # NoAuth /\ r.record[s].owner = r.who
    BY <1>0, <2>1 DEF ToAsk, Restore, Auths
  <2>4. PICK q : /\ restore' = (restore \ {r}) \cup {q} /\ q \in Restore
                 /\ q.held = r.held /\ q.auth = r.auth /\ q.consent = r.consent
                 /\ q.record = r.record /\ q.who = r.who
                 /\ q.valid = r.valid \/ (q.valid = r.valid \cup {s} /\ Matches(r, s))
    <3>1. /\ now \in Restore /\ now.held = r.held /\ now.auth = r.auth /\ now.consent = r.consent
          /\ now.record = r.record /\ now.who = r.who /\ now.valid = r.valid
      BY <2>2, <2>3 DEF Restore
    <3>2. PICK found : found = [now EXCEPT !.valid = r.valid \cup {s}]
      OBVIOUS
    <3>3. /\ found \in Restore /\ found.held = r.held /\ found.auth = r.auth
          /\ found.consent = r.consent /\ found.record = r.record /\ found.who = r.who
          /\ found.valid = r.valid \cup {s}
      BY <2>3, <3>1, <3>2 DEF Restore
    <3>4. \/ restore' = (restore \ {r}) \cup {now}
          \/ Matches(r, s) /\ restore' = (restore \ {r}) \cup {found}
      BY <2>1, <2>2, <3>2 DEF AskDelegate
    <3> QED
      BY <3>1, <3>3, <3>4
  <2>5. Matches(r, s) => r.record[s].node \in r.held[s]
    BY <2>3 DEF Matches, RestoreOK, Auth
  <2>6. RestoreOK(q)
    BY <2>3, <2>4, <2>5 DEF RestoreOK
  <2>7. UNCHANGED <<consent, auth, account, liveNode, vaultGoods, saveQueue, mounted, worker,
                    starting, runs>>
    BY <1>14 DEF Validate
  <2>8. restore' \subseteq Restore /\ \A x \in restore' : RestoreOK(x)
    BY <1>0, <2>4, <2>6
  <2>9. \A x \in restore' : RestoreOK(x)'
    BY <2>7, <2>8 DEF RestoreOK
  <2> QED
    BY <1>0, <2>7, <2>8, <2>9, QuietOK DEF GoodsTypeOK
<1>15. ASSUME NEW r \in restore, CommitRestore(r) PROVE GoodsInv'
  BY <1>0, <1>15, CommitsOK DEF CommitRestore
<1>16. ASSUME NEW s \in Service, NEW n \in Node \cup {NoNode}, OtherApp(s, n) PROVE GoodsInv'
  <2>1. /\ liveNode' \in [Service -> Node \cup {NoNode}]
        /\ restore' \subseteq Restore /\ \A r \in restore' : RestoreOK(r)'
    BY <1>16, HeldOK DEF OtherApp
  <2> QED
    BY <1>0, <1>16, <2>1, QuietOK DEF OtherApp, GoodsTypeOK
<1>17. CASE UNCHANGED goodsVars
  BY <1>0, <1>2, <1>17, QuietOK DEF goodsVars, GoodsTypeOK
<1> QED
  BY <1>3, <1>4, <1>5, <1>6, <1>7, <1>8, <1>9, <1>10, <1>11, <1>12, <1>13, <1>14, <1>15, <1>16,
     <1>17 DEF GoodsNext

\* Approvals, vaults, restores, starts and runs are well formed, for any services,
\* accounts and bounds.
THEOREM GoodsTypeCorrect == GoodsSpec => []GoodsTypeOK
<1>1. GoodsInv => GoodsTypeOK
  BY DEF GoodsInv
<1> QED
  BY <1>1, GoodsInvInit, GoodsStep, PTL DEF GoodsSpec

\* While somebody is signed in a tab watches no service whose switch is off, whatever
\* starts and restores were waiting when it was switched off.
THEOREM WorkerNeedsConsentAlways == GoodsSpec => []WorkerNeedsConsent
<1>1. GoodsInv => WorkerNeedsConsent
  BY DEF GoodsInv
<1> QED
  BY <1>1, GoodsInvInit, GoodsStep, PTL DEF GoodsSpec

\* Only a run that found its witness comes to sign.
LEMMA ComesOK ==
  ASSUME GoodsInv, GoodsNext, NEW run \in runs, Comes(run)
  PROVE  \E q \in runs : CheckWitness(q) /\ Witness(q) /\ q.of = run.of
<1> DEFINE sign == [run EXCEPT !.step = "sign"]
<1>0. /\ run \in Run /\ runs \subseteq Run /\ run.step = "check" /\ run \notin runs'
      /\ sign \in runs' /\ sign \notin runs
      /\ sign \in Run /\ sign.step = "sign" /\ sign.of = run.of /\ sign.stopped = run.stopped
  BY DEF GoodsInv, GoodsTypeOK, Comes, Run
<1> HIDE DEF sign
<1>1. ASSUME NEW on, Watches(on) PROVE FALSE
  <2>1. runs' = {IF q.of \in on THEN q ELSE [q EXCEPT !.stopped = TRUE] : q \in runs}
    BY <1>1 DEF Watches
  <2>2. PICK q \in runs : sign = IF q.of \in on THEN q ELSE [q EXCEPT !.stopped = TRUE]
    BY <1>0, <2>1
  <2>3. sign.stopped = TRUE
    BY <1>0, <2>2 DEF Run
  <2>4. [run EXCEPT !.stopped = TRUE] = run
    BY <1>0, <2>3 DEF Run
  <2>5. run \in runs'
    BY <2>1, <2>4
  <2> QED
    BY <1>0, <2>5
<1>2. ASSUME NEW c, NEW a, NEW who, ApplyConsent(c, a, who) PROVE FALSE
  <2>1. CASE who = SignedOut \/ ~mounted
    BY <1>0, <1>2, <2>1 DEF ApplyConsent
  <2>2. CASE who # SignedOut /\ mounted
    <3>1. Watches(worker \cap Allowed(c, a, who))
      BY <1>2, <2>2 DEF ApplyConsent
    <3> QED
      BY <1>1, <3>1
  <2> QED
    BY <2>1, <2>2
<1>3. ASSUME NEW r, Commits(r) PROVE FALSE
  <2>1. UNCHANGED runs \/ ApplyConsent(consent', auth', account)
    BY <1>3 DEF Commits, Restored
  <2> QED
    BY <1>0, <1>2, <2>1
<1>4. \/ Reapply \/ \E who \in Account \cup {SignedOut} : ChangeAccount(who)
      \/ \E st \in starting : StartWorkers(st)
      \/ \E q \in runs : AnswerRun(q) \/ CheckWitness(q) \/ EndRun(q)
      \/ \E s \in Service : TickDuty(s) \/ \E on \in BOOLEAN : Toggle(s, on)
      \/ \E whole \in BOOLEAN : BeginRestore(whole)
      \/ \E r \in restore : CommitRestore(r)
  BY <1>0 DEF GoodsNext, MountWorker, Save, AnswerStart, InitializeService, Validate, OtherApp
<1>5. ~Reapply
  BY <1>2 DEF Reapply
<1>6. \A who \in Account \cup {SignedOut} : ~ChangeAccount(who)
  BY <1>2 DEF ChangeAccount
<1>7. \A st \in starting : ~StartWorkers(st)
  BY <1>0, <1>1 DEF StartWorkers
<1>8. \A s \in Service : ~TickDuty(s) /\ \A on \in BOOLEAN : ~Toggle(s, on)
  BY <1>0, <1>2 DEF TickDuty, Toggle
<1>9. \A whole \in BOOLEAN : ~BeginRestore(whole)
  BY <1>0, <1>3 DEF BeginRestore
<1>10. \A r \in restore : ~CommitRestore(r)
  BY <1>3 DEF CommitRestore
<1>11. PICK q \in runs : AnswerRun(q) \/ CheckWitness(q) \/ EndRun(q)
  BY <1>4, <1>5, <1>6, <1>7, <1>8, <1>9, <1>10
<1>12. ~EndRun(q)
  BY <1>0 DEF EndRun, Becomes
<1>13. ~AnswerRun(q)
  BY <1>0 DEF AnswerRun, Becomes, Run
<1>14. CheckWitness(q)
  BY <1>11, <1>12, <1>13
<1>15. Witness(q) /\ sign = [q EXCEPT !.step = "sign"]
  BY <1>0, <1>14 DEF CheckWitness, Becomes
<1>16. sign.of = q.of
  BY <1>0, <1>15 DEF Run
<1> QED
  BY <1>0, <1>14, <1>15, <1>16

\* No run of a duty comes to sign in a tab whose switch is off, for any number of runs
\* that the watches left behind.
THEOREM SignsOnlyWhileOnAlways == GoodsSpec => SignsOnlyWhileOn
<1>1. ASSUME GoodsInv, GoodsNext, NEW run \in runs, Comes(run)
      PROVE  account # SignedOut /\ consent[run.of]
  <2>1. PICK q \in runs : Witness(q) /\ q.of = run.of
    BY <1>1, ComesOK
  <2>2. run.of \in Service
    BY <1>1 DEF GoodsInv, GoodsTypeOK, Run
  <2>3. /\ auth[run.of] # NoAuth /\ auth[run.of].on /\ auth[run.of].owner = account
        /\ auth[run.of] \in Auth
    BY <1>1, <2>1, <2>2 DEF Witness, Approved, GoodsInv, GoodsTypeOK, Auths
  <2>4. account \in Account
    BY <2>3 DEF Auth
  <2> QED
    BY <1>1, <2>2, <2>3, <2>4, GoodsAssumption DEF GoodsInv, OnOK
<1>2. GoodsInv /\ [GoodsNext]_goodsVars =>
        [\A run \in runs : Comes(run) => account # SignedOut /\ consent[run.of]]_goodsVars
  BY <1>1
<1> QED
  BY <1>2, GoodsInvInit, GoodsStep, PTL DEF GoodsSpec, SignsOnlyWhileOn

\* A restore takes over no approval of another account, nor one of an identity that the
\* delegate did not hold while it went on; and what changed meanwhile stays.
THEOREM RestoredIsLiveAlways == GoodsSpec => RestoredIsLive
<1> DEFINE Result(r, s) ==
       \/ auth'[s] = auth[s] /\ consent'[s] = consent[s]
       \/ /\ auth[s] = NoAuth /\ auth'[s] = NoAuth /\ ~consent'[s]
       \/ /\ auth[s] = NoAuth /\ auth'[s].owner = r.who /\ auth'[s].node \in r.held[s]
          /\ consent'[s] = auth'[s].on
<1>1. ASSUME GoodsInv, GoodsNext, restore' = {}, NEW r \in restore, NEW s \in r.services
      PROVE  Result(r, s)
  <2>0. r \in Restore /\ RestoreOK(r) /\ s \in Service
    BY <1>1 DEF GoodsInv, GoodsTypeOK, Restore
  <2>1. PICK q \in restore : CommitRestore(q)
    <3>1. restore' # restore
      BY <1>1
    <3>2. \/ \E n \in Service, m \in Node : InitializeService(n, m)
          \/ \E n \in Service, m \in Node \cup {NoNode} : OtherApp(n, m)
          \/ \E whole \in BOOLEAN : BeginRestore(whole)
          \/ \E q \in restore : Validate(q) \/ CommitRestore(q)
      BY <1>1, <3>1 DEF GoodsNext, MountWorker, Reapply, Save, ChangeAccount, StartWorkers,
         AnswerStart, TickDuty, AnswerRun, CheckWitness, EndRun, Becomes, Toggle
    <3>3. \A n, m : ~InitializeService(n, m)
      <4>1. \A n, m : InitializeService(n, m) =>
              restore' = {[o EXCEPT !.held[n] = @ \cup {liveNode'[n]}] : o \in restore}
        BY DEF InitializeService
      <4> QED
        BY <1>1, <4>1
    <3>4. \A n, m : ~OtherApp(n, m)
      <4>1. \A n, m : OtherApp(n, m) =>
              restore' = {[o EXCEPT !.held[n] = @ \cup ({m} \cap Node)] : o \in restore}
        BY DEF OtherApp
      <4> QED
        BY <1>1, <4>1
    <3>5. \A whole \in BOOLEAN : ~BeginRestore(whole)
      BY <1>1 DEF BeginRestore
    <3>6. \A q : ~Validate(q)
      <4>1. ASSUME NEW q, NEW n, AskDelegate(q, n) PROVE restore' # {}
        BY <4>1 DEF AskDelegate
      <4> QED
        BY <1>1, <4>1 DEF Validate
    <3> QED
      BY <3>2, <3>3, <3>4, <3>5, <3>6
  <2>2. Commits(r)
    BY <1>1, <2>1 DEF CommitRestore
  <2>3. CASE UNCHANGED <<auth, consent, worker, starting, runs>>
    BY <2>3
  <2>4. CASE Restored(r)
    <3>1. auth'[s] = IF KeepsLocal(s) THEN auth[s] ELSE IF s \in r.valid THEN r.record[s] ELSE NoAuth
      BY <1>1, <2>0, <2>4 DEF Restored
    <3>2. consent'[s] = IF KeepsLocal(s) THEN consent[s] ELSE s \in r.valid /\ r.record[s].on
      BY <1>1, <2>0, <2>4 DEF Restored
    <3>3. s \in r.valid => r.record[s].owner = r.who /\ r.record[s].node \in r.held[s]
                           /\ r.record[s].on \in BOOLEAN
      BY <2>0 DEF RestoreOK, Restore, Auths, Auth
    <3> QED
      BY <3>1, <3>2, <3>3 DEF KeepsLocal
  <2> QED
    BY <2>2, <2>3, <2>4 DEF Commits
<1>2. GoodsInv /\ [GoodsNext]_goodsVars =>
        [restore' = {} => \A r \in restore : \A s \in r.services : Result(r, s)]_goodsVars
  BY <1>1
<1> QED
  BY <1>2, GoodsInvInit, GoodsStep, PTL DEF GoodsSpec, RestoredIsLive
=============================================================================
