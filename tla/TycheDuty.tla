----------------------------- MODULE TycheDuty -----------------------------
(***************************************************************************)
(* Tyche's commit-and-reveal rounds, as the tabs of one browser take part  *)
(* in them (web/src/freenet/tyche-duty.ts). The secret of a round is in    *)
(* the localStorage that the tabs share; a Web Lock per round lets one tab *)
(* at a time read the round, sign and publish.                             *)
(***************************************************************************)
EXTENDS Naturals, FiniteSets

CONSTANTS
  Tab,
  Round,
  NoTab,
  MaxSecrets   \* bound on the secrets that are drawn

ASSUME DutyAssumption == Round # {} /\ NoTab \notin Tab /\ MaxSecrets \in Nat

VARIABLES
  stored,      \* the secret in localStorage, 0 when there is none
  drawn,       \* secrets drawn so far
  roundLock,   \* the tab that holds tyche.auto.lock of a round
  duty,        \* of each tab: the step of runTycheDuty and what it works on
  plan,        \* the actions each tab has still to try
  onTheWay,    \* updates sent to the contract and not yet carried out
  commitOf,    \* the secret our commitment on the contract hides, or 0
  revealed,    \* rounds with our reveal, or a recovery of our secret
  stage,       \* "open", "closed" or "finalized"
  committed,   \* the secrets whose signed commitments were ever published
  revealSent   \* rounds whose signed reveal was ever published

dutyVars == <<stored, drawn, roundLock, duty, plan, onTheWay, commitOf,
              revealed, stage, committed, revealSent>>

contract == <<onTheWay, commitOf, revealed, stage>>

Action == [kind : {"commit", "reveal"}, round : Round]
Secret == 1..MaxSecrets

Step == {"idle", "plan", "next", "sign", "publish", "wait"}
Duty == [step : Step, on : Action, secret : Secret \cup {0}, created : BOOLEAN]
Idle == [step |-> "idle", on |-> CHOOSE a \in Action : TRUE, secret |-> 0, created |-> FALSE]

At(t, step) == duty[t].step = step

\* randomSecret under the lock, only when localStorage has none.
FreshSecret_Always(r) == drawn + 1

FreshSecret(r) == IF stored[r] # 0 THEN stored[r] ELSE drawn + 1

\* tick: a tick that finds the duty busy is run when it has ended.
StartDuty(t) ==
  /\ At(t, "idle")
  /\ duty' = [duty EXCEPT ![t].step = "plan"]
  /\ UNCHANGED <<stored, drawn, roundLock, plan, contract, committed, revealSent>>

\* planTycheDuty on the state that was read; or no state, no identity, no approval.
Planned ==
  {a \in Action :
     IF a.kind = "commit" THEN stage[a.round] = "open" /\ commitOf[a.round] = 0
     ELSE /\ stage[a.round] = "closed" /\ commitOf[a.round] # 0
          /\ a.round \notin revealed /\ stored[a.round] # 0}

Plan(t) ==
  /\ At(t, "plan")
  /\ \/ plan' = [plan EXCEPT ![t] = Planned] /\ duty' = [duty EXCEPT ![t].step = "next"]
     \/ plan' = plan /\ duty' = [duty EXCEPT ![t] = Idle]
  /\ UNCHANGED <<stored, drawn, roundLock, contract, committed, revealSent>>

EndDuty(t) ==
  /\ At(t, "next") /\ plan[t] = {}
  /\ duty' = [duty EXCEPT ![t] = Idle]
  /\ UNCHANGED <<stored, drawn, roundLock, plan, contract, committed, revealSent>>

\* Without an answer, or when the round has moved on, the action is dropped.
SkipAction(t, a) ==
  /\ At(t, "next") /\ a \in plan[t]
  /\ plan' = [plan EXCEPT ![t] = @ \ {a}]
  /\ UNCHANGED <<stored, drawn, roundLock, duty, contract, committed, revealSent>>

\* A second tab may hold the lock; the round is read again under it.
LockForCommit(t, a) ==
  /\ At(t, "next") /\ a \in plan[t] /\ a.kind = "commit" /\ roundLock[a.round] = NoTab
  /\ stage[a.round] = "open" /\ commitOf[a.round] = 0
  /\ FreshSecret(a.round) \in Secret
  /\ roundLock' = [roundLock EXCEPT ![a.round] = t]
  /\ duty' = [duty EXCEPT ![t] = [step |-> "sign", on |-> a, secret |-> FreshSecret(a.round),
                                  created |-> FreshSecret(a.round) # stored[a.round]]]
  /\ drawn' = IF FreshSecret(a.round) # stored[a.round] THEN drawn + 1 ELSE drawn
  /\ stored' = [stored EXCEPT ![a.round] = FreshSecret(a.round)]
  /\ UNCHANGED <<plan, contract, committed, revealSent>>

LockForReveal(t, a) ==
  /\ At(t, "next") /\ a \in plan[t] /\ a.kind = "reveal" /\ roundLock[a.round] = NoTab
  /\ stage[a.round] = "closed" /\ a.round \notin revealed /\ stored[a.round] # 0
  /\ roundLock' = [roundLock EXCEPT ![a.round] = t]
  /\ duty' = [duty EXCEPT ![t] = [step |-> "sign", on |-> a, secret |-> stored[a.round], created |-> FALSE]]
  /\ UNCHANGED <<stored, drawn, plan, contract, committed, revealSent>>

\* The end of an action, whatever became of it: the next one, and the lock is free.
Leave(t) ==
  /\ duty' = [duty EXCEPT ![t] = [Idle EXCEPT !.step = "next"]]
  /\ plan' = [plan EXCEPT ![t] = @ \ {duty[t].on}]
  /\ roundLock' = [roundLock EXCEPT ![duty[t].on.round] = NoTab]

SignAnswers(t) ==
  /\ At(t, "sign")
  /\ duty' = [duty EXCEPT ![t].step = "publish"]
  /\ UNCHANGED <<stored, drawn, roundLock, plan, contract, committed, revealSent>>

\* Only a secret this attempt drew is forgotten.
Forgets(d) == d.on.kind = "commit" /\ d.created

SignFails(t) ==
  /\ At(t, "sign")
  /\ Leave(t)
  /\ stored' = IF Forgets(duty[t]) THEN [stored EXCEPT ![duty[t].on.round] = 0] ELSE stored
  /\ UNCHANGED <<drawn, contract, committed, revealSent>>

Publish(t) ==
  /\ At(t, "publish")
  /\ duty' = [duty EXCEPT ![t].step = "wait"]
  /\ onTheWay' = onTheWay \cup {[on |-> duty[t].on, secret |-> duty[t].secret]}
  /\ IF duty[t].on.kind = "commit"
       THEN /\ committed' = [committed EXCEPT ![duty[t].on.round] = @ \cup {duty[t].secret}]
            /\ UNCHANGED revealSent
       ELSE revealSent' = revealSent \cup {duty[t].on.round} /\ UNCHANGED committed
  /\ UNCHANGED <<stored, drawn, roundLock, plan, commitOf, revealed, stage>>

\* updateContract resolves, on the answer or on any notification of the contract:
\* a reveal that counts as published is forgotten. It rejects: all is kept.
PublishEnds(t, ok) ==
  /\ At(t, "wait")
  /\ Leave(t)
  /\ stored' = IF ok /\ duty[t].on.kind = "reveal" THEN [stored EXCEPT ![duty[t].on.round] = 0] ELSE stored
  /\ UNCHANGED <<drawn, contract, committed, revealSent>>

\* The tab is closed or reloaded: its locks are free, localStorage stays.
Reload(t) ==
  /\ ~At(t, "idle")
  /\ duty' = [duty EXCEPT ![t] = Idle]
  /\ plan' = [plan EXCEPT ![t] = {}]
  /\ roundLock' = [r \in Round |-> IF roundLock[r] = t THEN NoTab ELSE roundLock[r]]
  /\ UNCHANGED <<stored, drawn, contract, committed, revealSent>>

\* The contract takes the first commitment while the round is open, and its
\* reveal when it is closed; an update may also be refused or lost.
Deliver(u) ==
  /\ u \in onTheWay
  /\ onTheWay' = onTheWay \ {u}
  /\ LET r == u.on.round
     IN \/ /\ u.on.kind = "commit" /\ stage[r] = "open" /\ commitOf[r] = 0
           /\ commitOf' = [commitOf EXCEPT ![r] = u.secret] /\ UNCHANGED revealed
        \/ /\ u.on.kind = "reveal" /\ stage[r] = "closed" /\ commitOf[r] = u.secret
           /\ revealed' = revealed \cup {r} /\ UNCHANGED commitOf
        \/ UNCHANGED <<commitOf, revealed>>
  /\ UNCHANGED <<stored, drawn, roundLock, duty, plan, stage, committed, revealSent>>

\* Others close and finalize rounds, and may recover what we do not reveal.
Advance(r) ==
  /\ \/ stage[r] = "open" /\ stage' = [stage EXCEPT ![r] = "closed"] /\ UNCHANGED revealed
     \/ stage[r] = "closed" /\ stage' = [stage EXCEPT ![r] = "finalized"] /\ UNCHANGED revealed
     \/ /\ stage[r] = "closed" /\ commitOf[r] # 0 /\ r \notin revealed
        /\ revealed' = revealed \cup {r} /\ UNCHANGED stage
  /\ UNCHANGED <<stored, drawn, roundLock, duty, plan, onTheWay, commitOf, committed, revealSent>>

DutyInit ==
  /\ stored = [r \in Round |-> 0] /\ drawn = 0
  /\ roundLock = [r \in Round |-> NoTab]
  /\ duty = [t \in Tab |-> Idle] /\ plan = [t \in Tab |-> {}]
  /\ onTheWay = {} /\ commitOf = [r \in Round |-> 0] /\ revealed = {}
  /\ stage = [r \in Round |-> "open"]
  /\ committed = [r \in Round |-> {}] /\ revealSent = {}

DutyStep(t) ==
  \/ StartDuty(t) \/ Plan(t) \/ EndDuty(t) \/ Reload(t)
  \/ \E a \in Action : SkipAction(t, a) \/ LockForCommit(t, a) \/ LockForReveal(t, a)
  \/ SignAnswers(t) \/ SignFails(t) \/ Publish(t)
  \/ \E ok \in BOOLEAN : PublishEnds(t, ok)

DutyNext ==
  \/ \E t \in Tab : DutyStep(t)
  \/ \E u \in onTheWay : Deliver(u)
  \/ \E r \in Round : Advance(r)

DutySpec == DutyInit /\ [][DutyNext]_dutyVars

-----------------------------------------------------------------------------
DutyTypeOK ==
  /\ stored \in [Round -> Secret \cup {0}] /\ drawn \in 0..MaxSecrets
  /\ roundLock \in [Round -> Tab \cup {NoTab}]
  /\ duty \in [Tab -> Duty] /\ plan \in [Tab -> SUBSET Action]
  /\ onTheWay \subseteq [on : Action, secret : Secret]
  /\ commitOf \in [Round -> Secret \cup {0}] /\ revealed \subseteq Round
  /\ stage \in [Round -> {"open", "closed", "finalized"}]
  /\ committed \in [Round -> SUBSET Secret] /\ revealSent \subseteq Round

\* tyche-duty.ts: "an update can be accepted even when its acknowledgment is lost,
\* and the secret is then required for a later reveal". Whatever tabs race, crash
\* or retry, a node publishes one commitment for a round, and until it has sent
\* its reveal localStorage has the secret that opens it.
SecretOpensCommit ==
  \A r \in Round :
    /\ Cardinality(committed[r]) <= 1
    /\ commitOf[r] # 0 => commitOf[r] \in committed[r]
    /\ r \notin revealSent => committed[r] \subseteq {stored[r]}
=============================================================================
