------------------------------- MODULE WsGets -------------------------------
(***************************************************************************)
(* web/src/freenet/ws.ts: the serial, two-priority pump through which every *)
(* contract GET of a tab goes over the one shared WebSocket.               *)
(*                                                                         *)
(* JavaScript runs one callback at a time, so an action is the code between *)
(* two awaits; between two actions any other callback may run.  A job is   *)
(* one call of getContractState: its key and its answer are not modelled,  *)
(* its outcome is.                                                         *)
(***************************************************************************)
EXTENDS Naturals, Sequences, SequencesExt

CONSTANTS
  High, Low,    \* the GETs the tab asks for, by priority
  Scope,        \* Scope[j]: the cancel group of job j, or None
  MaxAttempts,  \* MaxAttempts[j]
  None

Job == High \cup Low

ASSUME PriorityAssumption == High \cap Low = {}
ASSUME AttemptsAssumption == MaxAttempts \in [Job -> Nat \ {0}]
ASSUME ScopeAssumption == DOMAIN Scope = Job

VARIABLES
  high, low,  \* highGetQueue, lowGetQueue
  run,        \* the pump's iteration: [job, attempt, attempts, phase], or None
  armed,      \* cancelInFlightGet # null
  inFlight,   \* inFlightJob
  aborted,    \* the jobs whose aborted flag is set
  outcome,    \* what became of the promise of each job
  orphans,    \* cancelled attempts of a job whose async body still runs
  cooldown,   \* Date.now() < transportCooldownUntil
  conn        \* the shared socket: "none" or "open"

vars == <<high, low, run, armed, inFlight, aborted, outcome, orphans, cooldown, conn>>

\* How an attempt fails: "gone" is an answer without state or a host error,
\* "timeout" the job's own deadline, "hard" a closed socket, "connect" a socket
\* that did not open.
Failure == {"gone", "timeout", "hard", "connect"}
\* The phase of the pump's iteration: the attempt is under way; it has ended and
\* the continuation of runOneContractGet has not run yet; the pause before a retry.
Phase == {"wait", "ok", "preempted", "cancelled", "backoff"} \cup Failure

Run == [job : Job, attempt : Nat, attempts : Nat, phase : Phase]

ASSUME IdleAssumption == None \notin Job /\ None \notin Run

TypeOK ==
  /\ high \in Seq(High) /\ low \in Seq(Low)
  /\ run \in Run \cup {None}
  /\ armed \in BOOLEAN
  /\ inFlight \in Job \cup {None}
  /\ aborted \subseteq Job
  /\ outcome \in [Job -> {"new", "waiting", "resolved", "rejected"}]
  /\ orphans \in [Job -> Nat]
  /\ cooldown \in BOOLEAN
  /\ conn \in {"none", "open"}

Init ==
  /\ high = <<>> /\ low = <<>>
  /\ run = None /\ armed = FALSE /\ inFlight = None
  /\ aborted = {} /\ cooldown = FALSE /\ conn = "none"
  /\ outcome = [j \in Job |-> "new"]
  /\ orphans = [j \in Job |-> 0]
-----------------------------------------------------------------------------
Settle(j, how) == outcome' = [outcome EXCEPT ![j] = how]

\* The first attempt of runOneContractGet(j), up to its first await.
Start(j) ==
  /\ run' = [job |-> j, attempt |-> 1, phase |-> "wait",
             attempts |-> IF cooldown' THEN 1 ELSE MaxAttempts[j]]
  /\ armed' = TRUE
  /\ inFlight' = j

\* Mutant: low before high.
PumpNext_LowFirst(h, l) ==
  IF l # <<>> THEN Start(Head(l)) /\ high' = h /\ low' = Tail(l)
  ELSE IF h # <<>> THEN Start(Head(h)) /\ high' = Tail(h) /\ low' = l
  ELSE run' = None /\ high' = h /\ low' = l /\ UNCHANGED <<armed, inFlight>>

\* The loop of pumpContractGets: the next job, high before low.  (The test of
\* job.aborted there never fires: an aborted job has left the queues.)
PumpNext(h, l) ==
  IF h # <<>> THEN Start(Head(h)) /\ high' = Tail(h) /\ low' = l
  ELSE IF l # <<>> THEN Start(Head(l)) /\ high' = h /\ low' = Tail(l)
  ELSE run' = None /\ high' = h /\ low' = l /\ UNCHANGED <<armed, inFlight>>

\* Mutant: the handle is called but not cleared.
CancelAttempt_KeepHandle(how) ==
  /\ run' = [run EXCEPT !.phase = how]
  /\ inFlight' = None
  /\ orphans' = [orphans EXCEPT ![inFlight] = @ + 1]
  /\ conn' = "none"
  /\ UNCHANGED armed

\* cancelInFlightGet(err): the promise of the attempt rejects now; its async
\* body lives on until the request it awaits ends.
CancelAttempt(how) ==
  /\ run' = [run EXCEPT !.phase = how]
  /\ armed' = FALSE
  /\ inFlight' = None
  /\ orphans' = [orphans EXCEPT ![inFlight] = @ + 1]
  /\ conn' = "none"

\* enqueueContractGet.  A high job preempts the low one in flight.
Enqueue(j) ==
  /\ outcome[j] = "new"
  /\ Settle(j, "waiting")
  /\ UNCHANGED <<aborted, cooldown>>
  /\ \/ /\ run = None
        /\ PumpNext(IF j \in High THEN <<j>> ELSE <<>>, IF j \in Low THEN <<j>> ELSE <<>>)
        /\ UNCHANGED <<orphans, conn>>
     \/ /\ run # None /\ j \in High
        /\ high' = Append(high, j)
        /\ IF armed /\ inFlight \in Low
             THEN CancelAttempt("preempted")
             ELSE UNCHANGED <<run, armed, inFlight, orphans, conn>>
        /\ UNCHANGED low
     \/ /\ run # None /\ j \in Low
        /\ low' = Append(low, j)
        /\ UNCHANGED <<high, run, armed, inFlight, orphans, conn>>

\* ensureConn succeeds, for an attempt, an orphan, or the delegate requests
\* and writes that share the socket.
Connect ==
  /\ conn = "none"
  /\ conn' = "open"
  /\ UNCHANGED <<high, low, run, armed, inFlight, aborted, outcome, orphans, cooldown>>

\* The socket closes, or another user of it calls resetFreenetConn.
Drop ==
  /\ conn = "open"
  /\ conn' = "none"
  /\ UNCHANGED <<high, low, run, armed, inFlight, aborted, outcome, orphans, cooldown>>

\* The async body of the attempt ends: it clears what it registered.
AttemptEnds(how) ==
  /\ run # None /\ run.phase = "wait"
  /\ how \in {"ok", "gone"} => conn = "open"
  /\ how = "connect" => conn = "none"
  /\ run' = [run EXCEPT !.phase = how]
  /\ armed' = FALSE
  /\ inFlight' = IF inFlight = run.job THEN None ELSE inFlight
  /\ conn' = IF how = "hard" THEN "none" ELSE conn
  /\ UNCHANGED <<high, low, aborted, outcome, orphans, cooldown>>

\* The async body of a cancelled attempt ends.  It compares the handle with
\* its own, but the job only with its job.
OrphanEnds(j) ==
  /\ orphans[j] > 0
  /\ orphans' = [orphans EXCEPT ![j] = @ - 1]
  /\ inFlight' = IF inFlight = j THEN None ELSE inFlight
  /\ UNCHANGED <<high, low, run, armed, aborted, outcome, cooldown, conn>>
-----------------------------------------------------------------------------
(***************************************************************************)
(* The continuation of runOneContractGet when an attempt has ended, with   *)
(* the pump's next iteration when it was the last.                         *)
(***************************************************************************)
Resolve ==
  /\ run # None /\ run.phase = "ok"
  /\ Settle(run.job, "resolved")
  /\ UNCHANGED <<aborted, orphans, cooldown, conn>>
  /\ PumpNext(high, low)

\* Mutants: a preempted job is dropped; it joins the high queue.
Requeue_Drop ==
  /\ run # None /\ run.phase = "preempted" /\ run.job \in Low
  /\ UNCHANGED <<aborted, outcome, orphans, cooldown, conn>>
  /\ PumpNext(high, low)
Requeue_AsHigh ==
  /\ run # None /\ run.phase = "preempted" /\ run.job \in Low
  /\ UNCHANGED <<aborted, outcome, orphans, cooldown, conn>>
  /\ PumpNext(Append(high, run.job), low)

\* A preempted low job goes back to the head of its queue.
Requeue ==
  /\ run # None /\ run.phase = "preempted" /\ run.job \in Low
  /\ UNCHANGED <<aborted, outcome, orphans, cooldown, conn>>
  /\ PumpNext(high, <<run.job>> \o low)

RejectCancelled ==
  /\ run # None /\ run.phase = "cancelled"
  /\ Settle(run.job, "rejected")
  /\ UNCHANGED <<aborted, orphans, cooldown, conn>>
  /\ PumpNext(high, low)

\* A failed low GET leaves the socket to its other users unless it is dead.
ResetAfter(j, how) ==
  conn' = IF how \in {"hard", "connect"} \/ j \in High THEN "none" ELSE conn

Retries(r) == r.phase \in {"timeout", "hard"} /\ r.attempt < r.attempts

Reject ==
  /\ run # None /\ run.phase \in Failure /\ ~Retries(run)
  /\ cooldown' = (cooldown \/ run.phase = "connect")
  /\ ResetAfter(run.job, run.phase)
  /\ Settle(run.job, "rejected")
  /\ PumpNext(high, low)
  /\ UNCHANGED <<aborted, orphans>>

Backoff ==
  /\ run # None /\ run.phase \in Failure /\ Retries(run)
  /\ ResetAfter(run.job, run.phase)
  /\ run' = [run EXCEPT !.phase = "backoff"]
  /\ UNCHANGED <<high, low, armed, inFlight, aborted, outcome, orphans, cooldown>>

\* Mutant: a retry is not counted.
Retry_Uncounted ==
  /\ run # None /\ run.phase = "backoff"
  /\ run' = [run EXCEPT !.phase = IF run.job \in aborted THEN "cancelled" ELSE "wait"]
  /\ armed' = (run.job \notin aborted)
  /\ inFlight' = IF run.job \in aborted THEN inFlight ELSE run.job
  /\ UNCHANGED <<high, low, aborted, outcome, orphans, cooldown, conn>>

\* abortableDelay is over: the next attempt, unless the job was aborted.
Retry ==
  /\ run # None /\ run.phase = "backoff"
  /\ IF run.job \in aborted
       THEN run' = [run EXCEPT !.phase = "cancelled"] /\ UNCHANGED <<armed, inFlight>>
       ELSE /\ run' = [run EXCEPT !.phase = "wait", !.attempt = @ + 1]
            /\ armed' = TRUE
            /\ inFlight' = run.job
  /\ UNCHANGED <<high, low, aborted, outcome, orphans, cooldown, conn>>

CooldownEnds ==
  /\ cooldown
  /\ cooldown' = FALSE
  /\ UNCHANGED <<high, low, run, armed, inFlight, aborted, outcome, orphans, conn>>
-----------------------------------------------------------------------------
\* jobMatchesScope: without a scope, every job that has one.
Matches(j, scope) == Scope[j] # None /\ (scope # None => Scope[j] = scope)

\* drainQueueForAbort: what stays in a queue that the jobs gone leave.
Drain(queue, gone) ==
  LET keep[i \in 0..Len(queue)] ==
        IF i = 0 THEN <<>>
        ELSE IF queue[i] \in gone THEN keep[i - 1] ELSE Append(keep[i - 1], queue[i])
  IN  keep[Len(queue)]

\* Mutant: the job in flight is flagged but its attempt goes on.
Abort_FlagOnly(scope) ==
  LET queued == {j \in Range(high) \cup Range(low) : Matches(j, scope)}
      kill   == armed /\ inFlight # None /\ Matches(inFlight, scope)
  IN  /\ high' = Drain(high, queued)
      /\ low' = Drain(low, queued)
      /\ outcome' = [j \in Job |-> IF j \in queued THEN "rejected" ELSE outcome[j]]
      /\ aborted' = aborted \cup queued \cup (IF kill THEN {inFlight} ELSE {})
      /\ conn' = IF scope = None THEN "none" ELSE conn
      /\ UNCHANGED <<run, armed, inFlight, orphans, cooldown>>

\* abortContractGets(scope), called when the user leaves a page.
Abort(scope) ==
  LET queued == {j \in Range(high) \cup Range(low) : Matches(j, scope)}
      kill   == armed /\ inFlight # None /\ Matches(inFlight, scope)
  IN  /\ high' = Drain(high, queued)
      /\ low' = Drain(low, queued)
      /\ outcome' = [j \in Job |-> IF j \in queued THEN "rejected" ELSE outcome[j]]
      /\ IF kill THEN /\ aborted' = aborted \cup queued \cup {inFlight}
                      /\ CancelAttempt("cancelled")
         ELSE /\ aborted' = aborted \cup queued
              /\ conn' = IF scope = None THEN "none" ELSE conn
              /\ UNCHANGED <<run, armed, inFlight, orphans>>
      /\ UNCHANGED cooldown

\* flushBackgroundContractGets
Flush ==
  /\ low # <<>>
  /\ low' = <<>>
  /\ outcome' = [j \in Job |-> IF j \in Range(low) THEN "rejected" ELSE outcome[j]]
  /\ aborted' = aborted \cup Range(low)
  /\ UNCHANGED <<high, run, armed, inFlight, orphans, cooldown, conn>>

Scopes == {Scope[j] : j \in Job} \cup {None}

PumpContinues == Resolve \/ Requeue \/ RejectCancelled \/ Reject \/ Backoff \/ Retry

Next ==
  \/ \E j \in Job : Enqueue(j) \/ OrphanEnds(j)
  \/ Connect
  \/ Drop
  \/ \E how \in Failure \cup {"ok"} : AttemptEnds(how)
  \/ PumpContinues
  \/ CooldownEnds
  \/ \E s \in Scopes : Abort(s)
  \/ Flush

\* withTimeout bounds every attempt and setTimeout every pause, and the event
\* loop runs every continuation.
Fairness ==
  /\ WF_vars(\E how \in Failure \cup {"ok"} : AttemptEnds(how))
  /\ WF_vars(PumpContinues)

Spec == Init /\ [][Next]_vars /\ Fairness
-----------------------------------------------------------------------------
\* A GET that was asked for and is not settled is in exactly one place: a
\* queue, or the pump's hands.  Preemption, abort and flush lose none, and
\* none is served twice.
Places(j) ==
  [p \in {"high", "low", "run"} |->
     IF p = "high" THEN Cardinality({i \in DOMAIN high : high[i] = j})
     ELSE IF p = "low" THEN Cardinality({i \in DOMAIN low : low[i] = j})
     ELSE IF run # None /\ run.job = j THEN 1 ELSE 0]

NoGetLost ==
  \A j \in Job :
    Places(j)["high"] + Places(j)["low"] + Places(j)["run"] =
      IF outcome[j] = "waiting" THEN 1 ELSE 0

\* The cancel handle never outlives the attempt it cancels, so preemption and
\* abort hit the attempt under way or nothing, also while the bodies of
\* cancelled attempts are still running.
HandleIsOfAttempt == armed => run # None /\ run.phase = "wait"

\* A GET that abortContractGets cancelled is never answered.
AbortedNotAnswered == \A j \in aborted : outcome[j] # "resolved"

\* Nothing is served from the low queue while a high GET waits.
HighServedFirst ==
  [][\A j \in Low : (j \in Range(low) /\ j \notin Range(low') /\ outcome'[j] = "waiting")
                      => high = <<>>]_vars

\* Every GET settles: no preemption, failure or abort stalls the pump.
EveryGetSettles == <>[](\A j \in Job : outcome[j] # "waiting")
=============================================================================
