---------------------------- MODULE PublicGoods ----------------------------
(***************************************************************************)
(* Consent to background work for other services, Kairos and Tyche, in one *)
(* tab (web/src/freenet/public-goods-consent.ts, public-goods-duty.ts,     *)
(* tyche-duty.ts, components/PublicGoodsSettings.tsx and                   *)
(* PublicGoodsDutyWorker.tsx): the approval of an identity, the switch,    *)
(* the copy in the account vault, its restore, the worker that watches     *)
(* while the switch is on, and the runs of a duty its ticks begin.         *)
(*                                                                         *)
(* A tab reads its localStorage once, and the event that follows a switch  *)
(* stays in the tab: another tab goes on with what it has read.  It is     *)
(* seen here in what this tab finds when it is loaded, in the vault and in *)
(* the delegates.  A reload is a new beginning.                            *)
(***************************************************************************)
EXTENDS Naturals, Sequences, FiniteSets

CONSTANTS
  Service,     \* "kairos", "tyche"
  Account,     \* GitForge identities that use this browser
  Node,        \* identities the delegates of the services mint
  SignedOut, NoNode, NoAuth,
  MaxSaves,    \* bound on the saves that wait
  MaxStarts,   \* bound on the starts that wait
  MaxRuns      \* bound on the runs of duties

ASSUME GoodsAssumption ==
  /\ SignedOut \notin Account /\ NoNode \notin Node
  /\ MaxSaves \in Nat /\ MaxStarts \in Nat /\ MaxRuns \in Nat

VARIABLES
  consent,      \* the switch of each service, as this tab has it
  auth,         \* the approval of each service, as this tab has it
  account,      \* getCachedIdentity
  liveNode,     \* the identity each service's delegate reports
  vaultGoods,   \* settings.public_goods in the vault of each account
  saveQueue,    \* persistQueue: the approvals to write
  restore,      \* hydratePublicGoodsFromVault calls that wait for GetIdentity
  mounted,      \* PublicGoodsDutyWorker listens
  worker,       \* services with a watch that was not stopped
  starting,     \* starts of the watches that wait for GetIdentity
  runs          \* runs of a duty under way

goodsVars == <<consent, auth, account, liveNode, vaultGoods, saveQueue,
               restore, mounted, worker, starting, runs>>

Auth == [owner : Account, node : Node, on : BOOLEAN]
Auths == [Service -> Auth \cup {NoAuth}]

Approved(a, s, who) == a[s] # NoAuth /\ a[s].on /\ a[s].owner = who

\* What a restore knew when it began: the record of the vault, and the approvals
\* and switches it will write back. asked and valid: the services whose delegate
\* has answered, and those whose record was found valid; held (history): what the
\* delegates have held since.
Restore == [services : SUBSET Service, record : Auths, who : Account,
            auth : Auths, consent : [Service -> BOOLEAN], whole : BOOLEAN,
            asked : SUBSET Service, valid : SUBSET Service, held : [Service -> SUBSET Node]]

\* live: the services whose delegate answered with the approved identity.
StartRecord == [allowed : SUBSET Service, auth : Auths, who : Account, latest : BOOLEAN,
                live : SUBSET Service]

\* stopped: its watch was stopped since. A run does not look at that.
Run == [of : Service, step : {"ask", "check", "sign"}, node : Node \cup {NoNode},
        stopped : BOOLEAN]

-----------------------------------------------------------------------------
(* The worker *)

\* serviceDutyAllowed, as applyConsent asks it before the identities are known
Allowed(c, a, who) == {s \in Service : c[s] /\ Approved(a, s, who)}

\* The watches that go on; to stop one sets its flag, and a run under way goes on.
Watches(on) ==
  /\ worker' = on
  /\ runs' = {IF run.of \in on THEN run ELSE [run EXCEPT !.stopped = TRUE] : run \in runs}

\* applyConsent: watches that are no longer allowed stop, and a new start makes the
\* earlier ones obsolete (startGeneration). Without an identity it only asks for one.
ApplyConsent(c, a, who) ==
  IF who = SignedOut \/ ~mounted THEN UNCHANGED <<worker, starting, runs>>
  ELSE LET allowed == Allowed(c, a, who) IN
       /\ Cardinality(starting) < MaxStarts
       /\ Watches(worker \cap allowed)
       /\ starting' = {[st EXCEPT !.latest = FALSE] : st \in starting}
                        \cup {[allowed |-> allowed, auth |-> a, who |-> who, latest |-> TRUE,
                               live |-> {}]}

MountWorker ==
  /\ ~mounted /\ mounted' = TRUE
  /\ UNCHANGED <<consent, auth, account, liveNode, vaultGoods, saveQueue, restore, worker,
                 starting, runs>>

\* The timer of START_DELAY_MS, or the identity that was asked for.
Reapply ==
  /\ mounted
  /\ ApplyConsent(consent, auth, account)
  /\ UNCHANGED <<consent, auth, account, liveNode, vaultGoods, saveQueue, restore, mounted>>

\* currentIdentity, login, logout: onAuthSessionChange
ChangeAccount(who) ==
  /\ who # account
  /\ account' = who
  /\ ApplyConsent(consent, auth, who)
  /\ UNCHANGED <<consent, auth, liveNode, vaultGoods, saveQueue, restore, mounted>>

\* start asks the delegate of each service that is allowed.
AnswerStart(st, s) ==
  /\ st \in starting /\ s \in st.allowed \ st.live /\ liveNode[s] = st.auth[s].node
  /\ starting' = (starting \ {st}) \cup {[st EXCEPT !.live = @ \cup {s}]}
  /\ UNCHANGED <<consent, auth, account, liveNode, vaultGoods, saveQueue, restore, mounted,
                 worker, runs>>

Current_Any(st) == TRUE

Current(st) == st.latest

\* The rest of it, when all have answered or their time is up.
StartWorkers(st) ==
  /\ st \in starting
  /\ starting' = starting \ {st}
  /\ IF Current(st) THEN Watches(st.live) ELSE UNCHANGED <<worker, runs>>
  /\ UNCHANGED <<consent, auth, account, liveNode, vaultGoods, saveQueue, restore, mounted>>

-----------------------------------------------------------------------------
(* The runs of a duty: runTycheDuty, runKairosNetworkDuty *)

\* tick, of a watch that was not stopped and is not busy.
TickDuty(s) ==
  /\ s \in worker /\ Cardinality(runs) < MaxRuns
  /\ \A run \in runs : run.of = s => run.stopped
  /\ runs' = runs \cup {[of |-> s, step |-> "ask", node |-> NoNode, stopped |-> FALSE]}
  /\ UNCHANGED <<consent, auth, account, liveNode, vaultGoods, saveQueue, restore, mounted,
                 worker, starting>>

Becomes(run, rest) ==
  /\ runs' = (runs \ {run}) \cup rest
  /\ UNCHANGED <<consent, auth, account, liveNode, vaultGoods, saveQueue, restore, mounted,
                 worker, starting>>

\* getWitness: the delegate answers; or the contract, or the identity, is not there.
AnswerRun(run) ==
  /\ run.step = "ask"
  /\ Becomes(run, IF liveNode[run.of] = NoNode THEN {}
                  ELSE {[run EXCEPT !.step = "check", !.node = liveNode[run.of]]})

\* Mutant: an approval that is switched off is good enough.
Witness_Initialized(run) ==
  LET a == auth[run.of] IN account # SignedOut /\ a # NoAuth /\ a.owner = account /\ a.node = run.node

\* The approval of the moment has to be for this identity and account. The switch
\* is not looked at.
Witness(run) == Approved(auth, run.of, account) /\ auth[run.of].node = run.node

CheckWitness(run) ==
  /\ run.step = "check"
  /\ Becomes(run, IF Witness(run) THEN {[run EXCEPT !.step = "sign"]} ELSE {})

\* Pulses, commits and reveals, to the end of the plan; or an error.
EndRun(run) == Becomes(run, {})

-----------------------------------------------------------------------------
(* The settings *)

\* Initialize in the settings: EnsureIdentity, recordPublicGoodsAuthorization and
\* persistPublicGoodsAuthorizations. The switch stays as it was, and the approval
\* stays on when the service's identity is the one approved before.
InitializeService(s, n) ==
  /\ account # SignedOut /\ Len(saveQueue) < MaxSaves
  /\ liveNode' = IF liveNode[s] = NoNode THEN [liveNode EXCEPT ![s] = n] ELSE liveNode
  /\ auth' = [auth EXCEPT ![s] =
               [owner |-> account, node |-> liveNode'[s],
                on |-> auth[s] # NoAuth /\ auth[s].node = liveNode'[s] /\ auth[s].on]]
  /\ saveQueue' = Append(saveQueue, auth')
  /\ restore' = {[r EXCEPT !.held[s] = @ \cup {liveNode'[s]}] : r \in restore}
  /\ UNCHANGED <<consent, account, vaultGoods, mounted, worker, starting, runs>>

\* The switch: setPublicGoodConsent, the event that follows, and the save.
Toggle(s, on) ==
  /\ account # SignedOut /\ auth[s] # NoAuth /\ consent[s] # on /\ Len(saveQueue) < MaxSaves
  /\ consent' = [consent EXCEPT ![s] = on]
  /\ auth' = [auth EXCEPT ![s].on = on]
  /\ saveQueue' = Append(saveQueue, auth')
  /\ ApplyConsent(consent', auth', account)
  /\ UNCHANGED <<account, liveNode, vaultGoods, restore, mounted>>

\* The queued save writes the approvals as they were when it was asked for, to
\* the vault of whoever is signed in now; or fails.
Saved(records) ==
  /\ account # SignedOut
  /\ vaultGoods' = [vaultGoods EXCEPT ![account] = records]

Save ==
  /\ saveQueue # <<>>
  /\ saveQueue' = Tail(saveQueue)
  /\ Saved(Head(saveQueue)) \/ UNCHANGED vaultGoods
  /\ UNCHANGED <<consent, auth, account, liveNode, restore, mounted, worker, starting, runs>>

-----------------------------------------------------------------------------
(* hydratePublicGoodsFromVault *)

\* Only the delegates of services with a record of the account are asked.
ToAsk(r) == {s \in r.services : r.record[s] # NoAuth /\ r.record[s].owner = r.who} \ r.asked

\* canCommit of the settings page: none of the services was approved meanwhile.
CanCommit(r) == r.whole \/ \A s \in r.services : auth[s] = NoAuth

KeepsLocal(s) == auth[s] # NoAuth

\* A service of the restore keeps its present approval when it has one and takes the
\* record when that was found valid; every other service is written back as it was
\* when the restore began.
Restored(r) ==
  /\ auth' = [s \in Service |->
       IF s \notin r.services THEN r.auth[s]
       ELSE IF KeepsLocal(s) THEN auth[s]
       ELSE IF s \in r.valid THEN r.record[s] ELSE NoAuth]
  /\ consent' = [s \in Service |->
       IF s \notin r.services THEN r.consent[s]
       ELSE IF KeepsLocal(s) THEN consent[s]
       ELSE s \in r.valid /\ r.record[s].on]
  /\ ApplyConsent(consent', auth', account)

Commits(r) ==
  IF CanCommit(r) THEN Restored(r) ELSE UNCHANGED <<auth, consent, worker, starting, runs>>

\* By the restore of an account (all services), or by the settings page (those
\* without an approval). When no delegate has to be asked there is nothing to wait for.
BeginRestore(whole) ==
  LET for == IF whole THEN Service ELSE {s \in Service : auth[s] = NoAuth}
      r == [services |-> for, record |-> vaultGoods[account], who |-> account, whole |-> whole,
            auth |-> [s \in Service |-> IF s \in for THEN NoAuth ELSE auth[s]],
            consent |-> [s \in Service |-> s \notin for /\ consent[s]],
            asked |-> {}, valid |-> {}, held |-> [s \in Service |-> {liveNode[s]} \cap Node]]
  IN /\ account # SignedOut /\ restore = {}
     /\ IF ToAsk(r) = {} THEN Commits(r) /\ UNCHANGED restore
        ELSE restore' = {r} /\ UNCHANGED <<auth, consent, worker, starting, runs>>
     /\ UNCHANGED <<account, liveNode, vaultGoods, saveQueue, mounted>>

Matches_Any(r, s) == TRUE

Matches(r, s) == liveNode[s] = r.record[s].node

\* The services are asked one after the other, each behind its own await; no answer
\* counts as none of the identities.
AskDelegate(r, s) ==
  LET now == [r EXCEPT !.asked = @ \cup {s}]
      found == [now EXCEPT !.valid = r.valid \cup {s}]
  IN \/ restore' = (restore \ {r}) \cup {now}
     \/ Matches(r, s) /\ restore' = (restore \ {r}) \cup {found}

Validate(r) ==
  /\ r \in restore /\ ToAsk(r) # {}
  /\ AskDelegate(r, CHOOSE s \in ToAsk(r) : TRUE)
  /\ UNCHANGED <<consent, auth, account, liveNode, vaultGoods, saveQueue, mounted, worker,
                 starting, runs>>

\* After the last answer, without another await.
CommitRestore(r) ==
  /\ r \in restore /\ ToAsk(r) = {}
  /\ restore' = restore \ {r}
  /\ Commits(r)
  /\ UNCHANGED <<account, liveNode, vaultGoods, saveQueue, mounted>>

-----------------------------------------------------------------------------
\* The delegate of a service loses its identity, or another app or tab initializes it.
OtherApp(s, n) ==
  /\ liveNode[s] # n
  /\ liveNode' = [liveNode EXCEPT ![s] = n]
  /\ restore' = {[r EXCEPT !.held[s] = @ \cup ({n} \cap Node)] : r \in restore}
  /\ UNCHANGED <<consent, auth, account, vaultGoods, saveQueue, mounted, worker, starting, runs>>

\* A tab finds what the browser kept, other browsers may have approved services
\* before, and other apps too. Bound: no approval is on whose switch is off (two tabs
\* that wrote at once could leave that).
GoodsInit ==
  /\ consent \in [Service -> BOOLEAN] /\ auth \in Auths
  /\ \A s \in Service : auth[s] # NoAuth /\ auth[s].on => consent[s]
  /\ account = SignedOut /\ liveNode \in [Service -> Node \cup {NoNode}]
  /\ vaultGoods \in [Account -> Auths]
  /\ saveQueue = <<>> /\ restore = {} /\ mounted = FALSE
  /\ worker = {} /\ starting = {} /\ runs = {}

GoodsNext ==
  \/ MountWorker \/ Reapply \/ Save
  \/ \E who \in Account \cup {SignedOut} : ChangeAccount(who)
  \/ \E st \in starting : StartWorkers(st) \/ \E s \in Service : AnswerStart(st, s)
  \/ \E s \in Service : TickDuty(s)
  \/ \E run \in runs : AnswerRun(run) \/ CheckWitness(run) \/ EndRun(run)
  \/ \E s \in Service, n \in Node : InitializeService(s, n)
  \/ \E s \in Service, on \in BOOLEAN : Toggle(s, on)
  \/ \E whole \in BOOLEAN : BeginRestore(whole)
  \/ \E r \in restore : Validate(r) \/ CommitRestore(r)
  \/ \E s \in Service, n \in Node \cup {NoNode} : OtherApp(s, n)

GoodsSpec == GoodsInit /\ [][GoodsNext]_goodsVars

-----------------------------------------------------------------------------
GoodsTypeOK ==
  /\ consent \in [Service -> BOOLEAN] /\ auth \in Auths
  /\ account \in Account \cup {SignedOut}
  /\ liveNode \in [Service -> Node \cup {NoNode}]
  /\ vaultGoods \in [Account -> Auths]
  /\ saveQueue \in Seq(Auths) /\ Len(saveQueue) <= MaxSaves
  /\ restore \subseteq Restore /\ mounted \in BOOLEAN
  /\ worker \subseteq Service /\ starting \subseteq StartRecord /\ runs \subseteq Run

\* While somebody is signed in, a tab watches a service only if the switch is on in
\* that tab: a start or a restore that was waiting for a delegate when the user
\* switched off does not bring the watch back. (Without an identity applyConsent stops
\* nothing; the run itself refuses then, see Witness.)
WorkerNeedsConsent == account # SignedOut => \A s \in worker : consent[s]

\* To stop a watch stops no run, and a run looks at approvals, never at the switch.
\* Still no run of a duty, of whichever watch and begun for whichever account, comes
\* to sign in a tab whose switch is off; what was signing already may end.
Comes(run) == run.step = "check" /\ run \notin runs' /\ [run EXCEPT !.step = "sign"] \in runs' \ runs
SignsOnlyWhileOn ==
  [][\A run \in runs : Comes(run) => account # SignedOut /\ consent[run.of]]_goodsVars

\* Whatever vault and delegates answer, and whenever: the approval a restore brings for
\* a service is of the account it is for and of an identity the delegate held while the
\* restore went on, and what the user approved or switched meanwhile stays. (Services
\* outside a restore are written back: see Restored.)
RestoredIsLive ==
  [][restore' = {} => \A r \in restore : \A s \in r.services :
       \/ auth'[s] = auth[s] /\ consent'[s] = consent[s]
       \/ /\ auth[s] = NoAuth /\ auth'[s] = NoAuth /\ ~consent'[s]
       \/ /\ auth[s] = NoAuth /\ auth'[s].owner = r.who /\ auth'[s].node \in r.held[s]
          /\ consent'[s] = auth'[s].on]_goodsVars
=============================================================================
