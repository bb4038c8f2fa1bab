---------------------------- MODULE RepoBackups ----------------------------
(***************************************************************************)
(* Backups of repositories: web/src/freenet/repo-backup.ts and             *)
(* repo-backup-store.ts, and the store in delegates/forge-identity.  A pin *)
(* names the packs of one tip; their bytes are kept once for all pins, and *)
(* what no pin names any more is collected.  The user's menu, the          *)
(* background pass and the queue that follows a tip push all run the same  *)
(* code in one page, with an await before every request.  No page of this  *)
(* version mounts them: the module is what the code does once one does.    *)
(*                                                                         *)
(* Freenet's sandbox has no IndexedDB: a page keeps pins in memory, and    *)
(* the identity delegate is what survives it.  Version v of a repository   *)
(* is made of the packs v and v + 1: a push replaces one of two.           *)
(***************************************************************************)
EXTENDS Naturals, FiniteSets

CONSTANTS
  Repo,
  Busy,       \* bound: those the user asks for and pushes to; the others are only pinned
  MaxTip,     \* bound on the pushes
  MaxOps,     \* bound on what the user asks for
  MaxFaults   \* bound on requests that fail and on reloads

ASSUME BackupAssumption ==
  /\ Repo # {} /\ Busy \subseteq Repo
  /\ MaxTip \in Nat \ {0} /\ MaxOps \in Nat /\ MaxFaults \in Nat

Reason == {"own", "star"}
Thread == {"user", "worker", "queue"}
Tip == 0..MaxTip                     \* 0: none
Hash == Repo \X (1..(MaxTip + 1))
First(S) == CHOOSE h \in S : \A g \in S : h[2] <= g[2]   \* lists are walked in order
Content(r, v) == IF v = 0 THEN {} ELSE {<<r, v>>, <<r, v + 1>>}

Pin == [tip : Tip, reasons : SUBSET Reason]
NoPin == [tip |-> 0, reasons |-> {}]

VARIABLES
  live,     \* the tip of each repository on the network
  stored,   \* the pins in the delegate
  blobs,    \* the packs in the delegate
  mem,      \* memoryPins
  known,    \* identityHydrate: the delegate's pins have been read
  task,     \* what each thread is doing
  pushed,   \* tipPushRefreshPending
  spent     \* [ops, faults] so far

backupVars == <<live, stored, blobs, mem, known, task, pushed, spent>>

TaskStep == {"idle", "get", "tip", "check", "capture", "confirm", "put", "store", "list",
         "index", "sweep", "fill", "forget", "look", "compare", "mark"}

\* had: the tip of the pin that was found; at: the tip that is being pinned;
\* left: packs still to fetch or to remove; repair: the per-hash repair follows
\* a failure; repos: the rest of the pass.
Task == [step : TaskStep, repo : Repo, reason : Reason, force : BOOLEAN, repair : BOOLEAN,
         had : Tip, at : Tip, pin : Pin, then : TaskStep, left : SUBSET Hash,
         keep : SUBSET Hash, repos : SUBSET Repo]

NoTask == [step |-> "idle", repo |-> CHOOSE r \in Repo : TRUE, reason |-> "own",
           force |-> FALSE, repair |-> FALSE, had |-> 0, at |-> 0, pin |-> NoPin,
           then |-> "idle", left |-> {}, keep |-> {}, repos |-> {}]

IsAt(t, step) == task[t].step = step
Its(t) == task[t].repo
\* Bound: at most two of the three threads run at once.
Room(t) == \E u \in Thread \ {t} : IsAt(u, "idle")
Becomes(t, new) == task' = [task EXCEPT ![t] = new]
Turns(t, step) == Becomes(t, [task[t] EXCEPT !.step = step])

\* A pass goes on to mark what it checked; the others are done.
Rest(t) == [NoTask EXCEPT !.repo = Its(t), !.repos = task[t].repos]
Done(t) == IF t = "worker" THEN [Rest(t) EXCEPT !.step = "mark"] ELSE NoTask
\* What a pass does after one repository, whether that worked or not.
Skipped(t) == [NoTask EXCEPT !.repos = task[t].repos]

\* refreshBackupAfterTipPush ends, one way or another.
Unqueue(t) == pushed' = IF t = "queue" THEN pushed \ {Its(t)} ELSE pushed
Ends(t) == Becomes(t, Done(t)) /\ Unqueue(t)

\* An error: repairIncompleteBackup tries the missing packs one by one, a pass
\* turns to the next repository, the rest gives up.
Throw(t) ==
  /\ Becomes(t, IF task[t].repair
                THEN [task[t] EXCEPT !.step = "fill", !.repair = FALSE,
                                     !.left = Content(Its(t), task[t].had) \ blobs]
                ELSE Skipped(t))
  /\ Unqueue(t)

\* A request fails, or the answer does not come in time.
Fault == spent.faults < MaxFaults /\ spent' = [spent EXCEPT !.faults = @ + 1]
Fail(t) == Fault /\ Throw(t)

\* What the delegate does; it does not merge.
UpsertRepoBackupPin(r, pin) == stored' = [stored EXCEPT ![r] = pin]
RemoveRepoBackupPin(r) == stored' = [stored EXCEPT ![r] = NoPin]
UpsertRepoBackupBlob(h) == blobs' = blobs \cup {h}
RemoveRepoBackupBlob(h) == blobs' = blobs \ {h}

\* hydratePinsFromIdentity: the pins of the delegate are read once, what is in
\* memory is never older.  If they cannot be read, that is caught: the memory m
\* is what it was, and a later call tries again.
Hydrated == [r \in Repo |-> IF mem[r] = NoPin THEN stored[r] ELSE mem[r]]
Memory == {mem, Hydrated}
Hydrates(m) ==
  \/ m = (IF known THEN mem ELSE Hydrated) /\ known' = TRUE /\ UNCHANGED spent
  \/ m = mem /\ ~known /\ UNCHANGED known /\ Fault

\* backupGetPin: m[r], from memory first.
Gets(r, m) == IF mem[r] # NoPin THEN m = mem /\ UNCHANGED <<known, spent>> ELSE Hydrates(m)

\* backupPutPin: the reasons of the pin in memory are kept, the delegate is
\* written next. (So backupRemoveReason removes no reason but the last.)
PutPin(t, m, pin, then) ==
  LET r == Its(t)
      merged == [pin EXCEPT !.reasons = @ \cup m[r].reasons]
  IN /\ mem' = [m EXCEPT ![r] = merged]
     /\ Becomes(t, [Rest(t) EXCEPT !.step = "store", !.pin = merged, !.then = then,
                                   !.repair = task[t].repair, !.had = task[t].had])
-----------------------------------------------------------------------------
(* pinRepoBackup *)

GetExisting(t) ==
  /\ IsAt(t, "get")
  /\ \E m \in Memory :
       /\ Gets(Its(t), m) /\ mem' = m
       /\ Becomes(t, [task[t] EXCEPT !.step = "tip", !.had = m[Its(t)].tip])
  /\ UNCHANGED <<live, stored, blobs, pushed>>

\* loadLiveTipBundles, past every cache. A pin of this tip is looked into first,
\* unless the caller insists.
ReadTip(t) ==
  /\ IsAt(t, "tip")
  /\ \/ LET at == live[Its(t)]
            same == ~task[t].force /\ task[t].had = at
        IN /\ Becomes(t, [task[t] EXCEPT !.step = IF same THEN "check" ELSE "capture",
                                         !.at = at, !.left = Content(Its(t), at)])
           /\ UNCHANGED <<pushed, spent>>
     \/ Fail(t)
  /\ UNCHANGED <<live, stored, blobs, mem, known>>

\* Every pack is durable and the pin still there: only the reason may be new
\* (backupAddReason).
CheckDurable(t) ==
  /\ IsAt(t, "check")
  /\ IF task[t].left \subseteq blobs
       THEN \E m \in Memory :
              /\ Gets(Its(t), m)
              /\ LET p == m[Its(t)] IN
                 \/ /\ p = NoPin
                    /\ mem' = m /\ Turns(t, "capture") /\ UNCHANGED pushed
                 \/ /\ p # NoPin /\ task[t].reason \in p.reasons
                    /\ mem' = m /\ Ends(t)
                 \/ /\ p # NoPin /\ task[t].reason \notin p.reasons
                    /\ PutPin(t, m, [p EXCEPT !.reasons = @ \cup {task[t].reason}], "idle")
                    /\ UNCHANGED pushed
       ELSE Turns(t, "capture") /\ UNCHANGED <<mem, known, pushed, spent>>
  /\ UNCHANGED <<live, stored, blobs>>

\* captureTipBlobs: a pack from the tip cache or the network, then to the
\* delegate.
Capture(t) ==
  /\ IsAt(t, "capture") /\ task[t].left # {}
  /\ \/ /\ UpsertRepoBackupBlob(First(task[t].left))
        /\ Becomes(t, [task[t] EXCEPT !.left = @ \ {First(@)}])
        /\ UNCHANGED <<pushed, spent>>
     \/ Fail(t) /\ UNCHANGED blobs
  /\ UNCHANGED <<live, stored, mem, known>>

\* The delegate is asked whether it has them all; the listing and the metadata
\* are fetched before the pin is put.
Confirm(t) ==
  /\ IsAt(t, "capture") /\ task[t].left = {}
  /\ IF Content(Its(t), task[t].at) \subseteq blobs
       THEN Turns(t, "put") /\ UNCHANGED pushed
       ELSE Throw(t)
  /\ UNCHANGED <<live, stored, blobs, mem, known, spent>>

Put(t) ==
  /\ IsAt(t, "put")
  /\ PutPin(t, mem, [tip |-> task[t].at, reasons |-> {task[t].reason}], "list")
  /\ UNCHANGED <<live, stored, blobs, known, pushed, spent>>

\* persistPinToIdentity, and a later look reads the delegate again.
Persist(t) ==
  /\ IsAt(t, "store")
  /\ \/ /\ UpsertRepoBackupPin(Its(t), task[t].pin)
        /\ known' = FALSE
        /\ CASE task[t].then = "list" -> Turns(t, "list") /\ UNCHANGED pushed
             [] task[t].then = "mark" -> Becomes(t, Skipped(t)) /\ UNCHANGED pushed
             [] OTHER -> Ends(t)
        /\ UNCHANGED spent
     \/ Fail(t) /\ UNCHANGED <<stored, known>>
  /\ UNCHANGED <<live, blobs, mem>>
-----------------------------------------------------------------------------
(* backupGcUnreferencedBlobs *)

ListPins(t) ==
  /\ IsAt(t, "list")
  /\ \E m \in Memory :
       /\ Hydrates(m) /\ mem' = m
       /\ Becomes(t, [Rest(t) EXCEPT !.step = "index",
                                     !.keep = UNION {Content(r, m[r].tip) : r \in Repo}])
  /\ UNCHANGED <<live, stored, blobs, pushed>>

ListBlobs(t) ==
  /\ IsAt(t, "index")
  /\ \/ /\ Becomes(t, [task[t] EXCEPT !.step = "sweep", !.left = blobs \ task[t].keep])
        /\ UNCHANGED <<pushed, spent>>
     \/ Fault /\ Ends(t)
  /\ UNCHANGED <<live, stored, blobs, mem, known>>

\* One by one; one that cannot be removed stays.
Sweep(t) ==
  /\ IsAt(t, "sweep")
  /\ IF task[t].left = {}
       THEN Ends(t) /\ UNCHANGED <<blobs, spent>>
       ELSE /\ \/ RemoveRepoBackupBlob(First(task[t].left)) /\ UNCHANGED spent
               \/ Fault /\ UNCHANGED blobs
            /\ Becomes(t, [task[t] EXCEPT !.left = @ \ {First(@)}])
            /\ UNCHANGED pushed
  /\ UNCHANGED <<live, stored, mem, known>>

\* backupClearPin: the memory at once, then the delegate, where a failure is
\* only logged, then the packs.
Forget(t) ==
  /\ IsAt(t, "forget")
  /\ \/ RemoveRepoBackupPin(Its(t)) /\ UNCHANGED spent
     \/ Fault /\ UNCHANGED stored
  /\ Turns(t, "list")
  /\ UNCHANGED <<live, blobs, mem, known, pushed>>

\* Missing packs one by one: the second half of repairIncompleteBackup, and
\* rehydrateBackupBlobs.
Fill(t) ==
  /\ IsAt(t, "fill")
  /\ IF task[t].left = {}
       THEN Ends(t) /\ UNCHANGED <<blobs, spent>>
       ELSE /\ Becomes(t, [task[t] EXCEPT !.left = @ \ {First(@)}])
            /\ \/ UpsertRepoBackupBlob(First(task[t].left)) /\ UNCHANGED spent
               \/ Fault /\ UNCHANGED blobs
            /\ UNCHANGED pushed
  /\ UNCHANGED <<live, stored, mem, known>>
-----------------------------------------------------------------------------
(* The background pass and the queue *)

\* getBackupStatus asks for the packs: an incomplete pin is repaired, that is
\* pinned anew whatever its tip.
LookAt(t) ==
  /\ IsAt(t, "look")
  /\ \E m \in Memory :
       /\ Gets(Its(t), m) /\ mem' = m
       /\ LET p == m[Its(t)]
              broken == ~(Content(Its(t), p.tip) \subseteq blobs)
          IN Becomes(t, IF p = NoPin THEN Skipped(t)
                        ELSE [task[t] EXCEPT !.had = p.tip, !.force = broken, !.repair = broken,
                                             !.reason = CHOOSE x \in p.reasons : TRUE,
                                             !.step = IF broken THEN "get" ELSE "compare"])
  /\ UNCHANGED <<live, stored, blobs, pushed>>

\* Mutant: a pin that has all of its packs counts as fresh, whatever its tip.
Compare_PacksOnly(t) ==
  /\ IsAt(t, "compare")
  /\ Turns(t, "mark")
  /\ UNCHANGED <<live, stored, blobs, mem, known, pushed, spent>>

\* A tip that cannot be read counts as unchanged.
Compare(t) ==
  /\ IsAt(t, "compare")
  /\ \/ /\ Turns(t, IF live[Its(t)] = task[t].had THEN "mark" ELSE "get")
        /\ UNCHANGED spent
     \/ Fault /\ Turns(t, "mark")
  /\ UNCHANGED <<live, stored, blobs, mem, known, pushed>>

\* markBackupChecked puts the pin once more.
Mark(t) ==
  /\ IsAt(t, "mark")
  /\ \E m \in Memory :
       /\ Gets(Its(t), m)
       /\ IF m[Its(t)] = NoPin THEN mem' = m /\ Becomes(t, Skipped(t))
          ELSE PutPin(t, m, m[Its(t)], "mark")
  /\ UNCHANGED <<live, stored, blobs, pushed>>

\* runGlobalBackupPass: one job for each pin, one after the other.
BeginPass ==
  /\ task["worker"] = NoTask
  /\ \E m \in Memory :
       /\ Hydrates(m) /\ mem' = m
       /\ Becomes("worker", [NoTask EXCEPT !.repos = {r \in Repo : m[r] # NoPin}])
  /\ UNCHANGED <<live, stored, blobs, pushed>>

NextJob ==
  /\ IsAt("worker", "idle") /\ Room("worker") /\ task["worker"].repos # {}
  /\ LET r == CHOOSE q \in task["worker"].repos : TRUE IN
       Becomes("worker", [NoTask EXCEPT !.step = "look", !.repo = r,
                                        !.repos = task["worker"].repos \ {r}])
  /\ UNCHANGED <<live, stored, blobs, mem, known, pushed, spent>>

\* refreshBackupAfterTipPush: a pin there is pinned anew.
NextRefresh ==
  /\ IsAt("queue", "idle") /\ Room("queue")
  /\ \E r \in pushed, m \in Memory :
       /\ Gets(r, m) /\ mem' = m
       /\ LET p == m[r] IN
            IF p = NoPin THEN pushed' = pushed \ {r} /\ UNCHANGED task
            ELSE /\ Becomes("queue", [NoTask EXCEPT !.step = "get", !.repo = r, !.force = TRUE,
                                        !.reason = IF "own" \in p.reasons THEN "own" ELSE "star"])
                 /\ UNCHANGED pushed
  /\ UNCHANGED <<live, stored, blobs>>
-----------------------------------------------------------------------------
(* The user, the network and the browser *)

Ask(new) ==
  /\ task["user"] = NoTask /\ Room("user") /\ spent.ops < MaxOps
  /\ spent' = [spent EXCEPT !.ops = @ + 1]
  /\ Becomes("user", new)
  /\ UNCHANGED <<live, stored, blobs, pushed>>

\* The menu of RepoBackupControls: Backup and Update.
AskPin(r, reason) ==
  /\ Ask([NoTask EXCEPT !.step = "get", !.repo = r, !.reason = reason])
  /\ UNCHANGED <<mem, known>>

\* Rescue: what the pin names and the delegate lost.
AskRescue(r) ==
  /\ mem[r] # NoPin
  /\ Ask([NoTask EXCEPT !.step = "fill", !.repo = r, !.left = Content(r, mem[r].tip) \ blobs])
  /\ UNCHANGED <<mem, known>>

\* Clear this backup.
AskClear(r) ==
  /\ mem[r] # NoPin
  /\ mem' = [mem EXCEPT ![r] = NoPin] /\ UNCHANGED known
  /\ Ask([NoTask EXCEPT !.step = "forget", !.repo = r])

\* A push of this page (onRepoTipPushed) or of another device.
Push(r, here) ==
  /\ live[r] < MaxTip
  /\ live' = [live EXCEPT ![r] = @ + 1]
  /\ pushed' = IF here THEN pushed \cup {r} ELSE pushed
  /\ UNCHANGED <<stored, blobs, mem, known, task, spent>>

Reload ==
  /\ Fault
  /\ mem' = [r \in Repo |-> NoPin] /\ known' = FALSE
  /\ task' = [t \in Thread |-> NoTask] /\ pushed' = {}
  /\ UNCHANGED <<live, stored, blobs>>

BackupInit ==
  /\ live = [r \in Repo |-> 1]
  /\ \E had \in SUBSET Repo :
       /\ Repo \ Busy \subseteq had
       /\ stored = [r \in Repo |-> IF r \in had THEN [tip |-> 1, reasons |-> {"own"}] ELSE NoPin]
       /\ blobs = UNION {Content(r, 1) : r \in had}
  /\ mem = [r \in Repo |-> NoPin] /\ known = FALSE /\ pushed = {}
  /\ task = [t \in Thread |-> NoTask]
  /\ spent = [ops |-> 0, faults |-> 0]

ThreadNext(t) ==
  \/ GetExisting(t) \/ ReadTip(t) \/ CheckDurable(t) \/ Capture(t) \/ Confirm(t)
  \/ Put(t) \/ Persist(t) \/ ListPins(t) \/ ListBlobs(t) \/ Sweep(t)
  \/ Forget(t) \/ Fill(t) \/ LookAt(t) \/ Compare(t) \/ Mark(t)

BackupNext ==
  \/ \E t \in Thread : ThreadNext(t)
  \/ BeginPass \/ NextJob \/ NextRefresh
  \/ \E r \in Busy, reason \in Reason : AskPin(r, reason)
  \/ \E r \in Busy : AskRescue(r) \/ AskClear(r)
  \/ \E r \in Busy, here \in BOOLEAN : Push(r, here)
  \/ Reload

\* Every request is answered or fails, and what was begun goes on.  Nobody has
\* to begin a pass.
BackupFairness ==
  /\ \A t \in Thread : WF_backupVars(ThreadNext(t))
  /\ WF_backupVars(NextJob) /\ WF_backupVars(NextRefresh)

BackupSpec == BackupInit /\ [][BackupNext]_backupVars /\ BackupFairness
-----------------------------------------------------------------------------
BackupTypeOK ==
  /\ live \in [Repo -> Tip] /\ stored \in [Repo -> Pin] /\ mem \in [Repo -> Pin]
  /\ blobs \subseteq Hash /\ pushed \subseteq Repo /\ known \in BOOLEAN
  /\ task \in [Thread -> Task]
  /\ spent \in [ops : 0..MaxOps, faults : 0..MaxFaults]

\* Whatever the menu, the pass and the queue collected under each other, and
\* whatever failed between two of their steps: once nothing new happens, passes
\* that are begun again and again (RepoBackupWorker.tsx, PASS_INTERVAL_MS) leave
\* every pin the page knows at the tip, with all of its packs in the delegate.
Whole(r) ==
  mem[r] # NoPin => /\ mem[r].tip = live[r] /\ stored[r] = mem[r]
                    /\ Content(r, live[r]) \subseteq blobs
PassesGoOn == WF_backupVars(BeginPass)
BackupsHeal == PassesGoOn => <>[](\A r \in Repo : Whole(r))
=============================================================================
