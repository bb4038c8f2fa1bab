----------------------------- MODULE RepoEdits -----------------------------
(***************************************************************************)
(* One page edits a repository: pushes, and changes of its name, its       *)
(* description, its deletion mark (web/src/freenet/freenet-push.ts,        *)
(* owner-api.ts). Every edit reads the RepoState through the cache of      *)
(* tip-fetch.ts, has the delegate sign the field with the next seq, and    *)
(* Puts the result. Views fill the same cache meanwhile, and leaving the   *)
(* repository clears it (tip-cache-lifecycle.ts).                          *)
(***************************************************************************)
EXTENDS Naturals, FiniteSets

CONSTANTS
  Edit,         \* edits that may run at once
  Get,          \* contract GETs that may be on their way
  NoState, NoGet,
  MaxFieldSeq   \* bound on the seqs

ASSUME EditsAssumption == NoGet \notin Get /\ MaxFieldSeq \in Nat

\* The fields of a RepoState that are signed one by one; only their seqs matter.
Field == {"ref", "description"}
RepoState == [Field -> 0..MaxFieldSeq]

VARIABLES
  repo,       \* the RepoState on the node
  cache,      \* repoStateCache
  inflight,   \* repoStateInflight: the GET that a fetch joins
  gets,       \* the GETs on their way
  leaving,    \* a deferred clear is scheduled
  edit,       \* of each edit: its step, field, and the state it is built on
  pushed      \* the ref's seq after the last push this page finished

editVars == <<repo, cache, inflight, gets, leaving, edit, pushed>>

NoRecord == [sent |-> FALSE, valid |-> FALSE, state |-> NoState]
GetRecord == [sent : BOOLEAN, valid : BOOLEAN, state : RepoState \cup {NoState}]

NoEdit == [step |-> "none", field |-> "ref", on |-> NoGet, base |-> NoState, after |-> 0]
EditRecord == [step : {"none", "read", "write"}, field : Field, on : Get \cup {NoGet},
               base : RepoState \cup {NoState}, after : 0..MaxFieldSeq]

Unsent == {g \in Get : ~gets[g].sent}

\* fetchRepoState on a miss: a new GET, valid while tipCacheEpoch stays.
Ask(g) ==
  /\ g \in Unsent
  /\ gets' = [gets EXCEPT ![g] = [sent |-> TRUE, valid |-> TRUE, state |-> NoState]]
  /\ inflight' = g

\* A page of the repository reads it.
View(g) ==
  /\ cache = NoState /\ inflight = NoGet
  /\ Ask(g)
  /\ UNCHANGED <<repo, cache, leaving, edit, pushed>>

\* protect-tip-sync.ts clears the cache and reads again.
ProtectSync(g) ==
  /\ cache' = NoState
  /\ Ask(g)
  /\ UNCHANGED <<repo, leaving, edit, pushed>>

\* The node reads the state before its answer reaches the page.
NodeReads(g) ==
  /\ gets[g].sent /\ gets[g].state = NoState
  /\ gets' = [gets EXCEPT ![g].state = repo]
  /\ UNCHANGED <<repo, cache, inflight, leaving, edit, pushed>>

\* Whoever waits for a GET goes on with its state, or fails without one.
Waiters(g) == {e \in Edit : edit[e].step = "read" /\ edit[e].on = g}

Resume(g, state) ==
  edit' = [e \in Edit |->
    IF e \notin Waiters(g) THEN edit[e]
    ELSE IF state = NoState THEN NoEdit
    ELSE [edit[e] EXCEPT !.step = "write", !.on = NoGet, !.base = state]]

Caches_Always(g) == TRUE

\* tipCacheEpochValid
Caches(g) == gets[g].valid

GetAnswered(g) ==
  /\ gets[g].sent /\ gets[g].state # NoState
  /\ cache' = IF Caches(g) THEN gets[g].state ELSE cache
  /\ inflight' = NoGet
  /\ gets' = [gets EXCEPT ![g] = NoRecord]
  /\ Resume(g, gets[g].state)
  /\ UNCHANGED <<repo, leaving, pushed>>

GetFails(g) ==
  /\ gets[g].sent
  /\ inflight' = NoGet
  /\ gets' = [gets EXCEPT ![g] = NoRecord]
  /\ Resume(g, NoState)
  /\ UNCHANGED <<repo, cache, leaving, pushed>>

\* clearRepoStateCache: the epoch stays, so a GET on its way still fills the cache.
ClearState == cache' = NoState /\ inflight' = NoGet

\* clearRepoTipCaches: the epoch changes. It aborts the GETs too, but not those that
\* pause before a retry, and their answers come later (here, or as GetFails).
ClearTip ==
  /\ ClearState
  /\ gets' = [g \in Get |-> [gets[g] EXCEPT !.valid = FALSE]]

LeaveRepo ==
  /\ ~leaving /\ leaving' = TRUE
  /\ UNCHANGED <<repo, cache, inflight, gets, edit, pushed>>

ReturnToRepo ==
  /\ leaving /\ leaving' = FALSE
  /\ UNCHANGED <<repo, cache, inflight, gets, edit, pushed>>

DeferredClear ==
  /\ leaving /\ leaving' = FALSE
  /\ ClearTip
  /\ UNCHANGED <<repo, edit, pushed>>

\* An edit begins with fetchRepoState: the cache, a GET it joins, or a new one.
BeginEdit(e, f) ==
  /\ edit[e].step = "none"
  /\ LET begin(step, on, base) ==
           edit' = [edit EXCEPT ![e] =
             [step |-> step, field |-> f, on |-> on, base |-> base, after |-> pushed]]
     IN \/ /\ cache # NoState
           /\ begin("write", NoGet, cache)
           /\ UNCHANGED <<inflight, gets>>
        \/ /\ cache = NoState /\ inflight # NoGet
           /\ begin("read", inflight, NoState)
           /\ UNCHANGED <<inflight, gets>>
        \/ /\ cache = NoState /\ inflight = NoGet
           /\ \E g \in Get : Ask(g) /\ begin("read", g, NoState)
  /\ UNCHANGED <<repo, cache, leaving, pushed>>

\* The delegate signs the field with the seq after the one it was given; the
\* contract keeps the higher.
NextSeq(e) == edit[e].base[edit[e].field] + 1
Higher(a, b) == IF a > b THEN a ELSE b

Writes(e) ==
  /\ edit[e].step = "write" /\ NextSeq(e) <= MaxFieldSeq
  /\ repo' = [repo EXCEPT ![edit[e].field] = Higher(@, NextSeq(e))]

\* The Put, or the Update after it, is answered: a push clears the caches of the
\* tip, any other edit only the state.
EditDone(e) ==
  /\ Writes(e)
  /\ IF edit[e].field = "ref"
       THEN ClearTip /\ pushed' = Higher(pushed, NextSeq(e))
       ELSE ClearState /\ UNCHANGED <<gets, pushed>>
  /\ edit' = [edit EXCEPT ![e] = NoEdit]
  /\ UNCHANGED leaving

\* Both fail, or their answers are lost; or the page closes: nothing is cleared.
EditFails(e) ==
  /\ edit[e].step # "none"
  /\ Writes(e) \/ UNCHANGED repo
  /\ edit' = [edit EXCEPT ![e] = NoEdit]
  /\ UNCHANGED <<cache, inflight, gets, leaving, pushed>>

\* git push from the command line, or another browser of the owner.
OthersEdit(f) ==
  /\ repo[f] < MaxFieldSeq
  /\ repo' = [repo EXCEPT ![f] = @ + 1]
  /\ UNCHANGED <<cache, inflight, gets, leaving, edit, pushed>>

EditsInit ==
  /\ repo = [f \in Field |-> 0]
  /\ cache = NoState /\ inflight = NoGet
  /\ gets = [g \in Get |-> NoRecord]
  /\ leaving = FALSE
  /\ edit = [e \in Edit |-> NoEdit]
  /\ pushed = 0

EditsNext ==
  \/ \E g \in Get : View(g) \/ ProtectSync(g) \/ NodeReads(g) \/ GetAnswered(g) \/ GetFails(g)
  \/ LeaveRepo \/ ReturnToRepo \/ DeferredClear
  \/ \E e \in Edit : EditDone(e) \/ EditFails(e)
  \/ \E e \in Edit, f \in Field : BeginEdit(e, f)
  \/ \E f \in Field : OthersEdit(f)

EditsSpec == EditsInit /\ [][EditsNext]_editVars

-----------------------------------------------------------------------------
EditsTypeOK ==
  /\ repo \in RepoState /\ cache \in RepoState \cup {NoState}
  /\ inflight \in Get \cup {NoGet}
  /\ gets \in [Get -> GetRecord] /\ leaving \in BOOLEAN
  /\ edit \in [Edit -> EditRecord] /\ pushed \in 0..MaxFieldSeq

\* tip-cache-lifecycle.ts, "so in-flight tip loads don't repopulate caches": an
\* edit is never signed over a RepoState from before a push that this page had
\* finished when the edit began, whichever GETs were still on their way; it
\* would be signed with a seq that is taken, and be reported as done in vain.
EditSeesOwnPush ==
  \A e \in Edit : edit[e].step = "write" => edit[e].base["ref"] >= edit[e].after
=============================================================================
