--------------------------- MODULE PublishProofs ---------------------------
(***************************************************************************)
(* Proofs about what an owner's page publishes, for any number of edits,   *)
(* GETs, pages, packs and chunks: edits are signed over a state that has   *)
(* the page's own pushes, and tips name packs that were seen whole.        *)
(***************************************************************************)
EXTENDS RepoEdits, PackPublish, TLAPS

-----------------------------------------------------------------------------
(***************************************************************************)
(* Edits.  What a fetch may return is at least as new as the last push: a  *)
(* GET loses its validity when a push ends, and so its way to the cache    *)
(* and to the fetches that begin later; those that joined it before began  *)
(* before that push.                                                       *)
(***************************************************************************)
GetOK(g) ==
  gets[g].sent /\ gets[g].valid /\ gets[g].state # NoState
    => gets[g].state["ref"] >= pushed

EditOK(e) ==
  /\ edit[e].after <= pushed
  /\ edit[e].step = "read" =>
       /\ edit[e].on \in Get /\ gets[edit[e].on].sent
       /\ gets[edit[e].on].state # NoState
            => gets[edit[e].on].state["ref"] >= edit[e].after
  /\ edit[e].step = "write" =>
       edit[e].base \in RepoState /\ edit[e].base["ref"] >= edit[e].after

EditsInv ==
  /\ EditsTypeOK
  /\ repo["ref"] >= pushed
  /\ cache # NoState => cache["ref"] >= pushed
  /\ \A g \in Get : GetOK(g)
  /\ inflight # NoGet => gets[inflight].sent /\ gets[inflight].valid
  /\ \A e \in Edit : EditOK(e)

LEMMA StateSeqs ==
  /\ "ref" \in Field /\ 0 \in 0..MaxFieldSeq
  /\ \A s \in RepoState, f \in Field : s[f] \in 0..MaxFieldSeq /\ s[f] \in Nat
BY EditsAssumption DEF RepoState, Field

LEMMA NoEditOK == NoEdit \in EditRecord
BY StateSeqs DEF NoEdit, EditRecord

LEMMA EditsInvInit == EditsInit => EditsInv
<1> SUFFICES ASSUME EditsInit PROVE EditsInv
  OBVIOUS
<1>1. EditsTypeOK
  <2>1. NoRecord \in GetRecord
    BY DEF NoRecord, GetRecord
  <2>2. [f \in Field |-> 0] \in RepoState
    BY StateSeqs DEF RepoState
  <2> QED
    BY <2>1, <2>2, NoEditOK, StateSeqs DEF EditsInit, EditsTypeOK
<1>2. repo["ref"] = 0 /\ pushed = 0
  BY StateSeqs DEF EditsInit
<1> QED
  BY <1>1, <1>2 DEF EditsInit, EditsInv, GetOK, EditOK, NoRecord, NoEdit

\* A GET is asked for; only its own record changes, and nobody read on it.
LEMMA AskOK ==
  ASSUME EditsInv, NEW g \in Get, Ask(g)
  PROVE  /\ gets' \in [Get -> GetRecord] /\ inflight' \in Get
         /\ gets'[g].sent /\ gets'[g].valid /\ gets'[g].state = NoState
         /\ \A h \in Get : h # g => gets'[h] = gets[h]
         /\ ~gets[g].sent /\ inflight' = g
<1>1. [sent |-> TRUE, valid |-> TRUE, state |-> NoState] \in GetRecord
  BY DEF GetRecord
<1> QED
  BY <1>1 DEF Ask, Unsent, EditsInv, EditsTypeOK

\* When a GET ends, those who waited for it go on with what it brought.
LEMMA ResumeOK ==
  ASSUME EditsInv, NEW g \in Get, NEW s \in RepoState \cup {NoState},
         s # NoState => s = gets[g].state,
         Resume(g, s), gets' = [gets EXCEPT ![g] = NoRecord], UNCHANGED pushed
  PROVE  /\ edit' \in [Edit -> EditRecord] /\ gets' \in [Get -> GetRecord]
         /\ \A e \in Edit : EditOK(e)'
         /\ \A h \in Get : GetOK(h)'
<1>1. \A h \in Get : gets'[h] = IF h = g THEN NoRecord ELSE gets[h]
  BY DEF EditsInv, EditsTypeOK
<1>2. gets' \in [Get -> GetRecord] /\ \A h \in Get : GetOK(h)'
  BY <1>1 DEF EditsInv, EditsTypeOK, GetOK, NoRecord, GetRecord
<1>3. ASSUME NEW e \in Edit PROVE edit'[e] \in EditRecord /\ EditOK(e)'
  <2>0. edit[e] \in EditRecord /\ EditOK(e)
    BY DEF EditsInv, EditsTypeOK
  <2>1. CASE e \notin Waiters(g)
    <3>1. edit'[e] = edit[e]
      BY <2>1 DEF Resume
    <3> QED
      BY <1>1, <2>0, <2>1, <3>1 DEF EditOK, Waiters
  <2>2. CASE e \in Waiters(g) /\ s = NoState
    <3>1. edit'[e] = NoEdit
      BY <2>2 DEF Resume
    <3> QED
      BY <3>1, NoEditOK DEF EditOK, NoEdit, EditsInv, EditsTypeOK
  <2>3. CASE e \in Waiters(g) /\ s # NoState
    <3>1. edit'[e] = [edit[e] EXCEPT !.step = "write", !.on = NoGet, !.base = s]
      BY <2>3 DEF Resume
    <3>2. edit'[e] \in EditRecord /\ edit'[e].step = "write" /\ edit'[e].base = s
          /\ edit'[e].after = edit[e].after
      BY <2>0, <3>1 DEF EditRecord
    <3>3. s["ref"] >= edit[e].after
      BY <2>0, <2>3 DEF EditOK, Waiters
    <3> QED
      BY <2>0, <2>3, <3>2, <3>3 DEF EditOK
  <2> QED
    BY <2>1, <2>2, <2>3
<1> QED
  BY <1>2, <1>3 DEF Resume

\* The caches and the GETs' claim to them go; edits that wait are not disturbed.
LEMMA ClearTipOK ==
  ASSUME EditsInv, ClearTip
  PROVE  /\ gets' \in [Get -> GetRecord]
         /\ \A g \in Get : gets'[g].sent = gets[g].sent /\ gets'[g].state = gets[g].state
                           /\ ~gets'[g].valid
<1>1. \A g \in Get : gets'[g] = [gets[g] EXCEPT !.valid = FALSE] /\ gets[g] \in GetRecord
  BY DEF ClearTip, EditsInv, EditsTypeOK
<1> QED
  BY <1>1 DEF GetRecord, ClearTip

LEMMA WritesOK ==
  ASSUME EditsInv, NEW e \in Edit, Writes(e)
  PROVE  /\ repo' \in RepoState /\ repo'["ref"] >= repo["ref"]
         /\ NextSeq(e) \in 0..MaxFieldSeq
         /\ edit[e].field = "ref" => repo'["ref"] >= NextSeq(e)
<1>1. edit[e].field \in Field /\ edit[e].base \in RepoState
  BY DEF EditsInv, EditsTypeOK, EditOK, EditRecord, Writes
<1>2. NextSeq(e) \in 0..MaxFieldSeq
  BY <1>1, StateSeqs, EditsAssumption DEF NextSeq, Writes
<1>3. repo \in RepoState
  BY DEF EditsInv, EditsTypeOK
<1>4. Higher(repo[edit[e].field], NextSeq(e)) \in 0..MaxFieldSeq
  BY <1>1, <1>2, <1>3, StateSeqs DEF Higher
<1>5. repo' = [repo EXCEPT ![edit[e].field] = Higher(repo[edit[e].field], NextSeq(e))]
  BY DEF Writes
<1>6. repo' \in RepoState
  BY <1>1, <1>3, <1>4, <1>5 DEF RepoState
<1>7. repo'["ref"] = IF edit[e].field = "ref" THEN Higher(repo["ref"], NextSeq(e)) ELSE repo["ref"]
  BY <1>3, <1>5, StateSeqs DEF RepoState
<1>8. repo["ref"] \in Nat /\ NextSeq(e) \in Nat
  BY <1>2, <1>3, StateSeqs
<1> QED
  BY <1>2, <1>6, <1>7, <1>8 DEF Higher

\* A step that leaves repo, pushed and the GETs alone, and one edit apart.
LEMMA EditsStep == EditsInv /\ [EditsNext]_editVars => EditsInv'
<1> SUFFICES ASSUME EditsInv, [EditsNext]_editVars PROVE EditsInv'
  OBVIOUS
<1>0. EditsTypeOK /\ pushed \in Nat /\ repo["ref"] \in Nat
  BY StateSeqs DEF EditsInv, EditsTypeOK
<1>1. ASSUME NEW g \in Get, View(g) PROVE EditsInv'
  BY <1>1, AskOK DEF View, EditsInv, EditsTypeOK, GetOK, EditOK
<1>2. ASSUME NEW g \in Get, ProtectSync(g) PROVE EditsInv'
  BY <1>2, AskOK DEF ProtectSync, EditsInv, EditsTypeOK, GetOK, EditOK
<1>3. ASSUME NEW g \in Get, NodeReads(g) PROVE EditsInv'
  <2>1. [gets[g] EXCEPT !.state = repo] \in GetRecord
    BY <1>0 DEF EditsTypeOK, GetRecord
  <2>2. \A h \in Get :
          /\ gets'[h].sent = gets[h].sent /\ gets'[h].valid = gets[h].valid
          /\ gets'[h].state = IF h = g THEN repo ELSE gets[h].state
    BY <1>0, <1>3 DEF NodeReads, EditsTypeOK, GetRecord
  <2>3. \A e \in Edit : edit[e].after \in Nat
    BY <1>0 DEF EditsTypeOK, EditRecord
  <2>4. \A e \in Edit : EditOK(e)'
    <3> SUFFICES ASSUME NEW e \in Edit PROVE EditOK(e)'
      OBVIOUS
    <3>1. EditOK(e) /\ edit'[e] = edit[e] /\ pushed' = pushed /\ repo["ref"] >= edit[e].after
      BY <1>0, <1>3, <2>3 DEF EditsInv, EditOK, NodeReads
    <3> QED
      BY <2>2, <3>1 DEF EditOK
  <2>5. \A h \in Get : GetOK(h)'
    BY <1>0, <1>3, <2>2 DEF GetOK, NodeReads, EditsInv
  <2>6. EditsTypeOK'
    BY <1>0, <1>3, <2>1 DEF NodeReads, EditsTypeOK
  <2>7. inflight # NoGet => inflight \in Get
    BY <1>0 DEF EditsTypeOK
  <2> QED
    BY <1>3, <2>2, <2>4, <2>5, <2>6, <2>7 DEF NodeReads, EditsInv
<1>4. ASSUME NEW g \in Get, GetAnswered(g) PROVE EditsInv'
  <2>1. gets[g].state \in RepoState
    BY <1>0, <1>4 DEF GetAnswered, EditsTypeOK, GetRecord
  <2>2. /\ edit' \in [Edit -> EditRecord] /\ gets' \in [Get -> GetRecord]
        /\ \A e \in Edit : EditOK(e)'
        /\ \A h \in Get : GetOK(h)'
    BY <1>4, <2>1, ResumeOK DEF GetAnswered
  <2>3. cache' # NoState => cache'["ref"] >= pushed
    BY <1>4 DEF GetAnswered, Caches, EditsInv, GetOK
  <2> QED
    BY <1>4, <2>1, <2>2, <2>3 DEF GetAnswered, EditsInv, EditsTypeOK
<1>5. ASSUME NEW g \in Get, GetFails(g) PROVE EditsInv'
  <2>1. /\ edit' \in [Edit -> EditRecord] /\ gets' \in [Get -> GetRecord]
        /\ \A e \in Edit : EditOK(e)'
        /\ \A h \in Get : GetOK(h)'
    BY <1>5, ResumeOK DEF GetFails
  <2> QED
    BY <1>5, <2>1 DEF GetFails, EditsInv, EditsTypeOK
<1>6. CASE LeaveRepo \/ ReturnToRepo
  <2>1. UNCHANGED <<repo, cache, inflight, gets, edit, pushed>> /\ leaving' \in BOOLEAN
    BY <1>6 DEF LeaveRepo, ReturnToRepo
  <2> QED
    BY <2>1 DEF EditsInv, EditsTypeOK, GetOK, EditOK
<1>7. CASE DeferredClear
  <2>1. /\ UNCHANGED <<repo, edit, pushed>> /\ leaving' \in BOOLEAN
        /\ cache' = NoState /\ inflight' = NoGet
    BY <1>7 DEF DeferredClear, ClearTip, ClearState
  <2>2. /\ gets' \in [Get -> GetRecord]
        /\ \A g \in Get : gets'[g].sent = gets[g].sent /\ gets'[g].state = gets[g].state
                          /\ ~gets'[g].valid
    BY <1>7, ClearTipOK DEF DeferredClear
  <2>3. \A e \in Edit : EditOK(e)'
    BY <2>1, <2>2 DEF EditsInv, EditOK
  <2> QED
    BY <2>1, <2>2, <2>3 DEF EditsInv, EditsTypeOK, GetOK
<1>8. ASSUME NEW e \in Edit, EditDone(e) PROVE EditsInv'
  <2>1. /\ repo' \in RepoState /\ repo'["ref"] >= repo["ref"]
        /\ NextSeq(e) \in 0..MaxFieldSeq
        /\ edit[e].field = "ref" => repo'["ref"] >= NextSeq(e)
    BY <1>8, WritesOK DEF EditDone
  <2>2. /\ pushed' \in 0..MaxFieldSeq /\ pushed' >= pushed /\ repo'["ref"] >= pushed'
    BY <1>0, <1>8, <2>1, StateSeqs DEF EditDone, EditsTypeOK, Higher, EditsInv
  <2>3. cache' = NoState /\ inflight' = NoGet
    BY <1>8 DEF EditDone, ClearTip, ClearState
  <2>4. /\ gets' \in [Get -> GetRecord]
        /\ \A g \in Get : gets'[g].sent = gets[g].sent /\ gets'[g].state = gets[g].state
        /\ \A g \in Get : GetOK(g)'
    <3>1. CASE edit[e].field = "ref"
      BY <1>8, <3>1, ClearTipOK DEF EditDone, GetOK
    <3>2. CASE edit[e].field # "ref"
      BY <1>0, <1>8, <3>2 DEF EditDone, GetOK, EditsInv, EditsTypeOK
    <3> QED
      BY <3>1, <3>2
  <2>5. \A f \in Edit : edit'[f] = IF f = e THEN NoEdit ELSE edit[f]
    BY <1>0, <1>8 DEF EditDone, EditsTypeOK
  <2>6. edit' \in [Edit -> EditRecord]
    BY <1>0, <1>8, NoEditOK DEF EditDone, EditsTypeOK
  <2>7. ASSUME NEW f \in Edit PROVE EditOK(f)'
    <3>1. CASE f = e
      BY <2>2, <2>5, <3>1 DEF EditOK, NoEdit
    <3>2. CASE f # e
      <4>1. edit'[f] = edit[f] /\ EditOK(f) /\ edit[f].after \in Nat /\ pushed' \in Nat
        BY <1>0, <2>2, <2>5, <3>2 DEF EditsInv, EditsTypeOK, EditRecord
      <4> QED
        BY <1>0, <2>2, <2>4, <4>1 DEF EditOK
    <3> QED
      BY <3>1, <3>2
  <2> QED
    BY <1>0, <1>8, <2>1, <2>2, <2>3, <2>4, <2>6, <2>7 DEF EditDone, EditsInv, EditsTypeOK
<1>9. ASSUME NEW e \in Edit, EditFails(e) PROVE EditsInv'
  <2>1. repo' \in RepoState /\ repo'["ref"] >= repo["ref"]
    BY <1>0, <1>9, WritesOK DEF EditFails, EditsTypeOK
  <2>2. repo'["ref"] >= pushed
    BY <1>0, <2>1, StateSeqs DEF EditsInv
  <2>3. \A f \in Edit : edit'[f] = IF f = e THEN NoEdit ELSE edit[f]
    BY <1>0, <1>9 DEF EditFails, EditsTypeOK
  <2>4. edit' \in [Edit -> EditRecord]
    BY <1>0, <1>9, NoEditOK DEF EditFails, EditsTypeOK
  <2>5. \A f \in Edit : EditOK(f)'
    BY <1>0, <1>9, <2>3 DEF EditFails, EditsInv, EditOK, NoEdit
  <2> QED
    BY <1>0, <1>9, <2>1, <2>2, <2>4, <2>5 DEF EditFails, EditsInv, EditsTypeOK, GetOK
<1>10. ASSUME NEW e \in Edit, NEW f \in Field, BeginEdit(e, f) PROVE EditsInv'
  <2>2. UNCHANGED <<repo, cache, leaving, pushed>>
    BY <1>10 DEF BeginEdit
  <2>3. ASSUME NEW r \in EditRecord, edit' = [edit EXCEPT ![e] = r],
               gets' \in [Get -> GetRecord],
               \A g \in Get : gets[g].sent => gets'[g] = gets[g],
               \A g \in Get : GetOK(g)',
               inflight' \in Get, gets'[inflight'].sent, gets'[inflight'].valid,
               r.after = pushed, r.step = "read", r.on = inflight'
        PROVE  EditsInv'
    <3>1. \A d \in Edit : edit'[d] = IF d = e THEN r ELSE edit[d]
      BY <1>0, <2>3 DEF EditsTypeOK
    <3>2. EditOK(e)'
      BY <1>0, <2>2, <2>3, <3>1 DEF EditOK, GetOK
    <3>3. \A d \in Edit : d # e => EditOK(d)'
      BY <2>2, <2>3, <3>1 DEF EditOK, EditsInv
    <3>4. EditsTypeOK'
      BY <1>0, <2>2, <2>3 DEF EditsTypeOK
    <3> QED
      BY <2>2, <2>3, <3>2, <3>3, <3>4 DEF EditsInv
  <2>4. CASE /\ cache # NoState
             /\ edit' = [edit EXCEPT ![e] =
                       [step |-> "write", field |-> f, on |-> NoGet, base |-> cache, after |-> pushed]]
             /\ UNCHANGED <<inflight, gets>>
    <3> DEFINE r == [step |-> "write", field |-> f, on |-> NoGet, base |-> cache, after |-> pushed]
    <3>1. edit' = [edit EXCEPT ![e] = r] /\ r \in EditRecord
      BY <1>0, <2>4 DEF EditRecord, EditsTypeOK
    <3>2. \A d \in Edit : edit'[d] = IF d = e THEN r ELSE edit[d]
      BY <1>0, <3>1 DEF EditsTypeOK
    <3>3. \A d \in Edit : EditOK(d)'
      BY <1>0, <2>2, <2>4, <3>2 DEF EditOK, EditsInv, EditsTypeOK
    <3> QED
      BY <1>0, <2>2, <2>4, <3>1, <3>3 DEF EditsInv, EditsTypeOK, GetOK
  <2>5. CASE /\ cache = NoState /\ inflight # NoGet
             /\ edit' = [edit EXCEPT ![e] =
                       [step |-> "read", field |-> f, on |-> inflight, base |-> NoState, after |-> pushed]]
             /\ UNCHANGED <<inflight, gets>>
    <3> DEFINE r == [step |-> "read", field |-> f, on |-> inflight, base |-> NoState, after |-> pushed]
    <3>1. edit' = [edit EXCEPT ![e] = r] /\ r \in EditRecord
      BY <1>0, <2>5 DEF EditRecord, EditsTypeOK
    <3>2. \A g \in Get : GetOK(g)'
      BY <2>2, <2>5 DEF EditsInv, GetOK
    <3> QED
      BY <1>0, <2>2, <2>3, <2>5, <3>1, <3>2 DEF EditsInv, EditsTypeOK
  <2>6. CASE \E g \in Get : Ask(g) /\ edit' = [edit EXCEPT ![e] =
                       [step |-> "read", field |-> f, on |-> g, base |-> NoState, after |-> pushed]]
    <3>1. PICK g \in Get : Ask(g) /\ edit' = [edit EXCEPT ![e] =
                       [step |-> "read", field |-> f, on |-> g, base |-> NoState, after |-> pushed]]
      BY <2>6
    <3> DEFINE r == [step |-> "read", field |-> f, on |-> g, base |-> NoState, after |-> pushed]
    <3>2. edit' = [edit EXCEPT ![e] = r] /\ r \in EditRecord
      BY <1>0, <3>1 DEF EditRecord, EditsTypeOK
    <3>3. /\ gets' \in [Get -> GetRecord] /\ inflight' = g
          /\ gets'[g].sent /\ gets'[g].valid /\ gets'[g].state = NoState
          /\ \A h \in Get : h # g => gets'[h] = gets[h]
          /\ ~gets[g].sent
      BY <3>1, AskOK
    <3>4. \A h \in Get : GetOK(h)'
      BY <2>2, <3>3 DEF EditsInv, GetOK
    <3>5. \A h \in Get : gets[h].sent => gets'[h] = gets[h]
      BY <3>3
    <3> QED
      BY <2>3, <3>2, <3>3, <3>4, <3>5
  <2> QED
    BY <1>10, <2>4, <2>5, <2>6 DEF BeginEdit
<1>11. ASSUME NEW f \in Field, OthersEdit(f) PROVE EditsInv'
  <2>1. repo[f] + 1 \in 0..MaxFieldSeq
    BY <1>0, <1>11, StateSeqs, EditsAssumption DEF OthersEdit, EditsTypeOK
  <2>2. repo' \in RepoState /\ repo'["ref"] >= repo["ref"]
    BY <1>0, <1>11, <2>1, StateSeqs DEF OthersEdit, EditsTypeOK, RepoState
  <2>3. repo'["ref"] >= pushed
    BY <1>0, <2>2, StateSeqs DEF EditsInv
  <2> QED
    BY <1>11, <2>2, <2>3 DEF OthersEdit, EditsInv, EditsTypeOK, GetOK, EditOK
<1>12. CASE UNCHANGED editVars
  BY <1>12 DEF editVars, EditsInv, EditsTypeOK, GetOK, EditOK
<1> QED
  BY <1>1, <1>2, <1>3, <1>4, <1>5, <1>6, <1>7, <1>8, <1>9, <1>10, <1>11, <1>12 DEF EditsNext

\* The page's caches, GETs and edits are well formed, for any number of them.
THEOREM EditsTypeCorrect == EditsSpec => []EditsTypeOK
<1>1. EditsInv => EditsTypeOK
  BY DEF EditsInv
<1> QED
  BY <1>1, EditsInvInit, EditsStep, PTL DEF EditsSpec

\* No edit is signed over a RepoState older than a push that the page had
\* finished when the edit began, whichever GETs were on their way.
THEOREM EditSeesOwnPushAlways == EditsSpec => []EditSeesOwnPush
<1>1. EditsInv => EditSeesOwnPush
  BY DEF EditsInv, EditOK, EditSeesOwnPush
<1> QED
  BY <1>1, EditsInvInit, EditsStep, PTL DEF EditsSpec

-----------------------------------------------------------------------------
(***************************************************************************)
(* Packs.  The steps of a page are reached only with the chunks of its     *)
(* pack confirmed; what is confirmed stays so.                             *)
(***************************************************************************)
TaskOK(p) ==
  LET k == task[p].pack
  IN  /\ task[p].step # "idle" => k \in Pack
      /\ task[p].step = "readChunks" => ChunksOf[k] \ task[p].todo \subseteq confirmed
      /\ task[p].step \in {"putPack", "readPack", "sign"} => ChunksOf[k] \subseteq confirmed
      /\ task[p].step = "sign" => k \in confirmed

PacksInv == PacksTypeOK /\ TipIsWhole /\ \A p \in Page : TaskOK(p)

LEMMA PacksInvInit == PacksInit => PacksInv
<1> SUFFICES ASSUME PacksInit PROVE PacksInv
  OBVIOUS
<1>1. IdleTask \in Task
  BY DEF IdleTask, Task, PackStep
<1> QED
  BY <1>1, PacksAssumption
     DEF PacksInit, PacksInv, PacksTypeOK, TipIsWhole, TaskOK, IdleTask

\* One page goes on to t, and more may be confirmed.
LEMMA TaskStep ==
  ASSUME PacksInv, NEW p \in Page, NEW t \in Task, task' = [task EXCEPT ![p] = t],
         confirmed \subseteq confirmed', confirmed' \subseteq Blob,
         held' \subseteq Blob, UNCHANGED <<tipped, evictions, idb, probe>>,
         t.step # "idle" => t.pack \in Pack,
         t.step = "readChunks" => ChunksOf[t.pack] \ t.todo \subseteq confirmed',
         t.step \in {"putPack", "readPack", "sign"} => ChunksOf[t.pack] \subseteq confirmed',
         t.step = "sign" => t.pack \in confirmed'
  PROVE  PacksInv'
<1>1. \A q \in Page : task'[q] = IF q = p THEN t ELSE task[q]
  BY DEF PacksInv, PacksTypeOK
<1>2. PacksTypeOK'
  BY DEF PacksInv, PacksTypeOK
<1>3. TipIsWhole'
  BY DEF PacksInv, TipIsWhole
<1>4. TaskOK(p)'
  BY <1>1 DEF TaskOK
<1>5. \A q \in Page : q # p => TaskOK(q)'
  BY <1>1 DEF PacksInv, TaskOK
<1> QED
  BY <1>2, <1>3, <1>4, <1>5 DEF PacksInv

LEMMA PacksStep == PacksInv /\ [PacksNext]_packVars => PacksInv'
<1> SUFFICES ASSUME PacksInv, [PacksNext]_packVars PROVE PacksInv'
  OBVIOUS
<1>0. /\ PacksTypeOK /\ ChunksOf \in [Pack -> SUBSET Chunk] /\ IdleTask \in Task
      /\ \A p \in Page : task[p] \in Task /\ TaskOK(p)
  BY PacksAssumption DEF PacksInv, PacksTypeOK, IdleTask, Task, PackStep
<1>1. ASSUME NEW p \in Page, NEW k \in Pack, NEW r \in BOOLEAN, BeginPublish(p, k, r),
             UNCHANGED <<held, confirmed, tipped, evictions, idb, probe>>
      PROVE  PacksInv'
  <2> DEFINE t == [step |-> IF Chunked(k) THEN "putChunks" ELSE "putPack",
                   pack |-> k, todo |-> ChunksOf[k], rescue |-> r]
  <2>1. t \in Task
    BY <1>0 DEF Task, PackStep
  <2> QED
    BY <1>0, <1>1, <2>1, TaskStep DEF BeginPublish, Chunked, PacksTypeOK
<1>2. ASSUME NEW p \in Page, NEW k \in Pack, BeginPush(p, k) \/ BeginRescue(p, k)
      PROVE  PacksInv'
  BY <1>1, <1>2 DEF BeginPush, BeginRescue
<1>3. ASSUME NEW p \in Page, NEW c \in Chunk, PutChunk(p, c) PROVE PacksInv'
  <2> DEFINE t == [task[p] EXCEPT !.todo = @ \ {c}]
  <2>1. t \in Task /\ t.step = "putChunks" /\ t.pack = task[p].pack
    BY <1>0, <1>3 DEF PutChunk, Working, Task
  <2>2. task' = [task EXCEPT ![p] = t]
    BY <1>3 DEF PutChunk
  <2> QED
    BY <1>0, <1>3, <2>1, <2>2, TaskStep DEF PutChunk, TaskOK, PacksTypeOK, Blob, Working
<1>4. ASSUME NEW p \in Page, ChunksPut(p) PROVE PacksInv'
  <2> DEFINE t == [task[p] EXCEPT !.step = "readChunks", !.todo = ChunksOf[task[p].pack]]
  <2>1. task[p].pack \in Pack
    BY <1>0, <1>4 DEF ChunksPut, Working, TaskOK
  <2>2. t \in Task /\ t.step = "readChunks" /\ t.pack = task[p].pack /\ t.todo = ChunksOf[t.pack]
    BY <1>0, <2>1 DEF Task, PackStep
  <2>3. task' = [task EXCEPT ![p] = t]
    BY <1>4 DEF ChunksPut, AfterChunks
  <2> QED
    BY <1>0, <1>4, <2>1, <2>2, <2>3, TaskStep DEF ChunksPut, PacksTypeOK
<1>5. ASSUME NEW p \in Page, NEW c \in Chunk, ReadChunk(p, c) PROVE PacksInv'
  <2> DEFINE t == [task[p] EXCEPT !.todo = @ \ {c}]
  <2>1. t \in Task /\ t.step = "readChunks" /\ t.pack = task[p].pack /\ t.todo = task[p].todo \ {c}
    BY <1>0, <1>5 DEF ReadChunk, Working, Task
  <2>2. task' = [task EXCEPT ![p] = t] /\ confirmed' = confirmed \cup {c}
    BY <1>5 DEF ReadChunk
  <2>3. ChunksOf[t.pack] \ t.todo \subseteq confirmed'
    BY <1>0, <1>5, <2>1, <2>2 DEF TaskOK, ReadChunk, Working
  <2>4. t.pack \in Pack
    BY <1>0, <1>5, <2>1 DEF TaskOK, ReadChunk, Working
  <2>5. confirmed' \subseteq Blob /\ held' \subseteq Blob
    BY <1>0, <1>5 DEF ReadChunk, PacksTypeOK, Blob
  <2> QED
    BY <1>5, <2>1, <2>2, <2>3, <2>4, <2>5, TaskStep DEF ReadChunk
<1>6. ASSUME NEW p \in Page, ChunksRead(p) PROVE PacksInv'
  <2> DEFINE t == [task[p] EXCEPT !.step = "putPack"]
  <2>1. t \in Task /\ t.step = "putPack" /\ t.pack = task[p].pack
    BY <1>0 DEF Task, PackStep
  <2>2. task' = [task EXCEPT ![p] = t]
    BY <1>6 DEF ChunksRead, Now
  <2>3. t.pack \in Pack /\ ChunksOf[t.pack] \subseteq confirmed
    BY <1>0, <1>6, <2>1 DEF TaskOK, ChunksRead, Working
  <2> QED
    BY <1>0, <1>6, <2>1, <2>2, <2>3, TaskStep DEF ChunksRead, PacksTypeOK
<1>7. ASSUME NEW p \in Page, PutPack(p) PROVE PacksInv'
  <2> DEFINE k == task[p].pack
  <2>1. k \in Pack /\ ChunksOf[k] \subseteq confirmed
    BY <1>0, <1>7 DEF TaskOK, PutPack, Working
  <2>2. /\ held' = held \cup {k}
        /\ confirmed' = IF Chunked(k) THEN confirmed ELSE confirmed \cup {k}
        /\ UNCHANGED <<tipped, evictions, idb, probe>>
    BY <1>7 DEF PutPack
  <2>3. held' \subseteq Blob /\ confirmed' \subseteq Blob /\ confirmed \subseteq confirmed'
    BY <1>0, <2>1, <2>2 DEF PacksTypeOK, Blob
  <2>4. ASSUME NEW s \in {"readPack", "sign"}, Now(p, s), s = "sign" => ~Chunked(k)
        PROVE  PacksInv'
    <3> DEFINE t == [task[p] EXCEPT !.step = s]
    <3>1. t \in Task /\ t.step = s /\ t.pack = k
      BY <1>0 DEF Task, PackStep
    <3>2. task' = [task EXCEPT ![p] = t]
      BY <2>4 DEF Now
    <3>3. ChunksOf[t.pack] \subseteq confirmed' /\ (t.step = "sign" => t.pack \in confirmed')
      BY <2>1, <2>2, <2>3, <2>4, <3>1
    <3> HIDE DEF t
    <3> QED
      BY <2>1, <2>2, <2>3, <3>1, <3>2, <3>3, TaskStep
  <2>5. CASE task' = [task EXCEPT ![p] = IdleTask]
    BY <1>0, <2>2, <2>3, <2>5, TaskStep DEF IdleTask
  <2> QED
    BY <1>7, <2>4, <2>5 DEF PutPack
<1>8. ASSUME NEW p \in Page, ReadPack(p) PROVE PacksInv'
  <2> DEFINE k == task[p].pack
  <2>1. k \in Pack /\ ChunksOf[k] \subseteq confirmed
    BY <1>0, <1>8 DEF TaskOK, ReadPack, Working
  <2>2. confirmed' = confirmed \cup {k} /\ UNCHANGED <<held, tipped, evictions, idb, probe>>
    BY <1>8 DEF ReadPack
  <2>3. held' \subseteq Blob /\ confirmed' \subseteq Blob /\ confirmed \subseteq confirmed'
    BY <1>0, <2>1, <2>2 DEF PacksTypeOK, Blob
  <2>4. CASE task' = [task EXCEPT ![p] = IdleTask]
    BY <1>0, <2>2, <2>3, <2>4, TaskStep DEF IdleTask
  <2>5. CASE Now(p, "sign")
    <3> DEFINE t == [task[p] EXCEPT !.step = "sign"]
    <3>1. t \in Task /\ t.step = "sign" /\ t.pack = k
      BY <1>0 DEF Task, PackStep
    <3>2. task' = [task EXCEPT ![p] = t]
      BY <2>5 DEF Now
    <3> HIDE DEF t
    <3> QED
      BY <2>1, <2>2, <2>3, <3>1, <3>2, TaskStep
  <2> QED
    BY <1>8, <2>4, <2>5 DEF ReadPack
<1>9. ASSUME NEW p \in Page, SignTip(p) PROVE PacksInv'
  <2>1. /\ task[p].pack \in Pack
        /\ {task[p].pack} \cup ChunksOf[task[p].pack] \subseteq confirmed
    BY <1>0, <1>9 DEF TaskOK, SignTip, Working
  <2>2. \A q \in Page : task'[q] = IF q = p THEN IdleTask ELSE task[q]
    BY <1>0, <1>9 DEF SignTip, PacksTypeOK
  <2>3. \A q \in Page : TaskOK(q)'
    BY <1>0, <1>9, <2>2 DEF TaskOK, SignTip, IdleTask
  <2>4. PacksTypeOK' /\ TipIsWhole'
    BY <1>0, <1>9, <2>1 DEF SignTip, PacksTypeOK, TipIsWhole, PacksInv
  <2> QED
    BY <2>3, <2>4 DEF PacksInv
<1>10. ASSUME NEW p \in Page, Abandon(p) PROVE PacksInv'
  <2>1. task[p].step = "putPack" => task[p].pack \in Pack
    BY <1>0 DEF TaskOK
  <2>2. task[p].todo \subseteq Chunk
    BY <1>0 DEF Task
  <2>3. held' \subseteq Blob
    BY <1>0, <1>10, <2>1, <2>2 DEF Abandon, Interrupted, PacksTypeOK, Blob, Working
  <2> QED
    BY <1>0, <1>10, <2>3, TaskStep DEF Abandon, Interrupted, IdleTask, PacksTypeOK
<1>11. ASSUME NEW p \in Page, NEW k \in Pack, Browse(p, k) PROVE PacksInv'
  BY <1>0, <1>11 DEF Browse, PacksInv, PacksTypeOK, TipIsWhole, TaskOK
<1>12. ASSUME NEW p \in Page, Probe(p) PROVE PacksInv'
  BY <1>0, <1>12 DEF Probe, PacksInv, PacksTypeOK, TipIsWhole, TaskOK
<1>13. ASSUME NEW b \in Blob, Evict(b) PROVE PacksInv'
  BY <1>0, <1>13, PacksAssumption DEF Evict, PacksInv, PacksTypeOK, TipIsWhole, TaskOK
<1>14. CASE UNCHANGED packVars
  BY <1>0, <1>14 DEF packVars, PacksInv, PacksTypeOK, TipIsWhole, TaskOK
<1> QED
  BY <1>2, <1>3, <1>4, <1>5, <1>6, <1>7, <1>8, <1>9, <1>10, <1>11, <1>12, <1>13, <1>14
     DEF PacksNext

\* What pages publish and keep is well formed, for any pages and packs.
THEOREM PacksTypeCorrect == PacksSpec => []PacksTypeOK
<1>1. PacksInv => PacksTypeOK
  BY DEF PacksInv
<1> QED
  BY <1>1, PacksInvInit, PacksStep, PTL DEF PacksSpec

\* No tip names a pack of which a part was never seen on the network, whatever
\* pages push, rescue and abandon, and whichever chunks their packs share.
THEOREM TipIsWholeAlways == PacksSpec => []TipIsWhole
<1>1. PacksInv => TipIsWhole
  BY DEF PacksInv
<1> QED
  BY <1>1, PacksInvInit, PacksStep, PTL DEF PacksSpec
=============================================================================
