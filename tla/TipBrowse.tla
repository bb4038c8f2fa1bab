----------------------------- MODULE TipBrowse -----------------------------
(***************************************************************************)
(* One page browses one repository: web/src/freenet/native-api.ts and      *)
(* tip-fetch.ts, web/src/tip-browse/browser-api.ts and idb-cache.ts. A view *)
(* asks for the tip of a ref; a load reads the RepoState, fetches the pack  *)
(* of the head, then others until the ref's commit is found, and goes on    *)
(* in the background with the rest ("soft fill"), because packs hold only   *)
(* what is new. Tips, merged objects and packs are cached until the page    *)
(* leaves the repository or pushes to it.                                   *)
(*                                                                         *)
(* Version v of the repository has the packs 1..v; the head's commit is in *)
(* pack v, a tag's in pack 1. A listing may need any of them.              *)
(***************************************************************************)
EXTENDS Naturals, FiniteSets

CONSTANTS
  Load,        \* calls of loadBrowserTip
  NoLoad,
  View,        \* trees, blobs and lists that are shown
  MaxVersion   \* bound on the pushes

ASSUME BrowseAssumption == NoLoad \notin Load /\ MaxVersion \in Nat \ {0}

Ref == {"head", "tag"}
Pack == 1..MaxVersion
Version == 0..MaxVersion   \* 0: none

VARIABLES
  version,   \* of the RepoState on the node
  stateKept, \* repoStateCache
  tips,      \* tipCache: the load a view of a ref joins
  merged,    \* mergedTipCache, by ref and its target
  packs,     \* packs whose bytes are in the cache of idb-cache.ts
  load,      \* of each load: how far it is
  view,      \* of each view: the load it waits for, what it shows
  own,       \* the version after the last push of this page
  page       \* on the repository, just left (the timer runs) or gone

browseVars == <<version, stateKept, tips, merged, packs, load, view, own, page>>

NoTip == [ref |-> "head", step |-> "none", valid |-> FALSE, raced |-> FALSE,
          at |-> 0, objects |-> NoLoad, have |-> {}, tried |-> {}, getting |-> 0, cut |-> FALSE]

\* raced: the deadline was first, nobody waits for the promise any more; cut:
\* abortContractGets was called while a pack was on its way.
LoadRecord ==
  [ref : Ref, step : {"none", "state", "packs", "ready", "full", "failed"},
   valid : BOOLEAN, raced : BOOLEAN, at : Version, objects : Load \cup {NoLoad},
   have : SUBSET Pack, tried : SUBSET Pack, getting : Version, cut : BOOLEAN]

NoView == [step |-> "none", on |-> NoLoad, after |-> 0, shows |-> 0]
ViewRecord == [step : {"none", "wait", "shown", "error"}, on : Load \cup {NoLoad},
               after : Version, shows : Version]

NoneMerged == [r \in Ref |-> [v \in Version |-> NoLoad]]

PackOf(ref, v) == IF ref = "head" THEN v ELSE 1
Unused == {l \in Load : load[l].step = "none"}
Tipped(l) == 1..load[l].at
Peels(l) == PackOf(load[l].ref, load[l].at) \in load[l].have
-----------------------------------------------------------------------------
\* nativeEnsureTip: join the load of this ref, or begin one.
Open(w, ref) ==
  /\ page = "on" /\ view[w].step # "wait"
  /\ \/ /\ tips[ref] # NoLoad
        /\ view' = [view EXCEPT ![w] = [NoView EXCEPT !.step = "wait", !.on = tips[ref], !.after = own]]
        /\ UNCHANGED <<tips, load>>
     \/ /\ tips[ref] = NoLoad
        /\ Unused # {}
        /\ LET l == CHOOSE k \in Unused : TRUE IN
             /\ load' = [load EXCEPT ![l] = [NoTip EXCEPT !.ref = ref, !.step = "state", !.valid = TRUE]]
             /\ tips' = [tips EXCEPT ![ref] = l]
             /\ view' = [view EXCEPT ![w] = [NoView EXCEPT !.step = "wait", !.on = l, !.after = own]]
  /\ UNCHANGED <<version, stateKept, merged, packs, own, page>>

\* A load is rejected: its views fail, and tipCache loses the entry of the
\* ref, also when a later load has put another there. A fill that fails
\* leaves the tip in tipCache, and whoever joins it fails too.
RejectLoad(l) ==
  /\ load' = [load EXCEPT ![l] = [NoTip EXCEPT !.ref = load[l].ref, !.step = "failed",
                                               !.valid = load[l].valid, !.at = load[l].at]]
  /\ view' = [w \in View |-> IF view[w].step = "wait" /\ view[w].on = l
                             THEN [view[w] EXCEPT !.step = "error"] ELSE view[w]]
  /\ tips' = IF load[l].raced \/ load[l].step = "ready" THEN tips
             ELSE [tips EXCEPT ![load[l].ref] = NoLoad]

Fails(l) ==
  /\ RejectLoad(l)
  /\ UNCHANGED <<version, stateKept, merged, packs, own, page>>

\* fetchRepoState: the cache, the GET of another load, or one of its own, which
\* reads now. (The end of a GET from before the last clear removes a later one
\* from repoStateInflight, and then there are two.)
Asked == {k \in Load : load[k].step = "state" /\ load[k].valid /\ load[k].at # 0}
Outlived == {k \in Load : ~load[k].valid}

ReadState(l) ==
  /\ load[l].step = "state" /\ load[l].at = 0 /\ version > 0
  /\ \E at \in IF stateKept # 0 THEN {stateKept}
               ELSE {load[k].at : k \in Asked}
                    \cup (IF Asked = {} \/ Outlived # {} THEN {version} ELSE {}) :
       load' = [load EXCEPT ![l] = [@ EXCEPT !.at = at]]
  /\ UNCHANGED <<version, stateKept, tips, merged, packs, view, own, page>>

\* Its answer: cached and used unless the epoch has changed. A merged tip of
\* this target spares the packs.
StateAnswered(l) ==
  /\ load[l].step = "state" /\ load[l].at # 0
  /\ IF ~load[l].valid THEN Fails(l)
     ELSE /\ stateKept' = load[l].at
          /\ LET m == merged[load[l].ref][load[l].at]
             IN load' = [load EXCEPT ![l] = [@ EXCEPT !.step = IF m = NoLoad THEN "packs" ELSE "full",
                                                   !.objects = IF m = NoLoad THEN l ELSE m]]
          /\ UNCHANGED <<version, tips, merged, packs, view, own, page>>

StateFails(l) == load[l].step = "state" /\ Fails(l)
-----------------------------------------------------------------------------
\* The next pack of a load: the head's first; others in any order (first
\* parents, then the rest) until the commit is found, and then to fill.
Wanted(l) ==
  IF load[l].step \notin {"packs", "ready"} THEN {}
  ELSE IF load[l].tried = {} THEN {load[l].at}
  ELSE Tipped(l) \ load[l].tried

\* tryLoadBundle: a load whose epoch is gone stops before the next pack; a
\* fill just ends.
GetPack(l, p) ==
  /\ load[l].getting = 0 /\ p \in Wanted(l)
  /\ load[l].step = "packs" => ~Peels(l)
  /\ CASE load[l].valid ->
            /\ load' = [load EXCEPT ![l] = [@ EXCEPT !.getting = p]]
            /\ UNCHANGED <<version, stateKept, tips, merged, packs, view, own, page>>
       [] ~load[l].valid /\ load[l].step = "packs" -> Fails(l)
       [] ~load[l].valid /\ load[l].step = "ready" ->
            /\ load' = [load EXCEPT ![l] = [@ EXCEPT !.step = "full", !.tried = {}]]
            /\ UNCHANGED <<version, stateKept, tips, merged, packs, view, own, page>>

\* loadBundlePackBytes: from the cache, or from the network and then kept by
\* seedTipPack, which drops the merged tips of the repository. Whoever left
\* meanwhile is told only afterwards.
PackArrives(l) ==
  /\ load[l].getting # 0
  /\ LET p == load[l].getting
     IN /\ packs' = packs \cup {p}
        /\ merged' = IF p \in packs THEN merged ELSE NoneMerged
        /\ \/ /\ load[l].valid
              /\ load' = [load EXCEPT ![l].getting = 0, ![l].cut = FALSE,
                                     ![l].tried = @ \cup {p}, ![l].have = @ \cup {p}]
              /\ UNCHANGED <<tips, view>>
           \/ ~load[l].valid /\ RejectLoad(l)
  /\ UNCHANGED <<version, stateKept, own, page>>

\* A pack that is not found or not what it should be: only the head's is
\* required.
PackFails(l) ==
  /\ load[l].getting # 0 /\ load[l].getting \notin packs
  /\ IF load[l].tried = {} THEN Fails(l)
     ELSE /\ load' = [load EXCEPT ![l].getting = 0, ![l].cut = FALSE,
                                  ![l].tried = @ \cup {load[l].getting}]
          /\ UNCHANGED <<version, stateKept, tips, merged, packs, view, own, page>>

\* abortContractGets cancels a GET, or misses one that pauses before a retry or
\* is on the chunk pool. A cancelled one fails a load and a fill alike.
PackCancelled(l) ==
  /\ load[l].cut
  /\ Fails(l)
-----------------------------------------------------------------------------
\* Mutant: the epoch is not looked at again after the last pack.
Peeled_Unchecked(l) ==
  /\ load[l].step = "packs" /\ load[l].getting = 0 /\ Peels(l)
  /\ load' = [load EXCEPT ![l] = [@ EXCEPT !.step = "ready"]]
  /\ merged' = [merged EXCEPT ![load[l].ref][load[l].at] = l]
  /\ UNCHANGED <<version, stateKept, tips, packs, view, own, page>>

\* ensureBrowserTip found the commit: the tip is cached and returned, and the
\* rest is filled in. Or the page has left: the caches are cleared once more.
Peeled(l) ==
  /\ load[l].step = "packs" /\ load[l].getting = 0 /\ Peels(l)
  /\ IF load[l].valid
       THEN /\ load' = [load EXCEPT ![l] = [@ EXCEPT !.step = "ready"]]
            /\ merged' = [merged EXCEPT ![load[l].ref][load[l].at] = l]
            /\ UNCHANGED <<version, stateKept, tips, packs, view, own, page>>
       ELSE /\ RejectLoad(l)
            /\ merged' = NoneMerged /\ packs' = {}
            /\ UNCHANGED <<version, stateKept, own, page>>

\* Every tipped pack was tried, and the commit is in none that came.
NotFound(l) ==
  /\ load[l].step = "packs" /\ load[l].getting = 0 /\ load[l].tried # {}
  /\ Tipped(l) \subseteq load[l].tried /\ ~Peels(l)
  /\ Fails(l)

\* The fill has tried all, or reached its budget of bytes.
FillEnds(l) ==
  /\ load[l].step = "ready" /\ load[l].getting = 0
  /\ load' = [load EXCEPT ![l] = [@ EXCEPT !.step = "full", !.tried = {}]]
  /\ UNCHANGED <<version, stateKept, tips, merged, packs, view, own, page>>

\* The deadline of loadBrowserTip: its views fail, the load itself goes on. It
\* aborts the GETs of the whole repository, those of other refs too.
Deadline(l) ==
  /\ load[l].step \in {"state", "packs"} /\ ~load[l].raced
  /\ load' = [k \in Load |-> [load[k] EXCEPT !.raced = @ \/ k = l, !.cut = @ \/ load[k].getting # 0]]
  /\ view' = [w \in View |-> IF view[w].step = "wait" /\ view[w].on = l
                             THEN [view[w] EXCEPT !.step = "error"] ELSE view[w]]
  /\ tips' = [tips EXCEPT ![load[l].ref] = NoLoad]
  /\ UNCHANGED <<version, stateKept, merged, packs, own, page>>

\* A view awaits the fill, and finds what it lists in the merged objects or
\* not; a fill that failed fails every view that comes later, too.
Holder(l) == load[load[l].objects]
Filled(l) == load[l].step = "full" /\ Holder(l).step \in {"full", "failed"}

Show(w) ==
  /\ view[w].step = "wait"
  /\ Filled(view[w].on) \/ load[view[w].on].step = "failed"
  /\ \E needs \in SUBSET Tipped(view[w].on) :
       LET found == /\ Filled(view[w].on) /\ Holder(view[w].on).step = "full"
                    /\ needs \subseteq Holder(view[w].on).have
       IN view' = [view EXCEPT ![w].step = IF found THEN "shown" ELSE "error",
                               ![w].shows = load[view[w].on].at]
  /\ UNCHANGED <<version, stateKept, tips, merged, packs, load, own, page>>
-----------------------------------------------------------------------------
\* clearRepoTipCaches: a new epoch, and every cache of the repository empty.
Clear ==
  /\ load' = [l \in Load |-> [load[l] EXCEPT !.valid = FALSE, !.cut = @ \/ load[l].getting # 0]]
  /\ tips' = [r \in Ref |-> NoLoad]
  /\ stateKept' = 0 /\ merged' = NoneMerged /\ packs' = {}

\* The page leaves the repository; its views are gone. Only when it is not back
\* within a moment the caches are cleared.
Leave ==
  /\ page = "on" /\ page' = "leaving"
  /\ view' = [w \in View |-> NoView]
  /\ UNCHANGED <<version, stateKept, tips, merged, packs, load, own>>

Gone ==
  /\ page = "leaving" /\ page' = "gone"
  /\ Clear
  /\ UNCHANGED <<version, view, own>>

Return ==
  /\ page # "on" /\ page' = "on"
  /\ UNCHANGED <<version, stateKept, tips, merged, packs, load, view, own>>

\* A push of this page has been answered (freenet-push.ts).
PushHere ==
  /\ version < MaxVersion
  /\ version' = version + 1 /\ own' = version + 1
  /\ Clear
  /\ UNCHANGED <<view, page>>

PushElsewhere ==
  /\ version < MaxVersion
  /\ version' = version + 1
  /\ UNCHANGED <<stateKept, tips, merged, packs, load, view, own, page>>

BrowseInit ==
  /\ version = 1 /\ stateKept = 0 /\ packs = {} /\ own = 0 /\ page = "on"
  /\ tips = [r \in Ref |-> NoLoad]
  /\ merged = NoneMerged
  /\ load = [l \in Load |-> NoTip]
  /\ view = [w \in View |-> NoView]

LoadNext(l) ==
  \/ ReadState(l) \/ StateAnswered(l) \/ StateFails(l)
  \/ PackArrives(l) \/ PackFails(l) \/ PackCancelled(l)
  \/ Peeled(l) \/ NotFound(l) \/ FillEnds(l) \/ Deadline(l)
  \/ \E p \in Pack : GetPack(l, p)

BrowseNext ==
  \/ \E w \in View, ref \in Ref : Open(w, ref)
  \/ \E w \in View : Show(w)
  \/ \E l \in Load : LoadNext(l)
  \/ Leave \/ Gone \/ Return \/ PushHere \/ PushElsewhere

\* Every GET of a pack ends (EveryGetSettles, EveryChunkGetEnds), a load tries
\* finitely many, and an await is taken up when its promise has settled.
BrowseFairness ==
  /\ WF_browseVars(\E l \in Load : LoadNext(l))
  /\ \A w \in View : WF_browseVars(Show(w))

BrowseSpec == BrowseInit /\ [][BrowseNext]_browseVars /\ BrowseFairness
-----------------------------------------------------------------------------
BrowseTypeOK ==
  /\ version \in Version /\ stateKept \in Version /\ own \in Version
  /\ tips \in [Ref -> Load \cup {NoLoad}]
  /\ merged \in [Ref -> [Version -> Load \cup {NoLoad}]]
  /\ packs \subseteq Pack
  /\ load \in [Load -> LoadRecord] /\ view \in [View -> ViewRecord]
  /\ \A w \in View : view[w].step = "wait" => view[w].on # NoLoad
  /\ page \in {"on", "leaving", "gone"}

\* What the caches hold was loaded since the page last left the repository or
\* pushed to it: no load that was on its way then comes back into them, and
\* no view joins one. Hence what a view shows is never older than a push this
\* page had finished when the view was opened.
TipsAreLive ==
  /\ \A r \in Ref : tips[r] # NoLoad => load[tips[r]].valid
  /\ \A r \in Ref, v \in Version : merged[r][v] # NoLoad => load[merged[r][v]].valid
  /\ \A w \in View : view[w].step = "shown" => view[w].shows >= view[w].after

\* A view shows something in the end or says that it cannot, whichever load it
\* joined, and whoever else left, pushed or ran into a deadline meanwhile.
EveryViewSettles == \A w \in View : []<>(view[w].step # "wait")
=============================================================================
