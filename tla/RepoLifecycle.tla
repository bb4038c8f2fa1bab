--------------------------- MODULE RepoLifecycle ---------------------------
(***************************************************************************)
(* The life of one repository in its owner's browser tabs: it is listed,   *)
(* listed again by every rename, About edit and language publish, its      *)
(* Pages site goes up and down, it is unregistered or deleted              *)
(* (web/src/freenet/owner-api.ts, native-pages.ts,                         *)
(* publish-owner-language.ts, discover-cache.ts).                          *)
(*                                                                         *)
(* Every operation awaits one request after the other, and each may fail,  *)
(* or be carried out while its answer is lost.  The listing is a copy of   *)
(* the contract in ForgeRegistry, which merges what the tabs Put.          *)
(***************************************************************************)
EXTENDS Naturals

CONSTANTS
  Window,       \* the owner's tabs
  Self,         \* the owner's identity
  Unlisted,     \* no listing, no tombstone
  MaxTime       \* bound on the clock that listings take their seq from

ASSUME LifeAssumption == MaxTime \in Nat

VARIABLES
  registry,     \* the contract state for this prefix
  deleted,      \* the RepoState carries the signed deletion mark
  siteMeta,     \* the pages extension of the RepoState: "none", "on", "off"
  siteMirror,   \* savePagesMetaLocal: the same, in this browser's storage
  site,         \* the website contract: "none", "live", "down" (tombstone page)
  key,          \* the repository's site key is in forge-identity
  clock,        \* Date.now()
  warm,         \* the registry cache of each tab: a seq, 0 for none, or Cold
  stateCopy,    \* repoStateCache of each tab: the pages extension it has, see StateCopies
  chore         \* what each tab is doing

lifeVars == <<registry, deleted, siteMeta, siteMirror, site, key, clock, warm, stateCopy, chore>>

R == INSTANCE ForgeRegistry WITH
       Replica <- {Self}, Identity <- {Self}, SiteKeyHolder <- {Self},
       UpsertSeq <- 1..MaxTime, RemoveSeq <- 1..(MaxTime + 1), GrantSeq <- {1},
       StrayTo <- {}, StraySeq <- {},
       None <- Unlisted, replica <- [r \in {Self} |-> registry]

ASSUME UnlistedAssumption == Unlisted \notin R!Entry \cup R!Remove \cup R!Invite \cup {Self}

Switch == {"none", "on", "off"}

\* No copy, one of the extension the contract has, or what an older one says.
StateCopies == {"unread", "newest"} \cup Switch

Cold == MaxTime + 2

ChoreStep == {"idle", "put listing", "site up", "pages on", "look", "site down", "pages off",
         "mark", "remove", "drop key"}
Chore == [does : {"none", "register", "publish", "disable", "unregister", "delete"},
       step : ChoreStep, seq : 0..(MaxTime + 1), marked : BOOLEAN]
NoChore == [does |-> "none", step |-> "idle", seq |-> 0, marked |-> FALSE]

AtStep(w, step) == chore[w].step = step
GoTo(w, step) == chore' = [chore EXCEPT ![w].step = step]
Stop(w) == chore' = [chore EXCEPT ![w] = NoChore]
BeginChore(w, does, step, seq) ==
  /\ AtStep(w, "idle")
  /\ chore' = [chore EXCEPT ![w] = [NoChore EXCEPT !.does = does, !.step = step, !.seq = seq]]

ListedSeq == IF registry.repo = Unlisted THEN 0 ELSE registry.repo.seq

\* The state each write to the registry leaves when it is carried out.
TakeListing(seq) ==
  registry' = R!Merge(registry, [R!Empty EXCEPT !.repo = [id |-> Self, seq |-> seq]])
TakeRemoval(seq) ==
  registry' = R!Merge(registry, [R!Empty EXCEPT !.removed = [id |-> Self, seq |-> seq]])

\* loadRegistryCached: what is cached, or else what the node has.
Look(w) ==
  \/ /\ warm[w] # Cold /\ UNCHANGED warm
  \/ /\ warm[w] = Cold /\ warm' = [warm EXCEPT ![w] = ListedSeq]

\* A page refreshes its cache behind a read, or another delete invalidates it.
Refresh(w) ==
  /\ warm' = [warm EXCEPT ![w] = ListedSeq]
  /\ UNCHANGED <<registry, deleted, siteMeta, siteMirror, site, key, clock, stateCopy, chore>>
Invalidate(w) ==
  /\ warm' = [warm EXCEPT ![w] = Cold]
  /\ UNCHANGED <<registry, deleted, siteMeta, siteMirror, site, key, clock, stateCopy, chore>>

\* fetchRepoState, by any page that shows the repository; clearRepoStateCache, when one
\* is left or has pushed.
Copies(w) ==
  /\ stateCopy[w] = "unread" /\ stateCopy' = [stateCopy EXCEPT ![w] = "newest"]
  /\ UNCHANGED <<registry, deleted, siteMeta, siteMirror, site, key, clock, warm, chore>>
Drops(w) ==
  /\ stateCopy[w] # "unread" /\ stateCopy' = [stateCopy EXCEPT ![w] = "unread"]
  /\ UNCHANGED <<registry, deleted, siteMeta, siteMirror, site, key, clock, warm, chore>>
-----------------------------------------------------------------------------
\* nativeRegisterRepo: the delegate signs with the clock, then the Put.
BeginRegister(w) ==
  /\ key /\ clock < MaxTime
  /\ clock' = clock + 1
  /\ BeginChore(w, "register", "put listing", clock')
  /\ UNCHANGED <<registry, deleted, siteMeta, siteMirror, site, key, warm, stateCopy>>

PutListing(w) ==
  /\ AtStep(w, "put listing")
  /\ TakeListing(chore[w].seq)
  /\ warm' = [warm EXCEPT ![w] = chore[w].seq]
  /\ Stop(w)
  /\ UNCHANGED <<deleted, siteMeta, siteMirror, site, key, clock, stateCopy>>

PutListingFails(w) ==
  /\ AtStep(w, "put listing")
  /\ TakeListing(chore[w].seq) \/ UNCHANGED registry
  /\ Stop(w)
  /\ UNCHANGED <<deleted, siteMeta, siteMirror, site, key, clock, warm, stateCopy>>

\* nativePagesEnable, nativePagesSync (also the automatic one): for a repository
\* that is listed and whose key is here, put the site, then its metadata.
BeginPages(w) ==
  /\ key /\ registry.repo # Unlisted
  /\ BeginChore(w, "publish", "site up", 0)
  /\ UNCHANGED <<registry, deleted, siteMeta, siteMirror, site, key, clock, warm, stateCopy>>

SiteUp(w) ==
  /\ AtStep(w, "site up")
  /\ \/ site' = "live" /\ GoTo(w, "pages on")
     \/ site' \in {"live", site} /\ Stop(w)
  /\ UNCHANGED <<registry, deleted, siteMeta, siteMirror, key, clock, warm, stateCopy>>

\* signAndPutRepoPages signs, with the key, the successor of the extension in the
\* tab's copy (read now, if it has none); the contract keeps the newest. left: the
\* copy it leaves, none when the answer comes.
PagesPut(w, to, left) ==
  /\ key
  /\ \/ /\ siteMeta' = to
        /\ stateCopy' = [v \in Window |-> IF v = w THEN left
                                        ELSE IF stateCopy[v] = "newest" THEN siteMeta
                                        ELSE stateCopy[v]]
     \/ /\ stateCopy[w] \in Switch /\ UNCHANGED siteMeta
        /\ stateCopy' = [stateCopy EXCEPT ![w] = left]

PagesPutFails(w, to) ==
  \/ PagesPut(w, to, IF stateCopy[w] \in Switch THEN stateCopy[w] ELSE siteMeta)
  \/ UNCHANGED <<siteMeta, stateCopy>>

PagesOn(w) ==
  /\ AtStep(w, "pages on")
  /\ \/ PagesPut(w, "on", "unread") /\ siteMirror' = "on"
     \/ PagesPutFails(w, "on") /\ UNCHANGED siteMirror
  /\ Stop(w)
  /\ UNCHANGED <<registry, deleted, site, key, clock, warm>>
-----------------------------------------------------------------------------
BeginDisable(w) ==
  /\ key /\ registry.repo # Unlisted
  /\ BeginChore(w, "disable", "look", 0)
  /\ UNCHANGED <<registry, deleted, siteMeta, siteMirror, site, key, clock, warm, stateCopy>>

\* Settings, Unregister and Delete: (reg?.seq ?? 0) + 1, where a failed lookup
\* is no listing. Shown to a page that found itself the owner.
BeginRemoval(w, does) ==
  /\ warm[w] # 0
  /\ \/ Look(w) /\ BeginChore(w, does, "look", warm'[w] + 1)
     \/ warm[w] = Cold /\ UNCHANGED warm /\ BeginChore(w, does, "look", 1)
  /\ UNCHANGED <<registry, deleted, siteMeta, siteMirror, site, key, clock, stateCopy>>

\* What follows when the Pages are down.
AfterPages(w) ==
  CASE chore[w].does = "disable" -> "idle"
    [] chore[w].does = "delete" /\ ~chore[w].marked -> "mark"
    [] OTHER -> "remove"
Proceed(w) == IF AfterPages(w) = "idle" THEN Stop(w) ELSE GoTo(w, AfterPages(w))

\* ensurePagesTakenDown does nothing for a site that is off; nativePagesDisable writes
\* the metadata all the same.
TakesDown(w, pages) ==
  IF pages = "on" THEN GoTo(w, "site down")
  ELSE IF chore[w].does = "disable" THEN GoTo(w, "pages off")
  ELSE Proceed(w)

\* loadRepoPagesMeta: the tab's copy of the RepoState, or else the contract; the
\* mirror, if that has no pages or is not read.
LookAtPages(w) ==
  LET pages == IF stateCopy[w] \in Switch THEN stateCopy[w] ELSE siteMeta
  IN /\ AtStep(w, "look")
     /\ \/ /\ TakesDown(w, IF pages = "none" THEN siteMirror ELSE pages)
           /\ stateCopy' = [stateCopy EXCEPT ![w] = IF @ = "unread" THEN "newest" ELSE @]
        \/ /\ stateCopy[w] = "unread" /\ UNCHANGED stateCopy
           /\ TakesDown(w, siteMirror)
     /\ UNCHANGED <<registry, deleted, siteMeta, siteMirror, site, key, clock, warm>>

\* nativePagesDisable goes on when the tombstone site cannot be put.
SiteDown(w) ==
  /\ AtStep(w, "site down")
  /\ site' \in {"down", site}
  /\ GoTo(w, "pages off")
  /\ UNCHANGED <<registry, deleted, siteMeta, siteMirror, key, clock, warm, stateCopy>>

PagesOff(w) ==
  /\ AtStep(w, "pages off")
  /\ \/ PagesPut(w, "off", "unread") /\ siteMirror' = "off" /\ Proceed(w)
     \/ PagesPutFails(w, "off") /\ UNCHANGED siteMirror /\ Stop(w)
  /\ UNCHANGED <<registry, deleted, site, key, clock, warm>>

\* SignRepoTombstone and its Put, or the Update after it; a failure ends the delete.
\* nativeUnregisterRepo then takes the Pages down once more.
Mark(w) ==
  /\ AtStep(w, "mark")
  /\ \/ /\ key /\ deleted' = TRUE
        /\ chore' = [chore EXCEPT ![w].step = "look", ![w].marked = TRUE]
        /\ stateCopy' = [stateCopy EXCEPT ![w] = "unread"]
     \/ /\ deleted' \in {deleted} \cup (IF key THEN {TRUE} ELSE {})
        /\ Stop(w) /\ UNCHANGED stateCopy
  /\ UNCHANGED <<registry, siteMeta, siteMirror, site, key, clock, warm>>

\* removeForgeRegistryEntry is answered. An unregister ends here and drops the
\* cached listing; a delete invalidates the cache.
RemoveAnswered(w) ==
  /\ AtStep(w, "remove") /\ key
  /\ TakeRemoval(chore[w].seq)
  /\ IF chore[w].does = "unregister"
       THEN warm' = [warm EXCEPT ![w] = 0] /\ Stop(w)
       ELSE warm' = [warm EXCEPT ![w] = Cold] /\ GoTo(w, "drop key")
  /\ UNCHANGED <<deleted, siteMeta, siteMirror, site, key, clock, stateCopy>>

\* It fails, or its answer is lost, and the operation with it.
\* Mutant: a delete logs the failure and goes on.
RemoveFails_GoesOn(w) ==
  /\ AtStep(w, "remove")
  /\ (key /\ TakeRemoval(chore[w].seq)) \/ UNCHANGED registry
  /\ IF chore[w].does = "delete" THEN GoTo(w, "drop key") ELSE Stop(w)
  /\ UNCHANGED <<deleted, siteMeta, siteMirror, site, key, clock, warm, stateCopy>>

RemoveFails(w) ==
  /\ AtStep(w, "remove")
  /\ (key /\ TakeRemoval(chore[w].seq)) \/ UNCHANGED registry
  /\ Stop(w)
  /\ UNCHANGED <<deleted, siteMeta, siteMirror, site, key, clock, warm, stateCopy>>

\* nativeRemoveRepoKey; then the page drops the cached listing.
DropKey(w) ==
  /\ AtStep(w, "drop key")
  /\ key' \in {FALSE, key}
  /\ warm' = [warm EXCEPT ![w] = IF key' THEN @ ELSE 0]
  /\ Stop(w)
  /\ UNCHANGED <<registry, deleted, siteMeta, siteMirror, site, clock, stateCopy>>

\* A tab closes.
CloseWindow(w) ==
  /\ ~AtStep(w, "idle") /\ Stop(w)
  /\ stateCopy' = [stateCopy EXCEPT ![w] = "unread"]
  /\ UNCHANGED <<registry, deleted, siteMeta, siteMirror, site, key, clock, warm>>

\* nativeCreateRepo has put the RepoState; its listing comes with BeginRegister.
LifeInit ==
  /\ registry = R!Empty
  /\ deleted = FALSE /\ siteMeta = "none" /\ siteMirror = "none" /\ site = "none"
  /\ key = TRUE /\ clock = 0
  /\ warm = [w \in Window |-> Cold] /\ stateCopy = [w \in Window |-> "unread"]
  /\ chore = [w \in Window |-> NoChore]

LifeNext == \E w \in Window :
  \/ Refresh(w) \/ Invalidate(w) \/ Copies(w) \/ Drops(w) \/ CloseWindow(w)
  \/ BeginRegister(w) \/ PutListing(w) \/ PutListingFails(w)
  \/ BeginPages(w) \/ SiteUp(w) \/ PagesOn(w) \/ BeginDisable(w)
  \/ \E does \in {"unregister", "delete"} : BeginRemoval(w, does)
  \/ LookAtPages(w) \/ SiteDown(w) \/ PagesOff(w)
  \/ Mark(w) \/ RemoveAnswered(w) \/ RemoveFails(w) \/ DropKey(w)

LifeSpec == LifeInit /\ [][LifeNext]_lifeVars
-----------------------------------------------------------------------------
LifeTypeOK ==
  /\ registry \in R!State /\ deleted \in BOOLEAN /\ key \in BOOLEAN
  /\ siteMeta \in Switch /\ siteMirror \in Switch /\ site \in {"none", "live", "down"}
  /\ clock \in 0..MaxTime /\ warm \in [Window -> 0..Cold]
  /\ stateCopy \in [Window -> StateCopies] /\ chore \in [Window -> Chore]

\* docs/13-repo-soft-delete.md, step 5: a delete gives the site key up last. When
\* the key goes, the RepoState carries the deletion mark, and no listing is left
\* that is older than the removal, whatever the other tabs had in hand: without
\* the key nobody can take it down any more.
KeyGoesLast ==
  [][key /\ ~key' =>
       /\ deleted
       /\ \E w \in Window :
            AtStep(w, "drop key") /\ (registry.repo = Unlisted \/ ListedSeq >= chore[w].seq)]_lifeVars

\* The same step, as it reads: the key goes when the prefix is unlisted. Not so:
\* a removal whose seq is behind the listing's is answered like any other.
KeyGoesUnlisted == [][key /\ ~key' => registry.repo = Unlisted]_lifeVars

\* docs/09-hub-pages.md: a prefix does not leave the registry while its site is
\* live. Not so: a removal looks at the metadata only, and a site is put before them.
LeavesWithoutSite ==
  [][registry.repo # Unlisted /\ registry'.repo = Unlisted => site # "live"]_lifeVars
=============================================================================
