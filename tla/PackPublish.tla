---------------------------- MODULE PackPublish ----------------------------
(***************************************************************************)
(* Packs and the tips that name them (web/src/freenet/chunked-pack.ts,     *)
(* freenet-push.ts, pack-health.ts, tip-browse/browser-api.ts): a push     *)
(* Puts a pack, in chunks when it is large, and then signs a tip; a page   *)
(* that finds packs missing Puts them again. Blobs are addressed by their  *)
(* content, and a node drops those that nobody asks for.                   *)
(***************************************************************************)
EXTENDS Naturals, FiniteSets

CONSTANTS
  Page,          \* tabs that push, browse or rescue
  Pack,          \* a single pack, or the manifest of a chunked one
  Chunk,
  ChunksOf,      \* the chunks of each pack, none of a single one
  NoPack,
  MaxEvictions   \* bound on the blobs that nodes drop

ASSUME PacksAssumption ==
  /\ ChunksOf \in [Pack -> SUBSET Chunk]
  /\ Pack \cap Chunk = {} /\ NoPack \notin Pack /\ MaxEvictions \in Nat

Blob == Pack \cup Chunk
Chunked(k) == ChunksOf[k] # {}

VARIABLES
  held,     \* blobs the network can still serve
  confirmed,  \* blobs it was ever seen to hold: read back, or a single pack's Put answered
  tipped,     \* packs named by the RepoState
  evictions,
  task,       \* of each page: what it does with which pack, and the chunks left to do
  idb,        \* of each page: packs in its IndexedDB
  probe       \* of each page: packs its last health probe found missing

packVars == <<held, confirmed, tipped, evictions, task, idb, probe>>

PackStep == {"idle", "putChunks", "readChunks", "putPack", "readPack", "sign"}
Task == [step : PackStep, pack : Pack \cup {NoPack}, todo : SUBSET Chunk, rescue : BOOLEAN]
IdleTask == [step |-> "idle", pack |-> NoPack, todo |-> {}, rescue |-> FALSE]

Working(p, step) == task[p].step = step
Now(p, step) == task' = [task EXCEPT ![p].step = step]

\* pushFilesToFreenet, rescueTipPacks: a chunked pack starts with its chunks.
BeginPublish(p, k, rescue) ==
  task' = [task EXCEPT ![p] = [step |-> IF Chunked(k) THEN "putChunks" ELSE "putPack",
                               pack |-> k, todo |-> ChunksOf[k], rescue |-> rescue]]

BeginPush(p, k) ==
  /\ Working(p, "idle") /\ k \notin tipped
  /\ BeginPublish(p, k, FALSE)
  /\ UNCHANGED <<held, confirmed, tipped, evictions, idb, probe>>

\* A rescue takes the packs the probe missed, of which the page has the bytes, in
\* IndexedDB or from the network, and publishes them as a push does.
Readable(k) == {k} \cup ChunksOf[k] \subseteq held

BeginRescue(p, k) ==
  /\ Working(p, "idle") /\ k \in probe[p] /\ (k \in idb[p] \/ Readable(k))
  /\ BeginPublish(p, k, TRUE)
  /\ UNCHANGED <<held, confirmed, tipped, evictions, idb, probe>>

\* publishChunkedPackPhases: one chunk after the other is Put ...
PutChunk(p, c) ==
  /\ Working(p, "putChunks") /\ c \in task[p].todo
  /\ held' = held \cup {c}
  /\ task' = [task EXCEPT ![p].todo = @ \ {c}]
  /\ UNCHANGED <<confirmed, tipped, evictions, idb, probe>>

AfterChunks_Unread(k) == [step |-> "putPack", todo |-> {}]
AfterChunks(k) == [step |-> "readChunks", todo |-> ChunksOf[k]]

ChunksPut(p) ==
  /\ Working(p, "putChunks") /\ task[p].todo = {}
  /\ LET next == AfterChunks(task[p].pack)
     IN task' = [task EXCEPT ![p].step = next.step, ![p].todo = next.todo]
  /\ UNCHANGED <<held, confirmed, tipped, evictions, idb, probe>>

\* ... and read back,
ReadChunk(p, c) ==
  /\ Working(p, "readChunks") /\ c \in task[p].todo /\ c \in held
  /\ confirmed' = confirmed \cup {c}
  /\ task' = [task EXCEPT ![p].todo = @ \ {c}]
  /\ UNCHANGED <<held, tipped, evictions, idb, probe>>

ChunksRead(p) ==
  /\ Working(p, "readChunks") /\ task[p].todo = {}
  /\ Now(p, "putPack")
  /\ UNCHANGED <<held, confirmed, tipped, evictions, idb, probe>>

\* then the manifest, which is read back too. Nothing reads a single pack back.
PutPack(p) ==
  /\ Working(p, "putPack")
  /\ LET k == task[p].pack
     IN /\ held' = held \cup {k}
        /\ confirmed' = IF Chunked(k) THEN confirmed ELSE confirmed \cup {k}
        /\ IF Chunked(k) THEN Now(p, "readPack")
           ELSE IF task[p].rescue THEN task' = [task EXCEPT ![p] = IdleTask]
           ELSE Now(p, "sign")
  /\ UNCHANGED <<tipped, evictions, idb, probe>>

ReadPack(p) ==
  /\ Working(p, "readPack") /\ task[p].pack \in held
  /\ confirmed' = confirmed \cup {task[p].pack}
  /\ IF task[p].rescue THEN task' = [task EXCEPT ![p] = IdleTask] ELSE Now(p, "sign")
  /\ UNCHANGED <<held, tipped, evictions, idb, probe>>

\* nativeSignPush and the Put of the RepoState; its answer may be lost.
SignTip(p) ==
  /\ Working(p, "sign")
  /\ tipped' = tipped \cup {task[p].pack}
  /\ task' = [task EXCEPT ![p] = IdleTask]
  /\ UNCHANGED <<held, confirmed, evictions, idb, probe>>

\* A Put or a GET fails, or the tab closes: nothing is undone. A Put that failed
\* may have been carried out.
Interrupted(p) ==
  /\ \/ UNCHANGED held
     \/ Working(p, "putChunks") /\ \E c \in task[p].todo : held' = held \cup {c}
     \/ Working(p, "putPack") /\ held' = held \cup {task[p].pack}
  /\ task' = [task EXCEPT ![p] = IdleTask]

Abandon(p) ==
  /\ ~Working(p, "idle")
  /\ Interrupted(p)
  /\ UNCHANGED <<confirmed, tipped, evictions, idb, probe>>

\* loadBundlePackBytes: all of a pack is read and kept.
Browse(p, k) ==
  /\ k \in tipped /\ Readable(k) /\ k \notin idb[p]
  /\ idb' = [idb EXCEPT ![p] = @ \cup {k}]
  /\ UNCHANGED <<held, confirmed, tipped, evictions, task, probe>>

\* probePackHealth: a pack in IndexedDB, or whose manifest answers, is not missing.
Probe(p) ==
  /\ probe' = [probe EXCEPT ![p] = {k \in tipped : k \notin idb[p] /\ k \notin held}]
  /\ UNCHANGED <<held, confirmed, tipped, evictions, task, idb>>

Evict(b) ==
  /\ b \in held /\ evictions < MaxEvictions
  /\ held' = held \ {b} /\ evictions' = evictions + 1
  /\ UNCHANGED <<confirmed, tipped, task, idb, probe>>

PacksInit ==
  /\ held = {} /\ confirmed = {} /\ tipped = {} /\ evictions = 0
  /\ task = [p \in Page |-> IdleTask]
  /\ idb = [p \in Page |-> {}] /\ probe = [p \in Page |-> {}]

PacksNext ==
  \/ \E p \in Page, k \in Pack : BeginPush(p, k) \/ BeginRescue(p, k) \/ Browse(p, k)
  \/ \E p \in Page, c \in Chunk : PutChunk(p, c) \/ ReadChunk(p, c)
  \/ \E p \in Page : ChunksPut(p) \/ ChunksRead(p) \/ PutPack(p) \/ ReadPack(p)
                       \/ SignTip(p) \/ Abandon(p) \/ Probe(p)
  \/ \E b \in Blob : Evict(b)

PacksSpec == PacksInit /\ [][PacksNext]_packVars

-----------------------------------------------------------------------------
PacksTypeOK ==
  /\ held \subseteq Blob /\ confirmed \subseteq Blob /\ tipped \subseteq Pack
  /\ evictions \in 0..MaxEvictions /\ task \in [Page -> Task]
  /\ idb \in [Page -> SUBSET Pack] /\ probe \in [Page -> SUBSET Pack]

\* "Put chunks, verify GETs, Put manifest, verify manifest", then the tip: whatever
\* fails, and whichever tabs push packs that share chunks, no tip names a pack of
\* which a part was never seen on the network.
TipIsWhole == \A k \in tipped : {k} \cup ChunksOf[k] \subseteq confirmed
=============================================================================
