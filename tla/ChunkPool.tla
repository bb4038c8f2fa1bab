----------------------------- MODULE ChunkPool -----------------------------
(***************************************************************************)
(* The pool of WebSockets that fetch the chunks of a pack                  *)
(* (web/src/freenet/chunk-ws-pool.ts, used by tip-browse/browser-api.ts).  *)
(* One GET at a time on a socket. The library answers its oldest request,  *)
(* whatever the answer is about, and the pool gives a GET up before the    *)
(* library does, so an answer may find another GET waiting.                *)
(***************************************************************************)
EXTENDS Naturals, Sequences, FiniteSets, SequencesExt

CONSTANTS
  Slot,      \* sockets of the pool
  Chunk,     \* chunks to fetch, one GET each
  MaxOpens   \* bound on the sockets that are opened in all

ASSUME PoolAssumption == MaxOpens \in Nat

VARIABLES
  slots,     \* the module's slots that are not dead
  opens,     \* sockets opened so far
  chain,     \* of each slot: the GET that has its turn, then those that wait
  active,    \* slots whose first GET was sent and still waits
  pend,      \* the library's requests on the socket
  asked,     \* requests the node has still to answer
  late,      \* answers on their way
  got        \* of each chunk: "none", "wait", "failed", or the chunk that came

poolVars == <<slots, opens, chain, active, pend, asked, late, got>>

\* ensurePool: sockets are opened, as many as the calibration asks for; the node
\* may refuse some. Nobody waits on a socket that is opened.
OpenSlot(s) ==
  /\ s \notin slots /\ chain[s] = <<>> /\ opens < MaxOpens
  /\ slots' = slots \cup {s} /\ opens' = opens + 1
  /\ UNCHANGED <<chain, active, pend, asked, late, got>>

\* closeApiSocket: what was on the socket is lost.
Close(S) ==
  /\ slots' = slots \ S
  /\ pend' = [s \in Slot |-> IF s \in S THEN <<>> ELSE pend[s]]
  /\ asked' = [s \in Slot |-> IF s \in S THEN {} ELSE asked[s]]
  /\ late' = [s \in Slot |-> IF s \in S THEN {} ELSE late[s]]

\* The pool shrinks, the socket closes, or the tip is aborted (resetChunkWsPool).
\* A GET that was sent waits for its timeout.
CloseSlots(S) ==
  /\ S \subseteq slots /\ S # {}
  /\ Close(S)
  /\ UNCHANGED <<opens, chain, active, got>>

\* getContractStateOnPool takes a slot in turn, and its lock.
GetChunk(c, s) ==
  /\ got[c] = "none" /\ s \in slots
  /\ got' = [got EXCEPT ![c] = "wait"]
  /\ chain' = [chain EXCEPT ![s] = Append(@, c)]
  /\ UNCHANGED <<slots, opens, active, pend, asked, late>>

\* The GET ends and releases the lock.
End(s, outcome) ==
  /\ got' = [got EXCEPT ![Head(chain[s])] = outcome]
  /\ chain' = [chain EXCEPT ![s] = Tail(@)]
  /\ active' = active \ {s}

\* It has the lock: the request goes out, or the socket is closed already.
SendGet(s) ==
  /\ chain[s] # <<>> /\ s \notin active
  /\ \/ /\ s \in slots
        /\ active' = active \cup {s}
        /\ pend' = [pend EXCEPT ![s] = Append(@, Head(chain[s]))]
        /\ asked' = [asked EXCEPT ![s] = @ \cup {Head(chain[s])}]
        /\ UNCHANGED <<chain, got>>
     \/ s \notin slots /\ End(s, "failed") /\ UNCHANGED <<pend, asked>>
  /\ UNCHANGED <<slots, opens, late>>

\* The node answers some time, or never.
NodeAnswers(s, c) ==
  /\ c \in asked[s]
  /\ asked' = [asked EXCEPT ![s] = @ \ {c}]
  /\ \/ late' = [late EXCEPT ![s] = @ \cup {c}]
     \/ UNCHANGED late
  /\ UNCHANGED <<slots, opens, chain, active, pend, got>>

IsOwn_Always(s, c) == TRUE

\* contractKeyId(res.key) = contractKeyId(key)
IsOwn(s, c) == c = Head(chain[s])

\* The answer goes to the library's oldest request. If that is the GET that waits,
\* it has its chunk, or finds that the socket is out of step and closes it.
ReceiveChunk(s, c) ==
  /\ c \in late[s]
  /\ IF s \in active /\ pend[s] # <<>> /\ Head(pend[s]) = Head(chain[s])
       THEN IF IsOwn(s, c)
              THEN /\ End(s, c)
                   /\ pend' = [pend EXCEPT ![s] = Tail(@)]
                   /\ late' = [late EXCEPT ![s] = @ \ {c}]
                   /\ UNCHANGED <<slots, asked>>
              ELSE End(s, "failed") /\ Close({s})
       ELSE /\ pend' = [pend EXCEPT ![s] = IF @ = <<>> THEN @ ELSE Tail(@)]
            /\ late' = [late EXCEPT ![s] = @ \ {c}]
            /\ UNCHANGED <<slots, asked, chain, active, got>>
  /\ UNCHANGED opens

GivesUp(s) == End(s, "failed")

PoolTimeout(s) ==
  /\ s \in active /\ got[Head(chain[s])] = "wait"
  /\ GivesUp(s)
  /\ UNCHANGED <<slots, opens, pend, asked, late>>

\* The library's own timeout, of any of its requests.
LibraryTimeout(s, i) ==
  /\ i \in DOMAIN pend[s]
  /\ pend' = [pend EXCEPT ![s] = RemoveAt(@, i)]
  /\ IF s \in active /\ pend[s][i] = Head(chain[s]) THEN End(s, "failed")
     ELSE UNCHANGED <<chain, active, got>>
  /\ UNCHANGED <<slots, opens, asked, late>>

PoolInit ==
  /\ slots = {} /\ opens = 0 /\ active = {}
  /\ chain = [s \in Slot |-> <<>>] /\ pend = [s \in Slot |-> <<>>]
  /\ asked = [s \in Slot |-> {}] /\ late = [s \in Slot |-> {}]
  /\ got = [c \in Chunk |-> "none"]

PoolNext ==
  \/ \E s \in Slot : OpenSlot(s) \/ SendGet(s) \/ PoolTimeout(s)
  \/ \E S \in SUBSET Slot : CloseSlots(S)
  \/ \E s \in Slot, c \in Chunk : GetChunk(c, s) \/ NodeAnswers(s, c) \/ ReceiveChunk(s, c)
  \/ \E s \in Slot : \E i \in DOMAIN pend[s] : LibraryTimeout(s, i)

PoolSpec == PoolInit /\ [][PoolNext]_poolVars

\* The pool's timer runs out, and who has the lock goes on.
PoolFairness == \A s \in Slot : WF_poolVars(SendGet(s)) /\ WF_poolVars(PoolTimeout(s))

-----------------------------------------------------------------------------
PoolTypeOK ==
  /\ slots \subseteq Slot /\ opens \in 0..MaxOpens /\ active \subseteq Slot
  /\ chain \in [Slot -> Seq(Chunk)] /\ pend \in [Slot -> Seq(Chunk)]
  /\ asked \in [Slot -> SUBSET Chunk] /\ late \in [Slot -> SUBSET Chunk]
  /\ got \in [Chunk -> Chunk \cup {"none", "wait", "failed"}]

\* However late, lost or reordered the answers on a socket are, a GET of the pool
\* gives the chunk it asked for or fails (and the shell's socket is tried).
GivesOwnChunk == \A c \in Chunk : got[c] \in {"none", "wait", "failed", c}

\* Every GET on the pool ends, also those behind one that was given up: as each
\* chunk is asked for once, in the end nobody waits.
EveryChunkGetEnds == <>[](\A c \in Chunk : got[c] # "wait")
=============================================================================
