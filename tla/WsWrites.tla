------------------------------ MODULE WsWrites ------------------------------
(***************************************************************************)
(* Puts and Updates on the one WebSocket of a page                         *)
(* (web/src/freenet/ws.ts): the write lock, the race of the typed answer   *)
(* with a notification, the check of its key, reconnects and retries.      *)
(*                                                                         *)
(* The library below keeps the requests it sent in a queue and gives an    *)
(* answer to the first, whatever the answer is about; a request that waits *)
(* too long is rejected and leaves the queue, its answer may come later.   *)
(***************************************************************************)
EXTENDS Naturals, Sequences, FiniteSets, Functions

CONSTANTS
  Write,             \* the Puts and Updates of a page's life
  Key, KeyOf,        \* contracts; the one each write is to
  Foreign,           \* contracts that others write too
  WRITE_MAX_ATTEMPTS

ASSUME WriteAssumption ==
  /\ KeyOf \in [Write -> Key]
  /\ Foreign \subseteq Key
  /\ WRITE_MAX_ATTEMPTS \in Nat \ {0}

VARIABLES
  writeChain,  \* the write that holds the lock, then those that wait for it
  phase,       \* what the holder does: "start", "sent" or "backoff"
  attempt,     \* of the holder
  result,      \* of each write
  socket,      \* is there a connection
  pending,     \* the library's queue on this connection
  answers,     \* on their way to the page on this connection
  atNode,      \* requests the node has still to process, live if of this connection
  applied,     \* writes the node carried out
  changed      \* contracts that anybody changed

writeVars == <<writeChain, phase, attempt, result, socket, pending, answers,
               atNode, applied, changed>>

wire == <<socket, pending, answers, atNode>>

Answer == [kind : {"response", "notification"}, key : Key]
            \cup [kind : {"error"}, key : {"none"}]

Response(k) == [kind |-> "response", key |-> k]
Notification(k) == [kind |-> "notification", key |-> k]
HostError == [kind |-> "error", key |-> "none"]

Holding == writeChain # <<>>
holder == Head(writeChain)
Sent == Holding /\ phase = "sent"

\* putContract, updateContract: withWriteLock chains the write to the others.
Request(w) ==
  /\ result[w] = "none" /\ w \notin Range(writeChain)
  /\ writeChain' = Append(writeChain, w)
  /\ UNCHANGED <<phase, attempt, result, wire, applied, changed>>

SettleWrite(r) ==
  /\ result' = [result EXCEPT ![holder] = r]
  /\ writeChain' = Tail(writeChain)
  /\ phase' = "start" /\ attempt' = 1

\* resetFreenetConn, or the socket is closed from outside: nothing is left of
\* the queue and the answers; the node may still process what reached it.
Disconnect ==
  /\ socket' = FALSE /\ pending' = <<>> /\ answers' = {}
  /\ atNode' = {[r EXCEPT !.live = FALSE] : r \in atNode}

StayConnected == UNCHANGED <<socket, pending, answers, atNode>>

\* The catch block, for a drop or a stale key: the last attempt ends the write,
\* any other is followed by a reconnect.
Reconnect_KeepSocket ==
  /\ phase' = "backoff"
  /\ UNCHANGED <<writeChain, attempt, result, wire>>

Reconnect ==
  /\ phase' = "backoff"
  /\ Disconnect
  /\ UNCHANGED <<writeChain, attempt, result>>

EndBackoff ==
  /\ Holding /\ phase = "backoff"
  /\ phase' = "start" /\ attempt' = attempt + 1
  /\ UNCHANGED <<writeChain, result, wire, applied, changed>>

\* ensureConn gives the connection and the request goes out.
Send ==
  /\ Holding /\ phase = "start"
  /\ phase' = "sent"
  /\ socket' = TRUE
  /\ pending' = Append(pending, holder)
  /\ atNode' = atNode \cup {[write |-> holder, live |-> TRUE]}
  /\ UNCHANGED <<writeChain, attempt, result, answers, applied, changed>>

\* No connection within CONNECT_TIMEOUT_MS is no drop: the write fails at once.
ConnectTimeout ==
  /\ Holding /\ phase = "start" /\ ~socket
  /\ SettleWrite("failed")
  /\ UNCHANGED <<wire, applied, changed>>

ConnectionRefused ==
  /\ Holding /\ phase = "start" /\ ~socket
  /\ IF attempt = WRITE_MAX_ATTEMPTS THEN SettleWrite("failed") /\ StayConnected ELSE Reconnect
  /\ UNCHANGED <<applied, changed>>

\* The socket drops, or a GET that is preempted closes it.
SocketDrops ==
  /\ socket
  /\ IF ~Sent THEN Disconnect /\ UNCHANGED <<writeChain, phase, attempt, result>>
     ELSE IF attempt = WRITE_MAX_ATTEMPTS THEN SettleWrite("failed") /\ Disconnect
     ELSE Reconnect
  /\ UNCHANGED <<applied, changed>>

\* The library's request timeout, which is not retried either.
RequestTimeout(i) ==
  /\ i \in DOMAIN pending
  /\ pending' = [j \in 1..(Len(pending) - 1) |-> IF j < i THEN pending[j] ELSE pending[j + 1]]
  /\ IF Sent /\ pending[i] = holder THEN SettleWrite("failed")
     ELSE UNCHANGED <<writeChain, phase, attempt, result>>
  /\ UNCHANGED <<socket, answers, atNode, applied, changed>>

SettlesOn_AnyKey(key) == TRUE

\* contractKeyId(key) === contractKeyId(expectKey)
SettlesOn(key) == key = KeyOf[holder]

\* awaitWriteOrNotification, the typed answer: it goes to the first request.
ReceiveResponse(a) ==
  /\ a \in answers /\ a.kind = "response"
  /\ IF pending = <<>> \/ ~Sent \/ Head(pending) # holder
       THEN /\ answers' = answers \ {a}
            /\ pending' = IF pending = <<>> THEN <<>> ELSE Tail(pending)
            /\ UNCHANGED <<writeChain, phase, attempt, result, socket, atNode>>
     ELSE IF SettlesOn(a.key) \/ attempt = WRITE_MAX_ATTEMPTS
       THEN /\ answers' = answers \ {a}
            /\ pending' = Tail(pending)
            /\ SettleWrite(IF SettlesOn(a.key) THEN "done" ELSE "failed")
            /\ UNCHANGED <<socket, atNode>>
     ELSE Reconnect
  /\ UNCHANGED <<applied, changed>>

\* The notification: the request stays in the queue.
ReceiveNotification(a) ==
  /\ a \in answers /\ a.kind = "notification"
  /\ answers' = answers \ {a}
  /\ IF Sent /\ SettlesOn(a.key) THEN SettleWrite("done")
     ELSE UNCHANGED <<writeChain, phase, attempt, result>>
  /\ UNCHANGED <<socket, pending, atNode, applied, changed>>

\* An error of the node rejects the first request.
ReceiveError(a) ==
  /\ a \in answers /\ a.kind = "error"
  /\ answers' = answers \ {a}
  /\ pending' = IF pending = <<>> THEN <<>> ELSE Tail(pending)
  /\ IF Sent /\ pending # <<>> /\ Head(pending) = holder THEN SettleWrite("failed")
     ELSE UNCHANGED <<writeChain, phase, attempt, result>>
  /\ UNCHANGED <<socket, atNode, applied, changed>>

\* The node carries a request out, and answers with either, both or neither.
NodeApplies(r) ==
  /\ r \in atNode
  /\ atNode' = atNode \ {r}
  /\ applied' = applied \cup {r.write}
  /\ changed' = changed \cup {KeyOf[r.write]}
  /\ \E said \in SUBSET ((IF r.live THEN {Response(KeyOf[r.write])} ELSE {})
                          \cup (IF socket THEN {Notification(KeyOf[r.write])} ELSE {})) :
       answers' = answers \cup said
  /\ UNCHANGED <<writeChain, phase, attempt, result, socket, pending>>

\* It refuses it (a seq that does not increase, as of a second attempt) or loses it.
NodeRefuses(r) ==
  /\ r \in atNode
  /\ atNode' = atNode \ {r}
  /\ \/ r.live /\ answers' = answers \cup {HostError}
     \/ UNCHANGED answers
  /\ UNCHANGED <<writeChain, phase, attempt, result, socket, pending, applied, changed>>

\* Somebody else changed a contract this page is subscribed to.
OthersWrite(k) ==
  /\ k \in Foreign /\ socket
  /\ changed' = changed \cup {k}
  /\ answers' = answers \cup {Notification(k)}
  /\ UNCHANGED <<writeChain, phase, attempt, result, socket, pending, atNode, applied>>

WritesInit ==
  /\ writeChain = <<>> /\ phase = "start" /\ attempt = 1
  /\ result = [w \in Write |-> "none"]
  /\ socket = FALSE /\ pending = <<>> /\ answers = {} /\ atNode = {}
  /\ applied = {} /\ changed = {}

WritesNext ==
  \/ \E w \in Write : Request(w)
  \/ Send \/ ConnectTimeout \/ ConnectionRefused \/ EndBackoff \/ SocketDrops
  \/ \E i \in DOMAIN pending : RequestTimeout(i)
  \/ \E a \in answers : ReceiveResponse(a) \/ ReceiveNotification(a) \/ ReceiveError(a)
  \/ \E r \in atNode : NodeApplies(r) \/ NodeRefuses(r)
  \/ \E k \in Key : OthersWrite(k)

WritesSpec == WritesInit /\ [][WritesNext]_writeVars

\* Timers run out: the pause before a retry, the connect timeout or the
\* connection, and the library's timeout of the request that waits.
HolderTimesOut ==
  \E i \in DOMAIN pending : Sent /\ pending[i] = holder /\ RequestTimeout(i)

WritesFairness ==
  /\ WF_writeVars(EndBackoff)
  /\ WF_writeVars(Send \/ ConnectTimeout \/ ConnectionRefused)
  /\ WF_writeVars(HolderTimesOut)

-----------------------------------------------------------------------------
WritesTypeOK ==
  /\ writeChain \in Seq(Write)
  /\ phase \in {"start", "sent", "backoff"}
  /\ attempt \in 1..WRITE_MAX_ATTEMPTS
  /\ result \in [Write -> {"none", "done", "failed"}]
  /\ socket \in BOOLEAN
  /\ pending \in Seq(Write)
  /\ answers \subseteq Answer
  /\ atNode \subseteq [write : Write, live : BOOLEAN]
  /\ applied \subseteq Write /\ changed \subseteq Key

Alone(w) == KeyOf[w] \notin Foreign /\ \A v \in Write \ {w} : KeyOf[v] # KeyOf[w]

\* A write reported done changed its contract, however late answers of other
\* writes come: the node carried it out, or (where the page writes a contract
\* twice, or others write it) another write to the same contract.
DoneMeansChanged ==
  \A w \in Write : result[w] = "done" =>
    KeyOf[w] \in changed /\ (Alone(w) => w \in applied)

\* The library never has two requests of one write: an attempt that may still
\* be answered is not followed by another on the same connection.
OneRequestPerConnection ==
  \A i, j \in DOMAIN pending : pending[i] = pending[j] => i = j

\* Every write that was asked for is reported done or failed: as each is asked
\* for once, in the end nobody waits for the lock or holds it.
EveryWriteSettles == <>[](\A w \in Range(writeChain) : result[w] # "none")
=============================================================================
