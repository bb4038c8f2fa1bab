--------------------------- MODULE TransportProofs ---------------------------
(***************************************************************************)
(* Proofs about the transport of a page, for any number of writes,         *)
(* contracts, sockets and chunks: no answer, however late, is taken for    *)
(* that of another request; then about the tips, the backups and the pins  *)
(* that are read and kept through it, and about all of them side by side.  *)
(***************************************************************************)
EXTENDS MCTransport, SequenceLemmas, FiniteSetTheorems, WellFoundedInduction

-----------------------------------------------------------------------------
(***************************************************************************)
(* Puts and Updates.  Every request the library still waits for is of a    *)
(* write that is settled, or of the one that holds the lock and was sent;  *)
(* every answer on its way tells of a change that was made.                *)
(***************************************************************************)
Told(k) == k \in changed /\ (k \notin Foreign => \E w \in applied : KeyOf[w] = k)

WritesInv ==
  /\ WritesTypeOK
  /\ Distinct(writeChain) /\ Distinct(pending)
  /\ \A i \in DOMAIN writeChain : result[writeChain[i]] = "none"
  /\ \A i \in DOMAIN pending :
       result[pending[i]] # "none" \/ (Sent /\ pending[i] = holder)
  /\ phase = "backoff" => attempt < WRITE_MAX_ATTEMPTS
  /\ \A a \in answers : a.kind # "error" => Told(a.key)
  /\ DoneMeansChanged

LEMMA WritesInvInit == WritesInit => WritesInv
<1> SUFFICES ASSUME WritesInit PROVE WritesInv
  OBVIOUS
<1>1. <<>> \in Seq(Write) /\ DOMAIN <<>> = {}
  OBVIOUS
<1>2. attempt \in 1..WRITE_MAX_ATTEMPTS
  BY WriteAssumption DEF WritesInit
<1>3. result \in [Write -> {"none", "done", "failed"}]
  BY DEF WritesInit
<1>4. WritesTypeOK
  BY <1>1, <1>2, <1>3 DEF WritesInit, WritesTypeOK
<1> QED
  BY <1>1, <1>4 DEF WritesInit, WritesInv, Distinct, DoneMeansChanged

LEMMA HolderFacts ==
  ASSUME WritesInv, Holding
  PROVE  holder \in Write /\ result[holder] = "none" /\ 1 \in DOMAIN writeChain
         /\ holder = writeChain[1]
BY HeadTail, SMT DEF WritesInv, WritesTypeOK, Holding, holder

\* The library's queue loses requests only.
QueueShrinks ==
  /\ pending' \in Seq(Write) /\ Distinct(pending')
  /\ \A j \in DOMAIN pending' : \E k \in DOMAIN pending : pending'[j] = pending[k]

LEMMA NothingPending == pending' = <<>> => QueueShrinks
BY DEF QueueShrinks, Distinct

LEMMA QueueStays == WritesInv /\ pending' = pending => QueueShrinks
BY DEF QueueShrinks, WritesInv, WritesTypeOK

LEMMA QueueTail == WritesInv /\ pending # <<>> /\ pending' = Tail(pending) => QueueShrinks
<1> SUFFICES ASSUME WritesInv, pending # <<>>, pending' = Tail(pending) PROVE QueueShrinks
  OBVIOUS
<1>1. pending \in Seq(Write) /\ Distinct(pending)
  BY DEF WritesInv, WritesTypeOK
<1>2. Distinct(Tail(pending))
  BY <1>1, TailDistinct
<1>3. Tail(pending) \in Seq(Write)
      /\ \A j \in DOMAIN Tail(pending) : \E k \in DOMAIN pending : Tail(pending)[j] = pending[k]
  BY <1>1, HeadTail
<1> QED
  BY <1>2, <1>3 DEF QueueShrinks

\* The connection may lose requests and answers, the lock and the results stay.
LEMMA Quiet ==
  ASSUME WritesInv, QueueShrinks, answers' \subseteq answers, socket' \in BOOLEAN,
         atNode' \subseteq [write : Write, live : BOOLEAN],
         UNCHANGED <<writeChain, phase, attempt, result, applied, changed>>
  PROVE  WritesInv'
<1>1. WritesTypeOK'
  BY DEF WritesInv, WritesTypeOK, QueueShrinks
<1>2. ASSUME NEW j \in DOMAIN pending'
      PROVE  (result[pending[j]] # "none" \/ (Sent /\ pending[j] = holder))'
  BY <1>2 DEF WritesInv, QueueShrinks, Sent, Holding, holder
<1>3. \A a \in answers' : a.kind # "error" => Told(a.key)'
  BY DEF WritesInv, Told
<1> QED
  BY <1>1, <1>2, <1>3 DEF WritesInv, QueueShrinks, DoneMeansChanged

\* The holder is settled and the lock goes on.
LEMMA Settles ==
  ASSUME WritesInv, Holding, NEW r \in {"done", "failed"}, SettleWrite(r),
         r = "done" => Told(KeyOf[holder]),
         QueueShrinks, answers' \subseteq answers, socket' \in BOOLEAN,
         atNode' \subseteq [write : Write, live : BOOLEAN],
         UNCHANGED <<applied, changed>>
  PROVE  WritesInv'
<1>1. writeChain \in Seq(Write) /\ writeChain # <<>> /\ Distinct(writeChain)
  BY DEF WritesInv, WritesTypeOK, Holding
<1>2. /\ writeChain' \in Seq(Write) /\ Distinct(writeChain')
      /\ \A i \in DOMAIN writeChain' : writeChain'[i] # holder
      /\ \A i \in DOMAIN writeChain' : \E k \in DOMAIN writeChain : writeChain'[i] = writeChain[k]
  BY <1>1, HeadTail, TailDistinct DEF SettleWrite, holder
<1>3. \A w \in Write : result'[w] = IF w = holder THEN r ELSE result[w]
  BY HolderFacts DEF SettleWrite, WritesInv, WritesTypeOK
<1>4. WritesTypeOK'
  <2>1. result' \in [Write -> {"none", "done", "failed"}]
    BY DEF SettleWrite, WritesInv, WritesTypeOK
  <2>2. attempt' \in 1..WRITE_MAX_ATTEMPTS /\ phase' \in {"start", "sent", "backoff"}
    BY WriteAssumption DEF SettleWrite
  <2> QED
    BY <1>2, <2>1, <2>2 DEF WritesInv, WritesTypeOK, QueueShrinks
<1>5. \A i \in DOMAIN writeChain' : result'[writeChain'[i]] = "none"
  <2> SUFFICES ASSUME NEW i \in DOMAIN writeChain' PROVE result'[writeChain'[i]] = "none"
    OBVIOUS
  <2>1. PICK k \in DOMAIN writeChain : writeChain'[i] = writeChain[k]
    BY <1>2
  <2>2. writeChain[k] \in Write
    BY <1>1, ElementOfSeq, LenProperties
  <2> QED
    BY <1>2, <1>3, <2>1, <2>2 DEF WritesInv
<1>6. \A j \in DOMAIN pending' : result'[pending'[j]] # "none"
  <2> SUFFICES ASSUME NEW j \in DOMAIN pending' PROVE result'[pending'[j]] # "none"
    OBVIOUS
  <2>1. PICK k \in DOMAIN pending : pending'[j] = pending[k]
    BY DEF QueueShrinks
  <2>2. pending[k] \in Write
    BY ElementOfSeq, LenProperties DEF WritesInv, WritesTypeOK
  <2>3. result[pending[k]] # "none" \/ pending[k] = holder
    BY DEF WritesInv
  <2> QED
    BY <1>3, <2>1, <2>2, <2>3
<1>7. \A a \in answers' : a.kind # "error" => Told(a.key)'
  BY DEF WritesInv, Told
<1>8. DoneMeansChanged'
  <2> SUFFICES ASSUME NEW w \in Write, result'[w] = "done"
               PROVE  KeyOf[w] \in changed /\ (Alone(w) => w \in applied)
    BY DEF DoneMeansChanged, Alone
  <2>1. CASE w # holder
    BY <1>3, <2>1 DEF WritesInv, DoneMeansChanged
  <2>2. CASE w = holder
    <3>1. Told(KeyOf[w])
      BY <1>3, <2>2
    <3>2. applied \subseteq Write
      BY DEF WritesInv, WritesTypeOK
    <3> QED
      BY <3>1, <3>2 DEF Told, Alone
  <2> QED
    BY <2>1, <2>2
<1>9. phase' # "backoff"
  BY DEF SettleWrite
<1> QED
  BY <1>2, <1>4, <1>5, <1>6, <1>7, <1>8, <1>9 DEF WritesInv, QueueShrinks

\* A drop leaves nothing in the queue and nothing on its way.
LEMMA Drops ==
  ASSUME WritesInv, Disconnect
  PROVE  /\ QueueShrinks /\ answers' \subseteq answers /\ socket' \in BOOLEAN
         /\ atNode' \subseteq [write : Write, live : BOOLEAN]
<1>1. ASSUME NEW r \in [write : Write, live : BOOLEAN]
      PROVE  [r EXCEPT !.live = FALSE] \in [write : Write, live : BOOLEAN]
  OBVIOUS
<1>2. atNode \subseteq [write : Write, live : BOOLEAN]
  BY DEF WritesInv, WritesTypeOK
<1>3. atNode' \subseteq [write : Write, live : BOOLEAN]
  BY <1>1, <1>2 DEF Disconnect
<1> QED
  BY <1>3, NothingPending DEF Disconnect

LEMMA Reconnects ==
  ASSUME WritesInv, Reconnect, attempt # WRITE_MAX_ATTEMPTS, UNCHANGED <<applied, changed>>
  PROVE  WritesInv'
<1>1. /\ phase' = "backoff" /\ pending' = <<>> /\ answers' = {}
      /\ UNCHANGED <<writeChain, attempt, result, applied, changed>>
  BY DEF Reconnect, Disconnect
<1>2. WritesTypeOK'
  BY <1>1, Drops DEF WritesInv, WritesTypeOK, Reconnect, QueueShrinks
<1>3. attempt < WRITE_MAX_ATTEMPTS
  BY WriteAssumption DEF WritesInv, WritesTypeOK
<1> QED
  BY <1>1, <1>2, <1>3 DEF WritesInv, Distinct, DoneMeansChanged

LEMMA RequestStep == ASSUME WritesInv, NEW w \in Write, Request(w) PROVE WritesInv'
<1>1. /\ writeChain \in Seq(Write) /\ Distinct(writeChain)
      /\ \A i \in DOMAIN writeChain : writeChain[i] # w
  BY DEF WritesInv, WritesTypeOK, Request, Range
<1>2. writeChain' = Append(writeChain, w) /\ writeChain' \in Seq(Write) /\ Distinct(writeChain')
  BY <1>1, AppendDistinct, AppendProperties DEF Request
<1>3. \A i \in DOMAIN writeChain' : writeChain'[i] = w \/
        (i \in DOMAIN writeChain /\ writeChain'[i] = writeChain[i])
  BY <1>1, <1>2, SMT
<1>4. Sent => Sent' /\ holder' = holder
  BY <1>1, <1>2, SMT DEF Sent, Holding, holder, Request
<1>5. UNCHANGED <<phase, attempt, result, socket, pending, answers, atNode, applied, changed>>
      /\ result[w] = "none"
  BY DEF Request, wire
<1>6. WritesTypeOK'
  BY <1>2, <1>5 DEF WritesInv, WritesTypeOK
<1>7. \A i \in DOMAIN writeChain' : result'[writeChain'[i]] = "none"
  BY <1>3, <1>5 DEF WritesInv
<1>8. \A i \in DOMAIN pending' :
        (result[pending[i]] # "none" \/ (Sent /\ pending[i] = holder))'
  BY <1>4, <1>5 DEF WritesInv
<1> QED
  BY <1>2, <1>5, <1>6, <1>7, <1>8 DEF WritesInv, Distinct, DoneMeansChanged, Told

LEMMA SendStep == ASSUME WritesInv, Send PROVE WritesInv'
<1>1. Holding /\ ~Sent /\ Sent' /\ holder' = holder
  BY DEF Send, Sent, Holding, holder
<1>2. \A i \in DOMAIN pending : result[pending[i]] # "none"
  BY <1>1 DEF WritesInv
<1>3. holder \in Write /\ result[holder] = "none" /\ pending \in Seq(Write) /\ Distinct(pending)
  BY <1>1, HolderFacts DEF WritesInv, WritesTypeOK
<1>4. pending' = Append(pending, holder) /\ pending' \in Seq(Write) /\ Distinct(pending')
  BY <1>2, <1>3, AppendDistinct, AppendProperties DEF Send
<1>5. \A i \in DOMAIN pending' : pending'[i] = holder \/
        (i \in DOMAIN pending /\ pending'[i] = pending[i])
  BY <1>3, <1>4, SMT
<1>9. atNode' \subseteq [write : Write, live : BOOLEAN]
  <2>1. [write |-> holder, live |-> TRUE] \in [write : Write, live : BOOLEAN]
    BY <1>3
  <2> QED
    BY <2>1 DEF WritesInv, WritesTypeOK, Send
<1>10. /\ phase' = "sent" /\ socket' = TRUE
       /\ UNCHANGED <<writeChain, attempt, result, answers, applied, changed>>
  BY DEF Send
<1>6. WritesTypeOK'
  BY <1>4, <1>9, <1>10 DEF WritesInv, WritesTypeOK
<1>7. \A i \in DOMAIN pending' :
        (result[pending[i]] # "none" \/ (Sent /\ pending[i] = holder))'
  BY <1>1, <1>2, <1>5 DEF Send
<1>8. phase' # "backoff"
  BY DEF Send
<1> QED
  BY <1>4, <1>6, <1>7, <1>8 DEF WritesInv, Send, DoneMeansChanged, Told

LEMMA EndBackoffStep == ASSUME WritesInv, EndBackoff PROVE WritesInv'
<1>1. attempt' \in 1..WRITE_MAX_ATTEMPTS
  BY WriteAssumption DEF WritesInv, WritesTypeOK, EndBackoff
<1>2. WritesTypeOK'
  BY <1>1 DEF WritesInv, WritesTypeOK, EndBackoff, wire
<1>3. phase' # "backoff" /\ ~Sent
  BY DEF EndBackoff, Sent
<1> QED
  BY <1>2, <1>3 DEF WritesInv, EndBackoff, wire, DoneMeansChanged, Told

LEMMA ConnectSteps ==
  ASSUME WritesInv, ConnectTimeout \/ ConnectionRefused \/ SocketDrops PROVE WritesInv'
<1>0. socket \in BOOLEAN /\ atNode \subseteq [write : Write, live : BOOLEAN]
  BY DEF WritesInv, WritesTypeOK
<1>1. CASE ConnectTimeout
  <2>1. /\ Holding /\ SettleWrite("failed")
        /\ UNCHANGED <<socket, pending, answers, atNode, applied, changed>>
    BY <1>1 DEF ConnectTimeout, wire
  <2> QED
    BY <2>1, <1>0, QueueStays, Settles
<1>2. CASE ConnectionRefused
  <2>1. CASE attempt = WRITE_MAX_ATTEMPTS
    <3>1. /\ Holding /\ SettleWrite("failed")
          /\ UNCHANGED <<socket, pending, answers, atNode, applied, changed>>
      BY <1>2, <2>1 DEF ConnectionRefused, StayConnected
    <3> QED
      BY <3>1, <1>0, QueueStays, Settles
  <2>2. CASE attempt # WRITE_MAX_ATTEMPTS
    BY <1>2, <2>2, Reconnects DEF ConnectionRefused
  <2> QED
    BY <2>1, <2>2
<1>3. CASE SocketDrops
  <2>1. CASE ~Sent
    <3>1. Disconnect /\ UNCHANGED <<writeChain, phase, attempt, result, applied, changed>>
      BY <1>3, <2>1 DEF SocketDrops
    <3> QED
      BY <3>1, Drops, Quiet
  <2>2. CASE Sent /\ attempt = WRITE_MAX_ATTEMPTS
    <3>1. Holding /\ SettleWrite("failed") /\ Disconnect /\ UNCHANGED <<applied, changed>>
      BY <1>3, <2>2 DEF SocketDrops, Sent
    <3> QED
      BY <3>1, Drops, Settles
  <2>3. CASE Sent /\ attempt # WRITE_MAX_ATTEMPTS
    BY <1>3, <2>3, Reconnects DEF SocketDrops
  <2> QED
    BY <2>1, <2>2, <2>3
<1> QED
  BY <1>1, <1>2, <1>3

LEMMA RequestTimeoutStep ==
  ASSUME WritesInv, NEW i \in DOMAIN pending, RequestTimeout(i) PROVE WritesInv'
<1>1. QueueShrinks
  <2>1. pending \in Seq(Write) /\ Distinct(pending)
    BY DEF WritesInv, WritesTypeOK
  <2>2. pending' = LeftOut(pending, i)
    BY DEF RequestTimeout, LeftOut
  <2> QED
    BY <2>1, <2>2, LeaveOut DEF QueueShrinks
<1>2. socket' \in BOOLEAN /\ atNode' \subseteq [write : Write, live : BOOLEAN]
      /\ UNCHANGED <<answers, applied, changed>>
  BY DEF WritesInv, WritesTypeOK, RequestTimeout
<1>3. CASE Sent /\ pending[i] = holder
  <2>1. Holding /\ SettleWrite("failed")
    BY <1>3 DEF RequestTimeout, Sent
  <2> QED
    BY <1>1, <1>2, <2>1, Settles
<1>4. CASE ~(Sent /\ pending[i] = holder)
  <2>1. UNCHANGED <<writeChain, phase, attempt, result>>
    BY <1>4 DEF RequestTimeout
  <2> QED
    BY <1>1, <1>2, <2>1, Quiet
<1> QED
  BY <1>3, <1>4

LEMMA ReceiveResponseStep ==
  ASSUME WritesInv, NEW a \in answers, ReceiveResponse(a) PROVE WritesInv'
<1>0. /\ socket \in BOOLEAN /\ atNode \subseteq [write : Write, live : BOOLEAN]
      /\ a.kind = "response" /\ Told(a.key) /\ UNCHANGED <<applied, changed>>
  BY DEF WritesInv, WritesTypeOK, ReceiveResponse
<1>1. CASE pending = <<>> \/ ~Sent \/ Head(pending) # holder
  <2>1. /\ answers' = answers \ {a}
        /\ pending' = IF pending = <<>> THEN <<>> ELSE Tail(pending)
        /\ UNCHANGED <<writeChain, phase, attempt, result, socket, atNode>>
    BY <1>1 DEF ReceiveResponse
  <2>2. QueueShrinks
    BY <2>1, NothingPending, QueueTail
  <2> QED
    BY <1>0, <2>1, <2>2, Quiet
<1>2. CASE /\ ~(pending = <<>> \/ ~Sent \/ Head(pending) # holder)
           /\ SettlesOn(a.key) \/ attempt = WRITE_MAX_ATTEMPTS
  <2> DEFINE r == IF SettlesOn(a.key) THEN "done" ELSE "failed"
  <2>1. /\ answers' = answers \ {a} /\ pending # <<>> /\ pending' = Tail(pending)
        /\ SettleWrite(r) /\ Holding /\ UNCHANGED <<socket, atNode>>
    BY <1>2 DEF ReceiveResponse, Sent
  <2>2. QueueShrinks
    BY <2>1, QueueTail
  <2>3. r \in {"done", "failed"} /\ (r = "done" => Told(KeyOf[holder]))
    BY <1>0 DEF SettlesOn
  <2> HIDE DEF r
  <2> QED
    BY <1>0, <2>1, <2>2, <2>3, Settles
<1>3. CASE /\ ~(pending = <<>> \/ ~Sent \/ Head(pending) # holder)
           /\ ~(SettlesOn(a.key) \/ attempt = WRITE_MAX_ATTEMPTS)
  <2>1. Reconnect /\ attempt # WRITE_MAX_ATTEMPTS
    BY <1>3 DEF ReceiveResponse
  <2> QED
    BY <1>0, <2>1, Reconnects
<1> QED
  BY <1>1, <1>2, <1>3

LEMMA ReceiveNotificationStep ==
  ASSUME WritesInv, NEW a \in answers, ReceiveNotification(a) PROVE WritesInv'
<1>0. /\ socket' \in BOOLEAN /\ atNode' \subseteq [write : Write, live : BOOLEAN]
      /\ Told(a.key) /\ answers' \subseteq answers /\ QueueShrinks
      /\ UNCHANGED <<applied, changed>>
  BY QueueStays DEF WritesInv, WritesTypeOK, ReceiveNotification
<1>1. CASE Sent /\ SettlesOn(a.key)
  <2>1. Holding /\ SettleWrite("done") /\ Told(KeyOf[holder])
    BY <1>0, <1>1 DEF ReceiveNotification, Sent, SettlesOn
  <2> QED
    BY <1>0, <2>1, Settles
<1>2. CASE ~(Sent /\ SettlesOn(a.key))
  <2>1. UNCHANGED <<writeChain, phase, attempt, result>>
    BY <1>2 DEF ReceiveNotification
  <2> QED
    BY <1>0, <2>1, Quiet
<1> QED
  BY <1>1, <1>2

LEMMA ReceiveErrorStep ==
  ASSUME WritesInv, NEW a \in answers, ReceiveError(a) PROVE WritesInv'
<1>0. /\ socket' \in BOOLEAN /\ atNode' \subseteq [write : Write, live : BOOLEAN]
      /\ answers' \subseteq answers /\ UNCHANGED <<applied, changed>>
  BY DEF WritesInv, WritesTypeOK, ReceiveError
<1>1. QueueShrinks
  BY NothingPending, QueueTail DEF ReceiveError
<1>2. CASE Sent /\ pending # <<>> /\ Head(pending) = holder
  <2>1. Holding /\ SettleWrite("failed")
    BY <1>2 DEF ReceiveError, Sent
  <2> QED
    BY <1>0, <1>1, <2>1, Settles
<1>3. CASE ~(Sent /\ pending # <<>> /\ Head(pending) = holder)
  <2>1. UNCHANGED <<writeChain, phase, attempt, result>>
    BY <1>3 DEF ReceiveError
  <2> QED
    BY <1>0, <1>1, <2>1, Quiet
<1> QED
  BY <1>2, <1>3

\* Contracts change and are told of; who holds the lock does not move.
LEMMA Changes ==
  ASSUME WritesInv, UNCHANGED <<writeChain, phase, attempt, result, socket, pending>>,
         atNode' \subseteq [write : Write, live : BOOLEAN],
         applied \subseteq applied', applied' \subseteq Write,
         changed \subseteq changed', changed' \subseteq Key,
         \A a \in answers' \ answers : a \in Answer /\ (a.kind # "error" => Told(a.key)')
  PROVE  WritesInv'
<1>1. WritesTypeOK'
  BY DEF WritesInv, WritesTypeOK
<1>2. \A k : Told(k) => Told(k)'
  BY DEF Told
<1>3. \A a \in answers' : a.kind # "error" => Told(a.key)'
  BY <1>2 DEF WritesInv
<1>4. DoneMeansChanged'
  BY DEF WritesInv, DoneMeansChanged, Alone
<1>5. \A i \in DOMAIN pending' :
        (result[pending[i]] # "none" \/ (Sent /\ pending[i] = holder))'
  BY DEF WritesInv, Sent, Holding, holder
<1> QED
  BY <1>1, <1>3, <1>4, <1>5 DEF WritesInv

LEMMA NodeAppliesStep ==
  ASSUME WritesInv, NEW r \in atNode, NodeApplies(r) PROVE WritesInv'
<1>1. r.write \in Write /\ KeyOf[r.write] \in Key
  BY WriteAssumption DEF WritesInv, WritesTypeOK
<1>2. /\ UNCHANGED <<writeChain, phase, attempt, result, socket, pending>>
      /\ atNode' \subseteq atNode
      /\ applied' = applied \cup {r.write} /\ changed' = changed \cup {KeyOf[r.write]}
  BY DEF NodeApplies
<1>3. \A a \in answers' \ answers :
        a \in {Response(KeyOf[r.write]), Notification(KeyOf[r.write])}
  <2>1. PICK said \in SUBSET ((IF r.live THEN {Response(KeyOf[r.write])} ELSE {})
                          \cup (IF socket THEN {Notification(KeyOf[r.write])} ELSE {})) :
          answers' = answers \cup said
    BY DEF NodeApplies
  <2> QED
    BY <2>1
<1>4. Told(KeyOf[r.write])'
  BY <1>2 DEF Told
<1>5. ASSUME NEW a \in {Response(KeyOf[r.write]), Notification(KeyOf[r.write])}
      PROVE  a \in Answer /\ a.key = KeyOf[r.write]
  BY <1>1, <1>5 DEF Response, Notification, Answer
<1>6. \A a \in answers' \ answers : a \in Answer /\ Told(a.key)'
  BY <1>3, <1>4, <1>5
<1>7. /\ atNode' \subseteq [write : Write, live : BOOLEAN]
      /\ applied \subseteq applied' /\ applied' \subseteq Write
      /\ changed \subseteq changed' /\ changed' \subseteq Key
  BY <1>1, <1>2 DEF WritesInv, WritesTypeOK
<1> QED
  BY <1>2, <1>6, <1>7, Changes

LEMMA NodeRefusesStep ==
  ASSUME WritesInv, NEW r \in atNode, NodeRefuses(r) PROVE WritesInv'
<1>1. /\ UNCHANGED <<writeChain, phase, attempt, result, socket, pending, applied, changed>>
      /\ atNode' \subseteq atNode /\ answers' \subseteq answers \cup {HostError}
  BY DEF NodeRefuses
<1>2. HostError \in Answer /\ HostError.kind = "error"
  BY DEF HostError, Answer
<1>3. /\ atNode' \subseteq [write : Write, live : BOOLEAN]
      /\ applied' \subseteq Write /\ changed' \subseteq Key
  BY <1>1 DEF WritesInv, WritesTypeOK
<1> QED
  BY <1>1, <1>2, <1>3, Changes

LEMMA OthersWriteStep ==
  ASSUME WritesInv, NEW k \in Key, OthersWrite(k) PROVE WritesInv'
<1>1. /\ UNCHANGED <<writeChain, phase, attempt, result, socket, pending, atNode, applied>>
      /\ changed' = changed \cup {k} /\ answers' = answers \cup {Notification(k)}
      /\ k \in Foreign
  BY DEF OthersWrite
<1>2. Notification(k) \in Answer /\ Notification(k).key = k
  BY DEF Notification, Answer
<1>3. Told(k)'
  BY <1>1 DEF Told
<1>4. \A a \in answers' \ answers : a \in Answer /\ Told(a.key)'
  BY <1>1, <1>2, <1>3
<1>5. /\ atNode' \subseteq [write : Write, live : BOOLEAN]
      /\ applied' \subseteq Write /\ changed \subseteq changed' /\ changed' \subseteq Key
  BY <1>1 DEF WritesInv, WritesTypeOK
<1> QED
  BY <1>1, <1>4, <1>5, Changes

LEMMA WritesInvStep == WritesInv /\ [WritesNext]_writeVars => WritesInv'
<1> SUFFICES ASSUME WritesInv, [WritesNext]_writeVars PROVE WritesInv'
  OBVIOUS
<1>1. CASE \E w \in Write : Request(w)
  BY <1>1, RequestStep
<1>2. CASE Send
  BY <1>2, SendStep
<1>3. CASE ConnectTimeout \/ ConnectionRefused \/ SocketDrops
  BY <1>3, ConnectSteps
<1>4. CASE EndBackoff
  BY <1>4, EndBackoffStep
<1>5. CASE \E i \in DOMAIN pending : RequestTimeout(i)
  BY <1>5, RequestTimeoutStep
<1>6. CASE \E a \in answers : ReceiveResponse(a) \/ ReceiveNotification(a) \/ ReceiveError(a)
  BY <1>6, ReceiveResponseStep, ReceiveNotificationStep, ReceiveErrorStep
<1>7. CASE \E r \in atNode : NodeApplies(r) \/ NodeRefuses(r)
  BY <1>7, NodeAppliesStep, NodeRefusesStep
<1>8. CASE \E k \in Key : OthersWrite(k)
  BY <1>8, OthersWriteStep
<1>9. CASE UNCHANGED writeVars
  <2>1. /\ UNCHANGED <<writeChain, phase, attempt, result, applied, changed>>
        /\ UNCHANGED <<pending, answers, socket, atNode>>
    BY <1>9 DEF writeVars
  <2>2. socket \in BOOLEAN /\ atNode \subseteq [write : Write, live : BOOLEAN]
    BY DEF WritesInv, WritesTypeOK
  <2> QED
    BY <2>1, <2>2, QueueStays, Quiet
<1> QED
  BY <1>1, <1>2, <1>3, <1>4, <1>5, <1>6, <1>7, <1>8, <1>9 DEF WritesNext

LEMMA WritesInvAlways == WritesSpec => []WritesInv
BY WritesInvInit, WritesInvStep, PTL DEF WritesSpec

\* The state of the page's writes is well formed, whatever the node answers and when.
THEOREM WritesTypeCorrect == WritesSpec => []WritesTypeOK
<1>1. WritesInv => WritesTypeOK
  BY DEF WritesInv
<1> QED
  BY <1>1, WritesInvAlways, PTL

\* A write reported done changed its contract: an answer is only taken for the
\* write whose key it names, and answers on their way tell of changes made.
THEOREM DoneMeansChangedAlways == WritesSpec => []DoneMeansChanged
<1>1. WritesInv => DoneMeansChanged
  BY DEF WritesInv
<1> QED
  BY <1>1, WritesInvAlways, PTL

\* The library never has two requests of one write on a connection: a write is
\* tried again only after the queue was emptied with its connection.
THEOREM OneRequestPerConnectionAlways == WritesSpec => []OneRequestPerConnection
<1>1. WritesInv => OneRequestPerConnection
  BY DEF WritesInv, Distinct, OneRequestPerConnection
<1> QED
  BY <1>1, WritesInvAlways, PTL

-----------------------------------------------------------------------------
(***************************************************************************)
(* The chunk pool.  A GET that was sent has the lock of its slot, so the   *)
(* chunk it compares the answer with is the one it asked for.              *)
(***************************************************************************)
PoolInv ==
  /\ PoolTypeOK
  /\ \A s \in active : chain[s] # <<>>
  /\ GivesOwnChunk

LEMMA PoolInvInit == PoolInit => PoolInv
<1> SUFFICES ASSUME PoolInit PROVE PoolInv
  OBVIOUS
<1>1. <<>> \in Seq(Chunk)
  OBVIOUS
<1>2. chain \in [Slot -> Seq(Chunk)] /\ pend \in [Slot -> Seq(Chunk)]
  BY <1>1 DEF PoolInit
<1>3. asked \in [Slot -> SUBSET Chunk] /\ late \in [Slot -> SUBSET Chunk]
  BY DEF PoolInit
<1>4. got \in [Chunk -> Chunk \cup {"none", "wait", "failed"}]
  BY DEF PoolInit
<1>5. slots \subseteq Slot /\ opens \in 0..MaxOpens /\ active \subseteq Slot
  BY PoolAssumption DEF PoolInit
<1> QED
  BY <1>2, <1>3, <1>4, <1>5 DEF PoolInit, PoolInv, PoolTypeOK, GivesOwnChunk

\* What a step does to the sockets: types only.
WireOK ==
  /\ slots' \subseteq Slot /\ opens' \in 0..MaxOpens
  /\ pend' \in [Slot -> Seq(Chunk)]
  /\ asked' \in [Slot -> SUBSET Chunk] /\ late' \in [Slot -> SUBSET Chunk]

LEMMA PoolQuiet ==
  ASSUME PoolInv, WireOK, UNCHANGED <<chain, active, got>>
  PROVE  PoolInv'
BY DEF PoolInv, PoolTypeOK, WireOK, GivesOwnChunk

LEMMA EndsAttempt ==
  ASSUME PoolInv, WireOK, NEW s \in Slot, chain[s] # <<>>,
         NEW ans \in {"failed", Head(chain[s])}, End(s, ans)
  PROVE  PoolInv'
<1>1. chain \in [Slot -> Seq(Chunk)] /\ chain[s] \in Seq(Chunk)
      /\ active \subseteq Slot /\ got \in [Chunk -> Chunk \cup {"none", "wait", "failed"}]
  BY DEF PoolInv, PoolTypeOK
<1>2. Head(chain[s]) \in Chunk /\ Tail(chain[s]) \in Seq(Chunk)
  BY <1>1, HeadTail
<1>3. chain' \in [Slot -> Seq(Chunk)] /\ \A v \in Slot \ {s} : chain'[v] = chain[v]
  BY <1>1, <1>2 DEF End
<1>4. got' \in [Chunk -> Chunk \cup {"none", "wait", "failed"}]
      /\ \A c \in Chunk : got'[c] = IF c = Head(chain[s]) THEN ans ELSE got[c]
  BY <1>1, <1>2 DEF End
<1>5. active' \subseteq Slot /\ \A v \in active' : chain'[v] # <<>>
  BY <1>1, <1>3 DEF End, PoolInv
<1>6. GivesOwnChunk'
  BY <1>4 DEF GivesOwnChunk, PoolInv
<1> QED
  BY <1>3, <1>4, <1>5, <1>6 DEF PoolInv, PoolTypeOK, WireOK

LEMMA CloseOK ==
  ASSUME PoolInv, NEW S, Close(S), opens' = opens PROVE WireOK
<1>1. pend' \in [Slot -> Seq(Chunk)]
  <2>1. <<>> \in Seq(Chunk)
    OBVIOUS
  <2> QED
    BY <2>1 DEF Close, PoolInv, PoolTypeOK
<1>2. asked' \in [Slot -> SUBSET Chunk] /\ late' \in [Slot -> SUBSET Chunk]
  BY DEF Close, PoolInv, PoolTypeOK
<1> QED
  BY <1>1, <1>2 DEF Close, PoolInv, PoolTypeOK, WireOK

\* Pop, or any other change of one queue, keeps its type.
LEMMA PendOne ==
  ASSUME PoolInv, NEW s \in Slot, NEW q \in Seq(Chunk), pend' = [pend EXCEPT ![s] = q]
  PROVE  pend' \in [Slot -> Seq(Chunk)]
BY DEF PoolInv, PoolTypeOK

LEMMA OpenSlotStep ==
  ASSUME PoolInv, NEW s \in Slot, OpenSlot(s) PROVE PoolInv'
<1>1. WireOK
  BY PoolAssumption DEF OpenSlot, WireOK, PoolInv, PoolTypeOK
<1> QED
  BY <1>1, PoolQuiet DEF OpenSlot

LEMMA CloseSlotsStep ==
  ASSUME PoolInv, NEW S \in SUBSET Slot, CloseSlots(S) PROVE PoolInv'
<1>1. WireOK
  BY CloseOK DEF CloseSlots
<1> QED
  BY <1>1, PoolQuiet DEF CloseSlots

LEMMA GetChunkStep ==
  ASSUME PoolInv, NEW c \in Chunk, NEW s \in Slot, GetChunk(c, s) PROVE PoolInv'
<1>1. chain[s] \in Seq(Chunk) /\ chain \in [Slot -> Seq(Chunk)]
      /\ got \in [Chunk -> Chunk \cup {"none", "wait", "failed"}]
  BY DEF PoolInv, PoolTypeOK
<1>2. Append(chain[s], c) \in Seq(Chunk) /\ Append(chain[s], c) # <<>>
  BY <1>1, AppendProperties
<1>3. chain' = [chain EXCEPT ![s] = Append(chain[s], c)] /\ got' = [got EXCEPT ![c] = "wait"]
  BY DEF GetChunk
<1>4. chain' \in [Slot -> Seq(Chunk)]
      /\ \A v \in Slot : chain'[v] = IF v = s THEN Append(chain[s], c) ELSE chain[v]
  BY <1>1, <1>2, <1>3
<1>5. got' \in [Chunk -> Chunk \cup {"none", "wait", "failed"}] /\ GivesOwnChunk'
  BY <1>1, <1>3 DEF PoolInv, GivesOwnChunk
<1> QED
  BY <1>2, <1>4, <1>5 DEF PoolInv, PoolTypeOK, GetChunk

LEMMA SendGetStep ==
  ASSUME PoolInv, NEW s \in Slot, SendGet(s) PROVE PoolInv'
<1>1. /\ chain[s] \in Seq(Chunk) /\ pend[s] \in Seq(Chunk) /\ chain[s] # <<>>
      /\ UNCHANGED <<slots, opens, late>>
  BY DEF SendGet, PoolInv, PoolTypeOK
<1>2. Head(chain[s]) \in Chunk
  BY <1>1, HeadTail
<1>3. CASE s \in slots
  <2>1. /\ active' = active \cup {s} /\ UNCHANGED <<chain, got>>
        /\ pend' = [pend EXCEPT ![s] = Append(pend[s], Head(chain[s]))]
        /\ asked' = [asked EXCEPT ![s] = asked[s] \cup {Head(chain[s])}]
    BY <1>3 DEF SendGet
  <2>2. Append(pend[s], Head(chain[s])) \in Seq(Chunk)
    BY <1>1, <1>2, AppendProperties
  <2>3. pend' \in [Slot -> Seq(Chunk)]
    BY <2>1, <2>2, PendOne
  <2>4. asked' \in [Slot -> SUBSET Chunk]
    BY <1>2, <2>1 DEF PoolInv, PoolTypeOK
  <2> QED
    BY <1>1, <2>1, <2>3, <2>4 DEF PoolInv, PoolTypeOK, GivesOwnChunk
<1>4. CASE s \notin slots
  <2>1. End(s, "failed") /\ UNCHANGED <<pend, asked>>
    BY <1>4 DEF SendGet
  <2>2. WireOK
    BY <1>1, <2>1 DEF WireOK, PoolInv, PoolTypeOK
  <2> QED
    BY <1>1, <2>1, <2>2, EndsAttempt
<1> QED
  BY <1>3, <1>4

LEMMA NodeAnswersStep ==
  ASSUME PoolInv, NEW s \in Slot, NEW c \in Chunk, NodeAnswers(s, c) PROVE PoolInv'
<1>1. asked' \in [Slot -> SUBSET Chunk] /\ late' \in [Slot -> SUBSET Chunk]
  <2>1. asked \in [Slot -> SUBSET Chunk] /\ late \in [Slot -> SUBSET Chunk]
    BY DEF PoolInv, PoolTypeOK
  <2>2. asked' = [asked EXCEPT ![s] = asked[s] \ {c}]
        /\ (late' = [late EXCEPT ![s] = late[s] \cup {c}] \/ late' = late)
    BY DEF NodeAnswers
  <2> QED
    BY <2>1, <2>2
<1>2. WireOK
  BY <1>1 DEF NodeAnswers, WireOK, PoolInv, PoolTypeOK
<1> QED
  BY <1>2, PoolQuiet DEF NodeAnswers

LEMMA ReceiveChunkStep ==
  ASSUME PoolInv, NEW s \in Slot, NEW c \in Chunk, ReceiveChunk(s, c) PROVE PoolInv'
<1>0. pend[s] \in Seq(Chunk) /\ opens' = opens
  BY DEF PoolInv, PoolTypeOK, ReceiveChunk
<1> DEFINE q == IF pend[s] = <<>> THEN pend[s] ELSE Tail(pend[s])
<1>1. q \in Seq(Chunk)
  BY <1>0, HeadTail
<1>2. ASSUME pend' = [pend EXCEPT ![s] = q], late' = [late EXCEPT ![s] = late[s] \ {c}],
             UNCHANGED <<slots, asked>>
      PROVE  WireOK
  <2>1. pend' \in [Slot -> Seq(Chunk)]
    <3> HIDE DEF q
    <3> QED
      BY <1>1, <1>2, PendOne
  <2>2. late' \in [Slot -> SUBSET Chunk]
    BY <1>2 DEF PoolInv, PoolTypeOK
  <2> QED
    BY <1>0, <1>2, <2>1, <2>2 DEF WireOK, PoolInv, PoolTypeOK
<1>3. CASE ~(s \in active /\ pend[s] # <<>> /\ Head(pend[s]) = Head(chain[s]))
  <2>1. /\ pend' = [pend EXCEPT ![s] = q] /\ late' = [late EXCEPT ![s] = late[s] \ {c}]
        /\ UNCHANGED <<slots, asked, chain, active, got>>
    BY <1>3 DEF ReceiveChunk
  <2> QED
    BY <1>2, <2>1, PoolQuiet
<1>4. CASE s \in active /\ pend[s] # <<>> /\ Head(pend[s]) = Head(chain[s])
  <2>0. chain[s] # <<>>
    BY <1>4 DEF PoolInv
  <2>1. CASE IsOwn(s, c)
    <3>1. /\ End(s, c) /\ pend' = [pend EXCEPT ![s] = q]
          /\ late' = [late EXCEPT ![s] = late[s] \ {c}] /\ UNCHANGED <<slots, asked>>
      BY <1>4, <2>1 DEF ReceiveChunk
    <3>2. c = Head(chain[s])
      BY <2>1 DEF IsOwn
    <3>3. WireOK
      BY <1>2, <3>1
    <3> QED
      BY <2>0, <3>1, <3>2, <3>3, EndsAttempt
  <2>2. CASE ~IsOwn(s, c)
    <3>1. End(s, "failed") /\ Close({s})
      BY <1>4, <2>2 DEF ReceiveChunk
    <3>2. WireOK
      BY <1>0, <3>1, CloseOK
    <3> QED
      BY <2>0, <3>1, <3>2, EndsAttempt
  <2> QED
    BY <2>1, <2>2
<1> QED
  BY <1>3, <1>4

LEMMA PoolTimeoutStep ==
  ASSUME PoolInv, NEW s \in Slot, PoolTimeout(s) PROVE PoolInv'
<1>1. chain[s] # <<>> /\ End(s, "failed") /\ UNCHANGED <<slots, opens, pend, asked, late>>
  BY DEF PoolInv, PoolTimeout, GivesUp
<1>2. WireOK
  BY <1>1 DEF WireOK, PoolInv, PoolTypeOK
<1> QED
  BY <1>1, <1>2, EndsAttempt

LEMMA LibraryTimeoutStep ==
  ASSUME PoolInv, NEW s \in Slot, NEW i \in DOMAIN pend[s], LibraryTimeout(s, i)
  PROVE  PoolInv'
<1>0. pend[s] \in Seq(Chunk) /\ i \in 1..Len(pend[s]) /\ Len(pend[s]) \in Nat
  BY LenProperties DEF PoolInv, PoolTypeOK
<1>1. RemoveAt(pend[s], i) \in Seq(Chunk)
  BY <1>0, SubSeqProperties, ConcatProperties, SMT DEF RemoveAt
<1>2. /\ pend' = [pend EXCEPT ![s] = RemoveAt(pend[s], i)]
      /\ UNCHANGED <<slots, opens, asked, late>>
  BY DEF LibraryTimeout
<1>3. pend' \in [Slot -> Seq(Chunk)]
  BY <1>1, <1>2, PendOne
<1>4. WireOK
  BY <1>2, <1>3 DEF WireOK, PoolInv, PoolTypeOK
<1>5. CASE s \in active /\ pend[s][i] = Head(chain[s])
  <2>1. chain[s] # <<>> /\ End(s, "failed")
    BY <1>5 DEF LibraryTimeout, PoolInv
  <2> QED
    BY <1>4, <2>1, EndsAttempt
<1>6. CASE ~(s \in active /\ pend[s][i] = Head(chain[s]))
  <2>1. UNCHANGED <<chain, active, got>>
    BY <1>6 DEF LibraryTimeout
  <2> QED
    BY <1>4, <2>1, PoolQuiet
<1> QED
  BY <1>5, <1>6

LEMMA PoolInvStep == PoolInv /\ [PoolNext]_poolVars => PoolInv'
<1> SUFFICES ASSUME PoolInv, [PoolNext]_poolVars PROVE PoolInv'
  OBVIOUS
<1>1. CASE \E s \in Slot : OpenSlot(s) \/ SendGet(s) \/ PoolTimeout(s)
  BY <1>1, OpenSlotStep, SendGetStep, PoolTimeoutStep
<1>2. CASE \E S \in SUBSET Slot : CloseSlots(S)
  BY <1>2, CloseSlotsStep
<1>3. CASE \E s \in Slot, c \in Chunk : GetChunk(c, s) \/ NodeAnswers(s, c) \/ ReceiveChunk(s, c)
  BY <1>3, GetChunkStep, NodeAnswersStep, ReceiveChunkStep
<1>4. CASE \E s \in Slot : \E i \in DOMAIN pend[s] : LibraryTimeout(s, i)
  BY <1>4, LibraryTimeoutStep
<1>5. CASE UNCHANGED poolVars
  <2>1. UNCHANGED <<slots, opens, chain, active, pend, asked, late, got>>
    BY <1>5 DEF poolVars
  <2>2. WireOK
    BY <2>1 DEF WireOK, PoolInv, PoolTypeOK
  <2> QED
    BY <2>1, <2>2, PoolQuiet
<1> QED
  BY <1>1, <1>2, <1>3, <1>4, <1>5 DEF PoolNext

LEMMA PoolInvAlways == PoolSpec => []PoolInv
BY PoolInvInit, PoolInvStep, PTL DEF PoolSpec

\* The state of the pool is well formed, for any sockets and chunks.
THEOREM PoolTypeCorrect == PoolSpec => []PoolTypeOK
<1>1. PoolInv => PoolTypeOK
  BY DEF PoolInv
<1> QED
  BY <1>1, PoolInvAlways, PTL

\* A GET of the pool gives the chunk it asked for or fails, whatever answers are
\* late, lost or reordered on its socket.
THEOREM GivesOwnChunkAlways == PoolSpec => []GivesOwnChunk
<1>1. PoolInv => GivesOwnChunk
  BY DEF PoolInv
<1> QED
  BY <1>1, PoolInvAlways, PTL

-----------------------------------------------------------------------------
(***************************************************************************)
(* Contract GETs.  A GET that waits is in a queue once or in the pump's    *)
(* hands, the handle and the job in flight are those of the attempt under  *)
(* way, and an aborted GET was rejected or is about to be.                 *)
(***************************************************************************)
KeepStep(queue, gone, f, i) ==
  IF i = 0 THEN <<>>
  ELSE IF queue[i] \in gone THEN f[i - 1] ELSE Append(f[i - 1], queue[i])

\* The function that Drain defines by recursion exists.
LEMMA KeepExists ==
  ASSUME NEW S, NEW q \in Seq(S), NEW gone
  PROVE  \E f : f = [i \in 0..Len(q) |-> KeepStep(q, gone, f, i)]
<1> DEFINE Good(f, n) == DOMAIN f = 0..n /\ \A i \in 0..n : f[i] = KeepStep(q, gone, f, i)
           T == {n \in 0..Len(q) : \E f \in [0..n -> Seq(S)] : Good(f, n)}
<1>0. Len(q) \in Nat /\ \A i \in 1..Len(q) : q[i] \in S
  BY LenProperties, ElementOfSeq
<1>1. 0 \in T
  <2> DEFINE f == [i \in 0..0 |-> <<>>]
  <2>1. <<>> \in Seq(S) /\ \A i \in 0..0 : i = 0
    BY SMT
  <2>2. f \in [0..0 -> Seq(S)] /\ DOMAIN f = 0..0 /\ \A i \in 0..0 : f[i] = <<>>
    BY <2>1
  <2>3. Good(f, 0)
    BY <2>1, <2>2 DEF KeepStep
  <2>4. 0 \in 0..Len(q)
    BY <1>0
  <2> HIDE DEF f, Good
  <2> QED
    BY <2>2, <2>3, <2>4
<1>2. ASSUME NEW k \in 0..(Len(q) - 1), k \in T PROVE k + 1 \in T
  <2>1. PICK f \in [0..k -> Seq(S)] : Good(f, k)
    BY <1>2
  <2> DEFINE e == KeepStep(q, gone, f, k + 1)
             g == [i \in 0..(k + 1) |-> IF i = k + 1 THEN e ELSE f[i]]
  <2>2. e \in Seq(S)
    BY <1>0, AppendProperties DEF KeepStep
  <2>3. g \in [0..(k + 1) -> Seq(S)]
    <3> HIDE DEF e
    <3> QED
      BY <1>0, <2>2
  <2>4. ASSUME NEW i \in 0..(k + 1) PROVE g[i] = KeepStep(q, gone, g, i)
    <3>1. CASE i = k + 1
      BY <1>0, <3>1 DEF KeepStep
    <3>2. CASE i # k + 1
      <4>1. i \in 0..k /\ k \in Nat /\ f[i] = KeepStep(q, gone, f, i)
        BY <1>0, <2>1, <3>2
      <4>2. i = 0 \/ (i - 1 \in 0..(k + 1) /\ i - 1 # k + 1)
        BY <4>1
      <4> HIDE DEF e
      <4>3. g[i] = f[i] /\ (i # 0 => g[i - 1] = f[i - 1])
        BY <3>2, <4>2
      <4> HIDE DEF g
      <4> QED
        BY <4>1, <4>3 DEF KeepStep
    <3> QED
      BY <3>1, <3>2
  <2>5. Good(g, k + 1)
    <3> HIDE DEF e
    <3> QED
      BY <2>4
  <2>6. k + 1 \in 0..Len(q)
    BY <1>0
  <2> HIDE DEF Good, g
  <2> QED
    BY <2>3, <2>5, <2>6
<1>3. \A k \in 0..(Len(q) - 1) : k \in T => k + 1 \in T
  BY <1>2
<1>4. Len(q) \in T
  <2> HIDE DEF T
  <2>1. \A k \in 0..Len(q) : k \in T
    BY <1>0, <1>1, <1>3, UpTo
  <2> QED
    BY <1>0, <2>1
<1> QED
  BY <1>4

LEMMA DrainIs ==
  ASSUME NEW S, NEW q \in Seq(S), NEW gone
  PROVE  \E f : f = [i \in 0..Len(q) |-> KeepStep(q, gone, f, i)] /\ Drain(q, gone) = f[Len(q)]
<1> DEFINE f[i \in 0..Len(q)] ==
        IF i = 0 THEN <<>> ELSE IF q[i] \in gone THEN f[i - 1] ELSE Append(f[i - 1], q[i])
<1>1. f = CHOOSE g : g = [i \in 0..Len(q) |-> KeepStep(q, gone, g, i)]
  BY DEF KeepStep
<1>2. Drain(q, gone) = f[Len(q)]
  BY DEF Drain
<1> HIDE DEF f
<1> QED
  BY <1>1, <1>2, KeepExists

\* What Drain leaves: every job that does not go, each once.
LEMMA DrainFacts ==
  ASSUME NEW S, NEW q \in Seq(S), NEW gone
  PROVE  /\ Drain(q, gone) \in Seq(S)
         /\ Range(Drain(q, gone)) = Range(q) \ gone
         /\ Distinct(q) => Distinct(Drain(q, gone))
<1>0. Len(q) \in Nat /\ DOMAIN q = 1..Len(q) /\ \A i \in 1..Len(q) : q[i] \in S
  BY LenProperties, ElementOfSeq
<1>1. PICK f : f = [i \in 0..Len(q) |-> KeepStep(q, gone, f, i)] /\ Drain(q, gone) = f[Len(q)]
  BY DrainIs
<1>2. \A i \in 0..Len(q) : f[i] = KeepStep(q, gone, f, i)
  BY <1>1
<1> DEFINE Before(n) == {q[i] : i \in 1..n}
           Holds(n) == /\ f[n] \in Seq(S) /\ Range(f[n]) = Before(n) \ gone
                       /\ Distinct(q) => Distinct(f[n])
           T == {n \in 0..Len(q) : Holds(n)}
<1>3. 0 \in T
  <2>1. f[0] = <<>> /\ Before(0) = {} /\ 0 \in 0..Len(q)
    BY <1>0, <1>2 DEF KeepStep
  <2>2. <<>> \in Seq(S)
    OBVIOUS
  <2>3. Holds(0)
    BY <2>1, <2>2, RangeEmpty
  <2> HIDE DEF Holds
  <2> QED
    BY <2>1, <2>3
<1>4. ASSUME NEW k \in 0..(Len(q) - 1), k \in T PROVE k + 1 \in T
  <2>0. k + 1 \in 0..Len(q) /\ k + 1 \in 1..Len(q) /\ q[k + 1] \in S /\ k + 1 # 0 /\ k + 1 - 1 = k
    BY <1>0
  <2>1. f[k + 1] = IF q[k + 1] \in gone THEN f[k] ELSE Append(f[k], q[k + 1])
    BY <1>2, <2>0 DEF KeepStep
  <2>2. Before(k + 1) = Before(k) \cup {q[k + 1]}
    <3>1. 1..(k + 1) = (1..k) \cup {k + 1}
      BY <1>0
    <3> QED
      BY <3>1
  <2>3. Distinct(q) => q[k + 1] \notin Before(k)
    BY <1>0 DEF Distinct
  <2> HIDE DEF Before
  <2>4. Holds(k)
    BY <1>4
  <2>5. CASE q[k + 1] \in gone
    BY <2>0, <2>1, <2>2, <2>4, <2>5
  <2>6. CASE q[k + 1] \notin gone
    <3>1. f[k + 1] = Append(f[k], q[k + 1]) /\ f[k] \in Seq(S)
      BY <2>1, <2>4, <2>6
    <3>2. f[k + 1] \in Seq(S)
      BY <2>0, <3>1, AppendProperties
    <3>3. Range(f[k + 1]) = Range(f[k]) \cup {q[k + 1]}
      BY <2>0, <3>1, RangeAppend
    <3>4. Distinct(q) => Distinct(f[k + 1])
      <4> SUFFICES ASSUME Distinct(q) PROVE Distinct(f[k + 1])
        OBVIOUS
      <4>1. Distinct(f[k]) /\ q[k + 1] \notin Range(f[k])
        BY <2>3, <2>4
      <4>2. \A i \in DOMAIN f[k] : f[k][i] # q[k + 1]
        BY <4>1, InRange
      <4> QED
        BY <2>0, <3>1, <4>1, <4>2, AppendDistinct
    <3>5. Holds(k + 1)
      BY <2>2, <2>4, <2>6, <3>2, <3>3, <3>4
    <3> QED
      BY <2>0, <3>5
  <2> QED
    BY <2>5, <2>6
<1>5. \A k \in 0..(Len(q) - 1) : k \in T => k + 1 \in T
  BY <1>4
<1>6. Holds(Len(q))
  <2>1. Len(q) \in T
    <3> HIDE DEF T
    <3>1. \A k \in 0..Len(q) : k \in T
      BY <1>0, <1>3, <1>5, UpTo
    <3> QED
      BY <1>0, <3>1
  <2> QED
    BY <2>1
<1>7. Before(Len(q)) = Range(q)
  BY <1>0 DEF Range
<1> HIDE DEF Before
<1> QED
  BY <1>1, <1>6, <1>7

GetsInv ==
  /\ TypeOK
  /\ Distinct(high) /\ Distinct(low)
  /\ \A j \in Job : outcome[j] = "waiting" <=>
       (j \in Range(high) \/ j \in Range(low) \/ (run # None /\ run.job = j))
  /\ run # None => run.job \notin Range(high) /\ run.job \notin Range(low)
  /\ run = None => high = <<>> /\ low = <<>>
  /\ armed => run # None /\ run.phase = "wait"
  /\ inFlight # None => run # None /\ run.phase = "wait" /\ run.job = inFlight
  /\ \A j \in aborted : outcome[j] = "rejected" \/
       (run # None /\ run.job = j /\ run.phase = "cancelled")

LEMMA GetsInvInit == Init => GetsInv
<1> SUFFICES ASSUME Init PROVE GetsInv
  OBVIOUS
<1>1. high \in Seq(High) /\ low \in Seq(Low) /\ Range(high) = {} /\ Range(low) = {}
      /\ Distinct(high) /\ Distinct(low)
  BY RangeEmpty DEF Init
<1>2. TypeOK
  BY <1>1 DEF Init, TypeOK
<1> QED
  BY <1>1, <1>2 DEF Init, GetsInv

LEMMA QueueRange ==
  ASSUME NEW S, NEW q \in Seq(S) PROVE Range(q) \subseteq S
BY ElementOfSeq, LenProperties DEF Range

LEMMA StartsAttempt ==
  ASSUME NEW j \in Job, Start(j), cooldown' \in BOOLEAN
  PROVE  /\ run' \in Run /\ run' # None /\ run'.job = j /\ run'.phase = "wait"
         /\ armed' = TRUE /\ inFlight' = j
<1>1. MaxAttempts[j] \in Nat /\ 1 \in Nat
  BY AttemptsAssumption
<1>2. run' = [job |-> j, attempt |-> 1, phase |-> "wait",
              attempts |-> IF cooldown' THEN 1 ELSE MaxAttempts[j]]
      /\ armed' = TRUE /\ inFlight' = j
  BY DEF Start
<1>3. run' \in Run
  BY <1>1, <1>2 DEF Run, Phase
<1> QED
  BY <1>2, <1>3, IdleAssumption

\* The pump takes the next job from the queues h and l, which hold all that waits.
LEMMA Pumps ==
  ASSUME NEW h \in Seq(High), NEW l \in Seq(Low), Distinct(h), Distinct(l),
         PumpNext(h, l), armed = FALSE, inFlight = None,
         outcome' \in [Job -> {"new", "waiting", "resolved", "rejected"}],
         \A j \in Job : outcome'[j] = "waiting" <=> (j \in Range(h) \/ j \in Range(l)),
         aborted' \subseteq Job, \A j \in aborted' : outcome'[j] = "rejected",
         orphans' \in [Job -> Nat], cooldown' \in BOOLEAN, conn' \in {"none", "open"}
  PROVE  GetsInv'
<1>0. Range(h) \subseteq High /\ Range(l) \subseteq Low
  BY QueueRange
<1>1. CASE h # <<>>
  <2>1. Start(Head(h)) /\ high' = Tail(h) /\ low' = l
    BY <1>1 DEF PumpNext
  <2>2. /\ Head(h) \in High /\ Tail(h) \in Seq(High) /\ Distinct(Tail(h))
        /\ Range(Tail(h)) = Range(h) \ {Head(h)} /\ Head(h) \in Range(h)
    BY <1>1, HeadTail, TailDistinct, RangeHeadTail
  <2>3. Head(h) \notin Range(l) /\ Head(h) \in Job
    BY <1>0, <2>2, PriorityAssumption DEF Job
  <2>4. /\ run' \in Run /\ run' # None /\ run'.job = Head(h) /\ run'.phase = "wait"
        /\ armed' = TRUE /\ inFlight' = Head(h)
    BY <2>1, <2>3, StartsAttempt
  <2>5. TypeOK'
    BY <2>1, <2>2, <2>3, <2>4 DEF TypeOK
  <2> QED
    BY <2>1, <2>2, <2>3, <2>4, <2>5 DEF GetsInv
<1>2. CASE h = <<>> /\ l # <<>>
  <2>1. Start(Head(l)) /\ high' = h /\ low' = Tail(l)
    BY <1>2 DEF PumpNext
  <2>2. /\ Head(l) \in Low /\ Tail(l) \in Seq(Low) /\ Distinct(Tail(l))
        /\ Range(Tail(l)) = Range(l) \ {Head(l)} /\ Head(l) \in Range(l)
    BY <1>2, HeadTail, TailDistinct, RangeHeadTail
  <2>3. Head(l) \notin Range(h) /\ Head(l) \in Job
    BY <1>0, <2>2, PriorityAssumption DEF Job
  <2>4. /\ run' \in Run /\ run' # None /\ run'.job = Head(l) /\ run'.phase = "wait"
        /\ armed' = TRUE /\ inFlight' = Head(l)
    BY <2>1, <2>3, StartsAttempt
  <2>5. TypeOK'
    BY <2>1, <2>2, <2>3, <2>4 DEF TypeOK
  <2> QED
    BY <2>1, <2>2, <2>3, <2>4, <2>5 DEF GetsInv
<1>3. CASE h = <<>> /\ l = <<>>
  <2>1. /\ run' = None /\ high' = <<>> /\ low' = <<>>
        /\ armed' = FALSE /\ inFlight' = None
    BY <1>3 DEF PumpNext
  <2>2. TypeOK'
    BY <1>3, <2>1 DEF TypeOK
  <2> QED
    BY <1>3, <2>1, <2>2, RangeEmpty DEF GetsInv
<1> QED
  BY <1>1, <1>2, <1>3

\* The job in the pump's hands stays, and so do the queues and the outcomes.
LEMMA Stays ==
  ASSUME GetsInv, UNCHANGED <<high, low, outcome>>,
         run # None, run' \in Run, run'.job = run.job,
         armed' \in BOOLEAN, armed' => run'.phase = "wait",
         inFlight' \in {run.job, None}, inFlight' # None => run'.phase = "wait",
         aborted' \subseteq Job,
         \A j \in aborted' : outcome[j] = "rejected" \/ (run.job = j /\ run'.phase = "cancelled"),
         orphans' \in [Job -> Nat], cooldown' \in BOOLEAN, conn' \in {"none", "open"}
  PROVE  GetsInv'
<1>1. run \in Run /\ run.job \in Job /\ run' # None
  BY IdleAssumption DEF GetsInv, TypeOK, Run
<1>2. TypeOK'
  BY <1>1 DEF GetsInv, TypeOK
<1> QED
  BY <1>1, <1>2 DEF GetsInv

LEMMA RunIs ==
  ASSUME GetsInv, run # None
  PROVE  /\ run \in Run /\ run.job \in Job /\ run.attempt \in Nat /\ outcome[run.job] = "waiting"
         /\ \A how \in Phase : /\ [run EXCEPT !.phase = how] \in Run
                               /\ [run EXCEPT !.phase = how].job = run.job
                               /\ [run EXCEPT !.phase = how].phase = how
BY DEF GetsInv, TypeOK, Run

LEMMA EnqueueStep == ASSUME GetsInv, NEW j \in Job, Enqueue(j) PROVE GetsInv'
<1>0. /\ outcome[j] = "new" /\ outcome' = [outcome EXCEPT ![j] = "waiting"]
      /\ UNCHANGED <<aborted, cooldown>> /\ TypeOK
  BY DEF Enqueue, Settle, GetsInv
<1>1. /\ outcome' \in [Job -> {"new", "waiting", "resolved", "rejected"}]
      /\ \A k \in Job : outcome'[k] = IF k = j THEN "waiting" ELSE outcome[k]
      /\ high \in Seq(High) /\ low \in Seq(Low) /\ aborted' \subseteq Job
  BY <1>0 DEF TypeOK
<1>2. j \notin Range(high) /\ j \notin Range(low) /\ (run # None => run.job # j)
  BY <1>0 DEF GetsInv
<1>3. j \notin aborted
  <2>1. run # None => outcome[run.job] = "waiting"
    BY RunIs
  <2> QED
    BY <1>0, <2>1 DEF GetsInv
<1>4. CASE run = None
  <2> DEFINE h == IF j \in High THEN <<j>> ELSE <<>>
             l == IF j \in Low THEN <<j>> ELSE <<>>
  <2>1. PumpNext(h, l) /\ UNCHANGED <<orphans, conn>>
    BY <1>4 DEF Enqueue
  <2>2. /\ h \in Seq(High) /\ l \in Seq(Low) /\ Distinct(h) /\ Distinct(l)
        /\ Range(h) \cup Range(l) = {j}
    <3>1. <<j>> = Append(<<>>, j) /\ \A S : <<>> \in Seq(S)
      OBVIOUS
    <3>2. Distinct(<<j>>)
      BY <3>1 DEF Distinct
    <3>3. Range(<<j>>) = {j}
      BY DEF Range
    <3> QED
      BY <3>1, <3>2, <3>3, RangeEmpty DEF Job
  <2>3. \A k \in Job : outcome[k] # "waiting"
    BY <1>4, RangeEmpty DEF GetsInv
  <2>4. armed = FALSE /\ inFlight = None
    BY <1>0, <1>4 DEF GetsInv, TypeOK
  <2>5. \A k \in aborted' : outcome'[k] = "rejected"
    BY <1>0, <1>1, <1>3, <1>4 DEF GetsInv, TypeOK
  <2>6. orphans' \in [Job -> Nat] /\ cooldown' \in BOOLEAN /\ conn' \in {"none", "open"}
    BY <1>0, <2>1 DEF TypeOK
  <2>7. \A k \in Job : outcome'[k] = "waiting" <=> (k \in Range(h) \/ k \in Range(l))
    BY <1>1, <2>2, <2>3
  <2> HIDE DEF h, l
  <2> QED
    BY <1>1, <2>1, <2>2, <2>4, <2>5, <2>6, <2>7, Pumps
<1>5. CASE run # None /\ j \in High
  <2>1. high' = Append(high, j) /\ UNCHANGED low
    BY <1>5, PriorityAssumption DEF Enqueue
  <2>2. /\ high' \in Seq(High) /\ Range(high') = Range(high) \cup {j} /\ Distinct(high')
    <3>1. \A i \in DOMAIN high : high[i] # j
      BY <1>2, InRange
    <3>2. Distinct(high)
      BY DEF GetsInv
    <3> QED
      BY <1>1, <1>5, <2>1, <3>1, <3>2, AppendProperties, AppendDistinct, RangeAppend
  <2>3. /\ run' \in Run /\ run' # None /\ run'.job = run.job /\ armed' \in BOOLEAN
        /\ armed' => run'.phase = "wait"
        /\ inFlight' # None => inFlight' = run.job /\ run'.phase = "wait"
        /\ run.phase = "cancelled" => run'.phase = "cancelled"
        /\ orphans' \in [Job -> Nat] /\ conn' \in {"none", "open"}
    <3>1. CASE armed /\ inFlight \in Low
      <4>1. CancelAttempt("preempted")
        BY <1>5, <3>1, PriorityAssumption DEF Enqueue
      <4>2. run.phase = "wait" /\ "preempted" \in Phase
        BY <3>1 DEF GetsInv, Phase
      <4>3. run' = [run EXCEPT !.phase = "preempted"] /\ armed' = FALSE /\ inFlight' = None
            /\ conn' = "none"
        BY <4>1 DEF CancelAttempt
      <4>4. orphans' \in [Job -> Nat]
        BY <1>0, <3>1, <4>1 DEF CancelAttempt, TypeOK, Job
      <4>5. run' \in Run /\ run'.job = run.job
        BY <1>5, <4>2, <4>3, RunIs
      <4> QED
        BY <4>2, <4>3, <4>4, <4>5, IdleAssumption
    <3>2. CASE ~(armed /\ inFlight \in Low)
      <4>1. UNCHANGED <<run, armed, inFlight, orphans, conn>>
        BY <1>5, <3>2, PriorityAssumption DEF Enqueue
      <4> QED
        BY <1>0, <1>5, <4>1, RunIs DEF GetsInv, TypeOK
    <3> QED
      BY <3>1, <3>2
  <2>4. TypeOK'
    BY <1>0, <1>1, <1>5, <2>1, <2>2, <2>3, RunIs DEF TypeOK
  <2>5. \A k \in aborted' : k \in Job /\ outcome'[k] = outcome[k]
    BY <1>0, <1>1, <1>3 DEF TypeOK
  <2> QED
    BY <1>0, <1>1, <1>2, <1>5, <2>1, <2>2, <2>3, <2>4, <2>5, RunIs DEF GetsInv
<1>6. CASE run # None /\ j \in Low
  <2>1. low' = Append(low, j) /\ UNCHANGED <<high, run, armed, inFlight, orphans, conn>>
    BY <1>6, PriorityAssumption DEF Enqueue
  <2>2. /\ low' \in Seq(Low) /\ Range(low') = Range(low) \cup {j} /\ Distinct(low')
    <3>1. \A i \in DOMAIN low : low[i] # j
      BY <1>2, InRange
    <3>2. Distinct(low)
      BY DEF GetsInv
    <3> QED
      BY <1>1, <1>6, <2>1, <3>1, <3>2, AppendProperties, AppendDistinct, RangeAppend
  <2>3. TypeOK'
    BY <1>0, <1>1, <2>1, <2>2 DEF TypeOK
  <2>4. \A k \in aborted' : k \in Job /\ outcome'[k] = outcome[k]
    BY <1>0, <1>1, <1>3 DEF TypeOK
  <2> QED
    BY <1>0, <1>1, <1>2, <1>6, <2>1, <2>2, <2>3, <2>4, RunIs DEF GetsInv
<1> QED
  BY <1>4, <1>5, <1>6 DEF Job

\* Steps that leave the pump's job, the queues and the outcomes as they are.
LEMMA SocketSteps ==
  ASSUME GetsInv, Connect \/ Drop \/ CooldownEnds PROVE GetsInv'
<1>1. /\ UNCHANGED <<high, low, run, armed, inFlight, aborted, outcome, orphans>>
      /\ cooldown' \in BOOLEAN /\ conn' \in {"none", "open"}
  BY DEF Connect, Drop, CooldownEnds, GetsInv, TypeOK
<1>2. TypeOK'
  BY <1>1 DEF GetsInv, TypeOK
<1> QED
  BY <1>1, <1>2 DEF GetsInv

LEMMA AttemptEndsStep ==
  ASSUME GetsInv, NEW how \in Failure \cup {"ok"}, AttemptEnds(how) PROVE GetsInv'
<1>1. /\ run # None /\ run.phase = "wait" /\ run' = [run EXCEPT !.phase = how] /\ armed' = FALSE
      /\ UNCHANGED <<high, low, aborted, outcome, orphans, cooldown>>
      /\ inFlight' = IF inFlight = run.job THEN None ELSE inFlight
      /\ conn' = IF how = "hard" THEN "none" ELSE conn
  BY DEF AttemptEnds
<1>2. run' \in Run /\ run'.job = run.job
  BY <1>1, RunIs DEF Phase
<1>3. inFlight' = None
  BY <1>1 DEF GetsInv
<1>4. /\ aborted' \subseteq Job /\ orphans' \in [Job -> Nat] /\ cooldown' \in BOOLEAN
      /\ conn' \in {"none", "open"}
  BY <1>1 DEF GetsInv, TypeOK
<1>5. \A j \in aborted' : outcome[j] = "rejected"
  BY <1>1 DEF GetsInv
<1> QED
  BY <1>1, <1>2, <1>3, <1>4, <1>5, Stays

LEMMA OrphanEndsStep ==
  ASSUME GetsInv, NEW j \in Job, OrphanEnds(j) PROVE GetsInv'
<1>1. /\ orphans[j] > 0 /\ orphans' = [orphans EXCEPT ![j] = orphans[j] - 1]
      /\ inFlight' = IF inFlight = j THEN None ELSE inFlight
      /\ UNCHANGED <<high, low, run, armed, aborted, outcome, cooldown, conn>>
  BY DEF OrphanEnds
<1>2. orphans' \in [Job -> Nat]
  <2>1. orphans \in [Job -> Nat]
    BY DEF GetsInv, TypeOK
  <2>2. orphans[j] - 1 \in Nat
    BY <1>1, <2>1
  <2> QED
    BY <1>1, <2>1, <2>2
<1>3. TypeOK'
  BY <1>1, <1>2 DEF GetsInv, TypeOK
<1>4. inFlight' # None => inFlight' = inFlight
  BY <1>1
<1> QED
  BY <1>1, <1>3, <1>4 DEF GetsInv

\* The pump's job is settled, and the next one starts.
LEMMA SettledPumps ==
  ASSUME GetsInv, run # None, run.phase # "wait", NEW how \in {"resolved", "rejected"},
         run.phase = "cancelled" => how = "rejected",
         Settle(run.job, how), PumpNext(high, low), UNCHANGED <<aborted, orphans>>,
         cooldown' \in BOOLEAN, conn' \in {"none", "open"}
  PROVE  GetsInv'
<1>0. run.job \in Job /\ outcome[run.job] = "waiting" /\ TypeOK
  BY RunIs DEF GetsInv
<1>1. /\ outcome' \in [Job -> {"new", "waiting", "resolved", "rejected"}]
      /\ \A k \in Job : outcome'[k] = IF k = run.job THEN how ELSE outcome[k]
  BY <1>0 DEF Settle, TypeOK
<1>2. \A k \in Job : outcome'[k] = "waiting" <=> (k \in Range(high) \/ k \in Range(low))
  BY <1>0, <1>1 DEF GetsInv
<1>3. armed = FALSE /\ inFlight = None
  BY <1>0 DEF GetsInv, TypeOK
<1>4. \A k \in aborted' : outcome'[k] = "rejected"
  BY <1>0, <1>1 DEF GetsInv, TypeOK
<1>5. /\ high \in Seq(High) /\ low \in Seq(Low) /\ Distinct(high) /\ Distinct(low)
      /\ aborted' \subseteq Job /\ orphans' \in [Job -> Nat]
  BY <1>0 DEF GetsInv, TypeOK
<1> QED
  BY <1>1, <1>2, <1>3, <1>4, <1>5, Pumps

LEMMA RequeueStep == ASSUME GetsInv, Requeue PROVE GetsInv'
<1>0. /\ run # None /\ run.phase = "preempted" /\ run.job \in Low /\ TypeOK
      /\ UNCHANGED <<aborted, outcome, orphans, cooldown, conn>>
      /\ PumpNext(high, <<run.job>> \o low)
  BY DEF Requeue, GetsInv
<1> DEFINE l == <<run.job>> \o low
<1>1. l \in Seq(Low) /\ Distinct(l) /\ Range(l) = {run.job} \cup Range(low)
  BY <1>0, PutFirst DEF GetsInv, TypeOK
<1>2. armed = FALSE /\ inFlight = None
  BY <1>0 DEF GetsInv, TypeOK
<1>3. \A k \in Job : outcome'[k] = "waiting" <=> (k \in Range(high) \/ k \in Range(l))
  BY <1>0, <1>1 DEF GetsInv
<1>4. \A k \in aborted' : outcome'[k] = "rejected"
  BY <1>0 DEF GetsInv
<1>5. /\ high \in Seq(High) /\ Distinct(high)
      /\ outcome' \in [Job -> {"new", "waiting", "resolved", "rejected"}]
      /\ aborted' \subseteq Job /\ orphans' \in [Job -> Nat]
      /\ cooldown' \in BOOLEAN /\ conn' \in {"none", "open"}
  BY <1>0 DEF GetsInv, TypeOK
<1>6. PumpNext(high, l)
  BY <1>0
<1> HIDE DEF l
<1> QED
  BY <1>1, <1>2, <1>3, <1>4, <1>5, <1>6, Pumps

LEMMA ContinueStep == ASSUME GetsInv, PumpContinues PROVE GetsInv'
<1>0. TypeOK
  BY DEF GetsInv
<1>1. CASE Resolve
  <2>1. /\ run # None /\ run.phase = "ok" /\ Settle(run.job, "resolved") /\ PumpNext(high, low)
        /\ UNCHANGED <<aborted, orphans, cooldown, conn>>
    BY <1>1 DEF Resolve
  <2>2. cooldown' \in BOOLEAN /\ conn' \in {"none", "open"}
    BY <1>0, <2>1 DEF TypeOK
  <2> QED
    BY <2>1, <2>2, SettledPumps
<1>2. CASE Requeue
  BY <1>2, RequeueStep
<1>3. CASE RejectCancelled
  <2>1. /\ run # None /\ run.phase = "cancelled" /\ Settle(run.job, "rejected") /\ PumpNext(high, low)
        /\ UNCHANGED <<aborted, orphans, cooldown, conn>>
    BY <1>3 DEF RejectCancelled
  <2>2. cooldown' \in BOOLEAN /\ conn' \in {"none", "open"}
    BY <1>0, <2>1 DEF TypeOK
  <2> QED
    BY <2>1, <2>2, SettledPumps
<1>4. CASE Reject
  <2>1. /\ run # None /\ run.phase \in Failure /\ Settle(run.job, "rejected") /\ PumpNext(high, low)
        /\ UNCHANGED <<aborted, orphans>> /\ ResetAfter(run.job, run.phase)
        /\ cooldown' = (cooldown \/ run.phase = "connect")
    BY <1>4 DEF Reject
  <2>2. cooldown' \in BOOLEAN /\ conn' \in {"none", "open"}
    BY <1>0, <2>1 DEF TypeOK, ResetAfter
  <2>3. run.phase # "wait" /\ run.phase # "cancelled"
    BY <2>1 DEF Failure
  <2> QED
    BY <2>1, <2>2, <2>3, SettledPumps
<1>5. CASE Backoff
  <2>1. /\ run # None /\ run.phase \in Failure /\ ResetAfter(run.job, run.phase)
        /\ run' = [run EXCEPT !.phase = "backoff"]
        /\ UNCHANGED <<high, low, armed, inFlight, aborted, outcome, orphans, cooldown>>
    BY <1>5 DEF Backoff
  <2>2. run' \in Run /\ run'.job = run.job
    BY <2>1, RunIs DEF Phase
  <2>3. run.phase # "wait" /\ run.phase # "cancelled"
    BY <2>1 DEF Failure
  <2>4. armed' = FALSE /\ inFlight' = None
    BY <1>0, <2>1, <2>3 DEF GetsInv, TypeOK
  <2>5. /\ aborted' \subseteq Job /\ orphans' \in [Job -> Nat] /\ cooldown' \in BOOLEAN
        /\ conn' \in {"none", "open"}
    BY <1>0, <2>1 DEF TypeOK, ResetAfter
  <2>6. \A j \in aborted' : outcome[j] = "rejected"
    BY <2>1, <2>3 DEF GetsInv
  <2> QED
    BY <2>1, <2>2, <2>4, <2>5, <2>6, Stays
<1>6. CASE Retry
  <2>1. /\ run # None /\ run.phase = "backoff"
        /\ UNCHANGED <<high, low, aborted, outcome, orphans, cooldown, conn>>
    BY <1>6 DEF Retry
  <2>2. /\ aborted' \subseteq Job /\ orphans' \in [Job -> Nat] /\ cooldown' \in BOOLEAN
        /\ conn' \in {"none", "open"} /\ \A j \in aborted' : outcome[j] = "rejected"
    BY <1>0, <2>1 DEF GetsInv, TypeOK
  <2>3. CASE run.job \in aborted
    <3>1. run' = [run EXCEPT !.phase = "cancelled"] /\ UNCHANGED <<armed, inFlight>>
      BY <1>6, <2>3 DEF Retry
    <3>2. run' \in Run /\ run'.job = run.job /\ run'.phase = "cancelled"
      BY <2>1, <3>1, RunIs DEF Phase
    <3>3. armed' = FALSE /\ inFlight' = None
      BY <1>0, <2>1, <3>1 DEF GetsInv, TypeOK
    <3> QED
      BY <2>1, <2>2, <3>2, <3>3, Stays
  <2>4. CASE run.job \notin aborted
    <3>1. /\ run' = [run EXCEPT !.phase = "wait", !.attempt = run.attempt + 1]
          /\ armed' = TRUE /\ inFlight' = run.job
      BY <1>6, <2>4 DEF Retry
    <3> DEFINE r == [run EXCEPT !.phase = "wait"]
    <3>2. /\ r \in Run /\ r.job = run.job /\ r.phase = "wait" /\ run.attempt + 1 \in Nat
          /\ run' = [r EXCEPT !.attempt = run.attempt + 1]
      BY <2>1, <3>1, RunIs DEF Phase
    <3> HIDE DEF r
    <3>3. run' \in Run /\ run'.job = run.job /\ run'.phase = "wait"
      BY <3>2 DEF Run
    <3> QED
      BY <2>1, <2>2, <3>1, <3>3, Stays
  <2> QED
    BY <2>3, <2>4
<1> QED
  BY <1>1, <1>2, <1>3, <1>4, <1>5, <1>6 DEF PumpContinues

LEMMA AbortStep == ASSUME GetsInv, NEW s, Abort(s) PROVE GetsInv'
<1> DEFINE queued == {j \in Range(high) \cup Range(low) : Matches(j, s)}
           kill == armed /\ inFlight # None /\ Matches(inFlight, s)
<1>0. /\ TypeOK /\ high \in Seq(High) /\ low \in Seq(Low) /\ Distinct(high) /\ Distinct(low)
      /\ Range(high) \subseteq Job /\ Range(low) \subseteq Job
  BY QueueRange DEF GetsInv, TypeOK, Job
<1>1. /\ high' = Drain(high, queued) /\ low' = Drain(low, queued) /\ cooldown' = cooldown
      /\ outcome' = [j \in Job |-> IF j \in queued THEN "rejected" ELSE outcome[j]]
  BY DEF Abort
<1>2. /\ high' \in Seq(High) /\ Range(high') = Range(high) \ queued /\ Distinct(high')
      /\ low' \in Seq(Low) /\ Range(low') = Range(low) \ queued /\ Distinct(low')
  <2> HIDE DEF queued
  <2> QED
    BY <1>0, <1>1, DrainFacts
<1>3. /\ run # None => run.job \notin queued
      /\ queued \subseteq Job
  BY <1>0 DEF GetsInv
<1>4. /\ run' \in Run \cup {None} /\ (run' = None <=> run = None)
      /\ run # None => run'.job = run.job
      /\ armed' \in BOOLEAN /\ orphans' \in [Job -> Nat] /\ conn' \in {"none", "open"}
      /\ armed' => run # None /\ run'.phase = "wait"
      /\ inFlight' # None => run # None /\ run'.phase = "wait" /\ run.job = inFlight'
      /\ inFlight' \in Job \cup {None}
      /\ aborted' \subseteq Job
      /\ \A j \in aborted' : j \in queued \/ (run # None /\ j = run.job /\ run'.phase = "cancelled")
                             \/ outcome[j] = "rejected"
  <2>1. CASE kill
    <3>1. aborted' = aborted \cup queued \cup {inFlight} /\ CancelAttempt("cancelled")
      BY <2>1 DEF Abort
    <3>2. /\ run # None /\ run.phase = "wait" /\ inFlight = run.job /\ run.job \in Job
      BY <2>1, RunIs DEF GetsInv
    <3>3. /\ run' = [run EXCEPT !.phase = "cancelled"] /\ armed' = FALSE /\ inFlight' = None
          /\ conn' = "none" /\ orphans' = [orphans EXCEPT ![inFlight] = orphans[inFlight] + 1]
      BY <3>1 DEF CancelAttempt
    <3>4. run' \in Run /\ run'.job = run.job /\ run'.phase = "cancelled" /\ run' # None
      BY <3>2, <3>3, RunIs, IdleAssumption DEF Phase
    <3>5. orphans' \in [Job -> Nat]
      BY <1>0, <3>2, <3>3 DEF TypeOK
    <3>6. aborted' \subseteq Job
      BY <1>0, <1>3, <3>1, <3>2 DEF TypeOK
    <3>7. \A j \in aborted : outcome[j] = "rejected"
      BY <3>2 DEF GetsInv
    <3> QED
      BY <3>1, <3>2, <3>3, <3>4, <3>5, <3>6, <3>7
  <2>2. CASE ~kill
    <3>1. /\ aborted' = aborted \cup queued /\ UNCHANGED <<run, armed, inFlight, orphans>>
          /\ conn' = IF s = None THEN "none" ELSE conn
      BY <2>2 DEF Abort
    <3> HIDE DEF queued, kill
    <3> QED
      BY <1>0, <1>3, <3>1 DEF GetsInv, TypeOK
  <2> QED
    BY <2>1, <2>2
<1>5. \A j \in Job : outcome'[j] = IF j \in queued THEN "rejected" ELSE outcome[j]
  BY <1>1
<1>6. queued \subseteq Range(high) \cup Range(low)
  OBVIOUS
<1> HIDE DEF queued, kill
<1>7. TypeOK'
  <2>1. outcome' \in [Job -> {"new", "waiting", "resolved", "rejected"}]
    BY <1>0, <1>1 DEF TypeOK
  <2> QED
    BY <1>0, <1>1, <1>2, <1>4, <2>1 DEF TypeOK
<1>8. \A j \in Job : outcome'[j] = "waiting" <=>
        (j \in Range(high') \/ j \in Range(low') \/ (run' # None /\ run'.job = j))
  BY <1>2, <1>3, <1>4, <1>5 DEF GetsInv
<1>9. run' = None => high' = <<>> /\ low' = <<>>
  <2> SUFFICES ASSUME run' = None PROVE high' = <<>> /\ low' = <<>>
    OBVIOUS
  <2>1. Range(high') = {} /\ Range(low') = {}
    BY <1>2, <1>4, RangeEmpty DEF GetsInv
  <2>2. ASSUME NEW S, NEW q \in Seq(S), Range(q) = {} PROVE q = <<>>
    BY <2>2, HeadTail, InRange
  <2> QED
    BY <1>2, <2>1, <2>2
<1>10. \A j \in aborted' : outcome'[j] = "rejected" \/
         (run' # None /\ run'.job = j /\ run'.phase = "cancelled")
  BY <1>4, <1>5
<1> QED
  BY <1>2, <1>3, <1>4, <1>7, <1>8, <1>9, <1>10 DEF GetsInv

LEMMA FlushStep == ASSUME GetsInv, Flush PROVE GetsInv'
<1>1. /\ low' = <<>> /\ aborted' = aborted \cup Range(low)
      /\ outcome' = [j \in Job |-> IF j \in Range(low) THEN "rejected" ELSE outcome[j]]
      /\ UNCHANGED <<high, run, armed, inFlight, orphans, cooldown, conn>>
  BY DEF Flush
<1>2. Range(low) \subseteq Job /\ TypeOK
  BY QueueRange DEF GetsInv, TypeOK, Job
<1>3. \A j \in Job : outcome'[j] = IF j \in Range(low) THEN "rejected" ELSE outcome[j]
  BY <1>1
<1>4. TypeOK'
  <2>1. <<>> \in Seq(Low)
    OBVIOUS
  <2>2. outcome' \in [Job -> {"new", "waiting", "resolved", "rejected"}]
    BY <1>1, <1>2 DEF TypeOK
  <2> QED
    BY <1>1, <1>2, <2>1, <2>2 DEF TypeOK
<1>5. Range(high) \cap Range(low) = {}
  BY <1>2, QueueRange, PriorityAssumption DEF TypeOK
<1>6. \A j \in Job : outcome'[j] = "waiting" <=>
        (j \in Range(high') \/ j \in Range(low') \/ (run' # None /\ run'.job = j))
  BY <1>1, <1>3, <1>5, RangeEmpty DEF GetsInv
<1>7. \A j \in aborted' : outcome'[j] = "rejected" \/
        (run' # None /\ run'.job = j /\ run'.phase = "cancelled")
  BY <1>1, <1>2, <1>3 DEF GetsInv, TypeOK
<1> QED
  BY <1>1, <1>4, <1>6, <1>7, RangeEmpty DEF GetsInv

LEMMA GetsInvStep == GetsInv /\ [Next]_vars => GetsInv'
<1> SUFFICES ASSUME GetsInv, [Next]_vars PROVE GetsInv'
  OBVIOUS
<1>1. CASE \E j \in Job : Enqueue(j) \/ OrphanEnds(j)
  BY <1>1, EnqueueStep, OrphanEndsStep
<1>2. CASE Connect \/ Drop \/ CooldownEnds
  BY <1>2, SocketSteps
<1>3. CASE \E how \in Failure \cup {"ok"} : AttemptEnds(how)
  BY <1>3, AttemptEndsStep
<1>4. CASE PumpContinues
  BY <1>4, ContinueStep
<1>5. CASE \E s \in Scopes : Abort(s)
  BY <1>5, AbortStep
<1>6. CASE Flush
  BY <1>6, FlushStep
<1>7. CASE UNCHANGED vars
  BY <1>7 DEF vars, GetsInv, TypeOK
<1> QED
  BY <1>1, <1>2, <1>3, <1>4, <1>5, <1>6, <1>7 DEF Next

LEMMA GetsInvAlways == Spec => []GetsInv
BY GetsInvInit, GetsInvStep, PTL DEF Spec

\* The state of the pump is well formed, for any GETs, groups and limits.
THEOREM GetsTypeCorrect == Spec => []TypeOK
<1>1. GetsInv => TypeOK
  BY DEF GetsInv
<1> QED
  BY <1>1, GetsInvAlways, PTL

\* The cancel handle is that of the attempt under way: whatever cancels, cancels
\* that attempt, also while bodies of cancelled attempts still run.
THEOREM HandleIsOfAttemptAlways == Spec => []HandleIsOfAttempt
<1>1. GetsInv => HandleIsOfAttempt
  BY DEF GetsInv, HandleIsOfAttempt
<1> QED
  BY <1>1, GetsInvAlways, PTL

LEMMA GetsNotAnswered == GetsInv => AbortedNotAnswered
<1> SUFFICES ASSUME GetsInv, NEW j \in aborted PROVE outcome[j] # "resolved"
  BY DEF AbortedNotAnswered
<1>1. CASE run # None /\ run.job = j
  BY <1>1, RunIs
<1>2. CASE ~(run # None /\ run.job = j)
  BY <1>2 DEF GetsInv
<1> QED
  BY <1>1, <1>2

\* A GET that abortContractGets cancelled is never answered.
THEOREM AbortedNotAnsweredAlways == Spec => []AbortedNotAnswered
BY GetsNotAnswered, GetsInvAlways, PTL

\* How often a job stands in a queue without repetitions.
LEMMA TimesInQueue ==
  ASSUME NEW S, NEW q \in Seq(S), Distinct(q), NEW j
  PROVE  Cardinality({i \in DOMAIN q : q[i] = j}) = IF j \in Range(q) THEN 1 ELSE 0
<1>1. CASE j \in Range(q)
  <2>1. PICK i \in DOMAIN q : q[i] = j
    BY <1>1, InRange
  <2>2. {k \in DOMAIN q : q[k] = j} = {i}
    BY <2>1 DEF Distinct
  <2> QED
    BY <1>1, <2>2, FS_Singleton
<1>2. CASE j \notin Range(q)
  <2>1. {k \in DOMAIN q : q[k] = j} = {}
    BY <1>2, InRange
  <2> QED
    BY <1>2, <2>1, FS_EmptySet
<1> QED
  BY <1>1, <1>2

LEMMA GetsNotLost == GetsInv => NoGetLost
<1> SUFFICES ASSUME GetsInv, NEW j \in Job
             PROVE  Places(j)["high"] + Places(j)["low"] + Places(j)["run"] =
                      IF outcome[j] = "waiting" THEN 1 ELSE 0
  BY DEF NoGetLost
<1>1. high \in Seq(High) /\ low \in Seq(Low) /\ Distinct(high) /\ Distinct(low)
  BY DEF GetsInv, TypeOK
<1>2. Places(j)["high"] = IF j \in Range(high) THEN 1 ELSE 0
  BY <1>1, TimesInQueue DEF Places
<1>3. Places(j)["low"] = IF j \in Range(low) THEN 1 ELSE 0
  BY <1>1, TimesInQueue DEF Places
<1>4. Places(j)["run"] = IF run # None /\ run.job = j THEN 1 ELSE 0
  BY DEF Places
<1>5. ~(j \in Range(high) /\ j \in Range(low))
  BY <1>1, QueueRange, PriorityAssumption
<1>6. run # None /\ run.job = j => j \notin Range(high) /\ j \notin Range(low)
  BY DEF GetsInv
<1>7. outcome[j] = "waiting" <=>
        (j \in Range(high) \/ j \in Range(low) \/ (run # None /\ run.job = j))
  BY DEF GetsInv
<1> QED
  BY <1>2, <1>3, <1>4, <1>5, <1>6, <1>7

\* Every GET that waits is in exactly one place, and every other in none:
\* preemption, abort, flush and failure lose no GET and serve none twice.
THEOREM NoGetLostAlways == Spec => []NoGetLost
BY GetsNotLost, GetsInvAlways, PTL

\* While a high GET waits the pump leaves the low queue alone.
LEMMA PumpSparesLow ==
  ASSUME NEW l, PumpNext(high, l), Range(low) \subseteq Range(l),
         NEW j \in Range(low), j \notin Range(low')
  PROVE  high = <<>>
BY DEF PumpNext

\* What HighServedFirst says of a step.
Spared == \A j \in Low : (j \in Range(low) /\ j \notin Range(low') /\ outcome'[j] = "waiting")
                            => high = <<>>

LEMMA LowSpared == GetsInv /\ [Next]_vars => Spared
<1> SUFFICES ASSUME GetsInv, [Next]_vars, NEW j \in Low, j \in Range(low), j \notin Range(low'),
                    outcome'[j] = "waiting"
             PROVE  high = <<>>
  BY DEF Spared
<1>0. low \in Seq(Low) /\ Distinct(low) /\ j \in Job
  BY DEF GetsInv, TypeOK, Job
<1>1. ASSUME NEW k \in Job, Enqueue(k) PROVE high = <<>>
  <2>1. CASE run = None
    BY <2>1 DEF GetsInv
  <2>2. CASE run # None /\ k \in High
    BY <1>1, <2>2, PriorityAssumption DEF Enqueue
  <2>3. CASE run # None /\ k \in Low
    <3>1. low' = Append(low, k)
      BY <1>1, <2>3, PriorityAssumption DEF Enqueue
    <3>2. Range(low') = Range(low) \cup {k}
      BY <1>0, <2>3, <3>1, RangeAppend
    <3> QED
      BY <3>2
  <2> QED
    BY <2>1, <2>2, <2>3 DEF Job
<1>2. CASE Resolve \/ RejectCancelled \/ Reject
  <2>1. PumpNext(high, low)
    BY <1>2 DEF Resolve, RejectCancelled, Reject
  <2> QED
    BY <2>1, PumpSparesLow
<1>3. CASE Requeue
  <2>1. PumpNext(high, <<run.job>> \o low) /\ run # None /\ run.job \in Low
    BY <1>3 DEF Requeue
  <2>2. Range(<<run.job>> \o low) = {run.job} \cup Range(low)
    <3>1. run.job \notin Range(low)
      BY <2>1 DEF GetsInv
    <3> QED
      BY <1>0, <2>1, <3>1, PutFirst
  <2> QED
    BY <2>1, <2>2, PumpSparesLow
<1>4. ASSUME NEW s, Abort(s) PROVE high = <<>>
  <2> DEFINE queued == {i \in Range(high) \cup Range(low) : Matches(i, s)}
  <2>1. /\ low' = Drain(low, queued)
        /\ outcome' = [i \in Job |-> IF i \in queued THEN "rejected" ELSE outcome[i]]
    BY <1>4 DEF Abort
  <2> HIDE DEF queued
  <2>2. Range(low') = Range(low) \ queued
    BY <1>0, <2>1, DrainFacts
  <2> QED
    BY <1>0, <2>1, <2>2
<1>5. CASE Flush
  <2>1. outcome' = [i \in Job |-> IF i \in Range(low) THEN "rejected" ELSE outcome[i]]
    BY <1>5 DEF Flush
  <2> QED
    BY <1>0, <2>1
<1>6. CASE UNCHANGED low
  BY <1>6
<1>7. ASSUME NEW k \in Job, OrphanEnds(k) PROVE UNCHANGED low
  BY <1>7 DEF OrphanEnds
<1>8. CASE Connect \/ Drop \/ CooldownEnds
  BY <1>6, <1>8 DEF Connect, Drop, CooldownEnds
<1>9. ASSUME NEW how, AttemptEnds(how) PROVE UNCHANGED low
  BY <1>9 DEF AttemptEnds
<1>10. CASE Backoff \/ Retry
  BY <1>6, <1>10 DEF Backoff, Retry
<1>11. CASE UNCHANGED vars
  BY <1>6, <1>11 DEF vars
<1>12. CASE PumpContinues
  BY <1>2, <1>3, <1>10, <1>12 DEF PumpContinues
<1> QED
  BY <1>1, <1>4, <1>5, <1>6, <1>7, <1>8, <1>9, <1>11, <1>12 DEF Next

\* No GET leaves the low queue to be served while a high one waits: the pump
\* takes high ones first and a preempted GET returns to the queue.
THEOREM HighServedFirstAlways == Spec => HighServedFirst
<1>1. Spec => [][Spared]_vars
  BY LowSpared, GetsInvAlways, PTL DEF Spec
<1> QED
  BY <1>1 DEF HighServedFirst, Spared
-----------------------------------------------------------------------------
(***************************************************************************)
(* Tips.  A load that still counts (valid) has read the RepoState as it    *)
(* was after this page's last push, or later; a load that does not was     *)
(* joined before that push, by views that may be shown what it read.       *)
(***************************************************************************)
OnPacks == {"packs", "ready", "full"}

ReadSincePush(l) ==
  /\ load[l].valid /\ load[l].at # 0 => load[l].at >= own
  /\ load[l].step \in OnPacks => load[l].at # 0

JoinedInTime(w) ==
  /\ view[w].step = "wait" => /\ view[w].after <= own
                              /\ load[view[w].on].at = 0 \/ load[view[w].on].at >= view[w].after
  /\ view[w].step = "shown" => view[w].shows >= view[w].after

CachesLive ==
  /\ \A r \in Ref : tips[r] # NoLoad => load[tips[r]].valid
  /\ \A r \in Ref, v \in Version : merged[r][v] # NoLoad => load[merged[r][v]].valid

BrowseInv ==
  /\ BrowseTypeOK
  /\ CachesLive
  /\ own <= version /\ (stateKept # 0 => stateKept >= own)
  /\ \A l \in Load : ReadSincePush(l)
  /\ \A w \in View : JoinedInTime(w)

LEMMA BrowseInvInit == BrowseInit => BrowseInv
<1> SUFFICES ASSUME BrowseInit PROVE BrowseInv
  OBVIOUS
<1>1. MaxVersion \in Nat /\ 1 \in Version /\ 0 \in Version
  BY BrowseAssumption DEF Version
<1>2. load \in [Load -> LoadRecord]
  BY <1>1 DEF BrowseInit, NoTip, LoadRecord, Ref
<1>3. view \in [View -> ViewRecord]
  BY <1>1 DEF BrowseInit, NoView, ViewRecord
<1>4. tips \in [Ref -> Load \cup {NoLoad}] /\ merged \in [Ref -> [Version -> Load \cup {NoLoad}]]
  BY DEF BrowseInit, NoneMerged
<1>5. BrowseTypeOK
  BY <1>1, <1>2, <1>3, <1>4 DEF BrowseInit, BrowseTypeOK, NoView
<1>6. CachesLive
  BY DEF CachesLive, BrowseInit, NoneMerged
<1>7. \A l \in Load : ReadSincePush(l)
  BY DEF ReadSincePush, BrowseInit, NoTip, OnPacks
<1>8. \A w \in View : JoinedInTime(w)
  BY DEF JoinedInTime, BrowseInit, NoView
<1> QED
  BY <1>5, <1>6, <1>7, <1>8 DEF BrowseInv, BrowseInit

\* What most steps do: loads keep their epoch and what they read, caches only
\* lose entries or gain those of a load that counts, views only fail.
SameEpoch ==
  /\ UNCHANGED <<version, own>>
  /\ stateKept' # 0 => stateKept' >= own
  /\ \A k \in Load : /\ load'[k].valid = load[k].valid /\ load'[k].at = load[k].at
                     /\ load'[k].step \in OnPacks => load[k].at # 0
  /\ \A r \in Ref : tips'[r] \in {tips[r], NoLoad}
  /\ \A r \in Ref, v \in Version :
       \/ merged'[r][v] \in {merged[r][v], NoLoad}
       \/ merged'[r][v] \in Load /\ load[merged'[r][v]].valid
  /\ \A w \in View : view'[w] = view[w] \/ view'[w].step = "error"

LEMMA SameEpochStep == BrowseInv /\ BrowseTypeOK' /\ SameEpoch => BrowseInv'
<1> SUFFICES ASSUME BrowseInv, BrowseTypeOK', SameEpoch PROVE BrowseInv'
  OBVIOUS
<1>1. CachesLive'
  <2>1. ASSUME NEW r \in Ref, tips'[r] # NoLoad PROVE load'[tips'[r]].valid
    <3>1. tips'[r] = tips[r] /\ tips[r] \in Load
      BY <2>1 DEF SameEpoch, BrowseInv, BrowseTypeOK
    <3> QED
      BY <2>1, <3>1 DEF SameEpoch, BrowseInv, CachesLive
  <2>2. ASSUME NEW r \in Ref, NEW v \in Version, merged'[r][v] # NoLoad
        PROVE  load'[merged'[r][v]].valid
    <3>1. merged'[r][v] \in Load
      BY <2>2 DEF BrowseTypeOK
    <3>2. load[merged'[r][v]].valid
      BY <2>2 DEF SameEpoch, BrowseInv, CachesLive
    <3> QED
      BY <3>1, <3>2 DEF SameEpoch
  <2> QED
    BY <2>1, <2>2 DEF CachesLive
<1>2. \A l \in Load : ReadSincePush(l)'
  BY DEF SameEpoch, BrowseInv, ReadSincePush
<1>3. \A w \in View : JoinedInTime(w)'
  <2> TAKE w \in View
  <2>1. CASE view'[w].step = "error"
    BY <2>1 DEF JoinedInTime
  <2>2. CASE view'[w] = view[w] /\ view[w].step = "wait"
    <3>1. view[w].on \in Load
      BY <2>2 DEF BrowseInv, BrowseTypeOK, ViewRecord
    <3> QED
      BY <2>2, <3>1 DEF JoinedInTime, SameEpoch, BrowseInv
  <2>3. CASE view'[w] = view[w] /\ view[w].step # "wait"
    BY <2>3 DEF JoinedInTime, BrowseInv
  <2> QED
    BY <2>1, <2>2, <2>3 DEF SameEpoch
<1> QED
  BY <1>1, <1>2, <1>3 DEF BrowseInv, SameEpoch

(***************************************************************************)
(* The steps keep the states well formed.                                  *)
(***************************************************************************)
LEMMA LoadTypes ==
  ASSUME BrowseTypeOK, NEW l \in Load
  PROVE  /\ load[l].ref \in Ref /\ load[l].at \in Version /\ load[l].getting \in Version
         /\ load[l].objects \in Load \cup {NoLoad}
         /\ load[l].have \subseteq Pack /\ load[l].tried \subseteq Pack
         /\ {load[l].valid, load[l].raced, load[l].cut} \subseteq BOOLEAN
         /\ load[l].step \in {"none", "state", "packs", "ready", "full", "failed"}
  BY DEF BrowseTypeOK, LoadRecord

LEMMA PacksInVersion == Pack \subseteq Version /\ Version \ {0} \subseteq Pack
  BY BrowseAssumption DEF Pack, Version

\* What a step does to the loads and the views if they only go on, or fail.
LoadsGoOn ==
  /\ load' \in [Load -> LoadRecord]
  /\ \A k \in Load : /\ load'[k].valid = load[k].valid /\ load'[k].at = load[k].at
                     /\ load'[k].step \in OnPacks => load[k].at # 0

ViewsGoOn ==
  /\ view' \in [View -> ViewRecord]
  /\ \A w \in View : view'[w] = view[w] \/ view'[w].step = "error"

TipsGoOn ==
  /\ tips' \in [Ref -> Load \cup {NoLoad}]
  /\ \A r \in Ref : tips'[r] \in {tips[r], NoLoad}

MergedGoOn ==
  /\ merged' \in [Ref -> [Version -> Load \cup {NoLoad}]]
  /\ \A r \in Ref, v \in Version :
       \/ merged'[r][v] \in {merged[r][v], NoLoad}
       \/ merged'[r][v] \in Load /\ load[merged'[r][v]].valid

LEMMA GoOn ==
  BrowseInv /\ LoadsGoOn /\ ViewsGoOn /\ TipsGoOn /\ MergedGoOn
    /\ packs' \subseteq Pack /\ stateKept' \in Version
    /\ (stateKept' # 0 => stateKept' >= own) /\ UNCHANGED <<version, own, page>>
  => BrowseInv'
<1> SUFFICES ASSUME BrowseInv, LoadsGoOn, ViewsGoOn, TipsGoOn, MergedGoOn,
                    packs' \subseteq Pack, stateKept' \in Version,
                    stateKept' # 0 => stateKept' >= own, UNCHANGED <<version, own, page>>
             PROVE  BrowseInv'
  OBVIOUS
<1>1. \A w \in View : view'[w].step = "wait" => view'[w].on # NoLoad
  BY DEF ViewsGoOn, BrowseInv, BrowseTypeOK
<1>2. BrowseTypeOK'
  BY <1>1 DEF BrowseTypeOK, BrowseInv, LoadsGoOn, ViewsGoOn, TipsGoOn, MergedGoOn
<1>3. SameEpoch
  BY DEF SameEpoch, LoadsGoOn, ViewsGoOn, TipsGoOn, MergedGoOn
<1> QED
  BY <1>2, <1>3, SameEpochStep

\* One load is replaced.
LEMMA LoadGoesOn ==
  ASSUME BrowseInv, NEW l \in Load, NEW x \in LoadRecord, load' = [load EXCEPT ![l] = x],
         x.valid = load[l].valid, x.at = load[l].at, x.step \in OnPacks => x.at # 0
  PROVE  LoadsGoOn
  BY DEF LoadsGoOn, BrowseInv, BrowseTypeOK, ReadSincePush

LEMMA NothingElse ==
  ASSUME BrowseInv
  PROVE  /\ view' = view => ViewsGoOn
         /\ tips' = tips => TipsGoOn
         /\ merged' = merged \/ merged' = NoneMerged => MergedGoOn
         /\ packs' = packs => packs' \subseteq Pack
         /\ stateKept' = stateKept => stateKept' \in Version /\ (stateKept' # 0 => stateKept' >= own)
<1>1. merged' = NoneMerged => MergedGoOn
  BY DEF NoneMerged, MergedGoOn
<1>2. merged' = merged => MergedGoOn
  BY DEF BrowseInv, BrowseTypeOK, MergedGoOn
<1> QED
  BY <1>1, <1>2 DEF BrowseInv, BrowseTypeOK, ViewsGoOn, TipsGoOn

LEMMA RejectGoesOn ==
  ASSUME BrowseInv, NEW l \in Load, RejectLoad(l)
  PROVE  LoadsGoOn /\ ViewsGoOn /\ TipsGoOn
<1> DEFINE x == [NoTip EXCEPT !.ref = load[l].ref, !.step = "failed",
                              !.valid = load[l].valid, !.at = load[l].at]
<1>0. /\ load[l].ref \in Ref /\ load[l].valid \in BOOLEAN /\ load[l].at \in Version
      /\ 0 \in Version /\ NoTip \in LoadRecord
  BY BrowseAssumption DEF BrowseInv, BrowseTypeOK, LoadRecord, NoTip, Version, Ref
<1>1. /\ x \in LoadRecord /\ x.step = "failed"
      /\ x.valid = load[l].valid /\ x.at = load[l].at
  BY <1>0 DEF LoadRecord
<1>2. load' = [load EXCEPT ![l] = x]
  BY DEF RejectLoad
<1> HIDE DEF x
<1>3. LoadsGoOn
  BY <1>1, <1>2, LoadGoesOn DEF OnPacks
<1>4. ViewsGoOn
  BY DEF RejectLoad, ViewsGoOn, BrowseInv, BrowseTypeOK, ViewRecord
<1>5. TipsGoOn
  BY DEF RejectLoad, TipsGoOn, BrowseInv, BrowseTypeOK
<1> QED
  BY <1>3, <1>4, <1>5

LEMMA FailsStep ==
  ASSUME BrowseInv, NEW l \in Load, Fails(l)
  PROVE  BrowseInv'
  BY RejectGoesOn, NothingElse, GoOn DEF Fails

LEMMA StateAnsweredStep ==
  ASSUME BrowseInv, NEW l \in Load, StateAnswered(l)
  PROVE  BrowseInv'
<1>1. CASE ~load[l].valid
  BY <1>1, FailsStep DEF StateAnswered
<1>2. CASE load[l].valid
  <2> DEFINE m == merged[load[l].ref][load[l].at]
             x == [load[l] EXCEPT !.step = IF m = NoLoad THEN "packs" ELSE "full",
                                  !.objects = IF m = NoLoad THEN l ELSE m]
  <2>1. load[l] \in LoadRecord /\ load[l].at \in Version /\ load[l].ref \in Ref
    BY LoadTypes DEF BrowseInv, BrowseTypeOK
  <2>2. m \in Load \cup {NoLoad}
    BY <2>1 DEF BrowseInv, BrowseTypeOK
  <2>3. load' = [load EXCEPT ![l] = x] /\ load[l].at # 0
    BY <1>2 DEF StateAnswered
  <2>4. x \in LoadRecord /\ x.valid = load[l].valid /\ x.at = load[l].at
    <3> HIDE DEF m
    <3> QED
      BY <2>1, <2>2 DEF LoadRecord
  <2>5. stateKept' = load[l].at /\ load[l].at >= own
    BY <1>2, <2>3 DEF StateAnswered, BrowseInv, ReadSincePush
  <2> HIDE DEF x
  <2>6. LoadsGoOn
    BY <2>3, <2>4, LoadGoesOn
  <2> QED
    BY <1>2, <2>1, <2>5, <2>6, NothingElse, GoOn DEF StateAnswered
<1> QED
  BY <1>1, <1>2, LoadTypes DEF BrowseInv

LEMMA GetPackStep ==
  ASSUME BrowseInv, NEW l \in Load, NEW p \in Pack, GetPack(l, p)
  PROVE  BrowseInv'
<1> USE LoadTypes DEF BrowseInv
<1>1. load[l] \in LoadRecord /\ p \in Version
  BY PacksInVersion DEF BrowseTypeOK
<1>2. CASE load' = [load EXCEPT ![l] = [@ EXCEPT !.getting = p]]
           /\ UNCHANGED <<version, stateKept, tips, merged, packs, view, own, page>>
  <2> DEFINE x == [load[l] EXCEPT !.getting = p]
  <2>1. x \in LoadRecord /\ x.valid = load[l].valid /\ x.at = load[l].at /\ x.step = load[l].step
    BY <1>1 DEF LoadRecord
  <2>2. load' = [load EXCEPT ![l] = x] /\ (load[l].step \in OnPacks => load[l].at # 0)
    BY <1>2 DEF ReadSincePush
  <2> HIDE DEF x
  <2>3. LoadsGoOn
    BY <2>1, <2>2, LoadGoesOn
  <2> QED
    BY <1>2, <2>3, NothingElse, GoOn
<1>3. CASE load' = [load EXCEPT ![l] = [@ EXCEPT !.step = "full", !.tried = {}]]
           /\ load[l].step = "ready"
           /\ UNCHANGED <<version, stateKept, tips, merged, packs, view, own, page>>
  <2> DEFINE x == [load[l] EXCEPT !.step = "full", !.tried = {}]
  <2>1. x \in LoadRecord /\ x.valid = load[l].valid /\ x.at = load[l].at
    BY <1>1 DEF LoadRecord
  <2>2. load' = [load EXCEPT ![l] = x] /\ load[l].at # 0
    BY <1>3 DEF ReadSincePush, OnPacks
  <2> HIDE DEF x
  <2>3. LoadsGoOn
    BY <2>1, <2>2, LoadGoesOn
  <2> QED
    BY <1>3, <2>3, NothingElse, GoOn
<1>4. load[l].step \in {"packs", "ready"}
  BY DEF GetPack, Wanted
<1> QED
  BY <1>2, <1>3, <1>4, FailsStep DEF GetPack

\* A pack came, or did not: it has been tried.
LEMMA TriedGoesOn ==
  ASSUME BrowseInv, NEW l \in Load, NEW h \in SUBSET Pack, load[l].getting # 0,
         load' = [load EXCEPT ![l].getting = 0, ![l].cut = FALSE,
                              ![l].tried = @ \cup {load[l].getting}, ![l].have = h]
  PROVE  LoadsGoOn
<1> DEFINE x == [load[l] EXCEPT !.getting = 0, !.cut = FALSE,
                                !.tried = @ \cup {load[l].getting}, !.have = h]
<1>1. load[l] \in LoadRecord /\ load[l].getting \in Pack /\ 0 \in Version
  BY LoadTypes, PacksInVersion, BrowseAssumption DEF BrowseInv, BrowseTypeOK, Version
<1>2. x \in LoadRecord /\ x.valid = load[l].valid /\ x.at = load[l].at /\ x.step = load[l].step
  BY <1>1 DEF LoadRecord
<1>3. load' = [load EXCEPT ![l] = x]
  BY <1>1 DEF LoadRecord, BrowseInv, BrowseTypeOK
<1> HIDE DEF x
<1> QED
  BY <1>2, <1>3, LoadGoesOn DEF BrowseInv, ReadSincePush

LEMMA PackArrivesStep ==
  ASSUME BrowseInv, NEW l \in Load, PackArrives(l)
  PROVE  BrowseInv'
<1>1. load[l].getting \in Pack /\ load[l] \in LoadRecord /\ load[l].have \cup {load[l].getting} \in SUBSET Pack
  BY LoadTypes, PacksInVersion DEF PackArrives, BrowseInv, BrowseTypeOK
<1>2. packs' \subseteq Pack /\ (merged' = merged \/ merged' = NoneMerged)
  BY <1>1 DEF PackArrives, BrowseInv, BrowseTypeOK
<1>3. CASE ~load[l].valid
  BY <1>2, <1>3, RejectGoesOn, NothingElse, GoOn DEF PackArrives
<1>4. CASE load[l].valid
  <2>1. load' = [load EXCEPT ![l].getting = 0, ![l].cut = FALSE,
           ![l].tried = @ \cup {load[l].getting}, ![l].have = load[l].have \cup {load[l].getting}]
    BY <1>1, <1>4 DEF PackArrives, LoadRecord, BrowseInv, BrowseTypeOK
  <2>2. LoadsGoOn
    BY <1>1, <2>1, TriedGoesOn DEF PackArrives
  <2> QED
    BY <1>2, <1>4, <2>2, NothingElse, GoOn DEF PackArrives
<1> QED
  BY <1>3, <1>4

LEMMA PackFailsStep ==
  ASSUME BrowseInv, NEW l \in Load, PackFails(l)
  PROVE  BrowseInv'
<1>1. CASE load[l].tried = {}
  BY <1>1, FailsStep DEF PackFails
<1>2. CASE load[l].tried # {}
  <2>1. load[l] \in LoadRecord /\ load[l].have \in SUBSET Pack
    BY LoadTypes DEF BrowseInv, BrowseTypeOK
  <2>2. load' = [load EXCEPT ![l].getting = 0, ![l].cut = FALSE,
           ![l].tried = @ \cup {load[l].getting}, ![l].have = load[l].have]
    BY <1>2, <2>1 DEF PackFails, LoadRecord
  <2>3. LoadsGoOn
    BY <2>1, <2>2, TriedGoesOn DEF PackFails
  <2> QED
    BY <1>2, <2>3, NothingElse, GoOn DEF PackFails
<1> QED
  BY <1>1, <1>2

LEMMA PeeledStep ==
  ASSUME BrowseInv, NEW l \in Load, Peeled(l)
  PROVE  BrowseInv'
<1>1. load[l] \in LoadRecord /\ load[l].at \in Version /\ load[l].ref \in Ref
  BY LoadTypes DEF BrowseInv, BrowseTypeOK
<1>2. CASE load[l].valid
  <2> DEFINE x == [load[l] EXCEPT !.step = "ready"]
  <2>1. x \in LoadRecord /\ x.valid = load[l].valid /\ x.at = load[l].at
    BY <1>1 DEF LoadRecord
  <2>2. load' = [load EXCEPT ![l] = x] /\ load[l].at # 0
    BY <1>2 DEF Peeled, BrowseInv, ReadSincePush, OnPacks
  <2> HIDE DEF x
  <2>3. LoadsGoOn
    BY <2>1, <2>2, LoadGoesOn
  <2>4. merged' = [merged EXCEPT ![load[l].ref][load[l].at] = l]
    BY <1>2 DEF Peeled
  <2>5. MergedGoOn
    BY <1>1, <1>2, <2>4 DEF MergedGoOn, BrowseInv, BrowseTypeOK
  <2> QED
    BY <1>2, <2>3, <2>5, NothingElse, GoOn DEF Peeled
<1>3. CASE ~load[l].valid
  BY <1>3, RejectGoesOn, NothingElse, GoOn DEF Peeled
<1> QED
  BY <1>2, <1>3

LEMMA FillEndsStep ==
  ASSUME BrowseInv, NEW l \in Load, FillEnds(l)
  PROVE  BrowseInv'
<1> DEFINE x == [load[l] EXCEPT !.step = "full", !.tried = {}]
<1>1. x \in LoadRecord /\ x.valid = load[l].valid /\ x.at = load[l].at
  BY LoadTypes DEF BrowseInv, BrowseTypeOK, LoadRecord
<1>2. load' = [load EXCEPT ![l] = x] /\ load[l].at # 0
  BY DEF FillEnds, BrowseInv, ReadSincePush, OnPacks
<1> HIDE DEF x
<1>3. LoadsGoOn
  BY <1>1, <1>2, LoadGoesOn
<1> QED
  BY <1>3, NothingElse, GoOn DEF FillEnds

LEMMA DeadlineStep ==
  ASSUME BrowseInv, NEW l \in Load, Deadline(l)
  PROVE  BrowseInv'
<1>1. \A k \in Load : /\ load'[k] = [load[k] EXCEPT !.raced = @ \/ k = l, !.cut = @ \/ load[k].getting # 0]
                      /\ load[k] \in LoadRecord
  BY DEF Deadline, BrowseInv, BrowseTypeOK
<1>2. \A k \in Load : /\ load'[k] \in LoadRecord /\ load'[k].valid = load[k].valid
                      /\ load'[k].at = load[k].at /\ load'[k].step = load[k].step
  <2> TAKE k \in Load
  <2> DEFINE raced == load[k].raced \/ k = l
             cut == load[k].cut \/ load[k].getting # 0
  <2>1. raced \in BOOLEAN /\ cut \in BOOLEAN
    OBVIOUS
  <2>2. load'[k] = [load[k] EXCEPT !.raced = raced, !.cut = cut] /\ load[k] \in LoadRecord
    BY <1>1
  <2> HIDE DEF raced, cut
  <2> QED
    BY <2>1, <2>2 DEF LoadRecord
<1>3. load' \in [Load -> LoadRecord]
  BY <1>2 DEF Deadline
<1>4. LoadsGoOn
  BY <1>2, <1>3 DEF LoadsGoOn, BrowseInv, ReadSincePush
<1>5. ViewsGoOn
  BY DEF Deadline, ViewsGoOn, BrowseInv, BrowseTypeOK, ViewRecord
<1>6. TipsGoOn
  BY DEF Deadline, TipsGoOn, BrowseInv, BrowseTypeOK
<1> QED
  BY <1>4, <1>5, <1>6, NothingElse, GoOn DEF Deadline

\* What is read, from the cache, from another load that counts or from the
\* node, is no older than this page's last push.
LEMMA ReadStateStep ==
  ASSUME BrowseInv, NEW l \in Load, ReadState(l)
  PROVE  BrowseInv'
<1>1. PICK at \in Version : load' = [load EXCEPT ![l] = [@ EXCEPT !.at = at]] /\ at >= own
  <2>1. PICK at \in IF stateKept # 0 THEN {stateKept}
                    ELSE {load[k].at : k \in Asked}
                         \cup (IF Asked = {} \/ Outlived # {} THEN {version} ELSE {}) :
               load' = [load EXCEPT ![l] = [@ EXCEPT !.at = at]]
    BY DEF ReadState
  <2>2. CASE stateKept # 0
    BY <2>1, <2>2 DEF BrowseInv, BrowseTypeOK
  <2>3. CASE stateKept = 0 /\ at = version
    BY <2>1, <2>3 DEF BrowseInv, BrowseTypeOK
  <2>4. CASE stateKept = 0 /\ \E k \in Asked : at = load[k].at
    <3>1. PICK k \in Asked : at = load[k].at
      BY <2>4
    <3>2. k \in Load /\ load[k].valid /\ load[k].at # 0 /\ load[k].at \in Version
      BY LoadTypes DEF Asked, BrowseInv
    <3> QED
      BY <2>1, <3>1, <3>2 DEF BrowseInv, ReadSincePush
  <2> QED
    BY <2>1, <2>2, <2>3, <2>4
<1> DEFINE x == [load[l] EXCEPT !.at = at]
<1>2. /\ x \in LoadRecord /\ x.at = at /\ x.valid = load[l].valid /\ x.step = load[l].step
      /\ load' = [load EXCEPT ![l] = x]
  BY <1>1, LoadTypes DEF BrowseInv, BrowseTypeOK, LoadRecord
<1>3. load[l].step = "state" /\ UNCHANGED <<version, stateKept, tips, merged, packs, view, own, page>>
  BY DEF ReadState
<1> HIDE DEF x
<1>4. load' \in [Load -> LoadRecord] /\ \A k \in Load : load'[k].valid = load[k].valid
  BY <1>2 DEF BrowseInv, BrowseTypeOK
<1>5. BrowseTypeOK'
  BY <1>3, <1>4 DEF BrowseInv, BrowseTypeOK
<1>6. CachesLive'
  BY <1>3, <1>4 DEF BrowseInv, BrowseTypeOK, CachesLive
<1>7. \A k \in Load : ReadSincePush(k)'
  BY <1>1, <1>2, <1>3 DEF BrowseInv, BrowseTypeOK, ReadSincePush, OnPacks
<1>8. \A w \in View : JoinedInTime(w)'
  <2> TAKE w \in View
  <2>1. own \in Nat /\ at \in Nat /\ view[w].after \in Nat
    BY BrowseAssumption DEF BrowseInv, BrowseTypeOK, ViewRecord, Version
  <2>2. JoinedInTime(w)
    BY DEF BrowseInv
  <2>3. view[w].on \in Load => load'[view[w].on].at = IF view[w].on = l THEN at ELSE load[view[w].on].at
    BY <1>2 DEF BrowseInv, BrowseTypeOK
  <2>4. view[w].step = "wait" => view[w].on \in Load
    BY DEF BrowseInv, BrowseTypeOK, ViewRecord
  <2> QED
    BY <1>1, <1>3, <2>1, <2>2, <2>3, <2>4 DEF JoinedInTime
<1> QED
  BY <1>3, <1>5, <1>6, <1>7, <1>8 DEF BrowseInv

\* A view joins a load that counts, or a new one that has read nothing.
LEMMA OpenStep ==
  ASSUME BrowseInv, NEW w \in View, NEW ref \in Ref, Open(w, ref)
  PROVE  BrowseInv'
<1>0. UNCHANGED <<version, stateKept, merged, packs, own, page>> /\ own \in Version
  BY DEF Open, BrowseInv, BrowseTypeOK
<1>1. CASE tips[ref] # NoLoad
  <2> DEFINE y == [NoView EXCEPT !.step = "wait", !.on = tips[ref], !.after = own]
  <2>1. tips[ref] \in Load /\ load[tips[ref]].valid
    BY <1>1 DEF BrowseInv, BrowseTypeOK, CachesLive
  <2>2. y \in ViewRecord /\ y.step = "wait" /\ y.on = tips[ref] /\ y.after = own
    <3>1. NoView \in ViewRecord
      BY BrowseAssumption DEF Version, NoView, ViewRecord
    <3> QED
      BY <1>0, <2>1, <3>1 DEF NoView, ViewRecord
  <2>3. view' = [view EXCEPT ![w] = y] /\ UNCHANGED <<tips, load>>
    BY <1>1 DEF Open
  <2> HIDE DEF y
  <2>4. BrowseTypeOK'
    BY <1>0, <1>1, <2>2, <2>3 DEF BrowseInv, BrowseTypeOK
  <2>5. load[tips[ref]].at = 0 \/ load[tips[ref]].at >= own
    BY <2>1 DEF BrowseInv, ReadSincePush
  <2>6. \A u \in View : JoinedInTime(u)'
    <3>1. JoinedInTime(w)'
      <4>1. view'[w] = y
        BY <2>3 DEF BrowseInv, BrowseTypeOK
      <4>2. own <= own
        BY <1>0, BrowseAssumption DEF Version
      <4> QED
        BY <1>0, <2>2, <2>3, <2>5, <4>1, <4>2 DEF JoinedInTime
    <3>2. \A u \in View : u # w => view'[u] = view[u]
      BY <2>3 DEF BrowseInv, BrowseTypeOK
    <3> QED
      BY <1>0, <2>3, <3>1, <3>2 DEF BrowseInv, JoinedInTime
  <2>7. CachesLive' /\ \A l \in Load : ReadSincePush(l)'
    BY <1>0, <2>3 DEF BrowseInv, CachesLive, ReadSincePush
  <2> QED
    BY <1>0, <2>4, <2>6, <2>7 DEF BrowseInv
<1>2. CASE tips[ref] = NoLoad
  <2>1. PICK l \in Load :
          /\ load' = [load EXCEPT ![l] = [NoTip EXCEPT !.ref = ref, !.step = "state", !.valid = TRUE]]
          /\ tips' = [tips EXCEPT ![ref] = l]
          /\ view' = [view EXCEPT ![w] = [NoView EXCEPT !.step = "wait", !.on = l, !.after = own]]
    BY <1>2 DEF Open, Unused
  <2> DEFINE x == [NoTip EXCEPT !.ref = ref, !.step = "state", !.valid = TRUE]
             y == [NoView EXCEPT !.step = "wait", !.on = l, !.after = own]
  <2>2. 0 \in Version /\ own <= own /\ NoTip \in LoadRecord /\ NoView \in ViewRecord
    BY <1>0, BrowseAssumption DEF Version, NoTip, LoadRecord, Ref, NoView, ViewRecord
  <2>3. x \in LoadRecord /\ x.valid = TRUE /\ x.at = 0 /\ x.step = "state"
    BY <2>2 DEF LoadRecord, NoTip
  <2>4. y \in ViewRecord /\ y.step = "wait" /\ y.on = l /\ y.after = own /\ l # NoLoad
    BY <1>0, <2>2, BrowseAssumption DEF NoView, ViewRecord
  <2>5. load' = [load EXCEPT ![l] = x] /\ view' = [view EXCEPT ![w] = y]
    BY <2>1
  <2> HIDE DEF x, y
  <2>6. /\ load'[l] = x /\ \A k \in Load : k # l => load'[k] = load[k]
        /\ view'[w] = y /\ \A u \in View : u # w => view'[u] = view[u]
        /\ tips'[ref] = l /\ \A r \in Ref : r # ref => tips'[r] = tips[r]
    BY <2>1, <2>5 DEF BrowseInv, BrowseTypeOK
  <2>7. BrowseTypeOK'
    BY <1>0, <2>1, <2>3, <2>4, <2>5 DEF BrowseInv, BrowseTypeOK
  <2>8. CachesLive'
    <3>1. \A r \in Ref : tips'[r] # NoLoad => tips'[r] \in Load
      BY <2>7 DEF BrowseTypeOK
    <3>2. \A k \in Load : load'[k].valid = load[k].valid \/ load'[k].valid
      BY <2>3, <2>6
    <3>3. \A r \in Ref, v \in Version : merged[r][v] \in Load \cup {NoLoad}
      BY DEF BrowseInv, BrowseTypeOK
    <3> QED
      BY <1>0, <2>3, <2>6, <3>1, <3>2, <3>3 DEF BrowseInv, CachesLive
  <2>9. \A k \in Load : ReadSincePush(k)'
    BY <1>0, <2>3, <2>6 DEF BrowseInv, ReadSincePush, OnPacks
  <2>10. \A u \in View : JoinedInTime(u)'
    <3> TAKE u \in View
    <3>1. JoinedInTime(u)
      BY DEF BrowseInv
    <3>2. view[u].step = "wait" => view[u].on \in Load
      BY DEF BrowseInv, BrowseTypeOK, ViewRecord
    <3>3. CASE u = w
      BY <1>0, <2>2, <2>3, <2>4, <2>6, <3>3 DEF JoinedInTime
    <3>4. CASE u # w
      BY <1>0, <2>3, <2>6, <3>1, <3>2, <3>4 DEF JoinedInTime
    <3> QED
      BY <3>3, <3>4
  <2> QED
    BY <1>0, <2>7, <2>8, <2>9, <2>10 DEF BrowseInv
<1> QED
  BY <1>1, <1>2

LEMMA ShowStep ==
  ASSUME BrowseInv, NEW w \in View, Show(w)
  PROVE  BrowseInv'
<1>1. view[w].on \in Load /\ view[w].step = "wait" /\ load[view[w].on].at \in Version
  BY LoadTypes DEF Show, BrowseInv, BrowseTypeOK, ViewRecord
<1>2. PICK found \in BOOLEAN :
        /\ found => Filled(view[w].on)
        /\ view' = [view EXCEPT ![w].step = IF found THEN "shown" ELSE "error",
                                ![w].shows = load[view[w].on].at]
  BY DEF Show
<1> DEFINE step == IF found THEN "shown" ELSE "error"
           y == [view[w] EXCEPT !.step = step, !.shows = load[view[w].on].at]
<1>3. step \in {"shown", "error"} /\ (step = "shown" => found)
  OBVIOUS
<1> HIDE DEF step
<1>4. /\ y \in ViewRecord /\ y.step = step /\ y.after = view[w].after
      /\ y.shows = load[view[w].on].at /\ view' = [view EXCEPT ![w] = y]
  BY <1>1, <1>2, <1>3 DEF BrowseInv, BrowseTypeOK, ViewRecord, step
<1> HIDE DEF y
<1>5. UNCHANGED <<version, stateKept, tips, merged, packs, load, own, page>>
  BY DEF Show
<1>6. view'[w] = y /\ \A u \in View : u # w => view'[u] = view[u]
  BY <1>4 DEF BrowseInv, BrowseTypeOK
<1>7. BrowseTypeOK'
  BY <1>3, <1>4, <1>5 DEF BrowseInv, BrowseTypeOK
<1>8. found => load[view[w].on].at >= view[w].after
  BY <1>1, <1>2 DEF Filled, BrowseInv, ReadSincePush, JoinedInTime, OnPacks
<1>9. \A u \in View : JoinedInTime(u)'
  <2> TAKE u \in View
  <2>1. JoinedInTime(u)
    BY DEF BrowseInv
  <2>2. CASE u = w
    BY <1>3, <1>4, <1>5, <1>6, <1>8, <2>2 DEF JoinedInTime
  <2>3. CASE u # w
    BY <1>5, <1>6, <2>1, <2>3 DEF JoinedInTime
  <2> QED
    BY <2>2, <2>3
<1> QED
  BY <1>5, <1>7, <1>9 DEF BrowseInv, CachesLive, ReadSincePush

\* The page leaves, comes back, or somebody else pushes.
LEMMA PageStep ==
  ASSUME BrowseInv, Leave \/ Return \/ PushElsewhere
  PROVE  BrowseInv'
<1>1. ASSUME Leave PROVE BrowseInv'
  <2>1. NoView \in ViewRecord /\ NoView.step = "none"
    BY BrowseAssumption DEF NoView, ViewRecord, Version
  <2>2. view' \in [View -> ViewRecord] /\ \A w \in View : view'[w].step = "none"
    BY <1>1, <2>1 DEF Leave
  <2> QED
    BY <1>1, <2>2 DEF Leave, BrowseInv, BrowseTypeOK, CachesLive, ReadSincePush, JoinedInTime
<1>2. ASSUME Return PROVE BrowseInv'
  BY <1>2 DEF Return, BrowseInv, BrowseTypeOK, CachesLive, ReadSincePush, JoinedInTime
<1>3. ASSUME PushElsewhere PROVE BrowseInv'
  <2>1. version' \in Version /\ own <= version'
    BY <1>3, BrowseAssumption DEF PushElsewhere, BrowseInv, BrowseTypeOK, Version
  <2> QED
    BY <1>3, <2>1 DEF PushElsewhere, BrowseInv, BrowseTypeOK, CachesLive, ReadSincePush, JoinedInTime
<1> QED
  BY <1>1, <1>2, <1>3

\* clearRepoTipCaches: no load counts any more, and no cache has one.
LEMMA ClearStep ==
  ASSUME BrowseInv, Clear, version' \in Version, own' \in Version, own' >= own,
         own' <= version', view' = view, page' \in {"on", "leaving", "gone"}
  PROVE  BrowseInv'
<1>1. \A k \in Load : /\ load'[k] \in LoadRecord /\ load'[k].valid = FALSE
                      /\ load'[k].at = load[k].at /\ load'[k].step = load[k].step
  <2> TAKE k \in Load
  <2> DEFINE cut == load[k].cut \/ load[k].getting # 0
  <2>1. cut \in BOOLEAN
    OBVIOUS
  <2>2. load'[k] = [load[k] EXCEPT !.valid = FALSE, !.cut = cut] /\ load[k] \in LoadRecord
    BY DEF Clear, BrowseInv, BrowseTypeOK
  <2> HIDE DEF cut
  <2> QED
    BY <2>1, <2>2 DEF LoadRecord
<1>2. load' \in [Load -> LoadRecord]
  BY <1>1 DEF Clear
<1>3. /\ tips' = [r \in Ref |-> NoLoad] /\ stateKept' = 0 /\ 0 \in Version
      /\ merged' = NoneMerged /\ packs' = {}
  <2>1. 0 \in Version
    BY BrowseAssumption DEF Version
  <2> QED
    BY <2>1, Zenon DEF Clear
<1>4. BrowseTypeOK'
  BY <1>2, <1>3 DEF BrowseInv, BrowseTypeOK, NoneMerged
<1>5. CachesLive'
  BY <1>3 DEF CachesLive, NoneMerged
<1>6. \A k \in Load : ReadSincePush(k)'
  BY <1>1 DEF BrowseInv, ReadSincePush
<1>7. \A w \in View : JoinedInTime(w)'
  <2> TAKE w \in View
  <2>1. view[w].after \in Nat /\ own \in Nat /\ own' \in Nat
    BY BrowseAssumption DEF BrowseInv, BrowseTypeOK, ViewRecord, Version
  <2>2. JoinedInTime(w) /\ (view[w].step = "wait" => view[w].on \in Load)
    BY DEF BrowseInv, BrowseTypeOK, ViewRecord
  <2> QED
    BY <1>1, <2>1, <2>2 DEF JoinedInTime
<1> QED
  BY <1>3, <1>4, <1>5, <1>6, <1>7 DEF BrowseInv

LEMMA BrowseInvInductive == BrowseInv /\ [BrowseNext]_browseVars => BrowseInv'
<1> SUFFICES ASSUME BrowseInv, [BrowseNext]_browseVars PROVE BrowseInv'
  OBVIOUS
<1>1. ASSUME NEW l \in Load, LoadNext(l) PROVE BrowseInv'
  <2>1. ASSUME StateFails(l) \/ PackCancelled(l) \/ NotFound(l) PROVE BrowseInv'
    BY <2>1, FailsStep DEF StateFails, PackCancelled, NotFound
  <2> QED
    BY <1>1, <2>1, ReadStateStep, StateAnsweredStep, PackArrivesStep, PackFailsStep, PeeledStep,
       FillEndsStep, DeadlineStep, GetPackStep DEF LoadNext
<1>2. ASSUME Gone PROVE BrowseInv'
  BY <1>2, ClearStep, BrowseAssumption DEF Gone, BrowseInv, BrowseTypeOK, Version
<1>3. ASSUME PushHere PROVE BrowseInv'
  <2>1. version' \in Version /\ own' \in Version /\ own' >= own /\ own' <= version'
    BY <1>3, BrowseAssumption DEF PushHere, BrowseInv, BrowseTypeOK, Version
  <2> QED
    BY <1>3, <2>1, ClearStep DEF PushHere, BrowseInv, BrowseTypeOK
<1>4. CASE UNCHANGED browseVars
  BY <1>4 DEF browseVars, BrowseInv, BrowseTypeOK, CachesLive, ReadSincePush, JoinedInTime
<1> QED
  BY <1>1, <1>2, <1>3, <1>4, OpenStep, ShowStep, PageStep DEF BrowseNext

LEMMA BrowseInvAlways == BrowseSpec => []BrowseInv
  BY BrowseInvInit, BrowseInvInductive, PTL DEF BrowseSpec

\* The tip caches, the loads and the views are well formed, for any number of each.
THEOREM BrowseTypeCorrect == BrowseSpec => []BrowseTypeOK
<1>1. BrowseInv => BrowseTypeOK
  BY DEF BrowseInv
<1> QED
  BY <1>1, BrowseInvAlways, PTL

LEMMA BrowseTipsLive == BrowseInv => TipsAreLive
BY DEF BrowseInv, CachesLive, JoinedInTime, TipsAreLive

\* No cache holds, and no view joins, a load from before the page last left the
\* repository or pushed; no view shows less than a push it was opened after.
THEOREM TipsAreLiveAlways == BrowseSpec => []TipsAreLive
BY BrowseTipsLive, BrowseInvAlways, PTL
-----------------------------------------------------------------------------
(***************************************************************************)
(* Backups.  Every pin has a reason, also one that is on its way to the    *)
(* delegate: a pass reads from it on whose behalf it is repaired.          *)
(***************************************************************************)
Reasoned(p) == p # NoPin => p.reasons # {}

TaskFits(x) == x \in Task /\ (x.step = "store" => x.pin.reasons # {})

LiveFits == live \in [Repo -> Tip]
StoredFits == stored \in [Repo -> Pin] /\ \A r \in Repo : Reasoned(stored[r])
MemFits == mem \in [Repo -> Pin] /\ \A r \in Repo : Reasoned(mem[r])
BlobsFit == blobs \subseteq Hash
TasksFit == task \in [Thread -> Task] /\ \A t \in Thread : TaskFits(task[t])
PushedFits == pushed \subseteq Repo
KnownFits == known \in BOOLEAN
SpentFits == spent \in [ops : 0..MaxOps, faults : 0..MaxFaults]

BackupInv == /\ LiveFits /\ StoredFits /\ MemFits /\ BlobsFit
             /\ TasksFit /\ PushedFits /\ KnownFits /\ SpentFits

LEMMA BackupUnchanged ==
  /\ live' = live /\ LiveFits => LiveFits'
  /\ stored' = stored /\ StoredFits => StoredFits'
  /\ mem' = mem /\ MemFits => MemFits'
  /\ blobs' = blobs /\ BlobsFit => BlobsFit'
  /\ task' = task /\ TasksFit => TasksFit'
  /\ pushed' = pushed /\ PushedFits => PushedFits'
  /\ known' = known /\ KnownFits => KnownFits'
  /\ spent' = spent /\ SpentFits => SpentFits'
BY DEF LiveFits, StoredFits, MemFits, BlobsFit, TasksFit, PushedFits, KnownFits, SpentFits

LEMMA ContentType ==
  ASSUME NEW r \in Repo, NEW v \in Tip
  PROVE  Content(r, v) \subseteq Hash
<1>1. v # 0 => v \in 1..(MaxTip + 1) /\ v + 1 \in 1..(MaxTip + 1)
  BY BackupAssumption DEF Tip
<1> QED
  BY <1>1 DEF Content, Hash

\* A list of packs has a first one.
LEMMA FirstIsOne ==
  ASSUME NEW S, S \subseteq Hash, S # {}
  PROVE  First(S) \in S
<1> DEFINE T == {h[2] : h \in S}
<1>1. T \subseteq Nat /\ T # {}
  BY BackupAssumption DEF Hash
<1>2. PICK x \in T : \A y \in T : ~(<<y, x>> \in OpToRel(<, Nat))
  BY <1>1, NatLessThanWellFounded, WFMin
<1>3. \A y \in T : x <= y
  <2> SUFFICES ASSUME NEW y \in T  PROVE x <= y
    OBVIOUS
  <2>1. x \in Nat /\ y \in Nat
    BY <1>1
  <2>2. ~(y < x)
    BY <1>2, <2>1 DEF OpToRel
  <2> QED
    BY <2>1, <2>2
<1>4. PICK h \in S : h[2] = x
  OBVIOUS
<1>5. \A g \in S : h[2] <= g[2]
  BY <1>3, <1>4
<1> QED
  BY <1>5 DEF First

LEMMA NoTaskFits == TaskFits(NoTask) /\ NoTask \in Task /\ NoTask.step = "idle"
<1>1. (CHOOSE r \in Repo : TRUE) \in Repo
  BY BackupAssumption
<1>2. 0 \in Tip
  BY BackupAssumption DEF Tip
<1> QED
  BY <1>1, <1>2 DEF TaskFits, NoTask, Task, TaskStep, Pin, NoPin, Reason

LEMMA TaskTypes ==
  ASSUME TasksFit, NEW t \in Thread
  PROVE  /\ task[t] \in Task /\ Its(t) \in Repo /\ task[t].reason \in Reason
         /\ task[t].had \in Tip /\ task[t].at \in Tip /\ task[t].pin \in Pin
         /\ task[t].left \subseteq Hash /\ task[t].keep \subseteq Hash
         /\ task[t].repos \subseteq Repo
         /\ IsAt(t, "store") => task[t].pin.reasons # {}
BY DEF TasksFit, TaskFits, Task, Its, IsAt

LEMMA BecomesFits ==
  ASSUME TasksFit, NEW t \in Thread, NEW x, TaskFits(x), Becomes(t, x)
  PROVE  TasksFit'
BY DEF TasksFit, Becomes, TaskFits

\* A thread that turns to another step than to store a pin.
LEMMA TurnsFits ==
  ASSUME TasksFit, NEW t \in Thread, NEW step \in TaskStep \ {"store"}, Turns(t, step)
  PROVE  TasksFit'
<1>1. TaskFits([task[t] EXCEPT !.step = step])
  BY TaskTypes DEF TaskFits, Task
<1> QED
  BY <1>1, BecomesFits DEF Turns

LEMMA RestFits ==
  ASSUME TasksFit, NEW t \in Thread
  PROVE  /\ TaskFits(Rest(t)) /\ Rest(t) \in Task
         /\ TaskFits(Done(t)) /\ TaskFits(Skipped(t))
<1>1. Rest(t) \in Task /\ Rest(t).step = "idle"
  BY TaskTypes, NoTaskFits DEF Rest, Task
<1>2. Skipped(t) \in Task /\ Skipped(t).step = "idle"
  BY TaskTypes, NoTaskFits DEF Skipped, Task
<1>3. [Rest(t) EXCEPT !.step = "mark"] \in Task /\ [Rest(t) EXCEPT !.step = "mark"].step = "mark"
  BY <1>1 DEF Task, TaskStep
<1> QED
  BY <1>1, <1>2, <1>3, NoTaskFits DEF TaskFits, Done

LEMMA UnqueueFits ==
  ASSUME PushedFits, NEW t, Unqueue(t)
  PROVE  PushedFits'
BY DEF PushedFits, Unqueue

LEMMA EndsFits ==
  ASSUME TasksFit, PushedFits, NEW t \in Thread, Ends(t)
  PROVE  TasksFit' /\ PushedFits'
BY RestFits, BecomesFits, UnqueueFits DEF Ends

LEMMA ThrowFits ==
  ASSUME TasksFit, PushedFits, NEW t \in Thread, Throw(t)
  PROVE  TasksFit' /\ PushedFits'
<1> DEFINE x == [task[t] EXCEPT !.step = "fill", !.repair = FALSE,
                                !.left = Content(Its(t), task[t].had) \ blobs]
<1>1. Content(Its(t), task[t].had) \ blobs \in SUBSET Hash
  BY TaskTypes, ContentType
<1>2. TaskFits(x)
  BY <1>1, TaskTypes DEF TaskFits, Task, TaskStep
<1> HIDE DEF x
<1> QED
  BY <1>2, RestFits, BecomesFits, UnqueueFits DEF Throw, x

LEMMA FaultFits ==
  ASSUME SpentFits, Fault
  PROVE  SpentFits'
<1>1. spent.faults + 1 \in 0..MaxFaults
  BY BackupAssumption DEF SpentFits, Fault
<1> QED
  BY <1>1 DEF SpentFits, Fault

LEMMA FailFits ==
  ASSUME TasksFit, PushedFits, SpentFits, NEW t \in Thread, Fail(t)
  PROVE  TasksFit' /\ PushedFits' /\ SpentFits'
BY ThrowFits, FaultFits DEF Fail

\* Whatever of the two a page has in memory, it is made of pins.
LEMMA MemoryFits ==
  ASSUME MemFits, StoredFits, NEW m \in Memory
  PROVE  m \in [Repo -> Pin] /\ \A r \in Repo : Reasoned(m[r]) /\ m[r].tip \in Tip
<1>1. Hydrated \in [Repo -> Pin] /\ \A r \in Repo : Reasoned(Hydrated[r])
  BY DEF Hydrated, MemFits, StoredFits
<1> QED
  BY <1>1 DEF Memory, MemFits, Pin

LEMMA HydratesFits ==
  ASSUME KnownFits, SpentFits, NEW m, Hydrates(m)
  PROVE  KnownFits' /\ SpentFits'
BY FaultFits, BackupUnchanged DEF Hydrates, KnownFits

LEMMA GetsFits ==
  ASSUME KnownFits, SpentFits, NEW r, NEW m, Gets(r, m)
  PROVE  KnownFits' /\ SpentFits'
BY HydratesFits, BackupUnchanged DEF Gets

LEMMA PutPinFits ==
  ASSUME TasksFit, MemFits, StoredFits, NEW t \in Thread, NEW m \in Memory,
         NEW pin \in Pin, pin.reasons # {}, NEW then \in TaskStep, PutPin(t, m, pin, then)
  PROVE  TasksFit' /\ MemFits'
<1> DEFINE r == Its(t)
           both == [pin EXCEPT !.reasons = @ \cup m[r].reasons]
           x == [Rest(t) EXCEPT !.step = "store", !.pin = both, !.then = then,
                                !.repair = task[t].repair, !.had = task[t].had]
<1>1. r \in Repo /\ m \in [Repo -> Pin] /\ m[r] \in Pin /\ \A q \in Repo : Reasoned(m[q])
  BY TaskTypes, MemoryFits
<1>2. both \in Pin /\ both.reasons # {}
  BY <1>1 DEF Pin
<1>3. Rest(t) \in Task /\ task[t].repair \in BOOLEAN /\ task[t].had \in Tip
  BY RestFits, TaskTypes DEF Task
<1>4. mem' = [m EXCEPT ![r] = both] /\ Becomes(t, x)
  BY DEF PutPin
<1> HIDE DEF both
<1>5. TaskFits(x)
  BY <1>2, <1>3 DEF TaskFits, Task, TaskStep
<1> HIDE DEF x, r
<1>6. MemFits'
  BY <1>1, <1>2, <1>4 DEF MemFits, Reasoned
<1> QED
  BY <1>4, <1>5, <1>6, BecomesFits

LEMMA GetExistingFits ==
  ASSUME BackupInv, NEW t \in Thread, GetExisting(t)
  PROVE  BackupInv'
<1> DEFINE x(m) == [task[t] EXCEPT !.step = "tip", !.had = m[Its(t)].tip]
<1>1. \E m \in Memory : Gets(Its(t), m) /\ mem' = m /\ Becomes(t, x(m))
  BY Zenon DEF GetExisting
<1>2. Its(t) \in Repo /\ task[t] \in Task
  BY TaskTypes DEF BackupInv
<1>3. ASSUME NEW m \in Memory, Gets(Its(t), m), mem' = m, Becomes(t, x(m))
      PROVE  TasksFit' /\ KnownFits' /\ SpentFits' /\ MemFits'
  <2>1. m[Its(t)].tip \in Tip /\ MemFits'
    BY <1>2, <1>3, MemoryFits DEF BackupInv, MemFits
  <2>2. TaskFits(x(m))
    BY <1>2, <2>1 DEF TaskFits, Task, TaskStep
  <2> HIDE DEF x
  <2> QED
    BY <1>3, <2>1, <2>2, BecomesFits, GetsFits DEF BackupInv
<1> HIDE DEF x
<1>4. TasksFit' /\ KnownFits' /\ SpentFits' /\ MemFits'
  BY <1>1, <1>3
<1> QED
  BY <1>4, BackupUnchanged DEF BackupInv, GetExisting

LEMMA ReadTipFits ==
  ASSUME BackupInv, NEW t \in Thread, ReadTip(t)
  PROVE  BackupInv'
<1> DEFINE at == live[Its(t)]
           same == ~task[t].force /\ task[t].had = at
           x == [task[t] EXCEPT !.step = IF same THEN "check" ELSE "capture",
                                !.at = at, !.left = Content(Its(t), at)]
<1>1. Its(t) \in Repo /\ task[t] \in Task /\ at \in Tip
  BY TaskTypes DEF BackupInv, LiveFits
<1>2. Content(Its(t), at) \in SUBSET Hash
  BY <1>1, ContentType
<1>3. (IF same THEN "check" ELSE "capture") \in TaskStep \ {"store"}
  BY DEF TaskStep
<1>4. TaskFits(x)
  BY <1>1, <1>2, <1>3 DEF TaskFits, Task
<1>5. UNCHANGED <<live, stored, blobs, mem, known>>
  BY DEF ReadTip
<1>6. (Becomes(t, x) /\ UNCHANGED <<pushed, spent>>) \/ Fail(t)
  BY DEF ReadTip
<1> HIDE DEF x
<1>7. TasksFit' /\ PushedFits' /\ SpentFits'
  BY <1>4, <1>6, BecomesFits, FailFits, BackupUnchanged DEF BackupInv
<1> QED
  BY <1>5, <1>7, BackupUnchanged DEF BackupInv

LEMMA CheckDurableFits ==
  ASSUME BackupInv, NEW t \in Thread, CheckDurable(t)
  PROVE  BackupInv'
<1>1. Its(t) \in Repo /\ task[t].reason \in Reason
  BY TaskTypes DEF BackupInv
<1>2. UNCHANGED <<live, stored, blobs>>
  BY DEF CheckDurable
<1>3. "idle" \in TaskStep /\ "capture" \in TaskStep \ {"store"}
  BY DEF TaskStep
<1>4. CASE Turns(t, "capture") /\ UNCHANGED <<mem, known, pushed, spent>>
  <2>1. TasksFit'
    BY <1>3, <1>4, TurnsFits DEF BackupInv
  <2> QED
    BY <1>2, <1>4, <2>1, BackupUnchanged DEF BackupInv
<1>5. ASSUME NEW m \in Memory, Gets(Its(t), m),
             \/ mem' = m /\ Turns(t, "capture") /\ UNCHANGED pushed
             \/ mem' = m /\ Ends(t)
             \/ /\ PutPin(t, m, [m[Its(t)] EXCEPT !.reasons = @ \cup {task[t].reason}], "idle")
                /\ UNCHANGED pushed
      PROVE  BackupInv'
  <2> DEFINE q == [m[Its(t)] EXCEPT !.reasons = @ \cup {task[t].reason}]
  <2>1. m[Its(t)] \in Pin /\ (mem' = m => MemFits')
    BY <1>1, MemoryFits DEF BackupInv, MemFits
  <2>2. q \in Pin /\ q.reasons # {}
    BY <1>1, <2>1 DEF Pin
  <2> HIDE DEF q
  <2>3. KnownFits' /\ SpentFits'
    BY <1>5, GetsFits DEF BackupInv
  <2>4. TasksFit' /\ MemFits' /\ PushedFits'
    <3>1. CASE mem' = m /\ Turns(t, "capture") /\ UNCHANGED pushed
      BY <1>3, <2>1, <3>1, TurnsFits, BackupUnchanged DEF BackupInv
    <3>2. CASE mem' = m /\ Ends(t)
      BY <2>1, <3>2, EndsFits DEF BackupInv
    <3>3. CASE PutPin(t, m, q, "idle") /\ UNCHANGED pushed
      BY <1>3, <2>2, <3>3, PutPinFits, BackupUnchanged DEF BackupInv
    <3> QED
      BY <1>5, <3>1, <3>2, <3>3 DEF q
  <2> QED
    BY <1>2, <2>3, <2>4, BackupUnchanged DEF BackupInv
<1> QED
  BY <1>4, <1>5 DEF CheckDurable

\* A pack is taken from the list.
LEMMA TakenFits ==
  ASSUME TasksFit, NEW t \in Thread, task[t].step # "store",
         Becomes(t, [task[t] EXCEPT !.left = task[t].left \ {First(task[t].left)}])
  PROVE  TasksFit'
<1> DEFINE x == [task[t] EXCEPT !.left = task[t].left \ {First(task[t].left)}]
<1>1. task[t].left \ {First(task[t].left)} \in SUBSET Hash
  BY TaskTypes
<1>2. TaskFits(x)
  BY <1>1, TaskTypes DEF TaskFits, Task
<1> HIDE DEF x
<1> QED
  BY <1>2, BecomesFits DEF x

LEMMA CaptureFits ==
  ASSUME BackupInv, NEW t \in Thread, Capture(t)
  PROVE  BackupInv'
<1>1. First(task[t].left) \in Hash
  BY TaskTypes, FirstIsOne DEF BackupInv, Capture
<1>2. task[t].step # "store" /\ UNCHANGED <<live, stored, mem, known>>
  BY DEF Capture, IsAt
<1>3. CASE Fail(t) /\ UNCHANGED blobs
  BY <1>2, <1>3, FailFits, BackupUnchanged DEF BackupInv
<1>4. CASE /\ UpsertRepoBackupBlob(First(task[t].left))
           /\ Becomes(t, [task[t] EXCEPT !.left = task[t].left \ {First(task[t].left)}])
           /\ UNCHANGED <<pushed, spent>>
  <2>1. TasksFit'
    BY <1>2, <1>4, TakenFits DEF BackupInv
  <2>2. BlobsFit'
    BY <1>1, <1>4 DEF BackupInv, BlobsFit, UpsertRepoBackupBlob
  <2> QED
    BY <1>2, <1>4, <2>1, <2>2, BackupUnchanged DEF BackupInv
<1> QED
  BY <1>3, <1>4 DEF Capture

LEMMA ConfirmFits ==
  ASSUME BackupInv, NEW t \in Thread, Confirm(t)
  PROVE  BackupInv'
<1>1. "put" \in TaskStep \ {"store"}
  BY DEF TaskStep
<1>2. \/ Turns(t, "put") /\ UNCHANGED pushed
      \/ Throw(t)
  BY DEF Confirm
<1>3. TasksFit' /\ PushedFits'
  BY <1>1, <1>2, TurnsFits, ThrowFits, BackupUnchanged DEF BackupInv
<1> QED
  BY <1>3, BackupUnchanged DEF BackupInv, Confirm

LEMMA PutFits ==
  ASSUME BackupInv, NEW t \in Thread, Put(t)
  PROVE  BackupInv'
<1> DEFINE q == [tip |-> task[t].at, reasons |-> {task[t].reason}]
<1>1. q \in Pin /\ q.reasons # {} /\ "list" \in TaskStep
  BY TaskTypes DEF BackupInv, Pin, TaskStep
<1>2. PutPin(t, mem, q, "list") /\ mem \in Memory
  BY DEF Put, Memory
<1> HIDE DEF q
<1>3. TasksFit' /\ MemFits'
  BY <1>1, <1>2, PutPinFits DEF BackupInv
<1> QED
  BY <1>3, BackupUnchanged DEF BackupInv, Put

LEMMA PersistFits ==
  ASSUME BackupInv, NEW t \in Thread, Persist(t)
  PROVE  BackupInv'
<1>1. UNCHANGED <<live, blobs, mem>>
  BY DEF Persist
<1>2. CASE Fail(t) /\ UNCHANGED <<stored, known>>
  BY <1>1, <1>2, FailFits, BackupUnchanged DEF BackupInv
<1>3. ASSUME UpsertRepoBackupPin(Its(t), task[t].pin), known' = FALSE,
             \/ Turns(t, "list") /\ UNCHANGED pushed
             \/ Becomes(t, Skipped(t)) /\ UNCHANGED pushed
             \/ Ends(t),
             UNCHANGED spent
      PROVE  BackupInv'
  <2>1. task[t].pin \in Pin /\ task[t].pin.reasons # {}
    BY TaskTypes DEF BackupInv, Persist
  <2>2. StoredFits'
    BY <1>3, <2>1 DEF BackupInv, StoredFits, Reasoned, UpsertRepoBackupPin
  <2>3. "list" \in TaskStep \ {"store"}
    BY DEF TaskStep
  <2>4. TasksFit' /\ PushedFits'
    BY <1>3, <2>3, TurnsFits, RestFits, BecomesFits, EndsFits, BackupUnchanged DEF BackupInv
  <2>5. KnownFits'
    BY <1>3 DEF KnownFits
  <2> QED
    BY <1>1, <1>3, <2>2, <2>4, <2>5, BackupUnchanged DEF BackupInv
<1> QED
  BY <1>2, <1>3 DEF Persist

LEMMA ListPinsFits ==
  ASSUME BackupInv, NEW t \in Thread, ListPins(t)
  PROVE  BackupInv'
<1> DEFINE kept(m) == UNION {Content(r, m[r].tip) : r \in Repo}
           x(m) == [Rest(t) EXCEPT !.step = "index", !.keep = kept(m)]
<1>1. \E m \in Memory : Hydrates(m) /\ mem' = m /\ Becomes(t, x(m))
  BY Zenon DEF ListPins
<1>2. ASSUME NEW m \in Memory, Hydrates(m), mem' = m, Becomes(t, x(m))
      PROVE  TasksFit' /\ KnownFits' /\ SpentFits' /\ MemFits'
  <2>1. MemFits' /\ KnownFits' /\ SpentFits'
    BY <1>2, MemoryFits, HydratesFits DEF BackupInv, MemFits
  <2>2. kept(m) \in SUBSET Hash
    BY MemoryFits, ContentType DEF BackupInv
  <2>3. Rest(t) \in Task
    BY RestFits DEF BackupInv
  <2> HIDE DEF kept
  <2>4. TaskFits(x(m))
    BY <2>2, <2>3 DEF TaskFits, Task, TaskStep
  <2> HIDE DEF x
  <2> QED
    BY <1>2, <2>1, <2>4, BecomesFits DEF BackupInv
<1> HIDE DEF x
<1>3. TasksFit' /\ KnownFits' /\ SpentFits' /\ MemFits'
  BY <1>1, <1>2
<1> QED
  BY <1>3, BackupUnchanged DEF BackupInv, ListPins

LEMMA ListBlobsFits ==
  ASSUME BackupInv, NEW t \in Thread, ListBlobs(t)
  PROVE  BackupInv'
<1> DEFINE junk == blobs \ task[t].keep
           x == [task[t] EXCEPT !.step = "sweep", !.left = junk]
<1>1. junk \in SUBSET Hash /\ task[t] \in Task
  BY TaskTypes DEF BackupInv, BlobsFit
<1> HIDE DEF junk
<1>2. TaskFits(x)
  BY <1>1 DEF TaskFits, Task, TaskStep
<1>3. \/ Becomes(t, x) /\ UNCHANGED <<pushed, spent>>
      \/ Fault /\ Ends(t)
  BY DEF ListBlobs, junk
<1> HIDE DEF x
<1>4. TasksFit' /\ PushedFits' /\ SpentFits'
  BY <1>2, <1>3, BecomesFits, EndsFits, FaultFits, BackupUnchanged DEF BackupInv
<1> QED
  BY <1>4, BackupUnchanged DEF BackupInv, ListBlobs

LEMMA SweepFits ==
  ASSUME BackupInv, NEW t \in Thread, Sweep(t)
  PROVE  BackupInv'
<1>1. task[t].step # "store" /\ UNCHANGED <<live, stored, mem, known>>
  BY DEF Sweep, IsAt
<1>2. CASE Ends(t) /\ UNCHANGED <<blobs, spent>>
  BY <1>1, <1>2, EndsFits, BackupUnchanged DEF BackupInv
<1>3. CASE /\ \/ RemoveRepoBackupBlob(First(task[t].left)) /\ UNCHANGED spent
              \/ Fault /\ UNCHANGED blobs
           /\ Becomes(t, [task[t] EXCEPT !.left = task[t].left \ {First(task[t].left)}])
           /\ UNCHANGED pushed
  <2>1. TasksFit'
    BY <1>1, <1>3, TakenFits DEF BackupInv
  <2>2. BlobsFit'
    BY <1>3 DEF BackupInv, BlobsFit, RemoveRepoBackupBlob
  <2>3. SpentFits'
    BY <1>3, FaultFits, BackupUnchanged DEF BackupInv
  <2> QED
    BY <1>1, <1>3, <2>1, <2>2, <2>3, BackupUnchanged DEF BackupInv
<1> QED
  BY <1>2, <1>3 DEF Sweep

LEMMA ForgetFits ==
  ASSUME BackupInv, NEW t \in Thread, Forget(t)
  PROVE  BackupInv'
<1>1. Its(t) \in Repo /\ "list" \in TaskStep \ {"store"}
  BY TaskTypes DEF BackupInv, TaskStep
<1>2. TasksFit'
  BY <1>1, TurnsFits DEF BackupInv, Forget
<1>3. NoPin \in Pin /\ Reasoned(NoPin)
  BY BackupAssumption DEF NoPin, Pin, Tip, Reasoned
<1>4. StoredFits' /\ SpentFits'
  <2>1. CASE RemoveRepoBackupPin(Its(t)) /\ UNCHANGED spent
    <3>1. StoredFits'
      BY <1>1, <1>3, <2>1 DEF BackupInv, StoredFits, Reasoned, RemoveRepoBackupPin
    <3> QED
      BY <2>1, <3>1, BackupUnchanged DEF BackupInv
  <2>2. CASE Fault /\ UNCHANGED stored
    BY <2>2, FaultFits, BackupUnchanged DEF BackupInv
  <2> QED
    BY <2>1, <2>2 DEF Forget
<1> QED
  BY <1>2, <1>4, BackupUnchanged DEF BackupInv, Forget

LEMMA FillFits ==
  ASSUME BackupInv, NEW t \in Thread, Fill(t)
  PROVE  BackupInv'
<1>1. task[t].step # "store" /\ UNCHANGED <<live, stored, mem, known>>
  BY DEF Fill, IsAt
<1>2. CASE Ends(t) /\ UNCHANGED <<blobs, spent>>
  BY <1>1, <1>2, EndsFits, BackupUnchanged DEF BackupInv
<1>3. ASSUME task[t].left # {},
             Becomes(t, [task[t] EXCEPT !.left = task[t].left \ {First(task[t].left)}]),
             \/ UpsertRepoBackupBlob(First(task[t].left)) /\ UNCHANGED spent
             \/ Fault /\ UNCHANGED blobs,
             UNCHANGED pushed
      PROVE  BackupInv'
  <2>1. TasksFit'
    BY <1>1, <1>3, TakenFits DEF BackupInv
  <2>2. First(task[t].left) \in Hash
    BY <1>3, TaskTypes, FirstIsOne DEF BackupInv
  <2>3. UpsertRepoBackupBlob(First(task[t].left)) => BlobsFit'
    BY <2>2 DEF BackupInv, BlobsFit, UpsertRepoBackupBlob
  <2>4. BlobsFit' /\ SpentFits'
    BY <1>3, <2>3, FaultFits, BackupUnchanged DEF BackupInv
  <2> QED
    BY <1>1, <1>3, <2>1, <2>4, BackupUnchanged DEF BackupInv
<1> QED
  BY <1>2, <1>3 DEF Fill

LEMMA LookAtFits ==
  ASSUME BackupInv, NEW t \in Thread, LookAt(t)
  PROVE  BackupInv'
<1> DEFINE broken(p) == ~(Content(Its(t), p.tip) \subseteq blobs)
           why(p) == CHOOSE z \in p.reasons : TRUE
           found(p) == [task[t] EXCEPT !.had = p.tip, !.force = broken(p), !.repair = broken(p),
                                       !.reason = why(p),
                                       !.step = IF broken(p) THEN "get" ELSE "compare"]
           x(p) == IF p = NoPin THEN Skipped(t) ELSE found(p)
<1>1. \E m \in Memory : Gets(Its(t), m) /\ mem' = m /\ Becomes(t, x(m[Its(t)]))
  BY Zenon DEF LookAt
<1>2. Its(t) \in Repo /\ task[t] \in Task
  BY TaskTypes DEF BackupInv
<1>3. ASSUME NEW p \in Pin, Reasoned(p), p.tip \in Tip
      PROVE  TaskFits(x(p))
  <2>1. p # NoPin => why(p) \in Reason
    BY <1>3 DEF Reasoned, Pin
  <2>2. broken(p) \in BOOLEAN /\ (IF broken(p) THEN "get" ELSE "compare") \in TaskStep \ {"store"}
    BY DEF TaskStep
  <2> HIDE DEF why, broken
  <2>3. p # NoPin => TaskFits(found(p))
    BY <1>2, <1>3, <2>1, <2>2 DEF TaskFits, Task
  <2> HIDE DEF found
  <2> QED
    BY <2>3, RestFits DEF BackupInv
<1> HIDE DEF x
<1>4. ASSUME NEW m \in Memory, Gets(Its(t), m), mem' = m, Becomes(t, x(m[Its(t)]))
      PROVE  TasksFit' /\ KnownFits' /\ SpentFits' /\ MemFits'
  <2>1. m[Its(t)] \in Pin /\ Reasoned(m[Its(t)]) /\ m[Its(t)].tip \in Tip /\ MemFits'
    BY <1>2, <1>4, MemoryFits DEF BackupInv, MemFits
  <2>2. TaskFits(x(m[Its(t)]))
    BY <1>3, <2>1
  <2> QED
    BY <1>4, <2>1, <2>2, BecomesFits, GetsFits DEF BackupInv
<1>5. TasksFit' /\ KnownFits' /\ SpentFits' /\ MemFits'
  BY <1>1, <1>4
<1> QED
  BY <1>5, BackupUnchanged DEF BackupInv, LookAt

LEMMA CompareFits ==
  ASSUME BackupInv, NEW t \in Thread, Compare(t)
  PROVE  BackupInv'
<1>1. "mark" \in TaskStep \ {"store"} /\ "get" \in TaskStep \ {"store"}
  BY DEF TaskStep
<1>2. UNCHANGED <<live, stored, blobs, mem, known, pushed>>
  BY DEF Compare
<1>3. \/ (Turns(t, "mark") \/ Turns(t, "get")) /\ UNCHANGED spent
      \/ Fault /\ Turns(t, "mark")
  BY DEF Compare
<1>4. TasksFit'
  BY <1>1, <1>3, TurnsFits DEF BackupInv
<1>5. SpentFits'
  BY <1>3, FaultFits, BackupUnchanged DEF BackupInv
<1> QED
  BY <1>2, <1>4, <1>5, BackupUnchanged DEF BackupInv

LEMMA MarkFits ==
  ASSUME BackupInv, NEW t \in Thread, Mark(t)
  PROVE  BackupInv'
<1>1. PICK m \in Memory :
        /\ Gets(Its(t), m)
        /\ IF m[Its(t)] = NoPin THEN mem' = m /\ Becomes(t, Skipped(t))
           ELSE PutPin(t, m, m[Its(t)], "mark")
  BY DEF Mark
<1> DEFINE p == m[Its(t)]
<1>2. p \in Pin /\ Reasoned(p) /\ "mark" \in TaskStep /\ (mem' = m => MemFits')
  BY TaskTypes, MemoryFits DEF BackupInv, MemFits, TaskStep
<1> HIDE DEF p
<1>3. KnownFits' /\ SpentFits'
  BY <1>1, GetsFits DEF BackupInv
<1>4. TasksFit' /\ MemFits'
  <2>1. CASE p = NoPin
    BY <1>1, <1>2, <2>1, RestFits, BecomesFits DEF BackupInv, p
  <2>2. CASE p # NoPin
    <3>1. p.reasons # {} /\ PutPin(t, m, p, "mark")
      BY <1>1, <1>2, <2>2 DEF Reasoned, p
    <3> QED
      BY <1>2, <3>1, PutPinFits DEF BackupInv
  <2> QED
    BY <2>1, <2>2
<1> QED
  BY <1>3, <1>4, BackupUnchanged DEF BackupInv, Mark

LEMMA BeginPassFits ==
  ASSUME BackupInv, BeginPass
  PROVE  BackupInv'
<1>1. PICK m \in Memory :
        /\ Hydrates(m) /\ mem' = m
        /\ Becomes("worker", [NoTask EXCEPT !.repos = {r \in Repo : m[r] # NoPin}])
  BY DEF BeginPass
<1> DEFINE rs == {r \in Repo : m[r] # NoPin}
           x == [NoTask EXCEPT !.repos = rs]
<1>2. MemFits' /\ KnownFits' /\ SpentFits'
  BY <1>1, MemoryFits, HydratesFits DEF BackupInv, MemFits
<1>3. rs \in SUBSET Repo /\ Becomes("worker", x)
  BY <1>1
<1> HIDE DEF rs
<1>4. TaskFits(x)
  BY <1>3, NoTaskFits DEF TaskFits, Task
<1> HIDE DEF x
<1>5. TasksFit'
  BY <1>3, <1>4, BecomesFits DEF BackupInv, Thread
<1> QED
  BY <1>2, <1>5, BackupUnchanged DEF BackupInv, BeginPass

LEMMA NextJobFits ==
  ASSUME BackupInv, NextJob
  PROVE  BackupInv'
<1> DEFINE x(r) == [NoTask EXCEPT !.step = "look", !.repo = r,
                                  !.repos = task["worker"].repos \ {r}]
           r == CHOOSE q \in task["worker"].repos : TRUE
<1>1. r \in task["worker"].repos /\ Becomes("worker", x(r))
  BY DEF NextJob
<1>2. "worker" \in Thread
  BY DEF Thread
<1>3. r \in Repo /\ task["worker"].repos \ {r} \in SUBSET Repo
  BY <1>1, <1>2, TaskTypes DEF BackupInv
<1> HIDE DEF r
<1>4. TaskFits(x(r))
  BY <1>3, NoTaskFits DEF TaskFits, Task, TaskStep
<1> HIDE DEF x
<1>5. TasksFit'
  BY <1>1, <1>2, <1>4, BecomesFits DEF BackupInv
<1> QED
  BY <1>5, BackupUnchanged DEF BackupInv, NextJob

LEMMA NextRefreshFits ==
  ASSUME BackupInv, NextRefresh
  PROVE  BackupInv'
<1> DEFINE x(r, p) == [NoTask EXCEPT !.step = "get", !.repo = r, !.force = TRUE,
                                !.reason = IF "own" \in p.reasons THEN "own" ELSE "star"]
<1>1. \E r \in pushed, m \in Memory :
        /\ Gets(r, m) /\ mem' = m
        /\ IF m[r] = NoPin THEN pushed' = pushed \ {r} /\ UNCHANGED task
           ELSE Becomes("queue", x(r, m[r])) /\ UNCHANGED pushed
  BY Zenon DEF NextRefresh
<1>2. ASSUME NEW r \in pushed, NEW m \in Memory, Gets(r, m), mem' = m,
             IF m[r] = NoPin THEN pushed' = pushed \ {r} /\ UNCHANGED task
             ELSE Becomes("queue", x(r, m[r])) /\ UNCHANGED pushed
      PROVE  TasksFit' /\ PushedFits' /\ KnownFits' /\ SpentFits' /\ MemFits'
  <2>1. r \in Repo /\ "queue" \in Thread
    BY DEF BackupInv, PushedFits, Thread
  <2>2. TaskFits(x(r, m[r]))
    BY <2>1, NoTaskFits DEF TaskFits, Task, TaskStep, Reason
  <2> HIDE DEF x
  <2>3. MemFits' /\ KnownFits' /\ SpentFits'
    BY <1>2, MemoryFits, GetsFits DEF BackupInv, MemFits
  <2>4. PushedFits'
    BY <1>2 DEF BackupInv, PushedFits
  <2>5. TasksFit'
    BY <1>2, <2>1, <2>2, BecomesFits, BackupUnchanged DEF BackupInv
  <2> QED
    BY <2>3, <2>4, <2>5
<1> HIDE DEF x
<1>3. TasksFit' /\ PushedFits' /\ KnownFits' /\ SpentFits' /\ MemFits'
  BY <1>1, <1>2
<1> QED
  BY <1>3, BackupUnchanged DEF BackupInv, NextRefresh

LEMMA AskFits ==
  ASSUME BackupInv, NEW x, TaskFits(x), Ask(x)
  PROVE  /\ LiveFits' /\ StoredFits' /\ BlobsFit' /\ TasksFit' /\ PushedFits' /\ SpentFits'
<1>1. spent.ops + 1 \in 0..MaxOps
  BY BackupAssumption DEF BackupInv, SpentFits, Ask
<1>2. SpentFits'
  BY <1>1 DEF BackupInv, SpentFits, Ask
<1>3. TasksFit'
  BY BecomesFits DEF BackupInv, Ask, Thread
<1> QED
  BY <1>2, <1>3, BackupUnchanged DEF BackupInv, Ask

LEMMA UserFits ==
  ASSUME BackupInv, NEW r \in Repo, NEW reason \in Reason,
         AskPin(r, reason) \/ AskRescue(r) \/ AskClear(r)
  PROVE  BackupInv'
<1>1. CASE AskPin(r, reason)
  <2> DEFINE x == [NoTask EXCEPT !.step = "get", !.repo = r, !.reason = reason]
  <2>1. TaskFits(x)
    BY NoTaskFits DEF TaskFits, Task, TaskStep
  <2> HIDE DEF x
  <2> QED
    BY <1>1, <2>1, AskFits, BackupUnchanged DEF BackupInv, AskPin, x
<1>2. CASE AskRescue(r)
  <2> DEFINE x == [NoTask EXCEPT !.step = "fill", !.repo = r,
                                 !.left = Content(r, mem[r].tip) \ blobs]
  <2>1. Content(r, mem[r].tip) \ blobs \in SUBSET Hash
    BY ContentType DEF BackupInv, MemFits, Pin
  <2>2. TaskFits(x)
    BY <2>1, NoTaskFits DEF TaskFits, Task, TaskStep
  <2> HIDE DEF x
  <2> QED
    BY <1>2, <2>2, AskFits, BackupUnchanged DEF BackupInv, AskRescue, x
<1>3. CASE AskClear(r)
  <2> DEFINE x == [NoTask EXCEPT !.step = "forget", !.repo = r]
  <2>1. TaskFits(x)
    BY NoTaskFits DEF TaskFits, Task, TaskStep
  <2> HIDE DEF x
  <2>2. NoPin \in Pin /\ Reasoned(NoPin)
    BY BackupAssumption DEF NoPin, Pin, Tip, Reasoned
  <2>3. MemFits'
    BY <1>3, <2>2 DEF BackupInv, MemFits, Reasoned, AskClear
  <2> QED
    BY <1>3, <2>1, <2>3, AskFits, BackupUnchanged DEF BackupInv, AskClear, x
<1> QED
  BY <1>1, <1>2, <1>3

LEMMA PushFits ==
  ASSUME BackupInv, NEW r \in Repo, NEW here \in BOOLEAN, Push(r, here)
  PROVE  BackupInv'
<1>1. live[r] + 1 \in Tip
  BY BackupAssumption DEF BackupInv, LiveFits, Tip, Push
<1>2. LiveFits'
  BY <1>1 DEF BackupInv, LiveFits, Push
<1>3. PushedFits'
  BY DEF BackupInv, PushedFits, Push
<1> QED
  BY <1>2, <1>3, BackupUnchanged DEF BackupInv, Push

LEMMA ReloadFits ==
  ASSUME BackupInv, Reload
  PROVE  BackupInv'
<1>1. NoPin \in Pin /\ Reasoned(NoPin)
  BY BackupAssumption DEF NoPin, Pin, Tip, Reasoned
<1>2. MemFits' /\ KnownFits' /\ PushedFits'
  BY <1>1 DEF MemFits, KnownFits, PushedFits, Reload
<1>3. TasksFit'
  BY NoTaskFits DEF TasksFit, Reload
<1>4. SpentFits'
  BY FaultFits DEF BackupInv, Reload
<1> QED
  BY <1>2, <1>3, <1>4, BackupUnchanged DEF BackupInv, Reload

LEMMA BackupInvInit == BackupInit => BackupInv
<1> SUFFICES ASSUME BackupInit  PROVE BackupInv
  OBVIOUS
<1>1. 0 \in Tip /\ 1 \in Tip
  BY BackupAssumption DEF Tip
<1>2. PICK had \in SUBSET Repo :
        /\ stored = [r \in Repo |-> IF r \in had THEN [tip |-> 1, reasons |-> {"own"}] ELSE NoPin]
        /\ blobs = UNION {Content(r, 1) : r \in had}
  BY DEF BackupInit
<1>3. NoPin \in Pin /\ [tip |-> 1, reasons |-> {"own"}] \in Pin
  BY <1>1 DEF NoPin, Pin, Reason
<1>4. StoredFits
  BY <1>2, <1>3 DEF StoredFits, Reasoned
<1>5. BlobsFit
  BY <1>1, <1>2, ContentType DEF BlobsFit
<1>6. MemFits /\ KnownFits /\ PushedFits /\ LiveFits
  BY <1>1, <1>3 DEF MemFits, KnownFits, PushedFits, LiveFits, Reasoned, BackupInit
<1>7. TasksFit
  BY NoTaskFits DEF TasksFit, BackupInit
<1>8. SpentFits
  BY BackupAssumption DEF SpentFits, BackupInit
<1> QED
  BY <1>4, <1>5, <1>6, <1>7, <1>8 DEF BackupInv

LEMMA BackupInvStep == BackupInv /\ [BackupNext]_backupVars => BackupInv'
<1> SUFFICES ASSUME BackupInv, [BackupNext]_backupVars  PROVE BackupInv'
  OBVIOUS
<1>1. CASE UNCHANGED backupVars
  BY <1>1, BackupUnchanged DEF BackupInv, backupVars
<1>2. ASSUME NEW t \in Thread, ThreadNext(t)  PROVE BackupInv'
  BY <1>2, GetExistingFits, ReadTipFits, CheckDurableFits, CaptureFits, ConfirmFits,
     PutFits, PersistFits, ListPinsFits, ListBlobsFits, SweepFits, ForgetFits, FillFits,
     LookAtFits, CompareFits, MarkFits DEF ThreadNext
<1>3. ASSUME NEW r \in Repo, NEW reason \in Reason, AskPin(r, reason)  PROVE BackupInv'
  BY <1>3, UserFits
<1>4. ASSUME NEW r \in Repo, AskRescue(r) \/ AskClear(r)  PROVE BackupInv'
  <2>1. "own" \in Reason
    BY DEF Reason
  <2> QED
    BY <1>4, <2>1, UserFits
<1>5. Busy \subseteq Repo
  BY BackupAssumption
<1> QED
  BY <1>1, <1>2, <1>3, <1>4, <1>5, BeginPassFits, NextJobFits, NextRefreshFits, PushFits,
     ReloadFits DEF BackupNext

LEMMA BackupInvTypes == BackupInv => BackupTypeOK
BY DEF BackupInv, BackupTypeOK, LiveFits, StoredFits, MemFits, BlobsFit, TasksFit,
       TaskFits, PushedFits, KnownFits, SpentFits

\* The type invariant of the backups: whatever the menu, the pass and the queue do
\* under each other, what is pinned and stored is well formed.
THEOREM BackupTypeCorrect == BackupSpec => []BackupTypeOK
BY BackupInvTypes, BackupInvInit, BackupInvStep, PTL DEF BackupSpec
-----------------------------------------------------------------------------
(***************************************************************************)
(* Pins.  Beside the types, the node keeps no grant without the permission *)
(* and no packs without the grant: what an answer under way carries is of  *)
(* its type whatever was revoked since, so the guard at the node is what   *)
(* matters.                                                                *)
(***************************************************************************)
Packs == SUBSET (1..MaxPack)

NodeState == [app : BOOLEAN, scopes : SUBSET Grant, keep : Retention, ledger : Packs]
Holds(n) == /\ n \in NodeState
            /\ ~n.app => n.scopes = {}
            /\ Repository \notin n.scopes => n.ledger = {}

Pushing == [of : Device, what : Intent, base : {"unread", "fresh", "old"}]
Panel == [pc : {"rest", "authorize", "create", "sync"}, kind : {"pin", "keep"},
          keep : Retention, keys : Packs]
Syncing == [pc : {"rest", "status", "read", "put"}, ledger : Packs, keep : Retention, keys : Packs]

NodesHold == node \in [Device -> NodeState] /\ \A d \in Device : Holds(node[d])
IntentsFit == intent \in [Device -> Intent]
SealedFits == sealed \in Intent \cup {NoIntent}
PushesFit == pushes \subseteq Pushing
HydratesFit == hydrate \in [Device -> [pc : {"rest", "pull"}, local : Intent]]
PanelsFit == panel \in [Device -> Panel]
ProbesFit == probe \in [Device -> [cache : {"none", "known", "null"}, asking : BOOLEAN]]
SyncsFit == syncs \in [Device -> [SyncSlot -> Syncing]]
NewestFits == newest \in 1..MaxPack
PinSpentFits == pinSpent \in [ops : 0..MaxPinOps, faults : 0..MaxPinFaults]

ProtectInv == /\ NodesHold /\ IntentsFit /\ SealedFits /\ PushesFit /\ HydratesFit
              /\ PanelsFit /\ SyncsFit /\ ProbesFit /\ NewestFits /\ PinSpentFits

LEMMA ProtectUnchanged ==
  /\ node' = node /\ NodesHold => NodesHold'
  /\ intent' = intent /\ IntentsFit => IntentsFit'
  /\ sealed' = sealed /\ SealedFits => SealedFits'
  /\ pushes' = pushes /\ PushesFit => PushesFit'
  /\ hydrate' = hydrate /\ HydratesFit => HydratesFit'
  /\ panel' = panel /\ PanelsFit => PanelsFit'
  /\ syncs' = syncs /\ SyncsFit => SyncsFit'
  /\ probe' = probe /\ ProbesFit => ProbesFit'
  /\ newest' = newest /\ NewestFits => NewestFits'
  /\ pinSpent' = pinSpent /\ PinSpentFits => PinSpentFits'
BY DEF NodesHold, IntentsFit, SealedFits, PushesFit, HydratesFit, PanelsFit, SyncsFit,
       ProbesFit, NewestFits, PinSpentFits

LEMMA ProtectBounds ==
  LastN \in Nat /\ MaxPack \in Nat /\ MaxPack > 0 /\ MaxPinOps \in Nat /\ MaxPinFaults \in Nat
BY ProtectAssumption

LEMMA TipPackKeysType ==
  ASSUME NEW keep \in Retention, NEW tip \in 1..MaxPack
  PROVE  TipPackKeys(keep, tip) \in Packs
<1>1. 1..tip \subseteq 1..MaxPack /\ {tip} \subseteq 1..MaxPack
  BY ProtectBounds
<1>2. {i \in 1..tip : i < LastN} \subseteq 1..tip
  OBVIOUS
<1> QED
  BY <1>1, <1>2 DEF TipPackKeys, Retention, Packs

LEMMA RestingFits == NoSync \in Syncing /\ NoPanel \in Panel /\ NoHydrate.local \in Intent
                     /\ NoHydrate \in [pc : {"rest", "pull"}, local : Intent] /\ Empty \in Intent
BY DEF NoSync, NoPanel, NoHydrate, Syncing, Panel, Empty, Intent, Packs, Retention, Grant

LEMMA OperatesFits == PinSpentFits /\ Operates => PinSpentFits'
BY ProtectBounds DEF PinSpentFits, Operates

LEMMA FaultsFits == PinSpentFits /\ Faults => PinSpentFits'
BY ProtectBounds DEF PinSpentFits, Faults

LEMMA AskingFits ==
  ASSUME ProbesFit, NEW d \in Device,
         probe' \in {probe, [probe EXCEPT ![d].asking = TRUE]}
  PROVE  ProbesFit'
BY DEF ProbesFit

LEMMA ProbeFits ==
  ASSUME ProtectInv, NEW d \in Device, Probe(d)
  PROVE  ProtectInv'
<1> DEFINE said(c) == [cache |-> c, asking |-> FALSE]
<1>1. \E c \in {"known", "null"} : probe' = [probe EXCEPT ![d] = said(c)]
  BY DEF Probe
<1>2. \A c \in {"known", "null"} :
        said(c) \in [cache : {"none", "known", "null"}, asking : BOOLEAN]
  OBVIOUS
<1> HIDE DEF said
<1>3. ProbesFit'
  BY <1>1, <1>2 DEF ProtectInv, ProbesFit
<1> QED
  BY <1>3, FaultsFits, ProtectUnchanged DEF ProtectInv, Probe

LEMMA RememberFits ==
  ASSUME IntentsFit, PushesFit, NEW d \in Device, NEW n \in {1, 2},
         NEW steps \in [1..n -> Intent], Remember(d, steps)
  PROVE  IntentsFit' /\ PushesFit'
<1>1. DOMAIN steps = 1..n /\ n \in 1..n
  OBVIOUS
<1>2. Cardinality(1..n) = n
  <2>1. n \in Int /\ 1 \in Int /\ n - 1 + 1 = n /\ ~(1 > n)
    OBVIOUS
  <2>2. Cardinality(1..n) = IF 1 > n THEN 0 ELSE n - 1 + 1
    BY <2>1, FS_Interval
  <2> QED
    BY <2>1, <2>2
<1>3. steps[n] \in Intent
  BY <1>1
<1>4. \A k \in 1..n : Unread(d, steps[k]) \in Pushing
  BY DEF Unread, Pushing
<1>5. IntentsFit'
  BY <1>1, <1>2, <1>3 DEF Remember, IntentsFit
<1> QED
  BY <1>1, <1>4, <1>5 DEF Remember, PushesFit

LEMMA Steps == \A i \in Intent, j \in Intent :
                 <<i>> \in [1..1 -> Intent] /\ <<i, j>> \in [1..2 -> Intent]
<1> SUFFICES ASSUME NEW i \in Intent, NEW j \in Intent
             PROVE  <<i>> \in [1..1 -> Intent] /\ <<i, j>> \in [1..2 -> Intent]
  OBVIOUS
<1> QED
  OBVIOUS

LEMMA RememberOne ==
  ASSUME IntentsFit, PushesFit, NEW d \in Device, NEW i \in Intent, Remember(d, <<i>>)
  PROVE  IntentsFit' /\ PushesFit'
<1>1. <<i>> \in [1..1 -> Intent]
  OBVIOUS
<1> QED
  BY <1>1, RememberFits

LEMMA RememberTwo ==
  ASSUME IntentsFit, PushesFit, NEW d \in Device, NEW i \in Intent, NEW j \in Intent,
         Remember(d, <<i, j>>)
  PROVE  IntentsFit' /\ PushesFit'
<1>1. <<i, j>> \in [1..2 -> Intent]
  OBVIOUS
<1> QED
  BY <1>1, RememberFits

\* What a device remembers next.
LEMMA NextIntents ==
  ASSUME IntentsFit, NEW d \in Device
  PROVE  /\ intent[d] \in Intent
         /\ \A b \in BOOLEAN : [intent[d] EXCEPT !.app = b] \in Intent
         /\ \A g \in Grant : /\ Granted(intent[d], g) \in Intent
                             /\ [intent[d] EXCEPT !.scopes = intent[d].scopes \ {g}] \in Intent
BY DEF IntentsFit, Intent, Granted

LEMMA AnswersFits ==
  ASSUME ProtectInv, NEW d \in Device, NEW n \in {1, 2}, NEW steps \in [1..n -> Intent],
         Answers(d, steps), NodesHold'
  PROVE  ProtectInv'
<1>1. IntentsFit' /\ PushesFit'
  BY RememberFits, ProtectUnchanged DEF ProtectInv, Answers
<1>2. PinSpentFits' /\ ProbesFit'
  BY ProtectBounds, AskingFits DEF ProtectInv, PinSpentFits, Answers
<1> QED
  BY <1>1, <1>2, ProtectUnchanged DEF ProtectInv, Answers

LEMMA NodeFits ==
  ASSUME NodesHold, NEW d \in Device, NEW n, Holds(n), node' = [node EXCEPT ![d] = n]
  PROVE  NodesHold'
BY DEF NodesHold, Holds

LEMMA NodeFacts ==
  ASSUME NodesHold, NEW d \in Device
  PROVE  /\ node[d] \in NodeState /\ node[d].app \in BOOLEAN /\ node[d].scopes \subseteq Grant
         /\ node[d].keep \in Retention /\ node[d].ledger \in Packs
         /\ ~node[d].app => node[d].scopes = {}
         /\ Repository \notin node[d].scopes => node[d].ledger = {}
BY DEF NodesHold, Holds, NodeState
-----------------------------------------------------------------------------
LEMMA PushReadsFits ==
  ASSUME ProtectInv, NEW p \in pushes, PushReads(p)
  PROVE  ProtectInv'
<1>1. p \in Pushing
  BY DEF ProtectInv, PushesFit
<1>2. [p EXCEPT !.base = "fresh"] \in Pushing
  BY <1>1 DEF Pushing
<1>3. PushesFit'
  BY <1>2 DEF ProtectInv, PushesFit, PushReads
<1>4. PinSpentFits'
  BY FaultsFits, ProtectUnchanged DEF ProtectInv, PushReads
<1> QED
  BY <1>3, <1>4, ProtectUnchanged DEF ProtectInv, PushReads

LEMMA OutdatedType == \A ps \in SUBSET Pushing : Outdated(ps) \in SUBSET Pushing
<1> SUFFICES ASSUME NEW ps \in SUBSET Pushing, NEW q \in ps
             PROVE  (IF q.base = "fresh" THEN [q EXCEPT !.base = "old"] ELSE q) \in Pushing
  BY DEF Outdated
<1> QED
  BY DEF Pushing

LEMMA PushPutsFits ==
  ASSUME ProtectInv, NEW p \in pushes, PushPuts(p)
  PROVE  ProtectInv'
<1>1. p \in Pushing /\ pushes \ {p} \in SUBSET Pushing
  BY DEF ProtectInv, PushesFit
<1>2. p.what \in Intent /\ Outdated(pushes \ {p}) \in SUBSET Pushing
  BY <1>1, OutdatedType DEF Pushing
<1>3. PushesFit' /\ SealedFits'
  BY <1>1, <1>2, ProtectUnchanged DEF ProtectInv, PushesFit, SealedFits, PushPuts
<1>4. PinSpentFits'
  BY FaultsFits, ProtectUnchanged DEF ProtectInv, PushPuts
<1> QED
  BY <1>3, <1>4, ProtectUnchanged DEF ProtectInv, PushPuts

LEMMA PushedIntentFits ==
  ASSUME ProtectInv, PushedIntentElsewhere
  PROVE  ProtectInv'
<1>1. PushesFit' /\ SealedFits'
  BY OutdatedType DEF ProtectInv, PushesFit, SealedFits, PushedIntentElsewhere
<1> QED
  BY <1>1, OperatesFits, ProtectUnchanged DEF ProtectInv, PushedIntentElsewhere

LEMMA OpenSettingsFits ==
  ASSUME ProtectInv, NEW d \in Device, OpenSettings(d)
  PROVE  ProtectInv'
<1>1. HydratesFit' /\ ProbesFit'
  BY AskingFits DEF ProtectInv, HydratesFit, IntentsFit, OpenSettings
<1> QED
  BY <1>1, ProtectUnchanged DEF ProtectInv, OpenSettings

LEMMA HydrateFits ==
  ASSUME IntentsFit, PushesFit, NEW d \in Device, NEW given \in Intent \cup {NoIntent},
         Hydrate(d, given)
  PROVE  IntentsFit' /\ PushesFit'
<1> DEFINE kind == Kind(hydrate[d].local, given)
<1>1. kind = "local_behind" => given # NoIntent
  BY DEF Kind
<1>2. intent' = IF kind = "local_behind" THEN [intent EXCEPT ![d] = given] ELSE intent
  BY DEF Hydrate
<1>3. pushes' = IF kind \in {"vault_behind", "no_vault"}
                THEN pushes \cup {Unread(d, intent[d])} ELSE pushes
  BY DEF Hydrate
<1> HIDE DEF kind
<1>4. IntentsFit'
  BY <1>1, <1>2 DEF IntentsFit
<1>5. Unread(d, intent[d]) \in Pushing
  BY DEF Unread, Pushing, IntentsFit
<1> QED
  BY <1>3, <1>4, <1>5 DEF PushesFit

LEMMA PullFits ==
  ASSUME ProtectInv, NEW d \in Device, Pull(d)
  PROVE  ProtectInv'
<1>1. HydratesFit'
  BY RestingFits DEF ProtectInv, HydratesFit, Pull
<1>2. sealed \in Intent \cup {NoIntent} /\ NoIntent \in Intent \cup {NoIntent}
  BY DEF ProtectInv, SealedFits
<1>3. IntentsFit' /\ PushesFit' /\ PinSpentFits'
  BY <1>2, HydrateFits, FaultsFits, ProtectUnchanged DEF ProtectInv, Pull
<1> QED
  BY <1>1, <1>3, ProtectUnchanged DEF ProtectInv, Pull

LEMMA UseFits ==
  ASSUME ProtectInv, NEW d \in Device, UseLocal(d) \/ UseVault(d)
  PROVE  ProtectInv'
<1>1. CASE UseLocal(d)
  <2>1. IntentsFit' /\ PushesFit'
    BY <1>1, RememberOne, NextIntents DEF ProtectInv, UseLocal
  <2> QED
    BY <1>1, <2>1, OperatesFits, ProtectUnchanged DEF ProtectInv, UseLocal
<1>2. CASE UseVault(d)
  <2>1. IntentsFit'
    BY <1>2 DEF ProtectInv, IntentsFit, SealedFits, UseVault
  <2> QED
    BY <1>2, <2>1, OperatesFits, ProtectUnchanged DEF ProtectInv, UseVault
<1> QED
  BY <1>1, <1>2

LEMMA RequestLayerAFits ==
  ASSUME ProtectInv, NEW d \in Device, RequestLayerA(d)
  PROVE  ProtectInv'
<1>1. node' = [node EXCEPT ![d] = [node[d] EXCEPT !.app = TRUE]]
  BY DEF RequestLayerA
<1>2. Holds([node[d] EXCEPT !.app = TRUE])
  BY NodeFacts DEF ProtectInv, Holds, NodeState
<1>3. NodesHold'
  BY <1>1, <1>2, NodeFits DEF ProtectInv
<1>4. <<[intent[d] EXCEPT !.app = TRUE]>> \in [1..1 -> Intent]
  <2>1. [intent[d] EXCEPT !.app = TRUE] \in Intent
    BY NextIntents DEF ProtectInv
  <2> QED
    BY <2>1, Steps
<1> QED
  BY <1>3, <1>4, AnswersFits DEF RequestLayerA

LEMMA RevokeLayerAFits ==
  ASSUME ProtectInv, NEW d \in Device, RevokeLayerA(d)
  PROVE  ProtectInv'
<1> DEFINE n == [node[d] EXCEPT !.app = FALSE, !.scopes = {}, !.ledger = {}]
<1>1. node' = [node EXCEPT ![d] = n]
  BY DEF RevokeLayerA, ProtectInv, NodesHold, NodeState
<1>2. Holds(n)
  BY NodeFacts DEF ProtectInv, Holds, NodeState, Packs
<1> HIDE DEF n
<1>3. NodesHold'
  BY <1>1, <1>2, NodeFits DEF ProtectInv
<1>4. <<[intent[d] EXCEPT !.app = FALSE]>> \in [1..1 -> Intent]
  <2>1. [intent[d] EXCEPT !.app = FALSE] \in Intent
    BY NextIntents DEF ProtectInv
  <2> QED
    BY <2>1, Steps
<1> QED
  BY <1>3, <1>4, AnswersFits DEF RevokeLayerA

LEMMA GrantScopeFits ==
  ASSUME ProtectInv, NEW d \in Device, NEW a \in Grant, GrantScope(d, a)
  PROVE  ProtectInv'
<1> DEFINE n == [node[d] EXCEPT !.scopes = node[d].scopes \cup {a}]
<1>1. node' = [node EXCEPT ![d] = n]
  BY DEF GrantScope
<1>2. Holds(n)
  <2>1. n \in NodeState
    BY NodeFacts DEF ProtectInv, NodeState
  <2>2. a # Repository
    BY ProtectAssumption DEF GrantScope
  <2> QED
    BY <2>1, <2>2, NodeFacts DEF ProtectInv, Holds, NodeState, GrantScope
<1> HIDE DEF n
<1>3. NodesHold'
  BY <1>1, <1>2, NodeFits DEF ProtectInv
<1>4. <<Granted(intent[d], a)>> \in [1..1 -> Intent]
  <2>1. Granted(intent[d], a) \in Intent
    BY NextIntents DEF ProtectInv
  <2> QED
    BY <2>1, Steps
<1> QED
  BY <1>3, <1>4, AnswersFits DEF GrantScope

LEMMA RevokeScopeFits ==
  ASSUME ProtectInv, NEW d \in Device, NEW g \in Grant, RevokeScope(d, g)
  PROVE  ProtectInv'
<1> DEFINE n == [node[d] EXCEPT !.scopes = node[d].scopes \ {g},
                                !.ledger = IF g = Repository THEN {} ELSE node[d].ledger]
<1>1. node' = [node EXCEPT ![d] = n]
  BY DEF RevokeScope, ProtectInv, NodesHold, NodeState
<1>2. Holds(n)
  <2>1. n \in NodeState
    BY NodeFacts DEF ProtectInv, NodeState, Packs
  <2> QED
    BY <2>1, NodeFacts DEF ProtectInv, Holds, NodeState
<1> HIDE DEF n
<1>3. NodesHold'
  BY <1>1, <1>2, NodeFits DEF ProtectInv
<1>4. <<[intent[d] EXCEPT !.scopes = @ \ {g}]>> \in [1..1 -> Intent]
  <2>1. [intent[d] EXCEPT !.scopes = @ \ {g}] \in Intent
    BY NextIntents DEF ProtectInv
  <2> QED
    BY <2>1, Steps
<1> QED
  BY <1>3, <1>4, AnswersFits DEF RevokeScope

LEMMA RestoreScopeFits ==
  ASSUME ProtectInv, NEW d \in Device, NEW g \in Grant, RestoreScope(d, g)
  PROVE  ProtectInv'
<1> DEFINE n(keep) == [node[d] EXCEPT !.app = TRUE, !.scopes = node[d].scopes \cup {g},
                                      !.keep = IF g = Repository THEN keep ELSE node[d].keep]
<1>1. PICK keep \in Retention : node' = [node EXCEPT ![d] = n(keep)]
  BY DEF RestoreScope, ProtectInv, NodesHold, NodeState
<1>2. Holds(n(keep))
  <2>1. n(keep) \in NodeState
    BY NodeFacts DEF ProtectInv, NodeState
  <2> QED
    BY <2>1, NodeFacts DEF ProtectInv, Holds, NodeState
<1> HIDE DEF n
<1>3. NodesHold'
  BY <1>1, <1>2, NodeFits DEF ProtectInv
<1> DEFINE one == <<Granted(intent[d], g)>>
           two == <<[intent[d] EXCEPT !.app = TRUE], Granted(intent[d], g)>>
<1>4. one \in [1..1 -> Intent] /\ two \in [1..2 -> Intent]
  <2>1. Granted(intent[d], g) \in Intent /\ [intent[d] EXCEPT !.app = TRUE] \in Intent
    BY NextIntents DEF ProtectInv
  <2> QED
    BY <2>1, Steps
<1>5. Answers(d, one) \/ Answers(d, two)
  BY DEF RestoreScope
<1> HIDE DEF one, two
<1> QED
  BY <1>3, <1>4, <1>5, AnswersFits

LEMMA ReadTipsFits ==
  ASSUME ProtectInv, NEW d \in Device, NEW kind \in {"pin", "keep"}, NEW keep \in Retention,
         ReadTips(d, kind, keep)
  PROVE  ProtectInv'
<1> DEFINE x(tip) == [pc |-> IF kind = "pin" THEN "authorize" ELSE "create", kind |-> kind,
                      keep |-> keep, keys |-> TipPackKeys(keep, tip)]
<1>1. PICK tip \in 1..newest : panel' = [panel EXCEPT ![d] = x(tip)]
  BY DEF ReadTips
<1>2. tip \in 1..MaxPack
  BY ProtectBounds DEF ProtectInv, NewestFits
<1>3. x(tip) \in Panel
  BY <1>2, TipPackKeysType DEF Panel
<1> HIDE DEF x
<1>4. PanelsFit'
  BY <1>1, <1>3 DEF ProtectInv, PanelsFit
<1> QED
  BY <1>4, OperatesFits, ProtectUnchanged DEF ProtectInv, ReadTips

LEMMA PanelGoesOn ==
  ASSUME PanelsFit, NEW d \in Device
  PROVE  /\ panel[d].keep \in Retention /\ panel[d].keys \in Packs
         /\ \A pc \in {"create", "sync"} :
              panel' = [panel EXCEPT ![d].pc = pc] => PanelsFit'
         /\ panel' = [panel EXCEPT ![d] = NoPanel] => PanelsFit'
BY RestingFits DEF PanelsFit, Panel

LEMMA AuthorizeFits ==
  ASSUME ProtectInv, NEW d \in Device, Authorize(d)
  PROVE  ProtectInv'
<1> DEFINE n == [node[d] EXCEPT !.scopes = node[d].scopes \cup {Repository},
                                !.keep = panel[d].keep, !.ledger = panel[d].keys]
<1>1. PanelsFit' /\ PinSpentFits'
  BY PanelGoesOn, FaultsFits, ProtectUnchanged DEF ProtectInv, Authorize
<1>2. node' = node \/ (node[d].app /\ node' = [node EXCEPT ![d] = n])
  BY DEF Authorize, ProtectInv, NodesHold, NodeState
<1>3. node[d].app => Holds(n)
  <2>1. n \in NodeState
    BY NodeFacts, PanelGoesOn DEF ProtectInv, NodeState, Grant
  <2> QED
    BY <2>1, NodeFacts DEF ProtectInv, Holds, NodeState
<1> HIDE DEF n
<1>4. NodesHold'
  BY <1>2, <1>3, NodeFits, ProtectUnchanged DEF ProtectInv
<1> QED
  BY <1>1, <1>4, ProtectUnchanged DEF ProtectInv, Authorize

LEMMA CreateFits ==
  ASSUME ProtectInv, NEW d \in Device, Create(d)
  PROVE  ProtectInv'
<1> DEFINE n == [node[d] EXCEPT !.scopes = node[d].scopes \cup {Repository},
                                !.keep = panel[d].keep]
           steps == <<[intent[d] EXCEPT !.app = TRUE], Granted(intent[d], Repository)>>
<1>1. PanelsFit' /\ PinSpentFits'
  BY PanelGoesOn, FaultsFits, ProtectUnchanged DEF ProtectInv, Create
<1>2. node' = node \/ (node[d].app /\ node' = [node EXCEPT ![d] = n])
  BY DEF Create, ProtectInv, NodesHold, NodeState
<1>3. node[d].app => Holds(n)
  <2>1. n \in NodeState
    BY NodeFacts, PanelGoesOn DEF ProtectInv, NodeState, Grant
  <2> QED
    BY <2>1, NodeFacts DEF ProtectInv, Holds, NodeState
<1> HIDE DEF n
<1>4. NodesHold'
  BY <1>2, <1>3, NodeFits, ProtectUnchanged DEF ProtectInv
<1>5. UNCHANGED <<intent, pushes>> \/ Remember(d, steps)
  BY DEF Create
<1>6. Granted(intent[d], Repository) \in Intent /\ [intent[d] EXCEPT !.app = TRUE] \in Intent
  BY NextIntents DEF ProtectInv, Grant
<1>7. IntentsFit' /\ PushesFit'
  BY <1>5, <1>6, RememberTwo, ProtectUnchanged DEF ProtectInv
<1> QED
  BY <1>1, <1>4, <1>7, ProtectUnchanged DEF ProtectInv, Create

LEMMA SyncPanelFits ==
  ASSUME ProtectInv, NEW d \in Device, SyncPanel(d)
  PROVE  ProtectInv'
<1> DEFINE n == [node[d] EXCEPT !.ledger = panel[d].keys]
<1>1. PanelsFit' /\ PinSpentFits'
  BY PanelGoesOn, FaultsFits, ProtectUnchanged DEF ProtectInv, SyncPanel
<1>2. node' = node \/ (Repository \in node[d].scopes /\ node' = [node EXCEPT ![d] = n])
  BY DEF SyncPanel
<1>3. Repository \in node[d].scopes => Holds(n)
  <2>1. n \in NodeState
    BY NodeFacts, PanelGoesOn DEF ProtectInv, NodeState
  <2> QED
    BY <2>1, NodeFacts DEF ProtectInv, Holds, NodeState
<1> HIDE DEF n
<1>4. NodesHold'
  BY <1>2, <1>3, NodeFits, ProtectUnchanged DEF ProtectInv
<1>5. UNCHANGED <<intent, pushes>> \/ Remember(d, <<Granted(intent[d], Repository)>>)
  BY DEF SyncPanel
<1>6. Granted(intent[d], Repository) \in Intent
  BY NextIntents DEF ProtectInv, Grant
<1>7. IntentsFit' /\ PushesFit'
  BY <1>5, <1>6, RememberOne, ProtectUnchanged DEF ProtectInv
<1> QED
  BY <1>1, <1>4, <1>7, ProtectUnchanged DEF ProtectInv, SyncPanel

LEMMA StartsFits ==
  ASSUME SyncsFit, NEW d \in Device, NEW which, Starts(d, which)
  PROVE  SyncsFit'
<1> DEFINE x == [s \in SyncSlot |-> IF s \in which THEN [NoSync EXCEPT !.pc = "status"]
                                    ELSE syncs[d][s]]
<1>1. [NoSync EXCEPT !.pc = "status"] \in Syncing
  BY RestingFits DEF Syncing
<1>2. x \in [SyncSlot -> Syncing]
  BY <1>1 DEF SyncsFit
<1>3. syncs' = [syncs EXCEPT ![d] = x]
  BY DEF Starts
<1> HIDE DEF x
<1> QED
  BY <1>2, <1>3 DEF SyncsFit

LEMMA PushTipFits ==
  ASSUME ProtectInv, NEW d \in Device, Observe(d) \/ PushTip(d) \/ PushedElsewhere
  PROVE  ProtectInv'
<1>1. SyncsFit'
  BY StartsFits, ProtectUnchanged DEF ProtectInv, Observe, PushTip, PushedElsewhere
<1>2. NewestFits'
  BY ProtectBounds DEF ProtectInv, NewestFits, Observe, PushTip, PushedElsewhere
<1> QED
  BY <1>1, <1>2, ProtectUnchanged DEF ProtectInv, Observe, PushTip, PushedElsewhere

LEMMA SyncFits ==
  ASSUME SyncsFit, NEW d \in Device, NEW s \in SyncSlot, NEW y \in Syncing, Sync(d, s, y)
  PROVE  SyncsFit'
BY DEF SyncsFit, Sync

LEMMA SyncStatusFits ==
  ASSUME ProtectInv, NEW d \in Device, NEW s \in SyncSlot, SyncStatus(d, s)
  PROVE  ProtectInv'
<1> DEFINE y == [pc |-> "read", ledger |-> node[d].ledger, keep |-> node[d].keep, keys |-> {}]
<1>1. y \in Syncing
  BY NodeFacts DEF ProtectInv, Syncing, Packs
<1>2. Sync(d, s, y) \/ Sync(d, s, NoSync)
  BY DEF SyncStatus
<1> HIDE DEF y
<1>3. SyncsFit'
  BY <1>1, <1>2, SyncFits, RestingFits DEF ProtectInv
<1> QED
  BY <1>3, ProtectUnchanged DEF ProtectInv, SyncStatus

LEMMA SyncReadsFits ==
  ASSUME ProtectInv, NEW d \in Device, NEW s \in SyncSlot, SyncReads(d, s)
  PROVE  ProtectInv'
<1> DEFINE wanted == TipPackKeys(syncs[d][s].keep, newest)
           y == [syncs[d][s] EXCEPT !.pc = "put", !.keys = wanted]
<1>1. syncs[d][s] \in Syncing /\ syncs[d][s].keep \in Retention
  BY DEF ProtectInv, SyncsFit, Syncing
<1>2. wanted \in Packs
  BY <1>1, TipPackKeysType DEF ProtectInv, NewestFits
<1>3. (Sync(d, s, y) \/ Sync(d, s, NoSync)) /\ (UNCHANGED pinSpent \/ Faults)
  BY DEF SyncReads
<1> HIDE DEF wanted
<1>4. y \in Syncing
  BY <1>1, <1>2 DEF Syncing
<1> HIDE DEF y
<1>5. SyncsFit' /\ PinSpentFits'
  BY <1>3, <1>4, SyncFits, RestingFits, FaultsFits, ProtectUnchanged DEF ProtectInv
<1> QED
  BY <1>5, ProtectUnchanged DEF ProtectInv, SyncReads

LEMMA SyncPutsFits ==
  ASSUME ProtectInv, NEW d \in Device, NEW s \in SyncSlot, SyncPuts(d, s)
  PROVE  ProtectInv'
<1> DEFINE n == [node[d] EXCEPT !.ledger = syncs[d][s].keys]
<1>1. syncs[d][s].keys \in Packs
  BY DEF ProtectInv, SyncsFit, Syncing
<1>2. node' = node \/ (Repository \in node[d].scopes /\ node' = [node EXCEPT ![d] = n])
  BY DEF SyncPuts
<1>3. Repository \in node[d].scopes => Holds(n)
  <2>1. n \in NodeState
    BY <1>1, NodeFacts DEF ProtectInv, NodeState
  <2> QED
    BY <2>1, NodeFacts DEF ProtectInv, Holds, NodeState
<1> HIDE DEF n
<1>4. NodesHold'
  BY <1>2, <1>3, NodeFits, ProtectUnchanged DEF ProtectInv
<1>5. SyncsFit' /\ PinSpentFits'
  BY SyncFits, RestingFits, FaultsFits, ProtectUnchanged DEF ProtectInv, SyncPuts
<1> QED
  BY <1>4, <1>5, ProtectUnchanged DEF ProtectInv, SyncPuts

LEMMA ReloadDeviceFits ==
  ASSUME ProtectInv, NEW d \in Device, ReloadDevice(d)
  PROVE  ProtectInv'
<1>1. IntentsFit' /\ PushesFit'
  BY RestingFits DEF ProtectInv, IntentsFit, PushesFit, ReloadDevice
<1>2. HydratesFit' /\ PanelsFit' /\ SyncsFit'
  BY RestingFits DEF ProtectInv, HydratesFit, PanelsFit, SyncsFit, ReloadDevice
<1>3. ProbesFit'
  BY DEF ProtectInv, ProbesFit, Unasked, ReloadDevice
<1> QED
  BY <1>1, <1>2, <1>3, FaultsFits, ProtectUnchanged DEF ProtectInv, ReloadDevice

LEMMA ProtectInvInit == ProtectInit => ProtectInv
<1> SUFFICES ASSUME ProtectInit  PROVE ProtectInv
  OBVIOUS
<1>1. Holds(NoGrant) /\ Holds([NoGrant EXCEPT !.app = TRUE])
  BY DEF Holds, NoGrant, NodeState, Packs, Retention
<1>2. \A keep \in Retention : Holds(Pinned(keep))
  <2> SUFFICES ASSUME NEW keep \in Retention  PROVE Holds(Pinned(keep))
    OBVIOUS
  <2>1. TipPackKeys(keep, 1) \in Packs
    BY TipPackKeysType, ProtectBounds
  <2> QED
    BY <2>1 DEF Holds, Pinned, NodeState, Grant
<1>3. \A d \in Device : Holds(node[d])
  <2> SUFFICES ASSUME NEW d \in Device  PROVE Holds(node[d])
    OBVIOUS
  <2>1. node[d] \in {NoGrant, [NoGrant EXCEPT !.app = TRUE]} \cup {Pinned(keep) : keep \in Retention}
    BY DEF ProtectInit
  <2> QED
    BY <1>1, <1>2, <2>1
<1>4. NodesHold
  BY <1>3 DEF NodesHold, ProtectInit, Holds
<1>5. IntentsFit
  <2>1. PICK once \in SUBSET Device :
          intent = [d \in Device |-> [app |-> node[d].app, scopes |->
                      node[d].scopes \cup IF d \in once THEN {Repository} ELSE {}]]
    BY DEF ProtectInit
  <2> SUFFICES ASSUME NEW d \in Device
               PROVE  [app |-> node[d].app, scopes |->
                         node[d].scopes \cup IF d \in once THEN {Repository} ELSE {}] \in Intent
    BY <2>1 DEF IntentsFit
  <2> QED
    BY <1>4, NodeFacts DEF Intent, Grant
<1>6. SealedFits
  BY <1>5 DEF SealedFits, IntentsFit, ProtectInit
<1>7. PushesFit /\ HydratesFit /\ PanelsFit /\ SyncsFit
  BY RestingFits DEF PushesFit, HydratesFit, PanelsFit, SyncsFit, ProtectInit
<1>8. NewestFits /\ PinSpentFits /\ ProbesFit
  BY ProtectBounds DEF NewestFits, PinSpentFits, ProbesFit, Unasked, ProtectInit
<1> QED
  BY <1>4, <1>5, <1>6, <1>7, <1>8 DEF ProtectInv

LEMMA ProtectInvStep == ProtectInv /\ [ProtectNext]_protectVars => ProtectInv'
<1> SUFFICES ASSUME ProtectInv, [ProtectNext]_protectVars  PROVE ProtectInv'
  OBVIOUS
<1>1. CASE UNCHANGED protectVars
  BY <1>1, ProtectUnchanged DEF ProtectInv, protectVars
<1>2. CASE PushNext
  BY <1>2, PushReadsFits, PushPutsFits DEF PushNext
<1>3. CASE PushedElsewhere
  <2>1. NewestFits'
    BY <1>3, ProtectBounds DEF ProtectInv, NewestFits, PushedElsewhere
  <2> QED
    BY <1>3, <2>1, ProtectUnchanged DEF ProtectInv, PushedElsewhere
<1>4. ASSUME NEW d \in Device, DeviceNext(d)  PROVE ProtectInv'
  BY <1>4, ProbeFits, OpenSettingsFits, PullFits, UseFits, RequestLayerAFits, RevokeLayerAFits,
     GrantScopeFits, RevokeScopeFits, RestoreScopeFits, ReadTipsFits, AuthorizeFits, CreateFits,
     SyncPanelFits, PushTipFits, SyncStatusFits, SyncReadsFits, SyncPutsFits, ReloadDeviceFits
     DEF DeviceNext, PanelNext, SyncNext
<1> QED
  BY <1>1, <1>2, <1>3, <1>4, PushedIntentFits DEF ProtectNext

LEMMA ProtectInvTypes == ProtectInv => ProtectTypeOK
BY DEF ProtectInv, ProtectTypeOK, NodesHold, Holds, NodeState, Packs, IntentsFit, SealedFits,
       PushesFit, Pushing, ProbesFit

\* The type invariant of the pins: no grant without the permission, no packs without
\* the grant.
THEOREM ProtectTypeCorrect == ProtectSpec => []ProtectTypeOK
BY ProtectInvTypes, ProtectInvInit, ProtectInvStep, PTL DEF ProtectSpec
-----------------------------------------------------------------------------
(***************************************************************************)
(* The parts side by side.  They share no state: a step of one leaves the  *)
(* others as they are, and each starts as it starts by itself.             *)
(***************************************************************************)
TransportInv == GetsInv /\ WritesInv /\ PoolInv /\ BrowseInv /\ BackupInv /\ ProtectInv

LEMMA TransportInvInit == TransportInit => TransportInv
BY GetsInvInit, WritesInvInit, PoolInvInit, BrowseInvInit, BackupInvInit, ProtectInvInit
   DEF TransportInit, TransportInv

LEMMA TransportStepsAreParts ==
  [TransportNext]_transportVars =>
    /\ [Next]_vars /\ [WritesNext]_writeVars /\ [PoolNext]_poolVars
    /\ [BrowseNext]_browseVars /\ [BackupNext]_backupVars /\ [ProtectNext]_protectVars
BY DEF TransportNext, transportVars

LEMMA TransportInvStep == TransportInv /\ [TransportNext]_transportVars => TransportInv'
<1> SUFFICES ASSUME TransportInv, [TransportNext]_transportVars  PROVE TransportInv'
  OBVIOUS
<1>1. /\ [Next]_vars /\ [WritesNext]_writeVars /\ [PoolNext]_poolVars
      /\ [BrowseNext]_browseVars /\ [BackupNext]_backupVars /\ [ProtectNext]_protectVars
  BY TransportStepsAreParts
<1>2. GetsInv' /\ WritesInv' /\ PoolInv'
  BY <1>1, GetsInvStep, WritesInvStep, PoolInvStep DEF TransportInv
<1>3. BrowseInv' /\ BackupInv' /\ ProtectInv'
  BY <1>1, BrowseInvInductive, BackupInvStep, ProtectInvStep DEF TransportInv
<1> QED
  BY <1>2, <1>3 DEF TransportInv

\* The type invariant of everything between a page and its node, in the composition
\* the transport run checks.
THEOREM TransportTypeOKAlways == TransportSpec => []TransportTypeOK
<1>1. TransportInv => TypeOK /\ WritesTypeOK /\ PoolTypeOK
  BY DEF TransportInv, GetsInv, WritesInv, PoolInv
<1>2. TransportInv => BrowseTypeOK /\ BackupTypeOK /\ ProtectTypeOK
  BY BackupInvTypes, ProtectInvTypes DEF TransportInv, BrowseInv
<1>3. TransportInv => TransportTypeOK
  BY <1>1, <1>2 DEF TransportTypeOK
<1> QED
  BY <1>3, TransportInvInit, TransportInvStep, PTL DEF TransportSpec

\* Every safety property of the transport run, in the composition it checks: the
\* theorems about the parts hold of the parts side by side.
THEOREM TransportIsSafe ==
  TransportSpec =>
    /\ [](NoGetLost /\ HandleIsOfAttempt /\ AbortedNotAnswered) /\ HighServedFirst
    /\ [](DoneMeansChanged /\ OneRequestPerConnection) /\ []GivesOwnChunk
    /\ []TipsAreLive
<1>1. TransportInv => NoGetLost /\ HandleIsOfAttempt /\ AbortedNotAnswered
  BY GetsNotLost, GetsNotAnswered DEF TransportInv, GetsInv, HandleIsOfAttempt
<1>2. TransportInv => DoneMeansChanged /\ OneRequestPerConnection
  BY DEF TransportInv, WritesInv, Distinct, OneRequestPerConnection
<1>3. TransportInv => GivesOwnChunk /\ TipsAreLive
  BY BrowseTipsLive DEF TransportInv, PoolInv
<1>4. TransportInv /\ [TransportNext]_transportVars => [Spared]_vars
  BY LowSpared, TransportStepsAreParts DEF TransportInv
<1>5. TransportSpec => [][Spared]_vars
  BY <1>4, TransportInvInit, TransportInvStep, PTL DEF TransportSpec
<1>6. TransportSpec => HighServedFirst
  BY <1>5 DEF HighServedFirst, Spared
<1> QED
  BY <1>1, <1>2, <1>3, <1>6, TransportInvInit, TransportInvStep, PTL DEF TransportSpec
=============================================================================
