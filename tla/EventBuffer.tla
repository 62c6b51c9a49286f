---------------------------- MODULE EventBuffer ----------------------------
(***************************************************************************)
(* The wide-event buffer (stormpulse/events.py, class EventBuffer) and the *)
(* path its events take: the events loop of a session drains a batch and   *)
(* sends it, the control plane answers ack or nack, the connection is lost *)
(* at any moment and the next session requeues what was never answered.    *)
(*                                                                         *)
(* An event is its seq; its contents matter only for the two kinds of      *)
(* event the buffer makes up itself, and those are kept in "records".  The *)
(* in-flight dict (batch id -> events, in drain order) is the flat         *)
(* sequence "flight" of its events, each tagged with its batch: batch ids  *)
(* are fresh, so they are numbered in drain order.  Every operation of the *)
(* class holds its lock throughout, hence is one step.                     *)
(***************************************************************************)
EXTENDS Naturals, Sequences, FiniteSets

CONSTANTS
    MaxEvents,    \* MAX_BUFFERED_EVENTS, the bound of the buffer
    MaxBatch,     \* MAX_BATCH_EVENTS, the most one drain takes
    MaxInFlight,  \* MAX_IN_FLIGHT_BATCHES, batches awaiting an answer
    MaxSegment,   \* bound: the most events one extend() is given
    MaxSeq,       \* bound: events ever stamped
    MaxRefused,   \* bound: events ever refused for an undeclared shape
    MaxSessions,  \* bound: connections ever made
    Feeders       \* how many spool feeders share the buffer

ASSUME BufferAssumption ==
    /\ MaxEvents \in Nat \ {0}
    /\ MaxBatch \in Nat \ {0}
    /\ MaxInFlight \in Nat \ {0}

ASSUME BoundAssumption ==
    {MaxSegment, MaxSeq, MaxRefused, MaxSessions, Feeders} \subseteq Nat

VARIABLES
    buf,          \* _buf: the buffered seqs, oldest first
    flight,       \* _in_flight, flat: [batch, seq] in drain order
    seq,          \* _seq: the last seq stamped
    dropped,      \* _dropped: losses not yet on a record
    undeclared,   \* _undeclared: refusals not yet on a record
    records,      \* seq -> contents, of the synthesized events
    lastBatch,    \* batch ids handed out (uuid4 in the code)
    link,         \* "up" while a session's task group runs
    sessions,     \* connections made so far
    shipping,     \* the batch events_loop awaits ws.send for, if any
    wire,         \* batches sent and not yet read by the control plane
    replies,      \* its answers, not yet read by the agent
    reading,      \* feeders that found room and have not extended yet
    received,     \* history: seqs the control plane has read
    acked, nacked, lost,  \* history: how each released seq left the agent
    refusals,     \* history: events refused
    raised        \* history: batches of this session whose send raised

bufferVars == <<buf, flight, seq, dropped, undeclared, records>>
linkVars == <<lastBatch, link, sessions, shipping, wire, replies>>
historyVars == <<received, acked, nacked, lost, refusals, raised>>
vars == <<bufferVars, linkVars, historyVars, reading>>

----------------------------------------------------------------------------
SeqsOf(q) == {q[i] : i \in DOMAIN q}

FlightSeqs == {flight[i].seq : i \in DOMAIN flight}

BatchSeqs(b) == {flight[i].seq : i \in {j \in DOMAIN flight : flight[j].batch = b}}

InFlightIds == {flight[i].batch : i \in DOMAIN flight}

Held == SeqsOf(buf) \cup FlightSeqs

\* What _buf keeps of q once the bound is enforced by dropping from the left.
Newest(q) == IF Len(q) > MaxEvents THEN SubSeq(q, Len(q) - MaxEvents + 1, Len(q)) ELSE q

Overflow(q) == IF Len(q) > MaxEvents THEN SubSeq(q, 1, Len(q) - MaxEvents) ELSE <<>>

\* A batch is contiguous in flight: the entries before it and the ones after it.
Cut(q, b) == CHOOSE n \in 0 .. Len(q) : \A i \in DOMAIN q : i =< n <=> q[i].batch < b

\* Mutant: the entry after the batch goes with it.
WithoutOneMore(q, b) == SubSeq(q, 1, Cut(q, b)) \o SubSeq(q, Cut(q, b + 1) + 2, Len(q))

Without(q, b) == SubSeq(q, 1, Cut(q, b)) \o SubSeq(q, Cut(q, b + 1) + 1, Len(q))

Stamp(n) == [i \in 1 .. n |-> seq + i]

----------------------------------------------------------------------------
Init ==
    /\ buf = <<>> /\ flight = <<>> /\ seq = 0
    /\ dropped = 0 /\ undeclared = 0
    /\ records = [s \in {} |-> [dropped |-> 0, undeclared |-> 0]]
    /\ lastBatch = 0 /\ link = "down" /\ sessions = 0
    /\ shipping = {} /\ wire = {} /\ replies = {} /\ reading = 0
    /\ received = {} /\ acked = {} /\ nacked = {} /\ lost = {} /\ refusals = 0
    /\ raised = {}

\* extend(): stamp n events, append each, dropping the oldest when full.
Extend(n, refused) ==
    /\ seq + n =< MaxSeq
    /\ seq' = seq + n
    /\ buf' = Newest(buf \o Stamp(n))
    /\ dropped' = dropped + Len(Overflow(buf \o Stamp(n)))
    /\ lost' = lost \cup SeqsOf(Overflow(buf \o Stamp(n)))
    /\ undeclared' = undeclared + refused
    /\ refusals' = refusals + refused

\* emit() of an admitted event, from any thread.
Emit ==
    /\ Extend(1, 0)
    /\ UNCHANGED <<flight, records, linkVars, reading, received, acked, nacked, raised>>

\* emit() of an event whose shape is undeclared: refuse().
Refuse ==
    /\ refusals < MaxRefused
    /\ undeclared' = undeclared + 1
    /\ refusals' = refusals + 1
    /\ UNCHANGED <<buf, flight, seq, dropped, records, linkVars, reading, received, acked, nacked,
                   lost, raised>>

\* A feeder's tick: room() is asked first, under a lock of its own; the segment
\* is read, and extend() takes the lock again with whatever has been emitted since.
FindRoom ==
    /\ reading < Feeders
    /\ MaxEvents - Len(buf) >= MaxSegment
    /\ reading' = reading + 1
    /\ UNCHANGED <<bufferVars, linkVars, historyVars>>

Feed(n, refused) ==
    /\ reading > 0
    /\ reading' = reading - 1
    /\ refusals + refused =< MaxRefused
    /\ Extend(n, refused)
    /\ UNCHANGED <<flight, records, linkVars, received, acked, nacked, raised>>

----------------------------------------------------------------------------
\* The buffer drain() takes from: a dropped_events record goes in front of it
\* when there is something to own up to.
Owing == dropped > 0 \/ undeclared > 0

Fronted == IF Owing THEN <<seq + 1>> \o buf ELSE buf

Taken == IF Len(Fronted) > MaxBatch THEN MaxBatch ELSE Len(Fronted)

\* uuid4 in the code: an id no batch had before.
NewBatchId == lastBatch + 1

\* flight with the drained batch added, before the cap is enforced
Drained == flight \o [i \in 1 .. Taken |-> [batch |-> NewBatchId, seq |-> Fronted[i]]]

Evicts == Cardinality(InFlightIds) >= MaxInFlight

Oldest == flight[1].batch

\* Mutant: an eviction counts the batch, not its events.
EvictedBatches == 1

\* What an eviction adds to _dropped: every event of the batch.
EvictedCount == Cardinality(BatchSeqs(Oldest))

\* The drain half of one pass of events_loop, up to its await of ws.send.
Drain ==
    /\ link = "up" /\ shipping = {}
    /\ Fronted # <<>>
    /\ Owing => seq < MaxSeq
    /\ seq' = IF Owing THEN seq + 1 ELSE seq
    /\ records' = IF Owing
                  THEN [s \in DOMAIN records \cup {seq + 1} |->
                          IF s = seq + 1
                          THEN [dropped |-> dropped, undeclared |-> undeclared]
                          ELSE records[s]]
                  ELSE records
    /\ buf' = SubSeq(Fronted, Taken + 1, Len(Fronted))
    /\ undeclared' = 0
    /\ flight' = IF Evicts THEN Without(Drained, Oldest) ELSE Drained
    /\ dropped' = IF Evicts THEN EvictedCount ELSE 0
    /\ lost' = IF Evicts THEN lost \cup BatchSeqs(Oldest) ELSE lost
    /\ lastBatch' = lastBatch + 1
    /\ shipping' = {[batch |-> NewBatchId, seqs |-> SeqsOf(SubSeq(Fronted, 1, Taken))]}
    /\ UNCHANGED <<link, sessions, wire, replies, reading, received, acked, nacked, refusals, raised>>

\* ws.send returns: the batch is on the wire.
Send ==
    /\ shipping # {}
    /\ wire' = wire \cup shipping
    /\ shipping' = {}
    /\ UNCHANGED <<bufferVars, lastBatch, link, sessions, replies, reading, historyVars>>

\* Building or sending the envelope raises anything but ConnectionClosed: it
\* is logged and the loop goes on, the batch still in flight.
SendError ==
    /\ shipping # {}
    /\ shipping' = {}
    /\ raised' = raised \cup {m.batch : m \in shipping}
    /\ UNCHANGED <<bufferVars, lastBatch, link, sessions, wire, replies, reading,
                   received, acked, nacked, lost, refusals>>

----------------------------------------------------------------------------
\* The control plane reads a batch and answers it, in any order.
Answer(m, verdict) ==
    /\ wire' = wire \ {m}
    /\ replies' = replies \cup {[batch |-> m.batch, verdict |-> verdict]}
    /\ received' = received \cup m.seqs
    /\ UNCHANGED <<bufferVars, lastBatch, link, sessions, shipping, reading,
                   acked, nacked, lost, refusals, raised>>

ControlPlaneAck == \E m \in wire : Answer(m, "ack")

ControlPlaneNack == \E m \in wire : Answer(m, "nack")

\* Mutant: an ack is taken to cover every batch up to its own.
HandleAckCumulative(r) ==
    /\ r.verdict = "ack"
    /\ replies' = replies \ {r}
    /\ flight' = SubSeq(flight, Cut(flight, r.batch + 1) + 1, Len(flight))
    /\ acked' = acked \cup {flight[i].seq : i \in 1 .. Cut(flight, r.batch + 1)}
    /\ UNCHANGED <<buf, seq, dropped, undeclared, records, lastBatch, link, sessions,
                   shipping, wire, reading, received, nacked, lost, refusals, raised>>

\* handle_events_batch_ack -> ack(); an unknown id releases nothing.
HandleAck(r) ==
    /\ r.verdict = "ack"
    /\ replies' = replies \ {r}
    /\ flight' = Without(flight, r.batch)
    /\ acked' = acked \cup BatchSeqs(r.batch)
    /\ UNCHANGED <<buf, seq, dropped, undeclared, records, lastBatch, link, sessions,
                   shipping, wire, reading, received, nacked, lost, refusals, raised>>

\* handle_events_batch_nack -> nack(), then an events_nacked event if the
\* batch was known.
HandleNack(r) ==
    /\ r.verdict = "nack"
    /\ replies' = replies \ {r}
    /\ flight' = Without(flight, r.batch)
    /\ nacked' = nacked \cup BatchSeqs(r.batch)
    /\ IF r.batch \in InFlightIds
       THEN Extend(1, 0)
       ELSE UNCHANGED <<buf, seq, dropped, undeclared, lost, refusals>>
    /\ UNCHANGED <<records, lastBatch, link, sessions, shipping, wire, reading,
                   received, acked, raised>>

----------------------------------------------------------------------------
\* Mutant: the unacked batches go behind what was emitted since.
RequeuedBehind == buf \o [i \in DOMAIN flight |-> flight[i].seq]

\* requeue_unacked(): every batch in flight, oldest first, in front of the rest.
Requeued == [i \in DOMAIN flight |-> flight[i].seq] \o buf

\* Mutant: the new session does not put back what the last one left unanswered.
ConnectForgets ==
    /\ link = "down" /\ sessions < MaxSessions
    /\ link' = "up"
    /\ sessions' = sessions + 1
    /\ raised' = {}
    /\ UNCHANGED <<bufferVars, lastBatch, shipping, wire, replies, reading,
                   received, acked, nacked, lost, refusals>>

\* _run_session past its handshake: requeue_unacked(), then the task group.
Connect ==
    /\ link = "down" /\ sessions < MaxSessions
    /\ link' = "up"
    /\ sessions' = sessions + 1
    /\ buf' = Newest(Requeued)
    /\ dropped' = dropped + Len(Overflow(Requeued))
    /\ lost' = lost \cup SeqsOf(Overflow(Requeued))
    /\ flight' = <<>>
    /\ raised' = {}
    /\ UNCHANGED <<seq, undeclared, records, lastBatch, shipping, wire, replies,
                   reading, received, acked, nacked, refusals>>

\* The connection is lost: the task group ends, what was on its way in either
\* direction is gone, and run_with_backoff emits a reconnect event.
Disconnect ==
    /\ link = "up"
    /\ link' = "down"
    /\ shipping' = {} /\ wire' = {} /\ replies' = {}
    /\ Extend(1, 0)
    /\ UNCHANGED <<flight, records, lastBatch, sessions, reading, received, acked, nacked, raised>>

Next ==
    \/ Emit
    \/ Refuse
    \/ FindRoom
    \/ \E n \in 0 .. MaxSegment, refused \in 0 .. MaxSegment : Feed(n, refused)
    \/ Drain
    \/ Send
    \/ SendError
    \/ ControlPlaneAck
    \/ ControlPlaneNack
    \/ \E r \in replies : HandleAck(r) \/ HandleNack(r)
    \/ Connect
    \/ Disconnect

Spec == Init /\ [][Next]_vars

(***************************************************************************)
(* Fairness: the events loop runs on the session's event loop and its      *)
(* sends return or raise; a control plane that is there answers each batch;*)
(* the receive loop reads every answer.  Nothing makes an emitter emit, a  *)
(* connection drop or a feeder read; a dropped connection is retried for   *)
(* ever (run_with_backoff).                                                *)
(***************************************************************************)
Fairness ==
    /\ WF_vars(Drain)
    /\ WF_vars(Send)
    /\ WF_vars(ControlPlaneAck \/ ControlPlaneNack)
    /\ WF_vars(\E r \in replies : HandleAck(r) \/ HandleNack(r))
    /\ WF_vars(Connect)

FairSpec == Spec /\ Fairness

----------------------------------------------------------------------------
TypeOK ==
    /\ seq \in 0 .. MaxSeq
    /\ buf \in Seq(1 .. MaxSeq)
    /\ flight \in Seq([batch : Nat, seq : 1 .. MaxSeq])
    /\ dropped \in Nat /\ undeclared \in Nat
    /\ DOMAIN records \subseteq 1 .. MaxSeq
    /\ \A s \in DOMAIN records : records[s] \in [dropped : Nat, undeclared : Nat]
    /\ lastBatch \in Nat
    /\ link \in {"up", "down"} /\ sessions \in 0 .. MaxSessions
    /\ shipping \subseteq [batch : Nat, seqs : SUBSET (1 .. MaxSeq)]
    /\ wire \subseteq [batch : Nat, seqs : SUBSET (1 .. MaxSeq)]
    /\ replies \subseteq [batch : Nat, verdict : {"ack", "nack"}]
    /\ reading \in 0 .. Feeders
    /\ received \subseteq 1 .. MaxSeq /\ acked \subseteq 1 .. MaxSeq
    /\ nacked \subseteq 1 .. MaxSeq /\ lost \subseteq 1 .. MaxSeq
    /\ refusals \in Nat /\ raised \subseteq Nat

\* No event is forgotten and none is held twice: every seq ever stamped sits in
\* exactly one place of the buffer or of one batch in flight, or has left in
\* exactly one of the three ways (acked, nacked, dropped).  About drain(),
\* ack(), nack(), requeue_unacked() and the drop paths of extend().
Conservation ==
    /\ Held \cup acked \cup nacked \cup lost = 1 .. seq
    /\ \A i, j \in DOMAIN buf : buf[i] = buf[j] => i = j
    /\ \A i, j \in DOMAIN flight : flight[i].seq = flight[j].seq => i = j
    /\ SeqsOf(buf) \cap FlightSeqs = {}
    /\ Held \cap (acked \cup nacked \cup lost) = {}
    /\ acked \cap nacked = {} /\ acked \cap lost = {} /\ nacked \cap lost = {}

\* Memory stays bounded whatever the control plane does: the buffer by
\* MAX_BUFFERED_EVENTS, also after a requeue, and the batches in flight by
\* MAX_IN_FLIGHT_BATCHES.
Bounded ==
    /\ Len(buf) =< MaxEvents
    /\ Cardinality(InFlightIds) =< MaxInFlight

\* An ack releases only what the control plane has read: late, reordered and
\* repeated answers and requeued batches included (handle_events_batch_ack).
ReleasedWereReceived == acked \cup nacked \subseteq received

\* Events are shipped in the order they were stamped: what is in flight, in
\* drain order, then what is buffered, is increasing once the dropped_events
\* records, which jump the queue, are left aside; so what drops is the oldest.
OrderKept ==
    LET line == [i \in DOMAIN flight |-> flight[i].seq] \o buf
    IN  \A i, j \in DOMAIN line :
            i < j /\ line[i] \notin DOMAIN records /\ line[j] \notin DOMAIN records
                => line[i] < line[j]

\* f[1] + ... + f[n], as a recursive function, which can be proved about.
Total(f, n) ==
    LET sum[k \in 0 .. n] == IF k = 0 THEN 0 ELSE sum[k - 1] + f[k]
    IN  sum[n]

DroppedBy == [s \in 1 .. MaxSeq |-> IF s \in DOMAIN records THEN records[s].dropped ELSE 0]

UndeclaredBy == [s \in 1 .. MaxSeq |-> IF s \in DOMAIN records THEN records[s].undeclared ELSE 0]

\* Every drop and every refusal is put on exactly one record: the counters plus
\* what the dropped_events records have said so far is what was really lost and
\* refused, through overflow, eviction and requeue overflow alike.
LossAccounted ==
    /\ dropped + Total(DroppedBy, MaxSeq) = Cardinality(lost)
    /\ undeclared + Total(UndeclaredBy, MaxSeq) = refusals

\* With the connection up and the control plane answering, an event does not
\* stay in the agent: it is acked, nacked or dropped, also when the connection
\* was lost with its batch unanswered and the next session has to requeue it.
\* The one exception is a batch whose own send raised in a session that is
\* still up: it waits for the next one.  Nothing is claimed once a bound of
\* the model stops the agent from stamping or reconnecting.
Stranded(s) ==
    link = "up" /\ \E i \in DOMAIN flight : flight[i].seq = s /\ flight[i].batch \in raised

OutOfBounds == seq = MaxSeq \/ (link = "down" /\ sessions = MaxSessions)

EventuallyReleased ==
    \A s \in 1 .. MaxSeq :
        s \in Held ~> s \notin Held \/ Stranded(s) \/ OutOfBounds

\* Buffer and in-flight batches stay in order and within their bounds.
QueueSound == OrderKept /\ Bounded
=============================================================================
