----------------------------- MODULE StreamTail -----------------------------
(***************************************************************************)
(* A streamed container log (StreamingDockerTailer of                      *)
(* logging/docker_tailer.py, under log_loop, the tracker of batches and    *)
(* handle_log_batch_ack).  One "docker logs --follow" process is drained   *)
(* read by read; the reads run ahead of their acks, each issuing a range   *)
(* of timestamps that starts where the stream is.  The checkpoint, a       *)
(* timestamp, moves to the end of the confirmed prefix of the ranges, and  *)
(* a range that is no longer pending makes the next read start the process *)
(* again from the checkpoint.                                              *)
(*                                                                         *)
(* A read runs in a thread that goes on when its session ends.  Readers    *)
(* has one element for a thread that ends before the next session reads,   *)
(* two when the next session's read overlaps it.                           *)
(***************************************************************************)
EXTENDS Naturals, Sequences, FiniteSets, SequencesExt

CONSTANTS
    Readers,     \* threads that may be in read_new_lines()
    Batches,     \* batch ids; one is used again when nothing names it any more
    Cap,         \* max_lines_per_batch
    Ties,        \* whether two lines may fall into one microsecond
    MaxLines,    \* bound: lines the container writes
    MaxFailures, \* bound: deaths of the follow and crashes of the agent
    MaxSessions  \* bound: connections

ASSUME StreamAssumption ==
    /\ IsFiniteSet(Readers) /\ IsFiniteSet(Batches)
    /\ Cap \in Nat \ {0} /\ Ties \in BOOLEAN
    /\ {MaxLines, MaxFailures, MaxSessions} \subseteq Nat

VARIABLES
    ts,        \* the container's log: line -> its timestamp, in microseconds
    wanted,    \* lines that match the filter
    cp,        \* the stored timestamp
    proc,      \* the follow: its number, whether it runs, its next line, its last one
    stream,    \* _stream_ts, 0 for None: the stream is at the checkpoint
    issued,    \* _issued: the open ranges, in order
    pending,   \* PendingBatches: batch id -> receipt
    sent, wire, acks,
    loop,      \* log_loop: "off", "ready" or "collecting"
    recv,      \* the ack handler: its batch, and how far its confirm is
    orphans,   \* receipts whose confirm runs on after its handler was cancelled
    reader,    \* thread -> its read
    failures, sessions,
    delivered  \* history: lines the control plane has read

NoRange == [from |-> 0, to |-> 0]
Free == [pc |-> "free", live |-> FALSE, snap |-> {}, proc |-> 0, rc |-> NoRange, got |-> {}]
NotReceiving == [batch |-> {}, stage |-> "none", rc |-> NoRange]
NoProcess == [id |-> 0, runs |-> FALSE, next |-> 0, last |-> 0]

tailerVars == <<cp, proc, stream, issued>>
channelVars == <<sent, wire, acks, delivered>>
sessionVars == <<loop, recv, orphans, sessions>>
vars == <<ts, wanted, tailerVars, pending, channelVars, sessionVars, reader, failures>>

Init ==
    /\ ts = <<>> /\ wanted = {}
    /\ cp = 1 /\ proc = NoProcess /\ stream = 0 /\ issued = <<>>
    /\ pending = [b \in {} |-> NoRange]
    /\ sent = [b \in {} |-> {}] /\ wire = {} /\ acks = {} /\ delivered = {}
    /\ loop = "off" /\ recv = NotReceiving /\ orphans = {} /\ sessions = 0
    /\ reader = [r \in Readers |-> Free]
    /\ failures = 0

----------------------------------------------------------------------------
(* The container and the follow process.                                   *)

WriteLine(matches, tied) ==
    LET now == IF ts = <<>> THEN 1 ELSE IF tied THEN Last(ts) ELSE Last(ts) + 1
    IN  /\ Len(ts) < MaxLines /\ (tied => Ties)
        /\ ts' = ts \o <<now>>
        /\ wanted' = IF matches THEN wanted \cup {Len(ts) + 1} ELSE wanted
        /\ UNCHANGED <<tailerVars, pending, channelVars, sessionVars, reader, failures>>

\* The follow dies: what it had printed stays in the pipe.
Die ==
    /\ proc.runs /\ failures < MaxFailures /\ failures' = failures + 1
    /\ proc' = [proc EXCEPT !.runs = FALSE, !.last = Len(ts)]
    /\ UNCHANGED <<ts, wanted, cp, stream, issued, pending, channelVars, sessionVars, reader>>

Printed == IF proc.runs THEN Len(ts) ELSE proc.last

\* The first line at or after a timestamp: --since is inclusive.
Since(t) == Cardinality({n \in DOMAIN ts : ts[n] < t}) + 1

----------------------------------------------------------------------------
(* StreamingDockerTailer.                                                  *)

\* Mutant: a range that was dropped is not missed.
NeverLost(snap) == FALSE

\* _lost(): a range issued, never confirmed, no longer awaits its ack.
Lost(snap) == \E k \in DOMAIN issued : ~issued[k].done /\ issued[k].rc \notin snap

\* read_new_lines() up to the drain, under the lock.  The read starts where the stream
\* is, else at the checkpoint.
From == IF stream = 0 THEN cp ELSE stream

Reading(r, pc, p, from) ==
    [reader EXCEPT ![r].pc = pc, ![r].proc = p, ![r].rc = [from |-> from, to |-> from]]

\* No range was lost and the follow runs.
Begin(r) ==
    /\ reader[r].pc = "begin" /\ ~Lost(reader[r].snap) /\ proc.runs
    /\ reader' = Reading(r, "drain", proc.id, From)
    /\ UNCHANGED <<ts, wanted, tailerVars, pending, channelVars, sessionVars, failures>>

\* A lost range rewinds the follow; _spawn() starts it at the checkpoint and drops
\* every range.
Spawn(r) ==
    /\ reader[r].pc = "begin" /\ (Lost(reader[r].snap) \/ ~proc.runs)
    /\ stream' = 0 /\ issued' = <<>>
    /\ \E i \in 1 .. Cardinality(Readers) + 1 :
          /\ i \notin {reader[q].proc : q \in Readers}
          /\ proc' = [id |-> i, runs |-> TRUE, next |-> Since(cp), last |-> 0]
          /\ reader' = Reading(r, "drain", i, cp)
    /\ UNCHANGED <<ts, wanted, cp, pending, channelVars, sessionVars, failures>>

\* _open() fails: the ranges are gone all the same, and nothing is read.
SpawnFails(r) ==
    /\ reader[r].pc = "begin" /\ (Lost(reader[r].snap) \/ ~proc.runs)
    /\ stream' = 0 /\ issued' = <<>> /\ proc' = NoProcess
    /\ reader' = Reading(r, "issue", 0, cp)
    /\ UNCHANGED <<ts, wanted, cp, pending, channelVars, sessionVars, failures>>

\* _RESPAWN_DELAY_SECONDS since the last attempt are not over; a rewind lifts that.
Throttled(r) ==
    /\ reader[r].pc = "begin" /\ ~Lost(reader[r].snap) /\ ~proc.runs
    /\ proc' = NoProcess
    /\ reader' = Reading(r, "issue", 0, From)
    /\ UNCHANGED <<ts, wanted, cp, stream, issued, pending, channelVars, sessionVars, failures>>

\* _drain_lines(), unlocked: one line off the pipe of the process it began with.
Drain(r) ==
    LET j == reader[r]
    IN  /\ j.pc = "drain" /\ j.proc = proc.id /\ proc.next =< Printed /\ Cardinality(j.got) < Cap
        /\ reader' = [reader EXCEPT ![r].got = @ \cup {proc.next}]
        /\ proc' = [proc EXCEPT !.next = @ + 1]
        /\ UNCHANGED <<ts, wanted, cp, stream, issued, pending, channelVars, sessionVars, failures>>

\* The drain returns: the cap, the window or the end of the pipe.
DrainEnds(r) ==
    /\ reader[r].pc = "drain"
    /\ reader' = [reader EXCEPT ![r].pc = "issue"]
    /\ UNCHANGED <<ts, wanted, tailerVars, pending, channelVars, sessionVars, failures>>

\* _advance_nanos(): --since parses no finer than a microsecond.
TickPast(t) == t + 1

Latest(S) == CHOOSE n \in S : \A m \in S : m =< n

\* The lines that match the filter.
Matched(got) == got \cap wanted

\* read_new_lines() after the drain, under the lock: lines issue a range.
Issue(r) ==
    LET j == reader[r]
        rc == [j.rc EXCEPT !.to = TickPast(ts[Latest(j.got)])]
    IN  /\ j.pc = "issue"
        /\ IF j.got = {}
           THEN reader' = [reader EXCEPT ![r].pc = "done"] /\ UNCHANGED <<stream, issued>>
           ELSE /\ stream' = rc.to /\ issued' = Append(issued, [rc |-> rc, done |-> FALSE])
                /\ reader' = [reader EXCEPT ![r].rc = rc,
                                 ![r].pc = IF Matched(j.got) = {} THEN "skip" ELSE "done"]
        /\ UNCHANGED <<ts, wanted, cp, proc, pending, channelVars, sessionVars, failures>>

\* The open ranges that equal a receipt.
Matching(rc) == {k \in DOMAIN issued : issued[k].rc = rc /\ ~issued[k].done}

\* Mutant: the checkpoint goes to the end of the last range done.
PrefixAny(q) == LET D == {k \in DOMAIN q : q[k].done} IN IF D = {} THEN 0 ELSE Latest(D)

\* The length of the done prefix of the ranges.
Prefix(q) == Latest({k \in 0 .. Len(q) : \A m \in 1 .. k : q[m].done})

\* confirm_shipped(), under the lock: the first open range equal to the receipt is
\* done, and the checkpoint moves to the end of the done prefix.
ConfirmShipped(rc) ==
    IF Matching(rc) = {} THEN UNCHANGED <<cp, issued>>
    ELSE LET first == CHOOSE k \in Matching(rc) : \A m \in Matching(rc) : k =< m
             q == [issued EXCEPT ![first].done = TRUE]
         IN  /\ issued' = SubSeq(q, Prefix(q) + 1, Len(q))
             /\ cp' = IF Prefix(q) = 0 THEN cp ELSE q[Prefix(q)].rc.to

\* collect_batch(): a read without a match is done at once.
SkipFiltered(r) ==
    /\ reader[r].pc = "skip"
    /\ ConfirmShipped(reader[r].rc)
    /\ reader' = [reader EXCEPT ![r].pc = "done"]
    /\ UNCHANGED <<ts, wanted, proc, stream, pending, channelVars, sessionVars, failures>>

----------------------------------------------------------------------------
(* log_loop and the tracker of batches.                                    *)

Pruned(P) == [b \in DOMAIN pending \ P |-> pending[b]]

\* A turn of the loop: stale batches are dropped and a read starts, never held back.
Turn(r, P) ==
    /\ loop = "ready" /\ reader[r].pc = "free"
    /\ pending' = Pruned(P)
    /\ loop' = "collecting"
    /\ reader' = [reader EXCEPT ![r] = [Free EXCEPT !.pc = "begin", !.live = TRUE,
          !.snap = {Pruned(P)[b] : b \in DOMAIN Pruned(P)}]]
    /\ UNCHANGED <<ts, wanted, tailerVars, channelVars, recv, orphans, sessions, failures>>

\* Batch ids nothing names.
FreeIds == Batches \ (DOMAIN pending \cup DOMAIN sent \cup recv.batch)

\* _ship_one() after its read.
Ship(r) ==
    LET j == reader[r]
    IN  /\ j.pc = "done" /\ j.live /\ loop' = "ready"
        /\ reader' = [reader EXCEPT ![r] = Free]
        /\ IF Matched(j.got) = {} THEN UNCHANGED <<pending, sent, wire>>
           ELSE \E b \in FreeIds :
                  /\ pending' = [c \in DOMAIN pending \cup {b} |-> IF c = b THEN j.rc ELSE pending[c]]
                  /\ sent' = [c \in DOMAIN sent \cup {b} |-> IF c = b THEN Matched(j.got) ELSE sent[c]]
                  /\ wire' = wire \cup {b}
        /\ UNCHANGED <<ts, wanted, tailerVars, acks, delivered, recv, orphans, sessions, failures>>

\* A read whose caller is gone is thrown away.
Discard(r) ==
    /\ reader[r].pc = "done" /\ ~reader[r].live
    /\ reader' = [reader EXCEPT ![r] = Free]
    /\ UNCHANGED <<ts, wanted, tailerVars, pending, channelVars, sessionVars, failures>>

----------------------------------------------------------------------------
(* The control plane and its acks, in any order.                           *)

ControlPlaneReads(b) ==
    /\ b \in wire
    /\ wire' = wire \ {b} /\ acks' = acks \cup {b}
    /\ delivered' = delivered \cup sent[b]
    /\ UNCHANGED <<ts, wanted, tailerVars, pending, sent, sessionVars, reader, failures>>

\* handle_log_batch_ack(): an unknown batch is ignored, a known one's receipt goes to
\* a thread to confirm.
HandleAck(b) ==
    /\ b \in acks /\ recv.stage = "none"
    /\ acks' = acks \ {b} /\ sent' = [c \in DOMAIN sent \ {b} |-> sent[c]]
    /\ recv' = IF b \in DOMAIN pending THEN [batch |-> {b}, stage |-> "asked", rc |-> pending[b]] ELSE recv
    /\ UNCHANGED <<ts, wanted, tailerVars, pending, wire, delivered, loop, orphans, sessions, reader, failures>>

Confirm ==
    /\ recv.stage = "asked"
    /\ ConfirmShipped(recv.rc)
    /\ recv' = [recv EXCEPT !.stage = "done"]
    /\ UNCHANGED <<ts, wanted, proc, stream, pending, channelVars, loop, orphans, sessions, reader, failures>>

\* The handler pops the batch, confirmed or refused.
Pop ==
    /\ recv.stage = "done"
    /\ pending' = Pruned(recv.batch) /\ recv' = NotReceiving
    /\ UNCHANGED <<ts, wanted, tailerVars, channelVars, loop, orphans, sessions, reader, failures>>

\* A confirm whose handler was cancelled runs all the same.
LateConfirm(rc) ==
    /\ rc \in orphans /\ orphans' = orphans \ {rc}
    /\ ConfirmShipped(rc)
    /\ UNCHANGED <<ts, wanted, proc, stream, pending, channelVars, loop, recv, sessions, reader, failures>>

----------------------------------------------------------------------------
(* Sessions and restarts.                                                  *)

Connect ==
    /\ loop = "off" /\ sessions < MaxSessions
    /\ loop' = "ready" /\ sessions' = sessions + 1
    /\ UNCHANGED <<ts, wanted, tailerVars, pending, channelVars, recv, orphans, reader, failures>>

\* The session's tasks are cancelled: the ack handler's finally pops its batch, and its
\* confirm and the reads run on.
Disconnect ==
    /\ loop # "off" /\ loop' = "off"
    /\ pending' = Pruned(recv.batch) /\ recv' = NotReceiving
    /\ orphans' = IF recv.stage = "asked" THEN orphans \cup {recv.rc} ELSE orphans
    /\ reader' = [r \in Readers |-> [reader[r] EXCEPT !.live = FALSE]]
    /\ sent' = [b \in {} |-> {}] /\ wire' = {} /\ acks' = {}
    /\ UNCHANGED <<ts, wanted, tailerVars, delivered, sessions, failures>>

\* The agent dies, and its follow with it, and starts again at the checkpoint.
Crash ==
    /\ failures < MaxFailures /\ failures' = failures + 1
    /\ proc' = NoProcess /\ stream' = 0 /\ issued' = <<>>
    /\ loop' = "off" /\ recv' = NotReceiving /\ orphans' = {}
    /\ pending' = [b \in {} |-> NoRange]
    /\ reader' = [r \in Readers |-> Free]
    /\ sent' = [b \in {} |-> {}] /\ wire' = {} /\ acks' = {}
    /\ UNCHANGED <<ts, wanted, cp, delivered, sessions>>

Read(r) ==
    \/ Begin(r) \/ Spawn(r) \/ SpawnFails(r) \/ Throttled(r)
    \/ Drain(r) \/ DrainEnds(r) \/ Issue(r) \/ SkipFiltered(r)
    \/ Ship(r) \/ Discard(r)

Next ==
    \/ \E matches, tied \in BOOLEAN : WriteLine(matches, tied)
    \/ Die
    \/ \E r \in Readers : Read(r) \/ \E P \in SUBSET DOMAIN pending : Turn(r, P)
    \/ \E b \in Batches : ControlPlaneReads(b) \/ HandleAck(b)
    \/ Confirm \/ Pop
    \/ \E rc \in orphans : LateConfirm(rc)
    \/ Connect \/ Disconnect
    \/ Crash

Spec == Init /\ [][Next]_vars

\* The ack of a batch comes within ack_timeout_seconds, unless its session is lost.
AcksInTime ==
    loop' = "collecting" /\ loop = "ready" =>
        (DOMAIN pending \ DOMAIN pending') \cap (wire \cup acks \cup recv.batch) = {}

\* The loop turns, its threads run on and a batch without its ack is pruned; not every
\* spawn fails, and the follow dies finitely often; batches are read and acked in time
\* while the session lasts; a lost session is followed by another.
Prune == \E r \in Readers : \E P \in SUBSET DOMAIN pending : P # {} /\ Turn(r, P)
FairSpec ==
    /\ Init /\ [][Next /\ AcksInTime]_vars
    /\ \A r \in Readers :
          /\ WF_vars(Read(r)) /\ WF_vars(Turn(r, {}))
          /\ SF_vars(Spawn(r)) /\ SF_vars(Drain(r))
    /\ SF_vars(Prune /\ AcksInTime)
    /\ WF_vars(\E b \in Batches : ControlPlaneReads(b)) /\ WF_vars(\E b \in Batches : HandleAck(b))
    /\ WF_vars(Confirm \/ Pop) /\ WF_vars(Connect)

----------------------------------------------------------------------------
Ranges == [from : 0 .. MaxLines + 1, to : 0 .. MaxLines + 1]

TypeOK ==
    /\ ts \in Seq(1 .. MaxLines) /\ Len(ts) =< MaxLines
    /\ wanted \subseteq DOMAIN ts /\ delivered \subseteq wanted
    /\ cp \in 1 .. MaxLines + 1 /\ stream \in 0 .. MaxLines + 1
    /\ proc \in [id : 0 .. Cardinality(Readers) + 1, runs : BOOLEAN, next : 0 .. MaxLines + 1, last : 0 .. MaxLines]
    /\ issued \in Seq([rc : Ranges, done : BOOLEAN])
    /\ DOMAIN pending \subseteq Batches /\ pending \in [DOMAIN pending -> Ranges]
    /\ DOMAIN sent = wire \cup acks /\ sent \in [DOMAIN sent -> SUBSET wanted]
    /\ loop \in {"off", "ready", "collecting"}
    /\ recv \in [batch : SUBSET Batches, stage : {"none", "asked", "done"}, rc : Ranges]
    /\ orphans \subseteq Ranges
    /\ reader \in [Readers -> [
          pc : {"free", "begin", "drain", "issue", "skip", "done"}, live : BOOLEAN,
          snap : SUBSET Ranges, proc : 0 .. Cardinality(Readers) + 1, rc : Ranges, got : SUBSET DOMAIN ts]]
    /\ failures \in 0 .. MaxFailures /\ sessions \in 0 .. MaxSessions

\* The checkpoint passes a matching line only when the control plane has it: acks out
\* of order, ranges lost and pruned, a follow that dies, confirms that come after
\* their session and crashes notwithstanding (class docstring: "the checkpoint moves
\* only to the end of the confirmed prefix, and a range lost from ``pending`` rewinds
\* the follow").
NoSkip == \A n \in wanted : ts[n] < cp => n \in delivered

\* A matching line the control plane does not have is still to come off the follow, or
\* will when the follow is started again, or is held by a reader or by an open range:
\* nothing else may forget it.
NothingForgotten ==
    \A n \in wanted \ delivered :
        \/ proc.runs /\ n >= proc.next
        \/ ~proc.runs /\ ts[n] >= cp
        \/ \E r \in Readers : n \in reader[r].got /\ reader[r].pc \in {"drain", "issue"}
        \/ \E k \in DOMAIN issued :
              /\ ~issued[k].done
              /\ issued[k].rc.from =< ts[n] /\ ts[n] < issued[k].rc.to /\ cp =< ts[n]

OutOfBounds == FreeIds = {} \/ (loop = "off" /\ sessions = MaxSessions)

\* Every matching line reaches the control plane, whatever is pruned, lost or rewound
\* on its way, within the bounds on sessions and batch ids.
StreamDelivers == \A n \in 1 .. MaxLines : n \in wanted ~> n \in delivered \/ OutOfBounds

\* No line is passed over: not by the checkpoint, nor between the follow, the buffer and
\* the open ranges.
StreamSound == NoSkip /\ NothingForgotten
=============================================================================
