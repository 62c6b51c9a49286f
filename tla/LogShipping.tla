---------------------------- MODULE LogShipping ----------------------------
(***************************************************************************)
(* One file log group, from the file to the control plane and back         *)
(* (logging/tailer.py, logging/shipper.py, agent/log_batches.py, log_loop  *)
(* of agent/loops.py and handle_log_batch_ack of agent/acks.py).  A read   *)
(* starts at the stored checkpoint; only the ack of its batch, or a read   *)
(* in which nothing matches, moves the checkpoint.                         *)
(*                                                                         *)
(* Reads and confirms run in worker threads, which go on when the session  *)
(* that awaits them ends.  Meanwhile the file grows, is renamed away, or   *)
(* is truncated in place.  Positions count lines; an incarnation is what   *)
(* an inode holds between two truncations, and its head (4096 bytes) is    *)
(* taken to tell it from any other.                                        *)
(***************************************************************************)
EXTENDS Naturals, FiniteSets

CONSTANTS
    Workers,     \* threads that may be reading or confirming
    Batches,     \* batch ids; one is used again when nothing names it any more
    Cap,         \* max_lines_per_batch
    TornReads,   \* whether a truncation may fall inside one read
    MaxLines,    \* bound: lines of an incarnation
    MaxIncs,     \* bound: incarnations
    MaxSessions, \* bound: connections
    MaxRestarts  \* bound: crashes of the agent

ASSUME LogAssumption ==
    /\ IsFiniteSet(Workers) /\ IsFiniteSet(Batches)
    /\ Cap \in Nat \ {0} /\ TornReads \in BOOLEAN
    /\ {MaxLines, MaxIncs, MaxSessions, MaxRestarts} \subseteq Nat

VARIABLES
    path,      \* the inode source_path names, 0 while it names none
    file,      \* inode -> [inc, len]
    incs,      \* incarnations so far; inodes are numbered by their first one
    wanted,    \* lines that match the filter: <<incarnation, line>>
    cp,        \* the stored Checkpoint: [pos, inode, inc], inode 0 when unseen
    pending,   \* PendingBatches: batch id -> receipt
    released,  \* the group's asyncio.Event
    sent,      \* batch id -> the lines it carries, from its send until its ack
    wire, acks,
    loop,      \* log_loop: "off", "ready", "collecting" or "waiting"
    receiving, \* the batches whose ack handler awaits its confirm: none or one
    worker,    \* thread -> its job
    sessions, restarts,
    delivered  \* history: lines the control plane has read

NoReceipt == [inode |-> 0, inc |-> 0, from |-> 0, to |-> 0]

\* A worker's job.  pc: where it stands; live: whether its caller still awaits it;
\* at and got: the position reached and the lines read; snap: the receipts pending
\* when it started; ok: what confirm_shipped returned.
Free == [pc |-> "free", job |-> "none", live |-> FALSE, rc |-> NoReceipt, at |-> 0,
         got |-> {}, snap |-> {}, ok |-> FALSE]

sourceVars == <<path, file, incs, wanted>>
trackVars == <<pending, released>>
channelVars == <<sent, wire, acks, delivered>>
sessionVars == <<loop, receiving, sessions>>
vars == <<sourceVars, cp, trackVars, channelVars, sessionVars, worker, restarts>>

NoBatches == [b \in {} |-> NoReceipt]

Init ==
    /\ path = 1 /\ file = [i \in {1} |-> [inc |-> 1, len |-> 0]] /\ incs = 1 /\ wanted = {}
    /\ cp = [pos |-> 0, inode |-> 0, inc |-> 0]
    /\ pending = NoBatches /\ released = FALSE
    /\ sent = [b \in {} |-> {}] /\ wire = {} /\ acks = {} /\ delivered = {}
    /\ loop = "off" /\ receiving = {} /\ sessions = 0
    /\ worker = [w \in Workers |-> Free]
    /\ restarts = 0

----------------------------------------------------------------------------
(* The log file.                                                           *)

AppendLine(matches) ==
    LET f == file[path]
    IN  /\ path # 0 /\ f.len < MaxLines
        /\ file' = [file EXCEPT ![path].len = @ + 1]
        /\ wanted' = IF matches THEN wanted \cup {<<f.inc, f.len + 1>>} ELSE wanted
        /\ UNCHANGED <<path, incs, cp, trackVars, channelVars, sessionVars, worker, restarts>>

\* Rotation by rename: the path names nothing until the writer opens a new file.
RenameAway ==
    /\ path # 0 /\ incs < MaxIncs
    /\ path' = 0
    /\ UNCHANGED <<file, incs, wanted, cp, trackVars, channelVars, sessionVars, worker, restarts>>

Create ==
    /\ path = 0 /\ incs < MaxIncs
    /\ incs' = incs + 1 /\ path' = incs + 1
    /\ file' = [i \in DOMAIN file \cup {incs + 1} |->
          IF i = incs + 1 THEN [inc |-> i, len |-> 0] ELSE file[i]]
    /\ UNCHANGED <<wanted, cp, trackVars, channelVars, sessionVars, worker, restarts>>

\* Rotation by copytruncate: the inode stays.
Truncate ==
    /\ path # 0 /\ incs < MaxIncs
    /\ TornReads \/ \A w \in Workers : ~(worker[w].pc = "read" /\ worker[w].rc.inode = path /\ worker[w].got # {})
    /\ incs' = incs + 1
    /\ file' = [file EXCEPT ![path] = [inc |-> incs + 1, len |-> 0]]
    /\ UNCHANGED <<path, wanted, cp, trackVars, channelVars, sessionVars, worker, restarts>>

----------------------------------------------------------------------------
(* LogTailer.                                                              *)

\* _holds(): the inode and the head are those of the generation.
Holds(i, inc) == inc = file[i].inc

\* _resume_point(): the stored offset if it belongs to the open file, else 0.
ResumePoint(i) ==
    IF cp.inode = i /\ Holds(i, cp.inc) /\ cp.pos =< file[i].len THEN cp.pos ELSE 0

\* Mutant: the start of the range is not compared with the checkpoint.
CoversEnd(start, base, end) == base < end

\* start <= base < end: a late ack would rewind, one past a gap would skip it.
Covers(start, base, end) == start =< base /\ base < end

\* confirm_shipped() up to the store: the file at the path still is the generation
\* read and reaches the receipt's end, and the range covers the checkpoint.
Confirmable(rc) ==
    /\ path = rc.inode /\ path # 0
    /\ Holds(path, rc.inc) /\ rc.to =< file[path].len
    /\ Covers(rc.from, ResumePoint(path), rc.to)

\* holds_back(): a pending read of the same inode may carry matches below rc's end.
HoldsBack(p, rc) == p.inode = rc.inode /\ p.from < rc.to

\* read_new_lines(): the file is opened and its resume point taken; no file, no lines.
Open(w) ==
    /\ worker[w].pc = "open"
    /\ worker' = [worker EXCEPT ![w] =
          IF path = 0 THEN [@ EXCEPT !.pc = "done"]
          ELSE [@ EXCEPT !.pc = "read", !.at = ResumePoint(path),
                         !.rc = [NoReceipt EXCEPT !.inode = path, !.from = ResumePoint(path)]]]
    /\ UNCHANGED <<sourceVars, cp, trackVars, channelVars, sessionVars, restarts>>

\* One line from the open descriptor, whatever its file has become.  A line is there as a
\* whole: a writer's half line, which readline() returns as it stands, is not modelled.
ReadLine(w) ==
    LET j == worker[w]
        f == file[j.rc.inode]
    IN  /\ j.pc = "read" /\ j.at < f.len /\ j.at - j.rc.from < Cap
        /\ worker' = [worker EXCEPT ![w].at = @ + 1, ![w].got = @ \cup {<<f.inc, j.at + 1>>}]
        /\ UNCHANGED <<sourceVars, cp, trackVars, channelVars, sessionVars, restarts>>

\* The lines that contain filter_contains.
Matched(got) == got \cap wanted

\* The cap or the end of the file: the receipt names the generation there now.  With
\* lines but no match, collect_batch() goes on to skip_filtered().
ReadEnd(w) ==
    LET j == worker[w]
        f == file[j.rc.inode]
        filtered == j.got # {} /\ Matched(j.got) = {}
    IN  /\ j.pc = "read" /\ (j.at >= f.len \/ j.at - j.rc.from >= Cap)
        /\ worker' = [worker EXCEPT ![w].rc.inc = f.inc, ![w].rc.to = j.at,
                                    ![w].pc = IF filtered THEN "check" ELSE "done"]
        /\ UNCHANGED <<sourceVars, cp, trackVars, channelVars, sessionVars, restarts>>

\* confirm_shipped() reads the checkpoint and the file, for an ack or for a filtered
\* read that no pending one holds back.
Check(w) ==
    LET j == worker[w]
        heldBack == j.job = "collect" /\ \E p \in j.snap : HoldsBack(p, j.rc)
    IN  /\ j.pc = "check"
        /\ worker' = [worker EXCEPT ![w].pc =
              IF ~heldBack /\ Confirmable(j.rc) THEN "store" ELSE "done"]
        /\ UNCHANGED <<sourceVars, cp, trackVars, channelVars, sessionVars, restarts>>

\* confirm_shipped(): the store, committed.
Store(w) ==
    LET j == worker[w]
    IN  /\ j.pc = "store"
        /\ cp' = [pos |-> j.rc.to, inode |-> j.rc.inode, inc |-> j.rc.inc]
        /\ worker' = [worker EXCEPT ![w].pc = "done", ![w].ok = TRUE]
        /\ UNCHANGED <<sourceVars, trackVars, channelVars, sessionVars, restarts>>

----------------------------------------------------------------------------
(* log_loop and the tracker of batches.                                    *)

\* Mutant: batches never leave the tracker.
PrunedNone(P) == pending

\* prune_stale(): the batches of P have waited for their ack too long.
Pruned(P) == [b \in DOMAIN pending \ P |-> pending[b]]

\* in_flight(), for the group.
InFlight(q) == DOMAIN q # {}

\* A turn of the loop: stale batches are dropped, and unless one is still in flight a
\* read starts in a worker, with a snapshot of the receipts pending.
Turn(w, P) ==
    /\ loop = "ready" /\ worker[w].pc = "free"
    /\ pending' = Pruned(P)
    /\ released' = (released \/ P # {})
    /\ IF InFlight(Pruned(P))
       THEN loop' = "waiting" /\ UNCHANGED worker
       ELSE /\ loop' = "collecting"
            /\ worker' = [worker EXCEPT ![w] = [Free EXCEPT
                 !.pc = "open", !.job = "collect", !.live = TRUE,
                 !.snap = {Pruned(P)[b] : b \in DOMAIN Pruned(P)}]]
    /\ UNCHANGED <<sourceVars, cp, channelVars, receiving, sessions, restarts>>

\* add() clears the group's event.
Cleared == FALSE

\* _ship_one() after its read: a batch with a match is tracked and sent; the loop waits
\* for its ack when the read filled the cap, and else sleeps its interval.
Ship(w) ==
    LET j == worker[w]
        matched == Matched(j.got)
    IN  /\ loop = "collecting" /\ j.job = "collect" /\ j.live /\ j.pc = "done"
        /\ worker' = [worker EXCEPT ![w] = Free]
        /\ IF matched = {}
           THEN loop' = "ready" /\ UNCHANGED <<trackVars, sent, wire>>
           ELSE \E b \in Batches \ (DOMAIN pending \cup DOMAIN sent \cup receiving) :
                  /\ pending' = [c \in DOMAIN pending \cup {b} |-> IF c = b THEN j.rc ELSE pending[c]]
                  /\ released' = Cleared
                  /\ sent' = [c \in DOMAIN sent \cup {b} |-> IF c = b THEN matched ELSE sent[c]]
                  /\ wire' = wire \cup {b}
                  /\ loop' = IF Cardinality(j.got) >= Cap THEN "waiting" ELSE "ready"
        /\ UNCHANGED <<sourceVars, cp, acks, delivered, receiving, sessions, restarts>>

\* _released_or_shutdown() returns: on the release, or at the interval.
Wake ==
    /\ loop = "waiting" /\ loop' = "ready"
    /\ UNCHANGED <<sourceVars, cp, trackVars, channelVars, receiving, sessions, worker, restarts>>

\* A thread whose caller is gone ends.
Discard(w) ==
    /\ worker[w].pc = "done" /\ ~worker[w].live
    /\ worker' = [worker EXCEPT ![w] = Free]
    /\ UNCHANGED <<sourceVars, cp, trackVars, channelVars, sessionVars, restarts>>

----------------------------------------------------------------------------
(* The control plane and its acks.                                         *)

ControlPlaneReads(b) ==
    /\ b \in wire
    /\ wire' = wire \ {b} /\ acks' = acks \cup {b}
    /\ delivered' = delivered \cup sent[b]
    /\ UNCHANGED <<sourceVars, cp, trackVars, sent, sessionVars, worker, restarts>>

\* The frame is consumed.
Forget(b) == sent' = [c \in DOMAIN sent \ {b} |-> sent[c]]

\* handle_log_batch_ack() of a batch no longer tracked.  The receive loop handles one
\* frame at a time.
IgnoreAck(b) ==
    /\ b \in acks \ DOMAIN pending /\ receiving = {}
    /\ acks' = acks \ {b} /\ Forget(b)
    /\ UNCHANGED <<sourceVars, cp, trackVars, wire, delivered, sessionVars, worker, restarts>>

\* handle_log_batch_ack() of a known one: confirmed in a worker, still pending.
HandleAck(b, w) ==
    /\ b \in acks \cap DOMAIN pending /\ receiving = {} /\ worker[w].pc = "free"
    /\ acks' = acks \ {b} /\ Forget(b)
    /\ receiving' = {b}
    /\ worker' = [worker EXCEPT ![w] = [Free EXCEPT
          !.pc = "check", !.job = "confirm", !.live = TRUE, !.rc = pending[b]]]
    /\ UNCHANGED <<sourceVars, cp, trackVars, wire, delivered, loop, sessions, restarts>>

\* pop(): a refused confirm does not wake the loop.
Pop(b, release) ==
    /\ pending' = Pruned({b})
    /\ released' = (released \/ (release /\ b \in DOMAIN pending))

\* The handler goes on after its confirm.
AckDone(w) ==
    LET j == worker[w]
    IN  /\ j.job = "confirm" /\ j.live /\ j.pc = "done"
        /\ \E b \in receiving : Pop(b, j.ok)
        /\ receiving' = {}
        /\ worker' = [worker EXCEPT ![w] = Free]
        /\ UNCHANGED <<sourceVars, cp, channelVars, loop, sessions, restarts>>

----------------------------------------------------------------------------
(* Sessions and restarts.                                                  *)

Connect ==
    /\ loop = "off" /\ sessions < MaxSessions
    /\ loop' = "ready" /\ sessions' = sessions + 1
    /\ UNCHANGED <<sourceVars, cp, trackVars, channelVars, receiving, worker, restarts>>

\* The session's tasks are cancelled: an ack handler's finally pops its batch; the
\* worker threads go on; what was on its way is lost.
Disconnect ==
    /\ loop # "off" /\ loop' = "off"
    /\ pending' = Pruned(receiving) /\ receiving' = {}
    /\ worker' = [w \in Workers |-> [worker[w] EXCEPT !.live = FALSE]]
    /\ sent' = [b \in {} |-> {}] /\ wire' = {} /\ acks' = {}
    /\ UNCHANGED <<sourceVars, cp, released, delivered, sessions, restarts>>

\* The agent dies and starts again with the stored checkpoint.
Crash ==
    /\ restarts < MaxRestarts /\ restarts' = restarts + 1
    /\ loop' = "off" /\ receiving' = {}
    /\ pending' = NoBatches /\ released' = FALSE
    /\ worker' = [w \in Workers |-> Free]
    /\ sent' = [b \in {} |-> {}] /\ wire' = {} /\ acks' = {}
    /\ UNCHANGED <<sourceVars, cp, delivered, sessions>>

Work(w) == Open(w) \/ ReadLine(w) \/ ReadEnd(w) \/ Check(w) \/ Store(w) \/ Ship(w) \/ Discard(w) \/ AckDone(w)

Next ==
    \/ \E matches \in BOOLEAN : AppendLine(matches)
    \/ RenameAway \/ Create \/ Truncate
    \/ \E w \in Workers : Work(w) \/ \E P \in SUBSET DOMAIN pending : Turn(w, P)
    \/ Wake
    \/ \E b \in Batches : ControlPlaneReads(b) \/ IgnoreAck(b) \/ \E w \in Workers : HandleAck(b, w)
    \/ Connect \/ Disconnect
    \/ Crash

Spec == Init /\ [][Next]_vars

\* The loop turns and its threads run on; a batch whose ack does not come is pruned
\* (ack_timeout_seconds); while the session lasts sends arrive and are acked, and
\* not every batch is pruned before its ack is handled; a lost session is followed by another.
Prune == \E w \in Workers : \E P \in SUBSET DOMAIN pending : P # {} /\ Turn(w, P)
Deliver == \E b \in Batches : ControlPlaneReads(b)
DeliverPending == \E b \in DOMAIN pending : ControlPlaneReads(b)
AckKnown == \E b \in Batches, w \in Workers : HandleAck(b, w)
AckUnknown == \E b \in Batches : IgnoreAck(b)
LoopTurns == Wake \/ \E w \in Workers : Turn(w, {})
FairSpec ==
    /\ Spec
    /\ WF_vars(LoopTurns) /\ WF_vars(Connect) /\ WF_vars(\E w \in Workers : Work(w))
    /\ WF_vars(Deliver) /\ SF_vars(DeliverPending) /\ SF_vars(AckKnown) /\ WF_vars(AckUnknown)
    /\ SF_vars(Prune)

----------------------------------------------------------------------------
Lines == (1 .. MaxIncs) \X (1 .. MaxLines)
Receipts == [inode : 0 .. MaxIncs, inc : 0 .. MaxIncs, from : 0 .. MaxLines, to : 0 .. MaxLines]

TypeOK ==
    /\ incs \in 1 .. MaxIncs /\ path \in {0} \cup DOMAIN file
    /\ DOMAIN file \subseteq 1 .. incs /\ file \in [DOMAIN file -> [inc : 1 .. incs, len : 0 .. MaxLines]]
    /\ wanted \subseteq Lines /\ delivered \subseteq wanted
    /\ cp \in [pos : 0 .. MaxLines, inode : 0 .. incs, inc : 0 .. incs]
    /\ DOMAIN pending \subseteq Batches /\ pending \in [DOMAIN pending -> Receipts]
    /\ released \in BOOLEAN
    /\ DOMAIN sent = wire \cup acks /\ DOMAIN sent \subseteq Batches
    /\ sent \in [DOMAIN sent -> SUBSET wanted]
    /\ loop \in {"off", "ready", "collecting", "waiting"}
    /\ receiving \subseteq Batches
    /\ worker \in [Workers -> [
          pc : {"free", "open", "read", "check", "store", "done"},
          job : {"none", "collect", "confirm"}, live : BOOLEAN, rc : Receipts,
          at : 0 .. MaxLines, got : SUBSET Lines, snap : SUBSET Receipts, ok : BOOLEAN]]
    /\ sessions \in 0 .. MaxSessions /\ restarts \in 0 .. MaxRestarts

\* At-least-once (module docstring of tailer.py): the next read starts past a matching
\* line of the file only when the control plane has it, through lost and pruned
\* batches, late and refused acks, threads that outlive their session, renamed,
\* truncated and regrown files, and crashes.
NoSkip ==
    path # 0 => \A n \in 1 .. ResumePoint(path) :
        <<file[path].inc, n>> \in wanted => <<file[path].inc, n>> \in delivered

\* "The hold keeps a held group at one batch in flight" (log_loop): across a lost
\* session too, whose batch is still tracked when the next one's loop starts.
OneInFlight == Cardinality(DOMAIN pending) =< 1

\* Every matching line reaches the control plane unless its file is rotated first,
\* once connections and crashes come to an end.
LinesDelivered ==
    \A l \in Lines :
        l \in wanted ~> \/ l \in delivered \/ path = 0 \/ l[1] # file[path].inc
                        \/ (loop = "off" /\ sessions = MaxSessions)

\* Lines are shipped at least once and one range at a time.
ShippingSound == NoSkip /\ OneInFlight
=============================================================================
