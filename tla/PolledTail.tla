----------------------------- MODULE PolledTail -----------------------------
(***************************************************************************)
(* A log group read by a command at every turn of log_loop: DockerTailer   *)
(* (`docker logs --since`, logging/docker_tailer.py) or JournaldTailer     *)
(* (`journalctl --after-cursor`, logging/tailer.py), its checkpoint        *)
(* (logging/positions.py), the batches and their acks.  Reads and confirms *)
(* run in threads that outlive the session they were started for.          *)
(*                                                                         *)
(* Records are numbered as they are written, and a position is the number  *)
(* of the first record still to read: Docker's timestamp, which is         *)
(* inclusive and one tick past the last line taken, and the record after   *)
(* the journal's cursor.  Each line has a microsecond of its own.          *)
(***************************************************************************)
EXTENDS Integers, FiniteSets, Sequences

CONSTANTS
    Pollers,     \* threads that may be reading or confirming
    PollCap,     \* max_lines_per_batch
    MaxRecords,  \* bound: records written
    MaxPolls,    \* bound: batches sent
    MaxLinks     \* bound: lost connections and crashes

ASSUME PolledAssumption == PollCap \in Nat \ {0} /\ IsFiniteSet(Pollers)

VARIABLES
    kind,      \* "docker" or "journald"
    records,   \* what was written: [err, matches, cursor]
    stored,    \* the checkpoint, 0 when there is no row
    base,      \* history: the latest seed; what came before is not owed
    tracked,   \* pending_batches: [id, from, to]
    frames,    \* on the socket: [id, lines, acked]
    told,      \* history: the records the control plane has
    poller,    \* Pollers -> what the thread is at
    link,      \* a session is up
    polls, links,
    cut        \* history: see LeftBehind

polledVars == <<kind, records, stored, base, tracked, frames, told, poller,
                link, polls, links, cut>>

Resting == [pc |-> "rest", job |-> "none", live |-> FALSE, id |-> 0,
            from |-> 0, to |-> 0, lines |-> {}]

-----------------------------------------------------------------------------
(* What a command prints, and the receipt of what was taken of it.         *)

Since(p) == {n \in DOMAIN records : n >= p}
Matching(lines) == {n \in lines : records[n].matches}

\* _run_logs(): all of stdout, then all of stderr.
Printed(m, n) ==
    \/ ~records[m].err /\ records[n].err
    \/ records[m].err = records[n].err /\ m < n

\* The first max_lines_per_batch of them.
Capped(lines) ==
    {n \in lines : Cardinality({m \in lines : Printed(m, n)}) < PollCap}

\* _last_ts(): one tick past the last line printed.
LastTs(lines, from) ==
    IF lines = {} THEN from
    ELSE 1 + CHOOSE n \in lines : \A m \in lines \ {n} : Printed(m, n)

\* Mutant: the timestamp is taken from everything printed, not from what the cap kept.
BatchEndUncapped(lines, from) == LastTs(Since(from), from)

\* _docker_batch(): the receipt ends past the last line kept.
BatchEnd(lines, from) == LastTs(lines, from)

\* _cursor_of() over the records taken, the last first: one that does not parse
\* has no cursor, and when none has one the position stays.
CursorEnd(lines, from) ==
    LET parsed == {n \in lines : records[n].cursor}
    IN  IF parsed = {} THEN from ELSE 1 + CHOOSE n \in parsed : \A m \in parsed : m =< n

\* A line older than the end of the batch that the cap cut off: stdout filled the
\* batch, and the line is on stderr.  No later read asks for it again.
LeftBehind(lines, from, to) == {n \in Since(from) \ lines : n < to}

-----------------------------------------------------------------------------
(* The threads.                                                            *)

Set(w, r) == poller' = [poller EXCEPT ![w] = r]
still == <<kind, records, link, polls, links>>

\* read_new_lines(): the checkpoint, if there is one.
GetPosition(w) ==
    /\ poller[w].pc = "get"
    /\ Set(w, IF stored = 0 THEN [poller[w] EXCEPT !.pc = "seed"]
              ELSE [poller[w] EXCEPT !.pc = "run", !.from = stored, !.to = stored])
    /\ UNCHANGED <<still, stored, base, tracked, frames, told, cut>>

\* _docker_from_ts(): now; _seed(): the newest record's cursor, if there is one.
Seed(w) ==
    /\ poller[w].pc = "seed"
    /\ \/ /\ kind = "journald"
          /\ Set(w, [poller[w] EXCEPT !.pc = "done"])
       \/ /\ kind = "docker" \/ (records # <<>> /\ records[Len(records)].cursor)
          /\ Set(w, [poller[w] EXCEPT !.pc = "seeded", !.from = Len(records) + 1,
                                      !.to = Len(records) + 1])
    /\ UNCHANGED <<still, stored, base, tracked, frames, told, cut>>

\* The seed is stored; Docker reads on from it, journald waits for the next turn.
StoreSeed(w) ==
    /\ poller[w].pc = "seeded"
    /\ stored' = poller[w].to
    /\ base' = IF poller[w].to > base THEN poller[w].to ELSE base
    /\ Set(w, [poller[w] EXCEPT !.pc = IF kind = "docker" THEN "run" ELSE "done"])
    /\ UNCHANGED <<still, tracked, frames, told, cut>>

\* collect_batch() with the lines read: none is no batch, and none that matches
\* goes on to skip_filtered() (the loop does not read while a batch is pending,
\* so that no pending receipt holds it back).
Collected(w, lines, to) ==
    Set(w, [poller[w] EXCEPT !.lines = lines, !.to = to,
              !.pc = IF lines # {} /\ Matching(lines) = {} THEN "check" ELSE "done"])

\* docker logs: all of it, or nothing when it fails.
RunLogs(w) ==
    LET from == poller[w].from
    IN  /\ poller[w].pc = "run" /\ kind = "docker"
        /\ \E lines \in {{}, Capped(Since(from))} :
             /\ Collected(w, lines, BatchEnd(lines, from))
             /\ cut' = IF lines = {} THEN cut
                       ELSE cut \cup LeftBehind(lines, from, LastTs(lines, from))
        /\ UNCHANGED <<still, stored, base, tracked, frames, told>>

\* journalctl: as many records, oldest first, as it printed before the cap or its end.
Records(w) ==
    LET from == poller[w].from
    IN  /\ poller[w].pc = "run" /\ kind = "journald"
        /\ \E n \in 0 .. PollCap :
             LET lines == {m \in Since(from) : m < from + n}
             IN  Collected(w, lines, CursorEnd(lines, from))
        /\ UNCHANGED <<still, stored, base, tracked, frames, told, cut>>

\* _covers(): start <= stored < end.  Journald compares nothing.
CoversTs(from, to) == kind = "journald" \/ (from =< stored /\ stored < to)

\* confirm_shipped(), of an ack or of a filtered read: the checkpoint is compared ...
ConfirmShipped(w) ==
    /\ poller[w].pc = "check"
    /\ Set(w, [poller[w] EXCEPT !.pc =
                 IF CoversTs(poller[w].from, poller[w].to) THEN "store" ELSE "done"])
    /\ UNCHANGED <<still, stored, base, tracked, frames, told, cut>>

\* ... and moved, in a statement of its own.
SetPosition(w) ==
    /\ poller[w].pc = "store"
    /\ stored' = poller[w].to
    /\ Set(w, [poller[w] EXCEPT !.pc = "done"])
    /\ UNCHANGED <<still, base, tracked, frames, told, cut>>

-----------------------------------------------------------------------------
(* log_loop, the tracker and the acks: as in LogShipping, for this group.  *)

Reading == \E w \in Pollers : poller[w].live /\ poller[w].job = "collect"
Confirming == \E w \in Pollers : poller[w].live /\ poller[w].job = "confirm"

\* A turn: the batches of P are pruned, and with none left in flight a read starts.
PollTurn(w, P) ==
    /\ link /\ ~Reading /\ poller[w] = Resting /\ polls < MaxPolls
    /\ P # {} \/ tracked = {}
    /\ tracked' = tracked \ P
    /\ IF tracked' = {}
       THEN Set(w, [Resting EXCEPT !.pc = "get", !.job = "collect", !.live = TRUE])
       ELSE UNCHANGED poller
    /\ UNCHANGED <<still, stored, base, frames, told, cut>>

\* _ship_one() after its read.
ShipPolled(w) ==
    LET p == poller[w]
        lines == Matching(p.lines)
    IN  /\ p.pc = "done" /\ p.live /\ p.job = "collect"
        /\ Set(w, Resting)
        /\ IF lines = {} THEN UNCHANGED <<tracked, frames, polls>>
           ELSE /\ polls' = polls + 1
                /\ tracked' = tracked \cup {[id |-> polls', from |-> p.from, to |-> p.to]}
                /\ frames' = frames \cup {[id |-> polls', lines |-> lines, acked |-> FALSE]}
        /\ UNCHANGED <<kind, records, link, links, stored, base, told, cut>>

CpReads(f) ==
    /\ f \in frames /\ ~f.acked
    /\ told' = told \cup f.lines
    /\ frames' = (frames \ {f}) \cup {[f EXCEPT !.acked = TRUE]}
    /\ UNCHANGED <<still, stored, base, tracked, poller, cut>>

\* handle_log_batch_ack(): confirmed in a thread when tracked, else ignored.
AckPolled(f, w) ==
    /\ f \in frames /\ f.acked /\ ~Confirming /\ poller[w] = Resting
    /\ frames' = frames \ {f}
    /\ IF \E b \in tracked : b.id = f.id
       THEN \E b \in tracked : b.id = f.id /\
              Set(w, [Resting EXCEPT !.pc = "check", !.job = "confirm", !.live = TRUE,
                                     !.id = b.id, !.from = b.from, !.to = b.to])
       ELSE UNCHANGED poller
    /\ UNCHANGED <<still, stored, base, tracked, told, cut>>

AckEnds(w) ==
    /\ poller[w].pc = "done" /\ poller[w].live /\ poller[w].job = "confirm"
    /\ tracked' = {b \in tracked : b.id # poller[w].id}
    /\ Set(w, Resting)
    /\ UNCHANGED <<still, stored, base, frames, told, cut>>

\* A thread whose session is gone.
PollerEnds(w) ==
    /\ poller[w].pc = "done" /\ ~poller[w].live
    /\ Set(w, Resting)
    /\ UNCHANGED <<still, stored, base, tracked, frames, told, cut>>

-----------------------------------------------------------------------------
(* The source, the sessions and the crash.                                 *)

Emit(r) ==
    /\ Len(records) < MaxRecords
    /\ r.err => kind = "docker"
    /\ ~r.cursor => kind = "journald"
    /\ records' = Append(records, r)
    /\ UNCHANGED <<kind, link, polls, links, stored, base, tracked, frames, told, poller, cut>>

LinkUp ==
    /\ ~link /\ link' = TRUE
    /\ UNCHANGED <<kind, records, polls, links, stored, base, tracked, frames, told, poller, cut>>

\* The session's tasks are cancelled: an ack handler's finally pops its batch.
LinkDown ==
    /\ link /\ links < MaxLinks
    /\ link' = FALSE /\ links' = links + 1 /\ frames' = {}
    /\ tracked' = {b \in tracked : ~\E w \in Pollers :
                     poller[w].live /\ poller[w].job = "confirm" /\ poller[w].id = b.id}
    /\ poller' = [w \in Pollers |-> [poller[w] EXCEPT !.live = FALSE]]
    /\ UNCHANGED <<kind, records, polls, stored, base, told, cut>>

Killed ==
    /\ links < MaxLinks
    /\ link' = FALSE /\ links' = links + 1 /\ frames' = {} /\ tracked' = {}
    /\ poller' = [w \in Pollers |-> Resting]
    /\ UNCHANGED <<kind, records, polls, stored, base, told, cut>>

PolledInit ==
    /\ kind \in {"docker", "journald"} /\ records = <<>>
    /\ stored = 0 /\ base = 0 /\ tracked = {} /\ frames = {} /\ told = {}
    /\ poller = [w \in Pollers |-> Resting]
    /\ link = FALSE /\ polls = 0 /\ links = 0 /\ cut = {}

PolledNext ==
    \/ \E e, m, c \in BOOLEAN : Emit([err |-> e, matches |-> m, cursor |-> c])
    \/ \E w \in Pollers :
         \/ GetPosition(w) \/ Seed(w) \/ StoreSeed(w) \/ RunLogs(w) \/ Records(w)
         \/ ConfirmShipped(w) \/ SetPosition(w) \/ ShipPolled(w) \/ AckEnds(w) \/ PollerEnds(w)
         \/ \E P \in SUBSET tracked : PollTurn(w, P)
         \/ \E f \in frames : AckPolled(f, w)
    \/ \E f \in frames : CpReads(f)
    \/ LinkUp \/ LinkDown \/ Killed

PolledSpec == PolledInit /\ [][PolledNext]_polledVars

-----------------------------------------------------------------------------
\* At-least-once for the polled groups: the checkpoint, by whatever thread and
\* however late it was moved, stands past a matching record that came after the
\* first seed only when the control plane has it, or when it is one a capped
\* `docker logs` left behind (LeftBehind; README, Known divergences).
PolledNoSkip ==
    \A n \in Matching(DOMAIN records) :
        base =< n /\ n < stored => n \in told \cup cut

\* Without that exception: violated by what DockerTailer does under its cap (README,
\* Known divergences).
PolledNeverSkips ==
    \A n \in Matching(DOMAIN records) : base =< n /\ n < stored => n \in told
=============================================================================
