----------------------------- MODULE JobManager -----------------------------
(***************************************************************************)
(* The background jobs of one session (commands/jobs.py, class JobManager),*)
(* the dispatch that feeds it (dispatch_long_running) and the two callers  *)
(* of shutdown_all: the shutdown watcher, which has the cancelled commands *)
(* told while the socket is open, and the end of the session, which does   *)
(* not.  A task is an asyncio.Task running _run for one request; it moves  *)
(* from await to await, and everything else may happen in between.         *)
(*                                                                         *)
(* Time is what the retry window needs of it: the units left of a window   *)
(* and of a park, counted down by Tick.                                    *)
(***************************************************************************)
EXTENDS Integers, FiniteSets

CONSTANTS
    MaxTasks,  \* bound: task objects ever created
    Rids,      \* request ids; the control plane may use one again
    None,      \* no task, no request id
    Permits,   \* MAX_CONCURRENT_JOBS
    Commands,  \* the long-running commands
    Quota,     \* QUOTA_COMMAND, one of them
    Window,    \* command -> its retry_window_s, or -1 without one
    Delays     \* the retry_after_s a handler may ask for

\* Task objects, numbered as they are created.
Tasks == 1 .. MaxTasks

ASSUME JobAssumption ==
    /\ MaxTasks \in Nat /\ None \notin Tasks /\ None \notin Rids
    /\ Permits \in Nat \ {0}
    /\ Window \in [Commands -> Nat \cup {-1}]
    /\ Delays \subseteq Nat \ {0}

VARIABLES
    pc,         \* the await each task stands at
    rid, cmd,   \* task -> the request and the command it runs
    outcome,    \* task -> what its last attempt returned, "none" before one
    attempts,   \* task -> the attempts it has begun
    left,       \* task -> units left of its retry window, -1 closed or unopened
    park,       \* task -> units left of its park
    jobs,       \* _jobs: request id -> the task that owns it
    attempted,  \* _terminal_attempts: ids whose result send has begun
    closing,    \* _closing
    cancelled,  \* tasks with a cancel() not yet thrown into them
    awaited,    \* the tasks shutdown_all's gather waits for
    toTell,     \* the tasks whose command.cancelled it still has to send
    phase,      \* how far the end of the session has got
    link,       \* "up" until the socket or a session task fails
    told,       \* history: task -> the terminal messages written for it
    crashed,    \* history: tasks that ended without preparing a result
    misled      \* history: whether a refusal bore the request id of a live task

taskVars == <<pc, rid, cmd, outcome, attempts, left, park>>
managerVars == <<jobs, attempted, closing>>
stopVars == <<cancelled, awaited, toTell, phase, link>>
historyVars == <<told, crashed, misled>>
vars == <<taskVars, managerVars, stopVars, historyVars>>

----------------------------------------------------------------------------
Live(t) == pc[t] \notin {"unborn", "done", "reaped"}

\* Mutant: the permit is not given back when a task ends.
HoldsForever(t) == pc[t] \in {"running", "note", "sending", "flushing", "hook", "done", "reaped"}

\* A task inside _permit.
Holds(t) == pc[t] \in {"running", "note", "sending", "flushing", "hook"}

PermitFree == Cardinality({t \in Tasks : Holds(t)}) < Permits

\* active_count(), as the set of its ids
Active == {r \in Rids : jobs[r] # None /\ Live(jobs[r])}

QuotaPending == Cardinality({r \in Active : cmd[jobs[r]] = Quota})

\* Mutant: the ceiling admits one more.
ShedLate(c) == c = Quota /\ (closing \/ QuotaPending > Permits)

\* should_shed_quota()
ShouldShedQuota(c) == c = Quota /\ (closing \/ QuotaPending >= Permits)

\* A task at an await that no cancel() is about to break.
At(t, place) == pc[t] = place /\ t \notin cancelled

Move(t, place) == pc' = [pc EXCEPT ![t] = place]

Init ==
    /\ pc = [t \in Tasks |-> "unborn"]
    /\ rid = [t \in Tasks |-> None] /\ cmd = [t \in Tasks |-> None]
    /\ outcome = [t \in Tasks |-> "none"] /\ attempts = [t \in Tasks |-> 0]
    /\ left = [t \in Tasks |-> -1] /\ park = [t \in Tasks |-> 0]
    /\ jobs = [r \in Rids |-> None] /\ attempted = {} /\ closing = FALSE
    /\ cancelled = {} /\ awaited = {} /\ toTell = {} /\ phase = "open" /\ link = "up"
    /\ told = [t \in Tasks |-> {}] /\ crashed = {} /\ misled = FALSE

----------------------------------------------------------------------------
\* start(): a task is created for the request and owns its id from here on.
Start(t, r, c) ==
    /\ phase # "over" /\ pc[t] = "unborn" /\ \A u \in 1 .. t - 1 : pc[u] # "unborn"
    /\ ~ ShouldShedQuota(c) /\ ~ closing /\ r \notin Active
    /\ Move(t, "queued")
    /\ rid' = [rid EXCEPT ![t] = r]
    /\ cmd' = [cmd EXCEPT ![t] = c]
    /\ jobs' = [jobs EXCEPT ![r] = t]
    /\ attempted' = attempted \ {r}
    /\ UNCHANGED <<outcome, attempts, left, park, closing, stopVars, historyVars>>

\* A refusal that is a terminal command.result bearing the request id: params
\* that do not validate (or no handler), then the quota ceiling, then a closed
\* manager.  Only then comes the duplicate, an error frame that changes nothing.
Refuse(r, c, valid) ==
    /\ phase # "over"
    /\ ~ valid \/ ShouldShedQuota(c) \/ closing
    /\ misled' = (misled \/ r \in Active)
    /\ UNCHANGED <<taskVars, managerVars, stopVars, told, crashed>>

\* The locals of a task that has ended are gone with it.
Forgotten(t) ==
    /\ rid' = [rid EXCEPT ![t] = None] /\ cmd' = [cmd EXCEPT ![t] = None]
    /\ outcome' = [outcome EXCEPT ![t] = "none"] /\ attempts' = [attempts EXCEPT ![t] = 0]
    /\ left' = [left EXCEPT ![t] = -1] /\ park' = [park EXCEPT ![t] = 0]

\* Mutant: the done callback of a task releases whatever has its id now.
FinishAny(t) ==
    /\ pc[t] = "done"
    /\ Move(t, "reaped")
    /\ jobs' = [jobs EXCEPT ![rid[t]] = None] /\ attempted' = attempted \ {rid[t]}
    /\ Forgotten(t)
    /\ UNCHANGED <<closing, stopVars, historyVars>>

\* _finish_job(), the done callback: scheduled when the task ends, so a new
\* task may already own the id.
FinishJob(t) ==
    /\ pc[t] = "done"
    /\ Move(t, "reaped")
    /\ IF jobs[rid[t]] = t
       THEN jobs' = [jobs EXCEPT ![rid[t]] = None] /\ attempted' = attempted \ {rid[t]}
       ELSE UNCHANGED <<jobs, attempted>>
    /\ Forgotten(t)
    /\ UNCHANGED <<closing, stopVars, historyVars>>

----------------------------------------------------------------------------
\* Mutant: the id is noted once the send is over.
NoteNothing(t) == UNCHANGED attempted

\* _send_result() commits the outcome before it yields.
NoteAttempt(t) == attempted' = attempted \cup {rid[t]}

\* Mutant: every attempt opens a window of its own.
Reopened(t) == Window[cmd[t]]

\* _RetryWindow.open(): the first permit sets the deadline, later ones find it set.
Opened(t) == IF attempts[t] = 0 THEN Window[cmd[t]] ELSE left[t]

\* The permit is got and the window opened.  The first attempt runs; a later
\* one runs if the window is still open, else the last outcome is the result.
Acquire(t) ==
    /\ At(t, "queued") /\ PermitFree
    /\ left' = [left EXCEPT ![t] = Opened(t)]
    /\ IF attempts[t] = 0 \/ Opened(t) >= 0
       THEN /\ Move(t, "running")
            /\ attempts' = [attempts EXCEPT ![t] = @ + 1] /\ UNCHANGED attempted
       ELSE Move(t, "sending") /\ NoteAttempt(t) /\ UNCHANGED attempts
    /\ UNCHANGED <<rid, cmd, outcome, park, jobs, closing, stopVars, historyVars>>

\* _RetryWindow.grants()
Grants(t, d) == d =< left[t]

\* Mutant: an outcome that came after shutdown_all is still sent.
NeverMoot == FALSE

\* "if self._closing: return": the outcome comes too late to be told.
Moot == closing

\* The handler returns (an exception has become a failure): success, failure,
\* or a failure that asks to run again in d units.
AttemptEnds(t, o, d) ==
    /\ At(t, "running")
    /\ outcome' = [outcome EXCEPT ![t] = o]
    /\ IF Moot
       THEN Move(t, "done") /\ UNCHANGED <<park, attempted>>
       ELSE IF o = "ask" /\ Grants(t, d)
       THEN Move(t, "note") /\ park' = [park EXCEPT ![t] = d] /\ UNCHANGED attempted
       ELSE Move(t, "sending") /\ NoteAttempt(t) /\ UNCHANGED park
    /\ UNCHANGED <<rid, cmd, attempts, left, jobs, closing, stopVars, historyVars>>

\* The task dies of an exception between the outcome and its envelope.
Crash(t) ==
    /\ At(t, "running") /\ ~ closing
    /\ Move(t, "done")
    /\ crashed' = crashed \cup {t}
    /\ UNCHANGED <<rid, cmd, outcome, attempts, left, park, managerVars, stopVars, told, misled>>

\* The progress message is sent, or failed; the permit is given back.
NoteSent(t) ==
    /\ At(t, "note")
    /\ Move(t, "parked")
    /\ UNCHANGED <<rid, cmd, outcome, attempts, left, park, managerVars, stopVars, historyVars>>

Wake(t) ==
    /\ At(t, "parked") /\ park[t] = 0
    /\ Move(t, "queued")
    /\ UNCHANGED <<rid, cmd, outcome, attempts, left, park, managerVars, stopVars, historyVars>>

\* The result is written to an open socket; send has yet to return.
WriteResult(t) ==
    /\ At(t, "sending") /\ link = "up"
    /\ Move(t, "flushing")
    /\ told' = [told EXCEPT ![t] = @ \cup {"result"}]
    /\ UNCHANGED <<rid, cmd, outcome, attempts, left, park, managerVars, stopVars, crashed, misled>>

\* _finish() goes on: the hook of a success, or the end of the task.
AfterSend(t) ==
    /\ \/ outcome[t] = "success" /\ Move(t, "hook")
       \/ Move(t, "done")
    /\ UNCHANGED <<rid, cmd, outcome, attempts, left, park, managerVars, stopVars, historyVars>>

SendReturns(t) == At(t, "flushing") /\ AfterSend(t)

\* The send raises: logged, and the job goes on as if it had been sent.
SendFails(t) == At(t, "sending") /\ AfterSend(t)

HookEnds(t) ==
    /\ At(t, "hook")
    /\ Move(t, "done")
    /\ UNCHANGED <<rid, cmd, outcome, attempts, left, park, managerVars, stopVars, historyVars>>

\* A unit of time passes.
Tick ==
    /\ left' = [t \in Tasks |-> IF left[t] > 0 THEN left[t] - 1 ELSE -1]
    /\ park' = [t \in Tasks |-> IF pc[t] = "parked" /\ park[t] > 0 THEN park[t] - 1 ELSE park[t]]
    /\ <<left, park>>' # <<left, park>>
    /\ UNCHANGED <<pc, rid, cmd, outcome, attempts, managerVars, stopVars, historyVars>>

----------------------------------------------------------------------------
\* cancel() is thrown into the task at its await.  Only a handler can catch it;
\* a send that has begun is cut short, written or not.
CancelThrown(t) ==
    /\ t \in cancelled /\ Live(t)
    /\ cancelled' = cancelled \ {t}
    /\ \/ Move(t, "done")
       \/ pc[t] = "running" /\ UNCHANGED pc
    /\ UNCHANGED <<rid, cmd, outcome, attempts, left, park, managerVars, awaited, toTell, phase, link, historyVars>>

ActiveTasks == {jobs[r] : r \in Active}

\* The watcher's shutdown_all(SHUTDOWN), up to its gather.
BeginShutdown ==
    /\ phase = "open"
    /\ phase' = "stopping"
    /\ closing' = TRUE
    /\ cancelled' = ActiveTasks
    /\ awaited' = ActiveTasks
    /\ toTell' = {jobs[r] : r \in Active \ attempted}
    /\ UNCHANGED <<taskVars, jobs, attempted, link, historyVars>>

\* Mutant: the cancellations are sent before the tasks have ended.
SettledEarly == TRUE

\* gather() returns.
Settled == \A t \in awaited : ~ Live(t)

BeginTelling ==
    /\ phase = "stopping" /\ Settled
    /\ phase' = "telling"
    /\ UNCHANGED <<taskVars, managerVars, cancelled, awaited, toTell, link, historyVars>>

\* send_now() of one command.cancelled; a dead socket is logged and passed over.
Tell(t) ==
    /\ phase = "telling" /\ t \in toTell
    /\ toTell' = toTell \ {t}
    /\ told' = IF link = "up" THEN [told EXCEPT ![t] = @ \cup {"cancelled"}] ELSE told
    /\ UNCHANGED <<taskVars, managerVars, cancelled, awaited, phase, link, crashed, misled>>

\* Mutant: the watcher leaves the socket open.
LeaveSocket == phase = "telling" /\ toTell = {} /\ UNCHANGED vars

\* All told: the watcher closes the socket.
CloseSocket ==
    /\ phase = "telling" /\ toTell = {}
    /\ phase' = "closed"
    /\ UNCHANGED <<taskVars, managerVars, cancelled, awaited, toTell, link, historyVars>>

\* The connection is lost, or a task of the session raises.
SessionFails ==
    /\ link = "up" /\ phase \notin {"ending", "over"}
    /\ link' = "down"
    /\ UNCHANGED <<taskVars, managerVars, cancelled, awaited, toTell, phase, historyVars>>

\* _run_session's finally: the watcher is gone, shutdown_all() without a reason.
EndSession ==
    /\ link = "down" \/ phase = "closed"
    /\ phase \notin {"ending", "over"}
    /\ phase' = "ending"
    /\ closing' = TRUE
    /\ cancelled' = ActiveTasks
    /\ awaited' = ActiveTasks
    /\ toTell' = {}
    /\ UNCHANGED <<taskVars, jobs, attempted, link, historyVars>>

SessionOver ==
    /\ phase = "ending" /\ Settled
    /\ phase' = "over"
    /\ UNCHANGED <<taskVars, managerVars, cancelled, awaited, toTell, link, historyVars>>

\* A task goes on from its await, or its done callback runs.
TaskMoves(t) ==
    \/ \E o \in {"success", "failure"} : AttemptEnds(t, o, 0)
    \/ \E d \in Delays : AttemptEnds(t, "ask", d)
    \/ NoteSent(t) \/ Wake(t) \/ WriteResult(t) \/ SendReturns(t) \/ SendFails(t)
    \/ HookEnds(t) \/ CancelThrown(t) \/ FinishJob(t)

TaskStep(t) == Acquire(t) \/ Crash(t) \/ TaskMoves(t)

StopStep == BeginTelling \/ (\E t \in toTell : Tell(t)) \/ CloseSocket \/ EndSession \/ SessionOver

Next ==
    \/ \E t \in Tasks, r \in Rids, c \in Commands : Start(t, r, c)
    \/ \E r \in Rids, c \in Commands, valid \in BOOLEAN : Refuse(r, c, valid)
    \/ \E t \in Tasks : TaskStep(t)
    \/ Tick
    \/ BeginShutdown
    \/ SessionFails
    \/ StopStep

Spec == Init /\ [][Next]_vars

(***************************************************************************)
(* Fairness: the event loop runs every task that can move; handlers, sends *)
(* and hooks return (each has a timeout of its own); the semaphore is FIFO,*)
(* so a task that keeps finding a permit free gets one; time passes.       *)
(***************************************************************************)
Fairness ==
    /\ \A t \in Tasks : SF_vars(Acquire(t)) /\ WF_vars(TaskMoves(t))
    /\ WF_vars(Tick)
    /\ WF_vars(StopStep)

FairSpec == Spec /\ Fairness

----------------------------------------------------------------------------
Places == {"unborn", "queued", "running", "note", "parked", "sending", "flushing",
           "hook", "done", "reaped"}

TypeOK ==
    /\ pc \in [Tasks -> Places]
    /\ rid \in [Tasks -> Rids \cup {None}] /\ cmd \in [Tasks -> Commands \cup {None}]
    /\ outcome \in [Tasks -> {"none", "success", "failure", "ask"}] /\ attempts \in [Tasks -> Nat]
    /\ left \in [Tasks -> Nat \cup {-1}] /\ park \in [Tasks -> Nat]
    /\ jobs \in [Rids -> Tasks \cup {None}]
    /\ attempted \subseteq Rids /\ closing \in BOOLEAN
    /\ cancelled \subseteq Tasks /\ awaited \subseteq Tasks /\ toTell \subseteq Tasks
    /\ phase \in {"open", "stopping", "telling", "closed", "ending", "over"}
    /\ link \in {"up", "down"}
    /\ told \in [Tasks -> SUBSET {"result", "cancelled"}]
    /\ crashed \subseteq Tasks /\ misled \in BOOLEAN

\* No command is both answered and called cancelled, whatever a handler does with
\* its cancellation and wherever shutdown_all catches the result send.
OneTerminal == \A t \in Tasks : told[t] # {"result", "cancelled"}

\* A task that has not ended is the one _jobs names for its request id, also when
\* the id is used again before the done callback of its first task has run; so
\* shutdown_all reaches every task, and none outlives its session.
NoOrphan ==
    /\ \A t \in Tasks : Live(t) => jobs[rid[t]] = t
    /\ phase = "over" => \A t \in Tasks : ~ Live(t)

\* The quota commands accepted and unfinished never exceed one wave of permits,
\* queued, parked and running ones together (quota_admission_open).
QuotaCeiling == Cardinality({t \in Tasks : Live(t) /\ cmd[t] = Quota}) =< Permits

\* A command is told cancelled only once its task has ended: nothing it does can
\* follow the message (shutdown_all gathers before it tells).
CancelledIsLast == \A t \in Tasks : "cancelled" \in told[t] => ~ Live(t)

\* A handler that keeps asking to run again is bounded: attempts are at least a
\* unit apart and none begins once the window, opened by the first of them, has
\* closed, however long the job waits for its permits (CORE-012).
AttemptsBounded ==
    \A t \in Tasks : attempts[t] > 0 => attempts[t] =< 1 + (IF Window[cmd[t]] < 0 THEN 0 ELSE Window[cmd[t]])

\* "a duplicate id is an error, its first request still live, so no result may
\* resolve it" (dispatch_long_running).  Violated by the code (README, Known divergences).
DuplicateUnresolved == ~ misled

\* Every accepted job ends: retries are bounded by the window, a parked job gives
\* its permit back, and a queued one gets its turn.  (Finitely many are ever
\* accepted, so from some point on none is left.)
JobsFinish == <>[](\A t \in Tasks : ~ Live(t))

\* Once the session is ending nothing keeps it: shutdown_all waits for tasks that
\* do end, and the session is over.
StopCompletes == closing ~> phase = "over"

----------------------------------------------------------------------------
\* The contract: what the control plane can know of each command.
Status(t) ==
    IF "result" \in told[t] THEN "answered"
    ELSE IF "cancelled" \in told[t] THEN "cancelled"
    ELSE IF t \in crashed THEN "abandoned"
    ELSE IF pc[t] = "unborn" THEN "none"
    ELSE IF pc[t] = "sending" THEN "tried"
    ELSE IF pc[t] \in {"done", "reaped", "hook"} /\ t \notin toTell THEN "unknown"
    ELSE "accepted"

Mode == IF link = "down" THEN "lost" ELSE IF closing THEN "stopping" ELSE "open"

Contract == INSTANCE CommandContract WITH status <- [t \in Tasks |-> Status(t)], mode <- Mode

\* The jobs keep the contract of CommandContract.
KeepsContract == Contract!ContractSpec
=============================================================================
