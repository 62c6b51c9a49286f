# storm-pulse: TLA+ models, checks and proofs

storm-pulse is an agent that runs on a host, holds one authenticated WebSocket
to a control plane, ships what it observes (metrics, wide events, logs) and runs
the commands it is sent, some of them as long-running jobs against a Garage
cluster. The agent is one asyncio process with worker threads. Its state survives
lost connections and, in parts, restarts. This directory models the parts of it
that carry that state, checks them with TLC and proves the main results with TLAPS.

Sources are named relative to `src/`. Module, run and theorem names are those of
`PROJECT.json`, which also maps every definition to the lines it models.

## 1. Inventory

| Component | State it keeps | Operations | What is hard | What makes it correct |
|---|---|---|---|---|
| Events buffer (`stormpulse/events.py`, `agent/loops.py`, `agent/acks.py`) | `_buf`, `_in_flight`, `_seq`, loss counters | emit, extend, refuse, drain, ack, nack, requeue | emitters in threads, batches answered out of order or never, drops on four paths, reconnects | every event is in exactly one place; nothing is released unread; bounds; every loss counted; order kept; nothing stays for ever |
| Event spool (`agent/event_spool.py`) | `_pending`, `_stuck`, files on disk | tick: settle, list, read, extend, delete, put back, recover | another process replaces files between two system calls; crash; failing unlink | a file is deleted only when its events are out of the agent; none is shipped twice; the spool drains |
| Background jobs (`commands/jobs.py`, `agent/dispatch.py` in part) | `_jobs`, `_terminal_attempts`, `_closing`, retry windows, permits | start, refuse, run, retry, park, send, finish, shutdown_all | cancellation at any await, two callers of shutdown, reused request ids, permit held across awaits | one terminal answer; no orphan task; quota ceiling; a cancelled command has ended; retries bounded; all jobs end |
| Metrics push ledger (`agent/integrations_runtime.py`) | change revisions, pending pushes | note_changed, track_push, acknowledge, discard | several pushes under way; late and repeated acks; eviction of receipts | a change is forgotten only when it has been told |
| File log shipping (`logging/tailer.py`, `logging/shipper.py`, `agent/log_batches.py`) | checkpoint, pending batches, release event | read, ship, ack, prune, confirm | threads that outlive their session, rotation and truncation, acks of pruned batches | the checkpoint never passes an unread line; one batch in flight; lines delivered |
| Streamed docker logs (`logging/docker_tailer.py`) | follow process, stream position, issued ranges, checkpoint | spawn, drain, issue, confirm, rewind | read-ahead with acks in any order, death of the process, crash | as above, and no line falls between two ranges |
| Garage jobs (`garage/jobs`, `garage/admin_api.py`, `garage/s3.py`) | the cluster's keys, grants, aliases, buckets | provision, rotate, attach, detach, delete, snapshot and reap, converge, enforce, clear, purge, CORS, quota, reads of grants and rules | multi-call sequences without transactions; a call that fails may have been applied; cancellation; concurrent jobs; customers | rollback leaves nothing unreported; gone means gone; no stranded bucket; termination |
| Polled docker and journald logs (`logging/docker_tailer.py`, `logging/tailer.py`) | stored timestamp or cursor, pending batches | seed, run the command, cap, ship, confirm | two streams printed one after the other, a cap across both, threads that outlive their session | a stored position passes a line only when it was told |
| Session and reconnect (`agent/reconnect.py`, `register.py`, `signoff_push.py`) | connection, delay, what the control plane believes of the seal | connect, register, push, back off, stop | a marker that moves between two readings; shutdown in any phase | waits grow until a connection lasts; the seal is learned; shutdown ends the agent |
| Dispatch and admission (`agent/dispatch.py`, `admission.py`, `signoff_guard.py`, `refresh.py`), authentication (`auth.py`), sign-off (`signoff/`), registry (`commands/registry.py`) | nonce table, registry fixed at boot, marker file | verify, remember, purge; refuse, run, answer, sequence | replays across purges and restarts; seal and grants that move between a check and a run; a handler cut off | a frame runs at most once; what ran was allowed when it ran; each frame handled to its end is answered in full |
| Enrolment and renewal (`enroll.py`, `agent/cert_renew.py`, `agent/ssl_context.py`, `cli/run.py`) | live, previous and pending key and certificate | enrol, renew, swap, finish a swap, load | a crash between two renames; a lost answer; a second process | the next start loads a pair the control plane still renews |
| External integrations (`integrations/external/`, `agent/external_adapters.py`, `cli/integration.py`) | trust, trees, receipts, grants, active pointer | install, seal, revoke, roll back, trust; load, fence | a process that dies between two files; an agent that reads without the lock | nothing dangles; what was revoked stays revoked; authority is written only when earned |
| Wizard (`wizard/`, `cli/wizard_run.py`) | journal of pre-images, lock, receipt | apply, roll back, recover | death between any two writes, again during recovery | all or nothing, and the receipt tells which |
| Garage state reader (`garage/state_reader.py`, `state.py`, `hint.py`, writers in `agent/`) | cache, hints, cadences, composed state | list, sweep, re-read, hint, absorb, replace, merge | single reads during a listing; three writers of one state; failed calls | no bucket vanishes from a failed or older read; the view converges |
| Caddy (`caddy/sync.py`) | drop-in files, the directory's lock | plan, persist, preflight, reload | threads of cancelled syncs; failure between two files | a sync reported live is what Caddy serves |
| rclone (`rclone/`) | scratch prefix, child processes | sample, copy, check, purge; migrate | a cancelled job's child; two tests on one prefix | no leftovers unsaid, no child left writing, a representative sample |
| Setup (`init/`, `garage/init.py`, `caddy/init.py`, `rclone/init.py`, `logging/init.py`, `cli/deploy_subject_init.py`, `signoff/init.py`, `config/`) | stormpulse.toml, the systemd unit, the seal flag | init and its feature steps, the six `init` commands, load_config | commands that append to one file after looking at it, stopped at any prompt, cut in the midst of a write | a file keeps every table it was given, loads if no write of it was cut or wrote what TOML refuses, and an agent announced as ready is sealed |
| SDK, protocol, parsers, installation, CLI reports, host readings | none that changes, or read-only | - | - | not modelled (section 8) |

How they interact. A session (`agent/reconnect.py`, `_run_session`) starts the
loops as tasks of one group. `events_loop`, `metrics_loop` and `log_loop` take from
the buffers and send; the receive loop hands answers to `agent/acks.py`, which
releases; the receive loop also hands commands to dispatch, which answers at once
or starts a job. A job's handler for Garage is a coroutine that calls the admin
API in threads; after a job succeeds a hook reads the resources it touched and
pushes metrics. When the socket fails, the group is cancelled; threads started with
`asyncio.to_thread` go on. The buffers, checkpoints and push ledger outlive the
session; the JobManager does not.

## 2. Plan

Modelled, in this order: EventBuffer with its proofs; JobManager with the abstract
CommandContract, its refinement and its proofs; MetricsPush with its proof;
SpoolFeeder; LogShipping; StreamTail; GarageAdmin and GarageJobs; then Dispatch,
AgentSession, CertRenew, Wizard, ExternalPackages, GarageReader, CaddySync,
RcloneJobs, PolledTail and Setup. Proved since: `QueueSound`, `QuotaCeiling`, the three
properties of Dispatch, `ApplyIsAtomic`, `NeverStranded`, the two of SpoolFeeder,
`ShippingSound`, `PolledNoSkip`, `SyncedIsServed`, `StoreSound`, `AuthorityEarned`,
`SetupSound`, `JobsSound`, `StreamSound`, `NothingVanishes`, `KeysAccounted`,
`NeverStrands`, `ReportsTrue`, `LossAccounted` and `BacksOff` (section 7). With these every
invariant that a run checks is a theorem; what a run checks and no theorem states is liveness.

What could still be modelled: the composition of Dispatch with JobManager (today a
job is handed over in one step), and the evaluation of
integrations at boot beyond the registry it leaves.

## 3. Modules and how they correspond to the code

Everything between two awaits of the event loop is one step; a call that holds a
lock throughout is one step; a thread's system calls are steps of their own. A lost
connection is an action that may come at any state.

**EventBuffer**. `buf`, `flight`, `seq`, `dropped`, `undeclared` are the fields of the
class; `flight` is the dict laid flat, each event with its batch. Extend, Emit,
Refuse, Drain (with the eviction past the cap), HandleAck, HandleNack, Connect (which
requeues) are the methods with their callers; Send and SendError are the await of
`ws.send` in `events_loop`; FindRoom and Feed are a spool feeder that asks for room
and extends later. Events are their sequence numbers; only the records the buffer
synthesises have contents (`records`). The control plane is external: it reads
batches in any order and answers each with ack or nack.

**JobManager**, **CommandContract**. A task is the asyncio.Task of `_run`; `pc` is the
await it stands at. Start and Refuse are `dispatch_long_running`; Acquire,
AttemptEnds, NoteSent, Wake, WriteResult, SendReturns, SendFails, HookEnds, FinishJob
are the steps of `_run` and the done callback; BeginShutdown, BeginTelling, Tell,
CloseSocket, SessionFails, EndSession, SessionOver the two ways a session ends; a
cancel is requested in one step and thrown in another. CommandContract says what the
control plane may rely on, per command: none, accepted, tried, then answered,
cancelled, unknown or abandoned. `KeepsContract` instantiates it under the mapping
`Status`, `Mode` of JobManager.

**MetricsPush**. `rev`, `owed`, `pending` are `change_revision`, `changed_revisions`,
`pending_pushes`. NoteChanged, Build, SendReturns, SendFails, HandleAck, Connect and
Disconnect are the methods of `integrations_runtime.py` and their callers.

**SpoolFeeder**. Every system call of `tick` (lstat, open and read, link, unlink,
rename) is a step; Write and Delete are the emitter in its own process; Release is
the buffer giving up a read; Crash and Recover the restart with its scan for files set
aside. A file's identity is its number, for (inode, mtime_ns).

**LogShipping**. The worker threads' jobs are reads (Open, ReadLine, ReadEnd) and
confirms (Check, Store); Turn, Ship, Wake, Discard are `log_loop`; HandleAck, AckDone,
IgnoreAck the ack handler; AppendLine, RenameAway, Create, Truncate the writer and
logrotate.

**StreamTail**. Begin, Spawn, SpawnFails, Throttled, Drain, DrainEnds, Issue are
`read_new_lines` and what it calls; Confirm, LateConfirm, Prefix `confirm_shipped`;
Turn, Ship, Discard, HandleAck, Pop as above.

**GarageAdmin** is Garage as the agent sees it, from the calls of `admin_api.py` and
`s3.py`: a call is the set of its outcomes, each an answer and the cluster it leaves.
A write that can be carried out is answered ok, or with an error applied or not
(`_request` times out); "absent" is the 404 that `is_not_found` recognises.
**GarageJobs** has one action per handler; its disjuncts are the calls in order, each
with where every answer leads. `did` is the state a rollback consults, `todo` and `at`
a loop, `snap`, `holders` and `rules` the grants and rules read, `manual` that `manual_cleanup_required` names the key.
StopAll is `shutdown_all`: a job between calls ends, a job in a call leaves the call to
land unheard (`dying`); the clear without credentials still runs its finally. Customers
create buckets and put objects over S3.

**PolledTail**. One turn of `log_loop` for DockerTailer or JournaldTailer: PollTurn,
RunLogs, ShipPolled, the confirm of an ack or of a filtered read, in threads
(`poller`) that outlive their session. A position is the number of the first record
still to read. `cut` is a history of the lines a capped `docker logs` left behind.

**AgentSession**. `conn`, `delay`, `lasted` are the locals of `run_with_backoff`,
`marker` the file of the seal, `belief` what the control plane was last told,
`lastRead` the push loop's `last_sealed`. Connected is the line that takes
`session_start`, before SendRegister; Lasts is the clock that passes
`reconnect_max_seconds` since then, in the handshake too (its discovery and 30 s of
silence count). ConnectFails, HandshakeFails, SocketCloses and ShutdownWatcher are the
ways a connection ends; all come back to `EndConnection`.

**Dispatch**. `handler` is the one frame the receive loop awaits: Recv (with
VerifyEnvelope and CheckAndStore), the readings of a sequence in their order
(SequenceRestart, SequenceLookup, SequenceSeal), RefusalFor before each step, then the
run, in the caller's thread or its own (ValidateParams, ResolveCommand, ExecuteCommand,
DispatchLongRunning, HandleRefresh), and SendResult. `deps` is what
`build_agent_dependencies` made of the registry at boot. Drop and Restart may come at
any step, ToggleSeal and ToggleGrant between any two. `ran` and `answers` are
histories.

**CertRenew**. `creds` are the six files, `server` what the control plane holds as
current and before. Every file operation of `install_renewed_pair`,
`complete_pending_swap`, `renew_certificate`, `write_credentials` and of the load at
start is a step, and each read may fail (`Misread`); a pending key that cannot be read is
replaced by a fresh one. The agent and `stormpulse renew` are two processes (`Renewers`).

**Wizard**. `apply` is `apply_plan` in each process, `journal` the file active.json,
`doctor` the process of `doctor --recover`. `base` is what the host was before the apply
under way. BuildClaimToml ... BuildVerifyProbe are the six builders of mutations.

**ExternalPackages**. `trust`, `tree`, `receipt`, `grant`, `active` are the store's
files, `holder` its lock, `op` the command each process is in; the agent loads
(LoadOne), queues and attempts commands (Attempt, with Fence) without the lock.
`DoctorPackages` and `InspectPackage` are what the two reports compute.

**GarageReader**. `cache`, `absorbed`, `queued`, `full` are the fields of
GarageStateReader, `col` the collection that holds its collect lock, `out` a state
composed and not yet stored, `hook` the post-command read, `state` the runtime's. A session
starts with what the walk of its registration found (`Discovered`), which goes past the
reader's cache, or with nothing.

**CaddySync**. `disk`, `tmp` and `live` are the drop-in files, the temporary files and
what Caddy serves; `thread` the file operations under way, `late` the loads of cancelled
syncs still to be served. **RcloneJobs**. `test` is
each restore test at its child, `mig` the migration and its child, `orphans` children
whose job was cancelled.

**Setup**. `toml` is stormpulse.toml as a bag of blocks (a table, a log group, a deploy
subject), with `Torn` for text that no TOML has, `bad` the blocks whose values are not
accepted, `unitFile` and `shut` the systemd unit and the seal flag; an answer or a name
may spoil the file (`spoils`, `Spoiling`), because all commands save `investigate deploy
init` put values between quotes unescaped; `doing` and `at` are the command that runs and the prompt it
stands at. RunInit ... SetupHost are `stormpulse init`, RunFeatureInit with the prompts and
AppendTable the `init` of garage, caddy and rclone, RunLoggingInit and the offers
`logging init`, RunDeployInit and ClaimSubject `investigate deploy init`; Quit is any
declined prompt, end of input or InitError, CutRewrite and CutAppend a write cut short.
LoadConfig, LogGroups and DeployProbes are what the loader makes of the file.

`MC*` modules give the constants values for TLC; `*Proofs` hold the theorems.

## 4. Runs

All bounds are named in the modules, and each cap sits in the guard of the one
action it limits. MCAgentLoops, MCOperator, MCIntegrations and MCLogs hold several
components that share no state. Their variable `part` is chosen at the start and never
changes: a behaviour is a behaviour of one component while the others stand still in
their initial state, so that one run explores the sum of the state spaces and not
their product.

| Run | Checks | Shows |
|---|---|---|
| `agent_loops` | Conservation, ReleasedWereReceived, QueueSound, LossAccounted, EventuallyReleased (EventBuffer); ShippedOnce, NoUnsettledLoss, SpoolDrains (SpoolFeeder); SealLearned, ReconnectSound (AgentSession) | Events: buffer, batch and cap of two, so that overflow, eviction, requeue overflow and a batch answered after its requeue all happen within four events and two sessions. Spool: one name used by three files of every kind, one failing system call, one crash at any point; names meet only in the order of the listing. Session: three moves of the marker and four ends of a connection, in the handshake or after it, soon or late, enough to reach the longest delay and start afresh. |
| `jobs_shutdown` | OneTerminal, NoOrphan, QuotaCeiling, CancelledIsLast | Three tasks on two request ids and one permit, so an id is used again and the quota command is shed, with every way of ending a session. |
| `jobs_retry` | AttemptsBounded, KeepsContract, JobsFinish, StopCompletes | Two tasks that ask for retries in a window of one unit: the refinement of CommandContract, and that jobs and shutdown end. |
| `logs` | ShippingSound (LogShipping), PolledNoSkip (PolledTail) | Files: two threads, two batch ids, two incarnations of two lines, two sessions, one crash. Polled: three records on two streams, a cap of two, two batches, one lost session or crash, for docker and for journald. |
| `logs_delivered` | LinesDelivered | A matching line is delivered unless its file is rotated first, with two sessions and a crash. |
| `stream` | StreamSound, StreamDelivers | Three batches acked in any order or pruned, a death or a crash at any step. |
| `garage` | KeysAccounted, ReportsTrue, NeverStrands, JobsEnd | Two jobs of one family at a time (making keys, granting, rotating an account key, emptying a bucket, reading beside changes), every lost answer, the end of the session at any call, customers writing. Two jobs and one shared bucket are what a race needs; a second bucket appears when a customer or a job creates it, so that loops over buckets have two rounds. |
| `operator` | NeverStranded (CertRenew); ApplyIsAtomic (Wizard); StoreSound, AuthorityEarned (ExternalPackages); RunsOnce, SealHolds, AnsweredInFull (Dispatch) | Credentials: three serials and keys, two faults (a crash, a failed read, write or request), so that a lost answer meets a pending key that cannot be read, the two renewers and an enrolment; a behaviour is left once two processes have replaced each other's files, where the property says nothing any more (the theorem has all of them). Wizard: plans of three mutations that write one file twice or end in a step with no file, two applies, two deaths, one of which may hit the recovery. Packages: two digests of two publishers, two processes, seven commands, a death and a damaged file. Dispatch: one frame of each shape delivered any number of times within four ticks of a window of one and a skew of one, so that it ages past its window and its nonce is purged; two toggles and a break between any two steps. |
| `integrations` | SyncedIsServed (CaddySync), JobsSound (RcloneJobs), ReleasedWasSeen (MetricsPush), SetupSound (Setup) | Two syncs of two sites and a legacy file with a fault and a cancellation; two restore tests over three objects in two folders with a write, a fault and two cancellations; a migration; two resources pushed three times over two receipts and two sessions; three setup commands in any order, each stopped at any prompt, over three units whose names meet those of two containers and of the feature tables, one with a backslash in its name; any answer may hold a quote. |
| `reader` | NothingVanishes, Converges | Two buckets, of which none, one or both are there when the session begins, its registration having read any of them or found no Garage; two changes of the cluster, those buckets counted, a failed call, a refresh and a hook at any point of a collection; a sweep every second tick and a re-read every third. |
| `stream_overlap` (violation) | NothingForgotten | Finding 1. |
| `garage_rotation` (violation) | RollbackKeepsOldKey | Finding 2. |

Several properties are conjunctions of parts with names of their own, stated and
explained in their module: QueueSound, ReportsTrue, StoreSound, ReconnectSound,
NothingVanishes and others.

`CHECK_DEADLOCK FALSE` is set where the bounds let a behaviour end (all events
stamped, all sessions used, all jobs done); `reader` keeps the check on.

Symmetry is used only in runs without liveness properties.

## 5. Fairness

- Event loop tasks and worker threads make progress: weak fairness of each task's
  or thread's steps (asyncio schedules ready tasks; a thread is not stopped).
- The agent reconnects: weak fairness of Connect (`reconnect.py` backs off with a cap).
- The control plane answers what it has read: weak fairness, an assumption about
  another system. Where messages are lost with a connection that may fail again and
  again, strong fairness of delivery: some session lasts long enough.
- A handler's call returns: the admin API gives up after 15 s. The wall clock of a
  clear passes (strong fairness of ClearTimesOut: the clock is looked at in every
  round).
- StreamDelivers and LinesDelivered also need a prune not to hit every batch
  (`AcksInTime`, strong fairness of Prune where a lost batch must be noticed).
- AgentSession: waits end, a connection opens and its register goes out, the control plane answers a register once it stops refusing,
  and the push loop and the shutdown watcher run (weak fairness). Drops, signals and
  the operator are not forced.
- GarageReader: the metrics loop turns and each call to Garage returns (weak fairness of
  its steps); changes, faults, refreshes and hooks are not forced.
- CertRenew, Wizard, ExternalPackages, Dispatch, CaddySync, RcloneJobs, PolledTail and
  Setup are checked for safety only; no fairness is stated.
- Nothing is assumed of emitters, customers, file writers, crashes or disconnects.

## 6. Findings and known divergences

1. *Two readers of one stream* (`stream_overlap`): the thread of an ended session
   still drains while the next one reads, contrary to the comment at
   `stormpulse/logging/docker_tailer.py:267`.
2. *A lost answer in a key rotation* (`garage_rotation`): when the old key's deletion
   was applied and its answer lost, the rollback deletes the new key as well and
   reports itself complete; `_rollback`'s docstring promises the old key in its
   pre-call state.

### Known divergences

Each of the following is stated as a property of its module, and TLC finds it violated
when it takes the place of the properties of the configuration named; no run keeps it.

| Property | Configuration | What happens |
|---|---|---|
| `JobManager.DuplicateUnresolved` | JobManager.cfg | `dispatch_long_running` (`agent/dispatch.py:381`): a duplicate id is an error "so no result may resolve it"; a duplicate refused before the id is looked at (params, quota, closing) is answered by a result that bears the id of the live request (`agent/dispatch.py:435`). |
| `Dispatch.NeverSilence` | Operator.cfg | `_run_subprocess_command` promises "an honest failure on the wire, never silence"; an exception other than CommandError and ParamValidationError leaves the handler without an answer. |
| `AgentSession.SealAlwaysLearned` | AgentLoops.cfg | The marker moves after the register frame was built and before the push loop took its first reading: the control plane is wrong until the next move or reconnect. |
| `ExternalPackages.OneBadPackageIsolated` | Operator.cfg | The loader's docstring: a bad package "never blocks the others or the agent"; a corrupt file read outside the per-package guard ends the start. |
| `GarageReader.NonSweepKeepsReads` | GarageReader.cfg | "a non-sweep call never reverts one": a read merged between the composition of a state and its replacement is reverted until the next collection. |
| `CaddySync.NoMassDelete` | Integrations.cfg | The text of `authorize_bulk`; a manifest of empty fragments empties sites as writes, which the delete rail does not count. |
| `RcloneJobs.CleanedOnEveryPath` | Integrations.cfg | "Cleanup runs on every path": a cancellation during the purge, or a copy left behind by one, leaves scratch objects nobody is told of. |
| `Setup.GeneratedParses` | Integrations.cfg | `generate_toml` says "Generate a valid TOML config string" (`init/generate.py:59`); it puts the answers between quotes as they are, and one with a quote or a backslash makes a text that tomllib refuses, and the agent with it. |
| `PolledTail.PolledNeverSkips` | LogShipping.cfg | `docker logs` prints stdout and then stderr; a cap between the two stores the last line taken and leaves older lines of the other stream behind it. |

Others appear when an exception of a property, or an assumption of a configuration, is
dropped:

- EventBuffer: a `dropped_events` record that is itself evicted or overflowed counts
  as one lost event, and the losses it announced are then on no record
  (`CHANGELOG.md:601`, "truncation is never silent").
- StreamTail with `Ties = TRUE`: two lines in one microsecond, in two ranges; the
  first ack stores a checkpoint past both, and a respawn starts after the second.
- SpoolFeeder with two elements in `Ticks` (a tick that outlives its session):
  ShippedOnce and NoUnsettledLoss fail.
- SpoolFeeder without `faults < 2` in ShippedOnce, and `MaxFaults = 2`: the unlink of the
  file set aside fails, and the put-back that follows fails as well. The file stays aside,
  `_segments` drops its entry in `_stuck` because the name is free, and when a later
  settle of that name puts it back it is read a second time
  (`stormpulse/agent/event_spool.py:141`, "so a stuck segment never ships twice").
- LogShipping with `TornReads = TRUE` (a truncation inside one read): ShippingSound
  fails.
- Wizard without `careless` in ApplyIsAtomic: an apply begun while an interrupted one
  waits writes over its journal, and its pre-images are gone; `doctor --recover` takes
  no lock and undoes an apply under way.
- CertRenew without `raced`, `torn` and `replaced` in NeverStranded: two renewals that
  overlap share the pending key and the temporary names; an enrolment that dies after the
  control plane certified it, and before its files are written, has spent its token; and a
  pending key that cannot be read or parsed, or is no EC key, is replaced by a fresh one
  (`enroll.py:424-433`), also after a lost answer or a swap cut short, when it is the only
  key the control plane still answers for. The docstring (`enroll.py:421`): "Reuse is what
  lets a retry after a lost response present the same public key".
- AgentSession, were `Lasts` confined to sessions: the comments at `agent/reconnect.py:91`
  ("so the backoff keeps growing instead of resetting on a session that never ran") and
  `:115` ("a real, stable connection") do not hold of a handshake that takes
  `reconnect_max_seconds` or more. `session_start` is taken when the socket opens, the
  discovery and the inventory come before the register, `await_register_ok` waits 30 s for
  its answer, and the test at line 123 looks at the time alone: with
  `reconnect_max_seconds` of 30 or less, a control plane that accepts and stays silent
  starts the waits afresh every time. ReconnectSound is stated of the time since opening.
- Setup without `kept` and `whole` in SetupSound: the section of a feature is replaced by a
  `write_text` of the whole file, which is not atomic; one cut short loses the tables of
  every other feature, which is all that NothingLost excepts (`kept`). `whole` also excepts
  an append cut short and text that TOML refuses: units (`init/journald_logs.py:230`),
  containers and the binary (`logging/init.py`), the values of the feature tables
  (`garage/init.py:290`, `caddy/init.py:134`, `rclone/init.py:102`) and the answers of
  `init` (`init/generate.py:64`) are written between quotes without escaping. A unit
  `app\x2dblue.service`, a systemd name like any other, makes tomllib refuse the whole file.
  A unit stem such as `app@blue` is written as a bare key, which TOML
  refuses, and with it the whole file (`stormpulse/wizard/deploy_subject.py:116`: what
  makes "a file that fails to parse on the next run" is dropped, not written; it checks the
  root and not the stem).
- Setup, where the properties say nothing: an `init` stopped between the write of the
  config or the unit and the sign-off step leaves an agent that is not sealed
  (`stormpulse/signoff/init.py` says a fresh agent must land sealed); a unit left by an
  earlier install makes an unforced `init` stop after the config was replaced; a dotted
  container name gives a log group the loader skips, and a dotted unit stem a table of
  tables; `caddy init` says the agent "will refuse to start" without the import
  (`stormpulse/caddy/init.py:239`) and the agent starts without the integration; an env
  file written down although it does not exist fails `validate_paths` at boot.
- CaddySync without `overrun` in SyncedIsServed: the thread of a cancelled sync writes
  its file after the lock is free, beneath the next sync. (Its /load may come as late; that
  is in the property, because a load takes the files of its own moment.)
- GarageJobs, without the exception each property makes: a CreateKey whose answer is
  lost leaves a key nobody knows of; the clear without credentials reports no key when
  the answer named none; two concurrent demotions (or a demotion and a detach) strand a
  bucket, because the other owner is looked up before the grants are narrowed; two
  writers of CORS rules that expect the same rules both pass the comparison; a reap
  retried after a lost answer returns an empty snapshot; a rotation retried after the
  old key went always rolls back; a converge from a snapshot that names a deleted bucket
  never converges.

## 7. Proofs

TLAPS proves, for every value of the constants allowed by the ASSUMEs of each module
(bounds are naturals, capacities positive, id sets finite), the following. No theorem has
another hypothesis, except the four that are named: `OneThread`, `~TornReads`,
`OneReader` and `~Ties`; each fixes a constant, and section 6 says what happens where it
has another value.

- **EventProofs**, of EventBuffer and SpoolFeeder. `TypeCorrect`, `EventsConserved`,
  `ReleaseFollowsReceipt`, `QueueOrdered` (EventBuffer). Conservation is not inductive: an
  ack releases a batch by its id, so one must know that a batch in flight is contiguous
  and its ids increase (`Contiguous`), that every message on the wire carries exactly the
  events of its batch (`MessagesCarryBatch`), that ids are handed out once
  (`IdsHandedOut`) and that answers follow reads (`AnswersFollowRead`). `IInv` is their
  conjunction with TypeOK, Conservation, the bound of the buffer and ReleasedWereReceived.
  Lemmas on sequences say what the bound keeps and drops, and what removing a batch
  leaves. For the order, `QueueInv` adds `LineKept`: what is in flight is in order, what
  is buffered is in order, and the first is older than the second; the cap counts the ids
  of batches in flight. `LossesOwnedUp` (LossAccounted): what a step drops was not lost
  before, so that the set of lost events grows as the counter does (`LossInv`); a record
  gets a number no record had (`RecordsStamped`), so that the sum over the records grows by
  the new one's count. `NothingLost`, `BufferedOnce` (SpoolFeeder). A file stays under
  the name it was written to, and one set aside is never newer than what took its name
  (`FilesPlaced`); a read that is pending is held by the buffer or its file is spent
  (`PendingSound`); the thread removes only the spent file it has read, and nothing lies
  aside while it looks at a name (`ThreadInv`); while fewer than two calls failed, every
  file read is pending, off the disk, parked, or in the thread's hands. Both assume
  `OneThread`, the one tick of `event_spool_loop` at a time: a session awaits each tick
  before the next. The thread of a cancelled session may overlap the first tick of the
  next one; then both properties can fail (section 6).
- **JobManagerProofs**: `TerminalOnce`, `TasksOwned`, `CancelledLast`,
  `RetriesBounded`, `ContractKept`, `QuotaBounded`. `IInv` adds who owns a request id
  (`Owned`), that `_terminal_attempts` is exact (`Attempted`), what may have been told at
  each await (`ToldFits`) and that shutdown has every live task in hand (`StopReaches`);
  `Budget` bounds the attempts by what is left of the window. `ContractKept` is the
  refinement: initial states map to initial states and each step to a contract step or a
  stutter. The quota follows because the live tasks of a command map one to one to the
  request ids `_jobs` counts when it decides.
- **IntegrationProofs**, of four modules. `NoChangeForgotten` (MetricsPush): `IInv` says
  that an owed id is owed at its latest revision (`Ledger`), that a tracked push carries
  every id up to its watermark unless it was told since (`Carried`), and that acks follow
  reads (`AckedSeen`). `ServesWhatItReports` (CaddySync): a sync under way holds the
  directory and its one thread is at a file it has not finished (`ThreadSound`), and at
  each step of the sync the files agree with its plan as far as it has got (`Reconciled`),
  so that the load serves the manifest and what the rail spared; `CaddyInv` is that, or
  `overrun`, the exception of the property. `NothingLeftBehind` (RcloneJobs): what lies
  under the scratch prefix has a test whose purge is still to come, or was told of or left
  to itself (`ScratchOwned`), and the child of a migration is dead once it was waited for
  (`ChildInHand`); a test needs nothing of the others. A folder map shows the sample of the
  listing it read (`Sampled`): the picks, taken folder by folder, stay within the cap and
  keep both ends and one object of each folder while there is room. `SetupStaysSound` (Setup):
  `SetupInv` says that a file no rewrite was cut in holds what was claimed, and that one
  whose writes were whole and were TOML parses and names each group once (`FileSound`), what a command may rely on at each prompt (`PlaceSound`),
  and that only a file on disk has sections (`BlocksAccounted`); a writer adds a section
  only after it saw that the name is free.
- **AgentProofs**, of Dispatch, CertRenew and AgentSession. `NoReplay`, `SealRespected`,
  `EndedIsAnswered` (Dispatch): the nonce of a frame that was accepted stays in the table
  as long as its timestamp is fresh enough to be accepted again (`Remembered`): a purge
  takes it by the same clock that refuses the frame, and the table outlives a restart.
  `InOrder` ties what ran and what was answered to the step the handler stands at,
  `Admitted` what each reading of the seal and of the grants let through.
  `AlwaysRenewable` (CertRenew): the pending key is one no certificate but the newest was
  issued for (`PendingFresh`); the live certificate is the current one, with its key live
  or still pending, or the one before, whole, with the current one's key pending; nobody
  presents the current certificate while its key is still pending, and a request on its
  way carries the pending key; an enrolment not yet written down is out of reach of a
  renewal (`CertSound`). Where two renewals overlapped (`raced`), or the certified pending
  key was replaced (`replaced`), only types and bounds are kept. `WaitsGrow` (BacksOff): the
  wait in hand is longer than the last one, or the longest, until a connection that was
  open long enough starts afresh (`SessionInv`).
- **OperatorProofs**, of Wizard and ExternalPackages. `ApplyAllOrNothing`: the lock leaves
  one writer (`Locked`); the journal holds the pre-image of every target already touched,
  each the first one taken (`PreImages`); an undo half done leaves exactly the targets
  before its index to restore (`ApplySound`, `DoctorSound`). `WizardInv` is that, or
  `careless`, the exception of the property. `StoreStaysSound` and `AuthorityIsEarned`:
  `PackageInv` says that the lock leaves one command, what it stands on at each of its
  steps (an install past its tree has the tree, a seal its receipt and an active
  publisher, a revocation the grant as it read it; `CommandSound`), and that what was
  revoked is in the overlay even while the grant cannot be read (`FencedRevoked`).
- **LogProofs**: `LinesKept` for file groups, `PolledKeepsLines` for polled ones. A line is
  *due* (a record *owed*) while it matches and the control plane does not have it.
  `LogInv` and `PolledInv` say of every place a position may come from, the checkpoint, a
  thread at any of its steps, a batch and its frame, what is due of the lines before it: none
  for what is about to be stored, only lines it carries for what is to be shipped. An
  incarnation does not shrink and numbers are not used again, so that nothing becomes due
  behind a position. `LinesKept` assumes `~TornReads`; a truncation inside a read mixes two
  incarnations (section 6).
- **StreamProofs**: `StreamKeepsLines`. The open ranges lie one behind the other from the
  checkpoint to where the stream is (`Chain`), so that a checkpoint that moves over the
  done ranges at the head moves over lines that were received (`DoneTold`), and no others;
  a frame carries the matching lines of its range, and an ack, a confirm in hand and one
  that outlived its session stand for received lines (`AckedTold`); the follow stands at
  the stream, or where the read under way has got to, and the read holds what it has taken
  (`ReaderSound`). `OneReader` is one read at a time: two of them are finding 1
  (`stream_overlap`). `~Ties` is that no two lines share a microsecond, on which a range
  is confirmed (section 6).
- **GarageProofs**: `NoBucketVanishes` (GarageReader). Nothing is known of a bucket that
  was never created (`ReaderShape`), and an id does not come back, so that what answered
  404 is gone for good (`GoneIsGone`). While a listing is in flight reads are absorbed
  beside it: what the cache holds of the living is in the listing or was absorbed
  (`ListingCovers`), so the merge drops only what is gone, or says that it is incomplete.
  The cache with the last full read's word of itself, the views on their way and the one
  stored each have what they say they have (`AllThere`, `ViewsSound`); a step can only
  shrink what still exists of a listing. A lemma on the recursion of `Without` types the
  queue of hints. `KeysAreAccounted` (GarageJobs): every key ever made is there, or its
  making was not heard of, or a job made it (`KeysTraced`, one key to one job). Each job
  says of its own key where it stands (`Accounted`: running, reported, cancelled or left to
  be deleted by hand) and of what it deletes that it is gone once the job is past
  the deletion (`GoneSoon`); a rotation's old key is there until the job reaps it
  (`OldKeyThere`). Ids never come back and only a deletion removes a key (`Forward`), so
  that what one job says survives every step of another; one lemma gives the outcomes of a
  call, the lost answers among them, and one lemma per handler the rest.
  `NothingIsStranded` and `ReportsAreTrue` are about jobs during which nobody else changed
  Garage. Neither property is inductive: at its end a job reports what it read or did
  several calls earlier. `ResultsInv` is the invariant of `KeysAccounted` and, for every
  such job, the word of its command (`Told`): at each step, what the job has by now read of
  the cluster and found still so, and what it has brought about. One lemma per handler
  shows that it keeps its own word, whatever its call answers; a step of any other job
  either leaves the cluster as it is or disturbs the job. For the enforcement the word has
  `OwnersStand`: every bucket whose owner it took away had another owner when it was read, which
  the job has not touched since; it holds at every step, so where a job is cut short too.

The structure is the same in each: the initial state satisfies the invariant, one lemma or
case per action shows that it is kept, PTL concludes. Every inductive invariant was first
checked by TLC on the instance of its run.

Three of these proofs corrected their model: CertRenew let an agent whose renewed pair did
not load forget the one it was running with; SpoolFeeder let a rename
of two names of one file remove one of them, which rename(2) does not; AgentSession rounded
the grown wait down, so that a wait of one unit stayed one for ever, where the code's
floats grow by half.

Only model-checked: every liveness property, which is out of the prover's reach
(EventuallyReleased, SpoolDrains, SealLearned, the part ShutdownEnds of ReconnectSound,
JobsFinish, StopCompletes, LinesDelivered, StreamDelivers, JobsEnd, Converges). Where a
proof needs an induction over data (the sum in LossAccounted, the picks in JobsSound), it
takes a least counterexample, by the well-foundedness of < on the naturals.

## 8. What is not modelled

- Pure conversions (protocol codec, log parsers, TOML and Caddyfile text, S3 signing):
  no state that changes. Of the validation of configuration Setup has which blocks are
  accepted, not the rules for each value.
- Terminal programs (installation, investigation, CLI reports).
- Multipart uploads and the paged count of a bucket's objects (one call, and a sum); the CLI-backed raw commands.
- Walk folding and the field registry of events: an event is admitted or refused.
- Assumptions: the head of a file tells its incarnations apart (LogShipping); a thread
  of an ended session has ended before the next session's (SpoolFeeder, StreamTail in
  the passing runs; the overlap is finding 1); Garage applies one call at a time and
  never reuses an id.
- A file log's line is whole when it is read: `readline()` (`logging/tailer.py:101`) also
  returns the part of a last line its writer has not finished, and the rest as a line of its
  own at the next read.
- The walk at registration (GarageReader) is done once, before the loops start; one made
  again by a later session that still has no state is the first step of that session.
- A cancelled purge's call is taken to land before its finally deletes the key.
- The HMAC, TLS and the parsing of certificates are library calls: a frame is signed or
  not, a pair belongs together or not.
- The terminal parts of enrolment, of the wizard's questions and of sign-off: an
  operator says yes or no.
- Two frames at once in Dispatch: the receive loop awaits each handler, so that one
  frame is in hand at a time; jobs it starts are JobManager's.
