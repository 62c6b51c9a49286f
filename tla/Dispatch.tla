------------------------------ MODULE Dispatch ------------------------------
(***************************************************************************)
(* The receive loop of one agent process: an inbound command envelope is   *)
(* authenticated (stormpulse/auth.py), admitted (agent/admission.py,       *)
(* agent/signoff_guard.py), run and answered (agent/dispatch.py), one      *)
(* frame at a time, while the operator seals and unseals the sign-off      *)
(* hatch and revokes grants from another process, the socket drops and the *)
(* agent restarts with the nonce table it kept on disk.                    *)
(*                                                                         *)
(* A command is known by how it is admitted and run:                       *)
(*   "plain"    a built-in subprocess command                              *)
(*   "hatch"    run_verify_block / run_apply_block, behind the seal        *)
(*   "ext"      a subprocess command of an external package, behind its    *)
(*              grant (CommandSpec.authorize)                              *)
(*   "job"      a long-running command, handed to the JobManager           *)
(*   "refresh"  an integration's state refresh                             *)
(*   "unknown"  a name no registry holds                                   *)
(* A network that may delay and repeat any frame is modelled by letting    *)
(* the loop receive any frame ever sent, at any time.                      *)
(***************************************************************************)
EXTENDS Integers, Sequences, FiniteSets

CONSTANTS
    Frames,      \* envelopes the control plane may send; each has its own nonce
    Shapes,      \* what they may carry: [kind, steps, stop, sound]
    MaxAge,      \* auth.command_max_age_seconds
    Skew,        \* _CLOCK_SKEW_TOLERANCE_SECONDS
    MaxClock,    \* bound: the clock stops here
    MaxToggles,  \* bound on seal, unseal, revoke and grant
    MaxBreaks    \* bound on socket drops and restarts

CommandKinds == {"plain", "hatch", "ext", "job", "refresh", "unknown"}

\* A request is a sequence of one step, to the model.
ASSUME DispatchAssumption ==
    /\ MaxAge \in Nat /\ Skew \in Nat
    /\ \A s \in Shapes : /\ s.kind \in {"request", "sequence"}
                         /\ s.steps \in Seq(CommandKinds) /\ s.steps # <<>>
                         /\ s.kind = "request" => Len(s.steps) = 1

VARIABLES
    clock,     \* seconds; monotone, and the same for every read of one check
    sealed,    \* no unseal marker on disk
    granted,   \* the external package's grant authorizes its commands
    deps,      \* what the boot built: [loaded, live] (hatch in the registry,
               \* the integration live)
    session,   \* "down", "match" or "mismatch" (SessionCompatibility)
    nonces,    \* the seen_nonces table: [frame, seen]
    sent,      \* Frames -> the envelope, or Unsent
    handler,   \* the frame being handled
    ran,       \* Frames -> history: the steps run, and what was open then
    answers,   \* Frames -> the results sent: [i, v]
    ended,     \* frames whose handler came to its end
    raised,    \* frames whose handler ended in an exception the loop swallowed
    toggles, breaks

dispatchVars == <<clock, sealed, granted, deps, session, nonces, sent, handler,
                  ran, answers, ended, raised, toggles, breaks>>

Unsent == [kind |-> "none"]
\* handler: where it stands, the frame and step, the verdict to answer with;
\* history: was the seal open since the frame was accepted (open), since this
\* step was taken up (openStep), and the grant held since then (grantStep).
NoFrame == [at |-> "idle"]
SUBPROCESS == {"plain", "hatch", "ext"}

-----------------------------------------------------------------------------
\* The registry the boot built (build_registry over the live integration's specs).
BuildRegistry ==
    {"plain"} \cup (IF deps.loaded THEN {"hatch"} ELSE {})
              \cup (IF deps.live THEN {"ext", "job", "refresh"} ELSE {})

\* Boot: the registry is fixed from the seal as it is now; the integration came
\* up live or not.
BuildAgentDependencies(live) == [loaded |-> ~sealed, live |-> live]

ResolveIntegration == BOOLEAN

\* get_command: in the registry, a subprocess, and its grant holds.
GetCommand(c) ==
    c \in BuildRegistry /\ c \in SUBPROCESS /\ (c = "ext" => granted)

-----------------------------------------------------------------------------
(***************************************************************************)
(* auth.py                                                                 *)
(***************************************************************************)
\* Mutant: the purge forgets the skew a future-dated command lives longer by.
CutoffNoSkew == clock - MaxAge

\* NonceStore.check_and_store: the rows older than the cutoff go, a nonce that
\* is still there is refused (and the purge rolled back), a new one is stored.
Cutoff == clock - MaxAge - Skew

CheckAndStore(f) ==
    LET kept == {n \in nonces : n.seen >= Cutoff} IN
    /\ \A n \in kept : n.frame # f
    /\ nonces' = kept \cup {[frame |-> f, seen |-> clock]}

\* verify_envelope: not from the future, not too old, signed, well formed, new.
VerifyEnvelope(f) ==
    LET age == clock - sent[f].ts IN
    /\ age >= -Skew
    /\ age <= MaxAge
    /\ sent[f].shape.sound
    /\ CheckAndStore(f)

-----------------------------------------------------------------------------
(***************************************************************************)
(* The control plane, the clock, the operator and the breaks               *)
(***************************************************************************)
Send(f) ==
    /\ sent[f] = Unsent
    /\ \E shape \in Shapes, ts \in (clock - 1) .. (clock + Skew + 1) :
         sent' = [sent EXCEPT ![f] = [kind |-> shape.kind, shape |-> shape, ts |-> ts]]
    /\ UNCHANGED <<clock, sealed, granted, deps, session, nonces, handler,
                   ran, answers, ended, raised, toggles, breaks>>

Tick ==
    /\ clock < MaxClock
    /\ clock' = clock + 1
    /\ UNCHANGED <<sealed, granted, deps, session, nonces, sent, handler,
                   ran, answers, ended, raised, toggles, breaks>>

\* SignoffState.seal / unseal, from the command line, at any moment.
ToggleSeal ==
    /\ toggles < MaxToggles
    /\ toggles' = toggles + 1
    /\ sealed' = ~sealed
    /\ handler' = IF handler = NoFrame \/ ~sealed THEN handler
                  ELSE [handler EXCEPT !.open = TRUE, !.openStep = TRUE]
    /\ UNCHANGED <<clock, granted, deps, session, nonces, sent, ran, answers,
                   ended, raised, breaks>>

\* The grant is revoked, or sealed again.
ToggleGrant ==
    /\ toggles < MaxToggles
    /\ toggles' = toggles + 1
    /\ granted' = ~granted
    /\ handler' = IF handler = NoFrame \/ granted THEN handler
                  ELSE [handler EXCEPT !.grantStep = TRUE]
    /\ UNCHANGED <<clock, sealed, deps, session, nonces, sent, ran, answers,
                   ended, raised, breaks>>

\* A session registers: the control plane's contract matches ours or not.
SessionOpens ==
    /\ session = "down"
    /\ session' \in {"match", "mismatch"}
    /\ UNCHANGED <<clock, sealed, granted, deps, nonces, sent, handler, ran,
                   answers, ended, raised, toggles, breaks>>

\* The socket closes: the task group cancels the handler where it stands.
Drop ==
    /\ session # "down" /\ breaks < MaxBreaks
    /\ breaks' = breaks + 1
    /\ session' = "down" /\ handler' = NoFrame
    /\ UNCHANGED <<clock, sealed, granted, deps, nonces, sent, ran, answers,
                   ended, raised, toggles>>

\* The process dies and is started again; only the files survive.
Restart ==
    /\ breaks < MaxBreaks
    /\ breaks' = breaks + 1
    /\ session' = "down" /\ handler' = NoFrame
    /\ \E live \in ResolveIntegration : deps' = BuildAgentDependencies(live)
    /\ UNCHANGED <<clock, sealed, granted, nonces, sent, ran, answers, ended,
                   raised, toggles>>

-----------------------------------------------------------------------------
(***************************************************************************)
(* dispatch.py.  A refused envelope (stale, forged, malformed, replayed)   *)
(* leaves no trace here; Recv is the accepted case.                        *)
(***************************************************************************)
StepAt == sent[handler.frame].shape.steps[handler.i]
StepsOf == sent[handler.frame].shape.steps
IsSequence == sent[handler.frame].kind = "sequence"
FirstOf(P(_)) == CHOOSE k \in DOMAIN StepsOf :
                   P(StepsOf[k]) /\ \A j \in 1 .. (k - 1) : ~P(StepsOf[j])

Answer(f, i, v) == answers' = [answers EXCEPT ![f] = Append(@, [i |-> i, v |-> v])]
FrameDone == handler' = NoFrame /\ ended' = ended \cup {handler.frame}
Handling(p) == handler # NoFrame /\ handler.at = p
Advance(p) == handler' = [handler EXCEPT !.at = p] /\ UNCHANGED <<answers, ended>>
\* One refusal result, for step i; the frame is done.
RefuseAt(i) == Answer(handler.frame, i, "refused") /\ FrameDone

quiet == <<clock, sealed, granted, deps, session, sent, toggles, breaks>>

\* receive_loop takes the frame, _verify_typed_payload lets it through, and
\* refuse_incompatible_command asks whether this session may run commands.
Recv(f) ==
    /\ session # "down" /\ handler = NoFrame /\ sent[f] # Unsent
    /\ VerifyEnvelope(f)
    /\ IF session = "match"
       THEN /\ handler' = [at |-> IF sent[f].kind = "sequence" THEN "restart" ELSE "seal",
                           frame |-> f, i |-> 1, v |-> "none",
                           open |-> ~sealed, openStep |-> ~sealed, grantStep |-> granted]
            /\ UNCHANGED <<answers, ended>>
       ELSE /\ Answer(f, 1, "refused") /\ ended' = ended \cup {f}
            /\ UNCHANGED handler
    /\ UNCHANGED <<quiet, ran, raised>>

\* needs_restart_to_load over a whole sequence.
SequenceRestart ==
    /\ Handling("restart")
    /\ LET missing(c) == c = "hatch" /\ c \notin BuildRegistry IN
       IF ~sealed /\ \E k \in DOMAIN StepsOf : missing(StepsOf[k])
       THEN RefuseAt(FirstOf(missing))
       ELSE Advance("lookup")
    /\ UNCHANGED <<quiet, nonces, ran, raised>>

\* Every name must be a runnable subprocess before any step runs.
SequenceLookup ==
    /\ Handling("lookup")
    /\ LET bad(c) == ~GetCommand(c) IN
       IF \E k \in DOMAIN StepsOf : bad(StepsOf[k])
       THEN RefuseAt(FirstOf(bad))
       ELSE Advance("batch")
    /\ UNCHANGED <<quiet, nonces, ran, raised>>

\* Mutant: only the steps are gated, not the batch.
BatchNeverBlocked == FALSE

\* is_blocked_by_seal over the whole sequence: a sealed batch runs no step.
BatchBlocked == sealed /\ "hatch" \in {StepsOf[k] : k \in DOMAIN StepsOf}

SequenceSeal ==
    /\ Handling("batch")
    /\ LET hatch(c) == c = "hatch" IN
       IF BatchBlocked THEN RefuseAt(FirstOf(hatch)) ELSE Advance("seal")
    /\ UNCHANGED <<quiet, nonces, ran, raised>>

\* refusal_for, its three readings in turn: the seal, the fence, the registry.
SealedStep == sealed /\ StepAt = "hatch"
FencedStep == StepAt = "ext" /\ StepAt \in BuildRegistry /\ ~granted
RestartStep == ~sealed /\ StepAt = "hatch" /\ StepAt \notin BuildRegistry

RefusalFor ==
    /\ \/ Handling("seal") /\ (IF SealedStep THEN RefuseAt(handler.i) ELSE Advance("fence"))
       \/ Handling("fence") /\ (IF FencedStep THEN RefuseAt(handler.i) ELSE Advance("late"))
       \/ Handling("late") /\ (IF RestartStep THEN RefuseAt(handler.i) ELSE Advance("run"))
    /\ UNCHANGED <<quiet, nonces, ran, raised>>

Runs == ran' = [ran EXCEPT ![handler.frame] = Append(@,
            [i |-> handler.i, open |-> handler.open, openStep |-> handler.openStep,
             grantStep |-> handler.grantStep])]
ToAnswer(v) == handler' = [handler EXCEPT !.at = "answer", !.v = v] /\ UNCHANGED <<ended, raised>>
Raise == FrameDone /\ raised' = raised \cup {handler.frame}

\* execute_command in a thread.  The lookup is made again, then the params are
\* validated against the spec: either may refuse what admission let through.
InThread == Handling("run") /\ StepAt \notin {"job", "refresh"} \cap BuildRegistry

ValidateParams ==
    /\ InThread /\ ToAnswer("failed")
    /\ UNCHANGED <<quiet, nonces, answers, ran>>

\* A placeholder of the template that no param fills: a ValueError nobody answers.
ResolveCommand ==
    /\ InThread /\ GetCommand(StepAt) /\ Raise
    /\ UNCHANGED <<quiet, nonces, answers, ran>>

\* The child runs, and ends well or badly (exit code, timeout, no binary); its
\* output may not decode, which raises past the handlers.
ExecuteCommand ==
    /\ InThread /\ GetCommand(StepAt) /\ Runs
    /\ Raise \/ \E v \in {"ok", "failed"} : ToAnswer(v)
    /\ UNCHANGED <<quiet, nonces, answers>>

\* dispatch_long_running: invalid, unservable, shed or closing is a failure;
\* else the JobManager owns the request and will answer for it.
DispatchLongRunning ==
    /\ Handling("run") /\ StepAt = "job" /\ StepAt \in BuildRegistry
    /\ \/ ToAnswer("failed") /\ UNCHANGED ran
       \/ ToAnswer("ok") /\ Runs
    /\ UNCHANGED <<quiet, nonces, answers>>

\* handle_refresh: collect, answer, push; a collector that raises is swallowed.
HandleRefresh ==
    /\ Handling("run") /\ StepAt = "refresh" /\ StepAt \in BuildRegistry
    /\ \/ \E v \in {"ok", "failed"} : Runs /\ ToAnswer(v)
       \/ Runs /\ Raise
    /\ UNCHANGED <<quiet, nonces, answers>>

\* Mutant: a sequence that stops on a failure stops before sending it on.
StopsOnAnyFailure == \/ ~IsSequence \/ handler.i = Len(StepsOf) \/ handler.v = "failed"

\* The result goes out; a sequence goes on unless it was told to stop on a failure.
StopsHere == \/ ~IsSequence
             \/ handler.i = Len(StepsOf)
             \/ sent[handler.frame].shape.stop /\ handler.v = "failed"

SendResult ==
    /\ Handling("answer")
    /\ Answer(handler.frame, handler.i, handler.v)
    /\ IF StopsHere THEN FrameDone
       ELSE /\ handler' = [handler EXCEPT !.at = "seal", !.i = @ + 1, !.v = "none",
                                          !.openStep = ~sealed, !.grantStep = granted]
            /\ UNCHANGED ended
    /\ UNCHANGED <<quiet, nonces, ran, raised>>

-----------------------------------------------------------------------------
DispatchInit ==
    /\ clock = 0 /\ sealed \in BOOLEAN /\ granted = TRUE
    /\ \E live \in ResolveIntegration : deps = BuildAgentDependencies(live)
    /\ session = "down" /\ nonces = {} /\ handler = NoFrame
    /\ sent = [f \in Frames |-> Unsent]
    /\ ran = [f \in Frames |-> <<>>] /\ answers = [f \in Frames |-> <<>>]
    /\ ended = {} /\ raised = {} /\ toggles = 0 /\ breaks = 0

DispatchNext ==
    \/ \E f \in Frames : Send(f) \/ Recv(f)
    \/ Tick \/ ToggleSeal \/ ToggleGrant \/ SessionOpens \/ Drop \/ Restart
    \/ SequenceRestart \/ SequenceLookup \/ SequenceSeal \/ RefusalFor
    \/ ValidateParams \/ ResolveCommand \/ ExecuteCommand
    \/ DispatchLongRunning \/ HandleRefresh \/ SendResult

DispatchSpec == DispatchInit /\ [][DispatchNext]_dispatchVars

-----------------------------------------------------------------------------
(***************************************************************************)
(* Properties                                                              *)
(***************************************************************************)
Envelopes == [kind : {"request", "sequence"}, shape : Shapes, ts : Int]

HandlerStates ==
    [at : {"restart", "lookup", "batch", "seal", "fence", "late", "run", "answer"},
     frame : Frames, i : Nat \ {0}, v : {"none", "ok", "failed"},
     open : BOOLEAN, openStep : BOOLEAN, grantStep : BOOLEAN]

DispatchTypeOK ==
    /\ clock \in Nat /\ sealed \in BOOLEAN /\ granted \in BOOLEAN
    /\ deps \in [loaded : BOOLEAN, live : BOOLEAN]
    /\ session \in {"down", "match", "mismatch"}
    /\ nonces \subseteq [frame : Frames, seen : Nat]
    /\ sent \in [Frames -> Envelopes \cup {Unsent}]
    /\ handler \in HandlerStates \cup {NoFrame}
    /\ ran \in [Frames -> Seq([i : Nat, open : BOOLEAN, openStep : BOOLEAN, grantStep : BOOLEAN])]
    /\ answers \in [Frames -> Seq([i : Nat, v : {"ok", "failed", "refused"}])]
    /\ ended \subseteq Frames /\ raised \subseteq Frames
    /\ toggles \in Nat /\ breaks \in Nat

\* However often a frame is delivered, in its freshness window or after it,
\* before or after a purge, a reconnect or a restart, no step of it runs or is
\* answered twice, and both happen in order (NonceStore outlives the window of
\* the command).
RunsOnce ==
    \A f \in Frames :
        /\ \A j, k \in DOMAIN ran[f] : j < k => ran[f][j].i < ran[f][k].i
        /\ \A j, k \in DOMAIN answers[f] : j < k => answers[f][j].i < answers[f][k].i

\* What ran was allowed when it ran: no step of a frame that carries a sealed
\* hatch ran unless the seal was open at some moment since the frame was
\* accepted; a hatch step needs the seal open since that very step was taken
\* up, an external step its grant (a reseal or a revoke stops the next step).
SealHolds ==
    \A f \in Frames : \A k \in DOMAIN ran[f] :
        LET steps == sent[f].shape.steps
            r == ran[f][k]
        IN  /\ (\E j \in DOMAIN steps : steps[j] = "hatch") => r.open
            /\ steps[r.i] = "hatch" => r.openStep
            /\ steps[r.i] = "ext" => r.grantStep

\* A handler that came to its end told the control plane everything: a result for
\* every step that ran, and the last one either closes the frame or says why the rest
\* did not run.
Answered(f) ==
    LET a == answers[f]
        last == a[Len(a)]
        steps == sent[f].shape.steps
    IN  /\ a # <<>>
        /\ \A k \in DOMAIN ran[f] : \E j \in DOMAIN a : a[j].i = ran[f][k].i
        /\ \/ last.i = Len(steps)
           \/ last.v = "refused"
           \/ sent[f].shape.stop /\ last.v = "failed"

\* Every accepted frame whose handler was neither cut off by the socket nor
\* ended by an exception is answered in full.
AnsweredInFull == \A f \in ended \ raised : Answered(f)

\* The docstring of _run_subprocess_command: an authenticated request "gets an
\* honest failure on the wire, never silence".  Violated by the code where the
\* handler raises (README, Known divergences).
NeverSilence == \A f \in ended : Answered(f)

=============================================================================
