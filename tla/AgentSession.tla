---------------------------- MODULE AgentSession ----------------------------
(***************************************************************************)
(* The life of the agent's connection (agent/reconnect.py): connect,       *)
(* register, wait for register.ok, run the session's loops, back off and   *)
(* try again, until the shutdown signal; and the two ways the control      *)
(* plane learns whether the sign-off hatch is sealed: the register frame   *)
(* (agent/register.py) and the push loop that watches the marker file      *)
(* (agent/signoff_push.py) while the operator's command line               *)
(* (cli/signoff.py) moves it.                                              *)
(***************************************************************************)
EXTENDS Naturals

CONSTANTS
    MinDelay,    \* dashboard.reconnect_min_seconds
    MaxDelay,    \* dashboard.reconnect_max_seconds
    MaxFlips,    \* bound: how often the operator seals or unseals
    MaxDrops     \* bound: connections that fail or end

ASSUME SessionAssumption == MinDelay \in Nat \ {0} /\ MaxDelay \in Nat /\ MinDelay <= MaxDelay

VARIABLES
    marker,     \* the unseal marker exists on disk (so: not sealed)
    conn,       \* "waiting", "connecting", "opened", "registering", "up" or "stopped"
    lasted,     \* reconnect_max_seconds have gone by since session_start
    compat,     \* agent.session_compatibility: "none", "match" or "mismatch"
    lastRead,       \* the push loop's last_sealed, as marker; meaningful when up
    belief,     \* the control plane's last word on the marker
    delay,      \* the next wait
    slept,      \* history: the last wait
    signal,     \* agent.shutdown
    missed,     \* history: the marker moved after register and before the loop
    flips, drops

sessionVars == <<marker, conn, lasted, compat, lastRead, belief, delay, slept,
                 signal, missed, flips, drops>>

-----------------------------------------------------------------------------
(***************************************************************************)
(* signoff/__init__.py, cli/signoff.py                                     *)
(***************************************************************************)
CmdSignoffSeal ==
    /\ marker /\ flips < MaxFlips
    /\ marker' = FALSE /\ flips' = flips + 1
    /\ UNCHANGED <<conn, lasted, compat, lastRead, belief, delay, slept, signal, missed, drops>>

\* Only after the operator typed the host's name; else nothing changes.
CmdSignoffUnseal ==
    /\ ~marker /\ flips < MaxFlips
    /\ marker' = TRUE /\ flips' = flips + 1
    /\ UNCHANGED <<conn, lasted, compat, lastRead, belief, delay, slept, signal, missed, drops>>

\* SIGINT or SIGTERM sets the shutdown event.
Signal ==
    /\ ~signal
    /\ signal' = TRUE
    /\ UNCHANGED <<marker, conn, lasted, compat, lastRead, belief, delay, slept, missed, flips, drops>>

-----------------------------------------------------------------------------
(***************************************************************************)
(* agent/reconnect.py, agent/register.py                                   *)
(***************************************************************************)
Clamped(d) == IF d < MaxDelay THEN d ELSE MaxDelay

\* _sleep_with_jitter's return value: half as long again, in whole units rounded up, clamped.
Grown(d) == Clamped((3 * d + 1) \div 2)

\* Mutant: any drop resets the back-off.
AfterEndAlways(longLived) == MinDelay

\* The delay the loop sleeps after a failure: a connection that lasted opens a
\* new failure era, anything else keeps backing off.  The test is of the time
\* since session_start alone, registered or not.
AfterEnd(longLived) == IF longLived THEN MinDelay ELSE delay

\* Every way a connection ends comes back to the loop: shutdown ends it, else
\* it waits and tries again.
EndConnection(longLived) ==
    /\ lasted' = FALSE /\ compat' = "none" /\ missed' = FALSE /\ lastRead' = FALSE
    /\ IF signal
       THEN conn' = "stopped" /\ UNCHANGED <<delay, slept>>
       ELSE /\ conn' = "waiting"
            /\ slept' = AfterEnd(longLived)
            /\ delay' = Grown(AfterEnd(longLived))
    /\ UNCHANGED <<marker, belief, signal, flips>>

\* The wait ends, early when the shutdown event fires.
WaitEnds ==
    /\ conn = "waiting"
    /\ conn' = IF signal THEN "stopped" ELSE "connecting"
    /\ UNCHANGED <<marker, lasted, compat, lastRead, belief, delay, slept, signal, missed, flips, drops>>

\* Refused, unreachable, or past open_timeout: session_start is still None.
ConnectFails ==
    /\ conn = "connecting" /\ drops < MaxDrops
    /\ drops' = drops + 1
    /\ EndConnection(FALSE)

\* The socket opens and session_start is taken, before the handshake.
Connected ==
    /\ conn = "connecting"
    /\ conn' = "opened" /\ compat' = "none"
    /\ UNCHANGED <<marker, lasted, lastRead, belief, delay, slept, signal, missed, flips, drops>>

\* send_register, after the discovery and the inventory its threads collect:
\* the marker is read as the frame is built and goes out with it.
SendRegister ==
    /\ conn = "opened"
    /\ conn' = "registering" /\ compat' = "none" /\ belief' = marker
    /\ UNCHANGED <<marker, lasted, lastRead, delay, slept, signal, missed, flips, drops>>

\* The socket closes before register is out, or await_register_ok raises: silence,
\* an error, another frame, another version.  However it fails, the loop looks only
\* at how long ago the socket opened.
HandshakeFails ==
    /\ conn \in {"opened", "registering"} /\ drops < MaxDrops
    /\ drops' = drops + 1
    /\ EndConnection(lasted)

\* register.ok is read, the loops start; the push loop takes the marker as it
\* is now for what the control plane knows.
RegisterOk ==
    /\ conn = "registering"
    /\ conn' = "up"
    /\ compat' \in {"match", "mismatch"}
    /\ lastRead' = marker /\ missed' = (belief # marker)
    /\ UNCHANGED <<marker, lasted, belief, delay, slept, signal, flips, drops>>

\* The open connection outlives the longest back-off: a session, or a handshake
\* whose discovery or 30 s of silence take reconnect_max_seconds.
Lasts ==
    /\ conn \in {"opened", "registering", "up"} /\ ~lasted
    /\ lasted' = TRUE
    /\ UNCHANGED <<marker, conn, compat, lastRead, belief, delay, slept, signal, missed, flips, drops>>

\* Mutant: the push loop starts without reading the marker.
PushNever == FALSE /\ UNCHANGED sessionVars

\* One tick of signoff_state_push_loop that finds the marker moved.
StatePush ==
    /\ conn = "up" /\ lastRead # marker
    /\ belief' = marker /\ lastRead' = marker /\ missed' = FALSE
    /\ UNCHANGED <<marker, conn, lasted, compat, delay, slept, signal, flips, drops>>

\* The socket closes under a session.
SocketCloses ==
    /\ conn = "up" /\ drops < MaxDrops
    /\ drops' = drops + 1
    /\ EndConnection(lasted)

\* _shutdown_watcher: the jobs are cancelled, the socket closed.
ShutdownWatcher ==
    /\ conn = "up" /\ signal
    /\ EndConnection(lasted)
    /\ UNCHANGED drops

-----------------------------------------------------------------------------
SessionInit ==
    /\ marker \in BOOLEAN /\ belief \in BOOLEAN
    /\ conn = "connecting" /\ lasted = FALSE /\ compat = "none" /\ lastRead = FALSE
    /\ delay = MinDelay /\ slept = 0 /\ signal = FALSE /\ missed = FALSE
    /\ flips = 0 /\ drops = 0

SessionNext ==
    \/ CmdSignoffSeal \/ CmdSignoffUnseal \/ Signal
    \/ WaitEnds \/ ConnectFails \/ Connected \/ SendRegister \/ HandshakeFails \/ RegisterOk
    \/ Lasts \/ StatePush \/ SocketCloses \/ ShutdownWatcher

\* The event loop keeps running its tasks, every wait has a timeout, and the
\* control plane answers a register once it stops refusing.
SessionFairness ==
    /\ WF_sessionVars(WaitEnds) /\ WF_sessionVars(Connected) /\ WF_sessionVars(SendRegister)
    /\ WF_sessionVars(RegisterOk) /\ WF_sessionVars(StatePush)
    /\ WF_sessionVars(ShutdownWatcher)

SessionSpec == SessionInit /\ [][SessionNext]_sessionVars /\ SessionFairness

-----------------------------------------------------------------------------
\* Every connection that ends within reconnect_max_seconds of its opening makes the
\* next wait longer, up to the longest: a control plane that accepts and drops at once,
\* or refuses the handshake at once, is not hammered.  One that stayed open that long
\* starts the waits afresh, however long they had grown, and also when all it did was
\* to wait for a register.ok that never came (README, Known divergences: the comment at
\* reconnect.py:91 says otherwise).
BacksOff ==
    [][conn # "waiting" /\ conn' = "waiting" =>
          IF lasted THEN slept' = MinDelay
          ELSE slept' > slept \/ slept' = MaxDelay]_sessionVars

\* Once the operator and the network are quiet, the control plane knows whether
\* the hatch is sealed, unless the marker moved between the register frame and
\* the start of the push loop, or the agent is stopped.
SealLearned == <>[](belief = marker \/ missed \/ signal)

\* The signoff_state_push_loop docstring, without the exception: "Push
\* signoff.state on every observed seal transition" (ADR CORE-004 live propagation).
\* Violated by the code (README, Known divergences).
SealAlwaysLearned == <>[](belief = marker \/ signal)

\* A shutdown signal ends the agent wherever the connection stood.
ShutdownEnds == signal ~> (conn = "stopped")

\* The reconnect loop neither hammers a control plane that refuses it nor outlives the
\* shutdown signal.
ReconnectSound == BacksOff /\ ShutdownEnds
=============================================================================
