---------------------------- MODULE MCAgentLoops ----------------------------
(* The loops every agent runs: the events loop over its buffer, small      *)
(* enough to overflow, evict and requeue within a few events; the spool    *)
(* loop; the reconnect loop around them.  The three machines share no      *)
(* state: a behaviour is one of theirs.                                    *)
EXTENDS EventBuffer, SpoolFeeder, AgentSession

CONSTANTS t1, t2  \* worker threads

VARIABLE part
mcVars == <<vars, spoolVars, sessionVars, part>>

OneName == {1}

MCInit ==
    /\ part \in {"events", "spool", "session"}
    /\ Init
    /\ SpoolInit
    /\ SessionInit /\ (part # "session" => ~marker /\ ~belief)

MCNext ==
    \/ part = "events" /\ Next /\ UNCHANGED <<spoolVars, sessionVars, part>>
    \/ part = "spool" /\ SpoolNext /\ UNCHANGED <<vars, sessionVars, part>>
    \/ part = "session" /\ SessionNext /\ UNCHANGED <<vars, spoolVars, part>>

\* The fairness of each machine, for its own behaviours.
EventsFairness ==
    /\ WF_vars(part = "events" /\ Drain) /\ WF_vars(part = "events" /\ Send)
    /\ WF_vars(part = "events" /\ (ControlPlaneAck \/ ControlPlaneNack))
    /\ WF_vars(part = "events" /\ \E r \in replies : HandleAck(r) \/ HandleNack(r))
    /\ WF_vars(part = "events" /\ Connect)
SpoolFairness ==
    /\ \A t \in Ticks : WF_spoolVars(part = "spool" /\ Step(t)) /\ SF_spoolVars(part = "spool" /\ Lstat(t))
    /\ \A r \in 1 .. MaxReads : WF_spoolVars(part = "spool" /\ Release(r))
SessionsFairness ==
    /\ WF_sessionVars(part = "session" /\ WaitEnds) /\ WF_sessionVars(part = "session" /\ Connected)
    /\ WF_sessionVars(part = "session" /\ SendRegister)
    /\ WF_sessionVars(part = "session" /\ RegisterOk) /\ WF_sessionVars(part = "session" /\ StatePush)
    /\ WF_sessionVars(part = "session" /\ ShutdownWatcher)

MCSpec ==
    /\ MCInit /\ [][MCNext]_mcVars
    /\ EventsFairness /\ SpoolFairness /\ SessionsFairness
=============================================================================
