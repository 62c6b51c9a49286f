-------------------------- MODULE CommandContract --------------------------
(***************************************************************************)
(* What the agent promises the control plane about a long-running command  *)
(* (the docstrings of commands/jobs.py and of shutdown_all).  An accepted  *)
(* command is answered at most once and an answer is final; it is called   *)
(* cancelled only by an agent that is stopping and never tried to answer   *)
(* it; it goes unanswered only when its answer was tried and may have been *)
(* lost, when the session is lost, or when no answer could be prepared.    *)
(***************************************************************************)
CONSTANT Tasks

VARIABLES
    status,  \* what has become of each command
    mode     \* of the session: "open", "stopping" (graceful) or "lost"

Statuses == {"none", "accepted", "tried", "answered", "cancelled", "unknown", "abandoned"}

contractVars == <<status, mode>>

ContractInit == status = [t \in Tasks |-> "none"] /\ mode = "open"

Becomes(t, old, new) ==
    /\ status[t] = old
    /\ status' = [status EXCEPT ![t] = new]
    /\ mode' = mode

Accept(t) == mode # "stopping" /\ Becomes(t, "none", "accepted")

Try(t) == Becomes(t, "accepted", "tried")

Answered(t) == Becomes(t, "tried", "answered")

Ambiguous(t) == Becomes(t, "tried", "unknown")

Abandon(t) == mode # "stopping" /\ Becomes(t, "accepted", "abandoned")

Cancel(t) == mode = "stopping" /\ Becomes(t, "accepted", "cancelled")

Stop == mode = "open" /\ mode' = "stopping" /\ UNCHANGED status

Lose == mode' = "lost" /\ UNCHANGED status

\* A lost session: the control plane infers the outcome of any open command.
Forget(S) ==
    /\ mode = "lost" /\ mode' = "lost"
    /\ \A t \in S : status[t] = "accepted"
    /\ status' = [t \in Tasks |-> IF t \in S THEN "unknown" ELSE status[t]]

ContractNext ==
    \/ \E t \in Tasks : Accept(t) \/ Try(t) \/ Answered(t) \/ Ambiguous(t) \/ Abandon(t) \/ Cancel(t)
    \/ Stop
    \/ Lose
    \/ \E S \in SUBSET Tasks : Forget(S)

ContractSpec == ContractInit /\ [][ContractNext]_contractVars
=============================================================================
