------------------------------- MODULE MCLogs -------------------------------
(* File groups and polled groups for TLC.  The two machines share no       *)
(* state: a behaviour is one of theirs.                                    *)
EXTENDS LogShipping, PolledTail, TLC

CONSTANTS w1, w2, b1, b2

VARIABLE part
mcVars == <<vars, polledVars, part>>

Symmetric == Permutations(Workers) \cup Permutations(Batches)

MCInit ==
    /\ part \in {"file", "polled"}
    /\ Init
    /\ PolledInit /\ (part = "file" => kind = "docker")

MCNext ==
    \/ part = "file" /\ Next /\ UNCHANGED <<polledVars, part>>
    \/ part = "polled" /\ PolledNext /\ UNCHANGED <<vars, part>>

MCSpec == MCInit /\ [][MCNext]_mcVars
=============================================================================
