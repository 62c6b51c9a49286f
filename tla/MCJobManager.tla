---------------------------- MODULE MCJobManager ----------------------------
(* Small instances of JobManager: a quota command that may not ask to run   *)
(* again, and another one with a retry window.                              *)
EXTENDS JobManager, TLC

CONSTANTS quota, other, RetryWindow  \* RetryWindow: 0 for none

BothCommands == {quota, other}

MCWindow == [c \in Commands |-> IF c = quota \/ RetryWindow = 0 THEN -1 ELSE RetryWindow]

Symmetric == Permutations(Rids)
=============================================================================
