--------------------------- MODULE MCIntegrations ---------------------------
(* The Caddy sync, the rclone jobs, the pushes of integration state and    *)
(* the commands that configure the integrations: machines that share no    *)
(* state, so that a behaviour is one of theirs.                            *)
EXTENDS CaddySync, RcloneJobs, MetricsPush, Setup, TLC

CONSTANTS s1, s2, j1, j2, t1, t2, a, b, u1, u2, u3

VARIABLE part
mcVars == <<caddyVars, rcloneVars, vars, setupVars, part>>

\* CaddySync: two sites, a bad fragment, and a manifest of empty fragments.
MCManifests ==
    {(s1 :> x) @@ (s2 :> y) : x \in {"f1", "f2", "none"}, y \in {"f2", "none"}}
    \cup {(s1 :> "bad") @@ (s2 :> "f1"), (s1 :> "empty") @@ (s2 :> "empty")}

\* RcloneJobs: an object at the root and one in each of two folders.
MCFolder == [o \in Objects |-> o - 1]

\* Setup: caddy.service, a unit with a dotted stem, and one with a backslash in its; the
\* last two share a group name, the first has a container's.
MCLoadable == {"caddy", "caddy-events", "a-b"}
MCOdd == {"a\\b"}
MCNames == MCLoadable \cup {"a.b"} \cup MCOdd
MCStemOf == (u1 :> "caddy") @@ (u2 :> "a.b") @@ (u3 :> "a\\b")
MCGroupOf == (u1 :> "caddy") @@ (u2 :> "a-b") @@ (u3 :> "a-b")

Symmetric == Permutations(Ids) \cup Permutations(Syncs)

\* The machines with several initial states start there only when it is their turn.
MCInit ==
    /\ part \in {"caddy", "restore", "migrate", "metrics", "setup"}
    /\ CaddyInit /\ (part # "caddy" => \A f \in Files : disk[f] = "none")
    /\ RcloneInit /\ (part # "restore" => bucket = Empty)
    /\ Init /\ SetupInit

MCNext ==
    \/ part = "caddy" /\ CaddyNext /\ UNCHANGED <<rcloneVars, vars, setupVars, part>>
    \/ part = "restore" /\ RestoreNext /\ UNCHANGED <<caddyVars, vars, setupVars, part>>
    \/ part = "migrate" /\ MigrateNext /\ UNCHANGED <<caddyVars, vars, setupVars, part>>
    \/ part = "metrics" /\ Next /\ UNCHANGED <<caddyVars, rcloneVars, setupVars, part>>
    \/ part = "setup" /\ SetupNext /\ UNCHANGED <<caddyVars, rcloneVars, vars, part>>

MCSpec == MCInit /\ [][MCNext]_mcVars
=============================================================================
