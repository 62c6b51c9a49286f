----------------------------- MODULE MCOperator -----------------------------
(* The commands of the operator and of the control plane, and the agent    *)
(* between them: credentials, the wizard's journal, the package store and  *)
(* the dispatch of a command.  The four machines share no state: a         *)
(* behaviour is one of theirs.                                             *)
EXTENDS CertRenew, Wizard, ExternalPackages, Dispatch, TLC

CONSTANTS d1, d2, p1, p2, o1, o2, f1

VARIABLE part
mcVars == <<certVars, wizVars, packageVars, dispatchVars, part>>

\* Wizard: a file written twice, a provider's drop-in, a restart and a probe.
Mut(k, t, d) == [kind |-> k, target |-> t, data |-> d]
MCPlans ==
    {<<Mut("claim", "conf", "a"), Mut("claim", "conf", "b"), Mut("unit", "unit", "u")>>,
     <<Mut("install", "bin", "x"), Mut("caddy", "proxy", "c"), Mut("restart", "none", "r")>>,
     <<Mut("install", "bin", "y"), Mut("install", "bin", "z"), Mut("probe", "none", "p")>>}

\* ExternalPackages: one package of each publisher.
MCPublisherOf == (d1 :> p1) @@ (d2 :> p2)
MCRequested == (d1 :> Caps) @@ (d2 :> Caps)

\* Dispatch: requests of every kind, sequences with a late refusal, and a frame that is not signed.
Request(c) == [kind |-> "request", steps |-> <<c>>, stop |-> TRUE, sound |-> TRUE]
Sequence(steps, stop) == [kind |-> "sequence", steps |-> steps, stop |-> stop, sound |-> TRUE]
MCShapes ==
    {Request("hatch"), Request("job"), Request("refresh"), Request("unknown"),
     Sequence(<<"plain", "hatch">>, FALSE), Sequence(<<"plain", "ext">>, TRUE),
     [Request("plain") EXCEPT !.sound = FALSE]}

\* A machine starts in its several initial states only when it is its turn.
MCInit ==
    /\ part \in {"cert", "wizard", "packages", "dispatch"}
    /\ CertInit /\ WizInit /\ PackagesInit
    /\ DispatchInit /\ (part # "dispatch" => sealed /\ ~deps.live)

MCNext ==
    \* raced is never reset and NeverStranded claims nothing after it: no need to look on
    \/ part = "cert" /\ ~raced /\ CertNext /\ UNCHANGED <<wizVars, packageVars, dispatchVars, part>>
    \/ part = "wizard" /\ WizNext /\ UNCHANGED <<certVars, packageVars, dispatchVars, part>>
    \/ part = "packages" /\ PackagesNext /\ UNCHANGED <<certVars, wizVars, dispatchVars, part>>
    \/ part = "dispatch" /\ DispatchNext /\ UNCHANGED <<certVars, wizVars, packageVars, part>>

MCSpec == MCInit /\ [][MCNext]_mcVars
=============================================================================
