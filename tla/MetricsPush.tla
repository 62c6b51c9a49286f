---------------------------- MODULE MetricsPush ----------------------------
(***************************************************************************)
(* Which resource changes the agent still owes the control plane           *)
(* (agent/integrations_runtime.py).  A read of a resource, by a collect or *)
(* by the hook after a command, gives it a new revision; every metrics.push*)
(* names the resources owed and remembers the revision it was built at; an *)
(* ack of that push releases what it covered.  Pushes are built by the     *)
(* metrics loop, by a refresh and by the hooks of jobs, so several are     *)
(* under way at once.  One integration is modelled: the others only share  *)
(* the push ids.                                                           *)
(***************************************************************************)
EXTENDS Naturals, FiniteSets, Functions

CONSTANTS
    Ids,         \* the resources of the integration
    MaxPending,  \* MAX_PENDING_METRICS_PUSHES
    MaxRev,      \* bound: revisions ever given
    MaxPushes,   \* bound: pushes ever built
    MaxSessions  \* bound: connections ever made

ASSUME PushAssumption ==
    /\ IsFiniteSet(Ids)
    /\ MaxPending \in Nat \ {0}
    /\ {MaxRev, MaxPushes, MaxSessions} \subseteq Nat

VARIABLES
    rev,        \* change_revision
    owed,       \* changed_revisions: id -> revision, 0 for an id not owed
    built,      \* pushes built so far: the wire generation, and the last push id
    pending,    \* pending_pushes: push id -> the revision it was built at
    sending,    \* pushes whose send has not returned
    wire,       \* pushes sent and not yet read by the control plane
    acks,       \* acks on their way to the agent
    link, sessions,
    latest,     \* history: id -> its last revision
    payload,    \* history: push id -> the changed_ids it carries, with revisions
    seen        \* history: id -> the last revision the control plane was told of

ledgerVars == <<rev, owed, latest>>
channelVars == <<sending, wire, acks>>
vars == <<ledgerVars, channelVars, built, pending, link, sessions, payload, seen>>

Init ==
    /\ rev = 0 /\ owed = [i \in Ids |-> 0] /\ latest = [i \in Ids |-> 0]
    /\ built = 0 /\ pending = [p \in {} |-> 0]
    /\ sending = {} /\ wire = {} /\ acks = {}
    /\ link = "down" /\ sessions = 0
    /\ payload = [p \in {} |-> owed]
    /\ seen = [i \in Ids |-> 0]

\* _note_changed(), from a collect's freshness or from a merged targeted read: each
\* id of S gets a revision of its own.
NoteChanged(S) ==
    /\ link = "up" /\ rev + Cardinality(S) =< MaxRev
    /\ rev' = rev + Cardinality(S)
    /\ \E f \in Injection(S, rev + 1 .. rev + Cardinality(S)) :
          /\ owed' = [i \in Ids |-> IF i \in S THEN f[i] ELSE owed[i]]
          /\ latest' = [i \in Ids |-> IF i \in S THEN f[i] ELSE latest[i]]
    /\ UNCHANGED <<channelVars, built, pending, link, sessions, payload, seen>>

\* Mutant: the watermark also covers the next read.
WatermarkAhead == rev + 1

\* The revision a push is tracked under.
Watermark == rev

\* track_push(): the newest receipts are kept (ids grow in insertion order).
Kept(q) == {p \in DOMAIN q : Cardinality({o \in DOMAIN q : o > p}) < MaxPending}

\* build_metrics_envelope(): advance_generation, the payload and track_push, with
\* no await between them; the builder then awaits its send.
Build ==
    LET p == built + 1
        tracked == [o \in DOMAIN pending \cup {p} |-> IF o = p THEN Watermark ELSE pending[o]]
    IN  /\ link = "up" /\ built < MaxPushes
        /\ built' = p
        /\ payload' = [o \in DOMAIN payload \cup {p} |-> IF o = p THEN owed ELSE payload[o]]
        /\ pending' = Restrict(tracked, Kept(tracked))
        /\ sending' = sending \cup {p}
        /\ UNCHANGED <<ledgerVars, wire, acks, link, sessions, seen>>

\* The builder's send returns: the push is on the wire.
SendReturns(p) ==
    /\ p \in sending
    /\ sending' = sending \ {p} /\ wire' = wire \cup {p}
    /\ UNCHANGED <<ledgerVars, acks, built, pending, link, sessions, payload, seen>>

\* The send fails, or the manager that built the push is closing: discard_push().
SendFails(p) ==
    /\ p \in sending
    /\ sending' = sending \ {p}
    /\ pending' = Restrict(pending, DOMAIN pending \ {p})
    /\ UNCHANGED <<ledgerVars, wire, acks, built, link, sessions, payload, seen>>

\* The control plane reads a push, in any order, and acks it; an ack may be repeated.
ControlPlaneReads(p) ==
    /\ p \in wire
    /\ wire' = wire \ {p} /\ acks' = acks \cup {p}
    /\ seen' = [i \in Ids |-> IF payload[p][i] > seen[i] THEN payload[p][i] ELSE seen[i]]
    /\ UNCHANGED <<ledgerVars, sending, built, pending, link, sessions, payload>>

\* acknowledge_push(): only reads the push covered are released.
Released(watermark) == [i \in Ids |-> IF owed[i] > watermark THEN owed[i] ELSE 0]

\* handle_metrics_ack(); the ack of a push no longer tracked releases nothing.
HandleAck(p, repeated) ==
    /\ p \in acks
    /\ acks' = IF repeated THEN acks ELSE acks \ {p}
    /\ IF p \in DOMAIN pending
       THEN owed' = Released(pending[p]) /\ pending' = Restrict(pending, DOMAIN pending \ {p})
       ELSE UNCHANGED <<owed, pending>>
    /\ UNCHANGED <<rev, latest, sending, wire, built, link, sessions, payload, seen>>

Connect ==
    /\ link = "down" /\ sessions < MaxSessions
    /\ link' = "up" /\ sessions' = sessions + 1
    /\ UNCHANGED <<ledgerVars, channelVars, built, pending, payload, seen>>

\* The session ends: discard_pending_pushes(); what was on its way is gone.
Disconnect ==
    /\ link = "up" /\ link' = "down"
    /\ pending' = [p \in {} |-> 0]
    /\ sending' = {} /\ wire' = {} /\ acks' = {}
    /\ UNCHANGED <<ledgerVars, built, sessions, payload, seen>>

Next ==
    \/ \E S \in SUBSET Ids \ {{}} : NoteChanged(S)
    \/ Build
    \/ \E p \in sending : SendReturns(p) \/ SendFails(p)
    \/ \E p \in wire : ControlPlaneReads(p)
    \/ \E p \in acks, repeated \in BOOLEAN : HandleAck(p, repeated)
    \/ Connect
    \/ Disconnect

Spec == Init /\ [][Next]_vars

----------------------------------------------------------------------------
TypeOK ==
    /\ rev \in Nat /\ built \in Nat
    /\ owed \in [Ids -> Nat] /\ latest \in [Ids -> Nat] /\ seen \in [Ids -> Nat]
    /\ DOMAIN pending \subseteq 1 .. built /\ pending \in [DOMAIN pending -> Nat]
    /\ payload \in [1 .. built -> [Ids -> Nat]]
    /\ sending \subseteq 1 .. built /\ wire \subseteq 1 .. built /\ acks \subseteq 1 .. built
    /\ link \in {"up", "down"} /\ sessions \in 0 .. MaxSessions

\* A change is released only when the control plane has read a push that names the
\* resource at its latest read, or at one as new: through lost pushes, evicted
\* receipts, acks out of order and reads that land between a push and its ack.
ReleasedWasSeen == \A i \in Ids : owed[i] = 0 => latest[i] =< seen[i]
=============================================================================
