------------------------- MODULE IntegrationProofs -------------------------
(***************************************************************************)
(* Proofs about the integrations.  MetricsPush: no change is released      *)
(* before the control plane was told of it.  CaddySync: a sync that        *)
(* reports its writes live is right.  RcloneJobs: a job leaves nothing     *)
(* behind unsaid, and the sample of a restore test stands for its bucket.  *)
(* Setup: what the setup commands leave loads.                             *)
(***************************************************************************)
EXTENDS MetricsPush, CaddySync, RcloneJobs, Setup, FiniteSetTheorems, WellFoundedInduction, TLAPS

-----------------------------------------------------------------------------
(* MetricsPush.                                                            *)

\* The ledger: an owed id is owed at its latest revision, and what is not owed has
\* been seen.
Ledger ==
    \A i \in Ids : /\ latest[i] =< rev
                   /\ owed[i] # 0 => owed[i] = latest[i]
                   /\ owed[i] = 0 => latest[i] =< seen[i]

\* A tracked push names, at its latest revision, every id read no later than the
\* push that the control plane has not been told of by another one.
Carried ==
    \A p \in DOMAIN pending :
        /\ pending[p] =< rev
        /\ \A i \in Ids : latest[i] =< pending[p] => payload[p][i] = latest[i] \/ latest[i] =< seen[i]

\* Only pushes the control plane has read are acked.
AckedSeen == \A p \in acks : \A i \in Ids : payload[p][i] =< seen[i]

IInv == TypeOK /\ Ledger /\ Carried /\ AckedSeen

\* The initial state.
LEMMA InitIInv == Init => IInv
BY PushAssumption DEF Init, IInv, TypeOK, Ledger, Carried, AckedSeen

\* The number of ids a read names.
LEMMA ReadSize == ASSUME NEW S \in SUBSET Ids PROVE Cardinality(S) \in Nat
BY PushAssumption, FS_Subset, FS_CardinalityType

\* _note_changed(): the new revisions are above every watermark.
LEMMA NoteStep == ASSUME IInv, NEW S \in SUBSET Ids, NoteChanged(S) PROVE IInv'
<1>1. PICK f \in Injection(S, rev + 1 .. rev + Cardinality(S)) :
          /\ owed' = [i \in Ids |-> IF i \in S THEN f[i] ELSE owed[i]]
          /\ latest' = [i \in Ids |-> IF i \in S THEN f[i] ELSE latest[i]]
  BY DEF NoteChanged
<1>2. Cardinality(S) \in Nat
  BY ReadSize
<1>3. \A i \in S : f[i] \in Nat /\ rev < f[i] /\ f[i] =< rev'
  BY <1>1, <1>2 DEF Injection, NoteChanged, IInv, TypeOK
<1>4. rev' \in Nat /\ rev =< rev'
  BY <1>2 DEF NoteChanged, IInv, TypeOK
<1>5. UNCHANGED <<channelVars, built, pending, link, sessions, payload, seen>>
  BY DEF NoteChanged
<1>6. TypeOK'
  BY <1>1, <1>3, <1>4, <1>5 DEF IInv, TypeOK, channelVars
<1>7. Ledger'
  BY <1>1, <1>3, <1>4, <1>5 DEF IInv, TypeOK, Ledger
<1>8. Carried'
  BY <1>1, <1>3, <1>4, <1>5 DEF IInv, TypeOK, Ledger, Carried
<1>9. AckedSeen'
  BY <1>5 DEF IInv, AckedSeen, channelVars
<1>10. QED
  BY <1>6, <1>7, <1>8, <1>9 DEF IInv

\* track_push(): the new receipt is the read revision, and an eviction only forgets.
LEMMA BuildStep == ASSUME IInv, Build PROVE IInv'
<1> DEFINE p == built + 1
           tracked == [o \in DOMAIN pending \cup {p} |-> IF o = p THEN Watermark ELSE pending[o]]
<1>1. /\ built' = p /\ sending' = sending \cup {p}
      /\ payload' = [o \in DOMAIN payload \cup {p} |-> IF o = p THEN owed ELSE payload[o]]
      /\ pending' = Restrict(tracked, Kept(tracked))
      /\ UNCHANGED <<ledgerVars, wire, acks, link, sessions, seen>>
  BY DEF Build
<1>2. Kept(tracked) \subseteq DOMAIN tracked
  BY DEF Kept
<1>3. /\ DOMAIN pending' \subseteq DOMAIN pending \cup {p}
      /\ \A o \in DOMAIN pending' : pending'[o] = IF o = p THEN rev ELSE pending[o]
      /\ pending' = [o \in DOMAIN pending' |-> pending'[o]]
  BY <1>1, <1>2 DEF Restrict, Watermark
<1>4. /\ built' = built + 1 /\ p \in Nat /\ p \notin 1 .. built /\ 1 .. built' = 1 .. built \cup {p}
  BY <1>1 DEF IInv, TypeOK
<1> HIDE DEF p, tracked
<1>5. /\ payload' \in [1 .. built' -> [Ids -> Nat]] /\ payload'[p] = owed
      /\ \A o \in 1 .. built : payload'[o] = payload[o]
  BY <1>1, <1>4 DEF IInv, TypeOK
<1>6. TypeOK'
  <2>1. DOMAIN pending' \subseteq 1 .. built' /\ pending' \in [DOMAIN pending' -> Nat]
    BY <1>3, <1>4 DEF IInv, TypeOK
  <2>2. QED
    BY <1>1, <1>4, <1>5, <2>1 DEF IInv, TypeOK, ledgerVars
<1>7. Ledger'
  BY <1>1 DEF IInv, Ledger, ledgerVars
<1>8. Carried'
  <2> SUFFICES ASSUME NEW o \in DOMAIN pending'
               PROVE  /\ pending'[o] =< rev
                      /\ \A i \in Ids : latest[i] =< pending'[o] => payload'[o][i] = latest[i] \/ latest[i] =< seen[i]
    BY <1>1 DEF Carried, ledgerVars
  <2>1. CASE o = p
    BY <1>3, <1>5, <2>1 DEF IInv, TypeOK, Ledger
  <2>2. CASE o # p
    BY <1>3, <1>5, <2>2 DEF IInv, TypeOK, Carried
  <2>3. QED
    BY <2>1, <2>2
<1>9. AckedSeen'
  BY <1>1, <1>5 DEF IInv, TypeOK, AckedSeen
<1>10. QED
  BY <1>6, <1>7, <1>8, <1>9 DEF IInv

\* acknowledge_push(): what is released was on the push, or seen before.
LEMMA AckStep == ASSUME IInv, NEW p \in acks, NEW repeated \in BOOLEAN, HandleAck(p, repeated) PROVE IInv'
<1>1. acks' \subseteq acks /\ UNCHANGED <<rev, latest, sending, wire, built, link, sessions, payload, seen>>
  BY DEF HandleAck
<1>2. /\ DOMAIN pending' \subseteq DOMAIN pending
      /\ \A o \in DOMAIN pending' : pending'[o] = pending[o]
      /\ pending' \in [DOMAIN pending' -> Nat]
  BY DEF HandleAck, Restrict, IInv, TypeOK
<1>3. owed' \in [Ids -> Nat] /\ \A i \in Ids : owed'[i] = owed[i] \/ owed'[i] = 0
  BY DEF HandleAck, Released, IInv, TypeOK
<1>4. TypeOK'
  BY <1>1, <1>2, <1>3 DEF IInv, TypeOK
<1>5. Ledger'
  <2> SUFFICES ASSUME NEW i \in Ids, owed'[i] = 0, owed[i] # 0 PROVE latest[i] =< seen[i]
    BY <1>1, <1>3 DEF IInv, Ledger
  <2>1. p \in DOMAIN pending /\ owed[i] =< pending[p]
    BY DEF HandleAck, Released, IInv, TypeOK
  <2>2. latest[i] =< pending[p]
    BY <2>1 DEF IInv, Ledger
  <2>3. payload[p][i] = latest[i] \/ latest[i] =< seen[i]
    BY <2>1, <2>2 DEF IInv, Carried
  <2>4. QED
    BY <2>3 DEF IInv, AckedSeen
<1>6. Carried'
  BY <1>1, <1>2 DEF IInv, Carried
<1>7. AckedSeen'
  BY <1>1 DEF IInv, AckedSeen
<1>8. QED
  BY <1>4, <1>5, <1>6, <1>7 DEF IInv

\* What the control plane is told only grows.
LEMMA ReadStep == ASSUME IInv, NEW p \in wire, ControlPlaneReads(p) PROVE IInv'
<1>1. /\ seen' \in [Ids -> Nat]
      /\ \A i \in Ids : seen[i] =< seen'[i] /\ payload[p][i] =< seen'[i]
  BY DEF ControlPlaneReads, IInv, TypeOK
<1>2. acks' = acks \cup {p} /\ wire' \subseteq wire
      /\ UNCHANGED <<ledgerVars, sending, built, pending, link, sessions, payload>>
  BY DEF ControlPlaneReads
<1>3. TypeOK'
  BY <1>1, <1>2 DEF IInv, TypeOK, ledgerVars
<1>4. Ledger'
  BY <1>1, <1>2 DEF IInv, TypeOK, Ledger, ledgerVars
<1>5. Carried'
  BY <1>1, <1>2 DEF IInv, TypeOK, Carried, ledgerVars
<1>6. AckedSeen'
  BY <1>1, <1>2 DEF IInv, TypeOK, AckedSeen
<1>7. QED
  BY <1>3, <1>4, <1>5, <1>6 DEF IInv

\* Sends, failures and the connection only forget receipts and messages.
LEMMA ChannelStep ==
    ASSUME IInv,
           \/ \E p \in sending : SendReturns(p) \/ SendFails(p)
           \/ Connect
           \/ Disconnect
    PROVE  IInv'
<1>1. UNCHANGED <<ledgerVars, built, payload, seen>> /\ acks' \subseteq acks
  BY DEF SendReturns, SendFails, Connect, Disconnect, channelVars
<1>2. /\ DOMAIN pending' \subseteq DOMAIN pending
      /\ \A o \in DOMAIN pending' : pending'[o] = pending[o]
      /\ pending' \in [DOMAIN pending' -> Nat]
  BY DEF SendReturns, SendFails, Connect, Disconnect, Restrict, IInv, TypeOK
<1>3. /\ sending' \subseteq 1 .. built /\ wire' \subseteq 1 .. built
      /\ link' \in {"up", "down"} /\ sessions' \in 0 .. MaxSessions
  <2>1. MaxSessions \in Nat
    BY PushAssumption
  <2>2. sending' \subseteq sending /\ wire' \subseteq wire \cup sending
    BY DEF SendReturns, SendFails, Connect, Disconnect, channelVars
  <2>3. sessions' \in 0 .. MaxSessions
    <3>1. sessions \in 0 .. MaxSessions
      BY DEF IInv, TypeOK
    <3>2. sessions' = sessions \/ (sessions < MaxSessions /\ sessions' = sessions + 1)
      BY DEF SendReturns, SendFails, Connect, Disconnect
    <3>3. QED
      BY <2>1, <3>1, <3>2
  <2>4. link' \in {"up", "down"}
    BY DEF SendReturns, SendFails, Connect, Disconnect, IInv, TypeOK
  <2>5. QED
    BY <2>2, <2>3, <2>4 DEF IInv, TypeOK
<1>4. TypeOK'
  BY <1>1, <1>2, <1>3 DEF IInv, TypeOK, ledgerVars
<1>5. Ledger'
  BY <1>1 DEF IInv, Ledger, ledgerVars
<1>6. Carried' /\ AckedSeen'
  BY <1>1, <1>2 DEF IInv, Carried, AckedSeen, ledgerVars
<1>7. QED
  BY <1>4, <1>5, <1>6 DEF IInv

\* The inductive invariant holds of every reachable state.
THEOREM Invariance == Spec => []IInv
<1>1. IInv /\ [Next]_vars => IInv'
  <2> SUFFICES ASSUME IInv, [Next]_vars PROVE IInv'
    OBVIOUS
  <2>1. CASE \E S \in SUBSET Ids \ {{}} : NoteChanged(S)
    BY <2>1, NoteStep
  <2>2. CASE Build
    BY <2>2, BuildStep
  <2>3. CASE \E p \in wire : ControlPlaneReads(p)
    BY <2>3, ReadStep
  <2>4. CASE \E p \in acks, repeated \in BOOLEAN : HandleAck(p, repeated)
    BY <2>4, AckStep
  <2>5. CASE (\E p \in sending : SendReturns(p) \/ SendFails(p)) \/ Connect \/ Disconnect
    BY <2>5, ChannelStep
  <2>6. CASE UNCHANGED vars
    BY <2>6 DEF vars, ledgerVars, channelVars, IInv, TypeOK, Ledger, Carried, AckedSeen
  <2>7. QED
    BY <2>1, <2>2, <2>3, <2>4, <2>5, <2>6 DEF Next
<1>2. QED
  BY InitIInv, <1>1, PTL DEF Spec

\* A change leaves changed_revisions only when the control plane has read a push
\* that names the resource at its latest read (acknowledge_push, track_push,
\* discard_push, discard_pending_pushes), for every set of resources, every limit of
\* receipts and every order of pushes, acks and lost connections.
THEOREM NoChangeForgotten == Spec => []ReleasedWasSeen
<1>1. IInv => ReleasedWasSeen
  BY DEF IInv, Ledger, ReleasedWasSeen
<1>2. QED
  BY <1>1, Invariance, PTL

-----------------------------------------------------------------------------
(* CaddySync.                                                              *)

\* The steps of a sync that has its plan.
Planned == {"write", "delete", "adapt", "load"}
Plans == [writes : SUBSET Sites, deletes : SUBSET Files, tripped : BOOLEAN]
Jobs == [at : {"new", "scan", "ended"} \cup Planned, manifest : [Sites -> Values], bulk : BOOLEAN,
         plan : Plans, left : SUBSET Files, kept : SUBSET Files,
         told : {"nothing", "config_invalid", "persist_failed", "reload_failed", "rail_tripped", "synced", "cancelled"}]
Ops == [job : Syncs, file : Files, frag : {"empty"} \cup Frags, step : {"unlink", "tmp", "replace"}]

\* The type invariant.
CaddyShape ==
    /\ disk \in [Files -> {"none"} \cup Frags] /\ tmp \in [Sites -> {"none"} \cup Frags]
    /\ job \in [Syncs -> Jobs] /\ thread \subseteq Ops

\* A sync under way holds the directory.
LockHeld == \A j \in Syncs : job[j].at \notin {"new", "ended"} => dirLock = j

\* The one operation under way: of the phase its sync is in, on a file that is not left.
Phase(j) == IF job[j].at = "write" THEN job[j].plan.writes ELSE job[j].plan.deletes

ThreadSound(t) ==
    /\ Persisting(t.job) /\ t.file \in Phase(t.job) \ job[t.job].left
    /\ t.frag = Fragment(t.job, t.file) /\ (t.frag = "empty" <=> t.step = "unlink")
    /\ t.step = "replace" => tmp[t.file] = t.frag

\* No operation on the file is due or under way.
Settled(j, f) == f \notin job[j].left /\ \A t \in thread : t.file # f

\* What the file of a manifest entry holds.
Holds(v) == IF v \in Frags THEN v ELSE "none"

\* The files against the plan: what was written holds the manifest's fragment, what was
\* deleted is gone, what the rail spared is there, and nothing else is.
Reconciled(j) ==
    LET p == job[j].plan IN
    /\ p.writes = {s \in Sites : job[j].manifest[s] # "none"}
    /\ p.deletes \cap p.writes = {} /\ job[j].kept \cap p.writes = {} /\ job[j].kept \cap p.deletes = {}
    /\ \A f \in job[j].kept : disk[f] # "none"
    /\ \A f \in Files \ (p.writes \cup p.deletes \cup job[j].kept) : disk[f] = "none"
    /\ \A f \in p.writes : job[j].at # "write" \/ Settled(j, f) => disk[f] = Holds(job[j].manifest[f])
    /\ \A f \in p.deletes :
         job[j].at \in {"adapt", "load"} \/ (job[j].at = "delete" /\ Settled(j, f)) => disk[f] = "none"
    /\ job[j].left \subseteq Phase(j)
    /\ job[j].at \in {"adapt", "load"} => job[j].left = {}

CaddySound ==
    /\ CaddyShape /\ LockHeld
    /\ \A t, u \in thread : t = u
    /\ \A t \in thread : ThreadSound(t)
    /\ \A j \in Syncs : job[j].at \in Planned => Reconciled(j)

\* Nothing is claimed once the thread of a cancelled sync runs on beside a later one.
CaddyInv == overrun \/ CaddySound

-----------------------------------------------------------------------------
\* While a sync holds the directory, or none does, the others are not under way.
LEMMA OthersIdle ==
    ASSUME CaddySound, NEW j \in Syncs, dirLock \in {j, "free"}
    PROVE  /\ \A i \in Syncs \ {j} : job[i].at \in {"new", "ended"}
           /\ \A t \in thread : t.job = j
<1>1. \A i \in Syncs \ {j} : job[i].at \in {"new", "ended"}
  BY CaddyAssumption DEF CaddySound, LockHeld
<1>2. ASSUME NEW t \in thread PROVE t.job = j
  <2>1. t.job \in Syncs /\ job[t.job].at \in {"write", "delete"}
    BY DEF CaddySound, CaddyShape, Ops, ThreadSound, Persisting
  <2> QED BY <1>1, <2>1
<1> QED BY <1>1, <1>2

\* The step of the sync that holds the directory, or takes it.
LEMMA Assembled ==
    ASSUME CaddySound, NEW j \in Syncs, dirLock \in {j, "free"},
           job' \in [Syncs -> Jobs], \A i \in Syncs \ {j} : job'[i] = job[i],
           disk' \in [Files -> {"none"} \cup Frags], tmp' \in [Sites -> {"none"} \cup Frags],
           thread' \subseteq Ops, \A t, u \in thread' : t = u, \A t \in thread' : ThreadSound(t)',
           job'[j].at \notin {"new", "ended"} => dirLock' = j,
           job'[j].at \in Planned => Reconciled(j)'
    PROVE  CaddySound'
<1>1. \A i \in Syncs \ {j} : job'[i].at \in {"new", "ended"}
  BY OthersIdle
<1>2. LockHeld'
  BY <1>1 DEF LockHeld
<1>3. ASSUME NEW i \in Syncs, job'[i].at \in Planned PROVE Reconciled(i)'
  <2>1. i = j
    BY <1>1, <1>3 DEF Planned
  <2> QED BY <1>3, <2>1
<1> QED BY <1>2, <1>3 DEF CaddySound, CaddyShape

\* A sync that ends with no operation under way.
LEMMA EndStep ==
    ASSUME CaddySound, NEW j \in Syncs, dirLock = j, thread' = {}, UNCHANGED <<disk, tmp>>,
           NEW what \in {"config_invalid", "persist_failed", "reload_failed", "rail_tripped", "synced", "cancelled"},
           Ends(j, what)
    PROVE  CaddySound'
<1>1. PICK r \in Jobs : job' = [job EXCEPT ![j] = r] /\ r.at = "ended"
  <2>1. job[j] \in Jobs /\ {} \in SUBSET Files
    BY DEF CaddySound, CaddyShape
  <2>2. [job[j] EXCEPT !.at = "ended", !.told = what, !.left = {}] \in Jobs
    BY <2>1 DEF Jobs
  <2>3. job' = [job EXCEPT ![j] = [job[j] EXCEPT !.at = "ended", !.told = what, !.left = {}]]
    BY DEF Ends
  <2>4. [job[j] EXCEPT !.at = "ended", !.told = what, !.left = {}].at = "ended"
    BY <2>1 DEF Jobs
  <2> QED BY <2>2, <2>3, <2>4
<1>2. job' \in [Syncs -> Jobs] /\ job'[j] = r /\ \A i \in Syncs \ {j} : job'[i] = job[i]
  BY <1>1 DEF CaddySound, CaddyShape
<1>3. disk' \in [Files -> {"none"} \cup Frags] /\ tmp' \in [Sites -> {"none"} \cup Frags]
  BY DEF CaddySound, CaddyShape
<1>4. r.at \in {"new", "ended"} /\ r.at \notin Planned
  BY <1>1 DEF Planned
<1> QED BY <1>2, <1>3, <1>4, Assembled

\* A sync with no operation of its own leaves no operation at all.
LEMMA NoThread ==
    ASSUME CaddySound, NEW j \in Syncs, dirLock \in {j, "free"}, MyThread(j) = {} \/ ~Persisting(j)
    PROVE  thread = {}
<1> SUFFICES ASSUME NEW t \in thread PROVE FALSE
  OBVIOUS
<1>1. t.job = j
  BY OthersIdle
<1> QED BY <1>1 DEF CaddySound, ThreadSound, MyThread

\* A sync starts: nothing is under way.
LEMMA StartsStep ==
    ASSUME CaddySound, NEW j \in Syncs, NEW m \in Manifests, NEW bulk \in BOOLEAN, SyncStarts(j, m, bulk)
    PROVE  CaddySound'
<1>1. PICK r \in Jobs : job' = [job EXCEPT ![j] = r] /\ r.at = "scan"
  <2>1. m \in [Sites -> Values] /\ [s \in Sites |-> "none"] \in [Sites -> Values]
    BY CaddyAssumption DEF Values
  <2>2. NoPlan \in Plans
    BY DEF NoPlan, Plans
  <2>3. NotStarted \in Jobs
    BY <2>1, <2>2 DEF NotStarted, Jobs
  <2>4. [NotStarted EXCEPT !.at = "scan", !.manifest = m, !.bulk = bulk] \in Jobs
    BY <2>1, <2>3 DEF Jobs
  <2>5. [NotStarted EXCEPT !.at = "scan", !.manifest = m, !.bulk = bulk].at = "scan"
    BY <2>3 DEF Jobs
  <2> QED BY <2>4, <2>5 DEF SyncStarts
<1>2. job' \in [Syncs -> Jobs] /\ job'[j] = r /\ \A i \in Syncs \ {j} : job'[i] = job[i]
  BY <1>1 DEF CaddySound, CaddyShape
<1>3. /\ disk' \in [Files -> {"none"} \cup Frags] /\ tmp' \in [Sites -> {"none"} \cup Frags]
      /\ dirLock' = j /\ dirLock = "free" /\ At(j, "new")
  BY DEF CaddySound, CaddyShape, SyncStarts, DirLock
<1>4. thread' = {}
  BY <1>3, NoThread DEF SyncStarts, At, Persisting
<1> QED BY <1>1, <1>2, <1>3, <1>4, Assembled DEF Planned

\* The plan sorts the files: to write, to delete, or spared by the rail; no other is there.
LEMMA PlanStep ==
    ASSUME CaddySound, NEW j \in Syncs, ScanAndPlan(j)
    PROVE  CaddySound'
<1> DEFINE named == {s \in Sites : job[j].manifest[s] # "none"}
           there == {f \in Files : disk[f] # "none"}
           p == PlanReconcile(job[j].manifest, job[j].bulk)
           spared == IF p.tripped THEN there \ p.writes ELSE {}
<1>1. job[j] \in Jobs /\ job[j].at = "scan" /\ dirLock = j /\ thread = {} /\ thread' = {} /\ dirLock' = j
      /\ UNCHANGED <<disk, tmp>>
  BY NoThread DEF CaddySound, CaddyShape, ScanAndPlan, LockHeld, At, Persisting
<1>2. /\ p \in Plans /\ p.writes = named
      /\ (p.tripped /\ p.deletes = {}) \/ (~p.tripped /\ p.deletes = there \ named)
  BY DEF PlanReconcile, Plans, Files
<1> HIDE DEF p
<1>3. PICK r \in Jobs : /\ job' = [job EXCEPT ![j] = r]
                        /\ r.at = "write" /\ r.plan = p /\ r.left = named /\ r.kept = spared
                        /\ r.manifest = job[j].manifest
  <2>1. spared \in SUBSET Files /\ named \in SUBSET Files
    BY DEF Files
  <2>2. PICK k \in SUBSET Files : k = spared
    BY <2>1
  <2>3. PICK w \in SUBSET Files : w = named
    BY <2>1
  <2>4. job' = [job EXCEPT ![j] = [job[j] EXCEPT !.at = "write", !.plan = p, !.left = w, !.kept = k]]
    BY <1>2, <2>2, <2>3 DEF ScanAndPlan, p
  <2> HIDE DEF named, spared, there
  <2>5. [job[j] EXCEPT !.at = "write", !.plan = p, !.left = w, !.kept = k] \in Jobs
    BY <1>1, <1>2, <2>2, <2>3 DEF Jobs, Planned
  <2> QED BY <1>1, <2>2, <2>3, <2>4, <2>5 DEF Jobs
<1>4. job' \in [Syncs -> Jobs] /\ job'[j] = r /\ \A i \in Syncs \ {j} : job'[i] = job[i]
  BY <1>3 DEF CaddySound, CaddyShape
<1>5. Reconciled(j)'
  <2>1. /\ r.plan.writes = {s \in Sites : r.manifest[s] # "none"}
        /\ r.plan.deletes \cap r.plan.writes = {} /\ r.kept \cap r.plan.writes = {} /\ r.kept \cap r.plan.deletes = {}
    BY <1>2, <1>3
  <2>2. /\ \A f \in r.kept : disk'[f] # "none"
        /\ \A f \in Files \ (r.plan.writes \cup r.plan.deletes \cup r.kept) : disk'[f] = "none"
    BY <1>1, <1>2, <1>3
  <2>3. \A f \in r.plan.writes : f \in r.left
    BY <1>2, <1>3
  <2>4. r.left \subseteq r.plan.writes
    BY <1>2, <1>3
  <2> QED BY <1>3, <1>4, <2>1, <2>2, <2>3, <2>4 DEF Reconciled, Settled, Phase
<1>6. disk' \in [Files -> {"none"} \cup Frags] /\ tmp' \in [Sites -> {"none"} \cup Frags]
  BY <1>1 DEF CaddySound, CaddyShape
<1> QED BY <1>1, <1>4, <1>5, <1>6, Assembled

\* Nothing left and no thread: every file of the phase is settled.
LEMMA PhaseStep ==
    ASSUME CaddySound, NEW j \in Syncs, PersistPhase(j)
    PROVE  CaddySound'
<1>1. /\ job[j] \in Jobs /\ job[j].at \in {"write", "delete"} /\ dirLock = j /\ dirLock' = j
      /\ job[j].left = {} /\ UNCHANGED <<disk, tmp, thread>>
  BY DEF CaddySound, CaddyShape, PersistPhase, Persisting, LockHeld
<1>2. thread = {} /\ thread' = {} /\ Reconciled(j)
  BY <1>1, NoThread DEF PersistPhase, CaddySound, Planned
<1>3. PICK r \in Jobs :
         /\ job' = [job EXCEPT ![j] = r]
         /\ r.manifest = job[j].manifest /\ r.plan = job[j].plan /\ r.kept = job[j].kept
         /\ \/ job[j].at = "write" /\ r.at = "delete" /\ r.left = job[j].plan.deletes
            \/ job[j].at = "delete" /\ r.at = "adapt" /\ r.left = {}
  <2>1. CASE job[j].at = "write"
    <3>1. PICK d \in SUBSET Files : d = job[j].plan.deletes
      BY <1>1 DEF Jobs, Plans
    <3>2. job' = [job EXCEPT ![j] = [job[j] EXCEPT !.at = "delete", !.left = d]]
      BY <2>1, <3>1 DEF PersistPhase, At
    <3>3. [job[j] EXCEPT !.at = "delete", !.left = d] \in Jobs
      BY <1>1, <3>1 DEF Jobs, Planned
    <3> QED BY <1>1, <2>1, <3>1, <3>2, <3>3 DEF Jobs
  <2>2. CASE job[j].at = "delete"
    <3>1. job' = [job EXCEPT ![j] = [job[j] EXCEPT !.at = "adapt"]]
      BY <2>2 DEF PersistPhase, At
    <3>2. [job[j] EXCEPT !.at = "adapt"] \in Jobs
      BY <1>1 DEF Jobs, Planned
    <3> QED BY <1>1, <2>2, <3>1, <3>2 DEF Jobs
  <2> QED BY <1>1, <2>1, <2>2
<1>4. job' \in [Syncs -> Jobs] /\ job'[j] = r /\ \A i \in Syncs \ {j} : job'[i] = job[i]
  BY <1>3 DEF CaddySound, CaddyShape
<1>5. \A f : Settled(j, f)
  BY <1>1, <1>2 DEF Settled
<1>6. \A f \in r.plan.writes : disk'[f] = Holds(r.manifest[f])
  BY <1>1, <1>2, <1>3, <1>5 DEF Reconciled
<1>7. r.at = "adapt" => \A f \in r.plan.deletes : disk'[f] = "none"
  BY <1>1, <1>2, <1>3, <1>5 DEF Reconciled
<1>8. r.at = "delete" => \A f \in r.plan.deletes : f \in r.left
  BY <1>3
<1>9. /\ r.plan.writes = {s \in Sites : r.manifest[s] # "none"}
      /\ r.plan.deletes \cap r.plan.writes = {} /\ r.kept \cap r.plan.writes = {} /\ r.kept \cap r.plan.deletes = {}
  BY <1>2, <1>3 DEF Reconciled
<1>10. /\ \A f \in r.kept : disk'[f] # "none"
       /\ \A f \in Files \ (r.plan.writes \cup r.plan.deletes \cup r.kept) : disk'[f] = "none"
  BY <1>1, <1>2, <1>3 DEF Reconciled
<1>11. r.at # "write" /\ r.at # "load" /\ r.left \subseteq r.plan.deletes /\ (r.at = "adapt" => r.left = {})
  BY <1>3
<1>12. Reconciled(j)'
  BY <1>4, <1>6, <1>7, <1>8, <1>9, <1>10, <1>11 DEF Reconciled, Settled, Phase
<1>13. disk' \in [Files -> {"none"} \cup Frags] /\ tmp' \in [Sites -> {"none"} \cup Frags]
  BY <1>1 DEF CaddySound, CaddyShape
<1> QED BY <1>1, <1>2, <1>4, <1>12, <1>13, Assembled

\* A file leaves the list for its thread.
LEMMA FileTaken ==
    ASSUME CaddySound, NEW j \in Syncs, NEW f \in Files, PersistFile(j, f)
    PROVE  CaddySound'
<1> DEFINE u == [job |-> j, file |-> f, frag |-> Fragment(j, f),
                 step |-> IF Fragment(j, f) = "empty" THEN "unlink" ELSE "tmp"]
<1>1. /\ job[j] \in Jobs /\ job[j].at \in {"write", "delete"} /\ dirLock = j /\ dirLock' = j
      /\ f \in job[j].left /\ UNCHANGED <<disk, tmp>>
  BY DEF CaddySound, CaddyShape, PersistFile, Persisting, LockHeld
<1>2. thread = {} /\ thread' = {u} /\ Reconciled(j)
  BY <1>1, NoThread DEF PersistFile, CaddySound, Planned
<1>3. PICK r \in Jobs :
         /\ job' = [job EXCEPT ![j] = r] /\ r.at = job[j].at /\ r.manifest = job[j].manifest
         /\ r.plan = job[j].plan /\ r.kept = job[j].kept /\ r.left = job[j].left \ {f}
  <2>1. PICK w \in SUBSET Files : w = job[j].left \ {f}
    BY <1>1 DEF Jobs
  <2>2. job' = [job EXCEPT ![j] = [job[j] EXCEPT !.left = w]]
    BY <2>1 DEF PersistFile
  <2>3. [job[j] EXCEPT !.left = w] \in Jobs
    BY <1>1 DEF Jobs
  <2> QED BY <1>1, <2>1, <2>2, <2>3 DEF Jobs
<1>4. job' \in [Syncs -> Jobs] /\ job'[j] = r /\ \A i \in Syncs \ {j} : job'[i] = job[i]
  BY <1>3 DEF CaddySound, CaddyShape
<1>5. f \in Phase(j)
  BY <1>1, <1>2 DEF Reconciled
<1>6. Fragment(j, f) \in {"empty"} \cup Frags
  <2>1. CASE f \in job[j].plan.writes
    <3>1. f \in Sites /\ job[j].manifest[f] # "none" /\ job[j].manifest \in [Sites -> Values]
      BY <1>1, <1>2, <2>1 DEF Reconciled, Jobs
    <3> QED BY <2>1, <3>1 DEF Fragment, Values
  <2>2. CASE f \notin job[j].plan.writes
    BY <2>2 DEF Fragment
  <2> QED BY <2>1, <2>2
<1>7. u \in Ops
  BY <1>6 DEF Ops
<1>8. Fragment(j, f)' = Fragment(j, f) /\ Phase(j)' = Phase(j)
  BY <1>3, <1>4 DEF Fragment, Phase
<1>9. PICK w \in Ops : w = u
  BY <1>7
<1>10. \A g : Settled(j, g)' => g # f /\ Settled(j, g)
  BY <1>2, <1>3, <1>4 DEF Settled
<1>11. Reconciled(j)'
  BY <1>1, <1>2, <1>3, <1>4, <1>8, <1>10 DEF Reconciled
<1>12. disk' \in [Files -> {"none"} \cup Frags] /\ tmp' \in [Sites -> {"none"} \cup Frags]
  BY <1>1 DEF CaddySound, CaddyShape
<1>13. thread' = {w} /\ ThreadSound(w)'
  BY <1>1, <1>2, <1>3, <1>4, <1>5, <1>8, <1>9 DEF ThreadSound, Persisting
<1> QED BY <1>1, <1>4, <1>11, <1>12, <1>13, Assembled

\* What the operation under way is about.
LEMMA OpFacts ==
    ASSUME CaddySound, NEW t \in thread
    PROVE  /\ t \in Ops /\ t.job \in Syncs /\ t.file \in Files /\ t.frag \in {"empty"} \cup Frags
           /\ ThreadSound(t) /\ thread = {t} /\ dirLock = t.job
           /\ job[t.job] \in Jobs /\ job[t.job].at \in {"write", "delete"} /\ Reconciled(t.job)
           /\ t.step # "unlink" => t.file \in Sites /\ t.frag \in Frags
           /\ "none" \notin Frags /\ "empty" \notin Frags
<1>1. /\ t \in Ops /\ t.job \in Syncs /\ t.file \in Files /\ t.frag \in {"empty"} \cup Frags /\ ThreadSound(t)
      /\ thread = {t}
  BY DEF CaddySound, CaddyShape, Ops
<1>2. job[t.job] \in Jobs /\ job[t.job].at \in {"write", "delete"} /\ dirLock = t.job
  BY <1>1 DEF CaddySound, CaddyShape, ThreadSound, Persisting, LockHeld
<1>3. Reconciled(t.job)
  BY <1>1, <1>2 DEF CaddySound, Planned
<1>4. t.step # "unlink" => t.file \in Sites /\ t.frag \in Frags
  <2> SUFFICES ASSUME t.step # "unlink" PROVE t.file \in Sites /\ t.frag \in Frags
    OBVIOUS
  <2>1. t.frag # "empty" /\ t.frag = Fragment(t.job, t.file)
    BY <1>1 DEF ThreadSound
  <2>2. t.file \in job[t.job].plan.writes /\ job[t.job].plan.writes \subseteq Sites
    BY <1>2, <2>1 DEF Fragment, Jobs, Plans
  <2> QED BY <1>1, <2>1, <2>2
<1> QED BY <1>1, <1>2, <1>3, <1>4 DEF Frags

\* The operation is over and its file as the plan wants it.
LEMMA OpDone ==
    ASSUME CaddySound, NEW t \in thread, thread' = {}, UNCHANGED <<job, dirLock>>,
           tmp' \in [Sites -> {"none"} \cup Frags], disk' = [disk EXCEPT ![t.file] = Holds(t.frag)]
    PROVE  CaddySound'
<1> DEFINE j == t.job
<1>1. /\ j \in Syncs /\ t.file \in Files /\ t.frag \in {"empty"} \cup Frags /\ ThreadSound(t) /\ thread = {t}
      /\ dirLock = j /\ job[j] \in Jobs /\ job[j].at \in {"write", "delete"} /\ Reconciled(j)
  BY OpFacts
<1>2. Holds(t.frag) \in {"none"} \cup Frags
  BY DEF Holds
<1>3. disk \in [Files -> {"none"} \cup Frags] /\ job \in [Syncs -> Jobs]
  BY DEF CaddySound, CaddyShape
<1>4. /\ disk' \in [Files -> {"none"} \cup Frags] /\ disk'[t.file] = Holds(t.frag)
      /\ \A f \in Files \ {t.file} : disk'[f] = disk[f]
  BY <1>1, <1>2, <1>3
<1>5. t.file \in Phase(j) \ job[j].left /\ t.frag = Fragment(j, t.file)
  BY <1>1 DEF ThreadSound
<1>6. \A f \in Files \ {t.file} : Settled(j, f)' => Settled(j, f)
  BY <1>1 DEF Settled
<1>7. /\ job[j].plan.writes \subseteq Files /\ job[j].plan.deletes \subseteq Files /\ job[j].kept \subseteq Files
      /\ job[j].at # "adapt" /\ job[j].at # "load" /\ Phase(j) \in {job[j].plan.writes, job[j].plan.deletes}
  BY <1>1 DEF Jobs, Plans, Files, Phase
<1>8. /\ job[j].plan.deletes \cap job[j].plan.writes = {} /\ job[j].kept \cap job[j].plan.writes = {}
      /\ job[j].kept \cap job[j].plan.deletes = {}
      /\ t.file \notin job[j].kept
  BY <1>1, <1>5, <1>7 DEF Reconciled
<1>9. /\ \A f \in job[j].kept : disk'[f] # "none"
      /\ \A f \in Files \ (job[j].plan.writes \cup job[j].plan.deletes \cup job[j].kept) : disk'[f] = "none"
  BY <1>1, <1>4, <1>5, <1>7, <1>8 DEF Reconciled
<1>10. ASSUME NEW f \in job[j].plan.writes, job[j].at # "write" \/ Settled(j, f)'
       PROVE  disk'[f] = Holds(job[j].manifest[f])
  <2>1. CASE f = t.file
    BY <1>4, <1>5, <1>10, <2>1 DEF Fragment
  <2>2. CASE f # t.file
    BY <1>1, <1>4, <1>6, <1>7, <1>10, <2>2 DEF Reconciled
  <2> QED BY <2>1, <2>2
<1>11. ASSUME NEW f \in job[j].plan.deletes, job[j].at = "delete" /\ Settled(j, f)'
       PROVE  disk'[f] = "none"
  <2>1. CASE f = t.file
    <3>1. f \notin job[j].plan.writes
      BY <1>8, <1>11
    <3>2. t.frag = "empty"
      BY <1>5, <2>1, <3>1 DEF Fragment
    <3> QED BY <1>4, <2>1, <3>2 DEF Holds, Frags
  <2>2. CASE f # t.file
    BY <1>1, <1>4, <1>6, <1>7, <1>11, <2>2 DEF Reconciled
  <2> QED BY <2>1, <2>2
<1>12. /\ job[j].plan.writes = {s \in Sites : job[j].manifest[s] # "none"}
       /\ job[j].left \subseteq Phase(j) /\ Phase(j)' = Phase(j)
  BY <1>1 DEF Reconciled, Phase
<1>13. Reconciled(j)'
  BY <1>7, <1>8, <1>9, <1>10, <1>11, <1>12 DEF Reconciled
<1> QED BY <1>1, <1>3, <1>4, <1>13, Assembled

\* A system call of the operation under way.
LEMMA OpStep ==
    ASSUME CaddySound, NEW t \in thread, FileStep(t)
    PROVE  CaddySound'
<1>1. /\ t \in Ops /\ t.job \in Syncs /\ t.file \in Files /\ t.frag \in {"empty"} \cup Frags
      /\ ThreadSound(t) /\ thread = {t} /\ dirLock = t.job
      /\ job[t.job] \in Jobs /\ job[t.job].at \in {"write", "delete"} /\ Reconciled(t.job)
      /\ t.step # "unlink" => t.file \in Sites /\ t.frag \in Frags
      /\ "none" \notin Frags /\ "empty" \notin Frags
  BY OpFacts
<1>2. tmp \in [Sites -> {"none"} \cup Frags]
  BY DEF CaddySound, CaddyShape
<1>3. CASE t.step = "unlink" /\ Gone(t) /\ disk' = [disk EXCEPT ![t.file] = "none"] /\ UNCHANGED <<tmp, job, dirLock>>
  <2>1. t.frag = "empty"
    BY <1>1, <1>3 DEF ThreadSound
  <2>2. thread' = {}
    BY <1>1, <1>3 DEF Gone
  <2>3. Holds(t.frag) = "none"
    BY <1>1, <2>1 DEF Holds
  <2> QED BY <1>2, <1>3, <2>2, <2>3, OpDone
<1>4. CASE /\ t.step = "tmp" /\ tmp' = [tmp EXCEPT ![t.file] = t.frag]
           /\ thread' = (thread \ {t}) \cup {[t EXCEPT !.step = "replace"]} /\ UNCHANGED <<disk, job, dirLock>>
  <2>1. PICK u \in Ops : u = [t EXCEPT !.step = "replace"] /\ u.job = t.job /\ u.file = t.file /\ u.frag = t.frag
                         /\ u.step = "replace"
    <3>1. [t EXCEPT !.step = "replace"] \in Ops
      BY <1>1 DEF Ops
    <3> QED BY <1>1, <3>1 DEF Ops
  <2>2. thread' = {u}
    BY <1>1, <1>4, <2>1
  <2>3. tmp' \in [Sites -> {"none"} \cup Frags] /\ tmp'[t.file] = t.frag
    BY <1>1, <1>2, <1>4
  <2>4. ThreadSound(u)'
    BY <1>1, <1>4, <2>1, <2>3 DEF ThreadSound, Persisting, Phase, Fragment
  <2>5. \A f : Settled(t.job, f)' => Settled(t.job, f)
    BY <1>1, <1>4, <2>1, <2>2 DEF Settled
  <2>6. Reconciled(t.job)'
    BY <1>1, <1>4, <2>5 DEF Reconciled, Phase
  <2>7. disk' \in [Files -> {"none"} \cup Frags] /\ job' \in [Syncs -> Jobs] /\ dirLock' = t.job
    BY <1>1, <1>4 DEF CaddySound, CaddyShape
  <2> QED BY <1>1, <1>4, <2>2, <2>3, <2>4, <2>6, <2>7, Assembled
<1>5. CASE /\ t.step = "replace" /\ tmp[t.file] # "none" /\ Gone(t)
           /\ disk' = [disk EXCEPT ![t.file] = tmp[t.file]] /\ tmp' = [tmp EXCEPT ![t.file] = "none"]
           /\ UNCHANGED <<job, dirLock>>
  <2>1. tmp[t.file] = t.frag /\ Holds(t.frag) = t.frag
    BY <1>1, <1>5 DEF ThreadSound, Holds
  <2>2. thread' = {} /\ tmp' \in [Sites -> {"none"} \cup Frags]
    BY <1>1, <1>2, <1>5 DEF Gone
  <2> QED BY <1>5, <2>1, <2>2, OpDone
<1>6. ~(t.step = "replace" /\ tmp[t.file] = "none")
  BY <1>1 DEF ThreadSound
<1> QED BY <1>3, <1>4, <1>5, <1>6 DEF FileStep

\* The steps of a sync's own that end it.
LEMMA EndingStep ==
    ASSUME CaddySound, NEW j \in Syncs,
           ValidateManifest(j) \/ ScanFails(j) \/ PreflightComposed(j) \/ ReloadCaddy(j) \/ (SyncCancelled(j) /\ MyThread(j) = {})
    PROVE  CaddySound'
<1>1. /\ job[j] \in Jobs /\ job[j].at \notin {"new", "ended"} /\ dirLock = j /\ UNCHANGED <<disk, tmp, thread>>
      /\ MyThread(j) = {} \/ ~Persisting(j)
  BY DEF CaddySound, CaddyShape, LockHeld, ValidateManifest, ScanFails, PreflightComposed, ReloadCaddy, SyncCancelled, At, Persisting
<1>2. thread = {} /\ thread' = {}
  BY <1>1, NoThread
<1>3. CASE job' = [job EXCEPT ![j].at = "load"] /\ At(j, "adapt") /\ UNCHANGED dirLock
  <2>1. PICK r \in Jobs :
           /\ job' = [job EXCEPT ![j] = r] /\ r.at = "load" /\ r.manifest = job[j].manifest
           /\ r.plan = job[j].plan /\ r.kept = job[j].kept /\ r.left = job[j].left
    <3>1. [job[j] EXCEPT !.at = "load"] \in Jobs
      BY <1>1 DEF Jobs, Planned
    <3> QED BY <1>1, <1>3, <3>1 DEF Jobs
  <2>2. job' \in [Syncs -> Jobs] /\ job'[j] = r /\ \A i \in Syncs \ {j} : job'[i] = job[i]
    BY <2>1 DEF CaddySound, CaddyShape
  <2>3. Reconciled(j) /\ job[j].at = "adapt"
    BY <1>3 DEF CaddySound, Planned, At
  <2>4. Phase(j)' = Phase(j) /\ \A f : Settled(j, f)' <=> Settled(j, f)
    BY <1>2, <2>1, <2>2, <2>3 DEF Phase, Settled
  <2>5. Reconciled(j)'
    BY <1>1, <2>1, <2>2, <2>3, <2>4 DEF Reconciled
  <2>6. /\ disk' \in [Files -> {"none"} \cup Frags] /\ tmp' \in [Sites -> {"none"} \cup Frags] /\ dirLock' = j
    BY <1>1, <1>3 DEF CaddySound, CaddyShape
  <2> QED BY <1>1, <1>2, <2>2, <2>5, <2>6, Assembled
<1>4. ASSUME NEW what \in {"config_invalid", "persist_failed", "reload_failed", "rail_tripped", "synced", "cancelled"},
             Ends(j, what)
      PROVE  CaddySound'
  BY <1>1, <1>2, <1>4, EndStep
<1>5. CASE ValidateManifest(j) \/ ScanFails(j)
  BY <1>4, <1>5 DEF ValidateManifest, ScanFails
<1>6. CASE PreflightComposed(j)
  BY <1>3, <1>4, <1>6 DEF PreflightComposed
<1>7. CASE ReloadCaddy(j)
  BY <1>4, <1>7 DEF ReloadCaddy
<1>8. CASE SyncCancelled(j)
  BY <1>4, <1>8 DEF SyncCancelled
<1> QED BY <1>5, <1>6, <1>7, <1>8

\* An operation fails and ends its sync.
LEMMA FailStep ==
    ASSUME CaddySound, NEW t \in thread, PersistFails(t)
    PROVE  CaddySound'
<1>1. t.job \in Syncs /\ thread = {t} /\ dirLock = t.job
  BY OpFacts
<1>2. thread' = {} /\ Ends(t.job, "persist_failed") /\ UNCHANGED <<disk, tmp>>
  BY <1>1 DEF PersistFails, Gone
<1> QED BY <1>1, <1>2, EndStep

\* What Caddy serves is no part of the invariant.
LEMMA FilesKept ==
    ASSUME CaddySound, UNCHANGED <<disk, tmp, dirLock, job, thread>>
    PROVE  CaddySound'
BY DEF CaddySound, CaddyShape, LockHeld, ThreadSound, Persisting, Phase, Fragment, Reconciled, Settled

\* Every step keeps the invariant, unless it leaves a thread to itself.
LEMMA CaddyStep ==
    ASSUME CaddySound, CaddyNext, ~overrun'
    PROVE  CaddySound'
<1>1. ASSUME NEW j \in Syncs, NEW m \in Manifests, NEW bulk \in BOOLEAN, SyncStarts(j, m, bulk) PROVE CaddySound'
  BY <1>1, StartsStep
<1>2. ASSUME NEW j \in Syncs, ValidateManifest(j) \/ ScanFails(j) \/ PreflightComposed(j) \/ ReloadCaddy(j) PROVE CaddySound'
  BY <1>2, EndingStep
<1>3. ASSUME NEW j \in Syncs, SyncCancelled(j) PROVE CaddySound'
  <2>1. MyThread(j) = {}
    BY <1>3 DEF SyncCancelled
  <2> QED BY <1>3, <2>1, EndingStep
<1>4. ASSUME NEW j \in Syncs, ScanAndPlan(j) \/ PersistPhase(j) PROVE CaddySound'
  BY <1>4, PlanStep, PhaseStep
<1>5. ASSUME NEW j \in Syncs, NEW f \in Files, PersistFile(j, f) PROVE CaddySound'
  BY <1>5, FileTaken
<1>6. ASSUME NEW t \in thread, FileStep(t) \/ PersistFails(t) PROVE CaddySound'
  BY <1>6, OpStep, FailStep
<1>7. ASSUME NEW j \in Syncs, LateLoad(j) PROVE CaddySound'
  <2>1. UNCHANGED <<disk, tmp, dirLock, job, thread>>
    BY <1>7 DEF LateLoad
  <2> QED BY <2>1, FilesKept
<1> QED BY <1>1, <1>2, <1>3, <1>4, <1>5, <1>6, <1>7 DEF CaddyNext

\* overrun is never taken back.
LEMMA OverrunStays ==
    ASSUME [CaddyNext]_caddyVars, ~overrun'
    PROVE  ~overrun
<1>1. ASSUME NEW j \in Syncs, SyncCancelled(j) PROVE ~overrun
  BY <1>1 DEF SyncCancelled
<1>2. ASSUME NEW j \in Syncs, NEW m \in Manifests, NEW bulk \in BOOLEAN, SyncStarts(j, m, bulk) PROVE ~overrun
  BY <1>2 DEF SyncStarts
<1>3. ASSUME NEW j \in Syncs, ValidateManifest(j) \/ ScanFails(j) \/ PreflightComposed(j) \/ ReloadCaddy(j) PROVE ~overrun
  BY <1>3 DEF ValidateManifest, ScanFails, PreflightComposed, ReloadCaddy
<1>4. ASSUME NEW j \in Syncs, ScanAndPlan(j) \/ PersistPhase(j) \/ \E f \in Files : PersistFile(j, f) PROVE ~overrun
  BY <1>4 DEF ScanAndPlan, PersistPhase, PersistFile
<1>5. ASSUME NEW t \in thread, FileStep(t) \/ PersistFails(t) PROVE ~overrun
  BY <1>5 DEF FileStep, PersistFails
<1>6. ASSUME NEW j \in Syncs, LateLoad(j) PROVE ~overrun
  BY <1>6 DEF LateLoad
<1>7. CASE UNCHANGED caddyVars
  BY <1>7 DEF caddyVars
<1> QED BY <1>1, <1>2, <1>3, <1>4, <1>5, <1>6, <1>7 DEF CaddyNext

\* CaddyInv is inductive.
LEMMA CaddyInvStep ==
    ASSUME CaddyInv, [CaddyNext]_caddyVars
    PROVE  CaddyInv'
<1> SUFFICES ASSUME ~overrun' PROVE CaddySound'
  BY DEF CaddyInv
<1>1. CaddySound
  BY OverrunStays DEF CaddyInv
<1>2. CASE UNCHANGED caddyVars
  <2>1. UNCHANGED <<disk, tmp, dirLock, job, thread>>
    BY <1>2 DEF caddyVars
  <2> QED BY <1>1, <2>1, FilesKept
<1> QED BY <1>1, <1>2, CaddyStep

\* It holds initially.
LEMMA CaddyInitInv == CaddyInit => CaddyInv
<1> SUFFICES ASSUME CaddyInit PROVE CaddySound
  BY DEF CaddyInv
<1>1. NotStarted \in Jobs /\ NotStarted.at = "new"
  <2>1. [s \in Sites |-> "none"] \in [Sites -> Values] /\ NoPlan \in Plans
    BY DEF Values, NoPlan, Plans
  <2> QED BY <2>1 DEF NotStarted, Jobs
<1>2. CaddyShape
  BY <1>1 DEF CaddyInit, CaddyShape, Frags
<1>3. \A j \in Syncs : job[j].at = "new"
  BY <1>1 DEF CaddyInit
<1>4. thread = {}
  BY DEF CaddyInit
<1> QED BY <1>2, <1>3, <1>4 DEF CaddySound, LockHeld, Planned

-----------------------------------------------------------------------------
\* A file set Caddy accepts declares a site once.
LEMMA DeclaredOnce ==
    ASSUME Adapts, NEW s \in Sites, NEW f \in Declares(s), NEW g \in Declares(s)
    PROVE  f = g
<1> SUFFICES ASSUME f # g PROVE FALSE
  OBVIOUS
<1>1. Declares(s) = {s, LEGACY} /\ s # LEGACY
  BY CaddyAssumption DEF Declares, Files
<1>2. IsFiniteSet({s}) /\ Cardinality({s}) = 1
  BY FS_Singleton
<1>3. {s, LEGACY} = {s} \cup {LEGACY} /\ LEGACY \notin {s}
  BY <1>1
<1>4. Cardinality(Declares(s)) = 2
  BY <1>1, <1>2, <1>3, FS_AddElement
<1>5. Cardinality(Declares(s)) =< 1
  BY DEF Adapts
<1> QED BY <1>4, <1>5

\* What Caddy loads from reconciled files is what the sync wants served.
LEMMA LoadServes ==
    ASSUME CaddySound, NEW j \in Syncs, At(j, "load"), Adapts, live' = Composed, NEW s \in Sites
    PROVE  IF Wanted(j, s) = "any" THEN live'[s] # "none" ELSE live'[s] = Wanted(j, s)
<1> DEFINE p == job[j].plan
<1>1. /\ job[j] \in Jobs /\ Reconciled(j) /\ job[j].at = "load" /\ job[j].manifest[s] \in Values
      /\ p.writes \subseteq Sites /\ s \in Files /\ LEGACY \in Files /\ LEGACY \notin Sites
  BY CaddyAssumption DEF CaddySound, CaddyShape, At, Jobs, Plans, Planned, Files
<1>2. /\ p.writes = {x \in Sites : job[j].manifest[x] # "none"}
      /\ job[j].kept \cap p.writes = {}
      /\ \A f \in job[j].kept : disk[f] # "none"
      /\ \A f \in Files \ (p.writes \cup job[j].kept) : disk[f] = "none"
      /\ \A f \in p.writes : disk[f] = Holds(job[j].manifest[f])
  BY <1>1 DEF Reconciled
<1>3. live'[s] = IF Declares(s) = {} THEN "none" ELSE disk[CHOOSE f \in Declares(s) : TRUE]
  BY DEF Composed
<1>4. \A f \in Declares(s) : live'[s] = disk[f] /\ disk[f] # "none"
  <2> SUFFICES ASSUME NEW f \in Declares(s) PROVE live'[s] = disk[f] /\ disk[f] # "none"
    OBVIOUS
  <2>1. (CHOOSE g \in Declares(s) : TRUE) = f
    BY DeclaredOnce
  <2> QED BY <1>3, <2>1 DEF Declares
<1>5. "any" \notin Frags /\ "none" \notin Frags /\ "empty" \notin Frags
  BY DEF Frags
<1>6. CASE job[j].manifest[s] \in Frags
  <2>1. s \in p.writes /\ disk[s] = job[j].manifest[s] /\ disk[s] # "none"
    BY <1>2, <1>5, <1>6 DEF Holds
  <2>2. s \in Declares(s)
    BY <1>1, <2>1 DEF Declares
  <2> QED BY <1>4, <1>5, <1>6, <2>1, <2>2 DEF Wanted
<1>7. CASE job[j].manifest[s] \notin Frags /\ (s \in job[j].kept \/ (LEGACY \in job[j].kept /\ s \in LegacySites))
  <2>1. \E f \in Declares(s) : TRUE
    BY <1>1, <1>2, <1>7 DEF Declares
  <2> QED BY <1>4, <1>7, <2>1 DEF Wanted
<1>8. CASE job[j].manifest[s] \notin Frags /\ ~(s \in job[j].kept \/ (LEGACY \in job[j].kept /\ s \in LegacySites))
  <2>1. disk[s] = "none"
    BY <1>1, <1>2, <1>5, <1>8 DEF Holds
  <2>2. s \in LegacySites => disk[LEGACY] = "none"
    BY <1>1, <1>2, <1>8
  <2>3. Declares(s) = {}
    BY <2>1, <2>2 DEF Declares
  <2> QED BY <1>3, <1>8, <2>3 DEF Wanted
<1> QED BY <1>6, <1>7, <1>8

\* Only a reload that loaded reports so.
LEMMA OnlyReload ==
    ASSUME CaddySound, CaddyNext, NEW j \in Syncs, job[j].told = "nothing", job'[j].told \in {"synced", "rail_tripped"}
    PROVE  At(j, "load") /\ Adapts /\ live' = Composed
<1>1. job \in [Syncs -> Jobs] /\ \A i \in Syncs : job[i] \in Jobs
  BY DEF CaddySound, CaddyShape
<1>2. ASSUME NEW i \in Syncs, NEW what, Ends(i, what), what \notin {"synced", "rail_tripped"} PROVE FALSE
  <2>1. job'[j].told = IF i = j THEN what ELSE job[j].told
    BY <1>1, <1>2 DEF Ends, Jobs
  <2> QED BY <1>2, <2>1
<1>3. ASSUME NEW i \in Syncs, i # j, NEW what, Ends(i, what) PROVE FALSE
  BY <1>1, <1>3 DEF Ends
<1>4. ASSUME NEW i \in Syncs, job'[i].told = "nothing" \/ job'[i].told = job[i].told,
             \A h \in Syncs \ {i} : job'[h] = job[h]
      PROVE  FALSE
  BY <1>4
<1>5. ASSUME NEW i \in Syncs, NEW m \in Manifests, NEW bulk \in BOOLEAN, SyncStarts(i, m, bulk) PROVE FALSE
  <2>1. job'[i].told = "nothing" /\ \A h \in Syncs \ {i} : job'[h] = job[h]
    BY <1>1, <1>5 DEF SyncStarts, NotStarted
  <2> QED BY <1>4, <2>1
<1>6. ASSUME NEW i \in Syncs, ScanAndPlan(i) \/ PersistPhase(i) \/ \E f \in Files : PersistFile(i, f) PROVE FALSE
  <2>1. job'[i].told = job[i].told /\ \A h \in Syncs \ {i} : job'[h] = job[h]
    BY <1>1, <1>6 DEF ScanAndPlan, PersistPhase, PersistFile, Jobs
  <2> QED BY <1>4, <2>1
<1>7. ASSUME NEW i \in Syncs, ValidateManifest(i) \/ ScanFails(i) \/ SyncCancelled(i) PROVE FALSE
  BY <1>2, <1>7 DEF ValidateManifest, ScanFails, SyncCancelled
<1>8. ASSUME NEW i \in Syncs, PreflightComposed(i) PROVE FALSE
  <2>1. CASE job' = [job EXCEPT ![i].at = "load"]
    <3>1. job'[i].told = job[i].told /\ \A h \in Syncs \ {i} : job'[h] = job[h]
      BY <1>1, <2>1 DEF Jobs
    <3> QED BY <1>4, <3>1
  <2> QED BY <1>2, <1>8, <2>1 DEF PreflightComposed
<1>9. ASSUME NEW t \in thread, FileStep(t) \/ PersistFails(t) PROVE FALSE
  <2>1. t.job \in Syncs
    BY OpFacts
  <2>2. ~Ends(t.job, "persist_failed") /\ job' # job
    BY <1>2, <2>1
  <2> QED BY <1>9, <2>2 DEF FileStep, PersistFails
<1>10. ASSUME NEW i \in Syncs, ReloadCaddy(i) PROVE i = j /\ At(j, "load") /\ Adapts /\ live' = Composed
  <2>1. ~Ends(i, "reload_failed") /\ (i # j => \A what : ~Ends(i, what))
    BY <1>2, <1>3
  <2> QED BY <1>10, <2>1 DEF ReloadCaddy
<1>11. ASSUME NEW i \in Syncs, LateLoad(i) PROVE FALSE
  BY <1>11 DEF LateLoad
<1> QED BY <1>5, <1>6, <1>7, <1>8, <1>9, <1>10, <1>11 DEF CaddyNext

\* A sync that reports its writes live is right, for all sites, manifests, cadences,
\* numbers of syncs, faults and cancellations, unless the thread of a cancelled sync
\* outlived it.
THEOREM ServesWhatItReports == CaddySpec => SyncedIsServed
<1>1. CaddyInit => CaddyInv
  BY CaddyInitInv
<1>2. CaddyInv /\ [CaddyNext]_caddyVars => CaddyInv'
  BY CaddyInvStep
<1>3. CaddyInv /\ [CaddyNext]_caddyVars =>
        [\A j \in Syncs :
           job[j].told = "nothing" /\ job'[j].told \in {"synced", "rail_tripped"} /\ ~overrun
             => \A s \in Sites : IF Wanted(j, s) = "any" THEN live'[s] # "none"
                                 ELSE live'[s] = Wanted(j, s)]_caddyVars
  <2> SUFFICES ASSUME CaddyInv, CaddyNext, NEW j \in Syncs, job[j].told = "nothing",
                      job'[j].told \in {"synced", "rail_tripped"}, ~overrun, NEW s \in Sites
               PROVE  IF Wanted(j, s) = "any" THEN live'[s] # "none" ELSE live'[s] = Wanted(j, s)
    OBVIOUS
  <2>1. CaddySound
    BY DEF CaddyInv
  <2> QED BY <2>1, OnlyReload, LoadServes
<1> QED BY <1>1, <1>2, <1>3, PTL DEF CaddySpec, SyncedIsServed

-----------------------------------------------------------------------------
(* RcloneJobs.                                                             *)

\* A test has a step.
TestShape == DOMAIN test = Tests /\ \A t \in Tests : "at" \in DOMAIN test[t]

\* What is under the scratch prefix has a test that will purge it, or was told of or
\* left to itself; a child on its own was left to itself.
ScratchOwned ==
    /\ scratch # Empty => reported \/ unclean \/ \E t \in Tests : test[t].at \in {"copy", "check", "purge"}
    /\ orphans # {} => unclean

\* The child of a migration runs while the job reads, and is dead once it was waited for.
ChildInHand ==
    /\ mig \in [job : {"new", "reading", "waited", "stopping", "ended", "cancelled"},
                child : {"none", "running", "terminating", "dead"}]
    /\ mig.job = "reading" => mig.child = "running"
    /\ mig.job \in {"waited", "ended", "cancelled"} => mig.child = "dead"

\* What the steps of both jobs keep.
RcloneInv == TestShape /\ ScratchOwned /\ ChildInHand

\* A step of one test: it still has a purge to come, or leaves the prefix clean or told of.
LEMMA TestMoves ==
    ASSUME RcloneInv, NEW t \in Tests, DOMAIN test' = Tests, "at" \in DOMAIN test'[t],
           \A u \in Tests \ {t} : test'[u] = test[u],
           reported => reported', unclean => unclean', orphans' # {} => unclean', UNCHANGED mig,
           \/ scratch' = Empty \/ reported' \/ unclean'
           \/ test'[t].at \in {"copy", "check", "purge"}
           \/ scratch' = scratch /\ test[t].at \notin {"copy", "check", "purge"}
    PROVE  RcloneInv'
<1>1. TestShape'
  BY DEF RcloneInv, TestShape
<1>2. ScratchOwned'
  BY DEF RcloneInv, ScratchOwned
<1> QED BY <1>1, <1>2 DEF RcloneInv, ChildInHand

\* The steps of the restore tests, the owner's writes and the children left alone.
LEMMA RestoreStep ==
    ASSUME RcloneInv, RestoreNext
    PROVE  RcloneInv'
<1>1. ASSUME NEW o \in Objects, NEW v \in 0 .. MaxSize, OwnerWrites(o, v) PROVE RcloneInv'
  BY <1>1 DEF OwnerWrites, RcloneInv, TestShape, ScratchOwned, ChildInHand
<1>2. ASSUME NEW c \in orphans, OrphanEnds(c) PROVE RcloneInv'
  <2>1. unclean /\ UNCHANGED <<test, unclean, mig>>
    BY <1>2 DEF OrphanEnds, RcloneInv, ScratchOwned
  <2> QED BY <2>1 DEF RcloneInv, TestShape, ScratchOwned, ChildInHand
<1>3. ASSUME NEW t \in Tests,
             RestoreTestStarts(t) \/ ListBucket(t) \/ CheckSamples(t) \/ PurgeScratch(t) \/ TestCancelled(t)
               \/ \E o \in Objects : CopySample(t, o)
      PROVE  RcloneInv'
  <2>0. DOMAIN test = Tests /\ "at" \in DOMAIN test[t] /\ (orphans # {} => unclean)
    BY DEF RcloneInv, TestShape, ScratchOwned
  <2>1. DOMAIN test' = Tests /\ "at" \in DOMAIN test'[t] /\ \A u \in Tests \ {t} : test'[u] = test[u]
    BY <1>3, <2>0 DEF RestoreTestStarts, To, ListBucket, CheckSamples, PurgeScratch, TestCancelled, CopySample
  <2>2. UNCHANGED mig
    BY <1>3 DEF RestoreTestStarts, ListBucket, CheckSamples, PurgeScratch, TestCancelled, CopySample
  <2>3. CASE RestoreTestStarts(t) \/ ListBucket(t)
    <3>1. test[t].at \in {"new", "list"} /\ UNCHANGED <<scratch, reported, unclean, orphans>>
      BY <2>3 DEF RestoreTestStarts, ListBucket
    <3> QED BY <2>0, <2>1, <2>2, <3>1, TestMoves
  <2>4. CASE CheckSamples(t) \/ \E o \in Objects : CopySample(t, o)
    <3>1. test'[t].at \in {"copy", "check", "purge"} /\ UNCHANGED <<reported, unclean, orphans>>
      BY <2>0, <2>4 DEF CheckSamples, CopySample
    <3> QED BY <2>0, <2>1, <2>2, <3>1, TestMoves
  <2>5. CASE PurgeScratch(t)
    <3>1. UNCHANGED orphans /\ (unclean => unclean') /\ (reported => reported')
      <4>1. UNCHANGED orphans
        BY <2>5 DEF PurgeScratch
      <4>2. unclean => unclean'
        BY <2>5, Zenon DEF PurgeScratch
      <4>3. reported => reported'
        BY <2>5, Zenon DEF PurgeScratch
      <4> QED BY <4>1, <4>2, <4>3
    <3>2. scratch' = Empty \/ reported' \/ unclean'
      BY <2>5 DEF PurgeScratch
    <3> QED BY <2>0, <2>1, <2>2, <3>1, <3>2, TestMoves
  <2>6. CASE TestCancelled(t)
    <3>1. UNCHANGED <<scratch, reported>> /\ (unclean => unclean')
      BY <2>6 DEF TestCancelled
    <3>2. orphans' # {} => unclean'
      BY <2>0, <2>6 DEF TestCancelled
    <3>3. CASE test[t].at \in {"copy", "purge"}
      <4>1. unclean'
        BY <2>6, <3>3 DEF TestCancelled
      <4> QED BY <2>0, <2>1, <2>2, <3>1, <3>2, <4>1, TestMoves
    <3>4. CASE test[t].at = "check"
      <4>1. test'[t].at = "purge"
        BY <2>0, <2>6, <3>4 DEF TestCancelled
      <4> QED BY <2>0, <2>1, <2>2, <3>1, <3>2, <4>1, TestMoves
    <3>5. CASE test[t].at = "list"
      BY <2>0, <2>1, <2>2, <3>1, <3>2, <3>5, TestMoves
    <3> QED BY <2>6, <3>3, <3>4, <3>5 DEF TestCancelled
  <2> QED BY <1>3, <2>3, <2>4, <2>5, <2>6
<1> QED BY <1>1, <1>2, <1>3 DEF RestoreNext

\* The steps of the migration.
LEMMA MigrateStep ==
    ASSUME RcloneInv, MigrateNext
    PROVE  RcloneInv'
<1>1. UNCHANGED <<scratch, test, orphans, unclean, reported>>
  BY DEF MigrateNext, MigrateStarts, ChildExits, MigrateEnds, MigrateCancelled, StopKills
<1>2. ChildInHand'
  <2>1. ChildInHand
    BY DEF RcloneInv
  <2>2. CASE MigrateStarts
    BY <2>2 DEF MigrateStarts, ChildInHand
  <2>3. CASE ChildExits
    BY <2>1, <2>3 DEF ChildExits, ChildInHand
  <2>4. CASE MigrateEnds
    BY <2>1, <2>4 DEF MigrateEnds, ChildInHand
  <2>5. CASE MigrateCancelled
    BY <2>1, <2>5 DEF MigrateCancelled, StopsChild, ChildInHand
  <2>6. CASE StopKills
    BY <2>1, <2>6 DEF StopKills, ChildInHand
  <2> QED BY <2>2, <2>3, <2>4, <2>5, <2>6 DEF MigrateNext
<1> QED BY <1>1, <1>2 DEF RcloneInv, TestShape, ScratchOwned

\* A set of natural numbers has a least element.
LEMMA LeastIn ==
    ASSUME NEW S, S \subseteq Nat, S # {}
    PROVE  \E x \in S : \A y \in S : x =< y
<1> DEFINE R == OpToRel(<, Nat)
<1>1. PICK x \in S : \A y \in S : ~ (<<y, x>> \in R)
  BY WFMin, NatLessThanWellFounded
<1>2. \A a, b \in Nat : <<b, a>> \in R <=> b < a
  BY DEF OpToRel
<1> HIDE DEF R
<1>3. ASSUME NEW y \in S PROVE x =< y
  <2>1. x \in Nat /\ y \in Nat /\ ~ (y < x)
    BY <1>1, <1>2
  <2> QED BY <2>1
<1> QED BY <1>1, <1>3

\* A finite set in a total order has a last element.
LEMMA LastIn ==
    ASSUME NEW S, IsFiniteSet(S), S # {}, NEW R,
           \A x, y \in S : x # y => <<x, y>> \in R \/ <<y, x>> \in R,
           \A x \in S : <<x, x>> \notin R,
           \A x, y, z \in S : <<x, y>> \in R /\ <<y, z>> \in R => <<x, z>> \in R
    PROVE  \E x \in S : \A y \in S \ {x} : <<y, x>> \in R
<1> DEFINE Above(x) == {y \in S : <<x, y>> \in R}
           rank == [x \in S |-> Cardinality(Above(x))]
           Ranks == {rank[x] : x \in S}
<1>1. ASSUME NEW x \in S PROVE IsFiniteSet(Above(x)) /\ Cardinality(Above(x)) \in Nat
  <2>1. Above(x) \in SUBSET S
    OBVIOUS
  <2> HIDE DEF Above
  <2>2. IsFiniteSet(Above(x))
    BY <2>1, FS_Subset
  <2> QED BY <2>2, FS_CardinalityType
<1>2. \A x \in S : rank[x] = Cardinality(Above(x)) /\ rank[x] \in Nat
  BY <1>1
<1> HIDE DEF rank
<1>3. PICK x \in S : \A y \in S : rank[x] =< rank[y]
  <2>1. Ranks \subseteq Nat /\ Ranks # {}
    <3> HIDE DEF Above
    <3> QED BY <1>2
  <2>2. PICK m \in Ranks : \A r \in Ranks : m =< r
    <3> HIDE DEF Ranks
    <3> QED BY <2>1, LeastIn
  <2> QED BY <2>2
<1>4. ASSUME NEW y \in S \ {x}, <<x, y>> \in R PROVE FALSE
  <2>1. Above(y) \in SUBSET Above(x) /\ y \in Above(x) /\ y \notin Above(y)
    BY <1>4
  <2>2. Cardinality(Above(x)) =< Cardinality(Above(y))
    <3>1. rank[x] =< rank[y]
      BY <1>3
    <3> HIDE DEF Above
    <3> QED BY <1>2, <3>1
  <2>3. /\ IsFiniteSet(Above(x)) /\ Cardinality(Above(x)) \in Nat /\ Cardinality(Above(y)) \in Nat
    BY <1>1
  <2> HIDE DEF Above
  <2>4. /\ Cardinality(Above(y)) =< Cardinality(Above(x))
        /\ Cardinality(Above(x)) = Cardinality(Above(y)) => Above(x) = Above(y)
    BY <2>1, <2>3, FS_Subset
  <2>5. Cardinality(Above(x)) = Cardinality(Above(y))
    BY <2>2, <2>3, <2>4
  <2> QED BY <2>1, <2>4, <2>5
<1> QED BY <1>4

\* Some objects have a largest and a smallest, one that the choice of a sample finds.
LEMMA EndsOfListing ==
    ASSUME NEW listing \in [Objects -> Nat], NEW S \in SUBSET Objects, S # {}
    PROVE  /\ Largest(listing, S) \in S /\ \A p \in S : listing[p] =< listing[Largest(listing, S)]
           /\ Smallest(listing, S) \in S /\ \A p \in S : listing[Smallest(listing, S)] =< listing[p]
<1> DEFINE Up == {r \in S \X S : Below(listing, r[1], r[2])}
           Down == {r \in S \X S : Below(listing, r[2], r[1])}
<1>0. IsFiniteSet(S)
  BY RcloneAssumption, FS_Subset
<1>1. \A p, q \in S : /\ <<p, q>> \in Up <=> Below(listing, p, q)
                      /\ <<p, q>> \in Down <=> Below(listing, q, p)
  OBVIOUS
<1> HIDE DEF Up, Down
<1>2. \A p \in S : listing[p] \in Nat /\ p \in Nat
  BY RcloneAssumption
<1>3. /\ \A p, q \in S : p # q => Below(listing, p, q) \/ Below(listing, q, p)
      /\ \A p \in S : ~Below(listing, p, p)
      /\ \A p, q, r \in S : Below(listing, p, q) /\ Below(listing, q, r) => Below(listing, p, r)
      /\ \A p, q \in S : Below(listing, p, q) => listing[p] =< listing[q]
  BY <1>2 DEF Below
<1>4. \E o \in S : \A p \in S \ {o} : <<p, o>> \in Up
  <2>1. /\ \A p, q \in S : p # q => <<p, q>> \in Up \/ <<q, p>> \in Up
        /\ \A p \in S : <<p, p>> \notin Up
        /\ \A p, q, r \in S : <<p, q>> \in Up /\ <<q, r>> \in Up => <<p, r>> \in Up
    BY <1>1, <1>3
  <2> QED BY <1>0, <2>1, LastIn
<1>5. \E o \in S : \A p \in S \ {o} : <<p, o>> \in Down
  <2>1. /\ \A p, q \in S : p # q => <<p, q>> \in Down \/ <<q, p>> \in Down
        /\ \A p \in S : <<p, p>> \notin Down
        /\ \A p, q, r \in S : <<p, q>> \in Down /\ <<q, r>> \in Down => <<p, r>> \in Down
    BY <1>1, <1>3
  <2> QED BY <1>0, <2>1, LastIn
<1>6. Largest(listing, S) \in S /\ \A p \in S \ {Largest(listing, S)} : Below(listing, p, Largest(listing, S))
  <2>1. \E o \in S : \A p \in S \ {o} : Below(listing, p, o)
    BY <1>1, <1>4
  <2> QED BY <2>1, Zenon DEF Largest
<1>7. Smallest(listing, S) \in S /\ \A p \in S \ {Smallest(listing, S)} : Below(listing, Smallest(listing, S), p)
  <2>1. \E o \in S : \A p \in S \ {o} : Below(listing, o, p)
    BY <1>1, <1>5
  <2> QED BY <2>1, Zenon DEF Smallest
<1>8. ASSUME NEW p \in S PROVE listing[p] =< listing[Largest(listing, S)]
  <2>1. CASE p = Largest(listing, S)
    BY <1>2, <2>1
  <2>2. CASE p # Largest(listing, S)
    BY <1>3, <1>6, <2>2
  <2> QED BY <2>1, <2>2
<1>9. ASSUME NEW p \in S PROVE listing[Smallest(listing, S)] =< listing[p]
  <2>1. CASE p = Smallest(listing, S)
    BY <1>2, <2>1
  <2>2. CASE p # Smallest(listing, S)
    BY <1>3, <1>7, <2>2
  <2> QED BY <2>1, <2>2
<1> QED BY <1>6, <1>7, <1>8, <1>9

\* One more of the picks for folder f, from what the folders before it left.
Picks(listing, before, f) ==
    LET all == Eligible(listing)
        in == {o \in all : Folder[o] = f}
    IN  IF f = 0 THEN {Largest(listing, all), Smallest(listing, all)}
        ELSE IF in = {} \/ Cardinality(before) >= MaxSamples THEN before
        ELSE before \cup {Smallest(listing, in)}

\* s holds the picks, folder by folder.
Picked(s, listing, n) == s = [f \in 0 .. n |-> Picks(listing, s[f - 1], f)]

\* The recursion of select_samples has a solution, and takes one.
LEMMA SamplesPicked ==
    ASSUME NEW listing, Eligible(listing) # {}
    PROVE  \E s : Picked(s, listing, Folders) /\ SelectSamples(listing) = s[Folders]
<1> DEFINE Bad == {n \in Nat : \A s : ~Picked(s, listing, n)}
<1>1. Bad = {}
  <2>1. SUFFICES ASSUME Bad # {} PROVE FALSE
    OBVIOUS
  <2>2. PICK n \in Bad : \A j \in Bad : n =< j
    <3>1. Bad \subseteq Nat
      OBVIOUS
    <3> HIDE DEF Bad
    <3> QED BY <2>1, <3>1, LeastIn
  <2>3. CASE n = 0
    <3> DEFINE s == [k \in 0 .. 0 |-> Picks(listing, {}, 0)]
    <3>1. \A k \in 0 .. 0 : Picks(listing, s[k - 1], k) = Picks(listing, {}, 0)
      BY DEF Picks
    <3>2. Picked(s, listing, 0)
      BY <3>1 DEF Picked
    <3> HIDE DEF s
    <3> QED BY <2>2, <2>3, <3>2
  <2>4. CASE n # 0
    <3>1. n - 1 \in Nat /\ n - 1 \notin Bad
      <4>1. n \in Nat /\ n - 1 \in Nat /\ ~(n =< n - 1)
        BY <2>2, <2>4
      <4> HIDE DEF Bad
      <4> QED BY <2>2, <4>1
    <3>2. PICK r : Picked(r, listing, n - 1)
      BY <3>1
    <3> DEFINE s == [k \in 0 .. n |-> IF k = n THEN Picks(listing, r[n - 1], n) ELSE r[k]]
    <3>3. ASSUME NEW k \in 0 .. n PROVE s[k] = Picks(listing, s[k - 1], k)
      <4>1. CASE k = n
        <5>1. n - 1 \in 0 .. n /\ n - 1 # n /\ s[n - 1] = r[n - 1] /\ s[n] = Picks(listing, r[n - 1], n)
          BY <2>2, <2>4
        <5> HIDE DEF s
        <5> QED BY <4>1, <5>1
      <4>2. CASE k # n
        <5>1. k \in 0 .. n - 1 /\ s[k] = r[k] /\ (k # 0 => k - 1 \in 0 .. n /\ k - 1 # n /\ s[k - 1] = r[k - 1])
          BY <2>2, <4>2
        <5>2. r[k] = Picks(listing, r[k - 1], k)
          BY <3>2, <5>1 DEF Picked
        <5>3. CASE k = 0
          <6>1. Picks(listing, s[k - 1], k) = Picks(listing, r[k - 1], k)
            BY <5>3 DEF Picks
          <6> HIDE DEF s
          <6> QED BY <5>1, <5>2, <6>1
        <5>4. CASE k # 0
          <6> HIDE DEF s
          <6> QED BY <5>1, <5>2, <5>4
        <5> QED BY <5>3, <5>4
      <4> QED BY <4>1, <4>2
    <3>4. Picked(s, listing, n)
      BY <3>3 DEF Picked
    <3> HIDE DEF s
    <3> QED BY <2>2, <3>4
  <2> QED BY <2>3, <2>4
<1>2. \E s : Picked(s, listing, Folders)
  BY <1>1, RcloneAssumption
<1> DEFINE w == CHOOSE s : Picked(s, listing, Folders)
<1>3. Picked(w, listing, Folders)
  BY <1>2
<1>4. SelectSamples(listing) = w[Folders]
  BY DEF SelectSamples, Picked, Picks
<1> HIDE DEF w
<1> QED BY <1>3, <1>4

\* What a sample must be, of the folders up to n: within the cap, with an object at either
\* end, and with one of each folder or as many as there may be.
Representative(s, listing, n) ==
    /\ s \subseteq Eligible(listing) /\ Cardinality(s) =< MaxSamples
    /\ {Largest(listing, Eligible(listing)), Smallest(listing, Eligible(listing))} \subseteq s
    /\ \A o \in Eligible(listing) :
          Folder[o] \in 1 .. n => Cardinality(s) = MaxSamples \/ \E p \in s : Folder[p] = Folder[o]

\* One more folder keeps it so.
LEMMA OnePick ==
    ASSUME NEW listing \in [Objects -> Nat], Eligible(listing) # {}, NEW f \in 1 .. Folders,
           NEW before, Representative(before, listing, f - 1)
    PROVE  Representative(Picks(listing, before, f), listing, f)
<1> DEFINE all == Eligible(listing)
           in == {o \in all : Folder[o] = f}
           s == Picks(listing, before, f)
<1>0. /\ all \in SUBSET Objects /\ IsFiniteSet(all) /\ MaxSamples \in Nat /\ f # 0
      /\ \A k \in 1 .. f : k \in 1 .. f - 1 \/ k = f
  <2>1. all \in SUBSET Objects
    BY DEF Eligible
  <2>2. IsFiniteSet(all)
    BY <2>1, RcloneAssumption, FS_Subset
  <2> QED BY <2>1, <2>2, RcloneAssumption
<1>1. /\ before \in SUBSET all /\ IsFiniteSet(before) /\ Cardinality(before) \in Nat
      /\ Cardinality(before) =< MaxSamples
  <2>1. before \in SUBSET all /\ Cardinality(before) =< MaxSamples
    BY DEF Representative
  <2>2. IsFiniteSet(before)
    BY <1>0, <2>1, FS_Subset
  <2> QED BY <2>1, <2>2, FS_CardinalityType
<1>2. CASE in = {} \/ Cardinality(before) >= MaxSamples
  <2>1. s = before
    BY <1>0, <1>2 DEF Picks
  <2>2. in = {} \/ Cardinality(before) = MaxSamples
    BY <1>0, <1>1, <1>2
  <2>3. ASSUME NEW o \in all, Folder[o] \in 1 .. f
        PROVE  Cardinality(before) = MaxSamples \/ \E p \in before : Folder[p] = Folder[o]
    <3>1. CASE Folder[o] = f
      BY <2>2, <3>1
    <3>2. CASE Folder[o] \in 1 .. f - 1
      BY <3>2 DEF Representative
    <3> QED BY <1>0, <2>3, <3>1, <3>2
  <2>4. Representative(before, listing, f)
    BY <2>3 DEF Representative
  <2> QED BY <2>1, <2>4
<1>3. CASE in # {} /\ ~(Cardinality(before) >= MaxSamples)
  <2> DEFINE x == Smallest(listing, in)
  <2>1. s = before \cup {x}
    BY <1>0, <1>3 DEF Picks
  <2>2. x \in in
    <3>1. in \in SUBSET Objects
      BY <1>0
    <3> HIDE DEF in
    <3> QED BY <1>3, <3>1, EndsOfListing
  <2>3. x \in all /\ Folder[x] = f
    BY <2>2
  <2> HIDE DEF x, s, in, all
  <2>4. Cardinality(s) = IF x \in before THEN Cardinality(before) ELSE Cardinality(before) + 1
    BY <1>1, <2>1, FS_AddElement
  <2>5. Cardinality(s) =< MaxSamples /\ Cardinality(s) >= Cardinality(before) /\ Cardinality(s) \in Nat
    BY <1>0, <1>1, <1>3, <2>4
  <2>6. ASSUME NEW o \in all, Folder[o] \in 1 .. f
        PROVE  Cardinality(s) = MaxSamples \/ \E p \in s : Folder[p] = Folder[o]
    <3>1. CASE Folder[o] = f
      BY <2>1, <2>3, <3>1
    <3>2. CASE Folder[o] \in 1 .. f - 1
      <4>1. Cardinality(before) = MaxSamples \/ \E p \in before : Folder[p] = Folder[o]
        BY <3>2 DEF Representative, all
      <4> QED BY <1>0, <1>1, <2>1, <2>5, <4>1
    <3> QED BY <1>0, <2>6, <3>1, <3>2
  <2>7. s \subseteq all
    BY <1>1, <2>1, <2>3
  <2>8. {Largest(listing, all), Smallest(listing, all)} \subseteq s
    BY <2>1 DEF Representative, all
  <2> QED BY <2>5, <2>6, <2>7, <2>8 DEF Representative, all, s
<1> QED BY <1>2, <1>3

\* The sample of a listing with something in it stands for it.
LEMMA SampleStands ==
    ASSUME NEW listing \in [Objects -> Nat], Eligible(listing) # {}
    PROVE  Representative(SelectSamples(listing), listing, Folders)
<1> DEFINE all == Eligible(listing)
           ends == {Largest(listing, all), Smallest(listing, all)}
<1>0. Folders \in Nat /\ MaxSamples \in Nat /\ MaxSamples >= 2 /\ all \in SUBSET Objects
  BY RcloneAssumption DEF Eligible
<1>1. PICK s : Picked(s, listing, Folders) /\ SelectSamples(listing) = s[Folders]
  BY SamplesPicked
<1>2. \A f \in 0 .. Folders : s[f] = Picks(listing, s[f - 1], f)
  BY <1>1 DEF Picked
<1>3. Representative(s[0], listing, 0)
  <2>1. s[0] = ends
    <3>1. 0 \in 0 .. Folders
      BY <1>0
    <3> QED BY <1>2, <3>1 DEF Picks
  <2>2. ends \subseteq all
    <3> HIDE DEF all
    <3>1. Largest(listing, all) \in all /\ Smallest(listing, all) \in all
      BY <1>0, EndsOfListing DEF all
    <3> QED BY <3>1
  <2>3. Cardinality(ends) =< MaxSamples
    <3> DEFINE a == Largest(listing, all)
               b == Smallest(listing, all)
    <3> HIDE DEF a, b
    <3>1. IsFiniteSet({a}) /\ Cardinality({a}) = 1
      BY FS_Singleton
    <3>2. Cardinality({a} \cup {b}) = IF b \in {a} THEN Cardinality({a}) ELSE Cardinality({a}) + 1
      BY <3>1, FS_AddElement
    <3>3. ends = {a} \cup {b}
      BY DEF a, b
    <3> HIDE DEF ends
    <3>4. Cardinality(ends) =< 2
      BY <3>1, <3>2, <3>3
    <3>5. Cardinality(ends) \in Nat
      BY <3>1, <3>2, <3>3
    <3> QED BY <1>0, <3>4, <3>5
  <2> QED BY <2>1, <2>2, <2>3 DEF Representative
<1> DEFINE Bad == {f \in 0 .. Folders : ~Representative(s[f], listing, f)}
<1>4. Bad = {}
  <2>1. SUFFICES ASSUME Bad # {} PROVE FALSE
    OBVIOUS
  <2>2. PICK f \in Bad : \A j \in Bad : f =< j
    <3>1. Bad \subseteq Nat
      OBVIOUS
    <3> HIDE DEF Bad
    <3> QED BY <2>1, <3>1, LeastIn
  <2>3. f # 0
    BY <1>3, <2>2
  <2>4. f \in 1 .. Folders /\ f - 1 \in 0 .. Folders /\ ~(f =< f - 1)
    BY <1>0, <2>2, <2>3
  <2>5. Representative(s[f - 1], listing, f - 1)
    <3>1. f - 1 \notin Bad
      <4> HIDE DEF Bad
      <4> QED BY <2>2, <2>4
    <3> QED BY <2>4, <3>1
  <2>6. Representative(Picks(listing, s[f - 1], f), listing, f)
    BY <2>4, <2>5, OnePick
  <2> QED BY <1>2, <2>2, <2>6
<1> QED BY <1>0, <1>1, <1>4

\* A bucket has sizes, and a test that has a sample has that of the listing it read.
Sampled ==
    /\ bucket \in [Objects -> Nat]
    /\ \A t \in Tests :
          /\ {"listed", "samples"} \subseteq DOMAIN test[t]
          /\ \/ test[t].samples = {}
             \/ /\ test[t].listed \in [Objects -> Nat] /\ Eligible(test[t].listed) # {}
                /\ test[t].samples = SelectSamples(test[t].listed)

\* A test's sample is taken as it reads the listing, and not changed.
LEMMA SampledStep ==
    ASSUME RcloneInv, Sampled, [RcloneNext]_rcloneVars
    PROVE  Sampled'
<1>0. DOMAIN test = Tests
  BY DEF RcloneInv, TestShape
<1>1. CASE \E o \in Objects, v \in 0 .. MaxSize : OwnerWrites(o, v)
  <2>1. PICK o \in Objects, v \in 0 .. MaxSize : OwnerWrites(o, v)
    BY <1>1
  <2>2. bucket' \in [Objects -> Nat] /\ test' = test
    BY <2>1 DEF OwnerWrites, Sampled
  <2> QED BY <2>2 DEF Sampled
<1>2. CASE UNCHANGED <<bucket, test>>
  BY <1>2 DEF Sampled
<1>3. ASSUME NEW t \in Tests, UNCHANGED bucket, DOMAIN test' = Tests,
             \A u \in Tests \ {t} : test'[u] = test[u],
             DOMAIN test'[t] = DOMAIN test[t],
             \/ test'[t].samples = test[t].samples /\ test'[t].listed = test[t].listed
             \/ /\ test'[t].listed = bucket /\ test'[t].samples = SelectSamples(bucket)
                /\ SelectSamples(bucket) # {}
      PROVE  Sampled'
  <2>1. SelectSamples(bucket) # {} => Eligible(bucket) # {}
    BY DEF SelectSamples
  <2> QED BY <1>3, <2>1 DEF Sampled
<1>4. ASSUME NEW t \in Tests,
             \/ RestoreTestStarts(t) \/ ListBucket(t) \/ CheckSamples(t) \/ PurgeScratch(t) \/ TestCancelled(t)
             \/ \E o \in Objects : CopySample(t, o)
      PROVE  Sampled'
  <2>0. {"listed", "samples"} \subseteq DOMAIN test[t]
    BY DEF Sampled
  <2> DEFINE Untouched == /\ DOMAIN test' = Tests /\ \A u \in Tests \ {t} : test'[u] = test[u]
                          /\ DOMAIN test'[t] = DOMAIN test[t]
                          /\ test'[t].samples = test[t].samples /\ test'[t].listed = test[t].listed
  <2>1. UNCHANGED bucket
    BY <1>4 DEF RestoreTestStarts, ListBucket, CheckSamples, PurgeScratch, TestCancelled, CopySample
  <2>2. CASE RestoreTestStarts(t) \/ PurgeScratch(t)
    <3>1. test' = [test EXCEPT ![t].at = test'[t].at]
      BY <1>0, <2>2 DEF RestoreTestStarts, PurgeScratch, To
    <3>2. Untouched
      BY <1>0, <2>0, <3>1
    <3> QED BY <1>3, <2>1, <3>2
  <2>3. CASE CheckSamples(t) \/ TestCancelled(t)
    <3>1. \E a, b : test' = [test EXCEPT ![t].at = a, ![t].told = b]
      BY <2>3 DEF CheckSamples, TestCancelled
    <3>2. Untouched
      BY <1>0, <2>0, <3>1
    <3> QED BY <1>3, <2>1, <3>2
  <2>4. ASSUME NEW o \in Objects, CopySample(t, o) PROVE Sampled'
    <3>1. CASE \E a, b : test' = [test EXCEPT ![t].left = a, ![t].at = b]
      <4>1. Untouched
        BY <1>0, <2>0, <3>1
      <4> QED BY <1>3, <2>1, <4>1
    <3>2. CASE \E a, b : test' = [test EXCEPT ![t].at = a, ![t].told = b]
      <4>1. Untouched
        BY <1>0, <2>0, <3>2
      <4> QED BY <1>3, <2>1, <4>1
    <3> QED BY <2>4, <3>1, <3>2 DEF CopySample
  <2>5. CASE ListBucket(t)
    <3>1. CASE \E a, b : test' = [test EXCEPT ![t].at = a, ![t].told = b]
      <4>1. Untouched
        BY <1>0, <2>0, <3>1
      <4> QED BY <1>3, <2>1, <4>1
    <3>2. CASE /\ SelectSamples(bucket) # {}
               /\ test' = [test EXCEPT ![t].at = "copy", ![t].listed = bucket,
                                       ![t].samples = SelectSamples(bucket), ![t].left = SelectSamples(bucket)]
      <4>1. /\ DOMAIN test' = Tests /\ \A u \in Tests \ {t} : test'[u] = test[u]
            /\ DOMAIN test'[t] = DOMAIN test[t]
            /\ test'[t].listed = bucket /\ test'[t].samples = SelectSamples(bucket)
        BY <1>0, <2>0, <3>2
      <4> QED BY <1>3, <2>1, <3>2, <4>1
    <3> QED BY <2>5, <3>1, <3>2 DEF ListBucket
  <2> QED BY <1>4, <2>2, <2>3, <2>4, <2>5
<1>5. CASE MigrateNext
  <2>1. UNCHANGED <<bucket, test>>
    BY <1>5 DEF MigrateNext, MigrateStarts, ChildExits, MigrateEnds, MigrateCancelled, StopKills
  <2> QED BY <1>2, <2>1
<1>6. CASE \E c \in orphans : OrphanEnds(c)
  <2>1. UNCHANGED <<bucket, test>>
    BY <1>6 DEF OrphanEnds
  <2> QED BY <1>2, <2>1
<1>7. CASE UNCHANGED rcloneVars
  BY <1>2, <1>7 DEF rcloneVars
<1> QED BY <1>1, <1>4, <1>5, <1>6, <1>7 DEF RcloneNext, RestoreNext

\* Such a sample covers the bucket as it was listed.
LEMMA SampledCovers == Sampled => SamplesCover
<1> SUFFICES ASSUME Sampled, NEW t \in Tests, test[t].samples # {}
             PROVE  LET s == test[t].samples IN
                    /\ Cardinality(s) =< MaxSamples
                    /\ \A o \in Eligible(test[t].listed) :
                          /\ \E p, q \in s : /\ test[t].listed[p] =< test[t].listed[o]
                                             /\ test[t].listed[o] =< test[t].listed[q]
                          /\ \/ Folder[o] = 0 \/ Cardinality(s) = MaxSamples
                             \/ \E p \in s : Folder[p] = Folder[o]
  BY DEF SamplesCover
<1> DEFINE l == test[t].listed
           all == Eligible(l)
           s == test[t].samples
<1>1. l \in [Objects -> Nat] /\ all # {} /\ s = SelectSamples(l)
  BY DEF Sampled
<1> HIDE DEF l, s
<1>2. Representative(s, l, Folders)
  BY <1>1, SampleStands
<1>3. Largest(l, all) \in s /\ Smallest(l, all) \in s /\ Cardinality(s) =< MaxSamples
  BY <1>2 DEF Representative
<1>4. ASSUME NEW o \in all
      PROVE  /\ \E p, q \in s : l[p] =< l[o] /\ l[o] =< l[q]
             /\ Folder[o] = 0 \/ Cardinality(s) = MaxSamples \/ \E p \in s : Folder[p] = Folder[o]
  <2>1. all \in SUBSET Objects
    BY DEF Eligible
  <2>2. l[Smallest(l, all)] =< l[o] /\ l[o] =< l[Largest(l, all)]
    <3> HIDE DEF all
    <3> QED BY <1>1, <2>1, EndsOfListing
  <2>3. Folder[o] = 0 \/ Folder[o] \in 1 .. Folders
    <3>1. Folder[o] \in 0 .. Folders
      BY <2>1, RcloneAssumption
    <3> QED BY <3>1, RcloneAssumption
  <2>4. Folder[o] = 0 \/ Cardinality(s) = MaxSamples \/ \E p \in s : Folder[p] = Folder[o]
    BY <1>2, <2>3 DEF Representative
  <2> QED BY <1>3, <2>2, <2>4
<1> QED BY <1>3, <1>4 DEF l, s

\* The jobs leave nothing behind unsaid, neither objects nor processes, and their
\* sample stands for the bucket (run_restore_test, run_migrate, select_samples), for any
\* number of tests, objects, folders, failures and cancellations.
THEOREM NothingLeftBehind == RcloneSpec => []JobsSound
<1> DEFINE Both == RcloneInv /\ Sampled
<1>1. RcloneInit => Both
  <2> SUFFICES ASSUME RcloneInit PROVE Both
    OBVIOUS
  <2>1. RcloneInv
    BY DEF RcloneInit, RcloneInv, TestShape, ScratchOwned, ChildInHand, NotRun
  <2>2. Sampled
    <3>1. bucket \in [Objects -> Nat]
      BY DEF RcloneInit
    <3>2. \A t \in Tests : test[t] = NotRun
      BY DEF RcloneInit
    <3> QED BY <3>1, <3>2 DEF Sampled, NotRun
  <2> QED BY <2>1, <2>2
<1>2. Both /\ [RcloneNext]_rcloneVars => Both'
  <2> SUFFICES ASSUME Both, [RcloneNext]_rcloneVars PROVE Both'
    OBVIOUS
  <2>1. RcloneInv'
    <3>1. CASE UNCHANGED rcloneVars
      BY <3>1 DEF rcloneVars, RcloneInv, TestShape, ScratchOwned, ChildInHand
    <3> QED BY <3>1, RestoreStep, MigrateStep DEF RcloneNext
  <2>2. Sampled'
    BY SampledStep
  <2> QED BY <2>1, <2>2
<1>3. Both => JobsSound
  <2> SUFFICES ASSUME Both PROVE JobsSound
    OBVIOUS
  <2>1. ScratchAccounted /\ NoChildOutlives
    BY DEF RcloneInv, ScratchOwned, ChildInHand, ScratchAccounted, Over, NoChildOutlives
  <2>2. SamplesCover
    BY SampledCovers
  <2> QED BY <2>1, <2>2 DEF JobsSound
<1> HIDE DEF Both
<1> QED BY <1>1, <1>2, <1>3, PTL DEF RcloneSpec

-----------------------------------------------------------------------------
(* Setup.                                                                  *)

\* Of a file no write was cut in and no value spoilt: it parses, and a group's name is
\* there once.  Of one no rewrite was cut in: what a command says it added is there.
FileSound ==
    /\ whole => /\ kept /\ Parses
                /\ \A b, c \in GroupBlocks : Has(b) /\ Has(c) /\ b[2] = c[2] => b = c /\ toml[b] = 1
    /\ kept => \A b \in claimed : Has(b)

\* What a command may rely on where it stands.
PlaceSound ==
    /\ at \in {"rewrite", "append"} => onDisk /\ doing \in Features
    /\ at = "append" /\ whole => ~Has(Table(doing))
    /\ at = "ask" => doing \in Features
    /\ at \in {"garage", "seal", "host"} => unitFile
    /\ at = "docker" /\ doing = "init" => unitFile
    /\ at = "host" => shut

\* Only a file that is there has blocks, and no command claims what the operator writes.
BlocksAccounted ==
    /\ ~onDisk => \A b \in Blocks : ~Has(b)
    /\ Table("commands") \notin claimed /\ Torn \notin claimed

\* With the type invariant and what the runs check of the seal and the restart.
SetupInv ==
    /\ SetupTypeOK /\ FileSound /\ PlaceSound /\ BlocksAccounted
    /\ ReadySealed /\ RestartTakes

-----------------------------------------------------------------------------
\* The kinds of block are apart.
LEMMA BlockKinds ==
    /\ \A b \in TableBlocks : b \in Blocks /\ b[1] = "table"
    /\ \A b \in SubjectBlocks : b \in Blocks /\ b[1] = "deploy"
    /\ \A b \in GroupBlocks : b \in Blocks /\ b[1] \in {"docker", "file", "journald"} /\ b[2] \in Names
    /\ Torn \in Blocks /\ Torn[1] = "torn"
    /\ \A t \in Tables : Table(t) \in TableBlocks
    /\ \A u \in Units : Subject(StemOf[u]) \in SubjectBlocks /\ GroupOf[u] \in Names
                        /\ Group("journald", GroupOf[u]) \in GroupBlocks
    /\ \A n \in Containers : Group("docker", n) \in GroupBlocks
    /\ \A n \in {"caddy", "caddy-events"} : Group("file", n) \in GroupBlocks /\ n \in Names
    /\ \A s, t : Table(s) = Table(t) => s = t
    /\ \A s, t : Subject(s) = Subject(t) => s = t
<1>1. \A b \in TableBlocks : b \in Blocks /\ b[1] = "table"
  BY DEF TableBlocks, Blocks, Table
<1>2. \A b \in SubjectBlocks : b \in Blocks /\ b[1] = "deploy"
  BY DEF SubjectBlocks, Blocks, Subject
<1>3. \A b \in GroupBlocks : b \in Blocks /\ b[1] \in {"docker", "file", "journald"} /\ b[2] \in Names
  BY SetupAssumption DEF GroupBlocks, Blocks, Group
<1>4. Torn \in Blocks /\ Torn[1] = "torn"
  BY DEF Torn, Blocks
<1>5. /\ \A t \in Tables : Table(t) \in TableBlocks
      /\ \A u \in Units : Subject(StemOf[u]) \in SubjectBlocks /\ GroupOf[u] \in Names
                          /\ Group("journald", GroupOf[u]) \in GroupBlocks
      /\ \A n \in Containers : Group("docker", n) \in GroupBlocks
      /\ \A n \in {"caddy", "caddy-events"} : Group("file", n) \in GroupBlocks /\ n \in Names
  BY SetupAssumption DEF TableBlocks, SubjectBlocks, GroupBlocks
<1>6. (\A s, t : Table(s) = Table(t) => s = t) /\ (\A s, t : Subject(s) = Subject(t) => s = t)
  BY DEF Table, Subject
<1> QED BY <1>1, <1>2, <1>3, <1>4, <1>5, <1>6

\* A table that was not there is added.
LEMMA TableAdded ==
    ASSUME SetupInv, onDisk, UNCHANGED <<onDisk, kept>>, NEW t \in Features, whole => ~Has(Table(t)),
           NEW wrong \in SUBSET {Table(t)}, NEW spoils \in BOOLEAN, Written({Table(t)}, wrong, spoils)
    PROVE  /\ FileSound' /\ BlocksAccounted' /\ whole' \in BOOLEAN
           /\ toml' \in [Blocks -> 0 .. 2] /\ bad' \subseteq Blocks /\ claimed' \subseteq Blocks
<1>1. toml \in [Blocks -> 0 .. 2] /\ bad \subseteq Blocks /\ claimed \subseteq Blocks /\ whole \in BOOLEAN
  BY DEF SetupInv, SetupTypeOK
<1>2. Table(t) \in TableBlocks /\ Table(t) \in Blocks /\ Table(t)[1] = "table" /\ t \in Tables /\ Table(t) # Table("commands")
      /\ Table(t) # Torn
  BY BlockKinds DEF Tables, Features
<1>3. /\ toml' \in [Blocks -> 0 .. 2]
      /\ toml'[Table(t)] = (IF toml[Table(t)] = 0 THEN 1 ELSE 2)
      /\ \A b \in Blocks \ {Table(t), Torn} : toml'[b] = toml[b]
      /\ toml'[Torn] = (IF spoils THEN 1 ELSE toml[Torn])
  BY <1>1, <1>2, BlockKinds DEF Written, More
<1>4. bad' \subseteq Blocks /\ claimed' = claimed \cup {Table(t)} /\ whole' = (whole /\ ~spoils)
  BY <1>1, <1>2 DEF Written
<1>5. BlocksAccounted'
  BY <1>2, <1>4 DEF SetupInv, BlocksAccounted
<1>6. ASSUME whole'
      PROVE  Parses' /\ \A b, c \in GroupBlocks : Has(b)' /\ Has(c)' /\ b[2] = c[2] => b = c /\ toml'[b] = 1
  <2>0. whole /\ ~spoils
    BY <1>4, <1>6, Zenon
  <2>1. whole /\ ~spoils /\ Parses /\ toml[Table(t)] = 0
    BY <1>1, <1>2, <2>0 DEF SetupInv, FileSound, Has
  <2>2. ~Has(Torn)'
    BY <1>2, <1>3, <2>1, BlockKinds DEF Parses, Has
  <2>3. \A b \in TableBlocks \cup SubjectBlocks : toml'[b] =< 1
    BY <1>3, <2>1, BlockKinds DEF Parses
  <2>4. \A u \in Units : StemOf[u] \in Odd => ~Has(Subject(StemOf[u]))'
    BY <1>2, <1>3, <2>1, BlockKinds DEF Parses, Has
  <2>5. \A b \in GroupBlocks : toml'[b] = toml[b]
    BY <1>2, <1>3, BlockKinds
  <2>6. \A b, c \in GroupBlocks : Has(b)' /\ Has(c)' /\ b[2] = c[2] => b = c /\ toml'[b] = 1
    BY <2>1, <2>5 DEF SetupInv, FileSound, Has
  <2> QED BY <2>2, <2>3, <2>4, <2>6 DEF Parses
<1>7. ASSUME kept' PROVE \A b \in claimed' : Has(b)'
  BY <1>1, <1>2, <1>3, <1>4, <1>7 DEF SetupInv, FileSound, BlocksAccounted, Has
<1>8. FileSound'
  BY <1>4, <1>6, <1>7 DEF FileSound, SetupInv
<1>9. whole' \in BOOLEAN
  BY <1>4
<1> QED BY <1>1, <1>2, <1>3, <1>4, <1>5, <1>8, <1>9

\* Groups whose names are new are added.
LEMMA GroupsAdded ==
    ASSUME SetupInv, onDisk, UNCHANGED <<onDisk, kept>>, NEW new \in SUBSET GroupBlocks,
           \A b \in new : b[2] \notin ExistingGroupNames, \A b, c \in new : b[2] = c[2] => b = c,
           NEW wrong \in SUBSET new, NEW spoils \in BOOLEAN, Written(new, wrong, spoils)
    PROVE  /\ FileSound' /\ BlocksAccounted' /\ whole' \in BOOLEAN
           /\ toml' \in [Blocks -> 0 .. 2] /\ bad' \subseteq Blocks /\ claimed' \subseteq Blocks
<1>1. toml \in [Blocks -> 0 .. 2] /\ bad \subseteq Blocks /\ claimed \subseteq Blocks /\ whole \in BOOLEAN
  BY DEF SetupInv, SetupTypeOK
<1>2. new \subseteq Blocks /\ \A b \in new : b \notin TableBlocks /\ b \notin SubjectBlocks /\ b # Torn /\ b[2] \in Names
  BY BlockKinds
<1>3. /\ toml' \in [Blocks -> 0 .. 2]
      /\ \A b \in new : toml'[b] = (IF toml[b] = 0 THEN 1 ELSE 2)
      /\ \A b \in Blocks \ (new \cup {Torn}) : toml'[b] = toml[b]
      /\ toml'[Torn] = (IF spoils THEN 1 ELSE toml[Torn])
  BY <1>1, <1>2, BlockKinds DEF Written, More
<1>4. bad' \subseteq Blocks /\ claimed' = claimed \cup new /\ whole' = (whole /\ ~spoils)
  BY <1>1, <1>2 DEF Written
<1>5. BlocksAccounted'
  BY <1>2, <1>4, BlockKinds DEF SetupInv, BlocksAccounted, Tables
<1>6. ASSUME whole'
      PROVE  Parses' /\ \A b, c \in GroupBlocks : Has(b)' /\ Has(c)' /\ b[2] = c[2] => b = c /\ toml'[b] = 1
  <2>1. whole /\ ~spoils /\ Parses
    BY <1>4, <1>6 DEF SetupInv, FileSound
  <2>2. \A b \in new, c \in GroupBlocks : b[2] = c[2] => toml[c] = 0
    <3> SUFFICES ASSUME NEW b \in new, NEW c \in GroupBlocks, b[2] = c[2] PROVE toml[c] = 0
      OBVIOUS
    <3>1. ~Has(c)
      BY <1>2, <2>1 DEF ExistingGroupNames
    <3>2. c \in Blocks
      BY BlockKinds
    <3> QED BY <1>1, <3>1, <3>2 DEF Has
  <2>3. ~Has(Torn)'
    BY <1>2, <1>3, <2>1, BlockKinds DEF Parses, Has
  <2>4. \A b \in TableBlocks \cup SubjectBlocks : toml'[b] =< 1
    BY <1>2, <1>3, <2>1, BlockKinds DEF Parses
  <2>5. \A u \in Units : StemOf[u] \in Odd => ~Has(Subject(StemOf[u]))'
    BY <1>2, <1>3, <2>1, BlockKinds DEF Parses, Has
  <2>6. ASSUME NEW b \in GroupBlocks, NEW c \in GroupBlocks, Has(b)', Has(c)', b[2] = c[2]
        PROVE  b = c /\ toml'[b] = 1
    <3>1. b \in Blocks /\ c \in Blocks /\ b # Torn /\ c # Torn
      BY BlockKinds
    <3>2. CASE b \in new /\ c \in new
      BY <1>3, <2>2, <2>6, <3>2
    <3>3. CASE b \in new /\ c \notin new
      BY <1>3, <2>2, <2>6, <3>1, <3>3 DEF Has
    <3>4. CASE b \notin new /\ c \in new
      BY <1>3, <2>2, <2>6, <3>1, <3>4 DEF Has
    <3>5. CASE b \notin new /\ c \notin new
      BY <1>3, <2>1, <2>6, <3>1, <3>5 DEF Has, SetupInv, FileSound
    <3> QED BY <3>2, <3>3, <3>4, <3>5
  <2> QED BY <2>3, <2>4, <2>5, <2>6 DEF Parses
<1>7. ASSUME kept' PROVE \A b \in claimed' : Has(b)'
  BY <1>1, <1>2, <1>3, <1>4, <1>7 DEF SetupInv, FileSound, BlocksAccounted, Has
<1>8. FileSound'
  BY <1>4, <1>6, <1>7 DEF FileSound, SetupInv
<1>9. whole' \in BOOLEAN
  BY <1>4
<1> QED BY <1>1, <1>2, <1>3, <1>4, <1>5, <1>8, <1>9

\* The file as it was.
LEMMA FileKept ==
    ASSUME SetupInv, UNCHANGED <<onDisk, toml, claimed, kept, whole>>
    PROVE  FileSound' /\ BlocksAccounted'
BY DEF SetupInv, FileSound, BlocksAccounted, Parses, Has

\* The parts that a step which neither restarts nor finishes an init leaves alone.
LEMMA SetupAssembled ==
    ASSUME SetupInv, SetupTypeOK', FileSound', PlaceSound', BlocksAccounted',
           at' # "restarted", unitFile => unitFile', shut => shut', ready' => ready \/ (unitFile /\ shut)
    PROVE  SetupInv'
BY DEF SetupInv, RestartTakes, ReadySealed

\* A command begins, asks, or ends where it asked.
LEMMA AskStep ==
    ASSUME SetupInv,
           \/ \E c \in Features \cup {"init", "logging", "deploy"}, place \in {"prompts", "ask", "docker", "subject"},
                 f \in BOOLEAN : BeginSetup(c, place, f) /\ (place = "ask" => c \in Features) /\ (place = "docker" => c # "init")
           \/ Quit
           \/ \E here \in {"access", "events", "journald"} : Pass(here)
    PROVE  SetupInv'
<1>1. UNCHANGED <<onDisk, toml, bad, paths, unitFile, shut, serves, ready, claimed, kept, whole>>
  BY DEF BeginSetup, Quit, Pass, tomlVars, doneVars
<1>2. FileSound' /\ BlocksAccounted'
  BY <1>1, FileKept
<1>3. CASE Quit
  <2>1. SetupTypeOK'
    BY <1>1, <1>3 DEF SetupInv, SetupTypeOK, Quit, Idle, Places
  <2> QED BY <1>1, <1>2, <1>3, <2>1, SetupAssembled DEF Quit, Idle, PlaceSound
<1>4. ASSUME NEW here \in {"access", "events", "journald"}, Pass(here) PROVE SetupInv'
  <2>1. at' \in {"events", "journald", "restart", "idle"}
    BY <1>4 DEF Pass, GoOn, After
  <2>2. SetupTypeOK'
    BY <1>1, <1>4, <2>1 DEF SetupInv, SetupTypeOK, Pass, GoOn, Places
  <2> QED BY <1>1, <1>2, <2>1, <2>2, SetupAssembled DEF PlaceSound
<1>5. ASSUME NEW c \in Features \cup {"init", "logging", "deploy"}, NEW place \in {"prompts", "ask", "docker", "subject"},
             NEW f \in BOOLEAN, BeginSetup(c, place, f), place = "ask" => c \in Features, place = "docker" => c # "init"
      PROVE  SetupInv'
  <2>1. at' = place /\ doing' = c /\ forced' = f /\ fits' = FALSE /\ wrote' = FALSE /\ setups' = setups + 1
    BY <1>5 DEF BeginSetup
  <2>2. SetupTypeOK'
    <3>1. setups' \in Nat /\ at' \in Places /\ doing' \in Features \cup {"none", "init", "logging", "deploy"}
      BY <2>1 DEF SetupInv, SetupTypeOK, Places
    <3>2. forced' \in BOOLEAN /\ fits' \in BOOLEAN /\ wrote' \in BOOLEAN
      BY <2>1
    <3> QED BY <1>1, <3>1, <3>2 DEF SetupInv, SetupTypeOK
  <2> QED BY <1>1, <1>2, <1>5, <2>1, <2>2, SetupAssembled DEF PlaceSound
<1> QED BY <1>3, <1>4, <1>5

\* init writes the file anew, then the unit, and seals; the last answers of a feature's init.
LEMMA InitStep ==
    ASSUME SetupInv,
           \/ \E found, spoils \in BOOLEAN : WriteConfig(found, spoils)
           \/ WriteUnit \/ SignoffInitStep \/ SetupHost
           \/ \E t \in Features, ok \in BOOLEAN : Confirmed(t, ok)
    PROVE  SetupInv'
<1>1. ASSUME NEW found \in BOOLEAN, NEW spoils \in BOOLEAN, WriteConfig(found, spoils) PROVE SetupInv'
  <2>1. Table("core") \in TableBlocks /\ Table("core") \in Blocks /\ Table("core") # Torn /\ Table("core") # Table("commands")
    BY BlockKinds DEF Tables
  <2>2. /\ toml' \in [Blocks -> 0 .. 2] /\ toml'[Table("core")] = 1
        /\ \A b \in Blocks \ {Table("core")} : toml'[b] = 0 \/ (spoils /\ toml'[b] = 1)
        /\ ~spoils => \A b \in Blocks \ {Table("core")} : toml'[b] = 0
    BY <1>1, <2>1 DEF WriteConfig
  <2>3. SetupTypeOK'
    BY <1>1, <2>1, <2>2 DEF WriteConfig, SetupInv, SetupTypeOK, Places
  <2>4. BlocksAccounted'
    BY <1>1, <2>1 DEF WriteConfig, BlocksAccounted
  <2>5. FileSound'
    <3>1. kept' = TRUE /\ whole' = ~spoils /\ claimed' = {Table("core")}
      BY <1>1 DEF WriteConfig
    <3>2. \A b \in claimed' : Has(b)'
      BY <2>2, <3>1 DEF Has
    <3>3. CASE spoils
      BY <3>1, <3>2, <3>3 DEF FileSound
    <3>4. CASE ~spoils
      BY <2>1, <2>2, <3>1, <3>2, <3>4, BlockKinds DEF FileSound, Parses, Has
    <3> QED BY <3>3, <3>4
  <2> QED BY <1>1, <2>3, <2>4, <2>5, SetupAssembled DEF WriteConfig, PlaceSound
<1>2. CASE WriteUnit
  <2>1. FileSound' /\ BlocksAccounted'
    BY <1>2, FileKept DEF WriteUnit, tomlVars
  <2>2. SetupTypeOK'
    BY <1>2 DEF WriteUnit, tomlVars, SetupInv, SetupTypeOK, Places
  <2> QED BY <1>2, <2>1, <2>2, SetupAssembled DEF WriteUnit, PlaceSound
<1>3. CASE SignoffInitStep
  <2>1. FileSound' /\ BlocksAccounted'
    BY <1>3, FileKept DEF SignoffInitStep, tomlVars
  <2>2. SetupTypeOK'
    BY <1>3 DEF SignoffInitStep, tomlVars, SetupInv, SetupTypeOK, Places
  <2>3. unitFile /\ unitFile'
    BY <1>3 DEF SignoffInitStep, SetupInv, PlaceSound
  <2> QED BY <1>3, <2>1, <2>2, <2>3, SetupAssembled DEF SignoffInitStep, PlaceSound
<1>4. CASE SetupHost
  <2>1. FileSound' /\ BlocksAccounted'
    BY <1>4, FileKept DEF SetupHost, tomlVars
  <2>2. SetupTypeOK'
    BY <1>4 DEF SetupHost, Idle, tomlVars, SetupInv, SetupTypeOK, Places
  <2>3. unitFile /\ shut
    BY <1>4 DEF SetupHost, SetupInv, PlaceSound
  <2> QED BY <1>4, <2>1, <2>2, <2>3, SetupAssembled DEF SetupHost, Idle, PlaceSound
<1>5. ASSUME NEW t \in Features, NEW ok \in BOOLEAN, Confirmed(t, ok) PROVE SetupInv'
  <2>1. UNCHANGED <<onDisk, toml, bad, paths, unitFile, shut, serves, ready, claimed, kept, whole, doing>> /\ onDisk /\ doing = t
    BY <1>5 DEF Confirmed, tomlVars, doneVars
  <2>2. FileSound' /\ BlocksAccounted'
    BY <2>1, FileKept
  <2>3. SetupTypeOK'
    BY <1>5, <2>1 DEF Confirmed, SetupInv, SetupTypeOK, Places
  <2>4. at' = "append" /\ whole => ~Has(Table(t))
    BY <1>5, <2>1 DEF Confirmed, HasSection, SetupInv, FileSound
  <2>5. at' \in {"rewrite", "append"}
    BY <1>5 DEF Confirmed
  <2>6. PlaceSound'
    BY <2>1, <2>4, <2>5 DEF PlaceSound, Has
  <2> QED BY <2>1, <2>2, <2>3, <2>5, <2>6, SetupAssembled
<1> QED BY <1>1, <1>2, <1>3, <1>4, <1>5

\* The steps that append.
LEMMA AppendStep ==
    ASSUME SetupInv,
           \/ \E add, ok, spoils \in BOOLEAN : GarageInitStep(add, ok, spoils)
           \/ \E t \in Features, spoils \in BOOLEAN : AppendTable(t, "restart", spoils) \/ AppendTable(t, "access", spoils)
           \/ \E chosen \in SUBSET Containers, ok, spoils \in BOOLEAN : LoggingInitStep(chosen, ok, spoils)
           \/ \E logThere \in BOOLEAN : OfferCaddyLogGroup(logThere) \/ OfferCaddyEventsLogGroup(logThere)
           \/ \E u \in Units : AddUnit(u)
    PROVE  SetupInv'
<1>1. UNCHANGED <<onDisk, paths, unitFile, shut, serves, ready, kept, forced, fits, setups>>
  BY DEF GarageInitStep, AppendTable, LoggingInitStep, OfferCaddyLogGroup, OfferCaddyEventsLogGroup, OfferFileGroup,
     AddUnit, doneVars
<1>2. ASSUME NEW add \in BOOLEAN, NEW ok \in BOOLEAN, NEW spoils \in BOOLEAN, GarageInitStep(add, ok, spoils)
      PROVE  SetupInv'
  <2>1. at = "garage" /\ at' = "docker" /\ UNCHANGED <<doing, wrote>>
    BY <1>2 DEF GarageInitStep
  <2>2. /\ FileSound' /\ BlocksAccounted' /\ whole' \in BOOLEAN
        /\ toml' \in [Blocks -> 0 .. 2] /\ bad' \subseteq Blocks /\ claimed' \subseteq Blocks
    <3>1. CASE UNCHANGED <<toml, bad, claimed, whole>>
      BY <1>1, <3>1, FileKept DEF SetupInv, SetupTypeOK
    <3>2. CASE ~UNCHANGED <<toml, bad, claimed, whole>>
      <4>1. /\ onDisk /\ ~HasSection("garage")
            /\ \E wrong \in SUBSET {Table("garage")} : Written({Table("garage")}, wrong, spoils)
        BY <1>2, <3>2 DEF GarageInitStep
      <4>2. whole => ~Has(Table("garage"))
        BY <4>1 DEF HasSection, SetupInv, FileSound
      <4> QED BY <1>1, <4>1, <4>2, TableAdded DEF Features
    <3> QED BY <3>1, <3>2
  <2>3. SetupTypeOK'
    BY <1>1, <2>1, <2>2 DEF SetupInv, SetupTypeOK, Places
  <2>4. PlaceSound'
    BY <1>1, <2>1 DEF SetupInv, PlaceSound
  <2> QED BY <1>1, <2>1, <2>2, <2>3, <2>4, SetupAssembled
<1>3. ASSUME NEW t \in Features, NEW spoils \in BOOLEAN,
             AppendTable(t, "restart", spoils) \/ AppendTable(t, "access", spoils)
      PROVE  SetupInv'
  <2>1. at = "append" /\ at' \in {"restart", "access"} /\ doing = t /\ UNCHANGED <<doing, wrote>>
    BY <1>3 DEF AppendTable
  <2>2. onDisk /\ (whole => ~Has(Table(t))) /\ \E wrong \in SUBSET {Table(t)} : Written({Table(t)}, wrong, spoils)
    BY <1>3, <2>1 DEF AppendTable, SetupInv, PlaceSound
  <2>3. /\ FileSound' /\ BlocksAccounted' /\ whole' \in BOOLEAN
        /\ toml' \in [Blocks -> 0 .. 2] /\ bad' \subseteq Blocks /\ claimed' \subseteq Blocks
    BY <1>1, <2>2, TableAdded
  <2>4. SetupTypeOK'
    BY <1>1, <2>1, <2>3 DEF SetupInv, SetupTypeOK, Places
  <2>5. PlaceSound'
    BY <2>1 DEF PlaceSound
  <2> QED BY <1>1, <2>1, <2>3, <2>4, <2>5, SetupAssembled
<1>4. ASSUME NEW chosen \in SUBSET Containers, NEW ok \in BOOLEAN, NEW spoils \in BOOLEAN,
             LoggingInitStep(chosen, ok, spoils)
      PROVE  SetupInv'
  <2> DEFINE new == {Group("docker", n) : n \in chosen}
  <2>1. at = "docker" /\ at' = (IF doing = "init" THEN "seal" ELSE "access") /\ UNCHANGED doing /\ onDisk
        /\ wrote' = (wrote \/ chosen # {}) /\ chosen \subseteq Offered
    BY <1>4 DEF LoggingInitStep
  <2>2. new \in SUBSET GroupBlocks
    BY BlockKinds
  <2>3. /\ \A b \in new : b[2] \notin ExistingGroupNames
        /\ \A b, c \in new : b[2] = c[2] => b = c
    BY <2>1 DEF Group, Offered
  <2>4. \E wrong \in SUBSET new : Written(new, wrong, spoils)
    BY <1>4 DEF LoggingInitStep, RefusedGroups
  <2>5. /\ FileSound' /\ BlocksAccounted' /\ whole' \in BOOLEAN
        /\ toml' \in [Blocks -> 0 .. 2] /\ bad' \subseteq Blocks /\ claimed' \subseteq Blocks
    <3> HIDE DEF new
    <3> QED BY <1>1, <2>1, <2>2, <2>3, <2>4, GroupsAdded
  <2>6. SetupTypeOK'
    BY <1>1, <2>1, <2>5 DEF SetupInv, SetupTypeOK, Places
  <2>7. PlaceSound'
    BY <1>1, <2>1 DEF SetupInv, PlaceSound
  <2> QED BY <1>1, <2>1, <2>5, <2>6, <2>7, SetupAssembled
<1>5. ASSUME NEW here \in {"access", "events"}, NEW n \in {"caddy", "caddy-events"}, NEW there \in BOOLEAN,
             OfferFileGroup(here, n, there)
      PROVE  SetupInv'
  <2>1. /\ at' \in {"events", "journald", "restart", "idle"} /\ doing' \in {"none", doing} /\ onDisk /\ wrote' \in BOOLEAN
        /\ n \notin ExistingGroupNames /\ Written({Group("file", n)}, {}, FALSE)
    BY <1>5 DEF OfferFileGroup, GoOn, After
  <2>2. {Group("file", n)} \in SUBSET GroupBlocks /\ Group("file", n)[2] = n /\ {} \in SUBSET {Group("file", n)}
    BY BlockKinds DEF Group
  <2>3. /\ FileSound' /\ BlocksAccounted' /\ whole' \in BOOLEAN
        /\ toml' \in [Blocks -> 0 .. 2] /\ bad' \subseteq Blocks /\ claimed' \subseteq Blocks
    BY <1>1, <2>1, <2>2, GroupsAdded
  <2>4. SetupTypeOK'
    BY <1>1, <2>1, <2>3 DEF SetupInv, SetupTypeOK, Places
  <2>5. PlaceSound'
    BY <2>1 DEF PlaceSound
  <2> QED BY <1>1, <2>1, <2>3, <2>4, <2>5, SetupAssembled
<1>6. ASSUME NEW u \in Units, AddUnit(u) PROVE SetupInv'
  <2>1. /\ at = "journald" /\ UNCHANGED <<at, doing>> /\ onDisk /\ wrote' = TRUE /\ GroupOf[u] \notin ExistingGroupNames
    BY <1>6 DEF AddUnit, NameFree
  <2>2. {Group("journald", GroupOf[u])} \in SUBSET GroupBlocks /\ Group("journald", GroupOf[u])[2] = GroupOf[u]
        /\ {} \in SUBSET {Group("journald", GroupOf[u])}
    BY BlockKinds DEF Group
  <2>3. /\ FileSound' /\ BlocksAccounted' /\ whole' \in BOOLEAN
        /\ toml' \in [Blocks -> 0 .. 2] /\ bad' \subseteq Blocks /\ claimed' \subseteq Blocks
    <3> DEFINE spoils == u \in Spoiling
    <3>1. Written({Group("journald", GroupOf[u])}, {}, spoils) /\ spoils \in BOOLEAN
      BY <1>6 DEF AddUnit
    <3> HIDE DEF spoils
    <3> QED BY <1>1, <2>1, <2>2, <3>1, GroupsAdded
  <2>4. SetupTypeOK'
    BY <1>1, <2>1, <2>3 DEF SetupInv, SetupTypeOK
  <2>5. PlaceSound'
    BY <2>1 DEF PlaceSound
  <2> QED BY <1>1, <2>1, <2>3, <2>4, <2>5, SetupAssembled
<1> QED BY <1>2, <1>3, <1>4, <1>5, <1>6 DEF OfferCaddyLogGroup, OfferCaddyEventsLogGroup

\* A write that is cut, in a rewrite or in an append, claims nothing any more.
LEMMA CutStep ==
    ASSUME SetupInv, CutRewrite \/ CutAppend
    PROVE  SetupInv'
<1>1. /\ UNCHANGED <<onDisk, bad, paths, unitFile, shut, serves, ready, forced, fits, wrote, claimed, setups>>
      /\ whole' = FALSE /\ kept' \in {kept, FALSE} /\ at' = "idle" /\ doing' = "none"
  BY DEF CutRewrite, CutAppend, Idle, doneVars
<1>2. /\ toml' \in [Blocks -> 0 .. 2] /\ (~onDisk => \A b \in Blocks : toml'[b] = 0)
      /\ kept' => kept /\ \A b \in Blocks \ {Torn} : toml'[b] = toml[b]
  <2>1. CASE CutRewrite
    BY <2>1 DEF CutRewrite
  <2>2. CASE CutAppend
    BY <2>2, BlockKinds DEF CutAppend, SetupInv, SetupTypeOK, doneVars
  <2> QED BY <2>1, <2>2
<1>3. FileSound' /\ BlocksAccounted'
  BY <1>1, <1>2 DEF FileSound, BlocksAccounted, SetupInv, SetupTypeOK, Has
<1>4. SetupTypeOK'
  BY <1>1, <1>2 DEF SetupInv, SetupTypeOK, Places
<1>5. PlaceSound'
  BY <1>1 DEF PlaceSound
<1> QED BY <1>1, <1>3, <1>4, <1>5, SetupAssembled

\* The section to replace goes, and nothing else.
LEMMA RewriteStep ==
    ASSUME SetupInv, RewriteSection
    PROVE  SetupInv'
<1> DEFINE x == Table(doing)
<1>1. /\ UNCHANGED <<onDisk, bad, paths, unitFile, shut, serves, ready, doing, forced, fits, wrote, kept, whole, setups>>
      /\ at = "rewrite" /\ at' = "append" /\ onDisk /\ doing \in Features
      /\ toml' = [toml EXCEPT ![x] = 0] /\ claimed' = claimed \ {x}
  BY DEF RewriteSection, RemoveSection, doneVars, SetupInv, PlaceSound
<1>2. x \in TableBlocks /\ x \in Blocks /\ x # Torn /\ toml \in [Blocks -> 0 .. 2] /\ claimed \subseteq Blocks
  BY <1>1, BlockKinds DEF Tables, SetupInv, SetupTypeOK
<1>3. toml' \in [Blocks -> 0 .. 2] /\ toml'[x] = 0 /\ \A b \in Blocks \ {x} : toml'[b] = toml[b]
  BY <1>1, <1>2
<1>4. BlocksAccounted'
  BY <1>1 DEF BlocksAccounted, SetupInv
<1>5. ASSUME whole
      PROVE  Parses' /\ \A b, c \in GroupBlocks : Has(b)' /\ Has(c)' /\ b[2] = c[2] => b = c /\ toml'[b] = 1
  <2>1. Parses
    BY <1>5 DEF SetupInv, FileSound
  <2>2. ~Has(Torn)' /\ \A b \in TableBlocks \cup SubjectBlocks : toml'[b] =< 1
    BY <1>2, <1>3, <2>1, BlockKinds DEF Parses, Has
  <2>3. \A u \in Units : StemOf[u] \in Odd => ~Has(Subject(StemOf[u]))'
    BY <1>2, <1>3, <2>1, BlockKinds DEF Parses, Has
  <2>4. \A b \in GroupBlocks : toml'[b] = toml[b]
    BY <1>2, <1>3, BlockKinds
  <2>5. \A b, c \in GroupBlocks : Has(b)' /\ Has(c)' /\ b[2] = c[2] => b = c /\ toml'[b] = 1
    BY <1>5, <2>4 DEF SetupInv, FileSound, Has
  <2> QED BY <2>2, <2>3, <2>5 DEF Parses
<1>6. FileSound'
  <2>1. ASSUME kept PROVE \A b \in claimed' : Has(b)'
    BY <1>1, <1>2, <1>3, <2>1 DEF SetupInv, FileSound, Has
  <2> QED BY <1>1, <1>5, <2>1 DEF FileSound, SetupInv
<1>7. SetupTypeOK'
  BY <1>1, <1>2, <1>3 DEF SetupInv, SetupTypeOK, Places
<1>8. PlaceSound'
  BY <1>1, <1>3 DEF PlaceSound, Has
<1> QED BY <1>1, <1>4, <1>6, <1>7, <1>8, SetupAssembled

\* One block set to a single occurrence: a table or a subject, the rest kept.
LEMMA BlockSet ==
    ASSUME SetupInv, NEW x \in TableBlocks \cup SubjectBlocks, toml' = [toml EXCEPT ![x] = 1], onDisk',
           claimed' \in {claimed, claimed \cup {x}}, x = Table("commands") => claimed' = claimed,
           UNCHANGED kept, whole' => whole /\ \A u \in Units : x = Subject(StemOf[u]) => StemOf[u] \notin Odd
    PROVE  FileSound' /\ BlocksAccounted' /\ toml' \in [Blocks -> 0 .. 2] /\ claimed' \subseteq Blocks
<1>1. x \in Blocks /\ x # Torn /\ x \notin GroupBlocks /\ toml \in [Blocks -> 0 .. 2] /\ claimed \subseteq Blocks
  BY BlockKinds DEF SetupInv, SetupTypeOK
<1>2. toml' \in [Blocks -> 0 .. 2] /\ toml'[x] = 1 /\ \A b \in Blocks \ {x} : toml'[b] = toml[b]
  BY <1>1
<1>3. BlocksAccounted'
  BY <1>1 DEF BlocksAccounted, SetupInv
<1>4. ASSUME whole'
      PROVE  Parses' /\ \A b, c \in GroupBlocks : Has(b)' /\ Has(c)' /\ b[2] = c[2] => b = c /\ toml'[b] = 1
  <2>1. whole /\ Parses
    BY <1>4 DEF SetupInv, FileSound
  <2>2. ~Has(Torn)' /\ \A b \in TableBlocks \cup SubjectBlocks : toml'[b] =< 1
    BY <1>1, <1>2, <2>1, BlockKinds DEF Parses, Has
  <2>3. \A u \in Units : StemOf[u] \in Odd => ~Has(Subject(StemOf[u]))'
    BY <1>1, <1>2, <1>4, <2>1, BlockKinds DEF Parses, Has
  <2>4. \A b \in GroupBlocks : toml'[b] = toml[b]
    BY <1>1, <1>2, BlockKinds
  <2>5. \A b, c \in GroupBlocks : Has(b)' /\ Has(c)' /\ b[2] = c[2] => b = c /\ toml'[b] = 1
    BY <2>1, <2>4 DEF SetupInv, FileSound, Has
  <2> QED BY <2>2, <2>3, <2>5 DEF Parses
<1>5. FileSound'
  <2>1. ASSUME kept PROVE \A b \in claimed' : Has(b)'
    BY <1>1, <1>2, <2>1 DEF SetupInv, FileSound, Has
  <2> QED BY <1>4, <2>1 DEF FileSound, SetupInv
<1> QED BY <1>1, <1>2, <1>3, <1>5

\* claim_section, and the operator's own edits.
LEMMA SetStep ==
    ASSUME SetupInv,
           \/ \E u \in Units : ClaimSubject(u)
           \/ \E t \in {"core", "commands"}, ok \in BOOLEAN : HandEdit(t, ok)
    PROVE  SetupInv'
<1>1. UNCHANGED <<paths, unitFile, shut, serves, ready, kept, forced, fits, wrote>> /\ at' = "idle" /\ doing' \in {"none", doing}
      /\ bad \subseteq Blocks
  BY DEF ClaimSubject, HandEdit, Idle, doneVars, SetupInv, SetupTypeOK
<1>2. ASSUME NEW u \in Units, ClaimSubject(u) PROVE SetupInv'
  <2> DEFINE x == Subject(StemOf[u])
  <2>1. x \in SubjectBlocks /\ x \in Blocks /\ x # Table("commands")
    BY BlockKinds DEF Tables
  <2>2. /\ toml' = [toml EXCEPT ![x] = 1] /\ onDisk' = TRUE /\ claimed' = claimed \cup {x}
        /\ whole' = (whole /\ StemOf[u] \notin Odd) /\ bad' \in {(bad \ {x}) \cup {x}, (bad \ {x}) \cup {}} /\ setups' = setups
    BY <1>2 DEF ClaimSubject, ClaimSection
  <2>3. \A v \in Units : x = Subject(StemOf[v]) => StemOf[v] = StemOf[u]
    BY BlockKinds
  <2>4. FileSound' /\ BlocksAccounted' /\ toml' \in [Blocks -> 0 .. 2] /\ claimed' \subseteq Blocks
    <3> HIDE DEF x
    <3> QED BY <1>1, <2>1, <2>2, <2>3, BlockSet
  <2>5. SetupTypeOK'
    <3> HIDE DEF x
    <3> QED BY <1>1, <2>1, <2>2, <2>4 DEF SetupInv, SetupTypeOK, Places
  <2> QED BY <1>1, <2>4, <2>5, SetupAssembled DEF PlaceSound
<1>3. ASSUME NEW t \in {"core", "commands"}, NEW ok \in BOOLEAN, HandEdit(t, ok) PROVE SetupInv'
  <2> DEFINE x == Table(t)
  <2>1. x \in TableBlocks /\ x \in Blocks /\ \A u \in Units : x # Subject(StemOf[u])
    BY BlockKinds DEF Tables
  <2>2. /\ toml' = [toml EXCEPT ![x] = 1] /\ onDisk' = onDisk /\ onDisk /\ claimed' = claimed /\ whole' = whole
        /\ bad' \in {(bad \ {x}) \cup {x}, (bad \ {x}) \cup {}} /\ setups' = setups + 1
    BY <1>3 DEF HandEdit
  <2>3. FileSound' /\ BlocksAccounted' /\ toml' \in [Blocks -> 0 .. 2] /\ claimed' \subseteq Blocks
    <3> HIDE DEF x
    <3> QED BY <1>1, <2>1, <2>2, BlockSet
  <2>4. SetupTypeOK'
    <3> HIDE DEF x
    <3>1. setups' \in Nat /\ bad' \subseteq Blocks
      BY <1>1, <2>1, <2>2 DEF SetupInv, SetupTypeOK
    <3> QED BY <1>1, <2>2, <2>3, <3>1 DEF SetupInv, SetupTypeOK, Places
  <2> QED BY <1>1, <2>3, <2>4, SetupAssembled DEF PlaceSound
<1> QED BY <1>2, <1>3

\* The loader takes every group a command claims.
LEMMA ClaimedLoads ==
    ASSUME SetupInv, whole
    PROVE  (claimed \cap GroupBlocks) \ bad \subseteq LogGroups
BY DEF SetupInv, FileSound, LogGroups

\* A file no write was cut in and no value spoilt, whose core and command tables are accepted, loads.
LEMMA FileLoads ==
    ASSUME SetupInv, whole, CoreParsed, CommandsParsed
    PROVE  LoadConfig
<1>1. Table("core") \in Blocks /\ Has(Table("core"))
  BY BlockKinds DEF CoreParsed, Tables
<1>2. onDisk
  BY <1>1 DEF SetupInv, BlocksAccounted, SetupTypeOK
<1> QED BY <1>2 DEF LoadConfig, SetupInv, FileSound

\* A restart serves all that the file holds.
LEMMA RestartStep ==
    ASSUME SetupInv, OfferRestart
    PROVE  SetupInv'
<1>1. /\ UNCHANGED <<onDisk, toml, bad, paths, unitFile, shut, ready, doing, forced, fits, wrote, claimed, kept, whole, setups>>
      /\ at' = "restarted"
      /\ serves' = IF LoadConfig /\ ValidatePaths
                   THEN IntegrationsParsed \cup LogGroups \cup DeployProbes \cup {Table("core")} ELSE {}
  BY DEF OfferRestart, tomlVars
<1>2. FileSound' /\ BlocksAccounted'
  BY <1>1, FileKept
<1>3. IntegrationsParsed \subseteq Blocks /\ LogGroups \subseteq Blocks /\ DeployProbes \subseteq Blocks /\ Table("core") \in Blocks
  BY BlockKinds DEF IntegrationsParsed, LogGroups, DeployProbes, Tables
<1>4. SetupTypeOK'
  BY <1>1, <1>3 DEF SetupInv, SetupTypeOK, Places
<1>5. PlaceSound'
  BY <1>1 DEF PlaceSound
<1>6. ReadySealed'
  BY <1>1 DEF SetupInv, ReadySealed
<1>7. RestartTakes'
  <2> SUFFICES ASSUME whole, paths, CoreParsed, CommandsParsed, NEW b \in claimed, b \notin bad PROVE b \in serves'
    BY <1>1 DEF RestartTakes, CoreParsed, CommandsParsed, Has
  <2>1. LoadConfig /\ ValidatePaths
    BY FileLoads DEF ValidatePaths
  <2>2. b \in Blocks /\ Has(b) /\ b # Table("commands") /\ b # Torn
    BY DEF SetupInv, SetupTypeOK, FileSound, BlocksAccounted
  <2>3. CASE b \in TableBlocks
    <3>1. PICK t \in Tables : b = Table(t)
      BY <2>3 DEF TableBlocks
    <3>2. t = "core" \/ t \in Features
      BY <2>2, <3>1 DEF Tables
    <3> QED BY <1>1, <2>1, <2>2, <3>1, <3>2 DEF IntegrationsParsed
  <2>4. CASE b \in GroupBlocks
    BY <1>1, <2>1, <2>4, ClaimedLoads
  <2>5. CASE b \in SubjectBlocks
    BY <1>1, <2>1, <2>2, <2>5 DEF DeployProbes
  <2> QED BY <2>2, <2>3, <2>4, <2>5 DEF Blocks
<1> QED BY <1>2, <1>4, <1>5, <1>6, <1>7 DEF SetupInv

\* SetupInv is inductive.
LEMMA SetupStep ==
    ASSUME SetupInv, [SetupNext]_setupVars
    PROVE  SetupInv'
<1>1. CASE (\E f \in BOOLEAN : RunInit(f)) \/ RunLoggingInit \/ RunDeployInit \/ Quit
           \/ \E here \in {"access", "events", "journald"} : Pass(here)
  <2>1. ASSUME NEW f \in BOOLEAN, RunInit(f) PROVE SetupInv'
    BY <2>1, AskStep DEF RunInit
  <2>2. CASE RunLoggingInit
    <3>1. BeginSetup("logging", "docker", FALSE) /\ "logging" \in Features \cup {"init", "logging", "deploy"}
      BY <2>2 DEF RunLoggingInit
    <3> QED BY <3>1, AskStep
  <2>3. CASE RunDeployInit
    BY <2>3, AskStep DEF RunDeployInit
  <2> QED BY <1>1, <2>1, <2>2, <2>3, AskStep
<1>2. CASE (\E found, spoils \in BOOLEAN : WriteConfig(found, spoils)) \/ WriteUnit \/ SignoffInitStep \/ SetupHost
  BY <1>2, InitStep
<1>3. CASE \/ \E add, ok, spoils \in BOOLEAN : GarageInitStep(add, ok, spoils)
           \/ \E chosen \in SUBSET Containers, ok, spoils \in BOOLEAN : LoggingInitStep(chosen, ok, spoils)
           \/ \E logThere \in BOOLEAN : OfferCaddyLogGroup(logThere) \/ OfferCaddyEventsLogGroup(logThere)
           \/ \E u \in Units : AddUnit(u)
  BY <1>3, AppendStep
<1>4. CASE FeatureStep
  <2>1. CASE \E f \in BOOLEAN : RunGarageInit(f) \/ RunCaddyInit(f) \/ RunRcloneInit(f)
    BY <2>1, AskStep DEF RunGarageInit, RunCaddyInit, RunRcloneInit, RunFeatureInit, Features
  <2>2. CASE \E ok \in BOOLEAN : PromptGarageValues(ok) \/ PromptCaddyValues(ok) \/ PromptRcloneValues(ok)
    BY <2>2, InitStep DEF PromptGarageValues, PromptCaddyValues, PromptRcloneValues, Features
  <2>3. CASE \E spoils \in BOOLEAN :
               AppendGarageSection(spoils) \/ AppendCaddySection(spoils) \/ AppendRcloneSection(spoils)
    BY <2>3, AppendStep DEF AppendGarageSection, AppendCaddySection, AppendRcloneSection, Features
  <2>4. CASE RewriteSection
    BY <2>4, RewriteStep
  <2> QED BY <1>4, <2>1, <2>2, <2>3, <2>4 DEF FeatureStep
<1>5. CASE (\E u \in Units : ClaimSubject(u)) \/ \E t \in {"core", "commands"}, ok \in BOOLEAN : HandEdit(t, ok)
  BY <1>5, SetStep
<1>6. CASE OfferRestart
  BY <1>6, RestartStep
<1>7. CASE CutRewrite \/ CutAppend
  BY <1>7, CutStep
<1>8. CASE UNCHANGED setupVars
  <2>1. UNCHANGED <<onDisk, toml, bad, paths, unitFile, shut, serves, ready, doing, at, forced, fits, wrote, claimed,
                    kept, whole, setups>>
    BY <1>8 DEF setupVars, tomlVars, doneVars
  <2>2. FileSound' /\ BlocksAccounted'
    BY <2>1, FileKept
  <2>3. SetupTypeOK' /\ PlaceSound' /\ ReadySealed'
    BY <2>1 DEF SetupInv, SetupTypeOK, PlaceSound, ReadySealed, Has
  <2>4. RestartTakes'
    BY <2>1 DEF SetupInv, RestartTakes, CoreParsed, CommandsParsed, Has
  <2> QED BY <2>2, <2>3, <2>4 DEF SetupInv
<1> QED BY <1>1, <1>2, <1>3, <1>4, <1>5, <1>6, <1>7, <1>8 DEF SetupNext

\* A host nothing was set up on.
LEMMA SetupInitInv == SetupInit => SetupInv
<1> SUFFICES ASSUME SetupInit PROVE SetupInv
  OBVIOUS
<1>1. toml \in [Blocks -> 0 .. 2] /\ \A b \in Blocks : toml[b] = 0
  BY DEF SetupInit
<1>2. SetupTypeOK
  BY <1>1 DEF SetupInit, SetupTypeOK, Places
<1>3. FileSound
  BY <1>1, BlockKinds DEF SetupInit, FileSound, Parses, Has
<1>4. PlaceSound /\ BlocksAccounted /\ ReadySealed /\ RestartTakes
  BY <1>1 DEF SetupInit, PlaceSound, BlocksAccounted, ReadySealed, RestartTakes, Has
<1> QED BY <1>2, <1>3, <1>4 DEF SetupInv

\* A setup command, however it ends, leaves a file with every section it and its
\* predecessors reported, unless a rewrite was cut in the middle; and the agent starts from
\* it, unless any write was cut or wrote what TOML refuses: for all units, containers and
\* names and any number of commands.
THEOREM SetupStaysSound == SetupSpec => []SetupSound
<1>1. SetupInit => SetupInv
  BY SetupInitInv
<1>2. SetupInv /\ [SetupNext]_setupVars => SetupInv'
  BY SetupStep
<1>3. SetupInv => SetupSound
  <2> SUFFICES ASSUME SetupInv PROVE SetupSound
    OBVIOUS
  <2>1. Bootable
    BY FileLoads DEF Bootable
  <2>2. NothingLost
    BY DEF NothingLost, SetupInv, FileSound
  <2>3. AddedIsLoaded
    BY ClaimedLoads DEF AddedIsLoaded
  <2>4. RestartTakes /\ ReadySealed
    BY DEF SetupInv
  <2> QED BY <2>1, <2>2, <2>3, <2>4 DEF SetupSound
<1> QED BY <1>1, <1>2, <1>3, PTL DEF SetupSpec

=============================================================================
