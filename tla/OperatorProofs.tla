--------------------------- MODULE OperatorProofs ---------------------------
(***************************************************************************)
(* Proofs about what the operator's commands do to the host.  Wizard: an   *)
(* apply is all or nothing, and its receipt says which, for any number of  *)
(* processes, targets and plans.  ExternalPackages: the store is sound for *)
(* whoever reads it next, and authority is only written when it is earned. *)
(***************************************************************************)
EXTENDS Wizard, ExternalPackages, SequenceTheorems, WellFoundedInduction, TLAPS

(***************************************************************************)
(* The inductive invariant, of the behaviours in which no apply begins     *)
(* over a journal or beside a recovery.  The lock makes one apply the only *)
(* writer, and what a crash leaves is told from the journal alone.         *)
(***************************************************************************)
\* What contents are made of: the installation's own, and what plans write.
Names == {"core"} \cup STRING

Entries == [m : Mutations, pre : SUBSET Names]

Busy == {"record", "forward", "verify", "post", "undo", "finish", "receipt"}

Applies == [at : Busy \cup {"off", "lock"}, plan : Plans \cup {<<>>}, i : Nat \ {0},
            done : Seq(Entries), status : {"committed", "rolled_back", "partial_rollback"}]

WizTypeOK ==
    /\ host \in [Targets -> SUBSET Names] /\ base \in [Targets -> SUBSET Names]
    /\ journal \in [there : BOOLEAN, entries : Seq(Entries)]
    /\ lock \in Wizards \cup {NoOne}
    /\ apply \in [Wizards -> Applies]
    /\ doctor \in [running : BOOLEAN, left : Seq(Entries)]

Prefix(p, q) == Len(p) =< Len(q) /\ \A k \in 1 .. Len(p) : p[k] = q[k]

\* One apply writes at a time, and no recovery beside it.
Locked ==
    /\ \A w \in Wizards : apply[w].at \in Busy <=> lock = w
    /\ lock # NoOne => ~doctor.running

\* Until it is finalized an apply has a journal; without one there is nothing to undo.
Journalled ==
    /\ ~journal.there => journal.entries = <<>>
    /\ doctor.running => journal.there
    /\ \A w \in Wizards : apply[w].at \in Busy \ {"receipt"} => journal.there
    /\ \A k \in DOMAIN journal.entries :
          journal.entries[k].m.kind = "caddy" => journal.entries[k].m.target \in Provided

\* The entries of q up to n leave the target t alone.
Untouched(q, n, t) == \A j \in 1 .. n : q[j].m.target # t

\* None of them is a file's that recover() would restore.
NoFileOf(q, n, t) == \A j \in 1 .. n : ~(q[j].m.target = t /\ IsFileKind(q[j].m))

\* The first entry of a target captured what was there before the apply, and a target
\* without an entry is as it was.  Of a target no provider restores, every entry up to
\* the first of a file did.
PreImages ==
    LET q == journal.entries IN
    /\ \A t \in Targets, k \in DOMAIN q :
          q[k].m.target = t /\ Untouched(q, k - 1, t) => q[k].pre = base[t]
    /\ \A t \in Targets : Untouched(q, Len(q), t) => host[t] = base[t]
    /\ \A t \in Targets \ Provided, k \in DOMAIN q :
          q[k].m.target = t /\ NoFileOf(q, k - 1, t) => q[k].pre = base[t]
    /\ \A t \in Targets \ Provided : NoFileOf(q, Len(q), t) => host[t] = base[t]

\* The entries after n are undone: each of their targets is what the first of them found.
UndoneTo(n) ==
    LET q == journal.entries IN
    \A k \in DOMAIN q :
        k > n /\ (\A j \in n + 1 .. k - 1 : q[j].m.target # q[k].m.target)
            => host[q[k].m.target] = q[k].pre

\* The files among them are.
FilesUndoneTo(n) ==
    LET q == journal.entries IN
    \A k \in DOMAIN q :
        k > n /\ q[k].m.target \notin Provided /\ IsFileKind(q[k].m)
        /\ (\A j \in n + 1 .. k - 1 : ~(q[j].m.target = q[k].m.target /\ IsFileKind(q[j].m)))
            => host[q[k].m.target] = q[k].pre

\* The first n mutations of the plan are in place, unless a later one wrote over them.
InPlace(plan, n) ==
    \A i \in 1 .. n :
        \/ ForwardOf(plan[i], host[plan[i].target]) = host[plan[i].target]
        \/ \E j \in i + 1 .. n : plan[j].target = plan[i].target

\* Where a process is in its plan, and what it has written and undone.
ApplySound(w) ==
    LET a == apply[w] IN
    /\ a.at # "off" => a.plan \in Plans /\ a.i \in 1 .. Len(a.plan)
    /\ a.at = "lock" => a = [NotApplying EXCEPT !.at = "lock", !.plan = a.plan]
    /\ a.at \in {"record", "forward", "verify", "post"} =>
          /\ a.status = "committed" /\ a.done = journal.entries
          /\ Len(a.done) = IF a.at = "record" THEN a.i - 1 ELSE a.i
          /\ \A k \in DOMAIN a.done : a.done[k].m = a.plan[k]
          /\ InPlace(a.plan, IF a.at \in {"record", "forward"} THEN a.i - 1 ELSE a.i)
    /\ a.at = "post" => a.i = Len(a.plan)
    /\ a.at = "undo" => /\ Prefix(a.done, journal.entries) /\ a.status # "committed"
                        /\ a.status = "rolled_back" => UndoneTo(Len(a.done))
    /\ a.at \in {"finish", "receipt"} =>
          /\ a.status = "committed" => InPlace(a.plan, Len(a.plan))
          /\ a.status = "rolled_back" => host = base
    /\ a.at = "receipt" => (journal.there <=> a.status = "partial_rollback")

DoctorSound ==
    /\ doctor.running => Prefix(doctor.left, journal.entries) /\ FilesUndoneTo(Len(doctor.left))
    /\ ~doctor.running => doctor.left = <<>>

WizInv ==
    /\ WizTypeOK /\ Locked /\ Journalled /\ PreImages /\ DoctorSound
    /\ \A w \in Wizards : ApplySound(w)

WizardInv == careless \/ WizInv

----------------------------------------------------------------------------
(* Plans, mutations and sequences of entries.                              *)

\* The builders of mutations.py: a forward done again changes nothing, and one without a
\* file to restore changes nothing, a provider's aside.
LEMMA BuildFacts ==
    ASSUME NEW m \in Mutations, NEW x \in SUBSET Names
    PROVE  /\ ForwardOf(m, x) \in SUBSET Names
           /\ ForwardOf(m, ForwardOf(m, x)) = ForwardOf(m, x)
           /\ ~IsFileKind(m) /\ m.kind # "caddy" => ForwardOf(m, x) = x
<1>1. m.kind \in StepKinds /\ m.data \in Names
  BY DEF Mutations, Names
<1>2. CASE m.kind = "claim"
  BY <1>1, <1>2 DEF ForwardOf, IsFileKind, BuildStep, BuildClaimToml
<1>3. CASE m.kind = "install"
  BY <1>1, <1>3 DEF ForwardOf, IsFileKind, BuildStep, BuildInstall
<1>4. CASE m.kind = "unit"
  BY <1>1, <1>4 DEF ForwardOf, IsFileKind, BuildStep, BuildSystemdUnit
<1>5. CASE m.kind = "caddy"
  BY <1>1, <1>5 DEF ForwardOf, IsFileKind, BuildStep, BuildCaddyDropIn
<1>6. CASE m.kind = "restart"
  BY <1>1, <1>6 DEF ForwardOf, IsFileKind, BuildStep, BuildRestart
<1>7. CASE m.kind = "probe"
  BY <1>1, <1>7 DEF ForwardOf, IsFileKind, BuildStep, BuildVerifyProbe
<1> QED BY <1>1, <1>2, <1>3, <1>4, <1>5, <1>6, <1>7 DEF StepKinds

\* What a plan is.
LEMMA PlanFacts ==
    ASSUME NEW plan \in Plans
    PROVE  /\ Len(plan) \in Nat \ {0} /\ DOMAIN plan = 1 .. Len(plan)
           /\ \A i \in 1 .. Len(plan) : /\ plan[i] \in Mutations /\ plan[i].target \in Targets
                                        /\ plan[i].kind = "caddy" => plan[i].target \in Provided
<1>1. plan \in Seq(Mutations) /\ plan # <<>>
      /\ \A i \in DOMAIN plan : plan[i].kind = "caddy" => plan[i].target \in Provided
  BY WizardAssumption
<1>2. Len(plan) \in Nat /\ DOMAIN plan = 1 .. Len(plan) /\ Len(plan) # 0
  BY <1>1, LenProperties, EmptySeq
<1>3. \A i \in 1 .. Len(plan) : plan[i] \in Mutations
  BY <1>1, ElementOfSeq
<1> QED BY <1>1, <1>2, <1>3 DEF Mutations

\* What a sequence of entries is.
LEMMA EntryFacts ==
    ASSUME NEW q \in Seq(Entries)
    PROVE  /\ Len(q) \in Nat /\ DOMAIN q = 1 .. Len(q)
           /\ \A k \in 1 .. Len(q) : /\ q[k] \in Entries /\ q[k].m \in Mutations
                                     /\ q[k].m.target \in Targets /\ q[k].pre \in SUBSET Names
<1>1. Len(q) \in Nat /\ DOMAIN q = 1 .. Len(q)
  BY LenProperties
<1>2. \A k \in 1 .. Len(q) : q[k] \in Entries
  BY ElementOfSeq
<1> QED BY <1>1, <1>2 DEF Entries, Mutations

\* One more entry.
LEMMA AppendEntry ==
    ASSUME NEW q \in Seq(Entries), NEW e \in Entries
    PROVE  /\ Append(q, e) \in Seq(Entries) /\ Len(Append(q, e)) = Len(q) + 1
           /\ \A k \in 1 .. Len(q) : Append(q, e)[k] = q[k]
           /\ Append(q, e)[Len(q) + 1] = e
BY AppendProperties

\* The last entry taken off.
LEMMA RemoveLast ==
    ASSUME NEW q \in Seq(Entries), q # <<>>
    PROVE  /\ RemoveAt(q, Len(q)) \in Seq(Entries) /\ Len(RemoveAt(q, Len(q))) = Len(q) - 1
           /\ Len(q) \in Nat \ {0}
           /\ \A k \in 1 .. Len(q) - 1 : RemoveAt(q, Len(q))[k] = q[k]
<1> DEFINE n == Len(q)
           front == SubSeq(q, 1, n - 1)
           back == SubSeq(q, n + 1, n)
<1>1. n \in Nat \ {0}
  BY LenProperties, EmptySeq
<1>2. front \in Seq(Entries) /\ Len(front) = n - 1 /\ \A k \in 1 .. n - 1 : front[k] = q[k]
  <2>1. 1 \in 1 .. n + 1 /\ n - 1 \in 1 - 1 .. n /\ n - 1 \in 0 .. n
    BY <1>1
  <2>2. SubSeq(q, 1, n - 1) \in Seq(Entries) /\ DOMAIN q = 1 .. n
    BY <1>1, SubSeqProperties, LenProperties
  <2>3. CASE n = 1
    <3>1. front \in Seq(Entries) /\ Len(front) = 0
      BY <2>3, SubSeqProperties, LenProperties
    <3> QED BY <3>1, <2>3
  <2>4. CASE n > 1
    BY <2>4, <1>1, <2>2, SubSeqProperties
  <2> QED BY <1>1, <2>3, <2>4
<1>3. back = <<>>
  BY <1>1, SubSeqProperties, EmptySeq
<1>4. RemoveAt(q, n) = front \o <<>>
  BY <1>3 DEF RemoveAt
<1>5. front \o <<>> = front
  BY <1>2, ConcatEmptySeq
<1> QED BY <1>1, <1>2, <1>4, <1>5

\* An apply that has not begun.
LEMMA NotApplyingTyped ==
    /\ NotApplying \in Applies /\ NotApplying.at = "off" /\ NotApplying.i = 1
    /\ NotApplying.done = <<>> /\ NotApplying.status = "committed"
BY EmptySeq DEF NotApplying, Applies

----------------------------------------------------------------------------
(* Steps.                                                                  *)

\* What the invariant says of an apply and of the journal.
LEMMA ApplyFacts ==
    ASSUME WizInv, NEW w \in Wizards
    PROVE  /\ apply[w] \in Applies /\ apply[w].at \in Busy \cup {"off", "lock"}
           /\ apply[w].done \in Seq(Entries) /\ journal.entries \in Seq(Entries)
           /\ journal.there \in BOOLEAN /\ doctor.running \in BOOLEAN /\ doctor.left \in Seq(Entries)
           /\ host \in [Targets -> SUBSET Names] /\ base \in [Targets -> SUBSET Names]
           /\ w # NoOne
           /\ apply[w].at # "off" => apply[w].plan \in Plans /\ apply[w].i \in 1 .. Len(apply[w].plan)
           /\ apply[w].at \in Busy => /\ lock = w /\ ~doctor.running
                                      /\ \A v \in Wizards \ {w} : apply[v].at \notin Busy
<1>1. /\ apply[w] \in Applies /\ journal \in [there : BOOLEAN, entries : Seq(Entries)]
      /\ doctor \in [running : BOOLEAN, left : Seq(Entries)] /\ w # NoOne
      /\ host \in [Targets -> SUBSET Names] /\ base \in [Targets -> SUBSET Names]
  BY WizardAssumption DEF WizInv, WizTypeOK
<1>2. apply[w].at \in Busy \cup {"off", "lock"} /\ apply[w].done \in Seq(Entries)
  BY <1>1, SMTT(30) DEF Applies
<1>3. apply[w].at # "off" => apply[w].plan \in Plans /\ apply[w].i \in 1 .. Len(apply[w].plan)
  BY DEF WizInv, ApplySound
<1>4. apply[w].at \in Busy => /\ lock = w /\ ~doctor.running
                              /\ \A v \in Wizards \ {w} : apply[v].at \notin Busy
  BY <1>1 DEF WizInv, Locked
<1> QED BY <1>1, <1>2, <1>3, <1>4

\* A step that changes one process's apply and nothing it shares with the others.
LEMMA LocalStep ==
    ASSUME WizInv, NEW w \in Wizards, NEW a \in Applies, Put(w, a),
           UNCHANGED <<host, journal, doctor, base>>, lock' \in Wizards \cup {NoOne},
           Locked', ApplySound(w)', a.at \in Busy \ {"receipt"} => journal.there
    PROVE  WizInv'
<1>1. /\ apply' \in [Wizards -> Applies] /\ apply'[w] = a
      /\ \A v \in Wizards \ {w} : apply'[v] = apply[v]
  BY DEF Put, WizInv, WizTypeOK
<1>2. WizTypeOK'
  BY <1>1 DEF WizInv, WizTypeOK
<1>3. Journalled'
  BY <1>1 DEF WizInv, Journalled
<1>4. PreImages' /\ DoctorSound'
  BY DEF WizInv, PreImages, DoctorSound, Untouched, NoFileOf, FilesUndoneTo, Prefix
<1>5. ASSUME NEW v \in Wizards \ {w} PROVE ApplySound(v)'
  <2>1. ApplySound(v)
    BY DEF WizInv
  <2>2. apply'[v] = apply[v] /\ journal' = journal /\ host' = host /\ base' = base
    BY <1>1
  <2>3. \A plan, n : InPlace(plan, n)' <=> InPlace(plan, n)
    BY <2>2 DEF InPlace
  <2>4. \A n : UndoneTo(n)' <=> UndoneTo(n)
    BY <2>2 DEF UndoneTo
  <2> QED BY <2>1, <2>2, <2>3, <2>4 DEF ApplySound, Prefix
<1> QED BY <1>2, <1>3, <1>4, <1>5 DEF WizInv

\* The processes without the lock are beside the files and the journal.
LEMMA OthersSound ==
    ASSUME WizInv, NEW v \in Wizards, apply[v].at \notin Busy, apply'[v] = apply[v]
    PROVE  ApplySound(v)'
<1>1. ApplySound(v) /\ apply[v].at \in {"off", "lock"}
  BY ApplyFacts DEF WizInv
<1> QED BY <1>1 DEF ApplySound, Busy

\* drive_wizard() and wizard_lock().
LEMMA ConfirmStep ==
    ASSUME WizInv, NEW w \in Wizards,
           (\E plan \in Plans : Confirm(w, plan)) \/ LockTimesOut(w)
    PROVE  WizInv'
<1>1. apply[w].at \notin Busy
  BY DEF Confirm, LockTimesOut, Busy
<1>2. ASSUME NEW plan \in Plans, Confirm(w, plan) PROVE WizInv'
  <2> DEFINE a == [NotApplying EXCEPT !.at = "lock", !.plan = plan]
  <2>1. Put(w, a) /\ UNCHANGED <<host, lock, journal, doctor, base>>
    BY <1>2 DEF Confirm
  <2>2. a \in Applies
    BY NotApplyingTyped DEF Applies
  <2>3. apply'[w] = a /\ \A v \in Wizards \ {w} : apply'[v] = apply[v]
    BY <2>1 DEF Put, WizInv, WizTypeOK
  <2>4. Locked'
    BY <1>1, <2>1, <2>3 DEF WizInv, Locked, Busy, NotApplying
  <2>5. ApplySound(w)'
    BY <2>3, PlanFacts DEF ApplySound, NotApplying
  <2>6. lock' \in Wizards \cup {NoOne}
    BY <2>1 DEF WizInv, WizTypeOK
  <2> QED BY <2>1, <2>2, <2>4, <2>5, <2>6, LocalStep DEF NotApplying, Busy
<1>3. CASE LockTimesOut(w)
  <2>1. Put(w, NotApplying) /\ UNCHANGED <<host, lock, journal, doctor, base>>
    BY <1>3 DEF LockTimesOut
  <2>2. NotApplying \in Applies
    BY EmptySeq DEF NotApplying, Applies
  <2>3. apply'[w] = NotApplying /\ \A v \in Wizards \ {w} : apply'[v] = apply[v]
    BY <2>1 DEF Put, WizInv, WizTypeOK
  <2>4. Locked'
    BY <1>1, <2>1, <2>3 DEF WizInv, Locked, Busy, NotApplying
  <2>5. ApplySound(w)'
    BY <2>3 DEF ApplySound, NotApplying
  <2>6. lock' \in Wizards \cup {NoOne}
    BY <2>1 DEF WizInv, WizTypeOK
  <2> QED BY <2>1, <2>2, <2>4, <2>5, <2>6, LocalStep DEF NotApplying, Busy
<1> QED BY <1>2, <1>3

\* apply_plan() begins, over no journal and beside no recovery.
LEMMA BeginStep ==
    ASSUME WizInv, NEW w \in Wizards, Begin(w), ~careless'
    PROVE  WizInv'
<1> DEFINE a == [apply[w] EXCEPT !.at = "record"]
<1>1. /\ apply[w].at = "lock" /\ lock = NoOne /\ lock' = w /\ Put(w, a)
      /\ journal' = [there |-> TRUE, entries |-> <<>>] /\ UNCHANGED <<host, doctor, base>>
      /\ ~journal.there /\ ~doctor.running
  BY DEF Begin, LockFree, Flush
<1>2. journal.entries = <<>> /\ journal'.entries = journal.entries /\ journal'.there
  BY <1>1 DEF WizInv, Journalled
<1>3. apply[w] = [NotApplying EXCEPT !.at = "lock", !.plan = apply[w].plan] /\ apply[w].plan \in Plans
  BY <1>1 DEF WizInv, ApplySound
<1>4. /\ a \in Applies /\ a.at = "record" /\ a.plan = apply[w].plan /\ a.i = 1 /\ a.done = <<>>
      /\ a.status = "committed"
  <2>1. apply[w].i = 1 /\ apply[w].done = <<>> /\ apply[w].status = "committed" /\ apply[w] \in Applies
    BY <1>3, NotApplyingTyped, ApplyFacts DEF Applies
  <2> QED BY <2>1 DEF Applies, Busy
<1> HIDE DEF a
<1>5. /\ apply' \in [Wizards -> Applies] /\ apply'[w] = a
      /\ \A v \in Wizards \ {w} : apply'[v] = apply[v]
  BY <1>1, <1>4 DEF Put, WizInv, WizTypeOK
<1>6. WizTypeOK'
  BY <1>1, <1>5, EmptySeq DEF WizInv, WizTypeOK
<1>7. \A v \in Wizards : apply[v].at \notin Busy
  BY <1>1, ApplyFacts
<1>8. Locked'
  BY <1>1, <1>4, <1>5, <1>7, ApplyFacts DEF Locked, Busy
<1>9. Journalled' /\ PreImages' /\ DoctorSound'
  BY <1>1, <1>2 DEF WizInv, Journalled, PreImages, DoctorSound, Untouched, NoFileOf
<1>10. ApplySound(w)'
  <2>1. Len(<<>>) = 0 /\ DOMAIN <<>> = {} /\ Len(a.plan) \in Nat \ {0}
    BY <1>3, <1>4, PlanFacts, EmptySeq
  <2>2. \A plan : InPlace(plan, 0)'
    BY DEF InPlace
  <2>3. 1 \in 1 .. Len(a.plan) /\ 1 - 1 = 0
    BY <2>1
  <2> QED BY <1>2, <1>3, <1>4, <1>5, <2>1, <2>2, <2>3 DEF ApplySound
<1>11. \A v \in Wizards \ {w} : ApplySound(v)'
  BY <1>5, <1>7, OthersSound
<1> QED BY <1>6, <1>8, <1>9, <1>10, <1>11 DEF WizInv

\* A step of the apply that holds the lock.
LEMMA BusyStep ==
    ASSUME WizInv, NEW w \in Wizards, apply[w].at \in Busy,
           NEW a \in Applies, a.at \in Busy, Put(w, a), UNCHANGED <<lock, doctor>>,
           host' \in [Targets -> SUBSET Names], base' \in [Targets -> SUBSET Names],
           journal' \in [there : BOOLEAN, entries : Seq(Entries)],
           ~journal'.there => journal'.entries = <<>>, a.at # "receipt" => journal'.there,
           \A k \in DOMAIN journal'.entries :
              journal'.entries[k].m.kind = "caddy" => journal'.entries[k].m.target \in Provided,
           PreImages', ApplySound(w)'
    PROVE  WizInv'
<1>1. /\ apply' \in [Wizards -> Applies] /\ apply'[w] = a
      /\ \A v \in Wizards \ {w} : apply'[v] = apply[v]
  BY DEF Put, WizInv, WizTypeOK
<1>2. lock = w /\ ~doctor.running /\ \A v \in Wizards \ {w} : apply[v].at \notin Busy
  BY ApplyFacts
<1>3. WizTypeOK'
  BY <1>1 DEF WizInv, WizTypeOK
<1>4. Locked'
  BY <1>1, <1>2 DEF Locked
<1>5. Journalled'
  BY <1>1, <1>2 DEF Journalled
<1>6. DoctorSound'
  BY <1>2 DEF WizInv, DoctorSound
<1>7. \A v \in Wizards \ {w} : ApplySound(v)'
  BY <1>1, <1>2, OthersSound
<1> QED BY <1>3, <1>4, <1>5, <1>6, <1>7 DEF WizInv

\* A pre-image is recorded before its target is first written.
LEMMA AppendPre ==
    ASSUME WizInv, NEW m \in Mutations, host' = host, base' = base, journal.entries \in Seq(Entries),
           [m |-> m, pre |-> host[m.target]] \in Entries,
           journal'.entries = Append(journal.entries, [m |-> m, pre |-> host[m.target]])
    PROVE  PreImages'
<1> DEFINE q == journal.entries
           n == Len(q)
           e == [m |-> m, pre |-> host[m.target]]
           r == Append(q, e)
<1>1. /\ n \in Nat /\ DOMAIN q = 1 .. n /\ DOMAIN r = 1 .. n + 1 /\ Len(r) = n + 1
      /\ \A k \in 1 .. n : r[k] = q[k] /\ r[n + 1] = e
      /\ r[n + 1] = e /\ e.m = m /\ e.pre = host[m.target]
  BY AppendEntry, EntryFacts
<1>2. journal'.entries = r
  OBVIOUS
<1>3. /\ \A t \in Targets, k \in 1 .. n : q[k].m.target = t /\ Untouched(q, k - 1, t) => q[k].pre = base[t]
      /\ \A t \in Targets : Untouched(q, n, t) => host[t] = base[t]
      /\ \A t \in Targets \ Provided, k \in 1 .. n :
            q[k].m.target = t /\ NoFileOf(q, k - 1, t) => q[k].pre = base[t]
      /\ \A t \in Targets \ Provided : NoFileOf(q, n, t) => host[t] = base[t]
  BY <1>1 DEF WizInv, PreImages
<1> HIDE DEF q, n, e, r
<1>4. \A t, k : k \in 1 .. n + 1 =>
          /\ Untouched(r, k - 1, t) <=> Untouched(q, k - 1, t)
          /\ NoFileOf(r, k - 1, t) <=> NoFileOf(q, k - 1, t)
  BY <1>1 DEF Untouched, NoFileOf
<1>5. \A t : /\ Untouched(r, n + 1, t) => Untouched(q, n, t)
             /\ NoFileOf(r, n + 1, t) => NoFileOf(q, n, t)
  BY <1>1 DEF Untouched, NoFileOf
<1>6. ASSUME NEW t \in Targets, NEW k \in 1 .. n + 1, r[k].m.target = t
      PROVE  /\ Untouched(r, k - 1, t) => r[k].pre = base[t]
             /\ t \notin Provided /\ NoFileOf(r, k - 1, t) => r[k].pre = base[t]
  <2>1. CASE k \in 1 .. n
    <3>1. r[k] = q[k] /\ q[k].m.target = t
      BY <2>1, <1>1, <1>6
    <3>2. /\ Untouched(r, k - 1, t) => Untouched(q, k - 1, t)
          /\ NoFileOf(r, k - 1, t) => NoFileOf(q, k - 1, t)
      BY <1>4
    <3> QED BY <2>1, <3>1, <3>2, <1>3
  <2>2. CASE k = n + 1
    <3>1. k - 1 = n /\ r[k].pre = host[t]
      BY <2>2, <1>1, <1>6
    <3> QED BY <3>1, <1>3, <1>4
  <2> QED BY <2>1, <2>2, <1>1
<1>7. \A t \in Targets : Untouched(r, n + 1, t) => host[t] = base[t]
  BY <1>3, <1>5
<1>8. \A t \in Targets \ Provided : NoFileOf(r, n + 1, t) => host[t] = base[t]
  BY <1>3, <1>5
<1> QED BY <1>1, <1>2, <1>6, <1>7, <1>8, ZenonT(60) DEF PreImages, Untouched, NoFileOf

\* A target with an entry is written or restored.
LEMMA HostPre ==
    ASSUME WizInv, NEW k \in DOMAIN journal.entries, NEW x, base' = base,
           journal'.entries = journal.entries, journal.entries[k].m.target \in Targets,
           host' = [host EXCEPT ![journal.entries[k].m.target] = x],
           journal.entries[k].m.target \notin Provided
           /\ NoFileOf(journal.entries, Len(journal.entries), journal.entries[k].m.target)
              => x = base[journal.entries[k].m.target]
    PROVE  PreImages'
<1> DEFINE q == journal.entries
           u == q[k].m.target
<1>1. k \in 1 .. Len(q) /\ Len(q) \in Nat /\ host \in [Targets -> SUBSET Names]
  BY EntryFacts DEF WizInv, WizTypeOK
<1>2. host'[u] = x /\ \A t \in Targets \ {u} : host'[t] = host[t]
  BY <1>1
<1>3. ~Untouched(q, Len(q), u)
  BY <1>1 DEF Untouched
<1> HIDE DEF q, u
<1>4. \A t \in Targets : Untouched(q, Len(q), t) => host'[t] = base[t]
  BY <1>2, <1>3 DEF WizInv, PreImages, q
<1>5. \A t \in Targets \ Provided : NoFileOf(q, Len(q), t) => host'[t] = base[t]
  <2>1. u \notin Provided /\ NoFileOf(q, Len(q), u) => x = base[u]
    BY DEF q, u
  <2> QED BY <1>2, <2>1 DEF WizInv, PreImages, q
<1> QED BY <1>4, <1>5 DEF WizInv, PreImages, q, Untouched, NoFileOf

\* An entry put back is the pre-image of a file, or of something nothing wrote.
LEMMA RestorePre ==
    ASSUME WizInv, NEW k \in DOMAIN journal.entries, base' = base,
           journal'.entries = journal.entries,
           host' = [host EXCEPT ![journal.entries[k].m.target] = journal.entries[k].pre]
    PROVE  PreImages' /\ host' \in [Targets -> SUBSET Names]
<1> DEFINE q == journal.entries
           u == q[k].m.target
<1>1. /\ k \in 1 .. Len(q) /\ Len(q) \in Nat /\ u \in Targets /\ q[k].pre \in SUBSET Names
      /\ host \in [Targets -> SUBSET Names] /\ DOMAIN q = 1 .. Len(q)
  BY EntryFacts DEF WizInv, WizTypeOK
<1>2. u \notin Provided /\ NoFileOf(q, Len(q), u) => q[k].pre = base[u]
  <2>1. NoFileOf(q, Len(q), u) => NoFileOf(q, k - 1, u)
    BY <1>1 DEF NoFileOf
  <2> QED BY <1>1, <2>1 DEF WizInv, PreImages
<1>3. host' \in [Targets -> SUBSET Names]
  BY <1>1
<1> QED BY <1>1, <1>2, <1>3, HostPre

Working == {"record", "forward", "verify", "post"}

\* What the invariant says of an apply that goes forward.
LEMMA WorkFacts ==
    ASSUME WizInv, NEW w \in Wizards, apply[w].at \in Working
    PROVE  LET a == apply[w] IN
           /\ a.at \in Busy /\ a.status = "committed" /\ a.done = journal.entries
           /\ a.plan \in Plans /\ a.i \in 1 .. Len(a.plan) /\ Len(a.plan) \in Nat /\ a.i \in Nat
           /\ journal.there
           /\ Len(a.done) = IF a.at = "record" THEN a.i - 1 ELSE a.i
           /\ \A k \in DOMAIN a.done : a.done[k].m = a.plan[k]
           /\ InPlace(a.plan, IF a.at \in {"record", "forward"} THEN a.i - 1 ELSE a.i)
           /\ a.at = "post" => a.i = Len(a.plan)
           /\ a.plan[a.i] \in Mutations /\ a.plan[a.i].target \in Targets
           /\ a.plan[a.i].kind = "caddy" => a.plan[a.i].target \in Provided
<1>1. apply[w].at \in Busy \ {"receipt"} /\ apply[w].at # "off"
  BY DEF Working, Busy
<1>2. ApplySound(w) /\ journal.there /\ apply[w].plan \in Plans
  BY <1>1, ApplyFacts DEF WizInv, Journalled
<1>3. Len(apply[w].plan) \in Nat
  BY <1>2, PlanFacts
<1>4. apply[w].i \in 1 .. Len(apply[w].plan) /\ apply[w].i \in Nat
  BY <1>1, <1>3, ApplyFacts
<1>5. LET a == apply[w] IN
      /\ a.plan[a.i] \in Mutations /\ a.plan[a.i].target \in Targets
      /\ a.plan[a.i].kind = "caddy" => a.plan[a.i].target \in Provided
  BY <1>2, <1>4, PlanFacts
<1> QED BY <1>1, <1>2, <1>3, <1>4, <1>5 DEF ApplySound, Working

\* An apply that turns to its roll back has every entry of the journal to undo.
LEMMA RollbackSound ==
    ASSUME WizInv, NEW w \in Wizards, apply[w].at \in Working, Put(w, Rollback(apply[w])),
           journal' = journal
    PROVE  /\ ApplySound(w)' /\ Rollback(apply[w]) \in Applies
           /\ Rollback(apply[w]).at = "undo" /\ "undo" \in Busy
<1> DEFINE a == Rollback(apply[w])
<1>1. /\ a \in Applies /\ a.at = "undo" /\ a.status = "rolled_back" /\ a.done = apply[w].done
      /\ a.plan = apply[w].plan /\ a.i = apply[w].i
  BY ApplyFacts DEF Rollback, Applies, Busy
<1>2. apply'[w] = a
  BY DEF Put, WizInv, WizTypeOK
<1> HIDE DEF a
<1>3. apply[w].done = journal.entries /\ a.plan \in Plans /\ a.i \in 1 .. Len(a.plan)
  BY <1>1, WorkFacts
<1>4. DOMAIN journal.entries = 1 .. Len(journal.entries) /\ Len(journal.entries) \in Nat
  BY ApplyFacts, EntryFacts
<1>5. UndoneTo(Len(journal.entries))'
  BY <1>4 DEF UndoneTo
<1>6. Prefix(journal.entries, journal.entries)
  BY <1>4 DEF Prefix
<1>7. ApplySound(w)'
  BY <1>1, <1>2, <1>3, <1>5, <1>6 DEF ApplySound, Prefix
<1> QED BY <1>1, <1>7 DEF a, Busy

\* A roll back that begins, whatever the step wrote.
LEMMA RollbackStep ==
    ASSUME WizInv, NEW w \in Wizards, apply[w].at \in Working, Put(w, Rollback(apply[w])),
           UNCHANGED <<lock, journal, doctor, base>>,
           host' \in [Targets -> SUBSET Names], PreImages'
    PROVE  WizInv'
<1>1. /\ journal.there /\ journal \in [there : BOOLEAN, entries : Seq(Entries)]
      /\ base \in [Targets -> SUBSET Names] /\ apply[w].at \in Busy
      /\ \A k \in DOMAIN journal.entries :
            journal.entries[k].m.kind = "caddy" => journal.entries[k].m.target \in Provided
  BY WorkFacts DEF WizInv, WizTypeOK, Journalled
<1> QED BY <1>1, RollbackSound, BusyStep

\* build_step() and the journal entry, before the write.
LEMMA RecordStep ==
    ASSUME WizInv, NEW w \in Wizards, Record(w)
    PROVE  WizInv'
<1> DEFINE m == apply[w].plan[apply[w].i]
           e == [m |-> m, pre |-> host[m.target]]
           q == journal.entries
           a == [apply[w] EXCEPT !.at = "forward", !.done = Append(apply[w].done, e)]
<1>1. apply[w].at = "record" /\ apply[w].at \in Working /\ UNCHANGED <<lock, host, doctor, base>>
  BY DEF Record, Working
<1>2. /\ apply[w].at \in Busy /\ apply[w].status = "committed" /\ apply[w].done = q
      /\ apply[w].plan \in Plans /\ apply[w].i \in 1 .. Len(apply[w].plan) /\ apply[w].i \in Nat
      /\ Len(q) = apply[w].i - 1
      /\ \A k \in DOMAIN q : q[k].m = apply[w].plan[k]
      /\ InPlace(apply[w].plan, apply[w].i - 1)
      /\ m \in Mutations /\ m.target \in Targets
      /\ m.kind = "caddy" => m.target \in Provided
  BY <1>1, WorkFacts
<1>3. /\ q \in Seq(Entries) /\ Len(q) \in Nat /\ DOMAIN q = 1 .. Len(q)
      /\ host \in [Targets -> SUBSET Names] /\ base \in [Targets -> SUBSET Names]
      /\ apply[w] \in Applies
  BY ApplyFacts, EntryFacts
<1>4. CASE Put(w, Rollback(apply[w])) /\ UNCHANGED journal
  <2>1. PreImages'
    BY <1>1, <1>4 DEF WizInv, PreImages, Untouched, NoFileOf
  <2> QED BY <1>1, <1>3, <1>4, <2>1, RollbackStep
<1>5. CASE Flush(Append(apply[w].done, e)) /\ Put(w, a)
  <2>1. e \in Entries
    BY <1>2, <1>3 DEF Entries
  <2> DEFINE r == Append(q, e)
  <2>2. journal' = [there |-> TRUE, entries |-> r]
    BY <1>2, <1>5, SMTT(30) DEF Flush
  <2>3. /\ r \in Seq(Entries) /\ Len(r) = Len(q) + 1 /\ DOMAIN r = 1 .. Len(q) + 1
        /\ \A k \in 1 .. Len(q) : r[k] = q[k]
        /\ r[Len(q) + 1] = e
    <3>1. /\ r \in Seq(Entries) /\ Len(r) = Len(q) + 1
          /\ \A k \in 1 .. Len(q) : r[k] = q[k]
          /\ r[Len(q) + 1] = e
      BY <1>3, <2>1, AppendEntry, SMTT(30)
    <3> QED BY <3>1, EntryFacts
  <2>4. PreImages'
    BY <1>1, <1>2, <1>3, <2>1, <2>2, AppendPre, SMTT(30)
  <2>5. /\ a \in Applies /\ a.at = "forward" /\ a.done = r /\ a.plan = apply[w].plan
        /\ a.i = apply[w].i /\ a.status = "committed"
    BY <1>2, <1>3, <2>3 DEF Applies, Busy
  <2>6. apply'[w] = a
    BY <1>5 DEF Put, WizInv, WizTypeOK
  <2>7. e.m = m
    OBVIOUS
  <2> HIDE DEF a, r, e
  <2>8. \A k \in DOMAIN r : r[k].m = apply[w].plan[k]
    <3>1. Len(q) + 1 = apply[w].i
      BY <1>2, <1>3
    <3> QED BY <1>2, <1>3, <2>3, <2>7, <3>1
  <2>9. InPlace(apply[w].plan, apply[w].i - 1) => \A p, n : p = apply[w].plan /\ n = apply[w].i - 1 => InPlace(p, n)'
    BY <1>1 DEF InPlace
  <2>10. ApplySound(w)'
    <3>1. Len(r) = a.i
      BY <1>2, <1>3, <2>3, <2>5
    <3> QED BY <1>2, <2>2, <2>5, <2>6, <2>8, <2>9, <3>1 DEF ApplySound
  <2>11. \A k \in DOMAIN r : r[k].m.kind = "caddy" => r[k].m.target \in Provided
    <3>1. \A k \in DOMAIN q : q[k].m.kind = "caddy" => q[k].m.target \in Provided
      BY DEF WizInv, Journalled
    <3>2. \A k \in DOMAIN r : k \in DOMAIN q \/ k = Len(q) + 1
      BY <1>3, <2>3
    <3>3. r[Len(q) + 1].m = m
      BY <2>3, <2>7
    <3>4. \A k \in DOMAIN q : r[k] = q[k]
      BY <1>3, <2>3
    <3> HIDE DEF m, q
    <3> QED BY <1>2, <3>1, <3>2, <3>3, <3>4
  <2>12. journal' \in [there : BOOLEAN, entries : Seq(Entries)] /\ journal'.there /\ journal'.entries = r
    BY <2>2, <2>3
  <2> QED BY <1>1, <1>2, <1>3, <1>5, <2>4, <2>5, <2>10, <2>11, <2>12, BusyStep DEF Busy
<1> QED BY <1>4, <1>5 DEF Record

\* step.forward(): the write itself, or a failure on either side of it.
LEMMA ForwardStep ==
    ASSUME WizInv, NEW w \in Wizards, Forward(w)
    PROVE  WizInv'
<1> DEFINE n == apply[w].i
           p == apply[w].plan
           m == p[n]
           u == m.target
           q == journal.entries
<1>1. apply[w].at = "forward" /\ apply[w].at \in Working /\ UNCHANGED <<lock, journal, doctor, base>>
  BY DEF Forward, Working
<1>2. /\ apply[w].at \in Busy /\ apply[w].status = "committed" /\ apply[w].done = q
      /\ p \in Plans /\ n \in 1 .. Len(p) /\ n \in Nat /\ journal.there
      /\ Len(q) = n /\ \A k \in DOMAIN q : q[k].m = p[k]
      /\ InPlace(p, n - 1)
      /\ m \in Mutations /\ u \in Targets
      /\ m.kind = "caddy" => u \in Provided
  BY <1>1, WorkFacts
<1>3. /\ q \in Seq(Entries) /\ DOMAIN q = 1 .. Len(q)
      /\ host \in [Targets -> SUBSET Names] /\ base \in [Targets -> SUBSET Names]
      /\ apply[w] \in Applies /\ journal \in [there : BOOLEAN, entries : Seq(Entries)]
  BY ApplyFacts, EntryFacts DEF WizInv, WizTypeOK
<1>4. n \in DOMAIN q /\ q[n].m = m
  BY <1>2, <1>3
<1>5. PICK written \in BOOLEAN, failed \in BOOLEAN :
          /\ failed \/ written
          /\ host' = IF written THEN [host EXCEPT ![u] = ForwardOf(m, host[u])] ELSE host
          /\ Put(w, IF failed THEN Rollback(apply[w]) ELSE [apply[w] EXCEPT !.at = "verify"])
  BY DEF Forward, AtomicWrite
<1>6. host' \in [Targets -> SUBSET Names] /\ PreImages'
  <2>1. CASE ~written
    BY <1>1, <1>3, <1>5, <2>1 DEF WizInv, PreImages, Untouched, NoFileOf
  <2>2. CASE written
    <3>1. host' = [host EXCEPT ![q[n].m.target] = ForwardOf(m, host[u])]
      BY <1>4, <1>5, <2>2
    <3>2. ForwardOf(m, host[u]) \in SUBSET Names
      BY <1>2, <1>3, BuildFacts
    <3>3. u \notin Provided /\ NoFileOf(q, Len(q), u) => ForwardOf(m, host[u]) = base[u]
      <4> SUFFICES ASSUME u \notin Provided, NoFileOf(q, Len(q), u) PROVE ForwardOf(m, host[u]) = base[u]
        OBVIOUS
      <4>1. ~IsFileKind(m) /\ m.kind # "caddy"
        BY <1>2, <1>3, <1>4 DEF NoFileOf
      <4>2. ForwardOf(m, host[u]) = host[u]
        BY <1>2, <1>3, <4>1, BuildFacts
      <4>3. host[u] = base[u]
        BY <1>2 DEF WizInv, PreImages
      <4> QED BY <4>2, <4>3
    <3>4. host' \in [Targets -> SUBSET Names]
      BY <1>2, <1>3, <3>1, <3>2
    <3> HIDE DEF m
    <3> QED BY <1>1, <1>2, <1>4, <3>1, <3>3, <3>4, HostPre
  <2> QED BY <2>1, <2>2
<1>7. CASE failed
  BY <1>1, <1>5, <1>6, <1>7, RollbackStep
<1>8. CASE ~failed
  <2> DEFINE a == [apply[w] EXCEPT !.at = "verify"]
  <2>1. /\ Put(w, a) /\ host' = [host EXCEPT ![u] = ForwardOf(m, host[u])]
    BY <1>5, <1>8
  <2>2. /\ a \in Applies /\ a.at = "verify" /\ a.done = q /\ a.plan = p /\ a.i = n /\ a.status = "committed"
    BY <1>2, <1>3 DEF Applies, Busy
  <2>3. apply'[w] = a
    BY <2>1 DEF Put, WizInv, WizTypeOK
  <2>4. /\ host'[u] = ForwardOf(m, host[u]) /\ ForwardOf(m, host'[u]) = host'[u]
        /\ \A t \in Targets \ {u} : host'[t] = host[t]
    BY <1>2, <1>3, <2>1, BuildFacts
  <2> HIDE DEF a
  <2>5. ASSUME NEW i \in 1 .. n
        PROVE  \/ ForwardOf(p[i], host'[p[i].target]) = host'[p[i].target]
               \/ \E j \in i + 1 .. n : p[j].target = p[i].target
    <3>1. CASE i = n
      BY <2>4, <3>1
    <3>2. CASE i # n /\ p[i].target = u
      <4>1. n \in i + 1 .. n
        BY <1>2, <3>2
      <4> QED BY <4>1, <3>2
    <3>3. CASE i # n /\ p[i].target # u
      <4>1. i \in 1 .. n - 1 /\ i \in 1 .. Len(p)
        BY <1>2, <3>3, PlanFacts
      <4>2. p[i].target \in Targets
        BY <1>2, <4>1, PlanFacts
      <4>3. \/ ForwardOf(p[i], host[p[i].target]) = host[p[i].target]
            \/ \E j \in i + 1 .. n - 1 : p[j].target = p[i].target
        BY <1>2, <4>1 DEF InPlace
      <4>4. \A j \in i + 1 .. n - 1 : j \in i + 1 .. n
        BY <1>2
      <4> QED BY <2>4, <3>3, <4>2, <4>3, <4>4
    <3> QED BY <3>1, <3>2, <3>3
  <2>6. \A pp, nn : pp = p /\ nn = n => InPlace(pp, nn)'
    BY <2>5 DEF InPlace
  <2>7. ApplySound(w)'
    BY <1>1, <1>2, <2>2, <2>3, <2>6 DEF ApplySound
  <2>8. \A k \in DOMAIN q : q[k].m.kind = "caddy" => q[k].m.target \in Provided
    BY DEF WizInv, Journalled
  <2> QED BY <1>1, <1>2, <1>3, <1>6, <2>1, <2>2, <2>7, <2>8, BusyStep DEF Busy
<1> QED BY <1>7, <1>8

\* A step of the apply that leaves the files and the journal alone and keeps the lock.
LEMMA ThinkStep ==
    ASSUME WizInv, NEW w \in Wizards, apply[w].at \in Busy \ {"receipt"},
           NEW a \in Applies, a.at \in Busy, Put(w, a),
           UNCHANGED <<lock, host, journal, doctor, base>>, ApplySound(w)'
    PROVE  WizInv'
<1>1. /\ journal.there /\ journal \in [there : BOOLEAN, entries : Seq(Entries)]
      /\ host \in [Targets -> SUBSET Names] /\ base \in [Targets -> SUBSET Names]
      /\ \A k \in DOMAIN journal.entries :
            journal.entries[k].m.kind = "caddy" => journal.entries[k].m.target \in Provided
  BY DEF WizInv, WizTypeOK, Journalled
<1>2. PreImages'
  BY DEF WizInv, PreImages, Untouched, NoFileOf
<1> QED BY <1>1, <1>2, BusyStep

\* step.verify() and _post_apply_checks().
LEMMA VerifyStep ==
    ASSUME WizInv, NEW w \in Wizards, Verify(w) \/ PostApplyChecks(w)
    PROVE  WizInv'
<1> DEFINE n == apply[w].i
           p == apply[w].plan
           q == journal.entries
<1>1. /\ apply[w].at \in {"verify", "post"} /\ apply[w].at \in Working
      /\ UNCHANGED <<lock, host, journal, doctor, base>>
  BY DEF Verify, PostApplyChecks, Working
<1>2. /\ apply[w].at \in Busy \ {"receipt"} /\ apply[w].status = "committed" /\ apply[w].done = q
      /\ p \in Plans /\ n \in 1 .. Len(p) /\ n \in Nat /\ Len(p) \in Nat
      /\ Len(q) = n /\ \A k \in DOMAIN q : q[k].m = p[k]
      /\ InPlace(p, n)
      /\ apply[w].at = "post" => n = Len(p)
  BY <1>1, WorkFacts
<1>3. apply[w] \in Applies /\ host \in [Targets -> SUBSET Names]
  BY ApplyFacts
<1>4. \A pp, nn : pp = p /\ nn = n => InPlace(pp, nn)'
  <2>1. \A pp, nn : InPlace(pp, nn) => InPlace(pp, nn)'
    BY <1>1 DEF InPlace
  <2> QED BY <1>2, <2>1
<1>5. CASE Put(w, Rollback(apply[w]))
  <2>1. PreImages'
    BY <1>1 DEF WizInv, PreImages, Untouched, NoFileOf
  <2> QED BY <1>1, <1>3, <1>5, <2>1, RollbackStep
<1>6. CASE n < Len(p) /\ Put(w, [apply[w] EXCEPT !.at = "record", !.i = n + 1])
  <2> DEFINE a == [apply[w] EXCEPT !.at = "record", !.i = n + 1]
  <2>1. /\ a \in Applies /\ a.at = "record" /\ a.done = q /\ a.plan = p /\ a.i = n + 1 /\ a.status = "committed"
    <3>1. PICK x \in Nat \ {0} : x = n + 1
      BY <1>2
    <3>2. a = [apply[w] EXCEPT !.at = "record", !.i = x]
      BY <3>1
    <3> HIDE DEF a
    <3> QED BY <1>2, <1>3, <3>1, <3>2 DEF Applies, Busy
  <2>2. apply'[w] = a
    BY <1>6 DEF Put, WizInv, WizTypeOK
  <2> HIDE DEF a
  <2>3. n + 1 \in 1 .. Len(p) /\ (n + 1) - 1 = n
    BY <1>2, <1>6
  <2>4. ApplySound(w)'
    BY <1>1, <1>2, <1>4, <2>1, <2>2, <2>3 DEF ApplySound
  <2> QED BY <1>1, <1>2, <1>6, <2>1, <2>4, ThinkStep DEF a, Busy
<1>7. CASE apply[w].at = "verify" /\ n >= Len(p) /\ Put(w, [apply[w] EXCEPT !.at = "post"])
  <2> DEFINE a == [apply[w] EXCEPT !.at = "post"]
  <2>1. /\ a \in Applies /\ a.at = "post" /\ a.done = q /\ a.plan = p /\ a.i = n /\ a.status = "committed"
    BY <1>2, <1>3 DEF Applies, Busy
  <2>2. apply'[w] = a
    BY <1>7 DEF Put, WizInv, WizTypeOK
  <2> HIDE DEF a
  <2>3. n = Len(p)
    BY <1>2, <1>7
  <2>4. ApplySound(w)'
    BY <1>1, <1>2, <1>4, <2>1, <2>2, <2>3 DEF ApplySound
  <2> QED BY <1>1, <1>2, <1>7, <2>1, <2>4, ThinkStep DEF a, Busy
<1>8. CASE apply[w].at = "post" /\ Put(w, [apply[w] EXCEPT !.at = "finish"])
  <2> DEFINE a == [apply[w] EXCEPT !.at = "finish"]
  <2>1. /\ a \in Applies /\ a.at = "finish" /\ a.plan = p /\ a.i = n /\ a.status = "committed"
    BY <1>2, <1>3 DEF Applies, Busy
  <2>2. apply'[w] = a
    BY <1>8 DEF Put, WizInv, WizTypeOK
  <2> HIDE DEF a
  <2>3. n = Len(p)
    BY <1>2, <1>8
  <2>4. \A pp, nn : pp = p /\ nn = Len(p) => InPlace(pp, nn)'
    BY <1>4, <2>3
  <2>5. ApplySound(w)'
    BY <1>1, <1>2, <2>1, <2>2, <2>4 DEF ApplySound
  <2> QED BY <1>1, <1>2, <1>8, <2>1, <2>5, ThinkStep DEF a, Busy
<1> QED BY <1>2, <1>5, <1>6, <1>7, <1>8 DEF Verify, PostApplyChecks

\* One turn of _rollback(): the last entry is put back.
LEMMA CompensateStep ==
    ASSUME WizInv, NEW w \in Wizards, Compensate(w)
    PROVE  WizInv'
<1> DEFINE d == apply[w].done
           k == Len(d)
           q == journal.entries
           e == d[k]
<1>1. apply[w].at = "undo" /\ d # <<>> /\ UNCHANGED <<lock, journal, doctor, base>>
  BY DEF Compensate
<1>2. PICK restored \in BOOLEAN, failed \in BOOLEAN :
          /\ failed \/ restored
          /\ host' = IF restored THEN [host EXCEPT ![e.m.target] = e.pre] ELSE host
          /\ Put(w, [apply[w] EXCEPT !.done = RemoveAt(d, k),
                                     !.status = IF failed THEN "partial_rollback" ELSE apply[w].status])
  BY DEF Compensate, NextUndo, RestoreOrRemove
<1>3. /\ apply[w] \in Applies /\ d \in Seq(Entries) /\ q \in Seq(Entries)
      /\ host \in [Targets -> SUBSET Names] /\ base \in [Targets -> SUBSET Names]
      /\ journal \in [there : BOOLEAN, entries : Seq(Entries)] /\ journal.there
      /\ apply[w].plan \in Plans /\ apply[w].i \in 1 .. Len(apply[w].plan)
      /\ Prefix(d, q) /\ apply[w].status \in {"rolled_back", "partial_rollback"}
      /\ apply[w].status = "rolled_back" => UndoneTo(k)
  <2>1. /\ apply[w] \in Applies /\ d \in Seq(Entries) /\ q \in Seq(Entries)
        /\ host \in [Targets -> SUBSET Names] /\ base \in [Targets -> SUBSET Names]
        /\ apply[w].plan \in Plans /\ apply[w].i \in 1 .. Len(apply[w].plan)
    BY <1>1, ApplyFacts
  <2>2. journal \in [there : BOOLEAN, entries : Seq(Entries)] /\ journal.there
    BY <1>1, SMTT(30) DEF WizInv, WizTypeOK, Journalled, Busy
  <2>3. Prefix(d, q) /\ apply[w].status # "committed" /\ (apply[w].status = "rolled_back" => UndoneTo(k))
    BY <1>1 DEF WizInv, ApplySound
  <2> QED BY <2>1, <2>2, <2>3 DEF Applies
<1>4. /\ RemoveAt(d, k) \in Seq(Entries) /\ Len(RemoveAt(d, k)) = k - 1 /\ k \in Nat \ {0}
      /\ \A j \in 1 .. k - 1 : RemoveAt(d, k)[j] = d[j]
  BY <1>1, <1>3, RemoveLast
<1>5. Len(q) \in Nat /\ DOMAIN q = 1 .. Len(q) /\ k =< Len(q) /\ k \in DOMAIN q /\ e = q[k]
  <2>1. Len(q) \in Nat /\ DOMAIN q = 1 .. Len(q)
    BY <1>3, EntryFacts
  <2>2. k =< Len(q) /\ \A j \in 1 .. k : d[j] = q[j]
    BY <1>3 DEF Prefix
  <2>3. k \in 1 .. k /\ k \in 1 .. Len(q)
    BY <1>4, <2>1, <2>2
  <2> QED BY <2>1, <2>2, <2>3
<1>6. host' \in [Targets -> SUBSET Names] /\ PreImages'
  <2>1. CASE ~restored
    BY <1>1, <1>2, <1>3, <2>1 DEF WizInv, PreImages, Untouched, NoFileOf
  <2>2. CASE restored
    <3>1. host' = [host EXCEPT ![q[k].m.target] = q[k].pre]
      BY <1>2, <1>5, <2>2
    <3> HIDE DEF k
    <3> QED BY <1>1, <1>5, <3>1, RestorePre
  <2> QED BY <2>1, <2>2
<1> DEFINE st == IF failed THEN "partial_rollback" ELSE apply[w].status
           a == [apply[w] EXCEPT !.done = RemoveAt(d, k), !.status = st]
<1>7. /\ a \in Applies /\ a.at = "undo" /\ a.done = RemoveAt(d, k) /\ a.plan = apply[w].plan
      /\ a.i = apply[w].i /\ a.status = st /\ st \in {"rolled_back", "partial_rollback"}
      /\ st = "rolled_back" => apply[w].status = "rolled_back" /\ restored
  BY <1>1, <1>2, <1>3, <1>4 DEF Applies
<1>8. Put(w, a) /\ apply'[w] = a
  BY <1>2 DEF Put, WizInv, WizTypeOK
<1> HIDE DEF a, st
<1>9. ASSUME st = "rolled_back" PROVE \A x : x = k - 1 => UndoneTo(x)'
  <2>1. UndoneTo(k) /\ host' = [host EXCEPT ![q[k].m.target] = q[k].pre]
    BY <1>2, <1>3, <1>5, <1>7, <1>9
  <2>2. q[k].m.target \in Targets /\ \A j \in DOMAIN q : q[j].m.target \in Targets
    BY <1>3, <1>5, EntryFacts
  <2>3. /\ host'[q[k].m.target] = q[k].pre
        /\ \A t \in Targets : t # q[k].m.target => host'[t] = host[t]
    BY <1>3, <2>1, <2>2
  <2> HIDE DEF k, q
  <2>4. ASSUME NEW j \in DOMAIN q, j > k - 1,
               \A l \in (k - 1) + 1 .. j - 1 : q[l].m.target # q[j].m.target
        PROVE  host'[q[j].m.target] = q[j].pre
    <3>1. CASE j = k
      BY <2>3, <3>1
    <3>2. CASE j # k
      <4>1. j > k /\ k \in (k - 1) + 1 .. j - 1
        BY <1>4, <1>5, <2>4, <3>2
      <4>2. q[k].m.target # q[j].m.target
        BY <2>4, <4>1
      <4>3. \A l \in k + 1 .. j - 1 : l \in (k - 1) + 1 .. j - 1
        BY <1>4, <1>5
      <4>4. host[q[j].m.target] = q[j].pre
        BY <2>1, <2>4, <4>1, <4>3 DEF UndoneTo, q
      <4> QED BY <2>2, <2>3, <4>2, <4>4
    <3> QED BY <3>1, <3>2
  <2> QED BY <1>1, <2>4 DEF UndoneTo, q
<1>10. Prefix(RemoveAt(d, k), q)
  BY <1>3, <1>4, <1>5 DEF Prefix
<1>11. ApplySound(w)'
  <2>1. apply'[w].at = "undo" /\ Len(apply'[w].done) = k - 1 /\ journal'.entries = q
    BY <1>1, <1>4, <1>7, <1>8
  <2> HIDE DEF k
  <2> QED BY <1>1, <1>3, <1>7, <1>8, <1>9, <1>10, <2>1 DEF ApplySound, Prefix
<1>12. \A j \in DOMAIN q : q[j].m.kind = "caddy" => q[j].m.target \in Provided
  BY DEF WizInv, Journalled
<1> QED BY <1>1, <1>3, <1>6, <1>7, <1>8, <1>11, <1>12, BusyStep DEF Busy


\* A set of positions that is not empty has a first one.
LEMMA FirstOf ==
    ASSUME NEW S, S \subseteq Nat, S # {}
    PROVE  \E x \in S : \A y \in S : x =< y
<1> DEFINE R == OpToRel(<, Nat)
<1>1. PICK x \in S : \A y \in S : ~ (<<y, x>> \in R)
  BY WFMin, NatLessThanWellFounded
<1>2. \A a, b \in Nat : <<b, a>> \in R <=> b < a
  BY DEF OpToRel
<1> HIDE DEF R
<1>3. ASSUME NEW y \in S PROVE x =< y
  <2>1. x \in Nat /\ y \in Nat /\ ~ (y < x)
    BY <1>1, <1>2
  <2> QED BY <2>1
<1> QED BY <1>1, <1>3

\* With every entry undone the host is what it was.
LEMMA AllUndone ==
    ASSUME WizInv, UndoneTo(0)
    PROVE  host = base
<1> DEFINE q == journal.entries
<1>1. /\ q \in Seq(Entries) /\ Len(q) \in Nat /\ DOMAIN q = 1 .. Len(q)
      /\ host \in [Targets -> SUBSET Names] /\ base \in [Targets -> SUBSET Names]
  BY EntryFacts DEF WizInv, WizTypeOK
<1>2. ASSUME NEW t \in Targets PROVE host[t] = base[t]
  <2> DEFINE S == {k \in 1 .. Len(q) : q[k].m.target = t}
  <2>1. CASE S = {}
    <3>1. Untouched(q, Len(q), t)
      BY <2>1 DEF Untouched
    <3> QED BY <3>1 DEF WizInv, PreImages
  <2>2. CASE S # {}
    <3>1. PICK k \in S : \A j \in S : k =< j
      <4>1. S \subseteq Nat
        BY <1>1
      <4> HIDE DEF S
      <4> QED BY <2>2, <4>1, FirstOf
    <3>2. k \in 1 .. Len(q) /\ q[k].m.target = t /\ k \in DOMAIN q /\ k > 0
      BY <1>1, <3>1
    <3>3. \A j \in 1 .. k - 1 : q[j].m.target # t
      BY <1>1, <3>1, <3>2
    <3>4. q[k].pre = base[t]
      BY <3>2, <3>3 DEF WizInv, PreImages, Untouched
    <3>5. \A j \in 0 + 1 .. k - 1 : q[j].m.target # q[k].m.target
      BY <3>2, <3>3
    <3>6. host[t] = q[k].pre
      BY <3>2, <3>5 DEF UndoneTo
    <3> QED BY <3>4, <3>6
  <2> QED BY <2>1, <2>2
<1> QED BY <1>1, <1>2

\* With every file's entry undone the files are.
LEMMA FilesUndone ==
    ASSUME WizInv, FilesUndoneTo(0), NEW t \in Targets \ Provided
    PROVE  host[t] = base[t]
<1> DEFINE q == journal.entries
           S == {k \in 1 .. Len(q) : q[k].m.target = t /\ IsFileKind(q[k].m)}
<1>1. q \in Seq(Entries) /\ Len(q) \in Nat /\ DOMAIN q = 1 .. Len(q)
  BY EntryFacts DEF WizInv, WizTypeOK
<1>2. CASE S = {}
  <2>1. NoFileOf(q, Len(q), t)
    BY <1>2 DEF NoFileOf
  <2> QED BY <2>1 DEF WizInv, PreImages
<1>3. CASE S # {}
  <2>1. PICK k \in S : \A j \in S : k =< j
    <3>1. S \subseteq Nat
      BY <1>1
    <3> HIDE DEF S
    <3> QED BY <1>3, <3>1, FirstOf
  <2>2. k \in 1 .. Len(q) /\ q[k].m.target = t /\ IsFileKind(q[k].m) /\ k \in DOMAIN q /\ k > 0
    BY <1>1, <2>1
  <2>3. \A j \in 1 .. k - 1 : ~(q[j].m.target = t /\ IsFileKind(q[j].m))
    BY <1>1, <2>1, <2>2
  <2>4. q[k].pre = base[t]
    BY <2>2, <2>3 DEF WizInv, PreImages, NoFileOf
  <2>5. \A j \in 0 + 1 .. k - 1 : ~(q[j].m.target = q[k].m.target /\ IsFileKind(q[j].m))
    BY <2>2, <2>3
  <2>6. host[t] = q[k].pre
    BY <2>2, <2>5 DEF FilesUndoneTo
  <2> QED BY <2>4, <2>6
<1> QED BY <1>2, <1>3

\* _rollback() has come to the first entry.
LEMMA RolledBackStep ==
    ASSUME WizInv, NEW w \in Wizards, RolledBack(w)
    PROVE  WizInv'
<1> DEFINE a == [apply[w] EXCEPT !.at = "finish"]
<1>1. /\ apply[w].at = "undo" /\ apply[w].at \in Busy \ {"receipt"} /\ apply[w].done = <<>> /\ Put(w, a)
      /\ UNCHANGED <<lock, host, journal, doctor, base>>
  BY SMTT(30) DEF RolledBack, Busy
<1>2. /\ apply[w] \in Applies /\ apply[w].plan \in Plans /\ apply[w].i \in 1 .. Len(apply[w].plan)
      /\ apply[w].status # "committed"
      /\ apply[w].status = "rolled_back" => UndoneTo(Len(apply[w].done))
  BY <1>1, ApplyFacts DEF WizInv, ApplySound
<1>3. apply[w].status = "rolled_back" => host = base
  <2>1. Len(<<>>) = 0
    BY EmptySeq
  <2> QED BY <1>1, <1>2, <2>1, AllUndone
<1>4. /\ a \in Applies /\ a.at = "finish" /\ a.plan = apply[w].plan /\ a.i = apply[w].i
      /\ a.status = apply[w].status
  BY <1>2 DEF Applies, Busy
<1>5. apply'[w] = a
  BY <1>1 DEF Put, WizInv, WizTypeOK
<1> HIDE DEF a
<1>6. ApplySound(w)'
  BY <1>1, <1>2, <1>3, <1>4, <1>5 DEF ApplySound
<1> QED BY <1>1, <1>4, <1>6, ThinkStep DEF Busy


\* Without a journal nothing is left to undo, where the host is what it was.
LEMMA NothingRecorded ==
    ASSUME journal'.entries = <<>>, \A t \in Targets : host'[t] = base'[t]
    PROVE  PreImages'
<1>1. DOMAIN journal'.entries = {} /\ Len(journal'.entries) = 0
  BY EmptySeq
<1> QED BY <1>1 DEF PreImages

\* journal.finalize().
LEMMA FinalizeStep ==
    ASSUME WizInv, NEW w \in Wizards, Finalize(w)
    PROVE  WizInv'
<1> DEFINE a == [apply[w] EXCEPT !.at = "receipt"]
           st == apply[w].status
<1>1. /\ apply[w].at = "finish" /\ apply[w].at \in Busy /\ Put(w, a)
      /\ UNCHANGED <<lock, host, doctor>>
      /\ journal' = IF st = "partial_rollback" THEN journal ELSE NoJournal
      /\ base' = IF st = "committed" THEN host ELSE base
  BY DEF Finalize, KeepJournal, Busy
<1>2. /\ apply[w] \in Applies /\ apply[w].plan \in Plans /\ apply[w].i \in 1 .. Len(apply[w].plan)
      /\ st \in {"committed", "rolled_back", "partial_rollback"}
      /\ st = "committed" => InPlace(apply[w].plan, Len(apply[w].plan))
      /\ st = "rolled_back" => host = base
      /\ journal.there /\ journal \in [there : BOOLEAN, entries : Seq(Entries)]
      /\ host \in [Targets -> SUBSET Names] /\ base \in [Targets -> SUBSET Names]
  <2>1. /\ apply[w] \in Applies /\ apply[w].plan \in Plans /\ apply[w].i \in 1 .. Len(apply[w].plan)
        /\ host \in [Targets -> SUBSET Names] /\ base \in [Targets -> SUBSET Names]
    BY <1>1, ApplyFacts, SMTT(30)
  <2>2. /\ st = "committed" => InPlace(apply[w].plan, Len(apply[w].plan))
        /\ st = "rolled_back" => host = base
    BY <1>1 DEF WizInv, ApplySound
  <2>3. journal.there /\ journal \in [there : BOOLEAN, entries : Seq(Entries)]
    BY <1>1 DEF WizInv, WizTypeOK, Journalled, Busy
  <2> QED BY <2>1, <2>2, <2>3 DEF Applies
<1>3. /\ a \in Applies /\ a.at = "receipt" /\ a.plan = apply[w].plan /\ a.i = apply[w].i /\ a.status = st
  BY <1>2 DEF Applies, Busy
<1>4. apply'[w] = a
  BY <1>1 DEF Put, WizInv, WizTypeOK
<1> HIDE DEF a, st
<1>5. NoJournal \in [there : BOOLEAN, entries : Seq(Entries)] /\ ~NoJournal.there /\ NoJournal.entries = <<>>
  BY EmptySeq DEF NoJournal
<1>6. journal' \in [there : BOOLEAN, entries : Seq(Entries)] /\ base' \in [Targets -> SUBSET Names]
  BY <1>1, <1>2, <1>5
<1>7. /\ journal'.there <=> st = "partial_rollback"
      /\ ~journal'.there => journal'.entries = <<>>
  BY <1>1, <1>2, <1>5
<1>8. st = "rolled_back" => host' = base'
  BY <1>1, <1>2
<1>9. ApplySound(w)'
  <2>1. \A p, n : InPlace(p, n) => InPlace(p, n)'
    BY <1>1 DEF InPlace
  <2>2. st = "committed" => \A p, n : p = apply[w].plan /\ n = Len(apply[w].plan) => InPlace(p, n)'
    BY <1>2, <2>1
  <2> QED BY <1>2, <1>3, <1>4, <1>7, <1>8, <2>2 DEF ApplySound
<1>10. PreImages' /\ \A k \in DOMAIN journal'.entries :
          journal'.entries[k].m.kind = "caddy" => journal'.entries[k].m.target \in Provided
  <2>1. CASE st = "partial_rollback"
    <3>1. journal' = journal /\ base' = base /\ host' = host
      BY <1>1, <2>1
    <3>2. PreImages'
      BY <3>1 DEF WizInv, PreImages, Untouched, NoFileOf
    <3> QED BY <3>1, <3>2 DEF WizInv, Journalled
  <2>2. CASE st # "partial_rollback"
    <3>1. journal'.entries = <<>> /\ host' = base'
      BY <1>1, <1>2, <1>7, <2>2
    <3>2. PreImages'
      BY <3>1, NothingRecorded
    <3>3. DOMAIN journal'.entries = {}
      BY <3>1, EmptySeq
    <3> QED BY <3>2, <3>3
  <2> QED BY <2>1, <2>2
<1>11. UNCHANGED <<lock, doctor>> /\ host' \in [Targets -> SUBSET Names] /\ "receipt" \in Busy
  BY <1>1, <1>2 DEF Busy
<1> QED BY <1>1, <1>3, <1>6, <1>7, <1>9, <1>10, <1>11, BusyStep

\* persist_receipt(), or the death of a process that applies: it gives up its lock.
LEMMA EndStep ==
    ASSUME WizInv, NEW w \in Wizards, Put(w, NotApplying),
           UNCHANGED <<host, journal, doctor, base>>,
           lock' = IF lock = w THEN NoOne ELSE lock
    PROVE  WizInv'
<1>1. apply'[w] = NotApplying /\ \A v \in Wizards \ {w} : apply'[v] = apply[v]
  BY DEF Put, WizInv, WizTypeOK
<1>2. Locked'
  BY <1>1, NotApplyingTyped, WizardAssumption DEF WizInv, Locked, Busy
<1>3. ApplySound(w)'
  BY <1>1 DEF ApplySound, NotApplying
<1>4. lock' \in Wizards \cup {NoOne}
  BY DEF WizInv, WizTypeOK
<1> QED BY <1>2, <1>3, <1>4, NotApplyingTyped, LocalStep DEF Busy

LEMMA PersistReceiptStep ==
    ASSUME WizInv, NEW w \in Wizards, PersistReceipt(w)
    PROVE  WizInv'
<1>1. apply[w].at \in Busy /\ Put(w, NotApplying) /\ lock' = NoOne /\ UNCHANGED <<host, journal, doctor, base>>
  BY DEF PersistReceipt, Busy
<1>2. lock = w
  BY <1>1, ApplyFacts
<1> QED BY <1>1, <1>2, EndStep

\* A step of the recovery, which runs while nobody holds the lock.
LEMMA DoctorStep ==
    ASSUME WizInv, lock = NoOne, UNCHANGED <<lock, apply>>,
           host' \in [Targets -> SUBSET Names], base' \in [Targets -> SUBSET Names],
           doctor' \in [running : BOOLEAN, left : Seq(Entries)],
           journal' = journal \/ journal' = NoJournal,
           doctor'.running => journal'.there, PreImages', DoctorSound'
    PROVE  WizInv'
<1>1. \A w \in Wizards : apply[w].at \notin Busy
  BY ApplyFacts
<1>2. NoJournal \in [there : BOOLEAN, entries : Seq(Entries)] /\ ~NoJournal.there /\ NoJournal.entries = <<>>
      /\ DOMAIN NoJournal.entries = {}
  BY EmptySeq DEF NoJournal
<1>3. WizTypeOK'
  BY <1>2 DEF WizInv, WizTypeOK
<1>4. Locked'
  BY <1>1 DEF WizInv, Locked
<1>5. Journalled'
  BY <1>1, <1>2 DEF WizInv, Journalled
<1>6. \A w \in Wizards : ApplySound(w)'
  BY <1>1, OthersSound
<1> QED BY <1>3, <1>4, <1>5, <1>6 DEF WizInv

\* recover() reads the journal, while no apply runs.
LEMMA RecoverBeginStep ==
    ASSUME WizInv, RecoverBegin, ~careless'
    PROVE  WizInv'
<1>1. /\ journal.there /\ doctor' = [running |-> TRUE, left |-> journal.entries] /\ lock = NoOne
      /\ UNCHANGED <<lock, host, journal, apply, base>>
  BY DEF RecoverBegin
<1>2. /\ journal.entries \in Seq(Entries) /\ Len(journal.entries) \in Nat
      /\ DOMAIN journal.entries = 1 .. Len(journal.entries)
      /\ host \in [Targets -> SUBSET Names] /\ base \in [Targets -> SUBSET Names]
  BY EntryFacts DEF WizInv, WizTypeOK
<1>3. doctor' \in [running : BOOLEAN, left : Seq(Entries)]
  BY <1>1, <1>2
<1>4. DoctorSound'
  <2>1. Prefix(journal.entries, journal.entries)'
    BY <1>1, <1>2 DEF Prefix
  <2>2. FilesUndoneTo(Len(journal.entries))'
    BY <1>1, <1>2 DEF FilesUndoneTo
  <2> QED BY <1>1, <2>1, <2>2 DEF DoctorSound
<1>5. PreImages'
  BY <1>1 DEF WizInv, PreImages, Untouched, NoFileOf
<1> QED BY <1>1, <1>2, <1>3, <1>4, <1>5, DoctorStep


\* recover() puts the last entry left back, if it is a file's.
LEMMA RecoverStepStep ==
    ASSUME WizInv, RecoverStep
    PROVE  WizInv'
<1> DEFINE d == doctor.left
           k == Len(d)
           q == journal.entries
           e == d[k]
<1>1. /\ d # <<>> /\ UNCHANGED <<lock, journal, apply, base>>
      /\ host' = IF IsFileKind(e.m) THEN [host EXCEPT ![e.m.target] = e.pre] ELSE host
      /\ doctor' = [doctor EXCEPT !.left = RemoveAt(d, k)]
  BY DEF RecoverStep, RecoverOrder, RestoreOrRemove
<1>2. /\ doctor \in [running : BOOLEAN, left : Seq(Entries)] /\ d \in Seq(Entries) /\ q \in Seq(Entries)
      /\ host \in [Targets -> SUBSET Names] /\ base \in [Targets -> SUBSET Names]
  BY DEF WizInv, WizTypeOK
<1>3. doctor.running /\ Prefix(d, q) /\ FilesUndoneTo(k)
  BY <1>1, <1>2 DEF WizInv, DoctorSound
<1>4. lock = NoOne /\ journal.there
  BY <1>2, <1>3 DEF WizInv, Locked, Journalled
<1>5. /\ RemoveAt(d, k) \in Seq(Entries) /\ Len(RemoveAt(d, k)) = k - 1 /\ k \in Nat \ {0}
      /\ \A j \in 1 .. k - 1 : RemoveAt(d, k)[j] = d[j]
  BY <1>1, <1>2, RemoveLast
<1>6. Len(q) \in Nat /\ DOMAIN q = 1 .. Len(q) /\ k =< Len(q) /\ k \in DOMAIN q /\ e = q[k]
  <2>1. Len(q) \in Nat /\ DOMAIN q = 1 .. Len(q)
    BY <1>2, EntryFacts
  <2>2. k =< Len(q) /\ \A j \in 1 .. k : d[j] = q[j]
    BY <1>3 DEF Prefix
  <2>3. k \in 1 .. k /\ k \in 1 .. Len(q)
    BY <1>5, <2>1, <2>2
  <2> QED BY <2>1, <2>2, <2>3
<1>7. host' \in [Targets -> SUBSET Names] /\ PreImages'
  <2>1. CASE ~IsFileKind(e.m)
    BY <1>1, <1>2, <2>1 DEF WizInv, PreImages, Untouched, NoFileOf
  <2>2. CASE IsFileKind(e.m)
    <3>1. host' = [host EXCEPT ![q[k].m.target] = q[k].pre]
      BY <1>1, <1>6, <2>2
    <3> HIDE DEF k
    <3> QED BY <1>1, <1>6, <3>1, RestorePre
  <2> QED BY <2>1, <2>2
<1>8. doctor' \in [running : BOOLEAN, left : Seq(Entries)] /\ doctor'.running /\ doctor'.left = RemoveAt(d, k)
  BY <1>1, <1>2, <1>3, <1>5
<1>9. \A x : x = k - 1 => FilesUndoneTo(x)'
  <2>1. q[k].m.target \in Targets /\ \A j \in DOMAIN q : q[j].m.target \in Targets
    BY <1>2, <1>6, EntryFacts
  <2>2. /\ IsFileKind(q[k].m) => host'[q[k].m.target] = q[k].pre
        /\ ~IsFileKind(q[k].m) => host' = host
        /\ \A t \in Targets : t # q[k].m.target => host'[t] = host[t]
    BY <1>1, <1>2, <1>6, <2>1
  <2> HIDE DEF k, q
  <2>3. ASSUME NEW j \in DOMAIN q, j > k - 1, q[j].m.target \notin Provided, IsFileKind(q[j].m),
               \A l \in (k - 1) + 1 .. j - 1 : ~(q[l].m.target = q[j].m.target /\ IsFileKind(q[l].m))
        PROVE  host'[q[j].m.target] = q[j].pre
    <3>1. CASE j = k
      BY <2>2, <2>3, <3>1
    <3>2. CASE j # k
      <4>1. j > k /\ k \in (k - 1) + 1 .. j - 1
        BY <1>5, <1>6, <2>3, <3>2
      <4>2. ~(q[k].m.target = q[j].m.target /\ IsFileKind(q[k].m))
        BY <2>3, <4>1
      <4>3. \A l \in k + 1 .. j - 1 : l \in (k - 1) + 1 .. j - 1
        BY <1>5, <1>6
      <4>4. host[q[j].m.target] = q[j].pre
        BY <1>3, <2>3, <4>1, <4>3 DEF FilesUndoneTo, q
      <4> QED BY <2>1, <2>2, <4>2, <4>4
    <3> QED BY <3>1, <3>2
  <2> QED BY <1>1, <2>3 DEF FilesUndoneTo, q
<1>10. Prefix(RemoveAt(d, k), q)
  BY <1>3, <1>5, <1>6 DEF Prefix
<1>11. DoctorSound'
  <2>1. Len(doctor'.left) = k - 1 /\ journal'.entries = q
    BY <1>1, <1>5, <1>8
  <2> HIDE DEF k
  <2> QED BY <1>8, <1>9, <1>10, <2>1 DEF DoctorSound, Prefix
<1> QED BY <1>1, <1>2, <1>4, <1>7, <1>8, <1>11, DoctorStep

\* recover() unlinks the journal.
LEMMA RecoverEndStep ==
    ASSUME WizInv, RecoverEnd
    PROVE  WizInv'
<1>1. /\ doctor.running /\ doctor.left = <<>> /\ doctor' = NotRecovering /\ journal' = NoJournal
      /\ base' = [t \in Targets |-> IF t \in Provided THEN host[t] ELSE base[t]]
      /\ UNCHANGED <<lock, host, apply>>
  BY DEF RecoverEnd
<1>2. /\ host \in [Targets -> SUBSET Names] /\ base \in [Targets -> SUBSET Names] /\ lock = NoOne
      /\ FilesUndoneTo(Len(doctor.left))
  BY <1>1 DEF WizInv, WizTypeOK, Locked, DoctorSound
<1>3. FilesUndoneTo(0)
  BY <1>1, <1>2, EmptySeq
<1>4. \A t \in Targets : host'[t] = base'[t]
  BY <1>1, <1>2, <1>3, FilesUndone
<1>5. journal'.entries = <<>>
  BY <1>1 DEF NoJournal
<1>6. PreImages'
  BY <1>4, <1>5, NothingRecorded
<1>7. /\ doctor' \in [running : BOOLEAN, left : Seq(Entries)] /\ ~doctor'.running /\ doctor'.left = <<>>
  BY <1>1, EmptySeq DEF NotRecovering
<1>8. base' \in [Targets -> SUBSET Names]
  BY <1>1, <1>2
<1>9. DoctorSound'
  BY <1>7 DEF DoctorSound
<1> QED BY <1>1, <1>2, <1>6, <1>7, <1>8, <1>9, DoctorStep

\* A process dies: the apply with its lock, or the recovery.
LEMMA WizDiesStep ==
    ASSUME WizInv, WizDies
    PROVE  WizInv'
<1>1. UNCHANGED <<host, journal, base>>
  BY DEF WizDies
<1>2. CASE \E w \in Wizards : /\ apply[w].at # "off" /\ Put(w, NotApplying)
                              /\ lock' = IF lock = w THEN NoOne ELSE lock
                              /\ UNCHANGED doctor
  BY <1>1, <1>2, EndStep
<1>3. CASE doctor.running /\ doctor' = NotRecovering /\ UNCHANGED <<lock, apply>>
  <2>1. /\ host \in [Targets -> SUBSET Names] /\ base \in [Targets -> SUBSET Names] /\ lock = NoOne
    BY <1>3 DEF WizInv, WizTypeOK, Locked
  <2>2. /\ doctor' \in [running : BOOLEAN, left : Seq(Entries)] /\ ~doctor'.running /\ doctor'.left = <<>>
    BY <1>3, EmptySeq DEF NotRecovering
  <2>3. DoctorSound'
    BY <2>2 DEF DoctorSound
  <2>4. PreImages'
    BY <1>1 DEF WizInv, PreImages, Untouched, NoFileOf
  <2> QED BY <1>1, <1>3, <2>1, <2>2, <2>3, <2>4, DoctorStep
<1> QED BY <1>2, <1>3 DEF WizDies

----------------------------------------------------------------------------
(* The theorems.                                                           *)

\* Before anything was applied.
LEMMA InitInv == WizInit => WizInv
<1> SUFFICES ASSUME WizInit PROVE WizInv
  OBVIOUS
<1>1. /\ host = [t \in Targets |-> IF t = "conf" THEN {"core"} ELSE {}] /\ base = host
      /\ lock = NoOne /\ journal = NoJournal /\ apply = [w \in Wizards |-> NotApplying]
      /\ doctor = NotRecovering
  BY DEF WizInit
<1>2. host \in [Targets -> SUBSET Names]
  <2>1. "core" \in Names
    BY DEF Names
  <2>2. ASSUME NEW t \in Targets PROVE host[t] \in SUBSET Names
    BY <1>1, <2>1
  <2> QED BY <1>1, <2>2
<1>3. /\ NoJournal \in [there : BOOLEAN, entries : Seq(Entries)] /\ ~NoJournal.there
      /\ NoJournal.entries = <<>> /\ DOMAIN NoJournal.entries = {} /\ Len(NoJournal.entries) = 0
      /\ NotRecovering \in [running : BOOLEAN, left : Seq(Entries)] /\ ~NotRecovering.running
      /\ NotRecovering.left = <<>>
  BY EmptySeq DEF NoJournal, NotRecovering
<1>4. WizTypeOK
  BY <1>1, <1>2, <1>3, NotApplyingTyped DEF WizTypeOK
<1>5. Locked /\ Journalled /\ PreImages /\ DoctorSound
  BY <1>1, <1>3, NotApplyingTyped, WizardAssumption
     DEF Locked, Journalled, PreImages, DoctorSound, Busy
<1>6. \A w \in Wizards : ApplySound(w)
  BY <1>1, NotApplyingTyped DEF ApplySound
<1> QED BY <1>4, <1>5, <1>6 DEF WizInv

\* Every step keeps the invariant, or is careless from then on.
LEMMA NextInv ==
    ASSUME WizardInv, [WizNext]_wizVars
    PROVE  WizardInv'
<1>1. CASE careless
  <2>1. careless'
    BY <1>1 DEF WizNext, wizVars, Confirm, LockTimesOut, Begin, Record, Forward, Verify,
         PostApplyChecks, Compensate, RolledBack, Finalize, PersistReceipt, RecoverBegin,
         RecoverStep, RecoverEnd, WizDies
  <2> QED BY <2>1, SMTT(30) DEF WizardInv
<1>2. CASE WizInv /\ ~careless'
  <2>1. ASSUME NEW w \in Wizards, (\E plan \in Plans : Confirm(w, plan)) \/ LockTimesOut(w) PROVE WizInv'
    BY <1>2, <2>1, ConfirmStep
  <2>2. ASSUME NEW w \in Wizards, Begin(w) PROVE WizInv'
    BY <1>2, <2>2, BeginStep
  <2>3. ASSUME NEW w \in Wizards, Record(w) \/ Forward(w) PROVE WizInv'
    BY <1>2, <2>3, RecordStep, ForwardStep
  <2>4. ASSUME NEW w \in Wizards, Verify(w) \/ PostApplyChecks(w) PROVE WizInv'
    BY <1>2, <2>4, VerifyStep
  <2>5. ASSUME NEW w \in Wizards, Compensate(w) \/ RolledBack(w) PROVE WizInv'
    BY <1>2, <2>5, CompensateStep, RolledBackStep
  <2>6. ASSUME NEW w \in Wizards, Finalize(w) \/ PersistReceipt(w) PROVE WizInv'
    BY <1>2, <2>6, FinalizeStep, PersistReceiptStep
  <2>7. ASSUME RecoverBegin \/ RecoverStep \/ RecoverEnd \/ WizDies PROVE WizInv'
    BY <1>2, <2>7, RecoverBeginStep, RecoverStepStep, RecoverEndStep, WizDiesStep
  <2>8. ASSUME UNCHANGED wizVars PROVE WizInv'
    <3>1. UNCHANGED <<host, lock, journal, apply, doctor, base>>
      BY <2>8 DEF wizVars
    <3>2. (WizTypeOK /\ Locked /\ Journalled)'
      BY <1>2, <3>1 DEF WizInv, WizTypeOK, Locked, Journalled
    <3>3. (PreImages /\ DoctorSound)'
      BY <1>2, <3>1 DEF WizInv, PreImages, DoctorSound, Untouched, NoFileOf, FilesUndoneTo, Prefix
    <3>4. /\ \A plan, n : InPlace(plan, n)' <=> InPlace(plan, n)
          /\ \A n : UndoneTo(n)' <=> UndoneTo(n)
      BY <3>1, SMTT(30) DEF InPlace, UndoneTo
    <3>5. \A w \in Wizards : ApplySound(w)'
      BY <1>2, <3>1, <3>4, ZenonT(60) DEF WizInv, ApplySound, Prefix
    <3> QED BY <3>2, <3>3, <3>5 DEF WizInv
  <2>9. ASSUME WizNext PROVE WizInv'
    BY <2>1, <2>2, <2>3, <2>4, <2>5, <2>6, <2>7, <2>9 DEF WizNext
  <2> QED BY <2>8, <2>9 DEF WizardInv
<1> QED BY <1>1, <1>2 DEF WizardInv

\* WizardInv is an invariant of the wizard and its recovery.
THEOREM Invariance == WizSpec => []WizardInv
<1>1. WizInit => WizardInv
  BY InitInv DEF WizardInv
<1>2. WizardInv /\ [WizNext]_wizVars => WizardInv'
  BY NextInv
<1> QED BY <1>1, <1>2, PTL DEF WizSpec

\* What the journal would undo is what the first entry of a file captured.
LEMMA InvUndoes ==
    ASSUME WizInv
    PROVE  JournalUndoes
<1> DEFINE q == journal.entries
<1>1. q \in Seq(Entries) /\ Len(q) \in Nat /\ DOMAIN q = 1 .. Len(q)
  BY EntryFacts DEF WizInv, WizTypeOK
<1>2. ASSUME NEW t \in Targets \ Provided PROVE Undone(t) = base[t]
  <2> DEFINE S == {i \in DOMAIN q : q[i].m.target = t /\ IsFileKind(q[i].m)}
  <2>1. CASE S = {}
    <3>1. NoFileOf(q, Len(q), t)
      BY <1>1, <2>1 DEF NoFileOf
    <3>2. host[t] = base[t]
      BY <3>1 DEF WizInv, PreImages
    <3> QED BY <2>1, <3>2 DEF Undone
  <2>2. CASE S # {}
    <3> DEFINE k == CHOOSE i \in S : \A j \in S : i =< j
    <3>1. k \in S /\ \A j \in S : k =< j
      <4>1. S \subseteq Nat
        BY <1>1
      <4> HIDE DEF S
      <4> QED BY <2>2, <4>1, FirstOf
    <3>2. Undone(t) = q[k].pre
      BY <2>2 DEF Undone
    <3> HIDE DEF k
    <3>3. k \in DOMAIN q /\ k \in 1 .. Len(q) /\ q[k].m.target = t
      BY <1>1, <3>1
    <3>4. NoFileOf(q, k - 1, t)
      BY <1>1, <3>1, <3>3 DEF NoFileOf
    <3> QED BY <3>2, <3>3, <3>4 DEF WizInv, PreImages
  <2> QED BY <2>1, <2>2
<1> QED BY <1>2 DEF JournalUndoes

\* The receipt.
LEMMA InvReceipt ==
    ASSUME WizInv
    PROVE  ReceiptTrue
<1> SUFFICES ASSUME NEW w \in Wizards, apply[w].at = "receipt"
             PROVE  LET plan == apply[w].plan IN
                    CASE apply[w].status = "rolled_back" -> host = base /\ ~journal.there
                      [] apply[w].status = "partial_rollback" -> journal.there
                      [] apply[w].status = "committed" ->
                            \A i \in DOMAIN plan :
                                \/ ForwardOf(plan[i], host[plan[i].target]) = host[plan[i].target]
                                \/ \E j \in i + 1 .. Len(plan) : plan[j].target = plan[i].target
  BY DEF ReceiptTrue
<1>1. /\ apply[w].status \in {"committed", "rolled_back", "partial_rollback"}
      /\ apply[w].plan \in Plans
  BY ApplyFacts DEF Applies
<1>2. /\ apply[w].status = "committed" => InPlace(apply[w].plan, Len(apply[w].plan))
      /\ apply[w].status = "rolled_back" => host = base
      /\ journal.there <=> apply[w].status = "partial_rollback"
  BY DEF WizInv, ApplySound
<1>3. DOMAIN apply[w].plan = 1 .. Len(apply[w].plan)
  BY <1>1, PlanFacts
<1>4. CASE apply[w].status = "rolled_back"
  BY <1>2, <1>4
<1>5. CASE apply[w].status = "partial_rollback"
  BY <1>2, <1>5
<1>6. CASE apply[w].status = "committed"
  BY <1>2, <1>3, <1>6 DEF InPlace
<1> QED BY <1>1, <1>4, <1>5, <1>6

\* Wherever processes die, and whichever of them apply: the journal on disk undoes every
\* file until the plan is committed, and the receipt says what became of the plan.
THEOREM ApplyAllOrNothing == WizSpec => []ApplyIsAtomic
<1>1. WizardInv => ApplyIsAtomic
  BY InvUndoes, InvReceipt DEF WizardInv, ApplyIsAtomic
<1> QED BY <1>1, Invariance, PTL

-----------------------------------------------------------------------------
(***************************************************************************)
(* The package store.                                                      *)
(***************************************************************************)
\* What a process may be in the middle of.
Steps == Sources \cup {"refused", "target", "mode", "receipt", "first", "second", "write"}
Commands == [cmd : {"install", "seal", "revoke"}, pkg : Pkgs, step : Steps, read : SUBSET Caps]

\* The type invariant.
StoreShape ==
    /\ trust \in [Publishers -> {"unknown", "active", "revoked"}]
    /\ tree \in [Pkgs -> {"absent", "sealed", "writable", "corrupt"}]
    /\ receipt \in [Pkgs -> {"absent", "ok", "corrupt"}]
    /\ grant \in [Pkgs -> [file : {"absent", "ok", "corrupt"}, revoked : SUBSET Caps]]
    /\ active \in Pkgs \cup {NoPkg} /\ holder \in Ops \cup {NoOp}
    /\ op \in [Ops -> Commands \cup {NoCommand}] /\ fenced \in [Pkgs -> SUBSET Caps]

\* One process at a time, and what its command stands on at each of its steps.
CommandSound(o) ==
    LET c == op[o] d == op[o].pkg IN
    /\ holder = o
    /\ c.cmd = "install" => /\ c.step \in Sources \cup {"refused", "target", "mode", "receipt"}
                            /\ c.step \in {"mode", "receipt"} => tree[d] # "absent"
    /\ c.cmd = "seal" => /\ receipt[d] = "ok" /\ IsActive(PublisherOf[d]) /\ c.step \in {"first", "second"}
                         /\ c.step = "second" => grant[d].file # "absent"
    /\ c.cmd = "revoke" => c.step = "write" /\ grant[d].file = "ok" /\ c.read = grant[d].revoked

\* What was revoked is in the overlay, whether the grant can be read or not.
FencedRevoked == \A d \in Pkgs : fenced[d] \subseteq grant[d].revoked

\* The inductive invariant of the store.
PackageInv ==
    /\ StoreShape /\ NeverDangling /\ FencedRevoked
    /\ \A o \in Ops : op[o] # NoCommand => CommandSound(o)

----------------------------------------------------------------------------
\* The lock leaves one command.
LEMMA OneCommand ==
    ASSUME PackageInv, NEW o \in Ops, holder \in {o, NoOp}
    PROVE  \A q \in Ops \ {o} : op[q] = NoCommand
BY PackagesAssumption DEF PackageInv, CommandSound

\* With the lock free none runs.
LEMMA NoneRuns ==
    ASSUME PackageInv, holder = NoOp
    PROVE  \A q \in Ops : op[q] = NoCommand
BY PackagesAssumption DEF PackageInv, CommandSound

\* A command under way, and its fields.
LEMMA Running ==
    ASSUME PackageInv, NEW o \in Ops, op[o] # NoCommand
    PROVE  /\ op[o] \in Commands /\ op[o].pkg \in Pkgs /\ op[o].read \in SUBSET Caps /\ op[o].step \in Steps
           /\ CommandSound(o) /\ holder = o
BY DEF PackageInv, StoreShape, CommandSound, Commands

\* A step of one command, or with none under way.
LEMMA CommandMoves ==
    ASSUME NEW o \in Ops, \A q \in Ops \ {o} : op'[q] = NoCommand,
           StoreShape', NeverDangling', FencedRevoked', op'[o] # NoCommand => CommandSound(o)'
    PROVE  PackageInv'
BY DEF PackageInv

\* The command ends, by itself or killed.
LEMMA CommandEnds ==
    ASSUME PackageInv, NEW o \in Ops, holder \in {o, NoOp}, op' = [op EXCEPT ![o] = NoCommand], holder' = NoOp,
           trust' = trust, tree' \in [Pkgs -> {"absent", "sealed", "writable", "corrupt"}],
           receipt' \in [Pkgs -> {"absent", "ok", "corrupt"}],
           grant' \in [Pkgs -> [file : {"absent", "ok", "corrupt"}, revoked : SUBSET Caps]],
           active' \in Pkgs \cup {NoPkg}, fenced' \in [Pkgs -> SUBSET Caps], NeverDangling', FencedRevoked'
    PROVE  PackageInv'
<1>1. op \in [Ops -> Commands \cup {NoCommand}] /\ trust \in [Publishers -> {"unknown", "active", "revoked"}]
  BY DEF PackageInv, StoreShape
<1>2. op' \in [Ops -> Commands \cup {NoCommand}] /\ op'[o] = NoCommand
  BY <1>1
<1>3. StoreShape'
  BY <1>1, <1>2 DEF StoreShape
<1>4. \A q \in Ops \ {o} : op'[q] = NoCommand
  BY <1>1, OneCommand
<1> QED BY <1>2, <1>3, <1>4, CommandMoves

\* The agent, and the operator's reads, change nothing in the store.
LEMMA StoreKept ==
    ASSUME PackageInv, UNCHANGED <<store, holder, op, fenced>>
    PROVE  PackageInv'
BY DEF store, PackageInv, StoreShape, NeverDangling, FencedRevoked, CommandSound, IsActive

\* add_publisher and revoke_publisher.
LEMMA PublisherStep ==
    ASSUME PackageInv, NEW p \in Publishers, AddPublisher(p) \/ RevokePublisher(p)
    PROVE  PackageInv'
<1>1. holder = NoOp /\ UNCHANGED <<tree, receipt, grant, active, holder, op, fenced>>
  BY DEF AddPublisher, RevokePublisher, StoreLockFree
<1>2. \A q \in Ops : op'[q] = NoCommand
  BY <1>1, NoneRuns
<1>3. trust' \in [Publishers -> {"unknown", "active", "revoked"}]
  BY DEF AddPublisher, RevokePublisher, PackageInv, StoreShape
<1> QED BY <1>1, <1>2, <1>3 DEF PackageInv, StoreShape, NeverDangling, FencedRevoked

\* rollback points at a grant that can be read.
LEMMA RollbackGrantStep ==
    ASSUME PackageInv, NEW d \in Pkgs, RollbackGrant(d)
    PROVE  PackageInv'
<1>1. holder = NoOp /\ UNCHANGED <<trust, tree, receipt, grant, holder, op, fenced>> /\ active' = d /\ grant[d].file = "ok"
  BY DEF RollbackGrant, StoreLockFree, ReadGrant
<1>2. \A q \in Ops : op'[q] = NoCommand
  BY <1>1, NoneRuns
<1> QED BY <1>1, <1>2 DEF PackageInv, StoreShape, NeverDangling, FencedRevoked

\* Damage leaves a file where there was one, and the overlay as it was.
LEMMA RotStep ==
    ASSUME PackageInv, NEW d \in Pkgs, Rot(d)
    PROVE  PackageInv'
<1>1. holder = NoOp /\ UNCHANGED <<trust, active, holder, op, fenced>>
  BY DEF Rot
<1>2. \A q \in Ops : op'[q] = NoCommand
  BY <1>1, NoneRuns
<1>3. /\ tree' \in [Pkgs -> {"absent", "sealed", "writable", "corrupt"}]
      /\ receipt' \in [Pkgs -> {"absent", "ok", "corrupt"}]
      /\ \A e \in Pkgs : (tree'[e] = "absent" <=> tree[e] = "absent") /\ (receipt'[e] = "absent" <=> receipt[e] = "absent")
  BY DEF Rot, PackageInv, StoreShape
<1>4. /\ grant' \in [Pkgs -> [file : {"absent", "ok", "corrupt"}, revoked : SUBSET Caps]]
      /\ \A e \in Pkgs : grant'[e].revoked = grant[e].revoked /\ (grant'[e].file = "absent" <=> grant[e].file = "absent")
  <2>1. grant \in [Pkgs -> [file : {"absent", "ok", "corrupt"}, revoked : SUBSET Caps]]
    BY DEF PackageInv, StoreShape
  <2>2. CASE UNCHANGED grant
    BY <2>1, <2>2
  <2>3. CASE grant[d].file = "ok" /\ grant' = [grant EXCEPT ![d].file = "corrupt"]
    <3>1. PICK g \in [file : {"absent", "ok", "corrupt"}, revoked : SUBSET Caps] :
             grant' = [grant EXCEPT ![d] = g] /\ g.file = "corrupt" /\ g.revoked = grant[d].revoked
      <4>1. [grant[d] EXCEPT !.file = "corrupt"] \in [file : {"absent", "ok", "corrupt"}, revoked : SUBSET Caps]
        BY <2>1
      <4>2. grant' = [grant EXCEPT ![d] = [grant[d] EXCEPT !.file = "corrupt"]]
        BY <2>3
      <4> QED BY <2>1, <4>1, <4>2
    <3> QED BY <2>1, <2>3, <3>1
  <2> QED BY <2>2, <2>3 DEF Rot
<1>5. StoreShape'
  BY <1>1, <1>3, <1>4 DEF PackageInv, StoreShape
<1>6. NeverDangling' /\ FencedRevoked'
  BY <1>1, <1>3, <1>4, PackagesAssumption DEF PackageInv, StoreShape, NeverDangling, FencedRevoked
<1> QED BY <1>2, <1>5, <1>6 DEF PackageInv

\* A command starts with what it read of the grant.
LEMMA PackageOpStarts ==
    ASSUME PackageInv, NEW o \in Ops, NEW cmd \in {"install", "seal", "revoke"}, NEW d \in Pkgs, NEW s \in Steps,
           Starts(o, cmd, d, s), UNCHANGED <<trust, tree, receipt, grant, active, fenced>>,
           cmd = "install" => s \in Sources \cup {"refused"},
           cmd = "seal" => s = "first" /\ receipt[d] = "ok" /\ IsActive(PublisherOf[d]),
           cmd = "revoke" => s = "write" /\ grant[d].file = "ok"
    PROVE  PackageInv'
<1>1. PICK c \in Commands : /\ op' = [op EXCEPT ![o] = c] /\ c.cmd = cmd /\ c.pkg = d /\ c.step = s
                            /\ c.read = grant[d].revoked
  <2>1. grant[d].revoked \in SUBSET Caps
    BY DEF PackageInv, StoreShape
  <2>2. [cmd |-> cmd, pkg |-> d, step |-> s, read |-> grant[d].revoked] \in Commands
    BY <2>1 DEF Commands
  <2> QED BY <2>2 DEF Starts
<1>2. op \in [Ops -> Commands \cup {NoCommand}] /\ holder = NoOp /\ holder' = o
  BY DEF PackageInv, StoreShape, Starts, StoreLockFree
<1>3. op' \in [Ops -> Commands \cup {NoCommand}] /\ op'[o] = c /\ \A q \in Ops \ {o} : op'[q] = NoCommand
  BY <1>1, <1>2, NoneRuns
<1>4. StoreShape' /\ NeverDangling' /\ FencedRevoked'
  BY <1>2, <1>3 DEF PackageInv, StoreShape, NeverDangling, FencedRevoked
<1>5. CommandSound(o)'
  BY <1>1, <1>2, <1>3 DEF CommandSound, IsActive, Sources
<1> QED BY <1>3, <1>4, <1>5, CommandMoves

\* The command goes on to another step, with its own files changed or not.
LEMMA GoesOnStep ==
    ASSUME PackageInv, NEW o \in Ops, op[o] # NoCommand, NEW s \in Steps, StepTo(o, s),
           UNCHANGED <<trust, receipt, active>>,
           tree' \in [Pkgs -> {"absent", "sealed", "writable", "corrupt"}],
           grant' \in [Pkgs -> [file : {"absent", "ok", "corrupt"}, revoked : SUBSET Caps]],
           fenced' \in [Pkgs -> SUBSET Caps],
           \A e \in Pkgs : tree[e] # "absent" => tree'[e] # "absent",
           \A e \in Pkgs : (grant'[e].file # "absent" => grant[e].file # "absent" \/ receipt[e] # "absent")
                           /\ (grant[e].file # "absent" => grant'[e].file # "absent"),
           FencedRevoked',
           op[o].cmd = "install" => s \in {"target", "mode", "receipt"}
                                    /\ (s \in {"mode", "receipt"} => tree'[op[o].pkg] # "absent"),
           op[o].cmd = "seal" => s = "second" /\ grant'[op[o].pkg].file # "absent",
           op[o].cmd # "revoke"
    PROVE  PackageInv'
<1>1. op[o] \in Commands /\ CommandSound(o) /\ holder = o /\ holder' = o /\ op[o].pkg \in Pkgs
  BY Running DEF StepTo
<1>2. op \in [Ops -> Commands \cup {NoCommand}] /\ \A q \in Ops \ {o} : op[q] = NoCommand
  BY <1>1, OneCommand DEF PackageInv, StoreShape
<1>3. PICK c \in Commands : op' = [op EXCEPT ![o] = c] /\ c.cmd = op[o].cmd /\ c.pkg = op[o].pkg /\ c.step = s
  <2>1. [op[o] EXCEPT !.step = s] \in Commands
    BY <1>1 DEF Commands
  <2>2. op' = [op EXCEPT ![o] = [op[o] EXCEPT !.step = s]]
    BY DEF StepTo
  <2> QED BY <1>1, <2>1, <2>2 DEF Commands
<1>4. op' \in [Ops -> Commands \cup {NoCommand}] /\ op'[o] = c /\ \A q \in Ops \ {o} : op'[q] = NoCommand
  BY <1>2, <1>3
<1>5. StoreShape'
  BY <1>1, <1>4 DEF PackageInv, StoreShape
<1>6. NeverDangling'
  BY PackagesAssumption DEF PackageInv, StoreShape, NeverDangling
<1>7. CommandSound(o)'
  BY <1>1, <1>3, <1>4 DEF CommandSound, IsActive
<1> QED BY <1>4, <1>5, <1>6, <1>7, CommandMoves

\* The steps of an install.
LEMMA InstallStep ==
    ASSUME PackageInv, NEW o \in Ops, InstallInspect(o) \/ InstallTarget(o) \/ InstallMode(o) \/ WriteReceipt(o)
    PROVE  PackageInv'
<1>1. op[o] # NoCommand /\ op[o].cmd = "install"
  BY DEF InstallInspect, InstallTarget, InstallMode, WriteReceipt, InOp, NoCommand
<1>2. /\ op[o] \in Commands /\ CommandSound(o) /\ holder = o /\ op[o].pkg \in Pkgs /\ op[o].step \in Steps
  BY <1>1, Running
<1>3. /\ tree \in [Pkgs -> {"absent", "sealed", "writable", "corrupt"}]
      /\ grant \in [Pkgs -> [file : {"absent", "ok", "corrupt"}, revoked : SUBSET Caps]]
      /\ receipt \in [Pkgs -> {"absent", "ok", "corrupt"}] /\ fenced \in [Pkgs -> SUBSET Caps]
      /\ active \in Pkgs \cup {NoPkg} /\ NeverDangling /\ FencedRevoked
  BY DEF PackageInv, StoreShape
<1>4. UNCHANGED <<trust, grant, active, fenced>>
  BY DEF InstallInspect, InstallTarget, InstallMode, WriteReceipt
<1>5. FencedRevoked'
  BY <1>3, <1>4 DEF FencedRevoked
<1>6. ASSUME Done(o), UNCHANGED <<tree, receipt>> PROVE PackageInv'
  <2>1. NeverDangling'
    BY <1>3, <1>4, <1>6 DEF NeverDangling
  <2> QED BY <1>2, <1>3, <1>4, <1>5, <1>6, <2>1, CommandEnds DEF Done
<1>7. ASSUME NEW s \in {"target", "mode", "receipt"}, StepTo(o, s), UNCHANGED receipt,
             tree' \in [Pkgs -> {"absent", "sealed", "writable", "corrupt"}],
             \A e \in Pkgs : tree[e] # "absent" => tree'[e] # "absent",
             s # "target" => tree'[op[o].pkg] # "absent"
      PROVE  PackageInv'
  <2>1. s \in Steps
    BY DEF Steps
  <2> QED BY <1>1, <1>3, <1>4, <1>5, <1>7, <2>1, GoesOnStep
<1>8. CASE InstallInspect(o)
  <2>1. UNCHANGED <<tree, receipt>> /\ (StepTo(o, "target") \/ Done(o))
    BY <1>8 DEF InstallInspect
  <2> QED BY <1>3, <1>6, <1>7, <2>1
<1>9. CASE InstallTarget(o)
  <2> DEFINE d == op[o].pkg
  <2>1. UNCHANGED receipt
    BY <1>9 DEF InstallTarget
  <2>2. CASE tree[d] = "absent" /\ tree' = [tree EXCEPT ![d] = "writable"] /\ StepTo(o, "mode")
    BY <1>2, <1>3, <1>7, <2>1, <2>2
  <2>3. CASE Hashes(d) /\ tree' = [tree EXCEPT ![d] = SealContents(@)] /\ StepTo(o, "receipt")
    BY <1>2, <1>3, <1>7, <2>1, <2>3 DEF Hashes, SealContents
  <2>4. CASE Done(o) /\ UNCHANGED tree
    BY <1>6, <2>1, <2>4
  <2> QED BY <1>9, <2>2, <2>3, <2>4 DEF InstallTarget
<1>10. CASE InstallMode(o)
  <2>1. tree[op[o].pkg] # "absent"
    BY <1>1, <1>2, <1>10 DEF InstallMode, InOp, CommandSound
  <2>2. tree' = [tree EXCEPT ![op[o].pkg] = SealContents(@)] /\ StepTo(o, "receipt") /\ UNCHANGED receipt
    BY <1>10 DEF InstallMode
  <2> QED BY <1>2, <1>3, <1>7, <2>1, <2>2 DEF SealContents
<1>11. CASE WriteReceipt(o)
  <2>1. tree[op[o].pkg] # "absent"
    BY <1>1, <1>2, <1>11 DEF WriteReceipt, InOp, CommandSound
  <2>2. receipt' = [receipt EXCEPT ![op[o].pkg] = "ok"] /\ UNCHANGED tree /\ Done(o)
    BY <1>11 DEF WriteReceipt
  <2>3. NeverDangling' /\ receipt' \in [Pkgs -> {"absent", "ok", "corrupt"}]
    BY <1>2, <1>3, <1>4, <2>1, <2>2, PackagesAssumption DEF NeverDangling
  <2> QED BY <1>2, <1>3, <1>4, <1>5, <2>2, <2>3, CommandEnds DEF Done
<1> QED BY <1>8, <1>9, <1>10, <1>11

\* The two writes of a seal: the grant on its receipt, then the pointer on the grant.
LEMMA SealStep ==
    ASSUME PackageInv, NEW o \in Ops, SealWrite(o)
    PROVE  PackageInv'
<1> DEFINE d == op[o].pkg
<1>1. op[o] # NoCommand /\ op[o].cmd = "seal"
  BY DEF SealWrite, NoCommand
<1>2. /\ op[o] \in Commands /\ CommandSound(o) /\ holder = o /\ d \in Pkgs /\ op[o].step \in {"first", "second"}
      /\ receipt[d] = "ok" /\ (op[o].step = "second" => grant[d].file # "absent")
  BY <1>1, Running DEF CommandSound
<1>3. /\ tree \in [Pkgs -> {"absent", "sealed", "writable", "corrupt"}]
      /\ grant \in [Pkgs -> [file : {"absent", "ok", "corrupt"}, revoked : SUBSET Caps]]
      /\ receipt \in [Pkgs -> {"absent", "ok", "corrupt"}] /\ fenced \in [Pkgs -> SUBSET Caps]
      /\ active \in Pkgs \cup {NoPkg} /\ NeverDangling /\ FencedRevoked
  BY DEF PackageInv, StoreShape
<1>4. UNCHANGED <<trust, tree, receipt>>
  BY DEF SealWrite
<1>5. CASE op[o].step = "first"
  <2>1. /\ grant' = [grant EXCEPT ![d] = [file |-> "ok", revoked |-> {}]]
        /\ fenced' = [fenced EXCEPT ![d] = {}] /\ UNCHANGED active /\ StepTo(o, "second")
    BY <1>5 DEF SealWrite, SealOrder
  <2>2. /\ grant' \in [Pkgs -> [file : {"absent", "ok", "corrupt"}, revoked : SUBSET Caps]]
        /\ fenced' \in [Pkgs -> SUBSET Caps] /\ grant'[d].file = "ok" /\ grant'[d].revoked = {} /\ fenced'[d] = {}
        /\ \A e \in Pkgs \ {d} : grant'[e] = grant[e] /\ fenced'[e] = fenced[e]
    BY <1>2, <1>3, <2>1
  <2>3. FencedRevoked'
    BY <1>3, <2>2 DEF FencedRevoked
  <2>4. "second" \in Steps
    BY DEF Steps
  <2> QED BY <1>1, <1>2, <1>3, <1>4, <2>1, <2>2, <2>3, <2>4, GoesOnStep
<1>6. CASE op[o].step = "second"
  <2>1. active' = d /\ UNCHANGED <<grant, fenced>> /\ Done(o)
    BY <1>6 DEF SealWrite, SealOrder
  <2>2. NeverDangling' /\ FencedRevoked'
    BY <1>2, <1>3, <1>4, <1>6, <2>1 DEF NeverDangling, FencedRevoked
  <2> QED BY <1>2, <1>3, <1>4, <2>1, <2>2, CommandEnds DEF Done
<1> QED BY <1>2, <1>5, <1>6

\* A revocation adds to the overlay it read, which is still the one on disk, and grants nothing.
LEMMA RevokeStep ==
    ASSUME PackageInv, NEW o \in Ops, NEW c \in Caps, RevokeWrite(o, c)
    PROVE  /\ PackageInv'
           /\ \A d \in Pkgs : CurrentCapabilities(d)' \subseteq CurrentCapabilities(d)
<1> DEFINE d == op[o].pkg
<1>1. op[o] # NoCommand /\ op[o].cmd = "revoke"
  BY DEF RevokeWrite, InOp, NoCommand
<1>2. /\ op[o] \in Commands /\ holder = o /\ d \in Pkgs /\ op[o].read = grant[d].revoked /\ grant[d].file = "ok"
  BY <1>1, Running DEF CommandSound
<1>3. /\ tree \in [Pkgs -> {"absent", "sealed", "writable", "corrupt"}]
      /\ grant \in [Pkgs -> [file : {"absent", "ok", "corrupt"}, revoked : SUBSET Caps]]
      /\ receipt \in [Pkgs -> {"absent", "ok", "corrupt"}] /\ fenced \in [Pkgs -> SUBSET Caps]
      /\ active \in Pkgs \cup {NoPkg} /\ NeverDangling /\ FencedRevoked
  BY DEF PackageInv, StoreShape
<1>4. PICK w \in SUBSET Caps : w = grant[d].revoked \cup {c}
  BY <1>2, <1>3
<1>5. /\ UNCHANGED <<trust, tree, receipt, active>> /\ Done(o)
      /\ grant' = [grant EXCEPT ![d] = [file |-> "ok", revoked |-> w]]
      /\ fenced' = [fenced EXCEPT ![d] = @ \cup {c}]
  BY <1>2, <1>4 DEF RevokeWrite, Overlay
<1>6. /\ grant' \in [Pkgs -> [file : {"absent", "ok", "corrupt"}, revoked : SUBSET Caps]]
      /\ fenced' \in [Pkgs -> SUBSET Caps] /\ grant'[d].file = "ok" /\ grant'[d].revoked = w
      /\ fenced'[d] = fenced[d] \cup {c}
      /\ \A e \in Pkgs \ {d} : grant'[e] = grant[e] /\ fenced'[e] = fenced[e]
  BY <1>2, <1>3, <1>5
<1>7. FencedRevoked'
  BY <1>2, <1>3, <1>4, <1>6 DEF FencedRevoked
<1>8. NeverDangling'
  BY <1>2, <1>3, <1>5, <1>6, PackagesAssumption DEF NeverDangling
<1>9. PackageInv'
  BY <1>2, <1>3, <1>5, <1>6, <1>7, <1>8, CommandEnds DEF Done
<1>10. \A e \in Pkgs : CurrentCapabilities(e)' \subseteq CurrentCapabilities(e)
  BY <1>2, <1>4, <1>6 DEF CurrentCapabilities, ReadGrant, EffectiveCapabilities
<1> QED BY <1>9, <1>10

\* A process that dies leaves its files as they are.
LEMMA DeathStep ==
    ASSUME PackageInv, NEW o \in Ops, OpDies(o)
    PROVE  PackageInv'
<1>1. holder = o /\ op' = [op EXCEPT ![o] = NoCommand] /\ holder' = NoOp /\ UNCHANGED <<trust, tree, receipt, grant, active, fenced>>
  BY Running DEF OpDies, store
<1>2. NeverDangling' /\ FencedRevoked'
  BY <1>1 DEF PackageInv, NeverDangling, FencedRevoked
<1> QED BY <1>1, <1>2, CommandEnds DEF PackageInv, StoreShape

\* The agent only reads the store.
LEMMA BootStep ==
    ASSUME PackageInv, BootActive \/ BootGrant \/ LoadOne \/ LoadAndRegister \/ ResolveAdapter \/ Admit \/ Attempt
                       \/ JobEnds \/ AgentStops
    PROVE  UNCHANGED <<store, holder, op, fenced>>
BY DEF BootActive, BootGrant, LoadOne, LoadAndRegister, ResolveAdapter, Admit, Attempt, JobEnds, AgentStops

\* A command starts; nothing on disk changes yet.
LEMMA StartStep ==
    ASSUME PackageInv, NEW o \in Ops, NEW d \in Pkgs,
           (\E src \in Sources : InstallStage(o, d, src)) \/ SealCheck(o, d) \/ RevokeRead(o, d)
    PROVE  PackageInv' /\ UNCHANGED <<trust, tree, receipt, grant, active, fenced>>
<1>1. ASSUME NEW src \in Sources, InstallStage(o, d, src) PROVE PackageInv' /\ UNCHANGED <<trust, tree, receipt, grant, active, fenced>>
  <2>1. PICK s \in Sources \cup {"refused"} : Starts(o, "install", d, s)
    BY <1>1 DEF InstallStage
  <2>2. s \in Steps
    BY DEF Steps
  <2> QED BY <1>1, <2>1, <2>2, PackageOpStarts DEF InstallStage
<1>2. CASE SealCheck(o, d)
  <2>1. "first" \in Steps
    BY DEF Steps
  <2> QED BY <1>2, <2>1, PackageOpStarts DEF SealCheck, ReadReceipt, store
<1>3. CASE RevokeRead(o, d)
  <2>1. "write" \in Steps
    BY DEF Steps
  <2> QED BY <1>3, <2>1, PackageOpStarts DEF RevokeRead, ReadGrant, store
<1> QED BY <1>1, <1>2, <1>3

\* PackageInv is inductive.
LEMMA PackagesStep ==
    ASSUME PackageInv, [PackagesNext]_packageVars
    PROVE  PackageInv'
<1>1. CASE \E p \in Publishers : AddPublisher(p) \/ RevokePublisher(p)
  BY <1>1, PublisherStep
<1>2. ASSUME NEW o \in Ops, NEW d \in Pkgs,
             (\E src \in Sources : InstallStage(o, d, src)) \/ SealCheck(o, d) \/ RevokeRead(o, d)
      PROVE  PackageInv'
  BY <1>2, StartStep
<1>3. ASSUME NEW o \in Ops, InstallInspect(o) \/ InstallTarget(o) \/ InstallMode(o) \/ WriteReceipt(o) PROVE PackageInv'
  BY <1>3, InstallStep
<1>4. ASSUME NEW o \in Ops, SealWrite(o) \/ OpDies(o) \/ \E c \in Caps : RevokeWrite(o, c) PROVE PackageInv'
  BY <1>4, SealStep, DeathStep, RevokeStep
<1>5. ASSUME NEW d \in Pkgs, RollbackGrant(d) \/ Rot(d) PROVE PackageInv'
  BY <1>5, RollbackGrantStep, RotStep
<1>6. CASE BootActive \/ BootGrant \/ LoadOne \/ LoadAndRegister \/ ResolveAdapter \/ Admit \/ Attempt \/ JobEnds \/ AgentStops
  BY <1>6, BootStep, StoreKept
<1>7. CASE UNCHANGED packageVars
  BY <1>7, StoreKept DEF packageVars, store
<1> QED BY <1>1, <1>2, <1>3, <1>4, <1>5, <1>6, <1>7 DEF PackagesNext

\* It holds initially.
LEMMA PackagesInitInv == PackagesInit => PackageInv
<1> SUFFICES ASSUME PackagesInit PROVE PackageInv
  OBVIOUS
<1>1. NoGrant \in [file : {"absent", "ok", "corrupt"}, revoked : SUBSET Caps] /\ NoGrant.file = "absent" /\ NoGrant.revoked = {}
  BY DEF NoGrant
<1>2. StoreShape
  BY <1>1 DEF PackagesInit, StoreShape
<1>3. NeverDangling /\ FencedRevoked
  BY <1>1 DEF PackagesInit, NeverDangling, FencedRevoked
<1> QED BY <1>2, <1>3 DEF PackagesInit, PackageInv

\* What the invariant says of the store to a reader.
LEMMA PackageInvSound == PackageInv => StoreSound
<1> SUFFICES ASSUME PackageInv PROVE StoreSound
  OBVIOUS
<1>1. NeverDangling
  BY DEF PackageInv
<1>2. RevocationKept
  BY DEF PackageInv, FencedRevoked, RevocationKept, CurrentCapabilities, EffectiveCapabilities
<1>3. DoctorSees
  <2> SUFFICES ASSUME active # NoPkg, grant[active].file = "ok", ~Hashes(active)
               PROVE  DoctorPackages(active) = "error"
    BY DEF DoctorSees
  <2>1. active \in Pkgs /\ tree[active] \in {"absent", "corrupt"} /\ receipt[active] \in {"ok", "corrupt"}
    BY <1>1 DEF PackageInv, StoreShape, Hashes, NeverDangling
  <2>2. ~Overtaken(active)
    BY DEF Overtaken
  <2>3. Finding(active) = "error"
    BY <2>1 DEF Finding, Orphan
  <2> QED BY <2>2, <2>3 DEF DoctorPackages
<1>4. InspectAgrees
  BY DEF InspectAgrees, InspectPackage, Authorize
<1> QED BY <1>1, <1>2, <1>3, <1>4 DEF StoreSound

\* The store on disk is sound for whoever reads it next, whatever command died where and
\* whatever file was damaged, for all packages, publishers and numbers of processes.
THEOREM StoreStaysSound == PackagesSpec => []StoreSound
<1>1. PackagesInit => PackageInv
  BY PackagesInitInv
<1>2. PackageInv /\ [PackagesNext]_packageVars => PackageInv'
  BY PackagesStep
<1>3. PackageInv => StoreSound
  BY PackageInvSound
<1> QED BY <1>1, <1>2, <1>3, PTL DEF PackagesSpec

\* Only the grant a seal writes adds a capability.
LEMMA OnlySealGrants ==
    ASSUME PackageInv, PackagesNext, NEW d \in Pkgs, NEW c \in CurrentCapabilities(d)', c \notin CurrentCapabilities(d)
    PROVE  receipt[d] # "absent" /\ IsActive(PublisherOf[d])
<1>1. CASE UNCHANGED grant
  BY <1>1 DEF CurrentCapabilities, ReadGrant, EffectiveCapabilities
<1>2. ASSUME NEW o \in Ops, SealWrite(o) PROVE receipt[d] # "absent" /\ IsActive(PublisherOf[d])
  <2>1. op[o] # NoCommand /\ op[o].cmd = "seal"
    BY <1>2 DEF SealWrite, NoCommand
  <2>2. op[o].pkg \in Pkgs /\ receipt[op[o].pkg] = "ok" /\ IsActive(PublisherOf[op[o].pkg])
    BY <2>1, Running DEF CommandSound
  <2>3. grant \in [Pkgs -> [file : {"absent", "ok", "corrupt"}, revoked : SUBSET Caps]]
    BY DEF PackageInv, StoreShape
  <2>4. CASE d # op[o].pkg
    <3>1. grant'[d] = grant[d]
      BY <1>2, <2>2, <2>3, <2>4 DEF SealWrite
    <3> QED BY <3>1 DEF CurrentCapabilities, ReadGrant, EffectiveCapabilities
  <2> QED BY <2>2, <2>4
<1>3. ASSUME NEW o \in Ops, NEW k \in Caps, RevokeWrite(o, k) PROVE FALSE
  BY <1>3, RevokeStep
<1>4. ASSUME NEW e \in Pkgs, Rot(e), ~UNCHANGED grant PROVE FALSE
  <2>1. grant \in [Pkgs -> [file : {"absent", "ok", "corrupt"}, revoked : SUBSET Caps]]
    BY DEF PackageInv, StoreShape
  <2>2. grant' = [grant EXCEPT ![e].file = "corrupt"]
    BY <1>4 DEF Rot
  <2>3. grant'[d] = grant[d] \/ grant'[d].file = "corrupt"
    BY <2>1, <2>2
  <2> QED BY <2>3 DEF CurrentCapabilities, ReadGrant, EffectiveCapabilities
<1>5. \/ UNCHANGED grant
      \/ \E o \in Ops : SealWrite(o) \/ \E k \in Caps : RevokeWrite(o, k)
      \/ \E e \in Pkgs : Rot(e)
  <2>1. ASSUME NEW p \in Publishers, AddPublisher(p) \/ RevokePublisher(p) PROVE UNCHANGED grant
    BY <2>1 DEF AddPublisher, RevokePublisher
  <2>2. ASSUME NEW o \in Ops, NEW e \in Pkgs, (\E src \in Sources : InstallStage(o, e, src)) \/ SealCheck(o, e) \/ RevokeRead(o, e)
        PROVE  UNCHANGED grant
    BY <2>2, StartStep
  <2>3. ASSUME NEW o \in Ops, InstallInspect(o) \/ InstallTarget(o) \/ InstallMode(o) \/ WriteReceipt(o) \/ OpDies(o)
        PROVE  UNCHANGED grant
    BY <2>3 DEF InstallInspect, InstallTarget, InstallMode, WriteReceipt, OpDies, store
  <2>4. ASSUME NEW e \in Pkgs, RollbackGrant(e) PROVE UNCHANGED grant
    BY <2>4 DEF RollbackGrant
  <2>5. CASE BootActive \/ BootGrant \/ LoadOne \/ LoadAndRegister \/ ResolveAdapter \/ Admit \/ Attempt \/ JobEnds \/ AgentStops
    BY <2>5, BootStep DEF store
  <2> QED BY <2>1, <2>2, <2>3, <2>4, <2>5 DEF PackagesNext
<1> QED BY <1>1, <1>2, <1>3, <1>4, <1>5

\* Authority is written only for a package that may have it at that very moment.
THEOREM AuthorityIsEarned == PackagesSpec => AuthorityEarned
<1>1. PackagesInit => PackageInv
  BY PackagesInitInv
<1>2. PackageInv /\ [PackagesNext]_packageVars => PackageInv'
  BY PackagesStep
<1>3. PackageInv /\ [PackagesNext]_packageVars =>
        [\A d \in Pkgs : CurrentCapabilities(d)' \ CurrentCapabilities(d) # {}
           => receipt[d] # "absent" /\ IsActive(PublisherOf[d])]_packageVars
  <2> SUFFICES ASSUME PackageInv, PackagesNext, NEW d \in Pkgs, CurrentCapabilities(d)' \ CurrentCapabilities(d) # {}
               PROVE  receipt[d] # "absent" /\ IsActive(PublisherOf[d])
    OBVIOUS
  <2>1. PICK c \in CurrentCapabilities(d)' : c \notin CurrentCapabilities(d)
    OBVIOUS
  <2> QED BY <2>1, OnlySealGrants
<1> QED BY <1>1, <1>2, <1>3, PTL DEF PackagesSpec, AuthorityEarned
=============================================================================
