------------------------------ MODULE Wizard ------------------------------
(***************************************************************************)
(* The wizard's mutation engine (wizard/engine.py, mutations.py,           *)
(* journal.py, receipt.py, toml_edit.py), as `integration init` drives it  *)
(* (cli/wizard_run.py), and `integration doctor --recover`, which undoes an*)
(* interrupted apply from its journal in another process.  The process may *)
(* die between any two writes; an exception apply_plan() does not catch (a *)
(* journal write, a verify that raises) ends it in the same way.           *)
(* A file's content is a set of names, the empty set a file that is        *)
(* absent; permission bits are left out.                                   *)
(***************************************************************************)
EXTENDS Naturals, SequencesExt

CONSTANTS
    Wizards,      \* processes that run the wizard
    Targets,      \* what mutations write: files, a drop-in of the proxy, nothing
    Provided,     \* the targets only their provider can restore
    Plans,        \* plans: sequences of Mutations
    MaxApplies,   \* bound: applies begun
    MaxWizFaults  \* bound: deaths of a process

NoOne == "no one"

StepKinds == {"claim", "install", "unit", "caddy", "restart", "probe"}
Mutations == [kind : StepKinds, target : Targets, data : STRING]

ASSUME WizardAssumption ==
    /\ NoOne \notin Wizards
    /\ Provided \subseteq Targets
    /\ \A plan \in Plans :
          /\ plan \in Seq(Mutations) /\ plan # <<>>
          /\ \A i \in DOMAIN plan : plan[i].kind = "caddy" => plan[i].target \in Provided
    /\ MaxApplies \in Nat /\ MaxWizFaults \in Nat

VARIABLES
    host,     \* target -> its content
    journal,  \* active.json: whether there is one, and its entries
    lock,     \* the process holding the wizard lock, or NoOne
    apply,    \* process -> its apply: at, plan, next mutation, done, status
    doctor,   \* the process recovering: whether it runs, the entries left to restore
    base,     \* history: what the host was before the apply that is under way
    careless, \* history: an apply began while an interrupted one waited for its recovery,
              \* or the recovery beside an apply: no lock of the code forbids it
    applies, deaths

wizVars == <<host, lock, journal, apply, doctor, base, careless, applies, deaths>>

NoJournal == [there |-> FALSE, entries |-> <<>>]
NotRecovering == [running |-> FALSE, left |-> <<>>]
NotApplying == [at |-> "off", plan |-> <<>>, i |-> 1, done |-> <<>>, status |-> "committed"]

WizInit ==
    /\ host = [t \in Targets |-> IF t = "conf" THEN {"core"} ELSE {}]
    /\ lock = NoOne /\ journal = NoJournal /\ apply = [w \in Wizards |-> NotApplying] /\ doctor = NotRecovering
    /\ base = host /\ careless = FALSE /\ applies = 0 /\ deaths = 0

\* The builders of mutations.py: the content a step's forward leaves over what it finds,
\* and whether a fresh process can restore it (it has a recover_path).
BuildClaimToml(m, found) == [after |-> found \cup {m.data}, file |-> TRUE]
BuildInstall(m) == [after |-> {m.data}, file |-> TRUE]
BuildSystemdUnit(m) == [after |-> {m.data}, file |-> TRUE]
BuildCaddyDropIn(m) == [after |-> {m.data}, file |-> FALSE]
BuildRestart(found) == [after |-> found, file |-> FALSE]
BuildVerifyProbe(found) == [after |-> found, file |-> FALSE]

BuildStep(m, found) ==
    CASE m.kind = "claim" -> BuildClaimToml(m, found)
      [] m.kind = "install" -> BuildInstall(m)
      [] m.kind = "unit" -> BuildSystemdUnit(m)
      [] m.kind = "caddy" -> BuildCaddyDropIn(m)
      [] m.kind = "restart" -> BuildRestart(found)
      [] m.kind = "probe" -> BuildVerifyProbe(found)

ForwardOf(m, found) == BuildStep(m, found).after
IsFileKind(m) == BuildStep(m, {}).file

\* A file is replaced whole, and put back, or removed, from its pre-image.
AtomicWrite(m) == [host EXCEPT ![m.target] = ForwardOf(m, @)]
RestoreOrRemove(e) == [host EXCEPT ![e.m.target] = e.pre]

\* Journal._flush(): the entries the process has in memory replace the file's.
Flush(entries) == journal' = [there |-> TRUE, entries |-> entries]

Put(w, a) == apply' = [apply EXCEPT ![w] = a]

\* drive_wizard(): questions, findings without a refusal, a plan, and the operator's yes.
Confirm(w, plan) ==
    /\ apply[w].at = "off" /\ applies < MaxApplies
    /\ applies' = applies + 1
    /\ Put(w, [NotApplying EXCEPT !.at = "lock", !.plan = plan])
    /\ UNCHANGED <<host, lock, journal, doctor, base, careless, deaths>>

\* wizard_lock() gives up after its polls while another apply holds the lock.
LockTimesOut(w) ==
    /\ apply[w].at = "lock" /\ lock # NoOne
    /\ Put(w, NotApplying)
    /\ UNCHANGED <<host, lock, journal, doctor, base, careless, applies, deaths>>

\* flock() grants the lock to one process.
LockFree == lock = NoOne

\* apply_plan() takes the lock and journal.begin() writes an empty journal, over the one
\* that is there.
Begin(w) ==
    /\ apply[w].at = "lock" /\ LockFree
    /\ lock' = w
    /\ Flush(<<>>)
    /\ Put(w, [apply[w] EXCEPT !.at = "record"])
    /\ careless' = (careless \/ journal.there \/ doctor.running)
    /\ UNCHANGED <<host, doctor, base, applies, deaths>>

Rollback(a) == [a EXCEPT !.at = "undo", !.status = "rolled_back"]

\* build_step() captures the pre-image and the journal is flushed with it; a mutation
\* that will not build rolls the plan back.
Record(w) ==
    /\ apply[w].at = "record"
    /\ LET m == apply[w].plan[apply[w].i]
           e == [m |-> m, pre |-> host[m.target]]
       IN  \/ /\ Flush(Append(apply[w].done, e))
              /\ Put(w, [apply[w] EXCEPT !.at = "forward", !.done = Append(@, e)])
           \/ Put(w, Rollback(apply[w])) /\ UNCHANGED journal
    /\ UNCHANGED <<lock, host, doctor, base, careless, applies, deaths>>

\* step.forward(): a failure comes before the write, or after it (a daemon-reload).
Forward(w) ==
    /\ apply[w].at = "forward"
    /\ LET m == apply[w].plan[apply[w].i] IN
       \E written, failed \in BOOLEAN :
          /\ failed \/ written
          /\ host' = IF written THEN AtomicWrite(m) ELSE host
          /\ Put(w, IF failed THEN Rollback(apply[w]) ELSE [apply[w] EXCEPT !.at = "verify"])
    /\ UNCHANGED <<lock, journal, doctor, base, careless, applies, deaths>>

\* step.verify(), and after the last mutation the post-apply checks.
Verify(w) ==
    /\ apply[w].at = "verify"
    /\ \/ Put(w, Rollback(apply[w]))
       \/ Put(w, IF apply[w].i < Len(apply[w].plan)
                 THEN [apply[w] EXCEPT !.at = "record", !.i = @ + 1]
                 ELSE [apply[w] EXCEPT !.at = "post"])
    /\ UNCHANGED <<lock, host, journal, doctor, base, careless, applies, deaths>>

\* _post_apply_checks()
PostApplyChecks(w) ==
    /\ apply[w].at = "post"
    /\ Put(w, Rollback(apply[w])) \/ Put(w, [apply[w] EXCEPT !.at = "finish"])
    /\ UNCHANGED <<lock, host, journal, doctor, base, careless, applies, deaths>>

\* The entry _rollback() compensates next: the last one.
NextUndo(w) == Len(apply[w].done)

\* One turn of _rollback(): restore the pre-image, which may fail before or after the
\* write; a failure is kept in the status and the loop goes on.
Compensate(w) ==
    /\ apply[w].at = "undo" /\ apply[w].done # <<>>
    /\ LET k == NextUndo(w)
           e == apply[w].done[k]
       IN  \E restored, failed \in BOOLEAN :
             /\ failed \/ restored
             /\ host' = IF restored THEN RestoreOrRemove(e) ELSE host
             /\ Put(w, [apply[w] EXCEPT !.done = RemoveAt(@, k),
                                        !.status = IF failed THEN "partial_rollback" ELSE @])
    /\ UNCHANGED <<lock, journal, doctor, base, careless, applies, deaths>>

RolledBack(w) ==
    /\ apply[w].at = "undo" /\ apply[w].done = <<>>
    /\ Put(w, [apply[w] EXCEPT !.at = "finish"])
    /\ UNCHANGED <<lock, host, journal, doctor, base, careless, applies, deaths>>

\* A partial roll back leaves its journal for doctor.
KeepJournal(status) == status = "partial_rollback"

\* journal.finalize(): a commit takes effect with the removal of its journal.
Finalize(w) ==
    /\ apply[w].at = "finish"
    /\ journal' = IF KeepJournal(apply[w].status) THEN journal ELSE NoJournal
    /\ base' = IF apply[w].status = "committed" THEN host ELSE base
    /\ Put(w, [apply[w] EXCEPT !.at = "receipt"])
    /\ UNCHANGED <<lock, host, doctor, careless, applies, deaths>>

\* persist_receipt(), and the lock is released.
PersistReceipt(w) ==
    /\ apply[w].at = "receipt"
    /\ Put(w, NotApplying) /\ lock' = NoOne
    /\ UNCHANGED <<host, journal, doctor, base, careless, applies, deaths>>

\* recover() reads the journal.  It takes no lock.
RecoverBegin ==
    /\ ~doctor.running /\ journal.there
    /\ doctor' = [running |-> TRUE, left |-> journal.entries]
    /\ careless' = (careless \/ lock # NoOne)
    /\ UNCHANGED <<lock, host, journal, apply, base, applies, deaths>>

\* Mutant: recovery restores the entries in the order they were written.
RecoverOrderForward == 1

\* recover() restores the highest index first.
RecoverOrder == Len(doctor.left)

\* restore_or_remove() of a file; a provider's entry is reported for the operator.
RecoverStep ==
    /\ doctor.left # <<>>
    /\ LET e == doctor.left[RecoverOrder]
       IN  host' = IF IsFileKind(e.m) THEN RestoreOrRemove(e) ELSE host
    /\ doctor' = [doctor EXCEPT !.left = RemoveAt(@, RecoverOrder)]
    /\ UNCHANGED <<lock, journal, apply, base, careless, applies, deaths>>

\* The journal is unlinked; what a provider wrote is now the operator's to review.
RecoverEnd ==
    /\ doctor.running /\ doctor.left = <<>>
    /\ doctor' = NotRecovering /\ journal' = NoJournal
    /\ base' = [t \in Targets |-> IF t \in Provided THEN host[t] ELSE base[t]]
    /\ UNCHANGED <<lock, host, apply, careless, applies, deaths>>

\* A process dies, and its lock with it.
WizDies ==
    /\ deaths < MaxWizFaults
    /\ deaths' = deaths + 1
    /\ \/ \E w \in Wizards : /\ apply[w].at # "off" /\ Put(w, NotApplying)
                             /\ lock' = IF lock = w THEN NoOne ELSE lock
          /\ UNCHANGED doctor
       \/ doctor.running /\ doctor' = NotRecovering /\ UNCHANGED <<lock, apply>>
    /\ UNCHANGED <<host, journal, base, careless, applies>>

WizNext ==
    \/ \E w \in Wizards :
         \/ \E plan \in Plans : Confirm(w, plan)
         \/ LockTimesOut(w) \/ Begin(w)
         \/ Record(w) \/ Forward(w) \/ Verify(w) \/ PostApplyChecks(w)
         \/ Compensate(w) \/ RolledBack(w) \/ Finalize(w) \/ PersistReceipt(w)
    \/ RecoverBegin \/ RecoverStep \/ RecoverEnd \/ WizDies

WizSpec == WizInit /\ [][WizNext]_wizVars

\* The host with every recoverable entry of the journal undone: a target goes back to
\* what its first entry captured.
Undone(t) ==
    LET at == {i \in DOMAIN journal.entries : journal.entries[i].m.target = t
                                              /\ IsFileKind(journal.entries[i].m)}
    IN  IF at = {} THEN host[t]
        ELSE journal.entries[CHOOSE i \in at : \A j \in at : i =< j].pre

\* Wherever a process died, and as often as it did, undoing what the journal on disk
\* holds gives every file back as it was before the apply: nothing the wizard wrote is
\* without a durable pre-image, until the whole plan is committed.
JournalUndoes == \A t \in Targets \ Provided : Undone(t) = base[t]

\* The receipt tells the truth about the host: rolled_back leaves every target, provided
\* ones too, as it was; committed leaves every mutation of the plan in place, one of a
\* later mutation of the same file included; partial_rollback leaves the journal.
ReceiptTrue ==
    \A w \in Wizards : apply[w].at = "receipt" =>
        LET plan == apply[w].plan IN
        CASE apply[w].status = "rolled_back" -> host = base /\ ~journal.there
          [] apply[w].status = "partial_rollback" -> journal.there
          [] apply[w].status = "committed" ->
                \A i \in DOMAIN plan :
                    \/ ForwardOf(plan[i], host[plan[i].target]) = host[plan[i].target]
                    \/ \E j \in i + 1 .. Len(plan) : plan[j].target = plan[i].target

\* An apply is all or nothing: it can be undone until it is committed, and its receipt
\* says which of the two it was.  An apply begun over a journal that waits for its
\* recovery, and a recovery beside an apply, are excepted: without the exception the
\* property is violated by the code (README, Known divergences).
ApplyIsAtomic == careless \/ (JournalUndoes /\ ReceiptTrue)
=============================================================================
