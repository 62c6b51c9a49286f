----------------------------- MODULE CaddySync -----------------------------
(***************************************************************************)
(* buckets_custom_domain_caddy_sync (caddy/sync.py): the drop-in files of  *)
(* one directory are made to match a manifest and Caddy is told to load    *)
(* them.  Two syncs may be dispatched at once; a per-directory lock of the *)
(* process orders them.  Every file operation and every request runs in a  *)
(* thread (asyncio.to_thread), which a cancelled sync leaves behind.       *)
(*                                                                         *)
(* A fragment is a model value.  Caddy (external) accepts a file set when  *)
(* no fragment is bad and no site is declared twice.                       *)
(***************************************************************************)
EXTENDS Naturals, FiniteSets

CONSTANTS
    Sites,        \* tenant ids; one managed file each
    LegacySites,  \* sites the legacy drop-in declares
    Manifests,    \* the manifests the control plane sends: Sites -> Values
    Syncs,        \* sync jobs
    Cadence,      \* _INLINE_DELETE_CADENCE
    MaxFaults,    \* bound: operations that fail
    MaxCancels    \* bound: jobs cancelled

Frags == {"f1", "f2", "bad"}
Values == {"none", "empty"} \cup Frags   \* a manifest entry; "none" is not named
LEGACY == "legacy"
Files == Sites \cup {LEGACY}

ASSUME CaddyAssumption == LEGACY \notin Sites /\ LegacySites \subseteq Sites /\ Cadence \in Nat
                          /\ Manifests \subseteq [Sites -> Values]
                          /\ "free" \notin Syncs

VARIABLES
    disk,     \* Files -> a fragment or "none"
    tmp,      \* Sites -> the fragment of the temporary file, or "none"
    live,     \* Sites -> what Caddy serves
    dirLock,     \* the directory's lock: a sync or "free"
    job,      \* Syncs -> the sync's step, manifest, plan and outcome
    thread,   \* file operations under way: records [job, file, frag, step]
    late,       \* cancelled syncs whose POST /load is still to be served
    overrun,    \* history: a cancelled sync's thread is still to run, or has run, beside a later sync
    spent     \* [faults, cancels]

caddyVars == <<disk, tmp, live, dirLock, job, thread, late, overrun, spent>>

NoPlan == [writes |-> {}, deletes |-> {}, tripped |-> FALSE]
NotStarted == [at |-> "new", manifest |-> [s \in Sites |-> "none"], bulk |-> FALSE,
               plan |-> NoPlan, left |-> {}, kept |-> {}, told |-> "nothing"]

At(j, s) == job[j].at = s
Ends(j, what) ==
    /\ job' = [job EXCEPT ![j].at = "ended", ![j].told = what, ![j].left = {}]
    /\ dirLock' = "free"
Fault == spent.faults < MaxFaults /\ spent' = [spent EXCEPT !.faults = @ + 1]

-----------------------------------------------------------------------------
\* What Caddy makes of the files: the sites each declares, and whether it adapts.
Declares(s) == {f \in Files : disk[f] # "none" /\ f \in {s} \cup (IF s \in LegacySites THEN {LEGACY} ELSE {})}
Adapts == /\ \A f \in Files : disk[f] # "bad"
          /\ \A s \in Sites : Cardinality(Declares(s)) =< 1
Composed == [s \in Sites |-> IF Declares(s) = {} THEN "none" ELSE disk[CHOOSE f \in Declares(s) : TRUE]]

-----------------------------------------------------------------------------
\* Mutant: the lock does not exclude.
DirLockIgnored == TRUE

\* The handler takes the directory's lock; _validate_manifest may refuse all of it.
DirLock == dirLock = "free"

SyncStarts(j, m, bulk) ==
    /\ At(j, "new") /\ DirLock
    /\ dirLock' = j
    /\ job' = [job EXCEPT ![j] = [NotStarted EXCEPT !.at = "scan", !.manifest = m, !.bulk = bulk]]
    /\ UNCHANGED <<disk, tmp, live, thread, late, overrun, spent>>

ValidateManifest(j) ==
    /\ At(j, "scan") /\ Fault /\ Ends(j, "config_invalid")
    /\ UNCHANGED <<disk, tmp, live, thread, late, overrun>>

\* The directory cannot be listed.
ScanFails(j) ==
    /\ At(j, "scan") /\ Fault /\ Ends(j, "persist_failed")
    /\ UNCHANGED <<disk, tmp, live, thread, late, overrun>>

\* _plan_reconcile: writes are always planned; more deletes than the cadence, the
\* legacy drop-in's included, need the bulk authority or none is done.
PlanReconcile(m, bulk) ==
    LET named == {s \in Sites : m[s] # "none"}
        obsolete == {f \in Files : disk[f] # "none"} \ named
        refused == Cardinality(obsolete) > Cadence /\ ~bulk
    IN  [writes |-> named, deletes |-> IF refused THEN {} ELSE obsolete, tripped |-> refused]

ScanAndPlan(j) ==
    /\ At(j, "scan")
    /\ LET plan == PlanReconcile(job[j].manifest, job[j].bulk) IN
       job' = [job EXCEPT ![j].at = "write", ![j].plan = plan, ![j].left = plan.writes,
                          ![j].kept = IF plan.tripped THEN {f \in Files : disk[f] # "none"} \ plan.writes
                                      ELSE {}]
    /\ UNCHANGED <<disk, tmp, live, dirLock, thread, late, overrun, spent>>

\* _persist_plan: one file after the other, writes before deletes.
MyThread(j) == {t \in thread : t.job = j}
Fragment(j, f) == IF f \in job[j].plan.writes THEN job[j].manifest[f] ELSE "empty"

Persisting(j) == job[j].at \in {"write", "delete"}

PersistFile(j, f) ==
    /\ Persisting(j) /\ MyThread(j) = {} /\ f \in job[j].left
    /\ thread' = thread \cup {[job |-> j, file |-> f, frag |-> Fragment(j, f),
                                step |-> IF Fragment(j, f) = "empty" THEN "unlink" ELSE "tmp"]}
    /\ job' = [job EXCEPT ![j].left = @ \ {f}]
    /\ UNCHANGED <<disk, tmp, live, dirLock, late, overrun, spent>>

PersistPhase(j) ==
    /\ Persisting(j) /\ MyThread(j) = {} /\ job[j].left = {}
    /\ job' = IF At(j, "write")
              THEN [job EXCEPT ![j].at = "delete", ![j].left = job[j].plan.deletes]
              ELSE [job EXCEPT ![j].at = "adapt"]
    /\ UNCHANGED <<disk, tmp, live, dirLock, thread, late, overrun, spent>>

\* _atomic_write_or_remove, one system call at a time.
Gone(t) == thread' = thread \ {t}
FileStep(t) ==
    /\ t \in thread
    /\ \/ /\ t.step = "unlink" /\ Gone(t)
          /\ disk' = [disk EXCEPT ![t.file] = "none"] /\ UNCHANGED <<tmp, job, dirLock>>
       \/ /\ t.step = "tmp"
          /\ tmp' = [tmp EXCEPT ![t.file] = t.frag]
          /\ thread' = (thread \ {t}) \cup {[t EXCEPT !.step = "replace"]}
          /\ UNCHANGED <<disk, job, dirLock>>
       \/ /\ t.step = "replace" /\ tmp[t.file] # "none" /\ Gone(t)
          /\ disk' = [disk EXCEPT ![t.file] = tmp[t.file]]
          /\ tmp' = [tmp EXCEPT ![t.file] = "none"]
          /\ UNCHANGED <<job, dirLock>>
       \/ /\ t.step = "replace" /\ tmp[t.file] = "none" /\ Gone(t)     \* taken by another thread
          /\ IF Persisting(t.job) THEN Ends(t.job, "persist_failed") ELSE UNCHANGED <<job, dirLock>>
          /\ UNCHANGED <<disk, tmp>>
    /\ UNCHANGED <<live, late, overrun, spent>>

PersistFails(t) ==
    /\ t \in thread /\ Persisting(t.job) /\ Fault /\ Gone(t) /\ Ends(t.job, "persist_failed")
    /\ UNCHANGED <<disk, tmp, live, late, overrun>>

\* _preflight_composed: the main Caddyfile is read and posted to /adapt.
PreflightComposed(j) ==
    /\ At(j, "adapt") /\ MyThread(j) = {}
    /\ \/ Adapts /\ job' = [job EXCEPT ![j].at = "load"] /\ UNCHANGED <<dirLock, spent>>
       \/ ~Adapts /\ Ends(j, "config_invalid") /\ UNCHANGED spent
       \/ Fault /\ Ends(j, "reload_failed")
    /\ UNCHANGED <<disk, tmp, live, thread, late, overrun>>

\* _reload_caddy: Caddy loads the files of that moment; a refused or unreachable
\* /load, or an answer that never comes though Caddy did load, is a failure.
ReloadCaddy(j) ==
    /\ At(j, "load")
    /\ \/ /\ Adapts /\ live' = Composed
          /\ \/ Ends(j, IF job[j].plan.tripped THEN "rail_tripped" ELSE "synced") /\ UNCHANGED spent
             \/ Fault /\ Ends(j, "reload_failed")
       \/ /\ ~Adapts \/ spent.faults < MaxFaults
          /\ IF Adapts THEN Fault ELSE UNCHANGED spent
          /\ UNCHANGED live /\ Ends(j, "reload_failed")
    /\ UNCHANGED <<disk, tmp, thread, late, overrun>>

\* The job is cancelled: the lock is released, its thread runs on, be it at a file or
\* in a POST /load.
SyncCancelled(j) ==
    /\ job[j].at \notin {"new", "ended"} /\ spent.cancels < MaxCancels
    /\ spent' = [spent EXCEPT !.cancels = @ + 1]
    /\ Ends(j, "cancelled")
    /\ overrun' = (overrun \/ MyThread(j) # {})
    /\ late' = IF At(j, "load") THEN late \cup {j} ELSE late
    /\ UNCHANGED <<disk, tmp, live, thread>>

\* The /load of a cancelled sync reaches Caddy, which takes the files of that moment,
\* or does not.
LateLoad(j) ==
    /\ j \in late /\ late' = late \ {j}
    /\ UNCHANGED live \/ (Adapts /\ live' = Composed)
    /\ UNCHANGED <<disk, tmp, dirLock, job, thread, overrun, spent>>

-----------------------------------------------------------------------------
CaddyInit ==
    /\ disk \in [Files -> {"none", "f1"}]
    /\ Adapts /\ live = Composed
    /\ tmp = [s \in Sites |-> "none"] /\ dirLock = "free" /\ thread = {} /\ late = {} /\ overrun = FALSE
    /\ job = [j \in Syncs |-> NotStarted] /\ spent = [faults |-> 0, cancels |-> 0]

CaddyNext ==
    \/ \E j \in Syncs : \/ \E m \in Manifests, bulk \in BOOLEAN : SyncStarts(j, m, bulk)
                        \/ ValidateManifest(j) \/ ScanFails(j) \/ ScanAndPlan(j) \/ PersistPhase(j)
                        \/ \E f \in Files : PersistFile(j, f)
                        \/ PreflightComposed(j) \/ ReloadCaddy(j) \/ SyncCancelled(j) \/ LateLoad(j)
    \/ \E t \in thread : FileStep(t) \/ PersistFails(t)

CaddySpec == CaddyInit /\ [][CaddyNext]_caddyVars

-----------------------------------------------------------------------------
\* What a sync wants Caddy to serve, the files its rail refused to delete included.
Wanted(j, s) ==
    IF job[j].manifest[s] \in Frags THEN job[j].manifest[s]
    ELSE IF s \in job[j].kept \/ (LEGACY \in job[j].kept /\ s \in LegacySites)
         THEN "any" ELSE "none"

\* A sync that reports its writes live is right: Caddy serves exactly the manifest,
\* with every site the delete rail spared still serving, whatever an earlier sync
\* left on disk when it failed or was cancelled between two files.
SyncedIsServed ==
    [][\A j \in Syncs :
         job[j].told = "nothing" /\ job'[j].told \in {"synced", "rail_tripped"} /\ ~overrun
           => \A s \in Sites : IF Wanted(j, s) = "any" THEN live'[s] # "none"
                               ELSE live'[s] = Wanted(j, s)]_caddyVars

\* The authorize_bulk parameter's text: "The automated path leaves it 'false' so a
\* partial manifest cannot mass-delete live sites".  Violated by the code (README, Known
\* divergences).
NoMassDelete ==
    [][\A j \in Syncs : job[j].told = "nothing" /\ job'[j].told # "nothing" /\ ~job[j].bulk
         => Cardinality({s \in Sites : live[s] # "none" /\ live'[s] = "none"}) =< Cadence]_caddyVars

=============================================================================
