----------------------------- MODULE RcloneJobs -----------------------------
(***************************************************************************)
(* The rclone jobs (stormpulse/rclone): the restore test, which copies a   *)
(* sample of a bucket to a scratch prefix of the same bucket, compares and *)
(* purges, one child process at a time; and the migration, one long child  *)
(* whose output is streamed.  Two restore tests may run against one bucket *)
(* while its owner writes to it, and either may be cancelled at any await. *)
(*                                                                         *)
(* An object's content is its size; 0 is an empty or absent object, which  *)
(* the listing does not offer for sampling.  What a child does, it does    *)
(* when it ends.                                                           *)
(***************************************************************************)
EXTENDS Naturals, Sequences, FiniteSets

CONSTANTS
    Objects,      \* paths, a set of numbers: the order of the names
    Folder,       \* Objects -> the rank of the top-level folder, 0 for the root
    Folders,      \* number of top-level folders
    MaxSize,
    MaxSamples,   \* MAX_SAMPLES
    Tests,        \* restore tests
    MaxWrites,    \* bound: the owner's writes
    MaxChildFaults,    \* bound: children that fail or time out
    MaxJobCancels    \* bound: cancellations

ASSUME RcloneAssumption ==
    /\ Objects \subseteq Nat /\ IsFiniteSet(Objects) /\ MaxSamples \in Nat /\ MaxSamples >= 2
    /\ Folders \in Nat /\ Folder \in [Objects -> 0 .. Folders]

VARIABLES
    bucket,    \* Objects -> content
    scratch,   \* Objects -> content under the scratch prefix
    test,      \* Tests -> the test's step
    orphans,   \* children whose job was cancelled: records [cmd, obj]
    unclean,   \* history: a cancelled test's child, or its purge, was left to itself
    reported,  \* manual_cleanup_required was sent
    mig,       \* the migration: [job, child]
    used      \* [writes, faults, cancels]

rcloneVars == <<bucket, scratch, test, orphans, unclean, reported, mig, used>>

Empty == [o \in Objects |-> 0]
NotRun == [at |-> "new", listed |-> Empty, samples |-> {}, left |-> {}, told |-> "nothing"]

ChildFails == used.faults < MaxChildFaults /\ used' = [used EXCEPT !.faults = @ + 1]
CancelIt == used.cancels < MaxJobCancels /\ used' = [used EXCEPT !.cancels = @ + 1]

-----------------------------------------------------------------------------
(***************************************************************************)
(* select_samples                                                          *)
(***************************************************************************)
Eligible(listing) == {o \in Objects : listing[o] > 0}
\* (size, path) order.
Below(listing, o, p) == listing[o] < listing[p] \/ (listing[o] = listing[p] /\ o < p)
Largest(listing, S) == CHOOSE o \in S : \A p \in S \ {o} : Below(listing, p, o)
Smallest(listing, S) == CHOOSE o \in S : \A p \in S \ {o} : Below(listing, o, p)

\* The largest, the smallest, then each folder's smallest in the folders' order
\* until the cap; an object already picked takes no place.
SelectSamples(listing) ==
    LET all == Eligible(listing)
        in(f) == {o \in all : Folder[o] = f}
        picks[f \in 0 .. Folders] ==
            IF f = 0 THEN {Largest(listing, all), Smallest(listing, all)}
            ELSE IF in(f) = {} \/ Cardinality(picks[f - 1]) >= MaxSamples THEN picks[f - 1]
            ELSE picks[f - 1] \cup {Smallest(listing, in(f))}
    IN  IF all = {} THEN {} ELSE picks[Folders]

-----------------------------------------------------------------------------
\* The owner of the bucket writes, empties or deletes an object.
OwnerWrites(o, v) ==
    /\ used.writes < MaxWrites /\ used' = [used EXCEPT !.writes = @ + 1]
    /\ v # bucket[o] /\ bucket' = [bucket EXCEPT ![o] = v]
    /\ UNCHANGED <<scratch, test, orphans, unclean, reported, mig>>

To(t, s) == test' = [test EXCEPT ![t].at = s]

\* run_restore_test up to its first await: the listing's child is started.
RestoreTestStarts(t) ==
    /\ test[t].at = "new" /\ To(t, "list")
    /\ UNCHANGED <<bucket, scratch, orphans, unclean, reported, mig, used>>

\* _list_bucket: a failure, a timeout or an empty sample ends the test with
\* nothing written.
ListBucket(t) ==
    /\ test[t].at = "list"
    /\ \/ /\ SelectSamples(bucket) # {}
          /\ test' = [test EXCEPT ![t].at = "copy", ![t].listed = bucket,
                                  ![t].samples = SelectSamples(bucket),
                                  ![t].left = SelectSamples(bucket)]
          /\ UNCHANGED used
       \/ /\ SelectSamples(bucket) = {} /\ UNCHANGED used
          /\ test' = [test EXCEPT ![t].at = "ended", ![t].told = "failed"]
       \/ ChildFails /\ test' = [test EXCEPT ![t].at = "ended", ![t].told = "failed"]
    /\ UNCHANGED <<bucket, scratch, orphans, unclean, reported, mig>>

\* What the child copyto does: an object that is gone cannot be copied.
Copies(o) == scratch' = [scratch EXCEPT ![o] = IF bucket[o] # 0 THEN bucket[o] ELSE @]

\* The samples in turn; any failure goes to the purge.
CopySample(t, o) ==
    /\ test[t].at = "copy" /\ o \in test[t].left
    /\ \A p \in test[t].left : o =< p
    /\ \/ /\ bucket[o] # 0 /\ Copies(o) /\ UNCHANGED used
          /\ test' = [test EXCEPT ![t].left = @ \ {o},
                                  ![t].at = IF test[t].left = {o} THEN "check" ELSE "copy"]
       \/ /\ bucket[o] = 0 /\ UNCHANGED <<scratch, used>>
          /\ test' = [test EXCEPT ![t].at = "purge", ![t].told = "failed"]
       \/ /\ ChildFails /\ test' = [test EXCEPT ![t].at = "purge", ![t].told = "failed"]
          /\ (Copies(o) \/ UNCHANGED scratch)
    /\ UNCHANGED <<bucket, orphans, unclean, reported, mig>>

\* check --download --one-way over the samples: each that the bucket still holds
\* must have its equal under the prefix.
CheckPasses(samples) == \A o \in samples : bucket[o] # 0 => scratch[o] = bucket[o]

CheckSamples(t) ==
    /\ test[t].at = "check"
    /\ \/ /\ UNCHANGED used
          /\ test' = [test EXCEPT ![t].at = "purge",
                 ![t].told = IF CheckPasses(test[t].samples) THEN "verified" ELSE "mismatch"]
       \/ ChildFails /\ test' = [test EXCEPT ![t].at = "purge", ![t].told = "failed"]
    /\ UNCHANGED <<bucket, scratch, orphans, unclean, reported, mig>>

\* Mutant: only a test that verified purges.
PurgeOnSuccess(t) ==
    /\ test[t].at = "purge" /\ To(t, "ended")
    /\ scratch' = IF test[t].told = "verified" THEN Empty ELSE scratch
    /\ UNCHANGED <<bucket, orphans, unclean, reported, mig, used>>

\* _purge_scratch, in the finally: it never raises; a purge that fails is reported.
PurgeScratch(t) ==
    /\ test[t].at = "purge" /\ To(t, "ended")
    /\ \/ scratch' = Empty /\ UNCHANGED <<used, reported>>
       \/ /\ ChildFails /\ UNCHANGED scratch
          /\ reported' = (reported \/ test[t].told # "cancelled")
    /\ unclean' = (unclean \/ (test[t].told = "cancelled" /\ scratch' # Empty))
    /\ UNCHANGED <<bucket, orphans, mig>>

\* The job is cancelled.  run_rclone stops its child on a timeout only: this child
\* runs on, while the finally purges; a second cancellation leaves the purge too.
TestCancelled(t) ==
    /\ test[t].at \in {"list", "copy", "check", "purge"} /\ CancelIt
    /\ LET writing == test[t].at \in {"copy", "purge"}
           child == IF test[t].at = "copy" THEN [cmd |-> "copy", obj |-> CHOOSE o \in test[t].left :
                                                      \A p \in test[t].left : o =< p]
                    ELSE [cmd |-> "purge", obj |-> 0]
       IN  /\ orphans' = IF writing THEN orphans \cup {child} ELSE orphans
           /\ unclean' = (unclean \/ writing)
    /\ test' = [test EXCEPT ![t].at = IF @ \in {"list", "purge"} THEN "ended" ELSE "purge",
                            ![t].told = "cancelled"]
    /\ UNCHANGED <<bucket, scratch, reported, mig>>

OrphanEnds(c) ==
    /\ c \in orphans /\ orphans' = orphans \ {c}
    /\ IF c.cmd = "copy" THEN Copies(c.obj) ELSE scratch' = Empty
    /\ UNCHANGED <<bucket, test, unclean, reported, mig, used>>

-----------------------------------------------------------------------------
(***************************************************************************)
(* run_migrate and run_rclone_streaming                                    *)
(***************************************************************************)
MigrateStarts ==
    /\ mig = [job |-> "new", child |-> "none"] /\ mig' = [job |-> "reading", child |-> "running"]
    /\ UNCHANGED <<bucket, scratch, test, orphans, unclean, reported, used>>

\* The child ends by itself; its stderr closes and wait() returns.
ChildExits ==
    /\ mig.child \in {"running", "terminating"}
    /\ mig' = [mig EXCEPT !.child = "dead", !.job = IF @ = "reading" THEN "waited" ELSE @]
    /\ UNCHANGED <<bucket, scratch, test, orphans, unclean, reported, used>>

\* The job's end: reason_for_exit, or the end of a stop.
MigrateEnds ==
    /\ mig.job \in {"waited", "stopping"} /\ mig.child = "dead"
    /\ mig' = [mig EXCEPT !.job = IF @ = "waited" THEN "ended" ELSE "cancelled"]
    /\ UNCHANGED <<bucket, scratch, test, orphans, unclean, reported, used>>

\* The finally: a cancelled job stops a child that has not ended.
StopsChild == mig.child = "running"

MigrateCancelled ==
    /\ mig.job \in {"reading", "waited"} /\ CancelIt
    /\ mig' = IF StopsChild THEN [job |-> "stopping", child |-> "terminating"]
              ELSE [mig EXCEPT !.job = "cancelled"]
    /\ UNCHANGED <<bucket, scratch, test, orphans, unclean, reported>>

\* The grace passes, or the stop is itself cancelled: the child is killed.
StopKills ==
    /\ mig.job = "stopping" /\ mig.child = "terminating"
    /\ \/ mig' = [mig EXCEPT !.child = "dead"] /\ UNCHANGED used
       \/ CancelIt /\ mig' = [job |-> "cancelled", child |-> "dead"]
    /\ UNCHANGED <<bucket, scratch, test, orphans, unclean, reported>>

-----------------------------------------------------------------------------
RcloneInit ==
    /\ bucket \in [Objects -> 0 .. MaxSize] /\ scratch = Empty
    /\ test = [t \in Tests |-> NotRun] /\ orphans = {} /\ unclean = FALSE /\ reported = FALSE
    /\ mig = [job |-> "new", child |-> "none"]
    /\ used = [writes |-> 0, faults |-> 0, cancels |-> 0]

RestoreNext ==
    \/ \E o \in Objects, v \in 0 .. MaxSize : OwnerWrites(o, v)
    \/ \E t \in Tests : \/ RestoreTestStarts(t) \/ ListBucket(t) \/ CheckSamples(t)
                        \/ PurgeScratch(t) \/ TestCancelled(t)
                        \/ \E o \in Objects : CopySample(t, o)
    \/ \E c \in orphans : OrphanEnds(c)
MigrateNext == MigrateStarts \/ ChildExits \/ MigrateEnds \/ MigrateCancelled \/ StopKills

RcloneNext == RestoreNext \/ MigrateNext

RcloneSpec == RcloneInit /\ [][RcloneNext]_rcloneVars

-----------------------------------------------------------------------------
Over == \A t \in Tests : test[t].at \in {"new", "ended"}

\* When the restore tests are over nothing is left under the scratch prefix that
\* the control plane was not told of, with two tests on one bucket and with every
\* step failing or timing out; the exception is a cancelled test's own child.
ScratchAccounted == Over /\ scratch # Empty => reported \/ unclean

\* The docstring of run_restore_test: "Cleanup runs on every path."  Violated by
\* the code when the job is cancelled (README, Known divergences).
CleanedOnEveryPath == Over /\ orphans = {} /\ scratch # Empty => reported

\* A sample is representative: the largest and the smallest object, one object of
\* every top-level folder unless the cap is reached, and no more than the cap.
SamplesCover ==
    \A t \in Tests : LET s == test[t].samples IN
        s # {} => /\ Cardinality(s) =< MaxSamples
                  /\ \A o \in Eligible(test[t].listed) :
                        /\ \E p, q \in s : test[t].listed[p] =< test[t].listed[o]
                                             /\ test[t].listed[o] =< test[t].listed[q]
                        /\ \/ Folder[o] = 0 \/ Cardinality(s) = MaxSamples
                           \/ \E p \in s : Folder[p] = Folder[o]

\* A migration that is over, by itself or by any number of cancellations, leaves no
\* child that still writes to the destination.
NoChildOutlives == mig.job \in {"ended", "cancelled"} => mig.child = "dead"

\* The jobs leave nothing behind unsaid, neither objects nor processes, and their sample
\* stands for the bucket.
JobsSound == ScratchAccounted /\ NoChildOutlives /\ SamplesCover
=============================================================================
