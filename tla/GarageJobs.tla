----------------------------- MODULE GarageJobs -----------------------------
(***************************************************************************)
(* The long-running commands that change a Garage cluster, or read it for  *)
(* the control plane (garage/jobs).                                        *)
(* A job is one request and the call it is at; every call is awaited, so   *)
(* other jobs, the customers over S3 and the end of the session come       *)
(* between any two.  The steps of a handler are the disjuncts of its       *)
(* action; each names where the job goes for every answer.                 *)
(*                                                                         *)
(* A job that is cancelled in a call leaves the call running in its thread *)
(* (asyncio.to_thread) and never sees the answer: it is "dying" until the  *)
(* call has landed.  Keys stand for their ids and secrets, a bucket for    *)
(* its id and its alias.                                                   *)
(***************************************************************************)
EXTENDS GarageAdmin

CONSTANTS
    MaxJobs,    \* bound: jobs ever started
    MaxStops,   \* bound: ends of a session
    MaxRounds,  \* _MAX_NO_PROGRESS_ROUNDS
    Scenarios   \* what a behaviour may start from

\* TIER_PERMS.
TierPerms == {{"read"}, {"read", "write"}, Perms}

Jobs == 1 .. MaxJobs

ASSUME JobsAssumption ==
    /\ {MaxJobs, MaxStops} \subseteq Nat /\ MaxRounds \in Nat \ {0}
    /\ MaxKeys >= 2 /\ MaxBuckets >= 1
    /\ \A s \in Scenarios :
          s.tiers \subseteq TierPerms /\ s.attached \in TierPerms \cup {{}} /\ s.creators \subseteq {1, 2}

VARIABLES
    scenario,   \* the commands and tiers of the requests; the cluster at the start
    job,        \* the jobs
    stops,      \* sessions ended
    unheard,    \* history: keys made or deleted by a call whose answer, or the id in it, never came
    died,       \* history: the grants each deleted key had
    disturbed   \* history: jobs since whose start somebody else has changed Garage

historyVars == <<unheard, died, disturbed>>
vars == <<garage, scenario, job, stops, historyVars>>

NoGrants == [b \in Buckets |-> {}]
NoHolders == [k \in Keys |-> {}]

\* req: the command and its params; pc: the call it is at; new: the key it made; did:
\* the forward steps its rollback would undo; todo, at: the buckets left of a loop and
\* the one at hand; snap: the grants it read; risk: buckets that would be stranded;
\* rounds: no_progress_rounds; result: the outcome; manual: manual_cleanup_required
\* names the key; holders, rules: the grants on a bucket and the CORS rules reported.
Unborn == [req |-> [cmd |-> "none"], pc |-> "unborn", new |-> 0, did |-> {}, todo |-> {}, at |-> 0,
           snap |-> NoGrants, risk |-> {}, rounds |-> 0, dying |-> FALSE, manual |-> FALSE, result |-> "none",
           holders |-> NoHolders, rules |-> {}]

Running(j) == job[j].pc \notin {"unborn", "done"}

\* The session starts on a cluster with one bucket, its admin key 1 and a key 2 that
\* may have been attached to it.
Init ==
    /\ scenario \in Scenarios
    /\ garage = [keys |-> {1, 2}, minted |-> 2, buckets |-> {1}, created |-> 1,
                 perms |-> [bk \in Buckets \X Keys |->
                     IF bk = <<1, 1>> THEN Perms ELSE IF bk = <<1, 2>> THEN scenario.attached ELSE {}],
                 names |-> {<<1, 1>>} \cup (IF scenario.attached = {} THEN {} ELSE {<<1, 2>>}),
                 creators |-> scenario.creators,
                 objects |-> [b \in Buckets |-> IF b = 1 THEN scenario.objects ELSE 0],
                 cors |-> [b \in Buckets |-> CHOOSE r \in Rules : TRUE],
                 quota |-> [b \in Buckets |-> FALSE]]
    /\ job = [j \in Jobs |-> Unborn]
    /\ stops = 0 /\ unheard = {} /\ disturbed = {} /\ died = [k \in Keys |-> NoGrants]

----------------------------------------------------------------------------
(* How a job moves.                                                        *)

Goto(me, pc) == [me EXCEPT !.pc = pc]

Ends(me, result) ==
    [me EXCEPT !.pc = "done", !.result = result, !.did = {}, !.todo = {}, !.at = 0, !.risk = {},
               !.rounds = 0, !.dying = FALSE]

\* A failure that leaves the key to be removed by hand.
Partial(me) == Ends([me EXCEPT !.manual = TRUE], "failed")

\* The last progress message is awaited before the outcome is returned.
Finalizing(me) == Goto(me, "finalizing")

OkElse(ok, otherwise) == [ok |-> ok, absent |-> otherwise, error |-> otherwise, unnamed |-> otherwise]

\* A CancelledError ends the handler, except that a purge still deletes its key.
Cancelled(me) ==
    IF me.req.cmd = "purge" /\ me.pc \notin {"mint", "unmint"}
    THEN [me EXCEPT !.pc = "unmint", !.dying = TRUE]
    ELSE Ends(me, "cancelled")

\* What a read of a key's buckets shows: those with a permission, and whether the key
\* has a name for them.
Grants(k) ==
    [b \in Buckets |->
        IF garage.perms[b, k] = {} THEN {}
        ELSE garage.perms[b, k] \cup (IF <<b, k>> \in garage.names THEN {"name"} ELSE {})]

DisturbedBy(j, g) == IF g = garage THEN disturbed ELSE disturbed \cup {i \in Jobs : i # j /\ job[i].pc # "unborn"}

\* Job j, at pc, has one of the outcomes of its call and goes where next says.
Call(j, pc, outcomes, next) ==
    /\ job[j].pc = pc
    /\ \E o \in outcomes :
          /\ garage' = o.garage
          /\ job' = [job EXCEPT ![j] = IF job[j].dying THEN Cancelled(job[j]) ELSE next[o.answer]]
          /\ unheard' = IF job[j].dying \/ o.answer \in {"error", "unnamed"}
                        THEN unheard \cup (o.garage.keys \ garage.keys) \cup (garage.keys \ o.garage.keys)
                        ELSE unheard
          /\ died' = [k \in Keys |-> IF k \in garage.keys \ o.garage.keys THEN Grants(k) ELSE died[k]]
          /\ disturbed' = DisturbedBy(j, o.garage)
    /\ UNCHANGED <<scenario, stops>>

\* CreateKey, the first step of every job that makes a key.
Mint(j, mayCreate, next, named) ==
    Call(j, "mint", CreateKey(mayCreate),
         [ok |-> [job[j] EXCEPT !.new = NextKey, !.pc = next],
          unnamed |-> IF named THEN Partial(job[j]) ELSE Ends(job[j], "failed"), error |-> Ends(job[j], "failed")])

\* _rollback: reverse order, of the steps done, halting at the first failure, whose
\* report names the key.
Undo(me) ==
    Goto(me, IF "named" \in me.did THEN "unname" ELSE IF "granted" \in me.did THEN "revoke" ELSE "unmint")

Rollback(j, b, tier) ==
    LET me == job[j]
    IN  \/ Call(j, "unname", RemoveBucketAlias(b, me.new), OkElse(Goto(me, "revoke"), Partial(me)))
        \/ Call(j, "revoke", DenyBucketKey(b, me.new, tier), OkElse(Goto(me, "unmint"), Partial(me)))
        \/ Call(j, "unmint", DeleteKey(me.new), OkElse(Ends(me, "rolled_back"), Partial(me)))

Done(me, step, pc) == [me EXCEPT !.did = @ \cup {step}, !.pc = pc]

----------------------------------------------------------------------------
(* Jobs that make a key.                                                   *)

ProvisionBucket(j) ==
    LET me == job[j]
    IN  /\ me.req.cmd = "provision_bucket"
        /\ \/ Mint(j, FALSE, "create", TRUE)
           \/ Call(j, "create", CreateBucket(me.new), OkElse(Finalizing(me), Goto(me, "unmint")))

RollbackOrphanKey(j) == job[j].req.cmd = "provision_bucket" /\ Rollback(j, 0, {})

ProvisionAccountKey(j) ==
    job[j].req.cmd = "provision_account_key" /\ Mint(j, job[j].req.enable, "finalizing", TRUE)

ProvisionAdditionalKey(j) ==
    LET me == job[j]
    IN  /\ me.req.cmd = "provision_additional_key"
        /\ \/ Mint(j, FALSE, "grant", TRUE)
           \/ Call(j, "grant", AllowBucketKey(me.req.bucket, me.new, me.req.tier),
                   OkElse(Done(me, "granted", "name"), Undo(me)))
           \/ Call(j, "name", AddBucketAlias(me.req.bucket, me.new), OkElse(Finalizing(me), Undo(me)))

RollbackAdditionalKey(j) ==
    job[j].req.cmd = "provision_additional_key" /\ Rollback(j, job[j].req.bucket, job[j].req.tier)

RotateKey(j) ==
    LET me == job[j]
    IN  /\ me.req.cmd = "rotate_key"
        /\ \/ Mint(j, FALSE, "grant", TRUE)
           \/ Call(j, "grant", AllowBucketKey(me.req.bucket, me.new, me.req.tier),
                   OkElse(Done(me, "granted", "name"), Undo(me)))
           \/ Call(j, "name", AddBucketAlias(me.req.bucket, me.new),
                   OkElse(Done(me, "named", "reap"), Undo(me)))
           \/ Call(j, "reap", DeleteKey(me.req.key), OkElse(Finalizing(me), Undo(me)))

RollbackRotation(j) == job[j].req.cmd = "rotate_key" /\ Rollback(j, job[j].req.bucket, job[j].req.tier)

----------------------------------------------------------------------------
(* Jobs on an account key.                                                 *)
\* Mutant of AttachAccountKey: the grant only widens.
AttachOnlyWidens(j) ==
    LET me == job[j] b == me.req.bucket k == me.req.key
        failed == Ends(me, "failed")
    IN  /\ me.req.cmd = "attach_account_key"
        /\ \/ Call(j, "grant", AllowBucketKey(b, k, me.req.tier), OkElse(Goto(me, "name"), failed))
           \/ Call(j, "name", AddBucketAlias(b, k), OkElse(Goto(me, "confirm"), Goto(me, "confirm")))
           \/ Call(j, "confirm", GetKeyInfo(k),
                   OkElse(IF me.req.tier \subseteq garage.perms[b, k] THEN Finalizing(me) ELSE failed, failed))

\* AllowBucketKey only widens, so the permissions the tier excludes are denied; the
\* alias is best effort; the grant is read back.
AttachAccountKey(j) ==
    LET me == job[j] b == me.req.bucket k == me.req.key
        failed == Ends(me, "failed")
    IN  /\ me.req.cmd = "attach_account_key"
        /\ \/ Call(j, "grant", AllowBucketKey(b, k, me.req.tier),
                   OkElse(Goto(me, IF me.req.tier = Perms THEN "name" ELSE "narrow"), failed))
           \/ Call(j, "narrow", DenyBucketKey(b, k, Perms \ me.req.tier), OkElse(Goto(me, "name"), failed))
           \/ Call(j, "name", AddBucketAlias(b, k), OkElse(Goto(me, "confirm"), Goto(me, "confirm")))
           \/ Call(j, "confirm", GetKeyInfo(k),
                   OkElse(IF me.req.tier \subseteq garage.perms[b, k] THEN Finalizing(me) ELSE failed, failed))

DetachAccountKey(j) ==
    LET me == job[j] b == me.req.bucket k == me.req.key
        failed == Ends(me, "failed")
    IN  /\ me.req.cmd = "detach_account_key"
        /\ \/ Call(j, "revoke", DenyBucketKey(b, k, Perms), OkElse(Goto(me, "unname"), failed))
           \/ Call(j, "unname", RemoveBucketAlias(b, k), OkElse(Goto(me, "confirm"), Goto(me, "confirm")))
           \/ Call(j, "confirm", GetKeyInfo(k),
                   OkElse(IF garage.perms[b, k] = {} THEN Finalizing(me) ELSE failed, failed))

\* The key is reported gone when Garage says it deleted it or knows of none.
DeleteKeyJob(j) ==
    LET me == job[j]
    IN  /\ me.req.cmd = "delete_key"
        /\ Call(j, "reap", DeleteKey(me.req.key),
                [ok |-> Ends(me, "success"), absent |-> Ends(me, "success"), error |-> Ends(me, "failed")])

SetAccountKeyCapability(j) ==
    LET me == job[j]
    IN  /\ me.req.cmd = "set_capability"
        /\ Call(j, "update", UpdateKey(me.req.key, me.req.enable), OkElse(Finalizing(me), Ends(me, "failed")))

\* Likewise for the buckets a key reaches.
GetKeyBuckets(j) ==
    LET me == job[j]
    IN  /\ me.req.cmd = "get_key_buckets"
        /\ Call(j, "read", GetKeyInfo(me.req.key),
                [ok |-> Ends([me EXCEPT !.snap = Grants(me.req.key)], "success"),
                 absent |-> Ends(me, "success"), error |-> Ends(me, "failed")])

SnapshotAndReap(j) ==
    LET me == job[j]
    IN  /\ me.req.cmd = "snapshot_and_reap"
        /\ \/ Call(j, "snapshot", GetKeyInfo(me.req.key),
                   [ok |-> [Goto(me, "reap") EXCEPT !.snap = Grants(me.req.key)],
                    absent |-> Ends(me, "success"), error |-> Ends(me, "failed")])
           \/ Call(j, "reap", DeleteKey(me.req.key),
                   [ok |-> Ends(me, "success"), absent |-> Ends(me, "success"),
                    error |-> Ends([me EXCEPT !.snap = NoGrants], "failed")])
\* Mutant of Covers: any grant on the bucket will do.
CoversAny(b, k, wanted) == garage.perms[b, k] # {}

Covers(b, k, wanted) == wanted \cap Perms \subseteq garage.perms[b, k]

\* The loop over to_transfer: a bucket whose grant fails is left for the next pass.
Past(me, b) ==
    IF me.todo = {b} THEN Ends(me, "transferred")
    ELSE [me EXCEPT !.pc = "grant", !.todo = @ \ {b}, !.at = 0]

ConvergeRotation(j) ==
    LET me == job[j] new == me.req.to
        toTransfer == {b \in Buckets : me.snap[b] # {} /\ ~Covers(b, new, me.snap[b])}
    IN  /\ me.req.cmd = "converge_rotation"
        /\ \/ Call(j, "old", GetKeyInfo(me.req.key),
                   [ok |-> [Goto(me, "new") EXCEPT !.snap = Grants(me.req.key)],
                    absent |-> Ends(me, "converged"), error |-> Ends(me, "failed")])
           \/ Call(j, "new", GetKeyInfo(new),
                   OkElse(IF toTransfer = {} THEN Ends(me, "converged")
                          ELSE [Goto(me, "grant") EXCEPT !.todo = toTransfer], Ends(me, "failed")))
           \/ \E b \in me.todo :
                 Call(j, "grant", AllowBucketKey(b, new, me.snap[b] \cap Perms),
                      OkElse(IF "name" \in me.snap[b] THEN [Goto(me, "name") EXCEPT !.at = b] ELSE Past(me, b),
                             Past(me, b)))
           \/ Call(j, "name", AddBucketAlias(me.at, new), OkElse(Past(me, me.at), Past(me, me.at)))

\* _exceeds: read is always allowed.
Exceeds(grant, tier) == (grant \cap {"write", "owner"}) \ tier # {}

OverTier(snap, tier) == {b \in Buckets : Exceeds(snap[b], tier)}

\* Over-tier buckets whose owner permission would go.
LosesOwner(snap, tier) == {b \in OverTier(snap, tier) : "owner" \in snap[b] /\ "owner" \notin tier}
\* Mutant of OtherOwner: the key itself is counted.
SomeOwner(b, k) == \E o \in Keys : "owner" \in garage.perms[b, o]

OtherOwner(b, k) == \E o \in Keys \ {k} : "owner" \in garage.perms[b, o]

\* Read the grants, check every bucket for another owner, and only then narrow.
EnforceTier(j) ==
    LET me == job[j] k == me.req.key tier == me.req.tier
        failed == Ends(me, "failed")
        Narrow(them) == [Goto(them, "narrow") EXCEPT !.todo = OverTier(them.snap, tier), !.at = 0]
        read == [me EXCEPT !.snap = Grants(k)]
        Checked(b) == [me EXCEPT !.todo = @ \ {b}, !.risk = IF OtherOwner(b, k) THEN @ ELSE @ \cup {b}]
    IN  /\ me.req.cmd = "enforce_tier"
        /\ \/ Call(j, "read", GetKeyInfo(k),
                   OkElse(IF OverTier(Grants(k), tier) = {} THEN Ends(read, "success")
                          ELSE IF LosesOwner(Grants(k), tier) = {} THEN Narrow(read)
                          ELSE [Goto(read, "check") EXCEPT !.todo = LosesOwner(Grants(k), tier)], failed))
           \/ \E b \in me.todo :
                 Call(j, "check", GetBucketInfo(b),
                      OkElse(IF Checked(b).todo # {} THEN Checked(b)
                             ELSE IF Checked(b).risk # {} THEN Ends(me, "would_strand")
                             ELSE Narrow(me), failed))
           \/ \E b \in me.todo :
                 Call(j, "narrow", AllowBucketKey(b, k, tier),
                      OkElse([Goto(me, "deny") EXCEPT !.at = b], failed))
           \/ Call(j, "deny", DenyBucketKey(me.at, k, Perms \ tier),
                   OkElse(IF me.todo = {me.at} THEN [Finalizing(me) EXCEPT !.todo = {}, !.at = 0]
                          ELSE [Goto(me, "narrow") EXCEPT !.todo = @ \ {me.at}, !.at = 0], failed))

----------------------------------------------------------------------------
(* Jobs on a bucket.                                                       *)

DeleteProvisionedBucket(j) ==
    LET me == job[j] b == me.req.bucket
        failed == Ends(me, "failed")
    IN  /\ me.req.cmd = "delete_bucket"
        /\ \/ Call(j, "info", GetBucketInfo(b),
                   [ok |-> IF garage.objects[b] > 0 THEN failed ELSE Goto(me, "delete"),
                    absent |-> Ends(me, "success"), error |-> failed])
           \/ Call(j, "delete", DeleteBucket(b), OkElse(Finalizing(me), failed))

SetQuota(j) ==
    LET me == job[j]
    IN  /\ me.req.cmd = "set_quota"
        /\ Call(j, "update", UpdateBucketQuota(me.req.bucket), OkElse(Finalizing(me), Ends(me, "failed")))

\* _read_current_rules; rules of an unknown shape are a failure like any other.
ReadCurrentRules(j, next) ==
    Call(j, "info", GetBucketInfo(job[j].req.bucket), OkElse(next, Ends(job[j], "failed")))

\* The rules are replaced only when they are the ones the caller was shown.
SetCors(j) ==
    LET me == job[j] b == me.req.bucket
    IN  /\ me.req.cmd = "set_cors"
        /\ \/ ReadCurrentRules(j, IF garage.cors[b] = me.req.expected THEN Goto(me, "update")
                                  ELSE Ends([me EXCEPT !.rules = {garage.cors[b]}], "stale"))
           \/ Call(j, "update", UpdateBucketCors(b, me.req.rules),
                   OkElse([Finalizing(me) EXCEPT !.rules = {me.req.rules}], Ends(me, "failed")))

GetCors(j) ==
    LET me == job[j]
    IN  /\ me.req.cmd = "get_cors"
        /\ ReadCurrentRules(j, [Finalizing(me) EXCEPT !.rules = {garage.cors[me.req.bucket]}])

\* Who holds what on a bucket, {} for a key that is not listed or listed with nothing;
\* a bucket that is not there has no holders, and that is a success.
GetBucketOwners(j) ==
    LET me == job[j] b == me.req.bucket
    IN  /\ me.req.cmd = "get_bucket_owners"
        /\ Call(j, "info", GetBucketInfo(b),
                [ok |-> Ends([me EXCEPT !.holders = [k \in Keys |-> garage.perms[b, k]]], "success"),
                 absent |-> Ends(me, "success"), error |-> Ends(me, "failed")])

\* Mutant of Returns: no finally.
ReturnsAtOnce(me, result) == IF result = "success" THEN Finalizing(me) ELSE Ends(me, result)

\* run_clear_bucket returns; a purge goes on to delete its key.
Returns(me, result) ==
    IF me.req.cmd = "purge" THEN [me EXCEPT !.pc = "unmint", !.result = result]
    ELSE IF result = "success" THEN Finalizing(me)
    ELSE Ends(me, result)

\* A round that freed nothing.
NoProgress(me) ==
    IF me.rounds + 1 >= MaxRounds THEN Returns(me, "stalled")
    ELSE [me EXCEPT !.pc = "list", !.rounds = @ + 1]

\* List a page, delete it, list again: an empty list is the proof.
ClearLoop(j, k) ==
    LET me == job[j] b == me.req.bucket
    IN  \/ Call(j, "list", ListObjects(b, k),
                [auth |-> Returns(me, "failed"), error |-> NoProgress(me),
                 empty |-> Returns(me, "success"), page |-> Goto(me, "delete")])
        \/ Call(j, "delete", DeleteObjects(b, k),
                [progress |-> [me EXCEPT !.pc = "list", !.rounds = 0], nothing |-> NoProgress(me)])

ClearBucket(j) == job[j].req.cmd = "clear_bucket" /\ ClearLoop(j, job[j].req.key)
\* Mutant of ClearTimesOut: the clock is read only after a round that freed nothing.
ClearTimesOutWhenStuck(j) ==
    /\ job[j].req.cmd \in {"clear_bucket", "purge"} /\ job[j].pc = "list" /\ ~job[j].dying
    /\ job[j].rounds > 0
    /\ job' = [job EXCEPT ![j] = Returns(@, "stalled")]
    /\ UNCHANGED <<garage, scenario, stops, historyVars>>

\* A list after _MAX_WALL_SECONDS gives up.
ClearTimesOut(j) ==
    /\ job[j].req.cmd \in {"clear_bucket", "purge"} /\ job[j].pc = "list" /\ ~job[j].dying
    /\ job' = [job EXCEPT ![j] = Returns(@, "stalled")]
    /\ UNCHANGED <<garage, scenario, stops, historyVars>>

\* The clear without credentials mints a key for itself; its finally deletes the key.
Purge(j) ==
    LET me == job[j]
        failed == [me EXCEPT !.pc = "unmint", !.result = "failed"]
    IN  /\ me.req.cmd = "purge"
        /\ \/ Mint(j, FALSE, "grant", FALSE)
           \/ Call(j, "grant", AllowBucketKey(me.req.bucket, me.new, {"read", "write"}),
                   OkElse(Goto(me, "name"), failed))
           \/ Call(j, "name", AddBucketAlias(me.req.bucket, me.new), OkElse(Goto(me, "list"), failed))
           \/ ClearLoop(j, me.new)
           \/ Call(j, "unmint", DeleteKey(me.new), OkElse(Ends(me, me.result), Ends([me EXCEPT !.manual = TRUE], me.result)))

----------------------------------------------------------------------------
(* Requests, the end of a session, and the customers.                      *)

MadeKeys == 1 .. garage.minted
MadeBuckets == 1 .. garage.created

\* What the control plane may ask for, of keys and buckets it knows: one set for each
\* stretch of build_job_specs.
SettingRequests ==
    [cmd : {"set_quota", "get_cors"}, bucket : MadeBuckets]
        \cup [cmd : {"set_cors"}, bucket : MadeBuckets, expected : Rules, rules : Rules]
        \cup [cmd : {"set_capability"}, key : MadeKeys, enable : BOOLEAN]

ProvisioningRequests ==
    {[cmd |-> "provision_bucket"]}
        \cup [cmd : {"delete_bucket"}, bucket : MadeBuckets]
        \cup [cmd : {"provision_additional_key"}, bucket : MadeBuckets, tier : scenario.tiers]
        \cup [cmd : {"provision_account_key"}, enable : BOOLEAN]
        \cup [cmd : {"rotate_key"}, key : MadeKeys, bucket : MadeBuckets, tier : scenario.tiers]

AccountKeyRequests ==
    [cmd : {"delete_key"}, key : MadeKeys]
        \cup [cmd : {"detach_account_key"}, key : MadeKeys, bucket : MadeBuckets]
        \cup [cmd : {"attach_account_key"}, key : MadeKeys, bucket : MadeBuckets, tier : scenario.tiers]
        \cup [cmd : {"enforce_tier"}, key : MadeKeys, tier : scenario.tiers]

TransferRequests ==
    {r \in [cmd : {"converge_rotation"}, key : MadeKeys, to : MadeKeys] : r.key # r.to}
        \cup [cmd : {"snapshot_and_reap", "get_key_buckets"}, key : MadeKeys]
        \cup [cmd : {"get_bucket_owners"}, bucket : MadeBuckets]

\* "purge" is the clear that brings no credentials.
ClearingRequests ==
    [cmd : {"clear_bucket"}, key : MadeKeys, bucket : MadeBuckets]
        \cup [cmd : {"purge"}, bucket : MadeBuckets]

Requests == SettingRequests \cup ProvisioningRequests \cup AccountKeyRequests \cup TransferRequests \cup ClearingRequests

FirstCall(cmd) ==
    CASE cmd \in {"provision_bucket", "provision_account_key", "provision_additional_key", "rotate_key", "purge"} -> "mint"
      [] cmd = "attach_account_key" -> "grant"
      [] cmd = "detach_account_key" -> "revoke"
      [] cmd = "delete_key" -> "reap"
      [] cmd = "snapshot_and_reap" -> "snapshot"
      [] cmd \in {"set_capability", "set_quota"} -> "update"
      [] cmd \in {"enforce_tier", "get_key_buckets"} -> "read"
      [] cmd = "converge_rotation" -> "old"
      [] cmd \in {"delete_bucket", "set_cors", "get_cors", "get_bucket_owners"} -> "info"
      [] cmd = "clear_bucket" -> "list"

\* The bounds on keys and buckets leave room for the jobs that have yet to make one.
RoomForKey == garage.minted + Cardinality({j \in Jobs : job[j].pc = "mint"}) < MaxKeys

RoomForBucket ==
    garage.created
        + Cardinality({j \in Jobs : job[j].req.cmd = "provision_bucket" /\ job[j].pc \in {"mint", "create"}})
      < MaxBuckets

Begin(j, me) ==
    /\ job[j].pc = "unborn" /\ \A i \in Jobs : i < j => job[i].pc # "unborn"
    /\ me.req.cmd \in scenario.cmds
    /\ me.pc = "mint" => RoomForKey
    /\ me.req.cmd = "provision_bucket" => RoomForBucket
    /\ job' = [job EXCEPT ![j] = me]
    /\ UNCHANGED <<garage, scenario, stops, historyVars>>

Start(j, r) == Begin(j, [Unborn EXCEPT !.req = r, !.pc = FirstCall(r.cmd)])

\* The leak path: a converge that is given the snapshot a reap reported.
StartFromSnapshot(j, i, to) ==
    /\ job[i].req.cmd = "snapshot_and_reap" /\ job[i].pc = "done" /\ job[i].result = "success"
    /\ to # job[i].req.key
    /\ Begin(j, [Unborn EXCEPT !.req = [cmd |-> "converge_rotation", key |-> job[i].req.key, to |-> to],
                               !.pc = "new", !.snap = job[i].snap])

Finish(j) ==
    /\ job[j].pc = "finalizing"
    /\ job' = [job EXCEPT ![j] = Ends(@, IF @.dying THEN "cancelled" ELSE "success")]
    /\ UNCHANGED <<garage, scenario, stops, historyVars>>

\* shutdown_all cancels every job: one that is between two calls ends there, one that
\* is in a call leaves it to land.
StopAll ==
    /\ stops < MaxStops /\ stops' = stops + 1
    /\ \E between \in SUBSET {j \in Jobs : Running(j)} :
          job' = [j \in Jobs |-> IF ~Running(j) THEN job[j]
                                 ELSE IF j \in between THEN Cancelled(job[j])
                                 ELSE [job[j] EXCEPT !.dying = TRUE]]
    /\ UNCHANGED <<garage, scenario, historyVars>>

ByCustomer(g) ==
    /\ garage' = g
    /\ disturbed' = DisturbedBy(0, g)
    /\ UNCHANGED <<scenario, job, stops, unheard, died>>

CustomerCreates(k) ==
    /\ k \in garage.creators /\ RoomForBucket
    /\ ByCustomer(CreatedFor(k))

CustomerPuts(b, k) ==
    /\ Reaches(b, k, "write") /\ garage.objects[b] < scenario.objects
    /\ ByCustomer([garage EXCEPT !.objects[b] = @ + 1])

Handle(j) ==
    \/ ProvisionBucket(j) \/ RollbackOrphanKey(j)
    \/ ProvisionAccountKey(j)
    \/ ProvisionAdditionalKey(j) \/ RollbackAdditionalKey(j)
    \/ RotateKey(j) \/ RollbackRotation(j)
    \/ AttachAccountKey(j) \/ DetachAccountKey(j)
    \/ DeleteKeyJob(j) \/ SetAccountKeyCapability(j)
    \/ SnapshotAndReap(j) \/ ConvergeRotation(j) \/ EnforceTier(j)
    \/ DeleteProvisionedBucket(j) \/ SetQuota(j) \/ SetCors(j) \/ GetCors(j)
    \/ GetKeyBuckets(j) \/ GetBucketOwners(j)
    \/ ClearBucket(j) \/ Purge(j)
    \/ Finish(j)

Next ==
    \/ \E j \in Jobs : Handle(j) \/ ClearTimesOut(j)
    \/ \E j \in Jobs : \E r \in Requests : Start(j, r)
    \/ \E i, j \in Jobs : \E to \in MadeKeys : StartFromSnapshot(j, i, to)
    \/ StopAll
    \/ \E k \in Keys : CustomerCreates(k)
    \/ \E b \in Buckets, k \in Keys : CustomerPuts(b, k)

Spec == Init /\ [][Next]_vars

\* A call is answered or times out (15 seconds); the clock ends every clear.
FairSpec == Spec /\ \A j \in Jobs : WF_vars(Handle(j)) /\ SF_vars(ClearTimesOut(j))

----------------------------------------------------------------------------
(* Properties.                                                             *)

TypeOK ==
    /\ GarageType
    /\ \A j \in Jobs :
          /\ job[j].new \in 0 .. garage.minted
          /\ job[j].todo \cup job[j].risk \subseteq MadeBuckets
          /\ job[j].at \in {0} \cup job[j].todo
          /\ job[j].snap \in [Buckets -> SUBSET (Perms \cup {"name"})]
          /\ job[j].rounds < MaxRounds
          /\ job[j].holders \in [Keys -> SUBSET Perms] /\ job[j].rules \subseteq Rules
          /\ job[j].dying => Running(j) /\ stops > 0
    /\ unheard \subseteq MadeKeys /\ died \in [Keys -> [Buckets -> SUBSET (Perms \cup {"name"})]]
    /\ disturbed \subseteq {j \in Jobs : job[j].pc # "unborn"}

Ended(j, cmd, results) == job[j].req.cmd = cmd /\ job[j].pc = "done" /\ job[j].result \in results

Succeeded(j, cmd) == Ended(j, cmd, {"success"})

\* A job that ends accounts for the key it made: it is gone, in a successful result, or
\* named in manual_cleanup_required, unless the job was cancelled or an answer
\* about the key never came.  (The rollbacks of provision_bucket,
\* provision_additional_key and rotate_key, and the finally of the clear without
\* credentials.)
NothingLeaked ==
    \A k \in garage.keys \ {1, 2} :
        \/ k \in unheard
        \/ \E j \in Jobs :
              /\ job[j].new = k
              /\ \/ Running(j)
                 \/ job[j].manual \/ job[j].result = "cancelled"
                 \/ job[j].result = "success" /\ job[j].req.cmd # "purge"

\* What is reported gone is gone and stays so, whatever else runs: the key of a delete
\* (a tombstone is cleared on it), of a reap and of a rotation, the key a complete
\* rollback took back, and a deleted bucket.
GoneMeansGone ==
    \A j \in Jobs :
        /\ \A cmd \in {"delete_key", "snapshot_and_reap", "rotate_key"} :
              Succeeded(j, cmd) => job[j].req.key \notin garage.keys
        /\ job[j].result = "rolled_back" => job[j].new \notin garage.keys
        /\ Succeeded(j, "delete_bucket") => job[j].req.bucket \notin garage.buckets

\* Another job that may have deleted k.
OtherDeletes(j, k) ==
    \E i \in Jobs \ {j} :
        \/ job[i].new = k
        \/ job[i].req.cmd \in {"rotate_key", "delete_key", "snapshot_and_reap"} /\ job[i].req.key = k

\* A rotation that reports a failure leaves the old key in place, unless the answer to
\* its deletion was lost or another job deleted it.
OldKeyKept ==
    \A j \in Jobs :
        Ended(j, "rotate_key", {"failed", "rolled_back"}) =>
            LET old == job[j].req.key
            IN  old \in garage.keys \/ old \in unheard \/ OtherDeletes(j, old)

\* The docstring of rotate_key's _rollback: "the whole point of full rollback is leaving
\* the old key in its pre-call state".
RollbackKeepsOldKey ==
    \A j \in Jobs :
        Ended(j, "rotate_key", {"rolled_back"}) =>
            job[j].req.key \in garage.keys \/ OtherDeletes(j, job[j].req.key)

\* While nobody else changes Garage, a job that reports success has brought about exactly
\* what was asked: the permissions of the tier and no other, a key that can address its
\* bucket, no grant above the tier, an empty bucket, the setting; and what it
\* reports of rules and grants is what there is.
DoneAsReported ==
    \A j \in Jobs \ disturbed :
        LET r == job[j].req new == job[j].new
        IN  /\ Succeeded(j, "attach_account_key") => garage.perms[r.bucket, r.key] = r.tier
            /\ Succeeded(j, "detach_account_key") => garage.perms[r.bucket, r.key] = {}
            /\ \A cmd \in {"provision_additional_key", "rotate_key"} :
                  Succeeded(j, cmd) =>
                      garage.perms[r.bucket, new] = r.tier /\ <<r.bucket, new>> \in garage.names
            /\ Succeeded(j, "provision_bucket") => \E b \in garage.buckets : Reaches(b, new, "owner")
            /\ Succeeded(j, "enforce_tier") =>
                  \A b \in Buckets : garage.perms[b, r.key] \subseteq r.tier \cup {"read"}
            /\ (Succeeded(j, "clear_bucket") \/ Succeeded(j, "purge")) => garage.objects[r.bucket] = 0
            /\ Succeeded(j, "set_cors") => garage.cors[r.bucket] = r.rules
            /\ Ended(j, "set_cors", {"stale"}) => garage.cors[r.bucket] # r.expected
            /\ (Ended(j, "set_cors", {"success", "stale"}) \/ Succeeded(j, "get_cors")) =>
                  job[j].rules = {garage.cors[r.bucket]}
            /\ Succeeded(j, "get_key_buckets") => job[j].snap = Grants(r.key)
            /\ Succeeded(j, "get_bucket_owners") => \A k \in Keys : job[j].holders[k] = garage.perms[r.bucket, k]
            /\ Succeeded(j, "set_capability") => (r.key \in garage.creators) = r.enable

\* While nobody else changes Garage, the enforcement of a tier never takes away the last
\* owner of a bucket, not even by failing half way, and one that refuses because it
\* would strand a bucket has changed nothing.
NeverStrands ==
    \A j \in Jobs \ disturbed :
        job[j].req.cmd = "enforce_tier" =>
            /\ \A b \in garage.buckets :
                  "owner" \in job[j].snap[b] => \E k \in garage.keys : "owner" \in garage.perms[b, k]
            /\ job[j].result = "would_strand" => Grants(job[j].req.key) = job[j].snap

\* While nobody else changes Garage, a pass that reports converged leaves the new key
\* with every permission the old key has, or had in the snapshot.
ConvergedCovers ==
    \A j \in Jobs \ disturbed :
        Ended(j, "converge_rotation", {"converged"}) =>
            LET r == job[j].req
            IN  \A b \in Buckets :
                    garage.perms[b, r.key] \cup (job[j].snap[b] \cap Perms) \subseteq garage.perms[b, r.to]

\* While nobody else changes Garage, a reap that reports success carries every grant the
\* key had when it died, unless an answer about the key was lost before.
ListKept ==
    \A j \in Jobs \ disturbed :
        Succeeded(j, "snapshot_and_reap") =>
            LET k == job[j].req.key
            IN  died[k] = job[j].snap \/ k \in unheard \/ OtherDeletes(j, k)

\* Every job ends, whatever is answered and however the customers write.
JobsEnd == \A j \in Jobs : Running(j) ~> job[j].pc = "done"

\* No key is lost track of: one that a job made or replaced is there or gone as its result
\* says, or is named to the operator.
KeysAccounted == NothingLeaked /\ GoneMeansGone /\ OldKeyKept

\* Results are true: a success did what was asked, a converged rotation covers what the
\* old key had, and a reap's list is the whole list.
ReportsTrue == DoneAsReported /\ ConvergedCovers /\ ListKept
=============================================================================
