---------------------------- MODULE GarageReader ----------------------------
(***************************************************************************)
(* What the agent believes of a Garage cluster's buckets                   *)
(* (garage/state_reader.py, garage/state.py and the writers of             *)
(* runtime.state in agent/).  A periodic loop and an on-demand refresh     *)
(* collect in a thread, one at a time; the hook that follows a command     *)
(* reads single buckets in another thread, in the middle of a collect.     *)
(* The reader's lock is held for each access to the cache and never over a *)
(* call to Garage; the results are stored later, on the event loop.        *)
(*                                                                         *)
(* A bucket's content is its version, 0 when there is none; a bucket id is *)
(* never used again.  One tick of the cadences is one sleep of the loop.   *)
(***************************************************************************)
EXTENDS Naturals, FiniteSets, Sequences

CONSTANTS
    BucketIds,
    HintBatch,     \* MAX_HINTED_READS
    SweepTicks,    \* SWEEP_SECONDS
    RereadTicks,   \* REREAD_SECONDS
    MaxChanges,    \* bound: changes of the cluster, the buckets it has at the start counted
    MaxFaults,     \* bound: calls to Garage that fail
    MaxRefreshes,  \* bound: refresh commands
    MaxHooks       \* bound: commands with a hook

ASSUME ReaderAssumption ==
    /\ HintBatch \in Nat \ {0} /\ SweepTicks \in Nat /\ RereadTicks \in Nat
    /\ SweepTicks =< RereadTicks

Callers == {"loop", "refresh"}

VARIABLES
    cluster,   \* BucketIds -> version
    born,      \* buckets ever created
    hint,      \* the hint file: bucket ids, most recent first
    cached,    \* the cache exists (_buckets is not None)
    cache,     \* _buckets: BucketIds -> version
    absorbing, \* a listing is in flight (_absorbed is not None)
    absorbed,  \* _absorbed: BucketIds -> version
    queued,   \* hinted ids not yet read
    full,      \* _full, the last full read: [complete, listed]
    topology,  \* some topology has been read
    age,       \* ticks since the last sweep and the last re-read
    col,       \* the collect that holds the collect lock
    out,       \* Callers -> a composed state not yet stored
    hook,      \* the post-mutation hook
    state,     \* runtime.state: [there, buckets, complete, listed]
    changes, faults, refreshes, hooks

world == <<cluster, born, hint, changes>>
readerVars == <<world, cached, cache, absorbing, absorbed, queued, full, topology,
                age, col, out, hook, state, faults, refreshes, hooks>>

None == [b \in BucketIds |-> 0]
NoCollect == [who |-> "nobody", at |-> "off", fresh |-> FALSE, every |-> FALSE, swept |-> FALSE,
              ids |-> {}, todo |-> {}, got |-> None, gone |-> {}]
NoHook == [at |-> "off", todo |-> {}, got |-> None, gone |-> {}]
NoState == [there |-> FALSE, swept |-> FALSE, buckets |-> None, complete |-> TRUE, listed |-> {}]

Listed == {b \in BucketIds : cluster[b] # 0}
Over(f, g) == [b \in BucketIds |-> IF g[b] # 0 THEN g[b] ELSE f[b]]
Only(f, S) == [b \in BucketIds |-> IF b \in S THEN f[b] ELSE 0]
Known(f) == {b \in BucketIds : f[b] # 0}

\* A sequence without the members of S, in its order.
Without(s, S) ==
    LET kept[k \in 0 .. Len(s)] ==
            IF k = 0 THEN <<>>
            ELSE IF s[k] \in S THEN kept[k - 1] ELSE Append(kept[k - 1], s[k])
    IN  kept[Len(s)]

-----------------------------------------------------------------------------
(***************************************************************************)
(* The cluster and the writer of the hint file (external)                  *)
(***************************************************************************)
Change(b) ==
    /\ changes < MaxChanges /\ changes' = changes + 1
    /\ b \in born => cluster[b] # 0
    /\ born' = born \cup {b}
    /\ \E v \in {cluster[b] + 1} \cup (IF b \in born THEN {0} ELSE {}) :
          cluster' = [cluster EXCEPT ![b] = v]
    /\ hint' \in {hint, <<b>> \o Without(hint, {b})}
    /\ UNCHANGED <<cached, cache, absorbing, absorbed, queued, full, topology, age, col,
                   out, hook, state, faults, refreshes, hooks>>

\* One GetBucketInfo of read_buckets_by_id, in the reading r: the bucket, a 404,
\* or a call that failed, which says nothing of the bucket.
BucketFromAdminInfo(r, b) ==
    [r EXCEPT !.todo = @ \ {b}, !.got[b] = cluster[b],
              !.gone = IF cluster[b] = 0 THEN @ \cup {b} ELSE @]
Unanswered(r, b) == [r EXCEPT !.todo = @ \ {b}]

\* A call fails.
Fault == faults < MaxFaults /\ faults' = faults + 1

-----------------------------------------------------------------------------
(***************************************************************************)
(* collect(), under the collect lock                                       *)
(***************************************************************************)
\* read_hint: the ids of the file, or none when it is refused (owner, size, schema,
\* age, an id that is not whole).
ReadHint == {hint, <<>>}

\* The ids read lead the ones still queued.
TakeHint(ids) ==
    queued' = ids \o Without(queued, {ids[k] : k \in DOMAIN ids})

Collect(p) ==
    /\ col = NoCollect /\ ~out[p].there
    /\ p = "loop" => age.slept
    /\ p = "refresh" => refreshes < MaxRefreshes
    /\ refreshes' = IF p = "refresh" THEN refreshes + 1 ELSE refreshes
    /\ \E ids \in ReadHint : TakeHint(ids)
    /\ col' = [NoCollect EXCEPT !.who = p, !.at = "topology", !.fresh = (p = "refresh")]
    /\ age' = IF p = "loop" THEN [age EXCEPT !.slept = FALSE] ELSE age
    /\ UNCHANGED <<world, cached, cache, absorbing, absorbed, full, topology, out, hook,
                   state, faults, hooks>>

\* The call ends with no state: nothing is stored.
ReturnsNone == col' = NoCollect

\* _read_topology: a failed read keeps the cached one; with none there is no state.
ReadTopology ==
    /\ col.at = "topology"
    /\ \/ topology' = TRUE /\ col' = [col EXCEPT !.at = "decide"] /\ UNCHANGED faults
       \/ /\ Fault /\ UNCHANGED topology
          /\ IF topology THEN col' = [col EXCEPT !.at = "decide"] ELSE ReturnsNone
    /\ UNCHANGED <<world, cached, cache, absorbing, absorbed, queued, full, age, out, hook,
                   state, refreshes, hooks>>

\* Mutant: the re-read is due on first use only.
RereadOnce == ~cached

\* _changed_this_tick: a full re-read, a membership diff, or only the hints.
RereadDue == ~cached \/ age.reread >= RereadTicks
SweepDue == age.sweep >= SweepTicks

ChangedThisTick ==
    /\ col.at = "decide"
    /\ LET every == col.fresh \/ RereadDue IN
       IF every \/ SweepDue
       THEN /\ col' = [col EXCEPT !.at = "list", !.every = every, !.swept = TRUE]
            /\ absorbing' = TRUE /\ absorbed' = None
       ELSE col' = [col EXCEPT !.at = "drain"] /\ UNCHANGED <<absorbing, absorbed>>
    /\ UNCHANGED <<world, cached, cache, queued, full, topology, age, out, hook, state,
                   faults, refreshes, hooks>>

\* _refresh: one ListBuckets; every listed id, or the ids the cache lacks.
ListBucketIds ==
    /\ col.at = "list"
    /\ \/ /\ col' = [col EXCEPT !.at = "read", !.ids = Listed,
                                !.todo = IF col.every THEN Listed ELSE Listed \ Known(cache)]
          /\ UNCHANGED <<faults, absorbing, absorbed>>
       \/ /\ Fault /\ absorbing' = FALSE /\ absorbed' = None
          /\ IF col.every THEN ReturnsNone ELSE col' = [col EXCEPT !.at = "drain"]
    /\ UNCHANGED <<world, cached, cache, queued, full, topology, age, out, hook, state,
                   refreshes, hooks>>

\* read_buckets_by_id of the listing and of the hints.
ReadBucketsById(b) ==
    /\ col.at \in {"read", "hints"} /\ b \in col.todo
    /\ \/ col' = BucketFromAdminInfo(col, b) /\ UNCHANGED faults
       \/ col' = Unanswered(col, b) /\ Fault
    /\ UNCHANGED <<world, cached, cache, absorbing, absorbed, queued, full, topology, age,
                   out, hook, state, refreshes, hooks>>

\* Mutant: reads absorbed while the listing was in flight do not survive it.
MergeListedOnly(every, ids, got, taken) ==
    Only(Over(Over(IF every THEN None ELSE cache, got), taken), ids)

\* _merge: the reads over what is kept, absorbed reads over both, and only ids
\* listed or absorbed survive.
Merge(every, ids, got, taken) ==
    Only(Over(Over(IF every THEN None ELSE cache, got), taken), ids \cup Known(taken))

\* full_read_freshness: complete when every listed id came back.
FullReadFreshness(ids, read) == [complete |-> ids \subseteq read, listed |-> ids]

\* _absorb_listing, under the lock.
AbsorbListing ==
    /\ col.at = "read" /\ col.todo = {}
    /\ cache' = Merge(col.every, col.ids, col.got, absorbed)
    /\ cached' = TRUE /\ absorbing' = FALSE /\ absorbed' = None
    /\ IF col.every
       THEN /\ queued' = <<>> /\ full' = FullReadFreshness(col.ids, Known(cache'))
            /\ age' = [age EXCEPT !.sweep = 0, !.reread = 0]
            /\ col' = [col EXCEPT !.at = "compose"]
       ELSE /\ age' = [age EXCEPT !.sweep = 0] /\ col' = [col EXCEPT !.at = "drain"]
            /\ UNCHANGED <<queued, full>>
    /\ UNCHANGED <<world, topology, out, hook, state, faults, refreshes, hooks>>

Drain ==
    /\ col.at = "drain"
    /\ LET n == IF Len(queued) < HintBatch THEN Len(queued) ELSE HintBatch IN
       /\ queued' = SubSeq(queued, n + 1, Len(queued))
       /\ col' = [col EXCEPT !.at = "hints", !.got = None, !.gone = {},
                             !.todo = {queued[k] : k \in 1 .. n}]
    /\ UNCHANGED <<world, cached, cache, absorbing, absorbed, full, topology, age, out, hook,
                   state, faults, refreshes, hooks>>

\* read_buckets after its calls, under the lock: upserts, and a 404 leaves now.
Absorb(r) ==
    /\ cache' = IF cached THEN Only(Over(cache, r.got), BucketIds \ r.gone) ELSE cache
    /\ absorbed' = IF absorbing THEN Only(Over(absorbed, r.got), BucketIds \ r.gone) ELSE absorbed

ReadHinted ==
    /\ col.at = "hints" /\ col.todo = {}
    /\ Absorb(col) /\ col' = [col EXCEPT !.at = "compose"]
    /\ UNCHANGED <<world, cached, absorbing, queued, full, topology, age, out, hook, state,
                   faults, refreshes, hooks>>

\* The cache and the last full read's word of itself, together, under the lock.
Compose ==
    /\ col.at = "compose"
    /\ out' = [out EXCEPT ![col.who] = [there |-> TRUE, swept |-> col.swept, buckets |-> cache,
                                        complete |-> full.complete, listed |-> full.listed]]
    /\ col' = NoCollect
    /\ UNCHANGED <<world, cached, cache, absorbing, absorbed, queued, full, topology, age,
                   hook, state, faults, refreshes, hooks>>

-----------------------------------------------------------------------------
(***************************************************************************)
(* The event loop: the writers of runtime.state                            *)
(***************************************************************************)
\* replace_runtime_state, when the awaiting loop or refresh resumes.
ReplaceRuntimeState(p) ==
    /\ out[p].there
    /\ state' = out[p] /\ out' = [out EXCEPT ![p] = NoState]
    /\ UNCHANGED <<world, cached, cache, absorbing, absorbed, queued, full, topology, age,
                   col, hook, faults, refreshes, hooks>>

\* The loop sleeps one interval.
Older(n, period) == IF n < period THEN n + 1 ELSE n
LoopSleeps ==
    /\ ~age.slept /\ ~out["loop"].there /\ col.who # "loop"
    /\ age' = [slept |-> TRUE, sweep |-> Older(age.sweep, SweepTicks),
               reread |-> Older(age.reread, RereadTicks)]
    /\ UNCHANGED <<world, cached, cache, absorbing, absorbed, queued, full, topology, col,
                   out, hook, state, faults, refreshes, hooks>>

\* affected_bucket_ids: the bucket the command names, or those of a key in the
\* snapshot; a bucket named by an alias only is left to the walk.
AffectedBucketIds(b) == {{b}} \cup (IF Known(state.buckets) # {} THEN {Known(state.buckets)} ELSE {})

\* post_success_hook: no baseline, no read.
HookStarts(b) ==
    /\ hook = NoHook /\ state.there /\ b \in born /\ hooks < MaxHooks /\ hooks' = hooks + 1
    /\ \E ids \in AffectedBucketIds(b) : hook' = [NoHook EXCEPT !.at = "read", !.todo = ids]
    /\ UNCHANGED <<world, cached, cache, absorbing, absorbed, queued, full, topology, age,
                   col, out, state, faults, refreshes>>

HookReads(b) ==
    /\ hook.at = "read" /\ b \in hook.todo
    /\ \/ hook' = BucketFromAdminInfo(hook, b) /\ UNCHANGED faults
       \/ hook' = Unanswered(hook, b) /\ Fault
    /\ UNCHANGED <<world, cached, cache, absorbing, absorbed, queued, full, topology, age,
                   col, out, state, refreshes, hooks>>

HookAbsorbs ==
    /\ hook.at = "read" /\ hook.todo = {}
    /\ Absorb(hook) /\ hook' = [hook EXCEPT !.at = "merge"]
    /\ UNCHANGED <<world, cached, absorbing, queued, full, topology, age, col, out, state,
                   faults, refreshes, hooks>>

\* merge_items_into_runtime on the state of now; or the session closed meanwhile.
MergeItems(merged) ==
    /\ hook.at = "merge" /\ hook' = NoHook
    /\ state' = IF merged THEN [state EXCEPT !.buckets = Over(@, hook.got)] ELSE state
    /\ UNCHANGED <<world, cached, cache, absorbing, absorbed, queued, full, topology, age,
                   col, out, faults, refreshes, hooks>>

-----------------------------------------------------------------------------
\* _discover_initial_state, at registration, while there is no state: a walk of its own,
\* which does not go through the reader.
Discovered(read) ==
    [there |-> TRUE, swept |-> TRUE, buckets |-> Only(cluster, read),
     complete |-> Listed \subseteq read, listed |-> Listed]

\* A session begins: the walk of its registration found Garage, or did not.
ReaderInit ==
    /\ born \in SUBSET BucketIds /\ cluster = [b \in BucketIds |-> IF b \in born THEN 1 ELSE 0]
    /\ hint = <<>>
    /\ cached = FALSE /\ cache = None /\ absorbing = FALSE /\ absorbed = None /\ queued = <<>>
    /\ full = [complete |-> TRUE, listed |-> {}] /\ topology = FALSE
    /\ age = [slept |-> TRUE, sweep |-> SweepTicks, reread |-> RereadTicks]
    /\ col = NoCollect /\ out = [p \in Callers |-> NoState] /\ hook = NoHook
    /\ state \in {NoState} \cup {Discovered(read) : read \in SUBSET born}
    /\ changes = Cardinality(born) /\ faults = 0 /\ refreshes = 0 /\ hooks = 0

CollectStep ==
    \/ ReadTopology \/ ChangedThisTick \/ ListBucketIds \/ AbsorbListing \/ Drain
    \/ ReadHinted \/ Compose \/ \E b \in BucketIds : ReadBucketsById(b)
HookStep == (\E b \in BucketIds : HookReads(b)) \/ HookAbsorbs \/ \E m \in BOOLEAN : MergeItems(m)

ReaderNext ==
    \/ \E b \in BucketIds : Change(b) \/ HookStarts(b)
    \/ \E p \in Callers : Collect(p) \/ ReplaceRuntimeState(p)
    \/ CollectStep \/ HookStep \/ LoopSleeps

\* Threads run on and the loop keeps its interval; nobody owes a refresh, a
\* command or a change.
ReaderFairness ==
    /\ WF_readerVars(CollectStep) /\ WF_readerVars(HookStep) /\ WF_readerVars(LoopSleeps)
    /\ WF_readerVars(Collect("loop"))
    /\ \A p \in Callers : WF_readerVars(ReplaceRuntimeState(p))

ReaderSpec == ReaderInit /\ [][ReaderNext]_readerVars /\ ReaderFairness

-----------------------------------------------------------------------------
\* A state that calls itself complete holds every bucket that its full read listed
\* and that still exists: failed calls, hints, hooks and states stored out of
\* order never make a bucket vanish from the control plane's view unsaid.
CompleteMeansAll ==
    \A s \in {state, out["loop"], out["refresh"]} :
        s.complete => \A b \in s.listed : cluster[b] # 0 => s.buckets[b] # 0

\* A bucket leaves the cache only when it is gone, or when the full read that
\* dropped it says that it is incomplete: never because it was created, hinted or
\* read while an older listing was in flight.
DropsOnlyGone ==
    [][\A b \in BucketIds : cache[b] # 0 /\ cache'[b] = 0
         => cluster[b] = 0 \/ (col.every /\ ~full'.complete)]_readerVars

\* Nothing vanishes from the view or from the cache behind the control plane's back.
NothingVanishes == []CompleteMeansAll /\ DropsOnlyGone

\* Once the cluster stops changing, the agent's view of it becomes exact and stays
\* so, whatever stale read was stored last.
Converges == <>[](state.there /\ state.buckets = cluster)

\* The reader's docstring: "Every targeted read goes through read_buckets and lands
\* in the cache, so a non-sweep call never reverts one".  Violated by the code (README,
\* Known divergences).
NonSweepKeepsReads ==
    [][\A p \in Callers : out[p].there /\ ~out[p].swept /\ ~out'[p].there
         => \A b \in BucketIds : out[p].buckets[b] # 0 => out[p].buckets[b] >= state.buckets[b]]_readerVars

=============================================================================
