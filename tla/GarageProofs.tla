---------------------------- MODULE GarageProofs ----------------------------
(***************************************************************************)
(* Proofs about the Garage integration: no bucket vanishes from the        *)
(* agent's view of a cluster (GarageReader); no key is lost track of by    *)
(* the jobs, and what they report is so (GarageJobs).                      *)
(***************************************************************************)
EXTENDS GarageReader, GarageJobs, FiniteSetTheorems, SequenceTheorems, WellFoundedInduction, TLAPS

\* What is said of buckets, with no word of one that never was.
Contents == {f \in [BucketIds -> Nat] : Known(f) \subseteq born}

Views == [there : BOOLEAN, swept : BOOLEAN, buckets : Contents, complete : BOOLEAN,
          listed : SUBSET born]

Places == {"off", "topology", "decide", "list", "read", "drain", "hints", "compose"}

Collects == [who : Callers \cup {"nobody"}, at : Places, fresh : BOOLEAN, every : BOOLEAN,
             swept : BOOLEAN, ids : SUBSET born, todo : SUBSET born, got : Contents,
             gone : SUBSET born]

HookStates == [at : {"off", "read", "merge"}, todo : SUBSET born, got : Contents,
               gone : SUBSET born]

\* The type invariant: nothing is known of a bucket that was never created.
ReaderShape ==
    /\ born \subseteq BucketIds /\ cluster \in Contents
    /\ hint \in Seq(born) /\ queued \in Seq(born)
    /\ cache \in Contents /\ absorbed \in Contents
    /\ full \in [complete : BOOLEAN, listed : SUBSET born]
    /\ col \in Collects /\ (col.at # "off" => col.who \in Callers)
    /\ hook \in HookStates
    /\ state \in Views /\ out \in [Callers -> Views]

\* A reading f that says of itself s is complete, if it says so.
AllThere(f, s) == s.complete => \A b \in s.listed : cluster[b] # 0 => f[b] # 0

\* The views stored and on their way.
ViewsSound ==
    /\ AllThere(state.buckets, state)
    /\ \A p \in Callers : AllThere(out[p].buckets, out[p])

\* What answered 404 does not come back.
GoneIsGone == \A b \in col.gone \cup hook.gone : cluster[b] = 0

\* Reads made while a listing is in flight are absorbed; what the cache holds beside the
\* listing was absorbed, or is gone.
ListingCovers ==
    /\ col.at \in {"list", "read"} => absorbing
    /\ col.at = "read" =>
          \A b \in BucketIds : cluster[b] # 0 /\ cache[b] # 0 => b \in col.ids \/ absorbed[b] # 0

\* The inductive invariant.
ReaderInv == ReaderShape /\ AllThere(cache, full) /\ ViewsSound /\ GoneIsGone /\ ListingCovers

-----------------------------------------------------------------------------
\* A set of numbers that is not empty has a first one.
LEMMA FirstIn ==
    ASSUME NEW S, S \subseteq Nat, S # {}
    PROVE  \E x \in S : \A y \in S : x =< y
<1> DEFINE R == OpToRel(<, Nat)
<1>1. PICK x \in S : \A y \in S : ~ (<<y, x>> \in R)
  BY WFMin, NatLessThanWellFounded
<1>2. \A a, b \in Nat : <<b, a>> \in R <=> b < a
  BY DEF OpToRel
<1> HIDE DEF R
<1>3. ASSUME NEW y \in S PROVE x =< y
  <2>1. x \in Nat /\ y \in Nat /\ ~ (y < x)
    BY <1>1, <1>2
  <2> QED BY <2>1
<1> QED BY <1>1, <1>3

\* What is left of a sequence is a sequence of its elements: the recursion of Without
\* has a solution, and any solution has such values.
LEMMA WithoutTyped ==
    ASSUME NEW T, NEW s \in Seq(T), NEW S
    PROVE  Without(s, S) \in Seq(T)
<1> DEFINE Step(f, k) == IF k = 0 THEN <<>> ELSE IF s[k] \in S THEN f[k - 1] ELSE Append(f[k - 1], s[k])
           Solves(f, n) == f = [k \in 0 .. n |-> Step(f, k)]
           l == Len(s)
<1>1. l \in Nat /\ \A k \in 1 .. l : s[k] \in T
  BY ElementOfSeq, LenProperties
<1> HIDE DEF l
<1>2. ASSUME NEW f, NEW n \in 0 .. l, Solves(f, n) PROVE f[n] \in Seq(T)
  <2>1. \A k \in 0 .. n : f[k] = Step(f, k)
    BY <1>2
  <2> HIDE DEF Solves
  <2> DEFINE Bad == {k \in 0 .. n : f[k] \notin Seq(T)}
  <2>2. SUFFICES ASSUME Bad # {} PROVE FALSE
    BY <1>1
  <2>3. PICK k \in Bad : \A j \in Bad : k =< j
    <3>1. Bad \subseteq Nat
      BY <1>1
    <3> HIDE DEF Bad
    <3> QED BY <2>2, <3>1, FirstIn
  <2>4. k # 0
    BY <2>1, <2>3, EmptySeq
  <2>5. k \in 1 .. l /\ k - 1 \in 0 .. n /\ s[k] \in T
    BY <1>1, <2>3, <2>4
  <2>6. k - 1 \notin Bad
    BY <2>3, <2>5
  <2>7. f[k - 1] \in Seq(T)
    BY <2>5, <2>6
  <2>8. f[k] = f[k - 1] \/ f[k] = Append(f[k - 1], s[k])
    BY <2>1, <2>3, <2>4
  <2>9. Append(f[k - 1], s[k]) \in Seq(T)
    BY <2>5, <2>7, AppendProperties
  <2> QED BY <2>3, <2>7, <2>8, <2>9
<1>3. \E f : Solves(f, l)
  <2> HIDE DEF Solves
  <2> DEFINE Bad == {n \in Nat : \A f : ~Solves(f, n)}
  <2>1. SUFFICES ASSUME Bad # {} PROVE FALSE
    BY <1>1
  <2>2. PICK n \in Bad : \A j \in Bad : n =< j
    BY <2>1, FirstIn
  <2>3. CASE n = 0
    <3> DEFINE f == [k \in 0 .. 0 |-> <<>>]
    <3>1. Solves(f, 0)
      BY DEF Solves
    <3> HIDE DEF Solves, f
    <3> QED BY <2>2, <2>3, <3>1
  <2>4. CASE n # 0
    <3>1. n - 1 \in Nat /\ n - 1 \notin Bad
      <4>1. n \in Nat /\ n - 1 \in Nat /\ ~(n =< n - 1)
        BY <2>2, <2>4
      <4> HIDE DEF Bad
      <4> QED BY <2>2, <4>1
    <3>2. PICK g : Solves(g, n - 1)
      BY <3>1
    <3> DEFINE f == [k \in 0 .. n |-> IF k = n THEN Step(g, n) ELSE g[k]]
    <3>3. ASSUME NEW k \in 0 .. n PROVE f[k] = Step(f, k)
      <4>1. CASE k = n
        <5>1. n - 1 \in 0 .. n /\ n - 1 # n /\ f[n - 1] = g[n - 1] /\ f[n] = Step(g, n)
          BY <2>2, <2>4
        <5> QED BY <4>1, <5>1
      <4>2. CASE k # n
        <5>1. k \in 0 .. n - 1 /\ f[k] = g[k] /\ (k # 0 => k - 1 \in 0 .. n /\ k - 1 # n /\ f[k - 1] = g[k - 1])
          BY <2>2, <4>2
        <5>2. g[k] = Step(g, k)
          BY <3>2, <5>1 DEF Solves
        <5> QED BY <5>1, <5>2
      <4> QED BY <4>1, <4>2
    <3>4. Solves(f, n)
      BY <3>3 DEF Solves
    <3> HIDE DEF Solves, f
    <3> QED BY <2>2, <3>4
  <2> QED BY <2>3, <2>4
<1>4. PICK f : Solves(f, l) /\ Without(s, S) = f[l]
  <2> DEFINE w == CHOOSE f : Solves(f, l)
  <2>1. Solves(w, l)
    BY <1>3
  <2>2. Without(s, S) = w[l]
    BY DEF Without, l
  <2> QED BY <2>1, <2>2
<1> HIDE DEF Solves
<1> QED BY <1>1, <1>2, <1>4

-----------------------------------------------------------------------------
\* The operators on readings.
LEMMA ReadingsTyped ==
    ASSUME born \subseteq BucketIds
    PROVE  /\ None \in Contents
           /\ \A f, g \in Contents : Over(f, g) \in Contents
           /\ \A f \in Contents : \A S : Only(f, S) \in Contents
<1>1. None \in Contents
  BY DEF None, Contents, Known
<1>2. ASSUME NEW f \in Contents, NEW g \in Contents PROVE Over(f, g) \in Contents
  <2>1. Over(f, g) \in [BucketIds -> Nat]
    BY DEF Over, Contents
  <2>2. \A b \in BucketIds : Over(f, g)[b] = IF g[b] # 0 THEN g[b] ELSE f[b]
    BY DEF Over
  <2>3. Known(Over(f, g)) \subseteq born
    BY <2>2 DEF Known, Contents
  <2> QED BY <2>1, <2>3 DEF Contents
<1>3. ASSUME NEW f \in Contents, NEW S PROVE Only(f, S) \in Contents
  <2>1. Only(f, S) \in [BucketIds -> Nat]
    BY DEF Only, Contents
  <2>2. \A b \in BucketIds : Only(f, S)[b] = IF b \in S THEN f[b] ELSE 0
    BY DEF Only
  <2>3. Known(Only(f, S)) \subseteq born
    BY <2>2 DEF Known, Contents
  <2> QED BY <2>1, <2>3 DEF Contents
<1> QED BY <1>1, <1>2, <1>3

\* While no bucket is created, what may be said of them stays.
LEMMA SameBorn ==
    ASSUME born' = born
    PROVE  Contents' = Contents /\ Views' = Views /\ Collects' = Collects /\ HookStates' = HookStates
<1>1. Contents' = Contents
  BY DEF Contents, Known
<1> QED BY <1>1 DEF Views, Collects, HookStates

\* The records that a collect, a hook and a view begin with.
LEMMA BlankTyped ==
    ASSUME born \subseteq BucketIds
    PROVE  NoCollect \in Collects /\ NoHook \in HookStates /\ NoState \in Views
<1>1. None \in Contents
  BY ReadingsTyped
<1> QED BY <1>1 DEF NoCollect, NoHook, NoState, Collects, HookStates, Views, Places, Callers

\* Where the cluster is left alone, one keeps the shape by typing what one assigns.
LEMMA ShapeStays ==
    ASSUME ReaderInv, UNCHANGED <<born, cluster, hint>>,
           queued' \in Seq(born), cache' \in Contents, absorbed' \in Contents,
           full' \in [complete : BOOLEAN, listed : SUBSET born],
           col' \in Collects, col'.at # "off" => col'.who \in Callers,
           hook' \in HookStates, state' \in Views, out' \in [Callers -> Views]
    PROVE  ReaderShape'
BY SameBorn DEF ReaderInv, ReaderShape

\* The facts of the invariant.
LEMMA Facts ==
    ASSUME ReaderInv
    PROVE  /\ born \subseteq BucketIds /\ cluster \in Contents
           /\ hint \in Seq(born) /\ queued \in Seq(born)
           /\ cache \in Contents /\ absorbed \in Contents
           /\ full \in [complete : BOOLEAN, listed : SUBSET born]
           /\ col \in Collects /\ (col.at # "off" => col.who \in Callers)
           /\ hook \in HookStates /\ state \in Views /\ out \in [Callers -> Views]
           /\ AllThere(cache, full) /\ ViewsSound /\ GoneIsGone /\ ListingCovers
BY DEF ReaderInv, ReaderShape

\* A step that leaves the cluster, the cache and the views alone, in which a collect
\* does not list and learns of no bucket gone.
LEMMA QuietCollect ==
    ASSUME ReaderInv, UNCHANGED <<born, cluster, hint, cache, full, hook, state, out>>,
           queued' \in Seq(born), absorbed' \in Contents,
           col' \in Collects, col'.at # "off" => col'.who \in Callers,
           col'.gone \subseteq col.gone,
           ListingCovers'
    PROVE  ReaderInv'
<1>1. ReaderShape'
  BY Facts, ShapeStays
<1>2. AllThere(cache, full)' /\ ViewsSound'
  BY Facts DEF AllThere, ViewsSound
<1>3. GoneIsGone'
  BY Facts DEF GoneIsGone
<1> QED BY <1>1, <1>2, <1>3 DEF ReaderInv

LEMMA CollectBegins ==
    ASSUME ReaderInv, NEW p \in Callers, Collect(p)
    PROVE  ReaderInv'
<1>1. UNCHANGED <<born, cluster, hint, cache, full, hook, state, out, absorbed, absorbing>>
  BY DEF Collect, world
<1>2. PICK ids \in ReadHint : TakeHint(ids)
  BY DEF Collect
<1>3. ids \in Seq(born) /\ Without(queued, {ids[k] : k \in DOMAIN ids}) \in Seq(born)
  BY <1>2, Facts, WithoutTyped, EmptySeq DEF ReadHint
<1>4. queued' \in Seq(born)
  BY <1>2, <1>3, ConcatProperties DEF TakeHint
<1>5. /\ col' \in Collects /\ col'.at = "topology" /\ col'.who = p /\ col'.gone = {}
  <2>1. col' = [NoCollect EXCEPT !.who = p, !.at = "topology", !.fresh = (p = "refresh")]
    BY DEF Collect
  <2>2. NoCollect \in Collects /\ NoCollect.gone = {}
    BY Facts, BlankTyped DEF NoCollect
  <2> QED BY <2>1, <2>2 DEF Collects, Places
<1>6. ListingCovers'
  BY <1>5 DEF ListingCovers
<1> QED BY <1>1, <1>4, <1>5, <1>6, Facts, QuietCollect

\* The steps of a collect that only move it on.
LEMMA CollectMoves ==
    ASSUME ReaderInv, ReadTopology \/ ChangedThisTick \/ ListBucketIds \/ Drain
    PROVE  ReaderInv'
<1>1. /\ UNCHANGED <<born, cluster, hint, cache, full, hook, state, out>>
  BY DEF ReadTopology, ChangedThisTick, ListBucketIds, Drain, world
<1>2. col.at # "off" /\ col.who \in Callers /\ col \in Collects /\ born \subseteq BucketIds
  BY Facts DEF ReadTopology, ChangedThisTick, ListBucketIds, Drain
<1>3. NoCollect \in Collects /\ NoCollect.at = "off" /\ NoCollect.gone = {} /\ None \in Contents
  BY Facts, BlankTyped, ReadingsTyped DEF NoCollect
<1>4. CASE ReadTopology
  <2>1. UNCHANGED <<queued, absorbed, absorbing>> /\ (col' = [col EXCEPT !.at = "decide"] \/ col' = NoCollect)
    BY <1>4 DEF ReadTopology, ReturnsNone
  <2>2. /\ col' \in Collects /\ col'.at \in {"off", "decide"} /\ col'.gone \subseteq col.gone
        /\ col'.at # "off" => col'.who \in Callers
    BY <1>2, <1>3, <2>1 DEF Collects, Places
  <2>3. ListingCovers'
    BY <2>2 DEF ListingCovers
  <2> QED BY <1>1, <2>1, <2>2, <2>3, Facts, QuietCollect
<1>5. CASE ChangedThisTick
  <2>1. /\ UNCHANGED queued
        /\ \/ \E e \in BOOLEAN : col' = [col EXCEPT !.at = "list", !.every = e, !.swept = TRUE]
              /\ absorbing' = TRUE /\ absorbed' = None
           \/ col' = [col EXCEPT !.at = "drain"] /\ UNCHANGED <<absorbing, absorbed>>
    <3>1. (col.fresh \/ RereadDue) \in BOOLEAN
      BY <1>2 DEF Collects, RereadDue
    <3>2. CASE col.fresh \/ RereadDue \/ SweepDue
      <4>1. /\ col' = [col EXCEPT !.at = "list", !.every = col.fresh \/ RereadDue, !.swept = TRUE]
            /\ absorbing' = TRUE /\ absorbed' = None /\ queued' = queued
        BY <1>5, <3>2, ZenonT(60) DEF ChangedThisTick
      <4> QED BY <3>1, <4>1
    <3>3. CASE ~(col.fresh \/ RereadDue \/ SweepDue)
      BY <1>5, <3>3 DEF ChangedThisTick
    <3> QED BY <3>2, <3>3
  <2>2. /\ col' \in Collects /\ col'.at \in {"list", "drain"} /\ col'.gone = col.gone /\ col'.who = col.who
        /\ absorbed' \in Contents /\ (col'.at = "list" => absorbing')
    BY <1>2, <1>3, <2>1, Facts DEF Collects, Places
  <2>3. ListingCovers'
    BY <2>2 DEF ListingCovers
  <2> QED BY <1>1, <1>2, <2>1, <2>2, <2>3, Facts, QuietCollect
<1>6. CASE ListBucketIds
  <2>1. CASE /\ col' = [col EXCEPT !.at = "read", !.ids = Listed,
                                   !.todo = IF col.every THEN Listed ELSE Listed \ Known(cache)]
             /\ UNCHANGED <<absorbing, absorbed, queued>>
    <3>1. Listed \subseteq born
      BY Facts DEF Listed, Contents, Known
    <3>2. col' \in Collects /\ col'.at = "read" /\ col'.ids = Listed /\ col'.gone = col.gone /\ col'.who = col.who
      BY <1>2, <2>1, <3>1 DEF Collects, Places
    <3>3. absorbing'
      BY <1>6, <2>1, Facts DEF ListBucketIds, ListingCovers
    <3>4. ListingCovers'
      BY <1>1, <3>2, <3>3 DEF ListingCovers, Listed
    <3> QED BY <1>1, <1>2, <2>1, <3>2, <3>4, Facts, QuietCollect
  <2>2. CASE /\ absorbed' = None /\ queued' = queued
             /\ col' = NoCollect \/ col' = [col EXCEPT !.at = "drain"]
    <3>1. /\ col' \in Collects /\ col'.at \in {"off", "drain"} /\ col'.gone \subseteq col.gone
          /\ col'.at # "off" => col'.who \in Callers
      BY <1>2, <1>3, <2>2 DEF Collects, Places
    <3>2. ListingCovers'
      BY <3>1 DEF ListingCovers
    <3> QED BY <1>1, <1>3, <2>2, <3>1, <3>2, Facts, QuietCollect
  <2> QED BY <1>6, <2>1, <2>2 DEF ListBucketIds, ReturnsNone
<1>7. CASE Drain
  <2>1. PICK n \in Nat : /\ n =< Len(queued) /\ queued' = SubSeq(queued, n + 1, Len(queued))
                         /\ col' = [col EXCEPT !.at = "hints", !.got = None, !.gone = {},
                                               !.todo = {queued[k] : k \in 1 .. n}]
    <3>1. Len(queued) \in Nat /\ HintBatch \in Nat
      BY Facts, LenProperties, ReaderAssumption
    <3> DEFINE m == IF Len(queued) < HintBatch THEN Len(queued) ELSE HintBatch
    <3>2. /\ queued' = SubSeq(queued, m + 1, Len(queued))
          /\ col' = [col EXCEPT !.at = "hints", !.got = None, !.gone = {},
                                !.todo = {queued[k] : k \in 1 .. m}]
      BY <1>7 DEF Drain
    <3>3. m \in Nat /\ m =< Len(queued)
      BY <3>1
    <3> HIDE DEF m
    <3> QED BY <3>2, <3>3
  <2>2. queued \in Seq(born) /\ Len(queued) \in Nat /\ \A k \in 1 .. Len(queued) : queued[k] \in born
    BY Facts, LenProperties, ElementOfSeq
  <2>3. {queued[k] : k \in 1 .. n} \subseteq born /\ \A k \in n + 1 .. Len(queued) : queued[k] \in born
    BY <2>1, <2>2
  <2>4. queued' \in Seq(born)
    BY <2>1, <2>2, <2>3, SubSeqProperties
  <2>5. col' \in Collects /\ col'.at = "hints" /\ col'.gone = {} /\ col'.who = col.who
    BY <1>2, <1>3, <2>1, <2>3 DEF Collects, Places
  <2>6. absorbed' \in Contents /\ ListingCovers'
    BY <1>7, <2>5, Facts DEF Drain, ListingCovers
  <2> QED BY <1>1, <1>2, <2>4, <2>5, <2>6, QuietCollect
<1> QED BY <1>4, <1>5, <1>6, <1>7

\* One answer of a reading, of a collect or of the hook.
LEMMA AnswerTyped ==
    ASSUME ReaderInv, NEW b \in born
    PROVE  /\ \A r \in Collects : r = col =>
                /\ BucketFromAdminInfo(r, b) \in Collects /\ Unanswered(r, b) \in Collects
                /\ \A q \in {BucketFromAdminInfo(r, b), Unanswered(r, b)} :
                      /\ q.at = r.at /\ q.who = r.who /\ q.ids = r.ids
                      /\ \A a \in q.gone : cluster[a] = 0
           /\ \A r \in HookStates : r = hook =>
                /\ BucketFromAdminInfo(r, b) \in HookStates /\ Unanswered(r, b) \in HookStates
                /\ \A q \in {BucketFromAdminInfo(r, b), Unanswered(r, b)} : \A a \in q.gone : cluster[a] = 0
<1>1. ASSUME NEW f \in Contents PROVE [f EXCEPT ![b] = cluster[b]] \in Contents
  <2>1. cluster[b] \in Nat /\ born \subseteq BucketIds
    BY Facts DEF Contents
  <2> QED BY <2>1 DEF Contents, Known
<1>2. ASSUME NEW r \in Collects, r = col
      PROVE  /\ BucketFromAdminInfo(r, b) \in Collects /\ Unanswered(r, b) \in Collects
             /\ \A q \in {BucketFromAdminInfo(r, b), Unanswered(r, b)} :
                   /\ q.at = r.at /\ q.who = r.who /\ q.ids = r.ids
                   /\ \A a \in q.gone : cluster[a] = 0
  <2> DEFINE g == [r.got EXCEPT ![b] = cluster[b]]
             S == IF cluster[b] = 0 THEN r.gone \cup {b} ELSE r.gone
  <2>1. g \in Contents /\ S \subseteq born /\ r.todo \ {b} \subseteq born
    BY <1>1 DEF Collects
  <2>2. BucketFromAdminInfo(r, b) = [r EXCEPT !.todo = r.todo \ {b}, !.got = g, !.gone = S]
    BY DEF BucketFromAdminInfo
  <2>3. \A a \in S : cluster[a] = 0
    BY <1>2, Facts DEF GoneIsGone
  <2> HIDE DEF g, S
  <2>4. BucketFromAdminInfo(r, b) \in Collects /\ Unanswered(r, b) \in Collects
    BY <2>1, <2>2 DEF Unanswered, Collects
  <2>5. \A a \in r.gone : cluster[a] = 0
    BY <1>2, Facts DEF GoneIsGone
  <2>6. /\ BucketFromAdminInfo(r, b).at = r.at /\ BucketFromAdminInfo(r, b).who = r.who /\ BucketFromAdminInfo(r, b).ids = r.ids
        /\ BucketFromAdminInfo(r, b).gone = S
    BY <2>2 DEF Collects
  <2>7. /\ Unanswered(r, b).at = r.at /\ Unanswered(r, b).who = r.who /\ Unanswered(r, b).ids = r.ids
        /\ Unanswered(r, b).gone = r.gone
    BY DEF Unanswered, Collects
  <2> QED BY <2>3, <2>4, <2>5, <2>6, <2>7
<1>3. ASSUME NEW r \in HookStates, r = hook
      PROVE  /\ BucketFromAdminInfo(r, b) \in HookStates /\ Unanswered(r, b) \in HookStates
             /\ \A q \in {BucketFromAdminInfo(r, b), Unanswered(r, b)} : \A a \in q.gone : cluster[a] = 0
  <2> DEFINE g == [r.got EXCEPT ![b] = cluster[b]]
             S == IF cluster[b] = 0 THEN r.gone \cup {b} ELSE r.gone
  <2>1. g \in Contents /\ S \subseteq born /\ r.todo \ {b} \subseteq born
    BY <1>1 DEF HookStates
  <2>2. BucketFromAdminInfo(r, b) = [r EXCEPT !.todo = r.todo \ {b}, !.got = g, !.gone = S]
    BY DEF BucketFromAdminInfo
  <2>3. \A a \in S : cluster[a] = 0
    BY <1>3, Facts DEF GoneIsGone
  <2> HIDE DEF g, S
  <2>4. BucketFromAdminInfo(r, b) \in HookStates /\ Unanswered(r, b) \in HookStates
    BY <2>1, <2>2 DEF Unanswered, HookStates
  <2>5. \A a \in r.gone : cluster[a] = 0
    BY <1>3, Facts DEF GoneIsGone
  <2>6. BucketFromAdminInfo(r, b).gone = S /\ Unanswered(r, b).gone = r.gone
    BY <2>2 DEF Unanswered, HookStates
  <2> QED BY <2>3, <2>4, <2>5, <2>6
<1> QED BY <1>2, <1>3

\* A call of a collect answers, or fails.
LEMMA CollectReads ==
    ASSUME ReaderInv, NEW b \in BucketIds, ReadBucketsById(b)
    PROVE  ReaderInv'
<1>1. UNCHANGED <<born, cluster, hint, cache, full, hook, state, out, queued, absorbed, absorbing>>
  BY DEF ReadBucketsById, world
<1>2. b \in born /\ col \in Collects /\ col.at # "off"
  BY Facts DEF ReadBucketsById, Collects
<1>3. /\ col' \in Collects /\ col'.at = col.at /\ col'.who = col.who /\ col'.ids = col.ids
      /\ \A a \in col'.gone : cluster[a] = 0
  BY <1>2, AnswerTyped DEF ReadBucketsById
<1>4. ReaderShape'
  BY <1>1, <1>2, <1>3, Facts, ShapeStays
<1>5. AllThere(cache, full)' /\ ViewsSound'
  BY <1>1, Facts DEF AllThere, ViewsSound
<1>6. GoneIsGone' /\ ListingCovers'
  BY <1>1, <1>3, Facts DEF GoneIsGone, ListingCovers
<1> QED BY <1>4, <1>5, <1>6 DEF ReaderInv

-----------------------------------------------------------------------------
\* A reading absorbed: what it saw gone leaves the cache and the reads absorbed for the
\* listing in flight, nothing else does.
LEMMA AbsorbKeeps ==
    ASSUME ReaderInv, NEW r, r.got \in Contents, \A a \in r.gone : cluster[a] = 0, Absorb(r)
    PROVE  /\ cache' \in Contents /\ absorbed' \in Contents
           /\ \A b \in BucketIds : cluster[b] # 0 /\ cache[b] # 0 => cache'[b] # 0
           /\ \A b \in BucketIds : cluster[b] # 0 /\ absorbed[b] # 0 => absorbed'[b] # 0
           /\ absorbing => \A b \in BucketIds : cache'[b] # 0 => cache[b] # 0 \/ absorbed'[b] # 0
<1> DEFINE c == Only(Over(cache, r.got), BucketIds \ r.gone)
           d == Only(Over(absorbed, r.got), BucketIds \ r.gone)
<1>1. c \in Contents /\ d \in Contents /\ cache \in Contents /\ absorbed \in Contents
  BY Facts, ReadingsTyped
<1>2. \A b \in BucketIds :
         /\ c[b] = IF b \in r.gone THEN 0 ELSE IF r.got[b] # 0 THEN r.got[b] ELSE cache[b]
         /\ d[b] = IF b \in r.gone THEN 0 ELSE IF r.got[b] # 0 THEN r.got[b] ELSE absorbed[b]
  BY DEF Only, Over
<1>3. (cache' = c \/ cache' = cache) /\ (absorbed' = d \/ absorbed' = absorbed) /\ (absorbing => absorbed' = d)
  BY DEF Absorb
<1> HIDE DEF c, d
<1>4. /\ cache' \in Contents /\ absorbed' \in Contents
  BY <1>1, <1>3
<1>5. ASSUME NEW b \in BucketIds, cluster[b] # 0
      PROVE  (cache[b] # 0 => cache'[b] # 0) /\ (absorbed[b] # 0 => absorbed'[b] # 0)
  <2>1. b \notin r.gone
    BY <1>5
  <2>2. /\ c[b] = IF r.got[b] # 0 THEN r.got[b] ELSE cache[b]
        /\ d[b] = IF r.got[b] # 0 THEN r.got[b] ELSE absorbed[b]
    BY <1>2, <2>1
  <2> QED BY <1>3, <2>2
<1>6. ASSUME absorbing, NEW b \in BucketIds, cache'[b] # 0, cache[b] = 0 PROVE absorbed'[b] # 0
  <2>1. cache' = c /\ absorbed' = d
    BY <1>3, <1>6
  <2> QED BY <1>2, <1>6, <2>1
<1> QED BY <1>4, <1>5, <1>6

\* What an absorb leaves of the invariant.
LEMMA AbsorbStays ==
    ASSUME ReaderInv, UNCHANGED <<born, cluster, hint, full, state, out, absorbing, queued>>,
           NEW r, r.got \in Contents, \A a \in r.gone : cluster[a] = 0, Absorb(r),
           col' \in Collects, hook' \in HookStates, col'.gone \cup hook'.gone \subseteq col.gone \cup hook.gone,
           col'.at # "off" => col'.who \in Callers,
           col' = col \/ col'.at = "compose"
    PROVE  ReaderInv'
<1>1. /\ cache' \in Contents /\ absorbed' \in Contents
      /\ \A b \in BucketIds : cluster[b] # 0 /\ cache[b] # 0 => cache'[b] # 0
      /\ \A b \in BucketIds : cluster[b] # 0 /\ absorbed[b] # 0 => absorbed'[b] # 0
      /\ absorbing => \A b \in BucketIds : cache'[b] # 0 => cache[b] # 0 \/ absorbed'[b] # 0
  BY AbsorbKeeps
<1>2. ReaderShape'
  BY <1>1, Facts, ShapeStays
<1>3. AllThere(cache, full)'
  <2>1. full.listed \subseteq BucketIds
    BY Facts
  <2> QED BY <1>1, <2>1, Facts DEF AllThere
<1>4. ViewsSound' /\ GoneIsGone'
  BY Facts DEF AllThere, ViewsSound, GoneIsGone
<1>5. ListingCovers'
  <2>1. CASE col' = col
    BY <1>1, <2>1, Facts DEF ListingCovers
  <2>2. CASE col'.at = "compose"
    BY <2>2 DEF ListingCovers
  <2> QED BY <2>1, <2>2
<1> QED BY <1>2, <1>3, <1>4, <1>5 DEF ReaderInv

\* The hinted buckets are absorbed.
LEMMA HintsAbsorbed ==
    ASSUME ReaderInv, ReadHinted
    PROVE  ReaderInv'
<1>1. /\ UNCHANGED <<born, cluster, hint, full, state, out, absorbing, queued, hook>>
      /\ Absorb(col) /\ col' = [col EXCEPT !.at = "compose"] /\ col.at # "off"
  BY DEF ReadHinted, world
<1>2. col.got \in Contents /\ (\A a \in col.gone : cluster[a] = 0) /\ col.who \in Callers
  BY <1>1, Facts DEF Collects, GoneIsGone
<1>3. col' \in Collects /\ col'.at = "compose" /\ col'.gone = col.gone /\ col'.who = col.who
  BY <1>1, Facts DEF Collects, Places
<1> QED BY <1>1, <1>2, <1>3, Facts, AbsorbStays

\* The buckets the hook read are absorbed.
LEMMA HookAbsorbed ==
    ASSUME ReaderInv, HookAbsorbs
    PROVE  ReaderInv'
<1>1. /\ UNCHANGED <<born, cluster, hint, full, state, out, absorbing, queued, col>>
      /\ Absorb(hook) /\ hook' = [hook EXCEPT !.at = "merge"]
  BY DEF HookAbsorbs, world
<1>2. hook.got \in Contents /\ \A a \in hook.gone : cluster[a] = 0
  BY Facts DEF HookStates, GoneIsGone
<1>3. hook' \in HookStates /\ hook'.gone = hook.gone
  BY <1>1, Facts DEF HookStates
<1> QED BY <1>1, <1>2, <1>3, Facts, AbsorbStays

\* The merge of a listing: what it drops is gone, or the full read that dropped it says
\* that it is incomplete.
LEMMA MergeDrops ==
    ASSUME ReaderInv, AbsorbListing
    PROVE  /\ cache' \in Contents
           /\ \A b \in BucketIds : cluster[b] # 0 /\ cache[b] # 0 /\ cache'[b] = 0 => col.every /\ ~full'.complete
<1> DEFINE kept == IF col.every THEN None ELSE cache
<1>1. /\ col.at = "read" /\ cache' = Merge(col.every, col.ids, col.got, absorbed)
      /\ col.every => full' = FullReadFreshness(col.ids, Known(cache'))
  BY DEF AbsorbListing
<1>2. kept \in Contents /\ col.got \in Contents /\ absorbed \in Contents
  BY Facts, ReadingsTyped DEF Collects
<1>3. cache' \in Contents
  BY <1>1, <1>2, Facts, ReadingsTyped DEF Merge
<1>4. \A b \in BucketIds : cache'[b] =
         IF b \in col.ids \/ absorbed[b] # 0
         THEN IF absorbed[b] # 0 THEN absorbed[b] ELSE IF col.got[b] # 0 THEN col.got[b] ELSE kept[b]
         ELSE 0
  BY <1>1 DEF Merge, Only, Over, Known
<1>5. ASSUME NEW b \in BucketIds, cluster[b] # 0, cache[b] # 0, cache'[b] = 0 PROVE col.every /\ ~full'.complete
  <2>1. b \in col.ids \/ absorbed[b] # 0
    BY <1>1, <1>5, Facts DEF ListingCovers
  <2>2. absorbed[b] = 0 /\ col.got[b] = 0 /\ kept[b] = 0 /\ b \in col.ids
    BY <1>4, <1>5, <2>1
  <2>3. col.every
    BY <1>5, <2>2
  <2>4. full' = [complete |-> col.ids \subseteq Known(cache'), listed |-> col.ids]
    BY <1>1, <2>3 DEF FullReadFreshness
  <2>5. ~(col.ids \subseteq Known(cache'))
    BY <1>5, <2>2 DEF Known
  <2>6. ~full'.complete
    BY <2>4, <2>5
  <2> QED BY <2>3, <2>6
<1> QED BY <1>3, <1>5

\* A listing is absorbed.
LEMMA ListingAbsorbed ==
    ASSUME ReaderInv, AbsorbListing
    PROVE  ReaderInv'
<1>1. /\ UNCHANGED <<born, cluster, hint, state, out, hook>>
      /\ col.at = "read" /\ absorbed' = None
      /\ IF col.every
         THEN queued' = <<>> /\ full' = FullReadFreshness(col.ids, Known(cache')) /\ col' = [col EXCEPT !.at = "compose"]
         ELSE UNCHANGED <<queued, full>> /\ col' = [col EXCEPT !.at = "drain"]
  BY DEF AbsorbListing, world
<1>2. /\ col' \in Collects /\ col'.at \in {"compose", "drain"} /\ col'.gone = col.gone /\ col'.who = col.who
      /\ col.who \in Callers /\ col.ids \subseteq born /\ col.every \in BOOLEAN
  BY <1>1, Facts DEF Collects, Places
<1>3. /\ cache' \in Contents /\ absorbed' \in Contents
      /\ \A b \in BucketIds : cluster[b] # 0 /\ cache[b] # 0 /\ cache'[b] = 0 => col.every /\ ~full'.complete
  BY <1>1, MergeDrops, Facts, ReadingsTyped
<1>4. queued' \in Seq(born) /\ full' \in [complete : BOOLEAN, listed : SUBSET born]
  <2>1. FullReadFreshness(col.ids, Known(cache')) \in [complete : BOOLEAN, listed : SUBSET born]
    BY <1>2 DEF FullReadFreshness
  <2> QED BY <1>1, <2>1, Facts, EmptySeq
<1>5. ReaderShape'
  BY <1>1, <1>2, <1>3, <1>4, Facts, ShapeStays
<1>6. AllThere(cache, full)'
  <2>1. CASE col.every
    <3>1. full'.complete = (col.ids \subseteq Known(cache')) /\ full'.listed = col.ids
      BY <1>1, <2>1 DEF FullReadFreshness
    <3> QED BY <3>1 DEF AllThere, Known
  <2>2. CASE ~col.every
    <3>1. full' = full /\ full.listed \subseteq BucketIds
      BY <1>1, <2>2, Facts
    <3> QED BY <1>1, <1>3, <2>2, <3>1, Facts DEF AllThere
  <2> QED BY <2>1, <2>2
<1>7. ViewsSound' /\ GoneIsGone'
  BY <1>1, <1>2, Facts DEF AllThere, ViewsSound, GoneIsGone
<1>8. ListingCovers'
  BY <1>2 DEF ListingCovers
<1> QED BY <1>5, <1>6, <1>7, <1>8 DEF ReaderInv

-----------------------------------------------------------------------------
\* A view is composed.
LEMMA Composed ==
    ASSUME ReaderInv, Compose
    PROVE  ReaderInv'
<1> DEFINE v == [there |-> TRUE, swept |-> col.swept, buckets |-> cache,
                 complete |-> full.complete, listed |-> full.listed]
<1>1. /\ UNCHANGED <<born, cluster, hint, cache, full, state, hook, queued, absorbed>>
      /\ col' = NoCollect /\ col.at # "off" /\ out' = [out EXCEPT ![col.who] = v]
  BY DEF Compose, world
<1>2. NoCollect \in Collects /\ NoCollect.at = "off" /\ NoCollect.gone = {}
  BY Facts, BlankTyped DEF NoCollect
<1>3. v \in Views /\ AllThere(v.buckets, v)
  BY Facts DEF Views, Collects, AllThere
<1> HIDE DEF v
<1>4. out' \in [Callers -> Views] /\ \A p \in Callers : out'[p] = v \/ out'[p] = out[p]
  BY <1>1, <1>3, Facts
<1>5. ReaderShape'
  BY <1>1, <1>2, <1>4, Facts, ShapeStays
<1>6. AllThere(cache, full)' /\ GoneIsGone' /\ ListingCovers'
  BY <1>1, <1>2, Facts DEF AllThere, GoneIsGone, ListingCovers
<1>7. ViewsSound'
  BY <1>1, <1>3, <1>4, Facts DEF AllThere, ViewsSound
<1> QED BY <1>5, <1>6, <1>7 DEF ReaderInv

\* A view is stored, or the hook's reading merged into the one stored.
LEMMA ViewStored ==
    ASSUME ReaderInv, (\E p \in Callers : ReplaceRuntimeState(p)) \/ (\E m \in BOOLEAN : MergeItems(m))
    PROVE  ReaderInv'
<1>1. /\ UNCHANGED <<born, cluster, hint, cache, full, queued, absorbed, absorbing, col>>
  BY DEF ReplaceRuntimeState, MergeItems, world
<1>2. NoHook \in HookStates /\ NoHook.gone = {} /\ NoState \in Views /\ AllThere(NoState.buckets, NoState)
  BY Facts, BlankTyped DEF NoHook, NoState, AllThere
<1>3. CASE \E p \in Callers : ReplaceRuntimeState(p)
  <2>1. PICK p \in Callers : hook' = hook /\ state' = out[p] /\ out' = [out EXCEPT ![p] = NoState]
    BY <1>3 DEF ReplaceRuntimeState
  <2>2. /\ state' \in Views /\ out' \in [Callers -> Views]
        /\ \A q \in Callers : out'[q] = NoState \/ out'[q] = out[q]
    BY <1>2, <2>1, Facts
  <2>3. ReaderShape'
    BY <1>1, <2>1, <2>2, Facts, ShapeStays
  <2>4. ViewsSound'
    BY <1>1, <1>2, <2>1, <2>2, Facts DEF AllThere, ViewsSound
  <2>5. AllThere(cache, full)' /\ GoneIsGone' /\ ListingCovers'
    BY <1>1, <2>1, Facts DEF AllThere, GoneIsGone, ListingCovers
  <2> QED BY <2>3, <2>4, <2>5 DEF ReaderInv
<1>4. CASE \E m \in BOOLEAN : MergeItems(m)
  <2>1. /\ hook' = NoHook /\ out' = out
        /\ state' = state \/ state' = [state EXCEPT !.buckets = Over(state.buckets, hook.got)]
    BY <1>4 DEF MergeItems
  <2>2. /\ Over(state.buckets, hook.got) \in Contents
        /\ \A b \in BucketIds : state.buckets[b] # 0 => Over(state.buckets, hook.got)[b] # 0
    <3>1. state.buckets \in Contents /\ hook.got \in Contents
      BY Facts DEF Views, HookStates
    <3> QED BY <3>1, Facts, ReadingsTyped DEF Over
  <2>3. /\ state' \in Views /\ state'.complete = state.complete /\ state'.listed = state.listed
        /\ \A b \in BucketIds : state.buckets[b] # 0 => state'.buckets[b] # 0
    BY <2>1, <2>2, Facts DEF Views
  <2>4. ReaderShape'
    BY <1>1, <1>2, <2>1, <2>3, Facts, ShapeStays
  <2>5. ViewsSound'
    <3>1. state.listed \subseteq BucketIds
      BY Facts DEF Views
    <3> QED BY <1>1, <2>1, <2>3, <3>1, Facts DEF AllThere, ViewsSound
  <2>6. AllThere(cache, full)' /\ GoneIsGone' /\ ListingCovers'
    BY <1>1, <1>2, <2>1, Facts DEF AllThere, GoneIsGone, ListingCovers
  <2> QED BY <2>4, <2>5, <2>6 DEF ReaderInv
<1> QED BY <1>3, <1>4

\* The hook begins, or a call of it answers or fails.
LEMMA HookMoves ==
    ASSUME ReaderInv, NEW b \in BucketIds, HookStarts(b) \/ HookReads(b)
    PROVE  ReaderInv'
<1>1. UNCHANGED <<born, cluster, hint, cache, full, queued, absorbed, absorbing, col, state, out>>
  BY DEF HookStarts, HookReads, world
<1>2. hook' \in HookStates /\ \A a \in hook'.gone : cluster[a] = 0
  <2>1. CASE HookStarts(b)
    <3>1. PICK ids \in AffectedBucketIds(b) : hook' = [NoHook EXCEPT !.at = "read", !.todo = ids]
      BY <2>1 DEF HookStarts
    <3>2. state.buckets \in Contents /\ b \in born
      BY <2>1, Facts DEF Views, HookStarts
    <3>3. ids \subseteq born
      BY <3>1, <3>2 DEF AffectedBucketIds, Contents
    <3>4. NoHook \in HookStates /\ NoHook.gone = {}
      BY Facts, BlankTyped DEF NoHook
    <3> QED BY <3>1, <3>3, <3>4 DEF HookStates
  <2>2. CASE HookReads(b)
    <3>1. b \in born /\ hook \in HookStates
      BY <2>2, Facts DEF HookReads, HookStates
    <3> QED BY <2>2, <3>1, AnswerTyped DEF HookReads
  <2> QED BY <2>1, <2>2
<1>3. ReaderShape'
  BY <1>1, <1>2, Facts, ShapeStays
<1>4. AllThere(cache, full)' /\ ViewsSound' /\ ListingCovers'
  BY <1>1, Facts DEF AllThere, ViewsSound, ListingCovers
<1>5. GoneIsGone'
  BY <1>1, <1>2, Facts DEF GoneIsGone
<1> QED BY <1>3, <1>4, <1>5 DEF ReaderInv

\* The cluster changes: a bucket is created, changes, or goes for good.
LEMMA ClusterChanges ==
    ASSUME ReaderInv, NEW b \in BucketIds, Change(b)
    PROVE  ReaderInv'
<1>1. /\ UNCHANGED <<cache, full, queued, absorbed, absorbing, col, hook, state, out>>
      /\ born' = born \cup {b} /\ (b \in born => cluster[b] # 0)
      /\ hint' = hint \/ hint' = <<b>> \o Without(hint, {b})
  BY DEF Change
<1>2. PICK v \in Nat : cluster' = [cluster EXCEPT ![b] = v]
  <2>1. cluster[b] + 1 \in Nat
    BY Facts DEF Contents
  <2>2. PICK v \in {cluster[b] + 1} \cup (IF b \in born THEN {0} ELSE {}) : cluster' = [cluster EXCEPT ![b] = v]
    BY DEF Change
  <2>3. v \in Nat
    BY <2>1, <2>2
  <2> QED BY <2>2, <2>3
<1>3. /\ born' \subseteq BucketIds /\ born \subseteq born'
      /\ Contents \subseteq Contents' /\ Views \subseteq Views' /\ Collects \subseteq Collects'
      /\ HookStates \subseteq HookStates' /\ Seq(born) \subseteq Seq(born')
  <2>1. born' \subseteq BucketIds /\ born \subseteq born'
    BY <1>1, Facts
  <2>2. Contents \subseteq Contents'
    BY <2>1 DEF Contents, Known
  <2>3. Views \subseteq Views'
    BY <2>1, <2>2 DEF Views
  <2>4. Collects \subseteq Collects'
    BY <2>1, <2>2 DEF Collects
  <2>5. HookStates \subseteq HookStates'
    BY <2>1, <2>2 DEF HookStates
  <2>6. Seq(born) \subseteq Seq(born')
    BY <2>1, SeqMonotonic
  <2> QED BY <2>1, <2>2, <2>3, <2>4, <2>5, <2>6
<1>4. cluster' \in Contents' /\ \A a \in born : cluster[a] = 0 => cluster'[a] = 0
  <2>1. cluster' \in [BucketIds -> Nat] /\ \A a \in BucketIds : a # b => cluster'[a] = cluster[a]
    BY <1>2, Facts DEF Contents
  <2>2. \A a \in BucketIds : cluster'[a] # 0 => a \in born'
    BY <1>1, <2>1, Facts DEF Contents, Known
  <2> QED BY <1>1, <1>3, <2>1, <2>2 DEF Contents, Known
<1>5. hint' \in Seq(born')
  <2>1. hint \in Seq(born') /\ <<b>> \in Seq(born')
    BY <1>1, <1>3, Facts
  <2>2. Without(hint, {b}) \in Seq(born')
    BY <2>1, WithoutTyped
  <2> QED BY <1>1, <2>1, <2>2, ConcatProperties
<1>6. ReaderShape'
  <2>1. full' \in [complete : BOOLEAN, listed : SUBSET born']
    BY <1>1, <1>3, Facts
  <2>2. /\ queued' \in Seq(born') /\ cache' \in Contents' /\ absorbed' \in Contents'
        /\ col' \in Collects' /\ (col'.at # "off" => col'.who \in Callers) /\ hook' \in HookStates'
        /\ state' \in Views' /\ out' \in [Callers -> Views']
    BY <1>1, <1>3, Facts
  <2> QED BY <1>3, <1>4, <1>5, <2>1, <2>2 DEF ReaderShape
<1>7. AllThere(cache, full)' /\ ViewsSound'
  <2>1. full.listed \subseteq born /\ state.listed \subseteq born /\ \A p \in Callers : out[p].listed \subseteq born
    BY Facts DEF Views
  <2> QED BY <1>1, <1>4, <2>1, Facts DEF AllThere, ViewsSound
<1>8. GoneIsGone'
  <2>1. col.gone \subseteq born /\ hook.gone \subseteq born
    BY Facts DEF Collects, HookStates
  <2> QED BY <1>1, <1>4, <2>1, Facts DEF GoneIsGone
<1>9. ListingCovers'
  <2>1. \A a \in BucketIds : cache[a] # 0 => a \in born
    BY Facts DEF Contents, Known
  <2> QED BY <1>1, <1>4, <2>1, Facts DEF ListingCovers
<1> QED BY <1>6, <1>7, <1>8, <1>9 DEF ReaderInv

-----------------------------------------------------------------------------
\* The initial state.
LEMMA ReaderInitInv == ReaderInit => ReaderInv
<1> SUFFICES ASSUME ReaderInit PROVE ReaderInv
  OBVIOUS
<1>1. /\ born \in SUBSET BucketIds /\ cluster = [b \in BucketIds |-> IF b \in born THEN 1 ELSE 0]
      /\ hint = <<>> /\ queued = <<>> /\ cache = None /\ absorbed = None
      /\ full = [complete |-> TRUE, listed |-> {}]
      /\ col = NoCollect /\ hook = NoHook /\ out = [p \in Callers |-> NoState]
      /\ state \in {NoState} \cup {Discovered(read) : read \in SUBSET born}
  BY DEF ReaderInit
<1>2. None \in Contents /\ NoCollect \in Collects /\ NoHook \in HookStates /\ NoState \in Views
  BY <1>1, ReadingsTyped, BlankTyped
<1>3. NoCollect.at = "off" /\ NoCollect.gone = {} /\ NoHook.gone = {} /\ NoState.listed = {}
  BY DEF NoCollect, NoHook, NoState
<1>4. cluster \in Contents
  BY <1>1 DEF Contents, Known
<1>5. state \in Views /\ AllThere(state.buckets, state)
  <2>1. CASE state = NoState
    BY <1>2, <1>3, <2>1 DEF AllThere
  <2>2. CASE \E read \in SUBSET born : state = Discovered(read)
    <3>1. PICK read \in SUBSET born : state = Discovered(read)
      BY <2>2
    <3>2. /\ state.there = TRUE /\ state.swept = TRUE /\ state.buckets = Only(cluster, read)
          /\ state.complete = (Listed \subseteq read) /\ state.listed = Listed
          /\ state = [there |-> TRUE, swept |-> TRUE, buckets |-> Only(cluster, read),
                      complete |-> Listed \subseteq read, listed |-> Listed]
      BY <3>1 DEF Discovered
    <3>3. Only(cluster, read) \in Contents /\ Listed \in SUBSET born
      BY <1>4 DEF Contents, Known, Only, Listed
    <3>4. \A b \in BucketIds : b \in read => Only(cluster, read)[b] = cluster[b]
      BY DEF Only
    <3>5. \A b \in Listed : b \in BucketIds
      BY DEF Listed
    <3>6. state \in Views
      BY <3>2, <3>3 DEF Views
    <3> QED BY <3>2, <3>4, <3>5, <3>6 DEF AllThere
  <2> QED BY <1>1, <2>1, <2>2
<1>6. ReaderShape
  <2>1. full \in [complete : BOOLEAN, listed : SUBSET born] /\ out \in [Callers -> Views]
    BY <1>1, <1>2
  <2> QED BY <1>1, <1>2, <1>3, <1>4, <1>5, <2>1, EmptySeq DEF ReaderShape
<1>7. AllThere(cache, full) /\ ViewsSound
  BY <1>1, <1>3, <1>5 DEF AllThere, ViewsSound
<1>8. GoneIsGone /\ ListingCovers
  BY <1>1, <1>3 DEF GoneIsGone, ListingCovers
<1> QED BY <1>6, <1>7, <1>8 DEF ReaderInv

\* A step that leaves all of it alone.
LEMMA ReaderStutters ==
    ASSUME ReaderInv,
           UNCHANGED <<born, cluster, hint, cache, full, queued, absorbed, absorbing, col, hook, state, out>>
    PROVE  ReaderInv'
<1>1. ListingCovers' /\ col' \in Collects
  BY Facts DEF ListingCovers
<1> QED BY <1>1, Facts, QuietCollect

\* Every step keeps the invariant.
LEMMA ReaderStep == ReaderInv /\ [ReaderNext]_readerVars => ReaderInv'
<1> SUFFICES ASSUME ReaderInv, [ReaderNext]_readerVars PROVE ReaderInv'
  OBVIOUS
<1>1. CASE UNCHANGED readerVars
  BY <1>1, ReaderStutters DEF readerVars, world
<1>2. CASE \E b \in BucketIds : Change(b) \/ HookStarts(b)
  BY <1>2, ClusterChanges, HookMoves
<1>3. CASE \E p \in Callers : Collect(p) \/ ReplaceRuntimeState(p)
  BY <1>3, CollectBegins, ViewStored
<1>4. CASE CollectStep
  BY <1>4, CollectMoves, ListingAbsorbed, HintsAbsorbed, Composed, CollectReads DEF CollectStep
<1>5. CASE HookStep
  BY <1>5, HookMoves, HookAbsorbed, ViewStored DEF HookStep
<1>6. CASE LoopSleeps
  BY <1>6, ReaderStutters DEF LoopSleeps, world
<1> QED BY <1>1, <1>2, <1>3, <1>4, <1>5, <1>6 DEF ReaderNext

\* The cache loses only what is gone, or what an incomplete full read dropped.
LEMMA DropsStep ==
    ASSUME ReaderInv, [ReaderNext]_readerVars,
           NEW b \in BucketIds, cache[b] # 0, cache'[b] = 0
    PROVE  cluster[b] = 0 \/ (col.every /\ ~full'.complete)
<1>1. CASE AbsorbListing
  BY <1>1, MergeDrops
<1>2. CASE ReadHinted
  <2>1. Absorb(col) /\ col.got \in Contents /\ \A a \in col.gone : cluster[a] = 0
    BY <1>2, Facts DEF ReadHinted, Collects, GoneIsGone
  <2> QED BY <2>1, AbsorbKeeps
<1>3. CASE HookAbsorbs
  <2>1. Absorb(hook) /\ hook.got \in Contents /\ \A a \in hook.gone : cluster[a] = 0
    BY <1>3, Facts DEF HookAbsorbs, HookStates, GoneIsGone
  <2> QED BY <2>1, AbsorbKeeps
<1>4. CASE cache' = cache
  BY <1>4
<1>5. AbsorbListing \/ ReadHinted \/ HookAbsorbs \/ cache' = cache
  BY DEF ReaderNext, readerVars, CollectStep, HookStep, Change, HookStarts, Collect, ReplaceRuntimeState,
         ReadTopology, ChangedThisTick, ListBucketIds, Drain, Compose, ReadBucketsById, HookReads,
         MergeItems, LoopSleeps
<1> QED BY <1>1, <1>2, <1>3, <1>4, <1>5

\* A view that calls itself complete has every bucket its full read listed that still
\* exists, and the cache drops a bucket only when it is gone or when the full read that
\* dropped it says that it is incomplete; whatever calls fail, whatever the hook, the
\* hints and the sweep read in the midst of a listing, and in whichever order the views
\* are stored.
THEOREM NoBucketVanishes == ReaderSpec => NothingVanishes
<1>1. ReaderInv => CompleteMeansAll
  BY Facts DEF CompleteMeansAll, ViewsSound, AllThere, Callers
<1>2. ReaderInv /\ [ReaderNext]_readerVars =>
         [\A b \in BucketIds : cache[b] # 0 /\ cache'[b] = 0
            => cluster[b] = 0 \/ (col.every /\ ~full'.complete)]_readerVars
  BY DropsStep
<1> QED BY <1>1, <1>2, ReaderInitInv, ReaderStep, PTL DEF ReaderSpec, NothingVanishes, DropsOnlyGone

-----------------------------------------------------------------------------
(* The jobs: no key is lost track of.                                      *)

\* Commands that make a key, and that delete the key they are given.
Makers == {"provision_bucket", "provision_account_key", "provision_additional_key", "rotate_key", "purge"}
Reapers == {"rotate_key", "delete_key", "snapshot_and_reap"}

\* Commands about a key, a bucket, a tier.
OfKeys == Reapers \cup {"set_capability", "get_key_buckets", "attach_account_key", "detach_account_key",
                        "enforce_tier", "converge_rotation"}
OfBuckets == {"delete_bucket", "set_quota", "get_cors", "set_cors", "get_bucket_owners",
              "provision_additional_key", "rotate_key", "attach_account_key", "detach_account_key"}
OfTiers == {"provision_additional_key", "rotate_key", "attach_account_key", "enforce_tier"}

\* A job that may delete k.
Deletes(me, k) == me.new = k \/ (me.req.cmd \in Reapers /\ me.req.key = k)

\* The grants on buckets: of keys that are there.
GrantsSound(g) ==
    /\ {"perms", "creators", "names", "objects", "cors"} \subseteq DOMAIN g
    /\ g.perms \in [Buckets \X Keys -> SUBSET Perms] /\ DOMAIN g.cors = Buckets
    /\ \A b \in Buckets, k \in Keys : g.perms[b, k] # {} => b \in g.buckets /\ k \in g.keys
    /\ g.creators \subseteq g.keys

\* The fields of the cluster, and of a job, that a key's fate hangs on.
ClusterSound(g) ==
    /\ {"keys", "minted", "buckets", "created"} \subseteq DOMAIN g /\ GrantsSound(g)
    /\ g.minted \in Nat /\ g.keys \subseteq 1 .. g.minted
    /\ g.created \in Nat /\ g.buckets \subseteq 1 .. g.created

JobShape(me) ==
    {"req", "pc", "new", "manual", "result", "dying", "snap", "todo", "at", "risk", "holders", "rules"} \subseteq DOMAIN me

\* What a job knows was given out.
Named(me, g) ==
    /\ me.new \in 0 .. g.minted
    /\ me.new # 0 => me.req.cmd \in Makers
    /\ me.req.cmd \in Reapers => me.req.key \in 1 .. g.minted /\ me.new # me.req.key
    /\ me.req.cmd = "delete_bucket" => me.req.bucket \in 1 .. g.created

Asked(me, g) ==
    /\ me.req.cmd \in OfKeys => me.req.key \in 1 .. g.minted
    /\ me.req.cmd \in OfBuckets => me.req.bucket \in 1 .. g.created
    /\ me.req.cmd \in OfTiers => me.req.tier \subseteq Perms
    /\ me.req.cmd = "set_capability" => me.req.enable \in BOOLEAN
    /\ me.req.cmd = "converge_rotation" => me.req.to \in (1 .. g.minted) \ {me.req.key}

\* Where a job may be.
Placed(me) ==
    /\ me.pc = "unborn" => me.req.cmd = "none"
    /\ me.pc \in {"unborn", "mint"} => me.new = 0
    /\ me.pc = "finalizing" => me.req.cmd \notin {"delete_key", "snapshot_and_reap", "purge"}
    /\ me.pc # "done" => me.result # "rolled_back"

\* The key a job made, when it is there: the job is still at work on it, or says so.
Accounted(me, g, lost) ==
    me.new \in g.keys \ lost =>
        \/ me.pc # "done" \/ me.manual \/ me.result = "cancelled"
        \/ (me.result = "success" /\ me.req.cmd # "purge")

\* What a job has reported gone, or will when its last message is out.
GoneSoon(me, g) ==
    /\ (me.pc = "done" /\ me.result = "success") \/ me.pc = "finalizing" =>
          /\ me.req.cmd \in Reapers => me.req.key \notin g.keys
          /\ me.req.cmd = "delete_bucket" => me.req.bucket \notin g.buckets
    /\ me.result = "rolled_back" => me.new \notin g.keys

JobSound(me, g, lost) ==
    JobShape(me) /\ Asked(me, g) /\ Named(me, g) /\ Placed(me) /\ Accounted(me, g, lost) /\ GoneSoon(me, g)

\* A job that is past the deletion of the key it was given, or was cancelled.
PastReap(me) == me.pc = "finalizing" \/ (me.pc = "done" /\ me.result \in {"success", "cancelled"})

\* The key of one that is not: there, or its deletion is another's, or unheard of.
OldKeyThere(j) ==
    LET old == job[j].req.key
    IN  job[j].req.cmd \in Reapers /\ ~PastReap(job[j]) =>
            (old \in garage.keys \cup unheard) \/ \E i \in Jobs \ {j} : Deletes(job[i], old)

\* Every key that was made is there, or unheard of, or some job's to delete; and one that
\* is there was there at the start, or is unheard of, or some job made it.
KeysTraced ==
    /\ \A k \in 1 .. garage.minted : k \in garage.keys \cup unheard \/ \E j \in Jobs : Deletes(job[j], k)
    /\ \A k \in garage.keys \ {1, 2} : k \in unheard \/ \E j \in Jobs : job[j].new = k

\* The bounds leave room for the keys and buckets that jobs are about to make.
AboutToMint == {j \in Jobs : job[j].pc = "mint"}
AboutToCreate == {j \in Jobs : job[j].req.cmd = "provision_bucket" /\ job[j].pc \in {"mint", "create"}}

RoomLeft ==
    /\ garage.minted + Cardinality(AboutToMint) =< MaxKeys
    /\ garage.created + Cardinality(AboutToCreate) =< MaxBuckets

\* The inductive invariant.
KeysInv ==
    /\ ClusterSound(garage) /\ DOMAIN job = Jobs /\ scenario \in Scenarios
    /\ \A j \in Jobs : JobSound(job[j], garage, unheard) /\ OldKeyThere(j)
    /\ KeysTraced /\ RoomLeft

-----------------------------------------------------------------------------
\* The cluster goes on from g to h: what was given out stays given out, what is gone
\* stays gone, and a key that is given out is there.
Forward(g, h) ==
    /\ ClusterSound(h)
    /\ g.minted =< h.minted /\ g.created =< h.created
    /\ h.keys \cap (1 .. g.minted) \subseteq g.keys
    /\ h.buckets \cap (1 .. g.created) \subseteq g.buckets
    /\ (g.minted + 1) .. h.minted \subseteq h.keys

\* What a call may give out: a key to a job at "mint", a bucket to one at "create".
Spends(me, g, h) ==
    /\ h.minted = g.minted \/ (h.minted = g.minted + 1 /\ me.pc = "mint")
    /\ h.created = g.created
          \/ (h.created = g.created + 1 /\ me.req.cmd = "provision_bucket" /\ me.pc = "create")

\* And where the job may be then.
Spent(me, you, g, h) ==
    /\ you.pc = "mint" => me.pc = "mint" /\ h.minted = g.minted
    /\ you.pc \in {"mint", "create"} => me.pc \in {"mint", "create"} /\ h.created = g.created

\* A job that was me is now you, and the cluster that was g is h.
Moves(me, you, g, h, lost) ==
    /\ you.req = me.req
    /\ me.new # 0 => you.new = me.new
    /\ JobSound(you, h, lost)
    /\ h.keys \ g.keys \subseteq {you.new} \cup lost
    /\ \A k \in g.keys \ h.keys : Deletes(me, k)
    /\ Spends(me, g, h) /\ Spent(me, you, g, h)
    /\ me.req.cmd \in Reapers /\ ~PastReap(you) =>
          ~PastReap(me) /\ (me.req.key \in g.keys => me.req.key \in h.keys \cup lost)

\* What is known of deleted keys stays known.
DiedSoFar ==
    unheard \subseteq unheard' /\ \A k \in Keys : k \in garage'.keys \/ k \notin garage.keys => died'[k] = died[k]

\* A step of job j: what it keeps of the job and of the others, and whom it disturbs.
Keeps(j) ==
    /\ KeysInv'
    /\ job'[j].req = job[j].req /\ (job[j].new # 0 => job'[j].new = job[j].new)
    /\ \A i \in Jobs \ {j} : job'[i] = job[i]
    /\ disturbed' = DisturbedBy(j, garage') /\ DiedSoFar

\* A job that does not move stays sound.
LEMMA StaysSound ==
    ASSUME NEW me, NEW g, NEW h, NEW u, NEW v,
           ClusterSound(g), Forward(g, h), u \subseteq v, JobSound(me, g, u)
    PROVE  JobSound(me, h, v)
<1>1. Named(me, h)
  BY DEF JobSound, Named, Forward, ClusterSound
<1>4. Asked(me, h)
  BY DEF JobSound, Asked, Forward, ClusterSound
<1>2. Accounted(me, h, v)
  <2>1. me.new \in h.keys \ v => me.new \in g.keys \ u
    BY DEF JobSound, Named, Forward, ClusterSound
  <2> QED BY <2>1 DEF JobSound, Accounted
<1>3. GoneSoon(me, h)
  <2>1. me.new \notin g.keys => me.new \notin h.keys
    BY DEF JobSound, Named, Forward, ClusterSound
  <2>2. me.req.cmd \in Reapers /\ me.req.key \notin g.keys => me.req.key \notin h.keys
    BY DEF JobSound, Named, Forward, ClusterSound
  <2>3. me.req.cmd = "delete_bucket" /\ me.req.bucket \notin g.buckets => me.req.bucket \notin h.buckets
    BY DEF JobSound, Named, Forward, ClusterSound
  <2> QED BY <2>1, <2>2, <2>3 DEF JobSound, GoneSoon
<1> QED BY <1>1, <1>2, <1>3, <1>4 DEF JobSound

\* Sets of jobs are finite, and count no more when they shrink.
LEMMA FewerWait ==
    ASSUME NEW S \in SUBSET Jobs
    PROVE  /\ IsFiniteSet(S) /\ Cardinality(S) \in Nat
           /\ \A T \in SUBSET S : Cardinality(T) \in Nat /\ Cardinality(T) =< Cardinality(S)
           /\ \A j \in S : \A T \in SUBSET (S \ {j}) : Cardinality(T) \in Nat /\ Cardinality(T) + 1 =< Cardinality(S)
           /\ \A j \in Jobs : Cardinality(S \cup {j}) =< Cardinality(S) + 1
<1>1. IsFiniteSet(Jobs)
  BY JobsAssumption, FS_Interval DEF Jobs
<1>2. IsFiniteSet(S) /\ Cardinality(S) \in Nat
  BY <1>1, FS_Subset, FS_CardinalityType
<1>3. ASSUME NEW T \in SUBSET S PROVE IsFiniteSet(T) /\ Cardinality(T) \in Nat /\ Cardinality(T) =< Cardinality(S)
  BY <1>2, FS_Subset, FS_CardinalityType
<1>4. ASSUME NEW j \in S, NEW T \in SUBSET (S \ {j}) PROVE Cardinality(T) + 1 =< Cardinality(S)
  <2>1. IsFiniteSet(S \ {j}) /\ Cardinality(S \ {j}) = Cardinality(S) - 1
    BY <1>2, FS_RemoveElement
  <2>2. Cardinality(T) =< Cardinality(S \ {j})
    BY <2>1, FS_Subset
  <2>3. Cardinality(T) \in Nat
    BY <1>3
  <2> QED BY <1>2, <2>1, <2>2, <2>3
<1>5. ASSUME NEW j \in Jobs PROVE Cardinality(S \cup {j}) =< Cardinality(S) + 1
  BY <1>2, FS_AddElement
<1> QED BY <1>2, <1>3, <1>4, <1>5

\* One more job waiting counts at most one more.
LEMMA OneMoreWaits ==
    ASSUME NEW S \in SUBSET Jobs, NEW j \in Jobs, NEW T \in SUBSET (S \cup {j})
    PROVE  Cardinality(T) \in Nat /\ Cardinality(T) =< Cardinality(S) + 1
<1>1. S \cup {j} \in SUBSET Jobs
  OBVIOUS
<1>2. Cardinality(T) \in Nat /\ Cardinality(T) =< Cardinality(S \cup {j}) /\ Cardinality(S \cup {j}) \in Nat
  BY <1>1, FewerWait
<1>3. Cardinality(S \cup {j}) =< Cardinality(S) + 1 /\ Cardinality(S) \in Nat
  BY FewerWait
<1> QED BY <1>2, <1>3

\* What is given out and what jobs wait for stays within the bounds.
LEMMA LessWaits ==
    ASSUME ClusterSound(garage), ClusterSound(garage'), RoomLeft,
           \/ garage'.minted = garage.minted /\ AboutToMint' \subseteq AboutToMint
           \/ /\ garage'.minted = garage.minted + 1
              /\ \E j \in AboutToMint : AboutToMint' \subseteq AboutToMint \ {j},
           \/ garage'.created = garage.created /\ AboutToCreate' \subseteq AboutToCreate
           \/ /\ garage'.created = garage.created + 1
              /\ \E j \in AboutToCreate : AboutToCreate' \subseteq AboutToCreate \ {j}
    PROVE  RoomLeft'
<1>1. AboutToMint \in SUBSET Jobs /\ AboutToCreate \in SUBSET Jobs
  BY DEF AboutToMint, AboutToCreate
<1>2. garage.minted \in Nat /\ garage'.minted \in Nat /\ garage.created \in Nat /\ garage'.created \in Nat
  BY DEF ClusterSound
<1>3. Cardinality(AboutToMint) \in Nat /\ Cardinality(AboutToCreate) \in Nat
  BY <1>1, FewerWait
<1>4. /\ Cardinality(AboutToMint') \in Nat
      /\ garage'.minted + Cardinality(AboutToMint') =< garage.minted + Cardinality(AboutToMint)
  <2>1. CASE garage'.minted = garage.minted /\ AboutToMint' \subseteq AboutToMint
    <3>1. Cardinality(AboutToMint') \in Nat /\ Cardinality(AboutToMint') =< Cardinality(AboutToMint)
      BY <1>1, <2>1, FewerWait
    <3> QED BY <3>1, <2>1, <1>2, <1>3
  <2>2. CASE garage'.minted = garage.minted + 1 /\ \E j \in AboutToMint : AboutToMint' \subseteq AboutToMint \ {j}
    <3>1. Cardinality(AboutToMint') \in Nat /\ Cardinality(AboutToMint') + 1 =< Cardinality(AboutToMint)
      BY <1>1, <2>2, FewerWait
    <3> QED BY <3>1, <2>2, <1>2, <1>3
  <2> QED BY <2>1, <2>2
<1>5. /\ Cardinality(AboutToCreate') \in Nat
      /\ garage'.created + Cardinality(AboutToCreate') =< garage.created + Cardinality(AboutToCreate)
  <2>1. CASE garage'.created = garage.created /\ AboutToCreate' \subseteq AboutToCreate
    <3>1. Cardinality(AboutToCreate') \in Nat /\ Cardinality(AboutToCreate') =< Cardinality(AboutToCreate)
      BY <1>1, <2>1, FewerWait
    <3> QED BY <3>1, <2>1, <1>2, <1>3
  <2>2. CASE /\ garage'.created = garage.created + 1
             /\ \E j \in AboutToCreate : AboutToCreate' \subseteq AboutToCreate \ {j}
    <3>1. Cardinality(AboutToCreate') \in Nat /\ Cardinality(AboutToCreate') + 1 =< Cardinality(AboutToCreate)
      BY <1>1, <2>2, FewerWait
    <3> QED BY <3>1, <2>2, <1>2, <1>3
  <2> QED BY <2>1, <2>2
<1>6. MaxKeys \in Nat /\ MaxBuckets \in Nat
  BY GarageAssumption
<1> QED BY <1>2, <1>3, <1>4, <1>5, <1>6 DEF RoomLeft

\* A step in which one job moves keeps the invariant.
LEMMA MoveKeeps ==
    ASSUME KeysInv, NEW j \in Jobs, NEW you, job' = [job EXCEPT ![j] = you],
           scenario' = scenario, disturbed' = DisturbedBy(j, garage'),
           Forward(garage, garage'), DiedSoFar,
           Moves(job[j], you, garage, garage', unheard')
    PROVE  Keeps(j)
<1>1. /\ DOMAIN job' = Jobs /\ job'[j] = you /\ \A i \in Jobs \ {j} : job'[i] = job[i]
      /\ unheard \subseteq unheard'
  BY DEF KeysInv, DiedSoFar
<1>2. ASSUME NEW i \in Jobs PROVE JobSound(job'[i], garage', unheard')
  <2>1. CASE i = j BY <2>1, <1>1 DEF Moves
  <2>2. CASE i # j
    BY <2>2, <1>1, StaysSound DEF KeysInv
  <2> QED BY <2>1, <2>2
<1>3. \A k : \A i \in Jobs : k # 0 /\ Deletes(job[i], k) => Deletes(job'[i], k)
  BY <1>1 DEF Moves, Deletes
<1>4. \A k : \A i \in Jobs : k # 0 /\ job[i].new = k => job'[i].new = k
  BY <1>1 DEF Moves
<1>5. ASSUME NEW k \in garage.keys \ garage'.keys PROVE Deletes(job[j], k) /\ k # 0
  BY <1>5 DEF Moves, KeysInv, ClusterSound
<1>6. ASSUME NEW i \in Jobs PROVE OldKeyThere(i)'
  <2> DEFINE old == job[i].req.key
  <2> SUFFICES ASSUME job'[i].req.cmd \in Reapers, ~PastReap(job'[i])
               PROVE  (old \in garage'.keys \cup unheard') \/ \E m \in Jobs \ {i} : Deletes(job'[m], old)
    BY <1>1 DEF OldKeyThere, Moves
  <2>1. job[i].req.cmd \in Reapers /\ ~PastReap(job[i]) /\ job'[i].req = job[i].req
    BY <1>1 DEF Moves
  <2>2. (old \in garage.keys \cup unheard) \/ \E m \in Jobs \ {i} : Deletes(job[m], old)
    BY <2>1 DEF KeysInv, OldKeyThere
  <2>3. old # 0
    BY <2>1 DEF KeysInv, JobSound, Named, ClusterSound
  <2>4. CASE \E m \in Jobs \ {i} : Deletes(job[m], old)
    BY <2>4, <2>3, <1>3
  <2>5. CASE old \in unheard
    BY <2>5, <1>1
  <2>6. CASE old \in garage.keys /\ old \notin garage'.keys
    <3>1. CASE i = j
      BY <3>1, <2>1, <2>6, <1>1 DEF Moves
    <3>2. CASE i # j
      BY <3>2, <2>6, <1>5, <1>3
    <3> QED BY <3>1, <3>2
  <2> QED BY <2>2, <2>4, <2>5, <2>6
<1>7. ASSUME NEW k \in 1 .. garage'.minted
      PROVE  k \in garage'.keys \cup unheard' \/ \E i \in Jobs : Deletes(job'[i], k)
  <2>1. CASE k \in 1 .. garage.minted
    <3>1. k \in garage.keys \cup unheard \/ \E i \in Jobs : Deletes(job[i], k)
      BY <2>1 DEF KeysInv, KeysTraced
    <3>2. k # 0
      BY <2>1 DEF KeysInv, ClusterSound
    <3>3. k \in garage.keys => k \in garage'.keys \/ Deletes(job[j], k)
      BY <1>5
    <3> QED BY <3>1, <3>2, <3>3, <1>3, <1>1
  <2>2. CASE k \notin 1 .. garage.minted
    <3>1. k \in (garage.minted + 1) .. garage'.minted
      BY <2>2 DEF KeysInv, ClusterSound, Forward
    <3> QED BY <3>1 DEF Forward
  <2> QED BY <2>1, <2>2
<1>8. ASSUME NEW k \in garage'.keys \ {1, 2}
      PROVE  k \in unheard' \/ \E i \in Jobs : job'[i].new = k
  <2>1. k # 0
    BY DEF Forward, ClusterSound
  <2>2. CASE k \in garage.keys
    BY <2>1, <2>2, <1>4, <1>1 DEF KeysInv, KeysTraced
  <2>3. CASE k \notin garage.keys
    BY <2>3, <1>1 DEF Moves
  <2> QED BY <2>2, <2>3
<1>9. KeysTraced'
  BY <1>7, <1>8 DEF KeysTraced
<1>10. RoomLeft'
  <2>1. /\ garage'.minted = garage.minted /\ AboutToMint' \subseteq AboutToMint
        \/ /\ garage'.minted = garage.minted + 1 /\ j \in AboutToMint
           /\ AboutToMint' \subseteq AboutToMint \ {j}
    BY <1>1 DEF Moves, Spends, Spent, AboutToMint
  <2>2. /\ garage'.created = garage.created /\ AboutToCreate' \subseteq AboutToCreate
        \/ /\ garage'.created = garage.created + 1 /\ j \in AboutToCreate
           /\ AboutToCreate' \subseteq AboutToCreate \ {j}
    BY <1>1 DEF Moves, Spends, Spent, AboutToCreate
  <2> QED BY <2>1, <2>2, LessWaits DEF KeysInv, Forward
<1> QED BY <1>1, <1>2, <1>6, <1>9, <1>10 DEF KeysInv, Forward, Keeps, Moves

-----------------------------------------------------------------------------
\* How a job moves.
Same(me, you) == JobShape(you) /\ you.req = me.req /\ you.new = me.new

\* What each way to move leaves of a job.
LEMMA HowJobsMove ==
    ASSUME NEW me, JobShape(me)
    PROVE  /\ \A r : /\ Same(me, Ends(me, r))
                     /\ Ends(me, r).pc = "done" /\ Ends(me, r).result = r /\ Ends(me, r).manual = me.manual
           /\ \A p : /\ Same(me, Goto(me, p))
                     /\ Goto(me, p).pc = p /\ Goto(me, p).result = me.result
           /\ \A s, p : /\ Same(me, Done(me, s, p))
                        /\ Done(me, s, p).pc = p /\ Done(me, s, p).result = me.result
           /\ Same(me, Partial(me)) /\ Partial(me).pc = "done" /\ Partial(me).manual
           /\ Partial(me).result = "failed"
<1>1. \A r : /\ Same(me, Ends(me, r))
             /\ Ends(me, r).pc = "done" /\ Ends(me, r).result = r /\ Ends(me, r).manual = me.manual
  BY DEF JobShape, Same, Ends
<1>2. \A p : Same(me, Goto(me, p)) /\ Goto(me, p).pc = p /\ Goto(me, p).result = me.result
  BY DEF JobShape, Same, Goto
<1>3. \A s, p : Same(me, Done(me, s, p)) /\ Done(me, s, p).pc = p /\ Done(me, s, p).result = me.result
  BY DEF JobShape, Same, Done
<1>4. /\ Same(me, Partial(me)) /\ Partial(me).pc = "done" /\ Partial(me).manual
      /\ Partial(me).result = "failed"
  BY DEF JobShape, Same, Partial, Ends
<1> QED BY <1>1, <1>2, <1>3, <1>4

\* At work: neither unborn, nor about to make a key, nor with its outcome known.
AtWork(pc) == pc \notin {"unborn", "mint", "create", "finalizing", "done"}

\* The commands with a word about keys or buckets that are gone.
Special == Makers \cup Reapers \cup {"delete_bucket"}

\* A turn of a job in a cluster that stays as it is: one that stays at work.
LEMMA TurnsAtWork ==
    ASSUME NEW me, NEW you, NEW g, NEW u, ClusterSound(g), JobSound(me, g, u), me.pc \notin {"finalizing", "done"},
           Same(me, you), AtWork(you.pc), you.result # "rolled_back"
    PROVE  Moves(me, you, g, g, u)
<1>1. Named(you, g) /\ Placed(you) /\ Asked(you, g)
  BY DEF JobSound, Named, Placed, AtWork, Same, Asked
<1>2. Accounted(you, g, u) /\ GoneSoon(you, g)
  BY DEF Accounted, GoneSoon, AtWork
<1>3. Spends(me, g, g) /\ Spent(me, you, g, g)
  BY DEF Spends, Spent, AtWork
<1> QED BY <1>1, <1>2, <1>3 DEF Moves, JobSound, PastReap, Same, AtWork

\* A turn that keeps the job what it is.
Plain(me, you) ==
    Same(me, you) /\ you.pc \notin {"unborn", "mint", "create"} /\ (you.pc = "done" \/ you.result = me.result)

\* One of a job that has no word about what is gone.
LEMMA TurnsPlainly ==
    ASSUME NEW me, NEW you, NEW g, NEW u, ClusterSound(g), JobSound(me, g, u), me.req.cmd \notin Special,
           me.pc # "done", Plain(me, you)
    PROVE  Moves(me, you, g, g, u)
<1>0. /\ Same(me, you) /\ you.pc \notin {"unborn", "mint", "create"}
      /\ you.pc # "done" => you.result # "rolled_back"
  BY DEF Plain, JobSound, Placed
<1>1. you.new = 0 /\ you.new \notin g.keys
  BY <1>0 DEF JobSound, Named, Same, Special, ClusterSound
<1>2. Named(you, g) /\ Placed(you) /\ Asked(you, g)
  BY <1>0, <1>1 DEF JobSound, Named, Placed, Asked, Same, Special, Makers, Reapers
<1>3. Accounted(you, g, u) /\ GoneSoon(you, g)
  BY <1>0, <1>1 DEF Accounted, GoneSoon, Special, Same
<1>4. Spends(me, g, g) /\ Spent(me, you, g, g)
  BY <1>0 DEF Spends, Spent
<1> QED BY <1>0, <1>2, <1>3, <1>4 DEF Moves, JobSound, Same, Special, Reapers

\* A cancelled job leaves the rest to the answer it will not hear.
LEMMA TurnsCancelled ==
    ASSUME NEW me, NEW g, NEW h, NEW u, NEW v,
           ClusterSound(g), Forward(g, h), u \subseteq v, JobSound(me, g, u), me.pc # "done",
           h.keys \ g.keys \subseteq v, g.keys \ h.keys \subseteq v,
           \A k \in g.keys \ h.keys : Deletes(me, k), Spends(me, g, h)
    PROVE  Moves(me, Cancelled(me), g, h, v)
<1>1. JobSound(me, h, v)
  BY StaysSound
<1>2. CASE me.req.cmd = "purge" /\ me.pc \notin {"mint", "unmint"}
  <2>1. /\ JobShape(Cancelled(me)) /\ Cancelled(me).req = me.req /\ Cancelled(me).new = me.new
        /\ Cancelled(me).pc = "unmint" /\ Cancelled(me).result = me.result
    BY <1>1, <1>2 DEF Cancelled, JobSound, JobShape
  <2>2. Named(Cancelled(me), h) /\ Placed(Cancelled(me)) /\ Asked(Cancelled(me), h)
    BY <2>1, <1>1 DEF JobSound, Named, Placed, Asked
  <2>3. Accounted(Cancelled(me), h, v) /\ GoneSoon(Cancelled(me), h)
    BY <2>1, <1>1 DEF JobSound, Placed, Accounted, GoneSoon
  <2> QED BY <2>1, <2>2, <2>3, <1>2 DEF Moves, JobSound, Spent, Reapers
<1>3. CASE ~(me.req.cmd = "purge" /\ me.pc \notin {"mint", "unmint"})
  <2>1. /\ JobShape(Cancelled(me)) /\ Cancelled(me).req = me.req /\ Cancelled(me).new = me.new
        /\ Cancelled(me).pc = "done" /\ Cancelled(me).result = "cancelled"
    BY <1>1, <1>3 DEF Cancelled, Ends, JobSound, JobShape
  <2>2. Named(Cancelled(me), h) /\ Placed(Cancelled(me)) /\ Asked(Cancelled(me), h)
    BY <2>1, <1>1 DEF JobSound, Named, Placed, Asked
  <2>3. Accounted(Cancelled(me), h, v) /\ GoneSoon(Cancelled(me), h)
    BY <2>1 DEF Accounted, GoneSoon
  <2> QED BY <2>1, <2>2, <2>3 DEF Moves, JobSound, PastReap, Spent
<1> QED BY <1>2, <1>3

\* The keys whose fate an outcome settles and whose answer does not say so.
Settles(o) == unheard \cup (o.garage.keys \ garage.keys) \cup (garage.keys \ o.garage.keys)

Heard(o) == IF o.answer \in {"error", "unnamed"} THEN Settles(o) ELSE unheard

\* A call keeps the invariant when every turn its answers lead to is sound.
LEMMA CallKeeps ==
    ASSUME KeysInv, NEW j \in Jobs, NEW STATE pc, NEW STATE outcomes, NEW STATE next,
           Call(j, pc, outcomes, next), pc # "done",
           \A o \in outcomes :
              /\ Forward(garage, o.garage)
              /\ \A k \in garage.keys \ o.garage.keys : Deletes(job[j], k)
              /\ Moves(job[j], next[o.answer], garage, o.garage, Heard(o))
    PROVE  Keeps(j)
<1>1. PICK o \in outcomes :
          /\ garage' = o.garage
          /\ job' = [job EXCEPT ![j] = IF job[j].dying THEN Cancelled(job[j]) ELSE next[o.answer]]
          /\ unheard' = IF job[j].dying \/ o.answer \in {"error", "unnamed"} THEN Settles(o) ELSE unheard
          /\ scenario' = scenario /\ disturbed' = DisturbedBy(j, garage')
          /\ died' = [k \in Keys |-> IF k \in garage.keys \ garage'.keys THEN Grants(k) ELSE died[k]]
  BY DEF Call, Settles
<1>2. job[j].pc = pc /\ ClusterSound(garage) /\ JobSound(job[j], garage, unheard)
  BY DEF Call, KeysInv
<1>3. unheard \subseteq unheard' /\ DiedSoFar /\ Forward(garage, garage')
  BY <1>1 DEF Settles, DiedSoFar
<1>4. CASE job[j].dying
  <2>1. Moves(job[j], Cancelled(job[j]), garage, garage', unheard')
    <3>1. Spends(job[j], garage, garage')
      BY <1>1 DEF Moves
    <3> QED BY <3>1, <1>1, <1>2, <1>3, <1>4, TurnsCancelled DEF Settles
  <2> QED BY <2>1, <1>1, <1>3, <1>4, MoveKeeps
<1>5. CASE ~job[j].dying
  <2>1. unheard' = Heard(o)
    BY <1>1, <1>5 DEF Heard
  <2>2. Moves(job[j], next[o.answer], garage, garage', unheard')
    BY <1>1, <2>1
  <2> QED BY <2>2, <1>1, <1>3, <1>5, MoveKeeps
<1> QED BY <1>4, <1>5

-----------------------------------------------------------------------------
\* Calls that leave keys and the list of buckets alone.
Quiet(g) ==
    /\ {"keys", "minted", "buckets", "created"} \subseteq DOMAIN g /\ GrantsSound(g)
    /\ g.keys = garage.keys /\ g.minted = garage.minted
    /\ g.buckets = garage.buckets /\ g.created = garage.created

\* Such a call keeps the invariant when the turns it leads to are sound where it was made.
LEMMA QuietKeeps ==
    ASSUME KeysInv, NEW j \in Jobs, NEW STATE pc, NEW STATE outcomes, NEW STATE next,
           Call(j, pc, outcomes, next), pc # "done",
           \A o \in outcomes : Quiet(o.garage) /\ Moves(job[j], next[o.answer], garage, garage, unheard)
    PROVE  Keeps(j)
<1>1. ASSUME NEW o \in outcomes
      PROVE  /\ Forward(garage, o.garage) /\ Heard(o) = unheard
             /\ garage.keys \ o.garage.keys = {}
             /\ Moves(job[j], next[o.answer], garage, o.garage, unheard)
  <2>1. Quiet(o.garage) /\ ClusterSound(garage)
    BY DEF KeysInv
  <2>2. Forward(garage, o.garage) /\ Heard(o) = unheard
    BY <2>1 DEF Forward, Quiet, ClusterSound, Heard, Settles
  <2>3. JobSound(next[o.answer], garage, unheard) => JobSound(next[o.answer], o.garage, unheard)
    BY <2>1, <2>2, StaysSound
  <2>4. Moves(job[j], next[o.answer], garage, garage, unheard)
    OBVIOUS
  <2> QED BY <2>1, <2>2, <2>3, <2>4 DEF Moves, Quiet, Spends, Spent
<1> QED BY <1>1, CallKeeps

Answers == {"ok", "absent", "error"}

\* Which calls those are, and how each may be answered.
LEMMA QuietCalls ==
    ASSUME ClusterSound(garage)
    PROVE  /\ \A b, k, P : P \subseteq Perms =>
                  \A o \in AllowBucketKey(b, k, P) : Quiet(o.garage) /\ o.answer \in Answers
           /\ \A b, k, P : \A o \in DenyBucketKey(b, k, P) : Quiet(o.garage) /\ o.answer \in Answers
           /\ \A b, k : \A o \in AddBucketAlias(b, k) \cup RemoveBucketAlias(b, k) :
                  Quiet(o.garage) /\ o.answer \in Answers
           /\ \A k, e : \A o \in UpdateKey(k, e) : Quiet(o.garage) /\ o.answer \in Answers
           /\ \A b, r : \A o \in UpdateBucketCors(b, r) \cup UpdateBucketQuota(b) :
                  Quiet(o.garage) /\ o.answer \in Answers
           /\ \A k : \A o \in GetKeyInfo(k) :
                  Quiet(o.garage) /\ o.answer \in Answers /\ (o.answer = "absent" => k \notin garage.keys)
           /\ \A b : \A o \in GetBucketInfo(b) :
                  Quiet(o.garage) /\ o.answer \in Answers /\ (o.answer = "absent" => b \notin garage.buckets)
           /\ \A b, k : \A o \in ListObjects(b, k) :
                  Quiet(o.garage) /\ o.answer \in {"auth", "error", "empty", "page"}
           /\ \A b, k : \A o \in DeleteObjects(b, k) : Quiet(o.garage) /\ o.answer \in {"progress", "nothing"}
<1>1. \A g, a : Quiet(g) => \A o \in Applied(g) \cup Absent \cup Read(a) :
                                Quiet(o.garage) /\ o.answer \in Answers
  BY DEF Applied, Absent, Read, Unchanged, Quiet, ClusterSound, Answers
<1>6. Quiet(garage)
  BY DEF Quiet, ClusterSound
<1>2. ASSUME NEW b, NEW k, NEW P, <<b, k>> \in Buckets \X Keys => P \subseteq Perms, Both(b, k)
      PROVE  Quiet([garage EXCEPT !.perms[<<b, k>>] = P])
  <2> DEFINE f == [garage.perms EXCEPT ![<<b, k>>] = P]
             g == [garage EXCEPT !.perms[<<b, k>>] = P]
  <2>1. f \in [Buckets \X Keys -> SUBSET Perms]
    BY <1>2 DEF ClusterSound, GrantsSound
  <2>2. ASSUME NEW c \in Buckets, NEW d \in Keys, f[c, d] # {} PROVE c \in garage.buckets /\ d \in garage.keys
    BY <1>2, <2>2 DEF ClusterSound, GrantsSound, Both
  <2>3. /\ DOMAIN g = DOMAIN garage /\ g.perms = f
        /\ \A x \in {"keys", "minted", "buckets", "created", "creators", "cors"} : g[x] = garage[x]
    BY DEF ClusterSound, GrantsSound
  <2> HIDE DEF f, g
  <2> QED BY <2>1, <2>2, <2>3 DEF Quiet, ClusterSound, GrantsSound, g
<1>3. \A b, k, n : \A o \in BucketAliasLocalChange(b, k, n) : Quiet(o.garage) /\ o.answer \in Answers
  <2> TAKE b, k, n
  <2>1. Quiet([garage EXCEPT !.names = n])
    BY DEF Quiet, ClusterSound, GrantsSound
  <2> QED BY <2>1, <1>1 DEF BucketAliasLocalChange
<1>4. \A k, e : \A o \in UpdateKey(k, e) : Quiet(o.garage) /\ o.answer \in Answers
  <2> TAKE k, e
  <2> DEFINE g == [garage EXCEPT !.creators = IF e THEN @ \cup {k} ELSE @ \ {k}]
  <2>1. k \in garage.keys => Quiet(g)
    BY DEF Quiet, ClusterSound, GrantsSound
  <2>2. UpdateKey(k, e) = IF k \in garage.keys THEN Applied(g) ELSE Absent
    BY DEF UpdateKey
  <2> HIDE DEF g
  <2>3. k \notin garage.keys => \A o \in Absent : Quiet(o.garage) /\ o.answer \in Answers
    BY <1>6, <1>1
  <2> QED BY <2>1, <2>2, <2>3, <1>1
<1>5. \A b, r : \A o \in UpdateBucketCors(b, r) \cup UpdateBucketQuota(b) : Quiet(o.garage) /\ o.answer \in Answers
  <2> TAKE b, r
  <2>1. Quiet([garage EXCEPT !.cors[b] = r]) /\ Quiet([garage EXCEPT !.quota[b] = TRUE])
    BY DEF Quiet, ClusterSound, GrantsSound
  <2> QED BY <2>1, <1>1 DEF UpdateBucketCors, UpdateBucketQuota, UpdateBucket
<1>a. ASSUME NEW b, NEW k, NEW P, <<b, k>> \in Buckets \X Keys => P \subseteq Perms
      PROVE  \A o \in BucketKeyPermChange(b, k, P) : Quiet(o.garage) /\ o.answer \in Answers
  <2>1. CASE Both(b, k)
    BY <2>1, <1>a, <1>1, <1>2 DEF BucketKeyPermChange
  <2>2. CASE ~Both(b, k)
    BY <2>2, <1>1, <1>6 DEF BucketKeyPermChange
  <2> QED BY <2>1, <2>2
<1>b. /\ \A b, k, P : P \subseteq Perms =>
                  \A o \in AllowBucketKey(b, k, P) : Quiet(o.garage) /\ o.answer \in Answers
      /\ \A b, k, P : \A o \in DenyBucketKey(b, k, P) : Quiet(o.garage) /\ o.answer \in Answers
  BY <1>a DEF AllowBucketKey, DenyBucketKey, ClusterSound, GrantsSound
<1>7. \A there : \A o \in Read(there) : Quiet(o.garage) /\ o.answer \in Answers /\ (o.answer = "absent" => ~there)
  BY <1>6 DEF Read, Unchanged, Answers
<1>8. \A b, k : \A o \in ListObjects(b, k) : Quiet(o.garage) /\ o.answer \in {"auth", "error", "empty", "page"}
  BY <1>6 DEF ListObjects, Unchanged
<1>9. \A b, k : \A o \in DeleteObjects(b, k) : Quiet(o.garage) /\ o.answer \in {"progress", "nothing"}
  <2> TAKE b, k
  <2>1. \A n : Quiet([garage EXCEPT !.objects[b] = n])
    BY DEF Quiet, ClusterSound, GrantsSound
  <2> QED BY <2>1, <1>6 DEF DeleteObjects, Unchanged
<1> QED BY <1>b, <1>3, <1>4, <1>5, <1>7, <1>8, <1>9
        DEF AddBucketAlias, RemoveBucketAlias, GetKeyInfo, GetBucketInfo

\* A call after which the job goes one way if it is answered, and another if not.
LEMMA QuietOkElse ==
    ASSUME KeysInv, NEW j \in Jobs, NEW STATE pc, NEW STATE outcomes, NEW STATE yes, NEW STATE no,
           Call(j, pc, outcomes, OkElse(yes, no)), pc # "done",
           \A o \in outcomes : Quiet(o.garage) /\ o.answer \in Answers,
           Moves(job[j], yes, garage, garage, unheard), Moves(job[j], no, garage, garage, unheard)
    PROVE  Keeps(j)
<1>1. \A a \in Answers : OkElse(yes, no)[a] = IF a = "ok" THEN yes ELSE no
  BY DEF OkElse, Answers
<1>2. \A o \in outcomes : Quiet(o.garage) /\ Moves(job[j], OkElse(yes, no)[o.answer], garage, garage, unheard)
  BY <1>1
<1> QED BY <1>2, QuietKeeps

\* The same, for a job with no word about what is gone.
LEMMA PlainOkElse ==
    ASSUME KeysInv, NEW j \in Jobs, NEW STATE pc, NEW STATE outcomes, NEW STATE yes, NEW STATE no,
           Call(j, pc, outcomes, OkElse(yes, no)), pc # "done", job[j].req.cmd \notin Special,
           \A o \in outcomes : Quiet(o.garage) /\ o.answer \in Answers,
           Plain(job[j], yes), Plain(job[j], no)
    PROVE  Keeps(j)
<1>1. ClusterSound(garage) /\ JobSound(job[j], garage, unheard) /\ job[j].pc = pc
  BY DEF KeysInv, Call
<1>2. Moves(job[j], yes, garage, garage, unheard) /\ Moves(job[j], no, garage, garage, unheard)
  BY <1>1, TurnsPlainly
<1> QED BY <1>2, QuietOkElse

\* A call of such a job, with an answer for each way to go.
LEMMA PlainKeeps ==
    ASSUME KeysInv, NEW j \in Jobs, NEW STATE pc, NEW STATE outcomes, NEW STATE next,
           Call(j, pc, outcomes, next), pc # "done", job[j].req.cmd \notin Special,
           \A o \in outcomes : Quiet(o.garage) /\ Plain(job[j], next[o.answer])
    PROVE  Keeps(j)
<1>1. ClusterSound(garage) /\ JobSound(job[j], garage, unheard) /\ job[j].pc = pc
  BY DEF KeysInv, Call
<1>2. \A o \in outcomes : Moves(job[j], next[o.answer], garage, garage, unheard)
  BY <1>1, TurnsPlainly
<1> QED BY <1>2, QuietKeeps

\* The usual ways to move are plain.
LEMMA PlainWays ==
    ASSUME NEW me, JobShape(me)
    PROVE  /\ \A r : Plain(me, Ends(me, r))
           /\ \A p : p \notin {"unborn", "mint", "create"} => Plain(me, Goto(me, p))
           /\ Plain(me, Finalizing(me))
<1>1. \A r : Plain(me, Ends(me, r))
  BY HowJobsMove DEF Plain
<1>2. \A p : p \notin {"unborn", "mint", "create"} => Plain(me, Goto(me, p))
  BY HowJobsMove DEF Plain
<1> QED BY <1>1, <1>2 DEF Finalizing

\* One lemma for each handler: the grants of an account key,
LEMMA AttachKeeps ==
    ASSUME KeysInv, NEW j \in Jobs, AttachAccountKey(j)
    PROVE  Keeps(j)
<1> DEFINE me == job[j]
           b == me.req.bucket
           k == me.req.key
           failed == Ends(me, "failed")
           next == Goto(me, IF me.req.tier = Perms THEN "name" ELSE "narrow")
           last == IF me.req.tier \subseteq garage.perms[b, k] THEN Finalizing(me) ELSE failed
<1>1. ClusterSound(garage) /\ JobShape(me) /\ me.req.cmd \notin Special /\ me.req.tier \subseteq Perms
  BY DEF KeysInv, JobSound, AttachAccountKey, Special, Makers, Reapers, Asked, OfTiers
<1>2. /\ Plain(me, failed) /\ Plain(me, last) /\ Plain(me, next)
      /\ Plain(me, Goto(me, "name")) /\ Plain(me, Goto(me, "confirm"))
  BY <1>1, PlainWays
<1>3. CASE Call(j, "grant", AllowBucketKey(b, k, me.req.tier), OkElse(next, failed))
  BY <1>1, <1>2, <1>3, PlainOkElse, QuietCalls, ZenonT(30)
<1>4. CASE Call(j, "narrow", DenyBucketKey(b, k, Perms \ me.req.tier), OkElse(Goto(me, "name"), failed))
  BY <1>1, <1>2, <1>4, PlainOkElse, QuietCalls, ZenonT(30)
<1>5. CASE Call(j, "name", AddBucketAlias(b, k), OkElse(Goto(me, "confirm"), Goto(me, "confirm")))
  BY <1>1, <1>2, <1>5, PlainOkElse, QuietCalls, ZenonT(30)
<1>6. CASE Call(j, "confirm", GetKeyInfo(k), OkElse(last, failed))
  BY <1>1, <1>2, <1>6, PlainOkElse, QuietCalls, ZenonT(30)
<1> QED BY <1>3, <1>4, <1>5, <1>6 DEF AttachAccountKey

\* and their removal;
LEMMA DetachKeeps ==
    ASSUME KeysInv, NEW j \in Jobs, DetachAccountKey(j)
    PROVE  Keeps(j)
<1> DEFINE me == job[j]
           b == me.req.bucket
           k == me.req.key
           failed == Ends(me, "failed")
           last == IF garage.perms[b, k] = {} THEN Finalizing(me) ELSE failed
<1>1. ClusterSound(garage) /\ JobShape(me) /\ me.req.cmd \notin Special
  BY DEF KeysInv, JobSound, DetachAccountKey, Special, Makers, Reapers
<1>2. Plain(me, failed) /\ Plain(me, last) /\ Plain(me, Goto(me, "unname")) /\ Plain(me, Goto(me, "confirm"))
  BY <1>1, PlainWays
<1>3. CASE Call(j, "revoke", DenyBucketKey(b, k, Perms), OkElse(Goto(me, "unname"), failed))
  BY <1>1, <1>2, <1>3, PlainOkElse, QuietCalls, ZenonT(30)
<1>4. CASE Call(j, "unname", RemoveBucketAlias(b, k), OkElse(Goto(me, "confirm"), Goto(me, "confirm")))
  BY <1>1, <1>2, <1>4, PlainOkElse, QuietCalls, ZenonT(30)
<1>5. CASE Call(j, "confirm", GetKeyInfo(k), OkElse(last, failed))
  BY <1>1, <1>2, <1>5, PlainOkElse, QuietCalls, ZenonT(30)
<1> QED BY <1>3, <1>4, <1>5 DEF DetachAccountKey

\* the settings, and the reads for the control plane;
LEMMA SettingKeeps ==
    ASSUME KeysInv, NEW j \in Jobs,
           \/ SetAccountKeyCapability(j) \/ GetKeyBuckets(j)
           \/ SetQuota(j) \/ SetCors(j) \/ GetCors(j) \/ GetBucketOwners(j)
    PROVE  Keeps(j)
<1> DEFINE me == job[j]
           b == me.req.bucket
           k == me.req.key
           failed == Ends(me, "failed")
<1>1. ClusterSound(garage) /\ JobShape(me) /\ me.req.cmd \notin Special
  BY DEF KeysInv, JobSound, Special, Makers, Reapers,
         SetAccountKeyCapability, GetKeyBuckets, SetQuota, SetCors, GetCors, GetBucketOwners
<1>2. Plain(me, failed) /\ Plain(me, Finalizing(me)) /\ Plain(me, Goto(me, "update")) /\ Plain(me, Ends(me, "success"))
  BY <1>1, PlainWays
<1>3. CASE SetAccountKeyCapability(j)
  <2>1. Call(j, "update", UpdateKey(k, me.req.enable), OkElse(Finalizing(me), failed))
    BY <1>3 DEF SetAccountKeyCapability
  <2> QED BY <2>1, <1>1, <1>2, PlainOkElse, QuietCalls, ZenonT(30)
<1>4. CASE GetKeyBuckets(j)
  <2> DEFINE read == Ends([me EXCEPT !.snap = Grants(k)], "success")
             next == [ok |-> read, absent |-> Ends(me, "success"), error |-> failed]
  <2>1. Call(j, "read", GetKeyInfo(k), next)
    BY <1>4 DEF GetKeyBuckets
  <2>2. Plain(me, read)
    BY <1>1 DEF Plain, Same, JobShape, Ends
  <2>3. \A a \in Answers : Plain(me, next[a])
    BY <1>2, <2>2 DEF Answers
  <2>4. \A o \in GetKeyInfo(k) : Quiet(o.garage) /\ Plain(me, next[o.answer])
    BY <1>1, <2>3, QuietCalls
  <2> QED BY <2>1, <2>4, <1>1, PlainKeeps
<1>5. CASE SetQuota(j)
  <2>1. Call(j, "update", UpdateBucketQuota(b), OkElse(Finalizing(me), failed))
    BY <1>5 DEF SetQuota
  <2> QED BY <2>1, <1>1, <1>2, PlainOkElse, QuietCalls, ZenonT(30)
<1>6. CASE SetCors(j)
  <2> DEFINE stale == Ends([me EXCEPT !.rules = {garage.cors[b]}], "stale")
             first == IF garage.cors[b] = me.req.expected THEN Goto(me, "update") ELSE stale
             last == [Finalizing(me) EXCEPT !.rules = {me.req.rules}]
  <2>1. Plain(me, stale) /\ Plain(me, last)
    BY <1>1 DEF Plain, Same, JobShape, Ends, Finalizing, Goto
  <2>2. Plain(me, first)
    BY <2>1, <1>2
  <2>3. CASE Call(j, "info", GetBucketInfo(b), OkElse(first, failed))
    BY <2>2, <2>3, <1>1, <1>2, PlainOkElse, QuietCalls, ZenonT(30)
  <2>4. CASE Call(j, "update", UpdateBucketCors(b, me.req.rules), OkElse(last, failed))
    BY <2>1, <2>4, <1>1, <1>2, PlainOkElse, QuietCalls, ZenonT(30)
  <2> QED BY <2>3, <2>4, <1>6 DEF SetCors, ReadCurrentRules
<1>7. CASE GetCors(j)
  <2> DEFINE last == [Finalizing(me) EXCEPT !.rules = {garage.cors[me.req.bucket]}]
  <2>1. Plain(me, last)
    BY <1>1 DEF Plain, Same, JobShape, Finalizing, Goto
  <2>2. Call(j, "info", GetBucketInfo(b), OkElse(last, failed))
    BY <1>7 DEF GetCors, ReadCurrentRules
  <2> QED BY <2>1, <2>2, <1>1, <1>2, PlainOkElse, QuietCalls, ZenonT(30)
<1>8. CASE GetBucketOwners(j)
  <2> DEFINE read == Ends([me EXCEPT !.holders = [c \in Keys |-> garage.perms[b, c]]], "success")
             next == [ok |-> read, absent |-> Ends(me, "success"), error |-> failed]
  <2>1. Call(j, "info", GetBucketInfo(b), next)
    BY <1>8 DEF GetBucketOwners
  <2>2. Plain(me, read)
    BY <1>1 DEF Plain, Same, JobShape, Ends
  <2> HIDE DEF read
  <2>3. \A a \in Answers : Plain(me, next[a])
    BY <1>2, <2>2 DEF Answers
  <2>4. \A o \in GetBucketInfo(b) : Quiet(o.garage) /\ Plain(me, next[o.answer])
    BY <1>1, <2>3, QuietCalls
  <2> QED BY <2>1, <2>4, <1>1, PlainKeeps
<1> QED BY <1>3, <1>4, <1>5, <1>6, <1>7, <1>8

\* the transfer of a key's grants;
LEMMA ConvergeKeeps ==
    ASSUME KeysInv, NEW j \in Jobs, ConvergeRotation(j)
    PROVE  Keeps(j)
<1> DEFINE me == job[j]
           new == me.req.to
           toTransfer == {b \in Buckets : me.snap[b] # {} /\ ~Covers(b, new, me.snap[b])}
           failed == Ends(me, "failed")
           converged == Ends(me, "converged")
<1>1. ClusterSound(garage) /\ JobShape(me) /\ me.req.cmd \notin Special
  BY DEF KeysInv, JobSound, ConvergeRotation, Special, Makers, Reapers
<1>2. Plain(me, failed) /\ Plain(me, converged)
  BY <1>1, PlainWays
<1>3. \A b : Plain(me, Past(me, b))
  <2> TAKE b
  <2>1. Plain(me, Ends(me, "transferred"))
    BY <1>1, PlainWays
  <2>2. Plain(me, [me EXCEPT !.pc = "grant", !.todo = me.todo \ {b}, !.at = 0])
    BY <1>1 DEF Plain, Same, JobShape
  <2> QED BY <2>1, <2>2 DEF Past
<1>4. CASE Call(j, "old", GetKeyInfo(me.req.key),
                [ok |-> [Goto(me, "new") EXCEPT !.snap = Grants(me.req.key)],
                 absent |-> converged, error |-> failed])
  <2> DEFINE read == [Goto(me, "new") EXCEPT !.snap = Grants(me.req.key)]
             next == [ok |-> read, absent |-> converged, error |-> failed]
  <2>1. Plain(me, read)
    BY <1>1 DEF Plain, Same, JobShape, Goto
  <2>2. \A a \in Answers : Plain(me, next[a])
    BY <1>2, <2>1 DEF Answers
  <2>3. \A o \in GetKeyInfo(me.req.key) : Quiet(o.garage) /\ Plain(me, next[o.answer])
    BY <1>1, <2>2, QuietCalls
  <2> QED BY <1>4, <2>3, <1>1, PlainKeeps
<1>5. CASE Call(j, "new", GetKeyInfo(new),
                OkElse(IF toTransfer = {} THEN converged ELSE [Goto(me, "grant") EXCEPT !.todo = toTransfer], failed))
  <2> DEFINE read == IF toTransfer = {} THEN converged ELSE [Goto(me, "grant") EXCEPT !.todo = toTransfer]
  <2>1. Plain(me, [Goto(me, "grant") EXCEPT !.todo = toTransfer])
    BY <1>1 DEF Plain, Same, JobShape, Goto
  <2>2. Plain(me, read)
    BY <2>1, <1>2
  <2> HIDE DEF read
  <2> QED BY <1>5, <2>2, <1>1, <1>2, PlainOkElse, QuietCalls, ZenonT(30) DEF read
<1>6. ASSUME NEW b \in me.todo,
             Call(j, "grant", AllowBucketKey(b, new, me.snap[b] \cap Perms),
                  OkElse(IF "name" \in me.snap[b] THEN [Goto(me, "name") EXCEPT !.at = b] ELSE Past(me, b),
                         Past(me, b)))
      PROVE  Keeps(j)
  <2> DEFINE granted == IF "name" \in me.snap[b] THEN [Goto(me, "name") EXCEPT !.at = b] ELSE Past(me, b)
  <2>1. Plain(me, [Goto(me, "name") EXCEPT !.at = b])
    BY <1>1 DEF Plain, Same, JobShape, Goto
  <2>2. Plain(me, granted) /\ Plain(me, Past(me, b))
    BY <2>1, <1>3
  <2> HIDE DEF granted
  <2> QED BY <1>6, <2>2, <1>1, PlainOkElse, QuietCalls, ZenonT(30) DEF granted
<1>7. CASE Call(j, "name", AddBucketAlias(me.at, new), OkElse(Past(me, me.at), Past(me, me.at)))
  BY <1>7, <1>3, <1>1, PlainOkElse, QuietCalls
<1> QED BY <1>4, <1>5, <1>6, <1>7 DEF ConvergeRotation

\* the enforcement of a tier.
LEMMA EnforceKeeps ==
    ASSUME KeysInv, NEW j \in Jobs, EnforceTier(j)
    PROVE  Keeps(j)
<1> DEFINE me == job[j]
           k == me.req.key
           tier == me.req.tier
           failed == Ends(me, "failed")
           Narrow(them) == [Goto(them, "narrow") EXCEPT !.todo = OverTier(them.snap, tier), !.at = 0]
           read == [me EXCEPT !.snap = Grants(k)]
           Checked(b) == [me EXCEPT !.todo = @ \ {b}, !.risk = IF OtherOwner(b, k) THEN @ ELSE @ \cup {b}]
<1>1. /\ ClusterSound(garage) /\ JobShape(me) /\ me.req.cmd \notin Special
      /\ me.pc \notin {"unborn", "mint", "create"} /\ tier \subseteq Perms
  BY DEF KeysInv, JobSound, Placed, EnforceTier, Call, Special, Makers, Reapers, Asked, OfTiers
<1>2. Plain(me, failed) /\ Plain(me, Ends(me, "would_strand"))
  BY <1>1, PlainWays
<1>3. Plain(me, Narrow(me)) /\ Plain(me, Narrow(read)) /\ Plain(me, Ends(read, "success"))
  BY <1>1 DEF Plain, Same, JobShape, Goto, Ends
<1>4. CASE Call(j, "read", GetKeyInfo(k),
                OkElse(IF OverTier(Grants(k), tier) = {} THEN Ends(read, "success")
                       ELSE IF LosesOwner(Grants(k), tier) = {} THEN Narrow(read)
                       ELSE [Goto(read, "check") EXCEPT !.todo = LosesOwner(Grants(k), tier)], failed))
  <2> DEFINE next == IF OverTier(Grants(k), tier) = {} THEN Ends(read, "success")
                     ELSE IF LosesOwner(Grants(k), tier) = {} THEN Narrow(read)
                     ELSE [Goto(read, "check") EXCEPT !.todo = LosesOwner(Grants(k), tier)]
  <2>1. Plain(me, [Goto(read, "check") EXCEPT !.todo = LosesOwner(Grants(k), tier)])
    BY <1>1 DEF Plain, Same, JobShape, Goto
  <2>2. Plain(me, next)
    BY <2>1, <1>3
  <2> HIDE DEF next
  <2> QED BY <1>4, <2>2, <1>1, <1>2, PlainOkElse, QuietCalls, ZenonT(30) DEF next
<1>5. ASSUME NEW b \in me.todo,
             Call(j, "check", GetBucketInfo(b),
                  OkElse(IF Checked(b).todo # {} THEN Checked(b)
                         ELSE IF Checked(b).risk # {} THEN Ends(me, "would_strand")
                         ELSE Narrow(me), failed))
      PROVE  Keeps(j)
  <2> DEFINE next == IF Checked(b).todo # {} THEN Checked(b)
                     ELSE IF Checked(b).risk # {} THEN Ends(me, "would_strand")
                     ELSE Narrow(me)
  <2>1. Plain(me, Checked(b))
    BY <1>1 DEF Plain, Same, JobShape
  <2>2. Plain(me, next)
    BY <2>1, <1>2, <1>3
  <2> HIDE DEF next
  <2> QED BY <1>5, <2>2, <1>1, <1>2, PlainOkElse, QuietCalls, ZenonT(30) DEF next
<1>6. ASSUME NEW b \in me.todo,
             Call(j, "narrow", AllowBucketKey(b, k, tier), OkElse([Goto(me, "deny") EXCEPT !.at = b], failed))
      PROVE  Keeps(j)
  <2>1. Plain(me, [Goto(me, "deny") EXCEPT !.at = b])
    BY <1>1 DEF Plain, Same, JobShape, Goto
  <2> QED BY <1>6, <2>1, <1>1, <1>2, PlainOkElse, QuietCalls, ZenonT(30)
<1>7. CASE Call(j, "deny", DenyBucketKey(me.at, k, Perms \ tier),
                OkElse(IF me.todo = {me.at} THEN [Finalizing(me) EXCEPT !.todo = {}, !.at = 0]
                       ELSE [Goto(me, "narrow") EXCEPT !.todo = @ \ {me.at}, !.at = 0], failed))
  <2> DEFINE next == IF me.todo = {me.at} THEN [Finalizing(me) EXCEPT !.todo = {}, !.at = 0]
                     ELSE [Goto(me, "narrow") EXCEPT !.todo = @ \ {me.at}, !.at = 0]
  <2>1. /\ Plain(me, [Finalizing(me) EXCEPT !.todo = {}, !.at = 0])
        /\ Plain(me, [Goto(me, "narrow") EXCEPT !.todo = @ \ {me.at}, !.at = 0])
    BY <1>1 DEF Plain, Same, JobShape, Goto, Finalizing
  <2>2. Plain(me, next)
    BY <2>1
  <2> HIDE DEF next
  <2> QED BY <1>7, <2>2, <1>1, <1>2, PlainOkElse, QuietCalls, ZenonT(30) DEF next
<1> QED BY <1>4, <1>5, <1>6, <1>7 DEF EnforceTier

\* A step of the jobs alone keeps the invariant when every job that moves does so soundly.
LEMMA TurnsKeep ==
    ASSUME KeysInv, UNCHANGED <<garage, scenario, unheard>>, DOMAIN job' = Jobs,
           \A i \in Jobs : job'[i] = job[i] \/ Moves(job[i], job'[i], garage, garage, unheard)
    PROVE  KeysInv'
<1>1. \A i \in Jobs : JobSound(job'[i], garage, unheard)
  BY DEF KeysInv, Moves
<1>2. ASSUME NEW i \in Jobs, NEW k, k # 0
      PROVE  /\ Deletes(job[i], k) => Deletes(job'[i], k)
             /\ job[i].new = k => job'[i].new = k
  BY <1>2 DEF Moves, Deletes
<1>3. ASSUME NEW i \in Jobs PROVE OldKeyThere(i)'
  <2> DEFINE old == job[i].req.key
  <2> SUFFICES ASSUME job'[i].req.cmd \in Reapers, ~PastReap(job'[i])
               PROVE  (old \in garage.keys \cup unheard) \/ \E m \in Jobs \ {i} : Deletes(job'[m], old)
    BY DEF OldKeyThere, Moves
  <2>1. job[i].req.cmd \in Reapers /\ ~PastReap(job[i])
    BY DEF Moves
  <2>2. (old \in garage.keys \cup unheard) \/ \E m \in Jobs \ {i} : Deletes(job[m], old)
    BY <2>1 DEF KeysInv, OldKeyThere
  <2>3. old # 0
    BY <2>1 DEF KeysInv, JobSound, Named, ClusterSound
  <2> QED BY <2>2, <2>3, <1>2
<1>4. ASSUME NEW k \in 1 .. garage.minted
      PROVE  k \in garage.keys \cup unheard \/ \E i \in Jobs : Deletes(job'[i], k)
  <2>1. k # 0
    BY DEF KeysInv, ClusterSound
  <2> QED BY <2>1, <1>2 DEF KeysInv, KeysTraced
<1>5. ASSUME NEW k \in garage.keys \ {1, 2}
      PROVE  k \in unheard \/ \E i \in Jobs : job'[i].new = k
  <2>1. k # 0
    BY DEF KeysInv, ClusterSound
  <2> QED BY <2>1, <1>2 DEF KeysInv, KeysTraced
<1>6. KeysTraced'
  BY <1>4, <1>5 DEF KeysTraced
<1>7. RoomLeft'
  <2>1. AboutToMint' \subseteq AboutToMint /\ AboutToCreate' \subseteq AboutToCreate
    BY DEF Moves, Spent, AboutToMint, AboutToCreate
  <2> QED BY <2>1, LessWaits DEF KeysInv
<1> QED BY <1>1, <1>3, <1>6, <1>7 DEF KeysInv

\* The clear of a bucket, with the caller's credentials or with a key of its own.
LEMMA ClearTurns ==
    ASSUME NEW me, NEW g, NEW u, ClusterSound(g), JobSound(me, g, u),
           me.req.cmd \in {"clear_bucket", "purge"}, me.pc \in {"list", "delete"}
    PROVE  /\ \A r \in {"failed", "success", "stalled"} : Moves(me, Returns(me, r), g, g, u)
           /\ Moves(me, NoProgress(me), g, g, u)
           /\ Moves(me, Goto(me, "delete"), g, g, u)
           /\ Moves(me, [me EXCEPT !.pc = "list", !.rounds = 0], g, g, u)
<1>1. JobShape(me) /\ me.result # "rolled_back"
  BY DEF JobSound, Placed
<1>2. /\ Same(me, Goto(me, "delete")) /\ Goto(me, "delete").pc = "delete"
      /\ Goto(me, "delete").result = me.result
  BY <1>1, HowJobsMove
<1>3. \A n : LET you == [me EXCEPT !.pc = "list", !.rounds = n]
             IN  Same(me, you) /\ you.pc = "list" /\ you.result = me.result
  BY <1>1 DEF Same, JobShape
<1>4. Moves(me, Goto(me, "delete"), g, g, u)
  BY <1>1, <1>2, TurnsAtWork DEF AtWork
<1>5. \A n : Moves(me, [me EXCEPT !.pc = "list", !.rounds = n], g, g, u)
  BY <1>1, <1>3, TurnsAtWork DEF AtWork
<1>6. ASSUME NEW r \in {"failed", "success", "stalled"} PROVE Moves(me, Returns(me, r), g, g, u)
  <2>1. CASE me.req.cmd = "purge"
    <3>1. /\ Same(me, Returns(me, r)) /\ Returns(me, r).pc = "unmint"
          /\ Returns(me, r).result = r
      BY <1>1, <2>1 DEF Returns, Same, JobShape
    <3> QED BY <3>1, TurnsAtWork DEF AtWork
  <2>2. CASE me.req.cmd = "clear_bucket"
    <3>1. Plain(me, Returns(me, r)) /\ me.req.cmd \notin Special
      BY <1>1, <2>2, PlainWays DEF Returns, Special, Makers, Reapers
    <3> QED BY <3>1, TurnsPlainly
  <2> QED BY <2>1, <2>2
<1>7. Moves(me, NoProgress(me), g, g, u)
  <2>1. CASE me.rounds + 1 >= MaxRounds
    BY <2>1, <1>6 DEF NoProgress
  <2>2. CASE ~(me.rounds + 1 >= MaxRounds)
    BY <2>2, <1>5 DEF NoProgress
  <2> QED BY <2>1, <2>2
<1> QED BY <1>4, <1>5, <1>6, <1>7

\* The loop of a clear, whoever's the key.
LEMMA ClearKeeps ==
    ASSUME KeysInv, NEW j \in Jobs, NEW STATE k, job[j].req.cmd \in {"clear_bucket", "purge"}, ClearLoop(j, k)
    PROVE  Keeps(j)
<1> DEFINE me == job[j]
           b == me.req.bucket
           again == [me EXCEPT !.pc = "list", !.rounds = 0]
           OK(you) == Moves(me, you, garage, garage, unheard)
           listed == [auth |-> Returns(me, "failed"), error |-> NoProgress(me),
                      empty |-> Returns(me, "success"), page |-> Goto(me, "delete")]
           gone == [progress |-> again, nothing |-> NoProgress(me)]
<1>1. me.pc \in {"list", "delete"}
  BY DEF ClearLoop, Call
<1>2. ClusterSound(garage) /\ JobSound(me, garage, unheard)
  BY DEF KeysInv
<1>b. /\ OK(Returns(me, "failed")) /\ OK(Returns(me, "success"))
      /\ OK(NoProgress(me)) /\ OK(Goto(me, "delete")) /\ OK(again)
  BY <1>1, <1>2, ClearTurns
<1> HIDE DEF OK, again, me
<1>3. CASE Call(j, "list", ListObjects(b, k), listed)
  <2>1. \A a \in {"auth", "error", "empty", "page"} : OK(listed[a])
    BY <1>b
  <2>2. \A o \in ListObjects(b, k) : Quiet(o.garage) /\ Moves(me, listed[o.answer], garage, garage, unheard)
    BY <1>2, <2>1, QuietCalls DEF OK
  <2> QED BY <1>3, <2>2, QuietKeeps DEF me
<1>4. CASE Call(j, "delete", DeleteObjects(b, k), gone)
  <2>1. \A a \in {"progress", "nothing"} : OK(gone[a])
    BY <1>b
  <2>2. \A o \in DeleteObjects(b, k) : Quiet(o.garage) /\ Moves(me, gone[o.answer], garage, garage, unheard)
    BY <1>2, <2>1, QuietCalls DEF OK
  <2> QED BY <1>4, <2>2, QuietKeeps DEF me
<1> QED BY <1>3, <1>4 DEF ClearLoop, me, again

\* The clock of a clear.
LEMMA TimeOutKeeps ==
    ASSUME KeysInv, NEW j \in Jobs, ClearTimesOut(j)
    PROVE  Keeps(j)
<1>1. /\ job[j].req.cmd \in {"clear_bucket", "purge"} /\ job[j].pc = "list"
      /\ job' = [job EXCEPT ![j] = Returns(job[j], "stalled")]
      /\ UNCHANGED <<garage, scenario, unheard>> /\ disturbed' = DisturbedBy(j, garage')
      /\ DiedSoFar
  BY DEF ClearTimesOut, historyVars, DisturbedBy, DiedSoFar
<1>2. Moves(job[j], Returns(job[j], "stalled"), garage, garage, unheard)
  BY <1>1, ClearTurns DEF KeysInv
<1>3. Forward(garage, garage)
  BY DEF Forward, KeysInv, ClusterSound
<1> QED BY <1>1, <1>2, <1>3, MoveKeeps

\* The last message is out.
LEMMA FinishKeeps ==
    ASSUME KeysInv, NEW j \in Jobs, Finish(j)
    PROVE  Keeps(j)
<1> DEFINE me == job[j]
           you == Ends(me, IF me.dying THEN "cancelled" ELSE "success")
<1>1. /\ me.pc = "finalizing" /\ job' = [job EXCEPT ![j] = you]
      /\ UNCHANGED <<garage, scenario, unheard>> /\ disturbed' = DisturbedBy(j, garage')
      /\ DiedSoFar
  BY DEF Finish, historyVars, DisturbedBy, DiedSoFar
<1>2. ClusterSound(garage) /\ JobSound(me, garage, unheard) /\ JobShape(me)
  BY DEF KeysInv, JobSound
<1>3. Same(me, you) /\ you.pc = "done" /\ you.result \in {"cancelled", "success"}
  BY <1>2, HowJobsMove
<1>4. Named(you, garage) /\ Placed(you) /\ Asked(you, garage)
  BY <1>2, <1>3 DEF JobSound, Named, Placed, Asked, Same
<1>5. Accounted(you, garage, unheard)
  BY <1>1, <1>2, <1>3 DEF JobSound, Placed, Accounted, Same
<1>6. GoneSoon(you, garage)
  BY <1>1, <1>2, <1>3 DEF JobSound, GoneSoon, Same
<1>7. Moves(me, you, garage, garage, unheard)
  BY <1>3, <1>4, <1>5, <1>6 DEF Moves, JobSound, PastReap, Same, Spends, Spent
<1>8. Forward(garage, garage)
  BY <1>2 DEF Forward, ClusterSound
<1> QED BY <1>1, <1>7, <1>8, MoveKeeps

\* The end of a session, for every job at once.
LEMMA StopKeeps ==
    ASSUME KeysInv, StopAll
    PROVE  KeysInv'
<1>1. PICK between \in SUBSET {i \in Jobs : Running(i)} :
          job' = [i \in Jobs |-> IF ~Running(i) THEN job[i]
                                 ELSE IF i \in between THEN Cancelled(job[i])
                                 ELSE [job[i] EXCEPT !.dying = TRUE]]
  BY DEF StopAll
<1>2. UNCHANGED <<garage, scenario, unheard>>
  BY DEF StopAll, historyVars
<1>3. ASSUME NEW i \in Jobs, Running(i)
      PROVE  /\ Moves(job[i], Cancelled(job[i]), garage, garage, unheard)
             /\ Moves(job[i], [job[i] EXCEPT !.dying = TRUE], garage, garage, unheard)
  <2> DEFINE me == job[i]
             you == [me EXCEPT !.dying = TRUE]
  <2>1. ClusterSound(garage) /\ JobSound(me, garage, unheard) /\ JobShape(me) /\ me.pc # "done"
    BY <1>3 DEF KeysInv, JobSound, Running
  <2>2. Forward(garage, garage)
    BY <2>1 DEF Forward, ClusterSound
  <2>3. Moves(me, Cancelled(me), garage, garage, unheard)
    BY <2>1, <2>2, TurnsCancelled DEF Spends
  <2>4. Same(me, you) /\ you.pc = me.pc /\ you.result = me.result /\ you.manual = me.manual
    BY <2>1 DEF Same, JobShape
  <2>5. /\ Named(you, garage) /\ Placed(you) /\ Asked(you, garage)
        /\ Accounted(you, garage, unheard) /\ GoneSoon(you, garage)
    BY <2>1, <2>4 DEF JobSound, Named, Placed, Asked, Accounted, GoneSoon, Same
  <2> HIDE DEF you
  <2>6. Moves(me, you, garage, garage, unheard)
    BY <2>4, <2>5 DEF Moves, JobSound, PastReap, Same, Spends, Spent
  <2> QED BY <2>3, <2>6 DEF you
<1> QED BY <1>1, <1>2, <1>3, TurnsKeep

-----------------------------------------------------------------------------
\* The turns of a job that says what is gone: to its outcome.
LEMMA TurnsDone ==
    ASSUME NEW me, NEW you, NEW g, NEW u, ClusterSound(g), JobSound(me, g, u), me.pc \notin {"finalizing", "done"},
           Same(me, you), you.pc = "done",
           me.new \in g.keys \ u =>
              you.manual \/ you.result = "cancelled" \/ (you.result = "success" /\ me.req.cmd # "purge"),
           you.result = "success" => /\ me.req.cmd \in Reapers => me.req.key \notin g.keys
                                     /\ me.req.cmd = "delete_bucket" => me.req.bucket \notin g.buckets,
           you.result = "rolled_back" => me.new \notin g.keys
    PROVE  Moves(me, you, g, g, u)
<1>1. Named(you, g) /\ Placed(you) /\ Asked(you, g)
  BY DEF JobSound, Named, Placed, Asked, Same
<1>2. Accounted(you, g, u) /\ GoneSoon(you, g)
  BY DEF Accounted, GoneSoon, Same
<1> QED BY <1>1, <1>2 DEF Moves, JobSound, PastReap, Same, Spends, Spent

\* To a failure that names its key.
LEMMA TurnsPartial ==
    ASSUME NEW me, NEW g, NEW u, ClusterSound(g), JobSound(me, g, u), me.pc \notin {"finalizing", "done"}
    PROVE  Moves(me, Partial(me), g, g, u)
<1>1. /\ Same(me, Partial(me)) /\ Partial(me).pc = "done" /\ Partial(me).manual
      /\ Partial(me).result = "failed"
  BY HowJobsMove DEF JobSound
<1> QED BY <1>1, TurnsDone

\* To its last message.
LEMMA TurnsFinalizing ==
    ASSUME NEW me, NEW g, NEW u, ClusterSound(g), JobSound(me, g, u), me.pc # "done",
           me.req.cmd \notin {"delete_key", "snapshot_and_reap", "purge"},
           me.req.cmd = "rotate_key" => me.req.key \notin g.keys,
           me.req.cmd = "delete_bucket" => me.req.bucket \notin g.buckets
    PROVE  Moves(me, Finalizing(me), g, g, u)
<1> DEFINE you == Finalizing(me)
<1>1. Same(me, you) /\ you.pc = "finalizing" /\ you.result = me.result /\ me.result # "rolled_back"
  BY HowJobsMove DEF JobSound, Placed, Finalizing
<1> HIDE DEF you
<1>2. Named(you, g) /\ Placed(you) /\ Asked(you, g)
  BY <1>1 DEF JobSound, Named, Placed, Asked, Same
<1>3. Accounted(you, g, u) /\ GoneSoon(you, g)
  BY <1>1 DEF Accounted, GoneSoon, Same, Reapers
<1>4. Moves(me, you, g, g, u)
  BY <1>1, <1>2, <1>3 DEF Moves, JobSound, PastReap, Same, Spends, Spent
<1> QED BY <1>4 DEF you

\* To the undoing of what it did.
LEMMA TurnsAround ==
    ASSUME NEW me, NEW g, NEW u, ClusterSound(g), JobSound(me, g, u), me.pc \notin {"finalizing", "done"},
           NEW p, AtWork(p)
    PROVE  Moves(me, Goto(me, p), g, g, u) /\ \A s : Moves(me, Done(me, s, p), g, g, u)
<1>1. /\ Same(me, Goto(me, p)) /\ Goto(me, p).pc = p /\ Goto(me, p).result = me.result
      /\ \A s : Same(me, Done(me, s, p)) /\ Done(me, s, p).pc = p /\ Done(me, s, p).result = me.result
  BY HowJobsMove DEF JobSound
<1>2. me.result # "rolled_back"
  BY DEF JobSound, Placed
<1> QED BY <1>1, <1>2, TurnsAtWork

\* A turn in the cluster that a call has left.
LEMMA TurnsThere ==
    ASSUME NEW me, NEW you, NEW g, NEW h, NEW v,
           Moves(me, you, h, h, v), h.keys \subseteq g.keys,
           \A k \in g.keys \ h.keys : Deletes(me, k),
           me.req.cmd \in Reapers /\ me.req.key \in g.keys /\ ~PastReap(you) => me.req.key \in h.keys \cup v,
           Spends(me, g, h), Spent(me, you, g, h)
    PROVE  Moves(me, you, g, h, v)
BY DEF Moves

\* What a deletion comes to.
LEMMA Deletions ==
    ASSUME ClusterSound(garage), NEW k
    PROVE  \A o \in DeleteKey(k) :
              /\ Forward(garage, o.garage) /\ o.answer \in Answers
              /\ o.garage.keys \subseteq garage.keys /\ garage.keys \ o.garage.keys \subseteq {k}
              /\ o.garage.buckets = garage.buckets
              /\ o.garage.minted = garage.minted /\ o.garage.created = garage.created
              /\ o.answer \in {"ok", "absent"} => k \notin o.garage.keys
              /\ o.answer = "absent" => o.garage.keys = garage.keys
              /\ garage.keys \ o.garage.keys \subseteq Settles(o)
<1> DEFINE P(e) == [bk \in DOMAIN e |-> IF bk[2] = k THEN {} ELSE e[bk]]
           N(e) == {bk \in e : bk[2] # k}
           gone == [garage EXCEPT !.keys = @ \ {k}, !.creators = @ \ {k}, !.perms = P(@), !.names = N(@)]
<1> HIDE DEF P, N
<1>1. /\ {"keys", "minted", "buckets", "created"} \subseteq DOMAIN gone
      /\ gone.keys = garage.keys \ {k} /\ gone.minted = garage.minted
      /\ gone.buckets = garage.buckets /\ gone.created = garage.created
      /\ gone.perms = P(garage.perms) /\ gone.creators = garage.creators \ {k}
      /\ DOMAIN gone = DOMAIN garage /\ gone.cors = garage.cors
  BY DEF ClusterSound, GrantsSound
<1> HIDE DEF gone
<1>a. GrantsSound(gone)
  <2>1. gone.perms \in [Buckets \X Keys -> SUBSET Perms]
    BY <1>1, ZenonT(30) DEF P, ClusterSound, GrantsSound
  <2>2. \A b \in Buckets, c \in Keys : gone.perms[b, c] = IF c = k THEN {} ELSE garage.perms[b, c]
    BY <1>1 DEF P, ClusterSound, GrantsSound
  <2> QED BY <1>1, <2>1, <2>2 DEF ClusterSound, GrantsSound
<1>2. Forward(garage, gone) /\ Forward(garage, garage)
  BY <1>1, <1>a DEF Forward, ClusterSound
<1>3. CASE k \in garage.keys
  <2>1. DeleteKey(k) = Applied(gone)
    BY <1>3 DEF DeleteKey, gone, P, N
  <2>2. \A o \in Applied(gone) :
           \/ o.garage = gone /\ o.answer \in {"ok", "error"}
           \/ o.garage = garage /\ o.answer = "error"
    BY DEF Applied, Unchanged
  <2> QED BY <2>1, <2>2, <1>1, <1>2 DEF Answers, Settles
<1>4. CASE k \notin garage.keys
  <2>1. \A o \in DeleteKey(k) : o.garage = garage /\ o.answer \in {"absent", "error"}
    BY <1>4 DEF DeleteKey, Absent, Unchanged
  <2> QED BY <2>1, <1>2, <1>4 DEF Answers
<1> QED BY <1>3, <1>4

\* The deletion of a key by a job that is to delete it.
LEMMA ReapKeeps ==
    ASSUME KeysInv, NEW j \in Jobs, NEW STATE pc, NEW STATE k, NEW STATE next,
           Call(j, pc, DeleteKey(k), next), pc # "done",
           Deletes(job[j], k),
           \A o \in DeleteKey(k) :
              /\ Moves(job[j], next[o.answer], o.garage, o.garage, Heard(o))
              /\ job[j].req.cmd \in Reapers /\ job[j].req.key = k /\ o.answer = "ok" => PastReap(next[o.answer])
    PROVE  Keeps(j)
<1>1. ClusterSound(garage)
  BY DEF KeysInv
<1>2. ASSUME NEW o \in DeleteKey(k)
      PROVE  /\ Forward(garage, o.garage)
             /\ \A c \in garage.keys \ o.garage.keys : Deletes(job[j], c)
             /\ Moves(job[j], next[o.answer], garage, o.garage, Heard(o))
  <2>1. /\ Forward(garage, o.garage) /\ o.garage.keys \subseteq garage.keys
        /\ garage.keys \ o.garage.keys \subseteq {k} /\ o.answer \in Answers
        /\ o.answer = "absent" => o.garage.keys = garage.keys
        /\ garage.keys \ o.garage.keys \subseteq Settles(o)
        /\ o.garage.minted = garage.minted /\ o.garage.created = garage.created
    BY <1>1, Deletions
  <2>2. \A c \in garage.keys \ o.garage.keys : Deletes(job[j], c)
    BY <2>1
  <2>3. job[j].req.cmd \in Reapers /\ job[j].req.key \in garage.keys /\ ~PastReap(next[o.answer])
           => job[j].req.key \in o.garage.keys \cup Heard(o)
    BY <2>1 DEF Answers, Heard
  <2>4. Moves(job[j], next[o.answer], o.garage, o.garage, Heard(o))
    OBVIOUS
  <2>5. Spends(job[j], garage, o.garage) /\ Spent(job[j], next[o.answer], garage, o.garage)
    BY <2>1, <2>4 DEF Moves, Spends, Spent
  <2> QED BY <2>1, <2>2, <2>3, <2>4, <2>5, TurnsThere
<1> QED BY <1>2, CallKeeps

\* A job as it stands in the cluster that a deletion has left.
LEMMA AfterDeletion ==
    ASSUME KeysInv, NEW j \in Jobs, NEW k, NEW o \in DeleteKey(k)
    PROVE  /\ ClusterSound(o.garage) /\ JobSound(job[j], o.garage, Heard(o))
           /\ o.answer \in Answers /\ (o.answer \in {"ok", "absent"} => k \notin o.garage.keys)
           /\ o.garage.buckets = garage.buckets
<1>1. Forward(garage, o.garage) /\ unheard \subseteq Heard(o)
  BY Deletions DEF KeysInv, Heard, Settles
<1>2. JobSound(job[j], o.garage, Heard(o))
  BY <1>1, StaysSound DEF KeysInv
<1> QED BY <1>1, <1>2, Deletions DEF KeysInv, Forward

\* _rollback.
LEMMA RollbackKeeps ==
    ASSUME KeysInv, NEW j \in Jobs, NEW STATE b, NEW STATE tier,
           job[j].req.cmd \in {"provision_bucket", "provision_additional_key", "rotate_key"},
           Rollback(j, b, tier)
    PROVE  Keeps(j)
<1> DEFINE me == job[j]
           taken == OkElse(Ends(me, "rolled_back"), Partial(me))
<1>1. me.pc \in {"unname", "revoke", "unmint"}
  BY DEF Rollback, Call
<1>2. ClusterSound(garage) /\ JobSound(me, garage, unheard)
  BY DEF KeysInv
<1>3. /\ Moves(me, Goto(me, "revoke"), garage, garage, unheard)
      /\ Moves(me, Goto(me, "unmint"), garage, garage, unheard)
      /\ Moves(me, Partial(me), garage, garage, unheard)
  BY <1>1, <1>2, TurnsAround, TurnsPartial DEF AtWork
<1>4. CASE Call(j, "unname", RemoveBucketAlias(b, me.new), OkElse(Goto(me, "revoke"), Partial(me)))
  BY <1>2, <1>3, <1>4, QuietOkElse, QuietCalls
<1>5. CASE Call(j, "revoke", DenyBucketKey(b, me.new, tier), OkElse(Goto(me, "unmint"), Partial(me)))
  BY <1>2, <1>3, <1>5, QuietOkElse, QuietCalls
<1>6. CASE Call(j, "unmint", DeleteKey(me.new), taken)
  <2>1. ASSUME NEW o \in DeleteKey(me.new)
        PROVE  Moves(me, taken[o.answer], o.garage, o.garage, Heard(o))
    <3>1. /\ ClusterSound(o.garage) /\ JobSound(me, o.garage, Heard(o)) /\ JobShape(me)
          /\ o.answer \in Answers /\ (o.answer = "ok" => me.new \notin o.garage.keys)
      BY AfterDeletion DEF JobSound
    <3>2. Moves(me, Partial(me), o.garage, o.garage, Heard(o))
      BY <1>1, <3>1, TurnsPartial
    <3>3. CASE o.answer = "ok"
      <4>1. /\ Same(me, Ends(me, "rolled_back")) /\ Ends(me, "rolled_back").pc = "done"
            /\ Ends(me, "rolled_back").result = "rolled_back"
        BY <3>1, HowJobsMove
      <4>2. Moves(me, Ends(me, "rolled_back"), o.garage, o.garage, Heard(o))
        BY <1>1, <3>1, <3>3, <4>1, TurnsDone
      <4> QED BY <4>2, <3>3 DEF OkElse
    <3>4. CASE o.answer # "ok"
      BY <3>1, <3>2, <3>4 DEF OkElse, Answers
    <3> QED BY <3>3, <3>4
  <2>2. Deletes(me, me.new) /\ (me.req.cmd \in Reapers => me.req.key # me.new)
    BY <1>2 DEF Deletes, JobSound, Named
  <2> HIDE DEF taken
  <2> QED BY <1>6, <2>1, <2>2, ReapKeeps
<1> QED BY <1>4, <1>5, <1>6 DEF Rollback

\* The two jobs that are there to delete a key.
LEMMA DeleteKeyKeeps ==
    ASSUME KeysInv, NEW j \in Jobs, DeleteKeyJob(j) \/ SnapshotAndReap(j)
    PROVE  Keeps(j)
<1> DEFINE me == job[j]
           k == me.req.key
<1>1. /\ me.req.cmd \in {"delete_key", "snapshot_and_reap"} /\ me.pc \in {"reap", "snapshot"}
      /\ ClusterSound(garage) /\ JobSound(me, garage, unheard) /\ JobShape(me) /\ Deletes(me, k)
  BY DEF KeysInv, JobSound, DeleteKeyJob, SnapshotAndReap, Call, Deletes, Reapers
<1>2. me.new = 0
  BY <1>1 DEF JobSound, Named, Makers
<1>3. ASSUME NEW STATE failed, Same(me, failed), failed.pc = "done", failed.result = "failed",
             Call(j, "reap", DeleteKey(k),
                  [ok |-> Ends(me, "success"), absent |-> Ends(me, "success"), error |-> failed])
      PROVE  Keeps(j)
  <2> DEFINE next == [ok |-> Ends(me, "success"), absent |-> Ends(me, "success"), error |-> failed]
  <2>1. ASSUME NEW o \in DeleteKey(k)
        PROVE  Moves(me, next[o.answer], o.garage, o.garage, Heard(o))
    <3>1. /\ ClusterSound(o.garage) /\ JobSound(me, o.garage, Heard(o)) /\ me.new \notin o.garage.keys
          /\ o.answer \in Answers /\ (o.answer \in {"ok", "absent"} => k \notin o.garage.keys)
      BY <1>2, AfterDeletion DEF ClusterSound
    <3>2. CASE o.answer \in {"ok", "absent"}
      <4>1. /\ Same(me, Ends(me, "success")) /\ Ends(me, "success").pc = "done"
            /\ Ends(me, "success").result = "success"
        BY <1>1, HowJobsMove
      <4>2. Moves(me, Ends(me, "success"), o.garage, o.garage, Heard(o))
        BY <1>1, <3>1, <3>2, <4>1, TurnsDone
      <4> QED BY <4>2, <3>2
    <3>3. CASE o.answer = "error"
      <4>1. Moves(me, failed, o.garage, o.garage, Heard(o))
        BY <1>1, <1>3, <3>1, TurnsDone
      <4> QED BY <4>1, <3>3
    <3> QED BY <3>1, <3>2, <3>3 DEF Answers
  <2>2. \A o \in DeleteKey(k) : o.answer = "ok" => PastReap(next[o.answer])
    BY <1>1, HowJobsMove DEF PastReap
  <2> HIDE DEF next
  <2> QED BY <1>1, <1>3, <2>1, <2>2, ReapKeeps DEF next
<1>4. CASE DeleteKeyJob(j)
  <2>1. Same(me, Ends(me, "failed")) /\ Ends(me, "failed").pc = "done" /\ Ends(me, "failed").result = "failed"
    BY <1>1, HowJobsMove
  <2> QED BY <2>1, <1>3, <1>4 DEF DeleteKeyJob
<1>5. CASE SnapshotAndReap(j)
  <2> DEFINE failed == Ends([me EXCEPT !.snap = NoGrants], "failed")
             read == [Goto(me, "reap") EXCEPT !.snap = Grants(k)]
             next == [ok |-> read, absent |-> Ends(me, "success"), error |-> Ends(me, "failed")]
  <2>1. CASE Call(j, "snapshot", GetKeyInfo(k), next)
    <3>1. me.result # "rolled_back"
      BY <1>1 DEF JobSound, Placed
    <3>2. Same(me, read) /\ read.pc = "reap" /\ read.result = me.result
      BY <1>1 DEF Same, JobShape, Goto
    <3>3. Moves(me, read, garage, garage, unheard)
      BY <1>1, <3>1, <3>2, TurnsAtWork DEF AtWork
    <3> HIDE DEF read
    <3>4. /\ Same(me, Ends(me, "failed")) /\ Ends(me, "failed").pc = "done"
          /\ Ends(me, "failed").result = "failed"
          /\ Same(me, Ends(me, "success")) /\ Ends(me, "success").pc = "done"
          /\ Ends(me, "success").result = "success" /\ me.new \notin garage.keys
      BY <1>1, <1>2, HowJobsMove DEF ClusterSound
    <3>5. Moves(me, Ends(me, "failed"), garage, garage, unheard)
      BY <1>1, <3>4, TurnsDone
    <3>6. k \notin garage.keys => Moves(me, Ends(me, "success"), garage, garage, unheard)
      BY <1>1, <3>4, TurnsDone
    <3>7. \A o \in GetKeyInfo(k) : Quiet(o.garage) /\ Moves(me, next[o.answer], garage, garage, unheard)
      <4> SUFFICES ASSUME NEW o \in GetKeyInfo(k)
                   PROVE  Quiet(o.garage) /\ Moves(me, next[o.answer], garage, garage, unheard)
        OBVIOUS
      <4>1. Quiet(o.garage) /\ o.answer \in Answers /\ (o.answer = "absent" => k \notin garage.keys)
        BY <1>1, QuietCalls
      <4> QED BY <4>1, <3>3, <3>5, <3>6 DEF Answers
    <3> QED BY <2>1, <3>7, QuietKeeps
  <2>2. CASE Call(j, "reap", DeleteKey(k),
                  [ok |-> Ends(me, "success"), absent |-> Ends(me, "success"), error |-> failed])
    <3>1. Same(me, failed) /\ failed.pc = "done" /\ failed.result = "failed"
      BY <1>1 DEF Same, JobShape, Ends
    <3> QED BY <2>2, <3>1, <1>3
  <2> QED BY <2>1, <2>2, <1>5 DEF SnapshotAndReap
<1> QED BY <1>4, <1>5

-----------------------------------------------------------------------------
\* What the creation of a key comes to.
LEMMA Creations ==
    ASSUME ClusterSound(garage), NEW may
    PROVE  \A o \in CreateKey(may) :
              /\ Forward(garage, o.garage) /\ o.answer \in {"ok", "error", "unnamed"}
              /\ garage.keys \subseteq o.garage.keys /\ o.garage.keys \ garage.keys \subseteq {NextKey}
              /\ o.garage.minted \in {garage.minted, NextKey}
              /\ o.garage.created = garage.created /\ o.garage.buckets = garage.buckets
              /\ o.answer = "ok" => o.garage.minted = NextKey
<1> DEFINE made == [garage EXCEPT !.keys = @ \cup {NextKey}, !.minted = NextKey,
                                  !.creators = IF may THEN @ \cup {NextKey} ELSE @]
<1>1. /\ {"keys", "minted", "buckets", "created"} \subseteq DOMAIN made
      /\ made.keys = garage.keys \cup {NextKey} /\ made.minted = NextKey
      /\ made.buckets = garage.buckets /\ made.created = garage.created
      /\ DOMAIN made = DOMAIN garage /\ made.perms = garage.perms /\ made.cors = garage.cors
      /\ made.creators \subseteq garage.creators \cup {NextKey}
  BY DEF ClusterSound, GrantsSound
<1>2. \A o \in CreateKey(may) :
         \/ o.garage = made /\ o.answer \in {"ok", "error", "unnamed"}
         \/ o.garage = garage /\ o.answer = "error"
  BY DEF CreateKey, Applied, Unchanged
<1> HIDE DEF made
<1>3. NextKey = garage.minted + 1 /\ garage.minted \in Nat
  BY DEF NextKey, ClusterSound
<1>a. GrantsSound(made)
  BY <1>1 DEF ClusterSound, GrantsSound
<1>4. Forward(garage, made) /\ Forward(garage, garage)
  BY <1>1, <1>3, <1>a DEF Forward, ClusterSound
<1> QED BY <1>1, <1>2, <1>4

\* A key is made.
LEMMA MintKeeps ==
    ASSUME KeysInv, NEW j \in Jobs, NEW STATE may, NEW next, NEW named, Mint(j, may, next, named),
           job[j].req.cmd \in Makers,
           \/ AtWork(next) \/ (next = "create" /\ job[j].req.cmd = "provision_bucket")
           \/ (next = "finalizing" /\ job[j].req.cmd = "provision_account_key")
    PROVE  Keeps(j)
<1> DEFINE me == job[j]
           made == [me EXCEPT !.new = NextKey, !.pc = next]
           unnamed == IF named THEN Partial(me) ELSE Ends(me, "failed")
           ways == [ok |-> made, unnamed |-> unnamed, error |-> Ends(me, "failed")]
<1>1. Call(j, "mint", CreateKey(may), ways) /\ me.pc = "mint"
  BY DEF Mint, Call
<1>2. /\ ClusterSound(garage) /\ JobSound(me, garage, unheard) /\ JobShape(me)
      /\ me.new = 0 /\ me.result # "rolled_back"
  BY <1>1 DEF KeysInv, JobSound, Placed
<1>3. NextKey = garage.minted + 1 /\ garage.minted \in Nat
  BY <1>2 DEF NextKey, ClusterSound
<1>4. /\ JobShape(made) /\ made.req = me.req /\ made.new = NextKey /\ made.pc = next
      /\ made.result = me.result
  BY <1>2 DEF JobShape
<1>5. /\ Same(me, unnamed) /\ unnamed.pc = "done" /\ unnamed.result = "failed"
      /\ Same(me, Ends(me, "failed")) /\ Ends(me, "failed").pc = "done" /\ Ends(me, "failed").result = "failed"
  BY <1>2, HowJobsMove
<1> HIDE DEF made, unnamed
<1>6. ASSUME NEW o \in CreateKey(may)
      PROVE  /\ Forward(garage, o.garage)
             /\ \A k \in garage.keys \ o.garage.keys : Deletes(me, k)
             /\ Moves(me, ways[o.answer], garage, o.garage, Heard(o))
  <2>1. /\ Forward(garage, o.garage) /\ o.answer \in {"ok", "error", "unnamed"}
        /\ garage.keys \subseteq o.garage.keys /\ o.garage.keys \ garage.keys \subseteq {NextKey}
        /\ o.garage.created = garage.created /\ o.garage.minted \in {garage.minted, NextKey}
        /\ o.answer = "ok" => o.garage.minted = NextKey
    BY <1>2, Creations
  <2>a. Spends(me, garage, o.garage)
    BY <1>1, <1>3, <2>1 DEF Spends
  <2>2. JobSound(me, o.garage, Heard(o))
    BY <1>2, <2>1, StaysSound DEF Heard, Settles
  <2>3. CASE o.answer = "ok"
    <3>1. Named(made, o.garage) /\ Asked(made, o.garage)
      BY <1>2, <1>3, <1>4, <2>1, <2>2, <2>3 DEF JobSound, Named, Makers, Reapers, Asked
    <3>2. Placed(made)
      BY <1>2, <1>4 DEF Placed, AtWork
    <3>3. Accounted(made, o.garage, Heard(o)) /\ GoneSoon(made, o.garage)
      BY <1>2, <1>4 DEF Accounted, GoneSoon, AtWork, Reapers
    <3>4. ~PastReap(me)
      BY <1>1 DEF PastReap
    <3>6. Spent(me, made, garage, o.garage)
      BY <1>1, <1>4, <2>1 DEF Spent, AtWork
    <3>5. Moves(me, made, garage, o.garage, Heard(o))
      BY <1>2, <1>4, <2>1, <2>a, <3>1, <3>2, <3>3, <3>4, <3>6 DEF Moves, JobSound
    <3> QED BY <2>1, <2>3, <3>5
  <2>4. CASE o.answer # "ok"
    <3>1. \A you : Same(me, you) /\ you.pc = "done" /\ you.result = "failed" => Moves(me, you, o.garage, o.garage, Heard(o))
      <4>1. ClusterSound(o.garage) /\ me.new \notin o.garage.keys
        BY <1>2, <2>1 DEF Forward, ClusterSound
      <4> QED BY <1>1, <2>2, <4>1, TurnsDone
    <3>2. Moves(me, ways[o.answer], o.garage, o.garage, Heard(o))
      BY <1>5, <2>1, <2>4, <3>1
    <3>3. o.garage.keys \ garage.keys \subseteq Heard(o)
      BY <2>1, <2>4 DEF Heard, Settles
    <3>4. ~PastReap(me)
      BY <1>1 DEF PastReap
    <3>5. Spent(me, ways[o.answer], garage, o.garage)
      BY <1>5, <2>1, <2>4 DEF Spent
    <3> QED BY <2>1, <2>a, <3>2, <3>3, <3>4, <3>5 DEF Moves
  <2> QED BY <2>3, <2>4
<1> HIDE DEF ways
<1> QED BY <1>1, <1>6, CallKeeps

\* A bucket that comes or goes leaves the keys alone.
LEMMA BucketCalls ==
    ASSUME ClusterSound(garage)
    PROVE  /\ \A k \in garage.keys :
                 /\ Forward(garage, CreatedFor(k))
                 /\ CreatedFor(k).keys = garage.keys /\ CreatedFor(k).minted = garage.minted
                 /\ CreatedFor(k).created = NextBucket
           /\ \A k : \A o \in CreateBucket(k) :
                 /\ Forward(garage, o.garage) /\ o.garage.keys = garage.keys /\ o.answer \in Answers
                 /\ o.garage.minted = garage.minted /\ o.garage.created \in {garage.created, NextBucket}
           /\ \A b : \A o \in DeleteBucket(b) :
                 /\ Forward(garage, o.garage) /\ o.garage.keys = garage.keys /\ o.answer \in Answers
                 /\ o.garage.minted = garage.minted /\ o.garage.created = garage.created
                 /\ o.answer = "ok" => b \notin o.garage.buckets
<1>1. Forward(garage, garage)
  BY DEF Forward, ClusterSound
<1>2. ASSUME NEW k \in garage.keys
      PROVE  /\ Forward(garage, CreatedFor(k))
             /\ CreatedFor(k).keys = garage.keys /\ CreatedFor(k).minted = garage.minted
             /\ CreatedFor(k).created = NextBucket
  <2> DEFINE g == CreatedFor(k)
             f == [garage.perms EXCEPT ![<<NextBucket, k>>] = Perms]
  <2>1. /\ {"keys", "minted", "buckets", "created"} \subseteq DOMAIN g
        /\ g.keys = garage.keys /\ g.minted = garage.minted
        /\ g.buckets = garage.buckets \cup {NextBucket} /\ g.created = NextBucket
        /\ DOMAIN g = DOMAIN garage /\ g.perms = f /\ g.cors = garage.cors /\ g.creators = garage.creators
    BY DEF ClusterSound, GrantsSound, CreatedFor
  <2>3. f \in [Buckets \X Keys -> SUBSET Perms]
    BY DEF ClusterSound, GrantsSound
  <2>4. \A b \in Buckets, c \in Keys : f[b, c] # {} => b \in garage.buckets \cup {NextBucket} /\ c \in garage.keys
    BY DEF ClusterSound, GrantsSound
  <2> HIDE DEF g, f
  <2>5. GrantsSound(g)
    BY <2>1, <2>3, <2>4 DEF ClusterSound, GrantsSound
  <2>2. Forward(garage, g)
    BY <2>1, <2>5 DEF Forward, ClusterSound, NextBucket
  <2> QED BY <2>1, <2>2 DEF g
<1>3. ASSUME NEW k, NEW o \in CreateBucket(k)
      PROVE  /\ Forward(garage, o.garage) /\ o.garage.keys = garage.keys /\ o.answer \in Answers
             /\ o.garage.minted = garage.minted /\ o.garage.created \in {garage.created, NextBucket}
  <2>1. /\ o.garage = garage \/ (o.garage = CreatedFor(k) /\ k \in garage.keys)
        /\ o.answer \in Answers
    BY DEF CreateBucket, Applied, Absent, Unchanged, Answers
  <2> QED BY <2>1, <1>1, <1>2
<1>4. ASSUME NEW b, NEW o \in DeleteBucket(b)
      PROVE  /\ Forward(garage, o.garage) /\ o.garage.keys = garage.keys /\ o.answer \in Answers
             /\ o.garage.minted = garage.minted /\ o.garage.created = garage.created
             /\ o.answer = "ok" => b \notin o.garage.buckets
  <2> DEFINE P(e) == [bk \in DOMAIN e |-> IF bk[1] = b THEN {} ELSE e[bk]]
             N(e) == {bk \in e : bk[1] # b}
             gone == [garage EXCEPT !.buckets = @ \ {b}, !.perms = P(@), !.names = N(@)]
  <2>1. o.garage \in {garage, gone} /\ o.answer \in Answers /\ (o.answer = "ok" => o.garage = gone)
    <3> HIDE DEF P, N
    <3>1. \A x \in Applied(gone) \cup Absent \cup {Unchanged("error")} :
             x.garage \in {garage, gone} /\ x.answer \in Answers /\ (x.answer = "ok" => x.garage = gone)
      BY DEF Applied, Absent, Unchanged, Answers
    <3>2. o \in Applied(gone) \cup Absent \cup {Unchanged("error")}
      BY DEF DeleteBucket, P, N
    <3> QED BY <3>1, <3>2
  <2> HIDE DEF P, N
  <2>2. /\ {"keys", "minted", "buckets", "created"} \subseteq DOMAIN gone
        /\ gone.keys = garage.keys /\ gone.minted = garage.minted
        /\ gone.buckets = garage.buckets \ {b} /\ gone.created = garage.created
        /\ DOMAIN gone = DOMAIN garage /\ gone.perms = P(garage.perms)
        /\ gone.cors = garage.cors /\ gone.creators = garage.creators
    BY DEF ClusterSound, GrantsSound
  <2> HIDE DEF gone
  <2>4. gone.perms \in [Buckets \X Keys -> SUBSET Perms]
    BY <2>2, ZenonT(30) DEF P, ClusterSound, GrantsSound
  <2>5. \A c \in Buckets, k \in Keys : gone.perms[c, k] = IF c = b THEN {} ELSE garage.perms[c, k]
    BY <2>2 DEF P, ClusterSound, GrantsSound
  <2>6. GrantsSound(gone)
    BY <2>2, <2>4, <2>5 DEF ClusterSound, GrantsSound
  <2>3. Forward(garage, gone)
    BY <2>2, <2>6 DEF Forward, ClusterSound
  <2> QED BY <2>1, <2>2, <2>3, <1>1
<1> QED BY <1>2, <1>3, <1>4

\* A call that brings a bucket or takes it away.
LEMMA BucketCallKeeps ==
    ASSUME KeysInv, NEW j \in Jobs, NEW STATE pc, NEW STATE outcomes, NEW STATE yes, NEW STATE no,
           Call(j, pc, outcomes, OkElse(yes, no)), pc # "done",
           \A o \in outcomes :
              /\ Forward(garage, o.garage) /\ o.garage.keys = garage.keys /\ o.answer \in Answers
              /\ Spends(job[j], garage, o.garage) /\ {yes.pc, no.pc} \cap {"mint", "create"} = {}
              /\ JobSound(job[j], o.garage, unheard) => Moves(job[j], no, o.garage, o.garage, unheard)
              /\ o.answer = "ok" /\ JobSound(job[j], o.garage, unheard)
                    => Moves(job[j], yes, o.garage, o.garage, unheard)
    PROVE  Keeps(j)
<1>1. ASSUME NEW o \in outcomes
      PROVE  /\ Forward(garage, o.garage)
             /\ \A k \in garage.keys \ o.garage.keys : Deletes(job[j], k)
             /\ Moves(job[j], OkElse(yes, no)[o.answer], garage, o.garage, Heard(o))
  <2>1. Forward(garage, o.garage) /\ o.garage.keys = garage.keys /\ o.answer \in Answers
    OBVIOUS
  <2>2. Heard(o) = unheard
    BY <2>1 DEF Heard, Settles
  <2>3. JobSound(job[j], o.garage, unheard)
    BY <2>1, StaysSound DEF KeysInv
  <2>4. OkElse(yes, no)[o.answer] = IF o.answer = "ok" THEN yes ELSE no
    BY <2>1 DEF OkElse, Answers
  <2>5. Moves(job[j], OkElse(yes, no)[o.answer], o.garage, o.garage, unheard)
    BY <2>3, <2>4
  <2>6. Spends(job[j], garage, o.garage) /\ Spent(job[j], OkElse(yes, no)[o.answer], garage, o.garage)
    BY <2>4 DEF Spent
  <2> QED BY <2>1, <2>2, <2>5, <2>6, TurnsThere
<1> QED BY <1>1, CallKeeps

\* The handlers that delete a bucket and that make one;
LEMMA DeleteBucketKeeps ==
    ASSUME KeysInv, NEW j \in Jobs, DeleteProvisionedBucket(j)
    PROVE  Keeps(j)
<1> DEFINE me == job[j]
           b == me.req.bucket
           failed == Ends(me, "failed")
           gone == Ends(me, "success")
<1>1. /\ me.req.cmd = "delete_bucket" /\ me.pc \in {"info", "delete"}
      /\ ClusterSound(garage) /\ JobSound(me, garage, unheard) /\ JobShape(me) /\ me.new = 0
  BY DEF KeysInv, JobSound, Named, Makers, DeleteProvisionedBucket, Call
<1>2. /\ Same(me, failed) /\ failed.pc = "done" /\ failed.result = "failed"
      /\ Same(me, gone) /\ gone.pc = "done" /\ gone.result = "success"
  BY <1>1, HowJobsMove
<1> HIDE DEF failed, gone
<1>3. \A g : ClusterSound(g) /\ JobSound(me, g, unheard) =>
                /\ Moves(me, failed, g, g, unheard)
                /\ b \notin g.buckets => Moves(me, gone, g, g, unheard) /\ Moves(me, Finalizing(me), g, g, unheard)
  <2> TAKE g
  <2> SUFFICES ASSUME ClusterSound(g), JobSound(me, g, unheard)
               PROVE  /\ Moves(me, failed, g, g, unheard)
                      /\ b \notin g.buckets => Moves(me, gone, g, g, unheard) /\ Moves(me, Finalizing(me), g, g, unheard)
    OBVIOUS
  <2>1. me.new \notin g.keys
    BY <1>1 DEF ClusterSound
  <2>2. Moves(me, failed, g, g, unheard)
    BY <1>1, <1>2, <2>1, TurnsDone
  <2>3. b \notin g.buckets => Moves(me, gone, g, g, unheard)
    BY <1>1, <1>2, <2>1, TurnsDone DEF Reapers
  <2>4. b \notin g.buckets => Moves(me, Finalizing(me), g, g, unheard)
    BY <1>1, TurnsFinalizing
  <2> QED BY <2>2, <2>3, <2>4
<1>4. Moves(me, Goto(me, "delete"), garage, garage, unheard)
  BY <1>1, TurnsAround DEF AtWork
<1>5. CASE Call(j, "info", GetBucketInfo(b),
                [ok |-> IF garage.objects[b] > 0 THEN failed ELSE Goto(me, "delete"),
                 absent |-> gone, error |-> failed])
  <2> DEFINE read == IF garage.objects[b] > 0 THEN failed ELSE Goto(me, "delete")
             next == [ok |-> read, absent |-> gone, error |-> failed]
  <2>1. Moves(me, read, garage, garage, unheard)
    BY <1>1, <1>3, <1>4
  <2> HIDE DEF read
  <2>2. ASSUME NEW o \in GetBucketInfo(b)
        PROVE  Quiet(o.garage) /\ Moves(me, next[o.answer], garage, garage, unheard)
    <3>1. Quiet(o.garage) /\ o.answer \in Answers /\ (o.answer = "absent" => b \notin garage.buckets)
      BY <1>1, QuietCalls
    <3> QED BY <3>1, <2>1, <1>1, <1>3 DEF Answers
  <2> HIDE DEF next
  <2> QED BY <1>5, <2>2, QuietKeeps DEF next, read
<1>6. CASE Call(j, "delete", DeleteBucket(b), OkElse(Finalizing(me), failed))
  <2>1. \A o \in DeleteBucket(b) :
           /\ Forward(garage, o.garage) /\ o.garage.keys = garage.keys /\ o.answer \in Answers
           /\ o.answer = "ok" => b \notin o.garage.buckets
           /\ ClusterSound(o.garage) /\ Spends(me, garage, o.garage)
    BY <1>1, BucketCalls DEF Forward, Spends
  <2>2. {Finalizing(me).pc, failed.pc} \cap {"mint", "create"} = {}
    BY <1>1, <1>2, HowJobsMove DEF Finalizing
  <2> QED BY <1>6, <1>3, <2>1, <2>2, BucketCallKeeps
<1> QED BY <1>5, <1>6 DEF DeleteProvisionedBucket, failed, gone

\* The provisioning of a bucket and its key keeps the invariant.
LEMMA ProvisionBucketKeeps ==
    ASSUME KeysInv, NEW j \in Jobs, ProvisionBucket(j)
    PROVE  Keeps(j)
<1> DEFINE me == job[j]
<1>1. me.req.cmd = "provision_bucket" /\ ClusterSound(garage)
  BY DEF KeysInv, ProvisionBucket
<1>2. CASE Mint(j, FALSE, "create", TRUE)
  BY <1>1, <1>2, MintKeeps DEF Makers, AtWork
<1>3. CASE Call(j, "create", CreateBucket(me.new), OkElse(Finalizing(me), Goto(me, "unmint")))
  <2>1. me.pc = "create"
    BY <1>3 DEF Call
  <2>2. \A g : ClusterSound(g) /\ JobSound(me, g, unheard) =>
                  /\ Moves(me, Finalizing(me), g, g, unheard)
                  /\ Moves(me, Goto(me, "unmint"), g, g, unheard)
    BY <1>1, <2>1, TurnsFinalizing, TurnsAround DEF AtWork
  <2>3. \A o \in CreateBucket(me.new) :
           /\ Forward(garage, o.garage) /\ o.garage.keys = garage.keys /\ o.answer \in Answers
           /\ ClusterSound(o.garage) /\ Spends(me, garage, o.garage)
    BY <1>1, <2>1, BucketCalls DEF Forward, Spends, NextBucket
  <2>4. {Finalizing(me).pc, Goto(me, "unmint").pc} \cap {"mint", "create"} = {}
    BY HowJobsMove DEF Finalizing, KeysInv, JobSound
  <2> QED BY <1>3, <2>2, <2>3, <2>4, BucketCallKeeps
<1> QED BY <1>2, <1>3 DEF ProvisionBucket

\* those that make a key, with the ways they take it back.
LEMMA ProvisionAccountKeyKeeps ==
    ASSUME KeysInv, NEW j \in Jobs, ProvisionAccountKey(j)
    PROVE  Keeps(j)
BY MintKeeps DEF ProvisionAccountKey, Makers

\* The turns of a job that has made a key and puts it to use.
LEMMA TurnsOfMakers ==
    ASSUME KeysInv, NEW j \in Jobs, job[j].pc \notin {"finalizing", "done"}
    PROVE  /\ Moves(job[j], Undo(job[j]), garage, garage, unheard)
           /\ \A p : AtWork(p) => /\ Moves(job[j], Goto(job[j], p), garage, garage, unheard)
                                  /\ \A s : Moves(job[j], Done(job[j], s, p), garage, garage, unheard)
<1>1. ClusterSound(garage) /\ JobSound(job[j], garage, unheard)
  BY DEF KeysInv
<1>2. \A p : AtWork(p) => /\ Moves(job[j], Goto(job[j], p), garage, garage, unheard)
                          /\ \A s : Moves(job[j], Done(job[j], s, p), garage, garage, unheard)
  BY <1>1, TurnsAround
<1>3. Moves(job[j], Undo(job[j]), garage, garage, unheard)
  BY <1>2 DEF Undo, AtWork
<1> QED BY <1>2, <1>3

\* A further key for a bucket keeps it.
LEMMA ProvisionAdditionalKeyKeeps ==
    ASSUME KeysInv, NEW j \in Jobs, ProvisionAdditionalKey(j)
    PROVE  Keeps(j)
<1> DEFINE me == job[j]
<1>1. /\ me.req.cmd = "provision_additional_key" /\ ClusterSound(garage) /\ JobSound(me, garage, unheard)
      /\ me.req.tier \subseteq Perms
  BY DEF KeysInv, ProvisionAdditionalKey, JobSound, Asked, OfTiers
<1>2. CASE Mint(j, FALSE, "grant", TRUE)
  BY <1>1, <1>2, MintKeeps DEF Makers, AtWork
<1>3. CASE Call(j, "grant", AllowBucketKey(me.req.bucket, me.new, me.req.tier),
                OkElse(Done(me, "granted", "name"), Undo(me)))
  <2>1. /\ Moves(me, Done(me, "granted", "name"), garage, garage, unheard)
        /\ Moves(me, Undo(me), garage, garage, unheard)
    BY <1>3, TurnsOfMakers DEF Call, AtWork
  <2> QED BY <1>1, <1>3, <2>1, QuietOkElse, QuietCalls
<1>4. CASE Call(j, "name", AddBucketAlias(me.req.bucket, me.new), OkElse(Finalizing(me), Undo(me)))
  <2>1. Moves(me, Finalizing(me), garage, garage, unheard)
    BY <1>1, <1>4, TurnsFinalizing DEF Call
  <2>2. Moves(me, Undo(me), garage, garage, unheard)
    BY <1>4, TurnsOfMakers DEF Call
  <2> QED BY <1>1, <1>4, <2>1, <2>2, QuietOkElse, QuietCalls
<1> QED BY <1>2, <1>3, <1>4 DEF ProvisionAdditionalKey

\* A rotation makes the new key before it deletes the old one.
LEMMA RotateKeeps ==
    ASSUME KeysInv, NEW j \in Jobs, RotateKey(j)
    PROVE  Keeps(j)
<1> DEFINE me == job[j]
           k == me.req.key
           reaped == OkElse(Finalizing(me), Undo(me))
<1>1. /\ me.req.cmd = "rotate_key" /\ ClusterSound(garage) /\ JobSound(me, garage, unheard)
      /\ Deletes(me, k) /\ me.req.tier \subseteq Perms
  BY DEF KeysInv, RotateKey, Deletes, Reapers, JobSound, Asked, OfTiers
<1>2. CASE Mint(j, FALSE, "grant", TRUE)
  BY <1>1, <1>2, MintKeeps DEF Makers, AtWork
<1>3. CASE Call(j, "grant", AllowBucketKey(me.req.bucket, me.new, me.req.tier),
                OkElse(Done(me, "granted", "name"), Undo(me)))
  <2>1. /\ Moves(me, Done(me, "granted", "name"), garage, garage, unheard)
        /\ Moves(me, Undo(me), garage, garage, unheard)
    BY <1>3, TurnsOfMakers DEF Call, AtWork
  <2> QED BY <1>1, <1>3, <2>1, QuietOkElse, QuietCalls
<1>4. CASE Call(j, "name", AddBucketAlias(me.req.bucket, me.new), OkElse(Done(me, "named", "reap"), Undo(me)))
  <2>1. /\ Moves(me, Done(me, "named", "reap"), garage, garage, unheard)
        /\ Moves(me, Undo(me), garage, garage, unheard)
    BY <1>4, TurnsOfMakers DEF Call, AtWork
  <2> QED BY <1>1, <1>4, <2>1, QuietOkElse, QuietCalls
<1>5. CASE Call(j, "reap", DeleteKey(k), reaped)
  <2>1. me.pc = "reap"
    BY <1>5 DEF Call
  <2>2. ASSUME NEW o \in DeleteKey(k)
        PROVE  /\ Moves(me, reaped[o.answer], o.garage, o.garage, Heard(o))
               /\ o.answer = "ok" => PastReap(reaped[o.answer])
    <3>1. /\ ClusterSound(o.garage) /\ JobSound(me, o.garage, Heard(o)) /\ JobShape(me)
          /\ o.answer \in Answers /\ (o.answer = "ok" => k \notin o.garage.keys)
      BY AfterDeletion DEF JobSound
    <3>2. CASE o.answer = "ok"
      <4>1. Moves(me, Finalizing(me), o.garage, o.garage, Heard(o))
        BY <1>1, <2>1, <3>1, <3>2, TurnsFinalizing
      <4>2. PastReap(Finalizing(me))
        BY <3>1, HowJobsMove DEF Finalizing, PastReap
      <4> QED BY <4>1, <4>2, <3>2 DEF OkElse
    <3>3. CASE o.answer # "ok"
      <4>1. \A p : AtWork(p) => Moves(me, Goto(me, p), o.garage, o.garage, Heard(o))
        BY <2>1, <3>1, TurnsAround
      <4>2. Moves(me, Undo(me), o.garage, o.garage, Heard(o))
        BY <4>1 DEF Undo, AtWork
      <4> QED BY <4>2, <3>1, <3>3 DEF OkElse, Answers
    <3> QED BY <3>2, <3>3
  <2> HIDE DEF reaped
  <2> QED BY <1>1, <1>5, <2>2, ReapKeeps
<1> QED BY <1>2, <1>3, <1>4, <1>5 DEF RotateKey

\* So do the three rollbacks.
LEMMA RollbacksKeep ==
    ASSUME KeysInv, NEW j \in Jobs, RollbackOrphanKey(j) \/ RollbackAdditionalKey(j) \/ RollbackRotation(j)
    PROVE  Keeps(j)
BY RollbackKeeps DEF RollbackOrphanKey, RollbackAdditionalKey, RollbackRotation

\* The clear that makes a key for itself.
LEMMA PurgeKeeps ==
    ASSUME KeysInv, NEW j \in Jobs, Purge(j)
    PROVE  Keeps(j)
<1> DEFINE me == job[j]
           failed == [me EXCEPT !.pc = "unmint", !.result = "failed"]
           named == Ends([me EXCEPT !.manual = TRUE], me.result)
           unminted == OkElse(Ends(me, me.result), named)
<1>1. /\ me.req.cmd = "purge" /\ ClusterSound(garage) /\ JobSound(me, garage, unheard) /\ JobShape(me)
  BY DEF KeysInv, JobSound, Purge
<1>2. CASE Mint(j, FALSE, "grant", FALSE)
  BY <1>1, <1>2, MintKeeps DEF Makers, AtWork
<1>3. me.pc \in {"grant", "name"} => Moves(me, failed, garage, garage, unheard)
  <2>1. Same(me, failed) /\ failed.pc = "unmint" /\ failed.result = "failed"
    BY <1>1 DEF Same, JobShape
  <2> HIDE DEF failed
  <2> QED BY <1>1, <2>1, TurnsAtWork DEF AtWork
<1>4. CASE Call(j, "grant", AllowBucketKey(me.req.bucket, me.new, {"read", "write"}), OkElse(Goto(me, "name"), failed))
  <2>1. me.pc = "grant" /\ Moves(me, Goto(me, "name"), garage, garage, unheard)
    BY <1>4, TurnsOfMakers DEF Call, AtWork
  <2>2. {"read", "write"} \subseteq Perms
    BY DEF Perms
  <2> HIDE DEF failed
  <2> QED BY <1>1, <1>3, <1>4, <2>1, <2>2, QuietOkElse, QuietCalls
<1>5. CASE Call(j, "name", AddBucketAlias(me.req.bucket, me.new), OkElse(Goto(me, "list"), failed))
  <2>1. me.pc = "name" /\ Moves(me, Goto(me, "list"), garage, garage, unheard)
    BY <1>5, TurnsOfMakers DEF Call, AtWork
  <2> HIDE DEF failed
  <2> QED BY <1>1, <1>3, <1>5, <2>1, QuietOkElse, QuietCalls
<1>6. CASE ClearLoop(j, me.new)
  BY <1>1, <1>6, ClearKeeps
<1>7. CASE Call(j, "unmint", DeleteKey(me.new), unminted)
  <2>1. me.pc = "unmint" /\ me.result # "rolled_back" /\ Deletes(me, me.new)
    BY <1>1, <1>7 DEF Call, JobSound, Placed, Deletes
  <2>2. /\ Same(me, named) /\ named.pc = "done" /\ named.manual /\ named.result = me.result
        /\ Same(me, Ends(me, me.result)) /\ Ends(me, me.result).pc = "done"
        /\ Ends(me, me.result).result = me.result
    BY <1>1 DEF Same, JobShape, Ends
  <2> HIDE DEF named
  <2>3. ASSUME NEW o \in DeleteKey(me.new)
        PROVE  Moves(me, unminted[o.answer], o.garage, o.garage, Heard(o))
    <3>1. /\ ClusterSound(o.garage) /\ JobSound(me, o.garage, Heard(o))
          /\ o.answer \in Answers /\ (o.answer = "ok" => me.new \notin o.garage.keys)
      BY AfterDeletion
    <3>2. Moves(me, named, o.garage, o.garage, Heard(o))
      BY <1>1, <2>1, <2>2, <3>1, TurnsDone DEF Reapers
    <3>3. o.answer = "ok" => Moves(me, Ends(me, me.result), o.garage, o.garage, Heard(o))
      BY <1>1, <2>1, <2>2, <3>1, TurnsDone DEF Reapers
    <3>4. unminted[o.answer] = IF o.answer = "ok" THEN Ends(me, me.result) ELSE named
      BY <3>1 DEF OkElse, Answers
    <3> QED BY <3>2, <3>3, <3>4
  <2>4. me.req.cmd \notin Reapers
    BY <1>1 DEF Reapers
  <2> HIDE DEF unminted
  <2> QED BY <1>1, <1>7, <2>1, <2>3, <2>4, ReapKeeps
<1> QED BY <1>2, <1>4, <1>5, <1>6, <1>7 DEF Purge

-----------------------------------------------------------------------------
\* A job begins with no key of its own.
LEMMA BeginKeeps ==
    ASSUME KeysInv, NEW j \in Jobs, NEW me, Begin(j, me), JobSound(me, garage, unheard), me.new = 0
    PROVE  KeysInv'
<1>1. /\ job[j].pc = "unborn" /\ UNCHANGED <<garage, unheard>>
      /\ DOMAIN job' = Jobs /\ job'[j] = me /\ \A i \in Jobs \ {j} : job'[i] = job[i]
  BY DEF Begin, historyVars, KeysInv
<1>2. \A k : k # 0 => ~Deletes(job[j], k) /\ job[j].new # k
  BY <1>1 DEF KeysInv, JobSound, Placed, Deletes, Reapers
<1>3. \A k : \A i \in Jobs : k # 0 /\ Deletes(job[i], k) => Deletes(job'[i], k) /\ i # j
  BY <1>1, <1>2
<1>4. \A i \in Jobs : JobSound(job'[i], garage, unheard)
  BY <1>1 DEF KeysInv
<1>5. ASSUME NEW i \in Jobs PROVE OldKeyThere(i)'
  <2> DEFINE old == job'[i].req.key
  <2> SUFFICES ASSUME job'[i].req.cmd \in Reapers, ~PastReap(job'[i])
               PROVE  (old \in garage.keys \cup unheard) \/ \E m \in Jobs \ {i} : Deletes(job'[m], old)
    BY <1>1 DEF OldKeyThere
  <2>1. old \in 1 .. garage.minted /\ old # 0
    BY <1>4 DEF JobSound, Named, Reapers, KeysInv, ClusterSound
  <2>2. CASE i = j
    <3>1. (old \in garage.keys \cup unheard) \/ \E m \in Jobs : Deletes(job[m], old)
      BY <2>1 DEF KeysInv, KeysTraced
    <3> QED BY <3>1, <2>1, <2>2, <1>3
  <2>3. CASE i # j
    <3>1. job'[i] = job[i]
      BY <2>3, <1>1
    <3>2. (old \in garage.keys \cup unheard) \/ \E m \in Jobs \ {i} : Deletes(job[m], old)
      BY <3>1 DEF KeysInv, OldKeyThere
    <3> QED BY <3>2, <2>1, <1>3
  <2> QED BY <2>2, <2>3
<1>6. ASSUME NEW k \in 1 .. garage.minted
      PROVE  k \in garage.keys \cup unheard \/ \E i \in Jobs : Deletes(job'[i], k)
  <2>1. k # 0
    BY DEF KeysInv, ClusterSound
  <2> QED BY <2>1, <1>3 DEF KeysInv, KeysTraced
<1>7. ASSUME NEW k \in garage.keys \ {1, 2}
      PROVE  k \in unheard \/ \E i \in Jobs : job'[i].new = k
  <2>1. k # 0
    BY DEF KeysInv, ClusterSound
  <2> QED BY <2>1, <1>1, <1>2 DEF KeysInv, KeysTraced
<1>8. KeysTraced'
  BY <1>1, <1>6, <1>7 DEF KeysTraced
<1>9. RoomLeft'
  <2>1. /\ me.pc = "mint" => garage.minted + Cardinality(AboutToMint) < MaxKeys
        /\ me.req.cmd = "provision_bucket" => garage.created + Cardinality(AboutToCreate) < MaxBuckets
    BY DEF Begin, RoomForKey, RoomForBucket, AboutToMint, AboutToCreate
  <2>2. /\ AboutToMint' \subseteq AboutToMint \cup {j}
        /\ me.pc # "mint" => AboutToMint' \subseteq AboutToMint
        /\ AboutToCreate' \subseteq AboutToCreate \cup {j}
        /\ me.req.cmd # "provision_bucket" => AboutToCreate' \subseteq AboutToCreate
    BY <1>1 DEF AboutToMint, AboutToCreate
  <2>3. AboutToMint \in SUBSET Jobs /\ AboutToCreate \in SUBSET Jobs
    BY DEF AboutToMint, AboutToCreate
  <2>4. /\ Cardinality(AboutToMint') \in Nat /\ Cardinality(AboutToMint) \in Nat
        /\ Cardinality(AboutToMint') =< Cardinality(AboutToMint) + 1
        /\ me.pc # "mint" => Cardinality(AboutToMint') =< Cardinality(AboutToMint)
    BY <2>2, <2>3, FewerWait, OneMoreWaits
  <2>5. /\ Cardinality(AboutToCreate') \in Nat /\ Cardinality(AboutToCreate) \in Nat
        /\ Cardinality(AboutToCreate') =< Cardinality(AboutToCreate) + 1
        /\ me.req.cmd # "provision_bucket" => Cardinality(AboutToCreate') =< Cardinality(AboutToCreate)
    BY <2>2, <2>3, FewerWait, OneMoreWaits
  <2>6. MaxKeys \in Nat /\ MaxBuckets \in Nat /\ garage.minted \in Nat /\ garage.created \in Nat
    BY GarageAssumption DEF KeysInv, ClusterSound
  <2> QED BY <1>1, <2>1, <2>4, <2>5, <2>6 DEF KeysInv, RoomLeft
<1> QED BY <1>1, <1>4, <1>5, <1>8, <1>9 DEF KeysInv, Begin

\* A request names keys and buckets that were given out.
LEMMA StartKeeps ==
    ASSUME KeysInv, NEW j \in Jobs, NEW r \in Requests, Start(j, r)
    PROVE  KeysInv'
<1> DEFINE me == [Unborn EXCEPT !.req = r, !.pc = FirstCall(r.cmd)]
<1>1. /\ JobShape(me) /\ me.req = r /\ me.pc = FirstCall(r.cmd) /\ me.new = 0
      /\ me.result = "none"
  BY DEF JobShape, Unborn
<1>2. FirstCall(r.cmd) \notin {"unborn", "finalizing", "done"}
  BY DEF FirstCall, Requests, SettingRequests, ProvisioningRequests, AccountKeyRequests, TransferRequests, ClearingRequests
<1>3. /\ r.cmd \in Reapers => r.key \in MadeKeys
      /\ r.cmd = "delete_bucket" => r.bucket \in MadeBuckets
  BY DEF Reapers, Requests, SettingRequests, ProvisioningRequests, AccountKeyRequests, TransferRequests, ClearingRequests
<1>4. Begin(j, me)
  BY DEF Start
<1>6. /\ r.cmd \in OfKeys => r.key \in MadeKeys
      /\ r.cmd \in OfBuckets => r.bucket \in MadeBuckets
      /\ r.cmd \in OfTiers => r.tier \in scenario.tiers
      /\ r.cmd = "converge_rotation" => r.to \in MadeKeys \ {r.key}
      /\ r.cmd = "set_capability" => r.enable \in BOOLEAN
  BY DEF OfKeys, OfBuckets, OfTiers, Reapers,
         Requests, SettingRequests, ProvisioningRequests, AccountKeyRequests, TransferRequests, ClearingRequests
<1>7. \A t \in scenario.tiers : t \subseteq Perms
  BY JobsAssumption DEF KeysInv, TierPerms, Perms
<1> HIDE DEF me
<1>5. JobSound(me, garage, unheard)
  <2>1. ClusterSound(garage)
    BY DEF KeysInv
  <2>2. Named(me, garage)
    <3>1. me.req.cmd \in Reapers => me.req.key \in 1 .. garage.minted /\ me.req.key # 0
      BY <1>1, <1>3, <2>1 DEF MadeKeys, ClusterSound
    <3>2. me.req.cmd = "delete_bucket" => me.req.bucket \in 1 .. garage.created
      BY <1>1, <1>3 DEF MadeBuckets
    <3>3. me.new \in 0 .. garage.minted
      BY <1>1, <2>1 DEF ClusterSound
    <3> QED BY <1>1, <3>1, <3>2, <3>3 DEF Named, Reapers
  <2>3. Placed(me) /\ Accounted(me, garage, unheard) /\ GoneSoon(me, garage)
    BY <1>1, <1>2 DEF Placed, Accounted, GoneSoon
  <2>4. Asked(me, garage)
    BY <1>1, <1>6, <1>7 DEF Asked, MadeKeys, MadeBuckets
  <2> QED BY <1>1, <2>2, <2>3, <2>4 DEF JobSound
<1> QED BY <1>1, <1>4, <1>5, BeginKeeps

\* So does a transfer from a snapshot, which reads no old key.
LEMMA StartFromSnapshotKeeps ==
    ASSUME KeysInv, NEW j \in Jobs, NEW i \in Jobs, NEW to \in MadeKeys, StartFromSnapshot(j, i, to)
    PROVE  KeysInv'
<1> DEFINE me == [Unborn EXCEPT !.req = [cmd |-> "converge_rotation", key |-> job[i].req.key, to |-> to],
                                !.pc = "new", !.snap = job[i].snap]
<1>1. /\ JobShape(me) /\ me.req.cmd = "converge_rotation" /\ me.pc = "new" /\ me.new = 0
      /\ me.result = "none" /\ me.req.key = job[i].req.key /\ me.req.to = to
  BY DEF JobShape, Unborn
<1>2. Begin(j, me)
  BY DEF StartFromSnapshot
<1>4. job[i].req.key \in MadeKeys /\ to # job[i].req.key
  BY DEF StartFromSnapshot, KeysInv, JobSound, Asked, OfKeys, Reapers, MadeKeys
<1> HIDE DEF me
<1>5. Asked(me, garage)
  BY <1>1, <1>4 DEF Asked, OfKeys, OfBuckets, OfTiers, Reapers, MadeKeys
<1>3. JobSound(me, garage, unheard)
  BY <1>1, <1>5 DEF KeysInv, ClusterSound, JobSound, Named, Placed, Accounted, GoneSoon, Makers, Reapers
<1> QED BY <1>1, <1>2, <1>3, BeginKeeps

\* What the customers do over S3 leaves the keys alone.
LEMMA CustomersKeep ==
    ASSUME KeysInv,
           \/ \E k \in Keys : CustomerCreates(k)
           \/ \E b \in Buckets, k \in Keys : CustomerPuts(b, k)
    PROVE  KeysInv'
<1>1. ClusterSound(garage)
  BY DEF KeysInv
<1> DEFINE Leaves == /\ Forward(garage, garage') /\ garage'.keys = garage.keys
                     /\ garage'.minted = garage.minted /\ job' = job /\ unheard' = unheard
                     /\ scenario' = scenario
                     /\ \/ garage'.created = garage.created
                        \/ /\ garage'.created = garage.created + 1
                           /\ garage.created + Cardinality(AboutToCreate) < MaxBuckets
<1>2. Leaves
  <2>1. ASSUME NEW k, CustomerCreates(k) PROVE Leaves
    <3>1. k \in garage.keys
      BY <1>1, <2>1 DEF CustomerCreates, ClusterSound, GrantsSound
    <3> QED BY <1>1, <2>1, <3>1, BucketCalls DEF CustomerCreates, ByCustomer, RoomForBucket, AboutToCreate, NextBucket
  <2>2. ASSUME NEW b, NEW k, CustomerPuts(b, k) PROVE Leaves
    <3>1. /\ DOMAIN garage' = DOMAIN garage
          /\ garage'.keys = garage.keys /\ garage'.minted = garage.minted
          /\ garage'.buckets = garage.buckets /\ garage'.created = garage.created
          /\ garage'.perms = garage.perms /\ garage'.creators = garage.creators /\ garage'.cors = garage.cors
      BY <1>1, <2>2 DEF CustomerPuts, ByCustomer, ClusterSound, GrantsSound
    <3>2. ClusterSound(garage')
      BY <1>1, <3>1 DEF ClusterSound, GrantsSound
    <3> QED BY <1>1, <2>2, <3>1, <3>2 DEF CustomerPuts, ByCustomer, Forward, ClusterSound
  <2> QED BY <2>1, <2>2
<1>3. \A i \in Jobs : JobSound(job'[i], garage', unheard')
  BY <1>1, <1>2, StaysSound DEF KeysInv
<1>4. \A i \in Jobs : OldKeyThere(i)'
  BY <1>2 DEF KeysInv, OldKeyThere
<1>5. KeysTraced'
  BY <1>2 DEF KeysInv, KeysTraced
<1>6. RoomLeft'
  <2>1. AboutToMint' = AboutToMint /\ AboutToCreate' = AboutToCreate
    BY <1>2 DEF AboutToMint, AboutToCreate
  <2>2. Cardinality(AboutToCreate) \in Nat /\ MaxBuckets \in Nat /\ garage.created \in Nat
    BY FewerWait, GarageAssumption, <1>1 DEF AboutToCreate, ClusterSound
  <2> QED BY <1>2, <2>1, <2>2 DEF KeysInv, RoomLeft
<1> QED BY <1>2, <1>3, <1>4, <1>5, <1>6 DEF KeysInv, Forward

\* The invariant holds at the start,
LEMMA KeysInitially == Init => KeysInv
<1> SUFFICES ASSUME Init PROVE KeysInv
  OBVIOUS
<1>1. /\ {"keys", "minted", "buckets", "created"} \subseteq DOMAIN garage
      /\ garage.keys = {1, 2} /\ garage.minted = 2 /\ garage.buckets = {1} /\ garage.created = 1
      /\ {"perms", "creators", "names", "objects", "cors"} \subseteq DOMAIN garage
      /\ garage.perms = [bk \in Buckets \X Keys |->
            IF bk = <<1, 1>> THEN Perms ELSE IF bk = <<1, 2>> THEN scenario.attached ELSE {}]
      /\ garage.creators = scenario.creators /\ DOMAIN garage.cors = Buckets
  BY DEF Init
<1>a. scenario \in Scenarios /\ scenario.attached \subseteq Perms /\ scenario.creators \subseteq {1, 2}
  BY JobsAssumption DEF Init, TierPerms, Perms
<1>2. ClusterSound(garage)
  <2>1. garage.perms \in [Buckets \X Keys -> SUBSET Perms]
    BY <1>1, <1>a
  <2>2. \A b \in Buckets, k \in Keys : garage.perms[b, k] # {} => b \in garage.buckets /\ k \in garage.keys
    BY <1>1
  <2>3. GrantsSound(garage)
    BY <1>1, <1>a, <2>1, <2>2 DEF GrantsSound
  <2> QED BY <1>1, <2>3 DEF ClusterSound
<1>3. DOMAIN job = Jobs /\ \A j \in Jobs : job[j] = Unborn
  BY DEF Init
<1>4. /\ JobShape(Unborn) /\ Unborn.req.cmd = "none" /\ Unborn.pc = "unborn" /\ Unborn.new = 0
      /\ Unborn.result = "none"
  BY DEF JobShape, Unborn
<1>5. JobSound(Unborn, garage, unheard)
  BY <1>1, <1>4 DEF JobSound, Named, Placed, Asked, Accounted, GoneSoon, Makers, Reapers, OfKeys, OfBuckets, OfTiers
<1>6. \A j \in Jobs : OldKeyThere(j)
  BY <1>3, <1>4 DEF OldKeyThere, Reapers
<1>7. KeysTraced
  BY <1>1 DEF KeysTraced
<1>8. RoomLeft
  <2>1. AboutToMint = {} /\ AboutToCreate = {}
    BY <1>3, <1>4 DEF AboutToMint, AboutToCreate
  <2> QED BY <1>1, <2>1, FS_EmptySet, JobsAssumption, GarageAssumption DEF RoomLeft
<1> QED BY <1>2, <1>3, <1>5, <1>6, <1>7, <1>8, <1>a DEF KeysInv

\* Every handler keeps the invariant;
LEMMA HandlersKeep ==
    ASSUME KeysInv, NEW j \in Jobs, Handle(j)
    PROVE  Keeps(j)
BY AttachKeeps, DetachKeeps, SettingKeeps, ConvergeKeeps, EnforceKeeps, ClearKeeps, FinishKeeps,
   DeleteKeyKeeps, DeleteBucketKeeps, ProvisionBucketKeeps, ProvisionAccountKeyKeeps,
   ProvisionAdditionalKeyKeeps, RotateKeeps, RollbacksKeep, PurgeKeeps
   DEF Handle, ClearBucket

\* and every step keeps it;
LEMMA KeysStep == KeysInv /\ [Next]_vars => KeysInv'
<1> SUFFICES ASSUME KeysInv, [Next]_vars PROVE KeysInv'
  OBVIOUS
<1>1. ASSUME NEW j \in Jobs, Handle(j) PROVE KeysInv'
  BY <1>1, HandlersKeep DEF Keeps
<1>2. ASSUME NEW j \in Jobs, ClearTimesOut(j) PROVE KeysInv'
  BY <1>2, TimeOutKeeps DEF Keeps
<1>3. ASSUME NEW j \in Jobs, NEW r \in Requests, Start(j, r) PROVE KeysInv'
  BY <1>3, StartKeeps
<1>4. ASSUME NEW i \in Jobs, NEW j \in Jobs, NEW to \in MadeKeys, StartFromSnapshot(j, i, to) PROVE KeysInv'
  BY <1>4, StartFromSnapshotKeeps
<1>5. CASE StopAll
  BY <1>5, StopKeeps
<1>6. CASE \/ \E k \in Keys : CustomerCreates(k)
           \/ \E b \in Buckets, k \in Keys : CustomerPuts(b, k)
  BY <1>6, CustomersKeep
<1>7. CASE UNCHANGED vars
  BY <1>7 DEF vars, historyVars, KeysInv, OldKeyThere, KeysTraced, RoomLeft, AboutToMint, AboutToCreate
<1> QED BY <1>1, <1>2, <1>3, <1>4, <1>5, <1>6, <1>7 DEF Next

\* and it says that every key is accounted for.
LEMMA InvAccounts == KeysInv => KeysAccounted
<1> SUFFICES ASSUME KeysInv PROVE KeysAccounted
  OBVIOUS
<1>1. NothingLeaked
  <2> SUFFICES ASSUME NEW k \in garage.keys \ {1, 2}, k \notin unheard
               PROVE  \E j \in Jobs :
                         /\ job[j].new = k
                         /\ \/ Running(j)
                            \/ job[j].manual \/ job[j].result = "cancelled"
                            \/ job[j].result = "success" /\ job[j].req.cmd # "purge"
    BY DEF NothingLeaked
  <2>1. PICK j \in Jobs : job[j].new = k
    BY DEF KeysInv, KeysTraced
  <2>2. k # 0
    BY DEF KeysInv, ClusterSound
  <2>3. job[j].pc # "unborn"
    BY <2>1, <2>2 DEF KeysInv, JobSound, Placed
  <2>4. Accounted(job[j], garage, unheard)
    BY DEF KeysInv, JobSound
  <2> QED BY <2>1, <2>3, <2>4 DEF Accounted, Running
<1>2. GoneMeansGone
  BY DEF KeysInv, JobSound, GoneSoon, GoneMeansGone, Succeeded, Ended, Reapers
<1>3. OldKeyKept
  BY DEF KeysInv, OldKeyThere, OldKeyKept, OtherDeletes, Ended, PastReap, Deletes, Reapers
<1> QED BY <1>1, <1>2, <1>3 DEF KeysAccounted

\* A job that ends accounts for the key it made, what is reported gone stays gone, and a
\* rotation that fails leaves the old key in place (the rollbacks and the finally of
\* garage/jobs), whatever other jobs, customers, lost answers and ends of a session do.
THEOREM KeysAreAccounted == Spec => []KeysAccounted
<1>1. Init => KeysInv
  BY KeysInitially
<1>2. KeysInv /\ [Next]_vars => KeysInv'
  BY KeysStep
<1>3. KeysInv => KeysAccounted
  BY InvAccounts
<1> QED BY <1>1, <1>2, <1>3, PTL DEF Spec

-----------------------------------------------------------------------------
(* The jobs: what they report is so.                                       *)

\* A job that has done what it was asked, or will say so when its last message is out.
Succeeds(me) == me.pc = "finalizing" \/ (me.pc = "done" /\ me.result = "success")

\* What each command's job has brought about or read so far, if nobody else changes
\* Garage: an attachment,
AttachTold(j) ==
    LET me == job[j] grant == garage.perms[me.req.bucket, me.req.key]
    IN  me.req.cmd = "attach_account_key" =>
            /\ me.pc \in {"name", "confirm"} => grant \subseteq me.req.tier
            /\ Succeeds(me) => grant = me.req.tier

\* a detachment,
DetachTold(j) ==
    LET me == job[j]
    IN  me.req.cmd = "detach_account_key" /\ Succeeds(me) => garage.perms[me.req.bucket, me.req.key] = {}

\* a key for a bucket that has one already,
GrantTold(j) ==
    LET me == job[j] b == me.req.bucket new == me.new
    IN  me.req.cmd \in {"provision_additional_key", "rotate_key"} =>
            /\ me.pc \in {"grant", "name", "reap"} \/ Succeeds(me) => new \in Keys
            /\ me.pc = "grant" => garage.perms[b, new] = {}
            /\ me.pc \in {"name", "reap"} \/ Succeeds(me) => garage.perms[b, new] = me.req.tier
            /\ me.pc = "reap" \/ Succeeds(me) => <<b, new>> \in garage.names

\* a bucket and its key,
ProvisionTold(j) ==
    LET me == job[j]
    IN  me.req.cmd = "provision_bucket" /\ Succeeds(me) => \E b \in garage.buckets : Reaches(b, me.new, "owner")

\* an emptied bucket,
ClearTold(j) ==
    LET me == job[j]
    IN  me.req.cmd \in {"clear_bucket", "purge"} =>
            /\ me.pc \notin {"unmint", "done"} => me.result # "success"
            /\ Succeeds(me) \/ me.result = "success" => garage.objects[me.req.bucket] = 0

\* the CORS rules,
CorsTold(j) ==
    LET me == job[j] now == garage.cors[me.req.bucket]
    IN  /\ me.req.cmd \in {"set_cors", "get_cors"} /\ Succeeds(me) => me.rules = {now}
        /\ me.req.cmd = "set_cors" =>
              /\ Succeeds(me) => now = me.req.rules
              /\ me.pc = "done" /\ me.result = "stale" => now # me.req.expected /\ me.rules = {now}

\* a setting of a key, and who holds what,
ReadsTold(j) ==
    LET me == job[j]
    IN  /\ me.req.cmd = "set_capability" /\ Succeeds(me) => (me.req.key \in garage.creators) = me.req.enable
        /\ me.req.cmd = "get_key_buckets" =>
              /\ me.pc = "read" => me.snap = NoGrants
              /\ Succeeds(me) => me.snap = Grants(me.req.key)
        /\ me.req.cmd = "get_bucket_owners" =>
              /\ me.pc = "info" => me.holders = NoHolders
              /\ Succeeds(me) => \A k \in Keys : me.holders[k] = garage.perms[me.req.bucket, k]

\* a transfer of grants,
ConvergeTold(j) ==
    LET me == job[j]
    IN  me.req.cmd = "converge_rotation" =>
            /\ me.pc = "old" => me.snap = NoGrants
            /\ me.pc = "new" => \A b \in Buckets : garage.perms[b, me.req.key] \subseteq me.snap[b]
            /\ me.pc = "done" /\ me.result = "converged" =>
                  \A b \in Buckets :
                      garage.perms[b, me.req.key] \cup (me.snap[b] \cap Perms) \subseteq garage.perms[b, me.req.to]

\* the list of a key's grants before it goes,
ReapTold(j) ==
    LET me == job[j] k == me.req.key
    IN  me.req.cmd = "snapshot_and_reap" =>
            /\ me.pc = "snapshot" => me.snap = NoGrants
            /\ me.pc = "reap" => me.snap = Grants(k)
            /\ Succeeds(me) => died[k] = me.snap \/ k \in unheard \/ \E i \in Jobs \ {j} : Deletes(job[i], k)

\* and the narrowing of a key to its tier: what it read of the owners is still so, it
\* narrows only where it saw another owner, and what it has passed is narrow.
OwnersStand(j) ==
    LET k == job[j].req.key
    IN  \A b \in Buckets :
            "owner" \in job[j].snap[b] => "owner" \in garage.perms[b, k] \/ OtherOwner(b, k)

EnforceTold(j) ==
    LET me == job[j] k == me.req.key tier == me.req.tier
        Shared(b) == b \in LosesOwner(me.snap, tier) => OtherOwner(b, k)
    IN  me.req.cmd = "enforce_tier" =>
            /\ me.pc = "read" => me.snap = NoGrants
            /\ OwnersStand(j)
            /\ me.pc = "check" \/ me.result = "would_strand" => Grants(k) = me.snap
            /\ me.pc # "done" => me.result # "would_strand"
            /\ me.pc = "check" => \A b \in Buckets : b \in me.todo \cup me.risk \/ Shared(b)
            /\ me.pc \in {"narrow", "deny"} =>
                  /\ me.todo \subseteq OverTier(me.snap, tier)
                  /\ \A b \in Buckets : Shared(b) /\ (b \in me.todo \/ garage.perms[b, k] \subseteq tier \cup {"read"})
            /\ me.pc = "deny" => me.at \in me.todo
            /\ Succeeds(me) => \A b \in Buckets : garage.perms[b, k] \subseteq tier \cup {"read"}

Told(j) ==
    /\ AttachTold(j) /\ DetachTold(j) /\ GrantTold(j) /\ ProvisionTold(j) /\ ClearTold(j) /\ CorsTold(j)
    /\ ReadsTold(j) /\ ConvergeTold(j) /\ ReapTold(j) /\ EnforceTold(j)

ResultsInv == KeysInv /\ \A j \in Jobs \ disturbed : Told(j)

-----------------------------------------------------------------------------
\* A job that ended before it heard its answer.
CutShort(me, you) == you.req = me.req /\ you.snap = me.snap /\ you.pc = "done" /\ you.result = "cancelled"

\* A job's word is about its own command.
LEMMA OwnWord ==
    ASSUME NEW j, job'[j].req = job[j].req
    PROVE  LET cmd == job[j].req.cmd
           IN  /\ cmd # "attach_account_key" => AttachTold(j)'
               /\ cmd # "detach_account_key" => DetachTold(j)'
               /\ cmd \notin {"provision_additional_key", "rotate_key"} => GrantTold(j)'
               /\ cmd # "provision_bucket" => ProvisionTold(j)'
               /\ cmd \notin {"clear_bucket", "purge"} => ClearTold(j)'
               /\ cmd \notin {"set_cors", "get_cors"} => CorsTold(j)'
               /\ cmd \notin {"set_capability", "get_key_buckets", "get_bucket_owners"} => ReadsTold(j)'
               /\ cmd # "converge_rotation" => ConvergeTold(j)'
               /\ cmd # "snapshot_and_reap" => ReapTold(j)'
               /\ cmd # "enforce_tier" => EnforceTold(j)'
<1>1. job[j].req.cmd # "attach_account_key" => AttachTold(j)'
  BY DEF AttachTold
<1>2. job[j].req.cmd # "detach_account_key" => DetachTold(j)'
  BY DEF DetachTold
<1>3. job[j].req.cmd \notin {"provision_additional_key", "rotate_key"} => GrantTold(j)'
  BY DEF GrantTold
<1>4. job[j].req.cmd # "provision_bucket" => ProvisionTold(j)'
  BY DEF ProvisionTold
<1>5. job[j].req.cmd \notin {"clear_bucket", "purge"} => ClearTold(j)'
  BY DEF ClearTold
<1>6. job[j].req.cmd \notin {"set_cors", "get_cors"} => CorsTold(j)'
  BY DEF CorsTold
<1>7. job[j].req.cmd \notin {"set_capability", "get_key_buckets", "get_bucket_owners"} => ReadsTold(j)'
  BY DEF ReadsTold
<1>8. job[j].req.cmd # "converge_rotation" => ConvergeTold(j)'
  BY DEF ConvergeTold
<1>9. job[j].req.cmd # "snapshot_and_reap" => ReapTold(j)'
  BY DEF ReapTold
<1>10. job[j].req.cmd # "enforce_tier" => EnforceTold(j)'
  BY DEF EnforceTold
<1> QED BY <1>1, <1>2, <1>3, <1>4, <1>5, <1>6, <1>7, <1>8, <1>9, <1>10

\* One that was cut short has no word, but on the owners it read of.
LEMMA CutIsTold ==
    ASSUME NEW j, CutShort(job[j], job'[j]), job[j].req.cmd # "enforce_tier"
    PROVE  Told(j)'
<1>1. ~Succeeds(job'[j]) /\ job'[j].pc = "done" /\ job'[j].result = "cancelled" /\ job'[j].req = job[j].req
  BY DEF CutShort, Succeeds
<1>2. AttachTold(j)' /\ DetachTold(j)' /\ GrantTold(j)' /\ ProvisionTold(j)'
  BY <1>1 DEF AttachTold, DetachTold, GrantTold, ProvisionTold
<1>3. ClearTold(j)' /\ CorsTold(j)' /\ ReadsTold(j)'
  BY <1>1 DEF ClearTold, CorsTold, ReadsTold
<1>4. ConvergeTold(j)' /\ ReapTold(j)' /\ EnforceTold(j)'
  BY <1>1, OwnWord DEF ConvergeTold, ReapTold
<1> QED BY <1>2, <1>3, <1>4 DEF Told

\* Where a call leaves its job.
LEMMA CallGoes ==
    ASSUME KeysInv, NEW j \in Jobs, NEW STATE pc, NEW STATE outcomes, NEW STATE next,
           Call(j, pc, outcomes, next), job[j].req.cmd # "purge"
    PROVE  /\ job[j].pc = pc
           /\ \E o \in outcomes :
                 garage' = o.garage /\ (CutShort(job[j], job'[j]) \/ job'[j] = next[o.answer])
<1>1. JobShape(job[j]) /\ DOMAIN job = Jobs
  BY DEF KeysInv, JobSound
<1>2. CutShort(job[j], Cancelled(job[j]))
  BY <1>1 DEF CutShort, Cancelled, Ends, JobShape
<1> QED BY <1>1, <1>2 DEF Call

\* The same for a call whose every other answer is a failure.
LEMMA OkElseGoes ==
    ASSUME KeysInv, NEW j \in Jobs, NEW STATE pc, NEW STATE outcomes, NEW STATE yes, NEW STATE no,
           Call(j, pc, outcomes, OkElse(yes, no)), job[j].req.cmd # "purge",
           \A o \in outcomes : o.answer \in Answers
    PROVE  /\ job[j].pc = pc
           /\ \E o \in outcomes :
                 /\ garage' = o.garage
                 /\ \/ CutShort(job[j], job'[j])
                    \/ (o.answer = "ok" /\ job'[j] = yes)
                    \/ (o.answer # "ok" /\ job'[j] = no)
<1>1. \A a \in Answers : OkElse(yes, no)[a] = IF a = "ok" THEN yes ELSE no
  BY DEF OkElse, Answers
<1>2. /\ job[j].pc = pc
      /\ \E o \in outcomes :
            garage' = o.garage /\ (CutShort(job[j], job'[j]) \/ job'[j] = OkElse(yes, no)[o.answer])
  BY CallGoes
<1> QED BY <1>1, <1>2

\* The bounds leave room for what is given out.
LEMMA InBounds ==
    /\ KeysInv => 1 .. garage.minted \subseteq Keys /\ 1 .. garage.created \subseteq Buckets
    /\ KeysInv' => 1 .. garage'.minted \subseteq Keys /\ 1 .. garage'.created \subseteq Buckets
<1>1. MaxKeys \in Nat /\ MaxBuckets \in Nat
  BY GarageAssumption
<1>2. ASSUME KeysInv PROVE 1 .. garage.minted \subseteq Keys /\ 1 .. garage.created \subseteq Buckets
  <2>1. AboutToMint \in SUBSET Jobs /\ AboutToCreate \in SUBSET Jobs
    BY DEF AboutToMint, AboutToCreate
  <2>2. /\ Cardinality(AboutToMint) \in Nat /\ Cardinality(AboutToCreate) \in Nat
        /\ garage.minted \in Nat /\ garage.created \in Nat
    BY <1>2, <2>1, FewerWait DEF KeysInv, ClusterSound
  <2> QED BY <1>1, <1>2, <2>2 DEF KeysInv, RoomLeft, Keys, Buckets
<1>3. ASSUME KeysInv' PROVE 1 .. garage'.minted \subseteq Keys /\ 1 .. garage'.created \subseteq Buckets
  <2>1. AboutToMint' \in SUBSET Jobs /\ AboutToCreate' \in SUBSET Jobs
    BY DEF AboutToMint, AboutToCreate
  <2>2. /\ Cardinality(AboutToMint') \in Nat /\ Cardinality(AboutToCreate') \in Nat
        /\ garage'.minted \in Nat /\ garage'.created \in Nat
    BY <1>3, <2>1, FewerWait DEF KeysInv, ClusterSound
  <2> QED BY <1>1, <1>3, <2>2 DEF KeysInv, RoomLeft, Keys, Buckets
<1> QED BY <1>2, <1>3

\* What the calls do: a read nothing;
LEMMA Reads ==
    /\ \A k : \A o \in GetKeyInfo(k) :
          /\ o.garage = garage /\ o.answer \in Answers
          /\ o.answer = "ok" => k \in garage.keys
          /\ o.answer = "absent" => k \notin garage.keys
    /\ \A b : \A o \in GetBucketInfo(b) :
          /\ o.garage = garage /\ o.answer \in Answers
          /\ o.answer = "ok" => b \in garage.buckets
          /\ o.answer = "absent" => b \notin garage.buckets
<1>1. \A there : \A o \in Read(there) :
         /\ o.garage = garage /\ o.answer \in Answers
         /\ o.answer = "ok" => there
         /\ o.answer = "absent" => ~there
  BY DEF Read, Unchanged, Answers
<1> QED BY <1>1 DEF GetKeyInfo, GetBucketInfo

\* a change of permissions those of one key on one bucket;
Granted(o, b, k, P) ==
    /\ o.answer \in Answers /\ o.garage.names = garage.names /\ o.garage.keys = garage.keys
    /\ o.answer = "ok" => o.garage.perms[b, k] = P
    /\ o.garage.perms[b, k] \in {P, garage.perms[b, k]}
    /\ \A c \in Buckets, d \in Keys : c # b \/ d # k => o.garage.perms[c, d] = garage.perms[c, d]

\* A grant and a denial change the permissions of one key on one bucket, or nothing.
LEMMA Grantings ==
    ASSUME ClusterSound(garage)
    PROVE  \A b \in Buckets, k \in Keys : \A P :
              /\ \A o \in AllowBucketKey(b, k, P) : Granted(o, b, k, garage.perms[b, k] \cup P)
              /\ \A o \in DenyBucketKey(b, k, P) : Granted(o, b, k, garage.perms[b, k] \ P)
<1>1. ASSUME NEW b \in Buckets, NEW k \in Keys, NEW Q, NEW o \in BucketKeyPermChange(b, k, Q)
      PROVE  Granted(o, b, k, Q)
  <2> DEFINE f == [garage.perms EXCEPT ![<<b, k>>] = Q]
             g == [garage EXCEPT !.perms[<<b, k>>] = Q]
  <2>1. /\ f[b, k] = Q
        /\ \A c \in Buckets, d \in Keys : c # b \/ d # k => f[c, d] = garage.perms[c, d]
    BY DEF ClusterSound, GrantsSound
  <2>2. g.names = garage.names /\ g.keys = garage.keys /\ g.perms = f
    BY DEF ClusterSound, GrantsSound
  <2>3. o.answer \in Answers /\ (o.garage = g \/ (o.garage = garage /\ o.answer # "ok"))
    BY DEF BucketKeyPermChange, Applied, Absent, Unchanged, Answers
  <2> HIDE DEF f, g
  <2>4. CASE o.garage = g
    BY <2>1, <2>2, <2>3, <2>4 DEF Granted
  <2>5. CASE o.garage = garage /\ o.answer # "ok"
    BY <2>3, <2>5 DEF Granted
  <2> QED BY <2>3, <2>4, <2>5
<1> QED BY <1>1 DEF AllowBucketKey, DenyBucketKey

\* a change of names those.
LEMMA Namings ==
    ASSUME ClusterSound(garage)
    PROVE  \A b, k :
              /\ \A o \in AddBucketAlias(b, k) :
                    /\ o.answer \in Answers /\ o.garage.perms = garage.perms
                    /\ o.answer = "ok" => <<b, k>> \in o.garage.names
              /\ \A o \in RemoveBucketAlias(b, k) : o.answer \in Answers /\ o.garage.perms = garage.perms
<1>1. ASSUME NEW b, NEW k, NEW n, NEW o \in BucketAliasLocalChange(b, k, n)
      PROVE  /\ o.answer \in Answers /\ o.garage.perms = garage.perms
             /\ o.answer = "ok" => o.garage.names = n
  <2> DEFINE g == [garage EXCEPT !.names = n]
  <2>1. g.perms = garage.perms /\ g.names = n
    BY DEF ClusterSound, GrantsSound
  <2>2. o.answer \in Answers /\ (o.garage = g \/ (o.garage = garage /\ o.answer # "ok"))
    BY DEF BucketAliasLocalChange, Applied, Absent, Unchanged, Answers
  <2> HIDE DEF g
  <2> QED BY <2>1, <2>2
<1> QED BY <1>1 DEF AddBucketAlias, RemoveBucketAlias

\* So a call that is to leave a key the permissions P on a bucket leads to one of these,
Regrants(j, pc, b, k, P, yes, no) ==
    /\ job[j].pc = pc /\ garage'.names = garage.names /\ garage'.keys = garage.keys
    /\ garage'.perms[b, k] \in {P, garage.perms[b, k]}
    /\ \A c \in Buckets, d \in Keys : c # b \/ d # k => garage'.perms[c, d] = garage.perms[c, d]
    /\ \/ CutShort(job[j], job'[j])
       \/ (job'[j] = yes /\ garage'.perms[b, k] = P)
       \/ job'[j] = no

\* one that changes names to one of these,
Names(j, pc, b, k, yes, no) ==
    /\ job[j].pc = pc /\ garage'.perms = garage.perms
    /\ \/ CutShort(job[j], job'[j])
       \/ (job'[j] = yes /\ <<b, k>> \in garage'.names)
       \/ job'[j] = no

\* and a read of a key or of a bucket to one of these.
KeyRead(j, pc, k, ok, absent, error) ==
    /\ job[j].pc = pc /\ garage' = garage
    /\ \/ CutShort(job[j], job'[j])
       \/ job'[j] = ok
       \/ (job'[j] = absent /\ k \notin garage.keys)
       \/ job'[j] = error

BucketRead(j, pc, b, ok, absent, error) ==
    /\ job[j].pc = pc /\ garage' = garage
    /\ \/ CutShort(job[j], job'[j])
       \/ job'[j] = ok
       \/ (job'[j] = absent /\ b \notin garage.buckets)
       \/ job'[j] = error

\* A grant leads to a change of permissions with those asked for added.
LEMMA AllowGoes ==
    ASSUME KeysInv, NEW j \in Jobs, NEW STATE pc, NEW STATE b, b \in Buckets, NEW STATE k, k \in Keys, NEW STATE P,
           NEW STATE yes, NEW STATE no,
           Call(j, pc, AllowBucketKey(b, k, P), OkElse(yes, no)), job[j].req.cmd # "purge"
    PROVE  Regrants(j, pc, b, k, garage.perms[b, k] \cup P, yes, no)
<1>1. \A o \in AllowBucketKey(b, k, P) : Granted(o, b, k, garage.perms[b, k] \cup P)
  BY Grantings DEF KeysInv
<1>2. \A o \in AllowBucketKey(b, k, P) : o.answer \in Answers
  BY <1>1 DEF Granted
<1>3. PICK o \in AllowBucketKey(b, k, P) :
          /\ garage' = o.garage /\ job[j].pc = pc
          /\ \/ CutShort(job[j], job'[j])
             \/ (o.answer = "ok" /\ job'[j] = yes)
             \/ (o.answer # "ok" /\ job'[j] = no)
  BY <1>2, OkElseGoes
<1> QED BY <1>1, <1>3 DEF Granted, Regrants

\* A denial leads to one with those asked for taken away.
LEMMA DenyGoes ==
    ASSUME KeysInv, NEW j \in Jobs, NEW STATE pc, NEW STATE b, b \in Buckets, NEW STATE k, k \in Keys, NEW STATE P,
           NEW STATE yes, NEW STATE no,
           Call(j, pc, DenyBucketKey(b, k, P), OkElse(yes, no)), job[j].req.cmd # "purge"
    PROVE  Regrants(j, pc, b, k, garage.perms[b, k] \ P, yes, no)
<1>1. \A o \in DenyBucketKey(b, k, P) : Granted(o, b, k, garage.perms[b, k] \ P)
  BY Grantings DEF KeysInv
<1>2. \A o \in DenyBucketKey(b, k, P) : o.answer \in Answers
  BY <1>1 DEF Granted
<1>3. PICK o \in DenyBucketKey(b, k, P) :
          /\ garage' = o.garage /\ job[j].pc = pc
          /\ \/ CutShort(job[j], job'[j])
             \/ (o.answer = "ok" /\ job'[j] = yes)
             \/ (o.answer # "ok" /\ job'[j] = no)
  BY <1>2, OkElseGoes
<1> QED BY <1>1, <1>3 DEF Granted, Regrants

\* The adding of an alias leads on only with the name there.
LEMMA NameGoes ==
    ASSUME KeysInv, NEW j \in Jobs, NEW STATE pc, NEW STATE b, NEW STATE k, NEW STATE yes, NEW STATE no,
           Call(j, pc, AddBucketAlias(b, k), OkElse(yes, no)), job[j].req.cmd # "purge"
    PROVE  Names(j, pc, b, k, yes, no)
<1>1. \A o \in AddBucketAlias(b, k) :
         /\ o.answer \in Answers /\ o.garage.perms = garage.perms
         /\ o.answer = "ok" => <<b, k>> \in o.garage.names
  BY Namings DEF KeysInv
<1>2. PICK o \in AddBucketAlias(b, k) :
          /\ garage' = o.garage /\ job[j].pc = pc
          /\ \/ CutShort(job[j], job'[j])
             \/ (o.answer = "ok" /\ job'[j] = yes)
             \/ (o.answer # "ok" /\ job'[j] = no)
  BY <1>1, OkElseGoes
<1> QED BY <1>1, <1>2 DEF Names

\* The removal of an alias leaves the permissions as they were.
LEMMA UnnameGoes ==
    ASSUME KeysInv, NEW j \in Jobs, NEW STATE pc, NEW STATE b, NEW STATE k, NEW STATE yes, NEW STATE no,
           Call(j, pc, RemoveBucketAlias(b, k), OkElse(yes, no)), job[j].req.cmd # "purge"
    PROVE  /\ job[j].pc = pc /\ garage'.perms = garage.perms
           /\ CutShort(job[j], job'[j]) \/ job'[j] = yes \/ job'[j] = no
<1>1. \A o \in RemoveBucketAlias(b, k) : o.answer \in Answers /\ o.garage.perms = garage.perms
  BY Namings DEF KeysInv
<1>2. PICK o \in RemoveBucketAlias(b, k) :
          /\ garage' = o.garage /\ job[j].pc = pc
          /\ CutShort(job[j], job'[j]) \/ job'[j] = yes \/ job'[j] = no
  BY <1>1, OkElseGoes
<1> QED BY <1>1, <1>2

\* A read of a key goes where its answer says, and finds the key gone only when it is.
LEMMA KeyReadGoes ==
    ASSUME KeysInv, NEW j \in Jobs, NEW STATE pc, NEW STATE k, NEW STATE next,
           Call(j, pc, GetKeyInfo(k), next), job[j].req.cmd # "purge"
    PROVE  KeyRead(j, pc, k, next.ok, next.absent, next.error)
<1>1. \A o \in GetKeyInfo(k) :
         o.garage = garage /\ o.answer \in Answers /\ (o.answer = "absent" => k \notin garage.keys)
  BY Reads
<1>2. PICK o \in GetKeyInfo(k) :
          /\ garage' = o.garage /\ job[j].pc = pc
          /\ CutShort(job[j], job'[j]) \/ job'[j] = next[o.answer]
  BY CallGoes
<1> QED BY <1>1, <1>2 DEF Answers, KeyRead

\* A read of a bucket likewise.
LEMMA BucketReadGoes ==
    ASSUME KeysInv, NEW j \in Jobs, NEW STATE pc, NEW STATE b, NEW STATE next,
           Call(j, pc, GetBucketInfo(b), next), job[j].req.cmd # "purge"
    PROVE  BucketRead(j, pc, b, next.ok, next.absent, next.error)
<1>1. \A o \in GetBucketInfo(b) :
         o.garage = garage /\ o.answer \in Answers /\ (o.answer = "absent" => b \notin garage.buckets)
  BY Reads
<1>2. PICK o \in GetBucketInfo(b) :
          /\ garage' = o.garage /\ job[j].pc = pc
          /\ CutShort(job[j], job'[j]) \/ job'[j] = next[o.answer]
  BY CallGoes
<1> QED BY <1>1, <1>2 DEF Answers, BucketRead

\* A read of a key, when every other answer is a failure.
LEMMA KeyReadElse ==
    ASSUME KeysInv, NEW j \in Jobs, NEW STATE pc, NEW STATE k, NEW STATE yes, NEW STATE no,
           Call(j, pc, GetKeyInfo(k), OkElse(yes, no)), job[j].req.cmd # "purge"
    PROVE  KeyRead(j, pc, k, yes, no, no)
<1> DEFINE next == OkElse(yes, no)
<1>1. next.ok = yes /\ next.absent = no /\ next.error = no
  BY DEF OkElse
<1> HIDE DEF next
<1>2. KeyRead(j, pc, k, next.ok, next.absent, next.error)
  BY KeyReadGoes DEF next
<1> QED BY <1>1, <1>2

\* A read of a bucket, when every other answer is a failure.
LEMMA BucketReadElse ==
    ASSUME KeysInv, NEW j \in Jobs, NEW STATE pc, NEW STATE b, NEW STATE yes, NEW STATE no,
           Call(j, pc, GetBucketInfo(b), OkElse(yes, no)), job[j].req.cmd # "purge"
    PROVE  BucketRead(j, pc, b, yes, no, no)
<1> DEFINE next == OkElse(yes, no)
<1>1. next.ok = yes /\ next.absent = no /\ next.error = no
  BY DEF OkElse
<1> HIDE DEF next
<1>2. BucketRead(j, pc, b, next.ok, next.absent, next.error)
  BY BucketReadGoes DEF next
<1> QED BY <1>1, <1>2

\* An attachment keeps its word.
LEMMA AttachTells ==
    ASSUME KeysInv, NEW j \in Jobs, AttachAccountKey(j), AttachTold(j), Keeps(j)
    PROVE  Told(j)'
<1> DEFINE me == job[j]
           you == job'[j]
           b == me.req.bucket
           k == me.req.key
           tier == me.req.tier
           failed == Ends(me, "failed")
           next == Goto(me, IF tier = Perms THEN "name" ELSE "narrow")
           last == IF tier \subseteq garage.perms[b, k] THEN Finalizing(me) ELSE failed
<1>1. /\ ClusterSound(garage) /\ JobShape(me) /\ me.req.cmd = "attach_account_key"
      /\ tier \subseteq Perms /\ b \in Buckets /\ k \in Keys /\ you.req = me.req
  BY InBounds DEF KeysInv, JobSound, AttachAccountKey, Asked, OfTiers, OfKeys, OfBuckets, Keeps
<1>2. garage.perms[b, k] \subseteq Perms
  BY <1>1 DEF ClusterSound, GrantsSound
<1>3. SUFFICES ASSUME ~CutShort(me, you) PROVE AttachTold(j)'
  BY <1>1, CutIsTold, OwnWord DEF Told
<1>4. /\ failed.pc = "done" /\ failed.result = "failed"
      /\ \A p : Goto(me, p).pc = p
      /\ next.pc = IF tier = Perms THEN "name" ELSE "narrow"
  BY <1>1, HowJobsMove
<1> HIDE DEF next
<1>5. CASE Call(j, "grant", AllowBucketKey(b, k, tier), OkElse(next, failed))
  <2>0. Regrants(j, "grant", b, k, garage.perms[b, k] \cup tier, next, failed)
    BY <1>1, <1>5, AllowGoes
  <2>1. /\ you = next \/ you = failed
        /\ garage'.perms[b, k] \in {garage.perms[b, k] \cup tier, garage.perms[b, k]}
    BY <2>0, <1>3 DEF Regrants
  <2>2. garage'.perms[b, k] \subseteq Perms
    BY <2>1, <1>1, <1>2
  <2> QED BY <2>1, <2>2, <1>1, <1>4 DEF AttachTold, Succeeds
<1>6. CASE Call(j, "narrow", DenyBucketKey(b, k, Perms \ tier), OkElse(Goto(me, "name"), failed))
  <2>0. Regrants(j, "narrow", b, k, garage.perms[b, k] \ (Perms \ tier), Goto(me, "name"), failed)
    BY <1>1, <1>6, DenyGoes
  <2>1. \/ you = Goto(me, "name") /\ garage'.perms[b, k] = garage.perms[b, k] \ (Perms \ tier)
        \/ you = failed
    BY <2>0, <1>3 DEF Regrants
  <2>2. (you.pc = "name" /\ garage'.perms[b, k] \subseteq tier) \/ you = failed
    BY <2>1, <1>2, <1>4
  <2> QED BY <2>2, <1>1, <1>4 DEF AttachTold, Succeeds
<1>7. CASE Call(j, "name", AddBucketAlias(b, k), OkElse(Goto(me, "confirm"), Goto(me, "confirm")))
  <2>0. Names(j, "name", b, k, Goto(me, "confirm"), Goto(me, "confirm"))
    BY <1>1, <1>7, NameGoes
  <2>1. me.pc = "name" /\ garage'.perms = garage.perms /\ you = Goto(me, "confirm")
    BY <2>0, <1>3 DEF Names
  <2> QED BY <2>1, <1>1, <1>4 DEF AttachTold, Succeeds
<1>8. CASE Call(j, "confirm", GetKeyInfo(k), OkElse(last, failed))
  <2>0. KeyRead(j, "confirm", k, last, failed, failed)
    BY <1>1, <1>8, KeyReadElse
  <2>1. me.pc = "confirm" /\ garage' = garage /\ (you = last \/ you = failed)
    BY <2>0, <1>3 DEF KeyRead
  <2>2. Succeeds(you) => tier \subseteq garage.perms[b, k]
    BY <2>1, <1>4 DEF Succeeds
  <2>3. you.pc \in {"finalizing", "done"}
    BY <2>1, <1>4 DEF Finalizing
  <2>4. garage.perms[b, k] \subseteq tier /\ garage'.perms[b, k] = garage.perms[b, k]
    BY <2>1, <1>1 DEF AttachTold
  <2>5. Succeeds(you) => garage'.perms[b, k] = tier
    BY <2>2, <2>4
  <2> HIDE DEF last, failed
  <2> QED BY <2>3, <2>5, <1>1 DEF AttachTold
<1> QED BY <1>5, <1>6, <1>7, <1>8 DEF AttachAccountKey, next

\* A detachment does.
LEMMA DetachTells ==
    ASSUME KeysInv, NEW j \in Jobs, DetachAccountKey(j), Keeps(j)
    PROVE  Told(j)'
<1> DEFINE me == job[j]
           you == job'[j]
           b == me.req.bucket
           k == me.req.key
           failed == Ends(me, "failed")
           last == IF garage.perms[b, k] = {} THEN Finalizing(me) ELSE failed
<1>1. /\ ClusterSound(garage) /\ JobShape(me) /\ me.req.cmd = "detach_account_key"
      /\ b \in Buckets /\ k \in Keys /\ you.req = me.req
  BY InBounds DEF KeysInv, JobSound, DetachAccountKey, Asked, OfKeys, OfBuckets, Keeps
<1>3. SUFFICES ASSUME ~CutShort(me, you) PROVE DetachTold(j)'
  BY <1>1, CutIsTold, OwnWord DEF Told
<1>4. /\ failed.pc = "done" /\ failed.result = "failed"
      /\ \A p : Goto(me, p).pc = p
  BY <1>1, HowJobsMove
<1>5. CASE Call(j, "revoke", DenyBucketKey(b, k, Perms), OkElse(Goto(me, "unname"), failed))
  <2>0. Regrants(j, "revoke", b, k, garage.perms[b, k] \ Perms, Goto(me, "unname"), failed)
    BY <1>1, <1>5, DenyGoes
  <2>1. you = Goto(me, "unname") \/ you = failed
    BY <2>0, <1>3 DEF Regrants
  <2> QED BY <2>1, <1>4 DEF DetachTold, Succeeds
<1>6. CASE Call(j, "unname", RemoveBucketAlias(b, k), OkElse(Goto(me, "confirm"), Goto(me, "confirm")))
  <2>1. you = Goto(me, "confirm")
    BY <1>1, <1>3, <1>6, UnnameGoes
  <2> QED BY <2>1, <1>4 DEF DetachTold, Succeeds
<1>7. CASE Call(j, "confirm", GetKeyInfo(k), OkElse(last, failed))
  <2>0. KeyRead(j, "confirm", k, last, failed, failed)
    BY <1>1, <1>7, KeyReadElse
  <2>1. garage' = garage /\ (you = last \/ you = failed)
    BY <2>0, <1>3 DEF KeyRead
  <2> QED BY <2>1, <1>1, <1>4 DEF DetachTold, Succeeds, Finalizing
<1> QED BY <1>5, <1>6, <1>7 DEF DetachAccountKey

\* What a deletion of a key leads to,
Deleting(j, pc, key, ok, absent, error) ==
    /\ job[j].pc = pc
    /\ \A b \in Buckets, k \in Keys \ {key} :
          /\ garage'.perms[b, k] = garage.perms[b, k]
          /\ <<b, k>> \in garage.names => <<b, k>> \in garage'.names
    /\ \/ CutShort(job[j], job'[j])
       \/ (job'[j] = ok /\ key \in garage.keys /\ garage'.keys = garage.keys \ {key})
       \/ (job'[j] = absent /\ key \notin garage.keys)
       \/ job'[j] = error

\* A deletion goes where its answer says: the key is gone, or was not there.
LEMMA DeleteGoes ==
    ASSUME KeysInv, NEW j \in Jobs, NEW STATE pc, NEW STATE key, NEW STATE next,
           Call(j, pc, DeleteKey(key), next), job[j].req.cmd # "purge"
    PROVE  Deleting(j, pc, key, next.ok, next.absent, next.error)
<1> DEFINE P(e) == [bk \in DOMAIN e |-> IF bk[2] = key THEN {} ELSE e[bk]]
           N(e) == {bk \in e : bk[2] # key}
           gone == [garage EXCEPT !.keys = @ \ {key}, !.creators = @ \ {key}, !.perms = P(@), !.names = N(@)]
<1>1. ClusterSound(garage)
  BY DEF KeysInv
<1>2. /\ gone.keys = garage.keys \ {key} /\ gone.perms = P(garage.perms) /\ gone.names = N(garage.names)
  BY <1>1 DEF ClusterSound, GrantsSound
<1>3. \A o \in DeleteKey(key) :
         \/ o.garage = gone /\ o.answer \in {"ok", "error"} /\ key \in garage.keys
         \/ o.garage = garage /\ o.answer = "error"
         \/ o.garage = garage /\ o.answer = "absent" /\ key \notin garage.keys
  <2>1. DeleteKey(key) = IF key \in garage.keys THEN Applied(gone) ELSE Absent
    BY DEF DeleteKey
  <2> HIDE DEF gone
  <2> QED BY <2>1 DEF Applied, Absent, Unchanged
<1>4. PICK o \in DeleteKey(key) :
          /\ garage' = o.garage /\ job[j].pc = pc
          /\ CutShort(job[j], job'[j]) \/ job'[j] = next[o.answer]
  BY CallGoes
<1>5. \A b \in Buckets, k \in Keys \ {key} :
         /\ P(garage.perms)[b, k] = garage.perms[b, k]
         /\ <<b, k>> \in garage.names => <<b, k>> \in N(garage.names)
  BY <1>1 DEF ClusterSound, GrantsSound
<1> HIDE DEF P, N, gone
<1>6. \A b \in Buckets, k \in Keys \ {key} :
         /\ garage'.perms[b, k] = garage.perms[b, k]
         /\ <<b, k>> \in garage.names => <<b, k>> \in garage'.names
  <2>1. CASE o.garage = gone
    BY <2>1, <1>2, <1>4, <1>5
  <2>2. CASE o.garage = garage
    BY <2>2, <1>4
  <2> QED BY <1>3, <2>1, <2>2
<1>7. \/ CutShort(job[j], job'[j])
      \/ (job'[j] = next.ok /\ key \in garage.keys /\ garage'.keys = garage.keys \ {key})
      \/ (job'[j] = next.absent /\ key \notin garage.keys)
      \/ job'[j] = next.error
  BY <1>2, <1>3, <1>4
<1> QED BY <1>4, <1>6, <1>7 DEF Deleting

\* A deletion, when every other answer is a failure.
LEMMA DeleteElse ==
    ASSUME KeysInv, NEW j \in Jobs, NEW STATE pc, NEW STATE key, NEW STATE yes, NEW STATE no,
           Call(j, pc, DeleteKey(key), OkElse(yes, no)), job[j].req.cmd # "purge"
    PROVE  Deleting(j, pc, key, yes, no, no)
<1> DEFINE next == OkElse(yes, no)
<1>1. next.ok = yes /\ next.absent = no /\ next.error = no
  BY DEF OkElse
<1> HIDE DEF next
<1>2. Deleting(j, pc, key, next.ok, next.absent, next.error)
  BY DeleteGoes DEF next
<1> QED BY <1>1, <1>2

\* and the making of one.
Minting(j, made) ==
    /\ job[j].pc = "mint" /\ garage'.perms = garage.perms
    /\ CutShort(job[j], job'[j]) \/ job'[j] = made \/ (job'[j].pc = "done" /\ job'[j].result = "failed")

\* A creation of a key leads there.
LEMMA MintGoes ==
    ASSUME KeysInv, NEW j \in Jobs, NEW may, NEW next, NEW named, Mint(j, may, next, named),
           job[j].req.cmd # "purge"
    PROVE  Minting(j, [job[j] EXCEPT !.new = NextKey, !.pc = next])
<1> DEFINE me == job[j]
           made == [me EXCEPT !.new = NextKey, !.pc = next]
           unnamed == IF named THEN Partial(me) ELSE Ends(me, "failed")
           ways == [ok |-> made, unnamed |-> unnamed, error |-> Ends(me, "failed")]
<1>1. Call(j, "mint", CreateKey(may), ways)
  BY DEF Mint
<1>2. ClusterSound(garage) /\ JobShape(me)
  BY DEF KeysInv, JobSound
<1>3. unnamed.pc = "done" /\ unnamed.result = "failed" /\ Ends(me, "failed").pc = "done" /\ Ends(me, "failed").result = "failed"
  BY <1>2, HowJobsMove
<1> HIDE DEF made, unnamed
<1>4. PICK o \in CreateKey(may) :
          /\ garage' = o.garage /\ me.pc = "mint"
          /\ CutShort(me, job'[j]) \/ job'[j] = ways[o.answer]
  BY <1>1, CallGoes
<1>5. o.garage.perms = garage.perms /\ o.answer \in {"ok", "error", "unnamed"}
  <2> DEFINE g == [garage EXCEPT !.keys = @ \cup {NextKey}, !.minted = NextKey,
                                 !.creators = IF may THEN @ \cup {NextKey} ELSE @]
  <2>1. g.perms = garage.perms
    BY <1>2 DEF ClusterSound, GrantsSound
  <2>2. CreateKey(may) = Applied(g) \cup {[answer |-> "unnamed", garage |-> g]}
    BY DEF CreateKey
  <2> HIDE DEF g
  <2> QED BY <2>1, <2>2 DEF Applied, Unchanged
<1>6. job'[j] = ways[o.answer] => job'[j] = made \/ (job'[j].pc = "done" /\ job'[j].result = "failed")
  BY <1>3, <1>5
<1> HIDE DEF ways
<1>7. Minting(j, made)
  BY <1>4, <1>5, <1>6 DEF Minting
<1> QED BY <1>7 DEF made

\* A job that takes back what it made, or is over with that, has no word on it.
Rolling(you) ==
    \/ you.pc \in {"unname", "revoke", "unmint"}
    \/ (you.pc = "done" /\ you.result \in {"failed", "rolled_back"})

\* So such a job keeps its word,
LEMMA RollingIsTold ==
    ASSUME NEW j, job'[j].req = job[j].req, Rolling(job'[j]),
           job[j].req.cmd \in {"provision_bucket", "provision_additional_key", "rotate_key"}
    PROVE  Told(j)'
<1>1. ~Succeeds(job'[j]) /\ job'[j].pc \notin {"grant", "name", "reap"}
  BY DEF Rolling, Succeeds
<1>2. GrantTold(j)' /\ ProvisionTold(j)'
  BY <1>1 DEF GrantTold, ProvisionTold
<1> QED BY <1>2, OwnWord DEF Told

\* and a rollback makes it one.
LEMMA RollbackTells ==
    ASSUME KeysInv, NEW j \in Jobs, NEW STATE b, NEW STATE tier, Rollback(j, b, tier), Keeps(j),
           job[j].req.cmd \in {"provision_bucket", "provision_additional_key", "rotate_key"}
    PROVE  Told(j)'
<1> DEFINE me == job[j]
<1>1. ClusterSound(garage) /\ JobShape(me) /\ job'[j].req = me.req /\ me.req.cmd # "enforce_tier" /\ me.req.cmd # "purge"
  BY DEF KeysInv, JobSound, Keeps
<1>2. /\ Rolling(Goto(me, "revoke")) /\ Rolling(Goto(me, "unmint")) /\ Rolling(Partial(me))
      /\ Rolling(Ends(me, "rolled_back"))
  BY <1>1, HowJobsMove DEF Rolling
<1>3. CASE Call(j, "unname", RemoveBucketAlias(b, me.new), OkElse(Goto(me, "revoke"), Partial(me)))
  <2>1. \A o \in RemoveBucketAlias(b, me.new) : o.answer \in Answers
    BY <1>1, QuietCalls
  <2>2. CutShort(me, job'[j]) \/ Rolling(job'[j])
    BY <1>1, <1>2, <1>3, <2>1, OkElseGoes
  <2> QED BY <1>1, <2>2, CutIsTold, RollingIsTold
<1>4. CASE Call(j, "revoke", DenyBucketKey(b, me.new, tier), OkElse(Goto(me, "unmint"), Partial(me)))
  <2>1. \A o \in DenyBucketKey(b, me.new, tier) : o.answer \in Answers
    BY <1>1, QuietCalls
  <2>2. CutShort(me, job'[j]) \/ Rolling(job'[j])
    BY <1>1, <1>2, <1>4, <2>1, OkElseGoes
  <2> QED BY <1>1, <2>2, CutIsTold, RollingIsTold
<1>5. CASE Call(j, "unmint", DeleteKey(me.new), OkElse(Ends(me, "rolled_back"), Partial(me)))
  <2>1. \A o \in DeleteKey(me.new) : o.answer \in Answers
    BY <1>1, Deletions
  <2>2. CutShort(me, job'[j]) \/ Rolling(job'[j])
    BY <1>1, <1>2, <1>5, <2>1, OkElseGoes
  <2> QED BY <1>1, <2>2, CutIsTold, RollingIsTold
<1> QED BY <1>3, <1>4, <1>5 DEF Rollback

\* A key for a bucket that has one, and the one that a rotation puts in an old one's place.
LEMMA GrantTells ==
    ASSUME KeysInv, NEW j \in Jobs, ProvisionAdditionalKey(j) \/ RotateKey(j), GrantTold(j), Keeps(j)
    PROVE  Told(j)'
<1> DEFINE me == job[j]
           you == job'[j]
           b == me.req.bucket
           new == me.new
           tier == me.req.tier
           made == [me EXCEPT !.new = NextKey, !.pc = "grant"]
           granted == Done(me, "granted", "name")
           named == Done(me, "named", "reap")
           undone == Undo(me)
           over == Finalizing(me)
<1>1. /\ ClusterSound(garage) /\ JobShape(me) /\ me.req.cmd \in {"provision_additional_key", "rotate_key"}
      /\ tier \subseteq Perms /\ b \in Buckets /\ you.req = me.req
      /\ me.req.cmd = "rotate_key" => me.req.key # new
  BY InBounds DEF KeysInv, JobSound, ProvisionAdditionalKey, RotateKey, Asked, OfTiers, OfKeys, OfBuckets, Keeps,
                  Named, Reapers
<1>2. SUFFICES ASSUME ~CutShort(me, you), ~Rolling(you) PROVE GrantTold(j)'
  BY <1>1, CutIsTold, RollingIsTold, OwnWord DEF Told
<1>3. /\ granted.pc = "name" /\ granted.new = new /\ named.pc = "reap" /\ named.new = new
      /\ over.pc = "finalizing" /\ over.new = new /\ made.pc = "grant" /\ made.new = NextKey
      /\ Rolling(undone)
  BY <1>1, HowJobsMove DEF Same, JobShape, Rolling, Undo, Finalizing
<1> HIDE DEF made, granted, named, undone, over
<1>4. CASE Mint(j, FALSE, "grant", TRUE)
  <2>1. Minting(j, made)
    BY <1>1, <1>4, MintGoes DEF made
  <2>2. me.pc = "mint" /\ garage'.perms = garage.perms /\ you = made
    BY <2>1, <1>2 DEF Minting, Rolling
  <2>3. you.new \in Keys /\ NextKey \notin garage.keys
    <3>1. KeysInv' /\ NextKey = garage.minted + 1 /\ garage.minted \in Nat
      BY <1>1 DEF Keeps, NextKey, ClusterSound
    <3>2. you.new \in 0 .. garage'.minted
      BY <3>1 DEF KeysInv, JobSound, Named
    <3>3. you.new \in 1 .. garage'.minted
      BY <3>1, <3>2, <2>2, <1>3 DEF KeysInv, ClusterSound
    <3> QED BY <3>1, <3>3, <1>1, InBounds DEF ClusterSound
  <2>4. garage'.perms[b, you.new] = {}
    BY <2>2, <2>3, <1>1, <1>3 DEF ClusterSound, GrantsSound
  <2>5. you.pc = "grant"
    BY <2>2, <1>3
  <2> QED BY <2>3, <2>4, <2>5, <1>1 DEF GrantTold, Succeeds
<1>5. CASE Call(j, "grant", AllowBucketKey(b, new, tier), OkElse(granted, undone))
  <2>1. me.pc = "grant"
    BY <1>5 DEF Call
  <2>2. new \in Keys /\ garage.perms[b, new] = {}
    BY <2>1, <1>1 DEF GrantTold
  <2>3. Regrants(j, "grant", b, new, garage.perms[b, new] \cup tier, granted, undone)
    BY <1>1, <1>5, <2>2, AllowGoes
  <2>4. you = granted /\ garage'.perms[b, new] = tier
    BY <2>2, <2>3, <1>2, <1>3 DEF Regrants
  <2>5. you.pc = "name" /\ you.new = new
    BY <2>4, <1>3
  <2> QED BY <2>2, <2>4, <2>5, <1>1 DEF GrantTold, Succeeds
<1>6. ASSUME NEW STATE yes, yes \in {named, over},
             Call(j, "name", AddBucketAlias(b, new), OkElse(yes, undone))
      PROVE  GrantTold(j)'
  <2>1. Names(j, "name", b, new, yes, undone)
    BY <1>1, <1>6, NameGoes
  <2>2. me.pc = "name" /\ garage'.perms = garage.perms /\ you = yes /\ <<b, new>> \in garage'.names
    BY <2>1, <1>2, <1>3 DEF Names
  <2>3. new \in Keys /\ garage'.perms[b, new] = tier
    BY <2>2, <1>1 DEF GrantTold
  <2>4. you.new = new /\ you.pc \in {"reap", "finalizing"}
    BY <2>2, <1>3, <1>6
  <2> QED BY <2>2, <2>3, <2>4, <1>1 DEF GrantTold, Succeeds
<1>7. CASE me.req.cmd = "rotate_key" /\ Call(j, "reap", DeleteKey(me.req.key), OkElse(over, undone))
  <2>1. Deleting(j, "reap", me.req.key, over, undone, undone)
    BY <1>1, <1>7, DeleteElse
  <2>2. me.pc = "reap" /\ you = over
    BY <2>1, <1>2, <1>3 DEF Deleting
  <2>3. new \in Keys /\ garage.perms[b, new] = tier /\ <<b, new>> \in garage.names
    BY <2>2, <1>1 DEF GrantTold
  <2>4. garage'.perms[b, new] = tier /\ <<b, new>> \in garage'.names
    BY <2>1, <2>3, <1>1, <1>7 DEF Deleting
  <2>5. you.pc = "finalizing" /\ you.new = new
    BY <2>2, <1>3
  <2> QED BY <2>3, <2>4, <2>5, <1>1 DEF GrantTold
<1>8. CASE ProvisionAdditionalKey(j)
  BY <1>8, <1>4, <1>5, <1>6 DEF ProvisionAdditionalKey, granted, undone, over
<1>9. CASE RotateKey(j)
  BY <1>9, <1>4, <1>5, <1>6, <1>7 DEF RotateKey, granted, named, undone, over
<1> QED BY <1>8, <1>9

\* A bucket and its key.
LEMMA ProvisionTells ==
    ASSUME KeysInv, NEW j \in Jobs, ProvisionBucket(j), Keeps(j)
    PROVE  Told(j)'
<1> DEFINE me == job[j]
           you == job'[j]
           undone == Goto(me, "unmint")
           over == Finalizing(me)
           made == [me EXCEPT !.new = NextKey, !.pc = "create"]
<1>1. ClusterSound(garage) /\ JobShape(me) /\ me.req.cmd = "provision_bucket" /\ you.req = me.req
  BY DEF KeysInv, JobSound, ProvisionBucket, Keeps
<1>2. SUFFICES ASSUME ~CutShort(me, you), ~Rolling(you) PROVE ProvisionTold(j)'
  BY <1>1, CutIsTold, RollingIsTold, OwnWord DEF Told
<1>3. Rolling(undone) /\ over.new = me.new /\ made.pc = "create"
  BY <1>1, HowJobsMove DEF Rolling, Finalizing, Same, JobShape
<1> HIDE DEF undone, over, made
<1>4. CASE Mint(j, FALSE, "create", TRUE)
  <2>1. Minting(j, made)
    BY <1>1, <1>4, MintGoes DEF made
  <2>2. you.pc = "create"
    BY <2>1, <1>2, <1>3 DEF Minting, Rolling
  <2> QED BY <2>2 DEF ProvisionTold, Succeeds
<1>5. CASE Call(j, "create", CreateBucket(me.new), OkElse(over, undone))
  <2>1. \A o \in CreateBucket(me.new) :
           /\ o.answer \in Answers
           /\ o.answer = "ok" => me.new \in garage.keys /\ o.garage = CreatedFor(me.new)
    BY DEF CreateBucket, Applied, Absent, Unchanged, Answers
  <2>2. PICK o \in CreateBucket(me.new) :
           garage' = o.garage /\ ((o.answer = "ok" /\ you = over) \/ (o.answer # "ok" /\ you = undone))
    BY <1>1, <1>2, <1>5, <2>1, OkElseGoes
  <2>3. me.new \in garage.keys /\ garage' = CreatedFor(me.new) /\ you.new = me.new
    BY <2>1, <2>2, <1>2, <1>3
  <2>4. /\ garage'.keys = garage.keys /\ garage'.created = NextBucket
        /\ garage'.buckets = garage.buckets \cup {NextBucket}
        /\ garage'.names = garage.names \cup {<<NextBucket, me.new>>}
        /\ garage'.perms = [garage.perms EXCEPT ![<<NextBucket, me.new>>] = Perms]
    BY <2>3, <1>1 DEF CreatedFor, ClusterSound, GrantsSound
  <2>5. NextBucket \in Buckets /\ me.new \in Keys
    <3>1. NextBucket = garage.created + 1 /\ garage.created \in Nat /\ KeysInv'
      BY <1>1 DEF Keeps, NextBucket, ClusterSound
    <3> QED BY <3>1, <2>3, <2>4, <1>1, InBounds DEF ClusterSound
  <2>6. garage'.perms[NextBucket, me.new] = Perms
    BY <2>4, <2>5, <1>1 DEF ClusterSound, GrantsSound
  <2>a. PICK n : n = NextBucket
    OBVIOUS
  <2>7. n \in garage'.buckets /\ you.new \in garage'.keys /\ <<n, you.new>> \in garage'.names /\ "owner" \in garage'.perms[n, you.new]
    BY <2>3, <2>4, <2>6, <2>a DEF Perms
  <2>8. \E c \in garage'.buckets : Reaches(c, me.new, "owner")'
    BY <2>7 DEF Reaches, Both
  <2> QED BY <2>8 DEF ProvisionTold
<1> QED BY <1>4, <1>5 DEF ProvisionBucket, over, undone

\* A clear that has not seen the bucket empty.
Unproven(you) == you.pc # "finalizing" /\ you.result # "success"

\* It keeps its word, for it says nothing.
LEMMA UnprovenIsTold ==
    ASSUME NEW j, job'[j].req = job[j].req, job[j].req.cmd \in {"clear_bucket", "purge"}, Unproven(job'[j])
    PROVE  Told(j)'
<1>1. ClearTold(j)'
  BY DEF ClearTold, Succeeds, Unproven
<1> QED BY <1>1, OwnWord DEF Told

\* A call of a clear that cannot prove it, and the turns that do not.
LEMMA UnprovenCall ==
    ASSUME KeysInv, NEW j \in Jobs, NEW STATE pc, NEW STATE outcomes, NEW STATE next,
           Call(j, pc, outcomes, next), job[j].req.cmd \in {"clear_bucket", "purge"}, Keeps(j),
           job[j].result # "success", \A o \in outcomes : Unproven(next[o.answer])
    PROVE  Told(j)'
<1>1. JobShape(job[j]) /\ job'[j].req = job[j].req /\ DOMAIN job = Jobs
  BY DEF KeysInv, JobSound, Keeps
<1>2. Unproven(Cancelled(job[j]))
  BY <1>1 DEF Cancelled, Ends, JobShape, Unproven
<1>3. Unproven(job'[j])
  BY <1>1, <1>2 DEF Call
<1> QED BY <1>1, <1>3, UnprovenIsTold

\* The turns of a clear that leave it without proof.
LEMMA UnprovenTurns ==
    ASSUME NEW me, JobShape(me), me.result # "success"
    PROVE  /\ \A r : r # "success" => Unproven(Returns(me, r)) /\ Unproven(Ends(me, r))
           /\ Unproven(NoProgress(me))
           /\ \A p : p # "finalizing" => Unproven(Goto(me, p))
<1>1. \A r : r # "success" => Unproven(Returns(me, r)) /\ Unproven(Ends(me, r))
  BY DEF Returns, Ends, JobShape, Unproven
<1>2. Unproven([me EXCEPT !.pc = "list", !.rounds = me.rounds + 1])
  BY DEF JobShape, Unproven
<1>3. Unproven(NoProgress(me))
  BY <1>1, <1>2 DEF NoProgress
<1>4. \A p : p # "finalizing" => Unproven(Goto(me, p))
  BY HowJobsMove DEF Unproven
<1> QED BY <1>1, <1>3, <1>4

\* An empty list is the proof.
LEMMA LoopTells ==
    ASSUME KeysInv, NEW j \in Jobs, NEW STATE k, ClearLoop(j, k), ClearTold(j), Keeps(j),
           job[j].req.cmd \in {"clear_bucket", "purge"}
    PROVE  Told(j)'
<1> DEFINE me == job[j]
           b == me.req.bucket
           again == [me EXCEPT !.pc = "list", !.rounds = 0]
           listed == [auth |-> Returns(me, "failed"), error |-> NoProgress(me),
                      empty |-> Returns(me, "success"), page |-> Goto(me, "delete")]
           gone == [progress |-> again, nothing |-> NoProgress(me)]
<1>1. ClusterSound(garage) /\ JobShape(me) /\ job'[j].req = me.req /\ me.pc \in {"list", "delete"} /\ DOMAIN job = Jobs
  BY DEF KeysInv, JobSound, Keeps, ClearLoop, Call
<1>2. me.result # "success"
  BY <1>1 DEF ClearTold
<1>3. /\ Unproven(Returns(me, "failed")) /\ Unproven(NoProgress(me))
      /\ Unproven(Goto(me, "delete")) /\ Unproven(again)
  BY <1>1, <1>2, UnprovenTurns DEF JobShape, Unproven
<1>4. CASE Call(j, "list", ListObjects(b, k), listed)
  <2>1. PICK o \in ListObjects(b, k) :
           garage' = o.garage /\ job'[j] = IF me.dying THEN Cancelled(me) ELSE listed[o.answer]
    BY <1>1, <1>4 DEF Call
  <2>2. /\ o.garage = garage /\ o.answer \in {"auth", "error", "empty", "page"}
        /\ o.answer = "empty" => garage.objects[b] = 0
    BY DEF ListObjects, Unchanged
  <2>3. Unproven(Cancelled(me))
    BY <1>1, <1>2 DEF Cancelled, Ends, JobShape, Unproven
  <2>4. CASE Unproven(job'[j])
    BY <2>4, <1>1, UnprovenIsTold
  <2>5. CASE ~Unproven(job'[j])
    <3>1. job'[j] = Returns(me, "success") /\ garage'.objects[b] = 0
      BY <2>1, <2>2, <2>3, <2>5, <1>3
    <3>2. /\ Returns(me, "success").pc \in {"unmint", "finalizing"}
          /\ Returns(me, "success").pc = "finalizing" => Returns(me, "success").result # "success"
      BY <1>1, <1>2 DEF Returns, Finalizing, Goto, JobShape
    <3>3. ClearTold(j)'
      BY <3>1, <3>2, <1>1 DEF ClearTold
    <3> QED BY <3>3, <1>1, OwnWord DEF Told
  <2> QED BY <2>4, <2>5
<1>5. CASE Call(j, "delete", DeleteObjects(b, k), gone)
  <2>1. \A o \in DeleteObjects(b, k) : o.answer \in {"progress", "nothing"}
    BY <1>1, QuietCalls
  <2>2. \A o \in DeleteObjects(b, k) : Unproven(gone[o.answer])
    BY <1>3, <2>1
  <2> HIDE DEF gone, again
  <2> QED BY <1>2, <1>5, <2>2, UnprovenCall
<1> QED BY <1>4, <1>5 DEF ClearLoop

\* A clear with credentials, and one that makes a key for itself.
LEMMA ClearTells ==
    ASSUME KeysInv, NEW j \in Jobs, ClearBucket(j) \/ Purge(j), ClearTold(j), Keeps(j)
    PROVE  Told(j)'
<1> DEFINE me == job[j]
           you == job'[j]
           b == me.req.bucket
           failed == [me EXCEPT !.pc = "unmint", !.result = "failed"]
           named == Ends([me EXCEPT !.manual = TRUE], me.result)
           over == Ends(me, me.result)
           made == [me EXCEPT !.new = NextKey, !.pc = "grant"]
           ways == [ok |-> made, unnamed |-> Ends(me, "failed"), error |-> Ends(me, "failed")]
<1>1. /\ ClusterSound(garage) /\ JobShape(me) /\ me.req.cmd \in {"clear_bucket", "purge"} /\ you.req = me.req
      /\ DOMAIN job = Jobs
  BY DEF KeysInv, JobSound, ClearBucket, Purge, Keeps
<1>2. me.pc \notin {"unmint", "done"} => me.result # "success"
  BY <1>1 DEF ClearTold
<1>3. Unproven(failed) /\ (me.result # "success" => Unproven(made))
  BY <1>1 DEF JobShape, Unproven
<1>a. /\ over.pc = "done" /\ over.result = me.result /\ named.pc = "done" /\ named.result = me.result
  BY <1>1 DEF JobShape, Ends
<1> HIDE DEF failed, made, named, over
<1>4. CASE \E k : ClearLoop(j, k)
  BY <1>1, <1>4, LoopTells
<1>5. CASE Mint(j, FALSE, "grant", FALSE)
  <2>1. Call(j, "mint", CreateKey(FALSE), ways) /\ me.pc = "mint"
    BY <1>5 DEF Mint, Call, made
  <2>2. me.result # "success" /\ Unproven(Ends(me, "failed"))
    BY <2>1, <1>1, <1>2, UnprovenTurns
  <2>3. \A a \in {"ok", "error", "unnamed"} : Unproven(ways[a])
    BY <2>2, <1>3
  <2>4. \A o \in CreateKey(FALSE) : Unproven(ways[o.answer])
    BY <1>1, <2>3, Creations
  <2> HIDE DEF ways
  <2> QED BY <2>1, <2>2, <2>4, <1>1, UnprovenCall
<1>6. ASSUME NEW STATE outcomes, NEW p \in {"name", "list"}, NEW q \in {"grant", "name"},
             Call(j, q, outcomes, OkElse(Goto(me, p), failed)), \A o \in outcomes : o.answer \in Answers
      PROVE  Told(j)'
  <2>1. me.result # "success" /\ Unproven(Goto(me, p))
    BY <1>1, <1>2, <1>6, UnprovenTurns DEF Call
  <2>2. \A o \in outcomes : Unproven(OkElse(Goto(me, p), failed)[o.answer])
    BY <1>3, <1>6, <2>1 DEF OkElse, Answers
  <2> QED BY <2>1, <2>2, <1>1, <1>6, UnprovenCall
<1>7. CASE Call(j, "grant", AllowBucketKey(b, me.new, {"read", "write"}), OkElse(Goto(me, "name"), failed))
  <2>1. {"read", "write"} \subseteq Perms
    BY DEF Perms
  <2>2. \A o \in AllowBucketKey(b, me.new, {"read", "write"}) : o.answer \in Answers
    BY <1>1, <2>1, QuietCalls
  <2> QED BY <2>2, <1>6, <1>7
<1>8. CASE Call(j, "name", AddBucketAlias(b, me.new), OkElse(Goto(me, "list"), failed))
  <2>1. \A o \in AddBucketAlias(b, me.new) : o.answer \in Answers
    BY <1>1, QuietCalls
  <2> QED BY <2>1, <1>6, <1>8
<1>9. CASE Call(j, "unmint", DeleteKey(me.new), OkElse(over, named))
  <2>1. PICK o \in DeleteKey(me.new) :
           garage' = o.garage /\ you = IF me.dying THEN Cancelled(me) ELSE OkElse(over, named)[o.answer]
    BY <1>1, <1>9 DEF Call
  <2>2. me.pc = "unmint"
    BY <1>9 DEF Call
  <2>3. garage'.objects = garage.objects /\ o.answer \in Answers
    <3> DEFINE P(e) == [bk \in DOMAIN e |-> IF bk[2] = me.new THEN {} ELSE e[bk]]
               N(e) == {bk \in e : bk[2] # me.new}
               gone == [garage EXCEPT !.keys = @ \ {me.new}, !.creators = @ \ {me.new}, !.perms = P(@), !.names = N(@)]
    <3>1. gone.objects = garage.objects
      BY <1>1 DEF ClusterSound, GrantsSound
    <3>2. DeleteKey(me.new) = IF me.new \in garage.keys THEN Applied(gone) ELSE Absent
      BY DEF DeleteKey
    <3> HIDE DEF gone
    <3> QED BY <3>1, <3>2, <2>1 DEF Applied, Absent, Unchanged, Answers
  <2>4. me.result = "success" => garage.objects[b] = 0
    BY <1>1 DEF ClearTold
  <2>5. Cancelled(me).pc = "done" /\ Cancelled(me).result = "cancelled"
    BY <1>1, <2>2 DEF Cancelled, Ends, JobShape
  <2>6. you.pc = "done" /\ you.result \in {me.result, "cancelled"}
    BY <2>1, <2>3, <2>5, <1>a DEF OkElse, Answers
  <2>7. ClearTold(j)'
    BY <2>3, <2>4, <2>6, <1>1 DEF ClearTold, Succeeds
  <2> QED BY <2>7, <1>1, OwnWord DEF Told
<1>10. CASE ClearBucket(j)
  BY <1>10, <1>4 DEF ClearBucket
<1>11. CASE Purge(j)
  BY <1>11, <1>4, <1>5, <1>7, <1>8, <1>9 DEF Purge, failed, named, over
<1> QED BY <1>10, <1>11

\* The clock of a clear proves nothing.
LEMMA TimeOutTells ==
    ASSUME KeysInv, NEW j \in Jobs, ClearTimesOut(j), ClearTold(j), Keeps(j)
    PROVE  Told(j)'
<1>1. /\ JobShape(job[j]) /\ job[j].req.cmd \in {"clear_bucket", "purge"} /\ job'[j].req = job[j].req
      /\ job'[j] = Returns(job[j], "stalled") /\ job[j].pc = "list"
  BY DEF KeysInv, JobSound, ClearTimesOut, Keeps
<1>2. Unproven(job'[j])
  BY <1>1, UnprovenTurns DEF ClearTold
<1> QED BY <1>1, <1>2, UnprovenIsTold

\* The CORS rules.
LEMMA CorsTells ==
    ASSUME KeysInv, NEW j \in Jobs, SetCors(j) \/ GetCors(j), Keeps(j)
    PROVE  Told(j)'
<1> DEFINE me == job[j]
           you == job'[j]
           b == me.req.bucket
           now == garage.cors[b]
           failed == Ends(me, "failed")
           stale == Ends([me EXCEPT !.rules = {now}], "stale")
           same == Goto(me, "update")
           set == [Finalizing(me) EXCEPT !.rules = {me.req.rules}]
           got == [Finalizing(me) EXCEPT !.rules = {now}]
<1>1. ClusterSound(garage) /\ JobShape(me) /\ me.req.cmd \in {"set_cors", "get_cors"} /\ you.req = me.req /\ b \in Buckets
  BY InBounds DEF KeysInv, JobSound, SetCors, GetCors, Keeps, Asked, OfBuckets
<1>2. SUFFICES ASSUME ~CutShort(me, you) PROVE CorsTold(j)'
  BY <1>1, CutIsTold, OwnWord DEF Told
<1>3. /\ failed.pc = "done" /\ failed.result = "failed" /\ same.pc = "update"
      /\ stale.pc = "done" /\ stale.result = "stale" /\ stale.rules = {now}
      /\ set.pc = "finalizing" /\ set.rules = {me.req.rules} /\ got.pc = "finalizing" /\ got.rules = {now}
  BY <1>1 DEF JobShape, Ends, Goto, Finalizing
<1> HIDE DEF failed, stale, same, set, got
<1>4. CASE SetCors(j)
  <2> DEFINE first == IF now = me.req.expected THEN same ELSE stale
  <2>1. CASE Call(j, "info", GetBucketInfo(b), OkElse(first, failed))
    <3> HIDE DEF first
    <3>1. BucketRead(j, "info", b, first, failed, failed)
      BY <1>1, <2>1, BucketReadElse
    <3>2. garage' = garage /\ (you = first \/ you = failed)
      BY <3>1, <1>2 DEF BucketRead
    <3>3. CASE you = stale /\ now # me.req.expected
      BY <3>2, <3>3, <1>1, <1>3 DEF CorsTold, Succeeds
    <3>4. CASE you = same \/ you = failed
      BY <3>4, <1>3 DEF CorsTold, Succeeds
    <3> QED BY <3>2, <3>3, <3>4 DEF first
  <2>2. CASE Call(j, "update", UpdateBucketCors(b, me.req.rules), OkElse(set, failed))
    <3>1. \A o \in UpdateBucketCors(b, me.req.rules) :
             o.answer \in Answers /\ (o.answer = "ok" => o.garage.cors[b] = me.req.rules)
      <4> DEFINE g == [garage EXCEPT !.cors[b] = me.req.rules]
      <4>1. g.cors[b] = me.req.rules
        BY <1>1 DEF ClusterSound, GrantsSound
      <4>2. UpdateBucketCors(b, me.req.rules) = IF b \in garage.buckets THEN Applied(g) ELSE Absent
        BY DEF UpdateBucketCors, UpdateBucket
      <4> HIDE DEF g
      <4> QED BY <4>1, <4>2 DEF Applied, Absent, Unchanged, Answers
    <3>2. PICK o \in UpdateBucketCors(b, me.req.rules) :
             garage' = o.garage /\ ((o.answer = "ok" /\ you = set) \/ (o.answer # "ok" /\ you = failed))
      BY <1>1, <1>2, <2>2, <3>1, OkElseGoes
    <3>3. CASE you = failed
      BY <3>3, <1>3 DEF CorsTold, Succeeds
    <3>4. CASE you = set /\ garage'.cors[b] = me.req.rules
      BY <3>4, <1>1, <1>3 DEF CorsTold
    <3> QED BY <3>1, <3>2, <3>3, <3>4
  <2> QED BY <2>1, <2>2, <1>4 DEF SetCors, ReadCurrentRules, failed, stale, same, set
<1>5. CASE GetCors(j)
  <2>1. Call(j, "info", GetBucketInfo(b), OkElse(got, failed)) /\ me.req.cmd = "get_cors"
    BY <1>5 DEF GetCors, ReadCurrentRules, got, failed
  <2>2. BucketRead(j, "info", b, got, failed, failed)
    BY <1>1, <2>1, BucketReadElse
  <2>3. garage' = garage /\ (you = got \/ you = failed)
    BY <2>2, <1>2 DEF BucketRead
  <2> QED BY <2>1, <2>3, <1>1, <1>3 DEF CorsTold, Succeeds
<1> QED BY <1>4, <1>5

\* What a key may do, and who holds what.
LEMMA ReadsTell ==
    ASSUME KeysInv, NEW j \in Jobs, SetAccountKeyCapability(j) \/ GetKeyBuckets(j) \/ GetBucketOwners(j),
           ReadsTold(j), Keeps(j)
    PROVE  Told(j)'
<1> DEFINE me == job[j]
           you == job'[j]
           b == me.req.bucket
           k == me.req.key
           failed == Ends(me, "failed")
           none == Ends(me, "success")
           over == Finalizing(me)
           read == Ends([me EXCEPT !.snap = Grants(k)], "success")
           held == Ends([me EXCEPT !.holders = [c \in Keys |-> garage.perms[b, c]]], "success")
<1>1. /\ ClusterSound(garage) /\ JobShape(me) /\ you.req = me.req
      /\ me.req.cmd \in {"set_capability", "get_key_buckets", "get_bucket_owners"}
      /\ me.req.cmd \in {"set_capability", "get_key_buckets"} => k \in Keys
      /\ me.req.cmd = "set_capability" => me.req.enable \in BOOLEAN
      /\ me.req.cmd = "get_bucket_owners" => b \in Buckets
  BY InBounds DEF KeysInv, JobSound, SetAccountKeyCapability, GetKeyBuckets, GetBucketOwners, Keeps, Asked, OfBuckets, OfKeys
<1>2. SUFFICES ASSUME ~CutShort(me, you) PROVE ReadsTold(j)'
  BY <1>1, CutIsTold, OwnWord DEF Told
<1>3. /\ failed.pc = "done" /\ failed.result = "failed" /\ over.pc = "finalizing"
      /\ none.pc = "done" /\ none.snap = me.snap /\ none.holders = me.holders
      /\ read.pc = "done" /\ read.snap = Grants(k)
      /\ held.pc = "done" /\ held.holders = [c \in Keys |-> garage.perms[b, c]]
  BY <1>1 DEF JobShape, Ends, Goto, Finalizing
<1> HIDE DEF failed, none, over, read, held
<1>4. CASE SetAccountKeyCapability(j)
  <2>1. Call(j, "update", UpdateKey(k, me.req.enable), OkElse(over, failed)) /\ me.req.cmd = "set_capability"
    BY <1>4 DEF SetAccountKeyCapability, over, failed
  <2>2. \A o \in UpdateKey(k, me.req.enable) :
           o.answer \in Answers /\ (o.answer = "ok" => (k \in o.garage.creators <=> me.req.enable))
    <3> DEFINE g == [garage EXCEPT !.creators = IF me.req.enable THEN @ \cup {k} ELSE @ \ {k}]
    <3>1. k \in g.creators <=> me.req.enable
      BY <1>1 DEF ClusterSound, GrantsSound
    <3>2. UpdateKey(k, me.req.enable) = IF k \in garage.keys THEN Applied(g) ELSE Absent
      BY DEF UpdateKey
    <3> HIDE DEF g
    <3> QED BY <3>1, <3>2 DEF Applied, Absent, Unchanged, Answers
  <2>3. PICK o \in UpdateKey(k, me.req.enable) :
           garage' = o.garage /\ ((o.answer = "ok" /\ you = over) \/ (o.answer # "ok" /\ you = failed))
    BY <1>1, <1>2, <2>1, <2>2, OkElseGoes
  <2>4. Succeeds(you) => (k \in garage'.creators <=> me.req.enable)
    BY <2>2, <2>3, <1>3 DEF Succeeds
  <2>5. Succeeds(you) => (k \in garage'.creators) = me.req.enable
    BY <2>1, <2>4, <1>1
  <2> QED BY <2>1, <2>5, <1>1, Zenon DEF ReadsTold
<1>5. CASE GetKeyBuckets(j)
  <2> DEFINE next == [ok |-> read, absent |-> none, error |-> failed]
  <2>1. Call(j, "read", GetKeyInfo(k), next) /\ me.req.cmd = "get_key_buckets"
    BY <1>5 DEF GetKeyBuckets, read, none, failed
  <2>2. KeyRead(j, "read", k, next.ok, next.absent, next.error)
    <3> HIDE DEF next
    <3> QED BY <1>1, <2>1, KeyReadGoes
  <2>3. /\ me.pc = "read" /\ garage' = garage
        /\ you = read \/ (you = none /\ k \notin garage.keys) \/ you = failed
    BY <2>2, <1>2 DEF KeyRead
  <2>4. k \notin garage.keys => Grants(k) = NoGrants
    BY <2>1, <1>1 DEF Grants, NoGrants, ClusterSound, GrantsSound
  <2>5. me.snap = NoGrants
    BY <2>1, <2>3 DEF ReadsTold
  <2>6. you.pc = "done" /\ (Succeeds(you) => you.snap = Grants(k))
    BY <2>3, <2>4, <2>5, <1>3 DEF Succeeds
  <2>7. Grants(k)' = Grants(k)
    BY <2>3, <1>1 DEF Grants
  <2> QED BY <2>1, <2>6, <2>7, <1>1 DEF ReadsTold
<1>6. CASE GetBucketOwners(j)
  <2> DEFINE next == [ok |-> held, absent |-> none, error |-> failed]
  <2>1. Call(j, "info", GetBucketInfo(b), next) /\ me.req.cmd = "get_bucket_owners"
    BY <1>6 DEF GetBucketOwners, held, none, failed
  <2>2. BucketRead(j, "info", b, next.ok, next.absent, next.error)
    <3> HIDE DEF next
    <3> QED BY <1>1, <2>1, BucketReadGoes
  <2>3. /\ me.pc = "info" /\ garage' = garage
        /\ you = held \/ (you = none /\ b \notin garage.buckets) \/ you = failed
    BY <2>2, <1>2 DEF BucketRead
  <2>4. b \notin garage.buckets => \A c \in Keys : garage.perms[b, c] = {}
    BY <2>1, <1>1 DEF ClusterSound, GrantsSound
  <2>5. me.holders = NoHolders
    BY <2>1, <2>3 DEF ReadsTold
  <2>6. you.pc = "done" /\ (Succeeds(you) => \A c \in Keys : you.holders[c] = garage.perms[b, c])
    <3>1. CASE you = held
      BY <3>1, <1>3
    <3>2. CASE you = none /\ b \notin garage.buckets
      <4>1. \A c \in Keys : NoHolders[c] = {}
        BY DEF NoHolders
      <4> QED BY <3>2, <4>1, <2>4, <2>5, <1>3
    <3>3. CASE you = failed
      BY <3>3, <1>3 DEF Succeeds
    <3> QED BY <2>3, <3>1, <3>2, <3>3
  <2> QED BY <2>1, <2>3, <2>6, <1>1 DEF ReadsTold
<1> QED BY <1>4, <1>5, <1>6

\* A transfer of grants, to its end or to the next bucket.
LEMMA ConvergeTells ==
    ASSUME KeysInv, NEW j \in Jobs, ConvergeRotation(j), ConvergeTold(j), Keeps(j)
    PROVE  Told(j)'
<1> DEFINE me == job[j]
           you == job'[j]
           old == me.req.key
           new == me.req.to
           toTransfer == {b \in Buckets : me.snap[b] # {} /\ ~Covers(b, new, me.snap[b])}
           failed == Ends(me, "failed")
           covered == Ends(me, "converged")
           read == [Goto(me, "new") EXCEPT !.snap = Grants(old)]
           left == [Goto(me, "grant") EXCEPT !.todo = toTransfer]
           named(b) == [Goto(me, "name") EXCEPT !.at = b]
<1>1. /\ ClusterSound(garage) /\ JobShape(me) /\ me.req.cmd = "converge_rotation" /\ you.req = me.req
      /\ old \in Keys /\ new \in Keys
  BY InBounds DEF KeysInv, JobSound, ConvergeRotation, Keeps, Asked, OfKeys
<1>2. SUFFICES ASSUME ~CutShort(me, you) PROVE ConvergeTold(j)'
  BY <1>1, CutIsTold, OwnWord DEF Told
<1>3. /\ failed.pc = "done" /\ failed.result = "failed" /\ left.pc = "grant"
      /\ covered.pc = "done" /\ covered.snap = me.snap
      /\ read.pc = "new" /\ read.snap = Grants(old)
      /\ \A b : named(b).pc = "name"
      /\ \A b : Past(me, b).pc = "grant" \/ (Past(me, b).pc = "done" /\ Past(me, b).result = "transferred")
  BY <1>1 DEF JobShape, Ends, Goto, Past
<1>4. \A b \in Buckets : garage.perms[b, old] \subseteq Perms
  BY <1>1 DEF ClusterSound, GrantsSound
<1>5. ASSUME you.pc \in {"grant", "name"} \/ (you.pc = "done" /\ you.result \in {"failed", "transferred"})
      PROVE  ConvergeTold(j)'
  BY <1>5 DEF ConvergeTold
<1> HIDE DEF failed, covered, read, left, named
<1>6. CASE Call(j, "old", GetKeyInfo(old), [ok |-> read, absent |-> covered, error |-> failed])
  <2> DEFINE next == [ok |-> read, absent |-> covered, error |-> failed]
  <2>1. KeyRead(j, "old", old, next.ok, next.absent, next.error)
    <3> HIDE DEF next
    <3> QED BY <1>1, <1>6, KeyReadGoes DEF next
  <2>2. me.pc = "old" /\ garage' = garage /\ (you = read \/ (you = covered /\ old \notin garage.keys) \/ you = failed)
    BY <2>1, <1>2 DEF KeyRead
  <2>3. CASE you = read
    <3>1. \A b \in Buckets : garage.perms[b, old] \subseteq Grants(old)[b]
      BY DEF Grants
    <3> QED BY <3>1, <2>2, <2>3, <1>1, <1>3 DEF ConvergeTold
  <2>4. CASE you = covered /\ old \notin garage.keys
    <3>1. \A b \in Buckets : garage.perms[b, old] = {} /\ you.snap[b] = {}
      BY <2>2, <2>4, <1>1, <1>3 DEF ClusterSound, GrantsSound, ConvergeTold, NoGrants
    <3> QED BY <3>1, <2>2, <2>4, <1>1, <1>3 DEF ConvergeTold
  <2> QED BY <2>2, <2>3, <2>4, <1>3, <1>5
<1>7. CASE Call(j, "new", GetKeyInfo(new), OkElse(IF toTransfer = {} THEN covered ELSE left, failed))
  <2> DEFINE next == IF toTransfer = {} THEN covered ELSE left
  <2>1. KeyRead(j, "new", new, next, failed, failed)
    <3> HIDE DEF next
    <3> QED BY <1>1, <1>7, KeyReadElse DEF next
  <2>2. me.pc = "new" /\ garage' = garage /\ ((you = covered /\ toTransfer = {}) \/ you = left \/ you = failed)
    BY <2>1, <1>2 DEF KeyRead
  <2>3. CASE you = covered /\ toTransfer = {}
    <3>1. \A b \in Buckets : me.snap[b] \cap Perms \subseteq garage.perms[b, new]
      BY <2>3 DEF Covers
    <3>2. \A b \in Buckets : garage.perms[b, old] \subseteq me.snap[b]
      BY <2>2, <1>1 DEF ConvergeTold
    <3> QED BY <3>1, <3>2, <2>2, <2>3, <1>1, <1>3, <1>4 DEF ConvergeTold
  <2> QED BY <2>2, <2>3, <1>3, <1>5
<1>8. ASSUME NEW b \in me.todo,
             Call(j, "grant", AllowBucketKey(b, new, me.snap[b] \cap Perms),
                  OkElse(IF "name" \in me.snap[b] THEN named(b) ELSE Past(me, b), Past(me, b)))
      PROVE  ConvergeTold(j)'
  <2> DEFINE next == IF "name" \in me.snap[b] THEN named(b) ELSE Past(me, b)
  <2>1. \A o \in AllowBucketKey(b, new, me.snap[b] \cap Perms) : o.answer \in Answers
    BY <1>1, QuietCalls
  <2>2. you = next \/ you = Past(me, b)
    <3> HIDE DEF next
    <3> QED BY <2>1, <1>1, <1>2, <1>8, OkElseGoes DEF next
  <2> QED BY <2>2, <1>3, <1>5
<1>9. CASE Call(j, "name", AddBucketAlias(me.at, new), OkElse(Past(me, me.at), Past(me, me.at)))
  <2>1. \A o \in AddBucketAlias(me.at, new) : o.answer \in Answers
    BY <1>1, QuietCalls
  <2>2. you = Past(me, me.at)
    BY <2>1, <1>1, <1>2, <1>9, OkElseGoes
  <2> QED BY <2>2, <1>3, <1>5
<1> QED BY <1>6, <1>7, <1>8, <1>9 DEF ConvergeRotation, failed, covered, read, left, named

\* A key that a call deletes is remembered with its grants.
LEMMA CallBuries ==
    ASSUME NEW j \in Jobs, NEW STATE pc, NEW STATE outcomes, NEW STATE next, Call(j, pc, outcomes, next)
    PROVE  \A k \in Keys : k \in garage.keys /\ k \notin garage'.keys => died'[k] = Grants(k)
BY DEF Call

\* The list of a key's grants before it goes.
LEMMA ReapTells ==
    ASSUME KeysInv, NEW j \in Jobs, SnapshotAndReap(j), ReapTold(j), Keeps(j)
    PROVE  Told(j)'
<1> DEFINE me == job[j]
           you == job'[j]
           k == me.req.key
           gone == Ends(me, "success")
           failed == Ends(me, "failed")
           unreaped == Ends([me EXCEPT !.snap = NoGrants], "failed")
           read == [Goto(me, "reap") EXCEPT !.snap = Grants(k)]
<1>1. /\ ClusterSound(garage) /\ JobShape(me) /\ me.req.cmd = "snapshot_and_reap" /\ you.req = me.req /\ k \in Keys
      /\ me.req.cmd \in Reapers /\ OldKeyThere(j)
  BY InBounds DEF KeysInv, JobSound, SnapshotAndReap, Keeps, Asked, OfKeys, Reapers
<1>2. SUFFICES ASSUME ~CutShort(me, you) PROVE ReapTold(j)'
  BY <1>1, CutIsTold, OwnWord DEF Told
<1>3. /\ gone.pc = "done" /\ gone.snap = me.snap
      /\ failed.pc = "done" /\ failed.result = "failed" /\ unreaped.pc = "done" /\ unreaped.result = "failed"
      /\ read.pc = "reap" /\ read.snap = Grants(k)
  BY <1>1 DEF JobShape, Ends, Goto
<1>4. ASSUME k \notin garage.keys, me.pc \in {"snapshot", "reap"}
      PROVE  k \in unheard' \/ \E i \in Jobs \ {j} : Deletes(job[i], k)'
  <2>1. k \in unheard \/ \E i \in Jobs \ {j} : Deletes(job[i], k)
    BY <1>1, <1>4 DEF OldKeyThere, PastReap
  <2>2. unheard \subseteq unheard' /\ \A i \in Jobs \ {j} : job'[i] = job[i]
    BY DEF Keeps, DiedSoFar
  <2> QED BY <2>1, <2>2, <1>1 DEF Deletes
<1>5. ASSUME you.pc = "done", you.result = "failed" \/ k \in unheard' \/ \E i \in Jobs \ {j} : Deletes(job[i], k)'
      PROVE  ReapTold(j)'
  BY <1>5, <1>1 DEF ReapTold, Succeeds
<1> HIDE DEF gone, failed, unreaped, read
<1>6. CASE Call(j, "snapshot", GetKeyInfo(k), [ok |-> read, absent |-> gone, error |-> failed])
  <2> DEFINE next == [ok |-> read, absent |-> gone, error |-> failed]
  <2>1. KeyRead(j, "snapshot", k, next.ok, next.absent, next.error)
    <3> HIDE DEF next
    <3> QED BY <1>1, <1>6, KeyReadGoes DEF next
  <2>2. /\ me.pc = "snapshot" /\ garage' = garage
        /\ you = read \/ (you = gone /\ k \notin garage.keys) \/ you = failed
    BY <2>1, <1>2 DEF KeyRead
  <2>3. CASE you = read
    BY <2>2, <2>3, <1>1, <1>3 DEF ReapTold, Succeeds, Grants
  <2> QED BY <2>2, <2>3, <1>3, <1>4, <1>5
<1>7. CASE Call(j, "reap", DeleteKey(k), [ok |-> gone, absent |-> gone, error |-> unreaped])
  <2> DEFINE next == [ok |-> gone, absent |-> gone, error |-> unreaped]
  <2>1. Deleting(j, "reap", k, next.ok, next.absent, next.error)
    <3> HIDE DEF next
    <3> QED BY <1>1, <1>7, DeleteGoes DEF next
  <2>2. /\ me.pc = "reap"
        /\ \/ you = gone /\ k \in garage.keys /\ garage'.keys = garage.keys \ {k}
           \/ you = gone /\ k \notin garage.keys
           \/ you = unreaped
    BY <2>1, <1>2 DEF Deleting
  <2>3. CASE you = gone /\ k \in garage.keys /\ garage'.keys = garage.keys \ {k}
    <3>1. \A c \in Keys : c \in garage.keys /\ c \notin garage'.keys => died'[c] = Grants(c)
      BY <1>7, CallBuries
    <3>2. died'[k] = me.snap
      BY <3>1, <2>2, <2>3, <1>1 DEF ReapTold
    <3> QED BY <3>2, <2>3, <1>1, <1>3 DEF ReapTold
  <2> QED BY <2>2, <2>3, <1>3, <1>4, <1>5
<1> QED BY <1>6, <1>7 DEF SnapshotAndReap, gone, failed, unreaped, read

\* The narrowing of a key: the owners it read of go on, to its end.
GivesUp(me, you) == you.snap = me.snap /\ you.pc = "done" /\ you.result \in {"failed", "cancelled"}

\* One that ends without success has only the owners it read of to answer for.
LEMMA GivesUpIsTold ==
    ASSUME NEW j, job'[j].req = job[j].req, GivesUp(job[j], job'[j]), OwnersStand(j)'
    PROVE  EnforceTold(j)'
BY DEF GivesUp, EnforceTold, Succeeds

\* A read changes nothing that an enforcement has to say.
LEMMA SameOwners ==
    ASSUME NEW j, garage' = garage, job'[j].req = job[j].req
    PROVE  /\ job'[j].snap = job[j].snap /\ OwnersStand(j) => OwnersStand(j)'
           /\ \A b, k : OtherOwner(b, k)' = OtherOwner(b, k)
           /\ \A k : Grants(k)' = Grants(k)
BY DEF OwnersStand, OtherOwner, Grants

\* The read of the grants gives the snapshot that the rest answers for.
LEMMA EnforceReads ==
    ASSUME KeysInv, NEW j \in Jobs, EnforceTier(j), job[j].pc = "read", EnforceTold(j), Keeps(j)
    PROVE  EnforceTold(j)'
<1> DEFINE me == job[j]
           you == job'[j]
           k == me.req.key
           tier == me.req.tier
           read == [me EXCEPT !.snap = Grants(k)]
           snap == Grants(k)
           failed == Ends(me, "failed")
           fits == Ends(read, "success")
           narrow == [Goto(read, "narrow") EXCEPT !.todo = OverTier(read.snap, tier), !.at = 0]
           check == [Goto(read, "check") EXCEPT !.todo = LosesOwner(snap, tier)]
           next == IF OverTier(snap, tier) = {} THEN fits ELSE IF LosesOwner(snap, tier) = {} THEN narrow ELSE check
<1>1. /\ ClusterSound(garage) /\ JobShape(me) /\ me.req.cmd = "enforce_tier" /\ you.req = me.req
      /\ k \in Keys /\ tier \subseteq Perms
  BY InBounds DEF KeysInv, JobSound, EnforceTier, Keeps, Asked, OfKeys, OfTiers
<1>2. /\ failed.pc = "done" /\ failed.result = "failed" /\ failed.snap = me.snap
      /\ fits.pc = "done" /\ fits.result = "success" /\ fits.snap = snap
      /\ narrow.pc = "narrow" /\ narrow.snap = snap /\ narrow.todo = OverTier(snap, tier) /\ narrow.result = me.result
      /\ check.pc = "check" /\ check.snap = snap /\ check.todo = LosesOwner(snap, tier) /\ check.result = me.result
  BY <1>1 DEF JobShape, Ends, Goto
<1> HIDE DEF failed, fits, narrow, check
<1>3. KeyRead(j, "read", k, next, failed, failed)
  <2>1. Call(j, "read", GetKeyInfo(k), OkElse(next, failed))
    BY DEF EnforceTier, Call, next, failed, fits, narrow, check
  <2> HIDE DEF next
  <2> QED BY <1>1, <2>1, KeyReadElse
<1>4. /\ me.pc = "read" /\ garage' = garage /\ me.snap = NoGrants /\ me.result # "would_strand"
      /\ CutShort(me, you) \/ you = next \/ you = failed
  BY <1>1, <1>3 DEF KeyRead, EnforceTold
<1>5. /\ \A b \in Buckets : garage.perms[b, k] \subseteq snap[b] /\ garage.perms[b, k] \subseteq Perms
      /\ \A b \in Buckets : snap[b] \subseteq garage.perms[b, k] \cup {"name"}
      /\ Grants(k)' = snap /\ \A b \in Buckets : garage'.perms[b, k] = garage.perms[b, k]
  BY <1>1, <1>4 DEF Grants, ClusterSound, GrantsSound
<1>6. \A b \in Buckets : b \in OverTier(snap, tier) \/ garage.perms[b, k] \subseteq tier \cup {"read"}
  BY <1>5 DEF OverTier, Exceeds, Perms
<1> HIDE DEF snap
<1>7. ASSUME you.snap = snap PROVE OwnersStand(j)'
  <2>1. ASSUME NEW b \in Buckets, "owner" \in you.snap[b] PROVE "owner" \in garage'.perms[b, you.req.key]
    <3>1. "owner" \in garage.perms[b, k] \cup {"name"}
      BY <1>5, <1>7, <2>1
    <3> QED BY <3>1, <1>1, <1>5
  <2> QED BY <2>1, Zenon DEF OwnersStand
<1>8. CASE CutShort(me, you) \/ you = failed
  <2>1. GivesUp(me, you)
    BY <1>2, <1>8 DEF CutShort, GivesUp
  <2>2. \A b \in Buckets : you.snap[b] = {}
    BY <2>1, <1>4 DEF GivesUp, NoGrants
  <2> QED BY <2>1, <2>2, <1>1, GivesUpIsTold DEF OwnersStand
<1>9. CASE you = fits /\ OverTier(snap, tier) = {}
  BY <1>9, <1>1, <1>2, <1>5, <1>6, <1>7 DEF EnforceTold
<1>10. CASE you = narrow /\ LosesOwner(snap, tier) = {}
  <2>1. /\ you.pc = "narrow" /\ you.snap = snap /\ you.todo = OverTier(snap, tier) /\ you.result # "would_strand"
        /\ OwnersStand(j)'
    BY <1>2, <1>4, <1>7, <1>10
  <2>2. \A b \in Buckets : b \in you.todo \/ garage'.perms[b, k] \subseteq tier \cup {"read"}
    BY <2>1, <1>5, <1>6
  <2> QED BY <2>1, <2>2, <1>1, <1>10 DEF EnforceTold, Succeeds
<1>11. CASE you = check
  <2>1. /\ you.pc = "check" /\ you.snap = snap /\ you.todo = LosesOwner(snap, tier) /\ you.result # "would_strand"
        /\ OwnersStand(j)'
    BY <1>2, <1>4, <1>7, <1>11
  <2>2. (Grants(k) = me.snap)'
    BY <2>1, <1>1, <1>5
  <2> QED BY <2>1, <2>2, <1>1 DEF EnforceTold, Succeeds
<1> QED BY <1>4, <1>8, <1>9, <1>10, <1>11

\* A check of a bucket leaves it to be checked no more, at risk, or with another owner.
LEMMA EnforceChecks ==
    ASSUME KeysInv, NEW j \in Jobs, EnforceTier(j), job[j].pc = "check", EnforceTold(j), Keeps(j)
    PROVE  EnforceTold(j)'
<1> DEFINE me == job[j]
           you == job'[j]
           k == me.req.key
           tier == me.req.tier
           failed == Ends(me, "failed")
           strands == Ends(me, "would_strand")
           narrow == [Goto(me, "narrow") EXCEPT !.todo = OverTier(me.snap, tier), !.at = 0]
           checked(b) == [me EXCEPT !.todo = @ \ {b}, !.risk = IF OtherOwner(b, k) THEN @ ELSE @ \cup {b}]
           next(b) == IF checked(b).todo # {} THEN checked(b) ELSE IF checked(b).risk # {} THEN strands ELSE narrow
<1>1. /\ ClusterSound(garage) /\ JobShape(me) /\ me.req.cmd = "enforce_tier" /\ you.req = me.req
      /\ k \in Keys /\ tier \subseteq Perms
  BY InBounds DEF KeysInv, JobSound, EnforceTier, Keeps, Asked, OfKeys, OfTiers
<1>2. /\ failed.pc = "done" /\ failed.result = "failed" /\ failed.snap = me.snap
      /\ strands.pc = "done" /\ strands.result = "would_strand" /\ strands.snap = me.snap
      /\ narrow.pc = "narrow" /\ narrow.snap = me.snap /\ narrow.todo = OverTier(me.snap, tier)
      /\ narrow.result = me.result
      /\ \A b : /\ checked(b).pc = me.pc /\ checked(b).snap = me.snap /\ checked(b).result = me.result
                /\ checked(b).todo = me.todo \ {b}
                /\ checked(b).risk = IF OtherOwner(b, k) THEN me.risk ELSE me.risk \cup {b}
  BY <1>1 DEF JobShape, Ends, Goto
<1> HIDE DEF failed, strands, narrow, checked
<1>3. PICK b \in me.todo : Call(j, "check", GetBucketInfo(b), OkElse(next(b), failed))
  BY DEF EnforceTier, Call, next, failed, strands, narrow, checked
<1> DEFINE last == next(b)
<1>4. BucketRead(j, "check", b, last, failed, failed)
  <2> HIDE DEF last
  <2> QED BY <1>1, <1>3, BucketReadElse DEF last
<1>5. garage' = garage /\ (CutShort(me, you) \/ you = last \/ you = failed)
  BY <1>4 DEF BucketRead
<1>6. /\ OwnersStand(j) /\ Grants(k) = me.snap /\ me.result # "would_strand"
      /\ \A c \in Buckets : c \in me.todo \cup me.risk \/ (c \in LosesOwner(me.snap, tier) => OtherOwner(c, k))
  BY <1>1 DEF EnforceTold
<1>7. /\ \A c : OtherOwner(c, k)' = OtherOwner(c, k)
      /\ Grants(k)' = me.snap /\ \A c \in Buckets : garage'.perms[c, k] = garage.perms[c, k]
  BY <1>1, <1>5, <1>6, SameOwners
<1>8. you.snap = me.snap
  BY <1>2, <1>5 DEF CutShort
<1>9. OwnersStand(j)'
  BY <1>1, <1>5, <1>6, <1>8, SameOwners
<1>10. \A c \in Buckets : c \in OverTier(me.snap, tier) \/ garage.perms[c, k] \subseteq tier \cup {"read"}
  <2>1. \A c \in Buckets : garage.perms[c, k] \subseteq me.snap[c] /\ garage.perms[c, k] \subseteq Perms
    BY <1>1, <1>6 DEF Grants, ClusterSound, GrantsSound
  <2> QED BY <2>1 DEF OverTier, Exceeds, Perms
<1>11. CASE CutShort(me, you) \/ you = failed
  <2>1. GivesUp(me, you)
    BY <1>2, <1>11 DEF CutShort, GivesUp
  <2> QED BY <2>1, <1>1, <1>9, GivesUpIsTold
<1>12. CASE you = checked(b)
  <2>1. \A c \in Buckets :
           c \in you.todo \cup you.risk \/ (c \in LosesOwner(you.snap, tier) => OtherOwner(c, k))
    <3> SUFFICES ASSUME NEW c \in Buckets, c \notin you.todo \cup you.risk, c \in LosesOwner(me.snap, tier)
                 PROVE  OtherOwner(c, k)
      BY <1>8
    <3>1. you.todo = me.todo \ {b} /\ you.risk = IF OtherOwner(b, k) THEN me.risk ELSE me.risk \cup {b}
      BY <1>2, <1>12
    <3>2. CASE c = b
      BY <3>1, <3>2
    <3>3. CASE c # b
      BY <3>1, <3>3, <1>6
    <3> QED BY <3>2, <3>3
  <2>2. you.pc = "check" /\ you.result # "would_strand"
    BY <1>2, <1>6, <1>12
  <2>3. (\A c \in Buckets : c \in me.todo \cup me.risk \/ (c \in LosesOwner(me.snap, tier) => OtherOwner(c, k)))'
    BY <2>1, <1>1, <1>7
  <2>4. (Grants(k) = me.snap)'
    BY <1>1, <1>7, <1>8
  <2> QED BY <2>2, <2>3, <2>4, <1>1, <1>9 DEF EnforceTold, Succeeds
<1>13. CASE you = strands
  BY <1>13, <1>1, <1>2, <1>7, <1>8, <1>9 DEF EnforceTold, Succeeds
<1>14. CASE you = narrow /\ checked(b).todo = {} /\ checked(b).risk = {}
  <2>1. \A c \in Buckets : c \in LosesOwner(me.snap, tier) => OtherOwner(c, k)
    BY <1>2, <1>6, <1>14
  <2>2. /\ you.pc = "narrow" /\ you.todo = OverTier(me.snap, tier) /\ you.result # "would_strand"
        /\ \A c \in Buckets : c \in you.todo \/ garage'.perms[c, k] \subseteq tier \cup {"read"}
    BY <1>2, <1>6, <1>7, <1>10, <1>14
  <2>3. \A c \in Buckets : c \in LosesOwner(me.snap, tier) => OtherOwner(c, k)'
    BY <2>1, <1>7
  <2> QED BY <2>2, <2>3, <1>1, <1>8, <1>9 DEF EnforceTold, Succeeds
<1> QED BY <1>5, <1>11, <1>12, <1>13, <1>14

\* A grant and a denial leave every bucket an owner, and narrow the one at hand.
LEMMA EnforceNarrows ==
    ASSUME KeysInv, NEW j \in Jobs, EnforceTier(j), job[j].pc \in {"narrow", "deny"}, EnforceTold(j), Keeps(j)
    PROVE  EnforceTold(j)'
<1> DEFINE me == job[j]
           you == job'[j]
           k == me.req.key
           tier == me.req.tier
           failed == Ends(me, "failed")
           deny(b) == [Goto(me, "deny") EXCEPT !.at = b]
           over == [Finalizing(me) EXCEPT !.todo = {}, !.at = 0]
           narrow == [Goto(me, "narrow") EXCEPT !.todo = @ \ {me.at}, !.at = 0]
           next == IF me.todo = {me.at} THEN over ELSE narrow
<1>1. /\ ClusterSound(garage) /\ JobShape(me) /\ me.req.cmd = "enforce_tier" /\ you.req = me.req
      /\ k \in Keys /\ tier \subseteq Perms
  BY InBounds DEF KeysInv, JobSound, EnforceTier, Keeps, Asked, OfKeys, OfTiers
<1>2. /\ failed.pc = "done" /\ failed.result = "failed" /\ failed.snap = me.snap
      /\ \A b : /\ deny(b).pc = "deny" /\ deny(b).snap = me.snap /\ deny(b).result = me.result
                /\ deny(b).todo = me.todo /\ deny(b).at = b
      /\ over.pc = "finalizing" /\ over.snap = me.snap /\ over.result = me.result
      /\ narrow.pc = "narrow" /\ narrow.snap = me.snap /\ narrow.result = me.result
      /\ narrow.todo = me.todo \ {me.at}
  BY <1>1 DEF JobShape, Ends, Goto, Finalizing
<1> HIDE DEF failed, deny, over, narrow
<1>3. /\ OwnersStand(j) /\ me.result # "would_strand" /\ me.todo \subseteq OverTier(me.snap, tier)
      /\ \A c \in Buckets :
            /\ c \in LosesOwner(me.snap, tier) => OtherOwner(c, k)
            /\ c \in me.todo \/ garage.perms[c, k] \subseteq tier \cup {"read"}
      /\ me.pc = "deny" => me.at \in me.todo
  BY <1>1 DEF EnforceTold
<1>4. me.todo \subseteq Buckets /\ \A c \in Buckets : garage.perms[c, k] \subseteq Perms
  BY <1>1, <1>3 DEF OverTier, ClusterSound, GrantsSound
<1>5. ASSUME \A c \in Buckets, d \in Keys \ {k} : garage'.perms[c, d] = garage.perms[c, d]
      PROVE  \A c \in Buckets : OtherOwner(c, k)' <=> OtherOwner(c, k)
  BY <1>1, <1>5 DEF OtherOwner
<1>6. ASSUME you.snap = me.snap, \A c \in Buckets : OtherOwner(c, k)' <=> OtherOwner(c, k),
             \A c \in Buckets :
                "owner" \in garage.perms[c, k] /\ "owner" \in me.snap[c]
                   => "owner" \in garage'.perms[c, k] \/ OtherOwner(c, k)
      PROVE  OwnersStand(j)'
  BY <1>1, <1>3, <1>6 DEF OwnersStand
<1>7. ASSUME OwnersStand(j)', CutShort(me, you) \/ you = failed
      PROVE  EnforceTold(j)'
  <2>1. GivesUp(me, you)
    BY <1>2, <1>7 DEF CutShort, GivesUp
  <2> QED BY <2>1, <1>1, <1>7, GivesUpIsTold
<1>8. CASE me.pc = "narrow"
  <2>1. PICK b \in me.todo : Call(j, "narrow", AllowBucketKey(b, k, tier), OkElse(deny(b), failed))
    BY <1>8 DEF EnforceTier, Call, failed, deny
  <2> DEFINE last == deny(b)
  <2>2. Regrants(j, "narrow", b, k, garage.perms[b, k] \cup tier, last, failed)
    <3> HIDE DEF last
    <3> QED BY <1>1, <1>4, <2>1, AllowGoes DEF last
  <2>3. /\ \A c \in Buckets, d \in Keys : c # b \/ d # k => garage'.perms[c, d] = garage.perms[c, d]
        /\ garage'.perms[b, k] \in {garage.perms[b, k] \cup tier, garage.perms[b, k]}
        /\ CutShort(me, you) \/ you = deny(b) \/ you = failed
    BY <2>2 DEF Regrants
  <2>4. you.snap = me.snap /\ \A c \in Buckets : OtherOwner(c, k)' <=> OtherOwner(c, k)
    <3>1. \A c \in Buckets, d \in Keys \ {k} : garage'.perms[c, d] = garage.perms[c, d]
      BY <2>3
    <3>2. deny(b).snap = me.snap
      BY <1>2
    <3>3. you.snap = me.snap
      BY <2>3, <3>2, <1>2 DEF CutShort
    <3> QED BY <3>1, <3>3, <1>5
  <2>5. OwnersStand(j)'
    <3>1. \A c \in Buckets : garage.perms[c, k] \subseteq garage'.perms[c, k]
      BY <2>3, <1>1
    <3> QED BY <3>1, <2>4, <1>6
  <2>6. CASE you = deny(b)
    <3>1. \A c \in Buckets :
             /\ c \in LosesOwner(me.snap, tier) => OtherOwner(c, k)'
             /\ c \in me.todo \/ garage'.perms[c, k] \subseteq tier \cup {"read"}
      BY <2>3, <2>4, <1>1, <1>3
    <3>2. you.pc = "deny" /\ you.at \in me.todo /\ you.todo = me.todo /\ you.result # "would_strand"
      <4>1. b \in me.todo
        BY <2>1
      <4>2. deny(b).pc = "deny" /\ deny(b).at = b /\ deny(b).todo = me.todo /\ deny(b).result = me.result
        BY <1>2
      <4> QED BY <4>1, <4>2, <2>6, <1>3
    <3> QED BY <3>1, <3>2, <2>4, <2>5, <1>1, <1>3 DEF EnforceTold, Succeeds
  <2> QED BY <2>3, <2>5, <2>6, <1>7
<1>9. CASE me.pc = "deny"
  <2>1. Call(j, "deny", DenyBucketKey(me.at, k, Perms \ tier), OkElse(next, failed))
    BY <1>9 DEF EnforceTier, Call, failed, over, narrow
  <2>2. Regrants(j, "deny", me.at, k, garage.perms[me.at, k] \ (Perms \ tier), next, failed)
    <3> HIDE DEF next
    <3> QED BY <1>1, <1>3, <1>4, <1>9, <2>1, DenyGoes
  <2>3. /\ \A c \in Buckets, d \in Keys : c # me.at \/ d # k => garage'.perms[c, d] = garage.perms[c, d]
        /\ garage'.perms[me.at, k] \in {garage.perms[me.at, k] \ (Perms \ tier), garage.perms[me.at, k]}
        /\ \/ CutShort(me, you)
           \/ you = next /\ garage'.perms[me.at, k] = garage.perms[me.at, k] \ (Perms \ tier)
           \/ you = failed
    BY <2>2 DEF Regrants
  <2>4. you.snap = me.snap /\ \A c \in Buckets : OtherOwner(c, k)' <=> OtherOwner(c, k)
    BY <2>3, <1>2, <1>5 DEF CutShort
  <2>5. OwnersStand(j)'
    <3>1. ASSUME "owner" \in garage.perms[me.at, k], "owner" \in me.snap[me.at], "owner" \notin garage'.perms[me.at, k]
          PROVE  OtherOwner(me.at, k)
      <4>1. "owner" \notin tier
        BY <3>1, <2>3
      <4>2. me.at \in LosesOwner(me.snap, tier)
        BY <3>1, <4>1, <1>3, <1>9 DEF LosesOwner
      <4> QED BY <4>2, <1>3, <1>4, <1>9
    <3>2. \A c \in Buckets :
             "owner" \in garage.perms[c, k] /\ "owner" \in me.snap[c]
                => "owner" \in garage'.perms[c, k] \/ OtherOwner(c, k)
      BY <3>1, <2>3, <1>1
    <3> QED BY <3>2, <2>4, <1>6
  <2>6. CASE you = next /\ garage'.perms[me.at, k] = garage.perms[me.at, k] \ (Perms \ tier)
    <3>1. \A c \in Buckets :
             /\ c \in LosesOwner(me.snap, tier) => OtherOwner(c, k)'
             /\ c \in me.todo \ {me.at} \/ garage'.perms[c, k] \subseteq tier \cup {"read"}
      BY <2>3, <2>4, <2>6, <1>1, <1>3, <1>4
    <3>2. CASE you = over /\ me.todo = {me.at}
      BY <3>1, <3>2, <2>5, <1>1, <1>2, <1>3 DEF EnforceTold, Succeeds
    <3>3. CASE you = narrow
      BY <3>1, <3>3, <2>5, <1>1, <1>2, <1>3 DEF EnforceTold, Succeeds
    <3> QED BY <2>6, <3>2, <3>3
  <2> QED BY <2>3, <2>5, <2>6, <1>7
<1> QED BY <1>8, <1>9

\* So the enforcement of a tier keeps its word.
LEMMA EnforceTells ==
    ASSUME KeysInv, NEW j \in Jobs, EnforceTier(j), EnforceTold(j), Keeps(j)
    PROVE  Told(j)'
<1>1. job[j].req.cmd = "enforce_tier"
  BY DEF EnforceTier
<1>4. job'[j].req = job[j].req
  BY Zenon DEF Keeps
<1>2. job[j].pc \in {"read", "check", "narrow", "deny"}
  BY DEF EnforceTier, Call
<1>3. EnforceTold(j)'
  BY <1>2, EnforceReads, EnforceChecks, EnforceNarrows
<1> QED BY <1>1, <1>3, <1>4, OwnWord DEF Told

\* A job of a command that has no word.
LEMMA NothingToTell ==
    ASSUME NEW j, job'[j].req = job[j].req,
           job[j].req.cmd \in {"none", "delete_key", "delete_bucket", "set_quota", "provision_account_key"}
    PROVE  Told(j)'
BY OwnWord DEF Told

\* The fields of a job that its word is about.
Alike(me, you) ==
    /\ you.req = me.req /\ you.pc = me.pc /\ you.new = me.new /\ you.result = me.result /\ you.snap = me.snap
    /\ you.todo = me.todo /\ you.at = me.at /\ you.risk = me.risk /\ you.holders = me.holders /\ you.rules = me.rules

\* Who may delete a key may delete it still, and a deleted one stays as it was.
Remembered(i) ==
    /\ unheard \subseteq unheard' /\ \A k \in Keys : died'[k] = died[k]
    /\ \A k \in Keys, m \in Jobs \ {i} : Deletes(job[m], k) => Deletes(job'[m], k)

\* So the list of a reaped key goes on being true.
LEMMA ReapStands ==
    ASSUME KeysInv, NEW i \in Jobs, Remembered(i), job[i].req.cmd = "snapshot_and_reap", NEW k, k = job[i].req.key,
           job'[i].req = job[i].req, job'[i].snap = job[i].snap,
           died[k] = job[i].snap \/ k \in unheard \/ \E m \in Jobs \ {i} : Deletes(job[m], k)
    PROVE  died'[k] = job'[i].snap \/ k \in unheard' \/ \E m \in Jobs \ {i} : Deletes(job'[m], k)
<1>1. k \in Keys
  BY InBounds DEF KeysInv, JobSound, Asked, OfKeys, Reapers
<1> QED BY <1>1 DEF Remembered

\* On a cluster that stays as it is a job that does not move keeps its word.
LEMMA Unmoved ==
    ASSUME KeysInv, NEW i \in Jobs, garage' = garage, Alike(job[i], job'[i]), Remembered(i), Told(i)
    PROVE  Told(i)'
<1> DEFINE me == job[i]
           you == job'[i]
<1>1. \A k : Grants(k)' = Grants(k)
  BY DEF Grants
<1>2. Succeeds(you) <=> Succeeds(me)
  BY DEF Alike, Succeeds
<1>3. AttachTold(i)' /\ DetachTold(i)' /\ GrantTold(i)' /\ ProvisionTold(i)'
  <2>1. AttachTold(i)'
    BY <1>2 DEF Told, Alike, AttachTold
  <2>2. DetachTold(i)'
    BY <1>2 DEF Told, Alike, DetachTold
  <2>3. GrantTold(i)'
    BY <1>2 DEF Told, Alike, GrantTold
  <2>4. ProvisionTold(i)'
    BY <1>2 DEF Told, Alike, ProvisionTold, Reaches, Both
  <2> QED BY <2>1, <2>2, <2>3, <2>4
<1>4. ClearTold(i)' /\ CorsTold(i)'
  BY <1>2 DEF Told, Alike, ClearTold, CorsTold
<1>5. ReadsTold(i)'
  BY <1>1, <1>2 DEF Told, Alike, ReadsTold
<1>6. ConvergeTold(i)'
  BY DEF Told, Alike, ConvergeTold
<1>7. ReapTold(i)'
  <2> SUFFICES ASSUME me.req.cmd = "snapshot_and_reap" PROVE ReapTold(i)'
    BY DEF ReapTold, Alike
  <2>1. you.pc = "snapshot" => you.snap = NoGrants
    BY DEF Told, Alike, ReapTold
  <2>2. you.pc = "reap" => you.snap = Grants(me.req.key)'
    BY <1>1 DEF Told, Alike, ReapTold
  <2>3. Succeeds(you) => \/ died'[me.req.key] = you.snap \/ me.req.key \in unheard'
                     \/ \E m \in Jobs \ {i} : Deletes(job'[m], me.req.key)
    <3>1. ASSUME Succeeds(you)
          PROVE  \/ died[me.req.key] = me.snap \/ me.req.key \in unheard
                 \/ \E m \in Jobs \ {i} : Deletes(job[m], me.req.key)
      BY <3>1, <1>2 DEF Told, ReapTold
    <3> QED BY <3>1, ReapStands DEF Alike
  <2>4. you.req = me.req
    BY DEF Alike
  <2> QED BY <2>1, <2>2, <2>3, <2>4 DEF ReapTold
<1>8. EnforceTold(i)'
  BY <1>1, <1>2, SameOwners DEF Told, Alike, EnforceTold, OtherOwner
<1> QED BY <1>3, <1>4, <1>5, <1>6, <1>7, <1>8 DEF Told

\* The last message is out: what the job was about to say is so.
LEMMA FinishTells ==
    ASSUME KeysInv, NEW j \in Jobs, Finish(j), Told(j), Keeps(j)
    PROVE  Told(j)'
<1> DEFINE me == job[j]
           you == job'[j]
<1>1. /\ JobShape(me) /\ me.pc = "finalizing" /\ garage' = garage /\ you.req = me.req /\ DOMAIN job = Jobs
      /\ you = Ends(me, IF me.dying THEN "cancelled" ELSE "success")
      /\ me.req.cmd # "snapshot_and_reap"
  BY DEF KeysInv, JobSound, Placed, Finish, Keeps
<1>2. /\ you.pc = "done" /\ you.result \in {"cancelled", "success"}
      /\ you.new = me.new /\ you.snap = me.snap /\ you.holders = me.holders /\ you.rules = me.rules
      /\ Succeeds(me)
  BY <1>1 DEF JobShape, Ends, Succeeds
<1>3. \A k : Grants(k)' = Grants(k)
  BY <1>1 DEF Grants
<1>4. AttachTold(j)' /\ DetachTold(j)' /\ GrantTold(j)' /\ ProvisionTold(j)'
  BY <1>1, <1>2 DEF Told, AttachTold, DetachTold, GrantTold, ProvisionTold, Reaches, Both
<1>5. ClearTold(j)' /\ CorsTold(j)'
  BY <1>1, <1>2 DEF Told, ClearTold, CorsTold
<1>6. ReadsTold(j)'
  BY <1>1, <1>2, <1>3 DEF Told, ReadsTold
<1>7. ConvergeTold(j)' /\ ReapTold(j)'
  BY <1>1, <1>2 DEF ConvergeTold, ReapTold
<1>8. EnforceTold(j)'
  BY <1>1, <1>2, SameOwners DEF Told, EnforceTold
<1> QED BY <1>4, <1>5, <1>6, <1>7, <1>8 DEF Told

\* A handler keeps its own job's word.
LEMMA HandlerTells ==
    ASSUME KeysInv, NEW j \in Jobs, Handle(j), Told(j), Keeps(j)
    PROVE  Told(j)'
<1>1. /\ AttachTold(j) /\ DetachTold(j) /\ GrantTold(j) /\ ProvisionTold(j) /\ ClearTold(j)
      /\ ReadsTold(j) /\ ConvergeTold(j) /\ ReapTold(j) /\ EnforceTold(j)
  BY DEF Told
<1>2. CASE ProvisionBucket(j)
  BY <1>2, ProvisionTells
<1>3. CASE RollbackOrphanKey(j) \/ RollbackAdditionalKey(j) \/ RollbackRotation(j)
  BY <1>3, RollbackTells DEF RollbackOrphanKey, RollbackAdditionalKey, RollbackRotation
<1>4. CASE ProvisionAccountKey(j) \/ DeleteKeyJob(j) \/ DeleteProvisionedBucket(j) \/ SetQuota(j)
  BY <1>4, NothingToTell DEF Keeps, ProvisionAccountKey, DeleteKeyJob, DeleteProvisionedBucket, SetQuota
<1>5. CASE ProvisionAdditionalKey(j) \/ RotateKey(j)
  BY <1>1, <1>5, GrantTells
<1>6. CASE AttachAccountKey(j)
  BY <1>1, <1>6, AttachTells
<1>7. CASE DetachAccountKey(j)
  BY <1>7, DetachTells
<1>8. CASE SetAccountKeyCapability(j) \/ GetKeyBuckets(j) \/ GetBucketOwners(j)
  BY <1>1, <1>8, ReadsTell
<1>9. CASE SnapshotAndReap(j)
  BY <1>1, <1>9, ReapTells
<1>10. CASE ConvergeRotation(j)
  BY <1>1, <1>10, ConvergeTells
<1>11. CASE EnforceTier(j)
  BY <1>1, <1>11, EnforceTells
<1>12. CASE SetCors(j) \/ GetCors(j)
  BY <1>12, CorsTells
<1>13. CASE ClearBucket(j) \/ Purge(j)
  BY <1>1, <1>13, ClearTells
<1>14. CASE Finish(j)
  BY <1>14, FinishTells
<1> QED BY <1>2, <1>3, <1>4, <1>5, <1>6, <1>7, <1>8, <1>9, <1>10, <1>11, <1>12, <1>13, <1>14 DEF Handle

\* A step that one job takes is another's concern only if it disturbs it.
LEMMA OthersTell ==
    ASSUME KeysInv, NEW j \in Jobs, Keeps(j), NEW i \in Jobs \ {j}, i \notin disturbed', Told(i)
    PROVE  Told(i)'
<1>1. job'[i] = job[i] /\ \A m \in Jobs \ {j} : job'[m] = job[m]
  BY DEF Keeps
<1>2. garage' = garage \/ job[i].pc = "unborn"
  BY DEF Keeps, DisturbedBy
<1>3. CASE job[i].pc = "unborn"
  BY <1>1, <1>3, NothingToTell DEF KeysInv, JobSound, Placed
<1>4. CASE garage' = garage
  <2>1. unheard \subseteq unheard' /\ \A k \in Keys : died'[k] = died[k]
    BY <1>4 DEF Keeps, DiedSoFar
  <2>2. ASSUME NEW k \in Keys, NEW m \in Jobs \ {i}, Deletes(job[m], k) PROVE Deletes(job'[m], k)
    <3>1. k # 0
      BY DEF Keys
    <3> QED BY <3>1, <2>2, <1>1 DEF Keeps, Deletes
  <2> QED BY <2>1, <2>2, <1>1, <1>4, Unmoved DEF Remembered, Alike
<1> QED BY <1>2, <1>3, <1>4

\* The jobs of a cluster that stays as it is, when those that move keep what they may delete.
LEMMA StillCluster ==
    ASSUME KeysInv, garage' = garage, unheard' = unheard, died' = died,
           \A m \in Jobs : job'[m].req = job[m].req /\ job'[m].new = job[m].new
    PROVE  \A i \in Jobs : Remembered(i)
BY DEF Remembered, Deletes

\* The end of a session.
LEMMA StopTells ==
    ASSUME KeysInv, StopAll, NEW i \in Jobs, Told(i)
    PROVE  Told(i)'
<1> DEFINE me == job[i]
           you == job'[i]
           doomed(m) == [job[m] EXCEPT !.dying = TRUE]
<1>1. PICK between \in SUBSET {m \in Jobs : Running(m)} :
          job' = [m \in Jobs |-> IF ~Running(m) THEN job[m]
                                 ELSE IF m \in between THEN Cancelled(job[m]) ELSE doomed(m)]
  BY DEF StopAll
<1>2. garage' = garage /\ unheard' = unheard /\ died' = died
  BY DEF StopAll, historyVars
<1>3. \A m \in Jobs : JobShape(job[m])
  BY DEF KeysInv, JobSound
<1>4. \A m \in Jobs : /\ Alike(job[m], doomed(m)) /\ Alike(job[m], job[m])
                      /\ Cancelled(job[m]).req = job[m].req /\ Cancelled(job[m]).new = job[m].new
  BY <1>3 DEF JobShape, Alike, Cancelled, Ends
<1> HIDE DEF doomed
<1>5. \A m \in Jobs : job'[m].req = job[m].req /\ job'[m].new = job[m].new
  BY <1>1, <1>4 DEF Alike
<1>6. Remembered(i)
  BY <1>2, <1>5, StillCluster
<1>7. CASE Alike(me, you)
  BY <1>2, <1>6, <1>7, Unmoved
<1>8. CASE you = Cancelled(me) /\ me.req.cmd # "purge"
  <2>1. CutShort(me, you)
    BY <1>3, <1>8 DEF Cancelled, CutShort, Ends, JobShape
  <2>2. CASE me.req.cmd # "enforce_tier"
    BY <2>1, <2>2, CutIsTold
  <2>3. CASE me.req.cmd = "enforce_tier"
    <3>1. OwnersStand(i)'
      BY <2>1, <2>3, <1>2, <1>5, SameOwners DEF CutShort, Told, EnforceTold
    <3>2. EnforceTold(i)'
      BY <2>1, <3>1, <1>5, GivesUpIsTold DEF CutShort, GivesUp
    <3> QED BY <3>2, <2>3, <1>5, OwnWord DEF Told
  <2> QED BY <2>2, <2>3
<1>9. CASE you = Cancelled(me) /\ me.req.cmd = "purge" /\ Running(i)
  <2>1. me.pc \notin {"unmint", "done"} => me.result # "success"
    BY <1>9 DEF Told, ClearTold
  <2>2. Unproven(you)
    BY <2>1, <1>3, <1>9 DEF Cancelled, Ends, JobShape, Unproven, Running
  <2> QED BY <2>2, <1>5, <1>9, UnprovenIsTold
<1> QED BY <1>1, <1>4, <1>7, <1>8, <1>9

\* A request.
LEMMA BeginTells ==
    ASSUME KeysInv, NEW j \in Jobs, NEW me, Begin(j, me), me.new = 0, Told(j)', \A i \in Jobs : i \notin disturbed => Told(i)
    PROVE  \A i \in Jobs : i \notin disturbed' => Told(i)'
<1>1. /\ garage' = garage /\ unheard' = unheard /\ died' = died /\ disturbed' = disturbed
      /\ \A i \in Jobs \ {j} : job'[i] = job[i]
      /\ job[j].req.cmd = "none" /\ job[j].new = 0
  BY DEF Begin, historyVars, KeysInv, JobSound, Placed
<1>2. ASSUME NEW i \in Jobs \ {j}, i \notin disturbed PROVE Told(i)'
  <2>1. \A k \in Keys, m \in Jobs \ {i} : Deletes(job[m], k) => Deletes(job'[m], k)
    <3>1. \A k \in Keys : ~Deletes(job[j], k)
      BY <1>1 DEF Deletes, Reapers, Keys
    <3> QED BY <3>1, <1>1
  <2>2. Remembered(i)
    BY <2>1, <1>1 DEF Remembered
  <2>3. Alike(job[i], job'[i])
    BY <1>1 DEF Alike
  <2> QED BY <2>2, <2>3, <1>1, <1>2, Unmoved
<1> QED BY <1>1, <1>2

\* A job that starts has nothing to answer for yet,
LEMMA StartTells ==
    ASSUME KeysInv, NEW j \in Jobs, NEW r \in Requests, Start(j, r), \A i \in Jobs : i \notin disturbed => Told(i)
    PROVE  \A i \in Jobs : i \notin disturbed' => Told(i)'
<1> DEFINE me == [Unborn EXCEPT !.req = r, !.pc = FirstCall(r.cmd)]
<1>1. /\ me.req = r /\ me.new = 0 /\ me.result = "none" /\ me.snap = NoGrants /\ me.holders = NoHolders
      /\ me.pc = FirstCall(r.cmd)
  BY DEF Unborn
<1>2. /\ r.cmd = "converge_rotation" => me.pc = "old"
      /\ r.cmd = "attach_account_key" => me.pc = "grant"
      /\ r.cmd \in {"provision_additional_key", "rotate_key"} => me.pc = "mint"
      /\ r.cmd = "snapshot_and_reap" => me.pc = "snapshot"
      /\ r.cmd = "enforce_tier" => me.pc = "read"
      /\ me.pc \notin {"finalizing", "done"}
  <2>1. /\ FirstCall("converge_rotation") = "old" /\ FirstCall("attach_account_key") = "grant"
        /\ FirstCall("provision_additional_key") = "mint" /\ FirstCall("rotate_key") = "mint"
        /\ FirstCall("snapshot_and_reap") = "snapshot" /\ FirstCall("enforce_tier") = "read"
    BY DEF FirstCall
  <2>2. FirstCall(r.cmd) \notin {"finalizing", "done"}
    BY DEF FirstCall, Requests, SettingRequests, ProvisioningRequests, AccountKeyRequests, TransferRequests,
           ClearingRequests
  <2> HIDE DEF me
  <2> QED BY <1>1, <2>1, <2>2
<1>3. Begin(j, me) /\ job'[j] = me
  BY DEF Start, Begin, KeysInv
<1> HIDE DEF me
<1>4. ~Succeeds(me)
  BY <1>2 DEF Succeeds
<1>5. /\ AttachTold(j)' /\ DetachTold(j)' /\ GrantTold(j)' /\ ProvisionTold(j)' /\ ClearTold(j)' /\ CorsTold(j)'
  BY <1>1, <1>2, <1>3, <1>4 DEF AttachTold, DetachTold, GrantTold, ProvisionTold, ClearTold, CorsTold
<1>6. ReadsTold(j)' /\ ConvergeTold(j)' /\ ReapTold(j)'
  BY <1>1, <1>2, <1>3, <1>4 DEF ReadsTold, ConvergeTold, ReapTold
<1>7. EnforceTold(j)'
  <2>1. \A b \in Buckets : me.snap[b] = {}
    BY <1>1 DEF NoGrants
  <2>2. OwnersStand(j)'
    BY <2>1, <1>3 DEF OwnersStand
  <2> QED BY <2>2, <1>1, <1>2, <1>3, <1>4 DEF EnforceTold
<1>8. Told(j)'
  BY <1>5, <1>6, <1>7 DEF Told
<1> QED BY <1>1, <1>3, <1>8, BeginTells

\* and one that is given a snapshot is given it of a key that is gone.
LEMMA StartFromSnapshotTells ==
    ASSUME KeysInv, NEW j \in Jobs, NEW i \in Jobs, NEW to \in MadeKeys, StartFromSnapshot(j, i, to),
           \A m \in Jobs : m \notin disturbed => Told(m)
    PROVE  \A m \in Jobs : m \notin disturbed' => Told(m)'
<1> DEFINE me == [Unborn EXCEPT !.req = [cmd |-> "converge_rotation", key |-> job[i].req.key, to |-> to],
                                !.pc = "new", !.snap = job[i].snap]
           k == job[i].req.key
<1>1. me.new = 0 /\ me.pc = "new" /\ me.req.cmd = "converge_rotation" /\ me.req.key = k /\ me.result = "none"
  BY DEF Unborn
<1>2. Begin(j, me) /\ job'[j] = me /\ garage' = garage
  BY DEF StartFromSnapshot, Begin, KeysInv
<1>3. k \in Keys /\ k \notin garage.keys
  BY InBounds DEF StartFromSnapshot, KeysInv, JobSound, Asked, GoneSoon, OfKeys, Reapers
<1>4. \A b \in Buckets : garage.perms[b, k] = {}
  BY <1>3 DEF KeysInv, ClusterSound, GrantsSound
<1> HIDE DEF me
<1>5. ConvergeTold(j)'
  BY <1>1, <1>2, <1>4 DEF ConvergeTold
<1>6. /\ AttachTold(j)' /\ DetachTold(j)' /\ GrantTold(j)' /\ ProvisionTold(j)' /\ ClearTold(j)' /\ CorsTold(j)'
      /\ ReadsTold(j)' /\ ReapTold(j)' /\ EnforceTold(j)'
  BY <1>1, <1>2 DEF AttachTold, DetachTold, GrantTold, ProvisionTold, ClearTold, CorsTold, ReadsTold, ReapTold, EnforceTold
<1>7. Told(j)'
  BY <1>5, <1>6 DEF Told
<1> QED BY <1>1, <1>2, <1>7, BeginTells

\* The customers, who disturb every job there is.
LEMMA CustomersTell ==
    ASSUME KeysInv, \/ \E k \in Keys : CustomerCreates(k)
                    \/ \E b \in Buckets, k \in Keys : CustomerPuts(b, k),
           NEW i \in Jobs, i \notin disturbed', i \notin disturbed => Told(i)
    PROVE  Told(i)'
<1>1. /\ job' = job /\ unheard' = unheard /\ died' = died
      /\ disturbed' = DisturbedBy(0, garage')
  BY DEF CustomerCreates, CustomerPuts, ByCustomer
<1>2. i # 0
  BY DEF Jobs
<1>3. i \notin disturbed /\ (garage' = garage \/ job[i].pc = "unborn")
  BY <1>1, <1>2 DEF DisturbedBy
<1>4. CASE job[i].pc = "unborn"
  BY <1>1, <1>4, NothingToTell DEF KeysInv, JobSound, Placed
<1>5. CASE garage' = garage
  BY <1>1, <1>3, <1>5, StillCluster, Unmoved DEF Alike
<1> QED BY <1>3, <1>4, <1>5

\* The invariant of the results holds at the start;
LEMMA ResultsInitially == Init => ResultsInv
<1> SUFFICES ASSUME Init PROVE ResultsInv
  OBVIOUS
<1>1. \A j \in Jobs : job[j].req.cmd = "none"
  BY DEF Init, Unborn
<1>2. ASSUME NEW j \in Jobs PROVE Told(j)
  <2>1. job[j].req.cmd = "none"
    BY <1>1
  <2>2. AttachTold(j) /\ DetachTold(j) /\ GrantTold(j) /\ ProvisionTold(j) /\ ClearTold(j)
    BY <2>1 DEF AttachTold, DetachTold, GrantTold, ProvisionTold, ClearTold
  <2>3. CorsTold(j) /\ ReadsTold(j) /\ ConvergeTold(j) /\ ReapTold(j) /\ EnforceTold(j)
    BY <2>1 DEF CorsTold, ReadsTold, ConvergeTold, ReapTold, EnforceTold
  <2> QED BY <2>2, <2>3 DEF Told
<1> QED BY <1>2, KeysInitially DEF ResultsInv

\* every step keeps it;
LEMMA ResultsStep == ResultsInv /\ [Next]_vars => ResultsInv'
<1> SUFFICES ASSUME ResultsInv, [Next]_vars PROVE \A i \in Jobs : i \notin disturbed' => Told(i)'
  BY KeysStep DEF ResultsInv
<1>0. KeysInv /\ \A i \in Jobs : i \notin disturbed => Told(i)
  BY DEF ResultsInv
<1>a. ASSUME NEW j \in Jobs, Keeps(j), Told(j) => Told(j)'
      PROVE  \A i \in Jobs : i \notin disturbed' => Told(i)'
  <2>1. disturbed \subseteq disturbed'
    BY <1>a DEF Keeps, DisturbedBy
  <2> QED BY <2>1, <1>0, <1>a, OthersTell
<1>1. ASSUME NEW j \in Jobs, Handle(j) PROVE \A i \in Jobs : i \notin disturbed' => Told(i)'
  BY <1>0, <1>1, <1>a, HandlersKeep, HandlerTells
<1>2. ASSUME NEW j \in Jobs, ClearTimesOut(j) PROVE \A i \in Jobs : i \notin disturbed' => Told(i)'
  <2>1. Told(j) => ClearTold(j)
    BY DEF Told
  <2> QED BY <2>1, <1>0, <1>2, <1>a, TimeOutKeeps, TimeOutTells
<1>3. ASSUME NEW j \in Jobs, NEW r \in Requests, Start(j, r) PROVE \A i \in Jobs : i \notin disturbed' => Told(i)'
  BY <1>0, <1>3, StartTells
<1>4. ASSUME NEW i \in Jobs, NEW j \in Jobs, NEW to \in MadeKeys, StartFromSnapshot(j, i, to)
      PROVE  \A m \in Jobs : m \notin disturbed' => Told(m)'
  BY <1>0, <1>4, StartFromSnapshotTells
<1>5. CASE StopAll
  <2>1. disturbed' = disturbed
    BY <1>5 DEF StopAll, historyVars
  <2> QED BY <2>1, <1>0, <1>5, StopTells
<1>6. CASE \/ \E k \in Keys : CustomerCreates(k)
           \/ \E b \in Buckets, k \in Keys : CustomerPuts(b, k)
  BY <1>0, <1>6, CustomersTell
<1>7. CASE UNCHANGED vars
  <2>1. garage' = garage /\ job' = job /\ unheard' = unheard /\ died' = died /\ disturbed' = disturbed
    BY <1>7 DEF vars, historyVars
  <2> QED BY <2>1, <1>0, StillCluster, Unmoved DEF Alike
<1> QED BY <1>1, <1>2, <1>3, <1>4, <1>5, <1>6, <1>7 DEF Next

\* it says that no bucket is stranded
LEMMA InvStrandsNone == ResultsInv => NeverStrands
<1> SUFFICES ASSUME ResultsInv, NEW j \in Jobs \ disturbed, job[j].req.cmd = "enforce_tier"
             PROVE  /\ \A b \in garage.buckets :
                          "owner" \in job[j].snap[b] => \E k \in garage.keys : "owner" \in garage.perms[b, k]
                    /\ job[j].result = "would_strand" => Grants(job[j].req.key) = job[j].snap
  BY DEF NeverStrands
<1>1. EnforceTold(j) /\ ClusterSound(garage) /\ job[j].req.key \in Keys /\ garage.buckets \subseteq Buckets
  BY InBounds DEF ResultsInv, Told, KeysInv, JobSound, Asked, OfKeys, ClusterSound
<1>2. ASSUME NEW b \in garage.buckets, "owner" \in job[j].snap[b]
      PROVE  \E k \in garage.keys : "owner" \in garage.perms[b, k]
  <2>1. \E k \in Keys : "owner" \in garage.perms[b, k]
    BY <1>1, <1>2 DEF EnforceTold, OwnersStand, OtherOwner
  <2> QED BY <2>1, <1>1 DEF ClusterSound, GrantsSound
<1>3. job[j].result = "would_strand" => Grants(job[j].req.key) = job[j].snap
  BY <1>1 DEF EnforceTold
<1> QED BY <1>2, <1>3

\* and that what is reported is so.
LEMMA InvTellsTrue == ResultsInv => ReportsTrue
<1> SUFFICES ASSUME ResultsInv PROVE ReportsTrue
  OBVIOUS
<1>1. DoneAsReported
  <2> SUFFICES ASSUME NEW j \in Jobs \ disturbed PROVE
        LET r == job[j].req new == job[j].new
        IN  /\ Succeeded(j, "attach_account_key") => garage.perms[r.bucket, r.key] = r.tier
            /\ Succeeded(j, "detach_account_key") => garage.perms[r.bucket, r.key] = {}
            /\ \A cmd \in {"provision_additional_key", "rotate_key"} :
                  Succeeded(j, cmd) =>
                      garage.perms[r.bucket, new] = r.tier /\ <<r.bucket, new>> \in garage.names
            /\ Succeeded(j, "provision_bucket") => \E b \in garage.buckets : Reaches(b, new, "owner")
            /\ Succeeded(j, "enforce_tier") =>
                  \A b \in Buckets : garage.perms[b, r.key] \subseteq r.tier \cup {"read"}
            /\ (Succeeded(j, "clear_bucket") \/ Succeeded(j, "purge")) => garage.objects[r.bucket] = 0
            /\ Succeeded(j, "set_cors") => garage.cors[r.bucket] = r.rules
            /\ Ended(j, "set_cors", {"stale"}) => garage.cors[r.bucket] # r.expected
            /\ (Ended(j, "set_cors", {"success", "stale"}) \/ Succeeded(j, "get_cors")) =>
                  job[j].rules = {garage.cors[r.bucket]}
            /\ Succeeded(j, "get_key_buckets") => job[j].snap = Grants(r.key)
            /\ Succeeded(j, "get_bucket_owners") => \A k \in Keys : job[j].holders[k] = garage.perms[r.bucket, k]
            /\ Succeeded(j, "set_capability") => (r.key \in garage.creators) = r.enable
    BY DEF DoneAsReported
  <2>1. Told(j)
    BY DEF ResultsInv
  <2>2. \A cmd : Succeeded(j, cmd) => job[j].req.cmd = cmd /\ Succeeds(job[j])
    BY DEF Succeeded, Ended, Succeeds
  <2>3. /\ Ended(j, "set_cors", {"stale"}) => job[j].req.cmd = "set_cors" /\ job[j].pc = "done" /\ job[j].result = "stale"
        /\ Ended(j, "set_cors", {"success", "stale"}) => Succeeded(j, "set_cors") \/ Ended(j, "set_cors", {"stale"})
    BY DEF Ended, Succeeded
  <2>4. /\ Succeeded(j, "attach_account_key") => garage.perms[job[j].req.bucket, job[j].req.key] = job[j].req.tier
        /\ Succeeded(j, "detach_account_key") => garage.perms[job[j].req.bucket, job[j].req.key] = {}
        /\ \A cmd \in {"provision_additional_key", "rotate_key"} :
              Succeeded(j, cmd) =>
                  /\ garage.perms[job[j].req.bucket, job[j].new] = job[j].req.tier
                  /\ <<job[j].req.bucket, job[j].new>> \in garage.names
        /\ Succeeded(j, "provision_bucket") => \E b \in garage.buckets : Reaches(b, job[j].new, "owner")
    BY <2>1, <2>2 DEF Told, AttachTold, DetachTold, GrantTold, ProvisionTold
  <2>5. /\ Succeeded(j, "enforce_tier") =>
              \A b \in Buckets : garage.perms[b, job[j].req.key] \subseteq job[j].req.tier \cup {"read"}
        /\ (Succeeded(j, "clear_bucket") \/ Succeeded(j, "purge")) => garage.objects[job[j].req.bucket] = 0
    BY <2>1, <2>2 DEF Told, EnforceTold, ClearTold
  <2>6. /\ Succeeded(j, "set_cors") => garage.cors[job[j].req.bucket] = job[j].req.rules
        /\ Ended(j, "set_cors", {"stale"}) => garage.cors[job[j].req.bucket] # job[j].req.expected
        /\ (Ended(j, "set_cors", {"success", "stale"}) \/ Succeeded(j, "get_cors")) =>
              job[j].rules = {garage.cors[job[j].req.bucket]}
    BY <2>1, <2>2, <2>3 DEF Told, CorsTold
  <2>7. /\ Succeeded(j, "get_key_buckets") => job[j].snap = Grants(job[j].req.key)
        /\ Succeeded(j, "get_bucket_owners") => \A k \in Keys : job[j].holders[k] = garage.perms[job[j].req.bucket, k]
        /\ Succeeded(j, "set_capability") => (job[j].req.key \in garage.creators) = job[j].req.enable
    BY <2>1, <2>2 DEF Told, ReadsTold
  <2> QED BY <2>4, <2>5, <2>6, <2>7
<1>2. ConvergedCovers
  BY DEF ResultsInv, Told, ConvergeTold, ConvergedCovers, Ended
<1>3. ListKept
  <2> SUFFICES ASSUME NEW j \in Jobs \ disturbed, Succeeded(j, "snapshot_and_reap")
               PROVE  \/ died[job[j].req.key] = job[j].snap \/ job[j].req.key \in unheard
                      \/ OtherDeletes(j, job[j].req.key)
    BY DEF ListKept
  <2>1. ReapTold(j) /\ job[j].req.cmd = "snapshot_and_reap" /\ Succeeds(job[j])
    BY DEF ResultsInv, Told, Succeeded, Ended, Succeeds
  <2> QED BY <2>1 DEF ReapTold, OtherDeletes, Deletes, Reapers
<1> QED BY <1>1, <1>2, <1>3 DEF ReportsTrue

\* While nobody else changes Garage, the enforcement of a tier never takes away the last
\* owner of a bucket, whatever calls fail or are cut short, and one that refuses has
\* changed nothing (run_enforce_account_key_tier in garage/jobs).
THEOREM NothingIsStranded == Spec => []NeverStrands
<1>1. Init => ResultsInv
  BY ResultsInitially
<1>2. ResultsInv /\ [Next]_vars => ResultsInv'
  BY ResultsStep
<1>3. ResultsInv => NeverStrands
  BY InvStrandsNone
<1> QED BY <1>1, <1>2, <1>3, PTL DEF Spec

\* While nobody else changes Garage, a job that reports success has brought about what was
\* asked, a converged rotation covers what the old key had, and a reap carries every
\* grant the key had when it died (the results of garage/jobs).
THEOREM ReportsAreTrue == Spec => []ReportsTrue
<1>1. Init => ResultsInv
  BY ResultsInitially
<1>2. ResultsInv /\ [Next]_vars => ResultsInv'
  BY ResultsStep
<1>3. ResultsInv => ReportsTrue
  BY InvTellsTrue
<1> QED BY <1>1, <1>2, <1>3, PTL DEF Spec
=============================================================================
