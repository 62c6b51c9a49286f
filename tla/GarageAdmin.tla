---------------------------- MODULE GarageAdmin ----------------------------
(***************************************************************************)
(* Garage as the agent's jobs reach it: the calls of garage/admin_api.py   *)
(* and the two S3 calls of a clear.  A call is the set of its outcomes,    *)
(* each an answer and the state Garage is left in.  _request gives up      *)
(* after 15 seconds and loses answers, so a call answered with an error    *)
(* may have been applied or not; it is answered "absent" (a 404) only when *)
(* what it names is not there.                                             *)
(*                                                                         *)
(* A bucket-scoped call first resolves the bucket's prefix and then posts; *)
(* an id is never used again, so only the post can be told from the two.   *)
(***************************************************************************)
EXTENDS Naturals, FiniteSets

CONSTANTS
    MaxKeys,     \* bound: keys ever made
    MaxBuckets,  \* bound: buckets ever made
    MaxObjects,  \* bound: objects of a bucket
    Rules        \* the CORS configurations a bucket may have

Keys == 1 .. MaxKeys
Buckets == 1 .. MaxBuckets
Perms == {"read", "write", "owner"}

ASSUME GarageAssumption ==
    /\ {MaxKeys, MaxBuckets, MaxObjects} \subseteq Nat
    /\ Rules # {}

\* keys, buckets: what exists; minted, created: ids given out so far; perms: the
\* permissions of a key on a bucket; names: the local aliases; creators: keys that
\* may create buckets over S3; objects, cors, quota: of each bucket.
VARIABLE garage

GarageType ==
    garage \in [keys : SUBSET Keys, minted : 0 .. MaxKeys,
                buckets : SUBSET Buckets, created : 0 .. MaxBuckets,
                perms : [Buckets \X Keys -> SUBSET Perms],
                names : SUBSET (Buckets \X Keys), creators : SUBSET Keys,
                objects : [Buckets -> 0 .. MaxObjects],
                cors : [Buckets -> Rules], quota : [Buckets -> BOOLEAN]]

Unchanged(answer) == [answer |-> answer, garage |-> garage]

\* What a write that can be carried out, leaving g, may come back with.
Applied(g) == {[answer |-> "ok", garage |-> g], [answer |-> "error", garage |-> g], Unchanged("error")}

Absent == {Unchanged("absent"), Unchanged("error")}

Read(there) == {Unchanged(IF there THEN "ok" ELSE "absent"), Unchanged("error")}

----------------------------------------------------------------------------
(* The admin API.                                                          *)

NextKey == garage.minted + 1

\* The new key's id may be missing from an answer that is otherwise good.
CreateKey(mayCreate) ==
    LET g == [garage EXCEPT !.keys = @ \cup {NextKey}, !.minted = NextKey,
                            !.creators = IF mayCreate THEN @ \cup {NextKey} ELSE @]
    IN  Applied(g) \cup {[answer |-> "unnamed", garage |-> g]}

DeleteKey(k) ==
    IF k \in garage.keys
    THEN Applied([garage EXCEPT !.keys = @ \ {k}, !.creators = @ \ {k},
                                !.perms = [bk \in DOMAIN @ |-> IF bk[2] = k THEN {} ELSE @[bk]],
                                !.names = {bk \in @ : bk[2] # k}])
    ELSE Absent

UpdateKey(k, enable) ==
    IF k \in garage.keys
    THEN Applied([garage EXCEPT !.creators = IF enable THEN @ \cup {k} ELSE @ \ {k}])
    ELSE Absent

NextBucket == garage.created + 1

\* Creation, the owner's alias and its permissions are one transaction.
CreatedFor(k) ==
    [garage EXCEPT !.buckets = @ \cup {NextBucket}, !.created = NextBucket,
                   !.perms[<<NextBucket, k>>] = Perms, !.names = @ \cup {<<NextBucket, k>>}]

CreateBucket(k) == IF k \in garage.keys THEN Applied(CreatedFor(k)) ELSE Absent

\* Garage refuses to delete a bucket that holds objects.
DeleteBucket(b) ==
    IF b \notin garage.buckets THEN Absent
    ELSE IF garage.objects[b] > 0 THEN {Unchanged("error")}
    ELSE Applied([garage EXCEPT !.buckets = @ \ {b},
                                !.perms = [bk \in DOMAIN @ |-> IF bk[1] = b THEN {} ELSE @[bk]],
                                !.names = {bk \in @ : bk[1] # b}])

Both(b, k) == b \in garage.buckets /\ k \in garage.keys

BucketKeyPermChange(b, k, P) ==
    IF Both(b, k) THEN Applied([garage EXCEPT !.perms[<<b, k>>] = P]) ELSE Absent
AllowBucketKey(b, k, P) == BucketKeyPermChange(b, k, garage.perms[b, k] \cup P)
DenyBucketKey(b, k, P) == BucketKeyPermChange(b, k, garage.perms[b, k] \ P)

BucketAliasLocalChange(b, k, names) ==
    IF Both(b, k) THEN Applied([garage EXCEPT !.names = names]) ELSE Absent
AddBucketAlias(b, k) == BucketAliasLocalChange(b, k, garage.names \cup {<<b, k>>})
RemoveBucketAlias(b, k) == BucketAliasLocalChange(b, k, garage.names \ {<<b, k>>})

\* One UpdateBucket call, which leaves g.
UpdateBucket(b, g) == IF b \in garage.buckets THEN Applied(g) ELSE Absent
UpdateBucketCors(b, rules) == UpdateBucket(b, [garage EXCEPT !.cors[b] = rules])
UpdateBucketQuota(b) == UpdateBucket(b, [garage EXCEPT !.quota[b] = TRUE])

GetKeyInfo(k) == Read(k \in garage.keys)

GetBucketInfo(b) == Read(b \in garage.buckets)

----------------------------------------------------------------------------
(* S3, with one key's credentials: buckets go by the key's own alias.      *)

Reaches(b, k, p) == Both(b, k) /\ <<b, k>> \in garage.names /\ p \in garage.perms[b, k]

ListObjects(b, k) ==
    {Unchanged("error"),
     Unchanged(IF ~Reaches(b, k, "read") THEN "auth" ELSE IF garage.objects[b] = 0 THEN "empty" ELSE "page")}

\* "progress": some object is confirmed deleted; "nothing": none is, though a batch
\* whose answer was lost may have been deleted.
DeleteObjects(b, k) ==
    LET Left(n) == [garage EXCEPT !.objects[b] = n]
        below == IF Reaches(b, k, "write") /\ garage.objects[b] > 0 THEN 0 .. garage.objects[b] - 1 ELSE {}
    IN  {[answer |-> a, garage |-> Left(n)] : a \in {"progress", "nothing"}, n \in below}
            \cup {Unchanged("nothing")}
=============================================================================
