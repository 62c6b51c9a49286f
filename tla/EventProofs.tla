---------------------------- MODULE EventProofs ----------------------------
(***************************************************************************)
(* Proofs about the two ends of the event path, for every value of the     *)
(* constants: the buffer (EventBuffer), and the spool that feeds it        *)
(* (SpoolFeeder), the latter where one thread runs the ticks.              *)
(***************************************************************************)
EXTENDS EventBuffer, SpoolFeeder, SequenceTheorems, FiniteSetTheorems, WellFoundedInduction, TLAPS

(***************************************************************************)
(* The buffer.                                                             *)
(***************************************************************************)
Injective(q) == \A i, j \in DOMAIN q : q[i] = q[j] => i = j

----------------------------------------------------------------------------
(* Sequences: what the bound keeps and drops.                              *)

\* The elements of a sequence over S are in S.
LEMMA SeqsInSet ==
    ASSUME NEW S, NEW q \in Seq(S)
    PROVE  SeqsOf(q) \subseteq S /\ Len(q) \in Nat /\ DOMAIN q = 1 .. Len(q)
<1>1. \A i \in 1 .. Len(q) : q[i] \in S
  BY ElementOfSeq
<1> QED BY <1>1, LenProperties DEF SeqsOf

\* Cutting a sequence in two loses nothing and repeats nothing.
LEMMA SplitSeq ==
    ASSUME NEW S, NEW q \in Seq(S), NEW k \in 0 .. Len(q)
    PROVE  LET front == SubSeq(q, 1, k)
               back == SubSeq(q, k + 1, Len(q))
           IN  /\ front \in Seq(S) /\ Len(front) = k /\ \A i \in 1 .. k : front[i] = q[i]
               /\ back \in Seq(S) /\ Len(back) = Len(q) - k
               /\ SeqsOf(front) \cup SeqsOf(back) = SeqsOf(q)
               /\ Injective(q) => /\ Injective(front) /\ Injective(back)
                                  /\ SeqsOf(front) \cap SeqsOf(back) = {}
<1> DEFINE front == SubSeq(q, 1, k)
           back == SubSeq(q, k + 1, Len(q))
           m == Len(q) - k
<1>1. /\ DOMAIN q = 1 .. Len(q) /\ Len(q) \in Nat /\ \A i \in DOMAIN q : q[i] \in S
      /\ k \in Nat /\ m \in Nat /\ Len(q) = k + m
  BY LenProperties, ElementOfSeq
<1> HIDE DEF m
<1>2. /\ front \in Seq(S) /\ Len(front) = k
      /\ \A i \in 1 .. k : front[i] = q[i] /\ i \in DOMAIN q
  BY <1>1, SubSeqProperties
<1>3. /\ back \in Seq(S) /\ Len(back) = m
      /\ \A i \in 1 .. m : back[i] = q[k + i] /\ k + i \in DOMAIN q
  <2>1. /\ back \in Seq(S)
        /\ Len(back) = IF k + 1 =< Len(q) THEN Len(q) - (k + 1) + 1 ELSE 0
        /\ \A i \in 1 .. Len(q) - (k + 1) + 1 : back[i] = q[(k + 1) + i - 1]
    BY <1>1, SubSeqProperties
  <2>2. /\ Len(q) - (k + 1) + 1 = m
        /\ \A i \in 1 .. m : (k + 1) + i - 1 = k + i /\ k + i \in DOMAIN q
    BY <1>1
  <2> HIDE DEF back
  <2>3. Len(back) = m
    BY <2>1, <2>2, <1>1
  <2> QED BY <2>1, <2>2, <2>3
<1>4. DOMAIN front = 1 .. k /\ DOMAIN back = 1 .. m
  BY <1>2, <1>3, LenProperties
<1> HIDE DEF front, back
<1>5. SeqsOf(front) \cup SeqsOf(back) = SeqsOf(q)
  <2>1. ASSUME NEW i \in DOMAIN q PROVE q[i] \in SeqsOf(front) \cup SeqsOf(back)
    <3>1. CASE i =< k
      BY <3>1, <1>1, <1>2, <1>4 DEF SeqsOf
    <3>2. CASE i > k
      <4>1. i - k \in 1 .. m /\ k + (i - k) = i
        BY <3>2, <1>1
      <4> QED BY <4>1, <1>3, <1>4 DEF SeqsOf
    <3> QED BY <3>1, <3>2, <1>1
  <2> QED BY <2>1, <1>2, <1>3, <1>4 DEF SeqsOf
<1>6. ASSUME Injective(q)
      PROVE  Injective(front) /\ Injective(back) /\ SeqsOf(front) \cap SeqsOf(back) = {}
  <2>1. Injective(front)
    BY <1>6, <1>2, <1>4 DEF Injective
  <2>2. Injective(back)
    <3> SUFFICES ASSUME NEW i \in 1 .. m, NEW j \in 1 .. m, back[i] = back[j] PROVE i = j
      BY <1>4 DEF Injective
    <3>1. k + i = k + j
      BY <1>6, <1>3 DEF Injective
    <3> QED BY <3>1, <1>1
  <2>3. SeqsOf(front) \cap SeqsOf(back) = {}
    <3> SUFFICES ASSUME NEW x \in SeqsOf(front), x \in SeqsOf(back) PROVE FALSE
      OBVIOUS
    <3>1. PICK i \in 1 .. k : x = q[i] /\ i \in DOMAIN q
      BY <1>2, <1>4 DEF SeqsOf
    <3>2. PICK j \in 1 .. m : x = q[k + j] /\ k + j \in DOMAIN q
      BY <1>3, <1>4 DEF SeqsOf
    <3>3. i = k + j
      BY <3>1, <3>2, <1>6 DEF Injective
    <3> QED BY <3>3, <1>1
  <2> QED BY <2>1, <2>2, <2>3
<1>7. m = Len(q) - k
  BY DEF m
<1> QED BY <1>2, <1>3, <1>5, <1>6, <1>7 DEF front, back

\* Newest and Overflow split a sequence: nothing is lost between them, nothing
\* is in both, and what is kept obeys the bound.
LEMMA BoundSplits ==
    ASSUME NEW S, NEW q \in Seq(S), MaxEvents \in Nat \ {0}
    PROVE  /\ Newest(q) \in Seq(S)
           /\ Overflow(q) \in Seq(S)
           /\ Len(Newest(q)) =< MaxEvents
           /\ SeqsOf(Newest(q)) \cup SeqsOf(Overflow(q)) = SeqsOf(q)
           /\ Injective(q) => /\ Injective(Newest(q))
                              /\ SeqsOf(Newest(q)) \cap SeqsOf(Overflow(q)) = {}
<1>1. CASE Len(q) > MaxEvents
  <2> DEFINE k == Len(q) - MaxEvents
  <2>1. k \in 0 .. Len(q) /\ Len(q) - k = MaxEvents
    BY <1>1, LenProperties
  <2>2. Newest(q) = SubSeq(q, k + 1, Len(q)) /\ Overflow(q) = SubSeq(q, 1, k)
    BY <1>1 DEF Newest, Overflow
  <2> HIDE DEF k
  <2>3. /\ Newest(q) \in Seq(S) /\ Overflow(q) \in Seq(S)
        /\ SeqsOf(Overflow(q)) \cup SeqsOf(Newest(q)) = SeqsOf(q)
    BY <2>1, <2>2, SplitSeq
  <2>4. Injective(q) => /\ Injective(Newest(q))
                        /\ SeqsOf(Newest(q)) \cap SeqsOf(Overflow(q)) = {}
    BY <2>1, <2>2, SplitSeq
  <2>5. Len(Newest(q)) = Len(q) - k
    BY <2>1, <2>2, SplitSeq
  <2>6. Len(Newest(q)) =< MaxEvents
    BY <2>1, <2>5
  <2> QED BY <2>3, <2>4, <2>6
<1>2. CASE ~(Len(q) > MaxEvents)
  <2>1. Newest(q) = q /\ Overflow(q) = <<>> /\ Len(q) \in Nat
    BY <1>2, LenProperties DEF Newest, Overflow
  <2>2. SeqsOf(<<>>) = {}
    BY EmptySeq DEF SeqsOf
  <2> QED BY <2>1, <2>2, <1>2, EmptySeq
<1> QED BY <1>1, <1>2

\* Concatenating two sequences without a common element.
LEMMA ConcatSeqs ==
    ASSUME NEW S, NEW p \in Seq(S), NEW q \in Seq(S)
    PROVE  /\ p \o q \in Seq(S)
           /\ SeqsOf(p \o q) = SeqsOf(p) \cup SeqsOf(q)
           /\ Injective(p) /\ Injective(q) /\ SeqsOf(p) \cap SeqsOf(q) = {} => Injective(p \o q)
<1> DEFINE pq == p \o q
<1>1. /\ pq \in Seq(S) /\ Len(pq) = Len(p) + Len(q)
      /\ \A i \in 1 .. Len(p) : pq[i] = p[i]
      /\ \A i \in 1 .. Len(q) : pq[Len(p) + i] = q[i]
  BY ConcatProperties
<1>2. /\ DOMAIN p = 1 .. Len(p) /\ DOMAIN q = 1 .. Len(q) /\ DOMAIN pq = 1 .. (Len(p) + Len(q))
      /\ Len(p) \in Nat /\ Len(q) \in Nat
  BY <1>1, LenProperties
<1>3. \A i \in DOMAIN pq : \/ i \in DOMAIN p /\ pq[i] = p[i]
                           \/ i > Len(p) /\ i - Len(p) \in DOMAIN q /\ pq[i] = q[i - Len(p)]
  <2> SUFFICES ASSUME NEW i \in DOMAIN pq, i > Len(p)
               PROVE  i - Len(p) \in DOMAIN q /\ pq[i] = q[i - Len(p)]
    BY <1>1, <1>2
  <2>1. i - Len(p) \in 1 .. Len(q) /\ Len(p) + (i - Len(p)) = i
    BY <1>2
  <2> QED BY <2>1, <1>1, <1>2
<1>4. SeqsOf(pq) = SeqsOf(p) \cup SeqsOf(q)
  <2>1. SeqsOf(pq) \subseteq SeqsOf(p) \cup SeqsOf(q)
    BY <1>3 DEF SeqsOf
  <2>2. SeqsOf(p) \subseteq SeqsOf(pq)
    BY <1>1, <1>2 DEF SeqsOf
  <2>3. SeqsOf(q) \subseteq SeqsOf(pq)
    <3>1. \A i \in DOMAIN q : Len(p) + i \in DOMAIN pq /\ pq[Len(p) + i] = q[i]
      BY <1>1, <1>2
    <3> QED BY <3>1 DEF SeqsOf
  <2> QED BY <2>1, <2>2, <2>3
<1>5. ASSUME Injective(p), Injective(q), SeqsOf(p) \cap SeqsOf(q) = {}
      PROVE  Injective(pq)
  <2> SUFFICES ASSUME NEW i \in DOMAIN pq, NEW j \in DOMAIN pq, pq[i] = pq[j] PROVE i = j
    BY DEF Injective
  <2>1. CASE i \in DOMAIN p /\ j \in DOMAIN p
    BY <2>1, <1>1, <1>2, <1>5 DEF Injective
  <2>2. CASE i > Len(p) /\ j > Len(p)
    <3>1. /\ i - Len(p) \in DOMAIN q /\ pq[i] = q[i - Len(p)]
          /\ j - Len(p) \in DOMAIN q /\ pq[j] = q[j - Len(p)]
      BY <2>2, <1>3, <1>2
    <3>2. i - Len(p) = j - Len(p)
      BY <3>1, <1>5 DEF Injective
    <3> QED BY <3>2, <1>2
  <2>3. ASSUME NEW a \in DOMAIN p, NEW b \in DOMAIN q PROVE p[a] # q[b]
    BY <1>5 DEF SeqsOf
  <2> QED BY <2>1, <2>2, <2>3, <1>3, <1>1, <1>2
<1> QED BY <1>1, <1>4, <1>5

----------------------------------------------------------------------------
(* Batches in flight.                                                      *)

Entries == [batch : Nat, seq : 1 .. MaxSeq]

\* Each batch is one contiguous stretch of flight, in the order of the ids: for
\* every id there is a point before which the smaller ids are, and only they.
Contiguous(q) ==
    \A b \in Nat : \E n \in 0 .. Len(q) : \A i \in DOMAIN q : i =< n <=> q[i].batch < b

SeqInjective(q) == \A i, j \in DOMAIN q : q[i].seq = q[j].seq => i = j

EntrySeqs(q) == {q[i].seq : i \in DOMAIN q}

EntrySeqsOf(q, b) == {q[i].seq : i \in {j \in DOMAIN q : q[j].batch = b}}

Ids(q) == {q[i].batch : i \in DOMAIN q}

\* Removing a batch keeps exactly the other entries, once each and in order.
LEMMA WithoutKeepsOthers ==
    ASSUME NEW q \in Seq(Entries), NEW b \in Nat, Contiguous(q)
    PROVE  /\ Without(q, b) \in Seq(Entries)
           /\ Contiguous(Without(q, b))
           /\ \A i \in DOMAIN Without(q, b) :
                  \E j \in DOMAIN q : Without(q, b)[i] = q[j] /\ q[j].batch # b
           /\ \A j \in DOMAIN q : q[j].batch # b =>
                  \E i \in DOMAIN Without(q, b) : Without(q, b)[i] = q[j]
           /\ SeqInjective(q) => SeqInjective(Without(q, b))
           /\ Ids(Without(q, b)) = Ids(q) \ {b}
           /\ SeqInjective(q) => EntrySeqs(Without(q, b)) = EntrySeqs(q) \ EntrySeqsOf(q, b)
           /\ \A i, k \in DOMAIN Without(q, b) : i < k =>
                  \E j, l \in DOMAIN q : j < l /\ Without(q, b)[i] = q[j] /\ Without(q, b)[k] = q[l]
<1> DEFINE w == Without(q, b)
           c == Cut(q, b)
           d == Cut(q, b + 1)
<1>1. c \in 0 .. Len(q) /\ \A i \in DOMAIN q : i =< c <=> q[i].batch < b
  <2>1. \E n \in 0 .. Len(q) : \A i \in DOMAIN q : i =< n <=> q[i].batch < b
    BY DEF Contiguous
  <2> QED BY <2>1 DEF Cut
<1>2. d \in 0 .. Len(q) /\ \A i \in DOMAIN q : i =< d <=> q[i].batch < b + 1
  <2>0. b + 1 \in Nat
    OBVIOUS
  <2>1. \E n \in 0 .. Len(q) : \A i \in DOMAIN q : i =< n <=> q[i].batch < b + 1
    BY <2>0 DEF Contiguous
  <2> QED BY <2>1 DEF Cut
<1>3. DOMAIN q = 1 .. Len(q) /\ Len(q) \in Nat /\ \A i \in DOMAIN q : q[i] \in Entries
  BY LenProperties, ElementOfSeq
<1>4. c =< d
  <2> SUFFICES ASSUME c > d PROVE FALSE
    BY <1>1, <1>2
  <2>1. c \in DOMAIN q
    BY <1>1, <1>2, <1>3
  <2>2. q[c].batch < b /\ ~(q[c].batch < b + 1) /\ q[c].batch \in Nat
    BY <2>1, <1>1, <1>2, <1>3 DEF Entries
  <2> QED BY <2>2
<1> HIDE DEF c, d
<1>5. \A i \in DOMAIN q : q[i].batch # b <=> (i =< c \/ i > d)
  BY <1>1, <1>2, <1>3 DEF Entries
<1> DEFINE m == Len(q) - d
           front == SubSeq(q, 1, c)
           back == SubSeq(q, d + 1, Len(q))
<1>0. m \in Nat /\ c \in Nat /\ d \in Nat /\ Len(q) = m + d
  BY <1>1, <1>2, <1>3
<1> HIDE DEF m
<1>6. front \in Seq(Entries) /\ Len(front) = c /\ \A i \in 1 .. c : front[i] = q[i]
  BY <1>1, <1>3, SubSeqProperties
<1>7. back \in Seq(Entries) /\ Len(back) = m /\ \A i \in 1 .. m : back[i] = q[d + i]
  <2>1. /\ back \in Seq(Entries)
        /\ Len(back) = IF d + 1 =< Len(q) THEN Len(q) - (d + 1) + 1 ELSE 0
        /\ \A i \in 1 .. Len(q) - (d + 1) + 1 : back[i] = q[(d + 1) + i - 1]
    BY <1>2, <1>3, SubSeqProperties
  <2>2. Len(q) - (d + 1) + 1 = m /\ \A i \in 1 .. m : (d + 1) + i - 1 = d + i
    BY <1>0
  <2> HIDE DEF back
  <2>3. Len(back) = m
    BY <2>1, <2>2, <1>0
  <2>4. \A i \in 1 .. m : back[i] = q[d + i]
    BY <2>1, <2>2
  <2> QED BY <2>1, <2>3, <2>4
<1>8. w = front \o back
  BY DEF Without, c, d
<1>9. w \in Seq(Entries) /\ Len(w) = c + m /\ DOMAIN w = 1 .. (c + m) /\ m \in Nat
  <2>2. w \in Seq(Entries) /\ Len(w) = Len(front) + Len(back)
    BY <1>6, <1>7, <1>8, ConcatProperties
  <2>3. DOMAIN w = 1 .. Len(w)
    BY <2>2, LenProperties
  <2> QED BY <1>0, <2>2, <2>3, <1>6, <1>7
<1>10. /\ \A i \in 1 .. c : i \in DOMAIN q /\ w[i] = q[i]
       /\ \A i \in 1 .. m : d + i \in DOMAIN q /\ w[c + i] = q[d + i]
  <2>1. \A i \in 1 .. c : w[i] = front[i]
    BY <1>6, <1>7, <1>8, ConcatProperties
  <2>0. \A i \in 1 .. Len(front) + Len(back) :
            w[i] = IF i =< Len(front) THEN front[i] ELSE back[i - Len(front)]
    BY <1>6, <1>7, <1>8, ConcatProperties
  <2>2. \A i \in 1 .. m : w[c + i] = back[i]
    <3> SUFFICES ASSUME NEW i \in 1 .. m PROVE w[c + i] = back[i]
      OBVIOUS
    <3> HIDE DEF w, front, back
    <3>1. c + i \in 1 .. Len(front) + Len(back) /\ ~(c + i =< Len(front)) /\ (c + i) - Len(front) = i
      BY <1>0, <1>6, <1>7
    <3> QED BY <3>1, <2>0
  <2>3. /\ \A i \in 1 .. c : i \in DOMAIN q
        /\ \A i \in 1 .. m : d + i \in DOMAIN q
    BY <1>0, <1>1, <1>3
  <2> HIDE DEF w, front, back
  <2> QED BY <2>1, <2>2, <2>3, <1>6, <1>7
<1> HIDE DEF w
<1> DEFINE at(i) == IF i =< c THEN i ELSE i - c + d
<1>11. \A i \in DOMAIN w : at(i) \in DOMAIN q /\ w[i] = q[at(i)] /\ (at(i) =< c \/ at(i) > d)
  <2> SUFFICES ASSUME NEW i \in DOMAIN w
               PROVE  at(i) \in DOMAIN q /\ w[i] = q[at(i)] /\ (at(i) =< c \/ at(i) > d)
    OBVIOUS
  <2>1. CASE i =< c
    BY <2>1, <1>9, <1>10, <1>1
  <2>2. CASE i > c
    <3>1. i - c \in 1 .. m /\ c + (i - c) = i /\ d + (i - c) = i - c + d
      BY <2>2, <1>9, <1>0, SMTT(30)
    <3>2. d + (i - c) \in DOMAIN q /\ w[c + (i - c)] = q[d + (i - c)]
      BY <3>1, <1>10
    <3> QED BY <3>1, <3>2, <2>2, <1>1, <1>2
  <2> QED BY <2>1, <2>2, <1>9, <1>1
<1>12. \A i \in DOMAIN w : \E j \in DOMAIN q : w[i] = q[j] /\ q[j].batch # b
  BY <1>11, <1>5
<1>13. \A j \in DOMAIN q : q[j].batch # b => \E i \in DOMAIN w : w[i] = q[j]
  <2> SUFFICES ASSUME NEW j \in DOMAIN q, j =< c \/ j > d PROVE \E i \in DOMAIN w : w[i] = q[j]
    BY <1>5
  <2>1. CASE j =< c
    BY <2>1, <1>3, <1>9, <1>10, <1>1
  <2>2. CASE j > d
    <3>1. j - d \in 1 .. m /\ d + (j - d) = j /\ c + (j - d) \in DOMAIN w
      BY <2>2, <1>3, <1>9, <1>0
    <3> QED BY <3>1, <1>10
  <2> QED BY <2>1, <2>2
<1>14. ASSUME SeqInjective(q) PROVE SeqInjective(w)
  <2> SUFFICES ASSUME NEW i \in DOMAIN w, NEW j \in DOMAIN w, w[i].seq = w[j].seq PROVE i = j
    BY DEF SeqInjective
  <2>1. at(i) = at(j)
    BY <1>11, <1>14 DEF SeqInjective
  <2> QED BY <2>1, <1>9, <1>1, <1>2, <1>4
<1>15. Contiguous(w)
  <2> SUFFICES ASSUME NEW x \in Nat
               PROVE  \E n \in 0 .. Len(w) : \A i \in DOMAIN w : i =< n <=> w[i].batch < x
    BY DEF Contiguous
  <2>1. PICK n \in 0 .. Len(q) : \A i \in DOMAIN q : i =< n <=> q[i].batch < x
    BY DEF Contiguous
  <2> DEFINE k == IF n =< c THEN n ELSE IF n =< d THEN c ELSE n - d + c
  <2>2. k \in 0 .. Len(w)
    BY <1>9, <1>0, <1>4
  <2>3. \A i \in DOMAIN w : i =< k <=> at(i) =< n
    BY <1>9, <1>1, <1>2, <1>4, <1>3
  <2>4. \A i \in DOMAIN w : i =< k <=> w[i].batch < x
    BY <2>1, <2>3, <1>11
  <2> QED BY <2>2, <2>4
<1>16. Ids(w) = Ids(q) \ {b}
  BY <1>12, <1>13 DEF Ids
<1>17. ASSUME SeqInjective(q) PROVE EntrySeqs(w) = EntrySeqs(q) \ EntrySeqsOf(q, b)
  <2>1. ASSUME NEW i \in DOMAIN w PROVE w[i].seq \in EntrySeqs(q) \ EntrySeqsOf(q, b)
    <3>1. PICK j \in DOMAIN q : w[i] = q[j] /\ q[j].batch # b
      BY <1>12
    <3> QED BY <3>1, <1>17 DEF EntrySeqs, EntrySeqsOf, SeqInjective
  <2>2. ASSUME NEW j \in DOMAIN q, q[j].seq \notin EntrySeqsOf(q, b) PROVE q[j].seq \in EntrySeqs(w)
    <3>1. q[j].batch # b
      BY <2>2 DEF EntrySeqsOf
    <3> QED BY <3>1, <1>13 DEF EntrySeqs
  <2> QED BY <2>1, <2>2 DEF EntrySeqs
<1>18. ASSUME NEW i \in DOMAIN w, NEW k \in DOMAIN w, i < k
       PROVE  \E j, l \in DOMAIN q : j < l /\ w[i] = q[j] /\ w[k] = q[l]
  <2>1. at(i) < at(k)
    BY <1>0, <1>4, <1>9, <1>18
  <2> QED BY <2>1, <1>11
<1> QED BY <1>9, <1>12, <1>13, <1>14, <1>15, <1>16, <1>17, <1>18 DEF w

----------------------------------------------------------------------------
(***************************************************************************)
(* The inductive invariant.  Conservation alone is not inductive: removing *)
(* a batch is only right if batches are contiguous and ids are fresh, and  *)
(* an answer only releases read events if what it names is what was sent.  *)
(***************************************************************************)
IdsHandedOut ==
    /\ \A i \in DOMAIN flight : flight[i].batch =< lastBatch
    /\ \A m \in shipping \cup wire : m.batch =< lastBatch
    /\ \A r \in replies : r.batch =< lastBatch

MessagesCarryBatch ==
    \A m \in shipping \cup wire : \A i \in DOMAIN flight :
        flight[i].batch = m.batch => flight[i].seq \in m.seqs

AnswersFollowRead ==
    \A r \in replies : \A i \in DOMAIN flight :
        flight[i].batch = r.batch => flight[i].seq \in received

IInv ==
    /\ TypeOK
    /\ Conservation
    /\ Len(buf) =< MaxEvents
    /\ Contiguous(flight)
    /\ IdsHandedOut
    /\ MessagesCarryBatch
    /\ AnswersFollowRead
    /\ ReleasedWereReceived

\* Conservation in terms of the sets the lemmas speak of.
LEMMA ConservationSets ==
    Conservation <=>
        /\ SeqsOf(buf) \cup EntrySeqs(flight) \cup acked \cup nacked \cup lost = 1 .. seq
        /\ Injective(buf) /\ SeqInjective(flight)
        /\ SeqsOf(buf) \cap EntrySeqs(flight) = {}
        /\ (SeqsOf(buf) \cup EntrySeqs(flight)) \cap (acked \cup nacked \cup lost) = {}
        /\ acked \cap nacked = {} /\ acked \cap lost = {} /\ nacked \cap lost = {}
BY DEF Conservation, Held, FlightSeqs, EntrySeqs, Injective, SeqInjective

\* What extend() does to the buffer: the new seqs come in, a set D drops out.
LEMMA BufferExtended ==
    ASSUME NEW n \in Nat, NEW refused \in Nat, TypeOK, Injective(buf),
           SeqsOf(buf) \subseteq 1 .. seq, Extend(n, refused)
    PROVE  /\ seq' = seq + n /\ seq' \in 0 .. MaxSeq
           /\ buf' \in Seq(1 .. MaxSeq) /\ Len(buf') =< MaxEvents /\ Injective(buf')
           /\ dropped' \in Nat /\ undeclared' \in Nat /\ refusals' \in Nat
           /\ \E D \in SUBSET (1 .. MaxSeq) :
                 /\ lost' = lost \cup D
                 /\ SeqsOf(buf') \cup D = SeqsOf(buf) \cup (seq + 1 .. seq + n)
                 /\ SeqsOf(buf') \cap D = {}
<1> DEFINE q == buf \o Stamp(n)
<1>0. /\ seq \in Nat /\ MaxSeq \in Nat /\ MaxEvents \in Nat \ {0} /\ seq + n =< MaxSeq
      /\ seq' = seq + n /\ buf \in Seq(1 .. MaxSeq)
  BY BufferAssumption, BoundAssumption DEF TypeOK, Extend
<1>1. Stamp(n) \in Seq(1 .. MaxSeq)
  <2>1. \A i \in 1 .. n : seq + i \in 1 .. MaxSeq
    BY <1>0
  <2> QED BY <2>1, IsASeq DEF Stamp
<1>2. Injective(Stamp(n)) /\ SeqsOf(Stamp(n)) = seq + 1 .. seq + n
  <2>1. DOMAIN Stamp(n) = 1 .. n /\ \A i \in 1 .. n : Stamp(n)[i] = seq + i
    BY DEF Stamp
  <2>2. \A x \in seq + 1 .. seq + n : x - seq \in 1 .. n /\ seq + (x - seq) = x
    BY <1>0
  <2>3. \A i \in 1 .. n : seq + i \in seq + 1 .. seq + n
    BY <1>0
  <2>4. SeqsOf(Stamp(n)) = {seq + i : i \in 1 .. n}
    BY <2>1 DEF SeqsOf
  <2>5. Injective(Stamp(n))
    BY <2>1, <1>0 DEF Injective
  <2> QED BY <2>2, <2>3, <2>4, <2>5
<1>3. SeqsOf(buf) \cap SeqsOf(Stamp(n)) = {}
  BY <1>0, <1>2
<1>4. q \in Seq(1 .. MaxSeq) /\ Injective(q) /\ SeqsOf(q) = SeqsOf(buf) \cup (seq + 1 .. seq + n)
  BY <1>0, <1>1, <1>2, <1>3, ConcatSeqs
<1>5. /\ buf' = Newest(q) /\ lost' = lost \cup SeqsOf(Overflow(q))
      /\ dropped' = dropped + Len(Overflow(q))
      /\ undeclared' = undeclared + refused /\ refusals' = refusals + refused
  BY DEF Extend
<1> HIDE DEF q
<1>6. /\ Newest(q) \in Seq(1 .. MaxSeq) /\ Overflow(q) \in Seq(1 .. MaxSeq)
      /\ Len(Newest(q)) =< MaxEvents
      /\ SeqsOf(Newest(q)) \cup SeqsOf(Overflow(q)) = SeqsOf(q)
      /\ Injective(Newest(q)) /\ SeqsOf(Newest(q)) \cap SeqsOf(Overflow(q)) = {}
  BY <1>0, <1>4, BoundSplits
<1>7. SeqsOf(Overflow(q)) \subseteq 1 .. MaxSeq /\ Len(Overflow(q)) \in Nat
  BY <1>6, SeqsInSet
<1>8. dropped' \in Nat /\ undeclared' \in Nat /\ refusals' \in Nat
  BY <1>5, <1>7 DEF TypeOK
<1>9. seq' \in 0 .. MaxSeq
  BY <1>0
<1> QED BY <1>0, <1>4, <1>5, <1>6, <1>7, <1>8, <1>9

\* The sets an entry list speaks of stay within the seqs.
LEMMA EntriesInRange ==
    ASSUME NEW q \in Seq(Entries)
    PROVE  /\ EntrySeqs(q) \subseteq 1 .. MaxSeq
           /\ \A b : EntrySeqsOf(q, b) \subseteq EntrySeqs(q)
           /\ \A i \in DOMAIN q : q[i].batch \in Nat /\ q[i].seq \in 1 .. MaxSeq /\ q[i] \in Entries
           /\ DOMAIN q = 1 .. Len(q) /\ Len(q) \in Nat
<1>1. \A i \in DOMAIN q : q[i] \in Entries
  BY ElementOfSeq, LenProperties
<1> QED BY <1>1, LenProperties DEF Entries, EntrySeqs, EntrySeqsOf

\* The initial state.
LEMMA InitIInv == Init => IInv
<1> SUFFICES ASSUME Init PROVE IInv
  OBVIOUS
<1> USE DEF Init
<1>1. TypeOK
  BY BoundAssumption, EmptySeq DEF TypeOK
<1>2. SeqsOf(buf) = {} /\ EntrySeqs(flight) = {} /\ Injective(buf) /\ SeqInjective(flight)
  BY EmptySeq DEF SeqsOf, EntrySeqs, Injective, SeqInjective
<1>3. Conservation
  BY <1>2, ConservationSets
<1>4. Contiguous(flight) /\ Len(buf) =< MaxEvents
  BY EmptySeq, BufferAssumption DEF Contiguous
<1>5. IdsHandedOut /\ MessagesCarryBatch /\ AnswersFollowRead /\ ReleasedWereReceived
  BY EmptySeq DEF IdsHandedOut, MessagesCarryBatch, AnswersFollowRead, ReleasedWereReceived
<1> QED BY <1>1, <1>3, <1>4, <1>5 DEF IInv

\* An extend() that leaves the batches in flight and the channel alone.
LEMMA BufferExtendStep ==
    ASSUME IInv, NEW n \in Nat, NEW refused \in Nat, Extend(n, refused), reading' \in 0 .. Feeders,
           UNCHANGED <<flight, records, lastBatch, sessions, received, acked, nacked, raised>>,
           link' \in {"up", "down"},
           shipping' \subseteq shipping, wire' \subseteq wire, replies' \subseteq replies
    PROVE  IInv'
<1> USE DEF IInv
<1>0. /\ SeqsOf(buf) \subseteq 1 .. seq /\ Injective(buf) /\ seq \in Nat
      /\ flight \in Seq(Entries)
  BY ConservationSets DEF TypeOK, Entries
<1>1. /\ seq' = seq + n /\ seq' \in 0 .. MaxSeq
      /\ buf' \in Seq(1 .. MaxSeq) /\ Len(buf') =< MaxEvents /\ Injective(buf')
      /\ dropped' \in Nat /\ undeclared' \in Nat /\ refusals' \in Nat
  BY <1>0, BufferExtended
<1>2. PICK D \in SUBSET (1 .. MaxSeq) :
          /\ lost' = lost \cup D
          /\ SeqsOf(buf') \cup D = SeqsOf(buf) \cup (seq + 1 .. seq + n)
          /\ SeqsOf(buf') \cap D = {}
  BY <1>0, BufferExtended
<1>3. TypeOK'
  BY <1>1, <1>2 DEF TypeOK
<1>4. Conservation'
  <2>1. 1 .. seq' = (1 .. seq) \cup (seq + 1 .. seq + n) /\ (1 .. seq) \cap (seq + 1 .. seq + n) = {}
    BY <1>0, <1>1
  <2>2. EntrySeqs(flight)' = EntrySeqs(flight) /\ SeqInjective(flight)'
    BY ConservationSets DEF EntrySeqs, SeqInjective
  <2>3. SeqsOf(buf)' = SeqsOf(buf')
    BY DEF SeqsOf
  <2>4. Injective(buf)'
    BY <1>1 DEF Injective
  <2>5. /\ SeqsOf(buf)' \cup EntrySeqs(flight)' \cup acked' \cup nacked' \cup lost' = 1 .. seq'
        /\ SeqsOf(buf)' \cap EntrySeqs(flight)' = {}
        /\ (SeqsOf(buf)' \cup EntrySeqs(flight)') \cap (acked' \cup nacked' \cup lost') = {}
        /\ acked' \cap nacked' = {} /\ acked' \cap lost' = {} /\ nacked' \cap lost' = {}
    BY <1>2, <2>1, <2>2, <2>3, ConservationSets
  <2> QED BY <2>2, <2>4, <2>5 DEF Conservation, Held, FlightSeqs, EntrySeqs, Injective, SeqInjective
<1>5. (Len(buf) =< MaxEvents)' /\ Contiguous(flight)'
  BY <1>1 DEF Contiguous
<1>6. IdsHandedOut' /\ MessagesCarryBatch' /\ AnswersFollowRead' /\ ReleasedWereReceived'
  BY DEF IdsHandedOut, MessagesCarryBatch, AnswersFollowRead, ReleasedWereReceived
<1> QED BY <1>3, <1>4, <1>5, <1>6

\* A batch leaves flight whole: what an answer or an eviction does to the rest
\* of the invariant.
LEMMA RemoveBatch ==
    ASSUME NEW q \in Seq(Entries), Contiguous(q), SeqInjective(q), NEW b \in Nat
    PROVE  /\ Without(q, b) \in Seq(Entries) /\ Contiguous(Without(q, b))
           /\ SeqInjective(Without(q, b))
           /\ EntrySeqs(Without(q, b)) = EntrySeqs(q) \ EntrySeqsOf(q, b)
           /\ Ids(Without(q, b)) = Ids(q) \ {b}
           /\ \A i \in DOMAIN Without(q, b) :
                 \E j \in DOMAIN q : Without(q, b)[i] = q[j] /\ q[j].batch # b
BY WithoutKeepsOthers

\* An ack releases its batch and nothing else.
LEMMA AckStep ==
    ASSUME IInv, NEW r \in replies, HandleAck(r)
    PROVE  IInv'
<1> USE DEF IInv
<1>0. r.batch \in Nat /\ flight \in Seq(Entries) /\ SeqInjective(flight) /\ Contiguous(flight)
  BY ConservationSets DEF TypeOK, Entries
<1> DEFINE w == Without(flight, r.batch)
<1>1. /\ w \in Seq(Entries) /\ Contiguous(w) /\ SeqInjective(w)
      /\ EntrySeqs(w) = EntrySeqs(flight) \ EntrySeqsOf(flight, r.batch)
      /\ \A i \in DOMAIN w : \E j \in DOMAIN flight : w[i] = flight[j] /\ flight[j].batch # r.batch
  BY <1>0, RemoveBatch
<1>2. /\ flight' = w /\ acked' = acked \cup EntrySeqsOf(flight, r.batch)
      /\ replies' = replies \ {r}
      /\ UNCHANGED <<buf, seq, dropped, undeclared, records, lastBatch, link, sessions,
                     shipping, wire, reading, received, nacked, lost, refusals, raised>>
  BY DEF HandleAck, BatchSeqs, EntrySeqsOf
<1> HIDE DEF w
<1>3. EntrySeqsOf(flight, r.batch) \subseteq EntrySeqs(flight) /\ EntrySeqs(flight) \subseteq 1 .. MaxSeq
  BY <1>0, EntriesInRange
<1>4. TypeOK'
  BY <1>1, <1>2, <1>3 DEF TypeOK, Entries
<1>5. Conservation'
  <2>1. SeqsOf(buf)' = SeqsOf(buf) /\ Injective(buf)' /\ SeqInjective(flight)'
    BY <1>1, <1>2, ConservationSets DEF SeqsOf, Injective, SeqInjective
  <2>2. EntrySeqs(flight)' = EntrySeqs(flight) \ EntrySeqsOf(flight, r.batch)
    BY <1>1, <1>2 DEF EntrySeqs
  <2>3. /\ SeqsOf(buf)' \cup EntrySeqs(flight)' \cup acked' \cup nacked' \cup lost' = 1 .. seq'
        /\ SeqsOf(buf)' \cap EntrySeqs(flight)' = {}
        /\ (SeqsOf(buf)' \cup EntrySeqs(flight)') \cap (acked' \cup nacked' \cup lost') = {}
        /\ acked' \cap nacked' = {} /\ acked' \cap lost' = {} /\ nacked' \cap lost' = {}
    BY <1>2, <1>3, <2>1, <2>2, ConservationSets
  <2> QED BY <2>1, <2>3 DEF Conservation, Held, FlightSeqs, EntrySeqs, Injective, SeqInjective
<1>6. (Len(buf) =< MaxEvents)' /\ Contiguous(flight)'
  BY <1>1, <1>2 DEF Contiguous
<1>7. IdsHandedOut' /\ MessagesCarryBatch' /\ AnswersFollowRead'
  BY <1>1, <1>2 DEF IdsHandedOut, MessagesCarryBatch, AnswersFollowRead
<1>8. ReleasedWereReceived'
  BY <1>2 DEF ReleasedWereReceived, AnswersFollowRead, EntrySeqsOf
<1> QED BY <1>4, <1>5, <1>6, <1>7, <1>8

\* A nack drops its batch as an ack does, and emits one event if it was known.
LEMMA NackStep ==
    ASSUME IInv, NEW r \in replies, HandleNack(r)
    PROVE  IInv'
<1> USE DEF IInv
<1>0. /\ r.batch \in Nat /\ flight \in Seq(Entries) /\ SeqInjective(flight) /\ Contiguous(flight)
      /\ SeqsOf(buf) \subseteq 1 .. seq /\ Injective(buf) /\ seq \in Nat
  BY ConservationSets DEF TypeOK, Entries
<1> DEFINE w == Without(flight, r.batch)
           B == EntrySeqsOf(flight, r.batch)
<1>1. /\ w \in Seq(Entries) /\ Contiguous(w) /\ SeqInjective(w)
      /\ EntrySeqs(w) = EntrySeqs(flight) \ B
      /\ \A i \in DOMAIN w : \E j \in DOMAIN flight : w[i] = flight[j] /\ flight[j].batch # r.batch
  BY <1>0, RemoveBatch
<1>2. /\ flight' = w /\ nacked' = nacked \cup B /\ replies' = replies \ {r}
      /\ UNCHANGED <<records, lastBatch, link, sessions, shipping, wire, reading, received, acked, raised>>
  BY DEF HandleNack, BatchSeqs, EntrySeqsOf
<1>3. B \subseteq EntrySeqs(flight) /\ EntrySeqs(flight) \subseteq 1 .. MaxSeq
  BY <1>0, EntriesInRange
<1>4. \E n \in Nat, D \in SUBSET (1 .. MaxSeq) :
          /\ seq' = seq + n /\ seq' \in 0 .. MaxSeq
          /\ buf' \in Seq(1 .. MaxSeq) /\ Len(buf') =< MaxEvents /\ Injective(buf')
          /\ dropped' \in Nat /\ undeclared' \in Nat /\ refusals' \in Nat
          /\ lost' = lost \cup D
          /\ SeqsOf(buf') \cup D = SeqsOf(buf) \cup (seq + 1 .. seq + n)
          /\ SeqsOf(buf') \cap D = {}
  <2>1. CASE Extend(1, 0)
    <3>1. 1 \in Nat /\ 0 \in Nat
      OBVIOUS
    <3> QED BY <2>1, <3>1, <1>0, BufferExtended
  <2>2. CASE UNCHANGED <<buf, seq, dropped, undeclared, lost, refusals>>
    <3>1. /\ seq' = seq + 0 /\ seq' \in 0 .. MaxSeq
          /\ buf' \in Seq(1 .. MaxSeq) /\ Len(buf') =< MaxEvents /\ Injective(buf')
          /\ dropped' \in Nat /\ undeclared' \in Nat /\ refusals' \in Nat
      BY <2>2, <1>0 DEF TypeOK
    <3>2. seq + 1 .. seq + 0 = {}
      BY <1>0
    <3>3. /\ lost' = lost \cup {}
          /\ SeqsOf(buf') \cup {} = SeqsOf(buf) \cup (seq + 1 .. seq + 0)
          /\ SeqsOf(buf') \cap {} = {}
      BY <2>2, <3>2
    <3> QED BY <3>1, <3>3
  <2> QED BY <2>1, <2>2 DEF HandleNack
<1>5. PICK n \in Nat, D \in SUBSET (1 .. MaxSeq) :
          /\ seq' = seq + n /\ seq' \in 0 .. MaxSeq
          /\ buf' \in Seq(1 .. MaxSeq) /\ Len(buf') =< MaxEvents /\ Injective(buf')
          /\ dropped' \in Nat /\ undeclared' \in Nat /\ refusals' \in Nat
          /\ lost' = lost \cup D
          /\ SeqsOf(buf') \cup D = SeqsOf(buf) \cup (seq + 1 .. seq + n)
          /\ SeqsOf(buf') \cap D = {}
  BY <1>4
<1> HIDE DEF w, B
<1>6. TypeOK'
  BY <1>1, <1>2, <1>3, <1>5 DEF TypeOK, Entries
<1>7. Conservation'
  <2>1. 1 .. seq' = (1 .. seq) \cup (seq + 1 .. seq + n) /\ (1 .. seq) \cap (seq + 1 .. seq + n) = {}
    BY <1>0, <1>5
  <2>2. SeqsOf(buf)' = SeqsOf(buf') /\ Injective(buf)' /\ SeqInjective(flight)'
    BY <1>1, <1>2, <1>5 DEF SeqsOf, Injective, SeqInjective
  <2>3. EntrySeqs(flight)' = EntrySeqs(flight) \ B
    BY <1>1, <1>2 DEF EntrySeqs
  <2>4. /\ SeqsOf(buf)' \cup EntrySeqs(flight)' \cup acked' \cup nacked' \cup lost' = 1 .. seq'
        /\ SeqsOf(buf)' \cap EntrySeqs(flight)' = {}
        /\ (SeqsOf(buf)' \cup EntrySeqs(flight)') \cap (acked' \cup nacked' \cup lost') = {}
        /\ acked' \cap nacked' = {} /\ acked' \cap lost' = {} /\ nacked' \cap lost' = {}
    BY <1>2, <1>3, <1>5, <2>1, <2>2, <2>3, ConservationSets
  <2> QED BY <2>2, <2>4 DEF Conservation, Held, FlightSeqs, EntrySeqs, Injective, SeqInjective
<1>8. (Len(buf) =< MaxEvents)' /\ Contiguous(flight)'
  BY <1>1, <1>2, <1>5 DEF Contiguous
<1>9. IdsHandedOut' /\ MessagesCarryBatch' /\ AnswersFollowRead'
  BY <1>1, <1>2 DEF IdsHandedOut, MessagesCarryBatch, AnswersFollowRead
<1>10. ReleasedWereReceived'
  BY <1>2 DEF ReleasedWereReceived, AnswersFollowRead, EntrySeqsOf, B
<1> QED BY <1>6, <1>7, <1>8, <1>9, <1>10

\* The buffer with the dropped_events record in front, cut where drain() stops.
LEMMA DrainSplit ==
    ASSUME IInv, Owing => seq < MaxSeq
    PROVE  LET new == IF Owing THEN {seq + 1} ELSE {}
               out == SubSeq(Fronted, 1, Taken)
               rest == SubSeq(Fronted, Taken + 1, Len(Fronted))
           IN  /\ Taken \in Nat /\ Taken \in 0 .. Len(Fronted)
               /\ Fronted # <<>> => Taken > 0
               /\ out \in Seq(1 .. MaxSeq) /\ Len(out) = Taken
               /\ \A i \in 1 .. Taken : out[i] = Fronted[i]
               /\ rest \in Seq(1 .. MaxSeq)
               /\ Fronted # <<>> => Len(rest) =< MaxEvents
               /\ Injective(out) /\ Injective(rest)
               /\ SeqsOf(out) \cup SeqsOf(rest) = SeqsOf(buf) \cup new
               /\ SeqsOf(out) \cap SeqsOf(rest) = {}
<1> USE DEF IInv
<1> DEFINE new == IF Owing THEN {seq + 1} ELSE {}
<1>0. /\ seq \in Nat /\ buf \in Seq(1 .. MaxSeq) /\ Injective(buf) /\ SeqsOf(buf) \subseteq 1 .. seq
      /\ Len(buf) \in Nat /\ Len(buf) =< MaxEvents /\ MaxEvents \in Nat /\ MaxBatch \in Nat \ {0}
      /\ MaxSeq \in Nat
  BY ConservationSets, SeqsInSet, BufferAssumption, BoundAssumption DEF TypeOK
<1>1. /\ Fronted \in Seq(1 .. MaxSeq) /\ Injective(Fronted) /\ SeqsOf(Fronted) = SeqsOf(buf) \cup new
      /\ Len(Fronted) =< MaxEvents + 1 /\ Len(Fronted) \in Nat
  <2>1. CASE Owing
    <3> DEFINE p == <<seq + 1>>
    <3>1. seq + 1 \in 1 .. MaxSeq /\ Fronted = p \o buf
      BY <2>1, <1>0 DEF Fronted
    <3>2. p \in Seq(1 .. MaxSeq) /\ Len(p) = 1
      BY <3>1
    <3>3. Injective(p) /\ SeqsOf(p) = {seq + 1}
      BY DEF Injective, SeqsOf
    <3> HIDE DEF p
    <3>4. SeqsOf(p) \cap SeqsOf(buf) = {}
      BY <3>3, <1>0
    <3>5. /\ Fronted \in Seq(1 .. MaxSeq) /\ Injective(Fronted)
          /\ SeqsOf(Fronted) = {seq + 1} \cup SeqsOf(buf)
      BY <3>1, <3>2, <3>3, <3>4, <1>0, ConcatSeqs
    <3>6. Len(Fronted) = 1 + Len(buf)
      BY <3>1, <3>2, <1>0, ConcatProperties
    <3> QED BY <3>5, <3>6, <2>1, <1>0
  <2>2. CASE ~Owing
    BY <2>2, <1>0 DEF Fronted
  <2> QED BY <2>1, <2>2
<1>2. Fronted # <<>> => Len(Fronted) > 0
  BY <1>1, EmptySeq
<1>3. /\ Taken \in Nat /\ Taken \in 0 .. Len(Fronted)
      /\ Fronted # <<>> => Taken > 0 /\ Len(Fronted) - Taken =< MaxEvents
  BY <1>0, <1>1, <1>2 DEF Taken
<1> DEFINE out == SubSeq(Fronted, 1, Taken)
           rest == SubSeq(Fronted, Taken + 1, Len(Fronted))
<1>4. /\ out \in Seq(1 .. MaxSeq) /\ Len(out) = Taken /\ \A i \in 1 .. Taken : out[i] = Fronted[i]
      /\ rest \in Seq(1 .. MaxSeq) /\ Len(rest) = Len(Fronted) - Taken
      /\ SeqsOf(out) \cup SeqsOf(rest) = SeqsOf(Fronted)
      /\ Injective(out) /\ Injective(rest) /\ SeqsOf(out) \cap SeqsOf(rest) = {}
  <2>1. Fronted \in Seq(1 .. MaxSeq) /\ Taken \in 0 .. Len(Fronted)
    BY <1>1, <1>3
  <2>2. /\ out \in Seq(1 .. MaxSeq) /\ Len(out) = Taken /\ \A i \in 1 .. Taken : out[i] = Fronted[i]
        /\ rest \in Seq(1 .. MaxSeq) /\ Len(rest) = Len(Fronted) - Taken
        /\ SeqsOf(out) \cup SeqsOf(rest) = SeqsOf(Fronted)
        /\ Injective(Fronted) => /\ Injective(out) /\ Injective(rest)
                                 /\ SeqsOf(out) \cap SeqsOf(rest) = {}
    BY <2>1, SplitSeq, Zenon
  <2> QED BY <2>2, <1>1
<1> HIDE DEF out, rest, new
<1>5. /\ Fronted # <<>> => Len(rest) =< MaxEvents
      /\ SeqsOf(out) \cup SeqsOf(rest) = SeqsOf(buf) \cup new
  BY <1>1, <1>3, <1>4
<1> QED BY <1>3, <1>4, <1>5 DEF out, rest, new

\* The batches in flight once drain() has added its own and before the cap.
LEMMA DrainFlight ==
    ASSUME IInv, Owing => seq < MaxSeq, Fronted # <<>>
    PROVE  LET out == SubSeq(Fronted, 1, Taken)
               rest == SubSeq(Fronted, Taken + 1, Len(Fronted))
           IN  /\ DOMAIN out = 1 .. Taken /\ SeqsOf(out) \subseteq 1 .. MaxSeq
               /\ Drained \in Seq(Entries) /\ SeqInjective(Drained) /\ Contiguous(Drained)
               /\ DOMAIN Drained = 1 .. (Len(flight) + Taken)
               /\ \A i \in DOMAIN Drained :
                     \/ i \in DOMAIN flight /\ Drained[i] = flight[i]
                     \/ /\ i > Len(flight) /\ i - Len(flight) \in DOMAIN out
                        /\ Drained[i] = [batch |-> lastBatch + 1, seq |-> out[i - Len(flight)]]
               /\ \A i \in DOMAIN flight : i \in DOMAIN Drained /\ Drained[i] = flight[i]
               /\ SeqsOf(out) \cap EntrySeqs(flight) = {} /\ SeqsOf(rest) \cap EntrySeqs(flight) = {}
               /\ EntrySeqs(Drained) = EntrySeqs(flight) \cup SeqsOf(out)
               /\ Evicts => EntrySeqsOf(Drained, Oldest) = BatchSeqs(Oldest) /\ 1 \in DOMAIN flight /\ Oldest \in Nat
<1> USE DEF IInv
<1> DEFINE new == IF Owing THEN {seq + 1} ELSE {}
           out == SubSeq(Fronted, 1, Taken)
           rest == SubSeq(Fronted, Taken + 1, Len(Fronted))
           added == [i \in 1 .. Taken |-> [batch |-> NewBatchId, seq |-> Fronted[i]]]
<1>1. /\ Taken \in Nat /\ Taken \in 0 .. Len(Fronted) /\ Taken > 0
      /\ out \in Seq(1 .. MaxSeq) /\ Len(out) = Taken
      /\ \A i \in 1 .. Taken : out[i] = Fronted[i]
      /\ rest \in Seq(1 .. MaxSeq) /\ Len(rest) =< MaxEvents
      /\ Injective(out) /\ Injective(rest)
      /\ SeqsOf(out) \cup SeqsOf(rest) = SeqsOf(buf) \cup new
      /\ SeqsOf(out) \cap SeqsOf(rest) = {}
  BY DrainSplit
<1>2. /\ flight \in Seq(Entries) /\ SeqInjective(flight) /\ Contiguous(flight)
      /\ seq \in Nat /\ MaxSeq \in Nat /\ lastBatch \in Nat /\ NewBatchId = lastBatch + 1
      /\ SeqsOf(buf) \subseteq 1 .. seq
      /\ Len(flight) \in Nat /\ DOMAIN flight = 1 .. Len(flight)
      /\ \A i \in DOMAIN flight : flight[i].batch =< lastBatch /\ flight[i].batch \in Nat
  <2>1. flight \in Seq(Entries) /\ seq \in Nat /\ MaxSeq \in Nat /\ lastBatch \in Nat
    BY BoundAssumption DEF TypeOK, Entries
  <2>2. SeqInjective(flight) /\ Contiguous(flight) /\ SeqsOf(buf) \subseteq 1 .. seq
    BY ConservationSets
  <2>3. /\ Len(flight) \in Nat /\ DOMAIN flight = 1 .. Len(flight)
        /\ \A i \in DOMAIN flight : flight[i].batch \in Nat
    BY <2>1, EntriesInRange
  <2>4. \A i \in DOMAIN flight : flight[i].batch =< lastBatch
    BY DEF IdsHandedOut
  <2> QED BY <2>1, <2>2, <2>3, <2>4 DEF NewBatchId
<1> HIDE DEF out, rest
<1>3. /\ DOMAIN out = 1 .. Taken /\ SeqsOf(out) \subseteq 1 .. MaxSeq
      /\ \A i \in 1 .. Taken : Fronted[i] \in 1 .. MaxSeq
  <2>1. DOMAIN out = 1 .. Taken /\ SeqsOf(out) \subseteq 1 .. MaxSeq
    BY <1>1, SeqsInSet
  <2> QED BY <2>1, <1>1 DEF SeqsOf
<1>4. /\ added \in Seq(Entries) /\ Len(added) = Taken
      /\ \A i \in 1 .. Taken : added[i] = [batch |-> lastBatch + 1, seq |-> out[i]]
  <2>1. \A i \in 1 .. Taken : [batch |-> NewBatchId, seq |-> Fronted[i]] \in Entries
    BY <1>2, <1>3 DEF Entries
  <2>2. added \in Seq(Entries)
    BY <2>1, <1>1, IsASeq
  <2>3. Len(added) = Taken
    BY <1>1, <2>2, LenProperties
  <2> QED BY <2>2, <2>3, <1>1, <1>2
<1> HIDE DEF added
<1>5. /\ Drained \in Seq(Entries) /\ Len(Drained) = Len(flight) + Taken
      /\ DOMAIN Drained = 1 .. (Len(flight) + Taken)
      /\ \A i \in 1 .. (Len(flight) + Taken) :
             Drained[i] = IF i =< Len(flight) THEN flight[i] ELSE added[i - Len(flight)]
  <2>1. Drained = flight \o added
    BY DEF Drained, added
  <2>2. /\ Drained \in Seq(Entries) /\ Len(Drained) = Len(flight) + Len(added)
        /\ \A i \in 1 .. (Len(flight) + Len(added)) :
              Drained[i] = IF i =< Len(flight) THEN flight[i] ELSE added[i - Len(flight)]
    BY <2>1, <1>2, <1>4, ConcatProperties
  <2> QED BY <2>2, <1>4, LenProperties
<1>6. \A i \in DOMAIN Drained :
          \/ i \in DOMAIN flight /\ Drained[i] = flight[i]
          \/ /\ i > Len(flight) /\ i - Len(flight) \in DOMAIN out
             /\ Drained[i] = [batch |-> lastBatch + 1, seq |-> out[i - Len(flight)]]
  <2> SUFFICES ASSUME NEW i \in DOMAIN Drained, i > Len(flight)
               PROVE  /\ i - Len(flight) \in DOMAIN out
                      /\ Drained[i] = [batch |-> lastBatch + 1, seq |-> out[i - Len(flight)]]
    BY <1>2, <1>5
  <2>1. i - Len(flight) \in 1 .. Taken
    BY <1>1, <1>2, <1>5
  <2>2. Drained[i] = added[i - Len(flight)]
    BY <1>2, <1>5
  <2> QED BY <2>1, <2>2, <1>3, <1>4
<1>7. \A i \in DOMAIN flight : i \in DOMAIN Drained /\ Drained[i] = flight[i]
  BY <1>2, <1>5, <1>1
<1>8. \A i \in DOMAIN out : /\ Len(flight) + i \in DOMAIN Drained
                            /\ Drained[Len(flight) + i].seq = out[i]
  <2> SUFFICES ASSUME NEW i \in DOMAIN out
               PROVE  Len(flight) + i \in DOMAIN Drained /\ Drained[Len(flight) + i].seq = out[i]
    OBVIOUS
  <2>1. /\ Len(flight) + i \in DOMAIN Drained /\ ~(Len(flight) + i =< Len(flight))
        /\ (Len(flight) + i) - Len(flight) = i
    BY <1>2, <1>3, <1>5, <1>1
  <2> QED BY <2>1, <1>5, <1>4, <1>3
<1>9. SeqsOf(out) \cap EntrySeqs(flight) = {} /\ SeqsOf(rest) \cap EntrySeqs(flight) = {}
  <2>1. SeqsOf(buf) \cap EntrySeqs(flight) = {} /\ EntrySeqs(flight) \subseteq 1 .. seq
    BY ConservationSets
  <2>2. new \cap EntrySeqs(flight) = {}
    BY <2>1, <1>2
  <2> QED BY <2>1, <2>2, <1>1
<1>10. /\ EntrySeqs(Drained) = EntrySeqs(flight) \cup SeqsOf(out)
       /\ Evicts => /\ EntrySeqsOf(Drained, Oldest) = BatchSeqs(Oldest)
                     /\ 1 \in DOMAIN flight /\ Oldest \in Nat
  <2>1. EntrySeqs(Drained) \subseteq EntrySeqs(flight) \cup SeqsOf(out)
    BY <1>6 DEF EntrySeqs, SeqsOf
  <2>2. EntrySeqs(flight) \subseteq EntrySeqs(Drained)
    BY <1>7 DEF EntrySeqs
  <2>3. SeqsOf(out) \subseteq EntrySeqs(Drained)
    BY <1>8 DEF EntrySeqs, SeqsOf
  <2>4. ASSUME Evicts
        PROVE  EntrySeqsOf(Drained, Oldest) = BatchSeqs(Oldest) /\ 1 \in DOMAIN flight /\ Oldest \in Nat
    <3>1. flight # <<>> /\ 1 \in DOMAIN flight
      <4>1. ASSUME DOMAIN flight = {} PROVE FALSE
        <5>1. InFlightIds = {}
          BY <4>1 DEF InFlightIds
        <5> QED BY <5>1, <2>4, FS_EmptySet, BufferAssumption DEF Evicts
      <4> QED BY <4>1, <1>2
    <3>2. Oldest =< lastBatch /\ Oldest \in Nat /\ Oldest # lastBatch + 1
      BY <3>1, <1>2 DEF Oldest
    <3> HIDE DEF Oldest
    <3>3. \A i \in DOMAIN Drained : Drained[i].batch = Oldest => i \in DOMAIN flight /\ Drained[i] = flight[i]
      BY <3>2, <1>6
    <3> QED BY <3>1, <3>2, <3>3, <1>7 DEF EntrySeqsOf, BatchSeqs
  <2> QED BY <2>1, <2>2, <2>3, <2>4
<1>11. SeqInjective(Drained)
  <2> SUFFICES ASSUME NEW i \in DOMAIN Drained, NEW j \in DOMAIN Drained,
                      Drained[i].seq = Drained[j].seq
               PROVE  i = j
    BY DEF SeqInjective
  <2>1. CASE i \in DOMAIN flight /\ j \in DOMAIN flight
    BY <2>1, <1>2, <1>7 DEF SeqInjective
  <2>2. ASSUME NEW a \in DOMAIN flight, NEW b \in DOMAIN out PROVE flight[a].seq # out[b]
    BY <1>9 DEF EntrySeqs, SeqsOf
  <2>3. CASE /\ i > Len(flight) /\ i - Len(flight) \in DOMAIN out
             /\ j > Len(flight) /\ j - Len(flight) \in DOMAIN out
             /\ Drained[i].seq = out[i - Len(flight)] /\ Drained[j].seq = out[j - Len(flight)]
    <3>1. i - Len(flight) = j - Len(flight)
      BY <2>3, <1>1 DEF Injective
    <3> QED BY <3>1, <1>2, <1>5
  <2> QED BY <2>1, <2>2, <2>3, <1>6
<1>12. Contiguous(Drained)
  <2> SUFFICES ASSUME NEW x \in Nat
               PROVE  \E n \in 0 .. Len(Drained) : \A i \in DOMAIN Drained : i =< n <=> Drained[i].batch < x
    BY DEF Contiguous
  <2>1. CASE x > lastBatch + 1
    <3>1. Len(Drained) \in 0 .. Len(Drained) /\ \A i \in DOMAIN Drained : i =< Len(Drained)
      BY <1>5, <1>2, <1>1
    <3>2. \A i \in DOMAIN Drained : Drained[i].batch < x
      BY <2>1, <1>6, <1>2
    <3> QED BY <3>1, <3>2
  <2>2. CASE x =< lastBatch + 1
    <3>1. PICK n \in 0 .. Len(flight) : \A i \in DOMAIN flight : i =< n <=> flight[i].batch < x
      BY <1>2 DEF Contiguous
    <3>2. n \in 0 .. Len(Drained)
      BY <1>5, <1>2, <1>1
    <3>3. \A i \in DOMAIN Drained : i =< n <=> Drained[i].batch < x
      <4> SUFFICES ASSUME NEW i \in DOMAIN Drained PROVE i =< n <=> Drained[i].batch < x
        OBVIOUS
      <4>1. CASE i \in DOMAIN flight /\ Drained[i] = flight[i]
        BY <4>1, <3>1
      <4>2. CASE i > Len(flight) /\ Drained[i].batch = lastBatch + 1
        BY <4>2, <2>2, <1>2, <1>5
      <4> QED BY <4>1, <4>2, <1>6
    <3> QED BY <3>2, <3>3
  <2> QED BY <2>1, <2>2, <1>2
<1> QED BY <1>3, <1>5, <1>6, <1>7, <1>9, <1>10, <1>11, <1>12 DEF out, rest

\* drain(), the eviction past the cap included.
LEMMA DrainStep ==
    ASSUME IInv, Drain
    PROVE  IInv'
<1> USE DEF IInv
<1> DEFINE new == IF Owing THEN {seq + 1} ELSE {}
           out == SubSeq(Fronted, 1, Taken)
           rest == SubSeq(Fronted, Taken + 1, Len(Fronted))
           added == [i \in 1 .. Taken |-> [batch |-> NewBatchId, seq |-> Fronted[i]]]
<1>0. /\ Owing => seq < MaxSeq
      /\ Fronted # <<>>
      /\ seq' = IF Owing THEN seq + 1 ELSE seq
      /\ buf' = rest
      /\ undeclared' = 0
      /\ flight' = IF Evicts THEN Without(Drained, Oldest) ELSE Drained
      /\ dropped' = IF Evicts THEN EvictedCount ELSE 0
      /\ lost' = IF Evicts THEN lost \cup BatchSeqs(Oldest) ELSE lost
      /\ lastBatch' = lastBatch + 1
      /\ shipping' = {[batch |-> NewBatchId, seqs |-> SeqsOf(out)]}
      /\ UNCHANGED <<link, sessions, wire, replies, reading, received, acked, nacked, refusals, raised>>
  BY DEF Drain
<1>1. /\ Taken \in Nat /\ Taken \in 0 .. Len(Fronted) /\ Taken > 0
      /\ out \in Seq(1 .. MaxSeq) /\ Len(out) = Taken
      /\ \A i \in 1 .. Taken : out[i] = Fronted[i]
      /\ rest \in Seq(1 .. MaxSeq) /\ Len(rest) =< MaxEvents
      /\ Injective(out) /\ Injective(rest)
      /\ SeqsOf(out) \cup SeqsOf(rest) = SeqsOf(buf) \cup new
      /\ SeqsOf(out) \cap SeqsOf(rest) = {}
  BY <1>0, DrainSplit
<1>2. /\ flight \in Seq(Entries) /\ SeqInjective(flight) /\ Contiguous(flight)
      /\ seq \in Nat /\ MaxSeq \in Nat /\ lastBatch \in Nat /\ NewBatchId = lastBatch + 1
      /\ SeqsOf(buf) \subseteq 1 .. seq
      /\ Len(flight) \in Nat /\ DOMAIN flight = 1 .. Len(flight)
      /\ \A i \in DOMAIN flight : flight[i].batch =< lastBatch /\ flight[i].batch \in Nat
  <2>1. flight \in Seq(Entries) /\ seq \in Nat /\ MaxSeq \in Nat /\ lastBatch \in Nat
    BY BoundAssumption DEF TypeOK, Entries
  <2>2. SeqInjective(flight) /\ Contiguous(flight) /\ SeqsOf(buf) \subseteq 1 .. seq
    BY ConservationSets
  <2>3. /\ Len(flight) \in Nat /\ DOMAIN flight = 1 .. Len(flight)
        /\ \A i \in DOMAIN flight : flight[i].batch \in Nat
    BY <2>1, EntriesInRange
  <2>4. \A i \in DOMAIN flight : flight[i].batch =< lastBatch
    BY DEF IdsHandedOut
  <2> QED BY <2>1, <2>2, <2>3, <2>4 DEF NewBatchId
<1>3. /\ DOMAIN out = 1 .. Taken /\ SeqsOf(out) \subseteq 1 .. MaxSeq
      /\ Drained \in Seq(Entries) /\ SeqInjective(Drained) /\ Contiguous(Drained)
      /\ DOMAIN Drained = 1 .. (Len(flight) + Taken)
      /\ \A i \in DOMAIN Drained :
            \/ i \in DOMAIN flight /\ Drained[i] = flight[i]
            \/ /\ i > Len(flight) /\ i - Len(flight) \in DOMAIN out
               /\ Drained[i] = [batch |-> lastBatch + 1, seq |-> out[i - Len(flight)]]
      /\ \A i \in DOMAIN flight : i \in DOMAIN Drained /\ Drained[i] = flight[i]
      /\ SeqsOf(out) \cap EntrySeqs(flight) = {} /\ SeqsOf(rest) \cap EntrySeqs(flight) = {}
      /\ EntrySeqs(Drained) = EntrySeqs(flight) \cup SeqsOf(out)
      /\ Evicts => EntrySeqsOf(Drained, Oldest) = BatchSeqs(Oldest) /\ 1 \in DOMAIN flight /\ Oldest \in Nat
  BY <1>0, DrainFlight
<1> HIDE DEF out, rest
<1>13. /\ flight' \in Seq(Entries) /\ SeqInjective(flight') /\ Contiguous(flight')
       /\ \A i \in DOMAIN flight' : \E j \in DOMAIN Drained : flight'[i] = Drained[j]
       /\ \E X \in SUBSET EntrySeqs(flight) : /\ EntrySeqs(flight') = EntrySeqs(Drained) \ X
                                              /\ lost' = lost \cup X
  <2>1. CASE ~Evicts
    <3>1. lost' = lost \cup {} /\ EntrySeqs(flight') = EntrySeqs(Drained) \ {}
      BY <2>1, <1>0
    <3> QED BY <2>1, <3>1, <1>0, <1>3
  <2>2. CASE Evicts
    <3>1. Oldest \in Nat
      BY <2>2, <1>3
    <3> HIDE DEF Oldest
    <3>2. /\ Without(Drained, Oldest) \in Seq(Entries) /\ Contiguous(Without(Drained, Oldest))
          /\ SeqInjective(Without(Drained, Oldest))
          /\ EntrySeqs(Without(Drained, Oldest)) = EntrySeqs(Drained) \ EntrySeqsOf(Drained, Oldest)
          /\ \A i \in DOMAIN Without(Drained, Oldest) :
                 \E j \in DOMAIN Drained :
                     Without(Drained, Oldest)[i] = Drained[j] /\ Drained[j].batch # Oldest
      BY <3>1, <1>3, RemoveBatch, ZenonT(60)
    <3>3. BatchSeqs(Oldest) \subseteq EntrySeqs(flight)
      BY DEF BatchSeqs, EntrySeqs
    <3> QED BY <2>2, <3>2, <3>3, <1>0, <1>3
  <2> QED BY <2>1, <2>2
<1>14. PICK X \in SUBSET EntrySeqs(flight) : /\ EntrySeqs(flight') = EntrySeqs(Drained) \ X
                                             /\ lost' = lost \cup X
  BY <1>13
<1>15. seq' \in 0 .. MaxSeq /\ 1 .. seq' = (1 .. seq) \cup new /\ new \cap (1 .. seq) = {}
       /\ new \subseteq 1 .. MaxSeq
  <2>0. seq \in 0 .. MaxSeq
    BY DEF TypeOK
  <2>1. CASE Owing
    BY <2>0, <2>1, <1>0, <1>2
  <2>2. CASE ~Owing
    BY <2>0, <2>2, <1>0, <1>2
  <2> QED BY <2>1, <2>2
<1>16. EntrySeqs(flight) \subseteq 1 .. MaxSeq
  BY <1>2, EntriesInRange
<1>17. TypeOK'
  <2>1. dropped' \in Nat
    <3>1. IsFiniteSet(1 .. MaxSeq) /\ BatchSeqs(Oldest) \subseteq 1 .. MaxSeq
      <4>0. 1 \in Int /\ MaxSeq \in Int
        BY <1>2
      <4>1. IsFiniteSet(1 .. MaxSeq)
        BY <4>0, FS_Interval
      <4>2. BatchSeqs(Oldest) \subseteq EntrySeqs(flight)
        BY DEF BatchSeqs, EntrySeqs
      <4> QED BY <4>1, <4>2, <1>16
    <3>2. Cardinality(BatchSeqs(Oldest)) \in Nat
      BY <3>1, FS_Subset, FS_CardinalityType
    <3> QED BY <3>2, <1>0 DEF EvictedCount
  <2>2. /\ DOMAIN records' \subseteq 1 .. MaxSeq
        /\ \A s \in DOMAIN records' : records'[s] \in [dropped : Nat, undeclared : Nat]
    <3>1. CASE ~Owing
      BY <3>1 DEF Drain, TypeOK
    <3>2. CASE Owing
      <4>1. records' = [s \in DOMAIN records \cup {seq + 1} |->
                          IF s = seq + 1
                          THEN [dropped |-> dropped, undeclared |-> undeclared]
                          ELSE records[s]]
        BY <3>2 DEF Drain
      <4> QED BY <4>1, <3>2, <1>15 DEF TypeOK
    <3> QED BY <3>1, <3>2
  <2>3. shipping' \subseteq [batch : Nat, seqs : SUBSET (1 .. MaxSeq)]
    BY <1>0, <1>2, <1>3
  <2>4. lost' \subseteq 1 .. MaxSeq
    BY <1>14, <1>16 DEF TypeOK
  <2> QED BY <2>1, <2>2, <2>3, <2>4, <1>0, <1>1, <1>2, <1>13, <1>15 DEF TypeOK, Entries
<1>18. Conservation'
  <2>1. SeqsOf(buf)' = SeqsOf(rest) /\ Injective(buf)' /\ SeqInjective(flight)'
    BY <1>0, <1>1, <1>13 DEF SeqsOf, Injective, SeqInjective
  <2>2. EntrySeqs(flight)' = (EntrySeqs(flight) \cup SeqsOf(out)) \ X
    BY <1>3, <1>14 DEF EntrySeqs
  <2>3. /\ SeqsOf(buf)' \cup EntrySeqs(flight)' \cup acked' \cup nacked' \cup lost' = 1 .. seq'
        /\ SeqsOf(buf)' \cap EntrySeqs(flight)' = {}
        /\ (SeqsOf(buf)' \cup EntrySeqs(flight)') \cap (acked' \cup nacked' \cup lost') = {}
        /\ acked' \cap nacked' = {} /\ acked' \cap lost' = {} /\ nacked' \cap lost' = {}
    <3> HIDE DEF new
    <3> QED BY <1>0, <1>1, <1>3, <1>14, <1>15, <2>1, <2>2, ConservationSets
  <2> QED BY <2>1, <2>3 DEF Conservation, Held, FlightSeqs, EntrySeqs, Injective, SeqInjective
<1>19. (Len(buf) =< MaxEvents)' /\ Contiguous(flight)'
  BY <1>0, <1>1, <1>13 DEF Contiguous
<1>20. \A i \in DOMAIN flight' :
           \/ \E j \in DOMAIN flight : flight'[i] = flight[j]
           \/ \E j \in DOMAIN out : flight'[i] = [batch |-> lastBatch + 1, seq |-> out[j]]
  BY <1>13, <1>3
<1>21. IdsHandedOut'
  <2>1. \A m \in shipping' \cup wire' : m.batch =< lastBatch + 1
    BY <1>0, <1>2 DEF IdsHandedOut, TypeOK
  <2>2. \A r \in replies' : r.batch =< lastBatch + 1
    BY <1>0, <1>2 DEF IdsHandedOut, TypeOK
  <2>3. \A i \in DOMAIN flight' : flight'[i].batch =< lastBatch + 1
    BY <1>20, <1>2
  <2> QED BY <2>1, <2>2, <2>3, <1>0 DEF IdsHandedOut
<1>22. MessagesCarryBatch'
  <2> SUFFICES ASSUME NEW m \in shipping' \cup wire', NEW i \in DOMAIN flight',
                      flight'[i].batch = m.batch
               PROVE  flight'[i].seq \in m.seqs
    BY DEF MessagesCarryBatch
  <2>1. CASE m \in shipping'
    <3>1. m.batch = lastBatch + 1 /\ m.seqs = SeqsOf(out)
      BY <2>1, <1>0, <1>2
    <3>2. PICK j \in DOMAIN out : flight'[i].seq = out[j]
      BY <3>1, <1>20, <1>2
    <3> QED BY <3>1, <3>2 DEF SeqsOf
  <2>2. CASE m \in wire
    <3>1. m.batch =< lastBatch /\ m.batch \in Nat
      BY <2>2 DEF IdsHandedOut, TypeOK
    <3>2. m.batch # lastBatch + 1
      BY <3>1, <1>2
    <3>3. PICK j \in DOMAIN flight : flight'[i] = flight[j]
      BY <3>2, <1>20
    <3> QED BY <3>3, <2>2 DEF MessagesCarryBatch
  <2> QED BY <2>1, <2>2, <1>0
<1>23. AnswersFollowRead'
  <2> SUFFICES ASSUME NEW r \in replies, NEW i \in DOMAIN flight', flight'[i].batch = r.batch
               PROVE  flight'[i].seq \in received
    BY <1>0 DEF AnswersFollowRead
  <2>1. r.batch =< lastBatch /\ r.batch \in Nat
    BY DEF IdsHandedOut, TypeOK
  <2>2. r.batch # lastBatch + 1
    BY <2>1, <1>2
  <2>3. PICK j \in DOMAIN flight : flight'[i] = flight[j]
    BY <2>2, <1>20
  <2> QED BY <2>3 DEF AnswersFollowRead
<1>24. ReleasedWereReceived'
  BY <1>0 DEF ReleasedWereReceived
<1> QED BY <1>17, <1>18, <1>19, <1>21, <1>22, <1>23, <1>24

\* requeue_unacked() at the start of a session.
LEMMA ConnectStep ==
    ASSUME IInv, Connect
    PROVE  IInv'
<1> USE DEF IInv
<1> DEFINE back == [i \in DOMAIN flight |-> flight[i].seq]
<1>0. /\ link' = "up" /\ sessions' = sessions + 1 /\ sessions < MaxSessions
      /\ buf' = Newest(Requeued) /\ dropped' = dropped + Len(Overflow(Requeued))
      /\ lost' = lost \cup SeqsOf(Overflow(Requeued)) /\ flight' = <<>> /\ raised' = {}
      /\ UNCHANGED <<seq, undeclared, records, lastBatch, shipping, wire, replies,
                     reading, received, acked, nacked, refusals>>
  BY DEF Connect
<1>1. /\ flight \in Seq(Entries) /\ buf \in Seq(1 .. MaxSeq) /\ MaxEvents \in Nat \ {0}
      /\ SeqInjective(flight) /\ Injective(buf) /\ SeqsOf(buf) \cap EntrySeqs(flight) = {}
  BY ConservationSets, BufferAssumption DEF TypeOK, Entries
<1>2. back \in Seq(1 .. MaxSeq) /\ Injective(back) /\ SeqsOf(back) = EntrySeqs(flight)
  <2>1. DOMAIN flight = 1 .. Len(flight) /\ Len(flight) \in Nat
        /\ \A i \in DOMAIN flight : flight[i].seq \in 1 .. MaxSeq
    BY <1>1, EntriesInRange
  <2>2. back \in Seq(1 .. MaxSeq)
    BY <2>1, IsASeq
  <2>3. Injective(back)
    BY <1>1 DEF Injective, SeqInjective
  <2>4. SeqsOf(back) = EntrySeqs(flight)
    BY DEF SeqsOf, EntrySeqs
  <2> QED BY <2>2, <2>3, <2>4
<1>3. Requeued = back \o buf
  BY DEF Requeued
<1> HIDE DEF back
<1>4. /\ Requeued \in Seq(1 .. MaxSeq) /\ Injective(Requeued)
      /\ SeqsOf(Requeued) = EntrySeqs(flight) \cup SeqsOf(buf)
  <2>1. SeqsOf(back) \cap SeqsOf(buf) = {}
    BY <1>1, <1>2
  <2> QED BY <2>1, <1>1, <1>2, <1>3, ConcatSeqs
<1>5. /\ Newest(Requeued) \in Seq(1 .. MaxSeq) /\ Overflow(Requeued) \in Seq(1 .. MaxSeq)
      /\ Len(Newest(Requeued)) =< MaxEvents
      /\ SeqsOf(Newest(Requeued)) \cup SeqsOf(Overflow(Requeued)) = SeqsOf(Requeued)
      /\ Injective(Newest(Requeued))
      /\ SeqsOf(Newest(Requeued)) \cap SeqsOf(Overflow(Requeued)) = {}
  BY <1>1, <1>4, BoundSplits
<1>6. SeqsOf(Overflow(Requeued)) \subseteq 1 .. MaxSeq /\ Len(Overflow(Requeued)) \in Nat
  BY <1>5, SeqsInSet
<1>7. TypeOK'
  <2>1. sessions' \in 0 .. MaxSessions /\ dropped' \in Nat
    BY <1>0, <1>6, BoundAssumption DEF TypeOK
  <2>2. lost' \subseteq 1 .. MaxSeq
    BY <1>0, <1>6 DEF TypeOK
  <2> QED BY <1>0, <1>5, <2>1, <2>2, EmptySeq DEF TypeOK
<1>8. Conservation'
  <2>1. SeqsOf(buf)' = SeqsOf(Newest(Requeued)) /\ Injective(buf)'
    BY <1>0, <1>5 DEF SeqsOf, Injective
  <2>2. EntrySeqs(flight)' = {} /\ SeqInjective(flight)'
    BY <1>0, EmptySeq DEF EntrySeqs, SeqInjective
  <2>3. /\ SeqsOf(buf)' \cup EntrySeqs(flight)' \cup acked' \cup nacked' \cup lost' = 1 .. seq'
        /\ SeqsOf(buf)' \cap EntrySeqs(flight)' = {}
        /\ (SeqsOf(buf)' \cup EntrySeqs(flight)') \cap (acked' \cup nacked' \cup lost') = {}
        /\ acked' \cap nacked' = {} /\ acked' \cap lost' = {} /\ nacked' \cap lost' = {}
    BY <1>0, <1>4, <1>5, <2>1, <2>2, ConservationSets
  <2> QED BY <2>1, <2>2, <2>3 DEF Conservation, Held, FlightSeqs, EntrySeqs, Injective, SeqInjective
<1>9. (Len(buf) =< MaxEvents)' /\ Contiguous(flight)'
  BY <1>0, <1>5, EmptySeq DEF Contiguous
<1>10. IdsHandedOut' /\ MessagesCarryBatch' /\ AnswersFollowRead' /\ ReleasedWereReceived'
  BY <1>0, EmptySeq DEF IdsHandedOut, MessagesCarryBatch, AnswersFollowRead, ReleasedWereReceived
<1> QED BY <1>7, <1>8, <1>9, <1>10

\* Steps that leave the buffer and the batches in flight alone.
LEMMA ChannelStep ==
    ASSUME IInv, \/ Refuse \/ FindRoom \/ Send \/ SendError
                 \/ ControlPlaneAck \/ ControlPlaneNack \/ UNCHANGED vars
    PROVE  IInv'
<1> USE DEF IInv
<1>1. UNCHANGED <<buf, flight, seq, records, lastBatch, acked, nacked, lost>>
  BY DEF Refuse, FindRoom, Send, SendError, ControlPlaneAck, ControlPlaneNack, Answer, vars,
         bufferVars, linkVars, historyVars
<1>2. Conservation' /\ (Len(buf) =< MaxEvents)' /\ Contiguous(flight)'
  <2>1. Conservation'
    BY <1>1 DEF Conservation, Held, FlightSeqs, SeqsOf
  <2>2. (Len(buf) =< MaxEvents)'
    BY <1>1
  <2>3. Contiguous(flight)'
    BY <1>1 DEF Contiguous
  <2> QED BY <2>1, <2>2, <2>3
<1>3. CASE Refuse
  BY <1>1, <1>2, <1>3 DEF Refuse, linkVars, TypeOK, IdsHandedOut, MessagesCarryBatch,
                          AnswersFollowRead, ReleasedWereReceived
<1>4. CASE FindRoom
  BY <1>1, <1>2, <1>4, BoundAssumption, SMTT(30) DEF FindRoom, bufferVars, linkVars, historyVars, TypeOK, IdsHandedOut,
                          MessagesCarryBatch, AnswersFollowRead, ReleasedWereReceived
<1>5. CASE Send
  BY <1>1, <1>2, <1>5 DEF Send, bufferVars, historyVars, TypeOK, IdsHandedOut,
                          MessagesCarryBatch, AnswersFollowRead, ReleasedWereReceived
<1>6. CASE SendError
  <2>1. raised' \subseteq Nat
    BY <1>6 DEF SendError, TypeOK
  <2> QED BY <1>1, <1>2, <1>6, <2>1 DEF SendError, bufferVars, TypeOK, IdsHandedOut,
                          MessagesCarryBatch, AnswersFollowRead, ReleasedWereReceived
<1>7. CASE ControlPlaneAck \/ ControlPlaneNack
  <2>1. PICK m \in wire, verdict \in {"ack", "nack"} : Answer(m, verdict)
    BY <1>7 DEF ControlPlaneAck, ControlPlaneNack
  <2>2. /\ wire' = wire \ {m} /\ received' = received \cup m.seqs
        /\ replies' = replies \cup {[batch |-> m.batch, verdict |-> verdict]}
        /\ UNCHANGED <<dropped, undeclared, link, sessions, shipping, reading, refusals, raised>>
    BY <2>1 DEF Answer, bufferVars
  <2>3. m.batch \in Nat /\ m.batch =< lastBatch /\ m.seqs \subseteq 1 .. MaxSeq
    BY DEF TypeOK, IdsHandedOut
  <2>4. TypeOK'
    <3>0. [batch |-> m.batch, verdict |-> verdict] \in [batch : Nat, verdict : {"ack", "nack"}]
      BY <2>3
    <3>1. replies' \subseteq [batch : Nat, verdict : {"ack", "nack"}] /\ received' \subseteq 1 .. MaxSeq
      <4>1. received' \subseteq 1 .. MaxSeq
        BY <2>2, <2>3 DEF TypeOK
      <4>2. replies \subseteq [batch : Nat, verdict : {"ack", "nack"}]
        BY DEF TypeOK
      <4> QED BY <4>1, <4>2, <3>0, <2>2, Zenon
    <3>2. wire' \subseteq [batch : Nat, seqs : SUBSET (1 .. MaxSeq)]
      BY <2>2 DEF TypeOK
    <3> QED BY <3>1, <3>2, <2>2, <1>1 DEF TypeOK
  <2>5. IdsHandedOut' /\ MessagesCarryBatch'
    BY <2>2, <2>3, <1>1 DEF IdsHandedOut, MessagesCarryBatch
  <2>6. AnswersFollowRead' /\ ReleasedWereReceived'
    BY <2>2, <1>1 DEF AnswersFollowRead, MessagesCarryBatch, ReleasedWereReceived
  <2> QED BY <2>4, <2>5, <2>6, <1>2
<1>8. CASE UNCHANGED vars
  BY <1>1, <1>2, <1>8 DEF vars, bufferVars, linkVars, historyVars, TypeOK, IdsHandedOut,
                          MessagesCarryBatch, AnswersFollowRead, ReleasedWereReceived
<1> QED BY <1>3, <1>4, <1>5, <1>6, <1>7, <1>8

\* Every step of the buffer, of the events loop, of the control plane and of the
\* connection preserves the invariant.
LEMMA NextIInv == IInv /\ [Next]_vars => IInv'
<1> SUFFICES ASSUME IInv, [Next]_vars PROVE IInv'
  OBVIOUS
<1>0. /\ reading \in 0 .. Feeders /\ Feeders \in Nat /\ link \in {"up", "down"}
      /\ 0 \in Nat /\ 1 \in Nat
  BY BoundAssumption DEF IInv, TypeOK
<1>1. CASE Emit
  BY <1>0, <1>1, BufferExtendStep DEF Emit, linkVars
<1>2. ASSUME NEW n \in 0 .. MaxSegment, NEW refused \in 0 .. MaxSegment, Feed(n, refused)
      PROVE  IInv'
  <2>1. n \in Nat /\ refused \in Nat /\ reading' \in 0 .. Feeders
    BY <1>0, <1>2, BoundAssumption DEF Feed
  <2> QED BY <2>1, <1>0, <1>2, BufferExtendStep DEF Feed, linkVars
<1>3. CASE Disconnect
  <2>1. shipping' \subseteq shipping /\ wire' \subseteq wire /\ replies' \subseteq replies
    BY <1>3 DEF Disconnect
  <2> QED BY <2>1, <1>0, <1>3, BufferExtendStep DEF Disconnect
<1>4. ASSUME NEW r \in replies, HandleAck(r) \/ HandleNack(r) PROVE IInv'
  BY <1>4, AckStep, NackStep
<1> QED BY <1>1, <1>2, <1>3, <1>4, DrainStep, ConnectStep, ChannelStep DEF Next

\* The inductive invariant holds of every reachable state.
THEOREM BufferInvariance == Spec => []IInv
BY InitIInv, NextIInv, PTL DEF Spec

\* Type correctness of the event buffer (events.py, class EventBuffer) and of the
\* channel around it, for every bound.
THEOREM TypeCorrect == Spec => []TypeOK
<1>1. IInv => TypeOK
  BY DEF IInv
<1> QED BY <1>1, BufferInvariance, PTL

\* No event is forgotten or held twice, whatever the capacities, the batch size,
\* the number of connections and the order of the answers: extend(), drain() with
\* its eviction, ack(), nack() and requeue_unacked() move each seq exactly once.
THEOREM EventsConserved == Spec => []Conservation
<1>1. IInv => Conservation
  BY DEF IInv
<1> QED BY <1>1, BufferInvariance, PTL

\* Only events the control plane has read are released as acked or nacked
\* (handle_events_batch_ack, handle_events_batch_nack).
THEOREM ReleaseFollowsReceipt == Spec => []ReleasedWereReceived
<1>1. IInv => ReleasedWereReceived
  BY DEF IInv
<1> QED BY <1>1, BufferInvariance, PTL

----------------------------------------------------------------------------
(***************************************************************************)
(* Order.  QueueSound speaks of one line, flight then buf; what a step     *)
(* does to it is easier to say of its parts: each is sorted, and what is   *)
(* in flight is older than what is buffered.  The last is about the sets   *)
(* only, which Conservation already accounts for.                          *)
(***************************************************************************)
SeqLine(q) == [i \in DOMAIN q |-> q[i].seq]

\* q increases once the elements of R are left aside.
Sorted(q, R) == \A i, j \in DOMAIN q : i < j /\ q[i] \notin R /\ q[j] \notin R => q[i] < q[j]

\* Every element of A is smaller than every element of B, R left aside.
Older(A, B, R) == \A x \in A \ R, y \in B \ R : x < y

LineKept ==
    /\ Sorted(SeqLine(flight), DOMAIN records)
    /\ Sorted(buf, DOMAIN records)
    /\ Older(EntrySeqs(flight), SeqsOf(buf), DOMAIN records)

QueueInv == IInv /\ LineKept /\ Cardinality(InFlightIds) =< MaxInFlight

\* Both halves of a sorted sequence are sorted, and the first is older.
LEMMA SortedSplit ==
    ASSUME NEW q \in Seq(Nat), NEW k \in 0 .. Len(q), NEW R, Sorted(q, R)
    PROVE  LET front == SubSeq(q, 1, k)
               back == SubSeq(q, k + 1, Len(q))
           IN  Sorted(front, R) /\ Sorted(back, R) /\ Older(SeqsOf(front), SeqsOf(back), R)
<1> DEFINE front == SubSeq(q, 1, k)
           back == SubSeq(q, k + 1, Len(q))
           m == Len(q) - k
<1>1. /\ DOMAIN q = 1 .. Len(q) /\ Len(q) \in Nat /\ k \in Nat /\ m \in Nat /\ Len(q) = k + m
  BY LenProperties
<1> HIDE DEF m
<1>2. front \in Seq(Nat) /\ Len(front) = k /\ \A i \in 1 .. k : front[i] = q[i] /\ i \in DOMAIN q
  BY <1>1, SubSeqProperties
<1>3. back \in Seq(Nat) /\ Len(back) = m /\ \A i \in 1 .. m : back[i] = q[k + i] /\ k + i \in DOMAIN q
  <2>1. /\ back \in Seq(Nat)
        /\ Len(back) = IF k + 1 =< Len(q) THEN Len(q) - (k + 1) + 1 ELSE 0
        /\ \A i \in 1 .. Len(q) - (k + 1) + 1 : back[i] = q[(k + 1) + i - 1]
    BY <1>1, SubSeqProperties
  <2>2. /\ Len(q) - (k + 1) + 1 = m
        /\ \A i \in 1 .. m : (k + 1) + i - 1 = k + i /\ k + i \in DOMAIN q
    BY <1>1
  <2> HIDE DEF back
  <2>3. Len(back) = m
    BY <2>1, <2>2, <1>1
  <2> QED BY <2>1, <2>2, <2>3
<1>4. DOMAIN front = 1 .. k /\ DOMAIN back = 1 .. m
  BY <1>2, <1>3, LenProperties
<1> HIDE DEF front, back
<1>5. Sorted(front, R)
  BY <1>2, <1>4 DEF Sorted
<1>6. Sorted(back, R)
  <2> SUFFICES ASSUME NEW i \in 1 .. m, NEW j \in 1 .. m, i < j, back[i] \notin R, back[j] \notin R
               PROVE  back[i] < back[j]
    BY <1>4 DEF Sorted
  <2>1. k + i < k + j
    BY <1>1
  <2> QED BY <2>1, <1>3 DEF Sorted
<1>7. Older(SeqsOf(front), SeqsOf(back), R)
  <2> SUFFICES ASSUME NEW i \in 1 .. k, NEW j \in 1 .. m, front[i] \notin R, back[j] \notin R
               PROVE  front[i] < back[j]
    BY <1>4 DEF Older, SeqsOf
  <2>1. i < k + j
    BY <1>1
  <2> QED BY <2>1, <1>2, <1>3 DEF Sorted
<1> QED BY <1>5, <1>6, <1>7 DEF front, back

\* A sorted sequence after a sorted and older one.
LEMMA SortedConcat ==
    ASSUME NEW p \in Seq(Nat), NEW q \in Seq(Nat), NEW R, Sorted(p, R), Sorted(q, R),
           Older(SeqsOf(p), SeqsOf(q), R)
    PROVE  Sorted(p \o q, R)
<1> DEFINE pq == p \o q
<1>1. /\ pq \in Seq(Nat) /\ Len(pq) = Len(p) + Len(q)
      /\ \A i \in 1 .. Len(p) : pq[i] = p[i]
      /\ \A i \in 1 .. Len(q) : pq[Len(p) + i] = q[i]
  BY ConcatProperties
<1>2. /\ DOMAIN p = 1 .. Len(p) /\ DOMAIN q = 1 .. Len(q) /\ DOMAIN pq = 1 .. (Len(p) + Len(q))
      /\ Len(p) \in Nat /\ Len(q) \in Nat
  BY <1>1, LenProperties
<1> HIDE DEF pq
<1>3. ASSUME NEW i \in DOMAIN pq, i > Len(p)
      PROVE  i - Len(p) \in DOMAIN q /\ pq[i] = q[i - Len(p)]
  <2>1. i - Len(p) \in 1 .. Len(q) /\ Len(p) + (i - Len(p)) = i
    BY <1>2, <1>3
  <2> QED BY <2>1, <1>1, <1>2
<1>4. ASSUME NEW i \in DOMAIN pq, NEW j \in DOMAIN pq, i < j, pq[i] \notin R, pq[j] \notin R
      PROVE  pq[i] < pq[j]
  <2>1. CASE j =< Len(p)
    <3>1. i \in DOMAIN p /\ j \in DOMAIN p /\ pq[i] = p[i] /\ pq[j] = p[j]
      BY <2>1, <1>1, <1>2, <1>4
    <3> QED BY <3>1, <1>4 DEF Sorted
  <2>2. CASE i > Len(p)
    <3>1. j > Len(p) /\ i - Len(p) < j - Len(p)
      BY <2>2, <1>2, <1>4
    <3> QED BY <2>2, <3>1, <1>3, <1>4 DEF Sorted
  <2>3. CASE i =< Len(p) /\ j > Len(p)
    <3>1. pq[i] = p[i] /\ i \in DOMAIN p
      BY <2>3, <1>1, <1>2
    <3>2. j - Len(p) \in DOMAIN q /\ pq[j] = q[j - Len(p)]
      BY <2>3, <1>3
    <3> QED BY <3>1, <3>2, <1>4 DEF Older, SeqsOf
  <2> QED BY <2>1, <2>2, <2>3, <1>2
<1> QED BY <1>4 DEF Sorted, pq

\* Dropping the oldest keeps the order.
LEMMA NewestSorted ==
    ASSUME NEW q \in Seq(Nat), NEW R, Sorted(q, R), MaxEvents \in Nat \ {0}
    PROVE  Sorted(Newest(q), R)
<1>1. CASE Len(q) > MaxEvents
  <2> DEFINE k == Len(q) - MaxEvents
  <2>1. k \in 0 .. Len(q) /\ Newest(q) = SubSeq(q, k + 1, Len(q))
    BY <1>1, LenProperties DEF Newest
  <2> HIDE DEF k
  <2> QED BY <2>1, SortedSplit
<1>2. CASE ~(Len(q) > MaxEvents)
  BY <1>2 DEF Newest
<1> QED BY <1>1, <1>2

\* The seqs are natural numbers, none beyond the last one stamped.
LEMMA LineTyped ==
    ASSUME IInv
    PROVE  /\ seq \in Nat /\ buf \in Seq(Nat) /\ SeqLine(flight) \in Seq(Nat) /\ flight \in Seq(Entries)
           /\ SeqsOf(SeqLine(flight)) = EntrySeqs(flight)
           /\ SeqsOf(buf) \subseteq 1 .. seq /\ EntrySeqs(flight) \subseteq 1 .. seq
           /\ Contiguous(flight) /\ SeqInjective(flight)
           /\ MaxEvents \in Nat \ {0} /\ MaxSeq \in Nat /\ MaxInFlight \in Nat \ {0}
<1>1. /\ seq \in Nat /\ buf \in Seq(1 .. MaxSeq) /\ flight \in Seq(Entries) /\ Contiguous(flight)
      /\ MaxEvents \in Nat \ {0} /\ MaxSeq \in Nat /\ MaxInFlight \in Nat \ {0}
  BY BufferAssumption, BoundAssumption DEF IInv, TypeOK, Entries
<1>2. SeqsOf(buf) \subseteq 1 .. seq /\ EntrySeqs(flight) \subseteq 1 .. seq /\ SeqInjective(flight)
  BY ConservationSets DEF IInv
<1>3. buf \in Seq(Nat)
  BY <1>1, SeqsInSet, IsASeq, ElementOfSeq
<1>4. SeqLine(flight) \in Seq(Nat) /\ SeqsOf(SeqLine(flight)) = EntrySeqs(flight)
  <2>1. DOMAIN flight = 1 .. Len(flight) /\ Len(flight) \in Nat
        /\ \A i \in DOMAIN flight : flight[i].seq \in Nat
    BY <1>1, EntriesInRange
  <2>2. SeqLine(flight) \in Seq(Nat)
    BY <2>1, IsASeq DEF SeqLine
  <2> QED BY <2>2 DEF SeqLine, SeqsOf, EntrySeqs
<1> QED BY <1>1, <1>2, <1>3, <1>4

\* The line QueueSound speaks of is sorted when its parts are.
LEMMA LineIsOrder ==
    ASSUME IInv, LineKept
    PROVE  OrderKept
<1> DEFINE line == SeqLine(flight) \o buf
<1>1. Sorted(line, DOMAIN records)
  BY LineTyped, SortedConcat DEF LineKept
<1>2. line = [i \in DOMAIN flight |-> flight[i].seq] \o buf
  BY DEF SeqLine
<1> HIDE DEF line
<1> QED BY <1>1, <1>2 DEF OrderKept, Sorted

\* extend() appends what is newer than all that is held.
LEMMA ExtendSorts ==
    ASSUME IInv, NEW n \in Nat, NEW refused \in Nat, Extend(n, refused), NEW R, Sorted(buf, R)
    PROVE  Sorted(buf', R) /\ SeqsOf(buf') \subseteq SeqsOf(buf) \cup (seq + 1 .. seq + n)
<1> DEFINE q == buf \o Stamp(n)
<1>1. Stamp(n) \in Seq(Nat) /\ Sorted(Stamp(n), R) /\ SeqsOf(Stamp(n)) \subseteq seq + 1 .. seq + n
  <2>1. seq \in Nat /\ DOMAIN Stamp(n) = 1 .. n /\ \A i \in 1 .. n : Stamp(n)[i] = seq + i
    BY LineTyped DEF Stamp
  <2>2. \A i \in 1 .. n : seq + i \in Nat /\ seq + i \in seq + 1 .. seq + n
    BY <2>1
  <2>3. Stamp(n) \in Seq(Nat)
    BY <2>2, IsASeq DEF Stamp
  <2>4. Sorted(Stamp(n), R)
    BY <2>1 DEF Sorted
  <2> QED BY <2>1, <2>2, <2>3, <2>4 DEF SeqsOf
<1>2. Older(SeqsOf(buf), SeqsOf(Stamp(n)), R)
  BY <1>1, LineTyped DEF Older
<1>3. q \in Seq(Nat) /\ Sorted(q, R) /\ SeqsOf(q) = SeqsOf(buf) \cup SeqsOf(Stamp(n))
  BY <1>1, <1>2, LineTyped, SortedConcat, ConcatSeqs
<1>4. buf' = Newest(q)
  BY DEF Extend
<1> HIDE DEF q
<1>5. Sorted(Newest(q), R) /\ SeqsOf(Newest(q)) \subseteq SeqsOf(q)
  BY <1>3, LineTyped, NewestSorted, BoundSplits
<1> QED BY <1>1, <1>3, <1>4, <1>5

\* Fewer elements on either side are as old as before, and new ones at the end
\* of the buffer are the youngest.
LEMMA OlderKept ==
    ASSUME NEW A, NEW B, NEW C, NEW D, NEW R, NEW n \in Nat, NEW m \in Nat, Older(A, B, R),
           A \subseteq 1 .. n, C \subseteq A, D \subseteq B \cup (n + 1 .. m)
    PROVE  Older(C, D, R)
BY DEF Older

\* A batch leaves flight and the others keep their order.
LEMMA WithoutSorted ==
    ASSUME NEW q \in Seq(Entries), Contiguous(q), NEW b \in Nat, NEW R, Sorted(SeqLine(q), R)
    PROVE  /\ Sorted(SeqLine(Without(q, b)), R)
           /\ EntrySeqs(Without(q, b)) \subseteq EntrySeqs(q)
<1> DEFINE w == Without(q, b)
<1>1. \A i \in DOMAIN w : \E j \in DOMAIN q : w[i] = q[j]
  BY WithoutKeepsOthers
<1>2. \A i, k \in DOMAIN w : i < k => \E j, l \in DOMAIN q : j < l /\ w[i] = q[j] /\ w[k] = q[l]
  BY WithoutKeepsOthers
<1> HIDE DEF w
<1>3. Sorted(SeqLine(w), R)
  <2> SUFFICES ASSUME NEW i \in DOMAIN w, NEW k \in DOMAIN w, i < k, w[i].seq \notin R, w[k].seq \notin R
               PROVE  w[i].seq < w[k].seq
    BY DEF Sorted, SeqLine
  <2>1. PICK j \in DOMAIN q, l \in DOMAIN q : j < l /\ w[i] = q[j] /\ w[k] = q[l]
    BY <1>2
  <2> QED BY <2>1 DEF Sorted, SeqLine
<1> QED BY <1>1, <1>3 DEF w, EntrySeqs

\* The number of batches in flight does not grow when none is added.
LEMMA FewerBatches ==
    ASSUME IInv, Cardinality(InFlightIds) =< MaxInFlight, NEW q, Ids(q) \subseteq InFlightIds
    PROVE  Cardinality(Ids(q)) =< MaxInFlight
<1>1. IsFiniteSet(InFlightIds)
  <2>1. InFlightIds \subseteq 0 .. lastBatch /\ lastBatch \in Nat
    <3>1. \A i \in DOMAIN flight : flight[i].batch \in Nat
      BY LineTyped, EntriesInRange
    <3>2. lastBatch \in Nat /\ \A i \in DOMAIN flight : flight[i].batch =< lastBatch
      BY DEF IInv, IdsHandedOut, TypeOK
    <3> QED BY <3>1, <3>2 DEF InFlightIds
  <2>2. IsFiniteSet(0 .. lastBatch)
    BY <2>1, FS_Interval
  <2> QED BY <2>1, <2>2, FS_Subset
<1>2. /\ Cardinality(Ids(q)) \in Nat /\ Cardinality(InFlightIds) \in Nat
      /\ Cardinality(Ids(q)) =< Cardinality(InFlightIds)
  BY <1>1, FS_Subset, FS_CardinalityType
<1> QED BY <1>2, LineTyped

\* extend() beside a flight that stays or loses a batch.
LEMMA ExtendQueue ==
    ASSUME QueueInv, IInv', NEW n \in Nat, NEW refused \in Nat, Extend(n, refused),
           DOMAIN records' = DOMAIN records,
           Sorted(SeqLine(flight'), DOMAIN records), EntrySeqs(flight') \subseteq EntrySeqs(flight),
           Ids(flight') \subseteq InFlightIds
    PROVE  QueueInv'
<1>1. IInv /\ LineKept /\ Cardinality(InFlightIds) =< MaxInFlight
  BY DEF QueueInv
<1>2. /\ Sorted(buf', DOMAIN records)
      /\ SeqsOf(buf') \subseteq SeqsOf(buf) \cup (seq + 1 .. seq + n)
  BY <1>1, ExtendSorts DEF LineKept
<1>3. Older(EntrySeqs(flight'), SeqsOf(buf'), DOMAIN records)
  <2>1. seq \in Nat /\ seq + n \in Nat /\ EntrySeqs(flight) \subseteq 1 .. seq
    BY <1>1, LineTyped
  <2>2. Older(EntrySeqs(flight), SeqsOf(buf), DOMAIN records)
    BY <1>1 DEF LineKept
  <2> QED BY <2>1, <2>2, <1>2, OlderKept
<1>4. LineKept'
  BY <1>2, <1>3 DEF LineKept, SeqLine, Sorted, Older, EntrySeqs, SeqsOf
<1>5. Cardinality(Ids(flight')) =< MaxInFlight
  BY <1>1, FewerBatches
<1>6. Ids(flight') = InFlightIds'
  BY DEF Ids, InFlightIds
<1> QED BY <1>4, <1>5, <1>6 DEF QueueInv

\* A flight that loses a batch, or nothing, beside a buffer that stays.
LEMMA ShrinkQueue ==
    ASSUME QueueInv, IInv', buf' = buf, DOMAIN records' = DOMAIN records,
           Sorted(SeqLine(flight'), DOMAIN records), EntrySeqs(flight') \subseteq EntrySeqs(flight),
           Ids(flight') \subseteq InFlightIds
    PROVE  QueueInv'
<1>1. IInv /\ LineKept /\ Cardinality(InFlightIds) =< MaxInFlight
  BY DEF QueueInv
<1>2. LineKept'
  BY <1>1 DEF LineKept, SeqLine, Sorted, Older, EntrySeqs, SeqsOf
<1>3. Cardinality(Ids(flight')) =< MaxInFlight
  BY <1>1, FewerBatches
<1>4. Ids(flight') = InFlightIds'
  BY DEF Ids, InFlightIds
<1> QED BY <1>2, <1>3, <1>4 DEF QueueInv

\* An answer takes one batch out of flight.
LEMMA AnswerQueue ==
    ASSUME QueueInv, IInv', NEW r \in replies, HandleAck(r) \/ HandleNack(r)
    PROVE  QueueInv'
<1>1. IInv /\ LineKept /\ r.batch \in Nat /\ records' = records /\ flight' = Without(flight, r.batch)
  BY DEF QueueInv, HandleAck, HandleNack, IInv, TypeOK
<1>2. /\ Sorted(SeqLine(flight'), DOMAIN records) /\ EntrySeqs(flight') \subseteq EntrySeqs(flight)
      /\ Ids(flight') \subseteq InFlightIds
  <2>1. flight \in Seq(Entries) /\ Contiguous(flight) /\ Sorted(SeqLine(flight), DOMAIN records)
    BY <1>1, LineTyped DEF LineKept
  <2>2. /\ Sorted(SeqLine(Without(flight, r.batch)), DOMAIN records)
        /\ EntrySeqs(Without(flight, r.batch)) \subseteq EntrySeqs(flight)
    BY <1>1, <2>1, WithoutSorted
  <2>3. Ids(Without(flight, r.batch)) = Ids(flight) \ {r.batch}
    BY <1>1, <2>1, WithoutKeepsOthers
  <2> QED BY <1>1, <2>2, <2>3 DEF Ids, InFlightIds
<1>3. CASE buf' = buf
  BY <1>1, <1>2, <1>3, ShrinkQueue
<1>4. CASE Extend(1, 0)
  BY <1>1, <1>2, <1>4, ExtendQueue
<1> QED BY <1>3, <1>4 DEF HandleAck, HandleNack

\* requeue_unacked(): the batches in flight are older than the buffer they go
\* in front of.
LEMMA ConnectQueue ==
    ASSUME QueueInv, IInv', Connect
    PROVE  QueueInv'
<1>1. IInv /\ LineKept /\ buf' = Newest(Requeued) /\ flight' = <<>> /\ records' = records
  BY DEF QueueInv, Connect
<1>2. Requeued = SeqLine(flight) \o buf
  BY DEF Requeued, SeqLine
<1>3. Requeued \in Seq(Nat) /\ Sorted(Requeued, DOMAIN records)
  BY <1>1, <1>2, LineTyped, SortedConcat, ConcatProperties DEF LineKept
<1>4. Sorted(buf', DOMAIN records)
  BY <1>1, <1>3, LineTyped, NewestSorted
<1>5. DOMAIN flight' = {}
  BY <1>1, EmptySeq
<1>6. Sorted(SeqLine(flight'), DOMAIN records) /\ EntrySeqs(flight') = {} /\ Ids(flight') = {}
  BY <1>5 DEF Sorted, SeqLine, EntrySeqs, Ids
<1>7. LineKept'
  BY <1>1, <1>4, <1>6 DEF LineKept, SeqLine, Sorted, Older, EntrySeqs, SeqsOf
<1>8. Cardinality(Ids(flight')) =< MaxInFlight
  BY <1>6, <1>1, FewerBatches DEF QueueInv
<1>9. Ids(flight') = InFlightIds'
  BY DEF Ids, InFlightIds
<1> QED BY <1>7, <1>8, <1>9 DEF QueueInv

\* drain(): a dropped_events record jumps the queue and nothing else does; the
\* eviction takes the oldest batch and makes room for the new one.
LEMMA DrainQueue ==
    ASSUME QueueInv, IInv', Drain
    PROVE  QueueInv'
<1> DEFINE new == IF Owing THEN {seq + 1} ELSE {}
           R == DOMAIN records \cup new
           out == SubSeq(Fronted, 1, Taken)
           rest == SubSeq(Fronted, Taken + 1, Len(Fronted))
<1>0. /\ Owing => seq < MaxSeq
      /\ Fronted # <<>> /\ buf' = rest /\ DOMAIN records' = R
      /\ flight' = IF Evicts THEN Without(Drained, Oldest) ELSE Drained
  BY DEF Drain
<1>1. IInv /\ LineKept /\ Cardinality(InFlightIds) =< MaxInFlight
  BY DEF QueueInv
<1>2. /\ Taken \in 0 .. Len(Fronted) /\ out \in Seq(1 .. MaxSeq) /\ rest \in Seq(1 .. MaxSeq)
      /\ SeqsOf(out) \cup SeqsOf(rest) = SeqsOf(buf) \cup new
  BY <1>0, <1>1, DrainSplit
<1>3. /\ DOMAIN out = 1 .. Taken
      /\ Drained \in Seq(Entries) /\ Contiguous(Drained)
      /\ DOMAIN Drained = 1 .. (Len(flight) + Taken)
      /\ \A i \in DOMAIN Drained :
            \/ i \in DOMAIN flight /\ Drained[i] = flight[i]
            \/ /\ i > Len(flight) /\ i - Len(flight) \in DOMAIN out
               /\ Drained[i] = [batch |-> lastBatch + 1, seq |-> out[i - Len(flight)]]
      /\ \A i \in DOMAIN flight : i \in DOMAIN Drained /\ Drained[i] = flight[i]
      /\ EntrySeqs(Drained) = EntrySeqs(flight) \cup SeqsOf(out)
      /\ Evicts => 1 \in DOMAIN flight /\ Oldest \in Nat
  BY <1>0, <1>1, DrainFlight
<1>4. /\ Sorted(SeqLine(flight), R) /\ Sorted(buf, R) /\ Older(EntrySeqs(flight), SeqsOf(buf), R)
  BY <1>1 DEF LineKept, Sorted, Older
<1>5. Fronted \in Seq(Nat) /\ Sorted(Fronted, R)
  <2>1. CASE ~Owing
    BY <2>1, <1>1, <1>4, LineTyped DEF Fronted
  <2>2. CASE Owing
    <3> DEFINE p == <<seq + 1>>
    <3>1. p \in Seq(Nat) /\ Fronted = p \o buf /\ buf \in Seq(Nat)
      BY <2>2, <1>1, LineTyped DEF Fronted
    <3>2. Sorted(p, R) /\ SeqsOf(p) = {seq + 1} /\ seq + 1 \in R
      <4>1. DOMAIN p = {1} /\ p[1] = seq + 1
        OBVIOUS
      <4> QED BY <2>2, <4>1 DEF Sorted, SeqsOf
    <3> HIDE DEF p, R
    <3>3. Older(SeqsOf(p), SeqsOf(buf), R)
      BY <3>2 DEF Older
    <3> QED BY <3>1, <3>2, <3>3, <1>4, SortedConcat, ConcatProperties
  <2> QED BY <2>1, <2>2
<1>6. Sorted(out, R) /\ Sorted(rest, R) /\ Older(SeqsOf(out), SeqsOf(rest), R)
  BY <1>2, <1>5, SortedSplit, Zenon
<1> HIDE DEF out, rest
<1>7. Older(EntrySeqs(flight), SeqsOf(out) \cup SeqsOf(rest), R)
  BY <1>2, <1>4 DEF Older
<1> HIDE DEF new, R
<1>8. Sorted(SeqLine(Drained), R) /\ Older(EntrySeqs(Drained), SeqsOf(rest), R)
  <2>1. ASSUME NEW i \in DOMAIN Drained, NEW j \in DOMAIN Drained, i < j,
               Drained[i].seq \notin R, Drained[j].seq \notin R
        PROVE  Drained[i].seq < Drained[j].seq
    <3>0. Len(flight) \in Nat /\ DOMAIN flight = 1 .. Len(flight) /\ Taken \in Nat
      BY <1>1, <1>2, LineTyped, EntriesInRange
    <3>1. CASE i \in DOMAIN flight /\ j \in DOMAIN flight
      BY <3>1, <2>1, <1>3, <1>4 DEF Sorted, SeqLine
    <3>2. CASE i \in DOMAIN flight /\ j > Len(flight)
      <4>1. Drained[i] = flight[i] /\ j - Len(flight) \in DOMAIN out /\ Drained[j].seq = out[j - Len(flight)]
        BY <3>0, <3>2, <1>3
      <4> QED BY <4>1, <3>2, <2>1, <1>7 DEF Older, EntrySeqs, SeqsOf
    <3>3. CASE i > Len(flight) /\ j > Len(flight)
      <4>1. /\ i - Len(flight) \in DOMAIN out /\ Drained[i].seq = out[i - Len(flight)]
            /\ j - Len(flight) \in DOMAIN out /\ Drained[j].seq = out[j - Len(flight)]
        BY <3>0, <3>3, <1>3
      <4>2. i - Len(flight) < j - Len(flight)
        BY <3>0, <2>1, <1>3
      <4> QED BY <4>1, <4>2, <2>1, <1>6 DEF Sorted
    <3> QED BY <3>0, <3>1, <3>2, <3>3, <2>1, <1>3
  <2>2. Sorted(SeqLine(Drained), R)
    BY <2>1 DEF Sorted, SeqLine
  <2> QED BY <2>2, <1>3, <1>6, <1>7 DEF Older
<1>9. Sorted(SeqLine(flight'), R) /\ EntrySeqs(flight') \subseteq EntrySeqs(Drained)
  <2>1. CASE ~Evicts
    BY <2>1, <1>0, <1>8
  <2>2. CASE Evicts
    BY <2>2, <1>0, <1>3, <1>8, WithoutSorted
  <2> QED BY <2>1, <2>2
<1>10. LineKept'
  <2>1. Older(EntrySeqs(flight'), SeqsOf(rest), R)
    BY <1>8, <1>9 DEF Older
  <2> QED BY <2>1, <1>0, <1>6, <1>9 DEF LineKept, SeqLine, Sorted, Older, EntrySeqs, SeqsOf
<1>11. Cardinality(InFlightIds') =< MaxInFlight
  <2> DEFINE N == InFlightIds \cup {lastBatch + 1}
  <2>1. IsFiniteSet(InFlightIds) /\ lastBatch + 1 \notin InFlightIds
    <3>1. \A i \in DOMAIN flight : flight[i].batch \in Nat
      BY <1>1, LineTyped, EntriesInRange
    <3>2. lastBatch \in Nat /\ \A i \in DOMAIN flight : flight[i].batch =< lastBatch
      BY <1>1 DEF IInv, IdsHandedOut, TypeOK
    <3>3. InFlightIds \subseteq 0 .. lastBatch
      BY <3>1, <3>2 DEF InFlightIds
    <3>4. IsFiniteSet(0 .. lastBatch)
      BY <3>2, FS_Interval
    <3>5. lastBatch + 1 \notin 0 .. lastBatch
      BY <3>2
    <3> QED BY <3>3, <3>4, <3>5, FS_Subset
  <2>2. /\ IsFiniteSet(N) /\ Cardinality(N) = Cardinality(InFlightIds) + 1
        /\ Cardinality(InFlightIds) \in Nat /\ MaxInFlight \in Nat
    BY <2>1, <1>1, LineTyped, FS_AddElement, FS_CardinalityType
  <2>3. Ids(Drained) \subseteq N
    BY <1>3 DEF Ids, InFlightIds
  <2>4. InFlightIds' = Ids(flight')
    BY DEF InFlightIds, Ids
  <2> HIDE DEF N
  <2>5. CASE ~Evicts
    <3>1. Cardinality(Ids(Drained)) =< Cardinality(N) /\ Cardinality(Ids(Drained)) \in Nat
      BY <2>2, <2>3, FS_Subset, FS_CardinalityType
    <3>2. Cardinality(InFlightIds) + 1 =< MaxInFlight
      BY <2>2, <2>5 DEF Evicts
    <3> QED BY <3>1, <3>2, <2>2, <2>4, <2>5, <1>0
  <2>6. CASE Evicts
    <3>1. Oldest \in N /\ Ids(flight') \subseteq N \ {Oldest}
      <4>1. Oldest \in InFlightIds
        BY <2>6, <1>3 DEF Oldest, InFlightIds
      <4>2. Ids(Without(Drained, Oldest)) = Ids(Drained) \ {Oldest}
        BY <2>6, <1>3, WithoutKeepsOthers
      <4> QED BY <4>1, <4>2, <2>3, <2>6, <1>0 DEF N
    <3>2. IsFiniteSet(N \ {Oldest}) /\ Cardinality(N \ {Oldest}) = Cardinality(N) - 1
      BY <3>1, <2>2, FS_RemoveElement
    <3>3. Cardinality(Ids(flight')) =< Cardinality(N \ {Oldest}) /\ Cardinality(Ids(flight')) \in Nat
      BY <3>1, <3>2, FS_Subset, FS_CardinalityType
    <3> QED BY <3>2, <3>3, <2>2, <2>4, <1>1
  <2> QED BY <2>5, <2>6
<1> QED BY <1>10, <1>11 DEF QueueInv

\* Every step keeps the line in order and the batches within their cap.
LEMMA NextQueue == QueueInv /\ [Next]_vars => QueueInv'
<1> SUFFICES ASSUME QueueInv, [Next]_vars PROVE QueueInv'
  OBVIOUS
<1>0. IInv /\ IInv' /\ 0 \in Nat /\ 1 \in Nat
  BY NextIInv DEF QueueInv
<1>1. ASSUME NEW n \in Nat, NEW refused \in Nat, Extend(n, refused), flight' = flight, records' = records
      PROVE  QueueInv'
  <2>1. /\ Sorted(SeqLine(flight'), DOMAIN records) /\ EntrySeqs(flight') \subseteq EntrySeqs(flight)
        /\ Ids(flight') \subseteq InFlightIds
    BY <1>1 DEF QueueInv, LineKept, Ids, InFlightIds
  <2> QED BY <2>1, <1>0, <1>1, ExtendQueue
<1>2. CASE UNCHANGED <<buf, flight, records>>
  <2>1. /\ Sorted(SeqLine(flight'), DOMAIN records) /\ EntrySeqs(flight') \subseteq EntrySeqs(flight)
        /\ Ids(flight') \subseteq InFlightIds
    BY <1>2 DEF QueueInv, LineKept, Ids, InFlightIds
  <2> QED BY <2>1, <1>0, <1>2, ShrinkQueue
<1>3. CASE Emit \/ Disconnect
  BY <1>0, <1>1, <1>3 DEF Emit, Disconnect
<1>4. ASSUME NEW n \in 0 .. MaxSegment, NEW refused \in 0 .. MaxSegment, Feed(n, refused)
      PROVE  QueueInv'
  <2>1. n \in Nat /\ refused \in Nat
    BY BoundAssumption
  <2> QED BY <2>1, <1>1, <1>4 DEF Feed
<1>5. CASE \/ Refuse \/ FindRoom \/ Send \/ SendError
           \/ ControlPlaneAck \/ ControlPlaneNack \/ UNCHANGED vars
  BY <1>2, <1>5 DEF Refuse, FindRoom, Send, SendError, ControlPlaneAck, ControlPlaneNack, Answer, vars,
                    bufferVars
<1>6. ASSUME NEW r \in replies, HandleAck(r) \/ HandleNack(r) PROVE QueueInv'
  BY <1>0, <1>6, AnswerQueue
<1> QED BY <1>0, <1>3, <1>4, <1>5, <1>6, DrainQueue, ConnectQueue DEF Next

\* Whatever the capacities, the batch size and the order of the answers, events leave
\* in the order they were stamped, the dropped_events records aside, also after a
\* requeue; the buffer never exceeds MAX_BUFFERED_EVENTS nor the unanswered batches
\* MAX_IN_FLIGHT_BATCHES (extend, drain, requeue_unacked).
THEOREM QueueOrdered == Spec => []QueueSound
<1>1. Init => QueueInv
  <2> SUFFICES ASSUME Init PROVE QueueInv
    OBVIOUS
  <2>1. IInv /\ DOMAIN buf = {} /\ DOMAIN flight = {}
    BY InitIInv, EmptySeq DEF Init
  <2>2. LineKept
    BY <2>1 DEF LineKept, Sorted, SeqLine, Older, EntrySeqs, SeqsOf
  <2>3. InFlightIds = {} /\ Cardinality({}) = 0 /\ MaxInFlight \in Nat
    BY <2>1, FS_EmptySet, BufferAssumption DEF InFlightIds
  <2> QED BY <2>1, <2>2, <2>3 DEF QueueInv
<1>2. QueueInv => QueueSound
  BY LineIsOrder DEF QueueInv, QueueSound, Bounded, IInv
<1> QED BY <1>1, <1>2, NextQueue, PTL DEF Spec

-----------------------------------------------------------------------------
(***************************************************************************)
(* Losses.  LossAccounted counts: what a step drops is told apart and was  *)
(* not lost before (Conservation), so the count of the lost grows by as    *)
(* much as the counter; and a record is made of the counters under a       *)
(* number no record had (RecordsStamped), so the total grows by as much.   *)
(***************************************************************************)
RecordsStamped == DOMAIN records \subseteq 1 .. seq

LossInv == IInv /\ RecordsStamped /\ LossAccounted

\* A set of natural numbers has a least element.
LEMMA LeastIn ==
    ASSUME NEW S, S \subseteq Nat, S # {}
    PROVE  \E x \in S : \A y \in S : x =< y
<1> DEFINE R == OpToRel(<, Nat)
<1>1. PICK x \in S : \A y \in S : ~ (<<y, x>> \in R)
  BY WFMin, NatLessThanWellFounded
<1>2. \A a, b \in Nat : <<b, a>> \in R <=> b < a
  BY DEF OpToRel
<1> HIDE DEF R
<1>3. ASSUME NEW y \in S PROVE x =< y
  <2>1. x \in Nat /\ y \in Nat /\ ~ (y < x)
    BY <1>1, <1>2
  <2> QED BY <2>1
<1> QED BY <1>1, <1>3

\* s holds the totals of f[1], of f[1] and f[2], and so on up to n.
Sums(s, f, n) ==
    /\ s \in [0 .. n -> Nat] /\ s[0] = 0
    /\ \A k \in 1 .. n : s[k] = s[k - 1] + f[k]

\* The recursion of Total has a solution, and any solution adds up.
LEMMA TotalSums ==
    ASSUME NEW N \in Nat, NEW f \in [1 .. N -> Nat]
    PROVE  \E s : Sums(s, f, N) /\ Total(f, N) = s[N]
<1> DEFINE Adds(s, k) == IF k = 0 THEN 0 ELSE s[k - 1] + f[k]
           Solves(s, n) == s = [k \in 0 .. n |-> Adds(s, k)]
<1>1. ASSUME NEW s, Solves(s, N) PROVE Sums(s, f, N)
  <2>1. DOMAIN s = 0 .. N /\ s = [k \in 0 .. N |-> s[k]] /\ \A k \in 0 .. N : s[k] = Adds(s, k)
    BY <1>1
  <2> HIDE DEF Solves
  <2> DEFINE Bad == {k \in 0 .. N : s[k] \notin Nat}
  <2>2. Bad = {}
    <3>1. SUFFICES ASSUME Bad # {} PROVE FALSE
      OBVIOUS
    <3>2. PICK k \in Bad : \A j \in Bad : k =< j
      <4>1. Bad \subseteq Nat
        OBVIOUS
      <4> HIDE DEF Bad
      <4> QED BY <3>1, <4>1, LeastIn
    <3>3. k # 0
      BY <2>1, <3>2
    <3>4. k \in 1 .. N /\ k - 1 \in 0 .. N /\ f[k] \in Nat
      BY <3>2, <3>3
    <3>5. k - 1 \notin Bad
      BY <3>2, <3>4
    <3>6. s[k - 1] \in Nat
      BY <3>4, <3>5
    <3>7. s[k] = s[k - 1] + f[k] /\ s[k] \notin Nat
      BY <2>1, <3>2, <3>3
    <3> HIDE DEF Bad
    <3> QED BY <3>4, <3>6, <3>7
  <2>3. \A k \in 1 .. N : k \in 0 .. N /\ k # 0
    OBVIOUS
  <2>4. s[0] = 0
    <3>1. 0 \in 0 .. N
      OBVIOUS
    <3> QED BY <2>1, <3>1
  <2>5. ASSUME NEW k \in 1 .. N PROVE s[k] = s[k - 1] + f[k]
    <3>1. s[k] = Adds(s, k)
      BY <2>1, <2>3
    <3> QED BY <2>3, <3>1
  <2>6. s \in [0 .. N -> Nat]
    BY <2>1, <2>2
  <2> QED BY <2>4, <2>5, <2>6 DEF Sums
<1>2. \E s : Solves(s, N)
  <2> HIDE DEF Solves
  <2> DEFINE Bad == {n \in Nat : \A s : ~Solves(s, n)}
  <2>1. SUFFICES ASSUME Bad # {} PROVE FALSE
    OBVIOUS
  <2>2. PICK n \in Bad : \A j \in Bad : n =< j
    BY <2>1, LeastIn
  <2>3. CASE n = 0
    <3> DEFINE s == [k \in 0 .. 0 |-> 0]
    <3>1. Solves(s, 0)
      BY DEF Solves
    <3> HIDE DEF Solves, s
    <3> QED BY <2>2, <2>3, <3>1
  <2>4. CASE n # 0
    <3>1. n - 1 \in Nat /\ n - 1 \notin Bad
      <4>1. n \in Nat /\ n - 1 \in Nat /\ ~(n =< n - 1)
        BY <2>2, <2>4
      <4> HIDE DEF Bad
      <4> QED BY <2>2, <4>1
    <3>2. PICK r : Solves(r, n - 1)
      BY <3>1
    <3> DEFINE s == [k \in 0 .. n |-> IF k = n THEN Adds(r, n) ELSE r[k]]
    <3>3. ASSUME NEW k \in 0 .. n PROVE s[k] = Adds(s, k)
      <4>1. CASE k = n
        <5>1. n - 1 \in 0 .. n /\ n - 1 # n /\ s[n - 1] = r[n - 1] /\ s[n] = Adds(r, n)
          BY <2>2, <2>4
        <5> QED BY <4>1, <5>1
      <4>2. CASE k # n
        <5>1. k \in 0 .. n - 1 /\ s[k] = r[k] /\ (k # 0 => k - 1 \in 0 .. n /\ k - 1 # n /\ s[k - 1] = r[k - 1])
          BY <2>2, <4>2
        <5>2. r[k] = Adds(r, k)
          BY <3>2, <5>1 DEF Solves
        <5> QED BY <5>1, <5>2
      <4> QED BY <4>1, <4>2
    <3>4. Solves(s, n)
      BY <3>3 DEF Solves
    <3> HIDE DEF Solves, s
    <3> QED BY <2>2, <3>4
  <2> QED BY <2>3, <2>4
<1>3. PICK s : Solves(s, N) /\ Total(f, N) = s[N]
  <2> DEFINE w == CHOOSE s : Solves(s, N)
  <2>1. Solves(w, N)
    BY <1>2
  <2>2. Total(f, N) = w[N]
    BY DEF Total
  <2> HIDE DEF w, Solves
  <2> QED BY <2>1, <2>2
<1> HIDE DEF Solves
<1> QED BY <1>1, <1>3

\* Where g is f but for d more at x, its total is d more.
LEMMA TotalGrows ==
    ASSUME NEW N \in Nat, NEW f \in [1 .. N -> Nat], NEW g \in [1 .. N -> Nat],
           NEW x \in 1 .. N, NEW d \in Nat, g[x] = f[x] + d,
           \A k \in 1 .. N : k # x => g[k] = f[k]
    PROVE  Total(g, N) = Total(f, N) + d
<1>1. PICK s : Sums(s, f, N) /\ Total(f, N) = s[N]
  BY TotalSums
<1>2. PICK t : Sums(t, g, N) /\ Total(g, N) = t[N]
  BY TotalSums
<1> DEFINE More(k) == IF x =< k THEN d ELSE 0
           Bad == {k \in 0 .. N : t[k] # s[k] + More(k)}
<1>3. Bad = {}
  <2>1. SUFFICES ASSUME Bad # {} PROVE FALSE
    OBVIOUS
  <2>2. PICK k \in Bad : \A j \in Bad : k =< j
    <3>1. Bad \subseteq Nat
      OBVIOUS
    <3> HIDE DEF Bad
    <3> QED BY <2>1, <3>1, LeastIn
  <2>3. k \in 1 .. N
    <3>1. t[0] = 0 /\ s[0] = 0 /\ More(0) = 0
      BY <1>1, <1>2 DEF Sums
    <3> QED BY <2>2, <3>1
  <2>4. k - 1 \in 0 .. N /\ t[k - 1] = s[k - 1] + More(k - 1)
    BY <2>2, <2>3
  <2>5. s[k - 1] \in Nat /\ s[k] = s[k - 1] + f[k] /\ t[k] = t[k - 1] + g[k] /\ f[k] \in Nat
    BY <1>1, <1>2, <2>3, <2>4 DEF Sums
  <2>6. CASE k = x
    <3>1. More(k) = d /\ More(k - 1) = 0 /\ g[k] = f[k] + d
      BY <2>3, <2>6
    <3> HIDE DEF More
    <3> QED BY <2>2, <2>4, <2>5, <3>1
  <2>7. CASE k # x
    <3>1. More(k) = More(k - 1) /\ g[k] = f[k] /\ More(k) \in Nat
      BY <2>3, <2>7
    <3> HIDE DEF More
    <3> QED BY <2>2, <2>4, <2>5, <3>1
  <2> QED BY <2>6, <2>7
<1>4. N \in 0 .. N /\ More(N) = d
  OBVIOUS
<1> QED BY <1>1, <1>2, <1>3, <1>4

\* Nothing but zeros adds up to nothing.
LEMMA TotalOfZeros ==
    ASSUME NEW N \in Nat, NEW f \in [1 .. N -> Nat], \A k \in 1 .. N : f[k] = 0
    PROVE  Total(f, N) = 0
<1>1. PICK s : Sums(s, f, N) /\ Total(f, N) = s[N]
  BY TotalSums
<1> DEFINE Bad == {k \in 0 .. N : s[k] # 0}
<1>2. Bad = {}
  <2>1. SUFFICES ASSUME Bad # {} PROVE FALSE
    OBVIOUS
  <2>2. PICK k \in Bad : \A j \in Bad : k =< j
    <3>1. Bad \subseteq Nat
      OBVIOUS
    <3> HIDE DEF Bad
    <3> QED BY <2>1, <3>1, LeastIn
  <2>3. k \in 1 .. N /\ k - 1 \in 0 .. N
    BY <1>1, <2>2 DEF Sums
  <2>4. s[k - 1] = 0 /\ s[k] = s[k - 1] + f[k] /\ f[k] = 0
    BY <1>1, <2>2, <2>3 DEF Sums
  <2> QED BY <2>2, <2>4
<1>3. N \in 0 .. N
  OBVIOUS
<1> QED BY <1>1, <1>2, <1>3

\* A sequence that repeats nothing has as many elements as places.
LEMMA CountSeq ==
    ASSUME NEW S, NEW q \in Seq(S), Injective(q)
    PROVE  IsFiniteSet(SeqsOf(q)) /\ Cardinality(SeqsOf(q)) = Len(q)
<1> DEFINE n == Len(q)
<1>1. n \in Nat /\ DOMAIN q = 1 .. n /\ q = [i \in 1 .. n |-> q[i]]
  BY LenProperties
<1> HIDE DEF n
<1>2. IsFiniteSet(1 .. n) /\ Cardinality(1 .. n) = n
  <2>1. /\ IsFiniteSet(1 .. n)
        /\ Cardinality(1 .. n) = IF 1 > n THEN 0 ELSE n - 1 + 1
    <3>1. 1 \in Int /\ n \in Int
      BY <1>1
    <3> QED BY <3>1, FS_Interval
  <2> QED BY <1>1, <2>1
<1>3. q \in Surjection(1 .. n, SeqsOf(q))
  <2>1. q \in [1 .. n -> SeqsOf(q)]
    BY <1>1 DEF SeqsOf
  <2>2. \A y \in SeqsOf(q) : \E i \in 1 .. n : q[i] = y
    BY <1>1 DEF SeqsOf
  <2> QED BY <2>1, <2>2 DEF Surjection
<1>4. q \in Injection(1 .. n, SeqsOf(q))
  BY <1>1, <1>3 DEF Injection, IsInjective, Surjection, Injective
<1>5. IsFiniteSet(SeqsOf(q)) /\ Cardinality(SeqsOf(q)) = n
  BY <1>2, <1>3, <1>4, FS_Surjection
<1> QED BY <1>5 DEF n

\* What overflows is told apart as well as what was there.
LEMMA CountOverflow ==
    ASSUME NEW S, NEW q \in Seq(S), Injective(q)
    PROVE  /\ IsFiniteSet(SeqsOf(Overflow(q))) /\ SeqsOf(Overflow(q)) \subseteq SeqsOf(q)
           /\ Cardinality(SeqsOf(Overflow(q))) = Len(Overflow(q)) /\ Len(Overflow(q)) \in Nat
<1>1. Overflow(q) \in Seq(S) /\ Injective(Overflow(q)) /\ SeqsOf(Overflow(q)) \subseteq SeqsOf(q)
  <2>1. CASE Len(q) > MaxEvents
    <3> DEFINE k == Len(q) - MaxEvents
    <3>1. k \in 0 .. Len(q) /\ Overflow(q) = SubSeq(q, 1, k)
      BY <2>1, LenProperties, BufferAssumption DEF Overflow
    <3> HIDE DEF k
    <3> QED BY <3>1, SplitSeq
  <2>2. CASE ~(Len(q) > MaxEvents)
    <3>1. Overflow(q) = <<>>
      BY <2>2 DEF Overflow
    <3> QED BY <3>1, EmptySeq DEF SeqsOf, Injective
  <2> QED BY <2>1, <2>2
<1>2. Len(Overflow(q)) \in Nat
  BY <1>1, LenProperties
<1> QED BY <1>1, <1>2, CountSeq

\* What the records have said so far, of drops and of refusals.
LEMMA SaidTyped ==
    ASSUME IInv
    PROVE  /\ MaxSeq \in Nat /\ DroppedBy \in [1 .. MaxSeq -> Nat] /\ UndeclaredBy \in [1 .. MaxSeq -> Nat]
           /\ Total(DroppedBy, MaxSeq) \in Nat /\ Total(UndeclaredBy, MaxSeq) \in Nat
<1>1. MaxSeq \in Nat /\ \A s \in DOMAIN records : records[s].dropped \in Nat /\ records[s].undeclared \in Nat
  BY BoundAssumption DEF IInv, TypeOK
<1>2. DroppedBy \in [1 .. MaxSeq -> Nat] /\ UndeclaredBy \in [1 .. MaxSeq -> Nat]
  BY <1>1 DEF DroppedBy, UndeclaredBy
<1>3. ASSUME NEW f \in [1 .. MaxSeq -> Nat] PROVE Total(f, MaxSeq) \in Nat
  <2>1. PICK s : Sums(s, f, MaxSeq) /\ Total(f, MaxSeq) = s[MaxSeq]
    BY <1>1, TotalSums
  <2>2. MaxSeq \in 0 .. MaxSeq
    BY <1>1
  <2> QED BY <2>1, <2>2 DEF Sums
<1> QED BY <1>1, <1>2, <1>3

\* Losing what was not lost before makes as many more.
LEMMA LoseMore ==
    ASSUME IInv, NEW D, IsFiniteSet(D), D \cap lost = {}
    PROVE  /\ Cardinality(lost \cup D) = Cardinality(lost) + Cardinality(D)
           /\ Cardinality(lost) \in Nat /\ Cardinality(D) \in Nat
<1>1. IsFiniteSet(lost)
  <2>1. lost \subseteq 1 .. MaxSeq
    BY DEF IInv, TypeOK
  <2>2. IsFiniteSet(1 .. MaxSeq)
    BY BoundAssumption, FS_Interval
  <2> QED BY <2>1, <2>2, FS_Subset
<1>2. Cardinality(lost \cup D) = Cardinality(lost) + Cardinality(D) - Cardinality(lost \cap D)
  BY <1>1, FS_Union
<1>3. lost \cap D = {} /\ Cardinality({}) = 0 /\ Cardinality(lost) \in Nat /\ Cardinality(D) \in Nat
  BY <1>1, FS_EmptySet, FS_CardinalityType
<1>4. Cardinality(lost \cap D) = 0
  BY <1>3
<1> QED BY <1>2, <1>3, <1>4

\* A step that makes no record counts what it loses and refuses.
LEMMA CountLoss ==
    ASSUME LossInv, IInv', records' = records, seq =< seq',
           NEW D, IsFiniteSet(D), D \cap lost = {}, lost' = lost \cup D,
           dropped' = dropped + Cardinality(D),
           NEW n \in Nat, undeclared' = undeclared + n, refusals' = refusals + n
    PROVE  LossInv'
<1>1. RecordsStamped'
  <2>1. seq \in Nat /\ seq' \in Nat
    BY DEF LossInv, IInv, TypeOK
  <2> QED BY <2>1 DEF LossInv, RecordsStamped
<1>2. Total(DroppedBy, MaxSeq)' = Total(DroppedBy, MaxSeq) /\ Total(UndeclaredBy, MaxSeq)' = Total(UndeclaredBy, MaxSeq)
  BY DEF DroppedBy, UndeclaredBy
<1>3. /\ Total(DroppedBy, MaxSeq) \in Nat /\ Total(UndeclaredBy, MaxSeq) \in Nat
      /\ dropped \in Nat /\ undeclared \in Nat /\ refusals \in Nat
  BY SaidTyped DEF LossInv, IInv, TypeOK
<1>4. Cardinality(lost') = Cardinality(lost) + Cardinality(D) /\ Cardinality(lost) \in Nat /\ Cardinality(D) \in Nat
  BY LoseMore DEF LossInv
<1>5. /\ dropped + Total(DroppedBy, MaxSeq) = Cardinality(lost)
      /\ undeclared + Total(UndeclaredBy, MaxSeq) = refusals
  BY DEF LossInv, LossAccounted
<1>6. dropped' + Total(DroppedBy, MaxSeq)' = Cardinality(lost')
  BY <1>2, <1>3, <1>4, <1>5
<1>7. undeclared' + Total(UndeclaredBy, MaxSeq)' = refusals'
  BY <1>2, <1>3, <1>5
<1> QED BY <1>1, <1>6, <1>7 DEF LossInv, LossAccounted

\* An extend() counts what it drops, and what it refuses.
LEMMA ExtendLoss ==
    ASSUME LossInv, IInv', NEW n \in Nat, NEW refused \in Nat, Extend(n, refused), records' = records
    PROVE  LossInv'
<1> DEFINE q == buf \o Stamp(n)
           D == SeqsOf(Overflow(q))
<1>1. /\ seq \in Nat /\ MaxSeq \in Nat /\ buf \in Seq(1 .. MaxSeq) /\ seq + n =< MaxSeq
      /\ Injective(buf) /\ SeqsOf(buf) \subseteq 1 .. seq /\ SeqsOf(buf) \cap lost = {} /\ lost \subseteq 1 .. seq
  <2>1. TypeOK /\ Conservation
    BY DEF LossInv, IInv
  <2>2. seq \in Nat /\ MaxSeq \in Nat /\ buf \in Seq(1 .. MaxSeq)
    BY <2>1, BoundAssumption DEF TypeOK
  <2>3. seq + n =< MaxSeq
    BY DEF Extend
  <2>4. Injective(buf) /\ SeqsOf(buf) \subseteq 1 .. seq /\ SeqsOf(buf) \cap lost = {} /\ lost \subseteq 1 .. seq
    BY <2>1, ConservationSets
  <2> QED BY <2>2, <2>3, <2>4
<1>2. Stamp(n) \in Seq(1 .. MaxSeq) /\ Injective(Stamp(n)) /\ SeqsOf(Stamp(n)) \cap (1 .. seq) = {}
  <2>1. /\ Stamp(n) = [i \in 1 .. n |-> seq + i] /\ DOMAIN Stamp(n) = 1 .. n
        /\ \A i \in 1 .. n : Stamp(n)[i] = seq + i /\ seq + i \in 1 .. MaxSeq /\ seq + i \notin 1 .. seq
    BY <1>1 DEF Stamp
  <2>2. Stamp(n) \in Seq(1 .. MaxSeq)
    BY <2>1, IsASeq
  <2>3. Injective(Stamp(n))
    BY <1>1, <2>1 DEF Injective
  <2>4. SeqsOf(Stamp(n)) \cap (1 .. seq) = {}
    BY <2>1 DEF SeqsOf
  <2> QED BY <2>2, <2>3, <2>4
<1>3. q \in Seq(1 .. MaxSeq) /\ Injective(q) /\ SeqsOf(q) = SeqsOf(buf) \cup SeqsOf(Stamp(n))
  BY <1>1, <1>2, ConcatSeqs
<1>4. /\ seq' = seq + n /\ lost' = lost \cup D /\ dropped' = dropped + Len(Overflow(q))
      /\ undeclared' = undeclared + refused /\ refusals' = refusals + refused
  BY DEF Extend
<1> HIDE DEF q
<1>5. IsFiniteSet(D) /\ D \subseteq SeqsOf(q) /\ Cardinality(D) = Len(Overflow(q))
  BY <1>3, CountOverflow
<1> HIDE DEF D
<1>6. D \cap lost = {}
  BY <1>1, <1>2, <1>3, <1>5
<1>7. seq =< seq'
  BY <1>1, <1>4
<1> QED BY <1>4, <1>5, <1>6, <1>7, CountLoss

\* A step that loses nothing and refuses nothing.
LEMMA NothingLostNow ==
    ASSUME LossInv, IInv', UNCHANGED <<seq, dropped, undeclared, records, lost, refusals>>
    PROVE  LossInv'
<1>1. /\ lost' = lost \cup {} /\ {} \cap lost = {} /\ IsFiniteSet({}) /\ Cardinality({}) = 0
      /\ seq \in Nat /\ dropped \in Nat /\ undeclared \in Nat /\ refusals \in Nat
  BY FS_EmptySet DEF LossInv, IInv, TypeOK
<1>2. dropped' = dropped + Cardinality({}) /\ undeclared' = undeclared + 0 /\ refusals' = refusals + 0 /\ seq =< seq'
  BY <1>1
<1> QED BY <1>1, <1>2, CountLoss

\* requeue_unacked() counts what the buffer has no room for.
LEMMA ConnectLoss ==
    ASSUME LossInv, IInv', Connect
    PROVE  LossInv'
<1> DEFINE back == [i \in DOMAIN flight |-> flight[i].seq]
           D == SeqsOf(Overflow(Requeued))
<1>0. /\ UNCHANGED <<seq, undeclared, records, refusals>>
      /\ dropped' = dropped + Len(Overflow(Requeued)) /\ lost' = lost \cup D
  BY DEF Connect
<1>1. /\ flight \in Seq(Entries) /\ buf \in Seq(1 .. MaxSeq)
      /\ SeqInjective(flight) /\ Injective(buf) /\ SeqsOf(buf) \cap EntrySeqs(flight) = {}
      /\ (SeqsOf(buf) \cup EntrySeqs(flight)) \cap lost = {}
  BY ConservationSets DEF LossInv, IInv, TypeOK, Entries
<1>2. back \in Seq(1 .. MaxSeq) /\ Injective(back) /\ SeqsOf(back) = EntrySeqs(flight)
  <2>1. /\ DOMAIN flight = 1 .. Len(flight) /\ Len(flight) \in Nat
        /\ \A i \in DOMAIN flight : flight[i].seq \in 1 .. MaxSeq
    BY <1>1, EntriesInRange
  <2>2. back \in Seq(1 .. MaxSeq)
    BY <2>1, IsASeq
  <2>3. Injective(back)
    BY <1>1 DEF Injective, SeqInjective
  <2>4. SeqsOf(back) = EntrySeqs(flight)
    BY DEF SeqsOf, EntrySeqs
  <2> QED BY <2>2, <2>3, <2>4
<1>3. Requeued = back \o buf
  BY DEF Requeued
<1> HIDE DEF back
<1>4. /\ Requeued \in Seq(1 .. MaxSeq) /\ Injective(Requeued)
      /\ SeqsOf(Requeued) = EntrySeqs(flight) \cup SeqsOf(buf)
  <2>1. SeqsOf(back) \cap SeqsOf(buf) = {}
    BY <1>1, <1>2
  <2> QED BY <2>1, <1>1, <1>2, <1>3, ConcatSeqs
<1>5. IsFiniteSet(D) /\ D \subseteq SeqsOf(Requeued) /\ Cardinality(D) = Len(Overflow(Requeued))
  BY <1>4, CountOverflow
<1>6. D \cap lost = {}
  BY <1>1, <1>4, <1>5
<1> HIDE DEF D
<1>7. seq =< seq' /\ undeclared' = undeclared + 0 /\ refusals' = refusals + 0
  BY <1>0 DEF LossInv, IInv, TypeOK
<1> QED BY <1>0, <1>5, <1>6, <1>7, CountLoss

\* drain() puts both counters on a record of their own, and counts the batch it evicts.
LEMMA DrainLoss ==
    ASSUME LossInv, IInv', Drain
    PROVE  LossInv'
<1>1. /\ seq \in Nat /\ MaxSeq \in Nat /\ dropped \in Nat /\ undeclared \in Nat /\ refusals \in Nat
      /\ DOMAIN records \subseteq 1 .. seq /\ (Owing => seq < MaxSeq)
      /\ seq' = IF Owing THEN seq + 1 ELSE seq
      /\ undeclared' = 0 /\ refusals' = refusals
  BY BoundAssumption DEF LossInv, IInv, TypeOK, RecordsStamped, Drain
<1>2. /\ dropped' \in Nat /\ Cardinality(lost) \in Nat
      /\ Cardinality(lost') = Cardinality(lost) + dropped'
  <2>1. CASE Evicts
    <3> DEFINE D == BatchSeqs(Oldest)
    <3>1. D \subseteq 1 .. MaxSeq /\ D \cap lost = {}
      <4>1. D \subseteq FlightSeqs
        BY DEF BatchSeqs, FlightSeqs
      <4>2. FlightSeqs \subseteq 1 .. seq /\ FlightSeqs \cap lost = {}
        BY DEF LossInv, IInv, Conservation, Held
      <4>3. seq =< MaxSeq
        BY <1>1 DEF LossInv, IInv, TypeOK
      <4>4. \A k \in 1 .. seq : k \in 1 .. MaxSeq
        BY <1>1, <4>3
      <4> HIDE DEF D
      <4> QED BY <4>1, <4>2, <4>4
    <3>2. lost' = lost \cup D /\ dropped' = Cardinality(D)
      BY <2>1 DEF Drain, EvictedCount
    <3> HIDE DEF D
    <3>3. IsFiniteSet(D)
      <4>1. 1 \in Int /\ MaxSeq \in Int
        BY <1>1
      <4>2. IsFiniteSet(1 .. MaxSeq)
        BY <4>1, FS_Interval
      <4> QED BY <3>1, <4>2, FS_Subset
    <3> QED BY <3>1, <3>2, <3>3, LoseMore DEF LossInv
  <2>2. CASE ~Evicts
    <3>1. lost' = lost /\ dropped' = 0
      BY <2>2 DEF Drain
    <3>2. lost = lost \cup {} /\ {} \cap lost = {} /\ IsFiniteSet({}) /\ Cardinality({}) = 0
      BY FS_EmptySet
    <3>3. Cardinality(lost) \in Nat
      BY <3>2, LoseMore DEF LossInv
    <3> QED BY <3>1, <3>3
  <2> QED BY <2>1, <2>2
<1>3. /\ Total(DroppedBy, MaxSeq)' = Total(DroppedBy, MaxSeq) + dropped
      /\ Total(UndeclaredBy, MaxSeq)' = Total(UndeclaredBy, MaxSeq) + undeclared
      /\ Total(DroppedBy, MaxSeq) \in Nat /\ Total(UndeclaredBy, MaxSeq) \in Nat
  <2>0. /\ DroppedBy \in [1 .. MaxSeq -> Nat] /\ UndeclaredBy \in [1 .. MaxSeq -> Nat]
        /\ Total(DroppedBy, MaxSeq) \in Nat /\ Total(UndeclaredBy, MaxSeq) \in Nat
    BY SaidTyped DEF LossInv
  <2>1. CASE Owing
    <3>1. /\ seq + 1 \in 1 .. MaxSeq /\ seq + 1 \notin DOMAIN records
          /\ DOMAIN records' = DOMAIN records \cup {seq + 1}
          /\ records'[seq + 1] = [dropped |-> dropped, undeclared |-> undeclared]
          /\ \A s \in DOMAIN records : records'[s] = records[s]
      BY <1>1, <2>1 DEF Drain
    <3>2. DroppedBy' \in [1 .. MaxSeq -> Nat] /\ UndeclaredBy' \in [1 .. MaxSeq -> Nat]
      <4>1. \A s \in DOMAIN records' : records'[s].dropped \in Nat /\ records'[s].undeclared \in Nat
        BY DEF IInv, TypeOK
      <4> QED BY <4>1 DEF DroppedBy, UndeclaredBy
    <3>3. /\ DroppedBy[seq + 1] = 0 /\ DroppedBy'[seq + 1] = dropped
          /\ UndeclaredBy[seq + 1] = 0 /\ UndeclaredBy'[seq + 1] = undeclared
      BY <3>1 DEF DroppedBy, UndeclaredBy
    <3>4. \A k \in 1 .. MaxSeq : k # seq + 1 => DroppedBy'[k] = DroppedBy[k] /\ UndeclaredBy'[k] = UndeclaredBy[k]
      BY <3>1 DEF DroppedBy, UndeclaredBy
    <3>5. DroppedBy'[seq + 1] = DroppedBy[seq + 1] + dropped /\ UndeclaredBy'[seq + 1] = UndeclaredBy[seq + 1] + undeclared
      BY <1>1, <3>3
    <3>6. Total(DroppedBy', MaxSeq) = Total(DroppedBy, MaxSeq) + dropped
      <4>1. MaxSeq \in Nat /\ dropped \in Nat /\ seq + 1 \in 1 .. MaxSeq
        BY <1>1, <3>1
      <4>2. DroppedBy \in [1 .. MaxSeq -> Nat] /\ DroppedBy' \in [1 .. MaxSeq -> Nat]
        BY <2>0, <3>2
      <4>3. \A k \in 1 .. MaxSeq : k # seq + 1 => DroppedBy'[k] = DroppedBy[k]
        BY <3>4
      <4>4. DroppedBy'[seq + 1] = DroppedBy[seq + 1] + dropped
        BY <3>5
      <4> QED BY <4>1, <4>2, <4>3, <4>4, TotalGrows
    <3>7. Total(UndeclaredBy', MaxSeq) = Total(UndeclaredBy, MaxSeq) + undeclared
      <4>1. MaxSeq \in Nat /\ undeclared \in Nat /\ seq + 1 \in 1 .. MaxSeq
        BY <1>1, <3>1
      <4>2. UndeclaredBy \in [1 .. MaxSeq -> Nat] /\ UndeclaredBy' \in [1 .. MaxSeq -> Nat]
        BY <2>0, <3>2
      <4>3. \A k \in 1 .. MaxSeq : k # seq + 1 => UndeclaredBy'[k] = UndeclaredBy[k]
        BY <3>4
      <4>4. UndeclaredBy'[seq + 1] = UndeclaredBy[seq + 1] + undeclared
        BY <3>5
      <4> QED BY <4>1, <4>2, <4>3, <4>4, TotalGrows
    <3> QED BY <2>0, <3>6, <3>7
  <2>2. CASE ~Owing
    <3>1. dropped = 0 /\ undeclared = 0 /\ records' = records
      BY <1>1, <2>2 DEF Owing, Drain
    <3>2. Total(DroppedBy, MaxSeq)' = Total(DroppedBy, MaxSeq) /\ Total(UndeclaredBy, MaxSeq)' = Total(UndeclaredBy, MaxSeq)
      BY <3>1 DEF DroppedBy, UndeclaredBy
    <3> QED BY <2>0, <3>1, <3>2
  <2> QED BY <2>1, <2>2
<1>4. /\ dropped + Total(DroppedBy, MaxSeq) = Cardinality(lost)
      /\ undeclared + Total(UndeclaredBy, MaxSeq) = refusals
  BY DEF LossInv, LossAccounted
<1>5. LossAccounted'
  <2>1. dropped' + Total(DroppedBy, MaxSeq)' = Cardinality(lost')
    BY <1>1, <1>2, <1>3, <1>4
  <2>2. undeclared' + Total(UndeclaredBy, MaxSeq)' = refusals'
    BY <1>1, <1>3, <1>4
  <2> QED BY <2>1, <2>2 DEF LossAccounted
<1>6. RecordsStamped'
  <2>1. CASE Owing
    <3>1. DOMAIN records' = DOMAIN records \cup {seq + 1}
      BY <2>1 DEF Drain
    <3> QED BY <1>1, <2>1, <3>1 DEF RecordsStamped
  <2>2. CASE ~Owing
    <3>1. records' = records
      BY <2>2 DEF Drain
    <3> QED BY <1>1, <2>2, <3>1 DEF RecordsStamped
  <2> QED BY <2>1, <2>2
<1> QED BY <1>5, <1>6 DEF LossInv

\* Every step keeps the accounts.
LEMMA NextLoss == LossInv /\ [Next]_vars => LossInv'
<1> SUFFICES ASSUME LossInv, [Next]_vars PROVE LossInv'
  OBVIOUS
<1>0. IInv' /\ 0 \in Nat /\ 1 \in Nat
  BY NextIInv DEF LossInv
<1>1. CASE Emit \/ Disconnect
  BY <1>0, <1>1, ExtendLoss DEF Emit, Disconnect
<1>2. CASE Refuse
  <2>1. /\ lost' = lost \cup {} /\ {} \cap lost = {} /\ IsFiniteSet({}) /\ Cardinality({}) = 0
        /\ dropped \in Nat /\ seq \in Nat
    BY <1>2, FS_EmptySet DEF Refuse, LossInv, IInv, TypeOK
  <2>2. /\ dropped' = dropped + Cardinality({}) /\ seq =< seq' /\ records' = records
        /\ undeclared' = undeclared + 1 /\ refusals' = refusals + 1
    BY <1>2, <2>1 DEF Refuse
  <2> QED BY <1>0, <2>1, <2>2, CountLoss
<1>3. ASSUME NEW n \in 0 .. MaxSegment, NEW refused \in 0 .. MaxSegment, Feed(n, refused)
      PROVE  LossInv'
  <2>1. n \in Nat /\ refused \in Nat
    BY BoundAssumption
  <2> QED BY <2>1, <1>0, <1>3, ExtendLoss DEF Feed
<1>4. CASE \/ FindRoom \/ Send \/ SendError \/ ControlPlaneAck \/ ControlPlaneNack \/ UNCHANGED vars
  <2>1. UNCHANGED <<seq, dropped, undeclared, records, lost, refusals>>
    BY <1>4 DEF FindRoom, Send, SendError, ControlPlaneAck, ControlPlaneNack, Answer, vars, bufferVars, historyVars
  <2> QED BY <1>0, <2>1, NothingLostNow
<1>5. ASSUME NEW r \in replies, HandleAck(r) \/ HandleNack(r) PROVE LossInv'
  <2>1. CASE Extend(1, 0) /\ records' = records
    BY <1>0, <2>1, ExtendLoss
  <2>2. CASE UNCHANGED <<seq, dropped, undeclared, records, lost, refusals>>
    BY <1>0, <2>2, NothingLostNow
  <2> QED BY <1>5, <2>1, <2>2 DEF HandleAck, HandleNack
<1> QED BY <1>0, <1>1, <1>2, <1>3, <1>4, <1>5, DrainLoss, ConnectLoss DEF Next

\* However events are dropped, by an overflow of the buffer, a requeue without room or the
\* eviction of a batch, the counters and the dropped_events records together own up to
\* each loss and each refusal exactly once (extend, drain, requeue_unacked, refuse).
THEOREM LossesOwnedUp == Spec => []LossAccounted
<1>1. Init => LossInv
  <2> SUFFICES ASSUME Init PROVE LossInv
    OBVIOUS
  <2>1. IInv /\ DOMAIN records = {} /\ dropped = 0 /\ undeclared = 0 /\ lost = {} /\ refusals = 0
    BY InitIInv DEF Init
  <2>2. MaxSeq \in Nat /\ DroppedBy \in [1 .. MaxSeq -> Nat] /\ UndeclaredBy \in [1 .. MaxSeq -> Nat]
    BY <2>1, SaidTyped
  <2>3. \A k \in 1 .. MaxSeq : DroppedBy[k] = 0 /\ UndeclaredBy[k] = 0
    BY <2>1 DEF DroppedBy, UndeclaredBy
  <2>4. Total(DroppedBy, MaxSeq) = 0 /\ Total(UndeclaredBy, MaxSeq) = 0
    BY <2>2, <2>3, TotalOfZeros
  <2> QED BY <2>1, <2>4, FS_EmptySet DEF LossInv, RecordsStamped, LossAccounted
<1>2. LossInv => LossAccounted
  BY DEF LossInv
<1> QED BY <1>1, <1>2, NextLoss, PTL DEF Spec

-----------------------------------------------------------------------------
(***************************************************************************)
(* The spool: however often system calls fail or the agent crashes,        *)
(* SpoolInv is inductive, and gives NoUnsettledLoss and ShippedOnce.       *)
(***************************************************************************)
\* No two ticks overlap.
OneThread == \E t : Ticks = {t}

Items == [file : Nat, read : Nat]
ReadPCs == {"open", "extend", "note"}
SettlePCs == {"link", "unlink", "stat", "rename", "check", "remove"}
Threads == [
    pc : {"idle", "settling", "reading", "recover"} \cup ReadPCs \cup SettlePCs,
    loop : {"none", "settling", "reading", "recover"}, todo : SUBSET Names,
    name : Names \cup {0}, file : Nat, seen : [Names -> Items], then : {"none", "stat", "loop"}]

SpoolShape ==
    /\ made \in Nat /\ reads \in Nat /\ faults \in Nat
    /\ slot \in [Names -> 0 .. made] /\ aside \in [Names -> 0 .. made]
    /\ kindOf \in [1 .. made -> AllKinds] /\ nameOf \in [1 .. made -> Names]
    /\ held \subseteq 1 .. reads /\ readOf \in [1 .. reads -> 1 .. made]
    /\ pending \in [Names -> Items] /\ stuck \in [Names -> Nat]
    /\ tick \in [Ticks -> Threads]

\* A file stays under the name it was written under, and what is aside is never
\* newer than what took its name.
FilesPlaced ==
    \A n \in Names :
        /\ slot[n] # NoFile => nameOf[slot[n]] = n
        /\ aside[n] # NoFile => nameOf[aside[n]] = n
        /\ slot[n] # NoFile => aside[n] =< slot[n]

\* A file the feeder may delete.
Spent(f) == f \in settled \/ Superseded(f)

\* What _pending says of a name.
PendingSound ==
    \A n \in Names : pending[n] # NoRead =>
        /\ pending[n].read \in 1 .. reads /\ pending[n].file = readOf[pending[n].read]
        /\ nameOf[pending[n].file] = n /\ stuck[n] = NoFile
        /\ pending[n].read \in held \/ Spent(pending[n].file)

\* A read whose events are buffered is pending, or about to be.
HeldIsPending(k) ==
    \A r \in held :
        \/ pending[nameOf[readOf[r]]].read = r
        \/ r = reads /\ k.pc = "note" /\ k.name = nameOf[readOf[r]]

\* The loop a thread is in, and what is left for it.
LoopSound(k) ==
    /\ k.pc = "idle" => k.loop = "none"
    /\ k.pc \in {"settling", "reading", "recover"} => k.loop = k.pc
    /\ k.pc \in ReadPCs => k.loop = "reading"
    /\ k.pc \in SettlePCs => k.loop # "none"
    /\ k.pc \in {"link", "unlink"} => k.then # "none"
    /\ k.pc \in ReadPCs \cup SettlePCs => k.name \in Names \ k.todo /\ pending[k.name] = NoRead
    /\ k.loop = "settling" => \A n \in k.todo : pending[n] # NoRead /\ k.seen[n] = pending[n]
    /\ k.loop = "reading" => \A n \in k.todo : pending[n] = NoRead /\ stuck[n] = NoFile
    /\ k.loop = "recover" =>
         reads = 0 /\ k.file = NoFile /\ \A n \in Names : pending[n] = NoRead /\ stuck[n] = NoFile

\* The read at hand.
ReadSound(k) ==
    /\ k.pc \in ReadPCs => stuck[k.name] = NoFile
    /\ k.pc = "open" /\ k.file # NoFile => slot[k.name] = k.file \/ Superseded(k.file)
    /\ k.pc = "extend" => k.file \in 1 .. made /\ nameOf[k.file] = k.name /\ kindOf[k.file] = "events"
    /\ k.pc = "note" =>
         /\ k.seen[k.name] = [file |-> k.file, read |-> reads] /\ reads # 0
         /\ readOf[reads] = k.file /\ nameOf[k.file] = k.name
         /\ reads \in held \/ Spent(k.file)

\* The file being settled may go, and only it is aside when it does.
SettleSound(k) ==
    /\ k.pc \in SettlePCs => stuck[k.name] \in {NoFile, k.file}
    /\ k.pc \in SettlePCs /\ k.file # NoFile => Spent(k.file)
    /\ k.pc \in {"stat", "rename"} => aside[k.name] = NoFile
    /\ k.pc = "unlink" =>
         aside[k.name] # NoFile /\ (slot[k.name] = aside[k.name] \/ Superseded(aside[k.name]))
    /\ k.pc \in {"check", "remove"} => aside[k.name] # NoFile /\ slot[k.name] # aside[k.name]
    /\ k.pc = "remove" => aside[k.name] = k.file /\ k.then = "loop"

\* Nothing is left aside, a directory apart, unless a call failed.
AsideTended(k) ==
    \A n \in Names : aside[n] # NoFile /\ aside[n] \notin Directories =>
        \/ faults > 0
        \/ k.name = n /\ k.pc \in {"link", "unlink", "check", "remove"}
        \/ k.loop = "recover" /\ n \in k.todo

\* A thread settling the file, or about to note it.  Left aside it has failed once.
Tends(k, n, f) ==
    /\ k.name = n /\ k.file = f /\ k.pc \in SettlePCs \cup {"note"}
    /\ k.pc \in {"link", "unlink"} /\ k.then = "stat" /\ aside[n] = f => faults > 0
    /\ k.pc \in {"link", "unlink"} /\ k.then = "loop" /\ aside[n] = f => stuck[n] = f /\ faults > 0
    /\ k.pc \in {"link", "unlink"} /\ k.then = "loop" /\ aside[n] # f => slot[n] # f
    /\ k.pc \in {"check", "remove"} => slot[n] # f

\* A file that was read is pending, off the disk, parked, or being settled.
Shipped(k, n, f) ==
    \/ pending[n].file = f
    \/ f \notin {slot[n], aside[n]}
    \/ stuck[n] = f /\ aside[n] # f
    \/ Tends(k, n, f)

ReadOnce(k) ==
    /\ \A q, r \in 1 .. reads : readOf[q] = readOf[r] => q = r
    /\ \A q \in 1 .. reads : Shipped(k, nameOf[readOf[q]], readOf[q])
    /\ k.pc = "extend" => \A q \in 1 .. reads : readOf[q] # k.file

EventsRead == \A q \in 1 .. reads : kindOf[readOf[q]] = "events"

ThreadInv(k) ==
    LoopSound(k) /\ ReadSound(k) /\ SettleSound(k) /\ HeldIsPending(k) /\ AsideTended(k)
    /\ (faults < 2 => ReadOnce(k))

SpoolInv ==
    /\ SpoolShape /\ FilesPlaced /\ PendingSound /\ EventsRead
    /\ \A t \in Ticks : ThreadInv(tick[t])


----------------------------------------------------------------------------
(* Lemmas.                                                                 *)

\* A superseded file stays so: the emitter takes nothing back.
LEMMA SupersededStays ==
    ASSUME SpoolShape, NEW f \in Nat \ {0}, Superseded(f), gone \subseteq gone',
           made' \in Nat, made =< made', \A g \in 1 .. made : nameOf'[g] = nameOf[g]
    PROVE  Superseded(f)'
<1>1. CASE f \in gone
  BY <1>1 DEF Superseded
<1>2. CASE \E g \in f + 1 .. made : nameOf[g] = nameOf[f]
  <2>1. PICK g \in f + 1 .. made : nameOf[g] = nameOf[f]
    BY <1>2
  <2>2. f \in 1 .. made /\ g \in 1 .. made /\ g \in f + 1 .. made'
    BY <2>1 DEF SpoolShape
  <2>3. nameOf'[g] = nameOf'[f]
    BY <2>1, <2>2
  <2> QED BY <2>2, <2>3 DEF Superseded
<1> QED BY <1>1, <1>2 DEF Superseded


\* Facts every proof uses: the thread and its fields.
LEMMA Facts ==
    ASSUME SpoolInv, NEW t \in Ticks
    PROVE  /\ tick[t] \in Threads /\ ThreadInv(tick[t])
           /\ tick[t].pc \in {"idle", "settling", "reading", "recover"} \cup ReadPCs \cup SettlePCs
           /\ tick[t].todo \subseteq Names /\ tick[t].file \in Nat /\ tick[t].seen \in [Names -> Items]
           /\ tick[t].pc \in ReadPCs \cup SettlePCs => tick[t].name \in Names
BY DEF SpoolInv, SpoolShape, Threads, ThreadInv, LoopSound

\* The emitter changes what a name holds, under the thread's eyes or not.
LEMMA EmitterStep ==
    ASSUME NEW t, Ticks = {t}, SpoolInv, NEW n \in Names, NEW v \in Nat, v = NoFile \/ v = made + 1,
           made' \in Nat, made =< made', v =< made',
           slot' = [slot EXCEPT ![n] = v], UNCHANGED <<aside, tick, pending, stuck, held, reads>>,
           UNCHANGED <<readOf, settled, faults>>,
           gone \subseteq gone', slot[n] # NoFile => slot[n] \in gone',
           kindOf' \in [1 .. made' -> AllKinds], nameOf' \in [1 .. made' -> Names],
           v # NoFile => nameOf'[v] = n,
           \A g \in 1 .. made : kindOf'[g] = kindOf[g] /\ nameOf'[g] = nameOf[g]
    PROVE  SpoolInv'
<1> DEFINE k == tick[t]
<1>1. t \in Ticks /\ k' = k /\ made \in Nat /\ ThreadInv(k)
  BY DEF SpoolInv, SpoolShape
<1>2. /\ \A m \in Names : slot[m] \in 0 .. made /\ slot'[m] \in 0 .. made' /\ aside[m] \in 0 .. made
      /\ \A m \in Names : slot'[m] = IF m = n THEN v ELSE slot[m]
      /\ \A q \in 1 .. reads : readOf[q] \in 1 .. made /\ readOf[q] # v /\ nameOf[readOf[q]] \in Names
  <2>1. slot \in [Names -> 0 .. made] /\ aside \in [Names -> 0 .. made]
        /\ readOf \in [1 .. reads -> 1 .. made] /\ nameOf \in [1 .. made -> Names]
    BY DEF SpoolInv, SpoolShape
  <2>2. \A m \in Names : slot[m] \in 0 .. made /\ slot'[m] \in 0 .. made' /\ aside[m] \in 0 .. made
    BY <1>1, <2>1
  <2>3. \A q \in 1 .. reads : readOf[q] \in 1 .. made /\ readOf[q] # v /\ nameOf[readOf[q]] \in Names
    <3> SUFFICES ASSUME NEW q \in 1 .. reads
                 PROVE  readOf[q] \in 1 .. made /\ readOf[q] # v /\ nameOf[readOf[q]] \in Names
      OBVIOUS
    <3>1. readOf[q] \in 1 .. made
      BY <2>1
    <3>2. readOf[q] # v
      BY <1>1, <3>1 DEF NoFile
    <3> QED BY <2>1, <3>1, <3>2
  <2> QED BY <2>1, <2>2, <2>3
<1>3. /\ slot' \in [Names -> 0 .. made'] /\ aside' \in [Names -> 0 .. made']
      /\ readOf' \in [1 .. reads' -> 1 .. made']
  <2>1. slot' \in [Names -> 0 .. made']
    BY <1>1, <1>2 DEF SpoolInv, SpoolShape
  <2>2. aside' \in [Names -> 0 .. made']
    BY <1>1, <1>2 DEF SpoolInv, SpoolShape
  <2>3. readOf' \in [1 .. reads' -> 1 .. made']
    <3>1. readOf \in [1 .. reads -> 1 .. made]
      BY DEF SpoolInv, SpoolShape
    <3>2. \A i \in 1 .. made : i \in 1 .. made'
      BY <1>1
    <3> QED BY <3>1, <3>2
  <2> QED BY <2>1, <2>2, <2>3
<1>4. SpoolShape'
  BY <1>3 DEF SpoolInv, SpoolShape
<1>5. FilesPlaced'
  <2> SUFFICES ASSUME NEW m \in Names
               PROVE  /\ slot'[m] # NoFile => nameOf'[slot'[m]] = m
                      /\ aside[m] # NoFile => nameOf'[aside[m]] = m
                      /\ slot'[m] # NoFile => aside[m] =< slot'[m]
    BY DEF FilesPlaced
  <2> QED BY <1>1, <1>2 DEF SpoolInv, FilesPlaced, NoFile
<1>6. \A f \in Nat \ {0} : Superseded(f) => Superseded(f)'
  <2> SUFFICES ASSUME NEW f \in Nat \ {0}, Superseded(f) PROVE Superseded(f)'
    OBVIOUS
  <2> QED BY <1>1, SupersededStays DEF SpoolInv
<1>7. \A f \in Nat \ {0} : Spent(f) => Spent(f)'
  BY <1>6 DEF Spent
<1>8. \A m \in Names : pending[m] # NoRead => pending[m].file \in 1 .. made
  BY <1>2 DEF SpoolInv, PendingSound
<1>9. PendingSound'
  BY <1>1, <1>7, <1>8 DEF SpoolInv, PendingSound
<1>10. EventsRead'
  BY <1>2 DEF SpoolInv, EventsRead
<1>11. LoopSound(k)'
  BY <1>1 DEF ThreadInv, LoopSound
<1>12. k.file \in Nat /\ (k.pc \in ReadPCs \cup SettlePCs => k.name \in Names)
  BY <1>1, Facts
<1>13. ReadSound(k)'
  <2>1. ASSUME k.pc = "open", k.file # NoFile PROVE slot'[k.name] = k.file \/ Superseded(k.file)'
    <3>1. k.name \in Names /\ k.file \in Nat \ {0} /\ (slot[k.name] = k.file \/ Superseded(k.file))
      BY <1>1, <1>12, <2>1 DEF ThreadInv, ReadSound, ReadPCs, NoFile
    <3>2. CASE k.name = n /\ slot[n] = k.file
      BY <2>1, <3>2 DEF Superseded
    <3> QED BY <1>2, <1>6, <3>1, <3>2
  <2>2. k.pc = "note" => k.file \in 1 .. made
    <3>1. k.pc = "note" => reads # 0 /\ k.file = readOf[reads]
      BY <1>1 DEF ThreadInv, ReadSound
    <3>2. reads \in Nat
      BY DEF SpoolInv, SpoolShape
    <3> QED BY <1>2, <3>1, <3>2
  <2> QED BY <1>1, <1>7, <2>1, <2>2 DEF ThreadInv, ReadSound, NoFile
<1>14. SettleSound(k)'
  <2>1. ASSUME k.pc = "unlink" PROVE slot'[k.name] = aside[k.name] \/ Superseded(aside[k.name])'
    <3>1. k.name \in Names /\ aside[k.name] \in Nat \ {0}
          /\ (slot[k.name] = aside[k.name] \/ Superseded(aside[k.name]))
      BY <1>1, <1>2, <1>12, <2>1 DEF ThreadInv, SettleSound, SettlePCs, NoFile
    <3>2. CASE k.name = n /\ slot[n] = aside[n]
      BY <3>1, <3>2 DEF Superseded, NoFile
    <3> QED BY <1>2, <1>6, <3>1, <3>2
  <2>2. k.pc \in {"check", "remove"} => slot'[k.name] # aside[k.name]
    BY <1>1, <1>2, <1>12 DEF ThreadInv, SettleSound, SettlePCs, NoFile
  <2> QED BY <1>1, <1>7, <1>12, <2>1, <2>2 DEF ThreadInv, SettleSound, NoFile
<1>15. HeldIsPending(k)'
  <2>1. \A q \in held : q \in 1 .. reads
    BY DEF SpoolInv, SpoolShape
  <2> QED BY <1>1, <1>2, <2>1 DEF ThreadInv, HeldIsPending
<1>16. AsideTended(k)'
  <2>1. ASSUME NEW m \in Names, aside[m] # NoFile, aside[m] \notin Directories'
        PROVE  aside[m] \notin Directories
    <3>1. aside[m] \in 1 .. made
      BY <1>2, <2>1 DEF NoFile
    <3> QED BY <1>1, <2>1, <3>1 DEF Directories
  <2>2. AsideTended(k)
    BY <1>1 DEF ThreadInv
  <2> QED BY <2>1, <2>2 DEF AsideTended
<1>17. (faults < 2 => ReadOnce(k))'
  <2> SUFFICES ASSUME faults < 2, NEW q \in 1 .. reads PROVE Shipped(k, nameOf[readOf[q]], readOf[q])'
    BY <1>1 DEF ThreadInv, ReadOnce
  <2>1. nameOf'[readOf'[q]] = nameOf[readOf[q]] /\ Shipped(k, nameOf[readOf[q]], readOf[q])
    BY <1>1, <1>2 DEF ThreadInv, ReadOnce
  <2> QED BY <1>1, <1>2, <2>1 DEF Shipped, Tends
<1> QED BY <1>1, <1>4, <1>5, <1>9, <1>10, <1>11, <1>13, <1>14, <1>15, <1>16, <1>17 DEF SpoolInv, ThreadInv

LEMMA WriteStep ==
    ASSUME NEW t, Ticks = {t}, SpoolInv, NEW n \in Names, NEW kind \in Kinds, Write(n, kind)
    PROVE  SpoolInv'
<1>1. /\ made \in Nat /\ made' = made + 1 /\ made' \in Nat /\ kind \in AllKinds
      /\ slot' = [slot EXCEPT ![n] = made + 1] /\ UNCHANGED <<aside, tick>>
  BY SpoolAssumption DEF Write, SpoolInv, SpoolShape
<1>2. /\ UNCHANGED <<pending, stuck, held, reads, readOf, settled, faults>>
      /\ gone \subseteq gone' /\ (slot[n] # NoFile => slot[n] \in gone')
  BY DEF Write, feederVars, heldVars
<1>3. /\ kindOf' \in [1 .. made' -> AllKinds] /\ nameOf' \in [1 .. made' -> Names]
      /\ nameOf'[made + 1] = n
      /\ \A g \in 1 .. made : kindOf'[g] = kindOf[g] /\ nameOf'[g] = nameOf[g]
  BY <1>1 DEF Write, SpoolInv, SpoolShape
<1>4. PICK v \in Nat : v = made + 1
  BY <1>1
<1>5. /\ v = NoFile \/ v = made + 1
      /\ made =< made' /\ v =< made' /\ slot' = [slot EXCEPT ![n] = v] /\ (v # NoFile => nameOf'[v] = n)
  BY <1>1, <1>3, <1>4
<1> QED BY <1>1, <1>2, <1>3, <1>4, <1>5, EmitterStep

LEMMA DeleteStep ==
    ASSUME NEW t, Ticks = {t}, SpoolInv, NEW n \in Names, Delete(n)
    PROVE  SpoolInv'
<1>1. /\ slot' = [slot EXCEPT ![n] = NoFile] /\ NoFile \in Nat /\ made \in Nat /\ NoFile =< made
      /\ gone \subseteq gone' /\ slot[n] \in gone' /\ NoFile = 0
      /\ UNCHANGED <<aside, tick, pending, stuck, held, reads, readOf, settled, faults, made, kindOf, nameOf>>
  BY DEF Delete, feederVars, heldVars, SpoolInv, SpoolShape, NoFile
<1>2. kindOf \in [1 .. made -> AllKinds] /\ nameOf \in [1 .. made -> Names]
  BY DEF SpoolInv, SpoolShape
<1>3. PICK v \in Nat : v = NoFile
  BY <1>1
<1>4. /\ v = NoFile \/ v = made + 1
      /\ made =< made' /\ v =< made' /\ slot' = [slot EXCEPT ![n] = v] /\ (v # NoFile => nameOf'[v] = n)
      /\ \A g \in 1 .. made : kindOf'[g] = kindOf[g] /\ nameOf'[g] = nameOf[g]
  BY <1>1, <1>3
<1> QED BY <1>1, <1>2, <1>3, <1>4, EmitterStep


\* The last event of a read is answered: no other read of its file is held.
LEMMA ReleaseStep ==
    ASSUME NEW t, Ticks = {t}, SpoolInv, NEW r \in held, Release(r)
    PROVE  SpoolInv'
<1> DEFINE k == tick[t]
           f == readOf[r]
<1>1. t \in Ticks /\ k' = k /\ ThreadInv(k)
  BY DEF SpoolInv, Release
<1>2. /\ UNCHANGED <<slot, aside, made, kindOf, nameOf, gone, pending, stuck, reads, readOf, tick, faults>>
      /\ held' = held \ {r} /\ settled \subseteq settled'
  BY DEF Release, diskVars, emitterVars, feederVars
<1>3. /\ held \subseteq 1 .. reads /\ reads \in Nat /\ readOf \in [1 .. reads -> 1 .. made]
      /\ nameOf \in [1 .. made -> Names]
  BY DEF SpoolInv, SpoolShape
<1>4. ReadsOf(f) \cap held = {r}
  <2> SUFFICES ASSUME NEW q \in held, readOf[q] = f PROVE q = r
    BY <1>3 DEF ReadsOf
  <2>1. nameOf[f] \in Names
    BY <1>3
  <2>2. k.pc = "note" => pending[k.name] = NoRead
    BY <1>1 DEF ThreadInv, LoopSound, ReadPCs
  <2>3. pending[nameOf[f]].read = r \/ (r = reads /\ k.pc = "note" /\ k.name = nameOf[f])
    BY <1>1 DEF ThreadInv, HeldIsPending
  <2>4. pending[nameOf[f]].read = q \/ (q = reads /\ k.pc = "note" /\ k.name = nameOf[f])
    BY <1>1 DEF ThreadInv, HeldIsPending
  <2> QED BY <1>3, <2>2, <2>3, <2>4 DEF NoRead
<1>5. f \in settled'
  BY <1>4 DEF Release
<1>6. \A g \in Nat : Spent(g) => Spent(g)'
  BY <1>2 DEF Spent, Superseded
<1>7. SpoolShape'
  BY <1>2 DEF SpoolInv, SpoolShape
<1>8. FilesPlaced' /\ EventsRead'
  BY <1>2 DEF SpoolInv, FilesPlaced, EventsRead
<1>9. PendingSound'
  <2>1. \A n \in Names : pending[n].file \in Nat
    BY DEF SpoolInv, SpoolShape, Items
  <2> QED BY <1>2, <1>5, <1>6, <2>1 DEF SpoolInv, PendingSound, Spent
<1>10. LoopSound(k)'
  BY <1>1, <1>2 DEF ThreadInv, LoopSound
<1>11. ReadSound(k)'
  <2>1. k.file \in Nat
    BY <1>1, Facts
  <2> QED BY <1>1, <1>2, <1>5, <1>6, <2>1 DEF ThreadInv, ReadSound, Spent, Superseded
<1>12. SettleSound(k)'
  <2>1. k.file \in Nat
    BY <1>1, Facts
  <2> QED BY <1>1, <1>2, <1>6, <2>1 DEF ThreadInv, SettleSound, Superseded
<1>13. HeldIsPending(k)' /\ AsideTended(k)' /\ (faults < 2 => ReadOnce(k))'
  BY <1>1, <1>2 DEF ThreadInv, HeldIsPending, AsideTended, Directories, ReadOnce, Shipped, Tends
<1> QED BY <1>1, <1>7, <1>8, <1>9, <1>10, <1>11, <1>12, <1>13 DEF SpoolInv, ThreadInv

\* A step that only moves the thread: what it did not change stays as it was, and
\* the rest is about where the thread now stands.
LEMMA MoveStep ==
    ASSUME NEW t, Ticks = {t}, SpoolInv, NEW k \in Threads, tick' = [tick EXCEPT ![t] = k],
           UNCHANGED <<slot, aside, made, kindOf, nameOf, gone, pending, stuck, held, reads>>,
           UNCHANGED <<readOf, faults>>, settled \subseteq settled', ThreadInv(k)'
    PROVE  SpoolInv'
<1>1. tick'[t] = k /\ tick' \in [Ticks -> Threads]
  BY DEF SpoolInv, SpoolShape
<1>2. SpoolShape' /\ FilesPlaced' /\ EventsRead'
  BY <1>1 DEF SpoolInv, SpoolShape, FilesPlaced, EventsRead
<1>3. \A f \in Nat : Spent(f) => Spent(f)'
  BY DEF Spent, Superseded
<1>4. PendingSound'
  <2>1. \A n \in Names : pending[n].file \in Nat
    BY DEF SpoolInv, SpoolShape, Items
  <2> QED BY <1>3, <2>1 DEF SpoolInv, PendingSound
<1>5. \A u \in Ticks : ThreadInv(tick[u])'
  <2>1. ThreadInv(tick[t])'
    BY <1>1 DEF ThreadInv, LoopSound, ReadSound, SettleSound, HeldIsPending, AsideTended, ReadOnce, Shipped, Tends
  <2> QED BY <2>1
<1> QED BY <1>2, <1>4, <1>5 DEF SpoolInv


LEMMA QuietStep ==
    ASSUME NEW t, Ticks = {t}, SpoolInv, NEW k \in Threads, tick' = [tick EXCEPT ![t] = k],
           UNCHANGED <<slot, aside, made, kindOf, nameOf, gone, pending, stuck, held, reads>>,
           UNCHANGED <<readOf, faults, settled>>, ThreadInv(k)
    PROVE  SpoolInv'
<1>1. ThreadInv(k)'
  BY DEF ThreadInv, LoopSound, ReadSound, SettleSound, HeldIsPending, AsideTended, Directories, ReadOnce,
     Shipped, Tends, Spent, Superseded
<1> QED BY <1>1, MoveStep

LEMMA IdleThread ==
    Idle \in Threads /\ Idle.pc = "idle" /\ Idle.loop = "none" /\ Idle.todo = {} /\ Idle.file = 0
BY DEF Idle, Threads, Items, NoRead, NoFile

\* A thread that holds no file vouches for none.
LEMMA Untended ==
    ASSUME NEW j, NEW k, ThreadInv(j), j.pc \notin SettlePCs \cup {"note"}, j.loop # "recover",
           k.pc # "extend"
    PROVE  HeldIsPending(k) /\ AsideTended(k) /\ (faults < 2 => ReadOnce(k))
<1>1. HeldIsPending(k)
  BY DEF ThreadInv, HeldIsPending
<1>2. AsideTended(k)
  BY DEF ThreadInv, AsideTended, SettlePCs
<1>3. ASSUME faults < 2 PROVE ReadOnce(k)
  BY <1>3 DEF ThreadInv, ReadOnce, Shipped, Tends
<1> QED BY <1>1, <1>2, <1>3

LEMMA StartStep ==
    ASSUME NEW t, Ticks = {t}, SpoolInv, Start(t)
    PROVE  SpoolInv'
<1>1. t \in Ticks /\ ThreadInv(tick[t]) /\ tick[t].pc = "idle" /\ tick[t].loop = "none"
  BY DEF SpoolInv, Start, At, ThreadInv, LoopSound
<1>2. pending \in [Names -> Items]
  BY DEF SpoolInv, SpoolShape
<1>3. PICK k \in Threads :
         /\ k = [Idle EXCEPT !.pc = "settling", !.loop = "settling", !.seen = pending,
                             !.todo = {n \in Names : pending[n] # NoRead}]
         /\ k.pc = "settling" /\ k.loop = "settling" /\ k.seen = pending
         /\ k.todo = {n \in Names : pending[n] # NoRead}
  <2> DEFINE listed == {n \in Names : pending[n] # NoRead}
  <2>1. listed \in SUBSET Names
    OBVIOUS
  <2> HIDE DEF listed
  <2>2. PICK i \in Threads : i = Idle
    BY IdleThread
  <2> DEFINE new == [i EXCEPT !.pc = "settling", !.loop = "settling", !.seen = pending, !.todo = listed]
  <2>3. new \in Threads
    BY <1>2, <2>1 DEF Threads
  <2>4. new.pc = "settling" /\ new.loop = "settling" /\ new.seen = pending /\ new.todo = listed
    BY DEF Threads
  <2> QED BY <2>2, <2>3, <2>4 DEF listed
<1>4. LoopSound(k) /\ ReadSound(k) /\ SettleSound(k)
  BY <1>3 DEF LoopSound, ReadSound, SettleSound, ReadPCs, SettlePCs
<1>5. HeldIsPending(k) /\ AsideTended(k) /\ (faults < 2 => ReadOnce(k))
  BY <1>1, <1>3, Untended DEF SettlePCs
<1>6. ThreadInv(k)
  BY <1>4, <1>5 DEF ThreadInv
<1> QED BY <1>3, <1>6, QuietStep DEF Start, diskVars, emitterVars, feederVars, heldVars

\* The read loop ends, for want of names or of room.
LEMMA EndStep ==
    ASSUME NEW t, Ticks = {t}, SpoolInv, Finish(t) \/ OutOfRoom(t)
    PROVE  SpoolInv'
<1>1. t \in Ticks /\ ThreadInv(tick[t]) /\ tick[t].pc = "reading" /\ tick[t].loop = "reading"
  BY DEF SpoolInv, Finish, OutOfRoom, At, ThreadInv, LoopSound
<1>2. PICK k \in Threads : k = Idle /\ k.pc = "idle" /\ k.loop = "none" /\ k.todo = {}
  BY IdleThread
<1>3. LoopSound(k) /\ ReadSound(k) /\ SettleSound(k)
  BY <1>2 DEF LoopSound, ReadSound, SettleSound, ReadPCs, SettlePCs
<1>4. HeldIsPending(k) /\ AsideTended(k) /\ (faults < 2 => ReadOnce(k))
  BY <1>1, <1>2, Untended DEF SettlePCs
<1>5. ThreadInv(k)
  BY <1>3, <1>4 DEF ThreadInv
<1> QED BY <1>2, <1>5, QuietStep DEF Finish, OutOfRoom, diskVars, emitterVars, feederVars, heldVars


LEMMA Assembled ==
    ASSUME NEW t, Ticks = {t}, NEW k, tick'[t] = k,
           SpoolShape', FilesPlaced', PendingSound', EventsRead', ThreadInv(k)'
    PROVE  SpoolInv'
<1>1. ThreadInv(tick[t])'
  BY DEF ThreadInv, LoopSound, ReadSound, SettleSound, HeldIsPending, AsideTended, ReadOnce, Shipped, Tends
<1> QED BY <1>1 DEF SpoolInv

\* An item still held is passed over.
LEMMA PassStep ==
    ASSUME NEW t, Ticks = {t}, SpoolInv, NEW n \in tick[t].todo, SettlePending(t, n),
           StillHeld(tick[t].seen[n].read)
    PROVE  SpoolInv'
<1>1. t \in Ticks /\ ThreadInv(tick[t]) /\ tick[t].pc = "settling" /\ tick[t].loop = "settling" /\ tick[t] \in Threads
  BY Facts DEF SpoolInv, SettlePending, At, ThreadInv, LoopSound
<1>2. PICK k \in Threads :
         /\ k = [tick[t] EXCEPT !.todo = @ \ {n}] /\ k.pc = "settling" /\ k.loop = "settling"
         /\ k.seen = tick[t].seen /\ k.todo = tick[t].todo \ {n}
  <2>1. tick[t].todo \ {n} \in SUBSET Names
    BY <1>1 DEF Threads
  <2>2. PICK w \in SUBSET Names : w = tick[t].todo \ {n}
    BY <2>1
  <2>3. [tick[t] EXCEPT !.todo = w] \in Threads
    BY <1>1 DEF Threads
  <2> QED BY <1>1, <2>2, <2>3 DEF Threads
<1>3. LoopSound(k) /\ ReadSound(k) /\ SettleSound(k)
  BY <1>1, <1>2 DEF ThreadInv, LoopSound, ReadSound, SettleSound, ReadPCs, SettlePCs
<1>4. HeldIsPending(k) /\ AsideTended(k) /\ (faults < 2 => ReadOnce(k))
  BY <1>1, <1>2, Untended DEF SettlePCs
<1>5. ThreadInv(k)
  BY <1>3, <1>4 DEF ThreadInv
<1>6. tick' = [tick EXCEPT ![t] = k]
  BY <1>2 DEF SettlePending
<1>7. pending' = pending
  BY DEF SettlePending
<1> QED BY <1>5, <1>6, <1>7, QuietStep DEF SettlePending, diskVars, emitterVars, heldVars

\* A read of which no event is held any more leaves _pending and is settled.
LEMMA TakeStep ==
    ASSUME NEW t, Ticks = {t}, SpoolInv, NEW n \in tick[t].todo, SettlePending(t, n),
           ~StillHeld(tick[t].seen[n].read)
    PROVE  SpoolInv'
<1>1. /\ t \in Ticks /\ ThreadInv(tick[t]) /\ tick[t].pc = "settling" /\ tick[t].loop = "settling"
      /\ tick[t] \in Threads /\ n \in Names
  BY Facts DEF SpoolInv, SettlePending, At, ThreadInv, LoopSound
<1>2. /\ pending[n] # NoRead /\ tick[t].seen[n] = pending[n] /\ pending \in [Names -> Items]
  BY <1>1 DEF ThreadInv, LoopSound, SpoolInv, SpoolShape
<1>3. PICK f \in Nat : f = pending[n].file
  BY <1>1, <1>2 DEF Items
<1>4. PICK k \in Threads :
         /\ k = [tick[t] EXCEPT !.todo = @ \ {n}, !.name = n, !.file = f, !.pc = "link", !.then = "stat"]
         /\ k.pc = "link" /\ k.loop = "settling" /\ k.name = n /\ k.file = f /\ k.then = "stat"
         /\ k.seen = tick[t].seen /\ k.todo = tick[t].todo \ {n}
  <2>1. tick[t].todo \ {n} \in SUBSET Names
    BY <1>1 DEF Threads
  <2>2. PICK w \in SUBSET Names : w = tick[t].todo \ {n}
    BY <2>1
  <2>3. [tick[t] EXCEPT !.todo = w, !.name = n, !.file = f, !.pc = "link", !.then = "stat"] \in Threads
    BY <1>1 DEF Threads, SettlePCs
  <2> QED BY <1>1, <2>2, <2>3, ZenonT(60) DEF Threads
<1>5. /\ tick' = [tick EXCEPT ![t] = k] /\ pending' = [pending EXCEPT ![n] = NoRead]
      /\ UNCHANGED <<slot, aside, made, kindOf, nameOf, gone, stuck, held, reads, readOf, settled, faults>>
  BY <1>2, <1>3, <1>4 DEF SettlePending, diskVars, emitterVars, heldVars
<1>6. /\ pending[n].read \notin held /\ pending[n].read \in 1 .. reads /\ f = readOf[pending[n].read]
      /\ nameOf[f] = n /\ stuck[n] = NoFile /\ Spent(f)
  BY <1>1, <1>2, <1>3 DEF SpoolInv, PendingSound, StillHeld
<1>7. SpoolShape'
  <2>1. NoRead \in Items
    BY DEF NoRead, Items, NoFile
  <2> QED BY <1>1, <1>4, <1>5, <2>1 DEF SpoolInv, SpoolShape
<1>8. FilesPlaced' /\ EventsRead'
  BY <1>5 DEF SpoolInv, FilesPlaced, EventsRead
<1>9. PendingSound'
  BY <1>1, <1>2, <1>5 DEF SpoolInv, PendingSound, Spent, Superseded
<1>10. LoopSound(k)'
  BY <1>1, <1>2, <1>4, <1>5 DEF ThreadInv, LoopSound, ReadPCs, SettlePCs
<1>11. ReadSound(k)' /\ SettleSound(k)'
  BY <1>4, <1>5, <1>6 DEF ReadSound, SettleSound, ReadPCs, SettlePCs, Spent, Superseded
<1>12. \A r \in held : nameOf[readOf[r]] \in Names
  BY DEF SpoolInv, SpoolShape
<1>13. HeldIsPending(k)'
  BY <1>1, <1>2, <1>5, <1>6, <1>12 DEF ThreadInv, HeldIsPending
<1>14. AsideTended(k)'
  BY <1>1, <1>5 DEF ThreadInv, AsideTended, Directories
<1>15. (faults < 2 => ReadOnce(k))'
  <2>1. aside[n] = f => faults > 0
    <3>1. f \notin Directories /\ f # NoFile
      <4>1. kindOf[f] = "events"
        BY <1>6 DEF SpoolInv, EventsRead
      <4>2. f \in 1 .. made
        BY <1>6 DEF SpoolInv, SpoolShape
      <4> QED BY <4>1, <4>2 DEF Directories, NoFile
    <3> QED BY <1>1, <3>1 DEF ThreadInv, AsideTended
  <2> SUFFICES ASSUME faults < 2, NEW q \in 1 .. reads PROVE Shipped(k, nameOf[readOf[q]], readOf[q])'
    BY <1>1, <1>4, <1>5 DEF ThreadInv, ReadOnce
  <2>2. Shipped(tick[t], nameOf[readOf[q]], readOf[q]) /\ nameOf[readOf[q]] \in Names
    BY <1>1 DEF ThreadInv, ReadOnce, SpoolInv, SpoolShape
  <2>3. ~Tends(tick[t], nameOf[readOf[q]], readOf[q])
    BY <1>1 DEF Tends, SettlePCs
  <2>4. CASE nameOf[readOf[q]] = n /\ readOf[q] = f
    <3>1. Tends(k, n, f)'
      BY <1>4, <1>5, <2>1 DEF Tends, SettlePCs
    <3> QED BY <1>5, <2>4, <3>1 DEF Shipped, Tends
  <2>5. CASE ~(nameOf[readOf[q]] = n /\ readOf[q] = f)
    BY <1>2, <1>3, <1>5, <2>2, <2>3, <2>5 DEF Shipped
  <2> QED BY <2>4, <2>5
<1>16. ThreadInv(k)'
  BY <1>10, <1>11, <1>13, <1>14, <1>15 DEF ThreadInv
<1>17. tick'[t] = k
  BY <1>1, <1>5 DEF SpoolInv, SpoolShape
<1> QED BY <1>7, <1>8, <1>9, <1>16, <1>17, Assembled


\* The least name of a listing is one of it.
LEMMA LeastListed ==
    ASSUME NEW S, S \subseteq Nat, S # {}
    PROVE  Min(S) \in S
<1>1. \E x \in S : \A y \in S : x =< y
  BY LeastIn
<1> QED BY <1>1 DEF Min


\* _segments(): a parked name is let go only when its file is off the name.
LEMMA ListStep ==
    ASSUME NEW t, Ticks = {t}, SpoolInv, List(t)
    PROVE  SpoolInv'
<1>1. t \in Ticks /\ ThreadInv(tick[t]) /\ tick[t].pc = "settling" /\ tick[t].loop = "settling" /\ tick[t] \in Threads
  BY Facts DEF SpoolInv, List, At, ThreadInv, LoopSound
<1>2. PICK k \in Threads :
         /\ k = [tick[t] EXCEPT !.pc = "reading", !.loop = "reading", !.todo = {n \in Names : Fresh(n)}]
         /\ k.pc = "reading" /\ k.loop = "reading" /\ k.todo = {n \in Names : Fresh(n)}
  <2>1. PICK w \in SUBSET Names : w = {n \in Names : Fresh(n)}
    OBVIOUS
  <2>2. [tick[t] EXCEPT !.pc = "reading", !.loop = "reading", !.todo = w] \in Threads
    BY <1>1 DEF Threads
  <2> QED BY <1>1, <2>1, <2>2 DEF Threads
<1>3. /\ tick' = [tick EXCEPT ![t] = k] /\ stuck' = Unstuck
      /\ UNCHANGED <<slot, aside, made, kindOf, nameOf, gone, pending, held, reads, readOf, settled, faults>>
  BY <1>2 DEF List, diskVars, emitterVars, heldVars
<1>4. /\ \A n \in Names : stuck'[n] = IF slot[n] = stuck[n] THEN stuck[n] ELSE NoFile
      /\ stuck' \in [Names -> Nat]
  BY <1>3 DEF Unstuck, SpoolInv, SpoolShape, NoFile
<1>5. SpoolShape' /\ FilesPlaced' /\ EventsRead'
  BY <1>1, <1>2, <1>3, <1>4 DEF SpoolInv, SpoolShape, FilesPlaced, EventsRead
<1>6. PendingSound'
  BY <1>3, <1>4 DEF SpoolInv, PendingSound, Spent, Superseded
<1>7. LoopSound(k)'
  <2>1. \A n \in k.todo : n \in Names /\ pending[n] = NoRead /\ stuck'[n] = NoFile
    BY <1>2, <1>3 DEF Fresh
  <2> QED BY <1>2, <1>3, <2>1 DEF LoopSound, ReadPCs, SettlePCs
<1>8. ReadSound(k)' /\ SettleSound(k)'
  BY <1>2 DEF ReadSound, SettleSound, ReadPCs, SettlePCs
<1>9. HeldIsPending(k) /\ AsideTended(k) /\ (faults < 2 => ReadOnce(k))
  BY <1>1, <1>2, Untended DEF SettlePCs
<1>10. HeldIsPending(k)' /\ AsideTended(k)'
  BY <1>3, <1>9 DEF HeldIsPending, AsideTended, Directories
<1>11. (faults < 2 => ReadOnce(k))'
  <2> SUFFICES ASSUME faults < 2, NEW q \in 1 .. reads PROVE Shipped(k, nameOf[readOf[q]], readOf[q])'
    BY <1>2, <1>3, <1>9 DEF ReadOnce
  <2>1. Shipped(k, nameOf[readOf[q]], readOf[q]) /\ nameOf[readOf[q]] \in Names
    BY <1>9 DEF ReadOnce, SpoolInv, SpoolShape
  <2> QED BY <1>2, <1>3, <1>4, <2>1 DEF Shipped, Tends, SettlePCs
<1>12. ThreadInv(k)'
  BY <1>7, <1>8, <1>10, <1>11 DEF ThreadInv
<1>13. tick'[t] = k
  BY <1>1, <1>3 DEF SpoolInv, SpoolShape
<1> QED BY <1>5, <1>6, <1>12, <1>13, Assembled

LEMMA LstatStep ==
    ASSUME NEW t, Ticks = {t}, SpoolInv, Lstat(t)
    PROVE  SpoolInv'
<1>1. /\ t \in Ticks /\ ThreadInv(tick[t]) /\ tick[t].pc = "reading" /\ tick[t].loop = "reading"
      /\ tick[t] \in Threads /\ tick[t].todo \subseteq Names
  BY Facts DEF SpoolInv, Lstat, At, ThreadInv, LoopSound
<1>2. PICK n \in tick[t].todo : n = Min(tick[t].todo)
  BY <1>1, LeastListed, SpoolAssumption DEF Lstat
<1>3. n \in Names
  BY <1>1
<1>4. PICK f \in Nat : f = slot[n]
  BY <1>3 DEF SpoolInv, SpoolShape
<1>5. PICK k \in Threads :
         /\ k = [tick[t] EXCEPT !.todo = @ \ {n}, !.name = n, !.file = f, !.pc = "open"]
         /\ k.pc = "open" /\ k.loop = "reading" /\ k.name = n /\ k.file = f /\ k.todo = tick[t].todo \ {n}
  <2>1. PICK w \in SUBSET Names : w = tick[t].todo \ {n}
    BY <1>1
  <2>2. [tick[t] EXCEPT !.todo = w, !.name = n, !.file = f, !.pc = "open"] \in Threads
    BY <1>1, <1>3 DEF Threads, ReadPCs
  <2> QED BY <1>1, <2>1, <2>2, ZenonT(60) DEF Threads
<1>6. tick' = [tick EXCEPT ![t] = k]
  BY <1>2, <1>4, <1>5 DEF Lstat
<1>7. LoopSound(k) /\ ReadSound(k) /\ SettleSound(k)
  BY <1>1, <1>3, <1>4, <1>5 DEF ThreadInv, LoopSound, ReadSound, SettleSound, ReadPCs, SettlePCs
<1>8. HeldIsPending(k) /\ AsideTended(k) /\ (faults < 2 => ReadOnce(k))
  BY <1>1, <1>5, Untended DEF SettlePCs
<1>9. ThreadInv(k)
  BY <1>7, <1>8 DEF ThreadInv
<1> QED BY <1>6, <1>9, QuietStep DEF Lstat, diskVars, emitterVars, feederVars, heldVars


\* The segment is gone, or is opened and read, or is refused and settled at once.
LEMMA ReadStep ==
    ASSUME NEW t, Ticks = {t}, SpoolInv, Read(t)
    PROVE  SpoolInv'
<1>1. /\ t \in Ticks /\ ThreadInv(tick[t]) /\ tick[t].pc = "open" /\ tick[t].loop = "reading"
      /\ tick[t] \in Threads /\ tick[t].name \in Names
  BY Facts DEF SpoolInv, Read, At, ThreadInv, LoopSound, ReadPCs
<1>2. PICK n \in Names : n = tick[t].name
  BY <1>1
<1>3. PICK f \in Nat : f = slot[n]
  BY DEF SpoolInv, SpoolShape
<1>4. /\ n \notin tick[t].todo /\ pending[n] = NoRead /\ stuck[n] = NoFile
      /\ tick[t].file # NoFile => f = tick[t].file \/ Superseded(tick[t].file)
  BY <1>1, <1>2, <1>3 DEF ThreadInv, LoopSound, ReadSound, ReadPCs
<1>5. f # NoFile => f \in 1 .. made /\ nameOf[f] = n
  BY <1>3 DEF SpoolInv, SpoolShape, FilesPlaced, NoFile
<1>6. UNCHANGED <<slot, aside, made, kindOf, nameOf, gone, pending, stuck, held, reads, readOf, faults>>
  BY DEF Read, diskVars, emitterVars, feederVars
<1>7. CASE f = NoFile
  <2>1. PICK k \in Threads :
           /\ k = [tick[t] EXCEPT !.pc = "reading"]
           /\ k.pc = "reading" /\ k.loop = "reading" /\ k.todo = tick[t].todo
    <3>1. [tick[t] EXCEPT !.pc = "reading"] \in Threads
      BY <1>1 DEF Threads
    <3> QED BY <1>1, <3>1 DEF Threads
  <2>2. tick' = [tick EXCEPT ![t] = k] /\ settled' = settled
    BY <1>2, <1>3, <1>7, <2>1 DEF Read, Goto
  <2>3. LoopSound(k) /\ ReadSound(k) /\ SettleSound(k)
    BY <1>1, <2>1 DEF ThreadInv, LoopSound, ReadSound, SettleSound, ReadPCs, SettlePCs
  <2>4. HeldIsPending(k) /\ AsideTended(k) /\ (faults < 2 => ReadOnce(k))
    BY <1>1, <2>1, Untended DEF SettlePCs
  <2>5. ThreadInv(k)
    BY <2>3, <2>4 DEF ThreadInv
  <2> QED BY <1>6, <2>2, <2>5, QuietStep
<1>8. CASE f # NoFile /\ kindOf[f] = "events"
  <2>1. PICK k \in Threads :
           /\ k = [tick[t] EXCEPT !.file = f, !.pc = "extend"]
           /\ k.pc = "extend" /\ k.loop = "reading" /\ k.todo = tick[t].todo /\ k.name = n /\ k.file = f
    <3>1. [tick[t] EXCEPT !.file = f, !.pc = "extend"] \in Threads
      BY <1>1 DEF Threads, ReadPCs
    <3> QED BY <1>1, <1>2, <3>1 DEF Threads
  <2>2. tick' = [tick EXCEPT ![t] = k] /\ settled' = settled
    BY <1>2, <1>3, <1>8, <2>1 DEF Read, ReadId
  <2>3. LoopSound(k) /\ ReadSound(k) /\ SettleSound(k)
    BY <1>1, <1>4, <1>5, <1>8, <2>1 DEF ThreadInv, LoopSound, ReadSound, SettleSound, ReadPCs, SettlePCs
  <2>4. HeldIsPending(k) /\ AsideTended(k)
    BY <1>1, <2>1 DEF ThreadInv, HeldIsPending, AsideTended
  <2>5. ASSUME faults < 2 PROVE ReadOnce(k)
    <3>1. ReadOnce(tick[t])
      BY <1>1, <2>5 DEF ThreadInv
    <3>2. ASSUME NEW q \in 1 .. reads, readOf[q] = f PROVE FALSE
      <4>1. Shipped(tick[t], n, f)
        BY <1>5, <1>8, <3>1, <3>2 DEF ReadOnce
      <4> QED BY <1>1, <1>3, <1>4, <1>8, <4>1 DEF Shipped, Tends, NoRead, SettlePCs
    <3> QED BY <1>1, <2>1, <3>1, <3>2 DEF ReadOnce, Shipped, Tends, SettlePCs
  <2>6. ThreadInv(k)
    BY <2>3, <2>4, <2>5 DEF ThreadInv
  <2> QED BY <1>6, <2>2, <2>6, QuietStep
<1>9. CASE f # NoFile /\ kindOf[f] # "events"
  <2>1. PICK g \in Nat : g = ReadId(f, tick[t].file)
    BY <1>1 DEF ReadId, Threads
  <2>2. PICK k \in Threads :
           /\ k = [tick[t] EXCEPT !.file = g, !.pc = "link", !.then = "stat"]
           /\ k.pc = "link" /\ k.loop = "reading" /\ k.then = "stat" /\ k.todo = tick[t].todo
           /\ k.name = n /\ k.file = g
    <3>1. [tick[t] EXCEPT !.file = g, !.pc = "link", !.then = "stat"] \in Threads
      BY <1>1 DEF Threads, SettlePCs
    <3> QED BY <1>1, <1>2, <3>1 DEF Threads
  <2>3. tick' = [tick EXCEPT ![t] = k] /\ settled' = settled \cup {f}
    BY <1>2, <1>3, <1>9, <2>1, <2>2 DEF Read
  <2>4. g # NoFile => Spent(g)'
    <3>1. g = f \/ g = tick[t].file
      BY <2>1 DEF ReadId
    <3>2. g = f \/ (g # NoFile => Superseded(g))
      BY <1>4, <3>1
    <3> QED BY <1>6, <2>3, <3>2 DEF Spent, Superseded
  <2>5. LoopSound(k)' /\ ReadSound(k)'
    BY <1>1, <1>4, <1>6, <2>2 DEF ThreadInv, LoopSound, ReadSound, ReadPCs, SettlePCs
  <2>6. SettleSound(k)'
    BY <1>4, <1>6, <2>2, <2>4 DEF SettleSound, SettlePCs
  <2>7. HeldIsPending(k) /\ AsideTended(k) /\ (faults < 2 => ReadOnce(k))
    BY <1>1, <2>2, Untended DEF SettlePCs
  <2>8. HeldIsPending(k)' /\ AsideTended(k)' /\ (faults < 2 => ReadOnce(k))'
    BY <1>6, <2>7 DEF HeldIsPending, AsideTended, Directories, ReadOnce, Shipped, Tends
  <2>9. ThreadInv(k)'
    BY <2>5, <2>6, <2>8 DEF ThreadInv
  <2>10. settled \subseteq settled'
    BY <2>3
  <2> QED BY <1>6, <2>3, <2>9, <2>10, MoveStep
<1> QED BY <1>7, <1>8, <1>9


\* The events are buffered: a read of its own.
LEMMA SpoolExtendStep ==
    ASSUME NEW t, Ticks = {t}, SpoolInv, ExtendBuffer(t)
    PROVE  SpoolInv'
<1>1. /\ t \in Ticks /\ ThreadInv(tick[t]) /\ tick[t].pc = "extend" /\ tick[t].loop = "reading"
      /\ tick[t] \in Threads /\ tick[t].name \in Names
  BY Facts DEF SpoolInv, ExtendBuffer, At, ThreadInv, LoopSound, ReadPCs
<1>2. PICK n \in Names : n = tick[t].name
  BY <1>1
<1>3. PICK f \in Nat : f = tick[t].file
  BY <1>1 DEF Threads
<1>4. /\ n \notin tick[t].todo /\ pending[n] = NoRead /\ stuck[n] = NoFile
      /\ f \in 1 .. made /\ nameOf[f] = n /\ kindOf[f] = "events"
  BY <1>1, <1>2, <1>3 DEF ThreadInv, LoopSound, ReadSound, ReadPCs
<1>5. PICK i \in Nat : i = reads + 1 /\ i # 0
  BY DEF SpoolInv, SpoolShape
<1>6. PICK k \in Threads :
         /\ k = [tick[t] EXCEPT !.pc = "note", !.seen = [@ EXCEPT ![n] = [file |-> f, read |-> i]]]
         /\ k.pc = "note" /\ k.loop = "reading" /\ k.todo = tick[t].todo /\ k.name = n /\ k.file = f
         /\ k.seen[n] = [file |-> f, read |-> i]
  <2>1. tick[t].seen \in [Names -> Items]
    BY <1>1 DEF Threads
  <2>2. PICK w \in [Names -> Items] : w = [tick[t].seen EXCEPT ![n] = [file |-> f, read |-> i]]
    BY <2>1 DEF Items
  <2>3. [tick[t] EXCEPT !.pc = "note", !.seen = w] \in Threads
    BY <1>1 DEF Threads, ReadPCs
  <2>4. w[n] = [file |-> f, read |-> i]
    BY <2>1, <2>2
  <2> QED BY <1>1, <1>2, <1>3, <2>2, <2>3, <2>4 DEF Threads
<1>7. /\ tick' = [tick EXCEPT ![t] = k] /\ reads' = i /\ held' = held \cup {i} /\ settled' = settled \ {f}
      /\ UNCHANGED <<slot, aside, made, kindOf, nameOf, gone, pending, stuck, faults>>
  BY <1>2, <1>3, <1>5, <1>6 DEF ExtendBuffer, diskVars, emitterVars, feederVars
<1>8. /\ reads \in Nat /\ held \subseteq 1 .. reads /\ readOf \in [1 .. reads -> 1 .. made]
      /\ nameOf \in [1 .. made -> Names]
  BY DEF SpoolInv, SpoolShape
<1>9. /\ readOf' \in [1 .. i -> 1 .. made] /\ readOf'[i] = f
      /\ \A q \in 1 .. reads : readOf'[q] = readOf[q] /\ q # i
  BY <1>3, <1>4, <1>5, <1>8 DEF ExtendBuffer
<1>10. \A q \in 1 .. i : q \in 1 .. reads \/ q = i
  BY <1>5, <1>8
<1>11. SpoolShape'
  <2>1. held' \subseteq 1 .. i
    BY <1>5, <1>7, <1>8
  <2>2. tick' \in [Ticks -> Threads]
    BY <1>7 DEF SpoolInv, SpoolShape
  <2> QED BY <1>5, <1>7, <1>9, <2>1, <2>2 DEF SpoolInv, SpoolShape
<1>12. FilesPlaced' /\ EventsRead'
  BY <1>4, <1>7, <1>9, <1>10 DEF SpoolInv, FilesPlaced, EventsRead
<1>13. PendingSound'
  <2> SUFFICES ASSUME NEW m \in Names, pending[m] # NoRead
               PROVE  /\ pending[m].read \in 1 .. i /\ pending[m].file = readOf'[pending[m].read]
                      /\ nameOf[pending[m].file] = m /\ stuck[m] = NoFile
                      /\ pending[m].read \in held' \/ Spent(pending[m].file)'
    BY <1>7 DEF PendingSound
  <2>1. /\ pending[m].read \in 1 .. reads /\ pending[m].file = readOf[pending[m].read]
        /\ nameOf[pending[m].file] = m /\ stuck[m] = NoFile
        /\ pending[m].read \in held \/ Spent(pending[m].file)
    BY DEF SpoolInv, PendingSound
  <2>2. pending[m].file # f
    BY <1>4, <2>1
  <2> QED BY <1>5, <1>7, <1>8, <1>9, <2>1, <2>2 DEF Spent, Superseded
<1>14. LoopSound(k)'
  BY <1>1, <1>4, <1>6, <1>7 DEF ThreadInv, LoopSound, ReadPCs, SettlePCs
<1>15. ReadSound(k)' /\ SettleSound(k)'
  BY <1>4, <1>5, <1>6, <1>7, <1>9 DEF ReadSound, SettleSound, ReadPCs, SettlePCs
<1>16. HeldIsPending(k)'
  BY <1>1, <1>4, <1>6, <1>7, <1>8, <1>9 DEF ThreadInv, HeldIsPending
<1>17. AsideTended(k)'
  BY <1>1, <1>6, <1>7 DEF ThreadInv, AsideTended, Directories
<1>18. ASSUME faults < 2 PROVE ReadOnce(k)'
  <2>1. ReadOnce(tick[t]) /\ \A q \in 1 .. reads : readOf[q] # f
    BY <1>1, <1>3, <1>18 DEF ThreadInv, ReadOnce
  <2>2. \A q, r \in 1 .. i : readOf'[q] = readOf'[r] => q = r
    BY <1>9, <1>10, <2>1 DEF ReadOnce
  <2>3. ASSUME NEW q \in 1 .. i PROVE Shipped(k, nameOf[readOf[q]], readOf[q])'
    <3>1. CASE q = i
      <4>1. Tends(k, n, f)'
        BY <1>6 DEF Tends, SettlePCs
      <4> QED BY <1>4, <1>7, <1>9, <3>1, <4>1 DEF Shipped, Tends
    <3>2. CASE q \in 1 .. reads
      <4>1. Shipped(tick[t], nameOf[readOf[q]], readOf[q])
        BY <2>1, <3>2 DEF ReadOnce
      <4> QED BY <1>1, <1>7, <1>9, <3>2, <4>1 DEF Shipped, Tends, SettlePCs
    <3> QED BY <1>10, <3>1, <3>2
  <2> QED BY <1>6, <1>7, <2>2, <2>3 DEF ReadOnce
<1>19. ThreadInv(k)'
  BY <1>7, <1>14, <1>15, <1>16, <1>17, <1>18 DEF ThreadInv
<1>20. tick'[t] = k
  BY <1>1, <1>7 DEF SpoolInv, SpoolShape
<1> QED BY <1>11, <1>12, <1>13, <1>19, <1>20, Assembled

\* The read is noted: its events keep the file.
LEMMA NoteStep ==
    ASSUME NEW t, Ticks = {t}, SpoolInv, Note(t)
    PROVE  SpoolInv'
<1>1. /\ t \in Ticks /\ ThreadInv(tick[t]) /\ tick[t].pc = "note" /\ tick[t].loop = "reading"
      /\ tick[t] \in Threads /\ tick[t].name \in Names
  BY Facts DEF SpoolInv, Note, At, ThreadInv, LoopSound, ReadPCs
<1>2. PICK n \in Names : n = tick[t].name
  BY <1>1
<1>3. PICK f \in Nat : f = tick[t].file
  BY <1>1 DEF Threads
<1>4. /\ n \notin tick[t].todo /\ pending[n] = NoRead /\ stuck[n] = NoFile
      /\ tick[t].seen[n] = [file |-> f, read |-> reads] /\ reads # 0 /\ readOf[reads] = f
      /\ nameOf[f] = n /\ (reads \in held \/ Spent(f))
  BY <1>1, <1>2, <1>3 DEF ThreadInv, LoopSound, ReadSound, ReadPCs
<1>5. reads \in Nat /\ reads \in 1 .. reads
  BY <1>4 DEF SpoolInv, SpoolShape
<1>6. PICK k \in Threads :
         /\ k = [tick[t] EXCEPT !.pc = "reading"]
         /\ k.pc = "reading" /\ k.loop = "reading" /\ k.todo = tick[t].todo
  <2>1. [tick[t] EXCEPT !.pc = "reading"] \in Threads
    BY <1>1 DEF Threads
  <2> QED BY <1>1, <2>1 DEF Threads
<1>7. /\ tick' = [tick EXCEPT ![t] = k] /\ pending' = [pending EXCEPT ![n] = [file |-> f, read |-> reads]]
      /\ UNCHANGED <<slot, aside, made, kindOf, nameOf, gone, stuck, held, reads, readOf, settled, faults>>
  BY <1>2, <1>4, <1>6 DEF Note, Goto, diskVars, emitterVars, heldVars
<1>8. /\ pending' \in [Names -> Items] /\ pending'[n].file = f /\ pending'[n].read = reads
      /\ \A m \in Names \ {n} : pending'[m] = pending[m]
  BY <1>5, <1>7 DEF SpoolInv, SpoolShape, Items
<1>9. SpoolShape' /\ FilesPlaced' /\ EventsRead'
  BY <1>1, <1>7, <1>8 DEF SpoolInv, SpoolShape, FilesPlaced, EventsRead
<1>10. PendingSound'
  <2>1. \A g : Spent(g)' <=> Spent(g)
    BY <1>7 DEF Spent, Superseded
  <2> QED BY <1>4, <1>5, <1>7, <1>8, <2>1 DEF SpoolInv, PendingSound
<1>11. LoopSound(k)'
  BY <1>1, <1>4, <1>6, <1>7, <1>8 DEF ThreadInv, LoopSound, ReadPCs, SettlePCs, Threads
<1>12. ReadSound(k)' /\ SettleSound(k)'
  BY <1>6 DEF ReadSound, SettleSound, ReadPCs, SettlePCs
<1>13. \A q \in 1 .. reads : q # 0 /\ readOf[q] # 0 /\ nameOf[readOf[q]] \in Names
  <2>1. /\ made \in Nat /\ readOf \in [1 .. reads -> 1 .. made] /\ nameOf \in [1 .. made -> Names]
    BY DEF SpoolInv, SpoolShape
  <2> QED BY <1>5, <2>1
<1>14. held \subseteq 1 .. reads
  BY DEF SpoolInv, SpoolShape
<1>15. HeldIsPending(k)'
  BY <1>1, <1>2, <1>4, <1>7, <1>8, <1>13, <1>14 DEF ThreadInv, HeldIsPending, NoRead
<1>16. AsideTended(k)'
  BY <1>1, <1>7 DEF ThreadInv, AsideTended, Directories
<1>17. ASSUME faults < 2 PROVE ReadOnce(k)'
  <2>1. ReadOnce(tick[t])
    BY <1>1, <1>17 DEF ThreadInv
  <2>2. ASSUME NEW q \in 1 .. reads PROVE Shipped(k, nameOf[readOf[q]], readOf[q])'
    <3>1. Shipped(tick[t], nameOf[readOf[q]], readOf[q])
      BY <2>1 DEF ReadOnce
    <3> QED BY <1>1, <1>2, <1>3, <1>4, <1>7, <1>8, <1>13, <3>1 DEF Shipped, Tends, NoRead, NoFile
  <2> QED BY <1>6, <1>7, <2>1, <2>2 DEF ReadOnce
<1>18. ThreadInv(k)'
  BY <1>7, <1>11, <1>12, <1>15, <1>16, <1>17 DEF ThreadInv
<1>19. tick'[t] = k
  BY <1>1, <1>7 DEF SpoolInv, SpoolShape
<1> QED BY <1>9, <1>10, <1>18, <1>19, Assembled


\* The thread k, once tick[t] has taken a step of settling n, and what that leaves alone.
GoesOn(t, n, k) ==
    /\ k \in Threads /\ n \in Names /\ n = tick[t].name /\ tick' = [tick EXCEPT ![t] = k]
    /\ k.loop = tick[t].loop /\ k.todo = tick[t].todo /\ k.name = n /\ k.file = tick[t].file
    /\ k.seen = tick[t].seen /\ k.pc \in SettlePCs \cup {k.loop}
    /\ k.pc \in {"link", "unlink"} => k.then # "none"
    /\ UNCHANGED <<made, kindOf, nameOf, gone, pending, held, reads, readOf, settled>>

\* Such a step changes what n and its aside hold, and parks f or nothing.
Shuffles(n, f) ==
    /\ slot' \in [Names -> Nat] /\ aside' \in [Names -> Nat] /\ stuck' \in [Names -> Nat]
    /\ \A m \in Names \ {n} : slot'[m] = slot[m] /\ aside'[m] = aside[m] /\ stuck'[m] = stuck[m]
    /\ slot'[n] \in {NoFile, slot[n], aside[n]} /\ aside'[n] \in {NoFile, slot[n], aside[n]}
    /\ slot'[n] # NoFile => aside'[n] =< slot'[n]
    /\ stuck'[n] \in {NoFile, f} /\ faults' \in Nat /\ faults =< faults'

\* A step of settling changes nothing but its own name's file, aside and parking.
LEMMA SettleStep ==
    ASSUME NEW t, Ticks = {t}, SpoolInv, tick[t].pc \in SettlePCs, NEW n, NEW k,
           GoesOn(t, n, k), Shuffles(n, k.file), SettleSound(k)',
           aside'[n] # NoFile /\ aside'[n] \notin Directories =>
               faults' > 0 \/ k.pc \in {"link", "unlink", "check", "remove"},
           \A f \in 1 .. made : faults' < 2 /\ kindOf[f] = "events" /\ Shipped(tick[t], n, f) =>
               Shipped(k, n, f)'
    PROVE  SpoolInv'
<1> USE DEF GoesOn, Shuffles
<1>1. /\ t \in Ticks /\ ThreadInv(tick[t]) /\ tick'[t] = k /\ tick' \in [Ticks -> Threads]
      /\ k.loop \in {"settling", "reading", "recover"}
  BY DEF SpoolInv, SpoolShape, ThreadInv, LoopSound, Threads
<1>2. /\ slot \in [Names -> 0 .. made] /\ aside \in [Names -> 0 .. made] /\ stuck \in [Names -> Nat]
      /\ reads \in Nat /\ made \in Nat /\ readOf \in [1 .. reads -> 1 .. made]
      /\ nameOf \in [1 .. made -> Names] /\ faults \in Nat
  BY DEF SpoolInv, SpoolShape
<1>3. /\ slot'[n] \in 0 .. made /\ aside'[n] \in 0 .. made
      /\ \A m \in Names \ {n} : slot'[m] = slot[m] /\ aside'[m] = aside[m] /\ stuck'[m] = stuck[m]
  <2>1. slot[n] \in 0 .. made /\ aside[n] \in 0 .. made /\ NoFile \in 0 .. made
    BY <1>2 DEF NoFile
  <2> QED BY <2>1
<1>4. SpoolShape'
  <2>1. slot' \in [Names -> 0 .. made] /\ aside' \in [Names -> 0 .. made] /\ stuck' \in [Names -> Nat]
    BY <1>2, <1>3
  <2> QED BY <1>1, <2>1 DEF SpoolInv, SpoolShape
<1>5. FilesPlaced'
  <2> SUFFICES ASSUME NEW m \in Names
               PROVE  /\ slot'[m] # NoFile => nameOf[slot'[m]] = m
                      /\ aside'[m] # NoFile => nameOf[aside'[m]] = m
                      /\ slot'[m] # NoFile => aside'[m] =< slot'[m]
    BY DEF FilesPlaced
  <2> QED BY <1>3 DEF SpoolInv, FilesPlaced
<1>6. EventsRead'
  BY DEF SpoolInv, EventsRead
<1>7. n \notin k.todo /\ pending[n] = NoRead
  BY <1>1 DEF ThreadInv, LoopSound
<1>8. PendingSound'
  <2>1. \A g : Spent(g)' <=> Spent(g)
    BY DEF Spent, Superseded
  <2> QED BY <1>3, <1>7, <2>1 DEF SpoolInv, PendingSound
<1>9. LoopSound(k)'
  <2>1. k.pc \notin ReadPCs /\ k.pc # "idle"
    BY <1>1 DEF ReadPCs, SettlePCs
  <2>2. k.pc \in {"settling", "reading", "recover"} => k.loop = k.pc
    BY <1>1 DEF SettlePCs
  <2>3. k.loop = "settling" => \A m \in k.todo : pending[m] # NoRead /\ k.seen[m] = pending[m]
    BY <1>1 DEF ThreadInv, LoopSound
  <2>4. k.loop = "reading" => \A m \in k.todo : pending[m] = NoRead /\ stuck'[m] = NoFile
    <3>1. \A m \in k.todo : m \in Names \ {n}
      BY <1>1, <1>7, Facts
    <3> QED BY <1>1, <1>3, <3>1 DEF ThreadInv, LoopSound
  <2>5. k.loop = "recover" =>
           reads = 0 /\ k.file = NoFile /\ \A m \in Names : pending[m] = NoRead /\ stuck'[m] = NoFile
    BY <1>1, <1>3 DEF ThreadInv, LoopSound
  <2> QED BY <1>1, <1>7, <2>1, <2>2, <2>3, <2>4, <2>5 DEF LoopSound
<1>10. ReadSound(k)'
  BY <1>1 DEF ReadSound, ReadPCs, SettlePCs
<1>11. HeldIsPending(k)'
  BY <1>1 DEF ThreadInv, HeldIsPending, SettlePCs
<1>12. AsideTended(k)'
  <2> SUFFICES ASSUME NEW m \in Names, aside'[m] # NoFile, aside'[m] \notin Directories
               PROVE  \/ faults' > 0
                      \/ k.name = m /\ k.pc \in {"link", "unlink", "check", "remove"}
                      \/ k.loop = "recover" /\ m \in k.todo
    BY DEF AsideTended, Directories
  <2>1. CASE m = n
    BY <1>3, <2>1
  <2>2. CASE m # n
    BY <1>1, <1>2, <1>3, <2>2 DEF ThreadInv, AsideTended
  <2> QED BY <2>1, <2>2
<1>13. ASSUME faults' < 2 PROVE ReadOnce(k)'
  <2>1. ReadOnce(tick[t])
    BY <1>1, <1>2, <1>13 DEF ThreadInv
  <2>2. ASSUME NEW q \in 1 .. reads PROVE Shipped(k, nameOf[readOf[q]], readOf[q])'
    <3>1. /\ Shipped(tick[t], nameOf[readOf[q]], readOf[q]) /\ readOf[q] \in 1 .. made
          /\ kindOf[readOf[q]] = "events" /\ nameOf[readOf[q]] \in Names
      BY <1>2, <2>1 DEF ReadOnce, SpoolInv, EventsRead
    <3>2. CASE nameOf[readOf[q]] = n
      <4>1. Shipped(k, n, readOf[q])'
        BY <1>13, <3>1, <3>2
      <4> QED BY <3>2, <4>1
    <3>3. CASE nameOf[readOf[q]] # n
      BY <1>3, <3>1, <3>3 DEF Shipped, Tends
    <3> QED BY <3>2, <3>3
  <2>3. k.pc # "extend"
    BY <1>1 DEF SettlePCs
  <2> QED BY <2>1, <2>2, <2>3 DEF ReadOnce
<1>14. ThreadInv(k)'
  BY <1>9, <1>10, <1>11, <1>12, <1>13 DEF ThreadInv
<1> QED BY <1>1, <1>4, <1>5, <1>6, <1>8, <1>14, Assembled


LEMMA SettleFacts ==
    ASSUME SpoolInv, NEW t \in Ticks, tick[t].pc \in SettlePCs
    PROVE  /\ ThreadInv(tick[t]) /\ tick[t] \in Threads /\ tick[t].name \in Names /\ tick[t].file \in Nat
           /\ tick[t].loop \in {"settling", "reading", "recover"}
           /\ pending[tick[t].name] = NoRead /\ stuck[tick[t].name] \in {NoFile, tick[t].file}
           /\ slot[tick[t].name] \in Nat /\ aside[tick[t].name] \in Nat /\ stuck[tick[t].name] \in Nat
           /\ slot \in [Names -> Nat] /\ aside \in [Names -> Nat] /\ stuck \in [Names -> Nat] /\ faults \in Nat
           /\ tick[t].pc \in {"link", "unlink"} => tick[t].then \in {"stat", "loop"}
           /\ slot[tick[t].name] # NoFile => aside[tick[t].name] =< slot[tick[t].name]
<1>1. ThreadInv(tick[t]) /\ tick[t] \in Threads /\ tick[t].name \in Names
  BY Facts
<1>2. tick[t].loop \in {"settling", "reading", "recover"} /\ pending[tick[t].name] = NoRead /\ tick[t].file \in Nat
  BY <1>1 DEF ThreadInv, LoopSound, Threads
<1>3. stuck[tick[t].name] \in {NoFile, tick[t].file}
  BY <1>1 DEF ThreadInv, SettleSound
<1>4. slot \in [Names -> Nat] /\ aside \in [Names -> Nat] /\ stuck \in [Names -> Nat] /\ faults \in Nat
  BY DEF SpoolInv, SpoolShape
<1>5. tick[t].pc \in {"link", "unlink"} => tick[t].then \in {"stat", "loop"}
  BY <1>1 DEF ThreadInv, LoopSound, Threads
<1>6. slot[tick[t].name] # NoFile => aside[tick[t].name] =< slot[tick[t].name]
  BY <1>1 DEF SpoolInv, FilesPlaced
<1> QED BY <1>1, <1>2, <1>3, <1>4, <1>5, <1>6

\* The thread elsewhere, with the same locals.
LEMMA Moved ==
    ASSUME NEW j \in Threads, NEW pc \in {"idle", "settling", "reading", "recover"} \cup ReadPCs \cup SettlePCs
    PROVE  \E k \in Threads :
              /\ k = [j EXCEPT !.pc = pc] /\ k.pc = pc /\ k.loop = j.loop /\ k.todo = j.todo
              /\ k.name = j.name /\ k.file = j.file /\ k.seen = j.seen /\ k.then = j.then
<1>1. [j EXCEPT !.pc = pc] \in Threads
  BY DEF Threads
<1> QED BY <1>1 DEF Threads

\* A segment parked, whether its identity was read or not, is the thread's own.
LEMMA Parked ==
    ASSUME SpoolInv, NEW t \in Ticks, tick[t].pc \in SettlePCs, Park(t)
    PROVE  stuck' = [stuck EXCEPT ![tick[t].name] = tick[t].file]
<1>1. stuck \in [Names -> Nat] /\ stuck[tick[t].name] \in {NoFile, tick[t].file}
  BY SettleFacts
<1> QED BY <1>1 DEF Park

LEMMA EventsFile ==
    ASSUME SpoolInv, NEW f \in 1 .. made, kindOf[f] = "events"
    PROVE  f \notin Directories /\ f # NoFile /\ f # 0
BY DEF Directories, NoFile, SpoolInv, SpoolShape

LEMMA GoingOn ==
    ASSUME SpoolInv, NEW t \in Ticks, tick[t].pc \in SettlePCs, NEW pc \in SettlePCs \cup {tick[t].loop},
           tick' = [tick EXCEPT ![t].pc = pc], pc \in {"link", "unlink"} => tick[t].then # "none",
           UNCHANGED <<made, kindOf, nameOf, gone, pending, held, reads, readOf, settled>>
    PROVE  \E n, k : GoesOn(t, n, k) /\ k.pc = pc /\ k.then = tick[t].then
<1>1. PICK j \in Threads : j = tick[t] /\ j.loop \in {"settling", "reading", "recover"} /\ j.name \in Names
  BY SettleFacts
<1>2. pc \in {"idle", "settling", "reading", "recover"} \cup ReadPCs \cup SettlePCs
  BY <1>1
<1>3. PICK k \in Threads :
         /\ k = [j EXCEPT !.pc = pc] /\ k.pc = pc /\ k.loop = j.loop /\ k.todo = j.todo
         /\ k.name = j.name /\ k.file = j.file /\ k.seen = j.seen /\ k.then = j.then
  BY <1>2, Moved
<1>4. tick' = [tick EXCEPT ![t] = k]
  BY <1>1, <1>3
<1>5. GoesOn(t, j.name, k)
  BY <1>1, <1>3, <1>4 DEF GoesOn
<1> QED BY <1>1, <1>3, <1>5

\* Nothing aside: the put-back is done.
LEMMA LinkNothing ==
    ASSUME NEW t, Ticks = {t}, SpoolInv, Link(t), aside[tick[t].name] = NoFile
    PROVE  SpoolInv'
<1>1. t \in Ticks /\ tick[t].pc = "link" /\ tick[t].pc \in SettlePCs
  BY DEF Link, At, SettlePCs
<1>2. PICK j : j = tick[t] /\ j.then \in {"stat", "loop"} /\ ThreadInv(j)
  BY <1>1, SettleFacts
<1>3. PICK pc \in SettlePCs \cup {tick[t].loop} : pc = IF j.then = "stat" THEN "stat" ELSE j.loop
  BY <1>2 DEF SettlePCs
<1>4. /\ tick' = [tick EXCEPT ![t].pc = pc]
      /\ UNCHANGED <<slot, aside, stuck, made, kindOf, nameOf, gone, pending, held, reads, readOf, settled, faults>>
  BY <1>1, <1>2, <1>3 DEF Link, PutBackDone, Goto, Works, emitterVars, heldVars, NoFile
<1>5. pc \notin {"link", "unlink", "check", "remove", "rename"}
  BY <1>1, <1>2, <1>3, SettleFacts
<1>6. PICK n, k : GoesOn(t, n, k) /\ k.pc = pc /\ k.then = tick[t].then
  BY <1>1, <1>3, <1>4, <1>5, GoingOn
<1>7. k.file = j.file /\ n = j.name /\ k.name = n /\ pending[n] = NoRead
  BY <1>1, <1>2, <1>6, SettleFacts DEF GoesOn
<1>8. aside[n] = NoFile /\ Shuffles(n, k.file)
  BY <1>1, <1>2, <1>4, <1>7, SettleFacts DEF Shuffles
<1>9. SettleSound(k)'
  BY <1>1, <1>2, <1>4, <1>5, <1>6, <1>7, <1>8 DEF ThreadInv, SettleSound, SettlePCs, Spent, Superseded
<1>10. ASSUME NEW f \in 1 .. made, faults' < 2, kindOf[f] = "events", Shipped(tick[t], n, f)
       PROVE  Shipped(k, n, f)'
  <2>1. f # NoFile /\ f # 0
    BY <1>10, EventsFile
  <2>2. CASE Tends(j, n, f) /\ j.then = "stat"
    BY <1>3, <1>4, <1>6, <1>7, <2>2 DEF Shipped, Tends, SettlePCs
  <2>3. CASE Tends(j, n, f) /\ j.then = "loop"
    BY <1>1, <1>2, <1>4, <1>8, <2>1, <2>3 DEF Shipped, Tends
  <2> QED BY <1>2, <1>4, <1>7, <1>10, <2>1, <2>2, <2>3 DEF Shipped, NoRead
<1>11. aside'[n] = NoFile
  BY <1>4, <1>8
<1> QED BY <1>1, <1>6, <1>8, <1>9, <1>10, <1>11, SettleStep


\* The file aside is linked back, or a newer one has its name.
LEMMA LinkBack ==
    ASSUME NEW t, Ticks = {t}, SpoolInv, Link(t), aside[tick[t].name] # NoFile, Works,
           slot' = (IF slot[tick[t].name] = NoFile
                    THEN [slot EXCEPT ![tick[t].name] = aside[tick[t].name]] ELSE slot),
           Goto(t, "unlink"), UNCHANGED stuck
    PROVE  SpoolInv'
<1>1. t \in Ticks /\ tick[t].pc = "link" /\ tick[t].pc \in SettlePCs
  BY DEF Link, At, SettlePCs
<1>2. PICK j : j = tick[t] /\ j.then \in {"stat", "loop"} /\ ThreadInv(j)
  BY <1>1, SettleFacts
<1>3. "unlink" \in SettlePCs \cup {tick[t].loop}
  BY DEF SettlePCs
<1>4. /\ tick' = [tick EXCEPT ![t].pc = "unlink"]
      /\ UNCHANGED <<aside, stuck, made, kindOf, nameOf, gone, pending, held, reads, readOf, settled, faults>>
  BY DEF Link, Goto, Works, emitterVars, heldVars
<1>5. PICK n, k : GoesOn(t, n, k) /\ k.pc = "unlink" /\ k.then = tick[t].then
  BY <1>1, <1>2, <1>3, <1>4, GoingOn
<1>6. k.file = j.file /\ n = j.name /\ k.name = n /\ pending[n] = NoRead /\ n \in Names
  BY <1>1, <1>2, <1>5, SettleFacts DEF GoesOn
<1>7. /\ aside[n] # NoFile /\ aside'[n] = aside[n] /\ slot'[n] = IF slot[n] = NoFile THEN aside[n] ELSE slot[n]
      /\ slot' \in [Names -> Nat] /\ \A m \in Names \ {n} : slot'[m] = slot[m]
  BY <1>1, <1>2, <1>4, <1>6, SettleFacts
<1>8. Shuffles(n, k.file)
  BY <1>1, <1>2, <1>4, <1>6, <1>7, SettleFacts DEF Shuffles
<1>9. slot'[n] = aside[n] \/ Superseded(aside[n])'
  <2>1. CASE slot[n] # NoFile /\ slot[n] # aside[n]
    <3>1. /\ aside[n] \in 0 .. made /\ slot[n] \in 0 .. made /\ aside[n] =< slot[n] /\ made \in Nat
          /\ nameOf[aside[n]] = n /\ nameOf[slot[n]] = n
      BY <1>6, <1>7, <2>1 DEF SpoolInv, SpoolShape, FilesPlaced
    <3>2. slot[n] \in aside[n] + 1 .. made
      BY <2>1, <3>1
    <3> QED BY <1>4, <1>7, <3>1, <3>2 DEF Superseded
  <2> QED BY <1>7, <2>1
<1>10. SettleSound(k)'
  BY <1>1, <1>2, <1>4, <1>5, <1>6, <1>7, <1>9 DEF ThreadInv, SettleSound, SettlePCs, Spent, Superseded
<1>11. ASSUME NEW f \in 1 .. made, faults' < 2, kindOf[f] = "events", Shipped(tick[t], n, f)
       PROVE  Shipped(k, n, f)'
  <2>1. f # NoFile /\ f # 0
    BY <1>11, EventsFile
  <2>2. CASE Tends(j, n, f)
    <3>1. Tends(k, n, f)'
      BY <1>1, <1>2, <1>4, <1>5, <1>6, <1>7, <2>2 DEF Tends, SettlePCs
    <3> QED BY <3>1 DEF Shipped
  <2> QED BY <1>2, <1>4, <1>6, <1>7, <1>11, <2>1, <2>2 DEF Shipped, NoRead
<1> QED BY <1>1, <1>5, <1>8, <1>10, <1>11, SettleStep

\* The put-back gives up, before the rename or after it.
LEMMA PutBackStuck ==
    ASSUME NEW t, Ticks = {t}, SpoolInv, tick[t].pc \in {"link", "unlink"}, aside[tick[t].name] # NoFile,
           Fails(aside[tick[t].name] \in Directories) \/ Fails(FALSE), PutBackFails(t),
           UNCHANGED <<slot, aside, made, kindOf, nameOf, gone, pending, held, reads, readOf, settled>>
    PROVE  SpoolInv'
<1>1. t \in Ticks /\ tick[t].pc \in SettlePCs
  BY DEF SettlePCs
<1>2. PICK j : j = tick[t] /\ j.then \in {"stat", "loop"} /\ ThreadInv(j) /\ j.file \in Nat
  BY <1>1, SettleFacts
<1>3. PICK pc \in SettlePCs \cup {tick[t].loop} : pc = j.loop
  BY <1>2
<1>4. tick' = [tick EXCEPT ![t].pc = pc]
  BY <1>2, <1>3 DEF PutBackFails, Resume, Goto
<1>5. pc \in {"settling", "reading", "recover"} /\ pc \notin SettlePCs
  BY <1>1, <1>2, <1>3, SettleFacts DEF SettlePCs
<1>6. PICK n, k : GoesOn(t, n, k) /\ k.pc = pc /\ k.then = tick[t].then
  <2>1. pc \notin {"link", "unlink"}
    BY <1>5
  <2> QED BY <1>1, <1>3, <1>4, <2>1, GoingOn
<1>7. k.file = j.file /\ n = j.name /\ k.name = n /\ pending[n] = NoRead /\ n \in Names
  BY <1>1, <1>2, <1>6, SettleFacts DEF GoesOn
<1>8. /\ faults \in Nat /\ faults' \in Nat /\ faults =< faults'
      /\ aside[n] \notin Directories => faults' = faults + 1 /\ faults' > 0
  <2>1. faults \in Nat /\ aside[n] = aside[tick[t].name]
    BY <1>1, <1>2, <1>7, SettleFacts
  <2> QED BY <2>1 DEF Fails
<1>9. stuck' = [stuck EXCEPT ![n] = IF j.then = "stat" THEN j.file ELSE stuck[n]]
  <2>1. stuck \in [Names -> Nat]
    BY <1>1, SettleFacts
  <2>2. CASE j.then = "stat"
    BY <1>1, <1>2, <1>7, <2>2, Parked DEF PutBackFails
  <2>3. CASE j.then = "loop"
    BY <1>2, <2>1, <2>3 DEF PutBackFails
  <2> QED BY <1>2, <2>2, <2>3
<1>10. /\ stuck \in [Names -> Nat] /\ stuck[n] \in {NoFile, j.file} /\ stuck' \in [Names -> Nat]
       /\ stuck'[n] = (IF j.then = "stat" THEN j.file ELSE stuck[n])
       /\ \A m \in Names \ {n} : stuck'[m] = stuck[m]
  BY <1>1, <1>2, <1>7, <1>9, SettleFacts
<1>11. Shuffles(n, k.file)
  BY <1>1, <1>2, <1>7, <1>8, <1>10, SettleFacts DEF Shuffles
<1>12. SettleSound(k)'
  BY <1>5, <1>6 DEF SettleSound, SettlePCs
<1>13. ASSUME NEW f \in 1 .. made, faults' < 2, kindOf[f] = "events", Shipped(tick[t], n, f)
       PROVE  Shipped(k, n, f)'
  <2>1. f # NoFile /\ f # 0 /\ f \notin Directories
    BY <1>13, EventsFile
  <2>2. CASE Tends(j, n, f)
    <3>1. aside[n] # f
      BY <1>2, <1>8, <1>13, <2>1, <2>2 DEF Tends
    <3>2. f = j.file /\ (j.then = "loop" => slot[n] # f)
      BY <1>2, <2>2, <3>1 DEF Tends
    <3> QED BY <1>2, <1>10, <3>1, <3>2 DEF Shipped
  <2>3. CASE stuck[n] = f /\ aside[n] # f
    BY <1>2, <1>10, <2>1, <2>3 DEF Shipped
  <2> QED BY <1>2, <1>7, <1>13, <2>1, <2>2, <2>3 DEF Shipped, NoRead
<1>14. aside'[n] # NoFile /\ aside'[n] \notin Directories => faults' > 0
  BY <1>8
<1> QED BY <1>1, <1>6, <1>11, <1>12, <1>13, <1>14, SettleStep

LEMMA LinkStep ==
    ASSUME NEW t, Ticks = {t}, SpoolInv, Link(t)
    PROVE  SpoolInv'
<1>1. tick[t].pc = "link"
  BY DEF Link, At
<1>2. UNCHANGED <<aside, made, kindOf, nameOf, gone, pending, held, reads, readOf, settled>>
  BY DEF Link, emitterVars, heldVars
<1>3. CASE aside[tick[t].name] = NoFile
  BY <1>3, LinkNothing
<1>4. CASE aside[tick[t].name] # NoFile
  <2>1. \/ /\ Works /\ Goto(t, "unlink") /\ UNCHANGED stuck
           /\ slot' = (IF slot[tick[t].name] = NoFile
                       THEN [slot EXCEPT ![tick[t].name] = aside[tick[t].name]] ELSE slot)
        \/ Fails(aside[tick[t].name] \in Directories) /\ PutBackFails(t) /\ UNCHANGED slot
    BY <1>4 DEF Link
  <2> QED BY <1>1, <1>2, <1>4, <2>1, LinkBack, PutBackStuck
<1> QED BY <1>3, <1>4

LEMMA UnlinkStep ==
    ASSUME NEW t, Ticks = {t}, SpoolInv, Unlink(t)
    PROVE  SpoolInv'
<1>1. t \in Ticks /\ tick[t].pc = "unlink" /\ tick[t].pc \in SettlePCs /\ tick[t].pc \in {"link", "unlink"}
  BY DEF Unlink, At, SettlePCs
<1>2. PICK j : j = tick[t] /\ j.then \in {"stat", "loop"} /\ ThreadInv(j) /\ j.name \in Names
  BY <1>1, SettleFacts
<1>3. aside[tick[t].name] # NoFile
  BY <1>1, <1>2 DEF ThreadInv, SettleSound
<1>4. UNCHANGED <<slot, made, kindOf, nameOf, gone, pending, held, reads, readOf, settled>>
  BY DEF Unlink, emitterVars, heldVars
<1>5. CASE Fails(aside[tick[t].name] = NoFile) /\ PutBackFails(t) /\ UNCHANGED aside
  <2>1. Fails(FALSE)
    BY <1>3, <1>5 DEF Fails
  <2> QED BY <1>1, <1>3, <1>4, <1>5, <2>1, PutBackStuck
<1>6. CASE Works /\ aside' = [aside EXCEPT ![tick[t].name] = NoFile] /\ PutBackDone(t) /\ UNCHANGED stuck
  <2>1. PICK pc \in SettlePCs \cup {tick[t].loop} : pc = IF j.then = "stat" THEN "stat" ELSE j.loop
    BY <1>2 DEF SettlePCs
  <2>2. tick' = [tick EXCEPT ![t].pc = pc] /\ UNCHANGED faults
    BY <1>2, <1>6, <2>1 DEF PutBackDone, Goto, Works
  <2>3. pc \notin {"link", "unlink", "check", "remove", "rename"}
    BY <1>1, <1>2, <2>1, SettleFacts
  <2>4. PICK n, k : GoesOn(t, n, k) /\ k.pc = pc /\ k.then = tick[t].then
    BY <1>1, <1>4, <2>1, <2>2, <2>3, GoingOn
  <2>5. k.file = j.file /\ n = j.name /\ k.name = n /\ pending[n] = NoRead /\ n \in Names
    BY <1>1, <1>2, <2>4, SettleFacts DEF GoesOn
  <2>6. /\ aside' \in [Names -> Nat] /\ aside'[n] = NoFile /\ \A m \in Names \ {n} : aside'[m] = aside[m]
    BY <1>1, <1>2, <1>6, <2>5, SettleFacts DEF NoFile
  <2>7. Shuffles(n, k.file)
    BY <1>1, <1>2, <1>4, <1>6, <2>2, <2>5, <2>6, SettleFacts DEF Shuffles, NoFile
  <2>8. SettleSound(k)'
    BY <1>1, <1>2, <1>4, <1>6, <2>3, <2>4, <2>5, <2>6 DEF ThreadInv, SettleSound, SettlePCs, Spent, Superseded
  <2>9. ASSUME NEW f \in 1 .. made, faults' < 2, kindOf[f] = "events", Shipped(tick[t], n, f)
        PROVE  Shipped(k, n, f)'
    <3>1. f # NoFile /\ f # 0
      BY <2>9, EventsFile
    <3>2. CASE Tends(j, n, f) /\ j.then = "stat"
      BY <2>1, <2>4, <2>5, <3>2 DEF Shipped, Tends, SettlePCs
    <3>3. CASE Tends(j, n, f) /\ j.then = "loop"
      BY <1>1, <1>2, <1>4, <1>6, <2>6, <3>1, <3>3 DEF Shipped, Tends
    <3> QED BY <1>2, <1>4, <1>6, <2>5, <2>6, <2>9, <3>1, <3>2, <3>3 DEF Shipped, NoRead
  <2> QED BY <1>1, <2>4, <2>6, <2>7, <2>8, <2>9, SettleStep
<1> QED BY <1>3, <1>5, <1>6 DEF Unlink


\* The name holds a directory, which is parked; or nothing is aside to be renamed over.
LEMMA StatStep ==
    ASSUME NEW t, Ticks = {t}, SpoolInv, Stat(t)
    PROVE  SpoolInv'
<1>1. t \in Ticks /\ tick[t].pc = "stat" /\ tick[t].pc \in SettlePCs
  BY DEF Stat, At, SettlePCs
<1>2. PICK j : j = tick[t] /\ ThreadInv(j) /\ j.name \in Names /\ j.loop \in {"settling", "reading", "recover"}
  BY <1>1, SettleFacts
<1>3. UNCHANGED <<slot, aside, made, kindOf, nameOf, gone, pending, held, reads, readOf, settled, faults>>
  BY DEF Stat, diskVars, emitterVars, heldVars
<1>4. PICK pc \in SettlePCs \cup {tick[t].loop} :
         /\ pc \in {"rename", j.loop} /\ tick' = [tick EXCEPT ![t].pc = pc]
         /\ pc = "rename" => stuck' = stuck
         /\ pc # "rename" => stuck' = [stuck EXCEPT ![j.name] = j.file]
  <2>1. CASE Park(t) /\ Resume(t)
    BY <1>1, <1>2, <2>1, Parked DEF Resume, Goto, SettlePCs
  <2>2. CASE Goto(t, "rename") /\ UNCHANGED stuck
    BY <2>2 DEF Goto, SettlePCs
  <2> QED BY <2>1, <2>2 DEF Stat
<1>5. pc \notin {"link", "unlink", "check", "remove", "stat"}
  BY <1>2, <1>4
<1>6. PICK n, k : GoesOn(t, n, k) /\ k.pc = pc /\ k.then = tick[t].then
  BY <1>1, <1>3, <1>4, <1>5, GoingOn
<1>7. k.file = j.file /\ n = j.name /\ k.name = n /\ pending[n] = NoRead /\ n \in Names /\ aside[n] = NoFile
  BY <1>1, <1>2, <1>6, SettleFacts DEF GoesOn, ThreadInv, SettleSound
<1>8. /\ stuck' \in [Names -> Nat] /\ stuck'[n] = (IF pc = "rename" THEN stuck[n] ELSE j.file)
      /\ \A m \in Names \ {n} : stuck'[m] = stuck[m]
      /\ stuck[n] \in {NoFile, j.file}
  BY <1>1, <1>2, <1>4, <1>7, SettleFacts
<1>9. Shuffles(n, k.file)
  BY <1>1, <1>2, <1>3, <1>7, <1>8, SettleFacts DEF Shuffles
<1>10. SettleSound(k)'
  BY <1>1, <1>2, <1>3, <1>5, <1>6, <1>7, <1>8 DEF ThreadInv, SettleSound, SettlePCs, Spent, Superseded
<1>11. ASSUME NEW f \in 1 .. made, faults' < 2, kindOf[f] = "events", Shipped(tick[t], n, f)
       PROVE  Shipped(k, n, f)'
  <2>1. f # NoFile /\ f # 0
    BY <1>11, EventsFile
  <2>2. CASE Tends(j, n, f) /\ pc = "rename"
    BY <1>6, <1>7, <2>2 DEF Shipped, Tends, SettlePCs
  <2>3. CASE (Tends(j, n, f) \/ stuck[n] = f) /\ pc # "rename"
    <3>1. f = j.file
      BY <1>8, <2>1, <2>3 DEF Tends
    <3> QED BY <1>3, <1>7, <1>8, <2>1, <2>3, <3>1 DEF Shipped
  <2> QED BY <1>2, <1>3, <1>7, <1>8, <1>11, <2>1, <2>2, <2>3 DEF Shipped, NoRead
<1> QED BY <1>1, <1>3, <1>6, <1>7, <1>9, <1>10, <1>11, SettleStep

\* The rename finds nothing, takes what the name holds aside, or fails.
LEMMA RenameStep ==
    ASSUME NEW t, Ticks = {t}, SpoolInv, Rename(t)
    PROVE  SpoolInv'
<1>1. t \in Ticks /\ tick[t].pc = "rename" /\ tick[t].pc \in SettlePCs
  BY DEF Rename, At, SettlePCs
<1>2. PICK j : j = tick[t] /\ ThreadInv(j) /\ j.name \in Names /\ j.loop \in {"settling", "reading", "recover"}
  BY <1>1, SettleFacts
<1>3. UNCHANGED <<made, kindOf, nameOf, gone, pending, held, reads, readOf, settled>>
  BY DEF Rename, emitterVars, heldVars
<1>4. CASE slot[j.name] # NoFile /\ Works /\ aside' = [aside EXCEPT ![j.name] = slot[j.name]]
           /\ slot' = (IF aside[j.name] = slot[j.name] THEN slot ELSE [slot EXCEPT ![j.name] = NoFile])
           /\ Goto(t, "check") /\ UNCHANGED stuck
  <2>1. "check" \in SettlePCs \cup {tick[t].loop}
    BY DEF SettlePCs
  <2>2. tick' = [tick EXCEPT ![t].pc = "check"] /\ UNCHANGED <<faults, stuck>>
    BY <1>4 DEF Goto, Works
  <2>3. PICK n, k : GoesOn(t, n, k) /\ k.pc = "check" /\ k.then = tick[t].then
    BY <1>1, <1>3, <2>1, <2>2, GoingOn
  <2>4. k.file = j.file /\ n = j.name /\ k.name = n /\ pending[n] = NoRead /\ n \in Names /\ aside[n] = NoFile
    BY <1>1, <1>2, <2>3, SettleFacts DEF GoesOn, ThreadInv, SettleSound
  <2>5. /\ aside'[n] = slot[n] /\ slot'[n] = NoFile /\ slot[n] # NoFile
        /\ slot' \in [Names -> Nat] /\ aside' \in [Names -> Nat]
        /\ \A m \in Names \ {n} : slot'[m] = slot[m] /\ aside'[m] = aside[m]
    BY <1>1, <1>2, <1>4, <2>4, SettleFacts DEF NoFile
  <2>6. Shuffles(n, k.file)
    BY <1>1, <1>2, <2>2, <2>4, <2>5, SettleFacts DEF Shuffles
  <2>7. SettleSound(k)'
    BY <1>1, <1>2, <1>3, <2>2, <2>3, <2>4, <2>5 DEF ThreadInv, SettleSound, SettlePCs, Spent, Superseded
  <2>8. ASSUME NEW f \in 1 .. made, faults' < 2, kindOf[f] = "events", Shipped(tick[t], n, f)
        PROVE  Shipped(k, n, f)'
    <3>1. f # NoFile /\ f # 0
      BY <2>8, EventsFile
    <3>2. stuck[n] \in {NoFile, j.file}
      BY <1>1, <1>2, <2>4, SettleFacts
    <3>3. CASE Tends(j, n, f) \/ stuck[n] = f
      <4>1. Tends(k, n, f)'
        BY <2>3, <2>4, <2>5, <3>1, <3>2, <3>3 DEF Tends, SettlePCs
      <4> QED BY <4>1 DEF Shipped
    <3> QED BY <1>2, <2>4, <2>5, <2>8, <3>1, <3>3 DEF Shipped, NoRead
  <2> QED BY <1>1, <2>3, <2>6, <2>7, <2>8, SettleStep
<1>5. CASE /\ Resume(t) /\ UNCHANGED <<slot, aside>>
           /\ \/ slot[j.name] = NoFile /\ Works /\ UNCHANGED stuck
              \/ Fails(FALSE) /\ Park(t)
  <2>1. PICK pc \in SettlePCs \cup {tick[t].loop} : pc = tick[t].loop /\ tick' = [tick EXCEPT ![t].pc = pc]
    BY <1>5 DEF Resume, Goto
  <2>2. pc \in {"settling", "reading", "recover"} /\ pc \notin SettlePCs /\ pc \notin {"link", "unlink"}
    BY <1>2, <2>1 DEF SettlePCs
  <2>3. PICK n, k : GoesOn(t, n, k) /\ k.pc = pc /\ k.then = tick[t].then
    BY <1>1, <1>3, <2>1, <2>2, GoingOn
  <2>4. k.file = j.file /\ n = j.name /\ k.name = n /\ pending[n] = NoRead /\ n \in Names /\ aside[n] = NoFile
    BY <1>1, <1>2, <2>3, SettleFacts DEF GoesOn, ThreadInv, SettleSound
  <2>5. /\ faults \in Nat /\ faults' \in Nat /\ faults =< faults'
        /\ stuck \in [Names -> Nat] /\ stuck[n] \in {NoFile, j.file} /\ j.file \in Nat
    BY <1>1, <1>2, <1>5, <2>4, SettleFacts DEF Works, Fails
  <2>6. (slot[n] = NoFile /\ stuck' = stuck) \/ stuck' = [stuck EXCEPT ![n] = j.file]
    BY <1>1, <1>2, <1>5, <2>4, Parked
  <2>7. /\ stuck' \in [Names -> Nat] /\ stuck'[n] \in {stuck[n], j.file}
        /\ slot[n] # NoFile => stuck'[n] = j.file
        /\ \A m \in Names \ {n} : stuck'[m] = stuck[m]
    BY <2>4, <2>5, <2>6
  <2>8. Shuffles(n, k.file)
    BY <1>1, <1>2, <1>5, <2>4, <2>5, <2>7, SettleFacts DEF Shuffles
  <2>9. SettleSound(k)'
    BY <2>2, <2>3 DEF SettleSound, SettlePCs
  <2>10. ASSUME NEW f \in 1 .. made, faults' < 2, kindOf[f] = "events", Shipped(tick[t], n, f)
         PROVE  Shipped(k, n, f)'
    <3>1. f # NoFile /\ f # 0
      BY <2>10, EventsFile
    <3>2. CASE Tends(j, n, f) \/ stuck[n] = f
      <4>1. f = j.file
        BY <2>5, <3>1, <3>2 DEF Tends
      <4> QED BY <1>5, <2>4, <2>7, <3>1, <4>1 DEF Shipped
    <3> QED BY <1>2, <1>5, <2>4, <2>10, <3>1, <3>2 DEF Shipped, NoRead
  <2> QED BY <1>1, <1>5, <2>3, <2>4, <2>8, <2>9, <2>10, SettleStep
<1> QED BY <1>2, <1>4, <1>5 DEF Rename, diskVars


\* What is aside is the file read, and goes; or is another, and goes back.
LEMMA CheckStep ==
    ASSUME NEW t, Ticks = {t}, SpoolInv, Check(t)
    PROVE  SpoolInv'
<1>1. t \in Ticks /\ tick[t].pc = "check" /\ tick[t].pc \in SettlePCs
  BY DEF Check, At, SettlePCs
<1>2. PICK j \in Threads : j = tick[t] /\ ThreadInv(j)
  BY <1>1, SettleFacts
<1>3. PICK n \in Names : n = j.name
  BY <1>1, <1>2, SettleFacts
<1>4. PICK pc \in {"remove", "link"} : pc = IF IsFileRead(t) THEN "remove" ELSE "link"
  OBVIOUS
<1>5. PICK k \in Threads :
         /\ k = [j EXCEPT !.pc = pc, !.then = "loop"]
         /\ k.pc = pc /\ k.loop = j.loop /\ k.todo = j.todo /\ k.name = n /\ k.file = j.file
         /\ k.seen = j.seen /\ k.then = "loop"
  <2>1. [j EXCEPT !.pc = pc, !.then = "loop"] \in Threads
    BY DEF Threads, SettlePCs
  <2> QED BY <1>3, <2>1 DEF Threads
<1>6. /\ tick' = [tick EXCEPT ![t] = k]
      /\ UNCHANGED <<slot, aside, stuck, made, kindOf, nameOf, gone, pending, held, reads, readOf, settled, faults>>
  BY <1>2, <1>4, <1>5 DEF Check, diskVars, emitterVars, feederVars, heldVars
<1>7. GoesOn(t, n, k)
  BY <1>2, <1>3, <1>5, <1>6 DEF GoesOn, SettlePCs
<1>8. Shuffles(n, k.file)
  BY <1>1, <1>2, <1>3, <1>5, <1>6, SettleFacts DEF Shuffles
<1>9. /\ pc = "remove" => j.file # NoFile /\ aside[n] = j.file
      /\ pc = "link" => j.file = NoFile \/ aside[n] # j.file
  BY <1>2, <1>3, <1>4 DEF IsFileRead
<1>10. SettleSound(k)'
  BY <1>1, <1>2, <1>3, <1>5, <1>6, <1>9 DEF ThreadInv, SettleSound, SettlePCs, Spent, Superseded
<1>11. ASSUME NEW f \in 1 .. made, faults' < 2, kindOf[f] = "events", Shipped(tick[t], n, f)
       PROVE  Shipped(k, n, f)'
  <2>1. f # NoFile /\ f # 0
    BY <1>11, EventsFile
  <2>2. CASE Tends(j, n, f)
    <3>1. f = j.file /\ slot[n] # f
      BY <1>1, <1>2, <2>2 DEF Tends
    <3>2. Tends(k, n, f)'
      BY <1>5, <1>6, <1>9, <2>1, <3>1 DEF Tends, SettlePCs
    <3> QED BY <3>2 DEF Shipped
  <2> QED BY <1>2, <1>6, <1>11, <2>2 DEF Shipped
<1>12. k.pc \in {"link", "unlink", "check", "remove"}
  BY <1>5
<1> QED BY <1>1, <1>7, <1>8, <1>10, <1>11, <1>12, SettleStep

\* The file read is deleted, or parked and put back.
LEMMA RemoveStep ==
    ASSUME NEW t, Ticks = {t}, SpoolInv, Remove(t)
    PROVE  SpoolInv'
<1>1. t \in Ticks /\ tick[t].pc = "remove" /\ tick[t].pc \in SettlePCs
  BY DEF Remove, At, SettlePCs
<1>2. PICK j : j = tick[t] /\ ThreadInv(j) /\ j.name \in Names /\ j.loop \in {"settling", "reading", "recover"}
  BY <1>1, SettleFacts
<1>3. /\ aside[j.name] # NoFile /\ aside[j.name] = j.file /\ j.then = "loop" /\ slot[j.name] # aside[j.name]
  BY <1>1, <1>2 DEF ThreadInv, SettleSound
<1>4. UNCHANGED <<slot, made, kindOf, nameOf, gone, pending, held, reads, readOf, settled>>
  BY DEF Remove, emitterVars, heldVars
<1>5. CASE Works /\ aside' = [aside EXCEPT ![j.name] = NoFile] /\ Resume(t) /\ UNCHANGED stuck
  <2>1. PICK pc \in SettlePCs \cup {tick[t].loop} : pc = tick[t].loop /\ tick' = [tick EXCEPT ![t].pc = pc]
    BY <1>5 DEF Resume, Goto
  <2>2. pc \in {"settling", "reading", "recover"} /\ pc \notin SettlePCs /\ pc \notin {"link", "unlink"}
    BY <1>2, <2>1 DEF SettlePCs
  <2>3. PICK n, k : GoesOn(t, n, k) /\ k.pc = pc /\ k.then = tick[t].then
    BY <1>1, <1>4, <2>1, <2>2, GoingOn
  <2>4. k.file = j.file /\ n = j.name /\ k.name = n /\ pending[n] = NoRead /\ n \in Names
    BY <1>1, <1>2, <2>3, SettleFacts DEF GoesOn
  <2>5. /\ aside' \in [Names -> Nat] /\ aside'[n] = NoFile /\ \A m \in Names \ {n} : aside'[m] = aside[m]
        /\ faults' = faults
    BY <1>1, <1>2, <1>5, <2>4, SettleFacts DEF NoFile, Works
  <2>6. Shuffles(n, k.file)
    BY <1>1, <1>2, <1>4, <1>5, <2>4, <2>5, SettleFacts DEF Shuffles, NoFile
  <2>7. SettleSound(k)'
    BY <2>2, <2>3 DEF SettleSound, SettlePCs
  <2>8. ASSUME NEW f \in 1 .. made, faults' < 2, kindOf[f] = "events", Shipped(tick[t], n, f)
        PROVE  Shipped(k, n, f)'
    <3>1. f # NoFile /\ f # 0
      BY <2>8, EventsFile
    <3>2. CASE Tends(j, n, f)
      BY <1>1, <1>2, <1>4, <2>5, <3>1, <3>2 DEF Shipped, Tends
    <3> QED BY <1>2, <1>4, <1>5, <2>4, <2>5, <2>8, <3>1, <3>2 DEF Shipped, NoRead
  <2> QED BY <1>1, <2>3, <2>5, <2>6, <2>7, <2>8, SettleStep
<1>6. CASE Fails(aside[j.name] = NoFile) /\ Park(t) /\ Goto(t, "link") /\ UNCHANGED aside
  <2>1. "link" \in SettlePCs \cup {tick[t].loop} /\ tick[t].then # "none"
    BY <1>2, <1>3 DEF SettlePCs
  <2>2. tick' = [tick EXCEPT ![t].pc = "link"]
    BY <1>6 DEF Goto
  <2>3. PICK n, k : GoesOn(t, n, k) /\ k.pc = "link" /\ k.then = tick[t].then
    BY <1>1, <1>4, <2>1, <2>2, GoingOn
  <2>4. k.file = j.file /\ n = j.name /\ k.name = n /\ pending[n] = NoRead /\ n \in Names
    BY <1>1, <1>2, <2>3, SettleFacts DEF GoesOn
  <2>5. /\ faults \in Nat /\ faults' = faults + 1 /\ stuck \in [Names -> Nat] /\ j.file \in Nat
        /\ stuck' = [stuck EXCEPT ![n] = j.file]
    BY <1>1, <1>2, <1>3, <1>6, <2>4, SettleFacts, Parked DEF Fails
  <2>6. /\ stuck' \in [Names -> Nat] /\ stuck'[n] = j.file /\ \A m \in Names \ {n} : stuck'[m] = stuck[m]
        /\ faults' \in Nat /\ faults' > 0 /\ faults =< faults'
    BY <2>4, <2>5
  <2>7. Shuffles(n, k.file)
    BY <1>1, <1>2, <1>4, <1>6, <2>4, <2>6, SettleFacts DEF Shuffles
  <2>8. SettleSound(k)'
    BY <1>1, <1>2, <1>4, <2>3, <2>4, <2>6 DEF ThreadInv, SettleSound, SettlePCs, Spent, Superseded
  <2>9. ASSUME NEW f \in 1 .. made, faults' < 2, kindOf[f] = "events", Shipped(tick[t], n, f)
        PROVE  Shipped(k, n, f)'
    <3>1. f # NoFile /\ f # 0
      BY <2>9, EventsFile
    <3>2. CASE f = j.file
      <4>1. Tends(k, n, f)'
        BY <1>2, <1>3, <1>6, <2>3, <2>4, <2>6, <3>2 DEF Tends, SettlePCs
      <4> QED BY <4>1 DEF Shipped
    <3>3. CASE f # j.file
      <4>1. stuck[n] # f
        BY <1>1, <1>2, <2>4, <3>1, <3>3, SettleFacts, SMTT(30)
      <4> QED BY <1>2, <1>4, <1>6, <2>4, <2>9, <3>1, <3>3, <4>1 DEF Shipped, Tends, NoRead
    <3> QED BY <3>2, <3>3
  <2> QED BY <1>1, <2>3, <2>6, <2>7, <2>8, <2>9, SettleStep
<1> QED BY <1>2, <1>5, <1>6 DEF Remove

\* One aside is put back, or all were.
LEMMA RecoverStep ==
    ASSUME NEW t, Ticks = {t}, SpoolInv, Recover(t)
    PROVE  SpoolInv'
<1>1. /\ t \in Ticks /\ ThreadInv(tick[t]) /\ tick[t].pc = "recover" /\ tick[t].loop = "recover"
      /\ tick[t] \in Threads /\ tick[t].todo \subseteq Names
  BY Facts DEF SpoolInv, Recover, At, ThreadInv, LoopSound
<1>2. reads = 0 /\ \A n \in Names : pending[n] = NoRead /\ stuck[n] = NoFile
  BY <1>1 DEF ThreadInv, LoopSound
<1>3. held = {} /\ 1 .. reads = {}
  BY <1>2 DEF SpoolInv, SpoolShape
<1>4. CASE tick[t].todo = {} /\ tick' = [tick EXCEPT ![t] = Idle]
  <2>1. PICK k \in Threads : k = Idle /\ k.pc = "idle" /\ k.loop = "none" /\ k.todo = {}
    BY IdleThread
  <2>2. LoopSound(k) /\ ReadSound(k) /\ SettleSound(k)
    BY <2>1 DEF LoopSound, ReadSound, SettleSound, ReadPCs, SettlePCs
  <2>3. HeldIsPending(k) /\ AsideTended(k) /\ (faults < 2 => ReadOnce(k))
    BY <1>1, <1>3, <1>4, <2>1 DEF ThreadInv, HeldIsPending, AsideTended, ReadOnce
  <2>4. ThreadInv(k)
    BY <2>2, <2>3 DEF ThreadInv
  <2> QED BY <1>4, <2>1, <2>4, QuietStep DEF Recover, diskVars, emitterVars, feederVars, heldVars
<1>5. ASSUME NEW n \in tick[t].todo,
             tick' = [tick EXCEPT ![t].todo = @ \ {n}, ![t].name = n, ![t].file = NoFile,
                                  ![t].pc = "link", ![t].then = "loop"]
      PROVE  SpoolInv'
  <2>1. n \in Names
    BY <1>1
  <2>2. PICK k \in Threads :
           /\ k = [tick[t] EXCEPT !.todo = @ \ {n}, !.name = n, !.file = NoFile, !.pc = "link", !.then = "loop"]
           /\ k.pc = "link" /\ k.loop = "recover" /\ k.name = n /\ k.file = NoFile
           /\ k.todo = tick[t].todo \ {n} /\ k.then = "loop"
    <3>1. PICK w \in SUBSET Names : w = tick[t].todo \ {n}
      BY <1>1
    <3>2. [tick[t] EXCEPT !.todo = w, !.name = n, !.file = NoFile, !.pc = "link", !.then = "loop"] \in Threads
      BY <1>1, <2>1 DEF Threads, SettlePCs, NoFile
    <3> QED BY <1>1, <3>1, <3>2, ZenonT(60) DEF Threads
  <2>3. tick' = [tick EXCEPT ![t] = k]
    BY <1>5, <2>2
  <2>4. LoopSound(k) /\ ReadSound(k) /\ SettleSound(k)
    BY <1>2, <2>1, <2>2 DEF LoopSound, ReadSound, SettleSound, ReadPCs, SettlePCs
  <2>5. HeldIsPending(k) /\ AsideTended(k) /\ (faults < 2 => ReadOnce(k))
    BY <1>1, <1>3, <2>2 DEF ThreadInv, HeldIsPending, AsideTended, ReadOnce
  <2>6. ThreadInv(k)
    BY <2>4, <2>5 DEF ThreadInv
  <2> QED BY <2>3, <2>6, QuietStep DEF Recover, diskVars, emitterVars, feederVars, heldVars
<1> QED BY <1>4, <1>5, ZenonT(60) DEF Recover

\* A crash forgets every read, and the new process is to put every aside back.
LEMMA CrashStep ==
    ASSUME NEW t, Ticks = {t}, SpoolInv, Crash
    PROVE  SpoolInv'
<1>1. /\ held' = {} /\ reads' = 0 /\ readOf' = [r \in {} |-> NoFile]
      /\ pending' = [n \in Names |-> NoRead] /\ stuck' = [n \in Names |-> NoFile] /\ tick' = Restarted(t)
      /\ UNCHANGED <<slot, aside, made, kindOf, nameOf, gone, settled, faults>>
  BY DEF Crash, diskVars, emitterVars
<1>2. 1 .. reads' = {}
  BY <1>1
<1>3. PICK k \in Threads :
         /\ k = [Idle EXCEPT !.pc = "recover", !.loop = "recover", !.todo = {n \in Names : aside[n] # NoFile}]
         /\ k.pc = "recover" /\ k.loop = "recover" /\ k.file = NoFile /\ k.todo = {n \in Names : aside[n] # NoFile}
  <2>1. PICK w \in SUBSET Names : w = {n \in Names : aside[n] # NoFile}
    OBVIOUS
  <2>2. PICK i \in Threads : i = Idle /\ i.file = NoFile
    BY IdleThread DEF NoFile
  <2>3. [i EXCEPT !.pc = "recover", !.loop = "recover", !.todo = w] \in Threads
    BY DEF Threads
  <2> QED BY <2>1, <2>2, <2>3 DEF Threads
<1>4. tick' = [u \in Ticks |-> k]
  BY <1>1, <1>3 DEF Restarted
<1>5. tick'[t] = k /\ tick' \in [Ticks -> Threads]
  BY <1>4
<1>6. SpoolShape'
  <2>1. pending' \in [Names -> Items] /\ stuck' \in [Names -> Nat]
    BY <1>1 DEF Items, NoRead, NoFile
  <2>2. readOf' \in [1 .. reads' -> 1 .. made'] /\ held' \subseteq 1 .. reads' /\ reads' \in Nat
    BY <1>1, <1>2
  <2> QED BY <1>1, <1>5, <2>1, <2>2 DEF SpoolInv, SpoolShape
<1>7. FilesPlaced' /\ EventsRead' /\ PendingSound'
  BY <1>1, <1>2 DEF SpoolInv, FilesPlaced, EventsRead, PendingSound
<1>8. LoopSound(k)' /\ ReadSound(k)' /\ SettleSound(k)'
  BY <1>1, <1>3 DEF LoopSound, ReadSound, SettleSound, ReadPCs, SettlePCs
<1>9. HeldIsPending(k)' /\ AsideTended(k)' /\ (faults < 2 => ReadOnce(k))'
  BY <1>1, <1>2, <1>3 DEF HeldIsPending, AsideTended, ReadOnce
<1>10. ThreadInv(k)'
  BY <1>8, <1>9 DEF ThreadInv
<1> QED BY <1>5, <1>6, <1>7, <1>10, Assembled


----------------------------------------------------------------------------
(* The theorems.                                                           *)

LEMMA InitInv ==
    ASSUME NEW t, Ticks = {t}, SpoolInit
    PROVE  SpoolInv
<1>1. /\ slot = [n \in Names |-> NoFile] /\ aside = [n \in Names |-> NoFile]
      /\ made = 0 /\ kindOf = [f \in {} |-> "events"] /\ nameOf = [f \in {} |-> 0]
      /\ pending = [n \in Names |-> NoRead] /\ stuck = [n \in Names |-> NoFile]
      /\ held = {} /\ reads = 0 /\ readOf = [r \in {} |-> NoFile]
      /\ tick = [u \in Ticks |-> Idle] /\ faults = 0
  BY DEF SpoolInit
<1>2. 1 .. reads = {} /\ 1 .. made = {}
  BY <1>1
<1>3. tick[t] = Idle /\ tick \in [Ticks -> Threads]
  BY <1>1, IdleThread
<1>4. SpoolShape
  <2>1. slot \in [Names -> 0 .. made] /\ aside \in [Names -> 0 .. made]
    BY <1>1 DEF NoFile
  <2>2. pending \in [Names -> Items] /\ stuck \in [Names -> Nat]
    BY <1>1 DEF Items, NoRead, NoFile
  <2>3. kindOf \in [1 .. made -> AllKinds] /\ nameOf \in [1 .. made -> Names] /\ readOf \in [1 .. reads -> 1 .. made]
    BY <1>1, <1>2
  <2> QED BY <1>1, <1>3, <2>1, <2>2, <2>3 DEF SpoolShape
<1>5. FilesPlaced /\ PendingSound /\ EventsRead
  BY <1>1, <1>2 DEF FilesPlaced, PendingSound, EventsRead
<1>6. PICK k : k = Idle /\ k = tick[t] /\ k.pc = "idle" /\ k.loop = "none" /\ k.todo = {}
  BY <1>3, IdleThread
<1>7. LoopSound(k) /\ ReadSound(k) /\ SettleSound(k)
  BY <1>6 DEF LoopSound, ReadSound, SettleSound, ReadPCs, SettlePCs
<1>8. HeldIsPending(k) /\ AsideTended(k) /\ ReadOnce(k)
  BY <1>1, <1>2, <1>6 DEF HeldIsPending, AsideTended, ReadOnce
<1>9. ThreadInv(k)
  BY <1>7, <1>8 DEF ThreadInv
<1> QED BY <1>4, <1>5, <1>6, <1>9 DEF SpoolInv

LEMMA NextInv ==
    ASSUME NEW t, Ticks = {t}, SpoolInv, [SpoolNext]_spoolVars
    PROVE  SpoolInv'
<1>1. ASSUME NEW n \in Names, (\E kind \in Kinds : Write(n, kind)) \/ Delete(n) PROVE SpoolInv'
  BY <1>1, WriteStep, DeleteStep
<1>2. ASSUME NEW r \in held, Release(r) PROVE SpoolInv'
  BY <1>2, ReleaseStep
<1>3. CASE Step(t)
  <2>1. ASSUME NEW n \in tick[t].todo, SettlePending(t, n) PROVE SpoolInv'
    BY <2>1, PassStep, TakeStep
  <2>2. CASE Start(t) \/ List(t) \/ Finish(t)
    BY <2>2, StartStep, ListStep, EndStep
  <2>3. CASE Lstat(t) \/ Read(t) \/ ExtendBuffer(t) \/ Note(t)
    BY <2>3, LstatStep, ReadStep, SpoolExtendStep, NoteStep
  <2>4. CASE Link(t) \/ Unlink(t) \/ Stat(t)
    BY <2>4, LinkStep, UnlinkStep, StatStep
  <2>5. CASE Rename(t) \/ Check(t) \/ Remove(t) \/ Recover(t)
    BY <2>5, RenameStep, CheckStep, RemoveStep, RecoverStep
  <2> QED BY <1>3, <2>1, <2>2, <2>3, <2>4, <2>5 DEF Step
<1>4. CASE OutOfRoom(t)
  BY <1>4, EndStep
<1>5. CASE Crash
  BY <1>5, CrashStep
<1>6. CASE UNCHANGED spoolVars
  <2>1. UNCHANGED <<slot, aside, made, kindOf, nameOf, gone, pending, stuck, held, reads, readOf, settled, tick, faults>>
    BY <1>6 DEF spoolVars, diskVars, emitterVars, feederVars, heldVars
  <2>2. SpoolShape' /\ FilesPlaced' /\ PendingSound' /\ EventsRead'
    <3>1. SpoolShape'
      BY <2>1 DEF SpoolInv, SpoolShape
    <3>2. FilesPlaced'
      BY <2>1 DEF SpoolInv, FilesPlaced
    <3>3. PendingSound'
      BY <2>1 DEF SpoolInv, PendingSound, Spent, Superseded
    <3>4. EventsRead'
      BY <2>1 DEF SpoolInv, EventsRead
    <3> QED BY <3>1, <3>2, <3>3, <3>4
  <2>3. ThreadInv(tick[t])'
    <3>1. ThreadInv(tick[t])
      BY DEF SpoolInv
    <3>2. LoopSound(tick[t])'
      BY <2>1, <3>1 DEF ThreadInv, LoopSound
    <3>3. ReadSound(tick[t])'
      BY <2>1, <3>1 DEF ThreadInv, ReadSound, Spent, Superseded
    <3>4. SettleSound(tick[t])'
      BY <2>1, <3>1 DEF ThreadInv, SettleSound, Spent, Superseded
    <3>5. HeldIsPending(tick[t])'
      BY <2>1, <3>1 DEF ThreadInv, HeldIsPending
    <3>6. AsideTended(tick[t])'
      BY <2>1, <3>1 DEF ThreadInv, AsideTended, Directories
    <3>7. faults' < 2 => ReadOnce(tick[t])'
      BY <2>1, <3>1 DEF ThreadInv, ReadOnce, Shipped, Tends
    <3> QED BY <3>2, <3>3, <3>4, <3>5, <3>6, <3>7 DEF ThreadInv
  <2> QED BY <2>2, <2>3 DEF SpoolInv
<1> QED BY <1>1, <1>2, <1>3, <1>4, <1>5, <1>6 DEF SpoolNext

\* A step that takes a file off the disk.
LEMMA OffDisk ==
    ASSUME NEW t, Ticks = {t}, SpoolInv, SpoolNext, NEW f \in 1 .. made, OnDisk(f), ~OnDisk(f)'
    PROVE  f \in settled \/ Superseded(f)'
<1>1. PICK n \in Names : f \in {slot[n], aside[n]} /\ f \notin {slot'[n], aside'[n]}
  BY DEF OnDisk
<1>2. /\ slot \in [Names -> 0 .. made] /\ aside \in [Names -> 0 .. made] /\ made \in Nat /\ f # NoFile
      /\ t \in Ticks
  BY SMTT(30) DEF SpoolInv, SpoolShape, NoFile
<1>3. ASSUME NEW m \in Names, (\E kind \in Kinds : Write(m, kind)) \/ Delete(m) PROVE Superseded(f)'
  BY <1>1, <1>2, <1>3 DEF Write, Delete, Superseded
<1>4. ASSUME NEW r \in held, Release(r) PROVE FALSE
  BY <1>1, <1>4 DEF Release, diskVars
<1>5. CASE Step(t)
  <2>1. CASE \E m \in tick[t].todo : SettlePending(t, m)
    BY <1>1, <2>1 DEF SettlePending, diskVars
  <2>2. CASE Start(t) \/ List(t) \/ Finish(t) \/ Lstat(t)
    BY <1>1, <2>2 DEF Start, List, Finish, Lstat, diskVars
  <2>3. CASE Read(t) \/ ExtendBuffer(t) \/ Note(t)
    <3>1. UNCHANGED <<slot, aside>>
      <4>1. CASE Read(t)
        BY <4>1 DEF Read, diskVars
      <4>2. CASE ExtendBuffer(t) \/ Note(t)
        BY <4>2 DEF ExtendBuffer, Note, diskVars
      <4> QED BY <2>3, <4>1, <4>2
    <3> QED BY <1>1, <3>1
  <2>4. CASE Stat(t) \/ Check(t) \/ Recover(t)
    BY <1>1, <2>4 DEF Stat, Check, Recover, diskVars
  <2>5. CASE Link(t)
    <3>1. aside' = aside /\ (slot' = slot \/ (slot[tick[t].name] = NoFile
             /\ slot' = [slot EXCEPT ![tick[t].name] = aside[tick[t].name]]))
      BY <2>5 DEF Link
    <3> QED BY <1>1, <1>2, <3>1
  <2>6. CASE Unlink(t)
    <3>1. tick[t].pc = "unlink" /\ tick[t].pc \in SettlePCs
      BY <2>6 DEF Unlink, At, SettlePCs
    <3>2. tick[t].name \in Names /\ SettleSound(tick[t])
      BY <1>2, <3>1, SettleFacts DEF ThreadInv
    <3>3. slot' = slot /\ (aside' = aside \/ aside' = [aside EXCEPT ![tick[t].name] = NoFile])
          /\ UNCHANGED <<made, nameOf, gone>>
      BY <2>6 DEF Unlink, emitterVars
    <3>4. n = tick[t].name /\ f = aside[n]
      BY <1>1, <1>2, <3>2, <3>3
    <3> QED BY <1>1, <3>1, <3>2, <3>3, <3>4 DEF SettleSound, Superseded
  <2>7. CASE Rename(t)
    <3>1. tick[t].pc = "rename" /\ tick[t].pc \in SettlePCs
      BY <2>7 DEF Rename, At, SettlePCs
    <3>2. tick[t].name \in Names /\ aside[tick[t].name] = NoFile
      BY <1>2, <3>1, SettleFacts DEF ThreadInv, SettleSound
    <3>3. \/ UNCHANGED diskVars
          \/ /\ aside' = [aside EXCEPT ![tick[t].name] = slot[tick[t].name]]
             /\ slot' = slot \/ slot' = [slot EXCEPT ![tick[t].name] = NoFile]
      BY <2>7 DEF Rename
    <3> QED BY <1>1, <1>2, <3>2, <3>3 DEF diskVars
  <2>8. CASE Remove(t)
    <3>1. tick[t].pc = "remove" /\ tick[t].pc \in SettlePCs
      BY <2>8 DEF Remove, At, SettlePCs
    <3>2. tick[t].name \in Names /\ SettleSound(tick[t])
      BY <1>2, <3>1, SettleFacts DEF ThreadInv
    <3>3. slot' = slot /\ (aside' = aside \/ aside' = [aside EXCEPT ![tick[t].name] = NoFile])
          /\ UNCHANGED <<made, nameOf, gone>>
      BY <2>8 DEF Remove, emitterVars
    <3>4. n = tick[t].name /\ f = aside[n]
      BY <1>1, <1>2, <3>2, <3>3
    <3>5. f = tick[t].file /\ Spent(f)
      BY <1>2, <3>1, <3>2, <3>4 DEF SettleSound
    <3> QED BY <3>3, <3>5 DEF Spent, Superseded
  <2> QED BY <1>5, <2>1, <2>2, <2>3, <2>4, <2>5, <2>6, <2>7, <2>8 DEF Step
<1>6. CASE OutOfRoom(t) \/ Crash
  BY <1>1, <1>6 DEF OutOfRoom, Crash, diskVars
<1> QED BY <1>3, <1>4, <1>5, <1>6 DEF SpoolNext

\* SpoolInv is an invariant of a spool with one thread.
THEOREM SpoolInvariance == OneThread => (SpoolSpec => []SpoolInv)
<1> SUFFICES ASSUME OneThread PROVE SpoolSpec => []SpoolInv
  OBVIOUS
<1>1. PICK t : Ticks = {t}
  BY DEF OneThread
<1>2. SpoolInit => SpoolInv
  BY <1>1, InitInv
<1>3. SpoolInv /\ [SpoolNext]_spoolVars => SpoolInv'
  BY <1>1, NextInv
<1> QED BY <1>2, <1>3, PTL DEF SpoolSpec

\* However the emitter renames, replaces and deletes between the feeder's system calls,
\* whichever of those calls fail and wherever a crash falls: the feeder deletes no file
\* with an event unanswered (_settle, _put_back, _recover_asides), if one thread ticks.
THEOREM NothingLost == OneThread => (SpoolSpec => NoUnsettledLoss)
<1> SUFFICES ASSUME OneThread PROVE SpoolSpec => NoUnsettledLoss
  OBVIOUS
<1>1. PICK t : Ticks = {t}
  BY DEF OneThread
<1>2. SpoolInv /\ [SpoolNext]_spoolVars =>
         [\A f \in 1 .. made : OnDisk(f) /\ ~OnDisk(f)' => f \in settled \/ Superseded(f)']_spoolVars
  <2> SUFFICES ASSUME SpoolInv, SpoolNext
               PROVE  \A f \in 1 .. made : OnDisk(f) /\ ~OnDisk(f)' => f \in settled \/ Superseded(f)'
    OBVIOUS
  <2> QED BY <1>1, OffDisk
<1>3. SpoolSpec => []SpoolInv
  BY SpoolInvariance
<1> QED BY <1>2, <1>3, PTL DEF SpoolSpec, NoUnsettledLoss

\* A file is buffered once by a process whose system calls fail at most once (_pending,
\* _stuck), if one thread ticks.
THEOREM BufferedOnce == OneThread => (SpoolSpec => []ShippedOnce)
<1> SUFFICES ASSUME OneThread PROVE SpoolSpec => []ShippedOnce
  OBVIOUS
<1>1. PICK t : Ticks = {t}
  BY DEF OneThread
<1>2. SpoolInv => ShippedOnce
  BY <1>1 DEF SpoolInv, ThreadInv, ReadOnce, ShippedOnce
<1>3. SpoolSpec => []SpoolInv
  BY SpoolInvariance
<1> QED BY <1>2, <1>3, PTL
=============================================================================
