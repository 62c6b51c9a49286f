---------------------------- MODULE StreamProofs ----------------------------
(***************************************************************************)
(* Proofs about the streamed container log: no line is passed over, by the *)
(* checkpoint or between the follow, the reader and the open ranges, where *)
(* one read runs at a time and no two lines share a microsecond.           *)
(***************************************************************************)
EXTENDS StreamTail, SequenceTheorems, FiniteSetTheorems, WellFoundedInduction, TLAPS

\* A session's read has ended before the next session's begins.
OneReader == \E r : Readers = {r}

\* The ranges that were read: they end no later than the log.
PastRanges == {rc \in [from : Nat, to : Nat] : rc.to =< Len(ts) + 1}

\* The matching lines of a range, and whether the control plane has them.
Covered(rc) == {n \in wanted : rc.from =< n /\ n < rc.to}
Told(rc) == Covered(rc) \subseteq delivered

\* The states of a read.
ReaderStates ==
    [pc : {"free", "begin", "drain", "issue", "skip", "done"}, live : BOOLEAN,
     snap : SUBSET PastRanges, proc : Nat, rc : PastRanges, got : SUBSET Nat]

\* The type invariant; without ties a line's number serves as its timestamp.
StreamShape ==
    /\ Len(ts) \in Nat /\ ts \in Seq(Nat) /\ \A n \in 1 .. Len(ts) : ts[n] = n
    /\ wanted \subseteq 1 .. Len(ts)
    /\ cp \in 1 .. Len(ts) + 1 /\ stream \in 0 .. Len(ts) + 1
    /\ proc \in [id : Nat, runs : BOOLEAN, next : Nat, last : Nat]
    /\ proc.next =< Len(ts) + 1 /\ proc.last =< Len(ts)
    /\ issued \in Seq([rc : PastRanges, done : BOOLEAN])
    /\ pending \in [DOMAIN pending -> PastRanges]
    /\ recv \in [batch : SUBSET Batches, stage : {"none", "asked", "done"}, rc : PastRanges]
    /\ orphans \subseteq PastRanges
    /\ reader \in [Readers -> ReaderStates]

\* The open ranges lie one behind the other, from the checkpoint to where the stream is.
Chain ==
    /\ issued = <<>> => From = cp
    /\ issued # <<>> => stream # 0 /\ issued[1].rc.from = cp /\ issued[Len(issued)].rc.to = stream
    /\ \A k \in 1 .. Len(issued) : 0 < issued[k].rc.to /\ (k > 1 => issued[k].rc.from = issued[k - 1].rc.to)

\* A range is done only when its lines were received.
DoneTold == \A k \in 1 .. Len(issued) : issued[k].done => Told(issued[k].rc)

\* A frame on its way carries the lines of its batch's range; an ack, the confirm it asked
\* for and one that outlived its session stand for lines that were received.
AckedTold ==
    /\ DOMAIN sent = wire \cup acks /\ wire \cap acks = {}
    /\ \A b \in DOMAIN pending \cap wire : Covered(pending[b]) \subseteq sent[b]
    /\ \A b \in DOMAIN pending \cap acks : Told(pending[b])
    /\ recv.stage = "asked" => Told(recv.rc)
    /\ \A rc \in orphans : Told(rc)

\* The follow goes on where the stream is, or where the read under way has got to; the
\* read holds all it has taken off the pipe.
ReaderSound(r) ==
    LET j == reader[r] IN
    /\ j.pc \in {"free", "begin", "skip", "done"} /\ proc.runs => proc.next = From
    /\ j.pc \in {"drain", "issue"} => /\ j.rc.from = From /\ j.got = j.rc.from .. proc.next - 1
                                      /\ proc.runs => From =< proc.next
    /\ j.pc = "drain" => j.proc = proc.id /\ From =< proc.next
    /\ j.pc = "begin" => j.got = {}
    /\ j.pc \in {"skip", "done"} => j.got = {} \/ j.got = j.rc.from .. j.rc.to - 1
    /\ j.pc = "skip" => j.got # {} /\ Matched(j.got) = {}

\* The inductive invariant: NoSkip with what keeps it.
StreamInv ==
    /\ StreamShape /\ Chain /\ NoSkip /\ DoneTold /\ AckedTold
    /\ \A r \in Readers : ReaderSound(r)

-----------------------------------------------------------------------------
\* A set of numbers that is not empty has a first one.
LEMMA FirstIn ==
    ASSUME NEW S, S \subseteq Nat, S # {}
    PROVE  \E x \in S : \A y \in S : x =< y
<1> DEFINE R == OpToRel(<, Nat)
<1>1. PICK x \in S : \A y \in S : ~ (<<y, x>> \in R)
  BY WFMin, NatLessThanWellFounded
<1>2. \A a, b \in Nat : <<b, a>> \in R <=> b < a
  BY DEF OpToRel
<1> HIDE DEF R
<1>3. ASSUME NEW y \in S PROVE x =< y
  <2>1. x \in Nat /\ y \in Nat /\ ~ (y < x)
    BY <1>1, <1>2
  <2> QED BY <2>1
<1> QED BY <1>1, <1>3

\* A bounded one has a last.
LEMMA LastIn ==
    ASSUME NEW b \in Nat, NEW S, S \subseteq 0 .. b, S # {}
    PROVE  Latest(S) \in S /\ \A m \in S : m =< Latest(S)
<1> DEFINE T == {b - n : n \in S}
<1>1. T \subseteq Nat /\ T # {}
  <2>1. \A n \in S : b - n \in Nat
    OBVIOUS
  <2> QED BY <2>1
<1>2. PICK x \in T : \A y \in T : x =< y
  BY <1>1, FirstIn
<1>3. PICK n \in S : x = b - n
  BY <1>2
<1>4. \A m \in S : m =< n
  BY <1>2, <1>3
<1> QED BY <1>3, <1>4 DEF Latest

\* A point between the ends of a chain of ranges lies in one of them.
LEMMA Located ==
    ASSUME NEW q, NEW p \in Nat \ {0}, NEW n \in Nat,
           \A k \in 1 .. p : q[k].rc.from \in Nat /\ (k > 1 => q[k].rc.from = q[k - 1].rc.to),
           q[1].rc.from =< n, n < q[p].rc.to
    PROVE  \E k \in 1 .. p : q[k].rc.from =< n /\ n < q[k].rc.to
<1> DEFINE S == {k \in 1 .. p : q[k].rc.from =< n}
           k == Latest(S)
<1>1. k \in S /\ \A m \in S : m =< k
  <2>1. 1 \in S /\ S \subseteq 0 .. p
    OBVIOUS
  <2> QED BY <2>1, LastIn
<1> HIDE DEF k
<1>2. CASE k = p
  BY <1>1, <1>2
<1>3. CASE k # p
  <2>1. k + 1 \in 1 .. p /\ k + 1 > 1 /\ k + 1 \notin S
    BY <1>1, <1>3
  <2>2. q[k + 1].rc.from = q[k].rc.to /\ n < q[k + 1].rc.from
    <3>1. PICK m \in 1 .. p : m = k + 1 /\ m - 1 = k /\ m > 1 /\ m \notin S
      BY <1>1, <2>1
    <3>2. q[m].rc.from = q[m - 1].rc.to /\ q[m].rc.from \in Nat
      BY <3>1
    <3> QED BY <3>1, <3>2
  <2> QED BY <1>1, <2>2
<1> QED BY <1>2, <1>3

\* The matching lines between the checkpoint and the stream are in a range.
LEMMA InRange ==
    ASSUME StreamInv, NEW n \in wanted, cp =< n, n < From
    PROVE  \E k \in 1 .. Len(issued) : issued[k].rc.from =< n /\ n < issued[k].rc.to
<1>1. n \in Nat /\ Len(issued) \in Nat /\ cp \in Nat /\ issued \in Seq([rc : PastRanges, done : BOOLEAN])
  BY DEF StreamInv, StreamShape
<1>2. \A k \in 1 .. Len(issued) : issued[k].rc.from \in Nat
  <2>1. \A k \in 1 .. Len(issued) : issued[k] \in [rc : PastRanges, done : BOOLEAN]
    BY <1>1, ElementOfSeq
  <2>2. \A k \in 1 .. Len(issued) : issued[k].rc \in PastRanges
    BY <2>1
  <2> QED BY <2>2 DEF PastRanges
<1>3. issued # <<>>
  BY <1>1 DEF StreamInv, Chain
<1>4. Len(issued) \in Nat \ {0}
  BY <1>1, <1>3, EmptySeq
<1>5. /\ \A k \in 1 .. Len(issued) : k > 1 => issued[k].rc.from = issued[k - 1].rc.to
      /\ issued[1].rc.from =< n /\ n < issued[Len(issued)].rc.to
  BY <1>3 DEF StreamInv, Chain, From
<1> QED BY <1>1, <1>2, <1>4, <1>5, Located

\* The invariant says that no line is passed over.
LEMMA InvKeeps == ASSUME OneReader, StreamInv PROVE StreamSound
<1>1. ASSUME NEW n \in wanted \ delivered, proc.runs, ~(n >= proc.next),
             ~ \E r \in Readers : n \in reader[r].got /\ reader[r].pc \in {"drain", "issue"}
      PROVE  \E k \in DOMAIN issued : /\ ~issued[k].done
                                      /\ issued[k].rc.from =< ts[n] /\ ts[n] < issued[k].rc.to /\ cp =< ts[n]
  <2>1. n \in 1 .. Len(ts) /\ ts[n] = n /\ cp \in Nat /\ proc.next \in Nat /\ From \in Nat
    BY DEF StreamInv, StreamShape, From
  <2>2. cp =< n
    BY <2>1 DEF StreamInv, NoSkip
  <2>3. n < From
    <3>1. PICK r : r \in Readers
      BY DEF OneReader
    <3>2. ReaderSound(r) /\ reader[r] \in ReaderStates
      BY <3>1 DEF StreamInv, StreamShape
    <3>3. CASE reader[r].pc \in {"drain", "issue"}
      BY <1>1, <2>1, <3>1, <3>2, <3>3 DEF ReaderSound
    <3>4. CASE reader[r].pc \in {"free", "begin", "skip", "done"}
      BY <1>1, <2>1, <3>2, <3>4 DEF ReaderSound
    <3> QED BY <3>2, <3>3, <3>4 DEF ReaderStates
  <2>4. PICK k \in 1 .. Len(issued) : issued[k].rc.from =< n /\ n < issued[k].rc.to
    BY <2>2, <2>3, InRange
  <2>5. ~issued[k].done
    BY <2>4 DEF StreamInv, DoneTold, Told, Covered
  <2>6. k \in DOMAIN issued
    BY LenProperties DEF StreamInv, StreamShape
  <2> QED BY <2>1, <2>2, <2>4, <2>5, <2>6
<1>2. ASSUME NEW n \in wanted \ delivered, ~proc.runs PROVE ts[n] >= cp
  BY DEF StreamInv, StreamShape, NoSkip
<1> QED BY <1>1, <1>2 DEF StreamSound, NothingForgotten, StreamInv

-----------------------------------------------------------------------------
(* The steps.                                                              *)

\* _confirm: a receipt whose lines were received moves the checkpoint over received
\* lines, along the ranges, and leaves the stream where it is.
LEMMA ConfirmKeeps ==
    ASSUME StreamInv, NEW rc, Told(rc), ConfirmShipped(rc), UNCHANGED <<ts, wanted, stream, delivered>>
    PROVE  /\ issued' \in Seq([rc : PastRanges', done : BOOLEAN]) /\ cp' \in 1 .. Len(ts') + 1
           /\ Chain' /\ NoSkip' /\ DoneTold' /\ From' = From
<1>0. PastRanges' = PastRanges /\ issued \in Seq([rc : PastRanges, done : BOOLEAN]) /\ Len(issued) \in Nat
      /\ cp \in 1 .. Len(ts) + 1 /\ Len(ts) \in Nat /\ wanted \subseteq 1 .. Len(ts)
      /\ (\A n \in 1 .. Len(ts) : ts[n] = n) /\ stream \in Nat
  BY DEF PastRanges, StreamInv, StreamShape
<1>1. CASE Matching(rc) = {}
  <2>1. UNCHANGED <<cp, issued>>
    BY <1>1 DEF ConfirmShipped
  <2> QED BY <1>0, <2>1 DEF StreamInv, Chain, NoSkip, DoneTold, Told, Covered, From
<1>2. CASE Matching(rc) # {}
  <2> DEFINE E == [rc : PastRanges, done : BOOLEAN]
             f == CHOOSE k \in Matching(rc) : \A m \in Matching(rc) : k =< m
             q == [issued EXCEPT ![f].done = TRUE]
             D == {k \in 0 .. Len(q) : \A m \in 1 .. k : q[m].done}
             p == Prefix(q)
  <2>1. DOMAIN issued = 1 .. Len(issued)
    BY <1>0, LenProperties
  <2>2. f \in Matching(rc)
    <3>1. Matching(rc) \subseteq Nat
      BY <1>0, <2>1 DEF Matching
    <3> QED BY <1>2, <3>1, FirstIn
  <2>3. f \in 1 .. Len(issued) /\ issued[f].rc = rc
    BY <2>1, <2>2 DEF Matching
  <2> HIDE DEF f
  <2>4. /\ q \in Seq(E) /\ Len(q) = Len(issued)
        /\ \A k \in 1 .. Len(q) : q[k] \in E /\ q[k].rc = issued[k].rc /\ (q[k].done => issued[k].done \/ k = f)
    <3>1. /\ issued[f] \in E /\ [issued[f] EXCEPT !.done = TRUE] \in E
          /\ [issued[f] EXCEPT !.done = TRUE].rc = issued[f].rc
      <4>1. issued[f] \in E
        BY <1>0, <2>3, ElementOfSeq
      <4> QED BY <4>1
    <3>2. q = [issued EXCEPT ![f] = [issued[f] EXCEPT !.done = TRUE]]
      OBVIOUS
    <3>3. /\ q \in Seq(E) /\ Len(q) = Len(issued)
          /\ \A j \in 1 .. Len(issued) : q[j] = IF j = f THEN [issued[f] EXCEPT !.done = TRUE] ELSE issued[j]
      BY <1>0, <2>3, <3>1, <3>2, ExceptSeq
    <3>4. \A j \in 1 .. Len(issued) : issued[j] \in E
      BY <1>0, ElementOfSeq
    <3>5. ASSUME NEW k \in 1 .. Len(q)
          PROVE  q[k] \in E /\ q[k].rc = issued[k].rc /\ (q[k].done => issued[k].done \/ k = f)
      <4>1. k \in 1 .. Len(issued)
        BY <3>3
      <4>2. CASE k = f
        BY <3>1, <3>3, <4>1, <4>2
      <4>3. CASE k # f
        BY <3>3, <3>4, <4>1, <4>3
      <4> QED BY <4>2, <4>3
    <3> HIDE DEF q
    <3> QED BY <3>3, <3>5
  <2>5. p \in 0 .. Len(q) /\ \A m \in 1 .. p : q[m].done
    <3>1. 0 \in D /\ D \subseteq 0 .. Len(q) /\ Len(q) \in Nat
      BY <1>0, <2>4
    <3>2. p \in D
      BY <3>1, LastIn DEF Prefix
    <3> QED BY <3>2
  <2>6. issued' = SubSeq(q, p + 1, Len(q)) /\ cp' = IF p = 0 THEN cp ELSE q[p].rc.to
    BY <1>2 DEF ConfirmShipped, f
  <2> HIDE DEF q, p
  <2>7. /\ issued' \in Seq(E) /\ Len(issued') = Len(q) - p /\ Len(issued') \in Nat
        /\ \A k \in 1 .. Len(issued') : issued'[k] = q[k + p] /\ k + p \in 1 .. Len(q)
    <3>1. \A i \in p + 1 .. Len(q) : q[i] \in E
      BY <2>4, <2>5
    <3>2. /\ issued' \in Seq(E) /\ Len(issued') = (IF p + 1 <= Len(q) THEN Len(q) - (p + 1) + 1 ELSE 0)
          /\ \A i \in 1 .. Len(q) - (p + 1) + 1 : issued'[i] = q[p + 1 + i - 1]
      BY <1>0, <2>4, <2>5, <2>6, <3>1, SubSeqProperties
    <3>3. Len(issued') = Len(q) - p /\ Len(issued') \in Nat
      BY <1>0, <2>4, <2>5, <3>2
    <3>4. ASSUME NEW k \in 1 .. Len(issued') PROVE issued'[k] = q[k + p] /\ k + p \in 1 .. Len(q)
      <4>1. k \in 1 .. Len(q) - (p + 1) + 1 /\ p + 1 + k - 1 = k + p /\ k + p \in 1 .. Len(q)
        BY <1>0, <2>4, <2>5, <3>3
      <4> QED BY <3>2, <4>1
    <3> QED BY <3>2, <3>3, <3>4
  <2>8. \A k \in 1 .. Len(q) : /\ q[k].rc.from \in Nat /\ q[k].rc.to \in Nat /\ 0 < q[k].rc.to
                               /\ q[k].rc.to =< Len(ts) + 1
                               /\ k > 1 => q[k].rc.from = q[k - 1].rc.to
    <3>1. \A k \in 1 .. Len(q) : 0 < issued[k].rc.to /\ (k > 1 => issued[k].rc.from = issued[k - 1].rc.to)
      BY <2>4 DEF StreamInv, Chain
    <3>2. \A k \in 1 .. Len(q) : k > 1 => k - 1 \in 1 .. Len(q)
      BY <1>0, <2>4
    <3> QED BY <2>4, <3>1, <3>2 DEF PastRanges
  <2>9. issued # <<>> /\ stream # 0 /\ q[1].rc.from = cp /\ q[Len(q)].rc.to = stream /\ Len(q) >= 1
    <3>1. Len(q) >= 1 /\ issued # <<>>
      BY <1>0, <2>3, <2>4, EmptySeq
    <3>2. 1 \in 1 .. Len(q) /\ Len(q) \in 1 .. Len(q)
      BY <1>0, <2>4, <3>1
    <3> QED BY <2>4, <3>1, <3>2 DEF StreamInv, Chain
  <2>10. cp' \in 1 .. Len(ts') + 1
    <3>1. CASE p = 0
      BY <1>0, <2>6, <3>1
    <3>2. CASE p # 0
      <4>1. p \in 1 .. Len(q)
        BY <1>0, <2>4, <2>5, <3>2
      <4> QED BY <1>0, <2>6, <2>8, <3>2, <4>1
    <3> QED BY <3>1, <3>2
  <2>11. From' = From
    BY <2>9 DEF From
  <2>12. Chain'
    <3>1. ASSUME issued' = <<>> PROVE From' = cp'
      <4>1. p = Len(q) /\ p # 0
        BY <1>0, <2>4, <2>5, <2>7, <2>9, <3>1, EmptySeq
      <4> QED BY <2>6, <2>9, <4>1 DEF From
    <3>2. ASSUME issued' # <<>>
          PROVE  stream' # 0 /\ issued'[1].rc.from = cp' /\ issued'[Len(issued')].rc.to = stream'
      <4>1. Len(issued') \in Nat \ {0}
        BY <2>7, <3>2, EmptySeq
      <4>2. 1 \in 1 .. Len(issued') /\ Len(issued') \in 1 .. Len(issued') /\ p + 1 \in 1 .. Len(q)
            /\ 1 + p = p + 1 /\ Len(issued') + p = Len(q)
        BY <1>0, <2>4, <2>5, <2>7, <4>1
      <4>3. issued'[1] = q[p + 1] /\ issued'[Len(issued')] = q[Len(q)]
        BY <2>7, <4>2
      <4>4. q[p + 1].rc.from = cp'
        <5>1. CASE p = 0
          BY <2>6, <2>9, <5>1
        <5>2. CASE p # 0
          <6>1. PICK m \in 1 .. Len(q) : m = p + 1 /\ m - 1 = p /\ m > 1
            BY <1>0, <2>4, <2>5, <4>2, <5>2
          <6>2. q[m].rc.from = q[m - 1].rc.to
            BY <2>8, <6>1
          <6> QED BY <2>6, <5>2, <6>1, <6>2
        <5> QED BY <5>1, <5>2
      <4> QED BY <2>9, <4>3, <4>4
    <3>3. ASSUME NEW k \in 1 .. Len(issued')
          PROVE  0 < issued'[k].rc.to /\ (k > 1 => issued'[k].rc.from = issued'[k - 1].rc.to)
      <4>1. issued'[k] = q[k + p] /\ k + p \in 1 .. Len(q)
        BY <2>7
      <4>2. PICK m \in 1 .. Len(q) : m = k + p
        BY <4>1
      <4>3. issued'[k] = q[m] /\ 0 < q[m].rc.to
        BY <2>8, <4>1, <4>2
      <4>4. ASSUME k > 1 PROVE issued'[k].rc.from = issued'[k - 1].rc.to
        <5>1. PICK i \in 1 .. Len(issued') : i = k - 1 /\ i + p = m - 1 /\ m > 1
          BY <1>0, <2>4, <2>5, <2>7, <4>2, <4>4
        <5>2. issued'[i] = q[m - 1]
          BY <2>7, <5>1
        <5>3. q[m].rc.from = q[m - 1].rc.to
          BY <2>8, <5>1
        <5> QED BY <4>3, <5>1, <5>2, <5>3
      <4> QED BY <4>3, <4>4
    <3> QED BY <3>1, <3>2, <3>3 DEF Chain
  <2>13. ASSUME NEW k \in 1 .. Len(q), q[k].done PROVE Told(q[k].rc)
    <3>1. q[k].rc = issued[k].rc /\ (issued[k].done \/ k = f)
      BY <2>4, <2>13
    <3> QED BY <2>3, <2>4, <3>1 DEF StreamInv, DoneTold
  <2>14. DoneTold'
    BY <2>7, <2>13 DEF DoneTold, Told, Covered
  <2>15. NoSkip'
    <3> SUFFICES ASSUME NEW n \in wanted, ts[n] < cp' PROVE n \in delivered
      BY DEF NoSkip
    <3>1. n \in 1 .. Len(ts) /\ ts[n] = n
      BY <1>0
    <3>2. CASE n < cp
      BY <3>1, <3>2 DEF StreamInv, NoSkip
    <3>3. CASE cp =< n
      <4>1. p \in 1 .. Len(q) /\ cp' = q[p].rc.to /\ p \in Nat \ {0}
        BY <1>0, <2>4, <2>5, <2>6, <3>1, <3>3
      <4>2. \A k \in 1 .. p : k \in 1 .. Len(q)
        BY <1>0, <2>4, <4>1
      <4>0. /\ \A k \in 1 .. p : q[k].rc.from \in Nat /\ (k > 1 => q[k].rc.from = q[k - 1].rc.to)
            /\ q[1].rc.from =< n /\ n < q[p].rc.to /\ n \in Nat
        <5>1. \A k \in 1 .. p : q[k].rc.from \in Nat /\ (k > 1 => q[k].rc.from = q[k - 1].rc.to)
          BY <2>8, <4>2
        <5>2. q[1].rc.from =< n
          BY <2>9, <3>3
        <5>3. n < q[p].rc.to /\ n \in Nat
          BY <1>0, <3>1, <4>1
        <5> QED BY <5>1, <5>2, <5>3
      <4>3. PICK k \in 1 .. p : q[k].rc.from =< n /\ n < q[k].rc.to
        BY <4>0, <4>1, Located
      <4> QED BY <2>5, <2>13, <4>2, <4>3 DEF Told, Covered
    <3> QED BY <1>0, <3>1, <3>2, <3>3
  <2> QED BY <1>0, <2>7, <2>10, <2>11, <2>12, <2>14, <2>15
<1> QED BY <1>1, <1>2

\* The type invariant, as facts about the variables; and from them about the next state.
LEMMA ShapeFacts ==
    ASSUME StreamInv
    PROVE  /\ Len(ts) \in Nat /\ ts \in Seq(Nat) /\ \A n \in 1 .. Len(ts) : ts[n] = n
           /\ wanted \subseteq 1 .. Len(ts)
           /\ cp \in 1 .. Len(ts) + 1 /\ stream \in 0 .. Len(ts) + 1
           /\ proc \in [id : Nat, runs : BOOLEAN, next : Nat, last : Nat]
           /\ proc.next =< Len(ts) + 1 /\ proc.last =< Len(ts)
           /\ issued \in Seq([rc : PastRanges, done : BOOLEAN]) /\ Len(issued) \in Nat
           /\ pending \in [DOMAIN pending -> PastRanges]
           /\ recv \in [batch : SUBSET Batches, stage : {"none", "asked", "done"}, rc : PastRanges]
           /\ orphans \subseteq PastRanges /\ reader \in [Readers -> ReaderStates]
           /\ From \in 1 .. Len(ts) + 1 /\ From \in Nat
BY DEF StreamInv, StreamShape, From

\* What a step must assign for the next state to have the shape.
LEMMA ShapeStays ==
    ASSUME StreamInv, UNCHANGED <<ts, wanted>>,
           cp' \in 1 .. Len(ts) + 1, stream' \in 0 .. Len(ts) + 1,
           proc' \in [id : Nat, runs : BOOLEAN, next : Nat, last : Nat],
           proc'.next =< Len(ts) + 1, proc'.last =< Len(ts),
           issued' \in Seq([rc : PastRanges, done : BOOLEAN]),
           pending' \in [DOMAIN pending' -> PastRanges],
           recv' \in [batch : SUBSET Batches, stage : {"none", "asked", "done"}, rc : PastRanges],
           orphans' \subseteq PastRanges, reader' \in [Readers -> ReaderStates]
    PROVE  StreamShape'
<1>1. PastRanges' = PastRanges
  BY DEF PastRanges
<1>2. ReaderStates' = ReaderStates
  BY <1>1 DEF ReaderStates
<1> QED BY <1>1, <1>2, ShapeFacts DEF StreamShape

\* A reader that starts to read, at a line of the range it has.
LEMMA ReadingTyped ==
    ASSUME reader \in [Readers -> ReaderStates], NEW r \in Readers,
           NEW pc \in {"drain", "issue"}, NEW i \in Nat, NEW n,
           [from |-> n, to |-> n] \in PastRanges
    PROVE  Reading(r, pc, i, n) \in [Readers -> ReaderStates]
<1> DEFINE next == [reader[r] EXCEPT !.pc = pc, !.proc = i, !.rc = [from |-> n, to |-> n]]
<1>1. reader[r] \in ReaderStates
  OBVIOUS
<1>2. next \in ReaderStates
  BY <1>1 DEF ReaderStates
<1>3. Reading(r, pc, i, n) = [reader EXCEPT ![r] = next]
  BY DEF Reading
<1> HIDE DEF next
<1> QED BY <1>2, <1>3

\* With one reader the parts make the whole.
LEMMA OnlyReader ==
    ASSUME OneReader, NEW r \in Readers, StreamShape', Chain', NoSkip', DoneTold', AckedTold', ReaderSound(r)'
    PROVE  StreamInv'
BY DEF OneReader, StreamInv

\* Where only the readers and the follow change.
LEMMA RangesStay ==
    ASSUME StreamInv, UNCHANGED <<ts, wanted, cp, stream, issued, pending, channelVars, recv, orphans>>
    PROVE  /\ Chain' /\ NoSkip' /\ DoneTold' /\ AckedTold' /\ From' = From
           /\ PastRanges' = PastRanges /\ ReaderStates' = ReaderStates
           /\ From \in Nat /\ From \in 1 .. Len(ts) + 1
BY DEF ReaderStates, StreamInv, StreamShape, Chain, NoSkip, DoneTold, AckedTold, Told, Covered, From, PastRanges, channelVars

\* The first line at or after the checkpoint.
LEMMA SinceCp == ASSUME StreamInv PROVE Since(cp) = cp
<1>1. DOMAIN ts = 1 .. Len(ts) /\ Len(ts) \in Nat /\ cp \in 1 .. Len(ts) + 1 /\ \A n \in 1 .. Len(ts) : ts[n] = n
  BY LenProperties DEF StreamInv, StreamShape
<1>2. {n \in DOMAIN ts : ts[n] < cp} = 1 .. cp - 1
  BY <1>1
<1>3. Cardinality(1 .. cp - 1) + 1 = cp
  <2>1. 1 \in Int /\ cp - 1 \in Int
    BY <1>1
  <2>2. Cardinality(1 .. cp - 1) = IF 1 > cp - 1 THEN 0 ELSE cp - 1 - 1 + 1
    BY <2>1, FS_Interval
  <2> QED BY <1>1, <2>2
<1> QED BY <1>2, <1>3 DEF Since

\* A read begins: where the follow stands, at the checkpoint after a spawn, or with nothing
\* to read from.
LEMMA BeginStep ==
    ASSUME OneReader, StreamInv, NEW r \in Readers, Begin(r) \/ Throttled(r)
    PROVE  StreamInv'
<1>1. UNCHANGED <<ts, wanted, cp, stream, issued, pending, channelVars, recv, orphans>>
  BY DEF Begin, Throttled, tailerVars, sessionVars
<1>2. /\ Chain' /\ NoSkip' /\ DoneTold' /\ AckedTold' /\ From' = From /\ PastRanges' = PastRanges
      /\ From \in 1 .. Len(ts) + 1 /\ Len(ts) \in Nat
  BY <1>1, RangesStay DEF StreamInv, StreamShape
<1>3. /\ reader[r].got = {} /\ reader[r] \in ReaderStates /\ From .. From - 1 = {} /\ From .. 0 - 1 = {} /\ (proc.runs => proc.next = From) /\ [from |-> From, to |-> From] \in PastRanges
      /\ proc.next \in Nat /\ proc.id \in Nat
  <2>1. reader[r] \in ReaderStates /\ proc.next \in Nat /\ proc.id \in Nat
    BY ShapeFacts
  <2>2. From .. From - 1 = {} /\ From .. 0 - 1 = {} /\ [from |-> From, to |-> From] \in PastRanges
    BY <1>2 DEF PastRanges
  <2>3. reader[r].pc = "begin" /\ ReaderSound(r)
    BY DEF Begin, Throttled, StreamInv
  <2> QED BY <2>1, <2>2, <2>3 DEF ReaderSound
<1>4. CASE Begin(r)
  <2>1. proc' = proc /\ proc.runs /\ reader' = Reading(r, "drain", proc.id, From)
    BY <1>4 DEF Begin, tailerVars
  <2>2. /\ reader'[r].pc = "drain" /\ reader'[r].rc = [from |-> From, to |-> From] /\ reader'[r].got = {}
        /\ reader'[r].proc = proc.id
    BY <1>3, <2>1 DEF Reading, StreamInv, StreamShape
  <2>3. StreamShape'
    <3>1. reader' \in [Readers -> ReaderStates]
      BY <1>3, <2>1, ShapeFacts, ReadingTyped
    <3> QED BY <1>1, <2>1, <3>1, ShapeFacts, ShapeStays
  <2>4. ReaderSound(r)'
    <3>1. reader'[r].rc.from = From' /\ proc'.next = From' /\ proc'.id = proc.id /\ From' =< proc'.next
      BY <1>2, <1>3, <2>1, <2>2
    <3>2. reader'[r].rc.from .. proc'.next - 1 = {}
      BY <1>2, <3>1
    <3> QED BY <2>2, <3>1, <3>2 DEF ReaderSound
  <2> QED BY <1>2, <2>3, <2>4, OnlyReader
<1>5. CASE Throttled(r)
  <2>1. proc' = NoProcess /\ reader' = Reading(r, "issue", 0, From)
    BY <1>5 DEF Throttled
  <2>2. reader'[r].pc = "issue" /\ reader'[r].rc = [from |-> From, to |-> From] /\ reader'[r].got = {}
    BY <1>3, <2>1 DEF Reading, StreamInv, StreamShape
  <2>3. StreamShape'
    <3>1. reader' \in [Readers -> ReaderStates]
      BY <1>3, <2>1, ShapeFacts, ReadingTyped
    <3>2. /\ proc' \in [id : Nat, runs : BOOLEAN, next : Nat, last : Nat]
          /\ proc'.next =< Len(ts) + 1 /\ proc'.last =< Len(ts)
      BY <1>2, <2>1 DEF NoProcess
    <3> QED BY <1>1, <3>1, <3>2, ShapeFacts, ShapeStays
  <2>4. ReaderSound(r)'
    <3>1. reader'[r].rc.from = From' /\ proc'.next = 0 /\ ~proc'.runs /\ From' \in Nat \ {0}
      BY <1>2, <1>3, <2>1, <2>2 DEF NoProcess
    <3>2. reader'[r].rc.from .. proc'.next - 1 = {}
      BY <3>1
    <3> QED BY <2>2, <3>1, <3>2 DEF ReaderSound
  <2> QED BY <1>2, <2>3, <2>4, OnlyReader
<1> QED BY <1>4, <1>5

LEMMA SpawnStep ==
    ASSUME OneReader, StreamInv, NEW r \in Readers, Spawn(r) \/ SpawnFails(r)
    PROVE  StreamInv'
<1>1. UNCHANGED <<ts, wanted, cp, pending, channelVars, recv, orphans>> /\ stream' = 0 /\ issued' = <<>>
  BY DEF Spawn, SpawnFails, sessionVars
<1>2. PastRanges' = PastRanges /\ From' = cp /\ cp \in 1 .. Len(ts) + 1 /\ Len(ts) \in Nat
  BY <1>1 DEF PastRanges, From, StreamInv, StreamShape
<1>3. Len(issued') = 0 /\ issued' \in Seq([rc : PastRanges, done : BOOLEAN])
  BY <1>1, EmptySeq
<1>4. Chain' /\ NoSkip' /\ DoneTold' /\ AckedTold'
  <2>1. Chain'
    BY <1>1, <1>2, <1>3 DEF Chain
  <2>2. NoSkip' /\ AckedTold'
    BY <1>1 DEF StreamInv, NoSkip, AckedTold, Told, Covered, channelVars
  <2>3. DoneTold'
    BY <1>3 DEF DoneTold
  <2> QED BY <2>1, <2>2, <2>3
<1>5. /\ reader[r].got = {} /\ reader[r] \in ReaderStates /\ cp .. cp - 1 = {} /\ cp .. 0 - 1 = {}
      /\ [from |-> cp, to |-> cp] \in PastRanges /\ cp \in Nat
  <2>1. reader[r] \in ReaderStates
    BY ShapeFacts
  <2>2. cp .. cp - 1 = {} /\ cp .. 0 - 1 = {} /\ [from |-> cp, to |-> cp] \in PastRanges /\ cp \in Nat
    BY <1>2 DEF PastRanges
  <2>3. reader[r].pc = "begin" /\ ReaderSound(r)
    BY DEF Spawn, SpawnFails, StreamInv
  <2> QED BY <2>1, <2>2, <2>3 DEF ReaderSound
<1>6. CASE Spawn(r)
  <2>1. PICK i \in 1 .. Cardinality(Readers) + 1 :
            /\ proc' = [id |-> i, runs |-> TRUE, next |-> Since(cp), last |-> 0]
            /\ reader' = Reading(r, "drain", i, cp)
    BY <1>6 DEF Spawn
  <2>2. proc' = [id |-> i, runs |-> TRUE, next |-> cp, last |-> 0] /\ i \in Nat
    BY <2>1, SinceCp
  <2>3. /\ reader'[r].pc = "drain" /\ reader'[r].rc = [from |-> cp, to |-> cp] /\ reader'[r].got = {}
        /\ reader'[r].proc = i
    BY <1>5, <2>1 DEF Reading, StreamInv, StreamShape
  <2>4. StreamShape'
    <3>1. reader' \in [Readers -> ReaderStates]
      BY <1>5, <2>1, <2>2, ShapeFacts, ReadingTyped
    <3>2. /\ proc' \in [id : Nat, runs : BOOLEAN, next : Nat, last : Nat]
          /\ proc'.next =< Len(ts) + 1 /\ proc'.last =< Len(ts)
      BY <1>2, <1>5, <2>2
    <3> QED BY <1>1, <1>2, <1>3, <3>1, <3>2, ShapeFacts, ShapeStays
  <2>5. ReaderSound(r)'
    BY <1>2, <1>5, <2>2, <2>3 DEF ReaderSound
  <2> QED BY <1>4, <2>4, <2>5, OnlyReader
<1>7. CASE SpawnFails(r)
  <2>1. proc' = NoProcess /\ reader' = Reading(r, "issue", 0, cp)
    BY <1>7 DEF SpawnFails
  <2>2. reader'[r].pc = "issue" /\ reader'[r].rc = [from |-> cp, to |-> cp] /\ reader'[r].got = {}
    BY <1>5, <2>1 DEF Reading, StreamInv, StreamShape
  <2>3. StreamShape'
    <3>1. reader' \in [Readers -> ReaderStates]
      BY <1>5, <2>1, ShapeFacts, ReadingTyped
    <3>2. /\ proc' \in [id : Nat, runs : BOOLEAN, next : Nat, last : Nat]
          /\ proc'.next =< Len(ts) + 1 /\ proc'.last =< Len(ts)
      BY <1>2, <2>1 DEF NoProcess
    <3> QED BY <1>1, <1>2, <1>3, <3>1, <3>2, ShapeFacts, ShapeStays
  <2>4. ReaderSound(r)'
    <3>1. reader'[r].rc.from = From' /\ proc'.next = 0 /\ ~proc'.runs /\ From' \in Nat \ {0}
      BY <1>2, <1>5, <2>1, <2>2 DEF NoProcess
    <3>2. reader'[r].rc.from .. proc'.next - 1 = {}
      BY <3>1
    <3> QED BY <2>2, <3>1, <3>2 DEF ReaderSound
  <2> QED BY <1>4, <2>3, <2>4, OnlyReader
<1> QED BY <1>6, <1>7

\* The drain takes the next line off the pipe.
LEMMA DrainStep ==
    ASSUME OneReader, StreamInv, NEW r \in Readers, Drain(r) \/ DrainEnds(r)
    PROVE  StreamInv'
<1>1. UNCHANGED <<ts, wanted, cp, stream, issued, pending, channelVars, recv, orphans>>
  BY DEF Drain, DrainEnds, tailerVars, sessionVars
<1>2. /\ Chain' /\ NoSkip' /\ DoneTold' /\ AckedTold' /\ From' = From /\ PastRanges' = PastRanges
      /\ From \in 1 .. Len(ts) + 1 /\ Len(ts) \in Nat
  BY <1>1, RangesStay DEF StreamInv, StreamShape
<1>3. /\ reader[r].pc = "drain" /\ reader[r].rc.from = From /\ reader[r].got = From .. proc.next - 1
      /\ From =< proc.next /\ proc.next \in Nat /\ proc.next =< Len(ts) + 1 /\ reader[r].proc = proc.id
      /\ proc.last \in Nat /\ proc.last =< Len(ts) /\ reader[r] \in ReaderStates
      /\ proc \in [id : Nat, runs : BOOLEAN, next : Nat, last : Nat]
  BY ShapeFacts DEF Drain, DrainEnds, StreamInv, ReaderSound
<1>4. CASE Drain(r)
  <2>1. /\ proc.next =< Len(ts) /\ proc' = [proc EXCEPT !.next = @ + 1]
        /\ reader' = [reader EXCEPT ![r].got = @ \cup {proc.next}]
    BY <1>2, <1>3, <1>4 DEF Drain, Printed
  <2>2. /\ reader'[r].pc = "drain" /\ reader'[r].rc = reader[r].rc /\ reader'[r].proc = reader[r].proc
        /\ reader'[r].got = reader[r].got \cup {proc.next}
    BY <1>3, <2>1 DEF StreamInv, StreamShape
  <2>3. proc'.next = proc.next + 1 /\ proc'.id = proc.id /\ proc'.runs = proc.runs /\ proc'.last = proc.last
        /\ proc' \in [id : Nat, runs : BOOLEAN, next : Nat, last : Nat]
    BY <1>3, <2>1
  <2>4. reader'[r].got = From .. proc'.next - 1
    <3>1. (From .. proc.next - 1) \cup {proc.next} = From .. proc.next + 1 - 1
      BY <1>2, <1>3
    <3> QED BY <1>3, <2>2, <2>3, <3>1
  <2>5. StreamShape'
    <3>1. reader' \in [Readers -> ReaderStates]
      <4>1. [reader[r] EXCEPT !.got = @ \cup {proc.next}] \in ReaderStates
        BY <1>3 DEF ReaderStates
      <4>2. reader' = [reader EXCEPT ![r] = [reader[r] EXCEPT !.got = @ \cup {proc.next}]]
        BY <2>1
      <4> QED BY <4>1, <4>2, ShapeFacts
    <3>2. proc'.next =< Len(ts) + 1 /\ proc'.last =< Len(ts)
      BY <1>2, <1>3, <2>1, <2>3
    <3> QED BY <1>1, <2>3, <3>1, <3>2, ShapeFacts, ShapeStays
  <2>6. ReaderSound(r)'
    <3>1. /\ reader'[r].pc = "drain" /\ reader'[r].rc.from = From' /\ reader'[r].proc = proc'.id
          /\ reader'[r].got = reader'[r].rc.from .. proc'.next - 1
      BY <1>2, <1>3, <2>2, <2>3, <2>4
    <3>2. From' =< proc'.next
      BY <1>2, <1>3, <2>3
    <3> QED BY <3>1, <3>2 DEF ReaderSound
  <2> QED BY <1>2, <2>5, <2>6, OnlyReader
<1>5. CASE DrainEnds(r)
  <2>1. proc' = proc /\ reader' = [reader EXCEPT ![r].pc = "issue"]
    BY <1>5 DEF DrainEnds, tailerVars
  <2>2. reader'[r].pc = "issue" /\ reader'[r].rc = reader[r].rc /\ reader'[r].got = reader[r].got
    BY <1>3, <2>1 DEF StreamInv, StreamShape
  <2>3. StreamShape'
    <3>1. reader' \in [Readers -> ReaderStates]
      BY <1>3, <2>1, ShapeFacts DEF ReaderStates
    <3> QED BY <1>1, <2>1, <3>1, ShapeFacts, ShapeStays
  <2>4. ReaderSound(r)'
    <3>1. /\ reader'[r].pc = "issue" /\ reader'[r].rc.from = From' /\ From' =< proc'.next
          /\ reader'[r].got = reader'[r].rc.from .. proc'.next - 1
      BY <1>2, <1>3, <2>1, <2>2
    <3> QED BY <3>1 DEF ReaderSound
  <2> QED BY <1>2, <2>3, <2>4, OnlyReader
<1> QED BY <1>4, <1>5

\* Lines issue a range behind the last one.
LEMMA IssueStep ==
    ASSUME OneReader, StreamInv, NEW r \in Readers, Issue(r)
    PROVE  StreamInv'
<1> DEFINE j == reader[r]
           rc == [j.rc EXCEPT !.to = TickPast(ts[Latest(j.got)])]
           E == [rc : PastRanges, done : BOOLEAN]
<1>1. UNCHANGED <<ts, wanted, cp, proc, pending, channelVars, recv, orphans>> /\ PastRanges' = PastRanges
  BY DEF Issue, sessionVars, PastRanges
<1>2. /\ j.pc = "issue" /\ j.rc.from = From /\ j.got = From .. proc.next - 1 /\ (proc.runs => From =< proc.next)
      /\ proc.next \in Nat /\ proc.next =< Len(ts) + 1 /\ Len(ts) \in Nat /\ From \in 1 .. Len(ts) + 1
      /\ j.rc \in PastRanges /\ (\A n \in 1 .. Len(ts) : ts[n] = n) /\ cp \in 1 .. Len(ts) + 1
      /\ stream \in Nat /\ issued \in Seq(E) /\ Len(issued) \in Nat /\ j \in ReaderStates
  <2>1. j \in ReaderStates /\ j.rc \in PastRanges
    BY ShapeFacts DEF ReaderStates
  <2>2. proc.next \in Nat
    BY ShapeFacts
  <2>3. j.pc = "issue"
    BY DEF Issue
  <2>4. j.rc.from = From /\ j.got = From .. proc.next - 1 /\ (proc.runs => From =< proc.next)
    BY <2>3 DEF StreamInv, ReaderSound
  <2> QED BY <2>1, <2>2, <2>3, <2>4, ShapeFacts
<1>3. CASE j.got = {}
  <2>1. reader' = [reader EXCEPT ![r].pc = "done"] /\ UNCHANGED <<stream, issued>>
    BY <1>3 DEF Issue
  <2>2. Chain' /\ NoSkip' /\ DoneTold' /\ AckedTold' /\ From' = From
    BY <1>1, <2>1, RangesStay
  <2>3. reader'[r].pc = "done" /\ reader'[r].got = {}
    BY <1>3, <2>1 DEF StreamInv, StreamShape
  <2>4. StreamShape'
    <3>1. reader' \in [Readers -> ReaderStates]
      BY <1>2, <2>1, ShapeFacts DEF ReaderStates
    <3> QED BY <1>1, <2>1, <3>1, ShapeFacts, ShapeStays
  <2>5. ReaderSound(r)'
    <3>1. ASSUME proc.runs PROVE proc.next = From
      <4>1. From =< proc.next /\ From .. proc.next - 1 = {} /\ From \in Nat /\ proc.next \in Nat
        <5>1. From .. proc.next - 1 = {}
          BY <1>2, <1>3, Zenon
        <5> QED BY <1>2, <3>1, <5>1
      <4>2. From =< proc.next - 1 => From \in From .. proc.next - 1
        BY <4>1
      <4>3. ~(From =< proc.next - 1)
        BY <4>1, <4>2, Zenon
      <4> QED BY <4>1, <4>3
    <3> QED BY <1>1, <2>2, <2>3, <3>1 DEF ReaderSound
  <2> QED BY <2>2, <2>4, <2>5, OnlyReader
<1>4. CASE j.got # {}
  <2>1. /\ stream' = rc.to /\ issued' = Append(issued, [rc |-> rc, done |-> FALSE])
        /\ reader' = [reader EXCEPT ![r].rc = rc, ![r].pc = IF Matched(j.got) = {} THEN "skip" ELSE "done"]
    BY <1>4 DEF Issue
  <2>2. From =< proc.next - 1 /\ Latest(j.got) = proc.next - 1 /\ ts[proc.next - 1] = proc.next - 1
    <3>1. From =< proc.next - 1
      BY <1>2, <1>4
    <3>2. Latest(j.got) \in j.got /\ \A m \in j.got : m =< Latest(j.got)
      <4>1. j.got \subseteq 0 .. proc.next
        BY <1>2
      <4> QED BY <1>2, <1>4, <4>1, LastIn
    <3>3. proc.next - 1 \in j.got /\ proc.next - 1 \in 1 .. Len(ts)
      BY <1>2, <3>1
    <3>4. Latest(j.got) =< proc.next - 1
      BY <1>2, <3>2
    <3> QED BY <1>2, <3>1, <3>2, <3>3, <3>4
  <2>3. rc \in PastRanges /\ rc.from = From /\ rc.to = proc.next /\ rc.to # 0 /\ rc.to =< Len(ts) + 1
    <3>1. TickPast(ts[Latest(j.got)]) = proc.next /\ proc.next # 0
      BY <1>2, <2>2 DEF TickPast
    <3>2. rc = [j.rc EXCEPT !.to = proc.next]
      BY <3>1
    <3> QED BY <1>2, <3>1, <3>2 DEF PastRanges
  <2>4. stream' = proc.next /\ stream' # 0 /\ From' = proc.next
    BY <2>1, <2>3 DEF From
  <2> HIDE DEF rc
  <2>5. /\ issued' \in Seq(E) /\ Len(issued') = Len(issued) + 1 /\ issued' # <<>>
        /\ \A k \in 1 .. Len(issued) : issued'[k] = issued[k]
        /\ issued'[Len(issued) + 1] = [rc |-> rc, done |-> FALSE]
    BY <1>2, <2>1, <2>3
  <2>6. Chain'
    <3>1. issued'[1].rc.from = cp
      <4>1. CASE issued = <<>>
        <5>1. Len(issued) + 1 = 1 /\ From = cp
          BY <4>1 DEF StreamInv, Chain
        <5> QED BY <2>3, <2>5, <5>1
      <4>2. CASE issued # <<>>
        <5>1. 1 \in 1 .. Len(issued) /\ issued[1].rc.from = cp
          BY <1>2, <4>2, EmptySeq DEF StreamInv, Chain
        <5> QED BY <2>5, <5>1
      <4> QED BY <4>1, <4>2
    <3>2. ASSUME NEW k \in 1 .. Len(issued')
          PROVE  0 < issued'[k].rc.to /\ (k > 1 => issued'[k].rc.from = issued'[k - 1].rc.to)
      <4>1. CASE k \in 1 .. Len(issued)
        <5>1. k > 1 => k - 1 \in 1 .. Len(issued)
          BY <1>2, <4>1
        <5> QED BY <2>5, <4>1, <5>1 DEF StreamInv, Chain
      <4>2. CASE k = Len(issued) + 1
        <5>1. 0 < issued'[k].rc.to
          BY <1>2, <2>3, <2>4, <2>5, <4>2
        <5>2. ASSUME k > 1 PROVE issued'[k].rc.from = issued'[k - 1].rc.to
          <6>1. Len(issued) \in 1 .. Len(issued) /\ k - 1 = Len(issued) /\ issued # <<>>
            BY <1>2, <4>2, <5>2
          <6>2. issued[Len(issued)].rc.to = From
            BY <6>1 DEF StreamInv, Chain, From
          <6> QED BY <2>3, <2>5, <4>2, <6>1, <6>2
        <5> QED BY <5>1, <5>2
      <4> QED BY <1>2, <2>5, <4>1, <4>2
    <3>3. issued'[Len(issued')].rc.to = stream'
      BY <1>2, <2>1, <2>5
    <3> QED BY <1>1, <2>4, <2>5, <3>1, <3>2, <3>3 DEF Chain
  <2>7. NoSkip' /\ AckedTold'
    BY <1>1 DEF StreamInv, NoSkip, AckedTold, Told, Covered, channelVars
  <2>8. DoneTold'
    <3>1. ASSUME NEW k \in 1 .. Len(issued'), issued'[k].done PROVE k \in 1 .. Len(issued)
      BY <1>2, <2>5, <3>1
    <3> QED BY <1>1, <2>5, <3>1 DEF StreamInv, DoneTold, Told, Covered, channelVars
  <2>9. /\ reader'[r].pc = (IF Matched(j.got) = {} THEN "skip" ELSE "done")
        /\ reader'[r].rc = rc /\ reader'[r].got = j.got
    BY <2>1 DEF StreamInv, StreamShape
  <2>10. StreamShape'
    <3>1. reader' \in [Readers -> ReaderStates]
      BY <1>2, <2>1, <2>3, ShapeFacts DEF ReaderStates
    <3>2. stream' \in 0 .. Len(ts) + 1
      BY <1>2, <2>4
    <3> QED BY <1>1, <2>5, <3>1, <3>2, ShapeFacts, ShapeStays
  <2>11. ReaderSound(r)'
    BY <1>1, <1>2, <1>4, <2>3, <2>4, <2>9 DEF ReaderSound, Matched
  <2> QED BY <2>6, <2>7, <2>8, <2>10, <2>11, OnlyReader
<1> QED BY <1>3, <1>4

\* A read without a match confirms its own range.
LEMMA SkipStep ==
    ASSUME OneReader, StreamInv, NEW r \in Readers, SkipFiltered(r)
    PROVE  StreamInv'
<1>1. /\ reader[r].pc = "skip" /\ ConfirmShipped(reader[r].rc) /\ reader' = [reader EXCEPT ![r].pc = "done"]
      /\ UNCHANGED <<ts, wanted, proc, stream, pending, channelVars, recv, orphans>>
  BY DEF SkipFiltered, sessionVars
<1>2. Told(reader[r].rc)
  <2>1. /\ reader[r].got = reader[r].rc.from .. reader[r].rc.to - 1 /\ Matched(reader[r].got) = {}
        /\ reader[r].rc \in PastRanges
    BY <1>1, ShapeFacts DEF StreamInv, ReaderSound, ReaderStates
  <2>2. \A n \in wanted : n \in Nat /\ n \notin reader[r].got
    BY <2>1, ShapeFacts DEF Matched
  <2>3. \A n \in Covered(reader[r].rc) : n \in reader[r].got
    BY <2>1, <2>2 DEF Covered, PastRanges
  <2> QED BY <2>2, <2>3 DEF Told, Covered
<1>3. /\ issued' \in Seq([rc : PastRanges', done : BOOLEAN]) /\ cp' \in 1 .. Len(ts') + 1
      /\ Chain' /\ NoSkip' /\ DoneTold' /\ From' = From /\ PastRanges' = PastRanges
  BY <1>1, <1>2, ConfirmKeeps DEF channelVars, PastRanges
<1>4. AckedTold'
  BY <1>1 DEF StreamInv, AckedTold, Told, Covered, channelVars
<1>5. StreamShape'
  <2>1. reader[r] \in ReaderStates
    BY ShapeFacts
  <2>2. [reader[r] EXCEPT !.pc = "done"] \in ReaderStates
    BY <2>1 DEF ReaderStates
  <2>3. reader' \in [Readers -> ReaderStates]
    BY <1>1, <2>2, ShapeFacts
  <2> QED BY <1>1, <1>3, <2>3, ShapeFacts, ShapeStays
<1>6. ReaderSound(r)'
  <2>1. reader'[r].pc = "done" /\ reader'[r].rc = reader[r].rc /\ reader'[r].got = reader[r].got
    BY <1>1, ShapeFacts
  <2>2. ReaderSound(r)
    BY DEF StreamInv
  <2> QED BY <1>1, <1>3, <2>1, <2>2 DEF ReaderSound
<1> QED BY <1>3, <1>4, <1>5, <1>6, OnlyReader

\* What was read is sent with its range, or thrown away.
LEMMA ShipStep ==
    ASSUME OneReader, StreamInv, NEW r \in Readers, Ship(r) \/ Discard(r)
    PROVE  StreamInv'
<1> DEFINE j == reader[r]
<1>1. /\ UNCHANGED <<ts, wanted, cp, proc, stream, issued, acks, delivered, recv, orphans>>
      /\ reader' = [reader EXCEPT ![r] = Free] /\ j.pc = "done"
  BY DEF Ship, Discard, tailerVars, channelVars, sessionVars
<1>2. From' = From /\ PastRanges' = PastRanges /\ Chain' /\ NoSkip' /\ DoneTold'
  BY <1>1 DEF StreamInv, From, PastRanges, Chain, NoSkip, DoneTold, Told, Covered
<1>3. ReaderSound(r)'
  <2>1. reader'[r] = Free
    BY <1>1 DEF StreamInv, StreamShape
  <2> QED BY <1>1, <1>2, <2>1 DEF StreamInv, ReaderSound, Free
<1>4. reader' \in [Readers -> ReaderStates]
  <2>1. Free \in ReaderStates
    BY ShapeFacts DEF Free, NoRange, PastRanges, ReaderStates
  <2> QED BY <1>1, <2>1, ShapeFacts
<1>5. CASE UNCHANGED <<pending, sent, wire>>
  <2>1. AckedTold'
    BY <1>1, <1>5 DEF StreamInv, AckedTold, Told, Covered
  <2>2. StreamShape'
    BY <1>1, <1>4, <1>5, ShapeFacts, ShapeStays
  <2> QED BY <1>2, <1>3, <2>1, <2>2, OnlyReader
<1>6. ASSUME NEW b \in FreeIds, Matched(j.got) # {},
             pending' = [c \in DOMAIN pending \cup {b} |-> IF c = b THEN j.rc ELSE pending[c]],
             sent' = [c \in DOMAIN sent \cup {b} |-> IF c = b THEN Matched(j.got) ELSE sent[c]],
             wire' = wire \cup {b}
      PROVE  StreamInv'
  <2>1. b \notin DOMAIN pending /\ b \notin wire /\ b \notin acks
    BY DEF FreeIds, StreamInv, AckedTold
  <2>2. Covered(j.rc) \subseteq Matched(j.got)
    BY <1>1, <1>6 DEF StreamInv, StreamShape, ReaderSound, Covered, Matched, PastRanges
  <2>3. AckedTold'
    <3>1. DOMAIN sent' = wire' \cup acks' /\ wire' \cap acks' = {}
      BY <1>1, <1>6, <2>1 DEF StreamInv, AckedTold
    <3>2. \A c \in DOMAIN pending' \cap wire' : Covered(pending'[c]) \subseteq sent'[c]
      BY <1>6, <2>1, <2>2 DEF StreamInv, AckedTold
    <3>3. \A c \in DOMAIN pending' \cap acks' : Told(pending'[c])
      BY <1>1, <1>6, <2>1 DEF StreamInv, AckedTold
    <3> QED BY <1>1, <3>1, <3>2, <3>3 DEF StreamInv, AckedTold, Told, Covered
  <2>4. StreamShape'
    <3>1. j.rc \in PastRanges
      BY ShapeFacts DEF ReaderStates
    <3>2. pending' \in [DOMAIN pending' -> PastRanges]
      BY <1>6, <3>1, ShapeFacts
    <3> QED BY <1>1, <1>4, <3>2, ShapeFacts, ShapeStays
  <2> QED BY <1>2, <1>3, <2>3, <2>4, OnlyReader
<1> QED BY <1>5, <1>6 DEF Ship, Discard, channelVars

\* The control plane reads a batch: it has what was sent, and acks it.
LEMMA ReceiveStep ==
    ASSUME OneReader, StreamInv, NEW b \in Batches, ControlPlaneReads(b) \/ HandleAck(b)
    PROVE  StreamInv'
<1>1. UNCHANGED <<ts, wanted, cp, proc, stream, issued, pending, orphans, reader>>
  BY DEF ControlPlaneReads, HandleAck, tailerVars, sessionVars
<1>2. From' = From /\ Chain' /\ delivered \subseteq delivered' /\ \A q \in Readers : ReaderSound(q)'
  BY <1>1 DEF StreamInv, From, Chain, ReaderSound, Matched, ControlPlaneReads, HandleAck
<1>3. NoSkip' /\ DoneTold'
  BY <1>1, <1>2 DEF StreamInv, NoSkip, DoneTold, Told, Covered
<1>4. CASE ControlPlaneReads(b)
  <2>1. b \in wire /\ wire' = wire \ {b} /\ acks' = acks \cup {b} /\ delivered' = delivered \cup sent[b]
        /\ sent' = sent /\ recv' = recv
    BY <1>4 DEF ControlPlaneReads, sessionVars
  <2>2. AckedTold'
    <3>1. DOMAIN sent' = wire' \cup acks' /\ wire' \cap acks' = {}
      BY <2>1 DEF StreamInv, AckedTold
    <3>2. \A c \in DOMAIN pending \cap wire' : Covered(pending[c])' \subseteq sent'[c]
      BY <1>1, <2>1 DEF StreamInv, AckedTold, Covered
    <3>3. \A c \in DOMAIN pending \cap acks' : Told(pending[c])'
      BY <1>1, <2>1 DEF StreamInv, AckedTold, Told, Covered
    <3>4. (recv'.stage = "asked" => Told(recv.rc)') /\ \A rc \in orphans : Told(rc)'
      BY <1>1, <1>2, <2>1 DEF StreamInv, AckedTold, Told, Covered
    <3> QED BY <1>1, <2>1, <3>1, <3>2, <3>3, <3>4 DEF AckedTold, Told, Covered
  <2>3. StreamShape'
    BY <1>1, <2>1, ShapeFacts, ShapeStays
  <2> QED BY <1>2, <1>3, <2>2, <2>3 DEF StreamInv
<1>5. CASE HandleAck(b)
  <2>1. /\ b \in acks /\ acks' = acks \ {b} /\ sent' = [c \in DOMAIN sent \ {b} |-> sent[c]]
        /\ recv' = (IF b \in DOMAIN pending THEN [batch |-> {b}, stage |-> "asked", rc |-> pending[b]] ELSE recv)
        /\ UNCHANGED <<wire, delivered>> /\ b \notin wire
    BY <1>5 DEF HandleAck, StreamInv, AckedTold
  <2>2. AckedTold'
    <3>1. DOMAIN sent' = wire' \cup acks' /\ wire' \cap acks' = {}
      BY <2>1 DEF StreamInv, AckedTold
    <3>2. \A c \in DOMAIN pending \cap wire' : Covered(pending[c])' \subseteq sent'[c]
      BY <1>1, <2>1 DEF StreamInv, AckedTold, Covered
    <3>3. \A c \in DOMAIN pending \cap acks' : Told(pending[c])'
      BY <1>1, <2>1 DEF StreamInv, AckedTold, Told, Covered
    <3>4. (recv'.stage = "asked" => Told(recv'.rc)) /\ \A rc \in orphans : Told(rc)
      BY <1>1, <2>1 DEF StreamInv, AckedTold
    <3> QED BY <1>1, <2>1, <3>1, <3>2, <3>3, <3>4 DEF AckedTold, Told, Covered
  <2>3. StreamShape'
    <3>1. recv' \in [batch : SUBSET Batches, stage : {"none", "asked", "done"}, rc : PastRanges]
      BY <2>1, ShapeFacts
    <3> QED BY <1>1, <3>1, ShapeFacts, ShapeStays
  <2> QED BY <1>2, <1>3, <2>2, <2>3 DEF StreamInv
<1> QED BY <1>4, <1>5

\* A receipt is confirmed, by the handler or after its session.
LEMMA ConfirmStep ==
    ASSUME OneReader, StreamInv, Confirm \/ \E rc \in orphans : LateConfirm(rc)
    PROVE  StreamInv'
<1>1. PICK rc \in PastRanges : Told(rc) /\ ConfirmShipped(rc)
  BY ShapeFacts DEF Confirm, LateConfirm, StreamInv, AckedTold
<1>2. /\ UNCHANGED <<ts, wanted, proc, stream, pending, channelVars, reader>>
      /\ recv' \in {recv, [recv EXCEPT !.stage = "done"]} /\ orphans' \subseteq orphans
  BY DEF Confirm, LateConfirm
<1>3. /\ issued' \in Seq([rc : PastRanges', done : BOOLEAN]) /\ cp' \in 1 .. Len(ts') + 1
      /\ Chain' /\ NoSkip' /\ DoneTold' /\ From' = From /\ PastRanges' = PastRanges
  BY <1>1, <1>2, ConfirmKeeps DEF channelVars, PastRanges
<1>4. recv' \in [batch : SUBSET Batches, stage : {"none", "asked", "done"}, rc : PastRanges]
      /\ recv'.rc = recv.rc /\ (recv'.stage = "asked" => recv.stage = "asked")
  BY <1>2, ShapeFacts
<1>5. AckedTold'
  BY <1>2, <1>4 DEF StreamInv, AckedTold, Told, Covered, channelVars
<1>6. StreamShape'
  BY <1>2, <1>3, <1>4, ShapeFacts, ShapeStays
<1>7. \A r \in Readers : ReaderSound(r)'
  BY <1>2, <1>3 DEF StreamInv, ReaderSound, Matched
<1> QED BY <1>3, <1>5, <1>6, <1>7 DEF StreamInv

\* Batches are forgotten: by the handler, by the prune of a turn, by a lost session.
LEMMA PruneStep ==
    ASSUME OneReader, StreamInv,
           \/ Pop \/ Connect \/ Disconnect
           \/ \E r \in Readers : \E P \in SUBSET DOMAIN pending : Turn(r, P)
    PROVE  StreamInv'
<1>1. /\ UNCHANGED <<ts, wanted, cp, proc, stream, issued, delivered>>
      /\ \/ UNCHANGED <<sent, wire, acks>>
         \/ sent' = [b \in {} |-> {}] /\ wire' = {} /\ acks' = {}
  BY DEF Pop, Connect, Disconnect, Turn, tailerVars, channelVars
<1>2. Chain' /\ NoSkip' /\ DoneTold' /\ From' = From /\ PastRanges' = PastRanges
  BY <1>1 DEF StreamInv, Chain, NoSkip, DoneTold, Told, Covered, From, PastRanges
<1>3. PICK P : pending' = Pruned(P)
  <2>1. Pruned({}) = pending
    BY ShapeFacts DEF Pruned
  <2> QED BY <2>1 DEF Pop, Connect, Disconnect, Turn
<1>4. /\ DOMAIN pending' \subseteq DOMAIN pending /\ \A b \in DOMAIN pending' : pending'[b] = pending[b]
      /\ pending' \in [DOMAIN pending' -> PastRanges]
  BY <1>3, ShapeFacts DEF Pruned
<1>5. /\ recv' \in {recv, NotReceiving} /\ NotReceiving.stage = "none"
      /\ recv' \in [batch : SUBSET Batches, stage : {"none", "asked", "done"}, rc : PastRanges]
  <2>1. NotReceiving \in [batch : SUBSET Batches, stage : {"none", "asked", "done"}, rc : PastRanges]
    BY ShapeFacts DEF NotReceiving, NoRange, PastRanges
  <2> QED BY <2>1, ShapeFacts DEF Pop, Connect, Disconnect, Turn, NotReceiving
<1>6. orphans' \subseteq PastRanges /\ \A rc \in orphans' : Told(rc)
  <2>1. recv.rc \in PastRanges
    BY ShapeFacts
  <2> QED BY <2>1, ShapeFacts DEF Pop, Connect, Disconnect, Turn, StreamInv, AckedTold
<1>7. AckedTold'
  <2>1. DOMAIN sent' = wire' \cup acks' /\ wire' \cap acks' = {}
    BY <1>1 DEF StreamInv, AckedTold
  <2>2. \A b \in DOMAIN pending' \cap wire' : Covered(pending'[b]) \subseteq sent'[b]
    BY <1>1, <1>4 DEF StreamInv, AckedTold
  <2>3. \A b \in DOMAIN pending' \cap acks' : Told(pending'[b])
    BY <1>1, <1>4 DEF StreamInv, AckedTold
  <2>4. recv'.stage = "asked" => Told(recv'.rc)
    BY <1>5 DEF StreamInv, AckedTold
  <2> QED BY <1>1, <1>6, <2>1, <2>2, <2>3, <2>4 DEF AckedTold, Told, Covered
<1>8. /\ reader' \in [Readers -> ReaderStates]
      /\ \A r \in Readers : \/ reader'[r].pc = reader[r].pc /\ reader'[r].proc = reader[r].proc
                               /\ reader'[r].rc = reader[r].rc /\ reader'[r].got = reader[r].got
                            \/ reader[r].pc = "free" /\ reader'[r].pc = "begin" /\ reader'[r].got = {}
  <2>1. CASE Pop \/ Connect
    BY <2>1, ShapeFacts DEF Pop, Connect
  <2>2. CASE Disconnect
    <3>1. reader' = [r \in Readers |-> [reader[r] EXCEPT !.live = FALSE]]
      BY <2>2 DEF Disconnect
    <3>2. \A r \in Readers : reader[r] \in ReaderStates
      BY ShapeFacts
    <3> QED BY <3>1, <3>2 DEF ReaderStates
  <2>3. ASSUME NEW r \in Readers, NEW Q \in SUBSET DOMAIN pending, Turn(r, Q)
        PROVE  /\ reader' \in [Readers -> ReaderStates]
               /\ reader[r].pc = "free" /\ reader'[r].pc = "begin" /\ reader'[r].got = {}
               /\ \A q \in Readers \ {r} : reader'[q] = reader[q]
    <3> DEFINE x == [Free EXCEPT !.pc = "begin", !.live = TRUE, !.snap = {Pruned(Q)[b] : b \in DOMAIN Pruned(Q)}]
    <3>1. reader[r].pc = "free" /\ reader' = [reader EXCEPT ![r] = x]
      BY <2>3 DEF Turn
    <3>2. \A b \in DOMAIN Pruned(Q) : Pruned(Q)[b] \in PastRanges
      BY ShapeFacts DEF Pruned
    <3>3. x.pc = "begin" /\ x.got = {} /\ x \in ReaderStates
      <4>1. Free \in ReaderStates /\ Free.got = {}
        BY ShapeFacts DEF Free, NoRange, ReaderStates, PastRanges
      <4>2. {Pruned(Q)[b] : b \in DOMAIN Pruned(Q)} \in SUBSET PastRanges
        BY <3>2
      <4> QED BY <4>1, <4>2 DEF ReaderStates
    <3> HIDE DEF x
    <3> QED BY <3>1, <3>3, ShapeFacts
  <2> QED BY <2>1, <2>2, <2>3
<1>9. \A r \in Readers : ReaderSound(r)'
  <2> SUFFICES ASSUME NEW r \in Readers PROVE ReaderSound(r)'
    OBVIOUS
  <2>1. ReaderSound(r)
    BY DEF StreamInv
  <2> QED BY <1>1, <1>2, <1>8, <2>1 DEF ReaderSound, Matched
<1>10. StreamShape'
  BY <1>1, <1>4, <1>5, <1>6, <1>8, ShapeFacts, ShapeStays
<1> QED BY <1>2, <1>7, <1>9, <1>10 DEF StreamInv

\* The follow dies, or the agent with it.
LEMMA DeathStep ==
    ASSUME OneReader, StreamInv, Die \/ Crash
    PROVE  StreamInv'
<1>1. CASE Die
  <2>1. /\ UNCHANGED <<ts, wanted, cp, stream, issued, pending, channelVars, recv, orphans, reader>>
        /\ proc' = [proc EXCEPT !.runs = FALSE, !.last = Len(ts)]
    BY <1>1 DEF Die, sessionVars
  <2>2. Chain' /\ NoSkip' /\ DoneTold' /\ AckedTold' /\ From' = From
    BY <2>1, RangesStay
  <2>3. /\ proc' \in [id : Nat, runs : BOOLEAN, next : Nat, last : Nat]
        /\ proc'.next = proc.next /\ proc'.id = proc.id /\ ~proc'.runs /\ proc'.last =< Len(ts)
    <3>1. proc \in [id : Nat, runs : BOOLEAN, next : Nat, last : Nat] /\ Len(ts) \in Nat
      BY ShapeFacts
    <3>2. proc' = [proc EXCEPT !.runs = FALSE, !.last = Len(ts)]
      BY <2>1
    <3>3. Len(ts) =< Len(ts)
      BY <3>1
    <3> QED BY <3>1, <3>2, <3>3
  <2>4. StreamShape'
    BY <2>1, <2>3, ShapeFacts, ShapeStays
  <2>5. \A r \in Readers : ReaderSound(r)'
    BY <2>1, <2>2, <2>3 DEF StreamInv, ReaderSound, Matched
  <2> QED BY <2>2, <2>4, <2>5 DEF StreamInv
<1>2. CASE Crash
  <2>1. /\ proc' = NoProcess /\ stream' = 0 /\ issued' = <<>> /\ recv' = NotReceiving /\ orphans' = {}
        /\ pending' = [b \in {} |-> NoRange] /\ reader' = [r \in Readers |-> Free]
        /\ sent' = [b \in {} |-> {}] /\ wire' = {} /\ acks' = {}
        /\ UNCHANGED <<ts, wanted, cp, delivered>>
    BY <1>2 DEF Crash
  <2>2. Len(issued') = 0 /\ issued' \in Seq([rc : PastRanges, done : BOOLEAN])
    BY <2>1, EmptySeq
  <2>3. Chain' /\ DoneTold'
    BY <2>1, <2>2, ShapeFacts DEF Chain, DoneTold, From
  <2>4. NoSkip'
    BY <2>1 DEF StreamInv, NoSkip
  <2>5. AckedTold'
    BY <2>1 DEF AckedTold, NotReceiving
  <2>6. StreamShape'
    <3>1. Free \in ReaderStates /\ NotReceiving \in [batch : SUBSET Batches, stage : {"none", "asked", "done"}, rc : PastRanges]
      BY ShapeFacts DEF Free, NotReceiving, NoRange, PastRanges, ReaderStates
    <3>2. /\ proc' \in [id : Nat, runs : BOOLEAN, next : Nat, last : Nat]
          /\ proc'.next =< Len(ts) + 1 /\ proc'.last =< Len(ts)
      BY <2>1, ShapeFacts DEF NoProcess
    <3> QED BY <2>1, <2>2, <3>1, <3>2, ShapeFacts, ShapeStays
  <2>7. \A r \in Readers : ReaderSound(r)'
    BY <2>1 DEF ReaderSound, Free, NoProcess
  <2> QED BY <2>3, <2>4, <2>5, <2>6, <2>7 DEF StreamInv
<1> QED BY <1>1, <1>2

\* The container writes a line behind every range.
LEMMA WriteStep ==
    ASSUME OneReader, ~Ties, StreamInv, NEW matches \in BOOLEAN, NEW tied \in BOOLEAN, WriteLine(matches, tied)
    PROVE  StreamInv'
<1> DEFINE l == Len(ts) + 1
<1>1. /\ UNCHANGED <<cp, proc, stream, issued, pending, channelVars, recv, orphans, reader>>
      /\ wanted' = IF matches THEN wanted \cup {l} ELSE wanted
  BY DEF WriteLine, tailerVars, sessionVars
<1>2. /\ ts \in Seq(Nat) /\ Len(ts) \in Nat /\ (\A n \in 1 .. Len(ts) : ts[n] = n) /\ cp \in 1 .. Len(ts) + 1
      /\ wanted \subseteq 1 .. Len(ts)
  BY ShapeFacts
<1>3. ts' = ts \o <<l>>
  <2>1. ts' = ts \o <<IF ts = <<>> THEN 1 ELSE Last(ts) + 1>>
    BY DEF WriteLine
  <2>2. CASE ts = <<>>
    BY <2>1, <2>2
  <2>3. CASE ts # <<>>
    <3>1. Len(ts) \in 1 .. Len(ts)
      BY <1>2, <2>3, EmptySeq
    <3> QED BY <1>2, <2>1, <2>3, <3>1 DEF Last
  <2> QED BY <2>2, <2>3
<1>4. /\ ts' \in Seq(Nat) /\ Len(ts') = l /\ l \in Nat /\ Len(ts') \in Nat
      /\ \A n \in 1 .. Len(ts') : ts'[n] = n
  <2>1. <<l>> \in Seq(Nat) /\ Len(<<l>>) = 1 /\ <<l>>[1] = l
    BY <1>2
  <2>2. /\ ts' \in Seq(Nat) /\ Len(ts') = Len(ts) + 1
        /\ \A i \in 1 .. Len(ts) + 1 : ts'[i] = IF i <= Len(ts) THEN ts[i] ELSE <<l>>[i - Len(ts)]
    BY <1>2, <1>3, <2>1, ConcatProperties
  <2> HIDE DEF l
  <2>3. ASSUME NEW n \in 1 .. Len(ts') PROVE ts'[n] = n
    <3>1. CASE n \in 1 .. Len(ts)
      <4>1. n \in 1 .. Len(ts) + 1 /\ n <= Len(ts) /\ ts[n] = n
        BY <1>2, <3>1
      <4> QED BY <2>2, <4>1
    <3>2. CASE n = Len(ts) + 1
      <4>1. n - Len(ts) = 1 /\ ~(n <= Len(ts)) /\ n \in 1 .. Len(ts) + 1
        BY <1>2, <3>2
      <4> QED BY <2>1, <2>2, <3>2, <4>1 DEF l
    <3> QED BY <1>2, <2>2, <3>1, <3>2
  <2> QED BY <1>2, <2>2, <2>3 DEF l
<1> HIDE DEF l
<1>5. PastRanges \subseteq PastRanges'
  BY <1>2, <1>4 DEF PastRanges, l
<1>6. \A rc \in PastRanges : Covered(rc)' = Covered(rc)
  BY <1>1, <1>2 DEF Covered, PastRanges, l
<1>7. From' = From /\ Chain'
  BY <1>1 DEF StreamInv, Chain, From
<1>8. NoSkip'
  BY <1>1, <1>2, <1>4 DEF StreamInv, NoSkip, channelVars, l
<1>9. DoneTold'
  <2>1. \A k \in 1 .. Len(issued) : issued[k] \in [rc : PastRanges, done : BOOLEAN]
    BY ShapeFacts, ElementOfSeq
  <2>2. \A k \in 1 .. Len(issued) : issued[k].rc \in PastRanges
    BY <2>1
  <2> QED BY <1>1, <1>6, <2>2 DEF StreamInv, DoneTold, Told, channelVars
<1>10. AckedTold'
  <2>1. /\ \A b \in DOMAIN pending : pending[b] \in PastRanges
        /\ recv.rc \in PastRanges /\ \A rc \in orphans : rc \in PastRanges
    BY ShapeFacts
  <2> QED BY <1>1, <1>6, <2>1 DEF StreamInv, AckedTold, Told, channelVars
<1>11. \A r \in Readers : ReaderSound(r)'
  <2> SUFFICES ASSUME NEW r \in Readers PROVE ReaderSound(r)'
    OBVIOUS
  <2>1. reader[r] \in ReaderStates /\ ReaderSound(r)
    BY ShapeFacts DEF StreamInv
  <2>2. reader[r].pc = "skip" => Matched(reader[r].got)' = {}
    <3>1. ASSUME reader[r].pc = "skip" PROVE l \notin reader[r].got
      <4>1. reader[r].rc \in PastRanges /\ reader[r].got = reader[r].rc.from .. reader[r].rc.to - 1
        BY <2>1, <3>1 DEF ReaderSound, ReaderStates
      <4> QED BY <1>2, <4>1 DEF PastRanges, l
    <3> QED BY <1>1, <2>1, <3>1 DEF ReaderSound, Matched
  <2> QED BY <1>1, <1>7, <2>1, <2>2 DEF ReaderSound
<1>12. StreamShape'
  <2>1. ReaderStates \subseteq ReaderStates'
    BY <1>5 DEF ReaderStates
  <2>2. reader' \in [Readers -> ReaderStates']
    BY <1>1, <2>1, ShapeFacts
  <2>3. issued' \in Seq([rc : PastRanges', done : BOOLEAN])
    <3>1. [rc : PastRanges, done : BOOLEAN] \subseteq [rc : PastRanges', done : BOOLEAN]
      BY <1>5
    <3>2. issued \in Seq([rc : PastRanges, done : BOOLEAN]) /\ issued' = issued
      BY <1>1, ShapeFacts
    <3> QED BY <3>1, <3>2, SeqMonotonic
  <2>4. /\ pending' \in [DOMAIN pending' -> PastRanges'] /\ orphans' \subseteq PastRanges'
        /\ recv' \in [batch : SUBSET Batches, stage : {"none", "asked", "done"}, rc : PastRanges']
    BY <1>1, <1>5, ShapeFacts
  <2>5. /\ wanted' \subseteq 1 .. Len(ts') /\ cp' \in 1 .. Len(ts') + 1 /\ stream' \in 0 .. Len(ts') + 1
        /\ proc'.next =< Len(ts') + 1 /\ proc'.last =< Len(ts')
        /\ proc' \in [id : Nat, runs : BOOLEAN, next : Nat, last : Nat]
    <3>1. proc.next \in Nat /\ proc.last \in Nat
      BY ShapeFacts
    <3>2. /\ wanted' \subseteq 1 .. Len(ts')
          /\ cp' = cp /\ stream' = stream /\ proc' = proc /\ Len(ts') = Len(ts) + 1
      BY <1>1, <1>2, <1>4, ShapeFacts DEF l
    <3>3. cp \in 1 .. Len(ts) + 1 /\ stream \in 0 .. Len(ts) + 1 /\ Len(ts) \in Nat
      BY ShapeFacts
    <3>4. proc.next =< Len(ts) + 1 /\ proc.last =< Len(ts)
      BY ShapeFacts
    <3> QED BY <3>1, <3>2, <3>3, <3>4, ShapeFacts
  <2> QED BY <1>4, <2>2, <2>3, <2>4, <2>5 DEF StreamShape
<1> QED BY <1>7, <1>8, <1>9, <1>10, <1>11, <1>12 DEF StreamInv

-----------------------------------------------------------------------------
\* The initial state.
LEMMA StreamInitInv == Init => StreamInv
<1> SUFFICES ASSUME Init PROVE StreamInv
  OBVIOUS
<1>1. /\ ts = <<>> /\ wanted = {} /\ cp = 1 /\ proc = NoProcess /\ stream = 0 /\ issued = <<>>
      /\ pending = [b \in {} |-> NoRange] /\ sent = [b \in {} |-> {}] /\ wire = {} /\ acks = {}
      /\ delivered = {} /\ recv = NotReceiving /\ orphans = {} /\ reader = [r \in Readers |-> Free]
  BY DEF Init
<1>2. Len(ts) = 0 /\ Len(issued) = 0 /\ ts \in Seq(Nat) /\ issued \in Seq([rc : PastRanges, done : BOOLEAN])
  BY <1>1, EmptySeq
<1>3. NoRange \in PastRanges
  BY <1>2 DEF NoRange, PastRanges
<1>4. StreamShape
  <2>1. /\ Free \in ReaderStates
        /\ NotReceiving \in [batch : SUBSET Batches, stage : {"none", "asked", "done"}, rc : PastRanges]
    BY <1>3 DEF Free, NotReceiving, ReaderStates
  <2>2. NoProcess \in [id : Nat, runs : BOOLEAN, next : Nat, last : Nat] /\ NoProcess.next = 0 /\ NoProcess.last = 0
    BY DEF NoProcess
  <2>3. reader \in [Readers -> ReaderStates]
    BY <1>1, <2>1
  <2>4. pending \in [DOMAIN pending -> PastRanges]
    BY <1>1
  <2> QED BY <1>1, <1>2, <2>1, <2>2, <2>3, <2>4 DEF StreamShape
<1>5. Chain /\ NoSkip /\ DoneTold
  BY <1>1, <1>2 DEF Chain, NoSkip, DoneTold, From
<1>6. AckedTold
  BY <1>1 DEF AckedTold, NotReceiving
<1>7. \A r \in Readers : ReaderSound(r)
  BY <1>1 DEF ReaderSound, Free, NoProcess
<1> QED BY <1>4, <1>5, <1>6, <1>7 DEF StreamInv

\* Where a session's read has ended before the next one's begins and no two lines share
\* a microsecond, no line is passed over: not by the checkpoint, and not between the
\* follow, the reader and the open ranges, whatever is acked out of order, pruned, lost,
\* confirmed late or cut short by a death.
THEOREM StreamKeepsLines == OneReader /\ ~Ties => (Spec => []StreamSound)
<1> SUFFICES ASSUME OneReader, ~Ties PROVE Spec => []StreamSound
  OBVIOUS
<1>1. StreamInv /\ [Next]_vars => StreamInv'
  <2> SUFFICES ASSUME StreamInv, [Next]_vars PROVE StreamInv'
    OBVIOUS
  <2>1. CASE UNCHANGED vars
    <3>1. UNCHANGED <<ts, wanted, cp, stream, issued, pending, channelVars, recv, orphans>>
      BY <2>1 DEF vars, tailerVars, channelVars, sessionVars
    <3>2. UNCHANGED <<proc, reader>>
      BY <2>1 DEF vars, tailerVars
    <3>3. Chain' /\ NoSkip' /\ DoneTold' /\ AckedTold' /\ From' = From
      BY <3>1, RangesStay
    <3>4. StreamShape'
      BY <3>1, <3>2, ShapeFacts, ShapeStays
    <3>5. \A r \in Readers : ReaderSound(r)'
      BY <3>1, <3>2, <3>3 DEF StreamInv, ReaderSound, Matched
    <3> QED BY <3>3, <3>4, <3>5 DEF StreamInv
  <2>2. CASE \E matches, tied \in BOOLEAN : WriteLine(matches, tied)
    BY <2>2, WriteStep
  <2>3. CASE Die \/ Crash
    BY <2>3, DeathStep
  <2>4. CASE \E r \in Readers : Read(r)
    BY <2>4, BeginStep, SpawnStep, DrainStep, IssueStep, SkipStep, ShipStep DEF Read
  <2>5. CASE Pop \/ Connect \/ Disconnect \/ \E r \in Readers : \E P \in SUBSET DOMAIN pending : Turn(r, P)
    BY <2>5, PruneStep
  <2>6. CASE \E b \in Batches : ControlPlaneReads(b) \/ HandleAck(b)
    BY <2>6, ReceiveStep
  <2>7. CASE Confirm \/ \E rc \in orphans : LateConfirm(rc)
    BY <2>7, ConfirmStep
  <2> QED BY <2>1, <2>2, <2>3, <2>4, <2>5, <2>6, <2>7 DEF Next
<1>2. StreamInv => StreamSound
  BY InvKeeps
<1> QED BY <1>1, <1>2, StreamInitInv, PTL DEF Spec

=============================================================================
