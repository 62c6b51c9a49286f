----------------------------- MODULE LogProofs -----------------------------
(***************************************************************************)
(* Proofs about the log groups: a file's lines (LogShipping) and the lines *)
(* of a group read by a command (PolledTail) are never passed by the       *)
(* checkpoint before the control plane has them.                           *)
(***************************************************************************)
EXTENDS LogShipping, PolledTail, WellFoundedInduction, FiniteSetTheorems, TLAPS

-----------------------------------------------------------------------------
(* Polled groups: the invariant.                                           *)

\* The shape of the state.
RecordKinds == [err : BOOLEAN, matches : BOOLEAN, cursor : BOOLEAN]
Tracks == [id : Nat, from : Nat, to : Nat]
Frames == [id : Nat, lines : SUBSET Nat, acked : BOOLEAN]
PollStates ==
    [pc : {"rest", "get", "seed", "seeded", "run", "check", "store", "done"},
     job : {"none", "collect", "confirm"}, live : BOOLEAN, id : Nat, from : Nat, to : Nat,
     lines : SUBSET Nat]

PolledShape ==
    /\ kind \in {"docker", "journald"} /\ records \in Seq(RecordKinds)
    /\ stored \in Nat /\ base \in Nat /\ polls \in Nat
    /\ tracked \subseteq Tracks /\ frames \subseteq Frames
    /\ poller \in [Pollers -> PollStates]

\* A record a checkpoint may not pass yet.
Owed(n) ==
    records[n].matches /\ base =< n /\ n \notin told \cup cut

\* A position nothing owed stands before.
Clear(p) == p =< Len(records) + 1 /\ \A n \in DOMAIN records : Owed(n) => p =< n

\* What is owed of the records read from one position to another is among lines.
Span(from, to, lines) ==
    to =< Len(records) + 1 /\ \A n \in DOMAIN records : Owed(n) /\ from =< n /\ n < to => n \in lines

\* A thread.
PollerSound(p) ==
    /\ p.pc # "seeded" => Clear(p.from)
    /\ p.pc \in {"get", "seed", "seeded"} => p.from = p.to /\ p.to =< Len(records) + 1
    /\ p.pc \in {"check", "store"} => Clear(p.to)
    /\ p.pc = "done" /\ p.job = "collect" => Span(p.from, p.to, p.lines)

\* A batch, and the frame that carries it.
BatchSound(b) ==
    /\ b.id =< polls /\ Clear(b.from)
    /\ \A f \in frames : f.id = b.id => Span(b.from, b.to, f.lines)

\* What was acked has been told.
FrameSound(f) == f.id =< polls /\ (f.acked => f.lines \subseteq told)

\* Nothing owed stands before the checkpoint, and no thread or batch can move it past
\* anything owed: the inductive invariant.
PolledInv ==
    /\ PolledShape
    /\ Clear(stored)
    /\ \A w \in Pollers : PollerSound(poller[w])
    /\ \A b \in tracked : BatchSound(b)
    /\ \A f \in frames : FrameSound(f)

-----------------------------------------------------------------------------
(* Lemmas.                                                                 *)

\* A finite set of numbers has a greatest one: what _last_ts() and _cursor_of() take.
LEMMA Greatest ==
    ASSUME NEW L \in Nat, NEW T \in SUBSET (1 .. L), T # {}
    PROVE  \E x \in T : \A y \in T : y =< x
<1> DEFINE R == OpToRel(<, Nat)
<1> DEFINE D == {L - n : n \in T}
<1>1. IsWellFoundedOn(R, Nat)
  BY NatLessThanWellFounded
<1>2. \A x, y \in Nat : x < y => <<x, y>> \in R
  BY DEF R, OpToRel
<1>3. D \subseteq Nat /\ D # {}
  <2>1. \A n \in T : n \in 1 .. L /\ L - n \in Nat
    OBVIOUS
  <2>2. PICK n \in T : TRUE
    OBVIOUS
  <2>3. L - n \in D
    BY <2>2
  <2> QED BY <2>1, <2>3
<1> HIDE DEF R
<1>4. \E d \in D : \A e \in D : <<e, d>> \notin R
  <2> HIDE DEF D
  <2> QED BY <1>1, <1>3, WFMin
<1>5. PICK d \in D : \A e \in D : <<e, d>> \notin R
  BY <1>4
<1>6. PICK x \in T : d = L - x
  BY <1>5
<1>7. ASSUME NEW y \in T
      PROVE  y =< x
  <2>1. L - y \in D /\ L - y \in Nat /\ L - x \in Nat
    BY <1>6
  <2>2. ~(L - y < L - x)
    BY <1>2, <1>5, <1>6, <2>1
  <2> QED BY <2>1, <2>2, <1>6
<1> QED BY <1>6, <1>7

\* _last_ts(): the end of a batch is a position of the log.
LEMMA LastTsBounded ==
    ASSUME PolledShape, NEW lines \in SUBSET (DOMAIN records), NEW from \in Nat,
           from =< Len(records) + 1
    PROVE  LastTs(lines, from) \in Nat /\ LastTs(lines, from) =< Len(records) + 1
<1>1. CASE lines = {}
  BY <1>1 DEF LastTs
<1>2. CASE lines # {}
  <2> DEFINE E == {n \in lines : records[n].err}
  <2>1. \A n \in lines : n \in 1 .. Len(records) /\ records[n] \in RecordKinds /\ records[n].err \in BOOLEAN
    <3>1. records \in Seq(RecordKinds) /\ DOMAIN records = 1 .. Len(records)
      BY DEF PolledShape
    <3>2. \A n \in lines : n \in 1 .. Len(records) /\ records[n] \in RecordKinds
      BY <3>1
    <3> QED BY <3>2 DEF RecordKinds
  <2>2. Len(records) \in Nat /\ lines \subseteq 1 .. Len(records) /\ E \subseteq 1 .. Len(records)
    BY <2>1 DEF PolledShape
  <2>3. \E n \in lines : \A m \in lines \ {n} : Printed(m, n)
    <3>1. CASE E = {}
      <4>1. PICK n \in lines : \A m \in lines : m =< n
        BY <1>2, <2>2, Greatest
      <4> QED BY <2>1, <3>1, <4>1 DEF Printed
    <3>2. CASE E # {}
      <4>1. PICK n \in E : \A m \in E : m =< n
        BY <2>2, <3>2, Greatest
      <4> QED BY <2>1, <4>1 DEF Printed
    <3> QED BY <3>1, <3>2
  <2>4. PICK n \in lines : LastTs(lines, from) = 1 + n
    BY <1>2, <2>3 DEF LastTs
  <2> QED BY <2>1, <2>4, <2>2
<1> QED BY <1>1, <1>2

\* _cursor_of(): the position stays, or is that of a record taken.
LEMMA CursorEndTaken ==
    ASSUME PolledShape, NEW lines \in SUBSET (DOMAIN records), NEW from
    PROVE  CursorEnd(lines, from) = from \/ \E n \in lines : CursorEnd(lines, from) = 1 + n
<1> DEFINE C == {n \in lines : records[n].cursor}
<1>1. Len(records) \in Nat /\ C \subseteq 1 .. Len(records)
  BY DEF PolledShape
<1>2. CASE C = {}
  BY <1>2 DEF CursorEnd
<1>3. CASE C # {}
  <2>1. \E n \in C : \A m \in C : m =< n
    BY <1>1, <1>3, Greatest
  <2>2. PICK n \in C : CursorEnd(lines, from) = 1 + n
    BY <1>3, <2>1 DEF CursorEnd
  <2> QED BY <2>2
<1> QED BY <1>2, <1>3

\* What no step undoes.
Grows ==
    /\ kind' = kind /\ records' \in Seq(RecordKinds) /\ Len(records) =< Len(records')
    /\ \A n \in DOMAIN records : records'[n] = records[n]
    /\ base' \in Nat /\ base =< base' /\ told \subseteq told' /\ cut \subseteq cut'
    /\ polls' \in Nat /\ polls =< polls'

LEMMA OwedStays ==
    ASSUME PolledShape, Grows
    PROVE  \A n \in DOMAIN records' : Owed(n)' => n > Len(records) \/ (n \in DOMAIN records /\ Owed(n))
  BY DEF PolledShape, Grows, Owed

LEMMA ClearStays ==
    ASSUME PolledShape, Grows, NEW p \in Nat, Clear(p)
    PROVE  Clear(p)'
<1>1. Len(records) \in Nat /\ Len(records') \in Nat /\ DOMAIN records' = 1 .. Len(records')
  BY DEF PolledShape, Grows
<1> QED BY <1>1, OwedStays DEF Grows, Clear

LEMMA SpanStays ==
    ASSUME PolledShape, Grows, NEW from \in Nat, NEW to \in Nat, NEW lines, Span(from, to, lines)
    PROVE  Span(from, to, lines)'
<1>1. Len(records) \in Nat /\ Len(records') \in Nat /\ DOMAIN records' = 1 .. Len(records')
  BY DEF PolledShape, Grows
<1> QED BY <1>1, OwedStays DEF Grows, Span

LEMMA PollerStays ==
    ASSUME PolledShape, Grows, NEW p \in PollStates, PollerSound(p)
    PROVE  PollerSound(p)'
<1>1. p.from \in Nat /\ p.to \in Nat
  BY DEF PollStates
<1>2. p.pc # "seeded" => Clear(p.from)'
  BY <1>1, ClearStays DEF PollerSound
<1>3. p.pc \in {"check", "store"} => Clear(p.to)'
  BY <1>1, ClearStays DEF PollerSound
<1>4. p.pc = "done" /\ p.job = "collect" => Span(p.from, p.to, p.lines)'
  BY <1>1, SpanStays DEF PollerSound
<1>5. p.pc \in {"get", "seed", "seeded"} => p.from = p.to /\ p.to =< Len(records') + 1
  <2>1. Len(records) \in Nat /\ Len(records') \in Nat
    BY DEF PolledShape, Grows
  <2> QED BY <1>1, <2>1 DEF PollerSound, Grows
<1> QED BY <1>2, <1>3, <1>4, <1>5 DEF PollerSound

\* A step that sends nothing: what is left to see to is the checkpoint and the threads
\* that moved.
LEMMA PolledStep ==
    ASSUME PolledInv, Grows, stored' \in Nat, Clear(stored)',
           tracked' \subseteq tracked, frames' \subseteq frames,
           poller' \in [Pollers -> PollStates],
           \A w \in Pollers : \/ poller'[w] = poller[w]
                              \/ \E r \in PollStates : poller'[w] = r /\ PollerSound(r)'
    PROVE  PolledInv'
<1>1. PolledShape'
  BY DEF PolledInv, PolledShape, Grows
<1>2. ASSUME NEW w \in Pollers
      PROVE  PollerSound(poller[w])'
  <2>1. PICK r \in PollStates : poller'[w] = r /\ PollerSound(r)'
    <3>1. poller[w] \in PollStates /\ PollerSound(poller[w])
      BY DEF PolledInv, PolledShape
    <3>2. PICK q \in PollStates : q = poller[w] /\ PollerSound(q)
      BY <3>1
    <3>3. PollerSound(q)'
      BY <3>2, PollerStays DEF PolledInv
    <3> QED BY <3>2, <3>3
  <2> QED BY <2>1
<1>3. ASSUME NEW b \in tracked'
      PROVE  BatchSound(b)'
  <2>1. b \in Tracks /\ b.id \in Nat /\ b.from \in Nat /\ b.to \in Nat /\ BatchSound(b)
    BY DEF PolledInv, PolledShape, Tracks
  <2>2. b.id =< polls'
    BY <2>1 DEF BatchSound, Grows, PolledInv, PolledShape
  <2>3. Clear(b.from)'
    BY <2>1, ClearStays DEF BatchSound, PolledInv
  <2>4. \A f \in frames' : f.id = b.id => Span(b.from, b.to, f.lines)'
    BY <2>1, SpanStays DEF BatchSound, PolledInv
  <2> QED BY <2>2, <2>3, <2>4 DEF BatchSound
<1>4. \A f \in frames' : FrameSound(f)'
  BY DEF FrameSound, PolledInv, Grows, PolledShape, Frames
<1> QED BY <1>1, <1>2, <1>3, <1>4 DEF PolledInv

LEMMA PollerMoves ==
    ASSUME PolledInv, Grows, stored' \in Nat, Clear(stored)',
           tracked' \subseteq tracked, frames' \subseteq frames,
           NEW w \in Pollers, NEW r \in PollStates, PollerSound(r)',
           poller' = [poller EXCEPT ![w] = r]
    PROVE  PolledInv'
<1>1. poller' \in [Pollers -> PollStates] /\ \A v \in Pollers : poller'[v] = IF v = w THEN r ELSE poller[v]
  BY DEF PolledInv, PolledShape
<1> QED BY <1>1, PolledStep

\* A step of one thread that moves nothing but itself.
LEMMA QuietMove ==
    ASSUME PolledInv, UNCHANGED <<kind, records, stored, base, told, cut, polls>>,
           tracked' \subseteq tracked, frames' \subseteq frames,
           NEW w \in Pollers, NEW r \in PollStates, PollerSound(r),
           poller' = [poller EXCEPT ![w] = r]
    PROVE  PolledInv'
<1>1. Grows
  BY DEF PolledInv, PolledShape, Grows
<1>2. Clear(stored)' /\ stored' \in Nat
  <2>1. PICK p \in Nat : p = stored /\ Clear(p) /\ stored' = p
    BY DEF PolledInv, PolledShape
  <2>2. Clear(p)'
    BY <1>1, <2>1, ClearStays DEF PolledInv
  <2> QED BY <2>1, <2>2
<1>3. PollerSound(r)'
  BY <1>1, PollerStays DEF PolledInv
<1> QED BY <1>1, <1>2, <1>3, PollerMoves

LEMMA PollerFacts ==
    ASSUME PolledInv, NEW w \in Pollers
    PROVE  /\ poller[w] \in PollStates /\ PollerSound(poller[w])
           /\ poller[w].from \in Nat /\ poller[w].to \in Nat /\ poller[w].lines \in SUBSET Nat
           /\ Len(records) \in Nat /\ DOMAIN records = 1 .. Len(records)
           /\ stored \in Nat /\ base \in Nat /\ polls \in Nat
  BY DEF PolledInv, PolledShape, PollStates

\* A thread at rest, and one that starts, know nothing yet.
LEMMA RestingSound ==
    ASSUME PolledInv
    PROVE  /\ Resting \in PollStates /\ PollerSound(Resting)
           /\ \A p \in PollStates : p.from = 0 /\ p.to = 0 /\ p.lines = {} /\ p.pc \in {"get", "done"} => PollerSound(p)
<1>1. Len(records) \in Nat /\ DOMAIN records = 1 .. Len(records)
  BY DEF PolledInv, PolledShape
<1>2. Clear(0) /\ Span(0, 0, {})
  BY <1>1 DEF Clear, Span
<1>3. Resting \in PollStates
  BY DEF Resting, PollStates
<1>4. PollerSound(Resting)
  BY <1>2 DEF Resting, PollerSound
<1>5. ASSUME NEW p \in PollStates, p.from = 0, p.to = 0, p.lines = {}, p.pc \in {"get", "done"}
      PROVE  PollerSound(p)
  BY <1>1, <1>2, <1>5 DEF PollerSound
<1> QED BY <1>3, <1>4, <1>5

-----------------------------------------------------------------------------
(* One lemma per step of a thread.                                         *)

LEMMA GetPositionStep ==
    ASSUME PolledInv, NEW w \in Pollers, GetPosition(w)
    PROVE  PolledInv'
<1>1. poller[w] \in PollStates /\ PollerSound(poller[w]) /\ poller[w].pc = "get" /\ stored \in Nat
  BY PollerFacts DEF GetPosition
<1>2. PICK p \in Nat : p = stored /\ Clear(p)
  BY <1>1 DEF PolledInv
<1>3. PICK r \in PollStates :
         /\ poller' = [poller EXCEPT ![w] = r]
         /\ \/ r.pc = "seed" /\ r.from = poller[w].from /\ r.to = poller[w].to
            \/ r.pc = "run" /\ r.from = p /\ r.to = p
  <2>1. CASE stored = 0
    <3>1. [poller[w] EXCEPT !.pc = "seed"] \in PollStates
      BY <1>1 DEF PollStates
    <3> QED BY <1>1, <2>1, <3>1 DEF GetPosition, Set, PollStates
  <2>2. CASE stored # 0
    <3>1. [poller[w] EXCEPT !.pc = "run", !.from = p, !.to = p] \in PollStates
      BY <1>1 DEF PollStates
    <3> QED BY <1>1, <1>2, <2>2, <3>1 DEF GetPosition, Set, PollStates
  <2> QED BY <2>1, <2>2
<1>4. PollerSound(r)
  BY <1>1, <1>2, <1>3 DEF PollerSound
<1> QED BY <1>3, <1>4, QuietMove DEF GetPosition, still

LEMMA SeedStep ==
    ASSUME PolledInv, NEW w \in Pollers, Seed(w)
    PROVE  PolledInv'
<1>1. poller[w] \in PollStates /\ PollerSound(poller[w]) /\ poller[w].pc = "seed" /\ Len(records) \in Nat
  BY PollerFacts DEF Seed
<1>2. PICK p \in Nat : p = Len(records) + 1
  BY <1>1
<1>3. PICK r \in PollStates :
         /\ poller' = [poller EXCEPT ![w] = r]
         /\ \/ r.pc = "done" /\ r.from = poller[w].from /\ r.to = poller[w].to
            \/ r.pc = "seeded" /\ r.from = p /\ r.to = p
  <2>1. [poller[w] EXCEPT !.pc = "done"] \in PollStates
    BY <1>1 DEF PollStates
  <2>2. [poller[w] EXCEPT !.pc = "seeded", !.from = p, !.to = p] \in PollStates
    BY <1>1 DEF PollStates
  <2>3. CASE Set(w, [poller[w] EXCEPT !.pc = "done"])
    BY <1>1, <2>1, <2>3 DEF Set, PollStates
  <2>4. CASE Set(w, [poller[w] EXCEPT !.pc = "seeded", !.from = p, !.to = p])
    BY <1>1, <2>2, <2>4 DEF Set, PollStates
  <2> QED BY <1>2, <2>3, <2>4 DEF Seed
<1>4. \A q \in Nat : \A lines : q =< Len(records) + 1 => Span(q, q, lines)
  BY <1>1 DEF Span, PolledInv, PolledShape
<1>5. PollerSound(r)
  BY <1>1, <1>2, <1>3, <1>4 DEF PollerSound, PollStates
<1> QED BY <1>3, <1>5, QuietMove DEF Seed, still

\* The seed is stored: what came before it is not owed.
LEMMA StoreSeedStep ==
    ASSUME PolledInv, NEW w \in Pollers, StoreSeed(w)
    PROVE  PolledInv'
<1>1. /\ poller[w] \in PollStates /\ PollerSound(poller[w]) /\ poller[w].pc = "seeded"
      /\ Len(records) \in Nat /\ DOMAIN records = 1 .. Len(records) /\ base \in Nat
  BY PollerFacts DEF StoreSeed
<1>2. PICK p \in Nat : p = poller[w].to /\ p = poller[w].from /\ p =< Len(records) + 1
  BY <1>1 DEF PollerSound, PollStates
<1>3. /\ stored' = p /\ base' \in Nat /\ base =< base' /\ p =< base'
      /\ UNCHANGED <<kind, records, polls, tracked, frames, told, cut>>
  BY <1>1, <1>2 DEF StoreSeed, still
<1>4. PICK r \in PollStates :
         /\ poller' = [poller EXCEPT ![w] = r]
         /\ r.pc \in {"run", "done"} /\ r.from = p /\ r.to = p
  <2>1. PICK c \in {"run", "done"} : c = IF kind = "docker" THEN "run" ELSE "done"
    OBVIOUS
  <2>2. [poller[w] EXCEPT !.pc = c] \in PollStates
    BY <1>1 DEF PollStates
  <2>3. poller' = [poller EXCEPT ![w] = [poller[w] EXCEPT !.pc = c]]
    BY <2>1 DEF StoreSeed, Set
  <2> QED BY <1>1, <1>2, <2>2, <2>3 DEF PollStates
<1>5. Clear(p)' /\ \A lines : Span(p, p, lines)'
  BY <1>1, <1>2, <1>3 DEF Clear, Span, Owed
<1>6. Grows
  BY <1>3 DEF Grows, PolledInv, PolledShape
<1>7. PollerSound(r)'
  BY <1>4, <1>5 DEF PollerSound
<1>8. Clear(stored)'
  BY <1>3, <1>5
<1> QED BY <1>3, <1>4, <1>6, <1>7, <1>8, PollerMoves

\* confirm_shipped() compares, and stores.
LEMMA ConfirmStep ==
    ASSUME PolledInv, NEW w \in Pollers, ConfirmShipped(w)
    PROVE  PolledInv'
<1>1. /\ poller[w] \in PollStates /\ PollerSound(poller[w]) /\ poller[w].pc = "check"
      /\ Len(records) \in Nat /\ DOMAIN records = 1 .. Len(records)
      /\ poller[w].from \in Nat /\ poller[w].to \in Nat
  BY PollerFacts DEF ConfirmShipped
<1>2. PICK c \in {"store", "done"} : poller' = [poller EXCEPT ![w] = [poller[w] EXCEPT !.pc = c]]
  BY DEF ConfirmShipped, Set
<1>3. PICK r \in PollStates :
         /\ poller' = [poller EXCEPT ![w] = r] /\ r.pc = c
         /\ r.from = poller[w].from /\ r.to = poller[w].to /\ r.lines = poller[w].lines
  <2>1. [poller[w] EXCEPT !.pc = c] \in PollStates
    BY <1>1, <1>2 DEF PollStates
  <2> QED BY <1>1, <1>2, <2>1 DEF PollStates
<1>4. Clear(r.from) /\ Clear(r.to)
  BY <1>1, <1>3 DEF PollerSound
<1>5. Span(r.from, r.to, r.lines)
  BY <1>1, <1>3, <1>4 DEF Span, Clear
<1>6. PollerSound(r)
  BY <1>2, <1>3, <1>4, <1>5 DEF PollerSound
<1> QED BY <1>3, <1>6, QuietMove DEF ConfirmShipped, still

LEMMA SetPositionStep ==
    ASSUME PolledInv, NEW w \in Pollers, SetPosition(w)
    PROVE  PolledInv'
<1>1. /\ poller[w] \in PollStates /\ PollerSound(poller[w]) /\ poller[w].pc = "store"
      /\ Len(records) \in Nat /\ DOMAIN records = 1 .. Len(records)
      /\ poller[w].from \in Nat /\ poller[w].to \in Nat
  BY PollerFacts DEF SetPosition
<1>2. PICK r \in PollStates :
         /\ poller' = [poller EXCEPT ![w] = r] /\ r.pc = "done"
         /\ r.from = poller[w].from /\ r.to = poller[w].to /\ r.lines = poller[w].lines
  <2>1. [poller[w] EXCEPT !.pc = "done"] \in PollStates
    BY <1>1 DEF PollStates
  <2> QED BY <1>1, <2>1 DEF PollStates, SetPosition, Set
<1>3. Clear(r.from) /\ Clear(r.to)
  BY <1>1, <1>2 DEF PollerSound
<1>4. Span(r.from, r.to, r.lines)
  BY <1>1, <1>2, <1>3 DEF Span, Clear
<1>5. PollerSound(r)
  BY <1>2, <1>3, <1>4 DEF PollerSound
<1>6. Grows
  BY DEF Grows, SetPosition, still, PolledInv, PolledShape
<1>7. PollerSound(r)' /\ Clear(r.to)' /\ r.to \in Nat
  BY <1>1, <1>2, <1>3, <1>5, <1>6, PollerStays, ClearStays DEF PolledInv
<1>8. stored' = r.to
  BY <1>2 DEF SetPosition
<1>9. stored' \in Nat /\ Clear(stored)'
  <2>1. PICK p \in Nat : p = r.to /\ Clear(p)'
    BY <1>7
  <2> QED BY <1>8, <2>1
<1> QED BY <1>2, <1>6, <1>7, <1>9, PollerMoves DEF SetPosition

\* What a read leaves, whichever command it ran: the thread goes on with a range whose
\* owed records are all among its lines.
LEMMA CollectedStep ==
    ASSUME PolledInv, NEW w \in Pollers, poller[w].pc = "run",
           NEW from \in Nat, from = poller[w].from,
           NEW lines \in SUBSET (DOMAIN records), NEW to \in Nat,
           Grows, records' = records, UNCHANGED <<stored, tracked, frames>>,
           Span(from, to, lines)', Collected(w, lines, to)
    PROVE  PolledInv'
<1>1. /\ poller[w] \in PollStates /\ PollerSound(poller[w]) /\ poller[w].from \in Nat
      /\ Len(records) \in Nat /\ DOMAIN records = 1 .. Len(records)
  BY PollerFacts
<1>2. Clear(from)
  BY <1>1 DEF PollerSound
<1>3. PICK c \in {"check", "done"} :
         /\ c = IF lines # {} /\ Matching(lines) = {} THEN "check" ELSE "done"
         /\ c = "check" => Matching(lines) = {}
  OBVIOUS
<1>4. PICK r \in PollStates :
         /\ poller' = [poller EXCEPT ![w] = r] /\ r.pc = c
         /\ r.from = from /\ r.to = to /\ r.lines = lines
  <2>1. PICK l \in SUBSET Nat : l = lines
    BY <1>1
  <2>2. [poller[w] EXCEPT !.lines = l, !.to = to, !.pc = c] \in PollStates
    BY <1>1, <1>3 DEF PollStates
  <2>3. poller' = [poller EXCEPT ![w] = [poller[w] EXCEPT !.lines = l, !.to = to, !.pc = c]]
    BY <1>3, <2>1 DEF Collected, Set
  <2> QED BY <1>1, <1>2, <2>1, <2>2, <2>3 DEF PollStates
<1>5. Clear(from)'
  BY <1>2, ClearStays DEF PolledInv
<1>6. c = "check" => Clear(to)'
  BY <1>1, <1>2, <1>3, <1>5 DEF Clear, Span, Matching, Owed
<1>7. PollerSound(r)'
  BY <1>2, <1>3, <1>4, <1>5, <1>6 DEF PollerSound
<1>8. stored' \in Nat /\ Clear(stored)'
  <2>1. PICK p \in Nat : p = stored /\ Clear(p) /\ stored' = p
    BY DEF PolledInv, PolledShape
  <2>2. Clear(p)'
    BY <2>1, ClearStays DEF PolledInv
  <2> QED BY <2>1, <2>2
<1> QED BY <1>4, <1>7, <1>8, PollerMoves

\* docker logs: what the cap left behind the batch's end is on record as cut.
LEMMA RunLogsStep ==
    ASSUME PolledInv, NEW w \in Pollers, RunLogs(w)
    PROVE  PolledInv'
<1>1. /\ poller[w] \in PollStates /\ PollerSound(poller[w]) /\ poller[w].pc = "run"
      /\ Len(records) \in Nat /\ DOMAIN records = 1 .. Len(records)
  BY PollerFacts DEF RunLogs
<1>2. PICK from \in Nat : from = poller[w].from /\ from =< Len(records) + 1
  BY <1>1 DEF PollerSound, PollStates, Clear
<1>3. PICK lines \in {{}, Capped(Since(from))} :
         /\ Collected(w, lines, BatchEnd(lines, from))
         /\ cut' = IF lines = {} THEN cut
                   ELSE cut \cup LeftBehind(lines, from, LastTs(lines, from))
  BY <1>2 DEF RunLogs
<1>4. lines \in SUBSET (DOMAIN records)
  BY DEF Capped, Since
<1>5. PICK to \in Nat : to = BatchEnd(lines, from) /\ to =< Len(records) + 1 /\ (lines = {} => to = from)
  <2>1. LastTs(lines, from) \in Nat /\ LastTs(lines, from) =< Len(records) + 1
    BY <1>2, <1>4, LastTsBounded DEF PolledInv
  <2>2. lines = {} => LastTs(lines, from) = from
    BY DEF LastTs
  <2> QED BY <2>1, <2>2 DEF BatchEnd
<1>6. UNCHANGED <<kind, records, polls, stored, base, tracked, frames, told>> /\ cut \subseteq cut'
  BY <1>3 DEF RunLogs, still
<1>7. Grows
  BY <1>6 DEF Grows, PolledInv, PolledShape
<1>8. \A n \in DOMAIN records : from =< n /\ n < to => n \in lines \cup cut'
  BY <1>1, <1>3, <1>5 DEF LeftBehind, Since, BatchEnd
<1>9. Span(from, to, lines)'
  BY <1>1, <1>5, <1>6, <1>8 DEF Span, Owed
<1>10. Collected(w, lines, to)
  BY <1>3, <1>5
<1> QED BY <1>1, <1>2, <1>4, <1>6, <1>7, <1>9, <1>10, CollectedStep

\* journalctl: the records up to the last cursor taken are all among the lines.
LEMMA RecordsStep ==
    ASSUME PolledInv, NEW w \in Pollers, Records(w)
    PROVE  PolledInv'
<1>1. /\ poller[w] \in PollStates /\ PollerSound(poller[w]) /\ poller[w].pc = "run"
      /\ Len(records) \in Nat /\ DOMAIN records = 1 .. Len(records)
  BY PollerFacts DEF Records
<1>2. PICK from \in Nat : from = poller[w].from /\ from =< Len(records) + 1
  BY <1>1 DEF PollerSound, PollStates, Clear
<1>3. PICK k \in 0 .. PollCap :
         LET lines == {m \in Since(from) : m < from + k}
         IN  Collected(w, lines, CursorEnd(lines, from))
  BY <1>2 DEF Records
<1>4. PICK lines \in SUBSET (DOMAIN records) : lines = {m \in Since(from) : m < from + k}
  BY DEF Since
<1>5. k \in Nat
  BY <1>3, PolledAssumption
<1>6. PICK to \in Nat :
         /\ to = CursorEnd(lines, from) /\ to =< Len(records) + 1
         /\ to = from \/ \E n \in lines : to = 1 + n
  <2>1. CursorEnd(lines, from) = from \/ \E n \in lines : CursorEnd(lines, from) = 1 + n
    BY <1>4, CursorEndTaken DEF PolledInv
  <2> QED BY <1>1, <1>2, <2>1
<1>7. UNCHANGED <<kind, records, polls, stored, base, tracked, frames, told, cut>>
  BY DEF Records, still
<1>8. Grows
  BY <1>7 DEF Grows, PolledInv, PolledShape
<1>9. \A n \in DOMAIN records : from =< n /\ n < to => n \in lines
  BY <1>1, <1>4, <1>5, <1>6 DEF Since
<1>10. Span(from, to, lines)'
  BY <1>1, <1>6, <1>7, <1>9 DEF Span
<1>11. Collected(w, lines, to)
  BY <1>3, <1>4, <1>6
<1> QED BY <1>1, <1>2, <1>7, <1>8, <1>10, <1>11, CollectedStep

\* A turn of the loop starts a read.
LEMMA PollTurnStep ==
    ASSUME PolledInv, NEW w \in Pollers, NEW P, PollTurn(w, P)
    PROVE  PolledInv'
<1>1. UNCHANGED <<kind, records, stored, base, told, cut, polls, frames>> /\ tracked' \subseteq tracked
  BY DEF PollTurn, still
<1>2. PICK r \in PollStates : poller' = [poller EXCEPT ![w] = r] /\ PollerSound(r)
  <2>1. CASE tracked' = {}
    <3>1. PICK r \in PollStates :
             /\ r = [Resting EXCEPT !.pc = "get", !.job = "collect", !.live = TRUE]
             /\ r.from = 0 /\ r.to = 0 /\ r.lines = {} /\ r.pc = "get"
      <4>1. [Resting EXCEPT !.pc = "get", !.job = "collect", !.live = TRUE] \in PollStates
        BY DEF Resting, PollStates
      <4> QED BY <4>1 DEF Resting
    <3>2. poller' = [poller EXCEPT ![w] = r]
      BY <2>1, <3>1 DEF PollTurn, Set
    <3>3. PollerSound(r)
      BY <3>1, RestingSound
    <3> QED BY <3>2, <3>3
  <2>2. CASE tracked' # {}
    <3>1. poller' = poller
      BY <2>2 DEF PollTurn
    <3>2. poller' = [poller EXCEPT ![w] = poller[w]]
      BY <3>1 DEF PolledInv, PolledShape
    <3> QED BY <3>2, PollerFacts
  <2> QED BY <2>1, <2>2
<1> QED BY <1>1, <1>2, QuietMove

\* An ack: every line of the batch that was owed has been told.
LEMMA AckPolledStep ==
    ASSUME PolledInv, NEW w \in Pollers, NEW f \in frames, AckPolled(f, w)
    PROVE  PolledInv'
<1>1. UNCHANGED <<kind, records, stored, base, told, cut, polls, tracked>> /\ frames' \subseteq frames
  BY DEF AckPolled, still
<1>2. PICK r \in PollStates : poller' = [poller EXCEPT ![w] = r] /\ PollerSound(r)
  <2>1. CASE \E b \in tracked : b.id = f.id
    <3>1. PICK b \in tracked :
             /\ b.id = f.id
             /\ poller' = [poller EXCEPT ![w] =
                    [Resting EXCEPT !.pc = "check", !.job = "confirm", !.live = TRUE,
                                    !.id = b.id, !.from = b.from, !.to = b.to]]
      BY <2>1 DEF AckPolled, Set
    <3>2. b \in Tracks /\ b.id \in Nat /\ b.from \in Nat /\ b.to \in Nat /\ BatchSound(b)
      BY DEF PolledInv, PolledShape, Tracks
    <3>3. PICK r \in PollStates :
             /\ r = [Resting EXCEPT !.pc = "check", !.job = "confirm", !.live = TRUE,
                                    !.id = b.id, !.from = b.from, !.to = b.to]
             /\ r.pc = "check" /\ r.from = b.from /\ r.to = b.to
      <4>1. [Resting EXCEPT !.pc = "check", !.job = "confirm", !.live = TRUE,
                            !.id = b.id, !.from = b.from, !.to = b.to] \in PollStates
        BY <3>2 DEF Resting, PollStates
      <4> QED BY <4>1 DEF Resting
    <3>4. Clear(b.from) /\ Span(b.from, b.to, f.lines) /\ f.lines \subseteq told
      BY <3>1, <3>2 DEF BatchSound, PolledInv, FrameSound, AckPolled
    <3>5. Clear(b.to)
      <4>1. DOMAIN records = 1 .. Len(records) /\ Len(records) \in Nat
        BY DEF PolledInv, PolledShape
      <4> QED BY <3>2, <3>4, <4>1 DEF Clear, Span, Owed
    <3>6. PollerSound(r)
      BY <3>3, <3>4, <3>5 DEF PollerSound
    <3> QED BY <3>1, <3>3, <3>6
  <2>2. CASE ~\E b \in tracked : b.id = f.id
    <3>1. poller' = poller
      BY <2>2 DEF AckPolled
    <3>2. poller' = [poller EXCEPT ![w] = poller[w]]
      BY <3>1 DEF PolledInv, PolledShape
    <3> QED BY <3>2, PollerFacts
  <2> QED BY <2>1, <2>2
<1> QED BY <1>1, <1>2, QuietMove

LEMMA RestStep ==
    ASSUME PolledInv, NEW w \in Pollers, AckEnds(w) \/ PollerEnds(w)
    PROVE  PolledInv'
<1>1. UNCHANGED <<kind, records, stored, base, told, cut, polls, frames>> /\ tracked' \subseteq tracked
  BY DEF AckEnds, PollerEnds, still
<1>2. poller' = [poller EXCEPT ![w] = Resting]
  BY DEF AckEnds, PollerEnds, Set
<1>3. Resting \in PollStates /\ PollerSound(Resting)
  BY RestingSound
<1> QED BY <1>1, <1>2, <1>3, QuietMove

\* A batch leaves under an id that nothing bears yet, with its frame.
LEMMA ShipPolledStep ==
    ASSUME PolledInv, NEW w \in Pollers, ShipPolled(w)
    PROVE  PolledInv'
<1>1. /\ poller[w] \in PollStates /\ PollerSound(poller[w])
      /\ poller[w].from \in Nat /\ poller[w].to \in Nat /\ poller[w].lines \in SUBSET Nat
      /\ Len(records) \in Nat /\ DOMAIN records = 1 .. Len(records)
      /\ polls \in Nat
  BY PollerFacts
<1>2. /\ UNCHANGED <<kind, records, link, links, stored, base, told, cut>>
      /\ poller' = [poller EXCEPT ![w] = Resting]
  BY DEF ShipPolled, Set
<1>3. Resting \in PollStates /\ PollerSound(Resting)
  BY RestingSound
<1>4. CASE Matching(poller[w].lines) = {}
  <2>1. UNCHANGED <<tracked, frames, polls>>
    BY <1>4 DEF ShipPolled
  <2> QED BY <1>2, <1>3, <2>1, QuietMove
<1>5. CASE Matching(poller[w].lines) # {}
  <2>1. PICK b \in Tracks, f \in Frames :
           /\ b = [id |-> polls + 1, from |-> poller[w].from, to |-> poller[w].to]
           /\ f = [id |-> polls + 1, lines |-> Matching(poller[w].lines), acked |-> FALSE]
           /\ b.id = polls + 1 /\ b.from = poller[w].from /\ b.to = poller[w].to
           /\ f.id = polls + 1 /\ f.lines = Matching(poller[w].lines) /\ ~f.acked
    <3>1. Matching(poller[w].lines) \in SUBSET Nat
      BY <1>1 DEF Matching
    <3>2. [id |-> polls + 1, from |-> poller[w].from, to |-> poller[w].to] \in Tracks
      BY <1>1 DEF Tracks
    <3>3. [id |-> polls + 1, lines |-> Matching(poller[w].lines), acked |-> FALSE] \in Frames
      BY <1>1, <3>1 DEF Frames
    <3> QED BY <3>2, <3>3
  <2>2. polls' = polls + 1 /\ tracked' = tracked \cup {b} /\ frames' = frames \cup {f}
    BY <1>5, <2>1 DEF ShipPolled
  <2>3. Grows
    BY <1>1, <1>2, <2>2 DEF Grows, PolledInv, PolledShape
  <2>4. Clear(poller[w].from) /\ Span(poller[w].from, poller[w].to, poller[w].lines)
    BY DEF ShipPolled, PolledInv, PollerSound
  <2>5. Clear(b.from) /\ Span(b.from, b.to, f.lines)
    BY <1>1, <2>1, <2>4 DEF Span, Matching, Owed
  <2>6. Clear(b.from)' /\ Span(b.from, b.to, f.lines)'
    BY <2>3, <2>5, ClearStays, SpanStays DEF PolledInv, Tracks
  <2>7. PolledShape'
    <3>1. poller' \in [Pollers -> PollStates]
      BY <1>2, <1>3 DEF PolledInv, PolledShape
    <3>2. polls' \in Nat /\ tracked \subseteq Tracks /\ frames \subseteq Frames
      BY <1>1, <2>2 DEF PolledInv, PolledShape
    <3>3. tracked' \subseteq Tracks /\ frames' \subseteq Frames
      BY <2>2, <3>2
    <3> QED BY <1>2, <3>1, <3>2, <3>3 DEF PolledInv, PolledShape
  <2>8. Clear(stored)'
    <3>1. PICK p \in Nat : p = stored /\ Clear(p) /\ stored' = p
      BY <1>2 DEF PolledInv, PolledShape
    <3>2. Clear(p)'
      BY <2>3, <3>1, ClearStays DEF PolledInv
    <3> QED BY <3>1, <3>2
  <2>9. ASSUME NEW v \in Pollers
        PROVE  PollerSound(poller[v])'
    <3>1. PICK q \in PollStates : poller'[v] = q /\ PollerSound(q)
      BY <1>2, <1>3 DEF PolledInv, PolledShape
    <3>2. PollerSound(q)'
      BY <2>3, <3>1, PollerStays DEF PolledInv
    <3> QED BY <3>1, <3>2
  <2>10. ASSUME NEW c \in tracked'
         PROVE  BatchSound(c)'
    <3>1. CASE c \in tracked
      <4>1. c \in Tracks /\ c.id \in Nat /\ c.from \in Nat /\ c.to \in Nat /\ BatchSound(c)
        BY <3>1 DEF PolledInv, PolledShape, Tracks
      <4>2. c.id =< polls' /\ c.id # f.id
        BY <1>1, <2>1, <2>2, <4>1 DEF BatchSound
      <4>3. Clear(c.from)'
        BY <2>3, <4>1, ClearStays DEF BatchSound, PolledInv
      <4>4. \A g \in frames' : g.id = c.id => Span(c.from, c.to, g.lines)'
        BY <2>2, <2>3, <4>1, <4>2, SpanStays DEF BatchSound, PolledInv
      <4> QED BY <4>2, <4>3, <4>4 DEF BatchSound
    <3>2. CASE c = b
      <4>1. \A g \in frames : g.id =< polls /\ g.id \in Nat
        BY DEF PolledInv, PolledShape, Frames, FrameSound
      <4>2. \A g \in frames' : g.id = c.id => g = f
        BY <1>1, <2>1, <2>2, <3>2, <4>1
      <4> QED BY <1>1, <2>1, <2>2, <2>6, <3>2, <4>2 DEF BatchSound
    <3> QED BY <2>2, <3>1, <3>2
  <2>11. \A g \in frames' : FrameSound(g)'
    BY <1>1, <1>2, <2>1, <2>2 DEF FrameSound, PolledInv, PolledShape, Frames
  <2> QED BY <2>7, <2>8, <2>9, <2>10, <2>11 DEF PolledInv
<1> QED BY <1>4, <1>5

-----------------------------------------------------------------------------
(* The control plane, the source and the sessions.                         *)

LEMMA CpReadsStep ==
    ASSUME PolledInv, NEW f \in frames, CpReads(f)
    PROVE  PolledInv'
<1>1. /\ UNCHANGED <<kind, records, polls, stored, base, tracked, poller, cut>>
      /\ told' = told \cup f.lines /\ frames' = (frames \ {f}) \cup {[f EXCEPT !.acked = TRUE]}
  BY DEF CpReads, still
<1>2. f \in Frames /\ f.id \in Nat
  BY DEF PolledInv, PolledShape, Frames
<1>3. PICK g \in Frames : g = [f EXCEPT !.acked = TRUE] /\ g.id = f.id /\ g.lines = f.lines
  <2>1. [f EXCEPT !.acked = TRUE] \in Frames
    BY <1>2 DEF Frames
  <2> QED BY <1>2, <2>1 DEF Frames
<1>4. Grows
  BY <1>1 DEF Grows, PolledInv, PolledShape
<1>5. PolledShape'
  BY <1>1, <1>3 DEF PolledInv, PolledShape
<1>6. Clear(stored)'
  <2>1. PICK p \in Nat : p = stored /\ Clear(p) /\ stored' = p
    BY <1>1 DEF PolledInv, PolledShape
  <2>2. Clear(p)'
    BY <1>4, <2>1, ClearStays DEF PolledInv
  <2> QED BY <2>1, <2>2
<1>7. ASSUME NEW v \in Pollers
      PROVE  PollerSound(poller[v])'
  <2>1. PICK q \in PollStates : poller'[v] = q /\ PollerSound(q)
    BY <1>1 DEF PolledInv, PolledShape
  <2>2. PollerSound(q)'
    BY <1>4, <2>1, PollerStays DEF PolledInv
  <2> QED BY <2>1, <2>2
<1>8. ASSUME NEW b \in tracked'
      PROVE  BatchSound(b)'
  <2>1. b \in tracked /\ b.id \in Nat /\ b.from \in Nat /\ b.to \in Nat /\ BatchSound(b)
    BY <1>1 DEF PolledInv, PolledShape, Tracks
  <2>2. \A h \in frames : h.id = b.id => Span(b.from, b.to, h.lines)'
    BY <1>4, <2>1, SpanStays DEF BatchSound, PolledInv
  <2>3. Clear(b.from)' /\ b.id =< polls'
    BY <1>1, <1>4, <2>1, ClearStays DEF BatchSound, PolledInv
  <2> QED BY <1>1, <1>3, <2>2, <2>3 DEF BatchSound
<1>9. \A h \in frames' : FrameSound(h)'
  BY <1>1, <1>3 DEF FrameSound, PolledInv
<1> QED BY <1>5, <1>6, <1>7, <1>8, <1>9 DEF PolledInv

\* A new record is past every position.
LEMMA EmitStep ==
    ASSUME PolledInv, NEW r \in RecordKinds, Emit(r)
    PROVE  PolledInv'
<1>1. Grows
  BY DEF Grows, Emit, PolledInv, PolledShape
<1>2. UNCHANGED <<stored, tracked, frames, poller>>
  BY DEF Emit
<1>3. stored' \in Nat /\ Clear(stored)'
  <2>1. PICK p \in Nat : p = stored /\ Clear(p) /\ stored' = p
    BY <1>2 DEF PolledInv, PolledShape
  <2>2. Clear(p)'
    BY <1>1, <2>1, ClearStays DEF PolledInv
  <2> QED BY <2>1, <2>2
<1>4. poller' \in [Pollers -> PollStates]
  BY <1>2 DEF PolledInv, PolledShape
<1> QED BY <1>1, <1>2, <1>3, <1>4, PolledStep

LEMMA SessionStep ==
    ASSUME PolledInv, LinkUp \/ LinkDown \/ Killed \/ UNCHANGED polledVars
    PROVE  PolledInv'
<1>1. /\ UNCHANGED <<kind, records, polls, stored, base, told, cut>>
      /\ tracked' \subseteq tracked /\ frames' \subseteq frames
  BY DEF LinkUp, LinkDown, Killed, polledVars
<1>2. Grows
  BY <1>1 DEF Grows, PolledInv, PolledShape
<1>3. stored' \in Nat /\ Clear(stored)'
  <2>1. PICK p \in Nat : p = stored /\ Clear(p) /\ stored' = p
    BY <1>1 DEF PolledInv, PolledShape
  <2>2. Clear(p)'
    BY <1>2, <2>1, ClearStays DEF PolledInv
  <2> QED BY <2>1, <2>2
<1>4. CASE poller' = poller
  <2>1. poller' \in [Pollers -> PollStates]
    BY <1>4 DEF PolledInv, PolledShape
  <2> QED BY <1>1, <1>2, <1>3, <1>4, <2>1, PolledStep
<1>5. CASE poller' = [w \in Pollers |-> [poller[w] EXCEPT !.live = FALSE]]
  <2>1. ASSUME NEW w \in Pollers
        PROVE  \E r \in PollStates : poller'[w] = r /\ PollerSound(r)'
    <3>1. poller[w] \in PollStates /\ PollerSound(poller[w])
      BY PollerFacts
    <3>2. PICK r \in PollStates :
             /\ r = [poller[w] EXCEPT !.live = FALSE] /\ r.pc = poller[w].pc /\ r.job = poller[w].job
             /\ r.from = poller[w].from /\ r.to = poller[w].to /\ r.lines = poller[w].lines
      <4>1. [poller[w] EXCEPT !.live = FALSE] \in PollStates
        BY <3>1 DEF PollStates
      <4> QED BY <3>1, <4>1 DEF PollStates
    <3>3. PollerSound(r)
      BY <3>1, <3>2 DEF PollerSound
    <3>4. PollerSound(r)'
      BY <1>2, <3>3, PollerStays DEF PolledInv
    <3> QED BY <1>5, <3>2, <3>4
  <2>2. poller' \in [Pollers -> PollStates]
    BY <1>5, <2>1
  <2> QED BY <1>1, <1>2, <1>3, <2>1, <2>2, PolledStep
<1>6. CASE poller' = [w \in Pollers |-> Resting]
  <2>1. Resting \in PollStates /\ PollerSound(Resting)
    BY RestingSound
  <2>2. PICK r \in PollStates : r = Resting /\ PollerSound(r)
    BY <2>1
  <2>3. PollerSound(r)'
    BY <1>2, <2>2, PollerStays DEF PolledInv
  <2>4. poller' \in [Pollers -> PollStates] /\ \A w \in Pollers : poller'[w] = r
    BY <1>6, <2>2
  <2> QED BY <1>1, <1>2, <1>3, <2>3, <2>4, PolledStep
<1> QED BY <1>4, <1>5, <1>6 DEF LinkUp, LinkDown, Killed, polledVars

-----------------------------------------------------------------------------
(* The theorem.                                                            *)

LEMMA PolledStarts ==
    ASSUME PolledInit
    PROVE  PolledInv
<1>1. PolledShape
  <2>1. Resting \in PollStates
    BY DEF Resting, PollStates
  <2> QED BY <2>1 DEF PolledInit, PolledShape
<1>2. Len(records) = 0 /\ DOMAIN records = {}
  BY DEF PolledInit
<1>3. Clear(stored) /\ Clear(0)
  BY <1>2 DEF PolledInit, Clear
<1>4. PollerSound(Resting)
  BY <1>3 DEF Resting, PollerSound
<1> QED BY <1>1, <1>3, <1>4 DEF PolledInit, PolledInv

\* The checkpoint of a polled group, of either kind, never stands past a matching
\* record that came after the latest seed unless the control plane has it or a capped
\* `docker logs` left it behind: for any number of threads, records, batches, lost
\* sessions and crashes, every cap, and every order in which acks and confirms come
\* (read_new_lines, collect_batch, confirm_shipped and handle_log_batch_ack).
THEOREM PolledKeepsLines == PolledSpec => []PolledNoSkip
<1>1. PolledInit => PolledInv
  BY PolledStarts
<1>2. PolledInv /\ [PolledNext]_polledVars => PolledInv'
  <2> SUFFICES ASSUME PolledInv, [PolledNext]_polledVars
               PROVE  PolledInv'
    OBVIOUS
  <2>1. ASSUME NEW e \in BOOLEAN, NEW m \in BOOLEAN, NEW c \in BOOLEAN,
               Emit([err |-> e, matches |-> m, cursor |-> c])
        PROVE  PolledInv'
    <3>1. [err |-> e, matches |-> m, cursor |-> c] \in RecordKinds
      BY DEF RecordKinds
    <3> QED BY <2>1, <3>1, EmitStep
  <2>2. ASSUME NEW w \in Pollers,
               \/ GetPosition(w) \/ Seed(w) \/ StoreSeed(w) \/ RunLogs(w) \/ Records(w)
               \/ ConfirmShipped(w) \/ SetPosition(w) \/ ShipPolled(w) \/ AckEnds(w) \/ PollerEnds(w)
               \/ \E P \in SUBSET tracked : PollTurn(w, P)
               \/ \E f \in frames : AckPolled(f, w)
        PROVE  PolledInv'
    BY <2>2, GetPositionStep, SeedStep, StoreSeedStep, RunLogsStep, RecordsStep, ConfirmStep,
       SetPositionStep, ShipPolledStep, RestStep, PollTurnStep, AckPolledStep
  <2>3. ASSUME NEW f \in frames, CpReads(f)
        PROVE  PolledInv'
    BY <2>3, CpReadsStep
  <2>4. CASE LinkUp \/ LinkDown \/ Killed \/ UNCHANGED polledVars
    BY <2>4, SessionStep
  <2> QED BY <2>1, <2>2, <2>3, <2>4 DEF PolledNext
<1>3. PolledInv => PolledNoSkip
  <2> SUFFICES ASSUME PolledInv, NEW n \in DOMAIN records, records[n].matches, base =< n, n < stored,
                      n \notin told \cup cut
               PROVE  FALSE
    BY DEF PolledNoSkip, Matching
  <2>1. stored \in Nat /\ n \in Nat /\ (Owed(n) => stored =< n)
    BY DEF PolledInv, PolledShape, Clear
  <2> QED BY <2>1 DEF Owed
<1> QED BY <1>1, <1>2, <1>3, PTL DEF PolledSpec

-----------------------------------------------------------------------------
(* File groups: the invariant.                                             *)

\* The shape of the state; no two inodes hold the same incarnation.
Spots == Nat \X Nat
Ranges == [inode : Nat, inc : Nat, from : Nat, to : Nat]
JobStates ==
    [pc : {"free", "open", "read", "check", "store", "done"},
     job : {"none", "collect", "confirm"}, live : BOOLEAN, rc : Ranges, at : Nat,
     got : SUBSET Spots, snap : SUBSET Ranges, ok : BOOLEAN]

LogShape ==
    /\ incs \in Nat \ {0} /\ DOMAIN file \subseteq 1 .. incs /\ path \in {0} \cup DOMAIN file
    /\ file \in [DOMAIN file -> [inc : 1 .. incs, len : Nat]]
    /\ \A i, k \in DOMAIN file : file[i].inc = file[k].inc => i = k
    /\ cp \in [pos : Nat, inode : Nat, inc : Nat]
    /\ pending \in [DOMAIN pending -> Ranges]
    /\ sent \in [wire \cup acks -> SUBSET Spots] /\ wire \cap acks = {}
    /\ worker \in [Workers -> JobStates]

\* A line a checkpoint may not pass yet.
Due(x, n) == <<x, n>> \in wanted /\ <<x, n>> \notin delivered

\* Incarnation x, if a file still holds it, has reached line p.
Reached(x, p) == x =< incs /\ \A i \in DOMAIN file : file[i].inc = x => p =< file[i].len

\* Nothing due of incarnation x stands before p.
Passed(x, p) == Reached(x, p) /\ \A n \in 1 .. p : ~Due(x, n)

\* What is due of a receipt's range is among lines.
Carries(rc, lines) ==
    /\ Reached(rc.inc, rc.to)
    /\ \A n \in rc.from + 1 .. rc.to : Due(rc.inc, n) => <<rc.inc, n>> \in lines

\* A read under way: it has every line from its start to where it stands, of one
\* incarnation, and nothing yet if its file was truncated beneath it.
ReadSound(j) ==
    /\ j.rc.inode \in DOMAIN file /\ j.rc.from =< j.at
    /\ j.got = {} => j.at = j.rc.from
    /\ j.got # {} => j.at =< file[j.rc.inode].len
    /\ \A n \in j.rc.from + 1 .. j.at : <<file[j.rc.inode].inc, n>> \in j.got

\* A thread: what it stores has nothing due left, what it ships carries all that is due.
JobSound(j) ==
    /\ j.pc = "open" => j.got = {}
    /\ j.pc = "read" => ReadSound(j)
    /\ j.pc = "check" => Carries(j.rc, {})
    /\ j.pc = "store" => Passed(j.rc.inc, j.rc.to)
    /\ j.pc = "done" /\ j.got # {} => Carries(j.rc, j.got)

\* Nothing due stands before the checkpoint; what a thread may store, and what an ack may
\* confirm, has nothing due left; a batch in flight is the only one: the inductive invariant.
LogInv ==
    /\ LogShape
    /\ Passed(cp.inc, cp.pos)
    /\ \A w \in Workers : JobSound(worker[w])
    /\ \A b \in DOMAIN pending \cap DOMAIN sent : Carries(pending[b], sent[b])
    /\ \A b \in acks : sent[b] \subseteq delivered
    /\ \A b, c \in DOMAIN pending : b = c
    /\ loop = "collecting" => DOMAIN pending = {}

-----------------------------------------------------------------------------
(* Lemmas.                                                                 *)

\* What no step undoes: an incarnation does not shrink, and no line behind one that was
\* reached becomes due.
Ages ==
    /\ \A x, p \in Nat : Reached(x, p) => Reached(x, p)'
    /\ \A x, n \in Nat : Reached(x, n) /\ Due(x, n)' => Due(x, n)

LEMMA ReachedBelow ==
    ASSUME LogShape, NEW x \in Nat, NEW p \in Nat, Reached(x, p), NEW n \in Nat, n =< p
    PROVE  Reached(x, n)
  BY DEF LogShape, Reached

LEMMA PassedStays ==
    ASSUME LogShape, Ages, NEW x \in Nat, NEW p \in Nat, Passed(x, p)
    PROVE  Passed(x, p)'
<1>1. \A n \in 1 .. p : n \in Nat /\ Reached(x, n)
  BY ReachedBelow DEF Passed
<1> QED BY <1>1 DEF Passed, Ages

LEMMA CarriesStays ==
    ASSUME LogShape, Ages, NEW rc \in Ranges, NEW lines, Carries(rc, lines)
    PROVE  Carries(rc, lines)'
<1>1. rc.inc \in Nat /\ rc.from \in Nat /\ rc.to \in Nat
  BY DEF Ranges
<1>2. \A n \in rc.from + 1 .. rc.to : n \in Nat /\ Reached(rc.inc, n)
  BY <1>1, ReachedBelow DEF Carries
<1> QED BY <1>1, <1>2 DEF Carries, Ages

LEMMA JobStays ==
    ASSUME LogShape, Ages, NEW j \in JobStates, JobSound(j), j.pc = "read" => ReadSound(j)'
    PROVE  JobSound(j)'
<1>1. j.rc \in Ranges /\ j.rc.inc \in Nat /\ j.rc.to \in Nat
  BY DEF JobStates, Ranges
<1>2. j.pc = "check" => Carries(j.rc, {})'
  BY <1>1, CarriesStays DEF JobSound
<1>3. j.pc = "store" => Passed(j.rc.inc, j.rc.to)'
  BY <1>1, PassedStays DEF JobSound
<1>4. j.pc = "done" /\ j.got # {} => Carries(j.rc, j.got)'
  BY <1>1, CarriesStays DEF JobSound
<1> QED BY <1>2, <1>3, <1>4 DEF JobSound

\* A step of the writer or of logrotate: what is left to see to is the reads under way.
LEMMA SourceStep ==
    ASSUME LogInv, Ages, LogShape',
           UNCHANGED <<cp, pending, sent, wire, acks, delivered, loop, worker>>,
           \A w \in Workers : worker[w].pc = "read" => \E j \in JobStates : j = worker[w] /\ ReadSound(j)'
    PROVE  LogInv'
<1>1. Passed(cp.inc, cp.pos)'
  <2>1. PICK x \in Nat, p \in Nat : x = cp.inc /\ p = cp.pos /\ Passed(x, p) /\ cp' = cp
    BY DEF LogInv, LogShape
  <2>2. Passed(x, p)'
    BY <2>1, PassedStays DEF LogInv
  <2> QED BY <2>1, <2>2
<1>2. ASSUME NEW w \in Workers
      PROVE  JobSound(worker[w])'
  <2>1. PICK j \in JobStates : j = worker[w] /\ JobSound(j) /\ worker'[w] = j
    BY DEF LogInv, LogShape
  <2>2. JobSound(j)'
    BY <2>1, JobStays DEF LogInv
  <2> QED BY <2>1, <2>2
<1>3. ASSUME NEW b \in DOMAIN pending' \cap DOMAIN sent'
      PROVE  Carries(pending[b], sent[b])'
  <2>1. b \in DOMAIN pending \cap DOMAIN sent
    OBVIOUS
  <2>2. pending[b] \in Ranges /\ Carries(pending[b], sent[b]) /\ pending'[b] = pending[b] /\ sent'[b] = sent[b]
    BY <2>1 DEF LogInv, LogShape
  <2>3. PICK rc \in Ranges : rc = pending[b]
    BY <2>2
  <2>4. PICK lines : lines = sent[b]
    OBVIOUS
  <2>5. Carries(rc, lines)'
    BY <2>2, <2>3, <2>4, CarriesStays DEF LogInv
  <2> QED BY <2>2, <2>3, <2>4, <2>5
<1>4. /\ \A b \in acks' : sent'[b] \subseteq delivered'
      /\ \A b, c \in DOMAIN pending' : b = c
      /\ loop' = "collecting" => DOMAIN pending' = {}
  BY DEF LogInv
<1> QED BY <1>1, <1>2, <1>3, <1>4 DEF LogInv

\* A step of the agent or of the control plane.
LEMMA AgentStep ==
    ASSUME LogInv, UNCHANGED sourceVars, delivered \subseteq delivered', LogShape',
           NEW x \in Nat, NEW p \in Nat, cp'.inc = x, cp'.pos = p, Passed(x, p),
           \A w \in Workers : \/ worker'[w] = worker[w]
                              \/ \E r \in JobStates : worker'[w] = r /\ JobSound(r),
           \A b \in DOMAIN pending' \cap DOMAIN sent' :
              \E rc \in Ranges, lines \in SUBSET Spots :
                 pending'[b] = rc /\ sent'[b] = lines /\ Carries(rc, lines),
           \A b \in acks' : sent'[b] \subseteq delivered',
           \A b, c \in DOMAIN pending' : b = c,
           loop' = "collecting" => DOMAIN pending' = {}
    PROVE  LogInv'
<1>1. path' = path /\ file' = file /\ incs' = incs /\ wanted' = wanted
  BY DEF sourceVars
<1>2. Ages
  BY <1>1 DEF Ages, Reached, Due
<1>3. Passed(cp.inc, cp.pos)'
  BY <1>2, PassedStays DEF LogInv
<1>4. ASSUME NEW w \in Workers
      PROVE  JobSound(worker[w])'
  <2>1. PICK r \in JobStates : worker'[w] = r /\ JobSound(r)
    BY DEF LogInv, LogShape
  <2>2. r.pc = "read" => ReadSound(r)'
    BY <1>1, <2>1 DEF JobSound, ReadSound
  <2>3. JobSound(r)'
    BY <1>2, <2>1, <2>2, JobStays DEF LogInv
  <2> QED BY <2>1, <2>3
<1>5. ASSUME NEW b \in DOMAIN pending' \cap DOMAIN sent'
      PROVE  Carries(pending[b], sent[b])'
  <2>1. PICK rc \in Ranges, lines \in SUBSET Spots :
           pending'[b] = rc /\ sent'[b] = lines /\ Carries(rc, lines)
    OBVIOUS
  <2>2. Carries(rc, lines)'
    BY <1>2, <2>1, CarriesStays DEF LogInv
  <2> QED BY <2>1, <2>2
<1> QED BY <1>3, <1>4, <1>5 DEF LogInv

\* A step of one thread.
LEMMA WorkerMoves ==
    ASSUME LogInv, UNCHANGED <<sourceVars, trackVars, channelVars, sessionVars>>,
           NEW w \in Workers, NEW r \in JobStates, JobSound(r),
           worker' = [worker EXCEPT ![w] = r],
           NEW x \in Nat, NEW p \in Nat, cp' \in [pos : Nat, inode : Nat, inc : Nat],
           cp'.inc = x, cp'.pos = p, Passed(x, p)
    PROVE  LogInv'
<1>1. /\ UNCHANGED sourceVars
      /\ UNCHANGED <<path, file, incs, wanted, pending, sent, wire, acks, delivered, loop>>
  BY DEF sourceVars, trackVars, channelVars, sessionVars
<1>2. worker' \in [Workers -> JobStates] /\ \A v \in Workers : worker'[v] = IF v = w THEN r ELSE worker[v]
  BY DEF LogInv, LogShape
<1>3. LogShape'
  BY <1>1, <1>2 DEF LogInv, LogShape
<1>4. \A b \in DOMAIN pending' \cap DOMAIN sent' :
         \E rc \in Ranges, lines \in SUBSET Spots :
            pending'[b] = rc /\ sent'[b] = lines /\ Carries(rc, lines)
  BY <1>1 DEF LogInv, LogShape
<1>5. /\ \A b \in acks' : sent'[b] \subseteq delivered'
      /\ \A b, c \in DOMAIN pending' : b = c
      /\ loop' = "collecting" => DOMAIN pending' = {}
  BY <1>1 DEF LogInv
<1> QED BY <1>1, <1>2, <1>3, <1>4, <1>5, AgentStep

\* The same, the checkpoint left alone.
LEMMA WorkerGoesOn ==
    ASSUME LogInv, UNCHANGED <<sourceVars, cp, trackVars, channelVars, sessionVars>>,
           NEW w \in Workers, NEW r \in JobStates, JobSound(r),
           worker' = [worker EXCEPT ![w] = r]
    PROVE  LogInv'
<1>1. PICK x \in Nat, p \in Nat : x = cp.inc /\ p = cp.pos /\ Passed(x, p)
  BY DEF LogInv, LogShape
<1>2. cp' = cp /\ cp \in [pos : Nat, inode : Nat, inc : Nat]
  BY DEF LogInv, LogShape
<1> QED BY <1>1, <1>2, WorkerMoves

LEMMA WorkerFacts ==
    ASSUME LogInv, NEW w \in Workers
    PROVE  /\ worker[w] \in JobStates /\ JobSound(worker[w])
           /\ worker[w].rc \in Ranges /\ worker[w].at \in Nat /\ worker[w].got \in SUBSET Spots
           /\ worker[w].rc.inc \in Nat /\ worker[w].rc.from \in Nat /\ worker[w].rc.to \in Nat
           /\ worker[w].rc.inode \in Nat
  BY DEF LogInv, LogShape, JobStates, Ranges

LEMMA FreeSound == Free \in JobStates /\ JobSound(Free)
<1>1. NoReceipt \in Ranges
  BY DEF NoReceipt, Ranges
<1>2. Free \in JobStates
  BY <1>1 DEF Free, JobStates
<1> QED BY <1>2 DEF Free, JobSound

-----------------------------------------------------------------------------
(* The writer and logrotate.                                               *)

LEMMA AppendStep ==
    ASSUME LogInv, NEW matches \in BOOLEAN, AppendLine(matches)
    PROVE  LogInv'
<1>1. /\ path \in DOMAIN file /\ file[path].inc \in 1 .. incs /\ file[path].len \in Nat /\ incs \in Nat
      /\ \A i \in DOMAIN file : file[i].inc \in 1 .. incs /\ file[i].len \in Nat
  BY DEF LogInv, LogShape, AppendLine
<1>2. /\ DOMAIN file' = DOMAIN file
      /\ \A i \in DOMAIN file : /\ file'[i].inc = file[i].inc
                                /\ file'[i].len = IF i = path THEN file[i].len + 1 ELSE file[i].len
      /\ file' \in [DOMAIN file -> [inc : 1 .. incs, len : Nat]]
  BY <1>1 DEF LogInv, LogShape, AppendLine
<1>3. /\ wanted' = wanted \/ wanted' = wanted \cup {<<file[path].inc, file[path].len + 1>>}
      /\ UNCHANGED <<path, incs, cp, pending, sent, wire, acks, delivered, loop, worker>>
  BY DEF AppendLine, trackVars, channelVars, sessionVars
<1>4. Ages
  <2>1. ASSUME NEW x \in Nat, NEW p \in Nat, Reached(x, p)
        PROVE  Reached(x, p)'
    BY <1>1, <1>2, <1>3, <2>1 DEF Reached
  <2>2. ASSUME NEW x \in Nat, NEW n \in Nat, Reached(x, n), Due(x, n)'
        PROVE  Due(x, n)
    BY <1>1, <1>3, <2>2 DEF Reached, Due
  <2> QED BY <2>1, <2>2 DEF Ages
<1>5. LogShape'
  BY <1>1, <1>2, <1>3 DEF LogInv, LogShape
<1>6. ASSUME NEW w \in Workers, worker[w].pc = "read"
      PROVE  \E j \in JobStates : j = worker[w] /\ ReadSound(j)'
  <2>1. PICK j \in JobStates : j = worker[w] /\ ReadSound(j)
    BY <1>6, WorkerFacts DEF JobSound
  <2>2. ReadSound(j)'
    BY <1>1, <1>2, <2>1 DEF ReadSound, JobStates
  <2> QED BY <2>1, <2>2
<1> QED BY <1>3, <1>4, <1>5, <1>6, SourceStep

LEMMA RenameStep ==
    ASSUME LogInv, RenameAway
    PROVE  LogInv'
<1>1. path' = 0 /\ UNCHANGED <<file, incs, wanted, cp, pending, sent, wire, acks, delivered, loop, worker>>
  BY DEF RenameAway, trackVars, channelVars, sessionVars
<1>2. Ages
  BY <1>1 DEF Ages, Reached, Due
<1>3. LogShape'
  BY <1>1 DEF LogInv, LogShape
<1>4. ASSUME NEW w \in Workers, worker[w].pc = "read"
      PROVE  \E j \in JobStates : j = worker[w] /\ ReadSound(j)'
  <2>1. PICK j \in JobStates : j = worker[w] /\ ReadSound(j)
    BY <1>4, WorkerFacts DEF JobSound
  <2>2. ReadSound(j)'
    BY <1>1, <2>1 DEF ReadSound
  <2> QED BY <2>1, <2>2
<1> QED BY <1>1, <1>2, <1>3, <1>4, SourceStep

LEMMA CreateStep ==
    ASSUME LogInv, Create
    PROVE  LogInv'
<1>1. /\ incs \in Nat \ {0} /\ DOMAIN file \subseteq 1 .. incs
      /\ \A i \in DOMAIN file : file[i] \in [inc : 1 .. incs, len : Nat] /\ file[i].inc \in 1 .. incs /\ file[i].len \in Nat
  BY DEF LogInv, LogShape
<1>2. PICK f \in [inc : 1 .. (incs + 1), len : Nat] : f = [inc |-> incs + 1, len |-> 0] /\ f.inc = incs + 1
  <2>1. incs + 1 \in 1 .. (incs + 1)
    BY <1>1
  <2>2. [inc |-> incs + 1, len |-> 0] \in [inc : 1 .. (incs + 1), len : Nat]
    BY <2>1
  <2> QED BY <2>2
<1>3. file' = [i \in DOMAIN file \cup {incs + 1} |-> IF i = incs + 1 THEN f ELSE file[i]]
  BY <1>2 DEF Create
<1>4. /\ DOMAIN file' = DOMAIN file \cup {incs + 1} /\ file'[incs + 1] = f
      /\ \A i \in DOMAIN file : file'[i] = file[i]
  BY <1>1, <1>3
<1>5. /\ incs' = incs + 1 /\ path' = incs + 1
      /\ UNCHANGED <<wanted, cp, pending, sent, wire, acks, delivered, loop, worker>>
  BY DEF Create, trackVars, channelVars, sessionVars
<1>6. Ages
  BY <1>1, <1>2, <1>4, <1>5 DEF Ages, Reached, Due
<1>7. LogShape'
  <2>1. \A i \in DOMAIN file' : file'[i] \in [inc : 1 .. incs', len : Nat]
    <3>1. \A g \in [inc : 1 .. incs, len : Nat] : g \in [inc : 1 .. (incs + 1), len : Nat]
      BY <1>1
    <3> QED BY <1>1, <1>2, <1>4, <1>5, <3>1
  <2>2. file' \in [DOMAIN file' -> [inc : 1 .. incs', len : Nat]]
    BY <1>3, <2>1
  <2>3. incs' \in Nat \ {0} /\ DOMAIN file' \subseteq 1 .. incs' /\ path' \in DOMAIN file'
    BY <1>1, <1>4, <1>5
  <2>4. \A i, k \in DOMAIN file' : file'[i].inc = file'[k].inc => i = k
    <3>1. \A i, k \in DOMAIN file : file[i].inc = file[k].inc => i = k
      BY DEF LogInv, LogShape
    <3> QED BY <1>1, <1>2, <1>4, <3>1
  <2> QED BY <1>5, <2>2, <2>3, <2>4 DEF LogInv, LogShape
<1>8. ASSUME NEW w \in Workers, worker[w].pc = "read"
      PROVE  \E j \in JobStates : j = worker[w] /\ ReadSound(j)'
  <2>1. PICK j \in JobStates : j = worker[w] /\ ReadSound(j)
    BY <1>8, WorkerFacts DEF JobSound
  <2>2. j.rc.inode \in DOMAIN file /\ j.rc.inode \in DOMAIN file' /\ file'[j.rc.inode] = file[j.rc.inode]
    BY <1>4, <2>1 DEF ReadSound
  <2>3. ReadSound(j)'
    BY <2>1, <2>2 DEF ReadSound
  <2> QED BY <2>1, <2>3
<1> QED BY <1>5, <1>6, <1>7, <1>8, SourceStep

\* A truncation falls on a read only before its first line.
LEMMA TruncateStep ==
    ASSUME LogInv, ~TornReads, Truncate
    PROVE  LogInv'
<1>1. /\ incs \in Nat \ {0} /\ path \in DOMAIN file
      /\ \A i \in DOMAIN file : file[i] \in [inc : 1 .. incs, len : Nat] /\ file[i].inc \in 1 .. incs /\ file[i].len \in Nat
  BY DEF LogInv, LogShape, Truncate
<1>2. PICK f \in [inc : 1 .. (incs + 1), len : Nat] : f = [inc |-> incs + 1, len |-> 0] /\ f.inc = incs + 1
  <2>1. incs + 1 \in 1 .. (incs + 1)
    BY <1>1
  <2>2. [inc |-> incs + 1, len |-> 0] \in [inc : 1 .. (incs + 1), len : Nat]
    BY <2>1
  <2> QED BY <2>2
<1>3. file' = [file EXCEPT ![path] = f]
  BY <1>2 DEF Truncate
<1>4. /\ DOMAIN file' = DOMAIN file /\ file'[path] = f
      /\ \A i \in DOMAIN file \ {path} : file'[i] = file[i]
  BY <1>1, <1>3
<1>5. incs' = incs + 1 /\ UNCHANGED <<path, wanted, cp, pending, sent, wire, acks, delivered, loop, worker>>
  BY DEF Truncate, trackVars, channelVars, sessionVars
<1>6. Ages
  BY <1>1, <1>2, <1>4, <1>5 DEF Ages, Reached, Due
<1>7. LogShape'
  <2>1. \A i \in DOMAIN file' : file'[i] \in [inc : 1 .. incs', len : Nat]
    <3>1. \A g \in [inc : 1 .. incs, len : Nat] : g \in [inc : 1 .. (incs + 1), len : Nat]
      BY <1>1
    <3> QED BY <1>1, <1>2, <1>4, <1>5, <3>1
  <2>2. file' \in [DOMAIN file' -> [inc : 1 .. incs', len : Nat]]
    BY <1>3, <2>1
  <2>3. incs' \in Nat \ {0} /\ DOMAIN file' \subseteq 1 .. incs' /\ path' \in DOMAIN file'
    BY <1>1, <1>4, <1>5 DEF LogInv, LogShape
  <2>4. \A i, k \in DOMAIN file' : file'[i].inc = file'[k].inc => i = k
    <3>1. \A i, k \in DOMAIN file : file[i].inc = file[k].inc => i = k
      BY DEF LogInv, LogShape
    <3> QED BY <1>1, <1>2, <1>4, <3>1
  <2> QED BY <1>5, <2>2, <2>3, <2>4 DEF LogInv, LogShape
<1>8. ASSUME NEW w \in Workers, worker[w].pc = "read"
      PROVE  \E j \in JobStates : j = worker[w] /\ ReadSound(j)'
  <2>1. PICK j \in JobStates : j = worker[w] /\ ReadSound(j)
    BY <1>8, WorkerFacts DEF JobSound
  <2>2. CASE j.rc.inode = path
    <3>1. j.got = {} /\ j.at = j.rc.from /\ j.rc.from \in Nat
      BY <1>8, <2>1, <2>2 DEF Truncate, ReadSound, JobStates, Ranges
    <3> QED BY <1>1, <1>4, <2>1, <2>2, <3>1 DEF ReadSound
  <2>3. CASE j.rc.inode # path
    BY <1>4, <2>1, <2>3 DEF ReadSound
  <2> QED BY <2>2, <2>3
<1> QED BY <1>5, <1>6, <1>7, <1>8, SourceStep

-----------------------------------------------------------------------------
(* The threads.                                                            *)

LEMMA ResumeBounded ==
    ASSUME LogInv, path # 0
    PROVE  /\ path \in DOMAIN file /\ path \in Nat
           /\ ResumePoint(path) \in Nat /\ ResumePoint(path) =< file[path].len
           /\ \A n \in 1 .. ResumePoint(path) : ~Due(file[path].inc, n)
<1>1. path \in DOMAIN file /\ path \in Nat /\ file[path].len \in Nat /\ cp.pos \in Nat
  BY DEF LogInv, LogShape
<1> QED BY <1>1 DEF LogInv, ResumePoint, Holds, Passed

LEMMA OpenStep ==
    ASSUME LogInv, NEW w \in Workers, Open(w)
    PROVE  LogInv'
<1>1. /\ worker[w] \in JobStates /\ worker[w].pc = "open" /\ worker[w].got = {}
  BY WorkerFacts DEF Open, JobSound
<1>2. CASE path = 0
  <2>1. PICK r \in JobStates : r = [worker[w] EXCEPT !.pc = "done"] /\ r.pc = "done" /\ r.got = {}
    <3>1. [worker[w] EXCEPT !.pc = "done"] \in JobStates
      BY <1>1 DEF JobStates
    <3> QED BY <1>1, <3>1 DEF JobStates
  <2>2. worker' = [worker EXCEPT ![w] = r]
    BY <1>2, <2>1 DEF Open, LogInv, LogShape
  <2>3. JobSound(r)
    BY <2>1 DEF JobSound
  <2> QED BY <2>2, <2>3, WorkerGoesOn DEF Open
<1>3. CASE path # 0
  <2>1. PICK p \in Nat : p = ResumePoint(path)
    BY <1>3, ResumeBounded
  <2>2. PICK rc \in Ranges : /\ rc = [NoReceipt EXCEPT !.inode = path, !.from = p]
                             /\ rc.inode = path /\ rc.from = p
    <3>1. [NoReceipt EXCEPT !.inode = path, !.from = p] \in Ranges
      BY <1>3, ResumeBounded DEF NoReceipt, Ranges
    <3> QED BY <3>1 DEF NoReceipt
  <2>3. PICK r \in JobStates :
           /\ r = [worker[w] EXCEPT !.pc = "read", !.at = p, !.rc = rc]
           /\ r.pc = "read" /\ r.at = p /\ r.rc = rc /\ r.got = {}
    <3>1. [worker[w] EXCEPT !.pc = "read", !.at = p, !.rc = rc] \in JobStates
      BY <1>1, <2>1, <2>2 DEF JobStates
    <3> QED BY <1>1, <3>1 DEF JobStates
  <2>4. worker' = [worker EXCEPT ![w] = r]
    BY <1>3, <2>1, <2>2, <2>3 DEF Open, LogInv, LogShape
  <2>5. ReadSound(r)
    <3>1. path \in DOMAIN file /\ p =< p /\ \A n \in p + 1 .. p : FALSE
      BY <1>3, <2>1, ResumeBounded
    <3>2. r.rc.inode \in DOMAIN file /\ r.rc.from = p /\ r.at = p /\ r.got = {}
      BY <2>2, <2>3, <3>1
    <3> QED BY <3>1, <3>2 DEF ReadSound
  <2>6. JobSound(r)
    BY <2>3, <2>5 DEF JobSound
  <2> QED BY <2>4, <2>6, WorkerGoesOn DEF Open
<1> QED BY <1>2, <1>3

LEMMA ReadLineStep ==
    ASSUME LogInv, NEW w \in Workers, ReadLine(w)
    PROVE  LogInv'
<1>1. PICK j \in JobStates :
         /\ j = worker[w] /\ j.pc = "read" /\ ReadSound(j)
         /\ j.at \in Nat /\ j.got \in SUBSET Spots /\ j.rc.from \in Nat
  BY WorkerFacts DEF ReadLine, JobSound
<1>2. PICK f : /\ f = file[j.rc.inode] /\ f.inc \in Nat /\ f.len \in Nat /\ j.at < f.len
               /\ worker' = [worker EXCEPT ![w].at = @ + 1, ![w].got = @ \cup {<<f.inc, j.at + 1>>}]
  <2>1. file[j.rc.inode].inc \in Nat /\ file[j.rc.inode].len \in Nat
    BY <1>1 DEF ReadSound, LogInv, LogShape
  <2> QED BY <1>1, <2>1 DEF ReadLine
<1>3. PICK g \in SUBSET Spots : g = j.got \cup {<<f.inc, j.at + 1>>}
  <2>1. <<f.inc, j.at + 1>> \in Spots
    BY <1>1, <1>2 DEF Spots
  <2> QED BY <1>1, <2>1
<1>4. PICK r \in JobStates :
         /\ r = [j EXCEPT !.at = j.at + 1, !.got = g]
         /\ r.pc = "read" /\ r.at = j.at + 1 /\ r.got = g /\ r.rc = j.rc
  <2>1. [j EXCEPT !.at = j.at + 1, !.got = g] \in JobStates
    <3>1. PICK a \in Nat : a = j.at + 1
      BY <1>1
    <3>2. [j EXCEPT !.at = a, !.got = g] \in JobStates
      BY DEF JobStates
    <3> QED BY <3>1, <3>2
  <2> QED BY <1>1, <2>1 DEF JobStates
<1>5. worker' = [worker EXCEPT ![w] = r]
  BY <1>1, <1>2, <1>3, <1>4, ZenonT(60) DEF LogInv, LogShape, JobStates
<1>6. ReadSound(r)
  <2>1. \A n \in r.rc.from + 1 .. r.at : n \in j.rc.from + 1 .. j.at \/ n = j.at + 1
    BY <1>1, <1>4
  <2>2. \A n \in r.rc.from + 1 .. r.at : <<f.inc, n>> \in r.got
    BY <1>1, <1>2, <1>3, <1>4, <2>1 DEF ReadSound
  <2>3. r.rc.inode \in DOMAIN file /\ r.rc.from =< r.at /\ r.got # {} /\ r.at =< f.len
    <3>1. r.got # {}
      BY <1>3, <1>4
    <3>2. r.rc.inode \in DOMAIN file /\ j.rc.from =< j.at
      BY <1>1, <1>4 DEF ReadSound
    <3> QED BY <1>1, <1>2, <1>4, <3>1, <3>2
  <2> QED BY <1>2, <1>4, <2>2, <2>3 DEF ReadSound
<1>7. JobSound(r)
  BY <1>4, <1>6 DEF JobSound
<1> QED BY <1>5, <1>7, WorkerGoesOn DEF ReadLine

LEMMA ReadEndStep ==
    ASSUME LogInv, NEW w \in Workers, ReadEnd(w)
    PROVE  LogInv'
<1>1. PICK j \in JobStates :
         /\ j = worker[w] /\ j.pc = "read" /\ ReadSound(j)
         /\ j.at \in Nat /\ j.got \in SUBSET Spots /\ j.rc \in Ranges /\ j.rc.from \in Nat
  BY WorkerFacts, SMTT(30) DEF ReadEnd, JobSound
<1>2. PICK f : /\ f = file[j.rc.inode] /\ f.inc \in Nat /\ f.inc =< incs /\ f.len \in Nat
               /\ worker' = [worker EXCEPT ![w].rc.inc = f.inc, ![w].rc.to = j.at,
                     ![w].pc = IF j.got # {} /\ Matched(j.got) = {} THEN "check" ELSE "done"]
  <2>1. file[j.rc.inode].inc \in Nat /\ file[j.rc.inode].inc =< incs /\ file[j.rc.inode].len \in Nat
    BY <1>1 DEF ReadSound, LogInv, LogShape
  <2> QED BY <1>1, <2>1 DEF ReadEnd
<1>3. PICK c \in {"check", "done"} :
         /\ c = IF j.got # {} /\ Matched(j.got) = {} THEN "check" ELSE "done"
         /\ c = "check" => j.got # {} /\ Matched(j.got) = {}
  OBVIOUS
<1>4. PICK rc \in Ranges :
         /\ rc = [j.rc EXCEPT !.inc = f.inc, !.to = j.at]
         /\ rc.inc = f.inc /\ rc.to = j.at /\ rc.from = j.rc.from
  <2>1. [j.rc EXCEPT !.inc = f.inc, !.to = j.at] \in Ranges
    BY <1>1, <1>2 DEF Ranges
  <2> QED BY <1>1, <2>1 DEF Ranges
<1>5. PICK r \in JobStates :
         r = [j EXCEPT !.rc = rc, !.pc = c] /\ r.pc = c /\ r.rc = rc /\ r.got = j.got
  <2>1. [j EXCEPT !.rc = rc, !.pc = c] \in JobStates
    BY <1>1, <1>3, <1>4, ZenonT(60) DEF JobStates
  <2> QED BY <1>1, <2>1 DEF JobStates
<1>6. worker' = [worker EXCEPT ![w] = r]
  <2>1. worker' = [worker EXCEPT ![w].rc.inc = f.inc, ![w].rc.to = j.at, ![w].pc = c]
    BY <1>2, <1>3
  <2>2. w \in DOMAIN worker /\ worker[w] = j
    BY <1>1 DEF LogInv, LogShape
  <2>3. worker' = [worker EXCEPT ![w] = [j EXCEPT !.rc = [j.rc EXCEPT !.inc = f.inc, !.to = j.at], !.pc = c]]
    BY <1>1, <2>1, <2>2 DEF JobStates, Ranges
  <2> QED BY <1>4, <1>5, <2>3
<1>7. j.got # {} => Carries(rc, j.got)
  <2> SUFFICES ASSUME j.got # {} PROVE Carries(rc, j.got)
    OBVIOUS
  <2>1. j.at =< f.len /\ \A n \in rc.from + 1 .. rc.to : <<rc.inc, n>> \in j.got
    BY <1>1, <1>2, <1>4 DEF ReadSound
  <2>2. Reached(f.inc, j.at)
    BY <1>1, <1>2, <2>1 DEF Reached, ReadSound, LogInv, LogShape
  <2> QED BY <1>4, <2>1, <2>2 DEF Carries
<1>8. c = "check" => Carries(rc, {})
  BY <1>3, <1>7 DEF Carries, Due, Matched
<1>9. JobSound(r)
  BY <1>3, <1>5, <1>7, <1>8 DEF JobSound
<1> QED BY <1>6, <1>9, WorkerGoesOn DEF ReadEnd

\* confirm_shipped(): the range covers the checkpoint, so that nothing due lies between.
LEMMA CheckStep ==
    ASSUME LogInv, NEW w \in Workers, Check(w)
    PROVE  LogInv'
<1>1. PICK j \in JobStates :
         /\ j = worker[w] /\ j.pc = "check" /\ Carries(j.rc, {})
         /\ j.rc.inc \in Nat /\ j.rc.from \in Nat /\ j.rc.to \in Nat
  BY WorkerFacts DEF Check, JobSound
<1>2. PICK c \in {"store", "done"} :
         worker' = [worker EXCEPT ![w].pc = c] /\ (c = "store" => Confirmable(j.rc))
  BY <1>1 DEF Check
<1>3. PICK r \in JobStates :
         r = [j EXCEPT !.pc = c] /\ r.pc = c /\ r.rc = j.rc /\ r.got = j.got
  <2>1. [j EXCEPT !.pc = c] \in JobStates
    BY <1>2 DEF JobStates
  <2> QED BY <2>1 DEF JobStates
<1>4. worker' = [worker EXCEPT ![w] = r]
  BY <1>1, <1>2, <1>3 DEF LogInv, LogShape
<1>5. ASSUME c = "store"
      PROVE  Passed(j.rc.inc, j.rc.to)
  <2>1. /\ path # 0 /\ j.rc.inc = file[path].inc
        /\ j.rc.from =< ResumePoint(path) /\ ResumePoint(path) < j.rc.to
    BY <1>2, <1>5 DEF Confirmable, Covers, Holds
  <2>2. ResumePoint(path) \in Nat /\ \A n \in 1 .. ResumePoint(path) : ~Due(file[path].inc, n)
    BY <2>1, ResumeBounded
  <2>3. \A n \in 1 .. j.rc.to : n \in 1 .. ResumePoint(path) \/ n \in j.rc.from + 1 .. j.rc.to
    BY <1>1, <2>1, <2>2
  <2> QED BY <1>1, <2>1, <2>2, <2>3 DEF Carries, Passed
<1>6. Carries(j.rc, j.got)
  BY <1>1 DEF Carries
<1>7. JobSound(r)
  BY <1>2, <1>3, <1>5, <1>6 DEF JobSound
<1> QED BY <1>4, <1>7, WorkerGoesOn DEF Check

LEMMA StoreStep ==
    ASSUME LogInv, NEW w \in Workers, Store(w)
    PROVE  LogInv'
<1>1. PICK j \in JobStates :
         /\ j = worker[w] /\ j.pc = "store" /\ Passed(j.rc.inc, j.rc.to)
         /\ j.rc.inode \in Nat /\ j.rc.inc \in Nat /\ j.rc.from \in Nat /\ j.rc.to \in Nat
  BY WorkerFacts DEF Store, JobSound
<1>2. PICK r \in JobStates :
         r = [j EXCEPT !.pc = "done", !.ok = TRUE] /\ r.pc = "done" /\ r.rc = j.rc /\ r.got = j.got
  <2>1. [j EXCEPT !.pc = "done", !.ok = TRUE] \in JobStates
    BY DEF JobStates
  <2> QED BY <2>1 DEF JobStates
<1>3. worker' = [worker EXCEPT ![w] = r]
  <2>1. worker' = [worker EXCEPT ![w].pc = "done", ![w].ok = TRUE]
    BY DEF Store
  <2>2. w \in DOMAIN worker /\ worker[w] = j
    BY <1>1 DEF LogInv, LogShape
  <2>3. worker' = [worker EXCEPT ![w] = [j EXCEPT !.pc = "done", !.ok = TRUE]]
    BY <2>1, <2>2 DEF JobStates
  <2> QED BY <1>2, <2>3
<1>4. Carries(j.rc, j.got)
  BY <1>1 DEF Carries, Passed
<1>5. JobSound(r)
  BY <1>2, <1>4 DEF JobSound
<1>6. /\ cp' = [pos |-> j.rc.to, inode |-> j.rc.inode, inc |-> j.rc.inc]
      /\ UNCHANGED <<sourceVars, trackVars, channelVars, sessionVars>>
  BY <1>1 DEF Store
<1>7. cp' \in [pos : Nat, inode : Nat, inc : Nat] /\ cp'.inc = j.rc.inc /\ cp'.pos = j.rc.to
  BY <1>1, <1>6
<1> QED BY <1>1, <1>3, <1>5, <1>6, <1>7, WorkerMoves

LEMMA DiscardStep ==
    ASSUME LogInv, NEW w \in Workers, Discard(w)
    PROVE  LogInv'
  BY FreeSound, WorkerGoesOn DEF Discard

-----------------------------------------------------------------------------
(* log_loop, the tracker, the acks and the sessions.                       *)

LEMMA CheckpointFacts ==
    ASSUME LogInv
    PROVE  \E x, p \in Nat : cp.inc = x /\ cp.pos = p /\ Passed(x, p)
  BY DEF LogInv, LogShape

LEMMA PrunedFacts ==
    ASSUME LogInv, NEW P
    PROVE  /\ DOMAIN Pruned(P) \subseteq DOMAIN pending
           /\ Pruned(P) \in [DOMAIN Pruned(P) -> Ranges]
           /\ \A b \in DOMAIN Pruned(P) : Pruned(P)[b] = pending[b] /\ pending[b] \in Ranges
  BY DEF LogInv, LogShape, Pruned

\* A step that sends nothing and leaves the checkpoint alone.
LEMMA QuietLoop ==
    ASSUME LogInv, UNCHANGED <<sourceVars, cp, delivered>>,
           DOMAIN pending' \subseteq DOMAIN pending, pending' \in [DOMAIN pending' -> Ranges],
           \A b \in DOMAIN pending' : pending'[b] = pending[b],
           wire' \subseteq wire, acks' \subseteq acks, sent' = [b \in wire' \cup acks' |-> sent[b]],
           worker' \in [Workers -> JobStates],
           \A w \in Workers : \/ worker'[w] = worker[w]
                              \/ \E r \in JobStates : worker'[w] = r /\ JobSound(r),
           loop' = "collecting" => DOMAIN pending' = {}
    PROVE  LogInv'
<1>1. UNCHANGED <<path, file, incs, wanted>>
  BY DEF sourceVars
<1>2. /\ DOMAIN sent = wire \cup acks /\ DOMAIN sent' = wire' \cup acks'
      /\ \A b \in DOMAIN sent : sent[b] \in SUBSET Spots
      /\ \A b \in DOMAIN sent' : sent'[b] = sent[b] /\ b \in DOMAIN sent
  BY DEF LogInv, LogShape
<1>3. sent' \in [wire' \cup acks' -> SUBSET Spots]
  BY <1>2
<1>4. LogShape'
  BY <1>1, <1>3 DEF LogInv, LogShape
<1>5. \A b \in DOMAIN pending' \cap DOMAIN sent' :
         \E rc \in Ranges, lines \in SUBSET Spots :
            pending'[b] = rc /\ sent'[b] = lines /\ Carries(rc, lines)
  <2> SUFFICES ASSUME NEW b \in DOMAIN pending' \cap DOMAIN sent'
               PROVE  /\ pending'[b] \in Ranges /\ sent'[b] \in SUBSET Spots
                      /\ \E rc \in Ranges, lines \in SUBSET Spots :
                            pending'[b] = rc /\ sent'[b] = lines /\ Carries(rc, lines)
    OBVIOUS
  <2>1. pending'[b] \in Ranges /\ sent'[b] \in SUBSET Spots
    BY <1>3
  <2>2. Carries(pending[b], sent[b]) /\ pending'[b] = pending[b] /\ sent'[b] = sent[b]
    BY <1>2 DEF LogInv
  <2> QED BY <2>1, <2>2
<1>6. /\ \A b \in acks' : sent'[b] \subseteq delivered'
      /\ \A b, c \in DOMAIN pending' : b = c
  BY <1>2 DEF LogInv
<1>7. PICK x \in Nat, p \in Nat : cp'.inc = x /\ cp'.pos = p /\ Passed(x, p)
  BY CheckpointFacts
<1> QED BY <1>4, <1>5, <1>6, <1>7, AgentStep

LEMMA TurnStep ==
    ASSUME LogInv, NEW w \in Workers, NEW P, Turn(w, P)
    PROVE  LogInv'
<1>1. /\ pending' = Pruned(P)
      /\ loop' = "collecting" => DOMAIN pending' = {}
  BY DEF Turn, InFlight
<1>2. /\ UNCHANGED <<sourceVars, cp, delivered, wire, acks>> /\ sent' = sent
  BY DEF Turn, channelVars
<1>3. sent' = [b \in wire' \cup acks' |-> sent[b]]
  BY <1>2 DEF LogInv, LogShape
<1>4. PICK r \in JobStates : worker' = [worker EXCEPT ![w] = r] /\ JobSound(r)
  <2>1. CASE InFlight(Pruned(P))
    <3>1. worker' = worker
      BY <2>1 DEF Turn
    <3>2. worker' = [worker EXCEPT ![w] = worker[w]]
      BY <3>1 DEF LogInv, LogShape
    <3> QED BY <3>2, WorkerFacts
  <2>2. CASE ~InFlight(Pruned(P))
    <3>1. PICK S \in SUBSET Ranges : S = {Pruned(P)[b] : b \in DOMAIN Pruned(P)}
      BY PrunedFacts
    <3>2. PICK r \in JobStates :
             /\ r = [Free EXCEPT !.pc = "open", !.job = "collect", !.live = TRUE, !.snap = S]
             /\ r.pc = "open" /\ r.got = {}
      <4>1. [Free EXCEPT !.pc = "open", !.job = "collect", !.live = TRUE, !.snap = S] \in JobStates
        BY FreeSound DEF JobStates
      <4> QED BY <4>1 DEF Free
    <3>3. worker' = [worker EXCEPT ![w] = r]
      BY <2>2, <3>1, <3>2 DEF Turn
    <3> QED BY <3>2, <3>3 DEF JobSound
  <2> QED BY <2>1, <2>2
<1>5. worker' \in [Workers -> JobStates] /\ \A v \in Workers : worker'[v] = IF v = w THEN r ELSE worker[v]
  BY <1>4 DEF LogInv, LogShape
<1> QED BY <1>1, <1>2, <1>3, <1>4, <1>5, PrunedFacts, QuietLoop

\* The batch is tracked and sent under an id that nothing bears, while none is pending.
LEMMA ShipStep ==
    ASSUME LogInv, NEW w \in Workers, Ship(w)
    PROVE  LogInv'
<1>1. PICK j \in JobStates :
         /\ j = worker[w] /\ j.pc = "done" /\ JobSound(j) /\ j.rc \in Ranges /\ j.got \in SUBSET Spots
  BY WorkerFacts DEF Ship
<1>2. /\ loop = "collecting" /\ DOMAIN pending = {} /\ worker' = [worker EXCEPT ![w] = Free]
      /\ UNCHANGED <<sourceVars, cp, acks, delivered>>
  BY DEF Ship, LogInv
<1>3. /\ worker' \in [Workers -> JobStates]
      /\ \A v \in Workers : worker'[v] = worker[v] \/ \E r \in JobStates : worker'[v] = r /\ JobSound(r)
  BY <1>2, FreeSound DEF LogInv, LogShape
<1>4. CASE Matched(j.got) = {}
  <2>1. pending' = pending /\ wire' = wire /\ sent' = sent /\ loop' = "ready"
    BY <1>1, <1>4 DEF Ship, trackVars
  <2>2. sent' = [b \in wire' \cup acks' |-> sent[b]] /\ pending' \in [DOMAIN pending' -> Ranges]
    BY <1>2, <2>1 DEF LogInv, LogShape
  <2> QED BY <1>2, <1>3, <2>1, <2>2, QuietLoop
<1>5. CASE Matched(j.got) # {}
  <2>1. PICK b \in Batches \ (DOMAIN pending \cup DOMAIN sent \cup receiving) :
           /\ pending' = [c \in DOMAIN pending \cup {b} |-> IF c = b THEN j.rc ELSE pending[c]]
           /\ sent' = [c \in DOMAIN sent \cup {b} |-> IF c = b THEN Matched(j.got) ELSE sent[c]]
           /\ wire' = wire \cup {b} /\ loop' # "collecting"
    BY <1>1, <1>5, ZenonT(60) DEF Ship
  <2>2. PICK m \in SUBSET Spots : m = Matched(j.got)
    BY <1>1 DEF Matched
  <2>3. DOMAIN pending' = {b} /\ pending'[b] = j.rc /\ sent'[b] = m
    BY <1>2, <2>1, <2>2
  <2>4. DOMAIN sent = wire \cup acks /\ \A c \in DOMAIN sent : sent'[c] = sent[c] /\ sent[c] \in SUBSET Spots
    BY <2>1 DEF LogInv, LogShape
  <2>5. Carries(j.rc, m)
    BY <1>1, <1>5, <2>2 DEF JobSound, Carries, Matched, Due
  <2>6. LogShape'
    <3>1. sent' \in [wire' \cup acks' -> SUBSET Spots] /\ wire' \cap acks' = {}
      <4>1. \A c \in DOMAIN sent' : sent'[c] \in SUBSET Spots
        BY <2>1, <2>2, <2>3, <2>4
      <4>2. DOMAIN sent' = wire' \cup acks'
        BY <1>2, <2>1, <2>4
      <4>3. wire' \cap acks' = {}
        BY <1>2, <2>1, <2>4 DEF LogInv, LogShape
      <4> QED BY <2>1, <4>1, <4>2, <4>3
    <3>2. pending' \in [DOMAIN pending' -> Ranges]
      BY <1>1, <2>1, <2>3
    <3> QED BY <1>2, <1>3, <3>1, <3>2 DEF LogInv, LogShape, sourceVars
  <2>7. \A c \in DOMAIN pending' \cap DOMAIN sent' :
           \E rc \in Ranges, lines \in SUBSET Spots :
              pending'[c] = rc /\ sent'[c] = lines /\ Carries(rc, lines)
    BY <1>1, <2>2, <2>3, <2>5
  <2>8. \A c \in acks' : sent'[c] \subseteq delivered'
    BY <1>2, <2>4 DEF LogInv
  <2>9. \A c, d \in DOMAIN pending' : c = d
    BY <2>3
  <2>10. PICK x \in Nat, p \in Nat : cp'.inc = x /\ cp'.pos = p /\ Passed(x, p)
    BY <1>2, CheckpointFacts
  <2> QED BY <1>2, <1>3, <2>1, <2>6, <2>7, <2>8, <2>9, <2>10, AgentStep
<1> QED BY <1>4, <1>5

LEMMA ControlPlaneStep ==
    ASSUME LogInv, NEW b, ControlPlaneReads(b)
    PROVE  LogInv'
<1>1. /\ b \in wire /\ wire' = wire \ {b} /\ acks' = acks \cup {b} /\ delivered' = delivered \cup sent[b]
      /\ UNCHANGED <<sourceVars, cp, pending, sent, loop, worker>>
  BY DEF ControlPlaneReads, trackVars, sessionVars
<1>2. LogShape'
  <2>1. wire' \cup acks' = wire \cup acks /\ wire' \cap acks' = {}
    BY <1>1 DEF LogInv, LogShape
  <2>2. sent' \in [wire' \cup acks' -> SUBSET Spots]
    BY <1>1, <2>1 DEF LogInv, LogShape
  <2> QED BY <1>1, <2>1, <2>2 DEF LogInv, LogShape, sourceVars
<1>3. \A c \in DOMAIN pending' \cap DOMAIN sent' :
         \E rc \in Ranges, lines \in SUBSET Spots :
            pending'[c] = rc /\ sent'[c] = lines /\ Carries(rc, lines)
  BY <1>1 DEF LogInv, LogShape
<1>4. /\ \A c \in acks' : sent'[c] \subseteq delivered'
      /\ \A c, d \in DOMAIN pending' : c = d
      /\ loop' = "collecting" => DOMAIN pending' = {}
  BY <1>1 DEF LogInv
<1>5. PICK x \in Nat, p \in Nat : cp'.inc = x /\ cp'.pos = p /\ Passed(x, p)
  BY <1>1, CheckpointFacts
<1>6. delivered \subseteq delivered' /\ \A w \in Workers : worker'[w] = worker[w]
  BY <1>1
<1> QED BY <1>1, <1>2, <1>3, <1>4, <1>5, <1>6, AgentStep

LEMMA ForgetFacts ==
    ASSUME LogInv, NEW b \in acks, acks' = acks \ {b}, wire' = wire, Forget(b)
    PROVE  sent' = [c \in wire' \cup acks' |-> sent[c]]
<1>1. DOMAIN sent \ {b} = wire' \cup acks'
  BY DEF LogInv, LogShape
<1> QED BY <1>1 DEF Forget

LEMMA IgnoreAckStep ==
    ASSUME LogInv, NEW b, IgnoreAck(b)
    PROVE  LogInv'
<1>1. /\ b \in acks /\ acks' = acks \ {b} /\ wire' = wire /\ Forget(b)
      /\ UNCHANGED <<sourceVars, cp, delivered, pending, loop, worker>>
  BY DEF IgnoreAck, trackVars, sessionVars
<1>2. sent' = [c \in wire' \cup acks' |-> sent[c]]
  BY <1>1, ForgetFacts
<1>3. /\ pending' \in [DOMAIN pending' -> Ranges] /\ worker' \in [Workers -> JobStates]
      /\ loop' = "collecting" => DOMAIN pending' = {}
  BY <1>1 DEF LogInv, LogShape
<1> QED BY <1>1, <1>2, <1>3, QuietLoop

\* An ack of a batch still tracked: every line due of its range has been delivered.
LEMMA HandleAckStep ==
    ASSUME LogInv, NEW b, NEW w \in Workers, HandleAck(b, w)
    PROVE  LogInv'
<1>1. /\ b \in acks /\ b \in DOMAIN pending /\ acks' = acks \ {b} /\ wire' = wire /\ Forget(b)
      /\ UNCHANGED <<sourceVars, cp, delivered, pending, loop>>
  BY DEF HandleAck, trackVars
<1>2. sent' = [c \in wire' \cup acks' |-> sent[c]]
  BY <1>1, ForgetFacts
<1>3. /\ pending' \in [DOMAIN pending' -> Ranges]
      /\ loop' = "collecting" => DOMAIN pending' = {}
  BY <1>1 DEF LogInv, LogShape
<1>4. pending[b] \in Ranges /\ Carries(pending[b], sent[b]) /\ sent[b] \subseteq delivered
  BY <1>1 DEF LogInv, LogShape
<1>5. Carries(pending[b], {})
  BY <1>4 DEF Carries, Due
<1>6. PICK r \in JobStates :
         /\ r = [Free EXCEPT !.pc = "check", !.job = "confirm", !.live = TRUE, !.rc = pending[b]]
         /\ r.pc = "check" /\ r.rc = pending[b]
  <2>1. [Free EXCEPT !.pc = "check", !.job = "confirm", !.live = TRUE, !.rc = pending[b]] \in JobStates
    BY <1>4, FreeSound DEF JobStates
  <2> QED BY <2>1 DEF Free
<1>7. worker' = [worker EXCEPT ![w] = r] /\ JobSound(r)
  BY <1>5, <1>6 DEF HandleAck, JobSound
<1>8. worker' \in [Workers -> JobStates] /\ \A v \in Workers : worker'[v] = IF v = w THEN r ELSE worker[v]
  BY <1>7 DEF LogInv, LogShape
<1> QED BY <1>1, <1>2, <1>3, <1>7, <1>8, QuietLoop

LEMMA AckDoneStep ==
    ASSUME LogInv, NEW w \in Workers, AckDone(w)
    PROVE  LogInv'
<1>1. PICK b \in receiving : pending' = Pruned({b})
  BY DEF AckDone, Pop
<1>2. /\ worker' = [worker EXCEPT ![w] = Free] /\ loop' = loop
      /\ UNCHANGED <<sourceVars, cp, sent, wire, acks, delivered>>
  BY DEF AckDone, channelVars
<1>3. sent' = [c \in wire' \cup acks' |-> sent[c]]
  BY <1>2 DEF LogInv, LogShape
<1>4. loop' = "collecting" => DOMAIN pending' = {}
  BY <1>1, <1>2, PrunedFacts DEF LogInv
<1>5. worker' \in [Workers -> JobStates] /\ \A v \in Workers : worker'[v] = IF v = w THEN Free ELSE worker[v]
  BY <1>2, FreeSound DEF LogInv, LogShape
<1> QED BY <1>1, <1>2, <1>3, <1>4, <1>5, PrunedFacts, FreeSound, QuietLoop

LEMMA ConnectStep ==
    ASSUME LogInv, Connect \/ Wake \/ UNCHANGED vars
    PROVE  LogInv'
<1>1. UNCHANGED <<sourceVars, cp, delivered, pending, sent, wire, acks, worker>>
  BY DEF Connect, Wake, vars, sourceVars, trackVars, channelVars, sessionVars
<1>2. loop' = "collecting" => loop = "collecting"
  BY DEF Connect, Wake, vars, sessionVars
<1>3. /\ sent' = [c \in wire' \cup acks' |-> sent[c]] /\ pending' \in [DOMAIN pending' -> Ranges]
      /\ worker' \in [Workers -> JobStates]
      /\ loop' = "collecting" => DOMAIN pending' = {}
  BY <1>1, <1>2 DEF LogInv, LogShape
<1> QED BY <1>1, <1>3, QuietLoop

\* The threads go on; their callers are gone.
LEMMA DisconnectStep ==
    ASSUME LogInv, Disconnect
    PROVE  LogInv'
<1>1. /\ loop' = "off" /\ pending' = Pruned(receiving) /\ wire' = {} /\ acks' = {}
      /\ sent' = [b \in {} |-> {}] /\ worker' = [w \in Workers |-> [worker[w] EXCEPT !.live = FALSE]]
      /\ UNCHANGED <<sourceVars, cp, delivered>>
  BY DEF Disconnect
<1>2. sent' = [b \in wire' \cup acks' |-> sent[b]]
  BY <1>1
<1>3. ASSUME NEW w \in Workers
      PROVE  \E r \in JobStates : worker'[w] = r /\ JobSound(r)
  <2>1. worker[w] \in JobStates /\ JobSound(worker[w])
    BY WorkerFacts
  <2>2. PICK r \in JobStates :
           /\ r = [worker[w] EXCEPT !.live = FALSE] /\ r.pc = worker[w].pc /\ r.rc = worker[w].rc
           /\ r.at = worker[w].at /\ r.got = worker[w].got
    <3>1. [worker[w] EXCEPT !.live = FALSE] \in JobStates
      BY <2>1 DEF JobStates
    <3> QED BY <2>1, <3>1 DEF JobStates
  <2>3. JobSound(r)
    BY <2>1, <2>2 DEF JobSound, ReadSound
  <2> QED BY <1>1, <2>2, <2>3
<1>4. worker' \in [Workers -> JobStates]
  BY <1>1, <1>3
<1> QED BY <1>1, <1>2, <1>3, <1>4, PrunedFacts, QuietLoop

LEMMA CrashStep ==
    ASSUME LogInv, Crash
    PROVE  LogInv'
<1>1. /\ loop' = "off" /\ pending' = NoBatches /\ wire' = {} /\ acks' = {}
      /\ sent' = [b \in {} |-> {}] /\ worker' = [w \in Workers |-> Free]
      /\ UNCHANGED <<sourceVars, cp, delivered>>
  BY DEF Crash
<1>2. sent' = [b \in wire' \cup acks' |-> sent[b]] /\ DOMAIN pending' = {} /\ pending' \in [DOMAIN pending' -> Ranges]
  BY <1>1 DEF NoBatches
<1>3. worker' \in [Workers -> JobStates] /\ \A w \in Workers : worker'[w] = Free
  BY <1>1, FreeSound
<1> QED BY <1>1, <1>2, <1>3, FreeSound, QuietLoop

-----------------------------------------------------------------------------
(* The theorem.                                                            *)

LEMMA LogStarts ==
    ASSUME Init
    PROVE  LogInv
<1>1. Free \in JobStates /\ JobSound(Free)
  BY FreeSound
<1>2. DOMAIN file = {1} /\ file[1] = [inc |-> 1, len |-> 0] /\ file[1].inc = 1 /\ incs = 1
  BY DEF Init
<1>3. LogShape
  <2>1. file \in [DOMAIN file -> [inc : 1 .. incs, len : Nat]]
    BY <1>2 DEF Init
  <2>2. cp \in [pos : Nat, inode : Nat, inc : Nat] /\ worker \in [Workers -> JobStates]
    BY <1>1 DEF Init
  <2>3. pending \in [DOMAIN pending -> Ranges] /\ sent \in [wire \cup acks -> SUBSET Spots]
    BY DEF Init, NoBatches
  <2> QED BY <1>2, <2>1, <2>2, <2>3 DEF LogShape, Init
<1>4. Passed(cp.inc, cp.pos)
  BY <1>2 DEF Init, Passed, Reached
<1>5. DOMAIN pending = {} /\ acks = {} /\ \A w \in Workers : worker[w] = Free
  BY DEF Init, NoBatches
<1> QED BY <1>1, <1>3, <1>4, <1>5 DEF LogInv

\* The next read of a file group starts past a matching line only when the control plane
\* has it, and one batch at most is in flight: for any number of threads, batch ids,
\* incarnations, lines, sessions and crashes, and every cap, as long as no truncation
\* falls inside a read that already has lines (TornReads; README, Known divergences).
\* It is about read_new_lines and confirm_shipped of LogTailer, log_loop, and the
\* handler of acks.
THEOREM LinesKept == ~TornReads => (Spec => []ShippingSound)
<1> SUFFICES ASSUME ~TornReads
             PROVE  Spec => []ShippingSound
  OBVIOUS
<1>1. Init => LogInv
  BY LogStarts
<1>2. LogInv /\ [Next]_vars => LogInv'
  <2> SUFFICES ASSUME LogInv, [Next]_vars
               PROVE  LogInv'
    OBVIOUS
  <2>1. CASE \E matches \in BOOLEAN : AppendLine(matches)
    BY <2>1, AppendStep
  <2>2. CASE RenameAway \/ Create \/ Truncate
    BY <2>2, RenameStep, CreateStep, TruncateStep
  <2>3. ASSUME NEW w \in Workers, Work(w) \/ \E P \in SUBSET DOMAIN pending : Turn(w, P)
        PROVE  LogInv'
    BY <2>3, OpenStep, ReadLineStep, ReadEndStep, CheckStep, StoreStep, ShipStep, DiscardStep,
       AckDoneStep, TurnStep DEF Work
  <2>4. ASSUME NEW b \in Batches,
               ControlPlaneReads(b) \/ IgnoreAck(b) \/ \E w \in Workers : HandleAck(b, w)
        PROVE  LogInv'
    BY <2>4, ControlPlaneStep, IgnoreAckStep, HandleAckStep
  <2>5. CASE Wake \/ Connect \/ UNCHANGED vars
    BY <2>5, ConnectStep
  <2>6. CASE Disconnect \/ Crash
    BY <2>6, DisconnectStep, CrashStep
  <2> QED BY <2>1, <2>2, <2>3, <2>4, <2>5, <2>6 DEF Next
<1>3. LogInv => ShippingSound
  <2> SUFFICES ASSUME LogInv PROVE NoSkip /\ OneInFlight
    BY DEF ShippingSound
  <2>1. NoSkip
    BY ResumeBounded DEF NoSkip, Due
  <2>2. OneInFlight
    <3>1. CASE DOMAIN pending = {}
      BY <3>1, FS_EmptySet DEF OneInFlight
    <3>2. CASE DOMAIN pending # {}
      <4>1. PICK b : DOMAIN pending = {b}
        BY <3>2 DEF LogInv
      <4> QED BY <4>1, FS_Singleton DEF OneInFlight
    <3> QED BY <3>1, <3>2
  <2> QED BY <2>1, <2>2
<1> QED BY <1>1, <1>2, <1>3, PTL DEF Spec
=============================================================================
