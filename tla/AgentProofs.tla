---------------------------- MODULE AgentProofs ----------------------------
(***************************************************************************)
(* Proofs about what stands between the agent and the control plane.       *)
(* Dispatch, for any frames, shapes, ages and skews: a frame is taken up   *)
(* once, what runs was allowed, and what ended was answered.  CertRenew,   *)
(* for any number of certificates, keys and faults: wherever a renewal     *)
(* stops, and with the agent and the command line renewing together, a     *)
(* start loads a pair that is renewed.  AgentSession, for any delays: a    *)
(* connection that does not last makes the next wait longer.               *)
(***************************************************************************)
EXTENDS Dispatch, CertRenew, AgentSession, SequenceTheorems, WellFoundedInduction, TLAPS

-----------------------------------------------------------------------------
(* Dispatch.                                                               *)

Handled(f) == handler # NoFrame /\ handler.frame = f

\* A frame that the receive loop has let through, at any time.
Taken(f) == ran[f] # <<>> \/ answers[f] # <<>> \/ f \in ended \/ Handled(f)

\* What the nonce table is for: as long as a frame that was taken is fresh, its
\* nonce is there, and will not be purged while that is so.
Remembered ==
    \A f \in Frames : Taken(f) =>
        /\ sent[f] # Unsent
        /\ \/ clock - sent[f].ts > MaxAge
           \/ \E n \in nonces : n.frame = f /\ n.seen >= sent[f].ts - Skew

\* An envelope is of the kind of what it carries.
ShapeKept == \A f \in Frames : sent[f] # Unsent => sent[f].kind = sent[f].shape.kind

\* The handler works its steps off in order: what has run and what was answered lies
\* behind it, and what has run is answered, but for the step whose answer is due.
InOrder ==
    handler # NoFrame =>
        LET f == handler.frame IN
        /\ f \notin ended /\ handler.i \in DOMAIN sent[f].shape.steps
        /\ handler.at \in {"restart", "lookup", "batch"} =>
               sent[f].kind = "sequence" /\ ran[f] = <<>> /\ answers[f] = <<>>
        /\ handler.at = "answer" => handler.v # "none"
        /\ \A k \in DOMAIN answers[f] : answers[f][k].i < handler.i
        /\ \A k \in DOMAIN ran[f] :
               \/ ran[f][k].i = handler.i /\ handler.at = "answer"
               \/ ran[f][k].i < handler.i /\ \E j \in DOMAIN answers[f] : answers[f][j].i = ran[f][k].i

\* The history of the seal and of the grant is what the readings show, and the
\* handler has got as far as they allow.
Admitted ==
    handler # NoFrame =>
        LET steps == sent[handler.frame].shape.steps IN
        /\ ~ sealed => handler.openStep
        /\ handler.openStep => handler.open
        /\ granted => handler.grantStep
        /\ handler.at \notin {"restart", "lookup", "batch"} /\ sent[handler.frame].kind = "sequence" =>
               \A j \in DOMAIN steps : steps[j] = "hatch" => handler.open
        /\ handler.at \notin {"restart", "lookup", "batch", "seal"} /\ steps[handler.i] = "hatch" =>
               handler.openStep

DispatchInv ==
    /\ DispatchTypeOK /\ ShapeKept /\ Remembered /\ InOrder /\ Admitted
    /\ RunsOnce /\ SealHolds /\ AnsweredInFull

----------------------------------------------------------------------------
\* A set of numbers that is not empty has a least one.
LEMMA LeastNat ==
    ASSUME NEW T, T \subseteq Nat, T # {}
    PROVE  \E x \in T : \A y \in T : x =< y
<1> DEFINE R == OpToRel(<, Nat)
<1>1. \E x \in T : \A y \in T : ~ (<<y, x>> \in R)
  BY WFMin, NatLessThanWellFounded
<1>2. \A x, y \in Nat : <<y, x>> \in R <=> y < x
  BY DEF OpToRel
<1> HIDE DEF R
<1>3. PICK x \in T : \A y \in T : ~ (<<y, x>> \in R)
  BY <1>1
<1>4. ASSUME NEW y \in T PROVE x =< y
  <2>1. x \in Nat /\ y \in Nat /\ ~ (<<y, x>> \in R)
    BY <1>3
  <2>2. ~ (y < x)
    BY <1>2, <2>1
  <2>3. QED
    BY <2>1, <2>2
<1>5. QED
  BY <1>4

\* One more element at the end.
LEMMA AppendFacts ==
    ASSUME NEW S, NEW q \in Seq(S), NEW e \in S
    PROVE  /\ Append(q, e) \in Seq(S) /\ Append(q, e) # <<>>
           /\ Len(q) \in Nat /\ DOMAIN q = 1 .. Len(q)
           /\ Len(Append(q, e)) = Len(q) + 1 /\ DOMAIN Append(q, e) = 1 .. Len(q) + 1
           /\ \A k \in DOMAIN q : Append(q, e)[k] = q[k]
           /\ Append(q, e)[Len(q) + 1] = e
BY AppendProperties, LenProperties

\* The steps of an envelope that was sent.
LEMMA StepsTyped ==
    ASSUME DispatchTypeOK, NEW f \in Frames, sent[f] # Unsent
    PROVE  /\ sent[f] \in Envelopes /\ sent[f].shape \in Shapes
           /\ sent[f].shape.steps \in Seq(CommandKinds)
           /\ Len(sent[f].shape.steps) \in Nat \ {0}
           /\ DOMAIN sent[f].shape.steps = 1 .. Len(sent[f].shape.steps)
<1>1. sent[f] \in Envelopes /\ sent[f].shape \in Shapes
  BY DEF DispatchTypeOK, Envelopes
<1>2. sent[f].shape.steps \in Seq(CommandKinds) /\ sent[f].shape.steps # <<>>
  BY <1>1, DispatchAssumption
<1>3. QED
  BY <1>1, <1>2, LenProperties, EmptySeq

\* The frame in hand.
LEMMA HandlerTyped ==
    ASSUME DispatchInv, handler # NoFrame
    PROVE  /\ handler \in HandlerStates /\ handler.at # "idle"
           /\ handler.frame \in Frames /\ handler.i \in Nat
           /\ sent[handler.frame] # Unsent /\ handler.frame \notin ended
           /\ handler.i \in 1 .. Len(StepsOf) /\ DOMAIN StepsOf = 1 .. Len(StepsOf)
           /\ Len(StepsOf) \in Nat
<1>1. handler \in HandlerStates
  BY DEF DispatchInv, DispatchTypeOK
<1>2. handler.frame \in Frames /\ handler.i \in Nat /\ handler.at # "idle"
  BY <1>1 DEF HandlerStates
<1>3. sent[handler.frame] # Unsent
  BY <1>2 DEF DispatchInv, Remembered, Taken, Handled
<1>4. QED
  BY <1>1, <1>2, <1>3, StepsTyped DEF DispatchInv, InOrder, StepsOf

\* The initial states.
LEMMA DispatchInitInv == DispatchInit => DispatchInv
<1> SUFFICES ASSUME DispatchInit PROVE DispatchInv
  OBVIOUS
<1> USE DispatchAssumption DEF DispatchInit
<1>1. DispatchTypeOK
  <2>1. <<>> \in Seq([i : Nat, open : BOOLEAN, openStep : BOOLEAN, grantStep : BOOLEAN])
        /\ <<>> \in Seq([i : Nat, v : {"ok", "failed", "refused"}])
    BY EmptySeq
  <2>2. QED
    BY <2>1 DEF DispatchTypeOK, BuildAgentDependencies, ResolveIntegration
<1>2. ShapeKept /\ Remembered /\ InOrder /\ Admitted
  BY DEF ShapeKept, Remembered, Taken, Handled, InOrder, Admitted
<1>3. RunsOnce /\ SealHolds /\ AnsweredInFull
  <2>1. DOMAIN <<>> = {}
    BY EmptySeq
  <2>2. QED
    BY <2>1 DEF RunsOnce, SealHolds, AnsweredInFull
<1>4. QED
  BY <1>1, <1>2, <1>3 DEF DispatchInv

----------------------------------------------------------------------------
RanRecords == [i : Nat, open : BOOLEAN, openStep : BOOLEAN, grantStep : BOOLEAN]
AnswerRecords == [i : Nat, v : {"ok", "failed", "refused"}]

\* What the properties need of a step that leaves what ran and what was answered alone.
LEMMA HistoryKept ==
    ASSUME DispatchInv, UNCHANGED <<ran, answers, ended, raised>>,
           \A f \in Frames : sent[f] # Unsent => sent'[f] = sent[f]
    PROVE  RunsOnce' /\ SealHolds' /\ AnsweredInFull'
<1>1. RunsOnce'
  BY DEF DispatchInv, RunsOnce
<1>2. \A f \in Frames : ran[f] # <<>> \/ f \in ended => sent'[f] = sent[f]
  BY DEF DispatchInv, Remembered, Taken
<1>3. SealHolds'
  <2> SUFFICES ASSUME NEW f \in Frames, NEW k \in DOMAIN ran[f]
               PROVE  sent'[f] = sent[f]
    BY DEF DispatchInv, SealHolds
  <2>1. ran[f] # <<>>
    BY EmptySeq
  <2>2. QED
    BY <1>2, <2>1
<1>4. AnsweredInFull'
  BY <1>2 DEF DispatchInv, DispatchTypeOK, AnsweredInFull, Answered
<1>5. QED
  BY <1>1, <1>3, <1>4

\* The control plane, the clock, the operator, the session and the process.
LEMMA SendInv ==
    ASSUME DispatchInv, NEW f \in Frames, Send(f)
    PROVE  DispatchInv'
<1>1. PICK shape \in Shapes, ts \in (clock - 1) .. (clock + Skew + 1) :
        sent' = [sent EXCEPT ![f] = [kind |-> shape.kind, shape |-> shape, ts |-> ts]]
  BY DEF Send
<1>2. [kind |-> shape.kind, shape |-> shape, ts |-> ts] \in Envelopes
  BY DispatchAssumption DEF Envelopes, DispatchInv, DispatchTypeOK
<1>3. \A g \in Frames : sent[g] # Unsent => sent'[g] = sent[g]
  BY <1>1 DEF Send, DispatchInv, DispatchTypeOK
<1>4. DispatchTypeOK'
  BY <1>1, <1>2 DEF Send, DispatchInv, DispatchTypeOK
<1>5. ShapeKept' /\ Remembered'
  BY <1>1, <1>2, <1>3 DEF Send, DispatchInv, DispatchTypeOK, ShapeKept, Remembered, Taken, Handled
<1>6. InOrder' /\ Admitted'
  <2>1. CASE handler = NoFrame
    BY <2>1 DEF Send, InOrder, Admitted
  <2>2. CASE handler # NoFrame
    <3>1. sent'[handler.frame] = sent[handler.frame]
      BY <1>3, <2>2, HandlerTyped
    <3>2. QED
      BY <3>1, <2>2 DEF Send, DispatchInv, InOrder, Admitted
  <2>3. QED
    BY <2>1, <2>2
<1>7. RunsOnce' /\ SealHolds' /\ AnsweredInFull'
  BY <1>3, HistoryKept DEF Send
<1>8. QED
  BY <1>4, <1>5, <1>6, <1>7 DEF DispatchInv

LEMMA OutsideInv ==
    ASSUME DispatchInv, Tick \/ ToggleSeal \/ ToggleGrant \/ SessionOpens \/ Drop \/ Restart
    PROVE  DispatchInv'
<1>1. UNCHANGED <<sent, nonces, ran, answers, ended, raised>>
  BY DEF Tick, ToggleSeal, ToggleGrant, SessionOpens, Drop, Restart
<1>2. ShapeKept' /\ RunsOnce' /\ SealHolds' /\ AnsweredInFull'
  BY <1>1, HistoryKept DEF DispatchInv, ShapeKept
<1>3. CASE Tick
  <2>1. DispatchTypeOK'
    BY <1>3 DEF DispatchInv, Tick, DispatchTypeOK
  <2>2. Remembered'
    <3> SUFFICES ASSUME NEW f \in Frames, Taken(f),
                        clock - sent[f].ts > MaxAge
                 PROVE  clock' - sent[f].ts > MaxAge
      BY <1>1, <1>3 DEF DispatchInv, Tick, Remembered, Taken, Handled
    <3>1. sent[f].ts \in Int /\ clock \in Nat
      BY StepsTyped DEF DispatchInv, Remembered, Envelopes, DispatchTypeOK
    <3>2. QED
      BY <3>1, <1>3, DispatchAssumption DEF Tick
  <2>3. InOrder' /\ Admitted'
    BY <1>3 DEF DispatchInv, Tick, InOrder, Admitted
  <2>4. QED
    BY <1>2, <2>1, <2>2, <2>3 DEF DispatchInv
<1>4. CASE ToggleSeal
  <2>1. handler = NoFrame => handler' = NoFrame
    BY <1>4 DEF ToggleSeal
  <2>2. handler # NoFrame =>
          /\ handler' \in HandlerStates /\ handler' # NoFrame
          /\ handler'.at = handler.at /\ handler'.frame = handler.frame
          /\ handler'.i = handler.i /\ handler'.v = handler.v
          /\ handler'.grantStep = handler.grantStep
          /\ handler.open => handler'.open
          /\ handler.openStep => handler'.openStep
          /\ sealed => handler'.open /\ handler'.openStep
          /\ ~ sealed => handler' = handler
    BY <1>4, HandlerTyped DEF ToggleSeal, HandlerStates, NoFrame
  <2>3. DispatchTypeOK'
    BY <1>4, <2>1, <2>2 DEF DispatchInv, ToggleSeal, DispatchTypeOK
  <2>4. Remembered'
    BY <1>1, <1>4, <2>1, <2>2 DEF DispatchInv, ToggleSeal, Remembered, Taken, Handled
  <2>5. InOrder'
    BY <1>1, <2>1, <2>2 DEF DispatchInv, InOrder
  <2>6. Admitted'
    BY <1>1, <1>4, <2>1, <2>2 DEF DispatchInv, ToggleSeal, Admitted, DispatchTypeOK
  <2>7. QED
    BY <1>2, <2>3, <2>4, <2>5, <2>6 DEF DispatchInv
<1>5. CASE ToggleGrant
  <2>1. handler = NoFrame => handler' = NoFrame
    BY <1>5 DEF ToggleGrant
  <2>2. handler # NoFrame =>
          /\ handler' \in HandlerStates /\ handler' # NoFrame
          /\ handler'.at = handler.at /\ handler'.frame = handler.frame
          /\ handler'.i = handler.i /\ handler'.v = handler.v
          /\ handler'.open = handler.open /\ handler'.openStep = handler.openStep
          /\ handler.grantStep => handler'.grantStep
          /\ ~ granted => handler'.grantStep
    BY <1>5, HandlerTyped DEF ToggleGrant, HandlerStates, NoFrame
  <2>3. DispatchTypeOK'
    BY <1>5, <2>1, <2>2 DEF DispatchInv, ToggleGrant, DispatchTypeOK
  <2>4. Remembered'
    BY <1>1, <1>5, <2>1, <2>2 DEF DispatchInv, ToggleGrant, Remembered, Taken, Handled
  <2>5. InOrder'
    BY <1>1, <2>1, <2>2 DEF DispatchInv, InOrder
  <2>6. Admitted'
    BY <1>1, <1>5, <2>1, <2>2 DEF DispatchInv, ToggleGrant, Admitted, DispatchTypeOK
  <2>7. QED
    BY <1>2, <2>3, <2>4, <2>5, <2>6 DEF DispatchInv
<1>6. CASE SessionOpens
  <2>1. DispatchTypeOK'
    BY <1>6 DEF DispatchInv, SessionOpens, DispatchTypeOK
  <2>2. Remembered' /\ InOrder' /\ Admitted'
    BY <1>6 DEF DispatchInv, SessionOpens, Remembered, Taken, Handled, InOrder, Admitted
  <2>3. QED
    BY <1>2, <2>1, <2>2 DEF DispatchInv
<1>7. CASE Drop \/ Restart
  <2>1. DispatchTypeOK'
    <3>1. ASSUME Restart PROVE deps' \in [loaded : BOOLEAN, live : BOOLEAN]
      <4>1. PICK live \in BOOLEAN : deps' = [loaded |-> ~ sealed, live |-> live]
        BY <3>1 DEF Restart, BuildAgentDependencies, ResolveIntegration
      <4>2. QED
        BY <4>1
    <3>2. breaks' \in Nat
      BY <1>7 DEF DispatchInv, Drop, Restart, DispatchTypeOK
    <3>3. QED
      BY <1>7, <3>1, <3>2 DEF DispatchInv, Drop, Restart, DispatchTypeOK
  <2>2. Remembered'
    BY <1>7 DEF DispatchInv, Drop, Restart, Remembered, Taken, Handled
  <2>3. InOrder' /\ Admitted'
    BY <1>7 DEF DispatchInv, Drop, Restart, InOrder, Admitted
  <2>4. QED
    BY <1>2, <2>1, <2>2, <2>3 DEF DispatchInv
<1>8. QED
  BY <1>3, <1>4, <1>5, <1>6, <1>7

----------------------------------------------------------------------------
\* A frame that is let through was never taken before: while it is fresh, its nonce
\* is in the table and young enough to survive the purge.
LEMMA NewFrame ==
    ASSUME DispatchInv, NEW f \in Frames, Recv(f)
    PROVE  ~ Taken(f)
<1> SUFFICES ASSUME Taken(f) PROVE FALSE
  OBVIOUS
<1>1. sent[f] # Unsent /\ clock - sent[f].ts =< MaxAge
  BY DEF Recv, VerifyEnvelope
<1>2. sent[f].ts \in Int /\ clock \in Nat
  BY <1>1, StepsTyped DEF DispatchInv, DispatchTypeOK, Envelopes
<1>3. PICK n \in nonces : n.frame = f /\ n.seen >= sent[f].ts - Skew
  BY <1>1, <1>2, DispatchAssumption DEF DispatchInv, Remembered
<1>4. n.seen \in Nat
  BY DEF DispatchInv, DispatchTypeOK
<1>5. n.seen >= Cutoff
  BY <1>1, <1>2, <1>3, <1>4, DispatchAssumption DEF Cutoff
<1>6. QED
  BY <1>3, <1>5 DEF Recv, VerifyEnvelope, CheckAndStore

\* The purge takes only nonces of frames that are no longer fresh.
LEMMA RecvRemembers ==
    ASSUME DispatchInv, NEW f \in Frames, Recv(f)
    PROVE  Remembered'
<1> SUFFICES ASSUME NEW g \in Frames, Taken(g)'
             PROVE  /\ sent[g] # Unsent
                    /\ \/ clock - sent[g].ts > MaxAge
                       \/ \E n \in nonces' : n.frame = g /\ n.seen >= sent[g].ts - Skew
  BY DEF Remembered, Recv, quiet
<1>1. nonces' = {n \in nonces : n.seen >= Cutoff} \cup {[frame |-> f, seen |-> clock]}
  BY DEF Recv, VerifyEnvelope, CheckAndStore
<1>2. CASE g = f
  <2>1. sent[f] # Unsent /\ clock - sent[f].ts >= -Skew
    BY DEF Recv, VerifyEnvelope
  <2>2. sent[f].ts \in Int /\ clock \in Nat
    BY <2>1, StepsTyped DEF DispatchInv, DispatchTypeOK, Envelopes
  <2>3. clock >= sent[f].ts - Skew
    BY <2>1, <2>2, DispatchAssumption
  <2>4. [frame |-> f, seen |-> clock] \in nonces'
    BY <1>1
  <2>5. \E n \in nonces' : n.frame = f /\ n.seen >= sent[f].ts - Skew
    BY <2>3, <2>4
  <2>6. QED
    BY <1>2, <2>1, <2>5
<1>3. CASE g # f
  <2>1. Taken(g)
    BY <1>3 DEF Taken, Handled, Recv, Answer, DispatchInv, DispatchTypeOK
  <2>2. sent[g] # Unsent
    BY <2>1 DEF DispatchInv, Remembered
  <2>3. sent[g].ts \in Int /\ clock \in Nat
    BY <2>2, StepsTyped DEF DispatchInv, DispatchTypeOK, Envelopes
  <2>4. CASE clock - sent[g].ts > MaxAge
    BY <2>2, <2>4
  <2>5. CASE ~ (clock - sent[g].ts > MaxAge)
    <3>1. PICK n \in nonces : n.frame = g /\ n.seen >= sent[g].ts - Skew
      BY <2>1, <2>5 DEF DispatchInv, Remembered
    <3>2. n.seen \in Nat
      BY DEF DispatchInv, DispatchTypeOK
    <3>3. n.seen >= Cutoff
      BY <2>3, <2>5, <3>1, <3>2, DispatchAssumption DEF Cutoff
    <3>4. QED
      BY <1>1, <2>2, <3>1, <3>3
  <2>6. QED
    BY <2>4, <2>5
<1>4. QED
  BY <1>2, <1>3

\* receive_loop takes a frame up, or refuses it in one answer.
LEMMA RecvInv ==
    ASSUME DispatchInv, NEW f \in Frames, Recv(f)
    PROVE  DispatchInv'
<1>1. /\ ran[f] = <<>> /\ answers[f] = <<>> /\ f \notin ended
      /\ sent[f] # Unsent /\ sent' = sent /\ ran' = ran /\ raised' = raised
      /\ handler = NoFrame /\ sealed' = sealed /\ granted' = granted
  BY NewFrame DEF Taken, Recv, quiet
<1>2. /\ sent[f] \in Envelopes /\ sent[f].shape.steps \in Seq(CommandKinds)
      /\ Len(sent[f].shape.steps) \in Nat \ {0}
      /\ DOMAIN sent[f].shape.steps = 1 .. Len(sent[f].shape.steps)
  BY <1>1, StepsTyped DEF DispatchInv
<1>3. DOMAIN <<>> = {}
  BY EmptySeq
<1>4. nonces' \subseteq [frame : Frames, seen : Nat]
  BY DEF Recv, VerifyEnvelope, CheckAndStore, DispatchInv, DispatchTypeOK
<1>5. CASE session = "match"
  <2> DEFINE h == [at |-> IF sent[f].kind = "sequence" THEN "restart" ELSE "seal",
                   frame |-> f, i |-> 1, v |-> "none",
                   open |-> ~ sealed, openStep |-> ~ sealed, grantStep |-> granted]
  <2>1. handler' = h /\ answers' = answers /\ ended' = ended
    BY <1>5 DEF Recv
  <2>2. h \in HandlerStates
    BY DEF HandlerStates, DispatchInv, DispatchTypeOK
  <2>3. /\ h.frame = f /\ h.i = 1 /\ h.at # "answer"
        /\ h.at \in {"restart", "lookup", "batch"} <=> sent[f].kind = "sequence"
        /\ h.at \in {"restart", "lookup", "batch", "seal"}
        /\ h.open = ~ sealed /\ h.openStep = ~ sealed /\ h.grantStep = granted
    OBVIOUS
  <2> HIDE DEF h
  <2>4. DispatchTypeOK'
    BY <1>1, <1>4, <2>1, <2>2 DEF Recv, quiet, DispatchInv, DispatchTypeOK
  <2>5. InOrder'
    BY <1>1, <1>2, <1>3, <2>1, <2>3 DEF InOrder
  <2>6. Admitted'
    BY <1>1, <2>1, <2>3 DEF Admitted
  <2>7. ShapeKept' /\ RunsOnce' /\ SealHolds' /\ AnsweredInFull'
    BY <1>1, <2>1, HistoryKept DEF DispatchInv, ShapeKept
  <2>8. QED
    BY <2>4, <2>5, <2>6, <2>7, RecvRemembers DEF DispatchInv
<1>6. CASE session # "match"
  <2> DEFINE e == [i |-> 1, v |-> "refused"]
  <2>1. /\ answers' = [answers EXCEPT ![f] = Append(@, e)]
        /\ ended' = ended \cup {f} /\ handler' = NoFrame
    BY <1>1, <1>6 DEF Recv, Answer
  <2>2. e \in AnswerRecords /\ e.v = "refused"
    BY DEF AnswerRecords
  <2> HIDE DEF e
  <2>3. /\ answers'[f] \in Seq(AnswerRecords) /\ Len(answers'[f]) = 1
        /\ answers'[f][1] = e /\ DOMAIN answers'[f] = 1 .. 1 /\ answers'[f] # <<>>
    BY <1>1, <2>1, <2>2, AppendFacts, EmptySeq DEF DispatchInv, DispatchTypeOK
  <2>4. \A g \in Frames \ {f} : answers'[g] = answers[g]
    BY <2>1 DEF DispatchInv, DispatchTypeOK
  <2>5. DispatchTypeOK'
    <3>1. answers' \in [Frames -> Seq(AnswerRecords)]
      BY <2>1, <2>3, <2>4 DEF DispatchInv, DispatchTypeOK, AnswerRecords
    <3>2. QED
      BY <1>1, <1>4, <2>1, <3>1 DEF Recv, quiet, DispatchInv, DispatchTypeOK, AnswerRecords
  <2>6. InOrder' /\ Admitted'
    BY <2>1 DEF InOrder, Admitted
  <2>7. RunsOnce'
    BY <1>1, <2>3, <2>4 DEF DispatchInv, RunsOnce
  <2>8. ShapeKept' /\ SealHolds'
    BY <1>1 DEF DispatchInv, ShapeKept, SealHolds
  <2>9. AnsweredInFull'
    <3>1. Answered(f)'
      BY <1>1, <1>3, <2>2, <2>3 DEF Answered
    <3>2. \A g \in (ended \ raised) \ {f} : Answered(g)'
      <4> SUFFICES ASSUME NEW g \in (ended \ raised) \ {f} PROVE Answered(g)'
        OBVIOUS
      <4>1. g \in Frames /\ Answered(g)
        BY DEF DispatchInv, DispatchTypeOK, AnsweredInFull
      <4>2. answers'[g] = answers[g]
        BY <2>4, <4>1
      <4>3. QED
        BY <1>1, <4>1, <4>2 DEF Answered
    <3>3. QED
      BY <1>1, <2>1, <3>1, <3>2 DEF AnsweredInFull
  <2>10. QED
    BY <2>5, <2>6, <2>7, <2>8, <2>9, RecvRemembers DEF DispatchInv
<1>7. QED
  BY <1>5, <1>6

----------------------------------------------------------------------------
\* The handler goes on to the next reading of the same step: "next" is where it may go
\* from where it is, given what it has just read.
LEMMA AdvanceInv ==
    ASSUME DispatchInv, handler # NoFrame, NEW next, Advance(next),
           UNCHANGED <<quiet, nonces, ran, raised>>,
           \/ handler.at = "restart" /\ next = "lookup"
           \/ handler.at = "lookup" /\ next = "batch"
           \/ handler.at = "batch" /\ next = "seal" /\ ~ BatchBlocked
           \/ handler.at = "seal" /\ next = "fence" /\ ~ SealedStep
           \/ handler.at = "fence" /\ next = "late"
           \/ handler.at = "late" /\ next = "run"
    PROVE  DispatchInv'
<1>1. /\ handler \in HandlerStates /\ handler.at # "idle" /\ handler.frame \in Frames
  BY HandlerTyped
<1>2. /\ handler' \in HandlerStates /\ handler' # NoFrame /\ handler'.at = next
      /\ handler'.frame = handler.frame /\ handler'.i = handler.i /\ handler'.v = handler.v
      /\ handler'.open = handler.open /\ handler'.openStep = handler.openStep
      /\ handler'.grantStep = handler.grantStep
  BY <1>1 DEF Advance, HandlerStates, NoFrame
<1>3. /\ answers' = answers /\ ended' = ended /\ ran' = ran /\ raised' = raised
      /\ sent' = sent /\ nonces' = nonces /\ clock' = clock
      /\ sealed' = sealed /\ granted' = granted
  BY DEF Advance, quiet
<1>4. DispatchTypeOK'
  BY <1>2, <1>3 DEF Advance, quiet, DispatchInv, DispatchTypeOK
<1>5. Remembered'
  BY <1>2, <1>3 DEF DispatchInv, Remembered, Taken, Handled
<1>6. InOrder'
  BY <1>2, <1>3 DEF DispatchInv, InOrder
<1>7. Admitted'
  <2>1. ASSUME handler.at = "batch", ~ BatchBlocked
        PROVE  \A j \in DOMAIN StepsOf : StepsOf[j] = "hatch" => handler.open
    BY <2>1 DEF BatchBlocked, DispatchInv, Admitted, StepsOf, DispatchTypeOK
  <2>2. ASSUME handler.at = "seal", ~ SealedStep
        PROVE  StepsOf[handler.i] = "hatch" => handler.openStep
    BY <2>2 DEF SealedStep, StepAt, DispatchInv, Admitted, StepsOf, DispatchTypeOK
  <2>3. QED
    BY <1>2, <1>3, <2>1, <2>2 DEF DispatchInv, Admitted, StepsOf
<1>8. ShapeKept' /\ RunsOnce' /\ SealHolds' /\ AnsweredInFull'
  BY <1>3, HistoryKept DEF DispatchInv, ShapeKept
<1>9. QED
  BY <1>4, <1>5, <1>6, <1>7, <1>8 DEF DispatchInv

\* The answer that is due goes out in its place, whatever becomes of the handler.
LEMMA AnswerInOrder ==
    ASSUME DispatchInv, handler # NoFrame, NEW i \in Nat, NEW v \in {"ok", "failed", "refused"},
           Answer(handler.frame, i, v),
           answers[handler.frame] = <<>> \/ i = handler.i
    PROVE  LET f == handler.frame IN
           /\ answers' \in [Frames -> Seq(AnswerRecords)]
           /\ \A g \in Frames \ {f} : answers'[g] = answers[g]
           /\ Len(answers[f]) \in Nat /\ DOMAIN answers[f] = 1 .. Len(answers[f])
           /\ Len(answers'[f]) = Len(answers[f]) + 1 /\ DOMAIN answers'[f] = 1 .. Len(answers[f]) + 1
           /\ answers'[f] # <<>>
           /\ \A k \in DOMAIN answers[f] : answers'[f][k] = answers[f][k] /\ answers[f][k].i < i
           /\ answers'[f][Len(answers[f]) + 1] = [i |-> i, v |-> v]
           /\ \A j, k \in DOMAIN answers'[f] : j < k => answers'[f][j].i < answers'[f][k].i
<1> DEFINE f == handler.frame
           e == [i |-> i, v |-> v]
<1>1. f \in Frames /\ answers[f] \in Seq(AnswerRecords) /\ e \in AnswerRecords
  BY HandlerTyped DEF DispatchInv, DispatchTypeOK, AnswerRecords
<1>2. answers' = [answers EXCEPT ![f] = Append(answers[f], e)]
  BY DEF Answer
<1>3. e.i = i
  OBVIOUS
<1> HIDE DEF f, e
<1>4. answers'[f] = Append(answers[f], e) /\ \A g \in Frames \ {f} : answers'[g] = answers[g]
  BY <1>1, <1>2 DEF DispatchInv, DispatchTypeOK
<1>5. /\ Len(answers[f]) \in Nat /\ DOMAIN answers[f] = 1 .. Len(answers[f])
      /\ Len(answers'[f]) = Len(answers[f]) + 1 /\ DOMAIN answers'[f] = 1 .. Len(answers[f]) + 1
      /\ answers'[f] # <<>> /\ answers'[f] \in Seq(AnswerRecords)
      /\ \A k \in DOMAIN answers[f] : answers'[f][k] = answers[f][k]
      /\ answers'[f][Len(answers[f]) + 1] = e
  BY <1>1, <1>4, AppendFacts
<1>6. answers' \in [Frames -> Seq(AnswerRecords)]
  BY <1>2, <1>4, <1>5 DEF DispatchInv, DispatchTypeOK, AnswerRecords
<1>7. \A k \in DOMAIN answers[f] : answers[f][k].i < i
  <2>1. CASE answers[f] = <<>>
    BY <2>1, EmptySeq
  <2>2. CASE i = handler.i
    BY <2>2 DEF DispatchInv, InOrder, f
  <2>3. QED
    BY <2>1, <2>2 DEF f
<1>8. ASSUME NEW j \in DOMAIN answers'[f], NEW k \in DOMAIN answers'[f], j < k
      PROVE  answers'[f][j].i < answers'[f][k].i
  <2>1. j \in DOMAIN answers[f] /\ answers'[f][j] = answers[f][j]
    BY <1>5, <1>8
  <2>2. CASE k \in DOMAIN answers[f]
    BY <1>1, <1>5, <1>8, <2>1, <2>2 DEF DispatchInv, RunsOnce
  <2>3. CASE k = Len(answers[f]) + 1
    BY <1>3, <1>5, <1>7, <2>1, <2>3, SMTT(30)
  <2>4. QED
    BY <1>5, <2>2, <2>3
<1>9. QED
  BY <1>4, <1>5, <1>6, <1>7, <1>8 DEF f, e

\* The answer that closes a frame says why: every step that ran is answered.
LEMMA ClosingAnswer ==
    ASSUME DispatchInv, handler # NoFrame, NEW i \in Nat, NEW v \in {"ok", "failed", "refused"},
           Answer(handler.frame, i, v), FrameDone,
           answers[handler.frame] = <<>> \/ i = handler.i,
           handler.at = "answer" => i = handler.i,
           UNCHANGED <<quiet, nonces, ran, raised>>,
           \/ v = "refused"
           \/ i = Len(StepsOf)
           \/ sent[handler.frame].shape.stop /\ v = "failed"
    PROVE  DispatchInv'
<1>1. PICK f \in Frames : f = handler.frame /\ sent[f] # Unsent /\ f \notin ended
  BY HandlerTyped
<1>2. /\ ended' = ended \cup {f} /\ handler' = NoFrame /\ ran' = ran /\ raised' = raised
      /\ sent' = sent /\ nonces' = nonces /\ clock' = clock
  BY <1>1 DEF FrameDone, quiet
<1>3. /\ answers' \in [Frames -> Seq(AnswerRecords)]
      /\ \A g \in Frames \ {f} : answers'[g] = answers[g]
      /\ Len(answers[f]) \in Nat /\ DOMAIN answers[f] = 1 .. Len(answers[f])
      /\ Len(answers'[f]) = Len(answers[f]) + 1 /\ DOMAIN answers'[f] = 1 .. Len(answers[f]) + 1
      /\ answers'[f] # <<>>
      /\ \A k \in DOMAIN answers[f] : answers'[f][k] = answers[f][k]
      /\ answers'[f][Len(answers[f]) + 1] = [i |-> i, v |-> v]
      /\ \A j, k \in DOMAIN answers'[f] : j < k => answers'[f][j].i < answers'[f][k].i
  BY <1>1, AnswerInOrder
<1>4. DispatchTypeOK'
  BY <1>1, <1>2, <1>3 DEF quiet, DispatchInv, DispatchTypeOK, AnswerRecords
<1>5. Remembered'
  <2>1. \A g \in Frames : Taken(g)' => Taken(g)
    BY <1>1, <1>2, <1>3 DEF Taken, Handled
  <2>2. QED
    BY <1>2, <2>1 DEF DispatchInv, Remembered
<1>6. InOrder' /\ Admitted'
  BY <1>2 DEF InOrder, Admitted
<1>7. RunsOnce'
  BY <1>2, <1>3 DEF DispatchInv, RunsOnce
<1>8. ShapeKept' /\ SealHolds'
  BY <1>2 DEF DispatchInv, ShapeKept, SealHolds
<1>9. AnsweredInFull'
  <2>1. ASSUME NEW k \in DOMAIN ran[f] PROVE \E j \in DOMAIN answers'[f] : answers'[f][j].i = ran[f][k].i
    <3>1. \/ ran[f][k].i = handler.i /\ handler.at = "answer"
          \/ \E j \in DOMAIN answers[f] : answers[f][j].i = ran[f][k].i
      BY <1>1, <2>1 DEF DispatchInv, InOrder
    <3>2. CASE ran[f][k].i = handler.i /\ handler.at = "answer"
      <4>1. Len(answers[f]) + 1 \in DOMAIN answers'[f]
        BY <1>3
      <4>2. answers'[f][Len(answers[f]) + 1].i = ran[f][k].i
        BY <1>1, <1>3, <3>2
      <4>3. QED
        BY <4>1, <4>2
    <3>3. CASE \E j \in DOMAIN answers[f] : answers[f][j].i = ran[f][k].i
      BY <1>3, <3>3
    <3>4. QED
      BY <3>1, <3>2, <3>3
  <2>2. \/ answers'[f][Len(answers'[f])].v = "refused"
        \/ answers'[f][Len(answers'[f])].i = Len(sent[f].shape.steps)
        \/ sent[f].shape.stop /\ answers'[f][Len(answers'[f])].v = "failed"
    BY <1>1, <1>3 DEF StepsOf
  <2>3. Answered(f)'
    BY <1>2, <1>3, <2>1, <2>2 DEF Answered
  <2>4. ASSUME NEW g \in (ended \ raised) \ {f} PROVE Answered(g)'
    <3>1. g \in Frames /\ Answered(g)
      BY DEF DispatchInv, DispatchTypeOK, AnsweredInFull
    <3>2. answers'[g] = answers[g]
      BY <1>3, <3>1
    <3>3. QED
      BY <1>2, <3>1, <3>2 DEF Answered
  <2>5. QED
    BY <1>2, <2>3, <2>4 DEF AnsweredInFull
<1>10. QED
  BY <1>4, <1>5, <1>6, <1>7, <1>8, <1>9 DEF DispatchInv

\* The first step a reading of the whole sequence objects to is a step of it.
LEMMA FirstIsStep ==
    ASSUME DispatchInv, handler # NoFrame, NEW B \in SUBSET CommandKinds,
           \E k \in DOMAIN StepsOf : StepsOf[k] \in B
    PROVE  \E k \in DOMAIN StepsOf : StepsOf[k] \in B /\ \A j \in 1 .. k - 1 : StepsOf[j] \notin B
<1> DEFINE T == {k \in DOMAIN StepsOf : StepsOf[k] \in B}
<1>1. DOMAIN StepsOf = 1 .. Len(StepsOf) /\ Len(StepsOf) \in Nat
  BY HandlerTyped
<1>2. PICK x \in T : \A y \in T : x =< y
  <2>1. T \subseteq Nat /\ T # {}
    BY <1>1
  <2>2. QED
    BY <2>1, LeastNat
<1>3. \A j \in 1 .. x - 1 : StepsOf[j] \notin B
  BY <1>1, <1>2
<1>4. QED
  BY <1>2, <1>3

\* A reading of the seal, the registry or the grant refuses the frame.
LEMMA RefuseInv ==
    ASSUME DispatchInv, handler # NoFrame, NEW i \in Nat, RefuseAt(i), handler.at # "answer",
           handler.at \in {"restart", "lookup", "batch"} \/ i = handler.i,
           UNCHANGED <<quiet, nonces, ran, raised>>
    PROVE  DispatchInv'
<1>1. answers[handler.frame] = <<>> \/ i = handler.i
  BY DEF DispatchInv, InOrder
<1>2. QED
  BY <1>1, ClosingAnswer DEF RefuseAt

\* The readings over a whole sequence.
LEMMA SequenceInv ==
    ASSUME DispatchInv, SequenceRestart \/ SequenceLookup \/ SequenceSeal
    PROVE  DispatchInv'
<1>1. /\ handler # NoFrame /\ handler.at \in {"restart", "lookup", "batch"}
      /\ UNCHANGED <<quiet, nonces, ran, raised>>
  BY DEF SequenceRestart, SequenceLookup, SequenceSeal, Handling
<1>2. DOMAIN StepsOf = 1 .. Len(StepsOf) /\ \A k \in DOMAIN StepsOf : StepsOf[k] \in CommandKinds
  BY <1>1, HandlerTyped, StepsTyped, ElementOfSeq DEF StepsOf, DispatchInv
<1>3. CASE SequenceRestart
  <2> DEFINE missing(c) == c = "hatch" /\ c \notin BuildRegistry
  <2>1. CASE ~ sealed /\ \E k \in DOMAIN StepsOf : missing(StepsOf[k])
    <3>1. RefuseAt(FirstOf(missing))
      BY <1>3, <2>1 DEF SequenceRestart
    <3>2. \E k \in DOMAIN StepsOf : missing(StepsOf[k]) /\ \A j \in 1 .. k - 1 : ~ missing(StepsOf[j])
      <4>1. \E k \in DOMAIN StepsOf : StepsOf[k] \in {c \in CommandKinds : missing(c)}
        BY <1>2, <2>1
      <4>2. PICK k \in DOMAIN StepsOf : /\ StepsOf[k] \in {c \in CommandKinds : missing(c)}
                                        /\ \A j \in 1 .. k - 1 : StepsOf[j] \notin {c \in CommandKinds : missing(c)}
        BY <1>1, <4>1, FirstIsStep
      <4>3. \A j \in 1 .. k - 1 : j \in DOMAIN StepsOf
        BY <1>2, HandlerTyped, <1>1
      <4>4. QED
        BY <1>2, <4>2, <4>3
    <3>3. FirstOf(missing) \in Nat
      BY <1>2, <3>2 DEF FirstOf
    <3>4. QED
      BY <1>1, <3>1, <3>3, RefuseInv
  <2>2. CASE ~ (~ sealed /\ \E k \in DOMAIN StepsOf : missing(StepsOf[k]))
    BY <1>1, <1>3, <2>2, AdvanceInv DEF SequenceRestart, Handling
  <2>3. QED
    BY <2>1, <2>2
<1>4. CASE SequenceLookup
  <2> DEFINE bad(c) == ~ GetCommand(c)
  <2>1. CASE \E k \in DOMAIN StepsOf : bad(StepsOf[k])
    <3>1. RefuseAt(FirstOf(bad))
      BY <1>4, <2>1 DEF SequenceLookup
    <3>2. \E k \in DOMAIN StepsOf : bad(StepsOf[k]) /\ \A j \in 1 .. k - 1 : ~ bad(StepsOf[j])
      <4>1. \E k \in DOMAIN StepsOf : StepsOf[k] \in {c \in CommandKinds : bad(c)}
        BY <1>2, <2>1
      <4>2. PICK k \in DOMAIN StepsOf : /\ StepsOf[k] \in {c \in CommandKinds : bad(c)}
                                        /\ \A j \in 1 .. k - 1 : StepsOf[j] \notin {c \in CommandKinds : bad(c)}
        BY <1>1, <4>1, FirstIsStep
      <4>3. \A j \in 1 .. k - 1 : j \in DOMAIN StepsOf
        BY <1>2, HandlerTyped, <1>1
      <4>4. QED
        BY <1>2, <4>2, <4>3
    <3>3. FirstOf(bad) \in Nat
      BY <1>2, <3>2 DEF FirstOf
    <3>4. QED
      BY <1>1, <3>1, <3>3, RefuseInv
  <2>2. CASE ~ \E k \in DOMAIN StepsOf : bad(StepsOf[k])
    BY <1>1, <1>4, <2>2, AdvanceInv DEF SequenceLookup, Handling
  <2>3. QED
    BY <2>1, <2>2
<1>5. CASE SequenceSeal
  <2> DEFINE hatch(c) == c = "hatch"
  <2>1. CASE BatchBlocked
    <3>1. RefuseAt(FirstOf(hatch))
      BY <1>5, <2>1 DEF SequenceSeal
    <3>2. \E k \in DOMAIN StepsOf : hatch(StepsOf[k]) /\ \A j \in 1 .. k - 1 : ~ hatch(StepsOf[j])
      <4>1. \E k \in DOMAIN StepsOf : StepsOf[k] \in {"hatch"}
        BY <2>1 DEF BatchBlocked
      <4>2. {"hatch"} \in SUBSET CommandKinds
        BY DEF CommandKinds
      <4>3. QED
        BY <1>1, <4>1, <4>2, FirstIsStep
    <3>3. FirstOf(hatch) \in Nat
      BY <1>2, <3>2 DEF FirstOf
    <3>4. QED
      BY <1>1, <3>1, <3>3, RefuseInv
  <2>2. CASE ~ BatchBlocked
    BY <1>1, <1>5, <2>2, AdvanceInv DEF SequenceSeal, Handling
  <2>3. QED
    BY <2>1, <2>2
<1>6. QED
  BY <1>3, <1>4, <1>5

\* The readings of one step.
LEMMA RefusalInv ==
    ASSUME DispatchInv, RefusalFor
    PROVE  DispatchInv'
<1>1. handler # NoFrame /\ UNCHANGED <<quiet, nonces, ran, raised>> /\ handler.at \in {"seal", "fence", "late"}
  BY DEF RefusalFor, Handling
<1>2. handler.i \in Nat
  BY <1>1, HandlerTyped
<1>3. CASE RefuseAt(handler.i)
  BY <1>1, <1>2, <1>3, RefuseInv
<1>4. CASE ~ RefuseAt(handler.i)
  <2>1. \/ handler.at = "seal" /\ ~ SealedStep /\ Advance("fence")
        \/ handler.at = "fence" /\ Advance("late")
        \/ handler.at = "late" /\ Advance("run")
    BY <1>4 DEF RefusalFor, Handling
  <2>2. QED
    BY <1>1, <2>1, AdvanceInv
<1>5. QED
  BY <1>3, <1>4

----------------------------------------------------------------------------
\* A step runs: after the ones before it, and with what it needed open.
LEMMA RunsInOrder ==
    ASSUME DispatchInv, handler # NoFrame, handler.at = "run", Runs,
           StepAt = "ext" => granted
    PROVE  LET f == handler.frame
               r == [i |-> handler.i, open |-> handler.open, openStep |-> handler.openStep,
                     grantStep |-> handler.grantStep]
           IN
           /\ ran' \in [Frames -> Seq(RanRecords)]
           /\ \A g \in Frames \ {f} : ran'[g] = ran[g]
           /\ Len(ran[f]) \in Nat /\ DOMAIN ran[f] = 1 .. Len(ran[f])
           /\ DOMAIN ran'[f] = 1 .. Len(ran[f]) + 1
           /\ \A k \in DOMAIN ran[f] : ran'[f][k] = ran[f][k]
           /\ ran'[f][Len(ran[f]) + 1] = r
           /\ \A j, k \in DOMAIN ran'[f] : j < k => ran'[f][j].i < ran'[f][k].i
           /\ (\E j \in DOMAIN StepsOf : StepsOf[j] = "hatch") => r.open
           /\ StepsOf[r.i] = "hatch" => r.openStep
           /\ StepsOf[r.i] = "ext" => r.grantStep
<1> DEFINE f == handler.frame
           r == [i |-> handler.i, open |-> handler.open, openStep |-> handler.openStep,
                 grantStep |-> handler.grantStep]
<1>1. f \in Frames /\ ran[f] \in Seq(RanRecords) /\ r \in RanRecords
  BY HandlerTyped DEF DispatchInv, DispatchTypeOK, RanRecords, HandlerStates
<1>2. ran' = [ran EXCEPT ![f] = Append(ran[f], r)]
  BY DEF Runs
<1>3. /\ r.i = handler.i /\ r.open = handler.open /\ r.openStep = handler.openStep
      /\ r.grantStep = handler.grantStep
  OBVIOUS
<1> HIDE DEF f, r
<1>4. ran'[f] = Append(ran[f], r) /\ \A g \in Frames \ {f} : ran'[g] = ran[g]
  BY <1>1, <1>2 DEF DispatchInv, DispatchTypeOK
<1>5. /\ Len(ran[f]) \in Nat /\ DOMAIN ran[f] = 1 .. Len(ran[f])
      /\ DOMAIN ran'[f] = 1 .. Len(ran[f]) + 1
      /\ ran'[f] \in Seq(RanRecords)
      /\ \A k \in DOMAIN ran[f] : ran'[f][k] = ran[f][k]
      /\ ran'[f][Len(ran[f]) + 1] = r
  BY <1>1, <1>4, AppendFacts
<1>6. ran' \in [Frames -> Seq(RanRecords)]
  BY <1>2, <1>4, <1>5 DEF DispatchInv, DispatchTypeOK, RanRecords
<1>7. \A k \in DOMAIN ran[f] : ran[f][k].i < handler.i
  BY DEF DispatchInv, InOrder, f
<1>8. ASSUME NEW j \in DOMAIN ran'[f], NEW k \in DOMAIN ran'[f], j < k
      PROVE  ran'[f][j].i < ran'[f][k].i
  <2>1. j \in DOMAIN ran[f] /\ ran'[f][j] = ran[f][j]
    BY <1>5, <1>8
  <2>2. CASE k \in DOMAIN ran[f]
    BY <1>1, <1>5, <1>8, <2>1, <2>2 DEF DispatchInv, RunsOnce
  <2>3. CASE k = Len(ran[f]) + 1
    BY <1>3, <1>5, <1>7, <2>1, <2>3
  <2>4. QED
    BY <1>5, <2>2, <2>3
<1>9. /\ StepsOf[r.i] = "hatch" => r.openStep
      /\ StepsOf[r.i] = "ext" => r.grantStep
  BY <1>3 DEF DispatchInv, Admitted, StepsOf, StepAt
<1>10. ASSUME NEW j \in DOMAIN StepsOf, StepsOf[j] = "hatch" PROVE r.open
  <2>1. CASE IsSequence
    BY <1>3, <1>10, <2>1 DEF DispatchInv, Admitted, StepsOf, IsSequence
  <2>2. CASE ~ IsSequence
    <3>1. sent[handler.frame].shape \in Shapes /\ sent[handler.frame].kind = "request"
      BY <2>2, HandlerTyped, StepsTyped DEF DispatchInv, Envelopes, IsSequence
    <3>2. sent[handler.frame].shape.kind = "request"
      BY <3>1, HandlerTyped DEF DispatchInv, ShapeKept
    <3>3. j = 1 /\ handler.i = 1
      <4>1. Len(StepsOf) = 1
        BY <3>1, <3>2, DispatchAssumption DEF StepsOf
      <4>2. DOMAIN StepsOf = 1 .. 1 /\ handler.i \in 1 .. 1
        BY <4>1, HandlerTyped
      <4>3. QED
        BY <4>2
    <3>4. QED
      BY <1>3, <1>9, <1>10, <3>3 DEF DispatchInv, Admitted
  <2>3. QED
    BY <2>1, <2>2
<1>11. QED
  BY <1>4, <1>5, <1>6, <1>8, <1>9, <1>10 DEF f, r

\* What a step that may have run the command keeps, whether its answer follows or its
\* handler raised.
LEMMA RunKeeps ==
    ASSUME DispatchInv, handler # NoFrame, handler.at = "run",
           UNCHANGED ran \/ (Runs /\ (StepAt = "ext" => granted)),
           UNCHANGED <<quiet, nonces, answers>>,
           \/ UNCHANGED <<ended, raised>>
           \/ ended' = ended \cup {handler.frame} /\ raised' = raised \cup {handler.frame}
    PROVE  /\ ran' \in [Frames -> Seq(RanRecords)]
           /\ \A g \in Frames \ {handler.frame} : ran'[g] = ran[g]
           /\ \A k \in DOMAIN ran'[handler.frame] :
                  \/ ran'[handler.frame][k].i = handler.i
                  \/ k \in DOMAIN ran[handler.frame] /\ ran'[handler.frame][k] = ran[handler.frame][k]
           /\ ShapeKept' /\ RunsOnce' /\ SealHolds' /\ AnsweredInFull'
<1>1. PICK f \in Frames : f = handler.frame /\ f \notin ended
  BY HandlerTyped
<1>2. sent' = sent /\ answers' = answers
  BY DEF quiet
<1>3. AnsweredInFull'
  <2> SUFFICES ASSUME NEW g \in (ended \ raised) \ {f} PROVE Answered(g)'
    BY <1>1 DEF AnsweredInFull
  <2>1. g \in Frames /\ Answered(g)
    BY DEF DispatchInv, DispatchTypeOK, AnsweredInFull
  <2>2. ran'[g] = ran[g]
    BY <1>1, <2>1, RunsInOrder
  <2>3. QED
    BY <1>2, <2>1, <2>2 DEF Answered
<1>4. CASE UNCHANGED ran
  <2>1. RunsOnce' /\ SealHolds' /\ ShapeKept'
    BY <1>2, <1>4 DEF DispatchInv, RunsOnce, SealHolds, ShapeKept
  <2>2. QED
    BY <1>1, <1>3, <1>4, <2>1 DEF DispatchInv, DispatchTypeOK, RanRecords
<1>5. CASE Runs /\ (StepAt = "ext" => granted)
  <2> DEFINE r == [i |-> handler.i, open |-> handler.open, openStep |-> handler.openStep,
                   grantStep |-> handler.grantStep]
  <2>1. /\ ran' \in [Frames -> Seq(RanRecords)]
        /\ \A g \in Frames \ {f} : ran'[g] = ran[g]
        /\ Len(ran[f]) \in Nat /\ DOMAIN ran[f] = 1 .. Len(ran[f])
        /\ DOMAIN ran'[f] = 1 .. Len(ran[f]) + 1
        /\ \A k \in DOMAIN ran[f] : ran'[f][k] = ran[f][k]
        /\ ran'[f][Len(ran[f]) + 1] = r
        /\ \A j, k \in DOMAIN ran'[f] : j < k => ran'[f][j].i < ran'[f][k].i
        /\ (\E j \in DOMAIN sent[f].shape.steps : sent[f].shape.steps[j] = "hatch") => r.open
        /\ sent[f].shape.steps[r.i] = "hatch" => r.openStep
        /\ sent[f].shape.steps[r.i] = "ext" => r.grantStep
    BY <1>1, <1>5, RunsInOrder DEF StepsOf
  <2>2. r.i = handler.i
    OBVIOUS
  <2> HIDE DEF r
  <2>3. \A k \in DOMAIN ran'[f] : k = Len(ran[f]) + 1 \/ k \in DOMAIN ran[f]
    BY <2>1
  <2>4. RunsOnce'
    BY <1>2, <2>1 DEF DispatchInv, RunsOnce
  <2>5. SealHolds'
    <3> SUFFICES ASSUME NEW g \in Frames, NEW k \in DOMAIN ran'[g]
                 PROVE  LET steps == sent[g].shape.steps
                            q == ran'[g][k]
                        IN  /\ (\E j \in DOMAIN steps : steps[j] = "hatch") => q.open
                            /\ steps[q.i] = "hatch" => q.openStep
                            /\ steps[q.i] = "ext" => q.grantStep
      BY <1>2 DEF SealHolds
    <3>1. CASE g = f /\ k = Len(ran[f]) + 1
      BY <2>1, <3>1
    <3>2. CASE k \in DOMAIN ran[g] /\ ran'[g][k] = ran[g][k]
      BY <3>2 DEF DispatchInv, SealHolds
    <3>3. QED
      BY <2>1, <2>3, <3>1, <3>2
  <2>6. ShapeKept'
    BY <1>2 DEF DispatchInv, ShapeKept
  <2>7. QED
    BY <1>1, <1>3, <2>1, <2>2, <2>3, <2>4, <2>5, <2>6
<1>6. QED
  BY <1>4, <1>5

\* A command ran, was refused in its thread or raised there.
LEMMA RunInv ==
    ASSUME DispatchInv, handler # NoFrame, handler.at = "run",
           UNCHANGED ran \/ (Runs /\ (StepAt = "ext" => granted)),
           UNCHANGED <<quiet, nonces, answers>>,
           Raise \/ \E v \in {"ok", "failed"} : ToAnswer(v)
    PROVE  DispatchInv'
<1>1. /\ handler \in HandlerStates /\ handler.frame \in Frames /\ sent[handler.frame] # Unsent
      /\ handler.frame \notin ended
  BY HandlerTyped
<1>2. \/ UNCHANGED <<ended, raised>>
      \/ ended' = ended \cup {handler.frame} /\ raised' = raised \cup {handler.frame}
  BY DEF Raise, FrameDone, ToAnswer
<1>3. /\ ran' \in [Frames -> Seq(RanRecords)]
      /\ \A g \in Frames \ {handler.frame} : ran'[g] = ran[g]
      /\ \A k \in DOMAIN ran'[handler.frame] :
             \/ ran'[handler.frame][k].i = handler.i
             \/ k \in DOMAIN ran[handler.frame] /\ ran'[handler.frame][k] = ran[handler.frame][k]
      /\ ShapeKept' /\ RunsOnce' /\ SealHolds' /\ AnsweredInFull'
  BY <1>2, RunKeeps
<1>4. /\ sent' = sent /\ answers' = answers /\ nonces' = nonces /\ clock' = clock
      /\ sealed' = sealed /\ granted' = granted
  BY DEF quiet
<1>5. CASE Raise
  <2>1. handler' = NoFrame
    BY <1>5 DEF Raise, FrameDone
  <2>2. DispatchTypeOK'
    BY <1>1, <1>2, <1>3, <2>1 DEF quiet, DispatchInv, DispatchTypeOK, RanRecords
  <2>3. Remembered'
    <3>1. \A g \in Frames : Taken(g)' => Taken(g)
      BY <1>2, <1>3, <1>4, <2>1 DEF Taken, Handled
    <3>2. QED
      BY <1>4, <3>1 DEF DispatchInv, Remembered
  <2>4. InOrder' /\ Admitted'
    BY <2>1 DEF InOrder, Admitted
  <2>5. QED
    BY <1>3, <2>2, <2>3, <2>4 DEF DispatchInv
<1>6. CASE \E v \in {"ok", "failed"} : ToAnswer(v)
  <2>1. PICK v \in {"ok", "failed"} : ToAnswer(v)
    BY <1>6
  <2>2. /\ handler' \in HandlerStates /\ handler' # NoFrame /\ handler'.at = "answer" /\ handler'.v = v
        /\ handler'.frame = handler.frame /\ handler'.i = handler.i
        /\ handler'.open = handler.open /\ handler'.openStep = handler.openStep
        /\ handler'.grantStep = handler.grantStep
    BY <1>1, <2>1 DEF ToAnswer, HandlerStates, NoFrame
  <2>3. ended' = ended /\ raised' = raised
    BY <2>1 DEF ToAnswer
  <2>4. DispatchTypeOK'
    BY <1>3, <2>2, <2>3 DEF quiet, DispatchInv, DispatchTypeOK, RanRecords
  <2>5. Remembered'
    <3>1. \A g \in Frames : Taken(g)' => Taken(g)
      BY <1>3, <1>4, <2>2, <2>3 DEF Taken, Handled
    <3>2. QED
      BY <1>4, <3>1 DEF DispatchInv, Remembered
  <2>6. InOrder'
    BY <1>3, <1>4, <2>2, <2>3 DEF DispatchInv, InOrder
  <2>7. Admitted'
    BY <1>4, <2>2 DEF DispatchInv, Admitted
  <2>8. QED
    BY <1>3, <2>4, <2>5, <2>6, <2>7 DEF DispatchInv
<1>7. QED
  BY <1>5, <1>6

\* The result goes out, and the frame is closed or its next step taken up.
LEMMA SendResultInv ==
    ASSUME DispatchInv, SendResult
    PROVE  DispatchInv'
<1>1. /\ handler # NoFrame /\ handler.at = "answer" /\ Answer(handler.frame, handler.i, handler.v)
      /\ UNCHANGED <<quiet, nonces, ran, raised>>
  BY DEF SendResult, Handling
<1>2. /\ handler \in HandlerStates /\ handler.i \in Nat /\ handler.v \in {"ok", "failed"}
      /\ handler.i \in 1 .. Len(StepsOf) /\ DOMAIN StepsOf = 1 .. Len(StepsOf) /\ Len(StepsOf) \in Nat
  BY <1>1, HandlerTyped DEF DispatchInv, InOrder, HandlerStates
<1>3. CASE StopsHere
  <2>1. \/ handler.i = Len(StepsOf)
        \/ sent[handler.frame].shape.stop /\ handler.v = "failed"
    <3>1. CASE IsSequence
      BY <1>3, <3>1 DEF StopsHere
    <3>2. CASE ~ IsSequence
      <4>1. sent[handler.frame] # Unsent /\ sent[handler.frame].shape \in Shapes
            /\ sent[handler.frame].kind = "request"
        BY <1>1, <3>2, HandlerTyped, StepsTyped DEF DispatchInv, Envelopes, IsSequence
      <4>2. sent[handler.frame].shape.kind = "request"
        BY <1>1, <4>1, HandlerTyped DEF DispatchInv, ShapeKept
      <4>3. Len(StepsOf) = 1
        BY <4>1, <4>2, DispatchAssumption DEF StepsOf
      <4>4. QED
        BY <1>2, <4>3
    <3>3. QED
      BY <3>1, <3>2
  <2>2. FrameDone
    BY <1>3 DEF SendResult
  <2>3. QED
    BY <1>1, <1>2, <2>1, <2>2, ClosingAnswer
<1>4. CASE ~ StopsHere
  <2>1. PICK f \in Frames : f = handler.frame /\ f \notin ended /\ sent[f] # Unsent
    BY <1>1, HandlerTyped
  <2>2. /\ answers' \in [Frames -> Seq(AnswerRecords)]
        /\ \A g \in Frames \ {f} : answers'[g] = answers[g]
        /\ Len(answers[f]) \in Nat /\ DOMAIN answers[f] = 1 .. Len(answers[f])
        /\ DOMAIN answers'[f] = 1 .. Len(answers[f]) + 1
        /\ \A k \in DOMAIN answers[f] : answers'[f][k] = answers[f][k] /\ answers[f][k].i < handler.i
        /\ answers'[f][Len(answers[f]) + 1] = [i |-> handler.i, v |-> handler.v]
        /\ \A j, k \in DOMAIN answers'[f] : j < k => answers'[f][j].i < answers'[f][k].i
    BY <1>1, <1>2, <2>1, AnswerInOrder
  <2>3. /\ handler' \in HandlerStates /\ handler' # NoFrame /\ handler'.at = "seal"
        /\ handler'.frame = f /\ handler'.i = handler.i + 1
        /\ handler'.open = handler.open /\ handler'.openStep = ~ sealed /\ handler'.grantStep = granted
    <3>1. sealed \in BOOLEAN /\ granted \in BOOLEAN
      BY DEF DispatchInv, DispatchTypeOK
    <3>2. handler \in HandlerStates /\ handler # NoFrame
      BY <1>1, HandlerTyped
    <3>3. handler' = [handler EXCEPT !.at = "seal", !.i = @ + 1, !.v = "none",
                                        !.openStep = ~ sealed, !.grantStep = granted]
      BY <1>4 DEF SendResult
    <3>4. handler' \in HandlerStates
      <4>1. PICK b \in BOOLEAN : b = ~ sealed
        BY <3>1
      <4>2. PICK g \in BOOLEAN : g = granted
        BY <3>1
      <4>3. PICK n \in Nat \ {0} : n = handler.i + 1
        BY <1>2
      <4>4. handler' = [handler EXCEPT !.at = "seal", !.i = n, !.v = "none", !.openStep = b, !.grantStep = g]
        BY <3>3, <4>1, <4>2, <4>3
      <4>5. QED
        BY <3>2, <4>4 DEF HandlerStates
    <3>5. /\ handler'.at = "seal" /\ handler'.frame = f /\ handler'.i = handler.i + 1
          /\ handler'.open = handler.open /\ handler'.openStep = ~ sealed /\ handler'.grantStep = granted
      BY <2>1, <3>2, <3>3 DEF HandlerStates
    <3>6. QED
      BY <3>4, <3>5 DEF NoFrame
  <2>4. /\ ended' = ended /\ ran' = ran /\ raised' = raised /\ sent' = sent /\ nonces' = nonces
        /\ clock' = clock /\ sealed' = sealed /\ granted' = granted
    BY <1>1, <1>4 DEF SendResult, quiet
  <2>5. DispatchTypeOK'
    BY <1>1, <2>2, <2>3, <2>4 DEF quiet, DispatchInv, DispatchTypeOK, AnswerRecords
  <2>6. Remembered'
    <3>1. \A g \in Frames : Taken(g)' => Taken(g)
      BY <1>1, <2>1, <2>2, <2>3, <2>4 DEF Taken, Handled
    <3>2. QED
      BY <2>4, <3>1 DEF DispatchInv, Remembered
  <2>7. InOrder'
    <3>1. handler'.i \in DOMAIN sent[f].shape.steps
      BY <1>2, <1>4, <2>1, <2>3 DEF StopsHere, StepsOf
    <3>2. \A k \in DOMAIN answers'[f] : answers'[f][k].i < handler.i + 1
      <4>1. ASSUME NEW k \in DOMAIN answers[f] PROVE answers[f][k].i \in Nat
        <5>1. answers[f] \in Seq(AnswerRecords)
          BY DEF DispatchInv, DispatchTypeOK, AnswerRecords
        <5>2. answers[f][k] \in AnswerRecords
          BY <2>2, <5>1, ElementOfSeq
        <5>3. QED
          BY <5>2 DEF AnswerRecords
      <4>2. ASSUME NEW k \in DOMAIN answers'[f] PROVE k \in DOMAIN answers[f] \/ k = Len(answers[f]) + 1
        BY <2>2
      <4>3. QED
        BY <1>2, <2>2, <4>1, <4>2, SMTT(30)
    <3>3. ASSUME NEW k \in DOMAIN ran[f]
          PROVE  ran[f][k].i < handler.i + 1 /\ \E j \in DOMAIN answers'[f] : answers'[f][j].i = ran[f][k].i
      <4>1. \/ ran[f][k].i = handler.i
            \/ ran[f][k].i < handler.i /\ \E j \in DOMAIN answers[f] : answers[f][j].i = ran[f][k].i
        BY <1>1, <2>1 DEF DispatchInv, InOrder
      <4>2. CASE ran[f][k].i = handler.i
        <5>1. Len(answers[f]) + 1 \in DOMAIN answers'[f] /\ answers'[f][Len(answers[f]) + 1].i = handler.i
          BY <2>2
        <5>2. QED
          BY <1>2, <4>2, <5>1
      <4>3. CASE ran[f][k].i < handler.i /\ \E j \in DOMAIN answers[f] : answers[f][j].i = ran[f][k].i
        <5>1. ran[f][k].i \in Nat
          <6>1. ran[f] \in Seq(RanRecords)
            BY DEF DispatchInv, DispatchTypeOK, RanRecords
          <6>2. ran[f][k] \in RanRecords
            BY <6>1, ElementOfSeq, LenProperties
          <6>3. QED
            BY <6>2 DEF RanRecords
        <5>2. QED
          BY <1>2, <2>2, <4>3, <5>1
      <4>4. QED
        BY <4>1, <4>2, <4>3
    <3>4. QED
      BY <2>1, <2>3, <2>4, <3>1, <3>2, <3>3 DEF InOrder
  <2>8. Admitted'
    <3>1. ~ sealed => handler.open
      BY <1>1 DEF DispatchInv, Admitted
    <3>2. sent[f].kind = "sequence" => \A j \in DOMAIN sent[f].shape.steps : sent[f].shape.steps[j] = "hatch" => handler.open
      BY <1>1, <2>1 DEF DispatchInv, Admitted
    <3>3. QED
      BY <2>3, <2>4, <3>1, <3>2 DEF Admitted
  <2>9. RunsOnce' /\ SealHolds' /\ ShapeKept'
    BY <2>2, <2>4, ZenonT(60) DEF DispatchInv, RunsOnce, SealHolds, ShapeKept
  <2>10. AnsweredInFull'
    <3> SUFFICES ASSUME NEW g \in ended \ raised PROVE Answered(g)'
      BY <2>4 DEF AnsweredInFull
    <3>1. g \in Frames /\ g # f /\ Answered(g)
      BY <2>1 DEF DispatchInv, DispatchTypeOK, AnsweredInFull
    <3>2. answers'[g] = answers[g]
      BY <2>2, <3>1
    <3>3. QED
      BY <2>4, <3>1, <3>2 DEF Answered
  <2>11. QED
    BY <2>5, <2>6, <2>7, <2>8, <2>9, <2>10 DEF DispatchInv
<1>5. QED
  BY <1>3, <1>4

\* The invariant holds of every reachable state.
THEOREM DispatchInvariance == DispatchSpec => []DispatchInv
<1>1. DispatchInv /\ [DispatchNext]_dispatchVars => DispatchInv'
  <2> SUFFICES ASSUME DispatchInv, [DispatchNext]_dispatchVars PROVE DispatchInv'
    OBVIOUS
  <2>1. ASSUME NEW f \in Frames, Send(f) \/ Recv(f) PROVE DispatchInv'
    BY <2>1, SendInv, RecvInv
  <2>2. CASE Tick \/ ToggleSeal \/ ToggleGrant \/ SessionOpens \/ Drop \/ Restart
    BY <2>2, OutsideInv
  <2>3. CASE SequenceRestart \/ SequenceLookup \/ SequenceSeal
    BY <2>3, SequenceInv
  <2>4. CASE RefusalFor
    BY <2>4, RefusalInv
  <2>5. CASE ValidateParams
    BY <2>5, RunInv DEF ValidateParams, InThread, Handling
  <2>6. CASE ResolveCommand
    BY <2>6, RunInv DEF ResolveCommand, InThread, Handling
  <2>7. CASE ExecuteCommand
    BY <2>7, RunInv DEF ExecuteCommand, InThread, Handling, GetCommand
  <2>8. CASE DispatchLongRunning
    BY <2>8, RunInv DEF DispatchLongRunning, Handling
  <2>9. CASE HandleRefresh
    BY <2>9, RunInv DEF HandleRefresh, Handling
  <2>10. CASE SendResult
    BY <2>10, SendResultInv
  <2>11. CASE UNCHANGED dispatchVars
    BY <2>11 DEF dispatchVars, DispatchInv, DispatchTypeOK, ShapeKept, Remembered, Taken, Handled,
                 InOrder, Admitted, RunsOnce, SealHolds, AnsweredInFull, Answered
  <2>12. QED
    BY <2>1, <2>2, <2>3, <2>4, <2>5, <2>6, <2>7, <2>8, <2>9, <2>10, <2>11 DEF DispatchNext
<1>2. QED
  BY DispatchInitInv, <1>1, PTL DEF DispatchSpec

\* However often and whenever a frame is delivered, no step of it runs or is answered
\* twice: the nonce table outlives the freshness of every frame, across purges,
\* reconnects and restarts (NonceStore.check_and_store, verify_envelope).
THEOREM NoReplay == DispatchSpec => []RunsOnce
BY DispatchInvariance, PTL DEF DispatchInv

\* No step behind the seal or a grant runs unless it was open since the step was taken
\* up, and no step of a sequence with one behind the seal unless the seal was open since
\* the frame was accepted (signoff_guard, admission, CommandSpec.authorize).
THEOREM SealRespected == DispatchSpec => []SealHolds
BY DispatchInvariance, PTL DEF DispatchInv

\* A handler that came to its end without an exception has answered for every step
\* that ran, and has said why the others did not (handle_command_sequence).
THEOREM EndedIsAnswered == DispatchSpec => []AnsweredInFull
BY DispatchInvariance, PTL DEF DispatchInv

-----------------------------------------------------------------------------
(* CertRenew.                                                              *)

Resting == {"off", "idle"}
Loading == {"swap", "swapmove", "load", "serial"}
Installing == {"write", "snapshot", "linkcert", "linkkey", "movecert", "movekey"}
CertSteps == Resting \cup Loading \cup Installing \cup {"decide", "pending", "newkey", "post", "done"}

Loads == [serial : Nat, onPrev : BOOLEAN]
Mems == [key : Nat, cert : Nat, ctx : Nat, path : {"cert", "pcert"},
         then : {"stop", "idle", "decide", "pending", "renewed"}, was : Loads]
Enrolments == [at : {"off", "preflight", "request", "key", "cert"}, key : Nat, cert : Nat,
               force : BOOLEAN]

CertTypeOK ==
    /\ keys \in Nat \ {0} /\ certKey \in Seq(Nat \ {0}) /\ creds \in [CredFiles -> Nat]
    /\ server \in [current : Nat \ {0}, before : Nat]
    /\ step \in [Renewers -> CertSteps] /\ mem \in [Renewers -> Mems]
    /\ enroll \in Enrolments /\ loaded \in Loads /\ torn \in BOOLEAN /\ raced \in BOOLEAN /\ replaced \in BOOLEAN

MemBounded(m) == m.key =< keys /\ m.cert =< Len(certKey) /\ m.ctx =< Len(certKey)

\* A load knows what it is for, a request its key.
Placed(s, m) == (s \in Loading => m.then # "stop") /\ (s = "post" => m.key # 0)

\* Serials and keys in use were issued and generated.
Bounded ==
    /\ \A s \in DOMAIN certKey : certKey[s] =< keys
    /\ \A f \in {"cert", "pcert", "ncert"} : creds[f] =< Len(certKey)
    /\ \A f \in {"key", "pkey", "nkey"} : creds[f] =< keys
    /\ server.current =< Len(certKey) /\ server.before < server.current
    /\ \A p \in Renewers : MemBounded(mem[p]) /\ Placed(step[p], mem[p])
    /\ enroll.key =< keys /\ enroll.cert =< Len(certKey)

\* The key of the current certificate.
Current == certKey[server.current]

\* The pending key is nowhere else: not live, not .prev, and no enrolment's.
PendingFresh ==
    /\ creds["nkey"] # 0 => creds["nkey"] \notin {creds["key"], creds["pkey"]}
    /\ enroll.at \in {"request", "key", "cert"} => enroll.key \notin {0, creds["nkey"]}

\* The live certificate is the current one, with its key live or pending; or it is the
\* one before, whole, and the key of the current one is pending.
Renewable ==
    ~torn =>
        \/ creds["cert"] = server.current /\ Current \in {creds["key"], creds["nkey"]}
        \/ /\ creds["cert"] = server.before /\ creds["cert"] # 0
           /\ creds["key"] = certKey[server.before] /\ creds["nkey"] = Current

\* An enrolment that was answered is the current one and in no file; its key is written
\* before its certificate.
Enrolled ==
    /\ torn => /\ server.before = 0 /\ server.current \notin {creds["cert"], creds["pcert"]}
               /\ Current # creds["nkey"]
    /\ enroll.at \in {"key", "cert"} => torn /\ enroll.cert = server.current /\ enroll.key = Current
    /\ enroll.at = "cert" => creds["key"] = enroll.key

\* A process at s that holds m.  Nobody presents the current certificate while its key is
\* pending; who would be given a new one asks for the pending key; what was issued is for
\* the key in memory, and is live before its key; an enrolment not on disk is out of
\* reach; what is at rest holds nothing but its context.
Sound(s, m) ==
    /\ creds["nkey"] = Current => m.ctx # server.current
    /\ s = "post" /\ ~torn /\ m.ctx = server.current => creds["nkey"] = m.key
    /\ s \in Installing => m.cert # 0 /\ certKey[m.cert] = m.key
    /\ s = "movekey" /\ m.cert = server.current => creds["cert"] = server.current
    /\ torn => server.current \notin {m.ctx, m.cert} /\ Current # m.key
    /\ s \in Resting => m.key = 0 /\ m.cert = 0

CertSound == Renewable /\ Enrolled /\ \A p \in Renewers : Sound(step[p], mem[p])

CertInv == CertTypeOK /\ Bounded /\ PendingFresh /\ (raced \/ replaced \/ CertSound)


----------------------------------------------------------------------------
(* What the types say, and steps of one process that leave the files and   *)
(* the control plane alone.                                                *)

LEMMA Facts ==
    ASSUME CertInv
    PROVE  /\ keys \in Nat \ {0} /\ Len(certKey) \in Nat /\ DOMAIN certKey = 1 .. Len(certKey)
           /\ \A s \in 1 .. Len(certKey) : certKey[s] \in Nat \ {0} /\ certKey[s] =< keys
           /\ \A f \in CredFiles : creds[f] \in Nat
           /\ server.current \in Nat \ {0} /\ server.before \in Nat
           /\ server.current \in 1 .. Len(certKey) /\ server.before < server.current
           /\ Current \in Nat \ {0} /\ Current =< keys
           /\ enroll.key \in Nat /\ enroll.cert \in Nat /\ enroll.key =< keys
           /\ torn \in BOOLEAN /\ raced \in BOOLEAN /\ replaced \in BOOLEAN
<1>1. /\ keys \in Nat \ {0} /\ certKey \in Seq(Nat \ {0}) /\ creds \in [CredFiles -> Nat]
      /\ server \in [current : Nat \ {0}, before : Nat] /\ enroll \in Enrolments
      /\ torn \in BOOLEAN /\ raced \in BOOLEAN /\ replaced \in BOOLEAN
  BY DEF CertInv, CertTypeOK
<1>2. Len(certKey) \in Nat /\ DOMAIN certKey = 1 .. Len(certKey)
  BY <1>1, LenProperties
<1>3. \A s \in 1 .. Len(certKey) : certKey[s] \in Nat \ {0} /\ certKey[s] =< keys
  BY <1>1, <1>2, ElementOfSeq DEF CertInv, Bounded
<1>4. server.current \in 1 .. Len(certKey) /\ server.before < server.current /\ enroll.key =< keys
  BY <1>1, <1>2 DEF CertInv, Bounded
<1> QED BY <1>1, <1>2, <1>3, <1>4 DEF Current, Enrolments

LEMMA MemFacts ==
    ASSUME CertInv, NEW p \in Renewers
    PROVE  /\ step[p] \in CertSteps /\ mem[p] \in Mems /\ MemBounded(mem[p])
           /\ mem[p].key \in Nat /\ mem[p].cert \in Nat /\ mem[p].ctx \in Nat
           /\ step[p] \in Loading => mem[p].then # "stop"
           /\ step[p] = "post" => mem[p].key # 0
           /\ ~raced /\ ~replaced => Sound(step[p], mem[p])
BY DEF Placed, CertInv, CertTypeOK, Bounded, CertSound, Mems

\* Nothing, at any step but the sending of a request and the installing.
LEMMA NothingHeld ==
    /\ NotLoaded \in Loads /\ NoMem \in Mems /\ NoMem.key = 0 /\ NoMem.cert = 0 /\ NoMem.ctx = 0
    /\ NoMem.then = "stop"
BY DEF NotLoaded, Loads, NoMem, Mems

LEMMA QuietStep ==
    ASSUME CertInv, NEW p \in Renewers, NEW s \in CertSteps, NEW m \in Mems,
           step' = [step EXCEPT ![p] = s], mem' = [mem EXCEPT ![p] = m],
           UNCHANGED <<creds, certKey, server, keys, enroll, torn, raced, replaced>>, loaded' \in Loads,
           MemBounded(m), Placed(s, m), ~raced /\ ~replaced => Sound(s, m)
    PROVE  CertInv'
<1>1. /\ step' \in [Renewers -> CertSteps] /\ mem' \in [Renewers -> Mems]
      /\ step'[p] = s /\ mem'[p] = m
      /\ \A q \in Renewers \ {p} : step'[q] = step[q] /\ mem'[q] = mem[q]
  BY DEF CertInv, CertTypeOK
<1>2. CertTypeOK' /\ PendingFresh'
  BY <1>1 DEF CertInv, CertTypeOK, PendingFresh
<1>3. Bounded'
  BY <1>1 DEF CertInv, Bounded, MemBounded, Placed
<1>4. ASSUME ~raced, ~replaced PROVE CertSound'
  <2>1. Renewable' /\ Enrolled'
    BY <1>4 DEF CertInv, CertSound, Renewable, Enrolled, Current
  <2>2. \A x, y : Sound(x, y) => Sound(x, y)'
    BY DEF Sound, Current
  <2>3. \A q \in Renewers : Sound(step'[q], mem'[q])
    BY <1>1, <1>4 DEF CertInv, CertSound
  <2> QED BY <2>1, <2>2, <2>3 DEF CertSound
<1> QED BY <1>2, <1>3, <1>4 DEF CertInv

\* What a process leaves with when it comes to rest.
LEMMA RestSound ==
    ASSUME CertInv, NEW s \in Resting, NEW m \in Mems, MemBounded(m), NEW x, ~raced /\ ~replaced => Sound(x, m)
    PROVE  /\ Holding(m, s) \in Mems /\ MemBounded(Holding(m, s))
           /\ ~raced /\ ~replaced => Sound(s, Holding(m, s))
<1>1. /\ Holding(m, s) \in Mems /\ Holding(m, s).key = 0 /\ Holding(m, s).cert = 0
      /\ Holding(m, s).ctx \in {0, m.ctx}
  BY NothingHeld DEF Holding, Resting, Mems, NoMem
<1>2. s \notin Installing /\ s # "post"
  BY DEF Resting, Installing
<1>3. keys \in Nat /\ Len(certKey) \in Nat /\ server.current # 0 /\ Current # 0 /\ m.ctx \in Nat
  BY Facts DEF Mems
<1>4. MemBounded(Holding(m, s))
  BY <1>1, <1>3 DEF MemBounded
<1>5. ASSUME ~raced, ~replaced PROVE Sound(s, Holding(m, s))
  <2>1. Sound(x, m)
    BY <1>5
  <2> HIDE DEF Holding
  <2> QED BY <1>1, <1>2, <1>3, <2>1 DEF Sound, Installing
<1> QED BY <1>1, <1>4, <1>5

\* A step of a process alone.
LEMMA GoesStep ==
    ASSUME CertInv, NEW p \in Renewers, NEW s \in CertSteps, NEW m \in Mems, NEW x, GoesWith(p, s, m),
           UNCHANGED <<creds, certKey, server, keys, enroll, torn, raced, replaced>>, loaded' \in Loads,
           MemBounded(m), Placed(s, m), ~raced /\ ~replaced => Sound(x, m),
           s \in Resting \/ (raced \/ replaced \/ Sound(s, m))
    PROVE  CertInv'
<1>1. step' = [step EXCEPT ![p] = s] /\ mem' = [mem EXCEPT ![p] = Holding(m, s)]
  BY DEF GoesWith, Goes
<1>2. CASE s \in Resting
  <2>1. s \notin Loading /\ s # "post"
    BY <1>2 DEF Resting, Loading
  <2>2. Placed(s, Holding(m, s))
    BY <2>1 DEF Placed
  <2> QED BY <1>1, <1>2, <2>2, RestSound, QuietStep DEF Placed
<1>3. CASE s \notin Resting
  <2>1. Holding(m, s) = m
    BY <1>3 DEF Holding, Resting
  <2> QED BY <1>1, <1>3, <2>1, QuietStep DEF Placed
<1> QED BY <1>2, <1>3

\* CertSteps at which nothing is asked of a process but what it was asked before.
Neutral == Loading \cup {"decide", "pending", "newkey", "done"}

LEMMA NeutralSound ==
    ASSUME NEW x, NEW m, Sound(x, m), NEW s \in Neutral
    PROVE  Sound(s, m)
<1>1. s \notin Installing /\ s \notin Resting /\ s # "post" /\ s # "movekey"
  BY DEF Neutral, Loading, Installing, Resting
<1> QED BY <1>1 DEF Sound


LEMMA LoadingSteps ==
    ASSUME CertInv, NEW p \in Renewers, SwapCheck(p) \/ LoadPair(p) \/ ReadSerial(p)
    PROVE  CertInv'
<1>1. /\ step[p] \in Loading /\ mem[p] \in Mems /\ MemBounded(mem[p]) /\ mem[p].then # "stop"
      /\ UNCHANGED <<creds, certKey, server, keys, enroll, torn, raced, replaced>>
      /\ loaded \in Loads
      /\ ~raced /\ ~replaced => Sound(step[p], mem[p])
  <2>1. /\ step[p] \in Loading /\ UNCHANGED <<creds, certKey, server, keys, enroll, torn, raced, replaced>>
    BY DEF SwapCheck, LoadPair, ReadSerial, Loading, fileVars, serverVars
  <2> QED BY <2>1, MemFacts DEF CertInv, CertTypeOK
<1>2. CASE SwapCheck(p)
  <2>1. PICK s \in {"swapmove", "load"} : step' = [step EXCEPT ![p] = s]
    BY <1>2 DEF SwapCheck, Goes
  <2>2. mem' = [mem EXCEPT ![p] = mem[p]] /\ loaded' = loaded
    BY <1>2 DEF SwapCheck, serverVars, CertInv, CertTypeOK
  <2>3. s \in Neutral /\ s \in CertSteps
    BY DEF Neutral, CertSteps, Loading
  <2>4. ~raced /\ ~replaced => Sound(s, mem[p])
    BY <1>1, <2>3, NeutralSound
  <2> QED BY <1>1, <2>1, <2>2, <2>3, <2>4, QuietStep DEF Placed
<1>3. CASE LoadPair(p)
  <2> DEFINE taken(bad) == IF ~bad /\ IsWholePair(creds["cert"], creds["key"]) THEN "cert" ELSE "pcert"
  <2>0. PICK bad \in BOOLEAN :
           IF taken(bad) = "pcert" /\ ~IsWholePair(creds["pcert"], creds["pkey"])
           THEN /\ GoesWith(p, LoadFails(p), mem[p])
                /\ loaded' = IF mem[p].then = "renewed" THEN mem[p].was ELSE loaded
           ELSE /\ GoesWith(p, "serial", [mem[p] EXCEPT !.ctx = creds[taken(bad)], !.path = taken(bad)])
                /\ loaded' = loaded
    BY <1>3 DEF LoadPair
  <2> DEFINE path == taken(bad)
             m == [mem[p] EXCEPT !.ctx = creds[path], !.path = path]
  <2>1. CASE path = "pcert" /\ ~IsWholePair(creds["pcert"], creds["pkey"])
    <3>1. GoesWith(p, LoadFails(p), mem[p])
          /\ loaded' = IF mem[p].then = "renewed" THEN mem[p].was ELSE loaded
      BY <2>0, <2>1
    <3>2. loaded' \in Loads
      BY <1>1, <3>1 DEF Mems
    <3>3. LoadFails(p) \in {"decide", "idle", "off"}
      BY DEF LoadFails
    <3>4. LoadFails(p) \in CertSteps /\ LoadFails(p) \notin Loading \cup {"post"} /\ LoadFails(p) \in Resting \cup Neutral
      BY <3>3 DEF CertSteps, Loading, Resting, Neutral
    <3>5. LoadFails(p) \in Resting \/ (raced \/ replaced \/ Sound(LoadFails(p), mem[p]))
      BY <1>1, <3>4, NeutralSound
    <3> HIDE DEF LoadFails
    <3> QED BY <1>1, <3>1, <3>2, <3>4, <3>5, GoesStep DEF Placed
  <2>2. CASE ~(path = "pcert" /\ ~IsWholePair(creds["pcert"], creds["pkey"]))
    <3>1. GoesWith(p, "serial", m) /\ loaded' = loaded
      BY <2>0, <2>2
    <3>2. PICK c \in {"cert", "pcert"}, k \in {"key", "pkey"} : path = c /\ IsWholePair(creds[c], creds[k])
      BY <2>2
    <3>3. creds[c] \in Nat /\ creds[c] =< Len(certKey) /\ creds["nkey"] \in Nat
      BY Facts DEF CertInv, Bounded, CredFiles
    <3>4. /\ m \in Mems /\ m.ctx = creds[c] /\ m.key = mem[p].key /\ m.cert = mem[p].cert
          /\ m.then = mem[p].then
      BY <1>1, <3>2, <3>3 DEF Mems
    <3>5. MemBounded(m)
      BY <1>1, <3>3, <3>4 DEF MemBounded
    <3> HIDE DEF m, path
    <3>6. ASSUME ~raced, ~replaced PROVE Sound("serial", m)
      <4>1. Sound(step[p], mem[p]) /\ Enrolled
        BY <1>1, <3>6 DEF CertInv, CertSound
      <4>2. creds["nkey"] = Current => creds[c] # server.current
        <5>1. creds[c] = server.current => creds[k] = Current
          BY <3>2 DEF IsWholePair, Current
        <5>2. creds["nkey"] # 0 => creds["nkey"] # creds[k]
          BY <3>2 DEF CertInv, PendingFresh
        <5> QED BY <5>1, <5>2, Facts
      <4>3. torn => creds[c] # server.current
        BY <4>1, <3>2 DEF Enrolled
      <4>4. "serial" \notin Installing /\ "serial" \notin Resting
        BY DEF Installing, Resting
      <4> QED BY <3>4, <4>1, <4>2, <4>3, <4>4 DEF Sound
    <3>7. "serial" \in CertSteps
      BY DEF CertSteps, Loading
    <3> QED BY <1>1, <3>1, <3>4, <3>5, <3>6, <3>7, GoesStep DEF Placed
  <2> QED BY <2>1, <2>2
<1>4. CASE ReadSerial(p)
  <2>1. loaded' \in Loads
    <3>1. creds[mem[p].path] \in Nat
      BY <1>1, Facts DEF Mems, CredFiles
    <3> QED BY <1>1, <1>4, <3>1 DEF ReadSerial, Loads
  <2> DEFINE s == IF mem[p].then = "renewed" THEN "idle" ELSE mem[p].then
  <2>2. GoesWith(p, s, mem[p])
    BY <1>4 DEF ReadSerial
  <2>3. s \in {"idle", "decide", "pending"}
    BY <1>1 DEF Mems
  <2>4. s \in CertSteps /\ s \notin Loading \cup {"post"} /\ s \in Resting \cup Neutral
    BY <2>3 DEF CertSteps, Loading, Resting, Neutral
  <2> HIDE DEF s
  <2>5. s \in Resting \/ (raced \/ replaced \/ Sound(s, mem[p]))
    BY <1>1, <2>4, NeutralSound
  <2> QED BY <1>1, <2>1, <2>2, <2>4, <2>5, GoesStep DEF Placed
<1> QED BY <1>2, <1>3, <1>4

\* Starts, checks and deaths.
LEMMA AgentSteps ==
    ASSUME CertInv, BootAgent \/ CmdRenew \/ CheckCert \/ Decide
    PROVE  CertInv'
<1>1. /\ UNCHANGED <<creds, certKey, server, keys, enroll, torn, raced, replaced>> /\ loaded' \in Loads
      /\ "agent" \in Renewers /\ "cli" \in Renewers
  BY NothingHeld DEF BootAgent, CmdRenew, CheckCert, Decide, fileVars, serverVars, Keeping, Renewers,
     CertInv, CertTypeOK
<1>2. CASE BootAgent \/ CmdRenew
  <2>1. PICK p \in Renewers, then \in {"idle", "pending"} :
            step' = [step EXCEPT ![p] = "swap"] /\ mem' = [mem EXCEPT ![p] = [NoMem EXCEPT !.then = then]]
    BY <1>1, <1>2 DEF BootAgent, CmdRenew, Goes
  <2> DEFINE m == [NoMem EXCEPT !.then = then]
  <2>2. m \in Mems /\ m.key = 0 /\ m.cert = 0 /\ m.ctx = 0 /\ m.then # "stop"
    BY NothingHeld DEF Mems
  <2> HIDE DEF m
  <2>3. MemBounded(m)
    BY <2>2, Facts DEF MemBounded
  <2>4. "swap" \in CertSteps /\ "swap" \notin Installing /\ "swap" \notin Resting
    BY DEF CertSteps, Loading, Installing, Resting
  <2>5. Sound("swap", m)
    BY <2>2, <2>4, Facts DEF Sound
  <2> QED BY <1>1, <2>1, <2>2, <2>3, <2>4, <2>5, QuietStep DEF Placed, m
<1>3. CASE CheckCert
  <2>1. PICK s \in {"swap", "decide"} : step' = [step EXCEPT !["agent"] = s]
    BY <1>3 DEF CheckCert, Goes
  <2> DEFINE m == [mem["agent"] EXCEPT !.then = "decide", !.was = loaded]
  <2>2. /\ mem["agent"] \in Mems /\ MemBounded(mem["agent"]) /\ loaded \in Loads
        /\ ~raced /\ ~replaced => Sound(step["agent"], mem["agent"])
    BY <1>1, MemFacts DEF CertInv, CertTypeOK
  <2>3. mem' = [mem EXCEPT !["agent"] = m]
    BY <1>1, <1>3, <2>2 DEF CheckCert, CertInv, CertTypeOK, Mems
  <2>4. /\ m \in Mems /\ m.key = mem["agent"].key /\ m.cert = mem["agent"].cert /\ m.ctx = mem["agent"].ctx
        /\ m.then # "stop"
    BY <2>2 DEF Mems
  <2> HIDE DEF m
  <2>5. MemBounded(m)
    BY <2>2, <2>4 DEF MemBounded
  <2>6. s \in Neutral /\ s \in CertSteps
    BY DEF Neutral, CertSteps, Loading
  <2>7. ~raced /\ ~replaced => Sound(step["agent"], m)
    BY <2>2, <2>4 DEF Sound
  <2>8. ~raced /\ ~replaced => Sound(s, m)
    BY <2>6, <2>7, NeutralSound
  <2> QED BY <1>1, <2>1, <2>3, <2>4, <2>5, <2>6, <2>8, QuietStep DEF Placed
<1>4. CASE Decide
  <2>1. PICK s \in {"pending", "idle"} : GoesWith("agent", s, mem["agent"])
    BY <1>4 DEF Decide
  <2>2. /\ mem["agent"] \in Mems /\ MemBounded(mem["agent"])
        /\ ~raced /\ ~replaced => Sound(step["agent"], mem["agent"])
    BY <1>1, MemFacts
  <2>3. s \in CertSteps /\ s \notin Loading /\ s \in Resting \cup Neutral
    BY DEF CertSteps, Loading, Resting, Neutral
  <2>4. s \in Resting \/ (raced \/ replaced \/ Sound(s, mem["agent"]))
    BY <2>2, <2>3, NeutralSound
  <2> QED BY <1>1, <2>1, <2>2, <2>3, <2>4, GoesStep DEF Placed
<1> QED BY <1>2, <1>3, <1>4


\* A renewal between its writes, and processes that die or fail.
LEMMA RenewalSteps ==
    ASSUME CertInv, NEW p \in Renewers,
           LoadPendingKey(p) \/ SnapshotCheck(p) \/ Installed(p) \/ Die(p) \/ WriteFails(p)
    PROVE  CertInv'
<1>2. UNCHANGED <<creds, certKey, server, keys, enroll, torn, raced, replaced>> /\ loaded' \in Loads
  BY NothingHeld DEF LoadPendingKey, SnapshotCheck, Installed, Die, WriteFails, fileVars, serverVars,
     Keeping, CertInv, CertTypeOK
<1>3. mem[p] \in Mems /\ MemBounded(mem[p]) /\ (~raced /\ ~replaced => Sound(step[p], mem[p]))
  BY MemFacts
<1>4. CASE LoadPendingKey(p)
  <2> DEFINE m == [mem[p] EXCEPT !.key = creds["nkey"]]
  <2>1. PICK s \in {"post", "newkey"} : /\ step' = [step EXCEPT ![p] = s] /\ mem' = [mem EXCEPT ![p] = m]
                                        /\ s = "post" => creds["nkey"] # 0
    BY <1>4 DEF LoadPendingKey, Goes
  <2>2. creds["nkey"] \in Nat /\ creds["nkey"] =< keys
    BY Facts DEF CertInv, Bounded, CredFiles
  <2>3. m \in Mems /\ m.key = creds["nkey"] /\ m.cert = mem[p].cert /\ m.ctx = mem[p].ctx
    BY <1>3, <2>2 DEF Mems
  <2>4. s \in {"post", "newkey"} /\ (s = "post" => creds["nkey"] # 0)
    BY <2>1
  <2>5. s \in CertSteps /\ s \notin Loading /\ s \notin Installing /\ s \notin Resting
    BY DEF CertSteps, Loading, Installing, Resting
  <2> HIDE DEF m
  <2>6. MemBounded(m)
    BY <1>3, <2>2, <2>3 DEF MemBounded
  <2>7. ASSUME ~raced, ~replaced PROVE Sound(s, m)
    <3>1. torn => Current # creds["nkey"]
      BY <2>7 DEF CertInv, CertSound, Enrolled
    <3> QED BY <1>3, <2>3, <2>4, <2>5, <2>7, <3>1 DEF Sound, Installing
  <2> QED BY <1>2, <2>1, <2>3, <2>4, <2>5, <2>6, <2>7, QuietStep DEF Placed
<1>5. CASE SnapshotCheck(p)
  <2>1. PICK s \in {"linkcert", "movecert"} : step' = [step EXCEPT ![p] = s]
    BY <1>5 DEF SnapshotCheck, Goes
  <2>2. mem' = [mem EXCEPT ![p] = mem[p]]
    BY <1>5 DEF SnapshotCheck, serverVars, CertInv, CertTypeOK
  <2>3. /\ s \in CertSteps /\ s \notin Loading /\ s \notin Resting /\ s # "post" /\ s # "movekey"
        /\ step[p] \in Installing
    BY <1>5 DEF SnapshotCheck, CertSteps, Loading, Installing, Resting
  <2>4. ~raced /\ ~replaced => Sound(s, mem[p])
    BY <1>3, <2>3 DEF Sound
  <2> QED BY <1>2, <1>3, <2>1, <2>2, <2>3, <2>4, QuietStep DEF Placed
<1>6. CASE Installed(p)
  <2> DEFINE m == [NoMem EXCEPT !.ctx = mem[p].ctx, !.then = "renewed", !.was = mem[p].was]
  <2>1. PICK s \in {"swap", "off"} : GoesWith(p, s, m)
    BY <1>6 DEF Installed
  <2>2. m \in Mems /\ m.ctx = mem[p].ctx /\ m.key = 0 /\ m.cert = 0 /\ m.then # "stop"
    BY <1>3, NothingHeld DEF Mems
  <2> HIDE DEF m
  <2>3. MemBounded(m)
    BY <1>3, <2>2, Facts DEF MemBounded
  <2>4. s \in CertSteps /\ s \notin Installing /\ s # "post" /\ s # "movekey"
    BY DEF CertSteps, Loading, Installing, Resting
  <2>5. ~raced /\ ~replaced => Sound(s, m)
    BY <1>3, <2>2, <2>4, Facts DEF Sound
  <2> QED BY <1>2, <2>1, <2>2, <2>3, <2>4, <2>5, GoesStep DEF Placed
<1>7. CASE Die(p)
  <2>1. GoesWith(p, "off", NoMem)
    BY <1>7 DEF Die
  <2>2. MemBounded(NoMem)
    BY NothingHeld, Facts DEF MemBounded
  <2>3. "off" \in CertSteps /\ "off" \in Resting /\ "off" \notin Loading /\ "off" \notin Installing
    BY DEF CertSteps, Resting, Loading, Installing
  <2>4. Sound("off", NoMem)
    BY NothingHeld, Facts, <2>3 DEF Sound
  <2> QED BY <1>2, <2>1, <2>2, <2>3, <2>4, NothingHeld, GoesStep DEF Placed
<1>8. CASE WriteFails(p)
  <2>1. PICK s \in {"idle", "off"} : GoesWith(p, s, mem[p])
    BY <1>8 DEF WriteFails, AfterFailure
  <2>2. s \in CertSteps /\ s \in Resting /\ s \notin Loading
    BY DEF CertSteps, Resting, Loading
  <2> QED BY <1>2, <1>3, <2>1, <2>2, GoesStep DEF Placed
<1> QED BY <1>4, <1>5, <1>6, <1>7, <1>8

----------------------------------------------------------------------------
(* CertSteps that write files.                                                 *)


\* Where a step leaves the processes.
LEMMA GoesFacts ==
    ASSUME CertInv, NEW p \in Renewers, NEW s \in CertSteps, NEW m \in Mems, GoesWith(p, s, m)
    PROVE  /\ step' \in [Renewers -> CertSteps] /\ mem' \in [Renewers -> Mems]
           /\ step'[p] = s /\ mem'[p] = Holding(m, s)
           /\ Holding(m, s).key \in {0, m.key} /\ Holding(m, s).cert \in {0, m.cert}
           /\ Holding(m, s).ctx \in {0, m.ctx}
           /\ s \in Resting => Holding(m, s).key = 0 /\ Holding(m, s).cert = 0
           /\ s \notin Resting => Holding(m, s) = m
           /\ \A q \in Renewers \ {p} : step'[q] = step[q] /\ mem'[q] = mem[q]
<1>1. /\ Holding(m, s).key \in {0, m.key} /\ Holding(m, s).cert \in {0, m.cert}
      /\ Holding(m, s).ctx \in {0, m.ctx} /\ Holding(m, s) \in Mems
      /\ s \in Resting => Holding(m, s).key = 0 /\ Holding(m, s).cert = 0
      /\ s \notin Resting => Holding(m, s) = m
  BY NothingHeld DEF Holding, Mems, NoMem, Resting
<1> HIDE DEF Holding
<1> QED BY <1>1 DEF GoesWith, Goes, CertInv, CertTypeOK

\* A step of a process that writes a file, or makes a key: what is left to show of it.
LEMMA FileStep ==
    ASSUME CertInv, NEW p \in Renewers, NEW s \in CertSteps, NEW m \in Mems, GoesWith(p, s, m),
           creds' \in [CredFiles -> Nat], raced' \in BOOLEAN, replaced' \in BOOLEAN, keys' \in Nat \ {0}, keys =< keys',
           UNCHANGED <<certKey, server, enroll, torn, loaded>>,
           \A f \in {"cert", "pcert", "ncert"} : creds'[f] =< Len(certKey),
           \A f \in {"key", "pkey", "nkey"} : creds'[f] =< keys',
           m.key =< keys', m.cert =< Len(certKey), m.ctx =< Len(certKey),
           Placed(s, m), PendingFresh',
           ~raced' /\ ~replaced' => Renewable' /\ Enrolled' /\ (\A q \in Renewers : Sound(step[q], mem[q])')
    PROVE  CertInv'
<1>1. /\ step' \in [Renewers -> CertSteps] /\ mem' \in [Renewers -> Mems] /\ step'[p] = s
      /\ mem'[p].key \in {0, m.key} /\ mem'[p].cert \in {0, m.cert} /\ mem'[p].ctx \in {0, m.ctx}
      /\ s \notin Resting => mem'[p] = m
      /\ s \in Loading \cup {"post"} => s \notin Resting
      /\ \A q \in Renewers \ {p} : step'[q] = step[q] /\ mem'[q] = mem[q]
  <2>1. s \in Loading \cup {"post"} => s \notin Resting
    BY DEF Loading, Resting
  <2> QED BY <2>1, GoesFacts
<1>2. CertTypeOK'
  BY <1>1 DEF CertInv, CertTypeOK
<1>3. MemBounded(mem[p])'
  BY <1>1, Facts, SMTT(30) DEF MemBounded
<1>4. \A q \in Renewers \ {p} : MemBounded(mem[q])'
  <2>1. \A q \in Renewers : MemBounded(mem[q]) /\ mem[q].key \in Nat
    BY MemFacts
  <2> QED BY <1>1, <2>1, Facts, SMTT(30) DEF MemBounded
<1>5. \A q \in Renewers : (MemBounded(mem[q]) /\ Placed(step[q], mem[q]))'
  BY <1>1, <1>3, <1>4 DEF CertInv, Bounded, Placed
<1>6. Bounded'
  <2>1. \A x \in DOMAIN certKey : certKey[x] =< keys'
    BY Facts
  <2>2. enroll.key =< keys' /\ enroll.cert =< Len(certKey)
    BY Facts DEF CertInv, Bounded
  <2> QED BY <1>5, <2>1, <2>2 DEF CertInv, Bounded
<1> QED BY <1>2, <1>6 DEF CertInv, CertSound

LEMMA SwapMoveStep ==
    ASSUME CertInv, NEW p \in Renewers, SwapMove(p)
    PROVE  CertInv'
<1>1. /\ step[p] = "swapmove" /\ step' = [step EXCEPT ![p] = "load"] /\ mem' = mem
      /\ creds' = IF creds["nkey"] = 0 THEN creds
                  ELSE [creds EXCEPT !["key"] = creds["nkey"], !["nkey"] = 0]
      /\ raced' = (raced \/ enroll.at # "off" \/ ~IsWholePair(creds["cert"], creds["nkey"]))
      /\ replaced' = replaced
      /\ UNCHANGED <<torn, certKey, server, keys, loaded, enroll>>
  BY DEF SwapMove, Goes, serverVars, Keeping
<1>2. mem[p] \in Mems /\ MemBounded(mem[p]) /\ mem[p].then # "stop"
  BY <1>1, MemFacts DEF Loading
<1>3. GoesWith(p, "load", mem[p]) /\ "load" \in CertSteps
  BY <1>1 DEF GoesWith, Goes, Holding, CertInv, CertTypeOK, CertSteps, Loading
<1>4. creds \in [CredFiles -> Nat] /\ {"cert", "pcert", "ncert", "key", "pkey", "nkey"} \subseteq CredFiles
      /\ creds["nkey"] =< keys
  BY DEF CertInv, CertTypeOK, CredFiles, Bounded
<1>5. /\ creds' \in [CredFiles -> Nat]
      /\ \A f \in {"cert", "pcert", "ncert"} : creds'[f] = creds[f]
      /\ \A f \in {"key", "pkey", "nkey"} : creds'[f] =< keys
      /\ creds'["nkey"] = 0
      /\ creds["nkey"] # 0 => creds'["key"] = creds["nkey"]
  <2>1. \A f \in {"key", "pkey", "nkey"} : creds[f] =< keys
    BY DEF CertInv, Bounded
  <2>2. CASE creds["nkey"] = 0
    BY <1>1, <1>4, <2>1, <2>2
  <2>3. CASE creds["nkey"] # 0
    <3>1. /\ creds' \in [CredFiles -> Nat] /\ creds'["nkey"] = 0 /\ creds'["key"] = creds["nkey"]
          /\ \A f \in {"cert", "pcert", "ncert", "pkey"} : creds'[f] = creds[f]
      BY <1>1, <1>4, <2>3
    <3> QED BY <1>4, <2>1, <2>3, <3>1, Facts
  <2> QED BY <2>2, <2>3
<1>6. PendingFresh'
  BY <1>1, <1>5 DEF CertInv, PendingFresh
<1>7. ASSUME ~raced', ~replaced' PROVE Renewable' /\ Enrolled' /\ (\A q \in Renewers : Sound(step[q], mem[q])')
  <2>1. /\ ~raced /\ ~replaced /\ enroll.at = "off" /\ creds["cert"] # 0 /\ creds["nkey"] # 0
        /\ certKey[creds["cert"]] = creds["nkey"]
        /\ Renewable /\ Enrolled /\ \A q \in Renewers : Sound(step[q], mem[q])
    BY <1>1, <1>7 DEF IsWholePair, CertInv, CertSound
  <2>2. creds["nkey"] # creds["key"]
    BY <2>1 DEF CertInv, PendingFresh
  <2>3. ~torn => creds["cert"] = server.current /\ creds["nkey"] = Current
    BY <2>1, <2>2 DEF Renewable, Current
  <2>4. Current' = Current /\ Current # 0
    BY <1>1, Facts DEF Current
  <2>5. Renewable' /\ Enrolled'
    BY <1>1, <1>5, <2>1, <2>3, <2>4 DEF Renewable, Enrolled
  <2>6. ASSUME NEW q \in Renewers PROVE Sound(step[q], mem[q])'
    <3>1. step'[q] = step[q] \/ (step[q] = "swapmove" /\ step'[q] = "load")
      BY <1>1 DEF CertInv, CertTypeOK
    <3>2. Sound(step'[q], mem[q])
      <4>1. "load" \in Neutral
        BY DEF Neutral, Loading
      <4> QED BY <2>1, <3>1, <4>1, NeutralSound
    <3> QED BY <1>1, <1>5, <2>3, <2>4, <3>2 DEF Sound
  <2> QED BY <2>5, <2>6
<1>8. raced' \in BOOLEAN /\ replaced' \in BOOLEAN /\ keys' \in Nat \ {0} /\ keys =< keys'
  BY <1>1, Facts
<1>9. \A f \in {"cert", "pcert", "ncert"} : creds'[f] =< Len(certKey)
  BY <1>5 DEF CertInv, Bounded
<1> QED BY <1>1, <1>2, <1>3, <1>5, <1>6, <1>7, <1>8, <1>9, FileStep DEF MemBounded, Placed

LEMMA CreateStep ==
    ASSUME CertInv, NEW p \in Renewers, CreatePendingKey(p)
    PROVE  CertInv'
<1> DEFINE m == [mem[p] EXCEPT !.key = keys + 1]
<1>1. /\ step[p] = "newkey" /\ step' = [step EXCEPT ![p] = "post"] /\ mem' = [mem EXCEPT ![p] = m]
      /\ keys' = keys + 1 /\ creds' = [creds EXCEPT !["nkey"] = keys + 1]
      /\ raced' = (raced \/ creds["nkey"] # mem[p].key
                   \/ \E q \in Renewers : step[q] = "post" /\ mem[q].key = creds["nkey"])
      /\ replaced' = (replaced \/ creds["nkey"] = Current)
      /\ UNCHANGED <<torn, certKey, server, loaded, enroll>>
  BY DEF CreatePendingKey, Goes, Keeping, Current
<1>2. mem[p] \in Mems /\ MemBounded(mem[p]) /\ keys \in Nat \ {0}
  BY MemFacts, Facts
<1>3. m \in Mems /\ m.key = keys + 1 /\ m.cert = mem[p].cert /\ m.ctx = mem[p].ctx
  <2>1. PICK k \in Nat : k = keys + 1
    BY <1>2
  <2> QED BY <1>2, <2>1 DEF Mems
<1> HIDE DEF m
<1>4. GoesWith(p, "post", m) /\ "post" \in CertSteps /\ "post" \notin Loading
      /\ "post" \notin Resting /\ "post" \notin Installing
  BY <1>1 DEF GoesWith, Goes, Holding, CertSteps, Loading, Resting, Installing
<1>5. creds \in [CredFiles -> Nat] /\ {"cert", "pcert", "ncert", "key", "pkey", "nkey"} \subseteq CredFiles
  BY DEF CertInv, CertTypeOK, CredFiles
<1>6. /\ creds' \in [CredFiles -> Nat] /\ creds'["nkey"] = keys + 1
      /\ \A f \in {"cert", "pcert", "ncert", "key", "pkey"} : creds'[f] = creds[f]
  BY <1>1, <1>2, <1>5
<1>7. creds["key"] =< keys /\ creds["pkey"] =< keys /\ enroll.key =< keys /\ enroll.key \in Nat
      /\ Current' = Current /\ Current =< keys /\ Current \in Nat
      /\ \A f \in {"cert", "pcert", "ncert"} : creds[f] =< Len(certKey)
  BY <1>1, Facts DEF CertInv, Bounded, Current
<1>8. PendingFresh'
  BY <1>1, <1>2, <1>5, <1>6, <1>7 DEF CertInv, PendingFresh
<1>9. ASSUME ~raced', ~replaced' PROVE Renewable' /\ Enrolled' /\ (\A q \in Renewers : Sound(step[q], mem[q])')
  <2>1. /\ ~raced /\ ~replaced /\ creds["nkey"] # Current
        /\ \A q \in Renewers : step[q] = "post" => mem[q].key # creds["nkey"]
        /\ Renewable /\ Enrolled /\ \A q \in Renewers : Sound(step[q], mem[q])
    BY <1>1, <1>9 DEF CertInv, CertSound
  <2>2. Current # 0 /\ Current # keys + 1
    BY <1>2, <1>7, Facts
  <2>3. Renewable' /\ Enrolled'
    BY <1>1, <1>6, <1>7, <2>1, <2>2 DEF Renewable, Enrolled
  <2>4. ASSUME NEW q \in Renewers \ {p} PROVE Sound(step[q], mem[q])'
    <3>1. /\ step'[q] = step[q] /\ mem'[q] = mem[q] /\ Sound(step[q], mem[q])
          /\ step[q] = "post" => mem[q].key # 0
      BY <1>3, <1>4, <2>1, GoesFacts, MemFacts
    <3> QED BY <1>1, <1>6, <1>7, <2>1, <2>2, <3>1 DEF Sound
  <2>5. Sound(step[p], mem[p])'
    <3>1. step'[p] = "post" /\ mem'[p] = m /\ Sound(step[p], mem[p])
      BY <1>3, <1>4, <2>1, GoesFacts
    <3> QED BY <1>1, <1>2, <1>3, <1>4, <1>6, <1>7, <2>1, <2>2, <3>1 DEF Sound
  <2> QED BY <2>3, <2>4, <2>5
<1>10. /\ raced' \in BOOLEAN /\ replaced' \in BOOLEAN /\ keys' \in Nat \ {0} /\ keys =< keys' /\ m.key =< keys'
       /\ m.cert =< Len(certKey) /\ m.ctx =< Len(certKey)
       /\ \A f \in {"key", "pkey", "nkey"} : creds'[f] =< keys'
       /\ \A f \in {"cert", "pcert", "ncert"} : creds'[f] =< Len(certKey)
  BY <1>1, <1>2, <1>3, <1>5, <1>6, <1>7, Facts DEF MemBounded
<1> QED BY <1>1, <1>3, <1>4, <1>6, <1>8, <1>9, <1>10, FileStep DEF Placed


\* The issued certificate, and the .prev pair: no file a start would take is touched.
LEMMA KeepStep ==
    ASSUME CertInv, NEW p \in Renewers, WriteNewCert(p) \/ LinkPrev(p)
    PROVE  CertInv'
<1>1. /\ step[p] \in Installing /\ mem[p] \in Mems /\ MemBounded(mem[p])
      /\ UNCHANGED <<torn, raced, replaced, certKey, server, keys, loaded, enroll, mem>>
  BY MemFacts DEF WriteNewCert, LinkPrev, serverVars, Keeping, Installing
<1>2. /\ creds \in [CredFiles -> Nat] /\ {"cert", "pcert", "ncert", "key", "pkey", "nkey"} \subseteq CredFiles
      /\ \A f \in {"cert", "pcert", "ncert"} : creds[f] =< Len(certKey)
      /\ \A f \in {"key", "pkey", "nkey"} : creds[f] =< keys
  BY DEF CertInv, CertTypeOK, CredFiles, Bounded
<1>3. PICK f \in {"ncert", "pcert", "pkey"}, s \in {"snapshot", "linkkey", "movecert"}, x \in Nat :
          /\ creds' = [creds EXCEPT ![f] = x] /\ step' = [step EXCEPT ![p] = s]
          /\ f = "ncert" => x =< Len(certKey)
          /\ f = "pcert" => x = creds["cert"]
          /\ f = "pkey" => x = creds["key"]
  <2>1. CASE WriteNewCert(p)
    BY <1>1, <2>1 DEF WriteNewCert, Goes, MemBounded, Mems
  <2>2. CASE LinkPrev(p)
    <3>1. \/ creds' = [creds EXCEPT !["pcert"] = creds["cert"]] /\ step' = [step EXCEPT ![p] = "linkkey"]
          \/ creds' = [creds EXCEPT !["pkey"] = creds["key"]] /\ step' = [step EXCEPT ![p] = "movecert"]
      <4> DEFINE a == [at |-> "linkcert", live |-> "cert", prev |-> "pcert", to |-> "linkkey"]
                 b == [at |-> "linkkey", live |-> "key", prev |-> "pkey", to |-> "movecert"]
      <4>1. PICK g \in {a, b} : /\ creds' = [creds EXCEPT ![g.prev] = creds[g.live]]
                                /\ step' = [step EXCEPT ![p] = g.to]
        BY <2>2 DEF LinkPrev, Goes
      <4>2. CASE g = a
        BY <4>1, <4>2
      <4>3. CASE g = b
        BY <4>1, <4>3
      <4> QED BY <4>2, <4>3
    <3> QED BY <1>2, <3>1
  <2> QED BY <2>1, <2>2
<1>4. /\ s \in CertSteps /\ s \in Installing /\ s # "movekey" /\ s # "post"
      /\ s \notin Loading /\ s \notin Resting
  BY DEF CertSteps, Installing, Loading, Resting
<1>5. GoesWith(p, s, mem[p])
  <2>1. Holding(mem[p], s) = mem[p]
    BY DEF Holding
  <2> QED BY <1>1, <1>3, <2>1 DEF GoesWith, Goes, CertInv, CertTypeOK
<1>6. creds' \in [CredFiles -> Nat] /\ creds'[f] = x /\ \A g \in CredFiles \ {f} : creds'[g] = creds[g]
  BY <1>2, <1>3
<1>7. /\ \A g \in {"cert", "pcert", "ncert"} : creds'[g] =< Len(certKey)
      /\ \A g \in {"key", "pkey", "nkey"} : creds'[g] =< keys
      /\ creds'["cert"] = creds["cert"] /\ creds'["key"] = creds["key"] /\ creds'["nkey"] = creds["nkey"]
      /\ creds'["pcert"] \in {creds["pcert"], creds["cert"]}
      /\ creds'["pkey"] \in {creds["pkey"], creds["key"]}
  BY <1>2, <1>3, <1>6
<1>8. PendingFresh'
  BY <1>1, <1>7 DEF CertInv, PendingFresh
<1>9. ASSUME ~raced', ~replaced' PROVE Renewable' /\ Enrolled' /\ (\A q \in Renewers : Sound(step[q], mem[q])')
  <2>1. Renewable /\ Enrolled /\ \A q \in Renewers : Sound(step[q], mem[q])
    BY <1>1, <1>9 DEF CertInv, CertSound
  <2>2. Current' = Current
    BY <1>1 DEF Current
  <2>3. Renewable' /\ Enrolled'
    BY <1>1, <1>7, <2>1, <2>2 DEF Renewable, Enrolled
  <2>4. \A y, z : Sound(y, z) => Sound(y, z)'
    BY <1>1, <1>7, <2>2 DEF Sound
  <2>5. Sound(s, mem[p])
    BY <1>1, <1>4, <2>1 DEF Sound
  <2>6. \A q \in Renewers : Sound(step'[q], mem'[q])
    BY <1>1, <1>3, <2>1, <2>5 DEF CertInv, CertTypeOK
  <2> QED BY <2>3, <2>4, <2>6
<1>10. /\ raced' \in BOOLEAN /\ replaced' \in BOOLEAN /\ keys' \in Nat \ {0} /\ keys =< keys'
       /\ \A g \in {"key", "pkey", "nkey"} : creds'[g] =< keys'
       /\ mem[p].key =< keys' /\ mem[p].cert =< Len(certKey) /\ mem[p].ctx =< Len(certKey)
  BY <1>1, <1>7, Facts DEF MemBounded
<1> QED BY <1>1, <1>4, <1>5, <1>6, <1>7, <1>8, <1>9, <1>10, FileStep DEF Placed

\* The renames of a swap: the certificate goes live, then its key.
LEMMA MoveStep ==
    ASSUME CertInv, NEW p \in Renewers, MoveLive(p)
    PROVE  CertInv'
<1>1. PICK f \in {[at |-> "movecert", new |-> "ncert", live |-> "cert", to |-> "movekey"],
                  [at |-> "movekey", new |-> "nkey", live |-> "key", to |-> "done"]} :
          /\ step[p] = f.at
          /\ IF creds[f.new] = 0
             THEN GoesWith(p, AfterFailure(p), mem[p]) /\ UNCHANGED creds
             ELSE GoesWith(p, f.to, mem[p]) /\ creds' = [creds EXCEPT ![f.live] = creds[f.new], ![f.new] = 0]
          /\ raced' = (raced \/ creds[f.new] \notin {0, mem[p][f.live]} \/ mem[p].cert # server.current)
          /\ replaced' = replaced
          /\ UNCHANGED <<torn, certKey, server, keys, loaded, enroll>>
  BY DEF MoveLive, SwapOrder, serverVars, Keeping
<1>2. /\ creds \in [CredFiles -> Nat] /\ {"cert", "pcert", "ncert", "key", "pkey", "nkey"} \subseteq CredFiles
      /\ \A g \in {"cert", "pcert", "ncert"} : creds[g] =< Len(certKey)
      /\ \A g \in {"key", "pkey", "nkey"} : creds[g] =< keys
      /\ mem[p] \in Mems /\ MemBounded(mem[p]) /\ step[p] \in Installing
  BY <1>1, MemFacts DEF CertInv, CertTypeOK, CredFiles, Bounded, Installing
<1>3. raced' \in BOOLEAN /\ replaced' \in BOOLEAN /\ keys' \in Nat \ {0} /\ keys =< keys' /\ Current' = Current /\ Current # 0
  BY <1>1, Facts DEF Current
<1>4. CASE creds[f.new] = 0
  <2>1. PICK s \in {"idle", "off"} : GoesWith(p, s, mem[p]) /\ creds' = creds
    BY <1>1, <1>4 DEF AfterFailure
  <2>2. s \in CertSteps /\ s \in Resting /\ s \notin Loading /\ s \notin Installing
    BY DEF CertSteps, Resting, Loading, Installing
  <2>3. PendingFresh'
    BY <1>1, <2>1 DEF CertInv, PendingFresh
  <2>4. ASSUME ~raced', ~replaced' PROVE Renewable' /\ Enrolled' /\ (\A q \in Renewers : Sound(step[q], mem[q])')
    <3>1. ~raced /\ ~replaced /\ Renewable /\ Enrolled /\ \A q \in Renewers : Sound(step[q], mem[q])
      BY <1>1, <2>4 DEF CertInv, CertSound
    <3>2. Renewable' /\ Enrolled'
      BY <1>1, <1>3, <2>1, <3>1 DEF Renewable, Enrolled
    <3>3. \A y, z : Sound(y, z) => Sound(y, z)'
      BY <1>1, <1>3, <2>1 DEF Sound
    <3>4. Sound(s, Holding(mem[p], s))
      BY <1>2, <2>2, <3>1, RestSound
    <3>5. \A q \in Renewers : Sound(step'[q], mem'[q])
      BY <1>2, <2>1, <2>2, <3>1, <3>4, GoesFacts
    <3> QED BY <3>2, <3>3, <3>5
  <2> QED BY <1>1, <1>2, <1>3, <2>1, <2>2, <2>3, <2>4, FileStep DEF MemBounded, Placed
<1>5. CASE creds[f.new] # 0 /\ f.at = "movecert"
  <2>1. /\ GoesWith(p, "movekey", mem[p]) /\ creds' = [creds EXCEPT !["cert"] = creds["ncert"], !["ncert"] = 0]
        /\ raced' = (raced \/ creds["ncert"] \notin {0, mem[p].cert} \/ mem[p].cert # server.current)
        /\ replaced' = replaced
        /\ creds["ncert"] # 0 /\ step[p] = "movecert"
    BY <1>1, <1>2, <1>5 DEF Mems
  <2>2. /\ creds' \in [CredFiles -> Nat] /\ creds'["cert"] = creds["ncert"] /\ creds'["ncert"] = 0
        /\ \A g \in {"pcert", "key", "pkey", "nkey"} : creds'[g] = creds[g]
    BY <1>2, <2>1
  <2>3. /\ \A g \in {"cert", "pcert", "ncert"} : creds'[g] =< Len(certKey)
        /\ \A g \in {"key", "pkey", "nkey"} : creds'[g] =< keys'
    BY <1>1, <1>2, <2>2, Facts
  <2>4. "movekey" \in CertSteps /\ "movekey" \in Installing /\ "movekey" \notin Loading /\ "movekey" \notin Resting
    BY DEF CertSteps, Installing, Loading, Resting
  <2>5. PendingFresh'
    BY <1>1, <2>2 DEF CertInv, PendingFresh
  <2>6. ASSUME ~raced', ~replaced' PROVE Renewable' /\ Enrolled' /\ (\A q \in Renewers : Sound(step[q], mem[q])')
    <3>1. /\ ~raced /\ ~replaced /\ creds'["cert"] = server.current /\ mem[p].cert = server.current
          /\ Renewable /\ Enrolled /\ \A q \in Renewers : Sound(step[q], mem[q])
      BY <2>1, <2>2, <2>6 DEF CertInv, CertSound
    <3>2. ~torn
      BY <3>1 DEF Sound
    <3>3. Renewable' /\ Enrolled'
      BY <1>1, <1>3, <2>2, <3>1, <3>2 DEF Renewable, Enrolled
    <3>4. ASSUME NEW q \in Renewers PROVE Sound(step[q], mem[q])'
      <4>1. mem'[q] = mem[q] /\ (step'[q] = step[q] \/ (step[q] = "movecert" /\ step'[q] = "movekey"))
        BY <1>2, <2>1, <2>4, GoesFacts
      <4>2. "movecert" \in Installing
        BY DEF Installing
      <4>3. Sound(step[q], mem[q])
        BY <3>1
      <4>4. (step[q] \in Resting)' => step[q] \in Resting
        BY <2>4, <4>1
      <4>5. (step[q] \in Installing)' => step[q] \in Installing
        BY <2>4, <4>1, <4>2
      <4> QED BY <1>1, <1>3, <2>2, <3>1, <3>2, <4>1, <4>3, <4>4, <4>5 DEF Sound
    <3> QED BY <3>3, <3>4
  <2> QED BY <1>1, <1>2, <1>3, <2>1, <2>2, <2>3, <2>4, <2>5, <2>6, FileStep DEF MemBounded, Placed
<1>6. CASE creds[f.new] # 0 /\ f.at = "movekey"
  <2>1. /\ GoesWith(p, "done", mem[p]) /\ creds' = [creds EXCEPT !["key"] = creds["nkey"], !["nkey"] = 0]
        /\ raced' = (raced \/ creds["nkey"] \notin {0, mem[p].key} \/ mem[p].cert # server.current)
        /\ replaced' = replaced
        /\ creds["nkey"] # 0 /\ step[p] = "movekey"
    BY <1>1, <1>2, <1>6 DEF Mems
  <2>2. /\ creds' \in [CredFiles -> Nat] /\ creds'["key"] = creds["nkey"] /\ creds'["nkey"] = 0
        /\ \A g \in {"cert", "pcert", "ncert", "pkey"} : creds'[g] = creds[g]
    BY <1>2, <2>1
  <2>3. /\ \A g \in {"cert", "pcert", "ncert"} : creds'[g] =< Len(certKey)
        /\ \A g \in {"key", "pkey", "nkey"} : creds'[g] =< keys'
    BY <1>1, <1>2, <2>2, Facts
  <2>4. "done" \in CertSteps /\ "done" \in Neutral /\ "done" \notin Loading /\ "done" \notin Resting
        /\ "movekey" \in Installing
    BY DEF CertSteps, Neutral, Installing, Loading, Resting
  <2>5. PendingFresh'
    BY <1>1, <2>2 DEF CertInv, PendingFresh
  <2>6. ASSUME ~raced', ~replaced' PROVE Renewable' /\ Enrolled' /\ (\A q \in Renewers : Sound(step[q], mem[q])')
    <3>1. /\ ~raced /\ ~replaced /\ creds["nkey"] = mem[p].key /\ mem[p].cert = server.current
          /\ Renewable /\ Enrolled /\ \A q \in Renewers : Sound(step[q], mem[q])
      BY <2>1, <2>6 DEF CertInv, CertSound
    <3>2. ~torn /\ creds["nkey"] = Current /\ creds["cert"] = server.current
      BY <2>1, <2>4, <3>1 DEF Sound, Current
    <3>3. Renewable' /\ Enrolled'
      BY <1>1, <1>3, <2>2, <3>1, <3>2 DEF Renewable, Enrolled
    <3>4. ASSUME NEW q \in Renewers PROVE Sound(step[q], mem[q])'
      <4>1. mem'[q] = mem[q] /\ (step'[q] = step[q] \/ step'[q] = "done")
        BY <1>2, <2>1, <2>4, GoesFacts
      <4>2. Sound(step'[q], mem[q])
        BY <2>4, <3>1, <4>1, NeutralSound
      <4> QED BY <1>1, <1>3, <2>2, <3>1, <3>2, <4>1, <4>2 DEF Sound
    <3> QED BY <3>3, <3>4
  <2> QED BY <1>1, <1>2, <1>3, <2>1, <2>2, <2>3, <2>4, <2>5, <2>6, FileStep DEF MemBounded, Placed
<1> QED BY <1>1, <1>4, <1>5, <1>6


----------------------------------------------------------------------------
(* The control plane and the enrolment.                                    *)

\* One more certificate.
LEMMA AppendCert ==
    ASSUME CertInv, NEW k \in Nat \ {0}, k =< keys, certKey' = Append(certKey, k)
    PROVE  /\ certKey' \in Seq(Nat \ {0}) /\ Len(certKey') = Len(certKey) + 1
           /\ DOMAIN certKey' = 1 .. Len(certKey) + 1
           /\ certKey'[Len(certKey) + 1] = k
           /\ \A s \in 1 .. Len(certKey) : certKey'[s] = certKey[s]
           /\ \A s \in DOMAIN certKey' : certKey'[s] =< keys
<1>1. certKey \in Seq(Nat \ {0})
  BY DEF CertInv, CertTypeOK
<1>2. /\ certKey' \in Seq(Nat \ {0}) /\ Len(certKey') = Len(certKey) + 1
      /\ certKey'[Len(certKey) + 1] = k
      /\ \A s \in 1 .. Len(certKey) : certKey'[s] = certKey[s]
  BY <1>1, AppendProperties
<1>3. DOMAIN certKey' = 1 .. Len(certKey) + 1
  BY <1>2, LenProperties
<1>4. ASSUME NEW s \in DOMAIN certKey' PROVE certKey'[s] =< keys
  <2>1. s \in 1 .. Len(certKey) \/ s = Len(certKey) + 1
    BY <1>3, Facts
  <2> QED BY <1>2, <2>1, Facts
<1> QED BY <1>2, <1>3, <1>4

\* The endpoint signs for a key it has not seen, or answers a request again.
LEMMA SignsFacts ==
    ASSUME CertInv, NEW x \in Nat, NEW k \in Nat
    PROVE  \/ Signs(x, k) = Len(certKey) + 1 /\ x = server.current
           \/ Signs(x, k) = server.current /\ k = Current /\ x = server.before
           \/ Signs(x, k) = 0
<1>1. server.current # 0 /\ Current = certKey[server.current]
  BY Facts DEF Current
<1> QED BY <1>1 DEF Signs

LEMMA PostStep ==
    ASSUME CertInv, NEW p \in Renewers, PostCsr(p)
    PROVE  CertInv'
<1> DEFINE s == Signs(mem[p].ctx, mem[p].key)
           n == Len(certKey) + 1
           m == [mem[p] EXCEPT !.cert = s]
<1>1. /\ step[p] = "post"
      /\ IF s = n THEN /\ certKey' = Append(certKey, mem[p].key)
                       /\ server' = [current |-> s, before |-> server.current]
                  ELSE UNCHANGED <<certKey, server>>
      /\ UNCHANGED <<creds, torn, raced, replaced, keys, loaded, enroll>>
  BY DEF PostCsr, fileVars
<1>2. PICK at \in {"idle", "off", "write"} : GoesWith(p, at, m) /\ (at = "write" => s # 0)
  <2>1. PICK lost \in BOOLEAN : GoesWith(p, IF lost \/ s = 0 THEN AfterFailure(p) ELSE "write", m)
    BY DEF PostCsr
  <2> HIDE DEF s, m
  <2> QED BY <2>1 DEF AfterFailure
<1>3. mem[p] \in Mems /\ MemBounded(mem[p]) /\ Len(certKey) \in Nat
      /\ server.current \in 1 .. Len(certKey) /\ loaded \in Loads
  BY MemFacts, Facts DEF CertInv, CertTypeOK
<1>4. /\ mem[p].ctx \in Nat /\ mem[p].key \in Nat
      /\ \/ s = n /\ mem[p].ctx = server.current
         \/ s = server.current /\ mem[p].key = Current /\ mem[p].ctx = server.before
         \/ s = 0
  BY <1>3, SignsFacts DEF Mems
<1> HIDE DEF s
<1>5. m \in Mems /\ m.key = mem[p].key /\ m.cert = s /\ m.ctx = mem[p].ctx
  <2>1. s \in Nat
    BY <1>3, <1>4
  <2> QED BY <1>3, <2>1 DEF Mems
<1>6. at \in CertSteps /\ at \notin Loading /\ (at = "write" <=> at \in Installing) /\ at # "post" /\ at # "movekey"
      /\ (at # "write" <=> at \in Resting)
  BY DEF CertSteps, Loading, Installing, Resting
<1> HIDE DEF m
<1>7. CASE s # n
  <2>1. UNCHANGED <<certKey, server>>
    BY <1>1, <1>7
  <2>2. MemBounded(m)
    BY <1>3, <1>4, <1>5, <1>7 DEF MemBounded
  <2>3. ASSUME ~raced, ~replaced PROVE Sound("write", m) \/ (at \in Resting /\ Sound("done", m))
    <3>1. Sound(step[p], mem[p])
      BY <2>3, MemFacts
    <3>2. torn => s # server.current
      BY <1>4, <1>7, <3>1, <1>3 DEF Sound
    <3>3. "done" \notin Installing /\ "done" \notin Resting /\ "write" \notin Resting
      BY DEF Installing, Resting
    <3>4. CASE s = 0
      BY <1>2, <1>5, <1>6, <3>1, <3>2, <3>3, <3>4 DEF Sound
    <3>5. CASE s # 0
      <4>1. s = server.current /\ mem[p].key = Current
        BY <1>4, <1>7, <3>5
      <4> QED BY <1>5, <3>1, <3>2, <3>3, <4>1, <1>3 DEF Sound, Current
    <3> QED BY <3>4, <3>5
  <2>4. at \in Resting \/ (raced \/ replaced \/ Sound(at, m))
    BY <1>6, <2>3
  <2>5. raced \in BOOLEAN /\ replaced \in BOOLEAN /\ loaded' \in Loads
    BY <1>1, <1>3, Facts
  <2>6. \E x : ~raced /\ ~replaced => Sound(x, m)
    BY <2>3
  <2> QED BY <1>1, <1>2, <1>5, <1>6, <2>1, <2>2, <2>4, <2>5, <2>6, GoesStep DEF Placed
<1>8. CASE s = n
  <2>1. /\ certKey' = Append(certKey, mem[p].key) /\ server' = [current |-> n, before |-> server.current]
        /\ mem[p].ctx = server.current
    BY <1>1, <1>3, <1>4, <1>8
  <2>2. server'.current = n /\ server'.before = server.current /\ server' \in [current : Nat \ {0}, before : Nat]
    BY <1>3, <2>1
  <2>3. mem[p].key \in Nat \ {0} /\ mem[p].key =< keys
    BY <1>1, <1>4, MemFacts DEF MemBounded
  <2>4. /\ certKey' \in Seq(Nat \ {0}) /\ Len(certKey') = n /\ certKey'[n] = mem[p].key
        /\ \A x \in 1 .. Len(certKey) : certKey'[x] = certKey[x]
        /\ \A x \in DOMAIN certKey' : certKey'[x] =< keys
    BY <2>1, <2>3, AppendCert
  <2>5. /\ step' \in [Renewers -> CertSteps] /\ mem' \in [Renewers -> Mems] /\ step'[p] = at
        /\ mem'[p].key \in {0, m.key} /\ mem'[p].cert \in {0, m.cert} /\ mem'[p].ctx \in {0, m.ctx}
        /\ at = "write" => mem'[p] = m
        /\ at # "write" => mem'[p].key = 0 /\ mem'[p].cert = 0
        /\ \A q \in Renewers \ {p} : step'[q] = step[q] /\ mem'[q] = mem[q]
    BY <1>2, <1>5, <1>6, GoesFacts
  <2>6. CertTypeOK'
    BY <1>1, <1>3, <2>2, <2>4, <2>5 DEF CertInv, CertTypeOK
  <2>7. \A q \in Renewers : MemBounded(mem[q])' /\ mem'[q].ctx < n /\ mem'[q].ctx \in Nat
    <3>1. MemBounded(mem[p])' /\ mem'[p].ctx < n /\ mem'[p].ctx \in Nat
      BY <1>1, <1>3, <1>4, <1>5, <1>8, <2>3, <2>4, <2>5, Facts, SMTT(30) DEF MemBounded
    <3>2. ASSUME NEW q \in Renewers \ {p} PROVE MemBounded(mem[q])' /\ mem'[q].ctx < n /\ mem'[q].ctx \in Nat
      <4>1. MemBounded(mem[q]) /\ mem[q].cert \in Nat /\ mem[q].ctx \in Nat
        BY MemFacts
      <4> QED BY <1>1, <1>3, <2>4, <2>5, <4>1 DEF MemBounded
    <3> QED BY <3>1, <3>2
  <2>8. \A q \in Renewers : Placed(step[q], mem[q])'
    BY <1>6, <2>5 DEF CertInv, Bounded, Placed
  <2>9. Bounded'
    <3>1. /\ \A f \in {"cert", "pcert", "ncert"} : creds[f] =< n /\ creds[f] \in Nat
          /\ enroll.cert =< n
      BY <1>3, Facts, SMTT(30) DEF CertInv, Bounded, CredFiles
    <3>2. \A f \in {"key", "pkey", "nkey"} : creds[f] =< keys
      BY DEF CertInv, Bounded
    <3>3. server'.current =< n /\ server'.before < server'.current
      BY <1>3, <2>2
    <3>4. enroll.key =< keys
      BY Facts
    <3> QED BY <1>1, <2>4, <2>7, <2>8, <3>1, <3>2, <3>3, <3>4 DEF Bounded
  <2>10. PendingFresh'
    BY <1>1 DEF CertInv, PendingFresh
  <2>11. Current' = mem[p].key
    BY <2>2, <2>4 DEF Current
  <2>12. ASSUME ~raced, ~replaced PROVE CertSound'
    <3>1. Renewable /\ Enrolled /\ \A q \in Renewers : Sound(step[q], mem[q])
      BY <2>12 DEF CertInv, CertSound
    <3>2. ~torn /\ creds["nkey"] = mem[p].key /\ creds["nkey"] # Current
      BY <1>1, <2>1, <3>1 DEF Sound
    <3>3. creds["cert"] = server.current /\ creds["key"] = Current
      BY <3>1, <3>2 DEF Renewable
    <3>4. Renewable'
      BY <1>1, <1>3, <2>2, <2>4, <2>11, <3>2, <3>3 DEF Renewable, Current
    <3>5. Enrolled'
      BY <1>1, <3>1, <3>2 DEF Enrolled
    <3>6. Sound(step[p], mem[p])'
      BY <1>1, <1>3, <1>5, <1>6, <1>8, <2>2, <2>3, <2>4, <2>5, <2>7, <3>2 DEF Sound
    <3>7. ASSUME NEW q \in Renewers \ {p} PROVE Sound(step[q], mem[q])'
      <4>1. /\ step'[q] = step[q] /\ mem'[q] = mem[q] /\ Sound(step[q], mem[q])
            /\ mem[q].cert \in Nat /\ mem[q].cert =< Len(certKey) /\ mem[q].ctx \in Nat
        BY <2>5, <3>1, MemFacts DEF MemBounded
      <4>2. mem[q].cert # 0 => certKey'[mem[q].cert] = certKey[mem[q].cert]
        BY <1>3, <2>4, <4>1
      <4>3. mem[q].cert # n /\ mem[q].ctx # n
        BY <1>3, <2>7, <4>1
      <4> QED BY <1>1, <2>2, <2>11, <3>2, <4>1, <4>2, <4>3 DEF Sound
    <3> QED BY <3>4, <3>5, <3>6, <3>7 DEF CertSound
  <2> QED BY <1>1, <2>6, <2>9, <2>10, <2>12 DEF CertInv
<1> QED BY <1>7, <1>8


\* The enrolment before it is answered, its end, and the ageing of a certificate.
LEMMA EnrolStep ==
    ASSUME CertInv, UNCHANGED <<creds, certKey, server, step, mem, loaded, torn, raced, replaced>>,
           keys' \in {keys, keys + 1}, enroll' \in Enrolments,
           \/ enroll' = enroll \/ (enroll'.at = "off" /\ enroll'.key = 0 /\ enroll'.cert = 0)
           \/ enroll'.at = "preflight" /\ enroll'.key = 0 /\ enroll'.cert = 0
           \/ /\ enroll'.at = "request" /\ enroll'.key = keys + 1 /\ keys' = keys + 1
              /\ enroll'.cert = enroll.cert
    PROVE  CertInv'
<1>1. keys \in Nat \ {0} /\ keys' \in Nat \ {0} /\ keys =< keys'
  BY Facts
<1>2. CertTypeOK'
  BY <1>1 DEF CertInv, CertTypeOK
<1>3. /\ enroll'.key =< keys' /\ enroll'.cert =< Len(certKey)
      /\ enroll' # enroll => enroll'.at \notin {"key", "cert"}
      /\ enroll' # enroll /\ enroll'.at = "request" => enroll'.key = keys + 1
  BY <1>1, Facts DEF CertInv, Bounded
<1>4. \A p \in Renewers : MemBounded(mem[p])'
  <2>1. \A p \in Renewers : MemBounded(mem[p]) /\ mem[p].key \in Nat
    BY MemFacts
  <2> QED BY <1>1, <2>1 DEF MemBounded
<1>5. \A f \in {"key", "pkey", "nkey"} : creds[f] =< keys /\ creds[f] =< keys' /\ creds[f] \in Nat
  BY <1>1, Facts DEF CertInv, Bounded, CredFiles
<1>6. \A s \in DOMAIN certKey : certKey[s] =< keys'
  BY <1>1, Facts
<1>7. Bounded'
  BY <1>3, <1>4, <1>5, <1>6 DEF CertInv, Bounded, Placed
<1>8. PendingFresh'
  <2>1. CASE enroll' = enroll
    BY <2>1 DEF CertInv, PendingFresh
  <2>2. CASE enroll' # enroll /\ enroll'.at = "request"
    <3>1. enroll'.key # 0 /\ enroll'.key # creds["nkey"]
      BY <1>1, <1>3, <1>5, <2>2
    <3> QED BY <2>2, <3>1 DEF CertInv, PendingFresh
  <2>3. CASE enroll' # enroll /\ enroll'.at # "request"
    BY <1>3, <2>3 DEF CertInv, PendingFresh
  <2> QED BY <2>1, <2>2, <2>3
<1>9. ASSUME ~raced, ~replaced PROVE CertSound'
  <2>1. Renewable' /\ \A p \in Renewers : Sound(step[p], mem[p])'
    BY <1>9 DEF CertInv, CertSound, Renewable, Sound, Current
  <2>2. Enrolled'
    BY <1>3, <1>9 DEF CertInv, CertSound, Enrolled, Current
  <2> QED BY <2>1, <2>2 DEF CertSound
<1> QED BY <1>2, <1>7, <1>8, <1>9 DEF CertInv

LEMMA EnrolSteps ==
    ASSUME CertInv,
           \/ \E force \in BOOLEAN : CmdEnroll(force)
           \/ PreflightCredsDir \/ EnrollDies \/ (\E s \in 1 .. MaxSerial : Age(s))
    PROVE  CertInv'
<1>1. UNCHANGED <<creds, certKey, server, step, mem, loaded, torn, raced, replaced>>
  BY DEF CmdEnroll, PreflightCredsDir, EnrollDies, Age, fileVars, serverVars
<1>2. enroll \in Enrolments /\ keys \in Nat
  BY Facts DEF CertInv, CertTypeOK
<1>3. NotEnrolling \in Enrolments /\ NotEnrolling.at = "off" /\ NotEnrolling.key = 0 /\ NotEnrolling.cert = 0
  BY DEF NotEnrolling, Enrolments
<1>4. ASSUME NEW force \in BOOLEAN, CmdEnroll(force) PROVE CertInv'
  <2> DEFINE e == [NotEnrolling EXCEPT !.at = "preflight", !.force = force]
  <2>1. enroll' = e /\ keys' = keys
    BY <1>4 DEF CmdEnroll
  <2>2. e \in Enrolments /\ e.at = "preflight" /\ e.key = 0 /\ e.cert = 0
    BY <1>3 DEF Enrolments
  <2> HIDE DEF e
  <2> QED BY <1>1, <2>1, <2>2, EnrolStep
<1>5. CASE PreflightCredsDir
  <2>1. CASE enroll' = NotEnrolling /\ keys' = keys
    BY <1>1, <1>3, <2>1, EnrolStep
  <2>2. CASE keys' = keys + 1 /\ enroll' = [enroll EXCEPT !.at = "request", !.key = keys + 1]
    <3>1. PICK k \in Nat : k = keys + 1
      BY <1>2
    <3>2. enroll' \in Enrolments /\ enroll'.at = "request" /\ enroll'.key = keys + 1
          /\ enroll'.cert = enroll.cert
      BY <1>2, <2>2, <3>1 DEF Enrolments
    <3> QED BY <1>1, <2>2, <3>2, EnrolStep
  <2> QED BY <1>5, <2>1, <2>2 DEF PreflightCredsDir
<1>6. CASE EnrollDies
  <2>1. enroll' = NotEnrolling /\ keys' = keys
    BY <1>6 DEF EnrollDies, serverVars
  <2> QED BY <1>1, <1>3, <2>1, EnrolStep
<1>7. CASE \E s \in 1 .. MaxSerial : Age(s)
  <2>1. enroll' = enroll /\ keys' = keys
    BY <1>7 DEF Age, serverVars
  <2> QED BY <1>1, <1>2, <2>1, EnrolStep
<1> QED BY <1>4, <1>5, <1>6, <1>7


\* The token is used up: another certificate is current, and not on disk.
LEMMA RequestStep ==
    ASSUME CertInv, RequestCertificate
    PROVE  CertInv'
<1>1. enroll.at = "request" /\ UNCHANGED <<creds, replaced, keys, step, mem, loaded>>
  BY DEF RequestCertificate
<1>2. NotEnrolling \in Enrolments /\ NotEnrolling.at = "off" /\ NotEnrolling.key = 0 /\ NotEnrolling.cert = 0
  BY DEF NotEnrolling, Enrolments
<1>3. CASE enroll' = NotEnrolling /\ UNCHANGED <<certKey, server, torn, raced>>
  BY <1>1, <1>2, <1>3, EnrolStep
<1>4. CASE /\ certKey' = Append(certKey, enroll.key)
           /\ server' = [current |-> Len(certKey) + 1, before |-> 0]
           /\ enroll' = [enroll EXCEPT !.at = "key", !.cert = Len(certKey) + 1]
           /\ torn' = TRUE /\ raced' = (raced \/ Renewing) /\ replaced' = replaced
  <2> DEFINE n == Len(certKey) + 1
  <2>1. /\ Len(certKey) \in Nat /\ enroll \in Enrolments /\ enroll.key \in Nat \ {0} /\ enroll.key =< keys
        /\ enroll.key # creds["nkey"]
    BY <1>1, Facts DEF CertInv, CertTypeOK, PendingFresh
  <2>2. /\ certKey' \in Seq(Nat \ {0}) /\ Len(certKey') = n /\ certKey'[n] = enroll.key
        /\ \A x \in 1 .. Len(certKey) : certKey'[x] = certKey[x]
        /\ \A x \in DOMAIN certKey' : certKey'[x] =< keys
    BY <1>4, <2>1, AppendCert
  <2>3. /\ server' \in [current : Nat \ {0}, before : Nat] /\ server'.current = n /\ server'.before = 0
        /\ n \in Nat /\ n > 0
    BY <1>4, <2>1
  <2>4. /\ enroll' \in Enrolments /\ enroll'.at = "key" /\ enroll'.cert = n /\ enroll'.key = enroll.key
    <3>1. PICK k \in Nat : k = n
      BY <2>1
    <3> QED BY <1>4, <2>1, <3>1 DEF Enrolments
  <2> HIDE DEF n
  <2>5. CertTypeOK'
    BY <1>1, <1>4, <2>2, <2>3, <2>4 DEF CertInv, CertTypeOK
  <2>6. \A p \in Renewers : MemBounded(mem[p])' /\ mem[p].ctx # n
    <3>1. \A p \in Renewers : MemBounded(mem[p]) /\ mem[p].cert \in Nat /\ mem[p].ctx \in Nat
      BY MemFacts
    <3> QED BY <1>1, <2>1, <2>2, <3>1 DEF MemBounded, n
  <2>7. \A f \in {"cert", "pcert", "ncert"} : creds[f] =< n /\ creds[f] # n
    BY <2>1, Facts DEF CertInv, Bounded, CredFiles, n
  <2>8. Bounded'
    <3>1. \A f \in {"key", "pkey", "nkey"} : creds[f] =< keys
      BY DEF CertInv, Bounded
    <3>2. server'.current =< Len(certKey') /\ server'.before < server'.current
      BY <2>2, <2>3
    <3>3. \A p \in Renewers : Placed(step[p], mem[p])'
      BY <1>1 DEF CertInv, Bounded, Placed
    <3>4. enroll'.key =< keys /\ enroll'.cert =< Len(certKey')
      BY <2>1, <2>2, <2>3, <2>4
    <3> QED BY <1>1, <2>2, <2>6, <2>7, <3>1, <3>2, <3>3, <3>4 DEF Bounded
  <2>9. PendingFresh'
    BY <1>1, <2>1, <2>4 DEF CertInv, PendingFresh
  <2>10. Current' = enroll.key
    BY <2>2, <2>3 DEF Current
  <2>11. ASSUME ~raced', ~replaced' PROVE CertSound'
    <3>1. Enrolled'
      BY <1>1, <1>4, <2>1, <2>3, <2>4, <2>7, <2>10 DEF Enrolled
    <3>2. Renewable'
      BY <1>4 DEF Renewable
    <3>3. ASSUME NEW p \in Renewers PROVE Sound(step[p], mem[p])'
      <4>1. ~raced /\ ~replaced /\ step[p] \in Resting
        BY <1>4, <2>11 DEF Renewing, Resting
      <4>2. mem[p].key = 0 /\ mem[p].cert = 0
        BY <4>1, MemFacts DEF Sound
      <4>3. step[p] \notin Installing /\ step[p] # "post" /\ step[p] # "movekey"
        BY <4>1 DEF Resting, Installing
      <4> QED BY <1>1, <1>4, <2>1, <2>3, <2>6, <2>10, <4>2, <4>3 DEF Sound
    <3> QED BY <3>1, <3>2, <3>3 DEF CertSound
  <2> QED BY <2>5, <2>8, <2>9, <2>11 DEF CertInv
<1> QED BY <1>3, <1>4 DEF RequestCertificate

\* The key and then the certificate of the enrolment are written.
LEMMA WriteCredentialsStep ==
    ASSUME CertInv, WriteCredentials
    PROVE  CertInv'
<1>1. UNCHANGED <<certKey, server, keys, step, mem, loaded>> /\ raced' = (raced \/ Renewing) /\ replaced' = replaced
      /\ raced' \in BOOLEAN /\ replaced' \in BOOLEAN
  BY Facts DEF WriteCredentials, serverVars
<1>2. NotEnrolling \in Enrolments /\ NotEnrolling.at = "off" /\ NotEnrolling.key = 0 /\ NotEnrolling.cert = 0
  BY DEF NotEnrolling, Enrolments
<1>3. /\ creds \in [CredFiles -> Nat] /\ {"cert", "pcert", "ncert", "key", "pkey", "nkey"} \subseteq CredFiles
      /\ \A g \in {"cert", "pcert", "ncert"} : creds[g] =< Len(certKey)
      /\ \A g \in {"key", "pkey", "nkey"} : creds[g] =< keys
      /\ enroll \in Enrolments /\ enroll.key \in Nat /\ enroll.cert \in Nat /\ enroll.key =< keys
      /\ enroll.cert =< Len(certKey) /\ Current' = Current /\ torn \in BOOLEAN
  BY <1>1, Facts DEF CertInv, CertTypeOK, CredFiles, Bounded, Current
<1>4. PICK f \in {"none", "key", "cert"} :
          /\ enroll.at \in {"key", "cert"}
          /\ f = "none" => enroll' = NotEnrolling /\ creds' = creds /\ torn' = torn
          /\ f = "key" => /\ creds' = [creds EXCEPT !["key"] = enroll.key]
                          /\ enroll' = [enroll EXCEPT !.at = "cert"] /\ torn' = torn
          /\ f = "cert" => /\ creds' = [creds EXCEPT !["cert"] = enroll.cert]
                           /\ enroll.at = "cert" /\ enroll' = NotEnrolling /\ torn' = FALSE
  <2>1. CASE enroll' = NotEnrolling /\ creds' = creds /\ torn' = torn /\ enroll.at = "key"
    BY <2>1
  <2>2. CASE /\ enroll.at = "key" /\ creds' = [creds EXCEPT !["key"] = enroll.key]
             /\ enroll' = [enroll EXCEPT !.at = "cert"] /\ torn' = torn
    BY <2>2
  <2>3. CASE /\ enroll.at = "cert" /\ creds' = [creds EXCEPT !["cert"] = enroll.cert]
             /\ enroll' = NotEnrolling /\ torn' = FALSE
    BY <2>3
  <2> QED BY <2>1, <2>2, <2>3 DEF WriteCredentials
<1>5. /\ enroll' \in Enrolments /\ enroll'.key \in {0, enroll.key} /\ enroll'.cert \in {0, enroll.cert}
      /\ f = "key" => enroll'.at = "cert" /\ enroll'.key = enroll.key /\ enroll'.cert = enroll.cert
      /\ f # "key" => enroll'.at = "off"
      /\ torn' \in BOOLEAN
  BY <1>2, <1>3, <1>4 DEF Enrolments
<1>6. /\ creds' \in [CredFiles -> Nat]
      /\ \A g \in {"pcert", "ncert", "pkey", "nkey"} : creds'[g] = creds[g]
      /\ creds'["cert"] = IF f = "cert" THEN enroll.cert ELSE creds["cert"]
      /\ creds'["key"] = IF f = "key" THEN enroll.key ELSE creds["key"]
  BY <1>3, <1>4
<1>7. CertTypeOK'
  BY <1>1, <1>5, <1>6 DEF CertInv, CertTypeOK
<1>8. Bounded'
  <2>1. /\ \A g \in {"cert", "pcert", "ncert"} : creds'[g] =< Len(certKey)
        /\ \A g \in {"key", "pkey", "nkey"} : creds'[g] =< keys
    BY <1>3, <1>6
  <2>2. enroll'.key =< keys /\ enroll'.cert =< Len(certKey)
    BY <1>3, <1>5, Facts, SMTT(30)
  <2> QED BY <1>1, <2>1, <2>2 DEF CertInv, Bounded, MemBounded, Placed
<1>9. PendingFresh'
  <2>1. /\ enroll.key \notin {0, creds["nkey"]}
        /\ creds["nkey"] # 0 => creds["nkey"] \notin {creds["key"], creds["pkey"]}
    BY <1>4 DEF CertInv, PendingFresh
  <2> QED BY <1>5, <1>6, <2>1 DEF PendingFresh
<1>10. ASSUME ~raced', ~replaced' PROVE CertSound'
  <2>1. ~raced /\ ~replaced /\ Renewable /\ Enrolled /\ (\A p \in Renewers : step[p] \in Resting)
        /\ (\A p \in Renewers : Sound(step[p], mem[p]))
    BY <1>1, <1>10 DEF CertInv, CertSound, Renewing, Resting
  <2>2. /\ torn /\ enroll.cert = server.current /\ enroll.key = Current
        /\ enroll.at = "cert" => creds["key"] = Current
    BY <1>4, <2>1 DEF Enrolled
  <2>3. Renewable'
    BY <1>1, <1>3, <1>4, <1>6, <2>2 DEF Renewable
  <2>4. Enrolled'
    BY <1>1, <1>3, <1>4, <1>5, <1>6, <2>1, <2>2 DEF Enrolled
  <2>5. \A p \in Renewers : Sound(step[p], mem[p])'
    <3>1. \A p \in Renewers : step[p] \notin Installing /\ step[p] # "post" /\ step[p] # "movekey"
      BY <2>1 DEF Resting, Installing
    <3>2. server.current # 0 /\ Current # 0
      BY Facts
    <3>3. \A p \in Renewers : mem[p].ctx # server.current /\ mem[p].key = 0 /\ mem[p].cert = 0
      BY <2>1, <2>2 DEF Sound
    <3> QED BY <1>1, <1>3, <1>6, <3>1, <3>2, <3>3 DEF Sound
  <2> QED BY <2>3, <2>4, <2>5 DEF CertSound
<1> QED BY <1>7, <1>8, <1>9, <1>10 DEF CertInv

----------------------------------------------------------------------------
(* The theorems.                                                           *)

\* An agent that was enrolled.
LEMMA CertInitInv == CertInit => CertInv
<1> SUFFICES ASSUME CertInit PROVE CertInv
  OBVIOUS
<1>1. /\ creds = [NoFiles EXCEPT !["cert"] = 1, !["key"] = 1] /\ certKey = <<1>>
      /\ server = [current |-> 1, before |-> 0] /\ keys = 1
      /\ step = [p \in Renewers |-> "off"] /\ mem = [p \in Renewers |-> NoMem]
      /\ loaded = NotLoaded /\ enroll = NotEnrolling /\ torn = FALSE /\ raced = FALSE /\ replaced = FALSE
  BY DEF CertInit
<1>2. certKey \in Seq(Nat \ {0}) /\ Len(certKey) = 1 /\ DOMAIN certKey = {1} /\ certKey[1] = 1
  BY <1>1
<1>3. /\ creds \in [CredFiles -> Nat] /\ creds["cert"] = 1 /\ creds["key"] = 1
      /\ \A f \in {"pcert", "pkey", "ncert", "nkey"} : creds[f] = 0
  BY <1>1 DEF NoFiles, CredFiles
<1>4. NotEnrolling \in Enrolments /\ NotEnrolling.at = "off" /\ NotEnrolling.key = 0 /\ NotEnrolling.cert = 0
  BY DEF NotEnrolling, Enrolments
<1>5. "off" \in CertSteps /\ "off" \in Resting /\ "off" \notin Loading /\ "off" \notin Installing
  BY DEF CertSteps, Resting, Loading, Installing
<1>6. CertTypeOK
  <2>1. server \in [current : Nat \ {0}, before : Nat] /\ keys \in Nat \ {0}
    BY <1>1
  <2>2. step \in [Renewers -> CertSteps]
    BY <1>1, <1>5
  <2>3. mem \in [Renewers -> Mems] /\ loaded \in Loads
    BY <1>1, NothingHeld
  <2>4. torn \in BOOLEAN /\ raced \in BOOLEAN /\ replaced \in BOOLEAN
    BY <1>1
  <2> QED BY <1>1, <1>2, <1>3, <1>4, <2>1, <2>2, <2>3, <2>4 DEF CertTypeOK
<1>7. Bounded
  BY <1>1, <1>2, <1>3, <1>4, <1>5, NothingHeld DEF Bounded, MemBounded, Placed
<1>8. PendingFresh
  BY <1>1, <1>3, <1>4 DEF PendingFresh
<1>9. Current = 1
  BY <1>1, <1>2 DEF Current
<1>10. Renewable /\ Enrolled
  BY <1>1, <1>3, <1>4, <1>9 DEF Renewable, Enrolled
<1>11. \A p \in Renewers : Sound(step[p], mem[p])
  BY <1>1, <1>3, <1>5, <1>9, NothingHeld DEF Sound
<1> QED BY <1>6, <1>7, <1>8, <1>10, <1>11 DEF CertInv, CertSound

LEMMA CertNextInv ==
    ASSUME CertInv, [CertNext]_certVars
    PROVE  CertInv'
<1>1. ASSUME NEW p \in Renewers, ProcessStep(p) \/ Die(p) \/ WriteFails(p) PROVE CertInv'
  <2>1. CASE SwapCheck(p) \/ LoadPair(p) \/ ReadSerial(p)
    BY <2>1, LoadingSteps
  <2>2. CASE LoadPendingKey(p) \/ SnapshotCheck(p) \/ Installed(p) \/ Die(p) \/ WriteFails(p)
    BY <2>2, RenewalSteps
  <2>3. CASE SwapMove(p)
    BY <2>3, SwapMoveStep
  <2>4. CASE CreatePendingKey(p)
    BY <2>4, CreateStep
  <2>5. CASE PostCsr(p)
    BY <2>5, PostStep
  <2>6. CASE WriteNewCert(p) \/ LinkPrev(p)
    BY <2>6, KeepStep
  <2>7. CASE MoveLive(p)
    BY <2>7, MoveStep
  <2> QED BY <1>1, <2>1, <2>2, <2>3, <2>4, <2>5, <2>6, <2>7 DEF ProcessStep
<1>2. CASE UNCHANGED certVars
  BY <1>2 DEF certVars, fileVars, serverVars, CertInv, CertTypeOK, Bounded, MemBounded, Placed, PendingFresh,
     CertSound, Renewable, Enrolled, Sound, Current
<1> QED BY <1>1, <1>2, AgentSteps, EnrolSteps, RequestStep, WriteCredentialsStep DEF CertNext

\* CertInv is an invariant of the renewals, the enrolments and the starts.
THEOREM CertInvariance == CertSpec => []CertInv
<1>1. CertInit => CertInv
  BY CertInitInv
<1>2. CertInv /\ [CertNext]_certVars => CertInv'
  BY CertNextInv
<1> QED BY <1>1, <1>2, PTL DEF CertSpec

\* Wherever a renewal of the agent or of the command line is cut short, and however the
\* two interleave without taking each other's files, the next start loads a pair that the
\* control plane renews.
THEOREM AlwaysRenewable == CertSpec => []NeverStranded
<1>1. CertInv => NeverStranded
  <2> SUFFICES ASSUME CertInv, ~torn, ~raced, ~replaced PROVE NeverStranded
    BY DEF NeverStranded
  <2>1. Renewable /\ server.current # 0 /\ Current # 0 /\ Current = certKey[server.current]
    BY Facts DEF CertInv, CertSound, Current
  <2>2. CASE creds["cert"] = server.current /\ Current \in {creds["key"], creds["nkey"]}
    <3>1. BootCert = server.current
      BY <2>1, <2>2 DEF BootCert, IsWholePair
    <3> QED BY <2>1, <3>1 DEF NeverStranded
  <2>3. CASE /\ creds["cert"] = server.before /\ creds["cert"] # 0
             /\ creds["key"] = certKey[server.before] /\ creds["nkey"] = Current
    <3>1. server.before \in 1 .. Len(certKey)
      BY <2>3, Facts
    <3>2. creds["key"] # 0
      BY <2>3, <3>1, Facts
    <3>3. BootCert = server.before
      BY <2>3, <3>2 DEF BootCert, IsWholePair
    <3> QED BY <2>1, <2>3, <3>3 DEF NeverStranded
  <2> QED BY <2>1, <2>2, <2>3 DEF Renewable
<1> QED BY <1>1, CertInvariance, PTL

-----------------------------------------------------------------------------
(* AgentSession.                                                           *)

Delays == MinDelay .. MaxDelay

Open == {"opened", "registering", "up"}

\* The loop always has the next wait in hand, longer than the last one was or the
\* longest; only an open connection can have lasted.
SessionInv ==
    /\ conn \in {"waiting", "connecting", "opened", "registering", "up", "stopped"}
    /\ lasted \in BOOLEAN /\ (lasted => conn \in Open)
    /\ delay \in Delays /\ slept \in Nat
    /\ slept < delay \/ delay = MaxDelay

\* A wait within the bounds grows, unless it is the longest already, and stays within them.
LEMMA Grows ==
    ASSUME NEW d \in Delays
    PROVE  /\ Grown(d) \in Delays
           /\ d < Grown(d) \/ Grown(d) = MaxDelay
<1>1. MinDelay \in Nat /\ MaxDelay \in Nat /\ 1 <= MinDelay /\ MinDelay <= d /\ d <= MaxDelay /\ d \in Nat
  BY SessionAssumption DEF Delays
<1>2. (3 * d + 1) \div 2 \in Nat /\ (3 * d + 1) \div 2 > d
  BY <1>1
<1> QED BY <1>1, <1>2 DEF Grown, Clamped, Delays

\* However a connection ends, the loop backs off.
LEMMA EndBacksOff ==
    ASSUME SessionInv, NEW longLived \in BOOLEAN, EndConnection(longLived)
    PROVE  /\ SessionInv'
           /\ conn' = "waiting" =>
                 IF longLived THEN slept' = MinDelay ELSE slept' > slept \/ slept' = MaxDelay
<1>1. AfterEnd(longLived) \in Delays /\ AfterEnd(longLived) \in Nat
  BY SessionAssumption DEF AfterEnd, Delays, SessionInv
<1>2. CASE signal
  BY <1>2 DEF EndConnection, SessionInv
<1>3. CASE ~signal
  <2>1. conn' = "waiting" /\ slept' = AfterEnd(longLived) /\ delay' = Grown(AfterEnd(longLived)) /\ lasted' = FALSE
    BY <1>3 DEF EndConnection
  <2>2. SessionInv'
    BY <1>1, <2>1, Grows DEF SessionInv
  <2>3. IF longLived THEN slept' = MinDelay ELSE slept' > slept \/ slept' = MaxDelay
    BY <2>1, SessionAssumption DEF AfterEnd, SessionInv, Delays
  <2> QED BY <2>2, <2>3
<1> QED BY <1>2, <1>3

\* Every step keeps the invariant, and a step into a wait is the end of a connection.
LEMMA SessionStep ==
    ASSUME SessionInv, [SessionNext]_sessionVars
    PROVE  /\ SessionInv'
           /\ conn # "waiting" /\ conn' = "waiting" =>
                 IF lasted THEN slept' = MinDelay ELSE slept' > slept \/ slept' = MaxDelay
<1>1. CASE ConnectFails
  <2>1. EndConnection(FALSE) /\ ~lasted
    BY <1>1 DEF ConnectFails, SessionInv, Open
  <2> QED BY <2>1, EndBacksOff
<1>2. CASE HandshakeFails \/ SocketCloses \/ ShutdownWatcher
  <2>1. EndConnection(lasted) /\ lasted \in BOOLEAN
    BY <1>2 DEF HandshakeFails, SocketCloses, ShutdownWatcher, SessionInv
  <2> QED BY <2>1, EndBacksOff
<1>3. CASE CmdSignoffSeal \/ CmdSignoffUnseal \/ Signal \/ StatePush \/ UNCHANGED sessionVars
  <2>1. conn' = conn /\ lasted' = lasted /\ delay' = delay /\ slept' = slept
    BY <1>3 DEF CmdSignoffSeal, CmdSignoffUnseal, Signal, StatePush, sessionVars
  <2> QED BY <2>1 DEF SessionInv
<1>4. CASE WaitEnds \/ Connected \/ SendRegister \/ RegisterOk \/ Lasts
  <2>1. delay' = delay /\ slept' = slept
    BY <1>4 DEF WaitEnds, Connected, SendRegister, RegisterOk, Lasts
  <2>2. conn' \in {"connecting", "opened", "registering", "up", "stopped"}
    BY <1>4 DEF WaitEnds, Connected, SendRegister, RegisterOk, Lasts
  <2>3. lasted' \in BOOLEAN /\ (lasted' => conn' \in Open)
    <3>1. CASE Lasts
      BY <3>1 DEF Lasts, Open
    <3>2. CASE Connected \/ SendRegister \/ RegisterOk
      <4>1. conn' \in Open /\ lasted' = lasted
        BY <3>2 DEF Connected, SendRegister, RegisterOk, Open
      <4> QED BY <4>1 DEF SessionInv
    <3>3. CASE WaitEnds
      <4>1. conn = "waiting" /\ lasted' = lasted
        BY <3>3 DEF WaitEnds
      <4> QED BY <4>1 DEF SessionInv, Open
    <3> QED BY <1>4, <3>1, <3>2, <3>3
  <2>4. SessionInv'
    BY <2>1, <2>2, <2>3 DEF SessionInv
  <2> QED BY <2>2, <2>4
<1> QED BY <1>1, <1>2, <1>3, <1>4 DEF SessionNext

\* Every connection that ends within reconnect_max_seconds of its opening, refused
\* handshakes included, makes the next wait longer, up to the longest; one that stayed
\* open that long starts the waits afresh, registered or not (run_with_backoff in
\* agent/reconnect.py).
THEOREM WaitsGrow == SessionSpec => BacksOff
<1>1. SessionInit => SessionInv
  <2> SUFFICES ASSUME SessionInit PROVE SessionInv
    OBVIOUS
  <2>1. MinDelay \in Delays /\ 0 < MinDelay
    BY SessionAssumption DEF Delays
  <2>2. conn = "connecting" /\ lasted = FALSE /\ delay = MinDelay /\ slept = 0
    BY DEF SessionInit
  <2> QED BY <2>1, <2>2 DEF SessionInv
<1>2. SessionInv /\ [SessionNext]_sessionVars => SessionInv'
  BY SessionStep
<1>3. SessionInv /\ [SessionNext]_sessionVars =>
          [conn # "waiting" /\ conn' = "waiting" =>
              IF lasted THEN slept' = MinDelay
              ELSE slept' > slept \/ slept' = MaxDelay]_sessionVars
  BY SessionStep
<1> QED BY <1>1, <1>2, <1>3, PTL DEF SessionSpec, BacksOff
=============================================================================
