------------------------- MODULE ActionRunnerProofs -------------------------
(***************************************************************************)
(* Proofs about ActionRunner, for any number of receivers, any messages,   *)
(* any rows the operator may save and any history of copies, lapses,       *)
(* edits and stops: its types, that the rate window is honest, that the    *)
(* action runs once per message and window, and that no copy let past the  *)
(* window is lost or answered twice.                                       *)
(***************************************************************************)
EXTENDS ActionRunner, FiniteSetTheorems, SequenceTheorems, TLAPS

-----------------------------------------------------------------------------
(* Types.                                                                  *)

Holding == {"lookup", "submit", "queue", "offer"}

Place == {Free} \cup [pc : {"lookup"}, msg : Messages]
         \cup [pc : {"submit", "queue", "offer"}, msg : Messages, row : Rows]
Queue == [there : BOOLEAN, cap : Nat, items : Seq(Messages), closed : BOOLEAN,
          last : {"recent", "past"}]
Hands == [pc : {"none", "idle", "gone"}] \cup [pc : {"busy"}, msg : Messages]
Counts == [Messages -> Nat]

ActionTypes ==
    /\ row \in Rows /\ rx \in [Receivers -> Place] /\ q \in Queue /\ worker \in Hands
    /\ inline \in Counts /\ lapses \in Counts
    /\ taken \in Counts /\ runs \in Counts /\ answers \in Counts /\ dropped \in Counts
    /\ inWindow \in Nat

LEMMA RowFields ==
    ASSUME NEW o \in Rows
    PROVE  o.status \in {"enabled", "disabled", "deleted"} /\ o.depth \in Nat /\ o.limit \in BOOLEAN
BY ActionAssumption

\* What a receiver past the window, and past the lookup, carries.
LEMMA Carried ==
    ASSUME ActionTypes, NEW r \in Receivers, rx[r].pc \in Holding
    PROVE  /\ rx[r].msg \in Messages
           /\ rx[r].pc # "lookup" => rx[r].row \in Rows
                                     /\ rx[r] = [pc |-> rx[r].pc, msg |-> rx[r].msg, row |-> rx[r].row]
<1>1. rx[r] \in Place BY DEF ActionTypes
<1> QED BY <1>1 DEF Place, Free, Holding

LEMMA QueueFields ==
    ASSUME ActionTypes
    PROVE  /\ q.there \in BOOLEAN /\ q.cap \in Nat /\ q.items \in Seq(Messages)
           /\ q.closed \in BOOLEAN /\ q.last \in {"recent", "past"}
BY DEF ActionTypes, Queue

LEMMA CountFacts ==
    ASSUME NEW f \in Counts, NEW m \in Messages
    PROVE  /\ Count(f, m) \in Counts /\ Count(f, m)[m] = f[m] + 1
           /\ \A n \in Messages \ {m} : Count(f, m)[n] = f[n]
BY DEF Counts, Count

LEMMA ReturnTypes ==
    ASSUME rx \in [Receivers -> Place], NEW r \in Receivers, Return(r)
    PROVE  rx' \in [Receivers -> Place]
BY DEF Return, Place

LEMMA GotoTypes ==
    ASSUME ActionTypes, NEW r \in Receivers, rx[r].pc \in {"submit", "queue", "offer"},
           NEW pc \in {"submit", "queue", "offer"}, Goto(r, pc)
    PROVE  rx' \in [Receivers -> Place]
<1>1. rx[r] = [pc |-> rx[r].pc, msg |-> rx[r].msg, row |-> rx[r].row]
      /\ rx[r].msg \in Messages /\ rx[r].row \in Rows
  BY Carried DEF Holding
<1>2. [rx[r] EXCEPT !.pc = pc] = [pc |-> pc, msg |-> rx[r].msg, row |-> rx[r].row] BY <1>1
<1>3. [pc |-> pc, msg |-> rx[r].msg, row |-> rx[r].row] \in Place BY <1>1 DEF Place
<1>4. rx' = [rx EXCEPT ![r] = [rx[r] EXCEPT !.pc = pc]] BY DEF Goto
<1> QED BY <1>2, <1>3, <1>4 DEF ActionTypes

LEMMA TypesInit == ASSUME Init PROVE ActionTypes
<1>1. Zero \in Counts BY DEF Zero, Counts
<1>2. <<>> \in Seq(Messages) OBVIOUS
<1>3. q \in Queue BY <1>2 DEF Init, Queue
<1>4. Free \in Place BY DEF Place
<1>5. rx \in [Receivers -> Place] BY <1>4 DEF Init
<1>6. worker \in Hands BY DEF Init, Hands
<1> QED BY <1>1, <1>3, <1>5, <1>6 DEF Init, ActionTypes

LEMMA TypesOffer ==
    ASSUME ActionTypes, NEW r \in Receivers,
           OfferClosed(r) \/ OfferLimited(r) \/ OfferBusy(r) \/ OfferAccepted(r)
    PROVE  ActionTypes'
<1> USE DEF window, queue, stopping, saved
<1>1. At(r, "offer")
  BY DEF OfferClosed, OfferLimited, OfferBusy, OfferAccepted
<1>2. rx[r].pc \in Holding /\ rx[r].pc # "lookup" BY <1>1 DEF At, Holding
<1>3. rx[r].msg \in Messages /\ rx[r].row \in Rows BY <1>2, Carried
<1>4. rx[r].row.limit \in BOOLEAN BY <1>3, RowFields
<1>5. Return(r)
  BY DEF OfferClosed, OfferLimited, OfferBusy, OfferAccepted, Ignore, Turn
<1>6. rx' \in [Receivers -> Place] BY <1>5, ReturnTypes DEF ActionTypes
<1>7. Mark(r) \in {"recent", "past"} BY QueueFields, <1>4 DEF Mark
<1>8. Count(dropped, rx[r].msg) \in Counts /\ Count(answers, rx[r].msg) \in Counts
  BY <1>3, CountFacts DEF ActionTypes
<1>9. CASE OfferClosed(r)
  BY <1>6, <1>8, <1>9 DEF OfferClosed, Ignore, ActionTypes
<1>10. ASSUME NEW l \in {"recent", "past"}, q' = [q EXCEPT !.last = l] PROVE q' \in Queue
  BY <1>10 DEF ActionTypes, Queue
<1>11. CASE OfferLimited(r)
  <2>1. q' \in Queue BY <1>11, <1>10, QueueFields DEF OfferLimited, Turn
  <2> QED BY <2>1, <1>6, <1>8, <1>11 DEF OfferLimited, Turn, replyAndAudit, ActionTypes
<1>12. CASE OfferBusy(r)
  <2>1. q' \in Queue BY <1>12, <1>10, QueueFields DEF OfferBusy, Turn
  <2> QED BY <2>1, <1>6, <1>8, <1>12 DEF OfferBusy, Turn, replyAndAudit, ActionTypes
<1>13. CASE OfferAccepted(r)
  <2>1. Append(q.items, rx[r].msg) \in Seq(Messages) BY <1>3, QueueFields, AppendProperties
  <2>2. q' \in Queue BY <2>1, <1>7, <1>13 DEF OfferAccepted, ActionTypes, Queue
  <2>3. inWindow' \in Nat BY <1>13, <1>4 DEF OfferAccepted, ActionTypes
  <2> QED BY <2>2, <2>3, <1>6, <1>13 DEF OfferAccepted, ActionTypes
<1> QED BY <1>9, <1>11, <1>12, <1>13

LEMMA TypesReceive == ASSUME ActionTypes, NEW r \in Receivers, Receive(r) PROVE ActionTypes'
<1> USE DEF window, queue, stopping, saved
<1>1. ASSUME At(r, "lookup") \/ At(r, "submit") \/ At(r, "queue")
      PROVE  /\ rx[r].msg \in Messages
             /\ Count(answers, rx[r].msg) \in Counts /\ Count(dropped, rx[r].msg) \in Counts
             /\ Count(runs, rx[r].msg) \in Counts /\ Count(inline, rx[r].msg) \in Counts
  <2>1. rx[r].pc \in Holding BY <1>1 DEF At, Holding
  <2>2. rx[r].msg \in Messages BY <2>1, Carried
  <2> QED BY <2>2, CountFacts DEF ActionTypes
<1>2. ASSUME Return(r) PROVE rx' \in [Receivers -> Place]
  BY <1>2, ReturnTypes DEF ActionTypes
<1>3. CASE Lookup(r)
  <2>1. CASE Return(r) /\ replyAndAudit(rx[r].msg)
    BY <2>1, <1>1, <1>2, <1>3 DEF Lookup, replyAndAudit, ActionTypes
  <2>2. CASE rx' = [rx EXCEPT ![r] = [pc |-> "submit", msg |-> @.msg, row |-> row]] /\ UNCHANGED answers
    <3>1. [pc |-> "submit", msg |-> rx[r].msg, row |-> row] \in Place
      BY <1>1, <1>3 DEF Lookup, Place, ActionTypes
    <3>2. rx' \in [Receivers -> Place] BY <3>1, <2>2 DEF ActionTypes
    <3> QED BY <3>2, <2>2, <1>3 DEF Lookup, ActionTypes
  <2> QED BY <2>1, <2>2, <1>3 DEF Lookup
<1>4. CASE Submit(r)
  <2>1. CASE Ignore(r) BY <2>1, <1>1, <1>2, <1>4 DEF Submit, Ignore, ActionTypes
  <2>2. CASE UNCHANGED dropped /\ Return(r) /\ replyAndAudit(rx[r].msg)
    BY <2>2, <1>1, <1>2, <1>4 DEF Submit, replyAndAudit, ActionTypes
  <2>3. CASE UNCHANGED dropped /\ Goto(r, "queue") /\ UNCHANGED answers
    <3>1. rx' \in [Receivers -> Place] BY <2>3, <1>4, GotoTypes DEF Submit, At
    <3> QED BY <3>1, <2>3, <1>4 DEF Submit, ActionTypes
  <2> QED BY <2>1, <2>2, <2>3, <1>4 DEF Submit
<1>5. CASE RunInline(r) BY <1>5, <1>1, <1>2 DEF RunInline, ActionTypes
<1>6. CASE queueFor(r)
  <2>1. CASE Ignore(r) /\ UNCHANGED <<q, worker>>
    BY <2>1, <1>1, <1>2, <1>6 DEF queueFor, Ignore, ActionTypes
  <2>2. CASE Goto(r, "offer") /\ UNCHANGED <<answers, dropped>>
    <3>1. rx' \in [Receivers -> Place] BY <2>2, <1>6, GotoTypes DEF queueFor, At
    <3>2. rx[r].row \in Rows BY <1>6, Carried DEF queueFor, At, Holding
    <3>3. rx[r].row.depth \in Nat BY <3>2, RowFields
    <3>4. q' \in Queue /\ worker' \in Hands
      <4>1. CASE UNCHANGED <<q, worker>> BY <4>1 DEF ActionTypes
      <4>2. CASE q' = [q EXCEPT !.there = TRUE, !.cap = rx[r].row.depth] /\ worker' = [pc |-> "idle"]
        BY <4>2, <3>3 DEF ActionTypes, Queue, Hands
      <4> QED BY <4>1, <4>2, <2>2, <1>6 DEF queueFor, Ignore, Return, Goto
    <3> QED BY <3>1, <3>4, <2>2, <1>6 DEF queueFor, ActionTypes
  <2> QED BY <2>1, <2>2, <1>6 DEF queueFor
<1> QED BY <1>3, <1>4, <1>5, <1>6, TypesOffer DEF Receive

LEMMA TypesStep == ASSUME ActionTypes, [Next]_vars PROVE ActionTypes'
<1> USE DEF window, queue, stopping, saved
<1>1. ASSUME NEW r \in Receivers, NEW m \in Messages, Hear(r, m) PROVE ActionTypes'
  <2>1. [pc |-> "lookup", msg |-> m] \in Place BY DEF Place
  <2>2. rx' \in [Receivers -> Place] /\ taken' \in Counts
    BY <2>1, <1>1, CountFacts DEF Hear, ActionTypes
  <2> QED BY <2>2, <1>1 DEF Hear, ActionTypes
<1>2. CASE WorkerTakes
  <2>1. Head(q.items) \in Messages /\ Tail(q.items) \in Seq(Messages)
    BY <1>2, QueueFields, HeadTailProperties DEF WorkerTakes
  <2>2. q' \in Queue /\ worker' \in Hands BY <2>1, <1>2 DEF WorkerTakes, ActionTypes, Queue, Hands
  <2>3. runs' \in Counts BY <2>1, <1>2, CountFacts DEF WorkerTakes, ActionTypes
  <2> QED BY <2>2, <2>3, <1>2 DEF WorkerTakes, ActionTypes
<1>3. CASE WorkerAnswers
  <2>1. worker.msg \in Messages BY <1>3 DEF WorkerAnswers, ActionTypes, Hands
  <2>2. answers' \in Counts BY <2>1, <1>3, CountFacts DEF WorkerAnswers, replyAndAudit, ActionTypes
  <2>3. worker' \in Hands BY <1>3 DEF WorkerAnswers, Hands
  <2> QED BY <2>2, <2>3, <1>3 DEF WorkerAnswers, ActionTypes
<1>4. CASE WorkerEnds BY <1>4 DEF WorkerEnds, ActionTypes, Hands
<1>5. CASE Stop BY <1>5 DEF Stop, ActionTypes
<1>6. CASE StopCloses BY <1>6 DEF StopCloses, ActionTypes, Queue
<1>7. CASE Edit BY <1>7 DEF Edit, ActionTypes
<1>8. CASE RateWindowPasses BY <1>8 DEF RateWindowPasses, ActionTypes, Queue
<1>9. ASSUME NEW m \in Messages, InlineEnds(m) PROVE ActionTypes'
  <2>1. inline' \in Counts BY <1>9 DEF InlineEnds, ActionTypes, Counts
  <2> QED BY <2>1, <1>9, CountFacts DEF InlineEnds, replyAndAudit, ActionTypes
<1>10. ASSUME NEW m \in Messages, DedupWindowPasses(m) PROVE ActionTypes'
  BY <1>10, CountFacts DEF DedupWindowPasses, ActionTypes
<1>11. CASE UNCHANGED vars BY <1>11 DEF vars, ActionTypes
<1> QED BY <1>1, <1>2, <1>3, <1>4, <1>5, <1>6, <1>7, <1>8, <1>9, <1>10, <1>11, TypesReceive
        DEF Next, Worker

\* The variables of the runner keep their types.
THEOREM ActionTypeCorrect == Spec => []ActionTypes
BY TypesInit, TypesStep, PTL DEF Spec

-----------------------------------------------------------------------------
(* The rate window.                                                        *)

LEMMA HonestInit == ASSUME Init PROVE RateHonest
BY DEF Init, RateHonest

LEMMA HonestStep == ASSUME ActionTypes, RateHonest, [Next]_vars PROVE RateHonest'
<1> USE DEF window, queue, stopping, saved
<1>1. ASSUME q'.last = q.last, inWindow' = inWindow PROVE RateHonest'
  BY <1>1 DEF RateHonest
<1>2. ASSUME UNCHANGED <<q, inWindow>> PROVE RateHonest'
  BY <1>2 DEF RateHonest
<1>3. q \in Queue BY DEF ActionTypes
<1>4. ASSUME NEW r \in Receivers, Receive(r) PROVE RateHonest'
  <2>1. CASE Lookup(r) \/ Submit(r) \/ RunInline(r) \/ OfferClosed(r)
    BY <2>1, <1>2 DEF Lookup, Submit, RunInline, OfferClosed
  <2>2. CASE queueFor(r)
    <3>1. CASE Ignore(r) /\ UNCHANGED <<q, worker>>
      BY <3>1, <2>2, <1>2 DEF queueFor
    <3>2. CASE UNCHANGED <<q, worker>> BY <3>2, <2>2, <1>2 DEF queueFor
    <3>3. CASE q' = [q EXCEPT !.there = TRUE, !.cap = rx[r].row.depth]
      <4>1. q'.last = q.last BY <3>3, <1>3 DEF Queue
      <4> QED BY <4>1, <2>2, <1>1 DEF queueFor
    <3> QED BY <3>1, <3>2, <3>3, <2>2 DEF queueFor
  <2>3. CASE OfferLimited(r) \/ OfferBusy(r)
    <3>1. q'.last = q.last BY <2>3, <1>3 DEF OfferLimited, OfferBusy, Turn, Queue
    <3> QED BY <3>1, <2>3, <1>1 DEF OfferLimited, OfferBusy
  <2>4. CASE OfferAccepted(r)
    <3>1. q'.last = Mark(r) BY <2>4, <1>3 DEF OfferAccepted, Queue
    <3>2. CASE rx[r].row.limit
      <4>1. q.last # "recent" /\ q'.last = "recent"
        BY <3>1, <3>2, <2>4 DEF OfferAccepted, Limited, Mark
      <4>2. inWindow = 0 BY <4>1 DEF RateHonest
      <4>3. inWindow' = 1 BY <4>2, <3>2, <2>4 DEF OfferAccepted
      <4> QED BY <4>1, <4>3 DEF RateHonest
    <3>3. CASE ~rx[r].row.limit
      BY <3>1, <3>3, <2>4, <1>1 DEF OfferAccepted, Mark
    <3> QED BY <3>2, <3>3
  <2> QED BY <2>1, <2>2, <2>3, <2>4, <1>4 DEF Receive
<1>5. ASSUME NEW r \in Receivers, NEW m \in Messages, Hear(r, m) PROVE RateHonest'
  BY <1>5, <1>2 DEF Hear
<1>6. CASE WorkerTakes
  <2>1. q'.last = q.last BY <1>6, <1>3 DEF WorkerTakes, Queue
  <2> QED BY <2>1, <1>6, <1>1 DEF WorkerTakes
<1>7. CASE StopCloses
  <2>1. q'.last = q.last BY <1>7, <1>3 DEF StopCloses, Queue
  <2> QED BY <2>1, <1>7, <1>1 DEF StopCloses
<1>8. CASE RateWindowPasses
  <2>1. q'.last = "past" BY <1>8, <1>3 DEF RateWindowPasses, Queue
  <2> QED BY <2>1, <1>8 DEF RateWindowPasses, RateHonest
<1>9. CASE WorkerAnswers \/ WorkerEnds \/ Stop \/ Edit
  BY <1>9, <1>2 DEF WorkerAnswers, WorkerEnds, Stop, Edit
<1>10. ASSUME NEW m \in Messages, InlineEnds(m) \/ DedupWindowPasses(m) PROVE RateHonest'
  BY <1>10, <1>2 DEF InlineEnds, DedupWindowPasses
<1>11. CASE UNCHANGED vars BY <1>11, <1>2 DEF vars
<1> QED BY <1>4, <1>5, <1>6, <1>7, <1>8, <1>9, <1>10, <1>11 DEF Next, Worker

\* The rate window is taken by an invocation that was accepted, and by one at a time,
\* whatever the operator saves meanwhile.
THEOREM RateWindowHonest == Spec => []RateHonest
<1>1. ActionTypes /\ RateHonest /\ [Next]_vars => ActionTypes' /\ RateHonest'
  BY TypesStep, HonestStep
<1> QED BY <1>1, TypesInit, HonestInit, PTL DEF Spec

-----------------------------------------------------------------------------
(* Where the copies of a message are: at the receivers and in the queue.   *)

Held(m) == {r \in Receivers : rx[r].pc \in Holding /\ rx[r].msg = m}
Spots(s, m) == {i \in 1 .. Len(s) : s[i] = m}
InQueue(m) == Cardinality(Spots(q.items, m))
AtReceivers(m) == Cardinality(Held(m))

LEMMA HeldFinite == ASSUME NEW m PROVE IsFiniteSet(Held(m)) /\ AtReceivers(m) \in Nat
<1>1. Held(m) \in SUBSET Receivers BY DEF Held
<1>2. IsFiniteSet(Held(m)) BY <1>1, ActionAssumption, FS_Subset
<1> QED BY <1>2, FS_CardinalityType DEF AtReceivers

LEMMA SpotsFinite ==
    ASSUME NEW S, NEW s \in Seq(S), NEW m
    PROVE  IsFiniteSet(Spots(s, m)) /\ Cardinality(Spots(s, m)) \in Nat
<1>1. Spots(s, m) \in SUBSET (1 .. Len(s)) BY DEF Spots
<1>2. Len(s) \in Nat BY LenProperties
<1>3. IsFiniteSet(1 .. Len(s)) BY <1>2, FS_Interval
<1>4. IsFiniteSet(Spots(s, m)) BY <1>1, <1>3, FS_Subset
<1> QED BY <1>4, FS_CardinalityType

\* A receiver that returns holds nothing any more.
LEMMA HeldReturn ==
    ASSUME ActionTypes, NEW r \in Receivers, rx[r].pc \in Holding, Return(r), NEW m
    PROVE  /\ rx[r].msg = m => AtReceivers(m) > 0 /\ AtReceivers(m)' = AtReceivers(m) - 1
           /\ rx[r].msg # m => AtReceivers(m)' = AtReceivers(m)
<1>1. rx'[r].pc = "idle" /\ \A s \in Receivers \ {r} : rx'[s] = rx[s]
  BY DEF ActionTypes, Return, Free
<1>2. Held(m)' = Held(m) \ {r} BY <1>1 DEF Held, Holding
<1>3. IsFiniteSet(Held(m)) /\ AtReceivers(m) \in Nat BY HeldFinite
<1>4. AtReceivers(m)' = IF r \in Held(m) THEN AtReceivers(m) - 1 ELSE AtReceivers(m)
  BY <1>2, <1>3, FS_RemoveElement DEF AtReceivers
<1>5. ASSUME rx[r].msg = m PROVE AtReceivers(m) > 0
  <2>1. r \in Held(m) BY <1>5 DEF Held
  <2>2. AtReceivers(m) # 0 BY <2>1, <1>3, FS_EmptySet DEF AtReceivers
  <2> QED BY <2>2, <1>3
<1>6. r \in Held(m) <=> rx[r].msg = m BY DEF Held
<1> QED BY <1>4, <1>5, <1>6

\* A receiver that goes on with its message keeps it.
LEMMA HeldGoto ==
    ASSUME ActionTypes, NEW r \in Receivers, rx[r].pc \in Holding, NEW m,
           \A s \in Receivers \ {r} : rx'[s] = rx[s],
           rx'[r].pc \in Holding, rx'[r].msg = rx[r].msg
    PROVE  AtReceivers(m)' = AtReceivers(m)
<1>1. Held(m)' = Held(m) BY DEF Held
<1> QED BY <1>1 DEF AtReceivers

\* A receiver past the window has the message it took.
LEMMA HeldTaken ==
    ASSUME ActionTypes, NEW r \in Receivers, At(r, "idle"), NEW n \in Messages, NEW m,
           rx' = [rx EXCEPT ![r] = [pc |-> "lookup", msg |-> n]]
    PROVE  /\ n = m => AtReceivers(m)' = AtReceivers(m) + 1
           /\ n # m => AtReceivers(m)' = AtReceivers(m)
<1>1. rx'[r].pc = "lookup" /\ rx'[r].msg = n /\ \A s \in Receivers \ {r} : rx'[s] = rx[s]
  BY DEF ActionTypes
<1>2. r \notin Held(m) BY DEF At, Held, Holding
<1>3. IsFiniteSet(Held(m)) BY HeldFinite
<1>4. CASE n = m
  <2>1. Held(m)' = Held(m) \cup {r} BY <1>1, <1>4 DEF Held, Holding
  <2> QED BY <2>1, <1>2, <1>3, <1>4, FS_AddElement DEF AtReceivers
<1>5. CASE n # m
  <2>1. Held(m)' = Held(m) BY <1>1, <1>2, <1>5 DEF Held
  <2> QED BY <2>1, <1>5 DEF AtReceivers
<1> QED BY <1>4, <1>5

LEMMA SpotsAppend ==
    ASSUME NEW S, NEW s \in Seq(S), NEW e \in S, NEW m
    PROVE  /\ e = m => Cardinality(Spots(Append(s, e), m)) = Cardinality(Spots(s, m)) + 1
           /\ e # m => Cardinality(Spots(Append(s, e), m)) = Cardinality(Spots(s, m))
<1> DEFINE k == Len(s) + 1
<1>1. Len(s) \in Nat BY LenProperties
<1>2. /\ Append(s, e) \in Seq(S) /\ Len(Append(s, e)) = k /\ Append(s, e)[k] = e
      /\ \A i \in 1 .. Len(s) : Append(s, e)[i] = s[i]
  BY AppendProperties
<1>3. IsFiniteSet(Spots(s, m)) BY SpotsFinite
<1>4. k \notin Spots(s, m) BY <1>1 DEF Spots
<1>5. CASE e = m
  <2>1. Spots(Append(s, e), m) = Spots(s, m) \cup {k} BY <1>1, <1>2, <1>5 DEF Spots
  <2> QED BY <2>1, <1>3, <1>4, <1>5, FS_AddElement
<1>6. CASE e # m
  <2>1. Spots(Append(s, e), m) = Spots(s, m) BY <1>1, <1>2, <1>6 DEF Spots
  <2> QED BY <2>1, <1>6
<1> QED BY <1>5, <1>6

\* The spots of the tail are those of the sequence but the first, moved by one.
LEMMA SpotsTail ==
    ASSUME NEW S, NEW s \in Seq(S), s # <<>>, NEW m
    PROVE  /\ Head(s) = m => Cardinality(Spots(s, m)) = Cardinality(Spots(Tail(s), m)) + 1
           /\ Head(s) # m => Cardinality(Spots(s, m)) = Cardinality(Spots(Tail(s), m))
<1> DEFINE rest == Spots(s, m) \ {1}
           move == [i \in Spots(Tail(s), m) |-> i + 1]
<1>1. /\ Len(s) \in Nat \ {0} /\ Len(Tail(s)) = Len(s) - 1 /\ Tail(s) \in Seq(S)
      /\ Head(s) = s[1] /\ \A i \in 1 .. Len(s) - 1 : Tail(s)[i] = s[i + 1]
  BY HeadTailProperties, LenProperties, EmptySeq
<1>2. IsFiniteSet(Spots(s, m)) /\ Cardinality(Spots(s, m)) \in Nat BY SpotsFinite
<1>3. IsFiniteSet(Spots(Tail(s), m)) BY <1>1, SpotsFinite
<1>4. move \in Bijection(Spots(Tail(s), m), rest)
  <2>1. move \in [Spots(Tail(s), m) -> rest] BY <1>1 DEF Spots
  <2>2. \A i, j \in Spots(Tail(s), m) : move[i] = move[j] => i = j BY <1>1 DEF Spots
  <2>3. \A j \in rest : \E i \in Spots(Tail(s), m) : move[i] = j
    <3>1. TAKE j \in rest
    <3>2. j - 1 \in 1 .. Len(Tail(s)) /\ j \in 2 .. Len(s) /\ s[j] = m BY <1>1 DEF Spots
    <3>3. Tail(s)[j - 1] = m BY <1>1, <3>2
    <3>4. j - 1 \in Spots(Tail(s), m) BY <3>2, <3>3 DEF Spots
    <3>5. move[j - 1] = j BY <3>2, <3>4
    <3> QED BY <3>4, <3>5
  <2> QED BY <2>1, <2>2, <2>3 DEF Bijection, Injection, Surjection, IsInjective
<1>5. ExistsBijection(Spots(Tail(s), m), rest) BY <1>4 DEF ExistsBijection
<1>6. Cardinality(rest) = Cardinality(Spots(Tail(s), m)) BY <1>3, <1>5, FS_Bijection
<1>7. Cardinality(rest) = IF 1 \in Spots(s, m) THEN Cardinality(Spots(s, m)) - 1
                                               ELSE Cardinality(Spots(s, m))
  BY <1>2, FS_RemoveElement
<1>8. 1 \in Spots(s, m) <=> Head(s) = m BY <1>1 DEF Spots
<1> QED BY <1>2, <1>6, <1>7, <1>8

-----------------------------------------------------------------------------
(* The ledger of a message: the window lets one copy past per lapse, a run *)
(* uses up a copy, and an answer settles one.                              *)

WindowTaken(m) == IF m \in remembered THEN 1 ELSE 0
InHand(m) == IF worker.pc = "busy" /\ worker.msg = m THEN 1 ELSE 0
OnTheWay(m) == AtReceivers(m) + InQueue(m)

\* Each copy let past the window is ahead of the worker, being executed, answered, or was
\* ignored by a stopped runner; and in one of these places only.
Accounted(m) == (answers[m] + dropped[m]) + (inline[m] + InHand(m)) + OnTheWay(m) = taken[m]
Spent(m) == runs[m] + OnTheWay(m) <= taken[m]
LetPast(m) == taken[m] <= lapses[m] + WindowTaken(m)
Ledger(m) == Accounted(m) /\ Spent(m) /\ LetPast(m)
Ledgers == \A m \in Messages : Ledger(m)

\* The worker comes with the queue.
Staffed == ~q.there => worker.pc = "none"

LEMMA LedgerNats ==
    ASSUME ActionTypes, NEW m \in Messages
    PROVE  /\ answers[m] \in Nat /\ dropped[m] \in Nat /\ inline[m] \in Nat
           /\ taken[m] \in Nat /\ runs[m] \in Nat /\ lapses[m] \in Nat
           /\ AtReceivers(m) \in Nat /\ InQueue(m) \in Nat
           /\ InHand(m) \in Nat /\ WindowTaken(m) \in Nat
<1>1. InQueue(m) \in Nat BY QueueFields, SpotsFinite DEF InQueue
<1>2. InHand(m) \in Nat /\ WindowTaken(m) \in Nat BY DEF InHand, WindowTaken
<1> QED BY <1>1, <1>2, HeldFinite DEF ActionTypes, Counts

LEMMA LedgersInit == ASSUME Init PROVE Ledgers
<1> SUFFICES ASSUME NEW m \in Messages PROVE Ledger(m) BY DEF Ledgers
<1>1. Held(m) = {} BY DEF Init, Held, Holding, Free
<1>2. Spots(q.items, m) = {} BY DEF Init, Spots
<1>3. OnTheWay(m) = 0 BY <1>1, <1>2, FS_EmptySet DEF OnTheWay, AtReceivers, InQueue
<1>4. InHand(m) = 0 /\ WindowTaken(m) = 0 BY DEF Init, InHand, WindowTaken
<1> QED BY <1>3, <1>4 DEF Init, Zero, Ledger, Accounted, Spent, LetPast

\* Settled by an answer, by being ignored, by an execution of its own, or by a place in the
\* queue: the copy a receiver returns with.
LEMMA LedgerReturn ==
    ASSUME ActionTypes, ActionTypes', NEW r \in Receivers, rx[r].pc \in Holding, Return(r),
           NEW m \in Messages, Ledger(m), UNCHANGED <<remembered, lapses, taken>>, InHand(m)' = InHand(m),
           \/ /\ UNCHANGED <<runs, inline, dropped>> /\ InQueue(m)' = InQueue(m)
              /\ answers' = Count(answers, rx[r].msg)
           \/ /\ UNCHANGED <<runs, inline, answers>> /\ InQueue(m)' = InQueue(m)
              /\ dropped' = Count(dropped, rx[r].msg)
           \/ /\ UNCHANGED <<answers, dropped>> /\ InQueue(m)' = InQueue(m)
              /\ runs' = Count(runs, rx[r].msg) /\ inline' = Count(inline, rx[r].msg)
           \/ /\ UNCHANGED <<runs, inline, answers, dropped>>
              /\ rx[r].msg = m => InQueue(m)' = InQueue(m) + 1
              /\ rx[r].msg # m => InQueue(m)' = InQueue(m)
    PROVE  Ledger(m)'
<1> DEFINE n == rx[r].msg
<1>1. n \in Messages BY Carried
<1> HIDE DEF n
<1>2. /\ n = m => AtReceivers(m) > 0 /\ AtReceivers(m)' = AtReceivers(m) - 1
      /\ n # m => AtReceivers(m)' = AtReceivers(m)
  BY HeldReturn DEF n
<1>3. /\ Count(answers, n)[m] = IF n = m THEN answers[m] + 1 ELSE answers[m]
      /\ Count(dropped, n)[m] = IF n = m THEN dropped[m] + 1 ELSE dropped[m]
      /\ Count(inline, n)[m] = IF n = m THEN inline[m] + 1 ELSE inline[m]
      /\ Count(runs, n)[m] = IF n = m THEN runs[m] + 1 ELSE runs[m]
  BY <1>1 DEF ActionTypes, Counts, Count
<1>4. taken'[m] = taken[m] /\ lapses'[m] = lapses[m] /\ WindowTaken(m)' = WindowTaken(m)
  BY DEF WindowTaken
<1>5. LetPast(m)' BY <1>4 DEF Ledger, LetPast
<1> USE LedgerNats DEF Ledger, Accounted, Spent, OnTheWay
<1>6. CASE UNCHANGED <<runs, inline, dropped>> /\ InQueue(m)' = InQueue(m) /\ answers' = Count(answers, n)
  BY <1>2, <1>3, <1>4, <1>5, <1>6
<1>7. CASE UNCHANGED <<runs, inline, answers>> /\ InQueue(m)' = InQueue(m) /\ dropped' = Count(dropped, n)
  BY <1>2, <1>3, <1>4, <1>5, <1>7
<1>8. CASE UNCHANGED <<answers, dropped>> /\ InQueue(m)' = InQueue(m) /\ runs' = Count(runs, n)
           /\ inline' = Count(inline, n)
  BY <1>2, <1>3, <1>4, <1>5, <1>8
<1>9. CASE UNCHANGED <<runs, inline, answers, dropped>>
           /\ (n = m => InQueue(m)' = InQueue(m) + 1) /\ (n # m => InQueue(m)' = InQueue(m))
  BY <1>2, <1>4, <1>5, <1>9
<1> QED BY <1>6, <1>7, <1>8, <1>9 DEF n

\* A receiver that goes on with its copy settles nothing.
LEMMA LedgerSame ==
    ASSUME NEW m \in Messages, Ledger(m), AtReceivers(m)' = AtReceivers(m), InQueue(m)' = InQueue(m),
           InHand(m)' = InHand(m), UNCHANGED <<remembered, lapses, taken, runs, inline, answers, dropped>>
    PROVE  Ledger(m)'
BY DEF Ledger, Accounted, Spent, LetPast, OnTheWay, WindowTaken

LEMMA LedgersReceive ==
    ASSUME ActionTypes, ActionTypes', Staffed, NEW r \in Receivers, Receive(r),
           NEW m \in Messages, Ledger(m)
    PROVE  Ledger(m)'
<1> USE DEF window, queue, stopping, saved
<1>1. rx[r].pc \in Holding
  BY DEF Receive, Lookup, Submit, RunInline, queueFor, OfferClosed, OfferLimited, OfferBusy,
         OfferAccepted, At, Holding
<1>2. ASSUME q'.items = q.items PROVE InQueue(m)' = InQueue(m) BY <1>2 DEF InQueue, Spots
<1>3. ASSUME UNCHANGED worker PROVE InHand(m)' = InHand(m) BY <1>3 DEF InHand
<1>4. q \in Queue /\ rx \in [Receivers -> Place] BY DEF ActionTypes
<1>5. CASE Lookup(r)
  <2>1. InQueue(m)' = InQueue(m) /\ InHand(m)' = InHand(m) BY <1>2, <1>3, <1>5 DEF Lookup
  <2>2. CASE Return(r) /\ replyAndAudit(rx[r].msg)
    BY <2>1, <2>2, <1>1, <1>5, LedgerReturn DEF Lookup, replyAndAudit
  <2>3. CASE rx' = [rx EXCEPT ![r] = [pc |-> "submit", msg |-> @.msg, row |-> row]] /\ UNCHANGED answers
    <3>1. AtReceivers(m)' = AtReceivers(m)
      BY <2>3, <1>1, <1>4, HeldGoto DEF Holding
    <3> QED BY <3>1, <2>1, <2>3, <1>5, LedgerSame DEF Lookup
  <2> QED BY <2>2, <2>3, <1>5 DEF Lookup
<1>6. ASSUME NEW pc \in {"queue", "offer"}, Goto(r, pc), rx[r].pc # "lookup"
      PROVE  AtReceivers(m)' = AtReceivers(m)
  <2>1. rx[r] = [pc |-> rx[r].pc, msg |-> rx[r].msg, row |-> rx[r].row] BY <1>1, <1>6, Carried
  <2>2. [rx[r] EXCEPT !.pc = pc].pc = pc /\ [rx[r] EXCEPT !.pc = pc].msg = rx[r].msg BY <2>1
  <2>3. rx'[r] = [rx[r] EXCEPT !.pc = pc] /\ \A s \in Receivers \ {r} : rx'[s] = rx[s]
    BY <1>6, <1>4 DEF Goto
  <2>4. rx'[r].pc \in Holding /\ rx'[r].msg = rx[r].msg BY <2>2, <2>3 DEF Holding
  <2> QED BY <2>3, <2>4, <1>1, HeldGoto
<1>7. CASE Submit(r)
  <2>1. InQueue(m)' = InQueue(m) /\ InHand(m)' = InHand(m) BY <1>2, <1>3, <1>7 DEF Submit
  <2>2. CASE Ignore(r) BY <2>1, <2>2, <1>1, <1>7, LedgerReturn DEF Submit, Ignore
  <2>3. CASE UNCHANGED dropped /\ Return(r) /\ replyAndAudit(rx[r].msg)
    BY <2>1, <2>3, <1>1, <1>7, LedgerReturn DEF Submit, replyAndAudit
  <2>4. CASE UNCHANGED dropped /\ Goto(r, "queue") /\ UNCHANGED answers
    <3>1. AtReceivers(m)' = AtReceivers(m) BY <2>4, <1>6, <1>7 DEF Submit, At
    <3> QED BY <3>1, <2>1, <2>4, <1>7, LedgerSame DEF Submit
  <2> QED BY <2>2, <2>3, <2>4, <1>7 DEF Submit
<1>8. CASE RunInline(r)
  <2>1. InQueue(m)' = InQueue(m) /\ InHand(m)' = InHand(m) BY <1>2, <1>3, <1>8 DEF RunInline
  <2> QED BY <2>1, <1>1, <1>8, LedgerReturn DEF RunInline
<1>9. CASE queueFor(r)
  <2>1. CASE Ignore(r) /\ UNCHANGED <<q, worker>>
    <3>1. InQueue(m)' = InQueue(m) /\ InHand(m)' = InHand(m) BY <1>2, <1>3, <2>1
    <3> QED BY <3>1, <2>1, <1>1, <1>9, LedgerReturn DEF queueFor, Ignore
  <2>2. CASE Goto(r, "offer") /\ UNCHANGED <<answers, dropped>> /\ ~NoQueue
    <3>1. AtReceivers(m)' = AtReceivers(m) BY <2>2, <1>6, <1>9 DEF queueFor, At
    <3>2. InQueue(m)' = InQueue(m) /\ InHand(m)' = InHand(m)
      <4>1. CASE UNCHANGED <<q, worker>> BY <4>1, <1>2, <1>3
      <4>2. CASE ~q.there /\ q' = [q EXCEPT !.there = TRUE, !.cap = rx[r].row.depth]
                 /\ worker' = [pc |-> "idle"]
        <5>1. q'.items = q.items BY <4>2, <1>4 DEF Queue
        <5>2. worker.pc # "busy" BY <4>2 DEF Staffed
        <5> QED BY <5>1, <5>2, <4>2, <1>2 DEF InHand
      <4> QED BY <4>1, <4>2, <2>2, <1>9 DEF queueFor
    <3> QED BY <3>1, <3>2, <2>2, <1>9, LedgerSame DEF queueFor
  <2> QED BY <2>1, <2>2, <1>9 DEF queueFor
<1>10. CASE OfferClosed(r)
  <2>1. InQueue(m)' = InQueue(m) /\ InHand(m)' = InHand(m) BY <1>2, <1>3, <1>10 DEF OfferClosed
  <2> QED BY <2>1, <1>1, <1>10, LedgerReturn DEF OfferClosed, Ignore
<1>11. CASE OfferLimited(r) \/ OfferBusy(r)
  <2>1. q'.items = q.items BY <1>11, <1>4 DEF OfferLimited, OfferBusy, Turn, Queue
  <2>2. InQueue(m)' = InQueue(m) /\ InHand(m)' = InHand(m)
    BY <2>1, <1>2, <1>3, <1>11 DEF OfferLimited, OfferBusy
  <2> QED BY <2>2, <1>1, <1>11, LedgerReturn DEF OfferLimited, OfferBusy, Turn, replyAndAudit
<1>12. CASE OfferAccepted(r)
  <2>1. q'.items = Append(q.items, rx[r].msg) BY <1>12, <1>4 DEF OfferAccepted, Queue
  <2>2. rx[r].msg \in Messages /\ q.items \in Seq(Messages) BY <1>1, Carried, QueueFields
  <2>3. /\ rx[r].msg = m => InQueue(m)' = InQueue(m) + 1
        /\ rx[r].msg # m => InQueue(m)' = InQueue(m)
    <3>1. Spots(q.items, m)' = Spots(Append(q.items, rx[r].msg), m) BY <2>1 DEF Spots
    <3> QED BY <3>1, <2>2, SpotsAppend DEF InQueue
  <2>4. InHand(m)' = InHand(m) BY <1>3, <1>12 DEF OfferAccepted
  <2> QED BY <2>3, <2>4, <1>1, <1>12, LedgerReturn DEF OfferAccepted
<1> QED BY <1>5, <1>7, <1>8, <1>9, <1>10, <1>11, <1>12 DEF Receive

LEMMA StaffedStep == ASSUME ActionTypes, Staffed, [Next]_vars PROVE Staffed'
<1> USE DEF window, queue, stopping, saved
<1>1. q \in Queue BY DEF ActionTypes
<1>2. ASSUME q'.there = q.there, worker.pc = "none" => worker'.pc = "none" PROVE Staffed'
  BY <1>2 DEF Staffed
<1>3. ASSUME UNCHANGED <<q, worker>> PROVE Staffed' BY <1>3 DEF Staffed
<1>4. ASSUME NEW r \in Receivers, Receive(r) PROVE Staffed'
  <2>1. CASE Lookup(r) \/ Submit(r) \/ RunInline(r) \/ OfferClosed(r)
    BY <2>1, <1>3 DEF Lookup, Submit, RunInline, OfferClosed
  <2>2. CASE queueFor(r)
    <3>1. CASE UNCHANGED <<q, worker>> BY <3>1, <1>3
    <3>2. CASE q' = [q EXCEPT !.there = TRUE, !.cap = rx[r].row.depth]
      <4>1. q'.there = TRUE BY <3>2, <1>1 DEF Queue
      <4> QED BY <4>1 DEF Staffed
    <3> QED BY <3>1, <3>2, <2>2 DEF queueFor
  <2>3. CASE OfferLimited(r) \/ OfferBusy(r) \/ OfferAccepted(r)
    <3>1. q'.there = q.there BY <2>3, <1>1 DEF OfferLimited, OfferBusy, OfferAccepted, Turn, Queue
    <3>2. worker' = worker BY <2>3 DEF OfferLimited, OfferBusy, OfferAccepted
    <3> QED BY <3>1, <3>2, <1>2
  <2> QED BY <2>1, <2>2, <2>3, <1>4 DEF Receive
<1>5. ASSUME NEW r \in Receivers, NEW m \in Messages, Hear(r, m) PROVE Staffed'
  BY <1>5, <1>3 DEF Hear
<1>6. CASE WorkerTakes \/ WorkerAnswers \/ WorkerEnds
  <2>1. worker.pc # "none" BY <1>6 DEF WorkerTakes, WorkerAnswers, WorkerEnds
  <2>2. q'.there = q.there BY <1>6, <1>1 DEF WorkerTakes, WorkerAnswers, WorkerEnds, Queue
  <2> QED BY <2>1, <2>2, <1>2
<1>7. CASE StopCloses \/ RateWindowPasses
  <2>1. q'.there = q.there BY <1>7, <1>1 DEF StopCloses, RateWindowPasses, Queue
  <2> QED BY <2>1, <1>2, <1>7 DEF StopCloses, RateWindowPasses
<1>8. CASE Stop \/ Edit BY <1>8, <1>3 DEF Stop, Edit
<1>9. ASSUME NEW m \in Messages, InlineEnds(m) \/ DedupWindowPasses(m) PROVE Staffed'
  BY <1>9, <1>3 DEF InlineEnds, DedupWindowPasses
<1>10. CASE UNCHANGED vars BY <1>10, <1>3 DEF vars
<1> QED BY <1>4, <1>5, <1>6, <1>7, <1>8, <1>9, <1>10 DEF Next, Worker

LEMMA LedgerHear ==
    ASSUME ActionTypes, NEW r \in Receivers, NEW n \in Messages, Hear(r, n),
           NEW m \in Messages, Ledger(m)
    PROVE  Ledger(m)'
<1> USE DEF window, queue, stopping, saved
<1>1. InQueue(m)' = InQueue(m) /\ InHand(m)' = InHand(m) BY DEF Hear, InQueue, Spots, InHand
<1>2. remembered' = remembered \cup {n} /\ UNCHANGED <<lapses, runs, inline, answers, dropped>>
  BY DEF Hear, Key
<1>3. CASE n \in remembered
  <2>1. remembered' = remembered /\ UNCHANGED <<rx, taken>> BY <1>2, <1>3 DEF Hear, Key
  <2>2. AtReceivers(m)' = AtReceivers(m) BY <2>1 DEF AtReceivers, Held
  <2> QED BY <2>1, <2>2, <1>1, <1>2, LedgerSame
<1>4. CASE n \notin remembered
  <2>1. rx' = [rx EXCEPT ![r] = [pc |-> "lookup", msg |-> n]] /\ taken' = Count(taken, n)
        /\ At(r, "idle")
    BY <1>4 DEF Hear, Key
  <2>2. /\ n = m => AtReceivers(m)' = AtReceivers(m) + 1
        /\ n # m => AtReceivers(m)' = AtReceivers(m)
    BY <2>1, HeldTaken
  <2>3. /\ n = m => taken'[m] = taken[m] + 1
        /\ n # m => taken'[m] = taken[m]
    BY <2>1, CountFacts DEF ActionTypes
  <2>4. WindowTaken(m)' = IF n = m THEN 1 ELSE WindowTaken(m) BY <1>2 DEF WindowTaken
  <2>5. n = m => WindowTaken(m) = 0 BY <1>4 DEF WindowTaken
  <2> QED BY <2>2, <2>3, <2>4, <2>5, <1>1, <1>2, LedgerNats
          DEF Ledger, Accounted, Spent, LetPast, OnTheWay
<1> QED BY <1>3, <1>4

LEMMA LedgerWorker ==
    ASSUME ActionTypes, WorkerTakes \/ WorkerAnswers \/ WorkerEnds,
           NEW m \in Messages, Ledger(m)
    PROVE  Ledger(m)'
<1> USE DEF window, queue, stopping, saved
<1>1. AtReceivers(m)' = AtReceivers(m)
  BY DEF WorkerTakes, WorkerAnswers, WorkerEnds, AtReceivers, Held
<1>2. UNCHANGED <<remembered, lapses, taken, inline, dropped>>
  BY DEF WorkerTakes, WorkerAnswers, WorkerEnds
<1>3. WindowTaken(m)' = WindowTaken(m) BY <1>2 DEF WindowTaken
<1>4. CASE WorkerTakes
  <2> DEFINE n == Head(q.items)
  <2>1. q.items \in Seq(Messages) /\ q.items # <<>> BY <1>4, QueueFields DEF WorkerTakes
  <2>2. n \in Messages BY <2>1, HeadTailProperties
  <2>3. q'.items = Tail(q.items) BY <1>4 DEF WorkerTakes, ActionTypes, Queue
  <2>4. /\ n = m => InQueue(m) = InQueue(m)' + 1
        /\ n # m => InQueue(m) = InQueue(m)'
    <3>1. Spots(q.items, m)' = Spots(Tail(q.items), m) BY <2>3 DEF Spots
    <3> QED BY <3>1, <2>1, SpotsTail DEF InQueue
  <2>5. InHand(m) = 0 /\ InHand(m)' = IF n = m THEN 1 ELSE 0 BY <1>4 DEF WorkerTakes, InHand
  <2>6. runs' = Count(runs, n) /\ UNCHANGED answers BY <1>4 DEF WorkerTakes
  <2> HIDE DEF n
  <2>7. /\ n = m => runs'[m] = runs[m] + 1
        /\ n # m => runs'[m] = runs[m]
    BY <2>2, <2>6, CountFacts DEF ActionTypes
  <2>8. Tail(q.items) \in Seq(Messages) BY <2>1, HeadTailProperties
  <2>9. InQueue(m)' \in Nat BY <2>3, <2>8, SpotsFinite DEF InQueue
  <2> QED BY <2>4, <2>5, <2>6, <2>7, <2>9, <1>1, <1>2, <1>3, LedgerNats
          DEF Ledger, Accounted, Spent, LetPast, OnTheWay
<1>5. CASE WorkerAnswers
  <2> DEFINE n == worker.msg
  <2>1. n \in Messages BY <1>5 DEF WorkerAnswers, ActionTypes, Hands
  <2>2. InHand(m) = IF n = m THEN 1 ELSE 0 BY <1>5 DEF WorkerAnswers, InHand
  <2>3. InHand(m)' = 0 BY <1>5 DEF WorkerAnswers, InHand
  <2>4. answers' = Count(answers, n) /\ UNCHANGED <<q, runs>>
    BY <1>5 DEF WorkerAnswers, replyAndAudit
  <2>5. InQueue(m)' = InQueue(m) BY <2>4 DEF InQueue, Spots
  <2> HIDE DEF n
  <2>6. /\ n = m => answers'[m] = answers[m] + 1
        /\ n # m => answers'[m] = answers[m]
    BY <2>1, <2>4, CountFacts DEF ActionTypes
  <2> QED BY <2>2, <2>3, <2>4, <2>5, <2>6, <1>1, <1>2, <1>3, LedgerNats
          DEF Ledger, Accounted, Spent, LetPast, OnTheWay
<1>6. CASE WorkerEnds
  <2>1. InHand(m)' = InHand(m) /\ InQueue(m)' = InQueue(m)
    BY <1>6 DEF WorkerEnds, InHand, InQueue, Spots
  <2> QED BY <2>1, <1>1, <1>6, LedgerSame DEF WorkerEnds
<1> QED BY <1>4, <1>5, <1>6

LEMMA LedgersStep ==
    ASSUME ActionTypes, ActionTypes', Staffed, Ledgers, [Next]_vars
    PROVE  Ledgers'
<1> SUFFICES ASSUME NEW m \in Messages PROVE Ledger(m)' BY DEF Ledgers
<1> USE DEF window, queue, stopping, saved
<1>1. Ledger(m) BY DEF Ledgers
<1>2. ASSUME UNCHANGED <<rx, worker, runs, inline, answers, dropped, remembered, lapses, taken>>,
             q'.items = q.items
      PROVE  Ledger(m)'
  <2>1. AtReceivers(m)' = AtReceivers(m) /\ InQueue(m)' = InQueue(m) /\ InHand(m)' = InHand(m)
    BY <1>2 DEF AtReceivers, Held, InQueue, Spots, InHand
  <2> QED BY <2>1, <1>1, <1>2, LedgerSame
<1>3. ASSUME NEW r \in Receivers, Receive(r) PROVE Ledger(m)' BY <1>1, <1>3, LedgersReceive
<1>4. ASSUME NEW r \in Receivers, NEW n \in Messages, Hear(r, n) PROVE Ledger(m)'
  BY <1>1, <1>4, LedgerHear
<1>5. CASE Worker BY <1>1, <1>5, LedgerWorker DEF Worker
<1>6. CASE Stop \/ Edit BY <1>6, <1>2 DEF Stop, Edit
<1>7. CASE StopCloses \/ RateWindowPasses
  <2>1. q'.items = q.items BY <1>7 DEF StopCloses, RateWindowPasses, ActionTypes, Queue
  <2> QED BY <2>1, <1>7, <1>2 DEF StopCloses, RateWindowPasses
<1>8. ASSUME NEW n \in Messages, InlineEnds(n) PROVE Ledger(m)'
  <2>0. inline' \in Counts BY DEF ActionTypes
  <2>1. /\ AtReceivers(m)' = AtReceivers(m) /\ InQueue(m)' = InQueue(m) /\ InHand(m)' = InHand(m)
        /\ WindowTaken(m)' = WindowTaken(m)
    BY <1>8 DEF InlineEnds, AtReceivers, Held, InQueue, Spots, InHand, WindowTaken
  <2>2. /\ n = m => inline'[m] = inline[m] - 1 /\ answers'[m] = answers[m] + 1
        /\ n # m => inline'[m] = inline[m] /\ answers'[m] = answers[m]
    BY <1>8 DEF InlineEnds, replyAndAudit, Count, ActionTypes, Counts
  <2>3. UNCHANGED <<runs, dropped, lapses, taken>> BY <1>8 DEF InlineEnds
  <2>4. inline'[m] \in Nat BY <2>0 DEF Counts
  <2> QED BY <2>1, <2>2, <2>3, <2>4, <1>1, LedgerNats
          DEF Ledger, Accounted, Spent, LetPast, OnTheWay
<1>9. ASSUME NEW n \in Messages, DedupWindowPasses(n) PROVE Ledger(m)'
  <2>1. AtReceivers(m)' = AtReceivers(m) /\ InQueue(m)' = InQueue(m) /\ InHand(m)' = InHand(m)
    BY <1>9 DEF DedupWindowPasses, AtReceivers, Held, InQueue, Spots, InHand
  <2>2. UNCHANGED <<runs, inline, answers, dropped, taken>> BY <1>9 DEF DedupWindowPasses
  <2>3. remembered' = remembered \ {n} BY <1>9 DEF DedupWindowPasses, Key
  <2>4. /\ n = m => lapses'[m] = lapses[m] + 1
        /\ n # m => lapses'[m] = lapses[m]
    BY <1>9, CountFacts DEF DedupWindowPasses, ActionTypes
  <2>5. WindowTaken(m)' = (IF n = m THEN 0 ELSE WindowTaken(m)) /\ WindowTaken(m) \in {0, 1}
    BY <2>3 DEF WindowTaken
  <2> QED BY <2>1, <2>2, <2>4, <2>5, <1>1, LedgerNats
          DEF Ledger, Accounted, Spent, LetPast, OnTheWay
<1>10. CASE UNCHANGED vars BY <1>10, <1>2 DEF vars
<1> QED BY <1>3, <1>4, <1>5, <1>6, <1>7, <1>8, <1>9, <1>10 DEF Next

LEMMA LedgersAlways == Spec => [](ActionTypes /\ Ledgers)
<1>0. Init => Staffed BY DEF Init, Staffed
<1>1. Init => ActionTypes /\ Staffed /\ Ledgers BY <1>0, TypesInit, LedgersInit
<1>2. ActionTypes /\ Staffed /\ Ledgers /\ [Next]_vars => ActionTypes' /\ Staffed' /\ Ledgers'
  BY TypesStep, StaffedStep, LedgersStep
<1> QED BY <1>1, <1>2, PTL DEF Spec

\* However many copies of a message come in, at whatever receivers and at the same time, the
\* action runs at most once more than the message's window has lapsed.
THEOREM ActionRunsOnce == Spec => []RunsOnce
<1>1. ASSUME ActionTypes, Ledgers PROVE RunsOnce
  <2>1. ASSUME NEW m \in Messages PROVE runs[m] <= 1 + lapses[m]
    <3>1. WindowTaken(m) <= 1 BY DEF WindowTaken
    <3> QED BY <3>1, <1>1, LedgerNats DEF Ledgers, Ledger, Spent, LetPast, OnTheWay
  <2> QED BY <2>1 DEF RunsOnce
<1> QED BY <1>1, LedgersAlways, PTL

\* A copy that got past the window is always in exactly one place: with a receiver, in the
\* queue, being executed, answered, or ignored by a stopped runner.  None is lost and none
\* is answered twice, so AnsweredOnce only asks that the copies on the way move on.
THEOREM CopiesAccounted == Spec => [](\A m \in Messages : Accounted(m))
<1>1. ActionTypes /\ Ledgers => \A m \in Messages : Accounted(m) BY DEF Ledgers, Ledger
<1> QED BY <1>1, LedgersAlways, PTL
=============================================================================
