---------------------------- MODULE TxPathProofs ----------------------------
(***************************************************************************)
(* Proofs about TxGovernor and TxPath.  The governor alone: its types, the *)
(* safety invariants the runs check, and that it implements the atomic     *)
(* scheduler of TxScheduler, for every set of channels, rows of limits,    *)
(* traffic and queue capacity.  Then behind the modem's carrier detection: *)
(* it keeps its promises, and with one slicer a channel never misses a     *)
(* carrier, for any traffic, limits, length of the feed and restarts.      *)
(***************************************************************************)
EXTENDS TxPath, TLAPS, SequenceTheorems, WellFoundedInduction

-----------------------------------------------------------------------------
(* Data.                                                                   *)

\* The wiring always finds a natural number as limit.
LEMMA LimitsAreNat == Rate1MinLimit \in Nat /\ Rate5MinLimit \in Nat
<1>1. ASSUME NEW row \in [Channels -> Nat] PROVE FirstLimit(row) \in Nat
  BY DEF FirstLimit
<1>2. QED BY <1>1, RateAssumption DEF Rate1MinLimit, Rate5MinLimit

\* The fields of a queue item.
LEMMA ItemFields ==
    ASSUME NEW i \in Item
    PROVE  i.seq \in 1 .. MaxFrames /\ i.ch \in Channels /\ i.key \in Keys
           /\ i.prio \in Nat /\ i.skip \in BOOLEAN
<1>1. PICK n \in 1 .. MaxFrames, t \in Traffic : i = Stamped(n, t)
  BY DEF Item
<1>2. QED BY <1>1, TrafficAssumption DEF Stamped

\* The item Submit makes.
LEMMA EnqueuedItem ==
    ASSUME NEW t \in Traffic, seq \in Nat, seq < MaxFrames
    PROVE  /\ Enqueued(t) \in Item
           /\ Enqueued(t).seq = seq + 1
           /\ Enqueued(t).key = t.key
           /\ Enqueued(t).skip = t.skip
<1>1. seq + 1 \in 1 .. MaxFrames
  BY BoundAssumption
<1>2. QED BY <1>1 DEF Enqueued, Item, Stamped

-----------------------------------------------------------------------------
(* Types.                                                                  *)

\* Every variable keeps its type, whatever the callers, the carrier and the
\* clock do.
THEOREM GovernorTypeCorrect == Spec => []TypeOK
<1> USE DEF queueVars, rateVars, doneVars
<1>1. Init => TypeOK
  BY DEF Init, TypeOK
<1>2. TypeOK /\ [Next]_vars => TypeOK'
  <2> SUFFICES ASSUME TypeOK, [Next]_vars PROVE TypeOK'
    OBVIOUS
  <2>1. ASSUME NEW t \in Traffic, Submit(t) PROVE TypeOK'
    <3>1. Enqueued(t) \in Item /\ t.key \in Keys
      BY <2>1, EnqueuedItem, TrafficAssumption DEF Submit, TypeOK
    <3>2. q' \subseteq Item /\ seq' \in Nat /\ seen' \subseteq Keys
      BY <2>1, <3>1 DEF Submit, TypeOK
    <3>3. recent' \in [Keys -> SUBSET Item]
      BY <2>1, <3>1 DEF Submit, TypeOK
    <3>4. QED BY <2>1, <3>2, <3>3 DEF Submit, TypeOK
  <2>2. ASSUME NEW i \in q, Decide(i) PROVE TypeOK'
    BY <2>2 DEF Decide, TypeOK
  <2>3. CASE Pop
    <3>1. top \in Item /\ top.ch \in Channels
      BY <2>3, ItemFields DEF Pop, TypeOK
    <3>2. oneMin' \in [Channels -> Nat] /\ fiveMin' \in [Channels -> Nat]
      BY <2>3, <3>1 DEF Pop, TypeOK
    <3>3. QED BY <2>3, <3>1, <3>2 DEF Pop, TypeOK
  <2>4. CASE HeadChanged
    BY <2>4 DEF HeadChanged, TypeOK
  <2>5. CASE Sent
    <3>1. top.seq \in Nat
      BY <2>5, ItemFields DEF Sent, TypeOK
    <3>2. QED BY <2>5, <3>1 DEF Sent, TypeOK
  <2>6. CASE SendFails
    <3>1. top.seq \in Nat
      BY <2>6, ItemFields DEF SendFails, TypeOK
    <3>2. QED BY <2>6, <3>1 DEF SendFails, TypeOK
  <2>7. ASSUME NEW c \in Channels, NEW detected \in BOOLEAN, DcdEvent(c, detected)
        PROVE  TypeOK'
    BY <2>7 DEF DcdEvent, TypeOK
  <2>8. ASSUME NEW c \in Channels, AgeOneMin(c) PROVE TypeOK'
    <3>1. oneMin' \in [Channels -> Nat]
      BY <2>8 DEF AgeOneMin, TypeOK
    <3>2. QED BY <2>8, <3>1 DEF AgeOneMin, TypeOK
  <2>9. ASSUME NEW c \in Channels, AgeFiveMin(c) PROVE TypeOK'
    <3>1. fiveMin' \in [Channels -> Nat]
      BY <2>9 DEF AgeFiveMin, TypeOK
    <3>2. QED BY <2>9, <3>1 DEF AgeFiveMin, TypeOK
  <2>10. ASSUME NEW k \in Keys, Expire(k) PROVE TypeOK'
    BY <2>10 DEF Expire, TypeOK
  <2>11. CASE Cancel
    BY <2>11 DEF Cancel, TypeOK
  <2>12. CASE Close
    BY <2>12 DEF Close, TypeOK
  <2>13. CASE UNCHANGED vars
    BY <2>13 DEF vars, TypeOK
  <2>14. QED
    BY <2>1, <2>2, <2>3, <2>4, <2>5, <2>6, <2>7, <2>8, <2>9, <2>10, <2>11, <2>12, <2>13
       DEF Next, Worker, Clock
<1>3. QED BY <1>1, <1>2, PTL DEF Spec

-----------------------------------------------------------------------------
(* The rate limits.  The invariant needs one more fact: between the two    *)
(* critical sections nothing brings the channel of top to its limit, for   *)
(* only the worker sends and time only takes sends out of the windows.     *)

DecisionStands == pc = "decided" => ~IsRateLimited(top.ch)

\* The limits hold, and so does every decision until the frame is taken.
LEMMA DecisionsStand == Spec => [](RateCap /\ DecisionStands)
<1> USE DEF queueVars, rateVars, doneVars
<1> DEFINE RInv == RateCap /\ DecisionStands
<1>1. Init => RInv
  BY LimitsAreNat DEF Init, RateCap, DecisionStands
<1>2. TypeOK /\ RInv /\ [Next]_vars => RInv'
  <2> SUFFICES ASSUME TypeOK, RInv, [Next]_vars PROVE RInv'
    OBVIOUS
  <2> USE LimitsAreNat
  <2>1. ASSUME UNCHANGED rateVars, UNCHANGED <<pc, top>> PROVE RInv'
    BY <2>1 DEF RateCap, DecisionStands, IsRateLimited
  <2>2. ASSUME UNCHANGED rateVars, pc' # "decided" PROVE RInv'
    BY <2>2 DEF RateCap, DecisionStands
  <2>3. ASSUME NEW i \in q, Decide(i) PROVE RInv'
    BY <2>3 DEF Decide, RateCap, DecisionStands, IsRateLimited
  <2>4. CASE Pop
    <3>1. top.ch \in Channels
      BY <2>4, ItemFields DEF Pop, TypeOK
    <3>2. ~IsRateLimited(top.ch)
      BY <2>4 DEF Pop, DecisionStands
    <3>3. RateCap'
      BY <2>4, <3>1, <3>2 DEF Pop, RateCap, IsRateLimited, TypeOK
    <3>4. QED BY <2>4, <3>3 DEF Pop, DecisionStands
  <2>5. ASSUME NEW c \in Channels, AgeOneMin(c) \/ AgeFiveMin(c) PROVE RInv'
    <3>1. \A d \in Channels : oneMin'[d] \in Nat /\ oneMin'[d] <= oneMin[d]
                             /\ fiveMin'[d] \in Nat /\ fiveMin'[d] <= fiveMin[d]
      BY <2>5 DEF AgeOneMin, AgeFiveMin, TypeOK
    <3>2. RateCap'
      BY <3>1 DEF RateCap, TypeOK
    <3>3. DecisionStands'
      <4>1. CASE pc = "decided"
        <5>1. top.ch \in Channels
          BY <4>1, ItemFields DEF TypeOK
        <5>2. QED BY <2>5, <3>1, <4>1, <5>1
                  DEF AgeOneMin, AgeFiveMin, DecisionStands, IsRateLimited, TypeOK
      <4>2. CASE pc # "decided"
        BY <2>5, <4>2 DEF AgeOneMin, AgeFiveMin, DecisionStands
      <4>3. QED BY <4>1, <4>2
    <3>4. QED BY <3>2, <3>3
  <2>6. ASSUME NEW t \in Traffic, Submit(t) PROVE RInv'
    BY <2>1, <2>6 DEF Submit
  <2>7. CASE HeadChanged \/ Sent \/ SendFails
    BY <2>2, <2>7 DEF HeadChanged, Sent, SendFails
  <2>8. ASSUME NEW c \in Channels, NEW detected \in BOOLEAN, DcdEvent(c, detected)
        PROVE  RInv'
    BY <2>1, <2>8 DEF DcdEvent
  <2>9. ASSUME NEW k \in Keys, Expire(k) PROVE RInv'
    BY <2>1, <2>9 DEF Expire
  <2>10. CASE Cancel \/ Close \/ UNCHANGED vars
    BY <2>1, <2>10 DEF Cancel, Close, vars
  <2>11. QED BY <2>3, <2>4, <2>5, <2>6, <2>7, <2>8, <2>9, <2>10
             DEF Next, Worker, Clock
<1>3. QED BY <1>1, <1>2, GovernorTypeCorrect, PTL DEF Spec

\* Neither window of a channel ever counts more sends than the limit.
THEOREM RateCapped == Spec => []RateCap
BY DecisionsStand, PTL

-----------------------------------------------------------------------------
(* No frame is dropped or sent twice.                                      *)

\* Every accepted frame is in exactly one place.
THEOREM FramesConserved == Spec => []Conserved
<1> USE DEF queueVars, rateVars, doneVars
<1>1. Init => Conserved
  BY DEF Init, Conserved, InHand, Queued
<1>2. TypeOK /\ Conserved /\ [Next]_vars => Conserved'
  <2> SUFFICES ASSUME TypeOK, Conserved, [Next]_vars PROVE Conserved'
    OBVIOUS
  <2>1. ASSUME UNCHANGED <<q, seq, handed, lost>>, InHand' = InHand PROVE Conserved'
    BY <2>1 DEF Conserved, Queued
  <2>2. ASSUME NEW t \in Traffic, Submit(t) PROVE Conserved'
    <3> DEFINE new == Enqueued(t)
    <3>1. seq \in Nat /\ new.seq = seq + 1
      BY <2>2, EnqueuedItem DEF Submit, TypeOK
    <3>2. Queued' = Queued \cup {seq + 1}
      BY <2>2, <3>1 DEF Submit, Queued
    <3>3. InHand' = InHand /\ handed' = handed /\ lost' = lost /\ seq' = seq + 1
      BY <2>2 DEF Submit, InHand
    <3>4. 1 .. (seq + 1) = (1 .. seq) \cup {seq + 1} /\ seq + 1 \notin 1 .. seq
      BY <3>1
    <3>5. Queued \cup InHand \cup handed \cup lost = 1 .. seq
      BY DEF Conserved
    <3>6. Queued' \cup InHand' \cup handed' \cup lost' = 1 .. seq'
      BY <3>2, <3>3, <3>4, <3>5
    <3>7. /\ (Queued' \cup InHand') \cap (handed' \cup lost') = {}
          /\ Queued' \cap InHand' = {} /\ handed' \cap lost' = {}
      BY <3>2, <3>3, <3>4, <3>5 DEF Conserved
    <3>8. \A i, j \in q' : i.seq = j.seq => i = j
      <4>1. \A i \in q : i.seq # seq + 1
        BY <3>4, <3>5 DEF Queued
      <4>2. q' = q \cup {new}
        BY <2>2 DEF Submit
      <4>3. QED BY <3>1, <4>1, <4>2 DEF Conserved
    <3>9. QED BY <3>6, <3>7, <3>8 DEF Conserved
  <2>3. CASE Pop
    <3>1. top \in q /\ q' = q \ {top} /\ InHand = {} /\ InHand' = {top.seq}
      BY <2>3 DEF Pop, IsTop, InHand
    <3>2. Queued' = Queued \ {top.seq} /\ top.seq \in Queued
      BY <3>1 DEF Queued, Conserved
    <3>3. handed' = handed /\ lost' = lost /\ seq' = seq
      BY <2>3 DEF Pop
    <3>4. \A i, j \in q' : i.seq = j.seq => i = j
      BY <3>1 DEF Conserved
    <3>5. QED BY <3>1, <3>2, <3>3, <3>4 DEF Conserved
  <2>4. CASE Sent \/ SendFails
    <3>1. /\ InHand = {top.seq} /\ InHand' = {} /\ Queued' = Queued /\ seq' = seq
          /\ q' = q
      BY <2>4 DEF Sent, SendFails, InHand, Queued
    <3>2. \/ handed' = handed \cup {top.seq} /\ lost' = lost
          \/ lost' = lost \cup {top.seq} /\ handed' = handed
      BY <2>4 DEF Sent, SendFails
    <3>3. QED BY <3>1, <3>2 DEF Conserved
  <2>5. ASSUME NEW i \in q, Decide(i) PROVE Conserved'
    BY <2>1, <2>5 DEF Decide, InHand
  <2>6. CASE HeadChanged
    BY <2>1, <2>6 DEF HeadChanged, InHand
  <2>7. ASSUME NEW c \in Channels, NEW detected \in BOOLEAN, DcdEvent(c, detected)
        PROVE  Conserved'
    BY <2>1, <2>7 DEF DcdEvent, InHand
  <2>8. ASSUME NEW c \in Channels, AgeOneMin(c) \/ AgeFiveMin(c) PROVE Conserved'
    BY <2>1, <2>8 DEF AgeOneMin, AgeFiveMin, InHand
  <2>9. ASSUME NEW k \in Keys, Expire(k) PROVE Conserved'
    BY <2>1, <2>9 DEF Expire, InHand
  <2>10. CASE Cancel \/ Close \/ UNCHANGED vars
    BY <2>1, <2>10 DEF Cancel, Close, vars, InHand
  <2>11. QED BY <2>2, <2>3, <2>4, <2>5, <2>6, <2>7, <2>8, <2>9, <2>10
             DEF Next, Worker, Clock
<1>3. QED BY <1>1, <1>2, GovernorTypeCorrect, PTL DEF Spec

-----------------------------------------------------------------------------
(* The dedup window.  What makes it inductive is the reverse of NotPoisoned: *)
(* a key that is not remembered has no recent copy.                        *)

RecentHonest ==
    \A k \in Keys : /\ recent[k] # {} <=> k \in seen
                    /\ \A i \in recent[k] : i.seq <= seq

\* A remembered key stands for exactly one accepted copy, apart from those that
\* bypass the window, and a refused frame is never remembered.
THEOREM DedupHonest == Spec => [](OneCopy /\ NotPoisoned)
<1> USE DEF queueVars, rateVars, doneVars
<1> DEFINE DInv == OneCopy /\ RecentHonest
<1>1. Init => DInv
  BY DEF Init, OneCopy, RecentHonest
<1>2. TypeOK /\ DInv /\ [Next]_vars => DInv'
  <2> SUFFICES ASSUME TypeOK, DInv, [Next]_vars PROVE DInv'
    OBVIOUS
  <2>1. ASSUME UNCHANGED <<seq, seen, recent>> PROVE DInv'
    BY <2>1 DEF OneCopy, RecentHonest
  <2>2. ASSUME NEW t \in Traffic, Submit(t) PROVE DInv'
    <3>0. PICK new \in Item : new = Enqueued(t)
      BY <2>2, EnqueuedItem DEF Submit, TypeOK
    <3>1. /\ seq \in Nat /\ new.seq = seq + 1
          /\ new.skip = t.skip /\ t.key \in Keys
      BY <2>2, <3>0, EnqueuedItem, TrafficAssumption DEF Submit, TypeOK
    <3>2. \A k \in Keys : /\ k = t.key => recent'[k] = recent[k] \cup {new}
                          /\ k # t.key => recent'[k] = recent[k]
      BY <2>2, <3>0 DEF Submit, TypeOK
    <3>3. seq' = seq + 1 /\ seen' = seen \cup {t.key}
      BY <2>2 DEF Submit
    <3>4. \A k \in Keys : \A i \in recent[k] : i.seq \in Nat /\ i.seq <= seq
      BY ItemFields DEF TypeOK, RecentHonest
    <3>5. RecentHonest'
      <4>1. ASSUME NEW k \in Keys PROVE recent'[k] # {} <=> k \in seen'
        <5>1. CASE k = t.key
          BY <3>2, <3>3, <5>1
        <5>2. CASE k # t.key
          BY <3>2, <3>3, <5>2 DEF RecentHonest
        <5>3. QED BY <5>1, <5>2
      <4>2. ASSUME NEW k \in Keys, NEW i \in recent'[k] PROVE i.seq <= seq'
        <5>1. i = new \/ i \in recent[k]
          BY <3>2
        <5>2. QED BY <3>1, <3>3, <3>4, <5>1
      <4>3. QED BY <4>1, <4>2 DEF RecentHonest
    <3>6. t.skip \/ recent[t.key] = {}
      BY <2>2, <3>1 DEF Submit, Duplicate, RecentHonest
    <3>7. OneCopy'
      <4> SUFFICES ASSUME NEW k \in Keys, NEW i \in recent'[k], NEW j \in recent'[k],
                          i.seq < j.seq
                   PROVE  j.skip
        BY DEF OneCopy
      <4>1. CASE i \in recent[k] /\ j \in recent[k]
        BY <4>1 DEF OneCopy
      <4>2. CASE i \in recent[k] /\ j = new /\ k = t.key
        BY <3>1, <3>6, <4>2
      <4>3. CASE i = new
        <5>1. j = new \/ j \in recent[k]
          BY <3>2
        <5>2. j.seq \in Nat /\ j.seq <= seq + 1
          BY <3>1, <3>4, <5>1
        <5>3. QED BY <3>1, <4>3, <5>2
      <4>4. QED BY <3>2, <4>1, <4>2, <4>3
    <3>8. QED BY <3>5, <3>7
  <2>3. ASSUME NEW k \in Keys, Expire(k) PROVE DInv'
    <3>1. \A l \in Keys : recent'[l] = IF l = k THEN {} ELSE recent[l]
      BY <2>3 DEF Expire, TypeOK
    <3>2. seq' = seq /\ seen' = seen \ {k}
      BY <2>3 DEF Expire
    <3>3. QED BY <3>1, <3>2 DEF OneCopy, RecentHonest
  <2>4. CASE Worker
    BY <2>1, <2>4 DEF Worker, Decide, Pop, HeadChanged, Sent, SendFails
  <2>5. ASSUME NEW c \in Channels, NEW detected \in BOOLEAN, DcdEvent(c, detected)
        PROVE  DInv'
    BY <2>1, <2>5 DEF DcdEvent
  <2>6. ASSUME NEW c \in Channels, AgeOneMin(c) \/ AgeFiveMin(c) PROVE DInv'
    BY <2>1, <2>6 DEF AgeOneMin, AgeFiveMin
  <2>7. CASE Cancel \/ Close \/ UNCHANGED vars
    BY <2>1, <2>7 DEF Cancel, Close, vars
  <2>8. QED BY <2>2, <2>3, <2>4, <2>5, <2>6, <2>7 DEF Next, Clock
<1>3. TypeOK /\ DInv => OneCopy /\ NotPoisoned
  BY DEF RecentHonest, NotPoisoned, TypeOK
<1>4. QED BY <1>1, <1>2, <1>3, GovernorTypeCorrect, PTL DEF Spec

-----------------------------------------------------------------------------
(* The refinement: Submit is Accept, Pop is Leave, the clock is the clock, *)
(* and every other step changes nothing the scheduler sees.                *)

Departed == InHand \cup handed \cup lost

\* The governor implements the atomic scheduler.
THEOREM ImplementsScheduler == Spec => LeavesLikeScheduler
<1> USE DEF queueVars, rateVars, doneVars
<1>1. Init => Scheduler!SchedulerInit
  BY DEF Init, Scheduler!SchedulerInit, InHand
<1>2. TypeOK /\ DecisionStands /\ Conserved /\ [Next]_vars
      => [Scheduler!SchedulerNext]_Scheduler!svars
  <2> SUFFICES ASSUME TypeOK, DecisionStands, Conserved, [Next]_vars
               PROVE  [Scheduler!SchedulerNext]_Scheduler!svars
    OBVIOUS
  <2>1. ASSUME UNCHANGED <<q, rateVars>>, Departed' = Departed
        PROVE  UNCHANGED Scheduler!svars
    BY <2>1 DEF Departed, Scheduler!svars
  <2>2. ASSUME NEW t \in Traffic, Submit(t) PROVE Scheduler!SchedulerNext
    <3>1. seq \in Nat /\ Enqueued(t) \in Item /\ Enqueued(t).seq = seq + 1
      BY <2>2, EnqueuedItem DEF Submit, TypeOK
    <3>2. seq + 1 \notin Departed /\ \A j \in q : j.seq # seq + 1
      BY <3>1 DEF Conserved, Departed, Queued
    <3>3. Scheduler!Accept(Enqueued(t))
      BY <2>2, <3>1, <3>2 DEF Submit, Scheduler!Accept, Departed, InHand
    <3>4. QED BY <3>1, <3>3 DEF Scheduler!SchedulerNext
  <2>3. CASE Pop
    <3>1. top \in Item /\ top.ch \in Channels
      BY <2>3, ItemFields DEF Pop, TypeOK
    <3>2. Scheduler!Best(top)
      BY <2>3 DEF Pop, IsTop, Less, Scheduler!Best, Scheduler!Outranks
    <3>3. /\ Scheduler!Below(oneMin[top.ch], Rate1MinLimit)
          /\ Scheduler!Below(fiveMin[top.ch], Rate5MinLimit)
      BY <2>3, <3>1, LimitsAreNat
         DEF Pop, DecisionStands, IsRateLimited, Scheduler!Below, TypeOK
    <3>4. InHand = {} /\ InHand' = {top.seq}
      BY <2>3 DEF Pop, InHand
    <3>5. Scheduler!Leave(top)
      BY <2>3, <3>2, <3>3, <3>4 DEF Pop, Scheduler!Leave
    <3>6. QED BY <3>1, <3>5 DEF Scheduler!SchedulerNext
  <2>4. ASSUME NEW c \in Channels, AgeOneMin(c) PROVE Scheduler!SchedulerNext
    <3>1. Scheduler!AgeOneMin(c)
      BY <2>4 DEF AgeOneMin, Scheduler!AgeOneMin, InHand
    <3>2. QED BY <3>1 DEF Scheduler!SchedulerNext
  <2>5. ASSUME NEW c \in Channels, AgeFiveMin(c) PROVE Scheduler!SchedulerNext
    <3>1. Scheduler!AgeFiveMin(c)
      BY <2>5 DEF AgeFiveMin, Scheduler!AgeFiveMin, InHand
    <3>2. QED BY <3>1 DEF Scheduler!SchedulerNext
  <2>6. CASE Sent \/ SendFails
    <3>1. Departed' = Departed
      BY <2>6 DEF Sent, SendFails, Departed, InHand
    <3>2. QED BY <2>1, <2>6, <3>1 DEF Sent, SendFails
  <2>7. ASSUME NEW i \in q, Decide(i) PROVE UNCHANGED Scheduler!svars
    BY <2>1, <2>7 DEF Decide, Departed, InHand
  <2>8. CASE HeadChanged
    BY <2>1, <2>8 DEF HeadChanged, Departed, InHand
  <2>9. ASSUME NEW c \in Channels, NEW detected \in BOOLEAN, DcdEvent(c, detected)
        PROVE  UNCHANGED Scheduler!svars
    BY <2>1, <2>9 DEF DcdEvent, Departed, InHand
  <2>10. ASSUME NEW k \in Keys, Expire(k) PROVE UNCHANGED Scheduler!svars
    BY <2>1, <2>10 DEF Expire, Departed, InHand
  <2>11. CASE Cancel \/ Close \/ UNCHANGED vars
    BY <2>1, <2>11 DEF Cancel, Close, vars, Departed, InHand
  <2>12. QED BY <2>2, <2>3, <2>4, <2>5, <2>6, <2>7, <2>8, <2>9, <2>10, <2>11
             DEF Next, Worker, Clock
<1>3. Spec => []DecisionStands
  BY DecisionsStand, PTL
<1>4. QED
  BY <1>1, <1>2, <1>3, GovernorTypeCorrect, FramesConserved, PTL
     DEF Spec, LeavesLikeScheduler

-----------------------------------------------------------------------------
(* Behind the carrier detection of the modem.                              *)

Event == [ch : Channels, detected : BOOLEAN]

LEMMA GovernorMovesOn == ASSUME feed \in Seq(Event), [PathNext]_allVars PROVE [Next]_vars
<1>1. CASE WatcherTakes
  <2>1. Head(feed) \in Event BY <1>1 DEF WatcherTakes
  <2>2. \E c \in Channels, detected \in BOOLEAN : DcdEvent(c, detected)
    BY <1>1, <2>1 DEF WatcherTakes, Event
  <2> QED BY <2>2 DEF Next
<1>2. CASE Governor BY <1>2 DEF Governor, Next
<1>3. CASE UNCHANGED allVars BY <1>3 DEF allVars, vars
<1> QED BY <1>1, <1>2, <1>3 DEF PathNext, SlicerTurns, AudioRestarts, ModemDies

-----------------------------------------------------------------------------
(* Types of the path's own variables.                                      *)

PathTypes == feed \in Seq(Event) /\ heard \in [Channels -> SUBSET Slicers] /\ dropped \in BOOLEAN

LEMMA PathTypesStep == ASSUME PathTypes, [PathNext]_allVars PROVE PathTypes'
<1> USE DEF PathTypes
<1>1. ASSUME NEW c \in Channels, NEW s \in Slicers, SlicerTurns(c, s) PROVE PathTypes'
  <2>1. [ch |-> c, detected |-> s \notin heard[c]] \in Event BY DEF Event
  <2>2. heard' \in [Channels -> SUBSET Slicers] BY <1>1 DEF SlicerTurns
  <2>3. feed' \in Seq(Event) BY <1>1, <2>1, AppendProperties DEF SlicerTurns, Publish
  <2>4. dropped' \in BOOLEAN BY <1>1 DEF SlicerTurns, Publish
  <2> QED BY <2>2, <2>3, <2>4
<1>2. CASE AudioRestarts BY <1>2 DEF AudioRestarts
<1>3. CASE ModemDies
  <2>1. PICK n \in 0 .. Len(feed) : feed' = SubSeq(feed, 1, n) BY <1>3 DEF ModemDies
  <2>2. feed' \in Seq(Event) BY <2>1, SubSeqProperties
  <2> QED BY <1>3, <2>2 DEF ModemDies
<1>4. CASE WatcherTakes BY <1>4, HeadTailProperties DEF WatcherTakes
<1>5. CASE UNCHANGED pathVars BY <1>5 DEF pathVars
<1> QED BY <1>1, <1>2, <1>3, <1>4, <1>5 DEF PathNext, allVars

LEMMA PathTyped == PathSpec => []PathTypes
<1>1. ASSUME PathInit PROVE PathTypes
  <2>1. feed \in Seq(Event) BY <1>1 DEF PathInit
  <2>2. dropped \in BOOLEAN BY <1>1, Zenon DEF PathInit
  <2>3. heard \in [Channels -> SUBSET Slicers] BY <1>1 DEF PathInit
  <2> QED BY <2>1, <2>2, <2>3, Zenon DEF PathTypes
<1> QED BY <1>1, PathTypesStep, PTL DEF PathSpec

-----------------------------------------------------------------------------
\* Whatever slicers, publisher, watcher and restarts do, the governor behind them is the
\* governor of TxGovernor, and what is proved of it stands (governor.go:327-423,
\* dcd_publisher.go:95).
THEOREM PathRunsGovernor == PathSpec => Spec
<1>1. PathInit => Init BY DEF PathInit
<1>2. PathTypes /\ [PathNext]_allVars => [Next]_vars BY GovernorMovesOn DEF PathTypes
<1> QED BY <1>1, <1>2, PathTyped, PTL DEF PathSpec, Spec

-----------------------------------------------------------------------------
(* One slicer: the last word about a channel is that of its slicer.        *)

OneSlicer == \A s, t \in Slicers : s = t

IsLast(i, c) == i \in Told(c) /\ \A j \in Told(c) : j <= i
LastWord ==
    ~dropped => \A c \in Channels : heard[c] # {} =>
        /\ Told(c) = {} => dcd[c] = TRUE
        /\ \A i \in DOMAIN feed : IsLast(i, c) => feed[i].detected = TRUE

LEMMA SomeLast ==
    ASSUME feed \in Seq(Event), NEW c, Told(c) # {}
    PROVE  \E i \in Told(c) : IsLast(i, c)
<1> DEFINE Back == {Len(feed) - i : i \in Told(c)}
<1>1. Told(c) \subseteq 1 .. Len(feed) BY DEF Told
<1>2. Back \subseteq Nat /\ Back # {} BY <1>1
<1>3. PICK x \in Back : \A y \in Back : ~(<<y, x>> \in OpToRel(<, Nat))
  BY <1>2, NatLessThanWellFounded, WFMin
<1>4. \A y \in Back : ~(y < x) BY <1>2, <1>3 DEF OpToRel
<1>5. PICK i \in Told(c) : x = Len(feed) - i OBVIOUS
<1>6. \A j \in Told(c) : ~(Len(feed) - j < Len(feed) - i) BY <1>4, <1>5
<1> QED BY <1>1, <1>5, <1>6 DEF IsLast

LEMMA LastWordHeeded == ASSUME PathTypes, LastWord PROVE CarrierNeverMissed
<1> SUFFICES ASSUME ~dropped, NEW c \in Channels, heard[c] # {} PROVE WillBelieve(c)
  BY DEF CarrierNeverMissed
<1>1. CASE Told(c) = {} BY <1>1 DEF LastWord, WillBelieve
<1>2. CASE Told(c) # {}
  <2> DEFINE i == CHOOSE i \in Told(c) : \A j \in Told(c) : j <= i
  <2>1. IsLast(i, c) BY <1>2, SomeLast DEF PathTypes, IsLast
  <2>2. i \in DOMAIN feed BY <2>1 DEF IsLast, Told
  <2> QED BY <1>2, <2>1, <2>2 DEF LastWord, WillBelieve
<1> QED BY <1>1, <1>2

LEMMA TurnKeepsWord ==
    ASSUME PathTypes, OneSlicer, LastWord, NEW c \in Channels, NEW s \in Slicers, SlicerTurns(c, s)
    PROVE  LastWord'
<1> DEFINE e == [ch |-> c, detected |-> s \notin heard[c]]
<1> SUFFICES ASSUME ~dropped', NEW d \in Channels, heard'[d] # {}
             PROVE  /\ Told(d)' = {} => dcd'[d] = TRUE
                    /\ \A i \in DOMAIN feed' : IsLast(i, d)' => feed'[i].detected = TRUE
  BY DEF LastWord
<1>1. ~dropped /\ feed' = Append(feed, e) /\ UNCHANGED dcd
  BY DEF SlicerTurns, Publish, vars, PathTypes
<1>2. /\ Len(feed) \in Nat /\ DOMAIN feed = 1 .. Len(feed)
      /\ DOMAIN feed' = 1 .. Len(feed) + 1
      /\ feed'[Len(feed) + 1] = e
      /\ \A i \in 1 .. Len(feed) : feed'[i] = feed[i]
  BY <1>1, AppendProperties DEF PathTypes
<1>3. heard' = [heard EXCEPT ![c] = IF s \in @ THEN @ \ {s} ELSE @ \cup {s}] BY DEF SlicerTurns
<1>4. CASE d = c
  <2>1. s \notin heard[c] BY <1>3, <1>4 DEF PathTypes, OneSlicer
  <2>2. Len(feed) + 1 \in Told(d)' BY <1>2, <1>4 DEF Told
  <2>3. ASSUME NEW i \in DOMAIN feed', IsLast(i, d)' PROVE feed'[i].detected = TRUE
    <3>1. i = Len(feed) + 1 BY <1>2, <2>2, <2>3 DEF IsLast
    <3>2. e.detected = TRUE BY <2>1
    <3> QED BY <1>2, <3>1, <3>2
  <2> QED BY <2>2, <2>3
<1>5. CASE d # c
  <2>1. Told(d)' = Told(d) BY <1>2, <1>5 DEF Told
  <2>2. heard[d] # {} BY <1>3, <1>5 DEF PathTypes
  <2>3. ASSUME NEW i \in DOMAIN feed', IsLast(i, d)' PROVE feed'[i].detected = TRUE
    <3>1. IsLast(i, d) BY <2>1, <2>3 DEF IsLast
    <3>2. i \in 1 .. Len(feed) BY <1>2, <3>1 DEF IsLast, Told
    <3> QED BY <1>1, <1>2, <2>2, <3>1, <3>2 DEF LastWord
  <2> QED BY <1>1, <2>1, <2>2, <2>3 DEF LastWord
<1> QED BY <1>4, <1>5

LEMMA WatcherKeepsWord ==
    ASSUME PathTypes, dcd \in [Channels -> BOOLEAN], LastWord, WatcherTakes
    PROVE  LastWord'
<1> SUFFICES ASSUME ~dropped', NEW c \in Channels, heard'[c] # {}
             PROVE  /\ Told(c)' = {} => dcd'[c] = TRUE
                    /\ \A i \in DOMAIN feed' : IsLast(i, c)' => feed'[i].detected = TRUE
  BY DEF LastWord
<1>1. ~dropped /\ heard[c] # {} /\ feed # <<>> /\ feed' = Tail(feed) BY DEF WatcherTakes
<1>2. /\ Len(feed) \in Nat /\ Len(feed) > 0 /\ DOMAIN feed = 1 .. Len(feed)
      /\ DOMAIN feed' = 1 .. Len(feed) - 1
      /\ \A i \in 1 .. Len(feed) - 1 : feed'[i] = feed[i + 1]
  BY <1>1 DEF PathTypes
<1>3. dcd' = [dcd EXCEPT ![feed[1].ch] = feed[1].detected]
  <2>1. feed \in Seq(Event) /\ feed # <<>> BY <1>1 DEF PathTypes
  <2>2. Head(feed) = feed[1] BY <2>1
  <2> QED BY <2>2 DEF WatcherTakes, DcdEvent
<1>4. /\ \A i \in Told(c)' : i \in Nat /\ i + 1 \in Told(c)
      /\ \A i \in Told(c) : i = 1 \/ (i \in Nat /\ i > 1 /\ i - 1 \in Told(c)')
  BY <1>2 DEF Told
<1>5. ASSUME Told(c)' = {} PROVE dcd'[c] = TRUE
  <2>1. \A i \in Told(c) : i = 1 BY <1>4, <1>5
  <2>2. CASE Told(c) = {}
    <3>1. feed[1].ch # c BY <1>2, <2>2 DEF Told
    <3>2. dcd[c] = TRUE BY <1>1, <2>2 DEF LastWord
    <3> QED BY <1>3, <3>1, <3>2
  <2>3. CASE Told(c) # {}
    <3>1. 1 \in Told(c) /\ IsLast(1, c) BY <2>1, <2>3 DEF IsLast
    <3>2. 1 \in DOMAIN feed /\ feed[1].ch = c BY <3>1 DEF Told
    <3>3. feed[1].detected = TRUE BY <1>1, <3>1, <3>2 DEF LastWord
    <3> QED BY <1>3, <3>2, <3>3
  <2> QED BY <2>2, <2>3
<1>6. ASSUME NEW i \in DOMAIN feed', IsLast(i, c)' PROVE feed'[i].detected = TRUE
  <2>1. i + 1 \in Told(c) /\ i \in Nat BY <1>4, <1>6 DEF IsLast
  <2>2. \A j \in Told(c)' : j <= i BY <1>6 DEF IsLast
  <2>3. \A j \in Told(c) : j <= i + 1 BY <1>4, <2>1, <2>2
  <2>4. feed[i + 1].detected = TRUE BY <1>1, <2>1, <2>3 DEF LastWord, IsLast, Told
  <2> QED BY <1>2, <2>4
<1> QED BY <1>5, <1>6

LEMMA GovernorLeavesDcd == ASSUME Governor \/ UNCHANGED vars PROVE UNCHANGED dcd
BY DEF Governor, Submit, Worker, Decide, Pop, HeadChanged, Sent, SendFails, Clock, Expire,
   AgeOneMin, AgeFiveMin, Cancel, Close, vars

LEMMA WordStep ==
    ASSUME PathTypes, dcd \in [Channels -> BOOLEAN], OneSlicer, LastWord, [PathNext]_allVars
    PROVE  LastWord'
<1>1. CASE AudioRestarts \/ ModemDies BY <1>1 DEF AudioRestarts, ModemDies, LastWord
<1>2. CASE (Governor \/ UNCHANGED vars) /\ UNCHANGED pathVars
  BY <1>2, GovernorLeavesDcd DEF pathVars, LastWord, Told, IsLast
<1> QED BY <1>1, <1>2, TurnKeepsWord, WatcherKeepsWord DEF PathNext, allVars

LEMMA WordAlways == OneSlicer => (PathSpec => [](PathTypes /\ TypeOK /\ LastWord))
<1> SUFFICES ASSUME OneSlicer PROVE PathSpec => [](PathTypes /\ TypeOK /\ LastWord) OBVIOUS
<1>1. PathInit => LastWord BY DEF PathInit, LastWord
<1>2. PathTypes /\ TypeOK /\ LastWord /\ [PathNext]_allVars => LastWord' BY WordStep DEF TypeOK
<1>3. PathSpec => []TypeOK BY PathRunsGovernor, GovernorTypeCorrect, PTL
<1> QED BY <1>1, <1>2, <1>3, PathTyped, PTL DEF PathSpec

\* Through deaths and restarts of the modem, with one slicer and a feed that never filled
\* up, a carrier the modem detects is never missed (dcd_publisher.go:95, governor.go:423).
THEOREM CarrierHeeded == OneSlicer => (PathSpec => []CarrierNeverMissed)
<1>1. PathTypes /\ LastWord => CarrierNeverMissed BY LastWordHeeded
<1> QED BY <1>1, WordAlways, PTL
=============================================================================
