---------------------------- MODULE ReloadProofs ----------------------------
(***************************************************************************)
(* What a save brings about.  With config writes one at a time, a KISS     *)
(* interface has one supervisor, and the dispatcher catches up with what   *)
(* runs, for any number of saves, frames, faults and queue slots.  The     *)
(* schedule of the beacons catches up with the store, and no beacon is     *)
(* late, for any number of beacons, workers and fixes.                     *)
(***************************************************************************)
EXTENDS KissEgress, BeaconScheduler, TLAPS, WellFoundedInduction

-----------------------------------------------------------------------------
(* KISS interfaces, and the inductive invariant of theirs.                 *)

\* What is assumed of the config writes.
OneHandler == \A g, h \in Handlers : g = h

Fields == {"sup", "cancelled", "published", "link", "stopped", "writer", "queued"}
InstShape == DOMAIN inst = Starts /\ \A i \in Starts : DOMAIN inst[i] = Fields

Points == {"idle", "apply", "stop", "wait", "insert", "launch", "notify"}
HandlerShape ==
    /\ DOMAIN handler = Handlers
    /\ \A h \in Handlers : /\ DOMAIN handler[h] = {"pc", "on", "at"}
                           /\ handler[h].pc \in Points
                           /\ handler[h].on \in BOOLEAN

\* Every start was asked for by a save of its own.
Busy(h) == handler[h].pc \in {"apply", "stop", "wait", "insert"}
CountsOK ==
    /\ starts \in Nat /\ saves \in Nat
    /\ saves <= MaxSaves /\ starts <= saves /\ running \in 0 .. starts
    /\ \A h \in Handlers : Busy(h) => starts < saves

\* An instance lives in running, or in the hands of the handler that stops it.
Held ==
    /\ \A i \in Starts : Alive(i) =>
        i = running \/ \E h \in Handlers : handler[h].pc \in {"stop", "wait"} /\ handler[h].at = i
    /\ \A h \in Handlers : handler[h].pc \in {"stop", "wait", "insert"} => running = 0
    /\ \A h \in Handlers : handler[h].pc = "launch" => running = handler[h].at /\ running # 0

\* What runs is what the row says, once the handler has applied it.
Applied == \A h \in Handlers : handler[h].pc \in {"idle", "notify"}
RowApplied ==
    /\ row \in BOOLEAN
    /\ \A h \in Handlers : /\ Busy(h) => handler[h].on = row
                           /\ handler[h].pc = "insert" => row = TRUE
                           /\ handler[h].pc = "launch" => row = TRUE
    /\ Applied => (row = TRUE <=> running # 0)
QueueShown == Applied /\ running # 0 => inst[running].published = TRUE

\* Without a signal pending, what the watcher has published, or holds, is current.
Idle == \A h \in Handlers : handler[h].pc = "idle"
Current ==
    Idle /\ signalled # TRUE =>
        /\ watcher.pc = "idle" => snapshot = running
        /\ watcher.pc = "rows" => watcher.on = row
        /\ watcher.pc = "built" => watcher.queue = running
WatcherShape == DOMAIN watcher = {"pc", "on", "queue"} /\ watcher.pc \in {"idle", "rows", "built"}

Shapes == InstShape /\ HandlerShape /\ WatcherShape

-----------------------------------------------------------------------------
(* Steps of supervisors, writers and the governor change no handler and    *)
(* start nothing.                                                          *)

Quiet ==
    /\ UNCHANGED <<kind, row, handler, running, starts, saves, watcher, snapshot>>
    /\ signalled' = TRUE \/ UNCHANGED signalled
    /\ InstShape'
    /\ \A i \in Starts : /\ Alive(i)' => Alive(i)
                         /\ inst'[i].published = inst[i].published

LEMMA QuietSteps ==
    ASSUME InstShape,
           \/ \E i \in Starts : Supervisor(i) \/ PeerBreaks(i) \/ Writer(i)
           \/ Send \/ UNCHANGED vars
    PROVE  Quiet
<1> USE DEF manager, registry, sending
<1>1. ASSUME UNCHANGED inst,
             UNCHANGED <<kind, row, handler, running, starts, saves, watcher, snapshot, signalled>>
      PROVE  Quiet
  BY <1>1 DEF Quiet, InstShape, Alive
<1>2. ASSUME NEW i \in Starts, Supervisor(i) PROVE Quiet
  <2> USE DEF Quiet, InstShape, Fields, Alive, Nudge, Set, Closing
  <2>1. CASE Loop(i) BY <2>1 DEF Loop
  <2>2. CASE OpenFails(i) BY <2>2 DEF OpenFails
  <2>3. CASE Opens(i) BY <2>3 DEF Opens
  <2>4. CASE LinkEnds(i) BY <2>4 DEF LinkEnds
  <2>5. CASE CloseQueue(i) BY <2>5 DEF CloseQueue
  <2>6. CASE Joined(i) BY <2>6 DEF Joined
  <2> QED BY <1>2, <2>1, <2>2, <2>3, <2>4, <2>5, <2>6 DEF Supervisor
<1>3. ASSUME NEW i \in Starts, PeerBreaks(i) \/ Writer(i) PROVE Quiet
  <2> USE DEF Quiet, InstShape, Fields, Alive, Set
  <2>1. CASE PeerBreaks(i) BY <2>1 DEF PeerBreaks
  <2>2. CASE WriterTakes(i) BY <2>2 DEF WriterTakes
  <2>3. CASE WriterEnds(i) BY <2>3 DEF WriterEnds
  <2>4. CASE Writes(i) \/ WriteFails(i) BY <2>4 DEF Writes, WriteFails
  <2> QED BY <1>3, <2>1, <2>2, <2>3, <2>4 DEF Writer
<1>4. CASE Send
  <2>1. CASE SendLoads \/ EnqueueChecks BY <1>1, <2>1 DEF SendLoads, EnqueueChecks
  <2>2. CASE EnqueuePushes
    <3>1. CASE UNCHANGED inst BY <1>1, <2>2, <3>1 DEF EnqueuePushes
    <3>2. CASE Set(sender.at, "queued", inst[sender.at].queued + 1)
      BY <2>2, <3>2 DEF EnqueuePushes, Quiet, InstShape, Fields, Alive, Set
    <3> QED BY <2>2, <3>1, <3>2 DEF EnqueuePushes
  <2> QED BY <1>4, <2>1, <2>2 DEF Send
<1>5. CASE UNCHANGED vars BY <1>1, <1>5 DEF vars
<1> QED BY <1>2, <1>3, <1>4, <1>5

LEMMA StepKinds ==
    ASSUME InstShape, [Next]_vars
    PROVE  Quiet \/ Watcher \/ \E h \in Handlers : SaveRow(h) \/ Handler(h)
BY QuietSteps DEF Next

-----------------------------------------------------------------------------
(* What a handler's step does to handlers.                                 *)

LEMMA Moves ==
    ASSUME HandlerShape, OneHandler, NEW h \in Handlers, NEW p \in Points, Goto(h, p)
    PROVE  /\ HandlerShape'
           /\ \A g \in Handlers : g = h /\ handler'[g] = handler'[h]
           /\ handler'[h].pc = p /\ handler'[h].on = handler[h].on /\ handler'[h].at = handler[h].at
BY DEF HandlerShape, OneHandler, Goto

LEMMA HandlerMoves ==
    ASSUME HandlerShape, OneHandler, NEW h \in Handlers, SaveRow(h) \/ Handler(h)
    PROVE  HandlerShape'
<1> USE DEF HandlerShape, Points
<1>1. CASE SaveRow(h) BY <1>1 DEF SaveRow
<1>2. CASE TakeOut(h) BY <1>2 DEF TakeOut
<1>3. CASE NothingRuns(h) \/ StopCancels(h) \/ StopEnds(h) \/ Launch(h)
  BY <1>3, Moves DEF NothingRuns, StopCancels, StopEnds, Launch
<1>4. CASE Insert(h) BY <1>4 DEF Insert
<1>5. CASE Notify(h) BY <1>5 DEF Notify, Resting
<1> QED BY <1>1, <1>2, <1>3, <1>4, <1>5 DEF Handler

LEMMA ShapesStep == ASSUME Shapes, OneHandler, [Next]_vars PROVE Shapes'
<1>1. CASE Quiet BY <1>1 DEF Shapes, Quiet, HandlerShape, WatcherShape
<1>2. CASE Watcher
  <2>1. UNCHANGED <<inst, handler>>
    BY <1>2 DEF Watcher, WatcherReadsRows, WatcherReadsQueue, WatcherPublishes, manager
  <2>2. WatcherShape'
    <3> USE DEF Shapes, WatcherShape
    <3>1. CASE WatcherReadsRows BY <3>1 DEF WatcherReadsRows
    <3>2. CASE WatcherReadsQueue BY <3>2 DEF WatcherReadsQueue
    <3>3. CASE WatcherPublishes BY <3>3 DEF WatcherPublishes
    <3> QED BY <1>2, <3>1, <3>2, <3>3 DEF Watcher
  <2> QED BY <2>1, <2>2 DEF Shapes, InstShape, HandlerShape
<1>3. ASSUME NEW h \in Handlers, SaveRow(h) \/ Handler(h) PROVE Shapes'
  <2>1. UNCHANGED watcher
    BY <1>3 DEF SaveRow, Handler, TakeOut, NothingRuns, StopCancels, StopEnds, Insert, Launch,
       Notify, registry
  <2>2. HandlerShape' BY <1>3, HandlerMoves DEF Shapes
  <2>3. InstShape'
    <3> USE DEF Shapes, InstShape, Fields
    <3>1. CASE StopCancels(h) BY <3>1 DEF StopCancels, Set
    <3>2. CASE Insert(h) BY <3>2 DEF Insert, Absent
    <3>3. CASE Launch(h) BY <3>3 DEF Launch
    <3>4. CASE UNCHANGED inst BY <3>4
    <3>5. CASE SaveRow(h) \/ TakeOut(h) \/ NothingRuns(h) \/ StopEnds(h) \/ Notify(h)
      <4>1. UNCHANGED inst BY <3>5 DEF SaveRow, TakeOut, NothingRuns, StopEnds, Notify
      <4> QED BY <3>4, <4>1
    <3> QED BY <1>3, <3>1, <3>2, <3>3, <3>5 DEF Handler
  <2> QED BY <2>1, <2>2, <2>3 DEF Shapes, WatcherShape
<1> QED BY <1>1, <1>2, <1>3, StepKinds DEF Shapes

-----------------------------------------------------------------------------
LEMMA CountsStep ==
    ASSUME Shapes, OneHandler, CountsOK, Held, [Next]_vars
    PROVE  CountsOK'
<1> USE DEF CountsOK, Busy
<1>1. CASE Quiet BY <1>1 DEF Quiet
<1>2. CASE Watcher
  BY <1>2 DEF Watcher, WatcherReadsRows, WatcherReadsQueue, WatcherPublishes, manager
<1>3. ASSUME NEW h \in Handlers, SaveRow(h) \/ Handler(h) PROVE CountsOK'
  <2> USE DEF Shapes, HandlerShape, Points, At
  <2>1. CASE SaveRow(h) BY <2>1, KissAssumption DEF SaveRow
  <2>2. CASE TakeOut(h) BY <2>2 DEF TakeOut
  <2>3. CASE NothingRuns(h) \/ StopCancels(h) \/ StopEnds(h) \/ Launch(h)
    BY <2>3 DEF NothingRuns, StopCancels, StopEnds, Launch, Goto
  <2>4. CASE Insert(h) BY <2>4 DEF Insert, OneHandler
  <2>5. CASE Notify(h) BY <2>5 DEF Notify, Resting
  <2> QED BY <1>3, <2>1, <2>2, <2>3, <2>4, <2>5 DEF Handler
<1> QED BY <1>1, <1>2, <1>3, StepKinds DEF Shapes

LEMMA HeldStep ==
    ASSUME Shapes, OneHandler, CountsOK, Held, [Next]_vars
    PROVE  Held'
<1> USE DEF Held
<1>1. CASE Quiet BY <1>1 DEF Quiet
<1>2. CASE Watcher
  BY <1>2 DEF Watcher, WatcherReadsRows, WatcherReadsQueue, WatcherPublishes, manager, Alive
<1>3. ASSUME NEW h \in Handlers, SaveRow(h) \/ Handler(h) PROVE Held'
  <2> USE DEF Shapes, HandlerShape, OneHandler, Points, At, Alive
  <2>1. CASE SaveRow(h) BY <2>1 DEF SaveRow
  <2>2. CASE TakeOut(h) BY <2>2 DEF TakeOut
  <2>3. CASE NothingRuns(h) BY <2>3 DEF NothingRuns, Goto
  <2>4. CASE StopCancels(h)
    <3>1. \A i \in Starts : inst'[i].sup = inst[i].sup
      BY <2>4 DEF StopCancels, Set, InstShape, Fields
    <3> QED BY <2>4, <3>1 DEF StopCancels, Goto
  <2>5. CASE StopEnds(h) BY <2>5 DEF StopEnds, Goto
  <2>6. CASE Insert(h)
    <3>1. running = 0 /\ starts' = starts + 1 /\ running' = starts + 1 BY <2>6 DEF Insert
    <3>2. \A i \in Starts : ~Alive(i)
      BY <2>6, <3>1 DEF Insert, Starts
    <3>3. \A i \in Starts : ~Alive(i)'
      BY <2>6, <3>2 DEF Insert, InstShape, Fields, Absent
    <3>4. handler'[h].pc = "launch" /\ handler'[h].at = running' BY <2>6 DEF Insert
    <3> QED BY <3>1, <3>3, <3>4 DEF CountsOK
  <2>7. CASE Launch(h)
    <3>1. \A i \in Starts : i # running => inst'[i].sup = inst[i].sup
      BY <2>7 DEF Launch, InstShape, Fields
    <3> QED BY <2>7, <3>1 DEF Launch, Goto
  <2>8. CASE Notify(h) BY <2>8 DEF Notify, Resting
  <2> QED BY <1>3, <2>1, <2>2, <2>3, <2>4, <2>5, <2>6, <2>7, <2>8 DEF Handler
<1> QED BY <1>1, <1>2, <1>3, StepKinds DEF Shapes

Inv == Shapes /\ CountsOK /\ Held

LEMMA InvInit == Init => Inv
<1> SUFFICES ASSUME Init PROVE Inv OBVIOUS
<1>1. InstShape BY DEF Init, InstShape, Absent, Fields
<1>2. \A h \in Handlers : handler[h] = Resting BY DEF Init
<1>3. HandlerShape BY <1>2 DEF Init, HandlerShape, Resting, Points
<1>4. WatcherShape BY DEF Init, WatcherShape
<1>5. CountsOK BY <1>2, KissAssumption DEF Init, CountsOK, Resting, Busy
<1>6. \A i \in Starts : ~Alive(i) BY DEF Init, Alive, Absent
<1>7. Held BY <1>2, <1>6 DEF Held, Resting
<1> QED BY <1>1, <1>3, <1>4, <1>5, <1>7 DEF Inv, Shapes

-----------------------------------------------------------------------------
(* The row, the queue and the snapshot.                                    *)

LEMMA RowStep ==
    ASSUME Shapes, OneHandler, CountsOK, Held, RowApplied, [Next]_vars
    PROVE  RowApplied'
<1> USE DEF RowApplied, Applied, Busy
<1>1. CASE Quiet BY <1>1 DEF Quiet
<1>2. CASE Watcher
  BY <1>2 DEF Watcher, WatcherReadsRows, WatcherReadsQueue, WatcherPublishes, manager
<1>3. ASSUME NEW h \in Handlers, SaveRow(h) \/ Handler(h) PROVE RowApplied'
  <2> USE DEF Shapes, HandlerShape, OneHandler, Points, At
  <2>1. CASE SaveRow(h) BY <2>1 DEF SaveRow
  <2>2. CASE TakeOut(h) BY <2>2 DEF TakeOut
  <2>3. CASE NothingRuns(h) BY <2>3 DEF NothingRuns, Goto
  <2>4. CASE StopCancels(h) BY <2>4 DEF StopCancels, Goto
  <2>5. CASE StopEnds(h) BY <2>5 DEF StopEnds, Goto, Held
  <2>6. CASE Insert(h) BY <2>6 DEF Insert
  <2>7. CASE Launch(h) BY <2>7 DEF Launch, Goto, Held
  <2>8. CASE Notify(h) BY <2>8 DEF Notify, Resting
  <2> QED BY <1>3, <2>1, <2>2, <2>3, <2>4, <2>5, <2>6, <2>7, <2>8 DEF Handler
<1> QED BY <1>1, <1>2, <1>3, StepKinds DEF Shapes

LEMMA QueueStep ==
    ASSUME Shapes, OneHandler, CountsOK, Held, QueueShown, [Next]_vars
    PROVE  QueueShown'
<1> USE DEF QueueShown, Applied
<1>0. running # 0 => running \in Starts BY KissAssumption DEF CountsOK, Starts
<1>1. CASE Quiet BY <1>0, <1>1 DEF Quiet
<1>2. CASE Watcher
  BY <1>2 DEF Watcher, WatcherReadsRows, WatcherReadsQueue, WatcherPublishes, manager
<1>3. ASSUME NEW h \in Handlers, SaveRow(h) \/ Handler(h) PROVE QueueShown'
  <2> USE DEF Shapes, HandlerShape, OneHandler, Points, At
  <2>1. CASE SaveRow(h) BY <2>1 DEF SaveRow
  <2>2. CASE TakeOut(h) BY <2>2 DEF TakeOut
  <2>3. CASE NothingRuns(h) BY <2>3 DEF NothingRuns, Goto
  <2>4. CASE StopCancels(h) BY <2>4 DEF StopCancels, Goto
  <2>5. CASE StopEnds(h) BY <2>5 DEF StopEnds, Goto, Held
  <2>6. CASE Insert(h) BY <2>6 DEF Insert
  <2>7. CASE Launch(h)
    <3>1. running' = running /\ handler[h].at = running /\ running \in Starts
      BY <1>0, <2>7 DEF Launch, Held
    <3> QED BY <2>7, <3>1 DEF Launch, InstShape, Fields
  <2>8. CASE Notify(h) BY <2>8 DEF Notify, Resting
  <2> QED BY <1>3, <2>1, <2>2, <2>3, <2>4, <2>5, <2>6, <2>7, <2>8 DEF Handler
<1> QED BY <1>1, <1>2, <1>3, StepKinds DEF Shapes

LEMMA CurrentStep ==
    ASSUME Shapes, OneHandler, RowApplied, QueueShown, Current, [Next]_vars
    PROVE  Current'
<1> USE DEF Current, Idle
<1>1. CASE Quiet BY <1>1 DEF Quiet
<1>2. CASE Watcher
  <2> USE DEF manager
  <2>1. CASE WatcherReadsRows BY <2>1 DEF WatcherReadsRows
  <2>2. CASE WatcherReadsQueue
    <3>1. Idle /\ signalled # TRUE =>
            watcher.on = row /\ (row = TRUE <=> running # 0)
            /\ (running # 0 => inst[running].published = TRUE)
      BY <2>2 DEF WatcherReadsQueue, RowApplied, QueueShown, Applied
    <3>2. watcher'.pc = "built"
          /\ watcher'.queue = (IF watcher.on /\ running # 0 /\ inst[running].published
                               THEN running ELSE 0)
      BY <2>2 DEF WatcherReadsQueue, Shapes, WatcherShape
    <3> QED BY <2>2, <3>1, <3>2 DEF WatcherReadsQueue, RowApplied
  <2>3. CASE WatcherPublishes BY <2>3 DEF WatcherPublishes
  <2> QED BY <1>2, <2>1, <2>2, <2>3 DEF Watcher
<1>3. ASSUME NEW h \in Handlers, SaveRow(h) \/ Handler(h) PROVE Current'
  <2> USE DEF Shapes, HandlerShape, OneHandler, Points, At
  <2>1. CASE SaveRow(h) BY <2>1 DEF SaveRow
  <2>2. CASE TakeOut(h) BY <2>2 DEF TakeOut
  <2>3. CASE NothingRuns(h) \/ StopCancels(h) \/ StopEnds(h) \/ Launch(h)
    BY <2>3 DEF NothingRuns, StopCancels, StopEnds, Launch, Goto
  <2>4. CASE Insert(h) BY <2>4 DEF Insert
  <2>5. CASE Notify(h) BY <2>5 DEF Notify
  <2> QED BY <1>3, <2>1, <2>2, <2>3, <2>4, <2>5 DEF Handler
<1> QED BY <1>1, <1>2, <1>3, StepKinds DEF Shapes

\* Once a save has been applied and the watcher has caught up, frames go to the queue of
\* the instance that runs, and to none when the row is disabled (dispatcher.go:243-264,
\* wiring.go:2173-2237).
THEOREM DispatcherCatchesUp == OneHandler => (Spec => []SnapshotFresh)
<1> DEFINE Full == Inv /\ RowApplied /\ QueueShown /\ Current
<1> SUFFICES ASSUME OneHandler PROVE Spec => []SnapshotFresh OBVIOUS
<1>1. ASSUME Init PROVE RowApplied /\ QueueShown /\ Current
  <2>1. \A h \in Handlers : handler[h] = Resting BY <1>1 DEF Init
  <2>2. RowApplied BY <1>1, <2>1 DEF Init, RowApplied, Resting, Busy
  <2>3. QueueShown /\ Current BY <1>1 DEF Init, QueueShown, Current
  <2> QED BY <2>2, <2>3
<1>2. Init => Full BY <1>1, InvInit
<1>3. Full /\ [Next]_vars => Full'
  BY ShapesStep, CountsStep, HeldStep, RowStep, QueueStep, CurrentStep DEF Inv
<1>4. Full => SnapshotFresh
  <2> SUFFICES ASSUME Full, AtRest PROVE snapshot = running /\ (running # 0) = row
    BY DEF SnapshotFresh
  <2>1. snapshot = running BY DEF AtRest, At, Current, Idle
  <2>2. row \in BOOLEAN /\ (row = TRUE <=> running # 0)
    BY DEF AtRest, At, RowApplied, Applied
  <2> QED BY <2>1, <2>2
<1> QED BY <1>2, <1>3, <1>4, PTL DEF Spec

-----------------------------------------------------------------------------
(* Beacons: the shapes of the state, and what is fresh.                     *)

Cfg == [on : BOOLEAN, smart : BOOLEAN, every : Nat \ {0}, path : {"rf", "both", "is_only"}]
StoreShape ==
    /\ store \in [rows : [Beacons -> Rows], smart : BOOLEAN]
    /\ owed \in [rows : Nat, smart : Nat]
LoaderShape ==
    /\ DOMAIN loader = {"pc", "rows", "smart", "failed"}
    /\ loader.pc \in {"wait", "rows", "smart", "set", "signal"}
    /\ loader.smart \in BOOLEAN /\ loader.failed \in {"none", "rows", "smart"}
    /\ \A b \in DOMAIN loader.rows : b \in Beacons /\ loader.rows[b] \in Row
ListShape == \A b \in DOMAIN beacons : b \in Beacons /\ beacons[b] \in Cfg
BeaconShapes == StoreShape /\ LoaderShape /\ ListShape
Plan == [cfg : Cfg, wait : Nat, sent : BOOLEAN, since : Nat, heading : SUBSET Nat]
PlanShape == /\ DOMAIN plans \subseteq Beacons /\ \A b \in DOMAIN plans : plans[b] \in Plan
             /\ fix \in Fixes /\ DOMAIN bound = {"edits", "fixes"} /\ bound.fixes \subseteq Fixes

\* What no signal is on the way for has been read, then listed, then built.
OnTheWay == owed.rows > 0 \/ owed.smart > 0 \/ signals # {} \/ loader.pc = "rows"
ReadFresh ==
    ~OnTheWay /\ loader.failed = "none" =>
        /\ loader.pc \in {"smart", "set"} => loader.rows = store.rows
        /\ loader.pc = "set" => loader.smart = store.smart
        /\ loader.pc \in {"signal", "wait"} => beacons = Configs(store.rows, store.smart)
HeapFresh ==
    reloadCh # TRUE /\ loader.pc # "signal" /\ loop.pc # "build" =>
        /\ DOMAIN plans = {b \in DOMAIN beacons : beacons[b].on}
        /\ \A b \in DOMAIN plans : plans[b].cfg = beacons[b]

LEMMA ConfigShape ==
    ASSUME NEW r \in Row, NEW smart \in BOOLEAN PROVE Config(r, smart) \in Cfg
<1>1. (r.tracker /\ smart) \in BOOLEAN OBVIOUS
<1> QED BY <1>1 DEF Config, Cfg, Row

LEMMA ConfigsShape ==
    ASSUME NEW rows, NEW smart \in BOOLEAN, \A b \in DOMAIN rows : b \in Beacons /\ rows[b] \in Row
    PROVE  \A b \in DOMAIN Configs(rows, smart) :
               b \in Beacons /\ Configs(rows, smart)[b] \in Cfg
BY ConfigShape DEF Configs

\* The steps that touch neither the store nor the list.
LEMMA Elsewhere ==
    ASSUME BeaconShapes, RunLoop \/ Cancel \/ Update \/ Tick \/ (\E s \in Slots : Worker(s))
                         \/ UNCHANGED beaconVars
    PROVE  UNCHANGED <<store, owed, signals, loader, beacons>>
<1> USE DEF saving, loading, world
<1>1. CASE RunLoop
  BY <1>1 DEF RunLoop, TakeReload, buildHeap, NoReload, Pop, Sleep, Wake
<1>2. CASE \E s \in Slots : Worker(s)
  BY <1>2 DEF Worker, Build, SubmitRF, SendIS, JobGoes
<1> QED BY <1>1, <1>2 DEF Cancel, Update, Tick, beaconVars

LEMMA BeaconShapesStep == ASSUME BeaconShapes, [BeaconNext]_beaconVars PROVE BeaconShapes'
<1> USE DEF saving, loading, world
<1>1. CASE Save
  <2>1. UNCHANGED <<loader, beacons>> BY <1>1 DEF Save
  <2>2. CASE \E b \in Beacons, r \in Rows : store' = [store EXCEPT !.rows[b] = r]
                                           /\ owed' = [owed EXCEPT !.rows = @ + 1]
    <3>1. PICK b \in Beacons, r \in Rows : store' = [store EXCEPT !.rows[b] = r] BY <2>2
    <3>2. store' \in [rows : [Beacons -> Rows], smart : BOOLEAN]
      BY <3>1 DEF BeaconShapes, StoreShape
    <3>3. owed' \in [rows : Nat, smart : Nat] BY <2>2 DEF BeaconShapes, StoreShape
    <3> QED BY <2>1, <3>2, <3>3 DEF BeaconShapes, StoreShape, LoaderShape, ListShape
  <2>3. CASE store' = [store EXCEPT !.smart = ~@] /\ owed' = [owed EXCEPT !.smart = @ + 1]
    <3>1. store' \in [rows : [Beacons -> Rows], smart : BOOLEAN]
      BY <2>3 DEF BeaconShapes, StoreShape
    <3>2. owed' \in [rows : Nat, smart : Nat] BY <2>3 DEF BeaconShapes, StoreShape
    <3> QED BY <2>1, <3>1, <3>2 DEF BeaconShapes, StoreShape, LoaderShape, ListShape
  <2> QED BY <1>1, <2>2, <2>3 DEF Save
<1>2. ASSUME NEW which \in {"rows", "smart"}, Signal(which) PROVE BeaconShapes'
  <2>1. UNCHANGED <<store, loader, beacons>> BY <1>2 DEF Signal
  <2>2. owed' \in [rows : Nat, smart : Nat] BY <1>2 DEF Signal, BeaconShapes, StoreShape
  <2> QED BY <2>1, <2>2 DEF BeaconShapes, StoreShape, LoaderShape, ListShape
<1>3. CASE Loader
  <2>1. UNCHANGED <<store, owed>>
    BY <1>3 DEF Loader, LoaderTakes, LoadRows, LoadSmart, SetBeacons, Reload
  <2>2. LoaderShape'
    <3> USE DEF BeaconShapes, LoaderShape
    <3>1. CASE LoaderTakes BY <3>1 DEF LoaderTakes
    <3>2. CASE LoadRows
      <4>1. CASE loader' = [loader EXCEPT !.pc = "smart", !.rows = store.rows, !.failed = "none"]
        <5>1. \A b \in DOMAIN store.rows : b \in Beacons /\ store.rows[b] \in Row
          BY BeaconAssumption DEF StoreShape
        <5> QED BY <4>1, <5>1
      <4>2. CASE loader' = [pc |-> "set", rows |-> <<>>, smart |-> FALSE, failed |-> "rows"]
        BY <4>2
      <4> QED BY <3>2, <4>1, <4>2 DEF LoadRows
    <3>3. CASE LoadSmart BY <3>3 DEF LoadSmart, StoreShape
    <3>4. CASE SetBeacons BY <3>4 DEF SetBeacons
    <3>5. CASE Reload BY <3>5 DEF Reload
    <3> QED BY <1>3, <3>1, <3>2, <3>3, <3>4, <3>5 DEF Loader
  <2>3. ListShape'
    <3>1. CASE SetBeacons
      BY <3>1, ConfigsShape DEF SetBeacons, BeaconShapes, LoaderShape, ListShape
    <3>2. CASE UNCHANGED beacons BY <3>2 DEF BeaconShapes, ListShape
    <3> QED BY <1>3, <3>1, <3>2 DEF Loader, LoaderTakes, LoadRows, LoadSmart, Reload
  <2> QED BY <2>1, <2>2, <2>3 DEF BeaconShapes, StoreShape
<1>4. CASE UNCHANGED <<store, owed, signals, loader, beacons>>
  BY <1>4 DEF BeaconShapes, StoreShape, LoaderShape, ListShape
<1> QED BY <1>1, <1>2, <1>3, <1>4, Elsewhere DEF BeaconNext

LEMMA ReadFreshStep == ASSUME BeaconShapes, ReadFresh, [BeaconNext]_beaconVars PROVE ReadFresh'
<1> USE DEF saving, loading, world
<1>1. CASE Save
  <2>1. owed'.rows > 0 \/ owed'.smart > 0 BY <1>1 DEF Save, BeaconShapes, StoreShape
  <2> QED BY <2>1 DEF ReadFresh, OnTheWay
<1>2. ASSUME NEW which \in {"rows", "smart"}, Signal(which) PROVE ReadFresh'
  <2>1. signals' # {} BY <1>2 DEF Signal
  <2> QED BY <2>1 DEF ReadFresh, OnTheWay
<1>3. CASE Loader
  <2> USE DEF BeaconShapes, LoaderShape, ReadFresh, OnTheWay
  <2>1. CASE LoaderTakes BY <2>1 DEF LoaderTakes
  <2>2. CASE LoadRows
    <3>1. CASE loader' = [loader EXCEPT !.pc = "smart", !.rows = store.rows, !.failed = "none"]
      BY <2>2, <3>1 DEF LoadRows
    <3>2. CASE loader' = [pc |-> "set", rows |-> <<>>, smart |-> FALSE, failed |-> "rows"]
      BY <3>2
    <3> QED BY <2>2, <3>1, <3>2 DEF LoadRows
  <2>3. CASE LoadSmart BY <2>3 DEF LoadSmart
  <2>4. CASE SetBeacons BY <2>4 DEF SetBeacons
  <2>5. CASE Reload BY <2>5 DEF Reload
  <2> QED BY <1>3, <2>1, <2>2, <2>3, <2>4, <2>5 DEF Loader
<1>4. CASE UNCHANGED <<store, owed, signals, loader, beacons>>
  BY <1>4 DEF ReadFresh, OnTheWay
<1> QED BY <1>1, <1>2, <1>3, <1>4, Elsewhere DEF BeaconNext

LEMMA MinOf == ASSUME NEW m \in Nat, NEW n \in Nat PROVE Min({m, n}) = IF m <= n THEN m ELSE n
<1>1. \E x \in {m, n} : \A y \in {m, n} : x <= y
  <2>1. CASE m <= n BY <2>1
  <2>2. CASE n <= m BY <2>2
  <2> QED BY <2>1, <2>2
<1> QED BY <1>1 DEF Min

LEMMA FixShape ==
    ASSUME PlanShape
    PROVE  /\ fix.moves \in BOOLEAN /\ fix.heading \in Nat
           /\ Interval \in Nat /\ 1 <= Interval /\ Interval <= LongestRate
<1>1. fix \in [moves : BOOLEAN, heading : Nat, rate : 1 .. LongestRate] /\ LongestRate \in Nat
  BY BeaconAssumption DEF PlanShape
<1> QED BY <1>1 DEF Interval

LEMMA WakeShape ==
    ASSUME PlanShape, NEW p \in Plan
    PROVE  nextWake(p) = (IF p.cfg.smart THEN 1 ELSE p.cfg.every) /\ nextWake(p) \in Nat \ {0}
<1>1. Min({Poll, Interval}) = 1 BY FixShape, MinOf DEF Poll
<1> QED BY <1>1 DEF nextWake, Plan, Cfg

LEMMA SentShape ==
    ASSUME PlanShape, NEW p \in Plan
    PROVE  /\ Rescheduled(Sent(p)) \in Plan
           /\ Rescheduled(Sent(p)).cfg = p.cfg /\ Rescheduled(Sent(p)).since = 0
           /\ Rescheduled(Sent(p)).wait = nextWake(p)
<1>1. Sent(p) \in Plan /\ Sent(p).cfg = p.cfg /\ Sent(p).since = 0
  BY FixShape DEF Sent, Plan
<1>2. nextWake(Sent(p)) = nextWake(p) BY <1>1 DEF nextWake
<1> QED BY <1>1, <1>2, WakeShape DEF Rescheduled, Plan

LEMMA WaitedShape ==
    ASSUME PlanShape, NEW p \in Plan
    PROVE  /\ Rescheduled(p) \in Plan /\ Rescheduled(p) = [p EXCEPT !.wait = nextWake(p)]
BY WakeShape DEF Rescheduled, Plan

LEMMA OlderShape ==
    ASSUME NEW p \in Plan
    PROVE  /\ Older(p) \in Plan /\ Older(p).cfg = p.cfg /\ Older(p).heading = p.heading
           /\ Older(p).wait = (IF p.wait = 0 THEN 0 ELSE p.wait - 1)
           /\ Older(p).since <= p.since + 1
<1>1. Min({p.since + 1, Late}) \in Nat /\ Min({p.since + 1, Late}) <= p.since + 1
  <2>1. Late \in Nat BY BeaconAssumption DEF Late
  <2> QED BY <2>1, MinOf DEF Plan
<1> DEFINE s == Min({p.since + 1, Late})
           w == IF p.wait = 0 THEN 0 ELSE p.wait - 1
<1>2. w \in Nat BY DEF Plan
<1>3. Older(p) = [p EXCEPT !.wait = w, !.since = s] BY DEF Older
<1> HIDE DEF s, w
<1>4. Older(p) \in Plan /\ Older(p).cfg = p.cfg /\ Older(p).heading = p.heading
      /\ Older(p).wait = w /\ Older(p).since = s
  <2>1. s \in Nat BY <1>1 DEF s
  <2> QED BY <1>2, <1>3, <2>1 DEF Plan
<1> QED BY <1>1, <1>4 DEF s, w

LEMMA NewShape == ASSUME NEW c \in Cfg PROVE NewPlan(c) \in Plan BY DEF NewPlan, Plan

LEMMA LeastElement ==
    ASSUME NEW T \in SUBSET Nat, T # {}
    PROVE  \E x \in T : \A y \in T : x <= y
<1>1. PICK x \in T : \A y \in T : ~(<<y, x>> \in OpToRel(<, Nat))
  BY NatLessThanWellFounded, WFMin
<1>2. \A y \in T : ~(y < x) BY <1>1 DEF OpToRel
<1> QED BY <1>2

LEMMA PeekIsFirst ==
    ASSUME PlanShape, DOMAIN plans # {}
    PROVE  Peek \in DOMAIN plans /\ \A c \in DOMAIN plans : plans[Peek].wait <= plans[c].wait
<1> DEFINE Waits == {plans[c].wait : c \in DOMAIN plans}
           First(w) == {c \in DOMAIN plans : plans[c].wait = w}
<1>1. \A c \in DOMAIN plans : c \in Nat /\ plans[c].wait \in Nat
  BY BeaconAssumption DEF PlanShape, Plan
<1>2. PICK w \in Waits : \A y \in Waits : w <= y
  <2>1. Waits \in SUBSET Nat /\ Waits # {} BY <1>1
  <2> QED BY <2>1, LeastElement
<1>3. PICK b \in First(w) : \A c \in First(w) : b <= c
  <2>1. First(w) \in SUBSET Nat /\ First(w) # {} BY <1>1, <1>2
  <2> QED BY <2>1, LeastElement
<1>4. b \in DOMAIN plans /\ \A c \in DOMAIN plans \ {b} : Less(b, c)
  <2> SUFFICES ASSUME NEW c \in DOMAIN plans \ {b} PROVE Less(b, c) BY <1>3
  <2>1. plans[b].wait = w /\ w <= plans[c].wait BY <1>2, <1>3
  <2>2. plans[c].wait = w => b < c BY <1>1, <1>3
  <2> QED BY <1>1, <2>1, <2>2 DEF Less
<1>5. Peek \in DOMAIN plans /\ \A c \in DOMAIN plans \ {Peek} : Less(Peek, c)
  BY <1>4 DEF Peek
<1> QED BY <1>1, <1>5 DEF Less

LEMMA PopShape ==
    ASSUME PlanShape, NEW b \in Beacons, Pop(b)
    PROVE  /\ b \in DOMAIN plans /\ plans[b].wait = 0 /\ DOMAIN plans' = DOMAIN plans
           /\ \A c \in DOMAIN plans \ {b} : plans'[c] = plans[c]
           /\ \/ plans'[b] = Rescheduled(Sent(plans[b])) /\ bent' = [bent EXCEPT ![b] = 0]
              \/ ~shouldFire(plans[b]) /\ plans'[b] = Rescheduled(plans[b]) /\ bent' = bent
<1>1. b \in DOMAIN plans BY PeekIsFirst DEF Pop
<1>2. CASE shouldFire(plans[b]) BY <1>1, <1>2 DEF Pop
<1>3. CASE ~shouldFire(plans[b]) BY <1>1, <1>3 DEF Pop
<1> QED BY <1>2, <1>3

LEMMA PlanShapeStep == ASSUME BeaconShapes, PlanShape, [BeaconNext]_beaconVars PROVE PlanShape'
<1> USE DEF saving, loading, world
<1>1. ASSUME UNCHANGED plans, fix' \in Fixes,
             UNCHANGED bound \/ bound' = [bound EXCEPT !.edits = @ - 1]
      PROVE  PlanShape'
  <2>1. DOMAIN bound' = DOMAIN bound /\ bound'.fixes = bound.fixes BY <1>1 DEF PlanShape
  <2> QED BY <1>1, <2>1 DEF PlanShape
<1>2. CASE Save \/ Loader
  <2>1. UNCHANGED <<plans, fix>>
    BY <1>2 DEF Save, Loader, LoaderTakes, LoadRows, LoadSmart, SetBeacons, Reload
  <2>2. UNCHANGED bound \/ bound' = [bound EXCEPT !.edits = @ - 1]
    BY <1>2 DEF Save, Loader, LoaderTakes, LoadRows, LoadSmart, SetBeacons, Reload, Edit
  <2> QED BY <1>1, <2>1, <2>2 DEF PlanShape
<1>3. CASE RunLoop
  <2>1. CASE TakeReload \/ NoReload \/ Sleep \/ Wake
    BY <1>1, <2>1 DEF TakeReload, NoReload, Sleep, Wake, PlanShape
  <2>2. CASE buildHeap
    <3>1. DOMAIN plans' \subseteq DOMAIN beacons
          /\ \A b \in DOMAIN plans' : plans'[b] = NewPlan(beacons[b])
      BY <2>2 DEF buildHeap, PlansOf
    <3>2. \A b \in DOMAIN plans' : b \in Beacons /\ plans'[b] \in Plan
      BY <3>1, NewShape DEF BeaconShapes, ListShape
    <3> QED BY <2>2, <3>2 DEF buildHeap, PlanShape
  <2>3. ASSUME NEW b \in Beacons, Pop(b) PROVE PlanShape'
    <3>1. plans'[b] \in Plan
      BY <2>3, PopShape, SentShape, WaitedShape DEF PlanShape
    <3>2. \A c \in DOMAIN plans : plans'[c] \in Plan BY <2>3, <3>1, PopShape DEF PlanShape
    <3> QED BY <2>3, <3>2, PopShape DEF Pop, PlanShape
  <2> QED BY <1>3, <2>1, <2>2, <2>3 DEF RunLoop
<1>4. CASE Update
  <2>1. UNCHANGED <<plans, bound>> /\ fix' \in bound.fixes BY <1>4 DEF Update
  <2> QED BY <1>1, <2>1 DEF PlanShape
<1>5. CASE Tick
  <2>1. UNCHANGED <<fix, bound>> /\ plans' = [b \in DOMAIN plans |-> Older(plans[b])]
    BY <1>5 DEF Tick
  <2> QED BY <2>1, OlderShape DEF PlanShape
<1>6. ASSUME NEW s \in Slots, Worker(s) PROVE PlanShape'
  BY <1>1, <1>6 DEF Worker, Build, SubmitRF, SendIS, JobGoes, PlanShape
<1>7. CASE Cancel \/ (\E which \in {"rows", "smart"} : Signal(which)) \/ UNCHANGED beaconVars
  BY <1>1, <1>7 DEF Cancel, Signal, beaconVars, PlanShape
<1> QED BY <1>2, <1>3, <1>4, <1>5, <1>6, <1>7 DEF BeaconNext

LEMMA HeapFreshStep ==
    ASSUME BeaconShapes, PlanShape, HeapFresh, [BeaconNext]_beaconVars PROVE HeapFresh'
<1> USE DEF saving, loading, world, HeapFresh
<1>1. CASE Save BY <1>1 DEF Save
<1>2. ASSUME NEW which \in {"rows", "smart"}, Signal(which) PROVE HeapFresh'
  BY <1>2 DEF Signal
<1>3. CASE Loader
  <2> USE DEF BeaconShapes, LoaderShape
  <2>1. CASE LoaderTakes BY <2>1 DEF LoaderTakes
  <2>2. CASE LoadRows BY <2>2 DEF LoadRows
  <2>3. CASE LoadSmart BY <2>3 DEF LoadSmart
  <2>4. CASE SetBeacons BY <2>4 DEF SetBeacons
  <2>5. CASE Reload BY <2>5 DEF Reload
  <2> QED BY <1>3, <2>1, <2>2, <2>3, <2>4, <2>5 DEF Loader
<1>4. CASE RunLoop
  <2> USE DEF LoopTo
  <2>1. CASE TakeReload BY <2>1 DEF TakeReload
  <2>2. CASE buildHeap BY <2>2 DEF buildHeap, PlansOf, NewPlan
  <2>3. CASE NoReload \/ Sleep \/ Wake BY <2>3 DEF NoReload, Sleep, Wake
  <2>4. ASSUME NEW b \in Beacons, Pop(b) PROVE HeapFresh'
    <3>1. UNCHANGED <<beacons, reloadCh, loader>> /\ loop.pc = "look" BY <2>4 DEF Pop
    <3>2. DOMAIN plans' = DOMAIN plans BY <2>4, PopShape
    <3>3. plans'[b].cfg = plans[b].cfg
      <4>1. plans[b] \in Plan BY <2>4, PopShape DEF PlanShape
      <4>2. Rescheduled(plans[b]).cfg = plans[b].cfg BY <4>1, WaitedShape DEF Plan
      <4> QED BY <2>4, <4>1, <4>2, PopShape, SentShape
    <3>4. \A c \in DOMAIN plans : plans'[c].cfg = plans[c].cfg BY <2>4, <3>3, PopShape
    <3> QED BY <3>1, <3>2, <3>4
  <2> QED BY <1>4, <2>1, <2>2, <2>3, <2>4 DEF RunLoop
<1>5. CASE Cancel BY <1>5 DEF Cancel, LoopTo
<1>6. CASE Update BY <1>6 DEF Update
<1>7. CASE Tick
  <2>1. UNCHANGED <<beacons, reloadCh, loader>> /\ loop.pc = "sleep" /\ DOMAIN plans' = DOMAIN plans
    BY <1>7 DEF Tick
  <2>2. \A c \in DOMAIN plans : plans'[c].cfg = plans[c].cfg BY <1>7, OlderShape DEF Tick, PlanShape
  <2> QED BY <2>1, <2>2
<1>8. ASSUME NEW s \in Slots, Worker(s) PROVE HeapFresh'
  BY <1>8 DEF Worker, Build, SubmitRF, SendIS, JobGoes
<1>9. CASE UNCHANGED beaconVars BY <1>9 DEF beaconVars
<1> QED BY <1>1, <1>2, <1>3, <1>4, <1>5, <1>6, <1>7, <1>8, <1>9 DEF BeaconNext
-----------------------------------------------------------------------------
(* No plan is overdue.                                                      *)

DueBy(p) == IF p.cfg.smart THEN LongestRate ELSE p.cfg.every
InTime(p) == p.since + p.wait <= DueBy(p) /\ (p.cfg.smart => p.wait <= 1)
AlarmFirst ==
    /\ DOMAIN loop = {"pc", "alarm"}
    /\ loop.pc = "sleep" => /\ loop.alarm \in Nat
                            /\ \A b \in DOMAIN plans : loop.alarm <= plans[b].wait
\* A turn is looked at whenever the plan is popped.
TurnSeen(p, polls) ==
    polls >= 1 => /\ p.cfg.smart = TRUE /\ Turned(p) = TRUE
                  /\ p.wait >= 1 => p.since < TurnTime
                  /\ polls = 2 => p.since <= TurnTime
Timely ==
    /\ bent \in [Beacons -> 0 .. 2] /\ AlarmFirst
    /\ \A b \in DOMAIN plans : InTime(plans[b]) /\ TurnSeen(plans[b], bent[b])

LEMMA RestartsInTime ==
    ASSUME PlanShape, NEW p \in Plan
    PROVE  InTime(Rescheduled(Sent(p))) /\ TurnSeen(Rescheduled(Sent(p)), 0)
<1> DEFINE q == Rescheduled(Sent(p))
<1>1. q.since = 0 /\ q.wait = nextWake(p) /\ q.cfg = p.cfg BY SentShape
<1>2. nextWake(p) = (IF p.cfg.smart THEN 1 ELSE p.cfg.every) BY WakeShape
<1>3. LongestRate \in Nat /\ 1 <= LongestRate /\ (~p.cfg.smart => p.cfg.every \in Nat)
  BY BeaconAssumption DEF Plan, Cfg
<1> HIDE DEF q
<1>4. ASSUME p.cfg.smart PROVE InTime(q) BY <1>1, <1>2, <1>3, <1>4 DEF InTime, DueBy
<1>5. ASSUME ~p.cfg.smart PROVE InTime(q) BY <1>1, <1>2, <1>3, <1>5 DEF InTime, DueBy
<1>6. TurnSeen(q, 0) BY DEF TurnSeen
<1> QED BY <1>4, <1>5, <1>6 DEF q

LEMMA WaitsInTime ==
    ASSUME PlanShape, NEW p \in Plan, NEW polls \in 0 .. 2, TurnSeen(p, polls), ~shouldFire(p)
    PROVE  InTime(Rescheduled(p)) /\ TurnSeen(Rescheduled(p), polls)
<1> DEFINE q == Rescheduled(p)
<1>1. p.cfg.smart = TRUE /\ ~(p.since >= Interval) /\ (Turned(p) => ~(p.since >= TurnTime))
  BY DEF shouldFire, Plan, Cfg
<1>2. q = [p EXCEPT !.wait = 1] BY <1>1, WaitedShape, WakeShape
<1>3. q.since = p.since /\ q.wait = 1 /\ q.cfg = p.cfg /\ q.heading = p.heading
  BY <1>2 DEF Plan
<1>4. /\ p.since \in Nat /\ Interval \in Nat /\ LongestRate \in Nat /\ TurnTime \in Nat
      /\ Interval <= LongestRate
  BY FixShape, BeaconAssumption DEF Plan
<1> HIDE DEF q
<1>5. InTime(q) BY <1>1, <1>3, <1>4 DEF InTime, DueBy
<1>6. Turned(q) = Turned(p) BY <1>3 DEF Turned
<1>7. TurnSeen(q, polls)
  <2> SUFFICES ASSUME polls >= 1 PROVE TurnSeen(q, polls) BY DEF TurnSeen
  <2>1. Turned(p) = TRUE BY DEF TurnSeen
  <2>2. p.since < TurnTime BY <1>1, <1>4, <2>1
  <2> QED BY <1>1, <1>3, <1>4, <1>6, <2>1, <2>2 DEF TurnSeen
<1> QED BY <1>5, <1>7 DEF q

LEMMA AgesInTime ==
    ASSUME NEW p \in Plan, NEW polls \in 0 .. 2, InTime(p), TurnSeen(p, polls), p.wait >= 1,
           NEW next \in 0 .. 2,
           next # 0 => p.cfg.smart = TRUE /\ Turned(p) = TRUE /\ next <= polls + 1
    PROVE  InTime(Older(p)) /\ TurnSeen(Older(p), next)
<1> DEFINE q == Older(p)
<1>1. /\ q \in Plan /\ q.cfg = p.cfg /\ q.heading = p.heading
      /\ q.wait = p.wait - 1 /\ q.since <= p.since + 1
  BY OlderShape DEF Plan
<1>2. p.wait \in Nat /\ p.since \in Nat /\ q.wait \in Nat /\ q.since \in Nat BY <1>1 DEF Plan
<1>3. DueBy(q) = DueBy(p) /\ DueBy(p) \in Nat /\ TurnTime \in Nat
  BY <1>1, BeaconAssumption DEF DueBy, Plan, Cfg
<1>4. Turned(q) = Turned(p) BY <1>1 DEF Turned
<1> HIDE DEF q
<1>5. InTime(q)
  <2>1. q.since + q.wait <= DueBy(q) BY <1>1, <1>2, <1>3 DEF InTime
  <2>2. p.cfg.smart => q.wait <= 1 BY <1>1, <1>2 DEF InTime
  <2> QED BY <1>1, <2>1, <2>2 DEF InTime
<1>6. TurnSeen(q, next)
  <2> SUFFICES ASSUME next >= 1 PROVE TurnSeen(q, next) BY DEF TurnSeen
  <2>1. p.cfg.smart = TRUE /\ Turned(p) = TRUE /\ next <= polls + 1 OBVIOUS
  <2>2. q.wait = 0 BY <1>1, <1>2, <2>1 DEF InTime
  <2>3. next = 2 => p.since < TurnTime BY <2>1 DEF TurnSeen
  <2>4. next = 2 => q.since <= TurnTime BY <1>1, <1>2, <1>3, <2>3
  <2> QED BY <1>1, <1>4, <2>1, <2>2, <2>4 DEF TurnSeen
<1> QED BY <1>5, <1>6 DEF q

LEMMA TimelyStep == ASSUME BeaconShapes, PlanShape, Timely, [BeaconNext]_beaconVars PROVE Timely'
<1> USE DEF saving, loading, world
<1>1. ASSUME UNCHANGED <<plans, loop, bent, fix>> PROVE Timely'
  BY <1>1 DEF Timely, AlarmFirst, InTime, DueBy, TurnSeen, Turned
<1>2. ASSUME NEW pc, LoopTo(pc), pc # "sleep", UNCHANGED <<plans, bent, fix>> PROVE Timely'
  <2>1. AlarmFirst' BY <1>2 DEF LoopTo, AlarmFirst
  <2> QED BY <1>2, <2>1 DEF Timely, InTime, DueBy, TurnSeen, Turned
<1>3. CASE Save \/ Loader \/ \E which \in {"rows", "smart"} : Signal(which)
  <2>1. UNCHANGED <<plans, loop, bent, fix>>
    BY <1>3 DEF Save, Loader, LoaderTakes, LoadRows, LoadSmart, SetBeacons, Reload, Signal
  <2> QED BY <1>1, <2>1
<1>4. CASE RunLoop
  <2>1. CASE TakeReload BY <1>2, <2>1 DEF TakeReload
  <2>2. CASE buildHeap
    <3>1. \A b \in DOMAIN plans' : b \in DOMAIN beacons /\ plans'[b] = NewPlan(beacons[b])
      BY <2>2 DEF buildHeap, PlansOf
    <3>2. bent' = [b \in Beacons |-> 0] BY <2>2 DEF buildHeap
    <3>3. AlarmFirst' BY <2>2 DEF buildHeap, LoopTo, AlarmFirst
    <3>4. ASSUME NEW b \in DOMAIN plans' PROVE InTime(plans'[b]) /\ TurnSeen(plans[b], bent[b])'
      <4>1. beacons[b] \in Cfg /\ b \in Beacons BY <3>1, <3>4 DEF BeaconShapes, ListShape
      <4>2. plans'[b].since = 0 /\ plans'[b].wait = 0 /\ plans'[b].cfg = beacons[b]
        BY <3>1, <3>4 DEF NewPlan
      <4>3. DueBy(plans'[b]) \in Nat BY <4>1, <4>2, BeaconAssumption DEF DueBy, Cfg
      <4> QED BY <3>2, <4>1, <4>2, <4>3 DEF InTime, TurnSeen
    <3> QED BY <3>2, <3>3, <3>4 DEF Timely, InTime, DueBy
  <2>3. CASE NoReload BY <1>2, <2>3 DEF NoReload
  <2>4. ASSUME NEW b \in Beacons, Pop(b) PROVE Timely'
    <3>1. UNCHANGED fix /\ LoopTo("top") BY <2>4 DEF Pop
    <3>2. AlarmFirst' BY <3>1 DEF LoopTo, AlarmFirst
    <3>3. /\ plans[b] \in Plan /\ bent[b] \in 0 .. 2 /\ b \in DOMAIN plans
          /\ TurnSeen(plans[b], bent[b])
      BY <2>4, PopShape DEF PlanShape, Timely
    <3>4. bent' \in [Beacons -> 0 .. 2] /\ InTime(plans'[b]) /\ TurnSeen(plans'[b], bent'[b])
          /\ \A c \in DOMAIN plans \ {b} : bent'[c] = bent[c]
      <4>1. CASE plans'[b] = Rescheduled(Sent(plans[b])) /\ bent' = [bent EXCEPT ![b] = 0]
        <5>1. bent' \in [Beacons -> 0 .. 2] /\ bent'[b] = 0
              /\ \A c \in DOMAIN plans \ {b} : bent'[c] = bent[c]
          BY <4>1 DEF Timely, PlanShape
        <5> QED BY <3>3, <4>1, <5>1, RestartsInTime
      <4>2. CASE ~shouldFire(plans[b]) /\ plans'[b] = Rescheduled(plans[b]) /\ bent' = bent
        <5>1. bent' \in [Beacons -> 0 .. 2] BY <4>2 DEF Timely
        <5> QED BY <3>3, <4>2, <5>1, WaitsInTime
      <4> QED BY <2>4, <4>1, <4>2, PopShape
    <3>5. ASSUME NEW c \in DOMAIN plans' PROVE InTime(plans'[c]) /\ TurnSeen(plans'[c], bent'[c])
      <4>1. CASE c = b BY <3>4, <4>1
      <4>2. CASE c # b
        <5>1. c \in DOMAIN plans /\ plans'[c] = plans[c] /\ bent'[c] = bent[c]
          BY <2>4, <3>4, <3>5, <4>2, PopShape
        <5> QED BY <5>1 DEF Timely
      <4> QED BY <4>1, <4>2
    <3>6. \A p, n : TurnSeen(p, n)' = TurnSeen(p, n) BY <3>1 DEF TurnSeen, Turned
    <3> QED BY <3>1, <3>2, <3>4, <3>5 DEF Timely, TurnSeen, Turned, InTime, DueBy
  <2>5. CASE Sleep
    <3>1. CASE DOMAIN plans = {} BY <1>2, <2>5, <3>1 DEF Sleep
    <3>2. CASE DOMAIN plans # {}
      <4>1. loop' = [pc |-> "sleep", alarm |-> plans[Peek].wait] /\ UNCHANGED <<plans, bent, fix>>
        BY <2>5, <3>2 DEF Sleep
      <4>2. plans[Peek].wait \in Nat BY <3>2, PeekIsFirst DEF PlanShape, Plan
      <4>3. AlarmFirst' BY <3>2, <4>1, <4>2, PeekIsFirst DEF AlarmFirst
      <4> QED BY <4>1, <4>3 DEF Timely, InTime, DueBy, TurnSeen, Turned
    <3> QED BY <3>1, <3>2
  <2>6. CASE Wake BY <1>2, <2>6 DEF Wake
  <2> QED BY <1>4, <2>1, <2>2, <2>3, <2>4, <2>5, <2>6 DEF RunLoop
<1>5. CASE Cancel BY <1>2, <1>5 DEF Cancel
<1>6. CASE Update
  <2>1. UNCHANGED <<plans, loop>> /\ bent' = [b \in Beacons |-> 0] BY <1>6 DEF Update
  <2>2. \A b \in DOMAIN plans : bent'[b] = 0 BY <2>1 DEF PlanShape
  <2>3. bent' \in [Beacons -> 0 .. 2] BY <2>1
  <2> QED BY <2>1, <2>2, <2>3 DEF Timely, AlarmFirst, InTime, DueBy, TurnSeen
<1>7. CASE Tick
  <2>1. /\ loop.pc = "sleep" /\ loop.alarm > 0 /\ UNCHANGED fix
        /\ loop' = [loop EXCEPT !.alarm = @ - 1]
        /\ plans' = [b \in DOMAIN plans |-> Older(plans[b])]
        /\ bent' = [b \in Beacons |->
                        IF b \in DOMAIN plans /\ plans[b].cfg.smart /\ Turned(plans[b])
                        THEN Min({bent[b] + 1, 2}) ELSE 0]
    BY <1>7 DEF Tick
  <2>2. ASSUME NEW b \in Beacons
        PROVE  /\ bent'[b] \in 0 .. 2
               /\ bent'[b] # 0 => /\ b \in DOMAIN plans /\ plans[b].cfg.smart /\ Turned(plans[b])
                                  /\ bent'[b] <= bent[b] + 1
    <3>1. bent[b] \in 0 .. 2 BY DEF Timely
    <3>2. Min({bent[b] + 1, 2}) \in 0 .. 2 /\ Min({bent[b] + 1, 2}) <= bent[b] + 1 BY <3>1, MinOf
    <3> QED BY <2>1, <3>2
  <2>3. bent' \in [Beacons -> 0 .. 2] BY <2>1, <2>2
  <2>4. ASSUME NEW b \in DOMAIN plans
        PROVE  /\ plans[b] \in Plan /\ b \in Beacons
               /\ plans[b].wait >= 1 /\ loop.alarm <= plans[b].wait
               /\ plans'[b] = Older(plans[b])
    <3>1. plans[b] \in Plan /\ b \in Beacons BY DEF PlanShape
    <3>2. loop.alarm \in Nat /\ loop.alarm <= plans[b].wait BY <2>1 DEF Timely, AlarmFirst
    <3>3. plans[b].wait \in Nat BY <3>1 DEF Plan
    <3> QED BY <2>1, <3>1, <3>2, <3>3
  <2>5. AlarmFirst'
    <3>1. DOMAIN loop' = {"pc", "alarm"} /\ loop'.alarm = loop.alarm - 1
      BY <2>1 DEF Timely, AlarmFirst
    <3>2. loop.alarm \in Nat BY <2>1 DEF Timely, AlarmFirst
    <3>3. ASSUME NEW b \in DOMAIN plans PROVE loop'.alarm <= plans'[b].wait
      <4>1. plans[b].wait \in Nat BY <2>4 DEF Plan
      <4>2. plans'[b].wait = plans[b].wait - 1 BY <2>4, <4>1, OlderShape
      <4> QED BY <2>1, <2>4, <3>1, <3>2, <4>1, <4>2
    <3> QED BY <2>1, <3>1, <3>2, <3>3 DEF AlarmFirst
  <2>6. ASSUME NEW b \in DOMAIN plans PROVE InTime(plans'[b]) /\ TurnSeen(plans'[b], bent'[b])
    <3>1. bent[b] \in 0 .. 2 /\ InTime(plans[b]) /\ TurnSeen(plans[b], bent[b]) BY <2>4 DEF Timely
    <3>2. bent'[b] \in 0 .. 2 BY <2>2, <2>4
    <3>3. bent'[b] # 0 => plans[b].cfg.smart = TRUE BY <2>2, <2>4
    <3>4. bent'[b] # 0 => Turned(plans[b]) = TRUE BY <2>2, <2>4 DEF Turned
    <3>5. bent'[b] # 0 => bent'[b] <= bent[b] + 1 BY <2>2, <2>4
    <3> QED BY <2>4, <3>1, <3>2, <3>3, <3>4, <3>5, AgesInTime
  <2>7. DOMAIN plans' = DOMAIN plans BY <2>1
  <2> QED BY <2>1, <2>3, <2>5, <2>6, <2>7 DEF Timely, TurnSeen, Turned, InTime, DueBy
<1>8. ASSUME NEW s \in Slots, Worker(s) PROVE Timely'
  BY <1>1, <1>8 DEF Worker, Build, SubmitRF, SendIS, JobGoes
<1>9. CASE UNCHANGED beaconVars BY <1>1, <1>9 DEF beaconVars
<1> QED BY <1>3, <1>4, <1>5, <1>6, <1>7, <1>8, <1>9 DEF BeaconNext
-----------------------------------------------------------------------------
BeaconInv == BeaconShapes /\ PlanShape /\ ReadFresh /\ HeapFresh /\ Timely

LEMMA BeaconInvInit == BeaconInit => BeaconInv
<1> SUFFICES ASSUME BeaconInit PROVE BeaconInv OBVIOUS
<1>1. PICK w \in Workloads :
          /\ store = [rows |-> w.rows, smart |-> w.smart]
          /\ bound = [edits |-> w.edits, fixes |-> w.fixes] /\ fix \in w.fixes
  BY DEF BeaconInit
<1>2. w.rows \in [Beacons -> Rows] /\ w.smart \in BOOLEAN /\ w.fixes \subseteq Fixes
  BY BeaconAssumption
<1>3. /\ store \in [rows : [Beacons -> Rows], smart : BOOLEAN]
      /\ store.rows = w.rows /\ store.smart = w.smart
  BY <1>1, <1>2
<1>4. StoreShape BY <1>3 DEF BeaconInit, StoreShape
<1>5. LoaderShape BY DEF BeaconInit, LoaderShape
<1>6. ListShape
  <2>1. \A b \in DOMAIN store.rows : b \in Beacons /\ store.rows[b] \in Row
    BY <1>2, <1>3, BeaconAssumption
  <2> QED BY <1>2, <1>3, <2>1, ConfigsShape DEF BeaconInit, ListShape
<1>7. /\ DOMAIN plans = {d \in DOMAIN beacons : beacons[d].on}
      /\ \A b \in DOMAIN plans : plans[b] = NewPlan(beacons[b])
  BY DEF BeaconInit, PlansOf
<1>8. \A b \in DOMAIN plans :
          plans[b].cfg = beacons[b] /\ plans[b].since = 0 /\ plans[b].wait = 0
  <2>1. \A c : NewPlan(c).cfg = c /\ NewPlan(c).since = 0 /\ NewPlan(c).wait = 0 BY DEF NewPlan
  <2> QED BY <1>7, <2>1
<1>9. PlanShape
  <2>1. \A b \in DOMAIN plans : b \in Beacons /\ plans[b] \in Plan
    BY <1>6, <1>7, NewShape DEF ListShape
  <2>2. DOMAIN bound = {"edits", "fixes"} /\ bound.fixes \subseteq Fixes /\ fix \in Fixes
    BY <1>1, <1>2
  <2> QED BY <2>1, <2>2 DEF PlanShape
<1>10. ReadFresh BY DEF BeaconInit, ReadFresh
<1>11. HeapFresh BY <1>7, <1>8 DEF HeapFresh
<1>12. Timely
  <2>1. bent = [b \in Beacons |-> 0] /\ AlarmFirst BY DEF BeaconInit, AlarmFirst
  <2>2. ASSUME NEW b \in DOMAIN plans PROVE InTime(plans[b]) /\ TurnSeen(plans[b], bent[b])
    <3>1. beacons[b] \in Cfg /\ b \in Beacons BY <1>6, <1>7 DEF ListShape
    <3>2. plans[b].since = 0 /\ plans[b].wait = 0 /\ plans[b].cfg = beacons[b]
      BY <1>8
    <3>3. DueBy(plans[b]) \in Nat BY <3>1, <3>2, BeaconAssumption DEF DueBy, Cfg
    <3> QED BY <2>1, <3>1, <3>2, <3>3 DEF InTime, TurnSeen
  <2> QED BY <2>1, <2>2 DEF Timely
<1> QED BY <1>4, <1>5, <1>6, <1>9, <1>10, <1>11, <1>12 DEF BeaconInv, BeaconShapes

LEMMA BeaconInvAlways == BeaconSpec => []BeaconInv
<1>1. BeaconInv /\ [BeaconNext]_beaconVars => BeaconInv'
  BY BeaconShapesStep, PlanShapeStep, ReadFreshStep, HeapFreshStep, TimelyStep DEF BeaconInv
<1> QED BY <1>1, BeaconInvInit, PTL DEF BeaconSpec

\* No save is lost in the channels that coalesce: once every signal has been taken, the heap
\* is built from the rows and the smart-beacon switch as they are in the store, unless the
\* last read failed (wiring.go:2505-2530, 2547-2556, scheduler.go:156-165).
THEOREM SavesTakeEffect == BeaconSpec => []Fresh
<1>1. BeaconInv => Fresh
  <2> SUFFICES ASSUME BeaconInv, Settled, loader.failed = "none"
               PROVE  /\ DOMAIN plans = {b \in Beacons : store.rows[b].on}
                      /\ \A b \in DOMAIN plans : plans[b].cfg = Config(store.rows[b], store.smart)
    BY DEF Fresh
  <2>1. beacons = Configs(store.rows, store.smart)
    BY DEF BeaconInv, Settled, ReadFresh, OnTheWay, BeaconShapes, LoaderShape
  <2>2. /\ DOMAIN plans = {b \in DOMAIN beacons : beacons[b].on}
        /\ \A b \in DOMAIN plans : plans[b].cfg = beacons[b]
    BY DEF BeaconInv, Settled, HeapFresh
  <2>3. DOMAIN store.rows = Beacons BY DEF BeaconInv, BeaconShapes, StoreShape
  <2>4. /\ DOMAIN beacons = Beacons
        /\ \A b \in Beacons : beacons[b] = Config(store.rows[b], store.smart)
    BY <2>1, <2>3 DEF Configs
  <2>5. \A b \in Beacons : beacons[b].on = store.rows[b].on BY <2>4 DEF Config
  <2> QED BY <2>2, <2>4, <2>5
<1> QED BY <1>1, BeaconInvAlways, PTL

\* No plan waits behind another, for any number of beacons, workers and GPS fixes: a fixed
\* beacon is due again within its interval, a tracker within the longest interval of its
\* curve, and a turn is reported as soon as the turn time is over (scheduler.go:183-235,
\* 282-330).
THEOREM NoBeaconLate == BeaconSpec => []Punctual
<1>1. BeaconInv => Punctual
  <2> SUFFICES ASSUME BeaconInv, NEW b \in DOMAIN plans
               PROVE  /\ plans[b].since
                             <= IF plans[b].cfg.smart THEN LongestRate ELSE plans[b].cfg.every
                      /\ bent[b] = 2 => plans[b].since <= TurnTime
    BY DEF Punctual
  <2>1. plans[b].wait \in Nat /\ plans[b].since \in Nat BY DEF BeaconInv, PlanShape, Plan
  <2>2. DueBy(plans[b]) \in Nat BY BeaconAssumption DEF BeaconInv, PlanShape, Plan, Cfg, DueBy
  <2>3. plans[b].since + plans[b].wait <= DueBy(plans[b]) BY DEF BeaconInv, Timely, InTime
  <2>4. plans[b].since <= DueBy(plans[b]) BY <2>1, <2>2, <2>3
  <2>5. bent[b] = 2 => plans[b].since <= TurnTime BY DEF BeaconInv, Timely, TurnSeen
  <2> QED BY <2>4, <2>5 DEF DueBy
<1> QED BY <1>1, BeaconInvAlways, PTL
=============================================================================
