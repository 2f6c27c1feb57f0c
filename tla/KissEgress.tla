----------------------------- MODULE KissEgress -----------------------------
(***************************************************************************)
(* The way of a frame out through a KISS TNC: the dispatcher the governor  *)
(* sends to (pkg/app/txbackend), its registry of backends and the watcher  *)
(* that rebuilds it, and the KISS manager (pkg/kiss) with one interface    *)
(* row that the operator saves, enables and disables.  Each start of the   *)
(* row makes an instance: a supervisor that opens the link and backs off,  *)
(* and a bounded queue with a writer of its own.                           *)
(***************************************************************************)
EXTENDS Naturals, FiniteSets

CONSTANTS
    Kinds,      \* kinds of the interface: a subset of {"tcp-client", "serial"}
    Handlers,   \* config-write requests that may run at the same time
    QueueDepth, \* instanceTxQueueDepth
    MaxSaves,   \* bound: saves of the row, and so starts of the interface
    MaxFrames,  \* bound: frames the governor sends
    MaxFaults   \* bound: failed dials and opens, broken links

ASSUME KissAssumption ==
    /\ Kinds \subseteq {"tcp-client", "serial"} /\ QueueDepth \in Nat \ {0}
    /\ MaxSaves \in Nat /\ MaxFrames \in Nat /\ MaxFaults \in Nat

VARIABLES
    kind,       \* of the row, fixed
    row,        \* whether the saved row is enabled
    handler,    \* of each request: where it is, what it saved, the instance it stops or starts
    running,    \* manager.running of the row: an instance, or 0
    inst,       \* the instances, by number
    starts,     \* instances made so far
    signalled,  \* whether the watcher's channel, of capacity one, is full
    watcher,    \* where the watcher is, with what it has read
    snapshot,   \* the queue the published snapshot holds for the row's channel, or 0
    sender,     \* the governor's Send: where it is, and on which queue
    saves, frames, faults       \* so far

vars == <<kind, row, handler, running, inst, starts, signalled, watcher, snapshot, sender,
          saves, frames, faults>>
manager == <<row, handler, running, starts, saves>>
registry == <<watcher, snapshot>>
sending == <<sender, frames>>

Starts == 1 .. MaxSaves
Absent == [sup |-> "absent", cancelled |-> FALSE, published |-> FALSE, link |-> "none",
           stopped |-> FALSE, writer |-> "idle", queued |-> 0]
Resting == [pc |-> "idle", on |-> FALSE, at |-> 0]

Init ==
    /\ kind \in Kinds
    /\ row = FALSE /\ handler = [h \in Handlers |-> Resting]
    /\ running = 0 /\ inst = [i \in Starts |-> Absent] /\ starts = 0
    /\ signalled = FALSE /\ watcher = [pc |-> "idle", on |-> FALSE, queue |-> 0] /\ snapshot = 0
    /\ sender = [pc |-> "idle", at |-> 0]
    /\ saves = 0 /\ frames = 0 /\ faults = 0

Set(i, field, value) == inst' = [inst EXCEPT ![i][field] = value]
Fault == faults < MaxFaults /\ faults' = faults + 1

-----------------------------------------------------------------------------
(* A config write: webapi's handlers, notifyKissManager, Manager.StartClient *)
(* and Manager.StartSerial, Manager.Stop, stopManaged.                       *)

At(h, pc) == handler[h].pc = pc
Goto(h, pc) == handler' = [handler EXCEPT ![h].pc = pc]

SaveRow(h) ==
    /\ At(h, "idle") /\ saves < MaxSaves
    /\ \E on \in BOOLEAN :
        /\ row' = on
        /\ handler' = [handler EXCEPT ![h] = [pc |-> "apply", on |-> on, at |-> 0]]
    /\ saves' = saves + 1
    /\ UNCHANGED <<kind, running, inst, starts, signalled, registry, sending, faults>>

\* The instance in running is taken out under the lock, and stopped without it.
TakeOut(h) ==
    /\ At(h, "apply") /\ running # 0
    /\ handler' = [handler EXCEPT ![h].pc = "stop", ![h].at = running]
    /\ running' = 0
    /\ UNCHANGED <<kind, row, saves, inst, starts, signalled, registry, sending, faults>>
NothingRuns(h) ==
    /\ At(h, "apply") /\ running = 0 /\ ~handler[h].on
    /\ Goto(h, "notify")
    /\ UNCHANGED <<kind, row, running, saves, inst, starts, signalled, registry, sending, faults>>
StopCancels_Only(h) ==
    /\ At(h, "stop") /\ Set(handler[h].at, "cancelled", TRUE)
    /\ Goto(h, IF handler[h].on THEN "insert" ELSE "notify")
    /\ UNCHANGED <<kind, row, running, saves, starts, signalled, registry, sending, faults>>
StopCancels(h) ==
    /\ At(h, "stop") /\ Set(handler[h].at, "cancelled", TRUE)
    /\ Goto(h, "wait")
    /\ UNCHANGED <<kind, row, running, saves, starts, signalled, registry, sending, faults>>
StopEnds(h) ==
    /\ At(h, "wait") /\ inst[handler[h].at].sup = "done"
    /\ Goto(h, IF handler[h].on THEN "insert" ELSE "notify")
    /\ UNCHANGED <<kind, row, running, saves, inst, starts, signalled, registry, sending, faults>>

\* A new instance enters running, whatever is there by now; a client's queue is
\* published in a later section.
Insert(h) ==
    /\ At(h, "insert") \/ (At(h, "apply") /\ running = 0 /\ handler[h].on)
    /\ starts' = starts + 1 /\ running' = starts'
    /\ inst' = [inst EXCEPT ![starts'] = [Absent EXCEPT !.sup = "made", !.published = kind = "serial"]]
    /\ handler' = [handler EXCEPT ![h].pc = "launch", ![h].at = starts']
    /\ UNCHANGED <<kind, row, saves, signalled, registry, sending, faults>>
Launch(h) ==
    /\ At(h, "launch")
    /\ inst' = [inst EXCEPT ![handler[h].at].sup = "loop", ![handler[h].at].published = TRUE]
    /\ Goto(h, "notify")
    /\ UNCHANGED <<kind, row, running, saves, starts, signalled, registry, sending, faults>>
Notify(h) ==
    /\ At(h, "notify") /\ handler' = [handler EXCEPT ![h] = Resting]
    /\ signalled' = TRUE
    /\ UNCHANGED <<kind, row, running, saves, inst, starts, registry, sending, faults>>

-----------------------------------------------------------------------------
(* The supervisor of an instance: Client.run, SerialSupervisor.run.  Every  *)
(* change of its state nudges the watcher.                                 *)

Nudge == signalled' = TRUE
Closing == IF kind = "serial" THEN "done" ELSE "closing"

\* The loop's test of the context, also at the end of the backoff wait.
Loop(i) ==
    /\ inst[i].sup \in {"loop", "backoff"}
    /\ Set(i, "sup", IF inst[i].cancelled THEN Closing ELSE "opening") /\ Nudge
    /\ UNCHANGED <<kind, manager, registry, sending, faults>>
OpenFails_GivesUp(i) ==
    /\ inst[i].sup = "opening"
    /\ Set(i, "sup", Closing) /\ Nudge
    /\ IF inst[i].cancelled THEN UNCHANGED faults ELSE Fault
    /\ UNCHANGED <<kind, manager, registry, sending>>
OpenFails(i) ==
    /\ inst[i].sup = "opening"
    /\ Set(i, "sup", IF inst[i].cancelled THEN Closing ELSE "backoff") /\ Nudge
    /\ IF inst[i].cancelled THEN UNCHANGED faults ELSE Fault
    /\ UNCHANGED <<kind, manager, registry, sending>>
Opens(i) ==
    /\ inst[i].sup = "opening" /\ ~inst[i].cancelled
    /\ inst' = [inst EXCEPT ![i].sup = "up", ![i].link = "open"] /\ Nudge
    /\ UNCHANGED <<kind, manager, registry, sending, faults>>
\* The read loop ends with the link, which a cancelled context closes.
LinkEnds_Deaf(i) ==
    /\ inst[i].sup = "up" /\ inst[i].link = "broken"
    /\ inst' = [inst EXCEPT ![i].sup = IF inst[i].cancelled THEN Closing ELSE "backoff",
                            ![i].link = "none"]
    /\ Nudge
    /\ UNCHANGED <<kind, manager, registry, sending, faults>>
LinkEnds(i) ==
    /\ inst[i].sup = "up" /\ (inst[i].cancelled \/ inst[i].link = "broken")
    /\ inst' = [inst EXCEPT ![i].sup = IF inst[i].cancelled THEN Closing ELSE "backoff",
                            ![i].link = "none"]
    /\ Nudge
    /\ UNCHANGED <<kind, manager, registry, sending, faults>>
\* instanceTxQueue.Close: no more frames, and a wait for the writer.
CloseQueue(i) ==
    /\ inst[i].sup = "closing" /\ ~inst[i].stopped
    /\ Set(i, "stopped", TRUE)
    /\ UNCHANGED <<kind, manager, signalled, registry, sending, faults>>
Joined(i) ==
    /\ inst[i].sup = "closing" /\ inst[i].stopped /\ inst[i].writer = "gone"
    /\ Set(i, "sup", "done")
    /\ UNCHANGED <<kind, manager, signalled, registry, sending, faults>>
PeerBreaks(i) ==
    /\ inst[i].link = "open" /\ Set(i, "link", "broken") /\ Fault
    /\ UNCHANGED <<kind, manager, signalled, registry, sending>>

-----------------------------------------------------------------------------
(* The queue's writer: drain, writeFrame, TxBroadcast.                     *)

Told(i) == IF kind = "serial" THEN inst[i].cancelled ELSE inst[i].stopped
WriterTakes(i) ==
    /\ inst[i].sup # "absent" /\ inst[i].writer = "idle" /\ inst[i].queued > 0
    /\ inst' = [inst EXCEPT ![i].writer = "writing", ![i].queued = @ - 1]
    /\ UNCHANGED <<kind, manager, signalled, registry, sending, faults>>
\* With the context done and a frame at hand, either may come first.
WriterEnds(i) ==
    /\ inst[i].sup # "absent" /\ inst[i].writer = "idle" /\ Told(i)
    /\ Set(i, "writer", "gone")
    /\ UNCHANGED <<kind, manager, signalled, registry, sending, faults>>
Writes(i) ==
    /\ inst[i].writer = "writing" /\ inst[i].link = "open"
    /\ Set(i, "writer", "idle")
    /\ UNCHANGED <<kind, manager, signalled, registry, sending, faults>>
\* No link, or a broken one, which is closed: the frame is dropped.
WriteFails_Fatal(i) ==
    /\ inst[i].writer = "writing" /\ inst[i].link # "open"
    /\ Set(i, "writer", "gone")
    /\ UNCHANGED <<kind, manager, signalled, registry, sending, faults>>
WriteFails(i) ==
    /\ inst[i].writer = "writing" /\ inst[i].link # "open"
    /\ Set(i, "writer", "idle")
    /\ UNCHANGED <<kind, manager, signalled, registry, sending, faults>>

-----------------------------------------------------------------------------
(* The registry's watcher, and the governor's Send.                        *)

WatcherReadsRows ==
    /\ watcher.pc = "idle" /\ signalled /\ signalled' = FALSE
    /\ watcher' = [pc |-> "rows", on |-> row, queue |-> 0]
    /\ UNCHANGED <<kind, manager, inst, snapshot, sending, faults>>
\* InstanceQueueFor the row, if it is enabled.
WatcherReadsQueue ==
    /\ watcher.pc = "rows"
    /\ watcher' = [watcher EXCEPT !.pc = "built",
                                  !.queue = IF watcher.on /\ running # 0 /\ inst[running].published
                                            THEN running ELSE 0]
    /\ UNCHANGED <<kind, manager, inst, signalled, snapshot, sending, faults>>
WatcherPublishes_Drains ==
    /\ watcher.pc = "built"
    /\ snapshot' = watcher.queue /\ watcher' = [pc |-> "idle", on |-> FALSE, queue |-> 0]
    /\ signalled' = FALSE
    /\ UNCHANGED <<kind, manager, inst, sending, faults>>
WatcherPublishes ==
    /\ watcher.pc = "built"
    /\ snapshot' = watcher.queue /\ watcher' = [pc |-> "idle", on |-> FALSE, queue |-> 0]
    /\ UNCHANGED <<kind, manager, inst, signalled, sending, faults>>

\* Dispatcher.Send loads the snapshot; a channel without a backend loses the frame.
SendLoads ==
    /\ sender.pc = "idle" /\ frames < MaxFrames /\ frames' = frames + 1
    /\ sender' = IF snapshot = 0 THEN sender ELSE [pc |-> "check", at |-> snapshot]
    /\ UNCHANGED <<kind, manager, inst, signalled, registry, faults>>
\* Enqueue looks at stopped, and then tries the channel.
EnqueueChecks ==
    /\ sender.pc = "check"
    /\ sender' = IF inst[sender.at].stopped THEN [pc |-> "idle", at |-> 0]
                 ELSE [sender EXCEPT !.pc = "push"]
    /\ UNCHANGED <<kind, manager, inst, signalled, registry, frames, faults>>
EnqueuePushes ==
    /\ sender.pc = "push" /\ sender' = [pc |-> "idle", at |-> 0]
    /\ IF inst[sender.at].queued < QueueDepth
       THEN Set(sender.at, "queued", inst[sender.at].queued + 1)
       ELSE UNCHANGED inst
    /\ UNCHANGED <<kind, manager, signalled, registry, frames, faults>>

Handler(h) == \/ TakeOut(h) \/ NothingRuns(h) \/ StopCancels(h) \/ StopEnds(h)
              \/ Insert(h) \/ Launch(h) \/ Notify(h)
Supervisor(i) == Loop(i) \/ OpenFails(i) \/ Opens(i) \/ LinkEnds(i) \/ CloseQueue(i) \/ Joined(i)
Writer(i) == WriterTakes(i) \/ WriterEnds(i) \/ Writes(i) \/ WriteFails(i)
Watcher == WatcherReadsRows \/ WatcherReadsQueue \/ WatcherPublishes
Send == SendLoads \/ EnqueueChecks \/ EnqueuePushes
Next == \/ \E h \in Handlers : SaveRow(h) \/ Handler(h)
        \/ \E i \in Starts : Supervisor(i) \/ PeerBreaks(i) \/ Writer(i)
        \/ Watcher \/ Send

Spec == Init /\ [][Next]_vars
\* Every goroutine goes on while it can: a dial and a write end by their deadlines.
FairSpec ==
    /\ Spec /\ WF_vars(Watcher) /\ WF_vars(EnqueueChecks \/ EnqueuePushes)
    /\ \A h \in Handlers : WF_vars(Handler(h))
    /\ \A i \in Starts : WF_vars(Supervisor(i)) /\ WF_vars(Writer(i))

-----------------------------------------------------------------------------
TypeOK ==
    /\ kind \in Kinds /\ row \in BOOLEAN
    /\ handler \in [Handlers -> [pc : {"idle", "apply", "stop", "wait", "insert", "launch", "notify"},
                                 on : BOOLEAN, at : {0} \cup Starts]]
    /\ running \in 0 .. starts /\ starts \in 0 .. saves
    /\ inst \in [Starts -> [sup : {"absent", "made", "loop", "opening", "up", "backoff", "closing", "done"},
                            cancelled : BOOLEAN, published : BOOLEAN,
                            link : {"none", "open", "broken"}, stopped : BOOLEAN,
                            writer : {"idle", "writing", "gone"}, queued : 0 .. QueueDepth]]
    /\ \A i \in Starts : (inst[i].link # "none") = (inst[i].sup = "up")
    /\ signalled \in BOOLEAN
    /\ watcher \in [pc : {"idle", "rows", "built"}, on : BOOLEAN, queue : 0 .. starts]
    /\ snapshot \in 0 .. starts
    /\ sender \in [pc : {"idle", "check", "push"}, at : 0 .. starts]
    /\ saves \in 0 .. MaxSaves /\ frames \in 0 .. MaxFrames /\ faults \in 0 .. MaxFaults

\* One interface row drives one supervisor: an instance that is replaced has let go of
\* its device or socket before the next one opens it (manager.go:263-275, 416-423,
\* 533-540).
Alive(i) == inst[i].sup \notin {"absent", "made", "done"}
OneSupervisor == \A i, j \in Starts : Alive(i) /\ Alive(j) => i = j

\* Once a save has been applied and the watcher has caught up, the governor's frames go
\* to the queue of the instance that runs, and to none when the row is disabled
\* (dispatcher.go:243-264, wiring.go:2173-2237).
AtRest == /\ \A h \in Handlers : At(h, "idle")
          /\ ~signalled /\ watcher.pc = "idle"
SnapshotFresh == AtRest => snapshot = running /\ (running # 0) = row

\* A config write is not held up for ever by the instance it stops: neither by a link
\* that is up nor by frames waiting to be written (manager.go:658-669, tx_queue.go:130-136).
StopReturns == \A h \in Handlers : At(h, "wait") ~> ~At(h, "wait")

\* A frame the queue has taken is written or dropped, through any breaks of the link,
\* unless the interface is stopped (tx_queue.go:139-163, client.go:524-564).
AcceptedSettles ==
    \A i \in Starts : inst[i].queued > 0 ~> (inst[i].queued = 0 \/ inst[i].cancelled)

\* An interface that stays enabled is up for good once its peer is (client.go:264-344).
Reopens == <>[]row => <>[](running # 0 /\ inst[running].sup = "up")
=============================================================================
