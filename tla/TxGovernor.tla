---------------------------- MODULE TxGovernor ----------------------------
(***************************************************************************)
(* The transmit governor (pkg/txgovernor): the callers of Submit, the      *)
(* worker goroutine of Run, the dcdWatcher goroutine, the clock that empties *)
(* the rate windows and the dedup window, and shutdown.                    *)
(*                                                                         *)
(* The heap is the set of its items: what the code reads of it is its top. *)
(* The worker's 50 ms ticker makes the wake channel a matter of latency,   *)
(* so the worker may look at the queue whenever it is idle.                *)
(***************************************************************************)
EXTENDS Integers, FiniteSets

CONSTANTS
    Channels,        \* channel numbers
    Keys,            \* DedupKey values: destination, source and payload
    Traffic,         \* what callers submit: [ch, key, prio, skip] (skip = SkipDedup)
    QueueCapacity,   \* Config.QueueCapacity
    Rate1Min,        \* column rate_1min of the tx_timing rows, per channel
    Rate5Min,        \* column rate_5min
    KissOnly,        \* channels the dispatcher skips CSMA for
    FullDup,         \* channels with full_dup set
    MaxFrames        \* bound: frames accepted in a run

ASSUME ChannelAssumption ==
    /\ Channels \subseteq Nat
    /\ KissOnly \subseteq Channels /\ FullDup \subseteq Channels
ASSUME RateAssumption == Rate1Min \in [Channels -> Nat] /\ Rate5Min \in [Channels -> Nat]
ASSUME TrafficAssumption ==
    Traffic \subseteq [ch : Channels, key : Keys, prio : Nat, skip : BOOLEAN]
ASSUME BoundAssumption == QueueCapacity \in Nat \ {0} /\ MaxFrames \in Nat

\* The wiring reads the rows in channel order and gives the governor the first
\* limit that is not zero, for all channels.
FirstSet(row, c) == row[c] > 0 /\ \A d \in Channels : d < c => row[d] = 0
FirstLimit(row) ==
    IF \E c \in Channels : FirstSet(row, c)
    THEN row[CHOOSE c \in Channels : FirstSet(row, c)] ELSE 0
Rate1MinLimit == FirstLimit(Rate1Min)
Rate5MinLimit == FirstLimit(Rate5Min)

\* A queue item: a frame with the number Submit gave it.
Stamped(n, t) == [seq |-> n, ch |-> t.ch, key |-> t.key, prio |-> t.prio, skip |-> t.skip]
Item == {Stamped(n, t) : n \in 1 .. MaxFrames, t \in Traffic}

VARIABLES
    q,        \* the queue: a set of items
    seq,      \* the number of the last item accepted
    seen,     \* keys in the dedup window
    oneMin,   \* per channel, sends the one-minute window counts
    fiveMin,  \* per channel, sends the five-minute window counts
    dcd,      \* per channel, carrier detected, as last told
    pc,       \* the worker: "idle", "decided" between its two critical sections, "sending"
    top,      \* the item the worker has looked at
    stage,    \* "running", "cancelled" (its context is), "closed"
    handed,   \* history: seq of items the Sender accepted
    lost,     \* history: seq of items whose encoding or Sender failed
    recent    \* history, per key: items accepted since the key was last unknown

queueVars == <<q, seq, seen, recent>>
rateVars == <<oneMin, fiveMin>>
doneVars == <<handed, lost>>
vars == <<queueVars, rateVars, dcd, pc, top, stage, doneVars>>

NoItem == [seq |-> 0]

Init ==
    /\ q = {} /\ seq = 0 /\ seen = {}
    /\ oneMin = [c \in Channels |-> 0] /\ fiveMin = [c \in Channels |-> 0]
    /\ dcd = [c \in Channels |-> FALSE]
    /\ pc = "idle" /\ top = NoItem /\ stage = "running"
    /\ handed = {} /\ lost = {}
    /\ recent = [k \in Keys |-> {}]

-----------------------------------------------------------------------------
(* Submit.                                                                 *)

Duplicate(t) == ~t.skip /\ t.key \in seen
Full == Cardinality(q) >= QueueCapacity

Enqueued(t) == Stamped(seq + 1, t)

\* A duplicate is swallowed and a frame that finds the queue full is refused:
\* both leave the governor as it was.
Submit_RecordsFirst(t) ==
    /\ stage # "closed" /\ seq < MaxFrames
    /\ ~Duplicate(t)
    /\ seen' = seen \cup {t.key}
    /\ IF Full THEN UNCHANGED <<q, seq, recent>>
       ELSE /\ q' = q \cup {Enqueued(t)}
            /\ seq' = seq + 1
            /\ recent' = [recent EXCEPT ![t.key] = @ \cup {Enqueued(t)}]
    /\ UNCHANGED <<rateVars, dcd, pc, top, stage, doneVars>>
Submit(t) ==
    /\ stage # "closed" /\ seq < MaxFrames
    /\ ~Duplicate(t) /\ ~Full
    /\ seen' = seen \cup {t.key}
    /\ q' = q \cup {Enqueued(t)}
    /\ seq' = seq + 1
    /\ recent' = [recent EXCEPT ![t.key] = @ \cup {Enqueued(t)}]
    /\ UNCHANGED <<rateVars, dcd, pc, top, stage, doneVars>>

-----------------------------------------------------------------------------
(* processOne.                                                             *)

Less_LastFirst(i, j) == i.prio > j.prio \/ (i.prio = j.prio /\ i.seq > j.seq)
Less(i, j) == i.prio > j.prio \/ (i.prio = j.prio /\ i.seq < j.seq)
IsTop(i) == i \in q /\ \A j \in q \ {i} : Less(i, j)

IsRateLimited_OneLate(c) ==
    \/ Rate5MinLimit > 0 /\ fiveMin[c] > Rate5MinLimit
    \/ Rate1MinLimit > 0 /\ oneMin[c] > Rate1MinLimit
IsRateLimited(c) ==
    \/ Rate5MinLimit > 0 /\ fiveMin[c] >= Rate5MinLimit
    \/ Rate1MinLimit > 0 /\ oneMin[c] >= Rate1MinLimit

\* FullDup and KISS-only channels do not listen before they send.
Clear(c) == c \in KissOnly \cup FullDup \/ ~dcd[c]

\* The first critical section ends in the decision to send the top of the heap.
\* When the top is held back, by its rate, by the carrier or by the p-persistence
\* roll, the worker changes nothing and looks again later.
Decide(i) ==
    /\ pc = "idle" /\ stage # "closed"
    /\ IsTop(i)
    /\ ~IsRateLimited(i.ch)
    /\ Clear(i.ch)
    /\ pc' = "decided" /\ top' = i
    /\ UNCHANGED <<queueVars, rateVars, dcd, stage, doneVars>>

\* The second critical section: heap.Pop, and one more send in both windows.
Pop_NoRecheck ==
    /\ pc = "decided" /\ q # {}
    /\ \E h \in q : IsTop(h) /\ q' = q \ {h}
    /\ oneMin' = [oneMin EXCEPT ![top.ch] = @ + 1]
    /\ fiveMin' = [fiveMin EXCEPT ![top.ch] = @ + 1]
    /\ pc' = "sending"
    /\ UNCHANGED <<seq, seen, recent, dcd, top, stage, doneVars>>
Pop ==
    /\ pc = "decided" /\ IsTop(top)
    /\ q' = q \ {top}
    /\ oneMin' = [oneMin EXCEPT ![top.ch] = @ + 1]
    /\ fiveMin' = [fiveMin EXCEPT ![top.ch] = @ + 1]
    /\ pc' = "sending"
    /\ UNCHANGED <<seq, seen, recent, dcd, top, stage, doneVars>>

HeadChanged ==
    /\ pc = "decided" /\ ~IsTop(top)
    /\ pc' = "idle" /\ top' = NoItem
    /\ UNCHANGED <<queueVars, rateVars, dcd, stage, doneVars>>

\* Without the lock: encode and hand to the Sender, which may fail.
Sent ==
    /\ pc = "sending"
    /\ handed' = handed \cup {top.seq}
    /\ pc' = "idle" /\ top' = NoItem
    /\ UNCHANGED <<queueVars, rateVars, dcd, stage, lost>>
SendFails ==
    /\ pc = "sending"
    /\ lost' = lost \cup {top.seq}
    /\ pc' = "idle" /\ top' = NoItem
    /\ UNCHANGED <<queueVars, rateVars, dcd, stage, handed>>

Worker == (\E i \in q : Decide(i)) \/ Pop \/ HeadChanged \/ Sent \/ SendFails

-----------------------------------------------------------------------------
(* The DCD watcher, the clock, shutdown.                                   *)

DcdEvent(c, detected) ==
    /\ stage = "running"
    /\ dcd' = [dcd EXCEPT ![c] = detected]
    /\ UNCHANGED <<queueVars, rateVars, pc, top, stage, doneVars>>

AgeOneMin(c) ==
    /\ oneMin[c] > 0
    /\ oneMin' = [oneMin EXCEPT ![c] = @ - 1]
    /\ UNCHANGED <<queueVars, fiveMin, dcd, pc, top, stage, doneVars>>
AgeFiveMin(c) ==
    /\ fiveMin[c] > oneMin[c]
    /\ fiveMin' = [fiveMin EXCEPT ![c] = @ - 1]
    /\ UNCHANGED <<queueVars, oneMin, dcd, pc, top, stage, doneVars>>

Expire(k) ==   \* DedupWindow after the last Record of k
    /\ k \in seen
    /\ seen' = seen \ {k}
    /\ recent' = [recent EXCEPT ![k] = {}]
    /\ UNCHANGED <<q, seq, rateVars, dcd, pc, top, stage, doneVars>>

Cancel ==
    /\ stage = "running" /\ stage' = "cancelled"
    /\ UNCHANGED <<queueVars, rateVars, dcd, pc, top, doneVars>>
Close ==   \* the select of Run picked ctx.Done
    /\ stage = "cancelled" /\ pc = "idle" /\ stage' = "closed"
    /\ UNCHANGED <<queueVars, rateVars, dcd, pc, top, doneVars>>

Clock == \/ \E c \in Channels : AgeOneMin(c) \/ AgeFiveMin(c)
         \/ \E k \in Keys : Expire(k)

Next == \/ \E t \in Traffic : Submit(t)
        \/ Worker
        \/ \E c \in Channels, detected \in BOOLEAN : DcdEvent(c, detected)
        \/ Clock
        \/ Cancel
        \/ Close

Spec == Init /\ [][Next]_vars

-----------------------------------------------------------------------------
(* Properties.                                                             *)

TypeOK ==
    /\ q \subseteq Item /\ seq \in Nat /\ seen \subseteq Keys
    /\ oneMin \in [Channels -> Nat] /\ fiveMin \in [Channels -> Nat]
    /\ dcd \in [Channels -> BOOLEAN]
    /\ pc \in {"idle", "decided", "sending"}
    /\ pc # "idle" => top \in Item
    /\ stage \in {"running", "cancelled", "closed"}
    /\ handed \subseteq Nat /\ lost \subseteq Nat
    /\ recent \in [Keys -> SUBSET Item]

\* No channel ever sends more frames in a minute, or in five, than the limit the
\* governor was given, although the limit is tested in one critical section and
\* the send recorded in another (isRateLimitedLocked, recordSendLocked).
RateCap ==
    \A c \in Channels :
        /\ Rate1MinLimit > 0 => oneMin[c] <= Rate1MinLimit
        /\ Rate5MinLimit > 0 => fiveMin[c] <= Rate5MinLimit

\* Every accepted frame is in exactly one place: queued, in the worker's hands,
\* handed to the Sender, or lost because encoding or the Sender failed.  None is
\* dropped or sent twice when the head changes between decision and pop.
InHand == IF pc = "sending" THEN {top.seq} ELSE {}
Queued == {i.seq : i \in q}
Conserved ==
    /\ Queued \cup InHand \cup handed \cup lost = 1 .. seq
    /\ (Queued \cup InHand) \cap (handed \cup lost) = {}
    /\ Queued \cap InHand = {} /\ handed \cap lost = {}
    /\ \A i, j \in q : i.seq = j.seq => i = j

\* While a key is remembered exactly one copy of the frame was accepted, apart
\* from the copies whose callers bypass the dedup window (Submit).
OneCopy ==
    \A k \in Keys : \A i, j \in recent[k] : i.seq < j.seq => j.skip

\* A key is remembered only when a copy of the frame was in fact accepted: a
\* frame refused because the queue is full can be offered again at once
\* (the comment on the capacity check in Submit).
NotPoisoned == \A k \in seen : recent[k] # {}

\* The governor does what the atomic scheduler promises: best frame first, each
\* frame once, both limits kept at the moment it leaves.
Scheduler ==
    INSTANCE TxScheduler WITH
        waiting <- q, gone <- InHand \cup handed \cup lost,
        Items <- Item, OneMinLimit <- Rate1MinLimit, FiveMinLimit <- Rate5MinLimit
LeavesLikeScheduler == Scheduler!SchedulerInit /\ [][Scheduler!SchedulerNext]_Scheduler!svars
=============================================================================
