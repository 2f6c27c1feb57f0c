---------------------------- MODULE TxScheduler ----------------------------
(***************************************************************************)
(* What the transmit governor promises its callers (the package comment of *)
(* pkg/txgovernor): an accepted frame waits until it is the best frame     *)
(* there is and its channel has room in both rate windows, and then leaves *)
(* in one atomic step, once.  The governor decides in one critical section *)
(* and takes the frame in another; TxGovernor is shown to implement this.  *)
(***************************************************************************)
EXTENDS Integers

CONSTANTS
    Channels,      \* radio channels
    Items,         \* frames with their place in the order of acceptance
    OneMinLimit,   \* frames a channel may send in a minute, 0 = unlimited
    FiveMinLimit   \* and in five minutes

VARIABLES
    waiting,   \* accepted frames that have not left
    gone,      \* the seq numbers of the frames that left
    oneMin,    \* per channel, frames that left in the last minute
    fiveMin    \* per channel, frames that left in the last five minutes

svars == <<waiting, gone, oneMin, fiveMin>>

SchedulerInit ==
    /\ waiting = {} /\ gone = {}
    /\ oneMin = [c \in Channels |-> 0]
    /\ fiveMin = [c \in Channels |-> 0]

\* Higher priority first, first come first served within a priority.
Outranks(i, j) == i.prio > j.prio \/ (i.prio = j.prio /\ i.seq < j.seq)
Best(i) == i \in waiting /\ \A j \in waiting : j # i => Outranks(i, j)

Below(n, limit) == limit = 0 \/ n < limit

Accept(i) ==
    /\ i.seq \notin gone
    /\ \A j \in waiting : i.seq # j.seq
    /\ waiting' = waiting \cup {i}
    /\ UNCHANGED <<gone, oneMin, fiveMin>>

Leave(i) ==
    /\ Best(i)
    /\ Below(oneMin[i.ch], OneMinLimit)
    /\ Below(fiveMin[i.ch], FiveMinLimit)
    /\ waiting' = waiting \ {i}
    /\ gone' = gone \cup {i.seq}
    /\ oneMin' = [oneMin EXCEPT ![i.ch] = @ + 1]
    /\ fiveMin' = [fiveMin EXCEPT ![i.ch] = @ + 1]

\* A minute after a frame left it no longer counts, and four minutes later it
\* no longer counts in the wider window.
AgeOneMin(c) ==
    /\ oneMin[c] > 0
    /\ oneMin' = [oneMin EXCEPT ![c] = @ - 1]
    /\ UNCHANGED <<waiting, gone, fiveMin>>
AgeFiveMin(c) ==
    /\ fiveMin[c] > oneMin[c]
    /\ fiveMin' = [fiveMin EXCEPT ![c] = @ - 1]
    /\ UNCHANGED <<waiting, gone, oneMin>>

SchedulerNext ==
    \/ \E i \in Items : Accept(i) \/ Leave(i)
    \/ \E c \in Channels : AgeOneMin(c) \/ AgeFiveMin(c)

SchedulerSpec == SchedulerInit /\ [][SchedulerNext]_svars
=============================================================================
