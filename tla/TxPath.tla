------------------------------ MODULE TxPath ------------------------------
(***************************************************************************)
(* The transmit governor behind the carrier detection it relies on: the    *)
(* slicers of the modem process (graywolf-modem), which report only the    *)
(* changes of their own data-carrier detect, the bridge's dcdPublisher     *)
(* with its bounded channel, and the governor's dcdWatcher.  What a slicer *)
(* hears is the environment's choice.                                      *)
(***************************************************************************)
EXTENDS TxGovernor, Sequences

CONSTANTS
    Slicers,       \* slicers of a channel's demodulator (num_slicers)
    DcdBuffer,     \* dcdPublisherBufferSize
    MaxTurns,      \* bound: changes of carrier detect in a run
    MayRestart     \* whether the modem may die, or its audio be restarted

ASSUME PathAssumption ==
    /\ DcdBuffer \in Nat \ {0} /\ MaxTurns \in Nat /\ MayRestart \in BOOLEAN

VARIABLES
    heard,   \* per channel, the slicers that detect a carrier now
    feed,    \* DcdChange events the watcher has not taken: [ch, detected]
    dropped, \* whether the publisher has dropped an event (its metric counts them)
    silent,  \* history: channels restarted that have reported nothing since
    turns    \* changes so far

pathVars == <<heard, feed, dropped, silent, turns>>
allVars == <<vars, pathVars>>

PathInit ==
    /\ Init
    /\ heard = [c \in Channels |-> {}] /\ feed = <<>> /\ dropped = FALSE
    /\ silent = {} /\ turns = 0

\* A subscriber whose channel is full loses the event.
Publish(event) ==
    \/ Len(feed) < DcdBuffer /\ feed' = Append(feed, event) /\ UNCHANGED dropped
    \/ Len(feed) = DcdBuffer /\ dropped' = TRUE /\ UNCHANGED feed

\* A slicer's detect changes and is reported.  The event names the slicer, but
\* the governor files it under the channel.
SlicerTurns(c, s) ==
    /\ turns < MaxTurns /\ turns' = turns + 1
    /\ heard' = [heard EXCEPT ![c] = IF s \in @ THEN @ \ {s} ELSE @ \cup {s}]
    /\ Publish([ch |-> c, detected |-> s \notin heard[c]])
    /\ silent' = silent \ {c}
    /\ UNCHANGED vars

\* New demodulators start with no carrier detected, and say nothing about it.
\* StartAudio does this, and so does a new modem process; the events a dying
\* modem had on its socket are lost.
AudioRestarts ==
    /\ MayRestart
    /\ heard' = [c \in Channels |-> {}] /\ silent' = Channels
    /\ UNCHANGED <<vars, feed, dropped, turns>>
ModemDies ==
    /\ MayRestart
    /\ heard' = [c \in Channels |-> {}] /\ silent' = Channels
    /\ \E n \in 0 .. Len(feed) : feed' = SubSeq(feed, 1, n)
    /\ UNCHANGED <<vars, dropped, turns>>

WatcherTakes_BusyOnly ==
    /\ feed # <<>>
    /\ DcdEvent(Head(feed).ch, Head(feed).detected \/ dcd[Head(feed).ch])
    /\ feed' = Tail(feed)
    /\ UNCHANGED <<heard, dropped, silent, turns>>
WatcherTakes_LatestOnly ==
    /\ feed # <<>>
    /\ DcdEvent(feed[Len(feed)].ch, feed[Len(feed)].detected)
    /\ feed' = <<>>
    /\ UNCHANGED <<heard, dropped, silent, turns>>
WatcherTakes ==
    /\ feed # <<>>
    /\ DcdEvent(Head(feed).ch, Head(feed).detected)
    /\ feed' = Tail(feed)
    /\ UNCHANGED <<heard, dropped, silent, turns>>

Governor == \/ \E t \in Traffic : Submit(t)
            \/ Worker
            \/ Clock
            \/ Cancel
            \/ Close

PathNext == \/ \E c \in Channels, s \in Slicers : SlicerTurns(c, s)
            \/ AudioRestarts
            \/ ModemDies
            \/ WatcherTakes
            \/ Governor /\ UNCHANGED pathVars

PathSpec == PathInit /\ [][PathNext]_allVars

\* The ticker runs the worker again and again, and a p-persistence roll that is
\* made infinitely often succeeds infinitely often; time passes; the watcher runs.
PathFairSpec ==
    /\ PathSpec
    /\ SF_allVars((\E i \in q : Decide(i)) /\ UNCHANGED pathVars)
    /\ WF_allVars((Pop \/ HeadChanged \/ Sent \/ SendFails) /\ UNCHANGED pathVars)
    /\ WF_allVars(WatcherTakes)
    /\ \A c \in Channels : WF_allVars((AgeOneMin(c) \/ AgeFiveMin(c)) /\ UNCHANGED pathVars)

-----------------------------------------------------------------------------
(* Properties.                                                             *)

\* What the governor will believe of a channel once it has read its feed.
Told(c) == {i \in DOMAIN feed : feed[i].ch = c}
WillBelieve(c) ==
    IF Told(c) = {} THEN dcd[c]
    ELSE feed[CHOOSE i \in Told(c) : \A j \in Told(c) : j <= i].detected

\* Through deaths and restarts of the modem, with one slicer and a feed that never
\* filled up, a carrier the modem detects is never missed: what a restart leaves
\* behind errs on the side of waiting.
CarrierNeverMissed == ~dropped => \A c \in Channels : heard[c] # {} => WillBelieve(c)

\* Once no slicer of any channel detects a carrier for good, every accepted frame
\* leaves: "the governor waits for DCD to clear (channel is quiet)"
\* (architecture.html), and not for longer.  (A channel the modem has not reported
\* since its restart may be left busy: README, section 4.)
AllQuiet == \A c \in Channels : heard[c] = {}
QuietDrains ==
    <>[](AllQuiet /\ ~dropped /\ silent = {} /\ stage = "running")
        => \A n \in 1 .. MaxFrames : (n \in Queued ~> n \notin Queued)
=============================================================================
