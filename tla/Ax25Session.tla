---------------------------- MODULE Ax25Session ----------------------------
(***************************************************************************)
(* One ax25conn session: the goroutine that runs Session.Run, the timer    *)
(* goroutines that set bits in pendingTimers, the operator, and a peer     *)
(* that may send any frame at any time.                                    *)
(*                                                                         *)
(* The input channel is not a variable: an event is put on it and taken    *)
(* off in one step.  Any event may come at any time, so the orders the     *)
(* channel allows are all there, and an event enqueue drops is one that    *)
(* does not come.                                                          *)
(***************************************************************************)
EXTENDS Ax25Lapb

CONSTANTS
    PeerKinds,      \* the kinds of frame the peer of a run sends
    FiringTimers,   \* the timers that may expire in a run
    SinkMayFail     \* whether the TX backend may go away

ASSUME RunAssumption ==
    PeerKinds \subseteq Kinds /\ FiringTimers \subseteq Timers /\ SinkMayFail \in BOOLEAN

VARIABLES
    s,      \* the session record
    pend,   \* pendingTimers
    bits    \* what Run swapped out of pendingTimers and has not handled yet

vars == <<s, pend, bits>>

Init == s = NewSession /\ pend = {} /\ bits = {}

Running == ~s.exited /\ ~s.hung
now == [s EXCEPT !.tx = <<>>]   \* the session as a handler finds it

-----------------------------------------------------------------------------
(* Timers and the drain of their bits, in the order Run tests them.        *)

DrainOrder == <<"T1", "T2", "T3", "HB", "STATS">>

TimerFires(t) ==   \* the AfterFunc callback of timer.resetTo, then signalTimer
    /\ Running
    /\ t \in s.armed \cap FiringTimers
    /\ s' = [s EXCEPT !.armed = @ \ {t}, !.tx = <<>>]
    /\ pend' = pend \cup {t}
    /\ UNCHANGED bits

SwapPending ==
    /\ Running /\ bits = {} /\ pend # {}
    /\ bits' = pend /\ pend' = {}
    /\ s' = now

NextBit(t) ==
    \E i \in DOMAIN DrainOrder :
        /\ DrainOrder[i] = t
        /\ t \in bits
        /\ \A j \in 1 .. (i - 1) : DrainOrder[j] \notin bits

HandleTimer(t, x) ==
    /\ Running /\ NextBit(t)
    /\ s' = Handled(x)
    /\ bits' = bits \ {t}
    /\ UNCHANGED pend

OnT1 == HandleTimer("T1", T1Expiry(now))
OnT2 == HandleTimer("T2", T2Expiry(now))
OnT3 == HandleTimer("T3", T3Expiry(now))
OnHeartbeat == HandleTimer("HB", HeartbeatTick(now))
OnStatsTick == HandleTimer("STATS", StatsTick(now))

-----------------------------------------------------------------------------
(* Events from the input channel.  Run reads it with no bit left to drain. *)

Handle(x) == /\ Running /\ bits = {}
             /\ s' = Handled(x)
             /\ UNCHANGED <<pend, bits>>

\* Decode yields sequence numbers below the modulus it decodes with.
\* Where no handler looks at the command bit or at P/F, or one value does what
\* another frame does already, one value stands for both.
Frames == { f \in [kind : PeerKinds, ns : Slots, nr : Slots, pf : BOOLEAN,
                   cmd : BOOLEAN, info : {Nil}, ok : {TRUE}] :
              /\ f.kind # "I" => f.ns = 0
              /\ f.kind \notin Sequenced => f.nr = 0
              /\ f.kind \in {"UA", "DM", "FRMR"} => ~f.cmd
              /\ f.kind = "I" => f.cmd
              /\ f.kind = "FRMR" => ~f.pf }
Decodable(f) == f.ns < Modulus(s) /\ f.nr < Modulus(s)

RxDisconnected(f) == s.st = "DISCONNECTED" /\ Handle(DisconnectedFrame(now, f))
RxAwaitingConnection(f) ==
    s.st = "AWAITING_CONNECTION" /\ Handle(AwaitingConnectionFrame(now, f))
RxConnected(f) == s.st = "CONNECTED" /\ Handle(ConnectedFrame(now, f))
RxTimerRecovery(f) == s.st = "TIMER_RECOVERY" /\ Handle(TimerRecoveryFrame(now, f))
RxAwaitingRelease(f) == s.st = "AWAITING_RELEASE" /\ Handle(AwaitingReleaseFrame(now, f))

RxFrame(f) ==
    /\ Decodable(f)
    /\ \/ RxDisconnected(f)
       \/ RxAwaitingConnection(f)
       \/ RxConnected(f)
       \/ RxTimerRecovery(f)
       \/ RxAwaitingRelease(f)

Connect == Handle(OperatorConnect(now))
TypeData(n) == s.tail + n <= MaxBytes /\ Handle(OperatorData(now, n))
Disconnect == Handle(OperatorDisconnect(now))
\* EventShutdown, or the context Manager.Close cancels.
Shutdown == Running /\ bits = {} /\ s' = Cleanup(now) /\ UNCHANGED <<pend, bits>>

BackendChanges ==
    /\ SinkMayFail /\ Running
    /\ s' = [now EXCEPT !.sinkUp = ~@]
    /\ UNCHANGED <<pend, bits>>

-----------------------------------------------------------------------------
Drain == SwapPending \/ OnT1 \/ OnT2 \/ OnT3 \/ OnHeartbeat \/ OnStatsTick

Operator == Connect \/ (\E n \in 1 .. MaxBytes : TypeData(n)) \/ Disconnect \/ Shutdown

Next == \/ Drain
        \/ \E t \in Timers : TimerFires(t)
        \/ \E f \in Frames : RxFrame(f)
        \/ Operator
        \/ BackendChanges

Spec == Init /\ [][Next]_vars

\* The Go runtime schedules the session goroutine, and a timer that stays armed
\* expires.  (A timer restarted for ever would not expire; the liveness
\* properties below are about states in which nobody restarts T1 or T3.)
FairSpec ==
    /\ Spec
    /\ WF_vars(Drain)
    /\ WF_vars(TimerFires("T1"))
    /\ WF_vars(TimerFires("T3"))

-----------------------------------------------------------------------------
(* Properties.                                                             *)

TypeOK == s \in Session /\ pend \in SUBSET Timers /\ bits \in SUBSET Timers

Open == s.st \in {"CONNECTED", "TIMER_RECOVERY"} /\ Running
Alive(t) == t \in s.armed \cup pend \cup bits   \* t runs, or its expiry waits for Run

\* kick never has more frames in flight than the negotiated window, and every
\* frame in flight is in its retransmit slot, so that REJ or a rebind can send
\* it again (kick, framesAcked, requeueFromVA).
WindowRespected ==
    Open => /\ Outstanding(s) <= s.win
            /\ \A n \in Slots : n < Modulus(s) /\ Dist(s, s.va, n) < Outstanding(s)
                                => s.pending[n].lo < s.pending[n].hi

\* The operator's bytes that the peer has not acknowledged are all still in the
\* session, once and in order: the slots from V(A) to V(S) hold consecutive
\* stretches from the acknowledged byte to the first byte of txBuf.  Not so once
\* a rebind has torn the stream (RequeueFromVA; README, section 4).
StreamConserved ==
    Open /\ ~s.torn =>
        /\ Outstanding(s) = 0 => s.acked = s.head
        /\ Outstanding(s) > 0 =>
              /\ s.pending[s.va].lo = s.acked
              /\ s.pending[(s.vs - 1) % Modulus(s)].hi = s.head
        /\ \A n \in 0 .. (Modulus(s) - 1) :
              Dist(s, s.va, n) + 1 < Outstanding(s)
              => s.pending[n].hi = s.pending[(n + 1) % Modulus(s)].lo

\* A rejection by the peer never loses a byte or sends one twice, and a rebind
\* does so only when it changes the modulus of a link with frames in flight
\* whose numbers have wrapped: the range that is left has no hidden case.
TornOnlyByWrap ==
    [][s'.torn # s.torn => s.st \in {"CONNECTED", "TIMER_RECOVERY"}
                           /\ s'.mod128 # s.mod128 /\ s.vs < s.va]_vars

\* Whatever the peer sends, an open link with unacknowledged frames has T1
\* running or its expiry waiting, a connected one has T1 or T3, and one that is
\* being set up or released has T1: a lost answer is always noticed.
NeverDeaf ==
    Running =>
        /\ Open /\ Outstanding(s) > 0 => Alive("T1")
        /\ s.st = "CONNECTED" => Alive("T1") \/ Alive("T3")
        /\ s.st \in {"AWAITING_CONNECTION", "AWAITING_RELEASE"} => Alive("T1")

\* The observer is told DISCONNECTED exactly once in the life of a session: when
\* the state machine gets there, or from cleanup when Run ends for another
\* reason (setState, cleanup).
ClosedOnce ==
    /\ s.closed <= 1
    /\ s.exited <=> s.closed = 1
    /\ s.exited => s.armed = {}

-----------------------------------------------------------------------------
(* Liveness.                                                               *)

\* However the peer behaves, a release the operator asked for ends: the peer
\* confirms it, or N2 unanswered DISCs do (onAwaitingRelease).
ReleaseEnds == s.st = "AWAITING_RELEASE" ~> s.exited

\* A link set-up ends, connected or not, however the peer answers the SABMs
\* (onAwaitingConnection; a peer that keeps offering SABME is left out).
SetupEnds == s.st = "AWAITING_CONNECTION" ~> s.st # "AWAITING_CONNECTION" \/ s.exited

\* A peer that falls silent for good is noticed: T3 or T1 and N2 unanswered
\* enquiries end the session, unless the link is parked in TIMER_RECOVERY with
\* everything acknowledged and no T1: then nothing probes the peer (README, section 4).
PeerSpeaks == \E f \in Frames : RxFrame(f)
Parked == s.st = "TIMER_RECOVERY" /\ ~Alive("T1") /\ Outstanding(s) = 0
SilenceNoticed == <>[][~PeerSpeaks]_vars => <>[](~Open \/ Parked)

-----------------------------------------------------------------------------
(* What the documentation or a comment of the code says, and the code does *)
(* not do: the property of a run that ends in a counterexample.            *)

\* A mod-128 link's I and S frames carry a two-octet control field (control.go,
\* wiki invariant 62), so no sequence number of the link is refused by the encoder.
AllEncodable == \A i \in DOMAIN s.tx : Encodable(s.tx[i])
=============================================================================
