------------------------------ MODULE Ax25Lapb ------------------------------
(***************************************************************************)
(* The LAPB machine of one connected-mode AX.25 link (pkg/ax25conn) as     *)
(* operators on a session record: what each state handler and each helper  *)
(* of the Go code does to the session.  The module has no variables;       *)
(* Ax25Session runs these operators from the session's run loop.           *)
(*                                                                         *)
(* Data.  The operator's bytes are numbered 1, 2, 3, ... in the order      *)
(* EventDataTX brought them.  What the code keeps as byte slices is a      *)
(* stretch of that stream: [lo |-> a, hi |-> b] stands for bytes a+1 .. b, *)
(* empty when a = b.  A retransmit slot holding nil is the empty stretch   *)
(* (kick never stores an empty payload).                                   *)
(***************************************************************************)
EXTENDS Integers, Sequences, FiniteSets

CONSTANTS
    Mod8, Mod128,          \* the two sequence-number moduli (8 and 128 in the code)
    DefWin8, DefWin128,    \* DefaultWindowMod8, DefaultWindowMod128 (2 and 32)
    CfgMod128, CfgWindow,  \* SessionConfig.Mod128 and .Window after applyDefaults
    N2,                    \* SessionConfig.N2 after applyDefaults
    Paclen,                \* SessionConfig.Paclen after applyDefaults
    MaxBytes               \* bound: the operator types at most this many bytes

ASSUME ModuliAssumption ==
    /\ Mod8 \in Nat /\ Mod128 \in Nat
    /\ DefWin8 \in 1 .. (Mod8 - 1)
    /\ DefWin128 \in 1 .. (Mod128 - 1)
    /\ Mod8 < Mod128
ASSUME ConfigAssumption ==
    /\ CfgMod128 \in BOOLEAN
    /\ CfgWindow \in Nat \ {0}
    /\ N2 \in Nat \ {0}
    /\ Paclen \in Nat \ {0}
    /\ MaxBytes \in Nat

States == {"DISCONNECTED", "AWAITING_CONNECTION", "CONNECTED",
           "TIMER_RECOVERY", "AWAITING_RELEASE"}
Timers == {"T1", "T2", "T3", "HB", "STATS"}
Conditions == {"ACK", "REJ", "BUSY"}   \* CondACKPending, CondReject, CondPeerRxBusy
                                       \* (nothing in the code sets CondOwnRxBusy)
Kinds == {"I", "RR", "RNR", "REJ", "SABM", "SABME", "DISC", "DM", "UA", "FRMR",
          "OTHER"}                     \* OTHER: SREJ, UI, XID, TEST
Errors == {"none", "tx-failed", "peer-rejected", "link-establish-timeout",
           "peer-disconnected", "peer-reset", "ack-timeout", "disc-timeout"}

Stretch == [lo : Nat, hi : Nat]
Nil == [lo |-> 0, hi |-> 0]
Slots == 0 .. (Mod128 - 1)

\* A frame.  On a frame this session submits, ok says that it was encoded and
\* accepted by the TxSink: a frame with ok = FALSE never left the session.
Frame == [kind : Kinds, ns : Slots, nr : Slots, pf : BOOLEAN, cmd : BOOLEAN,
          info : Stretch, ok : BOOLEAN]
UFrame(kind, pf, cmd) ==
    [kind |-> kind, ns |-> 0, nr |-> 0, pf |-> pf, cmd |-> cmd, info |-> Nil, ok |-> TRUE]

Session == [st : States, mod128 : BOOLEAN, win : Nat,
            vs : Slots, vr : Slots, va : Slots, n2 : Nat, cond : SUBSET Conditions,
            pending : [Slots -> Stretch],   \* I-frame retransmit buffer keyed by N(S)
            head : Nat, tail : Nat,         \* txBuf = bytes head+1 .. tail
            armed : SUBSET Timers,          \* the timers that are running
            terminated : BOOLEAN,
            sinkUp : BOOLEAN,               \* the channel has a TX backend (environment)
            txFailNotified : BOOLEAN,
            tx : Seq(Frame),                \* frames submitted while handling the last event
            closed : Nat,                   \* DISCONNECTED notices the observer was sent
            err : Errors,                   \* the last OutError the observer was sent
            shown : Seq(Stretch),           \* payloads of the OutDataRX events
            exited : BOOLEAN,               \* Run has returned
            hung : BOOLEAN,                 \* a handler is in a loop that never ends
            acked : Nat,                    \* history: bytes the peer acknowledged
            torn : BOOLEAN]                 \* history: a rebind has torn the stream

NewSession ==
    [st |-> "DISCONNECTED", mod128 |-> CfgMod128, win |-> CfgWindow,
     vs |-> 0, vr |-> 0, va |-> 0, n2 |-> 0, cond |-> {},
     pending |-> [n \in Slots |-> Nil], head |-> 0, tail |-> 0,
     armed |-> {}, terminated |-> FALSE, sinkUp |-> TRUE, txFailNotified |-> FALSE,
     tx |-> <<>>, closed |-> 0, err |-> "none", shown |-> <<>>,
     exited |-> FALSE, hung |-> FALSE, acked |-> 0, torn |-> FALSE]

-----------------------------------------------------------------------------
(* Sequence numbers.                                                       *)

Modulus(x) == IF x.mod128 THEN Mod128 ELSE Mod8
Dist(x, a, b) == (b - a) % Modulus(x)
SeqAfter(x, n, k) == (n + k) % Modulus(x)
Outstanding(x) == Dist(x, x.va, x.vs)
ValidNR(x, nr) == Dist(x, x.va, nr) <= Outstanding(x)

-----------------------------------------------------------------------------
(* Timers, observer events, frames handed to the TX governor.              *)

Arm(x, ts) == [x EXCEPT !.armed = @ \cup ts]
Stop(x, ts) == [x EXCEPT !.armed = @ \ ts]

SetState(x, ns) ==
    IF ns = x.st THEN x ELSE
    [x EXCEPT !.st = ns,
              !.armed = (IF x.st = "CONNECTED" THEN @ \ {"STATS"} ELSE @)
                        \cup (IF ns = "CONNECTED" THEN {"STATS"} ELSE {}),
              !.closed = IF ns = "DISCONNECTED" THEN @ + 1 ELSE @,
              !.terminated = @ \/ ns = "DISCONNECTED"]

Drop(x, error) == SetState([x EXCEPT !.err = error], "DISCONNECTED")

\* EncodeControl refuses sequence numbers that do not fit a mod-8 control
\* field; no sender of the session sets Frame.Mod128, so every frame gets one.
Encodable(f) == f.ns < Mod8 /\ f.nr < Mod8

SubmitAll(x, frames) ==
    LET refused == ~x.sinkUp /\ \E i \in DOMAIN frames : Encodable(frames[i])
    IN  [x EXCEPT !.tx = @ \o [i \in DOMAIN frames |->
                                  [frames[i] EXCEPT !.ok = Encodable(frames[i]) /\ x.sinkUp]],
                  !.err = IF refused /\ ~x.txFailNotified THEN "tx-failed" ELSE @,
                  !.txFailNotified = @ \/ refused]
Submit(x, f) == SubmitAll(x, <<f>>)

SendSABM(x, wide) == Submit(x, UFrame(IF wide THEN "SABME" ELSE "SABM", TRUE, TRUE))
SendDISC(x) == Submit(x, UFrame("DISC", TRUE, TRUE))
SendUA(x, pf) == Submit(x, UFrame("UA", pf, FALSE))
SendDM(x, pf) == Submit(x, UFrame("DM", pf, FALSE))
SendRR(x, pf, cmd) == Submit(x, [UFrame("RR", pf, cmd) EXCEPT !.nr = x.vr % Modulus(x)])
SendREJ(x, pf) == Submit(x, [UFrame("REJ", pf, FALSE) EXCEPT !.nr = x.vr])

-----------------------------------------------------------------------------
(* The transmit side: kick, framesAcked, requeueFromVA, dropQueues.        *)

\* The frames txBuf will be cut into.
Chunks(x) == IF x.tail > x.head THEN (x.tail - x.head + Paclen - 1) \div Paclen ELSE 0

\* Outstanding(): what syncOutstanding publishes after every event.
Owed(x) == Outstanding(x) + Chunks(x)

Burst_OneTooMany(x) ==
    LET room == x.win + 1 - Outstanding(x)
    IN  IF Chunks(x) <= room THEN Chunks(x) ELSE IF room > 0 THEN room ELSE 0

\* How many I-frames kick sends.  Its window test counts modulo Modulus, so a
\* window as large as the modulus never fills.
Burst(x) ==
    LET room == x.win - Outstanding(x)
    IN  IF x.win >= Modulus(x) \/ Chunks(x) <= room THEN Chunks(x)
        ELSE IF room > 0 THEN room ELSE 0

\* The payload of the j-th frame of the burst, j = 0, 1, ...
Chunk(x, j) ==
    [lo |-> x.head + j * Paclen,
     hi |-> IF x.head + (j + 1) * Paclen <= x.tail THEN x.head + (j + 1) * Paclen ELSE x.tail]

Kick(x) ==
    IF x.st \notin {"CONNECTED", "TIMER_RECOVERY"} \/ "BUSY" \in x.cond \/ x.hung THEN x ELSE
    LET k == Burst(x)
        ns(j) == SeqAfter(x, x.vs, j)
        sent == SubmitAll(x, [j \in 1 .. k |->
                   [kind |-> "I", ns |-> ns(j - 1), nr |-> x.vr, pf |-> FALSE, cmd |-> TRUE,
                    info |-> Chunk(x, j - 1), ok |-> TRUE]])
        y == [sent EXCEPT
                 !.pending = [n \in Slots |->
                                IF n < Modulus(x) /\ Dist(x, x.vs, n) < k
                                THEN Chunk(x, Dist(x, x.vs, n)) ELSE @[n]],
                 !.head = IF k = 0 THEN @ ELSE Chunk(x, k - 1).hi,
                 !.vs = IF k = 0 THEN @ ELSE ns(k),
                 !.cond = IF k > 0 THEN @ \ {"ACK"} ELSE @,
                 !.armed = IF k > 0 /\ "ACK" \in x.cond THEN @ \ {"T2"} ELSE @]
    IN  IF y.vs = y.va THEN y ELSE Stop(Arm(y, {"T1"}), {"T3"})

FramesAcked_StopsT1(x, nr) ==
    Arm(Stop([x EXCEPT
                 !.pending = [n \in Slots |->
                                IF n < Modulus(x) /\ Dist(x, x.va, n) < Dist(x, x.va, nr)
                                THEN Nil ELSE @[n]],
                 !.acked = IF nr = x.va THEN @ ELSE x.pending[(nr - 1) % Modulus(x)].hi,
                 !.va = nr], {"T1"}), {"T3"})

FramesAcked(x, nr) ==
    LET freed == [x EXCEPT
                     !.pending = [n \in Slots |->
                                    IF n < Modulus(x) /\ Dist(x, x.va, n) < Dist(x, x.va, nr)
                                    THEN Nil ELSE @[n]],
                     !.acked = IF nr = x.va THEN @ ELSE x.pending[(nr - 1) % Modulus(x)].hi,
                     !.va = nr]
    IN  IF x.vs = nr THEN Arm(Stop(freed, {"T1"}), {"T3"}) ELSE Arm(freed, {"T1"})

\* The slots that hold the frames in flight, V(A) up to V(S) - 1.
LiveSlots(x) == { n \in Slots : n < Modulus(x) /\ Dist(x, x.va, n) < Outstanding(x) }

Visits_StartsLate(x, mod) == { (x.va + j) % mod : j \in 1 .. ((x.vs - x.va - 1) % mod) }

\* The slots the loop i = V(A); i # V(S); i = (i + 1) % mod looks at when
\* V(A) # V(S) and V(S) < mod.  V(A) may lie above mod: see Rebind.
Visits(x, mod) ==
    { IF j = 0 THEN x.va ELSE (x.va + j) % mod : j \in 0 .. ((x.vs - x.va - 1) % mod) }

RequeueFromVA_LosesFirst(x, mod) ==
    IF x.vs = x.va THEN x ELSE [x EXCEPT !.head = x.pending[x.va].hi, !.vs = x.va]

\* mod is what the loop steps by: the session's modulus, but the next one in a
\* rebind.  When the loop finds the frames in flight and no others, it puts
\* back consecutive stretches that end where txBuf starts, and txBuf now starts
\* at the first byte of slot V(A).  A rebind that changes the modulus of a link
\* whose numbers have wrapped (V(S) < V(A)) may jump over frames in flight,
\* which are lost, or pick up old frames from slots nobody cleared: the stream
\* is torn, and from then on the bytes of txBuf, numbered anew, are only counted.
\* A V(S) the modulus cannot reach keeps the loop going for ever.
RequeueFromVA(x, mod) ==
    LET found == { n \in Visits(x, mod) : x.pending[n].lo < x.pending[n].hi }
        bytes == { b \in found \X (1 .. Paclen) : b[2] <= x.pending[b[1]].hi - x.pending[b[1]].lo }
        back == [x EXCEPT !.pending = [n \in Slots |-> IF n \in found THEN Nil ELSE @[n]],
                          !.vs = x.va]
    IN  IF x.vs = x.va THEN x
        ELSE IF x.vs >= mod THEN [x EXCEPT !.hung = TRUE]
        ELSE IF found = LiveSlots(x) THEN [back EXCEPT !.head = x.pending[x.va].lo]
        ELSE [back EXCEPT !.head = 0, !.acked = 0, !.torn = TRUE,
                          !.tail = Cardinality(bytes) + Cardinality((x.head + 1) .. x.tail)]

Requeue(x) == RequeueFromVA(x, Modulus(x))   \* on a REJ

DropQueues(x) == [x EXCEPT !.pending = [n \in Slots |-> Nil], !.head = x.tail]

-----------------------------------------------------------------------------
(* Link establishment and enquiry.                                         *)

EstablishDataLink_NoT1(x) ==
    SetState(SendSABM(Stop([x EXCEPT !.cond = {}, !.n2 = 0], {"T1", "T2", "T3"}), x.mod128),
             "AWAITING_CONNECTION")

EstablishDataLink(x) ==
    SetState(Arm(SendSABM(Stop([x EXCEPT !.cond = {}, !.n2 = 0], {"T1", "T2", "T3"}),
                          x.mod128), {"T1"}), "AWAITING_CONNECTION")

TransmitEnquiry(x) == Stop([SendRR(x, TRUE, TRUE) EXCEPT !.cond = @ \ {"ACK"}], {"T2"})

StartRelease_NoT1(x) ==
    SetState(Stop(SendDISC([DropQueues(x) EXCEPT !.n2 = 0]), {"T1", "T2", "T3"}),
             "AWAITING_RELEASE")

StartRelease(x) ==   \* EventDisconnect and EventAbort on an open link
    SetState(Arm(Stop(SendDISC([DropQueues(x) EXCEPT !.n2 = 0]), {"T2", "T3"}), {"T1"}),
             "AWAITING_RELEASE")

SetModulus(x, wide) ==
    [x EXCEPT !.mod128 = wide, !.win = IF wide THEN DefWin128 ELSE DefWin8]

ZeroSeq(x) == [x EXCEPT !.vs = 0, !.vr = 0, !.va = 0]

-----------------------------------------------------------------------------
(* CONNECTED and TIMER_RECOVERY: the frames both states treat alike.       *)

\* SABM/SABME from the peer: rebind in place.  The code changes the modulus
\* before the requeue loop, which reads nothing else that SetModulus writes.
Rebind(x, f) ==
    LET wide == f.kind = "SABME"
        r == SetModulus(RequeueFromVA(x, IF wide THEN Mod128 ELSE Mod8), wide)
    IN  IF r.hung THEN r
        ELSE SendUA(Arm(Stop([ZeroSeq(r) EXCEPT !.n2 = 0, !.cond = {}], {"T1", "T2"}), {"T3"}),
                    f.pf)

PeerGone(x, error) == Drop(Stop(DropQueues(x), {"T1", "T2", "T3", "HB"}), error)

PeerBusy(x, f) == [x EXCEPT !.cond = IF f.kind = "RNR" THEN @ \cup {"BUSY"} ELSE @ \ {"BUSY"}]

AnswerPoll(x, f) == IF f.cmd /\ f.pf THEN SendRR(x, TRUE, FALSE) ELSE x

\* An I-frame whose N(R) has been checked and applied.
Deliver(x, f) ==
    LET y == [x EXCEPT !.vr = SeqAfter(x, x.vr, 1),
                       !.cond = @ \ {"REJ"},
                       !.shown = IF f.info.lo = f.info.hi THEN @ ELSE Append(@, f.info)]
    IN  IF f.pf THEN Stop(SendRR([y EXCEPT !.cond = @ \ {"ACK"}], TRUE, FALSE), {"T2"})
        ELSE IF "ACK" \in y.cond THEN y
        ELSE Arm([y EXCEPT !.cond = @ \cup {"ACK"}], {"T2"})

OutOfSequence(x, f) ==
    IF "REJ" \notin x.cond
    THEN SendREJ(Stop([x EXCEPT !.cond = (@ \cup {"REJ"}) \ {"ACK"}], {"T2"}), f.pf)
    ELSE IF f.pf THEN SendRR(x, TRUE, FALSE) ELSE x

ReceiveI(x, f) ==
    LET y == FramesAcked(x, f.nr)
    IN  IF f.ns = y.vr THEN Deliver(y, f) ELSE OutOfSequence(y, f)

-----------------------------------------------------------------------------
(* The frame handlers, one per state.                                      *)

Sequenced == {"I", "RR", "RNR", "REJ"}

ConnectedFrame(x, f) ==
    CASE f.kind \in {"SABM", "SABME"} -> Kick(IF f.cmd THEN Rebind(x, f) ELSE x)
      [] f.kind = "DISC" -> IF f.cmd THEN PeerGone(SendUA(x, f.pf), "peer-disconnected") ELSE Kick(x)
      [] f.kind = "DM" -> PeerGone(x, "peer-reset")
      [] f.kind \in Sequenced /\ ~ValidNR(x, f.nr) -> EstablishDataLink(x)
      [] f.kind \in {"RR", "RNR"} /\ ValidNR(x, f.nr) ->
            Kick(FramesAcked(AnswerPoll(PeerBusy(x, f), f), f.nr))
      [] f.kind = "REJ" /\ ValidNR(x, f.nr) ->
            Kick(Arm(Stop(Requeue(FramesAcked(AnswerPoll(PeerBusy(x, f), f), f.nr)),
                          {"T1"}), {"T3"}))
      [] f.kind = "I" /\ ValidNR(x, f.nr) -> Kick(ReceiveI(x, f))
      [] OTHER -> EstablishDataLink(x)

\* A response with F=1 answers the enquiry that brought the link here.
CaughtUp(x) == IF x.vs = x.va THEN SetState(Arm(x, {"T3"}), "CONNECTED") ELSE x

RecoverySupervisory(x, f) ==
    LET b == PeerBusy(x, f)
        y == IF ~f.cmd /\ f.pf
             THEN FramesAcked(Stop([b EXCEPT !.n2 = 0], {"T1"}), f.nr)
             ELSE FramesAcked(AnswerPoll(b, f), f.nr)
        z == IF f.kind = "REJ" THEN Requeue(y) ELSE y
    IN  Kick(IF ~f.cmd /\ f.pf THEN CaughtUp(z) ELSE z)

TimerRecoveryFrame(x, f) ==
    CASE f.kind \in {"SABM", "SABME"} ->
            IF ~f.cmd THEN Kick(x)
            ELSE LET r == Rebind(x, f) IN IF r.hung THEN r ELSE Kick(SetState(r, "CONNECTED"))
      [] f.kind = "DISC" -> IF f.cmd THEN PeerGone(SendUA(x, f.pf), "peer-disconnected") ELSE Kick(x)
      [] f.kind = "DM" -> PeerGone(x, "peer-reset")
      [] f.kind \in Sequenced /\ ~ValidNR(x, f.nr) -> EstablishDataLink(x)
      [] f.kind \in {"RR", "RNR", "REJ"} /\ ValidNR(x, f.nr) -> RecoverySupervisory(x, f)
      [] f.kind = "I" /\ ValidNR(x, f.nr) -> Kick(ReceiveI(x, f))
      [] OTHER -> EstablishDataLink(x)

\* UA to our SABM.  V(S) and V(A) go back to 0 whatever was outstanding.
LinkUp(x) ==
    SetState(Arm(Stop([ZeroSeq(x) EXCEPT !.n2 = 0, !.acked = x.head], {"T1"}), {"T3"}),
             "CONNECTED")

AwaitingConnectionFrame(x, f) ==
    CASE f.kind \in {"SABM", "SABME"} /\ f.cmd -> SendUA(SetModulus(x, f.kind = "SABME"), f.pf)
      [] f.kind = "DISC" /\ f.cmd -> SendDM(x, f.pf)
      [] f.kind = "UA" /\ f.pf -> LinkUp(x)
      [] f.kind = "DM" /\ f.pf ->
            IF x.mod128 THEN SetModulus(x, FALSE) ELSE Drop(Stop(x, {"T1"}), "peer-rejected")
      [] OTHER -> x

AwaitingReleaseFrame(x, f) ==
    LET gone == SetState(Stop(x, {"T1"}), "DISCONNECTED")
    IN  CASE f.kind \in {"SABM", "SABME"} /\ f.cmd -> SendDM(x, f.pf)
          [] f.kind = "DISC" /\ f.cmd -> SetState(Stop(SendUA(x, f.pf), {"T1"}), "DISCONNECTED")
          [] f.kind \in {"UA", "DM"} /\ f.pf -> gone
          [] f.kind \in Sequenced /\ f.cmd /\ f.pf -> SendDM(x, TRUE)
          [] OTHER -> x

DisconnectedFrame(x, f) ==
    IF f.kind \in {"SABM", "SABME"} /\ f.cmd THEN SendDM(x, f.pf) ELSE x

-----------------------------------------------------------------------------
(* Timer expiries.                                                         *)

Enquire_NoCount(x, retries) == Arm(TransmitEnquiry([x EXCEPT !.n2 = 0]), {"T1"})
Enquire(x, retries) == Arm(TransmitEnquiry([x EXCEPT !.n2 = retries]), {"T1"})

Exhausted(x) == x.n2 >= N2

T1Expiry(x) ==
    CASE x.st = "CONNECTED" -> SetState(Enquire(x, 1), "TIMER_RECOVERY")
      [] x.st = "TIMER_RECOVERY" ->
            IF Exhausted(x) THEN PeerGone(SendDM(x, TRUE), "ack-timeout")
            ELSE Kick(Enquire(x, x.n2 + 1))
      [] x.st = "AWAITING_CONNECTION" ->
            IF ~Exhausted(x) THEN Arm(SendSABM([x EXCEPT !.n2 = @ + 1], x.mod128), {"T1"})
            ELSE IF x.mod128
            THEN Arm(SendSABM([SetModulus(x, FALSE) EXCEPT !.n2 = 0], FALSE), {"T1"})
            ELSE Drop(x, "link-establish-timeout")
      [] x.st = "AWAITING_RELEASE" ->
            IF ~Exhausted(x) THEN Arm(SendDISC([x EXCEPT !.n2 = @ + 1]), {"T1"})
            ELSE Drop(SendDISC(x), "disc-timeout")
      [] OTHER -> x

T2Expiry(x) ==
    IF x.st \notin {"CONNECTED", "TIMER_RECOVERY"} THEN x
    ELSE Kick(IF "ACK" \in x.cond THEN SendRR([x EXCEPT !.cond = @ \ {"ACK"}], FALSE, FALSE) ELSE x)

T3Expiry(x) ==
    CASE x.st = "CONNECTED" -> SetState(Enquire(x, 0), "TIMER_RECOVERY")
      [] OTHER -> Kick(x)

\* heartbeatTick and statsTick are dispatched before the state is looked at.
HeartbeatTick(x) == IF x.st \in {"CONNECTED", "TIMER_RECOVERY"} THEN Arm(x, {"HB"}) ELSE x
StatsTick(x) == IF x.st = "CONNECTED" THEN Arm(x, {"STATS"}) ELSE x

-----------------------------------------------------------------------------
(* Operator commands and the end of the run loop.                          *)

OperatorConnect(x) ==
    IF x.st # "DISCONNECTED" THEN Kick(x)
    ELSE SetState(Arm(SendSABM([ZeroSeq(x) EXCEPT !.n2 = 0, !.cond = {}], x.mod128),
                      {"T1", "HB"}), "AWAITING_CONNECTION")

\* Bytes that arrive outside CONNECTED and TIMER_RECOVERY are ignored.
OperatorData(x, n) ==
    IF x.st \in {"CONNECTED", "TIMER_RECOVERY"} THEN Kick([x EXCEPT !.tail = @ + n]) ELSE x

OperatorDisconnect(x) ==
    CASE x.st \in {"CONNECTED", "TIMER_RECOVERY"} -> StartRelease(x)
      [] x.st = "AWAITING_CONNECTION" ->
            SetState(Arm([SendDISC(x) EXCEPT !.n2 = 0], {"T1"}), "AWAITING_RELEASE")
      [] OTHER -> x

\* cleanup, the deferred call of Run.
Cleanup_TellsAgain(x) ==
    [x EXCEPT !.armed = {}, !.exited = TRUE, !.terminated = TRUE, !.closed = @ + 1]

Cleanup(x) ==
    [x EXCEPT !.armed = {}, !.exited = TRUE, !.terminated = TRUE,
              !.closed = IF x.terminated THEN @ ELSE @ + 1]

\* handle returns false once the session is terminated, and Run returns.
Handled(x) == IF x.terminated THEN Cleanup(x) ELSE x
=============================================================================
