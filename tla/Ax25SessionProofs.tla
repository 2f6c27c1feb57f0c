------------------------- MODULE Ax25SessionProofs -------------------------
(***************************************************************************)
(* A session keeps its types, always has a timer for what it waits for,    *)
(* is told to be over once, and, when its window is below its modulus,     *)
(* keeps to it and keeps the operator's bytes: for all moduli and peers.   *)
(***************************************************************************)
EXTENDS Ax25Session, FiniteSetTheorems, TLAPS

LEMMA ModulusType == ASSUME NEW x \in Session PROVE Modulus(x) \in Nat \ {0} /\ Modulus(x) <= Mod128
  BY ModuliAssumption DEF Modulus, Session

LEMMA SeqAfterType ==
    ASSUME NEW x \in Session, NEW n \in Int, NEW k \in Int
    PROVE  SeqAfter(x, n, k) \in Slots
  BY ModulusType, ModuliAssumption DEF SeqAfter, Slots

LEMMA ArmType == ASSUME NEW x \in Session, NEW ts \in SUBSET Timers PROVE Arm(x, ts) \in Session
  BY DEF Arm, Session

LEMMA StopType == ASSUME NEW x \in Session, NEW ts \in SUBSET Timers PROVE Stop(x, ts) \in Session
  BY DEF Stop, Session

LEMMA SetStateType == ASSUME NEW x \in Session, NEW ns \in States PROVE SetState(x, ns) \in Session
<1>1. CASE ns = x.st BY <1>1 DEF SetState
<1>2. CASE ns # x.st
  <2> DEFINE armed == (IF x.st = "CONNECTED" THEN x.armed \ {"STATS"} ELSE x.armed)
                      \cup (IF ns = "CONNECTED" THEN {"STATS"} ELSE {})
             down == x.terminated \/ ns = "DISCONNECTED"
             closed == IF ns = "DISCONNECTED" THEN x.closed + 1 ELSE x.closed
  <2>1. armed \in SUBSET Timers BY DEF Session, Timers
  <2>2. down \in BOOLEAN /\ closed \in Nat BY DEF Session
  <2>3. SetState(x, ns) = [x EXCEPT !.st = ns, !.armed = armed, !.closed = closed,
                                    !.terminated = down]
    BY <1>2 DEF SetState
  <2> HIDE DEF armed, down, closed
  <2> QED BY <2>1, <2>2, <2>3 DEF Session
<1> QED BY <1>1, <1>2

LEMMA SubmitAllType ==
    ASSUME NEW x \in Session, NEW fs \in Seq(Frame)
    PROVE SubmitAll(x, fs) \in Session
<1> DEFINE sent == [i \in DOMAIN fs |-> [fs[i] EXCEPT !.ok = Encodable(fs[i]) /\ x.sinkUp]]
<1>1. sent \in Seq(Frame)
  <2>1. Len(fs) \in Nat /\ DOMAIN fs = 1 .. Len(fs) /\ \A i \in DOMAIN fs : fs[i] \in Frame
    OBVIOUS
  <2>2. ASSUME NEW f \in Frame PROVE [f EXCEPT !.ok = Encodable(f) /\ x.sinkUp] \in Frame
    BY DEF Frame, Encodable
  <2>3. sent \in [1 .. Len(fs) -> Frame]
    BY <2>1, <2>2
  <2> QED BY <2>1, <2>3
<1>2. x.tx \o sent \in Seq(Frame)
  BY <1>1 DEF Session
<1> DEFINE refused == ~x.sinkUp /\ \E i \in DOMAIN fs : Encodable(fs[i])
           err == IF refused /\ ~x.txFailNotified THEN "tx-failed" ELSE x.err
<1>3. err \in Errors /\ (x.txFailNotified \/ refused) \in BOOLEAN
  BY DEF Errors, Session
<1>4. SubmitAll(x, fs) = [x EXCEPT !.tx = x.tx \o sent, !.err = err,
                                   !.txFailNotified = x.txFailNotified \/ refused]
  BY DEF SubmitAll
<1> HIDE DEF sent, refused, err
<1> QED BY <1>2, <1>3, <1>4 DEF Session

LEMMA UFrameType ==
    ASSUME NEW kind \in Kinds, NEW pf \in BOOLEAN, NEW cmd \in BOOLEAN
    PROVE  UFrame(kind, pf, cmd) \in Frame
  BY ModuliAssumption DEF UFrame, Frame, Nil, Stretch, Slots

LEMMA SubmitType ==
    ASSUME NEW x \in Session, NEW f \in Frame PROVE Submit(x, f) \in Session
<1>1. <<f>> \in Seq(Frame) OBVIOUS
<1> QED BY <1>1, SubmitAllType DEF Submit

LEMMA SendType ==
    ASSUME NEW x \in Session, NEW pf \in BOOLEAN, NEW cmd \in BOOLEAN
    PROVE  /\ SendSABM(x, pf) \in Session
           /\ SendDISC(x) \in Session
           /\ SendUA(x, pf) \in Session
           /\ SendDM(x, pf) \in Session
           /\ SendRR(x, pf, cmd) \in Session
           /\ SendREJ(x, pf) \in Session
<1>1. \A kind \in Kinds, p, c \in BOOLEAN : UFrame(kind, p, c) \in Frame
  BY UFrameType
<1>2. SendSABM(x, pf) \in Session /\ SendDISC(x) \in Session
      /\ SendUA(x, pf) \in Session /\ SendDM(x, pf) \in Session
  BY <1>1, SubmitType DEF SendSABM, SendDISC, SendUA, SendDM, Kinds
<1>3. SendRR(x, pf, cmd) \in Session
  <2>1. x.vr % Modulus(x) \in Slots
    <3>1. x.vr \in Nat BY DEF Session, Slots
    <3> QED BY <3>1, ModulusType, ModuliAssumption DEF Slots
  <2>2. UFrame("RR", pf, cmd) \in Frame BY <1>1 DEF Kinds
  <2>3. [UFrame("RR", pf, cmd) EXCEPT !.nr = x.vr % Modulus(x)] \in Frame
    BY <2>1, <2>2 DEF Frame
  <2> QED BY <2>3, SubmitType DEF SendRR
<1>4. SendREJ(x, pf) \in Session
  <2>1. UFrame("REJ", pf, FALSE) \in Frame BY <1>1 DEF Kinds
  <2>2. [UFrame("REJ", pf, FALSE) EXCEPT !.nr = x.vr] \in Frame
    BY <2>1 DEF Frame, Session
  <2> QED BY <2>2, SubmitType DEF SendREJ
<1> QED BY <1>2, <1>3, <1>4

-----------------------------------------------------------------------------
LEMMA BurstType == ASSUME NEW x \in Session PROVE Chunks(x) \in Nat /\ Burst(x) \in Nat
<1>1. Chunks(x) \in Nat
  <2>1. x.tail \in Nat /\ x.head \in Nat BY DEF Session
  <2>2. CASE x.tail > x.head
    <3>1. ASSUME NEW a \in Nat PROVE a \div Paclen \in Nat BY ConfigAssumption
    <3>2. x.tail - x.head + Paclen - 1 \in Nat BY <2>1, <2>2, ConfigAssumption
    <3> QED BY <2>2, <3>1, <3>2 DEF Chunks
  <2>3. CASE ~(x.tail > x.head) BY <2>3 DEF Chunks
  <2> QED BY <2>2, <2>3
<1>2. Outstanding(x) \in Int
  BY ModulusType DEF Outstanding, Dist, Session, Slots
<1> QED BY <1>1, <1>2, ModulusType DEF Burst, Session

LEMMA ChunkType ==
    ASSUME NEW x \in Session, NEW j \in Nat PROVE Chunk(x, j) \in Stretch
<1> DEFINE a == j * Paclen
           b == (j + 1) * Paclen
<1>1. Paclen \in Nat BY ConfigAssumption
<1>2. a \in Nat /\ b \in Nat BY <1>1
<1>3. x.head \in Nat /\ x.tail \in Nat BY DEF Session
<1>4. Chunk(x, j) = [lo |-> x.head + a,
                     hi |-> IF x.head + b <= x.tail THEN x.head + b ELSE x.tail]
  BY DEF Chunk
<1> HIDE DEF a, b
<1>5. x.head + a \in Nat /\ x.head + b \in Nat BY <1>2, <1>3
<1> QED BY <1>3, <1>4, <1>5 DEF Stretch

LEMMA DistType ==
    ASSUME NEW x \in Session, NEW a \in Int, NEW b \in Int PROVE Dist(x, a, b) \in Nat
  BY ModulusType DEF Dist

LEMMA KickType == ASSUME NEW x \in Session PROVE Kick(x) \in Session
<1> DEFINE k == Burst(x)
           frames == [j \in 1 .. k |->
                        [kind |-> "I", ns |-> SeqAfter(x, x.vs, j - 1), nr |-> x.vr, pf |-> FALSE,
                         cmd |-> TRUE, info |-> Chunk(x, j - 1), ok |-> TRUE]]
           sent == SubmitAll(x, frames)
           slots == [n \in Slots |-> IF n < Modulus(x) /\ Dist(x, x.vs, n) < k
                                     THEN Chunk(x, Dist(x, x.vs, n)) ELSE sent.pending[n]]
           head == IF k = 0 THEN sent.head ELSE Chunk(x, k - 1).hi
           vs == IF k = 0 THEN sent.vs ELSE SeqAfter(x, x.vs, k)
           cond == IF k > 0 THEN sent.cond \ {"ACK"} ELSE sent.cond
           armed == IF k > 0 /\ "ACK" \in x.cond THEN sent.armed \ {"T2"} ELSE sent.armed
           y == [sent EXCEPT !.pending = slots, !.head = head, !.vs = vs, !.cond = cond,
                             !.armed = armed]
<1>1. k \in Nat BY BurstType
<1>2. frames \in Seq(Frame)
  <2>1. ASSUME NEW j \in 1 .. k
        PROVE  [kind |-> "I", ns |-> SeqAfter(x, x.vs, j - 1), nr |-> x.vr, pf |-> FALSE,
                cmd |-> TRUE, info |-> Chunk(x, j - 1), ok |-> TRUE] \in Frame
    <3>1. j - 1 \in Nat BY <1>1
    <3>2. SeqAfter(x, x.vs, j - 1) \in Slots /\ x.vr \in Slots
      BY <3>1, SeqAfterType DEF Session, Slots
    <3>3. Chunk(x, j - 1) \in Stretch BY <3>1, ChunkType
    <3> QED BY <3>2, <3>3 DEF Frame, Kinds
  <2>2. frames \in [1 .. k -> Frame] BY <2>1
  <2> HIDE DEF frames, k
  <2> QED BY <1>1, <2>2
<1>3. sent \in Session BY <1>2, SubmitAllType
<1>4. slots \in [Slots -> Stretch]
  <2>1. ASSUME NEW n \in Slots PROVE Chunk(x, Dist(x, x.vs, n)) \in Stretch
    BY DistType, ChunkType DEF Session, Slots
  <2> HIDE DEF sent
  <2> QED BY <1>3, <2>1 DEF Session
<1>5. head \in Nat
  <2> HIDE DEF sent
  <2>1. CASE k = 0 BY <1>3, <2>1 DEF Session
  <2>2. CASE k # 0
    <3>1. k - 1 \in Nat BY <1>1, <2>2
    <3> QED BY <3>1, <2>2, ChunkType DEF Stretch
  <2> QED BY <2>1, <2>2
<1>6. vs \in Slots
  <2> HIDE DEF sent
  <2>1. SeqAfter(x, x.vs, k) \in Slots BY <1>1, SeqAfterType DEF Session, Slots
  <2> QED BY <1>3, <2>1 DEF Session
<1>7. cond \in SUBSET Conditions /\ armed \in SUBSET Timers
  <2> HIDE DEF sent
  <2> QED BY <1>3 DEF Session
<1>8. y \in Session
  <2> HIDE DEF sent, slots, head, vs, cond, armed
  <2> QED BY <1>3, <1>4, <1>5, <1>6, <1>7 DEF Session
<1>9. Kick(x) = IF x.st \notin {"CONNECTED", "TIMER_RECOVERY"} \/ "BUSY" \in x.cond \/ x.hung
                THEN x ELSE IF y.vs = y.va THEN y ELSE Stop(Arm(y, {"T1"}), {"T3"})
  BY DEF Kick
<1> HIDE DEF y
<1>10. Stop(Arm(y, {"T1"}), {"T3"}) \in Session
  BY <1>8, ArmType, StopType DEF Timers
<1> QED BY <1>8, <1>9, <1>10

LEMMA FramesAckedType ==
    ASSUME NEW x \in Session, NEW nr \in Slots PROVE FramesAcked(x, nr) \in Session
<1> DEFINE slots == [n \in Slots |->
                        IF n < Modulus(x) /\ Dist(x, x.va, n) < Dist(x, x.va, nr)
                        THEN Nil ELSE x.pending[n]]
           acked == IF nr = x.va THEN x.acked ELSE x.pending[(nr - 1) % Modulus(x)].hi
           freed == [x EXCEPT !.pending = slots, !.acked = acked, !.va = nr]
<1>1. slots \in [Slots -> Stretch] BY DEF Session, Nil, Stretch
<1>2. acked \in Nat
  <2>1. (nr - 1) % Modulus(x) \in Slots BY ModulusType, ModuliAssumption DEF Slots
  <2> QED BY <2>1 DEF Session, Stretch
<1>3. freed \in Session
  <2> HIDE DEF slots, acked
  <2> QED BY <1>1, <1>2 DEF Session
<1>4. FramesAcked(x, nr) = IF x.vs = nr THEN Arm(Stop(freed, {"T1"}), {"T3"}) ELSE Arm(freed, {"T1"})
  BY DEF FramesAcked
<1> HIDE DEF freed
<1> QED BY <1>3, <1>4, ArmType, StopType DEF Timers

LEMMA ModulusIn == ASSUME NEW x \in Session PROVE Modulus(x) \in {Mod8, Mod128}
  BY DEF Modulus

\* The requeue loop looks only at slots there are.
LEMMA VisitsType ==
    ASSUME NEW x \in Session, NEW mod \in {Mod8, Mod128}
    PROVE  Visits(x, mod) \subseteq Slots
<1>1. mod \in Nat \ {0} /\ mod <= Mod128 BY ModuliAssumption
<1>2. x.va \in Nat /\ x.va \in Slots BY DEF Session, Slots
<1>3. (x.vs - x.va - 1) % mod \in Nat BY <1>1, <1>2 DEF Session, Slots
<1>4. ASSUME NEW j \in Nat PROVE (x.va + j) % mod \in Slots
  <2> DEFINE c == x.va + j
  <2>1. c \in Nat BY <1>2
  <2>2. c % mod \in 0 .. (mod - 1) BY <1>1, <2>1
  <2> QED BY <1>1, <2>2, ModuliAssumption DEF Slots
<1> QED BY <1>2, <1>3, <1>4 DEF Visits

\* Its four outcomes: nothing to put back, no end, everything back, a torn stream.
Hangs(x) == [x EXCEPT !.hung = TRUE]
PutsBack(x, slots) ==
    [[x EXCEPT !.pending = slots, !.vs = x.va] EXCEPT !.head = x.pending[x.va].lo]
Tears(x, slots, k) ==
    [[x EXCEPT !.pending = slots, !.vs = x.va]
      EXCEPT !.head = 0, !.acked = 0, !.torn = TRUE, !.tail = k]

LEMMA RequeueCases ==
    ASSUME NEW x \in Session, NEW mod \in {Mod8, Mod128}
    PROVE  \/ x.vs = x.va /\ RequeueFromVA(x, mod) = x
           \/ x.vs # x.va /\ RequeueFromVA(x, mod) = Hangs(x)
           \/ /\ x.vs # x.va
              /\ \E slots \in [Slots -> Stretch] :
                    RequeueFromVA(x, mod) = PutsBack(x, slots)
           \/ /\ x.vs # x.va
              /\ \E slots \in [Slots -> Stretch], k \in Nat :
                    RequeueFromVA(x, mod) = Tears(x, slots, k)
<1> DEFINE found == { n \in Visits(x, mod) : x.pending[n].lo < x.pending[n].hi }
           bytes == { b \in found \X (1 .. Paclen) :
                         b[2] <= x.pending[b[1]].hi - x.pending[b[1]].lo }
           slots == [n \in Slots |-> IF n \in found THEN Nil ELSE x.pending[n]]
           back == [x EXCEPT !.pending = slots, !.vs = x.va]
<1>1. slots \in [Slots -> Stretch] BY DEF Session, Nil, Stretch
<1>2. Cardinality(bytes) \in Nat
  <2>1. Mod128 - 1 \in Int /\ Paclen \in Int BY ModuliAssumption, ConfigAssumption
  <2>2. IsFiniteSet(Slots) /\ IsFiniteSet(1 .. Paclen) BY <2>1, FS_Interval DEF Slots
  <2>3. found \in SUBSET Slots BY VisitsType
  <2>4. IsFiniteSet(found) BY <2>2, <2>3, FS_Subset
  <2> HIDE DEF found
  <2>5. IsFiniteSet(found \X (1 .. Paclen)) BY <2>2, <2>4, FS_Product
  <2>6. bytes \in SUBSET (found \X (1 .. Paclen)) OBVIOUS
  <2>7. IsFiniteSet(bytes) BY <2>5, <2>6, FS_Subset
  <2> QED BY <2>7, FS_CardinalityType
<1>3. RequeueFromVA(x, mod) =
        IF x.vs = x.va THEN x
        ELSE IF x.vs >= mod THEN [x EXCEPT !.hung = TRUE]
        ELSE IF found = LiveSlots(x) THEN [back EXCEPT !.head = x.pending[x.va].lo]
        ELSE [back EXCEPT !.head = 0, !.acked = 0, !.torn = TRUE,
                          !.tail = Cardinality(bytes) + Cardinality((x.head + 1) .. x.tail)]
  BY DEF RequeueFromVA
<1> DEFINE k == Cardinality(bytes) + Cardinality((x.head + 1) .. x.tail)
<1>4. k \in Nat
  <2>1. x.head + 1 \in Int /\ x.tail \in Int BY DEF Session
  <2>2. IsFiniteSet((x.head + 1) .. x.tail) BY <2>1, FS_Interval
  <2>3. Cardinality((x.head + 1) .. x.tail) \in Nat BY <2>2, FS_CardinalityType
  <2> HIDE DEF bytes
  <2> QED BY <1>2, <2>3
<1> HIDE DEF k, found, slots
<1> QED BY <1>1, <1>3, <1>4 DEF k, Hangs, PutsBack, Tears

LEMMA RequeueFromVAType ==
    ASSUME NEW x \in Session, NEW mod \in {Mod8, Mod128} PROVE RequeueFromVA(x, mod) \in Session
<1>1. Hangs(x) \in Session BY DEF Session, Hangs
<1>2. ASSUME NEW slots \in [Slots -> Stretch], NEW k \in Nat
      PROVE  PutsBack(x, slots) \in Session /\ Tears(x, slots, k) \in Session
  <2>1. x.pending[x.va].lo \in Nat BY DEF Session, Stretch
  <2>2. PutsBack(x, slots) \in Session BY <2>1 DEF Session, PutsBack
  <2>3. Tears(x, slots, k) \in Session BY DEF Session, Tears
  <2> QED BY <2>2, <2>3
<1> DEFINE Typed(y) == y \in Session
<1>3. \A slots \in [Slots -> Stretch] : Typed(PutsBack(x, slots)) BY <1>2
<1>4. \A slots \in [Slots -> Stretch], k \in Nat : Typed(Tears(x, slots, k)) BY <1>2
<1>5. Typed(x) /\ Typed(Hangs(x)) BY <1>1
<1> HIDE DEF Typed
<1>6. Typed(RequeueFromVA(x, mod)) BY <1>3, <1>4, <1>5, RequeueCases, Zenon
<1> QED BY <1>6 DEF Typed

LEMMA RequeueType == ASSUME NEW x \in Session PROVE Requeue(x) \in Session
  BY ModulusIn, RequeueFromVAType DEF Requeue

LEMMA DropQueuesType == ASSUME NEW x \in Session PROVE DropQueues(x) \in Session
<1>1. [n \in Slots |-> Nil] \in [Slots -> Stretch] BY DEF Nil, Stretch
<1> QED BY <1>1 DEF DropQueues, Session

-----------------------------------------------------------------------------
LEMMA FieldType ==
    ASSUME NEW x \in Session, NEW b \in BOOLEAN
    PROVE  /\ [x EXCEPT !.tx = <<>>] \in Session
           /\ [x EXCEPT !.cond = {}, !.n2 = 0] \in Session
           /\ [x EXCEPT !.n2 = 0] \in Session
           /\ [x EXCEPT !.n2 = 0, !.cond = {}] \in Session
           /\ [x EXCEPT !.n2 = @ + 1] \in Session
           /\ [x EXCEPT !.cond = @ \ {"ACK"}] \in Session
           /\ [x EXCEPT !.cond = @ \cup {"ACK"}] \in Session
           /\ [x EXCEPT !.cond = (@ \cup {"REJ"}) \ {"ACK"}] \in Session
           /\ [x EXCEPT !.mod128 = b, !.win = IF b THEN DefWin128 ELSE DefWin8] \in Session
           /\ [x EXCEPT !.vs = 0, !.vr = 0, !.va = 0] \in Session
<1>1. [x EXCEPT !.cond = @ \cup {"ACK"}] \in Session
      /\ [x EXCEPT !.cond = (@ \cup {"REJ"}) \ {"ACK"}] \in Session
  BY DEF Session, Conditions
<1>2. (IF b THEN DefWin128 ELSE DefWin8) \in Nat BY ModuliAssumption
<1>3. [x EXCEPT !.mod128 = b, !.win = IF b THEN DefWin128 ELSE DefWin8] \in Session
  BY <1>2 DEF Session
<1>4. 0 \in Slots BY ModuliAssumption DEF Slots
<1>5. [x EXCEPT !.vs = 0, !.vr = 0, !.va = 0] \in Session BY <1>4 DEF Session
<1>6. [x EXCEPT !.tx = <<>>] \in Session
  <2>1. <<>> \in Seq(Frame) OBVIOUS
  <2> QED BY <2>1 DEF Session
<1>7. [x EXCEPT !.cond = {}, !.n2 = 0] \in Session
      /\ [x EXCEPT !.n2 = 0] \in Session
      /\ [x EXCEPT !.n2 = 0, !.cond = {}] \in Session
      /\ [x EXCEPT !.n2 = @ + 1] \in Session
  <2>1. {} \in SUBSET Conditions /\ x.n2 + 1 \in Nat BY DEF Session
  <2>2. [x EXCEPT !.cond = {}, !.n2 = 0] \in Session BY <2>1 DEF Session
  <2>3. [x EXCEPT !.n2 = 0, !.cond = {}] \in Session BY <2>1 DEF Session
  <2>4. [x EXCEPT !.n2 = 0] \in Session BY DEF Session
  <2>5. [x EXCEPT !.n2 = @ + 1] \in Session BY <2>1 DEF Session
  <2> QED BY <2>2, <2>3, <2>4, <2>5
<1>8. [x EXCEPT !.cond = @ \ {"ACK"}] \in Session BY DEF Session
<1> QED BY <1>1, <1>3, <1>5, <1>6, <1>7, <1>8

LEMMA DropType ==
    ASSUME NEW x \in Session, NEW e \in Errors
    PROVE  Drop(x, e) \in Session /\ PeerGone(x, e) \in Session
<1>1. ASSUME NEW y \in Session PROVE Drop(y, e) \in Session
  <2>1. [y EXCEPT !.err = e] \in Session BY DEF Session
  <2> QED BY <2>1, SetStateType DEF Drop, States
<1>2. Stop(DropQueues(x), {"T1", "T2", "T3", "HB"}) \in Session
  BY DropQueuesType, StopType DEF Timers
<1> QED BY <1>1, <1>2 DEF PeerGone

LEMMA EstablishType == ASSUME NEW x \in Session PROVE EstablishDataLink(x) \in Session
<1> DEFINE y == Stop([x EXCEPT !.cond = {}, !.n2 = 0], {"T1", "T2", "T3"})
<1>1. y \in Session BY FieldType, StopType DEF Timers
<1>2. x.mod128 \in BOOLEAN BY DEF Session
<1> HIDE DEF y
<1>3. Arm(SendSABM(y, x.mod128), {"T1"}) \in Session
  BY <1>1, <1>2, SendType, ArmType DEF Timers
<1> QED BY <1>3, SetStateType DEF EstablishDataLink, States, y

LEMMA EnquireType ==
    ASSUME NEW x \in Session, NEW n \in Nat
    PROVE  TransmitEnquiry(x) \in Session /\ Enquire(x, n) \in Session
<1>1. ASSUME NEW y \in Session PROVE TransmitEnquiry(y) \in Session
  <2>1. SendRR(y, TRUE, TRUE) \in Session BY SendType
  <2>2. [SendRR(y, TRUE, TRUE) EXCEPT !.cond = @ \ {"ACK"}] \in Session
    BY <2>1, FieldType
  <2> QED BY <2>2, StopType DEF TransmitEnquiry, Timers
<1>2. [x EXCEPT !.n2 = n] \in Session BY DEF Session
<1> QED BY <1>1, <1>2, ArmType DEF Enquire, Timers

LEMMA ReleaseType == ASSUME NEW x \in Session PROVE StartRelease(x) \in Session
<1>1. [DropQueues(x) EXCEPT !.n2 = 0] \in Session BY DropQueuesType, FieldType
<1>2. Stop(SendDISC([DropQueues(x) EXCEPT !.n2 = 0]), {"T2", "T3"}) \in Session
  BY <1>1, SendType, StopType DEF Timers
<1> QED BY <1>2, ArmType, SetStateType DEF StartRelease, Timers, States

LEMMA RebindType ==
    ASSUME NEW x \in Session, NEW f \in Frame PROVE Rebind(x, f) \in Session
<1> DEFINE wide == f.kind = "SABME"
           q == RequeueFromVA(x, IF wide THEN Mod128 ELSE Mod8)
           r == SetModulus(q, wide)
           y == [ZeroSeq(r) EXCEPT !.n2 = 0, !.cond = {}]
<1>1. r \in Session
  <2>1. q \in Session BY RequeueFromVAType
  <2> HIDE DEF q
  <2> QED BY <2>1, FieldType DEF SetModulus
<1> HIDE DEF r
<1>2. y \in Session BY <1>1, FieldType DEF ZeroSeq
<1> HIDE DEF y
<1>3. Arm(Stop(y, {"T1", "T2"}), {"T3"}) \in Session
  BY <1>2, StopType, ArmType DEF Timers
<1>4. f.pf \in BOOLEAN BY DEF Frame
<1>5. SendUA(Arm(Stop(y, {"T1", "T2"}), {"T3"}), f.pf) \in Session
  BY <1>3, <1>4, SendType
<1> QED BY <1>1, <1>5 DEF Rebind, q, r, y

LEMMA PeerBusyType ==
    ASSUME NEW x \in Session, NEW f \in Frame
    PROVE  PeerBusy(x, f) \in Session /\ AnswerPoll(x, f) \in Session
<1>1. PeerBusy(x, f) \in Session BY DEF PeerBusy, Session, Conditions
<1>2. AnswerPoll(x, f) \in Session BY SendType DEF AnswerPoll
<1> QED BY <1>1, <1>2

LEMMA ReceiveIType ==
    ASSUME NEW x \in Session, NEW f \in Frame PROVE ReceiveI(x, f) \in Session
<1>1. f.nr \in Slots /\ f.pf \in BOOLEAN /\ f.info \in Stretch BY DEF Frame
<1>2. ASSUME NEW y \in Session PROVE Deliver(y, f) \in Session
  <2> DEFINE z == [y EXCEPT !.vr = SeqAfter(y, y.vr, 1),
                            !.cond = @ \ {"REJ"},
                            !.shown = IF f.info.lo = f.info.hi THEN @ ELSE Append(@, f.info)]
  <2>1. SeqAfter(y, y.vr, 1) \in Slots
    <3>1. y.vr \in Int BY DEF Session, Slots
    <3> QED BY <3>1, SeqAfterType
  <2>2. (IF f.info.lo = f.info.hi THEN y.shown ELSE Append(y.shown, f.info)) \in Seq(Stretch)
    BY <1>1 DEF Session
  <2>3. z \in Session BY <2>1, <2>2 DEF Session
  <2> HIDE DEF z
  <2>4. [z EXCEPT !.cond = @ \ {"ACK"}] \in Session /\ [z EXCEPT !.cond = @ \cup {"ACK"}] \in Session
    BY <2>3, FieldType
  <2>5. Stop(SendRR([z EXCEPT !.cond = @ \ {"ACK"}], TRUE, FALSE), {"T2"}) \in Session
    BY <2>4, SendType, StopType DEF Timers
  <2>6. Arm([z EXCEPT !.cond = @ \cup {"ACK"}], {"T2"}) \in Session
    BY <2>4, ArmType DEF Timers
  <2> QED BY <2>3, <2>5, <2>6 DEF Deliver, z
<1>3. ASSUME NEW y \in Session PROVE OutOfSequence(y, f) \in Session
  <2>1. Stop([y EXCEPT !.cond = (@ \cup {"REJ"}) \ {"ACK"}], {"T2"}) \in Session
    BY FieldType, StopType DEF Timers
  <2>2. SendREJ(Stop([y EXCEPT !.cond = (@ \cup {"REJ"}) \ {"ACK"}], {"T2"}), f.pf) \in Session
    BY <1>1, <2>1, SendType
  <2> QED BY <2>2, SendType DEF OutOfSequence
<1>4. FramesAcked(x, f.nr) \in Session BY <1>1, FramesAckedType
<1> QED BY <1>2, <1>3, <1>4 DEF ReceiveI

-----------------------------------------------------------------------------
LEMMA ConnectedFrameType ==
    ASSUME NEW x \in Session, NEW f \in Frame PROVE ConnectedFrame(x, f) \in Session
<1>1. f.nr \in Slots /\ f.pf \in BOOLEAN /\ f.kind \in Kinds BY DEF Frame
<1>2. Kick(IF f.cmd THEN Rebind(x, f) ELSE x) \in Session BY RebindType, KickType
<1>3. PeerGone(SendUA(x, f.pf), "peer-disconnected") \in Session /\ Kick(x) \in Session
      /\ PeerGone(x, "peer-reset") \in Session
  BY <1>1, SendType, DropType, KickType DEF Errors
<1>4. EstablishDataLink(x) \in Session BY EstablishType
<1> DEFINE acked == FramesAcked(AnswerPoll(PeerBusy(x, f), f), f.nr)
<1>5. acked \in Session BY <1>1, PeerBusyType, FramesAckedType
<1> HIDE DEF acked
<1>6. Kick(acked) \in Session BY <1>5, KickType
<1>7. Kick(Arm(Stop(Requeue(acked), {"T1"}), {"T3"})) \in Session
  <2>1. Stop(Requeue(acked), {"T1"}) \in Session
    BY <1>5, RequeueType, StopType DEF Timers
  <2> QED BY <2>1, ArmType, KickType DEF Timers
<1>8. Kick(ReceiveI(x, f)) \in Session BY ReceiveIType, KickType
<1> QED BY <1>2, <1>3, <1>4, <1>6, <1>7, <1>8 DEF ConnectedFrame, acked

LEMMA RecoverySupervisoryType ==
    ASSUME NEW x \in Session, NEW f \in Frame PROVE RecoverySupervisory(x, f) \in Session
<1> DEFINE b == PeerBusy(x, f)
           y == IF ~f.cmd /\ f.pf
                THEN FramesAcked(Stop([b EXCEPT !.n2 = 0], {"T1"}), f.nr)
                ELSE FramesAcked(AnswerPoll(b, f), f.nr)
           z == IF f.kind = "REJ" THEN Requeue(y) ELSE y
<1>1. f.nr \in Slots BY DEF Frame
<1>2. b \in Session BY PeerBusyType
<1> HIDE DEF b
<1>3. y \in Session
  <2>1. Stop([b EXCEPT !.n2 = 0], {"T1"}) \in Session BY <1>2, FieldType, StopType DEF Timers
  <2>2. AnswerPoll(b, f) \in Session BY <1>2, PeerBusyType
  <2> QED BY <1>1, <2>1, <2>2, FramesAckedType
<1> HIDE DEF y
<1>4. z \in Session BY <1>3, RequeueType
<1> HIDE DEF z
<1>5. CaughtUp(z) \in Session
  BY <1>4, ArmType, SetStateType DEF CaughtUp, Timers, States
<1> QED BY <1>4, <1>5, KickType DEF RecoverySupervisory, z, y, b

LEMMA TimerRecoveryFrameType ==
    ASSUME NEW x \in Session, NEW f \in Frame PROVE TimerRecoveryFrame(x, f) \in Session
<1>1. f.pf \in BOOLEAN BY DEF Frame
<1>2. Kick(x) \in Session /\ Rebind(x, f) \in Session BY RebindType, KickType
<1>3. Kick(SetState(Rebind(x, f), "CONNECTED")) \in Session
  BY <1>2, SetStateType, KickType DEF States
<1>4. PeerGone(SendUA(x, f.pf), "peer-disconnected") \in Session
      /\ PeerGone(x, "peer-reset") \in Session
  BY <1>1, SendType, DropType DEF Errors
<1>5. EstablishDataLink(x) \in Session BY EstablishType
<1>6. Kick(ReceiveI(x, f)) \in Session BY ReceiveIType, KickType
<1> QED BY <1>2, <1>3, <1>4, <1>5, <1>6, RecoverySupervisoryType DEF TimerRecoveryFrame

LEMMA SetModulusType ==
    ASSUME NEW x \in Session, NEW b \in BOOLEAN PROVE SetModulus(x, b) \in Session
  BY FieldType DEF SetModulus

LEMMA AwaitingConnectionFrameType ==
    ASSUME NEW x \in Session, NEW f \in Frame PROVE AwaitingConnectionFrame(x, f) \in Session
<1>1. f.pf \in BOOLEAN BY DEF Frame
<1>2. SendUA(SetModulus(x, f.kind = "SABME"), f.pf) \in Session /\ SendDM(x, f.pf) \in Session
  BY <1>1, SetModulusType, SendType
<1>3. SetModulus(x, FALSE) \in Session /\ Drop(Stop(x, {"T1"}), "peer-rejected") \in Session
  BY SetModulusType, StopType, DropType DEF Timers, Errors
<1>4. LinkUp(x) \in Session
  <2> DEFINE y == [ZeroSeq(x) EXCEPT !.n2 = 0, !.acked = x.head]
  <2>1. ZeroSeq(x) \in Session BY FieldType DEF ZeroSeq
  <2>2. x.head \in Nat BY DEF Session
  <2>3. y \in Session BY <2>1, <2>2 DEF Session
  <2> HIDE DEF y
  <2>4. Arm(Stop(y, {"T1"}), {"T3"}) \in Session BY <2>3, StopType, ArmType DEF Timers
  <2> QED BY <2>4, SetStateType DEF LinkUp, y, States
<1> QED BY <1>2, <1>3, <1>4 DEF AwaitingConnectionFrame

LEMMA OtherFrameType ==
    ASSUME NEW x \in Session, NEW f \in Frame
    PROVE  AwaitingReleaseFrame(x, f) \in Session /\ DisconnectedFrame(x, f) \in Session
<1>1. f.pf \in BOOLEAN BY DEF Frame
<1>2. SendDM(x, f.pf) \in Session /\ SendDM(x, TRUE) \in Session /\ SendUA(x, f.pf) \in Session
  BY <1>1, SendType
<1>3. SetState(Stop(SendUA(x, f.pf), {"T1"}), "DISCONNECTED") \in Session
      /\ SetState(Stop(x, {"T1"}), "DISCONNECTED") \in Session
  BY <1>2, StopType, SetStateType DEF Timers, States
<1> QED BY <1>2, <1>3 DEF AwaitingReleaseFrame, DisconnectedFrame

LEMMA ExpiryType ==
    ASSUME NEW x \in Session
    PROVE  /\ T1Expiry(x) \in Session
           /\ T2Expiry(x) \in Session
           /\ T3Expiry(x) \in Session
           /\ HeartbeatTick(x) \in Session
           /\ StatsTick(x) \in Session
<1>1. x.n2 + 1 \in Nat /\ x.mod128 \in BOOLEAN BY DEF Session
<1>2. Enquire(x, 0) \in Session /\ Enquire(x, 1) \in Session /\ Enquire(x, x.n2 + 1) \in Session
  BY <1>1, EnquireType
<1>3. SetState(Enquire(x, 0), "TIMER_RECOVERY") \in Session
      /\ SetState(Enquire(x, 1), "TIMER_RECOVERY") \in Session
      /\ Kick(Enquire(x, x.n2 + 1)) \in Session /\ Kick(x) \in Session
  BY <1>2, SetStateType, KickType DEF States
<1>4. PeerGone(SendDM(x, TRUE), "ack-timeout") \in Session
      /\ Drop(x, "link-establish-timeout") \in Session
      /\ Drop(SendDISC(x), "disc-timeout") \in Session
  <2>1. SendDM(x, TRUE) \in Session /\ SendDISC(x) \in Session BY SendType
  <2> QED BY <2>1, DropType DEF Errors
<1>5. Arm(SendSABM([x EXCEPT !.n2 = @ + 1], x.mod128), {"T1"}) \in Session
      /\ Arm(SendDISC([x EXCEPT !.n2 = @ + 1]), {"T1"}) \in Session
  BY <1>1, FieldType, SendType, ArmType DEF Timers
<1>6. Arm(SendSABM([SetModulus(x, FALSE) EXCEPT !.n2 = 0], FALSE), {"T1"}) \in Session
  <2>1. [SetModulus(x, FALSE) EXCEPT !.n2 = 0] \in Session BY SetModulusType, FieldType
  <2> QED BY <2>1, SendType, ArmType DEF Timers
<1>7. T1Expiry(x) \in Session BY <1>3, <1>4, <1>5, <1>6 DEF T1Expiry
<1>8. T2Expiry(x) \in Session
  <2>1. SendRR([x EXCEPT !.cond = @ \ {"ACK"}], FALSE, FALSE) \in Session
    BY FieldType, SendType
  <2> QED BY <2>1, KickType DEF T2Expiry
<1>9. T3Expiry(x) \in Session BY <1>3 DEF T3Expiry
<1>10. HeartbeatTick(x) \in Session /\ StatsTick(x) \in Session
  BY ArmType DEF HeartbeatTick, StatsTick, Timers
<1> QED BY <1>7, <1>8, <1>9, <1>10

LEMMA OperatorType ==
    ASSUME NEW x \in Session, NEW n \in Nat
    PROVE  /\ OperatorConnect(x) \in Session
           /\ OperatorData(x, n) \in Session
           /\ OperatorDisconnect(x) \in Session
<1>1. OperatorConnect(x) \in Session
  <2> DEFINE y == [ZeroSeq(x) EXCEPT !.n2 = 0, !.cond = {}]
  <2>1. y \in Session /\ x.mod128 \in BOOLEAN
    <3>1. ZeroSeq(x) \in Session BY FieldType DEF ZeroSeq
    <3>2. x.mod128 \in BOOLEAN BY DEF Session
    <3> QED BY <3>1, <3>2, FieldType
  <2> HIDE DEF y
  <2>2. Arm(SendSABM(y, x.mod128), {"T1", "HB"}) \in Session
    BY <2>1, SendType, ArmType DEF Timers
  <2> QED BY <2>2, SetStateType, KickType DEF OperatorConnect, y, States
<1>2. OperatorData(x, n) \in Session
  <2>1. [x EXCEPT !.tail = @ + n] \in Session
    <3>1. x.tail + n \in Nat BY DEF Session
    <3> QED BY <3>1 DEF Session
  <2> QED BY <2>1, KickType DEF OperatorData
<1>3. OperatorDisconnect(x) \in Session
  <2>1. [SendDISC(x) EXCEPT !.n2 = 0] \in Session BY SendType, FieldType
  <2>2. SetState(Arm([SendDISC(x) EXCEPT !.n2 = 0], {"T1"}), "AWAITING_RELEASE") \in Session
    BY <2>1, ArmType, SetStateType DEF Timers, States
  <2> QED BY <2>2, ReleaseType DEF OperatorDisconnect
<1> QED BY <1>1, <1>2, <1>3

LEMMA HandledType ==
    ASSUME NEW x \in Session PROVE Cleanup(x) \in Session /\ Handled(x) \in Session
<1>1. Cleanup(x) \in Session
  <2>1. {} \in SUBSET Timers /\ (IF x.terminated THEN x.closed ELSE x.closed + 1) \in Nat
    BY DEF Session
  <2> QED BY <2>1 DEF Cleanup, Session
<1> QED BY <1>1 DEF Handled

LEMMA FramesType == Frames \subseteq Frame
<1> SUFFICES ASSUME NEW f \in Frames PROVE f \in Frame OBVIOUS
<1>1. f \in [kind : PeerKinds, ns : Slots, nr : Slots, pf : BOOLEAN,
             cmd : BOOLEAN, info : {Nil}, ok : {TRUE}]
  BY DEF Frames
<1>2. PeerKinds \subseteq Kinds /\ Nil \in Stretch BY RunAssumption DEF Nil, Stretch
<1> QED BY <1>1, <1>2 DEF Frame

-----------------------------------------------------------------------------
\* Every session the run loop produces is a session record, whatever frames,
\* expiries and commands come, in whatever order.
THEOREM TypeCorrect == Spec => []TypeOK
<1>1. Init => TypeOK
  <2>1. Init => NewSession \in Session
    <3>1. 0 \in Slots /\ [n \in Slots |-> Nil] \in [Slots -> Stretch]
      BY ModuliAssumption DEF Slots, Nil, Stretch
    <3>2. <<>> \in Seq(Frame) /\ <<>> \in Seq(Stretch) OBVIOUS
    <3> QED BY <3>1, <3>2, ConfigAssumption DEF NewSession, Session, States, Errors
  <2> QED BY <2>1 DEF Init, TypeOK
<1>2. TypeOK /\ [Next]_vars => TypeOK'
  <2> SUFFICES ASSUME TypeOK, [Next]_vars PROVE TypeOK'
    OBVIOUS
  <2>1. s \in Session /\ now \in Session BY FieldType DEF TypeOK, now
  <2>2. CASE UNCHANGED vars BY <2>2 DEF TypeOK, vars
  <2>3. ASSUME NEW t \in Timers, TimerFires(t) PROVE TypeOK'
    <3>1. [s EXCEPT !.armed = @ \ {t}, !.tx = <<>>] \in Session
      <4>1. <<>> \in Seq(Frame) OBVIOUS
      <4> QED BY <2>1, <4>1 DEF Session
    <3> QED BY <2>3, <3>1 DEF TimerFires, TypeOK
  <2>4. CASE SwapPending BY <2>1, <2>4 DEF SwapPending, TypeOK
  <2>5. ASSUME NEW t \in Timers, NEW x \in Session, HandleTimer(t, x) PROVE TypeOK'
    BY <2>5, HandledType DEF HandleTimer, TypeOK
  <2>6. CASE OnT1 \/ OnT2 \/ OnT3 \/ OnHeartbeat \/ OnStatsTick
    BY <2>1, <2>5, <2>6, ExpiryType DEF OnT1, OnT2, OnT3, OnHeartbeat, OnStatsTick, Timers
  <2>7. ASSUME NEW x \in Session, Handle(x) PROVE TypeOK'
    BY <2>7, HandledType DEF Handle, TypeOK
  <2>8. ASSUME NEW f \in Frames, RxFrame(f) PROVE TypeOK'
    <3>1. f \in Frame BY FramesType
    <3> QED BY <2>1, <2>7, <2>8, <3>1, OtherFrameType, AwaitingConnectionFrameType,
               ConnectedFrameType, TimerRecoveryFrameType
            DEF RxFrame, RxDisconnected, RxAwaitingConnection, RxConnected, RxTimerRecovery,
                RxAwaitingRelease
  <2>9. CASE Connect \/ Disconnect
    BY <2>1, <2>7, <2>9, OperatorType DEF Connect, Disconnect
  <2>10. ASSUME NEW n \in 1 .. MaxBytes, TypeData(n) PROVE TypeOK'
    <3>1. n \in Nat BY ConfigAssumption
    <3>2. OperatorData(now, n) \in Session BY <2>1, <3>1, OperatorType
    <3> QED BY <2>7, <2>10, <3>2 DEF TypeData
  <2>11. CASE Shutdown BY <2>1, <2>11, HandledType DEF Shutdown, TypeOK
  <2>12. CASE BackendChanges
    <3>1. [now EXCEPT !.sinkUp = ~@] \in Session BY <2>1 DEF Session
    <3> QED BY <2>12, <3>1 DEF BackendChanges, TypeOK
  <2> QED BY <2>2, <2>3, <2>4, <2>6, <2>8, <2>9, <2>10, <2>11, <2>12 DEF Next, Drain, Operator
<1> QED BY <1>1, <1>2, PTL DEF Spec
-----------------------------------------------------------------------------
(* NeverDeaf and ClosedOnce.  What they need of a session: where it is, its *)
(* send window, T1 and T3, and whether it has ended.                        *)

Core(x, y) ==
    /\ y.st = x.st /\ y.vs = x.vs /\ y.va = x.va /\ y.hung = x.hung
    /\ y.closed = x.closed /\ y.terminated = x.terminated /\ y.exited = x.exited
Probes == {"T1", "T3"}
Same(x, y) == Core(x, y) /\ y.armed \cap Probes = x.armed \cap Probes

IsOpen(x) == x.st \in {"CONNECTED", "TIMER_RECOVERY"}
Begun(x) == x.exited = FALSE /\ x.terminated # TRUE /\ x.closed = 0

\* A session in the middle of its life, T being the expiries that wait for Run: T1 runs
\* or waits wherever an answer is due, and the observer was told of an end at most once.
Watched(x, T) ==
    /\ IsOpen(x) /\ x.vs # x.va => "T1" \in x.armed \cup T
    /\ x.st = "CONNECTED" => "T1" \in x.armed \cup T \/ "T3" \in x.armed \cup T
    /\ x.st \in {"AWAITING_CONNECTION", "AWAITING_RELEASE"} => "T1" \in x.armed \cup T
Ended(x) == x.exited = FALSE /\ x.terminated = TRUE /\ x.closed = 1
Sound(x, T) == Ended(x) \/ (Begun(x) /\ (x.hung = TRUE \/ Watched(x, T)))

LEMMA SameSound ==
    ASSUME NEW x, NEW y, NEW T, Same(x, y), Sound(x, T) PROVE Sound(y, T)
BY DEF Same, Core, Probes, Sound, Ended, Begun, Watched, IsOpen

LEMMA SameTrans == ASSUME NEW x, NEW y, NEW z, Same(x, y), Same(y, z) PROVE Same(x, z)
BY DEF Same, Core

LEMMA ArmView ==
    ASSUME NEW x \in Session, NEW ts
    PROVE  /\ Core(x, Arm(x, ts)) /\ Arm(x, ts).armed = x.armed \cup ts
           /\ Core(x, Stop(x, ts)) /\ Stop(x, ts).armed = x.armed \ ts
BY DEF Arm, Stop, Core, Session

LEMMA StopT2 == ASSUME NEW x \in Session PROVE Same(x, Stop(x, {"T2"})) /\ Same(x, Arm(x, {"T2"}))
BY ArmView DEF Same, Probes

LEMMA FieldSame ==
    ASSUME NEW x \in Session, NEW a, NEW b, NEW c
    PROVE  /\ Same(x, [x EXCEPT !.tx = a])
           /\ Same(x, [x EXCEPT !.tx = a, !.err = b, !.txFailNotified = c])
           /\ Same(x, [x EXCEPT !.cond = a])
           /\ Same(x, [x EXCEPT !.n2 = a])
           /\ Same(x, [x EXCEPT !.cond = a, !.n2 = b])
           /\ Same(x, [x EXCEPT !.n2 = a, !.cond = b])
           /\ Same(x, [x EXCEPT !.mod128 = a, !.win = b])
           /\ Same(x, [x EXCEPT !.vr = a, !.cond = b, !.shown = c])
           /\ Same(x, [x EXCEPT !.pending = a, !.head = b])
           /\ Same(x, [x EXCEPT !.tail = a])
           /\ Same(x, [x EXCEPT !.err = a])
           /\ Same(x, [x EXCEPT !.sinkUp = a])
BY DEF Same, Core, Session

LEMMA SendSame ==
    ASSUME NEW x \in Session, NEW a, NEW b
    PROVE  /\ Same(x, SubmitAll(x, a))
           /\ Same(x, SendSABM(x, a)) /\ Same(x, SendDISC(x)) /\ Same(x, SendUA(x, a))
           /\ Same(x, SendDM(x, a)) /\ Same(x, SendRR(x, a, b)) /\ Same(x, SendREJ(x, a))
<1>1. ASSUME NEW fs PROVE Same(x, SubmitAll(x, fs))
  <2> DEFINE tx == x.tx \o [i \in DOMAIN fs |-> [fs[i] EXCEPT !.ok = Encodable(fs[i]) /\ x.sinkUp]]
             refused == ~x.sinkUp /\ \E i \in DOMAIN fs : Encodable(fs[i])
             err == IF refused /\ ~x.txFailNotified THEN "tx-failed" ELSE x.err
             told == x.txFailNotified \/ refused
  <2>1. SubmitAll(x, fs) = [x EXCEPT !.tx = tx, !.err = err, !.txFailNotified = told]
    BY DEF SubmitAll
  <2> HIDE DEF tx, refused, err, told
  <2> QED BY <2>1 DEF Same, Core, Session
<1> QED BY <1>1 DEF SendSABM, SendDISC, SendUA, SendDM, SendRR, SendREJ, Submit

LEMMA SetStateView ==
    ASSUME NEW x \in Session, NEW ns \in States
    PROVE  LET y == SetState(x, ns)
           IN  /\ y.st = ns /\ y.vs = x.vs /\ y.va = x.va /\ y.hung = x.hung /\ y.exited = x.exited
               /\ y.armed \cap Probes = x.armed \cap Probes
               /\ ns # "DISCONNECTED" => y.closed = x.closed /\ y.terminated = x.terminated
               /\ ns = "DISCONNECTED" /\ x.st # ns => y.closed = x.closed + 1 /\ y.terminated = TRUE
<1>1. CASE ns = x.st BY <1>1 DEF SetState
<1>2. CASE ns # x.st
  <2> DEFINE armed == (IF x.st = "CONNECTED" THEN x.armed \ {"STATS"} ELSE x.armed)
                      \cup (IF ns = "CONNECTED" THEN {"STATS"} ELSE {})
             down == x.terminated \/ ns = "DISCONNECTED"
             closed == IF ns = "DISCONNECTED" THEN x.closed + 1 ELSE x.closed
  <2>1. armed \cap Probes = x.armed \cap Probes BY DEF Probes
  <2>2. (ns # "DISCONNECTED" => down = x.terminated) /\ (ns = "DISCONNECTED" => down = TRUE)
    BY DEF Session
  <2>3. SetState(x, ns) = [x EXCEPT !.st = ns, !.armed = armed, !.closed = closed,
                                    !.terminated = down]
    BY <1>2 DEF SetState
  <2> HIDE DEF armed, down
  <2> QED BY <2>1, <2>2, <2>3 DEF Session
<1> QED BY <1>1, <1>2

LEMMA EndSound ==
    ASSUME NEW x \in Session, NEW T, Begun(x), x.st # "DISCONNECTED"
    PROVE  /\ Sound(SetState(x, "DISCONNECTED"), T)
           /\ \A e \in Errors : Sound(Drop(x, e), T)
<1>1. ASSUME NEW y \in Session, Begun(y), y.st # "DISCONNECTED"
      PROVE  Sound(SetState(y, "DISCONNECTED"), T)
  <2> DEFINE z == SetState(y, "DISCONNECTED")
  <2>1. z.exited = FALSE BY <1>1, SetStateView DEF Begun, States
  <2>2. z.terminated = TRUE BY <1>1, SetStateView DEF States
  <2>3. z.closed = y.closed + 1 BY <1>1, SetStateView DEF States
  <2>4. y.closed = 0 BY <1>1 DEF Begun
  <2> HIDE DEF z
  <2>5. z.closed = 1 BY <2>3, <2>4
  <2>6. Sound(z, T) BY <2>1, <2>2, <2>5 DEF Sound, Ended
  <2> QED BY <2>6 DEF z
<1>2. ASSUME NEW e \in Errors PROVE Sound(Drop(x, e), T)
  <2> DEFINE y == [x EXCEPT !.err = e]
  <2>1. y \in Session BY DEF Session
  <2>2. Same(x, y) BY FieldSame
  <2>3. y.st # "DISCONNECTED" /\ Begun(y) BY <2>2 DEF Same, Core, Begun
  <2> QED BY <1>1, <2>1, <2>3 DEF Drop
<1> QED BY <1>1, <1>2

-----------------------------------------------------------------------------
(* The transmit side.                                                      *)

LEMMA KickSound == ASSUME NEW x \in Session, NEW T, Sound(x, T) PROVE Sound(Kick(x), T)
<1> DEFINE k == Burst(x)
           frames == [j \in 1 .. k |->
                        [kind |-> "I", ns |-> SeqAfter(x, x.vs, j - 1), nr |-> x.vr, pf |-> FALSE,
                         cmd |-> TRUE, info |-> Chunk(x, j - 1), ok |-> TRUE]]
           sent == SubmitAll(x, frames)
           slots == [n \in Slots |-> IF n < Modulus(x) /\ Dist(x, x.vs, n) < k
                                     THEN Chunk(x, Dist(x, x.vs, n)) ELSE sent.pending[n]]
           head == IF k = 0 THEN sent.head ELSE Chunk(x, k - 1).hi
           vs == IF k = 0 THEN sent.vs ELSE SeqAfter(x, x.vs, k)
           cond == IF k > 0 THEN sent.cond \ {"ACK"} ELSE sent.cond
           armed == IF k > 0 /\ "ACK" \in x.cond THEN sent.armed \ {"T2"} ELSE sent.armed
           y == [sent EXCEPT !.pending = slots, !.head = head, !.vs = vs, !.cond = cond,
                             !.armed = armed]
           z == Stop(Arm(y, {"T1"}), {"T3"})
<1>1. Same(x, sent) BY SendSame
<1>2. Kick(x) = IF x.st \notin {"CONNECTED", "TIMER_RECOVERY"} \/ "BUSY" \in x.cond \/ x.hung
                THEN x ELSE IF y.vs = y.va THEN y ELSE z
  BY DEF Kick
<1>3. DOMAIN sent = DOMAIN x BY DEF SubmitAll
<1>4. armed \cap Probes = sent.armed \cap Probes BY DEF Probes
<1>5. /\ y.st = x.st /\ y.va = x.va /\ y.hung = x.hung
      /\ y.closed = x.closed /\ y.terminated = x.terminated /\ y.exited = x.exited
      /\ y.armed \cap Probes = x.armed \cap Probes
      /\ DOMAIN y = DOMAIN x
  <2> HIDE DEF sent, slots, head, vs, cond, armed
  <2> QED BY <1>1, <1>3, <1>4 DEF Same, Core, Session
<1> HIDE DEF y
<1>6. ASSUME y.vs = y.va PROVE Sound(y, T)
  BY <1>5, <1>6 DEF Sound, Ended, Begun, Watched, IsOpen, Probes
<1>7. z.st = x.st /\ z.hung = x.hung /\ z.closed = x.closed /\ z.terminated = x.terminated
      /\ z.exited = x.exited /\ "T1" \in z.armed
  BY <1>5 DEF Arm, Stop, Session
<1>8. Sound(z, T)
  <2> HIDE DEF z
  <2> QED BY <1>7 DEF Sound, Ended, Begun, Watched, IsOpen
<1> HIDE DEF z
<1> QED BY <1>2, <1>6, <1>8

LEMMA AckedView ==
    ASSUME NEW x \in Session, NEW nr \in Slots
    PROVE  LET y == FramesAcked(x, nr)
           IN  /\ y.st = x.st /\ y.vs = x.vs /\ y.va = nr /\ y.hung = x.hung
               /\ y.closed = x.closed /\ y.terminated = x.terminated /\ y.exited = x.exited
               /\ y.vs = nr => "T3" \in y.armed
               /\ y.vs # nr => "T1" \in y.armed
<1> DEFINE slots == [n \in Slots |->
                        IF n < Modulus(x) /\ Dist(x, x.va, n) < Dist(x, x.va, nr)
                        THEN Nil ELSE x.pending[n]]
           acked == IF nr = x.va THEN x.acked ELSE x.pending[(nr - 1) % Modulus(x)].hi
           freed == [x EXCEPT !.pending = slots, !.acked = acked, !.va = nr]
<1>1. FramesAcked(x, nr) = IF x.vs = nr THEN Arm(Stop(freed, {"T1"}), {"T3"}) ELSE Arm(freed, {"T1"})
  BY DEF FramesAcked
<1> HIDE DEF slots, acked
<1> QED BY <1>1 DEF Arm, Stop, Session

LEMMA AckedSound ==
    ASSUME NEW x \in Session, NEW nr \in Slots, NEW T, Begun(x), IsOpen(x)
    PROVE  Sound(FramesAcked(x, nr), T)
BY AckedView DEF Sound, Begun, Watched, IsOpen

\* What every outcome leaves as it was.
LEMMA RequeueView ==
    ASSUME NEW x \in Session, NEW mod \in {Mod8, Mod128}
    PROVE  LET y == RequeueFromVA(x, mod)
           IN  /\ y.st = x.st /\ y.va = x.va /\ y.armed = x.armed
               /\ y.closed = x.closed /\ y.terminated = x.terminated /\ y.exited = x.exited
               /\ y.mod128 = x.mod128 /\ y.win = x.win
               /\ y.hung = TRUE \/ (y.hung = x.hung /\ y.vs = y.va)
               /\ x.vs # x.va /\ x.hung = TRUE => y.hung = TRUE
<1> DEFINE Says(y) ==
               /\ y.st = x.st /\ y.va = x.va /\ y.armed = x.armed
               /\ y.closed = x.closed /\ y.terminated = x.terminated /\ y.exited = x.exited
               /\ y.mod128 = x.mod128 /\ y.win = x.win
               /\ y.hung = TRUE \/ (y.hung = x.hung /\ y.vs = y.va)
               /\ x.vs # x.va /\ x.hung = TRUE => y.hung = TRUE
<1>1. Says(Hangs(x)) BY DEF Session, Hangs
<1>2. ASSUME NEW slots \in [Slots -> Stretch], NEW k \in Nat
      PROVE  Says(PutsBack(x, slots)) /\ Says(Tears(x, slots, k))
  BY DEF Session, PutsBack, Tears
<1>3. x.vs = x.va => Says(x) OBVIOUS
<1>4. \A slots \in [Slots -> Stretch] : Says(PutsBack(x, slots)) BY <1>2
<1> HIDE DEF Says
<1>5. Says(RequeueFromVA(x, mod)) BY <1>1, <1>2, <1>3, <1>4, RequeueCases, Zenon
<1> QED BY <1>5 DEF Says

LEMMA RequeueSound == ASSUME NEW x \in Session, NEW T, Sound(x, T) PROVE Sound(Requeue(x), T)
<1>1. CASE x.vs = x.va BY <1>1 DEF Requeue, RequeueFromVA
<1>2. CASE x.vs # x.va
  BY <1>2, ModulusIn, RequeueView DEF Requeue, Sound, Ended, Begun, Watched, IsOpen
<1> QED BY <1>1, <1>2
-----------------------------------------------------------------------------
(* Whole handlers.                                                         *)

LEMMA T1Sound == ASSUME NEW y, NEW T, Begun(y), "T1" \in y.armed PROVE Sound(y, T)
BY DEF Sound, Watched

LEMMA SameBegun ==
    ASSUME NEW x, NEW y, Core(x, y), Begun(x)
    PROVE  Begun(y) /\ y.st = x.st /\ y.hung = x.hung /\ (IsOpen(x) => IsOpen(y))
BY DEF Core, Begun, IsOpen

LEMMA DropQueuesSame == ASSUME NEW x \in Session PROVE Same(x, DropQueues(x))
BY FieldSame DEF DropQueues

LEMMA PeerGoneSound ==
    ASSUME NEW x \in Session, NEW T, NEW e \in Errors, Begun(x), x.st # "DISCONNECTED"
    PROVE  Sound(PeerGone(x, e), T)
<1> DEFINE d == DropQueues(x)
           y == Stop(d, {"T1", "T2", "T3", "HB"})
<1>1. d \in Session /\ Core(x, d) BY DropQueuesType, DropQueuesSame DEF Same
<1> HIDE DEF d
<1>2. y \in Session /\ Core(d, y) BY <1>1, StopType, ArmView DEF Timers
<1> HIDE DEF y
<1>3. Begun(y) /\ y.st # "DISCONNECTED" BY <1>1, <1>2 DEF Core, Begun
<1>4. Sound(Drop(y, e), T) BY <1>2, <1>3, EndSound
<1> QED BY <1>4 DEF PeerGone, y, d

\* A session that goes on, sends a frame, arms T1 and waits for the answer.
LEMMA AwaitSound ==
    ASSUME NEW y \in Session, NEW T, NEW ns \in States \ {"DISCONNECTED"}, Begun(y), "T1" \in y.armed
    PROVE  Sound(SetState(y, ns), T)
<1> DEFINE z == SetState(y, ns)
<1>1. z.exited = y.exited /\ z.closed = y.closed /\ z.terminated = y.terminated
      /\ z.armed \cap Probes = y.armed \cap Probes
  BY SetStateView
<1> HIDE DEF z
<1>2. Begun(z) /\ "T1" \in z.armed BY <1>1 DEF Begun, Probes
<1>3. Sound(z, T) BY <1>2, T1Sound
<1> QED BY <1>3 DEF z

LEMMA EstablishSound ==
    ASSUME NEW x \in Session, NEW T, Begun(x) PROVE Sound(EstablishDataLink(x), T)
<1> DEFINE c == [x EXCEPT !.cond = {}, !.n2 = 0]
           y == Stop(c, {"T1", "T2", "T3"})
           z == SendSABM(y, x.mod128)
           w == Arm(z, {"T1"})
<1>1. c \in Session /\ Core(x, c) BY FieldType, FieldSame DEF Same
<1> HIDE DEF c
<1>2. y \in Session /\ Core(c, y) BY <1>1, StopType, ArmView DEF Timers
<1> HIDE DEF y
<1>3. x.mod128 \in BOOLEAN BY DEF Session
<1>4. z \in Session /\ Core(y, z) BY <1>2, <1>3, SendType, SendSame DEF Same
<1> HIDE DEF z
<1>5. w \in Session /\ Core(z, w) /\ "T1" \in w.armed BY <1>4, ArmType, ArmView DEF Timers
<1> HIDE DEF w
<1>6. Begun(w) BY <1>1, <1>2, <1>4, <1>5 DEF Core, Begun
<1>7. Sound(SetState(w, "AWAITING_CONNECTION"), T) BY <1>5, <1>6, AwaitSound DEF States
<1> QED BY <1>7 DEF EstablishDataLink, w, z, y, c

LEMMA EnquireView ==
    ASSUME NEW x \in Session, NEW n \in Nat, Begun(x)
    PROVE  Begun(Enquire(x, n)) /\ Enquire(x, n).st = x.st /\ "T1" \in Enquire(x, n).armed
<1> DEFINE a == [x EXCEPT !.n2 = n]
           b == SendRR(a, TRUE, TRUE)
           c == [b EXCEPT !.cond = @ \ {"ACK"}]
           d == Stop(c, {"T2"})
           e == Arm(d, {"T1"})
<1>1. a \in Session BY DEF Session
<1>2. Core(x, a) BY FieldSame DEF Same
<1> HIDE DEF a
<1>3. b \in Session /\ Core(a, b) BY <1>1, SendType, SendSame DEF Same
<1> HIDE DEF b
<1>4. c \in Session /\ Core(b, c) BY <1>3, FieldType, FieldSame DEF Same
<1> HIDE DEF c
<1>5. d \in Session /\ Core(c, d) BY <1>4, StopType, ArmView DEF Timers
<1> HIDE DEF d
<1>6. Core(d, e) /\ "T1" \in e.armed BY <1>5, ArmView
<1> HIDE DEF e
<1>7. Begun(e) /\ e.st = x.st /\ "T1" \in e.armed
  BY <1>2, <1>3, <1>4, <1>5, <1>6 DEF Core, Begun
<1> QED BY <1>7 DEF Enquire, TransmitEnquiry, e, d, c, b, a

LEMMA ReleaseSound ==
    ASSUME NEW x \in Session, NEW T, Begun(x) PROVE Sound(StartRelease(x), T)
<1> DEFINE d == DropQueues(x)
           a == [d EXCEPT !.n2 = 0]
           b == SendDISC(a)
           c == Stop(b, {"T2", "T3"})
           e == Arm(c, {"T1"})
<1>1. d \in Session /\ Core(x, d) BY DropQueuesType, DropQueuesSame DEF Same
<1> HIDE DEF d
<1>2. a \in Session /\ Core(d, a) BY <1>1, FieldType, FieldSame DEF Same
<1> HIDE DEF a
<1>3. b \in Session /\ Core(a, b) BY <1>2, SendType, SendSame DEF Same
<1> HIDE DEF b
<1>4. c \in Session /\ Core(b, c) BY <1>3, StopType, ArmView DEF Timers
<1> HIDE DEF c
<1>5. e \in Session /\ Core(c, e) /\ "T1" \in e.armed BY <1>4, ArmType, ArmView DEF Timers
<1> HIDE DEF e
<1>6. Begun(e) BY <1>1, <1>2, <1>3, <1>4, <1>5 DEF Core, Begun
<1>7. Sound(SetState(e, "AWAITING_RELEASE"), T) BY <1>5, <1>6, AwaitSound DEF States
<1> QED BY <1>7 DEF StartRelease, e, c, b, a, d

\* After a rebind the link is hung, or idle with T3 running.
LEMMA RebindView ==
    ASSUME NEW x \in Session, NEW f \in Frame, Begun(x)
    PROVE  /\ Begun(Rebind(x, f)) /\ Rebind(x, f).st = x.st
           /\ \/ Rebind(x, f).hung = TRUE
              \/ Rebind(x, f).vs = Rebind(x, f).va /\ "T3" \in Rebind(x, f).armed
<1> DEFINE wide == f.kind = "SABME"
           q == RequeueFromVA(x, IF wide THEN Mod128 ELSE Mod8)
           r == SetModulus(q, wide)
           z == [r EXCEPT !.vs = 0, !.vr = 0, !.va = 0]
           y == [z EXCEPT !.n2 = 0, !.cond = {}]
           a == Stop(y, {"T1", "T2"})
           b == Arm(a, {"T3"})
           u == SendUA(b, f.pf)
<1>1. q \in Session /\ q.st = x.st /\ Begun(q)
  BY RequeueFromVAType, RequeueView DEF Begun
<1> HIDE DEF q
<1>2. r \in Session /\ r.st = x.st /\ Begun(r)
  <2>1. r \in Session BY <1>1, SetModulusType
  <2>2. Core(q, r) BY <1>1 DEF SetModulus, Core, Session
  <2> QED BY <1>1, <2>1, <2>2 DEF Core, Begun
<1> HIDE DEF r
<1>3. z \in Session /\ z.st = r.st /\ z.vs = z.va /\ Begun(z)
  <2>1. z \in Session BY <1>2, FieldType
  <2>2. z.st = r.st /\ z.vs = 0 /\ z.va = 0 BY <1>2 DEF Session
  <2>3. z.exited = r.exited /\ z.terminated = r.terminated /\ z.closed = r.closed
    BY <1>2 DEF Session
  <2> HIDE DEF z
  <2> QED BY <1>2, <2>1, <2>2, <2>3 DEF Begun
<1> HIDE DEF z
<1>4. y \in Session /\ Core(z, y) BY <1>3, FieldType, FieldSame DEF Same
<1> HIDE DEF y
<1>5. a \in Session /\ Core(y, a) BY <1>4, StopType, ArmView DEF Timers
<1> HIDE DEF a
<1>6. b \in Session /\ Core(a, b) /\ "T3" \in b.armed BY <1>5, ArmType, ArmView DEF Timers
<1> HIDE DEF b
<1>7. Core(b, u) /\ "T3" \in u.armed BY <1>6, SendSame DEF Same, Probes
<1> HIDE DEF u
<1>8. Begun(u) /\ u.st = r.st /\ u.vs = u.va
  BY <1>3, <1>4, <1>5, <1>6, <1>7 DEF Core, Begun
<1>9. Rebind(x, f) = IF r.hung THEN r ELSE u BY DEF Rebind, ZeroSeq, q, r, z, y, a, b, u
<1>10. r.hung \in BOOLEAN BY <1>2 DEF Session
<1> QED BY <1>1, <1>2, <1>7, <1>8, <1>9, <1>10 DEF Core

LEMMA IdleSound ==
    ASSUME NEW y, NEW T, Begun(y), IsOpen(y), y.hung = TRUE \/ (y.vs = y.va /\ "T3" \in y.armed)
    PROVE  Sound(y, T)
BY DEF Sound, Watched, IsOpen

LEMMA ReceiveISound ==
    ASSUME NEW x \in Session, NEW f \in Frame, NEW T, Begun(x), IsOpen(x)
    PROVE  Sound(ReceiveI(x, f), T)
<1>1. f.nr \in Slots BY DEF Frame
<1> DEFINE y == FramesAcked(x, f.nr)
<1>2. y \in Session /\ Sound(y, T) BY <1>1, FramesAckedType, AckedSound
<1> HIDE DEF y
<1>3. Same(y, Deliver(y, f))
  <2> DEFINE shown == IF f.info.lo = f.info.hi THEN y.shown ELSE Append(y.shown, f.info)
             z == [y EXCEPT !.vr = SeqAfter(y, y.vr, 1), !.cond = @ \ {"REJ"}, !.shown = shown]
             a == [z EXCEPT !.cond = @ \ {"ACK"}]
             b == [z EXCEPT !.cond = @ \cup {"ACK"}]
             c == SendRR(a, TRUE, FALSE)
  <2>1. z \in Session
    <3>1. SeqAfter(y, y.vr, 1) \in Slots
      <4>1. y.vr \in Int BY <1>2 DEF Session, Slots
      <4> QED BY <1>2, <4>1, SeqAfterType
    <3>2. shown \in Seq(Stretch) BY <1>2 DEF Session, Frame
    <3> HIDE DEF shown
    <3> QED BY <1>2, <3>1, <3>2 DEF Session
  <2>2. Same(y, z) BY <1>2, FieldSame
  <2> HIDE DEF z
  <2>3. a \in Session /\ Same(z, a) BY <2>1, FieldType, FieldSame
  <2>4. b \in Session /\ Same(z, b) BY <2>1, FieldType, FieldSame
  <2> HIDE DEF a, b
  <2>5. c \in Session /\ Same(a, c) BY <2>3, SendType, SendSame
  <2> HIDE DEF c
  <2>6. Same(c, Stop(c, {"T2"})) /\ Same(b, Arm(b, {"T2"})) BY <2>4, <2>5, StopT2
  <2>7. Deliver(y, f) = IF f.pf THEN Stop(c, {"T2"})
                        ELSE IF "ACK" \in z.cond THEN z ELSE Arm(b, {"T2"})
    BY DEF Deliver, z, a, b, c
  <2> QED BY <2>2, <2>3, <2>4, <2>5, <2>6, <2>7, SameTrans
<1>4. Same(y, OutOfSequence(y, f))
  <2> DEFINE a == [y EXCEPT !.cond = (@ \cup {"REJ"}) \ {"ACK"}]
             b == Stop(a, {"T2"})
  <2>1. a \in Session /\ Same(y, a) BY <1>2, FieldType, FieldSame
  <2> HIDE DEF a
  <2>2. b \in Session /\ Same(a, b) BY <2>1, StopType, StopT2 DEF Timers
  <2> HIDE DEF b
  <2>3. Same(b, SendREJ(b, f.pf)) /\ Same(y, SendRR(y, TRUE, FALSE)) BY <1>2, <2>2, SendSame
  <2>5. Same(y, y) BY DEF Same, Core
  <2>4. OutOfSequence(y, f) = IF "REJ" \notin y.cond THEN SendREJ(b, f.pf)
                              ELSE IF f.pf THEN SendRR(y, TRUE, FALSE) ELSE y
    BY DEF OutOfSequence, a, b
  <2> QED BY <2>1, <2>2, <2>3, <2>4, <2>5, SameTrans
<1>5. Sound(Deliver(y, f), T) /\ Sound(OutOfSequence(y, f), T)
  BY <1>2, <1>3, <1>4, SameSound
<1> QED BY <1>5 DEF ReceiveI, y

LEMMA PollSame ==
    ASSUME NEW x \in Session, NEW f \in Frame
    PROVE  Same(x, PeerBusy(x, f)) /\ Same(x, AnswerPoll(x, f))
<1>1. Same(x, x) BY DEF Same, Core
<1> QED BY <1>1, FieldSame, SendSame DEF PeerBusy, AnswerPoll

LEMMA AckPolledSound ==
    ASSUME NEW x \in Session, NEW f \in Frame, NEW T, Begun(x), IsOpen(x)
    PROVE  LET y == FramesAcked(AnswerPoll(PeerBusy(x, f), f), f.nr)
           IN  y \in Session /\ Sound(y, T) /\ Begun(y) /\ y.st = x.st
<1> DEFINE b == PeerBusy(x, f)
           a == AnswerPoll(b, f)
           y == FramesAcked(a, f.nr)
<1>1. f.nr \in Slots BY DEF Frame
<1>2. b \in Session /\ Core(x, b) BY PeerBusyType, PollSame DEF Same
<1> HIDE DEF b
<1>3. a \in Session /\ Core(b, a) BY <1>2, PeerBusyType, PollSame DEF Same
<1> HIDE DEF a
<1>4. Begun(a) /\ a.st = x.st /\ IsOpen(a) BY <1>2, <1>3, SameBegun
<1>5. y \in Session /\ Sound(y, T) BY <1>1, <1>3, <1>4, FramesAckedType, AckedSound
<1>6. Begun(y) /\ y.st = x.st BY <1>1, <1>3, <1>4, AckedView DEF Begun
<1> QED BY <1>5, <1>6 DEF y, a, b

LEMMA ConnectedSound ==
    ASSUME NEW x \in Session, NEW f \in Frame, NEW T, Begun(x), Sound(x, T), x.st = "CONNECTED"
    PROVE  Sound(ConnectedFrame(x, f), T)
<1>1. IsOpen(x) /\ f.nr \in Slots /\ f.pf \in BOOLEAN BY DEF IsOpen, Frame
<1>2. Sound(Kick(x), T) BY KickSound
<1>3. Sound(Kick(IF f.cmd THEN Rebind(x, f) ELSE x), T)
  <2> DEFINE r == Rebind(x, f)
  <2>1. r \in Session /\ Begun(r) /\ IsOpen(r) BY <1>1, RebindType, RebindView DEF IsOpen
  <2>2. Sound(r, T) BY <2>1, RebindView, IdleSound
  <2>3. Sound(Kick(r), T) BY <2>1, <2>2, KickSound
  <2> QED BY <1>2, <2>3
<1>4. Sound(PeerGone(SendUA(x, f.pf), "peer-disconnected"), T)
  <2> DEFINE u == SendUA(x, f.pf)
  <2>1. u \in Session /\ Core(x, u) BY <1>1, SendType, SendSame DEF Same
  <2> HIDE DEF u
  <2>2. Begun(u) /\ u.st # "DISCONNECTED" BY <2>1, SameBegun
  <2>3. Sound(PeerGone(u, "peer-disconnected"), T) BY <2>1, <2>2, PeerGoneSound DEF Errors
  <2> QED BY <2>3 DEF u
<1>5. Sound(PeerGone(x, "peer-reset"), T) BY PeerGoneSound DEF Errors
<1>6. Sound(EstablishDataLink(x), T) BY EstablishSound
<1> DEFINE y == FramesAcked(AnswerPoll(PeerBusy(x, f), f), f.nr)
<1>7. y \in Session /\ Sound(y, T) /\ Begun(y) /\ y.st = x.st BY <1>1, AckPolledSound
<1> HIDE DEF y
<1>8. Sound(Kick(y), T) BY <1>7, KickSound
<1>9. Sound(Kick(Arm(Stop(Requeue(y), {"T1"}), {"T3"})), T)
  <2> DEFINE r == Requeue(y)
             a == Stop(r, {"T1"})
             b == Arm(a, {"T3"})
  <2>1. r \in Session /\ Begun(r) /\ r.st = x.st /\ (r.hung = TRUE \/ r.vs = r.va)
    BY <1>7, RequeueType, ModulusIn, RequeueView DEF Begun, Requeue
  <2> HIDE DEF r
  <2>2. a \in Session /\ Core(r, a) BY <2>1, StopType, ArmView DEF Timers
  <2> HIDE DEF a
  <2>3. b \in Session /\ Core(a, b) /\ "T3" \in b.armed BY <2>2, ArmType, ArmView DEF Timers
  <2> HIDE DEF b
  <2>4. Begun(b) /\ IsOpen(b) BY <1>1, <2>1, <2>2, <2>3 DEF Core, Begun, IsOpen
  <2>5. Sound(b, T) BY <2>1, <2>2, <2>3, <2>4, IdleSound DEF Core
  <2>6. Sound(Kick(b), T) BY <2>3, <2>5, KickSound
  <2> QED BY <2>6 DEF b, a, r
<1>10. Sound(Kick(ReceiveI(x, f)), T) BY <1>1, ReceiveIType, ReceiveISound, KickSound
<1> QED
  BY <1>2, <1>3, <1>4, <1>5, <1>6, <1>8, <1>9, <1>10 DEF ConnectedFrame, y

LEMMA RecoverySound ==
    ASSUME NEW x \in Session, NEW f \in Frame, NEW T, Begun(x), IsOpen(x)
    PROVE  Sound(RecoverySupervisory(x, f), T)
<1> DEFINE b == PeerBusy(x, f)
           c == [b EXCEPT !.n2 = 0]
           d == Stop(c, {"T1"})
           u == FramesAcked(d, f.nr)
           v == FramesAcked(AnswerPoll(b, f), f.nr)
           y == IF ~f.cmd /\ f.pf THEN u ELSE v
           z == IF f.kind = "REJ" THEN Requeue(y) ELSE y
<1>1. f.nr \in Slots BY DEF Frame
<1>2. b \in Session /\ Core(x, b) BY PeerBusyType, PollSame DEF Same
<1>3. v \in Session /\ Sound(v, T) /\ Begun(v) /\ IsOpen(v)
  BY AckPolledSound DEF IsOpen
<1> HIDE DEF b
<1>4. c \in Session /\ Core(b, c) BY <1>2, FieldType, FieldSame DEF Same
<1> HIDE DEF c
<1>5. d \in Session /\ Core(c, d) BY <1>4, StopType, ArmView DEF Timers
<1> HIDE DEF d
<1>6. Begun(d) /\ IsOpen(d) BY <1>2, <1>4, <1>5, SameBegun
<1>7. u \in Session /\ Sound(u, T) BY <1>1, <1>5, <1>6, FramesAckedType, AckedSound
<1>8. Begun(u) /\ IsOpen(u) BY <1>1, <1>5, <1>6, AckedView DEF Begun, IsOpen
<1> HIDE DEF u, v
<1>9. y \in Session /\ Sound(y, T) /\ Begun(y) /\ IsOpen(y) BY <1>3, <1>7, <1>8
<1> HIDE DEF y
<1>10. z \in Session /\ Sound(z, T) /\ Begun(z) /\ IsOpen(z)
  BY <1>9, RequeueType, ModulusIn, RequeueSound, RequeueView DEF Begun, IsOpen, Requeue
<1> HIDE DEF z
<1>11. CaughtUp(z) \in Session /\ Sound(CaughtUp(z), T)
  <2> DEFINE a == Arm(z, {"T3"})
             w == SetState(a, "CONNECTED")
  <2>1. a \in Session /\ Core(z, a) /\ "T3" \in a.armed BY <1>10, ArmType, ArmView DEF Timers
  <2> HIDE DEF a
  <2>2. w \in Session BY <2>1, SetStateType DEF States
  <2>3. /\ w.st = "CONNECTED" /\ w.vs = a.vs /\ w.va = a.va /\ w.exited = a.exited
        /\ w.armed \cap Probes = a.armed \cap Probes
        /\ w.closed = a.closed /\ w.terminated = a.terminated
    BY <2>1, SetStateView DEF States
  <2> HIDE DEF w
  <2>4. Begun(w) /\ IsOpen(w) /\ "T3" \in w.armed
    BY <1>10, <2>1, <2>3 DEF Begun, Core, IsOpen, Probes
  <2>5. z.vs = z.va => Sound(w, T) BY <2>1, <2>3, <2>4, IdleSound DEF Core
  <2>6. CaughtUp(z) = IF z.vs = z.va THEN w ELSE z BY DEF CaughtUp, w, a
  <2> QED BY <1>10, <2>2, <2>5, <2>6
<1>12. Sound(Kick(CaughtUp(z)), T) /\ Sound(Kick(z), T) BY <1>10, <1>11, KickSound
<1> QED BY <1>12 DEF RecoverySupervisory, z, y, u, v, d, c, b

LEMMA TimerRecoverySound ==
    ASSUME NEW x \in Session, NEW f \in Frame, NEW T, Begun(x), Sound(x, T),
           x.st = "TIMER_RECOVERY"
    PROVE  Sound(TimerRecoveryFrame(x, f), T)
<1>1. IsOpen(x) /\ f.pf \in BOOLEAN BY DEF IsOpen, Frame
<1>2. Sound(Kick(x), T) BY KickSound
<1> DEFINE r == Rebind(x, f)
           w == SetState(r, "CONNECTED")
<1>3. r \in Session /\ Begun(r) /\ IsOpen(r)
      /\ (r.hung = TRUE \/ (r.vs = r.va /\ "T3" \in r.armed))
  BY <1>1, RebindType, RebindView DEF IsOpen
<1> HIDE DEF r
<1>4. Sound(r, T) BY <1>3, IdleSound
<1>5. Sound(Kick(w), T)
  <2>1. w \in Session BY <1>3, SetStateType DEF States
  <2>2. /\ w.st = "CONNECTED" /\ w.vs = r.vs /\ w.va = r.va /\ w.exited = r.exited
        /\ w.hung = r.hung /\ w.armed \cap Probes = r.armed \cap Probes
        /\ w.closed = r.closed /\ w.terminated = r.terminated
    BY <1>3, SetStateView DEF States
  <2> HIDE DEF w
  <2>3. Begun(w) /\ IsOpen(w) /\ (w.hung = TRUE \/ (w.vs = w.va /\ "T3" \in w.armed))
    BY <1>3, <2>2 DEF Begun, IsOpen, Probes
  <2> QED BY <2>1, <2>3, IdleSound, KickSound
<1>6. Sound(PeerGone(SendUA(x, f.pf), "peer-disconnected"), T)
  <2> DEFINE u == SendUA(x, f.pf)
  <2>1. u \in Session /\ Core(x, u) BY <1>1, SendType, SendSame DEF Same
  <2> HIDE DEF u
  <2>2. Begun(u) /\ u.st # "DISCONNECTED" BY <2>1, SameBegun
  <2>3. Sound(PeerGone(u, "peer-disconnected"), T) BY <2>1, <2>2, PeerGoneSound DEF Errors
  <2> QED BY <2>3 DEF u
<1>7. Sound(PeerGone(x, "peer-reset"), T) BY PeerGoneSound DEF Errors
<1>8. Sound(EstablishDataLink(x), T) BY EstablishSound
<1>9. Sound(RecoverySupervisory(x, f), T) BY <1>1, RecoverySound
<1>10. Sound(Kick(ReceiveI(x, f)), T) BY <1>1, ReceiveIType, ReceiveISound, KickSound
<1> QED
  BY <1>2, <1>4, <1>5, <1>6, <1>7, <1>8, <1>9, <1>10 DEF TimerRecoveryFrame, r, w

LEMMA AwaitingConnectionSound ==
    ASSUME NEW x \in Session, NEW f \in Frame, NEW T, Begun(x), Sound(x, T),
           x.st = "AWAITING_CONNECTION"
    PROVE  Sound(AwaitingConnectionFrame(x, f), T)
<1>1. f.pf \in BOOLEAN BY DEF Frame
<1>2. ASSUME NEW b \in BOOLEAN PROVE SetModulus(x, b) \in Session /\ Sound(SetModulus(x, b), T)
  <2>1. Same(x, SetModulus(x, b)) BY FieldSame DEF SetModulus
  <2> QED BY <2>1, SetModulusType, SameSound
<1>3. Sound(SendUA(SetModulus(x, f.kind = "SABME"), f.pf), T)
  <2> DEFINE m == SetModulus(x, f.kind = "SABME")
  <2>1. m \in Session /\ Sound(m, T) BY <1>2
  <2> HIDE DEF m
  <2>2. Sound(SendUA(m, f.pf), T) BY <2>1, SendSame, SameSound
  <2> QED BY <2>2 DEF m
<1>4. Sound(SendDM(x, f.pf), T) BY SendSame, SameSound
<1>5. Sound(Drop(Stop(x, {"T1"}), "peer-rejected"), T)
  <2> DEFINE y == Stop(x, {"T1"})
  <2>1. y \in Session /\ Core(x, y) BY StopType, ArmView DEF Timers
  <2> HIDE DEF y
  <2>2. Begun(y) /\ y.st # "DISCONNECTED" BY <2>1, SameBegun
  <2>3. Sound(Drop(y, "peer-rejected"), T) BY <2>1, <2>2, EndSound DEF Errors
  <2> QED BY <2>3 DEF y
<1>6. Sound(LinkUp(x), T)
  <2> DEFINE q == ZeroSeq(x)
             y == [q EXCEPT !.n2 = 0, !.acked = x.head]
             a == Stop(y, {"T1"})
             b == Arm(a, {"T3"})
             w == SetState(b, "CONNECTED")
  <2>1. q \in Session BY FieldType DEF ZeroSeq
  <2>2. q.vs = 0 /\ q.va = 0 /\ q.exited = x.exited /\ q.terminated = x.terminated
        /\ q.closed = x.closed
    BY DEF ZeroSeq, Session
  <2> HIDE DEF q
  <2>3. y \in Session
    <3> DEFINE p == [q EXCEPT !.n2 = 0]
    <3>1. x.head \in Nat BY DEF Session
    <3>2. p \in Session BY <2>1, FieldType
    <3>3. y = [p EXCEPT !.acked = x.head] BY <2>1 DEF Session
    <3> HIDE DEF p, y
    <3>4. [p EXCEPT !.acked = x.head] \in Session BY <3>1, <3>2 DEF Session
    <3> QED BY <3>3, <3>4
  <2>4. Core(q, y) BY <2>1 DEF Core, Session
  <2> HIDE DEF y
  <2>5. a \in Session /\ Core(y, a) BY <2>3, StopType, ArmView DEF Timers
  <2> HIDE DEF a
  <2>6. b \in Session /\ Core(a, b) /\ "T3" \in b.armed BY <2>5, ArmType, ArmView DEF Timers
  <2> HIDE DEF b
  <2>7. /\ w.st = "CONNECTED" /\ w.vs = b.vs /\ w.va = b.va /\ w.exited = b.exited
        /\ w.armed \cap Probes = b.armed \cap Probes
        /\ w.closed = b.closed /\ w.terminated = b.terminated
    BY <2>6, SetStateView DEF States
  <2> HIDE DEF w
  <2>8. Begun(w) /\ IsOpen(w) /\ w.vs = w.va /\ "T3" \in w.armed
    <3>1. "T3" \in w.armed BY <2>6, <2>7 DEF Probes
    <3>2. w.vs = w.va BY <2>2, <2>4, <2>5, <2>6, <2>7 DEF Core
    <3>3. /\ b.exited = x.exited /\ b.terminated = x.terminated /\ b.closed = x.closed
      BY <2>2, <2>4, <2>5, <2>6, Zenon DEF Core
    <3>4. Begun(w) BY <2>7, <3>3 DEF Begun
    <3> QED BY <2>7, <3>1, <3>2, <3>4 DEF IsOpen
  <2>9. Sound(w, T) BY <2>8, IdleSound
  <2> QED BY <2>9 DEF LinkUp, w, b, a, y, q
<1> QED BY <1>2, <1>3, <1>4, <1>5, <1>6 DEF AwaitingConnectionFrame

LEMMA OtherFrameSound ==
    ASSUME NEW x \in Session, NEW f \in Frame, NEW T, Begun(x), Sound(x, T)
    PROVE  /\ x.st = "AWAITING_RELEASE" => Sound(AwaitingReleaseFrame(x, f), T)
           /\ Sound(DisconnectedFrame(x, f), T)
<1>1. f.pf \in BOOLEAN BY DEF Frame
<1>2. Sound(SendDM(x, f.pf), T) /\ Sound(SendDM(x, TRUE), T) BY SendSame, SameSound
<1>3. ASSUME x.st = "AWAITING_RELEASE", NEW y \in Session, Core(x, y)
      PROVE  Sound(SetState(Stop(y, {"T1"}), "DISCONNECTED"), T)
  <2> DEFINE z == Stop(y, {"T1"})
  <2>1. z \in Session /\ Core(y, z) BY StopType, ArmView DEF Timers
  <2> HIDE DEF z
  <2>2. Begun(z) /\ z.st # "DISCONNECTED" BY <1>3, <2>1, SameBegun
  <2>3. Sound(SetState(z, "DISCONNECTED"), T) BY <2>1, <2>2, EndSound
  <2> QED BY <2>3 DEF z
<1>4. Core(x, x) BY DEF Core
<1>5. SendUA(x, f.pf) \in Session /\ Core(x, SendUA(x, f.pf))
  BY <1>1, SendType, SendSame DEF Same
<1> QED BY <1>2, <1>3, <1>4, <1>5 DEF AwaitingReleaseFrame, DisconnectedFrame

LEMMA SoundGrows ==
    ASSUME NEW x, NEW T, NEW U, T \cap Probes \subseteq U, Sound(x, T) PROVE Sound(x, U)
BY DEF Probes, Sound, Watched

LEMMA T1Handled ==
    ASSUME NEW x \in Session, NEW T, Begun(x) PROVE Sound(T1Expiry(x), T)
<1>1. x.n2 \in Nat /\ x.n2 + 1 \in Nat /\ x.mod128 \in BOOLEAN BY DEF Session
<1>2. CASE x.st = "CONNECTED"
  <2> DEFINE e == Enquire(x, 1)
  <2>1. e \in Session /\ Begun(e) /\ "T1" \in e.armed BY EnquireType, EnquireView
  <2> HIDE DEF e
  <2>2. Sound(SetState(e, "TIMER_RECOVERY"), T) BY <2>1, AwaitSound DEF States
  <2> QED BY <1>2, <2>2 DEF T1Expiry, e
<1>3. CASE x.st = "TIMER_RECOVERY"
  <2>1. Sound(Kick(Enquire(x, x.n2 + 1)), T)
    BY <1>1, EnquireType, EnquireView, T1Sound, KickSound
  <2>2. Sound(PeerGone(SendDM(x, TRUE), "ack-timeout"), T)
    <3> DEFINE u == SendDM(x, TRUE)
    <3>1. u \in Session /\ Core(x, u) BY SendType, SendSame DEF Same
    <3> HIDE DEF u
    <3>2. Begun(u) /\ u.st # "DISCONNECTED" BY <1>3, <3>1, SameBegun
    <3>3. Sound(PeerGone(u, "ack-timeout"), T) BY <3>1, <3>2, PeerGoneSound DEF Errors
    <3> QED BY <3>3 DEF u
  <2> QED BY <1>3, <2>1, <2>2 DEF T1Expiry
<1>4. ASSUME NEW y \in Session, Core(x, y) PROVE Sound(Arm(y, {"T1"}), T)
  <2>1. Core(y, Arm(y, {"T1"})) /\ "T1" \in Arm(y, {"T1"}).armed BY ArmView
  <2>2. Begun(Arm(y, {"T1"})) BY <1>4, <2>1, SameBegun
  <2> QED BY <2>1, <2>2, T1Sound
<1>5. [x EXCEPT !.n2 = @ + 1] \in Session /\ Core(x, [x EXCEPT !.n2 = @ + 1])
  BY FieldType, FieldSame DEF Same
<1> DEFINE a == [x EXCEPT !.n2 = @ + 1]
<1> HIDE DEF a
<1>6. CASE x.st = "AWAITING_CONNECTION"
  <2>1. Sound(Arm(SendSABM(a, x.mod128), {"T1"}), T)
    <3>1. SendSABM(a, x.mod128) \in Session /\ Core(a, SendSABM(a, x.mod128))
      BY <1>1, <1>5, SendType, SendSame DEF Same, a
    <3>2. Core(x, SendSABM(a, x.mod128)) BY <1>5, <3>1 DEF Core, a
    <3> QED BY <1>4, <3>1, <3>2
  <2>2. Sound(Arm(SendSABM([SetModulus(x, FALSE) EXCEPT !.n2 = 0], FALSE), {"T1"}), T)
    <3> DEFINE m == SetModulus(x, FALSE)
               b == [m EXCEPT !.n2 = 0]
               c == SendSABM(b, FALSE)
    <3>1. m \in Session /\ Core(x, m)
      <4>1. m \in Session BY SetModulusType
      <4>2. Core(x, m) BY DEF SetModulus, Core, Session
      <4> QED BY <4>1, <4>2
    <3> HIDE DEF m
    <3>2. b \in Session /\ Core(m, b) BY <3>1, FieldType, FieldSame DEF Same
    <3> HIDE DEF b
    <3>3. c \in Session /\ Core(b, c) BY <3>2, SendType, SendSame DEF Same
    <3> HIDE DEF c
    <3>4. Core(x, c) BY <3>1, <3>2, <3>3 DEF Core
    <3>5. Sound(Arm(c, {"T1"}), T) BY <1>4, <3>3, <3>4
    <3> QED BY <3>5 DEF c, b, m
  <2>3. Sound(Drop(x, "link-establish-timeout"), T) BY <1>6, EndSound DEF Errors
  <2> QED BY <1>6, <2>1, <2>2, <2>3 DEF T1Expiry, a
<1>7. CASE x.st = "AWAITING_RELEASE"
  <2>1. Sound(Arm(SendDISC(a), {"T1"}), T)
    <3>1. SendDISC(a) \in Session /\ Core(a, SendDISC(a))
      BY <1>5, SendType, SendSame DEF Same, a
    <3>2. Core(x, SendDISC(a)) BY <1>5, <3>1 DEF Core, a
    <3> QED BY <1>4, <3>1, <3>2
  <2>2. Sound(Drop(SendDISC(x), "disc-timeout"), T)
    <3> DEFINE u == SendDISC(x)
    <3>1. u \in Session /\ Core(x, u) BY SendType, SendSame DEF Same
    <3> HIDE DEF u
    <3>2. Begun(u) /\ u.st # "DISCONNECTED" BY <1>7, <3>1, SameBegun
    <3>3. Sound(Drop(u, "disc-timeout"), T) BY <3>1, <3>2, EndSound DEF Errors
    <3> QED BY <3>3 DEF u
  <2> QED BY <1>7, <2>1, <2>2 DEF T1Expiry, a
<1>8. CASE x.st = "DISCONNECTED"
  BY <1>8 DEF T1Expiry, Sound, Watched, IsOpen
<1> QED BY <1>2, <1>3, <1>6, <1>7, <1>8 DEF Session, States

LEMMA T3Handled ==
    ASSUME NEW x \in Session, NEW T, NEW U, T \ {"T3"} \subseteq U, Begun(x), Sound(x, T)
    PROVE  Sound(T3Expiry(x), U)
<1>1. CASE x.st = "CONNECTED"
  <2> DEFINE e == Enquire(x, 0)
  <2>1. e \in Session /\ Begun(e) /\ "T1" \in e.armed BY EnquireType, EnquireView
  <2> HIDE DEF e
  <2>2. Sound(SetState(e, "TIMER_RECOVERY"), U) BY <2>1, AwaitSound DEF States
  <2> QED BY <1>1, <2>2 DEF T3Expiry, e
<1>2. CASE x.st # "CONNECTED"
  <2>1. Sound(x, U) BY <1>2 DEF Sound, Watched, IsOpen
  <2> QED BY <1>2, <2>1, KickSound DEF T3Expiry
<1> QED BY <1>1, <1>2

LEMMA TicksSound ==
    ASSUME NEW x \in Session, NEW T, Sound(x, T)
    PROVE  Sound(T2Expiry(x), T) /\ Sound(HeartbeatTick(x), T) /\ Sound(StatsTick(x), T)
<1>1. Sound(T2Expiry(x), T)
  <2> DEFINE a == [x EXCEPT !.cond = @ \ {"ACK"}]
             b == SendRR(a, FALSE, FALSE)
  <2>1. a \in Session /\ Same(x, a) BY FieldType, FieldSame
  <2> HIDE DEF a
  <2>2. b \in Session /\ Same(a, b) BY <2>1, SendType, SendSame
  <2> HIDE DEF b
  <2>3. Sound(b, T) BY <2>1, <2>2, SameTrans, SameSound
  <2>4. Sound(Kick(b), T) /\ Sound(Kick(x), T) BY <2>2, <2>3, KickSound
  <2> QED BY <2>4 DEF T2Expiry, b, a
<1>2. Same(x, Arm(x, {"HB"})) /\ Same(x, Arm(x, {"STATS"})) BY ArmView DEF Same, Probes
<1>3. Sound(Arm(x, {"HB"}), T) /\ Sound(Arm(x, {"STATS"}), T) BY <1>2, SameSound
<1> QED BY <1>1, <1>3 DEF HeartbeatTick, StatsTick

LEMMA OperatorSound ==
    ASSUME NEW x \in Session, NEW T, NEW n \in Nat, Begun(x), Sound(x, T)
    PROVE  /\ Sound(OperatorConnect(x), T)
           /\ Sound(OperatorData(x, n), T)
           /\ Sound(OperatorDisconnect(x), T)
<1>1. Sound(OperatorConnect(x), T)
  <2> DEFINE q == ZeroSeq(x)
             y == [q EXCEPT !.n2 = 0, !.cond = {}]
             a == SendSABM(y, x.mod128)
             b == Arm(a, {"T1", "HB"})
  <2>1. q \in Session /\ q.exited = x.exited /\ q.terminated = x.terminated
        /\ q.closed = x.closed
    <3>1. q \in Session BY FieldType DEF ZeroSeq
    <3>2. q.exited = x.exited /\ q.terminated = x.terminated /\ q.closed = x.closed
      BY DEF ZeroSeq, Session
    <3> QED BY <3>1, <3>2
  <2> HIDE DEF q
  <2>2. y \in Session /\ Core(q, y) BY <2>1, FieldType, FieldSame DEF Same
  <2> HIDE DEF y
  <2>3. x.mod128 \in BOOLEAN BY DEF Session
  <2>4. a \in Session /\ Core(y, a) BY <2>2, <2>3, SendType, SendSame DEF Same
  <2> HIDE DEF a
  <2>5. b \in Session /\ Core(a, b) /\ "T1" \in b.armed BY <2>4, ArmType, ArmView DEF Timers
  <2> HIDE DEF b
  <2>6. Begun(b) BY <2>1, <2>2, <2>4, <2>5 DEF Core, Begun
  <2>7. Sound(SetState(b, "AWAITING_CONNECTION"), T) BY <2>5, <2>6, AwaitSound DEF States
  <2>8. Sound(Kick(x), T) BY KickSound
  <2> QED BY <2>7, <2>8 DEF OperatorConnect, b, a, y, q
<1>2. Sound(OperatorData(x, n), T)
  <2> DEFINE y == [x EXCEPT !.tail = @ + n]
  <2>1. y \in Session
    <3>1. x.tail + n \in Nat BY DEF Session
    <3> QED BY <3>1 DEF Session
  <2>2. Sound(y, T) BY FieldSame, SameSound
  <2> HIDE DEF y
  <2>3. Sound(Kick(y), T) BY <2>1, <2>2, KickSound
  <2> QED BY <2>3 DEF OperatorData, y
<1>3. Sound(OperatorDisconnect(x), T)
  <2> DEFINE u == SendDISC(x)
             y == [u EXCEPT !.n2 = 0]
             a == Arm(y, {"T1"})
  <2>1. u \in Session /\ Core(x, u) BY SendType, SendSame DEF Same
  <2> HIDE DEF u
  <2>2. y \in Session /\ Core(u, y) BY <2>1, FieldType, FieldSame DEF Same
  <2> HIDE DEF y
  <2>3. a \in Session /\ Core(y, a) /\ "T1" \in a.armed BY <2>2, ArmType, ArmView DEF Timers
  <2> HIDE DEF a
  <2>4. Begun(a) BY <2>1, <2>2, <2>3 DEF Core, Begun
  <2>5. Sound(SetState(a, "AWAITING_RELEASE"), T) BY <2>3, <2>4, AwaitSound DEF States
  <2> QED BY <2>5, ReleaseSound DEF OperatorDisconnect, a, y, u
<1> QED BY <1>1, <1>2, <1>3

-----------------------------------------------------------------------------
(* The run loop.                                                           *)

LifeInv ==
    /\ s.exited = TRUE => s.closed = 1 /\ s.armed = {}
    /\ s.exited # TRUE => Begun(s) /\ Sound(s, pend \cup bits)

LEMMA HandledLife ==
    ASSUME NEW x \in Session, Sound(x, (pend \cup bits)'), s' = Handled(x) PROVE LifeInv'
<1>1. CASE x.terminated = TRUE
  <2>1. Ended(x) BY <1>1 DEF Sound, Begun
  <2>2. s' = Cleanup(x) BY <1>1 DEF Handled
  <2>3. s'.exited = TRUE /\ s'.armed = {} BY <2>2 DEF Cleanup, Session
  <2>4. s'.closed = x.closed BY <1>1, <2>2 DEF Cleanup, Session
  <2> QED BY <2>1, <2>3, <2>4 DEF Ended, LifeInv
<1>2. CASE x.terminated # TRUE
  <2>1. x.terminated = FALSE BY <1>2 DEF Session
  <2>2. s' = x BY <2>1 DEF Handled
  <2>3. Begun(x) BY <1>2 DEF Sound, Ended
  <2> QED BY <2>2, <2>3 DEF LifeInv, Begun
<1> QED BY <1>1, <1>2

LEMMA LifeStep == ASSUME TypeOK, LifeInv, [Next]_vars PROVE LifeInv'
<1>1. CASE UNCHANGED vars BY <1>1 DEF LifeInv, vars, Begun, Sound, Ended, Watched, IsOpen
<1> SUFFICES ASSUME Next PROVE LifeInv' BY <1>1
<1>2. Running
  BY DEF Next, Drain, TimerFires, RxFrame, RxDisconnected, RxAwaitingConnection, RxConnected,
     RxTimerRecovery, RxAwaitingRelease, Operator, Connect, TypeData, Disconnect, Shutdown,
     BackendChanges, SwapPending, OnT1, OnT2, OnT3, OnHeartbeat, OnStatsTick, HandleTimer, Handle
<1>3. Begun(s) /\ Sound(s, pend \cup bits) BY <1>2 DEF LifeInv, Running, TypeOK, Session
<1>4. s \in Session /\ now \in Session /\ Same(s, now)
  BY FieldType, FieldSame DEF TypeOK, now
<1>5. Begun(now) /\ Sound(now, pend \cup bits)
  BY <1>3, <1>4, SameSound, SameBegun DEF Same
<1>6. ASSUME NEW t \in Timers, TimerFires(t) PROVE LifeInv'
  <2>1. s' = [s EXCEPT !.armed = s.armed \ {t}, !.tx = <<>>] /\ pend' = pend \cup {t}
        /\ bits' = bits
    BY <1>6 DEF TimerFires
  <2>2. Core(s, s') /\ s'.armed = s.armed \ {t} BY <1>4, <2>1 DEF Core, Session
  <2>3. Begun(s') /\ s'.exited # TRUE BY <1>3, <2>2 DEF Core, Begun
  <2>4. Sound(s', (pend \cup bits)')
    BY <1>3, <2>1, <2>2 DEF Sound, Ended, Begun, Watched, IsOpen, Core
  <2> QED BY <2>3, <2>4 DEF LifeInv, Begun
<1>7. CASE SwapPending
  <2>1. s' = now /\ (pend \cup bits)' = pend \cup bits BY <1>7 DEF SwapPending
  <2> QED BY <1>5, <2>1 DEF LifeInv, Begun, Sound, Ended, Watched, IsOpen
<1>8. ASSUME NEW t \in Timers, NEW x \in Session, HandleTimer(t, x),
             \A U : (pend \cup bits) \ {t} \subseteq U => Sound(x, U)
      PROVE  LifeInv'
  <2>1. (pend \cup bits) \ {t} \subseteq (pend \cup bits)' BY <1>8 DEF HandleTimer
  <2>2. Sound(x, (pend \cup bits)') BY <1>8, <2>1
  <2> QED BY <1>8, <2>2, HandledLife DEF HandleTimer
<1>9. CASE OnT1
  <2>1. \A U : Sound(T1Expiry(now), U) BY <1>4, <1>5, T1Handled
  <2> QED BY <1>4, <1>8, <1>9, <2>1, ExpiryType DEF OnT1, Timers
<1>10. CASE OnT3
  <2>1. \A U : (pend \cup bits) \ {"T3"} \subseteq U => Sound(T3Expiry(now), U)
    BY <1>4, <1>5, T3Handled
  <2> QED BY <1>4, <1>8, <1>10, <2>1, ExpiryType DEF OnT3, Timers
<1>11. CASE OnT2 \/ OnHeartbeat \/ OnStatsTick
  <2>1. ASSUME NEW t \in {"T2", "HB", "STATS"}, NEW U, (pend \cup bits) \ {t} \subseteq U
        PROVE  Sound(now, U)
    <3>1. (pend \cup bits) \cap Probes \subseteq U BY <2>1 DEF Probes
    <3> QED BY <1>5, <3>1, SoundGrows
  <2>2. CASE OnT2
    <3>1. \A U : (pend \cup bits) \ {"T2"} \subseteq U => Sound(T2Expiry(now), U)
      BY <1>4, <2>1, TicksSound
    <3> QED BY <1>4, <1>8, <2>2, <3>1, ExpiryType DEF OnT2, Timers
  <2>3. CASE OnHeartbeat
    <3>1. \A U : (pend \cup bits) \ {"HB"} \subseteq U => Sound(HeartbeatTick(now), U)
      BY <1>4, <2>1, TicksSound
    <3> QED BY <1>4, <1>8, <2>3, <3>1, ExpiryType DEF OnHeartbeat, Timers
  <2>4. CASE OnStatsTick
    <3>1. \A U : (pend \cup bits) \ {"STATS"} \subseteq U => Sound(StatsTick(now), U)
      BY <1>4, <2>1, TicksSound
    <3> QED BY <1>4, <1>8, <2>4, <3>1, ExpiryType DEF OnStatsTick, Timers
  <2> QED BY <1>11, <2>2, <2>3, <2>4
<1>12. ASSUME NEW x \in Session, Handle(x), Sound(x, pend \cup bits) PROVE LifeInv'
  <2>1. (pend \cup bits)' = pend \cup bits BY <1>12 DEF Handle
  <2> QED BY <1>12, <2>1, HandledLife DEF Handle
<1>13. ASSUME NEW f \in Frames, RxFrame(f) PROVE LifeInv'
  <2>1. f \in Frame BY FramesType
  <2>2. now.st = s.st BY <1>4 DEF Same, Core
  <2>3. CASE RxDisconnected(f)
    BY <1>4, <1>5, <1>12, <2>1, <2>3, OtherFrameType, OtherFrameSound DEF RxDisconnected
  <2>4. CASE RxAwaitingConnection(f)
    BY <1>4, <1>5, <1>12, <2>1, <2>2, <2>4, AwaitingConnectionFrameType, AwaitingConnectionSound
    DEF RxAwaitingConnection
  <2>5. CASE RxConnected(f)
    BY <1>4, <1>5, <1>12, <2>1, <2>2, <2>5, ConnectedFrameType, ConnectedSound DEF RxConnected
  <2>6. CASE RxTimerRecovery(f)
    BY <1>4, <1>5, <1>12, <2>1, <2>2, <2>6, TimerRecoveryFrameType, TimerRecoverySound
    DEF RxTimerRecovery
  <2>7. CASE RxAwaitingRelease(f)
    BY <1>4, <1>5, <1>12, <2>1, <2>2, <2>7, OtherFrameType, OtherFrameSound DEF RxAwaitingRelease
  <2> QED BY <1>13, <2>3, <2>4, <2>5, <2>6, <2>7 DEF RxFrame
<1>14. CASE Connect \/ Disconnect
  <2>1. 0 \in Nat OBVIOUS
  <2> QED BY <1>4, <1>5, <1>12, <1>14, <2>1, OperatorType, OperatorSound DEF Connect, Disconnect
<1>15. ASSUME NEW n \in 1 .. MaxBytes, TypeData(n) PROVE LifeInv'
  <2>1. n \in Nat BY ConfigAssumption
  <2>2. OperatorData(now, n) \in Session /\ Sound(OperatorData(now, n), pend \cup bits)
    BY <1>4, <1>5, <2>1, OperatorType, OperatorSound
  <2> QED BY <1>12, <1>15, <2>2 DEF TypeData
<1>16. CASE Shutdown
  <2>1. s' = Cleanup(now) BY <1>16 DEF Shutdown
  <2>2. now.terminated = FALSE BY <1>4, <1>5 DEF Begun, Session
  <2>3. s'.exited = TRUE /\ s'.armed = {} BY <1>4, <2>1 DEF Cleanup, Session
  <2>4. s'.closed = now.closed + 1 BY <1>4, <2>1, <2>2 DEF Cleanup, Session
  <2>5. now.closed = 0 BY <1>5 DEF Begun
  <2>6. s'.closed = 1 BY <2>4, <2>5
  <2> QED BY <2>3, <2>6 DEF LifeInv
<1>17. CASE BackendChanges
  <2>1. Same(now, s') /\ (pend \cup bits)' = pend \cup bits
    BY <1>4, <1>17, FieldSame DEF BackendChanges
  <2>2. Begun(s') /\ Sound(s', pend \cup bits) BY <1>5, <2>1, SameSound, SameBegun DEF Same
  <2> QED BY <2>1, <2>2 DEF LifeInv, Begun
<1> QED
  BY <1>6, <1>7, <1>9, <1>10, <1>11, <1>13, <1>14, <1>15, <1>16, <1>17
  DEF Next, Drain, Operator

LEMMA Life == Spec => [](TypeOK /\ LifeInv)
<1>1. Init => LifeInv BY DEF Init, NewSession, LifeInv, Begun, Sound, Watched, IsOpen
<1> QED BY <1>1, TypeCorrect, LifeStep, PTL DEF Spec

\* Whatever the peer sends and whenever the timers expire, an open link with
\* unacknowledged frames has T1 running or its expiry waiting, a connected one T1 or T3, and
\* one that is being set up or released T1 (transitions_*.go, session.go).
THEOREM NeverLeftDeaf == Spec => []NeverDeaf
<1>1. TypeOK /\ LifeInv => NeverDeaf
  <2> SUFFICES ASSUME TypeOK, LifeInv, Running PROVE /\ Open /\ Outstanding(s) > 0 => Alive("T1")
                                                     /\ s.st = "CONNECTED" => Alive("T1") \/ Alive("T3")
                                                     /\ s.st \in {"AWAITING_CONNECTION", "AWAITING_RELEASE"} => Alive("T1")
    BY DEF NeverDeaf
  <2>1. s.exited = FALSE /\ s.hung = FALSE BY DEF Running, TypeOK, Session
  <2>2. Watched(s, pend \cup bits) BY <2>1 DEF LifeInv, Sound, Begun, Ended
  <2>3. s.vs = s.va => Outstanding(s) = 0
    <3>1. Modulus(s) \in Nat \ {0} /\ s.vs \in Nat BY ModulusType DEF TypeOK, Session, Slots
    <3> QED BY <3>1 DEF Outstanding, Dist
  <2>4. Outstanding(s) > 0 => s.vs # s.va BY <2>3
  <2> QED BY <2>2, <2>4 DEF Watched, IsOpen, Open, Alive
<1> QED BY <1>1, Life, PTL

\* The observer is told DISCONNECTED once, when the state machine gets there or from cleanup,
\* and a session whose run loop has ended has no timer left (setState, cleanup).
THEOREM ToldOnce == Spec => []ClosedOnce
<1>1. TypeOK /\ LifeInv => ClosedOnce
  <2> SUFFICES ASSUME TypeOK, LifeInv PROVE ClosedOnce OBVIOUS
  <2>1. CASE s.exited = TRUE
    <3>1. s.closed = 1 /\ s.armed = {} BY <2>1 DEF LifeInv
    <3>2. s.closed <= 1 BY <3>1
    <3> QED BY <2>1, <3>1, <3>2 DEF ClosedOnce
  <2>2. CASE s.exited = FALSE
    <3>1. s.closed = 0 BY <2>2 DEF LifeInv, Begun
    <3>2. s.closed <= 1 /\ s.closed # 1 BY <3>1
    <3> QED BY <2>2, <3>2 DEF ClosedOnce
  <2> QED BY <2>1, <2>2 DEF TypeOK, Session
<1> QED BY <1>1, Life, PTL

-----------------------------------------------------------------------------
(* WindowRespected and StreamConserved.  Sequence numbers first: below the  *)
(* modulus, Dist and SeqAfter are one addition with at most one wrap.       *)

LEMMA WrapUp ==
    ASSUME NEW m \in Nat, NEW a \in Nat, a < m + m
    PROVE  a % m = IF a < m THEN a ELSE a - m
<1>1. a < m => a % m = a OBVIOUS
<1>2. m <= a => a % m = a - m OBVIOUS
<1> QED BY <1>1, <1>2

LEMMA WrapDown ==
    ASSUME NEW m \in Nat, NEW a \in Int, -m <= a, a < m
    PROVE  a % m = IF a >= 0 THEN a ELSE a + m
<1>1. 0 <= a => a % m = a OBVIOUS
<1>2. a < 0 => a % m = a + m OBVIOUS
<1> QED BY <1>1, <1>2

Below(m) == 0 .. (m - 1)

LEMMA DistEval ==
    ASSUME NEW x \in Session, NEW a \in Below(Modulus(x)), NEW b \in Below(Modulus(x))
    PROVE  Dist(x, a, b) = IF a <= b THEN b - a ELSE b - a + Modulus(x)
<1> DEFINE m == Modulus(x)
           c == b - a
<1>1. m \in Nat /\ c \in Int /\ -m <= c /\ c < m /\ (c >= 0 <=> a <= b)
  BY ModulusType DEF Below
<1>2. Dist(x, a, b) = c % m BY DEF Dist
<1> HIDE DEF m, c
<1>3. c % m = IF c >= 0 THEN c ELSE c + m BY <1>1, WrapDown
<1>4. Dist(x, a, b) = IF a <= b THEN c ELSE c + m BY <1>1, <1>2, <1>3, Zenon
<1> QED BY <1>4, Zenon DEF m, c

LEMMA AfterEval ==
    ASSUME NEW x \in Session, NEW a \in Below(Modulus(x)), NEW i \in Nat, i <= Modulus(x)
    PROVE  SeqAfter(x, a, i) = IF a + i < Modulus(x) THEN a + i ELSE (a + i) - Modulus(x)
<1> DEFINE m == Modulus(x)
           c == a + i
<1>1. m \in Nat /\ c \in Nat /\ c < m + m BY ModulusType DEF Below
<1>2. SeqAfter(x, a, i) = c % m BY DEF SeqAfter
<1> HIDE DEF m, c
<1>3. c % m = IF c < m THEN c ELSE c - m BY <1>1, WrapUp
<1>4. SeqAfter(x, a, i) = IF c < m THEN c ELSE c - m BY <1>2, <1>3, Zenon
<1> QED BY <1>4, Zenon DEF m, c

LEMMA BackEval ==
    ASSUME NEW x \in Session, NEW a \in Below(Modulus(x))
    PROVE  (a - 1) % Modulus(x) = IF a > 0 THEN a - 1 ELSE Modulus(x) - 1
<1> DEFINE m == Modulus(x)
           c == a - 1
<1>1. m \in Nat /\ c \in Int /\ -m <= c /\ c < m /\ (c >= 0 <=> a > 0) /\ (a <= 0 => c + m = m - 1)
  BY ModulusType DEF Below
<1> HIDE DEF m, c
<1>2. c % m = IF c >= 0 THEN c ELSE c + m BY <1>1, WrapDown
<1>3. a > 0 \/ a <= 0 BY DEF Below
<1>4. c % m = IF a > 0 THEN c ELSE m - 1 BY <1>1, <1>2, <1>3, Zenon
<1> QED BY <1>4, Zenon DEF m, c

\* What the operators of sequence numbers give, for the proofs about slots.
LEMMA RingFacts ==
    ASSUME NEW x \in Session, NEW a \in Below(Modulus(x)), NEW b \in Below(Modulus(x))
    PROVE  /\ Dist(x, a, b) \in Below(Modulus(x))
           /\ SeqAfter(x, a, Dist(x, a, b)) = b
           /\ Dist(x, a, b) = 0 <=> a = b
<1> DEFINE m == Modulus(x)
           d == Dist(x, a, b)
<1>1. m \in Nat \ {0} /\ a \in Below(m) /\ b \in Below(m) BY ModulusType
<1>2. d = IF a <= b THEN b - a ELSE b - a + m BY DistEval
<1>3. d \in Nat /\ d <= m => SeqAfter(x, a, d) = IF a + d < m THEN a + d ELSE (a + d) - m
  BY AfterEval
<1> HIDE DEF m, d
<1>4. d \in Below(m) BY <1>1, <1>2 DEF Below
<1>5. SeqAfter(x, a, d) = b BY <1>1, <1>2, <1>3, <1>4 DEF Below
<1>6. d = 0 <=> a = b BY <1>1, <1>2 DEF Below
<1> QED BY <1>4, <1>5, <1>6 DEF m, d

LEMMA SlotFacts ==
    ASSUME NEW x \in Session, NEW a \in Below(Modulus(x)), NEW i \in Below(Modulus(x))
    PROVE  /\ SeqAfter(x, a, i) \in Below(Modulus(x))
           /\ Dist(x, a, SeqAfter(x, a, i)) = i
           /\ SeqAfter(x, a, i) \in Slots
<1> DEFINE m == Modulus(x)
           n == SeqAfter(x, a, i)
<1>1. m \in Nat \ {0} /\ a \in Below(m) /\ i \in Below(m) /\ m <= Mod128 BY ModulusType
<1>2. i \in Nat /\ i <= m BY <1>1 DEF Below
<1>3. n = IF a + i < m THEN a + i ELSE (a + i) - m BY <1>2, AfterEval
<1>4. n \in Below(m) => Dist(x, a, n) = IF a <= n THEN n - a ELSE n - a + m BY DistEval
<1> HIDE DEF m, n
<1>5. n \in Below(m) BY <1>1, <1>3 DEF Below
<1>6. Dist(x, a, n) = i BY <1>1, <1>3, <1>4, <1>5 DEF Below
<1>7. n \in Slots BY <1>1, <1>5, ModuliAssumption DEF Below, Slots
<1> QED BY <1>5, <1>6, <1>7 DEF m, n

-----------------------------------------------------------------------------
(* The retransmit slots.                                                   *)

\* The stretch of the i-th unacknowledged frame, i = 0, 1, ...
InFlight(x, i) == x.pending[SeqAfter(x, x.va, i)]

\* The window holds, and the frames from V(A) to V(S) carry the operator's bytes from
\* the acknowledged one to the first of txBuf: none twice, none missing, none empty.
Tiled(x) ==
    /\ x.va \in Below(Modulus(x)) /\ x.vs \in Below(Modulus(x))
    /\ Outstanding(x) <= x.win
    /\ \A i \in Nat : i < Outstanding(x) => InFlight(x, i).lo < InFlight(x, i).hi
    /\ \A i \in Nat : i + 1 < Outstanding(x) => InFlight(x, i).hi = InFlight(x, i + 1).lo
    /\ Outstanding(x) = 0 => x.acked = x.head
    /\ Outstanding(x) > 0 => /\ InFlight(x, 0).lo = x.acked
                             /\ InFlight(x, Outstanding(x) - 1).hi = x.head

\* A window as large as the modulus never fills; below it, kick can tell a full one.
Fits(x) == x.win < Modulus(x)
Kept(x) == Fits(x) /\ (IsOpen(x) /\ x.hung # TRUE => Tiled(x))

SameLink(x, y) == y.mod128 = x.mod128 /\ y.win = x.win
SameStream(x, y) ==
    /\ SameLink(x, y)
    /\ y.vs = x.vs /\ y.va = x.va /\ y.pending = x.pending
    /\ y.head = x.head /\ y.acked = x.acked
SameFlow(x, y) == SameStream(x, y) /\ y.st = x.st /\ y.hung = x.hung

LEMMA SameTiled ==
    ASSUME NEW x, NEW y, SameStream(x, y)
    PROVE  Modulus(y) = Modulus(x) /\ (Tiled(x) => Tiled(y)) /\ (Fits(x) => Fits(y))
<1>1. Modulus(y) = Modulus(x) BY DEF SameStream, SameLink, Modulus
<1>2. Outstanding(y) = Outstanding(x) BY <1>1 DEF SameStream, Outstanding, Dist
<1>3. \A i : InFlight(y, i) = InFlight(x, i) BY <1>1 DEF SameStream, InFlight, SeqAfter
<1>4. Fits(x) => Fits(y) BY <1>1 DEF SameStream, SameLink, Fits
<1>5. ASSUME Tiled(x) PROVE Tiled(y)
  <2>1. y.va = x.va /\ y.vs = x.vs /\ y.win = x.win /\ y.acked = x.acked /\ y.head = x.head
    BY DEF SameStream, SameLink
  <2> QED BY <1>1, <1>2, <1>3, <1>5, <2>1, Zenon DEF Tiled
<1> QED BY <1>1, <1>4, <1>5

LEMMA SameKept == ASSUME NEW x, NEW y, SameFlow(x, y), Kept(x) PROVE Kept(y)
BY SameTiled DEF SameFlow, Kept, IsOpen

\* A session that is not open, or hangs, owes only the window bound.
LEMMA ShutKept ==
    ASSUME NEW x, NEW y, SameLink(x, y), Kept(x), ~IsOpen(y) \/ y.hung = TRUE PROVE Kept(y)
<1>1. Modulus(y) = Modulus(x) /\ y.win = x.win BY DEF SameLink, Modulus
<1> QED BY <1>1 DEF Kept, Fits

\* What Tiled says is what the runs check.
LEMMA TiledSays ==
    ASSUME NEW x \in Session, Fits(x), Tiled(x)
    PROVE  /\ Outstanding(x) <= x.win
           /\ \A n \in Slots : n < Modulus(x) /\ Dist(x, x.va, n) < Outstanding(x)
                               => x.pending[n].lo < x.pending[n].hi
           /\ Outstanding(x) = 0 => x.acked = x.head
           /\ Outstanding(x) > 0 =>
                 /\ x.pending[x.va].lo = x.acked
                 /\ x.pending[(x.vs - 1) % Modulus(x)].hi = x.head
           /\ \A n \in 0 .. (Modulus(x) - 1) :
                 Dist(x, x.va, n) + 1 < Outstanding(x)
                 => x.pending[n].hi = x.pending[(n + 1) % Modulus(x)].lo
<1> DEFINE m == Modulus(x)
           o == Outstanding(x)
<1>1. m \in Nat \ {0} /\ m <= Mod128 /\ x.va \in Below(m) /\ x.vs \in Below(m)
  BY ModulusType DEF Tiled
<1>2. o \in Below(m) /\ SeqAfter(x, x.va, o) = x.vs BY <1>1, RingFacts DEF Outstanding
<1>3. ASSUME NEW n \in Below(m)
      PROVE  Dist(x, x.va, n) \in Nat /\ x.pending[n] = InFlight(x, Dist(x, x.va, n))
  <2>1. Dist(x, x.va, n) \in Below(m) /\ SeqAfter(x, x.va, Dist(x, x.va, n)) = n
    BY <1>1, RingFacts
  <2> QED BY <2>1 DEF InFlight, Below
<1>4. ASSUME NEW n \in Slots, n < m, Dist(x, x.va, n) < o
      PROVE  x.pending[n].lo < x.pending[n].hi
  <2>1. n \in Below(m) BY <1>1, <1>4 DEF Slots, Below
  <2> QED BY <1>3, <1>4, <2>1 DEF Tiled
<1>5. o > 0 => x.pending[x.va].lo = x.acked
  <2>1. Dist(x, x.va, x.va) = 0 BY <1>1, RingFacts
  <2> QED BY <1>1, <1>3, <2>1 DEF Tiled
<1>6. o > 0 => x.pending[(x.vs - 1) % m].hi = x.head
  <2> SUFFICES ASSUME o > 0 PROVE x.pending[(x.vs - 1) % m].hi = x.head OBVIOUS
  <2>1. o - 1 \in Nat /\ o - 1 <= m /\ o \in Nat /\ o <= m
    <3> HIDE DEF m, o
    <3> QED BY <1>1, <1>2 DEF Below
  <2>2. SeqAfter(x, x.va, o - 1) = IF x.va + (o - 1) < m THEN x.va + (o - 1)
                                   ELSE (x.va + (o - 1)) - m
    BY <1>1, <2>1, AfterEval
  <2>3. x.vs = IF x.va + o < m THEN x.va + o ELSE (x.va + o) - m
    BY <1>1, <1>2, <2>1, AfterEval
  <2>4. (x.vs - 1) % m = IF x.vs > 0 THEN x.vs - 1 ELSE m - 1 BY <1>1, BackEval
  <2> HIDE DEF m, o
  <2>5. (IF x.vs > 0 THEN x.vs - 1 ELSE m - 1)
        = IF x.va + (o - 1) < m THEN x.va + (o - 1) ELSE (x.va + (o - 1)) - m
    BY <1>1, <1>2, <2>1, <2>3 DEF Below
  <2>6. (x.vs - 1) % m = SeqAfter(x, x.va, o - 1) BY <2>2, <2>4, <2>5
  <2>7. InFlight(x, o - 1).hi = x.head BY DEF Tiled, o
  <2> QED BY <2>6, <2>7 DEF InFlight
<1>7. ASSUME NEW n \in Below(m), Dist(x, x.va, n) + 1 < o
      PROVE  x.pending[n].hi = x.pending[(n + 1) % m].lo
  <2> DEFINE i == Dist(x, x.va, n)
  <2>1. i \in Nat /\ i + 1 \in Nat /\ i <= m /\ i + 1 <= m
    <3>1. i \in Nat /\ i + 1 < o BY <1>3, <1>7
    <3> HIDE DEF m, o, i
    <3> QED BY <1>1, <1>2, <3>1 DEF Below
  <2>2. n = IF x.va + i < m THEN x.va + i ELSE (x.va + i) - m
    <3>1. SeqAfter(x, x.va, i) = n BY <1>1, RingFacts
    <3> QED BY <1>1, <2>1, <3>1, AfterEval
  <2>3. SeqAfter(x, x.va, i + 1) = IF x.va + (i + 1) < m THEN x.va + (i + 1)
                                   ELSE (x.va + (i + 1)) - m
    BY <1>1, <2>1, AfterEval
  <2>4. (n + 1) % m = IF n + 1 < m THEN n + 1 ELSE (n + 1) - m
    <3>1. 1 \in Nat /\ 1 <= m /\ SeqAfter(x, n, 1) = (n + 1) % m BY <1>1 DEF SeqAfter
    <3> QED BY <3>1, AfterEval
  <2> HIDE DEF m, o, i
  <2>5. (IF n + 1 < m THEN n + 1 ELSE (n + 1) - m)
        = IF x.va + (i + 1) < m THEN x.va + (i + 1) ELSE (x.va + (i + 1)) - m
    BY <1>1, <1>7, <2>1, <2>2 DEF Below
  <2>6. (n + 1) % m = SeqAfter(x, x.va, i + 1) BY <2>3, <2>4, <2>5
  <2>7. InFlight(x, i).hi = InFlight(x, i + 1).lo BY <1>7, <2>1 DEF Tiled, o, i
  <2>8. x.pending[n] = InFlight(x, i) BY <1>3 DEF i
  <2> QED BY <2>6, <2>7, <2>8 DEF InFlight
<1> QED BY <1>1, <1>4, <1>5, <1>6, <1>7 DEF Tiled, Below

LEMMA SameFlowTrans ==
    ASSUME NEW x, NEW y, NEW z, SameFlow(x, y), SameFlow(y, z) PROVE SameFlow(x, z)
BY DEF SameFlow, SameStream, SameLink

LEMMA ArmFlow ==
    ASSUME NEW x \in Session, NEW ts PROVE SameFlow(x, Arm(x, ts)) /\ SameFlow(x, Stop(x, ts))
BY DEF Arm, Stop, SameFlow, SameStream, SameLink, Session

LEMMA FieldFlow ==
    ASSUME NEW x \in Session, NEW a, NEW b, NEW c
    PROVE  /\ SameFlow(x, [x EXCEPT !.tx = a])
           /\ SameFlow(x, [x EXCEPT !.tx = a, !.err = b, !.txFailNotified = c])
           /\ SameFlow(x, [x EXCEPT !.cond = a])
           /\ SameFlow(x, [x EXCEPT !.n2 = a])
           /\ SameFlow(x, [x EXCEPT !.cond = a, !.n2 = b])
           /\ SameFlow(x, [x EXCEPT !.n2 = a, !.cond = b])
           /\ SameFlow(x, [x EXCEPT !.vr = a, !.cond = b, !.shown = c])
           /\ SameFlow(x, [x EXCEPT !.tail = a])
           /\ SameFlow(x, [x EXCEPT !.err = a])
           /\ SameFlow(x, [x EXCEPT !.sinkUp = a])
BY DEF SameFlow, SameStream, SameLink, Session

LEMMA SendFlow ==
    ASSUME NEW x \in Session, NEW a, NEW b
    PROVE  /\ SameFlow(x, SubmitAll(x, a))
           /\ SameFlow(x, SendSABM(x, a)) /\ SameFlow(x, SendDISC(x)) /\ SameFlow(x, SendUA(x, a))
           /\ SameFlow(x, SendDM(x, a)) /\ SameFlow(x, SendRR(x, a, b))
           /\ SameFlow(x, SendREJ(x, a))
<1>1. ASSUME NEW fs PROVE SameFlow(x, SubmitAll(x, fs))
  <2> DEFINE tx == x.tx \o [i \in DOMAIN fs |-> [fs[i] EXCEPT !.ok = Encodable(fs[i]) /\ x.sinkUp]]
             refused == ~x.sinkUp /\ \E i \in DOMAIN fs : Encodable(fs[i])
             err == IF refused /\ ~x.txFailNotified THEN "tx-failed" ELSE x.err
             told == x.txFailNotified \/ refused
  <2>1. SubmitAll(x, fs) = [x EXCEPT !.tx = tx, !.err = err, !.txFailNotified = told]
    BY DEF SubmitAll
  <2> HIDE DEF tx, refused, err, told
  <2> QED BY <2>1 DEF SameFlow, SameStream, SameLink, Session
<1> QED BY <1>1 DEF SendSABM, SendDISC, SendUA, SendDM, SendRR, SendREJ, Submit

LEMMA SetStateStream ==
    ASSUME NEW x \in Session, NEW ns \in States
    PROVE  LET y == SetState(x, ns)
           IN  SameStream(x, y) /\ y.st = ns /\ y.hung = x.hung
<1>1. CASE ns = x.st BY <1>1 DEF SetState, SameStream, SameLink
<1>2. CASE ns # x.st
  <2> DEFINE armed == (IF x.st = "CONNECTED" THEN x.armed \ {"STATS"} ELSE x.armed)
                      \cup (IF ns = "CONNECTED" THEN {"STATS"} ELSE {})
             down == x.terminated \/ ns = "DISCONNECTED"
             closed == IF ns = "DISCONNECTED" THEN x.closed + 1 ELSE x.closed
  <2>1. SetState(x, ns) = [x EXCEPT !.st = ns, !.armed = armed, !.closed = closed,
                                    !.terminated = down]
    BY <1>2 DEF SetState
  <2> HIDE DEF armed, down, closed
  <2> QED BY <2>1 DEF SameStream, SameLink, Session
<1> QED BY <1>1, <1>2

-----------------------------------------------------------------------------
(* kick.  The frames it cuts are consecutive and not empty.                *)

LEMMA LastCut ==   \* fewer than ceiling(d / p) whole pieces of p do not exhaust d
    ASSUME NEW d \in Nat, NEW p \in Nat \ {0}, NEW j \in Nat, j < (d + p - 1) \div p
    PROVE  j * p < d
<1> DEFINE q == (d + p - 1) \div p
<1>1. q \in Nat /\ q * p <= d + p - 1 OBVIOUS
<1>2. ASSUME NEW n \in Nat, j < n PROVE j * p + p <= n * p
  <2>1. PICK e \in Nat : n = j + 1 + e
    <3>1. n - (j + 1) \in Nat /\ n = j + 1 + (n - (j + 1)) BY <1>2
    <3> QED BY <3>1
  <2>2. n * p = j * p + p + e * p /\ e * p \in Nat /\ j * p \in Nat BY <2>1
  <2> QED BY <2>2
<1>3. j * p + p <= q * p BY <1>1, <1>2
<1>4. j * p \in Nat /\ q * p \in Nat BY <1>1
<1> HIDE DEF q
<1> QED BY <1>1, <1>3, <1>4

LEMMA ChunkFacts ==
    ASSUME NEW x \in Session, NEW k \in Nat, k <= Chunks(x)
    PROVE  /\ Chunk(x, 0).lo = x.head
           /\ \A j \in Nat : j < k => Chunk(x, j).lo < Chunk(x, j).hi
           /\ \A j \in Nat : j + 1 < k => Chunk(x, j).hi = Chunk(x, j + 1).lo
<1>1. x.head \in Nat /\ x.tail \in Nat /\ Paclen \in Nat \ {0} /\ Chunks(x) \in Nat
  BY ConfigAssumption, BurstType DEF Session
<1>2. Chunk(x, 0).lo = x.head
  <2>1. 0 * Paclen = 0 BY <1>1
  <2> QED BY <1>1, <2>1 DEF Chunk
<1>3. ASSUME NEW j \in Nat, j < k PROVE x.head + j * Paclen < x.tail
  <2>1. j < Chunks(x) BY <1>1, <1>3
  <2>2. x.tail > x.head BY <1>1, <2>1 DEF Chunks
  <2> DEFINE d == x.tail - x.head
  <2>3. d \in Nat /\ Chunks(x) = (d + Paclen - 1) \div Paclen BY <1>1, <2>2 DEF Chunks
  <2> HIDE DEF d
  <2>4. j * Paclen < d /\ j * Paclen \in Nat BY <1>1, <2>1, <2>3, LastCut
  <2> QED BY <1>1, <2>4 DEF d
<1>4. ASSUME NEW j \in Nat PROVE (j + 1) * Paclen = j * Paclen + Paclen /\ j * Paclen \in Nat
  BY <1>1
<1>5. ASSUME NEW j \in Nat, j < k PROVE Chunk(x, j).lo < Chunk(x, j).hi
  <2> DEFINE a == j * Paclen
  <2>1. a \in Nat /\ x.head + a < x.tail BY <1>3, <1>4, <1>5
  <2>2. Chunk(x, j).lo = x.head + a
        /\ Chunk(x, j).hi = IF x.head + (a + Paclen) <= x.tail THEN x.head + (a + Paclen) ELSE x.tail
    BY <1>4 DEF Chunk
  <2> HIDE DEF a
  <2> QED BY <1>1, <2>1, <2>2
<1>6. ASSUME NEW j \in Nat, j + 1 < k PROVE Chunk(x, j).hi = Chunk(x, j + 1).lo
  <2> DEFINE b == (j + 1) * Paclen
  <2>1. j + 1 \in Nat OBVIOUS
  <2>2. x.head + b < x.tail BY <1>3, <1>6, <2>1
  <2>3. b \in Nat BY <1>4, <2>1
  <2>4. Chunk(x, j + 1).lo = x.head + b
        /\ Chunk(x, j).hi = IF x.head + b <= x.tail THEN x.head + b ELSE x.tail
    BY DEF Chunk
  <2> HIDE DEF b
  <2>5. x.head + b <= x.tail BY <1>1, <2>2, <2>3
  <2> QED BY <2>4, <2>5
<1> QED BY <1>2, <1>5, <1>6

\* The burst leaves the window within bounds, and below the modulus.
LEMMA BurstFits ==
    ASSUME NEW x \in Session, Fits(x), Tiled(x)
    PROVE  /\ Outstanding(x) \in Nat /\ Burst(x) \in Nat /\ Burst(x) <= Chunks(x)
           /\ Outstanding(x) + Burst(x) <= x.win
           /\ Outstanding(x) + Burst(x) < Modulus(x)
<1>1. Modulus(x) \in Nat /\ x.win \in Nat /\ x.win < Modulus(x) BY ModulusType DEF Session, Fits
<1>2. Outstanding(x) \in Nat /\ Outstanding(x) <= x.win
  BY DistType DEF Outstanding, Tiled, Session, Slots
<1>3. Chunks(x) \in Nat /\ Burst(x) \in Nat BY BurstType
<1>4. Burst(x) <= Chunks(x) /\ Outstanding(x) + Burst(x) <= x.win
  BY <1>1, <1>2, <1>3 DEF Burst
<1> QED BY <1>1, <1>2, <1>3, <1>4

\* Kick either leaves the slots alone or appends Burst(x) frames to them.
LEMMA KickView ==
    ASSUME NEW x \in Session
    PROVE  LET y == Kick(x)
               k == Burst(x)
           IN  \/ y = x
               \/ /\ SameLink(x, y) /\ y.va = x.va /\ y.acked = x.acked
                  /\ y.st = x.st /\ y.hung = x.hung
                  /\ y.vs = IF k = 0 THEN x.vs ELSE SeqAfter(x, x.vs, k)
                  /\ y.head = IF k = 0 THEN x.head ELSE Chunk(x, k - 1).hi
                  /\ y.pending = [n \in Slots |->
                                     IF n < Modulus(x) /\ Dist(x, x.vs, n) < k
                                     THEN Chunk(x, Dist(x, x.vs, n)) ELSE x.pending[n]]
<1> DEFINE k == Burst(x)
           frames == [j \in 1 .. k |->
                        [kind |-> "I", ns |-> SeqAfter(x, x.vs, j - 1), nr |-> x.vr, pf |-> FALSE,
                         cmd |-> TRUE, info |-> Chunk(x, j - 1), ok |-> TRUE]]
           sent == SubmitAll(x, frames)
           slots == [n \in Slots |-> IF n < Modulus(x) /\ Dist(x, x.vs, n) < k
                                     THEN Chunk(x, Dist(x, x.vs, n)) ELSE sent.pending[n]]
           head == IF k = 0 THEN sent.head ELSE Chunk(x, k - 1).hi
           vs == IF k = 0 THEN sent.vs ELSE SeqAfter(x, x.vs, k)
           cond == IF k > 0 THEN sent.cond \ {"ACK"} ELSE sent.cond
           armed == IF k > 0 /\ "ACK" \in x.cond THEN sent.armed \ {"T2"} ELSE sent.armed
           y == [sent EXCEPT !.pending = slots, !.head = head, !.vs = vs, !.cond = cond,
                             !.armed = armed]
<1>1. Kick(x) = IF x.st \notin {"CONNECTED", "TIMER_RECOVERY"} \/ "BUSY" \in x.cond \/ x.hung
                THEN x ELSE IF y.vs = y.va THEN y ELSE Stop(Arm(y, {"T1"}), {"T3"})
  BY DEF Kick
<1>2. SameFlow(x, sent) /\ DOMAIN sent = DOMAIN x BY SendFlow DEF SubmitAll
<1> HIDE DEF sent, cond, armed
<1>3. slots = [n \in Slots |-> IF n < Modulus(x) /\ Dist(x, x.vs, n) < k
                               THEN Chunk(x, Dist(x, x.vs, n)) ELSE x.pending[n]]
      /\ head = (IF k = 0 THEN x.head ELSE Chunk(x, k - 1).hi)
      /\ vs = (IF k = 0 THEN x.vs ELSE SeqAfter(x, x.vs, k))
  BY <1>2 DEF SameFlow, SameStream
<1> HIDE DEF slots, head, vs
<1>4. y.pending = slots /\ y.head = head /\ y.vs = vs /\ y.va = sent.va /\ y.acked = sent.acked
      /\ y.st = sent.st /\ y.hung = sent.hung /\ y.mod128 = sent.mod128 /\ y.win = sent.win
      /\ DOMAIN y = DOMAIN x
  BY <1>2 DEF Session
<1> HIDE DEF y
<1> DEFINE z == Stop(Arm(y, {"T1"}), {"T3"})
<1>5. z.pending = slots /\ z.head = head /\ z.vs = vs /\ z.va = sent.va /\ z.acked = sent.acked
      /\ z.st = sent.st /\ z.hung = sent.hung /\ z.mod128 = sent.mod128 /\ z.win = sent.win
  BY <1>4 DEF Arm, Stop, Session
<1> HIDE DEF z
<1>6. Kick(x) = x \/ Kick(x) = y \/ Kick(x) = z BY <1>1 DEF z
<1>7. CASE Kick(x) = x BY <1>7
<1>8. CASE Kick(x) = y BY <1>2, <1>3, <1>4, <1>8 DEF SameFlow, SameStream, SameLink
<1>9. CASE Kick(x) = z BY <1>2, <1>3, <1>5, <1>9 DEF SameFlow, SameStream, SameLink
<1> QED BY <1>6, <1>7, <1>8, <1>9

LEMMA KickTiled ==
    ASSUME NEW x \in Session, Fits(x), Tiled(x)
    PROVE  Tiled(Kick(x)) /\ SameLink(x, Kick(x))
<1> DEFINE y == Kick(x)
           k == Burst(x)
           o == Outstanding(x)
           m == Modulus(x)
<1>1. CASE y = x BY <1>1 DEF SameLink
<1>2. CASE y # x
  <2>1. /\ SameLink(x, y) /\ y.va = x.va /\ y.acked = x.acked
        /\ y.vs = IF k = 0 THEN x.vs ELSE SeqAfter(x, x.vs, k)
        /\ y.head = IF k = 0 THEN x.head ELSE Chunk(x, k - 1).hi
        /\ y.pending = [n \in Slots |-> IF n < m /\ Dist(x, x.vs, n) < k
                                        THEN Chunk(x, Dist(x, x.vs, n)) ELSE x.pending[n]]
    BY <1>2, KickView
  <2>2. o \in Nat /\ k \in Nat /\ k <= Chunks(x) /\ o + k <= x.win /\ o + k < m
    BY BurstFits
  <2>3. m \in Nat \ {0} /\ x.va \in Below(m) /\ x.vs \in Below(m) BY ModulusType DEF Tiled
  <2>4. x.vs = IF x.va + o < m THEN x.va + o ELSE (x.va + o) - m
    <3>1. SeqAfter(x, x.va, o) = x.vs BY <2>3, RingFacts DEF Outstanding
    <3>2. o <= m BY <2>2, <2>3
    <3> QED BY <2>2, <2>3, <3>1, <3>2, AfterEval
  <2>5. Modulus(y) = m BY <2>1 DEF SameLink, Modulus
  \* The slot of the i-th frame: an old one below o, a new one from o on.
  <2>6. ASSUME NEW i \in Nat, i < m
        PROVE  /\ SeqAfter(x, x.va, i) \in Slots /\ SeqAfter(x, x.va, i) \in Below(m)
               /\ SeqAfter(x, x.va, i) = IF x.va + i < m THEN x.va + i ELSE (x.va + i) - m
    <3>1. i \in Below(m) /\ i <= m BY <2>3, <2>6 DEF Below
    <3> QED BY <2>3, <3>1, SlotFacts, AfterEval
  <2>7. ASSUME NEW i \in Nat, i < o + k
        PROVE  InFlight(y, i) = IF i < o THEN InFlight(x, i) ELSE Chunk(x, i - o)
    <3> DEFINE n == SeqAfter(x, x.va, i)
    <3>1. i < m BY <2>2, <2>3, <2>7
    <3>2. n \in Slots /\ n \in Below(m) /\ n < m /\ n = IF x.va + i < m THEN x.va + i ELSE (x.va + i) - m
      BY <2>3, <2>6, <3>1 DEF Below
    <3>3. Dist(x, x.vs, n) = IF x.vs <= n THEN n - x.vs ELSE n - x.vs + m
      BY <2>3, <3>2, DistEval
    <3>4. InFlight(x, i) = x.pending[n] /\ InFlight(y, i) = y.pending[n]
      BY <2>1, <2>5 DEF InFlight, SeqAfter
    <3>5. y.pending[n] = IF Dist(x, x.vs, n) < k THEN Chunk(x, Dist(x, x.vs, n)) ELSE x.pending[n]
      BY <2>1, <3>2
    <3> HIDE DEF n, m, o, k, y
    <3>6. i < o => ~(Dist(x, x.vs, n) < k)
      BY <2>2, <2>3, <2>4, <3>1, <3>2, <3>3 DEF Below
    <3>7. ~(i < o) => Dist(x, x.vs, n) < k /\ Dist(x, x.vs, n) = i - o
      BY <2>2, <2>3, <2>4, <2>7, <3>1, <3>2, <3>3 DEF Below
    <3> QED BY <3>4, <3>5, <3>6, <3>7
  <2>8. y.vs = (IF x.va + (o + k) < m THEN x.va + (o + k) ELSE (x.va + (o + k)) - m)
        /\ y.vs \in Below(m)
    <3>1. k <= m BY <2>2, <2>3
    <3>2. SeqAfter(x, x.vs, k) = IF x.vs + k < m THEN x.vs + k ELSE (x.vs + k) - m
      BY <2>2, <2>3, <3>1, AfterEval
    <3> HIDE DEF m, o, k, y
    <3> QED BY <2>1, <2>2, <2>3, <2>4, <3>2 DEF Below
  <2>9. Outstanding(y) = o + k
    <3>1. y.vs = SeqAfter(x, x.va, o + k) BY <2>2, <2>6, <2>8
    <3>2. o + k \in Below(m) BY <2>2, <2>3 DEF Below
    <3>3. Dist(x, x.va, y.vs) = o + k BY <2>3, <3>1, <3>2, SlotFacts
    <3>4. Outstanding(y) = Dist(x, x.va, y.vs) BY <2>1, <2>5 DEF Outstanding, Dist
    <3> QED BY <3>3, <3>4
  <2> DEFINE u == o + k
  <2>10. Chunk(x, 0).lo = x.head
         /\ (\A j \in Nat : j < k => Chunk(x, j).lo < Chunk(x, j).hi)
         /\ (\A j \in Nat : j + 1 < k => Chunk(x, j).hi = Chunk(x, j + 1).lo)
    BY <2>2, ChunkFacts
  <2>11. /\ \A i \in Nat : i < o => InFlight(x, i).lo < InFlight(x, i).hi
         /\ \A i \in Nat : i + 1 < o => InFlight(x, i).hi = InFlight(x, i + 1).lo
         /\ o = 0 => x.acked = x.head
         /\ o > 0 => InFlight(x, 0).lo = x.acked /\ InFlight(x, o - 1).hi = x.head
    BY DEF Tiled
  <2> HIDE DEF y, k, o, m
  <2>12. ASSUME NEW i \in Nat, i < u PROVE InFlight(y, i).lo < InFlight(y, i).hi
    <3>1. CASE i < o BY <2>2, <2>7, <2>11, <2>12, <3>1
    <3>2. CASE ~(i < o)
      <4>1. i - o \in Nat /\ i - o < k BY <2>2, <2>12, <3>2
      <4> QED BY <2>7, <2>10, <2>12, <3>2, <4>1
    <3> QED BY <3>1, <3>2
  <2>13. ASSUME NEW i \in Nat, i + 1 < u PROVE InFlight(y, i).hi = InFlight(y, i + 1).lo
    <3>1. i < u /\ i + 1 \in Nat BY <2>2, <2>13
    <3>2. CASE i + 1 < o
      <4>1. i < o BY <2>2, <3>2
      <4> QED BY <2>7, <2>11, <2>13, <3>1, <3>2, <4>1
    <3>3. CASE i + 1 = o
      <4>1. i < o /\ ~(i + 1 < o) /\ o > 0 /\ i = o - 1 /\ (i + 1) - o = 0 BY <2>2, <3>3
      <4>2. InFlight(y, i).hi = x.head BY <2>7, <2>11, <3>1, <4>1
      <4>3. InFlight(y, i + 1).lo = x.head BY <2>7, <2>10, <2>13, <3>1, <4>1
      <4> QED BY <4>2, <4>3
    <3>4. CASE i + 1 > o
      <4>1. ~(i < o) /\ ~(i + 1 < o) /\ i - o \in Nat /\ (i - o) + 1 < k
            /\ (i + 1) - o = (i - o) + 1
        BY <2>2, <2>13, <3>4
      <4>2. InFlight(y, i) = Chunk(x, i - o) BY <2>7, <3>1, <4>1
      <4>3. InFlight(y, i + 1) = Chunk(x, (i - o) + 1) BY <2>7, <2>13, <3>1, <4>1
      <4> QED BY <2>10, <4>1, <4>2, <4>3
    <3> QED BY <2>2, <3>2, <3>3, <3>4
  <2>14. u = 0 => y.acked = y.head
    <3>1. u = 0 => o = 0 /\ k = 0 BY <2>2
    <3> QED BY <2>1, <2>11, <3>1
  <2>15. u > 0 => InFlight(y, 0).lo = y.acked /\ InFlight(y, u - 1).hi = y.head
    <3> SUFFICES ASSUME u > 0 PROVE InFlight(y, 0).lo = y.acked /\ InFlight(y, u - 1).hi = y.head
      OBVIOUS
    <3>1. InFlight(y, 0).lo = y.acked
      <4>1. CASE o > 0 BY <2>1, <2>2, <2>7, <2>11, <4>1
      <4>2. CASE o = 0
        <5>1. ~(0 < o) /\ 0 - o = 0 BY <4>2
        <5> QED BY <2>1, <2>7, <2>10, <2>11, <4>2, <5>1
      <4> QED BY <2>2, <4>1, <4>2
    <3>2. u - 1 \in Nat /\ u - 1 < u BY <2>2
    <3>3. InFlight(y, u - 1).hi = y.head
      <4>1. CASE k = 0
        <5>1. u - 1 < o /\ u - 1 = o - 1 /\ o > 0 BY <2>2, <4>1
        <5> QED BY <2>1, <2>7, <2>11, <3>2, <4>1, <5>1
      <4>2. CASE k # 0
        <5>1. ~(u - 1 < o) /\ (u - 1) - o = k - 1 BY <2>2, <4>2
        <5> QED BY <2>1, <2>7, <3>2, <4>2, <5>1
      <4> QED BY <4>1, <4>2
    <3> QED BY <3>1, <3>3
  <2>16. y.win = x.win BY <2>1 DEF SameLink
  <2>17. Tiled(y)
    <3>1. y.va \in Below(Modulus(y)) /\ y.vs \in Below(Modulus(y)) /\ Outstanding(y) <= y.win
      BY <2>1, <2>2, <2>3, <2>5, <2>8, <2>9, <2>16
    <3> QED BY <2>9, <2>12, <2>13, <2>14, <2>15, <3>1 DEF Tiled
  <2> QED BY <2>1, <2>17 DEF y
<1> QED BY <1>1, <1>2

-----------------------------------------------------------------------------
(* framesAcked and requeueFromVA.                                          *)

\* A frame the handlers look at has its N(R) below the modulus and in the window.
LEMMA AckedTiled ==
    ASSUME NEW x \in Session, NEW nr \in Below(Modulus(x)), Fits(x), Tiled(x), ValidNR(x, nr)
    PROVE  LET y == FramesAcked(x, nr)
           IN  Tiled(y) /\ SameLink(x, y) /\ y.st = x.st /\ y.hung = x.hung
<1> DEFINE y == FramesAcked(x, nr)
           o == Outstanding(x)
           d == Dist(x, x.va, nr)
           m == Modulus(x)
           slots == [n \in Slots |-> IF n < m /\ Dist(x, x.va, n) < d THEN Nil ELSE x.pending[n]]
           acked == IF nr = x.va THEN x.acked ELSE x.pending[(nr - 1) % m].hi
           freed == [x EXCEPT !.pending = slots, !.acked = acked, !.va = nr]
<1>1. y = IF x.vs = nr THEN Arm(Stop(freed, {"T1"}), {"T3"}) ELSE Arm(freed, {"T1"})
  BY DEF FramesAcked
<1> HIDE DEF slots, acked
<1>2. freed.pending = slots /\ freed.acked = acked /\ freed.va = nr /\ freed.vs = x.vs
      /\ freed.head = x.head /\ SameLink(x, freed) /\ freed.st = x.st /\ freed.hung = x.hung
      /\ DOMAIN freed = DOMAIN x
  BY DEF Session, SameLink
<1> HIDE DEF freed
<1>3. /\ SameLink(x, y) /\ y.va = nr /\ y.vs = x.vs /\ y.head = x.head /\ y.acked = acked
      /\ y.pending = slots /\ y.st = x.st /\ y.hung = x.hung
  <2>1. ASSUME NEW z, z = Arm(Stop(freed, {"T1"}), {"T3"}) \/ z = Arm(freed, {"T1"})
        PROVE /\ SameLink(x, z) /\ z.va = nr /\ z.vs = x.vs /\ z.head = x.head /\ z.acked = acked
              /\ z.pending = slots /\ z.st = x.st /\ z.hung = x.hung
    BY <1>2, <2>1 DEF Arm, Stop, Session, SameLink
  <2> QED BY <1>1, <2>1
<1>4. m \in Nat \ {0} /\ x.va \in Below(m) /\ x.vs \in Below(m) /\ nr \in Below(m)
  BY ModulusType DEF Tiled
<1>5. d \in Below(m) /\ o \in Below(m) /\ d \in Nat /\ o \in Nat /\ d <= o /\ o <= x.win
      /\ SeqAfter(x, x.va, d) = nr /\ SeqAfter(x, x.va, o) = x.vs /\ (d = 0 <=> x.va = nr)
  <2>1. d \in Below(m) /\ SeqAfter(x, x.va, d) = nr /\ (d = 0 <=> x.va = nr)
    BY <1>4, RingFacts
  <2>2. o \in Below(m) /\ SeqAfter(x, x.va, o) = x.vs BY <1>4, RingFacts DEF Outstanding
  <2> QED BY <2>1, <2>2 DEF Below, ValidNR, Tiled
<1>6. Modulus(y) = m BY <1>3 DEF SameLink, Modulus
<1>7. ASSUME NEW i \in Nat, i < m
      PROVE  /\ SeqAfter(x, x.va, i) \in Slots /\ SeqAfter(x, x.va, i) \in Below(m)
             /\ Dist(x, x.va, SeqAfter(x, x.va, i)) = i
             /\ SeqAfter(x, x.va, i) = IF x.va + i < m THEN x.va + i ELSE (x.va + i) - m
             /\ SeqAfter(y, nr, i) = IF nr + i < m THEN nr + i ELSE (nr + i) - m
  <2>1. i \in Below(m) /\ i <= m BY <1>4, <1>7 DEF Below
  <2>2. SeqAfter(y, nr, i) = SeqAfter(x, nr, i) BY <1>6 DEF SeqAfter
  <2> QED BY <1>4, <2>1, <2>2, SlotFacts, AfterEval
<1> DEFINE u == o - d
<1> HIDE DEF y, o, d, m
<1>8. u \in Nat /\ u <= o /\ u < m BY <1>4, <1>5 DEF Below
<1>9. ASSUME NEW i \in Nat, i < u PROVE InFlight(y, i) = InFlight(x, d + i)
  <2>1. i < m /\ d + i \in Nat /\ d + i < m BY <1>4, <1>5, <1>8, <1>9 DEF Below
  <2>2. SeqAfter(y, nr, i) = SeqAfter(x, x.va, d + i)
    <3>1. nr = IF x.va + d < m THEN x.va + d ELSE (x.va + d) - m
      <4>1. d < m BY <1>4, <1>5 DEF Below
      <4> QED BY <1>5, <1>7, <4>1
    <3>2. SeqAfter(x, x.va, d + i) = IF x.va + (d + i) < m THEN x.va + (d + i)
                                     ELSE (x.va + (d + i)) - m
      BY <1>7, <2>1
    <3>3. SeqAfter(y, nr, i) = IF nr + i < m THEN nr + i ELSE (nr + i) - m BY <1>7, <2>1
    <3> QED BY <1>4, <1>5, <2>1, <3>1, <3>2, <3>3 DEF Below
  <2> DEFINE n == SeqAfter(x, x.va, d + i)
  <2>3. n \in Slots /\ Dist(x, x.va, n) = d + i BY <1>7, <2>1
  <2>4. InFlight(y, i) = slots[n] /\ InFlight(x, d + i) = x.pending[n]
    BY <1>3, <2>2 DEF InFlight
  <2> HIDE DEF n
  <2>5. ~(Dist(x, x.va, n) < d) BY <1>5, <2>3
  <2> QED BY <2>3, <2>4, <2>5 DEF slots
<1>10. Outstanding(y) = u
  <2>1. Dist(x, nr, x.vs) = IF nr <= x.vs THEN x.vs - nr ELSE x.vs - nr + m
    BY <1>4, DistEval DEF m
  <2>2. Outstanding(y) = Dist(x, nr, x.vs) BY <1>3, <1>6 DEF Outstanding, Dist, m
  <2>3. nr = IF x.va + d < m THEN x.va + d ELSE (x.va + d) - m
    <3>1. d < m BY <1>4, <1>5 DEF Below
    <3> QED BY <1>5, <1>7, <3>1
  <2>4. x.vs = IF x.va + o < m THEN x.va + o ELSE (x.va + o) - m
    <3>1. o < m BY <1>4, <1>5 DEF Below
    <3> QED BY <1>5, <1>7, <3>1
  <2> QED BY <1>4, <1>5, <2>1, <2>2, <2>3, <2>4 DEF Below
<1>11. /\ \A i \in Nat : i < o => InFlight(x, i).lo < InFlight(x, i).hi
       /\ \A i \in Nat : i + 1 < o => InFlight(x, i).hi = InFlight(x, i + 1).lo
       /\ o = 0 => x.acked = x.head
       /\ o > 0 => InFlight(x, 0).lo = x.acked /\ InFlight(x, o - 1).hi = x.head
  BY DEF Tiled, o
<1>12. d > 0 => y.acked = InFlight(x, d - 1).hi
  <2> SUFFICES ASSUME d > 0 PROVE y.acked = InFlight(x, d - 1).hi OBVIOUS
  <2>1. nr # x.va BY <1>5
  <2>2. d - 1 \in Nat /\ d - 1 < m /\ d < m BY <1>4, <1>5 DEF Below
  <2>3. nr = IF x.va + d < m THEN x.va + d ELSE (x.va + d) - m BY <1>5, <1>7, <2>2
  <2>4. SeqAfter(x, x.va, d - 1) = IF x.va + (d - 1) < m THEN x.va + (d - 1)
                                   ELSE (x.va + (d - 1)) - m
    BY <1>7, <2>2
  <2>5. (nr - 1) % m = IF nr > 0 THEN nr - 1 ELSE m - 1 BY <1>4, BackEval DEF m
  <2>6. (IF nr > 0 THEN nr - 1 ELSE m - 1)
        = IF x.va + (d - 1) < m THEN x.va + (d - 1) ELSE (x.va + (d - 1)) - m
    BY <1>4, <1>5, <2>2, <2>3 DEF Below
  <2>7. (nr - 1) % m = SeqAfter(x, x.va, d - 1) BY <2>4, <2>5, <2>6
  <2> QED BY <1>3, <2>1, <2>7 DEF acked, InFlight
<1>13. ASSUME NEW i \in Nat, i < u PROVE InFlight(y, i).lo < InFlight(y, i).hi
  <2>1. d + i \in Nat /\ d + i < o BY <1>5, <1>13
  <2> QED BY <1>9, <1>11, <1>13, <2>1
<1>14. ASSUME NEW i \in Nat, i + 1 < u PROVE InFlight(y, i).hi = InFlight(y, i + 1).lo
  <2>1. d + i \in Nat /\ (d + i) + 1 < o /\ i < u /\ i + 1 \in Nat /\ d + (i + 1) = (d + i) + 1
    BY <1>5, <1>14
  <2>2. InFlight(y, i) = InFlight(x, d + i) /\ InFlight(y, i + 1) = InFlight(x, (d + i) + 1)
    BY <1>9, <1>14, <2>1
  <2> QED BY <1>11, <2>1, <2>2
<1>15. u = 0 => y.acked = y.head
  <2> SUFFICES ASSUME u = 0 PROVE y.acked = y.head OBVIOUS
  <2>1. d = o BY <1>5
  <2>2. CASE o = 0
    <3>1. nr = x.va BY <1>5, <2>1, <2>2
    <3> QED BY <1>3, <1>11, <2>2, <3>1 DEF acked
  <2>3. CASE o # 0
    <3>1. d > 0 /\ o > 0 BY <1>5, <2>1, <2>3
    <3> QED BY <1>3, <1>11, <1>12, <2>1, <3>1
  <2> QED BY <2>2, <2>3
<1>16. u > 0 => InFlight(y, 0).lo = y.acked /\ InFlight(y, u - 1).hi = y.head
  <2> SUFFICES ASSUME u > 0 PROVE InFlight(y, 0).lo = y.acked /\ InFlight(y, u - 1).hi = y.head
    OBVIOUS
  <2>1. o > 0 /\ d < o /\ u - 1 \in Nat /\ u - 1 < u /\ d + (u - 1) = o - 1 /\ d + 0 = d
    BY <1>5, <1>8
  <2>2. InFlight(y, 0) = InFlight(x, d) /\ InFlight(y, u - 1) = InFlight(x, o - 1)
    BY <1>9, <2>1
  <2>3. CASE d = 0
    <3>1. nr = x.va BY <1>5, <2>3
    <3> QED BY <1>3, <1>11, <2>1, <2>2, <2>3, <3>1 DEF acked
  <2>4. CASE d # 0
    <3>1. d > 0 /\ d - 1 \in Nat /\ (d - 1) + 1 = d BY <1>5, <2>4
    <3>2. InFlight(x, d - 1).hi = InFlight(x, d).lo BY <1>11, <2>1, <3>1
    <3> QED BY <1>3, <1>11, <1>12, <2>1, <2>2, <3>1, <3>2
  <2> QED BY <2>3, <2>4
<1>17. y.win = x.win BY <1>3 DEF SameLink
<1>18. Tiled(y)
  <2>1. x.win \in Nat BY DEF Session
  <2>2. y.va \in Below(Modulus(y)) /\ y.vs \in Below(Modulus(y)) /\ Outstanding(y) <= y.win
    BY <1>3, <1>4, <1>5, <1>6, <1>8, <1>10, <1>17, <2>1
  <2> QED BY <1>10, <1>13, <1>14, <1>15, <1>16, <2>2 DEF Tiled
<1> QED BY <1>3, <1>18 DEF y

\* What is put back in front of txBuf starts at the acknowledged byte.
LEMMA RequeueHead ==
    ASSUME NEW x \in Session, NEW mod \in {Mod8, Mod128},
           x.vs # x.va => x.pending[x.va].lo = x.acked,
           x.vs = x.va => x.head = x.acked
    PROVE  LET y == RequeueFromVA(x, mod)
           IN  y.hung = TRUE \/ y.head = y.acked
<1> DEFINE Says(y) == y.hung = TRUE \/ y.head = y.acked
<1>1. Says(Hangs(x)) BY DEF Session, Hangs
<1>2. ASSUME NEW slots \in [Slots -> Stretch], NEW k \in Nat
      PROVE  (x.vs # x.va => Says(PutsBack(x, slots))) /\ Says(Tears(x, slots, k))
  BY DEF Session, PutsBack, Tears
<1>3. x.vs = x.va => Says(x) OBVIOUS
<1>4. \A slots \in [Slots -> Stretch] : x.vs # x.va => Says(PutsBack(x, slots)) BY <1>2
<1> HIDE DEF Says
<1>5. Says(RequeueFromVA(x, mod)) BY <1>1, <1>2, <1>3, <1>4, RequeueCases, Zenon
<1> QED BY <1>5 DEF Says
\* A link with nothing in flight and txBuf starting at the acknowledged byte.
LEMMA IdleTiled ==
    ASSUME NEW x \in Session, x.va \in Below(Modulus(x)), x.vs = x.va, x.acked = x.head
    PROVE  Tiled(x)
<1>1. Outstanding(x) = 0 BY RingFacts DEF Outstanding
<1>2. x.win \in Nat BY DEF Session
<1>3. \A i \in Nat : ~(i < 0) /\ ~(i + 1 < 0) OBVIOUS
<1>4. Outstanding(x) <= x.win BY <1>1, <1>2
<1> QED BY <1>1, <1>3, <1>4 DEF Tiled

\* The slot of V(A) holds the first byte that is not acknowledged.
LEMMA TiledHead ==
    ASSUME NEW x \in Session, Tiled(x)
    PROVE  (x.vs # x.va => x.pending[x.va].lo = x.acked) /\ (x.vs = x.va => x.head = x.acked)
<1>1. x.va \in Below(Modulus(x)) /\ x.vs \in Below(Modulus(x)) BY DEF Tiled
<1>2. Outstanding(x) \in Nat /\ (Outstanding(x) = 0 <=> x.vs = x.va)
  <2>1. Outstanding(x) \in Below(Modulus(x)) /\ (Outstanding(x) = 0 <=> x.va = x.vs)
    BY <1>1, RingFacts DEF Outstanding
  <2>2. Outstanding(x) \in Nat BY <2>1 DEF Below
  <2> QED BY <2>1, <2>2
<1>3. 0 \in Nat /\ SeqAfter(x, x.va, 0) = x.va
  <2>1. Dist(x, x.va, x.va) = 0 BY <1>1, RingFacts
  <2> QED BY <1>1, <2>1, RingFacts
<1>4. x.vs # x.va => Outstanding(x) > 0 BY <1>2
<1> QED BY <1>2, <1>3, <1>4 DEF Tiled, InFlight

LEMMA RequeueTiled ==
    ASSUME NEW x \in Session, Tiled(x)
    PROVE  LET y == Requeue(x)
           IN  SameLink(x, y) /\ y.st = x.st /\ (y.hung = TRUE \/ (y.hung = x.hung /\ Tiled(y)))
<1> DEFINE y == Requeue(x)
<1>1. /\ SameLink(x, y) /\ y.st = x.st /\ y.va = x.va
      /\ y.hung = TRUE \/ (y.hung = x.hung /\ y.vs = y.va)
  BY ModulusIn, RequeueView DEF Requeue, SameLink
<1>2. y.hung = TRUE \/ y.head = y.acked BY ModulusIn, TiledHead, RequeueHead DEF Requeue
<1>3. y \in Session BY RequeueType
<1> HIDE DEF y
<1>4. y.va \in Below(Modulus(y)) BY <1>1 DEF Tiled, SameLink, Modulus
<1> QED BY <1>1, <1>2, <1>3, <1>4, IdleTiled DEF y

-----------------------------------------------------------------------------
(* Whole handlers.  A handler runs only on a session that does not hang.   *)

LEMMA KickKept == ASSUME NEW x \in Session, Kept(x) PROVE Kept(Kick(x))
<1>1. CASE ~IsOpen(x) \/ x.hung = TRUE
  <2>1. Kick(x) = x BY <1>1 DEF Kick, IsOpen
  <2> QED BY <2>1
<1>2. CASE IsOpen(x) /\ x.hung # TRUE
  <2>1. Tiled(Kick(x)) /\ SameLink(x, Kick(x)) BY <1>2, KickTiled DEF Kept
  <2>2. Fits(Kick(x)) BY <2>1 DEF Kept, Fits, SameLink, Modulus
  <2> QED BY <2>1, <2>2 DEF Kept
<1> QED BY <1>1, <1>2

LEMMA KickFlowKept ==
    ASSUME NEW x \in Session, NEW y \in Session, Kept(x), SameFlow(x, y) PROVE Kept(Kick(y))
BY SameKept, KickKept

LEMMA LinkTrans ==
    ASSUME NEW x, NEW y, NEW z, SameLink(x, y), SameLink(y, z) PROVE SameLink(x, z)
BY DEF SameLink

LEMMA ToShut ==
    ASSUME NEW x, NEW y \in Session, NEW ns \in States \ {"CONNECTED", "TIMER_RECOVERY"},
           Kept(x), SameLink(x, y)
    PROVE  Kept(SetState(y, ns))
<1>1. SameStream(y, SetState(y, ns)) /\ SetState(y, ns).st = ns BY SetStateStream
<1>2. SameLink(x, SetState(y, ns)) BY <1>1, LinkTrans DEF SameStream
<1>3. ~IsOpen(SetState(y, ns)) BY <1>1 DEF IsOpen
<1> QED BY <1>2, <1>3, ShutKept

LEMMA DropQueuesLink == ASSUME NEW x \in Session PROVE SameLink(x, DropQueues(x))
BY DEF DropQueues, SameLink, Session

LEMMA DropKept ==
    ASSUME NEW x, NEW y \in Session, NEW e \in Errors, Kept(x), SameLink(x, y)
    PROVE  Kept(Drop(y, e)) /\ Kept(PeerGone(y, e))
<1>1. ASSUME NEW z \in Session, SameLink(x, z) PROVE Kept(Drop(z, e))
  <2> DEFINE w == [z EXCEPT !.err = e]
  <2>1. w \in Session BY DEF Session
  <2>2. SameLink(z, w) BY FieldFlow DEF SameFlow, SameStream
  <2> HIDE DEF w
  <2>3. Kept(SetState(w, "DISCONNECTED")) BY <1>1, <2>1, <2>2, LinkTrans, ToShut DEF States
  <2> QED BY <2>3 DEF Drop, w
<1>2. Kept(PeerGone(y, e))
  <2> DEFINE d == DropQueues(y)
             w == Stop(d, {"T1", "T2", "T3", "HB"})
  <2>1. d \in Session /\ SameLink(x, d) BY DropQueuesType, DropQueuesLink, LinkTrans
  <2> HIDE DEF d
  <2>2. w \in Session BY <2>1, StopType DEF Timers
  <2>3. SameLink(d, w) BY <2>1, ArmFlow DEF SameFlow, SameStream
  <2> HIDE DEF w
  <2>4. Kept(Drop(w, e)) BY <1>1, <2>1, <2>2, <2>3, LinkTrans
  <2> QED BY <2>4 DEF PeerGone, w, d
<1> QED BY <1>1, <1>2

LEMMA EstablishKept == ASSUME NEW x \in Session, Kept(x) PROVE Kept(EstablishDataLink(x))
<1> DEFINE c == [x EXCEPT !.cond = {}, !.n2 = 0]
           y == Stop(c, {"T1", "T2", "T3"})
           z == SendSABM(y, x.mod128)
           w == Arm(z, {"T1"})
<1>1. c \in Session /\ SameFlow(x, c) BY FieldType, FieldFlow
<1> HIDE DEF c
<1>2. y \in Session /\ SameFlow(c, y) BY <1>1, StopType, ArmFlow DEF Timers
<1> HIDE DEF y
<1>3. x.mod128 \in BOOLEAN BY DEF Session
<1>4. z \in Session /\ SameFlow(y, z) BY <1>2, <1>3, SendType, SendFlow
<1> HIDE DEF z
<1>5. w \in Session /\ SameFlow(z, w) BY <1>4, ArmType, ArmFlow DEF Timers
<1> HIDE DEF w
<1>6. SameLink(x, w) BY <1>1, <1>2, <1>4, <1>5 DEF SameFlow, SameStream, SameLink
<1>7. Kept(SetState(w, "AWAITING_CONNECTION")) BY <1>5, <1>6, ToShut DEF States
<1> QED BY <1>7 DEF EstablishDataLink, w, z, y, c

LEMMA ReleaseKept == ASSUME NEW x \in Session, Kept(x) PROVE Kept(StartRelease(x))
<1> DEFINE d == DropQueues(x)
           a == [d EXCEPT !.n2 = 0]
           b == SendDISC(a)
           c == Stop(b, {"T2", "T3"})
           e == Arm(c, {"T1"})
<1>1. d \in Session /\ SameLink(x, d) BY DropQueuesType, DropQueuesLink
<1> HIDE DEF d
<1>2. a \in Session /\ SameFlow(d, a) BY <1>1, FieldType, FieldFlow
<1> HIDE DEF a
<1>3. b \in Session /\ SameFlow(a, b) BY <1>2, SendType, SendFlow
<1> HIDE DEF b
<1>4. c \in Session /\ SameFlow(b, c) BY <1>3, StopType, ArmFlow DEF Timers
<1> HIDE DEF c
<1>5. e \in Session /\ SameFlow(c, e) BY <1>4, ArmType, ArmFlow DEF Timers
<1> HIDE DEF e
<1>6. SameLink(x, e) BY <1>1, <1>2, <1>3, <1>4, <1>5 DEF SameFlow, SameStream, SameLink
<1>7. Kept(SetState(e, "AWAITING_RELEASE")) BY <1>5, <1>6, ToShut DEF States
<1> QED BY <1>7 DEF StartRelease, e, c, b, a, d

LEMMA EnquireFlow ==
    ASSUME NEW x \in Session, NEW n \in Nat PROVE SameFlow(x, Enquire(x, n))
<1> DEFINE a == [x EXCEPT !.n2 = n]
           b == SendRR(a, TRUE, TRUE)
           c == [b EXCEPT !.cond = @ \ {"ACK"}]
           d == Stop(c, {"T2"})
           e == Arm(d, {"T1"})
<1>1. a \in Session BY DEF Session
<1>2. SameFlow(x, a) BY FieldFlow
<1> HIDE DEF a
<1>3. b \in Session /\ SameFlow(a, b) BY <1>1, SendType, SendFlow
<1> HIDE DEF b
<1>4. c \in Session /\ SameFlow(b, c) BY <1>3, FieldType, FieldFlow
<1> HIDE DEF c
<1>5. d \in Session /\ SameFlow(c, d) BY <1>4, StopType, ArmFlow DEF Timers
<1> HIDE DEF d
<1>6. SameFlow(d, e) BY <1>5, ArmFlow
<1> HIDE DEF e
<1>7. SameFlow(x, e) BY <1>2, <1>3, <1>4, <1>5, <1>6, SameFlowTrans
<1> QED BY <1>7 DEF Enquire, TransmitEnquiry, e, d, c, b, a

\* CONNECTED and TIMER_RECOVERY differ in nothing the stream depends on.
LEMMA OpenKept ==
    ASSUME NEW x, NEW y \in Session, NEW ns \in {"CONNECTED", "TIMER_RECOVERY"},
           Kept(x), IsOpen(x) \/ x.hung = TRUE, SameFlow(x, y)
    PROVE  Kept(SetState(y, ns))
<1> DEFINE z == SetState(y, ns)
<1>1. SameStream(y, z) /\ z.st = ns /\ z.hung = y.hung BY SetStateStream DEF States
<1> HIDE DEF z
<1>2. Kept(y) BY SameKept
<1>3. IsOpen(y) \/ y.hung = TRUE BY DEF SameFlow, IsOpen
<1>4. Kept(z)
  <2>1. Fits(z) BY <1>1, <1>2, SameTiled DEF Kept
  <2>2. z.hung # TRUE => Tiled(z) BY <1>1, <1>2, <1>3, SameTiled DEF Kept
  <2> QED BY <2>1, <2>2 DEF Kept
<1> QED BY <1>4 DEF z

LEMMA ModulusKept ==
    ASSUME NEW x \in Session, NEW b \in BOOLEAN
    PROVE  LET m == SetModulus(x, b)
           IN  /\ m \in Session /\ Fits(m) /\ m.st = x.st /\ m.hung = x.hung
               /\ m.vs = x.vs /\ m.va = x.va /\ m.pending = x.pending
               /\ m.head = x.head /\ m.acked = x.acked
<1> DEFINE m == SetModulus(x, b)
<1>1. m \in Session BY SetModulusType
<1>2. m.mod128 = b /\ m.win = IF b THEN DefWin128 ELSE DefWin8 BY DEF SetModulus, Session
<1>3. m.st = x.st /\ m.hung = x.hung /\ m.vs = x.vs /\ m.va = x.va /\ m.pending = x.pending
      /\ m.head = x.head /\ m.acked = x.acked
  BY DEF SetModulus, Session
<1> HIDE DEF m
<1>4. DefWin128 < Mod128 /\ DefWin8 < Mod8 BY ModuliAssumption
<1>5. Fits(m) BY <1>2, <1>4 DEF Fits, Modulus
<1> QED BY <1>1, <1>3, <1>5 DEF m

LEMMA ZeroTiled ==
    ASSUME NEW x \in Session
    PROVE  LET y == [x EXCEPT !.vs = 0, !.vr = 0, !.va = 0]
           IN  /\ SameLink(x, y) /\ y.st = x.st /\ y.hung = x.hung
               /\ y.head = x.head /\ y.acked = x.acked /\ y.vs = 0 /\ y.va = 0
               /\ x.acked = x.head => Tiled(y)
<1> DEFINE y == [x EXCEPT !.vs = 0, !.vr = 0, !.va = 0]
<1>1. y \in Session BY FieldType
<1>2. SameLink(x, y) /\ y.st = x.st /\ y.hung = x.hung /\ y.head = x.head /\ y.acked = x.acked
      /\ y.vs = 0 /\ y.va = 0
  BY DEF Session, SameLink
<1> HIDE DEF y
<1>3. 0 \in Below(Modulus(y))
  <2>1. Modulus(y) \in Nat \ {0} BY <1>1, ModulusType
  <2> QED BY <2>1 DEF Below
<1>4. x.acked = x.head => Tiled(y) BY <1>1, <1>2, <1>3, IdleTiled
<1> QED BY <1>2, <1>4 DEF y

\* A rebind that does not hang keeps every unacknowledged byte in txBuf.
LEMMA RebindKept ==
    ASSUME NEW x \in Session, NEW f \in Frame, Kept(x), IsOpen(x), x.hung # TRUE
    PROVE  Kept(Rebind(x, f)) /\ (IsOpen(Rebind(x, f)) \/ Rebind(x, f).hung = TRUE)
<1> DEFINE wide == f.kind = "SABME"
           q == RequeueFromVA(x, IF wide THEN Mod128 ELSE Mod8)
           r == SetModulus(q, wide)
           z == [r EXCEPT !.vs = 0, !.vr = 0, !.va = 0]
           y == [z EXCEPT !.n2 = 0, !.cond = {}]
           a == Stop(y, {"T1", "T2"})
           b == Arm(a, {"T3"})
           u == SendUA(b, f.pf)
<1>1. (x.vs # x.va => x.pending[x.va].lo = x.acked) /\ (x.vs = x.va => x.head = x.acked)
  BY TiledHead DEF Kept
<1>2. q \in Session /\ q.st = x.st /\ (q.hung = TRUE \/ q.acked = q.head)
  BY <1>1, RequeueFromVAType, RequeueView, RequeueHead
<1> HIDE DEF q
<1>3. /\ r \in Session /\ Fits(r) /\ r.st = x.st
      /\ r.hung = TRUE \/ r.acked = r.head
  <2>1. /\ r \in Session /\ Fits(r) /\ r.st = q.st /\ r.hung = q.hung
        /\ r.head = q.head /\ r.acked = q.acked
    <3>1. wide \in BOOLEAN OBVIOUS
    <3> HIDE DEF wide
    <3> QED BY <1>2, <3>1, ModulusKept
  <2> HIDE DEF r
  <2> QED BY <1>2, <2>1
<1> HIDE DEF r
<1>4. Fits(r) BY <1>3
<1>5. /\ z \in Session /\ SameLink(r, z) /\ z.st = r.st /\ z.hung = r.hung
      /\ r.acked = r.head => Tiled(z)
  BY <1>3, FieldType, ZeroTiled
<1> HIDE DEF z
<1>6. Fits(z) BY <1>4, <1>5 DEF Fits, SameLink, Modulus
<1>7. y \in Session /\ SameFlow(z, y) BY <1>5, FieldType, FieldFlow
<1> HIDE DEF y
<1>8. a \in Session /\ SameFlow(y, a) BY <1>7, StopType, ArmFlow DEF Timers
<1> HIDE DEF a
<1>9. b \in Session /\ SameFlow(a, b) BY <1>8, ArmType, ArmFlow DEF Timers
<1> HIDE DEF b
<1>10. SameFlow(z, u) BY <1>7, <1>8, <1>9, SendFlow, SameFlowTrans
<1> HIDE DEF u
<1>11. Rebind(x, f) = IF r.hung THEN r ELSE u BY DEF Rebind, ZeroSeq, q, r, z, y, a, b, u
<1>12. r.hung \in BOOLEAN BY <1>3 DEF Session
<1>13. CASE r.hung = TRUE BY <1>4, <1>11, <1>13 DEF Kept
<1>14. CASE r.hung = FALSE
  <2>1. Kept(z) /\ IsOpen(z) BY <1>3, <1>5, <1>6, <1>14 DEF Kept, IsOpen
  <2>2. Kept(u) /\ IsOpen(u) BY <1>10, <2>1, SameKept DEF SameFlow, IsOpen
  <2> QED BY <1>11, <1>14, <2>2
<1> QED BY <1>12, <1>13, <1>14

\* The hypotheses of a frame handler: the frame was decoded with the session's modulus.
InRange(x, f) == f.nr < Modulus(x)

LEMMA AckedKept ==
    ASSUME NEW x \in Session, NEW f \in Frame, Kept(x), IsOpen(x), x.hung # TRUE,
           InRange(x, f), ValidNR(x, f.nr)
    PROVE  LET y == FramesAcked(x, f.nr)
           IN  y \in Session /\ Kept(y) /\ Tiled(y) /\ y.st = x.st /\ y.hung = x.hung
<1> DEFINE y == FramesAcked(x, f.nr)
<1>1. f.nr \in Slots BY DEF Frame
<1>2. f.nr \in Below(Modulus(x)) BY <1>1, ModulusType DEF InRange, Slots, Below
<1>3. Tiled(y) /\ SameLink(x, y) /\ y.st = x.st /\ y.hung = x.hung
  BY <1>2, AckedTiled DEF Kept
<1>4. y \in Session BY <1>1, FramesAckedType
<1> HIDE DEF y
<1>5. Fits(y) BY <1>3 DEF Kept, Fits, SameLink, Modulus
<1>6. Kept(y) BY <1>3, <1>5 DEF Kept
<1> QED BY <1>3, <1>4, <1>6 DEF y

LEMMA FlowMoves ==
    ASSUME NEW x, NEW y, NEW f, SameFlow(x, y)
    PROVE  /\ Kept(x) => Kept(y)
           /\ IsOpen(x) => IsOpen(y)
           /\ x.hung # TRUE => y.hung # TRUE
           /\ InRange(x, f) => InRange(y, f)
           /\ ValidNR(x, f.nr) => ValidNR(y, f.nr)
<1>1. Modulus(y) = Modulus(x) BY DEF SameFlow, SameStream, SameLink, Modulus
<1>2. ValidNR(y, f.nr) <=> ValidNR(x, f.nr)
  BY <1>1 DEF SameFlow, SameStream, ValidNR, Outstanding, Dist
<1>3. IsOpen(x) => IsOpen(y) BY DEF SameFlow, IsOpen
<1>4. x.hung # TRUE => y.hung # TRUE BY DEF SameFlow
<1>5. InRange(x, f) => InRange(y, f) BY <1>1 DEF InRange
<1> QED BY <1>2, <1>3, <1>4, <1>5, SameKept

LEMMA PollFlow ==
    ASSUME NEW x \in Session, NEW f \in Frame
    PROVE  SameFlow(x, PeerBusy(x, f)) /\ SameFlow(x, AnswerPoll(x, f))
<1>1. SameFlow(x, x) BY DEF SameFlow, SameStream, SameLink
<1> QED BY <1>1, FieldFlow, SendFlow DEF PeerBusy, AnswerPoll

LEMMA AckPolledKept ==
    ASSUME NEW x \in Session, NEW f \in Frame, Kept(x), IsOpen(x), x.hung # TRUE,
           InRange(x, f), ValidNR(x, f.nr)
    PROVE  LET y == FramesAcked(AnswerPoll(PeerBusy(x, f), f), f.nr)
           IN  y \in Session /\ Kept(y) /\ Tiled(y) /\ y.st = x.st /\ y.hung = x.hung
<1> DEFINE b == PeerBusy(x, f)
           a == AnswerPoll(b, f)
<1>1. b \in Session /\ SameFlow(x, b) BY PeerBusyType, PollFlow
<1> HIDE DEF b
<1>2. a \in Session /\ SameFlow(b, a) BY <1>1, PeerBusyType, PollFlow
<1> HIDE DEF a
<1>3. SameFlow(x, a) BY <1>1, <1>2, SameFlowTrans
<1>4. Kept(a) /\ IsOpen(a) /\ a.hung # TRUE /\ InRange(a, f) /\ ValidNR(a, f.nr)
  BY <1>3, FlowMoves
<1>5. a.st = x.st /\ a.hung = x.hung BY <1>3 DEF SameFlow
<1> QED BY <1>2, <1>4, <1>5, AckedKept DEF a, b

LEMMA ReceiveIKept ==
    ASSUME NEW x \in Session, NEW f \in Frame, Kept(x), IsOpen(x), x.hung # TRUE,
           InRange(x, f), ValidNR(x, f.nr)
    PROVE  Kept(ReceiveI(x, f))
<1> DEFINE y == FramesAcked(x, f.nr)
<1>1. y \in Session /\ Kept(y) BY AckedKept
<1> HIDE DEF y
<1>2. SameFlow(y, Deliver(y, f))
  <2> DEFINE shown == IF f.info.lo = f.info.hi THEN y.shown ELSE Append(y.shown, f.info)
             z == [y EXCEPT !.vr = SeqAfter(y, y.vr, 1), !.cond = @ \ {"REJ"}, !.shown = shown]
             a == [z EXCEPT !.cond = @ \ {"ACK"}]
             b == [z EXCEPT !.cond = @ \cup {"ACK"}]
             c == SendRR(a, TRUE, FALSE)
  <2>1. z \in Session
    <3>1. SeqAfter(y, y.vr, 1) \in Slots
      <4>1. y.vr \in Int BY <1>1 DEF Session, Slots
      <4> QED BY <1>1, <4>1, SeqAfterType
    <3>2. shown \in Seq(Stretch) BY <1>1 DEF Session, Frame
    <3> HIDE DEF shown
    <3> QED BY <1>1, <3>1, <3>2 DEF Session
  <2>2. SameFlow(y, z) BY <1>1, FieldFlow
  <2> HIDE DEF z
  <2>3. a \in Session /\ SameFlow(z, a) BY <2>1, FieldType, FieldFlow
  <2>4. b \in Session /\ SameFlow(z, b) BY <2>1, FieldType, FieldFlow
  <2> HIDE DEF a, b
  <2>5. c \in Session /\ SameFlow(a, c) BY <2>3, SendType, SendFlow
  <2> HIDE DEF c
  <2>6. SameFlow(c, Stop(c, {"T2"})) /\ SameFlow(b, Arm(b, {"T2"})) BY <2>4, <2>5, ArmFlow
  <2>7. Deliver(y, f) = IF f.pf THEN Stop(c, {"T2"})
                        ELSE IF "ACK" \in z.cond THEN z ELSE Arm(b, {"T2"})
    BY DEF Deliver, z, a, b, c
  <2> QED BY <2>2, <2>3, <2>4, <2>5, <2>6, <2>7, SameFlowTrans
<1>3. SameFlow(y, OutOfSequence(y, f))
  <2> DEFINE a == [y EXCEPT !.cond = (@ \cup {"REJ"}) \ {"ACK"}]
             b == Stop(a, {"T2"})
  <2>1. a \in Session /\ SameFlow(y, a) BY <1>1, FieldType, FieldFlow
  <2> HIDE DEF a
  <2>2. b \in Session /\ SameFlow(a, b) BY <2>1, StopType, ArmFlow DEF Timers
  <2> HIDE DEF b
  <2>3. SameFlow(b, SendREJ(b, f.pf)) /\ SameFlow(y, SendRR(y, TRUE, FALSE))
    BY <1>1, <2>2, SendFlow
  <2>4. SameFlow(y, y) BY DEF SameFlow, SameStream, SameLink
  <2>5. OutOfSequence(y, f) = IF "REJ" \notin y.cond THEN SendREJ(b, f.pf)
                              ELSE IF f.pf THEN SendRR(y, TRUE, FALSE) ELSE y
    BY DEF OutOfSequence, a, b
  <2> QED BY <2>1, <2>2, <2>3, <2>4, <2>5, SameFlowTrans
<1>4. Kept(Deliver(y, f)) /\ Kept(OutOfSequence(y, f)) BY <1>1, <1>2, <1>3, SameKept
<1> QED BY <1>4 DEF ReceiveI, y

LEMMA GoneKept ==
    ASSUME NEW x \in Session, NEW f \in Frame, Kept(x)
    PROVE  /\ Kept(PeerGone(SendUA(x, f.pf), "peer-disconnected"))
           /\ Kept(PeerGone(x, "peer-reset"))
<1>1. f.pf \in BOOLEAN BY DEF Frame
<1>2. SendUA(x, f.pf) \in Session /\ SameLink(x, SendUA(x, f.pf)) /\ SameLink(x, x)
  BY <1>1, SendType, SendFlow DEF SameFlow, SameStream, SameLink
<1> QED BY <1>2, DropKept DEF Errors

LEMMA ConnectedKept ==
    ASSUME NEW x \in Session, NEW f \in Frame, Kept(x), x.st = "CONNECTED", x.hung # TRUE,
           InRange(x, f)
    PROVE  Kept(ConnectedFrame(x, f))
<1>1. IsOpen(x) BY DEF IsOpen
<1>2. Kept(Kick(x)) BY KickKept
<1>3. Kept(Kick(IF f.cmd THEN Rebind(x, f) ELSE x)) BY <1>1, RebindType, RebindKept, KickKept
<1>4. Kept(EstablishDataLink(x)) BY EstablishKept
<1>5. ASSUME ValidNR(x, f.nr)
      PROVE  /\ Kept(Kick(FramesAcked(AnswerPoll(PeerBusy(x, f), f), f.nr)))
             /\ Kept(Kick(Arm(Stop(Requeue(
                          FramesAcked(AnswerPoll(PeerBusy(x, f), f), f.nr)), {"T1"}), {"T3"})))
             /\ Kept(Kick(ReceiveI(x, f)))
  <2> DEFINE y == FramesAcked(AnswerPoll(PeerBusy(x, f), f), f.nr)
             r == Requeue(y)
             a == Stop(r, {"T1"})
             b == Arm(a, {"T3"})
  <2>1. y \in Session /\ Kept(y) /\ Tiled(y) BY <1>1, <1>5, AckPolledKept
  <2>2. Kept(Kick(ReceiveI(x, f))) BY <1>1, <1>5, ReceiveIType, ReceiveIKept, KickKept
  <2> HIDE DEF y
  <2>3. r \in Session /\ Kept(r)
    <3>1. SameLink(y, r) /\ (r.hung = TRUE \/ Tiled(r)) BY <2>1, RequeueTiled
    <3>2. Fits(r) BY <2>1, <3>1 DEF Kept, Fits, SameLink, Modulus
    <3> QED BY <2>1, <3>1, <3>2, RequeueType DEF Kept
  <2> HIDE DEF r
  <2>4. a \in Session /\ SameFlow(r, a) BY <2>3, StopType, ArmFlow DEF Timers
  <2> HIDE DEF a
  <2>5. b \in Session /\ SameFlow(a, b) BY <2>4, ArmType, ArmFlow DEF Timers
  <2> HIDE DEF b
  <2>6. Kept(Kick(b)) /\ Kept(Kick(y)) BY <2>1, <2>3, <2>4, <2>5, SameKept, KickKept
  <2> QED BY <2>2, <2>6 DEF b, a, r, y
<1>6. Kept(PeerGone(SendUA(x, f.pf), "peer-disconnected")) /\ Kept(PeerGone(x, "peer-reset"))
  BY GoneKept
<1>7. CASE ValidNR(x, f.nr) BY <1>2, <1>3, <1>4, <1>5, <1>6, <1>7 DEF ConnectedFrame
<1>8. CASE ~ValidNR(x, f.nr) /\ f.kind \in Sequenced
  <2>1. ConnectedFrame(x, f) = EstablishDataLink(x) BY <1>8 DEF ConnectedFrame, Sequenced
  <2> QED BY <1>4, <2>1
<1>9. CASE f.kind \notin Sequenced
  <2>1. ConnectedFrame(x, f) \in {Kick(IF f.cmd THEN Rebind(x, f) ELSE x), Kick(x),
            PeerGone(SendUA(x, f.pf), "peer-disconnected"), PeerGone(x, "peer-reset"),
            EstablishDataLink(x)}
    BY <1>9 DEF ConnectedFrame, Sequenced
  <2> QED BY <1>2, <1>3, <1>4, <1>6, <2>1
<1> QED BY <1>7, <1>8, <1>9

LEMMA RecoveryKept ==
    ASSUME NEW x \in Session, NEW f \in Frame, Kept(x), IsOpen(x), x.hung # TRUE,
           InRange(x, f), ValidNR(x, f.nr)
    PROVE  Kept(RecoverySupervisory(x, f))
<1> DEFINE b == PeerBusy(x, f)
           c == [b EXCEPT !.n2 = 0]
           d == Stop(c, {"T1"})
           u == FramesAcked(d, f.nr)
           v == FramesAcked(AnswerPoll(b, f), f.nr)
           y == IF ~f.cmd /\ f.pf THEN u ELSE v
           z == IF f.kind = "REJ" THEN Requeue(y) ELSE y
<1>1. v \in Session /\ Kept(v) /\ Tiled(v) /\ IsOpen(v) BY AckPolledKept DEF IsOpen
<1> HIDE DEF v
<1>2. b \in Session /\ SameFlow(x, b) BY PeerBusyType, PollFlow
<1> HIDE DEF b
<1>3. c \in Session /\ SameFlow(b, c) BY <1>2, FieldType, FieldFlow
<1> HIDE DEF c
<1>4. d \in Session /\ SameFlow(c, d) BY <1>3, StopType, ArmFlow DEF Timers
<1> HIDE DEF d
<1>5. SameFlow(x, d) BY <1>2, <1>3, <1>4, SameFlowTrans
<1>6. Kept(d) /\ IsOpen(d) /\ d.hung # TRUE /\ InRange(d, f) /\ ValidNR(d, f.nr)
  BY <1>5, FlowMoves
<1>7. u \in Session /\ Kept(u) /\ Tiled(u) /\ IsOpen(u) BY <1>4, <1>6, AckedKept DEF IsOpen
<1> HIDE DEF u
<1>8. y \in Session /\ Kept(y) /\ Tiled(y) /\ IsOpen(y) BY <1>1, <1>7
<1> HIDE DEF y
<1>9. z \in Session /\ Kept(z) /\ IsOpen(z)
  <2> DEFINE r == Requeue(y)
  <2>1. r \in Session /\ SameLink(y, r) /\ r.st = y.st /\ (r.hung = TRUE \/ Tiled(r))
    BY <1>8, RequeueTiled, RequeueType
  <2> HIDE DEF r
  <2>2. Fits(r) BY <1>8, <2>1 DEF Kept, Fits, SameLink, Modulus
  <2>3. Kept(r) /\ IsOpen(r) BY <1>8, <2>1, <2>2 DEF Kept, IsOpen
  <2> QED BY <1>8, <2>1, <2>3 DEF r
<1> HIDE DEF z
<1>10. CaughtUp(z) \in Session /\ Kept(CaughtUp(z))
  <2> DEFINE a == Arm(z, {"T3"})
             w == SetState(a, "CONNECTED")
  <2>1. a \in Session /\ SameFlow(z, a) BY <1>9, ArmType, ArmFlow DEF Timers
  <2> HIDE DEF a
  <2>2. w \in Session /\ Kept(w) BY <1>9, <2>1, SetStateType, OpenKept DEF States
  <2> HIDE DEF w
  <2>3. CaughtUp(z) = IF z.vs = z.va THEN w ELSE z BY DEF CaughtUp, w, a
  <2> QED BY <1>9, <2>2, <2>3
<1>11. Kept(Kick(CaughtUp(z))) /\ Kept(Kick(z)) BY <1>9, <1>10, KickKept
<1> QED BY <1>11 DEF RecoverySupervisory, z, y, u, v, d, c, b

LEMMA TimerRecoveryKept ==
    ASSUME NEW x \in Session, NEW f \in Frame, Kept(x), x.st = "TIMER_RECOVERY", x.hung # TRUE,
           InRange(x, f)
    PROVE  Kept(TimerRecoveryFrame(x, f))
<1>1. IsOpen(x) BY DEF IsOpen
<1>2. Kept(Kick(x)) BY KickKept
<1> DEFINE r == Rebind(x, f)
           w == SetState(r, "CONNECTED")
<1>3. r \in Session /\ Kept(r) /\ (IsOpen(r) \/ r.hung = TRUE)
  BY <1>1, RebindType, RebindKept
<1> HIDE DEF r
<1>4. w \in Session /\ Kept(w)
  <2>1. SameFlow(r, r) BY DEF SameFlow, SameStream, SameLink
  <2> QED BY <1>3, <2>1, SetStateType, OpenKept DEF States
<1>5. Kept(Kick(w)) BY <1>4, KickKept
<1>6. Kept(EstablishDataLink(x)) BY EstablishKept
<1>7. ValidNR(x, f.nr) => Kept(RecoverySupervisory(x, f)) BY <1>1, RecoveryKept
<1>8. ValidNR(x, f.nr) => Kept(Kick(ReceiveI(x, f)))
  BY <1>1, ReceiveIType, ReceiveIKept, KickKept
<1>9. Kept(PeerGone(SendUA(x, f.pf), "peer-disconnected")) /\ Kept(PeerGone(x, "peer-reset"))
  BY GoneKept
<1>10. CASE ValidNR(x, f.nr)
  BY <1>2, <1>3, <1>5, <1>6, <1>7, <1>8, <1>9, <1>10 DEF TimerRecoveryFrame, r, w
<1>11. CASE ~ValidNR(x, f.nr) /\ f.kind \in Sequenced
  <2>1. TimerRecoveryFrame(x, f) = EstablishDataLink(x)
    BY <1>11 DEF TimerRecoveryFrame, Sequenced
  <2> QED BY <1>6, <2>1
<1>12. CASE f.kind \notin Sequenced
  <2>1. TimerRecoveryFrame(x, f) \in {Kick(x), r, Kick(w), PeerGone(SendUA(x, f.pf),
            "peer-disconnected"), PeerGone(x, "peer-reset"), EstablishDataLink(x)}
    BY <1>12 DEF TimerRecoveryFrame, Sequenced, r, w
  <2> QED BY <1>2, <1>3, <1>5, <1>6, <1>9, <2>1
<1> QED BY <1>10, <1>11, <1>12

LEMMA AwaitingConnectionKept ==
    ASSUME NEW x \in Session, NEW f \in Frame, Kept(x), x.st = "AWAITING_CONNECTION"
    PROVE  Kept(AwaitingConnectionFrame(x, f))
<1>1. f.pf \in BOOLEAN BY DEF Frame
<1>2. ASSUME NEW b \in BOOLEAN PROVE SetModulus(x, b) \in Session /\ Kept(SetModulus(x, b))
  BY ModulusKept DEF Kept, IsOpen
<1>3. Kept(SendUA(SetModulus(x, f.kind = "SABME"), f.pf))
  <2> DEFINE m == SetModulus(x, f.kind = "SABME")
  <2>1. m \in Session /\ Kept(m) BY <1>2
  <2> HIDE DEF m
  <2>2. Kept(SendUA(m, f.pf)) BY <2>1, SendFlow, SameKept
  <2> QED BY <2>2 DEF m
<1>4. Kept(SendDM(x, f.pf)) BY SendFlow, SameKept
<1>5. Kept(Drop(Stop(x, {"T1"}), "peer-rejected"))
  <2>1. Stop(x, {"T1"}) \in Session /\ SameLink(x, Stop(x, {"T1"}))
    BY StopType, ArmFlow DEF Timers, SameFlow, SameStream
  <2> QED BY <2>1, DropKept DEF Errors
<1>6. Kept(LinkUp(x))
  <2> DEFINE q == ZeroSeq(x)
             y == [q EXCEPT !.n2 = 0, !.acked = x.head]
             a == Stop(y, {"T1"})
             b == Arm(a, {"T3"})
             w == SetState(b, "CONNECTED")
  <2>1. q \in Session /\ SameLink(x, q) /\ q.head = x.head /\ q.vs = 0 /\ q.va = 0
    BY FieldType, ZeroTiled DEF ZeroSeq
  <2> HIDE DEF q
  <2>2. y \in Session
    <3> DEFINE p == [q EXCEPT !.n2 = 0]
    <3>1. x.head \in Nat BY DEF Session
    <3>2. p \in Session BY <2>1, FieldType
    <3>3. y = [p EXCEPT !.acked = x.head] BY <2>1 DEF Session
    <3> HIDE DEF p, y
    <3>4. [p EXCEPT !.acked = x.head] \in Session BY <3>1, <3>2 DEF Session
    <3> QED BY <3>3, <3>4
  <2>3. SameLink(q, y) /\ y.head = x.head /\ y.acked = x.head /\ y.vs = 0 /\ y.va = 0
    BY <2>1 DEF Session, SameLink
  <2> HIDE DEF y
  <2>4. Fits(y) BY <2>1, <2>3 DEF Kept, Fits, SameLink, Modulus
  <2>5. Tiled(y)
    <3>1. Modulus(y) \in Nat \ {0} BY <2>2, ModulusType
    <3>2. 0 \in Below(Modulus(y)) BY <3>1 DEF Below
    <3> QED BY <2>2, <2>3, <3>2, IdleTiled
  <2>6. a \in Session /\ SameFlow(y, a) BY <2>2, StopType, ArmFlow DEF Timers
  <2> HIDE DEF a
  <2>7. b \in Session /\ SameFlow(a, b) BY <2>6, ArmType, ArmFlow DEF Timers
  <2> HIDE DEF b
  <2>8. SameStream(y, b) BY <2>6, <2>7, SameFlowTrans DEF SameFlow
  <2>9. Fits(b) /\ Tiled(b) BY <2>4, <2>5, <2>8, SameTiled
  <2>10. SameStream(b, w) BY <2>7, SetStateStream DEF States
  <2> HIDE DEF w
  <2>11. Kept(w) BY <2>9, <2>10, SameTiled DEF Kept
  <2> QED BY <2>11 DEF LinkUp, w, b, a, y, q
<1>7. Kept(SetModulus(x, FALSE)) BY <1>2
<1> QED BY <1>3, <1>4, <1>5, <1>6, <1>7 DEF AwaitingConnectionFrame

LEMMA OtherFrameKept ==
    ASSUME NEW x \in Session, NEW f \in Frame, Kept(x)
    PROVE  Kept(AwaitingReleaseFrame(x, f)) /\ Kept(DisconnectedFrame(x, f))
<1>1. f.pf \in BOOLEAN BY DEF Frame
<1>2. Kept(SendDM(x, f.pf)) /\ Kept(SendDM(x, TRUE)) BY SendFlow, SameKept
<1>3. ASSUME NEW y \in Session, SameLink(x, y)
      PROVE  Kept(SetState(Stop(y, {"T1"}), "DISCONNECTED"))
  <2>1. Stop(y, {"T1"}) \in Session /\ SameLink(y, Stop(y, {"T1"}))
    BY StopType, ArmFlow DEF Timers, SameFlow, SameStream
  <2> QED BY <1>3, <2>1, LinkTrans, ToShut DEF States
<1>4. SameLink(x, x) BY DEF SameLink
<1>5. SendUA(x, f.pf) \in Session /\ SameLink(x, SendUA(x, f.pf))
  BY <1>1, SendType, SendFlow DEF SameFlow, SameStream
<1> QED BY <1>2, <1>3, <1>4, <1>5 DEF AwaitingReleaseFrame, DisconnectedFrame

LEMMA ExpiryKept ==
    ASSUME NEW x \in Session, Kept(x)
    PROVE  /\ Kept(T1Expiry(x)) /\ Kept(T2Expiry(x)) /\ Kept(T3Expiry(x))
           /\ Kept(HeartbeatTick(x)) /\ Kept(StatsTick(x))
<1>1. x.n2 + 1 \in Nat /\ x.mod128 \in BOOLEAN BY DEF Session
<1>2. ASSUME NEW n \in Nat PROVE Enquire(x, n) \in Session /\ SameFlow(x, Enquire(x, n))
  BY EnquireType, EnquireFlow
<1>3. ASSUME NEW n \in Nat, x.st = "CONNECTED"
      PROVE  Kept(SetState(Enquire(x, n), "TIMER_RECOVERY"))
  BY <1>2, <1>3, OpenKept DEF IsOpen
<1>4. Kept(Kick(Enquire(x, x.n2 + 1))) /\ Kept(Kick(x)) BY <1>1, <1>2, KickFlowKept, KickKept
<1>5. Kept(PeerGone(SendDM(x, TRUE), "ack-timeout"))
      /\ Kept(Drop(x, "link-establish-timeout"))
      /\ Kept(Drop(SendDISC(x), "disc-timeout"))
  <2>1. SendDM(x, TRUE) \in Session /\ SendDISC(x) \in Session BY SendType
  <2>2. SameLink(x, SendDM(x, TRUE)) /\ SameLink(x, SendDISC(x)) /\ SameLink(x, x)
    BY SendFlow DEF SameFlow, SameStream, SameLink
  <2> QED BY <2>1, <2>2, DropKept DEF Errors
<1> DEFINE c == [x EXCEPT !.n2 = @ + 1]
<1>6. c \in Session /\ SameFlow(x, c) BY FieldType, FieldFlow
<1> HIDE DEF c
<1>7. Kept(Arm(SendSABM(c, x.mod128), {"T1"})) /\ Kept(Arm(SendDISC(c), {"T1"}))
  <2>1. SendSABM(c, x.mod128) \in Session /\ SendDISC(c) \in Session BY <1>1, <1>6, SendType
  <2>2. SameFlow(x, SendSABM(c, x.mod128)) /\ SameFlow(x, SendDISC(c))
    BY <1>6, SendFlow, SameFlowTrans
  <2> QED BY <2>1, <2>2, ArmFlow, SameKept
<1>8. x.st = "AWAITING_CONNECTION"
      => Kept(Arm(SendSABM([SetModulus(x, FALSE) EXCEPT !.n2 = 0], FALSE), {"T1"}))
  <2> SUFFICES ASSUME x.st = "AWAITING_CONNECTION"
               PROVE  Kept(Arm(SendSABM([SetModulus(x, FALSE) EXCEPT !.n2 = 0], FALSE), {"T1"}))
    OBVIOUS
  <2> DEFINE m == SetModulus(x, FALSE)
             b == [m EXCEPT !.n2 = 0]
             d == SendSABM(b, FALSE)
  <2>1. m \in Session /\ Kept(m) BY ModulusKept DEF Kept, IsOpen
  <2> HIDE DEF m
  <2>2. b \in Session /\ SameFlow(m, b) BY <2>1, FieldType, FieldFlow
  <2> HIDE DEF b
  <2>3. d \in Session /\ SameFlow(b, d) BY <2>2, SendType, SendFlow
  <2> HIDE DEF d
  <2>4. Kept(Arm(d, {"T1"})) BY <2>1, <2>2, <2>3, ArmFlow, SameKept
  <2> QED BY <2>4 DEF d, b, m
<1>9. Kept(T1Expiry(x)) BY <1>3, <1>4, <1>5, <1>7, <1>8 DEF T1Expiry, c
<1>10. Kept(T2Expiry(x))
  <2> DEFINE a == [x EXCEPT !.cond = @ \ {"ACK"}]
             b == SendRR(a, FALSE, FALSE)
  <2>1. a \in Session /\ SameFlow(x, a) BY FieldType, FieldFlow
  <2> HIDE DEF a
  <2>2. b \in Session /\ SameFlow(a, b) BY <2>1, SendType, SendFlow
  <2> HIDE DEF b
  <2>3. Kept(Kick(b)) BY <2>1, <2>2, SameFlowTrans, KickFlowKept
  <2> QED BY <1>4, <2>3 DEF T2Expiry, b, a
<1>11. Kept(T3Expiry(x)) BY <1>3, <1>4 DEF T3Expiry
<1>12. Kept(HeartbeatTick(x)) /\ Kept(StatsTick(x))
  BY ArmFlow, SameKept DEF HeartbeatTick, StatsTick
<1> QED BY <1>9, <1>10, <1>11, <1>12

LEMMA OperatorKept ==
    ASSUME NEW x \in Session, NEW n \in Nat, Kept(x)
    PROVE  /\ Kept(OperatorConnect(x)) /\ Kept(OperatorData(x, n))
           /\ Kept(OperatorDisconnect(x))
<1>1. Kept(OperatorConnect(x))
  <2> DEFINE q == ZeroSeq(x)
             y == [q EXCEPT !.n2 = 0, !.cond = {}]
             a == SendSABM(y, x.mod128)
             b == Arm(a, {"T1", "HB"})
  <2>1. q \in Session /\ SameLink(x, q) BY FieldType, ZeroTiled DEF ZeroSeq
  <2> HIDE DEF q
  <2>2. y \in Session /\ SameFlow(q, y) BY <2>1, FieldType, FieldFlow
  <2> HIDE DEF y
  <2>3. x.mod128 \in BOOLEAN BY DEF Session
  <2>4. a \in Session /\ SameFlow(y, a) BY <2>2, <2>3, SendType, SendFlow
  <2> HIDE DEF a
  <2>5. b \in Session /\ SameFlow(a, b) BY <2>4, ArmType, ArmFlow DEF Timers
  <2> HIDE DEF b
  <2>6. SameLink(x, b) BY <2>1, <2>2, <2>4, <2>5 DEF SameFlow, SameStream, SameLink
  <2>7. Kept(SetState(b, "AWAITING_CONNECTION")) BY <2>5, <2>6, ToShut DEF States
  <2> QED BY <2>7, KickKept DEF OperatorConnect, b, a, y, q
<1>2. Kept(OperatorData(x, n))
  <2> DEFINE y == [x EXCEPT !.tail = @ + n]
  <2>1. y \in Session
    <3>1. x.tail + n \in Nat BY DEF Session
    <3> QED BY <3>1 DEF Session
  <2>2. SameFlow(x, y) BY FieldFlow
  <2> HIDE DEF y
  <2>3. Kept(Kick(y)) BY <2>1, <2>2, KickFlowKept
  <2> QED BY <2>3 DEF OperatorData, y
<1>3. Kept(OperatorDisconnect(x))
  <2> DEFINE u == SendDISC(x)
             y == [u EXCEPT !.n2 = 0]
             a == Arm(y, {"T1"})
  <2>1. u \in Session /\ SameFlow(x, u) BY SendType, SendFlow
  <2> HIDE DEF u
  <2>2. y \in Session /\ SameFlow(u, y) BY <2>1, FieldType, FieldFlow
  <2> HIDE DEF y
  <2>3. a \in Session /\ SameFlow(y, a) BY <2>2, ArmType, ArmFlow DEF Timers
  <2> HIDE DEF a
  <2>4. SameLink(x, a) BY <2>1, <2>2, <2>3 DEF SameFlow, SameStream, SameLink
  <2>5. Kept(SetState(a, "AWAITING_RELEASE")) BY <2>3, <2>4, ToShut DEF States
  <2> QED BY <2>5, ReleaseKept DEF OperatorDisconnect, a, y, u
<1> QED BY <1>1, <1>2, <1>3

LEMMA HandledKept ==
    ASSUME NEW x \in Session, Kept(x) PROVE Kept(Cleanup(x)) /\ Kept(Handled(x))
<1>1. SameFlow(x, Cleanup(x)) BY DEF Cleanup, SameFlow, SameStream, SameLink, Session
<1> QED BY <1>1, SameKept DEF Handled

-----------------------------------------------------------------------------
\* The configured window is below the modulus it is configured with.  applyDefaults does
\* not see to it; the windows the code falls back on when the peer renegotiates are.
WindowFits == CfgWindow < (IF CfgMod128 THEN Mod128 ELSE Mod8)

LEMMA KeptStep == ASSUME TypeOK, Kept(s), [Next]_vars PROVE Kept(s)'
<1>1. CASE UNCHANGED vars BY <1>1 DEF vars
<1> SUFFICES ASSUME Next PROVE Kept(s') BY <1>1
<1>2. Running
  BY DEF Next, Drain, TimerFires, RxFrame, RxDisconnected, RxAwaitingConnection, RxConnected,
     RxTimerRecovery, RxAwaitingRelease, Operator, Connect, TypeData, Disconnect, Shutdown,
     BackendChanges, SwapPending, OnT1, OnT2, OnT3, OnHeartbeat, OnStatsTick, HandleTimer, Handle
<1>3. s \in Session /\ now \in Session /\ SameFlow(s, now)
  BY FieldType, FieldFlow DEF TypeOK, now
<1>4. Kept(now) /\ now.st = s.st /\ now.hung # TRUE
  <2>1. s.hung # TRUE BY <1>2 DEF Running
  <2> QED BY <1>3, <2>1, SameKept DEF SameFlow
<1>5. ASSUME NEW x \in Session, Kept(x), s' = Handled(x) PROVE Kept(s')
  BY <1>5, HandledKept
<1>6. ASSUME NEW t \in Timers, TimerFires(t) PROVE Kept(s')
  <2>1. s' = [s EXCEPT !.armed = s.armed \ {t}, !.tx = <<>>] BY <1>6 DEF TimerFires
  <2>2. SameFlow(s, s') BY <1>3, <2>1 DEF SameFlow, SameStream, SameLink, Session
  <2> QED BY <2>2, SameKept
<1>7. CASE SwapPending BY <1>4, <1>7 DEF SwapPending
<1>8. CASE OnT1 \/ OnT2 \/ OnT3 \/ OnHeartbeat \/ OnStatsTick
  BY <1>3, <1>4, <1>5, <1>8, ExpiryType, ExpiryKept
  DEF OnT1, OnT2, OnT3, OnHeartbeat, OnStatsTick, HandleTimer
<1>9. ASSUME NEW f \in Frames, RxFrame(f) PROVE Kept(s')
  <2>1. f \in Frame BY FramesType
  <2>2. InRange(now, f)
    <3>1. f.nr < Modulus(s) BY <1>9 DEF RxFrame, Decodable
    <3> QED BY <1>3, <3>1 DEF InRange, SameFlow, SameStream, SameLink, Modulus
  <2>3. CASE RxDisconnected(f)
    BY <1>3, <1>4, <1>5, <2>1, <2>3, OtherFrameType, OtherFrameKept DEF RxDisconnected, Handle
  <2>4. CASE RxAwaitingConnection(f)
    BY <1>3, <1>4, <1>5, <2>1, <2>4, AwaitingConnectionFrameType, AwaitingConnectionKept
    DEF RxAwaitingConnection, Handle
  <2>5. CASE RxConnected(f)
    BY <1>3, <1>4, <1>5, <2>1, <2>2, <2>5, ConnectedFrameType, ConnectedKept
    DEF RxConnected, Handle
  <2>6. CASE RxTimerRecovery(f)
    BY <1>3, <1>4, <1>5, <2>1, <2>2, <2>6, TimerRecoveryFrameType, TimerRecoveryKept
    DEF RxTimerRecovery, Handle
  <2>7. CASE RxAwaitingRelease(f)
    BY <1>3, <1>4, <1>5, <2>1, <2>7, OtherFrameType, OtherFrameKept
    DEF RxAwaitingRelease, Handle
  <2> QED BY <1>9, <2>3, <2>4, <2>5, <2>6, <2>7 DEF RxFrame
<1>10. CASE Connect \/ Disconnect
  <2>1. 0 \in Nat OBVIOUS
  <2> QED BY <1>3, <1>4, <1>5, <1>10, <2>1, OperatorType, OperatorKept
          DEF Connect, Disconnect, Handle
<1>11. ASSUME NEW n \in 1 .. MaxBytes, TypeData(n) PROVE Kept(s')
  <2>1. n \in Nat BY ConfigAssumption
  <2>2. OperatorData(now, n) \in Session /\ Kept(OperatorData(now, n))
    BY <1>3, <1>4, <2>1, OperatorType, OperatorKept
  <2> QED BY <1>5, <1>11, <2>2 DEF TypeData, Handle
<1>12. CASE Shutdown BY <1>3, <1>4, <1>12, HandledKept DEF Shutdown
<1>13. CASE BackendChanges
  BY <1>3, <1>4, <1>13, FieldFlow, SameKept DEF BackendChanges
<1> QED
  BY <1>6, <1>7, <1>8, <1>9, <1>10, <1>11, <1>12, <1>13 DEF Next, Drain, Operator

LEMMA AlwaysKept == ASSUME WindowFits PROVE Spec => [](TypeOK /\ Kept(s))
<1>1. Init => Kept(s)
  BY ConfigAssumption DEF Init, NewSession, Kept, Fits, Modulus, WindowFits, IsOpen
<1>2. TypeOK /\ Kept(s) /\ [Next]_vars => Kept(s)' BY KeptStep
<1> QED BY <1>1, <1>2, TypeCorrect, PTL DEF Spec

LEMMA KeptSays == ASSUME TypeOK, Kept(s) PROVE WindowRespected /\ StreamConserved
<1> SUFFICES ASSUME Open PROVE WindowRespected /\ StreamConserved
  BY DEF WindowRespected, StreamConserved
<1>1. Fits(s) /\ Tiled(s) BY DEF Kept, Open, Running, IsOpen
<1>2. /\ Outstanding(s) <= s.win
      /\ \A n \in Slots : n < Modulus(s) /\ Dist(s, s.va, n) < Outstanding(s)
                          => s.pending[n].lo < s.pending[n].hi
      /\ Outstanding(s) = 0 => s.acked = s.head
      /\ Outstanding(s) > 0 => /\ s.pending[s.va].lo = s.acked
                               /\ s.pending[(s.vs - 1) % Modulus(s)].hi = s.head
      /\ \A n \in 0 .. (Modulus(s) - 1) :
            Dist(s, s.va, n) + 1 < Outstanding(s)
            => s.pending[n].hi = s.pending[(n + 1) % Modulus(s)].lo
  BY <1>1, TiledSays DEF TypeOK
<1> QED BY <1>2 DEF WindowRespected, StreamConserved

\* When the configured window is below the modulus, kick never has more frames in flight than
\* the window, and each of them waits in its retransmit slot, whatever rebinds, REJs and
\* modulus changes come (kick, framesAcked, requeueFromVA, handlers of SABM and SABME).
THEOREM WindowHolds == WindowFits => (Spec => []WindowRespected)
<1> SUFFICES ASSUME WindowFits PROVE Spec => []WindowRespected OBVIOUS
<1>1. TypeOK /\ Kept(s) => WindowRespected BY KeptSays
<1> QED BY <1>1, AlwaysKept, PTL

\* Under the same hypothesis, and as long as no rebind has torn the stream (TornRarely says
\* when one can), no byte the operator typed is lost, doubled or reordered between txBuf and
\* the retransmit slots before the peer acknowledges it.
THEOREM StreamHolds == WindowFits => (Spec => []StreamConserved)
<1> SUFFICES ASSUME WindowFits PROVE Spec => []StreamConserved OBVIOUS
<1>1. TypeOK /\ Kept(s) => StreamConserved BY KeptSays
<1> QED BY <1>1, AlwaysKept, PTL

-----------------------------------------------------------------------------
(* When the stream tears: the requeue of every step but one finds the       *)
(* frames in flight and no others.                                          *)

\* In step with the modulus, or with numbers that have not wrapped, the requeue loop
\* looks at the frames in flight and at nothing else.
LEMMA VisitsInFlight ==
    ASSUME NEW x \in Session, x.va \in Below(Modulus(x)), x.vs \in Below(Modulus(x)),
           x.vs # x.va, NEW mod \in {Mod8, Mod128}, x.vs < mod,
           mod = Modulus(x) \/ x.va < x.vs
    PROVE  Visits(x, mod) = LiveSlots(x)
<1> DEFINE m == Modulus(x)
           d == Outstanding(x)
           visit(j) == IF j = 0 THEN x.va ELSE (x.va + j) % mod
<1>1. m \in Nat \ {0} /\ m <= Mod128 /\ x.va \in Below(m) /\ x.vs \in Below(m) BY ModulusType
<1>2. mod \in Nat \ {0} BY ModuliAssumption
<1>3. d = IF x.va <= x.vs THEN x.vs - x.va ELSE x.vs - x.va + m
  BY DistEval DEF Outstanding
<1>4. (x.vs - x.va - 1) % mod = d - 1
  <2> DEFINE c == (x.vs - x.va) - 1
  <2>1. CASE x.va < x.vs
    <3>1. c \in Nat /\ c < mod /\ d - 1 = c BY <1>1, <1>2, <1>3, <2>1 DEF Below
    <3> HIDE DEF c
    <3>2. c % mod = c BY <1>2, <3>1
    <3> QED BY <3>1, <3>2 DEF c
  <2>2. CASE ~(x.va < x.vs)
    <3>1. mod = m BY <2>2
    <3>2. m \in Nat /\ c \in Int /\ -m <= c /\ c < m /\ ~(c >= 0) /\ d - 1 = c + m
      BY <1>1, <1>3, <2>2 DEF Below
    <3> HIDE DEF c, m, d
    <3>3. c % m = IF c >= 0 THEN c ELSE c + m BY <3>2, WrapDown
    <3> QED BY <3>1, <3>2, <3>3 DEF c
  <2> QED BY <2>1, <2>2
<1>5. d \in Nat \ {0} /\ d < m BY <1>1, <1>3 DEF Below
<1>6. Visits(x, mod) = { visit(j) : j \in 0 .. (d - 1) } BY <1>4, Zenon DEF Visits
<1>7. ASSUME NEW j \in 0 .. (d - 1) PROVE visit(j) = SeqAfter(x, x.va, j)
  <2>1. j \in Nat /\ j < d /\ j <= m BY <1>1, <1>5, <1>7
  <2>2. SeqAfter(x, x.va, j) = IF x.va + j < m THEN x.va + j ELSE (x.va + j) - m
    BY <2>1, AfterEval
  <2>3. CASE mod = m
    <3>1. SeqAfter(x, x.va, j) = (x.va + j) % mod BY <2>3 DEF SeqAfter
    <3>2. j = 0 => SeqAfter(x, x.va, j) = x.va BY <1>1, <2>1, <2>2 DEF Below
    <3> HIDE DEF m, d
    <3> QED BY <3>1, <3>2
  <2>4. CASE x.va < x.vs
    <3> DEFINE c == x.va + j
    <3>1. c \in Nat /\ c < mod /\ c < m /\ (j = 0 => c = x.va)
      BY <1>1, <1>2, <1>3, <2>1, <2>4 DEF Below
    <3>2. SeqAfter(x, x.va, j) = c BY <2>2, <3>1
    <3> HIDE DEF c, m, d
    <3>3. c % mod = c BY <1>2, <3>1
    <3> QED BY <3>1, <3>2, <3>3 DEF c
  <2> QED BY <2>3, <2>4
<1>8. ASSUME NEW n \in LiveSlots(x) PROVE \E j \in 0 .. (d - 1) : n = visit(j)
  <2>1. n \in Below(m) /\ Dist(x, x.va, n) < d BY <1>1, <1>8 DEF LiveSlots, Slots, Below
  <2>2. Dist(x, x.va, n) \in Nat /\ SeqAfter(x, x.va, Dist(x, x.va, n)) = n
    <3>1. Dist(x, x.va, n) \in Below(m) /\ SeqAfter(x, x.va, Dist(x, x.va, n)) = n
      BY <1>1, <2>1, RingFacts
    <3> QED BY <1>1, <3>1 DEF Below
  <2>3. Dist(x, x.va, n) \in 0 .. (d - 1) BY <1>5, <2>1, <2>2
  <2> QED BY <1>7, <2>2, <2>3
<1>9. ASSUME NEW j \in 0 .. (d - 1) PROVE visit(j) \in LiveSlots(x)
  <2>1. j \in Below(m) /\ j < d BY <1>1, <1>5, <1>9 DEF Below
  <2>2. /\ SeqAfter(x, x.va, j) \in Below(m) /\ SeqAfter(x, x.va, j) \in Slots
        /\ Dist(x, x.va, SeqAfter(x, x.va, j)) = j
    BY <2>1, SlotFacts
  <2>3. SeqAfter(x, x.va, j) < m BY <1>1, <2>2 DEF Below
  <2>4. SeqAfter(x, x.va, j) \in LiveSlots(x) BY <2>1, <2>2, <2>3 DEF LiveSlots
  <2> QED BY <1>7, <2>4
<1> HIDE DEF visit, d
<1> QED BY <1>6, <1>8, <1>9

\* Then the requeue neither leaves a frame behind nor picks up an old one.
LEMMA RequeueWhole ==
    ASSUME NEW x \in Session, Fits(x), Tiled(x), NEW mod \in {Mod8, Mod128},
           mod = Modulus(x) \/ ~(x.vs < x.va)
    PROVE  RequeueFromVA(x, mod).torn = x.torn
<1>1. CASE x.vs = x.va BY <1>1 DEF RequeueFromVA
<1>2. CASE x.vs # x.va /\ x.vs >= mod
  <2>1. RequeueFromVA(x, mod) = [x EXCEPT !.hung = TRUE] BY <1>2 DEF RequeueFromVA
  <2> QED BY <2>1 DEF Session
<1>3. CASE x.vs # x.va /\ ~(x.vs >= mod)
  <2> DEFINE found == { n \in Visits(x, mod) : x.pending[n].lo < x.pending[n].hi }
  <2>1. x.va \in Below(Modulus(x)) /\ x.vs \in Below(Modulus(x)) BY DEF Tiled
  <2>2. Visits(x, mod) = LiveSlots(x)
    <3>1. mod \in Nat /\ x.vs \in Int /\ x.va \in Int BY ModuliAssumption DEF Session, Slots
    <3>2. x.vs < mod /\ (mod = Modulus(x) \/ x.va < x.vs) BY <1>3, <3>1
    <3> QED BY <1>3, <2>1, <3>2, VisitsInFlight
  <2>3. \A n \in LiveSlots(x) : x.pending[n].lo < x.pending[n].hi
    BY TiledSays DEF LiveSlots
  <2>4. found = LiveSlots(x) BY <2>2, <2>3
  <2>5. \E slots : RequeueFromVA(x, mod) =
          [[x EXCEPT !.pending = slots, !.vs = x.va] EXCEPT !.head = x.pending[x.va].lo]
    <3> DEFINE slots == [n \in Slots |-> IF n \in found THEN Nil ELSE x.pending[n]]
    <3>1. RequeueFromVA(x, mod) =
            [[x EXCEPT !.pending = slots, !.vs = x.va] EXCEPT !.head = x.pending[x.va].lo]
      BY <1>3, <2>4, Zenon DEF RequeueFromVA
    <3> QED BY <3>1
  <2> QED BY <2>5 DEF Session
<1> QED BY <1>1, <1>2, <1>3

\* The history flag and the modulus, for the handlers that leave them alone.
Marked(x, b, w) == {"torn", "mod128"} \subseteq DOMAIN x /\ x.torn = b /\ x.mod128 = w

LEMMA MarkedBasics ==
    ASSUME NEW x, NEW b, NEW w, Marked(x, b, w)
    PROVE  /\ \A ts : Marked(Arm(x, ts), b, w) /\ Marked(Stop(x, ts), b, w)
           /\ \A ns : Marked(SetState(x, ns), b, w)
           /\ \A fs : Marked(SubmitAll(x, fs), b, w)
           /\ Marked(DropQueues(x), b, w) /\ Marked(ZeroSeq(x), b, w)
           /\ \A v : Marked([x EXCEPT !.n2 = v], b, w)
           /\ \A v : Marked([x EXCEPT !.cond = v], b, w)
           /\ \A v : Marked([x EXCEPT !.n2 = v, !.cond = {}], b, w)
           /\ \A v : Marked([x EXCEPT !.cond = {}, !.n2 = v], b, w)
           /\ \A v : Marked([x EXCEPT !.err = v], b, w)
           /\ \A v : Marked([x EXCEPT !.tail = v], b, w)
           /\ \A v, u : Marked([x EXCEPT !.n2 = v, !.acked = u], b, w)
<1>1. \A ts : Marked(Arm(x, ts), b, w) /\ Marked(Stop(x, ts), b, w) BY DEF Marked, Arm, Stop
<1>2. \A ns : Marked(SetState(x, ns), b, w) BY DEF Marked, SetState
<1>3. \A fs : Marked(SubmitAll(x, fs), b, w) BY DEF Marked, SubmitAll
<1>4. Marked(DropQueues(x), b, w) /\ Marked(ZeroSeq(x), b, w) BY DEF Marked, DropQueues, ZeroSeq
<1>5. /\ \A v : Marked([x EXCEPT !.n2 = v], b, w)
      /\ \A v : Marked([x EXCEPT !.cond = v], b, w)
      /\ \A v : Marked([x EXCEPT !.n2 = v, !.cond = {}], b, w)
      /\ \A v : Marked([x EXCEPT !.cond = {}, !.n2 = v], b, w)
      /\ \A v : Marked([x EXCEPT !.err = v], b, w)
      /\ \A v : Marked([x EXCEPT !.tail = v], b, w)
      /\ \A v, u : Marked([x EXCEPT !.n2 = v, !.acked = u], b, w)
  BY DEF Marked
<1> QED BY <1>1, <1>2, <1>3, <1>4, <1>5

LEMMA MarkedSends ==
    ASSUME NEW x, NEW b, NEW w, Marked(x, b, w)
    PROVE  /\ \A f : Marked(Submit(x, f), b, w)
           /\ \A pf : Marked(SendUA(x, pf), b, w) /\ Marked(SendDM(x, pf), b, w)
                      /\ Marked(SendREJ(x, pf), b, w)
           /\ \A pf, cmd : Marked(SendRR(x, pf, cmd), b, w)
           /\ Marked(SendDISC(x), b, w) /\ \A wide : Marked(SendSABM(x, wide), b, w)
<1>1. \A f : Marked(Submit(x, f), b, w) BY MarkedBasics DEF Submit
<1> QED BY <1>1 DEF SendUA, SendDM, SendREJ, SendRR, SendDISC, SendSABM

LEMMA MarkedKick == ASSUME NEW x, NEW b, NEW w, Marked(x, b, w) PROVE Marked(Kick(x), b, w)
<1> DEFINE k == Burst(x)
           ns(j) == SeqAfter(x, x.vs, j)
           sent == SubmitAll(x, [j \in 1 .. k |->
                      [kind |-> "I", ns |-> ns(j - 1), nr |-> x.vr, pf |-> FALSE, cmd |-> TRUE,
                       info |-> Chunk(x, j - 1), ok |-> TRUE]])
           y == [sent EXCEPT
                    !.pending = [n \in Slots |->
                                   IF n < Modulus(x) /\ Dist(x, x.vs, n) < k
                                   THEN Chunk(x, Dist(x, x.vs, n)) ELSE @[n]],
                    !.head = IF k = 0 THEN @ ELSE Chunk(x, k - 1).hi,
                    !.vs = IF k = 0 THEN @ ELSE ns(k),
                    !.cond = IF k > 0 THEN @ \ {"ACK"} ELSE @,
                    !.armed = IF k > 0 /\ "ACK" \in x.cond THEN @ \ {"T2"} ELSE @]
<1>1. Marked(sent, b, w) BY MarkedBasics
<1>2. \A p, h, v, c, a : Marked([sent EXCEPT !.pending = p, !.head = h, !.vs = v, !.cond = c,
                                             !.armed = a], b, w)
  <2> HIDE DEF sent
  <2> QED BY <1>1 DEF Marked
<1>3. Marked(y, b, w) BY <1>2, Zenon
<1>4. Kick(x) \in {x, y, Stop(Arm(y, {"T1"}), {"T3"})} BY Zenon DEF Kick
<1> HIDE DEF y
<1>5. Marked(Arm(y, {"T1"}), b, w) BY <1>3, MarkedBasics
<1>6. Marked(Stop(Arm(y, {"T1"}), {"T3"}), b, w) BY <1>5, MarkedBasics
<1> QED BY <1>3, <1>4, <1>6

LEMMA MarkedAcked ==
    ASSUME NEW x, NEW b, NEW w, Marked(x, b, w), NEW nr PROVE Marked(FramesAcked(x, nr), b, w)
<1> DEFINE freed == [x EXCEPT
                     !.pending = [n \in Slots |->
                                    IF n < Modulus(x) /\ Dist(x, x.va, n) < Dist(x, x.va, nr)
                                    THEN Nil ELSE @[n]],
                     !.acked = IF nr = x.va THEN @ ELSE x.pending[(nr - 1) % Modulus(x)].hi,
                     !.va = nr]
<1>1. \A p, a, v : Marked([x EXCEPT !.pending = p, !.acked = a, !.va = v], b, w) BY DEF Marked
<1>2. Marked(freed, b, w) BY <1>1, Zenon
<1>3. FramesAcked(x, nr) \in {Arm(Stop(freed, {"T1"}), {"T3"}), Arm(freed, {"T1"})}
  BY Zenon DEF FramesAcked
<1> HIDE DEF freed
<1>4. Marked(Stop(freed, {"T1"}), b, w) /\ Marked(Arm(freed, {"T1"}), b, w) BY <1>2, MarkedBasics
<1>5. Marked(Arm(Stop(freed, {"T1"}), {"T3"}), b, w) BY <1>4, MarkedBasics
<1> QED BY <1>3, <1>4, <1>5

LEMMA MarkedParts ==
    ASSUME NEW x, NEW b, NEW w, Marked(x, b, w)
    PROVE  /\ Marked(EstablishDataLink(x), b, w)
           /\ Marked(TransmitEnquiry(x), b, w) /\ Marked(StartRelease(x), b, w)
           /\ \A e : Marked(Drop(x, e), b, w) /\ Marked(PeerGone(x, e), b, w)
           /\ \A f : Marked(PeerBusy(x, f), b, w) /\ Marked(AnswerPoll(x, f), b, w)
           /\ \A n : Marked(Enquire(x, n), b, w)
           /\ Marked(CaughtUp(x), b, w) /\ Marked(LinkUp(x), b, w)
           /\ \A wide : Marked(SetModulus(x, wide), b, wide)
<1>1. Marked(EstablishDataLink(x), b, w)
  <2>1. Marked(Stop([x EXCEPT !.cond = {}, !.n2 = 0], {"T1", "T2", "T3"}), b, w) BY MarkedBasics
  <2>2. Marked(Arm(SendSABM(Stop([x EXCEPT !.cond = {}, !.n2 = 0], {"T1", "T2", "T3"}),
                            x.mod128), {"T1"}), b, w)
    BY <2>1, MarkedSends, MarkedBasics
  <2> QED BY <2>2, MarkedBasics DEF EstablishDataLink
<1>2. Marked(TransmitEnquiry(x), b, w)
  <2>1. Marked(SendRR(x, TRUE, TRUE), b, w) BY MarkedSends
  <2>2. Marked([SendRR(x, TRUE, TRUE) EXCEPT !.cond = @ \ {"ACK"}], b, w) BY <2>1, MarkedBasics
  <2> QED BY <2>2, MarkedBasics DEF TransmitEnquiry
<1>3. Marked(StartRelease(x), b, w)
  <2> DEFINE y == [DropQueues(x) EXCEPT !.n2 = 0]
  <2>1. Marked(y, b, w)
    <3>1. Marked(DropQueues(x), b, w) BY MarkedBasics
    <3> QED BY <3>1, MarkedBasics
  <2> HIDE DEF y
  <2>2. Marked(Stop(SendDISC(y), {"T2", "T3"}), b, w) BY <2>1, MarkedSends, MarkedBasics
  <2>3. Marked(Arm(Stop(SendDISC(y), {"T2", "T3"}), {"T1"}), b, w) BY <2>2, MarkedBasics
  <2> QED BY <2>3, MarkedBasics DEF StartRelease, y
<1>4. ASSUME NEW y, Marked(y, b, w), NEW e PROVE Marked(Drop(y, e), b, w)
  <2>1. Marked([y EXCEPT !.err = e], b, w) BY <1>4, MarkedBasics
  <2> QED BY <2>1, MarkedBasics DEF Drop
<1>5. ASSUME NEW e PROVE Marked(PeerGone(x, e), b, w)
  <2>1. Marked(DropQueues(x), b, w) BY MarkedBasics
  <2>2. Marked(Stop(DropQueues(x), {"T1", "T2", "T3", "HB"}), b, w) BY <2>1, MarkedBasics
  <2> QED BY <1>4, <2>2 DEF PeerGone
<1>6. ASSUME NEW f PROVE Marked(PeerBusy(x, f), b, w) /\ Marked(AnswerPoll(x, f), b, w)
  BY MarkedBasics, MarkedSends DEF PeerBusy, AnswerPoll
<1>7. ASSUME NEW n PROVE Marked(Enquire(x, n), b, w)
  <2> DEFINE y == [x EXCEPT !.n2 = n]
  <2>1. Marked(y, b, w) BY MarkedBasics
  <2> HIDE DEF y
  <2>2. Marked(SendRR(y, TRUE, TRUE), b, w) BY <2>1, MarkedSends
  <2>3. Marked([SendRR(y, TRUE, TRUE) EXCEPT !.cond = @ \ {"ACK"}], b, w) BY <2>2, MarkedBasics
  <2>4. Marked(TransmitEnquiry(y), b, w) BY <2>3, MarkedBasics DEF TransmitEnquiry
  <2> QED BY <2>4, MarkedBasics DEF Enquire, y
<1>8. Marked(CaughtUp(x), b, w)
  <2>1. Marked(Arm(x, {"T3"}), b, w) BY MarkedBasics
  <2> QED BY <2>1, MarkedBasics DEF CaughtUp
<1>9. Marked(LinkUp(x), b, w)
  <2> DEFINE y == [ZeroSeq(x) EXCEPT !.n2 = 0, !.acked = x.head]
  <2>1. Marked(ZeroSeq(x), b, w) BY MarkedBasics
  <2>2. Marked(y, b, w) BY <2>1, MarkedBasics
  <2> HIDE DEF y
  <2>3. Marked(Stop(y, {"T1"}), b, w) BY <2>2, MarkedBasics
  <2>4. Marked(Arm(Stop(y, {"T1"}), {"T3"}), b, w) BY <2>3, MarkedBasics
  <2> QED BY <2>4, MarkedBasics DEF LinkUp, y
<1>10. \A wide : Marked(SetModulus(x, wide), b, wide) BY DEF Marked, SetModulus
<1> QED BY <1>1, <1>2, <1>3, <1>4, <1>5, <1>6, <1>7, <1>8, <1>9, <1>10

LEMMA MarkedReceive ==
    ASSUME NEW x, NEW b, NEW w, Marked(x, b, w), NEW f PROVE Marked(ReceiveI(x, f), b, w)
<1> DEFINE z == FramesAcked(x, f.nr)
<1>1. Marked(z, b, w) BY MarkedAcked
<1> HIDE DEF z
<1>2. Marked(Deliver(z, f), b, w)
  <2> DEFINE y == [z EXCEPT !.vr = SeqAfter(z, z.vr, 1), !.cond = @ \ {"REJ"},
                            !.shown = IF f.info.lo = f.info.hi THEN @ ELSE Append(@, f.info)]
  <2>1. \A v, c, q : Marked([z EXCEPT !.vr = v, !.cond = c, !.shown = q], b, w)
    BY <1>1 DEF Marked
  <2>2. Marked(y, b, w) BY <2>1, Zenon
  <2>3. Deliver(z, f) = IF f.pf THEN Stop(SendRR([y EXCEPT !.cond = @ \ {"ACK"}], TRUE, FALSE), {"T2"})
                        ELSE IF "ACK" \in y.cond THEN y
                        ELSE Arm([y EXCEPT !.cond = @ \cup {"ACK"}], {"T2"})
    BY DEF Deliver
  <2> HIDE DEF y
  <2>4. Marked([y EXCEPT !.cond = @ \ {"ACK"}], b, w) /\ Marked([y EXCEPT !.cond = @ \cup {"ACK"}], b, w)
    BY <2>2, MarkedBasics
  <2>5. Marked(SendRR([y EXCEPT !.cond = @ \ {"ACK"}], TRUE, FALSE), b, w) BY <2>4, MarkedSends
  <2>6. Marked(Stop(SendRR([y EXCEPT !.cond = @ \ {"ACK"}], TRUE, FALSE), {"T2"}), b, w)
        /\ Marked(Arm([y EXCEPT !.cond = @ \cup {"ACK"}], {"T2"}), b, w)
    BY <2>4, <2>5, MarkedBasics
  <2> QED BY <2>2, <2>3, <2>6
<1>3. Marked(OutOfSequence(z, f), b, w)
  <2> DEFINE y == [z EXCEPT !.cond = (@ \cup {"REJ"}) \ {"ACK"}]
  <2>1. Marked(y, b, w) BY <1>1, MarkedBasics
  <2> HIDE DEF y
  <2>2. Marked(Stop(y, {"T2"}), b, w) BY <2>1, MarkedBasics
  <2>3. Marked(SendREJ(Stop(y, {"T2"}), f.pf), b, w) /\ Marked(SendRR(z, TRUE, FALSE), b, w)
    BY <1>1, <2>2, MarkedSends
  <2> QED BY <1>1, <2>3 DEF OutOfSequence, y
<1> QED BY <1>2, <1>3 DEF ReceiveI, z

\* A handler leaves the stream whole, or changes the modulus of an open link whose numbers
\* have wrapped.
Explained(x, y) ==
    \E b, w : /\ Marked(y, b, w)
              /\ b # x.torn => IsOpen(x) /\ w # x.mod128 /\ x.vs < x.va

LEMMA MarkedSelf == ASSUME NEW x \in Session PROVE Marked(x, x.torn, x.mod128)
BY DEF Session, Marked

LEMMA ExplainedBy == ASSUME NEW x, NEW y, NEW w, Marked(y, x.torn, w) PROVE Explained(x, y)
BY DEF Explained

LEMMA ExplainedMoves ==
    ASSUME NEW x, NEW y, Explained(x, y)
    PROVE  Explained(x, Kick(y)) /\ \A ns : Explained(x, SetState(y, ns))
BY MarkedKick, MarkedBasics DEF Explained

LEMMA RequeueExplained ==
    ASSUME NEW x \in Session, NEW y \in Session, Fits(y), Tiled(y), y.torn = x.torn
    PROVE  Marked(Requeue(y), x.torn, Requeue(y).mod128)
<1>1. Requeue(y).torn = x.torn BY ModulusIn, RequeueWhole DEF Requeue
<1> QED BY <1>1, RequeueType, MarkedSelf

LEMMA RebindExplained ==
    ASSUME NEW x \in Session, NEW f \in Frame, Kept(x), IsOpen(x), x.hung # TRUE
    PROVE  Explained(x, Rebind(x, f))
<1> DEFINE wide == f.kind = "SABME"
           mod == IF wide THEN Mod128 ELSE Mod8
           q == RequeueFromVA(x, mod)
           r == SetModulus(q, wide)
           y == [ZeroSeq(r) EXCEPT !.n2 = 0, !.cond = {}]
           u == SendUA(Arm(Stop(y, {"T1", "T2"}), {"T3"}), f.pf)
<1>1. Rebind(x, f) = IF r.hung THEN r ELSE u BY DEF Rebind
<1>2. wide \in BOOLEAN /\ mod \in {Mod8, Mod128} /\ (wide = x.mod128 => mod = Modulus(x))
  BY DEF Modulus
<1> HIDE DEF wide, mod
<1>3. (wide # x.mod128 /\ x.vs < x.va) \/ q.torn = x.torn
  <2>1. Fits(x) /\ Tiled(x) BY DEF Kept
  <2>2. CASE wide = x.mod128 BY <1>2, <2>1, <2>2, RequeueWhole
  <2>3. CASE ~(x.vs < x.va) BY <1>2, <2>1, <2>3, RequeueWhole
  <2> QED BY <2>2, <2>3
<1>4. Marked(q, q.torn, q.mod128) BY <1>2, RequeueFromVAType, MarkedSelf
<1> HIDE DEF q
<1>5. Marked(r, q.torn, wide) BY <1>4, MarkedParts
<1> HIDE DEF r
<1>6. Marked(y, q.torn, wide)
  <2>1. Marked(ZeroSeq(r), q.torn, wide) BY <1>5, MarkedBasics
  <2> QED BY <2>1, MarkedBasics
<1> HIDE DEF y
<1>7. Marked(u, q.torn, wide)
  <2>1. Marked(Stop(y, {"T1", "T2"}), q.torn, wide) BY <1>6, MarkedBasics
  <2>2. Marked(Arm(Stop(y, {"T1", "T2"}), {"T3"}), q.torn, wide) BY <2>1, MarkedBasics
  <2> QED BY <2>2, MarkedSends
<1> HIDE DEF u
<1> QED BY <1>1, <1>3, <1>5, <1>7 DEF Explained

LEMMA MarkedPolled ==
    ASSUME NEW x \in Session, NEW f
    PROVE  Marked(FramesAcked(AnswerPoll(PeerBusy(x, f), f), f.nr), x.torn, x.mod128)
<1>1. Marked(x, x.torn, x.mod128) BY MarkedSelf
<1>2. Marked(PeerBusy(x, f), x.torn, x.mod128) BY <1>1, MarkedParts
<1>3. Marked(AnswerPoll(PeerBusy(x, f), f), x.torn, x.mod128) BY <1>2, MarkedParts
<1> QED BY <1>3, MarkedAcked

LEMMA GoneExplained ==
    ASSUME NEW x \in Session, NEW f \in Frame
    PROVE  /\ Explained(x, PeerGone(SendUA(x, f.pf), "peer-disconnected"))
           /\ Explained(x, PeerGone(x, "peer-reset")) /\ Explained(x, Kick(x))
           /\ Explained(x, EstablishDataLink(x)) /\ Explained(x, Kick(ReceiveI(x, f)))
<1>1. Marked(x, x.torn, x.mod128) BY MarkedSelf
<1>2. Marked(SendUA(x, f.pf), x.torn, x.mod128) BY <1>1, MarkedSends
<1>3. Marked(PeerGone(SendUA(x, f.pf), "peer-disconnected"), x.torn, x.mod128)
  BY <1>2, MarkedParts
<1>4. Marked(PeerGone(x, "peer-reset"), x.torn, x.mod128)
      /\ Marked(EstablishDataLink(x), x.torn, x.mod128)
  BY <1>1, MarkedParts
<1>5. Marked(Kick(x), x.torn, x.mod128) BY <1>1, MarkedKick
<1>6. Marked(Kick(ReceiveI(x, f)), x.torn, x.mod128)
  <2>1. Marked(ReceiveI(x, f), x.torn, x.mod128) BY <1>1, MarkedReceive
  <2> QED BY <2>1, MarkedKick
<1> QED BY <1>3, <1>4, <1>5, <1>6, ExplainedBy

LEMMA ConnectedExplained ==
    ASSUME NEW x \in Session, NEW f \in Frame, Kept(x), x.st = "CONNECTED", x.hung # TRUE,
           InRange(x, f)
    PROVE  Explained(x, ConnectedFrame(x, f))
<1>1. IsOpen(x) BY DEF IsOpen
<1> DEFINE y == FramesAcked(AnswerPoll(PeerBusy(x, f), f), f.nr)
           r == Requeue(y)
           a == Stop(r, {"T1"})
           b == Arm(a, {"T3"})
           k == Kick(IF f.cmd THEN Rebind(x, f) ELSE x)
<1>2. Explained(x, k)
  <2>1. Explained(x, x) BY MarkedSelf, ExplainedBy
  <2>2. Explained(x, IF f.cmd THEN Rebind(x, f) ELSE x) BY <1>1, <2>1, RebindExplained
  <2> QED BY <2>2, ExplainedMoves
<1>3. Marked(y, x.torn, x.mod128) BY MarkedPolled
<1>4. ASSUME ValidNR(x, f.nr) PROVE Explained(x, Kick(b)) /\ Explained(x, Kick(y))
  <2>1. y \in Session /\ Kept(y) /\ Tiled(y) BY <1>1, <1>4, AckPolledKept
  <2> HIDE DEF y
  <2>2. y.torn = x.torn /\ Fits(y) BY <1>3, <2>1 DEF Marked, Kept
  <2>3. Marked(r, x.torn, r.mod128) BY <2>1, <2>2, RequeueExplained
  <2>4. Marked(a, x.torn, r.mod128) BY <2>3, MarkedBasics
  <2>5. Marked(b, x.torn, r.mod128) BY <2>4, MarkedBasics
  <2>6. Marked(Kick(b), x.torn, r.mod128) BY <2>5, MarkedKick
  <2>7. Marked(Kick(y), x.torn, x.mod128) BY <1>3, MarkedKick
  <2> QED BY <2>6, <2>7, ExplainedBy
<1>5. CASE f.kind = "REJ" /\ ValidNR(x, f.nr)
  <2>1. ConnectedFrame(x, f) = Kick(b) BY <1>5 DEF ConnectedFrame, Sequenced
  <2> QED BY <1>4, <1>5, <2>1
<1>6. CASE f.kind \in {"RR", "RNR"} /\ ValidNR(x, f.nr)
  <2>1. ConnectedFrame(x, f) = Kick(y) BY <1>6 DEF ConnectedFrame, Sequenced
  <2> QED BY <1>4, <1>6, <2>1
<1>7. CASE ~(f.kind \in {"RR", "RNR", "REJ"} /\ ValidNR(x, f.nr))
  <2>1. ConnectedFrame(x, f) \in {k, Kick(x),
            PeerGone(SendUA(x, f.pf), "peer-disconnected"), PeerGone(x, "peer-reset"),
            EstablishDataLink(x), Kick(ReceiveI(x, f))}
    BY <1>7 DEF ConnectedFrame, Sequenced
  <2> HIDE DEF k
  <2> QED BY <1>2, <2>1, GoneExplained
<1> QED BY <1>5, <1>6, <1>7

LEMMA RecoveryExplained ==
    ASSUME NEW x \in Session, NEW f \in Frame, Kept(x), IsOpen(x), x.hung # TRUE,
           InRange(x, f), ValidNR(x, f.nr)
    PROVE  Explained(x, RecoverySupervisory(x, f))
<1> DEFINE b == PeerBusy(x, f)
           c == [b EXCEPT !.n2 = 0]
           d == Stop(c, {"T1"})
           u == FramesAcked(d, f.nr)
           v == FramesAcked(AnswerPoll(b, f), f.nr)
           y == IF ~f.cmd /\ f.pf THEN u ELSE v
           z == IF f.kind = "REJ" THEN Requeue(y) ELSE y
<1>1. Marked(v, x.torn, x.mod128) BY MarkedPolled
<1>2. v \in Session /\ Kept(v) /\ Tiled(v) BY AckPolledKept
<1> HIDE DEF v
<1>3. Marked(x, x.torn, x.mod128) BY MarkedSelf
<1>4. b \in Session /\ SameFlow(x, b) /\ Marked(b, x.torn, x.mod128)
  BY <1>3, PeerBusyType, PollFlow, MarkedParts
<1> HIDE DEF b
<1>5. c \in Session /\ SameFlow(b, c) /\ Marked(c, x.torn, x.mod128)
  BY <1>4, FieldType, FieldFlow, MarkedBasics
<1> HIDE DEF c
<1>6. d \in Session /\ SameFlow(c, d) /\ Marked(d, x.torn, x.mod128)
  BY <1>5, StopType, ArmFlow, MarkedBasics DEF Timers
<1> HIDE DEF d
<1>7. SameFlow(x, d) BY <1>4, <1>5, <1>6, SameFlowTrans
<1>8. Kept(d) /\ IsOpen(d) /\ d.hung # TRUE /\ InRange(d, f) /\ ValidNR(d, f.nr)
  BY <1>7, FlowMoves
<1>9. u \in Session /\ Kept(u) /\ Tiled(u) BY <1>6, <1>8, AckedKept
<1>10. Marked(u, x.torn, x.mod128) BY <1>6, MarkedAcked
<1> HIDE DEF u
<1>11. y \in Session /\ Kept(y) /\ Tiled(y) /\ Marked(y, x.torn, x.mod128)
  BY <1>1, <1>2, <1>9, <1>10
<1> HIDE DEF y
<1>12. y.torn = x.torn /\ Fits(y) BY <1>11 DEF Marked, Kept
<1>13. \E w : Marked(z, x.torn, w) BY <1>11, <1>12, RequeueExplained
<1> HIDE DEF z
<1>14. PICK w : Marked(z, x.torn, w) BY <1>13
<1>15. Marked(CaughtUp(z), x.torn, w) BY <1>14, MarkedParts
<1>16. Marked(Kick(CaughtUp(z)), x.torn, w) /\ Marked(Kick(z), x.torn, w)
  BY <1>14, <1>15, MarkedKick
<1>17. RecoverySupervisory(x, f) \in {Kick(CaughtUp(z)), Kick(z)}
  BY DEF RecoverySupervisory, z, y, u, v, d, c, b
<1> QED BY <1>16, <1>17, ExplainedBy

LEMMA TimerRecoveryExplained ==
    ASSUME NEW x \in Session, NEW f \in Frame, Kept(x), x.st = "TIMER_RECOVERY", x.hung # TRUE,
           InRange(x, f)
    PROVE  Explained(x, TimerRecoveryFrame(x, f))
<1>1. IsOpen(x) BY DEF IsOpen
<1> DEFINE r == Rebind(x, f)
           w == SetState(r, "CONNECTED")
<1>2. Explained(x, r) BY <1>1, RebindExplained
<1> HIDE DEF r
<1>3. Explained(x, w) BY <1>2, ExplainedMoves
<1> HIDE DEF w
<1>4. Explained(x, Kick(w)) BY <1>3, ExplainedMoves
<1>5. CASE f.kind \in {"RR", "RNR", "REJ"} /\ ValidNR(x, f.nr)
  <2>1. TimerRecoveryFrame(x, f) = RecoverySupervisory(x, f)
    BY <1>5 DEF TimerRecoveryFrame, Sequenced
  <2> QED BY <1>1, <1>5, <2>1, RecoveryExplained
<1>6. CASE ~(f.kind \in {"RR", "RNR", "REJ"} /\ ValidNR(x, f.nr))
  <2>1. TimerRecoveryFrame(x, f) \in {Kick(x), r, Kick(w), PeerGone(SendUA(x, f.pf),
            "peer-disconnected"), PeerGone(x, "peer-reset"), EstablishDataLink(x),
            Kick(ReceiveI(x, f))}
    BY <1>6 DEF TimerRecoveryFrame, Sequenced, r, w
  <2> QED BY <1>2, <1>4, <2>1, GoneExplained
<1> QED BY <1>5, <1>6

LEMMA QuietFrames ==
    ASSUME NEW x \in Session, NEW f
    PROVE  /\ Explained(x, AwaitingConnectionFrame(x, f))
           /\ Explained(x, AwaitingReleaseFrame(x, f))
           /\ Explained(x, DisconnectedFrame(x, f))
<1> DEFINE b == x.torn
           w == x.mod128
           narrow == SetModulus(x, FALSE)
           wide == f.kind = "SABME"
           asked == SetModulus(x, wide)
           t == Stop(x, {"T1"})
           u == Stop(SendUA(x, f.pf), {"T1"})
<1>1. Marked(x, b, w) BY MarkedSelf
<1>2. /\ Marked(SendDM(x, f.pf), b, w) /\ Marked(SendDM(x, TRUE), b, w)
      /\ Marked(SendUA(x, f.pf), b, w)
  BY <1>1, MarkedSends
<1>3. Marked(narrow, b, FALSE) /\ Marked(LinkUp(x), b, w) BY <1>1, MarkedParts
<1>4. Marked(SendUA(asked, f.pf), b, wide)
  <2>1. Marked(asked, b, wide) BY <1>1, MarkedParts
  <2> QED BY <2>1, MarkedSends
<1>5. Marked(t, b, w) /\ Marked(u, b, w) BY <1>1, <1>2, MarkedBasics
<1>6. Marked(Drop(t, "peer-rejected"), b, w) /\ Marked(SetState(t, "DISCONNECTED"), b, w)
      /\ Marked(SetState(u, "DISCONNECTED"), b, w)
  BY <1>5, MarkedParts, MarkedBasics
<1>7. AwaitingConnectionFrame(x, f) \in {SendUA(asked, f.pf), SendDM(x, f.pf), LinkUp(x), narrow,
                                         Drop(t, "peer-rejected"), x}
  BY DEF AwaitingConnectionFrame
<1>8. AwaitingReleaseFrame(x, f) \in {SendDM(x, f.pf), SetState(u, "DISCONNECTED"),
                                      SetState(t, "DISCONNECTED"), SendDM(x, TRUE), x}
  BY DEF AwaitingReleaseFrame
<1>9. DisconnectedFrame(x, f) \in {SendDM(x, f.pf), x} BY DEF DisconnectedFrame
<1> HIDE DEF b, w, narrow, wide, asked, t, u
<1>10. \A y, m : Marked(y, b, m) => Explained(x, y) BY ExplainedBy DEF b
<1> QED BY <1>1, <1>2, <1>3, <1>4, <1>6, <1>7, <1>8, <1>9, <1>10

LEMMA QuietExpiries ==
    ASSUME NEW x \in Session
    PROVE  /\ Explained(x, T1Expiry(x)) /\ Explained(x, T2Expiry(x)) /\ Explained(x, T3Expiry(x))
           /\ Explained(x, HeartbeatTick(x)) /\ Explained(x, StatsTick(x))
<1> DEFINE b == x.torn
           w == x.mod128
           more == [x EXCEPT !.n2 = @ + 1]
           fresh == [SetModulus(x, FALSE) EXCEPT !.n2 = 0]
           noack == [x EXCEPT !.cond = @ \ {"ACK"}]
<1>1. Marked(x, b, w) BY MarkedSelf
<1>2. \A n : Marked(Enquire(x, n), b, w) BY <1>1, MarkedParts
<1>3. \A n : /\ Marked(SetState(Enquire(x, n), "TIMER_RECOVERY"), b, w)
             /\ Marked(Kick(Enquire(x, n)), b, w)
  BY <1>2, MarkedBasics, MarkedKick
<1>4. Marked(SendDM(x, TRUE), b, w) /\ Marked(SendDISC(x), b, w) BY <1>1, MarkedSends
<1>5. /\ Marked(PeerGone(SendDM(x, TRUE), "ack-timeout"), b, w)
      /\ Marked(Drop(SendDISC(x), "disc-timeout"), b, w)
      /\ Marked(Drop(x, "link-establish-timeout"), b, w)
  BY <1>1, <1>4, MarkedParts
<1>6. Marked(more, b, w) /\ Marked(noack, b, w) BY <1>1, MarkedBasics
<1>7. Marked(fresh, b, FALSE)
  <2>1. Marked(SetModulus(x, FALSE), b, FALSE) BY <1>1, MarkedParts
  <2> QED BY <2>1, MarkedBasics
<1>8. /\ Marked(SendSABM(more, w), b, w) /\ Marked(SendDISC(more), b, w)
      /\ Marked(SendSABM(fresh, FALSE), b, FALSE) /\ Marked(SendRR(noack, FALSE, FALSE), b, w)
  BY <1>6, <1>7, MarkedSends
<1>9. /\ Marked(Arm(SendSABM(more, w), {"T1"}), b, w) /\ Marked(Arm(SendDISC(more), {"T1"}), b, w)
      /\ Marked(Arm(SendSABM(fresh, FALSE), {"T1"}), b, FALSE)
      /\ Marked(Arm(x, {"HB"}), b, w) /\ Marked(Arm(x, {"STATS"}), b, w)
  BY <1>1, <1>8, MarkedBasics
<1>10. Marked(Kick(SendRR(noack, FALSE, FALSE)), b, w) /\ Marked(Kick(x), b, w)
  BY <1>1, <1>8, MarkedKick
<1>11. T1Expiry(x) \in
         {SetState(Enquire(x, 1), "TIMER_RECOVERY"), PeerGone(SendDM(x, TRUE), "ack-timeout"),
          Kick(Enquire(x, x.n2 + 1)), Arm(SendSABM(more, w), {"T1"}),
          Arm(SendSABM(fresh, FALSE), {"T1"}), Drop(x, "link-establish-timeout"),
          Arm(SendDISC(more), {"T1"}), Drop(SendDISC(x), "disc-timeout"), x}
  BY Zenon DEF T1Expiry
<1>12. T2Expiry(x) \in {Kick(SendRR(noack, FALSE, FALSE)), Kick(x), x} BY DEF T2Expiry
<1>13. T3Expiry(x) \in {SetState(Enquire(x, 0), "TIMER_RECOVERY"), Kick(x)} BY DEF T3Expiry
<1>14. HeartbeatTick(x) \in {Arm(x, {"HB"}), x} /\ StatsTick(x) \in {Arm(x, {"STATS"}), x}
  BY DEF HeartbeatTick, StatsTick
<1> HIDE DEF b, w, more, fresh, noack
<1>15. \A y, m : Marked(y, b, m) => Explained(x, y) BY ExplainedBy DEF b
<1>16. Explained(x, T1Expiry(x)) BY <1>1, <1>3, <1>5, <1>9, <1>11, <1>15
<1> QED BY <1>1, <1>3, <1>9, <1>10, <1>12, <1>13, <1>14, <1>15, <1>16

LEMMA QuietCommands ==
    ASSUME NEW x \in Session, NEW n
    PROVE  /\ Explained(x, OperatorConnect(x)) /\ Explained(x, OperatorData(x, n))
           /\ Explained(x, OperatorDisconnect(x))
<1> DEFINE b == x.torn
           w == x.mod128
           q == [ZeroSeq(x) EXCEPT !.n2 = 0, !.cond = {}]
           more == [x EXCEPT !.tail = @ + n]
           d == [SendDISC(x) EXCEPT !.n2 = 0]
<1>1. Marked(x, b, w) BY MarkedSelf
<1>2. Marked(ZeroSeq(x), b, w) /\ Marked(more, b, w) /\ Marked(StartRelease(x), b, w)
  BY <1>1, MarkedBasics, MarkedParts
<1>3. Marked(q, b, w) BY <1>2, MarkedBasics
<1>4. Marked(SendSABM(q, w), b, w) /\ Marked(SendDISC(x), b, w) BY <1>1, <1>3, MarkedSends
<1>5. Marked(Arm(SendSABM(q, w), {"T1", "HB"}), b, w) /\ Marked(d, b, w)
  BY <1>4, MarkedBasics
<1>6. Marked(Arm(d, {"T1"}), b, w)
      /\ Marked(SetState(Arm(SendSABM(q, w), {"T1", "HB"}), "AWAITING_CONNECTION"), b, w)
  BY <1>5, MarkedBasics
<1>7. Marked(SetState(Arm(d, {"T1"}), "AWAITING_RELEASE"), b, w) BY <1>6, MarkedBasics
<1>8. Marked(Kick(x), b, w) /\ Marked(Kick(more), b, w) BY <1>1, <1>2, MarkedKick
<1>9. OperatorConnect(x) \in
        {Kick(x), SetState(Arm(SendSABM(q, w), {"T1", "HB"}), "AWAITING_CONNECTION")}
  BY Zenon DEF OperatorConnect
<1>10. OperatorData(x, n) \in {Kick(more), x} BY DEF OperatorData
<1>11. OperatorDisconnect(x) \in
         {StartRelease(x), SetState(Arm(d, {"T1"}), "AWAITING_RELEASE"), x}
  BY DEF OperatorDisconnect
<1> HIDE DEF b, w, q, more, d
<1>12. \A y, m : Marked(y, b, m) => Explained(x, y) BY ExplainedBy DEF b
<1> QED BY <1>1, <1>2, <1>6, <1>7, <1>8, <1>9, <1>10, <1>11, <1>12

LEMMA EndsExplained ==
    ASSUME NEW x, NEW y, Explained(x, y)
    PROVE  Explained(x, Cleanup(y)) /\ Explained(x, Handled(y))
<1>1. PICK b, w : /\ Marked(y, b, w)
                  /\ b # x.torn => IsOpen(x) /\ w # x.mod128 /\ x.vs < x.va
  BY DEF Explained
<1>2. Marked(Cleanup(y), b, w) BY <1>1 DEF Cleanup, Marked
<1> QED BY <1>1, <1>2 DEF Handled, Explained

\* Every step of the session leaves the stream whole, or is such a rebind.
LEMMA StepExplained ==
    ASSUME TypeOK, Kept(s), [Next]_vars
    PROVE  s'.torn # s.torn => IsOpen(s) /\ s'.mod128 # s.mod128 /\ s.vs < s.va
<1>1. s \in Session BY DEF TypeOK
<1>2. now \in Session /\ SameFlow(s, now) /\ now.torn = s.torn
  <2>1. now \in Session /\ SameFlow(s, now) BY <1>1, FieldType, FieldFlow DEF now
  <2>2. now.torn = s.torn BY <1>1 DEF now, Session
  <2> QED BY <2>1, <2>2
<1>3. Kept(now) BY <1>2, SameKept
<1>4. now.st = s.st /\ now.hung = s.hung /\ now.mod128 = s.mod128 /\ now.vs = s.vs
      /\ now.va = s.va
  BY <1>2 DEF SameFlow, SameStream, SameLink
<1>5. Running => now.hung # TRUE BY <1>4 DEF Running
<1> HIDE DEF now
<1>6. SUFFICES s'.torn = s.torn \/ Explained(now, s')
  <2>1. Explained(now, s')
        => (s'.torn # now.torn => IsOpen(now) /\ s'.mod128 # now.mod128 /\ now.vs < now.va)
    BY DEF Explained, Marked
  <2> QED BY <1>2, <1>4, <2>1 DEF IsOpen
<1>7. CASE UNCHANGED vars BY <1>7 DEF vars
<1>8. ASSUME NEW t \in Timers, TimerFires(t) PROVE s'.torn = s.torn
  BY <1>1, <1>8 DEF TimerFires, Session
<1>9. CASE SwapPending BY <1>2, <1>9 DEF SwapPending
<1>10. CASE OnT1 \/ OnT2 \/ OnT3 \/ OnHeartbeat \/ OnStatsTick
  BY <1>2, <1>10, QuietExpiries, EndsExplained
  DEF OnT1, OnT2, OnT3, OnHeartbeat, OnStatsTick, HandleTimer
<1>11. ASSUME NEW f \in Frames, RxFrame(f) PROVE Explained(now, s')
  <2>1. f \in Frame BY FramesType
  <2>2. InRange(now, f)
    <3>1. f.nr < Modulus(s) BY <1>11 DEF RxFrame, Decodable
    <3> QED BY <1>4, <3>1 DEF InRange, Modulus
  <2>3. CASE RxDisconnected(f)
    BY <1>2, <2>3, QuietFrames, EndsExplained DEF RxDisconnected, Handle
  <2>4. CASE RxAwaitingConnection(f)
    BY <1>2, <2>4, QuietFrames, EndsExplained DEF RxAwaitingConnection, Handle
  <2>5. CASE RxConnected(f)
    BY <1>2, <1>3, <1>4, <1>5, <2>1, <2>2, <2>5, ConnectedExplained, EndsExplained
    DEF RxConnected, Handle
  <2>6. CASE RxTimerRecovery(f)
    BY <1>2, <1>3, <1>4, <1>5, <2>1, <2>2, <2>6, TimerRecoveryExplained, EndsExplained
    DEF RxTimerRecovery, Handle
  <2>7. CASE RxAwaitingRelease(f)
    BY <1>2, <2>7, QuietFrames, EndsExplained DEF RxAwaitingRelease, Handle
  <2> QED BY <1>11, <2>3, <2>4, <2>5, <2>6, <2>7 DEF RxFrame
<1>12. CASE Connect \/ Disconnect
  BY <1>2, <1>12, QuietCommands, EndsExplained DEF Connect, Disconnect, Handle
<1>13. ASSUME NEW n, TypeData(n) PROVE Explained(now, s')
  BY <1>2, <1>13, QuietCommands, EndsExplained DEF TypeData, Handle
<1>14. CASE Shutdown
  <2>1. Explained(now, now) BY <1>2, MarkedSelf, ExplainedBy
  <2> QED BY <1>14, <2>1, EndsExplained DEF Shutdown
<1>15. CASE BackendChanges
  <2>1. s' = [now EXCEPT !.sinkUp = ~now.sinkUp] BY <1>15 DEF BackendChanges
  <2> QED BY <1>2, <2>1 DEF Session
<1> QED
  BY <1>7, <1>8, <1>9, <1>10, <1>11, <1>12, <1>13, <1>14, <1>15 DEF Next, Drain, Operator

\* Under the same hypothesis the stream is torn by nothing but a rebind that changes the
\* modulus of an open link whose numbers have wrapped: no rejection, no rebind that keeps the
\* modulus and no rebind with V(A) <= V(S) loses a byte or sends one twice (requeueFromVA and
\* the SABM/SABME handlers of CONNECTED and TIMER_RECOVERY).
THEOREM TornRarely == WindowFits => (Spec => TornOnlyByWrap)
<1> SUFFICES ASSUME WindowFits PROVE Spec => TornOnlyByWrap OBVIOUS
<1> DEFINE Step == s'.torn # s.torn => s.st \in {"CONNECTED", "TIMER_RECOVERY"}
                                       /\ s'.mod128 # s.mod128 /\ s.vs < s.va
<1>1. TypeOK /\ Kept(s) /\ [Next]_vars => [Step]_vars BY StepExplained DEF IsOpen
<1> QED BY <1>1, AlwaysKept, PTL DEF Spec, TornOnlyByWrap
=============================================================================
