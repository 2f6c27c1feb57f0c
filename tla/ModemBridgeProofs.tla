------------------------- MODULE ModemBridgeProofs -------------------------
(***************************************************************************)
(* Nothing is sent on a closed channel, and a frame on the air keeps its   *)
(* line: proved for any number of callers, browsers and modem sessions.    *)
(***************************************************************************)
EXTENDS ModemBridge, TLAPS

\* The fields that steps update one at a time are there to be updated.
BridgeShape == DOMAIN bridge = {"pc", "state", "cancelled", "sender", "open", "reader"}
ModemShape == DOMAIN modem = {"phase", "wire", "jobs", "playing", "channel", "driver"}

\* A reader lives only where runSession waits for it, and the defers of supervise close
\* channels only after the last runSession.
ReaderInSession == bridge.reader => bridge.pc \in {"running", "draining", "drained"}
ClosedAtEnd == closed # {} => bridge.pc \in {"closing", "stopped"}
SessionInv == BridgeShape /\ ReaderInSession /\ ClosedAtEnd

AirInv == ModemShape /\ TxUncut

-----------------------------------------------------------------------------
LEMMA SessionStep == ASSUME SessionInv, [Next]_vars PROVE SessionInv'
<1> USE DEF SessionInv, BridgeShape, ReaderInSession, ClosedAtEnd
<1>1. CASE UNCHANGED <<bridge, closed>> BY <1>1
<1>2. CASE Stop BY <1>2 DEF Stop
<1>3. CASE Supervisor
  <2>1. CASE RunLoop BY <2>1 DEF RunLoop, GotoState
  <2>2. CASE Spawn BY <2>2 DEF Spawn
  <2>3. CASE SpawnFails BY <2>3 DEF SpawnFails, Goto
  <2>4. CASE ReadModemReady BY <2>4 DEF ReadModemReady, Goto, GotoState
  <2>5. CASE Configure BY <2>5 DEF Configure, Goto
  <2>6. CASE SessionEnds BY <2>6 DEF SessionEnds, Goto
  <2>7. CASE SendShutdown BY <2>7 DEF SendShutdown, Goto
  <2>8. CASE DrainTimeout BY <2>8 DEF DrainTimeout
  <2>9. CASE SessionOver BY <2>9 DEF SessionOver
  <2>10. CASE Reap BY <2>10 DEF Reap, GotoState
  <2>11. CASE Backoff BY <2>11 DEF Backoff, Goto, GotoState
  <2>12. CASE CloseReplies BY <2>12 DEF CloseReplies
  <2>13. CASE CloseEvents BY <2>13 DEF CloseEvents, Goto
  <2> QED
    BY <1>3, <2>1, <2>2, <2>3, <2>4, <2>5, <2>6, <2>7, <2>8, <2>9, <2>10, <2>11, <2>12, <2>13
    DEF Supervisor
<1>4. CASE Reader BY <1>4 DEF Reader, ReaderDelivers, ReaderEnds
<1>5. ASSUME NEW c \in Callers, CheckState(c) \/ Caller(c) \/ CallTimesOut(c)
      PROVE UNCHANGED <<bridge, closed>>
  BY <1>5 DEF CheckState, Caller, Register, SendRequest, TakeReply, CallTimesOut
<1>6. ASSUME NEW c \in Clients, PostSends(c) \/ PostArms(c)
      PROVE UNCHANGED <<bridge, closed>>
  BY <1>6 DEF PostSends, PostArms
<1>7. ASSUME TimerExpires \/ FireDeletes \/ FireUnkeys \/ SendTransmitFrame \/ ReloadConfiguration
      PROVE UNCHANGED <<bridge, closed>>
  BY <1>7 DEF TimerExpires, FireDeletes, FireUnkeys, SendTransmitFrame, ReloadConfiguration
<1>8. ASSUME handle_ipc \/ PeerDisconnected \/ Worker \/ ModemExits \/ Crash \/ Kill
      PROVE UNCHANGED <<bridge, closed>>
  BY <1>8 DEF handle_ipc, PeerDisconnected, Worker, InstallDriver, ManualKey, PlayBegins,
     PlayEnds, ModemExits, Crash, Kill
<1>9. CASE UNCHANGED vars BY <1>1, <1>9 DEF vars
<1> QED BY <1>1, <1>2, <1>3, <1>4, <1>5, <1>6, <1>7, <1>8, <1>9 DEF Next

\* Nothing is sent on a channel that has been closed (bridge.go:219-228, session.go:79-91).
THEOREM NeverSendsOnClosed == Spec => []NoClosedSend
<1>1. Init => SessionInv
  BY DEF Init, SessionInv, BridgeShape, ReaderInSession, ClosedAtEnd
<1>2. SessionInv /\ [Next]_vars => SessionInv' BY SessionStep
<1>3. SessionInv => NoClosedSend
  BY DEF SessionInv, ReaderInSession, ClosedAtEnd, NoClosedSend
<1> QED BY <1>1, <1>2, <1>3, PTL DEF Spec

-----------------------------------------------------------------------------
\* What is written to the modem's socket changes nothing on the air.
LEMMA WriteKeepsAir ==
    ASSUME AirInv, NEW msg, Write(msg) \/ UNCHANGED modem, UNCHANGED <<line, cut>>
    PROVE AirInv'
BY DEF AirInv, ModemShape, TxUncut, Write

LEMMA DeathKeepsAir == ASSUME Dies PROVE AirInv'
BY DEF Dies, Down, AirInv, ModemShape, TxUncut

LEMMA HandleKeepsAir == ASSUME AirInv, handle_ipc PROVE AirInv'
<1> USE DEF AirInv, ModemShape, TxUncut
<1> DEFINE m == Head(modem.wire)
<1>1. CASE build_driver BY <1>1 DEF build_driver
<1>2. CASE /\ modem' = [modem EXCEPT !.wire = Tail(@),
                                     !.jobs = IF Refuse(m) THEN @ ELSE Append(@, m.do)]
           /\ UNCHANGED <<line, cut>>
  BY <1>2
<1>3. CASE modem' = [modem EXCEPT !.wire = Tail(@)] /\ UNCHANGED <<line, cut>> BY <1>3
<1>4. CASE modem' = [modem EXCEPT !.phase = "leaving", !.wire = <<>>] /\ UNCHANGED <<line, cut>>
  BY <1>4
<1> QED BY <1>1, <1>2, <1>3, <1>4 DEF handle_ipc

LEMMA AirStep == ASSUME AirInv, [Next]_vars PROVE AirInv'
<1> USE DEF AirInv, ModemShape, TxUncut
<1>1. CASE UNCHANGED <<modem, line, cut>> BY <1>1
<1>2. CASE Supervisor
  <2>1. CASE Spawn BY <2>1 DEF Spawn, Down
  <2>2. CASE Configure BY <2>2, <1>1, WriteKeepsAir DEF Configure, pushConfiguration
  <2>3. CASE SendShutdown BY <2>3, WriteKeepsAir DEF SendShutdown
  <2> QED
    BY <1>1, <1>2, <2>1, <2>2, <2>3
    DEF Supervisor, RunLoop, SpawnFails, ReadModemReady, SessionEnds, DrainTimeout, SessionOver,
        Reap, Backoff, CloseReplies, CloseEvents
<1>3. ASSUME NEW c \in Callers, CheckState(c) \/ Caller(c) \/ CallTimesOut(c) PROVE AirInv'
  BY <1>1, <1>3, WriteKeepsAir
  DEF CheckState, Caller, Register, SendRequest, TakeReply, CallTimesOut
<1>4. ASSUME NEW c \in Clients, PostSends(c) \/ PostArms(c) PROVE AirInv'
  BY <1>1, <1>4, WriteKeepsAir DEF PostSends, PostArms
<1>5. CASE TimerExpires \/ FireDeletes \/ FireUnkeys \/ SendTransmitFrame \/ ReloadConfiguration
  BY <1>1, <1>5, WriteKeepsAir
  DEF TimerExpires, FireDeletes, FireUnkeys, SendTransmitFrame, ReloadConfiguration,
      pushConfiguration
<1>6. CASE Worker
  <2>1. CASE InstallDriver BY <2>1 DEF InstallDriver, Working
  <2>2. CASE ManualKey BY <2>2 DEF ManualKey, Working
  <2>3. CASE PlayBegins BY <2>3 DEF PlayBegins, Working
  <2>4. CASE PlayEnds BY <2>4 DEF PlayEnds
  <2> QED BY <1>6, <2>1, <2>2, <2>3, <2>4 DEF Worker
<1>7. CASE PeerDisconnected BY <1>7 DEF PeerDisconnected
<1>8. CASE ModemExits BY <1>8 DEF ModemExits, Down
<1>9. CASE Crash \/ Kill BY <1>9, DeathKeepsAir DEF Crash, Kill
<1>10. CASE Stop \/ Reader BY <1>1, <1>10 DEF Stop, Reader, ReaderDelivers, ReaderEnds
<1>11. CASE UNCHANGED vars BY <1>1, <1>11 DEF vars
<1> QED
  BY <1>2, <1>3, <1>4, <1>5, <1>6, <1>7, <1>8, <1>9, <1>10, <1>11, HandleKeepsAir DEF Next

\* A frame is on the air under a keyed line, or a driver was built meanwhile (tx_worker.rs:8-19).
THEOREM NeverCutByPtt == Spec => []TxUncut
<1>1. Init => AirInv BY DEF Init, Down, AirInv, ModemShape, TxUncut
<1>2. AirInv /\ [Next]_vars => AirInv' BY AirStep
<1>3. AirInv => TxUncut BY DEF AirInv
<1> QED BY <1>1, <1>2, <1>3, PTL DEF Spec
=============================================================================
