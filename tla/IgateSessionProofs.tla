------------------------- MODULE IgateSessionProofs -------------------------
(***************************************************************************)
(* Proofs about IgateSession: its types, the honesty of the connected flag *)
(* and that a saved filter reaches the server, for every set of filters    *)
(* and any number of saves and misdeeds of the server.                     *)
(***************************************************************************)
EXTENDS IgateSession, TLAPS

-----------------------------------------------------------------------------
(* Types.                                                                  *)

\* Every variable of the session keeps its type, and there is a socket in the
\* states that hold one and in no other.
THEOREM IgateTypeCorrect == Spec => []TypeOK
<1> USE DEF operator, applying, socket
<1>1. Init => TypeOK
  <2>1. Init => CountsOK
    BY IgateAssumption DEF Init, CountsOK
  <2>2. Init => FiltersOK
    BY DEF Init, FiltersOK
  <2>3. QED BY <2>1, <2>2 DEF Init, TypeOK, FlagsOK, SocketOK
<1>2. TypeOK /\ [Next]_vars => TypeOK'
  <2> SUFFICES ASSUME TypeOK, [Next]_vars PROVE TypeOK'
    OBVIOUS
  <2> USE DEF Next, vars, Save, OperatorSaves, SignalReload, Reload, ReloadReads, Build, StopCancels,
           StopEnds, Reconfigure, ReconfigureIgate, ReconfigureClient, ReconfigureCloses, CloseSocket,
           Supervisor, NewClient, InstallClient, Loop, DialFails, DialConnects, Session, Greet,
           GreetFails, LoginAccepted, LoginFails, ReadStarts, ReadLine, ReadFails, AuthDropped,
           Keepalive, KeepaliveAsks, KeepaliveGivesUp, WatcherCloses, ServerFails, Leave, Lost
  <2>1. CountsOK'
    BY IgateAssumption DEF TypeOK, CountsOK, Misdeed
  <2>2. FlagsOK'
    BY DEF TypeOK, FlagsOK
  <2>3. FiltersOK'
    BY DEF TypeOK, FiltersOK
  <2>4. SocketOK'
    <3>1. CASE Supervisor
      <4>1. CASE Session
        BY <4>1 DEF TypeOK, SocketOK
      <4>2. CASE NewClient \/ InstallClient \/ Loop \/ DialFails \/ DialConnects
        BY <4>2 DEF TypeOK, SocketOK
      <4>3. QED BY <3>1, <4>1, <4>2
    <3>2. CASE Reload
      BY <3>2 DEF TypeOK, SocketOK
    <3>3. CASE ~Supervisor /\ ~Reload
      BY <3>3 DEF TypeOK, SocketOK
    <3>4. QED BY <3>1, <3>2, <3>3
  <2>5. reload' \in {"idle", "build", "stop", "stopping", "push", "client_same", "client_changed", "close"}
    BY DEF TypeOK
  <2>6. QED BY <2>1, <2>2, <2>3, <2>4, <2>5 DEF TypeOK
<1>3. QED BY <1>1, <1>2, PTL DEF Spec

-----------------------------------------------------------------------------
(* The connected flag.                                                     *)

\* An iGate that does not exist is not connected: the cancellation that Build takes
\* back cannot hide a flag left behind.
OffHonest == sup = "off" => ~connected

\* While nobody stops the iGate the flag says "connected" only during a session
\* whose login was accepted.
THEOREM ConnectedIsHonest == Spec => []ConnectedHonest
<1> DEFINE CInv == ConnectedHonest /\ OffHonest
<1> USE DEF operator, applying, socket, ConnectedHonest, OffHonest, TypeOK, SocketOK
<1>1. Init => CInv
  BY DEF Init
<1>2. TypeOK /\ CInv /\ [Next]_vars => CInv'
  <2> SUFFICES ASSUME TypeOK, CInv, [Next]_vars PROVE CInv'
    OBVIOUS
  <2>1. CASE Save
    BY <2>1 DEF Save, OperatorSaves, SignalReload
  <2>2. CASE Reload
    BY <2>2 DEF Reload, ReloadReads, Build, StopCancels, StopEnds, Reconfigure, ReconfigureIgate,
                ReconfigureClient, ReconfigureCloses
  <2>3. CASE Supervisor
    BY <2>3 DEF Supervisor, NewClient, InstallClient, Loop, DialFails, DialConnects, Session,
                Greet, GreetFails, LoginAccepted, LoginFails, ReadStarts, ReadLine, ReadFails,
                Leave, Lost
  <2>4. CASE AuthDropped
    BY <2>4 DEF AuthDropped, Leave, Lost
  <2>5. CASE Keepalive \/ WatcherCloses \/ ServerFails
    BY <2>5 DEF Keepalive, KeepaliveAsks, KeepaliveGivesUp, WatcherCloses, ServerFails
  <2>6. CASE UNCHANGED vars
    BY <2>6 DEF vars
  <2>7. QED BY <2>1, <2>2, <2>3, <2>4, <2>5, <2>6 DEF Next
<1>3. CInv => ConnectedHonest
  OBVIOUS
<1>4. QED BY <1>1, <1>2, <1>3, IgateTypeCorrect, PTL DEF Spec

-----------------------------------------------------------------------------
(* A saved filter reaches the server.                                      *)

\* With no save on its way, the iGate's filter is the operator's, unless the
\* reload goroutine is about to copy it or to end the iGate.
IgateCurrent ==
    ~saving /\ ~signalled =>
        /\ reload \in {"stop", "stopping"} => ~want.on
        /\ want.on /\ reload \in {"idle", "client_same", "client_changed", "close"}
               => cfgFilter = want.filter

\* Once it has been made, the client's filter is the iGate's until Reconfigure
\* has taken a new one; missed tells where that was lost.
ClientCurrent ==
    sup \notin {"off", "starting"} /\ ~missed /\ reload # "client_changed"
        => clientFilter = cfgFilter

\* A login that was sent carried the client's filter, or its socket is about to be closed.
SessionCurrent ==
    sup \in {"login", "check", "reading"} /\ conn = "open" /\ ~missed /\ reload # "close"
        => sentFilter = clientFilter

\* Stop and Reconfigure work on an iGate that exists.
ReloadFits == reload \in {"stop", "stopping", "push", "client_same", "client_changed", "close"}
                  => sup # "off"

FilterInv == IgateCurrent /\ ClientCurrent /\ SessionCurrent /\ ReloadFits

\* Once the reload goroutine has applied every save, a live session was opened with
\* the filter in force, whichever of dial, login, read or backoff the change met.
THEOREM FilterReachesServer == Spec => []FilterApplied
<1> USE DEF operator, applying, socket
<1>1. Init => FilterInv
  BY DEF Init, FilterInv, IgateCurrent, ClientCurrent, SessionCurrent, ReloadFits
<1>2. TypeOK /\ FilterInv /\ [Next]_vars => FilterInv'
  <2> SUFFICES ASSUME TypeOK, FilterInv, [Next]_vars PROVE FilterInv'
    OBVIOUS
  <2> USE DEF FilterInv, IgateCurrent, ClientCurrent, SessionCurrent, ReloadFits, TypeOK, FlagsOK,
             SocketOK
  <2>1. CASE Save
    BY <2>1 DEF Save, OperatorSaves, SignalReload
  <2>2. CASE Reload
    <3>1. CASE ReloadReads
      BY <3>1 DEF ReloadReads
    <3>2. CASE Build
      BY <3>2 DEF Build
    <3>3. CASE StopCancels \/ StopEnds
      BY <3>3 DEF StopCancels, StopEnds
    <3>4. CASE ReconfigureIgate
      BY <3>4 DEF ReconfigureIgate
    <3>5. CASE ReconfigureClient
      <4>1. CASE NoClient
        BY <3>5, <4>1 DEF ReconfigureClient, NoClient
      <4>2. CASE ~NoClient
        BY <3>5, <4>2 DEF ReconfigureClient, NoClient
      <4>3. QED BY <4>1, <4>2
    <3>6. CASE ReconfigureCloses
      BY <3>6 DEF ReconfigureCloses, CloseSocket
    <3>7. QED BY <2>2, <3>1, <3>2, <3>3, <3>4, <3>5, <3>6 DEF Reload, Reconfigure
  <2>3. CASE Supervisor
    <3>1. CASE NewClient \/ InstallClient \/ Loop \/ DialFails \/ DialConnects
      BY <3>1 DEF NewClient, InstallClient, Loop, DialFails, DialConnects
    <3>2. CASE Session
      BY <3>2 DEF Session, Greet, GreetFails, LoginAccepted, LoginFails, ReadStarts, ReadLine,
                  ReadFails, Leave, Lost
    <3>3. QED BY <2>3, <3>1, <3>2 DEF Supervisor
  <2>4. CASE AuthDropped
    BY <2>4 DEF AuthDropped, Leave, Lost
  <2>5. CASE Keepalive \/ WatcherCloses \/ ServerFails
    BY <2>5 DEF Keepalive, KeepaliveAsks, KeepaliveGivesUp, WatcherCloses, ServerFails, CloseSocket
  <2>6. CASE UNCHANGED vars
    BY <2>6 DEF vars
  <2>7. QED BY <2>1, <2>2, <2>3, <2>4, <2>5, <2>6 DEF Next
<1>3. TypeOK /\ FilterInv => FilterApplied
  BY DEF FilterInv, IgateCurrent, ClientCurrent, SessionCurrent, ReloadFits, FilterApplied, Applied
<1>4. QED BY <1>1, <1>2, <1>3, IgateTypeCorrect, PTL DEF Spec
=============================================================================
