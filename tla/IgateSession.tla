---------------------------- MODULE IgateSession ----------------------------
(***************************************************************************)
(* The APRS-IS session of the iGate: the operator's saves, the goroutine   *)
(* that applies them (pkg/app, reloadIgate), the supervisor that dials,    *)
(* logs in, reads and backs off (pkg/igate, Igate.supervise, client.run),  *)
(* and the keepalive and context watchers each session leaves behind.  The *)
(* server may refuse, fall silent, close or withdraw the login, MaxFaults  *)
(* times in all.                                                           *)
(***************************************************************************)
EXTENDS Naturals

CONSTANTS
    Filters,    \* server filters the operator composes
    MaxSaves,   \* bound: saves of the operator
    MaxFaults   \* bound: misdeeds of the server

ASSUME IgateAssumption == MaxSaves \in Nat /\ MaxFaults \in Nat /\ Filters # {}

VARIABLES
    want,       \* the saved configuration: [on, filter]
    saving,     \* whether a save has not signalled the reload yet
    signalled,  \* whether the reload channel, of capacity one, is full
    reload,     \* where the reload goroutine is
    cancelled,  \* whether Stop has cancelled the session's context
    cfgFilter,  \* ig.cfg.ServerFilter
    sup,        \* where the supervisor is
    clientFilter, \* client.cfg.ServerFilter
    conn,       \* client.conn: "none", or a socket "open" or "closed" at this end
    peer,       \* the server's end of it: "good", "refusing", "mute" or "gone"
    sentFilter, \* the filter of this session's login line
    connected,  \* ig.connected
    watching,   \* whether the session's context watcher waits
    stale,      \* watchers of ended sessions that have not run yet (two at most are told apart)
    asked,      \* whether the keepalive awaits an answer
    missed,     \* history: a Reconfigure found no client while one was being made
    saves, faults   \* so far

vars == <<want, saving, signalled, reload, cancelled, cfgFilter, sup, clientFilter, conn,
          peer, sentFilter, connected, watching, stale, asked, missed, saves, faults>>
operator == <<want, saving, saves>>
applying == <<signalled, reload, cancelled, cfgFilter, missed>>
socket == <<conn, peer, sentFilter, watching, asked>>

Init ==
    /\ want \in [on : {FALSE}, filter : Filters]
    /\ cfgFilter \in Filters /\ clientFilter = cfgFilter /\ sentFilter = cfgFilter
    /\ saving = FALSE /\ signalled = FALSE /\ reload = "idle"
    /\ sup = "off" /\ cancelled = FALSE /\ conn = "none" /\ peer = "gone"
    /\ connected = FALSE /\ watching = FALSE /\ stale = 0 /\ asked = FALSE /\ missed = FALSE
    /\ saves = 0 /\ faults = 0

-----------------------------------------------------------------------------
(* The operator, and the goroutine that applies what was saved.  The iGate *)
(* exists unless reload is in "idle" with sup "off".                       *)

OperatorSaves ==
    /\ saves < MaxSaves /\ ~saving
    /\ want' \in [on : BOOLEAN, filter : Filters] \ {want}
    /\ saving' = TRUE /\ saves' = saves + 1
    /\ UNCHANGED <<applying, sup, clientFilter, socket, connected, stale, faults>>
\* signalIgateReload: a full channel already stands for this save.
SignalReload ==
    /\ saving /\ saving' = FALSE /\ signalled' = TRUE
    /\ UNCHANGED <<want, saves, reload, cancelled, cfgFilter, missed, sup, clientFilter,
                   socket, connected, stale, faults>>

\* reloadIgate reads whether the iGate is on and picks one of three transitions.
ReloadReads ==
    /\ reload = "idle" /\ signalled /\ signalled' = FALSE
    /\ reload' = IF want.on THEN (IF sup = "off" THEN "build" ELSE "push")
                 ELSE IF sup = "off" THEN "idle" ELSE "stop"
    /\ UNCHANGED <<operator, cancelled, cfgFilter, missed, sup, clientFilter, socket,
                   connected, stale, faults>>

\* buildIgateInstance reads the filter; Start spawns the supervisor.
Build ==
    /\ reload = "build"
    /\ cfgFilter' = want.filter /\ cancelled' = FALSE /\ missed' = FALSE
    /\ sup' = "starting" /\ reload' = "idle"
    /\ UNCHANGED <<operator, signalled, clientFilter, socket, connected, stale, faults>>

\* Stop cancels, then waits for the supervisor; the iGate is forgotten.
StopCancels ==
    /\ reload = "stop" /\ cancelled' = TRUE /\ reload' = "stopping"
    /\ UNCHANGED <<operator, signalled, cfgFilter, missed, sup, clientFilter, socket,
                   connected, stale, faults>>
StopEnds ==
    /\ reload = "stopping" /\ sup = "ended"
    /\ sup' = "off" /\ reload' = "idle" /\ connected' = FALSE /\ stale' = 0
    /\ UNCHANGED <<operator, signalled, cancelled, cfgFilter, missed, clientFilter, socket,
                   faults>>

\* Reconfigure: the iGate's copy of the filter, then the client's, then the close.
ReconfigureIgate ==
    /\ reload = "push"
    /\ reload' = IF cfgFilter = want.filter THEN "client_same" ELSE "client_changed"
    /\ cfgFilter' = want.filter
    /\ UNCHANGED <<operator, signalled, cancelled, missed, sup, clientFilter, socket,
                   connected, stale, faults>>
NoClient == sup \in {"starting", "made"}    \* ig.client is nil
ReconfigureClient ==
    /\ reload \in {"client_same", "client_changed"}
    /\ IF NoClient
       THEN /\ reload' = "idle"
            /\ missed' = (missed \/ (sup = "made" /\ clientFilter # cfgFilter))
            /\ UNCHANGED clientFilter
       ELSE /\ clientFilter' = cfgFilter
            /\ missed' = (missed /\ reload = "client_same")
            /\ reload' = IF reload = "client_changed" THEN "close" ELSE "idle"
    /\ UNCHANGED <<operator, signalled, cancelled, cfgFilter, sup, socket, connected, stale,
                   faults>>

\* client.closeConn, and every other close of the socket from outside the read loop.
CloseSocket == conn' = IF conn = "open" THEN "closed" ELSE conn
ReconfigureCloses_Nothing ==
    /\ reload = "close" /\ reload' = "idle"
    /\ UNCHANGED <<operator, signalled, cancelled, cfgFilter, missed, sup, clientFilter,
                   socket, connected, stale, faults>>
ReconfigureCloses ==
    /\ reload = "close" /\ reload' = "idle"
    /\ CloseSocket
    /\ UNCHANGED <<operator, signalled, cancelled, cfgFilter, missed, sup, clientFilter,
                   peer, sentFilter, watching, asked, connected, stale, faults>>

-----------------------------------------------------------------------------
(* The supervisor and client.run.                                          *)

\* newClient copies the configuration before ig.client is assigned.
NewClient ==
    /\ sup = "starting" /\ sup' = "made" /\ clientFilter' = cfgFilter
    /\ UNCHANGED <<operator, applying, socket, connected, stale, faults>>
InstallClient ==
    /\ sup = "made" /\ sup' = "loop"
    /\ UNCHANGED <<operator, applying, clientFilter, socket, connected, stale, faults>>

\* The loop's test of the context, and the wait of the backoff, which it also ends.
Loop_Blind ==
    /\ sup \in {"loop", "backoff"} /\ sup' = "dial"
    /\ UNCHANGED <<operator, applying, clientFilter, socket, connected, stale, faults>>
Loop ==
    /\ sup \in {"loop", "backoff"}
    /\ sup' = IF cancelled THEN "ended" ELSE "dial"
    /\ UNCHANGED <<operator, applying, clientFilter, socket, connected, stale, faults>>

Misdeed == faults < MaxFaults /\ faults' = faults + 1
DialFails ==
    /\ sup = "dial" /\ sup' = "backoff"
    /\ IF cancelled THEN UNCHANGED faults ELSE Misdeed
    /\ UNCHANGED <<operator, applying, clientFilter, socket, connected, stale>>
\* The socket is installed before the login is built.
DialConnects ==
    /\ sup = "dial" /\ ~cancelled
    /\ sup' = "greet" /\ conn' = "open"
    /\ \/ peer' = "good" /\ UNCHANGED faults
       \/ peer' \in {"refusing", "mute", "gone"} /\ Misdeed
    /\ UNCHANGED <<operator, applying, clientFilter, sentFilter, watching, asked, connected, stale>>

Leave_ForGood ==
    /\ sup' = "ended" /\ conn' = "none" /\ peer' = "gone" /\ watching' = FALSE /\ asked' = FALSE
    /\ stale' = IF watching /\ stale < 2 THEN stale + 1 ELSE stale
\* run returns: the watcher is cancelled first, then the socket is closed and forgotten.
Leave ==
    /\ sup' = "backoff" /\ conn' = "none" /\ peer' = "gone" /\ watching' = FALSE /\ asked' = FALSE
    /\ stale' = IF watching /\ stale < 2 THEN stale + 1 ELSE stale
\* ig.onLost.
Lost_Forgotten == UNCHANGED connected
Lost == connected' = FALSE

Greet ==
    /\ sup = "greet" /\ conn = "open"
    /\ sup' = "login" /\ sentFilter' = clientFilter
    /\ UNCHANGED <<operator, applying, clientFilter, conn, peer, watching, asked, connected,
                   stale, faults>>
\* A write to a socket that was closed.
GreetFails ==
    /\ sup = "greet" /\ (conn = "closed" \/ peer = "gone")
    /\ Leave
    /\ UNCHANGED <<operator, applying, clientFilter, sentFilter, connected, faults>>

\* awaitLogin has no read deadline: it ends with an answer or with the socket.  A
\* logresp that verifies the login, or a premature data line, opens the session.
LoginAccepted ==
    /\ sup = "login" /\ conn = "open" /\ peer = "good"
    /\ sup' = "check" /\ connected' = TRUE /\ watching' = TRUE
    /\ UNCHANGED <<operator, applying, clientFilter, conn, peer, sentFilter, asked, stale, faults>>
LoginFails ==
    /\ sup = "login" /\ (conn = "closed" \/ peer \in {"refusing", "gone"})
    /\ Leave
    /\ UNCHANGED <<operator, applying, clientFilter, sentFilter, connected, faults>>

\* The read loop looks at the context before each read, and leaves without onLost.
ReadStarts ==
    /\ sup = "check"
    /\ IF cancelled THEN Leave
       ELSE sup' = "reading" /\ UNCHANGED <<conn, peer, watching, asked, stale>>
    /\ UNCHANGED <<operator, applying, clientFilter, sentFilter, connected, faults>>
\* A line, a comment or the answer to a keepalive.
ReadLine ==
    /\ sup = "reading" /\ conn = "open" /\ peer = "good"
    /\ sup' = "check" /\ asked' = FALSE
    /\ UNCHANGED <<operator, applying, clientFilter, conn, peer, sentFilter, watching,
                   connected, stale, faults>>
\* The socket is closed at either end, or the read deadline of a silent server passes.
ReadFails ==
    /\ sup = "reading" /\ (conn = "closed" \/ peer \in {"gone", "mute"})
    /\ Leave /\ Lost
    /\ UNCHANGED <<operator, applying, clientFilter, sentFilter, faults>>
\* A partial auth drop: the server says unverified after all.
AuthDropped ==
    /\ sup = "reading" /\ conn = "open" /\ peer = "good"
    /\ Misdeed
    /\ Leave /\ Lost
    /\ UNCHANGED <<operator, applying, clientFilter, sentFilter>>

-----------------------------------------------------------------------------
(* The keepalive, the watchers and the server.                             *)

KeepaliveAsks ==
    /\ watching /\ conn = "open" /\ ~asked /\ asked' = TRUE
    /\ UNCHANGED <<operator, applying, sup, clientFilter, conn, peer, sentFilter, watching,
                   connected, stale, faults>>
\* No answer within keepaliveTimeout: a good server may be late, at a fault's cost.
KeepaliveGivesUp ==
    /\ watching /\ conn = "open" /\ asked
    /\ IF peer = "good" THEN Misdeed ELSE UNCHANGED faults
    /\ CloseSocket
    /\ UNCHANGED <<operator, applying, sup, clientFilter, peer, sentFilter, watching, asked,
                   connected, stale>>

\* A context watcher closes whatever socket the client has when it runs: its own
\* session's when the iGate stops, the next one's when it ran late.
WatcherCloses ==
    /\ \/ watching /\ cancelled /\ watching' = FALSE /\ UNCHANGED stale
       \/ stale > 0 /\ stale' = stale - 1 /\ UNCHANGED watching
    /\ CloseSocket
    /\ UNCHANGED <<operator, applying, sup, clientFilter, peer, sentFilter, asked, connected, faults>>

ServerFails ==
    /\ conn = "open" /\ peer \in {"good", "mute"}
    /\ peer' \in {"mute", "gone"} \ {peer}
    /\ Misdeed
    /\ UNCHANGED <<operator, applying, sup, clientFilter, conn, sentFilter, watching, asked,
                   connected, stale>>

Save == OperatorSaves \/ SignalReload
Reconfigure == ReconfigureIgate \/ ReconfigureClient \/ ReconfigureCloses
Reload == ReloadReads \/ Build \/ StopCancels \/ StopEnds \/ Reconfigure
Session == Greet \/ GreetFails \/ LoginAccepted \/ LoginFails \/ ReadStarts \/ ReadLine \/ ReadFails
Supervisor == NewClient \/ InstallClient \/ Loop \/ DialFails \/ DialConnects \/ Session
Keepalive == KeepaliveAsks \/ KeepaliveGivesUp
Next == Save \/ Reload \/ Supervisor \/ AuthDropped \/ Keepalive \/ WatcherCloses \/ ServerFails

Spec == Init /\ [][Next]_vars
\* Every goroutine goes on while it can, a dial ends after dialTimeout at the latest,
\* and a server that is good or gone answers.
FairSpec ==
    /\ Spec /\ WF_vars(SignalReload) /\ WF_vars(Reload) /\ WF_vars(Supervisor)
    /\ WF_vars(KeepaliveAsks) /\ WF_vars(KeepaliveGivesUp) /\ WF_vars(WatcherCloses)

-----------------------------------------------------------------------------
CountsOK == stale \in 0 .. 2 /\ saves \in 0 .. MaxSaves /\ faults \in 0 .. MaxFaults
FlagsOK == /\ saving \in BOOLEAN /\ signalled \in BOOLEAN /\ cancelled \in BOOLEAN /\ missed \in BOOLEAN
           /\ connected \in BOOLEAN /\ watching \in BOOLEAN /\ asked \in BOOLEAN
FiltersOK == /\ want \in [on : BOOLEAN, filter : Filters]
             /\ cfgFilter \in Filters /\ clientFilter \in Filters /\ sentFilter \in Filters
SocketOK ==
    /\ sup \in {"off", "starting", "made", "loop", "ended", "dial", "backoff", "greet", "login", "check", "reading"}
    /\ conn \in {"none", "open", "closed"} /\ peer \in {"good", "refusing", "mute", "gone"}
    /\ (conn = "none") <=> (sup \notin {"greet", "login", "check", "reading"})
    /\ reload = "build" => sup = "off"
TypeOK ==
    /\ CountsOK /\ FlagsOK /\ FiltersOK /\ SocketOK
    /\ reload \in {"idle", "build", "stop", "stopping", "push", "client_same", "client_changed", "close"}

\* The flag that SendLine, gateRFToIS and Status trust: while nobody stops the iGate
\* it says "connected" only during a session whose login was accepted, so that a line
\* is not written ahead of a login (igate.go:459-473, client.go:134-177).
ConnectedHonest == connected /\ ~cancelled => sup \in {"check", "reading"}

\* A saved filter reaches the server: once the reload goroutine has applied every save,
\* a session that lives was opened with the filter in force, whichever of dial, login,
\* read or backoff the change met; unless it met the iGate before its client existed
\* (Reconfigure, igate.go:822-851).
Applied == reload = "idle" /\ ~signalled /\ ~saving
FilterApplied ==
    Applied /\ want.on /\ ~missed /\ conn = "open" /\ sup \in {"login", "check", "reading"}
        => sentFilter = want.filter

\* Stop ends whatever the supervisor is doing, except waiting for the answer of a
\* server that stays mute after the dial (igate.go:409-420).
MuteLogin == sup = "login" /\ conn = "open" /\ peer = "mute"
StopEndsUnlessMute == reload = "stopping" ~> (reload # "stopping" \/ MuteLogin)

\* An iGate that stays switched on is in a session with a server that answers again
\* and again, whatever the server did before: a silent server is left, a refused login
\* retried; unless the login of a mute server still holds it.  A watcher that always
\* runs late, after the next dial, ends one session after the other
\* (igate.go:440-457, client.go:143-150, 198-235).
StaysOn == Applied /\ want.on
Reconnects == <>[]StaysOn => []<>(connected /\ peer = "good") \/ <>[]MuteLogin
=============================================================================
