----------------------------- MODULE ModemBridge -----------------------------
(***************************************************************************)
(* The Go side of the modem (pkg/modembridge) and the part of the Rust     *)
(* child it drives over one socket: the supervisor that runs one session   *)
(* after another, requests matched to replies by number, and manual PTT    *)
(* with its watchdog, down to the line of the radio.  One channel.         *)
(***************************************************************************)
EXTENDS Naturals, Sequences, Functions, TLC

CONSTANTS
    Callers,   \* goroutines that make requests (EnumerateAudioDevices, ...)
    Clients,   \* browsers that post /api/channels/{id}/ptt, each one post at a time
    Workloads  \* bound: what may happen in one run, a set of counts of requests, posts,
               \* frames, reloads and faults (modems that crash or do not come up)

ASSUME BridgeAssumption ==
    \A w \in Workloads : w \in [{"calls", "posts", "frames", "reloads", "faults"} -> Nat]

VARIABLES
    bridge,   \* supervise, Run and runSession: where they are, and what they share
    closed,   \* the channels supervise's defers have closed
    modem,    \* the child process
    line,     \* the radio's PTT line: its level outlives the process
    down,     \* replies on their way to the bridge
    nextID, pending, call,      \* a dispatcher (of each number waited for, whether its reply has
                                \* come), and the goroutines that wait at it
    watch,    \* pttWatchdog: its entry, and the timers that have left it
    post,     \* of each client: where its post is
    reload,   \* where ReloadConfiguration is
    cut,      \* history: a driver was built while the frame on the air was playing
    left      \* the calls, posts, frames, reloads and faults that may still come

vars == <<bridge, closed, modem, line, down, nextID, pending, call, watch, post, reload, cut, left>>
requests == <<nextID, pending, call>>
manual == <<watch, post>>

Down == [phase |-> "down", wire |-> <<>>, jobs |-> <<>>, playing |-> FALSE,
         channel |-> FALSE, driver |-> FALSE]

Init ==
    /\ bridge = [pc |-> "top", state |-> "stopped", cancelled |-> FALSE,
                 sender |-> FALSE, open |-> FALSE, reader |-> FALSE]
    /\ closed = {}
    /\ modem = Down /\ line = FALSE /\ down = <<>>
    /\ nextID = 0 /\ pending = <<>>
    /\ call = [c \in Callers |-> [pc |-> "idle", id |-> 0]]
    /\ watch = [entry |-> "none", orphans |-> 0, fired |-> 0, unkeying |-> 0]
    /\ post = [c \in Clients |-> "idle"]
    /\ reload = "idle" /\ cut = FALSE
    /\ left \in Workloads

Make(what) == left[what] > 0 /\ left' = [left EXCEPT ![what] = @ - 1]
Fault == Make("faults")

\* sendIPC: the session's function, and a socket the modem has not closed.
CanSend == bridge.sender /\ modem.phase # "down"
Write(msg) == modem' = [modem EXCEPT !.wire = IF modem.phase = "up" THEN Append(@, msg) ELSE @]

-----------------------------------------------------------------------------
(* The supervisor: Run, runOnce, runSession, and supervise's defers.        *)

Goto(pc) == bridge' = [bridge EXCEPT !.pc = pc]
GotoState(pc, state) == bridge' = [bridge EXCEPT !.pc = pc, !.state = state]

Stop ==
    /\ ~bridge.cancelled
    /\ bridge' = [bridge EXCEPT !.cancelled = TRUE]
    /\ UNCHANGED <<closed, modem, line, down, requests, manual, reload, cut, left>>

RunLoop ==
    /\ bridge.pc = "top"
    /\ IF bridge.cancelled THEN GotoState("closing", "stopped")
                           ELSE GotoState("spawn", "starting")
    /\ UNCHANGED <<closed, modem, line, down, requests, manual, reload, cut, left>>

\* The child is up and accepts the connection; the sender is published at once.
Spawn ==
    /\ bridge.pc = "spawn" /\ ~bridge.cancelled
    /\ modem' = [Down EXCEPT !.phase = "up"] /\ down' = <<>>
    /\ bridge' = [bridge EXCEPT !.pc = "ready", !.sender = TRUE, !.open = TRUE]
    /\ UNCHANGED <<closed, line, requests, manual, reload, cut, left>>
SpawnFails ==
    /\ bridge.pc = "spawn"
    /\ (bridge.cancelled /\ UNCHANGED left) \/ Fault
    /\ Goto("reap")
    /\ UNCHANGED <<closed, modem, line, down, requests, manual, reload, cut>>

ReadModemReady ==
    /\ bridge.pc = "ready"
    /\ \/ modem.phase = "up" /\ GotoState("configuring", "configuring") /\ UNCHANGED left
       \/ Goto("over") /\ ((modem.phase = "down" /\ UNCHANGED left) \/ Fault)
    /\ UNCHANGED <<closed, modem, line, down, requests, manual, reload, cut>>

\* The channel's ConfigureAudio, ConfigureChannel and ConfigurePtt; its driver is what matters here.
pushConfiguration == Write([do |-> "ptt"])
Configure ==
    /\ bridge.pc = "configuring"
    /\ \/ /\ modem.phase # "down" /\ pushConfiguration
          /\ bridge' = [bridge EXCEPT !.pc = "running", !.state = "running", !.reader = TRUE]
       \/ (modem.phase = "down" \/ bridge.cancelled) /\ Goto("over") /\ UNCHANGED modem
    /\ UNCHANGED <<closed, line, down, requests, manual, reload, cut, left>>

SessionEnds ==
    /\ bridge.pc \in {"running", "draining", "drained"} /\ ~bridge.reader
    /\ Goto("over")
    /\ UNCHANGED <<closed, modem, line, down, requests, manual, reload, cut, left>>
SendShutdown ==
    /\ bridge.pc = "running" /\ bridge.cancelled
    /\ Goto("draining") /\ Write([do |-> "shutdown"])
    /\ UNCHANGED <<closed, line, down, requests, manual, reload, cut, left>>
DrainTimeout_Leaves ==
    /\ bridge.pc = "draining"
    /\ bridge' = [bridge EXCEPT !.pc = "over", !.open = FALSE]
    /\ UNCHANGED <<closed, modem, line, down, requests, manual, reload, cut, left>>
DrainTimeout ==
    /\ bridge.pc = "draining"
    /\ bridge' = [bridge EXCEPT !.pc = "drained", !.open = FALSE]
    /\ UNCHANGED <<closed, modem, line, down, requests, manual, reload, cut, left>>

\* runSession's and runOnce's defers; Wait returns once the child is gone.
SessionOver ==
    /\ bridge.pc = "over"
    /\ bridge' = [bridge EXCEPT !.pc = "reap", !.sender = FALSE, !.open = FALSE]
    /\ UNCHANGED <<closed, modem, line, down, requests, manual, reload, cut, left>>
Reap ==
    /\ bridge.pc = "reap" /\ modem.phase = "down"
    /\ IF bridge.cancelled THEN GotoState("closing", "stopped")
                           ELSE GotoState("backoff", "restarting")
    /\ UNCHANGED <<closed, modem, line, down, requests, manual, reload, cut, left>>
Backoff ==
    /\ bridge.pc = "backoff"
    /\ IF bridge.cancelled THEN GotoState("closing", "stopped") ELSE Goto("top")
    /\ UNCHANGED <<closed, modem, line, down, requests, manual, reload, cut, left>>

CloseReplies_ForgetsOnly ==
    /\ bridge.pc = "closing" /\ closed = {}
    /\ closed' = {"replies"} /\ pending' = <<>>
    /\ UNCHANGED <<bridge, modem, line, down, nextID, call, manual, reload, cut, left>>
\* The channels close in the order of the defers; closing the replies frees their callers.
CloseReplies ==
    /\ bridge.pc = "closing" /\ closed = {}
    /\ closed' = {"replies"} /\ pending' = <<>>
    /\ call' = [c \in Callers |-> IF call[c].pc \in {"send", "wait"} /\ call[c].id \in DOMAIN pending
                                  THEN [call[c] EXCEPT !.pc = "idle"] ELSE call[c]]
    /\ UNCHANGED <<bridge, modem, line, down, nextID, manual, reload, cut, left>>
CloseEvents ==
    /\ bridge.pc = "closing" /\ closed = {"replies"}
    /\ closed' = closed \cup {"dcd", "frames"} /\ Goto("stopped")
    /\ UNCHANGED <<modem, line, down, requests, manual, reload, cut, left>>

-----------------------------------------------------------------------------
(* ipcLoop.Run, and the requests (requests.go, dispatcher.go).              *)

\* dispatchIPC and Deliver: the reply of a number nobody waits at is dropped.
ReaderDelivers ==
    /\ bridge.reader /\ bridge.open /\ down # <<>>
    /\ down' = Tail(down)
    /\ pending' = IF Head(down) \in DOMAIN pending THEN [pending EXCEPT ![Head(down)] = TRUE] ELSE pending
    /\ UNCHANGED <<bridge, closed, modem, line, nextID, call, manual, reload, cut, left>>
ReaderEnds ==
    /\ bridge.reader
    /\ ~bridge.open \/ (modem.phase # "up" /\ down = <<>>)
    /\ bridge' = [bridge EXCEPT !.reader = FALSE]
    /\ UNCHANGED <<closed, modem, line, down, requests, manual, reload, cut, left>>

At(c, pc) == call[c].pc = pc
CallAt(c, pc) == call' = [call EXCEPT ![c].pc = pc]
Forget(id) == pending' = RestrictDomain(pending, LAMBDA i : i # id)

CheckState(c) ==
    /\ At(c, "idle") /\ bridge.state = "running" /\ Make("calls")
    /\ call' = [call EXCEPT ![c] = [pc |-> "register", id |-> 0]]
    /\ UNCHANGED <<bridge, closed, modem, line, down, nextID, pending, manual, reload, cut>>
\* After Close the channel that comes back is closed, and nothing can be sent either.
Register(c) ==
    /\ At(c, "register")
    /\ IF "replies" \in closed
       THEN CallAt(c, "idle") /\ UNCHANGED <<nextID, pending>>
       ELSE /\ nextID' = nextID + 1 /\ pending' = (nextID + 1 :> FALSE) @@ pending
            /\ call' = [call EXCEPT ![c].pc = "send", ![c].id = nextID + 1]
    /\ UNCHANGED <<bridge, closed, modem, line, down, manual, reload, cut, left>>
SendRequest(c) ==
    /\ At(c, "send")
    /\ IF CanSend
       THEN /\ Write([do |-> "request", id |-> call[c].id])
            /\ CallAt(c, "wait") /\ UNCHANGED pending
       ELSE CallAt(c, "idle") /\ Forget(call[c].id) /\ UNCHANGED modem
    /\ UNCHANGED <<bridge, closed, line, down, nextID, manual, reload, cut, left>>
TakeReply(c) ==
    /\ At(c, "wait") /\ call[c].id \in DOMAIN pending /\ pending[call[c].id]
    /\ CallAt(c, "idle") /\ Forget(call[c].id)
    /\ UNCHANGED <<bridge, closed, modem, line, down, nextID, manual, reload, cut, left>>
CallTimesOut(c) ==
    /\ At(c, "wait")
    /\ CallAt(c, "idle") /\ Forget(call[c].id)
    /\ UNCHANGED <<bridge, closed, modem, line, down, nextID, manual, reload, cut, left>>

-----------------------------------------------------------------------------
(* Manual PTT and its watchdog, transmissions and reloads.                  *)

\* onKey arms or resets the timer of the entry, fired or not; onUnkey stops it.
onKey == watch' = [watch EXCEPT !.entry = "armed"]
onUnkey == watch' = [watch EXCEPT !.entry = "none"]

\* ManualPttWithWatchdog sends first and arms afterwards.
PostSends(c) ==
    /\ post[c] = "idle" /\ Make("posts")
    /\ \E do \in {"key", "unkey"} :
        IF CanSend THEN Write([do |-> do]) /\ post' = [post EXCEPT ![c] = do]
                   ELSE UNCHANGED <<modem, post>>
    /\ UNCHANGED <<bridge, closed, line, down, requests, watch, reload, cut>>
PostArms(c) ==
    /\ post[c] # "idle" /\ post' = [post EXCEPT ![c] = "idle"]
    /\ IF post[c] = "key" THEN onKey ELSE onUnkey
    /\ UNCHANGED <<bridge, closed, modem, line, down, requests, reload, cut, left>>

\* A timer that expires starts timerFire in a goroutine of its own.
TimerExpires ==
    /\ \/ watch.entry = "armed"
          /\ watch' = [watch EXCEPT !.entry = "spent", !.fired = @ + 1]
       \/ watch.orphans > 0
          /\ watch' = [watch EXCEPT !.orphans = @ - 1, !.fired = @ + 1]
    /\ UNCHANGED <<bridge, closed, modem, line, down, requests, post, reload, cut, left>>
\* timerFire deletes whatever entry there is: a timer that was reset runs on without one.
FireDeletes ==
    /\ watch.fired > 0
    /\ watch' = [entry |-> "none", fired |-> watch.fired - 1, unkeying |-> watch.unkeying + 1,
                 orphans |-> watch.orphans + (IF watch.entry = "armed" THEN 1 ELSE 0)]
    /\ UNCHANGED <<bridge, closed, modem, line, down, requests, post, reload, cut, left>>
FireUnkeys ==
    /\ watch.unkeying > 0 /\ watch' = [watch EXCEPT !.unkeying = @ - 1]
    /\ IF CanSend THEN Write([do |-> "unkey"]) ELSE UNCHANGED modem
    /\ UNCHANGED <<bridge, closed, line, down, requests, post, reload, cut, left>>

SendTransmitFrame ==
    /\ CanSend /\ Make("frames") /\ Write([do |-> "tx"])
    /\ UNCHANGED <<bridge, closed, line, down, requests, manual, reload, cut>>

ReloadConfiguration ==
    /\ \/ /\ reload = "idle" /\ bridge.state = "running" /\ Make("reloads")
          /\ reload' = "push" /\ UNCHANGED modem
       \/ /\ reload = "push" /\ reload' = "idle" /\ UNCHANGED left
          /\ IF CanSend THEN pushConfiguration ELSE UNCHANGED modem
    /\ UNCHANGED <<bridge, closed, line, down, requests, manual, cut>>

-----------------------------------------------------------------------------
(* The modem: handle_ipc on one thread, the transmit worker on another.     *)

build_driver_KeepsLevel ==
    /\ line' = line /\ cut' = (cut \/ modem.playing)
    /\ modem' = [modem EXCEPT !.wire = Tail(@), !.channel = TRUE, !.jobs = Append(@, "driver")]
\* build_driver unkeys the line on the IPC thread; the worker gets the driver in its turn.
build_driver ==
    /\ line' = FALSE /\ cut' = (cut \/ modem.playing)
    /\ modem' = [modem EXCEPT !.wire = Tail(@), !.channel = TRUE, !.jobs = Append(@, "driver")]
Refuse(m) == m.do = "tx" /\ ~modem.channel

handle_ipc ==
    /\ modem.phase = "up" /\ modem.wire # <<>>
    /\ LET m == Head(modem.wire)
       IN  \/ m.do = "ptt" /\ build_driver /\ UNCHANGED down
           \/ /\ m.do \in {"key", "unkey", "tx"}
              /\ modem' = [modem EXCEPT !.wire = Tail(@),
                                        !.jobs = IF Refuse(m) THEN @ ELSE Append(@, m.do)]
              /\ UNCHANGED <<line, cut, down>>
           \/ /\ m.do = "request" /\ down' = Append(down, m.id)
              /\ modem' = [modem EXCEPT !.wire = Tail(@)] /\ UNCHANGED <<line, cut>>
           \/ /\ m.do = "shutdown" /\ modem' = [modem EXCEPT !.phase = "leaving", !.wire = <<>>]
              /\ UNCHANGED <<line, cut, down>>
    /\ UNCHANGED <<bridge, closed, requests, manual, reload, left>>
PeerDisconnected ==
    /\ modem.phase = "up" /\ modem.wire = <<>> /\ ~bridge.open
    /\ modem' = [modem EXCEPT !.phase = "leaving"]
    /\ UNCHANGED <<bridge, closed, line, down, requests, manual, reload, cut, left>>

Working_WhilePlaying == modem.phase = "up" /\ modem.jobs # <<>>
Working == modem.phase = "up" /\ ~modem.playing /\ modem.jobs # <<>>
\* A driver that is replaced is dropped: CM108 and GPIO drivers unkey then, serial ones do not.
InstallDriver ==
    /\ Working /\ Head(modem.jobs) = "driver"
    /\ modem' = [modem EXCEPT !.jobs = Tail(@), !.driver = TRUE]
    /\ line' = line \/ (modem.driver /\ line' = FALSE)
    /\ UNCHANGED <<bridge, closed, down, requests, manual, reload, cut, left>>
ManualKey ==
    /\ Working /\ Head(modem.jobs) \in {"key", "unkey"}
    /\ modem' = [modem EXCEPT !.jobs = Tail(@)]
    /\ line' = IF modem.driver THEN Head(modem.jobs) = "key" ELSE line
    /\ UNCHANGED <<bridge, closed, down, requests, manual, reload, cut, left>>
\* process_job and drive_tx_cycle: key, play, and unkey at the end.
PlayBegins ==
    /\ Working /\ Head(modem.jobs) = "tx"
    /\ modem' = [modem EXCEPT !.jobs = Tail(@), !.playing = modem.driver]
    /\ line' = (line \/ modem.driver)
    /\ UNCHANGED <<bridge, closed, down, requests, manual, reload, cut, left>>
PlayEnds ==
    /\ modem.playing /\ modem' = [modem EXCEPT !.playing = FALSE]
    /\ line' = FALSE /\ cut' = FALSE
    /\ UNCHANGED <<bridge, closed, down, requests, manual, reload, left>>

\* A modem that leaves joins its worker, and drops the drivers and the ports.
ModemExits ==
    /\ modem.phase = "leaving" /\ ~modem.playing
    /\ modem' = Down /\ line' = FALSE
    /\ UNCHANGED <<bridge, closed, down, requests, manual, reload, cut, left>>
\* One that is killed drops nothing: what the line does depends on the device.
Dies == modem.phase # "down" /\ modem' = Down /\ line' \in {FALSE, line} /\ cut' = FALSE
Crash ==
    /\ Dies /\ Fault
    /\ UNCHANGED <<bridge, closed, down, requests, manual, reload>>
\* exec.CommandContext kills the child as soon as the context ends, terminateChild later.
Kill ==
    /\ bridge.cancelled \/ bridge.pc = "reap"
    /\ Dies
    /\ UNCHANGED <<bridge, closed, down, requests, manual, reload, left>>

Supervisor == \/ RunLoop \/ Spawn \/ SpawnFails \/ ReadModemReady \/ Configure \/ SessionEnds
              \/ SendShutdown \/ DrainTimeout \/ SessionOver \/ Reap \/ Backoff
              \/ CloseReplies \/ CloseEvents
Reader == ReaderDelivers \/ ReaderEnds
Caller(c) == Register(c) \/ SendRequest(c) \/ TakeReply(c)
Worker == InstallDriver \/ ManualKey \/ PlayBegins \/ PlayEnds
Next == \/ Stop \/ Supervisor \/ Reader
        \/ \E c \in Callers : CheckState(c) \/ Caller(c) \/ CallTimesOut(c)
        \/ \E c \in Clients : PostSends(c) \/ PostArms(c)
        \/ TimerExpires \/ FireDeletes \/ FireUnkeys
        \/ SendTransmitFrame \/ ReloadConfiguration
        \/ handle_ipc \/ PeerDisconnected \/ Worker \/ ModemExits \/ Crash \/ Kill

Spec == Init /\ [][Next]_vars
\* Goroutines and threads go on, timers expire and what is to be killed dies.  Nobody has
\* to stop the bridge, and no request relies on its own timeout.
FairSpec ==
    /\ Spec /\ WF_vars(Supervisor) /\ WF_vars(Reader)
    /\ \A c \in Callers : WF_vars(Caller(c))
    /\ \A c \in Clients : WF_vars(PostArms(c))
    /\ WF_vars(TimerExpires) /\ WF_vars(FireDeletes) /\ WF_vars(FireUnkeys)
    /\ WF_vars(handle_ipc) /\ WF_vars(PeerDisconnected) /\ WF_vars(Worker)
    /\ WF_vars(ModemExits) /\ WF_vars(Kill)

-----------------------------------------------------------------------------
TypeOK ==
    /\ bridge \in [pc : {"top", "spawn", "ready", "configuring", "running", "draining", "drained",
                         "over", "reap", "backoff", "closing", "stopped"},
                   state : {"starting", "configuring", "running", "restarting", "stopped"},
                   cancelled : BOOLEAN, sender : BOOLEAN, open : BOOLEAN, reader : BOOLEAN]
    /\ bridge.sender = (bridge.pc \in {"ready", "configuring", "running", "draining", "drained", "over"})
    /\ closed \subseteq {"replies", "dcd", "frames"}
    /\ modem.phase \in {"down", "up", "leaving"} /\ line \in BOOLEAN /\ cut \in BOOLEAN
    /\ nextID \in Nat
    /\ DOMAIN pending = {call[c].id : c \in {d \in Callers : call[d].pc \in {"send", "wait"}}}
    /\ call \in [Callers -> [pc : {"idle", "register", "send", "wait"}, id : 0 .. nextID]]
    /\ watch \in [entry : {"none", "armed", "spent"}, orphans : Nat, fired : Nat, unkeying : Nat]
    /\ post \in [Clients -> {"idle", "key", "unkey"}] /\ reload \in {"idle", "push"}
    /\ left \in [{"calls", "posts", "frames", "reloads", "faults"} -> Nat]

\* Nothing is sent on a channel that has been closed: supervise's defers run after the
\* reader of the last session has gone (bridge.go:219-228, session.go:79-91,
\* dispatcher.go:76-78).
NoClosedSend == bridge.reader => closed = {}

\* A frame is on the air under a keyed line, whatever posts and watchdog do meanwhile;
\* only a driver built for the channel at that moment cuts it off (tx_worker.rs:8-19,
\* ptt.rs:636-643).
TxUncut == modem.playing => line \/ cut

\* Stop ends the bridge and frees every caller, without waiting for their timeouts
\* (bridge.go:179-191, 219-228).
StopEnds == bridge.cancelled ~> (bridge.pc = "stopped" /\ \A c \in Callers : At(c, "idle"))

\* The radio does not stay keyed once posts and frames have ceased, through crashes of the
\* modem, unless the bridge is stopped (ptt_watchdog.go:9-16, bridge.go:314-328).
NotStuck == <>(bridge.pc = "stopped") \/ <>[]~line
=============================================================================
