# graywolf in TLA+

graywolf is a software TNC and APRS station: a Rust process
(`graywolf-modem`) demodulates and keys radios, and a Go process routes AX.25
frames between the radios, KISS and AGW clients, the digipeater, the iGate,
beacons, APRS messages and connected-mode (LAPB) terminal sessions. This
directory holds specifications of its concurrent parts, TLC configurations that
check them on small instances, and proofs checked by TLAPS for all instances.

Paths below are relative to the repository; `pkg/...` is `src/pkg/...` in
`PROJECT.json`.

## 1. Inventory

| Component | State it keeps | Operations | Talks to |
|---|---|---|---|
| **ax25conn session** (`pkg/ax25conn`) | LAPB variables V(S), V(R), V(A), retry count, conditions, retransmit slots, `txBuf`, five timers, `pendingTimers`, `terminated` | one handler per state for frames, operator events and timer expiries; `kick`, requeue, release, cleanup | operator (terminal bridge) through a bounded channel; TX governor; observer callback |
| **ax25conn manager** (`manager.go`) | sessions by address triple and by id, per-operator counts | `Open`, `Dispatch(Raw)`, `remove`, `Close` | RX fan-out, terminal bridge |
| **TX governor** (`pkg/txgovernor`) | heap of frames, dedup window, per-channel rate windows and carrier state | `Submit`, `processOne`, `dcdWatcher`, `Run` | every sender of frames; dispatcher; modem bridge |
| **carrier detection path** (`graywolf-modem/src/demod_afsk.rs`, `modem/mod.rs`, `modembridge/dcd_publisher.go`) | detect bit per slicer, bounded event channel per subscriber | report changes, publish, subscribe | governor |
| **TX dispatcher** (`pkg/app/txbackend`) | snapshot of backends per channel, a wake channel of one | `Send`, `SkipCSMA`, the watcher that rebuilds | governor, modem bridge, KISS queues |
| **modem bridge** (`pkg/modembridge`) and the modem's TX worker (`graywolf-modem/src/modem/tx_worker.rs`, `tx/ptt.rs`) | child process, socket, pending requests by number, status cache, PTT watchdog entries; the PTT line | spawn, configure, reconfigure, request/reply, manual PTT, restart with back-off, `Stop` | Rust modem, everything that needs it |
| **messages** (`pkg/messages`) | message rows (SQLite), in-flight set, pending map of frames handed to the governor | send, retry with back-off, ack/rej, resend, cancel | governor + its hook, iGate, router |
| **iGate** (`pkg/igate`) | saved configuration, client and supervisor, TCP session, login, connected flag | save, reload, reconfigure, `Stop`, dial, login, read, keepalive, gating | APRS-IS, governor |
| **digipeater** (`pkg/digipeater`) | engine settings, rules, block list, duplicate window keyed with the path | `Handle`, the setters, reload | governor, other digipeaters |
| **beacon scheduler** (`pkg/beacon`) | heap of due times, a pool of workers, GPS cache | `Run`, `fireAsync`, `Reload`, `SendNow` | governor, iGate |
| **KISS** (`pkg/kiss`) | running servers/clients/serial ports, transmit queue per TNC | start, stop, reconnect, enqueue, drain | clients, RX fan-out, dispatcher |
| **AGW** (`pkg/agw`), **terminal bridge** (`pkg/ax25termws`) | per-client registrations, outbound queue | protocol handlers | governor, ax25conn |
| **actions** (`pkg/actions`) | window of copies, queue and rate window per action, one worker each | classify, submit, run, `Stop` | messages, RX fan-out, iGate |
| **the rest** (`aprs`, `stationcache`, `historydb`, `configstore`, `webapi`, `gps`, maps, logs, updates, Android, web) | caches, tables, UI | parsing, CRUD, rendering | – |

What is hard, and what has to hold:

* *ax25conn*. Timer goroutines set bits in an atomic word while the run loop
  drains frames and operator events; any frame may come at any time, with any
  number, in any state. The window must be respected, the operator's bytes kept
  once and in order until acknowledged, every lost answer noticed by a timer,
  every retry bounded, and the end of the session told exactly once.
* *governor*. Callers of `Submit` run against a worker that decides under the
  lock, releases it, and pops under the lock again. Frames must leave once, best
  first, within the limits; a refused frame must stay retryable; a quiet channel
  must drain.
* *carrier detection*. Changes are reported once, through a channel that drops
  when it is full, by a process that may die. The governor's idea of the carrier
  must be the modem's.
* *messages*. Five goroutines read, change and save one row: an ack must win
  over a retry, attempts must be counted once, and a retry must end.
* *KISS egress*. A save replaces an interface in several unlocked steps while a
  watcher publishes snapshots and the governor sends on one it took before.
* *modem bridge*. Replies, timeouts, the watchdog's timers, reloads and the death
  of the child meet on one session; the PTT line outlives the process.
* *iGate*. A save reaches the session through a channel that coalesces, two
  setters and a socket that is closed to make the client dial again.
* *digipeater*. Stations hear each other's copies, and nothing but the rewritten
  path makes a frame die; a reload changes the engine one setter at a time.
* *beacons and actions*. Pools and queues at their limits, saves that coalesce,
  copies of one message on two goroutines, `Stop` in between.

`PROJECT.json` lists the hazards at the lines where they bite.

## 2. Modules

| Module | What it is |
|---|---|
| `Ax25Lapb` | the LAPB machine as operators on a session record: what every state handler and helper does to a session |
| `Ax25Session` | one session: timers, `pendingTimers`, drain loop, operator, any peer; properties |
| `MCAx25Session` | the view TLC takes of a session in `session_data`, and a bound on its heartbeat |
| `Ax25SessionProofs` | type correctness and five safety theorems, one lemma per helper and handler |
| `TxScheduler` | the abstract promise of the governor: atomic, best first, limited |
| `TxGovernor` | the governor: `Submit`, the worker's two critical sections, windows, shutdown; properties |
| `MCTxGovernor` | traffic and limits for TLC |
| `TxPath` | `TxGovernor` composed with slicers, publisher and modem restarts |
| `TxPathProofs` | the governor's safety theorems and its refinement; that the path implements the governor, and a safety theorem of the path |
| `MCTxPath` | instances for TLC |
| `MessageRetry`, `MessageRetryProofs` | one outbound message row under its five goroutines and a restart; five safety theorems |
| `IgateSession`, `IgateSessionProofs` | the APRS-IS session, its supervisor, and saves on their way to it; types and two safety theorems |
| `KissEgress` | one KISS interface row: config writes, supervisor, transmit queue, dispatcher's snapshot |
| `ModemBridge`, `MCModemBridge`, `ModemBridgeProofs` | the bridge's supervisor and session, requests, manual PTT, and the modem's line; two safety theorems |
| `BeaconScheduler`, `MCBeaconScheduler` | the beacon loop, its workers, and saves on their way to it |
| `ReloadProofs` | what a save brings about: a safety theorem of `KissEgress` and two of `BeaconScheduler` |
| `ActionRunner`, `MCActionRunner`, `ActionRunnerProofs` | the classifier's window, one action's queue and worker, `Stop`; types and three safety theorems |
| `Digipeater`, `MCDigipeater`, `DigipeaterProofs` | stations that digipeat for each other; reloads; two safety theorems |

No module uses a RECURSIVE operator. `TxPath` extends `TxGovernor`, which
implements `TxScheduler`; the other components meet the governor or the store
through choices of their environment (a send is taken, refused or lost; a read
of the store succeeds or fails), so that each is checked against everything its
neighbours may do.

### ax25conn

The session's fields are the fields of the record `s` (V(S) is `s.vs`, and so
on). `s.tx` holds the frames the handler of the last event submitted,
`s.closed`, `s.err` and `s.shown` what the observer was told. Payload bytes are
numbered in the order the operator typed them, and a byte slice is a stretch
`[lo, hi]` of that stream: `s.head` and `s.tail` delimit `txBuf`, a slot
`s.pending[n]` is the stretch carried by the I-frame numbered `n`. That keeps
order, loss and duplication of data visible without any bytes.

Each state handler of the code is one operator (`ConnectedFrame`,
`TimerRecoveryFrame`, ...), with the early returns of the Go code as
alternatives and the trailing `kick` applied by `Handled`. `Run` is `SwapPending` (the atomic swap of
`pendingTimers`), one action per bit in the order the loop tests them, and one
action per event of the input channel, which is read only when no bit is left.
`TimerFires` is the `AfterFunc` callback.

Abstractions, and what they leave out:

* The input channel is not a variable. A frame may come at any time, so every
  order the channel can produce is there, and an event the channel drops is one
  that does not come. What is lost is that a frame is decoded with the modulus
  of the moment it was *put* on the channel (a hazard no property covers).
* A timer has no duration, only "armed"; round-trip estimates and back-off are
  left out. A timer's callback sets its bit in the step that disarms it, where
  the code has an instant in between, and a bit that a restarted timer left
  behind is handled anyway, as in the code.
* `CondOwnRxBusy` is never set by any code and is not modelled.
* The loops are written in closed form: the number of I-frames `kick` sends
  (`Burst`), the slots `framesAcked` frees, and the slots the requeue loop looks at
  (`Visits`), which in a rebind steps by the new modulus over numbers of the old one
  and may leave frames behind or pick up old ones from slots nobody cleared. Then
  the bytes are no longer one stretch of the stream: `torn` is set, and the rest is
  numbered anew, so that their amount is right and their origin is not kept.
* A frame's command bit or P/F bit is fixed where no handler reads it (UA, DM,
  FRMR) or where a frame with the other value does what another kind of frame
  does already (an I response).
* Moduli 2 and 4, 4 and 5, or 4 and 8 stand for 8 and 128, so that wrap-around happens
  within a few frames. The operators and the type theorem have them as
  parameters.

### TX governor

`q` is the set of heap items; the only thing the code reads of the heap is its
top, which is `IsTop`. `seen` is the set of keys in the dedup window; time is
the action `Expire`. `oneMin` and `fiveMin` are the counts of the sliding
windows; a send leaves the first before it leaves the second. `pc` says where
the worker is: `Decide` is the first critical section of `processOne` when it
ends in a decision to send (a held-back head changes nothing the model keeps),
`Pop` and `HeadChanged` are the second, `Sent` and `SendFails` the part without
the lock. A duplicate and a refused frame change nothing but counters, so they
are not steps. The worker's ticker makes the `wake` channel a matter of latency.
The p-persistence roll is a choice: `Decide` may happen, and under fairness
eventually does. `Rate1MinLimit` is computed from the rows as the wiring does.

`KissOnly` (the dispatcher's `CsmaSkip`) and `FullDup` are constants; in the
code both can be changed while running. Hooks and statistics are left out.

### Carrier detection

`heard[c]` is the set of slicers of channel `c` whose detect bit is set; what
they hear is free. A demodulator that reports one bit per channel (PSK, the
AFSK ensemble) is the instance with one slicer. A change is published (`SlicerTurns`), may find the
subscriber's channel full (`dropped`), and is taken by the watcher. A new modem
process, or `StartAudio` in the running one, builds demodulators that start
with nothing detected and report only changes; a dying process also loses what
was on its socket (`feed` is cut to a prefix).

### Messages

`row` is the database row, `copy[g]` the copy goroutine `g` read and changes.
What a write is matters: `UpdateRetrySchedule` and `UpdateSentAtAndAckState`
touch single columns and skip deleted rows, gorm's `Save` writes every column of
a stale copy, `deleted_at` included. `SendWithPolicy` is one leg a step
(`RfAccepted`, `RfRefused`, `IsAccepted`, `IsRefused`, `MergeBoth`), followed by
what the caller does with the merged result. Refusals, the peer's answer, the
moment of the governor's hook and of a restart are choices. Time is left out: a
row that is scheduled may be due. Inbound messages, message ids, conversations,
preferences and invitations are not modelled.

### iGate

`sup` is where `supervise` and `client.run` are, `reload` where the goroutine
that applies saves is, `conn` and `peer` the two ends of the socket. The
goroutine that closes a session's socket on cancellation reads `c.conn` when it
runs (`stale`): it may close the next session's. The server may refuse, fall
silent, close or withdraw the login `MaxFaults` times. Gating in either
direction, the heard list and the lines a drainer writes are not modelled.

### KISS egress

`handler[h]` runs one config write to its end (save, take the old instance out
under the lock, stop and wait without it, insert, launch, notify), `inst[i]` is
one started instance with its supervisor, link, queue and writer, `watcher` the
dispatcher's rebuild in its three steps, `sender` the governor's `Send` between
the snapshot it took and the push. The client and the serial kind differ where
the code does: a serial writer ends without stopping its queue.

### Modem bridge

`bridge` holds `supervise`, `Run` and `runSession`; `closed` the channels the
deferred closes have closed; `modem` the child with its socket, job queue,
channel and driver; `line` the PTT line, which outlives it. A request registers a
number, sends, waits, and meets its reply or nothing; its own timeout is not
modelled, since no property may rely on it. `watch` is the watchdog: the entry,
and the timers that have fired and not yet deleted it or unkeyed. The Android
session over an existing socket, the status cache, a child that hangs without
exiting and a driver that cannot be built are left out.

### Beacons

A plan holds what is left of its wait and what has passed since its last send,
not times of day. `RunLoop` is `Run`, with `Peek` and `Pop` on the heap, `jobs` the
worker slots, `loader` the reload goroutine with the rows it has read, `owed` and
`signals` the saves on their way through two channels of one. Smart beaconing is
kept as a turn time and, with each fix, the interval of the curve at its speed:
between the two speeds that is `FastRate * FastSpeed / speed`, which just above
`SlowSpeed` may be longer than `SlowRate` (`smartbeacon.go:53`), so that the
bound on it, `LongestRate`, is a parameter of its own. `SendNow`, slot times,
first delays and the contents of a beacon are left out. The names of the state
machine (`BeaconInit`, `BeaconNext`, ...) differ from those of `KissEgress`, with
which it shares a module of proofs.

### Actions

`rx[r]` is a receiving goroutine inside `Classify` and `Submit`, with the row it
has read; `q` and `worker` are the action's queue and worker, `inline` what runs
without one at depth 0. The rate window is a flag, as only its last fire counts.
One-time passwords, the web test fire and the executors are left out.

### Digipeater

Several stations, each with the engine (`eng`), its duplicate window (`seen`), the
governor's window behind it (`gov`), the saved rows (`store`) and the goroutine
that reloads them (`reload`, one setter a step, as in `digipeaterComponent`).
`rx[n]` is `Handle` between its first critical section, where it copies the
callsign and the rules, and the test of the block list and the window, which
read the engine again. A path is a sequence of slots: an address (an alias with
its digit and the hops left, or a callsign) and its H bit. `Repeats` computes
what `Handle` sends: preemption by callsign first, then the first rule whose
channels and alias fit, passing over packet channels. `air` is the set of copies
on their way to a receiver; a copy carries, as history, the path it was first
sent with and the hops it has made. One payload a source stands for the payload
part of the keys. A refusal of the governor and a lost copy are `Forgo` and a
copy that is never admitted.

## 3. Runs

Every run ends within four minutes on two cores; most take seconds.

| Run | Question | Bounds |
|---|---|---|
| `session_data` | window and operator's stream of an open link under an arbitrary peer that changes its modulus at will; when the stream tears | moduli 4 and 2, windows 2 and 1, N2 = 1, 4 bytes in frames of up to 2; I, RR, REJ, SABM, SABME, DISC, DM, UA; T1, T2, heartbeat |
| `session_liveness` | set-up with its fall-back, release and silence end; an open link keeps a timer; the end is told once | moduli 5 and 4, N2 = 2, 1 byte; every kind of frame but I and SABME; T1, T3, statistics; a TX backend that comes and goes |
| `session_encode` | (violation) sequence numbers fit the control field | moduli 8 and 4, window 6 |
| `governor_queue` | safety and refinement of the governor | 3 frames of 4 kinds, 2 channels, queue of 2, limits 1 and 2 |
| `path` | the governor follows the carrier; quiet channels drain | 1 slicer, feed of 2, 3 changes, 2 frames, restarts and deaths at any time |
| `messages` | attempts are bounded and not wasted, an ack stands, the ladder ends | 2 attempts, every kind and policy, 1 Resend or delete, 1 restart |
| `igate` | flag, filter, `Stop`, reconnection | 2 filters, 3 saves, 3 faults of the server |
| `kiss` | one supervisor, fresh snapshot, saves return, frames settle | both kinds, queue of 1, 3 saves, 2 frames, 1 fault, one config write at a time |
| `bridge` | closed channels, frames uncut, `Stop`, the line released | 2 callers, 1 client, six workloads that combine requests, posts, frames, a reload and a crash |
| `beacons` | schedule follows the store, punctuality, no starvation | 2 beacons on 1 worker, intervals 3, 4 and 5 of the curve, turn time 2, up to 2 saves, failed reads |
| `actions` | one execution and one answer a message, honest rate window | 2 messages, 3 copies by 2 routes, 1 lapse of the window, 1 edit, `Stop` |
| `digi` | hops are bounded by the path; a blocked source stays silent | 2 stations that hear each other, 3 channels, 2 frames, paths of 3 slots, 1 save, 1 failed read, 1 lapse |

Why the bounds are enough. *Governor*: three frames are the least that fill a
queue of two and have one refused, and that reach the five-minute limit while
the one-minute window has emptied. *Session*: four bytes, typed one by one or
together, give full and partial frames, a full window, numbers that wrap round
either modulus, and, when a SABM narrows a wide link, V(S) beyond the narrow
modulus (the loop hangs) and V(S) wrapped below V(A) (the stream tears: with
V(A) = 2 and V(S) = 0 the loop looks at slot 2 and then at slot 1, and jumps over
3). A SABME that widens a link with wrapped numbers tears the stream from five
bytes on, beyond this run and within the proof. The peer's RNR meets frames in
flight in `session_liveness` only. `session_data` identifies states that differ
in the frames of the last event alone (`VIEW Identity`): every event starts from
none (`now`) and no property of the run reads them. The heartbeat, whose handler
arms it again or does nothing, expires there only on an open link with a stream of at
most one byte (`CONSTRAINT EarlyHeartbeat`). *Path*:
three changes overflow a feed of two, and two frames on one channel make the
second wait for the clock. *Messages*: two attempts are the least with a first
send and a retry; one Resend overlaps either. *iGate*: three saves let one come
in while another is applied and a third wait in the channel. *KISS*: three saves
give an instance, its replacement and a switch-off in any order; two frames fill
a queue of one while its writer is busy. *Bridge*: two callers are the least
that can have their replies confused, a post and a reload or crash can meet at
every step. *Beacons*: one worker for two beacons makes each find the pool busy.
*Actions*: two copies race, the third comes after the lapse; depths 0, 1 and 2.
*Digipeater*: two stations pass a frame A, B, A and use up a path of three; each
kind of rule, a bridge between channels, preemption and a full path occur.

`CHECK_DEADLOCK FALSE` is set everywhere because the systems really stop: a
session exits, a governor or bridge is closed, and the bounded environment runs
out of input.

### Properties

*Session.* `WindowRespected`: never more than the window in flight, and every
frame in flight is in its slot. `StreamConserved`: the slots between V(A) and
V(S) and then `txBuf` are the unacknowledged bytes, contiguous and in order,
whatever sequence of rejections, rebinds and timeouts, until a rebind tears the
stream. `TornOnlyByWrap`: only one that changes the modulus of a link whose
numbers have wrapped does. `NeverDeaf`: a link that
owes something, or waits for something, has a timer that will notice.
`ClosedOnce`; `ReleaseEnds`, `SetupEnds`, `SilenceNoticed`.

*Governor.* `RateCap`; `Conserved`: every accepted frame is queued, in hand,
handed over or lost, and only one of these; `NotPoisoned`: a refused frame is
never taken for a copy; `LeavesLikeScheduler`: it implements `TxScheduler`.

*Carrier.* `CarrierNeverMissed`, `QuietDrains`.

*Messages.* `OneSender`: the loop and a Resend never both send; `Budget`: an
order costs no more attempts than the ladder has, unless a Resend overtakes the
first send or a delete is under way; `GivesUpLate`: nor fewer;
`ClosedStays`: what the router has closed is not reopened by an accepted send;
`EnrolledSettles`: a row on the ladder comes to an end.

*iGate.* `ConnectedHonest`, `FilterApplied`, `StopEndsUnlessMute`, `Reconnects`.

*KISS.* `OneSupervisor`, `SnapshotFresh`, `StopReturns`, `AcceptedSettles`,
`Reopens`.

*Bridge.* `NoClosedSend`: nothing is sent on a closed channel; `TxUncut`: a frame
on the air has a keyed line; `StopEnds`: `Stop` ends and frees the callers;
`NotStuck`: the line does not stay keyed.

*Beacons.* `Fresh`, `Punctual`: no beacon is overdue, and a turn that has lasted
two polls is reported as soon as the turn time is over; `KeepsFiring`. *Actions.* `RunsOnce`,
`RateHonest`, `AnsweredOnce`. *Digipeater.* `HopBudget`: the hops a copy has
made and those its path still grants never exceed what its sender asked;
`BlockedSilent`: a source on every saved block list is never repeated, while a
reload replaces the list under frames that are being handled.

Every property of a passing run is paired in `PROJECT.json` with a plausible bug
of a modelled definition (the operators with a suffix, such as
`Pop_NoRecheck`) under which TLC finds it violated.

### Fairness

* Goroutines and threads that can go on do: weak fairness of each (`Drain`,
  `Loader`, `Supervisor`, `Handler`, `Worker`, ...), because the Go and OS
  schedulers run what is ready. Operators, peers, servers and callers have none;
  nobody has to stop anything.
* Timers that stay armed expire: T1 and T3 of a session, the watchdog, the
  keepalive, the beacon loop's timer. A timer restarted for ever would not
  expire; the session's properties are about states in which nobody restarts it.
* What has a deadline ends: a dial (`dialTimeout`), a KISS write (its write
  deadline), an executor (its timeout), a child that is to be killed. A login
  read has no deadline in the code, and so no fairness: that is where
  `StopEndsUnlessMute` and `Reconnects` stop short.
* Governor (in `TxPath`): strong fairness of `Decide`, because the ticker calls
  `processOne` every 50 ms and each call rolls the p-persistence dice anew,
  which succeeds with a fixed probability of at least 1/256. Higher-priority
  frames could delay a frame for ever; the bound on the number of frames
  excludes that, and the documentation promises nothing about it.
* Messages: strong fairness of an RF send that is accepted, for a queue that is
  full again and again has room at times.

## 4. Disagreements and limits found

One run ends in a counterexample to what a comment and the wiki say:
`session_encode` – mod-128 links send mod-8 control fields; numbers above 7 are
refused by the encoder after the session has counted them as sent.

What follows was read in the code while modelling, and the properties say where
they stop short of it.

*ax25conn.*

* TIMER_RECOVERY can be left with everything acknowledged and neither T1 nor T3:
  the inactivity probe never comes (`SilenceNoticed` leaves it out: `Parked`).
* A SABM on a mod-128 link with frames in flight and V(S) >= 8 hangs the session
  goroutine in the requeue loop (`hung`; properties of open sessions say nothing of
  it), for the modulus is set first (`transitions_connected.go:26`) and the loop
  steps by it (`262`).
* For the same reason a SABM with V(A) > V(S), V(S) < 8, loses bytes: from V(A) = 126
  and V(S) = 2 the loop looks at slots 126, 7, 0 and 1, and jumps over 127, although
  the comments say "requeue pending I-frames so kick re-sends them under fresh
  numbers" (`23-25`) and "prepends pending[VA..VS-1] back onto txBuf" (`256`). A
  frame that an earlier rebind left in slot 7 would be sent again. A SABME on a mod-8
  link whose numbers have wrapped (V(A) = 6, V(S) = 1) goes on to slots 8 to 127 and
  puts what a narrowing left there in front of the frames in slot 0. `torn` marks
  these streams; `StreamConserved` leaves them out and `TornOnlyByWrap` says that
  there are no others.
* A duplicate UA re-establishes the link and forgets unacknowledged frames;
  bytes still in `txBuf` wait for the next event, for the UA does not `kick`
  (`transitions_awaiting_connection.go:42`).
* The heartbeat stops for good if it expires during set-up (`heartbeat.go:20`),
  though `session.go:380` says that it re-arms itself unconditionally.
* A window equal to the modulus, which the connect form allows, makes a full
  window count as an empty one (`transitions_connected.go:188`). `applyDefaults`
  (`session.go:59`) fills in a window of 0 and bounds none: `WindowRespected` and
  `StreamConserved` hold only below the modulus.

*Governor and carrier.*

* One heap for all channels: a busy channel's frame holds back the frame of a
  KISS-only one (`governor.go:408`).
* The first non-zero rate limit of the rows applies to every channel
  (`wiring.go:442`), where the handbook speaks of limits per channel.
* With several slicers, the first that loses the carrier clears the channel; a
  modem that dies while it detects one leaves the channel busy for the governor
  until the next report (`silent` in `QuietDrains`).
* The dedup window starts at `Submit`, and `DedupKey` ignores the control field:
  AGW raw frames (`agw/server.go:429`) may be taken for each other.

*Messages.*

* A row whose process died before it was enrolled has no `next_retry_at`, and
  `ListRetryDue` (`store.go:658`) never returns it, though `retry.go:123` counts
  on the restart to pick it up.
* A whole-row `Save` of a stale copy, after a refused send or an APRS-IS send,
  may reopen an acked row or bring a deleted one back.
* The first send's goroutine counts attempt 1 even when the queue was full, and
  is outside the in-flight map: a Resend may overtake it (`overtaken`). A Resend
  starts from zero and so gets one attempt more.
* `CancelRetry` saves the row it read, with the attempts it read: attempts made
  between its read and its Save are forgotten, so a row that is being deleted may
  cost more than the ladder has. `Budget` leaves these two cases out; with them it
  is false from `MaxAttempts = 3` on.

*iGate.*

* The login is read without a deadline and before the goroutine that closes the
  socket exists: a mute server holds `Stop`, and with it the reload goroutine
  (`igate.go:409`, `client.go:274`).
* A `Reconfigure` between `newClient`'s copy and the assignment of `ig.client`
  loses the new filter (`igate.go:431`, `839`; `missed`).
* A context watcher that runs late closes the next session's socket
  (`client.go:143-150`).

*KISS.*

* Two config writes for one row at a time may start two supervisors: `Start*`
  releases the lock while it stops the old instance and does not look again
  (`manager.go:418`, against its comment at 263). With two elements in
  `Handlers`, `kiss.cfg` shows `OneSupervisor` violated.
* A serial writer ends without stopping its queue, and `Enqueue` tests `stopped`
  before it pushes (`tx_queue.go:103`): a frame accepted then is lost.
* The errors of `kiss` and of `txbackend` for a backend that is down are
  different values, so that the outcome is recorded as "err".

*Modem bridge.*

* With two clients whose posts overlap, a heartbeat's key may be sent after
  another's release and keep the line keyed until its watchdog; an expiring
  timer deletes whatever entry is there. `NotStuck` is checked with one client.
* A driver that a reload builds unkeys in the middle of a frame (`cut`), the end
  of a frame unkeys a manual hold, and a replaced serial driver leaves the old
  line keyed.
* Reply channels and status cache are reset once per `Start`
  (`bridge.go:198-209`), where `ptt_watchdog.go:58-60` and `dispatcher.go:8-11`
  speak of every restart.

*Beacons.*

* A failed `ListBeacons` unschedules every beacon until the next save, and a failed
  read of the smart-beacon settings turns smart beaconing off until then
  (`wiring.go:2548-2566`; `failed`).
* The time of the last beacon is set although the pool dropped it
  (`scheduler.go:210`), so that a tracker waits a whole interval; with more
  beacons due at once than workers, the same ones may be dropped every time.
* A change of the station callsign does not signal the beacons.
* Between the two speeds of the curve the interval may exceed `SlowRate`: with the
  defaults, 2160 s just above 5 knots instead of 1800 s (`smartbeacon.go:53`).

*Actions.*

* A queue depth of 0, which the form allows, runs every invocation at once and
  skips the rate window (`webapi/actions.go:274`), contrary to the handbook
  (`actions.html:688`); with it a `Submit` past the closed check still runs after
  `Stop`.
* Messages without an id bypass the window of copies, and each copy refreshes it.

*Digipeater.*

* The handbook (`digipeater.html`, "dedupe window") says that a packet with the
  same source, destination and text is dropped; the key includes the path
  (`frame.go:297-320`), so a station's own repeats, sent on by its neighbours,
  are taken again. What limits them is the governor's key, which ignores path
  and channel (`frame.go:287`) and so also eats the copies by another path that
  `digipeater.go:313-315` wants to keep.
* A block list that cannot be read counts as empty while the engine stays enabled
  (`wiring.go:2443-2449`): `BlockedSilent` excuses it (`failed`).
* A change of the station callsign does not signal the digipeater
  (`station_config.go:150-160`), which goes on under the old one.
* Every duplicate refreshes the window (`dedup.go:76-92`): what is repeated more
  often than the window is long is never digipeated again. The key is recorded
  even when no rule fits or the governor refuses.

## 5. Proofs

TLAPS checks, for every value of the constants that satisfies the named
assumptions of the modules:

* `TypeCorrect` (`Ax25SessionProofs`): `Spec => []TypeOK`. One lemma per helper
  says that it maps a session to a session; the handlers compose them; the
  theorem has one step per action. The assumptions are on the moduli and the
  configuration (`ModuliAssumption`, `ConfigAssumption`, `RunAssumption`).
* `NeverLeftDeaf` and `ToldOnce` (same module), from one invariant, `LifeInv`.
  Each helper and handler has a second lemma, for what it keeps: either nothing
  that matters here changes (`Same`), or the result is `Sound`: a session in the
  middle of its life with a timer for what it waits for (`Begun`, `Watched`), or
  one that is over and told once (`Ended`). `Watched` is stronger than
  `NeverDeaf` in two ways: it speaks of V(S) # V(A) instead of the number of
  frames outstanding, which spares this proof the arithmetic of the modulus, and
  it counts an expiry that waits for `Run`, in the swapped word or in
  `pendingTimers`, as good as a running timer. A hung session is excepted.
* `WindowHolds`, `StreamHolds` and `TornRarely` (same module): `WindowRespected`,
  `StreamConserved` and `TornOnlyByWrap`, under the hypothesis `WindowFits`, that the configured window
  is below the modulus it is configured with; the windows the code falls back on
  are. The invariant `Kept` says that the window fits the modulus of the moment
  (`Fits`) and that the frames from V(A) to V(S) tile the stream from the first
  unacknowledged byte to the first of `txBuf` (`Tiled`). It counts the frames in
  flight from V(A) instead of naming them by number, so that a helper's lemma is
  about a run of frames and the modulus is met only in `SeqAfter` and `Dist`: an
  acknowledgement cuts the run in front (`framesAcked`), `Burst` extends it
  behind, `RequeueFromVA` folds it back into `txBuf` or renumbers what is left of it,
  and a change of modulus is made on an empty run. The loops of the code are closed
  forms in the model and need no induction. `TornRarely` rests on `VisitsInFlight`:
  in step with the modulus, or with V(A) < V(S), the requeue loop looks at the frames
  in flight and at no other slot. Every handler is then shown to leave the mark
  alone, or to be the rebind it speaks of (`Explained`).
* `GovernorTypeCorrect`, `RateCapped`, `FramesConserved`, `DedupHonest` and
  `ImplementsScheduler` (`TxPathProofs`).
  * `RateCap` is not inductive: `DecisionStands` adds that between the two
    critical sections the channel of the decided frame stays below its limits,
    because only the worker sends and time only takes sends out of the windows.
  * `Conserved` is inductive, given the types.
  * `NotPoisoned` needs its reverse as well: a key that is not remembered has no
    recent copy (`RecentHonest`).
  * The refinement maps `Submit` to `Accept`, `Pop` to `Leave`, the clock to the
    clock, and everything else to a stutter; the step for `Pop` is where
    `DecisionStands` and the re-check of the head are needed.
* `IgateTypeCorrect`, `ConnectedIsHonest` and `FilterReachesServer`
  (`IgateSessionProofs`).
  * `ConnectedHonest` needs that an iGate that does not exist is not connected,
    for `Build` takes the cancellation back (`OffHonest`).
  * `FilterApplied` speaks of the end of the chain store, iGate, client, session.
    `FilterInv` has a link for each: what is not applied yet is signalled or in
    the reload goroutine's hands (`IgateCurrent`), the client has the iGate's
    filter unless the push is on its way (`ClientCurrent`), the session the
    client's unless its socket is about to be closed (`SessionCurrent`), and the
    reload goroutine is where that makes sense (`ReloadFits`).
* `NeverRepeatsBlocked` (`DigipeaterProofs`), for any network, traffic and rules,
  from `DigiAssumption`. `BlockedSilent` is not inductive. The invariant adds that
  the history `always` lies within what is stored (`Tracked`), that unless a read
  failed, an engine that is on, about to be, or called for a frame has a list
  that holds all of `always` (`ListsStand`), and who may have sent what is on the
  air (`Senders`). The step that matters is the reload: it replaces the list
  while the engine is on, never clears it on the way, and enables the engine last.
* `HopsWithinBudget` (`DigipeaterProofs`): `HopBudget`, for any network, rules,
  saves and lapses. The invariant `Budgets` adds that the paths at the receivers
  and on the air, and the settings wherever they are held, are well formed. The
  sum over a path (`Granted`) is a recursive function of its prefixes. That every
  repeat costs what it records (`MarkUsedCosts`, `OneHopCosts`, `applyMatchCosts`,
  `RepeatCosts`) is an induction over the path, done as a proof by the least
  counterexample (`LeastElement`, `Climb`) from the library's theorem that < is
  well founded on Nat, for no prover here can instantiate its induction rules.
* `PathRunsGovernor` and `CarrierHeeded` (`TxPathProofs`). The first shows that
  the composition implements `TxGovernor`: the watcher's step is a `DcdEvent`,
  slicers and restarts are stutters. `RateCap`, `Conserved`, `NotPoisoned` and
  the refinement thereby hold of it. `CarrierHeeded` assumes one slicer
  (`OneSlicer`): with two, the first that loses the carrier clears the channel
  and the theorem is false. Its invariant, `LastWord`: while a channel is heard
  and no event was dropped, the last event under way says so, or, with none under
  way, the governor has it busy.
* `NeverTwoSenders`, `AttemptsStayInLadder`, `AckStands`, `NotGivenUpEarly` and
  `OrderWithinLadder` (`MessageRetryProofs`). `OneSender` needs `MarkHeld`: unless a delete threw the mark in flight away,
  whoever is past the point where it is taken has set it, and only one of loop
  and Resend is there. `AttemptsStayInLadder` needs `CountsFirst`, that a copy
  being sent has counted its attempt, for a rollback subtracts one, and that no
  copy saved, however stale, is ever past the ladder (`RowsOK`). `AckStands`
  (`ClosedStays`) needs `SaveHonest`: a whole row is saved only by a send that was
  refused or went over APRS-IS, by a Resend or a delete, or with an ack in it.
  `NotGivenUpEarly` (`GivesUpLate`) needs `Low`: an attempt written in an open row
  was counted, is being made, or went down with the process. `OrderWithinLadder`
  (`Budget`) needs the converse, `Ladder`: while the row is open and on the
  schedule, every attempt that was counted is written in it (`OnLadder`), and the
  one being made in the loop's copy (`AtLoop`), which holds because the first send
  has the row to itself (`FirstSend`) and a Resend starts from none (`Again`).
* `ActionTypeCorrect`, `RateWindowHonest`, `ActionRunsOnce` and `CopiesAccounted`
  (`ActionRunnerProofs`), for any messages, rows and history of copies, edits,
  lapses and `Stop`; the receivers are finitely many. `RateHonest` is inductive,
  given the types. The rest comes from a ledger for each message: every copy let
  past the window is with a receiver, in the queue, executing, answered or ignored
  (`Accounted`), every run has used one up (`Spent`), and no more are let past than
  the window lapsed and once more (`LetPast`). The copies on their way are counted
  as the cardinalities of the receivers that hold one and of its places in the
  queue. `CopiesAccounted` is the safety half of `AnsweredOnce`: no copy is lost
  or answered twice, and what is left to TLC is that the copies move on.
* `SavesTakeEffect` (`Fresh`) and `NoBeaconLate` (`Punctual`) (`ReloadProofs`), for
  any beacons, workers, saves and fixes. `Fresh` speaks of the end of a chain:
  unless a signal is under way, what the reload goroutine has read is what is
  stored, then what it has listed (`ReadFresh`), and unless the loop has been told
  or is building, the heap is what is listed (`HeapFresh`). For `Punctual`, a plan's
  time since its last send and what is left of its wait never add up to more than
  its interval (`InTime`), the loop never sleeps past a plan (`AlarmFirst`; that
  `Peek` is a plan of the shortest wait is `PeekIsFirst`), and a turn is looked at
  whenever a plan is popped (`TurnSeen`).
* `DispatcherCatchesUp` (`SnapshotFresh`, `ReloadProofs`), for any number of saves,
  frames and faults, if the config writes of a row come one at a time
  (`OneHandler`); the code does not enforce it (section 4). `Held` says
  that an instance that lives is the one in `running`, or the one the handler
  holds while it stops it; `Current` that, with no signal pending, what the
  watcher published, or is about to, is what runs.
* `NeverSendsOnClosed` and `NeverCutByPtt` (`ModemBridgeProofs`). For the first,
  the reader lives only inside a session (`ReaderInSession`) and channels are
  closed only when the supervisor has stopped (`ClosedAtEnd`). For the second,
  the property is inductive given the shape of the records: the modem's one
  worker takes PTT commands and frames from one queue, so that a release cannot
  meet a frame.

Every safety invariant and every action property that a run checks is proved but
one, for a fitting window (`WindowFits`), one slicer (`OneSlicer`) and one config write
at a time (`OneHandler`) where the bullets say so. These three are hypotheses of
the theorems, not assumptions of the modules: the code does not see to them, and
section 4 says what happens without them. Only model-checked: `OneSupervisor`,
whose run has one config write at a time (with two it is false); and the liveness
properties, for fairness and ENABLED are beyond the prover. That the helpers of
the LAPB machine given in closed form do what the code's loops do is not proved
either; it was checked by reading.

## 6. Not modelled, and the plan

In order:

1. `Ax25Link`: a session, a conforming peer and a lossy link, with the input
   channel and the modulus each frame was decoded with, to check delivery end to
   end and the decode race; abstract specification: a reliable byte stream.
   `Ax25Manager`: open, close and remove (a reconnect between the observer's
   DISCONNECTED and the removal is refused, `manager.go:155`), and the caps.
2. Inbound messages and auto-acks beside `MessageRetry`; gating beside
   `IgateSession`; the listening KISS server; the fan-out of a frame to several
   backends.
3. Proofs of what 1 and 2 add, and first of all that `Ax25Link` is a reliable
   byte stream while no link is re-established.

Not modelled, and not planned: signal processing, framing and FEC in the modem
(numeric code without protocol state), APRS parsing and formatting (pure, with
a large test corpus), the configuration store and the web API (CRUD), user
interfaces, and pure I/O (GPS, maps, logs, updates). They are most of the
repository's lines.
