--------------------------- MODULE BeaconScheduler ---------------------------
(***************************************************************************)
(* Beacons (pkg/beacon): the run loop over a heap of plans, the pool of    *)
(* workers that send, smart beaconing from the GPS cache, and the way a    *)
(* save takes to the loop: the web handler, the reload goroutine           *)
(* (app/wiring.go), the scheduler's own list and its signal.  Times are    *)
(* kept as what is left of a wait and what has passed since a send.        *)
(***************************************************************************)
EXTENDS Naturals, FiniteSetsExt

CONSTANTS
    Beacons,   \* ids
    Rows,      \* what the operator may save for one
    Slots,     \* the worker pool
    Fixes,     \* what the GPS may report: whether the station moves, its heading, and the
               \* interval of the SmartBeacon curve at its speed
    LongestRate, TurnTime,  \* of the curve, in polls; above SlowSpeed it may exceed SlowRate
    Workloads  \* bound: the configurations a run starts from, the saves and failed reads
               \* of the store that may follow, and what of Fixes the GPS will report

Row == [on : BOOLEAN, tracker : BOOLEAN, every : Nat \ {0}, path : {"rf", "both", "is_only"}]
ASSUME BeaconAssumption ==
    /\ Beacons \subseteq Nat /\ Rows \subseteq Row
    /\ Fixes \subseteq [moves : BOOLEAN, heading : Nat, rate : 1 .. LongestRate]
    /\ {LongestRate, TurnTime} \subseteq Nat \ {0}
    /\ \A w \in Workloads : w \in [rows : [Beacons -> Rows], smart : BOOLEAN, edits : Nat, fixes : (SUBSET Fixes) \ {{}}]

VARIABLES
    store,    \* the beacon rows and whether smart beaconing is on
    owed,     \* saves of either that have not been signalled yet
    signals,  \* the two channels of capacity one to the reload goroutine
    loader,   \* the reload goroutine: where it is and what it has read
    beacons, reloadCh,  \* Scheduler: its list and its channel
    plans,    \* the heap: a plan for each enabled beacon it was built with
    loop,     \* where Run is, and what is left of the timer it waits for
    jobs,     \* of each slot: the beacon being sent
    fix,      \* the GPS cache
    bound,    \* what is left of the workload's edits, and its fixes
    bent      \* history: polls for which a tracker's heading has differed from its last beacon's

beaconVars == <<store, owed, signals, loader, beacons, reloadCh, plans, loop, jobs, fix, bound, bent>>
saving == <<store, owed, bound>>
loading == <<loader, beacons>>
world == <<fix, jobs>>

Poll == 1
Late == LongestRate + TurnTime + 2   \* bound: no plan is told apart from one that old
Config(row, smart) == [on |-> row.on, smart |-> row.tracker /\ smart, every |-> row.every, path |-> row.path]
Configs(rows, smart) == [b \in DOMAIN rows |-> Config(rows[b], smart)]
NewPlan(c) == [cfg |-> c, wait |-> 0, sent |-> FALSE, since |-> 0, heading |-> {}]
PlansOf(list) == [b \in {d \in DOMAIN list : list[d].on} |-> NewPlan(list[b])]
Nobody == [leg |-> "none"]

BeaconInit ==
    /\ \E w \in Workloads :
           /\ store = [rows |-> w.rows, smart |-> w.smart]
           /\ bound = [edits |-> w.edits, fixes |-> w.fixes] /\ fix \in w.fixes
    /\ owed = [rows |-> 0, smart |-> 0] /\ signals = {}
    /\ loader = [pc |-> "wait", rows |-> <<>>, smart |-> FALSE, failed |-> "none"]
    /\ beacons = Configs(store.rows, store.smart) /\ reloadCh = FALSE
    /\ plans = PlansOf(beacons) /\ loop = [pc |-> "top", alarm |-> 0]
    /\ jobs = [s \in Slots |-> Nobody] /\ bent = [b \in Beacons |-> 0]

-----------------------------------------------------------------------------
(* A save, and the reload goroutine.                                        *)

Edit == bound.edits > 0 /\ bound' = [bound EXCEPT !.edits = @ - 1]
Save ==
    /\ Edit
    /\ \/ \E b \in Beacons, r \in Rows :
            /\ store' = [store EXCEPT !.rows[b] = r] /\ owed' = [owed EXCEPT !.rows = @ + 1]
       \/ store' = [store EXCEPT !.smart = ~@] /\ owed' = [owed EXCEPT !.smart = @ + 1]
    /\ UNCHANGED <<signals, loading, reloadCh, plans, loop, world, bent>>
\* signalBeaconReload and signalSmartBeaconReload: never block, and coalesce.
Signal(which) ==
    /\ owed[which] > 0 /\ owed' = [owed EXCEPT ![which] = @ - 1]
    /\ signals' = signals \cup {which}
    /\ UNCHANGED <<store, bound, loading, reloadCh, plans, loop, world, bent>>

LoaderTakes ==
    /\ loader.pc = "wait"
    /\ \E which \in signals : signals' = signals \ {which}
    /\ loader' = [loader EXCEPT !.pc = "rows"]
    /\ UNCHANGED <<saving, beacons, reloadCh, plans, loop, world, bent>>
\* loadBeaconConfigs: a failed read of the rows unschedules every beacon, one of the
\* smart-beacon switch counts as "off".
LoadRows ==
    /\ loader.pc = "rows"
    /\ \/ loader' = [loader EXCEPT !.pc = "smart", !.rows = store.rows, !.failed = "none"] /\ UNCHANGED bound
       \/ Edit /\ loader' = [pc |-> "set", rows |-> <<>>, smart |-> FALSE, failed |-> "rows"]
    /\ UNCHANGED <<store, owed, signals, beacons, reloadCh, plans, loop, world, bent>>
LoadSmart ==
    /\ loader.pc = "smart"
    /\ \/ loader' = [loader EXCEPT !.pc = "set", !.smart = store.smart] /\ UNCHANGED bound
       \/ Edit /\ loader' = [loader EXCEPT !.pc = "set", !.failed = "smart"]
    /\ UNCHANGED <<store, owed, signals, beacons, reloadCh, plans, loop, world, bent>>
\* Reload: first the list, then the signal.
SetBeacons ==
    /\ loader.pc = "set" /\ loader' = [loader EXCEPT !.pc = "signal"]
    /\ beacons' = Configs(loader.rows, loader.smart)
    /\ UNCHANGED <<saving, signals, reloadCh, plans, loop, world, bent>>
Reload_Drains ==
    /\ loader.pc = "signal" /\ reloadCh' = TRUE /\ signals' = {}
    /\ loader' = [loader EXCEPT !.pc = "wait", !.rows = <<>>, !.smart = FALSE]
    /\ UNCHANGED <<saving, beacons, plans, loop, world, bent>>
Reload ==
    /\ loader.pc = "signal" /\ reloadCh' = TRUE
    /\ loader' = [loader EXCEPT !.pc = "wait", !.rows = <<>>, !.smart = FALSE]
    /\ UNCHANGED <<saving, signals, beacons, plans, loop, world, bent>>

-----------------------------------------------------------------------------
(* Run.                                                                     *)

LoopTo(pc) == loop' = [pc |-> pc, alarm |-> 0]
TakeReload ==
    /\ loop.pc \in {"top", "idle", "sleep"} /\ reloadCh
    /\ reloadCh' = FALSE /\ LoopTo("build")
    /\ UNCHANGED <<saving, signals, loading, plans, world, bent>>
\* The list is read after the signal: it may be newer than the signal, never older.
buildHeap ==
    /\ loop.pc = "build" /\ LoopTo("look")
    /\ plans' = PlansOf(beacons) /\ bent' = [b \in Beacons |-> 0]
    /\ UNCHANGED <<saving, signals, loading, reloadCh, world>>
NoReload ==
    /\ loop.pc = "top" /\ ~reloadCh /\ LoopTo("look")
    /\ UNCHANGED <<saving, signals, loading, reloadCh, plans, world, bent>>

Less(b, c) == plans[b].wait < plans[c].wait \/ (plans[b].wait = plans[c].wait /\ b < c)
Peek_ById == CHOOSE b \in DOMAIN plans : \A c \in DOMAIN plans : b <= c
Peek == CHOOSE b \in DOMAIN plans : \A c \in DOMAIN plans \ {b} : Less(b, c)

Interval == fix.rate
\* TurnThreshold is infinite at a standstill; a heading of Fixes is beyond it from another.
Turned(p) == p.heading # {} /\ fix.moves /\ p.heading # {fix.heading}
shouldFire(p) == \/ ~p.cfg.smart \/ ~p.sent
                 \/ Turned(p) /\ p.since >= TurnTime
                 \/ p.since >= Interval
nextWake(p) == IF p.cfg.smart THEN Min({Poll, Interval}) ELSE p.cfg.every

\* lastSent and the heading are set whether or not a worker was free.
Sent(p) == [p EXCEPT !.sent = TRUE, !.since = 0,
                     !.heading = IF p.cfg.smart /\ fix.moves THEN {fix.heading} ELSE @]
Rescheduled(p) == [p EXCEPT !.wait = nextWake(p)]
FreeSlots == {s \in Slots : jobs[s] = Nobody}
fireAsync(b) ==
    IF FreeSlots = {} THEN UNCHANGED jobs
    ELSE jobs' = [jobs EXCEPT ![CHOOSE s \in FreeSlots : TRUE]
                                = [leg |-> "build", beacon |-> b, cfg |-> plans[b].cfg]]
Pop_SkippedForGood(b) ==
    /\ loop.pc = "look" /\ DOMAIN plans # {} /\ b = Peek /\ plans[b].wait = 0 /\ LoopTo("top")
    /\ IF shouldFire(plans[b])
       THEN /\ fireAsync(b)
            /\ plans' = [plans EXCEPT ![b] = Rescheduled(Sent(@))] /\ bent' = [bent EXCEPT ![b] = 0]
       ELSE plans' = [c \in DOMAIN plans \ {b} |-> plans[c]] /\ UNCHANGED <<jobs, bent>>
    /\ UNCHANGED <<saving, signals, loading, reloadCh, fix>>
Pop(b) ==
    /\ loop.pc = "look" /\ DOMAIN plans # {} /\ b = Peek /\ plans[b].wait = 0 /\ LoopTo("top")
    /\ IF shouldFire(plans[b])
       THEN /\ fireAsync(b)
            /\ plans' = [plans EXCEPT ![b] = Rescheduled(Sent(@))] /\ bent' = [bent EXCEPT ![b] = 0]
       ELSE plans' = [plans EXCEPT ![b] = Rescheduled(@)] /\ UNCHANGED <<jobs, bent>>
    /\ UNCHANGED <<saving, signals, loading, reloadCh, fix>>
Sleep ==
    /\ loop.pc = "look"
    /\ IF DOMAIN plans = {} THEN LoopTo("idle")
       ELSE plans[Peek].wait > 0 /\ loop' = [pc |-> "sleep", alarm |-> plans[Peek].wait]
    /\ UNCHANGED <<saving, signals, loading, reloadCh, plans, world, bent>>
Wake ==
    /\ loop.pc = "sleep" /\ loop.alarm = 0 /\ LoopTo("top")
    /\ UNCHANGED <<saving, signals, loading, reloadCh, plans, world, bent>>
Cancel ==
    /\ loop.pc \in {"idle", "sleep"} /\ LoopTo("done")
    /\ UNCHANGED <<saving, signals, loading, reloadCh, plans, world, bent>>

-----------------------------------------------------------------------------
(* A worker: sendBeaconWith.  The GPS, and time.                            *)

Job(s, leg) == jobs[s].leg = leg
JobGoes(s, leg) ==
    /\ jobs' = [jobs EXCEPT ![s] = IF leg = "none" THEN Nobody ELSE [@ EXCEPT !.leg = leg]]
    /\ UNCHANGED <<saving, signals, loading, reloadCh, plans, loop, fix, bent>>
\* A packet channel, no fix, or a frame that cannot be built ends it.
Build(s) ==
    Job(s, "build") /\ \/ JobGoes(s, "none")
                       \/ JobGoes(s, IF jobs[s].cfg.path = "is_only" THEN "is" ELSE "rf")
\* A refused submit ends it, the APRS-IS leg included.
SubmitRF(s) ==
    Job(s, "rf") /\ \/ JobGoes(s, "none")
                    \/ jobs[s].cfg.path = "both" /\ JobGoes(s, "is")
SendIS(s) == Job(s, "is") /\ JobGoes(s, "none")

Update ==
    /\ fix' \in bound.fixes \ {fix}
    /\ bent' = [b \in Beacons |-> 0]
    /\ UNCHANGED <<saving, signals, loading, reloadCh, plans, loop, jobs>>

\* The loop's own steps take no time.
Older(p) == [p EXCEPT !.wait = IF @ = 0 THEN 0 ELSE @ - 1,
                      !.since = Min({@ + 1, Late})]
Tick ==
    /\ loop.pc = "sleep" /\ loop.alarm > 0 /\ loop' = [loop EXCEPT !.alarm = @ - 1]
    /\ plans' = [b \in DOMAIN plans |-> Older(plans[b])]
    /\ bent' = [b \in Beacons |-> IF b \in DOMAIN plans /\ plans[b].cfg.smart /\ Turned(plans[b])
                                  THEN Min({bent[b] + 1, 2}) ELSE 0]
    /\ UNCHANGED <<saving, signals, loading, reloadCh, world>>

Loader == LoaderTakes \/ LoadRows \/ LoadSmart \/ SetBeacons \/ Reload
RunLoop == TakeReload \/ buildHeap \/ NoReload \/ (\E b \in Beacons : Pop(b)) \/ Sleep \/ Wake
Worker(s) == Build(s) \/ SubmitRF(s) \/ SendIS(s)
BeaconNext == \/ Save \/ \E which \in {"rows", "smart"} : Signal(which)
        \/ Loader \/ RunLoop \/ Cancel \/ Update \/ Tick
        \/ \E s \in Slots : Worker(s)

BeaconSpec == BeaconInit /\ [][BeaconNext]_beaconVars
BeaconFairSpec ==
    /\ BeaconSpec /\ \A which \in {"rows", "smart"} : WF_beaconVars(Signal(which))
    /\ WF_beaconVars(Loader) /\ WF_beaconVars(RunLoop) /\ WF_beaconVars(Tick)
    /\ \A s \in Slots : WF_beaconVars(Worker(s))

-----------------------------------------------------------------------------
\* Once every signal has been taken the heap is built from the rows as they are, and from
\* the smart-beacon switch: no save is lost in the channels that coalesce.  A failed read
\* is the exception (wiring.go:2505-2530, 2547-2556, scheduler.go:156-165).
Settled == owed = [rows |-> 0, smart |-> 0] /\ signals = {} /\ loader.pc = "wait"
           /\ ~reloadCh /\ loop.pc # "build"
Fresh == Settled /\ loader.failed = "none"
            => /\ DOMAIN plans = {b \in Beacons : store.rows[b].on}
               /\ \A b \in DOMAIN plans : plans[b].cfg = Config(store.rows[b], store.smart)

\* No plan waits behind another: a fixed beacon is due again within its interval and a
\* tracker within the longest interval of its curve, and a turn that has lasted two polls
\* is reported as soon as the turn time is over, whatever the other plans and the GPS do
\* (scheduler.go:183-235, 282-330).
Punctual ==
    \A b \in DOMAIN plans :
        LET p == plans[b]
        IN  /\ p.since <= IF p.cfg.smart THEN LongestRate ELSE p.cfg.every
            /\ bent[b] = 2 => p.since <= TurnTime

\* A beacon that stays enabled in the store comes to its turn again and again, through saves,
\* reloads and a pool with no free worker; only a failed read of the rows and the end of the loop stop it
\* (scheduler.go:156-235, 337-353, wiring.go:2505-2530).
KeepsFiring ==
    \A b \in Beacons :
        <>[](store.rows[b].on /\ loader.failed # "rows" /\ loop.pc # "done")
            => []<>(b \in DOMAIN plans /\ plans[b].sent /\ plans[b].since = 0)
=============================================================================
