----------------------------- MODULE Digipeater -----------------------------
(***************************************************************************)
(* Stations that digipeat for each other (pkg/digipeater): each has an     *)
(* engine that the receive goroutine calls for every frame, a duplicate    *)
(* window of its own, the governor's window behind it, and a goroutine     *)
(* that brings saved settings to the engine setter by setter.              *)
(***************************************************************************)
EXTENDS Naturals, SequencesExt

CONSTANTS
    Nodes,          \* stations with a digipeater
    Channels,       \* radio channels
    PacketChannels, \* channels kept for connected mode
    Traffic,        \* what is sent: source, channel and path; one payload a source
    Hears,          \* of a sender and a channel: the nodes that may hear it
    Switches,       \* what may be saved at a node as settings: on or off, and the callsign
    Rulesets,       \* what may be saved as rules, in the order of their priority
    Blocklists,     \* what may be saved as block list
    NoCall,         \* a callsign that is empty or N0CALL
    MaxRepeaters,   \* slots in a path
    FirstStore,     \* what the nodes may have saved when they start
    MaxSends,       \* bound: frames the stations send
    MaxLapses,      \* bound: entries that leave a window
    MaxSaves,       \* bound: saves
    MaxFailures     \* bound: reads of the store that fail

\* An address is an alias with its digit n and the hops left in its SSID, or a callsign
\* with neither; a slot of a path is an address with its H bit.
Addr == [call : STRING, n : Nat, left : Nat]
Slot == [addr : Addr, used : BOOLEAN]
Rule == [from : Channels, to : Channels, alias : Addr, type : {"exact", "widen", "trace"},
         max : Nat, action : {"repeat", "drop"}]
ASSUME DigiAssumption ==
    /\ {MaxRepeaters, MaxSends, MaxLapses, MaxSaves, MaxFailures} \subseteq Nat
    /\ Rulesets \subseteq Seq(Rule)
    /\ FirstStore \subseteq [Nodes -> [switch : UNION {Switches[n] : n \in Nodes},
                                       rules : Rulesets, blocked : Blocklists]]
    /\ NoCall \in STRING \ Nodes
    /\ \A n \in Nodes : Switches[n] \subseteq [on : BOOLEAN, mycall : STRING]
    /\ \A t \in Traffic : t.path \in Seq(Slot) /\ Len(t.path) <= MaxRepeaters

VARIABLES
    store,    \* of each node, the saved settings, rules and block list
    signal,   \* a reload is asked for
    reload,   \* where the reload goroutine is, with the settings it read
    eng,      \* the engine: on, its callsign, rules and block list
    seen,     \* its duplicate window: frames with their path
    gov,      \* sources in the governor's window
    rx,       \* where Handle is, with the frame and what it took from the engine
    air,      \* copies of frames on their way to a node
    sends, saves, lapses, failures,  \* counts, against the bounds
    always,   \* history: sources on the block list in every state of the store
    failed    \* history: a reload could not read the store, or found no callsign

vars == <<store, signal, reload, eng, seen, gov, rx, air, sends, saves, lapses, failures,
          always, failed>>
settings == <<store, signal, saves, always>>
failing == <<failed, failures>>
radio == <<seen, gov, rx, air, sends, lapses>>

Off == [on |-> FALSE, mycall |-> NoCall, rules |-> <<>>, blocked |-> {}]
Init ==
    /\ store \in FirstStore
    /\ signal = [n \in Nodes |-> TRUE]   \* the component's start reloads once
    /\ reload = [n \in Nodes |-> [pc |-> "idle"]]
    /\ eng = [n \in Nodes |-> Off]
    /\ seen = [n \in Nodes |-> {}] /\ gov = [n \in Nodes |-> {}]
    /\ rx = [n \in Nodes |-> [pc |-> "idle"]]
    /\ air = {} /\ sends = 0 /\ saves = 0 /\ lapses = 0 /\ failures = 0
    /\ always = [n \in Nodes |-> store[n].blocked] /\ failed = [n \in Nodes |-> FALSE]

-----------------------------------------------------------------------------
(* Paths.                                                                   *)

Unused(path) == {i \in DOMAIN path : ~path[i].used}
firstUnconsumed(path) == CHOOSE i \in Unused(path) : \A j \in Unused(path) : i <= j

matchesWidenAlias(r, a) ==
    /\ a.call = r.alias.call /\ a.left > 0
    /\ IF a.n = 0 THEN a.left <= r.max ELSE a.n <= r.max /\ a.left <= a.n
ruleMatches(r, a) == IF r.type = "exact" THEN r.alias = a ELSE matchesWidenAlias(r, a)

MarkUsed(path, slots) == [i \in DOMAIN path |-> [path[i] EXCEPT !.used = @ \/ i \in slots]]
Address(call) == [call |-> call, n |-> 0, left |-> 0]

OneHop_Keeps(entry) == entry
OneHop(entry) == [entry EXCEPT !.addr.left = @ - 1, !.used = (entry.addr.left = 1)]
\* A WIDEn-N or TRACEn-N slot loses a hop and the node puts itself before it, if the path
\* has room; an exact alias is used up.
applyMatch(path, r, mycall) ==
    LET i == firstUnconsumed(path)
        less == [path EXCEPT ![i] = OneHop(@)]
    IN  IF r.type = "exact" THEN MarkUsed(path, {i})
        ELSE IF Len(path) < MaxRepeaters
             THEN InsertAt(less, i, [addr |-> Address(mycall), used |-> TRUE])
             ELSE less

PathDedupKey(f) == <<f.src, [i \in DOMAIN f.path |-> f.path[i].addr]>>

-----------------------------------------------------------------------------
(* Handle.  rx[n] holds the frame and the callsign and rules Handle copied. *)

\* A rule that would send on a channel kept for connected mode is passed over.
Usable(r, ch) == r.from = ch /\ (r.to = ch \/ r.to \notin PacketChannels)
\* The first rule that fits an address, by its place; 0 if none does.
FirstFitting(n, a, types) ==
    SelectInSeq(rx[n].rules, LAMBDA r : r.type \in types /\ Usable(r, rx[n].frame.ch)
                                        /\ ruleMatches(r, a))

\* The first slot that names this node uses up all slots before it, whatever the rules
\* say; an exact rule for the callsign may send it to another channel.
Preempt(n, slot) ==
    LET f == rx[n].frame
        redirect == FirstFitting(n, Address(rx[n].mycall), {"exact"})
    IN  [ch |-> IF redirect = 0 THEN f.ch ELSE rx[n].rules[redirect].to,
         path |-> MarkUsed(f.path, 1 .. slot)]

\* What Handle sends for the frame: nothing, or one frame.
Repeats(n) ==
    LET f == rx[n].frame
        own == {i \in Unused(f.path) : f.path[i].addr = Address(rx[n].mycall)}
        k == FirstFitting(n, f.path[firstUnconsumed(f.path)].addr, {"exact", "widen", "trace"})
        rule == rx[n].rules[k]
    IN  IF Unused(f.path) = {} \/ f.src = rx[n].mycall THEN {}
        ELSE IF own # {} THEN {Preempt(n, CHOOSE i \in own : \A j \in own : i <= j)}
        ELSE IF k = 0 THEN {}
        ELSE IF rule.action = "drop" THEN {}
        ELSE {[ch |-> rule.to, path |-> applyMatch(f.path, rule, rx[n].mycall)]}

\* The copies of a frame f that go out on ch with a path, after so many hops.
Copies(from, ch, f, path, hops, by) ==
    { [to |-> m, ch |-> ch, src |-> f.src, path |-> path, hops |-> hops, by |-> by,
       asked |-> f.asked] : m \in Hears[from][ch] }

Send(t) ==   \* a station sends; what nobody handles is lost
    /\ sends < MaxSends /\ sends' = sends + 1
    /\ air' = air \cup Copies(t.src, t.ch, [src |-> t.src, asked |-> t.path], t.path, 0, NoCall)
    /\ UNCHANGED <<settings, reload, eng, seen, gov, rx, lapses, failing>>

\* Handle up to the end of its first critical section.
Admit(n, f) ==
    /\ rx[n].pc = "idle" /\ f.to = n
    /\ air' = air \ {f}
    /\ rx' = IF f.ch \notin PacketChannels /\ eng[n].on /\ eng[n].mycall # NoCall
             THEN [rx EXCEPT ![n] = [pc |-> "admitted", frame |-> f,
                                     mycall |-> eng[n].mycall, rules |-> eng[n].rules]]
             ELSE rx
    /\ UNCHANGED <<settings, reload, eng, seen, gov, sends, lapses, failing>>

Returns(n) == /\ rx[n].pc = "admitted" /\ rx' = [rx EXCEPT ![n] = [pc |-> "idle"]]
              /\ UNCHANGED <<settings, reload, eng, sends, lapses, failing>>
Blocked(n) == rx[n].frame.src \in eng[n].blocked
Duplicate(n) == PathDedupKey(rx[n].frame) \in seen[n]
Remember(n) == seen' = [seen EXCEPT ![n] = @ \cup {PathDedupKey(rx[n].frame)}]

Ignore(n) ==   \* a blocked source, or a copy
    /\ Returns(n) /\ (Blocked(n) \/ Duplicate(n)) /\ UNCHANGED <<seen, gov, air>>

\* The window is written before the rules are looked at; no rule fits, or the governor's
\* window takes the frame for a copy, or its queue is full.
Forgo(n) ==
    /\ Returns(n) /\ ~Blocked(n) /\ ~Duplicate(n) /\ Remember(n)
    /\ UNCHANGED <<gov, air>>

Repeat(n) ==
    /\ Returns(n) /\ ~Blocked(n) /\ ~Duplicate(n) /\ Remember(n)
    /\ LET f == rx[n].frame
       IN  /\ f.src \notin gov[n] /\ gov' = [gov EXCEPT ![n] = @ \cup {f.src}]
           /\ \E out \in Repeats(n) :
                air' = air \cup Copies(n, out.ch, f, out.path, f.hops + 1, n)

Lapse == lapses < MaxLapses /\ lapses' = lapses + 1
WindowPasses(n) ==
    /\ Lapse /\ \E k \in seen[n] : seen' = [seen EXCEPT ![n] = @ \ {k}]
    /\ UNCHANGED <<settings, reload, eng, gov, rx, air, sends, failing>>
GovernorWindowPasses(n) ==
    /\ Lapse /\ \E p \in gov[n] : gov' = [gov EXCEPT ![n] = @ \ {p}]
    /\ UNCHANGED <<settings, reload, eng, seen, rx, air, sends, failing>>

-----------------------------------------------------------------------------
(* Saves and the reload goroutine.                                          *)

Save(n, new) ==
    /\ saves < MaxSaves /\ saves' = saves + 1
    /\ store' = [store EXCEPT ![n] = new] /\ signal' = [signal EXCEPT ![n] = TRUE]
    /\ always' = [always EXCEPT ![n] = @ \cap new.blocked]
    /\ UNCHANGED <<reload, eng, radio, failing>>
SaveSwitch(n) == \E w \in Switches[n] : Save(n, [store[n] EXCEPT !.switch = w])
SaveRules(n) == \E r \in Rulesets : Save(n, [store[n] EXCEPT !.rules = r])
SaveBlocklist(n) == \E b \in Blocklists : Save(n, [store[n] EXCEPT !.blocked = b])

Reloads(n, from, to) ==
    /\ reload[n].pc = from /\ reload' = [reload EXCEPT ![n].pc = to]
    /\ UNCHANGED <<settings, radio>>
Set(n, field, value) == eng' = [eng EXCEPT ![n] = [@ EXCEPT ![field] = value]]
Fails(n) ==
    /\ failures < MaxFailures /\ failures' = failures + 1
    /\ failed' = [failed EXCEPT ![n] = TRUE]

ReloadReads_EnablesFirst(n) ==
    /\ reload[n].pc = "idle" /\ signal[n] /\ signal' = [signal EXCEPT ![n] = FALSE]
    /\ LET w == store[n].switch
       IN  /\ w.mycall # NoCall
           /\ eng' = [eng EXCEPT ![n].mycall = w.mycall, ![n].on = w.on]
           /\ reload' = [reload EXCEPT ![n] = [pc |-> "rules", on |-> w.on]]
           /\ UNCHANGED failing
    /\ UNCHANGED <<store, saves, always, radio>>
ReloadReads(n) ==
    /\ reload[n].pc = "idle" /\ signal[n] /\ signal' = [signal EXCEPT ![n] = FALSE]
    /\ LET w == store[n].switch
       IN  \/ /\ w.mycall # NoCall
              /\ Set(n, "mycall", w.mycall)
              /\ reload' = [reload EXCEPT ![n] = [pc |-> "rules", on |-> w.on]]
              /\ UNCHANGED failing
           \/ /\ Set(n, "on", FALSE)   \* no settings, or no callsign
              /\ failed' = [failed EXCEPT ![n] = TRUE]
              /\ failures' = IF w.mycall = NoCall THEN failures ELSE failures + 1
              /\ failures' <= MaxFailures
              /\ reload' = [reload EXCEPT ![n] = [pc |-> "clear"]]
    /\ UNCHANGED <<store, saves, always, radio>>
ReloadRules(n) ==
    /\ Reloads(n, "rules", "blocklist")
    /\ \/ Set(n, "rules", store[n].rules) /\ UNCHANGED failing
       \/ Set(n, "rules", <<>>) /\ Fails(n)
\* A list that cannot be read counts as empty.
ReloadBlocklist(n) ==
    /\ Reloads(n, "blocklist", "enable")
    /\ \/ Set(n, "blocked", store[n].blocked) /\ UNCHANGED failing
       \/ Set(n, "blocked", {}) /\ Fails(n)
ReloadEnables(n) ==
    /\ Reloads(n, "enable", "idle") /\ Set(n, "on", reload[n].on) /\ UNCHANGED failing
ReloadClears(n) ==   \* SetRules(nil), then SetBlocklist(nil)
    \/ Reloads(n, "clear", "cleared") /\ Set(n, "rules", <<>>) /\ UNCHANGED failing
    \/ Reloads(n, "cleared", "idle") /\ Set(n, "blocked", {}) /\ UNCHANGED failing

Handle(n) == (\E f \in air : Admit(n, f)) \/ Ignore(n) \/ Forgo(n) \/ Repeat(n)
Reload(n) == \/ ReloadReads(n) \/ ReloadRules(n) \/ ReloadBlocklist(n)
             \/ ReloadEnables(n) \/ ReloadClears(n)
Operator(n) == SaveSwitch(n) \/ SaveRules(n) \/ SaveBlocklist(n)
Next == \/ \E t \in Traffic : Send(t)
        \/ \E n \in Nodes : \/ Handle(n) \/ Reload(n) \/ Operator(n)
                            \/ WindowPasses(n) \/ GovernorWindowPasses(n)
Spec == Init /\ [][Next]_vars

-----------------------------------------------------------------------------
\* The hops a path still grants: what is left in its aliases, and one a callsign.
Hops(slot) == IF slot.used THEN 0 ELSE IF slot.addr.left = 0 THEN 1 ELSE slot.addr.left
Granted(path) ==
    LET upTo[k \in 0 .. Len(path)] == IF k = 0 THEN 0 ELSE upTo[k - 1] + Hops(path[k])
    IN  upTo[Len(path)]

\* However many nodes repeat each other's copies, by aliases, callsigns and rules of any
\* kind and with windows that have lapsed, no copy goes further than its sender asked: the
\* hops it has made and those it may still make never exceed the path it was sent with
\* (digipeater.go:342-402, 500-541).
HopBudget == \A f \in air : f.hops + Granted(f.path) <= Granted(f.asked)

\* A source that is on the block list in every state of the store is never repeated, while
\* reloads replace the list setter by setter under frames that are being handled, and from
\* the first frame after the start; only a store that cannot be read, or settings without a
\* callsign, open the list (digipeater.go:288-306, wiring.go:2398-2450).
BlockedSilent ==
    \A f \in air : f.by # NoCall /\ f.src \in always[f.by] => failed[f.by]
=============================================================================
