-------------------------- MODULE DigipeaterProofs --------------------------
(***************************************************************************)
(* Proved for any network, traffic, rules and saves: a source that is      *)
(* always on the block list is never repeated, and no copy goes further    *)
(* than the path it was sent with.                                         *)
(*                                                                         *)
(* The list: while no reload has failed, an engine that is switched on,    *)
(* about to be switched on, or called for a frame has a list that holds    *)
(* whatever every saved list has held.  A reload sets the list before it   *)
(* switches the engine on, and never clears it on the way.                 *)
(*                                                                         *)
(* The hops: each frame on the air or in an engine's hands has made and    *)
(* may still make no more hops than it was sent with, and every way in     *)
(* which an engine rewrites a path takes a hop off it at least.            *)
(***************************************************************************)
EXTENDS Digipeater, TLAPS, SequenceTheorems, WellFoundedInduction

(* What the argument needs of the shape of the state. *)
EngineFields == {"on", "mycall", "rules", "blocked"}
ShapeOK ==
    /\ failed \in [Nodes -> BOOLEAN]
    /\ DOMAIN store = Nodes /\ DOMAIN always = Nodes
    /\ \A n \in Nodes : "blocked" \in DOMAIN store[n]
    /\ DOMAIN eng = Nodes /\ \A n \in Nodes : DOMAIN eng[n] = EngineFields
    /\ DOMAIN reload = Nodes /\ \A n \in Nodes : "pc" \in DOMAIN reload[n]
    /\ DOMAIN rx = Nodes

Guarded(n) == eng[n].on = TRUE \/ reload[n].pc = "enable" \/ rx[n].pc = "admitted"
ListStands(n) == failed[n] = TRUE \/ /\ reload[n].pc \notin {"clear", "cleared"}
                                     /\ Guarded(n) => always[n] \subseteq eng[n].blocked
Senders == \A f \in air : f.by \in Nodes \cup {NoCall}
Tracked == \A n \in Nodes : always[n] \subseteq store[n].blocked
ListsStand == \A n \in Nodes : ListStands(n)
Inv == ShapeOK /\ Tracked /\ ListsStand /\ Senders /\ BlockedSilent

-----------------------------------------------------------------------------
(* Setters and copies.                                                     *)

LEMMA SetField ==
    ASSUME NEW n \in Nodes, NEW field \in EngineFields, NEW value,
           DOMAIN eng = Nodes, \A m \in Nodes : DOMAIN eng[m] = EngineFields,
           Set(n, field, value)
    PROVE  /\ DOMAIN eng' = Nodes /\ \A m \in Nodes : DOMAIN eng'[m] = EngineFields
           /\ eng'[n][field] = value
           /\ \A g \in EngineFields \ {field} : eng'[n][g] = eng[n][g]
           /\ \A m \in Nodes \ {n} : eng'[m] = eng[m]
BY DEF Set, EngineFields

LEMMA CopyFields ==
    ASSUME NEW from, NEW ch, NEW f, NEW path, NEW hops, NEW by
    PROVE  \A c \in Copies(from, ch, f, path, hops, by) : c.by = by /\ c.src = f.src
BY DEF Copies

-----------------------------------------------------------------------------
(* What the steps of the radio keep: everything but the frame in hand and   *)
(* the air stays, and the air gains only what may be sent.                  *)

LEMMA AirGrows ==
    ASSUME Inv, always' = always, failed' = failed,
           \A f \in air' \ air :
               (f.by = NoCall)
               \/ (f.by \in Nodes /\ (failed[f.by] = TRUE \/ f.src \notin always[f.by]))
    PROVE  Senders' /\ BlockedSilent'
BY DEF Inv, Senders, BlockedSilent, ShapeOK

LEMMA SendKeeps == ASSUME Inv, NEW t \in Traffic, Send(t) PROVE Inv'
<1> DEFINE sent == [src |-> t.src, asked |-> t.path]
<1>1. \A c \in Copies(t.src, t.ch, sent, t.path, 0, NoCall) : c.by = NoCall BY CopyFields
<1>2. \A c \in air' \ air : c.by = NoCall BY <1>1 DEF Send
<1>3. always' = always /\ failed' = failed BY DEF Send, settings, failing
<1>4. Senders' /\ BlockedSilent' BY <1>2, <1>3 DEF Inv, Senders, BlockedSilent, ShapeOK
<1> QED BY <1>4 DEF Inv, Send, ShapeOK, Tracked, ListsStand, ListStands, Guarded, settings, failing

LEMMA AdmitKeeps == ASSUME Inv, NEW n \in Nodes, NEW f \in air, Admit(n, f) PROVE Inv'
<1>1. Senders' /\ BlockedSilent'
    BY AirGrows DEF Admit, settings, failing
<1>2. ShapeOK' /\ Tracked'
    BY DEF Inv, Admit, ShapeOK, Tracked, settings, failing
<1>3. ASSUME NEW m \in Nodes PROVE ListStands(m)'
    <2>1. CASE rx'[m] = rx[m]
        BY <2>1 DEF Inv, Admit, ListsStand, ListStands, Guarded, settings, failing
    <2>2. CASE m = n /\ eng[n].on
        BY <2>2 DEF Inv, Admit, ListsStand, ListStands, Guarded, settings, failing
    <2> QED BY <2>1, <2>2 DEF Inv, Admit, ShapeOK
<1> QED BY <1>1, <1>2, <1>3 DEF Inv, ListsStand

LEMMA ReturnKeeps ==
    ASSUME Inv, NEW n \in Nodes, Returns(n)
    PROVE  ShapeOK' /\ Tracked' /\ ListsStand'
<1>1. ShapeOK' /\ Tracked'
    BY DEF Inv, Returns, ShapeOK, Tracked, settings, failing
<1>2. ASSUME NEW m \in Nodes PROVE ListStands(m)'
    BY DEF Inv, Returns, ShapeOK, ListsStand, ListStands, Guarded, settings, failing
<1> QED BY <1>1, <1>2 DEF ListsStand

LEMMA IgnoreKeeps == ASSUME Inv, NEW n \in Nodes, Ignore(n) PROVE Inv'
<1>1. Senders' /\ BlockedSilent'
    BY AirGrows DEF Ignore, Returns, settings, failing
<1> QED BY <1>1, ReturnKeeps DEF Inv, Ignore

LEMMA ForgoKeeps == ASSUME Inv, NEW n \in Nodes, Forgo(n) PROVE Inv'
<1>1. Senders' /\ BlockedSilent'
    BY AirGrows DEF Forgo, Returns, settings, failing
<1> QED BY <1>1, ReturnKeeps DEF Inv, Forgo

LEMMA RepeatKeeps == ASSUME Inv, NEW n \in Nodes, Repeat(n) PROVE Inv'
<1> DEFINE f == rx[n].frame
<1>1. PICK out \in Repeats(n) :
          air' = air \cup Copies(n, out.ch, f, out.path, f.hops + 1, n)
    BY DEF Repeat
<1>2. \A c \in Copies(n, out.ch, f, out.path, f.hops + 1, n) : c.by = n /\ c.src = f.src
    BY CopyFields
<1>3. failed[n] = TRUE \/ f.src \notin always[n]
    BY DEF Inv, ListsStand, ListStands, Guarded, Repeat, Returns, Blocked
<1>4. \A c \in air' \ air : c.by = n /\ c.src = f.src BY <1>1, <1>2
<1>5. always' = always /\ failed' = failed BY DEF Repeat, Returns, settings, failing
<1>6. Senders' /\ BlockedSilent' BY <1>3, <1>4, <1>5, AirGrows
<1> QED BY <1>6, ReturnKeeps DEF Inv, Repeat

-----------------------------------------------------------------------------
(* Saves and reloads.                                                       *)

LEMMA SaveKeeps ==
    ASSUME Inv, NEW n \in Nodes, NEW new, "blocked" \in DOMAIN new, Save(n, new)
    PROVE  Inv'
<1>1. \A m \in Nodes : always'[m] \subseteq always[m]
    BY DEF Inv, ShapeOK, Save
<1>2. ShapeOK' BY DEF Inv, ShapeOK, Save, radio, failing
<1>3. Tracked' BY DEF Inv, ShapeOK, Tracked, Save
<1>4. ListsStand' BY <1>1 DEF Inv, ListsStand, ListStands, Guarded, Save, radio, failing
<1>5. Senders' /\ BlockedSilent'
    BY <1>1 DEF Inv, Senders, BlockedSilent, Save, radio, failing
<1> QED BY <1>2, <1>3, <1>4, <1>5 DEF Inv

LEMMA OperatorKeeps == ASSUME Inv, NEW n \in Nodes, Operator(n) PROVE Inv'
<1>1. CASE SaveSwitch(n)
    <2>1. PICK w \in Switches[n] : Save(n, [store[n] EXCEPT !.switch = w]) BY <1>1 DEF SaveSwitch
    <2>2. "blocked" \in DOMAIN [store[n] EXCEPT !.switch = w] BY DEF Inv, ShapeOK
    <2> QED BY <2>1, <2>2, SaveKeeps
<1>2. CASE SaveRules(n)
    <2>1. PICK r \in Rulesets : Save(n, [store[n] EXCEPT !.rules = r]) BY <1>2 DEF SaveRules
    <2>2. "blocked" \in DOMAIN [store[n] EXCEPT !.rules = r] BY DEF Inv, ShapeOK
    <2> QED BY <2>1, <2>2, SaveKeeps
<1>3. CASE SaveBlocklist(n)
    <2>1. PICK b \in Blocklists : Save(n, [store[n] EXCEPT !.blocked = b]) BY <1>3 DEF SaveBlocklist
    <2>2. "blocked" \in DOMAIN [store[n] EXCEPT !.blocked = b] BY DEF Inv, ShapeOK
    <2> QED BY <2>1, <2>2, SaveKeeps
<1> QED BY <1>1, <1>2, <1>3 DEF Operator

(* A step of the reload leaves the radio and the history of the store alone: *)
(* what is left to show is about the engine and the place of the goroutine.  *)
LEMMA ReloadFrame ==
    ASSUME Inv, NEW n \in Nodes,
           air' = air, rx' = rx, store' = store, always' = always,
           failed' = failed \/ failed' = [failed EXCEPT ![n] = TRUE],
           DOMAIN eng' = Nodes, \A m \in Nodes : DOMAIN eng'[m] = EngineFields,
           DOMAIN reload' = Nodes, \A m \in Nodes : "pc" \in DOMAIN reload'[m],
           \A m \in Nodes \ {n} : eng'[m] = eng[m] /\ reload'[m] = reload[m],
           ListStands(n)'
    PROVE  Inv'
<1>1. /\ failed' \in [Nodes -> BOOLEAN]
      /\ \A m \in Nodes : failed[m] = TRUE => failed'[m] = TRUE
      /\ \A m \in Nodes \ {n} : failed'[m] = failed[m]
    BY DEF Inv, ShapeOK
<1>2. ShapeOK' BY <1>1 DEF Inv, ShapeOK
<1>3. ASSUME NEW m \in Nodes \ {n} PROVE ListStands(m)'
    BY <1>1 DEF Inv, ListsStand, ListStands, Guarded
<1>4. Tracked' /\ Senders' BY DEF Inv, Tracked, Senders
<1>5. NoCall \notin Nodes BY DigiAssumption
<1>6. BlockedSilent'
    BY <1>1, <1>5 DEF Inv, ShapeOK, Senders, BlockedSilent
<1> QED BY <1>2, <1>3, <1>4, <1>6 DEF Inv, ListsStand

LEMMA ReloadReadsKeeps == ASSUME Inv, NEW n \in Nodes, ReloadReads(n) PROVE Inv'
<1> DEFINE w == store[n].switch
<1>1. /\ air' = air /\ rx' = rx /\ store' = store /\ always' = always
      /\ reload[n].pc = "idle"
    BY DEF ReloadReads, radio
<1>2. CASE /\ Set(n, "mycall", w.mycall) /\ UNCHANGED failing
           /\ reload' = [reload EXCEPT ![n] = [pc |-> "rules", on |-> w.on]]
    <2>1. reload'[n].pc = "rules" /\ failed' = failed
        BY <1>2 DEF Inv, ShapeOK, failing
    <2>2. eng'[n].on = eng[n].on /\ eng'[n].blocked = eng[n].blocked
        BY <1>2, SetField DEF Inv, ShapeOK, EngineFields
    <2>3. ListStands(n)'
        BY <1>1, <2>1, <2>2 DEF Inv, ListsStand, ListStands, Guarded
    <2> QED BY <1>1, <1>2, <2>1, <2>3, SetField, ReloadFrame DEF Inv, ShapeOK, EngineFields
<1>3. CASE /\ Set(n, "on", FALSE) /\ failed' = [failed EXCEPT ![n] = TRUE]
           /\ reload' = [reload EXCEPT ![n] = [pc |-> "clear"]]
    <2>1. ListStands(n)' BY <1>3 DEF Inv, ShapeOK, ListStands
    <2> QED BY <1>1, <1>3, <2>1, SetField, ReloadFrame DEF Inv, ShapeOK, EngineFields
<1> QED BY <1>2, <1>3 DEF ReloadReads

LEMMA ReloadStep ==
    ASSUME Inv, NEW n \in Nodes, NEW from, NEW to, NEW field \in EngineFields, NEW value,
           Reloads(n, from, to), Set(n, field, value),
           UNCHANGED failing \/ Fails(n), ListStands(n)'
    PROVE  Inv'
<1>1. /\ air' = air /\ rx' = rx /\ store' = store /\ always' = always
      /\ DOMAIN reload' = Nodes /\ \A m \in Nodes : "pc" \in DOMAIN reload'[m]
      /\ \A m \in Nodes \ {n} : reload'[m] = reload[m]
    BY DEF Inv, ShapeOK, Reloads, radio, settings
<1>2. failed' = failed \/ failed' = [failed EXCEPT ![n] = TRUE] BY DEF failing, Fails
<1>3. /\ DOMAIN eng' = Nodes /\ \A m \in Nodes : DOMAIN eng'[m] = EngineFields
      /\ \A m \in Nodes \ {n} : eng'[m] = eng[m]
    BY SetField DEF Inv, ShapeOK
<1> QED BY <1>1, <1>2, <1>3, ReloadFrame

LEMMA Moves ==
    ASSUME Inv, NEW n \in Nodes, NEW from, NEW to, Reloads(n, from, to)
    PROVE  /\ reload[n].pc = from /\ reload'[n].pc = to
           /\ rx' = rx /\ store' = store /\ always' = always
BY DEF Inv, ShapeOK, Reloads, radio, settings

LEMMA Failing ==
    ASSUME Inv, NEW n \in Nodes, Fails(n) PROVE failed'[n] = TRUE
BY DEF Inv, ShapeOK, Fails

LEMMA ReloadRulesKeeps == ASSUME Inv, NEW n \in Nodes, ReloadRules(n) PROVE Inv'
<1>1. PICK rules : Set(n, "rules", rules) BY DEF ReloadRules
<1>2. Reloads(n, "rules", "blocklist") /\ (UNCHANGED failing \/ Fails(n)) BY DEF ReloadRules
<1>3. eng'[n].on = eng[n].on /\ eng'[n].blocked = eng[n].blocked
    BY <1>1, SetField DEF Inv, ShapeOK, EngineFields
<1>4. /\ reload[n].pc = "rules" /\ reload'[n].pc = "blocklist"
      /\ rx' = rx /\ always' = always
      /\ failed'[n] = TRUE \/ failed' = failed
    BY <1>2, Moves, Failing DEF failing
<1>5. ListStands(n)'
    BY <1>3, <1>4 DEF Inv, ListsStand, ListStands, Guarded
<1> QED BY <1>1, <1>2, <1>5, ReloadStep DEF EngineFields

LEMMA ReloadBlocklistKeeps == ASSUME Inv, NEW n \in Nodes, ReloadBlocklist(n) PROVE Inv'
<1>1. Reloads(n, "blocklist", "enable") BY DEF ReloadBlocklist
<1>2. CASE Set(n, "blocked", store[n].blocked) /\ UNCHANGED failing
    <2>1. eng'[n].blocked = store[n].blocked
        BY <1>2, SetField DEF Inv, ShapeOK, EngineFields
    <2>2. always'[n] \subseteq eng'[n].blocked
        BY <1>1, <2>1, Moves DEF Inv, Tracked
    <2>3. ListStands(n)' BY <1>1, <2>2, Moves DEF ListStands
    <2> QED BY <1>1, <1>2, <2>3, ReloadStep DEF EngineFields
<1>3. CASE Set(n, "blocked", {}) /\ Fails(n)
    <2>1. ListStands(n)' BY <1>3, Failing DEF ListStands
    <2> QED BY <1>1, <1>3, <2>1, ReloadStep DEF EngineFields
<1> QED BY <1>2, <1>3 DEF ReloadBlocklist

LEMMA ReloadEnablesKeeps == ASSUME Inv, NEW n \in Nodes, ReloadEnables(n) PROVE Inv'
<1>1. /\ Reloads(n, "enable", "idle") /\ Set(n, "on", reload[n].on) /\ UNCHANGED failing
    BY DEF ReloadEnables
<1>2. eng'[n].blocked = eng[n].blocked
    BY <1>1, SetField DEF Inv, ShapeOK, EngineFields
<1>3. /\ reload[n].pc = "enable" /\ reload'[n].pc = "idle"
      /\ rx' = rx /\ always' = always /\ failed' = failed
    BY <1>1, Moves DEF failing
<1>4. ListStands(n)'
    BY <1>2, <1>3 DEF Inv, ListsStand, ListStands, Guarded
<1> QED BY <1>1, <1>4, ReloadStep DEF EngineFields

(* The list is cleared only after a failure. *)
LEMMA ReloadClearsKeeps == ASSUME Inv, NEW n \in Nodes, ReloadClears(n) PROVE Inv'
<1>1. CASE Reloads(n, "clear", "cleared") /\ Set(n, "rules", <<>>) /\ UNCHANGED failing
    <2>1. ListStands(n)'
        BY <1>1, Moves DEF Inv, ListsStand, ListStands, failing
    <2> QED BY <1>1, <2>1, ReloadStep DEF EngineFields
<1>2. CASE Reloads(n, "cleared", "idle") /\ Set(n, "blocked", {}) /\ UNCHANGED failing
    <2>1. ListStands(n)'
        BY <1>2, Moves DEF Inv, ListsStand, ListStands, failing
    <2> QED BY <1>2, <2>1, ReloadStep DEF EngineFields
<1> QED BY <1>1, <1>2 DEF ReloadClears

-----------------------------------------------------------------------------
LEMMA InitHolds == Init => Inv
BY DigiAssumption DEF Init, Off, Inv, ShapeOK, Tracked, ListsStand, ListStands, Guarded, Senders, BlockedSilent,
       EngineFields

LEMMA StepKeeps == Inv /\ [Next]_vars => Inv'
<1> SUFFICES ASSUME Inv, [Next]_vars PROVE Inv'
    OBVIOUS
<1>1. CASE \E t \in Traffic : Send(t) BY <1>1, SendKeeps
<1>2. ASSUME NEW n \in Nodes, Handle(n) PROVE Inv'
    BY <1>2, AdmitKeeps, IgnoreKeeps, ForgoKeeps, RepeatKeeps DEF Handle
<1>3. ASSUME NEW n \in Nodes, Reload(n) PROVE Inv'
    BY <1>3, ReloadReadsKeeps, ReloadRulesKeeps, ReloadBlocklistKeeps, ReloadEnablesKeeps,
       ReloadClearsKeeps DEF Reload
<1>4. ASSUME NEW n \in Nodes, Operator(n) PROVE Inv'
    BY <1>4, OperatorKeeps
<1>5. ASSUME NEW n \in Nodes, WindowPasses(n) \/ GovernorWindowPasses(n) PROVE Inv'
    BY <1>5 DEF Inv, ShapeOK, Tracked, ListsStand, ListStands, Guarded, Senders, BlockedSilent,
                WindowPasses, GovernorWindowPasses, settings, failing
<1>6. CASE UNCHANGED vars
    BY <1>6 DEF Inv, ShapeOK, Tracked, ListsStand, ListStands, Guarded, Senders, BlockedSilent, vars
<1> QED BY <1>1, <1>2, <1>3, <1>4, <1>5, <1>6 DEF Next

\* Whatever the network, the traffic, the rules and the order of saves, reloads and frames:
\* a source that every saved list holds is not repeated, unless a reload failed (Handle,
\* digipeaterComponent).
THEOREM NeverRepeatsBlocked == Spec => []BlockedSilent
<1>1. Inv => BlockedSilent BY DEF Inv
<1> QED BY <1>1, InitHolds, StepKeeps, PTL DEF Spec

-----------------------------------------------------------------------------
(* The least element of a set of natural numbers, and induction up to a    *)
(* bound, in the form that the sums over a path need.                      *)

LEMMA LeastElement ==
    ASSUME NEW T \in SUBSET Nat, T # {}
    PROVE  \E x \in T : \A y \in T : x <= y
<1>1. PICK x \in T : \A y \in T : ~(<<y, x>> \in OpToRel(<, Nat))
  BY NatLessThanWellFounded, WFMin
<1>2. \A y \in T : ~(y < x) BY <1>1 DEF OpToRel
<1> QED BY <1>2

LEMMA Climb ==
    ASSUME NEW N \in Nat, NEW T, 0 \in T, \A k \in 0 .. N : k < N /\ k \in T => k + 1 \in T
    PROVE  \A k \in 0 .. N : k \in T
<1> DEFINE Missed == {k \in 0 .. N : k \notin T}
<1> SUFFICES ASSUME Missed # {} PROVE FALSE OBVIOUS
<1>1. Missed \in SUBSET Nat OBVIOUS
<1>2. PICK x \in Missed : \A y \in Missed : x <= y BY <1>1, LeastElement
<1>3. x # 0 /\ x \in 0 .. N /\ x \notin T OBVIOUS
<1>4. x - 1 \in 0 .. N /\ x - 1 < N /\ (x - 1) + 1 = x BY <1>3
<1>5. x - 1 \notin Missed BY <1>2, <1>4
<1> QED BY <1>3, <1>4, <1>5

-----------------------------------------------------------------------------
(* Hops: what a slot grants, summed over a path.                           *)

LEMMA SlotFields ==
    ASSUME NEW e \in Slot
    PROVE  /\ e = [addr |-> e.addr, used |-> e.used] /\ e.used \in BOOLEAN
           /\ e.addr = [call |-> e.addr.call, n |-> e.addr.n, left |-> e.addr.left]
           /\ e.addr.call \in STRING /\ e.addr.n \in Nat /\ e.addr.left \in Nat
BY DEF Slot, Addr

LEMMA HopsNat == ASSUME NEW e \in Slot PROVE Hops(e) \in Nat
BY SlotFields DEF Hops

IsTally(g, path) ==
    g = [k \in 0 .. Len(path) |-> IF k = 0 THEN 0 ELSE g[k - 1] + Hops(path[k])]

LEMMA TallyExists ==
    ASSUME NEW path \in Seq(Slot)
    PROVE  \E g : IsTally(g, path)
<1> DEFINE Step(g, k) == IF k = 0 THEN 0 ELSE g[k - 1] + Hops(path[k])
           T == {n \in 0 .. Len(path) : \E g : g = [k \in 0 .. n |-> Step(g, k)]}
<1>1. Len(path) \in Nat BY LenProperties
<1>2. 0 \in T
  <2> DEFINE g == [k \in 0 .. 0 |-> 0]
  <2>1. \A k \in 0 .. 0 : Step(g, k) = 0 OBVIOUS
  <2>2. g = [k \in 0 .. 0 |-> Step(g, k)] BY <2>1
  <2>3. \E f : f = [k \in 0 .. 0 |-> Step(f, k)] BY <2>2
  <2>4. 0 \in 0 .. Len(path) BY <1>1
  <2> QED BY <2>3, <2>4
<1>3. ASSUME NEW n \in 0 .. Len(path), n < Len(path), n \in T PROVE n + 1 \in T
  <2>1. PICK g : g = [k \in 0 .. n |-> Step(g, k)] BY <1>3
  <2> DEFINE h == [k \in 0 .. n + 1 |-> IF k = n + 1 THEN g[n] + Hops(path[n + 1]) ELSE g[k]]
  <2>2. \A k \in 0 .. n : g[k] = Step(g, k) BY <2>1
  <2>3. ASSUME NEW k \in 0 .. n + 1 PROVE h[k] = Step(h, k)
    <3>1. CASE k = 0
      <4>1. h[k] = g[0] /\ g[0] = Step(g, 0) BY <3>1, <2>2, <1>1
      <4> QED BY <4>1, <3>1
    <3>2. CASE k # 0 /\ k # n + 1
      <4>1. k \in 0 .. n /\ k - 1 \in 0 .. n + 1 /\ k - 1 # n + 1 BY <3>2, <1>1
      <4>2. h[k] = g[k] /\ h[k - 1] = g[k - 1] BY <4>1, <3>2, <1>1
      <4> QED BY <4>1, <4>2, <3>2, <2>2
    <3>3. CASE k = n + 1
      <4>1. h[k] = g[n] + Hops(path[k]) BY <3>3, <1>1
      <4>2. k - 1 = n /\ n \in 0 .. n + 1 /\ n # n + 1 /\ k # 0 BY <3>3, <1>1
      <4>3. h[n] = g[n] BY <4>2
      <4> QED BY <4>1, <4>2, <4>3
    <3> QED BY <3>1, <3>2, <3>3
  <2>4. h = [k \in 0 .. n + 1 |-> h[k]] OBVIOUS
  <2> HIDE DEF h
  <2>5. h = [k \in 0 .. n + 1 |-> Step(h, k)] BY <2>3, <2>4
  <2>6. n + 1 \in 0 .. Len(path) BY <1>1, <1>3
  <2> QED BY <2>5, <2>6
<1> HIDE DEF T
<1>4. \A k \in 0 .. Len(path) : k \in T BY <1>1, <1>2, <1>3, Climb
<1>5. Len(path) \in T BY <1>1, <1>4
<1> QED BY <1>5 DEF T, IsTally

\* Granted is the end of a tally, all of whose entries are natural numbers.
LEMMA GrantedTally ==
    ASSUME NEW path \in Seq(Slot)
    PROVE  \E g : /\ g[0] = 0 /\ Granted(path) = g[Len(path)]
                  /\ \A k \in 0 .. Len(path) : g[k] \in Nat
                  /\ \A k \in 1 .. Len(path) : g[k] = g[k - 1] + Hops(path[k])
<1> DEFINE g == CHOOSE g : IsTally(g, path)
           T == {k \in 0 .. Len(path) : g[k] \in Nat}
<1>1. Len(path) \in Nat BY LenProperties
<1>2. IsTally(g, path) BY TallyExists
<1>3. Granted(path) = g[Len(path)] BY DEF Granted, IsTally
<1> HIDE DEF g
<1>4. g[0] = 0 /\ \A k \in 1 .. Len(path) : g[k] = g[k - 1] + Hops(path[k])
  <2>1. \A k \in 0 .. Len(path) : g[k] = IF k = 0 THEN 0 ELSE g[k - 1] + Hops(path[k])
    BY <1>2 DEF IsTally
  <2> QED BY <2>1, <1>1
<1>5. \A k \in 1 .. Len(path) : Hops(path[k]) \in Nat BY HopsNat, ElementOfSeq
<1>6. 0 \in T BY <1>1, <1>4
<1>7. ASSUME NEW k \in 0 .. Len(path), k < Len(path), k \in T PROVE k + 1 \in T
  <2>1. k + 1 \in 1 .. Len(path) /\ (k + 1) - 1 = k BY <1>1, <1>7
  <2> QED BY <2>1, <1>4, <1>5, <1>7
<1> HIDE DEF T
<1>8. \A k \in 0 .. Len(path) : k \in T BY <1>1, <1>6, <1>7, Climb
<1> QED BY <1>3, <1>4, <1>8 DEF T

LEMMA GrantedNat == ASSUME NEW path \in Seq(Slot) PROVE Granted(path) \in Nat
<1>1. Len(path) \in Nat BY LenProperties
<1> QED BY <1>1, GrantedTally

\* A path grants less when no slot grants more and one grants less.
LEMMA GrantedLess ==
    ASSUME NEW path \in Seq(Slot), NEW new \in Seq(Slot), Len(new) = Len(path),
           NEW i \in 1 .. Len(path), Hops(new[i]) < Hops(path[i]),
           \A k \in 1 .. Len(path) : Hops(new[k]) <= Hops(path[k])
    PROVE  Granted(new) + 1 <= Granted(path)
<1>1. Len(path) \in Nat BY LenProperties
<1>2. PICK g : /\ g[0] = 0 /\ Granted(path) = g[Len(path)]
               /\ \A k \in 0 .. Len(path) : g[k] \in Nat
               /\ \A k \in 1 .. Len(path) : g[k] = g[k - 1] + Hops(path[k])
  BY GrantedTally
<1>3. PICK h : /\ h[0] = 0 /\ Granted(new) = h[Len(path)]
               /\ \A k \in 0 .. Len(path) : h[k] \in Nat
               /\ \A k \in 1 .. Len(path) : h[k] = h[k - 1] + Hops(new[k])
  BY GrantedTally
<1>4. \A k \in 1 .. Len(path) : Hops(path[k]) \in Nat /\ Hops(new[k]) \in Nat
  BY HopsNat, ElementOfSeq
<1> DEFINE T == {k \in 0 .. Len(path) : h[k] <= g[k] /\ (k >= i => h[k] + 1 <= g[k])}
<1>5. 0 \in T BY <1>1, <1>2, <1>3
<1>6. ASSUME NEW k \in 0 .. Len(path), k < Len(path), k \in T PROVE k + 1 \in T
  <2>1. k + 1 \in 1 .. Len(path) /\ (k + 1) - 1 = k /\ k + 1 \in 0 .. Len(path) BY <1>1, <1>6
  <2>2. g[k + 1] = g[k] + Hops(path[k + 1]) /\ h[k + 1] = h[k] + Hops(new[k + 1])
    BY <2>1, <1>2, <1>3
  <2>3. h[k] <= g[k] /\ (k >= i => h[k] + 1 <= g[k]) BY <1>6
  <2>4. g[k] \in Nat /\ h[k] \in Nat BY <1>2, <1>3
  <2>5. Hops(new[k + 1]) <= Hops(path[k + 1]) /\ Hops(path[k + 1]) \in Nat /\ Hops(new[k + 1]) \in Nat
    BY <2>1, <1>4
  <2>6. k + 1 = i => Hops(new[k + 1]) < Hops(path[k + 1]) OBVIOUS
  <2>7. h[k + 1] <= g[k + 1] BY <2>2, <2>3, <2>4, <2>5
  <2>8. ASSUME k + 1 >= i PROVE h[k + 1] + 1 <= g[k + 1]
    <3>1. k >= i \/ k + 1 = i BY <2>8
    <3> QED BY <3>1, <2>2, <2>3, <2>4, <2>5, <2>6
  <2> QED BY <2>1, <2>7, <2>8
<1> HIDE DEF T
<1>7. \A k \in 0 .. Len(path) : k \in T BY <1>1, <1>5, <1>6, Climb
<1>8. Len(path) \in T BY <1>1, <1>7
<1> QED BY <1>1, <1>2, <1>3, <1>8 DEF T

\* A slot that grants nothing changes nothing where it is put in.
LEMMA GrantedInserted ==
    ASSUME NEW path \in Seq(Slot), NEW new \in Seq(Slot), NEW i \in 1 .. Len(path),
           Len(new) = Len(path) + 1, Hops(new[i]) = 0,
           \A k \in 1 .. Len(path) : k < i => new[k] = path[k],
           \A k \in 1 .. Len(path) : k >= i => new[k + 1] = path[k]
    PROVE  Granted(new) = Granted(path)
<1> DEFINE L == Len(path)
<1>1. L \in Nat BY LenProperties
<1>2. PICK g : /\ g[0] = 0 /\ Granted(path) = g[L]
               /\ \A k \in 0 .. L : g[k] \in Nat
               /\ \A k \in 1 .. L : g[k] = g[k - 1] + Hops(path[k])
  BY GrantedTally
<1>3. PICK h : /\ h[0] = 0 /\ Granted(new) = h[L + 1]
               /\ \A k \in 0 .. L + 1 : h[k] \in Nat
               /\ \A k \in 1 .. L + 1 : h[k] = h[k - 1] + Hops(new[k])
  <2>1. PICK h : /\ h[0] = 0 /\ Granted(new) = h[Len(new)]
                 /\ \A k \in 0 .. Len(new) : h[k] \in Nat
                 /\ \A k \in 1 .. Len(new) : h[k] = h[k - 1] + Hops(new[k])
    BY GrantedTally
  <2>2. Len(new) = L + 1 OBVIOUS
  <2> HIDE DEF L
  <2> QED BY <2>1, <2>2
<1> DEFINE T == {k \in 0 .. L : (k < i => h[k] = g[k]) /\ (k >= i => h[k + 1] = g[k])}
<1> HIDE DEF L
<1>a. i \in 1 .. L BY DEF L
<1>b. ASSUME NEW k \in 0 .. L, k < L
      PROVE  k + 1 \in 1 .. L /\ (k + 1) - 1 = k /\ k + 1 \in 0 .. L /\ k + 2 \in 1 .. L + 1
             /\ (k + 2) - 1 = k + 1 /\ k + 1 \in 1 .. L + 1
  BY <1>1, <1>b
<1>4. 0 \in T BY <1>1, <1>2, <1>3, <1>a
<1>5. ASSUME NEW k \in 0 .. L, k < L, k \in T PROVE k + 1 \in T
  <2>1. k + 1 \in 1 .. L /\ (k + 1) - 1 = k /\ k + 1 \in 0 .. L /\ k + 2 \in 1 .. L + 1
        /\ (k + 2) - 1 = k + 1 /\ k + 1 \in 1 .. L + 1
    BY <1>b, <1>5
  <2>2. /\ g[k + 1] = g[k] + Hops(path[k + 1]) /\ h[k + 1] = h[k] + Hops(new[k + 1])
        /\ h[k + 2] = h[k + 1] + Hops(new[k + 2])
    BY <2>1, <1>2, <1>3
  <2>3. CASE k + 1 < i
    <3>1. new[k + 1] = path[k + 1] BY <2>1, <2>3 DEF L
    <3>2. h[k] = g[k] BY <1>5, <2>3, <1>a
    <3> QED BY <3>1, <3>2, <2>1, <2>2, <2>3, <1>a
  <2>4. CASE k + 1 = i
    <3>1. new[(k + 1) + 1] = path[k + 1] BY <2>1, <2>4 DEF L
    <3>2. h[k] = g[k] BY <1>5, <2>4, <1>a
    <3>3. (k + 1) + 1 = k + 2 BY <2>1
    <3>4. h[k + 1] = g[k]
      <4>1. Hops(new[k + 1]) = 0 BY <2>4
      <4>2. g[k] \in Nat BY <1>2
      <4> QED BY <4>1, <4>2, <3>2, <2>2
    <3> QED BY <3>1, <3>3, <3>4, <2>1, <2>2, <2>4, <1>a
  <2>5. CASE k + 1 > i
    <3>1. new[(k + 1) + 1] = path[k + 1] BY <2>1, <2>5, <1>a DEF L
    <3>2. h[k + 1] = g[k] BY <1>5, <2>5, <1>a
    <3>3. (k + 1) + 1 = k + 2 BY <2>1
    <3> QED BY <3>1, <3>2, <3>3, <2>1, <2>2, <2>5, <1>a
  <2> QED BY <2>3, <2>4, <2>5, <2>1, <1>a
<1> HIDE DEF T
<1>6. \A k \in 0 .. L : k \in T BY <1>1, <1>4, <1>5, Climb
<1>7. L \in T BY <1>1, <1>6
<1> QED BY <1>1, <1>2, <1>3, <1>7, <1>a DEF T

-----------------------------------------------------------------------------
(* What a repeat does to the path.                                         *)

LEMMA FirstUnused ==
    ASSUME NEW path \in Seq(Slot), Unused(path) # {}
    PROVE  /\ firstUnconsumed(path) \in 1 .. Len(path)
           /\ path[firstUnconsumed(path)].used = FALSE
<1>1. DOMAIN path = 1 .. Len(path) /\ Len(path) \in Nat BY LenProperties
<1>2. Unused(path) \in SUBSET Nat BY <1>1 DEF Unused
<1>3. \E x \in Unused(path) : \A y \in Unused(path) : x <= y BY <1>2, LeastElement
<1>4. firstUnconsumed(path) \in Unused(path) BY <1>3 DEF firstUnconsumed
<1>5. path[firstUnconsumed(path)] \in Slot BY <1>1, <1>4, ElementOfSeq DEF Unused
<1> QED BY <1>1, <1>4, <1>5, SlotFields DEF Unused

LEMMA MarkUsedSlots ==
    ASSUME NEW path \in Seq(Slot), NEW slots
    PROVE  /\ MarkUsed(path, slots) \in Seq(Slot) /\ Len(MarkUsed(path, slots)) = Len(path)
           /\ \A k \in 1 .. Len(path) :
                /\ k \in slots => Hops(MarkUsed(path, slots)[k]) = 0
                /\ k \notin slots => MarkUsed(path, slots)[k] = path[k]
<1> DEFINE new == MarkUsed(path, slots)
<1>1. DOMAIN path = 1 .. Len(path) /\ Len(path) \in Nat BY LenProperties
<1>2. ASSUME NEW k \in 1 .. Len(path)
      PROVE  /\ new[k] \in Slot
             /\ k \in slots => new[k].used = TRUE
             /\ k \notin slots => new[k] = path[k]
  <2>1. path[k] \in Slot BY ElementOfSeq
  <2>2. new[k] = [path[k] EXCEPT !.used = path[k].used \/ k \in slots] BY <1>1 DEF MarkUsed
  <2>3. path[k] = [addr |-> path[k].addr, used |-> path[k].used] /\ path[k].addr \in Addr
        /\ path[k].used \in BOOLEAN
    BY <2>1 DEF Slot
  <2>4. new[k] = [addr |-> path[k].addr, used |-> path[k].used \/ k \in slots] BY <2>2, <2>3
  <2>5. (path[k].used \/ k \in slots) \in BOOLEAN OBVIOUS
  <2>6. new[k] \in Slot BY <2>3, <2>4, <2>5 DEF Slot
  <2>7. ASSUME k \in slots PROVE new[k].used = TRUE
    <3>1. (path[k].used \/ k \in slots) = TRUE BY <2>7
    <3>2. new[k] = [addr |-> path[k].addr, used |-> TRUE] BY <2>4, <3>1
    <3> QED BY <3>2
  <2>8. ASSUME k \notin slots PROVE new[k] = path[k]
    <3>1. (path[k].used \/ k \in slots) = path[k].used BY <2>3, <2>8
    <3> QED BY <2>3, <2>4, <3>1
  <2> QED BY <2>6, <2>7, <2>8
<1>3. new = [k \in 1 .. Len(path) |-> new[k]] BY <1>1 DEF MarkUsed
<1> HIDE DEF new
<1>4. new \in [1 .. Len(path) -> Slot] BY <1>2, <1>3
<1>5. new \in Seq(Slot) /\ Len(new) = Len(path) BY <1>1, <1>4
<1>6. \A k \in 1 .. Len(path) : k \in slots => Hops(new[k]) = 0 BY <1>2 DEF Hops
<1> QED BY <1>2, <1>5, <1>6 DEF new

\* Marking slots used, one of them unused before, costs a hop at least.
LEMMA MarkUsedCosts ==
    ASSUME NEW path \in Seq(Slot), NEW slots, NEW i \in 1 .. Len(path), i \in slots,
           path[i].used = FALSE
    PROVE  /\ MarkUsed(path, slots) \in Seq(Slot)
           /\ Granted(MarkUsed(path, slots)) + 1 <= Granted(path)
<1> DEFINE new == MarkUsed(path, slots)
<1>1. /\ new \in Seq(Slot) /\ Len(new) = Len(path)
      /\ \A k \in 1 .. Len(path) : k \in slots => Hops(new[k]) = 0
      /\ \A k \in 1 .. Len(path) : k \notin slots => new[k] = path[k]
  BY MarkUsedSlots
<1>2. \A k \in 1 .. Len(path) : path[k] \in Slot BY ElementOfSeq
<1>3. \A k \in 1 .. Len(path) : Hops(path[k]) \in Nat BY <1>2, HopsNat
<1>4. Hops(path[i]) > 0
  <2>1. path[i].addr.left \in Nat BY <1>2, SlotFields
  <2>2. Hops(path[i]) = IF path[i].addr.left = 0 THEN 1 ELSE path[i].addr.left BY DEF Hops
  <2> QED BY <2>1, <2>2
<1> HIDE DEF new
<1>5. \A k \in 1 .. Len(path) : Hops(new[k]) <= Hops(path[k])
  <2> SUFFICES ASSUME NEW k \in 1 .. Len(path) PROVE Hops(new[k]) <= Hops(path[k]) OBVIOUS
  <2>1. CASE k \in slots BY <2>1, <1>1, <1>3
  <2>2. CASE k \notin slots
    <3>1. Hops(new[k]) = Hops(path[k]) BY <2>2, <1>1
    <3> QED BY <3>1, <1>3
  <2> QED BY <2>1, <2>2
<1>6. Hops(new[i]) < Hops(path[i]) BY <1>1, <1>4
<1>7. Granted(new) + 1 <= Granted(path) BY <1>1, <1>5, <1>6, GrantedLess
<1> QED BY <1>1, <1>7 DEF new

\* An alias with hops left loses one of them.
LEMMA OneHopCosts ==
    ASSUME NEW e \in Slot, e.used = FALSE, e.addr.left > 0
    PROVE  OneHop(e) \in Slot /\ Hops(OneHop(e)) < Hops(e)
<1> DEFINE a == [call |-> e.addr.call, n |-> e.addr.n, left |-> e.addr.left - 1]
<1>1. /\ e = [addr |-> e.addr, used |-> e.used]
      /\ e.addr = [call |-> e.addr.call, n |-> e.addr.n, left |-> e.addr.left]
      /\ e.addr.call \in STRING /\ e.addr.n \in Nat /\ e.addr.left \in Nat
  BY SlotFields
<1>2. OneHop(e) = [addr |-> a, used |-> (e.addr.left = 1)]
  <2>1. [e.addr EXCEPT !.left = @ - 1] = a BY <1>1
  <2>2. OneHop(e) = [e EXCEPT !.addr = [e.addr EXCEPT !.left = @ - 1], !.used = (e.addr.left = 1)]
    BY <1>1 DEF OneHop
  <2> QED BY <1>1, <2>1, <2>2
<1>3. a \in Addr BY <1>1 DEF Addr
<1>4. OneHop(e).addr.left = e.addr.left - 1 BY <1>2
<1>5. Hops(e) = e.addr.left BY <1>1 DEF Hops
<1>6. (e.addr.left = 1) \in BOOLEAN OBVIOUS
<1>7. OneHop(e) \in Slot BY <1>2, <1>3, <1>6 DEF Slot
<1>8. CASE e.addr.left = 1
  <2>1. OneHop(e).used = TRUE
    <3>1. (e.addr.left = 1) = TRUE BY <1>8
    <3>2. OneHop(e) = [addr |-> a, used |-> TRUE] BY <1>2, <3>1
    <3> HIDE DEF a
    <3> QED BY <3>2
  <2> QED BY <2>1, <1>5, <1>7, <1>8 DEF Hops
<1>9. CASE e.addr.left # 1
  <2>1. OneHop(e).used = FALSE
    <3>1. (e.addr.left = 1) = FALSE BY <1>9
    <3>2. OneHop(e) = [addr |-> a, used |-> FALSE] BY <1>2, <3>1
    <3> HIDE DEF a
    <3> QED BY <3>2
  <2>2. Hops(OneHop(e)) = e.addr.left - 1 BY <2>1, <1>1, <1>4, <1>9 DEF Hops
  <2> QED BY <2>2, <1>1, <1>5, <1>7
<1> QED BY <1>8, <1>9

LEMMA InsertSlot ==
    ASSUME NEW path \in Seq(Slot), NEW i \in 1 .. Len(path), NEW e \in Slot
    PROVE  /\ InsertAt(path, i, e) \in Seq(Slot)
           /\ Len(InsertAt(path, i, e)) = Len(path) + 1
           /\ InsertAt(path, i, e)[i] = e
           /\ \A k \in 1 .. Len(path) : k < i => InsertAt(path, i, e)[k] = path[k]
           /\ \A k \in 1 .. Len(path) : k >= i => InsertAt(path, i, e)[k + 1] = path[k]
<1> DEFINE L == Len(path)
           front == SubSeq(path, 1, i - 1)
           back == SubSeq(path, i, L)
<1>1. L \in Nat /\ i \in 1 .. L BY LenProperties
<1>2. front \in Seq(Slot) /\ Len(front) = i - 1 /\ \A k \in 1 .. i - 1 : front[k] = path[k]
  BY <1>1, SubSeqProperties
<1>3. back \in Seq(Slot) /\ Len(back) = L - i + 1
      /\ \A k \in 1 .. L - i + 1 : back[k] = path[i + k - 1]
  BY <1>1, SubSeqProperties
<1>4. InsertAt(path, i, e) = (front \o <<e>>) \o back BY DEF InsertAt
<1> HIDE DEF L, front, back
<1>5. <<e>> \in Seq(Slot) /\ Len(<<e>>) = 1 /\ <<e>>[1] = e OBVIOUS
<1> DEFINE mid == front \o <<e>>
<1>6. /\ mid \in Seq(Slot) /\ Len(mid) = i /\ mid[i] = e
      /\ \A k \in 1 .. i - 1 : mid[k] = path[k]
  BY <1>1, <1>2, <1>5, ConcatProperties
<1> HIDE DEF mid
<1>7. /\ mid \o back \in Seq(Slot) /\ Len(mid \o back) = L + 1
      /\ \A k \in 1 .. i : (mid \o back)[k] = mid[k]
      /\ \A k \in i + 1 .. L + 1 : (mid \o back)[k] = back[k - i]
  <2>1. /\ mid \o back \in Seq(Slot) /\ Len(mid \o back) = Len(mid) + Len(back)
        /\ \A k \in 1 .. Len(mid) + Len(back) :
              (mid \o back)[k] = IF k <= Len(mid) THEN mid[k] ELSE back[k - Len(mid)]
    BY <1>3, <1>6, ConcatProperties
  <2>2. Len(mid) + Len(back) = L + 1 /\ Len(mid) = i BY <1>1, <1>3, <1>6
  <2>3. \A k \in 1 .. L + 1 : (mid \o back)[k] = IF k <= i THEN mid[k] ELSE back[k - i]
    BY <2>1, <2>2
  <2>4. \A k \in 1 .. i : k \in 1 .. L + 1 /\ k <= i BY <1>1
  <2>5. \A k \in i + 1 .. L + 1 : k \in 1 .. L + 1 /\ ~(k <= i) BY <1>1
  <2> QED BY <2>1, <2>2, <2>3, <2>4, <2>5
<1>8. ASSUME NEW k \in 1 .. L, k >= i PROVE (mid \o back)[k + 1] = path[k]
  <2>1. k + 1 \in i + 1 .. L + 1 /\ (k + 1) - i \in 1 .. L - i + 1 BY <1>1, <1>8
  <2>2. (mid \o back)[k + 1] = back[(k + 1) - i] BY <2>1, <1>7
  <2>3. back[(k + 1) - i] = path[i + ((k + 1) - i) - 1] BY <2>1, <1>3
  <2>4. i + ((k + 1) - i) - 1 = k BY <1>1
  <2> QED BY <2>2, <2>3, <2>4
<1>9. /\ InsertAt(path, i, e) = mid \o back /\ (mid \o back)[i] = e
      /\ \A k \in 1 .. L : k < i => (mid \o back)[k] = path[k]
  BY <1>1, <1>4, <1>6, <1>7 DEF mid
<1> QED BY <1>7, <1>8, <1>9 DEF L

\* Whatever rule is applied to the first unused slot that it matches costs a hop at least.
LEMMA applyMatchCosts ==
    ASSUME NEW path \in Seq(Slot), Unused(path) # {}, NEW r, NEW mycall \in STRING,
           ruleMatches(r, path[firstUnconsumed(path)].addr)
    PROVE  /\ applyMatch(path, r, mycall) \in Seq(Slot)
           /\ Granted(applyMatch(path, r, mycall)) + 1 <= Granted(path)
<1> DEFINE i == firstUnconsumed(path)
           less == [path EXCEPT ![i] = OneHop(@)]
           own == [addr |-> Address(mycall), used |-> TRUE]
<1>1. i \in 1 .. Len(path) /\ path[i].used = FALSE BY FirstUnused
<1>2. path[i] \in Slot BY <1>1, ElementOfSeq
<1>3. CASE r.type = "exact"
  <2>1. applyMatch(path, r, mycall) = MarkUsed(path, {i}) BY <1>3 DEF applyMatch
  <2> QED BY <2>1, <1>1, MarkUsedCosts
<1>4. CASE r.type # "exact"
  <2>1. path[i].addr.left > 0 BY <1>4 DEF ruleMatches, matchesWidenAlias
  <2>2. OneHop(path[i]) \in Slot /\ Hops(OneHop(path[i])) < Hops(path[i])
    BY <2>1, <1>1, <1>2, OneHopCosts
  <2>3. applyMatch(path, r, mycall) = IF Len(path) < MaxRepeaters THEN InsertAt(less, i, own) ELSE less
    BY <1>4 DEF applyMatch
  <2>4. DOMAIN path = 1 .. Len(path) /\ Len(path) \in Nat BY LenProperties
  <2>5. /\ less \in Seq(Slot) /\ Len(less) = Len(path)
        /\ less[i] = OneHop(path[i]) /\ \A k \in 1 .. Len(path) : k # i => less[k] = path[k]
    <3>1. less \in [1 .. Len(path) -> Slot] BY <2>2, <2>4, <1>1
    <3> QED BY <3>1, <2>4, <1>1
  <2>6. own \in Slot BY DEF Address, Slot, Addr
  <2>7. Hops(own) = 0 BY DEF Hops
  <2> HIDE DEF i, less, own
  <2>8. \A k \in 1 .. Len(path) : Hops(less[k]) <= Hops(path[k])
    <3> SUFFICES ASSUME NEW k \in 1 .. Len(path) PROVE Hops(less[k]) <= Hops(path[k]) OBVIOUS
    <3>1. path[k] \in Slot /\ less[k] \in Slot BY <2>5, ElementOfSeq
    <3>2. Hops(path[k]) \in Nat /\ Hops(less[k]) \in Nat BY <3>1, HopsNat
    <3>3. CASE k = i BY <3>2, <3>3, <2>2, <2>5
    <3>4. CASE k # i
      <4>1. less[k] = path[k] BY <3>4, <2>5
      <4> QED BY <4>1, <3>2
    <3> QED BY <3>3, <3>4
  <2>9. Granted(less) + 1 <= Granted(path)
    <3>1. Hops(less[i]) < Hops(path[i]) BY <2>2, <2>5
    <3> QED BY <3>1, <2>5, <2>8, <1>1, GrantedLess
  <2>10. InsertAt(less, i, own) \in Seq(Slot) /\ Granted(InsertAt(less, i, own)) = Granted(less)
    <3> DEFINE new == InsertAt(less, i, own)
    <3>1. i \in 1 .. Len(less) BY <2>5, <1>1
    <3>2. /\ new \in Seq(Slot) /\ Len(new) = Len(less) + 1 /\ new[i] = own
          /\ \A k \in 1 .. Len(less) : k < i => new[k] = less[k]
          /\ \A k \in 1 .. Len(less) : k >= i => new[k + 1] = less[k]
      BY <3>1, <2>5, <2>6, InsertSlot
    <3> HIDE DEF new
    <3>3. Hops(new[i]) = 0 BY <3>2, <2>7
    <3>4. Granted(new) = Granted(less) BY <3>1, <3>2, <3>3, <2>5, GrantedInserted
    <3> QED BY <3>2, <3>4 DEF new
  <2> QED BY <2>3, <2>5, <2>9, <2>10
<1> QED BY <1>3, <1>4

-----------------------------------------------------------------------------
(* The budget of hops.                                                     *)

Saved == [switch : [on : BOOLEAN, mycall : STRING], rules : Seq(Rule), blocked : Blocklists]

FrameOK(f) == /\ f.path \in Seq(Slot) /\ f.asked \in Seq(Slot) /\ f.hops \in Nat
              /\ f.hops + Granted(f.path) <= Granted(f.asked)
Stored == store \in [Nodes -> Saved]
EngineOK(n) == eng[n].rules \in Seq(Rule) /\ eng[n].mycall \in STRING
InHandOK(n) == rx[n].pc = "admitted" => /\ FrameOK(rx[n].frame) /\ rx[n].rules \in Seq(Rule)
                                        /\ rx[n].mycall \in STRING
AirOK == \A f \in air : FrameOK(f)
Budgets == Stored /\ (\A n \in Nodes : EngineOK(n) /\ InHandOK(n)) /\ AirOK

LEMMA FirstFittingFits ==
    ASSUME NEW n, rx[n].rules \in Seq(Rule), NEW a, NEW types, FirstFitting(n, a, types) # 0
    PROVE  ruleMatches(rx[n].rules[FirstFitting(n, a, types)], a)
<1> DEFINE rules == rx[n].rules
           Fits == {k \in 1 .. Len(rules) : /\ rules[k].type \in types
                                            /\ Usable(rules[k], rx[n].frame.ch)
                                            /\ ruleMatches(rules[k], a)}
<1>1. FirstFitting(n, a, types) = IF Fits # {} THEN Min(Fits) ELSE 0
  BY DEF FirstFitting, SelectInSeq
<1>2. Fits \in SUBSET Nat OBVIOUS
<1>3. Fits # {} BY <1>1
<1>4. \E x \in Fits : \A y \in Fits : x <= y BY <1>2, <1>3, LeastElement
<1>5. Min(Fits) \in Fits BY <1>4 DEF Min
<1> QED BY <1>1, <1>3, <1>5

LEMMA RepeatCosts ==
    ASSUME NEW n, rx[n].frame.path \in Seq(Slot), rx[n].rules \in Seq(Rule), rx[n].mycall \in STRING,
           NEW out \in Repeats(n)
    PROVE  out.path \in Seq(Slot) /\ Granted(out.path) + 1 <= Granted(rx[n].frame.path)
<1> DEFINE f == rx[n].frame
           own == {i \in Unused(f.path) : f.path[i].addr = Address(rx[n].mycall)}
           a == f.path[firstUnconsumed(f.path)].addr
           k == FirstFitting(n, a, {"exact", "widen", "trace"})
           rule == rx[n].rules[k]
<1>1. Unused(f.path) # {} BY DEF Repeats
<1>2. CASE own # {}
  <2> DEFINE i == CHOOSE i \in own : \A j \in own : i <= j
  <2>1. DOMAIN f.path = 1 .. Len(f.path) /\ Len(f.path) \in Nat BY LenProperties
  <2>2. own \in SUBSET Nat BY <2>1 DEF Unused
  <2>3. \E x \in own : \A y \in own : x <= y BY <1>2, <2>2, LeastElement
  <2>4. i \in own BY <2>3
  <2>5. out = Preempt(n, i) BY <1>1, <1>2 DEF Repeats
  <2> HIDE DEF i
  <2>6. i \in 1 .. Len(f.path) /\ ~f.path[i].used /\ f.path[i] \in Slot
    BY <2>1, <2>4, ElementOfSeq DEF Unused
  <2>7. f.path[i].used = FALSE BY <2>6, SlotFields
  <2>8. out.path = MarkUsed(f.path, 1 .. i) BY <2>5 DEF Preempt
  <2>9. i \in 1 .. i BY <2>1, <2>6
  <2> QED BY <2>6, <2>7, <2>8, <2>9, MarkUsedCosts
<1>3. CASE own = {}
  <2>1. k # 0 BY <1>1, <1>3 DEF Repeats
  <2>2. ruleMatches(rule, a) BY <2>1, FirstFittingFits
  <2>3. out.path = applyMatch(f.path, rule, rx[n].mycall)
    <3> HIDE DEF k, rule
    <3>1. rule.action # "drop" BY <1>1, <1>3, <2>1 DEF Repeats, k, rule
    <3>2. out = [ch |-> rule.to, path |-> applyMatch(f.path, rule, rx[n].mycall)]
      BY <1>1, <1>3, <2>1, <3>1 DEF Repeats, k, rule
    <3> QED BY <3>2
  <2> QED BY <2>2, <2>3, <1>1, applyMatchCosts
<1> QED BY <1>2, <1>3

-----------------------------------------------------------------------------
LEMMA BudgetsInit == ASSUME Init PROVE Budgets
<1>1. Stored
  <2>1. \A n \in Nodes : store[n] \in [switch : UNION {Switches[m] : m \in Nodes},
                                       rules : Rulesets, blocked : Blocklists]
    BY DigiAssumption DEF Init
  <2>2. \A n \in Nodes : store[n] \in Saved BY <2>1, DigiAssumption DEF Saved
  <2>3. store \in [Nodes -> [switch : UNION {Switches[m] : m \in Nodes},
                             rules : Rulesets, blocked : Blocklists]]
    BY DigiAssumption DEF Init
  <2> QED BY <2>2, <2>3 DEF Stored
<1>2. ASSUME NEW n \in Nodes PROVE EngineOK(n) /\ InHandOK(n)
  <2>1. <<>> \in Seq(Rule) OBVIOUS
  <2>2. eng[n] = Off /\ rx[n].pc = "idle" BY DEF Init
  <2> QED BY <2>1, <2>2, DigiAssumption DEF Off, EngineOK, InHandOK
<1>3. AirOK BY DEF Init, AirOK
<1> QED BY <1>1, <1>2, <1>3 DEF Budgets

LEMMA BudgetsSame ==
    ASSUME Budgets, UNCHANGED <<store, eng>>,
           \A n \in Nodes : rx'[n] = rx[n] \/ rx'[n].pc # "admitted",
           \A f \in air' \ air : FrameOK(f)
    PROVE  Budgets'
<1>1. Stored' BY DEF Budgets, Stored
<1>2. ASSUME NEW n \in Nodes PROVE EngineOK(n)' /\ InHandOK(n)'
  <2>1. EngineOK(n)' BY DEF Budgets, EngineOK
  <2>2. InHandOK(n)'
    <3>1. CASE rx'[n] = rx[n] BY <3>1 DEF Budgets, InHandOK
    <3>2. CASE rx'[n].pc # "admitted" BY <3>2 DEF InHandOK
    <3> QED BY <3>1, <3>2
  <2> QED BY <2>1, <2>2
<1>3. AirOK' BY DEF Budgets, AirOK
<1> QED BY <1>1, <1>2, <1>3 DEF Budgets

LEMMA SendBudgets == ASSUME Budgets, NEW t \in Traffic, Send(t) PROVE Budgets'
<1> DEFINE sent == [src |-> t.src, asked |-> t.path]
<1>1. t.path \in Seq(Slot) BY DigiAssumption
<1>2. ASSUME NEW c \in Copies(t.src, t.ch, sent, t.path, 0, NoCall) PROVE FrameOK(c)
  <2>1. c.path = t.path /\ c.asked = t.path /\ c.hops = 0 BY <1>2 DEF Copies
  <2>2. Granted(t.path) \in Nat BY <1>1, GrantedNat
  <2> QED BY <2>1, <2>2, <1>1 DEF FrameOK
<1>3. \A c \in air' \ air : FrameOK(c) BY <1>2 DEF Send
<1>4. UNCHANGED <<store, eng, rx>> BY DEF Send, settings
<1> QED BY <1>3, <1>4, BudgetsSame

LEMMA AdmitBudgets ==
    ASSUME ShapeOK, Budgets, NEW n \in Nodes, NEW f \in air, Admit(n, f)
    PROVE  Budgets'
<1>1. UNCHANGED <<store, eng>> /\ air' \subseteq air BY DEF Admit, settings
<1>2. FrameOK(f) BY DEF Budgets, AirOK
<1>3. ASSUME NEW m \in Nodes PROVE InHandOK(m)'
  <2>1. CASE rx'[m] = rx[m] BY <2>1 DEF Budgets, InHandOK
  <2>2. CASE m = n /\ rx' = [rx EXCEPT ![n] = [pc |-> "admitted", frame |-> f,
                                               mycall |-> eng[n].mycall, rules |-> eng[n].rules]]
    <3>1. rx'[m] = [pc |-> "admitted", frame |-> f, mycall |-> eng[n].mycall, rules |-> eng[n].rules]
      BY <2>2 DEF ShapeOK
    <3>2. eng[n].rules \in Seq(Rule) /\ eng[n].mycall \in STRING BY DEF Budgets, EngineOK
    <3>3. rx'[m].frame = f /\ rx'[m].rules = eng[n].rules /\ rx'[m].mycall = eng[n].mycall BY <3>1
    <3> QED BY <3>2, <3>3, <1>2 DEF InHandOK
  <2> QED BY <2>1, <2>2 DEF Admit, ShapeOK
<1>4. Stored' /\ AirOK' /\ \A m \in Nodes : EngineOK(m)'
  BY <1>1 DEF Budgets, Stored, AirOK, EngineOK
<1> QED BY <1>3, <1>4 DEF Budgets

LEMMA HandleBudgets == ASSUME ShapeOK, Budgets, NEW n \in Nodes, Handle(n) PROVE Budgets'
<1>1. ASSUME Returns(n)
      PROVE  UNCHANGED <<store, eng>> /\ \A m \in Nodes : rx'[m] = rx[m] \/ rx'[m].pc # "admitted"
  BY <1>1 DEF Returns, settings, ShapeOK
<1>2. CASE \E f \in air : Admit(n, f) BY <1>2, AdmitBudgets
<1>3. CASE Ignore(n) \/ Forgo(n)
  <2>1. Returns(n) /\ air' = air BY <1>3 DEF Ignore, Forgo
  <2> QED BY <2>1, <1>1, BudgetsSame
<1>4. CASE Repeat(n)
  <2> DEFINE f == rx[n].frame
  <2>1. Returns(n) /\ rx[n].pc = "admitted" BY <1>4 DEF Repeat, Returns
  <2>2. FrameOK(f) /\ rx[n].rules \in Seq(Rule) /\ rx[n].mycall \in STRING
    BY <2>1 DEF Budgets, InHandOK
  <2>3. PICK out \in Repeats(n) : air' = air \cup Copies(n, out.ch, f, out.path, f.hops + 1, n)
    BY <1>4 DEF Repeat
  <2>4. out.path \in Seq(Slot) /\ Granted(out.path) + 1 <= Granted(f.path)
    BY <2>2, RepeatCosts DEF FrameOK
  <2>5. ASSUME NEW c \in Copies(n, out.ch, f, out.path, f.hops + 1, n) PROVE FrameOK(c)
    <3>1. c.path = out.path /\ c.asked = f.asked /\ c.hops = f.hops + 1 BY <2>5 DEF Copies
    <3>2. /\ Granted(out.path) \in Nat /\ Granted(f.path) \in Nat /\ Granted(f.asked) \in Nat
          /\ f.hops \in Nat /\ f.hops + Granted(f.path) <= Granted(f.asked)
      BY <2>2, <2>4, GrantedNat DEF FrameOK
    <3>3. (f.hops + 1) + Granted(out.path) <= Granted(f.asked) BY <2>4, <3>2
    <3> QED BY <3>1, <3>2, <3>3, <2>2, <2>4 DEF FrameOK
  <2>6. \A c \in air' \ air : FrameOK(c) BY <2>3, <2>5
  <2> QED BY <2>1, <2>6, <1>1, BudgetsSame
<1> QED BY <1>2, <1>3, <1>4 DEF Handle

LEMMA OperatorBudgets == ASSUME Budgets, NEW n \in Nodes, Operator(n) PROVE Budgets'
<1>1. ASSUME NEW new \in Saved, Save(n, new) PROVE Budgets'
  <2>1. Stored' BY <1>1 DEF Save, Budgets, Stored
  <2>2. UNCHANGED <<eng, rx, air>> BY <1>1 DEF Save, radio
  <2> QED BY <2>1, <2>2 DEF Budgets, EngineOK, InHandOK, AirOK
<1>2. store[n] \in Saved BY DEF Budgets, Stored
<1>3. CASE SaveSwitch(n)
  <2>1. PICK w \in Switches[n] : Save(n, [store[n] EXCEPT !.switch = w]) BY <1>3 DEF SaveSwitch
  <2>2. w \in [on : BOOLEAN, mycall : STRING] BY DigiAssumption
  <2>3. [store[n] EXCEPT !.switch = w] \in Saved BY <1>2, <2>2 DEF Saved
  <2> QED BY <2>1, <2>3, <1>1
<1>4. CASE SaveRules(n)
  <2>1. PICK r \in Rulesets : Save(n, [store[n] EXCEPT !.rules = r]) BY <1>4 DEF SaveRules
  <2>2. r \in Seq(Rule) BY DigiAssumption
  <2>3. [store[n] EXCEPT !.rules = r] \in Saved BY <1>2, <2>2 DEF Saved
  <2> QED BY <2>1, <2>3, <1>1
<1>5. CASE SaveBlocklist(n)
  <2>1. PICK b \in Blocklists : Save(n, [store[n] EXCEPT !.blocked = b]) BY <1>5 DEF SaveBlocklist
  <2>2. [store[n] EXCEPT !.blocked = b] \in Saved BY <1>2 DEF Saved
  <2> QED BY <2>1, <2>2, <1>1
<1> QED BY <1>3, <1>4, <1>5 DEF Operator

LEMMA ReloadBudgets == ASSUME ShapeOK, Budgets, NEW n \in Nodes, Reload(n) PROVE Budgets'
<1>1. UNCHANGED <<store, rx, air>>
  BY DEF Reload, ReloadReads, ReloadRules, ReloadBlocklist, ReloadEnables, ReloadClears, Reloads,
         radio, settings
<1>2. store[n] \in Saved BY DEF Budgets, Stored
<1>3. <<>> \in Seq(Rule) /\ store[n].rules \in Seq(Rule) /\ store[n].switch.mycall \in STRING
  BY <1>2 DEF Saved
<1>4. ASSUME NEW field \in EngineFields, NEW value, Set(n, field, value),
             field = "rules" => value \in Seq(Rule), field = "mycall" => value \in STRING
      PROVE  \A m \in Nodes : EngineOK(m)'
  <2>1. /\ eng'[n][field] = value
        /\ \A g \in EngineFields \ {field} : eng'[n][g] = eng[n][g]
        /\ \A m \in Nodes \ {n} : eng'[m] = eng[m]
    BY <1>4, SetField DEF ShapeOK
  <2>2. eng[n].rules \in Seq(Rule) /\ eng[n].mycall \in STRING BY DEF Budgets, EngineOK
  <2>3. eng'[n].rules \in Seq(Rule)
    BY <2>1, <2>2, <1>4 DEF EngineFields
  <2>4. eng'[n].mycall \in STRING BY <2>1, <2>2, <1>4 DEF EngineFields
  <2> QED BY <2>1, <2>3, <2>4 DEF Budgets, EngineOK
<1>5. \A m \in Nodes : EngineOK(m)'
  <2> USE DEF EngineFields
  <2>1. CASE ReloadReads(n)
    <3>1. Set(n, "mycall", store[n].switch.mycall) \/ Set(n, "on", FALSE)
      BY <2>1 DEF ReloadReads
    <3> QED BY <3>1, <1>3, <1>4
  <2>2. CASE ReloadRules(n)
    <3>1. Set(n, "rules", store[n].rules) \/ Set(n, "rules", <<>>) BY <2>2 DEF ReloadRules
    <3> QED BY <3>1, <1>3, <1>4
  <2>3. CASE ReloadBlocklist(n)
    <3>1. Set(n, "blocked", store[n].blocked) \/ Set(n, "blocked", {}) BY <2>3 DEF ReloadBlocklist
    <3> QED BY <3>1, <1>4
  <2>4. CASE ReloadEnables(n)
    <3>1. Set(n, "on", reload[n].on) BY <2>4 DEF ReloadEnables
    <3> QED BY <3>1, <1>4
  <2>5. CASE ReloadClears(n)
    <3>1. Set(n, "rules", <<>>) \/ Set(n, "blocked", {}) BY <2>5 DEF ReloadClears
    <3> QED BY <3>1, <1>3, <1>4
  <2> QED BY <2>1, <2>2, <2>3, <2>4, <2>5 DEF Reload
<1>6. Stored' /\ AirOK' /\ \A m \in Nodes : InHandOK(m)'
  BY <1>1 DEF Budgets, Stored, AirOK, InHandOK
<1> QED BY <1>5, <1>6 DEF Budgets

LEMMA BudgetsStep == ASSUME ShapeOK, Budgets, [Next]_vars PROVE Budgets'
<1>1. CASE \E t \in Traffic : Send(t) BY <1>1, SendBudgets
<1>2. ASSUME NEW n \in Nodes, Handle(n) PROVE Budgets' BY <1>2, HandleBudgets
<1>3. ASSUME NEW n \in Nodes, Reload(n) PROVE Budgets' BY <1>3, ReloadBudgets
<1>4. ASSUME NEW n \in Nodes, Operator(n) PROVE Budgets' BY <1>4, OperatorBudgets
<1>5. ASSUME NEW n \in Nodes, WindowPasses(n) \/ GovernorWindowPasses(n) PROVE Budgets'
  <2>1. UNCHANGED <<store, eng, rx, air>>
    BY <1>5 DEF WindowPasses, GovernorWindowPasses, settings
  <2> QED BY <2>1, BudgetsSame
<1>6. CASE UNCHANGED vars
  <2>1. UNCHANGED <<store, eng, rx, air>> BY <1>6 DEF vars
  <2> QED BY <2>1, BudgetsSame
<1> QED BY <1>1, <1>2, <1>3, <1>4, <1>5, <1>6 DEF Next

\* However many nodes repeat each other's copies, by aliases, callsigns and rules of any kind,
\* with windows that have lapsed and settings that change: the hops a copy has made and those
\* its path still grants never exceed the path it was sent with.  Every repeat uses up a hop
\* at least, so no frame circles for ever (digipeater.go:342-402, 500-541).
THEOREM HopsWithinBudget == Spec => []HopBudget
<1>1. Inv /\ Budgets /\ [Next]_vars => Inv' /\ Budgets' BY StepKeeps, BudgetsStep DEF Inv
<1>2. Budgets => HopBudget BY DEF Budgets, AirOK, FrameOK, HopBudget
<1> QED BY <1>1, <1>2, InitHolds, BudgetsInit, PTL DEF Spec
=============================================================================
