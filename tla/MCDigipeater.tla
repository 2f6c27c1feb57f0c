---------------------------- MODULE MCDigipeater ----------------------------
(* Two nodes that hear each other; one rule passes a packet channel, one bridges two others. *)
EXTENDS Digipeater

Hop(call, n, left) == [addr |-> [call |-> call, n |-> n, left |-> left], used |-> FALSE]
Wide(n, left) == Hop("WIDE", n, left)

ModelTraffic == {
    [src |-> "far", ch |-> 1, path |-> <<Wide(3, 3)>>],
    [src |-> "bad", ch |-> 1, path |-> <<Wide(2, 2), Hop("B", 0, 0)>>],
    [src |-> "A",   ch |-> 1, path |-> <<Hop("GATE", 0, 0), Wide(1, 1)>>] }
ModelHears == [s \in {"A", "B", "far", "bad"} |->
                  [c \in Channels |-> CASE s = "A" -> {"B"} [] s = "B" -> {"A"} [] OTHER -> {"A", "B"}]]

ModelRule(from, to, call, type, max, action) ==
    [from |-> from, to |-> to, alias |-> Hop(call, 0, 0).addr, type |-> type, max |-> max,
     action |-> action]
ModelRules == {
    << ModelRule(1, 3, "WIDE", "widen", 3, "repeat"), ModelRule(1, 1, "WIDE", "trace", 3, "repeat") >>,
    << ModelRule(1, 2, "GATE", "exact", 1, "repeat"), ModelRule(1, 1, "B", "exact", 1, "repeat"),
       ModelRule(1, 1, "WIDE", "widen", 2, "drop"), ModelRule(2, 1, "WIDE", "widen", 2, "repeat") >> }
ModelSwitches == [n \in Nodes |-> {[on |-> TRUE, mycall |-> n], [on |-> TRUE, mycall |-> NoCall]}]
ModelStore == { [n \in Nodes |-> [switch |-> [on |-> TRUE, mycall |-> n], rules |-> r[n],
                                  blocked |-> {"bad"}]] : r \in [Nodes -> ModelRules] }
=============================================================================
