----------------------------- MODULE MCTxPath -----------------------------
(* Instances of TxPath for TLC: two radio channels, a frame for each.       *)
EXTENDS TxPath

OneEach == {[ch |-> c, key |-> "a", prio |-> 1, skip |-> TRUE] : c \in Channels}
\* The first row limits a channel to one frame a minute and two in five.
OneAMinute == [c \in Channels |-> IF c = 1 THEN 1 ELSE 0]
TwoInFive == [c \in Channels |-> IF c = 1 THEN 2 ELSE 0]
NoLimit == [c \in Channels |-> 0]
=============================================================================
