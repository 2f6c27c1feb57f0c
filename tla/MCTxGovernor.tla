--------------------------- MODULE MCTxGovernor ---------------------------
(* Instances of TxGovernor for TLC.  Both channels have a radio.            *)
EXTENDS TxGovernor

frame(c, k, p, bypass) == [ch |-> c, key |-> k, prio |-> p, skip |-> bypass]

\* A beacon, a digipeated copy of it, and a client's frame on the first channel,
\* an ax25conn frame (which bypasses the dedup window) on the second.
MixedTraffic ==
    {frame(1, "a", 1, FALSE), frame(1, "a", 2, FALSE),
     frame(1, "b", 3, FALSE), frame(2, "b", 3, TRUE)}
FirstRowOne == [c \in Channels |-> IF c = 1 THEN 1 ELSE 0]
FirstRowTwo == [c \in Channels |-> IF c = 1 THEN 2 ELSE 0]
=============================================================================
