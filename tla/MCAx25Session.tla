--------------------------- MODULE MCAx25Session ---------------------------
(***************************************************************************)
(* What TLC needs to check the data of a session.                          *)
(***************************************************************************)
EXTENDS Ax25Session

\* The frames of the last event are not part of a state's identity: every handler
\* starts from none (now), and the properties of the run do not speak of them.
Identity == <<now, pend, bits>>

\* A bound of the run: the heartbeat, whose handler arms it again or does nothing,
\* expires only on an open link, and while the stream is at most one byte long.
EarlyHeartbeat == "HB" \in pend \cup bits => Open /\ s.tail <= 1
=============================================================================
