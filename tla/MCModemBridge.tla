--------------------------- MODULE MCModemBridge ---------------------------
(* Workloads for ModemBridge: requests, and manual PTT with frames or a reload. *)
EXTENDS ModemBridge

Load(calls, posts, frames, reloads, faults) ==
    [calls |-> calls, posts |-> posts, frames |-> frames, reloads |-> reloads, faults |-> faults]
ModelWorkloads == {Load(2, 0, 0, 0, 1), Load(0, 2, 0, 0, 1), Load(0, 3, 0, 0, 0),
                   Load(0, 1, 1, 1, 0), Load(0, 1, 1, 0, 1), Load(1, 0, 0, 1, 0)}
=============================================================================
