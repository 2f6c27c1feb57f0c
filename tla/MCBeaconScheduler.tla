-------------------------- MODULE MCBeaconScheduler --------------------------
(* Two beacons that share one worker: fixed ones, trackers, and one that is off. *)
EXTENDS BeaconScheduler, TLC

ModelRow(on, tracker, every, path) == [on |-> on, tracker |-> tracker, every |-> every, path |-> path]
Off == ModelRow(FALSE, FALSE, 2, "rf")
Fixed == ModelRow(TRUE, FALSE, 2, "both")
Tracker == ModelRow(TRUE, TRUE, 3, "is_only")
ModelRows == {Off, Fixed, Tracker}
Still == [moves |-> FALSE, heading |-> 0, rate |-> 4]
North == [moves |-> TRUE, heading |-> 0, rate |-> 3]
East == [moves |-> TRUE, heading |-> 1, rate |-> 5]  \* just above SlowSpeed
ModelFixes == {Still, North, East}
Workload(first, second, smart, edits, fixes) ==
    [rows |-> 1 :> first @@ 2 :> second, smart |-> smart, edits |-> edits, fixes |-> fixes]
ModelWorkloads == {Workload(Fixed, Tracker, TRUE, 1, ModelFixes), Workload(Tracker, Fixed, TRUE, 1, ModelFixes),
                   Workload(Tracker, Off, FALSE, 2, {Still})}
=============================================================================
