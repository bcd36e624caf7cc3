--------------------- MODULE MCSensorThresholdController ---------------------
(***************************************************************************)
(* Instances of SensorThresholdController for TLC: what the surroundings   *)
(* do in each run.                                                         *)
(***************************************************************************)
EXTENDS SensorThresholdController, TLC

\* Whatever loses a run, a call or a countdown.
Losses == {"manual", "unavailable", "missing", "lose", "overflow", "toggle",
           "reload", "restart"}

\* Nothing is dropped for want of room, and a sensor repeats its value.
Evenings == {"manual", "group", "attribute", "restart", "repeat", "unknown"}

Interchangeable == Permutations(Controlled)
=============================================================================
