-------------------------- MODULE MCSensorCapture --------------------------
(* Instances of SensorCapture for TLC.                                     *)
EXTENDS SensorCapture, TLC

SensorSymmetry ==
  Permutations(Sessions) \cup Permutations(Busy) \cup Permutations(Captures \ Busy) \cup Permutations(Callers)
=============================================================================
