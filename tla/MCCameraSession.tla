-------------------------- MODULE MCCameraSession --------------------------
(* Instances of CameraSession for TLC. *)
EXTENDS CameraSession, TLC

SessionSymmetry == Permutations(Sessions)
=============================================================================
