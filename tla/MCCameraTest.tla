----------------------------- MODULE MCCameraTest -----------------------------
(* Runs camstream-camera-test on every command line of up to four          *)
(* arguments and, beside it, two sessions under arbitrary callers.         *)
EXTENDS CameraTest

AllCounts == [text \in {"1", "2"} |-> IF text = "1" THEN 1 ELSE 2]
Arguments == {"--help", "--backend", "--frames", "libcamera.so", "", "1", "2"}
AllArgumentLists == BoundedSeq(Arguments, 4)

\* Any program that uses the library.
AnyCallerInit ==
  /\ Init
  /\ at = "any"
  /\ argv = <<>>
  /\ index = 0
  /\ options = NoOptions
  /\ session = NoSession
  /\ shown = <<>>
  /\ exit = NoExit

AnyCaller == at = "any" /\ Next /\ UNCHANGED testVars

MCInit == TestInit \/ AnyCallerInit

MCNext == Test \/ AnyCaller

MCSpec == MCInit /\ [][MCNext]_<<vars, testVars>>

SessionSymmetry == Permutations(Sessions)
=============================================================================
