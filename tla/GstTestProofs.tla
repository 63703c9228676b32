---------------------------- MODULE GstTestProofs ----------------------------
(***************************************************************************)
(* What the exit status of camstream-gst-test says, for every argv, bound  *)
(* on the bus and set of failing requests.  The program is one caller of   *)
(* GstreamerPipeline among others, so that component's invariant holds of  *)
(* it; RunInv adds what run() knows of its pipeline at each of its calls.  *)
(***************************************************************************)
EXTENDS GstTest, GstreamerPipelineProofs, CommandLineProofs

\* run() up to its first stop().
Attempting == {"build", "start", "starting", "wait", "waiting"}

\* run() before it has an exit status.
Undecided == Attempting \cup {"stop", "stopping"}

\* The program's own variables.
TestTypeOK ==
    /\ pc \in Undecided \cup {"destroy", "exited"}
    /\ asked \in {"run", "help", "nonsense"}
    /\ exit \in {"none", "success", "failure", "usage"}
    /\ wait_succeeded \in BOOLEAN

\* Only a command line that asks for a run gets one; the others are answered.
Answers ==
    /\ pc # "exited" => asked = "run"
    /\ asked = "help" => exit = "success"
    /\ asked = "nonsense" <=> exit = "usage"
    /\ pc \in Undecided => exit = "none"

\* Where run() is, its pipeline is held and inside the call it makes.
Placed ==
    /\ pc \in {"build", "destroy", "exited"} => ~pipeline.held
    /\ pc \in {"start", "starting", "wait", "waiting", "stop", "stopping"} => pipeline.held
    /\ pc \in {"build", "start", "wait", "stop", "destroy", "exited"} => calling = "none"
    /\ pc = "starting" => calling = "start"
    /\ pc = "waiting" => calling = "wait"
    /\ pc = "stopping" => calling = "stop"

\* A run that ended well has popped an EOS and no ERROR.
EndedWell == "EOS" \in seen /\ "ERROR" \notin seen

\* What the wait answered, and then the exit status, is about this run.
Truthful ==
    /\ pc \in Attempting => ~wait_succeeded
    /\ wait_succeeded => EndedWell
    /\ asked = "run" /\ exit = "success" => EndedWell /\ element = "NULL"

\* The inductive invariant of the program, beside that of its pipeline.
RunInv == TestTypeOK /\ Answers /\ Placed /\ Truthful

-----------------------------------------------------------------------------
\* Every call that run() makes is one the wrapper allows any caller.
LEMMA OneCaller == ASSUME [TestNext]_vars PROVE [Next]_pipelineVars
  BY DEF TestNext, Test, TestBuild, TestStart, TestStarted, TestWait, TestWaiting, TestStop,
         TestStopped, TestDestroy, vars, Next, Build, Start, Wait, Stop, Finish

\* After parse_arguments() there is a run to make, or an answer already.
LEMMA RunInitially == Init => RunInv
<1> SUFFICES ASSUME Init PROVE RunInv
  OBVIOUS
<1>1. PICK argv \in ArgumentLists : Main(argv)
  BY DEF Init
<1>2. argv \in Seq(STRING)
  BY TestAssumption
<1> DEFINE at == TestArguments(argv).at
           asks == TestAsks(argv)
<1>3. \/ at = "refused" /\ asks = "nonsense"
      \/ at = "help" /\ asks = "help"
      \/ at = "option" /\ asks = "run"
  BY <1>2, TestCommandLine
<1>4. /\ asked = asks
      /\ pc = IF at = "option" THEN "build" ELSE "exited"
      /\ exit = CASE at = "option" -> "none"
                  [] at = "help" -> "success"
                  [] at = "refused" -> "usage"
  BY <1>1 DEF Main
<1> HIDE DEF at, asks
<1>5. \/ asked = "nonsense" /\ pc = "exited" /\ exit = "usage"
      \/ asked = "help" /\ pc = "exited" /\ exit = "success"
      \/ asked = "run" /\ pc = "build" /\ exit = "none"
  BY <1>3, <1>4
<1>6. wait_succeeded = FALSE /\ ~pipeline.held /\ calling = "none"
  BY DEF Init, PipelineInit, Released
<1> QED
  BY <1>5, <1>6
     DEF RunInv, TestTypeOK, Undecided, Attempting, Answers, Placed, Truthful

\* Every step of run(), and of the streaming threads beside it, keeps the
\* invariant.
LEMMA RunSteps ==
  ASSUME IInv, IInv', RunInv, [TestNext]_vars
  PROVE  RunInv'
<1> USE DEF RunInv, TestTypeOK, Undecided, Attempting, Answers, Placed, Truthful, EndedWell,
            Goto
<1>1. CASE TestBuild
  <2>1. CASE BuildSucceeds /\ pc' = "start" /\ UNCHANGED exit
    BY <1>1, <2>1 DEF TestBuild, BuildSucceeds, Released
  <2>2. CASE BuildFails /\ pc' = "destroy" /\ exit' = "failure"
    BY <1>1, <2>2 DEF TestBuild, BuildFails, Returns
  <2> QED
    BY <1>1, <2>1, <2>2 DEF TestBuild
<1>2. CASE TestStart
  BY <1>2 DEF TestStart, StartRequest
<1>3. CASE TestStarted
  BY <1>3 DEF TestStarted, StartSucceeds, StartFails, IInv, PipelineTypeOK
<1>4. CASE TestWait
  BY <1>4 DEF TestWait, WaitBegin, MayWait
<1>5. CASE TestWaiting
  <2>1. "ERROR" \notin seen
    BY <1>5 DEF TestWaiting, IInv, PipelineTypeOK, CallsBelong, ErrorRemembered
  <2>2. pipeline'.held /\ UNCHANGED element
    <3>1. pipeline' = pipeline \/ pipeline' = EndRun(pipeline)
      BY <1>5 DEF TestWaiting, WaitPop, WaitExpires, Process
    <3>2. pipeline.held /\ UNCHANGED element
      BY <1>5 DEF TestWaiting, WaitPop, WaitExpires
    <3> QED
      BY <3>1, <3>2 DEF EndRun, IInv, PipelineTypeOK
  <2>3. CASE WaitPop
    <3>1. /\ seen' = seen \cup {Head(messages)}
          /\ calling' = IF Head(messages) \in Terminal THEN "none" ELSE "wait"
          /\ calling' = "none" => result' = IF Head(messages) = "EOS" THEN "true" ELSE "false"
      BY <2>3 DEF WaitPop, Terminal
    <3>2. calling' = "none" /\ result' = "true" => "EOS" \in seen' /\ "ERROR" \notin seen'
      BY <2>1, <3>1
    <3> QED
      BY <1>5, <2>2, <3>1, <3>2 DEF TestWaiting
  <2>4. CASE WaitExpires
    BY <1>5, <2>2, <2>4 DEF TestWaiting, WaitExpires
  <2> QED
    BY <1>5, <2>3, <2>4 DEF TestWaiting
<1>6. CASE TestStop
  BY <1>6 DEF TestStop, StopRequest
<1>7. CASE TestStopped
  <2>1. result' = "true" => element' = "NULL"
    BY <1>7 DEF TestStopped, StopComplete, ReachNull, MissNull
  <2>2. ~pipeline'.held /\ calling' = "none" /\ UNCHANGED seen
    BY <1>7 DEF TestStopped, StopComplete, Released
  <2> QED
    BY <1>7, <2>1, <2>2 DEF TestStopped, ExitStatus
<1>8. CASE TestDestroy
  BY <1>8 DEF TestDestroy, StopNothing, Returns
<1>9. CASE pc # "exited" /\ Post /\ UNCHANGED testVars
  BY <1>9 DEF Post, testVars
<1>10. CASE UNCHANGED vars
  BY <1>10 DEF vars, testVars, pipelineVars
<1> QED
  BY <1>1, <1>2, <1>3, <1>4, <1>5, <1>6, <1>7, <1>8, <1>9, <1>10 DEF TestNext, Test

-----------------------------------------------------------------------------
\* The diagnostic is a caller of the wrapper: what holds for every caller holds
\* for it (run() of camstream-gst-test main.cpp).
THEOREM CallsAreAllowed == Spec => PipelineSpec
<1>1. Init => PipelineInit
  BY DEF Init
<1> QED
  BY <1>1, OneCaller, PTL DEF Spec, PipelineSpec

\* The invariants of the wrapper and of run() hold in every reachable state.
THEOREM RunInvariance == Spec => [](IInv /\ RunInv)
<1>1. Init => RunInv
  BY RunInitially
<1>2. IInv /\ IInv' /\ RunInv /\ [TestNext]_vars => RunInv'
  BY RunSteps
<1> QED
  BY <1>1, <1>2, CallsAreAllowed, PipelineInvariance, PTL DEF Spec

\* For every argv and however the source and GStreamer behave: 2 is the answer to
\* nonsense alone, and 0, unless help was asked for, means that an EOS was reached
\* before any ERROR was consumed and that the pipeline went back to NULL (main.cpp
\* parse_arguments and run, gstreamer_pipeline.cpp wait and stop).
THEOREM ZeroIsEarned == Spec => []ZeroMeansCleanRun
<1>1. RunInv => ZeroMeansCleanRun
  BY DEF RunInv, TestTypeOK, Answers, Truthful, EndedWell, ZeroMeansCleanRun
<1> QED
  BY <1>1, RunInvariance, PTL
=============================================================================
