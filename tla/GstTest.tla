-------------------------------- MODULE GstTest --------------------------------
(***************************************************************************)
(* camstream-gst-test: main.cpp parses its command line, and run() builds,  *)
(* starts, waits and stops a GstreamerPipeline once; the object's           *)
(* destructor stops it again.                                               *)
(***************************************************************************)
EXTENDS GstreamerPipeline, CommandLine

CONSTANT ArgumentLists   \* the command lines it may be given

ASSUME TestAssumption == ArgumentLists \subseteq Seq(STRING)

VARIABLES
    asked,           \* history: what the command line asks for
    pc,              \* the call run() makes next
    wait_succeeded,  \* run()'s local
    exit             \* the exit status

testVars == <<asked, pc, wait_succeeded, exit>>
vars == <<pipelineVars, testVars>>

\* main() after parse_arguments().
Main(argv) ==
    LET at == TestArguments(argv).at
    IN  /\ asked = TestAsks(argv)
        /\ pc = IF at = "option" THEN "build" ELSE "exited"
        /\ exit = CASE at = "option" -> "none"
                    [] at = "help" -> "success"
                    [] at = "refused" -> "usage"

\* parse_arguments() takes no run without a positive buffer count.
Init ==
    /\ PipelineInit
    /\ pipeline.finite
    /\ wait_succeeded = FALSE
    /\ \E argv \in ArgumentLists : Main(argv)

Goto(label) == pc' = label

TestBuild ==
    /\ pc = "build"
    /\ \/ BuildSucceeds /\ Goto("start") /\ UNCHANGED exit
       \/ BuildFails /\ Goto("destroy") /\ exit' = "failure"
    /\ UNCHANGED <<asked, wait_succeeded>>

TestStart ==
    /\ pc = "start"
    /\ StartRequest
    /\ Goto("starting")
    /\ UNCHANGED <<asked, wait_succeeded, exit>>

TestStarted ==
    /\ pc = "starting"
    /\ \/ StartSucceeds /\ Goto("wait")
       \/ StartFails /\ Goto("stop")
    /\ UNCHANGED <<asked, wait_succeeded, exit>>

TestWait ==
    /\ pc = "wait"
    /\ WaitBegin
    /\ Goto("waiting")
    /\ UNCHANGED <<asked, wait_succeeded, exit>>

\* Mutant: the wait for a terminal message has no deadline.
TestWaiting_unbounded ==
    /\ pc = "waiting"
    /\ WaitPop
    /\ IF calling' = "none"
       THEN Goto("stop") /\ wait_succeeded' = (result' = "true")
       ELSE UNCHANGED <<pc, wait_succeeded>>
    /\ UNCHANGED <<asked, exit>>

TestWaiting ==
    /\ pc = "waiting"
    /\ WaitPop \/ WaitExpires
    /\ IF calling' = "none"
       THEN Goto("stop") /\ wait_succeeded' = (result' = "true")
       ELSE UNCHANGED <<pc, wait_succeeded>>
    /\ UNCHANGED <<asked, exit>>

TestStop ==
    /\ pc = "stop"
    /\ StopRequest
    /\ Goto("stopping")
    /\ UNCHANGED <<asked, wait_succeeded, exit>>

\* Mutant: the answer of stop() is thrown away.
ExitStatus_ignoresStop(waited, stopped) == IF waited THEN "success" ELSE "failure"

\* return wait_succeeded && stop_succeeded ? 0 : 1
ExitStatus(waited, stopped) == IF waited /\ stopped THEN "success" ELSE "failure"

TestStopped ==
    /\ pc = "stopping"
    /\ StopComplete
    /\ exit' = ExitStatus(wait_succeeded, result' = "true")
    /\ Goto("destroy")
    /\ UNCHANGED <<asked, wait_succeeded>>

\* ~GstreamerPipeline() calls stop(): nothing is held any more.
TestDestroy ==
    /\ pc = "destroy"
    /\ StopNothing
    /\ Goto("exited")
    /\ UNCHANGED <<asked, wait_succeeded, exit>>

Test ==
    \/ TestBuild \/ TestStart \/ TestStarted \/ TestWait \/ TestWaiting
    \/ TestStop \/ TestStopped \/ TestDestroy

TestNext == Test \/ (pc # "exited" /\ Post /\ UNCHANGED testVars)

\* The thread is scheduled; each blocking call has a timeout of its own.
Spec == Init /\ [][TestNext]_vars /\ WF_vars(Test)

--------------------------------------------------------------------------------
\* The diagnostic runs only for a command line that names each required option
\* once with a proper value, answers 2 to the others, and 0, unless help was
\* asked for, only for a run whose EOS was reached before any ERROR was consumed
\* and whose pipeline really went back to NULL (main.cpp parse_arguments and run,
\* gstreamer_pipeline.cpp wait and stop).
ZeroMeansCleanRun ==
    /\ exit = "usage" <=> asked = "nonsense"
    /\ asked = "help" => exit = "success"
    /\ exit = "success" /\ asked # "help" =>
          "EOS" \in seen /\ "ERROR" \notin seen /\ element = "NULL"

\* However the source behaves, the diagnostic ends and holds nothing then.
AlwaysEnds == pc = "build" ~> pc = "exited" /\ ~pipeline.held
================================================================================
