------------------------------ MODULE CameraTest ------------------------------
(***************************************************************************)
(* camstream-camera-test (apps/camstream-camera-test/src/main.cpp): it     *)
(* reads its options, then takes one CameraSession through its life, one   *)
(* frame at a time.  An exception ends the run wherever it is thrown; the  *)
(* frame and the session are then destroyed on the way out of              *)
(* run_diagnostic().                                                       *)
(***************************************************************************)
EXTENDS CameraSession, SequencesExt

CONSTANTS
  Counts,        \* what parse_positive_count makes of the arguments it accepts
  ArgumentLists, \* the command lines considered
  DefaultCount,  \* kDefaultFrameCount
  NoSession

ASSUME TestAssumption ==
  /\ NoSession \notin Sessions
  /\ ArgumentLists \subseteq Seq(STRING)
  /\ \A text \in DOMAIN Counts : Counts[text] \in Nat \ {0}
  /\ DefaultCount \in Nat \ {0}

VARIABLES
  at,         \* the statement main() or run_diagnostic() is at
  argv,       \* the arguments that follow the program's name
  index,      \* the argument, later the frame, the loop is at
  options,    \* [backend_seen, frames_seen, frame_count]
  session,    \* run_diagnostic()'s session
  shown,      \* history: the sequence numbers printed
  exit        \* the value main() returns, NoExit until it is known

testVars == <<at, argv, index, options, session, shown, exit>>

NoExit == 3
Succeeded == 0
Failure == 1
Usage == 2

NoOptions == [backend_seen |-> FALSE, frames_seen |-> FALSE, frame_count |-> DefaultCount]

TestInit ==
  /\ Init
  /\ at = "parse"
  /\ argv \in ArgumentLists
  /\ index = 1
  /\ options = NoOptions
  /\ session = NoSession
  /\ shown = <<>>
  /\ exit = NoExit

Reach(label) == at' = label

-----------------------------------------------------------------------------
(* parse_command_line                                                      *)

Leave(value) == Reach("exited") /\ exit' = value /\ UNCHANGED <<index, options>>

EmptyPath == ""

Following == index + 1 <= Len(argv)

ParseHelp ==
  /\ argv[index] = "--help"
  /\ Leave(IF Len(argv) = 1 THEN Succeeded ELSE Usage)

ParseBackend ==
  /\ argv[index] = "--backend"
  /\ IF ~options.backend_seen /\ Following /\ argv[index + 1] # EmptyPath
     THEN /\ options' = [options EXCEPT !.backend_seen = TRUE]
          /\ index' = index + 2
          /\ UNCHANGED <<at, exit>>
     ELSE Leave(Usage)

ParseFrames ==
  /\ argv[index] = "--frames"
  /\ IF ~options.frames_seen /\ Following /\ argv[index + 1] \in DOMAIN Counts
     THEN /\ options' = [options EXCEPT !.frames_seen = TRUE,
                                        !.frame_count = Counts[argv[index + 1]]]
          /\ index' = index + 2
          /\ UNCHANGED <<at, exit>>
     ELSE Leave(Usage)

ParseUnknown ==
  /\ argv[index] \notin {"--help", "--backend", "--frames"}
  /\ Leave(Usage)

ParseEnd ==
  IF options.backend_seen
  THEN Reach("load") /\ index' = 0 /\ UNCHANGED <<options, exit>>
  ELSE Leave(Usage)

Parse ==
  /\ at = "parse"
  /\ \/ /\ index <= Len(argv)
        /\ ParseHelp \/ ParseBackend \/ ParseFrames \/ ParseUnknown
     \/ index > Len(argv) /\ ParseEnd
  /\ UNCHANGED <<argv, session, shown, vars>>

-----------------------------------------------------------------------------
(* run_diagnostic                                                          *)

\* The call returned, or threw.
Attempt(succeeded, label) ==
  \/ succeeded /\ Reach(label) /\ UNCHANGED exit
  \/ ~succeeded /\ Reach("unwind") /\ exit' = Failure

\* A call that succeeds clears the backend's last error.
Answered == camera'[session].last_error = "none"

TestLoad ==
  /\ at = "load"
  /\ \/ \E s \in Sessions : Load(s) /\ session' = s /\ Attempt(TRUE, "open")
     \/ Reach("exited") /\ exit' = Failure /\ UNCHANGED <<session, vars>>
  /\ UNCHANGED <<argv, index, options, shown>>

Step(label, call, succeeded, next) ==
  /\ at = label
  /\ call
  /\ Attempt(succeeded, next)
  /\ UNCHANGED <<argv, index, options, session, shown>>

TestOpen == Step("open", OpenSource(session, TRUE), state'[session] = "Open", "capabilities")

\* A query throws as well when the session refuses what the backend answered.
Ask(label, query, next) ==
  \/ Step(label, query, Answered, next)
  \/ "configuration" \in Faults /\ Step(label, query, FALSE, next)

TestCapabilities == Ask("capabilities", Capabilities(session), "stream_configuration")

TestStreamConfiguration ==
  Ask("stream_configuration", StreamConfigurationAt(session, 0), "configure")

TestConfigure ==
  Step("configure", ConfigureStream(session, TRUE), state'[session] = "Configured", "start")

TestStart == Step("start", Start(session), state'[session] = "Started", "frame")

\* Mutant: the count of frames is one short.
EnoughFrames_offByOne == index + 1 >= options.frame_count

EnoughFrames == index >= options.frame_count

TestLoop ==
  /\ at = "frame"
  /\ Reach(IF EnoughFrames THEN "stop" ELSE "wait")
  /\ UNCHANGED <<argv, index, options, session, shown, exit, vars>>

\* The wait times out when the backend has no buffer left, and the run throws.
FrameReady == camera[session].outstanding # Buffers

TestWait == Step("wait", WaitFrame(session), Answered /\ FrameReady, "acquire")

Held == {f \in frames : f.owner_identity = session}

TestAcquire ==
  /\ at = "acquire"
  /\ \/ Acquire(session) /\ Attempt(TRUE, "release")
     \/ (AcquireFails(session) \/ AcquireRollsBack(session)) /\ Attempt(FALSE, "release")
  /\ UNCHANGED <<argv, index, options, session>>
  /\ shown' = shown \o SetToSeq({f.sequence_number : f \in Held' \ Held})

TestRelease ==
  /\ at = "release"
  /\ \E f \in Held : ReleaseFrame(session, f) /\ Attempt(f \notin frames', "frame")
  /\ index' = IF at' = "frame" THEN index + 1 ELSE index
  /\ UNCHANGED <<argv, options, session, shown>>

TestStop == Step("stop", Stop(session), state'[session] = "Stopped", "close")

\* The last statement; the session goes out of scope after it.
TestClose ==
  /\ at = "close"
  /\ Close(session)
  /\ Reach("unwind")
  /\ exit' = IF state'[session] = "Created" THEN Succeeded ELSE Failure
  /\ UNCHANGED <<argv, index, options, session, shown>>

\* ~CameraFrame(), then ~CameraSession().
TestUnwind ==
  /\ at = "unwind"
  /\ \/ \E f \in Held : DropFrame(f) /\ UNCHANGED at
     \/ Held = {} /\ Cleanup(session) /\ UNCHANGED at
     \/ pc[session] = "gone" /\ Reach("exited") /\ UNCHANGED vars
  /\ UNCHANGED <<argv, index, options, session, shown, exit>>

Test ==
  \/ Parse
  \/ TestLoad \/ TestOpen \/ TestCapabilities \/ TestStreamConfiguration \/ TestConfigure
  \/ TestStart \/ TestLoop \/ TestWait \/ TestAcquire \/ TestRelease
  \/ TestStop \/ TestClose \/ TestUnwind

TestSpec == TestInit /\ [][Test]_<<vars, testVars>>

-----------------------------------------------------------------------------
(* Properties.                                                             *)

\* The command lines that ask for a run, and the number of frames each asks for.
\* Whatever follows --backend is its path.
Paths == Range(argv) \ {EmptyPath}

Accepted(n) ==
  {<<"--backend", path>> : path \in {p \in Paths : n = DefaultCount}}
    \cup UNION {{<<"--backend", path, "--frames", text>>, <<"--frames", text, "--backend", path>>} :
                  path \in Paths, text \in {t \in DOMAIN Counts : Counts[t] = n}}

\* The exit status tells what happened: 2 refuses a command line and touches no
\* camera; 0 means help, or a run that printed the frames 0 .. n-1 it was asked
\* for, in order, and returned every buffer to a camera it then closed; and
\* whatever it is, the session is gone and none of its frames is left (main.cpp,
\* main and run_diagnostic).
StatusTellsTheRun ==
  /\ exit = Succeeded /\ argv # <<"--help">> =>
       /\ argv \in Accepted(Len(shown))
       /\ \A i \in DOMAIN shown : shown[i] = i - 1
       /\ camera[session].state = "Created" /\ camera[session].outstanding = {}
  /\ exit = Usage => argv \notin UNION {Accepted(n) : n \in {DefaultCount} \cup Range(Counts)}
  /\ at = "exited" /\ session # NoSession => pc[session] = "gone" /\ Held = {}
=============================================================================
