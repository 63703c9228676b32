------------------------- MODULE GstreamerPipelineProofs -------------------------
(***************************************************************************)
(* What GstreamerPipeline guarantees for every bound on the bus, every set  *)
(* of failing requests and every sequence of calls: its flags agree, an     *)
(* ERROR that was popped ends the run, and a build carries one run.         *)
(***************************************************************************)
EXTENDS GstreamerPipeline, TLAPS

\* A blocking call and a finished run belong to a held pipeline; a start() is in progress only
\* between its test of run_finished and its completion, and nothing may finish
\* the run meanwhile.
CallsBelong ==
    /\ calling \in {"start", "wait"} \/ pipeline.run_finished => pipeline.held
    /\ calling = "start" => ~pipeline.run_finished
    /\ calling = "wait" => pipeline.started

\* A popped ERROR is remembered in run_finished for as long as the object holds
\* the pipeline that sent it.
ErrorRemembered == "ERROR" \in seen /\ pipeline.held => pipeline.run_finished

\* The inductive invariant of the wrapper.
IInv == PipelineTypeOK /\ CallsBelong /\ ErrorRemembered

--------------------------------------------------------------------------------
\* Processing popped messages leaves the object built or not as it was, and a
\* terminal one among them ends the run (process_bus_message).
LEMMA ProcessFacts ==
    ASSUME NEW p \in [held : BOOLEAN, built : BOOLEAN, started : BOOLEAN, run_finished : BOOLEAN,
                      finite : BOOLEAN],
           NEW popped
    PROVE  LET q == Process(p, popped)
           IN  /\ q \in [held : BOOLEAN, built : BOOLEAN, started : BOOLEAN,
                         run_finished : BOOLEAN, finite : BOOLEAN]
               /\ q.held = p.held /\ q.built = p.built
               /\ q.started => p.started /\ q.run_finished = p.run_finished
               /\ p.run_finished => q.run_finished
               /\ "ERROR" \in popped => q.run_finished
  BY DEF Process, EndRun, Terminal

\* The flushed bus is a bus within every bound.
LEMMA EmptyBus == <<>> \in Seq(Messages) /\ Len(<<>>) = 0
  OBVIOUS

\* Everything on the bus is a message.
LEMMA QueuedAreMessages == ASSUME PipelineTypeOK PROVE Queued \subseteq Messages
  BY DEF PipelineTypeOK, Queued

--------------------------------------------------------------------------------

\* A new object holds nothing.
LEMMA InitInvariant == PipelineInit => IInv
  BY PipelineAssumption, EmptyBus
     DEF PipelineInit, IInv, PipelineTypeOK, CallsBelong, ErrorRemembered, Released,
         PipelineAssumption, Outcomes

\* Every step keeps the inductive invariant: one case per action.
LEMMA StepInvariant == IInv /\ [Next]_pipelineVars => IInv'
<1> SUFFICES ASSUME IInv, [Next]_pipelineVars PROVE IInv'
  OBVIOUS
<1> USE DEF IInv, CallsBelong, ErrorRemembered
<1>1. CASE Post
  <2>1. PICK m \in Messages : messages' = Append(messages, m)
    BY <1>1 DEF Post
  <2>2. messages' \in Seq(Messages) /\ Len(messages') = Len(messages) + 1
    BY <2>1 DEF PipelineTypeOK
  <2> QED
    BY <1>1, <2>2, PipelineAssumption DEF Post, PipelineTypeOK, PipelineAssumption
<1>2. CASE Build
  <2>1. CASE BuildSucceeds
    <3>1. pipeline' = [held |-> TRUE, built |-> TRUE, started |-> FALSE, run_finished |-> FALSE,
                       finite |-> pipeline.finite]
      BY <2>1 DEF BuildSucceeds, Released
    <3>2. /\ element' = "NULL" /\ messages' = <<>> /\ posted' = 0 /\ seen' = {}
          /\ result' = "true" /\ calling' = calling /\ calling = "none"
      BY <2>1 DEF BuildSucceeds
    <3>3. posted' \in 0 .. MaxMessages
      BY <3>2, PipelineAssumption DEF PipelineAssumption
    <3> QED
      BY <3>1, <3>2, <3>3, EmptyBus DEF PipelineTypeOK
  <2>2. CASE BuildAgain \/ BuildFails
    BY <2>2 DEF BuildAgain, BuildFails, Returns, PipelineTypeOK
  <2> QED
    BY <1>2, <2>1, <2>2 DEF Build
<1>3. CASE Start
  BY <1>3
     DEF Start, StartAgain, StartRefused, StartRequest, MayStart, Returns, PipelineTypeOK
<1>4. CASE Drain
  <2>1. Aggregate(Queued) \in Outcomes
    BY DEF Aggregate, Outcomes
  <2>2. messages' \in Seq(Messages) /\ Len(messages') <= posted
    BY <1>4, EmptyBus DEF Drain, PipelineTypeOK
  <2>3. seen' \subseteq Messages
    BY <1>4, QueuedAreMessages DEF Drain, PipelineTypeOK
  <2> QED
    BY <1>4, <2>1, <2>2, <2>3, ProcessFacts DEF Drain, PipelineTypeOK
<1>5. CASE DrainRefused \/ Wait
  BY <1>5 DEF DrainRefused, Wait, WaitRefused, WaitBegin, MayWait, Returns, PipelineTypeOK, Outcomes
<1>6. CASE Stop
  BY <1>6 DEF Stop, StopNothing, StopRequest, Returns, PipelineTypeOK
<1>7. CASE StartSucceeds \/ StartFails
  BY <1>7 DEF StartSucceeds, StartFails, PipelineTypeOK
<1>8. CASE WaitPop
  <2> DEFINE m == Head(messages)
  <2>1. m \in Messages /\ messages' = Tail(messages) /\ messages # <<>>
    BY <1>8 DEF WaitPop, PipelineTypeOK
  <2>2. messages' \in Seq(Messages) /\ Len(messages') <= posted
    BY <2>1 DEF PipelineTypeOK
  <2>3. pipeline' = Process(pipeline, {m}) /\ seen' = seen \cup {m} /\ calling = "wait"
    BY <1>8 DEF WaitPop
  <2>4. calling' = IF m \in Terminal THEN "none" ELSE "wait"
    BY <1>8 DEF WaitPop
  <2>5. m \notin Terminal => pipeline' = pipeline
    BY <2>3 DEF Process
  <2>6. result' \in {"true", "false"} \cup Outcomes
    BY <1>8 DEF WaitPop, PipelineTypeOK
  <2>7. posted' = posted /\ element' = element
    BY <1>8 DEF WaitPop
  <2> HIDE DEF m
  <2>8. /\ pipeline' \in [held : BOOLEAN, built : BOOLEAN, started : BOOLEAN,
                          run_finished : BOOLEAN, finite : BOOLEAN]
        /\ pipeline'.built <=> pipeline'.held
        /\ pipeline'.started => pipeline'.built /\ ~pipeline'.run_finished
    BY <2>3, ProcessFacts DEF PipelineTypeOK
  <2>9. PipelineTypeOK'
    BY <2>1, <2>2, <2>3, <2>4, <2>6, <2>7, <2>8 DEF PipelineTypeOK
  <2>10. CallsBelong'
    BY <2>3, <2>4, <2>5, ProcessFacts DEF PipelineTypeOK, Terminal
  <2>11. ErrorRemembered'
    BY <2>3, <2>4, <2>5, ProcessFacts DEF PipelineTypeOK
  <2> QED
    BY <2>9, <2>10, <2>11
<1>9. CASE WaitExpires
  BY <1>9 DEF WaitExpires, EndRun, PipelineTypeOK
<1>10. CASE StopComplete
  BY <1>10, EmptyBus DEF StopComplete, ReachNull, MissNull, Released, PipelineTypeOK
<1>11. CASE UNCHANGED pipelineVars
  BY <1>11 DEF pipelineVars, PipelineTypeOK, Queued
<1> QED
  BY <1>1, <1>2, <1>3, <1>4, <1>5, <1>6, <1>7, <1>8, <1>9, <1>10, <1>11 DEF Next, Finish

\* The inductive invariant holds in every reachable state.
THEOREM PipelineInvariance == PipelineSpec => []IInv
  BY InitInvariant, StepInvariant, PTL DEF PipelineSpec

\* The fields of the object always make sense together: nothing is started
\* unless it is built, held and its run is not over (gstreamer_pipeline.hpp).
THEOREM FieldsAgree == PipelineSpec => []PipelineTypeOK
<1>1. IInv => PipelineTypeOK
  BY DEF IInv
<1> QED
  BY <1>1, PipelineInvariance, PTL

\* However calls, messages and failures interleave, once an ERROR was popped
\* the pipeline is neither started nor waited for again until it is rebuilt.
THEOREM ErrorIsFinal == PipelineSpec => []ErrorEndsTheRun
<1>1. IInv => ErrorEndsTheRun
  BY DEF IInv, PipelineTypeOK, CallsBelong, ErrorRemembered, ErrorEndsTheRun
<1> QED
  BY <1>1, PipelineInvariance, PTL

\* run_finished is cleared only by giving the pipeline up.
THEOREM RunsAreNotResumed == PipelineSpec => OneRunPerBuild
<1>1. ASSUME IInv, [Next]_pipelineVars
      PROVE  [pipeline.run_finished /\ ~pipeline'.run_finished => ~pipeline'.held]_pipelineVars
  <2> SUFFICES ASSUME pipeline.run_finished, ~pipeline'.run_finished
               PROVE  ~pipeline'.held
    OBVIOUS
  <2>1. pipeline \in [held : BOOLEAN, built : BOOLEAN, started : BOOLEAN, run_finished : BOOLEAN,
                       finite : BOOLEAN]
    BY <1>1 DEF IInv, PipelineTypeOK
  <2>2. pipeline.built
    BY <1>1 DEF IInv, PipelineTypeOK, CallsBelong
  <2>3. ~BuildSucceeds
    BY <2>2 DEF BuildSucceeds
  <2>4. ~Drain /\ ~WaitPop
    BY <2>1, ProcessFacts DEF Drain, WaitPop
  <2>5. pipeline' # pipeline
    OBVIOUS
  <2>6. ~StartSucceeds /\ ~WaitExpires
    BY <2>1 DEF StartSucceeds, WaitExpires, EndRun
  <2>7. StopComplete
    BY <1>1, <2>3, <2>4, <2>5, <2>6
       DEF Next, Post, Build, BuildAgain, BuildFails, Start, StartAgain, StartRefused,
           StartRequest, DrainRefused, Wait, WaitRefused, WaitBegin, MayWait, Stop, StopNothing,
           StopRequest, Finish, StartFails, Returns, pipelineVars
  <2> QED
    BY <2>7 DEF StopComplete, Released
<1> QED
  BY <1>1, PipelineInvariance, PTL DEF PipelineSpec, OneRunPerBuild

================================================================================
