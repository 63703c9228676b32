--------------------------- MODULE GstreamerPipeline ---------------------------
(***************************************************************************)
(* The wrapper class GstreamerPipeline of libs/camstream-gstreamer: one     *)
(* GstPipeline, its bus and three flags, driven by one caller at a time.    *)
(* start() and stop() block inside GStreamer, so each is a request and a    *)
(* completion; streaming threads post to the bus in between.  Next is an    *)
(* arbitrary caller; GstTest and CameraService call the same actions from   *)
(* the programs that really do.                                             *)
(***************************************************************************)
EXTENDS Naturals, Sequences

CONSTANTS
    MaxMessages,     \* bound: bus messages posted between two builds
    PipelineFaults   \* which GStreamer requests may fail: "build", "playing", "null"

ASSUME PipelineAssumption ==
    /\ MaxMessages \in Nat
    /\ PipelineFaults \subseteq {"build", "playing", "null"}

VARIABLES
    pipeline,   \* the object's fields (pipeline and bus are held together; finite says
                \* whether config.buffer_count is positive)
    element,    \* state of the GStreamer elements: "NULL", "PARTIAL", "PLAYING"
    messages,   \* the GstBus queue
    posted,     \* messages posted since the last build, at most MaxMessages
    calling,    \* the blocking call in progress
    result,     \* what the last call returned
    seen        \* messages popped since the last build

pipelineVars == <<pipeline, element, messages, posted, calling, result, seen>>

Terminal == {"EOS", "ERROR"}
Messages == Terminal \cup {"STATE_CHANGED"}
Outcomes == {"Continue", "EndOfStream", "Error"}

\* A new or stopped object keeps its configuration only.
Released(p) == [held |-> FALSE, built |-> FALSE, started |-> FALSE, run_finished |-> FALSE,
                finite |-> p.finite]

PipelineInit ==
    /\ \E finite \in BOOLEAN : pipeline = Released([finite |-> finite])
    /\ element = "NULL"
    /\ messages = <<>>
    /\ posted = 0
    /\ calling = "none"
    /\ result = "true"
    /\ seen = {}

--------------------------------------------------------------------------------
\* A streaming thread posts a message; sinks reach EOS only while PLAYING.
Post ==
    /\ pipeline.held
    /\ element # "NULL"
    /\ posted < MaxMessages
    /\ \E m \in Messages :
          /\ m = "EOS" => element = "PLAYING"
          /\ messages' = Append(messages, m)
    /\ posted' = posted + 1
    /\ UNCHANGED <<pipeline, element, calling, result, seen>>

\* A call that changes nothing but its answer.
Returns(value) ==
    /\ result' = value
    /\ UNCHANGED <<pipeline, element, messages, posted, calling, seen>>

\* Mutant: build() on a built object rearms it.
BuildAgain_rearms ==
    /\ calling = "none"
    /\ pipeline.built
    /\ result' = "true"
    /\ pipeline' = [pipeline EXCEPT !.run_finished = FALSE]
    /\ UNCHANGED <<element, messages, posted, calling, seen>>

\* build() on an object that is already built.
BuildAgain ==
    /\ calling = "none"
    /\ pipeline.built
    /\ Returns("true")

\* build() succeeds: every element created, configured and linked, bus held.
BuildSucceeds ==
    /\ calling = "none"
    /\ ~pipeline.built
    /\ pipeline' = [Released(pipeline) EXCEPT !.held = TRUE, !.built = TRUE]
    /\ element' = "NULL"
    /\ messages' = <<>>
    /\ posted' = 0
    /\ seen' = {}
    /\ result' = "true"
    /\ UNCHANGED calling

\* build() fails; what it had created is still in NULL and its stop() drops it.
BuildFails ==
    /\ calling = "none"
    /\ ~pipeline.built
    /\ "build" \in PipelineFaults
    /\ Returns("false")

\* start() on a started object returns true without a request.
StartAgain ==
    /\ calling = "none"
    /\ pipeline.started
    /\ Returns("true")

\* Mutant: start() forgets to ask whether the run is over.
MayStart_afterRun == pipeline.built

MayStart == ~pipeline.run_finished /\ pipeline.built

StartRefused ==
    /\ calling = "none"
    /\ ~pipeline.started
    /\ ~MayStart
    /\ Returns("false")

\* start() requests PLAYING and blocks in gst_element_get_state().
StartRequest ==
    /\ calling = "none"
    /\ ~pipeline.started
    /\ MayStart
    /\ element' = IF element = "PLAYING" THEN element ELSE "PARTIAL"
    /\ calling' = "start"
    /\ UNCHANGED <<pipeline, messages, posted, result, seen>>

StartSucceeds ==
    /\ calling = "start"
    /\ element' = "PLAYING"
    /\ pipeline' = [pipeline EXCEPT !.started = TRUE]
    /\ calling' = "none"
    /\ result' = "true"
    /\ UNCHANGED <<messages, posted, seen>>

\* The request is refused, times out or ends in another state.
StartFails ==
    /\ calling = "start"
    /\ "playing" \in PipelineFaults
    /\ calling' = "none"
    /\ result' = "false"
    /\ UNCHANGED <<pipeline, element, messages, posted, seen>>

Start == StartAgain \/ StartRefused \/ StartRequest

\* Mutant: the terminal message leaves the started flag set.
EndRun_stillStarted(p) == [p EXCEPT !.run_finished = TRUE]

\* A terminal message ends the run; start() needs stop() and build() again.
EndRun(p) == [p EXCEPT !.started = FALSE, !.run_finished = TRUE]

\* process_bus_message() over the messages of a set.
Process(p, popped) == IF popped \cap Terminal = {} THEN p ELSE EndRun(p)

\* Mutant: an EOS in the same drain hides the ERROR.
Aggregate_eosWins(popped) ==
    IF "EOS" \in popped THEN "EndOfStream"
    ELSE IF "ERROR" \in popped THEN "Error" ELSE "Continue"

\* The sticky outcome of a drain: ERROR wins over EOS wherever each stands.
Aggregate(popped) ==
    IF "ERROR" \in popped THEN "Error"
    ELSE IF "EOS" \in popped THEN "EndOfStream" ELSE "Continue"

Queued == {messages[i] : i \in DOMAIN messages}

\* drain_bus_messages(): pops everything the bus holds, without blocking.
Drain ==
    /\ calling = "none"
    /\ pipeline.built
    /\ messages' = <<>>
    /\ seen' = seen \cup Queued
    /\ pipeline' = Process(pipeline, Queued)
    /\ result' = Aggregate(Queued)
    /\ UNCHANGED <<element, posted, calling>>

DrainRefused ==
    /\ calling = "none"
    /\ ~pipeline.built
    /\ Returns("Error")

--------------------------------------------------------------------------------
\* wait() is for a run that was started and is finite.
MayWait == pipeline.started /\ pipeline.finite

WaitRefused ==
    /\ calling = "none"
    /\ ~MayWait
    /\ Returns("false")

\* wait() blocks in gst_bus_timed_pop_filtered().
WaitBegin ==
    /\ calling = "none"
    /\ MayWait
    /\ calling' = "wait"
    /\ UNCHANGED <<pipeline, element, messages, posted, result, seen>>

WaitPop ==
    /\ calling = "wait"
    /\ messages # <<>>
    /\ LET m == Head(messages)
       IN  /\ messages' = Tail(messages)
           /\ seen' = seen \cup {m}
           /\ pipeline' = Process(pipeline, {m})
           /\ calling' = IF m \in Terminal THEN "none" ELSE "wait"
           /\ result' = CASE m = "EOS" -> "true" [] m = "ERROR" -> "false" [] OTHER -> result
    /\ UNCHANGED <<element, posted>>

\* The deadline passes, before the pop or inside it.
WaitExpires ==
    /\ calling = "wait"
    /\ pipeline' = EndRun(pipeline)
    /\ calling' = "none"
    /\ result' = "false"
    /\ UNCHANGED <<element, messages, posted, seen>>

Wait == WaitRefused \/ WaitBegin

\* stop() with nothing held: the flags it clears are clear already.
StopNothing ==
    /\ calling = "none"
    /\ ~pipeline.held
    /\ Returns("true")

StopRequest ==
    /\ calling = "none"
    /\ pipeline.held
    /\ calling' = "stop"
    /\ UNCHANGED <<pipeline, element, messages, posted, result, seen>>

\* The elements reach NULL (their pipeline flushes its bus), or do not.
ReachNull ==
    /\ element' = "NULL"
    /\ result' = "true"

MissNull ==
    /\ "null" \in PipelineFaults
    /\ element # "NULL"
    /\ element' \in {element, "PARTIAL"}
    /\ result' = "false"

\* Whatever became of the transition, stop() drops its references.
StopComplete ==
    /\ calling = "stop"
    /\ ReachNull \/ MissNull
    /\ pipeline' = Released(pipeline)
    /\ messages' = <<>>
    /\ calling' = "none"
    /\ UNCHANGED <<posted, seen>>

Stop == StopNothing \/ StopRequest

--------------------------------------------------------------------------------
Build == BuildAgain \/ BuildSucceeds \/ BuildFails

\* The steps that finish a blocking call.
Finish == StartSucceeds \/ StartFails \/ WaitPop \/ WaitExpires \/ StopComplete

Next == Post \/ Build \/ Start \/ Drain \/ DrainRefused \/ Wait \/ Stop \/ Finish

PipelineSpec == PipelineInit /\ [][Next]_pipelineVars

--------------------------------------------------------------------------------
\* Every variable stays in its range, the bus within its bound, and the flags
\* of the object make sense together (gstreamer_pipeline.hpp, private fields).
PipelineTypeOK ==
    /\ pipeline \in [held : BOOLEAN, built : BOOLEAN, started : BOOLEAN, run_finished : BOOLEAN,
                    finite : BOOLEAN]
    /\ pipeline.built <=> pipeline.held
    /\ pipeline.started => pipeline.built /\ ~pipeline.run_finished
    /\ element \in {"NULL", "PARTIAL", "PLAYING"}
    /\ messages \in Seq(Messages)
    /\ Len(messages) <= posted
    /\ posted \in 0 .. MaxMessages
    /\ calling \in {"none", "start", "wait", "stop"}
    /\ result \in {"true", "false"} \cup Outcomes
    /\ seen \subseteq Messages

\* A run whose ERROR was popped, by wait() or by a drain, is never reported as
\* successful by a later wait(), and is not started again before a rebuild
\* (gstreamer_pipeline.cpp, the flags set by process_bus_message and tested by
\* start and wait).
ErrorEndsTheRun ==
    "ERROR" \in seen /\ pipeline.held => ~pipeline.started /\ calling \notin {"start", "wait"}

\* Whoever calls what in which order, a run that has ended is not resumed:
\* run_finished goes back to FALSE only when the pipeline is given up, so one
\* build carries at most one run.
OneRunPerBuild ==
    [][pipeline.run_finished /\ ~pipeline'.run_finished => ~pipeline'.held]_pipelineVars

\* "transitions the pipeline to GST_STATE_NULL before releasing them": the
\* elements are in NULL whenever the object gives up its references.
ReleasedInNull == ~pipeline.held => element = "NULL"

================================================================================
