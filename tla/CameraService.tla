----------------------------- MODULE CameraService -----------------------------
(***************************************************************************)
(* camstream-service: main() parses the command line, constructs a          *)
(* CameraService, calls initialize(), run() and shutdown(), and the         *)
(* service's destructor calls shutdown() once more.                         *)
(* One thread polls a signalfd and the GstBus; signals and bus messages     *)
(* arrive between any two of its steps.  The pipeline is GstreamerPipeline, *)
(* called through its own actions.                                          *)
(***************************************************************************)
EXTENDS GstreamerPipeline, CommandLine

CONSTANTS
    ArgumentLists,   \* the command lines it may be given
    Faults,       \* which system calls of the service may fail
    MaxSignals    \* bound: SIGINT and SIGTERM sent in one life of the process

ASSUME ServiceAssumption ==
    /\ ArgumentLists \subseteq Seq(STRING)
    /\ Faults \subseteq {"mask", "signalfd", "busfd", "poll", "read",
                         "ignore", "close", "restore", "interrupt", "spurious"}
    /\ MaxSignals \in Nat

VARIABLES
    asked,       \* history: what the command line asks for
    pc,          \* the step the service thread executes next
    service,     \* CameraService's fields
    os,          \* signal state the kernel keeps for the process
    locals,      \* revents and timeout of poll(), main()'s verdicts, shutdown()'s locals
    clock,       \* [finite, left]: finite_pipeline, and the time left to its deadline
    failures,    \* history: what went wrong before main() returned
    exit         \* the exit status, "none" while the process runs

serviceVars == <<asked, pc, service, os, locals, clock, failures, exit>>
vars == <<pipelineVars, serviceVars>>

Signals == {"SIGINT", "SIGTERM"}
States == {"Created", "Initialized", "PipelineReady", "Running",
           "StopRequested", "Failed", "Stopped"}

\* How far a deadline is: more than the INT_MAX milliseconds that poll() can wait
\* for, no more than those, or passed.
TimesLeft == {"long", "short", "none"}

\* main() after parse_arguments(): 0 buffers is the continuous mode.  A numeral
\* stands for any accepted number, so that a finite run is of any length.
Main(argv) ==
    LET loop == ServiceArguments(argv)
    IN  /\ asked = ServiceAsks(argv)
        /\ \E left \in {"long", "short"} :
              /\ clock = [finite |-> Numbers[loop.config["--buffers"]] # 0, left |-> left]
              /\ ~clock.finite => left = "long"
        /\ pc = IF loop.at = "option" THEN "block" ELSE "exited"
        /\ exit = CASE loop.at = "option" -> "none"
                    [] loop.at = "help" -> "success"
                    [] loop.at = "refused" -> "usage"

Init ==
    /\ PipelineInit
    /\ \E argv \in ArgumentLists : Main(argv)
    /\ pipeline.finite = clock.finite
    /\ service = [lifecycle_state |-> "Created", signal_fd |-> FALSE,
                  owns_signal_mask |-> FALSE, bus_poll_fd |-> FALSE]
    /\ os = [blocked |-> FALSE, ignored |-> {}, pending |-> {}, sent |-> 0, killed |-> FALSE]
    /\ locals = [signal |-> FALSE, bus |-> FALSE, capped |-> FALSE, run |-> FALSE,
                 success |-> TRUE, safe |-> FALSE, destructing |-> FALSE]
    /\ failures = {}

Alive == ~os.killed /\ pc # "exited"
At(label) == Alive /\ pc = label
Goto(label) == pc' = label
SetState(state) == service' = [service EXCEPT !.lifecycle_state = state]

\* The destructor's failures are printed; they no longer reach the exit status.
Fails(what) == failures' = IF locals.destructing THEN failures ELSE failures \cup {what}

\* initialize() or run() gives up: main() goes on to shutdown().
GiveUp(what) == Fails(what) /\ Goto("shutdown")

--------------------------------------------------------------------------------
(* The kernel.                                                              *)

\* What a signal does to a thread that neither blocks nor ignores it.
Deliver(o, delivered) == [o EXCEPT !.killed = @ \/ (delivered \ o.ignored) # {}]

\* kill(): a blocked signal becomes pending, once per number.
Signal ==
    /\ Alive
    /\ os.sent < MaxSignals
    /\ \E s \in Signals :
          os' = LET sent == [os EXCEPT !.sent = @ + 1]
                IN  IF os.blocked THEN [sent EXCEPT !.pending = @ \cup {s}]
                    ELSE Deliver(sent, {s})
    /\ UNCHANGED <<pipelineVars, asked, pc, service, locals, clock, failures, exit>>

\* pthread_sigmask() back to the previous mask delivers what is pending.
Unblock == os' = [Deliver(os, os.pending) EXCEPT !.blocked = FALSE, !.pending = {}]

\* The finite run's deadline comes nearer, and passes.
Expire ==
    /\ Alive
    /\ clock.finite
    /\ clock.left # "none"
    /\ service.lifecycle_state = "Running"
    /\ clock' = [clock EXCEPT !.left = IF @ = "long" THEN "short" ELSE "none"]
    /\ UNCHANGED <<pipelineVars, asked, pc, service, os, locals, failures, exit>>

\* GStreamer posts on the bus.
BusMessage ==
    /\ Alive
    /\ Post
    /\ UNCHANGED serviceVars

--------------------------------------------------------------------------------
(* initialize()                                                             *)

BlockSignals ==
    /\ At("block")
    /\ \/ /\ os' = [os EXCEPT !.blocked = TRUE]
          /\ service' = [service EXCEPT !.owns_signal_mask = TRUE]
          /\ Goto("signalfd")
          /\ UNCHANGED failures
       \/ /\ "mask" \in Faults
          /\ GiveUp("mask")
          /\ UNCHANGED <<os, service>>
    /\ UNCHANGED <<pipelineVars, asked, locals, clock, exit>>

CreateSignalFd ==
    /\ At("signalfd")
    /\ service' = [service EXCEPT !.signal_fd = TRUE, !.lifecycle_state = "Initialized"]
    /\ Goto("build")
    /\ UNCHANGED <<pipelineVars, asked, os, locals, clock, failures, exit>>

\* Mutant: initialize() goes on without a signalfd.
SignalFdFails_ignored ==
    /\ At("signalfd")
    /\ "signalfd" \in Faults
    /\ Goto("build")
    /\ UNCHANGED <<pipelineVars, asked, service, os, locals, clock, failures, exit>>

\* Without a signalfd the mask is restored at once, if it can be.
SignalFdFails ==
    /\ At("signalfd")
    /\ "signalfd" \in Faults
    /\ \/ /\ Unblock
          /\ service' = [service EXCEPT !.owns_signal_mask = FALSE]
       \/ /\ "restore" \in Faults
          /\ SetState("StopRequested")
          /\ UNCHANGED os
    /\ GiveUp("signalfd")
    /\ UNCHANGED <<pipelineVars, asked, locals, clock, exit>>

BuildPipeline ==
    /\ At("build")
    /\ \/ BuildSucceeds /\ Goto("busfd") /\ UNCHANGED <<service, failures>>
       \/ BuildFails /\ SetState("Failed") /\ GiveUp("build")
    /\ UNCHANGED <<asked, os, locals, clock, exit>>

TakeBusFd ==
    /\ At("busfd")
    /\ \/ /\ service' = [service EXCEPT !.bus_poll_fd = TRUE, !.lifecycle_state = "PipelineReady"]
          /\ Goto("start")
          /\ UNCHANGED failures
       \/ /\ "busfd" \in Faults
          /\ SetState("Failed")
          /\ GiveUp("busfd")
    /\ UNCHANGED <<pipelineVars, asked, os, locals, clock, exit>>

--------------------------------------------------------------------------------
(* run()                                                                    *)

StartPipeline ==
    /\ At("start")
    /\ StartRequest
    /\ Goto("starting")
    /\ UNCHANGED <<asked, service, os, locals, clock, failures, exit>>

\* start() comes back; after a failure the bus is drained for its diagnostics.
PipelineStarts ==
    /\ At("starting")
    /\ StartSucceeds
    /\ SetState("Running")
    /\ Goto("deadline")
    /\ UNCHANGED <<asked, os, locals, clock, failures, exit>>

PipelineStartFails ==
    /\ At("starting")
    /\ StartFails
    /\ Goto("drain_failed")
    /\ UNCHANGED <<asked, service, os, locals, clock, failures, exit>>

DrainFailedStart ==
    /\ At("drain_failed")
    /\ Drain
    /\ SetState("Failed")
    /\ GiveUp("start")
    /\ UNCHANGED <<asked, os, locals, clock, exit>>

\* The variables of an iteration end with it.
Iterated == [locals EXCEPT !.signal = FALSE, !.bus = FALSE, !.capped = FALSE]

RunFails(what) ==
    /\ SetState("Failed")
    /\ GiveUp(what)
    /\ locals' = Iterated

\* The top of the loop looks at the finite deadline; remaining_poll_timeout()
\* cuts what is left of it to what poll() can wait for.
CheckDeadline ==
    /\ At("deadline")
    /\ IF clock.finite /\ clock.left = "none"
       THEN RunFails("deadline")
       ELSE /\ locals' = [locals EXCEPT !.capped = clock.finite /\ clock.left = "long"]
            /\ Goto("poll")
            /\ UNCHANGED <<service, failures>>
    /\ UNCHANGED <<pipelineVars, asked, os, clock, exit>>

SignalReady == os.pending # {}
BusReady == messages # <<>>

\* Mutant: only the signalfd is polled.
PollReturns_signalOnly ==
    /\ At("poll")
    /\ SignalReady
    /\ locals' = [locals EXCEPT !.signal = SignalReady, !.bus = BusReady]
    /\ Goto("signal")
    /\ UNCHANGED <<pipelineVars, asked, service, os, clock, failures, exit>>

\* poll() returns with at least one descriptor ready; revents is a snapshot.
PollReturns ==
    /\ At("poll")
    /\ SignalReady \/ BusReady
    /\ locals' = [locals EXCEPT !.signal = SignalReady, !.bus = BusReady]
    /\ Goto("signal")
    /\ UNCHANGED <<pipelineVars, asked, service, os, clock, failures, exit>>

\* A timeout is taken for the deadline, although a capped one ends before it.
PollTimesOut ==
    /\ At("poll")
    /\ clock.finite
    /\ locals.capped \/ clock.left = "none"
    /\ ~SignalReady /\ ~BusReady
    /\ RunFails("deadline")
    /\ UNCHANGED <<pipelineVars, asked, os, clock, exit>>

\* poll() fails, or reports a descriptor in error.
PollFails ==
    /\ At("poll")
    /\ "poll" \in Faults
    /\ RunFails("poll")
    /\ UNCHANGED <<pipelineVars, asked, os, clock, exit>>

\* poll() fails with EINTR while nothing is ready: the loop begins again.
PollInterrupted ==
    /\ At("poll")
    /\ "interrupt" \in Faults
    /\ ~SignalReady /\ ~BusReady
    /\ Goto("deadline")
    /\ locals' = Iterated
    /\ UNCHANGED <<pipelineVars, asked, service, os, clock, failures, exit>>

\* poll() reports the signalfd although no signal is pending.
PollSpurious ==
    /\ At("poll")
    /\ "spurious" \in Faults
    /\ ~SignalReady
    /\ locals' = [locals EXCEPT !.signal = TRUE, !.bus = BusReady]
    /\ Goto("signal")
    /\ UNCHANGED <<pipelineVars, asked, service, os, clock, failures, exit>>

\* request_stop(), called while Running or after an earlier request.
RequestStop(state) == IF state = "Running" THEN "StopRequested" ELSE state

\* The signalfd is served first: one read takes one signal, and EAGAIN is no
\* signal.
HandleSignal ==
    /\ At("signal")
    /\ \/ /\ locals.signal => ~SignalReady
          /\ Goto("bus")
          /\ UNCHANGED <<os, service, locals, failures>>
       \/ /\ locals.signal
          /\ \E s \in os.pending : os' = [os EXCEPT !.pending = @ \ {s}]
          /\ SetState(RequestStop(service.lifecycle_state))
          /\ Goto("bus")
          /\ UNCHANGED <<locals, failures>>
       \/ /\ locals.signal
          /\ "read" \in Faults
          /\ RunFails("read")
          /\ UNCHANGED os
    /\ UNCHANGED <<pipelineVars, asked, clock, exit>>

\* The verdict of handle_bus_event(): what the drained messages amount to.
BusVerdict(outcome) ==
    CASE outcome = "Error" -> "error"
      [] outcome = "EndOfStream" /\ ~clock.finite -> "unexpected_eos"
      [] outcome = "EndOfStream" /\ clock.finite -> "stop"
      [] outcome = "Continue" -> "continue"

\* while (lifecycle_state == Running)
LoopOrLeave(state) ==
    IF state = "Running"
    THEN Goto("deadline") /\ locals' = Iterated
    ELSE Goto("shutdown") /\ locals' = [Iterated EXCEPT !.run = TRUE]

\* The bus is served even when the signal has already asked for the stop.
HandleBus ==
    /\ At("bus")
    /\ IF ~locals.bus
       THEN /\ LoopOrLeave(service.lifecycle_state)
            /\ UNCHANGED <<pipelineVars, asked, service, failures>>
       ELSE /\ Drain
            /\ LET verdict == BusVerdict(Aggregate(Queued))
               IN  IF verdict \in {"error", "unexpected_eos"}
                   THEN RunFails(verdict)
                   ELSE LET state == IF verdict = "stop"
                                     THEN RequestStop(service.lifecycle_state)
                                     ELSE service.lifecycle_state
                        IN  /\ SetState(state)
                            /\ LoopOrLeave(state)
                            /\ UNCHANGED failures
    /\ UNCHANGED <<asked, os, clock, exit>>

--------------------------------------------------------------------------------
(* shutdown(), called by main() and again by the destructor                 *)

ShutdownBegin ==
    /\ At("shutdown")
    /\ SetState(IF service.lifecycle_state \in {"Failed", "Stopped"}
                THEN service.lifecycle_state ELSE "StopRequested")
    /\ \/ StopRequest /\ Goto("stopping")
       \/ StopNothing /\ Goto("stopped")
    /\ UNCHANGED <<asked, os, locals, clock, failures, exit>>

PipelineStops ==
    /\ At("stopping")
    /\ StopComplete
    /\ Goto("stopped")
    /\ UNCHANGED <<asked, service, os, locals, clock, failures, exit>>

\* A cleanup step that failed spoils the answer; the cleanup goes on.
Succeeds(ok, what) ==
    /\ locals' = [locals EXCEPT !.success = @ /\ ok]
    /\ IF ok THEN UNCHANGED failures ELSE Fails(what)

PipelineStopped ==
    /\ At("stopped")
    /\ LET ok == result = "true"
       IN  /\ locals' = [locals EXCEPT !.success = ok]
           /\ IF ok THEN UNCHANGED failures ELSE Fails("null")
    /\ service' = [service EXCEPT !.bus_poll_fd = FALSE]
    /\ Goto("ignore")
    /\ UNCHANGED <<pipelineVars, asked, os, clock, exit>>

\* sigaction(SIG_IGN) also discards what is pending.
IgnoreSet(o, ignored) == [o EXCEPT !.ignored = @ \cup ignored, !.pending = @ \ ignored]

IgnoreSignals ==
    /\ At("ignore")
    /\ \/ /\ os' = IF service.owns_signal_mask THEN IgnoreSet(os, Signals) ELSE os
          /\ locals' = [locals EXCEPT !.safe = TRUE]
          /\ UNCHANGED failures
       \/ /\ service.owns_signal_mask
          /\ "ignore" \in Faults
          /\ \E ignored \in {{}, {"SIGINT"}} : os' = IgnoreSet(os, ignored)
          /\ locals' = [locals EXCEPT !.safe = FALSE, !.success = FALSE]
          /\ Fails("ignore")
    /\ Goto("drain")
    /\ UNCHANGED <<pipelineVars, asked, service, clock, exit>>

\* drain_signal_events() reads until nothing is pending.
DrainSignals ==
    /\ At("drain")
    /\ \/ /\ service.signal_fd
          /\ \E s \in os.pending : os' = [os EXCEPT !.pending = @ \ {s}]
          /\ UNCHANGED <<pc, locals, failures>>
       \/ /\ service.signal_fd => ~SignalReady
          /\ Goto("close")
          /\ UNCHANGED <<os, locals, failures>>
       \/ /\ service.signal_fd
          /\ "read" \in Faults
          /\ Succeeds(FALSE, "read")
          /\ Goto("close")
          /\ UNCHANGED os
    /\ UNCHANGED <<pipelineVars, asked, service, clock, exit>>

\* Mutant: a descriptor whose close() failed is kept for another try.
CloseSignalFd_kept ==
    /\ At("close")
    /\ \E ok \in BOOLEAN :
          /\ ok \/ (service.signal_fd /\ "close" \in Faults)
          /\ Succeeds(ok, "close")
          /\ service' = [service EXCEPT !.signal_fd = @ /\ ~ok]
    /\ Goto("restore")
    /\ UNCHANGED <<pipelineVars, asked, os, clock, exit>>

CloseSignalFd ==
    /\ At("close")
    /\ \E ok \in BOOLEAN :
          /\ ok \/ (service.signal_fd /\ "close" \in Faults)
          /\ Succeeds(ok, "close")
    /\ service' = [service EXCEPT !.signal_fd = FALSE]
    /\ Goto("restore")
    /\ UNCHANGED <<pipelineVars, asked, os, clock, exit>>

\* Mutant: the mask comes back even if the signals could not be ignored.
MayRestore_always == TRUE

\* The mask comes back only once its signals are harmless.
MayRestore == locals.safe

RestoreMask ==
    /\ At("restore")
    /\ LET owns == service.owns_signal_mask
       IN  \/ /\ ~(MayRestore /\ owns)
              /\ UNCHANGED <<os, service, locals, failures>>
           \/ /\ MayRestore /\ owns
              /\ Unblock
              /\ service' = [service EXCEPT !.owns_signal_mask = FALSE]
              /\ UNCHANGED <<locals, failures>>
           \/ /\ MayRestore /\ owns
              /\ "restore" \in Faults
              /\ Succeeds(FALSE, "restore")
              /\ UNCHANGED <<os, service>>
    /\ Goto("return")
    /\ UNCHANGED <<pipelineVars, asked, clock, exit>>

\* main()'s verdict; a failed initialize() leaves locals.run FALSE.
ExitStatus(run_succeeded, shutdown_succeeded) ==
    IF run_succeeded /\ shutdown_succeeded THEN "success" ELSE "failure"

\* shutdown() returns: to main(), which fixes the exit status and runs the
\* destructor, or to the destructor, and the process exits.
ShutdownReturns ==
    /\ At("return")
    /\ SetState("Stopped")
    /\ IF locals.destructing
       THEN Goto("exited") /\ UNCHANGED <<locals, exit>>
       ELSE /\ exit' = ExitStatus(locals.run, locals.success)
            /\ locals' = [locals EXCEPT !.destructing = TRUE]
            /\ Goto("shutdown")
    /\ UNCHANGED <<pipelineVars, asked, os, clock, failures>>

--------------------------------------------------------------------------------
Initialize == BlockSignals \/ CreateSignalFd \/ SignalFdFails \/ BuildPipeline \/ TakeBusFd

Run ==
    \/ StartPipeline \/ PipelineStarts \/ PipelineStartFails \/ DrainFailedStart
    \/ CheckDeadline \/ PollReturns \/ PollTimesOut
    \/ HandleSignal \/ HandleBus

Shutdown ==
    \/ ShutdownBegin \/ PipelineStops \/ PipelineStopped \/ IgnoreSignals
    \/ DrainSignals \/ CloseSignalFd \/ RestoreMask \/ ShutdownReturns

ServiceThread == Initialize \/ Run \/ Shutdown

PollDisturbed == PollFails \/ PollInterrupted \/ PollSpurious

ServiceNext == Signal \/ Expire \/ BusMessage \/ ServiceThread \/ PollDisturbed

Spec == Init /\ [][ServiceNext]_vars

\* The thread is scheduled and the monotonic clock advances; nothing obliges
\* poll() to fail or to be disturbed, and nothing keeps it from being disturbed for
\* ever.
FairSpec == Spec /\ WF_vars(ServiceThread) /\ WF_vars(Expire)

--------------------------------------------------------------------------------
\* Every variable stays in its range; the descriptors the poll uses are open
\* while run() loops (camera_service.cpp, run, shutdown).
TypeOK ==
    /\ PipelineTypeOK
    /\ pc \in {"block", "signalfd", "build", "busfd", "start", "starting", "drain_failed",
               "deadline", "poll", "signal", "bus", "shutdown", "stopping", "stopped",
               "ignore", "drain", "close", "restore", "return", "exited"}
    /\ service \in [lifecycle_state : States, signal_fd : BOOLEAN,
                    owns_signal_mask : BOOLEAN, bus_poll_fd : BOOLEAN]
    /\ os \in [blocked : BOOLEAN, ignored : SUBSET Signals, pending : SUBSET Signals,
               sent : 0 .. MaxSignals, killed : BOOLEAN]
    /\ clock \in [finite : BOOLEAN, left : TimesLeft]
    /\ locals \in [signal : BOOLEAN, bus : BOOLEAN, capped : BOOLEAN, run : BOOLEAN,
                   success : BOOLEAN, safe : BOOLEAN, destructing : BOOLEAN]
    /\ pc \in {"deadline", "poll", "signal", "bus"} =>
          service.signal_fd /\ service.bus_poll_fd /\ pipeline.held

\* "preventing repeated termination requests from bypassing cleanup": once the
\* service owns its signals no SIGINT or SIGTERM, however many and whenever
\* they come, ends the process by its default action, before or after the mask
\* is restored.  Only a process that could not create its signalfd is exposed.
NeverKilled ==
    os.killed => service.lifecycle_state = "Created" \/ failures \cap {"mask", "signalfd"} # {}

\* The exit status tells exactly whether anything failed before main()
\* returned: an ERROR drained in the same wake as a stop request, an
\* unexpected EOS, a missed deadline or a failed cleanup step is never lost,
\* and an orderly stop is never reported as a failure.  The destructor's second
\* shutdown therefore has nothing to repair after a success.  A command line
\* that is not understood is answered 2 and starts nothing.
ExitStatusTruthful ==
    /\ exit = "usage" <=> asked = "nonsense"
    /\ asked = "help" => exit = "success"
    /\ exit # "none" /\ asked # "nonsense" => (exit = "success" <=> failures = {})
    /\ exit = "success" => "ERROR" \notin seen /\ ("EOS" \in seen => asked = "finite")
    /\ exit = "success" => ~service.owns_signal_mask /\ ~os.blocked /\ element = "NULL"

\* Whatever failed on the way, nothing the process holds outlives it.
NothingLeftBehind ==
    pc = "exited" =>
        /\ ~pipeline.held /\ ~service.signal_fd /\ ~service.bus_poll_fd
        /\ service.lifecycle_state = IF asked \in {"help", "nonsense"} THEN "Created" ELSE "Stopped"
        /\ os.blocked => failures \cap {"ignore", "restore", "signalfd"} # {}

\* "finite pipeline exceeded its nominal duration plus the 120-second stall
\* allowance": a run fails for its deadline only once that has passed.
DeadlineIsAbsolute == "deadline" \in failures => clock.left = "none"

\* A running service ends: one asked for a number of buffers always, a continuous one as soon as a
\* termination signal is pending or a terminal message is on the bus.
StopsWhenTold ==
    /\ (asked = "finite" /\ service.lifecycle_state = "Running") ~> pc = "exited"
    /\ (SignalReady /\ service.lifecycle_state = "Running") ~> pc = "exited"
    /\ (Queued \cap Terminal # {} /\ service.lifecycle_state = "Running") ~> pc = "exited"
================================================================================
