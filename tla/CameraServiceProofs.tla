------------------------- MODULE CameraServiceProofs -------------------------
(***************************************************************************)
(* What the service promises, for every command line, every behaviour of    *)
(* the pipeline and every choice of the calls that may fail.  ServiceInv is *)
(* the inductive invariant: what holds at each label, what the history of   *)
(* failures says of main()'s verdicts, and who owns the signal mask.        *)
(* One lemma for each action shows that it keeps all of it; the pipeline's  *)
(* own invariant is kept because each step of the service is a step of the  *)
(* pipeline or leaves it alone.                                             *)
(***************************************************************************)
EXTENDS CameraService, GstreamerPipelineProofs, CommandLineProofs, TLAPS

\* The labels, by the function of the service that is running.
Initializing == {"block", "signalfd", "build", "busfd"}
Running == {"start", "starting", "drain_failed", "deadline", "poll", "signal", "bus"}
Stopping == {"shutdown", "stopping", "stopped"}
CleaningUp == {"ignore", "drain", "close", "restore", "return"}

\* The thread is inside start() or stop() of the pipeline, or in no call of it.
CallUnderWay ==
    /\ pc = "starting" <=> calling = "start"
    /\ pc = "stopping" <=> calling = "stop"
    /\ calling # "wait"

\* What is open while run() loops, and what shutdown() has given back.
Held ==
    /\ pc \in {"build", "busfd"} \cup Running => service.signal_fd
    /\ pc \in {"busfd"} \cup Running => pipeline.held
    /\ pc \in Running => service.bus_poll_fd
    /\ pc \in {"stopped", "exited"} \cup CleaningUp \/ locals.destructing => ~pipeline.held
    /\ pc \in {"exited"} \cup CleaningUp \/ locals.destructing => ~service.bus_poll_fd
    /\ pc \in {"restore", "return", "exited"} \/ locals.destructing => ~service.signal_fd

\* The exit status is fixed when the destructor begins.
Destroying ==
    /\ locals.destructing => pc \in (Stopping \ {"stopping"}) \cup CleaningUp \cup {"exited"}
    /\ exit = "none" <=> pc # "exited" /\ ~locals.destructing

\* A command line that starts nothing, and one that does.
Asked ==
    /\ asked \in {"help", "nonsense", "finite", "continuous"}
    /\ asked \in {"help", "nonsense"} =>
          /\ pc = "exited" /\ service.lifecycle_state = "Created" /\ failures = {}
          /\ ~os.blocked /\ ~locals.destructing
          /\ exit = IF asked = "help" THEN "success" ELSE "usage"
    /\ asked \in {"finite", "continuous"} =>
          /\ exit \in {"none", "success", "failure"}
          /\ clock.finite <=> asked = "finite"
          /\ pc = "exited" => locals.destructing /\ service.lifecycle_state = "Stopped"

\* main()'s verdicts know of every failure.
Verdicts ==
    /\ pc \in Initializing \cup Running => failures = {} /\ ~locals.run
    /\ ~locals.destructing /\ pc \in Stopping => (failures = {} <=> locals.run)
    /\ ~locals.destructing /\ pc \in CleaningUp => (failures = {} <=> locals.run /\ locals.success)
    /\ locals.destructing => (exit = "success" <=> failures = {})
    /\ failures = {} => "ERROR" \notin seen /\ ("EOS" \in seen => asked = "finite")
    /\ element # "NULL" /\ ~pipeline.held =>
          failures # {} \/ (pc = "stopped" /\ result = "false" /\ ~locals.destructing)

\* Failures after which the mask cannot be given back safely.
Spoilt == "ignore" \in failures \/ "restore" \in failures \/ "signalfd" \in failures

\* Failures after which initialize() leaves the process without the mask.
Exposed == "mask" \in failures \/ "signalfd" \in failures

\* The signals are blocked exactly while the service owns the mask.  Otherwise
\* they are ignored, unless initialize() failed at them.
Masked ==
    /\ os.blocked <=> service.owns_signal_mask
    /\ pc \in {"block", "signalfd"} => service.lifecycle_state = "Created"
    /\ pc = "signalfd" => service.owns_signal_mask
    /\ pc \notin {"block", "signalfd", "exited"} /\ ~Exposed =>
          service.owns_signal_mask \/ Signals \subseteq os.ignored
    /\ pc \in {"drain", "close", "restore"} /\ service.owns_signal_mask =>
          IF locals.safe THEN Signals \subseteq os.ignored ELSE Spoilt
    /\ (pc = "return" \/ locals.destructing) /\ service.owns_signal_mask => Spoilt
    /\ os.killed => service.lifecycle_state = "Created" \/ Exposed

\* The inductive invariant.
ServiceInv ==
    /\ TypeOK /\ IInv
    /\ CallUnderWay /\ Held /\ Destroying /\ Asked /\ Verdicts /\ Masked

\* All the labels.
Labels == Initializing \cup Running \cup Stopping \cup CleaningUp \cup {"exited"}

\* The locals of main(), run() and shutdown().
Locals == [signal : BOOLEAN, bus : BOOLEAN, capped : BOOLEAN, run : BOOLEAN,
           success : BOOLEAN, safe : BOOLEAN, destructing : BOOLEAN]

\* The fields of the service, of the kernel and of the pipeline.
Services == [lifecycle_state : States, signal_fd : BOOLEAN,
             owns_signal_mask : BOOLEAN, bus_poll_fd : BOOLEAN]

Kernels == [blocked : BOOLEAN, ignored : SUBSET Signals, pending : SUBSET Signals,
            sent : 0 .. MaxSignals, killed : BOOLEAN]

Pipelines == [held : BOOLEAN, built : BOOLEAN, started : BOOLEAN, run_finished : BOOLEAN,
              finite : BOOLEAN]

\* TypeOK with the sets named, as the lemmas use it.
Types ==
    /\ pc \in Labels
    /\ service \in Services
    /\ os \in Kernels
    /\ locals \in Locals
    /\ pipeline \in Pipelines
    /\ pipeline.built <=> pipeline.held

--------------------------------------------------------------------------------
(* The steps.                                                                *)

\* A signal arrives, and kills only a process that does not own its mask.
LEMMA SignalStep ==
  ASSUME ServiceInv, Types, Signal
  PROVE  Types' /\ CallUnderWay' /\ Held' /\ Destroying' /\ Asked' /\ Verdicts' /\ Masked'
  <1> USE DEF ServiceInv, Types, Locals, Services, Kernels, Pipelines, Signal, Alive, Deliver,
              pipelineVars, Labels, Initializing, Running, Stopping, CleaningUp
  <1>a. service' \in Services
    BY DEF States
  <1>b. os' \in Kernels
    <2>1. os.sent + 1 \in 0 .. MaxSignals
      BY ServiceAssumption DEF ServiceAssumption
    <2>2. PICK s \in Signals :
             os' = LET sent == [os EXCEPT !.sent = @ + 1]
                   IN  IF os.blocked THEN [sent EXCEPT !.pending = @ \cup {s}]
                       ELSE Deliver(sent, {s})
      OBVIOUS
    <2>3. CASE os.blocked
      BY <2>1, <2>2, <2>3
    <2>4. CASE ~os.blocked
      <3>1. (os.killed \/ ({s} \ os.ignored) # {}) \in BOOLEAN
        OBVIOUS
      <3> QED
        BY <2>1, <2>2, <2>4, <3>1
    <2> QED
      BY <2>3, <2>4
  <1>c. locals' \in Locals
    BY DEF Locals
  <1>d. /\ pc' \in Labels
        /\ pipeline' \in Pipelines
        /\ pipeline'.built <=> pipeline'.held
    OBVIOUS
  <1>1. Types'
    BY <1>a, <1>b, <1>c, <1>d
  <1>2. CallUnderWay' /\ Held' /\ Destroying'
    BY DEF CallUnderWay, Held, Destroying
  <1>3. Asked'
    BY DEF Asked
  <1>4. Verdicts'
    BY DEF Verdicts, Held
  <1>5. Masked'
    BY DEF Masked, Spoilt, Exposed, Signals, Destroying
  <1> QED
    BY <1>1, <1>2, <1>3, <1>4, <1>5

\* The deadline passes.
LEMMA ExpireStep ==
  ASSUME ServiceInv, Types, Expire
  PROVE  Types' /\ CallUnderWay' /\ Held' /\ Destroying' /\ Asked' /\ Verdicts' /\ Masked'
  <1> USE DEF ServiceInv, Types, Locals, Services, Kernels, Pipelines, Expire, Alive,
              pipelineVars, Labels, Initializing, Running, Stopping, CleaningUp
  <1>1. Types'
    BY DEF States
  <1>2. CallUnderWay' /\ Held' /\ Destroying'
    BY DEF CallUnderWay, Held, Destroying
  <1>3. Asked'
    BY DEF Asked
  <1>4. Verdicts'
    BY DEF Verdicts, Held
  <1>5. Masked'
    BY DEF Masked, Spoilt, Exposed, Signals, Destroying
  <1> QED
    BY <1>1, <1>2, <1>3, <1>4, <1>5

\* A message is posted on the bus.
LEMMA BusMessageStep ==
  ASSUME ServiceInv, Types, BusMessage
  PROVE  Types' /\ CallUnderWay' /\ Held' /\ Destroying' /\ Asked' /\ Verdicts' /\ Masked'
  <1> USE DEF ServiceInv, Types, Locals, Services, Kernels, Pipelines, BusMessage, Alive, Post,
              serviceVars, pipelineVars, Labels, Initializing, Running, Stopping, CleaningUp
  <1>1. Types'
    BY DEF States
  <1>2. CallUnderWay' /\ Held' /\ Destroying'
    BY DEF CallUnderWay, Held, Destroying
  <1>3. Asked'
    BY DEF Asked
  <1>4. Verdicts'
    BY DEF Verdicts, Held
  <1>5. Masked'
    BY DEF Masked, Spoilt, Exposed, Signals, Destroying
  <1> QED
    BY <1>1, <1>2, <1>3, <1>4, <1>5

\* The mask is taken, or initialize() gives up.
LEMMA BlockSignalsStep ==
  ASSUME ServiceInv, Types, BlockSignals
  PROVE  Types' /\ CallUnderWay' /\ Held' /\ Destroying' /\ Asked' /\ Verdicts' /\ Masked'
  <1> USE DEF ServiceInv, Types, Locals, Services, Kernels, Pipelines, BlockSignals, At, Alive,
              Goto, GiveUp, Fails, pipelineVars, Labels, Initializing, Running, Stopping,
              CleaningUp
  <1>1. Types'
    <2>1. service' \in Services /\ os' \in Kernels
      BY DEF States
    <2>2. pc' \in Labels /\ UNCHANGED <<locals, pipeline>>
      OBVIOUS
    <2> QED
      BY <2>1, <2>2
  <1>2. CallUnderWay' /\ Held' /\ Destroying'
    BY DEF CallUnderWay, Held, Destroying
  <1>3. Asked'
    BY DEF Asked
  <1>4. Verdicts'
    BY DEF Verdicts, Held
  <1>5. Masked'
    BY DEF Masked, Spoilt, Exposed, Signals, Destroying
  <1> QED
    BY <1>1, <1>2, <1>3, <1>4, <1>5

\* The signalfd is created.
LEMMA CreateSignalFdStep ==
  ASSUME ServiceInv, Types, CreateSignalFd
  PROVE  Types' /\ CallUnderWay' /\ Held' /\ Destroying' /\ Asked' /\ Verdicts' /\ Masked'
  <1> USE DEF ServiceInv, Types, Locals, Services, Kernels, Pipelines, CreateSignalFd, At,
              Alive, Goto, pipelineVars, Labels, Initializing, Running, Stopping, CleaningUp
  <1>1. Types'
    <2>1. service' \in Services /\ os' \in Kernels
      BY DEF States
    <2>2. pc' \in Labels /\ UNCHANGED <<locals, pipeline>>
      OBVIOUS
    <2> QED
      BY <2>1, <2>2
  <1>2. CallUnderWay' /\ Held' /\ Destroying'
    BY DEF CallUnderWay, Held, Destroying
  <1>3. Asked'
    BY DEF Asked
  <1>4. Verdicts'
    BY DEF Verdicts, Held
  <1>5. Masked'
    BY DEF Masked, Spoilt, Exposed, Signals, Destroying
  <1> QED
    BY <1>1, <1>2, <1>3, <1>4, <1>5

\* Without a signalfd the mask is given back, if it can be.
LEMMA SignalFdFailsStep ==
  ASSUME ServiceInv, Types, SignalFdFails
  PROVE  Types' /\ CallUnderWay' /\ Held' /\ Destroying' /\ Asked' /\ Verdicts' /\ Masked'
  <1> USE DEF ServiceInv, Types, Locals, Services, Kernels, Pipelines, SignalFdFails, At, Alive,
              Goto, GiveUp, Fails, Unblock, Deliver, SetState, pipelineVars, Labels,
              Initializing, Running, Stopping, CleaningUp
  <1>1. Types'
    <2>1. service' \in Services
      BY DEF States
    <2>2. os' \in Kernels
      <3>1. (os.killed \/ (os.pending \ os.ignored) # {}) \in BOOLEAN /\ {} \in SUBSET Signals
        OBVIOUS
      <3> QED
        BY <3>1
    <2>3. pc' \in Labels /\ UNCHANGED <<locals, pipeline>>
      OBVIOUS
    <2> QED
      BY <2>1, <2>2, <2>3
  <1>2. CallUnderWay' /\ Held' /\ Destroying'
    BY DEF CallUnderWay, Held, Destroying
  <1>3. Asked'
    BY DEF Asked
  <1>4. Verdicts'
    BY DEF Verdicts, Held
  <1>5. Masked'
    BY DEF Masked, Spoilt, Exposed, Signals, Destroying
  <1> QED
    BY <1>1, <1>2, <1>3, <1>4, <1>5

\* The pipeline is built, or initialize() gives up.
LEMMA BuildPipelineStep ==
  ASSUME ServiceInv, Types, BuildPipeline
  PROVE  Types' /\ CallUnderWay' /\ Held' /\ Destroying' /\ Asked' /\ Verdicts' /\ Masked'
  <1> USE DEF ServiceInv, Types, Locals, Services, Kernels, Pipelines, BuildPipeline, At, Alive,
              Goto, GiveUp, Fails, SetState, BuildSucceeds, BuildFails, Returns, Released,
              pipelineVars, Labels, Initializing, Running, Stopping, CleaningUp
  <1>1. Types'
    BY DEF States
  <1>2. CallUnderWay' /\ Held' /\ Destroying'
    BY DEF CallUnderWay, Held, Destroying
  <1>3. Asked'
    BY DEF Asked
  <1>4. Verdicts'
    BY DEF Verdicts, Held
  <1>5. Masked'
    BY DEF Masked, Spoilt, Exposed, Signals, Destroying
  <1> QED
    BY <1>1, <1>2, <1>3, <1>4, <1>5

\* The descriptor of the bus is taken, or initialize() gives up.
LEMMA TakeBusFdStep ==
  ASSUME ServiceInv, Types, TakeBusFd
  PROVE  Types' /\ CallUnderWay' /\ Held' /\ Destroying' /\ Asked' /\ Verdicts' /\ Masked'
  <1> USE DEF ServiceInv, Types, Locals, Services, Kernels, Pipelines, TakeBusFd, At, Alive,
              Goto, GiveUp, Fails, SetState, pipelineVars, Labels, Initializing, Running,
              Stopping, CleaningUp
  <1>a. service' \in Services
    BY DEF States
  <1>b. pc' \in Labels /\ UNCHANGED <<os, locals, pipeline>>
    OBVIOUS
  <1>1. Types'
    BY <1>a, <1>b
  <1>2. CallUnderWay' /\ Held' /\ Destroying'
    BY DEF CallUnderWay, Held, Destroying
  <1>3. Asked'
    BY DEF Asked
  <1>4. Verdicts'
    BY DEF Verdicts, Held
  <1>5. Masked'
    BY DEF Masked, Spoilt, Exposed, Signals, Destroying
  <1> QED
    BY <1>1, <1>2, <1>3, <1>4, <1>5

\* Start() is called.
LEMMA StartPipelineStep ==
  ASSUME ServiceInv, Types, StartPipeline
  PROVE  Types' /\ CallUnderWay' /\ Held' /\ Destroying' /\ Asked' /\ Verdicts' /\ Masked'
  <1> USE DEF ServiceInv, Types, Locals, Services, Kernels, Pipelines, StartPipeline, At, Alive,
              Goto, StartRequest, pipelineVars, Labels, Initializing, Running, Stopping,
              CleaningUp
  <1>1. Types'
    BY DEF States
  <1>2. CallUnderWay' /\ Held' /\ Destroying'
    BY DEF CallUnderWay, Held, Destroying
  <1>3. Asked'
    BY DEF Asked
  <1>4. Verdicts'
    BY DEF Verdicts, Held
  <1>5. Masked'
    BY DEF Masked, Spoilt, Exposed, Signals, Destroying
  <1> QED
    BY <1>1, <1>2, <1>3, <1>4, <1>5

\* Start() answers true.
LEMMA PipelineStartsStep ==
  ASSUME ServiceInv, Types, PipelineStarts
  PROVE  Types' /\ CallUnderWay' /\ Held' /\ Destroying' /\ Asked' /\ Verdicts' /\ Masked'
  <1> USE DEF ServiceInv, Types, Locals, Services, Kernels, Pipelines, PipelineStarts, At,
              Alive, Goto, StartSucceeds, SetState, pipelineVars, Labels, Initializing, Running,
              Stopping, CleaningUp
  <1>1. Types'
    BY DEF States
  <1>2. CallUnderWay' /\ Held' /\ Destroying'
    BY DEF CallUnderWay, Held, Destroying
  <1>3. Asked'
    BY DEF Asked
  <1>4. Verdicts'
    BY DEF Verdicts, Held
  <1>5. Masked'
    BY DEF Masked, Spoilt, Exposed, Signals, Destroying
  <1> QED
    BY <1>1, <1>2, <1>3, <1>4, <1>5

\* Start() answers false.
LEMMA PipelineStartFailsStep ==
  ASSUME ServiceInv, Types, PipelineStartFails
  PROVE  Types' /\ CallUnderWay' /\ Held' /\ Destroying' /\ Asked' /\ Verdicts' /\ Masked'
  <1> USE DEF ServiceInv, Types, Locals, Services, Kernels, Pipelines, PipelineStartFails, At,
              Alive, Goto, StartFails, pipelineVars, Labels, Initializing, Running, Stopping,
              CleaningUp
  <1>1. Types'
    BY DEF States
  <1>2. CallUnderWay' /\ Held' /\ Destroying'
    BY DEF CallUnderWay, Held, Destroying
  <1>3. Asked'
    BY DEF Asked
  <1>4. Verdicts'
    BY DEF Verdicts, Held
  <1>5. Masked'
    BY DEF Masked, Spoilt, Exposed, Signals, Destroying
  <1> QED
    BY <1>1, <1>2, <1>3, <1>4, <1>5

\* The bus is drained after a start that failed.
LEMMA DrainFailedStartStep ==
  ASSUME ServiceInv, Types, DrainFailedStart
  PROVE  Types' /\ CallUnderWay' /\ Held' /\ Destroying' /\ Asked' /\ Verdicts' /\ Masked'
  <1> USE DEF ServiceInv, Types, Locals, Services, Kernels, Pipelines, DrainFailedStart, At,
              Alive, Goto, Drain, GiveUp, Fails, SetState, Process, EndRun, pipelineVars,
              Labels, Initializing, Running, Stopping, CleaningUp
  <1>1. Types'
    BY DEF States
  <1>2. CallUnderWay' /\ Held' /\ Destroying'
    BY DEF CallUnderWay, Held, Destroying
  <1>3. Asked'
    BY DEF Asked
  <1>4. Verdicts'
    BY DEF Verdicts, Held
  <1>5. Masked'
    BY DEF Masked, Spoilt, Exposed, Signals, Destroying
  <1> QED
    BY <1>1, <1>2, <1>3, <1>4, <1>5

\* The loop looks at its deadline.
LEMMA CheckDeadlineStep ==
  ASSUME ServiceInv, Types, CheckDeadline
  PROVE  Types' /\ CallUnderWay' /\ Held' /\ Destroying' /\ Asked' /\ Verdicts' /\ Masked'
  <1> USE DEF ServiceInv, Types, Locals, Services, Kernels, Pipelines, CheckDeadline, At, Alive,
              Goto, RunFails, Iterated, GiveUp, Fails, SetState, pipelineVars, Labels,
              Initializing, Running, Stopping, CleaningUp
  <1>a. /\ \/ /\ pc' = "shutdown" /\ locals' = Iterated /\ failures' = {"deadline"}
              /\ service' = [service EXCEPT !.lifecycle_state = "Failed"]
           \/ /\ pc' = "poll" /\ UNCHANGED <<failures, service>>
              /\ \E b \in BOOLEAN : locals' = [locals EXCEPT !.capped = b]
        /\ pc = "deadline" /\ failures = {} /\ ~locals.destructing
        /\ UNCHANGED <<pipelineVars, asked, os, clock, exit>>
    BY DEF Verdicts, Destroying
  <1>1. Types'
    <2>1. service' \in Services /\ locals' \in Locals
      BY <1>a DEF States
    <2> QED
      BY <1>a, <2>1
  <1>2. CallUnderWay' /\ Held' /\ Destroying'
    BY DEF CallUnderWay, Held, Destroying
  <1>3. Asked'
    BY DEF Asked
  <1>4. Verdicts'
    BY <1>a DEF Verdicts, Held
  <1>5. Masked'
    <2>1. /\ UNCHANGED os /\ UNCHANGED service.owns_signal_mask
          /\ Exposed' <=> Exposed
          /\ pc' \in {"shutdown", "poll"} /\ ~locals'.destructing /\ ~os'.killed
      BY <1>a DEF Exposed
    <2> QED
      BY <1>a, <2>1 DEF Masked
  <1> QED
    BY <1>1, <1>2, <1>3, <1>4, <1>5

\* Poll() returns, and its revents are a snapshot.
LEMMA PollReturnsStep ==
  ASSUME ServiceInv, Types, PollReturns
  PROVE  Types' /\ CallUnderWay' /\ Held' /\ Destroying' /\ Asked' /\ Verdicts' /\ Masked'
  <1> USE DEF ServiceInv, Types, Locals, Services, Kernels, Pipelines, PollReturns, At, Alive,
              Goto, pipelineVars, Labels, Initializing, Running, Stopping, CleaningUp
  <1>a. service' \in Services
    BY DEF States
  <1>b. os' \in Kernels
    BY ServiceAssumption DEF Signals, ServiceAssumption
  <1>c. locals' \in Locals
    <2>1. SignalReady \in BOOLEAN /\ BusReady \in BOOLEAN
      BY DEF SignalReady, BusReady
    <2> QED
      BY <2>1 DEF Locals
  <1>d. /\ pc' \in Labels
        /\ pipeline' \in Pipelines
        /\ pipeline'.built <=> pipeline'.held
    OBVIOUS
  <1>1. Types'
    BY <1>a, <1>b, <1>c, <1>d
  <1>2. CallUnderWay' /\ Held' /\ Destroying'
    BY DEF CallUnderWay, Held, Destroying
  <1>3. Asked'
    BY DEF Asked
  <1>4. Verdicts'
    BY DEF Verdicts, Held
  <1>5. Masked'
    BY DEF Masked, Spoilt, Exposed, Signals, Destroying
  <1> QED
    BY <1>1, <1>2, <1>3, <1>4, <1>5

\* Poll() times out.
LEMMA PollTimesOutStep ==
  ASSUME ServiceInv, Types, PollTimesOut
  PROVE  Types' /\ CallUnderWay' /\ Held' /\ Destroying' /\ Asked' /\ Verdicts' /\ Masked'
  <1> USE DEF ServiceInv, Types, Locals, Services, Kernels, Pipelines, PollTimesOut, At, Alive,
              Goto, RunFails, Iterated, GiveUp, Fails, SetState, pipelineVars, Labels,
              Initializing, Running, Stopping, CleaningUp
  <1>1. Types'
    BY DEF States
  <1>2. CallUnderWay' /\ Held' /\ Destroying'
    BY DEF CallUnderWay, Held, Destroying
  <1>3. Asked'
    BY DEF Asked
  <1>4. Verdicts'
    BY DEF Verdicts, Held
  <1>5. Masked'
    BY DEF Masked, Spoilt, Exposed, Signals, Destroying
  <1> QED
    BY <1>1, <1>2, <1>3, <1>4, <1>5

\* Poll() fails.
LEMMA PollFailsStep ==
  ASSUME ServiceInv, Types, PollFails
  PROVE  Types' /\ CallUnderWay' /\ Held' /\ Destroying' /\ Asked' /\ Verdicts' /\ Masked'
  <1> USE DEF ServiceInv, Types, Locals, Services, Kernels, Pipelines, PollFails, At, Alive,
              Goto, RunFails, Iterated, GiveUp, Fails, SetState, pipelineVars, Labels,
              Initializing, Running, Stopping, CleaningUp
  <1>1. Types'
    BY DEF States
  <1>2. CallUnderWay' /\ Held' /\ Destroying'
    BY DEF CallUnderWay, Held, Destroying
  <1>3. Asked'
    BY DEF Asked
  <1>4. Verdicts'
    BY DEF Verdicts, Held
  <1>5. Masked'
    BY DEF Masked, Spoilt, Exposed, Signals, Destroying
  <1> QED
    BY <1>1, <1>2, <1>3, <1>4, <1>5

\* poll() is interrupted.
LEMMA PollInterruptedStep ==
  ASSUME ServiceInv, Types, PollInterrupted
  PROVE  Types' /\ CallUnderWay' /\ Held' /\ Destroying' /\ Asked' /\ Verdicts' /\ Masked'
  <1> USE DEF ServiceInv, Types, Locals, Services, Kernels, Pipelines, PollInterrupted, At,
              Alive, Goto, Iterated, pipelineVars, Labels, Initializing, Running, Stopping,
              CleaningUp
  <1>1. Types'
    <2>1. locals' \in Locals
      BY DEF BusReady
    <2> QED
      BY <2>1 DEF States
  <1>2. CallUnderWay' /\ Held' /\ Destroying'
    BY DEF CallUnderWay, Held, Destroying
  <1>3. Asked'
    BY DEF Asked
  <1>4. Verdicts'
    BY DEF Verdicts, Held
  <1>5. Masked'
    BY DEF Masked, Spoilt, Exposed, Signals, Destroying
  <1> QED
    BY <1>1, <1>2, <1>3, <1>4, <1>5

\* poll() reports a signal that is not there.
LEMMA PollSpuriousStep ==
  ASSUME ServiceInv, Types, PollSpurious
  PROVE  Types' /\ CallUnderWay' /\ Held' /\ Destroying' /\ Asked' /\ Verdicts' /\ Masked'
  <1> USE DEF ServiceInv, Types, Locals, Services, Kernels, Pipelines, PollSpurious, At, Alive,
              Goto, pipelineVars, Labels, Initializing, Running, Stopping, CleaningUp
  <1>1. Types'
    <2>1. locals' \in Locals
      BY DEF BusReady
    <2> QED
      BY <2>1 DEF States
  <1>2. CallUnderWay' /\ Held' /\ Destroying'
    BY DEF CallUnderWay, Held, Destroying
  <1>3. Asked'
    BY DEF Asked
  <1>4. Verdicts'
    BY DEF Verdicts, Held
  <1>5. Masked'
    BY DEF Masked, Spoilt, Exposed, Signals, Destroying
  <1> QED
    BY <1>1, <1>2, <1>3, <1>4, <1>5

\* The signalfd is read.
LEMMA HandleSignalStep ==
  ASSUME ServiceInv, Types, HandleSignal
  PROVE  Types' /\ CallUnderWay' /\ Held' /\ Destroying' /\ Asked' /\ Verdicts' /\ Masked'
  <1> USE DEF ServiceInv, Types, Locals, Services, Kernels, Pipelines, HandleSignal, At, Alive,
              Goto, RunFails, Iterated, GiveUp, Fails, SetState, RequestStop, pipelineVars,
              Labels, Initializing, Running, Stopping, CleaningUp
  <1>1. Types'
    <2>1. service' \in Services
      BY DEF States
    <2>2. os' \in Kernels
      <3>1. \A s \in Signals : (os.pending \ {s}) \in SUBSET Signals
        OBVIOUS
      <3> QED
        BY <3>1
    <2>3. locals' \in Locals
      OBVIOUS
    <2>4. pc' \in Labels /\ UNCHANGED pipeline
      OBVIOUS
    <2> QED
      BY <2>1, <2>2, <2>3, <2>4
  <1>2. CallUnderWay' /\ Held' /\ Destroying'
    BY DEF CallUnderWay, Held, Destroying
  <1>3. Asked'
    BY DEF Asked
  <1>4. Verdicts'
    BY DEF Verdicts, Held
  <1>5. Masked'
    BY DEF Masked, Spoilt, Exposed, Signals, Destroying
  <1> QED
    BY <1>1, <1>2, <1>3, <1>4, <1>5

\* The bus is drained, and its verdict ends the loop or not.
LEMMA HandleBusStep ==
  ASSUME ServiceInv, Types, HandleBus
  PROVE  Types' /\ CallUnderWay' /\ Held' /\ Destroying' /\ Asked' /\ Verdicts' /\ Masked'
  <1> USE DEF Labels, Initializing, Running, Stopping, CleaningUp
  <1>0. /\ pc = "bus" /\ failures = {} /\ ~locals.run /\ ~locals.destructing /\ exit = "none"
        /\ service.signal_fd /\ pipeline.held /\ service.bus_poll_fd /\ ~os.killed
        /\ asked \in {"finite", "continuous"} /\ (clock.finite <=> asked = "finite")
        /\ service.owns_signal_mask \/ Signals \subseteq os.ignored
        /\ calling # "start" /\ calling # "stop" /\ calling # "wait"
        /\ "ERROR" \notin seen /\ ("EOS" \in seen => asked = "finite")
        /\ UNCHANGED <<asked, os, clock, exit>>
    <2>1. pc = "bus" /\ ~os.killed /\ UNCHANGED <<asked, os, clock, exit>>
      BY DEF HandleBus, At, Alive
    <2>2. /\ failures = {} /\ ~locals.run /\ "ERROR" \notin seen
          /\ "EOS" \in seen => asked = "finite"
      BY <2>1 DEF ServiceInv, Verdicts
    <2>3. ~locals.destructing /\ exit = "none"
      BY <2>1 DEF ServiceInv, Destroying
    <2>4. /\ service.signal_fd /\ pipeline.held /\ service.bus_poll_fd
          /\ calling # "start" /\ calling # "stop" /\ calling # "wait"
      BY <2>1 DEF ServiceInv, Held, CallUnderWay
    <2>5. asked \in {"finite", "continuous"} /\ (clock.finite <=> asked = "finite")
      BY <2>1 DEF ServiceInv, Asked
    <2>6. service.owns_signal_mask \/ Signals \subseteq os.ignored
      BY <2>1, <2>2 DEF ServiceInv, Masked, Exposed
    <2> QED
      BY <2>1, <2>2, <2>3, <2>4, <2>5, <2>6
  <1>1. \/ /\ UNCHANGED <<pipelineVars, failures>>
           /\ service' = service
           /\ \/ pc' = "deadline" /\ locals' = Iterated
              \/ pc' = "shutdown" /\ locals' = [Iterated EXCEPT !.run = TRUE]
        \/ /\ Drain
           /\ \E what \in {"error", "unexpected_eos"} : failures' = {what}
           /\ service' = [service EXCEPT !.lifecycle_state = "Failed"]
           /\ pc' = "shutdown" /\ locals' = Iterated
        \/ /\ Drain
           /\ Aggregate(Queued) = "Continue" \/ (Aggregate(Queued) = "EndOfStream" /\ clock.finite)
           /\ failures' = failures
           /\ \E state \in {service.lifecycle_state, "StopRequested"} :
                 service' = [service EXCEPT !.lifecycle_state = state]
           /\ \/ pc' = "deadline" /\ locals' = Iterated
              \/ pc' = "shutdown" /\ locals' = [Iterated EXCEPT !.run = TRUE]
    <2>1. CASE ~locals.bus
      BY <2>1 DEF HandleBus, LoopOrLeave, Goto
    <2>2. CASE locals.bus /\ Aggregate(Queued) = "Error"
      BY <1>0, <2>2 DEF HandleBus, RunFails, GiveUp, Fails, Goto, SetState, BusVerdict
    <2>3. CASE locals.bus /\ Aggregate(Queued) = "EndOfStream" /\ ~clock.finite
      BY <1>0, <2>3 DEF HandleBus, RunFails, GiveUp, Fails, Goto, SetState, BusVerdict
    <2>4. CASE locals.bus /\ Aggregate(Queued) = "EndOfStream" /\ clock.finite
      BY <1>0, <2>4 DEF HandleBus, LoopOrLeave, RequestStop, Goto, SetState, BusVerdict
    <2>5. CASE locals.bus /\ Aggregate(Queued) = "Continue"
      BY <1>0, <2>5 DEF HandleBus, LoopOrLeave, RequestStop, Goto, SetState, BusVerdict
    <2> QED
      BY <2>1, <2>2, <2>3, <2>4, <2>5 DEF Aggregate
  <1>2. /\ pipeline' \in Pipelines
        /\ pipeline'.held = pipeline.held /\ pipeline'.built = pipeline.built
        /\ UNCHANGED <<calling, element>>
        /\ seen' = seen \/ seen' = seen \cup Queued
    BY <1>1, ProcessFacts DEF Types, Pipelines, Drain, pipelineVars
  <1>3. failures' = {} => "ERROR" \notin seen' /\ ("EOS" \in seen' => asked = "finite")
    BY <1>0, <1>1 DEF Drain, Aggregate, pipelineVars
  <1>4. Types'
    <2>1. pc' \in Labels /\ locals' \in Locals /\ os' = os
      BY <1>0, <1>1 DEF Types, Locals, Iterated
    <2>2. service' \in Services
      BY <1>1 DEF Types, Services, States
    <2> QED
      BY <1>2, <2>1, <2>2 DEF Types
  <1>5. /\ pc' \in {"deadline", "shutdown"}
        /\ locals'.destructing = locals.destructing
        /\ service'.signal_fd = service.signal_fd /\ service'.bus_poll_fd = service.bus_poll_fd
        /\ service'.owns_signal_mask = service.owns_signal_mask
        /\ pc' = "deadline" => failures' = {} /\ ~locals'.run
        /\ pc' = "shutdown" => (failures' = {} <=> locals'.run)
        /\ "mask" \notin failures' /\ "signalfd" \notin failures'
    BY <1>0, <1>1 DEF Types, Locals, Iterated, Services
  <1>6. CallUnderWay' /\ Held' /\ Destroying'
    BY <1>0, <1>2, <1>5 DEF CallUnderWay, Held, Destroying
  <1>7. Asked'
    BY <1>0, <1>5 DEF Asked
  <1>8. Verdicts'
    BY <1>0, <1>2, <1>3, <1>5 DEF Verdicts
  <1>9. Masked'
    BY <1>0, <1>5 DEF Masked, Spoilt, Exposed, ServiceInv
  <1> QED
    BY <1>4, <1>6, <1>7, <1>8, <1>9

\* Shutdown() is entered.
LEMMA ShutdownBeginStep ==
  ASSUME ServiceInv, Types, ShutdownBegin
  PROVE  Types' /\ CallUnderWay' /\ Held' /\ Destroying' /\ Asked' /\ Verdicts' /\ Masked'
  <1> USE DEF ServiceInv, Types, Locals, Services, Kernels, Pipelines, ShutdownBegin, At, Alive,
              Goto, SetState, StopRequest, StopNothing, Returns, pipelineVars, Labels,
              Initializing, Running, Stopping, CleaningUp
  <1>1. Types'
    BY DEF States
  <1>2. CallUnderWay' /\ Held' /\ Destroying'
    BY DEF CallUnderWay, Held, Destroying
  <1>3. Asked'
    BY DEF Asked
  <1>4. Verdicts'
    BY DEF Verdicts, Held
  <1>5. Masked'
    BY DEF Masked, Spoilt, Exposed, Signals, Destroying
  <1> QED
    BY <1>1, <1>2, <1>3, <1>4, <1>5

\* Stop() answers.
LEMMA PipelineStopsStep ==
  ASSUME ServiceInv, Types, PipelineStops
  PROVE  Types' /\ CallUnderWay' /\ Held' /\ Destroying' /\ Asked' /\ Verdicts' /\ Masked'
  <1> USE DEF ServiceInv, Types, Locals, Services, Kernels, Pipelines, PipelineStops, At, Alive,
              Goto, StopComplete, ReachNull, MissNull, Released, pipelineVars, Labels,
              Initializing, Running, Stopping, CleaningUp
  <1>1. Types'
    BY DEF States
  <1>2. CallUnderWay' /\ Held' /\ Destroying'
    BY DEF CallUnderWay, Held, Destroying
  <1>3. Asked'
    BY DEF Asked
  <1>4. Verdicts'
    BY DEF Verdicts, Held
  <1>5. Masked'
    BY DEF Masked, Spoilt, Exposed, Signals, Destroying
  <1> QED
    BY <1>1, <1>2, <1>3, <1>4, <1>5

\* The answer of stop() joins the verdict.
LEMMA PipelineStoppedStep ==
  ASSUME ServiceInv, Types, PipelineStopped
  PROVE  Types' /\ CallUnderWay' /\ Held' /\ Destroying' /\ Asked' /\ Verdicts' /\ Masked'
  <1> USE DEF ServiceInv, Types, Locals, Services, Kernels, Pipelines, PipelineStopped, At,
              Alive, Goto, Fails, pipelineVars, Labels, Initializing, Running, Stopping,
              CleaningUp
  <1>1. Types'
    BY DEF States
  <1>2. CallUnderWay' /\ Held' /\ Destroying'
    BY DEF CallUnderWay, Held, Destroying
  <1>3. Asked'
    BY DEF Asked
  <1>4. Verdicts'
    BY DEF Verdicts, Held
  <1>5. Masked'
    BY DEF Masked, Spoilt, Exposed, Signals, Destroying
  <1> QED
    BY <1>1, <1>2, <1>3, <1>4, <1>5

\* The signals are ignored before the mask goes.
LEMMA IgnoreSignalsStep ==
  ASSUME ServiceInv, Types, IgnoreSignals
  PROVE  Types' /\ CallUnderWay' /\ Held' /\ Destroying' /\ Asked' /\ Verdicts' /\ Masked'
  <1> USE DEF ServiceInv, Types, Locals, Services, Kernels, Pipelines, IgnoreSignals, At, Alive,
              Goto, Fails, IgnoreSet, pipelineVars, Labels, Initializing, Running, Stopping,
              CleaningUp
  <1>a. service' \in Services
    BY DEF States
  <1>b. os' \in Kernels
    <2>1. PICK ignored \in SUBSET Signals :
             os' = os \/ os' = [os EXCEPT !.ignored = @ \cup ignored, !.pending = @ \ ignored]
      BY DEF Signals
    <2>2. (os.ignored \cup ignored) \in SUBSET Signals /\ (os.pending \ ignored) \in SUBSET Signals
      OBVIOUS
    <2> QED
      BY <2>1, <2>2
  <1>c. locals' \in Locals
    BY DEF Locals
  <1>d. /\ pc' \in Labels
        /\ pipeline' \in Pipelines
        /\ pipeline'.built <=> pipeline'.held
    OBVIOUS
  <1>1. Types'
    BY <1>a, <1>b, <1>c, <1>d
  <1>2. CallUnderWay' /\ Held' /\ Destroying'
    BY DEF CallUnderWay, Held, Destroying
  <1>3. Asked'
    BY DEF Asked
  <1>4. Verdicts'
    BY DEF Verdicts, Held
  <1>5. Masked'
    <2>0. PICK ignored \in SUBSET Signals :
             os' = os \/ os' = [os EXCEPT !.ignored = @ \cup ignored, !.pending = @ \ ignored]
      BY DEF Signals
    <2>1. os'.blocked = os.blocked /\ os'.killed = os.killed /\ os.ignored \subseteq os'.ignored
      <3>1. CASE os' = os
        BY <3>1
      <3>2. CASE os' = [os EXCEPT !.ignored = @ \cup ignored, !.pending = @ \ ignored]
        BY <3>2
      <3> QED
        BY <2>0, <3>1, <3>2
    <2>2. pc' = "drain" /\ service' = service /\ failures \subseteq failures'
      OBVIOUS
    <2>3. service.owns_signal_mask =>
             IF locals'.safe THEN Signals \subseteq os'.ignored ELSE Spoilt'
      <3>1. ASSUME service.owns_signal_mask, os' = IgnoreSet(os, Signals)
            PROVE  Signals \subseteq os'.ignored
        BY <3>1
      <3>2. ASSUME service.owns_signal_mask, ~locals'.safe
            PROVE  Spoilt'
        BY <3>2 DEF Masked, Spoilt, Destroying
      <3> QED
        BY <3>1, <3>2
    <2> QED
      BY <2>1, <2>2, <2>3 DEF Masked, Spoilt, Exposed, Destroying, Locals
  <1> QED
    BY <1>1, <1>2, <1>3, <1>4, <1>5

\* What is pending is drained.
LEMMA DrainSignalsStep ==
  ASSUME ServiceInv, Types, DrainSignals
  PROVE  Types' /\ CallUnderWay' /\ Held' /\ Destroying' /\ Asked' /\ Verdicts' /\ Masked'
  <1> USE DEF ServiceInv, Types, Locals, Services, Kernels, Pipelines, DrainSignals, At, Alive,
              Goto, Fails, Succeeds, pipelineVars, Labels, Initializing, Running, Stopping,
              CleaningUp
  <1>1. Types'
    BY DEF States
  <1>2. CallUnderWay' /\ Held' /\ Destroying'
    BY DEF CallUnderWay, Held, Destroying
  <1>3. Asked'
    BY DEF Asked
  <1>4. Verdicts'
    BY DEF Verdicts, Held
  <1>5. Masked'
    BY DEF Masked, Spoilt, Exposed, Signals, Destroying
  <1> QED
    BY <1>1, <1>2, <1>3, <1>4, <1>5

\* The signalfd is closed.
LEMMA CloseSignalFdStep ==
  ASSUME ServiceInv, Types, CloseSignalFd
  PROVE  Types' /\ CallUnderWay' /\ Held' /\ Destroying' /\ Asked' /\ Verdicts' /\ Masked'
  <1> USE DEF ServiceInv, Types, Locals, Services, Kernels, Pipelines, CloseSignalFd, At, Alive,
              Goto, Fails, Succeeds, pipelineVars, Labels, Initializing, Running, Stopping,
              CleaningUp
  <1>a. service' \in Services
    BY DEF States
  <1>b. os' \in Kernels
    BY ServiceAssumption DEF Signals, ServiceAssumption
  <1>c. locals' \in Locals
    BY DEF Locals
  <1>d. /\ pc' \in Labels
        /\ pipeline' \in Pipelines
        /\ pipeline'.built <=> pipeline'.held
    OBVIOUS
  <1>1. Types'
    BY <1>a, <1>b, <1>c, <1>d
  <1>2. CallUnderWay' /\ Held' /\ Destroying'
    BY DEF CallUnderWay, Held, Destroying
  <1>3. Asked'
    BY DEF Asked
  <1>4. Verdicts'
    BY DEF Verdicts, Held
  <1>5. Masked'
    BY DEF Masked, Spoilt, Exposed, Signals, Destroying
  <1> QED
    BY <1>1, <1>2, <1>3, <1>4, <1>5

\* The mask is restored, when that is safe.
LEMMA RestoreMaskStep ==
  ASSUME ServiceInv, Types, RestoreMask
  PROVE  Types' /\ CallUnderWay' /\ Held' /\ Destroying' /\ Asked' /\ Verdicts' /\ Masked'
  <1> USE DEF ServiceInv, Types, Locals, Services, Kernels, Pipelines, RestoreMask, At, Alive,
              Goto, Fails, Succeeds, MayRestore, Unblock, Deliver, pipelineVars, Labels,
              Initializing, Running, Stopping, CleaningUp
  <1>a. service' \in Services
    BY DEF States
  <1>b. os' \in Kernels
    BY ServiceAssumption DEF Signals, ServiceAssumption
  <1>c. locals' \in Locals
    BY DEF Locals
  <1>d. /\ pc' \in Labels
        /\ pipeline' \in Pipelines
        /\ pipeline'.built <=> pipeline'.held
    OBVIOUS
  <1>1. Types'
    BY <1>a, <1>b, <1>c, <1>d
  <1>2. CallUnderWay' /\ Held' /\ Destroying'
    BY DEF CallUnderWay, Held, Destroying
  <1>3. Asked'
    BY DEF Asked
  <1>4. Verdicts'
    BY DEF Verdicts, Held
  <1>5. Masked'
    <2>1. CASE ~(MayRestore /\ service.owns_signal_mask) \/ Succeeds(FALSE, "restore")
      BY <2>1 DEF Masked, Spoilt, Exposed, Destroying
    <2>2. CASE MayRestore /\ service.owns_signal_mask /\ Unblock
      <3>1. Signals \subseteq os.ignored /\ os.pending \subseteq os.ignored
        BY <2>2 DEF Masked, Signals
      <3>2. ~os'.blocked /\ ~os'.killed /\ os'.ignored = os.ignored
        BY <2>2, <3>1
      <3>3. os.blocked /\ os' # os
        BY <2>2, <3>2 DEF Masked
      <3>4. ~service'.owns_signal_mask
        BY <3>3
      <3> QED
        BY <3>1, <3>2, <3>4 DEF Masked, Exposed, Destroying
    <2> QED
      BY <2>1, <2>2
  <1> QED
    BY <1>1, <1>2, <1>3, <1>4, <1>5

\* Shutdown() returns to main() or to the destructor.
LEMMA ShutdownReturnsStep ==
  ASSUME ServiceInv, Types, ShutdownReturns
  PROVE  Types' /\ CallUnderWay' /\ Held' /\ Destroying' /\ Asked' /\ Verdicts' /\ Masked'
  <1> USE DEF ServiceInv, Types, Locals, Services, Kernels, Pipelines, ShutdownReturns, At,
              Alive, Goto, SetState, ExitStatus, pipelineVars, Labels, Initializing, Running,
              Stopping, CleaningUp
  <1>a. service' \in Services
    BY DEF States
  <1>b. os' \in Kernels
    BY ServiceAssumption DEF Signals, ServiceAssumption
  <1>c. locals' \in Locals
    BY DEF Locals
  <1>d. /\ pc' \in Labels
        /\ pipeline' \in Pipelines
        /\ pipeline'.built <=> pipeline'.held
    OBVIOUS
  <1>1. Types'
    BY <1>a, <1>b, <1>c, <1>d
  <1>2. CallUnderWay' /\ Held' /\ Destroying'
    BY DEF CallUnderWay, Held, Destroying
  <1>3. Asked'
    BY DEF Asked
  <1>4. Verdicts'
    BY DEF Verdicts, Held
  <1>5. Masked'
    BY DEF Masked, Spoilt, Exposed, Signals, Destroying
  <1> QED
    BY <1>1, <1>2, <1>3, <1>4, <1>5

\* A step of the service is a step of the pipeline, or leaves it alone.
LEMMA PipelineSteps == [ServiceNext]_vars => [Next]_pipelineVars
<1> SUFFICES ASSUME [ServiceNext]_vars PROVE [Next]_pipelineVars
  OBVIOUS
<1> USE DEF Next, Build, Start, Stop, Finish
<1>1. CASE Signal \/ Expire \/ BusMessage \/ PollDisturbed
  BY <1>1 DEF Signal, Expire, BusMessage, PollDisturbed, PollFails, PollInterrupted, PollSpurious
<1>2. CASE Initialize
  BY <1>2
     DEF Initialize, BlockSignals, CreateSignalFd, SignalFdFails, BuildPipeline, TakeBusFd
<1>3. CASE Run
  BY <1>3
     DEF Run, StartPipeline, PipelineStarts, PipelineStartFails, DrainFailedStart,
         CheckDeadline, PollReturns, PollTimesOut, HandleSignal, HandleBus
<1>4. CASE Shutdown
  BY <1>4
     DEF Shutdown, ShutdownBegin, PipelineStops, PipelineStopped, IgnoreSignals,
         DrainSignals, CloseSignalFd, RestoreMask, ShutdownReturns
<1>5. CASE UNCHANGED vars
  BY <1>5 DEF vars
<1> QED
  BY <1>1, <1>2, <1>3, <1>4, <1>5 DEF ServiceNext, ServiceThread

\* The clock only runs down.
LEMMA ClockSteps ==
  ASSUME clock \in [finite : BOOLEAN, left : TimesLeft], [ServiceNext]_vars
  PROVE  clock' \in [finite : BOOLEAN, left : TimesLeft] /\ clock'.finite = clock.finite
<1>1. CASE Expire
  BY <1>1 DEF Expire, TimesLeft
<1>2. CASE Signal \/ BusMessage \/ PollDisturbed
  BY <1>2 DEF Signal, BusMessage, serviceVars, PollDisturbed, PollFails, PollInterrupted,
                PollSpurious
<1>3. CASE Initialize
  BY <1>3
     DEF Initialize, BlockSignals, CreateSignalFd, SignalFdFails, BuildPipeline, TakeBusFd
<1>4. CASE Run
  BY <1>4
     DEF Run, StartPipeline, PipelineStarts, PipelineStartFails, DrainFailedStart,
         CheckDeadline, PollReturns, PollTimesOut, HandleSignal, HandleBus
<1>5. CASE Shutdown
  BY <1>5
     DEF Shutdown, ShutdownBegin, PipelineStops, PipelineStopped, IgnoreSignals,
         DrainSignals, CloseSignalFd, RestoreMask, ShutdownReturns
<1>6. CASE UNCHANGED vars
  BY <1>6 DEF vars, serviceVars
<1> QED
  BY <1>1, <1>2, <1>3, <1>4, <1>5, <1>6 DEF ServiceNext, ServiceThread

\* Every command line starts in it: ServiceCommandLine says what main() reads.
LEMMA ServiceInitially == Init => ServiceInv
<1> SUFFICES ASSUME Init PROVE ServiceInv
  OBVIOUS
<1>1. IInv
  BY InitInvariant DEF Init
<1>2. PICK argv \in ArgumentLists : Main(argv)
  BY DEF Init
<1> DEFINE loop == ServiceArguments(argv)
<1>3. \/ loop.at = "refused" /\ ServiceAsks(argv) = "nonsense"
      \/ loop.at = "help" /\ ServiceAsks(argv) = "help"
      \/ /\ loop.at = "option"
         /\ ServiceAsks(argv) = IF Numbers[loop.config["--buffers"]] = 0
                                THEN "continuous" ELSE "finite"
  BY <1>2, ServiceCommandLine, ServiceAssumption DEF ServiceAssumption
<1>4. \/ asked = "nonsense" /\ pc = "exited" /\ exit = "usage"
      \/ asked = "help" /\ pc = "exited" /\ exit = "success"
      \/ /\ asked \in {"finite", "continuous"} /\ pc = "block" /\ exit = "none"
         /\ clock.finite <=> asked = "finite"
  <2>1. /\ asked = ServiceAsks(argv)
        /\ pc = IF loop.at = "option" THEN "block" ELSE "exited"
        /\ exit = CASE loop.at = "option" -> "none"
                    [] loop.at = "help" -> "success"
                    [] loop.at = "refused" -> "usage"
    BY <1>2, Zenon DEF Main
  <2>2. clock.finite <=> Numbers[loop.config["--buffers"]] # 0
    <3>1. PICK left : clock = [finite |-> Numbers[loop.config["--buffers"]] # 0, left |-> left]
      BY <1>2, Zenon DEF Main
    <3> QED
      BY <3>1
  <2> QED
    BY <1>3, <2>1, <2>2
<1>c. clock \in [finite : BOOLEAN, left : TimesLeft]
  BY <1>2 DEF Main, TimesLeft
<1>5. /\ service = [lifecycle_state |-> "Created", signal_fd |-> FALSE,
                    owns_signal_mask |-> FALSE, bus_poll_fd |-> FALSE]
      /\ os = [blocked |-> FALSE, ignored |-> {}, pending |-> {}, sent |-> 0, killed |-> FALSE]
      /\ locals = [signal |-> FALSE, bus |-> FALSE, capped |-> FALSE, run |-> FALSE,
                   success |-> TRUE, safe |-> FALSE, destructing |-> FALSE]
      /\ failures = {} /\ ~pipeline.held /\ element = "NULL" /\ seen = {} /\ calling = "none"
  BY DEF Init, PipelineInit, Released
<1>6. TypeOK
  <2>1. PipelineTypeOK
    BY <1>1 DEF IInv
  <2>2. 0 \in 0 .. MaxSignals
    BY ServiceAssumption DEF ServiceAssumption
  <2> QED
    BY <1>4, <1>5, <1>c, <2>1, <2>2 DEF TypeOK, States
<1> USE DEF Initializing, Running, Stopping, CleaningUp
<1>7. CallUnderWay /\ Held /\ Destroying
  BY <1>4, <1>5 DEF CallUnderWay, Held, Destroying, Released
<1>8. Asked
  BY <1>4, <1>5 DEF Asked
<1>9. Verdicts
  BY <1>4, <1>5 DEF Verdicts
<1>10. Masked
  BY <1>4, <1>5 DEF Masked
<1> QED
  BY <1>1, <1>6, <1>7, <1>8, <1>9, <1>10 DEF ServiceInv

\* No step leaves it.
LEMMA ServiceSteps == ServiceInv /\ [ServiceNext]_vars => ServiceInv'
<1> SUFFICES ASSUME ServiceInv, [ServiceNext]_vars PROVE ServiceInv'
  OBVIOUS
<1>1. IInv'
  BY PipelineSteps, StepInvariant DEF ServiceInv
<1>2. Types
  BY DEF ServiceInv, TypeOK, PipelineTypeOK, Types, Locals, Services, Kernels, Pipelines, Labels,
         Initializing, Running,
         Stopping, CleaningUp
<1>3. Types' /\ CallUnderWay' /\ Held' /\ Destroying' /\ Asked' /\ Verdicts' /\ Masked'
  <2>1. CASE Signal
    BY <1>2, <2>1, SignalStep
  <2>2. CASE Expire
    BY <1>2, <2>2, ExpireStep
  <2>3. CASE BusMessage
    BY <1>2, <2>3, BusMessageStep
  <2>4. CASE BlockSignals
    BY <1>2, <2>4, BlockSignalsStep
  <2>5. CASE CreateSignalFd
    BY <1>2, <2>5, CreateSignalFdStep
  <2>6. CASE SignalFdFails
    BY <1>2, <2>6, SignalFdFailsStep
  <2>7. CASE BuildPipeline
    BY <1>2, <2>7, BuildPipelineStep
  <2>8. CASE TakeBusFd
    BY <1>2, <2>8, TakeBusFdStep
  <2>9. CASE StartPipeline
    BY <1>2, <2>9, StartPipelineStep
  <2>10. CASE PipelineStarts
    BY <1>2, <2>10, PipelineStartsStep
  <2>11. CASE PipelineStartFails
    BY <1>2, <2>11, PipelineStartFailsStep
  <2>12. CASE DrainFailedStart
    BY <1>2, <2>12, DrainFailedStartStep
  <2>13. CASE CheckDeadline
    BY <1>2, <2>13, CheckDeadlineStep
  <2>14. CASE PollReturns
    BY <1>2, <2>14, PollReturnsStep
  <2>15. CASE PollTimesOut
    BY <1>2, <2>15, PollTimesOutStep
  <2>16. CASE PollFails
    BY <1>2, <2>16, PollFailsStep
  <2>17. CASE HandleSignal
    BY <1>2, <2>17, HandleSignalStep
  <2>18. CASE HandleBus
    BY <1>2, <2>18, HandleBusStep
  <2>19. CASE ShutdownBegin
    BY <1>2, <2>19, ShutdownBeginStep
  <2>20. CASE PipelineStops
    BY <1>2, <2>20, PipelineStopsStep
  <2>21. CASE PipelineStopped
    BY <1>2, <2>21, PipelineStoppedStep
  <2>22. CASE IgnoreSignals
    BY <1>2, <2>22, IgnoreSignalsStep
  <2>23. CASE DrainSignals
    BY <1>2, <2>23, DrainSignalsStep
  <2>24. CASE CloseSignalFd
    BY <1>2, <2>24, CloseSignalFdStep
  <2>25. CASE RestoreMask
    BY <1>2, <2>25, RestoreMaskStep
  <2>26. CASE ShutdownReturns
    BY <1>2, <2>26, ShutdownReturnsStep
  <2>27. CASE PollInterrupted
    BY <1>2, <2>27, PollInterruptedStep
  <2>28. CASE PollSpurious
    BY <1>2, <2>28, PollSpuriousStep
  <2>29. CASE UNCHANGED vars
    BY <1>2, <2>29
       DEF ServiceInv, Types, CallUnderWay, Held, Destroying, Asked, Verdicts, Masked, Spoilt,
           Exposed, vars, pipelineVars, serviceVars
  <2> QED
    BY <2>1, <2>2, <2>3, <2>4, <2>5, <2>6, <2>7, <2>8, <2>9, <2>10, <2>11, <2>12, <2>13, <2>14,
       <2>15, <2>16, <2>17, <2>18, <2>19, <2>20, <2>21, <2>22, <2>23, <2>24, <2>25, <2>26, <2>27,
       <2>28, <2>29
       DEF ServiceNext, ServiceThread, PollDisturbed, Initialize, Run, Shutdown
<1>4. clock' \in [finite : BOOLEAN, left : TimesLeft]
  BY ClockSteps DEF ServiceInv, TypeOK
<1>5. TypeOK'
  BY <1>1, <1>3, <1>4
     DEF IInv, Types, Held, TypeOK, Locals, Services, Kernels, Labels, Initializing, Running,
         Stopping, CleaningUp
<1> QED
  BY <1>1, <1>3, <1>5 DEF ServiceInv

\* The service stays in its invariant.
THEOREM ServiceInvariance == Spec => []ServiceInv
  BY ServiceInitially, ServiceSteps, PTL DEF Spec

\* The fields of the service, of main() and of the kernel stay in their ranges
\* and agree with each other (camera_service.hpp).
THEOREM ServiceTypes == Spec => []TypeOK
<1>1. ServiceInv => TypeOK
  BY DEF ServiceInv
<1> QED
  BY <1>1, ServiceInvariance, PTL

\* No SIGINT and no SIGTERM ends the process by its default action once
\* initialize() has its signalfd, however many come and whenever they come
\* (camera_service.cpp, initialize and shutdown).
THEOREM SignalsNeverKill == Spec => []NeverKilled
<1>1. ServiceInv => NeverKilled
  BY DEF ServiceInv, Masked, Exposed, NeverKilled
<1> QED
  BY <1>1, ServiceInvariance, PTL

\* The exit status is 0 exactly when nothing failed before main() returned, and
\* nonsense on the command line is answered 2 (camstream-service main.cpp).
THEOREM ExitStatusTold == Spec => []ExitStatusTruthful
<1>1. ServiceInv => ExitStatusTruthful
  <2> SUFFICES ASSUME ServiceInv PROVE ExitStatusTruthful
    OBVIOUS
  <2> USE DEF Labels, Initializing, Running, Stopping, CleaningUp
  <2>1. /\ exit = "usage" <=> asked = "nonsense"
        /\ asked = "help" => exit = "success"
    BY DEF ServiceInv, Asked
  <2>2. exit # "none" /\ asked # "nonsense" => (exit = "success" <=> failures = {})
    BY DEF ServiceInv, Asked, Destroying, Verdicts
  <2>3. exit = "success" => "ERROR" \notin seen /\ ("EOS" \in seen => asked = "finite")
    BY <2>1, <2>2 DEF ServiceInv, Verdicts
  <2>4. exit = "success" => ~service.owns_signal_mask /\ ~os.blocked /\ element = "NULL"
    BY <2>1, <2>2 DEF ServiceInv, Verdicts, Masked, Spoilt, Asked, Destroying, Held
  <2> QED
    BY <2>1, <2>2, <2>3, <2>4 DEF ExitStatusTruthful
<1> QED
  BY <1>1, ServiceInvariance, PTL

\* Whatever failed, the process that ends holds no pipeline and no descriptor,
\* and keeps the mask only where giving it back was not safe (camera_service.cpp,
\* shutdown).
THEOREM NothingOutlives == Spec => []NothingLeftBehind
<1>1. ServiceInv => NothingLeftBehind
  BY DEF ServiceInv, Held, Asked, Masked, Spoilt, Destroying, NothingLeftBehind, TypeOK, Exposed
<1> QED
  BY <1>1, ServiceInvariance, PTL

================================================================================
