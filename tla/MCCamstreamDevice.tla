--------------------------- MODULE MCCamstreamDevice ---------------------------
(* Runs the driver in two ways: CamstreamDevice, where pending work runs at *)
(* any time, and CamstreamTimer, where a stream runs against the clock.     *)
(* Liveness is checked, so neither the buffers nor the files are made       *)
(* interchangeable.                                                         *)
EXTENDS CamstreamDevice, CamstreamTimer

VARIABLE clocked      \* which of the two a behaviour runs

mcVars == <<allVars, clock, clocked>>

OddFormat ==
  [pixelformat |-> "MJPG", width |-> 3, height |-> 1, bytesperline |-> 6, sizeimage |-> 6]

Requests == {FillFormat, OddFormat}

\* The clock is of interest once a file has its buffers.
BuffersRequested ==
  /\ Init
  /\ module = "live"
  /\ held = Resources
  /\ camstream_device = TRUE
  /\ active_format = FillFormat
  /\ plane_size = FillFormat.sizeimage
  /\ open = {CHOOSE f \in Files : TRUE}
  /\ owner = CHOOSE f \in Files : TRUE
  /\ closing = NULL

MCInit ==
  /\ TimerInit
  /\ \/ clocked = TRUE /\ BuffersRequested
     \/ clocked = FALSE /\ DeviceInit

Side(clockedAction, deviceAction) ==
  /\ \/ clocked /\ clockedAction /\ UNCHANGED deviceVars
     \/ ~clocked /\ deviceAction /\ UNCHANGED clock
  /\ UNCHANGED clocked

MCNext == Side(TimedNext, DeviceNext)

\* Pending work is run, neither thread stops in the middle of its code, and time
\* passes.  The application may stop calling.
MCFairness ==
  /\ WF_mcVars(Side(TimerFires, WorkStarts /\ Inside))
  /\ WF_mcVars(Side(TimedFrameWork, FrameWork /\ Inside))
  /\ WF_mcVars(Side(TimedInIoctl, InIoctl /\ Inside))
  /\ WF_mcVars(Side(Tick, FALSE))

MCSpec == MCInit /\ [][MCNext]_mcVars /\ MCFairness
=============================================================================
