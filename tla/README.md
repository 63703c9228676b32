# A TLA+ development of camstream-control

camstream-control captures video on a BeagleBone: a synthetic V4L2 driver
(`drivers/camstream-video`), a V4L2 capture program (`apps/camstream-capture`), a
GStreamer wrapper with a diagnostic and a service on top of it
(`libs/camstream-gstreamer`, `apps/camstream-gst-test`, `apps/camstream-service`), and a
camera HAL that loads backend modules at run time, with a C++ session API, one
simulated backend and a diagnostic (`libs/camstream-camera-hal`,
`backends/camera/simulated`, `apps/camstream-camera-test`).

This directory holds specifications of those parts, the TLC configurations that check
them on small instances, and theorems that tlapm checks for every instance. All of them
are translated from the sources; `PROJECT.json` maps each definition to the lines it
stands for. Run the tools in this directory:

    tlc -workers 2 -config CameraService.cfg MCCameraService.tla
    tlapm BackendRuntimeProofs.tla

## Inventory

| component | state it keeps | operations | module |
|---|---|---|---|
| backend runtime (`camera_backend_runtime.cpp`) | `LoadState`, module handle, registered table, path, two counters, one mutex and condition variable | `load_backend`, `unload_backend`, `register_backend`, `record_instance_*` | `BackendRuntime` |
| HAL dispatch (`camera_hal.cpp`) | the table and instance of each camera | create, destroy, ten forwarding calls | `BackendRuntime` (create, destroy), `CameraSession` (`Dispatch`) |
| camera session (`camera_session.cpp`) | `SessionState`, outstanding tokens, one pending rollback | load, open, queries, configure, start, wait, acquire, release, stop, close, destructor | `CameraSession` |
| simulated backend | `SimulatedState`, four buffers with tokens, rotation index, sequence | the callback table | `SimulatedCamera` |
| `camstream-video` stream | list of queued buffers, `streaming`, `sequence`, one delayed work, `next_frame_deadline_ns` | `buf_queue`, `start_streaming`, `stop_streaming`, the worker | `CamstreamVideo`, `CamstreamTimer`, with `FrameTiming` |
| `camstream-video` module | what init acquired, the global device pointer, `active_format` | module init and exit, open and close, S_FMT, REQBUFS, `buf_prepare` | `CamstreamDevice`, with `FrameFormat` |
| GStreamer wrapper | pipeline, bus, `built`, `started`, `run_finished` | `build`, `start`, `wait`, `drain_bus_messages`, `stop` | `GstreamerPipeline` |
| `camstream-gst-test` | its options | `main`, `run` | `GstTest` |
| `camstream-service` | its options, `CameraServiceState`, signalfd, saved mask, bus descriptor | `main`, `initialize`, `run`, `shutdown` | `CameraService` |
| `camstream-capture` | its options, descriptor, granted count, mappings, three flags, frame counters | `main`, `run_capture` over the `V4l2Device` operations | `V4l2Capture` |
| `camstream-camera-test` | its options, one session, one frame at a time | `main`, `run_diagnostic` | `CameraTest` |
| command lines | - | the `parse_arguments` of three programs | `CommandLine` |

How they interact. Applications call `CameraSession`, which loads a backend through the
runtime and calls it through the dispatch functions; the backend's module constructor
calls back into `register_backend` while the loading thread is inside `dlopen`. The
service and the diagnostic drive one `GstreamerPipeline`, whose streaming threads post on
its bus; the service also listens to signals through a signalfd. `camstream-capture`
speaks to any V4L2 driver through ioctls; `camstream-video` is one such driver, called by
videobuf2 and by its own workqueue item.

What is hard here: the runtime drops its mutex across `dlopen`, `dlclose` and every
callback; a session must return every buffer through failing callbacks, failing rollbacks
and its destructor; the driver's worker races QBUF and STREAMOFF through several short
lock sections, against a timer that several of them set; module init unwinds through
labels while the node can already be opened; the service serves signals, bus and deadline
from one `poll` and then takes its signal handling down step by step; the capture program
must undo any prefix of its setup after any failure. The hazards are listed line by line
in `PROJECT.json`.

## The modules

**SharedModule, BackendRuntime.** An action of `BackendRuntime` is one section under
`runtime().mutex`, or one stretch without it; `pc[c]` says where client `c` is. The model
keeps the throwing paths (`LoadThrows`, `RegisterThrows`, `UnloadThrows`, the throwing
halves of `FailWithoutHandle`, `FailBegin` and `FailEnd`, whose catch block is a locked
section of its own, `Fault`), an open that fails, a table that does not validate (`Descriptors`), a close that fails, and a
module that a successful `dlclose` leaves mapped (`Pinned`), whose constructor then does
not run again. A client has at most one reference and one camera, as a `CameraSession`
has; `OwnReference` says whether it creates and unloads only under a reference of its
own. `SharedModule` is the promise: one module at a time, kept by its holders, never taken
out of service while somebody uses it. The refinement reads the module from `state` and
`module_handle`, the holders from `refs`, the users from `operations`.

**FrameLease, SimulatedCamera, CameraSession.** `SimulatedCamera` is the backend as
functions from a camera to its next value and reply; `CameraSession` applies them, one
action per public operation, and lets callbacks fail according to `Faults`:
`"callback"` any callback, `"configuration"` an answer that breaks the contract (a
configuration, or the capabilities and stream configurations a query returns), `"frame"`
a malformed frame, `"tracking"` a failed allocation in the token set, `"duplicate"` a
backend that grants a token twice. The destructor is four steps, since each may leave
something behind. Views (`frames`) can be kept, dropped, or given to the wrong session.
A malformed frame with token zero changes nothing and has no action. `FrameLease` is the
promise to the borrower: a lent buffer is lent once and keeps its image until returned.

**CameraTest.** The program's statements in their order, each a step on `CameraSession`'s
action of the same call; an exception is a jump to `TestUnwind`, where the frame and the
session are destroyed on the way out. The arguments are parsed one by one, as the code
does. A wait may time out, which the program takes for an error (`FrameReady`).

**VideoQueue, CamstreamVideo.** The worker (`TakeBuffer`, `Fill`, `CommitFrame`,
`Complete`, `RearmProducer`) against one ioctl at a time, as VB2's queue lock allows, each
cut at its lock sections. `cancel_delayed_work_sync` is `CancelWork` and `WorkDrained`: it
removes a pending timer, blocks rearming while it waits, and returns once the worker is
idle. videobuf2 and the workqueue are external, modelled as far as the driver uses them
(`vb_state`, the done list, hand-over of queued buffers at STREAMON, the cancel at
STREAMOFF). Time is abstracted: a pending timer may fire at any moment. `VideoQueue` is
what the application sees: a first-in first-out queue, a stream's frames numbered from 0
without a gap, each with the image of its number. The mapping reads the queue from VB2's
`queued_list` and what the oldest of them show from the done list; a frame gets its number
when it is completed, so `number` is one behind `sequence` while it is committed and not
yet done.

**FrameTiming, CamstreamTimer.** `FrameTiming` is the arithmetic of the deadline and the
delay. `CamstreamTimer` puts the same actions against a clock: each that sets the work's
timer does so by the deadline it finds, and the timer fires when its jiffy is over.
Times are counted from the start of the current jiffy, so that a stream may last for
ever in finitely many states: when the next jiffy starts, the deadline and the timer move
back by one, and a deadline missed by more than an interval moves up to the last period
missed, from which the driver computes the same distances.

**FrameFormat, CamstreamDevice.** Init is one step per resource, each of which may fail
and leave by its label; files open, close, set formats and request buffers around the
stream, under the rules of the V4L2 core (one ioctl at a time, only the owner of the
buffers streams, an open file keeps the module), and closing the owner's file stops the
stream first. Ioctls that only report constants change no state and have no action.
Exit frees the device and resets the pointer in one step, which only init and exit read;
the kernel never runs both.
`MCCamstreamDevice` runs both `CamstreamDevice`, without the clock, and `CamstreamTimer`,
on an open device.

**GstreamerPipeline, GstTest, CameraService.** `start`, `wait` and `stop` block, so each
is a request and a completion and streaming threads may post in between. The module's own
`Next` is an arbitrary caller, one call at a time as the header demands. `build` and its
many references are one step with its outcomes. `pipeline.finite` is whether
`buffer_count` is positive: `wait` refuses a continuous pipeline. `GstTest` and `CameraService` extend it and
use its actions from the programs' control flow; `MCGstTest` runs the arbitrary caller and
the program side by side.
In `CameraService` a signal is pending, ignored, or delivered with its default action
according to the mask; signals coalesce; `sigaction(SIG_IGN)` discards what is pending;
`revents` is a snapshot taken when `poll` returns. `poll` may also be interrupted (the loop
begins again) or report a signalfd whose read then answers EAGAIN (no signal). `clock.left`
says whether a finite run's deadline is further than `poll` can wait for, nearer, or passed;
`locals.capped` remembers that the wait was cut short. `failures` is a history of what went
wrong, which the exit status is compared with.

**CommandLine.** The three loops over `argv` as recursive functions, one argument at a
time, with their differences (an option given twice, a value that looks like an option,
where `--help` may stand, what an option left out becomes), and what a command line asks
for when it is read as pairs. The programs start in any of a set of command lines and follow the first; the
properties of the exit status speak of the second. A numeral is a text with a value;
`MaxGint` stands between the numerals for a value that fits a u32 and not a gint.

**V4l2Capture.** `main` and `run_capture` from `open` to the second `close` of the destructor, one
action per device operation or per turn of a loop, every ioctl able to fail. `pages` is
what the kernel has mapped, `mappings` what the program remembers; the two differ after a
failed `munmap`. An `EINTR` retry is part of its step. The format is checked for a file to be written
before the first frame is awaited (`CaptureBegin`). The output file is one value, the
number of the frame it holds.

The `MC*` modules only give constants to TLC: sets of descriptors and faults, and the
permutations of interchangeable clients, sessions and buffers. Definitions that end in
`_something` next to another definition are deliberately wrong variants of it; each shows
that one property notices that mistake.

## What the runs check

| run | bounds | properties, and what they show |
|---|---|---|
| `backend_runtime` | 3 clients, 2 modules, one pinned; limit 2 | `BackendCodeMapped`: no table in use is unmapped. `ReferencesCounted`: both counters are exact. `ImplementsSharedModule` |
| `backend_runtime_any_caller` | 2 clients without discipline, weak fairness of each thread inside a call | `OneTransition`, `NoModuleLeaked`; `WaitersWoken`: every way out of a transition notifies, and every transition ends |
| `backend_runtime_shared` | 2 clients, 1 module | a violation of `DestroyBeforeClose`, see Findings |
| `camera_session` | 2 sessions, 2 buffers, 3 frames each, every callback may fail and break the contract, tracking may run out of memory; and `camstream-camera-test` on every command line of at most 4 of 7 arguments | `BackendNeverMisused`, `DestroyedClosed`: calls reach the backend in order through failing rollbacks, their retries, refused configurations and the destructor. `LifecyclesAgree`, `TokensAccounted`, `ValidFramesOutstanding`, `ImplementsFrameLease`; `StatusTellsTheRun`: the program's exit status is the truth |
| `camera_session_duplicate` | 1 session, duplicate tokens | a violation of `ValidFramesOutstanding` |
| `camstream_video` | 2 buffers, 2 files, 2 requested formats of a 4 by 2 image, sequence modulo 2; a second of 3 units, a jiffy of 2, one frame a second | `OwnedOnce`, `QuietWhenStopped`, `ImagesStable`, `ImplementsVideoQueue`; `BuffersComeBack`: no wakeup is lost; `LifetimesNest`: init, its labels and exit release in order; `FramesFit`: an allocated plane always holds the active format; `AtMostOneAhead` |
| `camstream_timer_early` | the same stream against the clock | a violation of `NotEarly` |
| `gstreamer_pipeline_null` | 1 message, NULL may fail | a violation of `ReleasedInNull` |
| `gst_test` | 3 messages, every request may fail; a complete command line with any fragment in the place of any part; and the wrapper under an arbitrary caller | `ErrorEndsTheRun`, `OneRunPerBuild`, `ZeroMeansCleanRun`, `AlwaysEnds` |
| `camera_service` | 2 messages, 2 signals, every system call may fail, every command line of at most 3 of 16 arguments, fair thread and clock | `NeverKilled`, `ExitStatusTruthful`, `NothingLeftBehind`, `StopsWhenTold` |
| `camera_service_long` | one finite run, nothing fails and no signal comes | a violation of `DeadlineIsAbsolute` |
| `v4l2_capture` | 0 to 4 granted buffers of at most 3, retry and error limits 2, command lines with up to 3 options after `--format` | `ExactCapture`, `BuffersHandedBack`, `NothingHeld`, `TeardownOrder`, `AlwaysEnds` |

Each run with a type invariant checks it too; several of those (`CameraService`,
`V4l2Capture`, `GstreamerPipeline`) include the relation between fields that every
operation relies on.

**Bounds.** The counters of the code are parameters: `client_count` has a limit of 2 in
place of 2^32 - 1, so that the third client meets it; the driver's sequence wraps after two
frames in place of 2^32, so that the wrap, a number skipped, repeated or kept from the last
stream all show; the capture's limits keep their comparison (`>` for retries, `>=` for
errors) with small values. Two sessions suffice for confusion of tokens, two buffers for
a lent one beside a free one, or a queued one behind the worker's (the inductive invariant
of the driver was also checked with three, and is proved for any number). Two files are an
owner and another one. An interval of three units and a jiffy of two neither divide each
other nor coincide, so deadlines fall inside jiffies and delays round up; `MaxJiffyOffset`
and the 64-bit maximum are small, yet out of reach, as they are for the driver's fixed rate:
of the branches that guard the deadline's overflow only `DeadlineAdvances` speaks, a theorem.
Two bus messages hold a terminal one behind another; two signals allow one that stops the
service and one at any moment of the shutdown, or both pending together. Of the command lines, those
of `camstream-gst-test` are wrong in one place, since all its options are required; the
others include every order of few options. `MaxSequence`, `MaxMessages` and `MaxSignals`
stop acquisitions, posts and signals and nothing else, so every bounded run can still
finish.

**Deadlock** is checked wherever the system can always go on. It is switched off where the
process ends or the bound on acquisitions stops the sessions (`CameraSession*`,
`GstTest`, `CameraService*`) and in `backend_runtime_shared`.

**Fairness.** `BackendRuntime`: a thread inside a call proceeds (loader calls and
callbacks return, the mutex is released); nobody must start a call. `MCCamstreamDevice`:
time passes, the workqueue runs expired work, the worker and the ioctl in progress proceed;
the application need not call again, nor the module be loaded. `CameraService`: the service
thread proceeds and the monotonic clock reaches the deadline, but `poll` is not obliged to
fail, nor kept from being interrupted or woken for nothing again and again. `GstTest`,
`V4l2Capture`: the process proceeds; each blocking call has a timeout in the code (`gst_element_get_state`, the timed pop, `poll`).

**Exceptions a property names.** `BackendNeverMisused` allows two: after a configuration that
the backend took and the session refused (`camera_session.cpp:484`) the backend is ahead of its
session, whose next configuration or query of one it refuses; and the destructor goes on after a failing
release or stop of its own, so that it may close a camera that still streams. `DestroyedClosed`
leaves out a destructor whose last callback failed. `NothingLeftBehind` says nothing of signal
dispositions: `shutdown` leaves them ignored on purpose (`camera_service.hpp:40`).

## Findings

1. `camstream_camera_create` reads the table at `camera_hal.cpp:52` and counts the
   instance at line 103. A thread that releases the last reference in between closes the
   module under it, against `camera_hal.h:119-120`. It takes a caller that relies on
   another thread's reference: `CameraSession` and the C test never do.
2. A backend that grants a token twice makes `acquire_frame` roll back the token an
   earlier, still valid frame holds; its `valid()` stays true (`camera_session.hpp:92`).
   The simulated backend never does so.
3. `GstreamerPipeline::stop` drops its references even if NULL was not reached, against
   `gstreamer_pipeline.hpp:61-62`; it does report the failure.
4. A frame may be produced before its deadline, against `camstream_frame.c:51` ("delayed
   work must not run early"). A QBUF notification that comes after the timer has fired sets
   a new one, of a jiffy, by the deadline that has passed; the running worker takes that
   very buffer, moves the deadline on, finds the list empty and leaves the timer. A buffer
   that is queued before it fires is filled an interval early. `AtMostOneAhead`, which is
   checked and proved, bounds this to one frame.
5. The service cuts what is left of a finite run's deadline to the `INT_MAX` milliseconds that
   `poll` can wait for (`camera_service.cpp:37-41`) and takes its timeout for the deadline
   (lines 176-181). A run of more than 24.8 days whose bus is silent so long is failed with
   the message that it "exceeded its nominal duration plus the 120-second stall
   allowance", which it has not.

## What is proved

Each theorem holds for every value of the constants that the assumptions of its
component's module allow; those say no more than what the program guarantees (an argv is
a sequence of texts, a limit is a positive number, a set of faults is one of the known
ones). Every safety and action property of a passing run has a theorem that states it, and so
have the four refinements. `PROJECT.json` lists them; here is along which invariants they
go.

**The runtime** (`BackendRuntimeProofs`), for any clients, modules, descriptors and limit.
For any caller, `AnyInv` is inductive and gives `TypeCorrect`, `OneAtATime`
(`OneTransition`) and `NothingLeaks` (`NoModuleLeaked`): one thread runs a transition and
its place says which (`TransitionInv`), a transition has its thread and the handle follows
it (`HandleInv`), a loaded runtime holds the module whose table it publishes (`ModuleInv`),
and what is mapped is the runtime's, the loading thread's or cannot be unmapped
(`MappedKnown`). Under `OwnReference`, the discipline of `CameraSession`, `IInv` gives
`CallbacksStayMapped`, `CountersExact` and `Implementation` (of `SharedModule`). There
`BackendCodeMapped` needs that the last unload sees every user, hence that a user holds a
reference (`ReferenceInv`) and that the counters are exact; they need that a load commits
only in the `Loading` it started.

**The session** (`CameraSessionProofs`), for any sessions, buffers and length of a stream.
What the backend may do wrong is a hypothesis, as weak as the property admits:

- whatever it does: `TypeCorrect`, `StatesAgree` and `ImplementsLease` (of `FrameLease`).
  `SessionInv` says of each session that its camera is sound (no token twice, none that was
  not issued), that it owes no token outside a stream, and which state the camera is in;
- unless it grants a buffer that is granted already: `TokensExact` and
  `ValidFramesShowTheirImage`, by `LoanInv`, where the backend's loans are the session's
  tokens and its one pending token, and a view shows what its buffer stores; and `NeverMisused`
  and `ClosedWhenDestroyed`, by `StepInv`, which says at each place of the destructor what it can
  rely on, and what it owes to a failure of its own.

A step of one session concerns no other (`Locality`), so that each invariant is proved one
session at a time; the effects of the backend's replies are lemmas that all of them cite.

**camstream-camera-test** (the last part of `CameraSessionProofs`). Every step of the
program is a step of `CameraSession` (`TestIsACaller`), so that `SessionInv` holds of its
session, duplicate tokens included. `ProgramInv` adds what the parsed arguments say of the
options, the state of the session at each statement, that no buffer but the frame's is out,
and that the frames shown are those of the stream so far. It gives `ExitStatusTrue`
(`StatusTellsTheRun`).

**The driver** (`CamstreamDriverProofs`), for any buffers, modulus, image size, files, rate and
jiffy.

- The arithmetic, under `FormatAssumption` and `TimingAssumption`: the offered format is one that
  may be filled, lumas are legal and a row rotates the gradient; time passes between two frames
  at any rate, the delay covers the deadline and no more than it must, and the next deadline
  is ahead, near and on the grid however late the worker is.
- The stream: `TypeOK`, `OwnedOnce`, `QuietWhenStopped`, `ImagesStable`. `OwnedOnce` is not
  inductive: a buffer comes to the driver from `handing`, so the induction needs that what is
  handed over is queued and nowhere else (`QueuedOnce`); STREAMON hands over all of
  `queued_list`, so it needs that nothing is active or done outside a stream, hence what each
  place of the ioctl caller says of the lists, the work and the flags (`CallerPlaces`,
  `StreamPhases`), and that the worker has a buffer exactly in three of its places
  (`WorkerHolds`).
- `ImplementsQueue`: the stream is a `VideoQueue`. `OrderInv` says that the buffers keep the
  order of `queued_list` on their way through the done list, the worker and `buffer_list`
  (`InOrder`), and which number the worker's and the done ones carry (`Numbered`).
- The module: `LifetimesAreNested` and `EveryFrameFits`, by `LifeInv` (what exists at each place of
  init, exit and an open file, who owns the buffers, and that they were allocated for the
  format), and `DeviceIsAQueue`: init, REQBUFS and S_FMT around the stream do not break the
  queue.
- The clock: `ClockOnlyDelays` says that the driver against the clock implements the one
  without, which hands it all of the above; `NeverFarAhead` is `AtMostOneAhead`. `ClockInv`
  adds that a worker runs within an interval of its deadline, and that the next one will: the
  deadline is an interval after the timer at most, or not after it when the worker still has
  to move it on. That last case is the one of finding 4.

**The wrapper and its programs.** `GstreamerPipelineProofs` proves for any bound on the bus, any
failing requests and any caller that the flags agree (`FieldsAgree`), that a popped ERROR
is final until the rebuild (`ErrorIsFinal`) and that a run is not resumed
(`RunsAreNotResumed`). The induction needs that a blocking call belongs to a held pipeline
whose run is not over (`CallsBelong`), and that the popped ERROR is remembered in
`run_finished` (`ErrorRemembered`). `GstTestProofs` and `CameraServiceProofs` inherit that invariant, since
each step of the program is a step of the wrapper or leaves it alone (`CallsAreAllowed`), and add
the program's: `RunInv` gives `ZeroIsEarned` (`ZeroMeansCleanRun`); `ServiceInv`, with what the
history of failures says of each verdict of `main` (`Verdicts`) and who owns the signal mask at
each label (`Masked`), gives `SignalsNeverKill`, `ExitStatusTold` and `NothingOutlives`.

**camstream-capture** (`V4l2CaptureProofs`), for any granted pool, limits and failures. `DeviceInv`
relates the fields of `V4l2Device` to the driver's state, the mappings to the pages and the
label to both; it gives `BuffersReturned`, `NothingIsHeld` and `TeardownOrdered`.
`CaptureInv` counts the frames on top of it, for `CaptureIsExact`.

**Command lines** (`CommandLineProofs`): for a sequence of texts of any length, each of the
three loops ends where the command line, read as pairs, says (`TestCommandLine`,
`ServiceCommandLine`, `CaptureCommandLine`). The loops are recursive functions of the number
of arguments read. The induction is not over an operator but over a set: the numbers of
arguments at which the loop and the reading disagree would have a least member (`Least`).

**Only model-checked.** The liveness properties (`WaitersWoken`, `BuffersComeBack`,
`StopsWhenTold` and `AlwaysEnds` of two programs), which depend on fairness and ENABLED and are out of
the prover's reach. The five properties that are violated are refuted by their runs. The
`MC` modules hold only instances of the constants and nothing to prove.

## What is not modelled

- Diagnostics, listings and messages; the text of errors. The listing of formats and rates
  in `camstream-capture` is one step that succeeds or fails.
- The references `build` takes and drops inside GStreamer, its element properties and caps.
- The driver's ioctls that report constants (QUERYCAP, the enumerations, G_FMT, G_PARM,
  S_PARM).
- Exceptions from locking the runtime's mutex, and `live_instance_count` at its maximum.
- A module opened elsewhere in the process while a load is under way, whose constructor
  registers its table for that load.
- The C test of the HAL: a straight sequence of calls that the arbitrary callers here
  include, except that it drives two cameras under one reference.
- `mapped_buffer` moves, Buildroot packaging, the Wi-Fi start script and host scripts.

## Plan

1. Compositions: `CameraSession` over `SharedModule` (sessions that load and destroy while
   others stream); `V4l2Capture` over `VideoQueue` in place of an arbitrary driver.
2. Foreign registration during a load, and two cameras under one reference, as further
   actions of `BackendRuntime`.
3. Proofs for those compositions; the safety half of what the liveness runs show, as
   invariants (a waiting client has a transition to wait for; a queued buffer has a timer,
   a worker or a stop ahead of it).
