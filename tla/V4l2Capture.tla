------------------------------- MODULE V4l2Capture -------------------------------
(***************************************************************************)
(* camstream-capture: main() parses its command line, and run_capture()     *)
(* works on a V4l2Device, from open() to the destructor.  The device is any *)
(* V4L2 driver: each ioctl may fail, poll() may time out, DQBUF may find    *)
(* nothing, frames may carry V4L2_BUF_FLAG_ERROR.  An ioctl interrupted by  *)
(* a signal is repeated and is one step here.                               *)
(***************************************************************************)
EXTENDS CommandLine

CONSTANTS
    Grants,        \* how many buffers REQBUFS may grant
    MaxAccepted,   \* kMaximumAcceptedBufferCount
    MaxRetries,    \* kMaximumConsecutiveDequeueRetries
    MaxErrors,     \* kMaximumConsecutiveErrorFrames
    ArgumentLists, \* the command lines it may be given
    Faults         \* which calls may fail

ASSUME CaptureAssumption ==
    /\ Grants \subseteq Nat /\ IsFiniteSet(Grants)
    /\ MaxAccepted \in Nat \ {0} /\ MaxRetries \in Nat /\ MaxErrors \in Nat \ {0}
    /\ ArgumentLists \subseteq Seq(STRING)
    \* the defaults of --skip and --count
    /\ {"0", "10"} \subseteq DOMAIN Numbers /\ Numbers["0"] = 0 /\ Numbers["10"] = 10

VARIABLES
    asked,       \* history: [what, skip, count, output] of the command line
    pc,          \* the call run_capture() or the device makes next
    config,      \* [has_format, frame_count, skip_frames, output]
    device,      \* V4l2Device's fields
    mappings,    \* buffer indexes in the mappings vector
    pages,       \* buffer indexes the kernel has mapped into the process
    driver,      \* the V4L2 side: [allocated, on, owner of each buffer]
    counts,      \* capture_frames()'s counters
    frame,       \* the dequeued buffer: [index, error]
    valid,       \* history: error-free frames dequeued so far
    saved,       \* history: which valid frame the output file holds, 0 for none
    local,       \* locals of run_capture(), close() and release_buffers()
    exit         \* the exit status, "none" while main() runs

options == <<asked, config>>
vars == <<options, pc, device, mappings, pages, driver, counts, frame, valid, saved, local, exit>>

Buffers == {index \in 0 .. MaxAccepted : \E g \in Grants : index < g}

Closed == [fd |-> FALSE, granted_buffer_count |-> 0, driver_buffers_allocated |-> FALSE,
           buffers_queued |-> FALSE, streaming |-> FALSE]

Idle == [allocated |-> 0, on |-> FALSE, owner |-> [b \in Buffers |-> "none"]]

\* What the options mean when the command line is read as a whole.
Wanted(argv) ==
    LET what == CaptureAsks(argv)
        frames(option, default) ==
            IF what = "capture" THEN Numbers[ValueOf(argv, option, default)] ELSE 0
    IN  [what |-> what,
         skip |-> frames("--skip", "0"),
         count |-> frames("--count", "10"),
         output |-> what = "capture" /\ "--output" \in Given(argv)]

\* main() up to run_capture().
Main(argv) ==
    LET loop == CaptureArguments(argv)
    IN  /\ asked = Wanted(argv)
        /\ config = [has_format |-> "--format" \in loop.seen,
                     frame_count |-> Numbers[loop.config["--count"]],
                     skip_frames |-> Numbers[loop.config["--skip"]],
                     output |-> loop.config["--output"] # ""]
        /\ pc = IF loop.at = "option" THEN "open" ELSE "exited"
        /\ exit = CASE loop.at = "option" -> "none"
                    [] loop.at = "help" -> "success"
                    [] loop.at = "refused" -> "usage"

Init ==
    /\ \E argv \in ArgumentLists : Main(argv)
    /\ device = Closed
    /\ mappings = {}
    /\ pages = {}
    /\ driver = Idle
    /\ counts = [skipped |-> 0, captured |-> 0, retries |-> 0, errors |-> 0]
    /\ frame = [index |-> 0, error |-> FALSE]
    /\ valid = 0
    /\ saved = 0
    /\ local = [succeeded |-> TRUE, stream_started |-> FALSE, attempted |-> FALSE,
                caller |-> "main", clean |-> TRUE, can_release |-> FALSE]

Goto(label) == pc' = label
MayFail(what) == what \in Faults

\* A call answers false: run_capture() leaves for what must be undone.
GiveUp ==
    /\ local' = [local EXCEPT !.succeeded = FALSE]
    /\ Goto(IF local.stream_started THEN "streamoff"
            ELSE IF local.attempted THEN "release" ELSE "close")

--------------------------------------------------------------------------------
(* Opening the device and agreeing on a format.                             *)

Open ==
    /\ pc = "open"
    /\ \/ /\ device' = [device EXCEPT !.fd = TRUE]
          /\ Goto("query")
          /\ UNCHANGED local
       \/ /\ MayFail("open")
          /\ GiveUp
          /\ UNCHANGED device
    /\ UNCHANGED <<options, mappings, pages, driver, counts, frame, valid, saved, exit>>

\* QUERYCAP; then the formats are listed, or one is negotiated (TRY_FMT,
\* S_FMT, G_FMT and the frame rate).
Query ==
    /\ pc = "query"
    /\ \/ Goto(IF config.has_format THEN "negotiate" ELSE "enumerate") /\ UNCHANGED local
       \/ MayFail("query") /\ GiveUp
    /\ UNCHANGED <<options, device, mappings, pages, driver, counts, frame, valid, saved, exit>>

Enumerate ==
    /\ pc = "enumerate"
    /\ \/ Goto("close") /\ UNCHANGED local
       \/ MayFail("query") /\ GiveUp
    /\ UNCHANGED <<options, device, mappings, pages, driver, counts, frame, valid, saved, exit>>

Negotiate ==
    /\ pc = "negotiate"
    /\ \/ Goto("reqbufs") /\ local' = [local EXCEPT !.attempted = TRUE]
       \/ MayFail("format") /\ GiveUp
    /\ UNCHANGED <<options, device, mappings, pages, driver, counts, frame, valid, saved, exit>>

--------------------------------------------------------------------------------
(* prepare_mmap_buffers(), queue_all_buffers(), start_streaming()           *)

\* The driver grants what it likes; zero, too many and another memory type are
\* refused after the grant has been recorded for the cleanup.
RequestBuffers ==
    /\ pc = "reqbufs"
    /\ \/ \E granted \in Grants :
             /\ driver' = [driver EXCEPT !.allocated = granted]
             /\ device' = [device EXCEPT !.driver_buffers_allocated = TRUE,
                                         !.granted_buffer_count = granted]
             /\ \/ granted \in 1 .. MaxAccepted /\ Goto("map") /\ UNCHANGED local
                \/ (granted \in 1 .. MaxAccepted => MayFail("metadata")) /\ GiveUp
       \/ /\ MayFail("reqbufs")
          /\ GiveUp
          /\ UNCHANGED <<driver, device>>
    /\ UNCHANGED <<options, mappings, pages, counts, frame, valid, saved, exit>>

\* Mutant: one index more than was granted.
AllMapped_offByOne(count) == count > device.granted_buffer_count

AllMapped(count) == count = device.granted_buffer_count

\* QUERYBUF and mmap() of the next index.
MapBuffer ==
    /\ pc = "map"
    /\ LET index == Cardinality(mappings)
       IN  \/ /\ mappings' = mappings \cup {index}
              /\ pages' = pages \cup {index}
              /\ Goto(IF AllMapped(index + 1) THEN "queue" ELSE "map")
              /\ UNCHANGED local
           \/ /\ MayFail("mmap")
              /\ GiveUp
              /\ UNCHANGED <<mappings, pages>>
    /\ UNCHANGED <<options, device, driver, counts, frame, valid, saved, exit>>

Queued == {b \in Buffers : driver.owner[b] = "driver"}

QueueBuffer ==
    /\ pc = "queue"
    /\ LET index == Cardinality(Queued)
           all == index + 1 = device.granted_buffer_count
       IN  \/ /\ driver' = [driver EXCEPT !.owner[index] = "driver"]
              /\ \/ /\ device' = [device EXCEPT !.buffers_queued = all]
                    /\ Goto(IF all THEN "streamon" ELSE "queue")
                    /\ UNCHANGED local
                 \/ MayFail("metadata") /\ GiveUp /\ UNCHANGED device
           \/ /\ MayFail("qbuf")
              /\ GiveUp
              /\ UNCHANGED <<driver, device>>
    /\ UNCHANGED <<options, mappings, pages, counts, frame, valid, saved, exit>>

StartStreaming ==
    /\ pc = "streamon"
    /\ \/ /\ driver' = [driver EXCEPT !.on = TRUE]
          /\ device' = [device EXCEPT !.streaming = TRUE]
          /\ local' = [local EXCEPT !.stream_started = TRUE]
          /\ Goto("capture")
       \/ /\ MayFail("streamon")
          /\ GiveUp
          /\ UNCHANGED <<driver, device>>
    /\ UNCHANGED <<options, mappings, pages, counts, frame, valid, saved, exit>>

--------------------------------------------------------------------------------
(* capture_frames()                                                         *)

\* A driver may have settled on a format that the program cannot write to a
\* file; the capture is refused before the first frame.  The parser has refused
\* a count of 0.
CaptureBegin ==
    /\ pc = "capture"
    /\ \/ Goto("poll") /\ UNCHANGED local
       \/ config.output /\ MayFail("output_format") /\ GiveUp
    /\ UNCHANGED <<options, device, mappings, pages, driver, counts, frame, valid, saved, exit>>

\* wait_for_frame_ready(): readiness, or a timeout or a fatal event.
Poll ==
    /\ pc = "poll"
    /\ \/ Goto("dqbuf") /\ UNCHANGED local
       \/ MayFail("poll") /\ GiveUp
    /\ UNCHANGED <<options, device, mappings, pages, driver, counts, frame, valid, saved, exit>>

TooManyRetries(retries) == retries > MaxRetries

\* DQBUF finds nothing although poll() said ready.
DequeueAgain ==
    /\ pc = "dqbuf"
    /\ MayFail("again")
    /\ LET retries == counts.retries + 1
       IN  IF TooManyRetries(retries)
           THEN GiveUp /\ UNCHANGED counts
           ELSE Goto("poll") /\ counts' = [counts EXCEPT !.retries = retries] /\ UNCHANGED local
    /\ UNCHANGED <<options, device, mappings, pages, driver, frame, valid, saved, exit>>

DequeueFails ==
    /\ pc = "dqbuf"
    /\ MayFail("dqbuf")
    /\ GiveUp
    /\ UNCHANGED <<options, device, mappings, pages, driver, counts, frame, valid, saved, exit>>

\* Mutant: a new error frame starts the count anew.
CountErrors_restarted(errors, flagged) == IF flagged THEN 1 ELSE errors

CountErrors(errors, flagged) == IF flagged THEN errors + 1 ELSE errors

\* DQBUF hands over a buffer; its metadata is good or ends the capture.
Dequeue ==
    /\ pc = "dqbuf"
    /\ \E b \in Queued, error \in {FALSE, MayFail("flagged")} :
          /\ driver' = [driver EXCEPT !.owner[b] = "user"]
          /\ frame' = [index |-> b, error |-> error]
          /\ valid' = IF error THEN valid ELSE valid + 1
    /\ device' = [device EXCEPT !.buffers_queued = FALSE]
    /\ counts' = [counts EXCEPT !.retries = 0, !.errors = CountErrors(@, frame'.error)]
    /\ \/ Goto("save") /\ UNCHANGED local
       \/ MayFail("metadata") /\ GiveUp
    /\ UNCHANGED <<options, mappings, pages, saved, exit>>

IsSkipped == ~frame.error /\ counts.skipped < config.skip_frames

\* Mutant: the skipped frames are counted among the requested ones.
IsFinal_countsSkipped ==
    /\ ~frame.error
    /\ counts.skipped + counts.captured + 1 = config.frame_count

IsFinal == ~frame.error /\ ~IsSkipped /\ counts.captured + 1 = config.frame_count

\* Mutant: a frame in error is dropped without giving its buffer back.
Save_dropsErrors ==
    /\ pc = "save"
    /\ IF IsFinal /\ config.output
       THEN saved' = valid /\ UNCHANGED local
       ELSE UNCHANGED <<saved, local>>
    /\ Goto(IF frame.error THEN "poll" ELSE "requeue")
    /\ UNCHANGED <<options, device, mappings, pages, driver, counts, frame, valid, exit>>

\* Only the last requested frame is written, before its buffer goes back.
\* A failed write is remembered and reported after the re-QBUF.
Save ==
    /\ pc = "save"
    /\ IF IsFinal /\ config.output
       THEN \/ saved' = valid /\ UNCHANGED local
            \/ /\ MayFail("write")
               /\ local' = [local EXCEPT !.succeeded = FALSE]
               /\ UNCHANGED saved
       ELSE UNCHANGED <<saved, local>>
    /\ Goto("requeue")
    /\ UNCHANGED <<options, device, mappings, pages, driver, counts, frame, valid, exit>>

TooManyErrors(errors) == errors >= MaxErrors

\* while (captured_valid_frames < frame_count)
Enough(captured) == captured >= config.frame_count

\* The frame is counted after its buffer was accepted back.
CountFrame ==
    IF frame.error
    THEN /\ UNCHANGED counts
         /\ IF TooManyErrors(counts.errors)
            THEN GiveUp
            ELSE Goto("poll") /\ UNCHANGED local
    ELSE /\ counts' = IF IsSkipped
                      THEN [counts EXCEPT !.errors = 0, !.skipped = @ + 1]
                      ELSE [counts EXCEPT !.errors = 0, !.captured = @ + 1]
         /\ Goto(IF Enough(counts'.captured) THEN "streamoff" ELSE "poll")
         /\ UNCHANGED local

Requeue ==
    /\ pc = "requeue"
    /\ \/ /\ driver' = [driver EXCEPT !.owner[frame.index] = "driver"]
          /\ device' = [device EXCEPT !.buffers_queued = TRUE]
          /\ \/ local.succeeded /\ CountFrame
             \/ ~local.succeeded /\ GiveUp /\ UNCHANGED counts
             \/ MayFail("metadata") /\ GiveUp /\ UNCHANGED counts
       \/ /\ MayFail("qbuf")
          /\ GiveUp
          /\ UNCHANGED <<driver, device, counts>>
    /\ UNCHANGED <<options, mappings, pages, frame, valid, saved, exit>>

\* stop_streaming(); STREAMOFF takes every buffer away from the driver.
StopStreaming ==
    /\ pc = "streamoff"
    /\ \/ /\ driver' = [driver EXCEPT !.on = FALSE, !.owner = Idle.owner]
          /\ device' = [device EXCEPT !.streaming = FALSE, !.buffers_queued = FALSE]
          /\ UNCHANGED local
       \/ /\ MayFail("streamoff")
          /\ local' = [local EXCEPT !.succeeded = FALSE]
          /\ UNCHANGED <<driver, device>>
    /\ Goto("release")
    /\ UNCHANGED <<options, mappings, pages, counts, frame, valid, saved, exit>>

--------------------------------------------------------------------------------
(* release_buffers() and close(), called by run_capture() and by the        *)
(* destructor.                                                              *)

HasResources == device.streaming \/ device.driver_buffers_allocated \/ mappings # {}

\* Mutant: the cleanup trusts that the stream has stopped.
StillStreaming_assumedOff == FALSE

StillStreaming == device.streaming

\* A stream that STREAMOFF could not stop is stopped by closing the device,
\* which frees the pool whatever close() answers.
ReleaseBegin ==
    /\ pc = "release"
    /\ IF StillStreaming
       THEN /\ device' = Closed
            /\ driver' = Idle
            /\ \E ok \in BOOLEAN :
                  /\ ok \/ MayFail("close")
                  /\ local' = [local EXCEPT !.clean = ok, !.can_release = FALSE]
       ELSE /\ local' = [local EXCEPT !.clean = TRUE, !.can_release = device.fd]
            /\ UNCHANGED <<device, driver>>
    /\ Goto("unmap")
    /\ UNCHANGED <<options, mappings, pages, counts, frame, valid, saved, exit>>

\* munmap() may fail; clearing the vector tries those mappings once more.
\* REQBUFS(0) follows only when every mapping went at the first try.
Unmap ==
    /\ pc = "unmap"
    /\ \E failed \in SUBSET mappings :
          /\ failed # {} => MayFail("munmap")
          /\ \E still \in SUBSET failed : pages' = (pages \ mappings) \cup still
          /\ local' = [local EXCEPT !.clean = @ /\ failed = {}]
          /\ Goto(IF ~(local.can_release /\ device.driver_buffers_allocated) THEN "released"
                  ELSE IF failed = {} THEN "reqbufs0" ELSE "abandon")
    /\ mappings' = {}
    /\ UNCHANGED <<options, device, driver, counts, frame, valid, saved, exit>>

\* With a mapping left the pool is not released but the device is closed.
Abandon ==
    /\ pc = "abandon"
    /\ device' = Closed
    /\ driver' = Idle
    /\ Goto("released")
    /\ UNCHANGED <<options, mappings, pages, counts, frame, valid, saved, local, exit>>

ReleaseDriverBuffers ==
    /\ pc = "reqbufs0"
    /\ \/ /\ driver' = [driver EXCEPT !.allocated = 0, !.owner = Idle.owner]
          /\ device' = [Closed EXCEPT !.fd = device.fd]
          /\ UNCHANGED local
       \/ /\ MayFail("reqbufs")
          /\ local' = [local EXCEPT !.clean = FALSE]
          /\ UNCHANGED <<driver, device>>
    /\ Goto("released")
    /\ UNCHANGED <<options, mappings, pages, counts, frame, valid, saved, exit>>

\* Mutant: run_capture() does not look at the answer of release_buffers().
Released_ignored ==
    /\ pc = "released"
    /\ Goto(IF local.caller = "main" THEN "close" ELSE "close_fd")
    /\ UNCHANGED <<options, device, mappings, pages, driver, counts, frame, valid, saved, local,
                   exit>>

\* release_buffers() returns to run_capture() or to close().
Released ==
    /\ pc = "released"
    /\ local' = [local EXCEPT !.succeeded = @ /\ local.clean]
    /\ Goto(IF local.caller = "main" THEN "close" ELSE "close_fd")
    /\ UNCHANGED <<options, device, mappings, pages, driver, counts, frame, valid, saved, exit>>

\* close() releases what is left, then closes the descriptor.
Close ==
    /\ pc = "close"
    /\ local' = [local EXCEPT !.caller = IF @ = "main" THEN "close" ELSE @]
    /\ Goto(IF HasResources THEN "release" ELSE "close_fd")
    /\ UNCHANGED <<options, device, mappings, pages, driver, counts, frame, valid, saved, exit>>

\* close_descriptor(): the descriptor is forgotten whatever close() answers.
\* After main()'s close() the destructor calls close() again.
CloseDescriptor ==
    /\ pc = "close_fd"
    /\ \E ok \in BOOLEAN :
          /\ ok \/ (device.fd /\ MayFail("close"))
          /\ IF local.caller = "destructor"
             THEN Goto("exited") /\ UNCHANGED <<local, exit>>
             ELSE /\ Goto("close")
                  /\ local' = [local EXCEPT !.caller = "destructor"]
                  /\ exit' = IF local.succeeded /\ ok THEN "success" ELSE "failure"
    /\ device' = [device EXCEPT !.fd = FALSE]
    /\ driver' = Idle
    /\ UNCHANGED <<options, mappings, pages, counts, frame, valid, saved>>

Exited == pc = "exited" /\ UNCHANGED vars

--------------------------------------------------------------------------------
Capture == CaptureBegin \/ Poll \/ DequeueAgain \/ DequeueFails \/ Dequeue \/ Save \/ Requeue

Setup == Open \/ Query \/ Enumerate \/ Negotiate \/ RequestBuffers \/ MapBuffer
         \/ QueueBuffer \/ StartStreaming

Teardown == StopStreaming \/ ReleaseBegin \/ Unmap \/ Abandon \/ ReleaseDriverBuffers
            \/ Released \/ Close \/ CloseDescriptor

Step == Setup \/ Capture \/ Teardown

Next == Step \/ Exited

\* The process is scheduled and poll() has a timeout.
Spec == Init /\ [][Next]_vars /\ WF_vars(Step)

--------------------------------------------------------------------------------
\* Every variable stays in its range, and the fields of the device describe
\* the driver they stand for (v4l2_device.hpp, private fields).
TypeOK ==
    /\ device \in [fd : BOOLEAN, granted_buffer_count : Nat, driver_buffers_allocated : BOOLEAN,
                   buffers_queued : BOOLEAN, streaming : BOOLEAN]
    /\ driver \in [allocated : Grants \cup {0}, on : BOOLEAN,
                   owner : [Buffers -> {"none", "driver", "user"}]]
    /\ device.fd => device.granted_buffer_count = driver.allocated
    /\ device.streaming = driver.on
    /\ driver.on => device.fd
    /\ mappings \subseteq Buffers /\ pages \subseteq Buffers
    /\ \A index \in mappings : index < device.granted_buffer_count \/ ~device.fd
    /\ counts \in [skipped : Nat, captured : Nat, retries : 0 .. MaxRetries,
                   errors : 0 .. MaxErrors]
    /\ saved \in 0 .. valid

\* Status 0 of a capture means what the command line asks for: exactly --skip
\* valid frames discarded, exactly --count later ones captured, no valid frame
\* more than that taken from the stream, and the file holds the last of them;
\* frames in error count for nothing (v4l2_device.cpp, capture_frames).  The
\* usage status means nonsense on the command line, and nothing else does.
ExactCapture ==
    /\ exit = "success" /\ asked.what = "capture" =>
            /\ counts.skipped = asked.skip
            /\ counts.captured = asked.count
            /\ valid = asked.skip + asked.count
            /\ saved = IF asked.output THEN valid ELSE 0
    /\ asked.what = "help" => exit = "success"
    /\ exit = "usage" <=> asked.what = "nonsense"

\* The loop holds at most one buffer and none while it waits for the next; a
\* capture that succeeds has every buffer back with the driver
\* (v4l2_device.hpp, "every dequeued buffer was requeued").
BuffersHandedBack ==
    LET out == {b \in Buffers : driver.owner[b] = "user"}
    IN  /\ Cardinality(out) <= 1
        /\ pc \in {"poll", "dqbuf"} => out = {} /\ device.buffers_queued
        /\ pc = "streamoff" /\ local.succeeded => out = {}

\* A mapping goes away only when the driver no longer streams into it, and
\* the pool is released by REQBUFS(0) only when none of it is mapped
\* (v4l2_device.cpp, release_buffers).
TeardownOrder ==
    [][ /\ pages \ pages' # {} => ~driver.on
        /\ driver.allocated # 0 /\ driver'.allocated = 0 /\ device'.fd => pages = {}
      ]_vars

\* Whatever failed, the process ends with the device closed and idle; a
\* mapping that could not be removed is never hidden behind status 0.
NothingHeld ==
    pc = "exited" =>
        /\ ~device.fd /\ ~device.streaming /\ mappings = {} /\ driver = Idle
        /\ pages # {} => exit = "failure"

\* A device that is never ready for DQBUF, or that flags every frame, cannot
\* hold the program: the retry and the error limits end the capture.
AlwaysEnds == <>(pc = "exited")
================================================================================
