--------------------------- MODULE CamstreamVideo ---------------------------
(***************************************************************************)
(* The synthetic V4L2 capture driver (drivers/camstream-video): its VB2    *)
(* callbacks (camstream_vb2.c) and its delayed-work frame producer         *)
(* (camstream_frame.c), between the videobuf2 core and the workqueue that  *)
(* call them.                                                              *)
(*                                                                         *)
(* Two threads run: the ioctl caller, one at a time under device->lock,    *)
(* and the worker, which takes only queued_lock.  An action is one section *)
(* under queued_lock, or what a thread does between two of them.  The      *)
(* timer is left to CamstreamTimer: here pending work may run at any time. *)
(***************************************************************************)
EXTENDS Naturals, Sequences, SequencesExt

CONSTANTS
  Buffers,           \* the buffers REQBUFS allocated
  SequenceModulus,   \* device->sequence is a u32: 2^32
  PlaneMayFail,      \* may a buffer turn out unusable when it is filled?
  NULL

ASSUME VideoAssumption ==
  /\ NULL \notin Buffers
  /\ SequenceModulus \in Nat \ {0}
  /\ PlaneMayFail \in BOOLEAN

VARIABLES
  \* struct camstream_video_device
  queued_buffers,            \* the list the driver owns
  streaming,
  sequence,
  \* the delayed work
  pending,                   \* waiting for its timer or for the worker
  cancelling,                \* cancel_delayed_work_sync is under way
  \* an invocation of camstream_frame_work
  work,                      \* where it is, "idle" when it does not run
  buffer,
  taken,                     \* the sequence number it took with the buffer, 0 before
  \* the videobuf2 queue
  vb_state,
  queued_list,               \* QBUF order
  done_list,
  vb2_streaming,             \* STREAMON was accepted
  start_streaming_called,
  \* the buffers' contents
  vb_sequence,
  image,                     \* the sequence number whose pattern is in the plane
  \* the ioctl caller
  ioctl,                     \* where it is, "idle" between two calls
  handing                    \* the buffers it still hands to the driver

device == <<queued_buffers, streaming, sequence>>
workqueue == <<pending, cancelling>>
worker == <<work, buffer, taken>>
vb2 == <<queued_list, vb2_streaming, start_streaming_called>>
contents == <<vb_sequence, image>>
caller == <<ioctl, handing>>
vars == <<device, workqueue, worker, vb_state, done_list, vb2, contents, caller>>

SequenceNumbers == 0 .. SequenceModulus - 1
VbStates == {"DEQUEUED", "QUEUED", "ACTIVE", "DONE", "ERROR"}
WorkPlaces == {"idle", "take", "fill", "commit", "done", "error", "rearm"}
IoctlPlaces == {"idle", "enqueue", "notify", "start",
                "stop", "cancel", "flush", "drain", "release"}

Init ==
  /\ queued_buffers = <<>>
  /\ streaming = FALSE
  /\ sequence = 0
  /\ pending = FALSE
  /\ cancelling = FALSE
  /\ work = "idle"
  /\ buffer = NULL
  /\ taken = 0
  /\ vb_state = [b \in Buffers |-> "DEQUEUED"]
  /\ queued_list = <<>>
  /\ done_list = <<>>
  /\ vb2_streaming = FALSE
  /\ start_streaming_called = FALSE
  /\ vb_sequence = [b \in Buffers |-> 0]
  /\ image = [b \in Buffers |-> 0]
  /\ ioctl = "idle"
  /\ handing = <<>>

-----------------------------------------------------------------------------
(* Helpers                                                                 *)

\* mod_delayed_work, which does nothing to a work being cancelled.
ScheduleNext(on, queue) ==
  pending' = (pending \/ (on /\ queue # <<>> /\ ~cancelling))

\* The buffer goes back to VB2, which puts it on the list DQBUF takes from.
BufferDone(b, result) ==
  /\ vb_state' = [vb_state EXCEPT ![b] = result]
  /\ done_list' = Append(done_list, b)

-----------------------------------------------------------------------------
(* The worker                                                              *)

\* The timer fires and the workqueue runs the work, never twice at a time.
WorkStarts ==
  /\ pending
  /\ work = "idle"
  /\ pending' = FALSE
  /\ work' = "take"
  /\ UNCHANGED <<device, cancelling, buffer, taken, vb_state, done_list, vb2, contents, caller>>

TakeBuffer ==
  /\ work = "take"
  /\ \/ /\ streaming /\ queued_buffers # <<>>
        /\ buffer' = Head(queued_buffers)
        /\ queued_buffers' = Tail(queued_buffers)
        /\ taken' = sequence
        /\ work' = "fill"
     \/ /\ ~streaming \/ queued_buffers = <<>>
        /\ work' = "idle"
        /\ UNCHANGED <<queued_buffers, buffer, taken>>
  /\ UNCHANGED <<streaming, sequence, workqueue, vb_state, done_list, vb2, contents, caller>>

Fill ==
  /\ work = "fill"
  /\ \/ /\ image' = [image EXCEPT ![buffer] = taken]
        /\ work' = "commit"
     \/ /\ PlaneMayFail
        /\ work' = "error"
        /\ UNCHANGED image
  /\ UNCHANGED <<device, workqueue, buffer, taken, vb_state, done_list, vb2, vb_sequence, caller>>

NextSequence_unwrapped == sequence + 1

NextSequence == (sequence + 1) % SequenceModulus

CommitFrame ==
  /\ work = "commit"
  /\ \/ /\ streaming /\ sequence = taken
        /\ sequence' = NextSequence
        /\ work' = "done"
     \/ /\ ~(streaming /\ sequence = taken)
        /\ work' = "error"
        /\ UNCHANGED sequence
  /\ UNCHANGED <<queued_buffers, streaming, workqueue, buffer, taken,
                 vb_state, done_list, vb2, contents, caller>>

\* A frame that was not committed goes back as an error without a payload.
Complete ==
  /\ \/ /\ work = "done"
        /\ vb_sequence' = [vb_sequence EXCEPT ![buffer] = taken]
        /\ BufferDone(buffer, "DONE")
     \/ /\ work = "error"
        /\ BufferDone(buffer, "ERROR")
        /\ UNCHANGED vb_sequence
  /\ work' = "rearm"
  /\ buffer' = NULL
  /\ UNCHANGED <<device, workqueue, taken, vb2, image, caller>>

RearmProducer ==
  /\ work = "rearm"
  /\ ScheduleNext(streaming, queued_buffers)
  /\ work' = "idle"
  /\ taken' = 0
  /\ UNCHANGED <<device, cancelling, buffer, vb_state, done_list, vb2, contents, caller>>

\* The sections of the worker that do not look at the clock.
Produce == TakeBuffer \/ Fill \/ CommitFrame \/ Complete

FrameWork == Produce \/ RearmProducer

-----------------------------------------------------------------------------
(* QBUF, DQBUF and STREAMON                                                *)

Goto(place) == ioctl' = place

\* Buffers go to the driver as they are queued once the stream has started, all
\* together when it starts; it starts with the first buffer (min_queued_buffers).
QBuf(b) ==
  /\ ioctl = "idle"
  /\ vb_state[b] = "DEQUEUED"
  /\ vb_state' = [vb_state EXCEPT ![b] = "QUEUED"]
  /\ queued_list' = Append(queued_list, b)
  /\ \/ /\ vb2_streaming
        /\ handing' = <<b>>
        /\ Goto("enqueue")
     \/ /\ ~vb2_streaming
        /\ UNCHANGED <<handing, ioctl>>
  /\ UNCHANGED <<device, workqueue, worker, done_list, vb2_streaming,
                 start_streaming_called, contents>>

StreamOn ==
  /\ ioctl = "idle"
  /\ ~vb2_streaming
  /\ vb2_streaming' = TRUE
  /\ handing' = queued_list
  /\ Goto(IF queued_list = <<>> THEN "idle" ELSE "enqueue")
  /\ UNCHANGED <<device, workqueue, worker, vb_state, done_list, queued_list,
                 start_streaming_called, contents>>

\* camstream_buf_queue: the list first, then, in a section of its own, the work.
BufQueue ==
  /\ ioctl = "enqueue"
  /\ vb_state' = [vb_state EXCEPT ![Head(handing)] = "ACTIVE"]
  /\ queued_buffers' = Append(queued_buffers, Head(handing))
  /\ handing' = Tail(handing)
  /\ Goto("notify")
  /\ UNCHANGED <<streaming, sequence, workqueue, worker, done_list, vb2, contents>>

AfterHanding ==
  IF handing # <<>> THEN "enqueue" ELSE IF start_streaming_called THEN "idle" ELSE "start"

NotifyBuffer_skipped ==
  /\ ioctl = "notify"
  /\ Goto(AfterHanding)
  /\ UNCHANGED <<device, workqueue, worker, vb_state, done_list, vb2, contents, handing>>

NotifyBuffer ==
  /\ ioctl = "notify"
  /\ ScheduleNext(streaming, queued_buffers)
  /\ Goto(AfterHanding)
  /\ UNCHANGED <<device, cancelling, worker, vb_state, done_list, vb2, contents,
                 handing>>

\* start_streaming, which is camstream_frame_start.
FrameStart_sequenceKept ==
  /\ ioctl = "start"
  /\ streaming' = TRUE
  /\ start_streaming_called' = TRUE
  /\ ScheduleNext(TRUE, queued_buffers)
  /\ Goto("idle")
  /\ UNCHANGED <<queued_buffers, sequence, cancelling, worker, vb_state, done_list,
                 queued_list, vb2_streaming, contents, handing>>

FrameStart ==
  /\ ioctl = "start"
  /\ sequence' = 0
  /\ streaming' = TRUE
  /\ start_streaming_called' = TRUE
  /\ ScheduleNext(TRUE, queued_buffers)
  /\ Goto("idle")
  /\ UNCHANGED <<queued_buffers, cancelling, worker, vb_state, done_list,
                 queued_list, vb2_streaming, contents, handing>>

DQBuf ==
  /\ ioctl = "idle"
  /\ done_list # <<>>
  /\ LET b == Head(done_list) IN
       /\ vb_state' = [vb_state EXCEPT ![b] = "DEQUEUED"]
       /\ \E i \in DOMAIN queued_list :
            queued_list[i] = b /\ queued_list' = RemoveAt(queued_list, i)
  /\ done_list' = Tail(done_list)
  /\ UNCHANGED <<device, workqueue, worker, vb2_streaming, start_streaming_called,
                 contents, ioctl, handing>>

-----------------------------------------------------------------------------
(* STREAMOFF                                                               *)

\* stop_streaming is called only on a stream that was started.
StreamOff ==
  /\ ioctl = "idle"
  /\ Goto(IF start_streaming_called THEN "stop" ELSE "release")
  /\ UNCHANGED <<device, workqueue, worker, vb_state, done_list, vb2, contents,
                 handing>>

\* camstream_frame_stop.
FrameStop ==
  /\ ioctl = "stop"
  /\ streaming' = FALSE
  /\ Goto("cancel")
  /\ UNCHANGED <<queued_buffers, sequence, workqueue, worker, vb_state, done_list, vb2,
                 contents, handing>>

CancelWork_timerKept ==
  /\ ioctl = "cancel"
  /\ cancelling' = TRUE
  /\ Goto("flush")
  /\ UNCHANGED <<device, pending, worker, vb_state, done_list, vb2, contents, handing>>

CancelWork ==
  /\ ioctl = "cancel"
  /\ pending' = FALSE
  /\ cancelling' = TRUE
  /\ Goto("flush")
  /\ UNCHANGED <<device, worker, vb_state, done_list, vb2, contents, handing>>

WorkDrained_unsynchronized == TRUE

WorkDrained == work = "idle"

FlushWork ==
  /\ ioctl = "flush"
  /\ WorkDrained
  /\ cancelling' = FALSE
  /\ Goto("drain")
  /\ UNCHANGED <<device, pending, worker, vb_state, done_list, vb2, contents,
                 handing>>

\* One round of the loop of camstream_stop_streaming.
StopStreaming_leavesLast ==
  /\ ioctl = "drain"
  /\ \/ /\ Len(queued_buffers) <= 1
        /\ Goto("release")
        /\ UNCHANGED <<queued_buffers, vb_state, done_list>>
     \/ /\ Len(queued_buffers) > 1
        /\ queued_buffers' = Tail(queued_buffers)
        /\ BufferDone(Head(queued_buffers), "ERROR")
        /\ UNCHANGED ioctl
  /\ UNCHANGED <<streaming, sequence, workqueue, worker, vb2, contents, handing>>

StopStreaming ==
  /\ ioctl = "drain"
  /\ \/ /\ queued_buffers = <<>>
        /\ Goto("release")
        /\ UNCHANGED <<queued_buffers, vb_state, done_list>>
     \/ /\ queued_buffers # <<>>
        /\ queued_buffers' = Tail(queued_buffers)
        /\ BufferDone(Head(queued_buffers), "ERROR")
        /\ UNCHANGED ioctl
  /\ UNCHANGED <<streaming, sequence, workqueue, worker, vb2, contents, handing>>

\* VB2 takes every buffer off its lists and back to the application.
QueueCancel ==
  /\ ioctl = "release"
  /\ vb_state' = [b \in Buffers |-> "DEQUEUED"]
  /\ queued_list' = <<>>
  /\ done_list' = <<>>
  /\ vb2_streaming' = FALSE
  /\ start_streaming_called' = FALSE
  /\ Goto("idle")
  /\ UNCHANGED <<device, workqueue, worker, contents, handing>>

-----------------------------------------------------------------------------
\* What the caller goes on with once it is inside an ioctl: the sections that
\* leave the timer alone, and all.
HandOverOrStop == BufQueue \/ FrameStop \/ FlushWork \/ StopStreaming \/ QueueCancel

InIoctl == HandOverOrStop \/ NotifyBuffer \/ FrameStart \/ CancelWork

\* What the application calls.
Calls == (\E b \in Buffers : QBuf(b)) \/ DQBuf \/ StreamOn \/ StreamOff

Next == WorkStarts \/ FrameWork \/ InIoctl \/ Calls

Spec == Init /\ [][Next]_vars

-----------------------------------------------------------------------------
(* Properties.                                                             *)

\* The types of the driver's, VB2's and the two threads' state.
TypeOK ==
  /\ queued_buffers \in Seq(Buffers)
  /\ streaming \in BOOLEAN
  /\ sequence \in SequenceNumbers
  /\ pending \in BOOLEAN
  /\ cancelling \in BOOLEAN
  /\ work \in WorkPlaces
  /\ buffer \in Buffers \cup {NULL}
  /\ taken \in SequenceNumbers
  /\ vb_state \in [Buffers -> VbStates]
  /\ queued_list \in Seq(Buffers)
  /\ done_list \in Seq(Buffers)
  /\ vb2_streaming \in BOOLEAN
  /\ start_streaming_called \in BOOLEAN
  /\ vb_sequence \in [Buffers -> SequenceNumbers]
  /\ image \in [Buffers -> SequenceNumbers]
  /\ ioctl \in IoctlPlaces
  /\ handing \in Seq(Buffers)

\* The buffers VB2 counts as the driver's are those on the driver's list and the
\* one in the worker's hand, each in one place only: none is lost, and none is
\* completed twice (camstream_buf_queue, take_buffer, vb2_buffer_done).
OwnedOnce ==
  /\ IsInjective(queued_buffers)
  /\ buffer \notin ToSet(queued_buffers)
  /\ {b \in Buffers : vb_state[b] = "ACTIVE"} = ToSet(queued_buffers) \cup ({buffer} \ {NULL})
  /\ IsInjective(done_list)
  /\ {b \in Buffers : vb_state[b] \in {"DONE", "ERROR"}} = ToSet(done_list)

\* Outside a stream the driver is at rest: no work pending or running, and
\* nothing of VB2's in its hands (camstream_frame_stop, stop_streaming).
QuietWhenStopped ==
  ~start_streaming_called /\ ioctl = "idle" =>
    /\ ~streaming /\ ~pending /\ ~cancelling
    /\ work = "idle"
    /\ queued_buffers = <<>>

\* The worker writes only into a buffer the driver owns: what is done or with the
\* application does not change under it (frame_work fills outside the lock).
ImagesStable ==
  [][\A b \in Buffers : vb_state[b] # "ACTIVE" => image'[b] = image[b]]_vars

\* What the completed buffers show the application, in the order it will dequeue
\* them.
Shown == [i \in DOMAIN done_list |->
            LET b == done_list[i] IN
            IF vb_state[b] = "DONE"
            THEN [ok |-> TRUE, sequence |-> vb_sequence[b], image |-> image[b]]
            ELSE [ok |-> FALSE, sequence |-> 0, image |-> 0]]

Promise ==
  INSTANCE VideoQueue WITH
    Modulus <- SequenceModulus,
    queue <- queued_list,
    filled <- Shown,
    on <- start_streaming_called,
    number <- IF ~start_streaming_called THEN 0
              ELSE IF work = "done" THEN taken ELSE sequence

\* To the application the driver is a queue: buffers come back in QBUF order,
\* each once, and a stream's frames are numbered from 0 without a gap, a repeat or
\* a number carried over, each showing the pattern of its own number, which it
\* keeps (take_buffer, commit_frame, frame_start, fill_yuyv, stop_streaming).
ImplementsVideoQueue == Promise!Spec

\* No wakeup is lost: every buffer the driver is given comes back, by a frame or
\* by the end of the stream (the two sections of buf_queue against the worker's
\* take and rearm).
BuffersComeBack ==
  \A b \in Buffers : vb_state[b] = "ACTIVE" ~> vb_state[b] # "ACTIVE"
=============================================================================
