---------------------------- MODULE CamstreamDevice ----------------------------
(***************************************************************************)
(* The driver module around its stream (drivers/camstream-video,           *)
(* camstream_main.c): what init acquires step by step and releases when a  *)
(* step fails, the node that files open, the format, the buffers REQBUFS   *)
(* allocates, and the end of the module.  The V4L2 core runs one ioctl at  *)
(* a time, lets only the file that allocated the buffers use them, stops   *)
(* the stream when that file is closed, and keeps the module while a file  *)
(* is open.                                                                *)
(***************************************************************************)
EXTENDS CamstreamVideo, FrameFormat

CONSTANTS
  Files,
  RequestedFormats     \* what applications may ask S_FMT for

ASSUME DeviceAssumption == NULL \notin Files

VARIABLES
  module,              \* where init or exit is, "live" between them
  held,                \* what init has acquired
  camstream_device,    \* is the global pointer set?
  active_format,
  plane_size,          \* of every allocated buffer, 0 when there is none
  open,                \* the open files
  owner,               \* the file that allocated the buffers
  closing              \* the file being closed

lifetime == <<module, held, camstream_device>>
files == <<open, owner, closing>>
deviceVars == <<lifetime, active_format, plane_size, files>>
allVars == <<vars, deviceVars>>

Resources == {"device", "v4l2_dev", "vb2_queue", "video_dev", "node"}

DeviceInit ==
  /\ Init
  /\ module = "absent"
  /\ held = {}
  /\ camstream_device = FALSE
  /\ active_format = FillFormat
  /\ plane_size = 0
  /\ open = {}
  /\ owner = NULL
  /\ closing = NULL

-----------------------------------------------------------------------------
(* camstream_video_init and camstream_video_exit                           *)

\* The step at label acquires a resource, or init leaves by the error label.
Acquire(label, resource, next, error) ==
  /\ module = label
  /\ \/ held' = held \cup {resource} /\ module' = next
     \/ module' = error /\ UNCHANGED held
  /\ UNCHANGED camstream_device

Release(label, resources, next) ==
  /\ module = label
  /\ held' = held \ resources
  /\ module' = next

\* kzalloc clears the device, the format is set.
AllocDevice ==
  /\ Acquire("absent", "device", "v4l2", "absent")
  /\ sequence' = 0
  /\ active_format' = FillFormat
  /\ UNCHANGED <<queued_buffers, streaming>>

InitSteps ==
  \/ Acquire("v4l2", "v4l2_dev", "queue", "err_destroy_mutex")
  \/ Acquire("queue", "vb2_queue", "video", "err_unregister_v4l2")
  \/ Acquire("video", "video_dev", "register", "err_release_queue")
  \/ Acquire("register", "node", "publish", "err_release_video")

\* The node can be opened before the pointer is set.
Publish ==
  /\ module = "publish"
  /\ module' = "live"
  /\ camstream_device' = TRUE
  /\ UNCHANGED held

\* Mutant: a failed registration does not release the queue.
InitErrors_skipsQueue ==
  /\ \/ Release("err_release_video", {"video_dev"}, "err_unregister_v4l2")
     \/ Release("err_release_queue", {"vb2_queue"}, "err_unregister_v4l2")
     \/ Release("err_unregister_v4l2", {"v4l2_dev"}, "err_destroy_mutex")
     \/ Release("err_destroy_mutex", {"device"}, "absent")
  /\ UNCHANGED camstream_device

InitErrors ==
  /\ \/ Release("err_release_video", {"video_dev"}, "err_release_queue")
     \/ Release("err_release_queue", {"vb2_queue"}, "err_unregister_v4l2")
     \/ Release("err_unregister_v4l2", {"v4l2_dev"}, "err_destroy_mutex")
     \/ Release("err_destroy_mutex", {"device"}, "absent")
  /\ UNCHANGED camstream_device

\* An open file keeps the module.
ExitBegins ==
  /\ module = "live"
  /\ open = {}
  /\ module' = IF camstream_device THEN "unregister_video" ELSE "absent"
  /\ UNCHANGED <<held, camstream_device>>

\* vb2_video_unregister_device takes the node away and releases the queue.  kfree()
\* and the pointer's reset are one step: init and exit alone read the pointer, and
\* the kernel never runs them at the same time.
ExitSteps ==
  \/ /\ \/ Release("unregister_video", {"node", "vb2_queue", "video_dev"}, "unregister_v4l2")
        \/ Release("unregister_v4l2", {"v4l2_dev"}, "free")
     /\ UNCHANGED camstream_device
  \/ /\ Release("free", {"device"}, "absent")
     /\ camstream_device' = FALSE

Module ==
  \/ /\ InitSteps \/ Publish \/ InitErrors \/ ExitBegins \/ ExitSteps
     /\ UNCHANGED <<vars, active_format, plane_size, files>>
  \/ /\ AllocDevice
     /\ UNCHANGED <<workqueue, worker, vb_state, done_list, vb2, contents, caller,
                    plane_size, files>>

-----------------------------------------------------------------------------
(* Files                                                                   *)

Between == ioctl = "idle" /\ closing = NULL

\* v4l2_fh_open.
OpenFile(f) ==
  /\ "node" \in held
  /\ module \in {"publish", "live"}
  /\ f \notin open
  /\ open' = open \cup {f}
  /\ UNCHANGED <<vars, lifetime, active_format, plane_size, owner, closing>>

\* vb2_fop_release: the owner's close stops the stream like STREAMOFF first.
CloseFile(f) ==
  /\ Between
  /\ f \in open
  /\ \/ /\ f = owner
        /\ closing' = f
        /\ StreamOff
        /\ UNCHANGED open
     \/ /\ f # owner
        /\ open' = open \ {f}
        /\ UNCHANGED <<vars, closing>>
  /\ UNCHANGED <<lifetime, active_format, plane_size, owner>>

FileClosed ==
  /\ closing # NULL
  /\ ioctl = "idle"
  /\ open' = open \ {closing}
  /\ owner' = NULL
  /\ closing' = NULL
  /\ plane_size' = 0
  /\ UNCHANGED <<vars, lifetime, active_format>>

-----------------------------------------------------------------------------
(* Formats and buffers                                                     *)

\* vb2_is_busy
IsBusy == plane_size # 0

\* camstream_s_fmt_vid_cap
SetFormat(f, format) ==
  /\ Between
  /\ f \in open
  /\ ~IsBusy
  /\ active_format' = TryFormat(format)
  /\ UNCHANGED <<vars, lifetime, plane_size, files>>

\* REQBUFS releases what there was and allocates anew, unless it runs out of
\* memory; camstream_queue_setup gives the size.
RequestBuffers(f) ==
  /\ Between
  /\ f \in open
  /\ owner \in {f, NULL}
  /\ ~vb2_streaming
  /\ vb_state' = [b \in Buffers |-> "DEQUEUED"]
  /\ queued_list' = <<>>
  /\ \/ plane_size' = active_format.sizeimage /\ owner' = f
     \/ plane_size' = 0 /\ owner' = NULL
     \/ plane_size' = 0 /\ UNCHANGED owner
  /\ UNCHANGED <<device, workqueue, worker, done_list, vb2_streaming, start_streaming_called,
                 contents, caller, lifetime, active_format, open, closing>>

\* camstream_buf_prepare
BufPrepared == plane_size >= active_format.sizeimage

\* Only the owner of allocated buffers can queue, dequeue and stream.
Streaming ==
  /\ Between
  /\ owner \in open
  /\ IsBusy
  /\ \/ \E b \in Buffers : BufPrepared /\ QBuf(b)
     \/ DQBuf \/ StreamOn \/ StreamOff
  /\ UNCHANGED deviceVars

\* The check before the fill, which comes after the test for a plane.
Valid == plane_size >= active_format.sizeimage /\ FormatIsSafe(active_format)

Inside ==
  /\ WorkStarts \/ FrameWork \/ InIoctl
  /\ work = "fill" /\ work' = "commit" => Valid
  /\ UNCHANGED deviceVars

DeviceNext ==
  \/ Module
  \/ \E f \in Files : OpenFile(f) \/ CloseFile(f) \/ RequestBuffers(f)
  \/ \E f \in Files, format \in RequestedFormats : SetFormat(f, format)
  \/ FileClosed
  \/ Streaming
  \/ Inside

DeviceSpec == DeviceInit /\ [][DeviceNext]_allVars

-----------------------------------------------------------------------------
(* Properties.                                                             *)

Acquired == <<"device", "v4l2_dev", "vb2_queue", "video_dev", "node">>

\* Nothing is used before it is acquired or after it is released: each resource
\* stands on those before it, the module leaves nothing behind however it fails
\* or ends, the global pointer is to a device that exists, and while a file is
\* open, a buffer allocated, or the worker due or running, all of them are there
\* (camstream_video_init and its labels, camstream_video_exit).
LifetimesNest ==
  /\ \A i \in 2 .. Len(Acquired) : Acquired[i] \in held =>
       Acquired[i - 1] \in held
  /\ module = "absent" => held = {} /\ ~camstream_device
  /\ camstream_device => "device" \in held
  /\ open # {} \/ IsBusy \/ pending \/ work # "idle" \/ ioctl # "idle" => held = Resources

\* Whatever was asked of S_FMT and when, an allocated plane holds an image of the
\* active format, which is one the fill may be given: every frame passes the
\* worker's check (fill_format, s_fmt, queue_setup, frame_work).
FramesFit == IsBusy \/ work # "idle" => Valid
=============================================================================
