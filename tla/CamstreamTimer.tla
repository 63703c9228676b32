---------------------------- MODULE CamstreamTimer ----------------------------
(***************************************************************************)
(* The frame producer against the clock (camstream_frame.c): the deadline  *)
(* of the next frame, and the timer of the delayed work that               *)
(* mod_delayed_work sets.  Times are counted from the start of the current *)
(* jiffy, so that a stream may last for ever: as the next jiffy starts the *)
(* deadline and the timer move back by one.  A critical section takes no   *)
(* time.                                                                   *)
(***************************************************************************)
EXTENDS CamstreamVideo, FrameTiming

CONSTANTS
  Numerator, Denominator     \* device->timeperframe

ASSUME RateAssumption ==
  /\ Numerator \in Nat
  /\ Denominator \in Nat

VARIABLES
  now,                       \* nanoseconds into the current jiffy
  next_frame_deadline_ns,
  timer                      \* the jiffy in which the pending work may run, 0 without one

clock == <<now, next_frame_deadline_ns, timer>>
timedVars == <<vars, clock>>

Interval == FrameInterval(Numerator, Denominator)

\* A frame is due within the longest delay there is and within the clock's width.
ASSUME IntervalAssumption ==
  /\ Interval <= MaxJiffyOffset * Jiffy
  /\ Jiffy + Interval <= MaxU64

TimerInit ==
  /\ Init
  /\ now = 0
  /\ next_frame_deadline_ns = 0
  /\ timer = 0

-----------------------------------------------------------------------------
\* A deadline missed by more than an interval is moved up to the last period that
\* has passed: the distances the driver computes from either are the same.
LastMissed(deadline) == IF deadline <= -Interval THEN deadline + Interval ELSE deadline

Tick ==
  /\ now' = (now + 1) % Jiffy
  /\ \/ /\ now' # 0
        /\ next_frame_deadline_ns' = LastMissed(next_frame_deadline_ns)
        /\ UNCHANGED timer
     \/ /\ now' = 0
        /\ next_frame_deadline_ns' = LastMissed(next_frame_deadline_ns - Jiffy)
        /\ timer' = Most(timer - 1, 0)
  /\ UNCHANGED vars

\* The timer wheel does not fire before the last jiffy of the delay is over.
SetTimer ==
  IF streaming' /\ queued_buffers' # <<>> /\ ~cancelling
  THEN timer' = DelayUntil(next_frame_deadline_ns', now) + 1
  ELSE UNCHANGED timer

TimedFrameStart ==
  /\ FrameStart
  /\ next_frame_deadline_ns' = now + Interval
  /\ SetTimer

\* Mutant: a notification moves the deadline as a frame does.
TimedNotifyBuffer_advances ==
  /\ NotifyBuffer
  /\ next_frame_deadline_ns' = AdvanceDeadline(next_frame_deadline_ns, Interval, now)
  /\ SetTimer

TimedNotifyBuffer ==
  /\ NotifyBuffer
  /\ UNCHANGED next_frame_deadline_ns
  /\ SetTimer

TimedRearmProducer ==
  /\ RearmProducer
  /\ next_frame_deadline_ns' = AdvanceDeadline(next_frame_deadline_ns, Interval, now)
  /\ SetTimer

TimedCancelWork ==
  /\ CancelWork
  /\ timer' = 0
  /\ UNCHANGED next_frame_deadline_ns

TimerFires ==
  /\ WorkStarts
  /\ timer = 0
  /\ UNCHANGED clock

TimedFrameWork ==
  \/ Produce /\ UNCHANGED clock
  \/ TimedRearmProducer /\ UNCHANGED now

TimedInIoctl ==
  \/ HandOverOrStop /\ UNCHANGED clock
  \/ (TimedNotifyBuffer \/ TimedFrameStart \/ TimedCancelWork) /\ UNCHANGED now

TimedNext ==
  \/ Tick
  \/ TimerFires \/ TimedFrameWork \/ TimedInIoctl
  \/ Calls /\ UNCHANGED clock

TimedSpec == TimerInit /\ [][TimedNext]_timedVars

-----------------------------------------------------------------------------
(* Properties.                                                             *)

\* The producer is never ahead of its rate by more than one frame: the next frame
\* is due within two intervals, whatever missed deadlines, notifications and
\* rearms came before (advance_deadline, rearm_producer, notify_buffer).
AtMostOneAhead == streaming => next_frame_deadline_ns <= now + 2 * Interval

\* "Delayed work must not run early": a frame is produced at its deadline or
\* after it (delay_until).
NotEarly ==
  [][work = "take" /\ work' = "fill" => next_frame_deadline_ns <= now]_timedVars
=============================================================================
