------------------------------ MODULE FrameTiming ------------------------------
(***************************************************************************)
(* When the next synthetic frame is due (camstream_frame.c): the interval, *)
(* the deadline in u64 nanoseconds and the delay in jiffies.               *)
(***************************************************************************)
EXTENDS Integers

CONSTANTS
  Second,            \* NSEC_PER_SEC
  Jiffy,             \* the nanoseconds of a jiffy
  MaxJiffyOffset,    \* MAX_JIFFY_OFFSET
  MaxU64             \* 2^64 - 1

ASSUME TimingAssumption ==
  /\ Second \in Nat \ {0}
  /\ Jiffy \in Nat \ {0}
  /\ MaxJiffyOffset \in Nat \ {0}
  /\ MaxU64 \in Nat

Most(a, b) == IF a > b THEN a ELSE b

\* camstream_frame_interval_ns
FrameInterval(numerator, denominator) ==
  IF numerator = 0 \/ denominator = 0
  THEN Jiffy
  ELSE Most((Second * numerator) \div denominator, 1)

\* camstream_delay_until: nsecs_to_jiffies truncates, and the delay must not.
DelayUntil(deadline_ns, now_ns) ==
  LET remaining_ns == deadline_ns - now_ns
      truncated == remaining_ns \div Jiffy
      delay == IF truncated * Jiffy < remaining_ns THEN truncated + 1 ELSE truncated
  IN  IF deadline_ns <= now_ns THEN 1
      ELSE IF truncated >= MaxJiffyOffset THEN MaxJiffyOffset
      ELSE Most(delay, 1)

\* camstream_advance_deadline_locked: to the first period after now; a deadline
\* that would not fit in 64 bits starts anew.
AdvanceDeadline(deadline_ns, interval_ns, now_ns) ==
  LET due == deadline_ns + interval_ns
      periods == (now_ns - due) \div interval_ns + 1
      advanced == due + periods * interval_ns
      anew == (now_ns + interval_ns) % (MaxU64 + 1)
  IN  IF due > MaxU64 THEN anew
      ELSE IF due > now_ns THEN due
      ELSE IF advanced > MaxU64 THEN anew
      ELSE advanced
=============================================================================
