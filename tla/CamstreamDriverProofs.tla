------------------------- MODULE CamstreamDriverProofs -------------------------
(***************************************************************************)
(* What the driver promises, for any buffers, any sequence modulus, any    *)
(* size of the image, any files, any rate and any jiffy.  In this order:   *)
(* the arithmetic of FrameFormat and FrameTiming; CamstreamVideo, whose    *)
(* invariant IInv says who holds which buffer when the stream is in which  *)
(* state; its refinement of VideoQueue, by the order OrderInv in which the *)
(* buffers travel; CamstreamDevice, whose LifeInv says what exists when    *)
(* the module is where; CamstreamTimer, where the frame producer never     *)
(* runs ahead.                                                             *)
(***************************************************************************)
EXTENDS CamstreamTimer, CamstreamDevice, SequenceTheorems, TLAPS

\* What div_u64 and nsecs_to_jiffies rest on.
LEMMA DivFacts ==
  ASSUME NEW a \in Int, NEW b \in Nat \ {0}
  PROVE  /\ a \div b \in Int
         /\ b * (a \div b) <= a
         /\ a < b * (a \div b) + b
  BY SMT

\* A product in a bound comes out of the division.
LEMMA DivBound ==
  ASSUME NEW a \in Nat, NEW b \in Nat \ {0}, NEW c \in Nat, a <= c * b
  PROVE  a \div b \in 0 .. c
<1> DEFINE q == a \div b
<1>1. q \in Int /\ b * q <= a /\ a < b * q + b
  BY DivFacts
<1> HIDE DEF q
<1>2. q >= 0
  BY <1>1
<1>3. q <= c
  <2> SUFFICES ASSUME q >= c + 1 PROVE FALSE
    BY <1>1
  <2>1. b * q >= b * (c + 1)
    BY <1>1
  <2> QED
    BY <2>1, <1>1
<1> QED
  BY <1>1, <1>2, <1>3 DEF q

-----------------------------------------------------------------------------
(* The image                                                               *)

\* The one format the driver offers is one it may fill, and the shift of the
\* pattern fits in a u32 (camstream_fill_format, camstream_format_is_safe).
THEOREM FillIsSafe ==
  /\ FormatIsSafe(FillFormat)
  /\ \A number \in Nat : (number % Width) * PatternShiftPixels <= MaxU32
<1>1. FormatIsSafe(FillFormat)
  <2> DEFINE line == Width * BytesPerPixel
  <2>1. line \in Nat /\ line <= line * Height
    BY FormatAssumption DEF BytesPerPixel
  <2>2. line * Height <= MaxU32
    BY FormatAssumption
  <2> QED
    BY <2>1, <2>2, FormatAssumption DEF FormatIsSafe, FillFormat, BytesPerPixel
<1>2. ASSUME NEW number \in Nat
      PROVE  (number % Width) * PatternShiftPixels <= MaxU32
  <2>1. number % Width \in Nat /\ number % Width < Width
    BY FormatAssumption
  <2> QED
    BY <2>1, FormatAssumption DEF PatternShiftPixels
<1> QED
  BY <1>1, <1>2

\* A luma is a byte and a legal one, 16 .. 235, wherever the pixel is
\* (camstream_luma).
THEOREM LumaInRange ==
  ASSUME NEW width \in Nat, width >= 2, NEW position \in 0 .. width - 1
  PROVE  Luma(position, width) \in 16 .. 235
<1>1. position * LumaRange \in Nat /\ width - 1 \in Nat \ {0}
  BY DEF LumaRange
<1>2. position * LumaRange <= LumaRange * (width - 1)
  BY DEF LumaRange
<1>3. (position * LumaRange) \div (width - 1) \in 0 .. LumaRange
  BY <1>1, <1>2, DivBound DEF LumaRange
<1> QED
  BY <1>3 DEF Luma, LumaMinimum, LumaRange

\* Every row shows the whole gradient, turned by the shift: no pixel is read
\* outside it and none is shown twice (camstream_fill_yuyv).
THEOREM RowIsARotation ==
  ASSUME NEW width \in Nat \ {0}, NEW number \in Nat
  PROVE  /\ \A column \in 0 .. width - 1 : Source(column, number, width) \in 0 .. width - 1
         /\ \A first, second \in 0 .. width - 1 :
              Source(first, number, width) = Source(second, number, width)
                => first = second
<1> DEFINE shift == Shift(number, width)
<1>1. shift \in 0 .. width - 1
  <2>1. (number % width) * PatternShiftPixels \in Nat
    BY DEF PatternShiftPixels
  <2> QED
    BY <2>1 DEF Shift
<1> HIDE DEF shift
<1>2. ASSUME NEW column \in 0 .. width - 1
      PROVE  (column + shift) % width
               = IF column + shift < width THEN column + shift ELSE column + shift - width
  BY <1>1
<1>3. \A column \in 0 .. width - 1 :
        Source(column, number, width)
          = IF column + shift < width THEN column + shift ELSE column + shift - width
  BY <1>2 DEF Source, shift
<1> QED
  BY <1>1, <1>3

-----------------------------------------------------------------------------
(* The clock                                                               *)

\* A rate of zero or of more than a frame in a nanosecond still lets time pass
\* between two frames (camstream_frame_interval_ns).
THEOREM IntervalPositive ==
  ASSUME NEW numerator \in Nat, NEW denominator \in Nat
  PROVE  FrameInterval(numerator, denominator) \in Nat \ {0}
<1>1. CASE numerator = 0 \/ denominator = 0
  BY <1>1, TimingAssumption DEF FrameInterval
<1>2. CASE ~(numerator = 0 \/ denominator = 0)
  <2>1. Second * numerator \in Int
    BY TimingAssumption
  <2>2. (Second * numerator) \div denominator \in Int
    BY <1>2, <2>1, DivFacts
  <2> QED
    BY <1>2, <2>2 DEF FrameInterval, Most
<1> QED
  BY <1>1, <1>2

\* The delay never ends before the deadline, unless it is the longest there is,
\* and never a jiffy later than it must (camstream_delay_until).
THEOREM DelayCovers ==
  ASSUME NEW deadline_ns \in Int, NEW now_ns \in Int
  PROVE  LET delay == DelayUntil(deadline_ns, now_ns)
         IN  /\ delay \in 1 .. MaxJiffyOffset
             /\ delay * Jiffy >= deadline_ns - now_ns \/ delay = MaxJiffyOffset
             /\ delay = 1 \/ (delay - 1) * Jiffy < deadline_ns - now_ns
<1>1. CASE deadline_ns <= now_ns
  BY <1>1, TimingAssumption DEF DelayUntil
<1>2. CASE deadline_ns > now_ns
  <2> DEFINE remaining == deadline_ns - now_ns
             truncated == remaining \div Jiffy
  <2>1. remaining \in Nat \ {0}
    BY <1>2
  <2>2. /\ truncated \in Int
        /\ Jiffy * truncated <= remaining
        /\ remaining < Jiffy * truncated + Jiffy
    BY <2>1, TimingAssumption, DivFacts
  <2>3. truncated >= 0
    <3> HIDE DEF truncated
    <3> QED
      BY <2>1, <2>2, TimingAssumption
  <2>4. DelayUntil(deadline_ns, now_ns)
          = IF truncated >= MaxJiffyOffset THEN MaxJiffyOffset
            ELSE Most(IF truncated * Jiffy < remaining THEN truncated + 1 ELSE truncated, 1)
    BY <1>2 DEF DelayUntil
  <2> HIDE DEF truncated, remaining
  <2>5. CASE truncated >= MaxJiffyOffset
    <3>1. (MaxJiffyOffset - 1) * Jiffy < truncated * Jiffy
      BY <2>2, <2>5, TimingAssumption
    <3> QED
      BY <2>1, <2>2, <2>4, <2>5, <3>1, TimingAssumption DEF remaining
  <2>6. CASE truncated < MaxJiffyOffset /\ truncated * Jiffy < remaining
    BY <2>1, <2>2, <2>3, <2>4, <2>6, TimingAssumption DEF Most, remaining
  <2>7. CASE truncated < MaxJiffyOffset /\ ~(truncated * Jiffy < remaining)
    <3>1. truncated >= 1
      BY <2>1, <2>2, <2>3, <2>7, TimingAssumption
    <3>2. (truncated - 1) * Jiffy = Jiffy * truncated - Jiffy
      BY <2>2, TimingAssumption
    <3>3. (truncated - 1) * Jiffy < remaining
      BY <2>1, <2>2, <3>2, TimingAssumption
    <3>4. truncated * Jiffy = Jiffy * truncated
      BY <2>2, TimingAssumption
    <3> QED
      BY <2>1, <2>2, <2>4, <2>7, <3>1, <3>3, <3>4, TimingAssumption DEF Most, remaining
  <2> QED
    BY <2>2, <2>5, <2>6, <2>7, TimingAssumption
<1> QED
  BY <1>1, <1>2

\* While the clock is an interval away from its 64-bit end, the deadline moves to
\* the future, by no more than an interval beyond the old one or beyond now, and
\* stays on the grid of its stream, however late the worker is
\* (camstream_advance_deadline_locked).
THEOREM DeadlineAdvances ==
  ASSUME NEW deadline_ns \in Int, NEW now_ns \in Nat, NEW interval_ns \in Nat \ {0},
         now_ns + interval_ns <= MaxU64
  PROVE  LET next == AdvanceDeadline(deadline_ns, interval_ns, now_ns)
         IN  /\ next \in Int
             /\ next > now_ns
             /\ next <= Most(deadline_ns, now_ns) + interval_ns
             /\ next <= MaxU64
             /\ deadline_ns + interval_ns <= MaxU64 =>
                  \E periods \in Nat : next = deadline_ns + periods * interval_ns
<1> DEFINE due == deadline_ns + interval_ns
           q == (now_ns - due) \div interval_ns
           advanced == due + (q + 1) * interval_ns
           anew == (now_ns + interval_ns) % (MaxU64 + 1)
<1>1. AdvanceDeadline(deadline_ns, interval_ns, now_ns)
        = IF due > MaxU64 THEN anew
          ELSE IF due > now_ns THEN due
          ELSE IF advanced > MaxU64 THEN anew
          ELSE advanced
  BY DEF AdvanceDeadline
<1>2. anew = now_ns + interval_ns
  BY TimingAssumption
<1>3. q \in Int /\ interval_ns * q <= now_ns - due /\ now_ns - due < interval_ns * q + interval_ns
  BY DivFacts
<1>4. due \in Int
  OBVIOUS
<1> HIDE DEF q, anew
<1>5. CASE due > MaxU64
  BY <1>1, <1>2, <1>5, TimingAssumption DEF Most
<1>6. CASE due <= MaxU64 /\ due > now_ns
  <2>1. due = deadline_ns + 1 * interval_ns
    OBVIOUS
  <2>2. AdvanceDeadline(deadline_ns, interval_ns, now_ns) = due
    BY <1>1, <1>6, TimingAssumption
  <2> QED
    BY <1>6, <2>1, <2>2, TimingAssumption DEF Most
<1>7. CASE due <= now_ns
  <2>1. q >= 0
    BY <1>3, <1>7
  <2>2. advanced \in Int /\ advanced > now_ns /\ advanced <= now_ns + interval_ns
    BY <1>3, <1>4
  <2>3. advanced = deadline_ns + (q + 2) * interval_ns
    BY <1>3
  <2>4. AdvanceDeadline(deadline_ns, interval_ns, now_ns) = advanced
    BY <1>1, <1>4, <1>7, <2>2, TimingAssumption
  <2>5. q + 2 \in Nat
    BY <1>3, <2>1
  <2> HIDE DEF advanced
  <2>6. \E periods \in Nat : advanced = deadline_ns + periods * interval_ns
    BY <2>3, <2>5
  <2>7. advanced <= Most(deadline_ns, now_ns) + interval_ns
    BY <2>2 DEF Most
  <2> QED
    BY <2>2, <2>4, <2>6, <2>7, TimingAssumption
<1> QED
  BY <1>4, <1>5, <1>6, <1>7, TimingAssumption

-----------------------------------------------------------------------------
(* Queues without a repeated element.                                      *)

\* A queue of no element, and of one.
LEMMA EmptyFacts == /\ \A S : <<>> \in Seq(S)
                    /\ ToSet(<<>>) = {}
                    /\ IsInjective(<<>>)
  BY DEF ToSet, IsInjective

\* A queue of one element.
LEMMA SingletonFacts ==
  ASSUME NEW S, NEW e \in S
  PROVE  /\ <<e>> # <<>>
         /\ <<e>> \in Seq(S)
         /\ ToSet(<<e>>) = {e}
         /\ IsInjective(<<e>>)
<1>1. <<e>> \in Seq(S) /\ DOMAIN <<e>> = {1} /\ <<e>>[1] = e /\ Len(<<e>>) = 1
  OBVIOUS
<1> QED
  BY <1>1 DEF ToSet, IsInjective

\* Appending an element that is not there.
LEMMA AppendFacts ==
  ASSUME NEW S, NEW queue \in Seq(S), NEW e \in S
  PROVE  /\ Append(queue, e) \in Seq(S)
         /\ ToSet(Append(queue, e)) = ToSet(queue) \cup {e}
         /\ IsInjective(queue) /\ e \notin ToSet(queue) => IsInjective(Append(queue, e))
<1>1. /\ Append(queue, e) \in Seq(S)
      /\ DOMAIN queue = 1 .. Len(queue)
      /\ DOMAIN Append(queue, e) = 1 .. Len(queue) + 1
      /\ \A i \in 1 .. Len(queue) : Append(queue, e)[i] = queue[i]
      /\ Append(queue, e)[Len(queue) + 1] = e
      /\ Len(queue) \in Nat
  OBVIOUS
<1>2. ToSet(Append(queue, e)) = ToSet(queue) \cup {e}
  BY <1>1 DEF ToSet
<1>3. IsInjective(queue) /\ e \notin ToSet(queue) => IsInjective(Append(queue, e))
  BY <1>1 DEF ToSet, IsInjective
<1> QED
  BY <1>1, <1>2, <1>3

\* Taking the first element.
LEMMA TailFacts ==
  ASSUME NEW S, NEW queue \in Seq(S), queue # <<>>
  PROVE  /\ Head(queue) \in ToSet(queue)
         /\ Head(queue) \in S
         /\ Tail(queue) \in Seq(S)
         /\ ToSet(queue) = ToSet(Tail(queue)) \cup {Head(queue)}
         /\ IsInjective(queue) =>
              IsInjective(Tail(queue)) /\ ToSet(Tail(queue)) = ToSet(queue) \ {Head(queue)}
<1>1. /\ Head(queue) = queue[1]
      /\ Tail(queue) \in Seq(S)
      /\ Len(queue) \in Nat \ {0}
      /\ DOMAIN queue = 1 .. Len(queue)
      /\ DOMAIN Tail(queue) = 1 .. Len(queue) - 1
      /\ \A i \in 1 .. Len(queue) - 1 : Tail(queue)[i] = queue[i + 1]
  OBVIOUS
<1>2. queue[1] \in ToSet(queue) /\ queue[1] \in S
  BY <1>1 DEF ToSet
<1>3. ToSet(queue) = ToSet(Tail(queue)) \cup {queue[1]}
  <2>1. ASSUME NEW i \in 1 .. Len(queue)
        PROVE  queue[i] \in ToSet(Tail(queue)) \cup {queue[1]}
    <3>1. CASE i = 1
      BY <3>1
    <3>2. CASE i # 1
      <4>1. i - 1 \in 1 .. Len(queue) - 1 /\ Tail(queue)[i - 1] = queue[i]
        BY <1>1, <3>2
      <4> QED
        BY <1>1, <4>1 DEF ToSet
    <3> QED
      BY <3>1, <3>2
  <2> QED
    BY <1>1, <1>2, <2>1 DEF ToSet
<1>4. IsInjective(queue) => IsInjective(Tail(queue)) /\ queue[1] \notin ToSet(Tail(queue))
  BY <1>1 DEF ToSet, IsInjective
<1> QED
  BY <1>1, <1>2, <1>3, <1>4

\* Taking an element out of the middle.
LEMMA RemoveAtFacts ==
  ASSUME NEW S, NEW queue \in Seq(S), NEW i \in DOMAIN queue
  PROVE  /\ RemoveAt(queue, i) \in Seq(S)
         /\ IsInjective(queue) =>
              /\ IsInjective(RemoveAt(queue, i))
              /\ ToSet(RemoveAt(queue, i)) = ToSet(queue) \ {queue[i]}
<1> DEFINE rest == RemoveAt(queue, i)
<1>1. /\ Len(queue) \in Nat
      /\ DOMAIN queue = 1 .. Len(queue)
      /\ i \in 1 .. Len(queue)
  OBVIOUS
<1>2. /\ rest \in Seq(S)
      /\ Len(rest) = Len(queue) - 1
      /\ DOMAIN rest = 1 .. Len(queue) - 1
      /\ \A j \in 1 .. Len(queue) - 1 : rest[j] = IF j < i THEN queue[j] ELSE queue[j + 1]
  <2> DEFINE before == SubSeq(queue, 1, i - 1)
             after == SubSeq(queue, i + 1, Len(queue))
  <2>1. /\ before \in Seq(S)
        /\ Len(before) = i - 1
        /\ \A j \in 1 .. i - 1 : before[j] = queue[j]
    BY <1>1
  <2>2. /\ after \in Seq(S)
        /\ Len(after) = Len(queue) - i
        /\ \A j \in 1 .. Len(queue) - i : after[j] = queue[i + j]
    BY <1>1
  <2>3. rest = before \o after
    BY DEF RemoveAt
  <2> HIDE DEF before, after, rest
  <2>4. /\ rest \in Seq(S)
        /\ Len(rest) = Len(before) + Len(after)
        /\ \A j \in 1 .. Len(before) + Len(after) :
             rest[j] = IF j <= Len(before) THEN before[j] ELSE after[j - Len(before)]
    BY <2>1, <2>2, <2>3, ConcatProperties
  <2>5. Len(before) + Len(after) = Len(queue) - 1
    BY <1>1, <2>1, <2>2
  <2>6. ASSUME NEW j \in 1 .. Len(queue) - 1
        PROVE  rest[j] = IF j < i THEN queue[j] ELSE queue[j + 1]
    <3>1. CASE j < i
      BY <1>1, <2>1, <2>4, <2>5, <3>1
    <3>2. CASE j >= i
      <4>1. j - (i - 1) \in 1 .. Len(queue) - i /\ i + (j - (i - 1)) = j + 1 /\ ~(j <= i - 1)
        BY <1>1, <3>2
      <4>2. rest[j] = after[j - (i - 1)]
        BY <2>1, <2>4, <2>5, <2>6, <4>1
      <4>3. after[j - (i - 1)] = queue[j + 1]
        BY <2>2, <4>1
      <4> QED
        BY <1>1, <3>2, <4>2, <4>3
    <3> QED
      BY <1>1, <3>1, <3>2
  <2> QED
    BY <2>4, <2>5, <2>6
<1> HIDE DEF rest
<1>3. ASSUME IsInjective(queue)
      PROVE  /\ IsInjective(rest)
             /\ ToSet(rest) = ToSet(queue) \ {queue[i]}
  <2>1. IsInjective(rest)
    <3> SUFFICES ASSUME NEW j \in 1 .. Len(queue) - 1, NEW k \in 1 .. Len(queue) - 1,
                        rest[j] = rest[k]
                 PROVE  j = k
      BY <1>2 DEF IsInjective
    <3>1. \A m, n \in 1 .. Len(queue) : queue[m] = queue[n] => m = n
      BY <1>1, <1>3 DEF IsInjective
    <3>2. j \in 1 .. Len(queue) /\ j + 1 \in 1 .. Len(queue)
          /\ k \in 1 .. Len(queue) /\ k + 1 \in 1 .. Len(queue)
      BY <1>1
    <3>3. CASE j < i /\ k < i
      BY <1>2, <3>1, <3>2, <3>3
    <3>4. CASE j < i /\ k >= i
      BY <1>1, <1>2, <3>1, <3>2, <3>4
    <3>5. CASE j >= i /\ k < i
      BY <1>1, <1>2, <3>1, <3>2, <3>5
    <3>6. CASE j >= i /\ k >= i
      BY <1>1, <1>2, <3>1, <3>2, <3>6
    <3> QED
      BY <1>1, <3>3, <3>4, <3>5, <3>6
  <2>2. ToSet(rest) \subseteq ToSet(queue) \ {queue[i]}
    BY <1>1, <1>2, <1>3 DEF IsInjective, ToSet
  <2>3. ASSUME NEW j \in 1 .. Len(queue), j # i
        PROVE  queue[j] \in ToSet(rest)
    <3>1. CASE j < i
      <4>1. j \in 1 .. Len(queue) - 1 /\ rest[j] = queue[j]
        BY <1>1, <1>2, <3>1
      <4> QED
        BY <1>2, <4>1 DEF ToSet
    <3>2. CASE j > i
      <4>1. j - 1 \in 1 .. Len(queue) - 1 /\ rest[j - 1] = queue[j]
        BY <1>1, <1>2, <3>2
      <4> QED
        BY <1>2, <4>1 DEF ToSet
    <3> QED
      BY <1>1, <2>3, <3>1, <3>2
  <2>4. ToSet(queue) \ {queue[i]} \subseteq ToSet(rest)
    BY <1>1, <2>3 DEF ToSet
  <2> QED
    BY <2>1, <2>2, <2>4
<1> QED
  BY <1>2, <1>3 DEF rest

-----------------------------------------------------------------------------
(* The inductive invariant: who is where when the stream is in which state. *)

\* The worker holds a buffer from its first section to its third.
WorkerHolds == buffer # NULL <=> work \in {"fill", "commit", "done", "error"}

\* What each place of the ioctl caller says of what it still has to hand over.
CallerPlaces ==
  /\ ioctl = "enqueue" => handing # <<>>
  /\ ioctl \notin {"enqueue", "notify"} => handing = <<>>
  /\ ioctl = "start" => ~start_streaming_called
  /\ ioctl \in {"stop", "cancel", "flush", "drain"} => start_streaming_called
  /\ ioctl \in {"enqueue", "notify", "start"} \/ start_streaming_called => vb2_streaming

\* What each place of the ioctl caller says of the driver.
StreamPhases ==
  /\ streaming <=> start_streaming_called /\ ioctl \notin {"cancel", "flush", "drain", "release"}
  /\ cancelling <=> ioctl = "flush"
  /\ ioctl = "flush" => ~pending
  /\ ~start_streaming_called \/ ioctl \in {"drain", "release"} => ~pending /\ work = "idle"
  /\ ~start_streaming_called => done_list = <<>>
  /\ ioctl = "release" \/ (~start_streaming_called /\ ioctl = "idle") => queued_buffers = <<>>

\* What is queued, and what of it is on its way to the driver.
QueuedOnce ==
  /\ IsInjective(queued_list)
  /\ \A b \in ToSet(queued_list) : vb_state[b] # "DEQUEUED"
  /\ IsInjective(handing)
  /\ \A b \in ToSet(handing) : vb_state[b] = "QUEUED"

\* The inductive invariant of the stream.
IInv ==
  /\ TypeOK
  /\ OwnedOnce
  /\ WorkerHolds
  /\ CallerPlaces
  /\ StreamPhases
  /\ QueuedOnce

-----------------------------------------------------------------------------
(* Every step keeps the invariant: a lemma for each action.                 *)

\* An opened device has no buffer yet.
LEMMA InitKeeps == Init => IInv
<1> SUFFICES ASSUME Init PROVE IInv
  OBVIOUS
<1>1. TypeOK
  <2>1. 0 \in SequenceNumbers
    BY VideoAssumption DEF SequenceNumbers
  <2>2. vb_state \in [Buffers -> VbStates]
    BY DEF Init, VbStates
  <2>3. vb_sequence \in [Buffers -> SequenceNumbers] /\ image \in [Buffers -> SequenceNumbers]
    BY <2>1 DEF Init
  <2>4. \A queue \in {queued_buffers, queued_list, done_list, handing} : queue \in Seq(Buffers)
    BY EmptyFacts DEF Init
  <2> QED
    BY <2>1, <2>2, <2>3, <2>4 DEF Init, TypeOK, WorkPlaces, IoctlPlaces
<1>2. OwnedOnce
  BY EmptyFacts, VideoAssumption DEF Init, OwnedOnce
<1>3. WorkerHolds /\ CallerPlaces /\ StreamPhases /\ QueuedOnce
  BY EmptyFacts DEF Init, WorkerHolds, CallerPlaces, StreamPhases, QueuedOnce
<1> QED
  BY <1>1, <1>2, <1>3 DEF IInv

USE DEF device, workqueue, worker, vb2, contents, caller

\* The worker starts with no buffer in hand.
LEMMA WorkStartsKeeps == ASSUME IInv, WorkStarts PROVE IInv'
<1>1. TypeOK'
  BY VideoAssumption
     DEF IInv, TypeOK, CallerPlaces, SequenceNumbers, VbStates, WorkPlaces, IoctlPlaces,
         WorkStarts
<1>2. OwnedOnce' /\ QueuedOnce'
  BY VideoAssumption, EmptyFacts
     DEF IInv, TypeOK, OwnedOnce, WorkerHolds, CallerPlaces, StreamPhases, QueuedOnce,
         WorkStarts
<1>3. WorkerHolds' /\ CallerPlaces' /\ StreamPhases'
  BY VideoAssumption DEF IInv, WorkerHolds, CallerPlaces, StreamPhases, WorkStarts
<1> QED
  BY <1>1, <1>2, <1>3 DEF IInv

\* The head of buffer_list moves to the worker (camstream_video_take_buffer).
LEMMA TakeBufferKeeps ==
  ASSUME IInv, TakeBuffer
  PROVE  IInv'
<1>1. queued_buffers # <<>> =>
        /\ Head(queued_buffers) \in Buffers
        /\ Head(queued_buffers) \in ToSet(queued_buffers)
        /\ Tail(queued_buffers) \in Seq(Buffers)
        /\ IsInjective(Tail(queued_buffers))
        /\ ToSet(Tail(queued_buffers)) = ToSet(queued_buffers) \ {Head(queued_buffers)}
  BY TailFacts DEF IInv, TypeOK, OwnedOnce
<1>2. buffer = NULL
  BY DEF IInv, WorkerHolds, TakeBuffer
<1>3. TypeOK'
  BY VideoAssumption, <1>1
     DEF IInv, TypeOK, CallerPlaces, TakeBuffer, SequenceNumbers, VbStates, WorkPlaces,
         IoctlPlaces
<1>4. OwnedOnce'
  <2>1. CASE streaming /\ queued_buffers # <<>>
    <3>1. buffer' = Head(queued_buffers) /\ queued_buffers' = Tail(queued_buffers)
      BY <2>1 DEF TakeBuffer
    <3>2. ToSet(queued_buffers') \cup ({buffer'} \ {NULL}) = ToSet(queued_buffers)
      BY <1>1, <2>1, <3>1, VideoAssumption
    <3> QED
      BY <1>1, <1>2, <2>1, <3>1, <3>2 DEF TakeBuffer, IInv, OwnedOnce
  <2>2. CASE ~(streaming /\ queued_buffers # <<>>)
    BY <2>2 DEF TakeBuffer, IInv, OwnedOnce
  <2> QED
    BY <2>1, <2>2
<1>5. WorkerHolds'
  BY VideoAssumption DEF IInv, TypeOK, WorkerHolds, StreamPhases, TakeBuffer
<1>6. CallerPlaces'
  BY DEF IInv, TypeOK, CallerPlaces, TakeBuffer
<1>7. StreamPhases'
  BY DEF IInv, TypeOK, WorkerHolds, CallerPlaces, StreamPhases, TakeBuffer
<1>8. QueuedOnce'
  BY DEF IInv, TypeOK, OwnedOnce, WorkerHolds, CallerPlaces, StreamPhases, QueuedOnce,
         TakeBuffer
<1> QED
  BY <1>3, <1>4, <1>5, <1>6, <1>7, <1>8 DEF IInv

\* The worker fills the buffer it holds, which nobody else owns.
LEMMA FillKeeps == ASSUME IInv, Fill PROVE IInv'
<1>1. TypeOK'
  BY VideoAssumption
     DEF IInv, TypeOK, CallerPlaces, SequenceNumbers, VbStates, WorkPlaces, IoctlPlaces,
         Fill
<1>2. OwnedOnce' /\ QueuedOnce'
  BY VideoAssumption, EmptyFacts
     DEF IInv, TypeOK, OwnedOnce, WorkerHolds, CallerPlaces, StreamPhases, QueuedOnce,
         Fill
<1>3. WorkerHolds' /\ CallerPlaces' /\ StreamPhases'
  BY VideoAssumption DEF IInv, WorkerHolds, CallerPlaces, StreamPhases, Fill
<1> QED
  BY <1>1, <1>2, <1>3 DEF IInv

\* The number is taken; no buffer moves.
LEMMA CommitFrameKeeps == ASSUME IInv, CommitFrame PROVE IInv'
  BY VideoAssumption
     DEF IInv, TypeOK, OwnedOnce, WorkerHolds, CallerPlaces, StreamPhases, QueuedOnce,
         SequenceNumbers, WorkPlaces, IoctlPlaces, CommitFrame, NextSequence

\* The buffer goes from the worker to the done list.
LEMMA CompleteKeeps ==
  ASSUME IInv, Complete
  PROVE  IInv'
<1>1. buffer \in Buffers /\ vb_state[buffer] = "ACTIVE" /\ buffer \notin ToSet(done_list)
  BY VideoAssumption DEF IInv, TypeOK, OwnedOnce, WorkerHolds, Complete
<1>2. /\ done_list' \in Seq(Buffers)
      /\ ToSet(done_list') = ToSet(done_list) \cup {buffer}
      /\ IsInjective(done_list')
  <2>1. /\ done_list \in Seq(Buffers) /\ IsInjective(done_list)
        /\ done_list' = Append(done_list, buffer)
    BY DEF IInv, TypeOK, OwnedOnce, Complete, BufferDone
  <2> QED
    BY <1>1, <2>1, AppendFacts
<1>3. vb_state' = [vb_state EXCEPT ![buffer] = IF work = "done" THEN "DONE" ELSE "ERROR"]
  BY DEF Complete, BufferDone
<1>4. TypeOK'
  <2>1. vb_sequence' \in [Buffers -> SequenceNumbers]
    BY <1>1 DEF IInv, TypeOK, Complete
  <2>2. vb_state' \in [Buffers -> VbStates]
    BY <1>1, <1>3 DEF IInv, TypeOK, VbStates
  <2> QED
    BY <1>2, <2>1, <2>2 DEF IInv, TypeOK, Complete, WorkPlaces
<1>5. OwnedOnce'
  BY VideoAssumption, <1>1, <1>2, <1>3
     DEF IInv, TypeOK, OwnedOnce, WorkerHolds, CallerPlaces, StreamPhases, QueuedOnce, Complete,
         BufferDone
<1>6. WorkerHolds'
  BY VideoAssumption DEF IInv, TypeOK, WorkerHolds, StreamPhases, Complete, BufferDone
<1>7. CallerPlaces'
  BY DEF IInv, TypeOK, CallerPlaces, Complete, BufferDone
<1>8. StreamPhases'
  BY DEF IInv, TypeOK, WorkerHolds, CallerPlaces, StreamPhases, Complete, BufferDone
<1>9. QueuedOnce'
  BY <1>1, <1>2, <1>3
     DEF IInv, TypeOK, OwnedOnce, WorkerHolds, CallerPlaces, StreamPhases, QueuedOnce, Complete,
         BufferDone
<1> QED
  BY <1>4, <1>5, <1>6, <1>7, <1>8, <1>9 DEF IInv

\* The worker sets its timer and lets go.
LEMMA RearmProducerKeeps == ASSUME IInv, RearmProducer PROVE IInv'
  BY VideoAssumption
     DEF IInv, TypeOK, OwnedOnce, WorkerHolds, CallerPlaces, StreamPhases, QueuedOnce,
         SequenceNumbers, WorkPlaces, IoctlPlaces, RearmProducer, ScheduleNext

\* A dequeued buffer joins queued_list, and is handed over when streaming.
LEMMA QBufKeeps ==
  ASSUME NEW b \in Buffers, IInv, QBuf(b)
  PROVE  IInv'
<1>1. b \notin ToSet(queued_list)
  BY DEF IInv, QueuedOnce, QBuf
<1>2. /\ queued_list' \in Seq(Buffers)
      /\ ToSet(queued_list') = ToSet(queued_list) \cup {b}
      /\ IsInjective(queued_list')
  BY <1>1, AppendFacts DEF IInv, TypeOK, QueuedOnce, QBuf
<1>3. <<b>> # <<>> /\ <<b>> \in Seq(Buffers) /\ ToSet(<<b>>) = {b} /\ IsInjective(<<b>>)
  BY SingletonFacts
<1>4. handing = <<>>
  BY DEF IInv, CallerPlaces, QBuf
<1>5. IF vb2_streaming
      THEN /\ handing' # <<>> /\ handing' \in Seq(Buffers)
           /\ ToSet(handing') = {b} /\ IsInjective(handing')
           /\ ioctl' = "enqueue"
      ELSE handing' = handing /\ ioctl' = "idle"
  BY <1>3 DEF QBuf, Goto
<1>6. /\ vb_state[b] = "DEQUEUED"
      /\ vb_state' = [vb_state EXCEPT ![b] = "QUEUED"]
      /\ UNCHANGED <<device, workqueue, worker, done_list, vb2_streaming,
                     start_streaming_called, contents>>
      /\ ioctl = "idle"
  BY DEF QBuf
<1>7. TypeOK'
  BY <1>2, <1>4, <1>5, <1>6 DEF IInv, TypeOK, VbStates, IoctlPlaces
<1>8. OwnedOnce'
  BY VideoAssumption, <1>6 DEF IInv, TypeOK, OwnedOnce
<1>9. WorkerHolds'
  BY <1>6 DEF IInv, WorkerHolds
<1>10. CallerPlaces'
  BY <1>4, <1>5, <1>6 DEF IInv, CallerPlaces
<1>11. StreamPhases'
  BY <1>5, <1>6 DEF IInv, StreamPhases
<1>12. QueuedOnce'
  <2>1. \A c \in ToSet(queued_list') : vb_state'[c] # "DEQUEUED"
    BY <1>2, <1>6 DEF IInv, TypeOK, QueuedOnce
  <2>2. IsInjective(handing') /\ \A c \in ToSet(handing') : vb_state'[c] = "QUEUED"
    BY <1>4, <1>5, <1>6, EmptyFacts DEF IInv, TypeOK
  <2> QED
    BY <1>2, <2>1, <2>2 DEF QueuedOnce
<1> QED
  BY <1>7, <1>8, <1>9, <1>10, <1>11, <1>12 DEF IInv

\* STREAMON hands all of queued_list over; nothing is active or done before it.
LEMMA StreamOnKeeps ==
  ASSUME IInv, StreamOn
  PROVE  IInv'
<1>1. \A b \in ToSet(queued_list) : vb_state[b] = "QUEUED"
  <2>1. done_list = <<>> /\ queued_buffers = <<>> /\ buffer = NULL
    BY DEF IInv, CallerPlaces, StreamPhases, WorkerHolds, StreamOn
  <2>2. \A b \in Buffers : vb_state[b] \in {"DEQUEUED", "QUEUED"}
    BY <2>1, EmptyFacts DEF IInv, TypeOK, OwnedOnce, VbStates
  <2>3. ToSet(queued_list) \subseteq Buffers
    BY DEF IInv, TypeOK, ToSet
  <2> QED
    BY <2>2, <2>3 DEF IInv, QueuedOnce
<1>2. ioctl' = IF queued_list = <<>> THEN "idle" ELSE "enqueue"
  BY DEF StreamOn, Goto
<1>3. TypeOK'
  BY VideoAssumption, <1>2
     DEF IInv, TypeOK, CallerPlaces, StreamOn, Goto, SequenceNumbers, VbStates, WorkPlaces,
         IoctlPlaces
<1>4. OwnedOnce'
  BY VideoAssumption
     DEF IInv, TypeOK, OwnedOnce, WorkerHolds, CallerPlaces, StreamPhases, QueuedOnce, StreamOn,
         Goto
<1>5. WorkerHolds'
  BY VideoAssumption DEF IInv, TypeOK, WorkerHolds, StreamPhases, StreamOn, Goto
<1>6. CallerPlaces'
  BY DEF IInv, TypeOK, CallerPlaces, StreamOn, Goto
<1>7. StreamPhases'
  BY DEF IInv, TypeOK, WorkerHolds, CallerPlaces, StreamPhases, StreamOn, Goto
<1>8. QueuedOnce'
  BY <1>1, EmptyFacts
     DEF IInv, TypeOK, OwnedOnce, WorkerHolds, CallerPlaces, StreamPhases, QueuedOnce, StreamOn,
         Goto
<1> QED
  BY <1>3, <1>4, <1>5, <1>6, <1>7, <1>8 DEF IInv

\* A handed-over buffer joins buffer_list (buf_queue).
LEMMA BufQueueKeeps ==
  ASSUME IInv, BufQueue
  PROVE  IInv'
<1> DEFINE b == Head(handing)
<1>1. /\ b \in Buffers /\ vb_state[b] = "QUEUED"
      /\ Tail(handing) \in Seq(Buffers)
      /\ IsInjective(Tail(handing))
      /\ ToSet(Tail(handing)) = ToSet(handing) \ {b}
  <2>1. handing # <<>> /\ handing \in Seq(Buffers) /\ IsInjective(handing)
    BY DEF IInv, TypeOK, CallerPlaces, QueuedOnce, BufQueue
  <2> QED
    BY <2>1, TailFacts DEF IInv, QueuedOnce
<1>2. b \notin ToSet(queued_buffers) /\ b # buffer
  BY <1>1, VideoAssumption DEF IInv, TypeOK, OwnedOnce
<1>3. /\ Append(queued_buffers, b) \in Seq(Buffers)
      /\ ToSet(Append(queued_buffers, b)) = ToSet(queued_buffers) \cup {b}
      /\ IsInjective(Append(queued_buffers, b))
  BY <1>1, <1>2, AppendFacts DEF IInv, TypeOK, OwnedOnce
<1>4. /\ vb_state' = [vb_state EXCEPT ![b] = "ACTIVE"]
      /\ queued_buffers' = Append(queued_buffers, b)
      /\ handing' = Tail(handing)
      /\ ioctl' = "notify"
  BY DEF BufQueue, Goto
<1> HIDE DEF b
<1>5. TypeOK'
  BY VideoAssumption, <1>1, <1>2, <1>3, <1>4
     DEF IInv, TypeOK, CallerPlaces, BufQueue, Goto, SequenceNumbers, VbStates, WorkPlaces,
         IoctlPlaces
<1>6. OwnedOnce'
  BY VideoAssumption, <1>1, <1>2, <1>3, <1>4
     DEF IInv, TypeOK, OwnedOnce, WorkerHolds, CallerPlaces, StreamPhases, QueuedOnce, BufQueue,
         Goto
<1>7. WorkerHolds'
  BY VideoAssumption DEF IInv, TypeOK, WorkerHolds, StreamPhases, BufQueue, Goto
<1>8. CallerPlaces'
  BY DEF IInv, TypeOK, CallerPlaces, BufQueue, Goto
<1>9. StreamPhases'
  BY DEF IInv, TypeOK, WorkerHolds, CallerPlaces, StreamPhases, BufQueue, Goto
<1>10. QueuedOnce'
  BY <1>1, <1>2, <1>3, <1>4
     DEF IInv, TypeOK, OwnedOnce, WorkerHolds, CallerPlaces, StreamPhases, QueuedOnce, BufQueue,
         Goto
<1> QED
  BY <1>5, <1>6, <1>7, <1>8, <1>9, <1>10 DEF IInv

\* The producer is told of the buffer; no list changes.
LEMMA NotifyBufferKeeps == ASSUME IInv, NotifyBuffer PROVE IInv'
  BY VideoAssumption
     DEF IInv, TypeOK, OwnedOnce, WorkerHolds, CallerPlaces, StreamPhases, QueuedOnce,
         SequenceNumbers, WorkPlaces, IoctlPlaces, NotifyBuffer, Goto, ScheduleNext, AfterHanding

\* start_streaming sets the flag and the first timer.
LEMMA FrameStartKeeps == ASSUME IInv, FrameStart PROVE IInv'
  BY VideoAssumption
     DEF IInv, TypeOK, OwnedOnce, WorkerHolds, CallerPlaces, StreamPhases, QueuedOnce,
         SequenceNumbers, WorkPlaces, IoctlPlaces, FrameStart, Goto, ScheduleNext

\* The oldest done buffer goes back to the application.
LEMMA DQBufKeeps ==
  ASSUME IInv, DQBuf
  PROVE  IInv'
<1> DEFINE b == Head(done_list)
<1>1. /\ b \in Buffers /\ b \in ToSet(done_list)
      /\ done_list' \in Seq(Buffers)
      /\ ToSet(done_list') = ToSet(done_list) \ {b}
      /\ IsInjective(done_list')
  BY TailFacts DEF IInv, TypeOK, OwnedOnce, DQBuf
<1>2. vb_state[b] \in {"DONE", "ERROR"}
  BY <1>1 DEF IInv, OwnedOnce
<1>3. PICK i \in DOMAIN queued_list :
        queued_list[i] = b /\ queued_list' = RemoveAt(queued_list, i)
  BY DEF DQBuf
<1>4. /\ queued_list' \in Seq(Buffers)
      /\ ToSet(queued_list') = ToSet(queued_list) \ {b}
      /\ IsInjective(queued_list')
  BY <1>3, RemoveAtFacts DEF IInv, TypeOK, QueuedOnce
<1>5. vb_state' = [vb_state EXCEPT ![b] = "DEQUEUED"]
  BY DEF DQBuf
<1> HIDE DEF b
<1>6. TypeOK'
  BY VideoAssumption, <1>1, <1>4, <1>5
     DEF IInv, TypeOK, CallerPlaces, DQBuf, SequenceNumbers, VbStates, WorkPlaces, IoctlPlaces
<1>7. OwnedOnce'
  BY VideoAssumption, <1>1, <1>2, <1>5
     DEF IInv, TypeOK, OwnedOnce, WorkerHolds, CallerPlaces, StreamPhases, QueuedOnce, DQBuf
<1>8. WorkerHolds'
  BY VideoAssumption DEF IInv, TypeOK, WorkerHolds, StreamPhases, DQBuf
<1>9. CallerPlaces'
  BY DEF IInv, TypeOK, CallerPlaces, DQBuf
<1>10. StreamPhases'
  BY DEF IInv, TypeOK, WorkerHolds, CallerPlaces, StreamPhases, DQBuf
<1>11. QueuedOnce'
  BY <1>1, <1>2, <1>4, <1>5
     DEF IInv, TypeOK, OwnedOnce, WorkerHolds, CallerPlaces, StreamPhases, QueuedOnce, DQBuf
<1> QED
  BY <1>6, <1>7, <1>8, <1>9, <1>10, <1>11 DEF IInv

\* STREAMOFF begins; nothing is handed over during it.
LEMMA StreamOffKeeps == ASSUME IInv, StreamOff PROVE IInv'
  BY VideoAssumption
     DEF IInv, TypeOK, OwnedOnce, WorkerHolds, CallerPlaces, StreamPhases, QueuedOnce,
         SequenceNumbers, WorkPlaces, IoctlPlaces, StreamOff, Goto

\* stop_streaming clears the flag; the worker may still hold a buffer.
LEMMA FrameStopKeeps == ASSUME IInv, FrameStop PROVE IInv'
<1>1. TypeOK'
  BY VideoAssumption
     DEF IInv, TypeOK, CallerPlaces, SequenceNumbers, VbStates, WorkPlaces, IoctlPlaces,
         FrameStop, Goto
<1>2. OwnedOnce' /\ QueuedOnce'
  BY VideoAssumption, EmptyFacts
     DEF IInv, TypeOK, OwnedOnce, WorkerHolds, CallerPlaces, StreamPhases, QueuedOnce,
         FrameStop, Goto
<1>3. WorkerHolds' /\ CallerPlaces' /\ StreamPhases'
  BY VideoAssumption DEF IInv, WorkerHolds, CallerPlaces, StreamPhases, FrameStop, Goto
<1> QED
  BY <1>1, <1>2, <1>3 DEF IInv

\* A pending timer goes; a running worker is waited for.
LEMMA CancelWorkKeeps == ASSUME IInv, CancelWork PROVE IInv'
<1>1. TypeOK'
  BY VideoAssumption
     DEF IInv, TypeOK, CallerPlaces, SequenceNumbers, VbStates, WorkPlaces, IoctlPlaces,
         CancelWork, Goto
<1>2. OwnedOnce' /\ QueuedOnce'
  BY VideoAssumption, EmptyFacts
     DEF IInv, TypeOK, OwnedOnce, WorkerHolds, CallerPlaces, StreamPhases, QueuedOnce,
         CancelWork, Goto
<1>3. WorkerHolds' /\ CallerPlaces' /\ StreamPhases'
  BY VideoAssumption DEF IInv, WorkerHolds, CallerPlaces, StreamPhases, CancelWork, Goto
<1> QED
  BY <1>1, <1>2, <1>3 DEF IInv

\* The wait is over when the worker is idle.
LEMMA FlushWorkKeeps == ASSUME IInv, FlushWork PROVE IInv'
<1>1. TypeOK'
  BY VideoAssumption
     DEF IInv, TypeOK, CallerPlaces, SequenceNumbers, VbStates, WorkPlaces, IoctlPlaces,
         FlushWork, Goto, WorkDrained
<1>2. OwnedOnce' /\ QueuedOnce'
  BY VideoAssumption, EmptyFacts
     DEF IInv, TypeOK, OwnedOnce, WorkerHolds, CallerPlaces, StreamPhases, QueuedOnce,
         FlushWork, Goto, WorkDrained
<1>3. WorkerHolds' /\ CallerPlaces' /\ StreamPhases'
  BY VideoAssumption
     DEF IInv, WorkerHolds, CallerPlaces, StreamPhases, FlushWork, Goto, WorkDrained
<1> QED
  BY <1>1, <1>2, <1>3 DEF IInv

\* What is left on buffer_list is done with, as errors.
LEMMA StopStreamingKeeps ==
  ASSUME IInv, StopStreaming
  PROVE  IInv'
<1> DEFINE b == Head(queued_buffers)
<1>1. ASSUME queued_buffers # <<>>
      PROVE  /\ b \in ToSet(queued_buffers)
             /\ b \in Buffers
             /\ vb_state[b] = "ACTIVE"
             /\ b \notin ToSet(done_list)
             /\ queued_buffers' \in Seq(Buffers)
             /\ ToSet(queued_buffers') = ToSet(queued_buffers) \ {b}
             /\ IsInjective(queued_buffers')
             /\ vb_state' = [vb_state EXCEPT ![b] = "ERROR"]
             /\ done_list' = Append(done_list, b)
             /\ ioctl' = ioctl
  <2>1. /\ b \in ToSet(queued_buffers)
        /\ b \in Buffers
        /\ queued_buffers' \in Seq(Buffers)
        /\ ToSet(queued_buffers') = ToSet(queued_buffers) \ {b}
        /\ IsInjective(queued_buffers')
    <3>1. /\ queued_buffers \in Seq(Buffers) /\ IsInjective(queued_buffers)
          /\ queued_buffers' = Tail(queued_buffers)
      BY <1>1 DEF IInv, TypeOK, OwnedOnce, StopStreaming
    <3> QED
      BY <1>1, <3>1, TailFacts
  <2> QED
    BY <1>1, <2>1 DEF IInv, OwnedOnce, StopStreaming, BufferDone
<1> HIDE DEF b
<1>2. ASSUME queued_buffers # <<>>
      PROVE  /\ done_list' \in Seq(Buffers)
             /\ ToSet(done_list') = ToSet(done_list) \cup {b}
             /\ IsInjective(done_list')
  <2>1. done_list \in Seq(Buffers) /\ IsInjective(done_list)
    BY DEF IInv, TypeOK, OwnedOnce
  <2> QED
    <3>1. done_list' = Append(done_list, b) /\ b \in Buffers /\ b \notin ToSet(done_list)
      BY <1>1, <1>2
    <3> QED
      BY <2>1, <3>1, AppendFacts
<1>3. buffer = NULL
  BY DEF IInv, WorkerHolds, StreamPhases, StopStreaming
<1>4. CASE queued_buffers = <<>>
  <2>1. UNCHANGED <<queued_buffers, vb_state, done_list>> /\ ioctl' = "release"
    BY <1>4 DEF StopStreaming, Goto
  <2> QED
    BY <1>4, <2>1
       DEF StopStreaming, IInv, TypeOK, OwnedOnce, WorkerHolds, CallerPlaces, StreamPhases,
           QueuedOnce, IoctlPlaces
<1>5. CASE queued_buffers # <<>>
  <2>1. TypeOK'
    BY VideoAssumption, <1>1, <1>2, <1>3, <1>5
       DEF IInv, TypeOK, CallerPlaces, StopStreaming, Goto, BufferDone, SequenceNumbers,
           VbStates, WorkPlaces, IoctlPlaces
  <2>2. OwnedOnce'
    BY VideoAssumption, <1>1, <1>2, <1>3, <1>5
       DEF IInv, TypeOK, OwnedOnce, WorkerHolds, CallerPlaces, StreamPhases, QueuedOnce,
           StopStreaming, Goto, BufferDone
  <2>3. WorkerHolds'
    BY VideoAssumption, <1>1, <1>5
       DEF IInv, TypeOK, WorkerHolds, StreamPhases, StopStreaming, Goto, BufferDone
  <2>4. CallerPlaces'
    BY <1>1, <1>5 DEF IInv, TypeOK, CallerPlaces, StopStreaming, Goto, BufferDone
  <2>5. StreamPhases'
    BY <1>1, <1>5
       DEF IInv, TypeOK, WorkerHolds, CallerPlaces, StreamPhases, StopStreaming, Goto,
           BufferDone
  <2>6. QueuedOnce'
    <3>1. UNCHANGED <<queued_list, handing>>
      BY DEF StopStreaming
    <3>2. ToSet(queued_list) \subseteq Buffers /\ ToSet(handing) \subseteq Buffers
      BY DEF IInv, TypeOK, ToSet
    <3> QED
      BY <1>1, <1>5, <3>1, <3>2 DEF IInv, TypeOK, QueuedOnce
  <2> QED
    BY <2>1, <2>2, <2>3, <2>4, <2>5, <2>6 DEF IInv
<1> QED
  BY <1>4, <1>5

\* VB2's cancel gives every buffer back to the application.
LEMMA QueueCancelKeeps == ASSUME IInv, QueueCancel PROVE IInv'
<1>1. TypeOK'
  BY VideoAssumption
     DEF IInv, TypeOK, CallerPlaces, SequenceNumbers, VbStates, WorkPlaces, IoctlPlaces,
         QueueCancel, Goto
<1>2. OwnedOnce' /\ QueuedOnce'
  BY VideoAssumption, EmptyFacts
     DEF IInv, TypeOK, OwnedOnce, WorkerHolds, CallerPlaces, StreamPhases, QueuedOnce,
         QueueCancel, Goto
<1>3. WorkerHolds' /\ CallerPlaces' /\ StreamPhases'
  BY VideoAssumption DEF IInv, WorkerHolds, CallerPlaces, StreamPhases, QueueCancel, Goto
<1> QED
  BY <1>1, <1>2, <1>3 DEF IInv

-----------------------------------------------------------------------------
\* Every step, and a step of none.
LEMMA StepsKeep == ASSUME IInv, [Next]_vars PROVE IInv'
<1>1. CASE WorkStarts \/ FrameWork
  BY <1>1, WorkStartsKeeps, TakeBufferKeeps, FillKeeps, CommitFrameKeeps, CompleteKeeps,
     RearmProducerKeeps DEF FrameWork, Produce
<1>2. CASE InIoctl
  BY <1>2, BufQueueKeeps, NotifyBufferKeeps, FrameStartKeeps, FrameStopKeeps, CancelWorkKeeps,
     FlushWorkKeeps, StopStreamingKeeps, QueueCancelKeeps DEF InIoctl, HandOverOrStop
<1>3. CASE Calls
  BY <1>3, QBufKeeps, DQBufKeeps, StreamOnKeeps, StreamOffKeeps DEF Calls
<1>4. CASE UNCHANGED vars
  BY <1>4
     DEF vars, IInv, TypeOK, OwnedOnce, WorkerHolds, CallerPlaces, StreamPhases, QueuedOnce
<1> QED
  BY <1>1, <1>2, <1>3, <1>4 DEF Next

\* The invariant holds of the driver and its two threads from the first call on.
THEOREM Inductive == Spec => []IInv
<1>1. IInv /\ [Next]_vars => IInv'
  BY StepsKeep
<1> QED
  BY <1>1, InitKeeps, PTL DEF Spec

\* The types of the driver's, VB2's and the two threads' state: every buffer that
\* is handed on or completed is one that was allocated.
THEOREM TypeCorrect == Spec => []TypeOK
<1>1. IInv => TypeOK
  BY DEF IInv
<1> QED
  BY <1>1, Inductive, PTL

\* However the worker and the ioctls interleave, a buffer is in one place only: on
\* the driver's list, in the worker's hand, or completed (buf_queue, take_buffer,
\* stop_streaming).
THEOREM EachOwnedOnce == Spec => []OwnedOnce
<1>1. IInv => OwnedOnce
  BY DEF IInv
<1> QED
  BY <1>1, Inductive, PTL

\* When STREAMOFF returns no work is pending or running, and the driver holds no
\* buffer (camstream_frame_stop, stop_streaming).
THEOREM QuietAfterStreamOff == Spec => []QuietWhenStopped
<1>1. IInv => QuietWhenStopped
  BY DEF IInv, StreamPhases, QuietWhenStopped
<1> QED
  BY <1>1, Inductive, PTL

\* The worker, which fills outside the lock, never writes into a buffer that is
\* complete or with the application (camstream_frame_work).
THEOREM ImagesAreStable == Spec => ImagesStable
<1>1. IInv /\ [Next]_vars =>
        [\A b \in Buffers : vb_state[b] # "ACTIVE" => image'[b] = image[b]]_vars
  <2> SUFFICES ASSUME IInv, Next, NEW b \in Buffers, vb_state[b] # "ACTIVE"
               PROVE  image'[b] = image[b]
    OBVIOUS
  <2>1. CASE Fill
    <3>1. buffer \in Buffers /\ vb_state[buffer] = "ACTIVE"
      BY <2>1, VideoAssumption DEF Fill, IInv, TypeOK, OwnedOnce, WorkerHolds
    <3> QED
      BY <2>1, <3>1 DEF Fill, IInv, TypeOK
  <2>2. CASE ~Fill
    BY <2>2
       DEF Next, FrameWork, Produce, InIoctl, HandOverOrStop, Calls, WorkStarts, TakeBuffer,
           CommitFrame, Complete, RearmProducer, QBuf, StreamOn, BufQueue, NotifyBuffer,
           FrameStart, DQBuf, StreamOff, FrameStop, CancelWork, FlushWork, StopStreaming,
           QueueCancel
  <2> QED
    BY <2>1, <2>2
<1> QED
  BY <1>1, Inductive, PTL DEF Spec, ImagesStable

-----------------------------------------------------------------------------
(* To the application the stream is a VideoQueue                            *)

\* The buffer in the worker's hand.
InHand == IF buffer = NULL THEN <<>> ELSE <<buffer>>

\* Once the stream is on, VB2's list is what has come back, what the worker has,
\* what the driver has and what it is still given, in this order.
InOrder == vb2_streaming => queued_list = done_list \o (InHand \o (queued_buffers \o handing))

\* The frame in the worker's hand is numbered and filled for its number.
Numbered ==
  /\ work \in {"commit", "done"} => image[buffer] = taken
  /\ work = "done" => sequence = (taken + 1) % SequenceModulus

\* What the refinement of VideoQueue needs beside IInv.
OrderInv == InOrder /\ Numbered

\* What a completed buffer shows, and a list of them.
Display(b, states, numbers, images) ==
  IF states[b] = "DONE"
  THEN [ok |-> TRUE, sequence |-> numbers[b], image |-> images[b]]
  ELSE [ok |-> FALSE, sequence |-> 0, image |-> 0]

\* What a list of done buffers shows the application, oldest first.
DisplayAll(list, states, numbers, images) ==
  [i \in DOMAIN list |-> Display(list[i], states, numbers, images)]

\* What a buffer that comes back can show.
Displays == [ok : BOOLEAN, sequence : Nat, image : Nat]

\* A number for every buffer: of its frame, or of the pattern in its plane.
Numberings == [Buffers -> SequenceNumbers]

\* The refinement mapping shows the list that DQBUF takes from, now and in the next
\* state (vb2_buffer_done).
LEMMA ShownIs ==
  /\ Shown = DisplayAll(done_list, vb_state, vb_sequence, image)
  /\ Shown' = DisplayAll(done_list', vb_state', vb_sequence', image')
  BY DEF Shown, DisplayAll, Display

\* Whatever its state a buffer shows a number and a pattern, or a failure.
LEMMA DisplayIs ==
  ASSUME NEW b \in Buffers, NEW states, NEW numbers \in Numberings, NEW images \in Numberings
  PROVE  Display(b, states, numbers, images) \in Displays
<1>1. SequenceNumbers \subseteq Nat
  BY VideoAssumption DEF SequenceNumbers
<1> QED
  BY <1>1 DEF Numberings, Display, Displays

\* A list of buffers is shown buffer by buffer.
LEMMA DisplayFacts ==
  ASSUME NEW list \in Seq(Buffers), NEW states,
         NEW numbers \in Numberings, NEW images \in Numberings
  PROVE  /\ DisplayAll(list, states, numbers, images) \in Seq(Displays)
         /\ Len(DisplayAll(list, states, numbers, images)) = Len(list)
         /\ \A i \in 1 .. Len(list) :
              DisplayAll(list, states, numbers, images)[i]
                = Display(list[i], states, numbers, images)
<1>2. \A b \in Buffers : Display(b, states, numbers, images) \in Displays
  BY DisplayIs
<1>3. Len(list) \in Nat /\ DOMAIN list = 1 .. Len(list)
      /\ \A i \in 1 .. Len(list) : list[i] \in Buffers
  OBVIOUS
<1> DEFINE shown == [i \in 1 .. Len(list) |-> Display(list[i], states, numbers, images)]
<1>4. DisplayAll(list, states, numbers, images) = shown
  BY <1>3 DEF DisplayAll
<1> HIDE DEF Displays
<1>5. shown \in [1 .. Len(list) -> Displays]
  BY <1>2, <1>3
<1>6. /\ shown \in Seq(Displays) /\ Len(shown) = Len(list)
      /\ \A i \in 1 .. Len(list) : shown[i] = Display(list[i], states, numbers, images)
  BY <1>3, <1>5
<1> QED
  BY <1>4, <1>6

\* An empty list shows nothing.
LEMMA NothingDisplayed ==
  ASSUME NEW states, NEW numbers, NEW images
  PROVE  DisplayAll(<<>>, states, numbers, images) = <<>>
  BY DEF DisplayAll

\* A list shows the same while none of its buffers shows something else.
LEMMA DisplaySame ==
  ASSUME NEW list \in Seq(Buffers),
         NEW states, NEW numbers \in Numberings, NEW images \in Numberings,
         NEW states2, NEW numbers2 \in Numberings, NEW images2 \in Numberings,
         \A b \in ToSet(list) :
           Display(b, states, numbers, images) = Display(b, states2, numbers2, images2)
  PROVE  DisplayAll(list, states2, numbers2, images2) = DisplayAll(list, states, numbers, images)
<1>1. \A i \in 1 .. Len(list) : list[i] \in ToSet(list)
  BY DEF ToSet
<1> QED
  BY <1>1, DisplayFacts, SeqEqual

\* A buffer completed is shown behind the others (vb2_buffer_done).
LEMMA DisplayOneMore ==
  ASSUME NEW list \in Seq(Buffers), NEW b \in Buffers, NEW states,
         NEW numbers \in Numberings, NEW images \in Numberings
  PROVE  DisplayAll(Append(list, b), states, numbers, images)
           = Append(DisplayAll(list, states, numbers, images), Display(b, states, numbers, images))
<1> DEFINE show(queue) == DisplayAll(queue, states, numbers, images)
           last == Display(b, states, numbers, images)
<1>1. /\ Append(list, b) \in Seq(Buffers) /\ Len(Append(list, b)) = Len(list) + 1
      /\ \A i \in 1 .. Len(list) : Append(list, b)[i] = list[i]
      /\ Append(list, b)[Len(list) + 1] = b /\ Len(list) \in Nat
  BY AppendProperties
<1> DEFINE longer == Append(list, b)
<1> HIDE DEF longer
<1>2. /\ show(list) \in Seq(Displays) /\ Len(show(list)) = Len(list)
      /\ \A i \in 1 .. Len(list) : show(list)[i] = Display(list[i], states, numbers, images)
  BY DisplayFacts
<1>3. /\ show(longer) \in Seq(Displays)
      /\ Len(show(longer)) = Len(list) + 1
      /\ \A i \in 1 .. Len(list) + 1 :
           show(longer)[i] = Display(longer[i], states, numbers, images)
  <2>1. longer \in Seq(Buffers) /\ Len(longer) = Len(list) + 1
    BY <1>1 DEF longer
  <2> QED
    BY <2>1, DisplayFacts
<1>4. last \in Displays
  BY DisplayIs
<1> HIDE DEF show, last
<1>5. /\ Append(show(list), last) \in Seq(Displays)
      /\ Len(Append(show(list), last)) = Len(list) + 1
      /\ \A i \in 1 .. Len(list) : Append(show(list), last)[i] = show(list)[i]
      /\ Append(show(list), last)[Len(list) + 1] = last
  BY <1>2, <1>4, AppendProperties
<1>6. \A i \in 1 .. Len(list) + 1 : show(longer)[i] = Append(show(list), last)[i]
  BY <1>1, <1>2, <1>3, <1>5 DEF last, longer
<1>7. show(longer) = Append(show(list), last)
  BY <1>3, <1>5, <1>6, SeqEqual
<1> QED
  BY <1>7 DEF show, last, longer

\* A buffer dequeued is no longer shown, the others are (DQBUF).
LEMMA DisplayOneLess ==
  ASSUME NEW list \in Seq(Buffers), list # <<>>, NEW states,
         NEW numbers \in Numberings, NEW images \in Numberings
  PROVE  DisplayAll(Tail(list), states, numbers, images)
           = Tail(DisplayAll(list, states, numbers, images))
<1> DEFINE show(queue) == DisplayAll(queue, states, numbers, images)
<1>1. /\ Tail(list) \in Seq(Buffers) /\ Len(Tail(list)) = Len(list) - 1
      /\ \A i \in 1 .. Len(list) - 1 : Tail(list)[i] = list[i + 1]
      /\ Len(list) \in Nat \ {0}
  BY HeadTailProperties, EmptySeq
<1> DEFINE rest == Tail(list)
<1> HIDE DEF rest
<1>2. /\ show(list) \in Seq(Displays) /\ Len(show(list)) = Len(list)
      /\ \A i \in 1 .. Len(list) : show(list)[i] = Display(list[i], states, numbers, images)
  BY DisplayFacts
<1>3. /\ show(rest) \in Seq(Displays)
      /\ Len(show(rest)) = Len(list) - 1
      /\ \A i \in 1 .. Len(list) - 1 :
           show(rest)[i] = Display(rest[i], states, numbers, images)
  <2>1. rest \in Seq(Buffers) /\ Len(rest) = Len(list) - 1
    BY <1>1 DEF rest
  <2> QED
    BY <2>1, DisplayFacts
<1> HIDE DEF show
<1>4. show(list) # <<>>
  <2>1. Len(<<>>) = 0
    OBVIOUS
  <2>2. Len(show(list)) # 0
    BY <1>1, <1>2
  <2> QED
    BY <2>1, <2>2, Zenon
<1>5. /\ Tail(show(list)) \in Seq(Displays) /\ Len(Tail(show(list))) = Len(list) - 1
      /\ \A i \in 1 .. Len(list) - 1 : Tail(show(list))[i] = show(list)[i + 1]
  BY <1>2, <1>4, HeadTailProperties
<1>6. \A i \in 1 .. Len(list) - 1 : show(rest)[i] = Tail(show(list))[i]
  BY <1>1, <1>2, <1>3, <1>5 DEF rest
<1>7. show(rest) = Tail(show(list))
  BY <1>3, <1>5, <1>6, SeqEqual
<1> QED
  BY <1>7 DEF show, rest

-----------------------------------------------------------------------------
\* Moving the head of one queue to the end of the one before it.
LEMMA HeadMoves ==
  ASSUME NEW S, NEW first \in Seq(S), NEW second \in Seq(S), second # <<>>
  PROVE  first \o second = Append(first, Head(second)) \o Tail(second)
<1>1. /\ Head(second) \in S /\ Tail(second) \in Seq(S)
  BY HeadTailProperties
<1>2. second = <<Head(second)>> \o Tail(second)
  OBVIOUS
<1>3. Append(first, Head(second)) = first \o <<Head(second)>> /\ <<Head(second)>> \in Seq(S)
  BY <1>1, AppendIsConcat
<1> QED
  BY <1>1, <1>2, <1>3, ConcatAssociative

\* Appending to the second of two queues appends to the two together.
LEMMA LastAppended ==
  ASSUME NEW S, NEW first \in Seq(S), NEW second \in Seq(S), NEW e \in S
  PROVE  first \o Append(second, e) = Append(first \o second, e)
<1>1. /\ Append(second, e) = second \o <<e>> /\ <<e>> \in Seq(S) /\ first \o second \in Seq(S)
  BY AppendIsConcat, ConcatProperties
<1> QED
  BY <1>1, AppendIsConcat, ConcatAssociative

\* The head of two queues is that of the first.
LEMMA HeadGone ==
  ASSUME NEW S, NEW first \in Seq(S), NEW second \in Seq(S), first # <<>>
  PROVE  /\ Head(first \o second) = Head(first) /\ first \o second # <<>>
         /\ Tail(first \o second) = Tail(first) \o second
<1>1. /\ Head(first) \in S /\ Tail(first) \in Seq(S) /\ first = <<Head(first)>> \o Tail(first)
      /\ <<Head(first)>> \in Seq(S)
  BY HeadTailProperties
<1>2. first \o second = <<Head(first)>> \o (Tail(first) \o second)
  BY <1>1, ConcatAssociative
<1>3. Tail(first) \o second \in Seq(S)
  BY <1>1, ConcatProperties
<1> QED
  BY <1>1, <1>2, <1>3

\* Without a repeated element, taking the first one out leaves the tail.
LEMMA FirstRemoved ==
  ASSUME NEW S, NEW queue \in Seq(S), IsInjective(queue),
         NEW i \in 1 .. Len(queue), queue[i] = Head(queue)
  PROVE  RemoveAt(queue, i) = Tail(queue)
<1>1. queue # <<>> /\ Head(queue) = queue[1] /\ DOMAIN queue = 1 .. Len(queue)
  OBVIOUS
<1>2. i = 1
  BY <1>1 DEF IsInjective
<1>3. Tail(queue) \in Seq(S) /\ Tail(queue) = SubSeq(queue, 2, Len(queue))
  BY <1>1, HeadTailProperties, TailIsSubSeq
<1>4. SubSeq(queue, 1, 0) = <<>>
  BY SubSeqEmpty
<1>5. RemoveAt(queue, i) = <<>> \o Tail(queue)
  BY <1>2, <1>3, <1>4 DEF RemoveAt
<1>6. <<>> \o Tail(queue) = Tail(queue)
  BY <1>3, ConcatEmptySeq
<1> QED
  BY <1>5, <1>6

-----------------------------------------------------------------------------
\* The queues a buffer goes through are queues of buffers.
LEMMA QueueTypes ==
  ASSUME IInv
  PROVE  /\ InHand \in Seq(Buffers) /\ done_list \in Seq(Buffers)
         /\ queued_buffers \in Seq(Buffers) /\ handing \in Seq(Buffers)
         /\ queued_list \in Seq(Buffers)
         /\ queued_buffers \o handing \in Seq(Buffers)
         /\ InHand \o (queued_buffers \o handing) \in Seq(Buffers)
<1>1. /\ done_list \in Seq(Buffers) /\ queued_buffers \in Seq(Buffers) /\ handing \in Seq(Buffers)
      /\ queued_list \in Seq(Buffers)
  BY DEF IInv, TypeOK
<1>2. InHand \in Seq(Buffers)
  BY DEF IInv, TypeOK, InHand
<1>3. queued_buffers \o handing \in Seq(Buffers)
  BY <1>1, ConcatProperties
<1> QED
  BY <1>1, <1>2, <1>3, ConcatProperties

\* The steps that leave every queue as it is.
LEMMA OrderUndisturbed ==
  ASSUME InOrder,
         UNCHANGED <<vb2_streaming, queued_list, done_list, buffer, queued_buffers, handing>>
  PROVE  InOrder'
  BY DEF InOrder, InHand

\* The worker takes the driver's oldest buffer in hand (take_buffer).
LEMMA TakeBufferInOrder == ASSUME IInv, InOrder, TakeBuffer PROVE InOrder'
<1>1. CASE streaming /\ queued_buffers # <<>>
  <2>1. buffer = NULL /\ InHand = <<>>
    BY DEF TakeBuffer, IInv, WorkerHolds, InHand
  <2>2. /\ Head(queued_buffers) \in Buffers /\ Tail(queued_buffers) \in Seq(Buffers)
        /\ queued_buffers = <<Head(queued_buffers)>> \o Tail(queued_buffers)
        /\ <<Head(queued_buffers)>> \in Seq(Buffers)
    BY <1>1, QueueTypes, HeadTailProperties
  <2>3. /\ buffer' = Head(queued_buffers) /\ queued_buffers' = Tail(queued_buffers)
        /\ UNCHANGED <<vb2_streaming, queued_list, done_list, handing>>
    BY <1>1 DEF TakeBuffer
  <2>4. InHand' = <<Head(queued_buffers)>>
    BY <2>2, <2>3, VideoAssumption DEF InHand
  <2>5. <<>> \o (queued_buffers \o handing) = queued_buffers \o handing
    BY QueueTypes, ConcatEmptySeq
  <2>6. queued_buffers \o handing = <<Head(queued_buffers)>> \o (Tail(queued_buffers) \o handing)
    BY <2>2, QueueTypes, ConcatAssociative
  <2> QED
    BY <2>1, <2>3, <2>4, <2>5, <2>6 DEF InOrder
<1>2. CASE ~(streaming /\ queued_buffers # <<>>)
  BY <1>2, OrderUndisturbed DEF TakeBuffer
<1> QED
  BY <1>1, <1>2

\* The buffer in hand comes back behind those that have (vb2_buffer_done).
LEMMA CompleteInOrder == ASSUME IInv, InOrder, Complete PROVE InOrder'
<1>1. /\ buffer \in Buffers /\ InHand = <<buffer>> /\ done_list' = Append(done_list, buffer)
      /\ InHand' = <<>>
      /\ UNCHANGED <<vb2_streaming, queued_list, queued_buffers, handing>>
  BY VideoAssumption DEF Complete, BufferDone, IInv, TypeOK, WorkerHolds, InHand
<1> DEFINE given == queued_buffers \o handing
<1>2. given \in Seq(Buffers) /\ done_list \in Seq(Buffers) /\ <<buffer>> \in Seq(Buffers)
  BY <1>1, QueueTypes
<1> HIDE DEF given
<1>3. Append(done_list, buffer) = done_list \o <<buffer>>
  BY <1>1, <1>2, AppendIsConcat
<1>4. (done_list \o <<buffer>>) \o given = done_list \o (<<buffer>> \o given)
  BY <1>2, ConcatAssociative
<1>5. <<>> \o given = given
  BY <1>2, ConcatEmptySeq
<1>6. given' = given
  BY <1>1 DEF given
<1>7. InOrder' <=> (vb2_streaming => queued_list = done_list' \o (<<>> \o given))
  BY <1>1, <1>6 DEF InOrder, given
<1>8. InOrder <=> (vb2_streaming => queued_list = done_list \o (<<buffer>> \o given))
  BY <1>1 DEF InOrder, given
<1> QED
  BY <1>1, <1>3, <1>4, <1>5, <1>7, <1>8

\* A buffer queued in a stream is the last to be handed over (QBUF).
LEMMA QBufInOrder ==
  ASSUME IInv, InOrder, NEW b \in Buffers, QBuf(b)
  PROVE  InOrder'
<1>1. CASE vb2_streaming
  <2>1. /\ handing = <<>> /\ handing' = <<b>> /\ queued_list' = Append(queued_list, b)
        /\ UNCHANGED <<vb2_streaming, done_list, buffer, queued_buffers>>
    BY <1>1 DEF QBuf, IInv, CallerPlaces
  <2>2. InHand' = InHand
    BY <2>1 DEF InHand
  <2>3. /\ queued_buffers \o <<b>> = Append(queued_buffers, b)
        /\ queued_buffers \o <<>> = queued_buffers
    BY QueueTypes, AppendIsConcat, ConcatEmptySeq
  <2>4. InHand \o Append(queued_buffers, b) = Append(InHand \o queued_buffers, b)
        /\ InHand \o queued_buffers \in Seq(Buffers)
    BY QueueTypes, LastAppended, ConcatProperties
  <2>5. done_list \o Append(InHand \o queued_buffers, b)
          = Append(done_list \o (InHand \o queued_buffers), b)
    BY <2>4, QueueTypes, LastAppended
  <2>6. queued_list = done_list \o (InHand \o queued_buffers)
    BY <1>1, <2>1, <2>3 DEF InOrder
  <2> QED
    BY <2>1, <2>2, <2>3, <2>4, <2>5, <2>6 DEF InOrder
<1>2. CASE ~vb2_streaming
  BY <1>2 DEF QBuf, InOrder
<1> QED
  BY <1>1, <1>2

\* STREAMON hands over what is queued: there is nothing else anywhere.
LEMMA StreamOnInOrder == ASSUME IInv, InOrder, StreamOn PROVE InOrder'
<1>1. /\ done_list' = <<>> /\ InHand' = <<>> /\ queued_buffers' = <<>>
      /\ handing' = queued_list /\ queued_list' = queued_list
  BY DEF StreamOn, IInv, CallerPlaces, StreamPhases, WorkerHolds, InHand
<1>2. <<>> \o queued_list = queued_list
  BY QueueTypes, ConcatEmptySeq
<1> QED
  BY <1>1, <1>2 DEF InOrder

\* What is handed over goes to the end of the driver's list (camstream_buf_queue).
LEMMA BufQueueInOrder == ASSUME IInv, InOrder, BufQueue PROVE InOrder'
<1>1. /\ handing # <<>> /\ handing' = Tail(handing)
      /\ queued_buffers' = Append(queued_buffers, Head(handing))
      /\ UNCHANGED <<vb2_streaming, queued_list, done_list, buffer>>
  BY DEF BufQueue, IInv, CallerPlaces
<1>2. queued_buffers \o handing = Append(queued_buffers, Head(handing)) \o Tail(handing)
  BY <1>1, QueueTypes, HeadMoves
<1> QED
  BY <1>1, <1>2 DEF InOrder, InHand

\* The buffer dequeued is the oldest of VB2's list.
LEMMA DQBufTail ==
  ASSUME IInv, InOrder, DQBuf
  PROVE  /\ queued_list' = Tail(queued_list) /\ queued_list # <<>>
         /\ Tail(queued_list) = Tail(done_list) \o (InHand \o (queued_buffers \o handing))
<1>1. done_list # <<>> /\ vb2_streaming
  BY DEF DQBuf, IInv, StreamPhases, CallerPlaces
<1> DEFINE rest == InHand \o (queued_buffers \o handing)
<1>2. rest \in Seq(Buffers) /\ done_list \in Seq(Buffers) /\ queued_list = done_list \o rest
  BY <1>1, QueueTypes DEF InOrder
<1>3. /\ Head(queued_list) = Head(done_list) /\ queued_list # <<>>
      /\ Tail(queued_list) = Tail(done_list) \o rest
  BY <1>1, <1>2, HeadGone
<1>4. PICK i \in DOMAIN queued_list :
        queued_list[i] = Head(done_list) /\ queued_list' = RemoveAt(queued_list, i)
  BY DEF DQBuf
<1>5. queued_list \in Seq(Buffers) /\ i \in 1 .. Len(queued_list) /\ IsInjective(queued_list)
  BY QueueTypes DEF IInv, QueuedOnce
<1>6. RemoveAt(queued_list, i) = Tail(queued_list)
  BY <1>3, <1>4, <1>5, FirstRemoved
<1> QED
  BY <1>3, <1>4, <1>6

\* DQBUF takes the oldest buffer of both lists.
LEMMA DQBufInOrder == ASSUME IInv, InOrder, DQBuf PROVE InOrder'
<1>1. /\ done_list' = Tail(done_list)
      /\ UNCHANGED <<vb2_streaming, buffer, queued_buffers, handing>>
  BY DEF DQBuf
<1>2. InHand' = InHand
  BY <1>1 DEF InHand
<1> QED
  BY <1>1, <1>2, DQBufTail DEF InOrder

\* The buffers left are given back oldest first (camstream_stop_streaming).
LEMMA StopStreamingInOrder == ASSUME IInv, InOrder, StopStreaming PROVE InOrder'
<1>1. CASE queued_buffers # <<>>
  <2>1. /\ done_list' = Append(done_list, Head(queued_buffers))
        /\ queued_buffers' = Tail(queued_buffers) /\ InHand = <<>> /\ InHand' = <<>>
        /\ UNCHANGED <<vb2_streaming, queued_list, handing>>
    BY <1>1 DEF StopStreaming, BufferDone, IInv, StreamPhases, WorkerHolds, InHand
  <2>2. /\ Head(queued_buffers) \in Buffers /\ Tail(queued_buffers) \in Seq(Buffers)
        /\ handing = <<>>
    BY <1>1, QueueTypes, HeadTailProperties DEF StopStreaming, IInv, CallerPlaces
  <2>3. done_list \o queued_buffers
          = Append(done_list, Head(queued_buffers)) \o Tail(queued_buffers)
    BY <1>1, QueueTypes, HeadMoves
  <2>4. /\ <<>> \o (queued_buffers \o <<>>) = queued_buffers
        /\ <<>> \o (Tail(queued_buffers) \o <<>>) = Tail(queued_buffers)
    BY <2>2, QueueTypes, ConcatEmptySeq
  <2> QED
    BY <2>1, <2>2, <2>3, <2>4 DEF InOrder
<1>2. CASE queued_buffers = <<>>
  BY <1>2, OrderUndisturbed DEF StopStreaming
<1> QED
  BY <1>1, <1>2

\* Every step keeps the order of the buffers.
LEMMA OrderKept == ASSUME IInv, OrderInv, [Next]_vars PROVE InOrder'
<1> USE DEF OrderInv
<1>1. CASE WorkStarts \/ Fill \/ CommitFrame \/ RearmProducer
  BY <1>1, OrderUndisturbed DEF WorkStarts, Fill, CommitFrame, RearmProducer
<1>2. CASE NotifyBuffer \/ FrameStart \/ FrameStop \/ CancelWork \/ FlushWork \/ StreamOff
  BY <1>2, OrderUndisturbed
     DEF NotifyBuffer, FrameStart, FrameStop, CancelWork, FlushWork, StreamOff
<1>3. CASE TakeBuffer \/ Complete
  BY <1>3, TakeBufferInOrder, CompleteInOrder
<1>4. CASE (\E b \in Buffers : QBuf(b)) \/ DQBuf \/ StreamOn
  BY <1>4, QBufInOrder, DQBufInOrder, StreamOnInOrder
<1>5. CASE BufQueue \/ StopStreaming
  BY <1>5, BufQueueInOrder, StopStreamingInOrder
<1>6. CASE QueueCancel
  BY <1>6 DEF QueueCancel, InOrder
<1>7. CASE UNCHANGED vars
  BY <1>7, OrderUndisturbed DEF vars
<1> QED
  BY <1>1, <1>2, <1>3, <1>4, <1>5, <1>6, <1>7
     DEF Next, FrameWork, Produce, InIoctl, HandOverOrStop, Calls

\* Every step keeps the number of the frame in hand.
LEMMA NumberKept == ASSUME IInv, OrderInv, [Next]_vars PROVE Numbered'
<1> USE DEF OrderInv, Numbered
<1>1. CASE Fill
  BY <1>1, VideoAssumption DEF Fill, IInv, TypeOK, WorkerHolds
<1>2. CASE CommitFrame
  BY <1>2 DEF CommitFrame, NextSequence
<1>3. CASE WorkStarts \/ TakeBuffer \/ Complete \/ RearmProducer
  BY <1>3 DEF WorkStarts, TakeBuffer, Complete, RearmProducer
<1>4. CASE FrameStart
  <2>1. work = "idle"
    BY <1>4 DEF FrameStart, IInv, CallerPlaces, StreamPhases
  <2> QED
    BY <1>4, <2>1 DEF FrameStart
<1>5. CASE BufQueue \/ FrameStop \/ FlushWork \/ StopStreaming \/ QueueCancel \/ NotifyBuffer
           \/ CancelWork
  BY <1>5 DEF BufQueue, FrameStop, FlushWork, StopStreaming, QueueCancel, NotifyBuffer, CancelWork
<1>6. CASE Calls
  BY <1>6 DEF Calls, QBuf, DQBuf, StreamOn, StreamOff
<1>7. CASE UNCHANGED vars
  BY <1>7 DEF vars
<1> QED
  BY <1>1, <1>2, <1>3, <1>4, <1>5, <1>6, <1>7
     DEF Next, FrameWork, Produce, InIoctl, HandOverOrStop

\* The number of the frame that the stream completes next.
NextNumber ==
  IF ~start_streaming_called THEN 0 ELSE IF work = "done" THEN taken ELSE sequence

\* The types of what the refinement mapping reads.
LEMMA NumberingTypes ==
  ASSUME IInv
  PROVE  /\ done_list \in Seq(Buffers)
         /\ vb_sequence \in Numberings /\ image \in Numberings
  BY DEF IInv, TypeOK, Numberings

\* What is shown changes only with a buffer that is complete.
LEMMA ShownStays ==
  ASSUME IInv, IInv', UNCHANGED done_list,
         \A b \in ToSet(done_list) :
           /\ vb_state'[b] = vb_state[b] /\ vb_sequence'[b] = vb_sequence[b]
           /\ image'[b] = image[b]
  PROVE  UNCHANGED Shown
<1>1. vb_sequence' \in Numberings /\ image' \in Numberings
  BY DEF IInv, TypeOK, Numberings
<1>2. \A b \in ToSet(done_list) :
        Display(b, vb_state, vb_sequence, image) = Display(b, vb_state', vb_sequence', image')
  BY DEF Display
<1>3. DisplayAll(done_list, vb_state', vb_sequence', image')
        = DisplayAll(done_list, vb_state, vb_sequence, image)
  BY <1>1, <1>2, NumberingTypes, DisplaySame
<1> QED
  BY <1>3, ShownIs

\* The buffers on done_list are those whose state says so.
LEMMA DoneStates ==
  ASSUME IInv, NEW b \in ToSet(done_list)
  PROVE  b \in Buffers /\ vb_state[b] \in {"DONE", "ERROR"}
  BY DEF IInv, OwnedOnce

\* A step the application cannot see is a stutter of VideoQueue.
LEMMA Stutters ==
  ASSUME UNCHANGED <<queued_list, start_streaming_called>>, UNCHANGED Shown, UNCHANGED NextNumber
  PROVE  [Promise!Next]_(Promise!vars)
  BY DEF Promise!vars, NextNumber

\* A buffer the application has is not on VB2's list: it may queue it.
LEMMA QueuesOnce ==
  ASSUME IInv, NEW b \in Buffers, vb_state[b] = "DEQUEUED" PROVE b \notin ToSet(queued_list)
  BY DEF IInv, QueuedOnce

\* A buffer is completed while one that is queued is not.
LEMMA OneToComplete ==
  ASSUME IInv, InOrder, vb2_streaming, InHand # <<>> \/ queued_buffers # <<>>
  PROVE  Len(Shown) < Len(queued_list)
<1> DEFINE given == queued_buffers \o handing
           rest == InHand \o given
<1>1. /\ given \in Seq(Buffers) /\ Len(given) = Len(queued_buffers) + Len(handing)
      /\ rest \in Seq(Buffers) /\ Len(rest) = Len(InHand) + Len(given)
      /\ Len(done_list \o rest) = Len(done_list) + Len(rest)
  BY QueueTypes, ConcatProperties
<1>2. Len(InHand) \in Nat /\ Len(queued_buffers) \in Nat /\ Len(handing) \in Nat
      /\ Len(done_list) \in Nat
  BY QueueTypes, LenProperties
<1>3. Len(InHand) # 0 \/ Len(queued_buffers) # 0
  BY QueueTypes, EmptySeq
<1>4. queued_list = done_list \o rest
  BY DEF InOrder
<1> HIDE DEF given, rest
<1>5. Len(Shown) = Len(done_list)
  BY NumberingTypes, DisplayFacts, ShownIs
<1> QED
  BY <1>1, <1>2, <1>3, <1>4, <1>5

\* A buffer that is completed is shown behind the others.
LEMMA ShownGrows ==
  ASSUME IInv, IInv', NEW b \in Buffers, vb_state[b] = "ACTIVE",
         done_list' = Append(done_list, b),
         \A other \in Buffers \ {b} :
           /\ vb_state'[other] = vb_state[other] /\ vb_sequence'[other] = vb_sequence[other]
           /\ image'[other] = image[other]
  PROVE  Shown' = Append(Shown, Display(b, vb_state', vb_sequence', image'))
<1>1. vb_sequence' \in Numberings /\ image' \in Numberings
  BY DEF IInv, TypeOK, Numberings
<1>2. \A other \in ToSet(done_list) : other \in Buffers \ {b}
  BY DoneStates
<1>3. \A other \in ToSet(done_list) :
        Display(other, vb_state, vb_sequence, image)
          = Display(other, vb_state', vb_sequence', image')
  BY <1>2 DEF Display
<1>4. DisplayAll(done_list, vb_state', vb_sequence', image') = Shown
  BY <1>1, <1>3, NumberingTypes, DisplaySame, ShownIs
<1>5. DisplayAll(Append(done_list, b), vb_state', vb_sequence', image')
        = Append(DisplayAll(done_list, vb_state', vb_sequence', image'),
                 Display(b, vb_state', vb_sequence', image'))
  BY <1>1, NumberingTypes, DisplayOneMore
<1> QED
  BY <1>4, <1>5, ShownIs

\* A frame completed is one that VideoQueue produces or spoils (camstream_frame_work).
LEMMA CompletePromised ==
  ASSUME IInv, IInv', OrderInv, Complete PROVE [Promise!Next]_(Promise!vars)
<1>1. /\ buffer \in Buffers /\ InHand # <<>> /\ vb2_streaming /\ start_streaming_called
      /\ vb_state[buffer] = "ACTIVE"
      /\ UNCHANGED <<queued_list, start_streaming_called, sequence, taken, image>>
      /\ work' = "rearm" /\ work \in {"done", "error"}
  BY VideoAssumption
     DEF Complete, IInv, TypeOK, WorkerHolds, StreamPhases, CallerPlaces, OwnedOnce, InHand
<1>2. Len(Shown) < Len(queued_list)
  BY <1>1, OneToComplete DEF OrderInv
<1>3. done_list' = Append(done_list, buffer)
  BY DEF Complete, BufferDone
<1>4. \A other \in Buffers \ {buffer} :
        vb_state'[other] = vb_state[other] /\ vb_sequence'[other] = vb_sequence[other]
  BY <1>1 DEF Complete, BufferDone, IInv, TypeOK
<1>5. Shown' = Append(Shown, Display(buffer, vb_state', vb_sequence', image'))
  BY <1>1, <1>3, <1>4, ShownGrows
<1>6. CASE work = "done"
  <2>1. vb_state'[buffer] = "DONE" /\ vb_sequence'[buffer] = taken /\ image'[buffer] = taken
    BY <1>1, <1>6 DEF Complete, BufferDone, IInv, TypeOK, OrderInv, Numbered
  <2>2. Display(buffer, vb_state', vb_sequence', image')
          = [ok |-> TRUE, sequence |-> taken, image |-> taken]
    BY <2>1 DEF Display
  <2>3. sequence = (taken + 1) % SequenceModulus
    BY <1>6 DEF OrderInv, Numbered
  <2> QED
    BY <1>1, <1>2, <1>5, <1>6, <2>2, <2>3 DEF Promise!Next, Promise!Produce, Promise!Frame
<1>7. CASE work = "error"
  <2>1. vb_state'[buffer] = "ERROR"
    BY <1>1, <1>7 DEF Complete, BufferDone, IInv, TypeOK
  <2>2. Display(buffer, vb_state', vb_sequence', image')
          = [ok |-> FALSE, sequence |-> 0, image |-> 0]
    BY <2>1 DEF Display
  <2> QED
    BY <1>1, <1>2, <1>5, <1>7, <2>2 DEF Promise!Next, Promise!Spoil, Promise!Failed
<1> QED
  BY <1>1, <1>6, <1>7

\* A buffer given back at the end of the stream is one that VideoQueue spoils, as long
\* as the stream is on (camstream_stop_streaming).
LEMMA DrainPromised ==
  ASSUME IInv, IInv', OrderInv, StopStreaming PROVE [Promise!Next]_(Promise!vars)
<1>1. start_streaming_called /\ vb2_streaming /\ work = "idle"
      /\ UNCHANGED <<queued_list, start_streaming_called, sequence, work, taken>>
  BY DEF StopStreaming, IInv, CallerPlaces, StreamPhases
<1>2. CASE queued_buffers # <<>>
  <2> DEFINE b == Head(queued_buffers)
  <2>1. b \in Buffers /\ b \in ToSet(queued_buffers)
    BY <1>2, QueueTypes, HeadTailProperties DEF ToSet
  <2>2. vb_state[b] = "ACTIVE"
    BY <2>1 DEF IInv, OwnedOnce
  <2>3. /\ done_list' = Append(done_list, b) /\ vb_state' = [vb_state EXCEPT ![b] = "ERROR"]
        /\ UNCHANGED contents
    BY <1>2 DEF StopStreaming, BufferDone
  <2> HIDE DEF b
  <2>4. vb_state'[b] = "ERROR" /\ \A other \in Buffers \ {b} : vb_state'[other] = vb_state[other]
    BY <2>1, <2>3 DEF IInv, TypeOK
  <2>5. Shown' = Append(Shown, Display(b, vb_state', vb_sequence', image'))
    BY <2>1, <2>2, <2>3, <2>4, ShownGrows
  <2>6. Display(b, vb_state', vb_sequence', image') = [ok |-> FALSE, sequence |-> 0, image |-> 0]
    BY <2>4 DEF Display
  <2>7. Len(Shown) < Len(queued_list)
    BY <1>1, <1>2, OneToComplete DEF OrderInv
  <2> QED
    BY <1>1, <2>5, <2>6, <2>7 DEF Promise!Next, Promise!Spoil, Promise!Failed
<1>3. CASE queued_buffers = <<>>
  <2>1. UNCHANGED <<done_list, vb_state, contents>>
    BY <1>3 DEF StopStreaming
  <2>2. UNCHANGED Shown
    BY <2>1, ShownIs
  <2> QED
    BY <1>1, <2>2, Stutters DEF NextNumber
<1> QED
  BY <1>2, <1>3

\* DQBUF takes the buffer that VideoQueue says is next.
LEMMA DQBufPromised ==
  ASSUME IInv, IInv', OrderInv, DQBuf PROVE [Promise!Next]_(Promise!vars)
<1>1. /\ done_list # <<>> /\ done_list' = Tail(done_list)
      /\ vb_state' = [vb_state EXCEPT ![Head(done_list)] = "DEQUEUED"]
      /\ UNCHANGED <<vb_sequence, image, start_streaming_called, work, taken, sequence>>
  BY DEF DQBuf
<1>2. /\ Tail(done_list) \in Seq(Buffers)
      /\ ToSet(done_list) = ToSet(Tail(done_list)) \cup {Head(done_list)}
      /\ Head(done_list) \notin ToSet(Tail(done_list))
      /\ Head(done_list) \in Buffers
  BY <1>1, QueueTypes, TailFacts DEF IInv, OwnedOnce
<1>3. \A b \in ToSet(Tail(done_list)) : b \in Buffers /\ b # Head(done_list)
  BY <1>2, DoneStates
<1>4. \A b \in ToSet(Tail(done_list)) :
        Display(b, vb_state, vb_sequence, image) = Display(b, vb_state', vb_sequence', image')
  BY <1>1, <1>3 DEF Display, IInv, TypeOK
<1>5. DisplayAll(Tail(done_list), vb_state', vb_sequence', image')
        = DisplayAll(Tail(done_list), vb_state, vb_sequence, image)
  <2>1. /\ vb_sequence' = vb_sequence /\ image' = image
        /\ vb_sequence \in Numberings /\ image \in Numberings
    BY <1>1, NumberingTypes
  <2>2. \A b \in ToSet(Tail(done_list)) :
          Display(b, vb_state, vb_sequence, image) = Display(b, vb_state', vb_sequence, image)
    BY <1>4, <2>1
  <2>3. DisplayAll(Tail(done_list), vb_state', vb_sequence, image)
          = DisplayAll(Tail(done_list), vb_state, vb_sequence, image)
    <3> DEFINE list == Tail(done_list)
               states == vb_state'
    <3>1. list \in Seq(Buffers)
      BY <1>2
    <3>2. \A b \in ToSet(list) :
            Display(b, vb_state, vb_sequence, image) = Display(b, states, vb_sequence, image)
      BY <2>2
    <3> HIDE DEF list, states
    <3>3. DisplayAll(list, states, vb_sequence, image)
            = DisplayAll(list, vb_state, vb_sequence, image)
      BY <2>1, <3>1, <3>2, DisplaySame
    <3> QED
      BY <3>3 DEF list, states
  <2> QED
    BY <2>1, <2>3
<1>6. Shown' = Tail(Shown)
  BY <1>1, <1>5, NumberingTypes, DisplayOneLess, ShownIs
<1>7. queued_list' = Tail(queued_list)
  BY DQBufTail DEF OrderInv
<1>8. Shown # <<>>
  <2>1. Len(Shown) = Len(done_list) /\ Len(done_list) # 0
    BY <1>1, NumberingTypes, DisplayFacts, ShownIs
  <2> QED
    BY <2>1, EmptySeq
<1> QED
  BY <1>1, <1>6, <1>7, <1>8 DEF Promise!Next, Promise!Dequeue

\* What the application sees of a step is a step of VideoQueue or none.
LEMMA StepPromised ==
  ASSUME IInv, IInv', OrderInv, [Next]_vars PROVE [Promise!Next]_(Promise!vars)
<1>1. CASE WorkStarts \/ TakeBuffer \/ CommitFrame \/ RearmProducer
  <2>1. UNCHANGED <<queued_list, start_streaming_called, done_list, vb_state, vb_sequence, image>>
    BY <1>1 DEF WorkStarts, TakeBuffer, CommitFrame, RearmProducer
  <2>2. UNCHANGED Shown
    BY <2>1, ShownIs
  <2>3. UNCHANGED NextNumber
    BY <1>1 DEF WorkStarts, TakeBuffer, CommitFrame, RearmProducer, NextNumber
  <2> QED
    BY <2>1, <2>2, <2>3, Stutters
<1>2. CASE Fill
  <2>1. UNCHANGED <<queued_list, start_streaming_called, done_list, vb_state, vb_sequence>>
    BY <1>2 DEF Fill
  <2>2. \A b \in ToSet(done_list) : image'[b] = image[b]
    <3>1. vb_state[buffer] = "ACTIVE"
      BY <1>2, VideoAssumption DEF Fill, IInv, TypeOK, OwnedOnce, WorkerHolds
    <3> QED
      BY <1>2, <3>1, DoneStates DEF Fill, IInv, TypeOK
  <2>3. UNCHANGED Shown
    BY <2>1, <2>2, ShownStays
  <2>4. UNCHANGED NextNumber
    BY <1>2 DEF Fill, NextNumber
  <2> QED
    BY <2>1, <2>3, <2>4, Stutters
<1>3. CASE \E b \in Buffers : QBuf(b)
  <2>1. PICK b \in Buffers : QBuf(b)
    BY <1>3
  <2>2. /\ queued_list' = Append(queued_list, b) /\ vb_state[b] = "DEQUEUED"
        /\ vb_state' = [vb_state EXCEPT ![b] = "QUEUED"]
        /\ UNCHANGED <<start_streaming_called, done_list, contents, work, taken, sequence>>
    BY <2>1 DEF QBuf
  <2>3. \A c \in ToSet(done_list) : vb_state'[c] = vb_state[c]
    BY <2>2, DoneStates DEF IInv, TypeOK
  <2>4. UNCHANGED Shown
    BY <2>2, <2>3, ShownStays
  <2>5. b \notin ToSet(queued_list)
    BY <2>2, QueuesOnce
  <2> QED
    <3>1. Promise!Queue(b)
      BY <2>2, <2>4, <2>5 DEF Promise!Queue, Promise!ToSet, ToSet
    <3> QED
      BY <3>1 DEF Promise!Next
<1>4. CASE BufQueue
  <2>1. /\ Head(handing) \in Buffers /\ vb_state[Head(handing)] = "QUEUED"
        /\ vb_state' = [vb_state EXCEPT ![Head(handing)] = "ACTIVE"]
        /\ UNCHANGED <<queued_list, start_streaming_called, done_list, contents, work, taken,
                       sequence>>
    <3>1. handing # <<>>
      BY <1>4 DEF BufQueue, IInv, CallerPlaces
    <3>2. Head(handing) \in Buffers /\ Head(handing) \in ToSet(handing)
      BY <3>1, QueueTypes, HeadTailProperties DEF ToSet
    <3> QED
      BY <1>4, <3>2 DEF BufQueue, IInv, QueuedOnce
  <2>2. \A c \in ToSet(done_list) : vb_state'[c] = vb_state[c]
    BY <2>1, DoneStates DEF IInv, TypeOK
  <2>3. UNCHANGED Shown
    BY <2>1, <2>2, ShownStays
  <2> QED
    BY <2>1, <2>3, Stutters DEF NextNumber
<1>5. CASE NotifyBuffer \/ FrameStop \/ CancelWork \/ FlushWork \/ StreamOff \/ StreamOn
  <2>1. /\ UNCHANGED <<queued_list, start_streaming_called, done_list, vb_state, contents>>
        /\ UNCHANGED <<work, taken, sequence>>
    BY <1>5 DEF NotifyBuffer, FrameStop, CancelWork, FlushWork, StreamOff, StreamOn
  <2>2. UNCHANGED Shown
    BY <2>1, ShownIs
  <2> QED
    BY <2>1, <2>2, Stutters DEF NextNumber
<1>6. CASE FrameStart
  <2>1. /\ ~start_streaming_called /\ start_streaming_called' /\ work = "idle" /\ sequence' = 0
        /\ UNCHANGED <<queued_list, done_list, vb_state, contents, work>>
    BY <1>6 DEF FrameStart, IInv, CallerPlaces, StreamPhases
  <2>2. UNCHANGED Shown
    BY <2>1, ShownIs
  <2> QED
    BY <1>6, <2>1, <2>2 DEF Promise!Next, Promise!StreamOn, FrameStart
<1>7. CASE QueueCancel
  <2>1. done_list' = <<>> /\ queued_list' = <<>> /\ ~start_streaming_called'
        /\ start_streaming_called' = FALSE
    BY <1>7 DEF QueueCancel
  <2>2. Shown' = <<>>
    BY <2>1, ShownIs, NothingDisplayed
  <2> QED
    BY <2>1, <2>2 DEF Promise!Next, Promise!StreamOff
<1>8. CASE UNCHANGED vars
  <2>1. /\ UNCHANGED <<queued_list, start_streaming_called, done_list, vb_state, contents>>
        /\ UNCHANGED <<work, taken, sequence>>
    BY <1>8 DEF vars
  <2>2. UNCHANGED Shown
    BY <2>1, ShownIs
  <2> QED
    BY <2>1, <2>2, Stutters DEF NextNumber
<1>9. CASE Complete \/ StopStreaming \/ DQBuf
  BY <1>9, CompletePromised, DrainPromised, DQBufPromised
<1> QED
  BY <1>1, <1>2, <1>3, <1>4, <1>5, <1>6, <1>7, <1>8, <1>9
     DEF Next, FrameWork, Produce, InIoctl, HandOverOrStop, Calls

\* Before anything is queued there is nothing to show.
LEMMA QueueInitially == Init => OrderInv /\ Promise!Init
<1> SUFFICES ASSUME Init PROVE OrderInv /\ Promise!Init
  OBVIOUS
<1>1. OrderInv
  BY DEF Init, OrderInv, InOrder, Numbered
<1>2. Shown = <<>>
  BY ShownIs, NothingDisplayed DEF Init
<1> QED
  BY <1>1, <1>2 DEF Init, Promise!Init

\* To the application the driver is a queue, for any number of buffers, any modulus
\* of the sequence number and any interleaving: buffers come back in QBUF order, each
\* once, a stream's frames are numbered from 0 without a gap, each shows the pattern
\* of its own number and keeps it (take_buffer, commit_frame, frame_start, fill_yuyv,
\* stop_streaming).
THEOREM ImplementsQueue == Spec => ImplementsVideoQueue
<1>1. Init => OrderInv /\ Promise!Init
  BY QueueInitially
<1>2. IInv /\ OrderInv /\ [Next]_vars => OrderInv'
  BY OrderKept, NumberKept DEF OrderInv
<1>3. IInv /\ IInv' /\ OrderInv /\ [Next]_vars => [Promise!Next]_(Promise!vars)
  BY StepPromised
<1> QED
  BY <1>1, <1>2, <1>3, Inductive, PTL DEF Spec, ImplementsVideoQueue, Promise!Spec

-----------------------------------------------------------------------------
(* The module, its files and its format                                    *)

\* The first resources that init acquires.
First(n) == {Acquired[i] : i \in 1 .. n}

\* What there is, by where the module is.
HeldAt ==
  /\ module = "absent" => held = First(0)
  /\ module \in {"v4l2", "free", "err_destroy_mutex"} => held = First(1)
  /\ module \in {"queue", "err_unregister_v4l2", "unregister_v4l2"} => held = First(2)
  /\ module \in {"video", "err_release_queue"} => held = First(3)
  /\ module \in {"register", "err_release_video"} => held = First(4)
  /\ module \in {"publish", "live", "unregister_video"} => held = First(5)

\* The places of init, of its labels and of exit.
ModulePlaces ==
  {"absent", "v4l2", "queue", "video", "register", "publish", "live", "err_release_video",
   "err_release_queue", "err_unregister_v4l2", "err_destroy_mutex", "unregister_video",
   "unregister_v4l2", "free"}

\* Where the caller is while a stream stops.
Stopping == {"stop", "cancel", "flush", "drain", "release"}

\* Where the module is, and what there is then.
ModuleLife ==
  /\ module \in ModulePlaces
  /\ HeldAt
  /\ camstream_device \in BOOLEAN
  /\ camstream_device <=> module \in {"live", "unregister_video", "unregister_v4l2", "free"}
  /\ open # {} => module \in {"publish", "live"}

\* The file that allocated the buffers is open until its stream has stopped.
Owning ==
  /\ owner # NULL => owner \in open
  /\ IsBusy \/ vb2_streaming \/ ioctl # "idle" \/ closing # NULL => owner # NULL
  /\ vb2_streaming => IsBusy
  /\ closing # NULL =>
       closing = owner /\ (ioctl \in Stopping \/ (ioctl = "idle" /\ ~vb2_streaming))

\* Whoever asked for what, the format is the one there is.
OneFormat ==
  /\ active_format = FillFormat
  /\ plane_size \in {0, FillFormat.sizeimage}

\* The inductive invariant of the module around the stream.
LifeInv == ModuleLife /\ Owning /\ OneFormat

\* The resources acquired in order, one by one.
LEMMA AcquiredFacts ==
  /\ First(0) = {}
  /\ First(1) = {"device"}
  /\ First(2) = {"device", "v4l2_dev"}
  /\ First(3) = {"device", "v4l2_dev", "vb2_queue"}
  /\ First(4) = {"device", "v4l2_dev", "vb2_queue", "video_dev"}
  /\ First(5) = Resources
<1>1. /\ Acquired[1] = "device" /\ Acquired[2] = "v4l2_dev" /\ Acquired[3] = "vb2_queue"
      /\ Acquired[4] = "video_dev" /\ Acquired[5] = "node"
  BY DEF Acquired
<1>2. /\ 1 .. 0 = {} /\ 1 .. 1 = {1} /\ 1 .. 2 = {1, 2} /\ 1 .. 3 = {1, 2, 3}
      /\ 1 .. 4 = {1, 2, 3, 4} /\ 1 .. 5 = {1, 2, 3, 4, 5}
  OBVIOUS
<1>3. First(0) = {} /\ First(1) = {"device"}
  BY <1>1, <1>2 DEF First
<1>4. First(2) = {"device", "v4l2_dev"}
  BY <1>1, <1>2 DEF First
<1>5. First(3) = {"device", "v4l2_dev", "vb2_queue"}
  BY <1>1, <1>2 DEF First
<1>6. First(4) = {"device", "v4l2_dev", "vb2_queue", "video_dev"}
  BY <1>1, <1>2 DEF First
<1>7. First(5) = Resources
  BY <1>1, <1>2 DEF First, Resources
<1> QED
  BY <1>3, <1>4, <1>5, <1>6, <1>7

\* What a step of init adds to it, and what the labels and exit take from it.
LEMMA FirstSteps ==
  /\ First(0) \cup {"device"} = First(1) /\ First(1) \cup {"v4l2_dev"} = First(2)
  /\ First(2) \cup {"vb2_queue"} = First(3) /\ First(3) \cup {"video_dev"} = First(4)
  /\ First(4) \cup {"node"} = First(5)
  /\ First(4) \ {"video_dev"} = First(3) /\ First(3) \ {"vb2_queue"} = First(2)
  /\ First(2) \ {"v4l2_dev"} = First(1) /\ First(1) \ {"device"} = First(0)
  /\ First(5) \ {"node", "vb2_queue", "video_dev"} = First(2)
<1>1. /\ First(0) \cup {"device"} = First(1) /\ First(1) \cup {"v4l2_dev"} = First(2)
      /\ First(2) \cup {"vb2_queue"} = First(3) /\ First(3) \cup {"video_dev"} = First(4)
      /\ First(4) \cup {"node"} = First(5)
  BY AcquiredFacts DEF Resources
<1>2. /\ First(4) \ {"video_dev"} = First(3) /\ First(3) \ {"vb2_queue"} = First(2)
      /\ First(2) \ {"v4l2_dev"} = First(1) /\ First(1) \ {"device"} = First(0)
  BY AcquiredFacts
<1>3. First(5) \ {"node", "vb2_queue", "video_dev"} = First(2)
  BY AcquiredFacts DEF Resources
<1> QED
  BY <1>1, <1>2, <1>3

\* It holds before the module is loaded.
LEMMA LifeInitially == DeviceInit => LifeInv
<1> SUFFICES ASSUME DeviceInit PROVE LifeInv
  OBVIOUS
<1>1. ModuleLife
  BY AcquiredFacts DEF DeviceInit, ModuleLife, ModulePlaces, HeldAt
<1>2. Owning /\ OneFormat
  BY DEF DeviceInit, Init, Owning, OneFormat, IsBusy
<1> QED
  BY <1>1, <1>2 DEF LifeInv

\* Every step of the module but the allocation leaves the stream alone.
LEMMA ModuleSteps ==
  ASSUME IInv, LifeInv, Module
  PROVE  ModuleLife' /\ Owning' /\ OneFormat'
<1> USE FirstSteps
<1>1. CASE AllocDevice
  <2>1. /\ held = First(0) /\ module = "absent" /\ open = {} /\ ~camstream_device
        /\ active_format' = FillFormat
    BY <1>1 DEF AllocDevice, Acquire, LifeInv, ModuleLife, HeldAt
  <2>2. ModuleLife'
    BY <1>1, <2>1
       DEF Module, AllocDevice, Acquire, LifeInv, ModuleLife, ModulePlaces, HeldAt, files
  <2> QED
    BY <1>1, <2>1, <2>2
       DEF Module, AllocDevice, LifeInv, Owning, OneFormat, IsBusy, files, vars
<1>2. CASE InitSteps \/ Publish \/ InitErrors \/ ExitBegins \/ ExitSteps
  <2>1. UNCHANGED <<open, active_format, owner, closing, plane_size, vb2_streaming, ioctl>>
    BY <1>2
       DEF Module, AllocDevice, InitSteps, Publish, InitErrors, ExitBegins, ExitSteps, Acquire,
           Release, files, vars
  <2>2. /\ module \in ModulePlaces /\ HeldAt /\ (open # {} => module \in {"publish", "live"})
        /\ camstream_device \in BOOLEAN
        /\ camstream_device <=>
             module \in {"live", "unregister_video", "unregister_v4l2", "free"}
    BY DEF LifeInv, ModuleLife
  <2>3. Owning' /\ OneFormat'
    BY <2>1 DEF LifeInv, Owning, OneFormat, IsBusy
  <2>4. CASE InitSteps
    <3>1. ModuleLife'
      BY <2>1, <2>2, <2>4 DEF InitSteps, Acquire, ModuleLife, ModulePlaces, HeldAt
    <3> QED
      BY <2>3, <3>1
  <2>5. CASE InitErrors
    <3>1. ModuleLife'
      BY <2>1, <2>2, <2>5 DEF InitErrors, Release, ModuleLife, ModulePlaces, HeldAt
    <3> QED
      BY <2>3, <3>1
  <2>6. CASE Publish \/ ExitBegins
    <3>1. ModuleLife'
      BY <2>1, <2>2, <2>6 DEF Publish, ExitBegins, ModuleLife, ModulePlaces, HeldAt
    <3> QED
      BY <2>3, <3>1
  <2>7. CASE ExitSteps
    <3>1. ModuleLife'
      BY <2>1, <2>2, <2>7 DEF ExitSteps, Release, ModuleLife, ModulePlaces, HeldAt
    <3> QED
      BY <2>3, <3>1
  <2> QED
    BY <1>2, <2>4, <2>5, <2>6, <2>7
<1> QED
  BY <1>1, <1>2 DEF Module

\* Files come and go; the owner's takes its stream along.
LEMMA FileSteps ==
  ASSUME IInv, LifeInv,
         FileClosed \/ \E f \in Files : OpenFile(f) \/ CloseFile(f) \/ RequestBuffers(f)
  PROVE  ModuleLife' /\ Owning' /\ OneFormat'
<1> USE AcquiredFacts, DeviceAssumption DEF lifetime, files
<1>1. ASSUME NEW f \in Files, OpenFile(f) PROVE ModuleLife' /\ Owning' /\ OneFormat'
  BY <1>1 DEF OpenFile, LifeInv, ModuleLife, HeldAt, Owning, OneFormat, IsBusy, vars
<1>2. ASSUME NEW f \in Files, CloseFile(f) PROVE ModuleLife' /\ Owning' /\ OneFormat'
  <2>1. ModuleLife' /\ OneFormat'
    BY <1>2 DEF CloseFile, LifeInv, ModuleLife, HeldAt, OneFormat
  <2>2. Owning'
    BY <1>2
       DEF CloseFile, Between, LifeInv, Owning, IsBusy, vars, StreamOff, Goto, Stopping, IInv,
           CallerPlaces
  <2> QED
    BY <2>1, <2>2
<1>3. ASSUME NEW f \in Files, RequestBuffers(f) PROVE ModuleLife' /\ Owning' /\ OneFormat'
  <2>1. ModuleLife' /\ OneFormat'
    BY <1>3 DEF RequestBuffers, LifeInv, ModuleLife, HeldAt, OneFormat
  <2>2. Owning'
    BY <1>3 DEF RequestBuffers, Between, LifeInv, Owning, IsBusy
  <2> QED
    BY <2>1, <2>2
<1>4. CASE FileClosed
  <2>1. ModuleLife' /\ OneFormat'
    BY <1>4 DEF FileClosed, LifeInv, ModuleLife, HeldAt, OneFormat
  <2>2. Owning'
    BY <1>4 DEF FileClosed, LifeInv, Owning, IsBusy, Stopping, vars
  <2> QED
    BY <2>1, <2>2
<1> QED
  BY <1>1, <1>2, <1>3, <1>4

\* The application's calls and the two threads leave files and module alone.
LEMMA StreamSteps ==
  ASSUME IInv, LifeInv, Streaming \/ Inside
  PROVE  ModuleLife' /\ Owning' /\ OneFormat'
<1>1. UNCHANGED <<module, held, camstream_device, active_format, plane_size, open, owner, closing>>
  BY DEF Streaming, Inside, deviceVars, lifetime, files
<1>2. ModuleLife' /\ OneFormat'
  BY <1>1 DEF LifeInv, ModuleLife, HeldAt, OneFormat
<1>3. CASE Streaming
  <2>1. IsBusy /\ owner \in open /\ closing = NULL
    BY <1>3 DEF Streaming, Between
  <2>2. owner # NULL
    BY <2>1 DEF LifeInv, Owning
  <2> QED
    BY <1>1, <1>2, <2>1, <2>2 DEF Owning, IsBusy
<1>4. CASE Inside /\ (WorkStarts \/ FrameWork)
  <2>1. UNCHANGED <<ioctl, vb2_streaming>>
    BY <1>4
       DEF WorkStarts, FrameWork, Produce, TakeBuffer, Fill, CommitFrame, Complete, RearmProducer
  <2> QED
    BY <1>1, <1>2, <2>1 DEF LifeInv, Owning, IsBusy
<1>5. CASE Inside /\ InIoctl
  <2>1. ioctl # "idle" /\ owner # NULL
    BY <1>5
       DEF InIoctl, HandOverOrStop, BufQueue, FrameStop, FlushWork, StopStreaming, QueueCancel,
           NotifyBuffer, FrameStart, CancelWork, LifeInv, Owning
  <2>2. vb2_streaming' => vb2_streaming
    BY <1>5
       DEF InIoctl, HandOverOrStop, BufQueue, FrameStop, FlushWork, StopStreaming, QueueCancel,
           NotifyBuffer, FrameStart, CancelWork
  <2>3. ioctl \in Stopping =>
          ioctl' \in Stopping \/ (ioctl' = "idle" /\ ~vb2_streaming')
    BY <1>5
       DEF InIoctl, HandOverOrStop, BufQueue, FrameStop, FlushWork, StopStreaming, QueueCancel,
           NotifyBuffer, FrameStart, CancelWork, Goto, Stopping
  <2> QED
    BY <1>1, <1>2, <2>1, <2>2, <2>3 DEF LifeInv, Owning, IsBusy
<1> QED
  BY <1>3, <1>4, <1>5 DEF Inside

\* kzalloc clears a device that no stream has used since.
LEMMA AllocDeviceKeeps ==
  ASSUME IInv, LifeInv, AllocDevice,
         UNCHANGED <<workqueue, worker, vb_state, done_list, vb2, contents, caller>>
  PROVE  IInv'
<1>1. 0 \in SequenceNumbers
  BY VideoAssumption DEF SequenceNumbers
<1>2. TypeOK'
  BY <1>1 DEF AllocDevice, IInv, TypeOK
<1> QED
  BY <1>2
     DEF AllocDevice, IInv, OwnedOnce, WorkerHolds, CallerPlaces, StreamPhases, QueuedOnce

\* REQBUFS takes every buffer off the list of a stream that is off.
LEMMA RequestBuffersKeeps ==
  ASSUME IInv, NEW f, RequestBuffers(f)
  PROVE  IInv'
<1>1. /\ ioctl = "idle" /\ ~vb2_streaming
      /\ UNCHANGED <<device, workqueue, worker, done_list, vb2_streaming, start_streaming_called,
                     contents, caller>>
      /\ queued_list' = <<>>
      /\ vb_state' = [b \in Buffers |-> "DEQUEUED"]
  BY DEF RequestBuffers, Between
<1>2. /\ ~start_streaming_called /\ handing = <<>> /\ done_list = <<>> /\ queued_buffers = <<>>
      /\ work = "idle" /\ buffer = NULL
  BY <1>1 DEF IInv, CallerPlaces, StreamPhases, WorkerHolds
<1>3. TypeOK'
  BY <1>1, EmptyFacts DEF IInv, TypeOK, VbStates
<1>4. OwnedOnce' /\ QueuedOnce'
  BY <1>1, <1>2, EmptyFacts DEF OwnedOnce, QueuedOnce
<1> QED
  BY <1>1, <1>2, <1>3, <1>4 DEF IInv, WorkerHolds, CallerPlaces, StreamPhases

\* Each step of the driver is one of its stream, leaves it alone, or is one of two.
LEMMA DeviceStepCases ==
  ASSUME DeviceNext
  PROVE  \/ [Next]_vars
         \/ /\ AllocDevice
            /\ UNCHANGED <<workqueue, worker, vb_state, done_list, vb2, contents, caller>>
         \/ \E f \in Files : RequestBuffers(f)
<1>1. CASE Module
  BY <1>1 DEF Module, vars
<1>2. ASSUME NEW f \in Files, OpenFile(f) \/ CloseFile(f) \/ RequestBuffers(f)
      PROVE  [Next]_vars \/ RequestBuffers(f)
  BY <1>2 DEF OpenFile, CloseFile, Next, Calls
<1>3. CASE FileClosed \/ \E f \in Files, format \in RequestedFormats : SetFormat(f, format)
  BY <1>3 DEF FileClosed, SetFormat
<1>4. CASE Streaming \/ Inside
  BY <1>4 DEF Streaming, Inside, Next, Calls
<1> QED
  BY <1>1, <1>2, <1>3, <1>4 DEF DeviceNext

\* The two invariants hold of the whole driver: the module, its files, its format
\* and its stream.
THEOREM DeviceInvariance == DeviceSpec => [](IInv /\ LifeInv)
<1>1. DeviceInit => IInv /\ LifeInv
  BY InitKeeps, LifeInitially DEF DeviceInit
<1>2. ASSUME IInv, LifeInv, [DeviceNext]_allVars PROVE IInv' /\ LifeInv'
  <2>1. CASE UNCHANGED allVars
    <3>1. UNCHANGED vars
      BY <2>1 DEF allVars
    <3>2. IInv'
      BY <3>1, <1>2, StepsKeep
    <3>3. LifeInv'
      BY <1>2, <2>1, <3>1
         DEF allVars, deviceVars, lifetime, files, vars, LifeInv, ModuleLife, HeldAt, Owning,
             OneFormat, IsBusy
    <3> QED
      BY <3>2, <3>3
  <2>2. CASE DeviceNext
    <3>1. IInv'
      BY <1>2, <2>2, DeviceStepCases, StepsKeep, AllocDeviceKeeps, RequestBuffersKeeps
    <3>2. CASE Module
      BY <1>2, <3>1, <3>2, ModuleSteps DEF LifeInv
    <3>3. CASE FileClosed \/ \E f \in Files : OpenFile(f) \/ CloseFile(f) \/ RequestBuffers(f)
      BY <1>2, <3>1, <3>3, FileSteps DEF LifeInv
    <3>4. CASE Streaming \/ Inside
      BY <1>2, <3>1, <3>4, StreamSteps DEF LifeInv
    <3>5. CASE \E f \in Files, format \in RequestedFormats : SetFormat(f, format)
      BY <1>2, <3>1, <3>5
         DEF SetFormat, TryFormat, lifetime, files, vars, LifeInv,
             ModuleLife, HeldAt, Owning, OneFormat, IsBusy
    <3> QED
      BY <2>2, <3>2, <3>3, <3>4, <3>5 DEF DeviceNext
  <2> QED
    BY <1>2, <2>1, <2>2
<1> QED
  BY <1>1, <1>2, PTL DEF DeviceSpec

\* However init fails or the module ends, and however many files come and go: each
\* resource stands on those before it, nothing stays behind, and whatever is open,
\* allocated, due or running finds all of them (camstream_video_init and its labels,
\* camstream_video_exit).
THEOREM LifetimesAreNested == DeviceSpec => []LifetimesNest
<1>1. IInv /\ LifeInv => LifetimesNest
  <2> SUFFICES ASSUME IInv, LifeInv PROVE LifetimesNest
    OBVIOUS
  <2>1. \A i \in 2 .. Len(Acquired) : Acquired[i] \in held => Acquired[i - 1] \in held
    <3>1. \E n \in 0 .. 5 : held = First(n)
      BY DEF LifeInv, ModuleLife, ModulePlaces, HeldAt
    <3>2. ASSUME NEW n \in 0 .. 5, held = First(n), NEW i \in 2 .. Len(Acquired),
                 Acquired[i] \in held
          PROVE  Acquired[i - 1] \in held
      BY <3>2 DEF First, Acquired
    <3> QED
      BY <3>1, <3>2
  <2>2. module = "absent" => held = {} /\ ~camstream_device
    BY AcquiredFacts DEF LifeInv, ModuleLife, HeldAt
  <2>3. camstream_device => "device" \in held
    BY AcquiredFacts DEF LifeInv, ModuleLife, HeldAt, Resources
  <2>4. open # {} => held = Resources
    BY AcquiredFacts DEF LifeInv, ModuleLife, HeldAt
  <2>5. IsBusy \/ pending \/ work # "idle" \/ ioctl # "idle" => open # {}
    BY DEF LifeInv, Owning, IInv, StreamPhases, CallerPlaces
  <2> QED
    BY <2>1, <2>2, <2>3, <2>4, <2>5 DEF LifetimesNest
<1> QED
  BY <1>1, DeviceInvariance, PTL

\* For any size of the image: whatever was asked of S_FMT and when, an allocated plane
\* holds an image of the active format and every frame passes the worker's check
\* (fill_format, s_fmt, queue_setup, frame_work).
THEOREM EveryFrameFits == DeviceSpec => []FramesFit
<1>1. IInv /\ LifeInv => FramesFit
  <2> SUFFICES ASSUME IInv, LifeInv, IsBusy \/ work # "idle" PROVE Valid
    BY DEF FramesFit
  <2>1. IsBusy
    BY DEF LifeInv, Owning, IInv, StreamPhases, CallerPlaces
  <2>2. plane_size = FillFormat.sizeimage /\ active_format = FillFormat
    BY <2>1 DEF LifeInv, OneFormat, IsBusy
  <2>3. FillFormat.sizeimage \in Nat
    BY FormatAssumption DEF FillFormat, BytesPerPixel
  <2> QED
    BY <2>2, <2>3, FillIsSafe DEF Valid
<1> QED
  BY <1>1, DeviceInvariance, PTL

\* Inside the whole driver, too, the stream is a queue to the application: loading
\* the module and REQBUFS, which takes back all buffers, disturb neither the order
\* nor the numbers.
THEOREM DeviceIsAQueue == DeviceSpec => ImplementsVideoQueue
<1>1. DeviceInit => OrderInv /\ Promise!Init
  BY QueueInitially DEF DeviceInit
<1>2. ASSUME IInv, LifeInv, IInv', OrderInv, [DeviceNext]_allVars
      PROVE  OrderInv' /\ [Promise!Next]_(Promise!vars)
  <2>1. CASE [Next]_vars
    BY <1>2, <2>1, OrderKept, NumberKept, StepPromised DEF OrderInv
  <2>2. CASE /\ AllocDevice
             /\ UNCHANGED <<workqueue, worker, vb_state, done_list, vb2, contents, caller>>
    <3>1. work = "idle" /\ ~start_streaming_called /\ ~vb2_streaming
      BY <1>2, <2>2
         DEF AllocDevice, Acquire, LifeInv, ModuleLife, Owning, IInv, StreamPhases, CallerPlaces
    <3>2. OrderInv'
      BY <2>2, <3>1 DEF OrderInv, InOrder, Numbered
    <3>3. UNCHANGED Shown
      BY <2>2, ShownIs
    <3>4. UNCHANGED NextNumber
      BY <2>2, <3>1 DEF NextNumber
    <3> QED
      BY <2>2, <3>2, <3>3, <3>4, Stutters
  <2>3. CASE \E f \in Files : RequestBuffers(f)
    <3>1. /\ ~vb2_streaming /\ queued_list' = <<>> /\ ioctl = "idle"
          /\ UNCHANGED <<vb2_streaming, start_streaming_called, done_list, work, buffer, taken,
                         sequence, image>>
      BY <2>3 DEF RequestBuffers, Between
    <3>2. ~start_streaming_called /\ done_list = <<>>
      BY <1>2, <3>1 DEF IInv, StreamPhases, CallerPlaces
    <3>3. OrderInv'
      BY <1>2, <3>1 DEF OrderInv, InOrder, Numbered
    <3>4. Shown' = <<>>
      BY <3>1, <3>2, ShownIs, NothingDisplayed
    <3>5. Promise!StreamOff
      BY <3>1, <3>2, <3>4 DEF Promise!StreamOff
    <3> QED
      BY <3>3, <3>5 DEF Promise!Next
  <2>4. CASE UNCHANGED allVars
    BY <2>1, <2>4 DEF allVars
  <2> QED
    BY <1>2, <2>1, <2>2, <2>3, <2>4, DeviceStepCases
<1> QED
  <2>1. IInv /\ LifeInv /\ IInv' /\ OrderInv /\ [DeviceNext]_allVars
          => OrderInv' /\ [Promise!Next]_(Promise!vars)
    BY <1>2
  <2> QED
    BY <1>1, <2>1, DeviceInvariance, PTL DEF DeviceSpec, ImplementsVideoQueue, Promise!Spec

-----------------------------------------------------------------------------
(* The clock                                                               *)

\* The clock only decides when pending work runs: against it the driver takes no
\* step that it could not take without it.
THEOREM ClockOnlyDelays == TimedSpec => Spec
<1>1. TimerInit => Init
  BY DEF TimerInit
<1>2. [TimedNext]_timedVars => [Next]_vars
  BY DEF TimedNext, timedVars, Tick, TimerFires, TimedFrameWork, TimedRearmProducer,
         TimedInIoctl, TimedNotifyBuffer, TimedFrameStart, TimedCancelWork,
         Next, FrameWork, InIoctl
<1> QED
  BY <1>1, <1>2, PTL DEF TimedSpec, Spec

\* An interval is a positive number of units.
LEMMA IntervalFacts == Interval \in Nat /\ Interval > 0
  BY RateAssumption, IntervalPositive DEF Interval

-----------------------------------------------------------------------------
(* The inductive invariant                                                 *)

\* The clock and the timer are in their ranges.
ClockTypes ==
  /\ now \in 0 .. Jiffy - 1
  /\ next_frame_deadline_ns \in Int
  /\ timer \in Nat

\* The timer fires, or fired, no earlier than this.
FiresAt == Most(now, timer * Jiffy)

\* A worker that runs was woken within an interval of its deadline.
BusyInTime == streaming /\ work # "idle" => next_frame_deadline_ns <= now + Interval

\* So will the next one be.  A notification that comes while the worker runs sets
\* the timer by the deadline of the frame at hand: the worker moves the deadline
\* on by one interval and may leave the timer where it is.
PendingInTime ==
  streaming /\ pending =>
    /\ next_frame_deadline_ns <= FiresAt + Interval
    /\ work # "idle" => next_frame_deadline_ns <= FiresAt

\* The inductive invariant of the clock, beside that of the stream.
ClockInv ==
  /\ ClockTypes
  /\ AtMostOneAhead
  /\ BusyInTime
  /\ PendingInTime

\* What is due by a time and an interval is due by a later time and an interval,
\* and what was due by the present is.
LEMMA Slack ==
  /\ \A due \in Int, by, by2, slack \in Nat : due <= by + slack /\ by <= by2 => due <= by2 + slack
  /\ \A due \in Int, by, slack \in Nat : due <= by => due <= by + slack
  OBVIOUS

\* When both times move back by a jiffy, what was due still is.
LEMMA BackSlack ==
  \A due \in Int, by, by2, slack, back \in Nat :
    due <= by + slack /\ by - back <= by2 => due - back <= by2 + slack
  OBVIOUS

\* A timer that is set covers the deadline it is set by, unless the deadline lies
\* further ahead than the longest delay: that one covers all but an interval.
LEMMA TimerCovers ==
  ASSUME NEW at \in 0 .. Jiffy - 1, NEW deadline \in Int
  PROVE  LET covered == (DelayUntil(deadline, at) + 1) * Jiffy
         IN  /\ DelayUntil(deadline, at) \in Nat
             /\ covered \in Nat
             /\ deadline <= at + Interval => deadline <= covered
             /\ deadline <= at + 2 * Interval => deadline <= covered + Interval
<1> DEFINE delay == DelayUntil(deadline, at)
<1>1. Jiffy \in Nat /\ Jiffy > 0 /\ MaxJiffyOffset \in Nat \ {0} /\ at \in Int
  BY TimingAssumption
<1>2. Interval \in Nat /\ Interval > 0 /\ Interval <= MaxJiffyOffset * Jiffy
  BY IntervalFacts, IntervalAssumption
<1>3. /\ delay \in 1 .. MaxJiffyOffset
      /\ delay * Jiffy >= deadline - at \/ delay = MaxJiffyOffset
  BY <1>1, DelayCovers
<1> HIDE DEF delay
<1>4. delay \in Nat /\ delay * Jiffy \in Nat /\ (delay + 1) * Jiffy = delay * Jiffy + Jiffy
  BY <1>1, <1>3
<1>5. delay * Jiffy >= deadline - at \/ delay * Jiffy >= Interval
  BY <1>2, <1>3
<1> DEFINE waited == delay * Jiffy
<1> HIDE DEF waited
<1>6. /\ waited \in Nat /\ (delay + 1) * Jiffy = waited + Jiffy
      /\ waited >= deadline - at \/ waited >= Interval
  BY <1>4, <1>5 DEF waited
<1>7. /\ waited + Jiffy \in Nat
      /\ deadline <= at + Interval => deadline <= waited + Jiffy
      /\ deadline <= at + 2 * Interval => deadline <= waited + Jiffy + Interval
  BY <1>1, <1>2, <1>6
<1> QED
  BY <1>4, <1>6, <1>7 DEF delay

\* When the timer fires, as a number.
LEMMA FiresAtFacts ==
  ASSUME NEW at \in Nat, NEW jiffies \in Nat
  PROVE  LET fires == Most(at, jiffies * Jiffy)
         IN  /\ fires \in Nat
             /\ fires >= at
             /\ fires >= jiffies * Jiffy
             /\ fires = at \/ fires = jiffies * Jiffy
<1>1. jiffies * Jiffy \in Nat
  BY TimingAssumption
<1> QED
  BY <1>1 DEF Most

\* Moving an old deadline up moves it no further than now.
LEMMA LastMissedFacts ==
  ASSUME NEW deadline \in Int
  PROVE  /\ LastMissed(deadline) \in Int
         /\ LastMissed(deadline) <= deadline \/ LastMissed(deadline) <= 0
  BY IntervalFacts DEF LastMissed

\* Time passes; a new jiffy moves the deadline and the timer back.
LEMMA TickKeeps == ASSUME IInv, ClockInv, Tick PROVE ClockInv'
<1>1. /\ Jiffy \in Nat /\ Jiffy > 0 /\ Interval \in Nat /\ Interval > 0
      /\ now \in 0 .. Jiffy - 1 /\ next_frame_deadline_ns \in Int /\ timer \in Nat
  BY TimingAssumption, IntervalFacts DEF ClockInv, ClockTypes
<1>2. UNCHANGED <<streaming, work, pending>>
  BY DEF Tick, vars, device, worker, workqueue
<1>3. CASE now' # 0
  <2>1. now' = now + 1 /\ now' \in 0 .. Jiffy - 1 /\ timer' = timer
    BY <1>1, <1>3 DEF Tick
  <2>2. /\ next_frame_deadline_ns' \in Int
        /\ next_frame_deadline_ns' <= next_frame_deadline_ns \/ next_frame_deadline_ns' <= 0
    BY <1>1, <1>3, LastMissedFacts DEF Tick
  <2>3. FiresAt \in Nat /\ FiresAt' \in Nat /\ FiresAt' >= FiresAt
    <3>1. /\ FiresAt \in Nat /\ (FiresAt = now \/ FiresAt = timer * Jiffy)
          /\ FiresAt' \in Nat /\ FiresAt' >= now' /\ FiresAt' >= timer * Jiffy
      BY <1>1, <2>1, FiresAtFacts DEF FiresAt
    <3> QED
      BY <1>1, <2>1, <3>1, FiresAtFacts DEF FiresAt
  <2>4. ClockTypes'
    BY <1>1, <1>2, <2>1, <2>2, <2>3 DEF ClockTypes
  <2>5. AtMostOneAhead' /\ BusyInTime'
    BY <1>1, <1>2, <2>1, <2>2, <2>3
       DEF ClockInv, AtMostOneAhead, BusyInTime
  <2>6. PendingInTime'
    <3>1. ASSUME streaming, pending
          PROVE  next_frame_deadline_ns' <= FiresAt' + Interval
      <4>1. next_frame_deadline_ns <= FiresAt + Interval
        BY <3>1 DEF ClockInv, PendingInTime
      <4>2. CASE next_frame_deadline_ns' <= 0
        <5>1. next_frame_deadline_ns' <= FiresAt'
          BY <2>2, <2>3, <4>2
        <5> QED
          BY <1>1, <2>2, <2>3, <5>1, Slack
      <4>3. CASE next_frame_deadline_ns' <= next_frame_deadline_ns
        <5>1. next_frame_deadline_ns <= FiresAt' + Interval
          BY <1>1, <2>3, <4>1, Slack
        <5>2. FiresAt' + Interval \in Int
          BY <1>1, <2>3
        <5> QED
          BY <1>1, <2>2, <4>3, <5>1, <5>2
      <4> QED
        BY <2>2, <4>2, <4>3
    <3>2. ASSUME streaming, pending, work # "idle"
          PROVE  next_frame_deadline_ns' <= FiresAt'
      BY <1>1, <2>2, <2>3, <3>2 DEF ClockInv, PendingInTime
    <3> QED
      BY <1>2, <3>1, <3>2 DEF PendingInTime
  <2> QED
    BY <2>4, <2>5, <2>6 DEF ClockInv
<1>4. CASE now' = 0
  <2>1. now = Jiffy - 1 /\ timer' = Most(timer - 1, 0)
    BY <1>1, <1>4 DEF Tick
  <2>2. /\ next_frame_deadline_ns' \in Int
        /\ \/ next_frame_deadline_ns' <= next_frame_deadline_ns - Jiffy
           \/ next_frame_deadline_ns' <= 0
    BY <1>1, <1>4, LastMissedFacts DEF Tick
  <2>3. timer' \in Nat /\ FiresAt \in Nat /\ FiresAt' \in Nat /\ FiresAt' >= FiresAt - Jiffy
    <3>1. /\ timer' \in Nat
          /\ timer >= 1 => timer' = timer - 1
      BY <1>1, <2>1 DEF Most
    <3>2. FiresAt \in Nat /\ (FiresAt = now \/ FiresAt = timer * Jiffy)
      BY <1>1, FiresAtFacts DEF FiresAt
    <3>3. FiresAt' \in Nat /\ FiresAt' >= timer' * Jiffy
      BY <1>4, <3>1, FiresAtFacts DEF FiresAt
    <3>4. CASE timer >= 1
      <4>1. timer' * Jiffy = timer * Jiffy - Jiffy
        BY <1>1, <3>1, <3>4
      <4> QED
        BY <1>1, <2>1, <3>1, <3>2, <3>3, <4>1
    <3>5. CASE timer = 0
      BY <1>1, <2>1, <3>1, <3>2, <3>3, <3>5
    <3> QED
      BY <1>1, <3>4, <3>5
  <2>4. ClockTypes'
    BY <1>1, <1>2, <1>4, <2>1, <2>2, <2>3 DEF ClockTypes
  <2>5. AtMostOneAhead' /\ BusyInTime'
    BY <1>1, <1>2, <1>4, <2>1, <2>2, <2>3
       DEF ClockInv, AtMostOneAhead, BusyInTime
  <2>6. PendingInTime'
    <3>1. ASSUME streaming, pending
          PROVE  next_frame_deadline_ns' <= FiresAt' + Interval
      <4>1. next_frame_deadline_ns <= FiresAt + Interval
        BY <3>1 DEF ClockInv, PendingInTime
      <4>2. CASE next_frame_deadline_ns' <= 0
        <5>1. next_frame_deadline_ns' <= FiresAt'
          BY <2>2, <2>3, <4>2
        <5> QED
          BY <1>1, <2>2, <2>3, <5>1, Slack
      <4>3. CASE next_frame_deadline_ns' <= next_frame_deadline_ns - Jiffy
        <5>1. next_frame_deadline_ns - Jiffy <= FiresAt' + Interval
          BY <1>1, <2>3, <4>1, BackSlack
        <5>2. FiresAt' + Interval \in Int /\ next_frame_deadline_ns - Jiffy \in Int
          BY <1>1, <2>3
        <5> QED
          BY <2>2, <4>3, <5>1, <5>2
      <4> QED
        BY <2>2, <4>2, <4>3
    <3>2. ASSUME streaming, pending, work # "idle"
          PROVE  next_frame_deadline_ns' <= FiresAt'
      BY <1>1, <2>2, <2>3, <3>2 DEF ClockInv, PendingInTime
    <3> QED
      BY <1>2, <3>1, <3>2 DEF PendingInTime
  <2> QED
    BY <2>4, <2>5, <2>6 DEF ClockInv
<1> QED
  BY <1>3, <1>4

\* The timer fires when its jiffy is over.
LEMMA TimerFiresKeeps == ASSUME IInv, ClockInv, TimerFires PROVE ClockInv'
<1>1. /\ timer = 0 /\ pending /\ work = "idle" /\ ~pending' /\ work' = "take"
      /\ UNCHANGED <<streaming, clock>>
  BY DEF TimerFires, WorkStarts, device
<1>2. /\ Jiffy \in Nat /\ Jiffy > 0 /\ Interval \in Nat /\ Interval > 0 /\ now \in 0 .. Jiffy - 1
      /\ next_frame_deadline_ns \in Int
  BY TimingAssumption, IntervalFacts DEF ClockInv, ClockTypes
<1>3. FiresAt = now
  BY <1>1, <1>2 DEF FiresAt, Most
<1> QED
  BY <1>1, <1>2, <1>3
     DEF clock, ClockInv, ClockTypes, AtMostOneAhead, BusyInTime, PendingInTime

\* A notification leaves the deadline alone and may set the timer anew.
LEMMA TimedNotifyBufferKeeps ==
  ASSUME IInv, ClockInv, TimedNotifyBuffer, now' = now
  PROVE  ClockInv'
<1>1. /\ UNCHANGED <<streaming, work, queued_buffers, now, next_frame_deadline_ns>>
      /\ pending' = (pending \/ (streaming /\ queued_buffers # <<>> /\ ~cancelling))
      /\ SetTimer
  BY DEF TimedNotifyBuffer, NotifyBuffer, ScheduleNext, device, worker
<1>2. /\ Jiffy \in Nat /\ Jiffy > 0 /\ Interval \in Nat /\ Interval > 0 /\ now \in 0 .. Jiffy - 1
      /\ next_frame_deadline_ns \in Int /\ timer \in Nat
  BY TimingAssumption, IntervalFacts DEF ClockInv, ClockTypes
<1>3. CASE streaming /\ queued_buffers # <<>> /\ ~cancelling
  <2>1. timer' = DelayUntil(next_frame_deadline_ns, now) + 1
    BY <1>1, <1>3 DEF SetTimer
  <2>2. /\ timer' \in Nat
        /\ next_frame_deadline_ns <= now + Interval => next_frame_deadline_ns <= timer' * Jiffy
        /\ next_frame_deadline_ns <= now + 2 * Interval =>
             next_frame_deadline_ns <= timer' * Jiffy + Interval
        /\ timer' * Jiffy \in Nat
    BY <1>2, <2>1, TimerCovers
  <2>3. FiresAt' \in Nat /\ FiresAt' >= timer' * Jiffy
    BY <1>1, <1>2, <2>2, FiresAtFacts DEF FiresAt
  <2>4. /\ next_frame_deadline_ns <= now + Interval => next_frame_deadline_ns <= FiresAt'
        /\ next_frame_deadline_ns <= now + 2 * Interval =>
             next_frame_deadline_ns <= FiresAt' + Interval
    <3>1. ASSUME next_frame_deadline_ns <= now + 2 * Interval
          PROVE  next_frame_deadline_ns <= FiresAt' + Interval
      <4>1. next_frame_deadline_ns <= timer' * Jiffy + Interval
        BY <2>2, <3>1
      <4> QED
        BY <1>2, <2>2, <2>3, <4>1, Slack
    <3>2. ASSUME next_frame_deadline_ns <= now + Interval
          PROVE  next_frame_deadline_ns <= FiresAt'
      <4>1. next_frame_deadline_ns <= timer' * Jiffy
        BY <2>2, <3>2
      <4>2. \A due \in Int, by, by2 \in Nat : due <= by /\ by <= by2 => due <= by2
        OBVIOUS
      <4> QED
        BY <1>2, <2>2, <2>3, <4>1, <4>2
    <3> QED
      BY <3>1, <3>2
  <2> QED
    BY <1>1, <1>2, <1>3, <2>2, <2>3, <2>4
       DEF ClockInv, ClockTypes, AtMostOneAhead, BusyInTime, PendingInTime
<1>4. CASE ~(streaming /\ queued_buffers # <<>> /\ ~cancelling)
  <2>1. pending' = pending /\ timer' = timer
    BY <1>1, <1>4 DEF SetTimer, IInv, TypeOK
  <2> QED
    BY <1>1, <1>2, <2>1
       DEF ClockInv, ClockTypes, AtMostOneAhead, BusyInTime, PendingInTime, FiresAt
<1> QED
  BY <1>3, <1>4

\* A stream starts with its first frame an interval away, and nothing pending.
LEMMA TimedFrameStartKeeps ==
  ASSUME IInv, ClockInv, TimedFrameStart, now' = now
  PROVE  ClockInv'
<1>1. /\ ~pending /\ work = "idle" /\ work' = "idle"
      /\ next_frame_deadline_ns' = now + Interval
      /\ queued_buffers' = queued_buffers /\ streaming'
      /\ pending' = (queued_buffers # <<>> /\ ~cancelling)
      /\ SetTimer
  BY DEF TimedFrameStart, FrameStart, ScheduleNext, IInv, CallerPlaces, StreamPhases, worker
<1>2. /\ Jiffy \in Nat /\ Jiffy > 0 /\ Interval \in Nat /\ Interval > 0
      /\ now \in 0 .. Jiffy - 1 /\ timer \in Nat
  BY TimingAssumption, IntervalFacts DEF ClockInv, ClockTypes
<1>3. timer' \in Nat
  <2>1. CASE queued_buffers # <<>> /\ ~cancelling
    <3>1. timer' = DelayUntil(next_frame_deadline_ns', now) + 1
      BY <1>1, <2>1 DEF SetTimer
    <3>2. next_frame_deadline_ns' \in Int
      BY <1>1, <1>2
    <3> QED
      BY <1>2, <3>1, <3>2, TimerCovers
  <2>2. CASE ~(queued_buffers # <<>> /\ ~cancelling)
    BY <1>1, <1>2, <2>2 DEF SetTimer
  <2> QED
    BY <2>1, <2>2
<1>4. FiresAt' \in Nat /\ FiresAt' >= now
  BY <1>2, <1>3, FiresAtFacts DEF FiresAt
<1>5. /\ next_frame_deadline_ns' \in Int
      /\ next_frame_deadline_ns' <= now + 2 * Interval
      /\ next_frame_deadline_ns' <= FiresAt' + Interval
  <2>1. now \in Nat /\ now + Interval \in Int /\ now + Interval <= now + 2 * Interval
    BY <1>2
  <2>2. now + Interval <= FiresAt' + Interval
    <3>1. \A by, by2, slack \in Nat : by <= by2 => by + slack <= by2 + slack
      OBVIOUS
    <3> QED
      BY <1>2, <1>4, <2>1, <3>1
  <2> QED
    BY <1>1, <2>1, <2>2
<1> QED
  BY <1>1, <1>2, <1>3, <1>4, <1>5
     DEF ClockInv, ClockTypes, AtMostOneAhead, BusyInTime, PendingInTime

\* The deadline moves on by an interval at most, and the timer covers it unless
\* one that was set meanwhile covers the frame at hand.
LEMMA TimedRearmProducerKeeps ==
  ASSUME IInv, ClockInv, TimedRearmProducer, now' = now
  PROVE  ClockInv'
<1>1. /\ UNCHANGED <<streaming, queued_buffers>>
      /\ work # "idle" /\ work' = "idle"
      /\ pending' = (pending \/ (streaming /\ queued_buffers # <<>> /\ ~cancelling))
      /\ SetTimer
  BY DEF TimedRearmProducer, RearmProducer, ScheduleNext, device
<1>2. /\ Jiffy \in Nat /\ Jiffy > 0 /\ Interval \in Nat /\ Interval > 0 /\ now \in 0 .. Jiffy - 1
      /\ next_frame_deadline_ns \in Int /\ timer \in Nat /\ timer * Jiffy \in Nat
  BY TimingAssumption, IntervalFacts DEF ClockInv, ClockTypes
<1>3. /\ next_frame_deadline_ns' \in Int
      /\ next_frame_deadline_ns' <= Most(next_frame_deadline_ns, now) + Interval
  <2>1. now \in Nat /\ now + Interval <= MaxU64
    BY <1>2, IntervalAssumption, TimingAssumption
  <2> QED
    BY <1>2, <2>1, DeadlineAdvances DEF TimedRearmProducer
<1>4. streaming => next_frame_deadline_ns' <= now + 2 * Interval
  BY <1>1, <1>2, <1>3 DEF ClockInv, BusyInTime, Most
<1>5. timer' \in Nat /\ (streaming /\ pending' => next_frame_deadline_ns' <= FiresAt' + Interval)
  <2>1. CASE streaming /\ queued_buffers # <<>> /\ ~cancelling
    <3>1. timer' = DelayUntil(next_frame_deadline_ns', now) + 1
      BY <1>1, <2>1 DEF SetTimer
    <3>2. /\ timer' \in Nat
          /\ timer' * Jiffy \in Nat
          /\ next_frame_deadline_ns' <= timer' * Jiffy + Interval
      <4>1. /\ timer' \in Nat
            /\ timer' * Jiffy \in Nat
            /\ next_frame_deadline_ns' <= now + 2 * Interval =>
                 next_frame_deadline_ns' <= timer' * Jiffy + Interval
        BY <1>2, <1>3, <3>1, TimerCovers
      <4> QED
        BY <1>4, <2>1, <4>1
    <3>3. FiresAt' \in Nat /\ FiresAt' >= timer' * Jiffy
      BY <1>2, <3>2, FiresAtFacts DEF FiresAt
    <3> QED
      BY <1>2, <1>3, <3>2, <3>3, Slack
  <2>2. CASE ~(streaming /\ queued_buffers # <<>> /\ ~cancelling)
    <3>1. pending' = pending /\ timer' = timer
      BY <1>1, <2>2 DEF SetTimer, IInv, TypeOK
    <3>2. FiresAt' = FiresAt
      BY <3>1 DEF FiresAt
    <3>3. FiresAt \in Nat /\ FiresAt >= now
      BY <1>2, FiresAtFacts DEF FiresAt
    <3>4. streaming /\ pending => next_frame_deadline_ns <= FiresAt
      BY <1>1, <1>2 DEF ClockInv, PendingInTime
    <3> QED
      BY <1>1, <1>2, <1>3, <3>1, <3>2, <3>3, <3>4 DEF Most
  <2> QED
    BY <2>1, <2>2
<1> QED
  BY <1>1, <1>2, <1>3, <1>4, <1>5
     DEF ClockInv, ClockTypes, AtMostOneAhead, BusyInTime, PendingInTime

\* cancel_delayed_work_sync removes the timer.
LEMMA TimedCancelWorkKeeps ==
  ASSUME IInv, ClockInv, TimedCancelWork, now' = now
  PROVE  ClockInv'
<1>1. ~pending' /\ timer' = 0 /\ UNCHANGED <<streaming, work, now, next_frame_deadline_ns>>
  BY DEF TimedCancelWork, CancelWork, device, worker
<1> QED
  BY <1>1 DEF ClockInv, ClockTypes, AtMostOneAhead, BusyInTime, PendingInTime

\* The other sections neither start a stream, nor the work, nor the timer.
LEMMA UntimedKeeps ==
  ASSUME IInv, ClockInv, Produce \/ HandOverOrStop \/ Calls, UNCHANGED clock
  PROVE  ClockInv'
<1>1. (streaming' => streaming) /\ pending' = pending /\ (work' # "idle" => work # "idle")
  BY DEF Produce, HandOverOrStop, Calls, TakeBuffer, Fill, CommitFrame, Complete, BufQueue,
         FrameStop, FlushWork, StopStreaming, QueueCancel, QBuf, DQBuf, StreamOn, StreamOff,
         device, workqueue, worker
<1>2. Interval \in Nat /\ next_frame_deadline_ns \in Int
  BY IntervalFacts DEF ClockInv, ClockTypes
<1>3. FiresAt \in Int
  BY TimingAssumption DEF ClockInv, ClockTypes, FiresAt, Most
<1>4. FiresAt' = FiresAt
  BY DEF FiresAt, clock
<1> QED
  BY <1>1, <1>2, <1>3, <1>4
     DEF clock, ClockInv, ClockTypes, AtMostOneAhead, BusyInTime, PendingInTime

-----------------------------------------------------------------------------
\* The producer is never ahead of its rate by more than one frame: the next frame
\* is due within two intervals (advance_deadline, rearm_producer, notify_buffer).
THEOREM NeverFarAhead == TimedSpec => []AtMostOneAhead
<1>1. TimerInit => ClockInv
  BY TimingAssumption, IntervalFacts
     DEF TimerInit, Init, ClockInv, ClockTypes, AtMostOneAhead, BusyInTime, PendingInTime
<1>2. IInv /\ ClockInv /\ [TimedNext]_timedVars => ClockInv'
  <2> SUFFICES ASSUME IInv, ClockInv, [TimedNext]_timedVars PROVE ClockInv'
    OBVIOUS
  <2>1. CASE Tick \/ TimerFires
    BY <2>1, TickKeeps, TimerFiresKeeps
  <2>2. CASE TimedFrameWork
    BY <2>2, TimedRearmProducerKeeps, UntimedKeeps DEF TimedFrameWork
  <2>3. CASE TimedInIoctl
    BY <2>3, TimedNotifyBufferKeeps, TimedFrameStartKeeps, TimedCancelWorkKeeps, UntimedKeeps
       DEF TimedInIoctl
  <2>4. CASE Calls /\ UNCHANGED clock
    BY <2>4, UntimedKeeps
  <2>5. CASE UNCHANGED timedVars
    BY <2>5 DEF timedVars, vars, clock, device, workqueue, worker, ClockInv, ClockTypes,
                AtMostOneAhead, BusyInTime, PendingInTime, FiresAt
  <2> QED
    BY <2>1, <2>2, <2>3, <2>4, <2>5 DEF TimedNext
<1>3. ClockInv => AtMostOneAhead
  BY DEF ClockInv
<1> QED
  BY <1>1, <1>2, <1>3, ClockOnlyDelays, Inductive, PTL DEF TimedSpec
=============================================================================
