------------------------------ MODULE VideoQueue ------------------------------
(***************************************************************************)
(* What the capture driver promises the application that queues buffers:   *)
(* they come back in the order they were queued, each once, with the       *)
(* frames of a stream numbered 0, 1, 2, ...; what a buffer shows does not  *)
(* change once it is complete.  CamstreamVideo implements it.              *)
(***************************************************************************)
EXTENDS Naturals, SequencesExt

CONSTANTS
  Buffers,
  Modulus   \* the frame numbers wrap

VARIABLES
  queue,    \* the buffers queued and not yet dequeued, the oldest first
  filled,   \* what the first Len(filled) of them show
  on,
  number    \* of the stream's next frame

vars == <<queue, filled, on, number>>

Failed == [ok |-> FALSE, sequence |-> 0, image |-> 0]
Frame(n) == [ok |-> TRUE, sequence |-> n, image |-> n]

Init ==
  /\ queue = <<>>
  /\ filled = <<>>
  /\ on = FALSE
  /\ number = 0

Queue(b) ==
  /\ b \notin ToSet(queue)
  /\ queue' = Append(queue, b)
  /\ UNCHANGED <<filled, on, number>>

StreamOn ==
  /\ ~on
  /\ on' = TRUE
  /\ number' = 0
  /\ UNCHANGED <<queue, filled>>

Produce ==
  /\ on
  /\ Len(filled) < Len(queue)
  /\ filled' = Append(filled, Frame(number))
  /\ number' = (number + 1) % Modulus
  /\ UNCHANGED <<queue, on>>

\* A frame that fails takes no number.
Spoil ==
  /\ on
  /\ Len(filled) < Len(queue)
  /\ filled' = Append(filled, Failed)
  /\ UNCHANGED <<queue, on, number>>

Dequeue ==
  /\ filled # <<>>
  /\ filled' = Tail(filled)
  /\ queue' = Tail(queue)
  /\ UNCHANGED <<on, number>>

\* All buffers go back to the application.
StreamOff ==
  /\ on' = FALSE
  /\ queue' = <<>>
  /\ filled' = <<>>
  /\ number' = 0

Next ==
  (\E b \in Buffers : Queue(b)) \/ StreamOn \/ Produce \/ Spoil \/ Dequeue \/ StreamOff

Spec == Init /\ [][Next]_vars
=============================================================================
