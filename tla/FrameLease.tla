----------------------------- MODULE FrameLease -----------------------------
(***************************************************************************)
(* What a camera session promises about borrowed frames: a buffer is lent  *)
(* to one frame at a time, and what it shows stays as it was lent until    *)
(* the frame is returned, or the session takes back everything it lent.    *)
(* CameraSession over its backend implements this specification.           *)
(***************************************************************************)
CONSTANTS
  Sessions,
  Slots,      \* the frame buffers of one session's camera
  Contents

VARIABLES
  lent,       \* the slots each session has lent
  content     \* what each slot of each session shows

vars == <<lent, content>>

Init ==
  /\ lent = [s \in Sessions |-> {}]
  /\ content \in [Sessions -> [Slots -> Contents]]

\* Only s is concerned, and its slots in kept keep what they show.
Keeps(s, kept) ==
  /\ content' \in [Sessions -> [Slots -> Contents]]
  /\ \A other \in Sessions \ {s} : content'[other] = content[other]
  /\ \A slot \in kept : content'[s][slot] = content[s][slot]

Lend(s, slot) ==
  /\ slot \notin lent[s]
  /\ lent' = [lent EXCEPT ![s] = @ \cup {slot}]
  /\ Keeps(s, lent[s])

Return(s, slot) ==
  /\ slot \in lent[s]
  /\ lent' = [lent EXCEPT ![s] = @ \ {slot}]
  /\ Keeps(s, Slots)

\* The camera may use what is not lent as it pleases.
Rewrite(s) ==
  /\ UNCHANGED lent
  /\ Keeps(s, lent[s])

Next ==
  \E s \in Sessions :
    \/ \E slot \in Slots : Lend(s, slot) \/ Return(s, slot)
    \/ Rewrite(s)

Spec == Init /\ [][Next]_vars
=============================================================================
