-------------------------- MODULE SimulatedCamera --------------------------
(***************************************************************************)
(* One instance of the simulated camera backend                            *)
(* (backends/camera/simulated/src/camera_backend_simulated.cpp): a record  *)
(* for SimulatedCamera and, for each callback of the operation table, the  *)
(* reply it gives, which is a status and the camera it leaves behind.      *)
(* A payload is named by the sequence number it is generated from.         *)
(***************************************************************************)
EXTENDS Naturals

CONSTANT BufferCount   \* kBufferCount

ASSUME BufferAssumption == BufferCount \in Nat \ {0}

Buffers == 0 .. BufferCount - 1

SimulatedState == {"Created", "Open", "Configured", "Started", "Stopped"}

\* The reasons last_error gives.  A callback that fails replies with its reason:
\* the callers tell the failing statuses apart no further than that.
Errors == {"none", "exception", "invalid_argument", "invalid_state",
           "not_supported", "resource_error", "unknown_token"}

Camera ==
  [state : SimulatedState,
   storage : [Buffers -> Nat],
   token : [Buffers -> Nat],
   outstanding : SUBSET Buffers,
   last_error : Errors,
   next_sequence : Nat,
   next_token : Nat,
   next_buffer : Buffers]

NewCamera ==
  [state |-> "Created",
   storage |-> [b \in Buffers |-> 0],
   token |-> [b \in Buffers |-> 0],
   outstanding |-> {},
   last_error |-> "none",
   next_sequence |-> 0,
   next_token |-> 1,
   next_buffer |-> 0]

OK(c) == [status |-> "OK", camera |-> [c EXCEPT !.last_error = "none"]]
Failed(c, error) == [status |-> error, camera |-> [c EXCEPT !.last_error = error]]

-----------------------------------------------------------------------------
SimulatedOpen(c, supported) ==
  CASE c.state # "Created" -> Failed(c, "invalid_state")
    [] c.state = "Created" /\ ~supported -> Failed(c, "not_supported")
    [] OTHER -> OK([c EXCEPT !.state = "Open"])

SimulatedClose(c) ==
  CASE c.state = "Created" -> OK(c)
    [] c.state = "Started" -> Failed(c, "invalid_state")
    [] c.state \notin {"Created", "Started"} /\ c.outstanding # {} ->
         Failed(c, "invalid_state")
    [] OTHER -> OK([c EXCEPT !.state = "Created"])

SimulatedGetCapabilities(c) ==
  IF c.state \in {"Open", "Configured"} THEN OK(c) ELSE Failed(c, "invalid_state")

SimulatedGetStreamConfiguration(c, index) ==
  CASE c.state # "Open" -> Failed(c, "invalid_state")
    [] c.state = "Open" /\ index # 0 -> Failed(c, "invalid_argument")
    [] OTHER -> OK(c)

SimulatedConfigure(c, supported) ==
  CASE c.state # "Open" -> Failed(c, "invalid_state")
    [] c.state = "Open" /\ ~supported -> Failed(c, "not_supported")
    [] OTHER -> OK([c EXCEPT !.state = "Configured"])

\* Every stream counts its sequence and its tokens from the beginning again.
SimulatedStart(c) ==
  IF c.state # "Configured"
  THEN Failed(c, "invalid_state")
  ELSE OK([c EXCEPT !.state = "Started",
                    !.next_sequence = 0,
                    !.next_token = 1,
                    !.next_buffer = 0,
                    !.token = [b \in Buffers |-> 0],
                    !.outstanding = {}])

\* The simulation never waits: a frame is ready whenever a buffer is.
SimulatedWaitFrame(c) ==
  CASE c.state # "Started" -> Failed(c, "invalid_state")
    [] c.state = "Started" /\ c.outstanding = Buffers ->
         [status |-> "timeout", camera |-> c]
    [] OTHER -> OK(c)

\* The first free buffer, searching round from next_buffer.
Distance(c, b) == (b + BufferCount - c.next_buffer) % BufferCount

IsAvailableBuffer_ignoresOutstanding(c, b) ==
  \A other \in Buffers : Distance(c, b) <= Distance(c, other)

IsAvailableBuffer(c, b) ==
  /\ b \notin c.outstanding
  /\ \A other \in Buffers \ c.outstanding : Distance(c, b) <= Distance(c, other)

FillBuffer_noWrap(c, b) ==
  [c EXCEPT !.storage[b] = c.next_sequence,
            !.token[b] = c.next_token,
            !.outstanding = @ \cup {b},
            !.next_sequence = @ + 1,
            !.next_token = @ + 1,
            !.next_buffer = b + 1]

FillBuffer(c, b) ==
  [c EXCEPT !.storage[b] = c.next_sequence,
            !.token[b] = c.next_token,
            !.outstanding = @ \cup {b},
            !.next_sequence = @ + 1,
            !.next_token = @ + 1,
            !.next_buffer = (b + 1) % BufferCount]

\* A granted frame comes with the buffer its planes point into.
Granted(c, b) ==
  [status |-> "OK", camera |-> [c EXCEPT !.last_error = "none"],
   buffer |-> b, token |-> c.token[b], sequence |-> c.storage[b]]

SimulatedAcquireFrame(c) ==
  CASE c.state # "Started" -> {Failed(c, "invalid_state")}
    [] c.state = "Started" /\ c.outstanding = Buffers -> {Failed(c, "resource_error")}
    [] OTHER -> {Granted(FillBuffer(c, b), b) : b \in {x \in Buffers : IsAvailableBuffer(c, x)}}

\* find_token
Holding(c, token) == {b \in c.outstanding : c.token[b] = token}

SimulatedReleaseFrame(c, token) ==
  CASE token = 0 -> Failed(c, "invalid_argument")
    [] token # 0 /\ c.state # "Started" -> Failed(c, "invalid_state")
    [] token # 0 /\ c.state = "Started" /\ Holding(c, token) = {} ->
         Failed(c, "unknown_token")
    [] OTHER ->
         OK([c EXCEPT !.outstanding = @ \ Holding(c, token),
                      !.token = [b \in Buffers |->
                                   IF b \in Holding(c, token) THEN 0 ELSE @[b]]])

SimulatedStop(c) ==
  CASE c.state = "Stopped" -> OK(c)
    [] c.state \notin {"Started", "Stopped"} -> Failed(c, "invalid_state")
    [] c.state = "Started" /\ c.outstanding # {} -> Failed(c, "invalid_state")
    [] OTHER -> OK([c EXCEPT !.state = "Stopped"])
=============================================================================
