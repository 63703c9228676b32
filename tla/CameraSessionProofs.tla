------------------------- MODULE CameraSessionProofs -------------------------
(***************************************************************************)
(* Theorems about CameraSession for any sessions, any number of buffers    *)
(* and any length of a stream.  What the backend may do wrong is said      *)
(* theorem by theorem:                                                     *)
(*   SessionInv holds whatever it does, and so does the promise that       *)
(*     FrameLease makes;                                                   *)
(*   LoanInv holds unless it grants a buffer it has granted already, and   *)
(*     so does StepInv, which follows the camera through the destructor.   *)
(* Each invariant is proved from the ones before it, a session at a time:  *)
(* no step of one session concerns another (Locality).  At the end, what   *)
(* the exit status of camstream-camera-test says: the program is one       *)
(* caller of CameraSession among others, so that SessionInv holds of its   *)
(* session, and ProgramInv adds what main() and run_diagnostic() know at   *)
(* each statement.                                                         *)
(***************************************************************************)
EXTENDS CameraTest, FiniteSetTheorems, TLAPS

-----------------------------------------------------------------------------
(* The replies of the simulated backend.                                   *)

\* The tokens the stream has granted so far.
Issued(c) == 1 .. c.next_token - 1

\* A camera between two calls: no token is 0, those of its outstanding
\* buffers have been granted in this stream, and no two are the same.
SoundCamera(c) ==
  /\ c \in Camera
  /\ c.next_token # 0
  /\ \A b \in c.outstanding : c.token[b] \in Issued(c)
  /\ \A a, b \in c.outstanding : c.token[a] = c.token[b] => a = b

\* d has the loans of c, less those of the buffers in back.
Loans(c, d, back) ==
  /\ d \in Camera
  /\ d.storage = c.storage
  /\ d.next_token = c.next_token
  /\ d.outstanding = c.outstanding \ back
  /\ \A b \in d.outstanding : d.token[b] = c.token[b]

\* The last call was not one the camera forbids.
Harmless(c) == c.last_error \notin {"invalid_state", "unknown_token"}

\* Giving loans back keeps a camera sound.
LEMMA LoansSound ==
  ASSUME NEW c, NEW d, NEW back, SoundCamera(c), Loans(c, d, back)
  PROVE  SoundCamera(d)
  BY DEF SoundCamera, Loans, Issued, Camera

\* A call that fails leaves everything but the reason (throw_invalid_state
\* and its like).
LEMMA FailedReply ==
  ASSUME NEW c \in Camera, NEW e \in Errors
  PROVE  /\ Failed(c, e).status = e
         /\ Loans(c, Failed(c, e).camera, {})
         /\ Failed(c, e).camera.state = c.state
         /\ Failed(c, e).camera.last_error = e
  BY DEF Failed, Loans, Camera

\* A call that succeeds clears the reason and leaves the rest.
LEMMA OKReply ==
  ASSUME NEW c \in Camera
  PROVE  /\ OK(c).status = "OK"
         /\ Loans(c, OK(c).camera, {})
         /\ OK(c).camera.state = c.state
         /\ OK(c).camera.last_error = "none"
  BY DEF OK, Loans, Camera, Errors

\* A successful lifecycle call moves the state and lends nothing.
LEMMA MovedReply ==
  ASSUME NEW c \in Camera, NEW to \in SimulatedState
  PROVE  LET r == OK([c EXCEPT !.state = to])
         IN  /\ r.status = "OK"
             /\ Loans(c, r.camera, {})
             /\ r.camera.state = to
             /\ r.camera.last_error = "none"
  BY DEF OK, Loans, Camera, Errors

\* A reply that changes no loan, and the state only when it succeeds.
Moves(c, r, to) ==
  /\ Loans(c, r.camera, {})
  /\ r.camera.state = IF r.status = "OK" THEN to ELSE c.state

\* open: harmless in Created.
LEMMA OpenReply ==
  ASSUME NEW c \in Camera, NEW supported \in BOOLEAN
  PROVE  /\ Moves(c, SimulatedOpen(c, supported), "Open")
         /\ c.state = "Created" => Harmless(SimulatedOpen(c, supported).camera)
  <1> USE DEF Moves, Harmless, Errors, SimulatedState
  <1>1. CASE c.state # "Created"
    BY <1>1, FailedReply DEF SimulatedOpen
  <1>2. CASE c.state = "Created" /\ ~supported
    BY <1>2, FailedReply DEF SimulatedOpen
  <1>3. CASE c.state = "Created" /\ supported
    BY <1>3, MovedReply DEF SimulatedOpen
  <1> QED
    BY <1>1, <1>2, <1>3

\* configure: harmless in Open.
LEMMA ConfigureReply ==
  ASSUME NEW c \in Camera, NEW supported \in BOOLEAN
  PROVE  /\ Moves(c, SimulatedConfigure(c, supported), "Configured")
         /\ c.state = "Open" => Harmless(SimulatedConfigure(c, supported).camera)
  <1> USE DEF Moves, Harmless, Errors, SimulatedState
  <1>1. CASE c.state # "Open"
    BY <1>1, FailedReply DEF SimulatedConfigure
  <1>2. CASE c.state = "Open" /\ ~supported
    BY <1>2, FailedReply DEF SimulatedConfigure
  <1>3. CASE c.state = "Open" /\ supported
    BY <1>3, MovedReply DEF SimulatedConfigure
  <1> QED
    BY <1>1, <1>2, <1>3

\* close: it succeeds on a camera that does not stream and has lent nothing.
LEMMA CloseReply ==
  ASSUME NEW c \in Camera
  PROVE  /\ Moves(c, SimulatedClose(c), "Created")
         /\ c.state # "Started" /\ c.outstanding = {} =>
              SimulatedClose(c).status = "OK" /\ Harmless(SimulatedClose(c).camera)
  <1> USE DEF Moves, Harmless, Errors, SimulatedState
  <1>1. CASE c.state = "Created"
    BY <1>1, OKReply DEF SimulatedClose
  <1>2. CASE c.state = "Started"
    BY <1>2, FailedReply DEF SimulatedClose
  <1>3. CASE c.state \notin {"Created", "Started"} /\ c.outstanding # {}
    BY <1>3, FailedReply DEF SimulatedClose
  <1>4. CASE c.state \notin {"Created", "Started"} /\ c.outstanding = {}
    BY <1>4, MovedReply DEF SimulatedClose
  <1> QED
    BY <1>1, <1>2, <1>3, <1>4

\* stop: it succeeds on a camera that streams exactly when nothing is
\* outstanding.
LEMMA StopReply ==
  ASSUME NEW c \in Camera
  PROVE  /\ Moves(c, SimulatedStop(c), "Stopped")
         /\ c.state = "Started" /\ SimulatedStop(c).status = "OK" => c.outstanding = {}
         /\ c.state = "Started" /\ c.outstanding = {} =>
              SimulatedStop(c).status = "OK" /\ Harmless(SimulatedStop(c).camera)
  <1> USE DEF Moves, Harmless, Errors, SimulatedState
  <1>1. CASE c.state = "Stopped"
    BY <1>1, OKReply DEF SimulatedStop
  <1>2. CASE c.state \notin {"Started", "Stopped"}
    BY <1>2, FailedReply DEF SimulatedStop
  <1>3. CASE c.state = "Started" /\ c.outstanding # {}
    BY <1>3, FailedReply DEF SimulatedStop
  <1>4. CASE c.state = "Started" /\ c.outstanding = {}
    BY <1>4, MovedReply DEF SimulatedStop
  <1> QED
    BY <1>1, <1>2, <1>3, <1>4

\* get_capabilities and get_stream_configuration move nothing.
LEMMA QueryReplies ==
  ASSUME NEW c \in Camera, NEW position
  PROVE  /\ LET r == SimulatedGetCapabilities(c)
            IN  Moves(c, r, c.state) /\ (c.state \in {"Open", "Configured"} => Harmless(r.camera))
         /\ LET r == SimulatedGetStreamConfiguration(c, position)
            IN  Moves(c, r, c.state) /\ (c.state = "Open" => Harmless(r.camera))
  <1> USE DEF Moves, Harmless, Errors, SimulatedState
  <1>1. LET r == SimulatedGetCapabilities(c)
        IN  Moves(c, r, c.state) /\ (c.state \in {"Open", "Configured"} => Harmless(r.camera))
    BY FailedReply, OKReply DEF SimulatedGetCapabilities
  <1>2. LET r == SimulatedGetStreamConfiguration(c, position)
        IN  Moves(c, r, c.state) /\ (c.state = "Open" => Harmless(r.camera))
    BY FailedReply, OKReply DEF SimulatedGetStreamConfiguration
  <1> QED
    BY <1>1, <1>2

\* wait_frame moves nothing; a timeout keeps the reason of the call before.
LEMMA WaitReply ==
  ASSUME NEW c \in Camera
  PROVE  LET r == SimulatedWaitFrame(c)
         IN  /\ Moves(c, r, c.state)
             /\ c.state = "Started" /\ Harmless(c) => Harmless(r.camera)
  BY FailedReply, MovedReply, OKReply DEF Moves, SimulatedWaitFrame, Harmless, Errors, SimulatedState, Loans

\* start: a new stream begins with no loan and the first token.
LEMMA StartReply ==
  ASSUME NEW c \in Camera
  PROVE  LET r == SimulatedStart(c)
         IN  /\ r.status # "OK" => Moves(c, r, "Started")
             /\ r.status = "OK" => /\ SoundCamera(r.camera)
                                   /\ r.camera.state = "Started"
                                   /\ r.camera.outstanding = {}
             /\ c.state = "Configured" => Harmless(r.camera)
  <1>1. CASE c.state # "Configured"
    BY <1>1, FailedReply DEF Moves, SimulatedStart, Harmless, Errors
  <1>2. CASE c.state = "Configured"
    <2> DEFINE d == SimulatedStart(c).camera
    <2>1. /\ d \in Camera /\ d.state = "Started" /\ d.outstanding = {}
          /\ d.next_token = 1 /\ d.last_error = "none" /\ SimulatedStart(c).status = "OK"
      <3>1. 0 \in Buffers /\ [b \in Buffers |-> 0] \in [Buffers -> Nat]
        BY BufferAssumption DEF Buffers
      <3> DEFINE new == [c EXCEPT !.state = "Started",
                                  !.next_sequence = 0,
                                  !.next_token = 1,
                                  !.next_buffer = 0,
                                  !.token = [b \in Buffers |-> 0],
                                  !.outstanding = {}]
      <3>2. SimulatedStart(c) = OK(new)
        BY <1>2 DEF SimulatedStart
      <3>3. /\ new \in Camera /\ new.state = "Started" /\ new.outstanding = {}
            /\ new.next_token = 1
        BY <3>1 DEF Camera, SimulatedState
      <3> HIDE DEF new
      <3> QED
        BY <3>2, <3>3, OKReply DEF Loans
    <2> QED
      BY <2>1 DEF SoundCamera, Harmless
  <1> QED
    BY <1>1, <1>2

\* release_frame takes back every buffer of the token, and fails on a token
\* that has none.
LEMMA ReleaseReply ==
  ASSUME NEW c \in Camera, NEW token \in Nat
  PROVE  LET r == SimulatedReleaseFrame(c, token)
         IN  /\ r.camera.state = c.state
             /\ r.status # "OK" => Loans(c, r.camera, {})
             /\ r.status = "OK" =>
                  Loans(c, r.camera, Holding(c, token)) /\ Holding(c, token) # {}
             /\ token # 0 /\ c.state = "Started" /\ Holding(c, token) # {} =>
                  r.status = "OK" /\ Harmless(r.camera)
  <1> DEFINE d == [c EXCEPT !.outstanding = @ \ Holding(c, token),
                      !.token = [b \in Buffers |->
                                   IF b \in Holding(c, token) THEN 0 ELSE @[b]]]
  <1>1. d \in Camera /\ Loans(c, d, Holding(c, token)) /\ d.state = c.state
    <2>1. Holding(c, token) \subseteq Buffers
      BY DEF Holding, Camera
    <2>2. [b \in Buffers |-> IF b \in Holding(c, token) THEN 0 ELSE c.token[b]] \in [Buffers -> Nat]
      BY DEF Camera
    <2>3. d \in Camera
      BY <2>1, <2>2 DEF Camera
    <2> QED
      BY <2>3 DEF Loans, Camera
  <1>2. Loans(c, OK(d).camera, Holding(c, token))
    BY <1>1, OKReply DEF Loans
  <1> HIDE DEF d
  <1>3. CASE token = 0
    BY <1>3, FailedReply DEF SimulatedReleaseFrame, Errors
  <1>4. CASE token # 0 /\ c.state # "Started"
    BY <1>4, FailedReply DEF SimulatedReleaseFrame, Errors
  <1>5. CASE token # 0 /\ c.state = "Started" /\ Holding(c, token) = {}
    BY <1>5, FailedReply DEF SimulatedReleaseFrame, Errors
  <1>6. CASE token # 0 /\ c.state = "Started" /\ Holding(c, token) # {}
    <2>1. SimulatedReleaseFrame(c, token) = OK(d)
      BY <1>6 DEF SimulatedReleaseFrame, d
    <2> QED
      BY <1>1, <1>2, <1>6, <2>1, OKReply DEF Harmless
  <1> QED
    BY <1>3, <1>4, <1>5, <1>6

\* A new frame: a free buffer, filled, under the next token.
FilledReply(c, r) ==
  /\ r.status = "OK"
  /\ r.camera \in Camera
  /\ r.camera.state = c.state
  /\ r.buffer \in Buffers \ c.outstanding
  /\ r.token = c.next_token
  /\ r.camera.next_token = c.next_token + 1
  /\ r.camera.outstanding = c.outstanding \cup {r.buffer}
  /\ r.camera.token = [c.token EXCEPT ![r.buffer] = r.token]
  /\ r.sequence \in Nat
  /\ r.sequence = c.next_sequence
  /\ r.camera.next_sequence = c.next_sequence + 1
  /\ r.camera.storage = [c.storage EXCEPT ![r.buffer] = r.sequence]
  /\ r.camera.last_error = "none"

\* fill_buffer of an available buffer gives a new frame.
LEMMA FillReply ==
  ASSUME NEW c \in Camera, NEW b \in Buffers, IsAvailableBuffer(c, b)
  PROVE  FilledReply(c, Granted(FillBuffer(c, b), b))
  <1> DEFINE f == FillBuffer(c, b)
  <1>1. (b + 1) % BufferCount \in Buffers
    BY BufferAssumption DEF Buffers
  <1>2. /\ f \in Camera
        /\ f.state = c.state
        /\ f.next_token = c.next_token + 1
        /\ f.next_sequence = c.next_sequence + 1
        /\ f.outstanding = c.outstanding \cup {b}
        /\ f.token = [c.token EXCEPT ![b] = c.next_token]
        /\ f.storage = [c.storage EXCEPT ![b] = c.next_sequence]
    <2>1. /\ [c.token EXCEPT ![b] = c.next_token] \in [Buffers -> Nat]
          /\ [c.storage EXCEPT ![b] = c.next_sequence] \in [Buffers -> Nat]
          /\ c.outstanding \cup {b} \in SUBSET Buffers
          /\ c.next_sequence + 1 \in Nat /\ c.next_token + 1 \in Nat
      BY DEF Camera
    <2>2. f = [c EXCEPT !.storage = [c.storage EXCEPT ![b] = c.next_sequence],
                        !.token = [c.token EXCEPT ![b] = c.next_token],
                        !.outstanding = c.outstanding \cup {b},
                        !.next_sequence = c.next_sequence + 1,
                        !.next_token = c.next_token + 1,
                        !.next_buffer = (b + 1) % BufferCount]
      BY DEF FillBuffer, Camera
    <2> QED
      BY <1>1, <2>1, <2>2 DEF Camera
  <1>3. f.token[b] = c.next_token /\ f.storage[b] = c.next_sequence
    BY <1>2 DEF Camera
  <1> HIDE DEF f
  <1>4. c.next_sequence \in Nat /\ b \notin c.outstanding
    BY DEF Camera, IsAvailableBuffer
  <1> DEFINE r == Granted(f, b)
  <1>5. /\ r.status = "OK" /\ r.camera = [f EXCEPT !.last_error = "none"]
        /\ r.buffer = b /\ r.token = c.next_token /\ r.sequence = c.next_sequence
    BY <1>3 DEF Granted
  <1>6. /\ r.camera \in Camera /\ r.camera.state = f.state /\ r.camera.next_token = f.next_token
        /\ r.camera.next_sequence = f.next_sequence
        /\ r.camera.outstanding = f.outstanding /\ r.camera.token = f.token
        /\ r.camera.storage = f.storage /\ r.camera.last_error = "none"
    BY <1>2, <1>5 DEF Camera, Errors
  <1> HIDE DEF r
  <1>7. FilledReply(c, r)
    BY <1>2, <1>4, <1>5, <1>6 DEF FilledReply
  <1> QED
    BY <1>7 DEF r, f

\* A frame that was granted before, granted again.
RepeatedReply(c, r) ==
  /\ r.status = "OK"
  /\ Loans(c, r.camera, {})
  /\ r.camera.state = c.state
  /\ r.buffer \in c.outstanding
  /\ r.token = c.token[r.buffer]
  /\ r.sequence = c.storage[r.buffer]
  /\ r.camera.last_error = "none"

\* Any callback may answer as it should, or fail without doing anything.
LEMMA RepliesFacts ==
  ASSUME NEW s \in Sessions, NEW right, NEW r \in Replies(s, right), camera[s] \in Camera
  PROVE  \/ r = right
         \/ /\ "callback" \in Faults
            /\ r.status # "OK"
            /\ Loans(camera[s], r.camera, {})
            /\ r.camera.state = camera[s].state
            /\ Harmless(r.camera)
  BY FailedReply DEF Replies, Errors, Harmless

\* A callback that fails without cause changes no loan and no state either.
LEMMA MovesReplies ==
  ASSUME NEW s \in Sessions, NEW right, NEW to, NEW r \in Replies(s, right),
         camera[s] \in Camera, Moves(camera[s], right, to)
  PROVE  Moves(camera[s], r, to) /\ (Harmless(right.camera) => Harmless(r.camera))
  BY RepliesFacts DEF Moves

\* acquire_frame of a camera that streams fails, gives a new frame or, when
\* it may, one it has granted already.
LEMMA AcquireFacts ==
  ASSUME NEW s \in Sessions, camera[s] \in Camera, camera[s].state = "Started",
         NEW r \in AcquireReplies(s)
  PROVE  \/ r.status # "OK" /\ Moves(camera[s], r, camera[s].state) /\ Harmless(r.camera)
         \/ FilledReply(camera[s], r)
         \/ "duplicate" \in Faults /\ RepeatedReply(camera[s], r)
  <1> DEFINE c == camera[s]
  <1>1. ASSUME NEW right \in SimulatedAcquireFrame(c), r \in Replies(s, right)
        PROVE  \/ r.status # "OK" /\ Moves(c, r, c.state) /\ Harmless(r.camera)
               \/ FilledReply(c, r)
    <2>1. CASE c.outstanding = Buffers
      <3>1. right = Failed(c, "resource_error")
        BY <2>1, <1>1 DEF SimulatedAcquireFrame
      <3>2. right.status # "OK" /\ Moves(c, right, c.state) /\ Harmless(right.camera)
        BY <3>1, FailedReply DEF Moves, Harmless, Errors
      <3> QED
        BY <1>1, <3>2, RepliesFacts DEF Moves
    <2>2. CASE c.outstanding # Buffers
      <3>1. PICK b \in Buffers : IsAvailableBuffer(c, b) /\ right = Granted(FillBuffer(c, b), b)
        BY <2>2, <1>1 DEF SimulatedAcquireFrame
      <3>2. FilledReply(c, right)
        BY <3>1, FillReply
      <3> QED
        BY <1>1, <3>2, RepliesFacts DEF Moves
    <2> QED
      BY <2>1, <2>2
  <1>2. ASSUME NEW b \in c.outstanding, "duplicate" \in Faults, r = Granted(c, b)
        PROVE  RepeatedReply(c, r)
    BY <1>2, OKReply DEF RepeatedReply, Granted, OK
  <1> QED
    BY <1>1, <1>2 DEF AcquireReplies

\* A granted frame is one of the camera's loans, of a token of this stream.
LEMMA GrantedSound ==
  ASSUME NEW c, SoundCamera(c), NEW r, FilledReply(c, r) \/ RepeatedReply(c, r)
  PROVE  /\ SoundCamera(r.camera)
         /\ r.camera.state = c.state
         /\ r.buffer \in r.camera.outstanding
         /\ r.token = r.camera.token[r.buffer]
         /\ r.sequence = r.camera.storage[r.buffer]
         /\ r.token \in Issued(r.camera)
         /\ Issued(c) \subseteq Issued(r.camera)
         /\ Harmless(r.camera)
  <1>1. CASE FilledReply(c, r)
    <2> USE <1>1 DEF FilledReply, SoundCamera
    <2>1. r.camera.token[r.buffer] = c.next_token /\ r.camera.storage[r.buffer] = r.sequence
      BY DEF Camera
    <2>2. c.next_token \in Nat \ {0} /\ r.camera.next_token \in Nat \ {0}
      BY DEF Camera
    <2>3. Issued(c) \subseteq Issued(r.camera) /\ c.next_token \in Issued(r.camera)
          /\ c.next_token \notin Issued(c)
      BY <2>2 DEF Issued
    <2>4. \A b \in c.outstanding : r.camera.token[b] = c.token[b]
      BY DEF Camera
    <2>5. SoundCamera(r.camera)
      BY <2>1, <2>2, <2>3, <2>4
    <2> QED
      BY <2>1, <2>3, <2>5 DEF Harmless
  <1>2. CASE RepeatedReply(c, r)
    <2>1. SoundCamera(r.camera)
      BY <1>2, LoansSound DEF RepeatedReply
    <2> QED
      BY <1>2, <2>1 DEF RepeatedReply, SoundCamera, Loans, Issued, Harmless
  <1> QED
    BY <1>1, <1>2

-----------------------------------------------------------------------------
(* Every session, whatever its backend does.                               *)

\* The session owes only tokens of this stream.
TokensIssued(s) == outstanding_tokens[s] \subseteq Issued(camera[s])

\* Outside a stream, and once the destructor has released everything, a
\* session owes no token; only the destructor gives up a stream that owes
\* some.
OwesNothing(s) ==
  /\ pc[s] = "absent" => state[s] = "Created" /\ camera[s] = NewCamera
  /\ pc[s] \notin {"live", "release"} => outstanding_tokens[s] = {}
  /\ pc[s] \in {"absent", "live"} /\ state[s] # "Started" =>
       /\ outstanding_tokens[s] = {}
       /\ pending_cleanup_token[s] = NoToken
       /\ camera[s].outstanding = {}

\* LifecyclesAgree, of one session.
Agrees(s) ==
  pc[s] = "live" =>
    \/ camera[s].state = state[s]
    \/ "configuration" \in Faults /\ state[s] = "Open" /\ camera[s].state = "Configured"

\* What holds of one session whatever its backend does.
SessionOK(s) ==
  /\ pc[s] \in Places
  /\ state[s] \in SessionState
  /\ outstanding_tokens[s] \subseteq Tokens
  /\ pending_cleanup_token[s] \in Nat
  /\ SoundCamera(camera[s])
  /\ TokensIssued(s)
  /\ OwesNothing(s)
  /\ Agrees(s)

\* The invariant of every session over any backend; it is inductive.
SessionInv == TypeOK /\ \A s \in Sessions : SessionOK(s)

\* A step that concerns s only.
Only(s) ==
  /\ pc' = [pc EXCEPT ![s] = pc'[s]]
  /\ state' = [state EXCEPT ![s] = state'[s]]
  /\ outstanding_tokens' = [outstanding_tokens EXCEPT ![s] = outstanding_tokens'[s]]
  /\ pending_cleanup_token' = [pending_cleanup_token EXCEPT ![s] = pending_cleanup_token'[s]]
  /\ camera' = [camera EXCEPT ![s] = camera'[s]]

\* A step that concerns one session keeps the invariant if it keeps that
\* session sound and the views well formed.
LEMMA OneSession ==
  ASSUME SessionInv, NEW s \in Sessions, Only(s), SessionOK(s)', frames' \subseteq Frame
  PROVE  SessionInv'
  <1> USE DEF SessionInv
  <1>1. TypeOK'
    BY DEF TypeOK, Only, SessionOK, SoundCamera
  <1>2. ASSUME NEW o \in Sessions, o # s
        PROVE  SessionOK(o)'
    <2>1. /\ pc'[o] = pc[o] /\ state'[o] = state[o]
          /\ outstanding_tokens'[o] = outstanding_tokens[o]
          /\ pending_cleanup_token'[o] = pending_cleanup_token[o] /\ camera'[o] = camera[o]
      BY <1>2 DEF Only, TypeOK
    <2>2. SessionOK(o)
      OBVIOUS
    <2> QED
      BY <2>1, <2>2 DEF SessionOK, TokensIssued, OwesNothing, Agrees
  <1> QED
    BY <1>1, <1>2

\* What dispatching a reply does to the record of the cameras.
LEMMA Dispatched ==
  ASSUME TypeOK, NEW s \in Sessions, NEW r, Dispatch(s, r)
  PROVE  camera'[s] = r.camera /\ camera' = [camera EXCEPT ![s] = camera'[s]]
  BY DEF TypeOK, Dispatch

\* A variable that does not change does not change for the other sessions.
LEMMA Untouched ==
  ASSUME TypeOK, NEW s \in Sessions
  PROVE  /\ UNCHANGED pc => pc' = [pc EXCEPT ![s] = pc'[s]]
         /\ UNCHANGED state => state' = [state EXCEPT ![s] = state'[s]]
         /\ UNCHANGED outstanding_tokens =>
              outstanding_tokens' = [outstanding_tokens EXCEPT ![s] = outstanding_tokens'[s]]
         /\ UNCHANGED pending_cleanup_token =>
              pending_cleanup_token' =
                [pending_cleanup_token EXCEPT ![s] = pending_cleanup_token'[s]]
         /\ UNCHANGED camera => camera' = [camera EXCEPT ![s] = camera'[s]]
  BY DEF TypeOK

\* Nothing a session does concerns another one.
LEMMA Locality ==
  ASSUME TypeOK, NEW s \in Sessions, Changing(s) \/ Streaming(s) \/ Cleanup(s)
  PROVE  Only(s)
  <1> USE Untouched, Dispatched DEF TypeOK, Only
  <1>1. ASSUME NEW r, NEW to, Lifecycle(s, r, to) \/ Query(s, r) PROVE Only(s)
    BY <1>1 DEF Lifecycle, Query, Advance
  <1>2. CASE Load(s)
    BY <1>2 DEF Load
  <1>3. CASE Open(s) \/ Capabilities(s) \/ StreamConfiguration(s) \/ Configure(s)
              \/ Start(s) \/ Close(s) \/ WaitFrame(s) \/ AcquireFails(s)
    BY <1>1, <1>3 DEF Open, OpenSource, Capabilities, StreamConfiguration, StreamConfigurationAt,
       Configure, ConfigureStream, Start, Close, WaitFrame, AcquireFails
  <1>4. CASE Stop(s)
    BY <1>4 DEF Stop, StopCallback, Advance
  <1>5. CASE Acquire(s)
    BY <1>5 DEF Acquire
  <1>6. CASE AcquireRollsBack(s)
    BY <1>6 DEF AcquireRollsBack
  <1>7. ASSUME NEW f \in frames, ReleaseFrame(s, f) PROVE Only(s)
    BY <1>7 DEF ReleaseFrame, Forget
  <1>8. CASE Destruct(s)
    BY <1>8 DEF Destruct, Goto
  <1>9. CASE CleanupReleases(s)
    BY <1>9 DEF CleanupReleases, Goto, Forget
  <1>10. CASE CleanupStops(s)
    BY <1>10 DEF CleanupStops, CleanupCalls, Goto
  <1>11. CASE CleanupCloses(s)
    BY <1>11 DEF CleanupCloses, CleanupCalls, Goto
  <1>12. CASE CleanupDestroys(s)
    BY <1>12 DEF CleanupDestroys, Goto
  <1> QED
    BY <1>2, <1>3, <1>4, <1>5, <1>6, <1>7, <1>8, <1>9, <1>10, <1>11, <1>12
       DEF Changing, Streaming, Cleanup

\* A call that leaves the loans as they are.
LEMMA LifecycleStep ==
  ASSUME SessionInv, NEW s \in Sessions, pc[s] = "live", NEW to \in SessionState,
         NEW r, Moves(camera[s], r, to), Lifecycle(s, r, to),
         to = "Started" \/ state[s] # "Started"
  PROVE  SessionOK(s)' /\ frames' \subseteq Frame
  <1> USE DEF SessionInv
  <1>1. /\ pc'[s] = pc[s] /\ outstanding_tokens'[s] = outstanding_tokens[s]
        /\ pending_cleanup_token'[s] = pending_cleanup_token[s] /\ frames' = frames
        /\ state'[s] = (IF r.status = "OK" THEN to ELSE state[s])
        /\ camera'[s] = r.camera
    BY Dispatched DEF Lifecycle, Advance, TypeOK
  <1>3. SoundCamera(camera'[s])
    BY <1>1, LoansSound DEF Moves, SessionOK
  <1>5. /\ camera'[s].outstanding = camera[s].outstanding
        /\ Issued(camera'[s]) = Issued(camera[s])
    BY <1>1 DEF Moves, Loans, Issued
  <1>4. SessionOK(s)'
    BY <1>1, <1>3, <1>5 DEF Moves, SessionOK, TokensIssued, OwesNothing, Agrees
  <1> QED
    BY <1>1, <1>4 DEF TypeOK

\* A call after which the session is where it was: a query, or a
\* configuration it refuses to take over from the backend.
LEMMA QueryStep ==
  ASSUME SessionInv, NEW s \in Sessions, pc[s] = "live", NEW to,
         NEW r, Moves(camera[s], r, to), Query(s, r),
         \/ to = camera[s].state
         \/ "configuration" \in Faults /\ state[s] = "Open" /\ to = "Configured"
  PROVE  SessionOK(s)' /\ frames' \subseteq Frame
  <1> USE DEF SessionInv
  <1>1. /\ pc'[s] = pc[s] /\ outstanding_tokens'[s] = outstanding_tokens[s]
        /\ pending_cleanup_token'[s] = pending_cleanup_token[s] /\ frames' = frames
        /\ state'[s] = state[s]
        /\ camera'[s] = r.camera
    BY Dispatched DEF Query
  <1>3. SoundCamera(camera'[s])
    BY <1>1, LoansSound DEF Moves, SessionOK
  <1>5. /\ camera'[s].outstanding = camera[s].outstanding
        /\ Issued(camera'[s]) = Issued(camera[s])
    BY <1>1 DEF Moves, Loans, Issued
  <1>4. SessionOK(s)'
    BY <1>1, <1>3, <1>5 DEF Moves, SessionOK, TokensIssued, OwesNothing, Agrees
  <1> QED
    BY <1>1, <1>4 DEF TypeOK

\* What a release of any token does to the camera, whatever the callback answers.
LEMMA ReleaseReplies ==
  ASSUME NEW c \in Camera, SoundCamera(c), NEW token \in Nat,
         NEW r, r = SimulatedReleaseFrame(c, token) \/ r = Failed(c, "exception")
  PROVE  /\ SoundCamera(r.camera)
         /\ Issued(r.camera) = Issued(c)
         /\ r.camera.state = c.state
         /\ r.camera.outstanding \subseteq c.outstanding
  <1>1. PICK back : Loans(c, r.camera, back) /\ r.camera.state = c.state
    BY ReleaseReply, FailedReply DEF Errors
  <1>2. SoundCamera(r.camera)
    BY <1>1, LoansSound
  <1> QED
    BY <1>1, <1>2 DEF Loans, Issued

\* The two answers a dispatched callback can give.
LEMMA AnyReply ==
  ASSUME NEW s \in Sessions, NEW right, NEW r \in Replies(s, right)
  PROVE  r = right \/ ("callback" \in Faults /\ r = Failed(camera[s], "exception"))
  BY DEF Replies

\* load_backend and create.
LEMMA LoadStep ==
  ASSUME SessionInv, NEW s \in Sessions, Load(s)
  PROVE  SessionOK(s)' /\ frames' \subseteq Frame
  <1> USE DEF SessionInv
  <1>1. /\ pc'[s] = "live" /\ UNCHANGED <<state, outstanding_tokens, pending_cleanup_token, camera, frames>>
        /\ pc[s] = "absent" /\ pc' = [pc EXCEPT ![s] = pc'[s]]
    BY DEF Load, TypeOK
  <1>3. SessionOK(s)'
    BY <1>1 DEF SessionOK, TokensIssued, OwesNothing, Agrees, NewCamera, Places
  <1> QED
    BY <1>1, <1>3 DEF TypeOK

\* start(), whose success begins a stream that owes nothing.
LEMMA StartStep ==
  ASSUME SessionInv, NEW s \in Sessions, Start(s)
  PROVE  SessionOK(s)' /\ frames' \subseteq Frame
  <1> USE DEF SessionInv
  <1>1. PICK r \in Replies(s, SimulatedStart(camera[s])) : Lifecycle(s, r, "Started")
    BY DEF Start
  <1>2. pc[s] = "live" /\ state[s] = "Configured" /\ camera[s] \in Camera
    BY DEF Start, Calls, TypeOK
  <1>3. CASE Moves(camera[s], r, "Started")
    BY <1>1, <1>2, <1>3, LifecycleStep DEF SessionState, SimulatedState
  <1>4. CASE ~Moves(camera[s], r, "Started")
    <2>1. r.status = "OK" /\ SoundCamera(r.camera) /\ r.camera.state = "Started"
      BY <1>2, <1>4, StartReply, RepliesFacts DEF Moves
    <2>2. /\ pc'[s] = pc[s] /\ outstanding_tokens'[s] = outstanding_tokens[s]
          /\ pending_cleanup_token'[s] = pending_cleanup_token[s] /\ frames' = frames
          /\ state'[s] = "Started"
          /\ camera'[s] = r.camera
      BY <1>1, <2>1, Dispatched DEF Lifecycle, Advance, TypeOK
    <2>4. outstanding_tokens[s] = {}
      BY <1>2 DEF SessionOK, OwesNothing
    <2>5. SessionOK(s)'
      BY <1>2, <2>1, <2>2, <2>4
         DEF SessionOK, TokensIssued, OwesNothing, Agrees, SessionState, SimulatedState
    <2> QED
      BY <2>2, <2>5 DEF TypeOK
  <1> QED
    BY <1>3, <1>4

\* Over any backend, a session that is Started has a camera that streams.
LEMMA StreamingCamera ==
  ASSUME SessionInv, NEW s \in Sessions, Calls(s, {"Started"})
  PROVE  /\ pc[s] = "live"
         /\ state[s] = "Started"
         /\ camera[s].state = "Started"
         /\ camera[s] \in Camera
         /\ SoundCamera(camera[s])
  BY DEF SessionInv, SessionOK, Agrees, Calls, SoundCamera

\* acquire_frame() with a frame the session takes.
LEMMA AcquireStep ==
  ASSUME SessionInv, NEW s \in Sessions, Acquire(s)
  PROVE  SessionOK(s)' /\ frames' \subseteq Frame
  <1> USE DEF SessionInv
  <1>1. PICK r \in AcquireReplies(s) :
          /\ r.status = "OK"
          /\ Dispatch(s, r)
          /\ outstanding_tokens' = [outstanding_tokens EXCEPT ![s] = @ \cup {r.token}]
          /\ frames' = frames \cup
               {[owner_identity |-> s, frame_token |-> r.token,
                 sequence_number |-> r.sequence, plane |-> r.buffer]}
    BY DEF Acquire
  <1>2. /\ Calls(s, {"Started"}) /\ UNCHANGED <<pc, state, pending_cleanup_token>>
    BY DEF Acquire, MayAcquire
  <1>3. FilledReply(camera[s], r) \/ RepeatedReply(camera[s], r)
    BY <1>1, <1>2, StreamingCamera, AcquireFacts
  <1>4. /\ SoundCamera(r.camera)
        /\ r.camera.state = camera[s].state
        /\ r.buffer \in r.camera.outstanding
        /\ r.sequence = r.camera.storage[r.buffer]
        /\ r.token \in Issued(r.camera)
        /\ Issued(camera[s]) \subseteq Issued(r.camera)
    BY <1>2, <1>3, StreamingCamera, GrantedSound
  <1>5. r.token \in Tokens
    BY <1>4 DEF Issued, SoundCamera, Camera, Tokens, NoToken
  <1>6. frames' \subseteq Frame
    BY <1>1, <1>4, <1>5 DEF Frame, TypeOK, SoundCamera, Camera
  <1>7. /\ pc'[s] = pc[s] /\ state'[s] = state[s] /\ camera'[s] = r.camera
        /\ outstanding_tokens'[s] = outstanding_tokens[s] \cup {r.token}
        /\ pending_cleanup_token'[s] = pending_cleanup_token[s]
    BY <1>1, <1>2, Dispatched DEF TypeOK
  <1>9. SessionOK(s)'
    BY <1>2, <1>4, <1>5, <1>7, StreamingCamera DEF SessionOK, TokensIssued, OwesNothing, Agrees
  <1> QED
    BY <1>6, <1>9

\* acquire_frame() with a frame the session gives back at once.
LEMMA RollBackStep ==
  ASSUME SessionInv, NEW s \in Sessions, AcquireRollsBack(s)
  PROVE  SessionOK(s)' /\ frames' \subseteq Frame
  <1> USE DEF SessionInv
  <1>1. PICK r \in AcquireReplies(s) :
          /\ r.status = "OK"
          /\ \E back \in {SimulatedReleaseFrame(r.camera, r.token)}
                        \cup {x \in {Failed(r.camera, "exception")} : "callback" \in Faults} :
               /\ Dispatch(s, back)
               /\ pending_cleanup_token' =
                    [pending_cleanup_token EXCEPT ![s] = Remembered(s, back, r.token)]
    BY DEF AcquireRollsBack
  <1>2. PICK back : /\ back = SimulatedReleaseFrame(r.camera, r.token)
                       \/ back = Failed(r.camera, "exception")
                    /\ Dispatch(s, back)
                    /\ pending_cleanup_token' =
                         [pending_cleanup_token EXCEPT ![s] = Remembered(s, back, r.token)]
    BY <1>1
  <1>3. Calls(s, {"Started"}) /\ UNCHANGED <<pc, state, outstanding_tokens, frames>>
    BY DEF AcquireRollsBack, MayAcquire
  <1>4. FilledReply(camera[s], r) \/ RepeatedReply(camera[s], r)
    BY <1>1, <1>3, StreamingCamera, AcquireFacts
  <1>5. /\ SoundCamera(r.camera)
        /\ r.camera.state = camera[s].state
        /\ r.token \in Nat
        /\ Issued(camera[s]) \subseteq Issued(r.camera)
    BY <1>3, <1>4, StreamingCamera, GrantedSound DEF Issued
  <1>6. /\ SoundCamera(back.camera)
        /\ Issued(back.camera) = Issued(r.camera)
        /\ back.camera.state = r.camera.state
    BY <1>2, <1>5, ReleaseReplies DEF SoundCamera
  <1>7. /\ pc'[s] = pc[s] /\ state'[s] = state[s] /\ camera'[s] = back.camera
        /\ outstanding_tokens'[s] = outstanding_tokens[s]
        /\ pending_cleanup_token'[s] \in Nat
    BY <1>2, <1>3, <1>5, Dispatched DEF TypeOK, Remembered, NoToken
  <1>9. SessionOK(s)'
    BY <1>3, <1>5, <1>6, <1>7, StreamingCamera DEF SessionOK, TokensIssued, OwesNothing, Agrees
  <1> QED
    BY <1>3, <1>9 DEF TypeOK

\* release_frame().
LEMMA ReleaseStep ==
  ASSUME SessionInv, NEW s \in Sessions, NEW f \in frames, ReleaseFrame(s, f)
  PROVE  SessionOK(s)' /\ frames' \subseteq Frame
  <1> USE DEF SessionInv
  <1>1. PICK r \in Replies(s, SimulatedReleaseFrame(camera[s], f.frame_token)) :
          /\ Dispatch(s, r)
          /\ \/ /\ r.status = "OK"
                /\ Forget(s, f.frame_token)
                /\ frames' = frames \ {f}
             \/ /\ r.status # "OK"
                /\ UNCHANGED <<outstanding_tokens, frames>>
    BY DEF ReleaseFrame
  <1>2. Calls(s, {"Started"}) /\ UNCHANGED <<pc, state, pending_cleanup_token>>
    BY DEF ReleaseFrame
  <1>3. f.frame_token \in Nat
    BY DEF TypeOK, Frame, Tokens
  <1>4. SoundCamera(r.camera) /\ Issued(r.camera) = Issued(camera[s])
        /\ r.camera.state = camera[s].state
    BY <1>2, <1>3, AnyReply, ReleaseReplies, StreamingCamera
  <1>5. /\ pc'[s] = pc[s] /\ state'[s] = state[s] /\ camera'[s] = r.camera
        /\ outstanding_tokens'[s] \subseteq outstanding_tokens[s]
        /\ pending_cleanup_token'[s] = pending_cleanup_token[s]
        /\ frames' \subseteq frames
    BY <1>1, <1>2, Dispatched DEF TypeOK, Forget
  <1>7. SessionOK(s)'
    BY <1>2, <1>4, <1>5, StreamingCamera DEF SessionOK, TokensIssued, OwesNothing, Agrees
  <1> QED
    BY <1>5, <1>7 DEF TypeOK

\* stop() of a camera that streams, after whatever was released before.
LEMMA StopCallbackStep ==
  ASSUME SessionInv, NEW s \in Sessions, Calls(s, {"Started"}), MayStop(s),
         NEW c, SoundCamera(c), c.state = "Started", StopCallback(s, c),
         pending_cleanup_token' = [pending_cleanup_token EXCEPT ![s] = NoToken],
         UNCHANGED <<pc, outstanding_tokens, frames>>
  PROVE  SessionOK(s)' /\ frames' \subseteq Frame
  <1> USE DEF SessionInv
  <1>1. PICK r : /\ r = SimulatedStop(c) \/ r = Failed(c, "exception")
                 /\ Dispatch(s, r) /\ Advance(s, r, "Stopped")
    BY DEF StopCallback
  <1>2. /\ Moves(c, r, "Stopped")
        /\ r.status = "OK" => c.outstanding = {}
    BY <1>1, StopReply, FailedReply DEF Moves, SoundCamera, Errors
  <1>3. SoundCamera(r.camera)
    BY <1>2, LoansSound DEF Moves
  <1>4. r.status = "OK" => r.camera.outstanding = {}
    BY <1>2 DEF Moves, Loans
  <1>5. /\ pc'[s] = pc[s] /\ camera'[s] = r.camera
        /\ state'[s] = (IF r.status = "OK" THEN "Stopped" ELSE state[s])
        /\ outstanding_tokens'[s] = {}
        /\ pending_cleanup_token'[s] = NoToken
    BY <1>1, Dispatched DEF TypeOK, Advance, MayStop
  <1>7. SessionOK(s)'
    BY <1>2, <1>3, <1>4, <1>5
       DEF Moves, SessionOK, TokensIssued, OwesNothing, Agrees, Calls, NoToken, SessionState,
           SimulatedState
  <1> QED
    BY <1>7 DEF TypeOK

\* A step that only gives tokens back: the pending one, or none.
LEMMA PendingStep ==
  ASSUME SessionInv, NEW s \in Sessions, NEW r, Dispatch(s, r), state[s] = "Started" \/ pc'[s] = "release",
         pc[s] = "live",
         \/ UNCHANGED pc
         \/ pc' = [pc EXCEPT ![s] = "release"],
         r \in Replies(s, SimulatedReleaseFrame(camera[s], pending_cleanup_token[s])),
         NEW token \in Nat,
         pending_cleanup_token' = [pending_cleanup_token EXCEPT ![s] = token],
         UNCHANGED <<state, outstanding_tokens, frames>>
  PROVE  SessionOK(s)' /\ frames' \subseteq Frame
  <1> USE DEF SessionInv
  <1>1. SoundCamera(r.camera) /\ Issued(r.camera) = Issued(camera[s])
        /\ r.camera.state = camera[s].state
    BY AnyReply, ReleaseReplies DEF SessionOK, SoundCamera
  <1>2. /\ pc'[s] \in {pc[s], "release"} /\ camera'[s] = r.camera
        /\ state'[s] = state[s]
        /\ outstanding_tokens'[s] = outstanding_tokens[s]
        /\ pending_cleanup_token'[s] = token
    BY Dispatched DEF TypeOK
  <1>4. SessionOK(s)'
    BY <1>1, <1>2 DEF SessionOK, TokensIssued, OwesNothing, Agrees, Places, Destructing
  <1> QED
    BY <1>4 DEF TypeOK

\* stop(), after the retry of the pending release.
LEMMA StopStep ==
  ASSUME SessionInv, NEW s \in Sessions, Stop(s)
  PROVE  SessionOK(s)' /\ frames' \subseteq Frame
  <1> USE DEF SessionInv
  <1>1. Calls(s, {"Started"}) /\ UNCHANGED <<pc, outstanding_tokens, frames>>
    BY DEF Stop
  <1> DEFINE token == pending_cleanup_token[s]
             right == SimulatedReleaseFrame(camera[s], token)
  <1>2. CASE /\ token = NoToken
             /\ MayStop(s)
             /\ StopCallback(s, camera[s])
             /\ UNCHANGED pending_cleanup_token
    <2>1. pending_cleanup_token' = [pending_cleanup_token EXCEPT ![s] = NoToken]
      BY <1>2 DEF TypeOK
    <2> QED
      BY <1>1, <1>2, <2>1, StreamingCamera, StopCallbackStep
  <1>3. ASSUME NEW r \in Replies(s, right), r.status # "OK", Dispatch(s, r),
               UNCHANGED <<state, pending_cleanup_token>>
        PROVE  SessionOK(s)' /\ frames' \subseteq Frame
    <2>1. /\ pending_cleanup_token' = [pending_cleanup_token EXCEPT ![s] = token]
          /\ token \in Nat
      BY <1>3 DEF TypeOK
    <2> QED
      BY <1>1, <1>3, <2>1, StreamingCamera, PendingStep
  <1>4. ASSUME NEW r \in Replies(s, right),
               pending_cleanup_token' = [pending_cleanup_token EXCEPT ![s] = NoToken],
               MayStop(s), StopCallback(s, r.camera)
        PROVE  SessionOK(s)' /\ frames' \subseteq Frame
    <2>1. token \in Nat
      BY DEF TypeOK
    <2>2. SoundCamera(r.camera) /\ r.camera.state = "Started"
      BY <1>1, <2>1, AnyReply, ReleaseReplies, StreamingCamera
    <2> QED
      BY <1>1, <1>4, <2>2, StopCallbackStep
  <1>5. ASSUME NEW r \in Replies(s, right), Dispatch(s, r), UNCHANGED state,
               pending_cleanup_token' = [pending_cleanup_token EXCEPT ![s] = NoToken]
        PROVE  SessionOK(s)' /\ frames' \subseteq Frame
    BY <1>1, <1>5, StreamingCamera, PendingStep DEF NoToken
  <1> QED
    BY <1>2, <1>3, <1>4, <1>5 DEF Stop

\* The destructor begins with the pending token.
LEMMA DestructStep ==
  ASSUME SessionInv, NEW s \in Sessions, Destruct(s)
  PROVE  SessionOK(s)' /\ frames' \subseteq Frame
  <1> USE DEF SessionInv
  <1>1. /\ pc[s] = "live" /\ pc' = [pc EXCEPT ![s] = "release"] /\ pc'[s] = "release"
        /\ UNCHANGED <<state, outstanding_tokens, frames>>
    BY DEF Destruct, Goto, TypeOK
  <1>2. CASE UNCHANGED <<camera, pending_cleanup_token>>
    <2>2. SessionOK(s)'
      BY <1>1, <1>2 DEF SessionOK, TokensIssued, OwesNothing, Agrees, Places, Destructing
    <2> QED
      BY <1>1, <2>2 DEF TypeOK
  <1>3. CASE ~UNCHANGED <<camera, pending_cleanup_token>>
    <2>1. PICK r \in Replies(s, SimulatedReleaseFrame(camera[s], pending_cleanup_token[s])) :
             /\ Dispatch(s, r)
             /\ pending_cleanup_token' =
                  [pending_cleanup_token EXCEPT ![s] = Remembered(s, r, @)]
      BY <1>3 DEF Destruct
    <2>2. Remembered(s, r, pending_cleanup_token[s]) \in Nat
      BY DEF Remembered, NoToken, TypeOK
    <2> QED
      BY <1>1, <2>1, <2>2, PendingStep
  <1> QED
    BY <1>2, <1>3

\* It then releases every outstanding token and forgets it.
LEMMA CleanupReleasesStep ==
  ASSUME SessionInv, NEW s \in Sessions, CleanupReleases(s)
  PROVE  SessionOK(s)' /\ frames' \subseteq Frame
  <1> USE DEF SessionInv
  <1>1. pc[s] = "release" /\ UNCHANGED <<state, pending_cleanup_token, frames>>
    BY DEF CleanupReleases
  <1>2. CASE outstanding_tokens[s] = {} /\ Goto(s, "stop") /\ UNCHANGED <<camera, outstanding_tokens>>
    <2>1. pc'[s] = "stop"
      BY <1>1, <1>2 DEF Goto, TypeOK
    <2>2. SessionOK(s)'
      BY <1>1, <1>2, <2>1 DEF SessionOK, TokensIssued, OwesNothing, Agrees, Places, Destructing
    <2> QED
      BY <1>1, <2>1, <2>2 DEF TypeOK
  <1>3. ASSUME NEW token \in outstanding_tokens[s], UNCHANGED pc, Forget(s, token),
               NEW r \in Replies(s, SimulatedReleaseFrame(camera[s], token)), Dispatch(s, r)
        PROVE  SessionOK(s)' /\ frames' \subseteq Frame
    <2>1. token \in Nat
      BY DEF TypeOK, Tokens
    <2>2. SoundCamera(r.camera) /\ Issued(r.camera) = Issued(camera[s])
      BY <2>1, AnyReply, ReleaseReplies DEF SessionOK, SoundCamera
    <2>3. /\ camera'[s] = r.camera /\ pc'[s] = "release" /\ state'[s] = state[s]
          /\ pending_cleanup_token'[s] = pending_cleanup_token[s]
          /\ outstanding_tokens'[s] \subseteq outstanding_tokens[s]
      BY <1>1, <1>3, Dispatched DEF TypeOK, Forget
    <2>5. SessionOK(s)'
      BY <1>1, <2>2, <2>3 DEF SessionOK, TokensIssued, OwesNothing, Agrees
    <2> QED
      BY <1>1, <2>5 DEF TypeOK
  <1> QED
    BY <1>2, <1>3 DEF CleanupReleases

\* The later steps of the destructor.
LEMMA CleanupCallsStep ==
  ASSUME SessionInv, NEW s \in Sessions, NEW states, NEW reply, NEW to \in SessionState,
         CleanupCalls(s, states, reply, to), Moves(camera[s], reply, to),
         pc[s] \in {"stop", "close"}, NEW place \in {"close", "destroy"}, Goto(s, place),
         UNCHANGED <<outstanding_tokens, pending_cleanup_token, frames>>
  PROVE  SessionOK(s)' /\ frames' \subseteq Frame
  <1> USE DEF SessionInv
  <1>1. /\ SoundCamera(camera'[s]) /\ state'[s] \in SessionState
    <2>1. CASE UNCHANGED <<camera, state>>
      BY <2>1 DEF TypeOK, Goto, SessionOK
    <2>2. CASE state' = [state EXCEPT ![s] = to] /\ \E r \in Replies(s, reply) : Dispatch(s, r)
      <3>1. PICK r \in Replies(s, reply) : Dispatch(s, r)
        BY <2>2
      <3>2. SoundCamera(r.camera)
        <4>1. Moves(camera[s], r, to)
          BY MovesReplies DEF SessionOK, SoundCamera
        <4> QED
          BY <4>1, LoansSound DEF Moves, SessionOK
      <3> QED
        BY <2>2, <3>1, <3>2, Dispatched DEF TypeOK, Goto
    <2> QED
      BY <2>1, <2>2 DEF CleanupCalls
  <1>2. /\ pc'[s] = place /\ outstanding_tokens'[s] = {}
        /\ pending_cleanup_token'[s] = pending_cleanup_token[s]
    BY DEF Goto, TypeOK, SessionOK, OwesNothing
  <1>3. SessionOK(s)'
    BY <1>1, <1>2
       DEF SessionOK, TokensIssued, OwesNothing, Agrees, Places, Destructing
  <1> QED
    BY <1>1, <1>3 DEF TypeOK

\* create gives a sound camera.
LEMMA NewCameraSound == SoundCamera(NewCamera)
  <1>1. 0 \in Buffers /\ [b \in Buffers |-> 0] \in [Buffers -> Nat]
    BY BufferAssumption DEF Buffers
  <1> QED
    BY <1>1 DEF NewCamera, SoundCamera, Camera, SimulatedState, Errors

\* The instance is deleted.
LEMMA CleanupDestroysStep ==
  ASSUME SessionInv, NEW s \in Sessions, CleanupDestroys(s)
  PROVE  SessionOK(s)' /\ frames' \subseteq Frame
  <1> USE DEF SessionInv
  <1>1. /\ pc[s] = "destroy" /\ pc'[s] = "gone" /\ camera'[s] = NewCamera
        /\ UNCHANGED <<state, outstanding_tokens, pending_cleanup_token, frames>>
    BY DEF CleanupDestroys, Goto, TypeOK
  <1>3. SessionOK(s)'
    BY <1>1, NewCameraSound
       DEF SessionOK, TokensIssued, OwesNothing, Agrees, Places
  <1> QED
    BY <1>1, <1>3 DEF TypeOK

\* Every operation of a session keeps that session sound.
LEMMA SessionStep ==
  ASSUME SessionInv, NEW s \in Sessions, Changing(s) \/ Streaming(s) \/ Cleanup(s)
  PROVE  SessionOK(s)' /\ frames' \subseteq Frame
  <1> USE DEF SessionInv
  <1>1. CASE Open(s)
    <2>0. PICK supported \in BOOLEAN : OpenSource(s, supported)
      BY <1>1 DEF Open
    <2>1. PICK r \in Replies(s, SimulatedOpen(camera[s], supported)) : Lifecycle(s, r, "Open")
      BY <2>0 DEF OpenSource
    <2> QED
      BY <1>1, <2>1, OpenReply, MovesReplies, LifecycleStep
         DEF Open, OpenSource, Calls, SessionState, SimulatedState, TypeOK
  <1>2. CASE Capabilities(s)
    <2>1. PICK r \in Replies(s, SimulatedGetCapabilities(camera[s])) : Query(s, r)
      BY <1>2 DEF Capabilities
    <2>2. Moves(camera[s], r, camera[s].state) /\ pc[s] = "live"
      BY <1>2, QueryReplies, MovesReplies DEF Capabilities, Calls, TypeOK
    <2> QED
      BY <2>1, <2>2, QueryStep
  <1>3. CASE StreamConfiguration(s)
    <2>0. PICK position \in 0 .. 1 : StreamConfigurationAt(s, position)
      BY <1>3 DEF StreamConfiguration
    <2>1. PICK r \in Replies(s, SimulatedGetStreamConfiguration(camera[s], position)) : Query(s, r)
      BY <2>0 DEF StreamConfigurationAt
    <2>2. Moves(camera[s], r, camera[s].state) /\ pc[s] = "live"
      BY <1>3, QueryReplies, MovesReplies
         DEF StreamConfiguration, StreamConfigurationAt, Calls, TypeOK
    <2> QED
      BY <2>1, <2>2, QueryStep
  <1>4. CASE Configure(s)
    <2>0. PICK supported \in BOOLEAN : ConfigureStream(s, supported)
      BY <1>4 DEF Configure
    <2>1. PICK r \in Replies(s, SimulatedConfigure(camera[s], supported)) :
            Lifecycle(s, r, "Configured") \/ ("configuration" \in Faults /\ Query(s, r))
      BY <2>0 DEF ConfigureStream
    <2>2. Moves(camera[s], r, "Configured") /\ pc[s] = "live" /\ state[s] = "Open"
      BY <1>4, ConfigureReply, MovesReplies DEF Configure, ConfigureStream, Calls, TypeOK
    <2> QED
      BY <2>1, <2>2, LifecycleStep, QueryStep DEF SessionState, SimulatedState
  <1>5. CASE WaitFrame(s)
    <2>1. PICK r \in Replies(s, SimulatedWaitFrame(camera[s])) : Query(s, r)
      BY <1>5 DEF WaitFrame
    <2>2. Moves(camera[s], r, camera[s].state) /\ pc[s] = "live"
      BY <1>5, WaitReply, MovesReplies DEF WaitFrame, Calls, TypeOK
    <2> QED
      BY <2>1, <2>2, QueryStep
  <1>6. CASE AcquireFails(s)
    <2>1. PICK r \in AcquireReplies(s) : r.status # "OK" /\ Query(s, r)
      BY <1>6 DEF AcquireFails
    <2>2. Calls(s, {"Started"})
      BY <1>6 DEF AcquireFails, MayAcquire
    <2>3. Moves(camera[s], r, camera[s].state) /\ pc[s] = "live"
      BY <2>1, <2>2, StreamingCamera, AcquireFacts DEF FilledReply, RepeatedReply
    <2> QED
      BY <2>1, <2>3, QueryStep
  <1>7. CASE Close(s)
    <2>1. PICK r \in Replies(s, SimulatedClose(camera[s])) : Lifecycle(s, r, "Created")
      BY <1>7 DEF Close
    <2> QED
      BY <1>7, <2>1, CloseReply, MovesReplies, LifecycleStep
         DEF Close, Calls, SessionState, SimulatedState, TypeOK
  <1>8. CASE CleanupStops(s)
    BY <1>8, StopReply, CleanupCallsStep DEF CleanupStops, SessionState, SimulatedState, TypeOK
  <1>9. CASE CleanupCloses(s)
    BY <1>9, CloseReply, CleanupCallsStep DEF CleanupCloses, SessionState, SimulatedState, TypeOK
  <1>10. CASE Changing(s)
    BY <1>1, <1>2, <1>3, <1>4, <1>7, <1>10, LoadStep, StartStep, StopStep DEF Changing
  <1>11. CASE Streaming(s)
    BY <1>5, <1>6, <1>11, AcquireStep, RollBackStep, ReleaseStep DEF Streaming
  <1>12. CASE Cleanup(s)
    BY <1>8, <1>9, <1>12, DestructStep, CleanupReleasesStep, CleanupDestroysStep DEF Cleanup
  <1> QED
    BY <1>10, <1>11, <1>12

\* No step breaks the invariant, whatever the backend answers.
LEMMA SessionInvPreserved ==
  ASSUME SessionInv, [Next]_vars
  PROVE  SessionInv'
  <1> USE DEF SessionInv
  <1>1. ASSUME UNCHANGED <<pc, state, outstanding_tokens, pending_cleanup_token, camera>>,
               frames' \subseteq frames
        PROVE  SessionInv'
    BY <1>1 DEF TypeOK, SessionOK, TokensIssued, OwesNothing, Agrees
  <1>2. ASSUME NEW s \in Sessions, Changing(s) \/ Streaming(s) \/ Cleanup(s)
        PROVE  SessionInv'
    BY <1>2, SessionStep, Locality, OneSession
  <1>3. ASSUME NEW f \in frames, DropFrame(f) PROVE SessionInv'
    BY <1>1, <1>3 DEF DropFrame
  <1> QED
    BY <1>1, <1>2, <1>3 DEF Next, vars

\* No session is loaded at first.
LEMMA Initially == Init => SessionInv
  <1> SUFFICES ASSUME Init PROVE SessionInv
    OBVIOUS
  <1>1. NewCamera \in Camera /\ NewCamera.outstanding = {} /\ NewCamera.state = "Created"
    BY NewCameraSound DEF SoundCamera, NewCamera
  <1>2. TypeOK
    BY <1>1 DEF Init, TypeOK, Places, SessionState, SimulatedState, NoToken
  <1>3. ASSUME NEW s \in Sessions PROVE SessionOK(s)
    BY <1>1, NewCameraSound
       DEF Init, SessionOK, TokensIssued, OwesNothing, Agrees, Places, SessionState,
           SimulatedState, NoToken
  <1> QED
    BY <1>2, <1>3 DEF SessionInv

\* Whatever its backend does, every session stays sound.
LEMMA SessionInvariant == Spec => []SessionInv
  BY Initially, SessionInvPreserved, PTL DEF Spec

\* A session and its camera are in the same state through every failing call,
\* but for a configuration the backend took and the session refused: for any
\* backend and any number of sessions (camera_session.cpp, configure).
THEOREM StatesAgree == Spec => []LifecyclesAgree
  <1>1. SessionInv => LifecyclesAgree
    BY DEF SessionInv, SessionOK, Agrees, LifecyclesAgree
  <1> QED
    BY <1>1, SessionInvariant, PTL

\* The fields of every session, its camera and its views are of their types,
\* whatever the backend answers (CameraSession::Impl).
THEOREM TypeCorrect == Spec => []TypeOK
  <1>1. SessionInv => TypeOK
    BY DEF SessionInv
  <1> QED
    BY <1>1, SessionInvariant, PTL

-----------------------------------------------------------------------------
(* What each call does to the loans of its session's camera.               *)

\* A call that lends nothing and takes nothing back.
Settled(s) ==
  /\ Loans(camera[s], camera'[s], {})
  /\ UNCHANGED <<pc, outstanding_tokens, pending_cleanup_token, frames>>

\* The lifecycle calls but start and stop, the queries, a wait and an
\* acquisition that fails change no loan.
LEMMA SettledEffect ==
  ASSUME SessionInv, NEW s \in Sessions,
         \/ Open(s) \/ Capabilities(s) \/ StreamConfiguration(s) \/ Configure(s) \/ Close(s)
         \/ WaitFrame(s) \/ AcquireFails(s)
  PROVE  Settled(s)
  <1> USE DEF SessionInv
  <1>1. ASSUME NEW right, NEW to, Moves(camera[s], right, to), NEW r \in Replies(s, right),
               NEW anew, Lifecycle(s, r, anew) \/ Query(s, r)
        PROVE  Settled(s)
    <2>1. Loans(camera[s], r.camera, {})
      BY <1>1, MovesReplies DEF Moves, TypeOK
    <2>2. camera'[s] = r.camera /\ UNCHANGED <<pc, outstanding_tokens, pending_cleanup_token, frames>>
      BY <1>1, Dispatched DEF Lifecycle, Query
    <2> QED
      BY <2>1, <2>2 DEF Settled
  <1>2. CASE Open(s)
    <2>1. PICK supported \in BOOLEAN : OpenSource(s, supported)
      BY <1>2 DEF Open
    <2> QED
      BY <1>1, <2>1, OpenReply DEF OpenSource, TypeOK
  <1>3. CASE Capabilities(s)
    BY <1>1, <1>3, QueryReplies DEF Capabilities, TypeOK
  <1>4. CASE StreamConfiguration(s)
    <2>1. PICK position \in 0 .. 1 : StreamConfigurationAt(s, position)
      BY <1>4 DEF StreamConfiguration
    <2> QED
      BY <1>1, <2>1, QueryReplies DEF StreamConfigurationAt, TypeOK
  <1>5. CASE Configure(s)
    <2>1. PICK supported \in BOOLEAN : ConfigureStream(s, supported)
      BY <1>5 DEF Configure
    <2> QED
      BY <1>1, <2>1, ConfigureReply DEF ConfigureStream, TypeOK
  <1>6. CASE Close(s)
    BY <1>1, <1>6, CloseReply DEF Close, TypeOK
  <1>7. CASE WaitFrame(s)
    BY <1>1, <1>7, WaitReply DEF WaitFrame, TypeOK
  <1>8. CASE AcquireFails(s)
    <2>1. PICK r \in AcquireReplies(s) : r.status # "OK" /\ Query(s, r)
      BY <1>8 DEF AcquireFails
    <2>2. Calls(s, {"Started"})
      BY <1>8 DEF AcquireFails, MayAcquire
    <2>3. Loans(camera[s], r.camera, {})
      BY <2>1, <2>2, StreamingCamera, AcquireFacts DEF FilledReply, RepeatedReply, Moves
    <2> QED
      BY <2>1, <2>3, Dispatched DEF Query, Settled
  <1> QED
    BY <1>2, <1>3, <1>4, <1>5, <1>6, <1>7, <1>8

\* start() begins a stream on a camera that has lent nothing.
LEMMA StartEffect ==
  ASSUME SessionInv, NEW s \in Sessions, Start(s)
  PROVE  /\ pc[s] = "live"
         /\ outstanding_tokens[s] = {}
         /\ pending_cleanup_token[s] = NoToken
         /\ camera[s].outstanding = {}
         /\ camera'[s] \in Camera
         /\ camera'[s].outstanding = {}
         /\ UNCHANGED <<pc, outstanding_tokens, pending_cleanup_token, frames>>
  <1> USE DEF SessionInv
  <1>1. PICK r \in Replies(s, SimulatedStart(camera[s])) : Lifecycle(s, r, "Started")
    BY DEF Start
  <1>2. /\ pc[s] = "live" /\ outstanding_tokens[s] = {} /\ camera[s].outstanding = {}
        /\ pending_cleanup_token[s] = NoToken
        /\ camera[s] \in Camera
    BY DEF Start, Calls, SessionOK, OwesNothing, TypeOK
  <1>3. /\ camera'[s] = r.camera
        /\ UNCHANGED <<pc, outstanding_tokens, pending_cleanup_token, frames>>
    BY <1>1, Dispatched DEF Lifecycle
  <1>4. r.camera \in Camera /\ r.camera.outstanding = {}
    BY <1>2, RepliesFacts, StartReply DEF Moves, Loans, SoundCamera
  <1> QED
    BY <1>2, <1>3, <1>4

\* What a granted frame is.
Grant(c, r) == FilledReply(c, r) \/ ("duplicate" \in Faults /\ RepeatedReply(c, r))

\* The token of a frame that is taken is new to the session.
LEMMA AcquireEffect ==
  ASSUME SessionInv, NEW s \in Sessions, Acquire(s)
  PROVE  \E r :
           /\ Grant(camera[s], r)
           /\ camera'[s] = r.camera
           /\ pc[s] = "live"
           /\ pending_cleanup_token[s] = NoToken
           /\ r.token \notin outstanding_tokens[s]
           /\ outstanding_tokens'[s] = outstanding_tokens[s] \cup {r.token}
           /\ frames' = frames \cup
                {[owner_identity |-> s, frame_token |-> r.token,
                  sequence_number |-> r.sequence, plane |-> r.buffer]}
           /\ UNCHANGED <<pc, pending_cleanup_token>>
  <1> USE DEF SessionInv
  <1>1. PICK r \in AcquireReplies(s) :
          /\ r.status = "OK"
          /\ r.token \notin outstanding_tokens[s]
          /\ Dispatch(s, r)
          /\ outstanding_tokens' = [outstanding_tokens EXCEPT ![s] = @ \cup {r.token}]
          /\ frames' = frames \cup
               {[owner_identity |-> s, frame_token |-> r.token,
                 sequence_number |-> r.sequence, plane |-> r.buffer]}
    BY DEF Acquire
  <1>2. /\ Calls(s, {"Started"}) /\ UNCHANGED <<pc, pending_cleanup_token>>
        /\ pending_cleanup_token[s] = NoToken
    BY DEF Acquire, MayAcquire
  <1>3. Grant(camera[s], r)
    BY <1>1, <1>2, StreamingCamera, AcquireFacts DEF Grant
  <1>4. camera'[s] = r.camera /\ outstanding_tokens'[s] = outstanding_tokens[s] \cup {r.token}
    BY <1>1, Dispatched DEF TypeOK
  <1> QED
    BY <1>1, <1>2, <1>3, <1>4, StreamingCamera

\* A frame that is rolled back is returned, or remembered when the callback
\* fails without cause.
LEMMA RollBackEffect ==
  ASSUME SessionInv, NEW s \in Sessions, AcquireRollsBack(s)
  PROVE  \E r :
           /\ Grant(camera[s], r)
           /\ \/ /\ Loans(r.camera, camera'[s], Holding(r.camera, r.token))
                 /\ pending_cleanup_token'[s] = NoToken
              \/ /\ Loans(r.camera, camera'[s], {})
                 /\ pending_cleanup_token'[s] = r.token
                 /\ "callback" \in Faults
           /\ camera'[s].state = camera[s].state
           /\ Harmless(camera'[s])
           /\ pc[s] = "live"
           /\ pending_cleanup_token[s] = NoToken
           /\ UNCHANGED <<pc, state, outstanding_tokens, frames>>
  <1> USE DEF SessionInv
  <1>1. PICK r \in AcquireReplies(s) :
          /\ r.status = "OK"
          /\ \E back \in {SimulatedReleaseFrame(r.camera, r.token)}
                        \cup {x \in {Failed(r.camera, "exception")} : "callback" \in Faults} :
               /\ Dispatch(s, back)
               /\ pending_cleanup_token' =
                    [pending_cleanup_token EXCEPT ![s] = Remembered(s, back, r.token)]
    BY DEF AcquireRollsBack
  <1>2. PICK back : /\ \/ back = SimulatedReleaseFrame(r.camera, r.token)
                       \/ back = Failed(r.camera, "exception") /\ "callback" \in Faults
                    /\ Dispatch(s, back)
                    /\ pending_cleanup_token' =
                         [pending_cleanup_token EXCEPT ![s] = Remembered(s, back, r.token)]
    BY <1>1
  <1>3. /\ Calls(s, {"Started"}) /\ UNCHANGED <<pc, state, outstanding_tokens, frames>>
        /\ pending_cleanup_token[s] = NoToken
    BY DEF AcquireRollsBack, MayAcquire
  <1>4. Grant(camera[s], r)
    BY <1>1, <1>3, StreamingCamera, AcquireFacts DEF Grant
  <1>5. /\ SoundCamera(r.camera) /\ r.camera \in Camera
        /\ r.camera.state = camera[s].state /\ r.camera.state = "Started"
        /\ r.token \in Nat \ {0}
        /\ r.buffer \in Holding(r.camera, r.token)
    BY <1>3, <1>4, StreamingCamera, GrantedSound DEF Grant, Issued, SoundCamera, Holding
  <1>6. camera'[s] = back.camera /\ pending_cleanup_token'[s] = Remembered(s, back, r.token)
    BY <1>2, Dispatched DEF TypeOK
  <1>7. CASE back = SimulatedReleaseFrame(r.camera, r.token)
    <2>1. /\ back.status = "OK" /\ Loans(r.camera, back.camera, Holding(r.camera, r.token))
          /\ back.camera.state = r.camera.state /\ Harmless(back.camera)
      BY <1>5, <1>7, ReleaseReply
    <2> QED
      BY <1>3, <1>4, <1>5, <1>6, <2>1, StreamingCamera DEF Remembered
  <1>8. CASE back = Failed(r.camera, "exception") /\ "callback" \in Faults
    <2>1. /\ back.status = "exception" /\ Loans(r.camera, back.camera, {})
          /\ back.camera.state = r.camera.state /\ Harmless(back.camera)
      BY <1>5, <1>8, FailedReply DEF Errors, Harmless
    <2> QED
      BY <1>3, <1>4, <1>5, <1>6, <1>8, <2>1, StreamingCamera DEF Remembered
  <1> QED
    BY <1>2, <1>7, <1>8

\* A release gives the buffers of its token back, or changes no loan.
LEMMA ReleaseEffect ==
  ASSUME SessionInv, NEW s \in Sessions, NEW f \in frames, ReleaseFrame(s, f)
  PROVE  /\ pc[s] = "live"
         /\ BelongsTo(f, s)
         /\ \/ /\ Loans(camera[s], camera'[s], Holding(camera[s], f.frame_token))
               /\ outstanding_tokens'[s] = outstanding_tokens[s] \ {f.frame_token}
               /\ frames' = frames \ {f}
            \/ /\ Loans(camera[s], camera'[s], {})
               /\ outstanding_tokens'[s] = outstanding_tokens[s]
               /\ frames' = frames
         /\ UNCHANGED <<pc, pending_cleanup_token>>
  <1> USE DEF SessionInv
  <1>1. PICK r \in Replies(s, SimulatedReleaseFrame(camera[s], f.frame_token)) :
          /\ Dispatch(s, r)
          /\ \/ /\ r.status = "OK"
                /\ Forget(s, f.frame_token)
                /\ frames' = frames \ {f}
             \/ /\ r.status # "OK"
                /\ UNCHANGED <<outstanding_tokens, frames>>
    BY DEF ReleaseFrame
  <1>2. Calls(s, {"Started"}) /\ BelongsTo(f, s) /\ UNCHANGED <<pc, pending_cleanup_token>>
    BY DEF ReleaseFrame
  <1>3. f.frame_token \in Nat /\ camera[s] \in Camera
    BY DEF TypeOK, Frame, Tokens
  <1>4. /\ r.status # "OK" => Loans(camera[s], r.camera, {})
        /\ r.status = "OK" => Loans(camera[s], r.camera, Holding(camera[s], f.frame_token))
    BY <1>3, RepliesFacts, ReleaseReply
  <1>5. camera'[s] = r.camera
    BY <1>1, Dispatched
  <1> QED
    BY <1>1, <1>2, <1>4, <1>5, StreamingCamera DEF Forget, TypeOK

\* stop() gives back the pending token if it can, and lends nothing.
LEMMA StopEffect ==
  ASSUME SessionInv, NEW s \in Sessions, Stop(s)
  PROVE  /\ pc[s] = "live"
         /\ \/ /\ Loans(camera[s], camera'[s], {})
               /\ pending_cleanup_token'[s] = pending_cleanup_token[s]
            \/ /\ Loans(camera[s], camera'[s], Holding(camera[s], pending_cleanup_token[s]))
               /\ pending_cleanup_token[s] # NoToken
               /\ pending_cleanup_token'[s] = NoToken
         /\ UNCHANGED <<pc, outstanding_tokens, frames>>
  <1> USE DEF SessionInv
  <1> DEFINE token == pending_cleanup_token[s]
             right == SimulatedReleaseFrame(camera[s], token)
  <1>1. Calls(s, {"Started"}) /\ UNCHANGED <<pc, outstanding_tokens, frames>>
    BY DEF Stop
  <1>2. token \in Nat /\ camera[s] \in Camera /\ pc[s] = "live"
    BY <1>1 DEF TypeOK, Calls
  <1>3. ASSUME NEW c \in Camera, StopCallback(s, c)
        PROVE  Loans(c, camera'[s], {})
    BY <1>3, StopReply, FailedReply, Dispatched DEF StopCallback, Moves, Errors
  <1>4. CASE token = NoToken
    BY <1>1, <1>2, <1>3, <1>4 DEF Stop
  <1>5. CASE token # NoToken
    <2>1. PICK r \in Replies(s, right) :
            \/ /\ r.status # "OK"
               /\ Dispatch(s, r)
               /\ UNCHANGED <<state, pending_cleanup_token>>
            \/ /\ r.status = "OK"
               /\ pending_cleanup_token' = [pending_cleanup_token EXCEPT ![s] = NoToken]
               /\ \/ MayStop(s) /\ StopCallback(s, r.camera)
                  \/ ~MayStop(s) /\ Dispatch(s, r) /\ UNCHANGED state
      BY <1>5 DEF Stop
    <2>2. /\ r.status # "OK" => Loans(camera[s], r.camera, {})
          /\ r.status = "OK" => Loans(camera[s], r.camera, Holding(camera[s], token))
      BY <1>2, RepliesFacts, ReleaseReply
    <2>3. CASE r.status # "OK"
      BY <1>1, <1>2, <2>1, <2>2, <2>3, Dispatched
    <2>4. CASE r.status = "OK"
      <3>1. pending_cleanup_token'[s] = NoToken
        BY <2>1, <2>4 DEF TypeOK
      <3>2. Loans(camera[s], camera'[s], Holding(camera[s], token))
        <4>1. CASE Dispatch(s, r)
          BY <2>2, <2>4, <4>1, Dispatched
        <4>2. CASE StopCallback(s, r.camera)
          <5>1. Loans(r.camera, camera'[s], {})
            BY <1>3, <2>2, <2>4, <4>2 DEF Loans
          <5> QED
            BY <2>2, <2>4, <5>1 DEF Loans
        <4> QED
          BY <2>1, <2>4, <4>1, <4>2
      <3> QED
        BY <1>1, <1>2, <1>5, <3>1, <3>2
    <2> QED
      BY <2>3, <2>4
  <1> QED
    BY <1>4, <1>5

-----------------------------------------------------------------------------
(* The account of the loans.                                              *)

\* The tokens a camera has out.
TokensOf(c) == {c.token[b] : b \in c.outstanding}

\* A release takes one token back.
LEMMA TokensBack ==
  ASSUME NEW c, SoundCamera(c), NEW d, NEW token, Loans(c, d, Holding(c, token))
  PROVE  TokensOf(d) = TokensOf(c) \ {token}
  BY DEF TokensOf, Loans, Holding, SoundCamera

\* Where no loan changes, neither do the tokens.
LEMMA TokensKept ==
  ASSUME NEW c, NEW d, Loans(c, d, {})
  PROVE  TokensOf(d) = TokensOf(c)
  BY DEF TokensOf, Loans

\* A new frame adds one token, which the stream has not used.
LEMMA TokenGranted ==
  ASSUME NEW c, SoundCamera(c), NEW r, FilledReply(c, r)
  PROVE  /\ TokensOf(r.camera) = TokensOf(c) \cup {r.token}
         /\ r.token \notin Issued(c)
  <1>1. /\ r.camera.token[r.buffer] = c.next_token
        /\ \A b \in c.outstanding : r.camera.token[b] = c.token[b]
    BY DEF FilledReply, SoundCamera, Camera
  <1> QED
    BY <1>1 DEF TokensOf, FilledReply, SoundCamera, Camera, Issued

\* GrantedTokens, as the tokens of the session's camera.
LEMMA TokensNow ==
  ASSUME NEW s
  PROVE  /\ GrantedTokens(s) = TokensOf(camera[s])
         /\ GrantedTokens(s)' = TokensOf(camera'[s])
         /\ SoundCamera(camera[s]) => TokensOf(camera[s]) \subseteq Issued(camera[s])
  BY DEF GrantedTokens, TokensOf, SoundCamera

\* TokensAccounted, of one session.
LoansAgree(s) ==
  pc[s] = "live" =>
    /\ GrantedTokens(s) = outstanding_tokens[s] \cup Pending(s)
    /\ outstanding_tokens[s] \cap Pending(s) = {}

\* A view is one of its session's loans, of a session that was loaded.
ViewHeld(f) ==
  LET s == f.owner_identity
      c == camera[s]
  IN  /\ pc[s] # "absent"
      /\ pc[s] = "live" =>
           /\ f.frame_token \in outstanding_tokens[s]
           /\ f.plane \in c.outstanding
           /\ c.token[f.plane] = f.frame_token
           /\ c.storage[f.plane] = f.sequence_number

\* Session, backend and views agree on the loans; inductive with SessionInv
\* as long as the backend never grants a buffer twice.
LoanInv ==
  /\ \A s \in Sessions : LoansAgree(s)
  /\ \A f \in frames : ViewHeld(f)

\* Every call of a live session keeps its account of the loans and its views.
LEMMA LoanStep ==
  ASSUME SessionInv, LoanInv, "duplicate" \notin Faults, NEW s \in Sessions,
         Changing(s) \/ Streaming(s)
  PROVE  /\ LoansAgree(s)'
         /\ \A f \in frames' : f.owner_identity = s => ViewHeld(f)'
  <1> USE DEF SessionInv, LoanInv
  <1>0. SoundCamera(camera[s]) /\ camera[s] \in Camera
    BY DEF SessionOK, SoundCamera
  <1>1. CASE Settled(s)
    <2>0. GrantedTokens(s)' = GrantedTokens(s)
      BY <1>1, TokensKept, TokensNow DEF Settled
    <2>1. LoansAgree(s)'
      BY <1>1, <2>0 DEF Settled, LoansAgree, Pending
    <2>2. ASSUME NEW f \in frames', f.owner_identity = s PROVE ViewHeld(f)'
      BY <1>1, <2>2 DEF Settled, ViewHeld, Loans
    <2> QED
      BY <2>1, <2>2
  <1>2. CASE Load(s)
    <2>1. /\ pc[s] = "absent" /\ UNCHANGED <<outstanding_tokens, pending_cleanup_token, camera, frames>>
      BY <1>2 DEF Load
    <2>2. outstanding_tokens[s] = {} /\ pending_cleanup_token[s] = NoToken /\ camera[s].outstanding = {}
      BY <2>1 DEF SessionOK, OwesNothing, NewCamera
    <2>3. \A f \in frames' : f.owner_identity # s
      BY <2>1 DEF ViewHeld
    <2> QED
      BY <2>1, <2>2, <2>3 DEF LoansAgree, GrantedTokens, Pending
  <1>3. CASE Start(s)
    <2>1. /\ outstanding_tokens'[s] = {} /\ pending_cleanup_token'[s] = NoToken
          /\ camera'[s].outstanding = {} /\ pc[s] = "live" /\ outstanding_tokens[s] = {}
          /\ UNCHANGED frames
      BY <1>3, StartEffect
    <2>2. \A f \in frames' : f.owner_identity # s
      BY <2>1 DEF ViewHeld
    <2> QED
      BY <2>1, <2>2 DEF LoansAgree, GrantedTokens, Pending
  <1>4. CASE Stop(s)
    <2>1. /\ pc[s] = "live"
          /\ \/ /\ Loans(camera[s], camera'[s], {})
                /\ pending_cleanup_token'[s] = pending_cleanup_token[s]
             \/ /\ Loans(camera[s], camera'[s], Holding(camera[s], pending_cleanup_token[s]))
                /\ pending_cleanup_token[s] # NoToken
                /\ pending_cleanup_token'[s] = NoToken
          /\ UNCHANGED <<pc, outstanding_tokens, frames>>
      BY <1>4, StopEffect
    <2>2. LoansAgree(s)'
      <3>1. CASE /\ Loans(camera[s], camera'[s], {})
                 /\ pending_cleanup_token'[s] = pending_cleanup_token[s]
        <4>1. GrantedTokens(s)' = GrantedTokens(s)
          BY <3>1, TokensKept, TokensNow
        <4> QED
          BY <2>1, <3>1, <4>1 DEF LoansAgree, Pending
      <3>2. CASE /\ Loans(camera[s], camera'[s], Holding(camera[s], pending_cleanup_token[s]))
                 /\ pending_cleanup_token[s] # NoToken
                 /\ pending_cleanup_token'[s] = NoToken
        <4>1. GrantedTokens(s)' = GrantedTokens(s) \ {pending_cleanup_token[s]}
          BY <1>0, <3>2, TokensBack, TokensNow
        <4> QED
          BY <2>1, <3>2, <4>1 DEF LoansAgree, Pending
      <3> QED
        BY <2>1, <3>1, <3>2
    <2>3. ASSUME NEW f \in frames', f.owner_identity = s PROVE ViewHeld(f)'
      <3>1. pending_cleanup_token[s] # NoToken => f.frame_token # pending_cleanup_token[s]
        BY <2>1, <2>3 DEF ViewHeld, LoansAgree, Pending
      <3> QED
        BY <2>1, <2>3, <3>1 DEF ViewHeld, Loans, Holding
    <2> QED
      BY <2>2, <2>3
  <1>5. CASE Acquire(s)
    <2>1. PICK r :
           /\ Grant(camera[s], r)
           /\ camera'[s] = r.camera
           /\ pc[s] = "live"
           /\ pending_cleanup_token[s] = NoToken
           /\ r.token \notin outstanding_tokens[s]
           /\ outstanding_tokens'[s] = outstanding_tokens[s] \cup {r.token}
           /\ frames' = frames \cup
                {[owner_identity |-> s, frame_token |-> r.token,
                  sequence_number |-> r.sequence, plane |-> r.buffer]}
           /\ UNCHANGED <<pc, pending_cleanup_token>>
      BY <1>5, AcquireEffect
    <2>2. FilledReply(camera[s], r)
      BY <2>1 DEF Grant
    <2>7. GrantedTokens(s)' = GrantedTokens(s) \cup {r.token}
      BY <1>0, <2>1, <2>2, TokenGranted, TokensNow
    <2>4. LoansAgree(s)'
      BY <2>1, <2>7 DEF LoansAgree, Pending
    <2>5. ASSUME NEW f \in frames, f.owner_identity = s PROVE ViewHeld(f)'
      <3>1. ViewHeld(f)
        OBVIOUS
      <3>2. f.plane # r.buffer /\ f.plane \in Buffers
        BY <1>0, <2>1, <2>2, <2>5, <3>1 DEF FilledReply, ViewHeld, Camera
      <3>3. /\ r.camera.outstanding = camera[s].outstanding \cup {r.buffer}
            /\ r.camera.token[f.plane] = camera[s].token[f.plane]
            /\ r.camera.storage[f.plane] = camera[s].storage[f.plane]
        BY <1>0, <2>2, <3>2 DEF FilledReply, Camera
      <3> QED
        BY <2>1, <2>5, <3>1, <3>3 DEF ViewHeld
    <2>6. ASSUME NEW f, f = [owner_identity |-> s, frame_token |-> r.token,
                             sequence_number |-> r.sequence, plane |-> r.buffer]
          PROVE  ViewHeld(f)'
      <3>1. /\ r.buffer \in r.camera.outstanding
            /\ r.token = r.camera.token[r.buffer]
            /\ r.sequence = r.camera.storage[r.buffer]
        BY <1>0, <2>2, GrantedSound
      <3> QED
        BY <2>1, <2>6, <3>1 DEF ViewHeld
    <2> QED
      BY <2>1, <2>4, <2>5, <2>6
  <1>6. CASE AcquireRollsBack(s)
    <2>1. PICK r :
           /\ Grant(camera[s], r)
           /\ \/ /\ Loans(r.camera, camera'[s], Holding(r.camera, r.token))
                 /\ pending_cleanup_token'[s] = NoToken
              \/ /\ Loans(r.camera, camera'[s], {})
                 /\ pending_cleanup_token'[s] = r.token
           /\ pc[s] = "live"
           /\ pending_cleanup_token[s] = NoToken
           /\ UNCHANGED <<pc, outstanding_tokens, frames>>
      BY <1>6, RollBackEffect
    <2>2. FilledReply(camera[s], r) /\ SoundCamera(r.camera)
      BY <1>0, <2>1, GrantedSound DEF Grant
    <2>4. /\ TokensOf(r.camera) = GrantedTokens(s) \cup {r.token}
          /\ r.token \notin Issued(camera[s])
      BY <1>0, <2>2, TokenGranted, TokensNow
    <2>5. r.token \notin outstanding_tokens[s] /\ r.token \notin GrantedTokens(s)
      BY <1>0, <2>4, TokensNow DEF SessionOK, TokensIssued
    <2>6. LoansAgree(s)'
      <3>1. GrantedTokens(s) = outstanding_tokens[s]
        BY <2>1 DEF LoansAgree, Pending
      <3>2. CASE /\ Loans(r.camera, camera'[s], Holding(r.camera, r.token))
                 /\ pending_cleanup_token'[s] = NoToken
        <4>1. GrantedTokens(s)' = GrantedTokens(s)
          BY <2>2, <2>4, <2>5, <3>2, TokensBack, TokensNow
        <4> QED
          BY <2>1, <3>1, <3>2, <4>1 DEF LoansAgree, Pending
      <3>3. CASE /\ Loans(r.camera, camera'[s], {})
                 /\ pending_cleanup_token'[s] = r.token
        <4>1. GrantedTokens(s)' = GrantedTokens(s) \cup {r.token}
          BY <2>4, <3>3, TokensKept, TokensNow
        <4>2. r.token # NoToken
          BY <1>0, <2>2 DEF FilledReply, SoundCamera, NoToken
        <4> QED
          BY <2>1, <2>5, <3>1, <3>3, <4>1, <4>2 DEF LoansAgree, Pending
      <3> QED
        BY <2>1, <3>2, <3>3
    <2>7. ASSUME NEW f \in frames', f.owner_identity = s PROVE ViewHeld(f)'
      <3>1. ViewHeld(f)
        BY <2>1, <2>7
      <3>2. f.plane # r.buffer /\ f.plane \in Buffers
        BY <1>0, <2>1, <2>2, <2>7, <3>1 DEF FilledReply, ViewHeld, Camera
      <3>3. /\ r.camera.outstanding = camera[s].outstanding \cup {r.buffer}
            /\ r.camera.token[f.plane] = camera[s].token[f.plane]
            /\ r.camera.storage[f.plane] = camera[s].storage[f.plane]
        BY <1>0, <2>2, <3>2 DEF FilledReply, Camera
      <3>4. f.frame_token # r.token
        BY <2>1, <2>5, <2>7, <3>1 DEF ViewHeld
      <3> QED
        BY <2>1, <2>7, <3>1, <3>3, <3>4 DEF ViewHeld, Loans, Holding
    <2> QED
      BY <2>6, <2>7
  <1>7. ASSUME NEW g \in frames, ReleaseFrame(s, g)
        PROVE  /\ LoansAgree(s)'
               /\ \A f \in frames' : f.owner_identity = s => ViewHeld(f)'
    <2> DEFINE t == g.frame_token
    <2>1. /\ pc[s] = "live"
          /\ BelongsTo(g, s)
          /\ \/ /\ Loans(camera[s], camera'[s], Holding(camera[s], t))
                /\ outstanding_tokens'[s] = outstanding_tokens[s] \ {t}
                /\ frames' = frames \ {g}
             \/ /\ Loans(camera[s], camera'[s], {})
                /\ outstanding_tokens'[s] = outstanding_tokens[s]
                /\ frames' = frames
          /\ UNCHANGED <<pc, pending_cleanup_token>>
      BY <1>7, ReleaseEffect
    <2>2. t \in outstanding_tokens[s] /\ g.owner_identity = s
      BY <2>1 DEF BelongsTo
    <2>3. LoansAgree(s)'
      <3>1. CASE /\ Loans(camera[s], camera'[s], Holding(camera[s], t))
                 /\ outstanding_tokens'[s] = outstanding_tokens[s] \ {t}
        <4>1. GrantedTokens(s)' = GrantedTokens(s) \ {t}
          BY <1>0, <3>1, TokensBack, TokensNow
        <4> QED
          BY <2>1, <2>2, <3>1, <4>1 DEF LoansAgree, Pending
      <3>2. CASE /\ Loans(camera[s], camera'[s], {})
                 /\ outstanding_tokens'[s] = outstanding_tokens[s]
        <4>1. GrantedTokens(s)' = GrantedTokens(s)
          BY <3>2, TokensKept, TokensNow
        <4> QED
          BY <2>1, <3>2, <4>1 DEF LoansAgree, Pending
      <3> QED
        BY <2>1, <3>1, <3>2
    <2>4. ASSUME NEW f \in frames', f.owner_identity = s PROVE ViewHeld(f)'
      <3>1. f \in frames /\ ViewHeld(f) /\ ViewHeld(g)
        BY <2>1
      <3>2. CASE frames' = frames \ {g}
        <4>1. f.frame_token # t
          <5> SUFFICES ASSUME f.frame_token = t PROVE f = g
            BY <2>4, <3>2
          <5>1. f.plane = g.plane
            BY <1>0, <2>1, <2>2, <2>4, <3>1 DEF ViewHeld, SoundCamera
          <5>2. f.sequence_number = g.sequence_number
            BY <2>1, <2>2, <2>4, <3>1, <5>1 DEF ViewHeld
          <5>3. f \in Frame /\ g \in Frame
            BY <3>1 DEF TypeOK
          <5> QED
            BY <2>2, <2>4, <5>1, <5>2, <5>3 DEF Frame
        <4> QED
          BY <2>1, <2>4, <3>1, <4>1 DEF ViewHeld, Loans, Holding
      <3>3. CASE frames' = frames /\ Loans(camera[s], camera'[s], {})
                 /\ outstanding_tokens'[s] = outstanding_tokens[s]
        BY <2>1, <2>4, <3>1, <3>3 DEF ViewHeld, Loans
      <3> QED
        BY <2>1, <3>2, <3>3
    <2> QED
      BY <2>3, <2>4
  <1> QED
    BY <1>1, <1>2, <1>3, <1>4, <1>5, <1>6, <1>7, SettledEffect DEF Changing, Streaming

\* No step breaks the account: the views of the other sessions keep their
\* buffers, and those of a session that is being destroyed are not spoken of.
LEMMA LoanInvPreserved ==
  ASSUME SessionInv, LoanInv, "duplicate" \notin Faults, [Next]_vars
  PROVE  LoanInv'
  <1> USE DEF SessionInv, LoanInv
  <1>1. ASSUME UNCHANGED <<pc, outstanding_tokens, pending_cleanup_token, camera>>,
               frames' \subseteq frames
        PROVE  LoanInv'
    BY <1>1 DEF LoansAgree, ViewHeld, GrantedTokens, Pending
  <1>2. ASSUME NEW s \in Sessions, Changing(s) \/ Streaming(s) \/ Cleanup(s)
        PROVE  LoanInv'
    <2>1. Only(s)
      BY <1>2, Locality
    <2>2. ASSUME NEW o \in Sessions, o # s
          PROVE  /\ pc'[o] = pc[o] /\ outstanding_tokens'[o] = outstanding_tokens[o]
                 /\ pending_cleanup_token'[o] = pending_cleanup_token[o]
                 /\ camera'[o] = camera[o]
      BY <2>1, <2>2 DEF Only, TypeOK
    <2>3. ASSUME NEW f \in frames', f.owner_identity # s
          PROVE  f \in frames /\ f.owner_identity \in Sessions
      <3>1. f \in frames
        BY <1>2, <2>3 DEF Changing, Streaming, Cleanup, Load, Open, OpenSource, Capabilities,
           StreamConfiguration, StreamConfigurationAt, Configure, ConfigureStream, Start, Stop, Close,
           WaitFrame, AcquireFails, Acquire, AcquireRollsBack, ReleaseFrame, Destruct, CleanupReleases,
           CleanupStops, CleanupCloses, CleanupDestroys, Lifecycle, Query
      <3> QED
        BY <3>1 DEF TypeOK, Frame
    <2>4. /\ LoansAgree(s)'
          /\ \A f \in frames' : f.owner_identity = s => ViewHeld(f)'
      <3>1. CASE Changing(s) \/ Streaming(s)
        BY <3>1, LoanStep
      <3>2. CASE Cleanup(s)
        <4>1. pc'[s] \notin {"live", "absent"} /\ frames' = frames
          BY <3>2 DEF Cleanup, Destruct, CleanupReleases, CleanupStops, CleanupCloses, CleanupDestroys,
             Goto, TypeOK
        <4> QED
          BY <4>1 DEF LoansAgree, ViewHeld
      <3> QED
        BY <1>2, <3>1, <3>2
    <2>5. \A o \in Sessions : LoansAgree(o)'
      BY <2>2, <2>4 DEF LoansAgree, GrantedTokens, Pending
    <2>6. \A f \in frames' : ViewHeld(f)'
      BY <2>2, <2>3, <2>4 DEF ViewHeld
    <2> QED
      BY <2>5, <2>6
  <1>3. ASSUME NEW f \in frames, DropFrame(f) PROVE LoanInv'
    BY <1>1, <1>3 DEF DropFrame
  <1> QED
    BY <1>1, <1>2, <1>3 DEF Next, vars

\* Nothing is lent at first.
LEMMA LoanInvInitially == Init => LoanInv
  BY DEF Init, LoanInv, LoansAgree

\* The account of the loans is kept as long as no buffer is granted twice.
LEMMA LoanInvariant ==
  ASSUME "duplicate" \notin Faults
  PROVE  Spec => []LoanInv
  <1>1. SessionInv /\ LoanInv /\ [Next]_vars => LoanInv'
    BY LoanInvPreserved
  <1> QED
    BY <1>1, LoanInvInitially, SessionInvariant, PTL DEF Spec

\* Every buffer the backend has given out is the session's to return, once,
\* through failing callbacks, rolled back frames and pending releases
\* (outstanding_tokens, pending_cleanup_token).
THEOREM TokensExact ==
  ASSUME "duplicate" \notin Faults
  PROVE  Spec => []TokensAccounted
  <1>1. LoanInv => TokensAccounted
    BY DEF LoanInv, LoansAgree, TokensAccounted
  <1> QED
    BY <1>1, LoanInvariant, PTL

\* A view that says it is valid points into a buffer still granted under its
\* token and still holding its image, unless the backend grants a buffer
\* twice (CameraFrame::valid).
THEOREM ValidFramesShowTheirImage ==
  ASSUME "duplicate" \notin Faults
  PROVE  Spec => []ValidFramesOutstanding
  <1>1. LoanInv => ValidFramesOutstanding
    BY DEF LoanInv, ViewHeld, ValidFramesOutstanding
  <1> QED
    BY <1>1, LoanInvariant, PTL

-----------------------------------------------------------------------------
(* Sessions whose callbacks fail.                                          *)

\* A configuration the backend took and the session refused.
Ahead(s) ==
  "configuration" \in Faults /\ state[s] = "Open" /\ camera[s].state = "Configured"

\* The destructor's own callbacks left the camera streaming.
LeftStreaming(s) == "callback" \in Faults /\ camera[s].state = "Started"

\* BackendNeverMisused, of one session.
Used(s) ==
  /\ camera[s].last_error # "unknown_token"
  /\ camera[s].last_error = "invalid_state" =>
       Ahead(s) \/ (LeftStreaming(s) /\ pc[s] \in {"close", "destroy"})

\* What the destructor knows of the camera at each of its steps.
Winding(s) ==
  /\ pc[s] \in {"release", "stop"} => camera[s].state = state[s] \/ Ahead(s)
  /\ pc[s] = "release" =>
       /\ outstanding_tokens[s] \subseteq GrantedTokens(s)
       /\ "callback" \notin Faults => GrantedTokens(s) = outstanding_tokens[s]
  /\ pc[s] \in {"stop", "close"} /\ "callback" \notin Faults => camera[s].outstanding = {}
  /\ pc[s] = "close" =>
       /\ state[s] # "Started"
       /\ \/ camera[s].state = state[s] \/ Ahead(s)
          \/ LeftStreaming(s) /\ state[s] = "Stopped"
  /\ pc[s] = "destroy" =>
       \/ camera[s].state = "Created" /\ camera[s].outstanding = {}
       \/ "callback" \in Faults /\ camera[s].last_error # "none"

\* A session knows the state and the tokens of its camera at every call, the
\* destructor's included, as far as the callbacks let it.
InStep(s) ==
  /\ Used(s)
  /\ "callback" \notin Faults => pending_cleanup_token[s] = NoToken
  /\ camera[s].state # "Started" => camera[s].outstanding = {}
  /\ Winding(s)

\* Inductive with SessionInv and LoanInv.
StepInv == \A s \in Sessions : InStep(s)

\* A camera whose granted tokens are none has nothing outstanding.
LEMMA NothingGranted ==
  ASSUME NEW c, TokensOf(c) = {}
  PROVE  c.outstanding = {}
  BY DEF TokensOf

\* A token the session still owes is one the camera knows.
LEMMA ReleaseKnown ==
  ASSUME NEW c, SoundCamera(c), NEW token \in TokensOf(c), c.state = "Started"
  PROVE  LET r == SimulatedReleaseFrame(c, token)
         IN  /\ r.status = "OK"
             /\ Harmless(r.camera)
             /\ r.camera \in Camera
             /\ r.camera.state = "Started"
             /\ TokensOf(r.camera) = TokensOf(c) \ {token}
  <1> DEFINE r == SimulatedReleaseFrame(c, token)
  <1>1. token \in Nat \ {0} /\ c \in Camera /\ Holding(c, token) # {}
    BY DEF TokensOf, SoundCamera, Holding, Issued, Camera
  <1>2. /\ r.status = "OK" /\ Harmless(r.camera) /\ r.camera.state = "Started"
        /\ Loans(c, r.camera, Holding(c, token))
    BY <1>1, ReleaseReply
  <1> QED
    BY <1>2, TokensBack DEF Loans

\* A callback that may fail without cause is harmless if it is so otherwise.
LEMMA HarmlessReply ==
  ASSUME TypeOK, NEW s \in Sessions, NEW right, NEW r \in Replies(s, right), Dispatch(s, r),
         Harmless(right.camera)
  PROVE  Harmless(camera'[s])
  <1>1. Harmless(r.camera)
    BY RepliesFacts DEF TypeOK
  <1> QED
    BY <1>1, Dispatched

\* What a call of a session in use finds.
LEMMA LiveInStep ==
  ASSUME SessionInv, LoanInv, NEW s \in Sessions, InStep(s), NEW states, Calls(s, states)
  PROVE  /\ pc[s] = "live"
         /\ camera[s] \in Camera
         /\ SoundCamera(camera[s])
         /\ state[s] \in states
         /\ camera[s].state = state[s] \/ Ahead(s)
         /\ Harmless(camera[s]) \/ Ahead(s)
         /\ TokensOf(camera[s]) = outstanding_tokens[s] \cup Pending(s)
         /\ outstanding_tokens[s] \cap Pending(s) = {}
         /\ "Started" \notin states => camera[s].outstanding = {}
  BY TokensNow DEF InStep, Used, Ahead, Harmless, Calls, SessionInv, SessionOK, SoundCamera, OwesNothing,
     Agrees, LoanInv, LoansAgree

\* A call that an open session makes of a camera that is ahead of it fails and
\* leaves the session Open.
LEMMA AheadUsed ==
  ASSUME SessionInv, NEW s \in Sessions, Ahead(s), NEW right, NEW r \in Replies(s, right),
         right = Failed(camera[s], "invalid_state"),
         NEW to, Lifecycle(s, r, to) \/ Query(s, r)
  PROVE  Used(s)'
  <1> USE DEF SessionInv
  <1>1. camera[s] \in Camera
    BY DEF TypeOK
  <1>2. r.status # "OK" /\ r.camera.state = camera[s].state /\ r.camera.last_error # "unknown_token"
    BY <1>1, AnyReply, FailedReply DEF Errors
  <1>3. camera'[s] = r.camera /\ state'[s] = state[s]
    BY <1>2, Dispatched DEF Lifecycle, Query, Advance, TypeOK
  <1> QED
    BY <1>2, <1>3 DEF Used, Ahead

\* The lifecycle calls but stop, and the queries.
LEMMA SettledUsed ==
  ASSUME SessionInv, LoanInv, NEW s \in Sessions, InStep(s),
         \/ Open(s) \/ Capabilities(s) \/ StreamConfiguration(s) \/ Configure(s)
         \/ Start(s) \/ Close(s)
  PROVE  Used(s)'
  <1>1. ASSUME NEW right, Harmless(right.camera), NEW r \in Replies(s, right),
               NEW to, Lifecycle(s, r, to) \/ Query(s, r)
        PROVE  Used(s)'
    <2>1. Harmless(camera'[s])
      BY <1>1, HarmlessReply DEF Lifecycle, Query, SessionInv
    <2> QED
      BY <2>1 DEF Used, Harmless
  <1>2. CASE Open(s)
    <2>1. PICK supported \in BOOLEAN : OpenSource(s, supported)
      BY <1>2 DEF Open
    <2>2. camera[s] \in Camera /\ camera[s].state = "Created"
      BY <2>1, LiveInStep DEF OpenSource, Ahead
    <2> QED
      BY <1>1, <2>1, <2>2, OpenReply DEF OpenSource
  <1>3. CASE Capabilities(s)
    <2>1. camera[s] \in Camera /\ camera[s].state \in {"Open", "Configured"}
      BY <1>3, LiveInStep DEF Capabilities, Ahead
    <2> QED
      BY <1>1, <1>3, <2>1, QueryReplies DEF Capabilities
  <1>4. CASE StreamConfiguration(s)
    <2>1. PICK position \in 0 .. 1 : StreamConfigurationAt(s, position)
      BY <1>4 DEF StreamConfiguration
    <2>2. PICK r \in Replies(s, SimulatedGetStreamConfiguration(camera[s], position)) : Query(s, r)
      BY <2>1 DEF StreamConfigurationAt
    <2>3. camera[s] \in Camera /\ (camera[s].state = "Open" \/ Ahead(s))
      BY <2>1, LiveInStep DEF StreamConfigurationAt
    <2>4. CASE Ahead(s)
      <3>1. SimulatedGetStreamConfiguration(camera[s], position) = Failed(camera[s], "invalid_state")
        BY <2>4 DEF Ahead, SimulatedGetStreamConfiguration
      <3> QED
        BY <2>2, <2>4, <3>1, AheadUsed
    <2>5. CASE camera[s].state = "Open"
      BY <1>1, <2>2, <2>3, <2>5, QueryReplies
    <2> QED
      BY <2>3, <2>4, <2>5
  <1>5. CASE Configure(s)
    <2>1. PICK supported \in BOOLEAN : ConfigureStream(s, supported)
      BY <1>5 DEF Configure
    <2>2. PICK r \in Replies(s, SimulatedConfigure(camera[s], supported)) :
            Lifecycle(s, r, "Configured") \/ Query(s, r)
      BY <2>1 DEF ConfigureStream
    <2>3. camera[s] \in Camera /\ (camera[s].state = "Open" \/ Ahead(s))
      BY <2>1, LiveInStep DEF ConfigureStream
    <2>4. CASE Ahead(s)
      <3>1. SimulatedConfigure(camera[s], supported) = Failed(camera[s], "invalid_state")
        BY <2>4 DEF Ahead, SimulatedConfigure
      <3> QED
        BY <2>2, <2>4, <3>1, AheadUsed
    <2>5. CASE camera[s].state = "Open"
      BY <1>1, <2>2, <2>3, <2>5, ConfigureReply
    <2> QED
      BY <2>3, <2>4, <2>5
  <1>6. CASE Start(s)
    <2>1. camera[s] \in Camera /\ camera[s].state = "Configured"
      BY <1>6, LiveInStep DEF Start, Ahead
    <2> QED
      BY <1>1, <1>6, <2>1, StartReply DEF Start
  <1>7. CASE Close(s)
    <2>1. camera[s] \in Camera /\ camera[s].state # "Started" /\ camera[s].outstanding = {}
      BY <1>7, LiveInStep DEF Close, Ahead
    <2> QED
      BY <1>1, <1>7, <2>1, CloseReply DEF Close
  <1> QED
    BY <1>2, <1>3, <1>4, <1>5, <1>6, <1>7

\* A session that streams has a camera that does, and the last call was
\* harmless.
LEMMA StreamingInStep ==
  ASSUME SessionInv, LoanInv, NEW s \in Sessions, InStep(s), Calls(s, {"Started"})
  PROVE  /\ camera[s] \in Camera /\ SoundCamera(camera[s])
         /\ camera[s].state = "Started"
         /\ Harmless(camera[s])
         /\ TokensOf(camera[s]) = outstanding_tokens[s] \cup Pending(s)
         /\ outstanding_tokens[s] \cap Pending(s) = {}
  BY LiveInStep DEF Ahead

\* The stream: a token the session returns is one its camera knows.
LEMMA StreamingUsed ==
  ASSUME SessionInv, LoanInv, NEW s \in Sessions, InStep(s), Streaming(s)
  PROVE  Harmless(camera'[s])
  <1> USE DEF SessionInv
  <1>1. CASE WaitFrame(s)
    <2>1. Calls(s, {"Started"})
      BY <1>1 DEF WaitFrame
    <2>2. Harmless(SimulatedWaitFrame(camera[s]).camera)
      BY <2>1, StreamingInStep, WaitReply
    <2> QED
      BY <1>1, <2>2, HarmlessReply DEF WaitFrame, Query
  <1>2. CASE AcquireFails(s)
    <2>1. PICK r \in AcquireReplies(s) : r.status # "OK" /\ Query(s, r)
      BY <1>2 DEF AcquireFails
    <2>2. Calls(s, {"Started"})
      BY <1>2 DEF AcquireFails, MayAcquire
    <2>3. Harmless(r.camera)
      BY <2>1, <2>2, StreamingCamera, AcquireFacts DEF FilledReply, RepeatedReply
    <2> QED
      BY <2>1, <2>3, Dispatched DEF Query
  <1>3. CASE Acquire(s)
    <2>1. PICK r : Grant(camera[s], r) /\ camera'[s] = r.camera
      BY <1>3, AcquireEffect
    <2> QED
      BY <2>1, GrantedSound DEF Grant, SessionOK
  <1>4. CASE AcquireRollsBack(s)
    BY <1>4, RollBackEffect
  <1>5. ASSUME NEW f \in frames, ReleaseFrame(s, f) PROVE Harmless(camera'[s])
    <2>1. /\ Calls(s, {"Started"}) /\ BelongsTo(f, s)
          /\ \E r \in Replies(s, SimulatedReleaseFrame(camera[s], f.frame_token)) : Dispatch(s, r)
      BY <1>5 DEF ReleaseFrame
    <2>2. f.frame_token \in TokensOf(camera[s])
      BY <2>1, StreamingInStep DEF BelongsTo
    <2> QED
      BY <2>1, <2>2, StreamingInStep, ReleaseKnown, HarmlessReply
  <1> QED
    BY <1>1, <1>2, <1>3, <1>4, <1>5 DEF Streaming

\* stop() reaches the camera only when every token is back, the pending one
\* included.
LEMMA StopUsed ==
  ASSUME SessionInv, LoanInv, NEW s \in Sessions, InStep(s), Stop(s)
  PROVE  Harmless(camera'[s])
  <1> USE DEF SessionInv
  <1>1. Calls(s, {"Started"})
    BY DEF Stop
  <1>2. ASSUME NEW c \in Camera, c.state = "Started", TokensOf(c) = {}, StopCallback(s, c)
        PROVE  Harmless(camera'[s])
    <2>1. Harmless(SimulatedStop(c).camera)
      BY <1>2, NothingGranted, StopReply
    <2>2. Harmless(Failed(c, "exception").camera)
      BY <1>2, FailedReply DEF Errors, Harmless
    <2> QED
      BY <1>2, <2>1, <2>2, Dispatched DEF StopCallback
  <1>3. CASE pending_cleanup_token[s] = NoToken
    <2>1. outstanding_tokens[s] = {} /\ StopCallback(s, camera[s])
      BY <1>3 DEF Stop, MayStop
    <2>2. TokensOf(camera[s]) = {}
      BY <1>1, <1>3, <2>1, StreamingInStep DEF Pending
    <2> QED
      BY <1>1, <1>2, <2>1, <2>2, StreamingInStep
  <1>4. CASE pending_cleanup_token[s] # NoToken
    <2> DEFINE token == pending_cleanup_token[s]
               right == SimulatedReleaseFrame(camera[s], token)
    <2>1. PICK r \in Replies(s, right) :
            \/ Dispatch(s, r)
            \/ r.status = "OK" /\ MayStop(s) /\ StopCallback(s, r.camera)
      BY <1>4 DEF Stop
    <2>2. token \in TokensOf(camera[s]) /\ token \notin outstanding_tokens[s]
      BY <1>1, <1>4, StreamingInStep DEF Pending
    <2>3. /\ Harmless(right.camera) /\ right.camera \in Camera /\ right.camera.state = "Started"
          /\ TokensOf(right.camera) = TokensOf(camera[s]) \ {token}
      BY <1>1, <2>2, StreamingInStep, ReleaseKnown
    <2>4. CASE Dispatch(s, r)
      BY <2>3, <2>4, HarmlessReply
    <2>5. CASE r.status = "OK" /\ MayStop(s) /\ StopCallback(s, r.camera)
      <3>1. r = right
        BY <1>1, <2>5, StreamingInStep, RepliesFacts
      <3>2. TokensOf(right.camera) = {}
        BY <1>1, <1>4, <2>3, <2>5, StreamingInStep DEF MayStop, Pending
      <3> QED
        BY <1>2, <2>3, <2>5, <3>1, <3>2
    <2> QED
      BY <2>1, <2>4, <2>5
  <1> QED
    BY <1>3, <1>4

\* No release stays pending unless a callback failed without cause.
LEMMA PendingKept ==
  ASSUME SessionInv, NEW s \in Sessions, "callback" \notin Faults, InStep(s),
         Changing(s) \/ Streaming(s) \/ Cleanup(s)
  PROVE  pending_cleanup_token'[s] = NoToken
  <1> USE DEF SessionInv
  <1>0. pending_cleanup_token[s] = NoToken
    BY DEF InStep
  <1>1. CASE AcquireRollsBack(s)
    BY <1>1, RollBackEffect
  <1>2. CASE Stop(s)
    BY <1>0, <1>2 DEF Stop
  <1>3. CASE Destruct(s)
    BY <1>0, <1>3 DEF Destruct
  <1> QED
    BY <1>0, <1>1, <1>2, <1>3 DEF Changing, Streaming, Cleanup, Load, Open, OpenSource, Capabilities,
       StreamConfiguration, StreamConfigurationAt, Configure, ConfigureStream, Start, Close,
       WaitFrame, AcquireFails, Acquire, ReleaseFrame, CleanupReleases,
       CleanupStops, CleanupCloses, CleanupDestroys, Lifecycle, Query

\* A call of a session in use.
LEMMA LiveStep ==
  ASSUME SessionInv, SessionInv', LoanInv, NEW s \in Sessions, InStep(s),
         Changing(s) \/ Streaming(s)
  PROVE  InStep(s)'
  <1>1. pc'[s] = "live"
    BY DEF Changing, Streaming, Load, Open, OpenSource, Capabilities, StreamConfiguration,
       StreamConfigurationAt, Configure, ConfigureStream, Start, Stop, Close, WaitFrame, AcquireFails,
       Acquire, AcquireRollsBack, ReleaseFrame, Lifecycle, Query, Calls, MayAcquire, SessionInv, TypeOK
  <1>2. Used(s)'
    <2>1. CASE Load(s)
      <3>1. camera'[s] = NewCamera
        BY <2>1 DEF Load, SessionInv, SessionOK, OwesNothing
      <3> QED
        BY <3>1 DEF Used, NewCamera
    <2>2. ASSUME Harmless(camera'[s]) PROVE Used(s)'
      BY <2>2 DEF Used, Harmless
    <2> QED
      BY <2>1, <2>2, SettledUsed, StreamingUsed, StopUsed DEF Changing
  <1>3. (camera[s].state # "Started" => camera[s].outstanding = {})'
    BY <1>1 DEF SessionInv, SessionOK, Agrees, OwesNothing
  <1> QED
    BY <1>1, <1>2, <1>3, PendingKept DEF InStep, Winding

\* The destructor begins: a pending token is one the camera knows.
LEMMA DestructInStep ==
  ASSUME SessionInv, LoanInv, NEW s \in Sessions, InStep(s), Destruct(s)
  PROVE  InStep(s)'
  <1> USE DEF SessionInv
  <1>1. /\ pc[s] = "live" /\ pc'[s] = "release" /\ UNCHANGED <<state, outstanding_tokens>>
        /\ Calls(s, SessionState)
    BY DEF Destruct, Goto, TypeOK, Calls, SessionOK
  <1>2. "callback" \notin Faults => pending_cleanup_token'[s] = NoToken
    BY PendingKept DEF Cleanup
  <1>3. CASE pending_cleanup_token[s] = NoToken
    <2>1. UNCHANGED camera
      BY <1>3 DEF Destruct
    <2>2. TokensOf(camera[s]) = outstanding_tokens[s]
      BY <1>1, <1>3, LiveInStep DEF Pending
    <2> QED
      BY <1>1, <1>2, <2>1, <2>2, LiveInStep, TokensNow DEF InStep, Used, Ahead, Winding
  <1>4. CASE pending_cleanup_token[s] # NoToken
    <2> DEFINE token == pending_cleanup_token[s]
               right == SimulatedReleaseFrame(camera[s], token)
    <2>1. PICK r \in Replies(s, right) : Dispatch(s, r)
      BY <1>4 DEF Destruct
    <2>2. Calls(s, {"Started"}) /\ "callback" \in Faults
      BY <1>1, <1>4 DEF SessionOK, OwesNothing, Calls, InStep
    <2>3. token \in TokensOf(camera[s]) /\ token \notin outstanding_tokens[s]
      BY <1>4, <2>2, StreamingInStep DEF Pending
    <2>4. /\ Harmless(right.camera) /\ right.camera.state = "Started"
          /\ TokensOf(right.camera) = TokensOf(camera[s]) \ {token}
      BY <2>2, <2>3, StreamingInStep, ReleaseKnown
    <2>5. Harmless(camera'[s]) /\ camera'[s].state = "Started"
          /\ TokensOf(camera[s]) \ {token} \subseteq TokensOf(camera'[s])
      <3>1. camera'[s] = r.camera
        BY <2>1, Dispatched
      <3>2. r = right \/ (Harmless(r.camera) /\ Loans(camera[s], r.camera, {})
                            /\ r.camera.state = camera[s].state)
        BY <2>2, StreamingInStep, RepliesFacts
      <3> QED
        BY <2>2, <2>4, <3>1, <3>2, StreamingInStep, TokensKept
    <2>6. outstanding_tokens'[s] \subseteq TokensOf(camera'[s])
      BY <1>1, <2>2, <2>3, <2>5, StreamingInStep
    <2> QED
      BY <1>1, <1>2, <2>2, <2>5, <2>6, TokensNow DEF InStep, Used, Harmless, Winding, Calls
  <1> QED
    BY <1>3, <1>4

\* The destructor returns a token while its camera still streams.
LEMMA CleanupReleasesInStep ==
  ASSUME SessionInv, NEW s \in Sessions, InStep(s), CleanupReleases(s)
  PROVE  InStep(s)'
  <1> USE DEF SessionInv
  <1>0. SoundCamera(camera[s]) /\ camera[s] \in Camera
    BY DEF SessionOK, SoundCamera
  <1>1. /\ pc[s] = "release" /\ UNCHANGED <<state, pending_cleanup_token>>
        /\ outstanding_tokens[s] \subseteq TokensOf(camera[s])
        /\ "callback" \notin Faults => TokensOf(camera[s]) = outstanding_tokens[s]
        /\ camera[s].state = state[s] \/ Ahead(s)
    BY TokensNow DEF CleanupReleases, InStep, Winding
  <1>2. CASE outstanding_tokens[s] = {} /\ Goto(s, "stop") /\ UNCHANGED <<camera, outstanding_tokens>>
    <2>1. pc'[s] = "stop"
      BY <1>2 DEF Goto, TypeOK
    <2>2. "callback" \notin Faults => camera[s].outstanding = {}
      BY <1>1, <1>2, NothingGranted
    <2> QED
      BY <1>1, <1>2, <2>1, <2>2 DEF InStep, Used, Ahead, LeftStreaming, Winding
  <1>3. ASSUME NEW t \in outstanding_tokens[s], UNCHANGED pc, Forget(s, t),
               NEW r \in Replies(s, SimulatedReleaseFrame(camera[s], t)), Dispatch(s, r)
        PROVE  InStep(s)'
    <2> DEFINE right == SimulatedReleaseFrame(camera[s], t)
    <2>1. t \in TokensOf(camera[s]) /\ camera[s].outstanding # {}
      BY <1>1, <1>3 DEF TokensOf
    <2>2. camera[s].state = "Started" /\ state[s] = "Started"
      BY <1>1, <2>1 DEF InStep, Ahead
    <2>3. /\ Harmless(right.camera) /\ right.camera.state = "Started"
          /\ TokensOf(right.camera) = TokensOf(camera[s]) \ {t}
      BY <1>0, <2>1, <2>2, ReleaseKnown
    <2>4. /\ camera'[s] = r.camera /\ outstanding_tokens'[s] = outstanding_tokens[s] \ {t}
      BY <1>3, Dispatched DEF Forget, TypeOK
    <2>5. \/ r = right
          \/ /\ "callback" \in Faults /\ Harmless(r.camera) /\ Loans(camera[s], r.camera, {})
             /\ r.camera.state = camera[s].state
      BY <1>0, <1>3, RepliesFacts
    <2>6. Harmless(camera'[s]) /\ camera'[s].state = "Started"
      BY <2>2, <2>3, <2>4, <2>5
    <2>7. /\ outstanding_tokens'[s] \subseteq TokensOf(camera'[s])
          /\ "callback" \notin Faults => TokensOf(camera'[s]) = outstanding_tokens'[s]
      BY <1>1, <2>3, <2>4, <2>5, TokensKept
    <2> QED
      BY <1>1, <1>3, <2>2, <2>6, <2>7, TokensNow DEF InStep, Used, Harmless, Winding
  <1> QED
    BY <1>2, <1>3 DEF CleanupReleases

\* It stops a camera that streams, and leaves it streaming only when one of
\* its releases, or the stop itself, failed without cause.
LEMMA CleanupStopsInStep ==
  ASSUME SessionInv, NEW s \in Sessions, InStep(s), CleanupStops(s)
  PROVE  InStep(s)'
  <1> USE DEF SessionInv
  <1>1. /\ pc[s] = "stop" /\ pc'[s] = "close" /\ UNCHANGED <<outstanding_tokens, pending_cleanup_token>>
        /\ "callback" \notin Faults => camera[s].outstanding = {}
        /\ camera[s].state = state[s] \/ Ahead(s)
        /\ camera[s] \in Camera
    BY DEF CleanupStops, InStep, Winding, Goto, TypeOK
  <1>2. CASE state[s] # "Started" /\ UNCHANGED <<camera, state>>
    BY <1>1, <1>2 DEF InStep, Used, Ahead, LeftStreaming, Winding
  <1>3. ASSUME state[s] = "Started", NEW r \in Replies(s, SimulatedStop(camera[s])), Dispatch(s, r),
               state' = [state EXCEPT ![s] = "Stopped"]
        PROVE  InStep(s)'
    <2>1. camera'[s] = r.camera /\ state'[s] = "Stopped" /\ camera[s].state = "Started"
      BY <1>1, <1>3, Dispatched DEF TypeOK, Ahead
    <2>2. CASE camera[s].outstanding = {} /\ r = SimulatedStop(camera[s])
      <3>1. /\ Harmless(r.camera) /\ r.camera.state = "Stopped" /\ r.camera.outstanding = {}
        BY <1>1, <2>1, <2>2, StopReply DEF Moves, Loans
      <3> QED
        BY <1>1, <2>1, <3>1 DEF InStep, Used, Harmless, Winding
    <2>3. CASE camera[s].outstanding # {} \/ r # SimulatedStop(camera[s])
      <3>1. "callback" \in Faults
        BY <1>1, <1>3, <2>3, AnyReply
      <3>2. /\ r.camera.state = "Started" /\ r.camera.last_error # "unknown_token"
        BY <1>1, <1>3, <2>1, <2>3, AnyReply, FailedReply DEF SimulatedStop, Errors
      <3> QED
        BY <1>1, <2>1, <3>1, <3>2 DEF InStep, Used, LeftStreaming, Winding
    <2> QED
      BY <2>2, <2>3
  <1> QED
    BY <1>2, <1>3 DEF CleanupStops, CleanupCalls

\* It closes the camera, unless that one still streams.
LEMMA CleanupClosesInStep ==
  ASSUME SessionInv, NEW s \in Sessions, InStep(s), CleanupCloses(s)
  PROVE  InStep(s)'
  <1> USE DEF SessionInv
  <1>1. /\ pc[s] = "close" /\ pc'[s] = "destroy" /\ UNCHANGED <<outstanding_tokens, pending_cleanup_token>>
        /\ state[s] # "Started" /\ state[s] \in SessionState
        /\ \/ camera[s].state = state[s] \/ Ahead(s)
           \/ LeftStreaming(s) /\ state[s] = "Stopped"
        /\ camera[s].state # "Started" => camera[s].outstanding = {}
        /\ camera[s] \in Camera
    BY DEF CleanupCloses, InStep, Winding, Goto, TypeOK
  <1>2. CASE state[s] = "Created" /\ UNCHANGED <<camera, state>>
    BY <1>1, <1>2 DEF InStep, Used, Ahead, LeftStreaming, Winding
  <1>3. ASSUME NEW r \in Replies(s, SimulatedClose(camera[s])), Dispatch(s, r)
        PROVE  InStep(s)'
    <2>1. camera'[s] = r.camera
      BY <1>3, Dispatched
    <2>2. CASE camera[s].state # "Started" /\ r = SimulatedClose(camera[s])
      <3>1. Harmless(r.camera) /\ r.camera.state = "Created" /\ r.camera.outstanding = {}
        BY <1>1, <2>2, CloseReply DEF Moves, Loans
      <3> QED
        BY <1>1, <2>1, <3>1 DEF InStep, Used, Harmless, Winding
    <2>3. CASE camera[s].state = "Started" /\ r = SimulatedClose(camera[s])
      <3>1. "callback" \in Faults
        BY <1>1, <2>3 DEF LeftStreaming, Ahead
      <3>2. r.camera.state = "Started" /\ r.camera.last_error = "invalid_state"
        BY <1>1, <2>3, FailedReply DEF SimulatedClose, Errors
      <3> QED
        BY <1>1, <2>1, <3>1, <3>2 DEF InStep, Used, LeftStreaming, Winding
    <2>4. CASE r # SimulatedClose(camera[s])
      <3>1. /\ "callback" \in Faults /\ r.camera.last_error = "exception"
            /\ r.camera.state = camera[s].state /\ r.camera.outstanding = camera[s].outstanding
        BY <1>1, <1>3, <2>4, AnyReply, FailedReply DEF Errors, Loans
      <3> QED
        BY <1>1, <2>1, <3>1 DEF InStep, Used, Winding
    <2> QED
      BY <2>2, <2>3, <2>4
  <1> QED
    BY <1>1, <1>2, <1>3 DEF CleanupCloses, CleanupCalls, SessionState, SimulatedState

\* No step takes a session out of step with its camera.
LEMMA StepInvPreserved ==
  ASSUME SessionInv, SessionInv', LoanInv, StepInv, [Next]_vars
  PROVE  StepInv'
  <1> USE DEF SessionInv, StepInv
  <1>1. ASSUME UNCHANGED <<pc, state, outstanding_tokens, pending_cleanup_token, camera>>
        PROVE  StepInv'
    BY <1>1 DEF InStep, Used, Ahead, LeftStreaming, Winding, GrantedTokens
  <1>2. ASSUME NEW s \in Sessions, Changing(s) \/ Streaming(s) \/ Cleanup(s)
        PROVE  StepInv'
    <2>1. Only(s)
      BY <1>2, Locality
    <2>2. ASSUME NEW o \in Sessions, o # s PROVE InStep(o)'
      <3>1. /\ pc'[o] = pc[o] /\ state'[o] = state[o]
            /\ outstanding_tokens'[o] = outstanding_tokens[o]
            /\ pending_cleanup_token'[o] = pending_cleanup_token[o] /\ camera'[o] = camera[o]
        BY <2>1, <2>2 DEF Only, TypeOK
      <3>2. InStep(o)
        OBVIOUS
      <3> QED
        BY <3>1, <3>2 DEF InStep, Used, Ahead, LeftStreaming, Winding, GrantedTokens
    <2>3. CASE CleanupDestroys(s)
      <3>1. /\ pc'[s] = "gone" /\ camera'[s] = NewCamera
        BY <2>3 DEF CleanupDestroys, Goto, TypeOK
      <3> QED
        BY <2>2, <2>3, <3>1, PendingKept DEF InStep, Used, Winding, NewCamera, Cleanup
    <2>4. CASE Changing(s) \/ Streaming(s) \/ (Cleanup(s) /\ ~CleanupDestroys(s))
      <3>1. InStep(s)'
        BY <2>4, LiveStep, DestructInStep, CleanupReleasesInStep, CleanupStopsInStep, CleanupClosesInStep
           DEF Cleanup
      <3> QED
        BY <2>2, <3>1
    <2> QED
      BY <1>2, <2>3, <2>4
  <1>3. ASSUME NEW f \in frames, DropFrame(f) PROVE StepInv'
    BY <1>1, <1>3 DEF DropFrame
  <1> QED
    BY <1>1, <1>2, <1>3 DEF Next, vars

\* Every session stays in step, as long as no buffer is granted twice.
LEMMA StepInvariant ==
  ASSUME "duplicate" \notin Faults
  PROVE  Spec => []StepInv
  <1>1. Init => StepInv
    BY DEF Init, StepInv, InStep, Used, Winding, NewCamera
  <1>2. SessionInv /\ SessionInv' /\ LoanInv /\ StepInv /\ [Next]_vars => StepInv'
    BY StepInvPreserved
  <1> QED
    BY <1>1, <1>2, SessionInvariant, LoanInvariant, PTL DEF Spec

\* No call of a session reaches its backend in a state that forbids it or with
\* a token it does not know, through failing callbacks, refused configurations,
\* rolled back frames and their pending releases; the exceptions are an open
\* session's calls of a backend it left Configured, and what the destructor
\* does after a failure of its own (require_state, cleanup).
THEOREM NeverMisused ==
  ASSUME "duplicate" \notin Faults
  PROVE  Spec => []BackendNeverMisused
  <1>1. StepInv => BackendNeverMisused
    BY DEF StepInv, InStep, Used, Ahead, LeftStreaming, BackendNeverMisused
  <1> QED
    BY <1>1, StepInvariant, PTL

\* The destructor deletes a camera that is closed and has every buffer back,
\* unless the last callback it made failed (~CameraSession).
THEOREM ClosedWhenDestroyed ==
  ASSUME "duplicate" \notin Faults
  PROVE  Spec => []DestroyedClosed
  <1>1. StepInv => DestroyedClosed
    BY DEF StepInv, InStep, Winding, DestroyedClosed
  <1> QED
    BY <1>1, StepInvariant, PTL

-----------------------------------------------------------------------------
(* The promise of FrameLease.                                              *)

\* Lent, as a function of the camera and the tokens.
LentOf(c, tokens) == {b \in c.outstanding : c.token[b] \in tokens}

\* Releasing a token and forgetting it take the same buffers back, of which
\* there is at most one.
LEMMA LentForgotten ==
  ASSUME NEW c, NEW tokens, NEW token
  PROVE  LentOf(c, tokens \ {token}) = LentOf(c, tokens) \ Holding(c, token)
  BY DEF LentOf, Holding

\* What the camera takes back is lent no longer.
LEMMA LentReleased ==
  ASSUME NEW c, NEW tokens, NEW back, NEW d, Loans(c, d, back)
  PROVE  LentOf(d, tokens) = LentOf(c, tokens) \ back
  BY DEF LentOf, Loans

\* A token belongs to one buffer at most.
LEMMA OneHolder ==
  ASSUME NEW c, SoundCamera(c), NEW token
  PROVE  \A a, b \in Holding(c, token) : a = b
  BY DEF SoundCamera, Holding

\* Lent, before and after a step.
LEMMA LentNow ==
  ASSUME NEW s
  PROVE  /\ Lent(s) = LentOf(camera[s], outstanding_tokens[s])
         /\ Lent(s)' = LentOf(camera'[s], outstanding_tokens'[s])
  BY DEF Lent, LentOf

\* A step the promise allows.
Leased == [Promise!Next]_(Promise!vars)

\* Everything the promise speaks of stays as it is for the other sessions.
LEMMA OthersLent ==
  ASSUME TypeOK, TypeOK', NEW s \in Sessions, Only(s)
  PROVE  /\ \A o \in Sessions \ {s} : Lent(o)' = Lent(o) /\ camera'[o].storage = camera[o].storage
         /\ \A o \in Sessions : camera'[o].storage \in [Buffers -> Nat]
         /\ Lent(s) \subseteq Buffers
  BY DEF TypeOK, Only, Lent, Camera

\* A step that keeps what it has lent as it is, and does what it likes with
\* the rest.
LEMMA Rewrites ==
  ASSUME TypeOK, TypeOK', NEW s \in Sessions, Only(s), Lent(s)' = Lent(s),
         \A b \in Lent(s) : camera'[s].storage[b] = camera[s].storage[b]
  PROVE  Leased
  <1>1. [o \in Sessions |-> Lent(o)]' = [o \in Sessions |-> Lent(o)]
    BY OthersLent
  <1>2. Promise!Rewrite(s)
    BY <1>1, OthersLent DEF Promise!Rewrite, Promise!Keeps
  <1> QED
    BY <1>2 DEF Leased, Promise!Next

\* A step that lends one more buffer.
LEMMA Lends ==
  ASSUME TypeOK, TypeOK', NEW s \in Sessions, Only(s), NEW b \in Buffers, b \notin Lent(s),
         Lent(s)' = Lent(s) \cup {b},
         \A x \in Lent(s) : camera'[s].storage[x] = camera[s].storage[x]
  PROVE  Leased
  <1>1. [o \in Sessions |-> Lent(o)]' = [[o \in Sessions |-> Lent(o)] EXCEPT ![s] = @ \cup {b}]
    BY OthersLent
  <1>2. Promise!Lend(s, b)
    BY <1>1, OthersLent DEF Promise!Lend, Promise!Keeps
  <1> QED
    BY <1>2 DEF Leased, Promise!Next

\* A step that takes at most one buffer back.
LEMMA Returns ==
  ASSUME TypeOK, TypeOK', NEW s \in Sessions, Only(s), NEW back,
         \A a, b \in back : a = b,
         Lent(s)' = Lent(s) \ back,
         camera'[s].storage = camera[s].storage
  PROVE  Leased
  <1>1. CASE Lent(s) \cap back = {}
    BY <1>1, Rewrites
  <1>2. CASE Lent(s) \cap back # {}
    <2>1. PICK b \in Lent(s) : b \in back
      BY <1>2
    <2>2. Lent(s)' = Lent(s) \ {b} /\ b \in Buffers
      BY <2>1, OthersLent
    <2>3. [o \in Sessions |-> Lent(o)]' = [[o \in Sessions |-> Lent(o)] EXCEPT ![s] = @ \ {b}]
      BY <2>2, OthersLent
    <2>4. Promise!Return(s, b)
      BY <2>1, <2>3, OthersLent DEF Promise!Return, Promise!Keeps
    <2> QED
      BY <2>2, <2>4 DEF Leased, Promise!Next
  <1> QED
    BY <1>1, <1>2

\* Whether or not the camera took the token back, and whether or not the session
\* forgot it, what the session lent is what it was but for that token's buffer.
LEMMA TokenReturned ==
  ASSUME TypeOK, TypeOK', NEW s \in Sessions, Only(s), SoundCamera(camera[s]), NEW token,
         \/ /\ Loans(camera[s], camera'[s], {}) \/ Loans(camera[s], camera'[s], Holding(camera[s], token))
            /\ outstanding_tokens'[s] = outstanding_tokens[s] \ {token}
         \/ /\ Loans(camera[s], camera'[s], Holding(camera[s], token))
            /\ outstanding_tokens'[s] = outstanding_tokens[s]
  PROVE  Leased
  <1> DEFINE c == camera[s]
             back == Holding(c, token)
             tokens == outstanding_tokens[s]
  <1>0. /\ Lent(s) = LentOf(c, tokens)
        /\ Lent(s)' = LentOf(camera'[s], outstanding_tokens'[s])
        /\ LentOf(c, tokens \ {token}) = LentOf(c, tokens) \ back
    BY LentNow, LentForgotten
  <1>1. Lent(s)' = Lent(s) \ back
    <2>1. CASE /\ Loans(c, camera'[s], {})
               /\ outstanding_tokens'[s] = tokens \ {token}
      <3>1. LentOf(camera'[s], tokens \ {token}) = LentOf(c, tokens \ {token}) \ {}
        BY <2>1, LentReleased
      <3> QED
        BY <1>0, <2>1, <3>1
    <2>2. CASE /\ Loans(c, camera'[s], back)
               /\ outstanding_tokens'[s] = tokens \ {token}
      <3>1. LentOf(camera'[s], tokens \ {token}) = LentOf(c, tokens \ {token}) \ back
        BY <2>2, LentReleased
      <3> QED
        BY <1>0, <2>2, <3>1
    <2>3. CASE /\ Loans(c, camera'[s], back)
               /\ outstanding_tokens'[s] = tokens
      <3>1. LentOf(camera'[s], tokens) = LentOf(c, tokens) \ back
        BY <2>3, LentReleased
      <3> QED
        BY <1>0, <2>3, <3>1
    <2> QED
      BY <2>1, <2>2, <2>3
  <1>2. camera'[s].storage = c.storage
    BY DEF Loans
  <1>3. \A a, b \in back : a = b
    BY OneHolder
  <1> QED
    BY <1>1, <1>2, <1>3, Returns

\* A step after which the session owes what it owed.
LEMMA LoansKept ==
  ASSUME TypeOK, TypeOK', NEW s \in Sessions, Only(s), Loans(camera[s], camera'[s], {}),
         SoundCamera(camera[s]), outstanding_tokens'[s] = outstanding_tokens[s]
  PROVE  Leased
  <1>0. /\ Lent(s) = LentOf(camera[s], outstanding_tokens[s])
        /\ Lent(s)' = LentOf(camera'[s], outstanding_tokens[s])
    BY LentNow
  <1>1. LentOf(camera'[s], outstanding_tokens[s]) = LentOf(camera[s], outstanding_tokens[s]) \ {}
    BY LentReleased
  <1>2. Lent(s)' = Lent(s)
    BY <1>0, <1>1
  <1> QED
    BY <1>2, Rewrites DEF Loans

\* A step of a session that owes nothing.
LEMMA NothingLent ==
  ASSUME TypeOK, TypeOK', NEW s \in Sessions, Only(s),
         outstanding_tokens[s] = {}, outstanding_tokens'[s] = {}
  PROVE  Leased
  <1>1. Lent(s) = {} /\ Lent(s)' = {}
    BY DEF Lent
  <1> QED
    BY <1>1, Rewrites

\* A frame that is taken lends its buffer: a new one, or one whose token the
\* session does not owe.
LEMMA LeaseAcquire ==
  ASSUME SessionInv, SessionInv', NEW s \in Sessions, Acquire(s)
  PROVE  Leased
  <1> DEFINE c == camera[s]
  <1>1. PICK r :
           /\ Grant(c, r)
           /\ camera'[s] = r.camera
           /\ r.token \notin outstanding_tokens[s]
           /\ outstanding_tokens'[s] = outstanding_tokens[s] \cup {r.token}
    BY AcquireEffect
  <1>2. Only(s) /\ TypeOK /\ TypeOK' /\ SoundCamera(c)
    BY Locality DEF Streaming, SessionInv, SessionOK
  <1>3. outstanding_tokens[s] \subseteq Issued(c)
    BY DEF SessionInv, SessionOK, TokensIssued
  <1>6. Lent(s) \subseteq c.outstanding
    BY DEF Lent
  <1>4. CASE FilledReply(c, r)
    <2>1. /\ r.buffer \in Buffers /\ r.buffer \notin Lent(s)
          /\ r.camera.token[r.buffer] = r.token
          /\ r.camera.outstanding = c.outstanding \cup {r.buffer}
          /\ \A b \in c.outstanding : /\ r.camera.token[b] = c.token[b]
                                      /\ r.camera.storage[b] = c.storage[b]
      BY <1>2, <1>4 DEF FilledReply, Lent, SoundCamera, Camera
    <2>2. \A b \in c.outstanding : c.token[b] # r.token
      BY <1>2, <1>4, TokenGranted DEF SoundCamera
    <2>3. Lent(s)' = Lent(s) \cup {r.buffer}
      BY <1>1, <2>1, <2>2 DEF Lent
    <2>4. \A x \in Lent(s) : camera'[s].storage[x] = camera[s].storage[x]
      BY <1>1, <1>6, <2>1
    <2> QED
      BY <1>2, <2>1, <2>3, <2>4, Lends
  <1>5. CASE RepeatedReply(c, r)
    <2>1. /\ r.buffer \in Buffers /\ r.buffer \notin Lent(s) /\ r.buffer \in c.outstanding
          /\ c.token[r.buffer] = r.token
          /\ r.camera.outstanding = c.outstanding
          /\ r.camera.storage = c.storage
          /\ \A b \in c.outstanding : r.camera.token[b] = c.token[b]
      BY <1>1, <1>2, <1>5 DEF RepeatedReply, Loans, Lent, SoundCamera, Camera
    <2>2. \A b \in c.outstanding : c.token[b] = r.token => b = r.buffer
      BY <1>2, <2>1 DEF SoundCamera
    <2>3. Lent(s)' = Lent(s) \cup {r.buffer}
      BY <1>1, <2>1, <2>2 DEF Lent
    <2> QED
      BY <1>1, <1>2, <2>1, <2>3, Lends
  <1> QED
    BY <1>1, <1>4, <1>5 DEF Grant

\* A frame that is rolled back lends nothing; one that was lent before goes
\* back.
LEMMA LeaseRollBack ==
  ASSUME SessionInv, SessionInv', NEW s \in Sessions, AcquireRollsBack(s)
  PROVE  Leased
  <1> DEFINE c == camera[s]
             tokens == outstanding_tokens[s]
  <1>1. PICK r :
           /\ Grant(c, r)
           /\ \/ Loans(r.camera, camera'[s], Holding(r.camera, r.token))
              \/ Loans(r.camera, camera'[s], {})
           /\ UNCHANGED outstanding_tokens
    BY RollBackEffect
  <1>2. Only(s) /\ TypeOK /\ TypeOK' /\ SoundCamera(c) /\ SoundCamera(r.camera)
    BY <1>1, Locality, GrantedSound DEF Streaming, SessionInv, SessionOK, Grant
  <1>3. tokens \subseteq Issued(c)
    BY DEF SessionInv, SessionOK, TokensIssued
  <1>4. CASE FilledReply(c, r)
    <2>1. /\ r.buffer \notin c.outstanding
          /\ r.camera.token[r.buffer] = r.token
          /\ r.camera.outstanding = c.outstanding \cup {r.buffer}
          /\ \A b \in c.outstanding : /\ r.camera.token[b] = c.token[b]
                                      /\ r.camera.storage[b] = c.storage[b]
      BY <1>2, <1>4 DEF FilledReply, SoundCamera, Camera
    <2>2. r.token \notin tokens
      BY <1>2, <1>3, <1>4, TokenGranted
    <2>3. LentOf(r.camera, tokens) = LentOf(c, tokens)
      BY <2>1, <2>2 DEF LentOf
    <2>4. LentOf(camera'[s], tokens) = LentOf(r.camera, tokens)
      <3>1. /\ LentOf(r.camera, tokens \ {r.token}) = LentOf(r.camera, tokens) \ Holding(r.camera, r.token)
            /\ tokens \ {r.token} = tokens
        BY <2>2, LentForgotten
      <3>2. \/ LentOf(camera'[s], tokens) = LentOf(r.camera, tokens) \ Holding(r.camera, r.token)
            \/ LentOf(camera'[s], tokens) = LentOf(r.camera, tokens) \ {}
        BY <1>1, LentReleased
      <3> QED
        BY <3>1, <3>2
    <2>5. Lent(s)' = Lent(s)
      BY <1>1, <2>3, <2>4, LentNow
    <2>6. \A b \in Lent(s) : camera'[s].storage[b] = c.storage[b]
      BY <1>1, <2>1 DEF Lent, Loans
    <2> QED
      BY <1>2, <2>5, <2>6, Rewrites
  <1>5. CASE RepeatedReply(c, r)
    <2>1. Loans(c, r.camera, {}) /\ Holding(r.camera, r.token) = Holding(c, r.token)
      BY <1>5 DEF RepeatedReply, Loans, Holding
    <2>2. Loans(c, camera'[s], Holding(c, r.token)) \/ Loans(c, camera'[s], {})
      BY <1>1, <2>1 DEF Loans
    <2> QED
      BY <1>1, <1>2, <2>2, TokenReturned, LoansKept
  <1> QED
    BY <1>1, <1>4, <1>5 DEF Grant

\* The destructor releases its pending token, if there is one and it can.
LEMMA DestructEffect ==
  ASSUME SessionInv, NEW s \in Sessions, Destruct(s)
  PROVE  /\ UNCHANGED outstanding_tokens
         /\ \/ Loans(camera[s], camera'[s], {})
            \/ Loans(camera[s], camera'[s], Holding(camera[s], pending_cleanup_token[s]))
  <1>0. camera[s] \in Camera /\ pending_cleanup_token[s] \in Nat
    BY DEF SessionInv, TypeOK
  <1>1. CASE UNCHANGED camera
    BY <1>0, <1>1 DEF Destruct, Loans
  <1>2. ASSUME NEW r \in Replies(s, SimulatedReleaseFrame(camera[s], pending_cleanup_token[s])),
               Dispatch(s, r)
        PROVE  \/ Loans(camera[s], camera'[s], {})
               \/ Loans(camera[s], camera'[s], Holding(camera[s], pending_cleanup_token[s]))
    BY <1>0, <1>2, RepliesFacts, ReleaseReply, Dispatched DEF SessionInv
  <1> QED
    BY <1>1, <1>2 DEF Destruct

\* It forgets every other token, whatever the callback answers.
LEMMA CleanupReleasesEffect ==
  ASSUME SessionInv, NEW s \in Sessions, CleanupReleases(s)
  PROVE  \/ UNCHANGED <<camera, outstanding_tokens>>
         \/ \E token \in outstanding_tokens[s] :
              /\ \/ Loans(camera[s], camera'[s], {})
                 \/ Loans(camera[s], camera'[s], Holding(camera[s], token))
              /\ outstanding_tokens'[s] = outstanding_tokens[s] \ {token}
  <1>1. ASSUME NEW token \in outstanding_tokens[s], Forget(s, token),
               NEW r \in Replies(s, SimulatedReleaseFrame(camera[s], token)), Dispatch(s, r)
        PROVE  /\ \/ Loans(camera[s], camera'[s], {})
                  \/ Loans(camera[s], camera'[s], Holding(camera[s], token))
               /\ outstanding_tokens'[s] = outstanding_tokens[s] \ {token}
    <2>1. camera[s] \in Camera /\ token \in Nat
      BY DEF SessionInv, TypeOK, Tokens
    <2>2. Loans(camera[s], r.camera, {}) \/ Loans(camera[s], r.camera, Holding(camera[s], token))
      BY <2>1, RepliesFacts, ReleaseReply
    <2> QED
      BY <1>1, <2>2, Dispatched DEF SessionInv, Forget, TypeOK
  <1> QED
    BY <1>1 DEF CleanupReleases

\* Every operation of a session keeps the promise.
LEMMA LeaseStep ==
  ASSUME SessionInv, SessionInv', NEW s \in Sessions, Changing(s) \/ Streaming(s) \/ Cleanup(s)
  PROVE  Leased
  <1>0. Only(s) /\ TypeOK /\ TypeOK' /\ SoundCamera(camera[s]) /\ camera[s] \in Camera
    BY Locality DEF SessionInv, SessionOK, SoundCamera
  <1>1. CASE \/ Open(s) \/ Capabilities(s) \/ StreamConfiguration(s) \/ Configure(s) \/ Close(s)
             \/ WaitFrame(s) \/ AcquireFails(s)
    BY <1>0, <1>1, SettledEffect, LoansKept DEF Settled
  <1>2. CASE Load(s)
    <2>1. Loans(camera[s], camera'[s], {}) /\ outstanding_tokens'[s] = outstanding_tokens[s]
      BY <1>0, <1>2 DEF Load, Loans
    <2> QED
      BY <1>0, <2>1, LoansKept
  <1>3. CASE Start(s)
    BY <1>0, <1>3, StartEffect, NothingLent
  <1>4. CASE Stop(s)
    BY <1>0, <1>4, StopEffect, LoansKept, TokenReturned
  <1>5. CASE \E f \in frames : ReleaseFrame(s, f)
    BY <1>0, <1>5, ReleaseEffect, LoansKept, TokenReturned
  <1>6. CASE Destruct(s)
    BY <1>0, <1>6, DestructEffect, LoansKept, TokenReturned
  <1>7. CASE CleanupReleases(s)
    <2>1. CASE UNCHANGED <<camera, outstanding_tokens>>
      BY <1>0, <2>1, LoansKept DEF Loans
    <2> QED
      BY <1>0, <1>7, <2>1, CleanupReleasesEffect, TokenReturned
  <1>8. CASE CleanupStops(s) \/ CleanupCloses(s) \/ CleanupDestroys(s)
    <2>1. outstanding_tokens[s] = {} /\ outstanding_tokens'[s] = outstanding_tokens[s]
      BY <1>8 DEF CleanupStops, CleanupCloses, CleanupDestroys, SessionInv, SessionOK, OwesNothing
    <2> QED
      BY <1>0, <2>1, NothingLent
  <1> QED
    BY <1>1, <1>2, <1>3, <1>4, <1>5, <1>6, <1>7, <1>8, LeaseAcquire, LeaseRollBack
       DEF Changing, Streaming, Cleanup

\* Nothing is lent at first.
LEMMA LeaseInitially == Init => Promise!Init
  <1> SUFFICES ASSUME Init PROVE Promise!Init
    OBVIOUS
  <1>1. NewCamera.storage \in [Buffers -> Nat] /\ NewCamera.outstanding = {}
    BY NewCameraSound DEF SoundCamera, Camera, NewCamera
  <1>2. [s \in Sessions |-> Lent(s)] = [s \in Sessions |-> {}]
    BY <1>1 DEF Init, Lent
  <1> QED
    BY <1>1, <1>2 DEF Init, Promise!Init

\* A session over any backend, one that fails or grants a buffer twice
\* included, keeps the promise of FrameLease: a buffer is lent to one frame
\* at a time and keeps its image until it is returned (acquire_frame,
\* release_frame, stop, ~CameraSession).
THEOREM ImplementsLease == Spec => ImplementsFrameLease
  <1>1. SessionInv /\ SessionInv' /\ [Next]_vars => [Promise!Next]_(Promise!vars)
    <2> SUFFICES ASSUME SessionInv, SessionInv', [Next]_vars PROVE Leased
      BY DEF Leased
    <2>1. CASE UNCHANGED <<camera, outstanding_tokens>>
      BY <2>1 DEF Leased, Promise!vars, Lent
    <2>2. CASE \E s \in Sessions : Changing(s) \/ Streaming(s) \/ Cleanup(s)
      BY <2>2, LeaseStep
    <2> QED
      BY <2>1, <2>2 DEF Next, vars, DropFrame
  <1> QED
    BY <1>1, LeaseInitially, SessionInvariant, PTL DEF Spec, ImplementsFrameLease, Promise!Spec

-----------------------------------------------------------------------------
(* camstream-camera-test.                                                  *)

\* run_diagnostic() before its stream, in it, and all of its statements.
Preparing == {"open", "capabilities", "stream_configuration", "configure", "start"}
Looping == {"frame", "wait", "acquire"}
Running == Preparing \cup Looping \cup {"release", "stop", "close"}

\* The pairs of arguments at i that parse_command_line takes.
NamesBackend(i) == argv[i] = "--backend" /\ argv[i + 1] # EmptyPath
NamesFrames(i, n) ==
  argv[i] = "--frames" /\ argv[i + 1] \in DOMAIN Counts /\ n = Counts[argv[i + 1]]

\* Accepted(n), argument by argument.
Asks(n) ==
  \/ Len(argv) = 2 /\ NamesBackend(1) /\ n = DefaultCount
  \/ Len(argv) = 4 /\ NamesBackend(1) /\ NamesFrames(3, n)
  \/ Len(argv) = 4 /\ NamesFrames(1, n) /\ NamesBackend(3)

\* No number of frames makes the command line an accepted one.
AsksNothing == \A n \in {DefaultCount} \cup Range(Counts) : ~Asks(n)

\* The program's variables.
ProgramTypeOK ==
  /\ argv \in Seq(STRING)
  /\ options \in [backend_seen : BOOLEAN, frames_seen : BOOLEAN, frame_count : Nat \ {0}]
  /\ at \in {"parse", "load", "unwind", "exited"} \cup Running
  /\ index \in Nat
  /\ exit \in {NoExit, Succeeded, Failure, Usage}

\* What the options hold is what the arguments before index say.
ParsedSoFar ==
  LET backend == options.backend_seen
      count == options.frame_count
  IN  at = "parse" =>
        \/ index = 1 /\ ~backend /\ ~options.frames_seen /\ count = DefaultCount
        \/ /\ index = 3 /\ Len(argv) >= 2
           /\ NamesBackend(1) /\ backend /\ ~options.frames_seen /\ count = DefaultCount
        \/ /\ index = 3 /\ Len(argv) >= 2
           /\ NamesFrames(1, count) /\ ~backend /\ options.frames_seen
        \/ /\ index = 5 /\ Len(argv) >= 4 /\ backend /\ options.frames_seen
           /\ \/ NamesBackend(1) /\ NamesFrames(3, count)
              \/ NamesFrames(1, count) /\ NamesBackend(3)

\* A run is of an accepted command line; the others are answered.
Understood ==
  /\ at \notin {"parse", "exited"} => Asks(options.frame_count)
  /\ exit = Succeeded => argv = <<"--help">> \/ Asks(options.frame_count)
  /\ exit = Usage => AsksNothing
  /\ at \in {"parse", "load"} \cup Running => exit = NoExit
  /\ at = "unwind" => exit \in {Succeeded, Failure}

\* Where run_diagnostic() is, its session is in the state the next call needs.
SessionPlaced ==
  /\ at \in {"parse", "load"} => session = NoSession /\ frames = {}
  /\ at \in Running => session \in Sessions /\ pc[session] = "live"
  /\ at = "open" => state[session] = "Created"
  /\ at \in {"capabilities", "stream_configuration", "configure"} => state[session] = "Open"
  /\ at = "start" => state[session] = "Configured"
  /\ at \in Looping \cup {"release", "stop"} => state[session] = "Started"
  /\ at \in Running \ {"release"} => frames = {}

\* The program holds one frame at a time, and no buffer is out but that frame's.
OneFrame ==
  /\ at \in Looping => camera[session].outstanding = {}
  /\ at = "release" =>
       \E f \in frames :
         /\ frames = {f}
         /\ f.owner_identity = session
         /\ camera[session].outstanding \subseteq Holding(camera[session], f.frame_token)

\* The frames printed are those of the stream so far, in their order.
CountsTo(q, n) == q \in Seq(Nat) /\ Len(q) = n /\ \A i \in 1 .. n : q[i] = i - 1

\* Where the loop is, index counts the frames released, and shown those printed.
FramesCounted ==
  /\ at \in {"parse", "load"} \cup Preparing => shown = <<>>
  /\ at \in {"load"} \cup Preparing => index = 0
  /\ at \in Looping =>
       CountsTo(shown, index) /\ camera[session].next_sequence = index /\ index <= options.frame_count
  /\ at \in {"wait", "acquire", "release"} => index < options.frame_count
  /\ at = "release" => CountsTo(shown, index + 1) /\ camera[session].next_sequence = index + 1
  /\ at \in {"stop", "close"} => CountsTo(shown, options.frame_count)

\* A session with nothing left to clean up.
Clean(s) ==
  /\ state[s] = "Created" /\ camera[s].state = "Created"
  /\ camera[s].outstanding = {} /\ outstanding_tokens[s] = {}
  /\ pending_cleanup_token[s] = NoToken

\* The way out: views go before the session, and a success has left nothing.
Unwinding ==
  /\ at = "unwind" =>
       /\ session \in Sessions
       /\ pc[session] # "live" => Held = {}
  /\ at = "exited" /\ session # NoSession => pc[session] = "gone" /\ Held = {}
  /\ exit = Succeeded /\ argv # <<"--help">> =>
       /\ session \in Sessions
       /\ CountsTo(shown, options.frame_count)
       /\ Clean(session)

\* The inductive invariant of the program, beside that of its session.
ProgramInv ==
  /\ ProgramTypeOK /\ ParsedSoFar /\ Understood /\ SessionPlaced /\ OneFrame
  /\ FramesCounted /\ Unwinding

TestInv == SessionInv /\ ProgramInv

-----------------------------------------------------------------------------
(* The command line.                                                       *)

\* Four arguments, one by one.
LEMMA FourArguments ==
  ASSUME argv \in Seq(STRING), Len(argv) = 4
  PROVE  argv = <<argv[1], argv[2], argv[3], argv[4]>>
  OBVIOUS

\* What any accepted command line looks like.
LEMMA Asked ==
  ASSUME NEW n, Asks(n)
  PROVE  /\ Len(argv) \in {2, 4}
         /\ argv[1] \in {"--backend", "--frames"}
         /\ argv[1] = "--backend" => argv[2] # EmptyPath
         /\ argv[1] = "--frames" => Len(argv) = 4 /\ argv[2] \in DOMAIN Counts
         /\ Len(argv) = 4 =>
              /\ argv[3] \in {"--backend", "--frames"} \ {argv[1]}
              /\ argv[3] = "--backend" => argv[4] # EmptyPath
              /\ argv[3] = "--frames" => argv[4] \in DOMAIN Counts
  BY DEF Asks, NamesBackend, NamesFrames

\* Both options, in either order, are accepted.
LEMMA OptionsAccepted ==
  ASSUME NEW path \in Paths, NEW text \in DOMAIN Counts,
         \/ argv = <<"--backend", path, "--frames", text>>
         \/ argv = <<"--frames", text, "--backend", path>>
  PROVE  argv \in Accepted(Counts[text])
  <1> DEFINE lines(p, t) == {<<"--backend", p, "--frames", t>>, <<"--frames", t, "--backend", p>>}
             n == Counts[text]
  <1>1. argv \in lines(path, text) /\ text \in {t \in DOMAIN Counts : Counts[t] = n}
    OBVIOUS
  <1>2. Accepted(n) =
          {<<"--backend", p>> : p \in {p \in Paths : n = DefaultCount}}
            \cup UNION {lines(p, t) : p \in Paths, t \in {u \in DOMAIN Counts : Counts[u] = n}}
    BY DEF Accepted
  <1> HIDE DEF lines, n
  <1> QED
    BY <1>1, <1>2 DEF n

\* The accepted command lines, as sequences and argument by argument.
LEMMA AcceptedAsks ==
  ASSUME argv \in Seq(STRING), NEW n
  PROVE  argv \in Accepted(n) <=> Asks(n)
  <1>1. \A i \in 1 .. Len(argv) : argv[i] # EmptyPath => argv[i] \in Paths
    BY DEF Paths, Range
  <1>2. ASSUME argv \in Accepted(n) PROVE Asks(n)
    <2>1. EmptyPath \notin Paths
      BY DEF Paths
    <2>2. CASE \E path \in Paths : argv = <<"--backend", path>> /\ n = DefaultCount
      BY <2>1, <2>2 DEF Asks, NamesBackend
    <2>3. CASE \E path \in Paths, text \in DOMAIN Counts :
                 Counts[text] = n /\ argv = <<"--backend", path, "--frames", text>>
      BY <2>1, <2>3 DEF Asks, NamesBackend, NamesFrames
    <2>4. CASE \E path \in Paths, text \in DOMAIN Counts :
                 Counts[text] = n /\ argv = <<"--frames", text, "--backend", path>>
      BY <2>1, <2>4 DEF Asks, NamesBackend, NamesFrames
    <2> QED
      BY <1>2, <2>2, <2>3, <2>4 DEF Accepted
  <1>3. ASSUME Asks(n) PROVE argv \in Accepted(n)
    <2>1. CASE Len(argv) = 2 /\ NamesBackend(1) /\ n = DefaultCount
      <3>1. argv = <<"--backend", argv[2]>> /\ argv[2] \in Paths
        BY <1>1, <2>1 DEF NamesBackend
      <3> QED
        BY <2>1, <3>1 DEF Accepted
    <2>2. CASE Len(argv) = 4 /\ NamesBackend(1) /\ NamesFrames(3, n)
      <3>1. /\ argv[1] = "--backend" /\ argv[3] = "--frames"
            /\ argv[2] \in Paths /\ argv[4] \in DOMAIN Counts /\ Counts[argv[4]] = n
        BY <1>1, <2>2 DEF NamesBackend, NamesFrames
      <3>2. argv = <<"--backend", argv[2], "--frames", argv[4]>>
        BY <2>2, <3>1, FourArguments
      <3> QED
        BY <3>1, <3>2, OptionsAccepted
    <2>3. CASE Len(argv) = 4 /\ NamesFrames(1, n) /\ NamesBackend(3)
      <3>1. /\ argv[1] = "--frames" /\ argv[3] = "--backend"
            /\ argv[4] \in Paths /\ argv[2] \in DOMAIN Counts /\ Counts[argv[2]] = n
        BY <1>1, <2>3 DEF NamesBackend, NamesFrames
      <3>2. argv = <<"--frames", argv[2], "--backend", argv[4]>>
        BY <2>3, <3>1, FourArguments
      <3> QED
        BY <3>1, <3>2, OptionsAccepted
    <2> QED
      BY <1>3, <2>1, <2>2, <2>3 DEF Asks
  <1> QED
    BY <1>2, <1>3

\* parse_command_line leaves the camera alone.
LEMMA ParseKeeps ==
  ASSUME ProgramInv, Parse
  PROVE  ProgramInv'
  <1> USE DEF ProgramInv
  <1> USE DEF NoExit, Succeeded, Failure, Usage
  <1>0. /\ at = "parse" /\ UNCHANGED <<argv, session, shown, vars>>
        /\ exit = NoExit /\ session = NoSession /\ frames = {} /\ shown = <<>>
        /\ argv \in Seq(STRING) /\ Len(argv) \in Nat /\ index \in {1, 3, 5}
    BY DEF Parse, Understood, SessionPlaced, FramesCounted, ProgramTypeOK, ParsedSoFar
  <1>1. ASSUME Leave(Usage), AsksNothing
        PROVE  ProgramInv'
    BY <1>0, <1>1, TestAssumption
       DEF Leave, Reach, TestAssumption, vars, ProgramTypeOK, ParsedSoFar, Understood,
           SessionPlaced, OneFrame, FramesCounted, Unwinding, AsksNothing, Asks, NamesBackend,
           NamesFrames, Running, Preparing, Looping
  <1>2. CASE index <= Len(argv) /\ ParseHelp
    <2>1. CASE Len(argv) = 1
      <3>1. argv = <<"--help">> /\ Leave(Succeeded)
        BY <1>0, <1>2, <2>1 DEF ParseHelp
      <3> QED
        BY <1>0, <3>1
           DEF Leave, Reach, vars, ProgramTypeOK, ParsedSoFar, Understood, SessionPlaced,
               OneFrame, FramesCounted, Unwinding, Running, Preparing, Looping
    <2>2. CASE Len(argv) # 1
      <3>1. AsksNothing
        <4> SUFFICES ASSUME NEW n, Asks(n) PROVE FALSE
          BY DEF AsksNothing
        <4> QED
          <5>1. argv[index] = "--help" /\ index <= Len(argv) /\ index \in {1, 3, 5}
            BY <1>0, <1>2 DEF ParseHelp
          <5>2. index = 1 \/ (index = 3 /\ Len(argv) = 4)
            BY <5>1, Asked
          <5> QED
            BY <5>1, <5>2, Asked
      <3> QED
        BY <1>1, <1>2, <2>2, <3>1 DEF ParseHelp
    <2> QED
      BY <2>1, <2>2
  <1>3. CASE index <= Len(argv) /\ ParseBackend
    <2>1. CASE ~options.backend_seen /\ Following /\ argv[index + 1] # EmptyPath
      <3>1. /\ options' = [options EXCEPT !.backend_seen = TRUE] /\ index' = index + 2
            /\ UNCHANGED <<at, exit>> /\ index + 1 <= Len(argv) /\ NamesBackend(index)
        BY <1>3, <2>1 DEF ParseBackend, Following, NamesBackend
      <3>2. ProgramTypeOK'
        <4>1. options' \in [backend_seen : BOOLEAN, frames_seen : BOOLEAN, frame_count : Nat \ {0}]
          BY <1>0, <3>1 DEF ProgramTypeOK
        <4>2. index' \in Nat /\ argv' = argv
          BY <1>0, <3>1
        <4> QED
          BY <3>1, <4>1, <4>2 DEF ProgramTypeOK
      <3>3. ParsedSoFar'
        BY <1>0, <2>1, <3>1 DEF ParsedSoFar, ProgramTypeOK, NamesBackend, NamesFrames
      <3> QED
        BY <1>0, <3>1, <3>2, <3>3
           DEF vars, Understood, SessionPlaced, OneFrame, FramesCounted, Unwinding, Running,
               Preparing, Looping
    <2>2. CASE ~(~options.backend_seen /\ Following /\ argv[index + 1] # EmptyPath)
      <3>1. Leave(Usage) /\ argv[index] = "--backend"
        BY <1>3, <2>2 DEF ParseBackend
      <3>2. AsksNothing
        <4> SUFFICES ASSUME NEW n, Asks(n) PROVE FALSE
          BY DEF AsksNothing
        <4> QED
          BY <1>0, <1>3, <2>2, <3>1, Asked DEF ParsedSoFar, Following, NamesBackend, NamesFrames
      <3> QED
        BY <1>1, <3>1, <3>2
    <2> QED
      BY <2>1, <2>2
  <1>4. CASE index <= Len(argv) /\ ParseFrames
    <2>1. CASE ~options.frames_seen /\ Following /\ argv[index + 1] \in DOMAIN Counts
      <3> DEFINE n == Counts[argv[index + 1]]
      <3>1. /\ options' = [options EXCEPT !.frames_seen = TRUE, !.frame_count = n]
            /\ index' = index + 2
            /\ UNCHANGED <<at, exit>> /\ index + 1 <= Len(argv) /\ NamesFrames(index, n)
        BY <1>4, <2>1 DEF ParseFrames, Following, NamesFrames
      <3>2. n \in Nat \ {0}
        BY <2>1, TestAssumption DEF TestAssumption
      <3> HIDE DEF n
      <3>3. ProgramTypeOK'
        <4>1. options' \in [backend_seen : BOOLEAN, frames_seen : BOOLEAN, frame_count : Nat \ {0}]
          BY <1>0, <3>1, <3>2 DEF ProgramTypeOK
        <4>2. index' \in Nat /\ argv' = argv
          BY <1>0, <3>1
        <4> QED
          BY <3>1, <4>1, <4>2 DEF ProgramTypeOK
      <3>4. /\ options'.backend_seen = options.backend_seen /\ options'.frames_seen
            /\ options'.frame_count = n
        BY <3>1 DEF ProgramTypeOK
      <3>5. ParsedSoFar'
        BY <1>0, <2>1, <3>1, <3>4 DEF ParsedSoFar, NamesBackend, NamesFrames
      <3> QED
        BY <1>0, <3>1, <3>3, <3>5
           DEF vars, Understood, SessionPlaced, OneFrame, FramesCounted, Unwinding, Running,
               Preparing, Looping
    <2>2. CASE ~(~options.frames_seen /\ Following /\ argv[index + 1] \in DOMAIN Counts)
      <3>1. Leave(Usage) /\ argv[index] = "--frames"
        BY <1>4, <2>2 DEF ParseFrames
      <3>2. AsksNothing
        <4> SUFFICES ASSUME NEW n, Asks(n) PROVE FALSE
          BY DEF AsksNothing
        <4> QED
          BY <1>0, <1>4, <2>2, <3>1, Asked DEF ParsedSoFar, Following, NamesBackend, NamesFrames
      <3> QED
        BY <1>1, <3>1, <3>2
    <2> QED
      BY <2>1, <2>2
  <1>5. CASE index <= Len(argv) /\ ParseUnknown
    <2>1. AsksNothing
      <3> SUFFICES ASSUME NEW n, Asks(n) PROVE FALSE
        BY DEF AsksNothing
      <3> QED
        BY <1>0, <1>5, Asked DEF ParseUnknown, NamesBackend, NamesFrames
    <2> QED
      BY <1>1, <1>5, <2>1 DEF ParseUnknown
  <1>6. CASE index > Len(argv) /\ ParseEnd
    <2>1. CASE options.backend_seen
      <3>1. Reach("load") /\ index' = 0 /\ UNCHANGED <<options, exit>>
        BY <1>6, <2>1 DEF ParseEnd
      <3>2. Asks(options.frame_count)
        <4> DEFINE n == options.frame_count
        <4>1. \/ index = 3 /\ Len(argv) >= 2 /\ NamesBackend(1) /\ n = DefaultCount
              \/ /\ index = 5 /\ Len(argv) >= 4
                 /\ \/ NamesBackend(1) /\ NamesFrames(3, n)
                    \/ NamesFrames(1, n) /\ NamesBackend(3)
          <5>1. at = "parse" /\ ParsedSoFar
            BY <1>0
          <5> QED
            BY <2>1, <5>1 DEF ParsedSoFar
        <4>2. /\ index = 3 /\ Len(argv) >= 2 => Len(argv) = 2
              /\ index = 5 /\ Len(argv) >= 4 => Len(argv) = 4
          <5> DEFINE length == Len(argv)
          <5>1. length \in Nat /\ index \in Nat /\ index > length
            BY <1>0, <1>6
          <5> HIDE DEF length
          <5>2. /\ index = 3 /\ length >= 2 => length = 2
                /\ index = 5 /\ length >= 4 => length = 4
            BY <5>1
          <5> QED
            BY <5>2 DEF length
        <4> HIDE DEF n
        <4>3. Asks(n)
          BY <4>1, <4>2, Zenon DEF Asks
        <4> QED
          BY <4>3 DEF n
      <3>3. Asks(options.frame_count)'
        BY <1>0, <3>1, <3>2 DEF Asks, NamesBackend, NamesFrames
      <3> QED
        BY <1>0, <3>1, <3>3
           DEF Reach, vars, ProgramTypeOK, ParsedSoFar, Understood, SessionPlaced, OneFrame,
               FramesCounted, Unwinding, Running, Preparing, Looping
    <2>2. CASE ~options.backend_seen
      <3>1. AsksNothing
        <4> SUFFICES ASSUME NEW n, Asks(n) PROVE FALSE
          BY DEF AsksNothing
        <4> QED
          BY <1>0, <1>6, <2>2, Asked DEF ParsedSoFar, NamesBackend, NamesFrames
      <3> QED
        BY <1>1, <1>6, <2>2, <3>1 DEF ParseEnd
    <2> QED
      BY <2>1, <2>2
  <1> QED
    BY <1>2, <1>3, <1>4, <1>5, <1>6 DEF Parse

-----------------------------------------------------------------------------
(* One program among the callers of CameraSession.                         *)

\* Every call the program makes is one that any caller may make.
LEMMA TestIsACaller ==
  ASSUME ProgramInv, [Test]_<<vars, testVars>>
  PROVE  [Next]_vars
  <1> USE DEF ProgramInv
  <1>1. CASE Parse \/ TestLoop \/ UNCHANGED <<vars, testVars>>
    BY <1>1 DEF Parse, TestLoop
  <1>2. CASE TestLoad
    BY <1>2 DEF TestLoad, Next, Changing
  <1>3. ASSUME at \in Running PROVE session \in Sessions
    BY <1>3 DEF SessionPlaced
  <1>4. CASE TestOpen \/ TestCapabilities \/ TestStreamConfiguration \/ TestConfigure
             \/ TestStart \/ TestWait \/ TestStop
    <2>1. session \in Sessions
      BY <1>3, <1>4
         DEF TestOpen, TestCapabilities, TestStreamConfiguration, TestConfigure, TestStart,
             TestWait, TestStop, Ask, Step, Running, Preparing, Looping
    <2>2. Changing(session) \/ Streaming(session)
      <3>1. CASE TestOpen \/ TestConfigure
        <4>1. TRUE \in BOOLEAN
          OBVIOUS
        <4>2. Open(session) \/ Configure(session)
          BY <3>1, <4>1, Zenon DEF TestOpen, TestConfigure, Step, Open, Configure
        <4> QED
          BY <4>2 DEF Changing
      <3>2. CASE TestStreamConfiguration
        <4>1. 0 \in 0 .. 1
          OBVIOUS
        <4> QED
          BY <3>2, <4>1, Zenon
             DEF TestStreamConfiguration, Ask, Step, StreamConfiguration, Changing
      <3>3. CASE TestCapabilities \/ TestStart \/ TestWait \/ TestStop
        BY <3>3
           DEF TestCapabilities, TestStart, TestWait, TestStop, Ask, Step, Changing, Streaming
      <3> QED
        BY <1>4, <3>1, <3>2, <3>3
    <2> QED
      BY <2>1, <2>2 DEF Next
  <1>5. CASE TestAcquire
    BY <1>3, <1>5 DEF TestAcquire, Running, Looping, Next, Streaming
  <1>6. CASE TestRelease
    BY <1>3, <1>6 DEF TestRelease, Running, Held, Next, Streaming
  <1>7. CASE TestClose
    BY <1>3, <1>7 DEF TestClose, Running, Next, Changing
  <1>8. CASE TestUnwind
    <2>1. session \in Sessions
      BY <1>8 DEF TestUnwind, Unwinding
    <2> QED
      BY <1>8, <2>1 DEF TestUnwind, Held, Next
  <1> QED
    BY <1>1, <1>2, <1>4, <1>5, <1>6, <1>7, <1>8 DEF Test

\* A run that goes on is of the same command line.
LEMMA AsksKept ==
  ASSUME UNCHANGED <<argv, options>>, Asks(options.frame_count)
  PROVE  Asks(options.frame_count)'
  BY DEF Asks, NamesBackend, NamesFrames

\* A call that throws ends the run.
LEMMA ThrowKeeps ==
  ASSUME ProgramInv, at \in Running, Reach("unwind"), exit' = Failure,
         UNCHANGED <<pc, argv, index, options, session>>
  PROVE  ProgramInv'
  <1> USE DEF ProgramInv, NoExit, Succeeded, Failure, Usage
  <1>1. Asks(options.frame_count)'
    BY AsksKept DEF Understood, Running, Preparing, Looping
  <1>2. session \in Sessions /\ pc[session] = "live"
    BY DEF SessionPlaced
  <1> QED
    BY <1>1, <1>2
       DEF Reach, ProgramTypeOK, ParsedSoFar, Understood, SessionPlaced, OneFrame,
           FramesCounted, Unwinding, Running, Preparing, Looping

\* The calls before the stream move the session on, and nothing else.
LEMMA PrepareKeeps ==
  ASSUME ProgramInv, at \in Preparing, at' \in Preparing,
         at' # "open",
         at' \in {"capabilities", "stream_configuration", "configure"} => state'[session] = "Open",
         at' = "start" => state'[session] = "Configured",
         UNCHANGED <<pc, frames, argv, index, options, session, shown, exit>>
  PROVE  ProgramInv'
  <1> USE DEF ProgramInv
  <1>1. Asks(options.frame_count)'
    BY AsksKept DEF Understood, Preparing
  <1> QED
    BY <1>1
       DEF ProgramTypeOK, ParsedSoFar, Understood, SessionPlaced, OneFrame,
           FramesCounted, Unwinding, Running, Preparing, Looping, NoExit, Succeeded, Usage

\* The program's session has not been touched before it is loaded.
LEMMA LoadKeeps ==
  ASSUME TestInv, TestLoad
  PROVE  ProgramInv'
  <1> USE DEF TestInv, ProgramInv, NoExit, Succeeded, Failure, Usage
  <1>0. at = "load" /\ UNCHANGED <<argv, index, options, shown>>
    BY DEF TestLoad
  <1>1. Asks(options.frame_count)'
    BY <1>0, AsksKept DEF Understood
  <1>2. CASE \E s \in Sessions : Load(s) /\ session' = s /\ Attempt(TRUE, "open")
    <2>1. PICK s \in Sessions : Load(s) /\ session' = s /\ Attempt(TRUE, "open")
      BY <1>2
    <2>2. at' = "open" /\ exit' = exit
      BY <2>1 DEF Attempt, Reach
    <2>3. /\ pc'[s] = "live" /\ UNCHANGED <<state, camera, frames>>
          /\ state[s] = "Created"
      BY <2>1 DEF Load, SessionInv, TypeOK, SessionOK, OwesNothing
    <2> QED
      BY <1>0, <1>1, <2>1, <2>2, <2>3
         DEF ProgramTypeOK, ParsedSoFar, Understood, SessionPlaced, OneFrame,
             FramesCounted, Unwinding, Running, Preparing, Looping
  <1>3. CASE Reach("exited") /\ exit' = Failure /\ UNCHANGED <<session, vars>>
    BY <1>0, <1>1, <1>3
       DEF Reach, ProgramTypeOK, ParsedSoFar, Understood, SessionPlaced, OneFrame,
           FramesCounted, Unwinding, Running, Preparing, Looping
  <1> QED
    BY <1>2, <1>3 DEF TestLoad

\* The calls before start().
LEMMA PreparationKeeps ==
  ASSUME TestInv, TestOpen \/ TestCapabilities \/ TestStreamConfiguration \/ TestConfigure
  PROVE  ProgramInv'
  <1> USE DEF TestInv, Reach
  <1>1. CASE TestOpen
    <2>1. UNCHANGED <<pc, frames>>
      BY <1>1 DEF TestOpen, Step, OpenSource, Lifecycle
    <2> QED
      BY <1>1, <2>1, ThrowKeeps, PrepareKeeps DEF TestOpen, Step, Attempt, Running, Preparing
  <1>2. CASE TestCapabilities
    <2>1. UNCHANGED <<pc, state, frames>> /\ state[session] = "Open"
      BY <1>2 DEF TestCapabilities, Ask, Step, Capabilities, Query, ProgramInv, SessionPlaced
    <2> QED
      BY <1>2, <2>1, ThrowKeeps, PrepareKeeps
         DEF TestCapabilities, Ask, Step, Attempt, Running, Preparing
  <1>3. CASE TestStreamConfiguration
    <2>1. UNCHANGED <<pc, state, frames>> /\ state[session] = "Open"
      BY <1>3
         DEF TestStreamConfiguration, Ask, Step, StreamConfigurationAt, Query, ProgramInv,
             SessionPlaced
    <2> QED
      BY <1>3, <2>1, ThrowKeeps, PrepareKeeps
         DEF TestStreamConfiguration, Ask, Step, Attempt, Running, Preparing
  <1>4. CASE TestConfigure
    <2>1. UNCHANGED <<pc, frames>>
      BY <1>4 DEF TestConfigure, Step, ConfigureStream, Lifecycle, Query
    <2> QED
      BY <1>4, <2>1, ThrowKeeps, PrepareKeeps DEF TestConfigure, Step, Attempt, Running, Preparing
  <1> QED
    BY <1>1, <1>2, <1>3, <1>4

-----------------------------------------------------------------------------
(* The stream.                                                             *)

\* start() begins to count.
LEMMA StartCounts ==
  ASSUME SessionInv, NEW s \in Sessions, Start(s), state'[s] = "Started"
  PROVE  camera'[s].outstanding = {} /\ camera'[s].next_sequence = 0
  <1>1. PICK r \in Replies(s, SimulatedStart(camera[s])) : Lifecycle(s, r, "Started")
    BY DEF Start
  <1>2. TypeOK /\ state[s] = "Configured"
    BY DEF SessionInv, Start, Calls
  <1>3. r.status = "OK" /\ camera'[s] = r.camera
    BY <1>1, <1>2, Dispatched DEF Lifecycle, Advance, TypeOK
  <1>4. r = SimulatedStart(camera[s])
    BY <1>2, <1>3, RepliesFacts DEF TypeOK
  <1>5. camera[s] \in Camera
    BY <1>2 DEF TypeOK
  <1>6. camera[s].state = "Configured"
    BY <1>3, <1>4, <1>5, FailedReply DEF SimulatedStart, Errors
  <1> QED
    BY <1>3, <1>4, <1>5, <1>6 DEF SimulatedStart, OK, Camera

\* A reply to wait_frame or release_frame does not count.
LEMMA CountKept ==
  ASSUME NEW s \in Sessions, camera[s] \in Camera, NEW token,
         NEW r, r \in Replies(s, SimulatedWaitFrame(camera[s]))
                   \/ r \in Replies(s, SimulatedReleaseFrame(camera[s], token))
  PROVE  r.camera.next_sequence = camera[s].next_sequence
  <1> DEFINE c == camera[s]
  <1>1. \A e \in Errors : Failed(c, e).camera.next_sequence = c.next_sequence
    BY DEF Failed, Camera
  <1>2. OK(c).camera.next_sequence = c.next_sequence
    BY DEF OK, Camera
  <1>3. SimulatedWaitFrame(c).camera.next_sequence = c.next_sequence
    BY <1>1, <1>2 DEF SimulatedWaitFrame, Errors
  <1>4. SimulatedReleaseFrame(c, token).camera.next_sequence = c.next_sequence
    <2> DEFINE d == [c EXCEPT !.outstanding = @ \ Holding(c, token),
                      !.token = [b \in Buffers |->
                                   IF b \in Holding(c, token) THEN 0 ELSE @[b]]]
    <2>1. OK(d).camera.next_sequence = c.next_sequence
      BY DEF OK, Camera
    <2> HIDE DEF d
    <2> QED
      BY <1>1, <2>1 DEF SimulatedReleaseFrame, Errors, d
  <1> QED
    BY <1>1, <1>3, <1>4 DEF Replies, Errors

\* The session of a running program is live and of its types.
LEMMA RunningSession ==
  ASSUME TestInv, at \in Running
  PROVE  /\ session \in Sessions /\ pc[session] = "live"
         /\ camera[session] \in Camera
         /\ TypeOK /\ SessionOK(session)
         /\ Asks(options.frame_count)
         /\ options.frame_count \in Nat /\ index \in Nat
  BY DEF TestInv, ProgramInv, SessionPlaced, SessionInv, TypeOK, Understood, ProgramTypeOK,
         Running, Preparing, Looping

\* A step of the loop: what is left to show when the run goes on.
LEMMA LoopKeeps ==
  ASSUME ProgramInv, at \in Running, at' \in Looping \cup {"release", "stop"},
         UNCHANGED <<pc, argv, options, session, exit>>, index' \in Nat,
         state'[session] = "Started",
         at' # "release" => frames' = {},
         OneFrame', FramesCounted'
  PROVE  ProgramInv'
  <1> USE DEF ProgramInv
  <1>1. Asks(options.frame_count)'
    BY AsksKept DEF Understood, Running, Preparing, Looping
  <1> QED
    BY <1>1
       DEF ProgramTypeOK, ParsedSoFar, Understood, SessionPlaced, Unwinding, Running,
           Preparing, Looping, NoExit, Succeeded, Usage

\* The stream begins with no frame shown.
LEMMA StreamBegins ==
  ASSUME TestInv, TestStart
  PROVE  ProgramInv'
  <1> USE DEF TestInv
  <1>1. /\ at = "start" /\ at \in Running /\ Start(session)
        /\ UNCHANGED <<argv, index, options, session, shown>>
        /\ Attempt(state'[session] = "Started", "frame")
    BY DEF TestStart, Step, Running, Preparing
  <1>2. UNCHANGED <<pc, frames>>
    BY <1>1 DEF Start, Lifecycle
  <1>3. CASE Reach("unwind") /\ exit' = Failure
    BY <1>1, <1>2, <1>3, ThrowKeeps
  <1>4. CASE state'[session] = "Started" /\ at' = "frame" /\ UNCHANGED exit
    <2>1. camera'[session].outstanding = {} /\ camera'[session].next_sequence = 0
      BY <1>1, <1>4, RunningSession, StartCounts
    <2>2. index = 0 /\ shown = <<>> /\ frames = {}
      BY <1>1 DEF ProgramInv, SessionPlaced, FramesCounted, Running, Preparing
    <2>3. OneFrame'
      BY <1>1, <1>4, <2>1 DEF OneFrame
    <2>4. FramesCounted'
      <3>1. CountsTo(shown', 0)
        BY <1>1, <2>2 DEF CountsTo
      <3> QED
        BY <1>1, <1>4, <2>1, <2>2, <3>1, RunningSession DEF FramesCounted, Preparing, Looping
    <2> QED
      BY <1>1, <1>2, <1>4, <2>2, <2>3, <2>4, RunningSession, LoopKeeps DEF Looping
  <1> QED
    BY <1>1, <1>3, <1>4 DEF Attempt, Reach

\* The test of the loop: as many frames as were asked for, or another one.
LEMMA LoopTestKeeps ==
  ASSUME TestInv, TestLoop
  PROVE  ProgramInv'
  <1> USE DEF TestInv
  <1>1. /\ at = "frame" /\ at \in Running
        /\ UNCHANGED <<argv, index, options, session, shown, exit, vars>>
        /\ at' = IF index >= options.frame_count THEN "stop" ELSE "wait"
    BY DEF TestLoop, Reach, EnoughFrames, Running, Looping
  <1>2. /\ CountsTo(shown, index) /\ camera[session].next_sequence = index
        /\ index <= options.frame_count
        /\ camera[session].outstanding = {} /\ state[session] = "Started" /\ frames = {}
    BY <1>1 DEF ProgramInv, FramesCounted, OneFrame, SessionPlaced, Running, Looping
  <1>3. OneFrame'
    BY <1>1, <1>2 DEF OneFrame, vars
  <1>4. CountsTo(shown', index')
    BY <1>1, <1>2 DEF CountsTo
  <1>5. FramesCounted'
    <2>1. CASE index >= options.frame_count
      <3>1. index = options.frame_count
        BY <1>2, <2>1, <1>1, RunningSession
      <3> QED
        BY <1>1, <1>4, <2>1, <3>1 DEF FramesCounted, Preparing, Looping
    <2>2. CASE ~(index >= options.frame_count)
      BY <1>1, <1>2, <1>4, <2>2, RunningSession DEF FramesCounted, Preparing, Looping, vars
    <2> QED
      BY <2>1, <2>2
  <1> QED
    BY <1>1, <1>2, <1>3, <1>5, RunningSession, LoopKeeps DEF Looping, vars

\* A wait lends nothing and counts nothing.
LEMMA WaitKeeps ==
  ASSUME TestInv, TestWait
  PROVE  ProgramInv'
  <1> USE DEF TestInv
  <1>1. /\ at = "wait" /\ at \in Running /\ WaitFrame(session)
        /\ UNCHANGED <<argv, index, options, session, shown>>
        /\ Attempt(Answered /\ FrameReady, "acquire")
    BY DEF TestWait, Step, Running, Looping
  <1>2. UNCHANGED <<pc, state, frames>>
    BY <1>1 DEF WaitFrame, Query
  <1>3. CASE Reach("unwind") /\ exit' = Failure
    BY <1>1, <1>2, <1>3, ThrowKeeps
  <1>4. CASE at' = "acquire" /\ UNCHANGED exit
    <2>1. /\ CountsTo(shown, index) /\ camera[session].next_sequence = index
          /\ index < options.frame_count
          /\ camera[session].outstanding = {} /\ state[session] = "Started" /\ frames = {}
      BY <1>1 DEF ProgramInv, FramesCounted, OneFrame, SessionPlaced, Running, Looping
    <2>2. camera'[session].outstanding = {}
      BY <1>1, <2>1, RunningSession, SettledEffect DEF Settled, Loans
    <2>3. camera'[session].next_sequence = index
      <3>1. PICK r \in Replies(session, SimulatedWaitFrame(camera[session])) : Query(session, r)
        BY <1>1 DEF WaitFrame
      <3>2. camera'[session] = r.camera
        BY <1>1, <3>1, RunningSession, Dispatched DEF Query
      <3> QED
        BY <1>1, <2>1, <3>1, <3>2, RunningSession, CountKept
    <2>4. OneFrame'
      BY <1>1, <1>4, <2>2 DEF OneFrame
    <2>5. FramesCounted'
      <3>1. CountsTo(shown', index')
        BY <1>1, <2>1 DEF CountsTo
      <3> QED
        BY <1>1, <1>4, <2>1, <2>3, <3>1, RunningSession DEF FramesCounted, Preparing, Looping
    <2> QED
      BY <1>1, <1>2, <1>4, <2>1, <2>4, <2>5, RunningSession, LoopKeeps DEF Looping
  <1> QED
    BY <1>1, <1>3, <1>4 DEF Attempt, Reach

-----------------------------------------------------------------------------
\* One number, printed.
LEMMA OneNumber ==
  ASSUME NEW n PROVE SetToSeq({n}) = <<n>>
  <1> DEFINE Listings == [1 .. Cardinality({n}) -> {n}]
  <1>1. Cardinality({n}) = 1
    BY FS_Singleton
  <1>2. [i \in 1 .. 1 |-> n] \in Listings /\ IsInjective([i \in 1 .. 1 |-> n])
    BY <1>1 DEF IsInjective
  <1>3. \E f \in Listings : IsInjective(f)
    BY <1>2
  <1>4. SetToSeq({n}) = CHOOSE f \in Listings : IsInjective(f)
    BY DEF SetToSeq
  <1> HIDE DEF Listings
  <1>5. SetToSeq({n}) \in Listings
    BY <1>3, <1>4
  <1>6. SetToSeq({n}) \in [1 .. 1 -> {n}]
    BY <1>1, <1>5 DEF Listings
  <1> QED
    BY <1>6

\* One more frame is shown, the next of its stream.
LEMMA CountedOn ==
  ASSUME NEW q, NEW n \in Nat, CountsTo(q, n)
  PROVE  CountsTo(q \o <<n>>, n + 1)
  <1>1. <<n>> \in Seq(Nat) /\ Len(<<n>>) = 1 /\ <<n>>[1] = n
    OBVIOUS
  <1> DEFINE p == q \o <<n>>
  <1>2. /\ p \in Seq(Nat) /\ Len(p) = Len(q) + 1
        /\ \A i \in 1 .. Len(q) : p[i] = q[i]
        /\ p[Len(q) + 1] = n
    BY <1>1 DEF CountsTo
  <1> HIDE DEF p
  <1>3. CountsTo(p, n + 1)
    BY <1>2 DEF CountsTo
  <1> QED
    BY <1>3 DEF p

\* The frame taken is the stream's next, and the only buffer out.
LEMMA TakeKeeps ==
  ASSUME TestInv, TestAcquire
  PROVE  ProgramInv'
  <1> USE DEF TestInv
  <1>1. /\ at = "acquire" /\ at \in Running
        /\ UNCHANGED <<argv, index, options, session>>
        /\ shown' = shown \o SetToSeq({f.sequence_number : f \in Held' \ Held})
    BY DEF TestAcquire, Running, Looping
  <1>2. CASE /\ AcquireFails(session) \/ AcquireRollsBack(session)
             /\ Attempt(FALSE, "release")
    <2>1. UNCHANGED pc
      BY <1>2 DEF AcquireFails, AcquireRollsBack, Query
    <2> QED
      BY <1>1, <1>2, <2>1, ThrowKeeps DEF Attempt
  <1>3. CASE Acquire(session) /\ Attempt(TRUE, "release")
    <2>1. /\ CountsTo(shown, index) /\ camera[session].next_sequence = index
          /\ index < options.frame_count
          /\ camera[session].outstanding = {} /\ state[session] = "Started" /\ frames = {}
      BY <1>1 DEF ProgramInv, FramesCounted, OneFrame, SessionPlaced, Running, Looping
    <2>2. PICK r :
           /\ Grant(camera[session], r)
           /\ camera'[session] = r.camera
           /\ frames' = frames \cup
                {[owner_identity |-> session, frame_token |-> r.token,
                  sequence_number |-> r.sequence, plane |-> r.buffer]}
           /\ UNCHANGED pc
      BY <1>1, <1>3, RunningSession, AcquireEffect
    <2>3. FilledReply(camera[session], r)
      BY <2>1, <2>2 DEF Grant, RepeatedReply
    <2> DEFINE f == [owner_identity |-> session, frame_token |-> r.token,
                     sequence_number |-> r.sequence, plane |-> r.buffer]
    <2>4. /\ frames' = {f} /\ f.owner_identity = session /\ f.sequence_number = index
          /\ f.frame_token = r.token
      BY <2>1, <2>2, <2>3 DEF FilledReply
    <2> HIDE DEF f
    <2>5. Held = {} /\ Held' = {f}
      BY <1>1, <2>1, <2>4 DEF Held
    <2>6. CountsTo(shown', index' + 1)
      <3>1. {g.sequence_number : g \in Held' \ Held} = {index}
        BY <2>4, <2>5
      <3>2. shown' = shown \o <<index>>
        BY <1>1, <3>1, OneNumber
      <3>3. CountsTo(shown', index' + 1)
        BY <1>1, <2>1, <3>2, RunningSession, CountedOn
      <3> QED
        BY <3>3
    <2>7. /\ camera'[session].outstanding \subseteq Holding(camera'[session], f.frame_token)
          /\ camera'[session].next_sequence = index + 1
      BY <1>1, <2>1, <2>2, <2>3, <2>4, RunningSession DEF FilledReply, Holding, Camera
    <2>8. at' = "release" /\ UNCHANGED exit
      BY <1>3 DEF Attempt, Reach
    <2>9. OneFrame'
      BY <1>1, <2>4, <2>7, <2>8 DEF OneFrame, Looping
    <2>10. FramesCounted'
      BY <1>1, <2>1, <2>6, <2>7, <2>8 DEF FramesCounted, Preparing, Looping
    <2>11. UNCHANGED <<pc, state>>
      BY <1>3 DEF Acquire
    <2> QED
      BY <1>1, <2>1, <2>8, <2>9, <2>10, <2>11, RunningSession, LoopKeeps
  <1> QED
    BY <1>2, <1>3 DEF TestAcquire

\* A frame given back leaves no buffer out.
LEMMA GiveBackKeeps ==
  ASSUME TestInv, TestRelease
  PROVE  ProgramInv'
  <1> USE DEF TestInv
  <1>1. /\ at = "release" /\ at \in Running
        /\ index' = IF at' = "frame" THEN index + 1 ELSE index
        /\ UNCHANGED <<argv, options, session, shown>>
    BY DEF TestRelease, Running
  <1>2. PICK f \in Held : ReleaseFrame(session, f) /\ Attempt(f \notin frames', "frame")
    BY DEF TestRelease
  <1>3. /\ frames = {f} /\ state[session] = "Started"
        /\ camera[session].outstanding \subseteq Holding(camera[session], f.frame_token)
        /\ CountsTo(shown, index + 1) /\ camera[session].next_sequence = index + 1
        /\ index < options.frame_count
    BY <1>1, <1>2
       DEF ProgramInv, FramesCounted, OneFrame, SessionPlaced, Running, Looping, Held
  <1>4. UNCHANGED <<pc, state>>
    BY <1>2 DEF ReleaseFrame
  <1>5. CASE Reach("unwind") /\ exit' = Failure
    <2>1. index' = index
      BY <1>1, <1>5 DEF Reach
    <2> QED
      BY <1>1, <1>4, <1>5, <2>1, ThrowKeeps
  <1>6. CASE f \notin frames' /\ at' = "frame" /\ UNCHANGED exit
    <2>1. /\ Loans(camera[session], camera'[session], Holding(camera[session], f.frame_token))
          /\ frames' = {}
      BY <1>1, <1>2, <1>3, <1>6, RunningSession, ReleaseEffect
    <2>2. camera'[session].outstanding = {}
      BY <1>3, <2>1 DEF Loans
    <2>3. camera'[session].next_sequence = index + 1
      <3>1. PICK r \in Replies(session, SimulatedReleaseFrame(camera[session], f.frame_token)) :
              Dispatch(session, r)
        BY <1>2 DEF ReleaseFrame
      <3>2. camera'[session] = r.camera
        BY <1>1, <3>1, RunningSession, Dispatched
      <3> QED
        BY <1>1, <1>3, <3>1, <3>2, RunningSession, CountKept
    <2>4. OneFrame'
      BY <1>1, <1>6, <2>2 DEF OneFrame
    <2>5. FramesCounted'
      <3>1. CountsTo(shown', index')
        BY <1>1, <1>3, <1>6 DEF CountsTo
      <3>2. index' = index + 1 /\ index' \in Nat /\ index' <= options.frame_count
        BY <1>1, <1>3, <1>6, RunningSession
      <3> QED
        BY <1>1, <1>6, <2>3, <3>1, <3>2 DEF FramesCounted, Preparing, Looping
    <2> QED
      BY <1>1, <1>3, <1>4, <1>6, <2>1, <2>4, <2>5, RunningSession, LoopKeeps DEF Looping
  <1> QED
    BY <1>2, <1>5, <1>6 DEF Attempt, Reach

-----------------------------------------------------------------------------
(* The way out.                                                            *)

\* The stream is stopped when every frame was shown.
LEMMA StreamEnds ==
  ASSUME TestInv, TestStop
  PROVE  ProgramInv'
  <1> USE DEF TestInv
  <1>1. /\ at = "stop" /\ at \in Running /\ Stop(session)
        /\ UNCHANGED <<argv, index, options, session, shown>>
        /\ Attempt(state'[session] = "Stopped", "close")
    BY DEF TestStop, Step, Running
  <1>2. UNCHANGED <<pc, frames>>
    BY <1>1 DEF Stop
  <1>3. CASE Reach("unwind") /\ exit' = Failure
    BY <1>1, <1>2, <1>3, ThrowKeeps
  <1>4. CASE at' = "close" /\ UNCHANGED exit
    <2>1. Asks(options.frame_count)'
      BY <1>1, RunningSession, AsksKept
    <2>2. CountsTo(shown, options.frame_count) /\ frames = {}
      BY <1>1 DEF ProgramInv, FramesCounted, SessionPlaced, Running, Looping
    <2>3. CountsTo(shown', options'.frame_count)
      BY <1>1, <2>2 DEF CountsTo
    <2> QED
      BY <1>1, <1>2, <1>4, <2>1, <2>2, <2>3
         DEF ProgramInv, ProgramTypeOK, ParsedSoFar, Understood, SessionPlaced, OneFrame,
             FramesCounted, Unwinding, Running, Preparing, Looping, NoExit, Succeeded, Usage
  <1> QED
    BY <1>1, <1>3, <1>4 DEF Attempt, Reach

\* close() is the last statement; a session it closed has nothing left to
\* clean up.
LEMMA CloseKeeps ==
  ASSUME TestInv, TestClose, SessionInv'
  PROVE  ProgramInv'
  <1> USE DEF TestInv
  <1>1. /\ at = "close" /\ at \in Running /\ Close(session) /\ Reach("unwind")
        /\ exit' = IF state'[session] = "Created" THEN Succeeded ELSE Failure
        /\ UNCHANGED <<argv, index, options, session, shown>>
    BY DEF TestClose, Running
  <1>2. UNCHANGED <<pc, frames>>
    BY <1>1 DEF Close, Lifecycle
  <1>3. CASE state'[session] # "Created"
    BY <1>1, <1>2, <1>3, ThrowKeeps
  <1>4. CASE state'[session] = "Created"
    <2>1. Asks(options.frame_count)'
      BY <1>1, RunningSession, AsksKept
    <2>2. session \in Sessions /\ pc'[session] = "live"
      BY <1>1, <1>2, RunningSession
    <2>3. Clean(session)'
      BY <1>1, <1>4, <2>2 DEF SessionInv, SessionOK, OwesNothing, Agrees, Clean
    <2>4. CountsTo(shown', options'.frame_count)
      BY <1>1 DEF ProgramInv, FramesCounted, CountsTo, Running, Looping
    <2> QED
      BY <1>1, <1>2, <1>4, <2>1, <2>2, <2>3, <2>4
         DEF Reach, ProgramInv, ProgramTypeOK, ParsedSoFar, Understood, SessionPlaced, OneFrame,
             FramesCounted, Unwinding, Running, Preparing, Looping, NoExit, Succeeded, Usage,
             Failure
  <1> QED
    BY <1>3, <1>4

\* The destructor of a session with nothing left to clean up does nothing to it.
LEMMA CleanKept ==
  ASSUME TypeOK, NEW s \in Sessions, Clean(s), Cleanup(s)
  PROVE  Clean(s)'
  <1> USE DEF Clean
  <1>1. CASE Destruct(s)
    BY <1>1 DEF Destruct
  <1>2. CASE CleanupReleases(s)
    BY <1>2 DEF CleanupReleases
  <1>3. CASE CleanupStops(s)
    BY <1>3 DEF CleanupStops, CleanupCalls
  <1>4. CASE CleanupCloses(s)
    BY <1>4 DEF CleanupCloses, CleanupCalls
  <1>5. CASE CleanupDestroys(s)
    <2>1. camera'[s] = NewCamera
      BY <1>5 DEF CleanupDestroys, TypeOK
    <2> QED
      BY <1>5, <2>1 DEF CleanupDestroys, NewCamera
  <1> QED
    BY <1>1, <1>2, <1>3, <1>4, <1>5 DEF Cleanup

\* The views go first, then the session, whatever its exit status is.
LEMMA UnwindKeeps ==
  ASSUME TestInv, TestUnwind
  PROVE  ProgramInv'
  <1> USE DEF TestInv
  <1>1. /\ at = "unwind" /\ UNCHANGED <<argv, index, options, session, shown, exit>>
        /\ at' \in {"unwind", "exited"}
    BY DEF TestUnwind, Reach
  <1>2. session \in Sessions /\ TypeOK
    BY <1>1 DEF ProgramInv, Unwinding, SessionInv
  <1>3. Asks(options.frame_count)'
    BY <1>1, AsksKept DEF ProgramInv, Understood
  <1>4. ASSUME CountsTo(shown, options.frame_count) PROVE CountsTo(shown', options'.frame_count)
    BY <1>1, <1>4 DEF CountsTo
  <1>5. ASSUME Clean(session) PROVE Clean(session)'
    <2>1. CASE \E f \in Held : DropFrame(f)
      BY <1>1, <1>5, <2>1 DEF DropFrame, Clean
    <2>2. CASE Cleanup(session)
      BY <1>1, <1>2, <1>5, <2>2, CleanKept DEF Clean
    <2>3. CASE UNCHANGED vars
      BY <1>1, <1>5, <2>3 DEF vars, Clean
    <2> QED
      BY <2>1, <2>2, <2>3 DEF TestUnwind
  <1>6. /\ pc'[session] # "live" => Held' = {}
        /\ at' = "exited" => pc'[session] = "gone"
    <2>1. pc[session] # "live" => Held = {}
      BY <1>1 DEF ProgramInv, Unwinding
    <2>2. CASE \E f \in Held : DropFrame(f) /\ UNCHANGED at
      BY <1>1, <2>1, <2>2 DEF DropFrame, Held
    <2>3. CASE Held = {} /\ Cleanup(session) /\ UNCHANGED at
      <3>1. frames' = frames
        BY <2>3
           DEF Cleanup, Destruct, CleanupReleases, CleanupStops, CleanupCloses, CleanupDestroys
      <3> QED
        BY <1>1, <2>3, <3>1 DEF Held
    <2>4. CASE pc[session] = "gone" /\ Reach("exited") /\ UNCHANGED vars
      BY <1>1, <2>1, <2>4 DEF vars, Held
    <2> QED
      BY <2>2, <2>3, <2>4 DEF TestUnwind
  <1>7. Unwinding'
    BY <1>1, <1>2, <1>4, <1>5, <1>6 DEF ProgramInv, Unwinding
  <1> QED
    BY <1>1, <1>3, <1>7
       DEF ProgramInv, ProgramTypeOK, ParsedSoFar, Understood, SessionPlaced, OneFrame,
           FramesCounted, Running, Preparing, Looping, NoExit, Succeeded, Failure, Usage

-----------------------------------------------------------------------------
(* The program.                                                            *)

\* main() starts with a command line and no session.
LEMMA TestInitially == TestInit => TestInv
  <1> SUFFICES ASSUME TestInit PROVE TestInv
    OBVIOUS
  <1>1. SessionInv /\ frames = {}
    BY Initially DEF TestInit, Init
  <1>2. ProgramTypeOK
    BY TestAssumption DEF TestInit, ProgramTypeOK, TestAssumption, NoOptions
  <1> QED
    BY <1>1, <1>2
       DEF TestInit, TestInv, ProgramInv, ParsedSoFar, Understood, SessionPlaced, OneFrame,
           FramesCounted, Unwinding, Running, Preparing, Looping, NoExit, Succeeded, Usage,
           NoOptions

\* No step breaks the program's invariant: one lemma per statement.
LEMMA TestStepKeeps == TestInv /\ [Test]_<<vars, testVars>> => TestInv'
  <1> SUFFICES ASSUME TestInv, [Test]_<<vars, testVars>> PROVE TestInv'
    OBVIOUS
  <1>1. SessionInv'
    BY TestIsACaller, SessionInvPreserved DEF TestInv
  <1>2. ASSUME UNCHANGED <<vars, testVars>> PROVE ProgramInv'
    <2>1. ProgramInv
      BY DEF TestInv
    <2> QED
      BY <1>2, <2>1
         DEF vars, testVars, ProgramInv, ProgramTypeOK, ParsedSoFar, Understood, SessionPlaced,
             OneFrame, FramesCounted, Unwinding, Clean, Held, Asks, AsksNothing, NamesBackend,
             NamesFrames
  <1>3. CASE Test
    BY <1>1, <1>3, ParseKeeps, LoadKeeps, PreparationKeeps, StreamBegins, LoopTestKeeps,
       WaitKeeps, TakeKeeps, GiveBackKeeps, StreamEnds, CloseKeeps, UnwindKeeps
       DEF Test, TestInv
  <1> QED
    BY <1>1, <1>2, <1>3 DEF TestInv

\* The session of camstream-camera-test stays sound, and the program knows
\* what it holds at each statement (run_diagnostic), whatever the backend
\* answers.
THEOREM ProgramInvariance == TestSpec => []TestInv
  BY TestInitially, TestStepKeeps, PTL DEF TestSpec

\* The exit status of camstream-camera-test is the truth about its command
\* line, its frames and its camera, for any argv, any number of buffers and
\* any faults of the backend (main.cpp, main and run_diagnostic).
THEOREM ExitStatusTrue == TestSpec => []StatusTellsTheRun
  <1>1. TestInv => StatusTellsTheRun
    <2> SUFFICES ASSUME TestInv PROVE StatusTellsTheRun
      OBVIOUS
    <2> USE DEF TestInv, ProgramInv
    <2>1. argv \in Seq(STRING)
      BY DEF ProgramTypeOK
    <2>2. ASSUME exit = Succeeded, argv # <<"--help">>
          PROVE  /\ argv \in Accepted(Len(shown))
                 /\ \A i \in DOMAIN shown : shown[i] = i - 1
                 /\ camera[session].state = "Created" /\ camera[session].outstanding = {}
      <3>1. CountsTo(shown, options.frame_count) /\ Clean(session) /\ Asks(options.frame_count)
        BY <2>2 DEF Unwinding, Understood
      <3>2. argv \in Accepted(options.frame_count)
        BY <2>1, <3>1, AcceptedAsks
      <3> QED
        BY <3>1, <3>2 DEF CountsTo, Clean
    <2>3. ASSUME exit = Usage
          PROVE  argv \notin UNION {Accepted(n) : n \in {DefaultCount} \cup Range(Counts)}
      <3>1. \A n \in {DefaultCount} \cup Range(Counts) : argv \notin Accepted(n)
        BY <2>1, <2>3, AcceptedAsks DEF Understood, AsksNothing
      <3> QED
        BY <3>1
    <2> QED
      BY <2>2, <2>3 DEF StatusTellsTheRun, Unwinding
  <1> QED
    BY <1>1, ProgramInvariance, PTL
=============================================================================
