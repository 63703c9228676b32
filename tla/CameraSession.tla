---------------------------- MODULE CameraSession ----------------------------
(***************************************************************************)
(* The C++ camera sessions of libs/camstream-camera-hal                    *)
(* (src/camera_session.cpp), each with the camera of its backend behind    *)
(* the C dispatch of src/camera_hal.cpp, and the frame views their callers *)
(* hold.  A session is single-threaded, so a call is one action; the       *)
(* destructor, which goes on whatever its callbacks reply, is one action   *)
(* per callback.  A call that is refused before it reaches the backend     *)
(* changes nothing and has no action.                                      *)
(*                                                                         *)
(* The backend is the simulated one, with the faults named in Faults:      *)
(*   callback       any callback may fail without doing anything           *)
(*   configuration  a query or configure may answer against the contract   *)
(*   frame          acquire_frame may reply with a malformed frame         *)
(*   duplicate      acquire_frame may reply with a frame already granted   *)
(* and, in the session itself,                                             *)
(*   tracking       recording an acquired token may run out of memory      *)
(***************************************************************************)
EXTENDS SimulatedCamera, FiniteSets

CONSTANTS
  Sessions,     \* session objects, which are also their owner_identity
  Faults,
  MaxSequence   \* bound on the frames of one stream

ASSUME SessionAssumption ==
  /\ Faults \subseteq {"callback", "configuration", "frame", "duplicate", "tracking"}
  /\ MaxSequence \in Nat

VARIABLES
  pc,                     \* where each session is in its life
  state,                  \* SessionState
  outstanding_tokens,
  pending_cleanup_token,
  camera,                 \* the backend instance of each session
  frames                  \* the valid frame views in callers' hands

vars == <<pc, state, outstanding_tokens, pending_cleanup_token, camera, frames>>

SessionState == SimulatedState

\* The steps of the destructor, between a session in use and its end.
Destructing == {"release", "stop", "close", "destroy"}
Places == {"absent", "live", "gone"} \cup Destructing

NoToken == 0    \* std::nullopt, and no token is 0
Tokens == Nat \ {NoToken}

Frame == [owner_identity : Sessions, frame_token : Tokens,
          sequence_number : Nat, plane : Buffers]

Init ==
  /\ pc = [s \in Sessions |-> "absent"]
  /\ state = [s \in Sessions |-> "Created"]
  /\ outstanding_tokens = [s \in Sessions |-> {}]
  /\ pending_cleanup_token = [s \in Sessions |-> NoToken]
  /\ camera = [s \in Sessions |-> NewCamera]
  /\ frames = {}

-----------------------------------------------------------------------------
(* Dispatch to the backend, and what the session makes of its reply.       *)

\* What the dispatched callback may reply when it should reply r.
Replies(s, r) ==
  {r} \cup {x \in {Failed(camera[s], "exception")} : "callback" \in Faults}

Dispatch(s, r) == camera' = [camera EXCEPT ![s] = r.camera]

\* A lifecycle call moves the session only when its callback succeeded.
Advance_whateverReply(s, r, to) == state' = [state EXCEPT ![s] = to]

Advance(s, r, to) ==
  state' = [state EXCEPT ![s] = IF r.status = "OK" THEN to ELSE @]

Forget(s, token) ==
  outstanding_tokens' = [outstanding_tokens EXCEPT ![s] = @ \ {token}]

\* A call of a live session in one of the states.
Calls(s, states) == pc[s] = "live" /\ state[s] \in states

Lifecycle(s, r, to) ==
  /\ Dispatch(s, r)
  /\ Advance(s, r, to)
  /\ UNCHANGED <<pc, outstanding_tokens, pending_cleanup_token, frames>>

Query(s, r) ==
  /\ Dispatch(s, r)
  /\ UNCHANGED <<pc, state, outstanding_tokens, pending_cleanup_token, frames>>

-----------------------------------------------------------------------------
(* The session's operations.                                               *)

\* load_backend and create: a failure of either leaves no session behind.
Load(s) ==
  /\ pc[s] = "absent"
  /\ pc' = [pc EXCEPT ![s] = "live"]
  /\ UNCHANGED <<state, outstanding_tokens, pending_cleanup_token, camera, frames>>

OpenSource(s, supported) ==
  /\ Calls(s, {"Created"})
  /\ \E r \in Replies(s, SimulatedOpen(camera[s], supported)) : Lifecycle(s, r, "Open")

Open(s) == \E supported \in BOOLEAN : OpenSource(s, supported)

Capabilities(s) ==
  /\ Calls(s, {"Open", "Configured"})
  /\ \E r \in Replies(s, SimulatedGetCapabilities(camera[s])) : Query(s, r)

StreamConfigurationAt(s, index) ==
  /\ Calls(s, {"Open"})
  /\ \E r \in Replies(s, SimulatedGetStreamConfiguration(camera[s], index)) : Query(s, r)

StreamConfiguration(s) == \E index \in 0 .. 1 : StreamConfigurationAt(s, index)

\* The active configuration is checked after the backend took it: one that does
\* not check leaves the session Open over a Configured backend.
ConfigureStream(s, supported) ==
  /\ Calls(s, {"Open"})
  /\ \E r \in Replies(s, SimulatedConfigure(camera[s], supported)) :
       \/ Lifecycle(s, r, "Configured")
       \/ "configuration" \in Faults /\ Query(s, r)

Configure(s) == \E supported \in BOOLEAN : ConfigureStream(s, supported)

Start(s) ==
  /\ Calls(s, {"Configured"})
  /\ \E r \in Replies(s, SimulatedStart(camera[s])) : Lifecycle(s, r, "Started")

\* A timeout and a failure leave the session as it was; so does success.
WaitFrame(s) ==
  /\ Calls(s, {"Started"})
  /\ pending_cleanup_token[s] = NoToken
  /\ \E r \in Replies(s, SimulatedWaitFrame(camera[s])) : Query(s, r)

\* acquire_frame of the backend.  A faulty one may grant a buffer it has already
\* granted.
AcquireReplies(s) ==
  (UNION {Replies(s, r) : r \in SimulatedAcquireFrame(camera[s])})
    \cup {Granted(camera[s], b) : b \in {x \in camera[s].outstanding : "duplicate" \in Faults}}

MayAcquire(s) ==
  /\ Calls(s, {"Started"})
  /\ pending_cleanup_token[s] = NoToken
  /\ camera[s].next_sequence < MaxSequence

AcquireFails(s) ==
  /\ MayAcquire(s)
  /\ \E r \in AcquireReplies(s) : r.status # "OK" /\ Query(s, r)

\* The frame is validated and its token recorded.
Acquire(s) ==
  /\ MayAcquire(s)
  /\ \E r \in AcquireReplies(s) :
       /\ r.status = "OK"
       /\ r.token \notin outstanding_tokens[s]
       /\ Dispatch(s, r)
       /\ outstanding_tokens' = [outstanding_tokens EXCEPT ![s] = @ \cup {r.token}]
       /\ frames' = frames \cup
            {[owner_identity |-> s, frame_token |-> r.token,
              sequence_number |-> r.sequence, plane |-> r.buffer]}
  /\ UNCHANGED <<pc, state, pending_cleanup_token>>

\* rollback_acquired_token: the frame cannot be used, so its token goes back.
Remembered_forgotten(s, r, token) == NoToken

Remembered(s, r, token) == IF r.status = "OK" THEN NoToken ELSE token

AcquireRollsBack(s) ==
  /\ MayAcquire(s)
  /\ \E r \in AcquireReplies(s) :
       /\ r.status = "OK"
       /\ \/ Faults \cap {"frame", "tracking"} # {}
          \/ r.token \in outstanding_tokens[s]
       /\ \E back \in {SimulatedReleaseFrame(r.camera, r.token)}
                        \cup {x \in {Failed(r.camera, "exception")} : "callback" \in Faults} :
            /\ Dispatch(s, back)
            /\ pending_cleanup_token' =
                 [pending_cleanup_token EXCEPT ![s] = Remembered(s, back, r.token)]
  /\ UNCHANGED <<pc, state, outstanding_tokens, frames>>

\* A view is taken back only by the session it came from, while its token is
\* outstanding there.
BelongsTo_anySession(f, s) == f.frame_token \in outstanding_tokens[s]

BelongsTo(f, s) ==
  /\ f.owner_identity = s
  /\ f.frame_token \in outstanding_tokens[s]

ReleaseFrame(s, f) ==
  /\ Calls(s, {"Started"})
  /\ BelongsTo(f, s)
  /\ \E r \in Replies(s, SimulatedReleaseFrame(camera[s], f.frame_token)) :
       /\ Dispatch(s, r)
       /\ \/ /\ r.status = "OK"
             /\ Forget(s, f.frame_token)
             /\ frames' = frames \ {f}
          \/ /\ r.status # "OK"
             /\ UNCHANGED <<outstanding_tokens, frames>>
  /\ UNCHANGED <<pc, state, pending_cleanup_token>>

\* ~CameraFrame: only the view goes, its token stays with the session.
DropFrame(f) ==
  /\ frames' = frames \ {f}
  /\ UNCHANGED <<pc, state, outstanding_tokens, pending_cleanup_token, camera>>

\* retry_pending_cleanup_or_throw, then the checks, then the callback.
MayStop(s) == outstanding_tokens[s] = {}

StopCallback(s, c) ==
  /\ \E r \in {SimulatedStop(c)}
                \cup {x \in {Failed(c, "exception")} : "callback" \in Faults} :
       Dispatch(s, r) /\ Advance(s, r, "Stopped")

Stop(s) ==
  /\ Calls(s, {"Started"})
  /\ \/ /\ pending_cleanup_token[s] = NoToken
        /\ MayStop(s)
        /\ StopCallback(s, camera[s])
        /\ UNCHANGED pending_cleanup_token
     \/ /\ pending_cleanup_token[s] # NoToken
        /\ \E r \in Replies(s, SimulatedReleaseFrame(camera[s], pending_cleanup_token[s])) :
             \/ /\ r.status # "OK"
                /\ Dispatch(s, r)
                /\ UNCHANGED <<state, pending_cleanup_token>>
             \/ /\ r.status = "OK"
                /\ pending_cleanup_token' = [pending_cleanup_token EXCEPT ![s] = NoToken]
                /\ \/ MayStop(s) /\ StopCallback(s, r.camera)
                   \/ ~MayStop(s) /\ Dispatch(s, r) /\ UNCHANGED state
  /\ UNCHANGED <<pc, outstanding_tokens, frames>>

Close(s) ==
  /\ Calls(s, {"Open", "Configured", "Stopped"})
  /\ outstanding_tokens[s] = {}
  /\ \E r \in Replies(s, SimulatedClose(camera[s])) : Lifecycle(s, r, "Created")

-----------------------------------------------------------------------------
(* The destructor.                                                         *)

Goto(s, place) == pc' = [pc EXCEPT ![s] = place]

\* The session goes out of scope, and its pending token is released first.
Destruct(s) ==
  /\ pc[s] = "live"
  /\ Goto(s, "release")
  /\ \/ /\ pending_cleanup_token[s] = NoToken
        /\ UNCHANGED <<camera, pending_cleanup_token>>
     \/ /\ pending_cleanup_token[s] # NoToken
        /\ \E r \in Replies(s, SimulatedReleaseFrame(camera[s], pending_cleanup_token[s])) :
             /\ Dispatch(s, r)
             /\ pending_cleanup_token' =
                  [pending_cleanup_token EXCEPT ![s] = Remembered(s, r, @)]
  /\ UNCHANGED <<state, outstanding_tokens, frames>>

\* In reverse order of acquisition, which is that of the tokens.  Afterwards no
\* token is outstanding, whatever the replies were.
CleanupReleases(s) ==
  /\ pc[s] = "release"
  /\ \/ /\ outstanding_tokens[s] = {}
        /\ Goto(s, "stop")
        /\ UNCHANGED <<camera, outstanding_tokens>>
     \/ /\ UNCHANGED pc
        /\ \E token \in outstanding_tokens[s] :
             /\ \A other \in outstanding_tokens[s] : other <= token
             /\ \E r \in Replies(s, SimulatedReleaseFrame(camera[s], token)) : Dispatch(s, r)
             /\ Forget(s, token)
  /\ UNCHANGED <<state, pending_cleanup_token, frames>>

\* The state moves on whatever the callback replies.
CleanupCalls(s, states, reply, to) ==
  \/ /\ state[s] \in states
     /\ \E r \in Replies(s, reply) : Dispatch(s, r)
     /\ state' = [state EXCEPT ![s] = to]
  \/ /\ state[s] \notin states
     /\ UNCHANGED <<camera, state>>

CleanupStops_skipped(s) ==
  /\ pc[s] = "stop"
  /\ Goto(s, "close")
  /\ UNCHANGED <<camera, state, outstanding_tokens, pending_cleanup_token, frames>>

CleanupStops(s) ==
  /\ pc[s] = "stop"
  /\ CleanupCalls(s, {"Started"}, SimulatedStop(camera[s]), "Stopped")
  /\ Goto(s, "close")
  /\ UNCHANGED <<outstanding_tokens, pending_cleanup_token, frames>>

CleanupCloses(s) ==
  /\ pc[s] = "close"
  /\ CleanupCalls(s, {"Configured", "Open", "Stopped"}, SimulatedClose(camera[s]), "Created")
  /\ Goto(s, "destroy")
  /\ UNCHANGED <<outstanding_tokens, pending_cleanup_token, frames>>

\* The instance is deleted and the runtime reference given back.  Nothing reads
\* the camera after that.
CleanupDestroys(s) ==
  /\ pc[s] = "destroy"
  /\ Goto(s, "gone")
  /\ camera' = [camera EXCEPT ![s] = NewCamera]
  /\ UNCHANGED <<state, outstanding_tokens, pending_cleanup_token, frames>>

-----------------------------------------------------------------------------
Streaming(s) ==
  \/ WaitFrame(s) \/ AcquireFails(s) \/ Acquire(s) \/ AcquireRollsBack(s)
  \/ \E f \in frames : ReleaseFrame(s, f)

Changing(s) ==
  \/ Load(s) \/ Open(s) \/ Capabilities(s) \/ StreamConfiguration(s)
  \/ Configure(s) \/ Start(s) \/ Stop(s) \/ Close(s)

Cleanup(s) ==
  Destruct(s) \/ CleanupReleases(s) \/ CleanupStops(s) \/ CleanupCloses(s) \/ CleanupDestroys(s)

Next ==
  \/ \E s \in Sessions : Changing(s) \/ Streaming(s) \/ Cleanup(s)
  \/ \E f \in frames : DropFrame(f)

Spec == Init /\ [][Next]_vars

-----------------------------------------------------------------------------
(* Properties.                                                             *)

\* The types of the session fields of CameraSession::Impl, of the backend's
\* camera behind each, and of the views.
TypeOK ==
  /\ pc \in [Sessions -> Places]
  /\ state \in [Sessions -> SessionState]
  /\ outstanding_tokens \in [Sessions -> SUBSET Tokens]
  /\ pending_cleanup_token \in [Sessions -> Nat]
  /\ camera \in [Sessions -> Camera]
  /\ frames \subseteq Frame

\* Session and backend stay in step through every failing call; the one gap is
\* a configuration the backend took and the session refused, which leaves the
\* session Open over a Configured backend (configure, 484-485).
LifecyclesAgree ==
  \A s \in Sessions : pc[s] = "live" =>
    \/ camera[s].state = state[s]
    \/ "configuration" \in Faults /\ state[s] = "Open" /\ camera[s].state = "Configured"

GrantedTokens(s) == {camera[s].token[b] : b \in camera[s].outstanding}

Pending(s) == {pending_cleanup_token[s]} \ {NoToken}

\* Every buffer the backend has given out is the session's to return, and the
\* session owes no more than those: its outstanding tokens and its one pending
\* rollback are together exactly the backend's, and never the same token.
TokensAccounted ==
  \A s \in Sessions : pc[s] = "live" =>
    /\ GrantedTokens(s) = outstanding_tokens[s] \cup Pending(s)
    /\ outstanding_tokens[s] \cap Pending(s) = {}

\* CameraFrame::valid() tells the truth while its session lives: the buffer the
\* planes point into is still granted under the frame's token, and still holds
\* the image the frame was acquired with.
ValidFramesOutstanding ==
  \A f \in frames : pc[f.owner_identity] = "live" =>
    LET c == camera[f.owner_identity] IN
    /\ f.plane \in c.outstanding
    /\ c.token[f.plane] = f.frame_token
    /\ c.storage[f.plane] = f.sequence_number

\* The session's own checks come before the backend's: no call reaches the backend
\* in a state that forbids it or returns a token the backend does not know, with two
\* exceptions.  A configuration only the backend took leaves it ahead of its session,
\* and the destructor, once a release or the stop of its own failed, leaves a camera
\* streaming that it then stops or closes (require_state, release_outstanding_tokens, cleanup).
BackendNeverMisused ==
  \A s \in Sessions :
    /\ camera[s].last_error # "unknown_token"
    /\ camera[s].last_error = "invalid_state" =>
         \/ "configuration" \in Faults /\ state[s] = "Open" /\ camera[s].state = "Configured"
         \/ "callback" \in Faults /\ pc[s] \in {"close", "destroy"} /\ camera[s].state = "Started"

\* The destructor deletes a camera that is closed and has every buffer back, unless
\* the last callback it made failed.
DestroyedClosed ==
  \A s \in Sessions : pc[s] = "destroy" =>
    \/ camera[s].state = "Created" /\ camera[s].outstanding = {}
    \/ "callback" \in Faults /\ camera[s].last_error # "none"

Lent(s) == {b \in camera[s].outstanding : camera[s].token[b] \in outstanding_tokens[s]}

Promise ==
  INSTANCE FrameLease WITH
    Slots <- Buffers,
    Contents <- Nat,
    lent <- [s \in Sessions |-> Lent(s)],
    content <- [s \in Sessions |-> camera[s].storage]

\* A borrowed frame shows one image until it is returned, through every
\* operation of its session, of the others, and the destructor.
ImplementsFrameLease == Promise!Spec
=============================================================================
