--------------------------- MODULE BackendRuntime ---------------------------
(***************************************************************************)
(* The process-wide backend runtime of the camera HAL                      *)
(* (libs/camstream-camera-hal/src/camera_backend_runtime.cpp) together     *)
(* with the two dispatch functions that count its live instances           *)
(* (camstream_camera_create and _destroy in camera_hal.cpp).               *)
(*                                                                         *)
(* Several client threads call it.  An action is one section of code run   *)
(* under runtime().mutex, or one stretch of code run without it: a dlopen, *)
(* a dlclose, a callback of the backend.                                   *)
(***************************************************************************)
EXTENDS Integers, FiniteSets

CONSTANTS
  Clients,       \* the threads that call the HAL
  Paths,         \* the backend modules on disk
  Pinned,        \* the modules dlclose cannot unmap (opened elsewhere, NODELETE)
  Descriptors,   \* the operation tables a module constructor may register
  ClientLimit,   \* the largest client_count (2^32 - 1 in the code)
  OwnReference,  \* does a client create and unload under a reference of its own?
  NULL

ASSUME RuntimeAssumption ==
  /\ IsFiniteSet(Clients)
  /\ Pinned \subseteq Paths
  /\ NULL \notin Paths
  /\ ClientLimit \in Nat \ {0}
  /\ OwnReference \in BOOLEAN

VARIABLES
  state,                   \* LoadState
  module_handle,           \* the dlopen handle, named by its path
  backend,                 \* the registered table, named by the module it is in
  backend_path,
  registration_status,
  registration_attempted,
  client_count,
  live_instance_count,
  waiting,                 \* the threads blocked on state_changed
  mapped,                  \* the modules the dynamic loader has mapped
  pc,                      \* where each client is in its call
  path,                    \* the backend_path argument of each client's load
  operations,              \* the table each client calls through, NULL without one
  refs                     \* the clients whose load returned OK, until their unload

runtime == <<state, module_handle, backend, backend_path, registration_status,
             registration_attempted, client_count, live_instance_count>>
vars == <<runtime, waiting, mapped, pc, path, operations, refs>>

LoadStates == {"Unloaded", "Loading", "Loaded", "Unloading", "Faulted"}
Status == {"OK", "INVALID_ARGUMENT", "INVALID_STATE", "NOT_SUPPORTED", "RESOURCE_ERROR"}

\* The places of a load that has the runtime in Loading, those of a load or an
\* unload that has it in Unloading, those inside create and destroy.
LoadingAt == {"dlopen", "open_failed", "constructor", "opened", "rejected",
              "reset_failed"}
UnloadingAt == {"fail_close", "fail_closed", "fail_kept", "fail_caught",
                "unload_close", "unload_closed", "unload_kept"}
CreatingAt == {"create", "record", "discard"}
DestroyingAt == {"destroy", "forget"}
Places == {"idle", "load", "unload", "fault_caught"} \cup LoadingAt \cup UnloadingAt
            \cup CreatingAt \cup DestroyingAt

At(c, place) == pc[c] = place
Goto(c, place) == pc' = [pc EXCEPT ![c] = place]

Transitional == state \in {"Loading", "Unloading"}

Init ==
  /\ state = "Unloaded"
  /\ module_handle = NULL
  /\ backend = NULL
  /\ backend_path = NULL
  /\ registration_status = "RESOURCE_ERROR"
  /\ registration_attempted = FALSE
  /\ client_count = 0
  /\ live_instance_count = 0
  /\ waiting = {}
  /\ mapped = {}
  /\ pc = [c \in Clients |-> "idle"]
  /\ path = [c \in Clients |-> NULL]
  /\ operations = [c \in Clients |-> NULL]
  /\ refs = {}

-----------------------------------------------------------------------------
(* Helpers of the runtime, all used with its mutex held.                   *)

NotifyAll_forgotten == UNCHANGED waiting

NotifyAll == waiting' = {}

Wait(c) ==
  /\ c \notin waiting
  /\ Transitional
  /\ waiting' = waiting \cup {c}
  /\ UNCHANGED <<runtime, mapped, pc, path, operations, refs>>

\* The caller is past its wait for a settled state.
Settled(c) == c \notin waiting /\ ~Transitional

ResetLoadedFields ==
  /\ module_handle' = NULL
  /\ backend' = NULL
  /\ backend_path' = NULL
  /\ registration_status' = "RESOURCE_ERROR"
  /\ registration_attempted' = FALSE
  /\ client_count' = 0
  /\ live_instance_count' = 0

BecomeUnloaded ==
  /\ ResetLoadedFields
  /\ state' = "Unloaded"
  /\ NotifyAll

\* Storing the diagnostic after the reset throws: the state is not reached and
\* nobody is notified yet.
ResetThrows ==
  /\ ResetLoadedFields
  /\ UNCHANGED <<state, waiting>>

\* The table is withdrawn for good.
Withdraw ==
  /\ backend' = NULL
  /\ registration_status' = "RESOURCE_ERROR"
  /\ registration_attempted' = FALSE
  /\ state' = "Faulted"

\* dlclose failed: the handle that could not be given up stays recorded.
KeepHandle ==
  /\ Withdraw
  /\ UNCHANGED <<module_handle, backend_path, client_count, live_instance_count>>

CloseFailed == KeepHandle /\ NotifyAll

\* A descriptor is reduced to the checks it passes.
Descriptor == [present : BOOLEAN, abi : BOOLEAN, sized : BOOLEAN,
               named : BOOLEAN, complete : BOOLEAN]

ValidateBackend(d) ==
  IF ~d.present THEN "INVALID_ARGUMENT"
  ELSE IF ~d.abi THEN "NOT_SUPPORTED"
  ELSE IF d.sized /\ d.named /\ d.complete THEN "OK" ELSE "INVALID_ARGUMENT"

ActiveBackend ==
  IF state = "Loaded" /\ client_count > 0 THEN backend ELSE NULL

-----------------------------------------------------------------------------
(* load_backend                                                            *)

\* A client loads as CameraSession does: once, while it holds no reference.
LoadCall(c, p) ==
  /\ At(c, "idle")
  /\ c \notin refs
  /\ path' = [path EXCEPT ![c] = p]
  /\ Goto(c, "load")
  /\ UNCHANGED <<runtime, waiting, mapped, operations, refs>>

LoadWait(c) == At(c, "load") /\ Wait(c)

BelowLimit_offByOne == client_count <= ClientLimit

BelowLimit == client_count < ClientLimit

SamePath_ignored(c) == TRUE

SamePath(c) == backend_path = path[c]

LoadRefused(c) ==
  /\ At(c, "load")
  /\ Settled(c)
  /\ \/ state = "Faulted"
     \/ state = "Loaded" /\ (~SamePath(c) \/ ~BelowLimit)
  /\ Goto(c, "idle")
  /\ UNCHANGED <<runtime, waiting, mapped, path, operations, refs>>

\* Copying the requested path throws: INTERNAL_ERROR before Loading is entered.
LoadThrows(c) ==
  /\ At(c, "load")
  /\ Settled(c)
  /\ state = "Unloaded"
  /\ backend' = NULL
  /\ backend_path' \in {backend_path, path[c]}
  /\ Goto(c, "idle")
  /\ UNCHANGED <<state, module_handle, registration_status, registration_attempted,
                 client_count, live_instance_count, waiting, mapped, path,
                 operations, refs>>

LoadJoin(c) ==
  /\ At(c, "load")
  /\ Settled(c)
  /\ state = "Loaded"
  /\ SamePath(c)
  /\ BelowLimit
  /\ client_count' = client_count + 1
  /\ refs' = refs \cup {c}
  /\ Goto(c, "idle")
  /\ UNCHANGED <<state, module_handle, backend, backend_path, registration_status,
                 registration_attempted, live_instance_count, waiting, mapped,
                 path, operations>>

EnterLoading_skipped == UNCHANGED state

EnterLoading == state' = "Loading"

LoadBegin(c) ==
  /\ At(c, "load")
  /\ Settled(c)
  /\ state = "Unloaded"
  /\ backend' = NULL
  /\ backend_path' = path[c]
  /\ registration_status' = "RESOURCE_ERROR"
  /\ registration_attempted' = FALSE
  /\ EnterLoading
  /\ Goto(c, "dlopen")
  /\ UNCHANGED <<module_handle, client_count, live_instance_count, waiting, mapped,
                 path, operations, refs>>

\* dlopen, without the mutex: it fails, or maps the module; the constructor
\* runs only when the module was not mapped already.
Dlopen(c) ==
  /\ At(c, "dlopen")
  /\ \/ /\ Goto(c, "open_failed")
        /\ UNCHANGED mapped
     \/ /\ Goto(c, IF path[c] \in mapped THEN "opened" ELSE "constructor")
        /\ mapped' = mapped \cup {path[c]}
  /\ UNCHANGED <<runtime, waiting, path, operations, refs>>

\* register_backend, re-entered from the constructor of the module being opened.
RegisterBackend(c, d) ==
  /\ At(c, "constructor")
  /\ state = "Loading"
  /\ IF registration_attempted
     THEN /\ registration_status' = "INVALID_STATE"
          /\ UNCHANGED <<registration_attempted, backend>>
     ELSE /\ registration_attempted' = TRUE
          /\ registration_status' = ValidateBackend(d)
          /\ backend' = IF ValidateBackend(d) = "OK" THEN path[c] ELSE backend
  /\ UNCHANGED <<state, module_handle, backend_path, client_count,
                 live_instance_count, waiting, mapped, pc, path, operations, refs>>

\* Building a diagnostic or copying the name throws: the attempt is recorded, no
\* table is.
RegisterThrows(c) ==
  /\ At(c, "constructor")
  /\ state = "Loading"
  /\ ~registration_attempted
  /\ registration_attempted' = TRUE
  /\ UNCHANGED <<state, module_handle, backend, backend_path, registration_status,
                 client_count, live_instance_count, waiting, mapped, pc, path,
                 operations, refs>>

ConstructorReturns(c) ==
  /\ At(c, "constructor")
  /\ Goto(c, "opened")
  /\ UNCHANGED <<runtime, waiting, mapped, path, operations, refs>>

Registered == registration_status = "OK" /\ backend # NULL

LoadCommit(c) ==
  /\ At(c, "opened")
  /\ Registered
  /\ module_handle' = path[c]
  /\ client_count' = 1
  /\ live_instance_count' = 0
  /\ state' = "Loaded"
  /\ refs' = refs \cup {c}
  /\ NotifyAll
  /\ Goto(c, "idle")
  /\ UNCHANGED <<backend, backend_path, registration_status, registration_attempted,
                 mapped, path, operations>>

LoadReject(c) ==
  /\ At(c, "opened")
  /\ ~Registered
  /\ Goto(c, "rejected")
  /\ UNCHANGED <<runtime, waiting, mapped, path, operations, refs>>

(* finish_failed_load.  Storing the diagnostic may throw in any of its locked
   sections; the lock is given up and the catch block faults the runtime in a
   section of its own (Fault). *)

\* No handle came back: one locked section.
FailWithoutHandle(c) ==
  /\ At(c, "open_failed")
  /\ \/ BecomeUnloaded /\ Goto(c, "idle")
     \/ ResetThrows /\ Goto(c, "reset_failed")
  /\ UNCHANGED <<mapped, path, operations, refs>>

\* A handle came back without a usable registration: Unloading, so that
\* everybody waits while the module is closed again, unless that throws.
FailBegin(c) ==
  /\ At(c, "rejected")
  /\ module_handle' = path[c]
  /\ client_count' = 0
  /\ live_instance_count' = 0
  /\ state' = "Unloading"
  /\ Goto(c, "fail_close") \/ Goto(c, "fail_caught")
  /\ UNCHANGED <<backend, backend_path, registration_status, registration_attempted,
                 waiting, mapped, path, operations, refs>>

\* dlclose, without the mutex: it fails and the module stays, or it succeeds and
\* unmaps the module, unless that is pinned.
Dlclose(c, handle, closed, kept) ==
  /\ \/ /\ Goto(c, closed)
        /\ mapped' = IF handle \in Pinned THEN mapped ELSE mapped \ {handle}
     \/ /\ Goto(c, kept)
        /\ UNCHANGED mapped
  /\ UNCHANGED <<runtime, waiting, path, operations, refs>>

FailClose_skipped(c) ==
  /\ At(c, "fail_close")
  /\ Goto(c, "fail_closed")
  /\ UNCHANGED <<runtime, waiting, mapped, path, operations, refs>>

FailClose(c) ==
  /\ At(c, "fail_close")
  /\ Dlclose(c, path[c], "fail_closed", "fail_kept")

FailEnd(c) ==
  /\ \/ /\ At(c, "fail_closed")
        /\ \/ BecomeUnloaded /\ Goto(c, "idle")
           \/ ResetThrows /\ Goto(c, "fail_caught")
     \/ /\ At(c, "fail_kept")
        /\ \/ CloseFailed /\ Goto(c, "idle")
           \/ KeepHandle /\ UNCHANGED waiting /\ Goto(c, "fault_caught")
  /\ UNCHANGED <<mapped, path, operations, refs>>

Fault(c) ==
  /\ \/ /\ At(c, "reset_failed")
        /\ module_handle' = NULL
     \/ /\ At(c, "fail_caught") \/ At(c, "fault_caught")
        /\ module_handle' = path[c]
  /\ Withdraw
  /\ client_count' = 0
  /\ live_instance_count' = 0
  /\ NotifyAll
  /\ Goto(c, "idle")
  /\ UNCHANGED <<backend_path, mapped, path, operations, refs>>

-----------------------------------------------------------------------------
(* unload_backend                                                          *)

UnloadCall(c) ==
  /\ At(c, "idle")
  /\ OwnReference => c \in refs
  /\ Goto(c, "unload")
  /\ UNCHANGED <<runtime, waiting, mapped, path, operations, refs>>

UnloadWait(c) == At(c, "unload") /\ Wait(c)

MayUnload_ignoresInstances == client_count = 1

\* The last reference goes only when no HAL instance is alive.
MayUnload == client_count = 1 /\ live_instance_count = 0

UnloadRefused(c) ==
  /\ At(c, "unload")
  /\ Settled(c)
  /\ \/ state # "Loaded"
     \/ client_count = 0
     \/ client_count = 1 /\ ~MayUnload
  /\ Goto(c, "idle")
  /\ UNCHANGED <<runtime, waiting, mapped, path, operations, refs>>

UnloadLeave(c) ==
  /\ At(c, "unload")
  /\ Settled(c)
  /\ state = "Loaded"
  /\ client_count > 1
  /\ client_count' = client_count - 1
  /\ refs' = refs \ {c}
  /\ Goto(c, "idle")
  /\ UNCHANGED <<state, module_handle, backend, backend_path, registration_status,
                 registration_attempted, live_instance_count, waiting, mapped,
                 path, operations>>

UnloadLast(c) ==
  /\ At(c, "unload")
  /\ Settled(c)
  /\ state = "Loaded"
  /\ MayUnload
  /\ client_count' = 0
  /\ refs' = refs \ {c}
  /\ IF module_handle = NULL
     THEN /\ backend' = NULL
          /\ state' = "Faulted"
          /\ NotifyAll
          /\ Goto(c, "idle")
     ELSE /\ state' = "Unloading"
          /\ Goto(c, "unload_close")
          /\ UNCHANGED <<backend, waiting>>
  /\ UNCHANGED <<module_handle, backend_path, registration_status,
                 registration_attempted, live_instance_count, mapped, path,
                 operations>>

\* Copying the path throws before the count is touched: INTERNAL_ERROR, and the
\* reference stays with its holder.
UnloadThrows(c) ==
  /\ At(c, "unload")
  /\ Settled(c)
  /\ state = "Loaded"
  /\ MayUnload
  /\ module_handle # NULL
  /\ Goto(c, "idle")
  /\ UNCHANGED <<runtime, waiting, mapped, path, operations, refs>>

UnloadClose(c) ==
  /\ At(c, "unload_close")
  /\ Dlclose(c, module_handle, "unload_closed", "unload_kept")

UnloadEnd(c) ==
  /\ \/ At(c, "unload_closed") /\ BecomeUnloaded
     \/ At(c, "unload_kept") /\ CloseFailed
  /\ Goto(c, "idle")
  /\ UNCHANGED <<mapped, path, operations, refs>>

-----------------------------------------------------------------------------
(* camstream_camera_create and camstream_camera_destroy                    *)

CameraCreate(c) ==
  /\ At(c, "idle")
  /\ OwnReference => c \in refs
  /\ operations[c] = NULL
  /\ ActiveBackend # NULL
  /\ operations' = [operations EXCEPT ![c] = ActiveBackend]
  /\ Goto(c, "create")
  /\ UNCHANGED <<runtime, waiting, mapped, path, refs>>

\* The backend's create returns: with nothing; with an instance the HAL keeps;
\* or with one it discards, since the status is an error or the handle cannot
\* be allocated.
BackendCreate(c) ==
  /\ At(c, "create")
  /\ \/ /\ Goto(c, "idle")
        /\ operations' = [operations EXCEPT ![c] = NULL]
     \/ /\ \/ Goto(c, "record")
           \/ Goto(c, "discard")
        /\ UNCHANGED operations
  /\ UNCHANGED <<runtime, waiting, mapped, path, refs>>

DiscardInstance(c) ==
  /\ At(c, "discard")
  /\ operations' = [operations EXCEPT ![c] = NULL]
  /\ Goto(c, "idle")
  /\ UNCHANGED <<runtime, waiting, mapped, path, refs>>

RecordInstanceCreated(c) ==
  /\ At(c, "record")
  /\ live_instance_count' = live_instance_count + 1
  /\ Goto(c, "idle")
  /\ UNCHANGED <<state, module_handle, backend, backend_path, registration_status,
                 registration_attempted, client_count, waiting, mapped, path,
                 operations, refs>>

CameraDestroy(c) ==
  /\ At(c, "idle")
  /\ operations[c] # NULL
  /\ Goto(c, "destroy")
  /\ UNCHANGED <<runtime, waiting, mapped, path, operations, refs>>

\* The backend's destroy returns.
BackendDestroy(c) ==
  /\ At(c, "destroy")
  /\ Goto(c, "forget")
  /\ UNCHANGED <<runtime, waiting, mapped, path, operations, refs>>

CountDown_skipped == UNCHANGED live_instance_count

CountDown ==
  live_instance_count' = IF live_instance_count > 0 THEN live_instance_count - 1 ELSE 0

RecordInstanceDestroyed(c) ==
  /\ At(c, "forget")
  /\ CountDown
  /\ operations' = [operations EXCEPT ![c] = NULL]
  /\ Goto(c, "idle")
  /\ UNCHANGED <<state, module_handle, backend, backend_path, registration_status,
                 registration_attempted, client_count, waiting, mapped, path, refs>>

-----------------------------------------------------------------------------

\* The calls a client decides to make.
Call(c) ==
  \/ \E p \in Paths : LoadCall(c, p)
  \/ UnloadCall(c)
  \/ CameraCreate(c)
  \/ CameraDestroy(c)

\* The steps of a call under way.
Load(c) ==
  \/ LoadWait(c) \/ LoadRefused(c) \/ LoadThrows(c) \/ LoadJoin(c) \/ LoadBegin(c)
  \/ Dlopen(c) \/ ConstructorReturns(c) \/ LoadCommit(c) \/ LoadReject(c)
  \/ FailWithoutHandle(c) \/ FailBegin(c) \/ FailClose(c) \/ FailEnd(c) \/ Fault(c)

Unload(c) ==
  \/ UnloadWait(c) \/ UnloadRefused(c) \/ UnloadLeave(c) \/ UnloadThrows(c)
  \/ UnloadLast(c) \/ UnloadClose(c) \/ UnloadEnd(c)

CreateOrDestroy(c) ==
  \/ BackendCreate(c) \/ DiscardInstance(c) \/ RecordInstanceCreated(c)
  \/ BackendDestroy(c) \/ RecordInstanceDestroyed(c)

Next ==
  \E c \in Clients :
    \/ Call(c) \/ Load(c) \/ Unload(c) \/ CreateOrDestroy(c)
    \/ RegisterThrows(c)
    \/ \E d \in Descriptors : RegisterBackend(c, d)

Spec == Init /\ [][Next]_vars

\* A thread inside a call keeps running: dlopen, dlclose, the module constructor
\* and the backend's callbacks return, and the mutex is always released.  No
\* client is obliged to start a call.
Fairness == \A c \in Clients : WF_vars(Load(c) \/ Unload(c) \/ CreateOrDestroy(c))

FairSpec == Spec /\ Fairness

-----------------------------------------------------------------------------
(* Properties                                                              *)

\* The types of the fields of BackendRuntime and of the clients' progress; the
\* reference count stays within its limit.
TypeOK ==
  /\ state \in LoadStates
  /\ module_handle \in Paths \cup {NULL}
  /\ backend \in Paths \cup {NULL}
  /\ backend_path \in Paths \cup {NULL}
  /\ registration_status \in Status
  /\ registration_attempted \in BOOLEAN
  /\ client_count \in 0..ClientLimit
  /\ live_instance_count \in Nat
  /\ waiting \subseteq Clients
  /\ mapped \subseteq Paths
  /\ pc \in [Clients -> Places]
  /\ path \in [Clients -> Paths \cup {NULL}]
  /\ operations \in [Clients -> Paths \cup {NULL}]
  /\ refs \subseteq Clients

\* The clients that own a HAL camera counted by the runtime.
Cameras == {c \in Clients : operations[c] # NULL /\ pc[c] \notin CreatingAt}

\* The clients with a backend instance alive: from the return of the backend's
\* create to the return of its destroy.
Instances == {c \in Clients : operations[c] # NULL /\ pc[c] \notin {"create", "forget"}}

\* Destroy-before-dlclose (camera_hal.h:119-120): as long as a backend instance
\* is alive its module is mapped, so no dlclose ran under it.
DestroyBeforeClose == \A c \in Instances : operations[c] \in mapped

\* Stronger: any table a client got from active_backend() and may still call
\* through, with or without an instance, lies in the loaded, mapped module.
BackendCodeMapped ==
  \A c \in Clients : operations[c] # NULL =>
     /\ operations[c] \in mapped
     /\ state = "Loaded"
     /\ module_handle = operations[c]

\* The two counters, kept by separate locked sections of several calls, agree
\* with who holds a reference and who owns a camera; no reference survives the
\* module.
ReferencesCounted ==
  /\ client_count = Cardinality(refs)
  /\ live_instance_count = Cardinality(Cameras)
  /\ refs # {} <=> state = "Loaded"

\* dlopen and dlclose run without the mutex, yet only one thread at a time is
\* between the start and the end of a load or an unload, and the state says so.
OneTransition ==
  /\ Cardinality({c \in Clients : pc[c] \in LoadingAt \cup UnloadingAt}) =
       (IF Transitional THEN 1 ELSE 0)
  /\ \A c \in Clients :
       /\ pc[c] \in LoadingAt => state = "Loading"
       /\ pc[c] \in UnloadingAt => state = "Unloading"

\* Every module the HAL mapped is the one it holds, or is in the hands of the
\* load under way: a load that fails closes what it opened, and the table the
\* runtime publishes belongs to the module it holds.
NoModuleLeaked ==
  /\ \A p \in mapped \ Pinned :
       \/ p = module_handle
       \/ \E c \in Clients : pc[c] \in {"constructor", "opened", "rejected"} /\ path[c] = p
  /\ state = "Loaded" => backend = module_handle /\ module_handle \in mapped

\* The runtime never stays in Loading or Unloading, and a thread that blocked
\* on state_changed is woken: every way out of the two states notifies,
\* whatever failed.
WaitersWoken ==
  /\ Transitional ~> ~Transitional
  /\ \A c \in Clients : c \in waiting ~> c \notin waiting

\* The runtime implements the shared module it promises.
Promise == INSTANCE SharedModule WITH
  NoModule <- NULL,
  Faulted <- "Faulted",
  wanted <- path,
  module <- IF state = "Loaded" THEN module_handle
            ELSE IF state = "Faulted" THEN "Faulted" ELSE NULL,
  holders <- refs,
  users <- {c \in Clients : operations[c] # NULL}

ImplementsSharedModule == Promise!Spec
=============================================================================
