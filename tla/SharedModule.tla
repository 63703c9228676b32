---------------------------- MODULE SharedModule ----------------------------
(***************************************************************************)
(* What the camera HAL promises about its process-wide backend module:     *)
(* one module at a time, kept by the clients that hold a reference to it,  *)
(* and never given up while somebody uses its callbacks.  A module that    *)
(* could not be closed leaves the runtime faulted for good.                *)
(* BackendRuntime implements this specification.                           *)
(***************************************************************************)
CONSTANTS
  Clients,    \* the threads that call the HAL
  Paths,      \* the backend modules on disk
  NoModule,   \* nothing is loaded
  Faulted     \* a close failed: no module is ever available again

VARIABLES
  wanted,     \* the module each client asked for last
  module,     \* the module in service, NoModule or Faulted
  holders,    \* the clients that hold a reference to it
  users       \* the clients that may call its callbacks

vars == <<wanted, module, holders, users>>

Init ==
  /\ wanted = [c \in Clients |-> NoModule]
  /\ module = NoModule
  /\ holders = {}
  /\ users = {}

Ask(c, p) ==
  /\ c \notin holders
  /\ wanted' = [wanted EXCEPT ![c] = p]
  /\ UNCHANGED <<module, holders, users>>

\* A client gets the module it asked for, or none.
Acquire(c) ==
  /\ c \notin holders
  /\ wanted[c] # NoModule
  /\ module \in {NoModule, wanted[c]}
  /\ module' = wanted[c]
  /\ holders' = holders \cup {c}
  /\ UNCHANGED <<wanted, users>>

\* The last reference goes only when nobody uses the module, and takes the
\* module out of service.
Release(c) ==
  /\ c \in holders
  /\ \/ /\ holders # {c}
        /\ UNCHANGED module
     \/ /\ holders = {c}
        /\ users = {}
        /\ module' = NoModule
  /\ holders' = holders \ {c}
  /\ UNCHANGED <<wanted, users>>

Fault ==
  /\ module = NoModule
  /\ module' = Faulted
  /\ UNCHANGED <<wanted, holders, users>>

Use(c) ==
  /\ c \in holders
  /\ users' = users \cup {c}
  /\ UNCHANGED <<wanted, module, holders>>

Unuse(c) ==
  /\ c \in users
  /\ users' = users \ {c}
  /\ UNCHANGED <<wanted, module, holders>>

Next ==
  \/ \E c \in Clients, p \in Paths : Ask(c, p)
  \/ \E c \in Clients : Acquire(c) \/ Release(c) \/ Use(c) \/ Unuse(c)
  \/ Fault

Spec == Init /\ [][Next]_vars
=============================================================================
