------------------------ MODULE BackendRuntimeProofs ------------------------
(***************************************************************************)
(* Theorems about BackendRuntime for any number of clients and modules and *)
(* any client_count limit: AnyInv is what holds whoever calls what, IInv   *)
(* what holds under the discipline of CameraSession, where create and      *)
(* unload run under a reference of the caller's own (OwnReference).        *)
(***************************************************************************)
EXTENDS BackendRuntime, FiniteSetTheorems, TLAPS

\* The client is between the start and the end of a load or an unload.
Busy(c) == pc[c] \in LoadingAt \cup UnloadingAt

\* The transition under way, seen from the thread that runs it.
TransitionInv ==
  /\ \A c, d \in Clients : Busy(c) /\ Busy(d) => c = d
  /\ \A c \in Clients :
       /\ pc[c] \in LoadingAt =>
            /\ state = "Loading"
            /\ path[c] \in Paths
            /\ backend \in {NULL, path[c]}
            /\ pc[c] # "reset_failed" => backend_path = path[c]
       /\ pc[c] \in UnloadingAt => state = "Unloading"
       /\ pc[c] = "fault_caught" => state = "Faulted"
       /\ pc[c] \in {"constructor", "opened", "rejected"} => path[c] \in mapped

\* A client waits for a load only without a reference, and is inside unload or
\* create only with one.
ReferenceInv ==
  /\ \A c \in Clients :
       /\ pc[c] = "load" => c \notin refs /\ path[c] \in Paths
       /\ pc[c] = "unload" => c \in refs
       /\ pc[c] \in CreatingAt => c \in refs
       /\ pc[c] \in CreatingAt \cup DestroyingAt => operations[c] # NULL

\* Who waits to load asks for a module.
Asking == \A c \in Clients : pc[c] = "load" => path[c] \in Paths

\* What a loaded runtime holds.
ModuleInv ==
  state = "Loaded" =>
    /\ module_handle \in Paths
    /\ backend = module_handle
    /\ backend_path = module_handle
    /\ module_handle \in mapped

\* The inductive invariant under the discipline of CameraSession.
IInv ==
  /\ TypeOK
  /\ TransitionInv
  /\ ReferenceInv
  /\ ModuleInv
  /\ ReferencesCounted
  /\ BackendCodeMapped

-----------------------------------------------------------------------------
(* Typing *)

\* What reset_loaded_fields and a withdrawn table leave in the runtime's fields.
LEMMA EndTyped ==
  ASSUME TypeOK, ResetLoadedFields \/ KeepHandle
  PROVE  /\ module_handle' \in Paths \cup {NULL}
         /\ backend' \in Paths \cup {NULL}
         /\ backend_path' \in Paths \cup {NULL}
         /\ registration_status' \in Status
         /\ registration_attempted' \in BOOLEAN
         /\ client_count' \in 0..ClientLimit
         /\ live_instance_count' \in Nat
  <1> USE RuntimeAssumption DEF ResetLoadedFields, KeepHandle, Withdraw, TypeOK, Status
  <1>1. module_handle' \in Paths \cup {NULL} /\ backend' \in Paths \cup {NULL}
    OBVIOUS
  <1>2. backend_path' \in Paths \cup {NULL}
    OBVIOUS
  <1>3. registration_status' \in Status /\ registration_attempted' \in BOOLEAN
    OBVIOUS
  <1>4. client_count' \in 0..ClientLimit /\ live_instance_count' \in Nat
    OBVIOUS
  <1> QED
    BY <1>1, <1>2, <1>3, <1>4

\* Every section of the runtime keeps the types of its fields.
LEMMA TypePreserved ==
  ASSUME TypeOK, TransitionInv, [Next]_vars
  PROVE  TypeOK'
  <1> USE RuntimeAssumption DEF TypeOK, TransitionInv, runtime, At, Goto, Places, LoadingAt,
        UnloadingAt, CreatingAt, DestroyingAt, Status, LoadStates, Settled, Transitional
  <1>0. CASE UNCHANGED vars
    BY <1>0 DEF vars
  <1>1. ASSUME NEW c \in Clients, LoadWait(c) PROVE TypeOK'
    BY <1>1 DEF LoadWait, Wait
  <1>2. ASSUME NEW c \in Clients, LoadRefused(c) PROVE TypeOK'
    BY <1>2 DEF LoadRefused
  <1>3. ASSUME NEW c \in Clients, LoadThrows(c) PROVE TypeOK'
    BY <1>3 DEF LoadThrows
  <1>4. ASSUME NEW c \in Clients, LoadJoin(c) PROVE TypeOK'
    BY <1>4 DEF LoadJoin, SamePath, BelowLimit
  <1>5. ASSUME NEW c \in Clients, LoadBegin(c) PROVE TypeOK'
    BY <1>5 DEF LoadBegin, EnterLoading
  <1>6. ASSUME NEW c \in Clients, Dlopen(c) PROVE TypeOK'
    BY <1>6 DEF Dlopen
  <1>7. ASSUME NEW c \in Clients, ConstructorReturns(c) PROVE TypeOK'
    BY <1>7 DEF ConstructorReturns
  <1>8. ASSUME NEW c \in Clients, LoadCommit(c) PROVE TypeOK'
    BY <1>8 DEF LoadCommit, NotifyAll, Registered
  <1>9. ASSUME NEW c \in Clients, LoadReject(c) PROVE TypeOK'
    BY <1>9 DEF LoadReject
  <1>10. ASSUME NEW c \in Clients, FailWithoutHandle(c) PROVE TypeOK'
    BY <1>10, EndTyped DEF FailWithoutHandle, BecomeUnloaded, ResetThrows, NotifyAll
  <1>11. ASSUME NEW c \in Clients, FailBegin(c) PROVE TypeOK'
    BY <1>11 DEF FailBegin
  <1>12. ASSUME NEW c \in Clients, Fault(c) PROVE TypeOK'
    <2>1. /\ state' \in LoadStates
          /\ module_handle' \in Paths \cup {NULL}
          /\ backend' \in Paths \cup {NULL}
          /\ registration_status' \in Status
          /\ registration_attempted' \in BOOLEAN
      BY <1>12 DEF Fault, Withdraw
    <2>2. client_count' \in 0..ClientLimit /\ live_instance_count' \in Nat
      BY <1>12 DEF Fault
    <2>3. waiting' \subseteq Clients /\ pc' \in [Clients -> Places]
      BY <1>12 DEF Fault, NotifyAll
    <2> QED
      BY <1>12, <2>1, <2>2, <2>3 DEF Fault
  <1>13. ASSUME NEW c \in Clients, FailClose(c) PROVE TypeOK'
    BY <1>13 DEF FailClose, Dlclose
  <1>14. ASSUME NEW c \in Clients, FailEnd(c) PROVE TypeOK'
    BY <1>14, EndTyped DEF FailEnd, BecomeUnloaded, ResetThrows, CloseFailed, KeepHandle,
        Withdraw, NotifyAll
  <1>15. ASSUME NEW c \in Clients, UnloadCall(c) PROVE TypeOK'
    BY <1>15 DEF UnloadCall
  <1>16. ASSUME NEW c \in Clients, UnloadWait(c) PROVE TypeOK'
    BY <1>16 DEF UnloadWait, Wait
  <1>17. ASSUME NEW c \in Clients, UnloadRefused(c) PROVE TypeOK'
    BY <1>17 DEF UnloadRefused
  <1>18. ASSUME NEW c \in Clients, UnloadLeave(c) PROVE TypeOK'
    BY <1>18 DEF UnloadLeave
  <1>19. ASSUME NEW c \in Clients, UnloadLast(c) PROVE TypeOK'
    BY <1>19 DEF UnloadLast, MayUnload, NotifyAll
  <1>20. ASSUME NEW c \in Clients, UnloadClose(c) PROVE TypeOK'
    BY <1>20 DEF UnloadClose, Dlclose
  <1>21. ASSUME NEW c \in Clients, UnloadEnd(c) PROVE TypeOK'
    BY <1>21, EndTyped DEF UnloadEnd, BecomeUnloaded, CloseFailed, KeepHandle, Withdraw,
        NotifyAll
  <1>22. ASSUME NEW c \in Clients, CameraCreate(c) PROVE TypeOK'
    BY <1>22 DEF CameraCreate, ActiveBackend
  <1>23. ASSUME NEW c \in Clients, BackendCreate(c) PROVE TypeOK'
    BY <1>23 DEF BackendCreate
  <1>24. ASSUME NEW c \in Clients, DiscardInstance(c) PROVE TypeOK'
    BY <1>24 DEF DiscardInstance
  <1>25. ASSUME NEW c \in Clients, RecordInstanceCreated(c) PROVE TypeOK'
    BY <1>25 DEF RecordInstanceCreated
  <1>26. ASSUME NEW c \in Clients, CameraDestroy(c) PROVE TypeOK'
    BY <1>26 DEF CameraDestroy
  <1>27. ASSUME NEW c \in Clients, BackendDestroy(c) PROVE TypeOK'
    BY <1>27 DEF BackendDestroy
  <1>28. ASSUME NEW c \in Clients, RecordInstanceDestroyed(c) PROVE TypeOK'
    BY <1>28 DEF RecordInstanceDestroyed, CountDown
  <1>29. ASSUME NEW c \in Clients, NEW p \in Paths, LoadCall(c, p) PROVE TypeOK'
    BY <1>29 DEF LoadCall
  <1>30. ASSUME NEW c \in Clients, NEW d \in Descriptors, RegisterBackend(c, d)
        PROVE TypeOK'
    BY <1>30 DEF RegisterBackend, ValidateBackend
  <1>31. ASSUME NEW c \in Clients, UnloadThrows(c) PROVE TypeOK'
    BY <1>31 DEF UnloadThrows
  <1>32. ASSUME NEW c \in Clients, RegisterThrows(c) PROVE TypeOK'
    BY <1>32 DEF RegisterThrows
  <1> QED
    BY <1>0, <1>1, <1>2, <1>3, <1>4, <1>5, <1>6, <1>7, <1>8, <1>9, <1>10, <1>11, <1>12,
        <1>13, <1>14, <1>15, <1>16, <1>17, <1>18, <1>19, <1>20, <1>21, <1>22, <1>23,
            <1>24, <1>25, <1>26, <1>27, <1>28, <1>29, <1>30, <1>31, <1>32 DEF Next, Call,
                Load, Unload,
                CreateOrDestroy

-----------------------------------------------------------------------------
(* The thread that runs a transition, the references, the module           *)

\* One thread at a time runs a load or an unload, and its place tells the state.
LEMMA TransitionPreserved ==
  ASSUME TypeOK, TransitionInv, Asking, [Next]_vars
  PROVE  TransitionInv'
  <1> USE RuntimeAssumption DEF TypeOK, TransitionInv, Asking, Busy, runtime, At,
      Goto, LoadingAt, UnloadingAt, CreatingAt, DestroyingAt, Settled, Transitional
  <1>0. CASE UNCHANGED vars
    BY <1>0 DEF vars
  <1>1. ASSUME NEW c \in Clients, LoadWait(c) PROVE TransitionInv'
    BY <1>1 DEF LoadWait, Wait
  <1>2. ASSUME NEW c \in Clients, LoadRefused(c) PROVE TransitionInv'
    BY <1>2 DEF LoadRefused
  <1>3. ASSUME NEW c \in Clients, LoadThrows(c) PROVE TransitionInv'
    BY <1>3 DEF LoadThrows
  <1>4. ASSUME NEW c \in Clients, LoadJoin(c) PROVE TransitionInv'
    BY <1>4 DEF LoadJoin, SamePath, BelowLimit
  <1>5. ASSUME NEW c \in Clients, LoadBegin(c) PROVE TransitionInv'
    BY <1>5 DEF LoadBegin, EnterLoading
  <1>6. ASSUME NEW c \in Clients, Dlopen(c) PROVE TransitionInv'
    BY <1>6 DEF Dlopen
  <1>7. ASSUME NEW c \in Clients, ConstructorReturns(c) PROVE TransitionInv'
    BY <1>7 DEF ConstructorReturns
  <1>8. ASSUME NEW c \in Clients, LoadCommit(c) PROVE TransitionInv'
    BY <1>8 DEF LoadCommit, NotifyAll, Registered
  <1>9. ASSUME NEW c \in Clients, LoadReject(c) PROVE TransitionInv'
    BY <1>9 DEF LoadReject
  <1>10. ASSUME NEW c \in Clients, FailWithoutHandle(c) PROVE TransitionInv'
    BY <1>10 DEF FailWithoutHandle, BecomeUnloaded, CloseFailed, KeepHandle, Withdraw,
        ResetThrows,
        ResetLoadedFields,
        NotifyAll
  <1>11. ASSUME NEW c \in Clients, FailBegin(c) PROVE TransitionInv'
    BY <1>11 DEF FailBegin
  <1>12. ASSUME NEW c \in Clients, Fault(c) PROVE TransitionInv'
    BY <1>12 DEF Fault, Withdraw, NotifyAll
  <1>13. ASSUME NEW c \in Clients, FailClose(c) PROVE TransitionInv'
    BY <1>13 DEF FailClose, Dlclose
  <1>14. ASSUME NEW c \in Clients, FailEnd(c) PROVE TransitionInv'
    BY <1>14 DEF FailEnd, BecomeUnloaded, CloseFailed, KeepHandle, Withdraw, ResetThrows,
        ResetLoadedFields, NotifyAll
  <1>15. ASSUME NEW c \in Clients, UnloadCall(c) PROVE TransitionInv'
    BY <1>15 DEF UnloadCall
  <1>16. ASSUME NEW c \in Clients, UnloadWait(c) PROVE TransitionInv'
    BY <1>16 DEF UnloadWait, Wait
  <1>17. ASSUME NEW c \in Clients, UnloadRefused(c) PROVE TransitionInv'
    BY <1>17 DEF UnloadRefused
  <1>18. ASSUME NEW c \in Clients, UnloadLeave(c) PROVE TransitionInv'
    BY <1>18 DEF UnloadLeave
  <1>19. ASSUME NEW c \in Clients, UnloadLast(c) PROVE TransitionInv'
    BY <1>19 DEF UnloadLast, MayUnload, NotifyAll
  <1>20. ASSUME NEW c \in Clients, UnloadClose(c) PROVE TransitionInv'
    BY <1>20 DEF UnloadClose, Dlclose
  <1>21. ASSUME NEW c \in Clients, UnloadEnd(c) PROVE TransitionInv'
    BY <1>21 DEF UnloadEnd, BecomeUnloaded, CloseFailed, KeepHandle, Withdraw, ResetThrows,
        ResetLoadedFields, NotifyAll
  <1>22. ASSUME NEW c \in Clients, CameraCreate(c) PROVE TransitionInv'
    BY <1>22 DEF CameraCreate, ActiveBackend
  <1>23. ASSUME NEW c \in Clients, BackendCreate(c) PROVE TransitionInv'
    BY <1>23 DEF BackendCreate
  <1>24. ASSUME NEW c \in Clients, DiscardInstance(c) PROVE TransitionInv'
    BY <1>24 DEF DiscardInstance
  <1>25. ASSUME NEW c \in Clients, RecordInstanceCreated(c) PROVE TransitionInv'
    BY <1>25 DEF RecordInstanceCreated
  <1>26. ASSUME NEW c \in Clients, CameraDestroy(c) PROVE TransitionInv'
    BY <1>26 DEF CameraDestroy
  <1>27. ASSUME NEW c \in Clients, BackendDestroy(c) PROVE TransitionInv'
    BY <1>27 DEF BackendDestroy
  <1>28. ASSUME NEW c \in Clients, RecordInstanceDestroyed(c) PROVE TransitionInv'
    BY <1>28 DEF RecordInstanceDestroyed, CountDown
  <1>29. ASSUME NEW c \in Clients, NEW p \in Paths, LoadCall(c, p) PROVE TransitionInv'
    BY <1>29 DEF LoadCall
  <1>30. ASSUME NEW c \in Clients, NEW d \in Descriptors, RegisterBackend(c, d)
        PROVE TransitionInv'
    BY <1>30 DEF RegisterBackend, ValidateBackend
  <1>31. ASSUME NEW c \in Clients, UnloadThrows(c) PROVE TransitionInv'
    BY <1>31 DEF UnloadThrows
  <1>32. ASSUME NEW c \in Clients, RegisterThrows(c) PROVE TransitionInv'
    BY <1>32 DEF RegisterThrows
  <1> QED
    BY <1>0, <1>1, <1>2, <1>3, <1>4, <1>5, <1>6, <1>7, <1>8, <1>9, <1>10, <1>11, <1>12,
        <1>13, <1>14, <1>15, <1>16, <1>17, <1>18, <1>19, <1>20, <1>21, <1>22, <1>23,
            <1>24, <1>25, <1>26, <1>27, <1>28, <1>29, <1>30, <1>31, <1>32 DEF Next, Call,
                Load, Unload,
                CreateOrDestroy

\* A client inside create or unload holds a reference of its own.
LEMMA ReferencePreserved ==
  ASSUME TypeOK, TransitionInv, ReferenceInv, OwnReference, [Next]_vars
  PROVE  ReferenceInv'
  <1> USE RuntimeAssumption DEF TypeOK, TransitionInv, ReferenceInv, runtime, At, Goto,
      LoadingAt, UnloadingAt, CreatingAt, DestroyingAt, Settled, Transitional
  <1>0. CASE UNCHANGED vars
    BY <1>0 DEF vars
  <1>1. ASSUME NEW c \in Clients, LoadWait(c) PROVE ReferenceInv'
    BY <1>1 DEF LoadWait, Wait
  <1>2. ASSUME NEW c \in Clients, LoadRefused(c) PROVE ReferenceInv'
    BY <1>2 DEF LoadRefused
  <1>3. ASSUME NEW c \in Clients, LoadThrows(c) PROVE ReferenceInv'
    BY <1>3 DEF LoadThrows
  <1>4. ASSUME NEW c \in Clients, LoadJoin(c) PROVE ReferenceInv'
    BY <1>4 DEF LoadJoin, SamePath, BelowLimit
  <1>5. ASSUME NEW c \in Clients, LoadBegin(c) PROVE ReferenceInv'
    BY <1>5 DEF LoadBegin, EnterLoading
  <1>6. ASSUME NEW c \in Clients, Dlopen(c) PROVE ReferenceInv'
    BY <1>6 DEF Dlopen
  <1>7. ASSUME NEW c \in Clients, ConstructorReturns(c) PROVE ReferenceInv'
    BY <1>7 DEF ConstructorReturns
  <1>8. ASSUME NEW c \in Clients, LoadCommit(c) PROVE ReferenceInv'
    BY <1>8 DEF LoadCommit, NotifyAll, Registered
  <1>9. ASSUME NEW c \in Clients, LoadReject(c) PROVE ReferenceInv'
    BY <1>9 DEF LoadReject
  <1>10. ASSUME NEW c \in Clients, FailWithoutHandle(c) PROVE ReferenceInv'
    BY <1>10 DEF FailWithoutHandle, BecomeUnloaded, CloseFailed, KeepHandle, Withdraw,
        ResetThrows,
        ResetLoadedFields,
        NotifyAll
  <1>11. ASSUME NEW c \in Clients, FailBegin(c) PROVE ReferenceInv'
    BY <1>11 DEF FailBegin
  <1>12. ASSUME NEW c \in Clients, Fault(c) PROVE ReferenceInv'
    BY <1>12 DEF Fault, Withdraw, NotifyAll
  <1>13. ASSUME NEW c \in Clients, FailClose(c) PROVE ReferenceInv'
    BY <1>13 DEF FailClose, Dlclose
  <1>14. ASSUME NEW c \in Clients, FailEnd(c) PROVE ReferenceInv'
    BY <1>14 DEF FailEnd, BecomeUnloaded, CloseFailed, KeepHandle, Withdraw, ResetThrows,
        ResetLoadedFields, NotifyAll
  <1>15. ASSUME NEW c \in Clients, UnloadCall(c) PROVE ReferenceInv'
    BY <1>15 DEF UnloadCall
  <1>16. ASSUME NEW c \in Clients, UnloadWait(c) PROVE ReferenceInv'
    BY <1>16 DEF UnloadWait, Wait
  <1>17. ASSUME NEW c \in Clients, UnloadRefused(c) PROVE ReferenceInv'
    BY <1>17 DEF UnloadRefused
  <1>18. ASSUME NEW c \in Clients, UnloadLeave(c) PROVE ReferenceInv'
    BY <1>18 DEF UnloadLeave
  <1>19. ASSUME NEW c \in Clients, UnloadLast(c) PROVE ReferenceInv'
    BY <1>19 DEF UnloadLast, MayUnload, NotifyAll
  <1>20. ASSUME NEW c \in Clients, UnloadClose(c) PROVE ReferenceInv'
    BY <1>20 DEF UnloadClose, Dlclose
  <1>21. ASSUME NEW c \in Clients, UnloadEnd(c) PROVE ReferenceInv'
    BY <1>21 DEF UnloadEnd, BecomeUnloaded, CloseFailed, KeepHandle, Withdraw, ResetThrows,
        ResetLoadedFields, NotifyAll
  <1>22. ASSUME NEW c \in Clients, CameraCreate(c) PROVE ReferenceInv'
    BY <1>22 DEF CameraCreate, ActiveBackend
  <1>23. ASSUME NEW c \in Clients, BackendCreate(c) PROVE ReferenceInv'
    BY <1>23 DEF BackendCreate
  <1>24. ASSUME NEW c \in Clients, DiscardInstance(c) PROVE ReferenceInv'
    BY <1>24 DEF DiscardInstance
  <1>25. ASSUME NEW c \in Clients, RecordInstanceCreated(c) PROVE ReferenceInv'
    BY <1>25 DEF RecordInstanceCreated
  <1>26. ASSUME NEW c \in Clients, CameraDestroy(c) PROVE ReferenceInv'
    BY <1>26 DEF CameraDestroy
  <1>27. ASSUME NEW c \in Clients, BackendDestroy(c) PROVE ReferenceInv'
    BY <1>27 DEF BackendDestroy
  <1>28. ASSUME NEW c \in Clients, RecordInstanceDestroyed(c) PROVE ReferenceInv'
    BY <1>28 DEF RecordInstanceDestroyed, CountDown
  <1>29. ASSUME NEW c \in Clients, NEW p \in Paths, LoadCall(c, p) PROVE ReferenceInv'
    BY <1>29 DEF LoadCall
  <1>30. ASSUME NEW c \in Clients, NEW d \in Descriptors, RegisterBackend(c, d)
        PROVE ReferenceInv'
    BY <1>30 DEF RegisterBackend, ValidateBackend
  <1>31. ASSUME NEW c \in Clients, UnloadThrows(c) PROVE ReferenceInv'
    BY <1>31 DEF UnloadThrows
  <1>32. ASSUME NEW c \in Clients, RegisterThrows(c) PROVE ReferenceInv'
    BY <1>32 DEF RegisterThrows
  <1> QED
    BY <1>0, <1>1, <1>2, <1>3, <1>4, <1>5, <1>6, <1>7, <1>8, <1>9, <1>10, <1>11, <1>12,
        <1>13, <1>14, <1>15, <1>16, <1>17, <1>18, <1>19, <1>20, <1>21, <1>22, <1>23,
            <1>24, <1>25, <1>26, <1>27, <1>28, <1>29, <1>30, <1>31, <1>32 DEF Next, Call,
                Load, Unload,
                CreateOrDestroy

\* A loaded runtime publishes the table of the mapped module whose handle it holds.
LEMMA ModulePreserved ==
  ASSUME TypeOK, TransitionInv, ModuleInv, [Next]_vars
  PROVE  ModuleInv'
  <1> USE RuntimeAssumption DEF TypeOK, TransitionInv, ModuleInv, Busy, runtime, At,
      Goto, LoadingAt, UnloadingAt, CreatingAt, DestroyingAt, Settled, Transitional
  <1>0. CASE UNCHANGED vars
    BY <1>0 DEF vars
  <1>1. ASSUME NEW c \in Clients, LoadWait(c) PROVE ModuleInv'
    BY <1>1 DEF LoadWait, Wait
  <1>2. ASSUME NEW c \in Clients, LoadRefused(c) PROVE ModuleInv'
    BY <1>2 DEF LoadRefused
  <1>3. ASSUME NEW c \in Clients, LoadThrows(c) PROVE ModuleInv'
    BY <1>3 DEF LoadThrows
  <1>4. ASSUME NEW c \in Clients, LoadJoin(c) PROVE ModuleInv'
    BY <1>4 DEF LoadJoin, SamePath, BelowLimit
  <1>5. ASSUME NEW c \in Clients, LoadBegin(c) PROVE ModuleInv'
    BY <1>5 DEF LoadBegin, EnterLoading
  <1>6. ASSUME NEW c \in Clients, Dlopen(c) PROVE ModuleInv'
    BY <1>6 DEF Dlopen
  <1>7. ASSUME NEW c \in Clients, ConstructorReturns(c) PROVE ModuleInv'
    BY <1>7 DEF ConstructorReturns
  <1>8. ASSUME NEW c \in Clients, LoadCommit(c) PROVE ModuleInv'
    BY <1>8 DEF LoadCommit, NotifyAll, Registered
  <1>9. ASSUME NEW c \in Clients, LoadReject(c) PROVE ModuleInv'
    BY <1>9 DEF LoadReject
  <1>10. ASSUME NEW c \in Clients, FailWithoutHandle(c) PROVE ModuleInv'
    BY <1>10 DEF FailWithoutHandle, BecomeUnloaded, CloseFailed, KeepHandle, Withdraw,
        ResetThrows,
        ResetLoadedFields,
        NotifyAll
  <1>11. ASSUME NEW c \in Clients, FailBegin(c) PROVE ModuleInv'
    BY <1>11 DEF FailBegin
  <1>12. ASSUME NEW c \in Clients, Fault(c) PROVE ModuleInv'
    BY <1>12 DEF Fault, Withdraw, NotifyAll
  <1>13. ASSUME NEW c \in Clients, FailClose(c) PROVE ModuleInv'
    BY <1>13 DEF FailClose, Dlclose
  <1>14. ASSUME NEW c \in Clients, FailEnd(c) PROVE ModuleInv'
    BY <1>14 DEF FailEnd, BecomeUnloaded, CloseFailed, KeepHandle, Withdraw, ResetThrows,
        ResetLoadedFields, NotifyAll
  <1>15. ASSUME NEW c \in Clients, UnloadCall(c) PROVE ModuleInv'
    BY <1>15 DEF UnloadCall
  <1>16. ASSUME NEW c \in Clients, UnloadWait(c) PROVE ModuleInv'
    BY <1>16 DEF UnloadWait, Wait
  <1>17. ASSUME NEW c \in Clients, UnloadRefused(c) PROVE ModuleInv'
    BY <1>17 DEF UnloadRefused
  <1>18. ASSUME NEW c \in Clients, UnloadLeave(c) PROVE ModuleInv'
    BY <1>18 DEF UnloadLeave
  <1>19. ASSUME NEW c \in Clients, UnloadLast(c) PROVE ModuleInv'
    BY <1>19 DEF UnloadLast, MayUnload, NotifyAll
  <1>20. ASSUME NEW c \in Clients, UnloadClose(c) PROVE ModuleInv'
    BY <1>20 DEF UnloadClose, Dlclose
  <1>21. ASSUME NEW c \in Clients, UnloadEnd(c) PROVE ModuleInv'
    BY <1>21 DEF UnloadEnd, BecomeUnloaded, CloseFailed, KeepHandle, Withdraw, ResetThrows,
        ResetLoadedFields, NotifyAll
  <1>22. ASSUME NEW c \in Clients, CameraCreate(c) PROVE ModuleInv'
    BY <1>22 DEF CameraCreate, ActiveBackend
  <1>23. ASSUME NEW c \in Clients, BackendCreate(c) PROVE ModuleInv'
    BY <1>23 DEF BackendCreate
  <1>24. ASSUME NEW c \in Clients, DiscardInstance(c) PROVE ModuleInv'
    BY <1>24 DEF DiscardInstance
  <1>25. ASSUME NEW c \in Clients, RecordInstanceCreated(c) PROVE ModuleInv'
    BY <1>25 DEF RecordInstanceCreated
  <1>26. ASSUME NEW c \in Clients, CameraDestroy(c) PROVE ModuleInv'
    BY <1>26 DEF CameraDestroy
  <1>27. ASSUME NEW c \in Clients, BackendDestroy(c) PROVE ModuleInv'
    BY <1>27 DEF BackendDestroy
  <1>28. ASSUME NEW c \in Clients, RecordInstanceDestroyed(c) PROVE ModuleInv'
    BY <1>28 DEF RecordInstanceDestroyed, CountDown
  <1>29. ASSUME NEW c \in Clients, NEW p \in Paths, LoadCall(c, p) PROVE ModuleInv'
    BY <1>29 DEF LoadCall
  <1>30. ASSUME NEW c \in Clients, NEW d \in Descriptors, RegisterBackend(c, d)
        PROVE ModuleInv'
    BY <1>30 DEF RegisterBackend, ValidateBackend
  <1>31. ASSUME NEW c \in Clients, UnloadThrows(c) PROVE ModuleInv'
    BY <1>31 DEF UnloadThrows
  <1>32. ASSUME NEW c \in Clients, RegisterThrows(c) PROVE ModuleInv'
    BY <1>32 DEF RegisterThrows
  <1> QED
    BY <1>0, <1>1, <1>2, <1>3, <1>4, <1>5, <1>6, <1>7, <1>8, <1>9, <1>10, <1>11, <1>12,
        <1>13, <1>14, <1>15, <1>16, <1>17, <1>18, <1>19, <1>20, <1>21, <1>22, <1>23,
            <1>24, <1>25, <1>26, <1>27, <1>28, <1>29, <1>30, <1>31, <1>32 DEF Next, Call,
                Load, Unload,
                CreateOrDestroy

-----------------------------------------------------------------------------
(* The callbacks clients call through                                      *)

\* Both counted sets are finite.
LEMMA FiniteSets ==
  ASSUME TypeOK
  PROVE  IsFiniteSet(refs) /\ IsFiniteSet(Cameras)
  BY RuntimeAssumption, FS_Subset DEF TypeOK, Cameras

\* The last reference is the caller's, nobody owns a camera and nobody is inside
\* create: when an unload may close the module, no client can call through its table.
LEMMA LastReference ==
  ASSUME TypeOK, ReferenceInv, ReferencesCounted, NEW c \in Clients, At(c, "unload"),
      MayUnload
  PROVE  refs = {c} /\ \A d \in Clients : operations[d] = NULL
  <1>1. refs = {c}
    <2>1. PICK d : refs = {d}
      BY FiniteSets, FS_Singleton DEF MayUnload, ReferencesCounted
    <2>2. c \in refs
      BY DEF ReferenceInv, At
    <2> QED
      BY <2>1, <2>2
  <1>2. Cameras = {}
    BY FiniteSets, FS_EmptySet DEF MayUnload, ReferencesCounted
  <1>3. ASSUME NEW d \in Clients, operations[d] # NULL
        PROVE  FALSE
    <2>1. pc[d] \in CreatingAt
      BY <1>2, <1>3 DEF Cameras
    <2>2. d = c
      BY <1>1, <2>1 DEF ReferenceInv
    <2> QED
      BY <2>1, <2>2 DEF At, CreatingAt
  <1> QED
    BY <1>1, <1>3

\* No section takes the module away from a client that may call through its table.
LEMMA CodePreserved ==
  ASSUME TypeOK, TransitionInv, ReferenceInv, ModuleInv, ReferencesCounted,
      BackendCodeMapped, [Next]_vars
  PROVE  BackendCodeMapped'
  <1> USE RuntimeAssumption DEF TypeOK, TransitionInv, BackendCodeMapped, ModuleInv,
      runtime, At, Goto, LoadingAt, UnloadingAt, CreatingAt, DestroyingAt, Settled,
          Transitional
  <1>0. CASE UNCHANGED vars
    BY <1>0 DEF vars
  <1>1. ASSUME NEW c \in Clients, LoadWait(c) PROVE BackendCodeMapped'
    BY <1>1 DEF LoadWait, Wait
  <1>2. ASSUME NEW c \in Clients, LoadRefused(c) PROVE BackendCodeMapped'
    BY <1>2 DEF LoadRefused
  <1>3. ASSUME NEW c \in Clients, LoadThrows(c) PROVE BackendCodeMapped'
    BY <1>3 DEF LoadThrows
  <1>4. ASSUME NEW c \in Clients, LoadJoin(c) PROVE BackendCodeMapped'
    BY <1>4 DEF LoadJoin, SamePath, BelowLimit
  <1>5. ASSUME NEW c \in Clients, LoadBegin(c) PROVE BackendCodeMapped'
    BY <1>5 DEF LoadBegin, EnterLoading
  <1>6. ASSUME NEW c \in Clients, Dlopen(c) PROVE BackendCodeMapped'
    BY <1>6 DEF Dlopen
  <1>7. ASSUME NEW c \in Clients, ConstructorReturns(c) PROVE BackendCodeMapped'
    BY <1>7 DEF ConstructorReturns
  <1>8. ASSUME NEW c \in Clients, LoadCommit(c) PROVE BackendCodeMapped'
    BY <1>8 DEF LoadCommit, NotifyAll, Registered
  <1>9. ASSUME NEW c \in Clients, LoadReject(c) PROVE BackendCodeMapped'
    BY <1>9 DEF LoadReject
  <1>10. ASSUME NEW c \in Clients, FailWithoutHandle(c) PROVE BackendCodeMapped'
    BY <1>10 DEF FailWithoutHandle, BecomeUnloaded, CloseFailed, KeepHandle, Withdraw,
        ResetThrows,
        ResetLoadedFields,
        NotifyAll
  <1>11. ASSUME NEW c \in Clients, FailBegin(c) PROVE BackendCodeMapped'
    BY <1>11 DEF FailBegin
  <1>12. ASSUME NEW c \in Clients, Fault(c) PROVE BackendCodeMapped'
    BY <1>12 DEF Fault, Withdraw, NotifyAll
  <1>13. ASSUME NEW c \in Clients, FailClose(c) PROVE BackendCodeMapped'
    BY <1>13 DEF FailClose, Dlclose
  <1>14. ASSUME NEW c \in Clients, FailEnd(c) PROVE BackendCodeMapped'
    BY <1>14 DEF FailEnd, BecomeUnloaded, CloseFailed, KeepHandle, Withdraw, ResetThrows,
        ResetLoadedFields, NotifyAll
  <1>15. ASSUME NEW c \in Clients, UnloadCall(c) PROVE BackendCodeMapped'
    BY <1>15 DEF UnloadCall
  <1>16. ASSUME NEW c \in Clients, UnloadWait(c) PROVE BackendCodeMapped'
    BY <1>16 DEF UnloadWait, Wait
  <1>17. ASSUME NEW c \in Clients, UnloadRefused(c) PROVE BackendCodeMapped'
    BY <1>17 DEF UnloadRefused
  <1>18. ASSUME NEW c \in Clients, UnloadLeave(c) PROVE BackendCodeMapped'
    BY <1>18 DEF UnloadLeave
  <1>19. ASSUME NEW c \in Clients, UnloadLast(c) PROVE BackendCodeMapped'
    BY <1>19, LastReference DEF UnloadLast, MayUnload, NotifyAll
  <1>20. ASSUME NEW c \in Clients, UnloadClose(c) PROVE BackendCodeMapped'
    BY <1>20 DEF UnloadClose, Dlclose
  <1>21. ASSUME NEW c \in Clients, UnloadEnd(c) PROVE BackendCodeMapped'
    BY <1>21 DEF UnloadEnd, BecomeUnloaded, CloseFailed, KeepHandle, Withdraw, ResetThrows,
        ResetLoadedFields, NotifyAll
  <1>22. ASSUME NEW c \in Clients, CameraCreate(c) PROVE BackendCodeMapped'
    BY <1>22 DEF CameraCreate, ActiveBackend
  <1>23. ASSUME NEW c \in Clients, BackendCreate(c) PROVE BackendCodeMapped'
    BY <1>23 DEF BackendCreate
  <1>24. ASSUME NEW c \in Clients, DiscardInstance(c) PROVE BackendCodeMapped'
    BY <1>24 DEF DiscardInstance
  <1>25. ASSUME NEW c \in Clients, RecordInstanceCreated(c) PROVE BackendCodeMapped'
    BY <1>25 DEF RecordInstanceCreated
  <1>26. ASSUME NEW c \in Clients, CameraDestroy(c) PROVE BackendCodeMapped'
    BY <1>26 DEF CameraDestroy
  <1>27. ASSUME NEW c \in Clients, BackendDestroy(c) PROVE BackendCodeMapped'
    BY <1>27 DEF BackendDestroy
  <1>28. ASSUME NEW c \in Clients, RecordInstanceDestroyed(c) PROVE BackendCodeMapped'
    BY <1>28 DEF RecordInstanceDestroyed, CountDown
  <1>29. ASSUME NEW c \in Clients, NEW p \in Paths, LoadCall(c, p) PROVE BackendCodeMapped'
    BY <1>29 DEF LoadCall
  <1>30. ASSUME NEW c \in Clients, NEW d \in Descriptors, RegisterBackend(c, d)
        PROVE BackendCodeMapped'
    BY <1>30 DEF RegisterBackend, ValidateBackend
  <1>31. ASSUME NEW c \in Clients, UnloadThrows(c) PROVE BackendCodeMapped'
    BY <1>31 DEF UnloadThrows
  <1>32. ASSUME NEW c \in Clients, RegisterThrows(c) PROVE BackendCodeMapped'
    BY <1>32 DEF RegisterThrows
  <1> QED
    BY <1>0, <1>1, <1>2, <1>3, <1>4, <1>5, <1>6, <1>7, <1>8, <1>9, <1>10, <1>11, <1>12,
        <1>13, <1>14, <1>15, <1>16, <1>17, <1>18, <1>19, <1>20, <1>21, <1>22, <1>23,
            <1>24, <1>25, <1>26, <1>27, <1>28, <1>29, <1>30, <1>31, <1>32 DEF Next, Call,
                Load, Unload,
                CreateOrDestroy

-----------------------------------------------------------------------------
(* The two counters                                                        *)

\* Only the two recording sections change who owns a counted camera.
LEMMA CamerasStep ==
  ASSUME TypeOK, TransitionInv, ReferenceInv, BackendCodeMapped, [Next]_vars
  PROVE  \/ Cameras' = Cameras
         \/ \E c \in Clients : \/ RecordInstanceCreated(c)
                               \/ RecordInstanceDestroyed(c)
  <1> USE RuntimeAssumption DEF TypeOK, TransitionInv, ReferenceInv, BackendCodeMapped,
      Cameras, runtime, At, Goto, LoadingAt, UnloadingAt, CreatingAt, DestroyingAt,
          Settled, Transitional
  <1>0. CASE UNCHANGED vars
    BY <1>0 DEF vars
  <1>1. ASSUME NEW c \in Clients, LoadWait(c) PROVE Cameras' = Cameras
    BY <1>1 DEF LoadWait, Wait
  <1>2. ASSUME NEW c \in Clients, LoadRefused(c) PROVE Cameras' = Cameras
    BY <1>2 DEF LoadRefused
  <1>3. ASSUME NEW c \in Clients, LoadThrows(c) PROVE Cameras' = Cameras
    BY <1>3 DEF LoadThrows
  <1>4. ASSUME NEW c \in Clients, LoadJoin(c) PROVE Cameras' = Cameras
    BY <1>4 DEF LoadJoin, SamePath, BelowLimit
  <1>5. ASSUME NEW c \in Clients, LoadBegin(c) PROVE Cameras' = Cameras
    BY <1>5 DEF LoadBegin, EnterLoading
  <1>6. ASSUME NEW c \in Clients, Dlopen(c) PROVE Cameras' = Cameras
    BY <1>6 DEF Dlopen
  <1>7. ASSUME NEW c \in Clients, ConstructorReturns(c) PROVE Cameras' = Cameras
    BY <1>7 DEF ConstructorReturns
  <1>8. ASSUME NEW c \in Clients, LoadCommit(c) PROVE Cameras' = Cameras
    BY <1>8 DEF LoadCommit, NotifyAll, Registered
  <1>9. ASSUME NEW c \in Clients, LoadReject(c) PROVE Cameras' = Cameras
    BY <1>9 DEF LoadReject
  <1>10. ASSUME NEW c \in Clients, FailWithoutHandle(c) PROVE Cameras' = Cameras
    BY <1>10 DEF FailWithoutHandle, BecomeUnloaded, CloseFailed, KeepHandle, Withdraw,
        ResetThrows,
        ResetLoadedFields,
        NotifyAll
  <1>11. ASSUME NEW c \in Clients, FailBegin(c) PROVE Cameras' = Cameras
    BY <1>11 DEF FailBegin
  <1>12. ASSUME NEW c \in Clients, Fault(c) PROVE Cameras' = Cameras
    BY <1>12 DEF Fault, Withdraw, NotifyAll
  <1>13. ASSUME NEW c \in Clients, FailClose(c) PROVE Cameras' = Cameras
    BY <1>13 DEF FailClose, Dlclose
  <1>14. ASSUME NEW c \in Clients, FailEnd(c) PROVE Cameras' = Cameras
    BY <1>14 DEF FailEnd, BecomeUnloaded, CloseFailed, KeepHandle, Withdraw, ResetThrows,
        ResetLoadedFields, NotifyAll
  <1>15. ASSUME NEW c \in Clients, UnloadCall(c) PROVE Cameras' = Cameras
    BY <1>15 DEF UnloadCall
  <1>16. ASSUME NEW c \in Clients, UnloadWait(c) PROVE Cameras' = Cameras
    BY <1>16 DEF UnloadWait, Wait
  <1>17. ASSUME NEW c \in Clients, UnloadRefused(c) PROVE Cameras' = Cameras
    BY <1>17 DEF UnloadRefused
  <1>18. ASSUME NEW c \in Clients, UnloadLeave(c) PROVE Cameras' = Cameras
    BY <1>18 DEF UnloadLeave
  <1>19. ASSUME NEW c \in Clients, UnloadLast(c) PROVE Cameras' = Cameras
    BY <1>19 DEF UnloadLast, MayUnload, NotifyAll
  <1>20. ASSUME NEW c \in Clients, UnloadClose(c) PROVE Cameras' = Cameras
    BY <1>20 DEF UnloadClose, Dlclose
  <1>21. ASSUME NEW c \in Clients, UnloadEnd(c) PROVE Cameras' = Cameras
    BY <1>21 DEF UnloadEnd, BecomeUnloaded, CloseFailed, KeepHandle, Withdraw, ResetThrows,
        ResetLoadedFields, NotifyAll
  <1>22. ASSUME NEW c \in Clients, CameraCreate(c) PROVE Cameras' = Cameras
    BY <1>22 DEF CameraCreate, ActiveBackend
  <1>23. ASSUME NEW c \in Clients, BackendCreate(c) PROVE Cameras' = Cameras
    BY <1>23 DEF BackendCreate
  <1>24. ASSUME NEW c \in Clients, DiscardInstance(c) PROVE Cameras' = Cameras
    BY <1>24 DEF DiscardInstance
  <1>26. ASSUME NEW c \in Clients, CameraDestroy(c) PROVE Cameras' = Cameras
    BY <1>26 DEF CameraDestroy
  <1>27. ASSUME NEW c \in Clients, BackendDestroy(c) PROVE Cameras' = Cameras
    BY <1>27 DEF BackendDestroy
  <1>29. ASSUME NEW c \in Clients, NEW p \in Paths, LoadCall(c, p) PROVE Cameras' = Cameras
    BY <1>29 DEF LoadCall
  <1>30. ASSUME NEW c \in Clients, NEW d \in Descriptors, RegisterBackend(c, d)
        PROVE Cameras' = Cameras
    BY <1>30 DEF RegisterBackend, ValidateBackend
  <1>31. ASSUME NEW c \in Clients, UnloadThrows(c) PROVE Cameras' = Cameras
    BY <1>31 DEF UnloadThrows
  <1>32. ASSUME NEW c \in Clients, RegisterThrows(c) PROVE Cameras' = Cameras
    BY <1>32 DEF RegisterThrows
  <1> QED
    BY <1>0, <1>1, <1>2, <1>3, <1>4, <1>5, <1>6, <1>7, <1>8, <1>9, <1>10, <1>11, <1>12,
        <1>13, <1>14, <1>15, <1>16, <1>17, <1>18, <1>19, <1>20, <1>21, <1>22, <1>23,
            <1>24, <1>26, <1>27, <1>29, <1>30, <1>31, <1>32 DEF Next, Call, Load, Unload,
                CreateOrDestroy

\* record_instance_created adds its caller to the counted cameras,
LEMMA CameraRecorded ==
  ASSUME TypeOK, ReferenceInv, NEW c \in Clients, RecordInstanceCreated(c)
  PROVE  c \notin Cameras /\ Cameras' = Cameras \cup {c}
  BY DEF TypeOK, ReferenceInv, RecordInstanceCreated, Cameras, At, Goto, CreatingAt,
      DestroyingAt

\* and record_instance_destroyed removes it.
LEMMA CameraForgotten ==
  ASSUME TypeOK, ReferenceInv, NEW c \in Clients, RecordInstanceDestroyed(c)
  PROVE  c \in Cameras /\ Cameras' = Cameras \ {c}
  BY DEF TypeOK, ReferenceInv, RecordInstanceDestroyed, Cameras, At, Goto, CreatingAt,
      DestroyingAt

\* Outside Loaded nobody holds a reference or owns a camera.
LEMMA NothingHeld ==
  ASSUME TypeOK, ReferencesCounted, BackendCodeMapped, state # "Loaded"
  PROVE  refs = {} /\ Cameras = {}
  BY DEF ReferencesCounted, BackendCodeMapped, Cameras

\* live_instance_count stays the number of cameras.
LEMMA LiveCounted ==
  ASSUME TypeOK, TransitionInv, ReferenceInv, ReferencesCounted, BackendCodeMapped,
         [Next]_vars
  PROVE  live_instance_count' = Cardinality(Cameras')
  <1>1. CASE \E c \in Clients : RecordInstanceCreated(c)
    <2>1. PICK c \in Clients : RecordInstanceCreated(c)
      BY <1>1
    <2>2. Cardinality(Cameras') = Cardinality(Cameras) + 1
      BY <2>1, CameraRecorded, FiniteSets, FS_AddElement
    <2> QED
      BY <2>1, <2>2 DEF RecordInstanceCreated, ReferencesCounted
  <1>2. CASE \E c \in Clients : RecordInstanceDestroyed(c)
    <2>1. PICK c \in Clients : RecordInstanceDestroyed(c)
      BY <1>2
    <2>2. /\ Cardinality(Cameras') = Cardinality(Cameras) - 1
          /\ Cameras # {}
      BY <2>1, CameraForgotten, FiniteSets, FS_RemoveElement
    <2>3. live_instance_count > 0
      BY <2>2, FiniteSets, FS_EmptySet DEF ReferencesCounted, TypeOK
    <2> QED
      BY <2>1, <2>2, <2>3 DEF RecordInstanceDestroyed, CountDown, ReferencesCounted
  <1>3. CASE /\ ~ \E c \in Clients : RecordInstanceCreated(c) \/ RecordInstanceDestroyed(c)
             /\ live_instance_count' = live_instance_count
    BY <1>3, CamerasStep DEF ReferencesCounted
  <1>4. CASE /\ live_instance_count' # live_instance_count
             /\ ~ \E c \in Clients : RecordInstanceCreated(c) \/ RecordInstanceDestroyed(c)
    <2>1. state # "Loaded"
      <3> USE DEF vars, runtime, TransitionInv, LoadingAt, UnloadingAt, At, Settled,
          Transitional
      <3>1. ASSUME NEW c \in Clients, Load(c) PROVE state # "Loaded"
        BY <3>1, <1>4 DEF Load, LoadWait, LoadRefused, LoadThrows, LoadJoin, LoadBegin,
             Dlopen, ConstructorReturns, LoadCommit, LoadReject, FailWithoutHandle,
                 FailBegin,
             Fault, FailClose, FailEnd, Wait, Dlclose
      <3>2. ASSUME NEW c \in Clients, Unload(c) PROVE state # "Loaded"
        BY <3>2, <1>4 DEF Unload, UnloadWait, UnloadRefused, UnloadLeave, UnloadThrows,
             UnloadLast, UnloadClose, UnloadEnd, Wait, Dlclose
      <3> QED
        BY <3>1, <3>2, <1>4 DEF Next, Call, LoadCall, UnloadCall, CameraCreate,
            CameraDestroy,
             CreateOrDestroy, BackendCreate, DiscardInstance, BackendDestroy,
                 RegisterThrows, RegisterBackend
    <2>2. Cameras = {} /\ live_instance_count = 0
      BY <2>1, NothingHeld, FS_EmptySet DEF ReferencesCounted
    <2>3. live_instance_count' = 0
      <3> USE DEF vars, runtime
      <3>1. ASSUME NEW c \in Clients, Load(c) PROVE live_instance_count' = 0
        BY <3>1, <1>4 DEF Load, LoadWait, LoadRefused, LoadThrows, LoadJoin, LoadBegin,
             Dlopen, ConstructorReturns, LoadCommit, LoadReject, FailWithoutHandle,
                 FailBegin,
             Fault, FailClose, FailEnd, Wait, Dlclose, BecomeUnloaded,
                 CloseFailed, KeepHandle, Withdraw, ResetThrows,
             ResetLoadedFields
      <3>2. ASSUME NEW c \in Clients, Unload(c) PROVE live_instance_count' = 0
        BY <3>2, <1>4 DEF Unload, UnloadWait, UnloadRefused, UnloadLeave, UnloadThrows,
             UnloadLast, UnloadClose, UnloadEnd, Wait, Dlclose, BecomeUnloaded,
                 CloseFailed, KeepHandle, Withdraw, ResetThrows,
             ResetLoadedFields
      <3> QED
        BY <3>1, <3>2, <1>4 DEF Next, Call, LoadCall, UnloadCall, CameraCreate,
            CameraDestroy,
             CreateOrDestroy, BackendCreate, DiscardInstance, BackendDestroy,
                 RegisterThrows, RegisterBackend
    <2> QED
      BY <2>2, <2>3, <1>4, CamerasStep, FS_EmptySet
  <1> QED
    BY <1>1, <1>2, <1>3, <1>4

\* The part of ReferencesCounted about the references.
ClientsCounted ==
  /\ client_count = Cardinality(refs)
  /\ refs # {} <=> state = "Loaded"

\* client_count stays the number of references, and references exist just in Loaded.
LEMMA ClientsCountedPreserved ==
  ASSUME TypeOK, TransitionInv, ReferenceInv, ModuleInv, ReferencesCounted,
      BackendCodeMapped, [Next]_vars
  PROVE  ClientsCounted'
  <1> USE RuntimeAssumption DEF TypeOK, TransitionInv, ReferenceInv, ModuleInv,
      ReferencesCounted, ClientsCounted, runtime, At, Goto, LoadingAt, UnloadingAt,
          Settled, Transitional
  <1>0. CASE UNCHANGED vars
    BY <1>0 DEF vars
  <1>1. ASSUME NEW c \in Clients, LoadWait(c) PROVE ClientsCounted'
    BY <1>1 DEF LoadWait, Wait
  <1>2. ASSUME NEW c \in Clients, LoadRefused(c) PROVE ClientsCounted'
    BY <1>2 DEF LoadRefused
  <1>3. ASSUME NEW c \in Clients, LoadThrows(c) PROVE ClientsCounted'
    BY <1>3 DEF LoadThrows
  <1>4. ASSUME NEW c \in Clients, LoadJoin(c) PROVE ClientsCounted'
    BY <1>4, FiniteSets, FS_AddElement, FS_EmptySet DEF LoadJoin, SamePath, BelowLimit
  <1>5. ASSUME NEW c \in Clients, LoadBegin(c) PROVE ClientsCounted'
    BY <1>5 DEF LoadBegin, EnterLoading
  <1>6. ASSUME NEW c \in Clients, Dlopen(c) PROVE ClientsCounted'
    BY <1>6 DEF Dlopen
  <1>7. ASSUME NEW c \in Clients, ConstructorReturns(c) PROVE ClientsCounted'
    BY <1>7 DEF ConstructorReturns
  <1>8. ASSUME NEW c \in Clients, LoadCommit(c) PROVE ClientsCounted'
    <2>1. refs' = {c}
      BY <1>8, NothingHeld DEF LoadCommit
    <2>2. Cardinality(refs') = 1
      BY <2>1, FS_Singleton
    <2> QED
      BY <1>8, <2>1, <2>2 DEF LoadCommit
  <1>9. ASSUME NEW c \in Clients, LoadReject(c) PROVE ClientsCounted'
    BY <1>9 DEF LoadReject
  <1>10. ASSUME NEW c \in Clients, FailWithoutHandle(c) PROVE ClientsCounted'
    BY <1>10, NothingHeld, FS_EmptySet DEF FailWithoutHandle, BecomeUnloaded,
        CloseFailed, KeepHandle, Withdraw, ResetThrows, ResetLoadedFields, NotifyAll
  <1>11. ASSUME NEW c \in Clients, FailBegin(c) PROVE ClientsCounted'
    BY <1>11, NothingHeld, FS_EmptySet DEF FailBegin
  <1>12. ASSUME NEW c \in Clients, Fault(c) PROVE ClientsCounted'
    BY <1>12, NothingHeld, FS_EmptySet DEF Fault, Withdraw, NotifyAll
  <1>13. ASSUME NEW c \in Clients, FailClose(c) PROVE ClientsCounted'
    BY <1>13 DEF FailClose, Dlclose
  <1>14. ASSUME NEW c \in Clients, FailEnd(c) PROVE ClientsCounted'
    BY <1>14, NothingHeld, FS_EmptySet DEF FailEnd, BecomeUnloaded, CloseFailed,
        KeepHandle, Withdraw, ResetThrows,
        ResetLoadedFields, NotifyAll
  <1>15. ASSUME NEW c \in Clients, UnloadCall(c) PROVE ClientsCounted'
    BY <1>15 DEF UnloadCall
  <1>16. ASSUME NEW c \in Clients, UnloadWait(c) PROVE ClientsCounted'
    BY <1>16 DEF UnloadWait, Wait
  <1>17. ASSUME NEW c \in Clients, UnloadRefused(c) PROVE ClientsCounted'
    BY <1>17 DEF UnloadRefused
  <1>18. ASSUME NEW c \in Clients, UnloadLeave(c) PROVE ClientsCounted'
    <2>1. Cardinality(refs') = Cardinality(refs) - 1 /\ IsFiniteSet(refs')
      BY <1>18, FiniteSets, FS_RemoveElement DEF UnloadLeave
    <2>2. client_count' = Cardinality(refs') /\ Cardinality(refs') # 0
      BY <1>18, <2>1 DEF UnloadLeave
    <2>3. refs' # {}
      BY <2>1, <2>2, FS_EmptySet
    <2> QED
      BY <1>18, <2>2, <2>3 DEF UnloadLeave
  <1>19. ASSUME NEW c \in Clients, UnloadLast(c) PROVE ClientsCounted'
    BY <1>19, LastReference, FS_EmptySet DEF UnloadLast, MayUnload, NotifyAll
  <1>20. ASSUME NEW c \in Clients, UnloadClose(c) PROVE ClientsCounted'
    BY <1>20 DEF UnloadClose, Dlclose
  <1>21. ASSUME NEW c \in Clients, UnloadEnd(c) PROVE ClientsCounted'
    BY <1>21, NothingHeld, FS_EmptySet DEF UnloadEnd, BecomeUnloaded, CloseFailed,
        KeepHandle, Withdraw, ResetThrows,
        ResetLoadedFields, NotifyAll
  <1>22. ASSUME NEW c \in Clients, CameraCreate(c) PROVE ClientsCounted'
    BY <1>22 DEF CameraCreate, ActiveBackend
  <1>23. ASSUME NEW c \in Clients, BackendCreate(c) PROVE ClientsCounted'
    BY <1>23 DEF BackendCreate
  <1>24. ASSUME NEW c \in Clients, DiscardInstance(c) PROVE ClientsCounted'
    BY <1>24 DEF DiscardInstance
  <1>25. ASSUME NEW c \in Clients, RecordInstanceCreated(c) PROVE ClientsCounted'
    BY <1>25 DEF RecordInstanceCreated
  <1>26. ASSUME NEW c \in Clients, CameraDestroy(c) PROVE ClientsCounted'
    BY <1>26 DEF CameraDestroy
  <1>27. ASSUME NEW c \in Clients, BackendDestroy(c) PROVE ClientsCounted'
    BY <1>27 DEF BackendDestroy
  <1>28. ASSUME NEW c \in Clients, RecordInstanceDestroyed(c) PROVE ClientsCounted'
    BY <1>28 DEF RecordInstanceDestroyed, CountDown
  <1>29. ASSUME NEW c \in Clients, NEW p \in Paths, LoadCall(c, p) PROVE ClientsCounted'
    BY <1>29 DEF LoadCall
  <1>30. ASSUME NEW c \in Clients, NEW d \in Descriptors, RegisterBackend(c, d)
        PROVE ClientsCounted'
    BY <1>30 DEF RegisterBackend, ValidateBackend
  <1>31. ASSUME NEW c \in Clients, UnloadThrows(c) PROVE ClientsCounted'
    BY <1>31 DEF UnloadThrows
  <1>32. ASSUME NEW c \in Clients, RegisterThrows(c) PROVE ClientsCounted'
    BY <1>32 DEF RegisterThrows
  <1> QED
    BY <1>0, <1>1, <1>2, <1>3, <1>4, <1>5, <1>6, <1>7, <1>8, <1>9, <1>10, <1>11, <1>12,
        <1>13, <1>14, <1>15, <1>16, <1>17, <1>18, <1>19, <1>20, <1>21, <1>22, <1>23,
            <1>24, <1>25, <1>26, <1>27, <1>28, <1>29, <1>30, <1>31, <1>32 DEF Next, Call,
                Load, Unload,
                CreateOrDestroy

-----------------------------------------------------------------------------
(* Any caller: what holds without the discipline of CameraSession          *)

\* A transition has its thread, and the handle follows it: there is none before
\* a load is over, the thread that closes one closes the recorded one, and then
\* nothing is mapped but what cannot be unmapped.
HandleInv ==
  /\ Transitional => \E c \in Clients : Busy(c)
  /\ state \in {"Unloaded", "Loading"} => module_handle = NULL
  /\ \A c \in Clients :
       /\ pc[c] \in {"fail_close", "fail_closed", "fail_kept", "fault_caught"} =>
            module_handle = path[c]
       /\ pc[c] = "fail_caught" => module_handle = path[c] \/ mapped \subseteq Pinned
       /\ pc[c] \in {"fail_closed", "unload_closed"} => mapped \subseteq Pinned

\* The part of NoModuleLeaked about what is mapped.
MappedKnown ==
  \A p \in mapped \ Pinned :
     \/ p = module_handle
     \/ \E c \in Clients : pc[c] \in {"constructor", "opened", "rejected"} /\ path[c] = p

\* The inductive invariant for any caller.
AnyInv == TypeOK /\ TransitionInv /\ Asking /\ ModuleInv /\ HandleInv /\ MappedKnown

\* The sections that neither begin, take further nor end a transition.
Aside(c) ==
  \/ LoadWait(c) \/ LoadRefused(c) \/ LoadThrows(c) \/ LoadJoin(c)
  \/ UnloadCall(c) \/ UnloadWait(c) \/ UnloadRefused(c) \/ UnloadLeave(c)
  \/ UnloadThrows(c) \/ CameraCreate(c) \/ CameraDestroy(c) \/ CreateOrDestroy(c)

\* They move a client among the places outside a transition, and leave the
\* module alone.
LEMMA AsideMoves ==
  ASSUME TypeOK, NEW c \in Clients, Aside(c)
  PROVE  /\ UNCHANGED <<state, module_handle, mapped, path>>
         /\ ~Busy(c) /\ ~Busy(c)'
         /\ pc' \in [Clients -> Places]
         /\ pc'[c] # "fault_caught"
         /\ pc'[c] = "load" => pc[c] = "load"
         /\ \A d \in Clients : d # c => pc'[d] = pc[d]
<1> USE DEF TypeOK, At, Goto, Busy, LoadingAt, UnloadingAt, Places, CreatingAt,
    DestroyingAt,
            runtime
<1>1. CASE LoadWait(c) \/ LoadRefused(c) \/ LoadThrows(c) \/ LoadJoin(c)
  BY <1>1 DEF LoadWait, Wait, LoadRefused, LoadThrows, LoadJoin
<1>2. CASE UnloadCall(c) \/ UnloadWait(c) \/ UnloadRefused(c) \/ UnloadLeave(c)
        \/ UnloadThrows(c)
  BY <1>2 DEF UnloadCall, UnloadWait, Wait, UnloadRefused, UnloadLeave, UnloadThrows
<1>3. CASE CameraCreate(c) \/ CameraDestroy(c)
  BY <1>3 DEF CameraCreate, CameraDestroy
<1>4. CASE CreateOrDestroy(c)
  BY <1>4
     DEF CreateOrDestroy, BackendCreate, DiscardInstance, RecordInstanceCreated,
         BackendDestroy, RecordInstanceDestroyed
<1> QED
  BY <1>1, <1>2, <1>3, <1>4 DEF Aside

\* They keep what is said of the handle and of the mapped modules.
LEMMA AsideKeeps ==
  ASSUME AnyInv, NEW c \in Clients, Aside(c)
  PROVE  HandleInv' /\ MappedKnown' /\ Asking'
<1>1. /\ UNCHANGED <<state, module_handle, mapped, path>>
      /\ ~Busy(c) /\ ~Busy(c)'
      /\ pc' \in [Clients -> Places]
      /\ pc'[c] # "fault_caught"
      /\ pc'[c] = "load" => pc[c] = "load"
      /\ \A d \in Clients : d # c => pc'[d] = pc[d]
  BY AsideMoves DEF AnyInv
<1>2. HandleInv'
  BY <1>1 DEF AnyInv, HandleInv, Busy, LoadingAt, UnloadingAt, Transitional
<1>3. MappedKnown'
  BY <1>1 DEF AnyInv, MappedKnown, Busy, LoadingAt
<1>4. Asking'
  BY <1>1 DEF AnyInv, Asking
<1> QED
  BY <1>2, <1>3, <1>4

\* So do the sections of a load ...
LEMMA LoadKeeps ==
  ASSUME AnyInv, NEW c \in Clients,
         \/ LoadBegin(c) \/ Dlopen(c) \/ ConstructorReturns(c) \/ LoadCommit(c) \/
             LoadReject(c)
         \/ \E p \in Paths : LoadCall(c, p)
         \/ RegisterThrows(c) \/ \E d \in Descriptors : RegisterBackend(c, d)
  PROVE  HandleInv' /\ MappedKnown' /\ Asking'
<1> USE RuntimeAssumption
    DEF AnyInv, TypeOK, TransitionInv, Asking, HandleInv, MappedKnown, Busy, At, Goto,
        LoadingAt, UnloadingAt, Places, Transitional, runtime
<1>1. CASE LoadBegin(c)
  BY <1>1 DEF LoadBegin, EnterLoading, Settled
<1>2. CASE Dlopen(c)
  BY <1>2 DEF Dlopen
<1>3. CASE ConstructorReturns(c) \/ LoadReject(c)
  BY <1>3 DEF ConstructorReturns, LoadReject
<1>4. CASE LoadCommit(c)
  BY <1>4 DEF LoadCommit
<1>5. CASE \E p \in Paths : LoadCall(c, p)
  BY <1>5 DEF LoadCall
<1>6. CASE RegisterThrows(c) \/ \E d \in Descriptors : RegisterBackend(c, d)
  BY <1>6 DEF RegisterThrows, RegisterBackend
<1> QED
  BY <1>1, <1>2, <1>3, <1>4, <1>5, <1>6

\* ... of its failure, and of an unload.
LEMMA CloseKeeps ==
  ASSUME AnyInv, NEW c \in Clients,
         \/ FailWithoutHandle(c) \/ FailBegin(c) \/ Fault(c) \/ FailClose(c)
         \/ FailEnd(c) \/ UnloadLast(c) \/ UnloadClose(c) \/ UnloadEnd(c)
  PROVE  HandleInv' /\ MappedKnown' /\ Asking'
<1> USE RuntimeAssumption
    DEF AnyInv, TypeOK, TransitionInv, Asking, HandleInv, MappedKnown, Busy, At, Goto,
        LoadingAt, UnloadingAt, Places, Transitional, runtime
<1>1. CASE FailWithoutHandle(c)
  BY <1>1
     DEF FailWithoutHandle, BecomeUnloaded, ResetThrows, Withdraw, ResetLoadedFields
<1>2. CASE FailBegin(c)
  BY <1>2 DEF FailBegin
<1>3. CASE Fault(c)
  BY <1>3 DEF Fault, Withdraw, NotifyAll
<1>4. CASE FailClose(c)
  BY <1>4 DEF FailClose, Dlclose
<1>5. CASE FailEnd(c)
  BY <1>5
     DEF FailEnd, BecomeUnloaded, CloseFailed, KeepHandle, Withdraw, ResetThrows,
         ResetLoadedFields
<1>6. CASE UnloadLast(c)
  BY <1>6 DEF UnloadLast, ModuleInv, Settled
<1>7. CASE UnloadClose(c)
  BY <1>7 DEF UnloadClose, Dlclose
<1>8. CASE UnloadEnd(c)
  BY <1>8 DEF UnloadEnd, BecomeUnloaded, CloseFailed, KeepHandle, Withdraw,
      ResetLoadedFields
<1> QED
  BY <1>1, <1>2, <1>3, <1>4, <1>5, <1>6, <1>7, <1>8

-----------------------------------------------------------------------------
(* The theorems                                                            *)

\* The runtime's fields have their types before anybody calls it, and nobody is in
\* a call.
LEMMA InitiallyTyped == Init => TypeOK /\ TransitionInv /\ ModuleInv
<1> SUFFICES ASSUME Init PROVE TypeOK /\ TransitionInv /\ ModuleInv
  OBVIOUS
<1>1. client_count \in 0..ClientLimit /\ live_instance_count \in Nat
  BY RuntimeAssumption DEF Init
<1>2. pc \in [Clients -> Places]
  BY DEF Init, Places
<1>3. /\ path \in [Clients -> Paths \cup {NULL}]
      /\ operations \in [Clients -> Paths \cup {NULL}]
  BY DEF Init
<1>4. TypeOK
  BY <1>1, <1>2, <1>3 DEF Init, TypeOK, LoadStates, Status
<1> QED
  BY <1>4 DEF Init, TransitionInv, ModuleInv, Busy, LoadingAt, UnloadingAt

\* Whoever calls what, AnyInv is an invariant of the runtime.
THEOREM AnyCallerInvariance == Spec => []AnyInv
<1>1. Init => AnyInv
  BY InitiallyTyped
     DEF Init, AnyInv, Asking, HandleInv, MappedKnown, Transitional
<1>2. AnyInv /\ [Next]_vars => AnyInv'
  <2> SUFFICES ASSUME AnyInv, [Next]_vars PROVE AnyInv'
    OBVIOUS
  <2>1. TypeOK' /\ TransitionInv' /\ ModuleInv'
    BY TypePreserved, TransitionPreserved, ModulePreserved DEF AnyInv
  <2>2. HandleInv' /\ MappedKnown' /\ Asking'
    <3>1. CASE UNCHANGED vars
      BY <3>1
         DEF vars, runtime, AnyInv, HandleInv, MappedKnown, Asking, Transitional, Busy
    <3>2. CASE Next
      BY <3>2, AsideKeeps, LoadKeeps, CloseKeeps
         DEF Next, Call, Load, Unload, Aside
    <3> QED
      BY <3>1, <3>2
  <2> QED
    BY <2>1, <2>2 DEF AnyInv
<1> QED
  BY <1>1, <1>2, PTL DEF Spec

\* The runtime's fields keep their types, client_count never passes its limit,
\* whoever calls what.
THEOREM TypeCorrect == Spec => []TypeOK
  BY AnyCallerInvariance, PTL DEF AnyInv

\* dlopen and dlclose run without the mutex, yet for any number of threads and any
\* calls one of them at most is between the start and the end of a load or an
\* unload, and the state says so (load_backend, finish_failed_load, unload_backend).
THEOREM OneAtATime == Spec => []OneTransition
<1>1. AnyInv => OneTransition
  <2> SUFFICES ASSUME AnyInv PROVE OneTransition
    OBVIOUS
  <2> DEFINE busy == {c \in Clients : pc[c] \in LoadingAt \cup UnloadingAt}
  <2>1. \A c \in Clients :
          /\ pc[c] \in LoadingAt => state = "Loading"
          /\ pc[c] \in UnloadingAt => state = "Unloading"
    BY DEF AnyInv, TransitionInv
  <2>2. CASE Transitional
    <3>1. PICK c \in Clients : Busy(c)
      BY <2>2 DEF AnyInv, HandleInv
    <3>2. busy = {c}
      BY <3>1 DEF AnyInv, TransitionInv, Busy
    <3> QED
      BY <2>1, <2>2, <3>2, FS_Singleton DEF OneTransition
  <2>3. CASE ~Transitional
    <3>1. busy = {}
      BY <2>1, <2>3 DEF Transitional
    <3> QED
      BY <2>1, <2>3, <3>1, FS_EmptySet DEF OneTransition
  <2> QED
    BY <2>2, <2>3
<1> QED
  BY <1>1, AnyCallerInvariance, PTL

\* Whoever calls what and whatever fails, a module that can be unmapped is mapped
\* only while the runtime holds its handle or a load under way does, and the table
\* a loaded runtime publishes is of the module it holds (finish_failed_load,
\* unload_backend).
THEOREM NothingLeaks == Spec => []NoModuleLeaked
<1>1. AnyInv => NoModuleLeaked
  BY DEF AnyInv, MappedKnown, ModuleInv, NoModuleLeaked
<1> QED
  BY <1>1, AnyCallerInvariance, PTL

\* The strengthening IInv of the properties below is an invariant of the runtime.
THEOREM Invariance == ASSUME OwnReference PROVE Spec => []IInv
  <1>1. Init => IInv
    <2> SUFFICES ASSUME Init PROVE IInv
      OBVIOUS
    <2>1. TypeOK /\ TransitionInv /\ ModuleInv
      BY InitiallyTyped
    <2>2. ReferenceInv
      BY DEF Init, ReferenceInv, CreatingAt, DestroyingAt
    <2>3. Cameras = {} /\ refs = {}
      BY DEF Init, Cameras
    <2>4. ReferencesCounted /\ BackendCodeMapped
      BY <2>3, FS_EmptySet DEF Init, ReferencesCounted, BackendCodeMapped
    <2> QED
      BY <2>1, <2>2, <2>4 DEF IInv
  <1>2. IInv /\ [Next]_vars => IInv'
    BY TypePreserved, TransitionPreserved, ReferencePreserved, ModulePreserved,
       CodePreserved, LiveCounted, ClientsCountedPreserved
       DEF IInv, ReferencesCounted, ClientsCounted, ReferenceInv, Asking
  <1> QED
    BY <1>1, <1>2, PTL DEF Spec

\* No dlclose ever runs under a table a client may still call through, however
\* many clients load, create, destroy and unload, and whatever open, registration
\* or close fails.
THEOREM CallbacksStayMapped == ASSUME OwnReference PROVE Spec => []BackendCodeMapped
  BY Invariance, PTL DEF IInv

\* The counters are exact: they are the clients that hold a reference and those
\* that own a camera.
THEOREM CountersExact == ASSUME OwnReference PROVE Spec => []ReferencesCounted
  BY Invariance, PTL DEF IInv

-----------------------------------------------------------------------------
(* The abstract specification                                              *)

\* A count above one is not held by one client alone.
LEMMA OthersHold ==
  ASSUME ReferencesCounted, client_count > 1, NEW c \in Clients
  PROVE  refs # {c}
  <1>1. Cardinality({c}) = 1
    BY FS_Singleton
  <1>2. client_count = Cardinality(refs)
    BY DEF ReferencesCounted
  <1> QED
    BY <1>1, <1>2

\* Every section is a step of SharedModule or leaves it unchanged.
LEMMA StepImplements ==
  ASSUME IInv, OwnReference, [Next]_vars
  PROVE  [Promise!Next]_(Promise!vars)
  <1> USE RuntimeAssumption DEF IInv, TypeOK, TransitionInv, ReferenceInv, ModuleInv,
      BackendCodeMapped, Promise!Next, Promise!vars, Promise!Ask, Promise!Acquire,
          Promise!Release, Promise!Use, Promise!Unuse, Promise!Fault, runtime, At, Goto,
              LoadingAt,
              UnloadingAt, CreatingAt, DestroyingAt, Settled, Transitional
  <1>0. CASE UNCHANGED vars
    BY <1>0 DEF vars
  <1>1. ASSUME NEW c \in Clients, LoadWait(c) PROVE [Promise!Next]_(Promise!vars)
    BY <1>1 DEF LoadWait, Wait
  <1>2. ASSUME NEW c \in Clients, LoadRefused(c) PROVE [Promise!Next]_(Promise!vars)
    BY <1>2 DEF LoadRefused
  <1>3. ASSUME NEW c \in Clients, LoadThrows(c) PROVE [Promise!Next]_(Promise!vars)
    BY <1>3 DEF LoadThrows
  <1>4. ASSUME NEW c \in Clients, LoadJoin(c) PROVE [Promise!Next]_(Promise!vars)
    BY <1>4 DEF LoadJoin, SamePath, BelowLimit
  <1>5. ASSUME NEW c \in Clients, LoadBegin(c) PROVE [Promise!Next]_(Promise!vars)
    BY <1>5 DEF LoadBegin, EnterLoading
  <1>6. ASSUME NEW c \in Clients, Dlopen(c) PROVE [Promise!Next]_(Promise!vars)
    BY <1>6 DEF Dlopen
  <1>7. ASSUME NEW c \in Clients, ConstructorReturns(c) PROVE [Promise!Next]_(Promise!vars)
    BY <1>7 DEF ConstructorReturns
  <1>8. ASSUME NEW c \in Clients, LoadCommit(c) PROVE [Promise!Next]_(Promise!vars)
    BY <1>8, NothingHeld DEF LoadCommit, NotifyAll, Registered
  <1>9. ASSUME NEW c \in Clients, LoadReject(c) PROVE [Promise!Next]_(Promise!vars)
    BY <1>9 DEF LoadReject
  <1>10. ASSUME NEW c \in Clients, FailWithoutHandle(c) PROVE [Promise!Next]_(Promise!vars)
    BY <1>10 DEF FailWithoutHandle, BecomeUnloaded, CloseFailed, KeepHandle, Withdraw,
        ResetThrows,
        ResetLoadedFields,
        NotifyAll
  <1>11. ASSUME NEW c \in Clients, FailBegin(c) PROVE [Promise!Next]_(Promise!vars)
    BY <1>11 DEF FailBegin
  <1>12. ASSUME NEW c \in Clients, Fault(c) PROVE [Promise!Next]_(Promise!vars)
    BY <1>12 DEF Fault, Withdraw, NotifyAll
  <1>13. ASSUME NEW c \in Clients, FailClose(c) PROVE [Promise!Next]_(Promise!vars)
    BY <1>13 DEF FailClose, Dlclose
  <1>14. ASSUME NEW c \in Clients, FailEnd(c) PROVE [Promise!Next]_(Promise!vars)
    BY <1>14 DEF FailEnd, BecomeUnloaded, CloseFailed, KeepHandle, Withdraw, ResetThrows,
        ResetLoadedFields, NotifyAll
  <1>15. ASSUME NEW c \in Clients, UnloadCall(c) PROVE [Promise!Next]_(Promise!vars)
    BY <1>15 DEF UnloadCall
  <1>16. ASSUME NEW c \in Clients, UnloadWait(c) PROVE [Promise!Next]_(Promise!vars)
    BY <1>16 DEF UnloadWait, Wait
  <1>17. ASSUME NEW c \in Clients, UnloadRefused(c) PROVE [Promise!Next]_(Promise!vars)
    BY <1>17 DEF UnloadRefused
  <1>18. ASSUME NEW c \in Clients, UnloadLeave(c) PROVE [Promise!Next]_(Promise!vars)
    <2>1. refs # {c}
      BY <1>18, OthersHold DEF UnloadLeave
    <2>2. c \in refs
      BY <1>18 DEF UnloadLeave
    <2>3. Promise!Release(c)
      BY <1>18, <2>1, <2>2 DEF UnloadLeave
    <2> QED
      BY <2>3
  <1>19. ASSUME NEW c \in Clients, UnloadLast(c) PROVE [Promise!Next]_(Promise!vars)
    BY <1>19, LastReference DEF UnloadLast, MayUnload, NotifyAll
  <1>20. ASSUME NEW c \in Clients, UnloadClose(c) PROVE [Promise!Next]_(Promise!vars)
    BY <1>20 DEF UnloadClose, Dlclose
  <1>21. ASSUME NEW c \in Clients, UnloadEnd(c) PROVE [Promise!Next]_(Promise!vars)
    BY <1>21 DEF UnloadEnd, BecomeUnloaded, CloseFailed, KeepHandle, Withdraw, ResetThrows,
        ResetLoadedFields, NotifyAll
  <1>22. ASSUME NEW c \in Clients, CameraCreate(c) PROVE [Promise!Next]_(Promise!vars)
    BY <1>22 DEF CameraCreate, ActiveBackend
  <1>23. ASSUME NEW c \in Clients, BackendCreate(c) PROVE [Promise!Next]_(Promise!vars)
    BY <1>23 DEF BackendCreate
  <1>24. ASSUME NEW c \in Clients, DiscardInstance(c) PROVE [Promise!Next]_(Promise!vars)
    BY <1>24 DEF DiscardInstance
  <1>25. ASSUME NEW c \in Clients, RecordInstanceCreated(c)
        PROVE [Promise!Next]_(Promise!vars)
    BY <1>25 DEF RecordInstanceCreated
  <1>26. ASSUME NEW c \in Clients, CameraDestroy(c) PROVE [Promise!Next]_(Promise!vars)
    BY <1>26 DEF CameraDestroy
  <1>27. ASSUME NEW c \in Clients, BackendDestroy(c) PROVE [Promise!Next]_(Promise!vars)
    BY <1>27 DEF BackendDestroy
  <1>28. ASSUME NEW c \in Clients, RecordInstanceDestroyed(c)
        PROVE [Promise!Next]_(Promise!vars)
    BY <1>28 DEF RecordInstanceDestroyed, CountDown
  <1>29. ASSUME NEW c \in Clients, NEW p \in Paths, LoadCall(c, p)
        PROVE [Promise!Next]_(Promise!vars)
    BY <1>29 DEF LoadCall
  <1>30. ASSUME NEW c \in Clients, NEW d \in Descriptors, RegisterBackend(c, d)
        PROVE [Promise!Next]_(Promise!vars)
    BY <1>30 DEF RegisterBackend, ValidateBackend
  <1>31. ASSUME NEW c \in Clients, UnloadThrows(c) PROVE [Promise!Next]_(Promise!vars)
    BY <1>31 DEF UnloadThrows
  <1>32. ASSUME NEW c \in Clients, RegisterThrows(c) PROVE [Promise!Next]_(Promise!vars)
    BY <1>32 DEF RegisterThrows
  <1> QED
    BY <1>0, <1>1, <1>2, <1>3, <1>4, <1>5, <1>6, <1>7, <1>8, <1>9, <1>10, <1>11, <1>12,
        <1>13, <1>14, <1>15, <1>16, <1>17, <1>18, <1>19, <1>20, <1>21, <1>22, <1>23,
            <1>24, <1>25, <1>26, <1>27, <1>28, <1>29, <1>30, <1>31, <1>32 DEF Next, Call,
                Load, Unload,
                CreateOrDestroy

\* The runtime implements SharedModule: seen from outside, loads, unloads and
\* faults are atomic, one module is in service at a time, and the last reference
\* leaves only when nobody uses the module.
THEOREM Implementation == ASSUME OwnReference PROVE Spec => ImplementsSharedModule
  <1>1. Init => Promise!Init
    BY DEF Init, Promise!Init
  <1>2. IInv /\ [Next]_vars => [Promise!Next]_(Promise!vars)
    BY StepImplements
  <1> QED
    BY <1>1, <1>2, Invariance, PTL DEF Spec, ImplementsSharedModule, Promise!Spec
=============================================================================
