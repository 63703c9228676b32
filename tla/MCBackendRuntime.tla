-------------------------- MODULE MCBackendRuntime --------------------------
(* Instances of BackendRuntime for TLC. *)
EXTENDS BackendRuntime, TLC

\* A table that validates, a missing one and one of another ABI.
MCDescriptors ==
  {d \in Descriptor :
     /\ d.sized /\ d.named /\ d.complete
     /\ d.present \/ d.abi}

ClientSymmetry == Permutations(Clients)
=============================================================================
