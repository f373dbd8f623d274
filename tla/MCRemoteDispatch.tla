-------------------------- MODULE MCRemoteDispatch --------------------------
(* Model-checking instances of RemoteDispatch.                             *)
EXTENDS RemoteDispatch, TLC

\* Dispatch ids are interchangeable names.
Symmetry == Permutations(Dispatches)
==============================================================================
