-------------------------- MODULE MCBackendSession --------------------------
(* Model-checking instance of BackendSession.                               *)
EXTENDS BackendSession, TLC

Symmetry == Permutations(Client) \cup Permutations(Session) \cup Permutations(Handle)
=============================================================================
