-------------------------- MODULE MCFrontendSession --------------------------
\* Finite instances of FrontendSession for TLC.
EXTENDS FrontendSession, TLC

Symmetry == Permutations(Transport) \cup Permutations(Session)
              \cup Permutations(Handle) \cup Permutations(Request)
=============================================================================
