----------------------------- MODULE MCVideoCall -----------------------------
\* Finite instances of VideoCall for TLC.
EXTENDS VideoCall, TLC

Symmetry == Permutations(User) \cup Permutations(Handle) \cup Permutations(Backend)
            \cup Permutations(Server)
=============================================================================
