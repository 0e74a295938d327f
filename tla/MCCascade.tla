------------------------------ MODULE MCCascade ------------------------------
\* Finite instances of Cascade for TLC.
EXTENDS Cascade, TLC

Symmetry == Permutations(User) \cup Permutations(Publisher) \cup Permutations(Remote)
            \cup Permutations(Subscriber) \cup Permutations(BackendRoom)
=============================================================================
