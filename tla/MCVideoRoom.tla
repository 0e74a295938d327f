----------------------------- MODULE MCVideoRoom -----------------------------
\* Finite instances of VideoRoom for TLC.
EXTENDS VideoRoom, TLC

Symmetry == Permutations(User) \cup Permutations(Handle) \cup Permutations(Publisher)
            \cup Permutations(BackendRoom) \cup Permutations(Server)
\* What is left in an object that nothing refers to makes no difference.
View == <<room, handle, task, [p \in Publisher |-> IF FreePub(p) THEN NoPub ELSE pub[p]],
          [b \in BackendRoom |-> IF FreeBackendRoom(b) THEN NoBackendRoom ELSE broom[b]],
          sweep, janus>>
=============================================================================
