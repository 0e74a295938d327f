---------------------------- MODULE MCAudioBridge ----------------------------
\* Finite instances of AudioBridge for TLC.
EXTENDS AudioBridge, TLC

Symmetry == Permutations(User) \cup Permutations(Handle) \cup Permutations(Participant)
            \cup Permutations(Backend)
\* What is left in an object that nothing refers to makes no difference.
View == <<room, handle, task,
          [p \in Participant |-> IF FreePart(p) THEN NoPart ELSE part[p]],
          [b \in Backend |-> IF FreeBackend(b) THEN NoBackend ELSE backend[b]],
          janus>>

\* What waits: a greenlet, a kick or the end of a participant, a detach, the last event of a
\* participant whose media were up.
Waiting ==
    Cardinality({g \in Greenlet : task[g].pc \notin {"idle", "dead"}})
    + Cardinality({p \in Participant : part[p].end \in {"asked", "leaving"}})
    + Cardinality({h \in Handle : handle[h].gone = "leaving"})
    + Cardinality({h \in Handle : handle[h].part # None /\ part[handle[h].part].end = "done"})

Strays == Cardinality({x \in Participant : part[x].stray}
                      \cup {x \in Backend : backend[x].stray})

\* Bounds: three wait at once, of whatever kind, or two and at most one handle is a stray; a
\* request that only asks the server about a participant comes when no other greenlet waits.
MaxWaiting == 3
Bound ==
    /\ Strays <= 1
    /\ Waiting + Strays <= MaxWaiting
    /\ \A g, o \in Greenlet : At(g, "ask") /\ OverPart(g) /\ o # g => At(o, "idle")
=============================================================================
