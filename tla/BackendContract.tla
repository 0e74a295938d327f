-------------------------- MODULE BackendContract ---------------------------
(* What the plugins rely on when they use the backend session of one Janus  *)
(* server: there is one usable session at a time, every attached handle     *)
(* belongs to it, and losing it tells all its handles in the same step.     *)

CONSTANTS Session, Handle, None

VARIABLES
    current,    \* the usable session
    status,     \* what each handle is to the plugin that attached it
    owner       \* the session of an attached handle

contractVars == <<current, status, owner>>

Statuses == {"none", "live", "detached", "closed"}

ContractTypeOK == /\ current \in Session \cup {None}
                  /\ status \in [Handle -> Statuses]
                  /\ owner \in [Handle -> Session \cup {None}]

Live == {h \in Handle : status[h] = "live"}

ContractInit == /\ current = None
                /\ status = [h \in Handle |-> "none"]
                /\ owner = [h \in Handle |-> None]

\* A session becomes usable only when there is none.
Open(s) == /\ current = None
           /\ current' = s
           /\ UNCHANGED <<status, owner>>

\* A handle is attached to the usable session only.
Attach(h) == /\ current # None
             /\ status[h] = "none"
             /\ status' = [status EXCEPT ![h] = "live"]
             /\ owner' = [owner EXCEPT ![h] = current]
             /\ UNCHANGED current

\* A live handle ends once: its user detaches it, or is told that it is closed.
End(h) == /\ status[h] = "live"
          /\ \E e \in {"detached", "closed"} : status' = [status EXCEPT ![h] = e]
          /\ owner' = [owner EXCEPT ![h] = None]
          /\ UNCHANGED current

\* The session is lost with all its handles.
Lose == /\ current # None
        /\ current' = None
        /\ status' = [h \in Handle |-> IF status[h] = "live" THEN "closed" ELSE status[h]]
        /\ owner' = [h \in Handle |-> None]

\* The identity of a handle that has ended is used again.
Forget == /\ \E H \in SUBSET (Handle \ Live) :
                status' = [h \in Handle |-> IF h \in H THEN "none" ELSE status[h]]
          /\ UNCHANGED <<current, owner>>

ContractNext == \/ \E s \in Session : Open(s)
                \/ \E h \in Handle : Attach(h) \/ End(h)
                \/ Lose \/ Forget

Contract == ContractInit /\ [][ContractNext]_contractVars

-----------------------------------------------------------------------------
(* A live handle belongs to the usable session: a plugin that holds one     *)
(* never talks to a server whose session is gone.                           *)
LiveIsUsable == \A h \in Live : current # None /\ owner[h] = current
=============================================================================
