-------------------------- MODULE VideoCall_proofs --------------------------
(* Proofs about VideoCall, for every number of users, handles, servers and  *)
(* backend handles. The invariants are layers: the types (every fault), the *)
(* directory (every fault), names (no namesakes), backend handles (none     *)
(* lost), and the parts that handles play in calls (clients may detach, and *)
(* nothing else goes wrong). Before each layer come the lemmas that say what*)
(* the actions do to the state it speaks of.                                *)
EXTENDS VideoCall, TLAPS

Calls    == {"attach", "register", "peerattach", "peerregister", "calling"}
Inviting == {"peerattach", "peerregister"}
Using    == {"register", "peerattach", "peerregister", "calling", "hangup"}

(* What a greenlet that waits has in its local variables.                   *)
TaskShape(t) ==
    /\ t.pc \in Calls => t.to \in User
    /\ t.pc \in Using => t.mine \in Backend
    /\ t.pc \notin Using => t.mine = None
    /\ t.pc \in Inviting => t.callee \in Handle
    /\ t.pc \notin Inviting => t.callee = None
    /\ t.pc = "peerregister" => t.theirs \in Backend
    /\ t.pc # "peerregister" => t.theirs = None

(* An attached backend handle has a listener and registers a name.          *)
Heard(b) == backend[b].alive => backend[b].owner \in Handle /\ backend[b].name \in User

IInv == /\ TypeOK
        /\ \A h \in Handle : TaskShape(task[h])
        /\ \A b \in Backend : Heard(b)

-----------------------------------------------------------------------------
LEMMA NoneApart ==
    None \notin User /\ None \notin Handle /\ None \notin Backend /\ None \notin Server
BY VideoCallAssumption

LEMMA BlankTypes ==
    /\ NewHandle \in HandleRec /\ [NewHandle EXCEPT !.gone = TRUE] \in HandleRec
    /\ NotListed \in DirectoryRec /\ NoTask \in TaskRec /\ TaskShape(NoTask)
    /\ Unattached \in BackendRec
BY DEF NewHandle, HandleRec, NotListed, DirectoryRec, NoTask, TaskRec, TaskShape, Calls,
       Inviting, Using, Unattached, BackendRec

(* TypeOK and the shapes, by the variable.                                  *)
LEMMA Types ==
    ASSUME IInv
    PROVE  /\ handle \in [Handle -> HandleRec] /\ directory \in [User -> DirectoryRec]
           /\ task \in [Handle -> TaskRec] /\ backend \in [Backend -> BackendRec]
           /\ \A h \in Handle : handle[h] \in HandleRec /\ task[h] \in TaskRec
                                /\ TaskShape(task[h])
           /\ \A b \in Backend : backend[b] \in BackendRec /\ Heard(b)
           /\ \A u \in User : directory[u] \in DirectoryRec
BY DEF IInv, TypeOK

LEMMA HandleType ==
    ASSUME NEW r \in HandleRec
    PROVE  /\ NotInCall(r) \in HandleRec
           /\ \A u \in User : [r EXCEPT !.name = u] \in HandleRec
           /\ \A b \in Backend \cup {None} :
                /\ [r EXCEPT !.backend = b] \in HandleRec
                /\ [r EXCEPT !.backend = b, !.timer = TRUE] \in HandleRec
                /\ [r EXCEPT !.backend = b, !.timer = FALSE] \in HandleRec
           /\ \A u \in User \cup {None} : [r EXCEPT !.incall = TRUE, !.peer = u] \in HandleRec
           /\ [r EXCEPT !.timer = FALSE] \in HandleRec
BY DEF NotInCall, HandleRec

LEMMA UpdatedType ==
    ASSUME IInv, NEW h \in Handle, NEW r \in HandleRec
    PROVE  Updated(h, r) \in [User -> DirectoryRec]
BY Types DEF Updated, HandleRec, DirectoryRec

(* BackendHandle.detach() of the handles in B.                              *)
LEMMA EndedFields ==
    ASSUME NEW bs \in [Backend -> BackendRec], NEW B \in SUBSET Backend
    PROVE  /\ Ended(bs, B) \in [Backend -> BackendRec]
           /\ \A c \in Backend :
                LET e == Ended(bs, B)[c]
                IN /\ e.owner = bs[c].owner /\ e.server = bs[c].server
                   /\ e.name = bs[c].name /\ e.caller = bs[c].caller
                   /\ e.alive <=> bs[c].alive /\ c \notin B
                   /\ bs[c].peer = None => e.peer = None
                   /\ e.peer # None => e.peer = bs[c].peer /\ e.events = bs[c].events
                   /\ bs[c].peer = None => e.events \subseteq bs[c].events
                   /\ "incomingcall" \in e.events => "incomingcall" \in bs[c].events
<1>1. ASSUME NEW c \in Backend
      PROVE  LET e == Ended(bs, B)[c]
             IN /\ e \in BackendRec
                /\ e.owner = bs[c].owner /\ e.server = bs[c].server
                /\ e.name = bs[c].name /\ e.caller = bs[c].caller
                /\ e.alive <=> bs[c].alive /\ c \notin B
                /\ bs[c].peer = None => e.peer = None
                /\ e.peer # None => e.peer = bs[c].peer /\ e.events = bs[c].events
                /\ bs[c].peer = None => e.events \subseteq bs[c].events
                /\ "incomingcall" \in e.events => "incomingcall" \in bs[c].events
  <2>1. bs[c] \in BackendRec
    OBVIOUS
  <2>2. CASE c \in B
    <3>1. Ended(bs, B)[c] = [bs[c] EXCEPT !.alive = FALSE, !.peer = None, !.events = {}]
      BY <2>2 DEF Ended
    <3>. QED  BY <2>1, <2>2, <3>1 DEF BackendRec
  <2>3. CASE c \notin B /\ bs[c].peer \in B
    <3>1. Ended(bs, B)[c] = [bs[c] EXCEPT !.peer = None, !.events = @ \cup {"hangup"}]
      BY <2>3 DEF Ended
    <3>2. bs[c].peer # None
      BY <2>3, NoneApart
    <3>3. bs[c].events \in SUBSET {"incomingcall", "hangup"}
      BY <2>1 DEF BackendRec
    <3>. DEFINE E == bs[c].events \cup {"hangup"}
    <3>4. E \in SUBSET {"incomingcall", "hangup"}
      BY <3>3
    <3>5. "incomingcall" \in E => "incomingcall" \in bs[c].events
      OBVIOUS
    <3>6. Ended(bs, B)[c] = [bs[c] EXCEPT !.peer = None, !.events = E]
      BY <3>1, <2>1 DEF BackendRec
    <3>. HIDE DEF E
    <3>. QED  BY <2>1, <2>3, <3>2, <3>4, <3>5, <3>6 DEF BackendRec
  <2>4. CASE c \notin B /\ bs[c].peer \notin B
    <3>1. Ended(bs, B)[c] = bs[c]
      BY <2>4 DEF Ended
    <3>. QED  BY <2>1, <2>4, <3>1 DEF BackendRec
  <2>. QED  BY <2>2, <2>3, <2>4
<1>2. Ended(bs, B) \in [Backend -> BackendRec]
  BY <1>1 DEF Ended
<1>. QED  BY <1>1, <1>2

LEMMA EndedType ==
    ASSUME IInv, NEW B \in SUBSET Backend, backend' = Ended(backend, B)
    PROVE  backend' \in [Backend -> BackendRec] /\ \A b \in Backend : Heard(b)'
BY EndedFields, Types DEF Heard

LEMMA NewBackendType ==
    ASSUME IInv, NEW b \in Backend, NEW s \in Server \cup {None}, NEW h \in Handle,
           handle[h].name # None, backend' = AttachedTo(b, s, h)
    PROVE  backend' \in [Backend -> BackendRec] /\ \A c \in Backend : Heard(c)'
<1>. DEFINE e == [Unattached EXCEPT !.owner = h, !.server = s, !.alive = TRUE,
                                    !.name = handle[h].name]
<1>1. handle[h].name \in User
  BY Types DEF HandleRec
<1>2. e \in BackendRec /\ e.owner = h /\ e.name = handle[h].name
  BY <1>1 DEF Unattached, BackendRec
<1>3. backend' = [backend EXCEPT ![b] = e]
  BY DEF AttachedTo
<1>. HIDE DEF e
<1>. QED  BY <1>1, <1>2, <1>3, Types DEF Heard

(* The greenlet of h goes on as t.                                          *)
LEMMA OneTask ==
    ASSUME IInv, NEW h \in Handle, NEW t \in TaskRec, TaskShape(t),
           task' = [task EXCEPT ![h] = t]
    PROVE  task' \in [Handle -> TaskRec] /\ \A g \in Handle : TaskShape(task'[g])
BY Types

LEMMA InvInit == Init => IInv
<1>. SUFFICES ASSUME Init PROVE IInv
  OBVIOUS
<1>1. TypeOK
  BY BlankTypes DEF Init, TypeOK
<1>2. \A h \in Handle : TaskShape(task[h])
  BY BlankTypes DEF Init
<1>3. \A b \in Backend : Heard(b)
  BY DEF Init, Heard, Unattached
<1>. QED  BY <1>1, <1>2, <1>3 DEF IInv

LEMMA InvStutter == ASSUME IInv, UNCHANGED vars PROVE IInv'
BY DEF IInv, TypeOK, vars, Heard

\* The invariant again, by the variable.
LEMMA Gathered ==
    ASSUME handle' \in [Handle -> HandleRec], directory' \in [User -> DirectoryRec],
           task' \in [Handle -> TaskRec], backend' \in [Backend -> BackendRec],
           \A h \in Handle : TaskShape(task'[h]), \A b \in Backend : Heard(b)'
    PROVE  IInv'
BY DEF IInv, TypeOK

LEMMA RegisterType ==
    ASSUME IInv, NEW h \in Handle, NEW u \in User, Register(h, u) PROVE IInv'
<1>1. handle' \in [Handle -> HandleRec]
  <2>1. [handle[h] EXCEPT !.name = u] \in HandleRec
    BY Types, HandleType
  <2>2. handle' = [handle EXCEPT ![h] = [handle[h] EXCEPT !.name = u]]
    BY Types DEF Register
  <2>. QED  BY <2>1, <2>2, Types
<1>2. directory' \in [User -> DirectoryRec]
  BY Types DEF Register, DirectoryRec
<1>3. task' = task /\ backend' = backend
  BY DEF Register
<1>. QED  BY <1>1, <1>2, <1>3, Types, Gathered DEF Heard

LEMMA CallType ==
    ASSUME IInv, NEW h \in Handle, NEW u \in User, Call(h, u) PROVE IInv'
<1>. DEFINE r == [handle[h] EXCEPT !.incall = TRUE, !.peer = u]
            t == [NoTask EXCEPT !.pc = "attach", !.to = u]
<1>1. /\ directory' = Updated(h, r)
      /\ handle' = [handle EXCEPT ![h] = [r EXCEPT !.backend = None]]
      /\ backend' = backend /\ task' \in {task, [task EXCEPT ![h] = t]}
  BY DEF Call
<1>2. r \in HandleRec /\ [r EXCEPT !.backend = None] \in HandleRec
  BY Types, HandleType
<1>3. t \in TaskRec /\ TaskShape(t)
  BY DEF NoTask, TaskRec, TaskShape, Calls, Inviting, Using
<1>. HIDE DEF r, t
<1>4. directory' \in [User -> DirectoryRec] /\ handle' \in [Handle -> HandleRec]
  BY <1>1, <1>2, UpdatedType, Types
<1>5. task' \in [Handle -> TaskRec] /\ \A g \in Handle : TaskShape(task'[g])
  BY <1>1, <1>3, OneTask, Types
<1>. QED  BY <1>1, <1>4, <1>5, Types, Gathered DEF Heard

LEMMA CallFailsType ==
    ASSUME IInv, NEW h \in Handle, NEW hs \in [Handle -> HandleRec],
           NEW ds \in [User -> DirectoryRec], NEW B \in SUBSET Backend, CallFails(h, hs, ds, B)
    PROVE  IInv'
<1>. DEFINE r == NotInCall([hs[h] EXCEPT !.backend = None])
<1>1. [hs[h] EXCEPT !.backend = None] \in HandleRec /\ r \in HandleRec
  BY HandleType
<1>2. r.name \in User \cup {None}
  BY <1>1 DEF HandleRec
<1>3. /\ backend' = Ended(backend, B) /\ task' = [task EXCEPT ![h] = NoTask]
      /\ \/ /\ r.name = None /\ directory' = ds
            /\ handle' = [hs EXCEPT ![h].backend = None]
         \/ /\ r.name # None /\ handle' = [hs EXCEPT ![h] = r]
            /\ directory' = [ds EXCEPT ![r.name] = [handle |-> h, incall |-> FALSE]]
  BY DEF CallFails
<1>4. [handle |-> h, incall |-> FALSE] \in DirectoryRec
  BY DEF DirectoryRec
<1>. HIDE DEF r
<1>5. [hs EXCEPT ![h].backend = None] = [hs EXCEPT ![h] = [hs[h] EXCEPT !.backend = None]]
  OBVIOUS
<1>6. handle' \in [Handle -> HandleRec] /\ directory' \in [User -> DirectoryRec]
  BY <1>1, <1>2, <1>3, <1>4, <1>5
<1>7. task' \in [Handle -> TaskRec] /\ \A g \in Handle : TaskShape(task'[g])
  BY <1>3, BlankTypes, OneTask
<1>8. backend' \in [Backend -> BackendRec] /\ \A b \in Backend : Heard(b)'
  BY <1>3, EndedType
<1>. QED  BY <1>6, <1>7, <1>8, Gathered

LEMMA AttachedType ==
    ASSUME IInv, NEW h \in Handle, Attached(h) PROVE IInv'
<1>. PICK b \in Backend, s \in Server :
       /\ backend' = AttachedTo(b, s, h)
       /\ task' = [task EXCEPT ![h].pc = "register", ![h].mine = b]
  BY DEF Attached
<1>1. task[h] \in TaskRec /\ TaskShape(task[h]) /\ task[h].pc = "attach" /\ handle[h].name # None
      /\ handle' = handle /\ directory' = directory
  BY Types DEF Attached, At
<1>. DEFINE t == [task[h] EXCEPT !.pc = "register", !.mine = b]
<1>2. t \in TaskRec /\ TaskShape(t) /\ task' = [task EXCEPT ![h] = t]
  BY <1>1, Types DEF TaskRec, TaskShape, Calls, Inviting, Using
<1>. HIDE DEF t
<1>3. task' \in [Handle -> TaskRec] /\ \A g \in Handle : TaskShape(task'[g])
  BY <1>2, OneTask
<1>4. backend' \in [Backend -> BackendRec] /\ \A c \in Backend : Heard(c)'
  BY <1>1, NewBackendType
<1>. QED  BY <1>1, <1>3, <1>4, Types, Gathered

LEMMA ConnectFailsType ==
    ASSUME IInv, NEW h \in Handle, ConnectFails(h) PROVE IInv'
<1>1. /\ handle' = [handle EXCEPT ![h].backend = None] /\ directory' = directory
      /\ backend' = Ended(backend, {task[h].mine} \ {None})
      /\ task' = [task EXCEPT ![h] = NoTask]
  BY DEF ConnectFails
<1>2. handle' \in [Handle -> HandleRec]
  BY <1>1, HandleType, Types
<1>3. task' \in [Handle -> TaskRec] /\ \A g \in Handle : TaskShape(task'[g])
  BY <1>1, BlankTypes, OneTask
<1>4. {task[h].mine} \ {None} \in SUBSET Backend
  BY Types DEF TaskRec
<1>5. backend' \in [Backend -> BackendRec] /\ \A c \in Backend : Heard(c)'
  BY <1>1, <1>4, EndedType
<1>. QED  BY <1>1, <1>2, <1>3, <1>5, Types, Gathered

LEMMA CalleeResetType ==
    ASSUME IInv, NEW k \in Handle
    PROVE  CalleeReset(handle, k) \in [Handle -> HandleRec]
<1>. DEFINE r == [handle[k] EXCEPT !.backend = None]
<1>1. r \in HandleRec /\ NotInCall(r) \in HandleRec
  BY HandleType, Types
<1>2. CalleeReset(handle, k) = [handle EXCEPT ![k] = IF handle[k].name = None THEN r
                                                     ELSE NotInCall(r)]
  BY Types DEF CalleeReset
<1>. HIDE DEF r
<1>. QED  BY <1>1, <1>2, Types

LEMMA RegisteredType ==
    ASSUME IInv, NEW h \in Handle, Registered(h) PROVE IInv'
<1>. DEFINE k == directory[task[h].to].handle
            r == [handle[k] EXCEPT !.incall = TRUE, !.peer = handle[h].name]
<1>1. task[h] \in TaskRec /\ TaskShape(task[h]) /\ task[h].pc = "register"
  BY Types DEF Registered, At
<1>2. task[h].to \in User /\ task[h].mine \in Backend
  BY <1>1 DEF TaskShape, Calls, Using
<1>3. k \in Handle \cup {None}
  BY <1>2, Types DEF DirectoryRec
<1>4. CASE CallFails(h, handle, directory, {task[h].mine})
  BY <1>2, <1>4, CallFailsType, Types
<1>5. ASSUME k # None
      PROVE  r \in HandleRec /\ k \in Handle /\ handle[k].backend \in Backend \cup {None}
  <2>1. k \in Handle /\ handle[k] \in HandleRec /\ handle[h].name \in User \cup {None}
    BY <1>3, <1>5, Types DEF HandleRec
  <2>. QED  BY <2>1, HandleType DEF HandleRec
<1>6. CASE /\ k # None /\ handle' = [handle EXCEPT ![k] = r] /\ directory' = Updated(k, r)
           /\ task' = [task EXCEPT ![h].pc = "peerattach", ![h].callee = k] /\ backend' = backend
  <2>. DEFINE t == [task[h] EXCEPT !.pc = "peerattach", !.callee = k]
  <2>1. t \in TaskRec /\ TaskShape(t) /\ task' = [task EXCEPT ![h] = t]
    BY <1>1, <1>5, <1>6, Types DEF TaskRec, TaskShape, Calls, Inviting, Using
  <2>. HIDE DEF t, k, r
  <2>2. task' \in [Handle -> TaskRec] /\ \A g \in Handle : TaskShape(task'[g])
    BY <2>1, OneTask
  <2>3. handle' \in [Handle -> HandleRec] /\ directory' \in [User -> DirectoryRec]
    BY <1>5, <1>6, UpdatedType, Types
  <2>. QED  BY <1>6, <2>2, <2>3, Types, Gathered DEF Heard
<1>7. CASE /\ k # None /\ handle[k].backend # None
           /\ CallFails(h, CalleeReset(handle, k), Updated(k, r), {task[h].mine, handle[k].backend})
  <2>. HIDE DEF k, r
  <2>1. {task[h].mine, handle[k].backend} \in SUBSET Backend
    BY <1>2, <1>5, <1>7
  <2>2. CalleeReset(handle, k) \in [Handle -> HandleRec] /\ Updated(k, r) \in [User -> DirectoryRec]
    BY <1>5, <1>7, CalleeResetType, UpdatedType
  <2>. QED  BY <1>7, <2>1, <2>2, CallFailsType
<1>. QED  BY <1>4, <1>6, <1>7 DEF Registered, CanReceive

LEMMA PeerAttachedType ==
    ASSUME IInv, NEW h \in Handle, PeerAttached(h) PROVE IInv'
<1>1. task[h] \in TaskRec /\ TaskShape(task[h]) /\ task[h].pc = "peerattach"
      /\ handle[task[h].callee].name # None /\ handle' = handle /\ directory' = directory
  BY Types DEF PeerAttached, At
<1>2. task[h].callee \in Handle /\ task[h].mine \in Backend
  BY <1>1 DEF TaskShape, Inviting, Using
<1>. PICK b \in Backend :
       /\ backend' = AttachedTo(b, backend[task[h].mine].server, task[h].callee)
       /\ task' = [task EXCEPT ![h].pc = "peerregister", ![h].theirs = b]
  BY DEF PeerAttached
<1>. DEFINE t == [task[h] EXCEPT !.pc = "peerregister", !.theirs = b]
<1>3. t \in TaskRec /\ TaskShape(t) /\ task' = [task EXCEPT ![h] = t]
  BY <1>1, Types DEF TaskRec, TaskShape, Calls, Inviting, Using
<1>. HIDE DEF t
<1>4. task' \in [Handle -> TaskRec] /\ \A g \in Handle : TaskShape(task'[g])
  BY <1>3, OneTask
<1>5. backend[task[h].mine].server \in Server \cup {None}
  BY <1>2, Types DEF BackendRec
<1>6. backend' \in [Backend -> BackendRec] /\ \A c \in Backend : Heard(c)'
  BY <1>1, <1>2, <1>5, NewBackendType
<1>. QED  BY <1>1, <1>4, <1>6, Types, Gathered

LEMMA PeerRegisteredType ==
    ASSUME IInv, NEW h \in Handle, PeerRegistered(h) PROVE IInv'
<1>1. task[h] \in TaskRec /\ TaskShape(task[h]) /\ task[h].pc = "peerregister"
      /\ backend' = backend /\ directory' = directory
      /\ handle' = [handle EXCEPT ![task[h].callee].backend = task[h].theirs,
                                  ![task[h].callee].timer = TRUE]
      /\ task' = [task EXCEPT ![h].pc = "calling", ![h].callee = None, ![h].theirs = None]
  BY Types DEF PeerRegistered, At, Connected
<1>2. task[h].callee \in Handle /\ task[h].theirs \in Backend
  BY <1>1 DEF TaskShape, Inviting
<1>3. handle' \in [Handle -> HandleRec]
  <2>. DEFINE k == task[h].callee
              r == [handle[k] EXCEPT !.backend = task[h].theirs, !.timer = TRUE]
  <2>1. r \in HandleRec
    BY <1>2, HandleType, Types
  <2>2. handle' = [handle EXCEPT ![k] = r]
    BY <1>1, <1>2, Types
  <2>. QED  BY <2>1, <2>2, Types
<1>. DEFINE t == [task[h] EXCEPT !.pc = "calling", !.callee = None, !.theirs = None]
<1>4. t \in TaskRec /\ TaskShape(t) /\ task' = [task EXCEPT ![h] = t]
  BY <1>1, Types DEF TaskRec, TaskShape, Calls, Inviting, Using
<1>. HIDE DEF t
<1>5. task' \in [Handle -> TaskRec] /\ \A g \in Handle : TaskShape(task'[g])
  BY <1>4, OneTask
<1>. QED  BY <1>1, <1>3, <1>5, Types, Gathered DEF Heard

LEMMA PeerConnectFailsType ==
    ASSUME IInv, NEW h \in Handle, PeerConnectFails(h) PROVE IInv'
<1>1. task[h] \in TaskRec /\ TaskShape(task[h]) /\ task[h].pc \in Inviting
  BY Types DEF PeerConnectFails, PeerUnreachable, At, Inviting
<1>2. task[h].callee \in Handle
  BY <1>1 DEF TaskShape
<1>3. (Locals(h) \cup {handle[task[h].callee].backend}) \ {None} \in SUBSET Backend
  BY <1>1, <1>2, Types DEF Locals, TaskRec, HandleRec
<1>. QED  BY <1>2, <1>3, CallFailsType, CalleeResetType, Types DEF PeerConnectFails

LEMMA CallAnsweredType ==
    ASSUME IInv, NEW h \in Handle, CallAnswered(h) PROVE IInv'
<1>1. task[h] \in TaskRec /\ TaskShape(task[h]) /\ task[h].pc = "calling"
      /\ backend' = backend /\ directory' = directory
      /\ handle' = [handle EXCEPT ![h].backend = task[h].mine]
      /\ task' = [task EXCEPT ![h] = NoTask]
  BY Types DEF CallAnswered, At
<1>2. task[h].mine \in Backend
  BY <1>1 DEF TaskShape, Using
<1>3. handle' \in [Handle -> HandleRec]
  BY <1>1, <1>2, HandleType, Types
<1>4. task' \in [Handle -> TaskRec] /\ \A g \in Handle : TaskShape(task'[g])
  BY <1>1, BlankTypes, OneTask
<1>. QED  BY <1>1, <1>3, <1>4, Types, Gathered DEF Heard

LEMMA CallRefusedType ==
    ASSUME IInv, NEW h \in Handle, CallRefused(h) PROVE IInv'
<1>1. TaskShape(task[h]) /\ task[h].pc = "calling"
  BY Types DEF CallRefused, At
<1>2. {task[h].mine} \in SUBSET Backend
  BY <1>1 DEF TaskShape, Using
<1>. QED  BY <1>2, CallFailsType, Types DEF CallRefused

(* What hangup leaves of the backend handles.                               *)
LEMMA HangupFields ==
    ASSUME IInv, NEW h \in Handle, Hangup(h)
    PROVE  /\ backend' \in [Backend -> BackendRec]
           /\ \A c \in Backend :
                LET e == backend'[c]
                IN /\ e.owner = backend[c].owner /\ e.server = backend[c].server
                   /\ e.name = backend[c].name /\ e.caller = backend[c].caller
                   /\ e.alive = backend[c].alive
                   /\ c = handle[h].backend => e.peer = None
                   /\ c = handle[h].backend /\ "late" \notin Faults => e.events = {}
                   /\ e.peer # None => e.peer = backend[c].peer
                                       /\ e.events = backend[c].events
                   /\ backend[c].peer = None => e.events \subseteq backend[c].events
                   /\ "incomingcall" \in e.events => "incomingcall" \in backend[c].events
<1>. DEFINE b == handle[h].backend
            new(c) == CASE b # None /\ c = b ->
                      [backend[c] EXCEPT !.peer = None,
                                         !.events = IF "late" \in Faults THEN @ ELSE {}]
                 [] b # None /\ c # b /\ backend[c].peer = b ->
                      [backend[c] EXCEPT !.peer = None, !.events = @ \cup {"hangup"}]
                 [] OTHER -> backend[c]
<1>1. backend' = [c \in Backend |-> new(c)]
  BY DEF Hangup
<1>. HIDE DEF b, new
<1>2. ASSUME NEW c \in Backend
      PROVE  LET e == new(c)
             IN /\ e \in BackendRec
                /\ e.owner = backend[c].owner /\ e.server = backend[c].server
                /\ e.name = backend[c].name /\ e.caller = backend[c].caller
                /\ e.alive = backend[c].alive
                /\ c = b => e.peer = None
                /\ c = b /\ "late" \notin Faults => e.events = {}
                /\ e.peer # None => e.peer = backend[c].peer
                                    /\ e.events = backend[c].events
                /\ backend[c].peer = None => e.events \subseteq backend[c].events
                /\ "incomingcall" \in e.events => "incomingcall" \in backend[c].events
  <2>1. backend[c] \in BackendRec /\ c # None
    BY Types, NoneApart
  <2>2. CASE c = b
    <3>. DEFINE E == IF "late" \in Faults THEN backend[c].events ELSE {}
    <3>0. new(c) = [backend[c] EXCEPT !.peer = None,
                                      !.events = IF "late" \in Faults THEN @ ELSE {}]
      BY <2>1, <2>2 DEF new
    <3>1. new(c) = [backend[c] EXCEPT !.peer = None, !.events = E]
      BY <3>0, <2>1 DEF BackendRec
    <3>2. /\ E \in SUBSET {"incomingcall", "hangup"} /\ E \subseteq backend[c].events
          /\ "late" \notin Faults => E = {}
      BY <2>1 DEF BackendRec
    <3>. HIDE DEF E
    <3>. QED  BY <2>1, <2>2, <3>1, <3>2 DEF BackendRec
  <2>3. CASE c # b /\ b # None /\ backend[c].peer = b
    <3>. DEFINE E == backend[c].events \cup {"hangup"}
    <3>1. new(c) = [backend[c] EXCEPT !.peer = None, !.events = E]
      BY <2>1, <2>3 DEF new, BackendRec
    <3>2. /\ E \in SUBSET {"incomingcall", "hangup"}
          /\ "incomingcall" \in E => "incomingcall" \in backend[c].events
      BY <2>1 DEF BackendRec
    <3>. HIDE DEF E
    <3>. QED  BY <2>1, <2>3, <3>1, <3>2 DEF BackendRec
  <2>4. CASE c # b /\ ~(b # None /\ backend[c].peer = b)
    <3>1. new(c) = backend[c]
      BY <2>4 DEF new
    <3>. QED  BY <2>1, <2>4, <3>1
  <2>. QED  BY <2>2, <2>3, <2>4
<1>3. backend' \in [Backend -> BackendRec]
  BY <1>1, <1>2
<1>. QED  BY <1>1, <1>2, <1>3 DEF b

LEMMA HangupType ==
    ASSUME IInv, NEW h \in Handle, Hangup(h) PROVE IInv'
<1>. DEFINE q == [handle[h] EXCEPT !.backend = None, !.timer = FALSE]
            r == NotInCall(q)
            t == [NoTask EXCEPT !.pc = "hangup", !.mine = handle[h].backend]
<1>1. /\ handle' = [handle EXCEPT ![h] = r] /\ directory' = Updated(h, r)
      /\ handle[h].backend = None => task' = task
      /\ handle[h].backend # None => task' = [task EXCEPT ![h] = t]
  BY DEF Hangup
<1>2. q \in HandleRec /\ r \in HandleRec
  BY Types, HandleType
<1>3. handle[h].backend # None => t \in TaskRec /\ TaskShape(t)
  <2>1. handle[h].backend \in Backend \cup {None}
    BY Types DEF HandleRec
  <2>. QED  BY <2>1 DEF NoTask, TaskRec, TaskShape, Calls, Inviting, Using
<1>. HIDE DEF q, r, t
<1>4. handle' \in [Handle -> HandleRec] /\ directory' \in [User -> DirectoryRec]
  BY <1>1, <1>2, UpdatedType, Types
<1>5. task' \in [Handle -> TaskRec] /\ \A g \in Handle : TaskShape(task'[g])
  BY <1>1, <1>3, OneTask, Types
<1>6. backend' \in [Backend -> BackendRec] /\ \A c \in Backend : Heard(c)'
  BY HangupFields, Types DEF Heard
<1>. QED  BY <1>4, <1>5, <1>6, Gathered

LEMMA HangupEndsType ==
    ASSUME IInv, NEW h \in Handle, HangupEnds(h) PROVE IInv'
<1>1. TaskShape(task[h]) /\ task[h].pc = "hangup" /\ handle' = handle /\ directory' = directory
      /\ task' = [task EXCEPT ![h] = NoTask] /\ backend' = Ended(backend, {task[h].mine})
  BY Types DEF HangupEnds, At
<1>2. {task[h].mine} \in SUBSET Backend
  BY <1>1 DEF TaskShape, Using
<1>. QED  BY <1>1, <1>2, BlankTypes, OneTask, EndedType, Types, Gathered

LEMMA DetachType ==
    ASSUME IInv, NEW h \in Handle, Detach(h) PROVE IInv'
<1>1. /\ handle' = [handle EXCEPT ![h] = [NewHandle EXCEPT !.gone = TRUE]]
      /\ directory' = Unlisted(h) /\ task' = task
      /\ backend' = Ended(backend, {handle[h].backend} \ {None})
  BY DEF Detach
<1>2. {handle[h].backend} \ {None} \in SUBSET Backend
  BY Types DEF HandleRec
<1>3. directory' \in [User -> DirectoryRec]
  BY <1>1, BlankTypes, Types DEF Unlisted
<1>. QED  BY <1>1, <1>2, <1>3, BlankTypes, EndedType, Types, Gathered

LEMMA AttachType ==
    ASSUME IInv, NEW h \in Handle, Attach(h) PROVE IInv'
BY BlankTypes, Types, Gathered DEF Attach, Heard

LEMMA AutoDisconnectType ==
    ASSUME IInv, NEW h \in Handle, AutoDisconnect(h) PROVE IInv'
<1>. DEFINE q == [handle[h] EXCEPT !.backend = None, !.timer = FALSE]
            r == NotInCall(q)
<1>1. /\ handle' = [handle EXCEPT ![h] = r] /\ task' = task
      /\ \/ directory' = directory /\ backend' = backend
         \/ /\ directory' = Updated(h, r)
            /\ backend' = Ended(backend, {handle[h].backend} \ {None})
  BY DEF AutoDisconnect
<1>2. q \in HandleRec /\ r \in HandleRec
  BY Types, HandleType
<1>3. {handle[h].backend} \ {None} \in SUBSET Backend
  BY Types DEF HandleRec
<1>. HIDE DEF q, r
<1>4. handle' \in [Handle -> HandleRec] /\ directory' \in [User -> DirectoryRec]
  BY <1>1, <1>2, UpdatedType, Types
<1>5. backend' \in [Backend -> BackendRec] /\ \A c \in Backend : Heard(c)'
  BY <1>1, <1>3, EndedType, Types DEF Heard
<1>. QED  BY <1>1, <1>4, <1>5, Types, Gathered

Ring(bs, b, c) == [bs EXCEPT ![b].peer = c, ![c].peer = b, ![c].caller = bs[b].name,
                             ![c].events = {"incomingcall"}]

LEMMA RingsFields ==
    ASSUME NEW bs \in [Backend -> BackendRec], NEW b \in Backend, NEW c \in Backend, NEW cs,
           cs = Ring(bs, b, c)
    PROVE  /\ cs \in [Backend -> BackendRec]
           /\ \A x \in Backend :
                /\ x \notin {b, c} => cs[x] = bs[x]
                /\ cs[x].owner = bs[x].owner /\ cs[x].server = bs[x].server
                /\ cs[x].name = bs[x].name /\ cs[x].alive = bs[x].alive
                /\ x # c => cs[x].events = bs[x].events
           /\ cs[c].caller = bs[b].name /\ cs[c].events = {"incomingcall"}
<1>1. bs[b] \in BackendRec /\ bs[c] \in BackendRec
  OBVIOUS
<1>2. CASE b # c
  <2>. DEFINE x == [bs[b] EXCEPT !.peer = c]
              y == [bs[c] EXCEPT !.peer = b, !.caller = bs[b].name, !.events = {"incomingcall"}]
  <2>1. cs = [bs EXCEPT ![b] = x, ![c] = y]
    BY <1>2 DEF Ring
  <2>2. x \in BackendRec /\ y \in BackendRec /\ x.owner = bs[b].owner
        /\ x.server = bs[b].server /\ x.name = bs[b].name /\ x.alive = bs[b].alive
        /\ x.events = bs[b].events
        /\ y.owner = bs[c].owner /\ y.server = bs[c].server
        /\ y.name = bs[c].name /\ y.alive = bs[c].alive
        /\ y.caller = bs[b].name /\ y.events = {"incomingcall"}
    BY <1>1 DEF BackendRec
  <2>. HIDE DEF x, y
  <2>3. cs \in [Backend -> BackendRec] /\ cs[b] = x /\ cs[c] = y
        /\ \A z \in Backend : z \notin {b, c} => cs[z] = bs[z]
    BY <1>2, <2>1, <2>2
  <2>. QED  BY <2>2, <2>3
<1>3. CASE b = c
  <2>. DEFINE y == [bs[c] EXCEPT !.peer = b, !.caller = bs[b].name, !.events = {"incomingcall"}]
  <2>1. cs = [bs EXCEPT ![c] = y]
    BY <1>3 DEF Ring
  <2>2. y \in BackendRec
        /\ y.owner = bs[c].owner /\ y.server = bs[c].server
        /\ y.name = bs[c].name /\ y.alive = bs[c].alive
        /\ y.caller = bs[b].name /\ y.events = {"incomingcall"}
    BY <1>1 DEF BackendRec
  <2>. HIDE DEF y
  <2>3. cs \in [Backend -> BackendRec] /\ cs[c] = y
        /\ \A z \in Backend : z \notin {b, c} => cs[z] = bs[z]
    BY <1>3, <2>1, <2>2
  <2>. QED  BY <1>3, <2>2, <2>3
<1>. QED  BY <1>2, <1>3

(* The call at the server: the caller's greenlet h has its answer; when it  *)
(* is ok, c is called.                                                      *)
Rings(b, c) ==
    /\ backend' \in [Backend -> BackendRec]
    /\ backend[c].peer = None
    /\ \A x \in Backend :
         /\ x \notin {b, c} => backend'[x] = backend[x]
         /\ backend'[x].owner = backend[x].owner /\ backend'[x].server = backend[x].server
         /\ backend'[x].name = backend[x].name /\ backend'[x].alive = backend[x].alive
         /\ x # c => backend'[x].events = backend[x].events
    /\ backend'[c].caller = backend[b].name
    /\ backend'[c].events = {"incomingcall"}

LEMMA JanusCallsFields ==
    ASSUME IInv, NEW h \in Handle, JanusCalls(h)
    PROVE  /\ At(h, "calling") /\ task[h].resp = "none" /\ task[h].mine \in Backend
           /\ handle' = handle /\ directory' = directory
           /\ \/ /\ task' = [task EXCEPT ![h] = [task[h] EXCEPT !.resp = "error"]]
                 /\ backend' = backend
              \/ /\ task' = [task EXCEPT ![h] = [task[h] EXCEPT !.resp = "ok"]]
                 /\ \E c \in Namesakes(task[h].mine, task[h].to) : Rings(task[h].mine, c)
<1>1. task[h] \in TaskRec /\ TaskShape(task[h]) /\ task[h].pc = "calling"
  BY Types DEF JanusCalls, At
<1>2. task[h].mine \in Backend
  BY <1>1 DEF TaskShape, Using
<1>. PICK b \in Backend : b = task[h].mine
  BY <1>2
<1>3. CASE task' = [task EXCEPT ![h].resp = "error"] /\ UNCHANGED backend
  BY <1>2, <1>3, Types DEF JanusCalls
<1>4. ASSUME NEW c \in Namesakes(b, task[h].to), backend[c].peer = None,
             backend' = Ring(backend, b, c)
      PROVE  Rings(b, c)
  <2>1. c \in Backend /\ backend \in [Backend -> BackendRec]
    BY Types DEF Namesakes
  <2>. QED  BY <1>4, <2>1, RingsFields DEF Rings
<1>5. CASE /\ task' = [task EXCEPT ![h].resp = "ok"]
           /\ \E c \in Namesakes(b, task[h].to) : Rings(b, c)
  BY <1>2, <1>5, Types DEF JanusCalls
<1>. QED  BY <1>2, <1>3, <1>4, <1>5 DEF JanusCalls, Ring

LEMMA JanusCallsType ==
    ASSUME IInv, NEW h \in Handle, JanusCalls(h) PROVE IInv'
<1>1. task[h] \in TaskRec /\ TaskShape(task[h]) /\ handle' = handle /\ directory' = directory
  BY Types DEF JanusCalls
<1>2. ASSUME NEW x \in {"ok", "error"}, task' = [task EXCEPT ![h] = [task[h] EXCEPT !.resp = x]]
      PROVE  task' \in [Handle -> TaskRec] /\ \A g \in Handle : TaskShape(task'[g])
  <2>. DEFINE t == [task[h] EXCEPT !.resp = x]
  <2>1. t \in TaskRec /\ TaskShape(t)
    BY <1>1 DEF TaskRec, TaskShape
  <2>. HIDE DEF t
  <2>2. task' = [task EXCEPT ![h] = t]
    BY <1>2 DEF t
  <2>. QED  BY <2>1, <2>2, OneTask
<1>3. task' \in [Handle -> TaskRec] /\ \A g \in Handle : TaskShape(task'[g])
  BY <1>2, JanusCallsFields
<1>4. backend' \in [Backend -> BackendRec] /\ \A x \in Backend : Heard(x)'
  BY JanusCallsFields, Types DEF Heard, Rings
<1>. QED  BY <1>1, <1>3, <1>4, Types, Gathered

LEMMA TakenFields ==
    ASSUME IInv, NEW b \in Backend, NEW e
    PROVE  /\ Taken(b, e) \in [Backend -> BackendRec]
           /\ \A c \in Backend :
                LET x == Taken(b, e)[c]
                IN /\ c # b => x = backend[c]
                   /\ x.owner = backend[c].owner /\ x.server = backend[c].server
                   /\ x.name = backend[c].name /\ x.caller = backend[c].caller
                   /\ x.alive = backend[c].alive /\ x.peer = backend[c].peer
                   /\ x.events \subseteq backend[c].events
                   /\ "incomingcall" \in backend[c].events /\ e # "incomingcall"
                        => "incomingcall" \in x.events
<1>. DEFINE y == [backend[b] EXCEPT !.events = backend[b].events \ {e}]
<1>1. Taken(b, e) = [backend EXCEPT ![b] = y]
  BY Types DEF Taken
<1>2. backend[b] \in BackendRec
  BY Types
<1>3. /\ y \in BackendRec /\ y.owner = backend[b].owner /\ y.server = backend[b].server
      /\ y.name = backend[b].name /\ y.caller = backend[b].caller
      /\ y.alive = backend[b].alive /\ y.peer = backend[b].peer
      /\ y.events = backend[b].events \ {e}
  BY <1>2 DEF BackendRec
<1>. HIDE DEF y
<1>. QED  BY <1>1, <1>3, Types

LEMMA TakenType ==
    ASSUME IInv, NEW b \in Backend, NEW e, NEW B \in SUBSET Backend,
           backend' = Taken(b, e) \/ backend' = Ended(Taken(b, e), B)
    PROVE  backend' \in [Backend -> BackendRec] /\ \A c \in Backend : Heard(c)'
BY TakenFields, EndedFields, Types DEF Heard

LEMMA IncomingCallType ==
    ASSUME IInv, NEW b \in Backend, IncomingCall(b) PROVE IInv'
<1>. DEFINE k == backend[b].owner
<1>1. k \in Handle
  BY Types DEF IncomingCall, Delivered, Heard
<1>2. /\ handle' = [handle EXCEPT ![k] = TimerStopped(handle[k], backend[b].caller)]
      /\ backend' = Taken(b, "incomingcall") /\ directory' = directory /\ task' = task
  BY Types, <1>1 DEF IncomingCall
<1>3. handle' \in [Handle -> HandleRec]
  BY <1>1, <1>2, HandleType, Types DEF TimerStopped
<1>. QED  BY <1>2, <1>3, TakenType, Types, Gathered

LEMMA HangupEventType ==
    ASSUME IInv, NEW b \in Backend, HangupEvent(b) PROVE IInv'
<1>. DEFINE k == backend[b].owner
            q == [handle[k] EXCEPT !.backend = None, !.timer = FALSE]
            r == NotInCall(q)
<1>1. k \in Handle
  BY Types DEF HangupEvent, Delivered, Heard
<1>2. /\ task' = task
      /\ \/ /\ handle' = [handle EXCEPT ![k] = r] /\ directory' = Updated(k, r)
            /\ backend' = Ended(Taken(b, "hangup"), {handle[k].backend} \ {None})
         \/ backend' = Taken(b, "hangup") /\ UNCHANGED <<handle, directory>>
  BY DEF HangupEvent
<1>3. q \in HandleRec /\ r \in HandleRec
  BY <1>1, Types, HandleType
<1>4. {handle[k].backend} \ {None} \in SUBSET Backend
  BY <1>1, Types DEF HandleRec
<1>. HIDE DEF q, r
<1>5. handle' \in [Handle -> HandleRec] /\ directory' \in [User -> DirectoryRec]
  BY <1>1, <1>2, <1>3, UpdatedType, Types
<1>6. backend' \in [Backend -> BackendRec] /\ \A c \in Backend : Heard(c)'
  BY <1>2, <1>4, TakenType
<1>. QED  BY <1>2, <1>5, <1>6, Types, Gathered

LEMMA BackendLostType ==
    ASSUME IInv, NEW b \in Backend, BackendLost(b) PROVE IInv'
<1>. DEFINE k == backend[b].owner
            q == [handle[k] EXCEPT !.backend = None, !.timer = FALSE]
            r == NotInCall(q)
<1>1. k \in Handle
  BY Types DEF BackendLost, Heard
<1>2. /\ handle' = [handle EXCEPT ![k] = r] /\ backend' = Ended(backend, {b})
      /\ directory' = directory /\ task' = task
  BY Types, <1>1 DEF BackendLost
<1>3. q \in HandleRec /\ r \in HandleRec
  BY <1>1, Types, HandleType
<1>. HIDE DEF q, r
<1>4. handle' \in [Handle -> HandleRec]
  BY <1>1, <1>2, <1>3, Types
<1>. QED  BY <1>2, <1>4, EndedType, Types, Gathered

LEMMA InvStep == ASSUME IInv, [Next]_vars PROVE IInv'
<1>1. ASSUME NEW h \in Handle, Progress(h) PROVE IInv'
  BY <1>1, AttachedType, ConnectFailsType, RegisteredType, PeerAttachedType, PeerRegisteredType,
     PeerConnectFailsType, JanusCallsType, CallAnsweredType, CallRefusedType, HangupEndsType
     DEF Progress
<1>2. ASSUME NEW h \in Handle,
             \/ Hangup(h) \/ Detach(h) \/ Attach(h) \/ AutoDisconnect(h)
             \/ \E u \in User : Register(h, u) \/ Call(h, u)
      PROVE  IInv'
  BY <1>2, HangupType, DetachType, AttachType, AutoDisconnectType, RegisterType, CallType
<1>3. ASSUME NEW b \in Backend, Event(b) \/ BackendLost(b) PROVE IInv'
  BY <1>3, IncomingCallType, HangupEventType, BackendLostType DEF Event
<1>. QED  BY <1>1, <1>2, <1>3, InvStutter DEF Next

(* Every variable has its type, whatever goes wrong.                        *)
THEOREM TypeCorrect == Spec => []TypeOK
<1>1. IInv => TypeOK
  BY DEF IInv
<1>. QED  BY <1>1, InvInit, InvStep, PTL DEF Spec

(* What a step does to the handles and to the greenlets, by the field.      *)
OthersStay(h) == \A k \in Handle : k # h => handle'[k] = handle[k]

After(k, incall, peer, b, timer) ==
    /\ handle'[k].gone = handle[k].gone /\ handle'[k].name = handle[k].name
    /\ handle'[k].incall = incall /\ handle'[k].peer = peer
    /\ handle'[k].backend = b /\ handle'[k].timer = timer

Goes(h, pc, to, callee, mine, theirs, resp) ==
    /\ \A g \in Handle : g # h => task'[g] = task[g]
    /\ task'[h].pc = pc /\ task'[h].to = to /\ task'[h].callee = callee
    /\ task'[h].mine = mine /\ task'[h].theirs = theirs /\ task'[h].resp = resp

Rests(h) == Goes(h, "idle", None, None, None, None, "none")

\* Handle k is entered in the directory, under its name, or nothing is.
Enters(ds, k) == \A u \in User : \/ ds[u].handle = directory[u].handle
                                 \/ ds[u].handle = k /\ handle[k].name = u

\* Some handles are hung up, as far as they have a name.
HungUp(k) == After(k, FALSE, None, None, FALSE)

Failed(hs, k) == /\ hs[k].gone = handle[k].gone /\ hs[k].name = handle[k].name
                 /\ hs[k].backend = None /\ hs[k].timer = handle[k].timer
                 /\ IF handle[k].name = None
                    THEN hs[k].incall = handle[k].incall /\ hs[k].peer = handle[k].peer
                    ELSE ~hs[k].incall /\ hs[k].peer = None

LEMMA NotInCallFields ==
    ASSUME NEW r \in HandleRec
    PROVE  /\ NotInCall(r).gone = r.gone /\ NotInCall(r).name = r.name
           /\ NotInCall(r).incall = FALSE /\ NotInCall(r).peer = None
           /\ NotInCall(r).backend = r.backend /\ NotInCall(r).timer = r.timer
BY DEF NotInCall, HandleRec

LEMMA UpdatedFields ==
    ASSUME IInv, NEW h \in Handle, NEW r, r.name = handle[h].name
    PROVE  Enters(Updated(h, r), h)
BY Types DEF Updated, Enters, DirectoryRec

LEMMA RestsTask ==
    ASSUME IInv, NEW h \in Handle, task' = [task EXCEPT ![h] = NoTask]
    PROVE  Rests(h)
BY Types DEF Rests, Goes, NoTask

LEMMA RegisterFields ==
    ASSUME IInv, NEW h \in Handle, NEW u \in User, Register(h, u)
    PROVE  /\ OthersStay(h) /\ handle'[h].gone = handle[h].gone /\ handle'[h].name = u
           /\ handle'[h].incall = handle[h].incall /\ handle'[h].peer = handle[h].peer
           /\ handle'[h].backend = handle[h].backend /\ handle'[h].timer = handle[h].timer
           /\ \A v \in User : directory'[v].handle = IF v = u THEN h ELSE directory[v].handle
           /\ task' = task /\ backend' = backend
<1>1. handle[h] \in HandleRec
  BY Types
<1>. DEFINE r == [handle[h] EXCEPT !.name = u]
<1>2. handle' = [handle EXCEPT ![h] = r]
  BY Types DEF Register
<1>3. /\ r.gone = handle[h].gone /\ r.name = u /\ r.incall = handle[h].incall
      /\ r.peer = handle[h].peer /\ r.backend = handle[h].backend /\ r.timer = handle[h].timer
  BY <1>1 DEF HandleRec
<1>. HIDE DEF r
<1>4. \A v \in User : directory'[v].handle = IF v = u THEN h ELSE directory[v].handle
  BY Types DEF Register
<1>. QED  BY <1>2, <1>3, <1>4, Types DEF Register, OthersStay

LEMMA CallFields ==
    ASSUME IInv, NEW h \in Handle, NEW u \in User, Call(h, u)
    PROVE  /\ OthersStay(h) /\ After(h, TRUE, u, None, handle[h].timer)
           /\ Enters(directory', h) /\ backend' = backend
           /\ \/ handle[h].backend = None /\ Goes(h, "attach", u, None, None, None, "none")
              \/ handle[h].backend # None /\ task' = task
<1>1. handle[h] \in HandleRec
  BY Types
<1>. DEFINE q == [handle[h] EXCEPT !.incall = TRUE, !.peer = u]
            r == [q EXCEPT !.backend = None]
            t == [NoTask EXCEPT !.pc = "attach", !.to = u]
<1>2. /\ handle' = [handle EXCEPT ![h] = r] /\ directory' = Updated(h, q) /\ backend' = backend
      /\ \/ handle[h].backend = None /\ task' = [task EXCEPT ![h] = t]
         \/ handle[h].backend # None /\ task' = task
  BY <1>1 DEF Call, HandleRec
<1>3. /\ r.gone = handle[h].gone /\ r.name = handle[h].name /\ r.incall = TRUE
      /\ r.peer = u /\ r.backend = None /\ r.timer = handle[h].timer /\ q.name = handle[h].name
  BY <1>1 DEF HandleRec
<1>4. /\ t.pc = "attach" /\ t.to = u /\ t.callee = None /\ t.mine = None /\ t.theirs = None
      /\ t.resp = "none"
  BY DEF NoTask
<1>. HIDE DEF q, r, t
<1>5. OthersStay(h) /\ After(h, TRUE, u, None, handle[h].timer)
  BY <1>2, <1>3, Types DEF OthersStay, After
<1>6. Enters(directory', h)
  BY <1>2, <1>3, UpdatedFields
<1>7. task' = [task EXCEPT ![h] = t] => Goes(h, "attach", u, None, None, None, "none")
  BY <1>4, Types DEF Goes
<1>. QED  BY <1>2, <1>5, <1>6, <1>7

LEMMA CallFailsFields ==
    ASSUME IInv, NEW h \in Handle, NEW hs \in [Handle -> HandleRec],
           NEW ds \in [User -> DirectoryRec], NEW B, CallFails(h, hs, ds, B)
    PROVE  /\ \A k \in Handle : k # h => handle'[k] = hs[k]
           /\ handle'[h].gone = hs[h].gone /\ handle'[h].name = hs[h].name
           /\ handle'[h].backend = None /\ handle'[h].timer = hs[h].timer
           /\ IF hs[h].name = None
              THEN handle'[h].incall = hs[h].incall /\ handle'[h].peer = hs[h].peer
              ELSE ~handle'[h].incall /\ handle'[h].peer = None
           /\ \A u \in User : \/ directory'[u].handle = ds[u].handle
                              \/ directory'[u].handle = h /\ hs[h].name = u
           /\ Rests(h) /\ backend' = Ended(backend, B)
<1>. DEFINE q == [hs[h] EXCEPT !.backend = None]
            r == NotInCall(q)
<1>1. hs[h] \in HandleRec /\ q \in HandleRec
  BY HandleType
<1>2. /\ q.gone = hs[h].gone /\ q.name = hs[h].name /\ q.incall = hs[h].incall
      /\ q.peer = hs[h].peer /\ q.backend = None /\ q.timer = hs[h].timer
  BY <1>1 DEF HandleRec
<1>3. /\ r.gone = q.gone /\ r.name = q.name /\ r.incall = FALSE
      /\ r.peer = None /\ r.backend = None /\ r.timer = q.timer
  BY <1>1, <1>2, NotInCallFields
<1>4. /\ backend' = Ended(backend, B) /\ task' = [task EXCEPT ![h] = NoTask]
      /\ \/ /\ r.name = None /\ directory' = ds
            /\ handle' = [hs EXCEPT ![h] = q]
         \/ /\ r.name # None /\ handle' = [hs EXCEPT ![h] = r]
            /\ directory' = [ds EXCEPT ![r.name] = [handle |-> h, incall |-> FALSE]]
  BY DEF CallFails
<1>. HIDE DEF q, r
<1>5. ASSUME NEW u \in User
      PROVE  \/ directory'[u].handle = ds[u].handle
             \/ directory'[u].handle = h /\ hs[h].name = u
  <2>. DEFINE d == [handle |-> h, incall |-> FALSE]
  <2>1. d.handle = h /\ ds[u] \in DirectoryRec
    OBVIOUS
  <2>2. directory' = ds \/ directory' = [ds EXCEPT ![r.name] = d]
    BY <1>4
  <2>. HIDE DEF d
  <2>3. directory'[u] = ds[u] \/ (directory'[u] = d /\ r.name = u)
    BY <2>2
  <2>. QED  BY <1>2, <1>3, <2>1, <2>3
<1>. QED  BY <1>1, <1>2, <1>3, <1>4, <1>5, RestsTask

LEMMA CalleeResetFields ==
    ASSUME IInv, NEW k \in Handle
    PROVE  /\ CalleeReset(handle, k) \in [Handle -> HandleRec]
           /\ \A f \in Handle : f # k => CalleeReset(handle, k)[f] = handle[f]
           /\ Failed(CalleeReset(handle, k), k)
<1>. DEFINE q == [handle[k] EXCEPT !.backend = None]
            r == NotInCall(q)
<1>1. handle[k] \in HandleRec /\ q \in HandleRec
  BY HandleType, Types
<1>2. /\ q.gone = handle[k].gone /\ q.name = handle[k].name /\ q.incall = handle[k].incall
      /\ q.peer = handle[k].peer /\ q.backend = None /\ q.timer = handle[k].timer
  BY <1>1 DEF HandleRec
<1>3. /\ r.gone = q.gone /\ r.name = q.name /\ r.incall = FALSE
      /\ r.peer = None /\ r.backend = None /\ r.timer = q.timer
  BY <1>1, <1>2, NotInCallFields
<1>4. CalleeReset(handle, k) = [handle EXCEPT ![k] = IF handle[k].name = None THEN q ELSE r]
  BY Types DEF CalleeReset
<1>. HIDE DEF q, r
<1>5. CalleeReset(handle, k)[k] = IF handle[k].name = None THEN q ELSE r
  BY <1>4, Types
<1>6. \A f \in Handle : f # k => CalleeReset(handle, k)[f] = handle[f]
  BY <1>4, Types
<1>. QED  BY <1>2, <1>3, <1>5, <1>6, CalleeResetType DEF Failed

LEMMA AttachedFields ==
    ASSUME IInv, NEW h \in Handle, Attached(h)
    PROVE  /\ handle' = handle /\ directory' = directory
           /\ \E b \in Backend, s \in Server :
                /\ FreeBackend(b) /\ backend' = AttachedTo(b, s, h)
                /\ Goes(h, "register", task[h].to, None, b, None, task[h].resp)
<1>. PICK b \in Backend, s \in Server :
       /\ FreeBackend(b) /\ backend' = AttachedTo(b, s, h)
       /\ task' = [task EXCEPT ![h].pc = "register", ![h].mine = b]
  BY DEF Attached
<1>1. task[h] \in TaskRec /\ TaskShape(task[h]) /\ task[h].pc = "attach"
  BY Types DEF Attached, At
<1>. DEFINE t == [task[h] EXCEPT !.pc = "register", !.mine = b]
<1>2. task' = [task EXCEPT ![h] = t]
  BY Types
<1>3. /\ t.pc = "register" /\ t.to = task[h].to /\ t.callee = None /\ t.mine = b /\ t.theirs = None
      /\ t.resp = task[h].resp
  BY <1>1 DEF TaskRec, TaskShape, Inviting
<1>. HIDE DEF t
<1>4. Goes(h, "register", task[h].to, None, b, None, task[h].resp)
  BY <1>2, <1>3, Types DEF Goes
<1>. QED  BY <1>4 DEF Attached

LEMMA ConnectFailsFields ==
    ASSUME IInv, NEW h \in Handle, ConnectFails(h)
    PROVE  /\ OthersStay(h)
           /\ After(h, handle[h].incall, handle[h].peer, None, handle[h].timer)
           /\ directory' = directory /\ Rests(h)
           /\ backend' = Ended(backend, {task[h].mine} \ {None})
<1>1. handle[h] \in HandleRec
  BY Types
<1>. DEFINE r == [handle[h] EXCEPT !.backend = None]
<1>2. /\ r.gone = handle[h].gone /\ r.name = handle[h].name /\ r.incall = handle[h].incall
      /\ r.peer = handle[h].peer /\ r.backend = None /\ r.timer = handle[h].timer
  BY <1>1 DEF HandleRec
<1>3. handle' = [handle EXCEPT ![h] = r]
  BY Types DEF ConnectFails
<1>. HIDE DEF r
<1>. QED  BY <1>2, <1>3, Types, RestsTask DEF ConnectFails, OthersStay, After

\* The two sides of a call that could not be set up.
BothFail(h, k) ==
    /\ \A f \in Handle : f \notin {h, k} => handle'[f] = handle[f]
    /\ Failed(handle', h) /\ Failed(handle', k)
    /\ \A u \in User : \/ directory'[u].handle = directory[u].handle
                       \/ directory'[u].handle = h /\ handle[h].name = u
                       \/ directory'[u].handle = k /\ handle[k].name = u
    /\ Rests(h)

LEMMA CallFailsAlone ==
    ASSUME IInv, NEW h \in Handle, NEW B, CallFails(h, handle, directory, B)
    PROVE  /\ OthersStay(h) /\ Failed(handle', h) /\ Enters(directory', h) /\ Rests(h)
           /\ backend' = Ended(backend, B)
BY CallFailsFields, Types DEF OthersStay, Failed, Enters

LEMMA CallFailsBoth ==
    ASSUME IInv, NEW h \in Handle, NEW k \in Handle, NEW ds \in [User -> DirectoryRec], NEW B,
           CallFails(h, CalleeReset(handle, k), ds, B), Enters(ds, k)
    PROVE  BothFail(h, k) /\ backend' = Ended(backend, B)
<1>. DEFINE hs == CalleeReset(handle, k)
<1>1. /\ hs \in [Handle -> HandleRec] /\ \A f \in Handle : f # k => hs[f] = handle[f]
      /\ Failed(hs, k)
  BY CalleeResetFields
<1>2. CallFails(h, hs, ds, B)
  OBVIOUS
<1>. HIDE DEF hs
<1>3. /\ \A f \in Handle : f # h => handle'[f] = hs[f]
      /\ handle'[h].gone = hs[h].gone /\ handle'[h].name = hs[h].name
      /\ handle'[h].backend = None /\ handle'[h].timer = hs[h].timer
      /\ hs[h].name = None => handle'[h].incall = hs[h].incall /\ handle'[h].peer = hs[h].peer
      /\ hs[h].name # None => ~handle'[h].incall /\ handle'[h].peer = None
      /\ \A u \in User : \/ directory'[u].handle = ds[u].handle
                         \/ directory'[u].handle = h /\ hs[h].name = u
      /\ Rests(h) /\ backend' = Ended(backend, B)
  BY <1>1, <1>2, CallFailsFields
<1>4. CASE h = k
  <2>1. Failed(handle', h)
    BY <1>1, <1>3, <1>4 DEF Failed
  <2>. QED  BY <1>1, <1>3, <1>4, <2>1 DEF BothFail, Failed, Enters
<1>5. CASE h # k
  <2>1. Failed(handle', h) /\ Failed(handle', k)
    BY <1>1, <1>3, <1>5 DEF Failed
  <2>. QED  BY <1>1, <1>3, <1>5, <2>1 DEF BothFail, Enters
<1>. QED  BY <1>4, <1>5

(* Handle k is invited by the greenlet of h.                                *)
Invites(h, k) ==
    /\ handle[k].backend = None /\ handle[h].name # None
    /\ OthersStay(k) /\ After(k, TRUE, handle[h].name, None, handle[k].timer)
    /\ Enters(directory', k) /\ backend' = backend
    /\ Goes(h, "peerattach", task[h].to, k, task[h].mine, None, task[h].resp)

LEMMA RegisteredFields ==
    ASSUME IInv, NEW h \in Handle, Registered(h)
    PROVE  /\ At(h, "register") /\ task[h].mine \in Backend /\ CanRegister(task[h].mine)
           /\ task[h].to \in User
           /\ \/ /\ OthersStay(h) /\ Failed(handle', h) /\ Enters(directory', h) /\ Rests(h)
                 /\ backend' = Ended(backend, {task[h].mine})
              \/ \E k \in Handle :
                   /\ k = directory[task[h].to].handle
                   /\ handle[k].name # None /\ ~handle[k].incall
                   /\ \/ Invites(h, k)
                      \/ /\ handle[k].backend # None /\ BothFail(h, k)
                         /\ backend' = Ended(backend, {task[h].mine, handle[k].backend})
<1>1. task[h] \in TaskRec /\ TaskShape(task[h]) /\ task[h].pc = "register"
  BY Types DEF Registered, At
<1>2. task[h].mine \in Backend /\ task[h].to \in User /\ task[h].theirs = None
  BY <1>1 DEF TaskShape, Using, Calls
<1>3. /\ directory[task[h].to].handle \in Handle \cup {None}
      /\ At(h, "register") /\ CanRegister(task[h].mine)
  BY <1>2, Types DEF DirectoryRec, Registered
<1>. PICK k \in Handle \cup {None} : k = directory[task[h].to].handle
  BY <1>3
<1>. DEFINE r == [handle[k] EXCEPT !.incall = TRUE, !.peer = handle[h].name]
            t == [task[h] EXCEPT !.pc = "peerattach", !.callee = k]
<1>4. CASE CallFails(h, handle, directory, {task[h].mine})
  BY <1>2, <1>3, <1>4, CallFailsAlone
<1>5. CASE /\ handle[h].name # None /\ CanReceive(k) /\ handle[k].backend = None
           /\ handle' = [handle EXCEPT ![k] = r] /\ directory' = Updated(k, r)
           /\ task' = [task EXCEPT ![h].pc = "peerattach", ![h].callee = k]
           /\ UNCHANGED backend
  <2>1. k \in Handle /\ handle[k].name # None /\ ~handle[k].incall /\ handle[k] \in HandleRec
    BY <1>5, Types DEF CanReceive, CalleeBusy
  <2>2. /\ r.gone = handle[k].gone /\ r.name = handle[k].name /\ r.incall = TRUE
        /\ r.peer = handle[h].name /\ r.backend = None /\ r.timer = handle[k].timer
    BY <2>1, <1>5 DEF HandleRec
  <2>3. task' = [task EXCEPT ![h] = t]
    BY <1>5, Types
  <2>4. /\ t.pc = "peerattach" /\ t.to = task[h].to /\ t.callee = k /\ t.mine = task[h].mine
        /\ t.theirs = None /\ t.resp = task[h].resp
    BY <1>1, <1>2 DEF TaskRec
  <2>. HIDE DEF r, t
  <2>5. Enters(directory', k)
    BY <1>5, <2>1, <2>2, UpdatedFields
  <2>6. OthersStay(k) /\ After(k, TRUE, handle[h].name, None, handle[k].timer)
    BY <1>5, <2>1, <2>2, Types DEF OthersStay, After
  <2>7. Goes(h, "peerattach", task[h].to, k, task[h].mine, None, task[h].resp)
    BY <2>3, <2>4, Types DEF Goes
  <2>. QED  BY <1>2, <1>3, <1>5, <2>1, <2>5, <2>6, <2>7 DEF Invites
<1>6. CASE /\ handle[h].name # None /\ CanReceive(k) /\ handle[k].backend # None
           /\ CallFails(h, CalleeReset(handle, k), Updated(k, r),
                        {task[h].mine, handle[k].backend})
  <2>1. k \in Handle /\ handle[k].name # None /\ ~handle[k].incall /\ handle[k] \in HandleRec
    BY <1>6, Types DEF CanReceive, CalleeBusy
  <2>2. r \in HandleRec /\ r.name = handle[k].name
    BY <2>1, HandleType, Types DEF HandleRec
  <2>. HIDE DEF r
  <2>3. Updated(k, r) \in [User -> DirectoryRec] /\ Enters(Updated(k, r), k)
    BY <2>1, <2>2, UpdatedFields, UpdatedType
  <2>4. BothFail(h, k) /\ backend' = Ended(backend, {task[h].mine, handle[k].backend})
    BY <1>6, <2>1, <2>3, CallFailsBoth
  <2>. QED  BY <1>2, <1>3, <1>6, <2>1, <2>4
<1>. QED  BY <1>4, <1>5, <1>6 DEF Registered

LEMMA PeerAttachedFields ==
    ASSUME IInv, NEW h \in Handle, PeerAttached(h)
    PROVE  /\ At(h, "peerattach") /\ task[h].callee \in Handle /\ task[h].mine \in Backend
           /\ handle[task[h].callee].name # None
           /\ handle' = handle /\ directory' = directory
           /\ \E b \in Backend :
                /\ FreeBackend(b)
                /\ backend' = AttachedTo(b, backend[task[h].mine].server, task[h].callee)
                /\ Goes(h, "peerregister", task[h].to, task[h].callee, task[h].mine, b,
                        task[h].resp)
<1>. PICK b \in Backend :
       /\ FreeBackend(b)
       /\ backend' = AttachedTo(b, backend[task[h].mine].server, task[h].callee)
       /\ task' = [task EXCEPT ![h].pc = "peerregister", ![h].theirs = b]
  BY DEF PeerAttached
<1>1. task[h] \in TaskRec /\ TaskShape(task[h]) /\ task[h].pc = "peerattach"
  BY Types DEF PeerAttached, At
<1>2. task[h].callee \in Handle /\ task[h].mine \in Backend
  BY <1>1 DEF TaskShape, Inviting, Using
<1>. DEFINE t == [task[h] EXCEPT !.pc = "peerregister", !.theirs = b]
<1>3. task' = [task EXCEPT ![h] = t]
  BY Types
<1>4. /\ t.pc = "peerregister" /\ t.to = task[h].to /\ t.callee = task[h].callee
      /\ t.mine = task[h].mine /\ t.theirs = b /\ t.resp = task[h].resp
  BY <1>1 DEF TaskRec
<1>. HIDE DEF t
<1>5. Goes(h, "peerregister", task[h].to, task[h].callee, task[h].mine, b, task[h].resp)
  BY <1>3, <1>4, Types DEF Goes
<1>. QED  BY <1>2, <1>5 DEF PeerAttached

LEMMA PeerRegisteredFields ==
    ASSUME IInv, NEW h \in Handle, PeerRegistered(h)
    PROVE  LET k == task[h].callee
           IN /\ At(h, "peerregister") /\ k \in Handle /\ task[h].theirs \in Backend
              /\ task[h].mine \in Backend
              /\ CanRegister(task[h].theirs)
              /\ OthersStay(k)
              /\ After(k, handle[k].incall, handle[k].peer, task[h].theirs, TRUE)
              /\ directory' = directory /\ backend' = backend
              /\ Goes(h, "calling", task[h].to, None, task[h].mine, None, task[h].resp)
<1>1. task[h] \in TaskRec /\ TaskShape(task[h]) /\ task[h].pc = "peerregister"
  BY Types DEF PeerRegistered, At
<1>2. task[h].callee \in Handle /\ task[h].theirs \in Backend /\ task[h].mine \in Backend
  BY <1>1 DEF TaskShape, Inviting, Using
<1>. PICK k \in Handle : k = task[h].callee
  BY <1>2
<1>. DEFINE t == [task[h] EXCEPT !.pc = "calling", !.callee = None, !.theirs = None]
            r == [handle[k] EXCEPT !.backend = task[h].theirs, !.timer = TRUE]
<1>3. task' = [task EXCEPT ![h] = t] /\ handle' = [handle EXCEPT ![k] = r]
  BY Types DEF PeerRegistered, Connected
<1>4. /\ t.pc = "calling" /\ t.to = task[h].to /\ t.callee = None
      /\ t.mine = task[h].mine /\ t.theirs = None /\ t.resp = task[h].resp
  BY <1>1 DEF TaskRec
<1>5. handle[k] \in HandleRec
  BY Types
<1>6. /\ r.gone = handle[k].gone /\ r.name = handle[k].name /\ r.incall = handle[k].incall
      /\ r.peer = handle[k].peer /\ r.backend = task[h].theirs /\ r.timer = TRUE
  BY <1>5 DEF HandleRec
<1>. HIDE DEF t, r
<1>7. Goes(h, "calling", task[h].to, None, task[h].mine, None, task[h].resp)
  BY <1>3, <1>4, Types DEF Goes
<1>8. OthersStay(k) /\ After(k, handle[k].incall, handle[k].peer, task[h].theirs, TRUE)
  BY <1>3, <1>6, Types DEF OthersStay, After
<1>. QED  BY <1>2, <1>7, <1>8 DEF PeerRegistered

LEMMA PeerConnectFailsFields ==
    ASSUME IInv, NEW h \in Handle, PeerConnectFails(h)
    PROVE  /\ task[h].pc \in Inviting /\ task[h].callee \in Handle /\ task[h].mine \in Backend
           /\ BothFail(h, task[h].callee)
           /\ backend' = Ended(backend, (Locals(h) \cup {handle[task[h].callee].backend})
                                          \ {None})
<1>1. task[h] \in TaskRec /\ TaskShape(task[h]) /\ task[h].pc \in Inviting
  BY Types DEF PeerConnectFails, PeerUnreachable, At, Inviting
<1>2. task[h].callee \in Handle /\ task[h].mine \in Backend
  BY <1>1 DEF TaskShape, Inviting, Using
<1>3. Enters(directory, task[h].callee) /\ directory \in [User -> DirectoryRec]
  BY Types DEF Enters
<1>. QED  BY <1>1, <1>2, <1>3, CallFailsBoth DEF PeerConnectFails

LEMMA CallAnsweredFields ==
    ASSUME IInv, NEW h \in Handle, CallAnswered(h)
    PROVE  /\ At(h, "calling") /\ task[h].resp = "ok" /\ task[h].mine \in Backend
           /\ backend[task[h].mine].alive
           /\ OthersStay(h)
           /\ After(h, handle[h].incall, handle[h].peer, task[h].mine, handle[h].timer)
           /\ directory' = directory /\ backend' = backend /\ Rests(h)
<1>1. task[h] \in TaskRec /\ TaskShape(task[h]) /\ task[h].pc = "calling"
  BY Types DEF CallAnswered, At
<1>2. task[h].mine \in Backend
  BY <1>1 DEF TaskShape, Using
<1>. DEFINE r == [handle[h] EXCEPT !.backend = task[h].mine]
<1>3. handle' = [handle EXCEPT ![h] = r]
  BY Types DEF CallAnswered
<1>4. handle[h] \in HandleRec
  BY Types
<1>5. /\ r.gone = handle[h].gone /\ r.name = handle[h].name /\ r.incall = handle[h].incall
      /\ r.peer = handle[h].peer /\ r.backend = task[h].mine /\ r.timer = handle[h].timer
  BY <1>4 DEF HandleRec
<1>. HIDE DEF r
<1>. QED  BY <1>2, <1>3, <1>5, Types, RestsTask DEF CallAnswered, OthersStay, After

LEMMA CallRefusedFields ==
    ASSUME IInv, NEW h \in Handle, CallRefused(h)
    PROVE  /\ At(h, "calling") /\ task[h].mine \in Backend
           /\ OthersStay(h) /\ Failed(handle', h) /\ Enters(directory', h) /\ Rests(h)
           /\ backend' = Ended(backend, {task[h].mine})
<1>1. TaskShape(task[h]) /\ task[h].pc = "calling"
  BY Types DEF CallRefused, At
<1>2. task[h].mine \in Backend
  BY <1>1 DEF TaskShape, Using
<1>. QED  BY <1>2, CallFailsAlone DEF CallRefused

LEMMA QuitFields ==
    ASSUME NEW r \in HandleRec
    PROVE  LET q == NotInCall([r EXCEPT !.backend = None, !.timer = FALSE])
           IN /\ q \in HandleRec /\ q.gone = r.gone /\ q.name = r.name /\ q.incall = FALSE
              /\ q.peer = None /\ q.backend = None /\ q.timer = FALSE
<1>. DEFINE p == [r EXCEPT !.backend = None, !.timer = FALSE]
<1>1. p \in HandleRec
  BY HandleType
<1>2. p.gone = r.gone /\ p.name = r.name /\ p.backend = None /\ p.timer = FALSE
  BY DEF HandleRec
<1>. HIDE DEF p
<1>3. NotInCall(p) \in HandleRec
  BY <1>1, HandleType
<1>4. /\ NotInCall(p).gone = r.gone /\ NotInCall(p).name = r.name /\ NotInCall(p).incall = FALSE
      /\ NotInCall(p).peer = None /\ NotInCall(p).backend = None /\ NotInCall(p).timer = FALSE
  BY <1>1, <1>2, NotInCallFields
<1>. QED  BY <1>3, <1>4 DEF p

\* Handle k has left its call, on its own.
Quits(k) == OthersStay(k) /\ HungUp(k)

LEMMA QuitsAs ==
    ASSUME IInv, NEW k \in Handle,
           handle' = [handle EXCEPT ![k] =
                        NotInCall([handle[k] EXCEPT !.backend = None, !.timer = FALSE])]
    PROVE  Quits(k)
<1>. DEFINE q == NotInCall([handle[k] EXCEPT !.backend = None, !.timer = FALSE])
<1>1. /\ q \in HandleRec /\ q.gone = handle[k].gone /\ q.name = handle[k].name
      /\ q.incall = FALSE /\ q.peer = None /\ q.backend = None /\ q.timer = FALSE
  BY QuitFields, Types
<1>2. handle' = [handle EXCEPT ![k] = q]
  OBVIOUS
<1>. HIDE DEF q
<1>. QED  BY <1>1, <1>2, Types DEF Quits, OthersStay, HungUp, After

LEMMA QuitEnters ==
    ASSUME IInv, NEW k \in Handle,
           directory' = Updated(k, NotInCall([handle[k] EXCEPT !.backend = None, !.timer = FALSE]))
    PROVE  Enters(directory', k)
BY QuitFields, UpdatedFields, Types

LEMMA HangupEffect ==
    ASSUME IInv, NEW h \in Handle, Hangup(h)
    PROVE  /\ At(h, "idle") /\ handle[h].incall
           /\ (handle[h].backend # None /\ ~handle[h].timer) \/ "early" \in Faults
           /\ Quits(h) /\ Enters(directory', h)
           /\ \/ handle[h].backend = None /\ task' = task
              \/ /\ handle[h].backend # None
                 /\ Goes(h, "hangup", None, None, handle[h].backend, None, "none")
<1>. DEFINE t == [NoTask EXCEPT !.pc = "hangup", !.mine = handle[h].backend]
<1>1. Quits(h) /\ Enters(directory', h)
  BY QuitsAs, QuitEnters DEF Hangup
<1>2. \/ handle[h].backend = None /\ task' = task
      \/ handle[h].backend # None /\ task' = [task EXCEPT ![h] = t]
  BY DEF Hangup
<1>3. /\ t.pc = "hangup" /\ t.to = None /\ t.callee = None
      /\ t.mine = handle[h].backend /\ t.theirs = None /\ t.resp = "none"
  BY DEF NoTask
<1>. HIDE DEF t
<1>4. task' = [task EXCEPT ![h] = t] =>
        Goes(h, "hangup", None, None, handle[h].backend, None, "none")
  BY <1>3, Types DEF Goes
<1>. QED  BY <1>1, <1>2, <1>4 DEF Hangup

LEMMA HangupEndsEffect ==
    ASSUME IInv, NEW h \in Handle, HangupEnds(h)
    PROVE  /\ At(h, "hangup") /\ task[h].mine \in Backend /\ Rests(h)
           /\ handle' = handle /\ directory' = directory
           /\ backend' = Ended(backend, {task[h].mine})
BY Types, RestsTask DEF HangupEnds, At, TaskShape, Using

LEMMA DetachFields ==
    ASSUME IInv, NEW h \in Handle, Detach(h)
    PROVE  /\ OthersStay(h) /\ handle'[h].gone /\ handle'[h].name = None
           /\ ~handle'[h].incall /\ handle'[h].peer = None
           /\ handle'[h].backend = None /\ ~handle'[h].timer
           /\ \A u \in User : directory'[u].handle =
                IF handle[h].name = u /\ directory[u].handle = h THEN None
                ELSE directory[u].handle
           /\ task' = task /\ backend' = Ended(backend, {handle[h].backend} \ {None})
           /\ ~handle[h].gone /\ "detach" \in Faults
<1>. DEFINE r == [NewHandle EXCEPT !.gone = TRUE]
<1>1. handle' = [handle EXCEPT ![h] = r] /\ directory' = Unlisted(h) /\ handle[h] \in HandleRec
  BY Types DEF Detach
<1>2. /\ r.gone = TRUE /\ r.name = None /\ r.incall = FALSE /\ r.peer = None
      /\ r.backend = None /\ r.timer = FALSE
  BY DEF NewHandle
<1>3. NotListed.handle = None /\ handle[h].name \in User \cup {None} /\ None \notin User
  BY <1>1, NoneApart DEF NotListed, HandleRec
<1>. HIDE DEF r
<1>4. \A u \in User : directory'[u].handle =
        IF handle[h].name = u /\ directory[u].handle = h THEN None ELSE directory[u].handle
  BY <1>1, <1>3, Types DEF Unlisted
<1>. QED  BY <1>1, <1>2, <1>4, Types DEF Detach, OthersStay

LEMMA AttachFields ==
    ASSUME IInv, NEW h \in Handle, Attach(h)
    PROVE  /\ OthersStay(h) /\ ~handle'[h].gone /\ handle'[h].name = None
           /\ ~handle'[h].incall /\ handle'[h].peer = None
           /\ handle'[h].backend = None /\ ~handle'[h].timer
           /\ directory' = directory /\ task' = task /\ backend' = backend
BY Types DEF Attach, OthersStay, NewHandle

LEMMA IncomingCallFields ==
    ASSUME IInv, NEW b \in Backend, IncomingCall(b)
    PROVE  LET k == backend[b].owner
           IN /\ k \in Handle /\ OthersStay(k)
              /\ After(k, handle[k].incall, handle[k].peer, handle[k].backend,
                       IF handle[k].incall /\ handle[k].peer = backend[b].caller THEN FALSE
                       ELSE handle[k].timer)
              /\ directory' = directory /\ task' = task
              /\ backend' = Taken(b, "incomingcall")
<1>1. backend[b].owner \in Handle
  BY Types DEF IncomingCall, Delivered, Heard
<1>. PICK k \in Handle : k = backend[b].owner
  BY <1>1
<1>. DEFINE r == TimerStopped(handle[k], backend[b].caller)
<1>2. handle' = [handle EXCEPT ![k] = r] /\ handle[k] \in HandleRec
  BY Types DEF IncomingCall
<1>3. /\ r.gone = handle[k].gone /\ r.name = handle[k].name /\ r.incall = handle[k].incall
      /\ r.peer = handle[k].peer /\ r.backend = handle[k].backend
      /\ r.timer = IF handle[k].incall /\ handle[k].peer = backend[b].caller THEN FALSE
                   ELSE handle[k].timer
  BY <1>2 DEF TimerStopped, HandleRec
<1>. HIDE DEF r
<1>4. OthersStay(k)
      /\ After(k, handle[k].incall, handle[k].peer, handle[k].backend,
               IF handle[k].incall /\ handle[k].peer = backend[b].caller THEN FALSE
               ELSE handle[k].timer)
  BY <1>2, <1>3, Types DEF OthersStay, After
<1>. QED  BY <1>4 DEF IncomingCall

LEMMA HangupEventFields ==
    ASSUME IInv, NEW b \in Backend, HangupEvent(b)
    PROVE  LET k == backend[b].owner
           IN /\ k \in Handle /\ Delivered(b, "hangup") /\ task' = task
              /\ \/ /\ handle[k].name # None /\ handle[k].incall
                    /\ Quits(k) /\ Enters(directory', k)
                    /\ backend' = Ended(Taken(b, "hangup"), {handle[k].backend} \ {None})
                 \/ /\ handle[k].name = None \/ ~handle[k].incall
                    /\ backend' = Taken(b, "hangup")
                    /\ handle' = handle /\ directory' = directory
<1>1. backend[b].owner \in Handle
  BY Types DEF HangupEvent, Delivered, Heard
<1>. QED  BY <1>1, QuitsAs, QuitEnters DEF HangupEvent

LEMMA BackendLostFields ==
    ASSUME IInv, NEW b \in Backend, BackendLost(b)
    PROVE  /\ "loss" \in Faults /\ backend[b].owner \in Handle /\ Quits(backend[b].owner)
           /\ directory' = directory /\ task' = task /\ backend' = Ended(backend, {b})
<1>1. backend[b].owner \in Handle
  BY Types DEF BackendLost, Heard
<1>. PICK k \in Handle : k = backend[b].owner
  BY <1>1
<1>2. handle' = [handle EXCEPT ![k] =
                   NotInCall([handle[k] EXCEPT !.backend = None, !.timer = FALSE])]
  BY Types DEF BackendLost
<1>. QED  BY <1>2, QuitsAs DEF BackendLost

LEMMA AutoDisconnectFields ==
    ASSUME IInv, NEW k \in Handle, AutoDisconnect(k)
    PROVE  /\ handle[k].timer /\ ("slow" \in Faults \/ ~Expected(k))
           /\ Quits(k) /\ task' = task
           /\ \/ /\ handle[k].name = None /\ directory' = directory /\ backend' = backend
              \/ /\ handle[k].name # None /\ Enters(directory', k)
                 /\ backend' = Ended(backend, {handle[k].backend} \ {None})
<1>. DEFINE q == NotInCall([handle[k] EXCEPT !.backend = None, !.timer = FALSE])
<1>1. Quits(k)
  BY QuitsAs DEF AutoDisconnect
<1>2. q.name = handle[k].name
  BY QuitFields, Types
<1>3. \/ q.name = None /\ directory' = directory /\ backend' = backend
      \/ /\ q.name # None /\ directory' = Updated(k, q)
         /\ backend' = Ended(backend, {handle[k].backend} \ {None})
  BY DEF AutoDisconnect
<1>4. directory' = Updated(k, q) => Enters(directory', k)
  BY QuitEnters
<1>. HIDE DEF q
<1>. QED  BY <1>1, <1>2, <1>3, <1>4 DEF AutoDisconnect

-----------------------------------------------------------------------------
(* A handle that was detached has no user, and who has no user is not in a  *)
(* call: whoever goes on with a detached handle enters nothing.             *)
Nameless(h) == /\ handle[h].gone => handle[h].name = None
               /\ handle[h].name = None => ~handle[h].incall

ListInv == /\ IInv
           /\ \A h \in Handle : Nameless(h)
           /\ ListedIsThere

(* What all steps but register, detach and attach do: nobody changes his    *)
(* name, enters a call from another one or from nowhere, or enters another  *)
(* name than his own in the directory.                                      *)
Steady(k) == /\ handle'[k].name = handle[k].name /\ handle'[k].gone = handle[k].gone
             /\ handle'[k].incall => \/ handle[k].incall /\ handle'[k].peer = handle[k].peer
                                     \/ ~handle[k].incall /\ handle[k].name # None

Entered == \A u \in User : \/ directory'[u].handle = directory[u].handle
                           \/ /\ directory'[u].handle \in Handle
                              /\ handle[directory'[u].handle].name = u

SteadyStep == Entered /\ \A k \in Handle : Steady(k)

LEMMA OneEnters == ASSUME NEW k \in Handle, Enters(directory', k) PROVE Entered
BY DEF Enters, Entered

LEMMA NobodyEnters == ASSUME directory' = directory PROVE Entered
BY DEF Entered

LEMMA FailedIsSteady ==
    ASSUME NEW k \in Handle, Failed(handle', k) PROVE Steady(k)
BY DEF Failed, Steady

LEMMA BothFailIsSteady ==
    ASSUME NEW h \in Handle, NEW k \in Handle, BothFail(h, k) PROVE SteadyStep
<1>1. Steady(h) /\ Steady(k)
  BY FailedIsSteady DEF BothFail
<1>2. \A f \in Handle : f \notin {h, k} => Steady(f)
  BY DEF BothFail, Steady
<1>3. Entered
  BY DEF BothFail, Entered
<1>. QED  BY <1>1, <1>2, <1>3 DEF SteadyStep

LEMMA AloneIsSteady ==
    ASSUME NEW h \in Handle, OthersStay(h), Steady(h), Entered PROVE SteadyStep
BY DEF OthersStay, Steady, SteadyStep

LEMMA QuitsIsSteady == ASSUME NEW k \in Handle, Quits(k) PROVE OthersStay(k) /\ Steady(k)
BY DEF Quits, HungUp, After, Steady

LEMMA SetUpIsSteady ==
    ASSUME IInv, NEW h \in Handle,
           \/ Attached(h) \/ ConnectFails(h) \/ Registered(h) \/ PeerAttached(h)
           \/ PeerRegistered(h) \/ PeerConnectFails(h) \/ CallAnswered(h) \/ CallRefused(h)
           \/ JanusCalls(h) \/ HangupEnds(h) \/ \E u \in User : Call(h, u)
    PROVE  SteadyStep
<1>1. ASSUME Attached(h) \/ PeerAttached(h) \/ JanusCalls(h) \/ HangupEnds(h)
      PROVE  SteadyStep
  BY <1>1, AttachedFields, PeerAttachedFields, JanusCallsFields, HangupEndsEffect, NobodyEnters
     DEF Steady, SteadyStep
<1>2. ASSUME ConnectFails(h) \/ CallAnswered(h) PROVE SteadyStep
  <2>1. OthersStay(h) /\ Steady(h) /\ directory' = directory
    BY <1>2, ConnectFailsFields, CallAnsweredFields DEF After, Steady
  <2>. QED  BY <2>1, NobodyEnters, AloneIsSteady
<1>3. ASSUME CallRefused(h) PROVE SteadyStep
  BY <1>3, CallRefusedFields, FailedIsSteady, OneEnters, AloneIsSteady
<1>4. ASSUME Registered(h) PROVE SteadyStep
  <2>1. ASSUME NEW k \in Handle, handle[k].name # None, ~handle[k].incall, Invites(h, k)
        PROVE  SteadyStep
    <3>1. OthersStay(k) /\ Steady(k) /\ Enters(directory', k)
      BY <2>1 DEF Invites, After, Steady
    <3>. QED  BY <3>1, OneEnters, AloneIsSteady
  <2>2. ASSUME OthersStay(h), Failed(handle', h), Enters(directory', h) PROVE SteadyStep
    BY <2>2, FailedIsSteady, OneEnters, AloneIsSteady
  <2>. QED  BY <1>4, <2>1, <2>2, RegisteredFields, BothFailIsSteady
<1>5. ASSUME PeerRegistered(h) PROVE SteadyStep
  <2>1. PICK k \in Handle : /\ OthersStay(k) /\ directory' = directory
                            /\ \E b, x : After(k, handle[k].incall, handle[k].peer, b, x)
    BY <1>5, PeerRegisteredFields
  <2>2. Steady(k)
    BY <2>1 DEF After, Steady
  <2>. QED  BY <2>1, <2>2, NobodyEnters, AloneIsSteady
<1>6. ASSUME PeerConnectFails(h) PROVE SteadyStep
  BY <1>6, PeerConnectFailsFields, BothFailIsSteady
<1>7. ASSUME NEW u \in User, Call(h, u) PROVE SteadyStep
  <2>1. handle[h].name # None /\ ~handle[h].incall
    BY <1>7 DEF Call
  <2>2. OthersStay(h) /\ Steady(h) /\ Enters(directory', h)
    BY <1>7, <2>1, CallFields DEF After, Steady
  <2>. QED  BY <2>2, OneEnters, AloneIsSteady
<1>. QED  BY <1>1, <1>2, <1>3, <1>4, <1>5, <1>6, <1>7

LEMMA EndsAreSteady ==
    ASSUME IInv,
           \/ \E h \in Handle : Hangup(h) \/ AutoDisconnect(h)
           \/ \E b \in Backend : IncomingCall(b) \/ HangupEvent(b) \/ BackendLost(b)
    PROVE  SteadyStep
<1>1. ASSUME NEW h \in Handle, Hangup(h) \/ AutoDisconnect(h) PROVE SteadyStep
  BY <1>1, HangupEffect, AutoDisconnectFields, QuitsIsSteady, OneEnters, NobodyEnters,
     AloneIsSteady
<1>2. ASSUME NEW b \in Backend, IncomingCall(b) PROVE SteadyStep
  <2>1. PICK k \in Handle : /\ OthersStay(k) /\ directory' = directory
                            /\ \E x : After(k, handle[k].incall, handle[k].peer,
                                            handle[k].backend, x)
    BY <1>2, IncomingCallFields
  <2>2. Steady(k)
    BY <2>1 DEF After, Steady
  <2>. QED  BY <2>1, <2>2, NobodyEnters, AloneIsSteady
<1>3. ASSUME NEW b \in Backend, HangupEvent(b) PROVE SteadyStep
  <2>1. CASE handle' = handle /\ directory' = directory
    BY <2>1, NobodyEnters DEF Steady, SteadyStep
  <2>2. PICK k \in Handle : \/ Quits(k) /\ Enters(directory', k)
                            \/ handle' = handle /\ directory' = directory
    BY <1>3, HangupEventFields
  <2>. QED  BY <2>1, <2>2, QuitsIsSteady, OneEnters, AloneIsSteady
<1>4. ASSUME NEW b \in Backend, BackendLost(b) PROVE SteadyStep
  BY <1>4, BackendLostFields, QuitsIsSteady, NobodyEnters, AloneIsSteady
<1>. QED  BY <1>1, <1>2, <1>3, <1>4

\* The steps of Next by what they do to names.
LEMMA Steps ==
    ASSUME IInv, [Next]_vars
    PROVE  \/ SteadyStep
           \/ \E h \in Handle : Detach(h) \/ Attach(h) \/ \E u \in User : Register(h, u)
<1>1. UNCHANGED vars => SteadyStep
  BY NobodyEnters DEF vars, SteadyStep, Steady
<1>. QED  BY <1>1, SetUpIsSteady, EndsAreSteady DEF Next, Progress, Event

LEMMA ListInit == Init => ListInv
BY InvInit DEF Init, ListInv, Nameless, ListedIsThere, NewHandle, NotListed

LEMMA ListStep == ASSUME ListInv, [Next]_vars PROVE ListInv'
<1>1. IInv /\ IInv'
  BY InvStep DEF ListInv
<1>2. /\ \A k \in Handle : Nameless(k)
      /\ \A u \in User : directory[u].handle \in Handle \cup {None}
      /\ \A u \in User : directory[u].handle # None =>
            ~handle[directory[u].handle].gone /\ handle[directory[u].handle].name = u
  BY <1>1, Types DEF ListInv, ListedIsThere, DirectoryRec
<1>3. ASSUME SteadyStep PROVE ListInv'
  <2>1. \A k \in Handle : Nameless(k)'
    BY <1>2, <1>3 DEF SteadyStep, Steady, Nameless
  <2>2. ASSUME NEW u \in User, directory'[u].handle # None
        PROVE  /\ ~handle'[directory'[u].handle].gone
               /\ handle'[directory'[u].handle].name = u
    <3>1. /\ directory'[u].handle \in Handle /\ handle[directory'[u].handle].name = u
          /\ ~handle[directory'[u].handle].gone
      BY <1>2, <1>3, <2>2, NoneApart DEF SteadyStep, Entered, Nameless
    <3>. QED  BY <1>3, <3>1 DEF SteadyStep, Steady
  <2>. QED  BY <1>1, <2>1, <2>2 DEF ListInv, ListedIsThere
<1>4. ASSUME NEW h \in Handle, NEW u \in User, Register(h, u) PROVE ListInv'
  <2>1. /\ OthersStay(h) /\ handle'[h].gone = handle[h].gone /\ handle'[h].name = u
        /\ \A v \in User : directory'[v].handle = IF v = u THEN h ELSE directory[v].handle
        /\ ~handle[h].gone /\ handle[h].name = None
    BY <1>1, <1>4, RegisterFields DEF Register
  <2>. QED  BY <1>1, <1>2, <2>1, NoneApart DEF ListInv, ListedIsThere, Nameless, OthersStay
<1>5. ASSUME NEW h \in Handle, Detach(h) PROVE ListInv'
  <2>1. /\ OthersStay(h) /\ handle'[h].gone /\ handle'[h].name = None /\ ~handle'[h].incall
        /\ \A u \in User : directory'[u].handle =
                IF handle[h].name = u /\ directory[u].handle = h THEN None
                ELSE directory[u].handle
    BY <1>1, <1>5, DetachFields
  <2>. QED  BY <1>1, <1>2, <2>1, NoneApart DEF ListInv, ListedIsThere, Nameless, OthersStay
<1>6. ASSUME NEW h \in Handle, Attach(h) PROVE ListInv'
  <2>1. /\ OthersStay(h) /\ ~handle'[h].gone /\ handle'[h].name = None /\ ~handle'[h].incall
        /\ directory' = directory /\ handle[h].gone
    BY <1>1, <1>6, AttachFields DEF Attach
  <2>. QED  BY <1>1, <1>2, <2>1, NoneApart DEF ListInv, ListedIsThere, Nameless, OthersStay
<1>. QED  BY <1>1, <1>3, <1>4, <1>5, <1>6, Steps

(* A name in the directory leads to a handle that is there under this name, *)
(* with every fault.                                                        *)
THEOREM ListedIsThereHolds == Spec => []ListedIsThere
<1>1. ListInv => ListedIsThere
  BY DEF ListInv
<1>. QED  BY <1>1, ListInit, ListStep, PTL DEF Spec

(* A handle in a call is not taken into another one, with every fault.      *)
THEOREM NotTakenOverHolds == Spec => NotTakenOver
<1>1. ASSUME IInv, [Next]_vars
      PROVE  [\A h \in Handle : handle[h].incall /\ handle'[h].incall
                                  => handle'[h].peer = handle[h].peer]_vars
  <2>1. SteadyStep => \A h \in Handle : handle[h].incall /\ handle'[h].incall
                                          => handle'[h].peer = handle[h].peer
    BY DEF SteadyStep, Steady
  <2>2. ASSUME NEW k \in Handle, Detach(k) \/ Attach(k) \/ \E u \in User : Register(k, u)
        PROVE  \A h \in Handle : handle[h].incall /\ handle'[h].incall
                                   => handle'[h].peer = handle[h].peer
    <3>1. OthersStay(k) /\ (handle'[k].incall => handle'[k].peer = handle[k].peer)
      BY <1>1, <2>2, DetachFields, AttachFields, RegisterFields
    <3>. QED  BY <3>1 DEF OthersStay
  <2>. QED  BY <1>1, <2>1, <2>2, Steps
<1>. QED  BY <1>1, InvInit, InvStep, PTL DEF Spec, NotTakenOver

-----------------------------------------------------------------------------
(* The backend handles in B are closed, and no other opened.                *)
Closes(B) ==
    \A c \in Backend :
        /\ backend'[c].owner = backend[c].owner /\ backend'[c].server = backend[c].server
        /\ backend'[c].name = backend[c].name
        /\ backend'[c].alive <=> backend[c].alive /\ c \notin B

\* Backend handle b is opened for handle h at server s.
Opens(b, s, h) ==
    /\ \A c \in Backend : c # b => backend'[c] = backend[c]
    /\ backend'[b].owner = h /\ backend'[b].server = s /\ backend'[b].alive
    /\ backend'[b].name = handle[h].name
    /\ backend'[b].peer = None /\ backend'[b].events = {}

LEMMA EndedCloses ==
    ASSUME IInv, NEW B \in SUBSET Backend, backend' = Ended(backend, B) PROVE Closes(B)
BY EndedFields, Types DEF Closes

LEMMA SameCloses == ASSUME backend' = backend PROVE Closes({})
BY DEF Closes

LEMMA TakenCloses ==
    ASSUME IInv, NEW b \in Backend, NEW e, backend' = Taken(b, e) PROVE Closes({})
BY TakenFields DEF Closes

LEMMA TakenEndedCloses ==
    ASSUME IInv, NEW b \in Backend, NEW e, NEW B \in SUBSET Backend,
           backend' = Ended(Taken(b, e), B)
    PROVE  Closes(B)
BY TakenFields, EndedFields DEF Closes

LEMMA AttachedOpens ==
    ASSUME IInv, NEW b \in Backend, NEW s, NEW h \in Handle, backend' = AttachedTo(b, s, h)
    PROVE  Opens(b, s, h)
<1>. DEFINE e == [Unattached EXCEPT !.owner = h, !.server = s, !.alive = TRUE,
                                    !.name = handle[h].name]
<1>1. /\ e.owner = h /\ e.server = s /\ e.alive = TRUE /\ e.name = handle[h].name
      /\ e.peer = None /\ e.events = {}
  BY DEF Unattached
<1>2. backend' = [backend EXCEPT ![b] = e]
  BY DEF AttachedTo
<1>. HIDE DEF e
<1>. QED  BY <1>1, <1>2, Types DEF Opens

\* The steps of Next by the backend handles they close or open.
ClosingStep == \E B \in SUBSET Backend : Closes(B)

OpeningStep(h) == \/ Attached(h) \/ PeerAttached(h)

LEMMA StepsOfBackends ==
    ASSUME IInv, [Next]_vars
    PROVE  ClosingStep \/ \E h \in Handle : OpeningStep(h)
<1>1. ASSUME NEW B \in SUBSET Backend, backend' = Ended(backend, B) PROVE ClosingStep
  BY <1>1, EndedCloses DEF ClosingStep
<1>2. backend' = backend => ClosingStep
  BY SameCloses DEF ClosingStep
<1>3. ASSUME NEW h \in Handle,
             \/ Progress(h) /\ ~OpeningStep(h)
             \/ Hangup(h) \/ Detach(h) \/ Attach(h) \/ AutoDisconnect(h)
             \/ \E u \in User : Register(h, u) \/ Call(h, u)
      PROVE  ClosingStep
  <2>0. /\ handle[h].backend \in Backend \cup {None} /\ task[h] \in TaskRec
        /\ \A k \in Handle : handle[k].backend \in Backend \cup {None}
    BY Types DEF HandleRec
  <2>1. {task[h].mine} \ {None} \in SUBSET Backend
    BY <2>0 DEF TaskRec
  <2>2. CASE ConnectFails(h)
    BY <1>1, <2>1, <2>2, ConnectFailsFields
  <2>3. CASE Registered(h)
    <3>2. task[h].mine \in Backend
      BY <2>3, RegisteredFields
    <3>3. ASSUME NEW k \in Handle, handle[k].backend # None
          PROVE  {task[h].mine, handle[k].backend} \in SUBSET Backend
      BY <2>0, <3>2, <3>3
    <3>4. \/ backend' = backend
          \/ backend' = Ended(backend, {task[h].mine})
          \/ \E k \in Handle : /\ handle[k].backend # None
                               /\ backend' = Ended(backend, {task[h].mine, handle[k].backend})
      BY <2>3, RegisteredFields DEF Invites
    <3>. QED  BY <1>1, <1>2, <3>2, <3>3, <3>4
  <2>4. CASE PeerConnectFails(h)
    <3>1. task[h].callee \in Handle
      BY <2>4, PeerConnectFailsFields
    <3>2. (Locals(h) \cup {handle[task[h].callee].backend}) \ {None} \in SUBSET Backend
      BY <2>0, <3>1 DEF TaskRec, Locals
    <3>. QED  BY <1>1, <2>4, <3>2, PeerConnectFailsFields
  <2>5. CASE JanusCalls(h)
    <3>1. \/ backend' = backend \/ \E c : Rings(task[h].mine, c)
      BY <2>5, JanusCallsFields
    <3>2. (\E c : Rings(task[h].mine, c)) => Closes({})
      BY DEF Rings, Closes
    <3>. QED  BY <1>2, <3>1, <3>2 DEF ClosingStep
  <2>6. CASE Hangup(h)
    <3>1. Closes({})
      BY <2>6, HangupFields DEF Closes
    <3>. QED  BY <3>1 DEF ClosingStep
  <2>7. CASE Detach(h) \/ AutoDisconnect(h)
    <3>1. {handle[h].backend} \ {None} \in SUBSET Backend
      BY <2>0
    <3>. QED  BY <1>1, <1>2, <2>7, <3>1, DetachFields, AutoDisconnectFields
  <2>8. CASE CallRefused(h) \/ HangupEnds(h)
    <3>1. /\ task[h].mine \in Backend
          /\ backend' = Ended(backend, {task[h].mine})
      BY <2>8, CallRefusedFields, HangupEndsEffect
    <3>. QED  BY <1>1, <3>1
  <2>9. CASE \/ PeerRegistered(h) \/ CallAnswered(h) \/ Attach(h)
             \/ \E u \in User : Register(h, u) \/ Call(h, u)
    BY <1>2, <2>9, PeerRegisteredFields, CallAnsweredFields, AttachFields, RegisterFields,
       CallFields
  <2>. QED  BY <1>3, <2>2, <2>3, <2>4, <2>5, <2>6, <2>7, <2>8, <2>9 DEF Progress, OpeningStep
<1>4. ASSUME NEW b \in Backend, IncomingCall(b) \/ HangupEvent(b) PROVE ClosingStep
  <2>1. \/ \E e : backend' = Taken(b, e)
        \/ \E k \in Handle : backend' = Ended(Taken(b, "hangup"), {handle[k].backend} \ {None})
    BY <1>4, IncomingCallFields, HangupEventFields
  <2>2. \A k \in Handle : {handle[k].backend} \ {None} \in SUBSET Backend
    BY Types DEF HandleRec
  <2>3. Closes({}) \/ \E k \in Handle : Closes({handle[k].backend} \ {None})
    BY <2>1, <2>2, TakenCloses, TakenEndedCloses
  <2>. QED  BY <2>2, <2>3 DEF ClosingStep
<1>5. ASSUME NEW b \in Backend, BackendLost(b) PROVE ClosingStep
  BY <1>1, <1>5, BackendLostFields
<1>6. UNCHANGED vars => ClosingStep
  BY <1>2 DEF vars
<1>. QED  BY <1>3, <1>4, <1>5, <1>6 DEF Next, Event, Progress, OpeningStep

-----------------------------------------------------------------------------
(* Without namesakes a name belongs to one handle, here and at the servers. *)
Named(h) == handle[h].name # None

New(h) == ~handle[h].gone /\ handle[h].name = None

OwnName(b) == backend[b].alive =>
    LET k == backend[b].owner
    IN /\ Named(k) => handle[k].name = backend[b].name
       /\ \A h \in Handle : handle[h].name = backend[b].name => h = k
       /\ \A c \in Backend : backend[c].alive /\ backend[c].name = backend[b].name
                               => backend[c].owner = k
       /\ ~New(k)

OneEach == \A h, k \in Handle : Named(h) /\ handle[h].name = handle[k].name => h = k

NameInv == /\ ListInv
           /\ OneEach
           /\ \A b \in Backend : OwnName(b)

LEMMA OpeningFields ==
    ASSUME IInv, NEW h \in Handle, OpeningStep(h)
    PROVE  /\ handle' = handle
           /\ \E b \in Backend, s \in Server \cup {None}, k \in Handle :
                Opens(b, s, k) /\ Named(k) /\ FreeBackend(b)
<1>1. CASE Attached(h)
  <2>1. handle' = handle /\ Named(h)
    BY <1>1 DEF Attached, Named
  <2>2. PICK b \in Backend, s \in Server : FreeBackend(b) /\ backend' = AttachedTo(b, s, h)
    BY <1>1, AttachedFields
  <2>3. Opens(b, s, h)
    BY <2>2, AttachedOpens
  <2>. QED  BY <2>1, <2>2, <2>3
<1>2. CASE PeerAttached(h)
  <2>1. handle' = handle /\ Named(task[h].callee) /\ task[h].callee \in Handle
        /\ backend[task[h].mine].server \in Server \cup {None}
    BY <1>2, PeerAttachedFields, Types DEF Named, BackendRec
  <2>. PICK k \in Handle : k = task[h].callee
    BY <2>1
  <2>. PICK s \in Server \cup {None} : s = backend[task[h].mine].server
    BY <2>1
  <2>2. PICK b \in Backend : FreeBackend(b) /\ backend' = AttachedTo(b, s, k)
    BY <1>2, PeerAttachedFields
  <2>3. Opens(b, s, k)
    BY <2>2, AttachedOpens
  <2>. QED  BY <2>1, <2>2, <2>3
<1>. QED  BY <1>1, <1>2 DEF OpeningStep

LEMMA NameInit == Init => NameInv
BY ListInit, NoneApart DEF Init, NameInv, OneEach, OwnName, Named, NewHandle, Unattached

LEMMA NameClosing ==
    ASSUME NameInv, NEW B \in SUBSET Backend, Closes(B),
           \A k \in Handle : handle'[k].name = handle[k].name /\ handle'[k].gone = handle[k].gone
    PROVE  OneEach' /\ \A b \in Backend : OwnName(b)'
<1>1. OneEach'
  BY DEF NameInv, OneEach, Named
<1>2. ASSUME NEW b \in Backend, backend'[b].alive PROVE OwnName(b)'
  <2>1. OwnName(b) /\ backend[b].alive /\ backend'[b].owner = backend[b].owner
        /\ backend[b].owner \in Handle
    BY <1>2, Types DEF NameInv, ListInv, Closes, Heard
  <2>. QED  BY <1>2, <2>1 DEF OwnName, Closes, Named, New
<1>3. ASSUME NEW b \in Backend, ~backend'[b].alive PROVE OwnName(b)'
  BY <1>3 DEF OwnName
<1>. QED  BY <1>1, <1>2, <1>3

LEMMA NameOpening ==
    ASSUME NameInv, NEW b \in Backend, NEW s, NEW k \in Handle, Opens(b, s, k), Named(k),
           handle' = handle, FreeBackend(b)
    PROVE  OneEach' /\ \A c \in Backend : OwnName(c)'
<1>1. OneEach'
  BY DEF NameInv, OneEach, Named
<1>2. /\ backend'[b].owner = k /\ backend'[b].name = handle[k].name /\ backend'[b].alive
      /\ \A c \in Backend : c # b => backend'[c] = backend[c]
      /\ ~backend[b].alive
  BY DEF Opens, FreeBackend
<1>3. OwnName(b)'
  <2>1. \A h \in Handle : handle[h].name = handle[k].name => h = k
    BY DEF NameInv, OneEach
  <2>2. \A c \in Backend : c # b /\ backend[c].alive /\ backend[c].name = handle[k].name
                             => backend[c].owner = k
    BY DEF NameInv, OwnName
  <2>. QED  BY <1>2, <2>1, <2>2 DEF OwnName, Named, New
<1>4. ASSUME NEW c \in Backend, c # b PROVE OwnName(c)'
  <2>1. OwnName(c) /\ backend'[c] = backend[c]
    BY <1>2, <1>4 DEF NameInv
  <2>2. backend[c].alive /\ backend[c].name = handle[k].name => backend[c].owner = k
    BY <2>1 DEF OwnName
  <2>. QED  BY <1>2, <2>1, <2>2 DEF OwnName, Named, New
<1>. QED  BY <1>1, <1>3, <1>4

LEMMA NameStep ==
    ASSUME NameInv, [Next]_vars, "namesake" \notin Faults PROVE NameInv'
<1>1. IInv /\ ListInv' /\ OneEach /\ \A b \in Backend : OwnName(b) /\ Heard(b)
  BY ListStep, Types DEF NameInv, ListInv
<1>2. ASSUME NEW h \in Handle, OpeningStep(h) PROVE NameInv'
  BY <1>1, <1>2, OpeningFields, NameOpening DEF NameInv
<1>3. ASSUME SteadyStep, ClosingStep PROVE NameInv'
  BY <1>1, <1>3, NameClosing DEF NameInv, SteadyStep, Steady, ClosingStep
<1>4. ASSUME NEW h \in Handle, NEW u \in User, Register(h, u) PROVE NameInv'
  <2>1. /\ OthersStay(h) /\ handle'[h].gone = handle[h].gone /\ handle'[h].name = u
        /\ backend' = backend /\ New(h) /\ Unused(u)
    BY <1>1, <1>4, RegisterFields DEF Register, New
  <2>2. /\ \A k \in Handle : handle[k].name # u
        /\ \A b \in Backend : backend[b].alive => backend[b].name # u
    BY <2>1 DEF Unused
  <2>3. OneEach'
    BY <1>1, <2>1, <2>2 DEF OneEach, Named, OthersStay
  <2>4. ASSUME NEW b \in Backend, backend[b].alive PROVE OwnName(b)'
    <3>1. backend[b].owner \in Handle /\ backend[b].owner # h
      BY <1>1, <2>1, <2>4 DEF Heard, OwnName
    <3>. QED  BY <1>1, <2>1, <2>2, <2>4, <3>1 DEF OwnName, Named, New, OthersStay
  <2>5. ASSUME NEW b \in Backend, ~backend[b].alive PROVE OwnName(b)'
    BY <2>1, <2>5 DEF OwnName
  <2>. QED  BY <1>1, <2>3, <2>4, <2>5 DEF NameInv
<1>5. ASSUME NEW h \in Handle, Detach(h) PROVE NameInv'
  <2>1. /\ OthersStay(h) /\ handle'[h].gone /\ handle'[h].name = None
        /\ {handle[h].backend} \ {None} \in SUBSET Backend
        /\ backend' = Ended(backend, {handle[h].backend} \ {None})
    BY <1>1, <1>5, DetachFields, Types DEF HandleRec
  <2>2. Closes({handle[h].backend} \ {None})
    BY <1>1, <2>1, EndedCloses
  <2>3. OneEach'
    BY <1>1, <2>1 DEF OneEach, Named, OthersStay
  <2>4. ASSUME NEW b \in Backend, backend'[b].alive PROVE OwnName(b)'
    <3>1. /\ backend[b].alive /\ backend[b].owner \in Handle /\ backend[b].name \in User
          /\ backend'[b].owner = backend[b].owner /\ backend'[b].name = backend[b].name
      BY <1>1, <2>2, <2>4 DEF Heard, Closes
    <3>2. \A c \in Backend : backend'[c].alive /\ backend'[c].name = backend[b].name
                               => backend'[c].owner = backend[b].owner
      BY <1>1, <2>2, <3>1 DEF OwnName, Closes
    <3>3. \A k \in Handle : handle'[k].name = backend[b].name => k = backend[b].owner
      BY <1>1, <2>1, <3>1, NoneApart DEF OwnName, OthersStay
    <3>4. CASE backend[b].owner = h
      BY <2>1, <2>4, <3>1, <3>2, <3>3, <3>4 DEF OwnName, Named, New
    <3>5. CASE backend[b].owner # h
      <4>. PICK k \in Handle : k = backend[b].owner
        BY <3>1
      <4>1. handle'[k] = handle[k] /\ OwnName(b)
        BY <1>1, <2>1, <3>5 DEF OthersStay
      <4>2. Named(k)' => handle'[k].name = backend'[b].name
        BY <3>1, <4>1 DEF OwnName, Named
      <4>3. ~New(k)'
        BY <3>1, <4>1 DEF OwnName, New
      <4>. QED  BY <3>1, <3>2, <3>3, <4>2, <4>3 DEF OwnName
    <3>. QED  BY <3>4, <3>5
  <2>5. ASSUME NEW b \in Backend, ~backend'[b].alive PROVE OwnName(b)'
    BY <2>5 DEF OwnName
  <2>. QED  BY <1>1, <2>3, <2>4, <2>5 DEF NameInv
<1>6. ASSUME NEW h \in Handle, Attach(h) PROVE NameInv'
  <2>1. /\ OthersStay(h) /\ ~handle'[h].gone /\ handle'[h].name = None /\ handle[h].name = None
        /\ backend' = backend
        /\ \A b \in Backend : backend[b].alive => backend[b].owner # h
    BY <1>1, <1>6, AttachFields DEF Attach, NameInv, ListInv, Nameless
  <2>2. OneEach'
    BY <1>1, <2>1 DEF OneEach, Named, OthersStay
  <2>3. ASSUME NEW b \in Backend, backend[b].alive PROVE OwnName(b)'
    <3>1. backend[b].owner \in Handle /\ backend[b].owner # h
      BY <1>1, <2>1, <2>3 DEF Heard
    <3>. QED  BY <1>1, <2>1, <2>3, <3>1 DEF OwnName, Named, New, OthersStay
  <2>4. ASSUME NEW b \in Backend, ~backend[b].alive PROVE OwnName(b)'
    BY <2>1, <2>4 DEF OwnName
  <2>. QED  BY <1>1, <2>2, <2>3, <2>4 DEF NameInv
<1>7. ASSUME NEW h \in Handle, Detach(h) \/ Attach(h) \/ \E u \in User : Register(h, u)
      PROVE  NameInv'
  BY <1>4, <1>5, <1>6, <1>7
<1>. QED  BY <1>1, <1>2, <1>3, <1>7, Steps, StepsOfBackends

(* Two handles never have the same name, and the handles at the servers     *)
(* have the names of their listeners, unless a name in use is registered.   *)
(* The code does not prevent that, its test is commented out: this is about *)
(* clients who see to it themselves.                                        *)
LEMMA NamesAreTrue ==
    ASSUME "namesake" \notin Faults
    PROVE  Spec => [](OneEach /\ \A b \in Backend : OwnName(b))
<1>1. NameInv => OneEach /\ \A b \in Backend : OwnName(b)
  BY DEF NameInv
<1>2. NameInv /\ [Next]_vars => NameInv'
  BY NameStep
<1>. QED  BY <1>1, <1>2, NameInit, PTL DEF Spec

-----------------------------------------------------------------------------
(* Unless the server closes one, the backend handle that a handle has or    *)
(* that a greenlet works on is open and listened to by the right handle,    *)
(* and nobody else has it.                                                  *)
Holds(h, b) == backend[b].alive /\ backend[b].owner = h

Stored(h) == handle[h].backend # None => Holds(h, handle[h].backend)

Unstored(b) == \A k \in Handle : handle[k].backend # b

LocalsOK(g) ==
    LET t == task[g]
    IN /\ t.mine # None => Holds(g, t.mine) /\ Unstored(t.mine)
       /\ t.theirs # None =>
             /\ Holds(t.callee, t.theirs) /\ Unstored(t.theirs)
             /\ backend[t.theirs].server = backend[t.mine].server
             /\ \A k \in Handle : /\ task[k].mine # t.theirs
                                  /\ k # g => task[k].theirs # t.theirs

HoldInv == IInv /\ \A h \in Handle : Stored(h) /\ LocalsOK(h)

LEMMA HoldInit == Init => HoldInv
BY InvInit DEF Init, HoldInv, Stored, LocalsOK, NewHandle, NoTask

\* A step that only closes and forgets.
LEMMA HoldClosing ==
    ASSUME HoldInv, IInv', NEW B \in SUBSET Backend, Closes(B),
           \A h \in Handle : \/ handle'[h].backend = None
                             \/ /\ handle'[h].backend = handle[h].backend
                                /\ handle[h].backend \notin B,
           \A g \in Handle : \/ /\ task'[g].mine = task[g].mine
                                /\ task'[g].callee = task[g].callee
                                /\ task'[g].theirs = task[g].theirs
                                /\ task[g].mine \notin B /\ task[g].theirs \notin B
                             \/ task'[g].mine = None /\ task'[g].theirs = None
                             \/ /\ task'[g].mine = task[g].mine /\ task[g].mine \notin B
                                /\ task'[g].theirs = None
    PROVE  HoldInv'
<1>1. /\ \A h \in Handle : handle[h].backend \in Backend \cup {None}
      /\ \A h \in Handle : task[h].mine \in Backend \cup {None}
      /\ \A h \in Handle : task[h].theirs \in Backend \cup {None}
      /\ \A h \in Handle : task[h].theirs # None => task[h].mine \in Backend
      /\ \A h \in Handle : Stored(h) /\ LocalsOK(h)
  BY Types DEF HoldInv, HandleRec, TaskRec, TaskShape, Using
<1>2. \A b \in Backend : Unstored(b) => Unstored(b)'
  BY NoneApart DEF Unstored
<1>3. \A b \in Backend, h \in Handle : Holds(h, b) /\ b \notin B => Holds(h, b)'
  BY DEF Holds, Closes
<1>4. ASSUME NEW h \in Handle PROVE Stored(h)'
  <2>1. \/ handle'[h].backend = None
        \/ handle'[h].backend = handle[h].backend /\ handle[h].backend \notin B
    OBVIOUS
  <2>. QED  BY <1>1, <1>3, <2>1 DEF Stored, Holds
<1>5. ASSUME NEW g \in Handle, NEW b \in Backend, task'[g].mine = b
      PROVE  Holds(g, b)' /\ Unstored(b)'
  <2>1. task[g].mine = b /\ b \notin B
    BY <1>5, NoneApart
  <2>2. Holds(g, b) /\ Unstored(b)
    BY <1>1, <2>1, NoneApart DEF LocalsOK
  <2>. QED  BY <1>2, <1>3, <2>1, <2>2
<1>6. ASSUME NEW g \in Handle, NEW b \in Backend, task'[g].theirs = b
      PROVE  /\ backend'[b].alive /\ backend'[b].owner = task'[g].callee /\ Unstored(b)'
             /\ backend'[b].server = backend'[task'[g].mine].server
             /\ \A k \in Handle : /\ task'[k].mine # b
                                  /\ k # g => task'[k].theirs # b
  <2>1. /\ task'[g].mine = task[g].mine /\ task'[g].callee = task[g].callee
        /\ task[g].theirs = b /\ b \notin B /\ b # None
    BY <1>6, NoneApart
  <2>2. /\ task[g].mine \in Backend
        /\ Holds(task[g].callee, b) /\ Unstored(b)
        /\ backend[b].server = backend[task[g].mine].server
        /\ \A k \in Handle : /\ task[k].mine # b
                             /\ k # g => task[k].theirs # b
    BY <1>1, <2>1 DEF LocalsOK
  <2>3. backend'[b].alive /\ backend'[b].owner = task[g].callee /\ Unstored(b)'
    BY <1>2, <2>1, <2>2 DEF Holds, Closes
  <2>4. backend'[b].server = backend'[task[g].mine].server
    BY <2>2 DEF Closes
  <2>5. \A k \in Handle : /\ task'[k].mine # b
                          /\ k # g => task'[k].theirs # b
    BY <2>1, <2>2
  <2>. QED  BY <2>1, <2>3, <2>4, <2>5
<1>7. ASSUME NEW g \in Handle PROVE LocalsOK(g)'
  <2>1. task'[g].mine \in Backend \cup {None} /\ task'[g].theirs \in Backend \cup {None}
    <3>1. task' \in [Handle -> TaskRec]
      BY DEF IInv, TypeOK
    <3>. QED  BY <3>1 DEF TaskRec
  <2>. QED  BY <1>5, <1>6, <2>1 DEF LocalsOK, Holds
<1>. QED  BY <1>4, <1>7 DEF HoldInv

\* Nobody's locals change.
LEMMA HoldSameTasks ==
    ASSUME HoldInv, IInv', NEW B \in SUBSET Backend, Closes(B), task' = task,
           \A h \in Handle : \/ handle'[h].backend = None
                             \/ /\ handle'[h].backend = handle[h].backend
                                /\ handle[h].backend \notin B,
           \A g \in Handle : task[g].mine \notin B /\ task[g].theirs \notin B
    PROVE  HoldInv'
BY HoldClosing

\* No backend handle is in two places.
LEMMA Apart ==
    ASSUME HoldInv, NEW h \in Handle, NEW k \in Handle
    PROVE  /\ handle[h].backend # None /\ handle[h].backend = handle[k].backend => h = k
           /\ task[h].mine # None => task[h].mine # handle[k].backend
           /\ task[h].theirs # None => task[h].theirs # handle[k].backend
           /\ task[h].mine # None /\ task[h].mine = task[k].mine => h = k
           /\ task[h].theirs # None => task[h].theirs # task[k].mine
           /\ task[h].theirs # None /\ task[h].theirs = task[k].theirs => h = k
BY DEF HoldInv, Stored, LocalsOK, Holds, Unstored

LEMMA HoldTypes ==
    ASSUME HoldInv
    PROVE  \A h \in Handle : /\ handle[h].backend \in Backend \cup {None}
                             /\ task[h].mine \in Backend \cup {None}
                             /\ task[h].theirs \in Backend \cup {None}
BY Types DEF HoldInv, HandleRec, TaskRec

\* A handle that leaves its call closes its own backend handle at most.
LEMMA HoldLeaves ==
    ASSUME HoldInv, IInv', NEW k \in Handle, OthersStay(k), handle'[k].backend = None,
           task' = task, Closes({}) \/ Closes({handle[k].backend} \ {None})
    PROVE  HoldInv'
<1>. DEFINE B == {handle[k].backend} \ {None}
<1>1. B \in SUBSET Backend
  BY HoldTypes
<1>2. \A g \in Handle : task[g].mine \notin B /\ task[g].theirs \notin B
  BY Apart
<1>3. \A h \in Handle : \/ handle'[h].backend = None
                        \/ handle'[h].backend = handle[h].backend /\ handle[h].backend \notin B
  BY Apart DEF OthersStay
<1>4. CASE Closes(B)
  BY <1>1, <1>2, <1>3, <1>4, HoldSameTasks
<1>5. CASE Closes({})
  <2>1. \A h \in Handle : \/ handle'[h].backend = None
                          \/ /\ handle'[h].backend = handle[h].backend
                             /\ handle[h].backend \notin {}
    BY DEF OthersStay
  <2>. QED  BY <1>5, <2>1, HoldSameTasks
<1>. QED  BY <1>4, <1>5

\* A greenlet is done, and closes its locals and what it takes from handle k.
LEMMA HoldRests ==
    ASSUME HoldInv, IInv', NEW h \in Handle, NEW k \in Handle, Rests(h), NEW B,
           B \subseteq (Locals(h) \cup {handle[k].backend}) \ {None}, Closes(B),
           handle[k].backend \in B => handle'[k].backend = None,
           \A f \in Handle : \/ handle'[f].backend = None
                             \/ handle'[f].backend = handle[f].backend
    PROVE  HoldInv'
<1>1. B \in SUBSET Backend
  BY HoldTypes DEF Locals
<1>2. \A f \in Handle : \/ handle'[f].backend = None
                        \/ handle'[f].backend = handle[f].backend /\ handle[f].backend \notin B
  BY Apart DEF Locals
<1>3. ASSUME NEW g \in Handle
      PROVE  \/ /\ task'[g].mine = task[g].mine
                /\ task'[g].callee = task[g].callee
                /\ task'[g].theirs = task[g].theirs
                /\ task[g].mine \notin B /\ task[g].theirs \notin B
             \/ task'[g].mine = None /\ task'[g].theirs = None
  <2>1. CASE g = h
    BY <2>1 DEF Rests, Goes
  <2>2. CASE g # h
    <3>1. task'[g] = task[g]
      BY <2>2 DEF Rests, Goes
    <3>2. task[g].mine \notin B /\ task[g].theirs \notin B
      BY <2>2, Apart DEF Locals
    <3>. QED  BY <3>1, <3>2
  <2>. QED  BY <2>1, <2>2
<1>. QED  BY <1>1, <1>2, <1>3, HoldClosing

LEMMA HoldRequests ==
    ASSUME HoldInv, IInv', NEW h \in Handle,
           \/ Attach(h) \/ Detach(h) \/ AutoDisconnect(h)
           \/ \E u \in User : Register(h, u) \/ Call(h, u)
    PROVE  HoldInv'
<1>1. IInv /\ {handle[h].backend} \ {None} \in SUBSET Backend
  BY HoldTypes DEF HoldInv
<1>2. CASE Attach(h)
  BY <1>1, <1>2, AttachFields, SameCloses, HoldLeaves
<1>3. CASE Detach(h)
  BY <1>1, <1>3, DetachFields, EndedCloses, HoldLeaves
<1>4. CASE AutoDisconnect(h)
  <2>1. OthersStay(h) /\ handle'[h].backend = None /\ task' = task
        /\ \/ backend' = backend
           \/ backend' = Ended(backend, {handle[h].backend} \ {None})
    BY <1>1, <1>4, AutoDisconnectFields DEF Quits, HungUp, After
  <2>. QED  BY <1>1, <2>1, SameCloses, EndedCloses, HoldLeaves
<1>5. ASSUME NEW u \in User, Register(h, u) PROVE HoldInv'
  <2>1. task' = task /\ Closes({})
        /\ \A k \in Handle : handle'[k].backend = handle[k].backend
    BY <1>1, <1>5, RegisterFields, SameCloses DEF OthersStay
  <2>. QED  BY <2>1, HoldSameTasks
<1>6. ASSUME NEW u \in User, Call(h, u) PROVE HoldInv'
  <2>1. Closes({}) /\ OthersStay(h) /\ handle'[h].backend = None
        /\ \/ Goes(h, "attach", u, None, None, None, "none") \/ task' = task
    BY <1>1, <1>6, CallFields, SameCloses DEF After
  <2>2. CASE task' = task
    BY <2>1, <2>2, HoldLeaves
  <2>3. CASE Goes(h, "attach", u, None, None, None, "none")
    <3>1. \A g \in Handle : \/ task'[g] = task[g]
                            \/ task'[g].mine = None /\ task'[g].theirs = None
      BY <2>3 DEF Goes
    <3>2. \A f \in Handle : \/ handle'[f].backend = None
                            \/ handle'[f].backend = handle[f].backend
      BY <2>1 DEF OthersStay
    <3>. QED  BY <2>1, <3>1, <3>2, HoldClosing
  <2>. QED  BY <2>1, <2>2, <2>3
<1>. QED  BY <1>2, <1>3, <1>4, <1>5, <1>6

LEMMA HoldEvents ==
    ASSUME HoldInv, IInv', NEW b \in Backend, Event(b)
    PROVE  HoldInv'
<1>1. IInv /\ \A k \in Handle : {handle[k].backend} \ {None} \in SUBSET Backend
  BY HoldTypes DEF HoldInv
<1>2. CASE IncomingCall(b)
  <2>1. PICK k \in Handle : k = backend[b].owner
    BY <1>1, <1>2, IncomingCallFields
  <2>2. task' = task /\ Closes({}) /\ \A f \in Handle : handle'[f].backend = handle[f].backend
    BY <1>1, <1>2, <2>1, IncomingCallFields, TakenCloses DEF OthersStay, After
  <2>. QED  BY <2>2, HoldSameTasks
<1>3. CASE HangupEvent(b)
  <2>1. PICK k \in Handle : k = backend[b].owner
    BY <1>1, <1>3, HangupEventFields
  <2>2. task' = task
        /\ \/ Quits(k) /\ backend' = Ended(Taken(b, "hangup"), {handle[k].backend} \ {None})
           \/ backend' = Taken(b, "hangup") /\ handle' = handle
    BY <1>1, <1>3, <2>1, HangupEventFields
  <2>3. CASE Quits(k) /\ backend' = Ended(Taken(b, "hangup"), {handle[k].backend} \ {None})
    <3>1. OthersStay(k) /\ handle'[k].backend = None
      BY <2>3 DEF Quits, HungUp, After
    <3>. QED  BY <1>1, <2>2, <2>3, <3>1, TakenEndedCloses, HoldLeaves
  <2>4. CASE backend' = Taken(b, "hangup") /\ handle' = handle
    BY <1>1, <2>2, <2>4, TakenCloses, HoldSameTasks
  <2>. QED  BY <2>2, <2>3, <2>4
<1>. QED  BY <1>2, <1>3 DEF Event

LEMMA HoldEnds ==
    ASSUME HoldInv, IInv', NEW h \in Handle,
           \/ ConnectFails(h) \/ PeerConnectFails(h) \/ CallRefused(h) \/ HangupEnds(h)
           \/ JanusCalls(h)
    PROVE  HoldInv'
<1>1. IInv /\ {task[h].mine} \ {None} \in SUBSET Backend
  BY HoldTypes DEF HoldInv
<1>2. CASE ConnectFails(h)
  <2>1. /\ OthersStay(h) /\ handle'[h].backend = None /\ Rests(h)
        /\ backend' = Ended(backend, {task[h].mine} \ {None})
    BY <1>1, <1>2, ConnectFailsFields DEF After
  <2>2. \A f \in Handle : handle'[f].backend = None \/ handle'[f].backend = handle[f].backend
    BY <2>1 DEF OthersStay
  <2>. QED  BY <1>1, <2>1, <2>2, EndedCloses, HoldRests DEF Locals
<1>3. CASE PeerConnectFails(h)
  <2>1. PICK k \in Handle : k = task[h].callee
    BY <1>1, <1>3, PeerConnectFailsFields
  <2>2. /\ BothFail(h, k)
        /\ backend' = Ended(backend, (Locals(h) \cup {handle[k].backend}) \ {None})
    BY <1>1, <1>3, <2>1, PeerConnectFailsFields
  <2>3. Rests(h) /\ handle'[k].backend = None
        /\ \A f \in Handle : handle'[f].backend = None \/ handle'[f].backend = handle[f].backend
    BY <2>2 DEF BothFail, Failed
  <2>4. (Locals(h) \cup {handle[k].backend}) \ {None} \in SUBSET Backend
    BY HoldTypes DEF Locals
  <2>. QED  BY <1>1, <2>2, <2>3, <2>4, EndedCloses, HoldRests
<1>4. CASE CallRefused(h) \/ HangupEnds(h)
  <2>1. /\ task[h].mine \in Backend /\ Rests(h) /\ backend' = Ended(backend, {task[h].mine})
        /\ \/ OthersStay(h) /\ Failed(handle', h)
           \/ handle' = handle
    BY <1>1, <1>4, CallRefusedFields, HangupEndsEffect
  <2>2. \A f \in Handle : handle'[f].backend = None \/ handle'[f].backend = handle[f].backend
    BY <2>1 DEF OthersStay, Failed
  <2>3. {task[h].mine} \subseteq (Locals(h) \cup {handle[h].backend}) \ {None}
    BY <2>1, NoneApart DEF Locals
  <2>4. handle[h].backend \notin {task[h].mine}
    BY <2>1, Apart, NoneApart
  <2>. QED  BY <1>1, <2>1, <2>2, <2>3, <2>4, EndedCloses, HoldRests
<1>5. CASE JanusCalls(h)
  <2>1. /\ handle' = handle
        /\ backend' = backend \/ \E c : Rings(task[h].mine, c)
        /\ \E x : task' = [task EXCEPT ![h] = [task[h] EXCEPT !.resp = x]]
    BY <1>1, <1>5, JanusCallsFields
  <2>2. (\E c : Rings(task[h].mine, c)) => Closes({})
    BY DEF Rings, Closes
  <2>3. \A g \in Handle : /\ task'[g].mine = task[g].mine /\ task'[g].callee = task[g].callee
                          /\ task'[g].theirs = task[g].theirs
    BY <1>1, <2>1, Types DEF TaskRec
  <2>. QED  BY <2>1, <2>2, <2>3, SameCloses, HoldClosing
<1>. QED  BY <1>2, <1>3, <1>4, <1>5

LEMMA HoldRegistered ==
    ASSUME HoldInv, IInv', NEW h \in Handle, Registered(h)
    PROVE  HoldInv'
<1>1. IInv /\ task[h].mine \in Backend /\ At(h, "register")
  BY RegisteredFields DEF HoldInv
<1>2. CASE /\ OthersStay(h) /\ Failed(handle', h) /\ Rests(h)
           /\ backend' = Ended(backend, {task[h].mine})
  <2>1. \A f \in Handle : handle'[f].backend = None \/ handle'[f].backend = handle[f].backend
    BY <1>2 DEF OthersStay, Failed
  <2>2. {task[h].mine} \subseteq (Locals(h) \cup {handle[h].backend}) \ {None}
    BY <1>1, NoneApart DEF Locals
  <2>3. handle[h].backend \notin {task[h].mine}
    BY <1>1, Apart, NoneApart
  <2>. QED  BY <1>1, <1>2, <2>1, <2>2, <2>3, EndedCloses, HoldRests
<1>3. ASSUME NEW k \in Handle, Invites(h, k) PROVE HoldInv'
  <2>1. /\ \A f \in Handle : handle'[f].backend = None \/ handle'[f].backend = handle[f].backend
        /\ Goes(h, "peerattach", task[h].to, k, task[h].mine, None, task[h].resp)
        /\ backend' = backend
    BY <1>3 DEF Invites, OthersStay, After
  <2>2. \A g \in Handle : \/ task'[g] = task[g]
                          \/ task'[g].mine = task[g].mine /\ task'[g].theirs = None
    BY <2>1 DEF Goes
  <2>3. \A g \in Handle : \/ /\ task'[g].mine = task[g].mine
                             /\ task'[g].callee = task[g].callee
                             /\ task'[g].theirs = task[g].theirs
                          \/ task'[g].mine = task[g].mine /\ task'[g].theirs = None
    BY <2>2
  <2>. QED  BY <2>1, <2>3, SameCloses, HoldClosing
<1>4. ASSUME NEW k \in Handle, handle[k].backend # None, BothFail(h, k),
             backend' = Ended(backend, {task[h].mine, handle[k].backend})
      PROVE  HoldInv'
  <2>1. Rests(h) /\ handle'[k].backend = None
        /\ \A f \in Handle : handle'[f].backend = None \/ handle'[f].backend = handle[f].backend
    BY <1>4 DEF BothFail, Failed
  <2>2. /\ {task[h].mine, handle[k].backend} \subseteq
              (Locals(h) \cup {handle[k].backend}) \ {None}
        /\ {task[h].mine, handle[k].backend} \in SUBSET Backend
    BY <1>1, <1>4, HoldTypes, NoneApart DEF Locals
  <2>. QED  BY <1>1, <1>4, <2>1, <2>2, EndedCloses, HoldRests
<1>. QED  BY <1>1, <1>2, <1>3, <1>4, RegisteredFields

\* The new backend handle b is nowhere yet; the greenlet of h takes it.
LEMMA HoldOpening ==
    ASSUME HoldInv, IInv', NEW h \in Handle, NEW b \in Backend, NEW s, NEW k \in Handle,
           FreeBackend(b), Opens(b, s, k), handle' = handle,
           \A g \in Handle : g # h => task'[g] = task[g],
           task'[h].mine \in {b, task[h].mine}, task'[h].theirs \in {b, None},
           LocalsOK(h)'
    PROVE  HoldInv'
<1>1. IInv
  BY DEF HoldInv
<1>2. /\ b # None /\ Unstored(b)
      /\ \A g \in Handle : task[g].mine # b /\ task[g].theirs # b
  BY NoneApart DEF FreeBackend, Locals, Unstored
<1>3. /\ \A g \in Handle : Stored(g) /\ LocalsOK(g)
      /\ \A c : Unstored(c)' = Unstored(c)
  BY DEF HoldInv, Unstored
<1>4. \A g \in Handle : Stored(g)'
  BY <1>2, <1>3, HoldTypes DEF Stored, Holds, Opens, Unstored
<1>5. ASSUME NEW g \in Handle, g # h PROVE LocalsOK(g)'
  <2>1. task'[g] = task[g] /\ LocalsOK(g)
    BY <1>3, <1>5
  <2>2. task[g].theirs # None => task[g].mine # None
    BY <1>1, Types, NoneApart DEF TaskShape, Using
  <2>3. task[g].mine # None => /\ Holds(g, task[g].mine) /\ Unstored(task[g].mine)
                               /\ backend'[task[g].mine] = backend[task[g].mine]
    BY <1>2, <2>1, HoldTypes DEF LocalsOK, Opens
  <2>4. task[g].theirs # None =>
             /\ Holds(task[g].callee, task[g].theirs) /\ Unstored(task[g].theirs)
             /\ backend[task[g].theirs].server = backend[task[g].mine].server
             /\ \A f \in Handle : /\ task[f].mine # task[g].theirs
                                  /\ f # g => task[f].theirs # task[g].theirs
             /\ backend'[task[g].theirs] = backend[task[g].theirs]
    BY <1>2, <2>1, HoldTypes DEF LocalsOK, Opens
  <2>5. task[g].mine # None => Holds(g, task[g].mine)' /\ Unstored(task[g].mine)'
    BY <2>1, <2>3 DEF Holds, Unstored
  <2>6. task[g].theirs # None =>
             /\ Holds(task[g].callee, task[g].theirs)' /\ Unstored(task[g].theirs)'
             /\ backend'[task[g].theirs].server = backend'[task[g].mine].server
             /\ \A f \in Handle : /\ task'[f].mine # task[g].theirs
                                  /\ f # g => task'[f].theirs # task[g].theirs
    <3>1. ASSUME NEW f \in Handle, task[g].theirs # None
          PROVE  /\ task'[f].mine # task[g].theirs
                 /\ f # g => task'[f].theirs # task[g].theirs
      BY <1>2, <2>1, <2>4, <3>1
    <3>. QED  BY <2>1, <2>2, <2>3, <2>4, <3>1 DEF Holds, Unstored
  <2>. QED  BY <2>1, <2>5, <2>6 DEF LocalsOK, Holds, Unstored
<1>. QED  BY <1>4, <1>5 DEF HoldInv

LEMMA HoldAttached ==
    ASSUME HoldInv, IInv', NEW h \in Handle, Attached(h)
    PROVE  HoldInv'
<1>1. IInv /\ handle' = handle
  BY AttachedFields DEF HoldInv
<1>2. PICK b \in Backend, s \in Server :
        /\ FreeBackend(b) /\ backend' = AttachedTo(b, s, h)
        /\ Goes(h, "register", task[h].to, None, b, None, task[h].resp)
  BY <1>1, AttachedFields
<1>3. Opens(b, s, h)
  BY <1>1, <1>2, AttachedOpens
<1>4. /\ \A g \in Handle : g # h => task'[g] = task[g]
      /\ task'[h].mine = b /\ task'[h].theirs = None
  BY <1>2 DEF Goes
<1>5. LocalsOK(h)'
  BY <1>1, <1>2, <1>3, <1>4 DEF LocalsOK, Holds, Opens, Unstored, FreeBackend
<1>. QED  BY <1>1, <1>2, <1>3, <1>4, <1>5, HoldOpening

LEMMA HoldPeerAttached ==
    ASSUME HoldInv, IInv', NEW h \in Handle, PeerAttached(h)
    PROVE  HoldInv'
<1>1. IInv /\ handle' = handle /\ task[h].callee \in Handle /\ task[h].mine \in Backend
  BY PeerAttachedFields DEF HoldInv
<1>. PICK k \in Handle : k = task[h].callee
  BY <1>1
<1>. PICK m \in Backend : m = task[h].mine
  BY <1>1
<1>2. PICK b \in Backend :
        /\ FreeBackend(b) /\ backend' = AttachedTo(b, backend[m].server, k)
        /\ Goes(h, "peerregister", task[h].to, k, m, b, task[h].resp)
  BY <1>1, PeerAttachedFields
<1>3. Opens(b, backend[m].server, k)
  BY <1>1, <1>2, AttachedOpens
<1>4. /\ \A g \in Handle : g # h => task'[g] = task[g]
      /\ task'[h].mine = m /\ task'[h].theirs = b /\ task'[h].callee = k
  BY <1>2 DEF Goes
<1>5. /\ b # None /\ Unstored(b) /\ b # m
      /\ \A g \in Handle : task[g].mine # b /\ task[g].theirs # b
  BY <1>2, NoneApart DEF FreeBackend, Locals, Unstored
<1>6. Holds(h, m)' /\ Unstored(m)'
  BY <1>1, <1>3, <1>5, NoneApart DEF HoldInv, LocalsOK, Holds, Unstored, Opens
<1>7. /\ Holds(k, b)' /\ Unstored(b)' /\ backend'[b].server = backend'[m].server
      /\ \A f \in Handle : /\ task'[f].mine # b
                           /\ f # h => task'[f].theirs # b
  BY <1>1, <1>3, <1>4, <1>5 DEF Holds, Unstored, Opens
<1>8. LocalsOK(h)'
  BY <1>4, <1>6, <1>7 DEF LocalsOK, Holds, Unstored
<1>. QED  BY <1>1, <1>2, <1>3, <1>4, <1>8, HoldOpening

\* What a greenlet at t holds after a step.
LEMMA LocalsNext ==
    ASSUME NEW g \in Handle, NEW t, task'[g] = t,
           t.mine # None => Holds(g, t.mine)' /\ Unstored(t.mine)',
           t.theirs # None =>
               /\ Holds(t.callee, t.theirs)' /\ Unstored(t.theirs)'
               /\ backend'[t.theirs].server = backend'[t.mine].server
               /\ \A k \in Handle : /\ task'[k].mine # t.theirs
                                    /\ k # g => task'[k].theirs # t.theirs
    PROVE  LocalsOK(g)'
BY DEF LocalsOK, Holds, Unstored

\* Who is stored now has left the locals.
LEMMA HoldPeerRegistered ==
    ASSUME HoldInv, IInv', NEW h \in Handle, PeerRegistered(h)
    PROVE  HoldInv'
<1>1. IInv /\ task[h].callee \in Handle /\ task[h].theirs \in Backend
      /\ \A g \in Handle : Stored(g) /\ LocalsOK(g)
  BY PeerRegisteredFields DEF HoldInv
<1>. PICK k \in Handle : k = task[h].callee
  BY <1>1
<1>. PICK b \in Backend : b = task[h].theirs
  BY <1>1
<1>2. /\ OthersStay(k) /\ After(k, handle[k].incall, handle[k].peer, b, TRUE)
      /\ backend' = backend
      /\ Goes(h, "calling", task[h].to, None, task[h].mine, None, task[h].resp)
  BY <1>1, PeerRegisteredFields
<1>3. /\ \A f \in Handle : f # k => handle'[f].backend = handle[f].backend
      /\ handle'[k].backend = b
      /\ \A g \in Handle : g # h => task'[g] = task[g]
      /\ task'[h].mine = task[h].mine /\ task'[h].theirs = None
  BY <1>2 DEF OthersStay, After, Goes
<1>4. /\ Holds(k, b)
      /\ \A g \in Handle : task[g].mine # b /\ (g # h => task[g].theirs # b)
  BY <1>1, NoneApart DEF LocalsOK
<1>5. ASSUME NEW g \in Handle PROVE Stored(g)'
  BY <1>1, <1>2, <1>3, <1>4 DEF Stored, Holds
<1>6. ASSUME NEW c, c # b, Unstored(c) PROVE Unstored(c)'
  BY <1>3, <1>6 DEF Unstored
<1>7. ASSUME NEW g \in Handle PROVE LocalsOK(g)'
  <2>1. LocalsOK(g) /\ task'[g].mine = task[g].mine /\ task[g].mine # b
    BY <1>1, <1>3, <1>4
  <2>2. task[g].mine # None => Holds(g, task[g].mine)' /\ Unstored(task[g].mine)'
    BY <1>2, <1>6, <2>1 DEF LocalsOK, Holds
  <2>3. CASE g = h
    <3>. PICK t : t = task'[g]
      OBVIOUS
    <3>1. task'[g] = t /\ t.theirs = None /\ t.mine = task[g].mine
      BY <1>3, <2>3
    <3>. QED  BY <2>2, <3>1, LocalsNext
  <2>4. CASE g # h
    <3>. PICK t : t = task[g]
      OBVIOUS
    <3>1. t = task[g] /\ task'[g] = t /\ t.theirs # b
      BY <1>3, <1>4, <2>4
    <3>2. t.theirs # None =>
             /\ Holds(t.callee, t.theirs)' /\ Unstored(t.theirs)'
             /\ backend'[t.theirs].server = backend'[t.mine].server
      BY <1>2, <1>6, <2>1, <3>1 DEF LocalsOK, Holds
    <3>3. t.theirs # None =>
             \A f \in Handle : /\ task'[f].mine # t.theirs
                               /\ f # g => task'[f].theirs # t.theirs
      BY <1>3, <2>1 DEF LocalsOK
    <3>. QED  BY <2>2, <3>1, <3>2, <3>3, LocalsNext
  <2>. QED  BY <2>3, <2>4
<1>. QED  BY <1>5, <1>7 DEF HoldInv

LEMMA HoldCallAnswered ==
    ASSUME HoldInv, IInv', NEW h \in Handle, CallAnswered(h)
    PROVE  HoldInv'
<1>1. IInv /\ task[h].mine \in Backend /\ \A g \in Handle : Stored(g) /\ LocalsOK(g)
  BY CallAnsweredFields DEF HoldInv
<1>. PICK b \in Backend : b = task[h].mine
  BY <1>1
<1>2. /\ OthersStay(h) /\ After(h, handle[h].incall, handle[h].peer, b, handle[h].timer)
      /\ backend' = backend /\ Rests(h)
  BY <1>1, CallAnsweredFields
<1>3. /\ \A f \in Handle : f # h => handle'[f].backend = handle[f].backend
      /\ handle'[h].backend = b
      /\ \A g \in Handle : g # h => task'[g] = task[g]
      /\ task'[h].mine = None /\ task'[h].theirs = None
  BY <1>2 DEF OthersStay, After, Rests, Goes
<1>4. /\ Holds(h, b)
      /\ \A g \in Handle : task[g].theirs # b /\ (g # h => task[g].mine # b)
  BY <1>1, NoneApart, Apart DEF LocalsOK
<1>5. ASSUME NEW g \in Handle PROVE Stored(g)'
  BY <1>1, <1>2, <1>3, <1>4 DEF Stored, Holds
<1>6. ASSUME NEW c, c # b, Unstored(c) PROVE Unstored(c)'
  BY <1>3, <1>6 DEF Unstored
<1>7. ASSUME NEW g \in Handle PROVE LocalsOK(g)'
  <2>1. CASE g = h
    BY <1>3, <2>1 DEF LocalsOK
  <2>2. CASE g # h
    <3>. PICK t : t = task[g]
      OBVIOUS
    <3>1. LocalsOK(g) /\ t = task[g] /\ task'[g] = t /\ t.theirs # b /\ t.mine # b
      BY <1>1, <1>3, <1>4, <2>2
    <3>2. t.mine # None => Holds(g, t.mine)' /\ Unstored(t.mine)'
      BY <1>2, <1>6, <3>1 DEF LocalsOK, Holds
    <3>3. t.theirs # None =>
             /\ Holds(t.callee, t.theirs)' /\ Unstored(t.theirs)'
             /\ backend'[t.theirs].server = backend'[t.mine].server
      BY <1>2, <1>6, <3>1 DEF LocalsOK, Holds
    <3>4. t.theirs # None =>
             \A f \in Handle : /\ task'[f].mine # t.theirs
                               /\ f # g => task'[f].theirs # t.theirs
      BY <1>3, <3>1 DEF LocalsOK
    <3>5. task'[g] = t
      BY <3>1
    <3>6. t.theirs # None =>
               /\ Holds(t.callee, t.theirs)' /\ Unstored(t.theirs)'
               /\ backend'[t.theirs].server = backend'[t.mine].server
               /\ \A f \in Handle : /\ task'[f].mine # t.theirs
                                    /\ f # g => task'[f].theirs # t.theirs
      BY <3>3, <3>4
    <3>. HIDE <3>1
    <3>. QED  BY <3>2, <3>5, <3>6, LocalsNext
  <2>. QED  BY <2>1, <2>2
<1>. QED  BY <1>5, <1>7 DEF HoldInv

LEMMA HoldHangup ==
    ASSUME HoldInv, IInv', NEW h \in Handle, Hangup(h)
    PROVE  HoldInv'
<1>1. IInv /\ \A g \in Handle : Stored(g) /\ LocalsOK(g)
  BY DEF HoldInv
<1>2. OthersStay(h) /\ handle'[h].backend = None /\ Closes({})
      /\ \/ task' = task
         \/ /\ handle[h].backend # None
            /\ Goes(h, "hangup", None, None, handle[h].backend, None, "none")
  BY <1>1, HangupEffect, HangupFields DEF Quits, HungUp, After, Closes
<1>3. CASE task' = task
  BY <1>2, <1>3, HoldLeaves
<1>4. CASE /\ handle[h].backend # None
           /\ Goes(h, "hangup", None, None, handle[h].backend, None, "none")
  <2>1. PICK b \in Backend : b = handle[h].backend
    BY <1>4, HoldTypes
  <2>2. /\ \A f \in Handle : f # h => handle'[f].backend = handle[f].backend
        /\ \A g \in Handle : g # h => task'[g] = task[g]
        /\ task'[h].mine = b /\ task'[h].theirs = None
    BY <1>2, <1>4, <2>1 DEF OthersStay, Goes
  <2>3. /\ Holds(h, b) /\ b # None
        /\ \A g \in Handle : task[g].theirs # b /\ task[g].mine # b
        /\ \A g \in Handle : g # h => handle[g].backend # b
    BY <1>1, <2>1, NoneApart, Apart DEF Stored
  <2>4. \A c \in Backend, f \in Handle : Holds(f, c)' = Holds(f, c)
    BY <1>2 DEF Holds, Closes
  <2>5. ASSUME NEW g \in Handle PROVE Stored(g)'
    BY <1>1, <1>2, <2>2, HoldTypes DEF Stored, Holds, Closes
  <2>6. ASSUME NEW c \in Backend, Unstored(c) PROVE Unstored(c)'
    BY <1>2, <2>2, <2>6, NoneApart DEF Unstored
  <2>7. Unstored(b)'
    BY <1>2, <2>2, <2>3 DEF Unstored
  <2>8. ASSUME NEW g \in Handle PROVE LocalsOK(g)'
    <3>1. CASE g = h
      BY <2>2, <2>3, <2>4, <2>7, <3>1 DEF LocalsOK, Holds, Unstored, Closes, Stored
    <3>2. CASE g # h
      <4>. PICK t : t = task[g]
        OBVIOUS
      <4>1. LocalsOK(g) /\ t = task[g] /\ task'[g] = t /\ t.theirs # b
        BY <1>1, <2>2, <2>3, <3>2
      <4>2. t.theirs # None => t.mine \in Backend
        BY <1>1, Types, NoneApart DEF TaskShape, Using
      <4>3. t.mine # None => Holds(g, t.mine)' /\ Unstored(t.mine)'
        BY <1>2, <2>6, <4>1, HoldTypes DEF LocalsOK, Holds, Closes
      <4>4. t.theirs # None =>
               /\ Holds(t.callee, t.theirs)' /\ Unstored(t.theirs)'
               /\ backend'[t.theirs].server = backend'[t.mine].server
        BY <1>2, <2>6, <4>1, <4>2, HoldTypes DEF LocalsOK, Holds, Closes
      <4>5. t.theirs # None =>
               \A f \in Handle : /\ task'[f].mine # t.theirs
                                 /\ f # g => task'[f].theirs # t.theirs
        BY <2>2, <4>1 DEF LocalsOK
      <4>. QED  BY <4>1, <4>3, <4>4, <4>5, LocalsNext
    <3>. QED  BY <3>1, <3>2
  <2>. QED  BY <2>5, <2>8 DEF HoldInv
<1>. QED  BY <1>2, <1>3, <1>4

LEMMA HoldStep ==
    ASSUME HoldInv, [Next]_vars, "loss" \notin Faults PROVE HoldInv'
<1>1. IInv /\ IInv'
  BY InvStep DEF HoldInv
<1>2. ASSUME NEW h \in Handle, Progress(h) PROVE HoldInv'
  BY <1>1, <1>2, HoldAttached, HoldRegistered, HoldPeerAttached, HoldPeerRegistered,
     HoldCallAnswered, HoldEnds DEF Progress
<1>3. ASSUME NEW h \in Handle,
             \/ Hangup(h) \/ Detach(h) \/ Attach(h) \/ AutoDisconnect(h)
             \/ \E u \in User : Register(h, u) \/ Call(h, u)
      PROVE  HoldInv'
  BY <1>1, <1>3, HoldHangup, HoldRequests
<1>4. ASSUME NEW b \in Backend, Event(b) \/ BackendLost(b) PROVE HoldInv'
  BY <1>1, <1>4, HoldEvents, BackendLostFields
<1>5. UNCHANGED vars => HoldInv'
  BY <1>1 DEF vars, HoldInv, Stored, LocalsOK, Holds, Unstored
<1>. QED  BY <1>2, <1>3, <1>4, <1>5 DEF Next

(* A backend handle that is in use is open and its events go to whom they   *)
(* concern, unless the server closes one or its session is lost.            *)
LEMMA HoldsAreTrue ==
    ASSUME "loss" \notin Faults
    PROVE  Spec => [](\A h \in Handle : Stored(h) /\ LocalsOK(h))
<1>1. HoldInv => \A h \in Handle : Stored(h) /\ LocalsOK(h)
  BY DEF HoldInv
<1>2. HoldInv /\ [Next]_vars => HoldInv'
  BY HoldStep
<1>. QED  BY <1>1, <1>2, HoldInit, PTL DEF Spec

-----------------------------------------------------------------------------
(* Who is in what part of a call, when the worst that happens is that       *)
(* clients detach. A handle at rest has no backend handle and no timer; the *)
(* one who calls is not called, and has neither until its call is answered; *)
(* the one who is being connected is in the call of the one who connects it.*)
Quiet(b) == backend[b].peer = None /\ backend[b].events = {}

Alone(h) == handle[h].backend = None /\ ~handle[h].timer

Rest(h) == /\ Named(h) /\ ~handle[h].incall => Alone(h)
           /\ New(h) => /\ ~handle[h].timer /\ At(h, "idle")
                        /\ \A g \in Handle : task[g].callee # h

Caller(h) == task[h].pc \in Calls =>
    /\ \A g \in Handle : task[g].callee # h
    /\ Named(h) => handle[h].incall /\ Alone(h)

Callee(g) == task[g].pc \in Inviting =>
    LET k == task[g].callee
    IN /\ \A f \in Handle : task[f].callee = k => f = g
       /\ Named(k) => /\ handle[k].incall /\ Alone(k)
                      /\ handle[k].peer = backend[task[g].mine].name
       /\ \A f \in Handle : handle[f].name = task[g].to => f = k

(* A backend handle of a handle that is there is in one of three places,    *)
(* and before the call reaches it nothing has happened to it.               *)
Kept(b) == LET h == backend[b].owner
           IN backend[b].alive /\ ~handle[h].gone =>
                \/ handle[h].backend = b \/ task[h].mine = b
                \/ \E g \in Handle : task[g].theirs = b

QuietLocals(g) ==
    /\ task[g].mine # None /\ ~At(g, "calling") /\ Named(g) => Quiet(task[g].mine)
    /\ task[g].theirs # None => Quiet(task[g].theirs)

OneName == \A b, c \in Backend :
    /\ Known(b) /\ Known(c)
    /\ backend[b].server = backend[c].server /\ backend[b].name = backend[c].name
    => b = c

(* Until the server has the call, the callee waits for it and nothing else. *)
Ringing(k, b) == /\ handle[k].incall /\ handle[k].timer /\ handle[k].backend # None
                 /\ handle[k].peer = backend[b].name
                 /\ Quiet(handle[k].backend)
                 /\ backend[handle[k].backend].server = backend[b].server

Expects(g) == At(g, "calling") /\ task[g].resp = "none" =>
    \A k \in Handle : handle[k].name = task[g].to => Ringing(k, task[g].mine)

Talks(h) == handle[h].timer /\ handle[h].incall /\ handle[h].backend # None =>
    LET b == backend[handle[h].backend]
    IN b.peer = None \/ ("incomingcall" \in b.events /\ b.caller = handle[h].peer)

Real(h) == handle[h].incall =>
    \/ handle[h].backend # None
    \/ task[h].pc \notin {"idle", "hangup"}
    \/ \E c \in Handle : task[c].callee = h

RoleInv == /\ \A h \in Handle : /\ Rest(h) /\ Caller(h) /\ Callee(h) /\ QuietLocals(h)
                                /\ Expects(h) /\ Talks(h) /\ Real(h)
           /\ \A b \in Backend : Kept(b)
           /\ OneName

CallInv == NameInv /\ HoldInv /\ RoleInv

LEMMA RoleInit == Init => CallInv
<1>. SUFFICES ASSUME Init PROVE CallInv
  OBVIOUS
<1>1. NameInv /\ HoldInv
  BY NameInit, HoldInit
<1>2. /\ \A h \in Handle : handle[h] = NewHandle /\ task[h] = NoTask
      /\ \A b \in Backend : backend[b] = Unattached
  BY DEF Init
<1>3. ASSUME NEW h \in Handle
      PROVE  /\ Rest(h) /\ Caller(h) /\ Callee(h) /\ QuietLocals(h)
             /\ Expects(h) /\ Talks(h) /\ Real(h)
  <2>1. Rest(h) /\ Talks(h) /\ Real(h)
    BY <1>2, NoneApart DEF NewHandle, NoTask, Rest, Talks, Real, Named, New, At
  <2>2. Caller(h) /\ Callee(h) /\ QuietLocals(h) /\ Expects(h)
    BY <1>2 DEF NoTask, Caller, Callee, QuietLocals, Expects, At, Calls, Inviting
  <2>. QED  BY <2>1, <2>2
<1>4. \A b \in Backend : Kept(b) /\ ~Known(b)
  BY <1>2 DEF Unattached, Kept, Known
<1>. QED  BY <1>1, <1>3, <1>4 DEF CallInv, RoleInv, OneName

LEMMA RoleTypes ==
    ASSUME CallInv
    PROVE  /\ IInv
           /\ \A h \in Handle :
                /\ handle[h].backend \in Backend \cup {None}
                /\ handle[h].name \in User \cup {None}
                /\ task[h].mine \in Backend \cup {None}
                /\ task[h].theirs \in Backend \cup {None}
                /\ task[h].callee \in Handle \cup {None}
                /\ task[h].pc \in Calls => task[h].to \in User
                /\ task[h].pc \in Using => task[h].mine \in Backend
                /\ task[h].pc \notin Using => task[h].mine = None
                /\ task[h].pc \in Inviting => task[h].callee \in Handle
                /\ task[h].pc \notin Inviting => task[h].callee = None
                /\ task[h].pc = "peerregister" => task[h].theirs \in Backend
                /\ task[h].pc # "peerregister" => task[h].theirs = None
                /\ handle[h].name = None => ~handle[h].incall
                /\ handle[h].gone => handle[h].name = None
<1>1. IInv /\ \A h \in Handle : Nameless(h)
  BY DEF CallInv, NameInv, ListInv
<1>. QED  BY <1>1, Types DEF HandleRec, TaskRec, TaskShape, Nameless

(* What happens to backend handles when others end or an event is taken.    *)
Calm == \A c \in Backend :
    /\ backend'[c].caller = backend[c].caller
    /\ backend[c].peer = None => /\ backend'[c].peer = None
                                 /\ backend'[c].events \subseteq backend[c].events
    /\ "incomingcall" \in backend[c].events =>
          "incomingcall" \in backend'[c].events \/ backend'[c].peer = None

LEMMA EndedCalm ==
    ASSUME IInv, NEW B \in SUBSET Backend, backend' = Ended(backend, B) PROVE Calm
BY EndedFields, Types DEF Calm

LEMMA SameCalm == ASSUME backend' = backend PROVE Calm
BY DEF Calm

LEMMA TakenCalm ==
    ASSUME IInv, NEW b \in Backend, backend' = Taken(b, "hangup") PROVE Calm
BY TakenFields DEF Calm

LEMMA TakenEndedCalm ==
    ASSUME IInv, NEW b \in Backend, NEW B \in SUBSET Backend,
           backend' = Ended(Taken(b, "hangup"), B)
    PROVE  Calm
<1>1. Taken(b, "hangup") \in [Backend -> BackendRec]
  BY TakenFields
<1>. PICK bs \in [Backend -> BackendRec] : bs = Taken(b, "hangup")
  BY <1>1
<1>2. \A c \in Backend :
        /\ bs[c].caller = backend[c].caller /\ bs[c].peer = backend[c].peer
        /\ bs[c].events \subseteq backend[c].events
        /\ "incomingcall" \in backend[c].events => "incomingcall" \in bs[c].events
  BY TakenFields
<1>3. backend' = Ended(bs, B)
  OBVIOUS
<1>. QED  BY <1>2, <1>3, EndedFields DEF Calm

LEMMA HangupCalm == ASSUME IInv, NEW h \in Handle, Hangup(h) PROVE Calm
BY HangupFields DEF Calm

\* Nobody is about to call handle k at a server.
Unawaited(k) == \A g \in Handle : At(g, "calling") /\ task[g].resp = "none"
                                    => task[g].to # handle[k].name

\* Handle k is out of its call for everybody, or was detached before.
Left(k) == /\ handle'[k].name = handle[k].name /\ handle'[k].gone = handle[k].gone
           /\ ~handle'[k].incall
           /\ \/ handle[k].gone
              \/ /\ handle'[k].backend = None /\ ~handle'[k].timer
                 /\ Unawaited(k)
                 /\ task'[k].pc \notin Calls
                 /\ \A g \in Handle : task'[g].callee # k

\* The greenlet of g is done with a call, or starts to hang up.
Done(g) == /\ task'[g].pc = "idle" \/ (task'[g].pc = "hangup" /\ Named(g))
           /\ task'[g].callee = None /\ task'[g].theirs = None
           /\ ~handle'[g].incall \/ task[g].pc \in {"idle", "hangup"}
           /\ task[g].callee # None => ~handle'[task[g].callee].incall

\* Steps that take handles out of their calls, and nothing else.
Leaving(B) ==
    /\ Closes(B) /\ Calm
    /\ \A k \in Handle : handle'[k] = handle[k] \/ Left(k)
    /\ \A g \in Handle :
         \/ task'[g] = task[g]
         \/ /\ Done(g) /\ Locals(g) \subseteq B \cup {None}
            /\ task'[g].mine # None => /\ backend'[task'[g].mine].peer = None
                                       /\ backend'[task'[g].mine].events = {}
    /\ \A b \in Backend : \A h \in Handle :
         handle[h].backend = b /\ b \notin B /\ ~handle[h].gone
           => handle'[h].backend = b \/ task'[h].mine = b

LEMMA CalmQuiet ==
    ASSUME NEW b \in Backend, Quiet(b), Calm PROVE Quiet(b)'
BY DEF Calm, Quiet

\* Nobody is known at a server who was not.
LEMMA LeavingKnown ==
    ASSUME CallInv, NEW B \in SUBSET Backend, Leaving(B), NEW b \in Backend, Known(b)'
    PROVE  Known(b)
<1>1. backend[b].alive /\ b \notin B
  BY DEF Known, Leaving, Closes
<1>2. ASSUME NEW g \in Handle, task'[g] # task[g]
      PROVE  task[g].mine # b /\ task[g].theirs # b
  BY <1>1, <1>2, NoneApart DEF Leaving, Locals
<1>3. ASSUME NEW g \in Handle
      PROVE  /\ ~(At(g, "register") /\ task[g].mine = b)
             /\ ~(At(g, "peerregister") /\ task[g].theirs = b)
  BY <1>2 DEF Known, At
<1>. QED  BY <1>1, <1>3 DEF Known

LEMMA RoleLeaving ==
    ASSUME CallInv, IInv', NEW B \in SUBSET Backend, Leaving(B)
    PROVE  RoleInv'
<1>1. /\ \A h \in Handle : /\ Rest(h) /\ Caller(h) /\ Callee(h) /\ QuietLocals(h)
                           /\ Expects(h) /\ Talks(h) /\ Real(h)
      /\ \A b \in Backend : Kept(b)
      /\ OneName /\ IInv
  BY RoleTypes DEF CallInv, RoleInv
<1>2. /\ \A k \in Handle : handle'[k].name = handle[k].name /\ handle'[k].gone = handle[k].gone
      /\ \A k \in Handle : Named(k)' = Named(k) /\ New(k)' = New(k)
      /\ \A k \in Handle : handle'[k] = handle[k] \/ Left(k)
      /\ \A g \in Handle : task'[g] = task[g] \/ Done(g)
  BY DEF Leaving, Left, Named, New
<1>3. ASSUME NEW h \in Handle PROVE Rest(h)'
  <2>1. Named(h)' /\ ~handle'[h].incall => Alone(h)'
    BY <1>1, <1>2, RoleTypes DEF Rest, Left, Alone, Named
  <2>2. ASSUME New(h)' 
        PROVE  ~handle'[h].timer /\ At(h, "idle")' /\ \A g \in Handle : task'[g].callee # h
    <3>1. New(h) /\ ~handle[h].timer /\ At(h, "idle") /\ \A g \in Handle : task[g].callee # h
      BY <1>1, <1>2, <2>2 DEF Rest
    <3>2. ~handle'[h].timer
      BY <1>2, <3>1 DEF Left, New
    <3>4. task'[h] = task[h] \/ task'[h].pc = "idle"
      BY <1>2, <3>1 DEF Done, New, Named
    <3>5. \A g \in Handle : task'[g].callee # h
      BY <1>2, <3>1, NoneApart DEF Done
    <3>. QED  BY <3>1, <3>2, <3>4, <3>5 DEF At
  <2>. QED  BY <2>1, <2>2 DEF Rest
<1>4. ASSUME NEW h \in Handle PROVE Caller(h)'
  <2>1. SUFFICES ASSUME task'[h].pc \in Calls
                 PROVE  /\ \A g \in Handle : task'[g].callee # h
                        /\ Named(h)' => handle'[h].incall /\ Alone(h)'
    BY DEF Caller
  <2>2. task'[h] = task[h] /\ task[h].pc \in Calls
    BY <1>2, <2>1 DEF Done, Calls
  <2>3. (\A g \in Handle : task[g].callee # h) /\ (Named(h) => handle[h].incall /\ Alone(h))
    BY <1>1, <2>2 DEF Caller
  <2>4. Named(h) => handle'[h] = handle[h]
    BY <1>2, <2>1, RoleTypes DEF Left, Named
  <2>5. \A g \in Handle : task'[g].callee # h
    BY <1>2, <2>3, NoneApart DEF Done
  <2>. QED  BY <1>2, <2>3, <2>4, <2>5 DEF Alone
<1>5. ASSUME NEW g \in Handle PROVE Callee(g)'
  <2>1. CASE task'[g].pc \notin Inviting
    BY <2>1 DEF Callee
  <2>2. CASE task'[g].pc \in Inviting
    <3>1. task'[g] = task[g] /\ task[g].pc \in Inviting
      BY <1>2, <2>2 DEF Done, Inviting
    <3>. PICK k \in Handle : k = task[g].callee
      BY <3>1, RoleTypes
    <3>2. /\ \A f \in Handle : task[f].callee = k => f = g
          /\ Named(k) => /\ handle[k].incall /\ Alone(k)
                         /\ handle[k].peer = backend[task[g].mine].name
          /\ \A f \in Handle : handle[f].name = task[g].to => f = k
      BY <1>1, <3>1 DEF Callee
    <3>3. Named(k) => handle'[k] = handle[k]
      BY <1>2, <3>1, RoleTypes DEF Left, Named
    <3>4. task[g].mine \in Backend /\ backend'[task[g].mine].name = backend[task[g].mine].name
      BY <3>1, RoleTypes DEF Inviting, Using, Leaving, Closes
    <3>5. \A f \in Handle : task'[f].callee = k => f = g
      BY <1>2, <3>2, NoneApart DEF Done
    <3>6. Named(k)' => /\ handle'[k].incall /\ Alone(k)'
                       /\ handle'[k].peer = backend'[task[g].mine].name
      BY <1>2, <3>2, <3>3, <3>4 DEF Alone
    <3>7. \A f \in Handle : handle'[f].name = task[g].to => f = k
      BY <1>2, <3>2
    <3>. QED  BY <3>1, <3>5, <3>6, <3>7 DEF Callee, Named, Alone
  <2>. QED  BY <2>1, <2>2
<1>6. ASSUME NEW b \in Backend PROVE Kept(b)'
  <2>. PICK h : h = backend[b].owner
    OBVIOUS
  <2>1. SUFFICES ASSUME backend'[b].alive, ~handle'[h].gone
                 PROVE  \/ handle'[h].backend = b \/ task'[h].mine = b
                        \/ \E g \in Handle : task'[g].theirs = b
    BY DEF Kept, Leaving, Closes
  <2>2. backend[b].alive /\ b \notin B /\ h \in Handle
    BY <1>1, <2>1, Types DEF Leaving, Closes, Heard
  <2>3. ~handle[h].gone /\ (\/ handle[h].backend = b \/ task[h].mine = b
                            \/ \E g \in Handle : task[g].theirs = b)
    BY <1>1, <1>2, <2>1, <2>2 DEF Kept
  <2>4. \A g \in Handle : task[g].mine = b \/ task[g].theirs = b => task'[g] = task[g]
    BY <2>2, NoneApart DEF Leaving, Locals
  <2>. QED  BY <2>2, <2>3, <2>4 DEF Leaving
<1>7. ASSUME NEW g \in Handle PROVE QuietLocals(g)'
  <2>1. CASE task'[g] = task[g]
    <3>1. task[g].mine # None /\ ~At(g, "calling") /\ Named(g) => Quiet(task[g].mine)
      BY <1>1 DEF QuietLocals
    <3>2. task[g].theirs # None => Quiet(task[g].theirs)
      BY <1>1 DEF QuietLocals
    <3>3. \A b \in Backend : Quiet(b) => Quiet(b)'
      BY CalmQuiet DEF Leaving
    <3>. QED  BY <1>2, <2>1, <3>1, <3>2, <3>3, RoleTypes DEF QuietLocals, At, Quiet
  <2>2. CASE task'[g] # task[g]
    BY <2>2 DEF QuietLocals, Leaving, Done, Quiet
  <2>. QED  BY <2>1, <2>2
<1>8. OneName'
  BY <1>1, LeavingKnown DEF OneName, Leaving, Closes
<1>9. ASSUME NEW g \in Handle PROVE Expects(g)'
  <2>1. SUFFICES ASSUME At(g, "calling")', task'[g].resp = "none",
                        NEW k \in Handle, handle'[k].name = task'[g].to
                 PROVE  Ringing(k, task[g].mine)' /\ task'[g] = task[g]
    BY DEF Expects, Ringing, Quiet
  <2>2. task'[g] = task[g] /\ At(g, "calling") /\ task[g].resp = "none"
        /\ handle[k].name = task[g].to /\ task[g].mine \in Backend /\ task[g].to \in User
    BY <1>2, <2>1, RoleTypes DEF Done, At, Using, Calls
  <2>3. Ringing(k, task[g].mine)
    BY <1>1, <2>2 DEF Expects
  <2>4. handle'[k] = handle[k]
    BY <1>2, <2>2, RoleTypes, NoneApart DEF Left, Unawaited
  <2>5. handle[k].backend \in Backend /\ Quiet(handle[k].backend)
    BY <2>3, RoleTypes DEF Ringing
  <2>6. \A b \in Backend : Quiet(b) => Quiet(b)'
    BY CalmQuiet DEF Leaving
  <2>. QED  BY <2>2, <2>3, <2>4, <2>5, <2>6 DEF Ringing, Leaving, Closes, Quiet
<1>10. ASSUME NEW h \in Handle PROVE Talks(h)'
  <2>1. CASE handle'[h] = handle[h]
    <3>1. Talks(h) /\ handle[h].backend \in Backend \cup {None}
      BY <1>1, RoleTypes
    <3>. QED  BY <2>1, <3>1 DEF Talks, Leaving, Calm
  <2>2. CASE ~handle'[h].incall
    BY <2>2 DEF Talks
  <2>. QED  BY <1>2, <2>1, <2>2 DEF Left
<1>11. ASSUME NEW h \in Handle PROVE Real(h)'
  <2>1. SUFFICES ASSUME handle'[h].incall PROVE Real(h)'
    BY DEF Real
  <2>2. handle'[h] = handle[h] /\ Real(h)
    BY <1>1, <1>2, <2>1 DEF Left
  <2>3. task[h].pc \notin {"idle", "hangup"} => task'[h] = task[h]
    BY <1>2, <2>1 DEF Done
  <2>4. \A c \in Handle : task[c].callee = h => task'[c] = task[c]
    BY <1>2, <2>1, NoneApart DEF Done
  <2>. QED  BY <2>1, <2>2, <2>3, <2>4 DEF Real
<1>. QED  BY <1>3, <1>4, <1>5, <1>6, <1>7, <1>8, <1>9, <1>10, <1>11 DEF RoleInv

Mild == Faults \subseteq {"detach"}

LEMMA RoleFacts ==
    ASSUME CallInv
    PROVE  /\ \A h \in Handle : /\ Rest(h) /\ Caller(h) /\ Callee(h) /\ QuietLocals(h)
                                /\ Expects(h) /\ Talks(h) /\ Real(h)
                                /\ Stored(h) /\ LocalsOK(h)
           /\ \A b \in Backend : Kept(b) /\ OwnName(b) /\ Heard(b)
           /\ OneName /\ OneEach /\ ListedIsThere /\ HoldInv /\ IInv
BY Types DEF CallInv, RoleInv, HoldInv, NameInv, ListInv

\* Only a handle that waits with its timer is about to be called.
LEMMA NotRinging ==
    ASSUME CallInv, NEW k \in Handle,
           handle[k].backend = None \/ ~handle[k].timer \/ ~handle[k].incall
    PROVE  Unawaited(k)
<1>1. ASSUME NEW g \in Handle, At(g, "calling"), task[g].resp = "none",
             task[g].to = handle[k].name
      PROVE  FALSE
  <2>1. Ringing(k, task[g].mine)
    BY <1>1, RoleFacts DEF Expects
  <2>. QED  BY <2>1 DEF Ringing
<1>. QED  BY <1>1 DEF Unawaited

\* Events come to the backend handle that the handle has.
LEMMA EventHome ==
    ASSUME CallInv, NEW b \in Backend, NEW e, Delivered(b, e), NEW k \in Handle,
           k = backend[b].owner, Named(k)
    PROVE  handle[k].backend = b
<1>1. backend[b].alive /\ ~Quiet(b) /\ ~handle[k].gone
  BY RoleTypes DEF Delivered, Quiet, Named
<1>2. task[k].mine # b
  <2>1. ASSUME task[k].mine = b PROVE FALSE
    BY <1>1, <2>1, RoleFacts, NoneApart DEF QuietLocals, Delivered
  <2>. QED  BY <2>1
<1>3. \A g \in Handle : task[g].theirs # b
  BY <1>1, RoleFacts, NoneApart DEF QuietLocals
<1>. QED  BY <1>1, <1>2, <1>3, RoleFacts DEF Kept

\* A registered handle that gives up its call by itself.
LEMMA LeftOnItsOwn ==
    ASSUME CallInv, NEW k \in Handle, Named(k), ~Alone(k), Quits(k), Unawaited(k),
           \A g \in Handle : task'[g] = task[g] \/ task'[g].callee = None,
           task'[k] = task[k] \/ task'[k].pc = "hangup"
    PROVE  Left(k) /\ task[k].pc \notin Calls
<1>1. task[k].pc \notin Calls
  BY RoleFacts DEF Caller
<1>2. task'[k].pc \notin Calls
  BY <1>1 DEF Calls
<1>3. ASSUME NEW g \in Handle, task[g].callee = k PROVE FALSE
  <2>1. task[g].pc \in Inviting /\ Callee(g)
    BY <1>3, RoleFacts, RoleTypes, NoneApart
  <2>. QED  BY <1>3, <2>1 DEF Callee
<1>4. \A g \in Handle : task'[g].callee # k
  BY <1>3, NoneApart
<1>. QED  BY <1>1, <1>2, <1>4 DEF Left, Quits, HungUp, After

\* Somebody leaves his call, and his backend handle is closed.
LEMMA RoleQuits ==
    ASSUME CallInv, IInv', NEW k \in Handle, Named(k), ~Alone(k), Quits(k), Unawaited(k),
           task' = task, Calm, Closes({handle[k].backend} \ {None})
    PROVE  RoleInv'
<1>. DEFINE B == {handle[k].backend} \ {None}
<1>1. B \in SUBSET Backend
  BY RoleTypes
<1>2. Left(k)
  BY LeftOnItsOwn
<1>3. \A h \in Handle : handle'[h] = handle[h] \/ Left(h)
  BY <1>2 DEF Quits, OthersStay
<1>4. \A b \in Backend : \A h \in Handle :
         handle[h].backend = b /\ b \notin B /\ ~handle[h].gone
           => handle'[h].backend = b \/ task'[h].mine = b
  BY NoneApart DEF Quits, OthersStay
<1>5. Leaving(B)
  BY <1>3, <1>4 DEF Leaving
<1>. QED  BY <1>1, <1>5, RoleLeaving

LEMMA RoleHangupEvent ==
    ASSUME CallInv, IInv', NEW b \in Backend, HangupEvent(b)
    PROVE  RoleInv'
<1>1. IInv /\ \A k \in Handle : {handle[k].backend} \ {None} \in SUBSET Backend
  BY RoleTypes
<1>2. PICK k \in Handle : k = backend[b].owner
  BY <1>1, HangupEventFields
<1>3. /\ Delivered(b, "hangup") /\ task' = task
      /\ \/ /\ Named(k) /\ Quits(k)
            /\ backend' = Ended(Taken(b, "hangup"), {handle[k].backend} \ {None})
         \/ backend' = Taken(b, "hangup") /\ handle' = handle
  BY <1>1, <1>2, HangupEventFields DEF Named
<1>4. CASE /\ Named(k) /\ Quits(k)
           /\ backend' = Ended(Taken(b, "hangup"), {handle[k].backend} \ {None})
  <2>1. handle[k].backend = b /\ ~Quiet(b)
    BY <1>2, <1>3, <1>4, EventHome DEF Delivered, Quiet
  <2>2. Unawaited(k)
    <3>1. ASSUME NEW g \in Handle, At(g, "calling"), task[g].resp = "none",
                 task[g].to = handle[k].name
          PROVE  FALSE
      BY <2>1, <3>1, RoleFacts DEF Expects, Ringing
    <3>. QED  BY <3>1 DEF Unawaited
  <2>3. ~Alone(k)
    BY <2>1, NoneApart DEF Alone
  <2>4. Closes({handle[k].backend} \ {None}) /\ Calm
    BY <1>1, <1>4, TakenEndedCloses, TakenEndedCalm
  <2>. QED  BY <1>3, <1>4, <2>2, <2>3, <2>4, RoleQuits
<1>5. CASE backend' = Taken(b, "hangup") /\ handle' = handle
  <2>1. Closes({}) /\ Calm
    BY <1>1, <1>5, TakenCloses, TakenCalm
  <2>2. Leaving({})
    BY <1>3, <1>5, <2>1 DEF Leaving
  <2>. QED  BY <2>2, RoleLeaving
<1>. QED  BY <1>3, <1>4, <1>5

LEMMA RoleAutoDisconnect ==
    ASSUME CallInv, IInv', NEW k \in Handle, AutoDisconnect(k), Mild
    PROVE  RoleInv'
<1>1. IInv /\ {handle[k].backend} \ {None} \in SUBSET Backend
  BY RoleTypes
<1>2. /\ handle[k].timer /\ ~Expected(k) /\ Quits(k) /\ task' = task
      /\ \/ handle[k].name = None /\ backend' = backend
         \/ Named(k) /\ backend' = Ended(backend, {handle[k].backend} \ {None})
  BY <1>1, AutoDisconnectFields DEF Mild, Named
<1>3. CASE Named(k) /\ backend' = Ended(backend, {handle[k].backend} \ {None})
  <2>1. ~Alone(k) /\ Unawaited(k)
    BY <1>2 DEF Alone, Unawaited, Expected
  <2>2. Closes({handle[k].backend} \ {None}) /\ Calm
    BY <1>1, <1>3, EndedCloses, EndedCalm
  <2>. QED  BY <1>2, <1>3, <2>1, <2>2, RoleQuits
<1>4. CASE handle[k].name = None /\ backend' = backend
  <2>1. handle[k].gone
    BY <1>2, <1>4, RoleFacts DEF Rest, New
  <2>2. Left(k)
    BY <1>2, <2>1 DEF Left, Quits, HungUp, After
  <2>3. Closes({}) /\ Calm
    BY <1>4, SameCloses, SameCalm
  <2>4. Leaving({})
    BY <1>2, <2>1, <2>2, <2>3 DEF Leaving, Quits, OthersStay
  <2>. QED  BY <2>4, RoleLeaving
<1>. QED  BY <1>2, <1>3, <1>4

LEMMA RoleHangup ==
    ASSUME CallInv, IInv', NEW h \in Handle, Hangup(h), Mild
    PROVE  RoleInv'
<1>1. IInv /\ handle[h].backend \in Backend \cup {None}
  BY RoleTypes
<1>2. /\ At(h, "idle") /\ handle[h].incall /\ handle[h].backend # None /\ ~handle[h].timer
      /\ Quits(h) /\ Goes(h, "hangup", None, None, handle[h].backend, None, "none")
  BY <1>1, HangupEffect DEF Mild
<1>3. Named(h) /\ ~Alone(h) /\ Unawaited(h)
  BY <1>2, NotRinging, RoleTypes DEF Named, Alone
<1>4. /\ \A g \in Handle : g # h => task'[g] = task[g]
      /\ task'[h].pc = "hangup" /\ task'[h].callee = None /\ task'[h].theirs = None
      /\ task'[h].mine = handle[h].backend
  BY <1>2 DEF Goes
<1>5. Left(h)
  BY <1>2, <1>3, <1>4, LeftOnItsOwn
<1>6. Closes({}) /\ Calm
  BY <1>1, HangupFields, HangupCalm DEF Closes
<1>7. backend'[handle[h].backend].peer = None /\ backend'[handle[h].backend].events = {}
  BY <1>1, <1>2, HangupFields DEF Mild
<1>8. Done(h) /\ Locals(h) \subseteq {None}
  BY <1>2, <1>3, <1>4, RoleTypes DEF Done, At, Locals, Using, Inviting
<1>9. Leaving({})
  <2>1. \A k \in Handle : handle'[k] = handle[k] \/ Left(k)
    BY <1>2, <1>5 DEF Quits, OthersStay
  <2>2. \A g \in Handle :
         \/ task'[g] = task[g]
         \/ /\ Done(g) /\ Locals(g) \subseteq {} \cup {None}
            /\ task'[g].mine # None => /\ backend'[task'[g].mine].peer = None
                                       /\ backend'[task'[g].mine].events = {}
    BY <1>4, <1>7, <1>8
  <2>3. \A b \in Backend : \A k \in Handle :
         handle[k].backend = b /\ b \notin {} /\ ~handle[k].gone
           => handle'[k].backend = b \/ task'[k].mine = b
    BY <1>2, <1>4 DEF Quits, OthersStay
  <2>. QED  BY <1>6, <2>1, <2>2, <2>3 DEF Leaving
<1>. QED  BY <1>9, RoleLeaving

\* The caller h and perhaps the callee k, in K, drop a call that cannot be set up.
LEMMA RoleFails ==
    ASSUME CallInv, IInv', NEW h \in Handle, NEW K \in SUBSET Handle, h \in K,
           task[h].pc \in Calls,
           \A k \in K : k = h \/ task[h].callee = k,
           task[h].callee # None => task[h].callee \in K,
           \A f \in Handle \ K : handle'[f] = handle[f],
           \A k \in K : Failed(handle', k), Rests(h),
           NEW B \in SUBSET Backend, Locals(h) \subseteq B \cup {None},
           backend' = Ended(backend, B)
    PROVE  RoleInv'
<1>1. /\ \A k \in K : /\ handle'[k].name = handle[k].name /\ handle'[k].gone = handle[k].gone
                      /\ handle'[k].backend = None /\ ~handle'[k].incall
                      /\ handle'[k].timer = handle[k].timer
      /\ \A g \in Handle : g # h => task'[g] = task[g]
      /\ task'[h].pc = "idle" /\ task'[h].callee = None /\ task'[h].theirs = None
      /\ task'[h].mine = None
  BY RoleTypes DEF Failed, Rests, Goes
<1>2. ASSUME NEW k \in K PROVE Named(k) => Alone(k)
  <2>1. CASE k = h
    BY <2>1, RoleFacts DEF Caller
  <2>2. CASE k # h
    <3>1. task[h].pc \in Inviting /\ Callee(h) /\ task[h].callee = k
      BY <2>2, RoleTypes, RoleFacts, NoneApart
    <3>. QED  BY <3>1 DEF Callee
  <2>. QED  BY <2>1, <2>2
<1>3. ASSUME NEW k \in K PROVE ~New(k)
  <2>1. k # None
    BY NoneApart
  <2>. QED  BY <1>2, <2>1, RoleFacts DEF Rest, At, Calls
<1>4. ASSUME NEW k \in K, Named(k) PROVE Left(k)
  <2>1. Alone(k) /\ Unawaited(k) /\ k # None
    BY <1>2, <1>4, NotRinging, NoneApart DEF Alone
  <2>2. task'[k].pc \notin Calls
    <3>1. CASE k = h
      BY <1>1, <3>1 DEF Calls
    <3>2. CASE k # h
      BY <1>1, <3>2, RoleFacts DEF Caller
    <3>. QED  BY <3>1, <3>2
  <2>3. \A g \in Handle : task'[g].callee # k
    <3>1. CASE k = h
      BY <1>1, <2>1, <3>1, RoleFacts DEF Caller
    <3>2. CASE k # h
      <4>1. task[h].pc \in Inviting /\ Callee(h) /\ task[h].callee = k
        BY <2>1, <3>2, RoleTypes, RoleFacts
      <4>2. \A f \in Handle : task[f].callee = k => f = h
        BY <4>1 DEF Callee
      <4>. QED  BY <1>1, <2>1, <4>2
    <3>. QED  BY <3>1, <3>2
  <2>. QED  BY <1>1, <2>1, <2>2, <2>3 DEF Left, Alone
<1>5. ASSUME NEW k \in K, ~Named(k) PROVE Left(k)
  BY <1>1, <1>3, <1>5 DEF Left, New, Named
<1>6. Closes(B) /\ Calm
  BY RoleTypes, EndedCloses, EndedCalm
<1>7. Done(h)
  BY <1>1 DEF Done
<1>8. \A k \in Handle : handle'[k] = handle[k] \/ Left(k)
  BY <1>4, <1>5
<1>9. \A g \in Handle :
         \/ task'[g] = task[g]
         \/ /\ Done(g) /\ Locals(g) \subseteq B \cup {None}
            /\ task'[g].mine # None => /\ backend'[task'[g].mine].peer = None
                                       /\ backend'[task'[g].mine].events = {}
  BY <1>1, <1>7
<1>10. ASSUME NEW b \in Backend, NEW f \in Handle, handle[f].backend = b, ~handle[f].gone
       PROVE  handle'[f].backend = b
  <2>1. f \notin K
    BY <1>2, <1>3, <1>10, NoneApart DEF Alone, New, Named
  <2>. QED  BY <1>10, <2>1
<1>11. Leaving(B)
  BY <1>6, <1>8, <1>9, <1>10 DEF Leaving
<1>. QED  BY <1>11, RoleLeaving

\* No callee is involved.
LEMMA RoleFailsAlone ==
    ASSUME CallInv, IInv', NEW h \in Handle, task[h].pc \in Calls \ Inviting,
           OthersStay(h), Failed(handle', h), Rests(h),
           backend' = Ended(backend, {task[h].mine} \ {None})
    PROVE  RoleInv'
<1>1. /\ task[h].callee = None /\ Locals(h) \subseteq ({task[h].mine} \ {None}) \cup {None}
      /\ {task[h].mine} \ {None} \in SUBSET Backend
  BY RoleTypes DEF Locals, Inviting
<1>2. \A f \in Handle \ {h} : handle'[f] = handle[f]
  BY DEF OthersStay
<1>3. {h} \in SUBSET Handle /\ h \in {h} /\ \A k \in {h} : k = h \/ task[h].callee = k
  OBVIOUS
<1>4. \A k \in {h} : Failed(handle', k)
  OBVIOUS
<1>. QED  BY <1>1, <1>2, <1>3, <1>4, RoleFails

LEMMA RolePeerConnectFails ==
    ASSUME CallInv, IInv', NEW h \in Handle, PeerConnectFails(h)
    PROVE  RoleInv'
<1>1. IInv /\ task[h].pc \in Inviting /\ task[h].callee \in Handle
  BY RoleTypes, PeerConnectFailsFields
<1>. PICK k \in Handle : k = task[h].callee
  BY <1>1
<1>. DEFINE B == (Locals(h) \cup {handle[k].backend}) \ {None}
            K == {h, k}
<1>2. BothFail(h, k) /\ backend' = Ended(backend, B)
  BY <1>1, PeerConnectFailsFields
<1>3. B \in SUBSET Backend /\ Locals(h) \subseteq B \cup {None}
  BY RoleTypes DEF Locals
<1>4. /\ \A f \in Handle \ K : handle'[f] = handle[f]
      /\ \A x \in K : Failed(handle', x)
      /\ Rests(h)
  BY <1>2 DEF BothFail
<1>5. K \in SUBSET Handle /\ h \in K /\ (\A x \in K : x = h \/ task[h].callee = x)
      /\ task[h].callee \in K /\ task[h].pc \in Calls
  BY <1>1 DEF Inviting, Calls
<1>. HIDE DEF B, K
<1>. QED  BY <1>2, <1>3, <1>4, <1>5, RoleFails

LEMMA RoleConnectFails ==
    ASSUME CallInv, IInv', NEW h \in Handle, ConnectFails(h), Mild
    PROVE  RoleInv'
<1>1. /\ IInv /\ OthersStay(h) /\ Rests(h)
      /\ After(h, handle[h].incall, handle[h].peer, None, handle[h].timer)
      /\ backend' = Ended(backend, {task[h].mine} \ {None})
      /\ task[h].pc \in Calls \ Inviting
  BY RoleTypes, ConnectFailsFields DEF ConnectFails, At, Calls, Inviting
<1>2. CASE handle[h].name = None
  <2>1. Failed(handle', h)
    BY <1>1, <1>2 DEF Failed, After
  <2>. QED  BY <1>1, <2>1, RoleFailsAlone
<1>3. CASE handle[h].name # None
  <2>1. At(h, "register") /\ ~CanRegister(task[h].mine) /\ task[h].mine \in Backend
    BY <1>3, RoleTypes DEF ConnectFails, Mild, At, Using
  <2>. PICK b \in Backend : b = task[h].mine
    BY <2>1
  <2>2. backend[b].alive /\ backend[b].owner = h
    BY <2>1, RoleFacts, NoneApart DEF LocalsOK, Holds
  <2>3. PICK c \in Backend : Known(c) /\ backend[c].name = backend[b].name
    BY <2>1, <2>2 DEF CanRegister, Namesakes
  <2>4. backend[c].alive /\ c # b /\ \A g \in Handle : task[g].theirs # c
    BY <2>1, <2>3, RoleTypes, NoneApart DEF Known, At
  <2>5. backend[c].owner = h
    BY <2>2, <2>3, <2>4, RoleFacts DEF OwnName
  <2>6. handle[h].backend = c \/ task[h].mine = c
    BY <1>3, <2>4, <2>5, RoleFacts, RoleTypes DEF Kept
  <2>7. handle[h].backend = None
    BY <1>1, <1>3, RoleFacts DEF Caller, Named, Alone
  <2>. QED  BY <2>4, <2>6, <2>7, NoneApart
<1>. QED  BY <1>2, <1>3

LEMMA RoleCallRefused ==
    ASSUME CallInv, IInv', NEW h \in Handle, CallRefused(h)
    PROVE  RoleInv'
<1>1. /\ At(h, "calling") /\ task[h].mine \in Backend
      /\ OthersStay(h) /\ Failed(handle', h) /\ Rests(h)
      /\ backend' = Ended(backend, {task[h].mine})
  BY RoleTypes, CallRefusedFields
<1>2. {task[h].mine} \ {None} = {task[h].mine} /\ task[h].pc \in Calls \ Inviting
  BY <1>1, NoneApart DEF At, Calls, Inviting
<1>. QED  BY <1>1, <1>2, RoleFailsAlone

LEMMA RoleHangupEnds ==
    ASSUME CallInv, IInv', NEW h \in Handle, HangupEnds(h)
    PROVE  RoleInv'
<1>1. /\ At(h, "hangup") /\ task[h].mine \in Backend /\ Rests(h) /\ handle' = handle /\ IInv
      /\ backend' = Ended(backend, {task[h].mine})
  BY RoleTypes, HangupEndsEffect
<1>. PICK b \in Backend : b = task[h].mine
  BY <1>1
<1>2. Closes({b}) /\ Calm
  BY <1>1, EndedCloses, EndedCalm
<1>3. Done(h) /\ Locals(h) \subseteq {b} \cup {None} /\ task'[h].mine = None
  BY <1>1, RoleTypes DEF Done, Rests, Goes, Locals, At, Inviting
<1>4. \A g \in Handle : g # h => task'[g] = task[g]
  BY <1>1 DEF Rests, Goes
<1>5. Leaving({b})
  BY <1>1, <1>2, <1>3, <1>4 DEF Leaving
<1>. QED  BY <1>5, RoleLeaving

LEMMA RoleRegister ==
    ASSUME CallInv, IInv', NEW h \in Handle, NEW u \in User, Register(h, u), Mild
    PROVE  RoleInv'
<1>1. /\ OthersStay(h) /\ handle'[h].gone = handle[h].gone /\ handle'[h].name = u
      /\ handle'[h].incall = handle[h].incall /\ handle'[h].peer = handle[h].peer
      /\ handle'[h].backend = handle[h].backend /\ handle'[h].timer = handle[h].timer
      /\ task' = task /\ backend' = backend /\ At(h, "idle") /\ New(h) /\ ~Named(h)
  BY RoleTypes, RegisterFields DEF Register, New, Named
<1>2. Unused(u) /\ u # None
  BY NoneApart DEF Register, Mild
<1>3. ~handle[h].incall /\ ~handle[h].timer /\ \A g \in Handle : task[g].callee # h
  BY <1>1, RoleFacts, RoleTypes DEF Rest, Named
<1>4. handle[h].backend = None
  <2>1. ASSUME NEW b \in Backend, handle[h].backend = b PROVE FALSE
    BY <1>1, <2>1, RoleFacts, NoneApart DEF Stored, Holds, OwnName
  <2>. QED  BY <2>1, RoleTypes
<1>5. \A k \in Handle : k # h => /\ handle'[k] = handle[k] /\ Named(k)' = Named(k)
                                 /\ New(k)' = New(k) /\ Alone(k)' = Alone(k)
  BY <1>1 DEF OthersStay, Named, New, Alone
<1>6. ASSUME NEW k \in Handle PROVE Rest(k)'
  BY <1>1, <1>2, <1>3, <1>4, <1>5, RoleFacts DEF Rest, Alone, New, At
<1>7. ASSUME NEW k \in Handle PROVE Caller(k)'
  <2>1. Caller(k)
    BY RoleFacts
  <2>2. k = h => task[k].pc \notin Calls
    BY <1>1 DEF At, Calls
  <2>. QED  BY <1>1, <1>5, <2>1, <2>2 DEF Caller
<1>8. ASSUME NEW g \in Handle PROVE Callee(g)'
  <2>1. SUFFICES ASSUME task[g].pc \in Inviting PROVE Callee(g)'
    BY <1>1 DEF Callee
  <2>. PICK k \in Handle : k = task[g].callee
    BY <2>1, RoleTypes
  <2>2. k # h /\ task[g].to # u
    BY <1>2, <1>3 DEF Unused
  <2>. QED  BY <1>1, <1>5, <2>1, <2>2, RoleFacts DEF Callee
<1>9. ASSUME NEW b \in Backend PROVE Kept(b)'
  BY <1>1, <1>5, RoleFacts DEF Kept, Heard
<1>10. ASSUME NEW g \in Handle PROVE QuietLocals(g)'
  <2>1. task[h].mine = None /\ task[h].theirs = None
    BY <1>1, RoleTypes DEF At, Using
  <2>. QED  BY <1>1, <1>5, <2>1, RoleFacts DEF QuietLocals, Quiet, At
<1>11. OneName'
  BY <1>1, RoleFacts DEF OneName, Known, At
<1>12. ASSUME NEW g \in Handle PROVE Expects(g)'
  <2>1. task[g].to # u
    BY <1>2 DEF Unused
  <2>. QED  BY <1>1, <1>5, <2>1, RoleFacts DEF Expects, Ringing, Quiet, At
<1>13. ASSUME NEW k \in Handle PROVE Talks(k)' /\ Real(k)'
  BY <1>1, <1>3, <1>5, RoleFacts DEF Talks, Real
<1>. QED  BY <1>6, <1>7, <1>8, <1>9, <1>10, <1>11, <1>12, <1>13 DEF RoleInv

LEMMA RoleCall ==
    ASSUME CallInv, IInv', NEW h \in Handle, NEW u \in User, Call(h, u)
    PROVE  RoleInv'
<1>1. At(h, "idle") /\ Named(h) /\ ~handle[h].incall /\ Alone(h)
  BY RoleFacts DEF Call, Named, Rest
<1>2. /\ OthersStay(h) /\ After(h, TRUE, u, None, handle[h].timer) /\ backend' = backend
      /\ Goes(h, "attach", u, None, None, None, "none")
  BY <1>1, RoleTypes, CallFields DEF Alone
<1>3. /\ \A k \in Handle : k # h => handle'[k] = handle[k] /\ task'[k] = task[k]
      /\ \A k \in Handle : Named(k)' = Named(k) /\ New(k)' = New(k) /\ Alone(k)' = Alone(k)
      /\ task[h].mine = None /\ task[h].theirs = None /\ task[h].callee = None
      /\ task'[h].mine = None /\ task'[h].theirs = None /\ task'[h].callee = None
      /\ task'[h].pc = "attach" /\ task[h].pc = "idle"
      /\ handle'[h].incall /\ handle'[h].backend = None /\ ~handle'[h].timer
      /\ handle'[h].name = handle[h].name /\ handle'[h].gone = handle[h].gone
  BY <1>1, <1>2, RoleTypes DEF OthersStay, After, Goes, Named, New, Alone, At, Using, Inviting
<1>4. \A g \in Handle : task[g].callee # h
  <2>1. ASSUME NEW g \in Handle, task[g].callee = h PROVE FALSE
    <3>1. task[g].pc \in Inviting /\ Callee(g)
      BY <2>1, RoleTypes, RoleFacts, NoneApart
    <3>. QED  BY <1>1, <2>1, <3>1 DEF Callee
  <2>. QED  BY <2>1
<1>5. Unawaited(h)
  BY <1>1, NotRinging
<1>6. ASSUME NEW k \in Handle PROVE Rest(k)'
  <2>1. CASE k = h
    BY <1>1, <1>3, <2>1 DEF Rest, New, Named
  <2>2. CASE k # h
    <3>1. \A g \in Handle : task[g].callee # k => task'[g].callee # k
      BY <1>3, NoneApart
    <3>. QED  BY <1>3, <2>2, <3>1, RoleFacts DEF Rest, At
  <2>. QED  BY <2>1, <2>2
<1>7. ASSUME NEW k \in Handle PROVE Caller(k)'
  <2>1. \A g \in Handle : task[g].callee # k => task'[g].callee # k
    BY <1>3, NoneApart
  <2>2. CASE k = h
    BY <1>1, <1>3, <1>4, <2>1, <2>2 DEF Caller
  <2>3. CASE k # h
    BY <1>3, <2>1, <2>3, RoleFacts DEF Caller
  <2>. QED  BY <2>2, <2>3
<1>8. ASSUME NEW g \in Handle PROVE Callee(g)'
  <2>1. SUFFICES ASSUME task'[g].pc \in Inviting PROVE Callee(g)'
    BY DEF Callee
  <2>2. g # h /\ task'[g] = task[g] /\ task[g].pc \in Inviting
    BY <1>3, <2>1 DEF Inviting
  <2>. PICK k \in Handle : k = task[g].callee
    BY <2>2, RoleTypes
  <2>3. k # h /\ handle'[k] = handle[k]
    BY <1>3, <1>4
  <2>4. \A f \in Handle : task'[f].callee = k => task[f].callee = k
    BY <1>3, NoneApart
  <2>5. \A f \in Handle : handle'[f].name = handle[f].name
    BY <1>3
  <2>. QED  BY <1>2, <1>3, <2>2, <2>3, <2>4, <2>5, RoleFacts DEF Callee
<1>9. ASSUME NEW b \in Backend PROVE Kept(b)'
  <2>1. b # None /\ handle[h].backend = None
    BY <1>1, NoneApart DEF Alone
  <2>2. \A k \in Handle : /\ handle[k].backend = b => handle'[k].backend = b
                          /\ task[k].mine = b => task'[k].mine = b
                          /\ task[k].theirs = b => task'[k].theirs = b
                          /\ handle'[k].gone = handle[k].gone
    BY <1>3, <2>1
  <2>. QED  BY <1>2, <2>2, RoleFacts DEF Kept, Heard
<1>10. ASSUME NEW g \in Handle PROVE QuietLocals(g)'
  BY <1>2, <1>3, RoleFacts DEF QuietLocals, Quiet, At
<1>11. OneName'
  <2>1. \A b \in Backend : Known(b)' => Known(b)
    BY <1>2, <1>3 DEF Known, At
  <2>. QED  BY <1>2, <2>1, RoleFacts DEF OneName
<1>12. ASSUME NEW g \in Handle PROVE Expects(g)'
  <2>1. SUFFICES ASSUME At(g, "calling")', task'[g].resp = "none",
                        NEW k \in Handle, handle'[k].name = task'[g].to
                 PROVE  Ringing(k, task[g].mine)' /\ task'[g] = task[g]
    BY DEF Expects, Ringing, Quiet
  <2>2. g # h /\ task'[g] = task[g] /\ At(g, "calling") /\ task[g].resp = "none"
        /\ handle[k].name = task[g].to
    BY <1>3, <2>1 DEF At
  <2>3. Ringing(k, task[g].mine) /\ k # h
    BY <1>5, <2>2, RoleFacts DEF Expects, Unawaited
  <2>. QED  BY <1>2, <1>3, <2>2, <2>3 DEF Ringing, Quiet
<1>13. ASSUME NEW k \in Handle PROVE Talks(k)' /\ Real(k)'
  <2>1. CASE k = h
    BY <1>3, <2>1 DEF Talks, Real
  <2>2. CASE k # h
    <3>1. \A g \in Handle : task[g].callee = k => task'[g].callee = k
      BY <1>3, NoneApart
    <3>. QED  BY <1>2, <1>3, <2>2, <3>1, RoleFacts DEF Talks, Real
  <2>. QED  BY <2>1, <2>2
<1>. QED  BY <1>6, <1>7, <1>8, <1>9, <1>10, <1>11, <1>12, <1>13 DEF RoleInv

\* The greenlet of h opens backend handle b for handle k, and will register it.
Opening(h, b, k) ==
    /\ handle' = handle
    /\ \A g \in Handle : g # h => task'[g] = task[g]
    /\ task'[h].callee = task[h].callee /\ task'[h].to = task[h].to
    /\ \/ /\ task[h].pc = "attach" /\ task'[h].pc = "register"
          /\ task'[h].mine = b /\ task'[h].theirs = None /\ k = h
       \/ /\ task[h].pc = "peerattach" /\ task'[h].pc = "peerregister"
          /\ task'[h].mine = task[h].mine /\ task'[h].theirs = b /\ k = task[h].callee

LEMMA RoleOpening ==
    ASSUME CallInv, IInv', NEW h \in Handle, NEW b \in Backend, NEW s, NEW k \in Handle,
           FreeBackend(b), Opens(b, s, k), Opening(h, b, k)
    PROVE  RoleInv'
<1>1. /\ ~backend[b].alive /\ b # None
      /\ \A g \in Handle : handle[g].backend # b /\ task[g].mine # b /\ task[g].theirs # b
  BY NoneApart DEF FreeBackend, Locals
<1>2. /\ \A c \in Backend : c # b => backend'[c] = backend[c]
      /\ backend'[b].owner = k /\ backend'[b].peer = None /\ backend'[b].events = {}
  BY DEF Opens
<1>3. /\ handle' = handle /\ \A g \in Handle : g # h => task'[g] = task[g]
      /\ \A g \in Handle : task'[g].callee = task[g].callee /\ task'[g].to = task[g].to
  BY DEF Opening
<1>4. /\ task[h].pc \in Calls /\ task'[h].pc \in Calls \ {"calling"}
      /\ task[h].pc \in Inviting <=> task'[h].pc \in Inviting
      /\ task[h].pc \in Inviting => task'[h].mine = task[h].mine
      /\ task[h].theirs = None /\ (task[h].mine = None \/ task'[h].mine = task[h].mine)
      /\ task[h].pc \notin {"register", "peerregister"}
      /\ \/ task'[h].pc = "register" /\ task'[h].mine = b /\ task'[h].theirs = None
         \/ task'[h].pc = "peerregister" /\ task'[h].theirs = b /\ task'[h].mine = task[h].mine
  BY RoleTypes DEF Opening, Calls, Inviting, Using
<1>6. ASSUME NEW x \in Handle PROVE Rest(x)'
  <2>1. Rest(x) /\ (New(x) => x # h)
    BY <1>4, RoleFacts DEF Rest, At, Calls
  <2>. QED  BY <1>3, <2>1 DEF Rest, New, Named, Alone, At
<1>7. ASSUME NEW x \in Handle PROVE Caller(x)'
  BY <1>3, <1>4, RoleFacts DEF Caller, Named, Alone
<1>8. ASSUME NEW g \in Handle PROVE Callee(g)'
  <2>1. SUFFICES ASSUME task'[g].pc \in Inviting PROVE Callee(g)'
    BY DEF Callee
  <2>2. task[g].pc \in Inviting /\ task'[g].mine = task[g].mine
    BY <1>3, <1>4, <2>1
  <2>3. task[g].mine \in Backend /\ backend'[task[g].mine] = backend[task[g].mine]
    BY <1>1, <1>2, <2>2, RoleTypes DEF Inviting, Using
  <2>. QED  BY <1>3, <2>2, <2>3, RoleFacts DEF Callee, Named, Alone
<1>9. ASSUME NEW c \in Backend PROVE Kept(c)'
  <2>1. CASE c = b
    BY <1>2, <1>3, <2>1 DEF Kept, Opening
  <2>2. CASE c # b
    <3>1. \A g \in Handle : /\ task[g].mine = c => task'[g].mine = c
                            /\ task[g].theirs = c => task'[g].theirs = c
      BY <1>3, <1>4, NoneApart
    <3>. QED  BY <1>2, <1>3, <2>2, <3>1, RoleFacts DEF Kept, Heard
  <2>. QED  BY <2>1, <2>2
<1>10. ASSUME NEW g \in Handle PROVE QuietLocals(g)'
  <2>1. QuietLocals(g) /\ Quiet(b)'
    BY <1>2, RoleFacts DEF Quiet
  <2>2. \A c \in Backend : c # b /\ Quiet(c) => Quiet(c)'
    BY <1>2 DEF Quiet
  <2>3. CASE g # h
    BY <1>1, <1>3, <2>1, <2>2, <2>3, RoleTypes DEF QuietLocals, At, Named, Quiet
  <2>4. CASE g = h
    <3>1. ~At(h, "calling")
      BY DEF Opening, At
    <3>. QED  BY <1>1, <1>3, <1>4, <2>1, <2>2, <2>4, <3>1, RoleTypes
              DEF QuietLocals, Named, Quiet
  <2>. QED  BY <2>3, <2>4
<1>11. OneName'
  <2>1. ASSUME NEW c \in Backend, Known(c)' PROVE c # b /\ Known(c)
    <3>1. c # b
      BY <1>4, <2>1 DEF Known, At
    <3>. QED  BY <1>2, <1>3, <1>4, <2>1, <3>1 DEF Known, At
  <2>. QED  BY <1>2, <2>1, RoleFacts DEF OneName
<1>12. ASSUME NEW g \in Handle PROVE Expects(g)'
  <2>1. SUFFICES ASSUME At(g, "calling")', task'[g].resp = "none",
                        NEW f \in Handle, handle'[f].name = task'[g].to
                 PROVE  Ringing(f, task[g].mine)' /\ task'[g] = task[g]
    BY DEF Expects, Ringing, Quiet
  <2>2. g # h /\ task'[g] = task[g] /\ At(g, "calling") /\ task[g].resp = "none"
        /\ handle[f].name = task[g].to
    BY <1>3, <1>4, <2>1 DEF At
  <2>3. Ringing(f, task[g].mine) /\ task[g].mine \in Backend
    BY <2>2, RoleFacts, RoleTypes DEF Expects, At, Using
  <2>4. /\ backend'[task[g].mine] = backend[task[g].mine]
        /\ handle[f].backend \in Backend
        /\ backend'[handle[f].backend] = backend[handle[f].backend]
    BY <1>1, <1>2, <2>3, RoleTypes DEF Ringing
  <2>. QED  BY <1>3, <2>2, <2>3, <2>4 DEF Ringing, Quiet
<1>13. ASSUME NEW x \in Handle PROVE Talks(x)' /\ Real(x)'
  <2>1. handle[x].backend # None => backend'[handle[x].backend] = backend[handle[x].backend]
    BY <1>1, <1>2, RoleTypes
  <2>2. Talks(x)'
    BY <1>3, <2>1, RoleFacts DEF Talks
  <2>3. task[x].pc \notin {"idle", "hangup"} => task'[x].pc \notin {"idle", "hangup"}
    BY <1>3, <1>4 DEF Calls
  <2>4. Real(x)'
    BY <1>3, <2>3, RoleFacts DEF Real
  <2>. QED  BY <2>2, <2>4
<1>. QED  BY <1>6, <1>7, <1>8, <1>9, <1>10, <1>11, <1>12, <1>13 DEF RoleInv

LEMMA RoleAttached ==
    ASSUME CallInv, IInv', NEW h \in Handle, Attached(h)
    PROVE  RoleInv'
<1>1. IInv /\ handle' = handle /\ task[h].pc = "attach" /\ task[h].callee = None
  BY RoleTypes, AttachedFields DEF Attached, At, Inviting
<1>2. PICK b \in Backend, s \in Server :
        /\ FreeBackend(b) /\ backend' = AttachedTo(b, s, h)
        /\ Goes(h, "register", task[h].to, None, b, None, task[h].resp)
  BY <1>1, AttachedFields
<1>3. Opens(b, s, h) /\ Opening(h, b, h)
  BY <1>1, <1>2, AttachedOpens DEF Opening, Goes
<1>. QED  BY <1>2, <1>3, RoleOpening

LEMMA RolePeerAttached ==
    ASSUME CallInv, IInv', NEW h \in Handle, PeerAttached(h)
    PROVE  RoleInv'
<1>1. IInv /\ handle' = handle /\ task[h].pc = "peerattach" /\ task[h].callee \in Handle
  BY RoleTypes, PeerAttachedFields DEF At
<1>. PICK k \in Handle : k = task[h].callee
  BY <1>1
<1>2. PICK b \in Backend :
        /\ FreeBackend(b) /\ backend' = AttachedTo(b, backend[task[h].mine].server, k)
        /\ Goes(h, "peerregister", task[h].to, k, task[h].mine, b, task[h].resp)
  BY <1>1, PeerAttachedFields
<1>3. Opens(b, backend[task[h].mine].server, k) /\ Opening(h, b, k)
  BY <1>1, <1>2, AttachedOpens DEF Opening, Goes
<1>. QED  BY <1>2, <1>3, RoleOpening

LEMMA RoleCallAnswered ==
    ASSUME CallInv, IInv', NEW h \in Handle, CallAnswered(h)
    PROVE  RoleInv'
<1>1. /\ At(h, "calling") /\ task[h].mine \in Backend /\ OthersStay(h) /\ backend' = backend
      /\ After(h, handle[h].incall, handle[h].peer, task[h].mine, handle[h].timer) /\ Rests(h)
  BY RoleTypes, CallAnsweredFields
<1>2. /\ \A k \in Handle : k # h => handle'[k] = handle[k] /\ task'[k] = task[k]
      /\ \A k \in Handle : Named(k)' = Named(k) /\ New(k)' = New(k)
      /\ \A k \in Handle : k # h => Alone(k)' = Alone(k)
      /\ task'[h].mine = None /\ task'[h].theirs = None /\ task'[h].callee = None
      /\ task[h].theirs = None /\ task[h].callee = None
      /\ task'[h].pc = "idle" /\ task[h].pc = "calling"
      /\ handle'[h].incall = handle[h].incall /\ handle'[h].timer = handle[h].timer
      /\ handle'[h].backend = task[h].mine /\ task[h].mine # None
      /\ handle'[h].name = handle[h].name /\ handle'[h].gone = handle[h].gone
  BY <1>1, RoleTypes, NoneApart DEF OthersStay, After, Rests, Goes, Named, New, Alone, At,
     Inviting
<1>3. /\ \A g \in Handle : task[g].callee # h /\ (task'[g].callee = task[g].callee)
      /\ Named(h) => handle[h].incall /\ handle[h].backend = None /\ ~handle[h].timer
  BY <1>2, RoleFacts DEF Caller, Calls, Alone
<1>4. ~New(h)
  BY <1>2, RoleFacts DEF Rest, At
<1>5. Named(h) => Unawaited(h)
  BY <1>3, NotRinging
<1>6. ASSUME NEW k \in Handle PROVE Rest(k)'
  BY <1>2, <1>3, <1>4, RoleFacts DEF Rest, At
<1>7. ASSUME NEW k \in Handle PROVE Caller(k)'
  <2>1. task'[k].pc \in Calls => k # h
    BY <1>2 DEF Calls
  <2>. QED  BY <1>2, <1>3, <2>1, RoleFacts DEF Caller
<1>8. ASSUME NEW g \in Handle PROVE Callee(g)'
  <2>1. SUFFICES ASSUME task'[g].pc \in Inviting PROVE Callee(g)'
    BY DEF Callee
  <2>2. g # h /\ task'[g] = task[g] /\ task[g].pc \in Inviting
    BY <1>2, <2>1 DEF Inviting
  <2>. PICK k \in Handle : k = task[g].callee
    BY <2>2, RoleTypes
  <2>3. k # h /\ handle'[k] = handle[k]
    BY <1>2, <1>3
  <2>4. \A f \in Handle : handle'[f].name = handle[f].name
    BY <1>2
  <2>. QED  BY <1>1, <1>2, <1>3, <2>2, <2>3, <2>4, RoleFacts DEF Callee
<1>9. ASSUME NEW b \in Backend PROVE Kept(b)'
  <2>. PICK k \in Handle \cup {backend[b].owner} : k = backend[b].owner
    OBVIOUS
  <2>1. SUFFICES ASSUME backend[b].alive, ~handle'[k].gone
                 PROVE  \/ handle'[k].backend = b \/ task'[k].mine = b
                        \/ \E g \in Handle : task'[g].theirs = b
    BY <1>1 DEF Kept
  <2>2. k \in Handle /\ ~handle[k].gone
    BY <1>2, <2>1, RoleFacts DEF Heard
  <2>3. \/ handle[k].backend = b \/ task[k].mine = b
        \/ \E g \in Handle : task[g].theirs = b
    BY <2>1, <2>2, RoleFacts DEF Kept
  <2>4. k = h => handle[k].backend = None
    BY <1>3, <1>4, <2>2 DEF New, Named
  <2>. QED  BY <1>2, <2>2, <2>3, <2>4, NoneApart
<1>10. ASSUME NEW g \in Handle PROVE QuietLocals(g)'
  BY <1>1, <1>2, RoleFacts DEF QuietLocals, Quiet, At
<1>11. OneName'
  <2>1. \A b \in Backend : Known(b)' => Known(b)
    BY <1>1, <1>2 DEF Known, At
  <2>. QED  BY <1>1, <2>1, RoleFacts DEF OneName
<1>12. ASSUME NEW g \in Handle PROVE Expects(g)'
  <2>1. SUFFICES ASSUME At(g, "calling")', task'[g].resp = "none",
                        NEW k \in Handle, handle'[k].name = task'[g].to
                 PROVE  Ringing(k, task[g].mine)' /\ task'[g] = task[g]
    BY DEF Expects, Ringing, Quiet
  <2>2. g # h /\ task'[g] = task[g] /\ At(g, "calling") /\ task[g].resp = "none"
        /\ handle[k].name = task[g].to /\ task[g].to # None
    BY <1>2, <2>1, RoleTypes, NoneApart DEF At, Calls
  <2>3. Ringing(k, task[g].mine) /\ k # h
    BY <1>5, <2>2, RoleFacts DEF Expects, Unawaited, Named
  <2>. QED  BY <1>1, <1>2, <2>2, <2>3 DEF Ringing, Quiet
<1>13. ASSUME NEW k \in Handle PROVE Talks(k)' /\ Real(k)'
  <2>1. CASE k = h
    <3>1. handle[h].incall => Named(h)
      BY RoleTypes DEF Named
    <3>. QED  BY <1>2, <1>3, <2>1, <3>1 DEF Talks, Real
  <2>2. CASE k # h
    BY <1>1, <1>2, <1>3, <2>2, RoleFacts DEF Talks, Real
  <2>. QED  BY <2>1, <2>2
<1>. QED  BY <1>6, <1>7, <1>8, <1>9, <1>10, <1>11, <1>12, <1>13 DEF RoleInv

LEMMA RoleInvites ==
    ASSUME CallInv, IInv', NEW h \in Handle, NEW k \in Handle, Invites(h, k),
           At(h, "register"), CanRegister(task[h].mine),
           k = directory[task[h].to].handle, ~handle[k].incall, Named(k)
    PROVE  RoleInv'
<1>1. /\ Named(h) /\ OthersStay(k) /\ backend' = backend /\ handle[k].backend = None
      /\ After(k, TRUE, handle[h].name, None, handle[k].timer)
      /\ Goes(h, "peerattach", task[h].to, k, task[h].mine, None, task[h].resp)
  BY DEF Invites, Named
<1>2. Alone(k) /\ handle[h].incall /\ Alone(h) /\ h # k
  BY <1>1, RoleFacts DEF Rest, Caller, Calls, At
<1>3. /\ \A f \in Handle : f # k => handle'[f] = handle[f]
      /\ \A g \in Handle : g # h => task'[g] = task[g]
      /\ backend' = backend
  BY <1>1 DEF OthersStay, Goes
<1>4. /\ handle'[k].name = handle[k].name /\ handle'[k].gone = handle[k].gone
      /\ handle'[k].backend = handle[k].backend /\ handle'[k].timer = handle[k].timer
      /\ handle'[k].incall /\ handle'[k].peer = handle[h].name
  BY <1>1 DEF After
<1>5. /\ \A f \in Handle : /\ handle'[f].name = handle[f].name
                           /\ handle'[f].gone = handle[f].gone
                           /\ handle'[f].backend = handle[f].backend
                           /\ handle'[f].timer = handle[f].timer
  BY <1>3, <1>4
<1>6. \A f \in Handle : Named(f)' = Named(f) /\ New(f)' = New(f) /\ Alone(f)' = Alone(f)
  BY <1>5 DEF Named, New, Alone
<1>7. /\ task[h].callee = None /\ task[h].theirs = None /\ task[h].mine \in Backend
      /\ task[h].pc = "register" /\ task[h].to \in User
  BY RoleTypes DEF At, Inviting, Using, Calls
<1>8. /\ task'[h].callee = k /\ task'[h].theirs = None /\ task'[h].mine = task[h].mine
      /\ task'[h].pc = "peerattach" /\ task'[h].to = task[h].to
  BY <1>1 DEF Goes
<1>9. /\ \A f \in Handle : f # k => handle'[f] = handle[f]
      /\ \A f \in Handle : /\ Named(f)' = Named(f) /\ New(f)' = New(f) /\ Alone(f)' = Alone(f)
                           /\ handle'[f].name = handle[f].name
                           /\ handle'[f].gone = handle[f].gone
                           /\ handle'[f].backend = handle[f].backend
                           /\ handle'[f].timer = handle[f].timer
      /\ handle'[k].incall /\ handle'[k].peer = handle[h].name
      /\ \A g \in Handle : g # h => task'[g] = task[g]
      /\ task[h].callee = None /\ task[h].theirs = None /\ task[h].mine \in Backend
      /\ task'[h].callee = k /\ task'[h].theirs = None /\ task'[h].mine = task[h].mine
      /\ task[h].pc = "register" /\ task'[h].pc = "peerattach" /\ task'[h].to = task[h].to
      /\ task[h].to \in User /\ backend' = backend
  BY <1>3, <1>4, <1>5, <1>6, <1>7, <1>8
<1>10. Named(h) /\ handle[h].name # None /\ handle[k].backend = None
  BY <1>1 DEF Named
<1>11. \A g \in Handle : task[g].callee # k
  <2>1. ASSUME NEW g \in Handle, task[g].callee = k PROVE FALSE
    <3>1. task[g].pc \in Inviting /\ Callee(g)
      BY <2>1, RoleTypes, RoleFacts, NoneApart
    <3>. QED  BY <2>1, <3>1 DEF Callee
  <2>. QED  BY <2>1
<1>12. Unawaited(k)
  BY NotRinging
<1>13. ASSUME NEW x \in Handle PROVE Rest(x)'
  <2>1. Rest(x) /\ (New(x) => x # h /\ x # k)
    BY <1>9, RoleFacts DEF Rest, At, New, Named
  <2>2. Named(x)' /\ ~handle'[x].incall => Alone(x)'
    BY <1>9, <2>1 DEF Rest
  <2>3. New(x)' => /\ ~handle'[x].timer /\ At(x, "idle")'
                   /\ \A g \in Handle : task'[g].callee # x
    BY <1>9, <2>1 DEF Rest, At
  <2>. QED  BY <2>2, <2>3 DEF Rest
<1>14. ASSUME NEW x \in Handle PROVE Caller(x)'
  <2>1. SUFFICES ASSUME task'[x].pc \in Calls
                 PROVE  /\ \A g \in Handle : task'[g].callee # x
                        /\ Named(x)' => handle'[x].incall /\ Alone(x)'
    BY DEF Caller
  <2>2. task[x].pc \in Calls
    BY <1>9, <2>1 DEF Calls
  <2>3. x # k
    BY <2>2, RoleFacts DEF Caller
  <2>4. (\A g \in Handle : task[g].callee # x) /\ (Named(x) => handle[x].incall /\ Alone(x))
    BY <2>2, RoleFacts DEF Caller
  <2>. QED  BY <1>9, <2>3, <2>4
<1>15. ASSUME NEW g \in Handle PROVE Callee(g)'
  <2>1. SUFFICES ASSUME task'[g].pc \in Inviting PROVE Callee(g)'
    BY DEF Callee
  <2>2. CASE g = h
    <3>1. \A f \in Handle : task'[f].callee = k => f = h
      BY <1>9, <1>11
    <3>2. handle'[k].peer = backend[task[h].mine].name
      <4>1. backend[task[h].mine].alive /\ backend[task[h].mine].owner = h
        BY <1>9, RoleFacts, NoneApart DEF LocalsOK, Holds
      <4>2. OwnName(task[h].mine)
        BY <1>9, RoleFacts
      <4>. QED  BY <1>9, <1>10, <4>1, <4>2, NoneApart DEF OwnName, Named
    <3>3. \A f \in Handle : handle'[f].name = task[h].to => f = k
      <4>1. handle[k].name = task[h].to
        BY <1>9, RoleFacts, NoneApart DEF ListedIsThere
      <4>. QED  BY <1>9, <4>1, RoleFacts DEF OneEach, Named
    <3>. QED  BY <1>2, <1>9, <1>10, <2>2, <3>1, <3>2, <3>3 DEF Callee
  <2>3. CASE g # h
    <3>1. task'[g] = task[g] /\ task[g].pc \in Inviting
      BY <1>9, <2>1, <2>3
    <3>. PICK c \in Handle : c = task[g].callee
      BY <3>1, RoleTypes
    <3>2. c # k /\ handle'[c] = handle[c]
      BY <1>9, <1>11
    <3>3. \A f \in Handle : task'[f].callee = c => task[f].callee = c
      BY <1>9, <3>2
    <3>. QED  BY <1>9, <3>1, <3>2, <3>3, RoleFacts DEF Callee
  <2>. QED  BY <2>2, <2>3
<1>16. ASSUME NEW b \in Backend PROVE Kept(b)'
  <2>1. \A g \in Handle : task'[g].mine = task[g].mine /\ task'[g].theirs = task[g].theirs
    BY <1>9
  <2>. QED  BY <1>9, <2>1, RoleFacts DEF Kept, Heard
<1>17. ASSUME NEW g \in Handle PROVE QuietLocals(g)'
  <2>1. /\ task'[g].mine = task[g].mine /\ task'[g].theirs = task[g].theirs
        /\ ~At(g, "calling")' => ~At(g, "calling")
    BY <1>9 DEF At
  <2>. QED  BY <1>9, <2>1, RoleFacts DEF QuietLocals, Quiet
<1>18. OneName'
  <2>. PICK m \in Backend : m = task[h].mine
    BY <1>9
  <2>1. \A b \in Backend : Known(b)' => Known(b) \/ b = m
    BY <1>9 DEF Known, At
  <2>2. \A b \in Backend : ~(Known(b) /\ backend[b].server = backend[m].server
                               /\ backend[b].name = backend[m].name)
    BY DEF CanRegister, Namesakes
  <2>. QED  BY <1>1, <2>1, <2>2, RoleFacts DEF OneName
<1>19. ASSUME NEW g \in Handle PROVE Expects(g)'
  <2>1. SUFFICES ASSUME At(g, "calling")', task'[g].resp = "none",
                        NEW f \in Handle, handle'[f].name = task'[g].to
                 PROVE  Ringing(f, task[g].mine)' /\ task'[g] = task[g]
    BY DEF Expects, Ringing, Quiet
  <2>2. g # h /\ task'[g] = task[g] /\ At(g, "calling") /\ task[g].resp = "none"
        /\ handle[f].name = task[g].to
    BY <1>9, <2>1 DEF At
  <2>3. Ringing(f, task[g].mine) /\ f # k
    BY <1>12, <2>2, RoleFacts DEF Expects, Unawaited
  <2>. QED  BY <1>1, <1>9, <2>2, <2>3 DEF Ringing, Quiet
<1>20. ASSUME NEW x \in Handle PROVE Talks(x)' /\ Real(x)'
  <2>1. CASE x = k
    BY <1>1, <1>2, <1>9, <2>1 DEF Talks, Real, Alone
  <2>2. CASE x # k
    <3>1. task[x].pc \notin {"idle", "hangup"} => task'[x].pc \notin {"idle", "hangup"}
      BY <1>9
    <3>2. \A g \in Handle : task[g].callee = x => task'[g].callee = x
      BY <1>9, NoneApart
    <3>. QED  BY <1>9, <2>2, <3>1, <3>2, RoleFacts DEF Talks, Real
  <2>. QED  BY <2>1, <2>2
<1>. QED  BY <1>13, <1>14, <1>15, <1>16, <1>17, <1>18, <1>19, <1>20 DEF RoleInv

LEMMA RoleRegistered ==
    ASSUME CallInv, IInv', NEW h \in Handle, Registered(h)
    PROVE  RoleInv'
<1>1. IInv /\ At(h, "register") /\ task[h].mine \in Backend /\ CanRegister(task[h].mine)
  BY RoleTypes, RegisteredFields
<1>2. CASE /\ OthersStay(h) /\ Failed(handle', h) /\ Rests(h)
           /\ backend' = Ended(backend, {task[h].mine})
  <2>1. {task[h].mine} \ {None} = {task[h].mine} /\ task[h].pc \in Calls \ Inviting
    BY <1>1, NoneApart DEF At, Calls, Inviting
  <2>. QED  BY <1>2, <2>1, RoleFailsAlone
<1>3. ASSUME NEW k \in Handle, k = directory[task[h].to].handle, handle[k].name # None,
             ~handle[k].incall
      PROVE  handle[k].backend = None /\ (Invites(h, k) => RoleInv')
  BY <1>1, <1>3, RoleFacts, RoleInvites DEF Rest, Alone, Named
<1>. QED  BY <1>1, <1>2, <1>3, RegisteredFields

LEMMA RolePeerRegistered ==
    ASSUME CallInv, IInv', NEW h \in Handle, PeerRegistered(h)
    PROVE  RoleInv'
<1>1. /\ IInv /\ At(h, "peerregister") /\ task[h].callee \in Handle /\ task[h].theirs \in Backend
      /\ task[h].mine \in Backend /\ CanRegister(task[h].theirs) /\ backend' = backend
  BY RoleTypes, PeerRegisteredFields
<1>. PICK k \in Handle : k = task[h].callee
  BY <1>1
<1>. PICK b \in Backend : b = task[h].theirs
  BY <1>1
<1>. PICK m \in Backend : m = task[h].mine
  BY <1>1
<1>2. /\ OthersStay(k) /\ After(k, handle[k].incall, handle[k].peer, b, TRUE)
      /\ Goes(h, "calling", task[h].to, None, m, None, task[h].resp)
  BY <1>1, PeerRegisteredFields
<1>3. /\ \A f \in Handle : f # k => handle'[f] = handle[f] /\ Alone(f)' = Alone(f)
      /\ \A f \in Handle : /\ Named(f)' = Named(f) /\ New(f)' = New(f)
                           /\ handle'[f].name = handle[f].name
                           /\ handle'[f].gone = handle[f].gone
                           /\ handle'[f].incall = handle[f].incall
                           /\ handle'[f].peer = handle[f].peer
      /\ handle'[k].backend = b /\ handle'[k].timer = TRUE /\ b # None /\ k # None
      /\ \A g \in Handle : g # h => task'[g] = task[g]
      /\ task'[h].callee = None /\ task'[h].theirs = None /\ task'[h].mine = m
      /\ task[h].pc = "peerregister" /\ task'[h].pc = "calling" /\ task'[h].to = task[h].to
      /\ task[h].to \in User
  BY <1>1, <1>2, RoleTypes, NoneApart
     DEF OthersStay, After, Goes, Named, New, Alone, At, Calls
<1>4. /\ \A f \in Handle : task[f].callee = k => f = h
      /\ Named(k) => /\ handle[k].incall /\ Alone(k) /\ handle[k].peer = backend[m].name
      /\ \A f \in Handle : handle[f].name = task[h].to => f = k
  BY <1>3, RoleFacts DEF Callee, Inviting
<1>5. /\ backend[b].owner = k /\ backend[b].server = backend[m].server /\ Quiet(b)
      /\ \A g \in Handle : g # h => task[g].theirs # b /\ task[g].mine # b
  BY <1>3, RoleFacts DEF LocalsOK, QuietLocals, Holds
<1>6. k # h /\ ~New(k) /\ task[k].pc \notin Calls
  BY <1>3, RoleFacts DEF Caller, Rest, Calls
<1>7. Named(k) => Unawaited(k)
  BY <1>4, NotRinging DEF Alone
<1>8. ASSUME NEW x \in Handle PROVE Rest(x)'
  <2>1. Rest(x) /\ (New(x) => x # h /\ x # k)
    BY <1>3, <1>6, RoleFacts DEF Rest, At
  <2>2. Named(x)' /\ ~handle'[x].incall => Alone(x)'
    BY <1>3, <1>4, <2>1 DEF Rest
  <2>3. New(x)' => /\ ~handle'[x].timer /\ At(x, "idle")'
                   /\ \A g \in Handle : task'[g].callee # x
    BY <1>3, <2>1, NoneApart DEF Rest, At
  <2>. QED  BY <2>2, <2>3 DEF Rest
<1>9. ASSUME NEW x \in Handle PROVE Caller(x)'
  <2>1. SUFFICES ASSUME task'[x].pc \in Calls
                 PROVE  /\ \A g \in Handle : task'[g].callee # x
                        /\ Named(x)' => handle'[x].incall /\ Alone(x)'
    BY DEF Caller
  <2>2. task[x].pc \in Calls /\ x # k
    BY <1>3, <1>6, <2>1 DEF Calls
  <2>3. (\A g \in Handle : task[g].callee # x) /\ (Named(x) => handle[x].incall /\ Alone(x))
    BY <2>2, RoleFacts DEF Caller
  <2>. QED  BY <1>3, <2>2, <2>3, NoneApart
<1>10. ASSUME NEW g \in Handle PROVE Callee(g)'
  <2>1. SUFFICES ASSUME task'[g].pc \in Inviting PROVE Callee(g)'
    BY DEF Callee
  <2>2. g # h /\ task'[g] = task[g] /\ task[g].pc \in Inviting
    BY <1>3, <2>1 DEF Inviting
  <2>. PICK c \in Handle : c = task[g].callee
    BY <2>2, RoleTypes
  <2>3. c # k /\ handle'[c] = handle[c]
    BY <1>3, <1>4, <2>2
  <2>4. \A f \in Handle : task'[f].callee = c => task[f].callee = c
    BY <1>3, NoneApart
  <2>. QED  BY <1>1, <1>3, <2>2, <2>3, <2>4, RoleFacts DEF Callee
<1>11. ASSUME NEW c \in Backend PROVE Kept(c)'
  <2>1. CASE c = b
    BY <1>1, <1>3, <1>5, <2>1 DEF Kept
  <2>2. CASE c # b
    <3>. PICK x \in Handle \cup {backend[c].owner} : x = backend[c].owner
      OBVIOUS
    <3>1. SUFFICES ASSUME backend[c].alive, ~handle'[x].gone
                   PROVE  \/ handle'[x].backend = c \/ task'[x].mine = c
                          \/ \E g \in Handle : task'[g].theirs = c
      BY <1>1 DEF Kept
    <3>2. x \in Handle /\ ~handle[x].gone
      BY <1>3, <3>1, RoleFacts DEF Heard
    <3>3. \/ handle[x].backend = c \/ task[x].mine = c
          \/ \E g \in Handle : task[g].theirs = c
      BY <3>1, <3>2, RoleFacts DEF Kept
    <3>4. x = k => handle[x].backend # c
      BY <1>4, <1>6, <3>2, NoneApart DEF New, Named, Alone
    <3>5. \A g \in Handle : /\ task[g].mine = c => task'[g].mine = c
                            /\ task[g].theirs = c => task'[g].theirs = c
      BY <1>3, <2>2
    <3>. QED  BY <1>3, <3>2, <3>3, <3>4, <3>5
  <2>. QED  BY <2>1, <2>2
<1>12. ASSUME NEW g \in Handle PROVE QuietLocals(g)'
  BY <1>1, <1>3, RoleFacts DEF QuietLocals, Quiet, At
<1>13. OneName'
  <2>1. \A c \in Backend : Known(c)' => Known(c) \/ c = b
    BY <1>1, <1>3 DEF Known, At
  <2>2. \A c \in Backend : ~(Known(c) /\ backend[c].server = backend[b].server
                               /\ backend[c].name = backend[b].name)
    BY <1>1 DEF CanRegister, Namesakes
  <2>. QED  BY <1>1, <2>1, <2>2, RoleFacts DEF OneName
<1>14. ASSUME NEW g \in Handle PROVE Expects(g)'
  <2>1. CASE g = h
    <3>1. SUFFICES ASSUME NEW f \in Handle, handle'[f].name = task[h].to
                   PROVE  Ringing(f, m)'
      BY <1>3, <2>1 DEF Expects, Ringing, Quiet
    <3>2. f = k /\ Named(k)
      BY <1>3, <1>4, <3>1, NoneApart DEF Named
    <3>. QED  BY <1>1, <1>3, <1>4, <1>5, <3>2 DEF Ringing, Quiet
  <2>2. CASE g # h
    <3>1. SUFFICES ASSUME At(g, "calling")', task'[g].resp = "none",
                          NEW f \in Handle, handle'[f].name = task'[g].to
                   PROVE  Ringing(f, task[g].mine)' /\ task'[g] = task[g]
      BY DEF Expects, Ringing, Quiet
    <3>2. task'[g] = task[g] /\ At(g, "calling") /\ task[g].resp = "none"
          /\ handle[f].name = task[g].to /\ task[g].to # None
      BY <1>3, <2>2, <3>1, RoleTypes, NoneApart DEF At, Calls
    <3>3. Ringing(f, task[g].mine) /\ f # k
      BY <1>7, <3>2, RoleFacts DEF Expects, Unawaited, Named
    <3>. QED  BY <1>1, <1>3, <3>2, <3>3 DEF Ringing, Quiet
  <2>. QED  BY <2>1, <2>2
<1>15. ASSUME NEW x \in Handle PROVE Talks(x)' /\ Real(x)'
  <2>1. CASE x = k
    BY <1>1, <1>3, <1>5, <2>1 DEF Talks, Real, Quiet
  <2>2. CASE x # k
    <3>1. task[x].pc \notin {"idle", "hangup"} => task'[x].pc \notin {"idle", "hangup"}
      BY <1>3
    <3>2. \A g \in Handle : task[g].callee = x => task'[g].callee = x
      BY <1>3, <2>2
    <3>. QED  BY <1>1, <1>3, <2>2, <3>1, <3>2, RoleFacts DEF Talks, Real
  <2>. QED  BY <2>1, <2>2
<1>. QED  BY <1>8, <1>9, <1>10, <1>11, <1>12, <1>13, <1>14, <1>15 DEF RoleInv

LEMMA RoleDetach ==
    ASSUME CallInv, IInv', NEW h \in Handle, Detach(h)
    PROVE  RoleInv'
<1>1. /\ IInv /\ {handle[h].backend} \ {None} \in SUBSET Backend
      /\ \A g \in Handle : task[g].pc \in Calls => task[g].to # None
      /\ \A g \in Handle : task[g].pc \in Using => task[g].mine \in Backend
      /\ \A g \in Handle : handle[g].backend \in Backend \cup {None}
      /\ \A g \in Handle : task[g].mine \in Backend \cup {None}
      /\ \A g \in Handle : task[g].theirs \in Backend \cup {None}
  BY RoleTypes, NoneApart
<1>. PICK B \in SUBSET Backend : B = {handle[h].backend} \ {None}
  BY <1>1
<1>2. /\ \A f \in Handle : f # h => handle'[f] = handle[f]
      /\ handle'[h].gone /\ handle'[h].name = None /\ ~handle'[h].incall
      /\ handle'[h].backend = None /\ ~handle'[h].timer
      /\ task' = task
  BY <1>1, DetachFields DEF OthersStay
<1>3. Closes(B) /\ Calm
  BY <1>1, DetachFields, EndedCloses, EndedCalm
<1>4. \A b \in Backend : /\ backend'[b].owner = backend[b].owner
                         /\ backend'[b].server = backend[b].server
                         /\ backend'[b].name = backend[b].name
                         /\ backend'[b].alive => backend[b].alive
                         /\ Quiet(b) => Quiet(b)'
  BY <1>3, CalmQuiet DEF Closes
<1>5. \A f \in Handle : f # h => /\ Named(f)' = Named(f) /\ New(f)' = New(f)
                                 /\ Alone(f)' = Alone(f)
  BY <1>2 DEF Named, New, Alone
<1>6. ~Named(h)' /\ ~New(h)'
  BY <1>2 DEF Named, New
<1>7. ASSUME NEW x \in Handle PROVE Rest(x)' /\ Caller(x)'
  BY <1>2, <1>5, <1>6, RoleFacts DEF Rest, Caller, At
<1>8. ASSUME NEW g \in Handle PROVE Callee(g)'
  <2>1. SUFFICES ASSUME task[g].pc \in Inviting PROVE Callee(g)'
    BY <1>2 DEF Callee
  <2>2. task[g].mine \in Backend /\ task[g].to # None
    BY <1>1, <2>1 DEF Inviting, Using, Calls
  <2>. PICK k \in Handle : k = task[g].callee
    BY <2>1, RoleTypes
  <2>3. /\ \A f \in Handle : task[f].callee = k => f = g
        /\ Named(k) => /\ handle[k].incall /\ Alone(k)
                       /\ handle[k].peer = backend[task[g].mine].name
        /\ \A f \in Handle : handle[f].name = task[g].to => f = k
    BY <2>1, RoleFacts DEF Callee
  <2>4. Named(k)' => k # h /\ handle'[k] = handle[k] /\ Named(k) /\ Alone(k)' = Alone(k)
    BY <1>2, <1>5, <1>6
  <2>5. \A f \in Handle : handle'[f].name = task[g].to => f = k
    BY <1>2, <2>2, <2>3
  <2>. QED  BY <1>2, <1>4, <2>2, <2>3, <2>4, <2>5 DEF Callee
<1>9. ASSUME NEW b \in Backend PROVE Kept(b)'
  BY <1>2, <1>4, RoleFacts DEF Kept, Heard
<1>10. ASSUME NEW g \in Handle PROVE QuietLocals(g)'
  <2>1. Named(g)' => Named(g)
    BY <1>5, <1>6
  <2>2. At(g, "calling")' = At(g, "calling") /\ task' = task
    BY <1>2 DEF At
  <2>. QED  BY <1>1, <1>4, <2>1, <2>2, RoleFacts DEF QuietLocals, Quiet
<1>11. OneName'
  <2>1. \A b \in Backend : Known(b)' => Known(b)
    BY <1>2, <1>4 DEF Known, At
  <2>. QED  BY <1>4, <2>1, RoleFacts DEF OneName
<1>12. ASSUME NEW g \in Handle PROVE Expects(g)'
  <2>1. SUFFICES ASSUME At(g, "calling"), task[g].resp = "none",
                        NEW f \in Handle, handle'[f].name = task[g].to
                 PROVE  Ringing(f, task[g].mine)' /\ task'[g] = task[g]
    BY <1>2 DEF Expects, Ringing, Quiet, At
  <2>2. f # h /\ handle'[f] = handle[f] /\ task[g].mine \in Backend
    BY <1>1, <1>2, <2>1 DEF At, Calls, Using
  <2>3. Ringing(f, task[g].mine) /\ handle[f].backend \in Backend
    BY <1>1, <2>1, <2>2, RoleFacts DEF Expects, Ringing
  <2>. QED  BY <1>2, <1>4, <2>2, <2>3 DEF Ringing, Quiet
<1>13. ASSUME NEW x \in Handle PROVE Talks(x)' /\ Real(x)'
  <2>1. CASE x = h
    BY <1>2, <2>1 DEF Talks, Real
  <2>2. CASE x # h
    BY <1>1, <1>2, <1>3, <2>2, RoleFacts DEF Talks, Real, Calm
  <2>. QED  BY <2>1, <2>2
<1>. QED  BY <1>7, <1>8, <1>9, <1>10, <1>11, <1>12, <1>13 DEF RoleInv

LEMMA RoleAttach ==
    ASSUME CallInv, IInv', NEW h \in Handle, Attach(h)
    PROVE  RoleInv'
<1>1. /\ \A f \in Handle : f # h => handle'[f] = handle[f]
      /\ ~handle'[h].gone /\ handle'[h].name = None /\ ~handle'[h].incall
      /\ handle'[h].backend = None /\ ~handle'[h].timer
      /\ task' = task /\ backend' = backend
      /\ \A g \in Handle : task[g].pc \in Calls => task[g].to # None
  BY RoleTypes, AttachFields, NoneApart DEF OthersStay
<1>2. /\ handle[h].gone /\ At(h, "idle") /\ \A k \in Handle : task[k].callee # h
      /\ \A b \in Backend : backend[b].alive => backend[b].owner # h
  BY DEF Attach
<1>3. \A f \in Handle : f # h => /\ Named(f)' = Named(f) /\ New(f)' = New(f)
                                 /\ Alone(f)' = Alone(f)
  BY <1>1 DEF Named, New, Alone
<1>4. ~Named(h)'
  BY <1>1 DEF Named
<1>5. ASSUME NEW x \in Handle PROVE Rest(x)' /\ Caller(x)'
  BY <1>1, <1>2, <1>3, <1>4, RoleFacts DEF Rest, Caller, At
<1>6. ASSUME NEW g \in Handle PROVE Callee(g)'
  <2>1. SUFFICES ASSUME task[g].pc \in Inviting PROVE Callee(g)'
    BY <1>1 DEF Callee
  <2>2. task[g].to # None
    BY <1>1, <2>1 DEF Inviting, Calls
  <2>. PICK k \in Handle : k = task[g].callee
    BY <2>1, RoleTypes
  <2>3. k # h /\ handle'[k] = handle[k] /\ Named(k)' = Named(k) /\ Alone(k)' = Alone(k)
    BY <1>1, <1>2, <1>3
  <2>4. /\ \A f \in Handle : task[f].callee = k => f = g
        /\ Named(k) => /\ handle[k].incall /\ Alone(k)
                       /\ handle[k].peer = backend[task[g].mine].name
        /\ \A f \in Handle : handle[f].name = task[g].to => f = k
    BY <2>1, RoleFacts DEF Callee
  <2>5. \A f \in Handle : handle'[f].name = task[g].to => f = k
    BY <1>1, <2>2, <2>4
  <2>. QED  BY <1>1, <2>3, <2>4, <2>5 DEF Callee
<1>7. ASSUME NEW b \in Backend PROVE Kept(b)'
  BY <1>1, <1>2, RoleFacts DEF Kept, Heard
<1>8. ASSUME NEW g \in Handle PROVE QuietLocals(g)'
  <2>1. Named(g)' => Named(g)
    BY <1>3, <1>4
  <2>2. At(g, "calling")' = At(g, "calling")
    BY <1>1 DEF At
  <2>. QED  BY <1>1, <2>1, <2>2, RoleFacts DEF QuietLocals, Quiet
<1>9. OneName'
  <2>1. \A b \in Backend : Known(b)' => Known(b)
    BY <1>1 DEF Known, At
  <2>. QED  BY <1>1, <2>1, RoleFacts DEF OneName
<1>10. ASSUME NEW g \in Handle PROVE Expects(g)'
  <2>1. SUFFICES ASSUME At(g, "calling"), task[g].resp = "none",
                        NEW f \in Handle, handle'[f].name = task[g].to
                 PROVE  Ringing(f, task[g].mine)'
    BY <1>1 DEF Expects, Ringing, Quiet, At
  <2>2. handle'[f] = handle[f]
    BY <1>1, <2>1 DEF At, Calls
  <2>3. Ringing(f, task[g].mine)
    BY <2>1, <2>2, RoleFacts DEF Expects
  <2>. QED  BY <1>1, <2>2, <2>3 DEF Ringing, Quiet
<1>11. ASSUME NEW x \in Handle PROVE Talks(x)' /\ Real(x)'
  <2>1. CASE x = h
    BY <1>1, <2>1 DEF Talks, Real
  <2>2. CASE x # h
    BY <1>1, <2>2, RoleFacts DEF Talks, Real
  <2>. QED  BY <2>1, <2>2
<1>. QED  BY <1>5, <1>6, <1>7, <1>8, <1>9, <1>10, <1>11 DEF RoleInv

LEMMA RoleIncomingCall ==
    ASSUME CallInv, IInv', NEW b \in Backend, IncomingCall(b)
    PROVE  RoleInv'
<1>1. IInv /\ backend[b].owner \in Handle /\ Delivered(b, "incomingcall")
  BY RoleTypes, IncomingCallFields DEF IncomingCall
<1>. PICK k \in Handle : k = backend[b].owner
  BY <1>1
<1>2. /\ \A f \in Handle : f # k => handle'[f] = handle[f]
      /\ \A f \in Handle : /\ handle'[f].gone = handle[f].gone
                           /\ handle'[f].name = handle[f].name
                           /\ handle'[f].incall = handle[f].incall
                           /\ handle'[f].peer = handle[f].peer
                           /\ handle'[f].backend = handle[f].backend
                           /\ handle'[f].timer => handle[f].timer
      /\ handle'[k].timer /\ handle[k].incall => handle[k].peer # backend[b].caller
      /\ task' = task
  BY <1>1, IncomingCallFields DEF OthersStay, After
<1>3. /\ \A c \in Backend : /\ backend'[c].owner = backend[c].owner
                            /\ backend'[c].server = backend[c].server
                            /\ backend'[c].name = backend[c].name
                            /\ backend'[c].alive = backend[c].alive
                            /\ backend'[c].peer = backend[c].peer
                            /\ backend'[c].events \subseteq backend[c].events
                            /\ c # b => backend'[c] = backend[c]
  <2>1. backend' = Taken(b, "incomingcall")
    BY <1>1, IncomingCallFields
  <2>. QED  BY <1>1, <2>1, TakenFields
<1>4. \A c \in Backend : Quiet(c) => Quiet(c)'
  BY <1>3 DEF Quiet
<1>5. \A f \in Handle : /\ Named(f)' = Named(f) /\ New(f)' = New(f)
                        /\ Alone(f) => Alone(f)'
  BY <1>2 DEF Named, New, Alone
<1>6. Named(k) => handle[k].backend = b
  BY <1>1, EventHome
<1>7. ASSUME NEW x \in Handle PROVE Rest(x)' /\ Caller(x)'
  BY <1>2, <1>5, RoleFacts DEF Rest, Caller, At
<1>8. ASSUME NEW g \in Handle PROVE Callee(g)'
  <2>1. SUFFICES ASSUME task[g].pc \in Inviting PROVE Callee(g)'
    BY <1>2 DEF Callee
  <2>2. task[g].mine \in Backend
    BY <2>1, RoleTypes DEF Inviting, Using
  <2>. PICK x \in Handle : x = task[g].callee
    BY <2>1, RoleTypes
  <2>3. /\ \A f \in Handle : task[f].callee = x => f = g
        /\ Named(x) => /\ handle[x].incall /\ Alone(x)
                       /\ handle[x].peer = backend[task[g].mine].name
        /\ \A f \in Handle : handle[f].name = task[g].to => f = x
    BY <2>1, RoleFacts DEF Callee
  <2>. QED  BY <1>2, <1>3, <1>5, <2>2, <2>3 DEF Callee
<1>9. ASSUME NEW c \in Backend PROVE Kept(c)'
  BY <1>2, <1>3, RoleFacts DEF Kept, Heard
<1>10. ASSUME NEW g \in Handle PROVE QuietLocals(g)'
  <2>1. task[g].mine \in Backend \cup {None} /\ task[g].theirs \in Backend \cup {None}
    BY RoleTypes
  <2>2. At(g, "calling")' = At(g, "calling") /\ task' = task
    BY <1>2 DEF At
  <2>. QED  BY <1>4, <1>5, <2>1, <2>2, RoleFacts DEF QuietLocals, Quiet
<1>11. OneName'
  <2>1. \A c \in Backend : Known(c)' => Known(c)
    BY <1>2, <1>3 DEF Known, At
  <2>. QED  BY <1>3, <2>1, RoleFacts DEF OneName
<1>12. ASSUME NEW g \in Handle PROVE Expects(g)'
  <2>1. SUFFICES ASSUME At(g, "calling"), task[g].resp = "none",
                        NEW f \in Handle, handle[f].name = task[g].to
                 PROVE  Ringing(f, task[g].mine)'
    BY <1>2 DEF Expects, Ringing, Quiet, At
  <2>2. task[g].mine \in Backend /\ Named(f)
    BY <2>1, RoleTypes, NoneApart DEF At, Calls, Using, Named
  <2>3. Ringing(f, task[g].mine)
    BY <2>1, RoleFacts DEF Expects
  <2>4. handle[f].backend \in Backend /\ Quiet(handle[f].backend)
    BY <2>3, RoleTypes DEF Ringing
  <2>5. f # k
    BY <1>1, <1>6, <2>2, <2>4 DEF Quiet, Delivered
  <2>. QED  BY <1>2, <1>3, <1>4, <2>2, <2>3, <2>4, <2>5 DEF Ringing, Quiet
<1>13. ASSUME NEW x \in Handle PROVE Talks(x)' /\ Real(x)'
  <2>1. handle[x].backend = b => x = k
    BY NoneApart, RoleFacts DEF Stored, Holds
  <2>2. handle[x].backend \in Backend \cup {None} /\ Talks(x) /\ Real(x)
    BY RoleTypes, RoleFacts
  <2>3. Talks(x)'
    BY <1>2, <1>3, <2>1, <2>2 DEF Talks
  <2>4. Real(x)'
    BY <1>2, <2>2 DEF Real
  <2>. QED  BY <2>3, <2>4
<1>. QED  BY <1>7, <1>8, <1>9, <1>10, <1>11, <1>12, <1>13 DEF RoleInv

\* The server calls who was expected, and nobody else.
LEMMA RungBackend ==
    ASSUME CallInv, NEW h \in Handle, At(h, "calling"), task[h].resp = "none",
           NEW c \in Namesakes(task[h].mine, task[h].to)
    PROVE  /\ \A g \in Handle : Named(g) => task[g].mine # c
           /\ \A g \in Handle : task[g].theirs # c
           /\ \A k \in Handle : Named(k) /\ handle[k].backend = c => Ringing(k, task[h].mine)
<1>1. /\ c \in Backend /\ Known(c) /\ backend[c].alive /\ backend[c].name = task[h].to
      /\ backend[c].server = backend[task[h].mine].server
  BY DEF Namesakes, Known
<1>2. \A g \in Handle : task[g].theirs # c
  BY <1>1, RoleTypes, NoneApart DEF Known, At
<1>3. ASSUME NEW k \in Handle, Named(k), backend[c].owner = k
      PROVE  Ringing(k, task[h].mine)
  <2>1. handle[k].name = task[h].to
    BY <1>1, <1>3, RoleFacts DEF OwnName
  <2>. QED  BY <2>1, RoleFacts DEF Expects
<1>4. ASSUME NEW g \in Handle, Named(g), task[g].mine = c PROVE FALSE
  <2>1. backend[c].owner = g /\ Unstored(c)
    BY <1>1, <1>4, RoleFacts, NoneApart DEF LocalsOK, Holds
  <2>2. Ringing(g, task[h].mine)
    BY <1>3, <1>4, <2>1
  <2>. PICK d \in Backend : d = handle[g].backend
    BY <2>2, RoleTypes DEF Ringing
  <2>3. backend[d].alive /\ backend[d].owner = g
    BY NoneApart, RoleFacts DEF Stored, Holds
  <2>4. backend[d].name = backend[c].name
    BY <1>1, <1>4, <2>1, <2>3, RoleFacts DEF OwnName
  <2>5. Known(d)
    BY <2>3, NoneApart, RoleFacts DEF Known, LocalsOK, Unstored
  <2>6. d = c
    BY <1>1, <2>2, <2>4, <2>5, RoleFacts DEF OneName, Ringing
  <2>. QED  BY <2>1, <2>6 DEF Unstored
<1>5. ASSUME NEW k \in Handle, Named(k), handle[k].backend = c PROVE Ringing(k, task[h].mine)
  <2>1. backend[c].owner = k
    BY <1>1, <1>5, NoneApart, RoleFacts DEF Stored, Holds
  <2>. QED  BY <1>3, <1>5, <2>1
<1>. QED  BY <1>2, <1>4, <1>5

\* What the greenlet knows once the server has taken or refused its call.
RungTask(h) ==
    /\ \A g \in Handle : /\ g # h => task'[g] = task[g]
                         /\ task'[g].pc = task[g].pc /\ task'[g].to = task[g].to
                         /\ task'[g].callee = task[g].callee
                         /\ task'[g].mine = task[g].mine /\ task'[g].theirs = task[g].theirs
    /\ task'[h].resp # "none"

LEMMA RungTaskFields ==
    ASSUME IInv, NEW h \in Handle, NEW x \in {"ok", "error"},
           task' = [task EXCEPT ![h] = [task[h] EXCEPT !.resp = x]]
    PROVE  RungTask(h)
<1>. DEFINE t == [task[h] EXCEPT !.resp = x]
<1>1. task[h] \in TaskRec
  BY Types
<1>2. /\ t.pc = task[h].pc /\ t.to = task[h].to /\ t.callee = task[h].callee
      /\ t.mine = task[h].mine /\ t.theirs = task[h].theirs /\ t.resp # "none"
  BY <1>1 DEF TaskRec
<1>. HIDE DEF t
<1>3. task' = [task EXCEPT ![h] = t]
  BY DEF t
<1>. QED  BY <1>2, <1>3, Types DEF RungTask

\* The parts that do not look at calls and events at the servers.
LEMMA RungShape ==
    ASSUME CallInv, NEW h \in Handle, RungTask(h), handle' = handle,
           \A b \in Backend : /\ backend'[b].owner = backend[b].owner
                              /\ backend'[b].server = backend[b].server
                              /\ backend'[b].name = backend[b].name
                              /\ backend'[b].alive = backend[b].alive
    PROVE  /\ \A g \in Handle : Rest(g)' /\ Caller(g)' /\ Callee(g)' /\ Real(g)'
           /\ \A b \in Backend : Kept(b)'
           /\ OneName'
<1>1. /\ \A g \in Handle : /\ task'[g].pc = task[g].pc /\ task'[g].to = task[g].to
                           /\ task'[g].callee = task[g].callee
                           /\ task'[g].mine = task[g].mine /\ task'[g].theirs = task[g].theirs
      /\ \A f \in Handle : Named(f)' = Named(f) /\ New(f)' = New(f) /\ Alone(f)' = Alone(f)
  BY DEF RungTask, Named, New, Alone
<1>2. ASSUME NEW g \in Handle PROVE Rest(g)' /\ Caller(g)' /\ Real(g)'
  BY <1>1, RoleFacts DEF Rest, Caller, Real, At
<1>3. ASSUME NEW g \in Handle PROVE Callee(g)'
  <2>1. SUFFICES ASSUME task[g].pc \in Inviting PROVE Callee(g)'
    BY <1>1 DEF Callee
  <2>2. task[g].mine \in Backend
    BY <2>1, RoleTypes DEF Inviting, Using
  <2>. PICK x \in Handle : x = task[g].callee
    BY <2>1, RoleTypes
  <2>3. /\ \A f \in Handle : task[f].callee = x => f = g
        /\ Named(x) => /\ handle[x].incall /\ Alone(x)
                       /\ handle[x].peer = backend[task[g].mine].name
        /\ \A f \in Handle : handle[f].name = task[g].to => f = x
    BY <2>1, RoleFacts DEF Callee
  <2>. QED  BY <1>1, <2>2, <2>3 DEF Callee
<1>4. ASSUME NEW b \in Backend PROVE Kept(b)'
  BY <1>1, RoleFacts DEF Kept, Heard
<1>5. \A b \in Backend : Known(b)' => Known(b)
  BY <1>1 DEF Known, At
<1>. QED  BY <1>2, <1>3, <1>4, <1>5, RoleFacts DEF OneName

LEMMA RoleJanusCalls ==
    ASSUME CallInv, IInv', NEW h \in Handle, JanusCalls(h)
    PROVE  RoleInv'
<1>1. /\ IInv /\ At(h, "calling") /\ task[h].resp = "none" /\ task[h].mine \in Backend
      /\ handle' = handle /\ RungTask(h)
      /\ backend' = backend \/ \E c \in Namesakes(task[h].mine, task[h].to) : Rings(task[h].mine, c)
  BY RoleTypes, JanusCallsFields, RungTaskFields
<1>. PICK m \in Backend : m = task[h].mine
  BY <1>1
<1>2. /\ \A g \in Handle : /\ g # h => task'[g] = task[g]
                           /\ task'[g].pc = task[g].pc
                           /\ task'[g].mine = task[g].mine /\ task'[g].theirs = task[g].theirs
      /\ task'[h].resp # "none"
  BY <1>1 DEF RungTask
<1>3. /\ \A g \in Handle : task[g].mine \in Backend \cup {None}
      /\ \A g \in Handle : task[g].theirs \in Backend \cup {None}
      /\ \A g \in Handle : handle[g].backend \in Backend \cup {None}
      /\ \A g \in Handle : task[g].pc \in Calls => task[g].to # None
      /\ \A g \in Handle : handle[g].incall => Named(g)
  BY RoleTypes, NoneApart DEF Named
<1>4. CASE backend' = backend
  <2>1. ASSUME NEW g \in Handle PROVE QuietLocals(g)' /\ Expects(g)' /\ Talks(g)'
    <3>1. QuietLocals(g) /\ Expects(g) /\ Talks(g)
      BY RoleFacts
    <3>2. QuietLocals(g)' /\ Talks(g)'
      BY <1>1, <1>2, <1>4, <3>1 DEF QuietLocals, Talks, Quiet, At, Named
    <3>3. Expects(g)'
      BY <1>1, <1>2, <1>4, <3>1 DEF Expects, Ringing, Quiet, At
    <3>. QED  BY <3>2, <3>3
  <2>. QED  BY <1>1, <1>4, <2>1, RungShape DEF RoleInv
<1>5. ASSUME NEW c \in Namesakes(m, task[h].to), Rings(m, c) PROVE RoleInv'
  <2>1. /\ \A b \in Backend : /\ backend'[b].owner = backend[b].owner
                              /\ backend'[b].server = backend[b].server
                              /\ backend'[b].name = backend[b].name
                              /\ backend'[b].alive = backend[b].alive
                              /\ b \notin {m, c} => backend'[b] = backend[b]
        /\ backend'[c].caller = backend[m].name /\ "incomingcall" \in backend'[c].events
        /\ c \in Backend
    BY <1>5 DEF Rings, Namesakes
  <2>2. /\ \A g \in Handle : Named(g) => task[g].mine # c
        /\ \A g \in Handle : task[g].theirs # c
        /\ \A k \in Handle : Named(k) /\ handle[k].backend = c => Ringing(k, m)
    BY <1>1, <1>5, RungBackend
  <2>3. /\ \A g \in Handle : task[g].mine = m => g = h
        /\ \A g \in Handle : task[g].theirs # m /\ handle[g].backend # m
        /\ backend[m].alive /\ backend[m].owner = h
    BY RoleFacts, NoneApart DEF LocalsOK, Holds, Unstored
  <2>4. ASSUME NEW g \in Handle PROVE QuietLocals(g)'
    <3>1. task[g].mine # None /\ ~At(g, "calling") /\ Named(g) => Quiet(task[g].mine)'
      <4>1. SUFFICES ASSUME task[g].mine # None, ~At(g, "calling"), Named(g)
                     PROVE  Quiet(task[g].mine)'
        OBVIOUS
      <4>2. task[g].mine \notin {m, c} /\ Quiet(task[g].mine) /\ task[g].mine \in Backend
        BY <1>1, <1>3, <2>2, <2>3, <4>1, RoleFacts DEF QuietLocals
      <4>. QED  BY <1>2, <2>1, <4>2 DEF Quiet
    <3>2. task[g].theirs # None => Quiet(task[g].theirs)'
      <4>1. SUFFICES ASSUME task[g].theirs # None PROVE Quiet(task[g].theirs)'
        BY <1>2
      <4>2. task[g].theirs \notin {m, c} /\ Quiet(task[g].theirs) /\ task[g].theirs \in Backend
        BY <1>3, <2>2, <2>3, <4>1, RoleFacts DEF QuietLocals
      <4>. QED  BY <1>2, <2>1, <4>2 DEF Quiet
    <3>. QED  BY <1>1, <1>2, <3>1, <3>2 DEF QuietLocals, Quiet, At, Named
  <2>5. ASSUME NEW g \in Handle PROVE Expects(g)'
    <3>1. SUFFICES ASSUME g # h, At(g, "calling"), task[g].resp = "none",
                          NEW f \in Handle, handle[f].name = task[g].to
                   PROVE  Ringing(f, task[g].mine)' /\ task'[g] = task[g]
      BY <1>1, <1>2 DEF Expects, Ringing, Quiet, At
    <3>2. task'[g] = task[g] /\ task[g].mine \in Backend /\ Named(f)
      BY <1>2, <1>3, <3>1, RoleTypes DEF At, Calls, Using, Named
    <3>3. Ringing(f, task[g].mine) /\ handle[f].backend \in Backend
      BY <1>3, <3>1, RoleFacts DEF Expects, Ringing
    <3>4. handle[f].backend # c
      <4>1. ASSUME handle[f].backend = c PROVE FALSE
        <5>1. backend[task[g].mine].name = backend[m].name
          BY <2>2, <3>2, <3>3, <4>1 DEF Ringing
        <5>2. backend[task[g].mine].owner = g /\ backend[task[g].mine].alive
          BY <3>2, NoneApart, RoleFacts DEF LocalsOK, Holds
        <5>. QED  BY <2>3, <3>1, <3>2, <5>1, <5>2, RoleFacts DEF OwnName
      <4>. QED  BY <4>1
    <3>5. backend'[handle[f].backend] = backend[handle[f].backend]
      BY <2>1, <2>3, <3>3, <3>4
    <3>. QED  BY <1>1, <2>1, <3>2, <3>3, <3>5 DEF Ringing, Quiet
  <2>6. ASSUME NEW x \in Handle PROVE Talks(x)'
    <3>1. SUFFICES ASSUME handle[x].timer, handle[x].incall, handle[x].backend # None
                   PROVE  Talks(x)'
      BY <1>1 DEF Talks
    <3>2. CASE handle[x].backend = c
      <4>1. handle[x].peer = backend[m].name
        BY <1>3, <2>2, <3>1, <3>2 DEF Ringing
      <4>. QED  BY <1>1, <2>1, <3>2, <4>1 DEF Talks
    <3>3. CASE handle[x].backend # c
      <4>1. backend'[handle[x].backend] = backend[handle[x].backend]
        BY <1>3, <2>1, <2>3, <3>1, <3>3
      <4>. QED  BY <1>1, <3>1, <4>1, RoleFacts DEF Talks
    <3>. QED  BY <3>2, <3>3
  <2>. QED  BY <1>1, <2>1, <2>4, <2>5, <2>6, RungShape DEF RoleInv
<1>. QED  BY <1>1, <1>4, <1>5

LEMMA RoleStep ==
    ASSUME CallInv, [Next]_vars, Mild PROVE CallInv'
<1>1. /\ "namesake" \notin Faults /\ "loss" \notin Faults /\ IInv /\ NameInv /\ HoldInv
  BY RoleTypes DEF Mild, CallInv
<1>2. NameInv' /\ HoldInv' /\ IInv'
  BY <1>1, NameStep, HoldStep, InvStep
<1>3. ASSUME NEW h \in Handle, Progress(h) PROVE RoleInv'
  BY <1>2, <1>3, RoleAttached, RoleConnectFails, RoleRegistered, RolePeerAttached,
     RolePeerRegistered, RolePeerConnectFails, RoleJanusCalls, RoleCallAnswered,
     RoleCallRefused, RoleHangupEnds DEF Progress
<1>4. ASSUME NEW h \in Handle,
             \/ Hangup(h) \/ Detach(h) \/ Attach(h) \/ AutoDisconnect(h)
             \/ \E u \in User : Register(h, u) \/ Call(h, u)
      PROVE  RoleInv'
  BY <1>2, <1>4, RoleHangup, RoleDetach, RoleAttach, RoleAutoDisconnect, RoleRegister, RoleCall
<1>5. ASSUME NEW b \in Backend, Event(b) \/ BackendLost(b) PROVE RoleInv'
  BY <1>1, <1>2, <1>5, RoleIncomingCall, RoleHangupEvent DEF Event, BackendLost
<1>6. ASSUME UNCHANGED vars PROVE RoleInv'
  <2>1. RoleInv /\ handle' = handle /\ task' = task /\ backend' = backend
    BY <1>6 DEF CallInv, vars
  <2>2. Closes({}) /\ Calm
    BY <2>1, SameCloses, SameCalm
  <2>3. Leaving({})
    BY <2>1, <2>2 DEF Leaving
  <2>. QED  BY <1>2, <2>3, RoleLeaving
<1>. QED  BY <1>2, <1>3, <1>4, <1>5, <1>6 DEF Next, CallInv

(* When nothing worse happens than that clients detach, the directory, the  *)
(* handles and the timers tell the truth about calls. With any of the other *)
(* faults, which the code meets, they need not: the lemma makes what the    *)
(* run with detach checks true of any number of users, and no more.         *)
LEMMA CallsAreRealHolds ==
    ASSUME Faults \subseteq {"detach"}
    PROVE  Spec => []CallsAreReal
<1>1. Mild
  BY DEF Mild
<1>2. ASSUME CallInv PROVE CallsAreReal
  <2>1. InCallIsReal
    BY <1>2, RoleFacts DEF InCallIsReal, Real
  <2>2. TalkIsUntimed
    BY <1>2, RoleFacts DEF TalkIsUntimed, Talks
  <2>. QED  BY <1>2, <2>1, <2>2, RoleFacts DEF CallsAreReal
<1>3. CallInv /\ [Next]_vars => CallInv'
  BY <1>1, RoleStep
<1>. QED  BY <1>2, <1>3, RoleInit, PTL DEF Spec
=============================================================================
