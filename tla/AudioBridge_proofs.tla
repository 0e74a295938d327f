------------------------- MODULE AudioBridge_proofs -------------------------
(* What AudioBridge guarantees for any number of handles, requests, ids,    *)
(* participants and servers, and under every fault: types, that what a join *)
(* or an activation takes becomes free again, that no backend handle is     *)
(* lost but the strays, and that who is in the list of participants is      *)
(* there. The second invariant is proved from the first, the third from     *)
(* both.                                                                    *)
EXTENDS AudioBridge, TLAPS

(* What a greenlet that waits has in its local variables.                   *)
TaskShape(g, t) ==
    /\ t.op = "join" => g \in Handle /\ t.user \in User
    /\ t.pc \in {"create", "wipe", "control", "destroy"} => t.bh \in Backend
    /\ t.pc = "join" => t.op = "join"
    /\ t.pc \in {"join", "greet"} => g \in Handle /\ t.part \in Participant
    /\ t.pc \in {"idle", "greet", "dead", "drop", "ask", "tell", "destroy"} => t.op # "join"

Shapes == \A g \in Greenlet : TaskShape(g, task[g])

IInv == TypeOK /\ Shapes /\ IdsFreed /\ LockFreed

-----------------------------------------------------------------------------
LEMMA NoneApart ==
    /\ None \notin Handle /\ None \notin Control /\ None \notin User
    /\ None \notin Participant /\ None \notin Backend /\ None \notin Server
BY AudioBridgeAssumption

LEMMA NoTaskType == NoTask \in TaskRec /\ \A g : TaskShape(g, NoTask)
BY NoneApart DEF NoTask, TaskRec, TaskShape

LEMMA NoPartType == NoPart \in PartRec
BY DEF NoPart, PartRec, Link

LEMMA InvInit == Init => IInv
<1>. SUFFICES ASSUME Init PROVE IInv
  OBVIOUS
<1>1. room \in RoomRec
  BY DEF Init, RoomRec
<1>2. handle \in [Handle -> HandleRec] /\ part \in [Participant -> PartRec]
  BY NoPartType DEF Init, HandleRec
<1>3. backend \in [Backend -> BackendRec]
  BY DEF Init, NoBackend, BackendRec, Link
<1>4. task \in [Greenlet -> TaskRec]
  BY NoTaskType DEF Init
<1>5. janus \in [Server -> [up: BOOLEAN, inside: SUBSET (Participant \cup Backend)]]
  <2>1. \A s \in Server : janus[s] \in [up: BOOLEAN, inside: {{}}]
    BY DEF Init
  <2>. QED  BY <2>1 DEF Init
<1>6. Shapes
  BY NoTaskType DEF Init, Shapes
<1>7. IdsFreed /\ LockFreed
  BY DEF Init, IdsFreed, LockFreed
<1>. QED  BY <1>1, <1>2, <1>3, <1>4, <1>5, <1>6, <1>7 DEF IInv, TypeOK

(* TypeOK, by the variable.                                                 *)
LEMMA Types ==
    ASSUME TypeOK
    PROVE  /\ room \in RoomRec
           /\ handle \in [Handle -> HandleRec]
           /\ part \in [Participant -> PartRec]
           /\ backend \in [Backend -> BackendRec]
           /\ task \in [Greenlet -> TaskRec]
           /\ janus \in [Server -> [up: BOOLEAN, inside: SUBSET (Participant \cup Backend)]]
           /\ room.bh \in Backend \cup {None}
           /\ \A b \in Backend : /\ backend[b].server \in Server \cup {None}
                                 /\ backend[b].link \in Link
           /\ \A p \in Participant : part[p] \in PartRec
           /\ \A h \in Handle : handle[h].part \in Participant \cup {None}
           /\ \A g \in Greenlet : task[g] \in TaskRec
           /\ \A u \in User : room.participants[u] \in Participant \cup {None}
           /\ \A b \in Backend : backend[b] \in BackendRec
           /\ \A h \in Handle : handle[h] \in HandleRec
BY DEF TypeOK, RoomRec, HandleRec, BackendRec

JanusType == [Server -> [up: BOOLEAN, inside: SUBSET (Participant \cup Backend)]]

LEMMA LeftType == ASSUME TypeOK, NEW s, NEW x PROVE Left(s, x) \in JanusType
<1>1. \A z \in Server : janus[z] \in [up: BOOLEAN, inside: SUBSET (Participant \cup Backend)]
  BY DEF TypeOK
<1>. SUFFICES ASSUME NEW z \in Server
     PROVE  Left(s, x)[z] \in [up: BOOLEAN, inside: SUBSET (Participant \cup Backend)]
  BY DEF TypeOK, JanusType, Left
<1>2. CASE z = s
  BY <1>1, <1>2 DEF TypeOK, Left
<1>3. CASE z # s
  BY <1>1, <1>3 DEF TypeOK, Left
<1>. QED  BY <1>2, <1>3

LEMMA EndedPartType ==
    ASSUME NEW x \in PartRec
    PROVE  EndedPart(x) \in PartRec /\ FailedPart(x) \in PartRec
BY DEF EndedPart, FailedPart, Detached, PartRec, Link

LEMMA ForgottenType ==
    ASSUME NEW r \in RoomRec, NEW x
    PROVE  /\ Forgotten(r, x) \in RoomRec
           /\ Forgotten(r, x).lock = r.lock /\ Forgotten(r, x).creating = r.creating
<1>1. [r EXCEPT !.participants[x.user] = None] \in RoomRec
  BY DEF RoomRec
<1>. QED  BY <1>1 DEF Forgotten, RoomRec

LEMMA NotCreatingType ==
    ASSUME NEW r \in RoomRec, NEW op, NEW u
    PROVE  /\ NotCreating(r, op, u) \in RoomRec
           /\ NotCreating(r, op, u).lock = r.lock
           /\ NotCreating(r, op, u).bh = r.bh
           /\ NotCreating(r, op, u).creating = IF op = "join" THEN r.creating \ {u} ELSE r.creating
BY DEF NotCreating, RoomRec

-----------------------------------------------------------------------------
Locking == {"attach", "create", "wipe", "control"}

(* What a step of one greenlet owes to the invariant: it goes on as t, and  *)
(* keeps its id and the lock or gives them back.                            *)
LEMMA OneTask ==
    ASSUME IInv, NEW g \in Greenlet, NEW t \in TaskRec, TaskShape(g, t),
           task' = [task EXCEPT ![g] = t],
           \A u \in room'.creating :
              u \in room.creating \/ (t.pc # "idle" /\ t.op = "join" /\ t.user = u),
           task[g].op = "join" =>
              \/ t.pc # "idle" /\ t.op = "join" /\ t.user = task[g].user
              \/ task[g].user \notin room'.creating,
           room'.lock \in {room.lock, None, g},
           room'.lock = g => t.pc \in Locking
    PROVE  task' \in [Greenlet -> TaskRec] /\ Shapes' /\ IdsFreed' /\ LockFreed'
<1>i. task \in [Greenlet -> TaskRec] /\ Shapes /\ IdsFreed /\ LockFreed
  BY DEF IInv, TypeOK
<1>o. task'[g] = t /\ \A o \in Greenlet : o # g => task'[o] = task[o]
  BY <1>i
<1>1. task' \in [Greenlet -> TaskRec]
  BY <1>i
<1>2. Shapes'
  BY <1>i, <1>o DEF Shapes
<1>3. IdsFreed'
  <2>. SUFFICES ASSUME NEW u \in room'.creating
       PROVE  \E h \in Handle : task'[h].pc # "idle" /\ task'[h].op = "join" /\ task'[h].user = u
    BY DEF IdsFreed, At
  <2>1. CASE t.pc # "idle" /\ t.op = "join" /\ t.user = u
    BY <1>o, <2>1 DEF TaskShape
  <2>2. CASE ~(t.pc # "idle" /\ t.op = "join" /\ t.user = u)
    <3>1. PICK h \in Handle : task[h].pc # "idle" /\ task[h].op = "join" /\ task[h].user = u
      BY <1>i, <2>2 DEF IdsFreed, At
    <3>2. h # g
      BY <2>2, <3>1
    <3>. QED  BY <1>o, <3>1, <3>2 DEF Greenlet
  <2>. QED  BY <2>1, <2>2
<1>4. LockFreed'
  <2>. SUFFICES ASSUME room'.lock # None PROVE task'[room'.lock].pc \in Locking
    BY DEF LockFreed, Locking
  <2>1. CASE room'.lock = g
    BY <1>o, <2>1
  <2>2. CASE room'.lock # g
    <3>1. room'.lock = room.lock /\ room.lock \in Greenlet
      BY <2>2 DEF IInv, TypeOK, RoomRec
    <3>. QED  BY <1>i, <1>o, <2>2, <3>1 DEF LockFreed, Locking
  <2>. QED  BY <2>1, <2>2
<1>. QED  BY <1>1, <1>2, <1>3, <1>4

(* A step that leaves the greenlets alone.                                  *)
LEMMA NoOneGoesOn ==
    ASSUME IInv, task' = task, room'.creating \subseteq room.creating,
           room'.lock \in {room.lock, None}
    PROVE  task' \in [Greenlet -> TaskRec] /\ Shapes' /\ IdsFreed' /\ LockFreed'
BY DEF IInv, TypeOK, Shapes, IdsFreed, LockFreed, At

(* participant.join()                                                       *)
LEMMA AsksToJoinFacts ==
    ASSUME TypeOK, NEW h \in Handle, NEW u \in User, NEW s \in Server \cup {None},
           AsksToJoin(h, u, s)
    PROVE  /\ part' \in [Participant -> PartRec]
           /\ \E t \in TaskRec : /\ task' = [task EXCEPT ![h] = t]
                                 /\ TaskShape(h, t)
                                 /\ t.pc = "join" /\ t.op = "join" /\ t.user = u
<1>1. PICK p \in Participant :
        /\ part' = [part EXCEPT ![p] = [NoPart EXCEPT !.user = u, !.handle = h, !.server = s,
                                                      !.link = "open"]]
        /\ task' = [task EXCEPT ![h] = [NoTask EXCEPT !.pc = "join", !.op = "join",
                                                      !.user = u, !.part = p]]
  BY DEF AsksToJoin
<1>2. [NoPart EXCEPT !.user = u, !.handle = h, !.server = s, !.link = "open"] \in PartRec
  BY DEF NoPart, PartRec, Link
<1>. DEFINE t == [NoTask EXCEPT !.pc = "join", !.op = "join", !.user = u, !.part = p]
<1>3. /\ t \in TaskRec /\ TaskShape(h, t)
      /\ t.pc = "join" /\ t.op = "join" /\ t.user = u
  BY DEF NoTask, TaskRec, TaskShape
<1>. QED  BY <1>1, <1>2, <1>3 DEF TypeOK

(* The end of activate_backend_room(): a join asks or fails, another        *)
(* request asks.                                                            *)
GoneOn(g, op, u) ==
    /\ part' \in [Participant -> PartRec]
    /\ \E t \in TaskRec : /\ task' = [task EXCEPT ![g] = t]
                          /\ TaskShape(g, t)
                          /\ t.op = "join" => op = "join"
                          /\ t.pc \in {"idle", "join", "ask"}
                          /\ op = "join" /\ room.bh # None
                                => t.pc = "join" /\ t.op = "join" /\ t.user = u

LEMMA GoesOnFacts ==
    ASSUME TypeOK, NEW g \in Greenlet, NEW op \in {"none", "join", "room"}, NEW u,
           NEW b \in Backend, op = "join" => g \in Handle /\ u \in User, GoesOn(g, op, u, b)
    PROVE  GoneOn(g, op, u)
<1>1. CASE op = "join" /\ room.bh # None
  <2>1. backend[room.bh].server \in Server \cup {None}
    BY <1>1, Types
  <2>2. AsksToJoin(g, u, backend[room.bh].server)
    BY <1>1 DEF GoesOn
  <2>. QED  BY <1>1, <2>1, <2>2, AsksToJoinFacts DEF GoneOn
<1>2. CASE op = "join" /\ room.bh = None
  <2>1. task' = [task EXCEPT ![g] = NoTask] /\ part' = part
    BY <1>2 DEF GoesOn, Finish
  <2>2. NoTask.op # "join" /\ NoTask.pc = "idle"
    BY DEF NoTask
  <2>. QED  BY <1>2, <2>1, <2>2, NoTaskType, Types DEF GoneOn
<1>3. CASE op # "join"
  <2>. DEFINE t == [NoTask EXCEPT !.pc = "ask", !.op = op, !.bh = b]
  <2>1. task' = [task EXCEPT ![g] = t] /\ part' = part
    BY <1>3 DEF GoesOn
  <2>2. t \in TaskRec /\ TaskShape(g, t) /\ t.op # "join" /\ t.pc = "ask"
    BY <1>3 DEF NoTask, TaskRec, TaskShape
  <2>. QED  BY <1>3, <2>1, <2>2, Types DEF GoneOn
<1>. QED  BY <1>1, <1>2, <1>3
-----------------------------------------------------------------------------
(* Who does not activate does not have the lock.                            *)
LEMMA NotLocked ==
    ASSUME IInv, NEW g \in Greenlet, task[g].pc \notin Locking
    PROVE  room.lock # g
BY NoneApart DEF IInv, LockFreed, Locking, Greenlet

(* activate_backend_room() up to its first wait, by a greenlet that has     *)
(* nothing yet.                                                             *)
LEMMA ActivateStep ==
    ASSUME IInv, NEW g \in Greenlet, task[g].pc = "idle", NEW op \in {"join", "room"},
           NEW u \in User \cup {None}, op = "join" => g \in Handle /\ u \in User,
           NEW r \in RoomRec, r.bh = room.bh, r.lock = room.lock,
           \A v \in r.creating : v \in room.creating \/ (op = "join" /\ v = u),
           Activate(g, op, u, r), UNCHANGED <<handle, backend, janus>>
    PROVE  IInv'
<1>i. TypeOK /\ Shapes
  BY DEF IInv
<1>n. room.lock # g /\ task[g].op # "join"
  BY <1>i, NotLocked DEF Locking, Shapes, TaskShape
<1>l. room.bh \in Backend \cup {None} /\ room.lock \in Greenlet \cup {None}
  BY <1>i DEF TypeOK, RoomRec
<1>1. CASE r.bh # None
  <2>1. room' = r /\ GoesOn(g, op, u, r.bh)
    BY <1>1 DEF Activate
  <2>b. r.bh \in Backend /\ room.bh # None
    BY <1>l, <1>1
  <2>c. op \in {"none", "join", "room"}
    OBVIOUS
  <2>2. GoneOn(g, op, u)
    BY <1>i, <2>b, <2>c, <2>1, GoesOnFacts
  <2>3. PICK t \in TaskRec : /\ task' = [task EXCEPT ![g] = t]
                             /\ TaskShape(g, t)
                             /\ op = "join" => t.pc = "join" /\ t.op = "join" /\ t.user = u
    BY <2>b, <2>2 DEF GoneOn
  <2>4. task' \in [Greenlet -> TaskRec] /\ Shapes' /\ IdsFreed' /\ LockFreed'
    BY <1>n, <2>1, <2>3, OneTask
  <2>. QED  BY <1>i, <2>1, <2>2, <2>4 DEF GoneOn, IInv, TypeOK
<1>2. CASE r.bh = None /\ r.lock # None
  <2>. DEFINE t == [NoTask EXCEPT !.pc = "lock", !.op = op, !.user = u]
  <2>1. room' = r /\ task' = [task EXCEPT ![g] = t] /\ part' = part
    BY <1>2 DEF Activate
  <2>2. t \in TaskRec /\ TaskShape(g, t) /\ t.pc = "lock" /\ t.op = op /\ t.user = u
    BY DEF NoTask, TaskRec, TaskShape
  <2>. HIDE DEF t
  <2>3. task' \in [Greenlet -> TaskRec] /\ Shapes' /\ IdsFreed' /\ LockFreed'
    BY <1>n, <2>1, <2>2, OneTask
  <2>. QED  BY <1>i, <2>1, <2>3 DEF IInv, TypeOK
<1>3. CASE r.bh = None /\ r.lock = None
  <2>. DEFINE t == [NoTask EXCEPT !.pc = "attach", !.op = op, !.user = u]
  <2>1. room' = [r EXCEPT !.lock = g] /\ task' = [task EXCEPT ![g] = t] /\ part' = part
    BY <1>3 DEF Activate
  <2>2. t \in TaskRec /\ TaskShape(g, t) /\ t.pc = "attach" /\ t.op = op /\ t.user = u
    BY DEF NoTask, TaskRec, TaskShape
  <2>3. room' \in RoomRec /\ room'.lock = g /\ room'.creating = r.creating
    BY <2>1 DEF RoomRec
  <2>. HIDE DEF t
  <2>4. task' \in [Greenlet -> TaskRec] /\ Shapes' /\ IdsFreed' /\ LockFreed'
    BY <1>n, <2>1, <2>2, <2>3, OneTask DEF Locking
  <2>. QED  BY <1>i, <2>1, <2>3, <2>4 DEF IInv, TypeOK
<1>. QED  BY <1>1, <1>2, <1>3

LEMMA JoinStep == ASSUME IInv, NEW h \in Handle, NEW u \in User, Join(h, u) PROVE IInv'
<1>. DEFINE r == [room EXCEPT !.creating = @ \cup {u}]
<1>1. h \in Greenlet /\ task[h].pc = "idle"
  BY DEF Join, At, Greenlet
<1>2. /\ r \in RoomRec /\ r.bh = room.bh /\ r.lock = room.lock
      /\ r.creating = room.creating \cup {u}
  BY DEF IInv, TypeOK, RoomRec
<1>3. Activate(h, "join", u, r) /\ UNCHANGED <<handle, backend, janus>>
  BY DEF Join, NewParticipant
<1>. HIDE DEF r
<1>. QED  BY <1>1, <1>2, <1>3, ActivateStep

LEMMA RoomRequestStep == ASSUME IInv, NEW c \in Control, RoomRequest(c) PROVE IInv'
<1>1. c \in Greenlet /\ task[c].pc = "idle" /\ room \in RoomRec
  BY DEF RoomRequest, At, Greenlet, IInv, TypeOK
<1>2. Activate(c, "room", None, room) /\ UNCHANGED <<handle, backend, janus>>
  BY DEF RoomRequest, AsksRoom
<1>. QED  BY <1>1, <1>2, ActivateStep

(* Greenlets that are done, without an id or the lock.                      *)
LEMMA FinishStep ==
    ASSUME IInv, NEW g \in Greenlet, Finish(g), room' = room,
           task[g].op # "join", task[g].pc \notin Locking
    PROVE  task' \in [Greenlet -> TaskRec] /\ Shapes' /\ IdsFreed' /\ LockFreed'
<1>1. room.lock # g
  BY NotLocked
<1>. QED  BY <1>1, NoTaskType, OneTask DEF Finish

LEMMA AskedStep ==
    ASSUME IInv, NEW g \in Greenlet, task[g].pc \in {"ask"}, Finish(g),
           UNCHANGED <<room, handle, part, backend, janus>>
    PROVE  IInv'
<1>1. task[g].op # "join"
  BY DEF IInv, Shapes, TaskShape
<1>2. task' \in [Greenlet -> TaskRec] /\ Shapes' /\ IdsFreed' /\ LockFreed'
  BY <1>1, FinishStep DEF Locking
<1>. QED  BY <1>2 DEF IInv, TypeOK

(* A greenlet whose answer comes, or that takes the next step of the        *)
(* activation, and has what it had.                                         *)
LEMMA GoesOnAlone ==
    ASSUME IInv, NEW g \in Greenlet, NEW t \in TaskRec, task' = [task EXCEPT ![g] = t],
           TaskShape(g, t), t.op = task[g].op, t.user = task[g].user, t.pc # "idle",
           room' \in RoomRec, room'.creating = room.creating, room'.lock = room.lock,
           task[g].pc \in Locking => t.pc \in Locking
    PROVE  task' \in [Greenlet -> TaskRec] /\ Shapes' /\ IdsFreed' /\ LockFreed'
<1>1. room'.lock = g => t.pc \in Locking
  BY NotLocked
<1>. QED  BY <1>1, OneTask

LEMMA JanusServesStep == ASSUME IInv, NEW g \in Greenlet, JanusServes(g) PROVE IInv'
<1>i. TypeOK /\ task[g] \in TaskRec /\ TaskShape(g, task[g])
  BY Types DEF IInv, Shapes
<1>1. PICK x \in {"ok", "error"} : task' = [task EXCEPT ![g].resp = x]
  BY DEF JanusServes
<1>. DEFINE t == [task[g] EXCEPT !.resp = x]
<1>2. /\ t \in TaskRec /\ TaskShape(g, t)
      /\ t.op = task[g].op /\ t.user = task[g].user /\ t.pc = task[g].pc
  BY <1>i DEF TaskRec, TaskShape
<1>3. task' = [task EXCEPT ![g] = t] /\ t.pc # "idle"
  BY <1>1, <1>2 DEF JanusServes, Waits
<1>. HIDE DEF t
<1>4. UNCHANGED <<room, handle, part, backend>>
  BY DEF JanusServes
<1>5. task' \in [Greenlet -> TaskRec] /\ Shapes' /\ IdsFreed' /\ LockFreed'
  BY <1>i, <1>2, <1>3, <1>4, GoesOnAlone DEF TypeOK
<1>6. janus' \in JanusType
  <2>1. janus' = Serve(g) /\ task[g].pc \in {"create", "wipe", "control", "join", "ask", "destroy"}
    BY DEF JanusServes, Waits
  <2>2. janus \in JanusType
    BY <1>i DEF TypeOK, JanusType
  <2>3. task[g].pc \in {"control", "join"} => WhoOf(g) \in Participant \cup Backend
    BY <1>i, NoneApart DEF WhoOf, OverPart, TaskShape, TaskRec
  <2>4. CASE At(g, "create")
    BY <2>1, <2>2, <2>4 DEF Serve, At, JanusType
  <2>5. CASE task[g].pc \in {"wipe", "destroy"}
    BY <2>1, <2>2, <2>5 DEF Serve, At, JanusType, NoJanusRoom
  <2>6. CASE At(g, "ask")
    BY <2>1, <2>2, <2>6 DEF Serve, At
  <2>7. CASE task[g].pc \in {"control", "join"}
    <3>1. janus' = [janus EXCEPT ![ServerOf(g)].inside = @ \cup {WhoOf(g)}]
      BY <2>1, <2>7 DEF Serve, At
    <3>. QED  BY <2>2, <2>3, <2>7, <3>1 DEF JanusType
  <2>. QED  BY <2>1, <2>4, <2>5, <2>6, <2>7 DEF At
<1>. QED  BY <1>i, <1>4, <1>5, <1>6 DEF IInv, TypeOK, JanusType

LEMMA JanusRefusesStep == ASSUME IInv, NEW g \in Greenlet, JanusRefuses(g) PROVE IInv'
<1>i. TypeOK /\ task[g] \in TaskRec /\ TaskShape(g, task[g])
  BY Types DEF IInv, Shapes
<1>1. PICK x \in {"exists", "error"} : task' = [task EXCEPT ![g].resp = x]
  BY DEF JanusRefuses
<1>. DEFINE t == [task[g] EXCEPT !.resp = x]
<1>2. /\ t \in TaskRec /\ TaskShape(g, t)
      /\ t.op = task[g].op /\ t.user = task[g].user /\ t.pc = task[g].pc
  BY <1>i DEF TaskRec, TaskShape
<1>3. task' = [task EXCEPT ![g] = t] /\ t.pc # "idle"
  BY <1>1, <1>2 DEF JanusRefuses, Waits
<1>. HIDE DEF t
<1>4. UNCHANGED <<room, handle, part, backend, janus>>
  BY DEF JanusRefuses
<1>5. task' \in [Greenlet -> TaskRec] /\ Shapes' /\ IdsFreed' /\ LockFreed'
  BY <1>i, <1>2, <1>3, <1>4, GoesOnAlone DEF TypeOK
<1>. QED  BY <1>i, <1>4, <1>5 DEF IInv, TypeOK

-----------------------------------------------------------------------------
LEMMA LockGotStep == ASSUME IInv, NEW g \in Greenlet, LockGot(g) PROVE IInv'
<1>i. TypeOK /\ task[g] \in TaskRec /\ TaskShape(g, task[g])
  BY Types DEF IInv, Shapes
<1>l. task[g].pc = "lock" /\ room.lock = None /\ UNCHANGED <<handle, backend, janus>>
  BY DEF LockGot, At
<1>1. CASE room.bh # None
  <2>1. room' = room /\ GoesOn(g, task[g].op, task[g].user, room.bh) /\ room.bh \in Backend
    BY <1>i, <1>1, Types DEF LockGot, AlreadyActive
  <2>2. /\ task[g].op \in {"none", "join", "room"}
        /\ (task[g].op = "join" => g \in Handle /\ task[g].user \in User)
    BY <1>i DEF TaskRec, TaskShape
  <2>3. GoneOn(g, task[g].op, task[g].user)
    BY <1>i, <2>1, <2>2, GoesOnFacts
  <2>4. PICK t \in TaskRec : /\ task' = [task EXCEPT ![g] = t]
                             /\ TaskShape(g, t)
                             /\ task[g].op = "join"
                                  => t.pc = "join" /\ t.op = "join" /\ t.user = task[g].user
    BY <1>1, <2>3 DEF GoneOn
  <2>5. room'.lock # g
    BY <1>l, <2>1, NoneApart DEF Greenlet
  <2>6. task' \in [Greenlet -> TaskRec] /\ Shapes' /\ IdsFreed' /\ LockFreed'
    BY <2>1, <2>4, <2>5, OneTask
  <2>. QED  BY <1>i, <1>l, <2>1, <2>3, <2>6 DEF GoneOn, IInv, TypeOK
<1>2. CASE room.bh = None
  <2>. DEFINE t == [task[g] EXCEPT !.pc = "attach"]
  <2>1. room' = [room EXCEPT !.lock = g] /\ task' = [task EXCEPT ![g] = t] /\ part' = part
    BY <1>i, <1>2 DEF LockGot, AlreadyActive, TypeOK
  <2>2. room' \in RoomRec /\ room'.lock = g /\ room'.creating = room.creating
    BY <1>i, <2>1 DEF TypeOK, RoomRec
  <2>3. /\ t \in TaskRec /\ TaskShape(g, t) /\ t.pc = "attach"
        /\ t.op = task[g].op /\ t.user = task[g].user
    BY <1>i DEF TaskRec, TaskShape
  <2>. HIDE DEF t
  <2>4. task' \in [Greenlet -> TaskRec] /\ Shapes' /\ IdsFreed' /\ LockFreed'
    BY <2>1, <2>2, <2>3, OneTask DEF Locking
  <2>. QED  BY <1>i, <1>l, <2>1, <2>2, <2>4 DEF IInv, TypeOK
<1>. QED  BY <1>1, <1>2

LEMMA LockTimeoutStep == ASSUME IInv, NEW g \in Greenlet, LockTimeout(g) PROVE IInv'
<1>i. TypeOK /\ room \in RoomRec
  BY DEF IInv, TypeOK
<1>1. /\ room' = NotCreating(room, task[g].op, task[g].user) /\ task[g].pc = "lock"
      /\ Finish(g) /\ UNCHANGED <<handle, part, backend, janus>>
  BY DEF LockTimeout, At
<1>2. /\ room' \in RoomRec /\ room'.lock = room.lock
      /\ room'.creating = IF task[g].op = "join" THEN room.creating \ {task[g].user}
                                                ELSE room.creating
  BY <1>i, <1>1, NotCreatingType
<1>3. room.lock # g
  BY <1>1, NotLocked DEF Locking
<1>4. task' \in [Greenlet -> TaskRec] /\ Shapes' /\ IdsFreed' /\ LockFreed'
  BY <1>1, <1>2, <1>3, NoTaskType, OneTask DEF Finish
<1>. QED  BY <1>i, <1>1, <1>2, <1>4 DEF IInv, TypeOK

LEMMA AttachedStep ==
    ASSUME IInv, NEW g \in Greenlet, NEW b \in Backend, NEW s \in Server, Attached(g, b, s)
    PROVE  IInv'
<1>i. TypeOK /\ task[g] \in TaskRec /\ TaskShape(g, task[g])
  BY Types DEF IInv, Shapes
<1>. DEFINE t == [task[g] EXCEPT !.pc = "create", !.bh = b]
<1>1. /\ task[g].pc = "attach" /\ task' = [task EXCEPT ![g] = t]
      /\ room' = [room EXCEPT !.bh = b] /\ UNCHANGED <<handle, part, janus>>
  BY <1>i DEF Attached, At, TypeOK
<1>2. /\ t \in TaskRec /\ TaskShape(g, t) /\ t.pc = "create"
      /\ t.op = task[g].op /\ t.user = task[g].user
  BY <1>i DEF TaskRec, TaskShape
<1>3. room' \in RoomRec /\ room'.creating = room.creating /\ room'.lock = room.lock
  BY <1>i, <1>1 DEF TypeOK, RoomRec
<1>. HIDE DEF t
<1>4. task' \in [Greenlet -> TaskRec] /\ Shapes' /\ IdsFreed' /\ LockFreed'
  BY <1>1, <1>2, <1>3, GoesOnAlone DEF Locking
<1>5. backend' \in [Backend -> BackendRec]
  <2>1. [server |-> s, link |-> "open", stray |-> TooLate] \in BackendRec
    BY DEF BackendRec, Link, TooLate
  <2>. QED  BY <1>i, <2>1 DEF Attached, TypeOK
<1>. QED  BY <1>i, <1>1, <1>3, <1>4, <1>5 DEF IInv, TypeOK

(* Created and Recreate: the next request of the activation.                *)
LEMMA NextRequestStep ==
    ASSUME IInv, NEW g \in Greenlet, task[g].pc \in {"create", "wipe"},
           NEW pc \in {"create", "wipe", "control"},
           task' = [task EXCEPT ![g].pc = pc, ![g].resp = "none"],
           UNCHANGED <<room, handle, part, backend, janus>>
    PROVE  IInv'
<1>i. TypeOK /\ task[g] \in TaskRec /\ TaskShape(g, task[g])
  BY Types DEF IInv, Shapes
<1>. DEFINE t == [task[g] EXCEPT !.pc = pc, !.resp = "none"]
<1>1. task' = [task EXCEPT ![g] = t]
  BY <1>i DEF TypeOK
<1>2. /\ t \in TaskRec /\ TaskShape(g, t) /\ t.pc = pc
      /\ t.op = task[g].op /\ t.user = task[g].user
  BY <1>i DEF TaskRec, TaskShape
<1>. HIDE DEF t
<1>3. task' \in [Greenlet -> TaskRec] /\ Shapes' /\ IdsFreed' /\ LockFreed'
  BY <1>i, <1>1, <1>2, GoesOnAlone DEF Locking, TypeOK
<1>. QED  BY <1>i, <1>3 DEF IInv, TypeOK

LEMMA ActivatedStep == ASSUME IInv, NEW g \in Greenlet, Activated(g) PROVE IInv'
<1>i. TypeOK /\ task[g] \in TaskRec /\ TaskShape(g, task[g])
  BY Types DEF IInv, Shapes
<1>. DEFINE r == [room EXCEPT !.lock = None]
<1>1. /\ task[g].pc = "control" /\ GoesOn(g, task[g].op, task[g].user, task[g].bh)
      /\ room' = IF room.bh = None THEN NotCreating(r, task[g].op, task[g].user) ELSE r
      /\ UNCHANGED <<handle, backend, janus>>
  BY DEF Activated, Answered, At
<1>2. r \in RoomRec /\ r.lock = None /\ r.creating = room.creating
  BY <1>i DEF TypeOK, RoomRec
<1>. HIDE DEF r
<1>3. /\ room' \in RoomRec /\ room'.lock = None
      /\ room'.creating = IF room.bh = None /\ task[g].op = "join"
                          THEN room.creating \ {task[g].user} ELSE room.creating
  BY <1>1, <1>2, NotCreatingType
<1>4. /\ task[g].op \in {"none", "join", "room"} /\ task[g].bh \in Backend
      /\ task[g].op = "join" => g \in Handle /\ task[g].user \in User
  BY <1>i, <1>1 DEF TaskRec, TaskShape
<1>5. GoneOn(g, task[g].op, task[g].user)
  BY <1>i, <1>1, <1>4, GoesOnFacts
<1>6. PICK t \in TaskRec : /\ task' = [task EXCEPT ![g] = t]
                           /\ TaskShape(g, t)
                           /\ t.op = "join" => task[g].op = "join"
                           /\ task[g].op = "join" /\ room.bh # None
                                  => t.pc = "join" /\ t.op = "join" /\ t.user = task[g].user
  BY <1>5 DEF GoneOn
<1>7. room'.lock # g
  BY <1>3, NoneApart DEF Greenlet
<1>8. task' \in [Greenlet -> TaskRec] /\ Shapes' /\ IdsFreed' /\ LockFreed'
  BY <1>3, <1>6, <1>7, OneTask
<1>. QED  BY <1>i, <1>1, <1>3, <1>5, <1>8 DEF GoneOn, IInv, TypeOK

LEMMA ActivationFailsStep == ASSUME IInv, NEW g \in Greenlet, ActivationFails(g) PROVE IInv'
<1>i. TypeOK /\ task[g] \in TaskRec /\ TaskShape(g, task[g])
  BY Types DEF IInv, Shapes
<1>1. /\ room' = NotCreating(GivesUp(room), task[g].op, task[g].user)
      /\ Finish(g) /\ UNCHANGED <<handle, part>>
  BY DEF ActivationFails
<1>2. /\ GivesUp(room) \in RoomRec /\ GivesUp(room).lock = None
      /\ GivesUp(room).creating = room.creating
  BY <1>i DEF GivesUp, TypeOK, RoomRec
<1>3. /\ room' \in RoomRec /\ room'.lock = None
      /\ room'.creating = IF task[g].op = "join" THEN room.creating \ {task[g].user}
                                                ELSE room.creating
  BY <1>1, <1>2, NotCreatingType
<1>4. room'.lock # g
  BY <1>3, NoneApart DEF Greenlet
<1>5. task' \in [Greenlet -> TaskRec] /\ Shapes' /\ IdsFreed' /\ LockFreed'
  BY <1>1, <1>3, <1>4, NoTaskType, OneTask DEF Finish
<1>6. /\ backend' \in [Backend -> BackendRec]
      /\ janus' \in JanusType
  <2>1. CASE UNCHANGED <<backend, janus>>
    BY <1>i, <2>1 DEF TypeOK, JanusType
  <2>2. CASE /\ backend' = [backend EXCEPT ![task[g].bh].link = Detached(@)]
             /\ janus' = Left(backend[task[g].bh].server, task[g].bh)
    <3>1. \A b \in Backend : [backend[b] EXCEPT !.link = Detached(@)] \in BackendRec
      BY <1>i, Types DEF Detached, Link, BackendRec
    <3>. QED  BY <1>i, <2>2, <3>1, LeftType DEF TypeOK
  <2>. QED  BY <2>1, <2>2 DEF ActivationFails
<1>. QED  BY <1>i, <1>1, <1>3, <1>5, <1>6 DEF IInv, TypeOK, JanusType

-----------------------------------------------------------------------------
LEMMA StrayType ==
    ASSUME NEW x \in PartRec, NEW h, NEW p
    PROVE  /\ [x EXCEPT !.stray = TRUE] \in PartRec
           /\ Claims(h, p, x) \in PartRec
           /\ [x EXCEPT !.inroom = TRUE, !.stray = @ \/ Ended(p)] \in PartRec
BY DEF PartRec, Claims, Ended

LEMMA JoinedStep == ASSUME IInv, NEW h \in Handle, Joined(h) PROVE IInv'
<1>i. TypeOK /\ h \in Greenlet /\ task[h] \in TaskRec /\ TaskShape(h, task[h])
  BY Types DEF IInv, Shapes, Greenlet
<1>. PICK p : p = task[h].part
  OBVIOUS
<1>. PICK x : x = [part[p] EXCEPT !.inroom = TRUE, !.stray = @ \/ Ended(p)]
  OBVIOUS
<1>1. /\ task[h].pc = "join" /\ UNCHANGED <<backend, janus>>
      /\ room' = Entered(room, task[h].user, p)
      /\ \/ /\ part' = [part EXCEPT ![p] = x] /\ handle' = handle
            /\ task' = [task EXCEPT ![h] = [NoTask EXCEPT !.pc = "greet", !.part = p]]
         \/ /\ part' = [part EXCEPT ![p] = Claims(h, p, x)]
            /\ handle' = [handle EXCEPT ![h].part = p] /\ Finish(h)
  BY DEF Joined, Answered, At
<1>2. task[h].op = "join" /\ task[h].user \in User /\ p \in Participant
  BY <1>i, <1>1 DEF TaskShape
<1>3. /\ room' \in RoomRec /\ room'.lock = room.lock
      /\ room'.creating = room.creating \ {task[h].user}
  <2>1. room \in RoomRec
    BY <1>i DEF TypeOK
  <2>. QED  BY <1>1, <1>2, <2>1 DEF Entered, RoomRec
<1>4. part' \in [Participant -> PartRec]
  <2>1. x \in PartRec /\ Claims(h, p, x) \in PartRec
    BY <1>i, <1>2, Types, StrayType
  <2>. QED  BY <1>i, <1>1, <2>1 DEF TypeOK
<1>5. handle' \in [Handle -> HandleRec]
  BY <1>i, <1>1, <1>2 DEF TypeOK, HandleRec
<1>6. room'.lock # h
  BY <1>1, <1>3, <1>i, NotLocked DEF Locking
<1>7. PICK t \in TaskRec : /\ task' = [task EXCEPT ![h] = t] /\ TaskShape(h, t)
                           /\ t.op = "none"
  <2>1. [NoTask EXCEPT !.pc = "greet", !.part = p] \in TaskRec
    BY <1>2 DEF NoTask, TaskRec
  <2>2. /\ TaskShape(h, [NoTask EXCEPT !.pc = "greet", !.part = p])
        /\ [NoTask EXCEPT !.pc = "greet", !.part = p].op = "none"
    BY <1>2 DEF NoTask, TaskShape
  <2>3. NoTask.op = "none"
    BY DEF NoTask
  <2>. QED  BY <1>1, <2>1, <2>2, <2>3, NoTaskType DEF Finish
<1>8. task' \in [Greenlet -> TaskRec] /\ Shapes' /\ IdsFreed' /\ LockFreed'
  BY <1>i, <1>3, <1>6, <1>7, OneTask
<1>. QED  BY <1>i, <1>1, <1>3, <1>4, <1>5, <1>8 DEF IInv, TypeOK

(* Greeted and GreetStalls.                                                 *)
LEMMA GreetedStep ==
    ASSUME IInv, NEW h \in Handle, Greeted(h) \/ GreetStalls(h) PROVE IInv'
<1>i. TypeOK /\ h \in Greenlet /\ TaskShape(h, task[h])
  BY DEF IInv, Shapes, Greenlet
<1>. PICK p : p = task[h].part
  OBVIOUS
<1>1. task[h].pc = "greet" /\ UNCHANGED <<room, backend, janus>>
  BY DEF Greeted, GreetStalls, At
<1>2. task[h].op # "join" /\ p \in Participant
  BY <1>i, <1>1 DEF TaskShape
<1>3. part' \in [Participant -> PartRec]
  <2>1. Claims(h, p, part[p]) \in PartRec /\ [part[p] EXCEPT !.stray = TRUE] \in PartRec
    BY <1>i, <1>2, Types, StrayType
  <2>. QED  BY <1>i, <2>1 DEF Greeted, GreetStalls, TypeOK
<1>4. handle' \in [Handle -> HandleRec]
  BY <1>i, <1>2 DEF Greeted, GreetStalls, TypeOK, HandleRec
<1>5. PICK t \in TaskRec : /\ task' = [task EXCEPT ![h] = t] /\ TaskShape(h, t)
                           /\ t.op = "none"
  <2>1. /\ [NoTask EXCEPT !.pc = "dead"] \in TaskRec
        /\ TaskShape(h, [NoTask EXCEPT !.pc = "dead"])
        /\ [NoTask EXCEPT !.pc = "dead"].op = "none"
    BY DEF NoTask, TaskRec, TaskShape
  <2>2. NoTask.op = "none"
    BY DEF NoTask
  <2>. QED  BY <2>1, <2>2, NoTaskType DEF Finish, Greeted, GreetStalls
<1>6. room.lock # h
  BY <1>1, <1>i, NotLocked DEF Locking
<1>7. task' \in [Greenlet -> TaskRec] /\ Shapes' /\ IdsFreed' /\ LockFreed'
  BY <1>i, <1>1, <1>2, <1>5, <1>6, OneTask
<1>. QED  BY <1>i, <1>1, <1>3, <1>4, <1>7 DEF IInv, TypeOK

LEMMA JoinFailsStep == ASSUME IInv, NEW h \in Handle, JoinFails(h) PROVE IInv'
<1>i. TypeOK /\ h \in Greenlet /\ task[h] \in TaskRec /\ TaskShape(h, task[h])
  BY Types DEF IInv, Shapes, Greenlet
<1>1. /\ task[h].pc = "join" /\ Finish(h) /\ UNCHANGED <<handle, backend>>
      /\ part' = [part EXCEPT ![task[h].part] = FailedPart(@)]
      /\ room' = NotCreating(room, task[h].op, task[h].user)
      /\ janus' = Left(part[task[h].part].server, task[h].part)
  BY DEF JoinFails, Answered, At
<1>2. task[h].op = "join" /\ task[h].part \in Participant
  BY <1>i, <1>1 DEF TaskShape
<1>3. /\ room' \in RoomRec /\ room'.lock = room.lock
      /\ room'.creating = room.creating \ {task[h].user}
  <2>1. room \in RoomRec
    BY <1>i DEF TypeOK
  <2>2. room' = NotCreating(room, "join", task[h].user)
    BY <1>1, <1>2
  <2>. QED  BY <2>1, <2>2, NotCreatingType
<1>4. part' \in [Participant -> PartRec]
  <2>1. FailedPart(part[task[h].part]) \in PartRec
    BY <1>i, <1>2, Types, EndedPartType
  <2>. QED  BY <1>i, <1>1, <2>1 DEF TypeOK
<1>5. janus' \in JanusType
  BY <1>i, <1>1, LeftType
<1>6. room'.lock # h
  BY <1>1, <1>3, <1>i, NotLocked DEF Locking
<1>7. task' \in [Greenlet -> TaskRec] /\ Shapes' /\ IdsFreed' /\ LockFreed'
  BY <1>i, <1>1, <1>3, <1>6, NoTaskType, OneTask DEF Finish
<1>. QED  BY <1>i, <1>1, <1>3, <1>4, <1>5, <1>7 DEF IInv, TypeOK, JanusType

(* Configure and MuteParticipant: an idle greenlet asks over a participant. *)
LEMMA AskPartStep ==
    ASSUME IInv, NEW g \in Greenlet, task[g].pc = "idle", NEW p \in Participant,
           task' = [task EXCEPT ![g] = [NoTask EXCEPT !.pc = "ask", !.part = p]],
           UNCHANGED <<room, handle, part, backend, janus>>
    PROVE  IInv'
<1>i. TypeOK /\ task[g].op # "join" /\ room.lock # g
  BY NotLocked DEF IInv, Shapes, TaskShape, Locking
<1>. DEFINE t == [NoTask EXCEPT !.pc = "ask", !.part = p]
<1>1. t \in TaskRec /\ TaskShape(g, t) /\ task' = [task EXCEPT ![g] = t]
  BY DEF NoTask, TaskRec, TaskShape
<1>. HIDE DEF t
<1>2. task' \in [Greenlet -> TaskRec] /\ Shapes' /\ IdsFreed' /\ LockFreed'
  BY <1>i, <1>1, OneTask
<1>. QED  BY <1>i, <1>2 DEF IInv, TypeOK

LEMMA ConfigureStep == ASSUME IInv, NEW h \in Handle, Configure(h) PROVE IInv'
<1>1. h \in Greenlet /\ task[h].pc = "idle" /\ handle[h].part \in Participant
  BY Types DEF IInv, Configure, HasPart, At, Greenlet
<1>. QED  BY <1>1, AskPartStep DEF Configure

LEMMA MuteParticipantStep ==
    ASSUME IInv, NEW c \in Control, NEW u \in User, MuteParticipant(c, u) PROVE IInv'
<1>1. c \in Greenlet /\ task[c].pc = "idle" /\ room.participants[u] \in Participant
  BY Types DEF IInv, MuteParticipant, At, Greenlet
<1>. QED  BY <1>1, AskPartStep DEF MuteParticipant

(* Participants and handles change, and the greenlets stay as they are.     *)
LEMMA EndedStep ==
    ASSUME IInv, part' \in [Participant -> PartRec], NEW x,
           room' \in {room, Forgotten(room, x)}, janus' \in JanusType,
           handle' \in [Handle -> HandleRec], UNCHANGED <<backend, task>>
    PROVE  IInv'
<1>i. TypeOK /\ room \in RoomRec
  BY DEF IInv, TypeOK
<1>1. room' \in RoomRec /\ room'.lock = room.lock /\ room'.creating = room.creating
  BY <1>i, ForgottenType
<1>3. task' \in [Greenlet -> TaskRec] /\ Shapes' /\ IdsFreed' /\ LockFreed'
  BY <1>1, NoOneGoesOn
<1>. QED  BY <1>i, <1>1, <1>3 DEF IInv, TypeOK, JanusType

LEMMA ReleasedType ==
    ASSUME NEW hs \in [Handle -> HandleRec], NEW p PROVE Released(hs, p) \in [Handle -> HandleRec]
<1>1. \A h \in Handle : hs[h] \in HandleRec
  OBVIOUS
<1>. QED  BY <1>1 DEF Released, HandleRec

LEMMA LetGoType ==
    ASSUME TypeOK, NEW p \in Participant, NEW hs \in [Handle -> HandleRec], LetGo(p, hs)
    PROVE  /\ part' \in [Participant -> PartRec] /\ janus' \in JanusType
           /\ handle' \in [Handle -> HandleRec]
<1>1. EndedPart(part[p]) \in PartRec
  BY Types, EndedPartType
<1>. QED  BY <1>1, LeftType, ReleasedType DEF LetGo, TypeOK

LEMMA EndPartStep ==
    ASSUME IInv, NEW p \in Participant, NEW hs \in [Handle -> HandleRec], EndPart(p, hs),
           UNCHANGED <<backend, task>>
    PROVE  IInv'
<1>i. TypeOK /\ part[p] \in PartRec
  BY Types DEF IInv
<1>1. room' = Forgotten(room, part[p])
  BY DEF EndPart
<1>2. CASE LetGo(p, hs)
  BY <1>i, <1>1, <1>2, LetGoType, EndedStep
<1>3. CASE /\ part' = [part EXCEPT ![p].end = "leaving"] /\ handle' = hs /\ janus' = janus
  <2>1. [part[p] EXCEPT !.end = "leaving"] \in PartRec
    BY <1>i DEF PartRec
  <2>2. part' \in [Participant -> PartRec]
    BY <1>i, <1>3, <2>1 DEF TypeOK
  <2>. QED  BY <1>i, <1>1, <1>3, <2>2, EndedStep DEF TypeOK, JanusType
<1>. QED  BY <1>2, <1>3 DEF EndPart

LEMMA LeaveStep == ASSUME IInv, NEW h \in Handle, Leave(h) PROVE IInv'
<1>1. handle[h].part \in Participant /\ handle \in [Handle -> HandleRec]
  BY Types DEF IInv, Leave, HasPart
<1>. QED  BY <1>1, EndPartStep DEF Leave

(* Only one participant changes.                                            *)
LEMMA OnePartStep ==
    ASSUME IInv, NEW p \in Participant, NEW x \in PartRec, part' = [part EXCEPT ![p] = x],
           UNCHANGED <<room, handle, backend, task, janus>>
    PROVE  IInv'
<1>1. /\ TypeOK /\ handle \in [Handle -> HandleRec] /\ janus \in JanusType
      /\ part \in [Participant -> PartRec]
  BY Types DEF IInv, JanusType
<1>2. part' \in [Participant -> PartRec]
  BY <1>1
<1>3. room' \in {room, Forgotten(room, x)}
  OBVIOUS
<1>. QED  BY <1>1, <1>2, <1>3, EndedStep

LEMMA KickStep == ASSUME IInv, NEW u \in User, Kick(u) PROVE IInv'
<1>1. room.participants[u] \in Participant
  BY Types DEF IInv, Kick
<1>. PICK p \in Participant : p = room.participants[u]
  BY <1>1
<1>2. [part[p] EXCEPT !.end = "asked"] \in PartRec
  BY Types DEF IInv, PartRec
<1>. QED  BY <1>2, OnePartStep DEF Kick

LEMMA PartStallsStep ==
    ASSUME IInv, NEW p \in Participant, PartStalls(p) \/ AskedStalls(p) PROVE IInv'
<1>1. /\ [part[p] EXCEPT !.end = "stuck", !.stray = TRUE] \in PartRec
      /\ [part[p] EXCEPT !.end = "no"] \in PartRec
  BY Types DEF IInv, PartRec
<1>2. /\ \/ part' = [part EXCEPT ![p] = [part[p] EXCEPT !.end = "stuck", !.stray = TRUE]]
         \/ part' = [part EXCEPT ![p] = [part[p] EXCEPT !.end = "no"]]
      /\ UNCHANGED <<room, handle, backend, task, janus>>
  BY DEF PartStalls, AskedStalls, IInv, TypeOK
<1>. QED  BY <1>1, <1>2, OnePartStep

(* Asked, HangUp and PartToldOthers.                                        *)
LEMMA PartGoesOnStep ==
    ASSUME IInv, NEW p \in Participant, Asked(p) \/ HangUp(p) \/ PartToldOthers(p) PROVE IInv'
<1>1. TypeOK /\ handle \in [Handle -> HandleRec]
  BY DEF IInv, TypeOK
<1>2. CASE Asked(p) \/ HangUp(p)
  BY <1>1, <1>2, EndPartStep DEF Asked, HangUp
<1>3. CASE PartToldOthers(p)
  BY <1>1, <1>3, LetGoType, EndedStep DEF PartToldOthers
<1>. QED  BY <1>2, <1>3

LEMMA DetachStep ==
    ASSUME IInv, NEW h \in Handle,
           Detach(h) \/ DetachGoesOn(h) \/ DetachStalls(h) \/ ToldHangup(h)
    PROVE  IInv'
<1>i. TypeOK /\ handle[h].part \in Participant \cup {None} /\ handle[h] \in HandleRec
  BY Types DEF IInv
<1>. PICK hs : hs = [handle EXCEPT ![h] = [gone |-> "yes", part |-> None]]
  OBVIOUS
<1>1. /\ hs \in [Handle -> HandleRec]
      /\ [handle EXCEPT ![h].gone = "leaving"] \in [Handle -> HandleRec]
      /\ [handle EXCEPT ![h].gone = "yes"] \in [Handle -> HandleRec]
  BY <1>i DEF TypeOK, HandleRec
<1>j. janus \in JanusType /\ part \in [Participant -> PartRec]
  BY <1>i DEF TypeOK, JanusType
<1>2. CASE Detach(h)
  BY <1>1, <1>j, <1>2, EndedStep DEF Detach
<1>3. CASE DetachGoesOn(h)
  <2>1. CASE HasPart(h) /\ EndPart(handle[h].part, hs)
    <3>1. handle[h].part \in Participant
      BY <1>i, <2>1 DEF HasPart
    <3>. QED  BY <1>1, <1>3, <2>1, <3>1, EndPartStep DEF DetachGoesOn
  <2>2. CASE handle' = hs /\ UNCHANGED <<part, room, janus>>
    BY <1>1, <1>j, <1>3, <2>2, EndedStep DEF DetachGoesOn
  <2>. QED  BY <1>3, <2>1, <2>2 DEF DetachGoesOn
<1>4. CASE DetachStalls(h)
  <2>1. \A p \in Participant : [part[p] EXCEPT !.stray = @ \/ p = handle[h].part] \in PartRec
    BY <1>i, Types DEF PartRec
  <2>2. part' \in [Participant -> PartRec]
    BY <1>4, <2>1 DEF DetachStalls
  <2>. QED  BY <1>1, <1>j, <1>4, <2>2, EndedStep DEF DetachStalls
<1>5. CASE ToldHangup(h)
  <2>1. handle' \in [Handle -> HandleRec]
    BY <1>i, <1>5, ReleasedType DEF ToldHangup, TypeOK
  <2>. QED  BY <1>j, <1>5, <2>1, EndedStep DEF ToldHangup
<1>. QED  BY <1>2, <1>3, <1>4, <1>5

LEMMA PartClosedStep == ASSUME IInv, NEW p \in Participant, PartClosed(p) PROVE IInv'
<1>i. TypeOK /\ part[p] \in PartRec /\ handle \in [Handle -> HandleRec]
  BY Types DEF IInv, TypeOK
<1>1. PICK x \in {part[p], [part[p] EXCEPT !.end = "asked"], EndedPart(part[p])} :
        part' = [part EXCEPT ![p] = [x EXCEPT !.link = "closed"]]
  BY DEF PartClosed
<1>2. x \in PartRec
  BY <1>i, EndedPartType DEF PartRec
<1>3. [x EXCEPT !.link = "closed"] \in PartRec
  BY <1>2 DEF PartRec, Link
<1>4. part' \in [Participant -> PartRec] /\ janus' \in JanusType
  BY <1>i, <1>1, <1>3, LeftType DEF PartClosed, TypeOK
<1>5. handle' \in [Handle -> HandleRec]
  BY <1>i, ReleasedType DEF PartClosed
<1>. QED  BY <1>4, <1>5, EndedStep DEF PartClosed

-----------------------------------------------------------------------------
(* AudioBridgeRoom.destroy() to its next wait.                              *)
LEMMA EndsForStep ==
    ASSUME IInv, NEW c \in Control, task[c].pc \in {"idle", "drop", "tell"},
           NEW ps \in SUBSET Participant, NEW r \in RoomRec,
           r.lock = room.lock, r.creating \subseteq room.creating,
           EndsFor(c, ps, r), UNCHANGED <<handle, backend, janus>>
    PROVE  IInv'
<1>i. /\ TypeOK /\ c \in Greenlet /\ room \in RoomRec
      /\ task[c].op # "join" /\ room.lock # c
  BY NotLocked DEF IInv, TypeOK, Shapes, TaskShape, Locking, Greenlet
<1>1. PICK t \in TaskRec : task' = [task EXCEPT ![c] = t] /\ TaskShape(c, t)
  <2>1. /\ [NoTask EXCEPT !.pc = "tell"] \in TaskRec
        /\ TaskShape(c, [NoTask EXCEPT !.pc = "tell"])
    BY DEF NoTask, TaskRec, TaskShape
  <2>2. \A b \in Backend : /\ [NoTask EXCEPT !.pc = "destroy", !.bh = b] \in TaskRec
                           /\ TaskShape(c, [NoTask EXCEPT !.pc = "destroy", !.bh = b])
    BY DEF NoTask, TaskRec, TaskShape
  <2>3. r.bh \in Backend \cup {None}
    BY DEF RoomRec
  <2>. QED  BY <2>1, <2>2, <2>3, NoTaskType DEF EndsFor
<1>2. room' \in RoomRec /\ room'.lock = room.lock /\ room'.creating \subseteq room.creating
  BY DEF EndsFor, RoomRec
<1>3. part' \in [Participant -> PartRec]
  <2>1. \A p \in Participant : [part[p] EXCEPT !.inroom = FALSE] \in PartRec /\ part[p] \in PartRec
    BY <1>i, Types DEF PartRec
  <2>. QED  BY <1>i, <2>1 DEF EndsFor, TypeOK
<1>4. task' \in [Greenlet -> TaskRec] /\ Shapes' /\ IdsFreed' /\ LockFreed'
  BY <1>i, <1>1, <1>2, OneTask
<1>. QED  BY <1>i, <1>2, <1>3, <1>4 DEF IInv, TypeOK

LEMMA EmptiedType ==
    ASSUME NEW r \in RoomRec
    PROVE  /\ Emptied(r) \in RoomRec /\ Emptied(r).lock = r.lock /\ Emptied(r).bh = r.bh
           /\ Emptied(r).creating = {} /\ Emptied(r).destroyed = TRUE
           /\ Emptied(r).participants = [u \in User |-> None]
BY DEF Emptied, RoomRec

(* DestroyRoom, Drop and RoomTold.                                          *)
LEMMA EndRoomStep ==
    ASSUME IInv, NEW c \in Control,
           \/ task[c].pc \in {"idle", "drop"} /\ EndRoom(c)
           \/ RoomTold(c)
    PROVE  IInv'
<1>i. room \in RoomRec /\ Listed \in SUBSET Participant /\ Unlisted \in SUBSET Participant
  BY Types DEF IInv, Listed, Unlisted
<1>1. CASE task[c].pc \in {"idle", "drop"} /\ EndRoom(c)
  BY <1>i, <1>1, EmptiedType, EndsForStep DEF EndRoom
<1>2. CASE RoomTold(c)
  BY <1>i, <1>2, EndsForStep DEF RoomTold, At
<1>. QED  BY <1>1, <1>2

LEMMA RoomStallsStep == ASSUME IInv, NEW c \in Control, RoomStalls(c) PROVE IInv'
<1>i. TypeOK /\ c \in Greenlet /\ TaskShape(c, task[c])
  BY DEF IInv, Shapes, Greenlet
<1>1. task[c].pc = "tell" /\ Finish(c) /\ UNCHANGED <<room, handle, part, janus>>
  BY DEF RoomStalls, At
<1>2. task' \in [Greenlet -> TaskRec] /\ Shapes' /\ IdsFreed' /\ LockFreed'
  BY <1>i, <1>1, FinishStep DEF Locking, TaskShape
<1>3. backend' \in [Backend -> BackendRec]
  <2>1. \A b \in Backend : [backend[b] EXCEPT !.stray = @ \/ b = room.bh] \in BackendRec
    BY <1>i, Types DEF BackendRec
  <2>. QED  BY <2>1 DEF RoomStalls
<1>. QED  BY <1>i, <1>1, <1>2, <1>3 DEF IInv, TypeOK

LEMMA CollectStep == ASSUME IInv, NEW c \in Control, Collect(c) PROVE IInv'
<1>i. TypeOK /\ c \in Greenlet /\ task[c] \in TaskRec /\ TaskShape(c, task[c]) /\ room \in RoomRec
  BY Types DEF IInv, Shapes, Greenlet
<1>. DEFINE t == [task[c] EXCEPT !.pc = "drop"]
<1>1. /\ task[c].pc = "idle" /\ task' = [task EXCEPT ![c] = t]
      /\ room' = [room EXCEPT !.mapped = FALSE] /\ UNCHANGED <<handle, part, backend, janus>>
  BY <1>i DEF Collect, At, TypeOK
<1>2. /\ t \in TaskRec /\ TaskShape(c, t) /\ t.op = task[c].op
      /\ t.user = task[c].user /\ t.pc = "drop"
  BY <1>i, <1>1 DEF TaskRec, TaskShape
<1>3. room' \in RoomRec /\ room'.creating = room.creating /\ room'.lock = room.lock
  BY <1>i, <1>1 DEF RoomRec
<1>. HIDE DEF t
<1>4. task' \in [Greenlet -> TaskRec] /\ Shapes' /\ IdsFreed' /\ LockFreed'
  BY <1>i, <1>1, <1>2, <1>3, GoesOnAlone DEF Locking
<1>. QED  BY <1>i, <1>1, <1>3, <1>4 DEF IInv, TypeOK

(* RoomDestroyed and RoomNotDestroyed.                                      *)
LEMMA DestroyAnsweredStep ==
    ASSUME IInv, NEW c \in Control, RoomDestroyed(c) \/ RoomNotDestroyed(c) PROVE IInv'
<1>i. TypeOK /\ c \in Greenlet /\ TaskShape(c, task[c])
  BY DEF IInv, Shapes, Greenlet
<1>1. task[c].pc = "destroy" /\ Finish(c) /\ UNCHANGED <<room, handle, part>>
  BY DEF RoomDestroyed, RoomNotDestroyed, Answered, At
<1>2. task[c].op # "join" /\ task[c].bh \in Backend
  BY <1>i, <1>1 DEF TaskShape
<1>3. task' \in [Greenlet -> TaskRec] /\ Shapes' /\ IdsFreed' /\ LockFreed'
  BY <1>i, <1>1, <1>2, FinishStep DEF Locking
<1>4. /\ backend' \in [Backend -> BackendRec]
      /\ janus' \in JanusType
  <2>1. \A b \in Backend :
          /\ [backend[b] EXCEPT !.link = Detached(@)] \in BackendRec
          /\ [backend[b] EXCEPT !.link = IF @ = "open" THEN "left" ELSE @] \in BackendRec
    BY <1>i, Types DEF Detached, Link, BackendRec
  <2>2. CASE RoomDestroyed(c)
    BY <1>i, <2>1, <2>2, LeftType DEF RoomDestroyed, TypeOK
  <2>3. CASE RoomNotDestroyed(c)
    BY <1>i, <2>1, <2>3 DEF RoomNotDestroyed, TypeOK, JanusType
  <2>. QED  BY <2>2, <2>3
<1>. QED  BY <1>i, <1>1, <1>3, <1>4 DEF IInv, TypeOK, JanusType

LEMMA ControlClosedStep == ASSUME IInv, NEW b \in Backend, ControlClosed(b) PROVE IInv'
<1>i. TypeOK /\ room \in RoomRec
  BY DEF IInv, TypeOK
<1>1. /\ backend' = [backend EXCEPT ![b].link = "closed"]
      /\ room' = IF room.destroyed THEN room ELSE [room EXCEPT !.bh = None]
      /\ janus' = Left(backend[b].server, b) /\ UNCHANGED <<handle, part, task>>
  BY DEF ControlClosed
<1>2. room' \in RoomRec /\ room'.lock = room.lock /\ room'.creating = room.creating
  BY <1>i, <1>1 DEF RoomRec
<1>3. backend' \in [Backend -> BackendRec]
  <2>1. [backend[b] EXCEPT !.link = "closed"] \in BackendRec
    BY <1>i, Types DEF BackendRec, Link
  <2>. QED  BY <1>i, <1>1, <2>1 DEF TypeOK
<1>4. janus' \in JanusType
  BY <1>i, <1>1, LeftType
<1>5. task' \in [Greenlet -> TaskRec] /\ Shapes' /\ IdsFreed' /\ LockFreed'
  BY <1>1, <1>2, NoOneGoesOn
<1>. QED  BY <1>i, <1>1, <1>2, <1>3, <1>4, <1>5 DEF IInv, TypeOK, JanusType

-----------------------------------------------------------------------------
LEMMA GreenletStep ==
    ASSUME IInv, NEW g \in Greenlet, Answer(g) \/ Resume(g) PROVE IInv'
<1>1. CASE Answer(g)
  BY <1>1, JanusServesStep, JanusRefusesStep DEF Answer
<1>2. CASE Created(g) \/ Recreate(g)
  BY <1>2, NextRequestStep DEF Created, Recreate, Answered, At
<1>3. CASE PartAnswered(g)
  BY <1>3, AskedStep DEF PartAnswered, At
<1>4. CASE \E b \in Backend, s \in Server : Attached(g, b, s)
  BY <1>4, AttachedStep
<1>5. CASE LockGot(g) \/ LockTimeout(g) \/ Activated(g) \/ ActivationFails(g)
  BY <1>5, LockGotStep, LockTimeoutStep, ActivatedStep, ActivationFailsStep
<1>. QED  BY <1>1, <1>2, <1>3, <1>4, <1>5 DEF Resume

LEMMA HandleStep ==
    ASSUME IInv, NEW h \in Handle,
           \/ ResumeJoin(h) \/ Configure(h) \/ Leave(h)
           \/ Detach(h) \/ DetachGoesOn(h) \/ DetachStalls(h)
           \/ \E u \in User : Join(h, u)
    PROVE  IInv'
BY JoinedStep, JoinFailsStep, GreetedStep, ConfigureStep, LeaveStep, DetachStep, JoinStep
   DEF ResumeJoin

LEMMA ControlStep ==
    ASSUME IInv, NEW c \in Control,
           \/ ResumeControl(c) \/ RoomRequest(c) \/ DestroyRoom(c) \/ Collect(c)
           \/ \E u \in User : MuteParticipant(c, u)
    PROVE  IInv'
<1>1. CASE RoomAnswered(c)
  BY <1>1, AskedStep DEF RoomAnswered, At, Greenlet
<1>2. CASE Drop(c) \/ DestroyRoom(c) \/ RoomTold(c) \/ RoomStalls(c)
  BY <1>2, EndRoomStep, RoomStallsStep DEF Drop, DestroyRoom, At
<1>3. CASE RoomDestroyed(c) \/ RoomNotDestroyed(c)
  BY <1>3, DestroyAnsweredStep
<1>4. CASE RoomRequest(c) \/ Collect(c) \/ \E u \in User : MuteParticipant(c, u)
  BY <1>4, RoomRequestStep, CollectStep, MuteParticipantStep
<1>. QED  BY <1>1, <1>2, <1>3, <1>4 DEF ResumeControl

LEMMA InvStep == IInv /\ [Next]_vars => IInv'
<1>. SUFFICES ASSUME IInv, [Next]_vars PROVE IInv'
  OBVIOUS
<1>1. CASE \E g \in Greenlet : Answer(g) \/ Resume(g)
  BY <1>1, GreenletStep
<1>2. CASE \E h \in Handle : \/ ResumeJoin(h) \/ Configure(h) \/ Leave(h)
                             \/ Detach(h) \/ DetachGoesOn(h) \/ DetachStalls(h)
                             \/ \E u \in User : Join(h, u)
  BY <1>2, HandleStep
<1>3. CASE \E c \in Control : \/ ResumeControl(c) \/ RoomRequest(c) \/ DestroyRoom(c)
                              \/ Collect(c)
                              \/ \E u \in User : MuteParticipant(c, u)
  BY <1>3, ControlStep
<1>4. CASE \/ \E u \in User : Kick(u)
           \/ \E p \in Participant : \/ Asked(p) \/ AskedStalls(p) \/ HangUp(p) \/ PartClosed(p)
                                     \/ PartToldOthers(p) \/ PartStalls(p)
           \/ \E b \in Backend : ControlClosed(b)
  BY <1>4, KickStep, PartGoesOnStep, PartStallsStep, PartClosedStep, ControlClosedStep
<1>5. CASE UNCHANGED vars
  <2>1. task' \in [Greenlet -> TaskRec] /\ Shapes' /\ IdsFreed' /\ LockFreed'
    BY <1>5, NoOneGoesOn DEF vars
  <2>. QED  BY <1>5, <2>1 DEF vars, IInv, TypeOK
<1>. QED  BY <1>1, <1>2, <1>3, <1>4, <1>5 DEF Next

(* The inductive invariant: types, what a waiting greenlet has in its local *)
(* variables, and who keeps an id or the lock.                              *)
THEOREM Inductive == Spec => []IInv
BY InvInit, InvStep, PTL DEF Spec

(* Every variable has its type, whatever is refused, closed or detached and *)
(* whoever does not read.                                                   *)
THEOREM TypeCorrect == Spec => []TypeOK
<1>1. IInv => TypeOK
  BY DEF IInv
<1>. QED  BY <1>1, Inductive, PTL

(* A user id and the lock are given back on every way out of a join and of  *)
(* an activation: the except clauses of new_participant() and of            *)
(* activate_backend_room() miss none.                                       *)
THEOREM WhatIsTakenIsFreedHolds == Spec => []WhatIsTakenIsFreed
<1>1. IInv => WhatIsTakenIsFreed
  BY DEF IInv, WhatIsTakenIsFreed
<1>. QED  BY <1>1, Inductive, PTL

-----------------------------------------------------------------------------
(* The second invariant: who knows of a backend handle that is attached.    *)
Comes == {"join", "greet"}

\* The frontend handle has it, and detach() is still to come.
Its(h, p) == handle[h].part = p /\ handle[h].gone # "yes"

PartKept(p) ==
    part[p].link = "open" =>
      /\ part[p].handle \in Handle
      /\ \/ part[p].stray
         \/ part[p].end = "leaving"
         \/ \E h \in Handle : task[h].pc \in Comes /\ task[h].part = p
         \/ ~Ended(p) /\ Its(part[p].handle, p)

Joining(h) ==
    /\ task[h].op = "join" \/ task[h].pc = "greet" => handle[h].part = None
    /\ task[h].pc \in Comes => part[task[h].part].handle = h

\* destroy() of the room is still to come to its control handle.
Ready == ~room.destroyed \/ \E c \in Control : task[c].pc = "tell"

ControlKept(b) ==
    /\ backend[b].stray => room.destroyed
    /\ backend[b].link = "open" =>
         \/ backend[b].stray
         \/ room.bh = b /\ Ready
         \/ \E g \in Greenlet : task[g].pc = "destroy" /\ task[g].bh = b

Activating(g) ==
    /\ task[g].pc \in Locking => room.lock = g
    /\ task[g].pc = "attach" => room.bh = None
    /\ task[g].pc \in {"create", "wipe", "control"} => room.bh \in {None, task[g].bh}
    /\ task[g].pc \in {"tell", "destroy"} => room.destroyed

PartInv == (\A p \in Participant : PartKept(p)) /\ (\A h \in Handle : Joining(h))

ControlInv == (\A b \in Backend : ControlKept(b)) /\ (\A g \in Greenlet : Activating(g))

LEMMA HandlesInit == Init => PartInv /\ ControlInv
<1>. SUFFICES ASSUME Init PROVE PartInv /\ ControlInv
  OBVIOUS
<1>1. /\ \A p \in Participant : part[p].link = "none"
      /\ \A b \in Backend : backend[b].link = "none" /\ ~backend[b].stray
      /\ \A g \in Greenlet : task[g].pc = "idle" /\ task[g].op = "none"
  BY DEF Init, NoPart, NoBackend, NoTask
<1>. QED  BY <1>1 DEF PartInv, ControlInv, PartKept, Joining, ControlKept, Activating,
                  Locking, Comes, Greenlet

(* A greenlet goes on as t while the participants and the frontend handles  *)
(* stay as they are.                                                        *)
LEMMA PartAlone ==
    ASSUME IInv, PartInv, NEW g \in Greenlet, NEW t, task' = [task EXCEPT ![g] = t],
           UNCHANGED <<part, handle>>,
           t.op = "join" => task[g].op = "join" \/ handle[g].part = None,
           task[g].pc \in Comes \/ t.pc \in Comes =>
              task[g].pc = t.pc /\ task[g].part = t.part
    PROVE  PartInv'
<1>o. task'[g] = t /\ \A o \in Greenlet : o # g => task'[o] = task[o]
  BY DEF IInv, TypeOK
<1>h. Handle \subseteq Greenlet
  BY DEF Greenlet
<1>1. ASSUME NEW p \in Participant PROVE PartKept(p)'
  <2>1. ASSUME NEW h \in Handle, task[h].pc \in Comes, task[h].part = p
        PROVE  task'[h].pc \in Comes /\ task'[h].part = p
    BY <1>o, <1>h, <2>1
  <2>2. PartKept(p)
    BY DEF PartInv
  <2>. QED  BY <2>1, <2>2 DEF PartKept, Its, Ended
<1>2. ASSUME NEW h \in Handle PROVE Joining(h)'
  BY <1>o, <1>h DEF PartInv, Joining, Comes
<1>. QED  BY <1>1, <1>2 DEF PartInv

(* A join attaches a handle for a new participant.                          *)
LEMMA AsksToJoinKeeps ==
    ASSUME IInv, PartInv, NEW h \in Handle, NEW u, NEW s, AsksToJoin(h, u, s),
           handle' = handle, handle[h].part = None, task[h].pc \notin Comes
    PROVE  PartInv'
<1>1. PICK p \in Participant :
        /\ FreePart(p)
        /\ part' = [part EXCEPT ![p] = [NoPart EXCEPT !.user = u, !.handle = h, !.server = s,
                                                      !.link = "open"]]
        /\ task' = [task EXCEPT ![h] = [NoTask EXCEPT !.pc = "join", !.op = "join",
                                                      !.user = u, !.part = p]]
  BY DEF AsksToJoin
<1>2. /\ part'[p].handle = h
      /\ \A q \in Participant : q # p => part'[q] = part[q]
  BY <1>1 DEF IInv, TypeOK, NoPart
<1>3. /\ task'[h].pc = "join" /\ task'[h].op = "join" /\ task'[h].part = p
      /\ \A o \in Handle : o # h => task'[o] = task[o]
  BY <1>1 DEF IInv, TypeOK, NoTask, Greenlet
<1>4. ASSUME NEW q \in Participant PROVE PartKept(q)'
  <2>1. CASE q = p
    BY <1>2, <1>3, <2>1 DEF PartKept, Comes
  <2>2. CASE q # p
    <3>1. ASSUME NEW o \in Handle, task[o].pc \in Comes, task[o].part = q
          PROVE  task'[o].pc \in Comes /\ task'[o].part = q
      BY <1>3, <3>1
    <3>2. PartKept(q) /\ part'[q] = part[q]
      BY <1>2, <2>2 DEF PartInv
    <3>. QED  BY <3>1, <3>2 DEF PartKept, Its, Ended
  <2>. QED  BY <2>1, <2>2
<1>5. ASSUME NEW o \in Handle PROVE Joining(o)'
  <2>1. CASE o = h
    BY <1>2, <1>3, <2>1 DEF Joining
  <2>2. CASE o # h
    <3>1. task'[o] = task[o] /\ Joining(o) /\ task[o].part # p
      BY <1>1, <1>3, <2>2 DEF PartInv, FreePart, Greenlet
    <3>2. task[o].pc \in Comes => part'[task[o].part] = part[task[o].part]
      BY <1>2, <3>1 DEF IInv, Shapes, TaskShape, Comes, Greenlet
    <3>. QED  BY <3>1, <3>2 DEF Joining
  <2>. QED  BY <2>1, <2>2
<1>. QED  BY <1>4, <1>5 DEF PartInv

(* What happens to a participant whose join is over or goes on as it was:   *)
(* it ends, or is as much its handle's as it was.                           *)
Quits(p) == \/ part'[p].link # "open"
            \/ /\ part'[p].link = part[p].link
               /\ part'[p].stray \/ part'[p].end = "leaving"

Remains(p) == /\ part'[p].link = part[p].link /\ part'[p].stray = part[p].stray
              /\ \/ part'[p].end = part[p].end
                 \/ {part[p].end, part'[p].end} \subseteq {"no", "asked"}

\* A handle keeps its participant, or loses one that ends.
Keeps(h) == \/ /\ handle'[h].part = handle[h].part
               /\ handle'[h].gone = "yes" => handle[h].gone = "yes"
            \/ /\ handle'[h].part \in {handle[h].part, None}
               /\ \/ handle[h].part = None
                  \/ Quits(handle[h].part)
                  \/ Ended(handle[h].part)

LEMMA EndsKeep ==
    ASSUME PartInv, Shapes, \A h \in Handle : task'[h] = task[h] /\ Keeps(h),
           \A p \in Participant : /\ part'[p].handle = part[p].handle
                                  /\ Quits(p) \/ Remains(p)
    PROVE  PartInv'
<1>1. ASSUME NEW p \in Participant PROVE PartKept(p)'
  <2>. SUFFICES ASSUME part'[p].link = "open", ~Quits(p) PROVE PartKept(p)'
    BY DEF PartInv, PartKept, Quits
  <2>1. Remains(p) /\ PartKept(p) /\ part[p].link = "open" /\ part'[p].handle = part[p].handle
    BY DEF PartInv, Remains
  <2>2. CASE \E h \in Handle : task[h].pc \in Comes /\ task[h].part = p
    BY <2>1, <2>2 DEF PartKept
  <2>3. CASE part[p].stray \/ part[p].end = "leaving"
    BY <2>1, <2>3 DEF Remains, Quits
  <2>4. CASE ~Ended(p) /\ Its(part[p].handle, p)
    <3>1. part[p].handle \in Handle /\ Keeps(part[p].handle) /\ p # None
      BY <2>1, NoneApart DEF PartKept
    <3>2. Its(part[p].handle, p)'
      BY <2>1, <2>4, <3>1 DEF Keeps, Its
    <3>3. ~Ended(p)'
      BY <2>1, <2>4 DEF Ended, Remains
    <3>. QED  BY <2>1, <3>1, <3>2, <3>3 DEF PartKept, Its
  <2>. QED  BY <2>1, <2>2, <2>3, <2>4 DEF PartKept
<1>2. ASSUME NEW h \in Handle PROVE Joining(h)'
  <2>1. task[h].pc \in Comes => task[h].part \in Participant
    BY DEF Shapes, TaskShape, Greenlet, Comes
  <2>2. handle[h].part = None => handle'[h].part = None
    BY DEF Keeps
  <2>. QED  BY <2>1, <2>2 DEF PartInv, Joining
<1>. QED  BY <1>1, <1>2 DEF PartInv

(* The end of activate_backend_room(), for the participants.                *)
LEMMA GoesOnKeeps ==
    ASSUME IInv, PartInv, NEW g \in Greenlet, NEW op, NEW u, NEW b, GoesOn(g, op, u, b),
           handle' = handle, op = "join" => g \in Handle /\ handle[g].part = None,
           task[g].pc \notin Comes
    PROVE  PartInv'
<1>1. CASE op = "join" /\ room.bh # None
  <2>1. AsksToJoin(g, u, backend[room.bh].server)
    BY <1>1 DEF GoesOn
  <2>. QED  BY <1>1, <2>1, AsksToJoinKeeps
<1>2. CASE op = "join" /\ room.bh = None
  <2>1. task' = [task EXCEPT ![g] = NoTask] /\ part' = part
    BY <1>2 DEF GoesOn, Finish
  <2>2. NoTask.pc = "idle" /\ NoTask.op = "none"
    BY DEF NoTask
  <2>. QED  BY <2>1, <2>2, PartAlone DEF Comes
<1>3. CASE op # "join"
  <2>. DEFINE t == [NoTask EXCEPT !.pc = "ask", !.op = op, !.bh = b]
  <2>1. task' = [task EXCEPT ![g] = t] /\ part' = part /\ t.pc = "ask" /\ t.op = op
    BY <1>3 DEF GoesOn, NoTask
  <2>. HIDE DEF t
  <2>. QED  BY <1>3, <2>1, PartAlone DEF Comes
<1>. QED  BY <1>1, <1>2, <1>3

LEMMA ActivateKeeps ==
    ASSUME IInv, PartInv, NEW g \in Greenlet, task[g].pc = "idle", NEW op, NEW u, NEW r,
           Activate(g, op, u, r), handle' = handle,
           op = "join" => g \in Handle /\ handle[g].part = None
    PROVE  PartInv'
<1>1. CASE r.bh # None
  BY <1>1, GoesOnKeeps DEF Activate, Comes
<1>2. CASE r.bh = None
  <2>1. PICK pc \in {"lock", "attach"} :
          task' = [task EXCEPT ![g] = [NoTask EXCEPT !.pc = pc, !.op = op, !.user = u]]
    BY <1>2 DEF Activate
  <2>. DEFINE t == [NoTask EXCEPT !.pc = pc, !.op = op, !.user = u]
  <2>2. /\ task' = [task EXCEPT ![g] = t] /\ part' = part
        /\ t.pc \notin Comes /\ t.op = op
    BY <1>2, <2>1 DEF Activate, NoTask, Comes
  <2>. HIDE DEF t
  <2>. QED  BY <2>2, PartAlone DEF Comes
<1>. QED  BY <1>1, <1>2

(* The steps of a greenlet that leave the participants alone.               *)
LEMMA OwnStepKeeps ==
    ASSUME IInv, PartInv, NEW g \in Greenlet,
           \/ JanusServes(g) \/ JanusRefuses(g) \/ Created(g) \/ Recreate(g)
           \/ Collect(g) \/ \E b \in Backend, s \in Server : Attached(g, b, s)
    PROVE  PartInv'
<1>1. /\ UNCHANGED <<part, handle>>
      /\ \E t : /\ task' = [task EXCEPT ![g] = t]
                /\ t.op = task[g].op
                /\ task[g].pc \in Comes \/ t.pc \in Comes =>
                     task[g].pc = t.pc /\ task[g].part = t.part
  <2>i. task \in [Greenlet -> TaskRec] /\ task[g] \in TaskRec
    BY Types DEF IInv
  <2>1. CASE JanusServes(g) \/ JanusRefuses(g)
    <3>1. PICK x : task' = [task EXCEPT ![g].resp = x]
      BY <2>1 DEF JanusServes, JanusRefuses
    <3>. DEFINE t == [task[g] EXCEPT !.resp = x]
    <3>2. /\ task' = [task EXCEPT ![g] = t] /\ t.op = task[g].op /\ t.pc = task[g].pc
          /\ t.part = task[g].part
      BY <2>i, <3>1 DEF TaskRec
    <3>. HIDE DEF t
    <3>. QED  BY <2>1, <3>2 DEF JanusServes, JanusRefuses
  <2>2. CASE Created(g) \/ Recreate(g)
    <3>1. PICK x \in {"create", "wipe", "control"} :
            task' = [task EXCEPT ![g].pc = x, ![g].resp = "none"]
      BY <2>2 DEF Created, Recreate
    <3>. DEFINE t == [task[g] EXCEPT !.pc = x, !.resp = "none"]
    <3>2. task' = [task EXCEPT ![g] = t] /\ t.op = task[g].op /\ t.pc = x
      BY <2>i, <3>1 DEF TaskRec
    <3>3. task[g].pc \notin Comes
      BY <2>2 DEF Created, Recreate, Answered, At, Comes
    <3>. HIDE DEF t
    <3>. QED  BY <2>2, <3>2, <3>3 DEF Created, Recreate, Comes
  <2>3. CASE Collect(g)
    <3>. DEFINE t == [task[g] EXCEPT !.pc = "drop"]
    <3>2. task' = [task EXCEPT ![g] = t] /\ t.op = task[g].op /\ t.pc = "drop"
      BY <2>i, <2>3 DEF Collect, TaskRec
    <3>3. task[g].pc \notin Comes
      BY <2>3 DEF Collect, At, Comes
    <3>. HIDE DEF t
    <3>. QED  BY <2>3, <3>2, <3>3 DEF Collect, Comes
  <2>4. CASE \E b \in Backend, s \in Server : Attached(g, b, s)
    <3>1. PICK b \in Backend, s \in Server : Attached(g, b, s)
      BY <2>4
    <3>. DEFINE t == [task[g] EXCEPT !.pc = "create", !.bh = b]
    <3>2. task' = [task EXCEPT ![g] = t] /\ t.op = task[g].op /\ t.pc = "create"
      BY <2>i, <3>1 DEF Attached, TaskRec
    <3>3. task[g].pc \notin Comes
      BY <3>1 DEF Attached, At, Comes
    <3>. HIDE DEF t
    <3>. QED  BY <3>1, <3>2, <3>3 DEF Attached, Comes
  <2>. QED  BY <2>1, <2>2, <2>3, <2>4
<1>. QED  BY <1>1, PartAlone

LEMMA FinishKeeps ==
    ASSUME IInv, PartInv, NEW g \in Greenlet, Finish(g), task[g].pc \notin Comes,
           UNCHANGED <<part, handle>>
    PROVE  PartInv'
<1>1. NoTask.pc = "idle" /\ NoTask.op = "none"
  BY DEF NoTask
<1>. QED  BY <1>1, PartAlone DEF Finish, Comes

LEMMA AskPartKeeps ==
    ASSUME IInv, PartInv, NEW g \in Greenlet, task[g].pc = "idle", NEW p,
           task' = [task EXCEPT ![g] = [NoTask EXCEPT !.pc = "ask", !.part = p]],
           UNCHANGED <<part, handle>>
    PROVE  PartInv'
<1>. DEFINE t == [NoTask EXCEPT !.pc = "ask", !.part = p]
<1>1. t.pc = "ask" /\ t.op = "none" /\ task' = [task EXCEPT ![g] = t]
  BY DEF NoTask
<1>. HIDE DEF t
<1>. QED  BY <1>1, PartAlone DEF Comes

LEMMA LockGotKeeps == ASSUME IInv, PartInv, NEW g \in Greenlet, LockGot(g) PROVE PartInv'
<1>1. /\ task[g].pc = "lock" /\ handle' = handle
      /\ task[g].op = "join" => g \in Handle /\ handle[g].part = None
  BY DEF LockGot, At, IInv, Shapes, TaskShape, PartInv, Joining
<1>2. CASE AlreadyActive
  BY <1>1, <1>2, GoesOnKeeps DEF LockGot, Comes
<1>3. CASE ~AlreadyActive
  <2>. DEFINE t == [task[g] EXCEPT !.pc = "attach"]
  <2>1. task \in [Greenlet -> TaskRec] /\ task[g] \in TaskRec
    BY Types DEF IInv
  <2>2. /\ task' = [task EXCEPT ![g] = t] /\ part' = part
        /\ t.op = task[g].op /\ t.pc = "attach"
    BY <1>3, <2>1 DEF LockGot, TaskRec
  <2>. HIDE DEF t
  <2>. QED  BY <1>1, <2>2, PartAlone DEF Comes
<1>. QED  BY <1>2, <1>3

LEMMA ActivatedKeeps == ASSUME IInv, PartInv, NEW g \in Greenlet, Activated(g) PROVE PartInv'
<1>1. /\ task[g].pc = "control" /\ handle' = handle
      /\ task[g].op = "join" => g \in Handle /\ handle[g].part = None
  BY DEF Activated, Answered, At, IInv, Shapes, TaskShape, PartInv, Joining
<1>2. GoesOn(g, task[g].op, task[g].user, task[g].bh)
  BY DEF Activated
<1>. QED  BY <1>1, <1>2, GoesOnKeeps DEF Comes

(* A join that gets its answer, or has told the others: the frontend handle *)
(* gets the participant, which is a stray when that comes too late.         *)
LEMMA ClaimedKeeps ==
    ASSUME IInv, PartInv, NEW h \in Handle, task[h].pc \in Comes,
           NEW p, p = task[h].part, NEW x, part' = [part EXCEPT ![p] = x],
           x.handle = part[p].handle, x.end = part[p].end,
           x.stray \/ (handle[h].gone # "yes" /\ ~Ended(p)),
           handle' = [handle EXCEPT ![h].part = p], task' = [task EXCEPT ![h] = NoTask]
    PROVE  PartInv'
<1>1. /\ h \in Greenlet /\ p \in Participant /\ part[p].handle = h /\ handle[h].part = None
  BY DEF IInv, Shapes, TaskShape, PartInv, Joining, Comes, Greenlet
<1>2. part'[p] = x /\ \A q \in Participant : q # p => part'[q] = part[q]
  BY <1>1 DEF IInv, TypeOK
<1>3. /\ handle'[h].part = p /\ handle'[h].gone = handle[h].gone
      /\ \A o \in Handle : o # h => handle'[o] = handle[o]
  BY Types DEF IInv, HandleRec
<1>4. /\ task'[h].pc = "idle" /\ task'[h].op = "none"
      /\ \A o \in Handle : o # h => task'[o] = task[o]
  BY <1>1 DEF IInv, TypeOK, NoTask, Greenlet
<1>5. ASSUME NEW q \in Participant PROVE PartKept(q)'
  <2>1. CASE q = p
    <3>1. part'[q] = x /\ x.handle = h
      BY <1>1, <1>2, <2>1
    <3>2. ASSUME ~x.stray PROVE ~Ended(q)' /\ Its(h, q)'
      BY <1>3, <2>1, <3>1, <3>2 DEF Ended, Its
    <3>. QED  BY <3>1, <3>2 DEF PartKept, Its
  <2>2. CASE q # p
    <3>1. ASSUME NEW o \in Handle, task[o].pc \in Comes, task[o].part = q
          PROVE  task'[o].pc \in Comes /\ task'[o].part = q
      BY <1>4, <2>2, <3>1
    <3>2. PartKept(q) /\ part'[q] = part[q] /\ (Ended(q)' <=> Ended(q))
      BY <1>2, <2>2 DEF PartInv, Ended
    <3>3. ASSUME part[q].handle \in Handle, Its(part[q].handle, q) PROVE Its(part[q].handle, q)'
      BY <1>1, <1>3, <3>2, <3>3, NoneApart DEF Its
    <3>. QED  BY <3>1, <3>2, <3>3 DEF PartKept, Its
  <2>. QED  BY <2>1, <2>2
<1>6. ASSUME NEW o \in Handle PROVE Joining(o)'
  <2>1. CASE o = h
    BY <1>4, <2>1 DEF Joining, Comes
  <2>2. CASE o # h
    <3>1. task'[o] = task[o] /\ handle'[o] = handle[o] /\ Joining(o)
      BY <1>3, <1>4, <2>2 DEF PartInv
    <3>2. task[o].pc \in Comes => /\ task[o].part \in Participant
                                  /\ part'[task[o].part].handle = part[task[o].part].handle
      BY <1>2 DEF IInv, Shapes, TaskShape, Comes, Greenlet
    <3>. QED  BY <3>1, <3>2 DEF Joining
  <2>. QED  BY <2>1, <2>2
<1>. QED  BY <1>5, <1>6 DEF PartInv

\* Or its greenlet is over without that.
LEMMA ComingOverKeeps ==
    ASSUME IInv, PartInv, NEW h \in Handle, task[h].pc \in Comes,
           NEW p, p = task[h].part, NEW x, part' = [part EXCEPT ![p] = x],
           x.handle = part[p].handle, x.stray \/ x.link # "open", handle' = handle,
           NEW t, task' = [task EXCEPT ![h] = t], t.pc \notin Comes, t.op # "join"
    PROVE  PartInv'
<1>1. /\ h \in Greenlet /\ p \in Participant /\ part[p].handle = h
  BY DEF IInv, Shapes, TaskShape, PartInv, Joining, Comes, Greenlet
<1>2. part'[p] = x /\ \A q \in Participant : q # p => part'[q] = part[q]
  BY <1>1 DEF IInv, TypeOK
<1>3. task'[h] = t /\ \A o \in Handle : o # h => task'[o] = task[o]
  BY <1>1 DEF IInv, TypeOK, Greenlet
<1>4. ASSUME NEW q \in Participant PROVE PartKept(q)'
  <2>1. CASE q = p
    BY <1>1, <1>2, <2>1 DEF PartKept
  <2>2. CASE q # p
    <3>1. ASSUME NEW o \in Handle, task[o].pc \in Comes, task[o].part = q
          PROVE  task'[o].pc \in Comes /\ task'[o].part = q
      BY <1>3, <2>2, <3>1
    <3>2. PartKept(q) /\ part'[q] = part[q]
      BY <1>2, <2>2 DEF PartInv
    <3>. QED  BY <3>1, <3>2 DEF PartKept, Its, Ended
  <2>. QED  BY <2>1, <2>2
<1>5. ASSUME NEW o \in Handle PROVE Joining(o)'
  <2>1. CASE o = h
    BY <1>3, <2>1 DEF Joining, Comes
  <2>2. CASE o # h
    <3>1. task'[o] = task[o] /\ Joining(o)
      BY <1>3, <2>2 DEF PartInv
    <3>2. task[o].pc \in Comes => /\ task[o].part \in Participant
                                  /\ part'[task[o].part].handle = part[task[o].part].handle
      BY <1>2 DEF IInv, Shapes, TaskShape, Comes, Greenlet
    <3>. QED  BY <3>1, <3>2 DEF Joining
  <2>. QED  BY <2>1, <2>2
<1>. QED  BY <1>4, <1>5 DEF PartInv

\* A join that tells the others before its handle gets the participant.
LEMMA GreetsKeeps ==
    ASSUME IInv, PartInv, NEW h \in Handle, task[h].pc = "join",
           NEW p, p = task[h].part, NEW x, part' = [part EXCEPT ![p] = x],
           x.handle = part[p].handle, handle' = handle,
           task' = [task EXCEPT ![h] = [NoTask EXCEPT !.pc = "greet", !.part = p]]
    PROVE  PartInv'
<1>1. /\ h \in Greenlet /\ p \in Participant /\ part[p].handle = h /\ handle[h].part = None
  BY DEF IInv, Shapes, TaskShape, PartInv, Joining, Comes, Greenlet
<1>2. part'[p] = x /\ \A q \in Participant : q # p => part'[q] = part[q]
  BY <1>1 DEF IInv, TypeOK
<1>3. /\ task'[h].pc = "greet" /\ task'[h].op = "none" /\ task'[h].part = p
      /\ \A o \in Handle : o # h => task'[o] = task[o]
  BY <1>1 DEF IInv, TypeOK, NoTask, Greenlet
<1>4. ASSUME NEW q \in Participant PROVE PartKept(q)'
  <2>1. CASE q = p
    BY <1>1, <1>2, <1>3, <2>1 DEF PartKept, Comes
  <2>2. CASE q # p
    <3>1. ASSUME NEW o \in Handle, task[o].pc \in Comes, task[o].part = q
          PROVE  task'[o].pc \in Comes /\ task'[o].part = q
      BY <1>3, <2>2, <3>1
    <3>2. PartKept(q) /\ part'[q] = part[q]
      BY <1>2, <2>2 DEF PartInv
    <3>. QED  BY <3>1, <3>2 DEF PartKept, Its, Ended
  <2>. QED  BY <2>1, <2>2
<1>5. ASSUME NEW o \in Handle PROVE Joining(o)'
  <2>1. CASE o = h
    BY <1>1, <1>2, <1>3, <2>1 DEF Joining
  <2>2. CASE o # h
    <3>1. task'[o] = task[o] /\ Joining(o)
      BY <1>3, <2>2 DEF PartInv
    <3>2. task[o].pc \in Comes => /\ task[o].part \in Participant
                                  /\ part'[task[o].part].handle = part[task[o].part].handle
      BY <1>2 DEF IInv, Shapes, TaskShape, Comes, Greenlet
    <3>. QED  BY <3>1, <3>2 DEF Joining
  <2>. QED  BY <2>1, <2>2
<1>. QED  BY <1>4, <1>5 DEF PartInv

LEMMA JoinGoesOnKeeps ==
    ASSUME IInv, PartInv, NEW h \in Handle,
           Joined(h) \/ Greeted(h) \/ GreetStalls(h) \/ JoinFails(h)
    PROVE  PartInv'
<1>. PICK p : p = task[h].part
  OBVIOUS
<1>1. task[h].pc \in Comes /\ p \in Participant /\ part[p] \in PartRec
  BY Types DEF Joined, Greeted, GreetStalls, JoinFails, Answered, At, Comes, IInv, Shapes,
               TaskShape, Greenlet
<1>n. NoTask.pc \notin Comes /\ NoTask.op # "join"
  BY DEF NoTask, Comes
<1>2. CASE Joined(h)
  <2>. DEFINE x == [part[p] EXCEPT !.inroom = TRUE, !.stray = @ \/ Ended(p)]
  <2>1. x.handle = part[p].handle /\ x.end = part[p].end /\ (x.stray \/ ~Ended(p))
    BY <1>1 DEF PartRec
  <2>2. /\ Claims(h, p, x).handle = part[p].handle /\ Claims(h, p, x).end = part[p].end
        /\ Claims(h, p, x).stray \/ (handle[h].gone # "yes" /\ ~Ended(p))
    BY <1>1 DEF PartRec, Claims
  <2>3. \/ /\ part' = [part EXCEPT ![p] = x] /\ handle' = handle
           /\ task' = [task EXCEPT ![h] = [NoTask EXCEPT !.pc = "greet", !.part = p]]
        \/ /\ part' = [part EXCEPT ![p] = Claims(h, p, x)]
           /\ handle' = [handle EXCEPT ![h].part = p] /\ task' = [task EXCEPT ![h] = NoTask]
    BY <1>2 DEF Joined, Finish
  <2>4. task[h].pc = "join"
    BY <1>2 DEF Joined, Answered, At
  <2>. PICK y : y = Claims(h, p, x)
    OBVIOUS
  <2>. HIDE DEF x
  <2>5. CASE /\ part' = [part EXCEPT ![p] = x] /\ handle' = handle
             /\ task' = [task EXCEPT ![h] = [NoTask EXCEPT !.pc = "greet", !.part = p]]
    BY <2>1, <2>4, <2>5, GreetsKeeps
  <2>6. CASE /\ part' = [part EXCEPT ![p] = y]
             /\ handle' = [handle EXCEPT ![h].part = p] /\ task' = [task EXCEPT ![h] = NoTask]
    BY <1>1, <2>2, <2>6, ClaimedKeeps
  <2>. QED  BY <2>3, <2>5, <2>6
<1>3. CASE Greeted(h)
  <2>. DEFINE x == Claims(h, p, part[p])
  <2>1. /\ x.handle = part[p].handle /\ x.end = part[p].end
        /\ x.stray \/ (handle[h].gone # "yes" /\ ~Ended(p))
    BY <1>1 DEF PartRec, Claims
  <2>2. /\ part' = [part EXCEPT ![p] = x] /\ handle' = [handle EXCEPT ![h].part = p]
        /\ task' = [task EXCEPT ![h] = NoTask]
    BY <1>3 DEF Greeted, Finish
  <2>. HIDE DEF x
  <2>. QED  BY <1>1, <2>1, <2>2, ClaimedKeeps
<1>4. CASE GreetStalls(h)
  <2>. DEFINE x == [part[p] EXCEPT !.stray = TRUE]
              t == [NoTask EXCEPT !.pc = "dead"]
  <2>1. x.handle = part[p].handle /\ x.stray /\ t.pc \notin Comes /\ t.op # "join"
    BY <1>1 DEF PartRec, NoTask, Comes
  <2>2. part' = [part EXCEPT ![p] = x] /\ handle' = handle /\ task' = [task EXCEPT ![h] = t]
    BY <1>4 DEF GreetStalls
  <2>. HIDE DEF x, t
  <2>. QED  BY <1>1, <2>1, <2>2, ComingOverKeeps
<1>5. CASE JoinFails(h)
  <2>. DEFINE x == FailedPart(part[p])
  <2>1. x.handle = part[p].handle /\ x.link # "open"
    BY <1>1 DEF PartRec, FailedPart, Detached
  <2>2. /\ part' = [part EXCEPT ![p] = x] /\ handle' = handle
        /\ task' = [task EXCEPT ![h] = NoTask]
    BY <1>5 DEF JoinFails, Finish
  <2>. HIDE DEF x
  <2>. QED  BY <1>1, <1>n, <2>1, <2>2, ComingOverKeeps
<1>. QED  BY <1>2, <1>3, <1>4, <1>5

-----------------------------------------------------------------------------
\* The steps that end a participant or take the room or the handle from it.
LEMMA OneKeeps ==
    ASSUME IInv, PartInv, task' = task, \A h \in Handle : Keeps(h),
           NEW p \in Participant, NEW x, part' = [part EXCEPT ![p] = x],
           x.handle = part[p].handle, Quits(p) \/ Remains(p)
    PROVE  PartInv'
<1>1. part'[p] = x /\ \A q \in Participant : q # p => part'[q] = part[q]
  BY DEF IInv, TypeOK
<1>2. ASSUME NEW q \in Participant
      PROVE  part'[q].handle = part[q].handle /\ (Quits(q) \/ Remains(q))
  <2>1. q # p => Remains(q)
    BY <1>1 DEF Remains
  <2>. QED  BY <1>1, <2>1
<1>. QED  BY <1>2, EndsKeep DEF IInv

LEMMA EndedFields ==
    ASSUME IInv, NEW p \in Participant
    PROVE  \A x \in {EndedPart(part[p]), [EndedPart(part[p]) EXCEPT !.link = "closed"]} :
             /\ x.user = part[p].user /\ x.handle = part[p].handle
             /\ ~x.inroom /\ x.link # "open" /\ x.end = "done"
<1>1. part[p] \in PartRec
  BY Types DEF IInv
<1>. QED  BY <1>1 DEF EndedPart, Detached, PartRec

\* The participant is the only one that handles lose.
LEMMA ReleasedFields ==
    ASSUME NEW hs, NEW p, NEW h \in Handle, hs[h] \in HandleRec
    PROVE  /\ Released(hs, p)[h].gone = hs[h].gone
           /\ Released(hs, p)[h].part = IF hs[h].part = p THEN None ELSE hs[h].part
BY DEF Released, HandleRec

LEMMA EndPartKeeps ==
    ASSUME IInv, PartInv, NEW p \in Participant, NEW hs \in [Handle -> HandleRec],
           \A h \in Handle : \/ hs[h] = handle[h]
                             \/ handle[h].part = p /\ hs[h].part = None,
           EndPart(p, hs) \/ LetGo(p, hs), task' = task
    PROVE  PartInv'
<1>1. \A h \in Handle : hs[h] \in HandleRec
  OBVIOUS
<1>. PICK x : x = [part[p] EXCEPT !.end = "leaving"]
  OBVIOUS
<1>2. CASE part' = [part EXCEPT ![p] = x] /\ handle' = hs
  <2>1. x.handle = part[p].handle /\ x.link = part[p].link /\ x.end = "leaving"
    BY Types DEF IInv, PartRec
  <2>2. Quits(p)
    BY <1>2, <2>1, Types DEF IInv, Quits
  <2>3. \A h \in Handle : Keeps(h)
    BY <1>2, <2>2 DEF Keeps
  <2>. QED  BY <1>2, <2>1, <2>2, <2>3, OneKeeps
<1>3. CASE LetGo(p, hs)
  <2>. PICK y : y = EndedPart(part[p])
    OBVIOUS
  <2>1. y.handle = part[p].handle /\ y.link # "open" /\ part' = [part EXCEPT ![p] = y]
    BY <1>3, EndedFields DEF LetGo
  <2>2. Quits(p)
    BY <2>1, Types DEF IInv, Quits
  <2>3. \A h \in Handle : Keeps(h)
    <3>. TAKE h \in Handle
    <3>1. handle'[h] = hs[h] \/ handle' = Released(hs, p)
      BY <1>3 DEF LetGo
    <3>. QED  BY <1>1, <2>2, <3>1, ReleasedFields DEF Keeps
  <2>. QED  BY <2>1, <2>2, <2>3, OneKeeps
<1>. QED  BY <1>2, <1>3 DEF EndPart

\* Handles change while the participants stay.
LEMMA HandlesKeep ==
    ASSUME IInv, PartInv, UNCHANGED <<part, task>>, \A h \in Handle : Keeps(h) PROVE PartInv'
<1>1. \A p \in Participant : Remains(p)
  BY DEF Remains
<1>. QED  BY <1>1, EndsKeep DEF IInv

LEMMA DetachKeeps ==
    ASSUME IInv, PartInv, NEW h \in Handle,
           Leave(h) \/ Detach(h) \/ DetachGoesOn(h) \/ DetachStalls(h) \/ ToldHangup(h)
    PROVE  PartInv'
<1>. PICK p : p = handle[h].part
  OBVIOUS
<1>i. /\ handle \in [Handle -> HandleRec] /\ \A o \in Handle : handle[o] \in HandleRec
      /\ p \in Participant \cup {None}
  BY Types DEF IInv
<1>1. CASE Leave(h)
  <2>1. p \in Participant /\ EndPart(p, handle) /\ task' = task
    BY <1>i, <1>1 DEF Leave, HasPart
  <2>. QED  BY <1>i, <2>1, EndPartKeeps
<1>2. CASE Detach(h)
  <2>1. \A o \in Handle : Keeps(o)
    BY <1>i, <1>2 DEF Detach, Keeps, HandleRec
  <2>. QED  BY <1>2, <2>1, HandlesKeep DEF Detach
<1>3. CASE DetachGoesOn(h)
  <2>. PICK hs : hs = [handle EXCEPT ![h] = [gone |-> "yes", part |-> None]]
    OBVIOUS
  <2>1. /\ hs \in [Handle -> HandleRec] /\ hs[h].part = None
        /\ \A o \in Handle : o # h => hs[o] = handle[o]
    BY <1>i DEF HandleRec
  <2>2. CASE HasPart(h) /\ EndPart(p, hs)
    <3>1. p \in Participant /\ task' = task
      BY <1>i, <1>3, <2>2 DEF HasPart, DetachGoesOn
    <3>. QED  BY <2>1, <2>2, <3>1, EndPartKeeps
  <2>3. CASE ~HasPart(h) /\ handle' = hs /\ UNCHANGED <<part, task>>
    <3>1. \A o \in Handle : Keeps(o)
      BY <2>1, <2>3 DEF Keeps, HasPart
    <3>. QED  BY <2>3, <3>1, HandlesKeep
  <2>. QED  BY <1>3, <2>2, <2>3 DEF DetachGoesOn
<1>4. CASE DetachStalls(h)
  <2>1. \A q \in Participant : /\ part'[q].handle = part[q].handle
                               /\ part'[q].link = part[q].link /\ part'[q].end = part[q].end
                               /\ part'[q].stray = (part[q].stray \/ q = p)
    BY <1>4, Types DEF IInv, DetachStalls, PartRec
  <2>2. \A q \in Participant : Quits(q) \/ Remains(q)
    <3>. TAKE q \in Participant
    <3>1. part[q].stray \in BOOLEAN
      BY Types DEF IInv, PartRec
    <3>2. CASE q = p
      BY <2>1, <3>2 DEF Quits
    <3>3. CASE q # p
      BY <2>1, <3>1, <3>3 DEF Remains
    <3>. QED  BY <3>2, <3>3
  <2>3. \A o \in Handle : Keeps(o)
    <3>. TAKE o \in Handle
    <3>1. handle'[o].part = handle[o].part /\ (o # h => handle'[o] = handle[o])
      BY <1>i, <1>4 DEF DetachStalls, HandleRec
    <3>2. p = None \/ Quits(p)
      BY <1>i, <2>1 DEF Quits
    <3>. QED  BY <3>1, <3>2 DEF Keeps
  <2>. QED  BY <1>4, <2>1, <2>2, <2>3, EndsKeep DEF DetachStalls, IInv
<1>5. CASE ToldHangup(h)
  <2>1. handle' = Released(handle, p) /\ Ended(p) /\ UNCHANGED <<part, task>>
    BY <1>5 DEF ToldHangup, Ended
  <2>2. \A o \in Handle : Keeps(o)
    BY <1>i, <2>1, ReleasedFields DEF Keeps
  <2>. QED  BY <2>1, <2>2, HandlesKeep
<1>. QED  BY <1>1, <1>2, <1>3, <1>4, <1>5

LEMMA PartGoesOnKeeps ==
    ASSUME IInv, PartInv, NEW p \in Participant,
           \/ Asked(p) \/ AskedStalls(p) \/ HangUp(p) \/ PartToldOthers(p) \/ PartStalls(p)
           \/ \E u \in User : Kick(u) /\ p = room.participants[u]
    PROVE  PartInv'
<1>i. /\ handle \in [Handle -> HandleRec] /\ part[p] \in PartRec
      /\ part \in [Participant -> PartRec]
  BY Types DEF IInv
<1>1. CASE Asked(p) \/ HangUp(p) \/ PartToldOthers(p)
  <2>1. (EndPart(p, handle) \/ LetGo(p, handle)) /\ task' = task
    BY <1>1 DEF Asked, HangUp, PartToldOthers
  <2>. QED  BY <1>i, <2>1, EndPartKeeps
<1>2. CASE \/ AskedStalls(p) \/ PartStalls(p)
           \/ \E u \in User : Kick(u) /\ p = room.participants[u]
  <2>1. \/ part[p].end = "asked" /\ part' = [part EXCEPT ![p].end = "no"]
        \/ part[p].end = "no" /\ part' = [part EXCEPT ![p].end = "asked"]
        \/ part' = [part EXCEPT ![p].end = "stuck", ![p].stray = TRUE]
    BY <1>2 DEF AskedStalls, PartStalls, Kick
  <2>2. UNCHANGED <<handle, task>>
    BY <1>2 DEF AskedStalls, PartStalls, Kick
  <2>3. PICK x : /\ part' = [part EXCEPT ![p] = x] /\ x.handle = part[p].handle
                 /\ x.link = part[p].link
                 /\ \/ x.stray
                    \/ /\ {part[p].end, x.end} \subseteq {"no", "asked"}
                       /\ x.stray = part[p].stray
    BY <1>i, <2>1 DEF PartRec
  <2>4. Quits(p) \/ Remains(p)
    BY <1>i, <2>3 DEF Quits, Remains
  <2>5. \A h \in Handle : Keeps(h)
    BY <2>2 DEF Keeps
  <2>. QED  BY <2>2, <2>3, <2>4, <2>5, OneKeeps
<1>. QED  BY <1>1, <1>2

LEMMA PartClosedKeeps ==
    ASSUME IInv, PartInv, NEW p \in Participant, PartClosed(p) PROVE PartInv'
<1>i. /\ part[p] \in PartRec /\ part \in [Participant -> PartRec]
      /\ \A o \in Handle : handle[o] \in HandleRec
  BY Types DEF IInv
<1>1. PICK y \in {part[p], [part[p] EXCEPT !.end = "asked"], EndedPart(part[p])} :
        part' = [part EXCEPT ![p] = [y EXCEPT !.link = "closed"]]
  BY DEF PartClosed
<1>2. y \in PartRec /\ y.handle = part[p].handle
  BY <1>i, EndedPartType, EndedFields DEF PartRec
<1>. PICK x : x = [y EXCEPT !.link = "closed"]
  OBVIOUS
<1>3. part' = [part EXCEPT ![p] = x] /\ x.handle = part[p].handle /\ x.link = "closed"
  BY <1>1, <1>2 DEF PartRec
<1>4. Quits(p)
  BY <1>i, <1>3 DEF Quits
<1>5. \A h \in Handle : Keeps(h)
  <2>. TAKE h \in Handle
  <2>1. handle' = handle \/ handle' = Released(handle, p)
    BY DEF PartClosed
  <2>. QED  BY <1>i, <1>4, <2>1, ReleasedFields DEF Keeps
<1>. QED  BY <1>3, <1>4, <1>5, OneKeeps DEF PartClosed

\* Steps of destroy() of the room: others keep their handles.
LEMMA EndRoomKeeps ==
    ASSUME IInv, PartInv, NEW c \in Control, EndRoom(c) \/ RoomTold(c) \/ RoomStalls(c)
    PROVE  PartInv'
<1>1. PICK t : task' = [task EXCEPT ![c] = t]
  BY DEF EndRoom, RoomTold, RoomStalls, EndsFor, Finish
<1>2. \A h \in Handle : task'[h] = task[h]
  BY <1>1, AudioBridgeAssumption DEF IInv, TypeOK, Greenlet
<1>3. /\ handle' = handle
      /\ \/ part' = part
         \/ \E p \in Participant : part' = [part EXCEPT ![p].inroom = FALSE]
  BY Types DEF EndRoom, RoomTold, RoomStalls, EndsFor, Listed, Unlisted, IInv
<1>4. \A p \in Participant : part'[p].handle = part[p].handle /\ Remains(p)
  BY <1>3, Types DEF IInv, PartRec, Remains
<1>5. \A h \in Handle : Keeps(h)
  BY <1>3 DEF Keeps
<1>. QED  BY <1>2, <1>4, <1>5, EndsKeep DEF IInv

LEMMA PartStep == IInv /\ PartInv /\ [Next]_vars => PartInv'
<1>. SUFFICES ASSUME IInv, PartInv, [Next]_vars PROVE PartInv'
  OBVIOUS
<1>h. Handle \subseteq Greenlet /\ Control \subseteq Greenlet
  BY DEF Greenlet
<1>1. ASSUME NEW g \in Greenlet, Answer(g) \/ Resume(g) PROVE PartInv'
  <2>1. CASE Answer(g) \/ Created(g) \/ Recreate(g)
             \/ \E b \in Backend, s \in Server : Attached(g, b, s)
    BY <2>1, OwnStepKeeps DEF Answer
  <2>2. CASE LockTimeout(g) \/ ActivationFails(g) \/ PartAnswered(g)
    BY <2>2, FinishKeeps DEF LockTimeout, ActivationFails, PartAnswered, At, Comes
  <2>3. CASE LockGot(g) \/ Activated(g)
    BY <2>3, LockGotKeeps, ActivatedKeeps
  <2>. QED  BY <1>1, <2>1, <2>2, <2>3 DEF Resume
<1>2. ASSUME NEW h \in Handle,
             \/ ResumeJoin(h) \/ Configure(h) \/ Leave(h)
             \/ Detach(h) \/ DetachGoesOn(h) \/ DetachStalls(h)
             \/ \E u \in User : Join(h, u)
      PROVE  PartInv'
  <2>1. CASE Joined(h) \/ JoinFails(h) \/ Greeted(h) \/ GreetStalls(h)
    BY <2>1, JoinGoesOnKeeps
  <2>2. CASE Configure(h)
    BY <1>h, <2>2, AskPartKeeps DEF Configure, At
  <2>3. CASE Leave(h) \/ Detach(h) \/ DetachGoesOn(h) \/ DetachStalls(h) \/ ToldHangup(h)
    BY <2>3, DetachKeeps
  <2>4. CASE \E u \in User : Join(h, u)
    BY <1>h, <2>4, ActivateKeeps DEF Join, NewParticipant, At
  <2>. QED  BY <1>2, <2>1, <2>2, <2>3, <2>4 DEF ResumeJoin
<1>3. ASSUME NEW c \in Control,
             \/ ResumeControl(c) \/ RoomRequest(c) \/ DestroyRoom(c) \/ Collect(c)
             \/ \E u \in User : MuteParticipant(c, u)
      PROVE  PartInv'
  <2>1. CASE RoomAnswered(c) \/ RoomDestroyed(c) \/ RoomNotDestroyed(c)
    BY <1>h, <2>1, FinishKeeps
    DEF RoomAnswered, RoomDestroyed, RoomNotDestroyed, Answered, At, Comes
  <2>2. CASE Drop(c) \/ DestroyRoom(c) \/ RoomTold(c) \/ RoomStalls(c)
    BY <2>2, EndRoomKeeps DEF Drop, DestroyRoom
  <2>3. CASE RoomRequest(c)
    BY <1>h, <2>3, ActivateKeeps DEF RoomRequest, AsksRoom, At
  <2>4. CASE Collect(c)
    BY <1>h, <2>4, OwnStepKeeps
  <2>5. CASE \E u \in User : MuteParticipant(c, u)
    BY <1>h, <2>5, AskPartKeeps DEF MuteParticipant, At
  <2>. QED  BY <1>3, <2>1, <2>2, <2>3, <2>4, <2>5 DEF ResumeControl
<1>4. ASSUME NEW u \in User, Kick(u) PROVE PartInv'
  <2>1. room.participants[u] \in Participant
    BY <1>4, Types DEF IInv, Kick
  <2>. QED  BY <1>4, <2>1, PartGoesOnKeeps
<1>5. ASSUME NEW p \in Participant,
             \/ Asked(p) \/ AskedStalls(p) \/ HangUp(p) \/ PartClosed(p)
             \/ PartToldOthers(p) \/ PartStalls(p)
      PROVE  PartInv'
  BY <1>5, PartGoesOnKeeps, PartClosedKeeps
<1>6. CASE UNCHANGED vars \/ \E b \in Backend : ControlClosed(b)
  <2>1. UNCHANGED <<part, handle, task>>
    BY <1>6 DEF vars, ControlClosed
  <2>2. \A h \in Handle : Keeps(h)
    BY <2>1 DEF Keeps
  <2>. QED  BY <2>1, <2>2, HandlesKeep
<1>. QED  BY <1>1, <1>2, <1>3, <1>4, <1>5, <1>6 DEF Next

-----------------------------------------------------------------------------

(* What a step of g owes to the others that activate or destroy: it changes *)
(* the lock or the control handle only while nobody else has the lock.      *)
LEMMA OthersActivate ==
    ASSUME IInv, ControlInv, NEW g \in Greenlet, NEW t, task' = [task EXCEPT ![g] = t],
           room'.lock # room.lock => room.lock \in {None, g},
           room'.bh \in {room.bh, None} \/ room.lock = g,
           room.destroyed => room'.destroyed,
           t.pc \in Locking => room'.lock = g,
           t.pc = "attach" => room'.bh = None,
           t.pc \in {"create", "wipe", "control"} => room'.bh \in {None, t.bh},
           t.pc \in {"tell", "destroy"} => room'.destroyed
    PROVE  \A o \in Greenlet : Activating(o)'
<1>. TAKE o \in Greenlet
<1>1. CASE o = g
  <2>1. task'[o] = t
    BY <1>1 DEF IInv, TypeOK
  <2>. QED  BY <1>1, <2>1 DEF Activating
<1>2. CASE o # g
  <2>1. task'[o] = task[o] /\ Activating(o)
    BY <1>2 DEF IInv, TypeOK, ControlInv
  <2>2. task[o].pc \in Locking => room'.lock = o /\ room'.bh \in {room.bh, None}
    BY <1>2, <2>1, NoneApart DEF Activating, Greenlet
  <2>. QED  BY <2>1, <2>2 DEF Activating, Locking
<1>. QED  BY <1>1, <1>2

(* Who ends the control handles, while the room stays as it is.             *)
LEMMA ReadyStays ==
    ASSUME room'.destroyed = room.destroyed,
           \A c \in Control : task[c].pc = "tell" => task'[c].pc = "tell"
    PROVE  Ready => Ready'
BY DEF Ready

LEMMA KeptStays ==
    ASSUME NEW b \in Backend, ControlKept(b), Ready => Ready', backend'[b] = backend[b],
           room.destroyed => room'.destroyed, room'.bh = room.bh \/ room.bh # b,
           \A o \in Greenlet : task[o].pc = "destroy" /\ task[o].bh = b
                                  => task'[o].pc = "destroy" /\ task'[o].bh = b
    PROVE  ControlKept(b)'
BY DEF ControlKept

(* A step of one greenlet that leaves the control handles alone.            *)
LEMMA ControlAlone ==
    ASSUME IInv, ControlInv, NEW g \in Greenlet, NEW t, task' = [task EXCEPT ![g] = t],
           backend' = backend, room'.bh = room.bh, room'.destroyed = room.destroyed,
           room'.lock # room.lock => room.lock \in {None, g},
           t.pc \in Locking => room'.lock = g,
           t.pc = "attach" => room.bh = None,
           t.pc \in {"create", "wipe", "control"} => room.bh \in {None, t.bh},
           {t.pc, task[g].pc} \cap {"tell", "destroy"} # {} =>
              t.pc = task[g].pc /\ t.bh = task[g].bh
    PROVE  ControlInv'
<1>1. task'[g] = t /\ \A o \in Greenlet : o # g => task'[o] = task[o]
  BY DEF IInv, TypeOK
<1>2. \A o \in Greenlet : task[o].pc \in {"tell", "destroy"} =>
                             task'[o].pc = task[o].pc /\ task'[o].bh = task[o].bh
  BY <1>1
<1>3. Ready => Ready'
  BY <1>2, ReadyStays DEF Greenlet
<1>4. \A b \in Backend : ControlKept(b)'
  BY <1>2, <1>3, KeptStays DEF ControlInv
<1>5. t.pc \in {"tell", "destroy"} => room'.destroyed
  BY DEF ControlInv, Activating
<1>6. \A o \in Greenlet : Activating(o)'
  BY <1>5, OthersActivate
<1>. QED  BY <1>4, <1>6 DEF ControlInv

LEMMA GoneOnKeeps ==
    ASSUME IInv, ControlInv, NEW g \in Greenlet, NEW op, NEW u, GoneOn(g, op, u),
           task[g].pc \notin {"tell", "destroy"}, backend' = backend, room'.bh = room.bh,
           room'.destroyed = room.destroyed,
           room'.lock # room.lock => room.lock \in {None, g}
    PROVE  ControlInv'
<1>1. PICK t \in TaskRec : /\ task' = [task EXCEPT ![g] = t]
                           /\ t.pc \in {"idle", "join", "ask"}
  BY DEF GoneOn
<1>. QED  BY <1>1, ControlAlone DEF Locking

LEMMA ActivateControl ==
    ASSUME IInv, ControlInv, NEW g \in Greenlet, task[g].pc = "idle", NEW op \in {"join", "room"},
           NEW u, op = "join" => g \in Handle /\ u \in User,
           NEW r \in RoomRec, r.bh = room.bh, r.lock = room.lock, r.destroyed = room.destroyed,
           Activate(g, op, u, r), backend' = backend
    PROVE  ControlInv'
<1>i. TypeOK /\ r.bh \in Backend \cup {None}
  BY DEF IInv, RoomRec
<1>1. CASE r.bh # None
  <2>1. room' = r /\ GoesOn(g, op, u, r.bh) /\ r.bh \in Backend
    BY <1>i, <1>1 DEF Activate
  <2>2. op \in {"none", "join", "room"}
    OBVIOUS
  <2>3. GoneOn(g, op, u)
    BY <1>i, <2>1, <2>2, GoesOnFacts
  <2>. QED  BY <2>1, <2>3, GoneOnKeeps
<1>2. CASE r.bh = None /\ r.lock # None
  <2>. DEFINE t == [NoTask EXCEPT !.pc = "lock", !.op = op, !.user = u]
  <2>1. room' = r /\ task' = [task EXCEPT ![g] = t] /\ t.pc = "lock"
    BY <1>2 DEF Activate, NoTask
  <2>. HIDE DEF t
  <2>. QED  BY <2>1, ControlAlone DEF Locking
<1>3. CASE r.bh = None /\ r.lock = None
  <2>. DEFINE t == [NoTask EXCEPT !.pc = "attach", !.op = op, !.user = u]
  <2>1. /\ room' = [r EXCEPT !.lock = g] /\ task' = [task EXCEPT ![g] = t] /\ t.pc = "attach"
    BY <1>3 DEF Activate, NoTask
  <2>2. /\ room'.lock = g /\ room'.bh = room.bh /\ room'.destroyed = room.destroyed
        /\ room.bh = None /\ room.lock = None
    BY <1>3, <2>1 DEF RoomRec
  <2>. HIDE DEF t
  <2>. QED  BY <2>1, <2>2, ControlAlone DEF Locking
<1>. QED  BY <1>i, <1>1, <1>2, <1>3

(* Greenlets that neither activate nor destroy, or only wait for an answer. *)
LEMMA OtherTaskControl ==
    ASSUME IInv, ControlInv, NEW g \in Greenlet,
           \/ JanusServes(g) \/ JanusRefuses(g) \/ Created(g) \/ Recreate(g)
           \/ LockTimeout(g) \/ PartAnswered(g) \/ RoomAnswered(g) \/ Collect(g)
           \/ Configure(g) \/ \E u \in User : MuteParticipant(g, u)
           \/ Joined(g) \/ JoinFails(g) \/ Greeted(g) \/ GreetStalls(g)
    PROVE  ControlInv'
<1>i. task[g] \in TaskRec /\ task \in [Greenlet -> TaskRec] /\ Activating(g) /\ room \in RoomRec
  BY Types DEF IInv, ControlInv
<1>1. /\ backend' = backend /\ room'.bh = room.bh /\ room'.destroyed = room.destroyed
      /\ room'.lock = room.lock
  <2>1. CASE LockTimeout(g) \/ JoinFails(g)
    BY <1>i, <2>1 DEF LockTimeout, JoinFails, NotCreating, RoomRec
  <2>2. CASE Joined(g)
    BY <1>i, <2>2 DEF Joined, Entered, RoomRec
  <2>3. CASE Collect(g)
    BY <1>i, <2>3 DEF Collect, RoomRec
  <2>. QED  BY <2>1, <2>2, <2>3 DEF JanusServes, JanusRefuses, Created, Recreate,
                  PartAnswered, RoomAnswered, Configure, MuteParticipant, Greeted, GreetStalls
<1>2. CASE JanusServes(g) \/ JanusRefuses(g)
  <2>1. PICK x : task' = [task EXCEPT ![g].resp = x]
    BY <1>2 DEF JanusServes, JanusRefuses
  <2>. DEFINE t == [task[g] EXCEPT !.resp = x]
  <2>2. task' = [task EXCEPT ![g] = t] /\ t.pc = task[g].pc /\ t.bh = task[g].bh
    BY <1>i, <2>1 DEF TaskRec
  <2>. HIDE DEF t
  <2>. QED  BY <1>i, <1>1, <2>2, ControlAlone DEF Activating
<1>3. CASE Created(g) \/ Recreate(g)
  <2>1. PICK x \in {"create", "wipe", "control"} :
          task' = [task EXCEPT ![g].pc = x, ![g].resp = "none"]
    BY <1>3 DEF Created, Recreate
  <2>. DEFINE t == [task[g] EXCEPT !.pc = x, !.resp = "none"]
  <2>2. /\ task' = [task EXCEPT ![g] = t] /\ t.bh = task[g].bh /\ t.pc = x
        /\ task[g].pc \in {"create", "wipe"}
    BY <1>i, <1>3, <2>1 DEF TaskRec, Created, Recreate, Answered, At
  <2>. HIDE DEF t
  <2>. QED  BY <1>i, <1>1, <2>2, ControlAlone DEF Activating, Locking
<1>4. CASE \/ LockTimeout(g) \/ PartAnswered(g) \/ RoomAnswered(g) \/ JoinFails(g)
           \/ Greeted(g) \/ GreetStalls(g) \/ Joined(g)
  <2>1. PICK t : /\ task' = [task EXCEPT ![g] = t] /\ task[g].pc \notin {"tell", "destroy"}
                 /\ t.pc \in {"idle", "dead", "greet"}
    <3>1. /\ NoTask.pc = "idle" /\ [NoTask EXCEPT !.pc = "dead"].pc = "dead"
          /\ \A p : [NoTask EXCEPT !.pc = "greet", !.part = p].pc = "greet"
      BY DEF NoTask
    <3>2. CASE Joined(g)
      <4>. PICK y : y = [NoTask EXCEPT !.pc = "greet", !.part = task[g].part]
        OBVIOUS
      <4>. PICK n : n = NoTask
        OBVIOUS
      <4>1. task' = [task EXCEPT ![g] = y] \/ task' = [task EXCEPT ![g] = n]
        BY <3>2 DEF Joined, Finish
      <4>3. y.pc = "greet" /\ n.pc = "idle"
        BY <3>1
      <4>2. task[g].pc = "join"
        BY <3>2 DEF Joined, Answered, At
      <4>. QED  BY <4>1, <4>2, <4>3
    <3>3. CASE ~Joined(g)
      BY <1>4, <3>1, <3>3 DEF LockTimeout, PartAnswered, RoomAnswered, JoinFails, Greeted,
                              GreetStalls, Answered, At, Finish
    <3>. QED  BY <3>2, <3>3
  <2>. QED  BY <1>1, <2>1, ControlAlone DEF Locking
<1>5. CASE Configure(g) \/ \E u \in User : MuteParticipant(g, u)
  <2>1. PICK p : task' = [task EXCEPT ![g] = [NoTask EXCEPT !.pc = "ask", !.part = p]]
    BY <1>5 DEF Configure, MuteParticipant
  <2>. DEFINE t == [NoTask EXCEPT !.pc = "ask", !.part = p]
  <2>2. task' = [task EXCEPT ![g] = t] /\ t.pc = "ask" /\ task[g].pc = "idle"
    BY <1>5, <2>1 DEF NoTask, Configure, MuteParticipant, At
  <2>. HIDE DEF t
  <2>. QED  BY <1>1, <2>2, ControlAlone DEF Locking
<1>6. CASE Collect(g)
  <2>. DEFINE t == [task[g] EXCEPT !.pc = "drop"]
  <2>1. task' = [task EXCEPT ![g] = t] /\ t.pc = "drop" /\ task[g].pc = "idle"
    BY <1>i, <1>6 DEF Collect, At, TaskRec
  <2>. HIDE DEF t
  <2>. QED  BY <1>1, <2>1, ControlAlone DEF Locking
<1>. QED  BY <1>2, <1>3, <1>4, <1>5, <1>6

LEMMA LockGotControl ==
    ASSUME IInv, ControlInv, NEW g \in Greenlet, LockGot(g) PROVE ControlInv'
<1>i. TypeOK /\ task[g] \in TaskRec /\ TaskShape(g, task[g]) /\ room \in RoomRec
  BY Types DEF IInv, Shapes
<1>l. task[g].pc = "lock" /\ room.lock = None /\ backend' = backend
  BY DEF LockGot, At
<1>1. CASE room.bh # None
  <2>1. room' = room /\ GoesOn(g, task[g].op, task[g].user, room.bh) /\ room.bh \in Backend
    BY <1>i, <1>1, Types DEF LockGot, AlreadyActive
  <2>2. /\ task[g].op \in {"none", "join", "room"}
        /\ task[g].op = "join" => g \in Handle /\ task[g].user \in User
    BY <1>i DEF TaskRec, TaskShape
  <2>3. GoneOn(g, task[g].op, task[g].user)
    BY <1>i, <2>1, <2>2, GoesOnFacts
  <2>. QED  BY <1>l, <2>1, <2>3, GoneOnKeeps
<1>2. CASE room.bh = None
  <2>. DEFINE t == [task[g] EXCEPT !.pc = "attach"]
  <2>1. room' = [room EXCEPT !.lock = g] /\ task' = [task EXCEPT ![g] = t] /\ t.pc = "attach"
    BY <1>i, <1>2 DEF LockGot, AlreadyActive, TaskRec
  <2>2. room'.lock = g /\ room'.bh = room.bh /\ room'.destroyed = room.destroyed
    BY <1>i, <2>1 DEF RoomRec
  <2>. HIDE DEF t
  <2>. QED  BY <1>l, <1>2, <2>1, <2>2, ControlAlone DEF Locking
<1>. QED  BY <1>1, <1>2

LEMMA ActivatedControl ==
    ASSUME IInv, ControlInv, NEW g \in Greenlet, Activated(g) PROVE ControlInv'
<1>i. TypeOK /\ task[g] \in TaskRec /\ TaskShape(g, task[g]) /\ room \in RoomRec /\ Activating(g)
  BY Types DEF IInv, Shapes, ControlInv
<1>1. /\ task[g].pc = "control" /\ GoesOn(g, task[g].op, task[g].user, task[g].bh)
      /\ backend' = backend
  BY DEF Activated, Answered, At
<1>2. room'.bh = room.bh /\ room'.destroyed = room.destroyed /\ room.lock = g
  BY <1>i, <1>1 DEF Activated, NotCreating, RoomRec, Activating, Locking
<1>3. /\ task[g].op \in {"none", "join", "room"} /\ task[g].bh \in Backend
      /\ task[g].op = "join" => g \in Handle /\ task[g].user \in User
  BY <1>i, <1>1 DEF TaskRec, TaskShape
<1>4. GoneOn(g, task[g].op, task[g].user)
  BY <1>i, <1>1, <1>3, GoesOnFacts
<1>. QED  BY <1>1, <1>2, <1>4, GoneOnKeeps

LEMMA AttachedControl ==
    ASSUME IInv, ControlInv, NEW g \in Greenlet, NEW b \in Backend, NEW s \in Server,
           Attached(g, b, s)
    PROVE  ControlInv'
<1>i. TypeOK /\ task[g] \in TaskRec /\ room \in RoomRec /\ Activating(g)
  BY Types DEF IInv, ControlInv
<1>. DEFINE t == [task[g] EXCEPT !.pc = "create", !.bh = b]
<1>1. /\ task[g].pc = "attach" /\ task' = [task EXCEPT ![g] = t]
      /\ t.pc = "create" /\ t.bh = b
  BY <1>i DEF Attached, At, TypeOK, TaskRec
<1>2. room.lock = g /\ room.bh = None
  BY <1>i, <1>1 DEF Activating, Locking
<1>3. room'.bh = b /\ room'.lock = room.lock /\ room'.destroyed = room.destroyed
  BY <1>i DEF Attached, RoomRec
<1>. HIDE DEF t
<1>4. \A o \in Greenlet : Activating(o)'
  BY <1>1, <1>2, <1>3, OthersActivate DEF Locking
<1>5. task'[g] = t /\ \A o \in Greenlet : o # g => task'[o] = task[o]
  BY <1>i, <1>1 DEF TypeOK
<1>6. Ready => Ready'
  BY <1>1, <1>3, <1>5, ReadyStays DEF Greenlet
<1>7. ASSUME NEW c \in Backend PROVE ControlKept(c)'
  <2>1. CASE c = b
    <3>1. backend'[c].stray = TooLate /\ (TooLate <=> ~Ready)
      BY <1>i, <2>1 DEF Attached, TooLate, Ready, At, TypeOK
    <3>2. backend'[c].stray => room'.destroyed
      BY <1>3, <3>1 DEF Ready
    <3>. QED  BY <1>3, <1>6, <2>1, <3>1, <3>2 DEF ControlKept
  <2>2. CASE c # b
    <3>1. backend'[c] = backend[c] /\ room.bh # c
      BY <1>2, <2>2, NoneApart DEF Attached
    <3>2. \A o \in Greenlet : task[o].pc = "destroy" /\ task[o].bh = c
                                 => task'[o].pc = "destroy" /\ task'[o].bh = c
      BY <1>1, <1>5
    <3>. QED  BY <1>3, <1>6, <3>1, <3>2, KeptStays DEF ControlInv
  <2>. QED  BY <2>1, <2>2
<1>. QED  BY <1>4, <1>7 DEF ControlInv

LEMMA ActivationFailsControl ==
    ASSUME IInv, ControlInv, NEW g \in Greenlet, ActivationFails(g) PROVE ControlInv'
<1>i. TypeOK /\ room \in RoomRec /\ Activating(g) /\ TaskShape(g, task[g])
  BY DEF IInv, TypeOK, Shapes, ControlInv
<1>1. task' = [task EXCEPT ![g] = NoTask] /\ NoTask.pc = "idle" /\ task[g].pc \in Locking
  BY DEF ActivationFails, Finish, NoTask, At, Locking
<1>2. room'.bh = None /\ room'.lock = None /\ room'.destroyed = room.destroyed
  BY <1>i DEF ActivationFails, NotCreating, GivesUp, RoomRec
<1>3. room.lock = g
  BY <1>i, <1>1 DEF Activating
<1>4. \A o \in Greenlet : Activating(o)'
  BY <1>1, <1>2, <1>3, OthersActivate DEF Locking
<1>5. \A o \in Greenlet : task[o].pc \in {"tell", "destroy"} => task'[o] = task[o]
  BY <1>i, <1>1 DEF TypeOK, Locking
<1>6. Ready => Ready'
  BY <1>2, <1>5, ReadyStays DEF Greenlet
<1>7. ASSUME NEW c \in Backend PROVE ControlKept(c)'
  <2>1. CASE backend'[c] = backend[c] /\ room.bh # c
    BY <1>2, <1>5, <1>6, <2>1, KeptStays DEF ControlInv
  <2>2. CASE task[g].pc = "attach"
    <3>1. room.bh = None /\ backend' = backend
      BY <1>i, <2>2 DEF Activating, ActivationFails
    <3>. QED  BY <2>1, <3>1, NoneApart
  <2>3. CASE task[g].pc # "attach"
    <3>1. backend' = [backend EXCEPT ![task[g].bh].link = Detached(@)]
      BY <2>3 DEF ActivationFails, At
    <3>2. task[g].bh \in Backend /\ room.bh \in {None, task[g].bh}
      BY <1>i, <1>1, <2>3 DEF TaskShape, Activating, Locking
    <3>3. CASE c = task[g].bh
      <4>1. backend'[c].link # "open" /\ backend'[c].stray = backend[c].stray
        BY <1>i, <3>1, <3>3, Types DEF BackendRec, Detached
      <4>. QED  BY <1>2, <4>1 DEF ControlInv, ControlKept
    <3>4. CASE c # task[g].bh
      <4>1. backend'[c] = backend[c] /\ room.bh # c
        BY <1>i, <3>1, <3>2, <3>4, NoneApart DEF TypeOK
      <4>. QED  BY <2>1, <4>1
    <3>. QED  BY <3>3, <3>4
  <2>. QED  BY <2>2, <2>3
<1>. QED  BY <1>4, <1>7 DEF ControlInv

(* EndRoom and RoomTold: the room keeps its control handle while there are  *)
(* clients to tell, and then gives it to the greenlet.                      *)
LEMMA EndsForControl ==
    ASSUME IInv, ControlInv, NEW c \in Control, task[c].pc \in {"idle", "drop", "tell"},
           NEW ps, NEW r \in RoomRec, r.bh = room.bh, r.lock = room.lock, r.destroyed,
           EndsFor(c, ps, r), backend' = backend
    PROVE  ControlInv'
<1>i. TypeOK /\ c \in Greenlet
  BY DEF IInv, Greenlet
<1>1. PICK t : /\ task' = [task EXCEPT ![c] = t]
               /\ \/ t.pc = "tell" /\ room' = r
                  \/ /\ room' = [r EXCEPT !.bh = None]
                     /\ IF room.bh = None THEN t.pc = "idle"
                                          ELSE t.pc = "destroy" /\ t.bh = room.bh
  <2>1. /\ [NoTask EXCEPT !.pc = "tell"].pc = "tell" /\ NoTask.pc = "idle"
        /\ [NoTask EXCEPT !.pc = "destroy", !.bh = r.bh].pc = "destroy"
        /\ [NoTask EXCEPT !.pc = "destroy", !.bh = r.bh].bh = r.bh
    BY DEF NoTask
  <2>. QED  BY <2>1 DEF EndsFor
<1>2. /\ room'.lock = room.lock /\ room'.destroyed
      /\ room'.bh = IF t.pc = "tell" THEN room.bh ELSE None
  BY <1>1 DEF RoomRec
<1>3. \A o \in Greenlet : Activating(o)'
  BY <1>i, <1>1, <1>2, OthersActivate DEF Locking
<1>4. task'[c] = t /\ \A o \in Greenlet : o # c => task'[o] = task[o]
  BY <1>i, <1>1 DEF TypeOK
<1>5. ASSUME NEW b \in Backend PROVE ControlKept(b)'
  <2>. SUFFICES ASSUME backend[b].link = "open", ~backend[b].stray
       PROVE  \/ room'.bh = b /\ Ready'
              \/ \E o \in Greenlet : task'[o].pc = "destroy" /\ task'[o].bh = b
    BY <1>2 DEF ControlKept
  <2>1. CASE room.bh = b
    <3>1. CASE t.pc = "tell"
      BY <1>2, <1>4, <2>1, <3>1 DEF Ready
    <3>2. CASE t.pc # "tell"
      <4>1. t.pc = "destroy" /\ t.bh = b
        BY <1>1, <2>1, <3>2, NoneApart
      <4>. QED  BY <1>i, <1>4, <4>1
    <3>. QED  BY <3>1, <3>2
  <2>2. CASE room.bh # b
    <3>1. PICK o \in Greenlet : task[o].pc = "destroy" /\ task[o].bh = b
      BY <2>2 DEF ControlInv, ControlKept
    <3>. QED  BY <1>4, <3>1
  <2>. QED  BY <2>1, <2>2
<1>. QED  BY <1>3, <1>5 DEF ControlInv

LEMMA EndRoomControl ==
    ASSUME IInv, ControlInv, NEW c \in Control,
           \/ task[c].pc \in {"idle", "drop"} /\ EndRoom(c)
           \/ RoomTold(c)
    PROVE  ControlInv'
<1>i. room \in RoomRec
  BY DEF IInv, TypeOK
<1>1. CASE task[c].pc \in {"idle", "drop"} /\ EndRoom(c)
  BY <1>i, <1>1, EmptiedType, EndsForControl DEF EndRoom
<1>2. CASE RoomTold(c)
  <2>1. room.destroyed
    BY <1>2 DEF ControlInv, Activating, RoomTold, At, Greenlet
  <2>. QED  BY <1>i, <1>2, <2>1, EndsForControl DEF RoomTold, At
<1>. QED  BY <1>1, <1>2

LEMMA RoomStallsControl ==
    ASSUME IInv, ControlInv, NEW c \in Control, RoomStalls(c) PROVE ControlInv'
<1>i. TypeOK /\ c \in Greenlet /\ \A b \in Backend : backend[b] \in BackendRec
  BY Types DEF IInv, Greenlet
<1>1. /\ task' = [task EXCEPT ![c] = NoTask] /\ NoTask.pc = "idle" /\ room' = room
      /\ task[c].pc = "tell" /\ room.destroyed
  BY <1>i DEF RoomStalls, Finish, NoTask, At, ControlInv, Activating
<1>2. \A o \in Greenlet : Activating(o)'
  BY <1>i, <1>1, OthersActivate DEF Locking
<1>3. \A o \in Greenlet : o # c => task'[o] = task[o]
  BY <1>i, <1>1 DEF TypeOK
<1>4. ASSUME NEW b \in Backend PROVE ControlKept(b)'
  <2>1. /\ backend'[b].link = backend[b].link
        /\ backend'[b].stray = (backend[b].stray \/ b = room.bh)
    BY <1>i DEF RoomStalls, BackendRec
  <2>2. ControlKept(b) /\ backend[b].stray \in BOOLEAN
    BY <1>i DEF ControlInv, BackendRec
  <2>. QED  BY <1>1, <1>3, <2>1, <2>2 DEF ControlKept
<1>. QED  BY <1>2, <1>4 DEF ControlInv

LEMMA DestroyAnsweredControl ==
    ASSUME IInv, ControlInv, NEW c \in Control, RoomDestroyed(c) \/ RoomNotDestroyed(c)
    PROVE  ControlInv'
<1>i. TypeOK /\ c \in Greenlet /\ \A b \in Backend : backend[b] \in BackendRec
  BY Types DEF IInv, Greenlet
<1>1. /\ task' = [task EXCEPT ![c] = NoTask] /\ NoTask.pc = "idle" /\ room' = room
      /\ task[c].pc = "destroy"
  BY DEF RoomDestroyed, RoomNotDestroyed, Finish, NoTask, Answered, At
<1>2. \A o \in Greenlet : Activating(o)'
  BY <1>i, <1>1, OthersActivate DEF Locking
<1>3. \A o \in Greenlet : o # c => task'[o] = task[o]
  BY <1>i, <1>1 DEF TypeOK
<1>4. Ready => Ready'
  BY <1>1, <1>3, ReadyStays DEF Greenlet
<1>5. ASSUME NEW b \in Backend PROVE ControlKept(b)'
  <2>1. CASE b = task[c].bh
    <3>1. backend'[b].link # "open" /\ backend'[b].stray = backend[b].stray
      BY <1>i, <2>1 DEF RoomDestroyed, RoomNotDestroyed, Detached, TypeOK, BackendRec
    <3>. QED  BY <1>1, <3>1 DEF ControlInv, ControlKept
  <2>2. CASE b # task[c].bh
    <3>1. backend'[b] = backend[b]
      BY <1>i, <2>2 DEF RoomDestroyed, RoomNotDestroyed, TypeOK
    <3>2. \A o \in Greenlet : task[o].pc = "destroy" /\ task[o].bh = b
                                 => task'[o].pc = "destroy" /\ task'[o].bh = b
      BY <1>3, <2>2
    <3>. QED  BY <1>1, <1>4, <3>1, <3>2, KeptStays DEF ControlInv
  <2>. QED  BY <2>1, <2>2
<1>. QED  BY <1>2, <1>5 DEF ControlInv

LEMMA ControlClosedControl ==
    ASSUME IInv, ControlInv, NEW b \in Backend, ControlClosed(b) PROVE ControlInv'
<1>i. TypeOK /\ room \in RoomRec /\ \A c \in Backend : backend[c] \in BackendRec
  BY Types DEF IInv, TypeOK
<1>1. /\ backend' = [backend EXCEPT ![b].link = "closed"] /\ task' = task
      /\ room' = IF room.destroyed THEN room ELSE [room EXCEPT !.bh = None]
      /\ backend[b].link = "open"
  BY DEF ControlClosed
<1>2. /\ room'.lock = room.lock /\ room'.destroyed = room.destroyed
      /\ room'.bh = IF room.destroyed THEN room.bh ELSE None
  BY <1>i, <1>1 DEF RoomRec
<1>3. \A o \in Greenlet : Activating(o)'
  BY <1>1, <1>2 DEF ControlInv, Activating
<1>4. Ready => Ready'
  BY <1>1, <1>2, ReadyStays
<1>5. ASSUME NEW c \in Backend PROVE ControlKept(c)'
  <2>1. CASE c = b
    <3>1. backend'[c].link = "closed" /\ backend'[c].stray = backend[c].stray
      BY <1>i, <1>1, <2>1 DEF TypeOK, BackendRec
    <3>. QED  BY <1>2, <3>1 DEF ControlInv, ControlKept
  <2>2. CASE c # b
    <3>1. backend'[c] = backend[c]
      BY <1>i, <1>1, <2>2 DEF TypeOK
    <3>2. room'.bh = room.bh \/ room.bh # c
      <4>1. CASE room.destroyed
        BY <1>2, <4>1
      <4>2. CASE ~room.destroyed
        <5>1. \A o \in Greenlet : task[o].pc # "destroy"
          BY <4>2 DEF ControlInv, Activating
        <5>2. room.bh = b
          BY <1>1, <4>2, <5>1 DEF ControlInv, ControlKept
        <5>. QED  BY <2>2, <5>2
      <4>. QED  BY <4>1, <4>2
    <3>. QED  BY <1>1, <1>2, <1>4, <3>1, <3>2, KeptStays DEF ControlInv
  <2>. QED  BY <2>1, <2>2
<1>. QED  BY <1>3, <1>5 DEF ControlInv

(* Steps that change neither a control handle nor a greenlet.               *)
LEMMA RoomForgetsControl ==
    ASSUME IInv, ControlInv, UNCHANGED <<backend, task>>, NEW x,
           room' \in {room, Forgotten(room, x)}
    PROVE  ControlInv'
<1>1. room'.bh = room.bh /\ room'.lock = room.lock /\ room'.destroyed = room.destroyed
  <2>1. room \in RoomRec
    BY DEF IInv, TypeOK
  <2>2. [room EXCEPT !.participants[x.user] = None].bh = room.bh
    BY <2>1 DEF RoomRec
  <2>. QED  BY <2>1, <2>2 DEF Forgotten, RoomRec
<1>. QED  BY <1>1 DEF ControlInv, ControlKept, Activating, Ready

LEMMA ControlStepKeeps == IInv /\ ControlInv /\ [Next]_vars => ControlInv'
<1>. SUFFICES ASSUME IInv, ControlInv, [Next]_vars PROVE ControlInv'
  OBVIOUS
<1>h. Handle \subseteq Greenlet /\ Control \subseteq Greenlet
  BY DEF Greenlet
<1>1. ASSUME NEW g \in Greenlet, Answer(g) \/ Resume(g) PROVE ControlInv'
  BY <1>1, OtherTaskControl, LockGotControl, ActivatedControl, ActivationFailsControl,
     AttachedControl DEF Answer, Resume
<1>2. ASSUME NEW h \in Handle,
             \/ ResumeJoin(h) \/ Configure(h) \/ Leave(h)
             \/ Detach(h) \/ DetachGoesOn(h) \/ DetachStalls(h)
             \/ \E u \in User : Join(h, u)
      PROVE  ControlInv'
  <2>1. CASE Joined(h) \/ JoinFails(h) \/ Greeted(h) \/ GreetStalls(h) \/ Configure(h)
    BY <1>h, <2>1, OtherTaskControl
  <2>2. CASE Leave(h) \/ DetachGoesOn(h)
    BY <2>2, RoomForgetsControl DEF Leave, DetachGoesOn, EndPart
  <2>3. CASE Detach(h) \/ DetachStalls(h) \/ ToldHangup(h)
    BY <2>3, RoomForgetsControl DEF Detach, DetachStalls, ToldHangup
  <2>4. ASSUME NEW u \in User, Join(h, u) PROVE ControlInv'
    <3>. DEFINE r == [room EXCEPT !.creating = @ \cup {u}]
    <3>1. /\ r \in RoomRec /\ r.bh = room.bh /\ r.lock = room.lock
          /\ r.destroyed = room.destroyed
      BY DEF IInv, TypeOK, RoomRec
    <3>2. Activate(h, "join", u, r) /\ backend' = backend /\ task[h].pc = "idle"
      BY <2>4 DEF Join, NewParticipant, At
    <3>. HIDE DEF r
    <3>. QED  BY <1>h, <3>1, <3>2, ActivateControl
  <2>. QED  BY <1>2, <2>1, <2>2, <2>3, <2>4 DEF ResumeJoin
<1>3. ASSUME NEW c \in Control,
             \/ ResumeControl(c) \/ RoomRequest(c) \/ DestroyRoom(c) \/ Collect(c)
             \/ \E u \in User : MuteParticipant(c, u)
      PROVE  ControlInv'
  <2>1. CASE RoomAnswered(c) \/ Collect(c) \/ \E u \in User : MuteParticipant(c, u)
    BY <1>h, <2>1, OtherTaskControl
  <2>2. CASE Drop(c) \/ DestroyRoom(c) \/ RoomTold(c) \/ RoomStalls(c)
    BY <2>2, EndRoomControl, RoomStallsControl DEF Drop, DestroyRoom, At
  <2>3. CASE RoomDestroyed(c) \/ RoomNotDestroyed(c)
    BY <2>3, DestroyAnsweredControl
  <2>4. CASE RoomRequest(c)
    <3>1. /\ Activate(c, "room", None, room) /\ backend' = backend /\ task[c].pc = "idle"
          /\ room \in RoomRec
      BY <2>4 DEF RoomRequest, AsksRoom, At, IInv, TypeOK
    <3>. QED  BY <1>h, <3>1, ActivateControl
  <2>. QED  BY <1>3, <2>1, <2>2, <2>3, <2>4 DEF ResumeControl
<1>4. CASE \/ \E u \in User : Kick(u)
           \/ \E p \in Participant : \/ Asked(p) \/ AskedStalls(p) \/ HangUp(p) \/ PartClosed(p)
                                     \/ PartToldOthers(p) \/ PartStalls(p)
  <2>1. /\ UNCHANGED <<backend, task>>
        /\ room' = room \/ \E p \in Participant : room' = Forgotten(room, part[p])
    <3>1. CASE \E u \in User : Kick(u)
      BY <3>1 DEF Kick
    <3>2. ASSUME NEW p \in Participant,
                 \/ Asked(p) \/ AskedStalls(p) \/ HangUp(p) \/ PartClosed(p)
                 \/ PartToldOthers(p) \/ PartStalls(p)
          PROVE  UNCHANGED <<backend, task>> /\ room' \in {room, Forgotten(room, part[p])}
      BY <3>2 DEF Asked, AskedStalls, HangUp, PartClosed, PartToldOthers, PartStalls, EndPart
    <3>. QED  BY <1>4, <3>1, <3>2
  <2>. QED  BY <2>1, RoomForgetsControl
<1>5. CASE \E b \in Backend : ControlClosed(b)
  BY <1>5, ControlClosedControl
<1>6. CASE UNCHANGED vars
  BY <1>6, RoomForgetsControl DEF vars
<1>. QED  BY <1>1, <1>2, <1>3, <1>4, <1>5, <1>6 DEF Next

(* No backend handle is attached that nobody knows of, whatever fails and   *)
(* whoever does not read: what is attached for a participant is its         *)
(* frontend handle's, its join's or that of the destroy() under way, and    *)
(* the control handle is the room's or that of the greenlet that takes it   *)
(* down, or they are strays. Two greenlets do not activate the room at      *)
(* once, for the second finds the lock taken or the control handle there.   *)
THEOREM NoLostHandleHolds == Spec => []NoLostHandle
<1>1. Spec => []PartInv
  <2>1. Init => PartInv
    BY HandlesInit
  <2>. QED  BY <2>1, PartStep, Inductive, PTL DEF Spec
<1>2. Spec => []ControlInv
  <2>1. Init => ControlInv
    BY HandlesInit
  <2>. QED  BY <2>1, ControlStepKeeps, Inductive, PTL DEF Spec
<1>3. PartInv /\ ControlInv => NoLostHandle
  <2>. SUFFICES ASSUME PartInv, ControlInv PROVE NoLostHandle
    OBVIOUS
  <2>1. ASSUME NEW p \in Participant, part[p].link = "open", ~part[p].stray
        PROVE  \/ LET h == part[p].handle
                  IN ~Ended(p) /\ handle[h].part = p /\ handle[h].gone # "yes"
               \/ \E h \in Handle : task[h].pc \in {"join", "greet"} /\ task[h].part = p
               \/ part[p].end = "leaving"
    BY <2>1 DEF PartInv, PartKept, Its, Comes
  <2>2. ASSUME NEW b \in Backend, backend[b].link = "open", ~backend[b].stray
        PROVE  \/ room.bh = b /\ (~room.destroyed \/ \E c \in Control : At(c, "tell"))
               \/ \E g \in Greenlet : /\ task[g].pc \in {"create", "wipe", "control", "destroy"}
                                      /\ task[g].bh = b
    BY <2>2 DEF ControlInv, ControlKept, Ready, At
  <2>. QED  BY <2>1, <2>2 DEF NoLostHandle
<1>. QED  BY <1>1, <1>2, <1>3, PTL

-----------------------------------------------------------------------------
(* The third invariant: who is in the list of participants, and whose join  *)
(* will put it there.                                                       *)
Greeting(p) == \E h \in Handle : task[h].pc = "greet" /\ task[h].part = p

Entry(u) ==
    LET p == room.participants[u]
    IN p # None =>
         /\ part[p].user = u /\ part[p].inroom /\ part[p].end \notin {"leaving", "stuck"}
         /\ \/ part[p].stray
            \/ /\ ~Ended(p) /\ part[p].handle \in Handle
               /\ handle[part[p].handle].part = p \/ Greeting(p)

Member(p) ==
    part[p].inroom => /\ part[p].user \in User
                      /\ \/ room.participants[part[p].user] = p
                         \/ part[p].end \in {"leaving", "stuck"}
                         \/ room.destroyed

Held(h) == handle[h].part # None => part[handle[h].part].handle = h

Lists == /\ \A u \in User : Entry(u)
         /\ \A p \in Participant : Member(p)
         /\ \A h \in Handle : Held(h)

(* The user id of a join is nobody else's, as long as the room knows of the *)
(* joins that wait; a room that is destroyed forgets them, and starts none. *)
IdKept(h) ==
    task[h].op = "join" =>
      /\ room.participants[task[h].user] = None
      /\ ~room.destroyed => task[h].user \in room.creating
      /\ \A g \in Handle \ {h} : task[g].op = "join" => task[g].user # task[h].user

Enters(h) ==
    task[h].pc = "join" =>
      LET p == task[h].part
      IN part[p].user = task[h].user /\ ~part[p].inroom /\ part[p].end \in {"no", "done"}

ListInv == Lists /\ \A h \in Handle : IdKept(h) /\ Enters(h)

LEMMA ListsInit == Init => ListInv
<1>. SUFFICES ASSUME Init PROVE ListInv
  OBVIOUS
<1>1. /\ \A u \in User : room.participants[u] = None
      /\ \A p \in Participant : part[p].inroom = FALSE
      /\ \A h \in Handle : handle[h].part = None
      /\ \A h \in Handle : task[h].pc = "idle" /\ task[h].op = "none"
  BY DEF Init, NoPart, NoTask, Greenlet
<1>. QED  BY <1>1 DEF ListInv, Lists, Entry, Member, Held, IdKept, Enters

\* Who is not in the room is not in the list.
LEMMA Outside ==
    ASSUME IInv, Lists, NEW p \in Participant, ~part[p].inroom
    PROVE  \A u \in User : room.participants[u] # p
BY NoneApart DEF Lists, Entry

\* Who tells the others of its join goes on with it.
GreetsOn == \A h \in Handle : task[h].pc = "greet" => /\ task'[h].pc = "greet"
                                                      /\ task'[h].part = task[h].part

LEMMA GreetingStays == ASSUME GreetsOn, NEW p PROVE Greeting(p) => Greeting(p)'
BY DEF GreetsOn, Greeting

(* A participant that is not in the list changes, and is not in the room.   *)
LEMMA ListsOut ==
    ASSUME IInv, Lists, handle' = handle, room'.participants = room.participants,
           room'.destroyed = room.destroyed, GreetsOn,
           NEW p \in Participant, NEW x, part' = [part EXCEPT ![p] = x],
           \A u \in User : room.participants[u] # p, ~x.inroom,
           x.handle = part[p].handle \/ \A h \in Handle : handle[h].part # p
    PROVE  Lists'
<1>1. part'[p] = x /\ \A q \in Participant : q # p => part'[q] = part[q]
  BY Types DEF IInv
<1>2. ASSUME NEW u \in User PROVE Entry(u)'
  <2>. SUFFICES ASSUME NEW q \in Participant, q = room.participants[u], q # None PROVE Entry(u)'
    BY Types DEF IInv, Entry
  <2>1. Entry(u) /\ q # p
    BY DEF Lists
  <2>2. part'[q] = part[q] /\ (Ended(q)' <=> Ended(q)) /\ (Greeting(q) => Greeting(q)')
    BY <1>1, <2>1, GreetingStays DEF Ended
  <2>. QED  BY <2>1, <2>2 DEF Entry
<1>3. ASSUME NEW q \in Participant PROVE Member(q)'
  BY <1>1 DEF Lists, Member
<1>4. ASSUME NEW h \in Handle PROVE Held(h)'
  <2>. SUFFICES ASSUME NEW q \in Participant, q = handle[h].part, q # None
       PROVE  part'[q].handle = h
    BY Types DEF IInv, Held
  <2>1. part[q].handle = h
    BY DEF Lists, Held
  <2>. QED  BY <1>1, <2>1
<1>. QED  BY <1>2, <1>3, <1>4 DEF Lists

LEMMA ListsQuiet ==
    ASSUME Lists, UNCHANGED <<part, handle>>, room'.participants = room.participants,
           room'.destroyed = room.destroyed, GreetsOn
    PROVE  Lists'
<1>1. ASSUME NEW u \in User PROVE Entry(u)'
  <2>. PICK p : p = room.participants[u]
    OBVIOUS
  <2>1. Entry(u) /\ (Greeting(p) => Greeting(p)') /\ (Ended(p)' <=> Ended(p))
    BY GreetingStays DEF Lists, Ended
  <2>. QED  BY <2>1 DEF Entry
<1>. QED  BY <1>1 DEF Lists, Member, Held

-----------------------------------------------------------------------------
\* A greenlet goes on as t: an id that a join gives back is its own.
GivesBackOwn(g, t) ==
    \A v \in room.creating :
       \/ v \in room'.creating
       \/ g \in Handle /\ task[g].op = "join" /\ v = task[g].user /\ t.op # "join"

\* A join has the id it had or takes one that is free.
HasOwnId(g, t) ==
    t.op = "join" =>
       /\ g \in Handle
       /\ \/ task[g].op = "join" /\ t.user = task[g].user
          \/ ~IdTaken(t.user) /\ ~room.destroyed /\ t.user \in room'.creating

LEMMA IdsGo ==
    ASSUME IInv, ListInv, NEW g \in Greenlet, NEW t, task' = [task EXCEPT ![g] = t],
           room'.participants = room.participants, room'.destroyed = room.destroyed,
           GivesBackOwn(g, t), HasOwnId(g, t)
    PROVE  \A h \in Handle : IdKept(h)'
<1>1. /\ task'[g] = t /\ Handle \subseteq Greenlet
      /\ \A o \in Greenlet : o # g => task'[o] = task[o]
  BY Types DEF IInv, Greenlet
<1>2. ASSUME NEW h \in Handle, h # g, task[h].op = "join", t.op = "join"
      PROVE  t.user # task[h].user
  <2>1. CASE task[g].op = "join" /\ t.user = task[g].user /\ g \in Handle
    BY <1>2, <2>1 DEF ListInv, IdKept
  <2>2. CASE ~IdTaken(t.user) /\ ~room.destroyed
    BY <1>2, <2>2 DEF ListInv, IdKept, IdTaken
  <2>. QED  BY <1>2, <2>1, <2>2 DEF HasOwnId
<1>3. ASSUME NEW h \in Handle, h # g PROVE IdKept(h)'
  <2>. SUFFICES ASSUME task[h].op = "join"
       PROVE  /\ room'.participants[task[h].user] = None
              /\ ~room'.destroyed => task[h].user \in room'.creating
              /\ \A o \in Handle \ {h} : task'[o].op = "join" => task'[o].user # task[h].user
    BY <1>1, <1>3 DEF IdKept
  <2>1. IdKept(h)
    BY DEF ListInv
  <2>2. ASSUME ~room.destroyed PROVE task[h].user \in room'.creating
    <3>1. task[h].user \in room.creating
      BY <2>1, <2>2 DEF IdKept
    <3>2. ASSUME g \in Handle, task[g].op = "join" PROVE task[h].user # task[g].user
      BY <1>3, <2>1, <3>2 DEF IdKept
    <3>. QED  BY <3>1, <3>2 DEF GivesBackOwn
  <2>3. ASSUME NEW o \in Handle, o # h, task'[o].op = "join" PROVE task'[o].user # task[h].user
    <3>1. CASE o = g
      BY <1>1, <1>2, <1>3, <2>3, <3>1
    <3>2. CASE o # g
      BY <1>1, <2>1, <2>3, <3>2 DEF IdKept
    <3>. QED  BY <3>1, <3>2
  <2>. QED  BY <2>1, <2>2, <2>3 DEF IdKept
<1>4. ASSUME g \in Handle PROVE IdKept(g)'
  <2>. SUFFICES ASSUME t.op = "join"
       PROVE  /\ room'.participants[t.user] = None
              /\ ~room'.destroyed => t.user \in room'.creating
              /\ \A o \in Handle \ {g} : task'[o].op = "join" => task'[o].user # t.user
    BY <1>1, <1>4 DEF IdKept
  <2>1. \A o \in Handle \ {g} : task'[o].op = "join" => task'[o].user # t.user
    BY <1>1, <1>2
  <2>2. CASE task[g].op = "join" /\ t.user = task[g].user
    <3>1. IdKept(g)
      BY <1>4 DEF ListInv
    <3>2. ~room.destroyed => t.user \in room'.creating
      BY <2>2, <3>1 DEF IdKept, GivesBackOwn
    <3>. QED  BY <2>1, <2>2, <3>1, <3>2 DEF IdKept
  <2>3. CASE ~IdTaken(t.user) /\ t.user \in room'.creating
    BY <2>1, <2>3 DEF IdTaken
  <2>. QED  BY <2>2, <2>3 DEF HasOwnId
<1>. QED  BY <1>3, <1>4

LEMMA EntersGo ==
    ASSUME IInv, ListInv, NEW g \in Greenlet, NEW t, task' = [task EXCEPT ![g] = t],
           \A h \in Handle \ {g} : task[h].pc = "join"
                                      => part'[task[h].part] = part[task[h].part],
           t.pc = "join" => /\ part'[t.part].user = t.user /\ ~part'[t.part].inroom
                            /\ part'[t.part].end \in {"no", "done"}
    PROVE  \A h \in Handle : Enters(h)'
<1>1. /\ task'[g] = t /\ Handle \subseteq Greenlet
      /\ \A o \in Greenlet : o # g => task'[o] = task[o]
  BY Types DEF IInv, Greenlet
<1>2. ASSUME NEW h \in Handle, h # g PROVE Enters(h)'
  <2>1. task'[h] = task[h] /\ Enters(h)
    BY <1>1, <1>2 DEF ListInv
  <2>. QED  BY <1>2, <2>1 DEF Enters
<1>3. ASSUME g \in Handle PROVE Enters(g)'
  BY <1>1 DEF Enters
<1>. QED  BY <1>2, <1>3

LEMMA OneGreetsOn ==
    ASSUME IInv, NEW g \in Greenlet, NEW t, task' = [task EXCEPT ![g] = t],
           task[g].pc = "greet" => t.pc = "greet" /\ t.part = task[g].part
    PROVE  GreetsOn
BY Types DEF IInv, GreetsOn, Greenlet

\* Greenlets that leave the participants alone.
LEMMA ListQuiet ==
    ASSUME IInv, ListInv, NEW g \in Greenlet, NEW t, task' = [task EXCEPT ![g] = t],
           UNCHANGED <<part, handle>>,
           room'.participants = room.participants, room'.destroyed = room.destroyed,
           GivesBackOwn(g, t), HasOwnId(g, t),
           task[g].pc = "greet" => t.pc = "greet" /\ t.part = task[g].part,
           t.pc = "join" => /\ task[g].pc = "join"
                            /\ t.part = task[g].part /\ t.user = task[g].user
    PROVE  ListInv'
<1>1. Lists'
  BY ListsQuiet, OneGreetsOn DEF ListInv
<1>2. \A h \in Handle : IdKept(h)'
  BY IdsGo
<1>3. t.pc = "join" => g \in Handle
  BY DEF IInv, Shapes, TaskShape
<1>4. t.pc = "join" => /\ part'[t.part].user = t.user /\ ~part'[t.part].inroom
                       /\ part'[t.part].end \in {"no", "done"}
  BY <1>3 DEF ListInv, Enters
<1>5. \A h \in Handle : Enters(h)'
  BY <1>4, EntersGo
<1>. QED  BY <1>1, <1>2, <1>5 DEF ListInv

\* A join attaches a handle for a new participant.
LEMMA ListAsks ==
    ASSUME IInv, ListInv, NEW h \in Handle, NEW u \in User, NEW s, AsksToJoin(h, u, s),
           handle' = handle, task[h].pc # "greet",
           room'.participants = room.participants, room'.destroyed = room.destroyed,
           room.creating \subseteq room'.creating,
           \/ task[h].op = "join" /\ u = task[h].user
           \/ ~IdTaken(u) /\ ~room.destroyed /\ u \in room'.creating
    PROVE  ListInv'
<1>1. PICK p \in Participant :
        /\ FreePart(p)
        /\ part' = [part EXCEPT ![p] = [NoPart EXCEPT !.user = u, !.handle = h, !.server = s,
                                                      !.link = "open"]]
        /\ task' = [task EXCEPT ![h] = [NoTask EXCEPT !.pc = "join", !.op = "join",
                                                      !.user = u, !.part = p]]
  BY DEF AsksToJoin
<1>. DEFINE x == [NoPart EXCEPT !.user = u, !.handle = h, !.server = s, !.link = "open"]
            t == [NoTask EXCEPT !.pc = "join", !.op = "join", !.user = u, !.part = p]
<1>2. /\ part' = [part EXCEPT ![p] = x] /\ x.user = u /\ ~x.inroom /\ x.end = "no"
      /\ task' = [task EXCEPT ![h] = t] /\ t.pc = "join" /\ t.op = "join"
      /\ t.user = u /\ t.part = p /\ t.resp = "none"
  BY <1>1 DEF NoPart, NoTask
<1>. HIDE DEF x, t
<1>h. h \in Greenlet /\ Handle \subseteq Greenlet
  BY DEF Greenlet
<1>3. part'[p] = x /\ \A q \in Participant : q # p => part'[q] = part[q]
  BY <1>2, Types DEF IInv
<1>4. \A v \in User : room.participants[v] # p
  BY <1>1, NoneApart DEF FreePart, Listed
<1>5. Lists'
  <2>1. \A o \in Handle : handle[o].part # p
    BY <1>1 DEF FreePart
  <2>2. GreetsOn
    BY <1>2, <1>h, OneGreetsOn
  <2>. QED  BY <1>2, <1>4, <2>1, <2>2, ListsOut DEF ListInv
<1>6. \A o \in Handle : IdKept(o)'
  <2>1. GivesBackOwn(h, t) /\ HasOwnId(h, t)
    BY <1>2 DEF GivesBackOwn, HasOwnId
  <2>. QED  BY <1>2, <1>h, <2>1, IdsGo
<1>7. ASSUME NEW o \in Handle \ {h}, task[o].pc = "join"
      PROVE  part'[task[o].part] = part[task[o].part]
  <2>1. task[o].part \in Participant
    BY <1>h, <1>7 DEF IInv, Shapes, TaskShape
  <2>2. task[o].part # p
    BY <1>1, <1>h DEF FreePart
  <2>. QED  BY <1>3, <2>1, <2>2
<1>8. \A o \in Handle : Enters(o)'
  BY <1>2, <1>3, <1>7, <1>h, EntersGo
<1>. QED  BY <1>5, <1>6, <1>8 DEF ListInv

(* The end of activate_backend_room(), for the list.                        *)
LEMMA ListGoesOn ==
    ASSUME IInv, ListInv, NEW g \in Greenlet, NEW op, NEW u, NEW b, GoesOn(g, op, u, b),
           handle' = handle, task[g].pc # "greet",
           room'.participants = room.participants, room'.destroyed = room.destroyed,
           op = "join" => /\ g \in Handle /\ u \in User
                          /\ \/ task[g].op = "join" /\ u = task[g].user
                             \/ ~IdTaken(u) /\ ~room.destroyed /\ u \in room'.creating,
           \A v \in room.creating : \/ v \in room'.creating
                                    \/ /\ g \in Handle /\ task[g].op = "join"
                                       /\ v = task[g].user
                                       /\ op = "join" /\ room.bh = None
    PROVE  ListInv'
<1>1. CASE op = "join" /\ room.bh # None
  <2>1. AsksToJoin(g, u, backend[room.bh].server)
    BY <1>1 DEF GoesOn
  <2>2. room.creating \subseteq room'.creating
    BY <1>1
  <2>. QED  BY <1>1, <2>1, <2>2, ListAsks
<1>2. CASE op = "join" /\ room.bh = None
  <2>1. task' = [task EXCEPT ![g] = NoTask] /\ part' = part
    BY <1>2 DEF GoesOn, Finish
  <2>2. NoTask.op = "none" /\ NoTask.pc = "idle"
    BY DEF NoTask
  <2>3. GivesBackOwn(g, NoTask) /\ HasOwnId(g, NoTask)
    BY <2>2 DEF GivesBackOwn, HasOwnId
  <2>. QED  BY <2>1, <2>2, <2>3, ListQuiet
<1>3. CASE op # "join"
  <2>. DEFINE t == [NoTask EXCEPT !.pc = "ask", !.op = op, !.bh = b]
  <2>1. task' = [task EXCEPT ![g] = t] /\ part' = part /\ t.pc = "ask" /\ t.op = op
    BY <1>3 DEF GoesOn, NoTask
  <2>. HIDE DEF t
  <2>3. GivesBackOwn(g, t) /\ HasOwnId(g, t)
    BY <1>3, <2>1 DEF GivesBackOwn, HasOwnId
  <2>. QED  BY <2>1, <2>3, ListQuiet
<1>. QED  BY <1>1, <1>2, <1>3

LEMMA ListActivates ==
    ASSUME IInv, ListInv, NEW g \in Greenlet, NEW op, NEW u, NEW r \in RoomRec,
           task[g].pc # "greet", Activate(g, op, u, r), handle' = handle, r.bh = room.bh,
           r.participants = room.participants, r.destroyed = room.destroyed,
           room.creating \subseteq r.creating,
           op = "join" => /\ g \in Handle /\ u \in User
                          /\ ~IdTaken(u) /\ ~room.destroyed /\ u \in r.creating
    PROVE  ListInv'
<1>1. CASE r.bh # None
  BY <1>1, ListGoesOn DEF Activate
<1>2. CASE r.bh = None
  <2>1. /\ room' = r \/ room' = [r EXCEPT !.lock = g]
        /\ part' = part
        /\ \E pc \in {"lock", "attach"} :
             task' = [task EXCEPT ![g] = [NoTask EXCEPT !.pc = pc, !.op = op, !.user = u]]
    BY <1>2 DEF Activate
  <2>2. /\ room'.participants = room.participants /\ room'.destroyed = room.destroyed
        /\ room'.creating = r.creating
    BY <2>1 DEF RoomRec
  <2>3. PICK pc \in {"lock", "attach"} :
          task' = [task EXCEPT ![g] = [NoTask EXCEPT !.pc = pc, !.op = op, !.user = u]]
    BY <2>1
  <2>. DEFINE t == [NoTask EXCEPT !.pc = pc, !.op = op, !.user = u]
  <2>4. task' = [task EXCEPT ![g] = t] /\ t.pc # "join" /\ t.op = op /\ t.user = u
    BY <2>3 DEF NoTask
  <2>. HIDE DEF t
  <2>5. GivesBackOwn(g, t) /\ HasOwnId(g, t)
    BY <2>2, <2>4 DEF GivesBackOwn, HasOwnId
  <2>. QED  BY <2>1, <2>2, <2>4, <2>5, ListQuiet
<1>. QED  BY <1>1, <1>2

LEMMA ListStarts ==
    ASSUME IInv, ListInv, NEW g \in Greenlet,
           \/ RoomRequest(g)
           \/ g \in Handle /\ \E u \in User : Join(g, u)
    PROVE  ListInv'
<1>p. task[g].pc # "greet"
  BY DEF RoomRequest, Join, At
<1>r. room \in RoomRec /\ room.creating \in SUBSET User
  BY Types DEF IInv, RoomRec
<1>1. CASE RoomRequest(g)
  <2>1. Activate(g, "room", None, room) /\ handle' = handle
    BY <1>1 DEF RoomRequest, AsksRoom
  <2>. QED  BY <1>r, <1>p, <2>1, ListActivates
<1>2. ASSUME g \in Handle, NEW u \in User, Join(g, u) PROVE ListInv'
  <2>. DEFINE r == [room EXCEPT !.creating = @ \cup {u}]
  <2>1. /\ r \in RoomRec /\ r.bh = room.bh /\ r.participants = room.participants
        /\ r.destroyed = room.destroyed /\ r.creating = room.creating \cup {u}
    BY <1>r DEF RoomRec
  <2>2. /\ Activate(g, "join", u, r) /\ handle' = handle
        /\ ~IdTaken(u) /\ ~room.destroyed
    BY <1>2 DEF Join, NewParticipant
  <2>. HIDE DEF r
  <2>. QED  BY <1>2, <1>p, <2>1, <2>2, ListActivates
<1>. QED  BY <1>1, <1>2

LEMMA ListActivated ==
    ASSUME IInv, ListInv, NEW g \in Greenlet, LockGot(g) \/ Activated(g) PROVE ListInv'
<1>t. /\ room \in RoomRec /\ task[g] \in TaskRec /\ TaskShape(g, task[g])
      /\ task[g].op = "join" => g \in Handle /\ task[g].user \in User
  BY Types DEF IInv, Shapes, TaskShape
<1>p. task[g].pc # "greet"
  BY DEF Activated, LockGot, Answered, At
<1>1. CASE Activated(g)
  <2>1. GoesOn(g, task[g].op, task[g].user, task[g].bh) /\ handle' = handle
    BY <1>1 DEF Activated
  <2>. DEFINE r == [room EXCEPT !.lock = None]
  <2>2. room' = IF room.bh = None THEN NotCreating(r, task[g].op, task[g].user) ELSE r
    BY <1>1 DEF Activated
  <2>3. /\ r \in RoomRec /\ r.participants = room.participants /\ r.destroyed = room.destroyed
        /\ r.creating = room.creating
    BY <1>t DEF RoomRec
  <2>. HIDE DEF r
  <2>4. /\ room'.participants = room.participants /\ room'.destroyed = room.destroyed
        /\ room'.creating = IF room.bh = None /\ task[g].op = "join"
                            THEN room.creating \ {task[g].user} ELSE room.creating
    BY <2>2, <2>3 DEF NotCreating, RoomRec
  <2>. QED  BY <1>t, <1>p, <2>1, <2>4, ListGoesOn
<1>2. CASE LockGot(g) /\ AlreadyActive
  <2>1. /\ GoesOn(g, task[g].op, task[g].user, room.bh)
        /\ handle' = handle /\ room' = room
    BY <1>2 DEF LockGot
  <2>. QED  BY <1>t, <1>p, <2>1, ListGoesOn
<1>3. CASE LockGot(g) /\ ~AlreadyActive
  <2>. DEFINE t == [task[g] EXCEPT !.pc = "attach"]
  <2>1. task' = [task EXCEPT ![g] = t] /\ UNCHANGED <<part, handle>>
    BY <1>3, Types DEF LockGot, IInv
  <2>2. t.pc = "attach" /\ t.op = task[g].op /\ t.user = task[g].user
    BY <1>t DEF TaskRec
  <2>3. /\ room'.participants = room.participants /\ room'.destroyed = room.destroyed
        /\ room'.creating = room.creating
    BY <1>t, <1>3 DEF LockGot, RoomRec
  <2>. HIDE DEF t
  <2>4. GivesBackOwn(g, t) /\ HasOwnId(g, t)
    BY <1>t, <2>2, <2>3 DEF GivesBackOwn, HasOwnId
  <2>. QED  BY <1>p, <2>1, <2>2, <2>3, <2>4, ListQuiet
<1>. QED  BY <1>1, <1>2, <1>3

\* A greenlet that is done, with no id or with the one it gives back.
LEMMA ListFinishes ==
    ASSUME IInv, ListInv, NEW g \in Greenlet, Finish(g), UNCHANGED <<part, handle>>,
           task[g].pc # "greet",
           \/ room' = room
           \/ room' = NotCreating(GivesUp(room), task[g].op, task[g].user)
           \/ room' = NotCreating(room, task[g].op, task[g].user)
    PROVE  ListInv'
<1>t. room \in RoomRec /\ TaskShape(g, task[g])
  BY Types DEF IInv, Shapes
<1>1. NoTask.op = "none" /\ NoTask.pc = "idle" /\ task' = [task EXCEPT ![g] = NoTask]
  BY DEF NoTask, Finish
<1>2. /\ room'.participants = room.participants /\ room'.destroyed = room.destroyed
      /\ \/ room'.creating = room.creating
         \/ task[g].op = "join" /\ room'.creating = room.creating \ {task[g].user}
  BY <1>t DEF NotCreating, GivesUp, RoomRec
<1>3. GivesBackOwn(g, NoTask) /\ HasOwnId(g, NoTask)
  BY <1>t, <1>1, <1>2 DEF GivesBackOwn, HasOwnId, TaskShape
<1>. QED  BY <1>1, <1>2, <1>3, ListQuiet

\* A greenlet that waits for its answer, or that takes the next step of the activation.
LEMMA ListWaits ==
    ASSUME IInv, PartInv, ListInv, NEW g \in Greenlet,
           \/ JanusServes(g) \/ JanusRefuses(g) \/ Created(g) \/ Recreate(g)
           \/ Collect(g) \/ \E b \in Backend, s \in Server : Attached(g, b, s)
    PROVE  ListInv'
<1>t. /\ room \in RoomRec /\ task[g] \in TaskRec /\ TaskShape(g, task[g])
      /\ task \in [Greenlet -> TaskRec]
  BY Types DEF IInv, Shapes
<1>1. /\ UNCHANGED <<part, handle>>
      /\ room'.participants = room.participants /\ room'.destroyed = room.destroyed
      /\ room'.creating = room.creating
  BY <1>t DEF JanusServes, JanusRefuses, Created, Recreate, Collect, Attached, RoomRec
<1>2. ASSUME NEW t, task' = [task EXCEPT ![g] = t], t.op = task[g].op,
             t.user = task[g].user,
             {t.pc, task[g].pc} \cap {"join", "greet"} # {} =>
                t.pc = task[g].pc /\ t.part = task[g].part
      PROVE  ListInv'
  <2>1. GivesBackOwn(g, t) /\ HasOwnId(g, t)
    BY <1>t, <1>1, <1>2 DEF GivesBackOwn, HasOwnId, TaskShape
  <2>. QED  BY <1>1, <1>2, <2>1, ListQuiet
<1>3. CASE JanusServes(g)
  <2>1. PICK x : task' = [task EXCEPT ![g].resp = x]
    BY <1>3 DEF JanusServes
  <2>. DEFINE t == [task[g] EXCEPT !.resp = x]
  <2>2. /\ task' = [task EXCEPT ![g] = t] /\ t.op = task[g].op /\ t.pc = task[g].pc
        /\ t.user = task[g].user /\ t.part = task[g].part
    BY <1>t, <2>1 DEF TaskRec
  <2>. HIDE DEF t
  <2>. QED  BY <1>2, <2>2
<1>4. CASE JanusRefuses(g)
  <2>1. PICK x \in {"exists", "error"} : task' = [task EXCEPT ![g].resp = x]
    <3>. DEFINE e == At(g, "create") /\ LinkOf(g) = "open" /\ janus[ServerOf(g)].up
    <3>1. task' = [task EXCEPT ![g].resp = IF e THEN "exists" ELSE "error"]
      BY <1>4 DEF JanusRefuses
    <3>. HIDE DEF e
    <3>2. CASE e
      BY <3>1, <3>2
    <3>3. CASE ~e
      BY <3>1, <3>3
    <3>. QED  BY <3>2, <3>3
  <2>. DEFINE t == [task[g] EXCEPT !.resp = x]
  <2>2. /\ task' = [task EXCEPT ![g] = t] /\ t.op = task[g].op /\ t.pc = task[g].pc
        /\ t.user = task[g].user /\ t.part = task[g].part /\ t.resp # "ok"
    BY <1>t, <2>1 DEF TaskRec
  <2>. HIDE DEF t
  <2>. QED  BY <1>2, <2>2
<1>5. CASE Created(g) \/ Recreate(g)
  <2>1. PICK x \in {"create", "wipe", "control"} :
          task' = [task EXCEPT ![g].pc = x, ![g].resp = "none"]
    BY <1>5 DEF Created, Recreate
  <2>. DEFINE t == [task[g] EXCEPT !.pc = x, !.resp = "none"]
  <2>2. /\ task' = [task EXCEPT ![g] = t] /\ t.op = task[g].op /\ t.pc \notin {"join", "greet"}
        /\ task[g].pc \notin {"join", "greet"}
        /\ t.user = task[g].user
    BY <1>t, <1>5, <2>1 DEF TaskRec, Created, Recreate, Answered, At
  <2>. HIDE DEF t
  <2>. QED  BY <1>2, <2>2
<1>6. CASE Collect(g)
  <2>. DEFINE t == [task[g] EXCEPT !.pc = "drop"]
  <2>2. /\ task' = [task EXCEPT ![g] = t] /\ t.op = task[g].op /\ t.pc \notin {"join", "greet"}
        /\ task[g].pc \notin {"join", "greet"}
        /\ t.user = task[g].user
    BY <1>t, <1>6 DEF TaskRec, Collect, At
  <2>. HIDE DEF t
  <2>. QED  BY <1>2, <2>2
<1>7. ASSUME NEW b \in Backend, NEW s \in Server, Attached(g, b, s) PROVE ListInv'
  <2>. DEFINE t == [task[g] EXCEPT !.pc = "create", !.bh = b]
  <2>2. /\ task' = [task EXCEPT ![g] = t] /\ t.op = task[g].op /\ t.pc \notin {"join", "greet"}
        /\ task[g].pc \notin {"join", "greet"}
        /\ t.user = task[g].user
    BY <1>t, <1>7 DEF TaskRec, Attached, At
  <2>. HIDE DEF t
  <2>. QED  BY <1>2, <2>2
<1>. QED  BY <1>3, <1>4, <1>5, <1>6, <1>7

LEMMA ListAsksPart ==
    ASSUME IInv, ListInv, NEW g \in Greenlet, NEW p, task[g].pc = "idle",
           task' = [task EXCEPT ![g] = [NoTask EXCEPT !.pc = "ask", !.part = p]],
           UNCHANGED <<room, part, handle>>
    PROVE  ListInv'
<1>. DEFINE t == [NoTask EXCEPT !.pc = "ask", !.part = p]
<1>1. t.pc = "ask" /\ t.op = "none" /\ task' = [task EXCEPT ![g] = t]
  BY DEF NoTask
<1>. HIDE DEF t
<1>2. GivesBackOwn(g, t) /\ HasOwnId(g, t)
  BY <1>1 DEF GivesBackOwn, HasOwnId
<1>. QED  BY <1>1, <1>2, ListQuiet

-----------------------------------------------------------------------------
(* The join has its answer: its id is the participant's, and the handle     *)
(* gets that now or when the others have been told.                         *)
LEMMA ListJoined ==
    ASSUME IInv, PartInv, ListInv, NEW h \in Handle, Joined(h) PROVE ListInv'
<1>. PICK p : p = task[h].part
  OBVIOUS
<1>. PICK u : u = task[h].user
  OBVIOUS
<1>t. /\ room \in RoomRec /\ h \in Greenlet /\ Handle \subseteq Greenlet
      /\ room.participants \in [User -> Participant \cup {None}]
      /\ task[h].pc = "join" /\ task[h].op = "join"
      /\ p \in Participant /\ u \in User /\ part[p] \in PartRec
  BY Types DEF IInv, Shapes, TaskShape, Joined, Answered, At, Greenlet, RoomRec
<1>1. /\ part[p].handle = h /\ handle[h].part = None /\ part[p].user = u
      /\ ~part[p].inroom /\ part[p].end \in {"no", "done"} /\ room.participants[u] = None
  BY <1>t DEF PartInv, Joining, Comes, ListInv, Enters, IdKept
<1>. DEFINE y == [part[p] EXCEPT !.inroom = TRUE, !.stray = @ \/ Ended(p)]
<1>s. \/ /\ part' = [part EXCEPT ![p] = y] /\ handle' = handle
         /\ task' = [task EXCEPT ![h] = [NoTask EXCEPT !.pc = "greet", !.part = p]]
      \/ /\ part' = [part EXCEPT ![p] = Claims(h, p, y)]
         /\ handle' = [handle EXCEPT ![h].part = p] /\ task' = [task EXCEPT ![h] = NoTask]
  BY DEF Joined, Finish
<1>f. \A x \in {y, Claims(h, p, y)} :
         /\ x.inroom /\ x.user = u /\ x.handle = h /\ x.end = part[p].end
         /\ Ended(p) => x.stray
  BY <1>t, <1>1 DEF PartRec, Claims
<1>. HIDE DEF y
<1>2. /\ part'[p].inroom /\ part'[p].user = u /\ part'[p].handle = h
      /\ part'[p].end = part[p].end /\ (Ended(p) => part'[p].stray)
      /\ \A q \in Participant : q # p => part'[q] = part[q]
  BY <1>t, <1>s, <1>f, Types DEF IInv
<1>3. /\ handle'[h].part \in {p, None}
      /\ \A o \in Handle : o # h => handle'[o].part = handle[o].part
  BY <1>s, <1>1, Types DEF IInv, HandleRec
<1>4. /\ \A v \in User : room'.participants[v] = IF v = u THEN p ELSE room.participants[v]
      /\ room'.creating = room.creating \ {u} /\ room'.destroyed = room.destroyed
  BY <1>t DEF Joined, Entered, RoomRec
<1>5. /\ task'[h].pc \in {"idle", "greet"} /\ task'[h].op = "none"
      /\ \A o \in Handle : o # h => task'[o] = task[o]
      /\ handle'[h].part = p \/ (task'[h].pc = "greet" /\ task'[h].part = p)
  <2>1. /\ NoTask.pc = "idle" /\ NoTask.op = "none"
        /\ [NoTask EXCEPT !.pc = "greet", !.part = p].pc = "greet"
        /\ [NoTask EXCEPT !.pc = "greet", !.part = p].op = "none"
        /\ [NoTask EXCEPT !.pc = "greet", !.part = p].part = p
    BY DEF NoTask
  <2>2. [handle EXCEPT ![h].part = p][h].part = p
    BY Types DEF IInv, HandleRec
  <2>. QED  BY <1>t, <1>s, <2>1, <2>2, Types DEF IInv
<1>g. GreetsOn
  BY <1>t, <1>5 DEF GreetsOn
<1>6. ASSUME NEW v \in User PROVE Entry(v)'
  <2>1. CASE v = u
    <3>1. room'.participants[v] = p /\ Ended(p)' = Ended(p)
      BY <1>2, <1>4, <2>1 DEF Ended
    <3>2. handle'[h].part = p \/ Greeting(p)'
      BY <1>5 DEF Greeting
    <3>3. part'[p].end \notin {"leaving", "stuck"}
      BY <1>1, <1>2
    <3>. QED  BY <1>2, <2>1, <3>1, <3>2, <3>3 DEF Entry
  <2>2. CASE v # u
    <3>. SUFFICES ASSUME NEW q \in Participant, q = room.participants[v], q # None PROVE Entry(v)'
      BY <1>t, <1>4, <2>2 DEF Entry
    <3>1. Entry(v) /\ q # p /\ room'.participants[v] = q
      BY <1>1, <1>t, <1>4, <2>2, Outside DEF ListInv, Lists
    <3>2. part'[q] = part[q] /\ (Ended(q)' <=> Ended(q)) /\ (Greeting(q) => Greeting(q)')
      BY <1>2, <1>g, <3>1, GreetingStays DEF Ended
    <3>3. ASSUME part[q].handle \in Handle, handle[part[q].handle].part = q
          PROVE  handle'[part[q].handle].part = q
      BY <1>1, <1>3, <3>3
    <3>. QED  BY <3>1, <3>2, <3>3 DEF Entry
  <2>. QED  BY <2>1, <2>2
<1>7. ASSUME NEW q \in Participant PROVE Member(q)'
  <2>1. CASE q = p
    BY <1>t, <1>2, <1>4, <2>1 DEF Member
  <2>2. CASE q # p /\ part[q].inroom
    <3>1. Member(q) /\ part'[q] = part[q]
      BY <1>2, <2>2 DEF ListInv, Lists
    <3>2. ASSUME room.participants[part[q].user] = q PROVE part[q].user # u
      BY <1>1, <3>2, NoneApart
    <3>. QED  BY <1>4, <2>2, <3>1, <3>2 DEF Member
  <2>3. CASE q # p /\ ~part[q].inroom
    BY <1>2, <2>3 DEF Member
  <2>. QED  BY <2>1, <2>2, <2>3
<1>8. ASSUME NEW o \in Handle PROVE Held(o)'
  <2>1. CASE o = h
    BY <1>2, <1>3, <2>1 DEF Held
  <2>2. CASE o # h
    <3>. SUFFICES ASSUME NEW q \in Participant, q = handle[o].part, q # None
         PROVE  part'[q].handle = o
      BY <1>3, <2>2, Types DEF IInv, Held
    <3>1. part[q].handle = o
      BY DEF ListInv, Lists, Held
    <3>2. q # p
      BY <1>1, <2>2, <3>1
    <3>. QED  BY <1>2, <3>1, <3>2
  <2>. QED  BY <2>1, <2>2
<1>9. ASSUME NEW o \in Handle PROVE IdKept(o)' /\ Enters(o)'
  <2>1. CASE o = h
    BY <1>5, <2>1 DEF IdKept, Enters
  <2>2. CASE o # h
    <3>1. task'[o] = task[o] /\ IdKept(o) /\ Enters(o) /\ Joining(o)
      BY <1>5, <2>2 DEF ListInv, PartInv
    <3>2. task[o].op = "join" => task[o].user # u /\ task[o].user \in User
      BY <1>t, <2>2, <3>1 DEF IdKept, IInv, Shapes, TaskShape
    <3>3. IdKept(o)'
      <4>1. ASSUME NEW g \in Handle \ {o}, task[o].op = "join", task'[g].op = "join"
            PROVE  task'[g].user # task[o].user
        <5>1. g # h
          BY <1>5, <4>1
        <5>. QED  BY <1>5, <3>1, <4>1, <5>1 DEF IdKept
      <4>. QED  BY <1>4, <3>1, <3>2, <4>1 DEF IdKept
    <3>4. Enters(o)'
      <4>1. task[o].pc = "join" => task[o].part \in Participant /\ task[o].part # p
        BY <1>t, <1>1, <2>2, <3>1 DEF IInv, Shapes, TaskShape, Joining, Comes
      <4>. QED  BY <1>2, <3>1, <4>1 DEF Enters
    <3>. QED  BY <3>3, <3>4
  <2>. QED  BY <2>1, <2>2
<1>. QED  BY <1>6, <1>7, <1>8, <1>9 DEF ListInv, Lists

(* Greeted and GreetStalls: the others have been told, or it is a stray.    *)
LEMMA ListGreeted ==
    ASSUME IInv, PartInv, ListInv, NEW h \in Handle, Greeted(h) \/ GreetStalls(h) PROVE ListInv'
<1>. PICK p : p = task[h].part
  OBVIOUS
<1>t. /\ h \in Greenlet /\ Handle \subseteq Greenlet /\ task[h].pc = "greet"
      /\ task[h].op # "join" /\ p \in Participant /\ part[p] \in PartRec
      /\ part[p].handle = h /\ handle[h].part = None
  BY Types DEF IInv, Shapes, TaskShape, Greeted, GreetStalls, At, Greenlet, PartInv, Joining, Comes
<1>1. /\ part'[p].user = part[p].user /\ part'[p].handle = h /\ part'[p].end = part[p].end
      /\ part'[p].inroom = part[p].inroom /\ (part[p].stray => part'[p].stray)
      /\ \A q \in Participant : q # p => part'[q] = part[q]
  <2>1. PICK x \in {Claims(h, p, part[p]), [part[p] EXCEPT !.stray = TRUE]} :
          part' = [part EXCEPT ![p] = x]
    BY DEF Greeted, GreetStalls
  <2>2. /\ x.user = part[p].user /\ x.handle = h /\ x.end = part[p].end
        /\ x.inroom = part[p].inroom /\ (part[p].stray => x.stray)
    BY <1>t, <2>1 DEF Claims, PartRec
  <2>. QED  BY <1>t, <2>1, <2>2, Types DEF IInv
<1>2. /\ \A o \in Handle : o # h => handle'[o].part = handle[o].part
      /\ (part'[p].stray /\ handle'[h].part = None) \/ handle'[h].part = p
  <2>1. CASE Greeted(h)
    BY <2>1, Types DEF IInv, Greeted, HandleRec
  <2>2. CASE GreetStalls(h)
    <3>1. [part[p] EXCEPT !.stray = TRUE].stray
      BY <1>t DEF PartRec
    <3>. QED  BY <1>t, <2>2, <3>1, Types DEF IInv, GreetStalls
  <2>. QED  BY <2>1, <2>2
<1>3. /\ task'[h].op = "none" /\ task'[h].pc \in {"idle", "dead"} /\ room' = room
      /\ \A o \in Handle : o # h => task'[o] = task[o]
  <2>1. /\ NoTask.pc = "idle" /\ NoTask.op = "none"
        /\ [NoTask EXCEPT !.pc = "dead"].pc = "dead" /\ [NoTask EXCEPT !.pc = "dead"].op = "none"
    BY DEF NoTask
  <2>. QED  BY <1>t, <2>1, Types DEF IInv, Greeted, GreetStalls, Finish
<1>4. ASSUME NEW v \in User PROVE Entry(v)'
  <2>. SUFFICES ASSUME NEW q \in Participant, q = room.participants[v], q # None PROVE Entry(v)'
    BY <1>3, Types DEF IInv, Entry
  <2>1. Entry(v) /\ (Ended(q)' <=> Ended(q))
    BY <1>1 DEF ListInv, Lists, Ended
  <2>2. CASE q = p
    BY <1>1, <1>2, <1>3, <1>t, <2>1, <2>2 DEF Entry
  <2>3. CASE q # p
    <3>1. part'[q] = part[q] /\ (Greeting(q) => Greeting(q)')
      BY <1>1, <1>3, <2>3 DEF Greeting
    <3>2. ASSUME part[q].handle \in Handle, handle[part[q].handle].part = q
          PROVE  handle'[part[q].handle].part = q
      BY <1>2, <1>t, <3>2
    <3>. QED  BY <1>3, <2>1, <3>1, <3>2 DEF Entry
  <2>. QED  BY <2>2, <2>3
<1>5. ASSUME NEW q \in Participant PROVE Member(q)'
  BY <1>1, <1>3 DEF ListInv, Lists, Member
<1>6. ASSUME NEW o \in Handle PROVE Held(o)'
  <2>1. part'[p].handle = h /\ \A q \in Participant : part'[q].handle = part[q].handle
    BY <1>1, <1>t
  <2>2. handle[o].part \in Participant \cup {None} /\ Held(o)
    BY Types DEF IInv, ListInv, Lists
  <2>. QED  BY <1>2, <2>1, <2>2 DEF Held
<1>7. ASSUME NEW o \in Handle PROVE IdKept(o)'
  <2>1. \A g \in Handle : task'[g].op = "join" => task'[g] = task[g]
    BY <1>3
  <2>. QED  BY <1>3, <2>1 DEF ListInv, IdKept
<1>8. ASSUME NEW o \in Handle PROVE Enters(o)'
  <2>1. task[o].pc = "join" => task[o].part \in Participant
    BY <1>t DEF IInv, Shapes, TaskShape
  <2>. QED  BY <1>1, <1>3, <2>1 DEF ListInv, Enters
<1>. QED  BY <1>4, <1>5, <1>6, <1>7, <1>8 DEF ListInv, Lists

LEMMA ListJoinFails ==
    ASSUME IInv, PartInv, ListInv, NEW h \in Handle, JoinFails(h) PROVE ListInv'
<1>. PICK p : p = task[h].part
  OBVIOUS
<1>t. /\ room \in RoomRec /\ h \in Greenlet /\ Handle \subseteq Greenlet
      /\ task[h].pc = "join" /\ task[h].op = "join" /\ p \in Participant
      /\ part[p] \in PartRec
  BY Types DEF IInv, Shapes, TaskShape, JoinFails, Answered, At, Greenlet
<1>1. /\ task' = [task EXCEPT ![h] = NoTask] /\ handle' = handle
      /\ NoTask.op = "none" /\ NoTask.pc = "idle"
      /\ part' = [part EXCEPT ![p] = FailedPart(part[p])]
      /\ room' = NotCreating(room, task[h].op, task[h].user)
  BY DEF JoinFails, Finish, NoTask
<1>2. /\ room'.participants = room.participants /\ room'.destroyed = room.destroyed
      /\ room'.creating = room.creating \ {task[h].user}
  BY <1>t, <1>1 DEF NotCreating, RoomRec
<1>. PICK x : x = FailedPart(part[p])
  OBVIOUS
<1>3. x.handle = part[p].handle /\ x.inroom = part[p].inroom /\ ~part[p].inroom
  BY <1>t DEF FailedPart, PartRec, ListInv, Enters
<1>4. Lists'
  <2>1. GreetsOn
    BY <1>t, <1>1, OneGreetsOn
  <2>2. \A u \in User : room.participants[u] # p
    BY <1>t, <1>3, Outside DEF ListInv
  <2>. QED  BY <1>t, <1>1, <1>2, <1>3, <2>1, <2>2, ListsOut DEF ListInv
<1>5. \A o \in Handle : IdKept(o)'
  <2>1. GivesBackOwn(h, NoTask) /\ HasOwnId(h, NoTask)
    BY <1>t, <1>1, <1>2 DEF GivesBackOwn, HasOwnId
  <2>. QED  BY <1>t, <1>1, <1>2, <2>1, IdsGo
<1>6. ASSUME NEW o \in Handle \ {h}, task[o].pc = "join"
      PROVE  part'[task[o].part] = part[task[o].part]
  <2>1. task[o].part \in Participant /\ part[task[o].part].handle = o /\ part[p].handle = h
    BY <1>t, <1>6 DEF IInv, Shapes, TaskShape, PartInv, Joining, Comes
  <2>. QED  BY <1>1, <2>1, Types DEF IInv
<1>7. \A o \in Handle : Enters(o)'
  BY <1>t, <1>1, <1>6, EntersGo
<1>. QED  BY <1>4, <1>5, <1>7 DEF ListInv

-----------------------------------------------------------------------------
(* What happens to a participant that does not join: it stays in the list   *)
(* or out of it, or it leaves.                                              *)
Stays(q) ==
    /\ part'[q].inroom = part[q].inroom /\ (part[q].stray => part'[q].stray)
    /\ \/ part'[q].end = part[q].end
       \/ /\ {part[q].end, part'[q].end} \subseteq {"no", "asked"}
          /\ part'[q].end = "asked" => part[q].inroom
    /\ Ended(q) \/ \A h \in Handle : handle[h].part = q => handle'[h].part = q
    /\ room'.destroyed \/ \A u \in User : room.participants[u] = q => room'.participants[u] = q

Goes(q) ==
    /\ \A u \in User : room'.participants[u] # q
    /\ part'[q].inroom => part'[q].end \in {"leaving", "stuck"} \/ room'.destroyed
    /\ \/ part'[q].end \in {part[q].end, "done"}
       \/ part'[q].end = "leaving" /\ part[q].inroom
       \/ part[q].end = "leaving"

LEMMA ListEnds ==
    ASSUME IInv, ListInv,
           \A h \in Handle : task'[h] = task[h] /\ handle'[h].part \in {handle[h].part, None},
           \A u \in User : room'.participants[u] \in {room.participants[u], None},
           room.destroyed => room'.destroyed,
           ~room'.destroyed => room'.creating = room.creating,
           \A q \in Participant : /\ part'[q].user = part[q].user
                                  /\ part'[q].handle = part[q].handle
                                  /\ part'[q].inroom => part[q].inroom
                                  /\ Stays(q) \/ Goes(q)
    PROVE  ListInv'
<1>1. ASSUME NEW u \in User PROVE Entry(u)'
  <2>. SUFFICES ASSUME NEW q \in Participant, q = room.participants[u],
                       room'.participants[u] = q, q # None
       PROVE  Entry(u)'
    BY Types DEF IInv, Entry
  <2>1. Stays(q) /\ Entry(u)
    BY DEF Goes, ListInv, Lists
  <2>2. Greeting(q) => Greeting(q)'
    BY DEF Greeting
  <2>3. Ended(q)' => Ended(q)
    BY <2>1 DEF Stays, Ended
  <2>4. ASSUME ~Ended(q), part[q].handle \in Handle, handle[part[q].handle].part = q
        PROVE  handle'[part[q].handle].part = q
    BY <2>1, <2>4 DEF Stays
  <2>5. part'[q].inroom /\ part'[q].end \notin {"leaving", "stuck"}
    BY <2>1 DEF Stays, Entry
  <2>6. part[q].stray => part'[q].stray
    BY <2>1 DEF Stays
  <2>. QED  BY <2>1, <2>2, <2>3, <2>4, <2>5, <2>6 DEF Entry
<1>2. ASSUME NEW q \in Participant PROVE Member(q)'
  <2>. SUFFICES ASSUME part'[q].inroom, ~room'.destroyed PROVE Member(q)'
    BY DEF ListInv, Lists, Member
  <2>1. Member(q) /\ part[q].inroom /\ ~room.destroyed
    BY DEF ListInv, Lists
  <2>2. CASE Stays(q)
    BY <2>1, <2>2 DEF Stays, Member
  <2>3. CASE Goes(q)
    BY <2>1, <2>3 DEF Goes, Member
  <2>. QED  BY <2>2, <2>3
<1>3. ASSUME NEW h \in Handle PROVE Held(h)'
  BY Types DEF IInv, ListInv, Lists, Held
<1>4. ASSUME NEW h \in Handle PROVE IdKept(h)'
  <2>1. IdKept(h) /\ (task[h].op = "join" => task[h].user \in User)
    BY DEF ListInv, IInv, Shapes, TaskShape, Greenlet
  <2>. QED  BY <2>1 DEF IdKept
<1>5. ASSUME NEW h \in Handle PROVE Enters(h)'
  <2>. SUFFICES ASSUME task[h].pc = "join" PROVE Enters(h)'
    BY DEF Enters
  <2>. PICK q \in Participant : q = task[h].part
    BY DEF IInv, Shapes, TaskShape, Greenlet
  <2>1. part[q].user = task[h].user /\ ~part[q].inroom /\ part[q].end \in {"no", "done"}
    BY DEF ListInv, Enters
  <2>2. part'[q].end \in {"no", "done"}
    BY <2>1 DEF Stays, Goes
  <2>. QED  BY <2>1, <2>2 DEF Enters
<1>. QED  BY <1>1, <1>2, <1>3, <1>4, <1>5 DEF ListInv, Lists

\* Only the participant p changes.
LEMMA ListOneEnds ==
    ASSUME IInv, ListInv, task' = task, NEW p \in Participant, NEW x,
           \A h \in Handle : \/ handle'[h].part = handle[h].part
                             \/ handle[h].part = p /\ handle'[h].part = None,
           \A u \in User : \/ room'.participants[u] = room.participants[u]
                           \/ /\ room'.participants[u] = None
                              /\ room.participants[u] = p \/ room.destroyed,
           room'.destroyed = room.destroyed, room'.creating = room.creating,
           part' = [part EXCEPT ![p] = x],
           x.user = part[p].user, x.handle = part[p].handle, x.inroom => part[p].inroom,
           Stays(p) \/ Goes(p)
    PROVE  ListInv'
<1>1. part'[p] = x /\ \A q \in Participant : q # p => part'[q] = part[q]
  BY DEF IInv, TypeOK
<1>2. ASSUME NEW q \in Participant, q # p PROVE Stays(q)
  <2>1. part'[q] = part[q]
    BY <1>1, <1>2
  <2>2. \A h \in Handle : handle[h].part = q => handle'[h].part = q
    BY <1>2
  <2>3. room'.destroyed \/ \A u \in User : room.participants[u] = q => room'.participants[u] = q
    BY <1>2
  <2>. QED  BY <2>1, <2>2, <2>3 DEF Stays
<1>3. \A q \in Participant : /\ part'[q].user = part[q].user
                             /\ part'[q].handle = part[q].handle
                             /\ part'[q].inroom => part[q].inroom
                             /\ Stays(q) \/ Goes(q)
  BY <1>1, <1>2
<1>. QED  BY <1>3, ListEnds

LEMMA ForgottenFields ==
    ASSUME IInv, ListInv, NEW p \in Participant, ~Ended(p), room' = Forgotten(room, part[p])
    PROVE  /\ \A u \in User : /\ \/ room'.participants[u] = room.participants[u]
                                 \/ /\ room'.participants[u] = None
                                    /\ room.participants[u] = p \/ room.destroyed
                              /\ room'.participants[u] # p
           /\ room'.destroyed = room.destroyed /\ room'.creating = room.creating
<1>. PICK v : v = part[p].user
  OBVIOUS
<1>r. room \in RoomRec /\ room.participants \in [User -> Participant \cup {None}]
  BY Types DEF IInv, RoomRec
<1>1. CASE part[p].inroom
  <2>1. room' = [room EXCEPT !.participants[v] = None]
    BY <1>1 DEF Forgotten
  <2>2. /\ \A u \in User : room'.participants[u] = IF u = v THEN None ELSE room.participants[u]
        /\ room'.destroyed = room.destroyed /\ room'.creating = room.creating
    BY <1>r, <2>1 DEF RoomRec
  <2>3. room.participants[v] = p \/ room.destroyed
    BY <1>1 DEF ListInv, Lists, Member, Ended
  <2>4. \A u \in User : room.participants[u] = p => u = v
    BY NoneApart DEF ListInv, Lists, Entry
  <2>. QED  BY <2>2, <2>3, <2>4, NoneApart
<1>2. CASE ~part[p].inroom
  BY <1>2, Outside DEF Forgotten, ListInv
<1>. QED  BY <1>1, <1>2

LEMMA ListEndPart ==
    ASSUME IInv, ListInv, NEW p \in Participant, ~Ended(p), NEW hs \in [Handle -> HandleRec],
           \A h \in Handle : \/ hs[h] = handle[h]
                             \/ handle[h].part = p /\ hs[h].part = None,
           EndPart(p, hs), task' = task
    PROVE  ListInv'
<1>1. /\ \A h \in Handle : hs[h] \in HandleRec
      /\ part[p] \in PartRec /\ part \in [Participant -> PartRec]
  BY Types DEF IInv
<1>. PICK x : x = [part[p] EXCEPT !.end = "leaving"]
  OBVIOUS
<1>. PICK y : y = EndedPart(part[p])
  OBVIOUS
<1>2. /\ x.user = part[p].user /\ x.handle = part[p].handle /\ x.inroom = part[p].inroom
      /\ x.end = "leaving"
      /\ y.user = part[p].user /\ y.handle = part[p].handle /\ ~y.inroom /\ y.end = "done"
  BY <1>1, EndedFields DEF PartRec
<1>3. room' = Forgotten(room, part[p])
  BY DEF EndPart
<1>4. CASE part' = [part EXCEPT ![p] = x] /\ handle' = hs /\ part[p].inroom
  <2>1. Goes(p)
    BY <1>1, <1>2, <1>3, <1>4, ForgottenFields DEF Goes
  <2>2. \A h \in Handle : \/ handle'[h].part = handle[h].part
                          \/ handle[h].part = p /\ handle'[h].part = None
    BY <1>4
  <2>3. /\ \A u \in User : \/ room'.participants[u] = room.participants[u]
                           \/ /\ room'.participants[u] = None
                              /\ room.participants[u] = p \/ room.destroyed
        /\ room'.destroyed = room.destroyed /\ room'.creating = room.creating
    BY <1>3, ForgottenFields
  <2>. QED  BY <1>2, <1>4, <2>1, <2>2, <2>3, ListOneEnds
<1>5. CASE part' = [part EXCEPT ![p] = y] /\ handle' \in {Released(hs, p), hs}
  <2>1. Goes(p)
    BY <1>1, <1>2, <1>3, <1>5, ForgottenFields DEF Goes
  <2>2. \A h \in Handle : \/ handle'[h].part = handle[h].part
                          \/ handle[h].part = p /\ handle'[h].part = None
    BY <1>1, <1>5, ReleasedFields
  <2>. QED  BY <1>2, <1>3, <1>5, <2>1, <2>2, ForgottenFields, ListOneEnds
<1>. QED  BY <1>4, <1>5 DEF EndPart, LetGo, Tells

\* The participants stay as they are, and so does the room but its control handle.
LEMMA ListSame ==
    ASSUME IInv, ListInv, UNCHANGED part,
           \A h \in Handle : /\ task'[h] = task[h]
                             /\ \/ handle'[h].part = handle[h].part
                                \/ /\ handle'[h].part = None
                                   /\ handle[h].part = None \/ Ended(handle[h].part),
           room'.participants = room.participants, room'.destroyed = room.destroyed,
           room'.creating = room.creating
    PROVE  ListInv'
<1>1. \A q \in Participant : Stays(q)
  BY DEF Stays
<1>. QED  BY <1>1, ListEnds

LEMMA ListDetaches ==
    ASSUME IInv, ListInv, NEW h \in Handle,
           Leave(h) \/ Detach(h) \/ DetachGoesOn(h) \/ DetachStalls(h) \/ ToldHangup(h)
    PROVE  ListInv'
<1>. PICK p : p = handle[h].part
  OBVIOUS
<1>i. /\ handle \in [Handle -> HandleRec] /\ \A o \in Handle : handle[o] \in HandleRec
      /\ p \in Participant \cup {None}
  BY Types DEF IInv
<1>1. CASE Leave(h)
  <2>1. p \in Participant /\ ~Ended(p) /\ EndPart(p, handle) /\ task' = task
    BY <1>i, <1>1 DEF Leave, HasPart
  <2>. QED  BY <1>i, <2>1, ListEndPart
<1>2. CASE Detach(h)
  <2>1. \A o \in Handle : handle'[o].part = handle[o].part
    BY <1>i, <1>2 DEF Detach, HandleRec
  <2>. QED  BY <1>2, <2>1, ListSame DEF Detach
<1>3. CASE DetachGoesOn(h)
  <2>. PICK hs : hs = [handle EXCEPT ![h] = [gone |-> "yes", part |-> None]]
    OBVIOUS
  <2>1. /\ hs \in [Handle -> HandleRec] /\ hs[h].part = None
        /\ \A o \in Handle : o # h => hs[o] = handle[o]
    BY <1>i DEF HandleRec
  <2>2. CASE HasPart(h) /\ EndPart(p, hs)
    <3>1. p \in Participant /\ ~Ended(p) /\ task' = task
      BY <1>i, <1>3, <2>2 DEF HasPart, DetachGoesOn
    <3>. QED  BY <2>1, <2>2, <3>1, ListEndPart
  <2>3. CASE ~HasPart(h) /\ handle' = hs /\ UNCHANGED <<part, task, room>>
    <3>1. \A o \in Handle : \/ handle'[o].part = handle[o].part
                            \/ /\ handle'[o].part = None
                               /\ handle[o].part = None \/ Ended(handle[o].part)
      BY <2>1, <2>3 DEF HasPart
    <3>. QED  BY <2>3, <3>1, ListSame
  <2>. QED  BY <1>3, <2>2, <2>3 DEF DetachGoesOn
<1>4. CASE DetachStalls(h)
  <2>1. \A q \in Participant : /\ part'[q].user = part[q].user
                               /\ part'[q].handle = part[q].handle
                               /\ part'[q].inroom = part[q].inroom
                               /\ part'[q].end = part[q].end
                               /\ part'[q].stray = (part[q].stray \/ q = p)
    BY <1>4, Types DEF IInv, DetachStalls, PartRec
  <2>2. \A o \in Handle : handle'[o].part = handle[o].part
    BY <1>i, <1>4 DEF DetachStalls, HandleRec
  <2>3. \A q \in Participant : part[q].stray \in BOOLEAN
    BY Types DEF IInv, PartRec
  <2>4. \A q \in Participant : Stays(q)
    BY <1>4, <2>1, <2>2, <2>3 DEF Stays, DetachStalls
  <2>. QED  BY <1>4, <2>1, <2>2, <2>4, ListEnds DEF DetachStalls
<1>5. CASE ToldHangup(h)
  <2>1. handle' = Released(handle, p) /\ Ended(p) /\ UNCHANGED <<part, task, room>>
    BY <1>5 DEF ToldHangup, Ended
  <2>2. \A o \in Handle : \/ handle'[o].part = handle[o].part
                          \/ handle'[o].part = None /\ Ended(handle[o].part)
    BY <1>i, <2>1, ReleasedFields
  <2>. QED  BY <2>1, <2>2, ListSame
<1>. QED  BY <1>1, <1>2, <1>3, <1>4, <1>5

LEMMA ListKicked ==
    ASSUME IInv, ListInv, NEW u \in User, Kick(u) PROVE ListInv'
<1>. PICK p \in Participant : p = room.participants[u]
  BY Types DEF IInv, Kick
<1>1. part[p].inroom /\ part[p].end = "no" /\ part[p] \in PartRec
  BY Types, NoneApart DEF IInv, Kick, ListInv, Lists, Entry
<1>. PICK x : x = [part[p] EXCEPT !.end = "asked"]
  OBVIOUS
<1>2. /\ part' = [part EXCEPT ![p] = x] /\ UNCHANGED <<room, handle, task>>
      /\ x.user = part[p].user /\ x.handle = part[p].handle /\ x.inroom = part[p].inroom
      /\ x.stray = part[p].stray /\ x.end = "asked"
  BY <1>1 DEF Kick, PartRec
<1>3. Stays(p)
  BY <1>1, <1>2, Types DEF IInv, Stays
<1>. QED  BY <1>2, <1>3, ListOneEnds

LEMMA ListGoesOnEnding ==
    ASSUME IInv, ListInv, NEW p \in Participant,
           Asked(p) \/ AskedStalls(p) \/ HangUp(p) \/ PartToldOthers(p) \/ PartStalls(p)
    PROVE  ListInv'
<1>i. /\ handle \in [Handle -> HandleRec] /\ part[p] \in PartRec
      /\ part \in [Participant -> PartRec] /\ \A h \in Handle : handle[h] \in HandleRec
  BY Types DEF IInv
<1>1. CASE Asked(p) \/ HangUp(p)
  <2>1. EndPart(p, handle) /\ ~Ended(p) /\ task' = task
    BY <1>1 DEF Asked, HangUp, Ended
  <2>. QED  BY <1>i, <2>1, ListEndPart
<1>2. CASE AskedStalls(p)
  <2>. PICK x : x = [part[p] EXCEPT !.end = "no"]
    OBVIOUS
  <2>1. /\ part' = [part EXCEPT ![p] = x] /\ UNCHANGED <<room, handle, task>>
        /\ x.user = part[p].user /\ x.handle = part[p].handle /\ x.inroom = part[p].inroom
        /\ x.stray = part[p].stray /\ x.end = "no" /\ part[p].end = "asked"
    BY <1>i, <1>2 DEF AskedStalls, PartRec
  <2>2. Stays(p)
    BY <1>i, <2>1 DEF Stays
  <2>. QED  BY <2>1, <2>2, ListOneEnds
<1>o. ASSUME part[p].end = "leaving" PROVE \A u \in User : room.participants[u] # p
  BY <1>o, NoneApart DEF ListInv, Lists, Entry
<1>3. CASE PartToldOthers(p)
  <2>. PICK y : y = EndedPart(part[p])
    OBVIOUS
  <2>1. /\ part' = [part EXCEPT ![p] = y] /\ UNCHANGED <<room, task>>
        /\ y.user = part[p].user /\ y.handle = part[p].handle /\ ~y.inroom /\ y.end = "done"
        /\ part[p].end = "leaving" /\ handle' \in {Released(handle, p), handle}
    BY <1>3, EndedFields DEF PartToldOthers, LetGo
  <2>2. Goes(p)
    BY <1>i, <1>o, <2>1 DEF Goes
  <2>3. \A h \in Handle : \/ handle'[h].part = handle[h].part
                          \/ handle[h].part = p /\ handle'[h].part = None
    BY <1>i, <2>1, ReleasedFields
  <2>. QED  BY <2>1, <2>2, <2>3, ListOneEnds
<1>4. CASE PartStalls(p)
  <2>. PICK x : x = [part[p] EXCEPT !.end = "stuck", !.stray = TRUE]
    OBVIOUS
  <2>1. /\ part' = [part EXCEPT ![p] = x] /\ UNCHANGED <<room, handle, task>>
        /\ x.user = part[p].user /\ x.handle = part[p].handle /\ x.inroom = part[p].inroom
        /\ x.end = "stuck" /\ part[p].end = "leaving"
    BY <1>i, <1>4 DEF PartStalls, PartRec
  <2>2. Goes(p)
    BY <1>i, <1>o, <2>1 DEF Goes
  <2>. QED  BY <2>1, <2>2, ListOneEnds
<1>. QED  BY <1>1, <1>2, <1>3, <1>4

LEMMA ListClosed ==
    ASSUME IInv, ListInv, NEW p \in Participant, PartClosed(p) PROVE ListInv'
<1>i. /\ part[p] \in PartRec /\ part \in [Participant -> PartRec]
      /\ \A h \in Handle : handle[h] \in HandleRec
  BY Types DEF IInv
<1>. PICK a : a = [part[p] EXCEPT !.link = "closed"]
  OBVIOUS
<1>. PICK b : b = [[part[p] EXCEPT !.end = "asked"] EXCEPT !.link = "closed"]
  OBVIOUS
<1>. PICK c : c = [EndedPart(part[p]) EXCEPT !.link = "closed"]
  OBVIOUS
<1>1. \/ Ended(p) /\ part' = [part EXCEPT ![p] = a] /\ handle' = handle
      \/ ~Ended(p) /\ part[p].inroom /\ part' = [part EXCEPT ![p] = b] /\ handle' = handle
      \/ /\ ~Ended(p) /\ ~part[p].inroom /\ part' = [part EXCEPT ![p] = c]
         /\ handle' \in {Released(handle, p), handle}
  BY DEF PartClosed
<1>2. UNCHANGED <<room, task>>
  BY DEF PartClosed
<1>3. /\ \A x \in {a, b} : /\ x.user = part[p].user /\ x.handle = part[p].handle
                           /\ x.inroom = part[p].inroom /\ x.stray = part[p].stray
      /\ a.end = part[p].end /\ b.end = "asked"
      /\ c.user = part[p].user /\ c.handle = part[p].handle /\ ~c.inroom /\ c.end = "done"
  BY <1>i, EndedFields DEF PartRec
<1>4. CASE part' = [part EXCEPT ![p] = a] /\ handle' = handle
  <2>1. Stays(p)
    BY <1>i, <1>2, <1>3, <1>4 DEF Stays
  <2>. QED  BY <1>2, <1>3, <1>4, <2>1, ListOneEnds
<1>5. CASE ~Ended(p) /\ part[p].inroom /\ part' = [part EXCEPT ![p] = b] /\ handle' = handle
  <2>1. part[p].end \in {"no", "asked"}
    BY <1>i, <1>5 DEF Ended, PartRec
  <2>2. Stays(p)
    BY <1>i, <1>2, <1>3, <1>5, <2>1 DEF Stays
  <2>. QED  BY <1>2, <1>3, <1>5, <2>2, ListOneEnds
<1>6. CASE /\ ~part[p].inroom /\ part' = [part EXCEPT ![p] = c]
           /\ handle' \in {Released(handle, p), handle}
  <2>1. Goes(p)
    BY <1>i, <1>2, <1>3, <1>6, Outside DEF Goes, ListInv
  <2>2. \A h \in Handle : \/ handle'[h].part = handle[h].part
                          \/ handle[h].part = p /\ handle'[h].part = None
    BY <1>i, <1>6, ReleasedFields
  <2>. QED  BY <1>2, <1>3, <1>6, <2>1, <2>2, ListOneEnds
<1>. QED  BY <1>1, <1>4, <1>5, <1>6

LEMMA ListRoomEnds ==
    ASSUME IInv, ListInv, NEW c \in Control, EndRoom(c) \/ RoomTold(c) \/ RoomStalls(c)
    PROVE  ListInv'
<1>i. room \in RoomRec /\ \A p \in Participant : part[p] \in PartRec
  BY Types DEF IInv
<1>1. PICK t : task' = [task EXCEPT ![c] = t]
  BY DEF EndRoom, RoomTold, RoomStalls, EndsFor, Finish
<1>2. handle' = handle /\ \A h \in Handle : task'[h] = task[h]
  BY <1>1, AudioBridgeAssumption DEF IInv, TypeOK, Greenlet, EndRoom, RoomTold, RoomStalls
<1>3. CASE EndRoom(c)
  <2>1. part' = part \/ \E p \in Participant : part' = [part EXCEPT ![p].inroom = FALSE]
    BY <1>3, Types DEF IInv, EndRoom, EndsFor, Listed
  <2>2. \A p \in Participant : /\ part'[p].user = part[p].user
                               /\ part'[p].handle = part[p].handle /\ part'[p].end = part[p].end
                               /\ part'[p].inroom => part[p].inroom
    BY <1>i, <2>1, Types DEF IInv, PartRec
  <2>3. room'.destroyed /\ \A u \in User : room'.participants[u] = None
    <3>. PICK r : r = Emptied(room)
      OBVIOUS
    <3>1. r \in RoomRec /\ r.destroyed /\ \A u \in User : r.participants[u] = None
      BY <1>i, EmptiedType
    <3>2. room' = r \/ room' = [r EXCEPT !.bh = None]
      BY <1>3 DEF EndRoom, EndsFor
    <3>. QED  BY <3>1, <3>2 DEF RoomRec
  <2>4. ASSUME NEW p \in Participant PROVE Goes(p)
    <3>1. \A u \in User : room'.participants[u] # p
      BY <2>3, NoneApart
    <3>2. part'[p].end = part[p].end /\ room'.destroyed
      BY <2>2, <2>3
    <3>3. part'[p].end \in {part[p].end, "done"}
      BY <3>2
    <3>. QED  BY <3>1, <3>2, <3>3 DEF Goes
  <2>5. /\ \A h \in Handle : /\ task'[h] = task[h]
                             /\ handle'[h].part \in {handle[h].part, None}
        /\ \A u \in User : room'.participants[u] \in {room.participants[u], None}
    BY <1>2, <2>3
  <2>6. \A q \in Participant : /\ part'[q].user = part[q].user
                               /\ part'[q].handle = part[q].handle
                               /\ part'[q].inroom => part[q].inroom
                               /\ Stays(q) \/ Goes(q)
    BY <2>2, <2>4
  <2>. QED  BY <2>3, <2>5, <2>6, ListEnds
<1>4. CASE RoomTold(c) \/ RoomStalls(c)
  <2>1. /\ room'.participants = room.participants /\ room'.destroyed = room.destroyed
        /\ room'.creating = room.creating
    BY <1>i, <1>4 DEF RoomTold, RoomStalls, EndsFor, RoomRec
  <2>2. \/ part' = part
        \/ \E p \in Unlisted : part' = [part EXCEPT ![p].inroom = FALSE]
    BY <1>4 DEF RoomTold, RoomStalls, EndsFor
  <2>3. CASE part' = part
    BY <1>2, <2>1, <2>3, ListSame
  <2>4. ASSUME NEW p \in Unlisted, part' = [part EXCEPT ![p].inroom = FALSE] PROVE ListInv'
    <3>1. p \in Participant /\ \A u \in User : room.participants[u] # p
      BY <2>4, NoneApart DEF Unlisted, Listed
    <3>2. /\ part'[p].user = part[p].user /\ part'[p].handle = part[p].handle
          /\ part'[p].end = part[p].end /\ ~part'[p].inroom
          /\ \A q \in Participant : q # p => part'[q] = part[q]
      BY <1>i, <2>4, <3>1, Types DEF IInv, PartRec
    <3>3. \A q \in Participant : q # p => Stays(q)
      BY <1>2, <2>1, <3>2 DEF Stays
    <3>4. Goes(p)
      BY <2>1, <3>1, <3>2 DEF Goes
    <3>. QED  BY <1>2, <2>1, <3>2, <3>3, <3>4, ListEnds
  <2>. QED  BY <2>2, <2>3, <2>4
<1>. QED  BY <1>3, <1>4

LEMMA ListStep == IInv /\ PartInv /\ ListInv /\ [Next]_vars => ListInv'
<1>. SUFFICES ASSUME IInv, PartInv, ListInv, [Next]_vars PROVE ListInv'
  OBVIOUS
<1>h. Handle \subseteq Greenlet /\ Control \subseteq Greenlet
  BY DEF Greenlet
<1>1. ASSUME NEW g \in Greenlet, Answer(g) \/ Resume(g) PROVE ListInv'
  <2>1. CASE Answer(g) \/ Created(g) \/ Recreate(g)
             \/ \E b \in Backend, s \in Server : Attached(g, b, s)
    BY <2>1, ListWaits DEF Answer
  <2>2. CASE LockTimeout(g) \/ ActivationFails(g) \/ PartAnswered(g)
    BY <2>2, ListFinishes DEF LockTimeout, ActivationFails, PartAnswered, At
  <2>3. CASE LockGot(g) \/ Activated(g)
    BY <2>3, ListActivated
  <2>. QED  BY <1>1, <2>1, <2>2, <2>3 DEF Resume
<1>2. ASSUME NEW h \in Handle,
             \/ ResumeJoin(h) \/ Configure(h) \/ Leave(h)
             \/ Detach(h) \/ DetachGoesOn(h) \/ DetachStalls(h)
             \/ \E u \in User : Join(h, u)
      PROVE  ListInv'
  <2>1. CASE Joined(h) \/ JoinFails(h) \/ Greeted(h) \/ GreetStalls(h)
    BY <2>1, ListJoined, ListJoinFails, ListGreeted
  <2>4. CASE Leave(h) \/ Detach(h) \/ DetachGoesOn(h) \/ DetachStalls(h) \/ ToldHangup(h)
    BY <2>4, ListDetaches
  <2>2. CASE Configure(h)
    BY <1>h, <2>2, ListAsksPart DEF Configure, At
  <2>3. CASE \E u \in User : Join(h, u)
    BY <1>h, <2>3, ListStarts
  <2>. QED  BY <1>2, <2>1, <2>2, <2>3, <2>4 DEF ResumeJoin
<1>3. ASSUME NEW c \in Control,
             \/ ResumeControl(c) \/ RoomRequest(c) \/ DestroyRoom(c) \/ Collect(c)
             \/ \E u \in User : MuteParticipant(c, u)
      PROVE  ListInv'
  <2>1. CASE RoomAnswered(c) \/ RoomDestroyed(c) \/ RoomNotDestroyed(c)
    BY <1>h, <2>1, ListFinishes
    DEF RoomAnswered, RoomDestroyed, RoomNotDestroyed, Answered, At
  <2>2. CASE Drop(c) \/ DestroyRoom(c) \/ RoomTold(c) \/ RoomStalls(c)
    BY <2>2, ListRoomEnds DEF Drop, DestroyRoom
  <2>3. CASE RoomRequest(c)
    BY <1>h, <2>3, ListStarts
  <2>4. CASE Collect(c)
    BY <1>h, <2>4, ListWaits
  <2>5. CASE \E u \in User : MuteParticipant(c, u)
    BY <1>h, <2>5, ListAsksPart DEF MuteParticipant, At
  <2>. QED  BY <1>3, <2>1, <2>2, <2>3, <2>4, <2>5 DEF ResumeControl
<1>4. CASE \E b \in Backend : ControlClosed(b)
  <2>1. room' = room \/ room' = [room EXCEPT !.bh = None]
    BY <1>4 DEF ControlClosed
  <2>2. /\ room'.participants = room.participants /\ room'.destroyed = room.destroyed
        /\ room'.creating = room.creating
    BY <2>1, Types DEF IInv, RoomRec
  <2>. QED  BY <1>4, <2>2, ListSame DEF ControlClosed
<1>5. CASE UNCHANGED vars
  BY <1>5, ListSame DEF vars
<1>. QED  BY <1>1, <1>2, <1>3, <1>4, <1>5, ListKicked, ListGoesOnEnding,
          ListClosed DEF Next

(* Who is in the list of participants has the room, is not destroyed and is *)
(* the participant of its frontend handle or about to be, unless it is a    *)
(* stray; and whoever has the room is in the list, under its id, as long as *)
(* it is not leaving and the room is not destroyed. That holds at every     *)
(* wait of destroy(), of a participant or of the room, and under every      *)
(* fault, a handle closed between an answer and its greenlet included.      *)
THEOREM ListedIsThereHolds == Spec => []ListedIsThere
<1>1. Init => IInv /\ PartInv /\ ListInv
  BY InvInit, HandlesInit, ListsInit
<1>2. IInv /\ PartInv /\ ListInv /\ [Next]_vars => (IInv /\ PartInv /\ ListInv)'
  BY InvStep, PartStep, ListStep
<1>3. IInv /\ PartInv /\ ListInv => ListedIsThere
  BY DEF ListInv, Lists, Entry, Member, Greeting, At, ListedIsThere
<1>. QED  BY <1>1, <1>2, <1>3, PTL DEF Spec
=============================================================================
