-------------------------- MODULE VideoRoom_proofs --------------------------
(* Proofs about VideoRoom, for every number of handles, users, publishers,  *)
(* backend rooms and servers. The types come first, then the publishers,    *)
(* the backend rooms and the list of participants: a part uses those before *)
(* it and has an invariant of its own. Most actions leave a part alone,     *)
(* which the lemmas ...Kept, ...Same and ...Quiet turn into its invariance. *)
EXTENDS VideoRoom, TLAPS

Activating == {"attach", "create", "wipe", "control"}

(* What a greenlet that waits has in its local variables.                   *)
TaskShape(t) ==
    /\ t.pc \in Activating \cup {"lock"} => t.user \in User /\ t.broom \in BackendRoom
    /\ t.pc = "join" => t.user \in User /\ t.pub \in Publisher
    /\ t.pc = "publish" => t.pub \in Publisher

Shapes == \A h \in Handle : TaskShape(task[h])

IInv == TypeOK /\ Shapes /\ IdsFreed

-----------------------------------------------------------------------------
LEMMA NoneApart ==
    /\ None \notin Handle /\ None \notin User /\ None \notin Publisher
    /\ None \notin BackendRoom /\ None \notin Server /\ Publisher \cap BackendRoom = {}
BY VideoRoomAssumption

LEMMA BlankTypes ==
    /\ NoTask \in TaskRec /\ TaskShape(NoTask) /\ NoPub \in PubRec
    /\ NoBackendRoom \in BackendRoomRec
BY DEF NoTask, TaskRec, TaskShape, Activating, NoPub, PubRec, NoBackendRoom, BackendRoomRec, Link

JanusRec == [up: BOOLEAN, inside: SUBSET (Publisher \cup BackendRoom)]

(* TypeOK, by the variable.                                                 *)
LEMMA Types ==
    ASSUME TypeOK
    PROVE  /\ room \in RoomRec /\ handle \in [Handle -> HandleRec]
           /\ task \in [Handle -> TaskRec] /\ pub \in [Publisher -> PubRec]
           /\ broom \in [BackendRoom -> BackendRoomRec] /\ janus \in [Server -> JanusRec]
           /\ sweep \in SweepRec
           /\ room.participants \in [User -> Publisher \cup {None}]
           /\ room.table \in [Server -> BackendRoom \cup {None}]
           /\ \A h \in Handle : /\ task[h] \in TaskRec /\ handle[h] \in HandleRec
                                /\ handle[h].pub \in Publisher \cup {None}
           /\ \A p \in Publisher : pub[p] \in PubRec
           /\ \A b \in BackendRoom : broom[b] \in BackendRoomRec
BY DEF TypeOK, RoomRec, HandleRec, JanusRec

LEMMA InvInit == Init => IInv
<1>. SUFFICES ASSUME Init PROVE IInv
  OBVIOUS
<1>1. room \in RoomRec
  BY DEF Init, RoomRec
<1>2. handle \in [Handle -> HandleRec] /\ pub \in [Publisher -> PubRec]
  BY BlankTypes DEF Init, HandleRec
<1>3. broom \in [BackendRoom -> BackendRoomRec] /\ task \in [Handle -> TaskRec]
  BY BlankTypes DEF Init
<1>4. janus \in [Server -> [up: BOOLEAN, inside: SUBSET (Publisher \cup BackendRoom)]]
  BY DEF Init, NoJanusRoom
<1>5. sweep \in SweepRec
  BY DEF Init, SweepRec
<1>6. Shapes /\ IdsFreed
  BY BlankTypes DEF Init, Shapes, IdsFreed
<1>. QED  BY <1>1, <1>2, <1>3, <1>4, <1>5, <1>6 DEF IInv, TypeOK

LEMMA InsideType ==
    ASSUME TypeOK, NEW s, NEW x \in Publisher \cup BackendRoom
    PROVE  /\ Left(s, x) \in [Server -> JanusRec]
           /\ [janus EXCEPT ![s].inside = @ \cup {x}] \in [Server -> JanusRec]
           /\ [janus EXCEPT ![s].up = TRUE] \in [Server -> JanusRec]
           /\ [janus EXCEPT ![s] = NoJanusRoom] \in [Server -> JanusRec]
<1>1. ASSUME NEW z \in Server
      PROVE  /\ [janus[z] EXCEPT !.inside = @ \ {x}] \in JanusRec
             /\ [janus[z] EXCEPT !.inside = @ \cup {x}] \in JanusRec
             /\ [janus[z] EXCEPT !.up = TRUE] \in JanusRec
  <2>1. janus[z] \in JanusRec
    BY Types
  <2>. QED  BY <2>1 DEF JanusRec
<1>2. NoJanusRoom \in JanusRec
  BY DEF NoJanusRoom, JanusRec
<1>. QED  BY <1>1, <1>2, Types DEF Left

LEMMA EndedType ==
    ASSUME NEW x \in PubRec
    PROVE  /\ Ended(x) \in PubRec
           /\ [Ended(x) EXCEPT !.link = "closed"] \in PubRec
           /\ [x EXCEPT !.inroom = FALSE] \in PubRec
           /\ [x EXCEPT !.link = "none", !.destroyed = TRUE] \in PubRec
           /\ [x EXCEPT !.stored = TRUE, !.inroom = TRUE] \in PubRec
           /\ \A y \in BOOLEAN : [x EXCEPT !.sdp = y] \in PubRec
BY DEF Ended, PubRec, Link

LEMMA BroomType ==
    ASSUME NEW x \in BackendRoomRec
    PROVE  /\ \A h \in Handle \cup {None} : [x EXCEPT !.lock = h] \in BackendRoomRec
           /\ GivenUp(x) \in BackendRoomRec
           /\ \A y \in BOOLEAN : /\ [x EXCEPT !.destroyed = y] \in BackendRoomRec
                                 /\ [x EXCEPT !.active = y] \in BackendRoomRec
                                 /\ [x EXCEPT !.link = "open", !.active = y] \in BackendRoomRec
                                 /\ [x EXCEPT !.link = "closed", !.active = FALSE, !.destroyed = y]
                                      \in BackendRoomRec
           /\ [x EXCEPT !.destroyed = TRUE, !.active = FALSE] \in BackendRoomRec
           /\ [x EXCEPT !.link = "none"] \in BackendRoomRec
BY DEF GivenUp, BackendRoomRec, Link

LEMMA RoomType ==
    ASSUME NEW r \in RoomRec
    PROVE  /\ \A u \in User, p \in Publisher \cup {None} :
                [r EXCEPT !.participants[u] = p] \in RoomRec
           /\ \A u, p : p \in Publisher \cup {None} => [r EXCEPT !.participants[u] = p] \in RoomRec
           /\ \A u \in User : [r EXCEPT !.creating = @ \cup {u}] \in RoomRec
           /\ \A u : [r EXCEPT !.creating = @ \ {u}] \in RoomRec
           /\ \A u, b : b \in BackendRoom \cup {None} => [r EXCEPT !.table[u] = b] \in RoomRec
BY DEF RoomRec

LEMMA DestroyedInType ==
    ASSUME TypeOK, NEW p
    PROVE  /\ DestroyedIn(room, p) \in RoomRec
           /\ DestroyedIn(room, p).creating = room.creating
<1>1. room \in RoomRec
  BY Types
<1>2. [room EXCEPT !.participants[pub[p].user] = None] \in RoomRec
  BY <1>1, RoomType
<1>. QED  BY <1>1, <1>2 DEF DestroyedIn, RoomRec

LEMMA ReleasedType == ASSUME TypeOK, NEW p PROVE Released(p) \in [Handle -> HandleRec]
<1>1. \A h \in Handle : [handle[h] EXCEPT !.pub = None] \in HandleRec
  BY Types DEF HandleRec
<1>. QED  BY <1>1, Types DEF Released

-----------------------------------------------------------------------------
(* The greenlet of h goes on as t, which keeps the id it has or frees it.   *)
Goes(h, t) == t \in TaskRec /\ TaskShape(t) /\ task' = [task EXCEPT ![h] = t]

Owes(h, t) ==
    /\ \A u \in room'.creating : u \in room.creating \/ (t.pc = "join" /\ t.user = u)
    /\ At(h, "join") => \/ t.pc = "join" /\ t.user = task[h].user
                        \/ task[h].user \notin room'.creating

LEMMA OneTask ==
    ASSUME IInv, NEW h \in Handle, NEW t, Goes(h, t), Owes(h, t)
    PROVE  task' \in [Handle -> TaskRec] /\ Shapes' /\ IdsFreed'
<1>i. task \in [Handle -> TaskRec] /\ Shapes /\ IdsFreed
  BY DEF IInv, TypeOK
<1>o. task'[h] = t /\ \A g \in Handle : g # h => task'[g] = task[g]
  BY <1>i DEF Goes
<1>1. task' \in [Handle -> TaskRec] /\ Shapes'
  BY <1>i, <1>o DEF Goes, Shapes
<1>2. IdsFreed'
  <2>. SUFFICES ASSUME NEW u \in room'.creating
       PROVE  \E g \in Handle : task'[g].pc = "join" /\ task'[g].user = u
    BY DEF IdsFreed, At
  <2>1. CASE t.pc = "join" /\ t.user = u
    BY <1>o, <2>1
  <2>2. CASE ~(t.pc = "join" /\ t.user = u)
    <3>1. PICK g \in Handle : task[g].pc = "join" /\ task[g].user = u
      BY <1>i, <2>2 DEF IdsFreed, At, Owes
    <3>2. g # h
      BY <2>2, <3>1 DEF Owes, At
    <3>. QED  BY <1>o, <3>1, <3>2
  <2>. QED  BY <2>1, <2>2
<1>. QED  BY <1>1, <1>2

LEMMA NoOneGoesOn ==
    ASSUME IInv, task' = task, room'.creating \subseteq room.creating
    PROVE  task' \in [Handle -> TaskRec] /\ Shapes' /\ IdsFreed'
BY DEF IInv, TypeOK, Shapes, IdsFreed, At

-----------------------------------------------------------------------------
(* The publisher joins.                                                     *)
LEMMA JoinsRoomType ==
    ASSUME IInv, NEW h \in Handle, NEW u \in User, NEW b \in BackendRoom, NEW conf \in BOOLEAN,
           ~At(h, "join"), JoinsRoom(h, u, b, conf)
    PROVE  /\ room' \in RoomRec /\ pub' \in [Publisher -> PubRec]
           /\ task' \in [Handle -> TaskRec] /\ Shapes' /\ IdsFreed'
<1>t. TypeOK
  BY DEF IInv
<1>. PICK p \in Publisher :
       /\ pub' = [pub EXCEPT ![p] = [NoPub EXCEPT !.user = u, !.handle = h, !.link = "open",
                                                  !.server = broom[b].server]]
       /\ task' = [task EXCEPT ![h] = [NoTask EXCEPT !.pc = "join", !.user = u, !.pub = p,
                                                     !.configure = conf]]
  BY DEF JoinsRoom
<1>. DEFINE t == [NoTask EXCEPT !.pc = "join", !.user = u, !.pub = p, !.configure = conf]
<1>1. Goes(h, t) /\ t.pc = "join" /\ t.user = u
  BY DEF Goes, NoTask, TaskRec, TaskShape, Activating
<1>. HIDE DEF t
<1>2. room' \in RoomRec /\ room'.creating = room.creating \cup {u}
  BY <1>t, Types DEF JoinsRoom, RoomRec
<1>3. task' \in [Handle -> TaskRec] /\ Shapes' /\ IdsFreed'
  BY <1>1, <1>2, OneTask DEF Owes
<1>4. broom[b].server \in Server \cup {None}
  BY <1>t, Types DEF BackendRoomRec
<1>5. [NoPub EXCEPT !.user = u, !.handle = h, !.link = "open", !.server = broom[b].server]
        \in PubRec
  BY <1>4 DEF NoPub, PubRec, Link
<1>. QED  BY <1>t, <1>2, <1>3, <1>5, Types

(* A greenlet that waits for the lock or begins to activate a backend room. *)
LEMMA ActivatesType ==
    ASSUME IInv, NEW h \in Handle, NEW u \in User, NEW b \in BackendRoom, NEW m \in BOOLEAN,
           NEW conf \in BOOLEAN, ~At(h, "join"), room'.creating = room.creating,
           \/ Activates(h, u, b, m, conf)
           \/ task' = [task EXCEPT ![h] = [NoTask EXCEPT !.pc = "lock", !.user = u,
                                                         !.broom = b, !.configure = conf]]
    PROVE  task' \in [Handle -> TaskRec] /\ Shapes' /\ IdsFreed'
<1>1. CASE Activates(h, u, b, m, conf)
  <2>. DEFINE t == [NoTask EXCEPT !.pc = "attach", !.user = u, !.broom = b,
                                  !.creator = m, !.configure = conf]
  <2>1. Goes(h, t) /\ t.pc = "attach"
    BY <1>1 DEF Activates, Goes, NoTask, TaskRec, TaskShape, Activating
  <2>. HIDE DEF t
  <2>. QED  BY <2>1, OneTask DEF Owes
<1>2. CASE task' = [task EXCEPT ![h] = [NoTask EXCEPT !.pc = "lock", !.user = u,
                                                      !.broom = b, !.configure = conf]]
  <2>. DEFINE t == [NoTask EXCEPT !.pc = "lock", !.user = u, !.broom = b, !.configure = conf]
  <2>1. Goes(h, t) /\ t.pc = "lock"
    BY <1>2 DEF Goes, NoTask, TaskRec, TaskShape, Activating
  <2>. HIDE DEF t
  <2>. QED  BY <2>1, OneTask DEF Owes
<1>. QED  BY <1>1, <1>2

LEMMA JoinStep ==
    ASSUME IInv, NEW h \in Handle, NEW u \in User, NEW s \in Server, NEW conf \in BOOLEAN,
           Join(h, u, s, conf)
    PROVE  IInv'
<1>t. TypeOK /\ room \in RoomRec /\ broom \in [BackendRoom -> BackendRoomRec]
      /\ pub \in [Publisher -> PubRec] /\ ~At(h, "join") /\ h \in Handle \cup {None}
  BY Types DEF IInv, Join, At
<1>b. room.table[s] \in BackendRoom \cup {None}
  BY <1>t, Types
<1>f. UNCHANGED <<handle, sweep, janus>>
  BY DEF Join
<1>1. ASSUME NEW n \in BackendRoom,
             broom' = [broom EXCEPT ![n] = Locked([NoBackendRoom EXCEPT !.server = s], h)],
             room' = [room EXCEPT !.table[s] = n], Activates(h, u, n, TRUE, conf), pub' = pub
      PROVE  IInv'
  <2>1. room' \in RoomRec /\ room'.creating = room.creating
    BY <1>t, <1>1 DEF RoomRec
  <2>2. broom' \in [BackendRoom -> BackendRoomRec]
    <3>1. Locked([NoBackendRoom EXCEPT !.server = s], h) \in BackendRoomRec
      BY DEF Locked, NoBackendRoom, BackendRoomRec, Link
    <3>. QED  BY <1>t, <1>1, <3>1
  <2>3. task' \in [Handle -> TaskRec] /\ Shapes' /\ IdsFreed'
    BY <1>t, <1>1, <2>1, ActivatesType
  <2>. QED  BY <1>t, <1>f, <1>1, <2>1, <2>2, <2>3 DEF IInv, TypeOK
<1>2. ASSUME room.table[s] # None, JoinsRoom(h, u, room.table[s], conf), UNCHANGED broom
      PROVE  IInv'
  <2>1. /\ room' \in RoomRec /\ pub' \in [Publisher -> PubRec]
        /\ task' \in [Handle -> TaskRec] /\ Shapes' /\ IdsFreed'
    BY <1>t, <1>b, <1>2, JoinsRoomType
  <2>. QED  BY <1>t, <1>f, <1>2, <2>1 DEF IInv, TypeOK
<1>3. ASSUME room.table[s] # None, room' = room, pub' = pub,
             broom' \in [BackendRoom -> BackendRoomRec],
             \/ Activates(h, u, room.table[s], FALSE, conf)
             \/ task' = [task EXCEPT ![h] = [NoTask EXCEPT !.pc = "lock", !.user = u,
                                                 !.broom = room.table[s], !.configure = conf]]
      PROVE  IInv'
  <2>1. task' \in [Handle -> TaskRec] /\ Shapes' /\ IdsFreed'
    BY <1>t, <1>b, <1>3, ActivatesType
  <2>. QED  BY <1>t, <1>f, <1>3, <2>1 DEF IInv, TypeOK
<1>4. room.table[s] # None => /\ [broom[room.table[s]] EXCEPT !.lock = h] \in BackendRoomRec
                              /\ room.table[s] \in BackendRoom
  BY <1>t, <1>b, BroomType
<1>5. room.table[s] # None /\ broom' = [broom EXCEPT ![room.table[s]] = Locked(@, h)]
        => broom' \in [BackendRoom -> BackendRoomRec]
  BY <1>t, <1>4 DEF Locked
<1>. QED  BY <1>t, <1>1, <1>2, <1>3, <1>5 DEF Join

LEMMA LockStep ==
    ASSUME IInv, NEW h \in Handle, LockGot(h) \/ LockTimeout(h) PROVE IInv'
<1>t. /\ TypeOK /\ room \in RoomRec /\ broom \in [BackendRoom -> BackendRoomRec]
      /\ pub \in [Publisher -> PubRec] /\ ~At(h, "join") /\ h \in Handle \cup {None}
      /\ task[h].user \in User /\ task[h].broom \in BackendRoom /\ task[h].configure \in BOOLEAN
  <2>1. task[h] \in TaskRec /\ TaskShape(task[h]) /\ task[h].pc = "lock"
    BY Types DEF IInv, Shapes, LockGot, LockTimeout, At
  <2>. QED  BY <2>1, Types DEF IInv, TaskShape, TaskRec, At
<1>1. CASE LockTimeout(h)
  <2>1. Goes(h, NoTask) /\ NoTask.pc = "idle" /\ room' = room
    BY <1>1, BlankTypes DEF LockTimeout, Goes, NoTask
  <2>2. task' \in [Handle -> TaskRec] /\ Shapes' /\ IdsFreed'
    BY <1>t, <2>1, OneTask DEF Owes
  <2>. QED  BY <1>t, <1>1, <2>2 DEF LockTimeout, IInv, TypeOK
<1>2. CASE LockGot(h) /\ broom[task[h].broom].active
  <2>1. JoinsRoom(h, task[h].user, task[h].broom, task[h].configure) /\ UNCHANGED broom
    BY <1>2 DEF LockGot
  <2>2. /\ room' \in RoomRec /\ pub' \in [Publisher -> PubRec]
        /\ task' \in [Handle -> TaskRec] /\ Shapes' /\ IdsFreed'
    BY <1>t, <2>1, JoinsRoomType
  <2>. QED  BY <1>t, <1>2, <2>1, <2>2 DEF LockGot, IInv, TypeOK
<1>3. CASE LockGot(h) /\ ~broom[task[h].broom].active
  <2>1. /\ broom' = [broom EXCEPT ![task[h].broom] = Locked(@, h)]
        /\ Activates(h, task[h].user, task[h].broom, FALSE, task[h].configure)
        /\ UNCHANGED <<room, pub>>
    BY <1>3 DEF LockGot
  <2>2. [broom[task[h].broom] EXCEPT !.lock = h] \in BackendRoomRec
    BY <1>t, BroomType
  <2>3. broom' \in [BackendRoom -> BackendRoomRec]
    BY <1>t, <2>1, <2>2 DEF Locked
  <2>4. task' \in [Handle -> TaskRec] /\ Shapes' /\ IdsFreed'
    BY <1>t, <2>1, ActivatesType
  <2>. QED  BY <1>t, <1>3, <2>1, <2>3, <2>4 DEF LockGot, IInv, TypeOK
<1>. QED  BY <1>1, <1>2, <1>3

-----------------------------------------------------------------------------
\* The answer comes, or the next request of the activation is sent.
LEMMA GoesOn ==
    ASSUME IInv, NEW h \in Handle, NEW pc, NEW r \in {"none", "ok", "exists", "error"},
           pc = task[h].pc \/ (pc \in Activating /\ task[h].pc \in Activating)
              \/ (pc = "publish" /\ At(h, "join") /\ task[h].user \notin room'.creating),
           task' = [task EXCEPT ![h] = [@ EXCEPT !.pc = pc, !.resp = r]],
           room'.creating \subseteq room.creating
    PROVE  task' \in [Handle -> TaskRec] /\ Shapes' /\ IdsFreed'
<1>. DEFINE t == [task[h] EXCEPT !.pc = pc, !.resp = r]
<1>1. task[h] \in TaskRec /\ TaskShape(task[h])
  BY Types DEF IInv, Shapes
<1>2. /\ t \in TaskRec /\ t.pc = pc /\ t.user = task[h].user
      /\ t.broom = task[h].broom /\ t.pub = task[h].pub
  BY <1>1 DEF TaskRec, Activating, At
<1>3. task' = [task EXCEPT ![h] = t]
  OBVIOUS
<1>. HIDE DEF t
<1>4. Goes(h, t) /\ Owes(h, t)
  BY <1>1, <1>2, <1>3 DEF Goes, Owes, TaskShape, Activating, At
<1>. QED  BY <1>4, OneTask

-----------------------------------------------------------------------------
LEMMA ActivateGoes ==
    ASSUME NEW h \in Handle, Attached(h) \/ Created(h) \/ Recreate(h), task[h] \in TaskRec
    PROVE  \E pc \in Activating, r \in {"none", "ok", "exists", "error"} :
              task' = [task EXCEPT ![h] = [@ EXCEPT !.pc = pc, !.resp = r]]
<1>1. CASE Attached(h)
  <2>1. task' = [task EXCEPT ![h] = [@ EXCEPT !.pc = IF Skips(h) THEN "control" ELSE "create",
                                              !.resp = task[h].resp]]
    <3>1. [task[h] EXCEPT !.pc = IF Skips(h) THEN "control" ELSE "create"]
          = [task[h] EXCEPT !.pc = IF Skips(h) THEN "control" ELSE "create",
                            !.resp = task[h].resp]
      BY DEF TaskRec
    <3>. QED  BY <1>1, <3>1 DEF Attached
  <2>2. task[h].resp \in {"none", "ok", "exists", "error"}
    BY DEF TaskRec
  <2>. QED  BY <2>1, <2>2 DEF Activating
<1>2. CASE Created(h) \/ Recreate(h)
  BY <1>2 DEF Created, Recreate, Activating
<1>. QED  BY <1>1, <1>2

LEMMA ActivateStep ==
    ASSUME IInv, NEW h \in Handle,
           Attached(h) \/ Created(h) \/ Recreate(h) \/ Activated(h) \/ ActivationFails(h)
    PROVE  IInv'
<1>t. /\ TypeOK /\ room \in RoomRec /\ broom \in [BackendRoom -> BackendRoomRec]
      /\ task[h].pc \in Activating /\ task[h] \in TaskRec /\ TaskShape(task[h])
      /\ task[h].user \in User /\ task[h].broom \in BackendRoom /\ task[h].configure \in BOOLEAN
  <2>1. task[h] \in TaskRec /\ TaskShape(task[h]) /\ task[h].pc \in Activating
    BY Types DEF IInv, Shapes, Attached, Created, Recreate, Activated, ActivationFails, Answered,
                 At, Activating
  <2>. QED  BY <2>1, Types DEF IInv, TaskShape, TaskRec
<1>. PICK b \in BackendRoom : b = task[h].broom
  BY <1>t
<1>b. broom[b] \in BackendRoomRec
  BY <1>t
<1>1. CASE Attached(h) \/ Created(h) \/ Recreate(h)
  <2>1. broom' \in [BackendRoom -> BackendRoomRec]
    <3>1. Skips(h) \in BOOLEAN
      BY <1>b DEF Skips, BackendRoomRec
    <3>2. /\ [broom[b] EXCEPT !.link = "open", !.active = Skips(h)] \in BackendRoomRec
          /\ [broom[b] EXCEPT !.active = TRUE] \in BackendRoomRec
      BY <1>b, <3>1, BroomType
    <3>3. \/ broom' = broom
          \/ broom' = [broom EXCEPT ![b] = [@ EXCEPT !.link = "open", !.active = Skips(h)]]
          \/ broom' = [broom EXCEPT ![b] = [@ EXCEPT !.active = TRUE]]
      BY <1>1, <1>t DEF Attached, Created, Recreate
    <3>. QED  BY <1>t, <3>2, <3>3
  <2>2. PICK pc \in Activating, r \in {"none", "ok", "exists", "error"} :
          task' = [task EXCEPT ![h] = [@ EXCEPT !.pc = pc, !.resp = r]]
    BY <1>t, <1>1, ActivateGoes
  <2>3. room' = room
    BY <1>1 DEF Attached, Created, Recreate
  <2>4. task' \in [Handle -> TaskRec] /\ Shapes' /\ IdsFreed'
    BY <1>t, <2>2, <2>3, GoesOn
  <2>. QED  BY <1>t, <1>1, <2>1, <2>4 DEF Attached, Created, Recreate, IInv, TypeOK
<1>2. CASE Activated(h)
  <2>1. /\ JoinsRoom(h, task[h].user, b, task[h].configure) /\ ~At(h, "join")
        /\ broom' = [broom EXCEPT ![b] = [@ EXCEPT !.lock = None]]
    BY <1>2 DEF Activated, Answered, At
  <2>2. [broom[b] EXCEPT !.lock = None] \in BackendRoomRec
    BY <1>b, BroomType
  <2>3. broom' \in [BackendRoom -> BackendRoomRec]
    BY <1>t, <2>1, <2>2
  <2>4. /\ room' \in RoomRec /\ pub' \in [Publisher -> PubRec]
        /\ task' \in [Handle -> TaskRec] /\ Shapes' /\ IdsFreed'
    BY <1>t, <2>1, JoinsRoomType
  <2>. QED  BY <1>t, <1>2, <2>3, <2>4 DEF Activated, IInv, TypeOK
<1>3. CASE ActivationFails(h)
  <2>. DEFINE x == GivenUp(broom[b])
              discard == task[h].creator /\ ~x.destroyed
  <2>0. x \in BackendRoomRec /\ discard \in BOOLEAN /\ x.destroyed \in BOOLEAN
    <3>1. x \in BackendRoomRec
      BY <1>b, BroomType
    <3>. QED  BY <1>t, <3>1 DEF BackendRoomRec, TaskRec
  <2>1. /\ broom' = [broom EXCEPT ![b] = [x EXCEPT !.destroyed = @ \/ discard]]
        /\ room' = IF discard THEN Untabled(x.server) ELSE room
        /\ janus' = Left(x.server, b)
        /\ task' = [task EXCEPT ![h] = NoTask] /\ UNCHANGED <<handle, pub, sweep>>
    BY <1>3 DEF ActivationFails
  <2>. HIDE DEF x, discard
  <2>2. [x EXCEPT !.destroyed = x.destroyed \/ discard] \in BackendRoomRec
    BY <2>0 DEF BackendRoomRec
  <2>3. broom' \in [BackendRoom -> BackendRoomRec]
    BY <1>t, <2>1, <2>2
  <2>4. room' \in RoomRec /\ room'.creating = room.creating
    BY <1>t, <2>1 DEF Untabled, RoomRec
  <2>5. janus' \in [Server -> JanusRec]
    BY <1>t, <2>1, InsideType
  <2>6. task' \in [Handle -> TaskRec] /\ Shapes' /\ IdsFreed'
    <3>1. Goes(h, NoTask) /\ ~At(h, "join")
      BY <1>t, <2>1, BlankTypes DEF Goes, Activating, At
    <3>. QED  BY <2>4, <3>1, OneTask DEF Owes
  <2>. QED  BY <1>t, <2>1, <2>3, <2>4, <2>5, <2>6 DEF IInv, TypeOK, JanusRec
<1>. QED  BY <1>1, <1>2, <1>3

LEMMA AnswerStep ==
    ASSUME IInv, NEW h \in Handle, JanusServes(h) \/ JanusRefuses(h) PROVE IInv'
<1>t. TypeOK /\ task[h] \in TaskRec /\ TaskShape(task[h]) /\ Waits(h)
  BY Types DEF IInv, Shapes, JanusServes, JanusRefuses
<1>1. PICK r \in {"none", "ok", "exists", "error"} :
        task' = [task EXCEPT ![h] = [@ EXCEPT !.pc = task[h].pc, !.resp = r]]
  <2>1. \A r : [task[h] EXCEPT !.resp = r] = [task[h] EXCEPT !.pc = task[h].pc, !.resp = r]
    BY <1>t DEF TaskRec
  <2>2. PICK r \in {"none", "ok", "exists", "error"} :
          task' = [task EXCEPT ![h] = [@ EXCEPT !.resp = r]]
    <3>1. CASE JanusServes(h)
      BY <3>1 DEF JanusServes
    <3>2. CASE JanusRefuses(h)
      <4>. DEFINE exists == At(h, "create") /\ Asks(h).link = "open" /\ janus[Asks(h).server].up
      <4>1. task' = [task EXCEPT ![h].resp = IF exists THEN "exists" ELSE "error"]
        BY <3>2 DEF JanusRefuses
      <4>. HIDE DEF exists
      <4>2. CASE exists
        BY <4>1, <4>2
      <4>3. CASE ~exists
        BY <4>1, <4>3
      <4>. QED  BY <4>2, <4>3
    <3>. QED  BY <3>1, <3>2
  <2>. QED  BY <2>1, <2>2
<1>2. UNCHANGED <<room, handle, pub, broom, sweep>>
  BY DEF JanusServes, JanusRefuses
<1>3. janus' \in [Server -> JanusRec]
  <2>1. CASE JanusRefuses(h)
    BY <1>t, <2>1, Types DEF JanusRefuses
  <2>2. CASE JanusServes(h)
    <3>1. \/ janus' = janus
          \/ janus' = [janus EXCEPT ![Asks(h).server].up = TRUE]
          \/ janus' = [janus EXCEPT ![Asks(h).server] = NoJanusRoom]
          \/ janus' = [janus EXCEPT ![Asks(h).server].inside = @ \cup {Asks(h).who}]
      BY <2>2 DEF JanusServes, Serve
    <3>2. Asks(h).who \in Publisher \cup BackendRoom
      BY <1>t DEF Asks, TaskShape, Activating, Waits, TaskRec
    <3>. PICK s : s = Asks(h).server
      OBVIOUS
    <3>. PICK x \in Publisher \cup BackendRoom : x = Asks(h).who
      BY <3>2
    <3>4. \/ janus' = janus
          \/ janus' = [janus EXCEPT ![s].up = TRUE]
          \/ janus' = [janus EXCEPT ![s] = NoJanusRoom]
          \/ janus' = [janus EXCEPT ![s].inside = @ \cup {x}]
      BY <3>1
    <3>5. janus \in [Server -> JanusRec]
      BY <1>t, Types
    <3>6. /\ [janus EXCEPT ![s].inside = @ \cup {x}] \in [Server -> JanusRec]
          /\ [janus EXCEPT ![s].up = TRUE] \in [Server -> JanusRec]
          /\ [janus EXCEPT ![s] = NoJanusRoom] \in [Server -> JanusRec]
      BY <1>t, InsideType
    <3>. QED  BY <3>4, <3>5, <3>6
  <2>. QED  BY <2>1, <2>2
<1>4. task' \in [Handle -> TaskRec] /\ Shapes' /\ IdsFreed'
  BY <1>1, <1>2, GoesOn
<1>. QED  BY <1>t, <1>2, <1>3, <1>4 DEF IInv, TypeOK, JanusRec

-----------------------------------------------------------------------------
(* A greenlet is done.                                                      *)
LEMMA EndsTask ==
    ASSUME IInv, NEW h \in Handle, task' = [task EXCEPT ![h] = NoTask],
           room'.creating \subseteq room.creating,
           At(h, "join") => task[h].user \notin room'.creating
    PROVE  task' \in [Handle -> TaskRec] /\ Shapes' /\ IdsFreed'
<1>1. Goes(h, NoTask)
  BY BlankTypes DEF Goes
<1>2. Owes(h, NoTask)
  BY DEF Owes
<1>. QED  BY <1>1, <1>2, OneTask

LEMMA JoinedStep ==
    ASSUME IInv, NEW h \in Handle, Joined(h) PROVE IInv'
<1>t. /\ TypeOK /\ room \in RoomRec /\ pub \in [Publisher -> PubRec]
      /\ handle \in [Handle -> HandleRec]
      /\ task[h] \in TaskRec /\ task[h].pc = "join"
      /\ task[h].user \in User /\ task[h].pub \in Publisher
  <2>1. task[h] \in TaskRec /\ TaskShape(task[h]) /\ task[h].pc = "join"
    BY Types DEF IInv, Shapes, Joined, Answered, At
  <2>. QED  BY <2>1, Types DEF IInv, TaskShape
<1>. PICK p \in Publisher : p = task[h].pub
  BY <1>t
<1>1. room' \in RoomRec /\ room'.creating = room.creating \ {task[h].user}
  BY <1>t DEF Joined, Entered, RoomRec
<1>2. pub' \in [Publisher -> PubRec]
  <2>1. pub' = [pub EXCEPT ![p] = [@ EXCEPT !.stored = TRUE, !.inroom = TRUE]]
    <3>1. pub' = [pub EXCEPT ![p].stored = TRUE, ![p].inroom = TRUE]
      BY DEF Joined
    <3>. QED  BY <3>1, <1>t
  <2>2. [pub[p] EXCEPT !.stored = TRUE, !.inroom = TRUE] \in PubRec
    BY <1>t, EndedType
  <2>. QED  BY <1>t, <2>1, <2>2
<1>3. handle' \in [Handle -> HandleRec]
  <2>1. [handle[h] EXCEPT !.pub = p] \in HandleRec
    BY <1>t DEF HandleRec
  <2>2. handle' = handle \/ handle' = [handle EXCEPT ![h] = [@ EXCEPT !.pub = p]]
    BY DEF Joined
  <2>. QED  BY <1>t, <2>1, <2>2
<1>4. task' \in [Handle -> TaskRec] /\ Shapes' /\ IdsFreed'
  <2>1. CASE task' = [task EXCEPT ![h] = NoTask]
    BY <1>1, <2>1, EndsTask
  <2>2. CASE task' = [task EXCEPT ![h].pc = "publish", ![h].resp = "none"]
    <3>1. task' = [task EXCEPT ![h] = [@ EXCEPT !.pc = "publish", !.resp = "none"]]
      BY <1>t, <2>2
    <3>. QED  BY <1>t, <1>1, <3>1, GoesOn DEF At
  <2>. QED  BY <2>1, <2>2 DEF Joined
<1>5. UNCHANGED <<broom, sweep, janus>>
  BY DEF Joined
<1>. QED  BY <1>t, <1>1, <1>2, <1>3, <1>4, <1>5 DEF IInv, TypeOK

LEMMA JoinFailsStep ==
    ASSUME IInv, NEW h \in Handle, JoinFails(h) PROVE IInv'
<1>t. /\ TypeOK /\ room \in RoomRec /\ pub \in [Publisher -> PubRec]
      /\ task[h].pc = "join" /\ task[h].user \in User /\ task[h].pub \in Publisher
  <2>1. task[h] \in TaskRec /\ TaskShape(task[h]) /\ task[h].pc = "join"
    BY Types DEF IInv, Shapes, JoinFails, Answered, At
  <2>. QED  BY <2>1, Types DEF IInv, TaskShape
<1>. PICK p \in Publisher : p = task[h].pub
  BY <1>t
<1>1. room' \in RoomRec /\ room'.creating = room.creating \ {task[h].user}
  BY <1>t DEF JoinFails, IdDiscarded, RoomRec
<1>2. pub' \in [Publisher -> PubRec]
  <2>1. pub' = [pub EXCEPT ![p] = [@ EXCEPT !.link = "none", !.destroyed = TRUE]]
    <3>1. pub' = [pub EXCEPT ![p].link = "none", ![p].destroyed = TRUE]
      BY DEF JoinFails
    <3>. QED  BY <3>1, <1>t
  <2>2. [pub[p] EXCEPT !.link = "none", !.destroyed = TRUE] \in PubRec
    BY <1>t, EndedType
  <2>. QED  BY <1>t, <2>1, <2>2
<1>3. janus' \in [Server -> JanusRec]
  <2>1. janus' = Left(pub[p].server, p)
    BY DEF JoinFails
  <2>. QED  BY <1>t, <2>1, InsideType
<1>4. task' \in [Handle -> TaskRec] /\ Shapes' /\ IdsFreed'
  BY <1>1, EndsTask DEF JoinFails
<1>. QED  BY <1>t, <1>1, <1>2, <1>3, <1>4 DEF JoinFails, IInv, TypeOK, JanusRec

(* p.destroy() keeps the types, and frees no id of a join.                  *)
LEMMA DestroyType ==
    ASSUME IInv, NEW p \in Publisher
    PROVE  /\ DestroyedIn(room, p) \in RoomRec /\ DestroyedIn(room, p).creating = room.creating
           /\ [pub EXCEPT ![p] = Ended(@)] \in [Publisher -> PubRec]
           /\ Left(pub[p].server, p) \in [Server -> JanusRec]
           /\ Released(p) \in [Handle -> HandleRec]
<1>t. TypeOK /\ pub \in [Publisher -> PubRec]
  BY Types DEF IInv
<1>1. Ended(pub[p]) \in PubRec
  BY <1>t, EndedType
<1>2. [pub EXCEPT ![p] = Ended(@)] \in [Publisher -> PubRec]
  BY <1>t, <1>1
<1>3. Left(pub[p].server, p) \in [Server -> JanusRec]
  BY <1>t, InsideType
<1>. QED  BY <1>t, <1>2, <1>3, DestroyedInType, ReleasedType

LEMMA PublishedStep ==
    ASSUME IInv, NEW h \in Handle, Published(h) \/ PublishFails(h) PROVE IInv'
<1>t. /\ TypeOK /\ room \in RoomRec /\ pub \in [Publisher -> PubRec]
      /\ handle \in [Handle -> HandleRec] /\ janus \in [Server -> JanusRec]
      /\ task[h].pc = "publish" /\ task[h].pub \in Publisher
  <2>1. task[h] \in TaskRec /\ TaskShape(task[h]) /\ task[h].pc = "publish"
    BY Types DEF IInv, Shapes, Published, PublishFails, Answered, At
  <2>. QED  BY <2>1, Types DEF IInv, TaskShape
<1>. PICK p \in Publisher : p = task[h].pub
  BY <1>t
<1>1. room' = room \/ room' = DestroyedIn(room, p)
  BY DEF Published, PublishFails
<1>2. room' \in RoomRec /\ room'.creating = room.creating
  BY <1>t, <1>1, DestroyType
<1>3. pub' \in [Publisher -> PubRec]
  <2>1. \/ pub' = pub
        \/ pub' = [pub EXCEPT ![p] = [@ EXCEPT !.sdp = TRUE]]
        \/ pub' = [pub EXCEPT ![p] = Ended(@)]
    BY DEF Published, PublishFails, DestroyPub
  <2>2. [pub[p] EXCEPT !.sdp = TRUE] \in PubRec
    BY <1>t, EndedType
  <2>3. [pub EXCEPT ![p] = [@ EXCEPT !.sdp = TRUE]] \in [Publisher -> PubRec]
    BY <1>t, <2>2
  <2>. QED  BY <1>t, <2>1, <2>3, DestroyType
<1>4. handle' \in [Handle -> HandleRec]
  <2>1. [handle[h] EXCEPT !.pub = p] \in HandleRec
    BY <1>t DEF HandleRec
  <2>2. handle' = handle \/ handle' = [handle EXCEPT ![h] = [@ EXCEPT !.pub = p]]
    BY DEF Published, PublishFails
  <2>. QED  BY <1>t, <2>1, <2>2
<1>5. janus' \in [Server -> JanusRec]
  <2>1. janus' = janus \/ janus' = Left(pub[p].server, p)
    BY DEF Published, PublishFails
  <2>. QED  BY <1>t, <2>1, DestroyType
<1>6. task' \in [Handle -> TaskRec] /\ Shapes' /\ IdsFreed'
  <2>1. task' = [task EXCEPT ![h] = NoTask] /\ ~At(h, "join")
    BY <1>t DEF Published, PublishFails, At
  <2>. QED  BY <1>2, <2>1, EndsTask
<1>7. UNCHANGED <<broom, sweep>>
  BY DEF Published, PublishFails
<1>. QED  BY <1>t, <1>2, <1>3, <1>4, <1>5, <1>6, <1>7 DEF IInv, TypeOK, JanusRec

-----------------------------------------------------------------------------
LEMMA PublishStep ==
    ASSUME IInv, NEW h \in Handle, Publish(h) PROVE IInv'
<1>t. TypeOK /\ handle[h].pub \in Publisher /\ ~At(h, "join")
  BY Types DEF IInv, Publish, At
<1>. DEFINE t == [NoTask EXCEPT !.pc = "publish", !.pub = handle[h].pub]
<1>1. Goes(h, t)
  <2>1. t \in TaskRec /\ TaskShape(t)
    BY <1>t DEF NoTask, TaskRec, TaskShape, Activating
  <2>. QED  BY <2>1 DEF Publish, Goes
<1>2. UNCHANGED <<room, handle, pub, broom, sweep, janus>>
  BY DEF Publish
<1>. HIDE DEF t
<1>3. Owes(h, t)
  BY <1>t, <1>2 DEF Owes
<1>4. task' \in [Handle -> TaskRec] /\ Shapes' /\ IdsFreed'
  BY <1>1, <1>3, OneTask
<1>. QED  BY <1>t, <1>2, <1>4 DEF IInv, TypeOK

LEMMA HangUpStep ==
    ASSUME IInv, NEW p \in Publisher, HangUp(p) PROVE IInv'
<1>t. TypeOK /\ pub \in [Publisher -> PubRec]
  BY Types DEF IInv
<1>1. UNCHANGED <<room, handle, task, broom, sweep, janus>>
  BY DEF HangUp
<1>2. [pub[p] EXCEPT !.sdp = FALSE] \in PubRec
  BY <1>t, EndedType
<1>3. pub' \in [Publisher -> PubRec]
  BY <1>t, <1>2 DEF HangUp
<1>4. task' \in [Handle -> TaskRec] /\ Shapes' /\ IdsFreed'
  BY <1>1, NoOneGoesOn
<1>. QED  BY <1>t, <1>1, <1>3, <1>4 DEF IInv, TypeOK

(* A publisher ends; its handle is released, or ends with it.               *)
LEMMA EndsType ==
    ASSUME IInv,
           \/ UNCHANGED <<room, pub, janus>>
           \/ \E p \in Publisher : /\ room' = DestroyedIn(room, p)
                                   /\ pub' = [pub EXCEPT ![p] = Ended(@)]
                                   /\ janus' = Left(pub[p].server, p),
           handle' \in [Handle -> HandleRec], UNCHANGED <<task, broom, sweep>>
    PROVE  IInv'
<1>t. TypeOK
  BY DEF IInv
<1>1. /\ room' \in RoomRec /\ pub' \in [Publisher -> PubRec] /\ janus' \in [Server -> JanusRec]
      /\ room'.creating = room.creating
  <2>1. CASE UNCHANGED <<room, pub, janus>>
    BY <1>t, <2>1, Types
  <2>2. CASE \E p \in Publisher : /\ room' = DestroyedIn(room, p)
                                  /\ pub' = [pub EXCEPT ![p] = Ended(@)]
                                  /\ janus' = Left(pub[p].server, p)
    BY <2>2, DestroyType
  <2>. QED  BY <2>1, <2>2
<1>2. task' \in [Handle -> TaskRec] /\ Shapes' /\ IdsFreed'
  BY <1>1, NoOneGoesOn
<1>. QED  BY <1>t, <1>1, <1>2 DEF IInv, TypeOK, JanusRec

LEMMA LeaveStep ==
    ASSUME IInv, NEW h \in Handle, Leave(h) \/ Detach(h) PROVE IInv'
<1>t. /\ TypeOK /\ handle[h].pub \in Publisher \cup {None} /\ handle \in [Handle -> HandleRec]
  BY Types DEF IInv
<1>1. CASE Leave(h)
  <2>1. PICK p \in Publisher : p = handle[h].pub
    BY <1>t, <1>1 DEF Leave
  <2>2. /\ room' = DestroyedIn(room, p) /\ pub' = [pub EXCEPT ![p] = Ended(@)]
        /\ janus' = Left(pub[p].server, p) /\ handle' = Released(p)
        /\ UNCHANGED <<task, broom, sweep>>
    BY <1>1, <2>1 DEF Leave, DestroyPub
  <2>3. handle' \in [Handle -> HandleRec]
    BY <2>2, DestroyType
  <2>. QED  BY <2>2, <2>3, EndsType
<1>2. CASE Detach(h)
  <2>1. handle' \in [Handle -> HandleRec] /\ UNCHANGED <<task, broom, sweep>>
    <3>1. [gone |-> TRUE, pub |-> None] \in HandleRec
      BY DEF HandleRec
    <3>. QED  BY <1>t, <1>2, <3>1 DEF Detach
  <2>2. CASE handle[h].pub # None /\ ~pub[handle[h].pub].destroyed
    <3>1. PICK p \in Publisher : p = handle[h].pub
      BY <1>t, <2>2
    <3>2. /\ room' = DestroyedIn(room, p) /\ pub' = [pub EXCEPT ![p] = Ended(@)]
          /\ janus' = Left(pub[p].server, p)
      BY <1>2, <2>2, <3>1 DEF Detach
    <3>. QED  BY <2>1, <3>2, EndsType
  <2>3. CASE ~(handle[h].pub # None /\ ~pub[handle[h].pub].destroyed)
    <3>1. UNCHANGED <<room, pub, janus>>
      BY <1>2, <2>3 DEF Detach
    <3>. QED  BY <2>1, <3>1, EndsType
  <2>. QED  BY <2>2, <2>3
<1>. QED  BY <1>1, <1>2

LEMMA KickStep ==
    ASSUME IInv, NEW u \in User, Kick(u) PROVE IInv'
<1>t. /\ TypeOK /\ room \in RoomRec /\ pub \in [Publisher -> PubRec]
      /\ handle \in [Handle -> HandleRec] /\ janus \in [Server -> JanusRec]
  BY Types DEF IInv, JanusRec
<1>. PICK p \in Publisher : p = room.participants[u]
  BY <1>t, Types DEF Kick
<1>1. room' \in RoomRec /\ room'.creating = room.creating
  BY <1>t DEF Kick, RoomRec
<1>2. pub' \in [Publisher -> PubRec]
  <2>1. \/ pub' = [pub EXCEPT ![p] = [@ EXCEPT !.inroom = FALSE]]
        \/ pub' = [pub EXCEPT ![p] = Ended(@)]
    BY DEF Kick
  <2>2. [pub[p] EXCEPT !.inroom = FALSE] \in PubRec /\ Ended(pub[p]) \in PubRec
    BY <1>t, EndedType
  <2>. QED  BY <1>t, <2>1, <2>2
<1>3. handle' \in [Handle -> HandleRec]
  <2>1. handle' = handle \/ handle' = Released(p)
    BY DEF Kick
  <2>. QED  BY <1>t, <2>1, DestroyType
<1>4. janus' \in [Server -> JanusRec]
  <2>1. janus' = Left(pub[p].server, p)
    BY DEF Kick
  <2>. QED  BY <2>1, DestroyType
<1>5. UNCHANGED <<task, broom, sweep>>
  BY DEF Kick
<1>6. task' \in [Handle -> TaskRec] /\ Shapes' /\ IdsFreed'
  BY <1>1, <1>5, NoOneGoesOn
<1>. QED  BY <1>t, <1>1, <1>2, <1>3, <1>4, <1>5, <1>6 DEF IInv, TypeOK, JanusRec

LEMMA TellsNextFacts ==
    ASSUME TypeOK, NEW ps \in SUBSET Publisher, NEW bs \in SUBSET BackendRoom, TellsNext(ps, bs)
    PROVE  /\ sweep' \in SweepRec /\ sweep'.todo = bs /\ sweep'.cur = None
           /\ \E qs \in SUBSET ps : Unroomed(qs)
<1>. DEFINE live == {p \in ps : ~pub[p].destroyed}
<1>1. ASSUME NEW p \in live, Unroomed({p} \cup (ps \ live)),
             sweep' = [pc |-> "tell", tell |-> live \ {p}, todo |-> bs, cur |-> None]
      PROVE  /\ sweep' \in SweepRec /\ sweep'.todo = bs /\ sweep'.cur = None
             /\ \E qs \in SUBSET ps : Unroomed(qs)
  <2>1. {p} \cup (ps \ live) \in SUBSET ps
    OBVIOUS
  <2>2. sweep' \in SweepRec
    BY <1>1 DEF SweepRec
  <2>. QED  BY <1>1, <2>1, <2>2
<1>2. ASSUME Unroomed(ps), sweep' = [pc |-> "sweep", tell |-> {}, todo |-> bs, cur |-> None]
      PROVE  /\ sweep' \in SweepRec /\ sweep'.todo = bs /\ sweep'.cur = None
             /\ \E qs \in SUBSET ps : Unroomed(qs)
  BY <1>2 DEF SweepRec
<1>. QED  BY <1>1, <1>2 DEF TellsNext

(* The steps of VideoRoom.destroy() itself; the participants lose the room. *)
Tells == EndRoom \/ Told \/ ToldStalls

LEMMA TellsFacts ==
    ASSUME TypeOK, Tells
    PROVE  /\ room' = Emptied \/ room' = room
           /\ UNCHANGED <<handle, task, broom, janus>>
           /\ sweep' \in SweepRec
           /\ pub' \in [Publisher -> PubRec]
           /\ \A q \in Publisher :
                /\ pub'[q].link = pub[q].link /\ pub'[q].stored = pub[q].stored
                /\ pub'[q].destroyed = pub[q].destroyed /\ pub'[q].user = pub[q].user
                /\ ~pub[q].inroom => ~pub'[q].inroom
<1>t. pub \in [Publisher -> PubRec] /\ sweep \in SweepRec
  BY Types
<1>s. sweep.tell \in SUBSET Publisher /\ sweep.todo \in SUBSET BackendRoom
  BY <1>t DEF SweepRec
<1>l. Listed \in SUBSET Publisher /\ Tabled \in SUBSET BackendRoom
  BY Types DEF Listed, Tabled
<1>1. /\ room' = Emptied \/ room' = room
      /\ UNCHANGED <<handle, task, broom, janus>>
  BY DEF Tells, EndRoom, Told, ToldStalls
<1>2. sweep' \in SweepRec /\ (pub' = pub \/ \E qs \in SUBSET Publisher : Unroomed(qs))
  <2>1. CASE EndRoom
    BY <1>l, <2>1, TellsNextFacts DEF EndRoom
  <2>2. CASE Told
    BY <1>s, <2>2, TellsNextFacts DEF Told
  <2>3. CASE ToldStalls
    BY <1>t, <2>3 DEF ToldStalls, SweepRec
  <2>. QED  BY <2>1, <2>2, <2>3 DEF Tells
<1>3. \A q \in Publisher : /\ [pub[q] EXCEPT !.inroom = FALSE] \in PubRec
                           /\ pub'[q] \in {pub[q], [pub[q] EXCEPT !.inroom = FALSE]}
  BY <1>t, <1>2, EndedType DEF Unroomed
<1>4. pub' \in [Publisher -> PubRec]
  BY <1>t, <1>2, <1>3 DEF Unroomed
<1>5. ASSUME NEW q \in Publisher
      PROVE  /\ pub'[q].link = pub[q].link /\ pub'[q].stored = pub[q].stored
             /\ pub'[q].destroyed = pub[q].destroyed /\ pub'[q].user = pub[q].user
             /\ ~pub[q].inroom => ~pub'[q].inroom
  <2>1. pub[q] \in PubRec
    BY <1>t
  <2>. QED  BY <1>3, <2>1 DEF PubRec
<1>. QED  BY <1>1, <1>2, <1>4, <1>5

LEMMA TellsStep ==
    ASSUME IInv, Tells PROVE IInv'
<1>t. TypeOK /\ room \in RoomRec
  BY Types DEF IInv
<1>e. Emptied \in RoomRec /\ Emptied.creating = {}
  BY DEF Emptied, RoomRec
<1>s. room' = Emptied \/ room' = room
  BY <1>t, TellsFacts
<1>1. room' \in RoomRec /\ room'.creating \in {{}, room.creating}
  BY <1>t, <1>e, <1>s
<1>2. UNCHANGED <<handle, task, broom, janus>>
  BY <1>t, TellsFacts
<1>3. task' \in [Handle -> TaskRec] /\ Shapes' /\ IdsFreed'
  <2>1. CASE room'.creating = room.creating
    BY <1>2, <2>1, NoOneGoesOn
  <2>2. CASE room'.creating = {}
    BY <1>2, <2>2, NoOneGoesOn
  <2>. QED  BY <1>1, <2>1, <2>2
<1>4. sweep' \in SweepRec /\ pub' \in [Publisher -> PubRec]
  BY <1>t, TellsFacts
<1>. QED  BY <1>t, <1>1, <1>2, <1>3, <1>4 DEF IInv, TypeOK

LEMMA SweepStep ==
    ASSUME IInv, Sweep PROVE IInv'
<1>t. /\ TypeOK /\ broom \in [BackendRoom -> BackendRoomRec] /\ janus \in [Server -> JanusRec]
      /\ sweep \in SweepRec
  BY Types DEF IInv
<1>. SUFFICES ASSUME SweepDone \/ \E b \in BackendRoom : SweepNext(b) PROVE IInv'
  BY TellsStep DEF Sweep, Tells
<1>f. UNCHANGED <<room, handle, task, pub>>
  BY DEF SweepNext, SweepDone
<1>j. task' \in [Handle -> TaskRec] /\ Shapes' /\ IdsFreed'
  BY <1>f, NoOneGoesOn
<1>1. ASSUME NEW b \in BackendRoom, SweepNext(b) PROVE IInv'
  <2>1. sweep' \in SweepRec
    BY <1>t, <1>1 DEF SweepNext, SweepRec
  <2>2. broom' = [broom EXCEPT ![b] = [@ EXCEPT !.destroyed = TRUE, !.active = FALSE]]
    <3>1. broom' = [broom EXCEPT ![b].destroyed = TRUE, ![b].active = FALSE]
      BY <1>1 DEF SweepNext
    <3>. QED  BY <1>t, <3>1
  <2>3. [broom[b] EXCEPT !.destroyed = TRUE, !.active = FALSE] \in BackendRoomRec
    BY <1>t, BroomType
  <2>4. broom' \in [BackendRoom -> BackendRoomRec]
    BY <1>t, <2>2, <2>3
  <2>. QED  BY <1>t, <1>f, <1>j, <1>1, <2>1, <2>4 DEF SweepNext, IInv, TypeOK
<1>2. CASE SweepDone
  <2>. PICK b \in BackendRoom : b = sweep.cur
    BY <1>t, <1>2 DEF SweepDone, SweepRec
  <2>. PICK s : s = broom[b].server
    OBVIOUS
  <2>1. sweep' \in SweepRec
    BY <1>t, <1>2 DEF SweepDone, SweepRec
  <2>2. broom' \in [BackendRoom -> BackendRoomRec]
    <3>1. broom' = [broom EXCEPT ![b].link = IF @ = "open" THEN "none" ELSE @]
      BY <1>2 DEF SweepDone
    <3>2. broom' = broom \/ broom' = [broom EXCEPT ![b] = [@ EXCEPT !.link = "none"]]
      <4>1. CASE broom[b].link = "open"
        BY <3>1, <4>1, <1>t
      <4>2. CASE broom[b].link # "open"
        <5>1. broom' = [broom EXCEPT ![b] = [broom[b] EXCEPT !.link = broom[b].link]]
          BY <3>1, <4>2, <1>t
        <5>2. [broom[b] EXCEPT !.link = broom[b].link] = broom[b]
          BY <1>t DEF BackendRoomRec
        <5>. QED  BY <5>1, <5>2, <1>t
      <4>. QED  BY <4>1, <4>2
    <3>3. [broom[b] EXCEPT !.link = "none"] \in BackendRoomRec
      BY <1>t, BroomType
    <3>. QED  BY <1>t, <3>2, <3>3
  <2>3. janus' \in [Server -> JanusRec]
    <3>1. janus' = [janus EXCEPT ![s] = NoJanusRoom] \/ janus' = Left(s, b)
      BY <1>2 DEF SweepDone
    <3>2. [janus EXCEPT ![s] = NoJanusRoom] \in [Server -> JanusRec]
          /\ Left(s, b) \in [Server -> JanusRec]
      BY <1>t, InsideType
    <3>. QED  BY <3>1, <3>2
  <2>. QED  BY <1>t, <1>f, <1>j, <2>1, <2>2, <2>3 DEF IInv, TypeOK, JanusRec
<1>. QED  BY <1>1, <1>2

LEMMA ClosedStep ==
    ASSUME IInv,
           (\E p \in Publisher : PubClosed(p)) \/ (\E b \in BackendRoom : ControlClosed(b))
    PROVE  IInv'
<1>t. /\ TypeOK /\ room \in RoomRec /\ pub \in [Publisher -> PubRec]
      /\ broom \in [BackendRoom -> BackendRoomRec]
  BY Types DEF IInv
<1>1. ASSUME NEW p \in Publisher, PubClosed(p) PROVE IInv'
  <2>1. [Ended(pub[p]) EXCEPT !.link = "closed"] \in PubRec
    BY <1>t, EndedType
  <2>2. pub' \in [Publisher -> PubRec]
    BY <1>t, <1>1, <2>1 DEF PubClosed
  <2>3. /\ room' = DestroyedIn(room, p) /\ handle' = Released(p)
        /\ janus' = Left(pub[p].server, p) /\ UNCHANGED <<task, broom, sweep>>
    BY <1>1 DEF PubClosed
  <2>4. /\ room' \in RoomRec /\ room'.creating = room.creating
        /\ handle' \in [Handle -> HandleRec] /\ janus' \in [Server -> JanusRec]
    BY <2>3, DestroyType
  <2>5. task' \in [Handle -> TaskRec] /\ Shapes' /\ IdsFreed'
    BY <2>3, <2>4, NoOneGoesOn
  <2>. QED  BY <1>t, <2>2, <2>3, <2>4, <2>5 DEF IInv, TypeOK, JanusRec
<1>2. ASSUME NEW b \in BackendRoom, ControlClosed(b) PROVE IInv'
  <2>1. broom[b] \in BackendRoomRec /\ (broom[b].destroyed \/ broom[b].active) \in BOOLEAN
    BY <1>t DEF BackendRoomRec
  <2>2. [broom[b] EXCEPT !.link = "closed", !.active = FALSE,
                         !.destroyed = broom[b].destroyed \/ broom[b].active] \in BackendRoomRec
    BY <2>1 DEF BackendRoomRec, Link
  <2>3. broom' \in [BackendRoom -> BackendRoomRec]
    <3>1. broom' = [broom EXCEPT ![b] =
                      [broom[b] EXCEPT !.link = "closed", !.active = FALSE,
                                       !.destroyed = broom[b].destroyed \/ broom[b].active]]
      BY <1>t, <1>2 DEF ControlClosed
    <3>. QED  BY <1>t, <2>2, <3>1
  <2>4. room' \in RoomRec /\ room'.creating = room.creating
    BY <1>t, <1>2 DEF ControlClosed, Untabled, RoomRec
  <2>5. janus' \in [Server -> JanusRec]
    <3>1. janus' = Left(broom[b].server, b)
      BY <1>2 DEF ControlClosed
    <3>. QED  BY <1>t, <3>1, InsideType
  <2>6. UNCHANGED <<handle, task, pub, sweep>>
    BY <1>2 DEF ControlClosed
  <2>7. task' \in [Handle -> TaskRec] /\ Shapes' /\ IdsFreed'
    BY <2>4, <2>6, NoOneGoesOn
  <2>. QED  BY <1>t, <2>3, <2>4, <2>5, <2>6, <2>7 DEF IInv, TypeOK, JanusRec
<1>. QED  BY <1>1, <1>2

LEMMA InvStutter == IInv /\ UNCHANGED vars => IInv'
BY DEF IInv, TypeOK, Shapes, IdsFreed, At, vars

LEMMA InvStep == IInv /\ [Next]_vars => IInv'
<1>. SUFFICES ASSUME IInv, [Next]_vars PROVE IInv'
  OBVIOUS
<1>1. ASSUME NEW h \in Handle, Answer(h) \/ Resume(h) \/ Publish(h) \/ Leave(h) \/ Detach(h)
      PROVE  IInv'
  BY <1>1, AnswerStep, LockStep, ActivateStep, JoinedStep, JoinFailsStep, PublishedStep,
     PublishStep, LeaveStep DEF Answer, Resume
<1>. QED  BY <1>1, JoinStep, KickStep, TellsStep, SweepStep, HangUpStep, ClosedStep, InvStutter
          DEF Next, DestroyRoom, AutoCleanup, Tells

(* Every variable has its type, whatever is refused, closed or detached.    *)
THEOREM TypeCorrect == Spec => []TypeOK
<1>1. IInv => TypeOK
  BY DEF IInv
<1>. QED  BY <1>1, InvInit, InvStep, PTL DEF Spec

(* An id is in _creating_user_id only for a join that waits: every way out  *)
(* of new_participant() discards it, and destroy() clears them all.         *)
THEOREM IdsFreedHolds == Spec => []IdsFreed
<1>1. IInv => IdsFreed
  BY DEF IInv
<1>. QED  BY <1>1, InvInit, InvStep, PTL DEF Spec

-----------------------------------------------------------------------------
(* A publisher that joins: nobody else has it, it is not in the room, and   *)
(* its backend handle goes with its end.                                    *)
Calm(x) == ~x.stored /\ ~x.inroom /\ (x.destroyed => x.link # "open")

Fresh(h) == At(h, "join") =>
    /\ Calm(pub[task[h].pub])
    /\ pub[task[h].pub].user = task[h].user
    /\ task[h].pub \notin Listed
    /\ \A g \in Handle : /\ handle[g].pub # task[h].pub
                         /\ g # h => task[g].pub # task[h].pub

(* NoLostHandle for a publisher.                                            *)
Joins(h, p) == At(h, "join") /\ task[h].pub = p

OpenPub(p) == pub[p].link = "open" => \/ pub[p].stored /\ ~pub[p].destroyed
                                      \/ \E h \in Handle : Joins(h, p)

PubInv == (\A h \in Handle : Fresh(h)) /\ (\A p \in Publisher : OpenPub(p))

LEMMA PubInit == Init => PubInv
<1>. SUFFICES ASSUME Init PROVE PubInv
  OBVIOUS
<1>1. \A h \in Handle : Fresh(h)
  BY DEF Init, Fresh, At, NoTask
<1>2. \A p \in Publisher : OpenPub(p)
  BY DEF Init, OpenPub, NoPub
<1>. QED  BY <1>1, <1>2 DEF PubInv

-----------------------------------------------------------------------------
(* What a step may do to the references to publishers when nobody begins to *)
(* join with one.                                                           *)
StillJoins(h) == /\ At(h, "join") /\ task'[h].pc = "join"
                 /\ task'[h].pub = task[h].pub /\ task'[h].user = task[h].user

RefsKept ==
    /\ \A g \in Handle :
         /\ task'[g].pc = "join" => StillJoins(g)
         /\ task'[g].pub \in {task[g].pub, handle[g].pub, None}
         /\ \/ handle'[g].pub \in {handle[g].pub, None}
            \/ task'[g].pc # "join" /\ handle'[g].pub = task[g].pub
    /\ \A p \in Listed' : \/ p \in Listed
                          \/ \E g \in Handle : task'[g].pc # "join" /\ task[g].pub = p

LEMMA FreshKept ==
    ASSUME IInv, PubInv, RefsKept, NEW h \in Handle,
           StillJoins(h) => /\ Calm(pub'[task[h].pub])
                            /\ pub'[task[h].pub].user = pub[task[h].pub].user
    PROVE  Fresh(h)'
<1>. SUFFICES ASSUME task'[h].pc = "join"
              PROVE  /\ Calm(pub'[task'[h].pub])
                     /\ pub'[task'[h].pub].user = task'[h].user
                     /\ task'[h].pub \notin Listed'
                     /\ \A g \in Handle : /\ handle'[g].pub # task'[h].pub
                                          /\ g # h => task'[g].pub # task'[h].pub
  BY DEF Fresh, At, Calm
<1>1. /\ StillJoins(h) /\ Fresh(h) /\ At(h, "join") /\ task'[h].pub = task[h].pub
      /\ task'[h].user = task[h].user
  BY DEF RefsKept, PubInv, StillJoins
<1>2. PICK p \in Publisher : p = task[h].pub
  BY <1>1 DEF IInv, Shapes, TaskShape, At
<1>3. p # None
  BY NoneApart
<1>4. /\ p \notin Listed
      /\ \A g \in Handle : handle[g].pub # p /\ (g # h => task[g].pub # p)
  BY <1>1, <1>2 DEF Fresh
<1>5. p \notin Listed'
  BY <1>1, <1>2, <1>4 DEF RefsKept
<1>6. ASSUME NEW g \in Handle
      PROVE  handle'[g].pub # p /\ (g # h => task'[g].pub # p)
  BY <1>3, <1>4 DEF RefsKept
<1>. QED  BY <1>1, <1>2, <1>5, <1>6 DEF Fresh

OpenKept(p) == pub'[p].link = "open" =>
    \/ pub'[p].stored /\ ~pub'[p].destroyed
    \/ /\ pub[p].link = "open" /\ pub'[p].stored = pub[p].stored
       /\ pub'[p].destroyed = pub[p].destroyed
       /\ \A h \in Handle : Joins(h, p) => task'[h].pc = "join" /\ task'[h].pub = p

LEMMA PubKept ==
    ASSUME IInv, PubInv, RefsKept,
           \A h \in Handle :
              StillJoins(h) => /\ Calm(pub'[task[h].pub])
                               /\ pub'[task[h].pub].user = pub[task[h].pub].user,
           \A p \in Publisher : OpenKept(p)
    PROVE  PubInv'
<1>1. \A h \in Handle : Fresh(h)'
  BY FreshKept
<1>2. ASSUME NEW p \in Publisher PROVE OpenPub(p)'
  BY <1>2 DEF PubInv, OpenPub, OpenKept, Joins, At
<1>. QED  BY <1>1, <1>2 DEF PubInv

\* A step of greenlets that has nothing to do with publishers.
QuietTask(g) ==
    /\ task'[g].pub \in {task[g].pub, handle[g].pub, None}
    /\ task'[g].pc = "join" <=> At(g, "join")
    /\ At(g, "join") => task'[g].pub = task[g].pub /\ task'[g].user = task[g].user

LEMMA PubQuiet ==
    ASSUME IInv, PubInv, pub' = pub, handle' = handle, room'.participants = room.participants,
           \A g \in Handle : QuietTask(g)
    PROVE  PubInv'
<1>1. RefsKept
  BY DEF RefsKept, QuietTask, StillJoins, Listed
<1>2. \A h \in Handle : StillJoins(h) => Calm(pub[task[h].pub])
  BY DEF PubInv, Fresh, StillJoins
<1>3. \A p \in Publisher : OpenKept(p)
  BY DEF OpenKept, QuietTask, Joins
<1>. QED  BY <1>1, <1>2, <1>3, PubKept

LEMMA QuietOne ==
    ASSUME IInv, NEW h \in Handle, NEW t, task' = [task EXCEPT ![h] = t],
           t.pub \in {task[h].pub, handle[h].pub, None}, t.pc = "join" <=> At(h, "join"),
           At(h, "join") => t.pub = task[h].pub /\ t.user = task[h].user
    PROVE  \A g \in Handle : QuietTask(g)
<1>. SUFFICES ASSUME NEW g \in Handle PROVE QuietTask(g)
  OBVIOUS
<1>1. task'[g] = IF g = h THEN t ELSE task[g]
  BY Types DEF IInv
<1>. QED  BY <1>1 DEF QuietTask, At

-----------------------------------------------------------------------------
\* A publisher that is free begins to join.
LEMMA PubJoins ==
    ASSUME IInv, PubInv, NEW h \in Handle, NEW u \in User, NEW b, NEW conf,
           ~At(h, "join"), JoinsRoom(h, u, b, conf), handle' = handle
    PROVE  PubInv'
<1>1. PICK p \in Publisher :
         /\ FreePub(p)
         /\ pub' = [pub EXCEPT ![p] = [NoPub EXCEPT !.user = u, !.handle = h, !.link = "open",
                                                    !.server = broom[b].server]]
         /\ task' = [task EXCEPT ![h] = [NoTask EXCEPT !.pc = "join", !.user = u, !.pub = p,
                                                       !.configure = conf]]
  BY DEF JoinsRoom
<1>2. room'.participants = room.participants
  BY Types DEF JoinsRoom, RoomRec, IInv
<1>3. Listed' = Listed
  BY <1>2 DEF Listed
<1>4. /\ pub'[p].user = u /\ pub'[p].link = "open" /\ Calm(pub'[p])
      /\ \A q \in Publisher : q # p => pub'[q] = pub[q]
  BY <1>1, Types DEF NoPub, Calm, IInv
<1>5. /\ task'[h].pc = "join" /\ task'[h].user = u /\ task'[h].pub = p
      /\ \A g \in Handle : g # h => task'[g] = task[g]
  BY <1>1, Types DEF NoTask, IInv
<1>6. p \notin Listed /\ \A g \in Handle : handle[g].pub # p /\ task[g].pub # p
  BY <1>1 DEF FreePub
<1>7. ASSUME NEW g \in Handle PROVE Fresh(g)'
  <2>1. CASE g = h
    BY <1>3, <1>4, <1>5, <1>6, <2>1 DEF Fresh, At, Calm
  <2>2. CASE g # h /\ At(g, "join")
    <3>1. PICK q \in Publisher : q = task[g].pub
      BY <2>2 DEF IInv, Shapes, TaskShape, At
    <3>2. /\ Calm(pub[q]) /\ pub[q].user = task[g].user /\ q \notin Listed /\ q # p
          /\ \A f \in Handle : handle[f].pub # q /\ (f # g => task[f].pub # q)
      BY <1>6, <2>2, <3>1 DEF PubInv, Fresh
    <3>3. task'[g] = task[g] /\ pub'[q] = pub[q]
      BY <1>4, <1>5, <2>2, <3>2
    <3>. QED  BY <1>3, <1>5, <2>2, <3>1, <3>2, <3>3 DEF Fresh, Calm, At
  <2>3. CASE g # h /\ ~At(g, "join")
    BY <1>5, <2>3 DEF Fresh, At
  <2>. QED  BY <2>1, <2>2, <2>3
<1>8. ASSUME NEW q \in Publisher PROVE OpenPub(q)'
  <2>1. CASE q = p
    BY <1>5, <2>1 DEF OpenPub, Joins, At
  <2>2. CASE q # p
    <3>1. pub'[q] = pub[q] /\ OpenPub(q)
      BY <1>4, <2>2 DEF PubInv
    <3>2. \A g \in Handle : Joins(g, q) => task'[g].pc = "join" /\ task'[g].pub = q
      BY <1>5 DEF Joins, At
    <3>. QED  BY <3>1, <3>2 DEF OpenPub, Joins, At
  <2>. QED  BY <2>1, <2>2
<1>. QED  BY <1>7, <1>8 DEF PubInv

LEMMA PubQuietSteps ==
    ASSUME IInv, PubInv, NEW h \in Handle,
           \/ Answer(h) \/ LockTimeout(h) \/ Attached(h) \/ Created(h) \/ Recreate(h)
           \/ ActivationFails(h) \/ Publish(h)
    PROVE  PubInv'
<1>t. TypeOK /\ task[h] \in TaskRec /\ handle[h].pub \in Publisher \cup {None}
  BY Types DEF IInv
<1>1. pub' = pub /\ handle' = handle
  BY DEF Answer, JanusServes, JanusRefuses, LockTimeout, Attached, Created, Recreate,
         ActivationFails, Publish
<1>2. room'.participants = room.participants
  <2>1. room' = room \/ \E s : room' = Untabled(s)
    BY DEF Answer, JanusServes, JanusRefuses, LockTimeout, Attached, Created, Recreate,
           ActivationFails, Publish
  <2>. QED  BY <1>t, <2>1, Types DEF Untabled, RoomRec
<1>3. PICK t : /\ task' = [task EXCEPT ![h] = t]
               /\ t.pub \in {task[h].pub, handle[h].pub, None}
               /\ t.pc = "join" <=> At(h, "join")
               /\ At(h, "join") => t.pub = task[h].pub /\ t.user = task[h].user
  <2>1. CASE LockTimeout(h) \/ ActivationFails(h)
    <3>1. task' = [task EXCEPT ![h] = NoTask] /\ ~At(h, "join")
      BY <2>1 DEF LockTimeout, ActivationFails, Answered, At
    <3>. QED  BY <3>1 DEF NoTask
  <2>2. CASE Publish(h)
    <3>. DEFINE t == [NoTask EXCEPT !.pc = "publish", !.pub = handle[h].pub]
    <3>1. task' = [task EXCEPT ![h] = t] /\ ~At(h, "join")
      BY <2>2 DEF Publish, At
    <3>2. t.pub = handle[h].pub /\ t.pc = "publish"
      BY DEF NoTask
    <3>. HIDE DEF t
    <3>. QED  BY <3>1, <3>2
  <2>3. CASE Answer(h)
    <3>1. PICK r : task' = [task EXCEPT ![h] = [@ EXCEPT !.resp = r]]
      BY <2>3 DEF Answer, JanusServes, JanusRefuses
    <3>. DEFINE t == [task[h] EXCEPT !.resp = r]
    <3>2. t.pc = task[h].pc /\ t.pub = task[h].pub /\ t.user = task[h].user
      BY <1>t DEF TaskRec
    <3>3. task' = [task EXCEPT ![h] = t]
      BY <3>1
    <3>. HIDE DEF t
    <3>. QED  BY <3>2, <3>3 DEF At
  <2>4. CASE Attached(h) \/ Created(h) \/ Recreate(h)
    <3>1. PICK pc \in Activating, r \in {"none", "ok", "exists", "error"} :
            task' = [task EXCEPT ![h] = [@ EXCEPT !.pc = pc, !.resp = r]]
      BY <1>t, <2>4, ActivateGoes
    <3>. DEFINE t == [task[h] EXCEPT !.pc = pc, !.resp = r]
    <3>2. t.pc = pc /\ t.pub = task[h].pub /\ t.user = task[h].user
      BY <1>t DEF TaskRec
    <3>3. task' = [task EXCEPT ![h] = t]
      BY <3>1
    <3>4. ~At(h, "join")
      BY <2>4 DEF Attached, Created, Recreate, Answered, At
    <3>. HIDE DEF t
    <3>. QED  BY <3>2, <3>3, <3>4 DEF Activating
  <2>. QED  BY <2>1, <2>2, <2>3, <2>4
<1>. QED  BY <1>1, <1>2, <1>3, QuietOne, PubQuiet

LEMMA PubJoinSteps ==
    ASSUME IInv, PubInv, NEW h \in Handle,
           \/ LockGot(h) \/ Activated(h)
           \/ \E u \in User, s \in Server, conf \in BOOLEAN : Join(h, u, s, conf)
    PROVE  PubInv'
<1>t. TypeOK /\ task[h] \in TaskRec /\ handle' = handle /\ ~At(h, "join") /\ room \in RoomRec
  BY Types DEF IInv, LockGot, Activated, Join, Answered, At
<1>1. ASSUME NEW u, NEW b, NEW conf, JoinsRoom(h, u, b, conf), u \in User PROVE PubInv'
  BY <1>t, <1>1, PubJoins
<1>2. ASSUME NEW u, NEW b, NEW m, NEW conf, pub' = pub, room'.participants = room.participants,
             \/ Activates(h, u, b, m, conf)
             \/ task' = [task EXCEPT ![h] = [NoTask EXCEPT !.pc = "lock", !.user = u,
                                                           !.broom = b, !.configure = conf]]
      PROVE  PubInv'
  <2>1. PICK t : task' = [task EXCEPT ![h] = t] /\ t.pub = None /\ t.pc # "join"
    <3>1. CASE Activates(h, u, b, m, conf)
      <4>. DEFINE t == [NoTask EXCEPT !.pc = "attach", !.user = u, !.broom = b,
                                      !.creator = m, !.configure = conf]
      <4>1. t.pub = None /\ t.pc = "attach" /\ task' = [task EXCEPT ![h] = t]
        BY <3>1 DEF NoTask, Activates
      <4>. HIDE DEF t
      <4>. QED  BY <4>1
    <3>2. CASE ~Activates(h, u, b, m, conf)
      <4>. DEFINE t == [NoTask EXCEPT !.pc = "lock", !.user = u, !.broom = b,
                                      !.configure = conf]
      <4>1. t.pub = None /\ t.pc = "lock" /\ task' = [task EXCEPT ![h] = t]
        BY <1>2, <3>2 DEF NoTask
      <4>. HIDE DEF t
      <4>. QED  BY <4>1
    <3>. QED  BY <3>1, <3>2
  <2>. QED  BY <1>t, <1>2, <2>1, QuietOne, PubQuiet
<1>3. ASSUME NEW u \in User, NEW s \in Server, NEW conf \in BOOLEAN, Join(h, u, s, conf)
      PROVE  PubInv'
  <2>1. \/ \E b : JoinsRoom(h, u, b, conf)
        \/ /\ pub' = pub /\ (room' = room \/ \E n : room' = [room EXCEPT !.table[s] = n])
           /\ \E b, m : \/ Activates(h, u, b, m, conf)
                        \/ task' = [task EXCEPT ![h] = [NoTask EXCEPT !.pc = "lock", !.user = u,
                                                           !.broom = b, !.configure = conf]]
    BY <1>3 DEF Join
  <2>2. \A n : [room EXCEPT !.table[s] = n].participants = room.participants
    BY <1>t DEF RoomRec
  <2>3. CASE \E b : JoinsRoom(h, u, b, conf)
    BY <1>1, <2>3
  <2>4. ASSUME NEW b, NEW m, pub' = pub, room'.participants = room.participants,
               \/ Activates(h, u, b, m, conf)
               \/ task' = [task EXCEPT ![h] = [NoTask EXCEPT !.pc = "lock", !.user = u,
                                                             !.broom = b, !.configure = conf]]
        PROVE  PubInv'
    BY <1>2, <2>4
  <2>. QED  BY <2>1, <2>2, <2>3, <2>4
<1>4. CASE LockGot(h)
  <2>1. task[h].user \in User
    BY <1>4 DEF LockGot, At, IInv, Shapes, TaskShape
  <2>2. \/ \E b, conf : JoinsRoom(h, task[h].user, b, conf)
        \/ /\ pub' = pub /\ room' = room
           /\ \E b, m, conf : Activates(h, task[h].user, b, m, conf)
    BY <1>4 DEF LockGot
  <2>. QED  BY <1>1, <1>2, <2>1, <2>2
<1>5. CASE Activated(h)
  <2>1. task[h].user \in User
    BY <1>5 DEF Activated, Answered, At, IInv, Shapes, TaskShape, Activating
  <2>2. \E b, conf : JoinsRoom(h, task[h].user, b, conf)
    BY <1>5 DEF Activated
  <2>. QED  BY <1>1, <2>1, <2>2
<1>. QED  BY <1>3, <1>4, <1>5

-----------------------------------------------------------------------------
(* One publisher changes that nobody joins with any more.                   *)
LEMMA PubOther ==
    ASSUME IInv, PubInv, RefsKept, NEW q \in Publisher, NEW x, pub' = [pub EXCEPT ![q] = x],
           \A h \in Handle : At(h, "join") => task[h].pub = q \/ StillJoins(h),
           \A h \in Handle : task[h].pub = q => ~StillJoins(h),
           x.link = "open" => \/ x.stored /\ ~x.destroyed
                              \/ /\ pub[q].link = "open" /\ x.stored = pub[q].stored
                                 /\ x.destroyed = pub[q].destroyed
                                 /\ \A h \in Handle : ~Joins(h, q)
    PROVE  PubInv'
<1>1. pub'[q] = x /\ \A p \in Publisher : p # q => pub'[p] = pub[p]
  BY Types DEF IInv
<1>2. ASSUME NEW h \in Handle, StillJoins(h)
      PROVE  /\ Calm(pub'[task[h].pub])
             /\ pub'[task[h].pub].user = pub[task[h].pub].user
  <2>1. PICK p \in Publisher : p = task[h].pub
    BY <1>2 DEF StillJoins, IInv, Shapes, TaskShape, At
  <2>2. p # q /\ Calm(pub[p])
    BY <1>2, <2>1 DEF PubInv, Fresh, StillJoins
  <2>. QED  BY <1>1, <2>1, <2>2
<1>3. ASSUME NEW p \in Publisher PROVE OpenKept(p)
  <2>1. CASE p = q
    BY <1>1, <2>1 DEF OpenKept
  <2>2. CASE p # q
    BY <1>1, <2>2 DEF OpenKept, Joins, StillJoins
  <2>. QED  BY <2>1, <2>2
<1>. QED  BY <1>2, <1>3, PubKept

\* A publisher that nobody joins with ends with its backend handle.
LEMMA EndedOpen ==
    ASSUME PubInv, NEW q \in Publisher, \A h \in Handle : ~Joins(h, q)
    PROVE  Ended(pub[q]).link = "open" => FALSE
<1>1. pub[q].link = "open" => pub[q].stored
  BY DEF PubInv, OpenPub
<1>. QED  BY <1>1 DEF Ended

LEMMA NobodyJoins ==
    ASSUME IInv, PubInv, NEW q \in Publisher,
           \/ q \in Listed
           \/ pub[q].stored \/ pub[q].inroom
           \/ \E g \in Handle : handle[g].pub = q \/ (~At(g, "join") /\ task[g].pub = q)
    PROVE  \A h \in Handle : ~Joins(h, q)
BY DEF PubInv, Fresh, Joins, Calm

-----------------------------------------------------------------------------
LEMMA ListedKept ==
    ASSUME IInv, NEW r, r = room \/ \E p : r = DestroyedIn(room, p),
           room' = r
    PROVE  Listed' \subseteq Listed
<1>1. CASE room' = room
  BY <1>1 DEF Listed
<1>2. ASSUME NEW p, room' = DestroyedIn(room, p) PROVE Listed' \subseteq Listed
  <2>1. room'.participants = room.participants
        \/ \E u : room'.participants = [room.participants EXCEPT ![u] = None]
    BY <1>2, Types DEF DestroyedIn, RoomRec, IInv
  <2>2. room.participants \in [User -> Publisher \cup {None}]
    BY Types DEF IInv
  <2>3. \A v \in User : room'.participants[v] \in {room.participants[v], None}
    BY <2>1, <2>2
  <2>. QED  BY <2>3 DEF Listed
<1>. QED  BY <1>1, <1>2

LEMMA PubJoined ==
    ASSUME IInv, PubInv, NEW h \in Handle, Joined(h) PROVE PubInv'
<1>t. /\ TypeOK /\ room \in RoomRec /\ pub \in [Publisher -> PubRec]
      /\ handle \in [Handle -> HandleRec] /\ task \in [Handle -> TaskRec]
      /\ At(h, "join") /\ task[h].pc = "join" /\ task[h].pub \in Publisher
  BY Types DEF IInv, Shapes, TaskShape, Joined, Answered, At
<1>. PICK p \in Publisher : p = task[h].pub
  BY <1>t
<1>. DEFINE x == [pub[p] EXCEPT !.stored = TRUE, !.inroom = TRUE]
<1>1. pub' = [pub EXCEPT ![p] = x]
  <2>1. pub' = [pub EXCEPT ![p].stored = TRUE, ![p].inroom = TRUE]
    BY DEF Joined
  <2>. QED  BY <1>t, <2>1
<1>2. x.stored /\ x.link = pub[p].link /\ x.destroyed = pub[p].destroyed
  BY <1>t DEF PubRec
<1>. HIDE DEF x
<1>3. \A g \in Handle : g # h => task'[g] = task[g] /\ handle'[g] = handle[g]
  BY <1>t DEF Joined
<1>4. /\ task'[h].pc # "join" /\ task'[h].pub \in {p, None}
      /\ handle'[h].pub \in {handle[h].pub, p}
  <2>1. \/ task' = [task EXCEPT ![h] = NoTask]
        \/ task' = [task EXCEPT ![h].pc = "publish", ![h].resp = "none"]
    BY DEF Joined
  <2>2. handle' = handle \/ handle' = [handle EXCEPT ![h].pub = p]
    BY DEF Joined
  <2>3. task[h] \in TaskRec /\ handle[h] \in HandleRec
    BY <1>t
  <2>4. task'[h].pc # "join" /\ task'[h].pub \in {p, None}
    BY <1>t, <2>1, <2>3 DEF NoTask, TaskRec
  <2>. QED  BY <1>t, <2>2, <2>3, <2>4 DEF HandleRec
<1>5. \A v \in User : room'.participants[v] \in {room.participants[v], p}
  BY <1>t DEF Joined, Entered, RoomRec
<1>6. Listed' \subseteq Listed \cup {p}
  BY <1>5 DEF Listed
<1>7. RefsKept
  <2>1. ASSUME NEW g \in Handle
        PROVE  /\ task'[g].pc = "join" => StillJoins(g)
               /\ task'[g].pub \in {task[g].pub, handle[g].pub, None}
               /\ \/ handle'[g].pub \in {handle[g].pub, None}
                  \/ task'[g].pc # "join" /\ handle'[g].pub = task[g].pub
    BY <1>3, <1>4 DEF StillJoins, At
  <2>. QED  BY <1>4, <1>6, <2>1 DEF RefsKept
<1>8. pub[p].destroyed => pub[p].link # "open"
  BY <1>t DEF PubInv, Fresh, Calm
<1>9. ASSUME NEW g \in Handle, g # h PROVE task[g].pub # p
  BY <1>t, <1>9 DEF PubInv, Fresh
<1>a. ASSUME NEW g \in Handle, At(g, "join"), task[g].pub # p
      PROVE  StillJoins(g)
  BY <1>a, <1>3 DEF StillJoins, At
<1>b. ASSUME NEW g \in Handle, task[g].pub = p PROVE ~StillJoins(g)
  BY <1>4, <1>9, <1>b DEF StillJoins
<1>c. x.link = "open" => x.stored /\ ~x.destroyed
  BY <1>2, <1>8
<1>. QED  BY <1>1, <1>7, <1>a, <1>b, <1>c, PubOther

-----------------------------------------------------------------------------
LEMMA PubJoinFails ==
    ASSUME IInv, PubInv, NEW h \in Handle, JoinFails(h) PROVE PubInv'
<1>t. /\ TypeOK /\ room \in RoomRec /\ pub \in [Publisher -> PubRec]
      /\ task \in [Handle -> TaskRec]
      /\ At(h, "join") /\ task[h].pc = "join" /\ task[h].pub \in Publisher
  BY Types DEF IInv, Shapes, TaskShape, JoinFails, Answered, At
<1>. PICK p \in Publisher : p = task[h].pub
  BY <1>t
<1>. DEFINE x == [pub[p] EXCEPT !.link = "none", !.destroyed = TRUE]
<1>1. pub' = [pub EXCEPT ![p] = x]
  <2>1. pub' = [pub EXCEPT ![p].link = "none", ![p].destroyed = TRUE]
    BY DEF JoinFails
  <2>. QED  BY <1>t, <2>1
<1>2. x.link = "none"
  BY <1>t DEF PubRec
<1>. HIDE DEF x
<1>3. handle' = handle /\ \A g \in Handle : g # h => task'[g] = task[g]
  BY <1>t DEF JoinFails
<1>4. task'[h].pc # "join" /\ task'[h].pub = None
  BY <1>t DEF JoinFails, NoTask
<1>5. Listed' = Listed
  BY <1>t DEF JoinFails, IdDiscarded, RoomRec, Listed
<1>6. RefsKept
  <2>1. ASSUME NEW g \in Handle
        PROVE  /\ task'[g].pc = "join" => StillJoins(g)
               /\ task'[g].pub \in {task[g].pub, handle[g].pub, None}
    BY <1>3, <1>4 DEF StillJoins, At
  <2>. QED  BY <1>3, <1>5, <2>1 DEF RefsKept
<1>7. ASSUME NEW g \in Handle, g # h PROVE task[g].pub # p
  BY <1>t, <1>7 DEF PubInv, Fresh
<1>8. ASSUME NEW g \in Handle, At(g, "join"), task[g].pub # p PROVE StillJoins(g)
  BY <1>3, <1>8 DEF StillJoins, At
<1>9. ASSUME NEW g \in Handle, task[g].pub = p PROVE ~StillJoins(g)
  BY <1>4, <1>7, <1>9 DEF StillJoins
<1>. QED  BY <1>1, <1>2, <1>6, <1>8, <1>9, PubOther

\* A publisher that nobody joins with changes or ends.
LEMMA PubChanges ==
    ASSUME IInv, PubInv, NEW q \in Publisher, \A h \in Handle : ~Joins(h, q), NEW x,
           x.link = "open" => /\ pub[q].link = "open" /\ x.stored = pub[q].stored
                              /\ x.destroyed = pub[q].destroyed,
           pub' = [pub EXCEPT ![q] = x], \A g \in Handle : QuietTask(g),
           \A g \in Handle : \/ handle'[g].pub \in {handle[g].pub, None}
                             \/ ~At(g, "join") /\ handle'[g].pub = task[g].pub,
           Listed' \subseteq Listed
    PROVE  PubInv'
<1>1. RefsKept
  <2>1. ASSUME NEW g \in Handle
        PROVE  /\ task'[g].pc = "join" => StillJoins(g)
               /\ task'[g].pub \in {task[g].pub, handle[g].pub, None}
               /\ \/ handle'[g].pub \in {handle[g].pub, None}
                  \/ task'[g].pc # "join" /\ handle'[g].pub = task[g].pub
    BY DEF QuietTask, StillJoins
  <2>. QED  BY <2>1 DEF RefsKept
<1>2. ASSUME NEW g \in Handle, At(g, "join") PROVE StillJoins(g) /\ task[g].pub # q
  BY <1>2 DEF QuietTask, StillJoins, Joins
<1>3. ASSUME NEW g \in Handle, task[g].pub = q PROVE ~StillJoins(g)
  BY <1>3 DEF StillJoins, Joins
<1>. QED  BY <1>1, <1>2, <1>3, PubOther

LEMMA NothingGoesOn ==
    ASSUME IInv, task' = task PROVE \A g \in Handle : QuietTask(g)
BY DEF QuietTask, At

\* Whatever else ends with it, the publisher and its place in the room do.
LEMMA PubEnds ==
    ASSUME IInv, PubInv, NEW q \in Publisher, \A h \in Handle : ~Joins(h, q),
           pub' = [pub EXCEPT ![q] = Ended(@)], \A g \in Handle : QuietTask(g),
           \A g \in Handle : handle'[g].pub \in {handle[g].pub, None},
           room' = DestroyedIn(room, q)
    PROVE  PubInv'
<1>1. Listed' \subseteq Listed
  BY ListedKept
<1>2. Ended(pub[q]).link # "open"
  BY EndedOpen
<1>. DEFINE x == Ended(pub[q])
<1>3. pub' = [pub EXCEPT ![q] = x] /\ x.link # "open"
  BY <1>2
<1>. HIDE DEF x
<1>. QED  BY <1>1, <1>3, PubChanges

LEMMA ReleasedPub ==
    ASSUME IInv, NEW p PROVE \A g \in Handle : Released(p)[g].pub \in {handle[g].pub, None}
<1>1. \A g \in Handle : handle[g] \in HandleRec
  BY Types DEF IInv
<1>. QED  BY <1>1 DEF Released, HandleRec

LEMMA PubLeaves ==
    ASSUME IInv, PubInv, NEW h \in Handle, Leave(h) \/ Detach(h) PROVE PubInv'
<1>t. /\ TypeOK /\ handle[h].pub \in Publisher \cup {None} /\ handle \in [Handle -> HandleRec]
      /\ \A g \in Handle : QuietTask(g)
  BY Types, NothingGoesOn DEF IInv, Leave, Detach
<1>1. \A g \in Handle : handle'[g].pub \in {handle[g].pub, None}
  <2>1. CASE Leave(h)
    <3>1. PICK p : handle' = Released(p)
      BY <2>1 DEF Leave
    <3>. QED  BY <3>1, ReleasedPub
  <2>2. CASE Detach(h)
    BY <1>t, <2>2 DEF Detach
  <2>. QED  BY <2>1, <2>2
<1>2. CASE handle[h].pub # None /\ ~pub[handle[h].pub].destroyed
  <2>1. PICK p \in Publisher : p = handle[h].pub
    BY <1>t, <1>2
  <2>2. room' = DestroyedIn(room, p) /\ pub' = [pub EXCEPT ![p] = Ended(@)]
    BY <1>2, <2>1 DEF Leave, Detach, DestroyPub
  <2>3. \A g \in Handle : ~Joins(g, p)
    BY <2>1, NobodyJoins
  <2>. QED  BY <1>t, <1>1, <2>2, <2>3, PubEnds
<1>3. CASE ~(handle[h].pub # None /\ ~pub[handle[h].pub].destroyed)
  <2>1. UNCHANGED <<room, pub>>
    BY <1>3 DEF Leave, Detach
  <2>2. RefsKept
    <3>1. \A g \in Handle : task'[g].pc = "join" => StillJoins(g)
      BY <1>t DEF QuietTask, StillJoins
    <3>. QED  BY <1>t, <1>1, <2>1, <3>1 DEF RefsKept, QuietTask, Listed
  <2>3. \A g \in Handle : StillJoins(g) => Calm(pub[task[g].pub])
    BY DEF PubInv, Fresh, StillJoins
  <2>4. \A p \in Publisher : OpenKept(p)
    BY <1>t, <2>1 DEF OpenKept, QuietTask, Joins
  <2>. QED  BY <2>1, <2>2, <2>3, <2>4, PubKept
<1>. QED  BY <1>2, <1>3

LEMMA PubPublished ==
    ASSUME IInv, PubInv, NEW h \in Handle, Published(h) \/ PublishFails(h) PROVE PubInv'
<1>t. /\ TypeOK /\ pub \in [Publisher -> PubRec] /\ handle \in [Handle -> HandleRec]
      /\ ~At(h, "join") /\ task[h].pub \in Publisher
  <2>1. task[h] \in TaskRec /\ TaskShape(task[h]) /\ task[h].pc = "publish"
    BY Types DEF IInv, Shapes, Published, PublishFails, Answered, At
  <2>. QED  BY <2>1, Types DEF IInv, TaskShape, At
<1>. PICK p \in Publisher : p = task[h].pub
  BY <1>t
<1>1. \A g \in Handle : ~Joins(g, p)
  BY <1>t, NobodyJoins
<1>2. \A g \in Handle : QuietTask(g)
  <2>1. task' = [task EXCEPT ![h] = NoTask] /\ NoTask.pub = None /\ NoTask.pc = "idle"
    BY DEF Published, PublishFails, NoTask
  <2>. QED  BY <1>t, <2>1, QuietOne
<1>3. CASE pub' = [pub EXCEPT ![p] = Ended(@)] /\ room' = DestroyedIn(room, p) /\ handle' = handle
  BY <1>1, <1>2, <1>3, PubEnds
<1>4. CASE pub' = pub /\ room' = room /\ handle' = handle
  BY <1>2, <1>4, PubQuiet
<1>5. CASE /\ pub' = [pub EXCEPT ![p].sdp = TRUE] /\ room' = room
           /\ handle' = handle \/ handle' = [handle EXCEPT ![h].pub = p]
  <2>. DEFINE x == [pub[p] EXCEPT !.sdp = TRUE]
  <2>1. /\ pub' = [pub EXCEPT ![p] = x] /\ x.link = pub[p].link /\ x.stored = pub[p].stored
        /\ x.destroyed = pub[p].destroyed
    BY <1>t, <1>5 DEF PubRec
  <2>. HIDE DEF x
  <2>2. Listed' \subseteq Listed
    BY <1>5 DEF Listed
  <2>3. \A g \in Handle : \/ handle'[g].pub \in {handle[g].pub, None}
                          \/ ~At(g, "join") /\ handle'[g].pub = task[g].pub
    BY <1>t, <1>5 DEF HandleRec
  <2>. QED  BY <1>1, <1>2, <2>1, <2>2, <2>3, PubChanges
<1>6. \/ pub' = [pub EXCEPT ![p] = Ended(@)] /\ room' = DestroyedIn(room, p) /\ handle' = handle
      \/ pub' = pub /\ room' = room /\ handle' = handle
      \/ /\ pub' = [pub EXCEPT ![p].sdp = TRUE] /\ room' = room
         /\ handle' = handle \/ handle' = [handle EXCEPT ![h].pub = p]
  BY DEF Published, PublishFails, DestroyPub
<1>. QED  BY <1>3, <1>4, <1>5, <1>6

-----------------------------------------------------------------------------
LEMMA PubKicked ==
    ASSUME IInv, PubInv, NEW u \in User, Kick(u) PROVE PubInv'
<1>t. /\ TypeOK /\ room \in RoomRec /\ pub \in [Publisher -> PubRec]
      /\ handle \in [Handle -> HandleRec] /\ \A g \in Handle : QuietTask(g)
  BY Types, NothingGoesOn DEF IInv, Kick
<1>. PICK p \in Publisher : p = room.participants[u]
  BY <1>t, Types DEF Kick
<1>1. \A g \in Handle : ~Joins(g, p)
  <2>1. p \in Listed
    BY NoneApart DEF Listed
  <2>. QED  BY <2>1, NobodyJoins
<1>2. Listed' \subseteq Listed
  <2>1. \A v \in User : room'.participants[v] \in {room.participants[v], None}
    BY <1>t DEF Kick, RoomRec
  <2>. QED  BY <2>1 DEF Listed
<1>3. \A g \in Handle : handle'[g].pub \in {handle[g].pub, None}
  <2>1. handle' = handle \/ handle' = Released(p)
    BY DEF Kick
  <2>. QED  BY <2>1, ReleasedPub
<1>4. PICK x : /\ pub' = [pub EXCEPT ![p] = x]
               /\ x.link = "open" => /\ pub[p].link = "open" /\ x.stored = pub[p].stored
                                     /\ x.destroyed = pub[p].destroyed
  <2>1. CASE pub' = [pub EXCEPT ![p] = Ended(@)]
    <3>1. Ended(pub[p]).link # "open"
      BY <1>1, EndedOpen
    <3>. DEFINE x == Ended(pub[p])
    <3>2. pub' = [pub EXCEPT ![p] = x] /\ x.link # "open"
      BY <2>1, <3>1
    <3>. HIDE DEF x
    <3>. QED  BY <3>2
  <2>2. CASE pub' = [pub EXCEPT ![p] = [@ EXCEPT !.inroom = FALSE]]
    <3>. DEFINE x == [pub[p] EXCEPT !.inroom = FALSE]
    <3>1. /\ pub' = [pub EXCEPT ![p] = x] /\ x.link = pub[p].link /\ x.stored = pub[p].stored
          /\ x.destroyed = pub[p].destroyed
      BY <1>t, <2>2 DEF PubRec
    <3>. HIDE DEF x
    <3>. QED  BY <3>1
  <2>. QED  BY <2>1, <2>2 DEF Kick
<1>. QED  BY <1>t, <1>1, <1>2, <1>3, <1>4, PubChanges

LEMMA PubHungUp ==
    ASSUME IInv, PubInv, NEW p \in Publisher, HangUp(p) PROVE PubInv'
<1>t. /\ pub \in [Publisher -> PubRec] /\ \A g \in Handle : QuietTask(g)
      /\ room' = room /\ handle' = handle
  BY Types, NothingGoesOn DEF IInv, HangUp
<1>1. \A g \in Handle : ~Joins(g, p)
  BY NobodyJoins DEF HangUp
<1>. DEFINE x == [pub[p] EXCEPT !.sdp = FALSE]
<1>2. /\ pub' = [pub EXCEPT ![p] = x] /\ x.link = pub[p].link /\ x.stored = pub[p].stored
      /\ x.destroyed = pub[p].destroyed
  BY <1>t DEF PubRec, HangUp
<1>. HIDE DEF x
<1>3. Listed' \subseteq Listed
  BY <1>t DEF Listed
<1>. QED  BY <1>t, <1>1, <1>2, <1>3, PubChanges

\* Also a publisher that joins may be closed: its end is then its answer.
LEMMA PubClosedStep ==
    ASSUME IInv, PubInv, NEW p \in Publisher, PubClosed(p) PROVE PubInv'
<1>t. /\ pub \in [Publisher -> PubRec] /\ task' = task /\ room' = DestroyedIn(room, p)
      /\ handle' = Released(p)
  BY Types DEF IInv, PubClosed
<1>1. /\ \A q \in Publisher : q # p => pub'[q] = pub[q]
      /\ pub'[p].link = "closed" /\ ~pub'[p].stored /\ ~pub'[p].inroom
      /\ pub'[p].user = pub[p].user
  BY <1>t DEF PubClosed, Ended, PubRec
<1>2. Listed' \subseteq Listed
  BY <1>t, ListedKept
<1>3. \A g \in Handle : handle'[g].pub \in {handle[g].pub, None}
  BY <1>t, ReleasedPub
<1>4. RefsKept
  BY <1>t, <1>2, <1>3 DEF RefsKept, StillJoins, At
<1>5. ASSUME NEW h \in Handle, StillJoins(h)
      PROVE  /\ Calm(pub'[task[h].pub])
             /\ pub'[task[h].pub].user = pub[task[h].pub].user
  <2>1. PICK q \in Publisher : q = task[h].pub
    BY <1>5 DEF StillJoins, IInv, Shapes, TaskShape, At
  <2>2. Calm(pub[q])
    BY <1>5, <2>1 DEF PubInv, Fresh, StillJoins
  <2>3. CASE q = p
    BY <1>1, <2>1, <2>3 DEF Calm
  <2>4. CASE q # p
    BY <1>1, <2>1, <2>2, <2>4
  <2>. QED  BY <2>3, <2>4
<1>6. ASSUME NEW q \in Publisher PROVE OpenKept(q)
  BY <1>t, <1>1 DEF OpenKept, Joins, At
<1>. QED  BY <1>4, <1>5, <1>6, PubKept

LEMMA PubTells ==
    ASSUME IInv, PubInv, Tells PROVE PubInv'
<1>t. TypeOK /\ task' = task /\ handle' = handle
  BY TellsFacts DEF IInv
<1>1. ASSUME NEW q \in Publisher
      PROVE  /\ pub'[q].link = pub[q].link /\ pub'[q].stored = pub[q].stored
             /\ pub'[q].destroyed = pub[q].destroyed /\ pub'[q].user = pub[q].user
             /\ ~pub[q].inroom => ~pub'[q].inroom
  BY <1>t, TellsFacts
<1>2. Listed' \subseteq Listed
  BY <1>t, TellsFacts DEF Emptied, Listed
<1>3. RefsKept
  BY <1>t, <1>2 DEF RefsKept, StillJoins, At
<1>4. ASSUME NEW h \in Handle, StillJoins(h)
      PROVE  /\ Calm(pub'[task[h].pub])
             /\ pub'[task[h].pub].user = pub[task[h].pub].user
  <2>1. PICK q \in Publisher : q = task[h].pub
    BY <1>4 DEF StillJoins, IInv, Shapes, TaskShape, At
  <2>2. Calm(pub[q])
    BY <1>4, <2>1 DEF PubInv, Fresh, StillJoins
  <2>. QED  BY <1>1, <2>1, <2>2 DEF Calm
<1>5. ASSUME NEW q \in Publisher PROVE OpenKept(q)
  BY <1>t, <1>1 DEF OpenKept, Joins, At
<1>. QED  BY <1>3, <1>4, <1>5, PubKept

LEMMA PubElsewhere ==
    ASSUME IInv, PubInv, Sweep \/ \E b \in BackendRoom : ControlClosed(b) PROVE PubInv'
<1>. SUFFICES ASSUME \/ SweepDone
                     \/ \E b \in BackendRoom : SweepNext(b) \/ ControlClosed(b)
              PROVE  PubInv'
  BY PubTells DEF Sweep, Tells
<1>1. pub' = pub /\ handle' = handle /\ task' = task
  BY DEF SweepNext, SweepDone, ControlClosed
<1>2. room' = room \/ \E s : room' = Untabled(s)
  BY DEF SweepNext, SweepDone, ControlClosed
<1>3. room'.participants = room.participants
  BY <1>2, Types DEF Untabled, RoomRec, IInv
<1>. QED  BY <1>1, <1>3, NothingGoesOn, PubQuiet

LEMMA PubStutter == IInv /\ PubInv /\ UNCHANGED vars => PubInv'
BY DEF PubInv, Fresh, OpenPub, Joins, At, Listed, Calm, vars

LEMMA PubStep == IInv /\ PubInv /\ [Next]_vars => PubInv'
<1>. SUFFICES ASSUME IInv, PubInv, [Next]_vars PROVE PubInv'
  OBVIOUS
<1>1. ASSUME NEW h \in Handle, Answer(h) \/ Resume(h) \/ Publish(h) \/ Leave(h) \/ Detach(h)
      PROVE  PubInv'
  BY <1>1, PubQuietSteps, PubJoinSteps, PubJoined, PubJoinFails, PubPublished, PubLeaves
     DEF Resume
<1>2. ASSUME NEW h \in Handle, \E u \in User, s \in Server, conf \in BOOLEAN : Join(h, u, s, conf)
      PROVE  PubInv'
  BY <1>2, PubJoinSteps
<1>3. CASE DestroyRoom \/ AutoCleanup
  BY <1>3, PubTells DEF DestroyRoom, AutoCleanup, Tells
<1>4. CASE UNCHANGED vars
  BY <1>4, PubStutter
<1>. QED  BY <1>1, <1>2, <1>3, <1>4, PubKicked, PubHungUp, PubClosedStep, PubElsewhere DEF Next

-----------------------------------------------------------------------------
(* A greenlet that activates a backend room has its lock. The backend room  *)
(* is not active before it is created, and while it is created it is not    *)
(* destroyed but with the room.                                             *)
Held(h) ==
    LET b == task[h].broom
    IN /\ task[h].pc \in Activating \cup {"lock"} => broom[b].server \in Server
       /\ task[h].pc \in Activating => broom[b].lock = h
       /\ task[h].pc \in {"attach", "create", "wipe"} => ~broom[b].active
       /\ task[h].pc \in {"create", "wipe"} /\ broom[b].destroyed => room.destroyed
       /\ At(h, "control") => broom[b].active \/ broom[b].destroyed \/ broom[b].link # "open"

\* The lock has its greenlet; who is active without it is there and not destroyed.
Locks(b) ==
    /\ broom[b].lock # None => /\ task[broom[b].lock].pc \in Activating
                               /\ task[broom[b].lock].broom = b
    /\ broom[b].lock = None /\ broom[b].active => /\ ~broom[b].destroyed
                                                  /\ broom[b].server \in Server

\* NoLostHandle for a backend room.
OpenBroom(b) ==
    broom[b].link = "open" => broom[b].active \/ broom[b].lock # None \/ sweep.cur = b

\* One that is not destroyed is in the table of the room or will be swept.
Live(b) == broom[b].server # None /\ ~broom[b].destroyed
             => room.table[broom[b].server] = b \/ b \in sweep.todo

\* It is activated but for the last step of its greenlet.
Ready(b) == /\ broom[b].active
            /\ broom[b].lock = None \/ Answered(broom[b].lock, "control", "ok")

InTable(b) == \A s \in Server : room.table[s] = b =>
    /\ broom[b].server = s /\ ~broom[b].destroyed
    /\ Ready(b) => broom[b].link = "open" /\ b \in janus[s].inside

BroomOK(b) ==
    /\ \A h \in Handle : task[h].broom = b => Held(h)
    /\ Locks(b) /\ OpenBroom(b) /\ Live(b) /\ InTable(b)

\* A destroyed room has no table, and only its backend rooms are swept.
Swept == /\ room.destroyed => \A s \in Server : room.table[s] = None
         /\ sweep.todo # {} \/ sweep.cur # None => room.destroyed
         /\ sweep.pc = "tell" => sweep.cur = None

BroomInv == Swept /\ \A b \in BackendRoom : BroomOK(b)

LEMMA BroomInit == Init => BroomInv
<1>. SUFFICES ASSUME Init PROVE BroomInv
  OBVIOUS
<1>1. Swept
  BY DEF Init, Swept
<1>2. ASSUME NEW b \in BackendRoom PROVE BroomOK(b)
  <2>1. /\ broom[b].server = None /\ broom[b].lock = None /\ ~broom[b].active
        /\ broom[b].link = "none" /\ \A s \in Server : room.table[s] # b
        /\ \A h \in Handle : task[h].broom # b
    BY NoneApart DEF Init, NoBackendRoom, NoTask
  <2>. QED  BY <2>1 DEF BroomOK, Locks, OpenBroom, Live, InTable
<1>. QED  BY <1>1, <1>2 DEF BroomInv

-----------------------------------------------------------------------------
(* What of a step leaves BroomOK(b) as it is.                               *)
SameTasks(b) == \A g \in Handle :
    /\ task'[g].pc \in Activating /\ task'[g].broom = b => task'[g] = task[g]
    /\ task'[g].pc = "lock" /\ task'[g].broom = b => broom[b].server \in Server
    /\ task[g].pc \in Activating /\ task[g].broom = b => task'[g] = task[g]

SameTable(b) ==
    \/ /\ room'.destroyed
       /\ \A s \in Server : room'.table[s] = None /\ (room.table[s] = b => b \in sweep'.todo)
    \/ /\ room'.destroyed = room.destroyed
       /\ \A s \in Server :
            /\ room'.table[s] = b <=> room.table[s] = b
            /\ room.table[s] = b /\ Ready(b) /\ b \in janus[s].inside => b \in janus'[s].inside

LEMMA BroomSame ==
    ASSUME IInv, BroomInv, NEW b \in BackendRoom, broom'[b] = broom[b], SameTasks(b), SameTable(b),
           sweep.cur = b => sweep'.cur = b, b \in sweep.todo => b \in sweep'.todo
    PROVE  BroomOK(b)'
<1>o. BroomOK(b) /\ b # None /\ broom[b].lock \in Handle \cup {None}
      /\ broom[b].server \in Server \cup {None}
  BY NoneApart, Types DEF BroomInv, IInv, BackendRoomRec
<1>1. ASSUME NEW h \in Handle, task'[h].broom = b PROVE Held(h)'
  <2>1. task'[h].pc = "lock" => broom[b].server \in Server
    BY <1>1 DEF SameTasks
  <2>2. CASE task'[h].pc \in Activating
    <3>1. task'[h] = task[h] /\ Held(h) /\ task[h].broom = b
      BY <1>o, <1>1, <2>2 DEF SameTasks, BroomOK
    <3>2. room.destroyed => room'.destroyed
      BY DEF SameTable
    <3>. QED  BY <3>1, <3>2 DEF Held, At
  <2>3. CASE task'[h].pc \notin Activating
    BY <1>1, <2>1, <2>3 DEF Held, Activating, At
  <2>. QED  BY <2>2, <2>3
<1>2. Locks(b)'
  <2>1. broom[b].lock # None => /\ task[broom[b].lock].pc \in Activating
                                /\ task[broom[b].lock].broom = b
    BY <1>o DEF BroomOK, Locks
  <2>2. broom[b].lock # None => task'[broom[b].lock] = task[broom[b].lock]
    BY <1>o, <2>1 DEF SameTasks
  <2>. QED  BY <1>o, <2>1, <2>2 DEF BroomOK, Locks
<1>3. OpenBroom(b)'
  BY <1>o DEF BroomOK, OpenBroom
<1>4. Live(b)'
  BY <1>o DEF BroomOK, Live, SameTable
<1>5. InTable(b)'
  <2>1. CASE \A s \in Server : room'.table[s] = None
    BY <1>o, <2>1 DEF InTable
  <2>2. CASE \A s \in Server :
               /\ room'.table[s] = b <=> room.table[s] = b
               /\ room.table[s] = b /\ Ready(b) /\ b \in janus[s].inside => b \in janus'[s].inside
    <3>1. Ready(b)' => Ready(b)
      <4>1. broom[b].lock # None => task'[broom[b].lock] = task[broom[b].lock]
        BY <1>o DEF BroomOK, Locks, SameTasks
      <4>. QED  BY <4>1 DEF Ready, Answered, At
    <3>. QED  BY <1>o, <2>2, <3>1 DEF BroomOK, InTable
  <2>. QED  BY <2>1, <2>2 DEF SameTable
<1>. QED  BY <1>1, <1>2, <1>3, <1>4, <1>5 DEF BroomOK

-----------------------------------------------------------------------------
\* The step leaves the backend rooms and the table alone.
LEMMA BroomQuiet ==
    ASSUME IInv, BroomInv, broom' = broom, sweep' = sweep,
           room'.destroyed = room.destroyed, room'.table = room.table,
           \A b \in BackendRoom : SameTasks(b),
           \A s \in Server : \A b \in BackendRoom : b \in janus[s].inside => b \in janus'[s].inside
    PROVE  BroomInv'
<1>1. Swept'
  BY DEF BroomInv, Swept
<1>2. ASSUME NEW b \in BackendRoom PROVE BroomOK(b)'
  <2>1. SameTable(b)
    BY DEF SameTable
  <2>. QED  BY <2>1, BroomSame
<1>. QED  BY <1>1, <1>2 DEF BroomInv

LEMMA TaskQuiet ==
    ASSUME IInv, BroomInv, NEW h \in Handle, task[h].pc \notin Activating, NEW t,
           task' = [task EXCEPT ![h] = t], t.pc \notin Activating,
           t.pc = "lock" => broom[t.broom].server \in Server
    PROVE  \A b \in BackendRoom : SameTasks(b)
<1>1. \A g \in Handle : task'[g] = IF g = h THEN t ELSE task[g]
  BY Types DEF IInv
<1>2. ASSUME NEW g \in Handle, task[g].pc = "lock", task[g].broom \in BackendRoom
      PROVE  broom[task[g].broom].server \in Server
  BY <1>2 DEF BroomInv, BroomOK, Held
<1>. QED  BY <1>1, <1>2 DEF SameTasks

LEMMA PubLeavesJanus ==
    ASSUME IInv, NEW s, NEW p \in Publisher, NEW b \in BackendRoom, NEW z \in Server,
           b \in janus[z].inside
    PROVE  b \in Left(s, p)[z].inside
<1>1. b # p /\ janus \in [Server -> JanusRec]
  BY NoneApart, Types DEF IInv
<1>. QED  BY <1>1 DEF Left, JanusRec

LEMMA PubLeavesRoom ==
    ASSUME IInv, NEW p
    PROVE  /\ DestroyedIn(room, p).destroyed = room.destroyed
           /\ DestroyedIn(room, p).table = room.table
<1>1. room \in RoomRec
  BY Types DEF IInv
<1>. QED  BY <1>1 DEF DestroyedIn, RoomRec

LEMMA NoTaskQuiet ==
    ASSUME IInv, BroomInv, task' = task PROVE \A b \in BackendRoom : SameTasks(b)
BY DEF BroomInv, BroomOK, Held, SameTasks

\* The actions of publishers that join no backend room.
LEMMA BroomPubSteps ==
    ASSUME IInv, BroomInv,
           \/ \E p \in Publisher : HangUp(p) \/ PubClosed(p)
           \/ \E h \in Handle : Leave(h) \/ Detach(h)
           \/ \E u \in User : Kick(u)
    PROVE  BroomInv'
<1>t. room \in RoomRec /\ \A h \in Handle : handle[h].pub \in Publisher \cup {None}
  BY Types DEF IInv
<1>1. UNCHANGED <<task, broom, sweep>>
  BY DEF HangUp, PubClosed, Leave, Detach, Kick
<1>2. room'.destroyed = room.destroyed /\ room'.table = room.table
  <2>1. ASSUME NEW u \in User, Kick(u)
        PROVE  room'.destroyed = room.destroyed /\ room'.table = room.table
    BY <1>t, <2>1 DEF Kick, RoomRec
  <2>2. \/ \E u \in User : Kick(u)
        \/ room' = room \/ \E p : room' = DestroyedIn(room, p)
    BY DEF HangUp, PubClosed, Leave, Detach
  <2>. QED  BY <2>1, <2>2, PubLeavesRoom
<1>3. janus' = janus \/ \E s : \E p \in Publisher : janus' = Left(s, p)
  <2>1. ASSUME NEW h \in Handle, Leave(h) \/ Detach(h)
        PROVE  janus' = janus \/ \E s : \E p \in Publisher : janus' = Left(s, p)
    <3>1. \/ janus' = janus
          \/ handle[h].pub # None /\ janus' = Left(pub[handle[h].pub].server, handle[h].pub)
      BY <2>1 DEF Leave, Detach
    <3>. QED  BY <1>t, <3>1
  <2>2. ASSUME NEW u \in User, Kick(u) PROVE \E s : \E p \in Publisher : janus' = Left(s, p)
    <3>1. room.participants[u] \in Publisher
      BY <2>2, Types DEF IInv, Kick
    <3>. QED  BY <2>2, <3>1 DEF Kick
  <2>. QED  BY <2>1, <2>2 DEF HangUp, PubClosed
<1>4. \A s \in Server : \A b \in BackendRoom : b \in janus[s].inside => b \in janus'[s].inside
  BY <1>3, PubLeavesJanus
<1>. QED  BY <1>1, <1>2, <1>4, NoTaskQuiet, BroomQuiet

LEMMA BroomTaskSteps ==
    ASSUME IInv, BroomInv, NEW h \in Handle,
           \/ Joined(h) \/ JoinFails(h) \/ Publish(h) \/ Published(h) \/ PublishFails(h)
           \/ LockTimeout(h) \/ (Answer(h) /\ task[h].pc \notin Activating)
    PROVE  BroomInv'
<1>t. /\ room \in RoomRec /\ task[h] \in TaskRec /\ TaskShape(task[h])
      /\ task[h].pc \notin Activating
  BY Types DEF IInv, Shapes, Joined, JoinFails, Publish, Published, PublishFails, LockTimeout,
               Answered, At, Activating
<1>1. UNCHANGED <<broom, sweep>>
  BY DEF Joined, JoinFails, Publish, Published, PublishFails, LockTimeout, Answer, JanusServes,
         JanusRefuses
<1>2. room'.destroyed = room.destroyed /\ room'.table = room.table
  <2>1. \/ room' = room \/ (\E p : room' = DestroyedIn(room, p))
        \/ (\E u, p : room' = Entered(room, u, p)) \/ (\E u : room' = IdDiscarded(room, u))
    BY DEF Joined, JoinFails, Publish, Published, PublishFails, LockTimeout, Answer,
           JanusServes, JanusRefuses
  <2>. QED  BY <1>t, <2>1, PubLeavesRoom DEF Entered, IdDiscarded, RoomRec
<1>3. \A s \in Server : \A b \in BackendRoom : b \in janus[s].inside => b \in janus'[s].inside
  <2>1. CASE JanusServes(h)
    <3>1. \/ janus' = janus
          \/ \E s, x : janus' = [janus EXCEPT ![s].inside = @ \cup {x}]
      BY <1>t, <2>1 DEF JanusServes, Serve, At, Activating
    <3>. QED  BY <3>1, Types DEF IInv, JanusRec
  <2>2. CASE ~JanusServes(h)
    <3>1. \/ janus' = janus
          \/ task[h].pub \in Publisher /\ \E s : janus' = Left(s, task[h].pub)
      BY <1>t, <2>2 DEF Joined, JoinFails, Publish, Published, PublishFails, LockTimeout,
                        Answer, JanusRefuses, Answered, At, TaskShape
    <3>. QED  BY <3>1, PubLeavesJanus
  <2>. QED  BY <2>1, <2>2
<1>4. \A b \in BackendRoom : SameTasks(b)
  <2>1. CASE Answer(h)
    <3>1. PICK r : task' = [task EXCEPT ![h] = [@ EXCEPT !.resp = r]]
      BY <2>1 DEF Answer, JanusServes, JanusRefuses
    <3>. DEFINE t == [task[h] EXCEPT !.resp = r]
    <3>2. t.pc = task[h].pc /\ t.pc # "lock" /\ task' = [task EXCEPT ![h] = t]
      BY <1>t, <2>1, <3>1 DEF TaskRec, Answer, JanusServes, JanusRefuses, Waits
    <3>. HIDE DEF t
    <3>. QED  BY <1>t, <3>2, TaskQuiet
  <2>2. CASE ~Answer(h)
    <3>1. PICK t : task' = [task EXCEPT ![h] = t] /\ t.pc \in {"idle", "publish"}
      <4>1. CASE task' = [task EXCEPT ![h] = NoTask]
        <5>1. NoTask.pc = "idle"
          BY DEF NoTask
        <5>. QED  BY <4>1, <5>1
      <4>2. CASE task' = [task EXCEPT ![h].pc = "publish", ![h].resp = "none"]
        <5>. DEFINE t == [task[h] EXCEPT !.pc = "publish", !.resp = "none"]
        <5>1. t.pc = "publish" /\ task' = [task EXCEPT ![h] = t]
          BY <1>t, <4>2, Types DEF TaskRec, IInv
        <5>. HIDE DEF t
        <5>. QED  BY <5>1
      <4>3. CASE task' = [task EXCEPT ![h] = [NoTask EXCEPT !.pc = "publish",
                                                            !.pub = handle[h].pub]]
        <5>. DEFINE t == [NoTask EXCEPT !.pc = "publish", !.pub = handle[h].pub]
        <5>1. t.pc = "publish" /\ task' = [task EXCEPT ![h] = t]
          BY <4>3 DEF NoTask
        <5>. HIDE DEF t
        <5>. QED  BY <5>1
      <4>. QED  BY <2>2, <4>1, <4>2, <4>3
                DEF Joined, JoinFails, Publish, Published, PublishFails, LockTimeout
    <3>. QED  BY <1>t, <3>1, TaskQuiet DEF Activating
  <2>. QED  BY <2>1, <2>2
<1>. QED  BY <1>1, <1>2, <1>3, <1>4, BroomQuiet

-----------------------------------------------------------------------------
\* The fields of the task of h, the only one that changes.
LEMMA TaskOne ==
    ASSUME IInv, NEW h \in Handle, NEW t, task' = [task EXCEPT ![h] = t]
    PROVE  task'[h] = t /\ \A g \in Handle : g # h => task'[g] = task[g]
BY Types DEF IInv

LEMMA ActivatesTask ==
    ASSUME IInv, NEW h \in Handle, NEW u, NEW b, NEW m, NEW conf, Activates(h, u, b, m, conf)
    PROVE  /\ task'[h].pc = "attach" /\ task'[h].broom = b /\ task'[h].resp = "none"
           /\ \A g \in Handle : g # h => task'[g] = task[g]
<1>. DEFINE t == [NoTask EXCEPT !.pc = "attach", !.user = u, !.broom = b,
                                !.creator = m, !.configure = conf]
<1>1. t.pc = "attach" /\ t.broom = b /\ t.resp = "none" /\ task' = [task EXCEPT ![h] = t]
  BY DEF NoTask, Activates
<1>. HIDE DEF t
<1>. QED  BY <1>1, TaskOne

LEMMA JoinsRoomTask ==
    ASSUME IInv, NEW h \in Handle, NEW u, NEW b, NEW conf, JoinsRoom(h, u, b, conf)
    PROVE  /\ task'[h].pc = "join" /\ task'[h].broom = None
           /\ \A g \in Handle : g # h => task'[g] = task[g]
           /\ room'.destroyed = room.destroyed /\ room'.table = room.table
<1>1. PICK p \in Publisher :
        task' = [task EXCEPT ![h] = [NoTask EXCEPT !.pc = "join", !.user = u, !.pub = p,
                                                   !.configure = conf]]
  BY DEF JoinsRoom
<1>. DEFINE t == [NoTask EXCEPT !.pc = "join", !.user = u, !.pub = p, !.configure = conf]
<1>2. t.pc = "join" /\ t.broom = None /\ task' = [task EXCEPT ![h] = t]
  BY <1>1 DEF NoTask
<1>. HIDE DEF t
<1>3. room'.destroyed = room.destroyed /\ room'.table = room.table
  BY Types DEF JoinsRoom, RoomRec, IInv
<1>. QED  BY <1>2, <1>3, TaskOne

\* A publisher joins in a backend room that is active.
LEMMA BroomJoins ==
    ASSUME IInv, BroomInv, NEW h \in Handle, task[h].pc \notin Activating, NEW u, NEW b, NEW conf,
           JoinsRoom(h, u, b, conf), UNCHANGED <<broom, sweep, janus>>
    PROVE  BroomInv'
<1>1. /\ task'[h].pc = "join" /\ \A g \in Handle : g # h => task'[g] = task[g]
      /\ room'.destroyed = room.destroyed /\ room'.table = room.table
  BY JoinsRoomTask
<1>2. \A c \in BackendRoom : SameTasks(c)
  BY <1>1 DEF SameTasks, BroomInv, BroomOK, Held, Activating
<1>. QED  BY <1>1, <1>2, BroomQuiet

(* A greenlet gets the lock of a backend room that is not active.           *)
LEMMA BroomLocked ==
    ASSUME IInv, BroomInv, NEW h \in Handle, task[h].pc \notin Activating,
           NEW b \in BackendRoom, ~broom[b].active, broom[b].lock = None,
           broom[b].server \in Server, NEW u, NEW m, NEW conf, Activates(h, u, b, m, conf),
           broom' = [broom EXCEPT ![b] = Locked(@, h)], UNCHANGED <<room, sweep, janus>>
    PROVE  BroomInv'
<1>1. /\ task'[h].pc = "attach" /\ task'[h].broom = b /\ task'[h].resp = "none"
      /\ \A g \in Handle : g # h => task'[g] = task[g]
  BY ActivatesTask
<1>2. /\ broom'[b].lock = h /\ broom'[b].active = broom[b].active
      /\ broom'[b].server = broom[b].server /\ broom'[b].destroyed = broom[b].destroyed
      /\ broom'[b].link = broom[b].link
      /\ \A c \in BackendRoom : c # b => broom'[c] = broom[c]
  BY Types DEF Locked, BackendRoomRec, IInv
<1>3. BroomOK(b) /\ h # None
  BY NoneApart DEF BroomInv
<1>4. BroomOK(b)'
  <2>1. ASSUME NEW g \in Handle, task'[g].broom = b PROVE Held(g)'
    <3>1. CASE g = h
      BY <1>1, <1>2, <3>1 DEF Held, Activating, At
    <3>2. CASE g # h
      <4>1. task'[g] = task[g] /\ Held(g)
        BY <1>1, <1>3, <2>1, <3>2 DEF BroomOK
      <4>2. task[g].pc \notin Activating
        BY <2>1, <4>1, NoneApart DEF Held
      <4>. QED  BY <1>2, <2>1, <4>1, <4>2 DEF Held, Activating, At
    <3>. QED  BY <3>1, <3>2
  <2>2. Locks(b)'
    BY <1>1, <1>2, <1>3 DEF Locks, Activating
  <2>3. OpenBroom(b)'
    BY <1>2, <1>3 DEF OpenBroom
  <2>4. Live(b)'
    BY <1>2, <1>3 DEF BroomOK, Live
  <2>5. InTable(b)'
    BY <1>2, <1>3 DEF BroomOK, InTable, Ready
  <2>. QED  BY <2>1, <2>2, <2>3, <2>4, <2>5 DEF BroomOK
<1>5. ASSUME NEW c \in BackendRoom, c # b PROVE BroomOK(c)'
  <2>1. SameTasks(c)
    BY <1>1, <1>5 DEF SameTasks, BroomInv, BroomOK, Held
  <2>2. SameTable(c)
    BY DEF SameTable
  <2>. QED  BY <1>2, <1>5, <2>1, <2>2, BroomSame
<1>6. Swept'
  BY DEF BroomInv, Swept
<1>. QED  BY <1>4, <1>5, <1>6 DEF BroomInv

(* A join makes the backend room.                                           *)
LEMMA BroomMade ==
    ASSUME IInv, BroomInv, NEW h \in Handle, task[h].pc = "idle", ~room.destroyed,
           NEW s \in Server, room.table[s] = None, NEW n \in BackendRoom, FreeBackendRoom(n),
           broom' = [broom EXCEPT ![n] = Locked([NoBackendRoom EXCEPT !.server = s], h)],
           room' = [room EXCEPT !.table[s] = n], NEW u, NEW m, NEW conf,
           Activates(h, u, n, m, conf),
           UNCHANGED <<sweep, janus>>
    PROVE  BroomInv'
<1>1. /\ task'[h].pc = "attach" /\ task'[h].broom = n /\ task'[h].resp = "none"
      /\ \A g \in Handle : g # h => task'[g] = task[g]
  BY ActivatesTask
<1>2. /\ broom'[n].lock = h /\ ~broom'[n].active /\ broom'[n].server = s
      /\ ~broom'[n].destroyed /\ broom'[n].link = "none"
      /\ \A c \in BackendRoom : c # n => broom'[c] = broom[c]
  BY Types DEF Locked, NoBackendRoom, IInv
<1>3. /\ room'.destroyed = room.destroyed /\ room'.table[s] = n
      /\ \A z \in Server : z # s => room'.table[z] = room.table[z]
  BY Types DEF RoomRec, IInv
<1>4. /\ \A z \in Server : room.table[z] # n
      /\ \A g \in Handle : task[g].broom # n
  BY DEF FreeBackendRoom
<1>5. h # None /\ n # None
  BY NoneApart
<1>6. BroomOK(n)'
  <2>1. ASSUME NEW g \in Handle, task'[g].broom = n PROVE Held(g)'
    <3>1. g = h
      BY <1>1, <1>4, <2>1
    <3>. QED  BY <1>1, <1>2, <3>1 DEF Held, Activating, At
  <2>2. Locks(n)' /\ OpenBroom(n)'
    BY <1>1, <1>2, <1>5 DEF Locks, OpenBroom, Activating
  <2>3. Live(n)'
    BY <1>2, <1>3 DEF Live
  <2>4. InTable(n)'
    BY <1>2, <1>3, <1>4 DEF InTable, Ready
  <2>. QED  BY <2>1, <2>2, <2>3, <2>4 DEF BroomOK
<1>7. ASSUME NEW c \in BackendRoom, c # n PROVE BroomOK(c)'
  <2>1. SameTasks(c)
    BY <1>1, <1>7 DEF SameTasks, BroomInv, BroomOK, Held, Activating
  <2>2. SameTable(c)
    BY <1>3, <1>7, NoneApart DEF SameTable
  <2>. QED  BY <1>2, <1>7, <2>1, <2>2, BroomSame
<1>8. Swept'
  BY <1>3 DEF BroomInv, Swept
<1>. QED  BY <1>6, <1>7, <1>8 DEF BroomInv

LEMMA BroomJoinStep ==
    ASSUME IInv, BroomInv, NEW h \in Handle, NEW u \in User, NEW s \in Server,
           NEW conf \in BOOLEAN, Join(h, u, s, conf)
    PROVE  BroomInv'
<1>t. /\ task[h].pc = "idle" /\ ~room.destroyed /\ UNCHANGED <<sweep, janus>>
      /\ room.table[s] \in BackendRoom \cup {None}
  BY Types DEF IInv, Join, At
<1>1. CASE room.table[s] = None
  <2>1. PICK n \in BackendRoom :
          /\ FreeBackendRoom(n) /\ room' = [room EXCEPT !.table[s] = n]
          /\ broom' = [broom EXCEPT ![n] = Locked([NoBackendRoom EXCEPT !.server = s], h)]
          /\ Activates(h, u, n, TRUE, conf)
    BY <1>1 DEF Join
  <2>. QED  BY <1>t, <1>1, <2>1, BroomMade
<1>2. CASE room.table[s] # None
  <2>. PICK b \in BackendRoom : b = room.table[s]
    BY <1>t, <1>2
  <2>1. broom[b].server \in Server
    BY DEF BroomInv, BroomOK, InTable
  <2>2. CASE JoinsRoom(h, u, b, conf) /\ UNCHANGED broom
    BY <1>t, <2>2, BroomJoins DEF Activating
  <2>3. CASE /\ ~broom[b].active /\ broom[b].lock = None
             /\ broom' = [broom EXCEPT ![b] = Locked(@, h)]
             /\ Activates(h, u, b, FALSE, conf) /\ room' = room
    BY <1>t, <2>1, <2>3, BroomLocked DEF Activating
  <2>4. CASE /\ task' = [task EXCEPT ![h] = [NoTask EXCEPT !.pc = "lock", !.user = u,
                                                           !.broom = b, !.configure = conf]]
             /\ UNCHANGED <<room, broom>>
    <3>. DEFINE t == [NoTask EXCEPT !.pc = "lock", !.user = u, !.broom = b, !.configure = conf]
    <3>1. t.pc = "lock" /\ t.broom = b /\ task' = [task EXCEPT ![h] = t]
      BY <2>4 DEF NoTask
    <3>. HIDE DEF t
    <3>2. \A c \in BackendRoom : SameTasks(c)
      BY <1>t, <2>1, <3>1, TaskQuiet DEF Activating
    <3>. QED  BY <1>t, <2>4, <3>2, BroomQuiet
  <2>. QED  BY <1>2, <2>2, <2>3, <2>4 DEF Join
<1>. QED  BY <1>1, <1>2

-----------------------------------------------------------------------------
LEMMA BroomLockStep ==
    ASSUME IInv, BroomInv, NEW h \in Handle, LockGot(h) PROVE BroomInv'
<1>t. /\ task[h].pc = "lock" /\ UNCHANGED <<sweep, janus>> /\ task[h].broom \in BackendRoom
  BY DEF IInv, Shapes, TaskShape, LockGot, At
<1>. PICK b \in BackendRoom : b = task[h].broom
  BY <1>t
<1>1. broom[b].server \in Server /\ broom[b].lock = None
  BY <1>t DEF BroomInv, BroomOK, Held, LockGot
<1>2. CASE broom[b].active
  <2>1. JoinsRoom(h, task[h].user, b, task[h].configure) /\ UNCHANGED broom
    BY <1>2 DEF LockGot
  <2>. QED  BY <1>t, <2>1, BroomJoins DEF Activating
<1>3. CASE ~broom[b].active
  <2>1. /\ broom' = [broom EXCEPT ![b] = Locked(@, h)] /\ UNCHANGED room
        /\ Activates(h, task[h].user, b, FALSE, task[h].configure)
    BY <1>3 DEF LockGot
  <2>. QED  BY <1>t, <1>1, <1>3, <2>1, BroomLocked DEF Activating
<1>. QED  BY <1>2, <1>3

-----------------------------------------------------------------------------
(* The greenlet h that has the lock of b goes on as t.                      *)
Holds(h, b) == task[h].pc \in Activating /\ task[h].broom = b

HolderGoes(h, b, t) == /\ task' = [task EXCEPT ![h] = t] /\ t.pc # "lock"
                       /\ t.pc \in Activating => t.broom = b

LEMMA HolderAlone ==
    ASSUME IInv, BroomInv, NEW h \in Handle, NEW b \in BackendRoom, Holds(h, b),
           NEW t, HolderGoes(h, b, t)
    PROVE  /\ BroomOK(b) /\ Held(h) /\ broom[b].lock = h /\ broom[b].server \in Server
           /\ task'[h] = t /\ h # None
           /\ \A g \in Handle : g # h => task'[g] = task[g]
           /\ \A c \in BackendRoom : c # b => SameTasks(c)
<1>1. BroomOK(b) /\ Held(h) /\ broom[b].lock = h /\ broom[b].server \in Server /\ h # None
  BY NoneApart DEF BroomInv, BroomOK, Held, Holds
<1>2. task'[h] = t /\ \A g \in Handle : g # h => task'[g] = task[g]
  BY TaskOne DEF HolderGoes
<1>3. ASSUME NEW c \in BackendRoom, c # b PROVE SameTasks(c)
  BY <1>2, <1>3 DEF SameTasks, HolderGoes, Holds, BroomInv, BroomOK, Held
<1>. QED  BY <1>1, <1>2, <1>3

\* The other greenlets with b wait for its lock.
LEMMA WaitersHeld ==
    ASSUME IInv, BroomInv, NEW h \in Handle, NEW b \in BackendRoom, Holds(h, b),
           NEW t, HolderGoes(h, b, t), broom'[b].server = broom[b].server,
           NEW g \in Handle, g # h, task'[g].broom = b
    PROVE  Held(g)'
<1>1. broom[b].lock = h /\ BroomOK(b) /\ task'[g] = task[g] /\ broom[b].server \in Server
  BY HolderAlone
<1>2. Held(g) /\ task[g].broom = b
  BY <1>1 DEF BroomOK
<1>3. task[g].pc \notin Activating
  BY <1>1, <1>2 DEF Held
<1>. QED  BY <1>1, <1>2, <1>3 DEF Held, Activating, At

(* The parts of BroomInv that are left to show.                             *)
LEMMA BroomHolder ==
    ASSUME IInv, BroomInv, NEW h \in Handle, NEW b \in BackendRoom, Holds(h, b),
           NEW t, HolderGoes(h, b, t), NEW x, broom' = [broom EXCEPT ![b] = x],
           sweep' = sweep, x.server = broom[b].server,
           task'[h].broom = b => Held(h)', Locks(b)', OpenBroom(b)', Live(b)', InTable(b)',
           \A c \in BackendRoom : c # b => SameTable(c), Swept'
    PROVE  BroomInv'
<1>1. broom'[b] = x /\ \A c \in BackendRoom : c # b => broom'[c] = broom[c]
  BY Types DEF IInv
<1>2. BroomOK(b)'
  BY <1>1, WaitersHeld DEF BroomOK
<1>3. ASSUME NEW c \in BackendRoom, c # b PROVE BroomOK(c)'
  BY <1>1, <1>3, HolderAlone, BroomSame
<1>. QED  BY <1>2, <1>3 DEF BroomInv

\* The table and the Janus rooms are as they were.
LEMMA BroomHolderRoom ==
    ASSUME IInv, BroomInv, NEW h \in Handle, NEW b \in BackendRoom, Holds(h, b),
           NEW t, HolderGoes(h, b, t), NEW x, broom' = [broom EXCEPT ![b] = x],
           sweep' = sweep, room'.destroyed = room.destroyed, room'.table = room.table,
           janus' = janus, x.server = broom[b].server, x.destroyed = broom[b].destroyed,
           task'[h].broom = b => Held(h)', Locks(b)', OpenBroom(b)',
           ~broom[b].destroyed /\ Ready(b)' => x.link = "open" /\ Ready(b) /\ broom[b].link = "open"
    PROVE  BroomInv'
<1>1. broom'[b] = x /\ BroomOK(b)
  BY Types DEF IInv, BroomInv
<1>2. Live(b)'
  BY <1>1 DEF BroomOK, Live
<1>3. InTable(b)'
  BY <1>1 DEF BroomOK, InTable
<1>4. \A c \in BackendRoom : c # b => SameTable(c)
  BY DEF SameTable
<1>5. Swept'
  BY DEF BroomInv, Swept
<1>. QED  BY <1>2, <1>3, <1>4, <1>5, BroomHolder

LEMMA BroomAttached ==
    ASSUME IInv, BroomInv, NEW h \in Handle, Attached(h) PROVE BroomInv'
<1>t. /\ task[h].pc = "attach" /\ task[h].broom \in BackendRoom /\ UNCHANGED <<room, sweep, janus>>
      /\ broom \in [BackendRoom -> BackendRoomRec] /\ task[h] \in TaskRec
  BY Types DEF IInv, Shapes, TaskShape, Attached, At, Activating
<1>. PICK b \in BackendRoom : b = task[h].broom
  BY <1>t
<1>. PICK gone \in BOOLEAN : gone = broom[b].destroyed
  BY <1>t DEF BackendRoomRec
<1>. DEFINE x == [broom[b] EXCEPT !.link = "open", !.active = gone]
            t == [task[h] EXCEPT !.pc = IF gone THEN "control" ELSE "create"]
<1>1. broom' = [broom EXCEPT ![b] = x] /\ task' = [task EXCEPT ![h] = t]
  BY <1>t DEF Attached, Skips
<1>2. /\ x.link = "open" /\ x.active = gone /\ x.server = broom[b].server
      /\ x.lock = broom[b].lock /\ x.destroyed = gone
  BY <1>t DEF BackendRoomRec
<1>3. t.pc = (IF gone THEN "control" ELSE "create") /\ t.broom = b
  BY <1>t DEF TaskRec
<1>. HIDE DEF x, t
<1>4. Holds(h, b) /\ HolderGoes(h, b, t)
  BY <1>t, <1>1, <1>3 DEF Holds, HolderGoes, Activating
<1>5. /\ broom'[b] = x /\ task'[h] = t /\ broom[b].lock = h /\ h # None
      /\ broom[b].server \in Server
  BY <1>1, <1>4, <1>t, HolderAlone
<1>6. Held(h)'
  BY <1>2, <1>3, <1>5 DEF Held, Activating, At
<1>7. Locks(b)' /\ OpenBroom(b)'
  BY <1>2, <1>3, <1>5 DEF Locks, OpenBroom, Activating
<1>8. ~broom[b].destroyed => ~Ready(b)'
  BY <1>2, <1>5 DEF Ready
<1>. QED  BY <1>t, <1>1, <1>2, <1>4, <1>6, <1>7, <1>8, BroomHolderRoom

-----------------------------------------------------------------------------
LEMMA BroomCreated ==
    ASSUME IInv, BroomInv, NEW h \in Handle, Created(h) PROVE BroomInv'
<1>t. /\ task[h].pc \in {"create", "wipe"} /\ task[h].broom \in BackendRoom
      /\ UNCHANGED <<room, sweep, janus>>
      /\ broom \in [BackendRoom -> BackendRoomRec] /\ task[h] \in TaskRec
      /\ task \in [Handle -> TaskRec]
  BY Types DEF IInv, Shapes, TaskShape, Created, Answered, At, Activating
<1>. PICK b \in BackendRoom : b = task[h].broom
  BY <1>t
<1>. DEFINE x == [broom[b] EXCEPT !.active = TRUE]
            t == [task[h] EXCEPT !.pc = "control", !.resp = "none"]
<1>1. broom' = [broom EXCEPT ![b] = x] /\ task' = [task EXCEPT ![h] = t]
  BY <1>t DEF Created
<1>2. /\ x.link = broom[b].link /\ x.active /\ x.server = broom[b].server
      /\ x.lock = broom[b].lock /\ x.destroyed = broom[b].destroyed
  BY <1>t DEF BackendRoomRec
<1>3. t.pc = "control" /\ t.broom = b /\ t.resp = "none"
  BY <1>t DEF TaskRec
<1>. HIDE DEF x, t
<1>4. Holds(h, b) /\ HolderGoes(h, b, t)
  BY <1>t, <1>1, <1>3 DEF Holds, HolderGoes, Activating
<1>5. /\ broom'[b] = x /\ task'[h] = t /\ broom[b].lock = h /\ h # None
      /\ broom[b].server \in Server
  BY <1>1, <1>4, <1>t, HolderAlone
<1>6. Held(h)'
  BY <1>2, <1>3, <1>5 DEF Held, Activating, At
<1>7. Locks(b)' /\ OpenBroom(b)'
  BY <1>2, <1>3, <1>5 DEF Locks, OpenBroom, Activating
<1>8. ~Ready(b)'
  BY <1>2, <1>3, <1>5 DEF Ready, Answered, At
<1>. QED  BY <1>t, <1>1, <1>2, <1>4, <1>6, <1>7, <1>8, BroomHolderRoom

\* The greenlet asks again, or hears that the server refuses.
LEMMA BroomAsks ==
    ASSUME IInv, BroomInv, NEW h \in Handle, task[h].pc \in Activating,
           Recreate(h) \/ JanusRefuses(h)
    PROVE  BroomInv'
<1>t. /\ task[h].broom \in BackendRoom /\ UNCHANGED <<room, broom, sweep, janus>>
      /\ broom \in [BackendRoom -> BackendRoomRec] /\ task[h] \in TaskRec
      /\ task \in [Handle -> TaskRec]
  BY Types DEF IInv, Shapes, TaskShape, Recreate, JanusRefuses, Activating
<1>. PICK b \in BackendRoom : b = task[h].broom
  BY <1>t
<1>1. PICK t : /\ task' = [task EXCEPT ![h] = t] /\ t.broom = b /\ t.resp # "ok"
               /\ t.pc = task[h].pc \/ {t.pc, task[h].pc} \subseteq {"create", "wipe"}
  <2>1. CASE Recreate(h)
    <3>1. PICK pc \in {"create", "wipe"} :
            task' = [task EXCEPT ![h].pc = pc, ![h].resp = "none"]
      BY <2>1 DEF Recreate
    <3>. DEFINE t == [task[h] EXCEPT !.pc = pc, !.resp = "none"]
    <3>2. /\ t.broom = b /\ t.resp = "none" /\ t.pc = pc /\ task' = [task EXCEPT ![h] = t]
          /\ task[h].pc \in {"create", "wipe"}
      BY <1>t, <2>1, <3>1 DEF TaskRec, Recreate, Answered, At
    <3>. HIDE DEF t
    <3>. QED  BY <3>2
  <2>2. CASE JanusRefuses(h)
    <3>1. PICK r \in {"exists", "error"} : task' = [task EXCEPT ![h] = [@ EXCEPT !.resp = r]]
      <4>. DEFINE exists == At(h, "create") /\ Asks(h).link = "open" /\ janus[Asks(h).server].up
      <4>1. task' = [task EXCEPT ![h].resp = IF exists THEN "exists" ELSE "error"]
        BY <2>2 DEF JanusRefuses
      <4>. HIDE DEF exists
      <4>2. CASE exists
        BY <4>1, <4>2
      <4>3. CASE ~exists
        BY <4>1, <4>3
      <4>. QED  BY <4>2, <4>3
    <3>. DEFINE t == [task[h] EXCEPT !.resp = r]
    <3>2. t.broom = b /\ t.resp = r /\ t.pc = task[h].pc /\ task' = [task EXCEPT ![h] = t]
      BY <1>t, <3>1 DEF TaskRec
    <3>. HIDE DEF t
    <3>. QED  BY <3>2
  <2>. QED  BY <2>1, <2>2
<1>2. Holds(h, b) /\ HolderGoes(h, b, t)
  BY <1>1 DEF Holds, HolderGoes, Activating
<1>3. /\ task'[h] = t /\ broom[b].lock = h /\ h # None /\ broom[b].server \in Server
      /\ Held(h) /\ BroomOK(b) /\ broom[b] \in BackendRoomRec
  BY <1>2, <1>t, HolderAlone
<1>. PICK x : x = broom[b]
  OBVIOUS
<1>4. broom' = [broom EXCEPT ![b] = x]
  BY <1>t
<1>5. Held(h)'
  BY <1>t, <1>1, <1>3 DEF Held, Activating, At
<1>6. Locks(b)' /\ OpenBroom(b)'
  BY <1>t, <1>1, <1>3 DEF BroomOK, Locks, OpenBroom, Activating
<1>7. ~Ready(b)'
  BY <1>t, <1>1, <1>3 DEF Ready, Answered, At
<1>. QED  BY <1>t, <1>2, <1>4, <1>5, <1>6, <1>7, BroomHolderRoom

LEMMA BroomActivated ==
    ASSUME IInv, BroomInv, NEW h \in Handle, Activated(h) PROVE BroomInv'
<1>t. /\ task[h].pc = "control" /\ task[h].resp = "ok" /\ task[h].broom \in BackendRoom
      /\ UNCHANGED <<sweep, janus>>
      /\ broom \in [BackendRoom -> BackendRoomRec] /\ task[h] \in TaskRec
  BY Types DEF IInv, Shapes, TaskShape, Activated, Answered, At, Activating
<1>. PICK b \in BackendRoom : b = task[h].broom
  BY <1>t
<1>1. JoinsRoom(h, task[h].user, b, task[h].configure) /\ ~broom[b].destroyed
  BY DEF Activated, Skips
<1>2. /\ task'[h].pc = "join" /\ task'[h].broom = None
      /\ \A g \in Handle : g # h => task'[g] = task[g]
      /\ room'.destroyed = room.destroyed /\ room'.table = room.table
  BY <1>1, JoinsRoomTask
<1>. PICK t : t = task'[h]
  OBVIOUS
<1>3. HolderGoes(h, b, t) /\ Holds(h, b)
  <2>1. task' = [task EXCEPT ![h] = t]
    <3>1. PICK e : task' = [task EXCEPT ![h] = e]
      BY <1>1 DEF JoinsRoom
    <3>2. e = t
      BY <3>1, Types DEF IInv
    <3>. QED  BY <3>1, <3>2
  <2>. QED  BY <1>t, <1>2, <2>1 DEF HolderGoes, Holds, Activating
<1>. DEFINE x == [broom[b] EXCEPT !.lock = None]
<1>4. broom' = [broom EXCEPT ![b] = x] /\ broom'[b] = x
  BY <1>t DEF Activated
<1>5. /\ x.link = broom[b].link /\ x.active = broom[b].active /\ x.server = broom[b].server
      /\ x.lock = None /\ x.destroyed = broom[b].destroyed
  BY <1>t DEF BackendRoomRec
<1>. HIDE DEF x
<1>6. BroomOK(b) /\ broom[b].lock = h /\ Held(h) /\ broom[b].server \in Server
  BY <1>3, HolderAlone
<1>7. task'[h].broom # b
  BY <1>2, NoneApart
<1>8. Locks(b)'
  BY <1>1, <1>4, <1>5, <1>6 DEF Locks
<1>9. OpenBroom(b)'
  BY <1>1, <1>4, <1>5, <1>6, <1>t DEF OpenBroom, Held, At
<1>a. Ready(b)' => Ready(b)
  BY <1>t, <1>4, <1>5, <1>6 DEF Ready, Answered, At
<1>c. Live(b)'
  BY <1>t, <1>2, <1>4, <1>5, <1>6 DEF BroomOK, Live
<1>d. InTable(b)'
  BY <1>t, <1>2, <1>4, <1>5, <1>6, <1>a DEF BroomOK, InTable
<1>e. \A c \in BackendRoom : c # b => SameTable(c)
  BY <1>2, <1>t DEF SameTable
<1>f. Swept'
  BY <1>2, <1>t DEF BroomInv, Swept
<1>. QED  BY <1>t, <1>3, <1>4, <1>5, <1>7, <1>8, <1>9, <1>c, <1>d, <1>e, <1>f, BroomHolder

-----------------------------------------------------------------------------
\* A request of the activation is served.
LEMMA BroomServed ==
    ASSUME IInv, BroomInv, NEW h \in Handle, task[h].pc \in Activating, JanusServes(h)
    PROVE  BroomInv'
<1>t. /\ task[h].broom \in BackendRoom /\ UNCHANGED <<room, broom, sweep>>
      /\ broom \in [BackendRoom -> BackendRoomRec] /\ task[h] \in TaskRec
      /\ task \in [Handle -> TaskRec] /\ janus \in [Server -> JanusRec]
      /\ task[h].pc \in {"create", "wipe", "control"}
  BY Types DEF IInv, Shapes, TaskShape, JanusServes, Waits, Activating
<1>. PICK b \in BackendRoom : b = task[h].broom
  BY <1>t
<1>1. PICK t : /\ task' = [task EXCEPT ![h] = t] /\ t.broom = b /\ t.pc = task[h].pc
  <2>1. PICK r : task' = [task EXCEPT ![h] = [@ EXCEPT !.resp = r]]
    BY DEF JanusServes
  <2>. DEFINE t == [task[h] EXCEPT !.resp = r]
  <2>2. t.broom = b /\ t.pc = task[h].pc /\ task' = [task EXCEPT ![h] = t]
    BY <1>t, <2>1 DEF TaskRec
  <2>. HIDE DEF t
  <2>. QED  BY <2>2
<1>2. Holds(h, b) /\ HolderGoes(h, b, t)
  BY <1>t, <1>1 DEF Holds, HolderGoes, Activating
<1>3. /\ task'[h] = t /\ broom[b].lock = h /\ h # None /\ broom[b].server \in Server
      /\ Held(h) /\ BroomOK(b)
  BY <1>2, HolderAlone
<1>. PICK x : x = broom[b]
  OBVIOUS
<1>4. broom' = [broom EXCEPT ![b] = x] /\ x.server = broom[b].server
  BY <1>t
<1>. PICK s \in Server : s = broom[b].server
  BY <1>3
<1>5. /\ broom[b].link = "open"
      /\ \/ task[h].pc = "create" /\ janus' = [janus EXCEPT ![s].up = TRUE]
         \/ task[h].pc = "wipe" /\ janus' = [janus EXCEPT ![s] = NoJanusRoom]
         \/ task[h].pc = "control" /\ janus' = [janus EXCEPT ![s].inside = @ \cup {b}]
  <2>1. Asks(h) = [who |-> b, server |-> s, link |-> broom[b].link]
    BY <1>t DEF Asks
  <2>2. Asks(h).who = b /\ Asks(h).server = s /\ Asks(h).link = broom[b].link
    BY <2>1
  <2>3. broom[b].link = "open" /\ janus' = Serve(h)
    BY <2>2 DEF JanusServes, CanServe
  <2>4. CASE task[h].pc = "create"
    BY <2>2, <2>3, <2>4 DEF Serve, At
  <2>5. CASE task[h].pc = "wipe"
    BY <2>2, <2>3, <2>5 DEF Serve, At
  <2>6. CASE task[h].pc = "control"
    BY <2>2, <2>3, <2>6 DEF Serve, At
  <2>. QED  BY <1>t, <2>3, <2>4, <2>5, <2>6
<1>6. Held(h)'
  BY <1>t, <1>1, <1>3 DEF Held, Activating, At
<1>7. Locks(b)' /\ OpenBroom(b)'
  BY <1>t, <1>1, <1>3 DEF BroomOK, Locks, OpenBroom, Activating
<1>8. Live(b)'
  BY <1>t, <1>3 DEF BroomOK, Live
<1>9. InTable(b)'
  <2>1. Ready(b)' => task[h].pc = "control"
    BY <1>t, <1>1, <1>3 DEF Ready, Answered, At
  <2>2. task[h].pc = "control" => b \in janus'[s].inside
    BY <1>t, <1>5 DEF JanusRec
  <2>. QED  BY <1>t, <1>3, <1>5, <2>1, <2>2 DEF BroomOK, InTable
<1>a. ASSUME NEW c \in BackendRoom, c # b PROVE SameTable(c)
  <2>1. ASSUME NEW z \in Server, room.table[z] = c, c \in janus[z].inside
        PROVE  c \in janus'[z].inside
    <3>1. CASE task[h].pc = "wipe"
      <4>1. ~room.destroyed
        BY <1>a, <2>1, NoneApart DEF BroomInv, Swept
      <4>2. ~broom[b].destroyed
        BY <1>3, <3>1, <4>1 DEF Held
      <4>3. z # s
        BY <1>3, <1>a, <2>1, <4>1, <4>2, NoneApart DEF BroomOK, Live, BroomInv, Swept
      <4>. QED  BY <1>t, <1>5, <2>1, <3>1, <4>3
    <3>2. CASE task[h].pc # "wipe"
      BY <1>t, <1>5, <2>1, <3>2 DEF JanusRec
    <3>. QED  BY <3>1, <3>2
  <2>. QED  BY <1>t, <2>1 DEF SameTable
<1>b. Swept'
  BY <1>t DEF BroomInv, Swept
<1>. QED  BY <1>t, <1>2, <1>4, <1>6, <1>7, <1>8, <1>9, <1>a, <1>b, BroomHolder

\* The backend room b leaves the table of a room that is not destroyed.
LEMMA Untables ==
    ASSUME IInv, BroomInv, NEW b \in BackendRoom, broom[b].server \in Server,
           ~broom[b].destroyed, room' = Untabled(broom[b].server)
    PROVE  /\ room'.destroyed = room.destroyed
           /\ \A z \in Server : room'.table[z] = IF room.table[z] = b THEN None ELSE room.table[z]
<1>. PICK s \in Server : s = broom[b].server
  OBVIOUS
<1>1. CASE room.destroyed
  BY <1>1, NoneApart DEF Untabled, BroomInv, Swept
<1>2. CASE ~room.destroyed
  <2>1. room.table[s] = b
    BY <1>2, NoneApart DEF BroomInv, BroomOK, Live, Swept
  <2>2. \A z \in Server : room.table[z] = b => z = s
    BY DEF BroomInv, BroomOK, InTable
  <2>3. room' = [room EXCEPT !.table[s] = None]
    BY <1>2 DEF Untabled
  <2>4. /\ room'.destroyed = room.destroyed /\ room'.table[s] = None
        /\ \A z \in Server : z # s => room'.table[z] = room.table[z]
    BY <2>3, Types DEF RoomRec, IInv
  <2>. QED  BY <2>1, <2>2, <2>4
<1>. QED  BY <1>1, <1>2

LEMMA LeftOthers ==
    ASSUME IInv, NEW s, NEW b, NEW c, c # b, NEW z \in Server, c \in janus[z].inside
    PROVE  c \in Left(s, b)[z].inside
BY Types DEF Left, JanusRec, IInv

LEMMA BroomFails ==
    ASSUME IInv, BroomInv, NEW h \in Handle, ActivationFails(h) PROVE BroomInv'
<1>t. /\ task[h].pc \in Activating /\ task[h].broom \in BackendRoom /\ sweep' = sweep
      /\ broom \in [BackendRoom -> BackendRoomRec] /\ task[h] \in TaskRec
      /\ task' = [task EXCEPT ![h] = NoTask]
  BY Types DEF IInv, Shapes, TaskShape, ActivationFails, Answered, At, Activating
<1>. PICK b \in BackendRoom : b = task[h].broom
  BY <1>t
<1>. DEFINE g == GivenUp(broom[b])
            discard == task[h].creator /\ ~g.destroyed
            x == [g EXCEPT !.destroyed = @ \/ discard]
<1>1. /\ broom' = [broom EXCEPT ![b] = x]
      /\ room' = IF discard THEN Untabled(g.server) ELSE room
      /\ janus' = Left(g.server, b)
  BY DEF ActivationFails
<1>2. /\ g.server = broom[b].server /\ g.destroyed = broom[b].destroyed
      /\ x.server = broom[b].server /\ x.link = "none" /\ ~x.active /\ x.lock = None
      /\ x.destroyed = (broom[b].destroyed \/ discard)
  BY <1>t DEF GivenUp, BackendRoomRec
<1>3. discard => ~broom[b].destroyed
  BY <1>2
<1>. HIDE DEF g, discard, x
<1>4. Holds(h, b) /\ HolderGoes(h, b, NoTask)
  BY <1>t DEF Holds, HolderGoes, NoTask, Activating
<1>5. /\ task'[h] = NoTask /\ NoTask.broom # b /\ broom[b].lock = h
      /\ broom[b].server \in Server /\ BroomOK(b) /\ broom'[b] = x
  BY <1>t, <1>1, <1>4, HolderAlone, NoneApart DEF NoTask
<1>6. discard => /\ room'.destroyed = room.destroyed
                 /\ \A z \in Server :
                      room'.table[z] = IF room.table[z] = b THEN None ELSE room.table[z]
  BY <1>1, <1>2, <1>3, <1>5, Untables
<1>7. Locks(b)' /\ OpenBroom(b)'
  BY <1>2, <1>5 DEF Locks, OpenBroom
<1>8. Live(b)'
  BY <1>t, <1>1, <1>2, <1>5 DEF BroomOK, Live
<1>9. InTable(b)'
  BY <1>1, <1>2, <1>5, <1>6, NoneApart DEF BroomOK, InTable, Ready
<1>a. ASSUME NEW c \in BackendRoom, c # b PROVE SameTable(c)
  <2>1. \A z \in Server : c \in janus[z].inside => c \in janus'[z].inside
    BY <1>1, <1>a, LeftOthers
  <2>2. /\ room'.destroyed = room.destroyed
        /\ \A z \in Server : room'.table[z] = c <=> room.table[z] = c
    BY <1>1, <1>6, <1>a, NoneApart
  <2>. QED  BY <2>1, <2>2 DEF SameTable
<1>b. Swept'
  BY <1>1, <1>6, <1>t DEF BroomInv, Swept
<1>. QED  BY <1>t, <1>1, <1>2, <1>4, <1>5, <1>7, <1>8, <1>9, <1>a, <1>b, BroomHolder

-----------------------------------------------------------------------------
(* The steps of destroy() before its last greenlet.                         *)
LEMMA BroomTells ==
    ASSUME IInv, BroomInv, Tells PROVE BroomInv'
<1>t. UNCHANGED <<task, broom, janus>>
  BY TellsFacts DEF IInv
<1>1. CASE EndRoom
  <2>1. /\ room'.destroyed /\ \A s \in Server : room'.table[s] = None
        /\ sweep'.todo = Tabled /\ sweep'.cur = None
    <3>1. Listed \in SUBSET Publisher /\ Tabled \in SUBSET BackendRoom
      BY Types DEF Listed, Tabled, IInv
    <3>. QED  BY <1>1, <3>1, TellsNextFacts DEF EndRoom, Emptied, IInv
  <2>2. sweep.cur = None /\ sweep.todo = {}
    BY <1>1 DEF BroomInv, Swept, EndRoom
  <2>3. ASSUME NEW b \in BackendRoom PROVE BroomOK(b)'
    <3>1. SameTable(b)
      BY <2>1, NoneApart DEF SameTable, Tabled
    <3>. QED  BY <1>t, <2>2, <3>1, NoneApart, NoTaskQuiet, BroomSame
  <2>4. Swept'
    BY <2>1 DEF Swept
  <2>. QED  BY <2>3, <2>4 DEF BroomInv
<1>2. CASE Told \/ ToldStalls
  <2>1. room' = room /\ sweep'.todo = sweep.todo /\ sweep'.cur = None /\ sweep.cur = None
    <3>1. sweep \in SweepRec
      BY Types DEF IInv
    <3>2. sweep.tell \in SUBSET Publisher /\ sweep.todo \in SUBSET BackendRoom
      BY <3>1 DEF SweepRec
    <3>3. sweep.pc = "tell" /\ sweep.cur = None /\ room' = room
      BY <1>2 DEF BroomInv, Swept, Told, ToldStalls
    <3>4. CASE Told
      BY <3>2, <3>3, <3>4, TellsNextFacts DEF Told, IInv
    <3>5. CASE ToldStalls
      BY <3>1, <3>3, <3>5 DEF ToldStalls, SweepRec
    <3>. QED  BY <1>2, <3>4, <3>5
  <2>2. ASSUME NEW b \in BackendRoom PROVE BroomOK(b)'
    <3>1. SameTable(b)
      BY <1>t, <2>1 DEF SameTable
    <3>. QED  BY <1>t, <2>1, <3>1, NoneApart, NoTaskQuiet, BroomSame
  <2>3. Swept'
    BY <2>1 DEF BroomInv, Swept
  <2>. QED  BY <2>2, <2>3 DEF BroomInv
<1>. QED  BY <1>1, <1>2 DEF Tells

\* A backend room changes whoever works with it.
LEMMA BroomAlone ==
    ASSUME IInv, BroomInv, NEW b \in BackendRoom, NEW x, broom' = [broom EXCEPT ![b] = x],
           task' = task, sweep.cur \in {b, None} \/ sweep'.cur = sweep.cur,
           \A c \in sweep.todo : c # b => c \in sweep'.todo,
           \A c \in BackendRoom : c # b => SameTable(c), BroomOK(b)', Swept'
    PROVE  BroomInv'
<1>1. \A c \in BackendRoom : c # b => broom'[c] = broom[c]
  BY Types DEF IInv
<1>2. ASSUME NEW c \in BackendRoom, c # b PROVE BroomOK(c)'
  BY <1>1, <1>2, NoneApart, NoTaskQuiet, BroomSame
<1>. QED  BY <1>2 DEF BroomInv

LEMMA BroomSweepNext ==
    ASSUME IInv, BroomInv, NEW b \in BackendRoom, SweepNext(b) PROVE BroomInv'
<1>t. /\ broom \in [BackendRoom -> BackendRoomRec] /\ BroomOK(b) /\ sweep.cur = None
      /\ UNCHANGED <<room, task, janus>>
      /\ room.destroyed /\ \A s \in Server : room.table[s] = None
      /\ sweep \in SweepRec /\ sweep.pc = "sweep"
  BY Types DEF IInv, BroomInv, SweepNext, Swept
<1>. DEFINE x == [broom[b] EXCEPT !.destroyed = TRUE, !.active = FALSE]
<1>1. broom' = [broom EXCEPT ![b] = x] /\ broom'[b] = x
  <2>1. broom' = [broom EXCEPT ![b].destroyed = TRUE, ![b].active = FALSE]
    BY DEF SweepNext
  <2>. QED  BY <1>t, <2>1
<1>2. /\ x.destroyed /\ ~x.active /\ x.link = broom[b].link /\ x.lock = broom[b].lock
      /\ x.server = broom[b].server
  BY <1>t DEF BackendRoomRec
<1>. HIDE DEF x
<1>3. /\ sweep'.cur = IF ~broom[b].destroyed /\ broom[b].active THEN b ELSE None
      /\ sweep'.todo = sweep.todo \ {b} /\ sweep'.pc = "sweep"
  BY <1>t DEF SweepNext, SweepRec
<1>4. BroomOK(b)'
  <2>1. \A h \in Handle : task'[h].broom = b => Held(h)'
    BY <1>t, <1>1, <1>2 DEF BroomOK, Held, At
  <2>2. Locks(b)'
    BY <1>t, <1>1, <1>2 DEF BroomOK, Locks
  <2>3. OpenBroom(b)'
    BY <1>t, <1>1, <1>2, <1>3, NoneApart DEF BroomOK, OpenBroom, Locks
  <2>4. Live(b)' /\ InTable(b)'
    BY <1>t, <1>1, <1>2, NoneApart DEF Live, InTable
  <2>. QED  BY <2>1, <2>2, <2>3, <2>4 DEF BroomOK
<1>5. \A c \in BackendRoom : SameTable(c)
  BY <1>t, NoneApart DEF SameTable
<1>6. Swept'
  BY <1>t, <1>3 DEF Swept
<1>. QED  BY <1>t, <1>1, <1>3, <1>4, <1>5, <1>6, BroomAlone

LEMMA BroomSweepDone ==
    ASSUME IInv, BroomInv, SweepDone PROVE BroomInv'
<1>t. /\ broom \in [BackendRoom -> BackendRoomRec] /\ sweep.cur \in BackendRoom
      /\ UNCHANGED <<room, task>>
      /\ room.destroyed /\ \A s \in Server : room.table[s] = None
      /\ sweep \in SweepRec
  BY Types DEF IInv, BroomInv, SweepDone, Swept, SweepRec
<1>s. sweep'.cur = None /\ sweep'.todo = sweep.todo
  BY <1>t DEF SweepDone, SweepRec
<1>. PICK b \in BackendRoom : b = sweep.cur
  BY <1>t
<1>. DEFINE x == [broom[b] EXCEPT !.link = IF @ = "open" THEN "none" ELSE @]
<1>1. broom' = [broom EXCEPT ![b] = x] /\ broom'[b] = x
  <2>1. broom' = [broom EXCEPT ![b].link = IF @ = "open" THEN "none" ELSE @]
    BY DEF SweepDone
  <2>. QED  BY <1>t, <2>1
<1>2. /\ x.destroyed = broom[b].destroyed /\ x.active = broom[b].active /\ x.link # "open"
      /\ x.lock = broom[b].lock /\ x.server = broom[b].server
  BY <1>t DEF BackendRoomRec
<1>. HIDE DEF x
<1>3. BroomOK(b)
  BY DEF BroomInv
<1>4. BroomOK(b)'
  <2>1. \A h \in Handle : task'[h].broom = b => Held(h)'
    BY <1>t, <1>1, <1>2, <1>3 DEF BroomOK, Held, At
  <2>2. Locks(b)' /\ OpenBroom(b)'
    BY <1>t, <1>1, <1>2, <1>3 DEF BroomOK, Locks, OpenBroom
  <2>4. Live(b)' /\ InTable(b)'
    BY <1>t, <1>s, <1>1, <1>2, <1>3, NoneApart DEF BroomOK, Live, InTable
  <2>. QED  BY <2>1, <2>2, <2>4 DEF BroomOK
<1>5. \A c \in BackendRoom : SameTable(c)
  BY <1>t, NoneApart DEF SameTable
<1>6. Swept'
  BY <1>t, <1>s DEF Swept
<1>. QED  BY <1>t, <1>s, <1>1, <1>4, <1>5, <1>6, BroomAlone

LEMMA BroomClosed ==
    ASSUME IInv, BroomInv, NEW b \in BackendRoom, ControlClosed(b) PROVE BroomInv'
<1>t. /\ broom \in [BackendRoom -> BackendRoomRec] /\ BroomOK(b)
      /\ UNCHANGED <<task, sweep>> /\ broom[b].server \in Server \cup {None}
      /\ broom[b].active \in BOOLEAN /\ broom[b].destroyed \in BOOLEAN
  BY Types DEF IInv, BroomInv, ControlClosed, BackendRoomRec
<1>. DEFINE x == [broom[b] EXCEPT !.link = "closed", !.active = FALSE,
                                  !.destroyed = broom[b].destroyed \/ broom[b].active]
<1>1. broom' = [broom EXCEPT ![b] = x] /\ broom'[b] = x
  BY <1>t DEF ControlClosed
<1>2. /\ x.destroyed = (broom[b].destroyed \/ broom[b].active) /\ ~x.active /\ x.link = "closed"
      /\ x.lock = broom[b].lock /\ x.server = broom[b].server
  BY <1>t DEF BackendRoomRec
<1>. HIDE DEF x
<1>3. /\ room'.destroyed = room.destroyed
      /\ \A z \in Server : \/ room'.table[z] = room.table[z]
                           \/ room.table[z] = b /\ room'.table[z] = None
      /\ broom[b].active /\ ~broom[b].destroyed => \A z \in Server : room'.table[z] # b
  <2>1. CASE broom[b].active /\ ~broom[b].destroyed
    <3>1. CASE room.destroyed
      BY <2>1, <3>1, NoneApart DEF ControlClosed, Untabled, BroomInv, Swept
    <3>2. CASE ~room.destroyed
      <4>1. PICK s : s = broom[b].server
        OBVIOUS
      <4>2. room' = [room EXCEPT !.table[s] = None]
        BY <2>1, <3>2, <4>1 DEF ControlClosed, Untabled
      <4>3. room'.destroyed = room.destroyed
            /\ \A z \in Server : room'.table[z] = IF z = s THEN None ELSE room.table[z]
        BY <4>2, Types DEF RoomRec, IInv
      <4>4. s \in Server => room.table[s] = b
        BY <1>t, <2>1, <3>2, <4>1, NoneApart DEF BroomOK, Live, BroomInv, Swept
      <4>5. \A z \in Server : room.table[z] = b => z = s
        BY <1>t, <4>1 DEF BroomOK, InTable
      <4>. QED  BY <4>3, <4>4, <4>5, NoneApart
    <3>. QED  BY <3>1, <3>2
  <2>2. CASE ~(broom[b].active /\ ~broom[b].destroyed)
    BY <2>2 DEF ControlClosed
  <2>. QED  BY <2>1, <2>2
<1>4. BroomOK(b)'
  <2>1. \A h \in Handle : task'[h].broom = b => Held(h)'
    BY <1>t, <1>1, <1>2, <1>3 DEF BroomOK, Held, At, Activating
  <2>2. Locks(b)' /\ OpenBroom(b)'
    BY <1>t, <1>1, <1>2 DEF BroomOK, Locks, OpenBroom
  <2>3. Live(b)'
    BY <1>t, <1>1, <1>2, <1>3 DEF BroomOK, Live, ControlClosed
  <2>4. InTable(b)'
    BY <1>t, <1>1, <1>2, <1>3, NoneApart DEF BroomOK, InTable, Ready
  <2>. QED  BY <2>1, <2>2, <2>3, <2>4 DEF BroomOK
<1>5. ASSUME NEW c \in BackendRoom, c # b PROVE SameTable(c)
  <2>1. \A z \in Server : c \in janus[z].inside => c \in janus'[z].inside
    BY <1>5, LeftOthers DEF ControlClosed
  <2>2. \A z \in Server : room'.table[z] = c <=> room.table[z] = c
    BY <1>3, <1>5, NoneApart
  <2>. QED  BY <1>3, <2>1, <2>2 DEF SameTable
<1>6. Swept'
  BY <1>t, <1>3 DEF BroomInv, Swept
<1>. QED  BY <1>t, <1>1, <1>4, <1>5, <1>6, BroomAlone

LEMMA BroomStutter == IInv /\ BroomInv /\ UNCHANGED vars => BroomInv'
<1>. SUFFICES ASSUME IInv, BroomInv, UNCHANGED vars PROVE BroomInv'
  OBVIOUS
<1>. QED  BY NoTaskQuiet, BroomQuiet DEF vars

LEMMA BroomStep == IInv /\ BroomInv /\ [Next]_vars => BroomInv'
<1>. SUFFICES ASSUME IInv, BroomInv, [Next]_vars PROVE BroomInv'
  OBVIOUS
<1>1. ASSUME NEW h \in Handle, Answer(h) PROVE BroomInv'
  <2>1. CASE task[h].pc \in Activating
    BY <1>1, <2>1, BroomServed, BroomAsks DEF Answer
  <2>2. CASE task[h].pc \notin Activating
    BY <1>1, <2>2, BroomTaskSteps
  <2>. QED  BY <2>1, <2>2
<1>2. ASSUME NEW h \in Handle, Recreate(h) PROVE BroomInv'
  <2>1. task[h].pc \in Activating
    BY <1>2 DEF Recreate, Answered, At, Activating
  <2>. QED  BY <1>2, <2>1, BroomAsks
<1>3. ASSUME NEW h \in Handle, Resume(h) \/ Publish(h) \/ Leave(h) \/ Detach(h) PROVE BroomInv'
  BY <1>2, <1>3, BroomLockStep, BroomAttached, BroomCreated, BroomActivated, BroomFails,
     BroomTaskSteps, BroomPubSteps DEF Resume
<1>4. CASE DestroyRoom \/ AutoCleanup
  BY <1>4, BroomTells DEF DestroyRoom, AutoCleanup, Tells
<1>5. CASE Sweep
  BY <1>5, BroomTells, BroomSweepNext, BroomSweepDone DEF Sweep, Tells
<1>6. CASE \/ \E u \in User : Kick(u)
           \/ \E p \in Publisher : HangUp(p) \/ PubClosed(p)
  BY <1>6, BroomPubSteps
<1>7. CASE UNCHANGED vars
  BY <1>7, BroomStutter
<1>. QED  BY <1>1, <1>3, <1>4, <1>5, <1>6, <1>7, BroomJoinStep, BroomClosed DEF Next

-----------------------------------------------------------------------------
(* No backend handle is attached that nobody knows of: what is attached for *)
(* a publisher is stored in one that is not destroyed or waited for by its  *)
(* join, and a control handle is that of an active backend room, of the     *)
(* greenlet with its lock or of the greenlet that destroys backend rooms,   *)
(* whatever is refused, closed, kicked, detached or destroyed meanwhile.    *)
THEOREM NoLostHandleHolds == Spec => []NoLostHandle
<1>1. Init => IInv /\ PubInv /\ BroomInv
  BY InvInit, PubInit, BroomInit
<1>2. IInv /\ PubInv /\ BroomInv /\ [Next]_vars => (IInv /\ PubInv /\ BroomInv)'
  BY InvStep, PubStep, BroomStep
<1>3. IInv /\ PubInv /\ BroomInv => NoLostHandle
  <2>. SUFFICES ASSUME IInv, PubInv, BroomInv PROVE NoLostHandle
    OBVIOUS
  <2>1. ASSUME NEW b \in BackendRoom, broom[b].link = "open", broom[b].lock = None,
               b # sweep.cur, b \notin sweep.todo
        PROVE  broom[b].active /\ \E s \in Server : room.table[s] = b
    <3>1. broom[b].active
      BY <2>1 DEF BroomInv, BroomOK, OpenBroom
    <3>2. ~broom[b].destroyed /\ broom[b].server \in Server
      BY <2>1, <3>1 DEF BroomInv, BroomOK, Locks
    <3>3. room.table[broom[b].server] = b
      BY <2>1, <3>2, NoneApart DEF BroomInv, BroomOK, Live
    <3>. QED  BY <3>1, <3>2, <3>3
  <2>. QED  BY <2>1 DEF PubInv, OpenPub, Joins, NoLostHandle
<1>. QED  BY <1>1, <1>2, <1>3, PTL DEF Spec

(* A backend room in the table that is active while nobody activates it is  *)
(* not destroyed and has its control handle in its Janus room: only who     *)
(* creates a room wipes it at the server, and it leaves the table with its  *)
(* end. So new_participant() may join there without asking.                 *)
THEOREM ActiveIsUsableHolds == Spec => []ActiveIsUsable
<1>1. Init => IInv /\ BroomInv
  BY InvInit, BroomInit
<1>2. IInv /\ BroomInv /\ [Next]_vars => (IInv /\ BroomInv)'
  BY InvStep, BroomStep
<1>3. IInv /\ BroomInv => ActiveIsUsable
  <2>. SUFFICES ASSUME IInv, BroomInv, NEW s \in Server, room.table[s] # None
                PROVE  LET b == room.table[s]
                       IN /\ ~broom[b].destroyed
                          /\ broom[b].active /\ broom[b].lock = None =>
                               /\ broom[b].link = "open"
                               /\ b \in janus[s].inside
    BY DEF ActiveIsUsable
  <2>. PICK b \in BackendRoom : b = room.table[s]
    BY Types DEF IInv
  <2>. QED  BY DEF BroomInv, BroomOK, InTable, Ready
<1>. QED  BY <1>1, <1>2, <1>3, PTL DEF Spec

-----------------------------------------------------------------------------
(* Whom destroy() has still to tell is not in the list, and nobody joins    *)
(* with it: it loses the room of which it was a participant.                *)
TellInv == \A p \in sweep.tell : p \notin Listed /\ \A h \in Handle : ~Joins(h, p)

LEMMA TellInit == Init => TellInv
BY DEF Init, TellInv

LEMMA ListedSame == ASSUME room'.participants = room.participants PROVE Listed' = Listed
BY DEF Listed

\* Who is listed was listed, or its join was answered.
LEMMA ListedSteps ==
    ASSUME IInv, NEW h \in Handle,
           \/ Answer(h) \/ Resume(h) \/ Publish(h) \/ Leave(h) \/ Detach(h)
           \/ \E u \in User, s \in Server, conf \in BOOLEAN : Join(h, u, s, conf)
    PROVE  \A p \in Listed' : p \in Listed \/ Joins(h, p)
<1>t. room \in RoomRec /\ room.participants \in [User -> Publisher \cup {None}]
  BY Types DEF IInv
<1>1. CASE Joined(h)
  <2>1. At(h, "join")
    BY <1>1 DEF Joined, Answered
  <2>2. \A v : \A p : Entered(room, v, p).participants = [room.participants EXCEPT ![v] = p]
    BY <1>t DEF Entered, RoomRec
  <2>3. room'.participants = [room.participants EXCEPT ![task[h].user] = task[h].pub]
    BY <1>1, <2>2 DEF Joined
  <2>. QED  BY <1>t, <2>1, <2>3 DEF Listed, Joins
<1>2. CASE \/ Answer(h) \/ Publish(h) \/ LockTimeout(h) \/ Attached(h) \/ Created(h) \/ Recreate(h)
  <2>1. room' = room
    BY <1>2 DEF Answer, JanusServes, JanusRefuses, Publish, LockTimeout, Attached, Created, Recreate
  <2>. QED  BY <2>1 DEF Listed
<1>3. CASE \/ LockGot(h) \/ Activated(h) \/ ActivationFails(h) \/ JoinFails(h)
           \/ \E u \in User, s \in Server, conf \in BOOLEAN : Join(h, u, s, conf)
  <2>. DEFINE Entry == \/ room' = room
                       \/ \E u : room' = [room EXCEPT !.creating = @ \cup {u}]
                       \/ \E u : room' = [room EXCEPT !.creating = @ \ {u}]
                       \/ \E s, n : room' = [room EXCEPT !.table[s] = n]
  <2>1. Entry
    <3>1. CASE LockGot(h) \/ Activated(h)
      BY <3>1 DEF LockGot, Activated, JoinsRoom
    <3>2. CASE JoinFails(h)
      BY <3>2 DEF JoinFails, IdDiscarded
    <3>3. CASE ActivationFails(h)
      <4>1. room' = room \/ \E s : room' = Untabled(s)
        BY <3>3 DEF ActivationFails
      <4>. QED  BY <4>1 DEF Untabled
    <3>4. ASSUME NEW u \in User, NEW s \in Server, NEW conf \in BOOLEAN, Join(h, u, s, conf)
          PROVE  Entry
      <4>1. \/ \E b : JoinsRoom(h, u, b, conf)
            \/ room' = room \/ \E n : room' = [room EXCEPT !.table[s] = n]
        BY <3>4 DEF Join
      <4>. QED  BY <4>1 DEF JoinsRoom
    <3>. QED  BY <1>3, <3>1, <3>2, <3>3, <3>4
  <2>2. room'.participants = room.participants
    BY <1>t, <2>1 DEF RoomRec
  <2>3. Listed' = Listed
    BY <2>2, ListedSame
  <2>. QED  BY <2>3
<1>4. CASE Published(h) \/ PublishFails(h) \/ Leave(h) \/ Detach(h)
  <2>1. room' = room \/ \E p : room' = DestroyedIn(room, p)
    BY <1>4 DEF Published, PublishFails, Leave, Detach
  <2>. QED  BY <2>1, ListedKept
<1>. QED  BY <1>1, <1>2, <1>3, <1>4 DEF Resume

\* Who joins did so before, or was free.
LEMMA JoinersSteps ==
    ASSUME IInv, PubInv, NEW h \in Handle,
           \/ Answer(h) \/ Resume(h) \/ Publish(h) \/ Leave(h) \/ Detach(h)
           \/ \E u \in User, s \in Server, conf \in BOOLEAN : Join(h, u, s, conf),
           NEW g \in Handle, task'[g].pc = "join"
    PROVE  Joins(g, task'[g].pub) \/ FreePub(task'[g].pub)
<1>t. TypeOK /\ task \in [Handle -> TaskRec] /\ task[h] \in TaskRec
  BY Types DEF IInv
<1>1. CASE task'[g] = task[g]
  BY <1>1 DEF Joins, At
<1>2. ASSUME NEW u, NEW b, NEW conf, JoinsRoom(h, u, b, conf)
      PROVE  Joins(g, task'[g].pub) \/ FreePub(task'[g].pub)
  <2>1. PICK p \in Publisher :
          /\ FreePub(p)
          /\ task' = [task EXCEPT ![h] = [NoTask EXCEPT !.pc = "join", !.user = u, !.pub = p,
                                                        !.configure = conf]]
    BY <1>2 DEF JoinsRoom
  <2>2. CASE g = h
    BY <1>t, <2>1, <2>2 DEF NoTask
  <2>3. CASE g # h
    <3>1. task'[g] = task[g]
      BY <1>t, <2>1, <2>3
    <3>. QED  BY <1>1, <3>1
  <2>. QED  BY <2>2, <2>3
<1>3. CASE Answer(h)
  <2>1. PICK r : task' = [task EXCEPT ![h] = [@ EXCEPT !.resp = r]]
    BY <1>3 DEF Answer, JanusServes, JanusRefuses
  <2>2. CASE g = h
    BY <1>t, <2>1, <2>2 DEF TaskRec, Joins, At
  <2>3. CASE g # h
    <3>1. task'[g] = task[g]
      BY <1>t, <2>1, <2>3
    <3>. QED  BY <1>1, <3>1
  <2>. QED  BY <2>2, <2>3
<1>4. CASE Attached(h) \/ Created(h) \/ Recreate(h)
  <2>1. PICK pc \in Activating, r \in {"none", "ok", "exists", "error"} :
          task' = [task EXCEPT ![h] = [@ EXCEPT !.pc = pc, !.resp = r]]
    BY <1>t, <1>4, ActivateGoes
  <2>2. g # h
    BY <1>t, <2>1 DEF Activating, TaskRec
  <2>3. task'[g] = task[g]
    BY <1>t, <2>1, <2>2
  <2>. QED  BY <1>1, <2>3
<1>5. ASSUME NEW t, task' = [task EXCEPT ![h] = t], t.pc # "join"
      PROVE  Joins(g, task'[g].pub) \/ FreePub(task'[g].pub)
  <2>1. g # h
    BY <1>t, <1>5
  <2>2. task'[g] = task[g]
    BY <1>t, <1>5, <2>1
  <2>. QED  BY <1>1, <2>2
<1>6. NoTask.pc # "join" /\ [task[h] EXCEPT !.pc = "publish", !.resp = "none"].pc # "join"
      /\ \A b, u, m, conf : /\ [NoTask EXCEPT !.pc = "attach", !.user = u, !.broom = b,
                                              !.creator = m, !.configure = conf].pc # "join"
                            /\ [NoTask EXCEPT !.pc = "lock", !.user = u, !.broom = b,
                                              !.configure = conf].pc # "join"
      /\ \A p : [NoTask EXCEPT !.pc = "publish", !.pub = p].pc # "join"
  BY <1>t DEF NoTask, TaskRec
<1>7. CASE \/ LockTimeout(h) \/ ActivationFails(h) \/ Joined(h) \/ JoinFails(h)
           \/ Published(h) \/ PublishFails(h)
  <2>1. \/ task' = [task EXCEPT ![h] = NoTask]
        \/ task' = [task EXCEPT ![h] = [task[h] EXCEPT !.pc = "publish", !.resp = "none"]]
    BY <1>t, <1>7 DEF LockTimeout, ActivationFails, Joined, JoinFails, Published, PublishFails
  <2>. QED  BY <1>5, <1>6, <2>1
<1>8. CASE Publish(h)
  BY <1>5, <1>6, <1>8 DEF Publish
<1>9. CASE Leave(h) \/ Detach(h)
  BY <1>1, <1>9 DEF Leave, Detach
<1>a. CASE \/ LockGot(h) \/ Activated(h)
           \/ \E u \in User, s \in Server, conf \in BOOLEAN : Join(h, u, s, conf)
  <2>. DEFINE NewJoin == Joins(g, task'[g].pub) \/ FreePub(task'[g].pub)
  <2>1. ASSUME NEW u, NEW b, NEW m, NEW conf, Activates(h, u, b, m, conf) PROVE NewJoin
    <3>. DEFINE t == [NoTask EXCEPT !.pc = "attach", !.user = u, !.broom = b,
                                    !.creator = m, !.configure = conf]
    <3>1. task' = [task EXCEPT ![h] = t] /\ t.pc # "join"
      BY <1>6, <2>1 DEF Activates
    <3>. HIDE DEF t
    <3>. QED  BY <1>5, <3>1
  <2>2. CASE LockGot(h) \/ Activated(h)
    <3>1. \/ \E u, b, conf : JoinsRoom(h, u, b, conf)
          \/ \E u, b, m, conf : Activates(h, u, b, m, conf)
      <4>1. CASE LockGot(h)
        BY <4>1 DEF LockGot
      <4>2. CASE Activated(h)
        BY <4>2 DEF Activated
      <4>. QED  BY <2>2, <4>1, <4>2
    <3>. QED  BY <1>2, <2>1, <3>1
  <2>3. ASSUME NEW u \in User, NEW s \in Server, NEW conf \in BOOLEAN, Join(h, u, s, conf)
        PROVE  NewJoin
    <3>1. \/ \E b : JoinsRoom(h, u, b, conf)
          \/ \E b, m : Activates(h, u, b, m, conf)
          \/ \E b : task' = [task EXCEPT ![h] = [NoTask EXCEPT !.pc = "lock", !.user = u,
                                                       !.broom = b, !.configure = conf]]
      BY <2>3 DEF Join
    <3>2. ASSUME NEW b, task' = [task EXCEPT ![h] = [NoTask EXCEPT !.pc = "lock", !.user = u,
                                                       !.broom = b, !.configure = conf]]
          PROVE  NewJoin
      <4>. DEFINE t == [NoTask EXCEPT !.pc = "lock", !.user = u, !.broom = b, !.configure = conf]
      <4>1. task' = [task EXCEPT ![h] = t] /\ t.pc # "join"
        BY <1>6, <3>2
      <4>. HIDE DEF t
      <4>. QED  BY <1>5, <4>1
    <3>. QED  BY <1>2, <2>1, <3>1, <3>2
  <2>. QED  BY <1>a, <2>2, <2>3
<1>. QED  BY <1>3, <1>4, <1>7, <1>8, <1>9, <1>a DEF Resume

LEMMA TellKept ==
    ASSUME IInv, PubInv, TellInv, sweep'.tell \subseteq sweep.tell,
           \A p \in Listed' : p \in Listed \/ \E h \in Handle : Joins(h, p),
           \A g \in Handle : task'[g].pc = "join" =>
                               Joins(g, task'[g].pub) \/ FreePub(task'[g].pub)
    PROVE  TellInv'
<1>. SUFFICES ASSUME NEW p \in sweep'.tell
              PROVE  p \notin Listed' /\ \A h \in Handle : ~Joins(h, p)'
  BY DEF TellInv
<1>1. p \in sweep.tell /\ p \notin Listed /\ \A h \in Handle : ~Joins(h, p)
  BY DEF TellInv
<1>2. ASSUME NEW h \in Handle, Joins(h, p)' PROVE FALSE
  <2>1. task'[h].pc = "join" /\ task'[h].pub = p
    BY <1>2 DEF Joins, At
  <2>. QED  BY <1>1, <2>1 DEF FreePub
<1>. QED  BY <1>1, <1>2

\* Of those that destroy() has to tell, the told ones are not told again.
LEMMA TellsFewer == ASSUME NEW ps, NEW bs, TellsNext(ps, bs) PROVE sweep'.tell \subseteq ps
<1>. DEFINE live == {p \in ps : ~pub[p].destroyed}
<1>1. \/ \E p \in live :
            sweep' = [pc |-> "tell", tell |-> live \ {p}, todo |-> bs, cur |-> None]
      \/ sweep' = [pc |-> "sweep", tell |-> {}, todo |-> bs, cur |-> None]
  BY DEF TellsNext
<1>2. live \subseteq ps
  OBVIOUS
<1>. HIDE DEF live
<1>. QED  BY <1>1, <1>2

LEMMA TellStep == IInv /\ PubInv /\ TellInv /\ [Next]_vars => TellInv'
<1>. SUFFICES ASSUME IInv, PubInv, TellInv, [Next]_vars PROVE TellInv'
  OBVIOUS
<1>t. sweep \in SweepRec /\ room \in RoomRec
  BY Types DEF IInv
<1>1. ASSUME NEW h \in Handle,
             \/ Answer(h) \/ Resume(h) \/ Publish(h) \/ Leave(h) \/ Detach(h)
             \/ \E u \in User, s \in Server, conf \in BOOLEAN : Join(h, u, s, conf)
      PROVE  TellInv'
  <2>1. sweep' = sweep
    BY <1>1 DEF Answer, JanusServes, JanusRefuses, Resume, LockGot, LockTimeout, Attached, Created,
                Recreate, Activated, ActivationFails, Joined, JoinFails, Published, PublishFails,
                Publish, Leave, Detach, Join
  <2>. QED  BY <1>1, <2>1, ListedSteps, JoinersSteps, TellKept
<1>2. ASSUME task' = task, Listed' \subseteq Listed, sweep'.tell \subseteq sweep.tell
      PROVE  TellInv'
  BY <1>2, TellKept DEF Joins, At
<1>3. CASE EndRoom
  <2>1. sweep'.tell \subseteq Listed
    BY <1>3, TellsFewer DEF EndRoom
  <2>2. Listed' = {} /\ task' = task
    BY <1>3 DEF EndRoom, Emptied, Listed
  <2>3. \A p \in Listed : \A h \in Handle : ~Joins(h, p)
    BY DEF PubInv, Fresh, Joins
  <2>. QED  BY <2>1, <2>2, <2>3 DEF TellInv, Joins, At
<1>4. CASE Sweep
  <2>1. sweep'.tell \subseteq sweep.tell
    <3>1. CASE Told
      BY <3>1, TellsFewer DEF Told
    <3>2. CASE ToldStalls \/ SweepDone \/ \E b \in BackendRoom : SweepNext(b)
      BY <1>t, <3>2 DEF ToldStalls, SweepDone, SweepNext, SweepRec
    <3>. QED  BY <1>4, <3>1, <3>2 DEF Sweep
  <2>2. task' = task /\ room' = room
    BY <1>4 DEF Sweep, Told, ToldStalls, SweepDone, SweepNext
  <2>. QED  BY <1>2, <2>1, <2>2, ListedSame
<1>5. ASSUME NEW u \in User, Kick(u) PROVE TellInv'
  <2>1. \A v \in User : room'.participants[v] \in {room.participants[v], None}
    BY <1>t, <1>5 DEF Kick, RoomRec
  <2>2. Listed' \subseteq Listed /\ task' = task /\ sweep' = sweep
    BY <1>5, <2>1 DEF Listed, Kick
  <2>. QED  BY <1>2, <2>2
<1>6. ASSUME NEW p \in Publisher, HangUp(p) \/ PubClosed(p) PROVE TellInv'
  <2>1. /\ task' = task /\ sweep' = sweep
        /\ room' = room \/ room' = DestroyedIn(room, p)
    BY <1>6 DEF HangUp, PubClosed
  <2>. QED  BY <1>2, <2>1, ListedKept
<1>7. ASSUME NEW b \in BackendRoom, ControlClosed(b) PROVE TellInv'
  <2>1. /\ task' = task /\ sweep' = sweep
        /\ room' = room \/ \E s : room' = Untabled(s)
    BY <1>7 DEF ControlClosed
  <2>2. room'.participants = room.participants
    BY <1>t, <2>1 DEF Untabled, RoomRec
  <2>. QED  BY <1>2, <2>1, <2>2, ListedSame
<1>8. CASE UNCHANGED vars
  BY <1>2, <1>8, ListedSame DEF vars
<1>. QED  BY <1>1, <1>3, <1>4, <1>5, <1>6, <1>7, <1>8 DEF Next, DestroyRoom, AutoCleanup

-----------------------------------------------------------------------------
(* A participant is in the room under its own id and is not destroyed; nor  *)
(* is a publisher whose join was answered.                                  *)
Named(u) ==
    LET p == room.participants[u]
    IN p # None => pub[p].user = u /\ pub[p].inroom /\ ~pub[p].destroyed

JoinedLive(h) == Answered(h, "join", "ok") => ~pub[task[h].pub].destroyed

IdInv == (\A u \in User : Named(u)) /\ (\A h \in Handle : JoinedLive(h))

LEMMA IdInit == Init => IdInv
BY DEF Init, IdInv, Named, JoinedLive, Answered, At, NoTask

SamePub(p) == /\ pub'[p].user = pub[p].user /\ pub'[p].inroom = pub[p].inroom
              /\ pub'[p].destroyed = pub[p].destroyed

\* An answered join that is still there was there before.
NoAnswer == \A h \in Handle : task'[h].pc = "join" /\ task'[h].resp = "ok" => task'[h] = task[h]

LEMMA IdsKept ==
    ASSUME IInv, IdInv, NoAnswer,
           \A u \in User : room'.participants[u] \in {room.participants[u], None},
           \A p \in Publisher : p \in Listed' => SamePub(p),
           \A h \in Handle : Answered(h, "join", "ok") /\ task'[h] = task[h]
              => (pub'[task[h].pub].destroyed <=> pub[task[h].pub].destroyed)
    PROVE  IdInv'
<1>1. ASSUME NEW u \in User PROVE Named(u)'
  <2>. SUFFICES ASSUME room'.participants[u] # None
                PROVE  LET p == room'.participants[u]
                       IN pub'[p].user = u /\ pub'[p].inroom /\ ~pub'[p].destroyed
    BY DEF Named
  <2>1. PICK p \in Publisher : p = room'.participants[u] /\ p = room.participants[u]
    BY Types DEF IInv
  <2>2. p \in Listed'
    BY <2>1, NoneApart DEF Listed
  <2>3. SamePub(p) /\ pub[p].user = u /\ pub[p].inroom /\ ~pub[p].destroyed
    BY <2>1, <2>2, NoneApart DEF IdInv, Named
  <2>. QED  BY <2>1, <2>3 DEF SamePub
<1>2. ASSUME NEW h \in Handle PROVE JoinedLive(h)'
  BY <1>2 DEF IdInv, JoinedLive, Answered, At, NoAnswer
<1>. QED  BY <1>1, <1>2 DEF IdInv

\* The task of h is not a join that was answered.
LEMMA AnswersNone ==
    ASSUME IInv, NEW h \in Handle, NEW t, task' = [task EXCEPT ![h] = t],
           t.pc # "join" \/ t.resp # "ok"
    PROVE  NoAnswer
BY TaskOne DEF NoAnswer

LEMMA IdQuiet ==
    ASSUME IInv, IdInv, NoAnswer, pub' = pub, room'.participants = room.participants
    PROVE  IdInv'
BY IdsKept DEF SamePub

\* A publisher ends that nobody joins with and is not in the list then.
LEMMA IdOther ==
    ASSUME IInv, IdInv, NoAnswer, NEW q \in Publisher, NEW x, pub' = [pub EXCEPT ![q] = x],
           \A u \in User : room'.participants[u] \in {room.participants[u], None},
           q \notin Listed' \/ (x.user = pub[q].user /\ x.inroom = pub[q].inroom
                                /\ x.destroyed = pub[q].destroyed),
           \/ (x.destroyed <=> pub[q].destroyed)
           \/ \A h \in Handle : Answered(h, "join", "ok") => task[h].pub # q \/ task'[h] # task[h]
    PROVE  IdInv'
<1>1. pub'[q] = x /\ \A p \in Publisher : p # q => pub'[p] = pub[p]
  BY Types DEF IInv
<1>2. ASSUME NEW p \in Publisher, p \in Listed' PROVE SamePub(p)
  BY <1>1, <1>2 DEF SamePub
<1>3. ASSUME NEW h \in Handle, Answered(h, "join", "ok"), task'[h] = task[h]
      PROVE  pub'[task[h].pub].destroyed <=> pub[task[h].pub].destroyed
  <2>1. PICK p \in Publisher : p = task[h].pub
    BY <1>3 DEF IInv, Shapes, TaskShape, Answered, At
  <2>2. CASE p = q
    BY <1>1, <1>3, <2>1, <2>2
  <2>3. CASE p # q
    BY <1>1, <2>1, <2>3
  <2>. QED  BY <2>2, <2>3
<1>. QED  BY <1>2, <1>3, IdsKept

LEMMA DestroyedUnlisted ==
    ASSUME IInv, IdInv, NEW q \in Publisher, room' = DestroyedIn(room, q)
    PROVE  /\ q \notin Listed'
           /\ \A u \in User : room'.participants[u] \in {room.participants[u], None}
<1>t. /\ room \in RoomRec /\ q # None
      /\ room.participants \in [User -> Publisher \cup {None}]
  BY Types, NoneApart DEF IInv
<1>1. CASE pub[q].inroom
  <2>1. PICK v : v = pub[q].user
    OBVIOUS
  <2>2. room'.participants = [room.participants EXCEPT ![v] = None]
    BY <1>t, <1>1, <2>1 DEF DestroyedIn, RoomRec
  <2>3. \A u \in User : room'.participants[u] = IF u = v THEN None ELSE room.participants[u]
    BY <1>t, <2>2
  <2>4. \A u \in User : room.participants[u] = q => u = v
    BY <1>t, <2>1 DEF IdInv, Named
  <2>5. \A u \in User : room'.participants[u] # q
    BY <1>t, <2>3, <2>4
  <2>. QED  BY <2>3, <2>5 DEF Listed
<1>2. CASE ~pub[q].inroom
  <2>1. room' = room
    BY <1>2 DEF DestroyedIn
  <2>2. q \notin Listed
    BY <1>t, <1>2 DEF IdInv, Named, Listed
  <2>. QED  BY <2>1, <2>2 DEF Listed
<1>. QED  BY <1>1, <1>2

-----------------------------------------------------------------------------
\* Greenlets that have nothing to do with a join that is answered.
LEMMA IdQuietSteps ==
    ASSUME IInv, IdInv, NEW h \in Handle,
           \/ LockTimeout(h) \/ Attached(h) \/ Created(h) \/ Recreate(h)
           \/ ActivationFails(h) \/ Publish(h) \/ JanusRefuses(h)
    PROVE  IdInv'
<1>t. TypeOK /\ task[h] \in TaskRec /\ room \in RoomRec
  BY Types DEF IInv
<1>1. pub' = pub
  BY DEF JanusRefuses, LockTimeout, Attached, Created, Recreate, ActivationFails, Publish
<1>2. room'.participants = room.participants
  <2>1. room' = room \/ \E s : room' = Untabled(s)
    BY DEF JanusRefuses, LockTimeout, Attached, Created, Recreate, ActivationFails, Publish
  <2>. QED  BY <1>t, <2>1 DEF Untabled, RoomRec
<1>3. PICK t : task' = [task EXCEPT ![h] = t] /\ (t.pc # "join" \/ t.resp # "ok")
  <2>1. CASE LockTimeout(h) \/ ActivationFails(h)
    <3>1. task' = [task EXCEPT ![h] = NoTask] /\ NoTask.pc = "idle"
      BY <2>1 DEF LockTimeout, ActivationFails, NoTask
    <3>. QED  BY <3>1
  <2>2. CASE Publish(h)
    <3>. DEFINE t == [NoTask EXCEPT !.pc = "publish", !.pub = handle[h].pub]
    <3>1. task' = [task EXCEPT ![h] = t] /\ t.pc = "publish"
      BY <2>2 DEF Publish, NoTask
    <3>. HIDE DEF t
    <3>. QED  BY <3>1
  <2>3. CASE JanusRefuses(h)
    <3>1. PICK r \in {"exists", "error"} : task' = [task EXCEPT ![h] = [@ EXCEPT !.resp = r]]
      <4>. DEFINE exists == At(h, "create") /\ Asks(h).link = "open" /\ janus[Asks(h).server].up
      <4>1. task' = [task EXCEPT ![h].resp = IF exists THEN "exists" ELSE "error"]
        BY <2>3 DEF JanusRefuses
      <4>. HIDE DEF exists
      <4>2. CASE exists
        BY <4>1, <4>2
      <4>3. CASE ~exists
        BY <4>1, <4>3
      <4>. QED  BY <4>2, <4>3
    <3>. DEFINE t == [task[h] EXCEPT !.resp = r]
    <3>2. t.resp = r /\ task' = [task EXCEPT ![h] = t]
      BY <1>t, <3>1 DEF TaskRec
    <3>. HIDE DEF t
    <3>. QED  BY <3>2
  <2>4. CASE Attached(h) \/ Created(h) \/ Recreate(h)
    <3>1. PICK pc \in Activating, r \in {"none", "ok", "exists", "error"} :
            task' = [task EXCEPT ![h] = [@ EXCEPT !.pc = pc, !.resp = r]]
      BY <1>t, <2>4, ActivateGoes
    <3>. DEFINE t == [task[h] EXCEPT !.pc = pc, !.resp = r]
    <3>2. t.pc = pc /\ task' = [task EXCEPT ![h] = t]
      BY <1>t, <3>1 DEF TaskRec
    <3>. HIDE DEF t
    <3>. QED  BY <3>2 DEF Activating
  <2>. QED  BY <2>1, <2>2, <2>3, <2>4
<1>4. NoAnswer
  BY <1>3, AnswersNone
<1>. QED  BY <1>1, <1>2, <1>4, IdQuiet

\* A publisher that begins to join is nobody's.
LEMMA IdJoins ==
    ASSUME IInv, IdInv, NEW h \in Handle, NEW u, NEW b, NEW conf, JoinsRoom(h, u, b, conf)
    PROVE  IdInv'
<1>1. PICK p \in Publisher :
         /\ FreePub(p)
         /\ pub' = [pub EXCEPT ![p] = [NoPub EXCEPT !.user = u, !.handle = h, !.link = "open",
                                                    !.server = broom[b].server]]
         /\ task' = [task EXCEPT ![h] = [NoTask EXCEPT !.pc = "join", !.user = u, !.pub = p,
                                                       !.configure = conf]]
  BY DEF JoinsRoom
<1>2. room'.participants = room.participants
  BY Types DEF JoinsRoom, RoomRec, IInv
<1>3. p \notin Listed' /\ \A g \in Handle : task[g].pub # p
  BY <1>1, <1>2 DEF FreePub, Listed
<1>. DEFINE x == [NoPub EXCEPT !.user = u, !.handle = h, !.link = "open",
                               !.server = broom[b].server]
            t == [NoTask EXCEPT !.pc = "join", !.user = u, !.pub = p, !.configure = conf]
<1>4. pub' = [pub EXCEPT ![p] = x] /\ task' = [task EXCEPT ![h] = t] /\ t.resp = "none"
  BY <1>1 DEF NoTask
<1>. HIDE DEF x, t
<1>5. NoAnswer
  BY <1>4, AnswersNone
<1>. QED  BY <1>2, <1>3, <1>4, <1>5, IdOther

LEMMA IdJoinSteps ==
    ASSUME IInv, IdInv, NEW h \in Handle,
           \/ LockGot(h) \/ Activated(h)
           \/ \E u \in User, s \in Server, conf \in BOOLEAN : Join(h, u, s, conf)
    PROVE  IdInv'
<1>t. TypeOK /\ room \in RoomRec
  BY Types DEF IInv
<1>1. ASSUME NEW t, pub' = pub, room'.participants = room.participants,
             task' = [task EXCEPT ![h] = t], t.pc \in {"attach", "lock"}
      PROVE  IdInv'
  <2>1. NoAnswer
    BY <1>1, AnswersNone
  <2>. QED  BY <1>1, <2>1, IdQuiet
<1>2. ASSUME NEW u, NEW b, NEW m, NEW conf, pub' = pub, room'.participants = room.participants,
             Activates(h, u, b, m, conf)
      PROVE  IdInv'
  <2>. DEFINE t == [NoTask EXCEPT !.pc = "attach", !.user = u, !.broom = b,
                                  !.creator = m, !.configure = conf]
  <2>1. t.pc = "attach" /\ task' = [task EXCEPT ![h] = t]
    BY <1>2 DEF NoTask, Activates
  <2>. HIDE DEF t
  <2>. QED  BY <1>1, <1>2, <2>1
<1>3. ASSUME NEW u, NEW b, NEW conf, pub' = pub, room'.participants = room.participants,
             task' = [task EXCEPT ![h] = [NoTask EXCEPT !.pc = "lock", !.user = u,
                                                        !.broom = b, !.configure = conf]]
      PROVE  IdInv'
  <2>. DEFINE t == [NoTask EXCEPT !.pc = "lock", !.user = u, !.broom = b, !.configure = conf]
  <2>1. t.pc = "lock" /\ task' = [task EXCEPT ![h] = t]
    BY <1>3 DEF NoTask
  <2>. HIDE DEF t
  <2>. QED  BY <1>1, <1>3, <2>1
<1>4. ASSUME NEW u \in User, NEW s \in Server, NEW conf \in BOOLEAN, Join(h, u, s, conf)
      PROVE  IdInv'
  <2>1. \/ \E b : JoinsRoom(h, u, b, conf)
        \/ /\ pub' = pub /\ (room' = room \/ \E n : room' = [room EXCEPT !.table[s] = n])
           /\ \E b, m : \/ Activates(h, u, b, m, conf)
                        \/ task' = [task EXCEPT ![h] = [NoTask EXCEPT !.pc = "lock", !.user = u,
                                                           !.broom = b, !.configure = conf]]
    BY <1>4 DEF Join
  <2>2. \A n : [room EXCEPT !.table[s] = n].participants = room.participants
    BY <1>t DEF RoomRec
  <2>3. CASE \E b : JoinsRoom(h, u, b, conf)
    BY <2>3, IdJoins
  <2>4. ASSUME NEW b, NEW m, pub' = pub, room'.participants = room.participants,
               \/ Activates(h, u, b, m, conf)
               \/ task' = [task EXCEPT ![h] = [NoTask EXCEPT !.pc = "lock", !.user = u,
                                                             !.broom = b, !.configure = conf]]
        PROVE  IdInv'
    BY <1>2, <1>3, <2>4
  <2>. QED  BY <2>1, <2>2, <2>3, <2>4
<1>5. CASE LockGot(h)
  <2>1. \/ \E b, conf : JoinsRoom(h, task[h].user, b, conf)
        \/ /\ pub' = pub /\ room' = room
           /\ \E b, m, conf : Activates(h, task[h].user, b, m, conf)
    BY <1>5 DEF LockGot
  <2>. QED  BY <1>2, <2>1, IdJoins
<1>6. CASE Activated(h)
  <2>1. \E b, conf : JoinsRoom(h, task[h].user, b, conf)
    BY <1>6 DEF Activated
  <2>. QED  BY <2>1, IdJoins
<1>. QED  BY <1>4, <1>5, <1>6

LEMMA IdServed ==
    ASSUME IInv, PubInv, IdInv, NEW h \in Handle, JanusServes(h) PROVE IdInv'
<1>t. /\ TypeOK /\ task[h] \in TaskRec /\ UNCHANGED <<room, pub>> /\ TaskShape(task[h])
      /\ task \in [Handle -> TaskRec]
  BY Types DEF IInv, Shapes, JanusServes
<1>1. PICK r : task' = [task EXCEPT ![h] = [@ EXCEPT !.resp = r]]
  BY DEF JanusServes
<1>. DEFINE t == [task[h] EXCEPT !.resp = r]
<1>2. t.pc = task[h].pc /\ t.pub = task[h].pub /\ task' = [task EXCEPT ![h] = t]
  BY <1>t, <1>1 DEF TaskRec
<1>. HIDE DEF t
<1>3. CASE task[h].pc # "join"
  <2>1. NoAnswer
    BY <1>2, <1>3, AnswersNone
  <2>. QED  BY <1>t, <2>1, IdQuiet
<1>4. CASE task[h].pc = "join"
  <2>1. PICK p \in Publisher : p = task[h].pub
    BY <1>t, <1>4 DEF TaskShape
  <2>2. Asks(h).link = pub[p].link
    BY <1>4, <2>1 DEF Asks
  <2>3. pub[p].link = "open"
    BY <2>2 DEF JanusServes, CanServe
  <2>4. ~pub[p].destroyed
    BY <1>4, <2>1, <2>3 DEF PubInv, Fresh, Calm, At
  <2>5. task'[h] = t /\ \A g \in Handle : g # h => task'[g] = task[g]
    BY <1>2, TaskOne
  <2>6. ASSUME NEW g \in Handle PROVE JoinedLive(g)'
    <3>1. CASE g = h
      BY <1>t, <1>2, <2>1, <2>4, <2>5, <3>1 DEF JoinedLive, Answered, At
    <3>2. CASE g # h
      BY <1>t, <2>5, <3>2 DEF IdInv, JoinedLive, Answered, At
    <3>. QED  BY <3>1, <3>2
  <2>7. \A u \in User : Named(u)'
    BY <1>t DEF IdInv, Named
  <2>. QED  BY <2>6, <2>7 DEF IdInv
<1>. QED  BY <1>3, <1>4

-----------------------------------------------------------------------------
LEMMA IdJoined ==
    ASSUME IInv, PubInv, IdInv, NEW h \in Handle, Joined(h) PROVE IdInv'
<1>t. /\ TypeOK /\ room \in RoomRec /\ pub \in [Publisher -> PubRec]
      /\ task \in [Handle -> TaskRec] /\ room.participants \in [User -> Publisher \cup {None}]
      /\ At(h, "join") /\ task[h].pc = "join" /\ task[h].pub \in Publisher
      /\ task[h].user \in User /\ task[h].resp = "ok"
  BY Types DEF IInv, Shapes, TaskShape, Joined, Answered, At
<1>. PICK p \in Publisher : p = task[h].pub
  BY <1>t
<1>. PICK u \in User : u = task[h].user
  BY <1>t
<1>1. /\ pub'[p].inroom /\ pub'[p].user = pub[p].user /\ pub'[p].destroyed = pub[p].destroyed
      /\ \A q \in Publisher : q # p => pub'[q] = pub[q]
  <2>1. pub' = [pub EXCEPT ![p].stored = TRUE, ![p].inroom = TRUE]
    BY DEF Joined
  <2>2. pub' = [pub EXCEPT ![p] = [@ EXCEPT !.stored = TRUE, !.inroom = TRUE]]
    BY <1>t, <2>1
  <2>. QED  BY <1>t, <2>2 DEF PubRec
<1>2. \A v \in User : room'.participants[v] = IF v = u THEN p ELSE room.participants[v]
  BY <1>t DEF Joined, Entered, RoomRec
<1>3. pub[p].user = u /\ p \notin Listed /\ ~pub[p].destroyed
  BY <1>t DEF PubInv, Fresh, IdInv, JoinedLive, Answered
<1>4. ASSUME NEW v \in User PROVE Named(v)'
  <2>1. CASE v = u
    BY <1>1, <1>2, <1>3, <2>1 DEF Named
  <2>2. CASE v # u /\ room.participants[v] # None
    <3>1. PICK q \in Publisher : q = room.participants[v]
      BY <1>t, <2>2
    <3>2. q # p /\ Named(v)
      BY <1>3, <2>2, <3>1 DEF Listed, IdInv
    <3>. QED  BY <1>1, <1>2, <2>2, <3>1, <3>2 DEF Named
  <2>3. CASE v # u /\ room.participants[v] = None
    BY <1>2, <2>3 DEF Named
  <2>. QED  BY <2>1, <2>2, <2>3
<1>5. \A q \in Publisher : pub'[q].destroyed = pub[q].destroyed
  BY <1>1
<1>6. task'[h].pc # "join" /\ \A g \in Handle : g # h => task'[g] = task[g]
  <2>1. \/ task' = [task EXCEPT ![h] = NoTask]
        \/ task' = [task EXCEPT ![h].pc = "publish", ![h].resp = "none"]
    BY DEF Joined
  <2>. QED  BY <1>t, <2>1 DEF NoTask, TaskRec
<1>7. ASSUME NEW g \in Handle PROVE JoinedLive(g)'
  <2>1. CASE g = h
    BY <1>6, <2>1 DEF JoinedLive, Answered, At
  <2>2. CASE g # h /\ At(g, "join")
    <3>1. task[g].pub \in Publisher
      BY <2>2 DEF IInv, Shapes, TaskShape, At
    <3>. QED  BY <1>5, <1>6, <2>2, <3>1 DEF IdInv, JoinedLive, Answered, At
  <2>3. CASE g # h /\ ~At(g, "join")
    BY <1>6, <2>3 DEF JoinedLive, Answered, At
  <2>. QED  BY <2>1, <2>2, <2>3
<1>. QED  BY <1>4, <1>7 DEF IdInv

LEMMA IdJoinFails ==
    ASSUME IInv, PubInv, IdInv, NEW h \in Handle, JoinFails(h) PROVE IdInv'
<1>t. /\ TypeOK /\ room \in RoomRec /\ pub \in [Publisher -> PubRec]
      /\ At(h, "join") /\ task[h].pub \in Publisher
  BY Types DEF IInv, Shapes, TaskShape, JoinFails, Answered, At
<1>. PICK p \in Publisher : p = task[h].pub
  BY <1>t
<1>1. PICK x : pub' = [pub EXCEPT ![p] = x]
  <2>1. pub' = [pub EXCEPT ![p].link = "none", ![p].destroyed = TRUE]
    BY DEF JoinFails
  <2>2. pub' = [pub EXCEPT ![p] = [@ EXCEPT !.link = "none", !.destroyed = TRUE]]
    BY <1>t, <2>1
  <2>. QED  BY <2>2
<1>2. room'.participants = room.participants
  BY <1>t DEF JoinFails, IdDiscarded, RoomRec
<1>3. p \notin Listed'
  BY <1>t, <1>2 DEF PubInv, Fresh, Listed
<1>4. task' = [task EXCEPT ![h] = NoTask] /\ NoTask.pc = "idle"
  BY DEF JoinFails, NoTask
<1>5. NoAnswer
  BY <1>4, AnswersNone
<1>6. \A g \in Handle : task[g].pub # p \/ task'[g] # task[g]
  <2>1. task'[h] # task[h]
    BY <1>t, <1>4, TaskOne DEF At
  <2>. QED  BY <1>t, <2>1 DEF PubInv, Fresh
<1>. QED  BY <1>1, <1>2, <1>3, <1>5, <1>6, IdOther

\* A publisher that nobody joins with ends.
LEMMA IdEnds ==
    ASSUME IInv, PubInv, IdInv, NoAnswer, NEW q \in Publisher, \A h \in Handle : ~Joins(h, q),
           pub' = [pub EXCEPT ![q] = Ended(@)], room' = DestroyedIn(room, q)
    PROVE  IdInv'
<1>1. /\ q \notin Listed'
      /\ \A u \in User : room'.participants[u] \in {room.participants[u], None}
  BY DestroyedUnlisted
<1>2. \A h \in Handle : Answered(h, "join", "ok") => task[h].pub # q
  BY DEF Joins, Answered
<1>. DEFINE x == Ended(pub[q])
<1>3. pub' = [pub EXCEPT ![q] = x]
  OBVIOUS
<1>. HIDE DEF x
<1>. QED  BY <1>1, <1>2, <1>3, IdOther

LEMMA IdPublished ==
    ASSUME IInv, PubInv, IdInv, NEW h \in Handle, Published(h) \/ PublishFails(h) PROVE IdInv'
<1>t. /\ TypeOK /\ pub \in [Publisher -> PubRec]
      /\ ~At(h, "join") /\ task[h].pub \in Publisher
  <2>1. task[h] \in TaskRec /\ TaskShape(task[h]) /\ task[h].pc = "publish"
    BY Types DEF IInv, Shapes, Published, PublishFails, Answered, At
  <2>. QED  BY <2>1, Types DEF IInv, TaskShape, At
<1>. PICK p \in Publisher : p = task[h].pub
  BY <1>t
<1>1. \A g \in Handle : ~Joins(g, p)
  BY <1>t, NobodyJoins
<1>2. NoAnswer
  <2>1. task' = [task EXCEPT ![h] = NoTask] /\ NoTask.pc = "idle"
    BY DEF Published, PublishFails, NoTask
  <2>. QED  BY <2>1, AnswersNone
<1>3. CASE pub' = [pub EXCEPT ![p] = Ended(@)] /\ room' = DestroyedIn(room, p)
  BY <1>1, <1>2, <1>3, IdEnds
<1>4. CASE pub' = pub /\ room' = room
  BY <1>2, <1>4, IdQuiet
<1>5. CASE pub' = [pub EXCEPT ![p].sdp = TRUE] /\ room' = room
  <2>. DEFINE x == [pub[p] EXCEPT !.sdp = TRUE]
  <2>1. /\ pub' = [pub EXCEPT ![p] = x] /\ x.user = pub[p].user /\ x.inroom = pub[p].inroom
        /\ x.destroyed = pub[p].destroyed
    BY <1>t, <1>5 DEF PubRec
  <2>. HIDE DEF x
  <2>. QED  BY <1>2, <1>5, <2>1, IdOther
<1>6. \/ pub' = [pub EXCEPT ![p] = Ended(@)] /\ room' = DestroyedIn(room, p)
      \/ pub' = pub /\ room' = room
      \/ pub' = [pub EXCEPT ![p].sdp = TRUE] /\ room' = room
  BY DEF Published, PublishFails, DestroyPub
<1>. QED  BY <1>3, <1>4, <1>5, <1>6

LEMMA IdLeaves ==
    ASSUME IInv, PubInv, IdInv, NEW h \in Handle, Leave(h) \/ Detach(h) PROVE IdInv'
<1>t. handle[h].pub \in Publisher \cup {None} /\ NoAnswer
  BY Types DEF IInv, Leave, Detach, NoAnswer
<1>1. CASE handle[h].pub # None /\ ~pub[handle[h].pub].destroyed
  <2>1. PICK p \in Publisher : p = handle[h].pub
    BY <1>t, <1>1
  <2>2. room' = DestroyedIn(room, p) /\ pub' = [pub EXCEPT ![p] = Ended(@)]
    BY <1>1, <2>1 DEF Leave, Detach, DestroyPub
  <2>3. \A g \in Handle : ~Joins(g, p)
    BY <2>1, NobodyJoins
  <2>. QED  BY <1>t, <2>2, <2>3, IdEnds
<1>2. CASE ~(handle[h].pub # None /\ ~pub[handle[h].pub].destroyed)
  <2>1. UNCHANGED <<room, pub>>
    BY <1>2 DEF Leave, Detach
  <2>. QED  BY <1>t, <2>1, IdQuiet
<1>. QED  BY <1>1, <1>2

LEMMA IdKicked ==
    ASSUME IInv, PubInv, IdInv, NEW u \in User, Kick(u) PROVE IdInv'
<1>t. /\ room \in RoomRec /\ NoAnswer
      /\ room.participants \in [User -> Publisher \cup {None}]
  BY Types DEF IInv, Kick, NoAnswer
<1>. PICK p \in Publisher : p = room.participants[u]
  BY <1>t DEF Kick
<1>1. \A h \in Handle : Answered(h, "join", "ok") => task[h].pub # p
  <2>1. p \in Listed
    BY NoneApart DEF Listed
  <2>. QED  BY <2>1, NobodyJoins DEF Joins, Answered
<1>2. \A v \in User : room'.participants[v] = IF v = u THEN None ELSE room.participants[v]
  BY <1>t DEF Kick, RoomRec
<1>3. \A v \in User : room.participants[v] = p => v = u
  BY NoneApart DEF IdInv, Named
<1>4. p \notin Listed'
  BY <1>2, <1>3, NoneApart DEF Listed
<1>5. PICK x : pub' = [pub EXCEPT ![p] = x]
  BY DEF Kick
<1>. QED  BY <1>t, <1>1, <1>2, <1>4, <1>5, IdOther

LEMMA IdHungUp ==
    ASSUME IInv, IdInv, NEW p \in Publisher, HangUp(p) PROVE IdInv'
<1>t. pub \in [Publisher -> PubRec] /\ NoAnswer /\ room' = room
  BY Types DEF IInv, HangUp, NoAnswer
<1>. DEFINE x == [pub[p] EXCEPT !.sdp = FALSE]
<1>1. /\ pub' = [pub EXCEPT ![p] = x] /\ x.user = pub[p].user /\ x.inroom = pub[p].inroom
      /\ x.destroyed = pub[p].destroyed
  BY <1>t DEF PubRec, HangUp
<1>. HIDE DEF x
<1>. QED  BY <1>t, <1>1, IdOther

\* Here it matters that no answer is overtaken by the end of its handle.
LEMMA IdClosed ==
    ASSUME IInv, IdInv, "late" \notin Faults, NEW p \in Publisher, PubClosed(p) PROVE IdInv'
<1>1. NoAnswer /\ room' = DestroyedIn(room, p) /\ InTime(p)
  BY DEF PubClosed, NoAnswer
<1>2. /\ p \notin Listed'
      /\ \A u \in User : room'.participants[u] \in {room.participants[u], None}
  BY <1>1, DestroyedUnlisted
<1>3. \A h \in Handle : Answered(h, "join", "ok") => task[h].pub # p
  BY <1>1 DEF InTime, Answered
<1>. PICK x : x = [Ended(pub[p]) EXCEPT !.link = "closed"]
  OBVIOUS
<1>4. pub' = [pub EXCEPT ![p] = x]
  BY DEF PubClosed
<1>. QED  BY <1>1, <1>2, <1>3, <1>4, IdOther

LEMMA IdTells ==
    ASSUME IInv, IdInv, TellInv, Tells PROVE IdInv'
<1>1. NoAnswer
  BY TellsFacts DEF NoAnswer, IInv
<1>2. \A p \in Publisher : pub'[p].destroyed = pub[p].destroyed
  BY TellsFacts DEF IInv
<1>3. ASSUME NEW h \in Handle, Answered(h, "join", "ok")
      PROVE  pub'[task[h].pub].destroyed <=> pub[task[h].pub].destroyed
  BY <1>2, <1>3 DEF IInv, Shapes, TaskShape, Answered, At
<1>4. CASE EndRoom
  <2>1. \A u \in User : room'.participants[u] = None
    BY <1>4 DEF EndRoom, Emptied
  <2>2. Listed' = {}
    BY <2>1 DEF Listed
  <2>. QED  BY <1>1, <1>3, <2>1, <2>2, IdsKept
<1>5. CASE Told \/ ToldStalls
  <2>1. room' = room
    BY <1>5 DEF Told, ToldStalls
  <2>2. Listed' = Listed
    BY <2>1 DEF Listed
  <2>3. ASSUME NEW p \in Publisher, p \in Listed PROVE SamePub(p)
    <3>1. p \notin sweep.tell
      BY <2>3 DEF TellInv
    <3>2. sweep.tell \in SUBSET Publisher /\ sweep.todo \in SUBSET BackendRoom
      BY Types DEF IInv, SweepRec
    <3>3. pub'[p] = pub[p]
      <4>1. CASE Told
        BY <3>1, <3>2, <4>1, TellsNextFacts DEF Told, Unroomed, IInv
      <4>. QED  BY <1>5, <4>1 DEF ToldStalls
    <3>. QED  BY <3>3 DEF SamePub
  <2>. QED  BY <1>1, <1>3, <2>1, <2>2, <2>3, IdsKept
<1>. QED  BY <1>4, <1>5 DEF Tells

LEMMA IdElsewhere ==
    ASSUME IInv, IdInv, TellInv, Sweep \/ (\E b \in BackendRoom : ControlClosed(b))
    PROVE  IdInv'
<1>. SUFFICES ASSUME \/ SweepDone
                     \/ \E b \in BackendRoom : SweepNext(b) \/ ControlClosed(b)
              PROVE  IdInv'
  BY IdTells DEF Sweep, Tells
<1>1. pub' = pub /\ NoAnswer
  BY DEF SweepNext, SweepDone, ControlClosed, NoAnswer
<1>2. room' = room \/ \E s : room' = Untabled(s)
  BY DEF SweepNext, SweepDone, ControlClosed
<1>3. room'.participants = room.participants
  BY <1>2, Types DEF Untabled, RoomRec, IInv
<1>. QED  BY <1>1, <1>3, IdQuiet

LEMMA IdStep ==
    ASSUME "late" \notin Faults
    PROVE  IInv /\ PubInv /\ TellInv /\ IdInv /\ [Next]_vars => IdInv'
<1>. SUFFICES ASSUME IInv, PubInv, TellInv, IdInv, [Next]_vars PROVE IdInv'
  OBVIOUS
<1>1. ASSUME NEW h \in Handle, Answer(h) \/ Resume(h) \/ Publish(h) \/ Leave(h) \/ Detach(h)
      PROVE  IdInv'
  BY <1>1, IdQuietSteps, IdServed, IdJoinSteps, IdJoined, IdJoinFails, IdPublished, IdLeaves
     DEF Answer, Resume
<1>2. ASSUME NEW h \in Handle, \E u \in User, s \in Server, conf \in BOOLEAN : Join(h, u, s, conf)
      PROVE  IdInv'
  BY <1>2, IdJoinSteps
<1>3. CASE DestroyRoom \/ AutoCleanup
  BY <1>3, IdTells DEF DestroyRoom, AutoCleanup, Tells
<1>4. CASE UNCHANGED vars
  BY <1>4, IdQuiet DEF vars, NoAnswer
<1>. QED  BY <1>1, <1>2, <1>3, <1>4, IdKicked, IdHungUp, IdClosed, IdElsewhere DEF Next

(* Who is in the list of participants is not destroyed, and an id is taken  *)
(* only for a join that waits. That no backend handle is closed between the *)
(* answer to a join and its greenlet is needed: Joined enters the publisher *)
(* without looking whether it has been destroyed since.                     *)
THEOREM IdsAreTrueHolds == ASSUME "late" \notin Faults PROVE Spec => []IdsAreTrue
<1>1. Init => IInv /\ PubInv /\ TellInv /\ IdInv
  BY InvInit, PubInit, TellInit, IdInit
<1>2. IInv /\ PubInv /\ TellInv /\ IdInv /\ [Next]_vars
        => (IInv /\ PubInv /\ TellInv /\ IdInv)'
  BY InvStep, PubStep, TellStep, IdStep
<1>3. IInv /\ PubInv /\ IdInv => IdsAreTrue
  BY NoneApart DEF IInv, IdInv, Named, IdsAreTrue, NoGhost, Listed
<1>. QED  BY <1>1, <1>2, <1>3, PTL DEF Spec
=============================================================================
