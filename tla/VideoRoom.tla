------------------------------ MODULE VideoRoom ------------------------------
(* One room of the videoroom plugin, januscloud/proxy/plugin/videoroom.py:  *)
(* the VideoRoom with its publishers and with one BackendRoom per backend   *)
(* server, and the rooms of the Janus servers behind them.                  *)
(*                                                                          *)
(* Each frontend handle has a greenlet for its own messages. A join waits   *)
(* for the activation of a backend room (session, attach, create, the join  *)
(* of a control handle) and then for the join of the publisher; meanwhile   *)
(* other handles join, publish, leave and are detached, participants are    *)
(* kicked, backend handles are closed and the room is destroyed.            *)
(* An event to a client is a send that waits, and whose timeout is no       *)
(* Exception: it ends the greenlet. The sends of VideoRoom.destroy() are    *)
(* modelled, for the control handles are given back only after them. Those  *)
(* at the end of an operation are left out, and so are those of a kick, a   *)
(* detach and a close, which come before the publisher is ended: the model  *)
(* ends it in the same step, where a client that does not read could keep   *)
(* the code from doing so.                                                  *)
(* A publisher's attach_handle() is one wait with its join. Private ids,    *)
(* subscribers, remote publishers and streams are left out, and so is the   *)
(* search for the backend room with the fewest publishers in                *)
(* choose_backend_room(): its comparison never selects one.                 *)
EXTENDS Naturals, FiniteSets

CONSTANTS
    Handle,         \* VideoRoomHandle objects
    User,           \* user ids
    Publisher,      \* VideoRoomPublisher objects, each with its backend handle
    BackendRoom,    \* BackendRoom objects, each with its control handle
    Server,         \* backend servers
    MaxPublishers,  \* the room's limit of those who publish
    None,           \* absence of any of them
    Faults          \* what may happen besides, some of AllFaults

AllFaults == {"refuse",     \* a request to a backend server fails or times out
              "close",      \* a backend handle is closed under the plugin
              "late",       \* it is closed between an answer and its greenlet
              "detach",     \* a handle is detached while its message is handled
              "stall"}      \* a client does not read, and a send to it times out

ASSUME VideoRoomAssumption ==
    /\ None \notin Handle \cup User \cup Publisher \cup BackendRoom \cup Server
    /\ Publisher \cap BackendRoom = {}
    /\ MaxPublishers \in Nat
    /\ Faults \subseteq AllFaults

VARIABLES
    room,       \* the VideoRoom
    handle,     \* the frontend handles
    task,       \* their _async_message_greenlet
    pub,        \* the publishers
    broom,      \* the backend rooms
    sweep,      \* VideoRoom.destroy(), then the greenlet of destroy_backend_rooms()
    janus       \* the room at each Janus server

vars == <<room, handle, task, pub, broom, sweep, janus>>

RoomRec == [destroyed: BOOLEAN,                             \* _has_destroyed
            participants: [User -> Publisher \cup {None}],  \* _participants
            creating: SUBSET User,                          \* _creating_user_id
            table: [Server -> BackendRoom \cup {None}]]     \* _backend_rooms

HandleRec == [gone: BOOLEAN,                    \* _has_destroy
              pub: Publisher \cup {None}]       \* participant

\* A backend handle of this proxy: none, attached, or closed from outside.
Link == {"none", "open", "closed"}

PubRec == [user: User \cup {None}, handle: Handle \cup {None},
           server: Server \cup {None},
           link: Link,              \* the backend handle of its join()
           stored: BOOLEAN,         \* it is in _backend_handle
           inroom: BOOLEAN,         \* .room is the room
           sdp: BOOLEAN,            \* it publishes
           destroyed: BOOLEAN]

BackendRoomRec == [server: Server \cup {None},
                   link: Link,              \* the control handle
                   active: BOOLEAN,         \* it is in _backend_handle
                   lock: Handle \cup {None},
                   destroyed: BOOLEAN]

TaskRec == [pc: {"idle", "lock", "attach", "create", "wipe", "control", "join", "publish"},
            user: User \cup {None}, broom: BackendRoom \cup {None},
            pub: Publisher \cup {None},
            creator: BOOLEAN,       \* this join made the backend room
            configure: BOOLEAN,     \* the request is joinandconfigure
            resp: {"none", "ok", "exists", "error"}]

SweepRec == [pc: {"idle", "tell", "sweep",
                  "stuck"},             \* destroy() has got no further
             tell: SUBSET Publisher,    \* the participants it has still to tell
             todo: SUBSET BackendRoom, cur: BackendRoom \cup {None}]

TypeOK == /\ room \in RoomRec
          /\ handle \in [Handle -> HandleRec]
          /\ task \in [Handle -> TaskRec]
          /\ pub \in [Publisher -> PubRec]
          /\ broom \in [BackendRoom -> BackendRoomRec]
          /\ sweep \in SweepRec
          /\ janus \in [Server -> [up: BOOLEAN,
                                   inside: SUBSET (Publisher \cup BackendRoom)]]

NoTask == [pc |-> "idle", user |-> None, broom |-> None, pub |-> None,
           creator |-> FALSE, configure |-> FALSE, resp |-> "none"]
NoPub == [user |-> None, handle |-> None, server |-> None, link |-> "none",
          stored |-> FALSE, inroom |-> FALSE, sdp |-> FALSE, destroyed |-> FALSE]
NoBackendRoom == [server |-> None, link |-> "none", active |-> FALSE, lock |-> None,
                  destroyed |-> FALSE]
NoJanusRoom == [up |-> FALSE, inside |-> {}]

Init == /\ room = [destroyed |-> FALSE, participants |-> [u \in User |-> None],
                   creating |-> {}, table |-> [s \in Server |-> None]]
        /\ handle = [h \in Handle |-> [gone |-> FALSE, pub |-> None]]
        /\ task = [h \in Handle |-> NoTask]
        /\ pub = [p \in Publisher |-> NoPub]
        /\ broom = [b \in BackendRoom |-> NoBackendRoom]
        /\ sweep = [pc |-> "idle", tell |-> {}, todo |-> {}, cur |-> None]
        /\ janus = [s \in Server |-> NoJanusRoom]

-----------------------------------------------------------------------------
At(h, p) == task[h].pc = p
Answered(h, p, r) == At(h, p) /\ task[h].resp = r

Listed == {room.participants[u] : u \in User} \ {None}

\* An object is used again when nothing refers to it.
FreePub(p) == /\ pub[p].link # "open"
              /\ p \notin Listed \cup sweep.tell
              /\ \A h \in Handle : p \notin {handle[h].pub, task[h].pub}

FreeBackendRoom(b) == /\ broom[b].link # "open"
                      /\ \A s \in Server : room.table[s] # b
                      /\ \A h \in Handle : task[h].broom # b
                      /\ b \notin sweep.todo \cup {sweep.cur}

\* A backend handle leaves the Janus room with its end.
Left(s, x) == [janus EXCEPT ![s].inside = @ \ {x}]

\* check_max_publishers()
Full == Cardinality({u \in User : /\ room.participants[u] # None
                                  /\ pub[room.participants[u]].sdp}) >= MaxPublishers

\* The test of the user id in new_participant().
IdTaken(u) == room.participants[u] # None \/ u \in room.creating

-----------------------------------------------------------------------------
(* What a request that waits for its answer asks of the Janus server.       *)
Asks(h) ==
    LET t == task[h]
    IN CASE t.pc \in {"create", "wipe", "control"} ->
              [who |-> t.broom, server |-> broom[t.broom].server, link |-> broom[t.broom].link]
         [] t.pc \in {"join", "publish"} ->
              [who |-> t.pub, server |-> pub[t.pub].server, link |-> pub[t.pub].link]

Namesake(h, x) ==
    CASE At(h, "control") -> x \in BackendRoom
      [] At(h, "join") -> x \in Publisher /\ pub[x].user = task[h].user
      [] OTHER -> FALSE

CanServe(h) ==
    LET a == Asks(h)
    IN /\ a.link = "open"
       /\ CASE At(h, "create") -> ~janus[a.server].up
            [] At(h, "publish") -> a.who \in janus[a.server].inside
            [] OTHER -> /\ janus[a.server].up
                        /\ \A x \in janus[a.server].inside : ~Namesake(h, x)

Serve(h) ==
    LET a == Asks(h)
    IN CASE At(h, "create") -> [janus EXCEPT ![a.server].up = TRUE]
         [] At(h, "wipe") -> [janus EXCEPT ![a.server] = NoJanusRoom]
         [] At(h, "publish") -> janus
         [] OTHER -> [janus EXCEPT ![a.server].inside = @ \cup {a.who}]

Waits(h) == task[h].pc \notin {"idle", "lock", "attach"} /\ task[h].resp = "none"

\* A time-out is an error for the greenlet although the server did its part.
JanusServes(h) ==
    /\ Waits(h)
    /\ CanServe(h)
    /\ janus' = Serve(h)
    /\ \E r \in {"ok"} \cup IF "refuse" \in Faults THEN {"error"} ELSE {} :
         task' = [task EXCEPT ![h].resp = r]
    /\ UNCHANGED <<room, handle, pub, broom, sweep>>

JanusRefuses(h) ==
    /\ Waits(h)
    /\ "refuse" \in Faults \/ ~CanServe(h)
    /\ LET a == Asks(h)
           exists == At(h, "create") /\ a.link = "open" /\ janus[a.server].up
       IN task' = [task EXCEPT ![h].resp = IF exists THEN "exists" ELSE "error"]
    /\ UNCHANGED <<room, handle, pub, broom, sweep, janus>>

-----------------------------------------------------------------------------
(* p.destroy(), in room r, for a publisher that is not destroyed: by name,  *)
(* whoever is in _participants under it.                                    *)
\* Mutant: the backend handle is not detached.
EndedAttached(x) == [x EXCEPT !.stored = FALSE, !.inroom = FALSE, !.destroyed = TRUE]

Ended(x) == [x EXCEPT !.link = IF x.stored /\ x.link = "open" THEN "none" ELSE @,
                      !.stored = FALSE, !.inroom = FALSE, !.destroyed = TRUE]

\* Mutant: the room is not told.
RoomNotTold(r, p) == r

DestroyedIn(r, p) ==
    IF pub[p].inroom THEN [r EXCEPT !.participants[pub[p].user] = None] ELSE r

\* on_participant_detach()
Released(p) == [h \in Handle |-> IF handle[h].pub = p THEN [handle[h] EXCEPT !.pub = None]
                                                      ELSE handle[h]]

DestroyPub(p) == pub' = [pub EXCEPT ![p] = Ended(@)]

-----------------------------------------------------------------------------
(* The publisher joins: add to _creating_user_id, attach and send.          *)
JoinsRoom(h, u, b, conf) ==
    /\ room' = [room EXCEPT !.creating = @ \cup {u}]
    /\ \E p \in Publisher :
         /\ FreePub(p)
         /\ pub' = [pub EXCEPT ![p] = [NoPub EXCEPT !.user = u, !.handle = h, !.link = "open",
                                                    !.server = broom[b].server]]
         /\ task' = [task EXCEPT ![h] = [NoTask EXCEPT !.pc = "join", !.user = u, !.pub = p,
                                                       !.configure = conf]]

\* activate() with the lock.
Locked(x, h) == [x EXCEPT !.lock = h]

Activates(h, u, b, made, conf) ==
    task' = [task EXCEPT ![h] = [NoTask EXCEPT !.pc = "attach", !.user = u, !.broom = b,
                                               !.creator = made, !.configure = conf]]

(* join or joinandconfigure as publisher; the server that choose_server()   *)
(* returns and, with the id 0, the random id are chosen freely.             *)
Join(h, u, s, conf) ==
    /\ At(h, "idle")
    /\ ~handle[h].gone
    /\ handle[h].pub = None
    /\ ~room.destroyed
    /\ conf => ~Full
    /\ ~IdTaken(u)
    /\ LET b == room.table[s]
       IN \/ /\ b = None
             /\ \E n \in BackendRoom :
                  /\ FreeBackendRoom(n)
                  /\ broom' = [broom EXCEPT ![n] =
                                 Locked([NoBackendRoom EXCEPT !.server = s], h)]
                  /\ room' = [room EXCEPT !.table[s] = n]
                  /\ Activates(h, u, n, TRUE, conf)
             /\ UNCHANGED pub
          \/ /\ b # None /\ broom[b].active
             /\ JoinsRoom(h, u, b, conf)
             /\ UNCHANGED broom
          \/ /\ b # None /\ ~broom[b].active /\ broom[b].lock = None
             /\ broom' = [broom EXCEPT ![b] = Locked(@, h)]
             /\ Activates(h, u, b, FALSE, conf)
             /\ UNCHANGED <<room, pub>>
          \/ /\ b # None /\ ~broom[b].active /\ broom[b].lock # None
             /\ task' = [task EXCEPT ![h] = [NoTask EXCEPT !.pc = "lock", !.user = u,
                                                           !.broom = b, !.configure = conf]]
             /\ UNCHANGED <<room, pub, broom>>
    /\ UNCHANGED <<handle, sweep, janus>>

\* The lock is got; that the backend room may be destroyed is not looked at.
LockGot(h) ==
    /\ At(h, "lock")
    /\ LET t == task[h]
           b == t.broom
       IN /\ broom[b].lock = None
          /\ \/ /\ broom[b].active
                /\ JoinsRoom(h, t.user, b, t.configure)
                /\ UNCHANGED broom
             \/ /\ ~broom[b].active
                /\ broom' = [broom EXCEPT ![b] = Locked(@, h)]
                /\ Activates(h, t.user, b, FALSE, t.configure)
                /\ UNCHANGED <<room, pub>>
    /\ UNCHANGED <<handle, sweep, janus>>

LockTimeout(h) ==
    /\ At(h, "lock")
    /\ broom[task[h].broom].lock # None
    /\ task' = [task EXCEPT ![h] = NoTask]
    /\ UNCHANGED <<room, handle, pub, broom, sweep, janus>>

\* Mutant: a destroyed backend room is created all the same.
NeverSkips(h) == FALSE

\* A destroyed backend room has no VideoRoom any more: nothing is created.
Skips(h) == broom[task[h].broom].destroyed

Attached(h) ==
    /\ At(h, "attach")
    /\ broom' = [broom EXCEPT ![task[h].broom].link = "open",
                              ![task[h].broom].active = Skips(h)]
    /\ task' = [task EXCEPT ![h].pc = IF Skips(h) THEN "control" ELSE "create"]
    /\ UNCHANGED <<room, handle, pub, sweep, janus>>

Created(h) ==
    /\ \/ Answered(h, "create", "ok")
       \/ Answered(h, "wipe", "ok") /\ Skips(h)
    /\ broom' = [broom EXCEPT ![task[h].broom].active = TRUE]
    /\ task' = [task EXCEPT ![h].pc = "control", ![h].resp = "none"]
    /\ UNCHANGED <<room, handle, pub, sweep, janus>>

\* Mutant: a refused destroy request is tried again.
RecreateAnyway(h) ==
    /\ \/ /\ Answered(h, "create", "exists")
          /\ task' = [task EXCEPT ![h].pc = "wipe", ![h].resp = "none"]
       \/ /\ Answered(h, "wipe", "ok") \/ Answered(h, "wipe", "error")
          /\ ~Skips(h)
          /\ task' = [task EXCEPT ![h].pc = "create", ![h].resp = "none"]
    /\ UNCHANGED <<room, handle, pub, broom, sweep, janus>>

Recreate(h) ==
    /\ \/ /\ Answered(h, "create", "exists")
          /\ task' = [task EXCEPT ![h].pc = "wipe", ![h].resp = "none"]
       \/ /\ Answered(h, "wipe", "ok")
          /\ ~Skips(h)
          /\ task' = [task EXCEPT ![h].pc = "create", ![h].resp = "none"]
    /\ UNCHANGED <<room, handle, pub, broom, sweep, janus>>

Activated(h) ==
    /\ Answered(h, "control", "ok")
    /\ LET t == task[h]
       IN /\ ~Skips(h)
          /\ broom' = [broom EXCEPT ![t.broom].lock = None]
          /\ JoinsRoom(h, t.user, t.broom, t.configure)
    /\ UNCHANGED <<handle, sweep, janus>>

\* on_backend_room_destroy()
Untabled(s) == IF room.destroyed THEN room ELSE [room EXCEPT !.table[s] = None]

\* Mutant: the control handle is forgotten.
Forgotten(x) == [x EXCEPT !.active = FALSE, !.lock = None]

GivenUp(x) == [x EXCEPT !.active = FALSE, !.link = "none", !.lock = None]

\* The join that made the backend room destroys it.
ActivationFails(h) ==
    /\ \/ At(h, "attach") /\ "refuse" \in Faults
       \/ \E p \in {"create", "wipe", "control"} : Answered(h, p, "error")
       \/ Answered(h, "control", "ok") /\ Skips(h)
    /\ LET b == task[h].broom
           x == GivenUp(broom[b])
           discard == task[h].creator /\ ~x.destroyed
       IN /\ broom' = [broom EXCEPT ![b] = [x EXCEPT !.destroyed = @ \/ discard]]
          /\ room' = IF discard THEN Untabled(x.server) ELSE room
          /\ janus' = Left(x.server, b)
    /\ task' = [task EXCEPT ![h] = NoTask]
    /\ UNCHANGED <<handle, pub, sweep>>

-----------------------------------------------------------------------------
\* Mutant: the handle is entered in place of the publisher.
EnteredHandle(r, u, p) == [r EXCEPT !.participants[u] = pub[p].handle, !.creating = @ \ {u}]

(* new_participant() goes on after the join, in whatever state it finds the *)
(* room, the handle and the publisher.                                      *)
Entered(r, u, p) == [r EXCEPT !.participants[u] = p, !.creating = @ \ {u}]

Joined(h) ==
    /\ Answered(h, "join", "ok")
    /\ LET t == task[h]
           p == t.pub
       IN /\ room' = Entered(room, t.user, p)
          /\ pub' = [pub EXCEPT ![p].stored = TRUE, ![p].inroom = TRUE]
          /\ \/ /\ ~t.configure
                /\ handle' = [handle EXCEPT ![h].pub = p]
                /\ task' = [task EXCEPT ![h] = NoTask]
             \/ /\ t.configure /\ pub[p].destroyed
                /\ task' = [task EXCEPT ![h] = NoTask]
                /\ UNCHANGED handle
             \/ /\ t.configure /\ ~pub[p].destroyed
                /\ task' = [task EXCEPT ![h].pc = "publish", ![h].resp = "none"]
                /\ UNCHANGED handle
    /\ UNCHANGED <<broom, sweep, janus>>

\* Mutant: the id stays in _creating_user_id.
IdKept(r, u) == r

IdDiscarded(r, u) == [r EXCEPT !.creating = @ \ {u}]

JoinFails(h) ==
    /\ Answered(h, "join", "error")
    /\ LET p == task[h].pub
       IN /\ pub' = [pub EXCEPT ![p].link = "none", ![p].destroyed = TRUE]
          /\ janus' = Left(pub[p].server, p)
    /\ room' = IdDiscarded(room, task[h].user)
    /\ task' = [task EXCEPT ![h] = NoTask]
    /\ UNCHANGED <<handle, broom, sweep>>

\* publish or configure with an offer, by a publisher of the room.
Publish(h) ==
    /\ At(h, "idle")
    /\ ~handle[h].gone
    /\ handle[h].pub # None
    /\ LET x == pub[handle[h].pub]
       IN x.inroom /\ ~x.sdp /\ ~x.destroyed /\ x.stored
    /\ ~Full
    /\ task' = [task EXCEPT ![h] = [NoTask EXCEPT !.pc = "publish", !.pub = handle[h].pub]]
    /\ UNCHANGED <<room, handle, pub, broom, sweep, janus>>

\* Without a room configure() raises after it has set the sdp.
Published(h) ==
    /\ Answered(h, "publish", "ok")
    /\ LET t == task[h]
           p == t.pub
           fails == ~pub[p].inroom
       IN \/ /\ ~(t.configure /\ fails /\ ~pub[p].destroyed)
             /\ pub' = [pub EXCEPT ![p].sdp = TRUE]
             /\ handle' = IF t.configure /\ ~fails
                          THEN [handle EXCEPT ![h].pub = p] ELSE handle
             /\ UNCHANGED <<room, janus>>
          \/ /\ t.configure /\ fails /\ ~pub[p].destroyed
             /\ DestroyPub(p)
             /\ room' = DestroyedIn(room, p)
             /\ janus' = Left(pub[p].server, p)
             /\ UNCHANGED handle
    /\ task' = [task EXCEPT ![h] = NoTask]
    /\ UNCHANGED <<broom, sweep>>

PublishFails(h) ==
    /\ Answered(h, "publish", "error")
    /\ LET p == task[h].pub
       IN \/ /\ task[h].configure /\ ~pub[p].destroyed
             /\ DestroyPub(p)
             /\ room' = DestroyedIn(room, p)
             /\ janus' = Left(pub[p].server, p)
          \/ /\ ~task[h].configure \/ pub[p].destroyed
             /\ UNCHANGED <<room, pub, janus>>
    /\ task' = [task EXCEPT ![h] = NoTask]
    /\ UNCHANGED <<handle, broom, sweep>>

\* The hangup event of Janus, also the end of an unpublish request.
HangUp(p) ==
    /\ pub[p].stored
    /\ pub[p].sdp
    /\ pub' = [pub EXCEPT ![p].sdp = FALSE]
    /\ UNCHANGED <<room, handle, task, broom, sweep, janus>>

Leave(h) ==
    /\ At(h, "idle")
    /\ ~handle[h].gone
    /\ handle[h].pub # None
    /\ LET p == handle[h].pub
       IN /\ pub[p].inroom /\ ~pub[p].destroyed
          /\ DestroyPub(p)
          /\ room' = DestroyedIn(room, p)
          /\ janus' = Left(pub[p].server, p)
          /\ handle' = Released(p)
    /\ UNCHANGED <<task, broom, sweep>>

\* detach(), from a request or from the end of the client's session.
Detach(h) ==
    /\ ~handle[h].gone
    /\ At(h, "idle") \/ "detach" \in Faults
    /\ LET p == handle[h].pub
           live == p # None /\ ~pub[p].destroyed
       IN /\ handle' = [handle EXCEPT ![h] = [gone |-> TRUE, pub |-> None]]
          /\ pub' = IF live THEN [pub EXCEPT ![p] = Ended(@)] ELSE pub
          /\ room' = IF live THEN DestroyedIn(room, p) ELSE room
          /\ janus' = IF live THEN Left(pub[p].server, p) ELSE janus
    /\ UNCHANGED <<task, broom, sweep>>

\* kick_participant()
Kick(u) ==
    /\ ~room.destroyed
    /\ room.participants[u] # None
    /\ LET p == room.participants[u]
       IN /\ room' = [room EXCEPT !.participants[u] = None]
          /\ pub' = [pub EXCEPT ![p] = IF @.destroyed THEN [@ EXCEPT !.inroom = FALSE]
                                                      ELSE Ended(@)]
          /\ janus' = Left(pub[p].server, p)
          /\ handle' = IF pub[p].destroyed THEN handle ELSE Released(p)
    /\ UNCHANGED <<task, broom, sweep>>

-----------------------------------------------------------------------------
Emptied == [destroyed |-> TRUE, participants |-> [u \in User |-> None],
            creating |-> {}, table |-> [s \in Server |-> None]]

\* Mutant: the backend rooms are listed when the table has been cleared.
TabledAfterClear == {}

Tabled == {room.table[s] : s \in Server} \ {None}

(* VideoRoom.destroy() to its next wait: of the participants ps that it has *)
(* still to tell, those that are not destroyed lose the room one by one,    *)
(* and each is told before the next; they keep their backend handles. Only  *)
(* then destroy_backend_rooms() gets its greenlet.                          *)
Unroomed(ps) == pub' = [p \in Publisher |-> IF p \in ps THEN [pub[p] EXCEPT !.inroom = FALSE]
                                                      ELSE pub[p]]

TellsNext(ps, bs) ==
    LET live == {p \in ps : ~pub[p].destroyed}
    IN \/ \E p \in live :
            /\ Unroomed({p} \cup (ps \ live))
            /\ sweep' = [pc |-> "tell", tell |-> live \ {p}, todo |-> bs, cur |-> None]
       \/ /\ live = {}
          /\ Unroomed(ps)
          /\ sweep' = [pc |-> "sweep", tell |-> {}, todo |-> bs, cur |-> None]

EndRoom ==
    /\ ~room.destroyed
    /\ room' = Emptied
    /\ TellsNext(Listed, Tabled)
    /\ UNCHANGED <<handle, task, broom, janus>>

Told == /\ sweep.pc = "tell"
        /\ TellsNext(sweep.tell, sweep.todo)
        /\ UNCHANGED <<room, handle, task, broom, janus>>

ToldStalls == /\ sweep.pc = "tell" /\ "stall" \in Faults
              /\ sweep' = [sweep EXCEPT !.pc = "stuck", !.tell = {}]
              /\ UNCHANGED <<room, handle, task, pub, broom, janus>>

DestroyRoom == EndRoom

\* _room_auto_cleanup_routine(): joins that wait do not count.
AutoCleanup == Listed = {} /\ EndRoom

\* destroy_backend_rooms() takes them one by one.
SweepNext(b) ==
    /\ sweep.pc = "sweep" /\ sweep.cur = None
    /\ b \in sweep.todo
    /\ sweep' = [sweep EXCEPT !.todo = @ \ {b},
                              !.cur = IF ~broom[b].destroyed /\ broom[b].active THEN b ELSE None]
    /\ broom' = [broom EXCEPT ![b].destroyed = TRUE, ![b].active = FALSE]
    /\ UNCHANGED <<room, handle, task, pub, janus>>

SweepDone ==
    /\ sweep.cur # None
    /\ LET b == sweep.cur
           s == broom[b].server
       IN /\ broom' = [broom EXCEPT ![b].link = IF @ = "open" THEN "none" ELSE @]
          /\ \/ /\ broom[b].link = "open"
                /\ janus' = [janus EXCEPT ![s] = NoJanusRoom]
             \/ /\ broom[b].link # "open" \/ "refuse" \in Faults
                /\ janus' = Left(s, b)
    /\ sweep' = [sweep EXCEPT !.cur = None]
    /\ UNCHANGED <<room, handle, task, pub>>

-----------------------------------------------------------------------------
\* No greenlet has an answer that came over the handle of x before its end.
InTime(x) == \A h \in Handle : x \in {task[h].pub, task[h].broom} => task[h].resp # "ok"

\* on_close() of a publisher.
PubClosed(p) ==
    /\ "close" \in Faults
    /\ pub[p].link = "open"
    /\ InTime(p) \/ "late" \in Faults
    /\ pub' = [pub EXCEPT ![p] = [Ended(@) EXCEPT !.link = "closed"]]
    /\ room' = DestroyedIn(room, p)
    /\ handle' = Released(p)
    /\ janus' = Left(pub[p].server, p)
    /\ UNCHANGED <<task, broom, sweep>>

\* on_close() of a backend room: only when the control handle is stored.
ControlClosed(b) ==
    /\ "close" \in Faults
    /\ broom[b].link = "open"
    /\ InTime(b) \/ "late" \in Faults
    /\ broom' = [broom EXCEPT ![b].link = "closed", ![b].active = FALSE,
                              ![b].destroyed = @ \/ broom[b].active]
    /\ room' = IF broom[b].active /\ ~broom[b].destroyed
               THEN Untabled(broom[b].server) ELSE room
    /\ janus' = Left(broom[b].server, b)
    /\ UNCHANGED <<handle, task, pub, sweep>>

-----------------------------------------------------------------------------
Answer(h) == JanusServes(h) \/ JanusRefuses(h)

Resume(h) == \/ LockGot(h) \/ LockTimeout(h) \/ Attached(h) \/ Created(h)
             \/ Recreate(h) \/ Activated(h) \/ ActivationFails(h)
             \/ Joined(h) \/ JoinFails(h) \/ Published(h)
             \/ PublishFails(h)

Sweep == Told \/ ToldStalls \/ SweepDone \/ \E b \in BackendRoom : SweepNext(b)

Next == \/ \E h \in Handle : \/ Answer(h) \/ Resume(h)
                             \/ Publish(h) \/ Leave(h) \/ Detach(h)
                             \/ \E u \in User, s \in Server, conf \in BOOLEAN :
                                  Join(h, u, s, conf)
        \/ \E u \in User : Kick(u)
        \/ DestroyRoom \/ AutoCleanup \/ Sweep
        \/ \E p \in Publisher : HangUp(p) \/ PubClosed(p)
        \/ \E b \in BackendRoom : ControlClosed(b)

Spec == Init /\ [][Next]_vars

(* Requests are answered or time out, so do sends, greenlets go on.         *)
Fairness == WF_vars(Sweep) /\ \A h \in Handle : WF_vars(Answer(h)) /\ WF_vars(Resume(h))

FairSpec == Spec /\ Fairness
-----------------------------------------------------------------------------
(* Every backend handle that is attached at a Janus server is known to      *)
(* somebody who will detach it: a greenlet that waits, a publisher that has *)
(* it, a backend room that is active in the table of its room or that is    *)
(* just being activated, the greenlet that destroys the backend rooms. The  *)
(* latter takes all that were in the table when the room was destroyed,     *)
(* unless the send to a client has cut that short.                          *)
NoLostHandle ==
    /\ \A p \in Publisher : pub[p].link = "open" =>
         \/ pub[p].stored /\ ~pub[p].destroyed
         \/ \E h \in Handle : At(h, "join") /\ task[h].pub = p
    /\ \A b \in BackendRoom : broom[b].link = "open" =>
         \/ broom[b].active /\ \E s \in Server : room.table[s] = b
         \/ broom[b].lock # None
         \/ b \in sweep.todo \cup {sweep.cur}

(* A backend room from the table that is active without being activated is  *)
(* one in which a publisher can join: its room is at the Janus server with  *)
(* its control handle inside.                                               *)
ActiveIsUsable ==
    \A s \in Server : room.table[s] # None =>
        LET b == room.table[s]
        IN /\ ~broom[b].destroyed
           /\ broom[b].active /\ broom[b].lock = None =>
                /\ broom[b].link = "open"
                /\ b \in janus[s].inside

(* A user id is kept for a join only as long as that join waits.            *)
IdsFreed ==
    \A u \in room.creating : \E h \in Handle : At(h, "join") /\ task[h].user = u

(* Who is in the list of participants is not destroyed, so that it is not   *)
(* told to others and its id is free, whatever ended it while its join or   *)
(* its offer waited.                                                        *)
NoGhost == \A p \in Listed : ~pub[p].destroyed

(* A publisher that is in the room is the one the room has under its id: it *)
(* can be kicked and is told what the others do. The code does not keep     *)
(* this when there are two servers; no run checks it.                       *)
OnePerId == \A p \in Publisher : /\ pub[p].inroom /\ ~pub[p].destroyed
                                 /\ ~room.destroyed
                                 => room.participants[pub[p].user] = p

(* Every message of a client is dealt with.                                 *)
MessagesEnd == \A h \in Handle : ~At(h, "idle") ~> At(h, "idle")

(* When a room is destroyed each of its control handles is given back, also *)
(* those that were just being attached. Only a client that does not read    *)
(* can prevent that, and then of the backend rooms that were in the table.  *)
ControlsEnd == room.destroyed ~> \A b \in BackendRoom : broom[b].link = "open" =>
                                     sweep.pc = "stuck" /\ b \in sweep.todo

(* Together: the ids of a room are those of participants that are there and *)
(* of joins that wait.                                                      *)
IdsAreTrue == IdsFreed /\ NoGhost

(* Together: no message waits for ever, no control handle is forgotten.     *)
EverythingEnds == MessagesEnd /\ ControlsEnd
=============================================================================
