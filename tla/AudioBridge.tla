---------------------------- MODULE AudioBridge ----------------------------
(* One room of the audiobridge plugin, januscloud/proxy/plugin/            *)
(* audiobridge.py: the AudioBridgeRoom with its participants and its one    *)
(* backend room, and the room of the Janus server behind it.                *)
(*                                                                          *)
(* Each frontend handle has a greenlet for join, configure and leave; the   *)
(* other requests run in the greenlets that receive them. Whoever needs the *)
(* backend room activates it under a lock: attach a control handle, create  *)
(* the room (destroying one that is left over), join it. The control handle *)
(* is published as soon as it is attached, so that other requests go on     *)
(* while the room is still being created.                                   *)
(* An event to a client is a send that waits, and whose timeout is no       *)
(* Exception: it ends the greenlet. The sends in the middle of an operation *)
(* are modelled, the replies that end one are not.                          *)
(* A participant's attach_handle() is one wait with its join. The list of   *)
(* forwarders, what recordings, mutes and edits set, groups and plain RTP   *)
(* are left out.                                                            *)
EXTENDS Naturals, FiniteSets

CONSTANTS
    Handle,         \* AudioBridgeHandle objects
    Control,        \* greenlets of requests other than a handle's own
    User,           \* user ids
    Participant,    \* AudioBridgeParticipant objects, each with its backend handle
    Backend,        \* the room's control handles
    Server,         \* backend servers
    None,           \* absence of any of them
    Faults          \* what may happen besides, some of AllFaults

AllFaults == {"refuse",         \* a request fails or times out at a backend server
              "close",          \* a backend handle is closed under the plugin
              "late",           \* it is closed between an answer and its greenlet
              "detach",         \* a handle is detached while its message is handled
              "stall"}          \* a client does not read, and a send to it times out

ASSUME AudioBridgeAssumption ==
    /\ None \notin Handle \cup Control \cup User \cup Participant \cup Backend \cup Server
    /\ Handle \cap Control = {}
    /\ Participant \cap Backend = {}
    /\ Faults \subseteq AllFaults

VARIABLES
    room,       \* the AudioBridgeRoom
    handle,     \* the frontend handles
    part,       \* the participants
    backend,    \* the control handles
    task,       \* the greenlets
    janus       \* the room at each Janus server

vars == <<room, handle, part, backend, task, janus>>

Greenlet == Handle \cup Control

\* A backend handle of this proxy: none, attached, closed from outside, or left
\* attached by a room whose destroy request has failed.
Link == {"none", "open", "closed", "left"}

RoomRec == [mapped: BOOLEAN,                                    \* in _rooms_map
            destroyed: BOOLEAN,                                 \* _has_destroyed
            participants: [User -> Participant \cup {None}],    \* _participants
            creating: SUBSET User,                              \* _creating_user_id
            bh: Backend \cup {None},                            \* _backend_handle
            lock: Greenlet \cup {None}]                         \* _lock

HandleRec == [gone: {"no", "leaving", "yes"},   \* _has_destroy; detach() tells the client
              part: Participant \cup {None}]    \* participant

PartRec == [user: User \cup {None}, handle: Handle \cup {None},
            server: Server \cup {None},
            link: Link,             \* _backend_handle
            inroom: BOOLEAN,        \* .room is the room
            end: {"no", "asked",    \* somebody tells clients and then calls destroy()
                  "leaving",        \* destroy() tells clients
                  "stuck",          \* and has got no further
                  "done"},
            stray: BOOLEAN]

BackendRec == [server: Server \cup {None}, link: Link, stray: BOOLEAN]

\* "stray" is not in the code: a send that timed out has cut short what would have ended
\* the handle, or it comes when what it is for has ended.

TaskRec == [pc: {"idle", "lock", "attach", "create", "wipe", "control",
                 "join", "greet", "dead", "ask", "drop", "tell", "destroy"},
            op: {"none", "join", "room"},
            user: User \cup {None}, part: Participant \cup {None},
            bh: Backend \cup {None},        \* the local backend_handle
            resp: {"none", "ok", "exists", "error"}]

TypeOK == /\ room \in RoomRec
          /\ handle \in [Handle -> HandleRec]
          /\ part \in [Participant -> PartRec]
          /\ backend \in [Backend -> BackendRec]
          /\ task \in [Greenlet -> TaskRec]
          /\ janus \in [Server -> [up: BOOLEAN, inside: SUBSET (Participant \cup Backend)]]

NoTask == [pc |-> "idle", op |-> "none", user |-> None, part |-> None, bh |-> None,
           resp |-> "none"]
NoPart == [user |-> None, handle |-> None, server |-> None, link |-> "none",
           inroom |-> FALSE, end |-> "no", stray |-> FALSE]
NoBackend == [server |-> None, link |-> "none", stray |-> FALSE]
NoJanusRoom == [up |-> FALSE, inside |-> {}]

\* A backend server may still have the room of an earlier run of the proxy.
Init == /\ room = [mapped |-> TRUE, destroyed |-> FALSE,
                   participants |-> [u \in User |-> None], creating |-> {},
                   bh |-> None, lock |-> None]
        /\ handle = [h \in Handle |-> [gone |-> "no", part |-> None]]
        /\ part = [p \in Participant |-> NoPart]
        /\ backend = [b \in Backend |-> NoBackend]
        /\ task = [g \in Greenlet |-> NoTask]
        /\ janus \in [Server -> [up: BOOLEAN, inside: {{}}]]

-----------------------------------------------------------------------------
At(g, p) == task[g].pc = p
Answered(g, p, r) == At(g, p) /\ task[g].resp = r

\* _has_destroyed of a participant.
Ended(p) == part[p].end \in {"leaving", "stuck", "done"}

\* The frontend handle has a participant that is not destroyed.
HasPart(h) == /\ handle[h].part # None
              /\ ~Ended(handle[h].part)

Listed == {room.participants[u] : u \in User} \ {None}

\* An object is used again when nothing refers to it.
FreePart(p) == /\ part[p].link # "open" /\ part[p].end \notin {"asked", "leaving"}
               /\ p \notin Listed
               /\ \A h \in Handle : handle[h].part # p
               /\ \A g \in Greenlet : task[g].part # p

FreeBackend(b) == /\ backend[b].link \notin {"open", "left"}
                  /\ room.bh # b
                  /\ \A g \in Greenlet : task[g].bh # b

\* A backend handle leaves the Janus room with its end.
Left(s, x) == [janus EXCEPT ![s].inside = @ \ {x}]

\* detach() of a backend handle.
Detached(l) == IF l = "open" THEN "none" ELSE l

\* The test of the user id in new_participant().
IdTaken(u) == room.participants[u] # None \/ u \in room.creating

Finish(g) == task' = [task EXCEPT ![g] = NoTask]

-----------------------------------------------------------------------------
(* What a request that waits for its answer asks of the Janus server, which *)
(* handles those of one handle in their order.                              *)
OverPart(g) == task[g].part # None

LinkOf(g) == IF OverPart(g) THEN part[task[g].part].link ELSE backend[task[g].bh].link

ServerOf(g) == IF OverPart(g) THEN part[task[g].part].server
                              ELSE backend[task[g].bh].server

WhoOf(g) == IF OverPart(g) THEN task[g].part ELSE task[g].bh

Waits(g) == task[g].pc \in {"create", "wipe", "control", "join", "ask", "destroy"}
            /\ task[g].resp = "none"

\* The destroy request is the last that is sent over a control handle.
InOrder(g) == At(g, "destroy") =>
                \A o \in Greenlet \ {g} : ~(task[o].bh = task[g].bh /\ Waits(o))

\* Nobody is in the room under the same user id.
IdFree(g) == \A q \in janus[ServerOf(g)].inside \cap Participant :
                part[q].user # task[g].user

CanServe(g) ==
    /\ LinkOf(g) = "open"
    /\ LET up == janus[ServerOf(g)].up
       IN CASE At(g, "create") -> ~up
            [] At(g, "join") -> up /\ IdFree(g)
            [] At(g, "ask") /\ OverPart(g) -> task[g].part \in janus[ServerOf(g)].inside
            [] OTHER -> up

Serve(g) ==
    LET s == ServerOf(g)
    IN CASE At(g, "create") -> [janus EXCEPT ![s].up = TRUE]
         [] task[g].pc \in {"wipe", "destroy"} -> [janus EXCEPT ![s] = NoJanusRoom]
         [] At(g, "ask") -> janus
         [] OTHER -> [janus EXCEPT ![s].inside = @ \cup {WhoOf(g)}]

MayFail == "refuse" \in Faults

\* A time-out is an error for the greenlet although the server did its part.
JanusServes(g) ==
    /\ Waits(g) /\ InOrder(g)
    /\ CanServe(g)
    /\ janus' = Serve(g)
    /\ \E r \in {"ok"} \cup IF MayFail THEN {"error"} ELSE {} :
         task' = [task EXCEPT ![g].resp = r]
    /\ UNCHANGED <<room, handle, part, backend>>

JanusRefuses(g) ==
    /\ Waits(g) /\ InOrder(g)
    /\ MayFail \/ ~CanServe(g)
    /\ LET exists == At(g, "create") /\ LinkOf(g) = "open" /\ janus[ServerOf(g)].up
       IN task' = [task EXCEPT ![g].resp = IF exists THEN "exists" ELSE "error"]
    /\ UNCHANGED <<room, handle, part, backend, janus>>

-----------------------------------------------------------------------------
(* participant.destroy(), for one that is not destroyed: the room forgets   *)
(* who is in the list under its id and tells the others, then the backend   *)
(* handle is detached and the frontend handle is told.                      *)

\* Mutant: the room is not told.
ForgottenNever(r, x) == r

Forgotten(r, x) == IF x.inroom THEN [r EXCEPT !.participants[x.user] = None] ELSE r

\* There is an event to send: the room had it in its list, and has others there.
Tells(p) == /\ part[p].inroom /\ room.participants[part[p].user] # None
            /\ ~room.destroyed
            /\ Listed \ {p} # {}

EndedPart(x) == [x EXCEPT !.link = Detached(@), !.inroom = FALSE, !.end = "done"]

\* on_participant_detach(), in what the handles are by then.
Released(hs, p) == [h \in Handle |-> IF hs[h].part = p THEN [hs[h] EXCEPT !.part = None]
                                                       ELSE hs[h]]

\* A client whose media are up is told that they are closed, before the release.
LetGo(p, hs) == /\ part' = [part EXCEPT ![p] = EndedPart(@)]
                /\ handle' \in {Released(hs, p), hs}
                /\ janus' = Left(part[p].server, p)

EndPart(p, hs) ==
    /\ room' = Forgotten(room, part[p])
    /\ \/ /\ Tells(p)
          /\ part' = [part EXCEPT ![p].end = "leaving"]
          /\ handle' = hs
          /\ UNCHANGED janus
       \/ /\ ~Tells(p)
          /\ LetGo(p, hs)

\* The others have been told, in whatever state the room is.
PartToldOthers(p) == /\ part[p].end = "leaving"
                     /\ LetGo(p, handle)
                     /\ UNCHANGED <<room, backend, task>>

\* It has been told. When that has timed out, this never comes.
ToldHangup(h) == /\ handle[h].part # None
                 /\ LET p == handle[h].part
                    IN /\ part[p].end = "done" /\ ~part[p].stray
                       /\ handle' = Released(handle, p)
                 /\ UNCHANGED <<room, part, backend, task, janus>>

PartStalls(p) == /\ part[p].end = "leaving" /\ "stall" \in Faults
                 /\ part' = [part EXCEPT ![p].end = "stuck", ![p].stray = TRUE]
                 /\ UNCHANGED <<room, handle, backend, task, janus>>

-----------------------------------------------------------------------------
(* participant.join(): attach a backend handle and send the join request.   *)
AsksToJoin(h, u, s) ==
    \E p \in Participant :
      /\ FreePart(p)
      /\ part' = [part EXCEPT ![p] = [NoPart EXCEPT !.user = u, !.handle = h, !.server = s,
                                                    !.link = "open"]]
      /\ task' = [task EXCEPT ![h] = [NoTask EXCEPT !.pc = "join", !.op = "join",
                                                    !.user = u, !.part = p]]

(* The caller of activate_backend_room() goes on with the control handle b: *)
(* a join attaches a handle at the server the room has now, another request *)
(* is sent over b. A room that has lost its control handle has no server.   *)
GoesOn(g, op, u, b) ==
    \/ /\ op = "join" /\ room.bh # None
       /\ AsksToJoin(g, u, backend[room.bh].server)
    \/ /\ op = "join" /\ room.bh = None
       /\ Finish(g)
       /\ UNCHANGED part
    \/ /\ op # "join"
       /\ task' = [task EXCEPT ![g] = [NoTask EXCEPT !.pc = "ask", !.op = op, !.bh = b]]
       /\ UNCHANGED part

\* Mutant: a failed join keeps its id.
StillCreating(r, op, u) == r

\* The except clause of new_participant().
NotCreating(r, op, u) == IF op = "join" THEN [r EXCEPT !.creating = @ \ {u}] ELSE r

\* activate_backend_room() up to its first wait, in the room r.
Activate(g, op, u, r) ==
    \/ /\ r.bh # None
       /\ room' = r
       /\ GoesOn(g, op, u, r.bh)
    \/ /\ r.bh = None /\ r.lock # None
       /\ room' = r
       /\ task' = [task EXCEPT ![g] = [NoTask EXCEPT !.pc = "lock", !.op = op, !.user = u]]
       /\ UNCHANGED part
    \/ /\ r.bh = None /\ r.lock = None
       /\ room' = [r EXCEPT !.lock = g]
       /\ task' = [task EXCEPT ![g] = [NoTask EXCEPT !.pc = "attach", !.op = op, !.user = u]]
       /\ UNCHANGED part

(* join; with the id 0 the random id is chosen freely.                      *)
NewParticipant(h, u) ==
    /\ ~room.destroyed
    /\ ~IdTaken(u)
    /\ Activate(h, "join", u, [room EXCEPT !.creating = @ \cup {u}])

Join(h, u) ==
    /\ At(h, "idle")
    /\ handle[h].gone = "no"
    /\ handle[h].part = None
    /\ room.mapped
    /\ NewParticipant(h, u)
    /\ UNCHANGED <<handle, backend, janus>>

(* edit, mute_room, enable_recording, enable_mjrs, play_file, stop_file,    *)
(* is_playing, rtp_forward and stop_rtp_forward: activate and send.         *)
AsksRoom(c) == ~room.destroyed /\ Activate(c, "room", None, room)

RoomRequest(c) ==
    /\ At(c, "idle")
    /\ room.mapped
    /\ AsksRoom(c)
    /\ UNCHANGED <<handle, backend, janus>>

\* Their answer sets only what is left out here.
RoomAnswered(c) ==
    /\ At(c, "ask") /\ task[c].part = None
    /\ task[c].resp # "none"
    /\ Finish(c)
    /\ UNCHANGED <<room, handle, part, backend, janus>>

\* Mutant: the control handle is not looked at again.
NeverActive == FALSE

\* Another greenlet has activated the room.
AlreadyActive == room.bh # None

\* That the room may be destroyed is not looked at again.
LockGot(g) ==
    /\ At(g, "lock")
    /\ room.lock = None
    /\ LET t == task[g]
       IN \/ /\ AlreadyActive
             /\ GoesOn(g, t.op, t.user, room.bh)
             /\ UNCHANGED room
          \/ /\ ~AlreadyActive
             /\ room' = [room EXCEPT !.lock = g]
             /\ task' = [task EXCEPT ![g].pc = "attach"]
             /\ UNCHANGED part
    /\ UNCHANGED <<handle, backend, janus>>

LockTimeout(g) ==
    /\ At(g, "lock")
    /\ room.lock # None
    /\ room' = NotCreating(room, task[g].op, task[g].user)
    /\ Finish(g)
    /\ UNCHANGED <<handle, part, backend, janus>>

\* destroy() will not look at the control handle again.
TooLate == room.destroyed /\ \A c \in Control : ~At(c, "tell")

\* The control handle is published before its room is created.
Attached(g, b, s) ==
    /\ At(g, "attach")
    /\ FreeBackend(b)
    /\ backend' = [backend EXCEPT ![b] = [server |-> s, link |-> "open", stray |-> TooLate]]
    /\ room' = [room EXCEPT !.bh = b]
    /\ task' = [task EXCEPT ![g].pc = "create", ![g].bh = b]
    /\ UNCHANGED <<handle, part, janus>>

Created(g) ==
    /\ Answered(g, "create", "ok")
    /\ task' = [task EXCEPT ![g].pc = "control", ![g].resp = "none"]
    /\ UNCHANGED <<room, handle, part, backend, janus>>

\* A room that is left over is destroyed, whoever is in it.
Recreate(g) ==
    /\ \/ /\ Answered(g, "create", "exists")
          /\ task' = [task EXCEPT ![g].pc = "wipe", ![g].resp = "none"]
       \/ /\ Answered(g, "wipe", "ok")
          /\ task' = [task EXCEPT ![g].pc = "create", ![g].resp = "none"]
    /\ UNCHANGED <<room, handle, part, backend, janus>>

Activated(g) ==
    /\ Answered(g, "control", "ok")
    /\ LET t == task[g]
       IN /\ GoesOn(g, t.op, t.user, t.bh)
          /\ room' = LET r == [room EXCEPT !.lock = None]
                     IN IF room.bh = None THEN NotCreating(r, t.op, t.user) ELSE r
    /\ UNCHANGED <<handle, backend, janus>>

\* Mutant: the lock is not given back.
KeepsLock(r) == [r EXCEPT !.bh = None]

GivesUp(r) == [r EXCEPT !.bh = None, !.lock = None]

ActivationFails(g) ==
    /\ LET t == task[g]
       IN /\ room' = NotCreating(GivesUp(room), t.op, t.user)
          /\ \/ /\ At(g, "attach") /\ "refuse" \in Faults
                /\ UNCHANGED <<backend, janus>>
             \/ /\ t.pc \in {"create", "wipe", "control"} /\ t.resp = "error"
                /\ backend' = [backend EXCEPT ![t.bh].link = Detached(@)]
                /\ janus' = Left(backend[t.bh].server, t.bh)
    /\ Finish(g)
    /\ UNCHANGED <<handle, part>>

-----------------------------------------------------------------------------
\* Mutant: the frontend handle is entered in place of the participant.
EnteredHandle(r, u, p) ==
    [r EXCEPT !.participants[u] = part[p].handle, !.creating = @ \ {u}]

(* new_participant() goes on after the join, in whatever state it finds the *)
(* room and the handle, and tells the others before the handle gets it.     *)
Entered(r, u, p) == [r EXCEPT !.participants[u] = p, !.creating = @ \ {u}]

Greets == ~room.destroyed /\ Listed # {}

\* The participant may have ended, and the frontend handle's detach() may be over.
Claims(h, p, x) == [x EXCEPT !.stray = @ \/ handle[h].gone = "yes" \/ Ended(p)]

Joined(h) ==
    /\ Answered(h, "join", "ok")
    /\ LET t == task[h]
           x == [part[t.part] EXCEPT !.inroom = TRUE, !.stray = @ \/ Ended(t.part)]
       IN /\ room' = Entered(room, t.user, t.part)
          /\ \/ /\ Greets
                /\ part' = [part EXCEPT ![t.part] = x]
                /\ task' = [task EXCEPT ![h] = [NoTask EXCEPT !.pc = "greet", !.part = t.part]]
                /\ UNCHANGED handle
             \/ /\ ~Greets
                /\ part' = [part EXCEPT ![t.part] = Claims(h, t.part, x)]
                /\ handle' = [handle EXCEPT ![h].part = t.part]
                /\ Finish(h)
    /\ UNCHANGED <<backend, janus>>

Greeted(h) ==
    /\ At(h, "greet")
    /\ LET p == task[h].part
       IN /\ part' = [part EXCEPT ![p] = Claims(h, p, @)]
          /\ handle' = [handle EXCEPT ![h].part = p]
    /\ Finish(h)
    /\ UNCHANGED <<room, backend, janus>>

GreetStalls(h) ==
    /\ At(h, "greet") /\ "stall" \in Faults
    /\ part' = [part EXCEPT ![task[h].part].stray = TRUE]
    /\ task' = [task EXCEPT ![h] = [NoTask EXCEPT !.pc = "dead"]]
    /\ UNCHANGED <<room, handle, backend, janus>>

\* new_participant.destroy() of a participant that has not got into the room.
FailedPart(x) == [x EXCEPT !.link = Detached(@), !.end = "done"]

JoinFails(h) ==
    /\ Answered(h, "join", "error")
    /\ LET t == task[h]
       IN /\ part' = [part EXCEPT ![t.part] = FailedPart(@)]
          /\ room' = NotCreating(room, t.op, t.user)
          /\ janus' = Left(part[t.part].server, t.part)
    /\ Finish(h)
    /\ UNCHANGED <<handle, backend>>

\* configure; its answer sets only what is left out here.
Configure(h) ==
    /\ At(h, "idle")
    /\ handle[h].gone = "no"
    /\ HasPart(h) /\ part[handle[h].part].inroom
    /\ task' = [task EXCEPT ![h] = [NoTask EXCEPT !.pc = "ask", !.part = handle[h].part]]
    /\ UNCHANGED <<room, handle, part, backend, janus>>

\* mute or unmute of one participant.
MuteParticipant(c, u) ==
    /\ At(c, "idle")
    /\ room.mapped
    /\ room.participants[u] # None
    /\ ~Ended(room.participants[u])
    /\ task' = [task EXCEPT ![c] = [NoTask EXCEPT !.pc = "ask",
                                                  !.part = room.participants[u]]]
    /\ UNCHANGED <<room, handle, part, backend, janus>>

PartAnswered(g) ==
    /\ At(g, "ask") /\ task[g].part # None
    /\ task[g].resp # "none"
    /\ Finish(g)
    /\ UNCHANGED <<room, handle, part, backend, janus>>

Leave(h) ==
    /\ At(h, "idle")
    /\ handle[h].gone = "no"
    /\ HasPart(h) /\ part[handle[h].part].inroom
    /\ EndPart(handle[h].part, handle)
    /\ UNCHANGED <<backend, task>>

\* detach(), from a request or from the end of the client's session, tells the client.
Detach(h) ==
    /\ handle[h].gone = "no"
    /\ At(h, "idle") \/ At(h, "dead") \/ "detach" \in Faults
    /\ handle' = [handle EXCEPT ![h].gone = "leaving"]
    /\ UNCHANGED <<room, part, backend, task, janus>>

\* Then it ends the participant that it finds.
DetachGoesOn(h) ==
    /\ handle[h].gone = "leaving"
    /\ LET p == handle[h].part
           hs == [handle EXCEPT ![h] = [gone |-> "yes", part |-> None]]
       IN \/ /\ HasPart(h)
             /\ EndPart(p, hs)
          \/ /\ ~HasPart(h)
             /\ handle' = hs
             /\ UNCHANGED <<part, room, janus>>
    /\ UNCHANGED <<backend, task>>

DetachStalls(h) ==
    /\ handle[h].gone = "leaving" /\ "stall" \in Faults
    /\ handle' = [handle EXCEPT ![h].gone = "yes"]
    /\ part' = [p \in Participant |-> [part[p] EXCEPT !.stray = @ \/ p = handle[h].part]]
    /\ UNCHANGED <<room, backend, task, janus>>

\* kick_participant() tells everybody in the room first; kick_all() tells and ends one
\* after the other.
Kick(u) ==
    /\ room.mapped /\ ~room.destroyed
    /\ room.participants[u] # None
    /\ part[room.participants[u]].end = "no"
    /\ part' = [part EXCEPT ![room.participants[u]].end = "asked"]
    /\ UNCHANGED <<room, handle, backend, task, janus>>

\* The kick, or on_close(), goes on.
Asked(p) ==
    /\ part[p].end = "asked"
    /\ EndPart(p, handle)
    /\ UNCHANGED <<backend, task>>

AskedStalls(p) ==
    /\ part[p].end = "asked" /\ "stall" \in Faults
    /\ part' = [part EXCEPT ![p].end = "no"]
    /\ UNCHANGED <<room, handle, backend, task, janus>>

\* The hangup event of Janus, also the end of a hangup request.
HangUp(p) ==
    /\ part[p].link = "open"
    /\ ~Ended(p)
    /\ \A g \in Handle : ~(At(g, "join") /\ task[g].part = p)
    /\ EndPart(p, handle)
    /\ UNCHANGED <<backend, task>>

-----------------------------------------------------------------------------
Emptied(r) == [r EXCEPT !.mapped = FALSE, !.destroyed = TRUE,
                        !.participants = [u \in User |-> None], !.creating = {}]

(* AudioBridgeRoom.destroy(), to its next wait. Those who were in the list  *)
(* lose the room one by one, and each is told before the next; they keep    *)
(* their handles. The control handle comes last.                            *)
EndsFor(c, ps, r) ==
    \/ \E p \in ps : /\ part' = [part EXCEPT ![p].inroom = FALSE]
                     /\ room' = r
                     /\ task' = [task EXCEPT ![c] = [NoTask EXCEPT !.pc = "tell"]]
    \/ /\ ps = {}
       /\ room' = [r EXCEPT !.bh = None]
       /\ task' = [task EXCEPT ![c] = IF r.bh = None THEN NoTask
                                      ELSE [NoTask EXCEPT !.pc = "destroy", !.bh = r.bh]]
       /\ UNCHANGED part

EndRoom(c) == EndsFor(c, Listed, Emptied(room)) /\ UNCHANGED <<handle, backend, janus>>

\* They have the room, but are not in its list any more.
Unlisted == {p \in Participant : part[p].inroom /\ p \notin Listed
                                  /\ part[p].end \notin {"leaving", "stuck"}}

RoomTold(c) == At(c, "tell") /\ EndsFor(c, Unlisted, room) /\ UNCHANGED <<handle, backend, janus>>

RoomStalls(c) ==
    /\ At(c, "tell") /\ "stall" \in Faults
    /\ backend' = [b \in Backend |-> [backend[b] EXCEPT !.stray = @ \/ b = room.bh]]
    /\ Finish(c)
    /\ UNCHANGED <<room, handle, part, janus>>

\* The destroy request.
DestroyRoom(c) == At(c, "idle") /\ room.mapped /\ EndRoom(c)

\* _room_auto_cleanup_routine() takes the idle rooms out of the map first.
Collect(c) ==
    /\ At(c, "idle")
    /\ room.mapped
    /\ Listed = {}
    /\ room' = [room EXCEPT !.mapped = FALSE]
    /\ task' = [task EXCEPT ![c].pc = "drop"]
    /\ UNCHANGED <<handle, part, backend, janus>>

Drop(c) == At(c, "drop") /\ EndRoom(c)

RoomDestroyed(c) ==
    /\ Answered(c, "destroy", "ok")
    /\ LET b == task[c].bh
       IN /\ backend' = [backend EXCEPT ![b].link = Detached(@)]
          /\ janus' = Left(backend[b].server, b)
    /\ Finish(c)
    /\ UNCHANGED <<room, handle, part>>

\* The except clause fails itself, for the room has no backend_room_id, so that
\* the control handle is not detached.
RoomNotDestroyed(c) ==
    /\ Answered(c, "destroy", "error")
    /\ backend' = [backend EXCEPT ![task[c].bh].link = IF @ = "open" THEN "left" ELSE @]
    /\ Finish(c)
    /\ UNCHANGED <<room, handle, part, janus>>

-----------------------------------------------------------------------------
\* No greenlet has an answer that came over the handle x before its end.
InTime(x) == \A g \in Greenlet : x \in {task[g].part, task[g].bh} => task[g].resp # "ok"

(* on_close() of a participant: one that is in the room is told, and then   *)
(* destroyed.                                                               *)
PartClosed(p) ==
    /\ "close" \in Faults
    /\ part[p].link = "open"
    /\ InTime(p) \/ "late" \in Faults
    /\ LET closed(x) == [part EXCEPT ![p] = [x EXCEPT !.link = "closed"]]
       IN \/ /\ Ended(p)
             /\ part' = closed(part[p])
             /\ UNCHANGED handle
          \/ /\ ~Ended(p) /\ part[p].inroom
             /\ part' = closed([part[p] EXCEPT !.end = "asked"])
             /\ UNCHANGED handle
          \/ /\ ~Ended(p) /\ ~part[p].inroom
             /\ part' = closed(EndedPart(part[p]))
             /\ handle' \in {Released(handle, p), handle}
    /\ janus' = Left(part[p].server, p)
    /\ UNCHANGED <<room, backend, task>>

\* on_close() of the room.
ControlClosed(b) ==
    /\ "close" \in Faults
    /\ backend[b].link = "open"
    /\ InTime(b) \/ "late" \in Faults
    /\ backend' = [backend EXCEPT ![b].link = "closed"]
    /\ room' = IF room.destroyed THEN room ELSE [room EXCEPT !.bh = None]
    /\ janus' = Left(backend[b].server, b)
    /\ UNCHANGED <<handle, part, task>>

-----------------------------------------------------------------------------
Answer(g) == JanusServes(g) \/ JanusRefuses(g)

Resume(g) == \/ LockGot(g) \/ LockTimeout(g) \/ Created(g) \/ Recreate(g)
             \/ Activated(g) \/ ActivationFails(g) \/ PartAnswered(g)
             \/ \E b \in Backend, s \in Server : Attached(g, b, s)

ResumeJoin(h) == Joined(h) \/ JoinFails(h) \/ Greeted(h) \/ GreetStalls(h) \/ ToldHangup(h)

ResumeControl(c) == \/ RoomAnswered(c) \/ Drop(c) \/ RoomTold(c) \/ RoomStalls(c)
                    \/ RoomDestroyed(c) \/ RoomNotDestroyed(c)

Next == \/ \E g \in Greenlet : Answer(g) \/ Resume(g)
        \/ \E h \in Handle : \/ ResumeJoin(h) \/ Configure(h) \/ Leave(h)
                             \/ Detach(h) \/ DetachGoesOn(h) \/ DetachStalls(h)
                             \/ \E u \in User : Join(h, u)
        \/ \E c \in Control : \/ ResumeControl(c) \/ RoomRequest(c) \/ DestroyRoom(c)
                              \/ Collect(c)
                              \/ \E u \in User : MuteParticipant(c, u)
        \/ \E u \in User : Kick(u)
        \/ \E p \in Participant : \/ Asked(p) \/ AskedStalls(p) \/ HangUp(p) \/ PartClosed(p)
                                  \/ PartToldOthers(p) \/ PartStalls(p)
        \/ \E b \in Backend : ControlClosed(b)

Spec == Init /\ [][Next]_vars

-----------------------------------------------------------------------------
(* Every backend handle that is attached at a Janus server is going to be   *)
(* detached by somebody: a participant's by the frontend handle that joined *)
(* with it, by the join that waits or by the destroy() that is under way, a *)
(* control handle by the room or by the greenlet that creates or destroys   *)
(* its backend room. So two greenlets that need the room at once do not     *)
(* both attach a control handle for it. Lost are only the strays (lines     *)
(* 957, 1103, 1178, 869 and detach(), each with its README entry) and what  *)
(* a failed destroy request leaves (line 882).                              *)
NoLostHandle ==
    /\ \A p \in Participant : part[p].link = "open" /\ ~part[p].stray =>
         \/ LET h == part[p].handle
            IN ~Ended(p) /\ handle[h].part = p /\ handle[h].gone # "yes"
         \/ \E h \in Handle : task[h].pc \in {"join", "greet"} /\ task[h].part = p
         \/ part[p].end = "leaving"
    /\ \A b \in Backend : backend[b].link = "open" /\ ~backend[b].stray =>
         \/ room.bh = b /\ (~room.destroyed \/ \E c \in Control : At(c, "tell"))
         \/ \E g \in Greenlet : /\ task[g].pc \in {"create", "wipe", "control", "destroy"}
                               /\ task[g].bh = b

(* A user id is kept for a join only as long as that join waits, for the    *)
(* activation or for its answer.                                            *)
IdsFreed ==
    \A u \in room.creating :
        \E h \in Handle : ~At(h, "idle") /\ task[h].op = "join" /\ task[h].user = u

(* Who is in the list of participants can be kicked and can leave: it has   *)
(* the room, is not destroyed and is the participant of its frontend handle *)
(* or about to be, unless it is a stray. And whoever has the room is in its *)
(* list, under its id, unless the others are being told that it leaves or   *)
(* the room is destroyed.                                                   *)
ListedIsThere ==
    /\ \A u \in User : room.participants[u] # None =>
         LET p == room.participants[u]
         IN /\ part[p].user = u /\ part[p].inroom
            /\ \/ part[p].stray
               \/ ~Ended(p) /\ (\/ handle[part[p].handle].part = p
                                \/ \E h \in Handle : At(h, "greet") /\ task[h].part = p)
    /\ \A p \in Participant : part[p].inroom =>
         \/ room.participants[part[p].user] = p
         \/ part[p].end \in {"leaving", "stuck"}
         \/ room.destroyed

(* Nobody waits for the lock in vain: who has it is activating the room,    *)
(* and gives it back whatever comes of that.                                *)
LockFreed == room.lock # None => task[room.lock].pc \in {"attach", "create", "wipe", "control"}

(* Together: what a join or an activation takes becomes free again.         *)
WhatIsTakenIsFreed == IdsFreed /\ LockFreed
=============================================================================
