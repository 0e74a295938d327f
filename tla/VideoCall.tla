------------------------------ MODULE VideoCall ------------------------------
(* The videocall plugin: januscloud/proxy/plugin/videocall.py on the user   *)
(* directory of proxy/dao/mem_videocall_user_dao.py, with the parts of the  *)
(* Janus videocall plugin it relies on.                                     *)
(*                                                                          *)
(* The state of a call is kept twice, in the handle and in the directory.   *)
(* The greenlet that handles the messages of the caller also connects the   *)
(* callee to the backend server; meanwhile the callee's own messages, the   *)
(* events of the backend, timers and detach run in greenlets of their own.  *)
(* Trickle candidates, pending settings, 'exists', 'list', 'set', 'accept'  *)
(* and the wait for their answers change nothing that is kept here.         *)

CONSTANTS
    User,       \* user names
    Handle,     \* VideoCallHandle objects
    Server,     \* backend servers
    Backend,    \* handles at the backend servers
    None,       \* absence of any of them
    Faults      \* what may go wrong, some of AllFaults

AllFaults == {"connect",    \* the backend refuses to attach or to register
              "loss",       \* the backend handle is closed under the plugin
              "detach",     \* a client detaches its handle
              "early",      \* a callee hangs up before its backend is connected
              "late",       \* a hangup event crosses the user's own hangup
              "namesake",   \* a name that is still in use is registered
              "slow"}       \* a callee's timer expires before its call is served

ASSUME VideoCallAssumption ==
    /\ None \notin User \cup Handle \cup Backend \cup Server
    /\ Faults \subseteq AllFaults

VARIABLES
    handle,     \* the handles, each with its own VideoCallUser
    directory,  \* MemVideoCallUserDao._users_by_name
    task,       \* the _async_message_greenlet of each handle
    backend     \* BackendHandle objects and their state at the Janus server

vars == <<handle, directory, task, backend>>

HandleRec == [gone: BOOLEAN,                \* _has_destroy
              name: User \cup {None},       \* videocall_user.username
              incall: BOOLEAN,
              peer: User \cup {None},       \* peer_name
              backend: Backend \cup {None}, \* backend_handle
              timer: BOOLEAN]               \* _auto_disconnect_greenlet

DirectoryRec == [handle: Handle \cup {None}, incall: BOOLEAN]

TaskRec == [pc: {"idle", "attach", "register", "peerattach", "peerregister",
                 "calling", "hangup"},
            to: User \cup {None},           \* whom it calls
            callee: Handle \cup {None},     \* the handle of the callee
            mine: Backend \cup {None},      \* local backend_handle
            theirs: Backend \cup {None},    \* the same in the callee's method
            resp: {"none", "ok", "error"}]

BackendRec == [owner: Handle \cup {None},   \* the handle that listens to it
               server: Server \cup {None},  \* where it is attached
               alive: BOOLEAN,              \* neither detached nor closed
               name: User \cup {None},      \* under which it registers
               peer: Backend \cup {None},   \* whom Janus has it in a call with
               caller: User \cup {None},    \* of the incomingcall event
               events: SUBSET {"incomingcall", "hangup"}]

TypeOK == /\ handle \in [Handle -> HandleRec]
          /\ directory \in [User -> DirectoryRec]
          /\ task \in [Handle -> TaskRec]
          /\ backend \in [Backend -> BackendRec]

NewHandle  == [gone |-> FALSE, name |-> None, incall |-> FALSE, peer |-> None,
               backend |-> None, timer |-> FALSE]
NotListed  == [handle |-> None, incall |-> FALSE]
NoTask     == [pc |-> "idle", to |-> None, callee |-> None, mine |-> None,
               theirs |-> None, resp |-> "none"]
Unattached == [owner |-> None, server |-> None, alive |-> FALSE, name |-> None,
               peer |-> None, caller |-> None, events |-> {}]

Init == /\ handle = [h \in Handle |-> NewHandle]
        /\ directory = [u \in User |-> NotListed]
        /\ task = [h \in Handle |-> NoTask]
        /\ backend = [b \in Backend |-> Unattached]

-----------------------------------------------------------------------------
At(h, p) == task[h].pc = p

Locals(h) == {task[h].mine, task[h].theirs}

FreeBackend(b) == /\ ~backend[b].alive
                  /\ \A h \in Handle : handle[h].backend # b /\ b \notin Locals(h)

\* Mutants: the peer is kept and the call forgotten, or the other way round.
SwappedReset(r) == [r EXCEPT !.incall = None]
StaysInCall(r) == [r EXCEPT !.peer = None]

\* VideoCallUser at rest.
NotInCall(r) == [r EXCEPT !.incall = FALSE, !.peer = None]

\* user_dao.update() with the user of handle h, whose record is r.
Updated(h, r) == [directory EXCEPT ![r.name] = [handle |-> h, incall |-> r.incall]]

\* BackendHandle.detach() of the handles in B, or their end at the Janus server:
\* the other sides of their calls get a hangup event.
Ended(bs, B) ==
    [c \in Backend |->
        CASE c \in B -> [bs[c] EXCEPT !.alive = FALSE, !.peer = None, !.events = {}]
          [] c \notin B /\ bs[c].peer \in B ->
               [bs[c] EXCEPT !.peer = None, !.events = @ \cup {"hangup"}]
          [] OTHER -> bs[c]]

\* attach_handle() at server s with handle h as the listener.
AttachedTo(b, s, h) ==
    [backend EXCEPT ![b] = [Unattached EXCEPT !.owner = h, !.server = s,
                                              !.alive = TRUE, !.name = handle[h].name]]

\* The Janus plugin knows a handle by name once it has answered 'register'; it
\* refuses a name that another of its handles has.
Known(b) == /\ backend[b].alive
            /\ \A h \in Handle : /\ ~(At(h, "register") /\ task[h].mine = b)
                                 /\ ~(At(h, "peerregister") /\ task[h].theirs = b)

Namesakes(b, name) == {c \in Backend : /\ Known(c)
                                       /\ backend[c].server = backend[b].server
                                       /\ backend[c].name = name}

CanRegister(b) == backend[b].alive /\ Namesakes(b, backend[b].name) = {}

-----------------------------------------------------------------------------
\* Nobody has the name or calls it, here or at the servers.
Unused(u) == /\ \A k \in Handle : handle[k].name # u /\ task[k].to # u
             /\ \A b \in Backend : backend[b].alive => backend[b].name # u

\* Requests of the client, in the greenlet that handles messages one by one.
\* 'register' does not look whether the name is taken (that is commented out).
Register(h, u) ==
    /\ At(h, "idle")
    /\ ~handle[h].gone
    /\ handle[h].name = None
    /\ "namesake" \in Faults \/ Unused(u)
    /\ handle' = [handle EXCEPT ![h].name = u]
    /\ directory' = [directory EXCEPT ![u] = [handle |-> h, incall |-> FALSE]]
    /\ UNCHANGED <<task, backend>>

\* 'call' up to the first wait of _connect_backend(). When a backend handle is
\* still there _connect_backend() raises at once, before the local variable
\* backend_handle exists, and the except clause fails on that variable.
Call(h, u) ==
    /\ At(h, "idle")
    /\ handle[h].name \notin {None, u}
    /\ ~handle[h].incall
    /\ directory[u].handle # None
    /\ ~directory[u].incall
    /\ LET r == [handle[h] EXCEPT !.incall = TRUE, !.peer = u]
       IN /\ directory' = Updated(h, r)
          /\ handle' = [handle EXCEPT ![h] = [r EXCEPT !.backend = None]]
          /\ task' = IF r.backend = None
                     THEN [task EXCEPT ![h] = [NoTask EXCEPT !.pc = "attach", !.to = u]]
                     ELSE task
    /\ UNCHANGED backend

\* The except clause of 'call' once backend_handle is bound: the handles in B
\* are detached; hs and ds are the state in which the exception was raised.
CallFails(h, hs, ds, B) ==
    LET r == NotInCall([hs[h] EXCEPT !.backend = None])
    IN /\ backend' = Ended(backend, B)
       /\ task' = [task EXCEPT ![h] = NoTask]
       /\ \/ /\ r.name = None
             /\ handle' = [hs EXCEPT ![h].backend = None]
             /\ directory' = ds
          \/ /\ r.name # None
             /\ handle' = [hs EXCEPT ![h] = r]
             /\ directory' = [ds EXCEPT ![r.name] = [handle |-> h, incall |-> FALSE]]

Attached(h) ==
    /\ At(h, "attach")
    /\ handle[h].name # None
    /\ \E b \in Backend, s \in Server :
         /\ FreeBackend(b)
         /\ backend' = AttachedTo(b, s, h)
         /\ task' = [task EXCEPT ![h].pc = "register", ![h].mine = b]
    /\ UNCHANGED <<handle, directory>>

\* attach or register fails, or the handle was detached meanwhile: here
\* backend_handle is unbound, and the except clause ends after its first line.
ConnectFails(h) ==
    /\ \/ /\ At(h, "attach")
          /\ "connect" \in Faults \/ handle[h].name = None
       \/ /\ At(h, "register")
          /\ "connect" \in Faults \/ ~CanRegister(task[h].mine)
    /\ handle' = [handle EXCEPT ![h].backend = None]
    /\ backend' = Ended(backend, {task[h].mine} \ {None})
    /\ task' = [task EXCEPT ![h] = NoTask]
    /\ UNCHANGED directory

\* Mutant: the callee is asked for its registration only.
NeverBusy(k) == FALSE

CalleeBusy(k) == handle[k].incall

CanReceive(k) == k # None /\ handle[k].name # None /\ ~CalleeBusy(k)

\* What handle_incoming_call() does with its handle k when it fails.
CalleeReset(hs, k) ==
    [hs EXCEPT ![k] = IF @.name = None THEN [@ EXCEPT !.backend = None]
                      ELSE NotInCall([@ EXCEPT !.backend = None])]

\* The caller is connected; call_peer() and handle_incoming_call() up to the
\* wait of the callee's _connect_backend().
Registered(h) ==
    /\ At(h, "register")
    /\ CanRegister(task[h].mine)
    /\ LET b == task[h].mine
           k == directory[task[h].to].handle
           r == [handle[k] EXCEPT !.incall = TRUE, !.peer = handle[h].name]
           callable == handle[h].name # None /\ CanReceive(k)
       IN \/ /\ ~callable
             /\ CallFails(h, handle, directory, {b})
          \/ /\ callable
             /\ \/ /\ handle[k].backend = None
                   /\ handle' = [handle EXCEPT ![k] = r]
                   /\ directory' = Updated(k, r)
                   /\ task' = [task EXCEPT ![h].pc = "peerattach", ![h].callee = k]
                   /\ UNCHANGED backend
                \/ /\ handle[k].backend # None    \* "Already connected"
                   /\ CallFails(h, CalleeReset(handle, k), Updated(k, r),
                                {b, handle[k].backend})

PeerAttached(h) ==
    /\ At(h, "peerattach")
    /\ handle[task[h].callee].name # None
    /\ \E b \in Backend :
         /\ FreeBackend(b)
         /\ backend' = AttachedTo(b, backend[task[h].mine].server, task[h].callee)
         /\ task' = [task EXCEPT ![h].pc = "peerregister", ![h].theirs = b]
    /\ UNCHANGED <<handle, directory>>

\* Mutant: no timer.
ConnectedOnly(k, b) == [handle EXCEPT ![k].backend = b]

Connected(k, b) == [handle EXCEPT ![k].backend = b, ![k].timer = TRUE]

\* The callee is connected, whatever it did meanwhile; the caller goes on to
\* send 'call'.
PeerRegistered(h) ==
    /\ At(h, "peerregister")
    /\ CanRegister(task[h].theirs)
    /\ handle' = Connected(task[h].callee, task[h].theirs)
    /\ task' = [task EXCEPT ![h].pc = "calling", ![h].callee = None, ![h].theirs = None]
    /\ UNCHANGED <<directory, backend>>

\* Mutant: a callee that detached is waited for.
NameTaken(h) == At(h, "peerregister") /\ ~CanRegister(task[h].theirs)

PeerUnreachable(h) ==
    \/ /\ At(h, "peerattach")
       /\ "connect" \in Faults \/ handle[task[h].callee].name = None
    \/ /\ At(h, "peerregister")
       /\ "connect" \in Faults \/ ~CanRegister(task[h].theirs)

\* The except clause of handle_incoming_call(), then the one of 'call'.
PeerConnectFails(h) ==
    /\ PeerUnreachable(h)
    /\ LET k == task[h].callee
       IN CallFails(h, CalleeReset(handle, k), directory,
                    (Locals(h) \cup {handle[k].backend}) \ {None})

\* The answer to 'call': the backend handle becomes the one of the handle,
\* whatever happened to the handle meanwhile.
CallAnswered(h) ==
    /\ At(h, "calling")
    /\ task[h].resp = "ok"
    /\ backend[task[h].mine].alive
    /\ handle' = [handle EXCEPT ![h].backend = task[h].mine]
    /\ task' = [task EXCEPT ![h] = NoTask]
    /\ UNCHANGED <<directory, backend>>

CallRefused(h) ==
    /\ At(h, "calling")
    /\ \/ task[h].resp = "error"
       \/ ~backend[task[h].mine].alive
       \/ task[h].resp = "none" /\ "connect" \in Faults
    /\ CallFails(h, handle, directory, {task[h].mine})

-----------------------------------------------------------------------------
\* 'hangup' up to the wait for the answer of the Janus server, which tells the
\* other side.
Hangup(h) ==
    /\ At(h, "idle")
    /\ handle[h].incall
    /\ (handle[h].backend # None /\ ~handle[h].timer) \/ "early" \in Faults
    /\ LET b == handle[h].backend
           r == NotInCall([handle[h] EXCEPT !.backend = None, !.timer = FALSE])
       IN /\ handle' = [handle EXCEPT ![h] = r]
          /\ directory' = Updated(h, r)
          /\ task' = IF b = None THEN task
                     ELSE [task EXCEPT ![h] = [NoTask EXCEPT !.pc = "hangup", !.mine = b]]
          /\ backend' = [c \in Backend |->
               CASE b # None /\ c = b ->
                      [backend[c] EXCEPT !.peer = None,
                                         !.events = IF "late" \in Faults THEN @ ELSE {}]
                 [] b # None /\ c # b /\ backend[c].peer = b ->
                      [backend[c] EXCEPT !.peer = None, !.events = @ \cup {"hangup"}]
                 [] OTHER -> backend[c]]

HangupEnds(h) ==
    /\ At(h, "hangup")
    /\ backend' = Ended(backend, {task[h].mine})
    /\ task' = [task EXCEPT ![h] = NoTask]
    /\ UNCHANGED <<handle, directory>>

\* Mutant: the user stays in the directory.
KeepListed(h) == directory

Unlisted(h) ==
    IF handle[h].name # None /\ directory[handle[h].name].handle = h
    THEN [directory EXCEPT ![handle[h].name] = NotListed]
    ELSE directory

\* detach(): from a request or from the end of the client's session.
Detach(h) ==
    /\ "detach" \in Faults
    /\ ~handle[h].gone
    /\ handle' = [handle EXCEPT ![h] = [NewHandle EXCEPT !.gone = TRUE]]
    /\ directory' = Unlisted(h)
    /\ backend' = Ended(backend, {handle[h].backend} \ {None})
    /\ UNCHANGED task

\* The identity of a detached handle is used for a new one.
Attach(h) ==
    /\ handle[h].gone
    /\ At(h, "idle")
    /\ handle[h].backend = None
    /\ ~handle[h].timer
    /\ \A k \in Handle : task[k].callee # h
    /\ \A b \in Backend : backend[b].alive => backend[b].owner # h
    /\ handle' = [handle EXCEPT ![h] = NewHandle]
    /\ UNCHANGED <<directory, task, backend>>

-----------------------------------------------------------------------------
\* The Janus plugin handles 'call'.
JanusCalls(h) ==
    /\ At(h, "calling")
    /\ task[h].resp = "none"
    /\ LET b == task[h].mine
           targets == {c \in Namesakes(b, task[h].to) : backend[c].peer = None}
       IN /\ backend[b].alive
          /\ \/ /\ targets = {}
                /\ task' = [task EXCEPT ![h].resp = "error"]
                /\ UNCHANGED backend
             \/ \E c \in targets :
                  /\ task' = [task EXCEPT ![h].resp = "ok"]
                  /\ backend' = [backend EXCEPT
                       ![b].peer = c, ![c].peer = b, ![c].caller = backend[b].name,
                       ![c].events = {"incomingcall"}]
    /\ UNCHANGED <<handle, directory>>

\* An event is handed over after the answer to the request before it.
Delivered(b, e) == /\ backend[b].alive
                   /\ e \in backend[b].events
                   /\ \A h \in Handle : At(h, "calling") => task[h].mine # b

Taken(b, e) == [backend EXCEPT ![b].events = @ \ {e}]

\* Mutant: the timer goes on when the call has come.
TimerKept(r, caller) == r

\* Only the event of the call that the handle expects stops the timer.
TimerStopped(r, caller) ==
    IF r.incall /\ r.peer = caller THEN [r EXCEPT !.timer = FALSE] ELSE r

IncomingCall(b) ==
    /\ Delivered(b, "incomingcall")
    /\ LET k == backend[b].owner
       IN handle' = [handle EXCEPT ![k] = TimerStopped(@, backend[b].caller)]
    /\ backend' = Taken(b, "incomingcall")
    /\ UNCHANGED <<directory, task>>

\* on_async_event() does not look at which backend handle the event came from.
HangupEvent(b) ==
    /\ Delivered(b, "hangup")
    /\ "incomingcall" \notin backend[b].events
    /\ LET k == backend[b].owner
           r == NotInCall([handle[k] EXCEPT !.backend = None, !.timer = FALSE])
       IN \/ /\ handle[k].name # None /\ handle[k].incall
             /\ handle' = [handle EXCEPT ![k] = r]
             /\ directory' = Updated(k, r)
             /\ backend' = Ended(Taken(b, "hangup"), {handle[k].backend} \ {None})
          \/ /\ handle[k].name = None \/ ~handle[k].incall
             /\ backend' = Taken(b, "hangup")
             /\ UNCHANGED <<handle, directory>>
    /\ UNCHANGED task

\* on_close(): its user_dao.update() gets a string and raises.
BackendLost(b) ==
    /\ "loss" \in Faults
    /\ backend[b].alive
    /\ LET k == backend[b].owner
       IN handle' = [handle EXCEPT ![k] =
                       NotInCall([@ EXCEPT !.backend = None, !.timer = FALSE])]
    /\ backend' = Ended(backend, {b})
    /\ UNCHANGED <<directory, task>>

\* The server has not got the call of the one who connected handle k.
Expected(k) == \E h \in Handle : /\ At(h, "calling") /\ task[h].resp = "none"
                                 /\ task[h].to = handle[k].name

\* _auto_disconnect_routine(): without a user it raises before its detach().
AutoDisconnect(k) ==
    /\ handle[k].timer
    /\ "slow" \in Faults \/ ~Expected(k)
    /\ LET r == NotInCall([handle[k] EXCEPT !.backend = None, !.timer = FALSE])
       IN /\ handle' = [handle EXCEPT ![k] = r]
          /\ \/ /\ r.name = None
                /\ UNCHANGED <<directory, backend>>
             \/ /\ r.name # None
                /\ directory' = Updated(k, r)
                /\ backend' = Ended(backend, {handle[k].backend} \ {None})
    /\ UNCHANGED task

-----------------------------------------------------------------------------
Progress(h) == \/ Attached(h) \/ ConnectFails(h) \/ Registered(h)
               \/ PeerAttached(h) \/ PeerRegistered(h) \/ PeerConnectFails(h)
               \/ JanusCalls(h) \/ CallAnswered(h) \/ CallRefused(h) \/ HangupEnds(h)

Event(b) == IncomingCall(b) \/ HangupEvent(b)

Next == \/ \E h \in Handle : \/ Progress(h) \/ Hangup(h) \/ Detach(h) \/ Attach(h)
                             \/ AutoDisconnect(h)
                             \/ \E u \in User : Register(h, u) \/ Call(h, u)
        \/ \E b \in Backend : Event(b) \/ BackendLost(b)

Spec == Init /\ [][Next]_vars

(* Requests to the backend are answered or time out, events are handed over *)
(* and timers expire. Nobody is forced to hang up.                          *)
Fairness == /\ \A h \in Handle : WF_vars(Progress(h)) /\ WF_vars(AutoDisconnect(h))
            /\ \A b \in Backend : WF_vars(Event(b))

FairSpec == Spec /\ Fairness
-----------------------------------------------------------------------------
(* A name in the directory leads to a handle that exists and is registered  *)
(* under that name, so no call is given to a handle that was detached, also *)
(* when two handles registered the same name or a call was being set up.    *)
ListedIsThere ==
    \A u \in User : directory[u].handle # None =>
        /\ ~handle[directory[u].handle].gone
        /\ handle[directory[u].handle].name = u

(* A handle in a call is not taken into another one: calls that it makes    *)
(* and calls that other greenlets bring to it meet in any order.            *)
NotTakenOver ==
    [][\A h \in Handle : handle[h].incall /\ handle'[h].incall
                            => handle'[h].peer = handle[h].peer]_vars

(* The timer that ends a call which does not come is off while the two      *)
(* users talk, whatever events of earlier calls came late.                  *)
TalkIsUntimed ==
    \A h \in Handle : handle[h].timer /\ handle[h].incall /\ handle[h].backend # None =>
        LET b == backend[handle[h].backend]
        IN b.peer = None \/ "incomingcall" \in b.events

(* A user is refused as 'Already in a call' only when it has a backend      *)
(* handle or a greenlet is setting up its call.                             *)
InCallIsReal ==
    \A h \in Handle : handle[h].incall =>
        \/ handle[h].backend # None
        \/ task[h].pc \notin {"idle", "hangup"}
        \/ \E c \in Handle : task[c].callee = h

(* Every request of a client is answered: in particular two users who call  *)
(* each other at the same time do not wait for each other.                  *)
CallsEnd == \A h \in Handle : ~At(h, "idle") ~> At(h, "idle")

(* A user whose call does not exist at the Janus server, because the caller *)
(* gave up or the other side left, does not stay in it.                     *)
InCallAlone(h) == /\ handle[h].incall
                  /\ handle[h].backend # None => backend[handle[h].backend].peer = None

AloneEnds == \A h \in Handle : InCallAlone(h) ~> ~InCallAlone(h)
(* Together: directory, handles and timers tell the truth about a call.     *)
CallsAreReal == ListedIsThere /\ InCallIsReal /\ TalkIsUntimed

(* Together: requests end, and so do calls that do not exist.               *)
EverythingEnds == CallsEnd /\ AloneEnds
=============================================================================
