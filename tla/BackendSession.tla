--------------------------- MODULE BackendSession ---------------------------
(* The websocket session that the proxy shares between all the users of one *)
(* backend Janus server: januscloud/core/backend_session.py, with the       *)
(* attach/detach/on_close half of core/backend_handle.py.                   *)
(*                                                                          *)
(* Sessions of different urls do not interact, so one url is modelled. A    *)
(* client is a greenlet of a plugin that gets the session, attaches a       *)
(* handle, uses it and detaches it. An identifier of a session or a handle  *)
(* is used again once nothing refers to the object any more.                *)

CONSTANTS
    Client,         \* greenlets of the plugins
    Session,        \* identities of BackendSession objects
    Handle,         \* identities of Janus handles
    None,           \* absence of a session or handle
    AutoDestroy,    \* the auto_destroy argument is not 0
    ListenersBlock  \* a handle_listener may wait inside on_close()

ASSUME BackendAssumption ==
    /\ None \notin Session /\ None \notin Handle
    /\ AutoDestroy \in BOOLEAN /\ ListenersBlock \in BOOLEAN

VARIABLES
    registry,   \* _sessions.get(url)
    sess,       \* the BackendSession objects
    handle,     \* the handles, at the Janus server and in the proxy
    client      \* where each client greenlet waits

vars == <<registry, sess, handle, client>>

States == {"unborn", "creating", "active", "destroyed"}
Waits  == {"connect", "info", "create", "await", "attach", "request"}

SessionRec == [state: States,
               ws: BOOLEAN,                  \* _ws_client is not None
               link: {"none", "up", "down"}, \* the connection itself
               handles: SUBSET Handle,       \* _handles
               timer: BOOLEAN,               \* _auto_destroy_greenlet
               keepalive: {"off", "sleep", "wait", "answered"},
               closing: {"no", "recv", "other"},  \* who waits in on_close()
               iter: SUBSET Handle,          \* what its loop has left
               whole: SUBSET Handle]         \* _handles when it began

HandleRec == [sess: Session \cup {None},
              obj: {"none", "live", "detached", "closed"},
              janus: BOOLEAN,     \* it exists at the Janus server
              late: BOOLEAN]      \* its attach had timed out in the proxy

ClientRec == [pc: Waits \cup {"idle", "hold"},
              sess: Session \cup {None},
              got: Handle \cup {None},
              resp: {"none", "ok", "error"}]

TypeOK == /\ registry \in Session \cup {None}
          /\ sess \in [Session -> SessionRec]
          /\ handle \in [Handle -> HandleRec]
          /\ client \in [Client -> ClientRec]

Unborn == [state |-> "unborn", ws |-> FALSE, link |-> "none", handles |-> {},
           timer |-> FALSE, keepalive |-> "off", closing |-> "no",
           iter |-> {}, whole |-> {}]
NoHandle == [sess |-> None, obj |-> "none", janus |-> FALSE, late |-> FALSE]
Idle     == [pc |-> "idle", sess |-> None, got |-> None, resp |-> "none"]

Init == /\ registry = None
        /\ sess = [s \in Session |-> Unborn]
        /\ handle = [h \in Handle |-> NoHandle]
        /\ client = [c \in Client |-> Idle]

-----------------------------------------------------------------------------
\* Objects nothing refers to any more.
FreeHandle(h) == /\ ~handle[h].janus
                 /\ handle[h].obj # "live"
                 /\ \A c \in Client : client[c].got # h
                 /\ \A s \in Session : h \notin sess[s].handles \cup sess[s].iter

FreeSession(s) == /\ sess[s].state \in {"unborn", "destroyed"}
                  /\ sess[s].link # "up"
                  /\ sess[s].keepalive = "off"
                  /\ sess[s].closing = "no"
                  /\ \A c \in Client : client[c].sess # s
                  /\ \A h \in Handle : handle[h].sess = s => FreeHandle(h)

At(c, p)     == client[c].pc = p
Goto(c, r)   == client' = [client EXCEPT ![c] = r]
Wait(p, s)   == [pc |-> p, sess |-> s, got |-> None, resp |-> "none"]

\* Mutant: destroy() clears the table and tells no one.
ClosedUntold(hs, gone) ==
    [h \in Handle |-> [handle[h] EXCEPT !.janus = @ /\ handle[h].sess \notin gone]]

\* BackendHandle.on_close() on every handle in hs; the handles that s had at
\* the Janus server go with the connection when it is dropped.
Closed(hs, gone) ==
    [h \in Handle |->
        [handle[h] EXCEPT
           !.obj   = IF h \in hs /\ @ = "live" THEN "closed" ELSE @,
           !.janus = @ /\ handle[h].sess \notin gone]]

\* What is left of a session at the end of destroy().
Dead(r) == [r EXCEPT !.state = "destroyed", !.ws = FALSE, !.timer = FALSE,
                     !.link = IF @ = "none" THEN @ ELSE "down",
                     !.handles = {}, !.closing = "no", !.iter = {}, !.whole = {}]

\* Mutant: it does not look whose entry it removes.
DropAnyRegistry(s) == registry' = None

DropRegistry(s) == registry' = IF registry = s THEN None ELSE registry

(* destroy(), started with the session's record as r. When no listener      *)
(* waits it is one step; otherwise it stops inside the first on_close(), in *)
(* the greenlet that receives from the connection or in another one.        *)
Destroy(s, r, by) ==
    \/ /\ r.state = "destroyed"
       /\ sess' = [sess EXCEPT ![s] = r]
       /\ UNCHANGED <<registry, handle>>
    \/ /\ r.state # "destroyed"
       /\ ~ListenersBlock \/ r.handles = {}
       /\ DropRegistry(s)
       /\ sess' = [sess EXCEPT ![s] = Dead(r)]
       /\ handle' = Closed(r.handles, {s})
    \/ /\ r.state # "destroyed"
       /\ ListenersBlock
       /\ \E h \in r.handles :
            /\ DropRegistry(s)
            /\ sess' = [sess EXCEPT ![s] =
                 [r EXCEPT !.state = "destroyed", !.timer = FALSE,
                           !.closing = by, !.iter = r.handles \ {h},
                           !.whole = r.handles]]
            /\ handle' = Closed({h}, IF r.link = "up" THEN {} ELSE {s})

\* The loop of destroy() takes its next turn: Python refuses to go on with a
\* dict whose size changed (only detach() does it: nothing is attached to a
\* destroyed session), which leaves the rest of destroy() undone.
DestroyGoesOn(s) ==
    /\ sess[s].closing # "no"
    /\ UNCHANGED <<registry, client>>
    /\ \/ /\ sess[s].handles # sess[s].whole
          /\ sess' = [sess EXCEPT ![s].closing = "no", ![s].iter = {}, ![s].whole = {}]
          /\ UNCHANGED handle
       \/ /\ sess[s].handles = sess[s].whole
          /\ \E h \in sess[s].iter :
               /\ handle' = Closed({h}, {})
               /\ sess' = [sess EXCEPT ![s].iter = @ \ {h}]
       \/ /\ sess[s].handles = sess[s].whole
          /\ sess[s].iter = {}
          /\ sess' = [sess EXCEPT ![s] = Dead(@)]
          /\ handle' = Closed({}, {s})

-----------------------------------------------------------------------------
\* The receiving greenlet may be inside destroy(), then nothing is received.
\* send_request() needs a session that is not destroyed and a connection.
Receiving(s) == sess[s].link = "up" /\ sess[s].closing # "recv"

CanSend(r) == r.state # "destroyed" /\ r.ws /\ r.link = "up"

\* attach_handle() up to the wait for the answer, for a session with record r.
SendAttach(c, s, r) ==
    Goto(c, IF CanSend(r) THEN Wait("attach", s) ELSE Idle)

(* get_backend_session(): a new session is registered before it is usable;  *)
(* whoever finds it there polls its state until init() has ended.           *)
GetSession(c) ==
    /\ At(c, "idle")
    /\ \/ /\ registry = None
          /\ \E s \in Session :
               /\ FreeSession(s)
               /\ registry' = s
               /\ sess' = [sess EXCEPT ![s] = [Unborn EXCEPT !.state = "creating"]]
               /\ handle' = [h \in Handle |-> IF handle[h].sess = s
                                              THEN NoHandle ELSE handle[h]]
               /\ Goto(c, Wait("connect", s))
       \/ /\ registry # None
          /\ IF sess[registry].state = "active"
             THEN SendAttach(c, registry, sess[registry])
             ELSE Goto(c, Wait("await", registry))
          /\ UNCHANGED <<registry, sess, handle>>

Awaited(c) ==
    /\ At(c, "await")
    /\ sess[client[c].sess].state # "creating"
    /\ IF sess[client[c].sess].state = "active"
       THEN SendAttach(c, client[c].sess, sess[client[c].sess])
       ELSE Goto(c, Idle)
    /\ UNCHANGED <<registry, sess, handle>>

\* Mutant: get_backend_session() does not destroy the session.
InitFailsAndStays(c) ==
    LET s == client[c].sess
    IN /\ sess' = [sess EXCEPT ![s].ws = FALSE, ![s].link = IF @ = "up" THEN "down" ELSE @]
       /\ Goto(c, Idle)
       /\ UNCHANGED <<registry, handle>>

\* init() raises: its except clause puts the state back to CREATING, then
\* get_backend_session() destroys the session.
InitFails(c) ==
    LET s == client[c].sess
    IN /\ Destroy(s, [sess[s] EXCEPT !.state = "creating", !.ws = FALSE,
                                     !.link = IF @ = "up" THEN "down" ELSE @], "other")
       /\ Goto(c, Idle)

Connected(c) ==
    /\ At(c, "connect")
    /\ sess' = [sess EXCEPT ![client[c].sess].ws = TRUE, ![client[c].sess].link = "up"]
    /\ Goto(c, Wait("info", client[c].sess))
    /\ UNCHANGED <<registry, handle>>

ConnectFails(c) == At(c, "connect") /\ InitFails(c)

InfoAnswered(c) ==
    /\ At(c, "info")
    /\ client[c].resp = "ok"
    /\ \/ /\ CanSend(sess[client[c].sess])
          /\ Goto(c, Wait("create", client[c].sess))
          /\ UNCHANGED <<registry, sess, handle>>
       \/ /\ ~CanSend(sess[client[c].sess])
          /\ InitFails(c)

\* The end of init() sets ACTIVE whatever happened while it waited, and the
\* same greenlet goes on to attach_handle().
CreateAnswered(c) ==
    /\ At(c, "create")
    /\ client[c].resp = "ok"
    /\ LET s == client[c].sess
           r == [sess[s] EXCEPT !.state = "active", !.keepalive = "sleep"]
       IN /\ sess' = [sess EXCEPT ![s] = r]
          /\ SendAttach(c, s, r)
    /\ UNCHANGED <<registry, handle>>

\* An error answer, or no answer within 30 s, to 'info' or 'create'.
InitRequestFails(c) ==
    /\ client[c].pc \in {"info", "create"}
    /\ client[c].resp # "ok"
    /\ InitFails(c)

\* Mutants: no second look at the state; the armed timer is left alone; the
\* handle is registered under no identifier.
NotLookedAt(s) == FALSE
AttachedNoId(r, h) == [r EXCEPT !.handles = @ \cup {None}, !.timer = FALSE]
AttachedOnly(r, h) == [r EXCEPT !.handles = @ \cup {h}]

GoneMeanwhile(s) == sess[s].state = "destroyed"
Attached(r, h)   == [r EXCEPT !.handles = @ \cup {h}, !.timer = FALSE]

\* The second half of attach_handle(): the state is checked again.
AttachAnswered(c) ==
    /\ At(c, "attach")
    /\ client[c].resp = "ok"
    /\ LET s == client[c].sess
           h == client[c].got
       IN \/ /\ GoneMeanwhile(s)
             /\ Goto(c, Idle)
             /\ UNCHANGED <<sess, handle>>
          \/ /\ ~GoneMeanwhile(s)
             /\ handle' = [handle EXCEPT ![h].obj = "live"]
             /\ sess' = [sess EXCEPT ![s] = Attached(@, h)]
             /\ Goto(c, [Wait("hold", s) EXCEPT !.got = h])
    /\ UNCHANGED registry

\* An error answer, or none within 30 s: then the Janus server may still have
\* attached a handle, and its late answer finds no transaction.
AttachFails(c) ==
    /\ At(c, "attach")
    /\ client[c].resp # "ok"
    /\ \/ UNCHANGED handle
       \/ /\ client[c].resp = "none"
          /\ sess[client[c].sess].link = "up"
          /\ \E h \in Handle :
               /\ FreeHandle(h)
               /\ handle' = [handle EXCEPT ![h] =
                    [sess |-> client[c].sess, obj |-> "none", janus |-> TRUE, late |-> TRUE]]
    /\ Goto(c, Idle)
    /\ UNCHANGED <<registry, sess>>

-----------------------------------------------------------------------------
\* Mutants: detach() does not look at _has_detach; the entry stays in the
\* table; the 'detach' message is not sent.
NeverDetached(h)  == FALSE
KeepEntry(s, h)   == sess
AlwaysUnsent(s)   == TRUE

HasDetach(h)           == handle[h].obj # "live"
OnHandleDetached(s, h) == [sess EXCEPT ![s].handles = @ \ {h}]
DetachUnsent(s)        == ~CanSend(sess[s])

\* BackendHandle.send_message(): refused once the handle is detached.
Request(c) ==
    /\ At(c, "hold")
    /\ ~HasDetach(client[c].got)
    /\ CanSend(sess[client[c].sess])
    /\ client' = [client EXCEPT ![c].pc = "request", ![c].resp = "none"]
    /\ UNCHANGED <<registry, sess, handle>>

\* The answer, or JANUS_ERROR_GATEWAY_TIMEOUT; the handle stays as it is.
RequestEnds(c) ==
    /\ At(c, "request")
    /\ client' = [client EXCEPT ![c].pc = "hold", ![c].resp = "none"]
    /\ UNCHANGED <<registry, sess, handle>>

\* BackendHandle.detach(): nothing if on_close() came first; the 'detach'
\* message is sent without waiting and a failure to send it is ignored.
Detach(c) ==
    /\ At(c, "hold")
    /\ LET h == client[c].got
           s == client[c].sess
       IN \/ /\ HasDetach(h)
             /\ UNCHANGED <<sess, handle>>
          \/ /\ ~HasDetach(h)
             /\ sess' = OnHandleDetached(s, h)
             /\ handle' = [handle EXCEPT ![h].obj = "detached",
                                         ![h].janus = @ /\ DetachUnsent(s)]
    /\ Goto(c, Idle)
    /\ UNCHANGED registry

-----------------------------------------------------------------------------
\* _recv_msg_cbk() with the answer of a pending transaction: it only sets the
\* event, the waiting greenlet runs later.
Answer(c) ==
    /\ client[c].pc \in {"info", "create", "attach", "request"}
    /\ client[c].resp = "none"
    /\ Receiving(client[c].sess)
    /\ \/ /\ client' = [client EXCEPT ![c].resp = "error"]
          /\ UNCHANGED handle
       \/ /\ ~At(c, "attach")
          /\ client' = [client EXCEPT ![c].resp = "ok"]
          /\ UNCHANGED handle
       \/ /\ At(c, "attach")
          /\ \E h \in Handle :
               /\ FreeHandle(h)
               /\ handle' = [handle EXCEPT ![h] =
                    [sess |-> client[c].sess, obj |-> "none", janus |-> TRUE, late |-> FALSE]]
               /\ client' = [client EXCEPT ![c].resp = "ok", ![c].got = h]
    /\ UNCHANGED <<registry, sess>>

\* _recv_msg_cbk() with 'detached' from the Janus server.
JanusDetaches(h) ==
    /\ handle[h].janus
    /\ Receiving(handle[h].sess)
    /\ LET s == handle[h].sess
           known == h \in sess[s].handles
       IN /\ sess' = OnHandleDetached(s, h)
          /\ handle' = [handle EXCEPT
               ![h].janus = FALSE,
               ![h].obj = IF known /\ @ = "live" THEN "closed" ELSE @]
    /\ UNCHANGED <<registry, client>>

\* _recv_msg_cbk() with 'timeout': the Janus server dropped the session.
JanusTimeout(s) ==
    /\ Receiving(s)
    /\ sess[s].state = "active"
    /\ Destroy(s, sess[s], "recv")
    /\ UNCHANGED client

\* The connection ends and _close_cbk() runs.
ConnectionLost(s) ==
    /\ Receiving(s)
    /\ \/ /\ sess[s].state = "destroyed"
          /\ sess' = [sess EXCEPT ![s].link = "down"]
          /\ handle' = Closed({}, {s})
          /\ UNCHANGED registry
       \/ /\ sess[s].state # "destroyed"
          /\ Destroy(s, [sess[s] EXCEPT !.ws = FALSE, !.link = "down"], "recv")
    /\ UNCHANGED client

-----------------------------------------------------------------------------
\* Mutant: the timer is never armed.
NotArmed(r) == r

Armed(r) == [r EXCEPT !.timer = @ \/ (AutoDestroy /\ r.handles = {})]

\* One turn of _keepalive_routine(): it may arm the auto-destroy timer, then
\* sends 'keepalive' and waits; if it cannot send, it destroys the session.
KeepaliveSends(s) ==
    /\ sess[s].keepalive = "sleep"
    /\ sess[s].state = "active"
    /\ LET armed == Armed(sess[s])
       IN IF CanSend(sess[s])
          THEN /\ sess' = [sess EXCEPT ![s] = [armed EXCEPT !.keepalive = "wait"]]
               /\ UNCHANGED <<registry, handle>>
          ELSE Destroy(s, [armed EXCEPT !.keepalive = "off"], "other")
    /\ UNCHANGED client

KeepaliveStops(s) ==
    /\ sess[s].keepalive \in {"sleep", "answered"}
    /\ sess[s].state # "active"
    /\ sess' = [sess EXCEPT ![s].keepalive = "off"]
    /\ UNCHANGED <<registry, handle, client>>

KeepaliveAnswered(s) ==
    /\ sess[s].keepalive = "wait"
    /\ Receiving(s)
    /\ sess' = [sess EXCEPT ![s].keepalive = "answered"]
    /\ UNCHANGED <<registry, handle, client>>

KeepaliveSleeps(s) ==
    /\ sess[s].keepalive = "answered"
    /\ sess[s].state = "active"
    /\ sess' = [sess EXCEPT ![s].keepalive = "sleep"]
    /\ UNCHANGED <<registry, handle, client>>

KeepaliveTimeout(s) ==
    /\ sess[s].keepalive = "wait"
    /\ Destroy(s, [sess[s] EXCEPT !.keepalive = "off"], "other")
    /\ UNCHANGED client

\* _auto_destroy_routine() when the timer expires.
AutoDestroyFires(s) ==
    /\ sess[s].timer
    /\ Destroy(s, [sess[s] EXCEPT !.timer = FALSE], "other")
    /\ UNCHANGED client

-----------------------------------------------------------------------------
Progress(c) == \/ Awaited(c) \/ Connected(c) \/ ConnectFails(c)
               \/ InfoAnswered(c) \/ CreateAnswered(c) \/ InitRequestFails(c)
               \/ AttachAnswered(c) \/ AttachFails(c) \/ RequestEnds(c)

Keepalive(s) == \/ KeepaliveSends(s) \/ KeepaliveStops(s) \/ KeepaliveSleeps(s)
                \/ KeepaliveTimeout(s)

Next == \/ \E c \in Client : \/ Progress(c) \/ GetSession(c) \/ Request(c)
                             \/ Detach(c) \/ Answer(c)
        \/ \E s \in Session : \/ Keepalive(s) \/ KeepaliveAnswered(s)
                              \/ AutoDestroyFires(s) \/ DestroyGoesOn(s)
                              \/ JanusTimeout(s) \/ ConnectionLost(s)
        \/ \E h \in Handle : JanusDetaches(h)

Spec == Init /\ [][Next]_vars

(* Every wait of the code ends by itself: a request after 30 s, a sleep and *)
(* a timer when they are due. Nothing is assumed of the Janus server or of  *)
(* the network.                                                             *)
Fairness == /\ \A c \in Client : WF_vars(Progress(c))
            /\ \A s \in Session : /\ WF_vars(Keepalive(s))
                                  /\ WF_vars(AutoDestroyFires(s))
                                  /\ WF_vars(DestroyGoesOn(s))

FairSpec == Spec /\ Fairness
-----------------------------------------------------------------------------
(* The connection that is open is the one of the registered session: a      *)
(* session that is thrown away closes its connection, a second one is never *)
(* opened beside it, and destroying an old session (whose init() or whose   *)
(* keepalive greenlet ends late) leaves the registered one alone.           *)
OneConnection == \A s \in Session : sess[s].link = "up" => registry = s

(* get_backend_session() never finds a dead session: the registered one is  *)
(* connected, or a greenlet is still inside its init().                     *)
RegisteredIsAlive ==
    registry # None =>
        \/ sess[registry].state = "active" /\ sess[registry].link = "up"
        \/ /\ sess[registry].state = "creating"
           /\ \E c \in Client : /\ client[c].sess = registry
                                /\ client[c].pc \in {"connect", "info", "create"}

(* Together: whoever asks for the session of a server gets the one there    *)
(* is, and it is alive.                                                     *)
RegistryIsSound == OneConnection /\ RegisteredIsAlive

(* "call when the related session is destroyed" (HandleListener.on_close):  *)
(* once destroy() has ended no handle of the session is left untold.        *)
LossReported ==
    \A h \in Handle :
        /\ handle[h].obj = "live"
        /\ sess[handle[h].sess].closing = "no"
        => sess[handle[h].sess].state # "destroyed"

(* The table that routes the events of the Janus server to the handles has  *)
(* the live handles of the session and no other, so no event for a live     *)
(* handle is lost and none reaches a handle of an earlier session.          *)
RoutesToLive ==
    \A s \in Session :
        sess[s].handles = {h \in Handle : handle[h].sess = s /\ handle[h].obj = "live"}

(* No handle is left at the Janus server of a connected session that no one *)
(* in the proxy can detach, but for one whose 'attach' had timed out.       *)
NoOrphan ==
    \A h \in Handle :
        /\ handle[h].janus
        /\ sess[handle[h].sess].link = "up"
        => \/ handle[h].obj = "live"
           \/ handle[h].late
           \/ \E c \in Client : At(c, "attach") /\ client[c].got = h

(* The auto-destroy timer never runs beside a handle: attach_handle() kills *)
(* the one that was armed while it waited for the answer.                   *)
TimerOnlyWhenUnused ==
    \A s \in Session : sess[s].timer => sess[s].handles = {} /\ sess[s].state = "active"

(* No call into the session waits for ever, whatever the Janus server and   *)
(* the network do: in particular whoever polls a session that another       *)
(* greenlet creates gets it or an error.                                    *)
CallsReturn == \A c \in Client : client[c].pc \in Waits ~> client[c].pc \notin Waits

(* A session without handles does not stay: the keepalive greenlet arms the *)
(* timer or finds the connection dead. This covers the session that init()  *)
(* made ACTIVE after its connection had been lost.                          *)
UnusedSessionEnds ==
    \A s \in Session : /\ sess[s].state = "active"
                       /\ sess[s].handles = {}
                       ~> sess[s].state # "active" \/ sess[s].handles # {}

(* A handle ends once, by its user's detach() or by on_close(), never both: *)
(* a listener is not told about a handle it has given back, and detach() of *)
(* a closed handle does nothing.                                            *)
EndsOnce ==
    [][\A h \in Handle : handle[h].obj \in {"detached", "closed"}
                            => handle'[h].obj \in {handle[h].obj, "none"}]_vars

(* Every call ends, every unused session ends, and every handle ends once.  *)
EverythingEnds == CallsReturn /\ UnusedSessionEnds /\ EndsOnce

-----------------------------------------------------------------------------
(* The promise to the plugins. A session is usable while it is active and   *)
(* has its connection: init() may make a lost session ACTIVE again.         *)
Usable(s) == sess[s].state = "active" /\ sess[s].ws

C == INSTANCE BackendContract WITH
        current <- IF registry # None /\ Usable(registry) THEN registry ELSE None,
        status  <- [h \in Handle |-> handle[h].obj],
        owner   <- [h \in Handle |-> IF handle[h].obj = "live" THEN handle[h].sess ELSE None]

(* A live handle belongs to the usable, registered session: a plugin that   *)
(* holds one never talks to a server whose session is gone.                 *)
LiveIsUsable == C!LiveIsUsable

(* Handles, sessions and timers agree about who is in use: a live handle    *)
(* has the usable session and is in its table, and no timer is going to     *)
(* end a session with handles.                                              *)
UsersAreServed == LiveIsUsable /\ RoutesToLive /\ TimerOnlyWhenUnused

(* The sessions, handles and callbacks implement that promise when          *)
(* listeners do not wait inside on_close().                                 *)
ImplementsContract == C!Contract
=============================================================================
