--------------------------- MODULE FrontendSession ---------------------------
(* The sessions of the proxy's own clients: januscloud/core/frontend_session *)
(* .py with its callers in core/request.py. Each message of a connection is *)
(* handled by a greenlet of a pool (transport/ws.py), so the requests of one *)
(* client overtake each other, and one may run after its connection closed. *)
(*                                                                          *)
(* Who runs: the request greenlets, the greenlet of each connection (which  *)
(* calls transport_gone() when it closes) and the timeout checker. An       *)
(* identifier is used again once nothing refers to the object any more.     *)
(*                                                                          *)
(* An event for a client who does not read waits, and is given up with a    *)
(* gevent.Timeout (ws.py:123). That is not an Exception: no except clause   *)
(* of destroy()'s callers stops it, and the greenlet that sent it ends.     *)

CONSTANTS
    Transport,      \* websocket connections
    Session,        \* FrontendSession objects
    Handle,         \* plugin handles
    Request,        \* greenlets of the message pool
    Checker,        \* _check_session_timeout_routine()
    None,           \* absence of a transport or session
    Faults          \* what may go wrong in this instance

ASSUME FrontendAssumption ==
    /\ None \notin Transport /\ None \notin Session
    /\ Checker \notin Transport /\ Checker \notin Request
    /\ Transport \cap Request = {}
    /\ Faults \subseteq {"raise",     \* detach() of a handle that lost its backend
                         "stall"}    \* an event for a client who does not read

VARIABLES
    up,         \* the connections that are open
    table,      \* the sessions in FrontendSessionManager._sessions
    sess,       \* the FrontendSession objects
    handle,     \* the plugin handles
    worker,     \* where each greenlet is
    lost        \* popped by a greenlet that ended before it destroyed them; no
                \* variable of the code has them

vars == <<up, table, sess, handle, worker, lost>>

Worker == Request \cup Transport \cup {Checker}

SessionRec == [destroyed: BOOLEAN,
               ts: Transport \cup {None},
               handles: SUBSET Handle,
               fresh: BOOLEAN]          \* last_activity is within the timeout

HandleRec == [sess: Session \cup {None},
              obj: {"none", "live", "closed"}]    \* "none" once it is detached

WorkerRec == [pc: {"idle", "queued", "attach", "destroy", "dead"},
              trans: Transport \cup {None},     \* request.transport
              sess: Session \cup {None},        \* the session it attaches to
              todo: SUBSET Handle,              \* detach_handles, what is left
              rest: SUBSET Session]             \* popped, still to destroy

TypeOK == /\ up \subseteq Transport
          /\ table \subseteq Session
          /\ sess \in [Session -> SessionRec]
          /\ handle \in [Handle -> HandleRec]
          /\ worker \in [Worker -> WorkerRec]
          /\ lost \subseteq Session

Unborn   == [destroyed |-> TRUE, ts |-> None, handles |-> {}, fresh |-> FALSE]
NoHandle == [sess |-> None, obj |-> "none"]
Idle     == [pc |-> "idle", trans |-> None, sess |-> None, todo |-> {}, rest |-> {}]

Init == /\ up = Transport
        /\ table = {}
        /\ sess = [s \in Session |-> Unborn]
        /\ handle = [h \in Handle |-> NoHandle]
        /\ worker = [w \in Worker |-> Idle]
        /\ lost = {}

-----------------------------------------------------------------------------
At(w, p) == worker[w].pc = p

InUse(h) == handle[h].obj \in {"live", "closed"}

FreeHandle(h) == ~InUse(h)

FreeSession(s) == /\ s \notin table \cup lost
                  /\ sess[s].destroyed
                  /\ \A h \in Handle : handle[h].sess # s
                  /\ \A w \in Worker : worker[w].sess # s /\ s \notin worker[w].rest

\* Mutants: the time stamp is never set; the loop loses the other sessions when
\* one has no handle.
NeverActivated(s) == [sess EXCEPT ![s].fresh = None]
NoOtherSession(todo, rest) ==
    IF todo = {} THEN Idle
    ELSE [Idle EXCEPT !.pc = "destroy", !.todo = todo, !.rest = rest]

Activated(s) == [sess EXCEPT ![s].fresh = TRUE]

\* A greenlet with handles to detach and sessions to destroy, or none.
Loop(todo, rest) ==
    IF todo = {} /\ rest = {} THEN Idle
    ELSE [Idle EXCEPT !.pc = "destroy", !.todo = todo, !.rest = rest]

Finish(w) == worker' = [worker EXCEPT ![w] = Idle]

\* The first part of destroy(): the session forgets transport and handles.
Destroyed(s) == [sess EXCEPT ![s].destroyed = TRUE, ![s].ts = None, ![s].handles = {},
                             ![s].fresh = FALSE]

-----------------------------------------------------------------------------
\* WSServer._async_incoming_msg_handler(): the greenlet runs later.
Receive(r, t) ==
    /\ At(r, "idle")
    /\ t \in up
    /\ worker' = [worker EXCEPT ![r] = [Idle EXCEPT !.pc = "queued", !.trans = t]]
    /\ UNCHANGED <<up, table, sess, handle, lost>>

\* An error answer: no such session or handle, no such plugin, bad message.
Refuse(r) ==
    /\ At(r, "queued")
    /\ Finish(r)
    /\ UNCHANGED <<up, table, sess, handle, lost>>

Create(r) ==
    /\ At(r, "queued")
    /\ \E s \in Session :
         /\ FreeSession(s)
         /\ table' = table \cup {s}
         /\ sess' = [sess EXCEPT ![s] = [destroyed |-> FALSE, ts |-> worker[r].trans,
                                         handles |-> {}, fresh |-> TRUE]]
    /\ Finish(r)
    /\ UNCHANGED <<up, handle, lost>>

\* keepalive, and every message that leaves sessions and handles as they are.
Keepalive(r, s) ==
    /\ At(r, "queued")
    /\ s \in table
    /\ sess' = Activated(s)
    /\ Finish(r)
    /\ UNCHANGED <<up, table, handle, lost>>

\* transport_claim(): the request came over another connection.
Claim(r, s) ==
    /\ At(r, "queued")
    /\ s \in table
    /\ sess' = [Activated(s) EXCEPT ![s].ts = worker[r].trans]
    /\ Finish(r)
    /\ UNCHANGED <<up, table, handle, lost>>

\* attach_handle() up to the wait for the backend inside create_handle().
Attach(r, s) ==
    /\ At(r, "queued")
    /\ s \in table
    /\ ~sess[s].destroyed
    /\ sess' = Activated(s)
    /\ worker' = [worker EXCEPT ![r] = [Idle EXCEPT !.pc = "attach", !.sess = s]]
    /\ UNCHANGED <<up, table, handle, lost>>

\* The rest of attach_handle(), which does not look at the session again.
AttachEnds(r) ==
    /\ At(r, "attach")
    /\ \E h \in Handle :
         /\ FreeHandle(h)
         /\ handle' = [handle EXCEPT ![h] = [sess |-> worker[r].sess, obj |-> "live"]]
         /\ sess' = [sess EXCEPT ![worker[r].sess].handles = @ \cup {h}]
    /\ Finish(r)
    /\ UNCHANGED <<up, table, lost>>

AttachFails(r) ==
    /\ At(r, "attach")
    /\ Finish(r)
    /\ UNCHANGED <<up, table, sess, handle, lost>>

\* Mutant: the handle stays in the table while detach() waits.
NotPopped(s, h) == Activated(s)

Popped(s, h) == [Activated(s) EXCEPT ![s].handles = @ \ {h}]

\* The event "detached", or one to another client, may be given up before the
\* backend handle is detached: then nobody has the handle any more.
Detach(r, s, h) ==
    /\ At(r, "queued")
    /\ s \in table
    /\ h \in sess[s].handles
    /\ sess' = Popped(s, h)
    /\ \/ handle' = [handle EXCEPT ![h] = NoHandle]
       \/ "stall" \in Faults /\ UNCHANGED handle
    /\ Finish(r)
    /\ UNCHANGED <<up, table, lost>>

DestroyRequest(r, s) ==
    /\ At(r, "queued")
    /\ s \in table
    /\ table' = table \ {s}
    /\ sess' = Destroyed(s)
    /\ worker' = [worker EXCEPT ![r] = Loop(sess[s].handles, {})]
    /\ UNCHANGED <<up, handle, lost>>

-----------------------------------------------------------------------------
\* Mutant: the sessions leave the table when their turn to be destroyed comes.
PopLater(S) == table

PopAll(S) == table \ S

Connect(t) ==
    /\ t \notin up
    /\ At(t, "idle")
    /\ \A s \in table \cup UNION {worker[w].rest : w \in Worker} : sess[s].ts # t
    /\ \A r \in Request : worker[r].trans # t
    /\ up' = up \cup {t}
    /\ UNCHANGED <<table, sess, handle, worker, lost>>

\* WSServerConn.closed() and transport_gone() up to the first destroy().
TransportGone(t) ==
    /\ t \in up
    /\ up' = up \ {t}
    /\ LET gone == {s \in table : sess[s].ts = t}
       IN /\ table' = PopAll(gone)
          /\ worker' = [worker EXCEPT ![t] = Loop({}, gone)]
    /\ UNCHANGED <<sess, handle, lost>>

\* One round of _check_session_timeout_routine() up to the first kick.
CheckTimeouts ==
    /\ At(Checker, "idle")
    /\ LET expired == {s \in table : ~sess[s].fresh}
       IN /\ expired # {}
          /\ table' = PopAll(expired)
          /\ worker' = [worker EXCEPT ![Checker] = Loop({}, expired)]
    /\ UNCHANGED <<up, sess, handle, lost>>

\* Time passes: session_timeout is over since the last request.
Expire(s) ==
    /\ s \in table
    /\ sess[s].fresh
    /\ sess' = [sess EXCEPT ![s].fresh = FALSE]
    /\ UNCHANGED <<up, table, handle, worker, lost>>

\* The greenlet goes on to destroy() the next session it had popped.
NextSession(w) ==
    /\ At(w, "destroy")
    /\ worker[w].todo = {}
    /\ \E s \in worker[w].rest :
         /\ sess' = Destroyed(s)
         /\ worker' = [worker EXCEPT ![w] = Loop(sess[s].handles, @.rest \ {s})]
    /\ UNCHANGED <<up, table, handle, lost>>

\* A gevent.Timeout ends the greenlet w. Those of requests and connections come
\* again, the checker does not; what w still had to destroy is lost.
Killed(w) ==
    /\ worker' = [worker EXCEPT ![w] = [Idle EXCEPT !.pc = IF w = Checker THEN "dead" ELSE "idle"]]
    /\ lost' = lost \cup worker[w].rest

\* _kick_timeout_sessions(): the event "timeout" comes before destroy().
KickStalls ==
    /\ "stall" \in Faults
    /\ At(Checker, "destroy")
    /\ worker[Checker].todo = {}
    /\ \E s \in worker[Checker].rest : sess[s].ts \in up
    /\ Killed(Checker)
    /\ UNCHANGED <<up, table, sess, handle>>

\* The detach() of a plugin sends events to other clients: leaving, hangup.
DetachStalls(w) ==
    /\ "stall" \in Faults
    /\ At(w, "destroy")
    /\ worker[w].todo # {}
    /\ Killed(w)
    /\ UNCHANGED <<up, table, sess, handle>>

\* The exception ends the loop; the callers go on with their next session.
Raised(r) == Loop({}, r.rest)

\* One turn of the loop of destroy(): a step of its own because detach() may
\* wait. EchoTestHandle.detach() raises when on_close() had taken its backend.
DetachNext(w) ==
    /\ At(w, "destroy")
    /\ \E h \in worker[w].todo :
         /\ handle' = [handle EXCEPT ![h] = NoHandle]
         /\ worker' = [worker EXCEPT ![w] =
              IF "raise" \in Faults /\ handle[h].obj = "closed"
              THEN Raised(@)
              ELSE Loop(@.todo \ {h}, @.rest)]
    /\ UNCHANGED <<up, table, sess, lost>>

\* HandleListener.on_close(): the backend session is lost.
BackendLost(h) ==
    /\ handle[h].obj = "live"
    /\ handle' = [handle EXCEPT ![h].obj = "closed"]
    /\ UNCHANGED <<up, table, sess, worker, lost>>

-----------------------------------------------------------------------------
Handled(r) == \/ Refuse(r) \/ Create(r) \/ AttachEnds(r) \/ AttachFails(r)
              \/ \E s \in Session : \/ Keepalive(r, s) \/ Claim(r, s) \/ Attach(r, s)
                                    \/ DestroyRequest(r, s)
                                    \/ \E h \in Handle : Detach(r, s, h)

Destroying(w) == NextSession(w) \/ DetachNext(w)

Next == \/ \E r \in Request : Handled(r) \/ \E t \in Transport : Receive(r, t)
        \/ \E t \in Transport : Connect(t) \/ TransportGone(t)
        \/ \E s \in Session : Expire(s)
        \/ \E h \in Handle : BackendLost(h)
        \/ \E w \in Worker : Destroying(w) \/ DetachStalls(w)
        \/ CheckTimeouts \/ KickStalls

Spec == Init /\ [][Next]_vars

(* Time passes, the checker wakes up every 2 s and every wait inside a      *)
(* detach() or an attach ends, by a timeout if not by an answer.            *)
Fairness == /\ \A s \in Session : WF_vars(Expire(s))
            /\ \A r \in Request : WF_vars(Handled(r))
            /\ \A w \in Worker : WF_vars(Destroying(w))
            /\ WF_vars(CheckTimeouts)

FairSpec == Spec /\ Fairness
-----------------------------------------------------------------------------
\* The places a handle can be in: tables of sessions and loops of destroy().
InTables(h)  == {s \in Session : h \in sess[s].handles}
InLoops(h)   == {w \in Worker : h \in worker[w].todo}

(* A handle is detached once: it is in the table of its own session only,   *)
(* and a request to detach it, the loop of one destroy() and an attach that *)
(* comes late never have it at the same time, nor after it was detached.    *)
DetachedOnce ==
    \A h \in Handle :
        /\ \A s \in InTables(h) : handle[h].sess = s /\ InLoops(h) = {}
        /\ \A v, w \in InLoops(h) : v = w
        /\ InTables(h) \cup InLoops(h) # {} => InUse(h)

(* "avoid future usage": while the destruction of other sessions waits, one *)
(* that is about to be destroyed cannot be found by a request, and it is    *)
(* destroyed by one greenlet only.                                          *)
AvoidFutureUsage ==
    /\ \A s \in table : ~sess[s].destroyed /\ \A w \in Worker : s \notin worker[w].rest
    /\ \A v, w \in Worker : v # w => worker[v].rest \cap worker[w].rest = {}

(* "detach all handles on it": a destroyed session has no handle. The code  *)
(* does not keep this; no run checks it.                                    *)
NoHandleOutlives == \A s \in Session : sess[s].destroyed => sess[s].handles = {}

(* Whoever takes a session out of the table has it until it destroys it,    *)
(* also when a detach() raises on the way; only a greenlet that is ended by *)
(* an event nobody reads forgets some.                                      *)
PoppedIsPending ==
    \A s \in Session :
        s \notin table /\ ~sess[s].destroyed
          => s \in lost \/ \E w \in Worker : s \in worker[w].rest

(* A session that has left the table is destroyed, also when the            *)
(* destruction of another one before it raises an exception. Only a         *)
(* greenlet that is ended by an event nobody reads leaves some behind.      *)
PoppedEnds ==
    \A s \in Session :
        s \notin table /\ ~sess[s].destroyed
          ~> \/ sess[s].destroyed
             \/ s \in lost

(* Nobody's session stays: one that requests do not reach again and again   *)
(* leaves the table, so also the one created after its connection closed,   *)
(* as long as the checker itself is there.                                  *)
Touched(s) == ~sess[s].fresh /\ sess[s].fresh'

AbandonedEnds ==
    \A s \in Session : \/ []<><<Touched(s)>>_vars
                       \/ (s \in table ~> s \notin table \/ At(Checker, "dead"))
(* Together: no session stays that nobody uses or that was taken out.       *)
SessionsEnd == PoppedEnds /\ AbandonedEnds
=============================================================================
