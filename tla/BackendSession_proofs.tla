------------------------ MODULE BackendSession_proofs ------------------------
(* Proofs about BackendSession, for every set of greenlets, sessions and    *)
(* handles: its types, and, when no listener waits in on_close(), that one  *)
(* connection is open, that a live handle belongs to the usable session,    *)
(* that the sessions and handles implement BackendContract, and that no     *)
(* handle is left at the Janus server with no one to detach it.             *)
EXTENDS BackendSession, TLAPS

Initing(c, s) == client[c].pc \in {"connect", "info", "create"} /\ client[c].sess = s
Using(c, s)   == client[c].pc \in {"attach", "hold", "request"} /\ client[c].sess = s

(* A greenlet that waits, and a handle of the Janus server, have a session; *)
(* a greenlet that holds a handle has one.                                  *)
Owned ==
    /\ \A c \in Client : client[c].pc # "idle" => client[c].sess \in Session
    /\ \A c \in Client : \/ client[c].pc \in {"hold", "request"}
                         \/ client[c].pc = "attach" /\ client[c].resp = "ok"
                         => client[c].got \in Handle
    /\ \A h \in Handle : handle[h].janus => handle[h].sess \in Session

-----------------------------------------------------------------------------
(* The inductive invariant. A session is known by the greenlet inside its   *)
(* init(), by the registry and by its connection, which agree as follows.   *)
Connections ==
    \A s \in Session :
        /\ sess[s].closing = "no"
        /\ sess[s].link = "up" => registry = s /\ sess[s].ws
        /\ registry = s => sess[s].state \in {"creating", "active"}
        /\ registry = s /\ sess[s].state = "active" => sess[s].link = "up"
        /\ sess[s].state = "creating" => registry = s
        /\ sess[s].state = "active" /\ registry # s => ~sess[s].ws
        /\ sess[s].timer => sess[s].handles = {} /\ sess[s].state = "active"

Creator(c, s) == Initing(c, s) =>
    /\ sess[s].state \in {"creating", "destroyed"} /\ sess[s].keepalive = "off"
    /\ sess[s].state = "creating" /\ client[c].pc # "connect" => sess[s].link = "up"
    /\ client[c].pc = "connect" => sess[s].state = "creating" /\ sess[s].link = "none"
    /\ sess[s].state = "destroyed" => ~sess[s].ws
    /\ \A d \in Client : c # d => ~Initing(d, s) /\ ~Using(d, s)

Creators ==
    /\ \A s \in Session : sess[s].state = "creating" => \E c \in Client : Initing(c, s)
    /\ \A c \in Client, s \in Session : Creator(c, s)

User(c) ==
    /\ \A s \in Session : Using(c, s) =>
         sess[s].state = "destroyed" \/ (sess[s].state = "active" /\ registry = s)
    /\ client[c].pc = "attach" => (client[c].got # None <=> client[c].resp = "ok")
    /\ client[c].got # None =>
         /\ Using(c, handle[client[c].got].sess)
         /\ client[c].pc = "attach" => handle[client[c].got].obj = "none"
         /\ \A d \in Client : d # c => client[d].got # client[c].got

Users == \A c \in Client : User(c)

Handles ==
    /\ RoutesToLive
    /\ \A s \in Session : sess[s].handles # {} => sess[s].state = "active" /\ registry = s
    /\ \A h \in Handle : handle[h].obj = "live" => handle[h].sess \in Session

IInv == TypeOK /\ Owned /\ Connections /\ Creators /\ Users /\ Handles

-----------------------------------------------------------------------------
USE BackendAssumption

LEMMA ClosedType ==
    ASSUME TypeOK, NEW hs, NEW gone
    PROVE  /\ Closed(hs, gone) \in [Handle -> HandleRec]
           /\ \A h \in Handle : Closed(hs, gone)[h].janus => handle[h].janus
           /\ \A h \in Handle : Closed(hs, gone)[h].sess = handle[h].sess
BY DEF TypeOK, Closed, HandleRec

LEMMA DestroyType ==
    ASSUME TypeOK, NEW s \in Session, NEW r \in SessionRec,
           NEW by \in {"recv", "other"}, Destroy(s, r, by)
    PROVE  /\ registry' \in Session \cup {None}
           /\ sess' \in [Session -> SessionRec]
           /\ handle' \in [Handle -> HandleRec]
           /\ \A h \in Handle : handle'[h].janus => handle[h].janus
           /\ \A h \in Handle : handle'[h].sess = handle[h].sess
<1>1. Dead(r) \in SessionRec
  BY DEF Dead, SessionRec, States
<1>2. CASE sess' = [sess EXCEPT ![s] = r] /\ UNCHANGED <<registry, handle>>
  BY <1>2 DEF TypeOK
<1>3. CASE sess' = [sess EXCEPT ![s] = Dead(r)] /\ handle' = Closed(r.handles, {s}) /\ DropRegistry(s)
  BY <1>1, <1>3, ClosedType DEF TypeOK, DropRegistry
<1>4. ASSUME NEW h \in r.handles, DropRegistry(s),
             sess' = [sess EXCEPT ![s] =
                 [r EXCEPT !.state = "destroyed", !.timer = FALSE,
                           !.closing = by, !.iter = r.handles \ {h},
                           !.whole = r.handles]],
             handle' = Closed({h}, IF r.link = "up" THEN {} ELSE {s})
      PROVE  /\ registry' \in Session \cup {None}
             /\ sess' \in [Session -> SessionRec]
             /\ handle' \in [Handle -> HandleRec]
             /\ \A g \in Handle : handle'[g].janus => handle[g].janus
             /\ \A g \in Handle : handle'[g].sess = handle[g].sess
  <2>1. [r EXCEPT !.state = "destroyed", !.timer = FALSE, !.closing = by,
                  !.iter = r.handles \ {h}, !.whole = r.handles] \in SessionRec
    BY DEF SessionRec, States
  <2>. QED  BY <1>4, <2>1, ClosedType DEF TypeOK, DropRegistry
<1>. QED  BY <1>2, <1>3, <1>4 DEF Destroy

LEMMA WaitType ==
    ASSUME NEW p \in Waits \cup {"hold"}, NEW s \in Session
    PROVE  Wait(p, s) \in ClientRec /\ Idle \in ClientRec
BY DEF Wait, Idle, ClientRec, Waits

(* The types and the owners are inductive together, listeners wait or not.  *)
LEMMA TypeInit == Init => TypeOK /\ Owned
BY DEF Init, TypeOK, Owned, Unborn, NoHandle, Idle, SessionRec, HandleRec, ClientRec, States, Waits

\* What a client does to its own record.
LEMMA GotoType ==
    ASSUME TypeOK, Owned, NEW c \in Client, NEW r \in ClientRec, Goto(c, r),
           r.pc # "idle" => r.sess \in Session,
           \/ r.pc \in {"hold", "request"}
           \/ r.pc = "attach" /\ r.resp = "ok"
           => r.got \in Handle
    PROVE  /\ client' \in [Client -> ClientRec]
           /\ \A d \in Client : client'[d].pc # "idle" => client'[d].sess \in Session
           /\ \A d \in Client : \/ client'[d].pc \in {"hold", "request"}
                                \/ client'[d].pc = "attach" /\ client'[d].resp = "ok"
                                => client'[d].got \in Handle
BY DEF TypeOK, Owned, Goto

LEMMA GotoWait ==
    ASSUME TypeOK, Owned, NEW c \in Client, NEW s \in Session, NEW p \in Waits \ {"request"},
           Goto(c, Wait(p, s)) \/ Goto(c, Idle)
    PROVE  /\ client' \in [Client -> ClientRec]
           /\ \A d \in Client : client'[d].pc # "idle" => client'[d].sess \in Session
           /\ \A d \in Client : \/ client'[d].pc \in {"hold", "request"}
                                \/ client'[d].pc = "attach" /\ client'[d].resp = "ok"
                                => client'[d].got \in Handle
<1>1. /\ Wait(p, s) \in ClientRec /\ Idle \in ClientRec
      /\ Wait(p, s).sess = s /\ Wait(p, s).pc \notin {"hold", "request"} /\ Wait(p, s).resp = "none"
      /\ Idle.pc = "idle"
  BY DEF Wait, Idle, ClientRec, Waits
<1>. QED  BY <1>1, GotoType

LEMMA TypeClient ==
    ASSUME TypeOK, Owned, NEW c \in Client,
           \/ Progress(c) \/ GetSession(c) \/ Request(c) \/ Detach(c) \/ Answer(c)
    PROVE  TypeOK' /\ Owned'
<1>. DEFINE s == client[c].sess
<1>a. client[c].pc # "idle" => s \in Session
  BY DEF Owned
<1>b. "connect" \in Waits /\ "info" \in Waits /\ "create" \in Waits /\ "await" \in Waits /\ "attach" \in Waits
  BY DEF Waits
<1>1. CASE GetSession(c)
  <2>1. ASSUME NEW n \in Session, registry' = n,
               sess' = [sess EXCEPT ![n] = [Unborn EXCEPT !.state = "creating"]],
               handle' = [h \in Handle |-> IF handle[h].sess = n THEN NoHandle ELSE handle[h]],
               Goto(c, Wait("connect", n)), FreeSession(n)
        PROVE  TypeOK' /\ Owned'
    <3>1. sess' \in [Session -> SessionRec]
      BY <2>1 DEF TypeOK, Unborn, SessionRec, States
    <3>2. handle' \in [Handle -> HandleRec] /\ \A h \in Handle : handle'[h].janus => handle'[h].sess \in Session
      BY <2>1 DEF TypeOK, Owned, NoHandle, HandleRec
    <3>. QED  BY <1>b, <2>1, <3>1, <3>2, GotoWait DEF TypeOK, Owned
  <2>2. CASE registry # None /\ UNCHANGED <<registry, sess, handle>>
             /\ (SendAttach(c, registry, sess[registry]) \/ Goto(c, Wait("await", registry)))
    <3>1. registry \in Session
      BY <2>2 DEF TypeOK
    <3>. QED  BY <1>b, <2>2, <3>1, GotoWait DEF SendAttach, TypeOK, Owned
  <2>. QED  BY <1>1, <2>1, <2>2 DEF GetSession
<1>2. CASE Awaited(c)
  BY <1>a, <1>b, <1>2, GotoWait DEF Awaited, SendAttach, At, TypeOK, Owned
<1>3. CASE Connected(c)
  <2>1. sess' \in [Session -> SessionRec]
    <3>1. sess[s] \in SessionRec /\ s \in Session
      BY <1>a, <1>3 DEF Connected, At, TypeOK
    <3>2. [sess[s] EXCEPT !.ws = TRUE, !.link = "up"] \in SessionRec
      BY <3>1 DEF SessionRec
    <3>3. sess' = [sess EXCEPT ![s] = [sess[s] EXCEPT !.ws = TRUE, !.link = "up"]]
      BY <1>3, <3>1 DEF Connected, TypeOK
    <3>. QED  BY <3>1, <3>2, <3>3 DEF TypeOK
  <2>. QED  BY <1>a, <1>b, <1>3, <2>1, GotoWait DEF Connected, At, TypeOK, Owned
<1>4. CASE InitFails(c) /\ s \in Session
  <2>1. [sess[s] EXCEPT !.state = "creating", !.ws = FALSE,
                        !.link = IF @ = "up" THEN "down" ELSE @] \in SessionRec
    <3>1. sess[s] \in SessionRec
      BY <1>4 DEF TypeOK
    <3>. QED  BY <3>1 DEF SessionRec, States
  <2>2. /\ registry' \in Session \cup {None}
        /\ sess' \in [Session -> SessionRec]
        /\ handle' \in [Handle -> HandleRec]
        /\ \A h \in Handle : handle'[h].janus => handle[h].janus
        /\ \A h \in Handle : handle'[h].sess = handle[h].sess
    BY <1>4, <2>1, DestroyType DEF InitFails
  <2>. QED  BY <1>b, <1>4, <2>2, GotoWait DEF InitFails, TypeOK, Owned
<1>5. CASE ConnectFails(c) \/ InitRequestFails(c)
  BY <1>a, <1>4, <1>5 DEF ConnectFails, InitRequestFails, At
<1>6. CASE InfoAnswered(c)
  <2>1. s \in Session
    BY <1>a, <1>6 DEF InfoAnswered, At
  <2>2. CASE Goto(c, Wait("create", s)) /\ UNCHANGED <<registry, sess, handle>>
    BY <1>b, <2>1, <2>2, GotoWait DEF TypeOK, Owned
  <2>. QED  BY <1>4, <1>6, <2>1, <2>2 DEF InfoAnswered
<1>7. CASE CreateAnswered(c)
  <2>1. sess' \in [Session -> SessionRec]
    <3>1. sess[s] \in SessionRec
      BY <1>a, <1>7 DEF CreateAnswered, At, TypeOK
    <3>2. [sess[s] EXCEPT !.state = "active", !.keepalive = "sleep"] \in SessionRec
      BY <3>1 DEF SessionRec, States
    <3>. QED  BY <1>7, <3>2 DEF CreateAnswered, TypeOK
  <2>. QED  BY <1>a, <1>b, <1>7, <2>1, GotoWait DEF CreateAnswered, SendAttach, At, TypeOK, Owned
<1>8. CASE AttachAnswered(c)
  <2>1. s \in Session /\ client[c].got \in Handle
    BY <1>a, <1>8 DEF AttachAnswered, At, Owned
  <2>2. CASE Goto(c, Idle) /\ UNCHANGED <<registry, sess, handle>>
    BY <1>b, <2>1, <2>2, GotoWait DEF TypeOK, Owned
  <2>3. CASE /\ handle' = [handle EXCEPT ![client[c].got].obj = "live"]
             /\ sess' = [sess EXCEPT ![s] = Attached(@, client[c].got)]
             /\ Goto(c, [Wait("hold", s) EXCEPT !.got = client[c].got])
             /\ UNCHANGED registry
    <3>1. sess' \in [Session -> SessionRec]
      <4>1. sess[s] \in SessionRec
        BY <2>1 DEF TypeOK
      <4>2. Attached(sess[s], client[c].got) \in SessionRec
        BY <2>1, <4>1 DEF Attached, SessionRec
      <4>. QED  BY <2>1, <2>3, <4>2 DEF TypeOK
    <3>2. handle' \in [Handle -> HandleRec] /\ \A h \in Handle : handle'[h].janus => handle'[h].sess \in Session
      BY <2>1, <2>3 DEF TypeOK, Owned, HandleRec
    <3>3. LET r == [Wait("hold", s) EXCEPT !.got = client[c].got]
          IN r \in ClientRec /\ r.sess = s /\ r.got = client[c].got
      BY <2>1 DEF Wait, ClientRec
    <3>. QED  BY <2>1, <2>3, <3>1, <3>2, <3>3, GotoType DEF TypeOK, Owned
  <2>. QED  BY <1>8, <2>2, <2>3 DEF AttachAnswered
<1>9. CASE AttachFails(c)
  <2>1. s \in Session
    BY <1>a, <1>9 DEF AttachFails, At
  <2>2. handle' \in [Handle -> HandleRec] /\ \A h \in Handle : handle'[h].janus => handle'[h].sess \in Session
    <3>. DEFINE new == [sess |-> s, obj |-> "none", janus |-> TRUE, late |-> TRUE]
    <3>1. new \in HandleRec /\ new.sess = s
      BY <2>1 DEF HandleRec
    <3>2. CASE UNCHANGED handle
      BY <3>2 DEF TypeOK, Owned
    <3>3. ASSUME NEW h \in Handle, handle' = [handle EXCEPT ![h] = new]
          PROVE  handle' \in [Handle -> HandleRec] /\ \A g \in Handle : handle'[g].janus => handle'[g].sess \in Session
      <4>. HIDE DEF new
      <4>. QED  BY <2>1, <3>1, <3>3 DEF TypeOK, Owned
    <3>. QED  BY <1>9, <3>2, <3>3 DEF AttachFails
  <2>. QED  BY <1>b, <1>9, <2>1, <2>2, GotoWait DEF AttachFails, TypeOK, Owned
<1>10. CASE Request(c) \/ RequestEnds(c)
  <2>1. PICK p \in {"hold", "request"} : Goto(c, [client[c] EXCEPT !.pc = p, !.resp = "none"])
    BY <1>10 DEF Request, RequestEnds, Goto, TypeOK
  <2>2. LET r == [client[c] EXCEPT !.pc = p, !.resp = "none"]
        IN r \in ClientRec /\ r.sess = s /\ r.got = client[c].got /\ client[c].pc \in {"hold", "request"}
    BY <1>10, <2>1 DEF Request, RequestEnds, At, TypeOK, ClientRec, Waits
  <2>3. s \in Session /\ client[c].got \in Handle
    BY <1>a, <2>2 DEF Owned
  <2>. QED  BY <1>10, <2>1, <2>2, <2>3, GotoType DEF Request, RequestEnds, TypeOK, Owned
<1>11. CASE Detach(c)
  <2>1. s \in Session /\ client[c].got \in Handle
    BY <1>a, <1>11 DEF Detach, At, Owned
  <2>2. sess' \in [Session -> SessionRec]
    BY <1>11, <2>1 DEF Detach, OnHandleDetached, TypeOK, SessionRec
  <2>3. handle' \in [Handle -> HandleRec] /\ \A h \in Handle : handle'[h].janus => handle'[h].sess \in Session
    BY <1>11, <2>1 DEF Detach, DetachUnsent, TypeOK, Owned, HandleRec
  <2>. QED  BY <1>b, <1>11, <2>1, <2>2, <2>3, GotoWait DEF Detach, TypeOK, Owned
<1>12. CASE Answer(c)
  <2>1. s \in Session
    BY <1>a, <1>12 DEF Answer
  <2>2. handle' \in [Handle -> HandleRec] /\ \A h \in Handle : handle'[h].janus => handle'[h].sess \in Session
    <3>. DEFINE new == [sess |-> s, obj |-> "none", janus |-> TRUE, late |-> FALSE]
    <3>1. new \in HandleRec /\ new.sess = s
      BY <2>1 DEF HandleRec
    <3>2. CASE UNCHANGED handle
      BY <3>2 DEF TypeOK, Owned
    <3>3. ASSUME NEW h \in Handle, handle' = [handle EXCEPT ![h] = new]
          PROVE  handle' \in [Handle -> HandleRec] /\ \A g \in Handle : handle'[g].janus => handle'[g].sess \in Session
      <4>. HIDE DEF new
      <4>. QED  BY <2>1, <3>1, <3>3 DEF TypeOK, Owned
    <3>. QED  BY <1>12, <3>2, <3>3 DEF Answer
  <2>3. client' \in [Client -> ClientRec]
    BY <1>12 DEF Answer, TypeOK, ClientRec
  <2>. QED  BY <1>12, <2>1, <2>2, <2>3 DEF Answer, At, TypeOK, Owned, ClientRec
<1>. QED  BY <1>1, <1>2, <1>3, <1>5, <1>6, <1>7, <1>8, <1>9, <1>10, <1>11, <1>12 DEF Progress

\* Destroy() as the actions of a session use it: their greenlet is no client.
LEMMA TypeDestroy ==
    ASSUME TypeOK, Owned, NEW s \in Session, NEW r \in SessionRec,
           NEW by \in {"recv", "other"}, Destroy(s, r, by), UNCHANGED client
    PROVE  TypeOK' /\ Owned'
BY DestroyType DEF TypeOK, Owned

LEMMA TypeSession ==
    ASSUME TypeOK, Owned, NEW s \in Session,
           \/ Keepalive(s) \/ KeepaliveAnswered(s) \/ AutoDestroyFires(s)
           \/ DestroyGoesOn(s) \/ JanusTimeout(s) \/ ConnectionLost(s)
    PROVE  TypeOK' /\ Owned'
<1>0. sess[s] \in SessionRec
  BY DEF TypeOK
<1>1. CASE KeepaliveSends(s)
  <2>1. Armed(sess[s]) \in SessionRec
    BY <1>0 DEF Armed, SessionRec
  <2>2. [Armed(sess[s]) EXCEPT !.keepalive = "wait"] \in SessionRec
        /\ [Armed(sess[s]) EXCEPT !.keepalive = "off"] \in SessionRec
    BY <2>1 DEF SessionRec
  <2>. QED  BY <1>1, <2>2, TypeDestroy DEF KeepaliveSends, TypeOK, Owned
<1>2. ASSUME NEW k \in {"off", "answered", "sleep"}, sess' = [sess EXCEPT ![s].keepalive = k],
             UNCHANGED <<registry, handle, client>>
      PROVE  TypeOK' /\ Owned'
  <2>1. [sess[s] EXCEPT !.keepalive = k] \in SessionRec
    BY <1>0 DEF SessionRec
  <2>. QED  BY <1>2, <2>1 DEF TypeOK, Owned
<1>3. CASE KeepaliveStops(s) \/ KeepaliveSleeps(s) \/ KeepaliveAnswered(s)
  BY <1>2, <1>3 DEF KeepaliveStops, KeepaliveSleeps, KeepaliveAnswered
<1>4. CASE KeepaliveTimeout(s)
  <2>1. [sess[s] EXCEPT !.keepalive = "off"] \in SessionRec
    BY <1>0 DEF SessionRec
  <2>. QED  BY <1>4, <2>1, TypeDestroy DEF KeepaliveTimeout
<1>5. CASE AutoDestroyFires(s)
  <2>1. [sess[s] EXCEPT !.timer = FALSE] \in SessionRec
    BY <1>0 DEF SessionRec
  <2>. QED  BY <1>5, <2>1, TypeDestroy DEF AutoDestroyFires
<1>6. CASE JanusTimeout(s)
  BY <1>0, <1>6, TypeDestroy DEF JanusTimeout
<1>7. CASE ConnectionLost(s)
  <2>1. /\ [sess[s] EXCEPT !.link = "down"] \in SessionRec
        /\ [sess[s] EXCEPT !.ws = FALSE, !.link = "down"] \in SessionRec
    BY <1>0 DEF SessionRec
  <2>2. CASE sess' = [sess EXCEPT ![s].link = "down"] /\ handle' = Closed({}, {s}) /\ UNCHANGED <<registry, client>>
    BY <2>1, <2>2, ClosedType DEF TypeOK, Owned
  <2>. QED  BY <1>7, <2>1, <2>2, TypeDestroy DEF ConnectionLost
<1>8. CASE DestroyGoesOn(s)
  <2>1. /\ [sess[s] EXCEPT !.closing = "no", !.iter = {}, !.whole = {}] \in SessionRec
        /\ \A h \in Handle : [sess[s] EXCEPT !.iter = @ \ {h}] \in SessionRec
        /\ Dead(sess[s]) \in SessionRec
        /\ sess[s].iter \subseteq Handle
    BY <1>0 DEF Dead, SessionRec, States
  <2>2. CASE sess' = [sess EXCEPT ![s].closing = "no", ![s].iter = {}, ![s].whole = {}] /\ UNCHANGED <<registry, client, handle>>
    <3>1. sess' = [sess EXCEPT ![s] = [sess[s] EXCEPT !.closing = "no", !.iter = {}, !.whole = {}]]
      BY <2>2 DEF TypeOK
    <3>. QED  BY <2>1, <2>2, <3>1 DEF TypeOK, Owned
  <2>3. ASSUME NEW h \in sess[s].iter, handle' = Closed({h}, {}), UNCHANGED <<registry, client>>,
               sess' = [sess EXCEPT ![s].iter = @ \ {h}]
        PROVE  TypeOK' /\ Owned'
    BY <2>1, <2>3, ClosedType DEF TypeOK, Owned
  <2>4. CASE sess' = [sess EXCEPT ![s] = Dead(@)] /\ handle' = Closed({}, {s}) /\ UNCHANGED <<registry, client>>
    BY <2>1, <2>4, ClosedType DEF TypeOK, Owned
  <2>. QED  BY <1>8, <2>2, <2>3, <2>4 DEF DestroyGoesOn
<1>. QED  BY <1>1, <1>3, <1>4, <1>5, <1>6, <1>7, <1>8 DEF Keepalive

LEMMA TypeHandle ==
    ASSUME TypeOK, Owned, NEW h \in Handle, JanusDetaches(h)
    PROVE  TypeOK' /\ Owned'
<1>1. sess' \in [Session -> SessionRec]
  <2>1. handle[h].sess \in Session
    BY DEF JanusDetaches, Owned
  <2>2. sess[handle[h].sess] \in SessionRec
    BY <2>1 DEF TypeOK
  <2>3. [sess[handle[h].sess] EXCEPT !.handles = @ \ {h}] \in SessionRec
    BY <2>2 DEF SessionRec
  <2>. QED  BY <2>3 DEF JanusDetaches, OnHandleDetached, TypeOK
<1>2. PICK o \in {"none", "live", "detached", "closed"} :
        handle' = [handle EXCEPT ![h].janus = FALSE, ![h].obj = o]
  <2>1. handle[h].obj \in {"none", "live", "detached", "closed"}
    BY DEF TypeOK, HandleRec
  <2>. QED  BY <2>1 DEF JanusDetaches
<1>3. [handle[h] EXCEPT !.janus = FALSE, !.obj = o] \in HandleRec
  <2>1. handle[h] \in HandleRec
    BY DEF TypeOK
  <2>. QED  BY <2>1 DEF HandleRec
<1>4. handle' = [handle EXCEPT ![h] = [handle[h] EXCEPT !.janus = FALSE, !.obj = o]]
  BY <1>2 DEF TypeOK
<1>5. /\ handle' \in [Handle -> HandleRec]
      /\ \A g \in Handle : handle'[g].janus => handle[g].janus /\ handle'[g].sess = handle[g].sess
  BY <1>3, <1>4 DEF TypeOK
<1>. QED  BY <1>1, <1>5 DEF JanusDetaches, TypeOK, Owned

LEMMA TypeStep == TypeOK /\ Owned /\ [Next]_vars => TypeOK' /\ Owned'
<1>. SUFFICES ASSUME TypeOK, Owned, [Next]_vars PROVE TypeOK' /\ Owned'
  OBVIOUS
<1>1. CASE UNCHANGED vars
  BY <1>1 DEF vars, TypeOK, Owned
<1>. QED  BY <1>1, TypeClient, TypeSession, TypeHandle DEF Next

(* Every variable keeps its type, whatever the listeners do: in particular  *)
(* a greenlet never runs on with a session or a handle it does not have.    *)
THEOREM TypeCorrect == Spec => [](TypeOK /\ Owned)
BY TypeInit, TypeStep, PTL DEF Spec

-----------------------------------------------------------------------------
(* From here on no listener waits in on_close(). Without the types, the     *)
(* invariant has four parts; two lemmas cover what happens to a session.    *)
Agreement == Connections /\ Creators /\ Users /\ Handles

LEMMA InvInit == Init => Agreement
BY DEF Init, Agreement, Connections, Creators, Users, Handles, RoutesToLive, Unborn, NoHandle, Idle,
       Creator, User, Initing, Using

\* The keepalive greenlet moves, or the timer is armed or goes off.
LEMMA KeepSession ==
    ASSUME TypeOK, Agreement, NEW s \in Session, NEW k, NEW b,
           sess' = [sess EXCEPT ![s] = [sess[s] EXCEPT !.keepalive = k, !.timer = b]],
           b => sess[s].handles = {} /\ sess[s].state = "active",
           k = "off" \/ \A c \in Client : ~Initing(c, s),
           UNCHANGED <<registry, handle, client>>
    PROVE  Agreement'
<1>1. /\ \A t \in Session : /\ sess'[t].state = sess[t].state /\ sess'[t].ws = sess[t].ws
                             /\ sess'[t].link = sess[t].link /\ sess'[t].handles = sess[t].handles
                             /\ sess'[t].closing = sess[t].closing
                             /\ t # s => sess'[t] = sess[t]
      /\ sess'[s].timer = b /\ sess'[s].keepalive = k
  BY DEF TypeOK, SessionRec
<1>2. Connections'
  BY <1>1 DEF Agreement, Connections
<1>3. Creators'
  BY <1>1 DEF Agreement, Creators, Creator, Initing, Using
<1>4. Users'
  BY <1>1 DEF Agreement, Users, User, Using
<1>5. Handles'
  BY <1>1 DEF Agreement, Handles, RoutesToLive
<1>. QED  BY <1>2, <1>3, <1>4, <1>5 DEF Agreement

\* A session ends: its record is d from then on. The greenlets stay where
\* they are, but for the one whose init() has failed.
LEMMA EndSession ==
    ASSUME TypeOK, Agreement, NEW s \in Session, NEW d \in SessionRec,
           d.state = "destroyed", ~d.ws, ~d.timer, d.link # "up", d.handles = {}, d.closing = "no",
           d.keepalive = "off" \/ \A c \in Client : ~Initing(c, s),
           sess' = [sess EXCEPT ![s] = d], DropRegistry(s),
           handle' = Closed(sess[s].handles, {s}),
           \/ UNCHANGED client /\ \A c \in Client : ~(Initing(c, s) /\ client[c].pc = "connect")
           \/ \E c \in Client : Initing(c, s) /\ Goto(c, Idle)
    PROVE  Agreement'
<1>1. sess'[s] = d /\ \A t \in Session : t # s => sess'[t] = sess[t]
  BY DEF TypeOK
<1>2. registry' # s /\ \A t \in Session : t # s => (registry' = t <=> registry = t)
  BY DEF DropRegistry
<1>3. \A h \in Handle : /\ handle'[h].sess = handle[h].sess
                        /\ handle'[h].obj = IF h \in sess[s].handles /\ handle[h].obj = "live"
                                            THEN "closed" ELSE handle[h].obj
  BY DEF Closed, TypeOK, HandleRec
<1>4. \A c \in Client : client'[c] = client[c] \/ (Initing(c, s) /\ client'[c] = Idle)
  BY DEF Goto, TypeOK
<1>a. Idle.pc = "idle" /\ Idle.got = None
  BY DEF Idle
<1>b. \A c \in Client, t \in Session : /\ Initing(c, t)' => Initing(c, t) /\ client'[c] = client[c]
                                       /\ Using(c, t)' => Using(c, t) /\ client'[c] = client[c]
                                       /\ Initing(c, t) /\ t # s => Initing(c, t)'
  BY <1>4, <1>a DEF Initing, Using
<1>c. \A c \in Client : Initing(c, s)' => client[c].pc # "connect"
  BY <1>b, <1>a DEF Agreement, Creators, Creator, Initing, Goto, TypeOK
<1>5. Connections'
  BY <1>1, <1>2 DEF Agreement, Connections
<1>6. Creators'
  <2>1. ASSUME NEW t \in Session, sess'[t].state = "creating"
        PROVE  \E c \in Client : Initing(c, t)'
    BY <1>1, <1>b, <2>1 DEF Agreement, Creators
  <2>2. ASSUME NEW c \in Client, NEW t \in Session, Initing(c, t)'
        PROVE  Creator(c, t)'
    <3>1. Initing(c, t) /\ client'[c] = client[c] /\ Creator(c, t)
      BY <1>b, <2>2 DEF Agreement, Creators
    <3>2. \A e \in Client : c # e => ~Initing(e, t)' /\ ~Using(e, t)'
      BY <1>b, <3>1 DEF Creator
    <3>3. CASE t # s
      BY <1>1, <3>1, <3>2, <3>3 DEF Creator
    <3>4. CASE t = s
      BY <1>1, <1>c, <2>2, <3>1, <3>2, <3>4 DEF Creator
    <3>. QED  BY <3>3, <3>4
  <2>3. \A c \in Client, t \in Session : Creator(c, t)'
    BY <2>2 DEF Creator
  <2>. QED  BY <2>1, <2>3 DEF Creators
<1>7. ASSUME NEW c \in Client PROVE User(c)'
  <2>1. CASE client'[c] = client[c]
    <3>1. User(c)
      BY DEF Agreement, Users
    <3>2. \A t \in Session : Using(c, t)' =>
             sess'[t].state = "destroyed" \/ (sess'[t].state = "active" /\ registry' = t)
      BY <1>1, <1>2, <2>1, <3>1 DEF User, Using
    <3>3. client'[c].got # None =>
             /\ Using(c, handle[client[c].got].sess)'
             /\ client'[c].pc = "attach" => handle'[client'[c].got].obj = "none"
      BY <1>3, <2>1, <3>1 DEF User, Using, TypeOK, ClientRec
    <3>4. client'[c].got # None => \A e \in Client : e # c => client'[e].got # client'[c].got
      BY <1>4, <1>a, <2>1, <3>1 DEF User
    <3>. QED  BY <2>1, <3>1, <3>2, <3>3, <3>4 DEF User
  <2>2. CASE client'[c] = Idle
    BY <1>a, <2>2 DEF User, Using
  <2>. QED  BY <1>4, <2>1, <2>2
<1>8. Handles'
  <2>1. \A h \in Handle : h \in sess[s].handles <=> handle[h].sess = s /\ handle[h].obj = "live"
    BY DEF Agreement, Handles, RoutesToLive
  <2>2. \A h \in Handle : handle'[h].obj = "live" <=> handle[h].obj = "live" /\ handle[h].sess # s
    BY <1>3, <2>1
  <2>3. ASSUME NEW t \in Session
        PROVE  sess'[t].handles = {h \in Handle : handle'[h].sess = t /\ handle'[h].obj = "live"}
    <3>1. CASE t = s
      BY <1>1, <1>3, <2>2, <3>1
    <3>2. CASE t # s
      <4>1. sess[t].handles = {h \in Handle : handle[h].sess = t /\ handle[h].obj = "live"}
        BY DEF Agreement, Handles, RoutesToLive
      <4>2. \A h \in Handle : handle'[h].sess = t /\ handle'[h].obj = "live"
                            <=> handle[h].sess = t /\ handle[h].obj = "live"
        BY <1>3, <2>2, <3>2
      <4>. QED  BY <1>1, <3>2, <4>1, <4>2
    <3>. QED  BY <3>1, <3>2
  <2>4. \A t \in Session : sess'[t].handles # {} => sess'[t].state = "active" /\ registry' = t
    BY <1>1, <1>2 DEF Agreement, Handles
  <2>5. \A h \in Handle : handle'[h].obj = "live" => handle'[h].sess \in Session
    BY <1>3, <2>2 DEF Agreement, Handles
  <2>. QED  BY <2>3, <2>4, <2>5 DEF Handles, RoutesToLive
<1>. QED  BY <1>5, <1>6, <1>7, <1>8 DEF Agreement, Users

\* destroy() is one of the two when no listener waits.
LEMMA DestroyEffect ==
    ASSUME ~ListenersBlock, NEW s, NEW r, NEW by, Destroy(s, r, by)
    PROVE  \/ /\ r.state = "destroyed"
              /\ sess' = [sess EXCEPT ![s] = r] /\ UNCHANGED <<registry, handle>>
           \/ /\ r.state # "destroyed" /\ DropRegistry(s)
              /\ sess' = [sess EXCEPT ![s] = Dead(r)] /\ handle' = Closed(r.handles, {s})
BY DEF Destroy

LEMMA DeadRecord ==
    ASSUME NEW r \in SessionRec
    PROVE  /\ Dead(r) \in SessionRec
           /\ Dead(r).state = "destroyed" /\ ~Dead(r).ws /\ ~Dead(r).timer /\ Dead(r).link # "up"
           /\ Dead(r).handles = {} /\ Dead(r).closing = "no" /\ Dead(r).keepalive = r.keepalive
BY DEF Dead, SessionRec, States

LEMMA InvSession ==
    ASSUME ~ListenersBlock, TypeOK, Agreement, NEW s \in Session,
           \/ Keepalive(s) \/ KeepaliveAnswered(s) \/ AutoDestroyFires(s)
           \/ DestroyGoesOn(s) \/ JanusTimeout(s) \/ ConnectionLost(s)
    PROVE  Agreement'
<1>0. sess[s] \in SessionRec
  BY DEF TypeOK
<1>a. sess[s].closing = "no" /\ (sess[s].timer => sess[s].handles = {} /\ sess[s].state = "active")
  BY DEF Agreement, Connections
<1>b. sess[s].keepalive # "off" \/ sess[s].state = "active" => \A c \in Client : ~Initing(c, s)
  BY DEF Agreement, Creators, Creator
<1>c. sess[s].link = "up" => \A c \in Client : ~(Initing(c, s) /\ client[c].pc = "connect")
  BY DEF Agreement, Creators, Creator
\* The session is destroyed in the state r, which differs in what d forgets.
<1>1. ASSUME NEW r \in SessionRec, NEW by, Destroy(s, r, by), UNCHANGED client,
             r.state # "destroyed", r.handles = sess[s].handles,
             \A c \in Client : ~(Initing(c, s) /\ client[c].pc = "connect"),
             r.keepalive = "off" \/ \A c \in Client : ~Initing(c, s)
      PROVE  Agreement'
  <2>1. /\ sess' = [sess EXCEPT ![s] = Dead(r)] /\ DropRegistry(s)
        /\ handle' = Closed(sess[s].handles, {s})
    BY <1>1, DestroyEffect
  <2>2. /\ Dead(r) \in SessionRec
        /\ Dead(r).state = "destroyed" /\ ~Dead(r).ws /\ ~Dead(r).timer /\ Dead(r).link # "up"
        /\ Dead(r).handles = {} /\ Dead(r).closing = "no" /\ Dead(r).keepalive = r.keepalive
    BY DeadRecord
  <2>. DEFINE d == Dead(r)
  <2>. HIDE DEF d
  <2>3. d = Dead(r)
    BY DEF d
  <2>. QED  BY <1>1, <2>1, <2>2, <2>3, EndSession
<1>2. CASE KeepaliveSends(s)
  <2>1. CASE Destroy(s, [Armed(sess[s]) EXCEPT !.keepalive = "off"], "other")
    <3>. DEFINE r == [Armed(sess[s]) EXCEPT !.keepalive = "off"]
    <3>1. r \in SessionRec /\ r.state = sess[s].state /\ r.handles = sess[s].handles /\ r.keepalive = "off"
      BY <1>0 DEF Armed, SessionRec
    <3>2. sess[s].state = "active" /\ UNCHANGED client
      BY <1>2 DEF KeepaliveSends
    <3>. HIDE DEF r
    <3>. QED  BY <1>1, <1>b, <2>1, <3>1, <3>2 DEF r
  <2>2. CASE sess' = [sess EXCEPT ![s] = [Armed(sess[s]) EXCEPT !.keepalive = "wait"]]
             /\ UNCHANGED <<registry, handle, client>>
    <3>. DEFINE b == sess[s].timer \/ (AutoDestroy /\ sess[s].handles = {})
    <3>1. [Armed(sess[s]) EXCEPT !.keepalive = "wait"] = [sess[s] EXCEPT !.keepalive = "wait", !.timer = b]
      BY <1>0 DEF Armed, SessionRec
    <3>2. sess[s].state = "active"
      BY <1>2 DEF KeepaliveSends
    <3>3. b => sess[s].handles = {} /\ sess[s].state = "active"
      BY <1>a, <3>2
    <3>. HIDE DEF b
    <3>. QED  BY <1>b, <2>2, <3>1, <3>2, <3>3, KeepSession
  <2>. QED  BY <1>2, <2>1, <2>2 DEF KeepaliveSends
<1>3. ASSUME NEW k, sess' = [sess EXCEPT ![s].keepalive = k], UNCHANGED <<registry, handle, client>>,
             k = "off" \/ \A c \in Client : ~Initing(c, s)
      PROVE  Agreement'
  <2>1. sess' = [sess EXCEPT ![s] = [sess[s] EXCEPT !.keepalive = k, !.timer = sess[s].timer]]
    <3>1. [sess[s] EXCEPT !.keepalive = k] = [sess[s] EXCEPT !.keepalive = k, !.timer = sess[s].timer]
      BY <1>0 DEF SessionRec
    <3>. QED  BY <1>3, <3>1
  <2>. QED  BY <1>3, <1>a, <2>1, KeepSession
<1>4. CASE KeepaliveStops(s) \/ KeepaliveSleeps(s) \/ KeepaliveAnswered(s)
  BY <1>3, <1>4, <1>b DEF KeepaliveStops, KeepaliveSleeps, KeepaliveAnswered
<1>5. CASE KeepaliveTimeout(s)
  <2>. DEFINE r == [sess[s] EXCEPT !.keepalive = "off"]
  <2>1. r \in SessionRec /\ r.state = sess[s].state /\ r.handles = sess[s].handles /\ r.keepalive = "off"
    BY <1>0 DEF SessionRec
  <2>2. \A c \in Client : ~Initing(c, s)
    BY <1>5, <1>b DEF KeepaliveTimeout
  <2>3. CASE r.state # "destroyed"
    <3>. HIDE DEF r
    <3>. QED  BY <1>1, <1>5, <2>1, <2>2, <2>3 DEF KeepaliveTimeout, r
  <2>4. CASE r.state = "destroyed"
    <3>1. sess' = [sess EXCEPT ![s].keepalive = "off"] /\ UNCHANGED <<registry, handle, client>>
      BY <1>5, <2>4, DestroyEffect DEF KeepaliveTimeout
    <3>. QED  BY <1>3, <3>1
  <2>. QED  BY <2>3, <2>4
<1>6. CASE AutoDestroyFires(s)
  <2>. DEFINE r == [sess[s] EXCEPT !.timer = FALSE]
  <2>1. r \in SessionRec /\ r.state = sess[s].state /\ r.handles = sess[s].handles
    BY <1>0 DEF SessionRec
  <2>2. sess[s].state = "active" /\ Destroy(s, r, "other") /\ UNCHANGED client
    BY <1>6, <1>a DEF AutoDestroyFires
  <2>. HIDE DEF r
  <2>. QED  BY <1>1, <1>b, <2>1, <2>2
<1>7. CASE JanusTimeout(s)
  BY <1>0, <1>1, <1>7, <1>b DEF JanusTimeout
<1>8. CASE ConnectionLost(s)
  <2>. DEFINE r == [sess[s] EXCEPT !.ws = FALSE, !.link = "down"]
  <2>1. r \in SessionRec /\ r.state = sess[s].state /\ r.handles = sess[s].handles /\ r.keepalive = sess[s].keepalive
    BY <1>0 DEF SessionRec
  <2>2. sess[s].link = "up" /\ sess[s].state # "destroyed"
    BY <1>8 DEF ConnectionLost, Receiving, Agreement, Connections
  <2>3. Destroy(s, r, "recv") /\ UNCHANGED client
    BY <1>8, <2>2 DEF ConnectionLost
  <2>. HIDE DEF r
  <2>. QED  BY <1>1, <1>b, <1>c, <2>1, <2>2, <2>3
<1>9. CASE DestroyGoesOn(s)
  BY <1>9, <1>a DEF DestroyGoesOn
<1>. QED  BY <1>2, <1>4, <1>5, <1>6, <1>7, <1>8, <1>9 DEF Keepalive

\* Handles that nothing refers to may change: they are not live afterwards.
FreshOnly == \A h \in Handle : handle'[h] = handle[h] \/ (FreeHandle(h) /\ handle'[h].obj = "none")

LEMMA FreshHandles ==
    ASSUME TypeOK, Agreement, FreshOnly, UNCHANGED <<registry, sess>>
    PROVE  Connections' /\ Handles'
<1>1. \A h \in Handle : /\ handle'[h].obj = "live" <=> handle[h].obj = "live"
                        /\ handle[h].obj = "live" => handle'[h] = handle[h]
  BY DEF FreshOnly, FreeHandle
<1>2. Connections'
  BY DEF Agreement, Connections
<1>3. ASSUME NEW s \in Session
      PROVE  sess'[s].handles = {h \in Handle : handle'[h].sess = s /\ handle'[h].obj = "live"}
  <2>1. sess[s].handles = {h \in Handle : handle[h].sess = s /\ handle[h].obj = "live"}
    BY DEF Agreement, Handles, RoutesToLive
  <2>. QED  BY <1>1, <2>1
<1>4. RoutesToLive'
  BY <1>3 DEF RoutesToLive
<1>. QED  BY <1>1, <1>2, <1>4 DEF Agreement, Handles

\* A client that is not inside an init() moves, and holds nothing afterwards.
LEMMA MoveClient ==
    ASSUME TypeOK, Agreement, FreshOnly, UNCHANGED <<registry, sess>>,
           NEW c \in Client, NEW r, Goto(c, r),
           client[c].pc \notin {"connect", "info", "create"},
           r.pc \in {"idle", "await", "attach"}, r.got = None,
           r.pc = "attach" => r.resp # "ok" /\ registry = r.sess /\ sess[r.sess].state = "active"
    PROVE  Agreement'
<1>1. Connections' /\ Handles'
  BY FreshHandles
<1>2. client'[c] = r /\ \A d \in Client : d # c => client'[d] = client[d]
  BY DEF Goto, TypeOK
<1>3. \A d \in Client, s \in Session : /\ Initing(d, s)' <=> Initing(d, s)
                                       /\ d # c => (Using(d, s)' <=> Using(d, s))
                                       /\ Using(c, s)' => registry = s /\ sess[s].state = "active"
  BY <1>2 DEF Initing, Using
<1>4. Creators'
  <2>1. ASSUME NEW d \in Client, NEW s \in Session PROVE Creator(d, s)'
    <3>1. Creator(d, s)
      BY DEF Agreement, Creators
    <3>2. Initing(d, s) => d # c
      BY DEF Initing
    <3>. QED  BY <1>2, <1>3, <3>1, <3>2 DEF Creator
  <2>. QED  BY <1>3, <2>1 DEF Agreement, Creators
<1>5. ASSUME NEW d \in Client PROVE User(d)'
  <2>1. User(d)
    BY DEF Agreement, Users
  <2>2. CASE d = c
    BY <1>2, <1>3, <2>2 DEF User
  <2>3. CASE d # c
    <3>1. client[d].got # None => client[d].got \in Handle /\ handle'[client[d].got] = handle[client[d].got]
      BY DEF TypeOK, ClientRec, FreshOnly, FreeHandle
    <3>2. client'[d].got # None => Using(d, handle[client[d].got].sess)'
      BY <1>2, <2>1, <2>3, <3>1 DEF User, Using
    <3>. QED  BY <1>2, <1>3, <2>1, <2>3, <3>1, <3>2 DEF User
  <2>. QED  BY <2>2, <2>3
<1>. QED  BY <1>1, <1>4, <1>5 DEF Agreement, Users

LEMMA SameHandles == ASSUME UNCHANGED handle PROVE FreshOnly
BY DEF FreshOnly

\* attach_handle() sends, or fails at once.
LEMMA InvSendAttach ==
    ASSUME TypeOK, Agreement, UNCHANGED <<registry, sess, handle>>,
           NEW c \in Client, NEW s \in Session, SendAttach(c, s, sess[s]),
           client[c].pc \notin {"connect", "info", "create"}, sess[s].state = "active"
    PROVE  Agreement'
<1>1. CanSend(sess[s]) => registry = s
  BY DEF CanSend, Agreement, Connections
<1>. QED  BY <1>1, SameHandles, MoveClient DEF SendAttach, Wait, Idle

LEMMA InvGetSession ==
    ASSUME TypeOK, Agreement, NEW c \in Client, GetSession(c)
    PROVE  Agreement'
<1>1. CASE registry = None
  <2>1. PICK n \in Session :
          /\ FreeSession(n)
          /\ registry' = n
          /\ sess' = [sess EXCEPT ![n] = [Unborn EXCEPT !.state = "creating"]]
          /\ handle' = [h \in Handle |-> IF handle[h].sess = n THEN NoHandle ELSE handle[h]]
          /\ Goto(c, Wait("connect", n))
    BY <1>1 DEF GetSession
  <2>2. /\ sess'[n] = [Unborn EXCEPT !.state = "creating"]
        /\ \A t \in Session : t # n => sess'[t] = sess[t]
    BY <2>1 DEF TypeOK
  <2>3. /\ client'[c] = Wait("connect", n) /\ client[c].pc = "idle"
        /\ \A d \in Client : d # c => client'[d] = client[d]
    BY <2>1 DEF Goto, TypeOK, GetSession, At
  <2>4. \A d \in Client : client[d].sess # n
    BY <2>1 DEF FreeSession
  <2>5. /\ \A t \in Session : /\ Initing(c, t)' <=> t = n
                               /\ ~Using(c, t)' /\ ~Initing(c, t)
        /\ \A d \in Client, t \in Session : d # c => /\ Initing(d, t)' <=> Initing(d, t)
                                                     /\ Using(d, t)' <=> Using(d, t)
    BY <2>3 DEF Initing, Using, Wait
  <2>6. Connections'
    BY <1>1, <2>1, <2>2 DEF Agreement, Connections, Unborn
  <2>7. ASSUME NEW d \in Client, NEW t \in Session PROVE Creator(d, t)'
    <3>1. CASE t = n
      BY <2>2, <2>3, <2>4, <2>5, <3>1 DEF Creator, Initing, Using, Unborn, Wait
    <3>2. CASE t # n
      <4>1. Creator(d, t)
        BY DEF Agreement, Creators
      <4>2. CASE d = c
        BY <2>3, <3>2, <4>2 DEF Creator, Initing, Wait
      <4>3. CASE d # c
        BY <2>2, <2>3, <3>2, <4>1, <4>3 DEF Creator, Initing, Using, Wait
      <4>. QED  BY <4>2, <4>3
    <3>. QED  BY <3>1, <3>2
  <2>8. ASSUME NEW t \in Session, sess'[t].state = "creating" PROVE \E d \in Client : Initing(d, t)'
    <3>1. CASE t = n
      BY <2>3, <3>1 DEF Initing, Wait
    <3>2. CASE t # n
      <4>1. PICK d \in Client : Initing(d, t)
        BY <2>2, <2>8, <3>2 DEF Agreement, Creators
      <4>. QED  BY <2>3, <4>1 DEF Initing
    <3>. QED  BY <3>1, <3>2
  <2>9. \A h \in Handle : handle'[h] = handle[h] \/ (handle[h].sess = n /\ FreeHandle(h) /\ handle'[h] = NoHandle)
    BY <2>1 DEF FreeSession
  <2>10. ASSUME NEW d \in Client PROVE User(d)'
    <3>1. User(d)
      BY DEF Agreement, Users
    <3>2. CASE d = c
      <4>1. client'[d].pc = "connect" /\ client'[d].got = None
        BY <2>3, <3>2 DEF Wait
      <4>. QED  BY <3>2, <4>1 DEF User, Using
    <3>3. CASE d # c
      <4>1. client[d].got # None => client[d].got \in Handle /\ handle'[client[d].got] = handle[client[d].got]
        BY <2>9 DEF TypeOK, ClientRec, FreeHandle
      <4>2. client'[d].got # None => Using(d, handle[client[d].got].sess)'
        BY <2>3, <3>1, <3>3, <4>1 DEF User, Using
      <4>3. \A t \in Session : Using(d, t)' => t # n
        BY <2>4, <2>5, <3>3 DEF Using
      <4>4. \A e \in Client : client'[e].got = client[e].got \/ client'[e].got = None
        BY <2>3 DEF Wait
      <4>. QED  BY <1>1, <2>2, <2>3, <2>5, <3>1, <3>3, <4>1, <4>2, <4>3, <4>4 DEF User
    <3>. QED  BY <3>2, <3>3
  <2>11. Handles'
    <3>1. \A h \in Handle : /\ handle'[h].obj = "live" <=> handle[h].obj = "live"
                            /\ handle[h].obj = "live" => handle'[h] = handle[h] /\ handle[h].sess # n
      BY <2>1, <2>9 DEF FreeHandle, NoHandle, FreeSession
    <3>2. ASSUME NEW t \in Session
          PROVE  sess'[t].handles = {h \in Handle : handle'[h].sess = t /\ handle'[h].obj = "live"}
      <4>1. sess[t].handles = {h \in Handle : handle[h].sess = t /\ handle[h].obj = "live"}
        BY DEF Agreement, Handles, RoutesToLive
      <4>2. CASE t # n
        BY <2>2, <3>1, <4>1, <4>2
      <4>3. CASE t = n
        BY <2>2, <3>1, <4>3 DEF Unborn
      <4>. QED  BY <4>2, <4>3
    <3>3. \A t \in Session : sess'[t].handles # {} => sess'[t].state = "active" /\ registry' = t
      BY <1>1, <2>2 DEF Agreement, Handles, Unborn
    <3>. QED  BY <3>1, <3>2, <3>3 DEF Agreement, Handles, RoutesToLive
  <2>. QED  BY <2>6, <2>7, <2>8, <2>10, <2>11 DEF Agreement, Creators, Users
<1>2. CASE registry # None
  <2>1. registry \in Session /\ client[c].pc = "idle" /\ UNCHANGED <<registry, sess, handle>>
    BY <1>2 DEF GetSession, At, TypeOK
  <2>2. CASE Goto(c, Wait("await", registry))
    BY <2>1, <2>2, SameHandles, MoveClient DEF Wait
  <2>3. CASE sess[registry].state = "active" /\ SendAttach(c, registry, sess[registry])
    BY <2>1, <2>3, InvSendAttach
  <2>. QED  BY <1>2, <2>1, <2>2, <2>3 DEF GetSession
<1>. QED  BY <1>1, <1>2

\* A greenlet goes on inside init(): its session gets the record d, still
\* creating and connected, or the session has ended and stays as it is.
LEMMA InvInitGoesOn ==
    ASSUME TypeOK, Agreement, NEW c \in Client, NEW s \in Session, Initing(c, s),
           NEW d \in SessionRec, sess' = [sess EXCEPT ![s] = d],
           NEW p \in {"info", "create"}, Goto(c, Wait(p, s)), UNCHANGED <<registry, handle>>,
           d.state = sess[s].state, d.handles = sess[s].handles, d.closing = "no",
           d.timer = sess[s].timer, d.keepalive = sess[s].keepalive,
           \/ d.state = "destroyed" /\ d = sess[s]
           \/ d.state = "creating" /\ d.link = "up" /\ d.ws
    PROVE  Agreement'
<1>1. sess'[s] = d /\ \A t \in Session : t # s => sess'[t] = sess[t]
  BY DEF TypeOK
<1>2. /\ client'[c].pc = p /\ client'[c].sess = s /\ client'[c].got = None /\ Initing(c, s)
      /\ \A e \in Client : e # c => client'[e] = client[e]
  BY DEF Goto, TypeOK, Wait
<1>3. Connections'
  BY <1>1 DEF Agreement, Connections
<1>4. \A e \in Client, t \in Session : Creator(e, t)
  BY DEF Agreement, Creators
<1>5. ASSUME NEW e \in Client, NEW t \in Session PROVE Creator(e, t)'
  BY <1>1, <1>2, <1>4 DEF Creator, Initing, Using
<1>6. ASSUME NEW t \in Session, sess'[t].state = "creating" PROVE \E e \in Client : Initing(e, t)'
  <2>1. sess[t].state = "creating"
    BY <1>1, <1>6
  <2>2. PICK e \in Client : Initing(e, t)
    BY <2>1 DEF Agreement, Creators
  <2>. QED  BY <1>2, <2>2 DEF Initing
<1>7. ASSUME NEW e \in Client PROVE User(e)'
  <2>1. User(e)
    BY DEF Agreement, Users
  <2>. QED  BY <1>1, <1>2, <2>1 DEF User, Using
<1>8. Handles'
  <2>1. \A t \in Session : sess'[t].handles = sess[t].handles /\ sess'[t].state = sess[t].state
    BY <1>1
  <2>. QED  BY <2>1 DEF Agreement, Handles, RoutesToLive
<1>. QED  BY <1>3, <1>5, <1>6, <1>7, <1>8 DEF Agreement, Creators, Users

LEMMA InvInitFails ==
    ASSUME ~ListenersBlock, TypeOK, Agreement, NEW c \in Client, InitFails(c),
           client[c].sess \in Session, Initing(c, client[c].sess)
    PROVE  Agreement'
<1>. DEFINE s == client[c].sess
            r == [sess[s] EXCEPT !.state = "creating", !.ws = FALSE,
                                 !.link = IF @ = "up" THEN "down" ELSE @]
<1>1. sess[s] \in SessionRec
  BY DEF TypeOK
<1>2. /\ r \in SessionRec /\ r.state = "creating" /\ r.handles = sess[s].handles
      /\ r.keepalive = sess[s].keepalive
  BY <1>1 DEF SessionRec, States
<1>3. sess[s].keepalive = "off"
  BY DEF Agreement, Creators, Creator
<1>4. Destroy(s, r, "other") /\ Goto(c, Idle)
  BY DEF InitFails
<1>. DEFINE d == Dead(r)
<1>. HIDE DEF r
<1>5. /\ d \in SessionRec /\ d.state = "destroyed" /\ ~d.ws /\ ~d.timer /\ d.link # "up"
      /\ d.handles = {} /\ d.closing = "no" /\ d.keepalive = "off"
  BY <1>2, <1>3, DeadRecord
<1>6. sess' = [sess EXCEPT ![s] = d] /\ DropRegistry(s) /\ handle' = Closed(sess[s].handles, {s})
  BY <1>2, <1>4, DestroyEffect
<1>. HIDE DEF d, s
<1>. QED  BY <1>4, <1>5, <1>6, EndSession DEF s

LEMMA InvCreateAnswered ==
    ASSUME TypeOK, Agreement, NEW c \in Client, CreateAnswered(c), client[c].sess \in Session
    PROVE  Agreement'
<1>. DEFINE s == client[c].sess
            r == [sess[s] EXCEPT !.state = "active", !.keepalive = "sleep"]
<1>0. sess[s] \in SessionRec
  BY DEF TypeOK
<1>1. /\ r.state = "active" /\ r.keepalive = "sleep" /\ r.link = sess[s].link /\ r.ws = sess[s].ws
      /\ r.handles = sess[s].handles /\ r.closing = sess[s].closing /\ r.timer = sess[s].timer
  BY <1>0 DEF SessionRec
<1>2. sess' = [sess EXCEPT ![s] = r] /\ SendAttach(c, s, r) /\ UNCHANGED <<registry, handle>>
  BY DEF CreateAnswered
<1>3. Initing(c, s) /\ client[c].pc = "create"
  BY DEF CreateAnswered, At, Initing
<1>4. /\ sess[s].state = "creating" => registry = s /\ sess[s].link = "up" /\ sess[s].ws
      /\ sess[s].state # "creating" => registry # s /\ sess[s].link # "up" /\ ~sess[s].ws
      /\ sess[s].state \in {"creating", "destroyed"}
      /\ sess[s].handles = {} /\ ~sess[s].timer /\ sess[s].closing = "no"
  BY <1>3 DEF Agreement, Connections, Creators, Creator, Handles
<1>5. \A e \in Client : e # c => ~Initing(e, s) /\ ~Using(e, s)
  BY <1>3 DEF Agreement, Creators, Creator
<1>. HIDE DEF r
<1>6. sess'[s] = r /\ \A t \in Session : t # s => sess'[t] = sess[t]
  BY <1>2 DEF TypeOK
<1>7. /\ client'[c].pc \in {"attach", "idle"} /\ client'[c].got = None /\ client'[c].resp = "none"
      /\ client'[c].pc = "attach" => client'[c].sess = s /\ registry = s
      /\ \A e \in Client : e # c => client'[e] = client[e]
  BY <1>1, <1>2, <1>4 DEF SendAttach, CanSend, Goto, Wait, Idle, TypeOK
<1>. HIDE DEF s
<1>8. Connections'
  BY <1>1, <1>2, <1>4, <1>6 DEF Agreement, Connections
<1>9. ASSUME NEW e \in Client, NEW t \in Session PROVE Creator(e, t)'
  <2>1. Creator(e, t)
    BY DEF Agreement, Creators
  <2>2. CASE e = c \/ t = s
    BY <1>5, <1>7, <2>2 DEF Creator, Initing
  <2>3. CASE e # c /\ t # s
    BY <1>6, <1>7, <2>1, <2>3 DEF Creator, Initing, Using
  <2>. QED  BY <2>2, <2>3
<1>10. ASSUME NEW t \in Session, sess'[t].state = "creating" PROVE \E e \in Client : Initing(e, t)'
  <2>1. t # s /\ sess[t].state = "creating"
    BY <1>1, <1>6, <1>10
  <2>2. PICK e \in Client : Initing(e, t)
    BY <2>1 DEF Agreement, Creators
  <2>3. e # c
    BY <1>3, <2>1, <2>2 DEF Initing
  <2>. QED  BY <1>7, <2>2, <2>3 DEF Initing
<1>11. ASSUME NEW e \in Client PROVE User(e)'
  <2>1. User(e)
    BY DEF Agreement, Users
  <2>2. CASE e = c
    BY <1>1, <1>2, <1>6, <1>7, <2>2 DEF User, Using
  <2>3. CASE e # c
    BY <1>1, <1>2, <1>5, <1>6, <1>7, <2>1, <2>3 DEF User, Using
  <2>. QED  BY <2>2, <2>3
<1>12. Handles'
  <2>1. \A t \in Session : sess'[t].handles = sess[t].handles
    BY <1>1, <1>6
  <2>. QED  BY <1>2, <1>4, <1>6, <2>1 DEF Agreement, Handles, RoutesToLive
<1>. QED  BY <1>8, <1>9, <1>10, <1>11, <1>12 DEF Agreement, Creators, Users

\* A client that is in no init() changes its own record only a little: it
\* stays with its session, and with the handle it has.
LEMMA KeepClient ==
    ASSUME TypeOK, Agreement, NEW c \in Client, NEW r, client' = [client EXCEPT ![c] = r],
           UNCHANGED <<registry, sess, handle>>,
           r.sess = client[c].sess, r.got = client[c].got,
           \/ r.pc = client[c].pc /\ r.got = None /\ r.resp # "ok"
           \/ r.pc = client[c].pc /\ r.pc # "attach"
           \/ r.pc \in {"hold", "request"} /\ client[c].pc \in {"hold", "request"}
    PROVE  Agreement'
<1>1. client'[c] = r /\ \A e \in Client : e # c => client'[e] = client[e]
  BY DEF TypeOK
<1>2. \A e \in Client : /\ client'[e].sess = client[e].sess /\ client'[e].got = client[e].got
                        /\ client'[e].pc = client[e].pc \/ {client[e].pc, client'[e].pc} \subseteq {"hold", "request"}
  BY <1>1
<1>3. Connections' /\ Handles'
  BY DEF Agreement, Connections, Handles, RoutesToLive
<1>4. ASSUME NEW e \in Client, NEW t \in Session PROVE Creator(e, t)'
  <2>1. Creator(e, t)
    BY DEF Agreement, Creators
  <2>. QED  BY <1>2, <2>1 DEF Creator, Initing, Using
<1>5. ASSUME NEW t \in Session, sess'[t].state = "creating" PROVE \E e \in Client : Initing(e, t)'
  <2>1. PICK e \in Client : Initing(e, t)
    BY <1>5 DEF Agreement, Creators
  <2>. QED  BY <1>2, <2>1 DEF Initing
<1>6. ASSUME NEW e \in Client PROVE User(e)'
  <2>1. User(e)
    BY DEF Agreement, Users
  <2>. QED  BY <1>1, <1>2, <2>1 DEF User, Using
<1>. QED  BY <1>3, <1>4, <1>5, <1>6 DEF Agreement, Creators, Users

\* The answer to 'attach' gives the client a handle nothing refers to.
LEMMA InvAttachAnswer ==
    ASSUME TypeOK, Agreement, NEW c \in Client, NEW h \in Handle, client[c].pc = "attach",
           client[c].sess \in Session, FreeHandle(h),
           handle' = [handle EXCEPT ![h] = [sess |-> client[c].sess, obj |-> "none", janus |-> TRUE, late |-> FALSE]],
           client' = [client EXCEPT ![c].resp = "ok", ![c].got = h],
           UNCHANGED <<registry, sess>>
    PROVE  Agreement'
<1>1. handle'[h].sess = client[c].sess /\ handle'[h].obj = "none" /\ \A g \in Handle : g # h => handle'[g] = handle[g]
  BY DEF TypeOK
<1>2. /\ client'[c].pc = "attach" /\ client'[c].sess = client[c].sess
      /\ client'[c].got = h /\ client'[c].resp = "ok"
      /\ \A e \in Client : e # c => client'[e] = client[e]
  BY DEF TypeOK, ClientRec
<1>a. \A e \in Client : client'[e].pc = client[e].pc /\ client'[e].sess = client[e].sess
  BY <1>2
<1>3. Connections' /\ Handles'
  BY <1>1, FreshHandles DEF FreshOnly
<1>4. ASSUME NEW e \in Client, NEW t \in Session PROVE Creator(e, t)'
  <2>1. Creator(e, t)
    BY DEF Agreement, Creators
  <2>. QED  BY <1>a, <2>1 DEF Creator, Initing, Using
<1>5. ASSUME NEW t \in Session, sess'[t].state = "creating" PROVE \E e \in Client : Initing(e, t)'
  <2>1. PICK e \in Client : Initing(e, t)
    BY <1>5 DEF Agreement, Creators
  <2>. QED  BY <1>a, <2>1 DEF Initing
<1>6. ASSUME NEW e \in Client PROVE User(e)'
  <2>1. User(e) /\ \A d \in Client : client[d].got # h
    BY DEF Agreement, Users, FreeHandle
  <2>2. CASE e = c
    <3>1. \A s \in Session : Using(c, s)' =>
             sess'[s].state = "destroyed" \/ (sess'[s].state = "active" /\ registry' = s)
      BY <1>2, <2>1, <2>2 DEF User, Using
    <3>2. Using(c, handle[client[c].got].sess)'
      BY <1>1, <1>2 DEF Using
    <3>3. User(c)'
      BY <1>1, <1>2, <2>1, <3>1, <3>2 DEF User
    <3>. QED  BY <2>2, <3>3 DEF User, Using
  <2>3. CASE e # c
    <3>1. client[e].got # None => client[e].got \in Handle /\ handle'[client[e].got] = handle[client[e].got]
      BY <1>1, <2>1 DEF TypeOK, ClientRec
    <3>. QED  BY <1>2, <2>1, <2>3, <3>1 DEF User, Using
  <2>. QED  BY <2>2, <2>3
<1>. QED  BY <1>3, <1>4, <1>5, <1>6 DEF Agreement, Creators, Users

\* A handle of a usable session becomes live and goes into its table.
LEMMA InvAttached ==
    ASSUME TypeOK, Agreement, NEW c \in Client, NEW s \in Session, NEW h \in Handle,
           Using(c, s), client[c].pc = "attach", client[c].got = h,
           sess[s].state # "destroyed", client[c].resp = "ok",
           handle' = [handle EXCEPT ![h].obj = "live"],
           sess' = [sess EXCEPT ![s] = Attached(@, h)],
           Goto(c, [Wait("hold", s) EXCEPT !.got = h]), UNCHANGED registry
    PROVE  Agreement'
<1>0. sess[s] \in SessionRec /\ h # None
  BY DEF TypeOK
<1>1. User(c)
  BY DEF Agreement, Users
<1>2. sess[s].state = "active" /\ registry = s /\ handle[h].sess = s /\ handle[h].obj = "none"
  BY <1>0, <1>1 DEF User, Using
<1>3. /\ \A t \in Session : t # s => sess'[t] = sess[t]
      /\ sess'[s].state = "active" /\ sess'[s].link = sess[s].link /\ sess'[s].ws = sess[s].ws
      /\ sess'[s].closing = sess[s].closing /\ sess'[s].keepalive = sess[s].keepalive
      /\ sess'[s].timer = FALSE /\ sess'[s].handles = sess[s].handles \cup {h}
  BY <1>0, <1>2 DEF Attached, TypeOK, SessionRec
<1>4. /\ client'[c].pc = "hold" /\ client'[c].sess = s /\ client'[c].got = h
      /\ \A e \in Client : e # c => client'[e] = client[e]
  BY DEF Goto, Wait, TypeOK
<1>5. /\ handle'[h].sess = s /\ handle'[h].obj = "live"
      /\ \A g \in Handle : g # h => handle'[g] = handle[g]
  BY <1>2 DEF TypeOK, HandleRec
<1>6. Connections'
  BY <1>2, <1>3 DEF Agreement, Connections
<1>7. ASSUME NEW e \in Client, NEW t \in Session PROVE Creator(e, t)'
  <2>1. Creator(e, t)
    BY DEF Agreement, Creators
  <2>. QED  BY <1>2, <1>3, <1>4, <2>1 DEF Creator, Initing, Using
<1>8. ASSUME NEW t \in Session, sess'[t].state = "creating" PROVE \E e \in Client : Initing(e, t)'
  <2>1. PICK e \in Client : Initing(e, t)
    BY <1>3, <1>8 DEF Agreement, Creators
  <2>. QED  BY <1>4, <2>1 DEF Initing
<1>9. ASSUME NEW e \in Client PROVE User(e)'
  <2>1. User(e) /\ \A d \in Client : d # c => client[d].got # h
    BY <1>0, <1>1 DEF Agreement, Users, User
  <2>2. CASE e = c
    BY <1>2, <1>3, <1>4, <1>5, <2>1, <2>2 DEF User, Using
  <2>3. CASE e # c
    <3>1. client[e].got # None => client[e].got \in Handle /\ handle'[client[e].got] = handle[client[e].got]
      BY <1>5, <2>1, <2>3 DEF TypeOK, ClientRec
    <3>. QED  BY <1>2, <1>3, <1>4, <2>1, <2>3, <3>1 DEF User, Using
  <2>. QED  BY <2>2, <2>3
<1>10. Handles'
  <2>1. ASSUME NEW t \in Session
        PROVE  sess'[t].handles = {g \in Handle : handle'[g].sess = t /\ handle'[g].obj = "live"}
    <3>1. sess[t].handles = {g \in Handle : handle[g].sess = t /\ handle[g].obj = "live"}
      BY DEF Agreement, Handles, RoutesToLive
    <3>2. CASE t = s
      BY <1>3, <1>5, <3>1, <3>2
    <3>3. CASE t # s
      BY <1>2, <1>3, <1>5, <3>1, <3>3
    <3>. QED  BY <3>2, <3>3
  <2>2. \A t \in Session : sess'[t].handles # {} => sess'[t].state = "active" /\ registry' = t
    BY <1>2, <1>3 DEF Agreement, Handles
  <2>3. \A g \in Handle : handle'[g].obj = "live" => handle'[g].sess \in Session
    BY <1>5 DEF Agreement, Handles
  <2>. QED  BY <2>1, <2>2, <2>3 DEF Handles, RoutesToLive
<1>. QED  BY <1>6, <1>7, <1>8, <1>9, <1>10 DEF Agreement, Creators, Users

\* A handle leaves the table of its session and is live no more.
LEMMA InvReleased ==
    ASSUME TypeOK, Agreement, NEW s \in Session, NEW h \in Handle,
           sess' = OnHandleDetached(s, h), handle[h].sess = s,
           handle'[h].sess = s, handle[h].obj = "none" => handle'[h].obj = "none", handle'[h].obj # "live",
           \A g \in Handle : g # h => handle'[g] = handle[g],
           UNCHANGED registry,
           \/ UNCHANGED client
           \/ \E c \in Client : client[c].pc = "hold" /\ Goto(c, Idle)
    PROVE  Agreement'
<1>1. /\ \A t \in Session : t # s => sess'[t] = sess[t]
      /\ sess'[s].state = sess[s].state /\ sess'[s].link = sess[s].link /\ sess'[s].ws = sess[s].ws
      /\ sess'[s].closing = sess[s].closing /\ sess'[s].keepalive = sess[s].keepalive
      /\ sess'[s].timer = sess[s].timer /\ sess'[s].handles = sess[s].handles \ {h}
  BY DEF OnHandleDetached, TypeOK, SessionRec
<1>2. \A e \in Client : client'[e] = client[e] \/ (client[e].pc = "hold" /\ client'[e].pc = "idle" /\ client'[e].got = None)
  BY DEF Goto, Idle, TypeOK
<1>3. Connections'
  BY <1>1 DEF Agreement, Connections
<1>4. ASSUME NEW e \in Client, NEW t \in Session PROVE Creator(e, t)'
  <2>1. Creator(e, t)
    BY DEF Agreement, Creators
  <2>. QED  BY <1>1, <1>2, <2>1 DEF Creator, Initing, Using
<1>5. ASSUME NEW t \in Session, sess'[t].state = "creating" PROVE \E e \in Client : Initing(e, t)'
  <2>1. PICK e \in Client : Initing(e, t)
    BY <1>1, <1>5 DEF Agreement, Creators
  <2>. QED  BY <1>2, <2>1 DEF Initing
<1>6. ASSUME NEW e \in Client PROVE User(e)'
  <2>1. User(e)
    BY DEF Agreement, Users
  <2>2. client[e].got # None => /\ client[e].got \in Handle
                                /\ handle'[client[e].got].sess = handle[client[e].got].sess
                                /\ handle[client[e].got].obj = "none" => handle'[client[e].got].obj = "none"
    BY DEF TypeOK, ClientRec
  <2>. QED  BY <1>1, <1>2, <2>1, <2>2 DEF User, Using
<1>7. Handles'
  <2>1. ASSUME NEW t \in Session
        PROVE  sess'[t].handles = {g \in Handle : handle'[g].sess = t /\ handle'[g].obj = "live"}
    <3>1. sess[t].handles = {g \in Handle : handle[g].sess = t /\ handle[g].obj = "live"}
      BY DEF Agreement, Handles, RoutesToLive
    <3>. QED  BY <1>1, <3>1
  <2>2. \A t \in Session : sess'[t].handles # {} => sess'[t].state = "active" /\ registry' = t
    BY <1>1 DEF Agreement, Handles
  <2>3. \A g \in Handle : handle'[g].obj = "live" => handle'[g].sess \in Session
    BY DEF Agreement, Handles
  <2>. QED  BY <2>1, <2>2, <2>3 DEF Handles, RoutesToLive
<1>. QED  BY <1>3, <1>4, <1>5, <1>6, <1>7 DEF Agreement, Creators, Users

LEMMA InvClient ==
    ASSUME ~ListenersBlock, TypeOK, Owned, Agreement, NEW c \in Client,
           \/ Progress(c) \/ GetSession(c) \/ Request(c) \/ Detach(c) \/ Answer(c)
    PROVE  Agreement'
<1>. DEFINE s == client[c].sess
<1>a. client[c].pc # "idle" => s \in Session /\ sess[s] \in SessionRec
  BY DEF Owned, TypeOK
<1>b. s \in Session /\ client[c].pc \in {"connect", "info", "create"}
      => /\ Initing(c, s) /\ sess[s].closing = "no" /\ Creator(c, s)
         /\ sess[s].state = "creating" => registry = s
         /\ sess[s].link = "up" => sess[s].ws
  BY DEF Initing, Agreement, Connections, Creators
<1>1. CASE GetSession(c)
  BY <1>1, InvGetSession
<1>2. CASE Awaited(c)
  <2>1. s \in Session /\ client[c].pc = "await" /\ UNCHANGED <<registry, sess, handle>>
    BY <1>2, <1>a DEF Awaited, At
  <2>2. CASE sess[s].state = "active" /\ SendAttach(c, s, sess[s])
    BY <2>1, <2>2, InvSendAttach
  <2>3. CASE Goto(c, Idle)
    BY <2>1, <2>3, SameHandles, MoveClient DEF Idle
  <2>. QED  BY <1>2, <2>2, <2>3 DEF Awaited
<1>3. CASE Connected(c)
  <2>. DEFINE d == [sess[s] EXCEPT !.ws = TRUE, !.link = "up"]
  <2>1. client[c].pc = "connect" /\ s \in Session /\ Initing(c, s) /\ sess[s].state = "creating"
    BY <1>3, <1>a, <1>b DEF Connected, At, Creator
  <2>2. /\ d \in SessionRec /\ d.state = "creating" /\ d.link = "up" /\ d.ws
        /\ d.handles = sess[s].handles /\ d.closing = "no" /\ d.timer = sess[s].timer
        /\ d.keepalive = sess[s].keepalive
    BY <1>a, <1>b, <2>1 DEF SessionRec
  <2>3. sess' = [sess EXCEPT ![s] = d] /\ Goto(c, Wait("info", s)) /\ UNCHANGED <<registry, handle>>
    <3>1. sess' = [sess EXCEPT ![s].ws = TRUE, ![s].link = "up"]
      BY <1>3 DEF Connected
    <3>2. sess' = [sess EXCEPT ![s] = d]
      BY <2>1, <3>1 DEF TypeOK
    <3>. QED  BY <1>3, <3>2 DEF Connected
  <2>. HIDE DEF d, s
  <2>. QED  BY <2>1, <2>2, <2>3, InvInitGoesOn
<1>4. CASE ConnectFails(c) \/ InitRequestFails(c)
  BY <1>4, <1>a, <1>b, InvInitFails DEF ConnectFails, InitRequestFails, At
<1>5. CASE InfoAnswered(c)
  <2>1. client[c].pc = "info" /\ s \in Session /\ Initing(c, s)
    BY <1>5, <1>a, <1>b DEF InfoAnswered, At
  <2>2. CASE CanSend(sess[s]) /\ Goto(c, Wait("create", s)) /\ UNCHANGED <<registry, sess, handle>>
    <3>1. sess[s].state = "creating" /\ sess[s].link = "up" /\ sess[s].ws /\ sess[s].closing = "no"
      BY <1>b, <2>1, <2>2 DEF CanSend, Creator
    <3>2. sess' = [sess EXCEPT ![s] = sess[s]]
      BY <2>2 DEF TypeOK
    <3>. HIDE DEF s
    <3>. QED  BY <1>a, <2>1, <2>2, <3>1, <3>2, InvInitGoesOn
  <2>3. CASE InitFails(c)
    BY <2>1, <2>3, InvInitFails
  <2>. QED  BY <1>5, <2>2, <2>3 DEF InfoAnswered
<1>6. CASE CreateAnswered(c)
  BY <1>6, <1>a, InvCreateAnswered DEF CreateAnswered, At
<1>7. CASE AttachAnswered(c)
  <2>. DEFINE h == client[c].got
  <2>1. client[c].pc = "attach" /\ client[c].resp = "ok" /\ s \in Session /\ h \in Handle /\ Using(c, s)
    BY <1>7, <1>a DEF AttachAnswered, At, Owned, Using
  <2>2. CASE Goto(c, Idle) /\ UNCHANGED <<registry, sess, handle>>
    BY <2>1, <2>2, SameHandles, MoveClient DEF Idle
  <2>3. CASE sess[s].state # "destroyed"
    <3>1. /\ handle' = [handle EXCEPT ![h].obj = "live"] /\ sess' = [sess EXCEPT ![s] = Attached(@, h)]
          /\ Goto(c, [Wait("hold", s) EXCEPT !.got = h]) /\ UNCHANGED registry
      BY <1>7, <2>3 DEF AttachAnswered, GoneMeanwhile
    <3>. HIDE DEF s
    <3>. QED  BY <2>1, <2>3, <3>1, InvAttached
  <2>. QED  BY <1>7, <2>2, <2>3 DEF AttachAnswered, GoneMeanwhile
<1>8. CASE AttachFails(c)
  <2>1. FreshOnly
    <3>1. ASSUME NEW h \in Handle, FreeHandle(h),
                 handle' = [handle EXCEPT ![h] = [sess |-> client[c].sess, obj |-> "none", janus |-> TRUE, late |-> TRUE]]
          PROVE  FreshOnly
      BY <3>1 DEF FreshOnly, TypeOK
    <3>. QED  BY <1>8, <3>1, SameHandles DEF AttachFails
  <2>. QED  BY <1>8, <2>1, MoveClient DEF AttachFails, At, Idle
<1>9. CASE Request(c) \/ RequestEnds(c)
  <2>1. PICK p \in {"hold", "request"} : client' = [client EXCEPT ![c] = [client[c] EXCEPT !.pc = p, !.resp = "none"]]
    BY <1>9 DEF Request, RequestEnds, TypeOK
  <2>2. client[c] \in ClientRec
    BY DEF TypeOK
  <2>. DEFINE r == [client[c] EXCEPT !.pc = p, !.resp = "none"]
  <2>3. r.pc = p /\ r.sess = client[c].sess /\ r.got = client[c].got
    BY <2>2 DEF ClientRec
  <2>4. client[c].pc \in {"hold", "request"} /\ UNCHANGED <<registry, sess, handle>>
    BY <1>9 DEF Request, RequestEnds, At
  <2>. HIDE DEF r
  <2>. QED  BY <2>1, <2>3, <2>4, KeepClient DEF r
<1>10. CASE Detach(c)
  <2>. DEFINE h == client[c].got
  <2>1. client[c].pc = "hold" /\ s \in Session /\ h \in Handle /\ Goto(c, Idle) /\ UNCHANGED registry
    BY <1>10, <1>a DEF Detach, At, Owned
  <2>2. CASE UNCHANGED <<sess, handle>>
    BY <2>1, <2>2, SameHandles, MoveClient DEF Idle
  <2>3. CASE /\ ~HasDetach(h) /\ sess' = OnHandleDetached(s, h)
             /\ handle' = [handle EXCEPT ![h].obj = "detached", ![h].janus = @ /\ DetachUnsent(s)]
    <3>1. User(c) /\ h # None
      BY <2>1 DEF Agreement, Users
    <3>2. handle[h].sess = s
      BY <2>1, <3>1 DEF User, Using
    <3>3. /\ handle'[h].sess = s /\ handle'[h].obj = "detached" /\ handle[h].obj = "live"
          /\ \A g \in Handle : g # h => handle'[g] = handle[g]
      BY <2>1, <2>3, <3>2 DEF TypeOK, HandleRec, HasDetach
    <3>. HIDE DEF s, h
    <3>. QED  BY <2>1, <2>3, <3>2, <3>3, InvReleased
  <2>. QED  BY <1>10, <2>2, <2>3 DEF Detach
<1>11. CASE Answer(c)
  <2>1. client[c].pc \in {"info", "create", "attach", "request"} /\ s \in Session /\ client[c].resp = "none"
    BY <1>11, <1>a DEF Answer
  <2>2. client[c].pc = "attach" => client[c].got = None
    BY <2>1 DEF Agreement, Users, User
  <2>3. ASSUME NEW a \in {"error", "ok"}, client' = [client EXCEPT ![c].resp = a], UNCHANGED <<registry, sess, handle>>,
               a = "ok" => client[c].pc # "attach"
        PROVE  Agreement'
    <3>1. client[c] \in ClientRec
      BY DEF TypeOK
    <3>. DEFINE r == [client[c] EXCEPT !.resp = a]
    <3>2. r.pc = client[c].pc /\ r.sess = client[c].sess /\ r.got = client[c].got /\ r.resp = a
      BY <3>1 DEF ClientRec
    <3>3. client' = [client EXCEPT ![c] = r]
      BY <2>3
    <3>. HIDE DEF r
    <3>4. r.pc = client[c].pc /\ (r.pc # "attach" \/ (r.got = None /\ r.resp # "ok"))
      BY <2>2, <2>3, <3>2
    <3>. QED  BY <2>3, <3>2, <3>3, <3>4, KeepClient
  <2>4. ASSUME NEW h \in Handle, FreeHandle(h), client[c].pc = "attach", UNCHANGED <<registry, sess>>,
               handle' = [handle EXCEPT ![h] = [sess |-> client[c].sess, obj |-> "none", janus |-> TRUE, late |-> FALSE]],
               client' = [client EXCEPT ![c].resp = "ok", ![c].got = h]
        PROVE  Agreement'
    BY <2>1, <2>4, InvAttachAnswer
  <2>. HIDE DEF s
  <2>5. CASE client' = [client EXCEPT ![c].resp = "error"] /\ UNCHANGED handle
    BY <1>11, <2>3, <2>5 DEF Answer
  <2>6. CASE ~At(c, "attach") /\ client' = [client EXCEPT ![c].resp = "ok"] /\ UNCHANGED handle
    BY <1>11, <2>3, <2>6 DEF Answer, At
  <2>7. CASE At(c, "attach") /\ \E h \in Handle :
               /\ FreeHandle(h)
               /\ handle' = [handle EXCEPT ![h] =
                    [sess |-> client[c].sess, obj |-> "none", janus |-> TRUE, late |-> FALSE]]
               /\ client' = [client EXCEPT ![c].resp = "ok", ![c].got = h]
    <3>1. client[c].pc = "attach" /\ UNCHANGED <<registry, sess>>
      BY <1>11, <2>7 DEF Answer, At
    <3>. QED  BY <2>4, <2>7, <3>1
  <2>. QED  BY <1>11, <2>5, <2>6, <2>7 DEF Answer
<1>. QED  BY <1>1, <1>2, <1>3, <1>4, <1>5, <1>6, <1>7, <1>8, <1>9, <1>10, <1>11 DEF Progress

LEMMA InvHandle ==
    ASSUME TypeOK, Owned, Agreement, NEW h \in Handle, JanusDetaches(h)
    PROVE  Agreement'
<1>1. handle[h].sess \in Session /\ handle[h] \in HandleRec
  BY DEF JanusDetaches, Owned, TypeOK
<1>2. h \in sess[handle[h].sess].handles <=> handle[h].obj = "live"
  BY <1>1 DEF Agreement, Handles, RoutesToLive
<1>3. /\ handle'[h].sess = handle[h].sess
      /\ handle'[h].obj = IF handle[h].obj = "live" THEN "closed" ELSE handle[h].obj
      /\ \A g \in Handle : g # h => handle'[g] = handle[g]
  <2>. DEFINE o == IF handle[h].obj = "live" THEN "closed" ELSE handle[h].obj
  <2>1. handle' = [handle EXCEPT ![h].janus = FALSE, ![h].obj = o]
    BY <1>2 DEF JanusDetaches
  <2>. HIDE DEF o
  <2>2. handle'[h].sess = handle[h].sess /\ handle'[h].obj = o /\ \A g \in Handle : g # h => handle'[g] = handle[g]
    BY <1>1, <2>1 DEF TypeOK, HandleRec
  <2>. QED  BY <2>2 DEF o
<1>4. sess' = OnHandleDetached(handle[h].sess, h) /\ UNCHANGED <<registry, client>>
  BY DEF JanusDetaches
<1>5. handle'[h].obj # "live" /\ (handle[h].obj = "none" => handle'[h].obj = "none")
  BY <1>3
<1>. QED  BY <1>1, <1>3, <1>4, <1>5, InvReleased

-----------------------------------------------------------------------------
LEMMA InvStep ==
    ASSUME ~ListenersBlock, TypeOK, Owned, Agreement, [Next]_vars
    PROVE  Agreement'
<1>1. CASE UNCHANGED vars
  BY <1>1 DEF vars, Agreement, Connections, Creators, Creator, Users, User, Handles, RoutesToLive, Initing, Using
<1>. QED  BY <1>1, InvClient, InvSession, InvHandle DEF Next

(* The registry, the greenlets inside init(), the clients and the tables of *)
(* the sessions always agree when no listener waits in on_close().          *)
THEOREM Agreed == ASSUME ~ListenersBlock PROVE Spec => []IInv
<1>1. Init => IInv
  BY TypeInit, InvInit DEF IInv, Agreement
<1>2. IInv /\ [Next]_vars => IInv'
  BY TypeStep, InvStep DEF IInv, Agreement
<1>. QED  BY <1>1, <1>2, PTL DEF Spec

(* However connections are lost, sessions time out and greenlets meet, the  *)
(* proxy has at most one connection to a Janus server open, and it is that  *)
(* of the registered session.                                               *)
THEOREM OneConnectionHolds == ASSUME ~ListenersBlock PROVE Spec => []OneConnection
<1>1. IInv => OneConnection
  BY DEF IInv, Connections, OneConnection
<1>. QED  BY <1>1, Agreed, PTL

(* destroy() leaves no handle untold: a handle that is live for its user    *)
(* has a session that is not destroyed. Some listeners of the code do wait, *)
(* and with them this is not so: it says what the agreement of sessions and *)
(* handles comes to in their absence, and no more.                          *)
LEMMA LossReportedHolds == ASSUME ~ListenersBlock PROVE Spec => []LossReported
<1>1. IInv => LossReported
  <2>. SUFFICES ASSUME IInv, NEW h \in Handle, handle[h].obj = "live"
       PROVE  sess[handle[h].sess].state # "destroyed"
    BY DEF LossReported
  <2>. QED  BY DEF IInv, Handles, RoutesToLive
<1>. QED  BY <1>1, Agreed, PTL

(* get_backend_session() never finds a dead session.                        *)
THEOREM RegisteredIsAliveHolds == ASSUME ~ListenersBlock PROVE Spec => []RegisteredIsAlive
<1>1. IInv => RegisteredIsAlive
  BY DEF IInv, TypeOK, Connections, Creators, Initing, RegisteredIsAlive
<1>. QED  BY <1>1, Agreed, PTL

(* Events of the Janus server reach all live handles and no others.         *)
THEOREM RoutesToLiveHolds == ASSUME ~ListenersBlock PROVE Spec => []RoutesToLive
<1>1. IInv => RoutesToLive
  BY DEF IInv, Handles
<1>. QED  BY <1>1, Agreed, PTL

(* The promise of BackendContract: who holds a live handle has the session  *)
(* that is registered, active and connected.                                *)
THEOREM LiveIsUsableHolds == ASSUME ~ListenersBlock PROVE Spec => []LiveIsUsable
<1>1. IInv => LiveIsUsable
  <2>. SUFFICES ASSUME IInv, NEW h \in Handle, handle[h].obj = "live"
       PROVE  registry # None /\ Usable(registry) /\ handle[h].sess = registry
    BY DEF LiveIsUsable, C!LiveIsUsable, C!Live
  <2>1. handle[h].sess \in Session
    BY DEF IInv, Handles
  <2>2. h \in sess[handle[h].sess].handles
    BY <2>1 DEF IInv, Handles, RoutesToLive
  <2>3. registry = handle[h].sess /\ sess[registry].state = "active"
    BY <2>1, <2>2 DEF IInv, Handles
  <2>. QED  BY <2>1, <2>3 DEF IInv, Connections, Usable
<1>. QED  BY <1>1, Agreed, PTL

(* The auto-destroy timer never runs beside a handle, so it never ends a    *)
(* session in use: attach_handle() stops the one armed while it waited.     *)
THEOREM TimerOnlyWhenUnusedHolds == ASSUME ~ListenersBlock PROVE Spec => []TimerOnlyWhenUnused
<1>1. IInv => TimerOnlyWhenUnused
  BY DEF IInv, Connections, TimerOnlyWhenUnused
<1>. QED  BY <1>1, Agreed, PTL

(* Whoever asks for the session of a server gets the one there is, with the *)
(* only connection, and it is alive: the two facts above together.          *)
THEOREM RegistryIsSoundHolds == ASSUME ~ListenersBlock PROVE Spec => []RegistryIsSound
BY OneConnectionHolds, RegisteredIsAliveHolds, PTL DEF RegistryIsSound

(* A live handle has the usable session, gets its events, and no timer is   *)
(* going to end the session under it.                                       *)
THEOREM UsersAreServedHolds == ASSUME ~ListenersBlock PROVE Spec => []UsersAreServed
BY LiveIsUsableHolds, RoutesToLiveHolds, TimerOnlyWhenUnusedHolds, PTL DEF UsersAreServed
-----------------------------------------------------------------------------
(* What a step does to sessions and handles, as far as it can be seen from  *)
(* outside: nothing, or one session ends with the handles in its table.     *)
Quiet == /\ UNCHANGED <<registry, handle>>
         /\ \A t \in Session : /\ sess'[t].state = sess[t].state
                               /\ sess'[t].ws = sess[t].ws
                               /\ sess'[t].link = sess[t].link

Lost(s) == /\ DropRegistry(s)
           /\ \A t \in Session : t # s => sess'[t] = sess[t]
           /\ sess'[s].state = "destroyed" /\ ~sess'[s].ws /\ sess'[s].link # "up"
           /\ sess'[s].link = "none" <=> sess[s].link = "none"
           /\ handle' = Closed(sess[s].handles, {s})

LEMMA QuietRecord ==
    ASSUME TypeOK, NEW s \in Session, NEW r, sess' = [sess EXCEPT ![s] = r],
           r.state = sess[s].state, r.ws = sess[s].ws, r.link = sess[s].link,
           UNCHANGED <<registry, handle>>
    PROVE  Quiet
BY DEF TypeOK, Quiet

LEMMA DestroyLost ==
    ASSUME ~ListenersBlock, TypeOK, NEW s \in Session, NEW r \in SessionRec, NEW by,
           Destroy(s, r, by), r.state # "destroyed", r.handles = sess[s].handles,
           r.link = "none" <=> sess[s].link = "none"
    PROVE  Lost(s)
<1>1. /\ DropRegistry(s) /\ sess' = [sess EXCEPT ![s] = Dead(r)]
      /\ handle' = Closed(sess[s].handles, {s})
  BY DestroyEffect
<1>2. /\ Dead(r).state = "destroyed" /\ ~Dead(r).ws /\ Dead(r).link # "up"
      /\ Dead(r).link = "none" <=> r.link = "none"
  BY DEF Dead, SessionRec, States
<1>. QED  BY <1>1, <1>2 DEF Lost, TypeOK

LEMMA SessionSeen ==
    ASSUME ~ListenersBlock, IInv, NEW s \in Session,
           \/ Keepalive(s) \/ KeepaliveAnswered(s) \/ AutoDestroyFires(s)
           \/ DestroyGoesOn(s) \/ JanusTimeout(s) \/ ConnectionLost(s)
    PROVE  UNCHANGED client /\ (Quiet \/ Lost(s))
<1>0. sess[s] \in SessionRec /\ TypeOK
  BY DEF IInv, TypeOK
<1>a. /\ sess[s].closing = "no" /\ (sess[s].timer => sess[s].state = "active")
      /\ sess[s].link = "up" => sess[s].state # "destroyed"
  BY DEF IInv, Connections
<1>1. CASE KeepaliveSends(s)
  <2>1. CASE Destroy(s, [Armed(sess[s]) EXCEPT !.keepalive = "off"], "other")
    <3>. DEFINE r == [Armed(sess[s]) EXCEPT !.keepalive = "off"]
    <3>1. /\ r \in SessionRec /\ r.state = sess[s].state /\ r.handles = sess[s].handles
          /\ r.link = sess[s].link
      BY <1>0 DEF Armed, SessionRec
    <3>2. sess[s].state = "active" /\ UNCHANGED client
      BY <1>1 DEF KeepaliveSends
    <3>3. Destroy(s, r, "other")
      BY <2>1
    <3>. HIDE DEF r
    <3>. QED  BY <1>0, <3>1, <3>2, <3>3, DestroyLost
  <2>2. CASE sess' = [sess EXCEPT ![s] = [Armed(sess[s]) EXCEPT !.keepalive = "wait"]]
             /\ UNCHANGED <<registry, handle, client>>
    <3>. DEFINE r == [Armed(sess[s]) EXCEPT !.keepalive = "wait"]
    <3>1. r.state = sess[s].state /\ r.ws = sess[s].ws /\ r.link = sess[s].link
      BY <1>0 DEF Armed, SessionRec
    <3>2. sess' = [sess EXCEPT ![s] = r]
      BY <2>2
    <3>. HIDE DEF r
    <3>. QED  BY <1>0, <2>2, <3>1, <3>2, QuietRecord
  <2>. QED  BY <1>1, <2>1, <2>2 DEF KeepaliveSends
<1>2. ASSUME NEW k, sess' = [sess EXCEPT ![s].keepalive = k], UNCHANGED <<registry, handle>>
      PROVE  Quiet
  <2>. DEFINE r == [sess[s] EXCEPT !.keepalive = k]
  <2>1. r.state = sess[s].state /\ r.ws = sess[s].ws /\ r.link = sess[s].link
    BY <1>0 DEF SessionRec
  <2>2. sess' = [sess EXCEPT ![s] = r]
    BY <1>2
  <2>. HIDE DEF r
  <2>. QED  BY <1>0, <1>2, <2>1, <2>2, QuietRecord
<1>3. CASE KeepaliveStops(s) \/ KeepaliveSleeps(s) \/ KeepaliveAnswered(s)
  BY <1>2, <1>3 DEF KeepaliveStops, KeepaliveSleeps, KeepaliveAnswered
<1>4. CASE KeepaliveTimeout(s)
  <2>. DEFINE r == [sess[s] EXCEPT !.keepalive = "off"]
  <2>1. /\ r \in SessionRec /\ r.state = sess[s].state /\ r.handles = sess[s].handles
        /\ r.link = sess[s].link /\ r.ws = sess[s].ws
    BY <1>0 DEF SessionRec
  <2>2. Destroy(s, r, "other") /\ UNCHANGED client
    BY <1>4 DEF KeepaliveTimeout
  <2>. HIDE DEF r
  <2>3. CASE r.state = "destroyed"
    BY <1>0, <2>1, <2>2, <2>3, DestroyEffect, QuietRecord
  <2>. QED  BY <1>0, <2>1, <2>2, <2>3, DestroyLost
<1>5. CASE AutoDestroyFires(s)
  <2>. DEFINE r == [sess[s] EXCEPT !.timer = FALSE]
  <2>1. /\ r \in SessionRec /\ r.state = "active" /\ r.handles = sess[s].handles
        /\ r.link = sess[s].link
    BY <1>0, <1>5, <1>a DEF SessionRec, AutoDestroyFires
  <2>2. Destroy(s, r, "other") /\ UNCHANGED client
    BY <1>5 DEF AutoDestroyFires
  <2>. HIDE DEF r
  <2>. QED  BY <1>0, <2>1, <2>2, DestroyLost
<1>6. CASE JanusTimeout(s)
  BY <1>0, <1>6, DestroyLost DEF JanusTimeout
<1>7. CASE ConnectionLost(s)
  <2>. DEFINE r == [sess[s] EXCEPT !.ws = FALSE, !.link = "down"]
  <2>1. sess[s].link = "up"
    BY <1>7 DEF ConnectionLost, Receiving
  <2>2. /\ r \in SessionRec /\ r.state = sess[s].state /\ r.handles = sess[s].handles
        /\ r.link = "down"
    BY <1>0 DEF SessionRec
  <2>3. Destroy(s, r, "recv") /\ UNCHANGED client
    BY <1>7, <1>a, <2>1 DEF ConnectionLost
  <2>. HIDE DEF r
  <2>. QED  BY <1>0, <1>a, <2>1, <2>2, <2>3, DestroyLost
<1>8. CASE DestroyGoesOn(s)
  BY <1>8, <1>a DEF DestroyGoesOn
<1>. QED  BY <1>1, <1>3, <1>4, <1>5, <1>6, <1>7, <1>8 DEF Keepalive

LEMMA InitFailsSeen ==
    ASSUME ~ListenersBlock, IInv, NEW c \in Client, InitFails(c), client[c].sess \in Session
    PROVE  Lost(client[c].sess) /\ Goto(c, Idle)
<1>. DEFINE s == client[c].sess
            r == [sess[s] EXCEPT !.state = "creating", !.ws = FALSE,
                                 !.link = IF @ = "up" THEN "down" ELSE @]
<1>1. TypeOK /\ sess[s] \in SessionRec
  BY DEF IInv, TypeOK
<1>2. /\ r \in SessionRec /\ r.state = "creating" /\ r.handles = sess[s].handles
      /\ r.link = "none" <=> sess[s].link = "none"
  BY <1>1 DEF SessionRec, States
<1>3. Destroy(s, r, "other") /\ Goto(c, Idle)
  BY DEF InitFails
<1>. HIDE DEF r, s
<1>4. Lost(s)
  BY <1>1, <1>2, <1>3, DestroyLost DEF s
<1>. QED  BY <1>3, <1>4 DEF s
-----------------------------------------------------------------------------
(* The steps of the contract.                                               *)
Contracted == [C!ContractNext]_(C!contractVars)

Current == IF registry # None /\ Usable(registry) THEN registry ELSE None

LEMMA SameContract ==
    ASSUME Current' = Current,
           \A h \in Handle : /\ handle'[h].obj = handle[h].obj
                             /\ handle[h].obj = "live" => handle'[h].sess = handle[h].sess
    PROVE  Contracted
BY DEF Contracted, C!contractVars, Current

\* A handle that is not live is forgotten, or nothing happens.
LEMMA ForgetContract ==
    ASSUME Current' = Current,
           \A h \in Handle : \/ handle'[h] = handle[h]
                             \/ handle[h].obj # "live" /\ handle'[h].obj = "none"
    PROVE  Contracted
<1>. DEFINE H == {h \in Handle : handle[h].obj # "live" /\ handle'[h].obj = "none"}
<1>1. H \in SUBSET (Handle \ C!Live)
  BY DEF C!Live
<1>2. [h \in Handle |-> handle'[h].obj]
        = [h \in Handle |-> IF h \in H THEN "none" ELSE [g \in Handle |-> handle[g].obj][h]]
  OBVIOUS
<1>3. [h \in Handle |-> IF handle'[h].obj = "live" THEN handle'[h].sess ELSE None]
        = [h \in Handle |-> IF handle[h].obj = "live" THEN handle[h].sess ELSE None]
  OBVIOUS
<1>4. C!Forget
  BY <1>1, <1>2, <1>3 DEF C!Forget, Current
<1>. QED  BY <1>4 DEF Contracted, C!ContractNext

(* A live handle has the session that is usable.                            *)
LEMMA LiveHasCurrent ==
    ASSUME IInv, NEW h \in Handle, handle[h].obj = "live"
    PROVE  /\ registry \in Session /\ handle[h].sess = registry /\ Current = registry
           /\ h \in sess[registry].handles
<1>1. handle[h].sess \in Session
  BY DEF IInv, Handles
<1>2. h \in sess[handle[h].sess].handles
  BY <1>1 DEF IInv, Handles, RoutesToLive
<1>3. registry = handle[h].sess /\ sess[registry].state = "active"
  BY <1>1, <1>2 DEF IInv, Handles
<1>4. registry # None /\ sess[registry].ws
  BY <1>1, <1>3 DEF IInv, Connections
<1>. QED  BY <1>1, <1>2, <1>3, <1>4 DEF Usable, Current

LEMMA QuietContract == ASSUME IInv, Quiet PROVE Contracted
<1>1. Current' = Current
  BY DEF IInv, TypeOK, Quiet, Current, Usable
<1>. QED  BY <1>1, SameContract DEF Quiet

LEMMA LostContract == ASSUME IInv, NEW s \in Session, Lost(s) PROVE Contracted
<1>1. \A h \in Handle : /\ handle'[h].sess = handle[h].sess
                        /\ handle'[h].obj = IF h \in sess[s].handles /\ handle[h].obj = "live"
                                            THEN "closed" ELSE handle[h].obj
  BY DEF Lost, Closed, IInv, TypeOK, HandleRec
<1>2. CASE Current = s
  <2>1. registry = s /\ Current' = None /\ s # None
    BY <1>2 DEF Lost, DropRegistry, Current
  <2>2. \A h \in Handle : handle[h].obj = "live" => h \in sess[s].handles
    BY <2>1, LiveHasCurrent
  <2>3. \A h \in Handle : handle'[h].obj = IF handle[h].obj = "live" THEN "closed" ELSE handle[h].obj
    BY <1>1, <2>2
  <2>4. C!Lose
    BY <1>2, <2>1, <2>3 DEF C!Lose, Current
  <2>. QED  BY <2>4 DEF Contracted, C!ContractNext
<1>3. CASE Current # s
  <2>1. \A h \in Handle : handle[h].obj = "live" => h \notin sess[s].handles
    <3>. SUFFICES ASSUME NEW h \in Handle, handle[h].obj = "live", h \in sess[s].handles
         PROVE  FALSE
      OBVIOUS
    <3>1. handle[h].sess = s
      BY DEF IInv, Handles, RoutesToLive
    <3>. QED  BY <1>3, <3>1, LiveHasCurrent
  <2>2. Current' = Current
    BY <1>3 DEF Lost, DropRegistry, Current, Usable, IInv, TypeOK
  <2>. QED  BY <1>1, <2>1, <2>2, SameContract
<1>. QED  BY <1>2, <1>3

LEMMA EndContract ==
    ASSUME IInv, NEW h \in Handle, handle[h].obj = "live",
           handle'[h].obj \in {"detached", "closed"},
           \A g \in Handle : g # h => handle'[g] = handle[g],
           Current' = Current
    PROVE  Contracted
<1>. DEFINE e == handle'[h].obj
<1>1. [g \in Handle |-> handle'[g].obj]
        = [[g \in Handle |-> handle[g].obj] EXCEPT ![h] = e]
  OBVIOUS
<1>2. [g \in Handle |-> IF handle'[g].obj = "live" THEN handle'[g].sess ELSE None]
        = [[g \in Handle |-> IF handle[g].obj = "live" THEN handle[g].sess ELSE None]
             EXCEPT ![h] = None]
  OBVIOUS
<1>3. C!End(h)
  BY <1>1, <1>2 DEF C!End, Current
<1>. QED  BY <1>3 DEF Contracted, C!ContractNext

\* What the sessions are to others does not change with their tables.
LEMMA TableOnly ==
    ASSUME TypeOK, NEW s \in Session, NEW h, sess' = OnHandleDetached(s, h), registry' = registry
    PROVE  Current' = Current
<1>1. \A t \in Session : sess'[t].state = sess[t].state /\ sess'[t].ws = sess[t].ws
  BY DEF OnHandleDetached, TypeOK, SessionRec
<1>. QED  BY <1>1 DEF Current, Usable, TypeOK

LEMMA HandleContract == ASSUME IInv, NEW h \in Handle, JanusDetaches(h) PROVE Contracted
<1>1. TypeOK /\ handle[h].sess \in Session /\ handle[h] \in HandleRec
  BY DEF JanusDetaches, IInv, Owned, TypeOK
<1>2. h \in sess[handle[h].sess].handles <=> handle[h].obj = "live"
  BY <1>1 DEF IInv, Handles, RoutesToLive
<1>3. /\ handle'[h].sess = handle[h].sess
      /\ handle'[h].obj = IF handle[h].obj = "live" THEN "closed" ELSE handle[h].obj
      /\ \A g \in Handle : g # h => handle'[g] = handle[g]
  <2>. DEFINE o == IF handle[h].obj = "live" THEN "closed" ELSE handle[h].obj
  <2>1. handle' = [handle EXCEPT ![h].janus = FALSE, ![h].obj = o]
    BY <1>2 DEF JanusDetaches
  <2>. HIDE DEF o
  <2>2. handle'[h].sess = handle[h].sess /\ handle'[h].obj = o /\ \A g \in Handle : g # h => handle'[g] = handle[g]
    BY <1>1, <2>1 DEF TypeOK, HandleRec
  <2>. QED  BY <2>2 DEF o
<1>4. Current' = Current
  BY <1>1, TableOnly DEF JanusDetaches
<1>5. CASE handle[h].obj = "live"
  BY <1>3, <1>4, <1>5, EndContract
<1>6. CASE handle[h].obj # "live"
  BY <1>3, <1>4, <1>6, SameContract
<1>. QED  BY <1>5, <1>6

\* Only clients move, or a handle that nothing refers to is new.
LEMMA FreshContract ==
    ASSUME IInv, FreshOnly, Current' = Current
    PROVE  Contracted
<1>1. \A h \in Handle : \/ handle'[h] = handle[h]
                        \/ handle[h].obj # "live" /\ handle'[h].obj = "none"
  BY DEF FreshOnly, FreeHandle
<1>. QED  BY <1>1, ForgetContract

LEMMA GetSessionContract == ASSUME IInv, NEW c \in Client, GetSession(c) PROVE Contracted
<1>0. TypeOK
  BY DEF IInv
<1>1. CASE registry # None
  BY <1>1, QuietContract DEF GetSession, Quiet
<1>2. CASE registry = None
  <2>1. PICK s \in Session : /\ FreeSession(s) /\ registry' = s
                             /\ sess' = [sess EXCEPT ![s] = [Unborn EXCEPT !.state = "creating"]]
                             /\ handle' = [h \in Handle |-> IF handle[h].sess = s
                                                            THEN NoHandle ELSE handle[h]]
    BY <1>2 DEF GetSession
  <2>2. Current = None /\ Current' = None
    BY <1>0, <1>2, <2>1 DEF Current, Usable, Unborn, TypeOK
  <2>3. FreshOnly
    BY <2>1 DEF FreshOnly, FreeSession, NoHandle
  <2>. QED  BY <2>2, <2>3, FreshContract
<1>. QED  BY <1>1, <1>2

LEMMA ConnectedContract == ASSUME IInv, NEW c \in Client, Connected(c) PROVE Contracted
<1>. DEFINE s == client[c].sess
<1>1. TypeOK /\ s \in Session /\ sess[s].state = "creating"
  BY DEF Connected, At, IInv, Owned, Creators, Creator, Initing
<1>2. /\ sess'[s].state = "creating"
      /\ \A t \in Session : t # s => sess'[t] = sess[t]
      /\ UNCHANGED <<registry, handle>>
  BY <1>1 DEF Connected, TypeOK, SessionRec
<1>3. Current' = Current
  BY <1>1, <1>2 DEF Current, Usable, TypeOK
<1>. QED  BY <1>2, <1>3, SameContract

(* The end of init(): the session becomes usable, unless it was lost.       *)
LEMMA CreateContract == ASSUME IInv, NEW c \in Client, CreateAnswered(c) PROVE Contracted
<1>. DEFINE s == client[c].sess
<1>1. /\ TypeOK /\ s \in Session /\ s # None /\ client[c].pc = "create" /\ Initing(c, s)
      /\ Creator(c, s)
  BY DEF CreateAnswered, At, IInv, Owned, Creators, Initing
<1>2. /\ sess'[s].state = "active" /\ sess'[s].ws = sess[s].ws
      /\ \A t \in Session : t # s => sess'[t] = sess[t]
      /\ UNCHANGED <<registry, handle>>
  BY <1>1 DEF CreateAnswered, TypeOK, SessionRec
<1>3. CASE sess[s].state = "creating"
  <2>1. registry = s /\ sess[s].ws
    BY <1>1, <1>3 DEF IInv, Connections, Creator
  <2>2. Current = None /\ Current' = s
    BY <1>1, <1>2, <1>3, <2>1 DEF Current, Usable
  <2>3. C!Open(s)
    BY <1>2, <2>2 DEF C!Open, Current
  <2>. QED  BY <1>1, <2>3 DEF Contracted, C!ContractNext
<1>4. CASE sess[s].state = "destroyed"
  <2>1. registry # s
    BY <1>1, <1>4 DEF IInv, Connections
  <2>2. Current' = Current
    BY <1>1, <1>2, <2>1 DEF Current, Usable, TypeOK
  <2>. QED  BY <1>2, <2>2, SameContract
<1>. QED  BY <1>1, <1>3, <1>4 DEF Creator

LEMMA AttachContract ==
    ASSUME IInv, NEW c \in Client, AttachAnswered(c)
    PROVE  Contracted
<1>. DEFINE s == client[c].sess
            h == client[c].got
<1>1. /\ TypeOK /\ s \in Session /\ h \in Handle /\ h # None /\ Using(c, s)
      /\ client[c].pc = "attach" /\ User(c)
  BY DEF AttachAnswered, At, IInv, Owned, Users, Using
<1>2. CASE GoneMeanwhile(s)
  BY <1>2, QuietContract DEF AttachAnswered, Quiet
<1>3. CASE ~GoneMeanwhile(s)
  <2>1. handle' = [handle EXCEPT ![h].obj = "live"] /\ sess' = [sess EXCEPT ![s] = Attached(@, h)]
        /\ registry' = registry
    BY <1>3 DEF AttachAnswered
  <2>2. registry = s /\ sess[s].state = "active" /\ handle[h].sess = s /\ handle[h].obj = "none"
    BY <1>1, <1>3 DEF User, Using, GoneMeanwhile
  <2>3. sess[s].ws
    BY <1>1, <2>2 DEF IInv, Connections
  <2>4. /\ sess'[s].state = sess[s].state /\ sess'[s].ws = sess[s].ws
        /\ \A t \in Session : t # s => sess'[t] = sess[t]
    BY <1>1, <2>1 DEF Attached, TypeOK, SessionRec
  <2>5. Current = s /\ Current' = s /\ s # None
    BY <1>1, <2>1, <2>2, <2>3, <2>4 DEF Current, Usable
  <2>6. /\ handle'[h].obj = "live" /\ handle'[h].sess = s
        /\ \A g \in Handle : g # h => handle'[g] = handle[g]
    BY <1>1, <2>1, <2>2 DEF TypeOK, HandleRec
  <2>. HIDE DEF s, h
  <2>7. [g \in Handle |-> handle'[g].obj]
          = [[g \in Handle |-> handle[g].obj] EXCEPT ![h] = "live"]
    BY <1>1, <2>6
  <2>8. [g \in Handle |-> IF handle'[g].obj = "live" THEN handle'[g].sess ELSE None]
          = [[g \in Handle |-> IF handle[g].obj = "live" THEN handle[g].sess ELSE None]
               EXCEPT ![h] = s]
    BY <1>1, <2>6
  <2>. PICK g \in Handle : g = h
    BY <1>1
  <2>9. C!Attach(g)
    BY <1>1, <2>2, <2>5, <2>7, <2>8 DEF C!Attach, Current
  <2>10. C!ContractNext
    BY <2>9 DEF C!ContractNext
  <2>. QED  BY <2>10 DEF Contracted
<1>. QED  BY <1>2, <1>3

LEMMA DetachContract == ASSUME IInv, NEW c \in Client, Detach(c) PROVE Contracted
<1>. DEFINE s == client[c].sess
            h == client[c].got
<1>1. TypeOK /\ s \in Session /\ h \in Handle
  BY DEF Detach, At, IInv, Owned
<1>2. CASE HasDetach(h)
  BY <1>2, QuietContract DEF Detach, Quiet
<1>3. CASE ~HasDetach(h)
  <2>1. /\ sess' = OnHandleDetached(s, h) /\ registry' = registry
        /\ handle' = [handle EXCEPT ![h].obj = "detached", ![h].janus = @ /\ DetachUnsent(s)]
    BY <1>3 DEF Detach
  <2>2. /\ handle[h].obj = "live" /\ handle'[h].obj = "detached"
        /\ \A g \in Handle : g # h => handle'[g] = handle[g]
    BY <1>1, <1>3, <2>1 DEF HasDetach, TypeOK, HandleRec
  <2>3. Current' = Current
    BY <1>1, <2>1, TableOnly
  <2>. QED  BY <1>1, <2>2, <2>3, EndContract
<1>. QED  BY <1>2, <1>3

LEMMA FreshAnswer ==
    ASSUME TypeOK, NEW c \in Client, AttachFails(c) \/ Answer(c)
    PROVE  FreshOnly /\ UNCHANGED <<registry, sess>>
<1>1. ASSUME NEW h \in Handle, FreeHandle(h), NEW r, r.obj = "none",
             handle' = [handle EXCEPT ![h] = r]
      PROVE  FreshOnly
  BY <1>1 DEF FreshOnly, TypeOK
<1>2. CASE handle' = handle
  BY <1>2, SameHandles DEF AttachFails, Answer
<1>3. CASE handle' # handle
  BY <1>1, <1>3 DEF AttachFails, Answer
<1>. QED  BY <1>2, <1>3

LEMMA ClientContract ==
    ASSUME ~ListenersBlock, IInv, NEW c \in Client,
           \/ Progress(c) \/ GetSession(c) \/ Request(c) \/ Detach(c) \/ Answer(c)
    PROVE  Contracted
<1>1. TypeOK /\ (client[c].pc # "idle" => client[c].sess \in Session)
  BY DEF IInv, Owned
<1>2. CASE GetSession(c)
  BY <1>2, GetSessionContract
<1>3. CASE Awaited(c) \/ Request(c) \/ RequestEnds(c)
  BY <1>3, QuietContract DEF Awaited, Request, RequestEnds, Quiet
<1>4. CASE Connected(c)
  BY <1>4, ConnectedContract
<1>5. CASE InitFails(c) /\ client[c].sess \in Session
  BY <1>5, InitFailsSeen, LostContract
<1>6. CASE ConnectFails(c) \/ InitRequestFails(c)
  BY <1>1, <1>5, <1>6 DEF ConnectFails, InitRequestFails, At
<1>7. CASE InfoAnswered(c)
  BY <1>1, <1>5, <1>7, QuietContract DEF InfoAnswered, At, Quiet
<1>8. CASE CreateAnswered(c)
  BY <1>8, CreateContract
<1>9. CASE AttachAnswered(c)
  BY <1>9, AttachContract
<1>10. CASE AttachFails(c) \/ Answer(c)
  <2>1. FreshOnly /\ UNCHANGED <<registry, sess>>
    BY <1>1, <1>10, FreshAnswer
  <2>2. Current' = Current
    BY <2>1 DEF Current, Usable
  <2>. QED  BY <2>1, <2>2, FreshContract
<1>11. CASE Detach(c)
  BY <1>11, DetachContract
<1>. QED  BY <1>2, <1>3, <1>4, <1>6, <1>7, <1>8, <1>9, <1>10, <1>11 DEF Progress

LEMMA StepContract == ASSUME ~ListenersBlock, IInv, [Next]_vars PROVE Contracted
<1>1. CASE UNCHANGED vars
  <2>1. Quiet
    BY <1>1 DEF vars, Quiet
  <2>. QED  BY <2>1, QuietContract
<1>2. ASSUME NEW s \in Session,
             \/ Keepalive(s) \/ KeepaliveAnswered(s) \/ AutoDestroyFires(s)
             \/ DestroyGoesOn(s) \/ JanusTimeout(s) \/ ConnectionLost(s)
      PROVE  Contracted
  BY <1>2, SessionSeen, QuietContract, LostContract
<1>. QED  BY <1>1, <1>2, ClientContract, HandleContract DEF Next

(* The sessions, handles and callbacks implement the contract: every step   *)
(* of theirs is one of the contract's or changes nothing a plugin sees.     *)
THEOREM ImplementsContractHolds == ASSUME ~ListenersBlock PROVE Spec => ImplementsContract
<1>1. Init => C!ContractInit
  BY DEF Init, C!ContractInit, NoHandle
<1>2. IInv /\ [Next]_vars => Contracted
  BY StepContract
<1>. QED  BY <1>1, <1>2, Agreed, PTL DEF Spec, ImplementsContract, C!Contract, Contracted

(* A handle ends once: it is not detached after it was closed, nor told     *)
(* that it is closed after it was detached.                                 *)
THEOREM EndsOnceHolds == ASSUME ~ListenersBlock PROVE Spec => EndsOnce
<1>1. ASSUME Contracted
      PROVE  \A h \in Handle : handle[h].obj \in {"detached", "closed"}
                                 => handle'[h].obj \in {handle[h].obj, "none"}
  <2>. SUFFICES ASSUME NEW h \in Handle, handle[h].obj \in {"detached", "closed"}
       PROVE  handle'[h].obj \in {handle[h].obj, "none"}
    OBVIOUS
  <2>. DEFINE status == [g \in Handle |-> handle[g].obj]
  <2>1. status[h] = handle[h].obj /\ status'[h] = handle'[h].obj
    OBVIOUS
  <2>2. status' = status \/ C!ContractNext
    BY <1>1 DEF Contracted, C!contractVars
  <2>3. C!ContractNext => status'[h] \in {status[h], "none"}
    BY DEF C!ContractNext, C!Open, C!Attach, C!End, C!Lose, C!Forget, C!Live
  <2>. QED  BY <2>1, <2>2, <2>3
<1>2. [Next]_vars /\ IInv => [\A h \in Handle : handle[h].obj \in {"detached", "closed"}
                                 => handle'[h].obj \in {handle[h].obj, "none"}]_vars
  BY <1>1, StepContract
<1>. QED  BY <1>2, Agreed, PTL DEF Spec, EndsOnce
-----------------------------------------------------------------------------
(* Every handle at a connected Janus server is attended to, and a session   *)
(* that has not connected yet has none there.                               *)
Waited(h) == \E c \in Client : At(c, "attach") /\ client[c].got = h

Attended(h) == handle[h].janus =>
    /\ sess[handle[h].sess].link # "none"
    /\ sess[handle[h].sess].link = "up" => handle[h].obj = "live" \/ handle[h].late \/ Waited(h)

OInv == IInv /\ \A h \in Handle : Attended(h)

\* Whoever waits with the answer to 'attach' goes on waiting.
WaitersStay == \A d \in Client : At(d, "attach") /\ client[d].got # None
                                   => client'[d].pc = "attach" /\ client'[d].got = client[d].got

\* What a step that adds no handle may do with one.
KeptAt(h) == handle'[h].janus => /\ handle[h].janus
                                 /\ handle'[h].sess = handle[h].sess
                                 /\ handle'[h].late = handle[h].late
                                 /\ handle[h].obj = "live" => handle'[h].obj = "live"

LinksFall == \A t \in Session : /\ sess'[t].link = "up" => sess[t].link = "up"
                                /\ sess'[t].link = "none" => sess[t].link = "none"

LEMMA StayAttended ==
    ASSUME OInv, WaitersStay, LinksFall, NEW h \in Handle, KeptAt(h)
    PROVE  Attended(h)'
<1>. SUFFICES ASSUME handle'[h].janus PROVE Attended(h)'
  BY DEF Attended
<1>1. handle[h].janus /\ handle[h].sess \in Session /\ Attended(h) /\ h # None
  BY DEF KeptAt, OInv, IInv, Owned
<1>2. Waited(h) => Waited(h)'
  BY <1>1 DEF Waited, WaitersStay, At
<1>. QED  BY <1>1, <1>2 DEF Attended, KeptAt, LinksFall

LEMMA QuietOrphan ==
    ASSUME OInv, Quiet, WaitersStay PROVE \A h \in Handle : Attended(h)'
<1>1. LinksFall /\ \A h \in Handle : KeptAt(h)
  BY DEF Quiet, LinksFall, KeptAt
<1>. QED  BY <1>1, StayAttended

LEMMA LostOrphan ==
    ASSUME OInv, NEW s \in Session, Lost(s), WaitersStay PROVE \A h \in Handle : Attended(h)'
<1>1. LinksFall
  BY DEF Lost, LinksFall
<1>2. ASSUME NEW h \in Handle PROVE KeptAt(h)
  <2>1. handle[h] \in HandleRec
    BY DEF OInv, IInv, TypeOK
  <2>2. /\ handle'[h].sess = handle[h].sess /\ handle'[h].late = handle[h].late
        /\ handle'[h].janus => handle[h].janus /\ handle[h].sess # s
        /\ handle[h].obj = "live" /\ h \notin sess[s].handles => handle'[h].obj = "live"
    BY <2>1 DEF Lost, Closed, HandleRec
  <2>3. h \in sess[s].handles => handle[h].sess = s
    BY DEF OInv, IInv, Handles, RoutesToLive
  <2>. QED  BY <2>2, <2>3 DEF KeptAt
<1>. QED  BY <1>1, <1>2, StayAttended

(* A client that goes on and did not wait with a handle.                    *)
LEMMA OthersWait ==
    ASSUME OInv, NEW c \in Client, NEW r, Goto(c, r) \/ client' = [client EXCEPT ![c].resp = r],
           ~At(c, "attach") \/ client[c].resp # "ok"
    PROVE  WaitersStay
<1>1. User(c) /\ client \in [Client -> ClientRec]
  BY DEF OInv, IInv, Users, TypeOK
<1>2. At(c, "attach") => client[c].got = None
  BY <1>1 DEF User, At
<1>3. \A d \in Client : d # c => client'[d] = client[d]
  BY <1>1 DEF Goto
<1>. QED  BY <1>2, <1>3 DEF WaitersStay, At

LEMMA NobodyMoves == ASSUME UNCHANGED client PROVE WaitersStay
BY DEF WaitersStay, At

LEMMA GetSessionOrphan ==
    ASSUME OInv, NEW c \in Client, GetSession(c) PROVE \A h \in Handle : Attended(h)'
<1>0. TypeOK
  BY DEF OInv, IInv
<1>1. WaitersStay
  <2>1. ~At(c, "attach") /\ \E r : Goto(c, r)
    BY DEF GetSession, At, SendAttach
  <2>. QED  BY <2>1, OthersWait
<1>2. CASE registry # None
  BY <1>1, <1>2, QuietOrphan DEF GetSession, Quiet
<1>3. CASE registry = None
  <2>1. PICK s \in Session : /\ sess' = [sess EXCEPT ![s] = [Unborn EXCEPT !.state = "creating"]]
                             /\ handle' = [h \in Handle |-> IF handle[h].sess = s
                                                            THEN NoHandle ELSE handle[h]]
    BY <1>3 DEF GetSession
  <2>2. ASSUME NEW h \in Handle, handle'[h].janus
        PROVE  handle'[h] = handle[h] /\ handle[h].sess \in Session /\ handle[h].sess # s
    BY <2>1, <2>2 DEF NoHandle, OInv, IInv, Owned
  <2>3. \A h \in Handle : handle'[h].janus => sess'[handle[h].sess] = sess[handle[h].sess]
    BY <1>0, <2>1, <2>2 DEF TypeOK
  <2>4. ASSUME NEW h \in Handle, handle'[h].janus PROVE Attended(h)'
    <3>1. Attended(h) /\ h # None
      BY DEF OInv
    <3>2. Waited(h) => Waited(h)'
      BY <1>1, <3>1 DEF Waited, WaitersStay, At
    <3>. QED  BY <2>2, <2>3, <2>4, <3>1, <3>2 DEF Attended
  <2>. QED  BY <2>4 DEF Attended
<1>. QED  BY <1>2, <1>3

LEMMA ConnectedOrphan ==
    ASSUME OInv, NEW c \in Client, Connected(c) PROVE \A h \in Handle : Attended(h)'
<1>. DEFINE s == client[c].sess
<1>1. TypeOK /\ s \in Session /\ sess[s].link = "none" /\ UNCHANGED handle
  BY DEF Connected, At, OInv, IInv, Owned, Creators, Creator, Initing
<1>2. \A t \in Session : t # s => sess'[t] = sess[t]
  BY <1>1 DEF Connected, TypeOK
<1>3. WaitersStay
  BY OthersWait DEF Connected, At
<1>4. ASSUME NEW h \in Handle, handle'[h].janus PROVE Attended(h)'
  <2>1. Attended(h) /\ handle[h].sess \in Session /\ handle[h].sess # s /\ h # None
    BY <1>1, <1>4 DEF OInv, IInv, Owned, Attended
  <2>2. Waited(h) => Waited(h)'
    BY <1>3, <2>1 DEF Waited, WaitersStay, At
  <2>. QED  BY <1>1, <1>2, <2>1, <2>2 DEF Attended
<1>. QED  BY <1>4 DEF Attended

LEMMA CreateOrphan ==
    ASSUME OInv, NEW c \in Client, CreateAnswered(c) PROVE \A h \in Handle : Attended(h)'
<1>1. TypeOK /\ client[c].sess \in Session /\ ~At(c, "attach")
  BY DEF CreateAnswered, At, OInv, IInv, Owned
<1>2. LinksFall /\ \A h \in Handle : KeptAt(h)
  BY <1>1 DEF CreateAnswered, LinksFall, KeptAt, TypeOK, SessionRec
<1>3. \E r : Goto(c, r)
  BY DEF CreateAnswered, SendAttach
<1>. QED  BY <1>1, <1>2, <1>3, OthersWait, StayAttended

LEMMA AttachOrphan ==
    ASSUME OInv, NEW c \in Client, AttachAnswered(c) PROVE \A h \in Handle : Attended(h)'
<1>0. PICK s \in Session, g \in Handle : s = client[c].sess /\ g = client[c].got
  BY DEF AttachAnswered, At, OInv, IInv, Owned
<1>1. /\ TypeOK /\ s \in Session /\ g \in Handle /\ g # None
      /\ At(c, "attach") /\ User(c) /\ handle[g].sess = s
  <2>1. /\ TypeOK /\ s \in Session /\ g \in Handle /\ g # None
        /\ At(c, "attach") /\ User(c)
    BY <1>0 DEF AttachAnswered, At, OInv, IInv, Owned, Users
  <2>. QED  BY <1>0, <2>1 DEF User, Using
<1>2. \A d \in Client : d # c => client'[d] = client[d]
  BY <1>0, <1>1 DEF AttachAnswered, Goto, TypeOK
<1>3. \A t \in Session : sess'[t].link = sess[t].link
  <2>1. CASE UNCHANGED sess
    BY <2>1
  <2>2. CASE sess' = [sess EXCEPT ![s] = Attached(@, g)]
    BY <1>1, <2>2 DEF Attached, TypeOK, SessionRec
  <2>. QED  BY <1>0, <2>1, <2>2 DEF AttachAnswered
<1>4. \A h \in Handle : h # g => handle'[h] = handle[h]
  BY <1>0, <1>1 DEF AttachAnswered, TypeOK
<1>5. ASSUME NEW h \in Handle, h # g PROVE Attended(h)'
  <2>1. Waited(h) => Waited(h)'
    BY <1>0, <1>2, <1>5 DEF Waited, At
  <2>2. Attended(h) /\ (handle[h].janus => handle[h].sess \in Session)
    BY DEF OInv, IInv, Owned
  <2>. QED  BY <1>3, <1>4, <1>5, <2>1, <2>2 DEF Attended
<1>6. Attended(g)'
  <2>1. Attended(g)
    BY <1>1 DEF OInv
  <2>2. handle'[g].sess = s /\ handle'[g].janus = handle[g].janus
    BY <1>0, <1>1 DEF AttachAnswered, TypeOK, HandleRec
  <2>3. CASE GoneMeanwhile(s)
    <3>1. sess[s].link # "up"
      BY <1>1, <2>3 DEF GoneMeanwhile, OInv, IInv, Connections
    <3>2. sess'[s].link = sess[s].link
      BY <1>1, <1>3
    <3>. QED  BY <1>1, <2>1, <2>2, <3>1, <3>2 DEF Attended
  <2>4. CASE ~GoneMeanwhile(s)
    <3>1. handle'[g].obj = "live"
      BY <1>0, <1>1, <2>4 DEF AttachAnswered, TypeOK, HandleRec
    <3>2. sess'[s].link = sess[s].link
      BY <1>1, <1>3
    <3>. QED  BY <1>1, <2>1, <2>2, <3>1, <3>2 DEF Attended
  <2>. QED  BY <2>3, <2>4
<1>7. ASSUME NEW h \in Handle PROVE Attended(h)'
  BY <1>5, <1>6
<1>. QED  BY <1>7

\* A handle of client c's session is new at the Janus server.
LEMMA NewHandleOrphan ==
    ASSUME OInv, NEW c \in Client, client[c].sess \in Session, sess[client[c].sess].link = "up",
           WaitersStay, UNCHANGED sess, NEW g \in Handle, NEW late \in BOOLEAN,
           handle' = [handle EXCEPT ![g] = [sess |-> client[c].sess, obj |-> "none",
                                            janus |-> TRUE, late |-> late]],
           late \/ Waited(g)'
    PROVE  \A h \in Handle : Attended(h)'
<1>. DEFINE s == client[c].sess
<1>1. /\ handle'[g].sess = s /\ handle'[g].late = late
      /\ \A h \in Handle : h # g => handle'[h] = handle[h]
  BY DEF OInv, IInv, TypeOK
<1>2. Attended(g)'
  BY <1>1 DEF Attended
<1>3. ASSUME NEW h \in Handle, h # g PROVE Attended(h)'
  <2>1. LinksFall /\ KeptAt(h)
    BY <1>1, <1>3 DEF LinksFall, KeptAt
  <2>. QED  BY <2>1, StayAttended
<1>. QED  BY <1>2, <1>3

LEMMA AttachFailsOrphan ==
    ASSUME OInv, NEW c \in Client, AttachFails(c) PROVE \A h \in Handle : Attended(h)'
<1>1. client[c].sess \in Session /\ WaitersStay /\ UNCHANGED <<registry, sess>>
  BY OthersWait DEF AttachFails, At, OInv, IInv, Owned
<1>2. CASE UNCHANGED handle
  BY <1>1, <1>2, QuietOrphan DEF Quiet
<1>3. CASE handle' # handle
  BY <1>1, <1>3, NewHandleOrphan DEF AttachFails
<1>. QED  BY <1>2, <1>3

LEMMA AnswerOrphan ==
    ASSUME OInv, NEW c \in Client, Answer(c) PROVE \A h \in Handle : Attended(h)'
<1>1. /\ client[c].sess \in Session /\ sess[client[c].sess].link = "up"
      /\ client[c].resp = "none" /\ UNCHANGED <<registry, sess>>
  BY DEF Answer, Receiving, OInv, IInv, Owned
<1>2. CASE UNCHANGED handle /\ \E r : client' = [client EXCEPT ![c].resp = r]
  <2>1. WaitersStay
    BY <1>1, <1>2, OthersWait
  <2>. QED  BY <1>1, <1>2, <2>1, QuietOrphan DEF Quiet
<1>3. ASSUME NEW g \in Handle, At(c, "attach"),
             handle' = [handle EXCEPT ![g] =
                    [sess |-> client[c].sess, obj |-> "none", janus |-> TRUE, late |-> FALSE]],
             client' = [client EXCEPT ![c].resp = "ok", ![c].got = g]
      PROVE  \A h \in Handle : Attended(h)'
  <2>1. /\ client'[c].pc = "attach" /\ client'[c].got = g
        /\ \A d \in Client : d # c => client'[d] = client[d]
    BY <1>3 DEF At, OInv, IInv, TypeOK, ClientRec
  <2>2. client[c].got = None
    BY <1>1, <1>3 DEF At, OInv, IInv, Users, User
  <2>3. WaitersStay /\ Waited(g)'
    BY <2>1, <2>2 DEF WaitersStay, Waited, At
  <2>. QED  BY <1>1, <1>3, <2>3, NewHandleOrphan
<1>. QED  BY <1>2, <1>3 DEF Answer

\* The 'detach' message is not sent only when nobody gets it.
LEMMA DetachOrphan ==
    ASSUME OInv, NEW c \in Client, Detach(c) PROVE \A h \in Handle : Attended(h)'
<1>0. PICK s \in Session, g \in Handle : s = client[c].sess /\ g = client[c].got
  BY DEF Detach, At, OInv, IInv, Owned
<1>1. /\ TypeOK /\ s \in Session /\ g \in Handle /\ g # None /\ ~At(c, "attach")
      /\ User(c) /\ handle[g].sess = s /\ WaitersStay /\ registry' = registry
  <2>1. /\ TypeOK /\ s \in Session /\ g \in Handle /\ g # None /\ ~At(c, "attach")
        /\ User(c) /\ WaitersStay /\ registry' = registry
    BY <1>0, OthersWait DEF Detach, At, OInv, IInv, Owned, Users
  <2>. QED  BY <1>0, <2>1 DEF User, Using
<1>2. CASE UNCHANGED <<sess, handle>>
  BY <1>1, <1>2, QuietOrphan DEF Quiet
<1>3. CASE /\ sess' = OnHandleDetached(s, g)
           /\ handle' = [handle EXCEPT ![g].obj = "detached", ![g].janus = @ /\ DetachUnsent(s)]
  <2>1. \A t \in Session : sess'[t].link = sess[t].link
    BY <1>1, <1>3 DEF OnHandleDetached, TypeOK, SessionRec
  <2>2. /\ handle'[g].sess = s
        /\ handle'[g].janus => handle[g].janus /\ DetachUnsent(s)
        /\ \A h \in Handle : h # g => handle'[h] = handle[h]
    BY <1>1, <1>3 DEF TypeOK, HandleRec
  <2>3. DetachUnsent(s) => sess[s].link # "up"
    BY <1>1 DEF DetachUnsent, CanSend, OInv, IInv, Connections
  <2>4. Attended(g)'
    <3>1. Attended(g) /\ sess'[s].link = sess[s].link
      BY <1>1, <2>1 DEF OInv
    <3>. QED  BY <1>1, <2>2, <2>3, <3>1 DEF Attended
  <2>5. ASSUME NEW h \in Handle, h # g PROVE Attended(h)'
    <3>1. LinksFall /\ KeptAt(h)
      BY <2>1, <2>2, <2>5 DEF LinksFall, KeptAt
    <3>. QED  BY <1>1, <3>1, StayAttended
  <2>6. ASSUME NEW h \in Handle PROVE Attended(h)'
    BY <2>4, <2>5
  <2>. QED  BY <2>6
<1>. QED  BY <1>0, <1>2, <1>3 DEF Detach

LEMMA JanusDetachesOrphan ==
    ASSUME OInv, NEW g \in Handle, JanusDetaches(g) PROVE \A h \in Handle : Attended(h)'
<1>1. TypeOK /\ handle[g].sess \in Session
  BY DEF JanusDetaches, OInv, IInv, Owned
<1>2. \A t \in Session : sess'[t].link = sess[t].link
  BY <1>1 DEF JanusDetaches, OnHandleDetached, TypeOK, SessionRec
<1>3. ~handle'[g].janus /\ \A h \in Handle : h # g => handle'[h] = handle[h]
  <2>. DEFINE o == IF g \in sess[handle[g].sess].handles /\ handle[g].obj = "live"
                   THEN "closed" ELSE handle[g].obj
  <2>1. handle' = [handle EXCEPT ![g].janus = FALSE, ![g].obj = o]
    BY DEF JanusDetaches
  <2>. HIDE DEF o
  <2>. QED  BY <1>1, <2>1 DEF TypeOK, HandleRec
<1>4. WaitersStay
  BY NobodyMoves DEF JanusDetaches
<1>5. LinksFall /\ \A h \in Handle : KeptAt(h)
  BY <1>2, <1>3 DEF LinksFall, KeptAt
<1>. QED  BY <1>4, <1>5, StayAttended

LEMMA ClientOrphan ==
    ASSUME ~ListenersBlock, OInv, NEW c \in Client,
           \/ Progress(c) \/ GetSession(c) \/ Request(c) \/ Detach(c) \/ Answer(c)
    PROVE  \A h \in Handle : Attended(h)'
<1>1. IInv /\ (client[c].pc # "idle" => client[c].sess \in Session)
  BY DEF OInv, IInv, Owned
<1>2. CASE /\ ~At(c, "attach") /\ (\E r : Goto(c, r))
           /\ UNCHANGED <<registry, sess, handle>>
  <2>1. WaitersStay
    BY <1>2, OthersWait
  <2>. QED  BY <1>2, <2>1, QuietOrphan DEF Quiet
<1>3. CASE Awaited(c)
  BY <1>2, <1>3 DEF Awaited, At, SendAttach
<1>4. CASE Request(c) \/ RequestEnds(c)
  <2>1. PICK p \in {"request", "hold"} :
          Goto(c, [client[c] EXCEPT !.pc = p, !.resp = "none"])
    BY <1>1, <1>4 DEF Request, RequestEnds, Goto, IInv, TypeOK
  <2>. QED  BY <1>2, <1>4, <2>1 DEF Request, RequestEnds, At
<1>5. CASE InitFails(c) /\ client[c].sess \in Session /\ ~At(c, "attach")
  <2>1. Lost(client[c].sess) /\ Goto(c, Idle)
    BY <1>1, <1>5, InitFailsSeen
  <2>2. WaitersStay
    BY <1>5, <2>1, OthersWait
  <2>. QED  BY <1>5, <2>1, <2>2, LostOrphan
<1>6. CASE ConnectFails(c) \/ InitRequestFails(c)
  BY <1>1, <1>5, <1>6 DEF ConnectFails, InitRequestFails, At
<1>7. CASE InfoAnswered(c)
  BY <1>1, <1>2, <1>5, <1>7 DEF InfoAnswered, At
<1>. QED  BY <1>3, <1>4, <1>6, <1>7, GetSessionOrphan, ConnectedOrphan, CreateOrphan,
             AttachOrphan, AttachFailsOrphan, DetachOrphan, AnswerOrphan DEF Progress

LEMMA StepOrphan ==
    ASSUME ~ListenersBlock, OInv, [Next]_vars PROVE \A h \in Handle : Attended(h)'
<1>1. CASE UNCHANGED vars
  <2>1. Quiet /\ UNCHANGED client
    BY <1>1 DEF vars, Quiet
  <2>. QED  BY <2>1, QuietOrphan, NobodyMoves
<1>2. ASSUME NEW s \in Session,
             \/ Keepalive(s) \/ KeepaliveAnswered(s) \/ AutoDestroyFires(s)
             \/ DestroyGoesOn(s) \/ JanusTimeout(s) \/ ConnectionLost(s)
      PROVE  \A h \in Handle : Attended(h)'
  <2>1. UNCHANGED client /\ (Quiet \/ Lost(s))
    BY <1>2, SessionSeen DEF OInv
  <2>. QED  BY <2>1, NobodyMoves, QuietOrphan, LostOrphan
<1>. QED  BY <1>1, <1>2, ClientOrphan, JanusDetachesOrphan DEF Next

(* Nothing is left attached at a connected Janus server that no one in the  *)
(* proxy can detach, but for a handle whose 'attach' had timed out.         *)
THEOREM NoOrphanHolds == ASSUME ~ListenersBlock PROVE Spec => []NoOrphan
<1>1. Init => \A h \in Handle : Attended(h)
  BY DEF Init, Attended, NoHandle
<1>2. IInv /\ IInv' /\ (\A h \in Handle : Attended(h)) /\ [Next]_vars
        => (\A h \in Handle : Attended(h))'
  BY StepOrphan DEF OInv
<1>3. (\A h \in Handle : Attended(h)) => NoOrphan
  BY DEF Attended, NoOrphan, Waited
<1>. QED  BY <1>1, <1>2, <1>3, Agreed, PTL DEF Spec
=============================================================================
