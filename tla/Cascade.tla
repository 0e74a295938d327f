------------------------------- MODULE Cascade -------------------------------
(* The cascade mode of the videoroom plugin, proxy/plugin/videoroom.py: the  *)
(* publishers of a room, the RemotePublisher objects that carry them to a    *)
(* second backend server, and the subscribers there and at the server of     *)
(* the publishers. Joining and leaving as a publisher and the activation of  *)
(* backend rooms are in VideoRoom and are one step here.                     *)
(*                                                                           *)
(* Servers share nothing of what is kept here, so there is one besides the   *)
(* server of the publishers. Requests to it are worked off in the order sent *)
(* and take effect when they are sent; the greenlet goes on with the answer. *)
(* Left out: streams, the update of remote publishers, pause and kick, and   *)
(* the children of a RemotePublisher, which nothing ever adds.               *)
EXTENDS Naturals, FiniteSets

CONSTANTS
    User,           \* user ids of publishers
    Publisher,      \* VideoRoomPublisher objects
    Remote,         \* RemotePublisher objects
    Subscriber,     \* handles that subscribe
    BackendRoom,    \* BackendRoom objects of the second server
    Home,           \* the backend room of the publishers
    None,           \* absence of any of them
    Faults          \* what may happen besides, some of AllFaults

AllFaults == {"refuse",     \* a request fails and has no effect
              "timeout",    \* a request has its effect and times out
              "backend",    \* the second server's backend room is lost
              "rejoin",     \* an id is used again while somebody waits for its
                            \* last owner
              "again",      \* the media of a publisher comes again while a
                            \* remote publisher of it is being started
              "idle"}       \* a remote publisher comes to its idle timeout
                            \* while somebody waits to use it

ASSUME CascadeAssumption ==
    /\ None \notin User \cup Publisher \cup Remote \cup Subscriber \cup BackendRoom \cup {Home}
    /\ Home \notin BackendRoom
    /\ Faults \subseteq AllFaults

VARIABLES
    listed,     \* _participants of the room
    pub,        \* the publishers
    rp,         \* the remote publishers
    broom,      \* the backend rooms of the second server
    sub,        \* the subscribers
    task,       \* the greenlets of the subscribers' handles
    janus       \* the room at the second server, forwards to it

vars == <<listed, pub, rp, broom, sub, task, janus>>

PubRec == [user: User \cup {None},
           up: BOOLEAN,                     \* webrtc_started
           gone: BOOLEAN,                   \* _has_destroyed
           remote: Remote \cup {None},      \* _remote_publishers
           children: SUBSET Remote,         \* _children
           subs: SUBSET Subscriber]         \* _subscribers

RemoteRec == [pub: Publisher \cup {None},           \* origin_publisher
              broom: BackendRoom \cup {None},       \* _backend_room
              parent: BOOLEAN,                      \* _parent is the origin
              subs: SUBSET Subscriber,              \* _subscribers
              idle: {"used", "idle", "over"},       \* _idle_ts: 0, set, long ago
              destroyed: BOOLEAN]

SubRec == [on: BOOLEAN,                                 \* it has joined
           broom: BackendRoom \cup {Home, None},        \* _backend_room
           feeds: [User -> Publisher \cup {None}]]      \* _feeds

TaskRec == [pc: {"idle", "lock", "add", "remove", "forward", "ready", "join"},
            user: User \cup {None}, pub: Publisher \cup {None},
            rp: Remote \cup {None}, broom: BackendRoom \cup {Home, None},
            new: BOOLEAN,           \* join, not subscribe
            resp: {"none", "ok", "exists", "error"}]

TypeOK == /\ listed \in [User -> Publisher \cup {None}]
          /\ pub \in [Publisher -> PubRec]
          /\ rp \in [Remote -> RemoteRec]
          /\ broom \in [BackendRoom -> {"none", "valid", "dead"}]
          /\ sub \in [Subscriber -> SubRec]
          /\ task \in [Subscriber -> TaskRec]
          /\ janus \in [remote: SUBSET User,                  \* remote publishers
                        fed: SUBSET (Subscriber \X User),     \* who gets whose media
                        forward: SUBSET Publisher]            \* who is forwarded

NoPub == [user |-> None, up |-> FALSE, gone |-> TRUE, remote |-> None, children |-> {},
          subs |-> {}]
NoRemote == [pub |-> None, broom |-> None, parent |-> FALSE, subs |-> {}, idle |-> "idle",
             destroyed |-> TRUE]
NoSub == [on |-> FALSE, broom |-> None, feeds |-> [u \in User |-> None]]
NoTask == [pc |-> "idle", user |-> None, pub |-> None, rp |-> None, broom |-> None,
           new |-> FALSE, resp |-> "none"]

Init == /\ listed = [u \in User |-> None]
        /\ pub = [p \in Publisher |-> NoPub]
        /\ rp = [r \in Remote |-> NoRemote]
        /\ broom = [b \in BackendRoom |-> "none"]
        /\ sub = [c \in Subscriber |-> NoSub]
        /\ task = [c \in Subscriber |-> NoTask]
        /\ janus = [remote |-> {}, fed |-> {}, forward |-> {}]

-----------------------------------------------------------------------------
At(c, p) == task[c].pc = p
Answered(c, p, r) == At(c, p) /\ task[c].resp = r

\* An object is used again when nothing refers to it.
FreePub(p) == /\ pub[p].gone
              /\ \A c \in Subscriber : task[c].pub # p
FreeRemote(r) == /\ rp[r].destroyed
                 /\ \A c \in Subscriber : task[c].rp # r
FreeBackendRoom(b) == /\ broom[b] # "valid"
                      /\ \A r \in Remote : rp[r].broom # b
                      /\ \A c \in Subscriber : b \notin {task[c].broom, sub[c].broom}

\* Answers that a request may get which would be answered with r.
Answers(r) == {r} \cup IF Faults \cap {"refuse", "timeout"} # {} THEN {"error"} ELSE {}

\* Remote publishers go, and with them what subscribers get from them.
Without(U) == [janus EXCEPT !.remote = @ \ U, !.fed = {x \in @ : x[2] \notin U}]

(* The request has its effect, e, on x: if it is served, and perhaps if it   *)
(* fails.                                                                    *)
Effects(r, served, e, x) ==
    IF r # "error" THEN {IF r = served THEN e ELSE x}
    ELSE (IF "timeout" \in Faults THEN {e} ELSE {})
         \cup (IF "refuse" \in Faults THEN {x} ELSE {})

-----------------------------------------------------------------------------
(* The publishers, as far as they matter here.                               *)
PubJoins(p, u) ==
    /\ listed[u] = None
    /\ FreePub(p)
    /\ "rejoin" \in Faults \/ \A c \in Subscriber : task[c].user # u
    /\ listed' = [listed EXCEPT ![u] = p]
    /\ pub' = [pub EXCEPT ![p] = [NoPub EXCEPT !.user = u, !.gone = FALSE]]
    /\ UNCHANGED <<rp, broom, sub, task, janus>>

PubUp(p) ==
    /\ ~pub[p].gone /\ ~pub[p].up
    /\ "again" \in Faults \/ pub[p].remote = None
    /\ pub' = [pub EXCEPT ![p].up = TRUE]
    /\ UNCHANGED <<listed, rp, broom, sub, task, janus>>

\* The remote publishers of R as destroy() leaves them, and their removal.
Destroyed(x) == [NoRemote EXCEPT !.pub = x.pub]

\* Mutant: nothing is sent.
NotRemoved(R) == {}

Removals(R) == {pub[rp[r].pub].user : r \in {r \in R : /\ rp[r].broom # None
                                                       /\ broom[rp[r].broom] = "valid"}}

DestroyAll(R) == rp' = [r \in Remote |-> IF r \in R THEN Destroyed(rp[r]) ELSE rp[r]]

\* Mutant: subscribers are not told.
FeedKept(p) == UNCHANGED sub

\* on_feed_hangup() of the subscribers of p.
FeedLost(p) == sub' = [c \in Subscriber |->
    IF c \in pub[p].subs THEN [sub[c] EXCEPT !.feeds[pub[p].user] = None] ELSE sub[c]]

\* Mutant: the children are forgotten.
ChildrenKept(p) == {}

\* The children that end with the media or with the publisher.
Children(p) == pub[p].children

\* The hangup event.
PubHangup(p) ==
    /\ ~pub[p].gone /\ pub[p].up
    /\ pub' = [pub EXCEPT ![p].up = FALSE, ![p].children = {}, ![p].subs = {},
                          ![p].remote = IF @ \in Children(p) THEN None ELSE @]
    /\ DestroyAll(Children(p))
    /\ janus' = [Without(Removals(Children(p))) EXCEPT !.forward = @ \ {p}]
    /\ FeedLost(p)
    /\ UNCHANGED <<listed, broom, task>>

\* destroy(): it leaves, is kicked or its backend handle is closed.
PubLeaves(p) ==
    /\ ~pub[p].gone
    /\ listed' = [listed EXCEPT ![pub[p].user] = None]
    /\ pub' = [pub EXCEPT ![p] = [NoPub EXCEPT !.user = pub[p].user]]
    /\ DestroyAll(Children(p))
    /\ janus' = [Without(Removals(Children(p))) EXCEPT !.forward = @ \ {p}]
    /\ FeedLost(p)
    /\ UNCHANGED <<broom, task>>

-----------------------------------------------------------------------------
(* The second server: its backend room is activated, which wipes the room    *)
(* there, and is lost.                                                       *)
NewBackendRoom(b) ==
    /\ FreeBackendRoom(b)
    /\ \A x \in BackendRoom : broom[x] # "valid"
    /\ broom' = [broom EXCEPT ![b] = "valid"]
    /\ janus' = [janus EXCEPT !.remote = {}, !.fed = {}]
    /\ UNCHANGED <<listed, pub, rp, sub, task>>

BackendRoomLost(b) ==
    /\ "backend" \in Faults
    /\ broom[b] = "valid"
    /\ broom' = [broom EXCEPT ![b] = "dead"]
    /\ UNCHANGED <<listed, pub, rp, sub, task, janus>>

-----------------------------------------------------------------------------
(* A subscriber's request: cascade the publisher, then ask for its streams.  *)
\* add_remote_publisher is sent with task record t.
SendsAdd(c, t) ==
    LET served == IF t.user \in janus.remote THEN "exists" ELSE "ok"
    IN \E r \in Answers(served) :
         /\ janus' \in Effects(r, "ok", [janus EXCEPT !.remote = @ \cup {t.user}], janus)
         /\ task' = [task EXCEPT ![c] = [t EXCEPT !.pc = "add", !.resp = r]]

\* start() returns at once.
Started(r, b) == rp[r].broom = b

(* cascade(): the remote publisher is made and started, or found. While it   *)
(* is being started the greenlet that made it has its lock. With one that was *)
(* started on another backend room, or without a valid backend room, the      *)
(* request fails and nothing has changed.                                     *)
CascadeTo(c, t) ==
    LET r == pub[t.pub].remote
    IN \/ /\ t.broom = Home
          /\ task' = [task EXCEPT ![c] = [t EXCEPT !.pc = "ready"]]
          /\ UNCHANGED <<pub, rp, janus>>
       \/ /\ t.broom # Home /\ r = None /\ broom[t.broom] = "valid"
          /\ \E n \in Remote :
               /\ FreeRemote(n)
               /\ pub' = [pub EXCEPT ![t.pub].remote = n]
               /\ rp' = [rp EXCEPT ![n] = [NoRemote EXCEPT !.pub = t.pub, !.destroyed = FALSE]]
               /\ SendsAdd(c, [t EXCEPT !.rp = n])
       \/ /\ t.broom # Home /\ r # None /\ Started(r, t.broom)
          /\ task' = [task EXCEPT ![c] = [t EXCEPT !.pc = "ready"]]
          /\ UNCHANGED <<pub, rp, janus>>
       \/ /\ t.broom # Home /\ r # None /\ rp[r].broom = None
          /\ task' = [task EXCEPT ![c] = [t EXCEPT !.pc = "lock", !.rp = r]]
          /\ UNCHANGED <<pub, rp, janus>>

\* Any backend room of the room, or the one of the subscription's owner.
BackendRooms == {Home} \cup {b \in BackendRoom : broom[b] # "none"}

\* join as subscriber.
Join(c, u, b) ==
    /\ At(c, "idle") /\ ~sub[c].on
    /\ listed[u] # None
    /\ pub[listed[u]].up
    /\ b \in BackendRooms
    /\ CascadeTo(c, [NoTask EXCEPT !.user = u, !.pub = listed[u], !.broom = b, !.new = TRUE])
    /\ UNCHANGED <<listed, broom, sub>>

\* subscribe: another feed, at the backend room where the subscriber is.
Subscribe(c, u) ==
    /\ At(c, "idle") /\ sub[c].on
    /\ listed[u] # None
    /\ pub[listed[u]].up
    /\ CascadeTo(c, [NoTask EXCEPT !.user = u, !.pub = listed[u], !.broom = sub[c].broom])
    /\ UNCHANGED <<listed, broom, sub>>

Finish(c) == task' = [task EXCEPT ![c] = NoTask]

\* Mutant: the lock is kept when a start fails.
FreeWhenStarted(r) == rp[r].broom # None

LockFree(r) == \A d \in Subscriber : ~(task[d].pc \in {"add", "remove"} /\ task[d].rp = r)

(* The lock is free: the remote publisher is started, or it was destroyed.   *)
(* A destroyed one has no origin any more, so that starting it raises.       *)
LockGot(c) ==
    /\ At(c, "lock")
    /\ LET t == task[c]
       IN /\ LockFree(t.rp)
          /\ IF Started(t.rp, t.broom)
             THEN task' = [task EXCEPT ![c].pc = "ready", ![c].rp = None]
             ELSE Finish(c)
    /\ UNCHANGED <<listed, pub, rp, broom, sub, janus>>

LockTimeout(c) ==
    /\ At(c, "lock")
    /\ Finish(c)
    /\ UNCHANGED <<listed, pub, rp, broom, sub, janus>>

\* Mutant: the origin goes on forwarding.
StillForwarded(p) == janus.forward

\* on_child_destroy()
Unforwarded(p) == janus.forward \ {p}

\* destroy() of one remote publisher r that is not destroyed.
DestroyRemote(r, up) ==
    LET p == rp[r].pub
        child == rp[r].parent /\ ~pub[p].gone /\ pub[p].up /\ r \in pub[p].children
    IN /\ rp' = [rp EXCEPT ![r] = Destroyed(@)]
       /\ pub' = [pub EXCEPT ![p].children = IF child THEN @ \ {r} ELSE @,
                             ![p].remote = IF @ = r THEN None ELSE @]
       /\ janus' = [Without(up) EXCEPT !.forward = IF child THEN Unforwarded(p) ELSE @]

\* start() is done and the remote publisher becomes a child of its origin.
Added(c) ==
    /\ Answered(c, "add", "ok")
    /\ LET t == task[c]
           p == t.pub
       IN \/ /\ ~pub[p].gone /\ pub[p].up
             /\ rp' = [rp EXCEPT ![t.rp].broom = t.broom, ![t.rp].parent = TRUE]
             /\ pub' = [pub EXCEPT ![p].children = @ \cup {t.rp}]
             /\ \E r \in Answers("ok") :
                  /\ janus' \in Effects(r, "ok", [janus EXCEPT !.forward = @ \cup {p}], janus)
                  /\ task' = [task EXCEPT ![c].pc = "forward", ![c].resp = r]
          \/ /\ pub[p].gone \/ ~pub[p].up
             /\ DestroyRemote(t.rp, IF broom[t.broom] = "valid" THEN {t.user} ELSE {})
             /\ Finish(c)
    /\ UNCHANGED <<listed, broom, sub>>

\* One with that id exists: it is removed, and the new one added again.
AddAgain(c) ==
    \/ /\ Answered(c, "add", "exists") /\ broom[task[c].broom] = "valid"
       /\ \E r \in Answers("ok") :
            /\ janus' \in Effects(r, "ok", Without({task[c].user}), janus)
            /\ task' = [task EXCEPT ![c].pc = "remove", ![c].resp = r]
       /\ UNCHANGED <<listed, pub, rp, broom, sub>>
    \/ /\ Answered(c, "remove", "ok") /\ broom[task[c].broom] = "valid"
       /\ SendsAdd(c, task[c])
       /\ UNCHANGED <<listed, pub, rp, broom, sub>>

\* Mutant: the loop ends with an error as with an answer.
ErrorIsAdded(c) ==
    /\ Answered(c, "add", "error")
    /\ rp' = [rp EXCEPT ![task[c].rp].broom = task[c].broom]
    /\ Finish(c)
    /\ UNCHANGED <<listed, pub, broom, sub, janus>>

\* A request fails, also because the backend room is lost meanwhile.
AddFails(c) ==
    /\ task[c].pc \in {"add", "remove"}
    /\ task[c].resp = "error" \/ broom[task[c].broom] = "dead"
    /\ DestroyRemote(task[c].rp, {})
    /\ Finish(c)
    /\ UNCHANGED <<listed, broom, sub>>

Forwarded(c) ==
    /\ Answered(c, "forward", "ok")
    /\ task' = [task EXCEPT ![c].pc = "ready", ![c].rp = None, ![c].resp = "none"]
    /\ UNCHANGED <<listed, pub, rp, broom, sub, janus>>

ForwardFails(c) ==
    /\ Answered(c, "forward", "error")
    /\ LET r == task[c].rp
       IN \/ /\ ~rp[r].destroyed
             /\ DestroyRemote(r, Removals({r}))
          \/ /\ rp[r].destroyed
             /\ UNCHANGED <<pub, rp, janus>>
    /\ Finish(c)
    /\ UNCHANGED <<listed, broom, sub>>

-----------------------------------------------------------------------------
\* An updated event is on its way: c has a feed that ended at the server.
FeedEnded(c, u) == /\ sub[c].on /\ sub[c].broom # Home
                   /\ sub[c].feeds[u] # None /\ <<c, u>> \notin janus.fed

(* A new subscriber attaches a backend handle first; then the request goes   *)
(* out. The feed is there if its publisher or remote publisher is. An event  *)
(* that was sent before is dealt with before the answer.                     *)
Ask(c) ==
    /\ At(c, "ready")
    /\ \A u \in User : ~FeedEnded(c, u)
    /\ LET t == task[c]
           there == IF t.broom = Home THEN ~pub[t.pub].gone /\ pub[t.pub].up
                                      ELSE t.user \in janus.remote
       IN \/ /\ t.new \/ sub[c].on
             /\ \E r \in IF there THEN Answers("ok") ELSE {"error"} :
                  /\ task' = [task EXCEPT ![c].pc = "join", ![c].resp = r]
                  /\ IF there /\ t.broom # Home
                     THEN janus' \in Effects(r, "ok", [janus EXCEPT !.fed = @ \cup {<<c, t.user>>}],
                                             janus)
                     ELSE UNCHANGED janus
          \/ /\ ~t.new /\ ~sub[c].on
             /\ Finish(c)
             /\ UNCHANGED janus
    /\ UNCHANGED <<listed, pub, rp, broom, sub>>

\* Mutant: the remote publisher is not told.
OnlyOrigin(c, p, b) == {}

\* The remote publisher that add_subscriber() and del_subscriber() tell.
Via(c, p, b) == IF b = Home THEN {} ELSE {pub[p].remote} \ {None}

\* At the server c gets nothing of U any more.
Unfed(c, U) == [janus EXCEPT !.fed = @ \ ({c} \X U)]

\* Mutant: the subscriber stays counted.
StillCounted(x, c) == x

\* Mutant: the origin is counted in place of the subscriber.
OriginCounted(x, c) == [x EXCEPT !.subs = @ \cup {x.pub}, !.idle = "used"]

\* add_subscriber() and del_subscriber() of a remote publisher.
Using(x, c) == [x EXCEPT !.subs = @ \cup {c}, !.idle = "used"]
Unused(x, c) == [x EXCEPT !.subs = @ \ {c},
                          !.idle = IF x.subs \ {c} # {} THEN "used"
                                   ELSE IF @ = "used" THEN "idle" ELSE @]

(* The answer names the feed; the publisher is who has its id now.           *)
Joined(c) ==
    /\ Answered(c, "join", "ok")
    /\ LET t == task[c]
           p == listed[t.user]
           takes == (t.new \/ sub[c].on) /\ p # None /\ sub[c].feeds[t.user] = None
           feeds == [sub[c].feeds EXCEPT ![t.user] = IF takes THEN p ELSE @]
       IN /\ sub' = IF t.new \/ sub[c].on
                    THEN [sub EXCEPT ![c] = [on |-> TRUE, broom |-> t.broom, feeds |-> feeds]]
                    ELSE sub
          /\ pub' = IF takes THEN [pub EXCEPT ![p].subs = @ \cup {c}] ELSE pub
          /\ rp' = [r \in Remote |-> IF takes /\ r \in Via(c, p, t.broom)
                                     THEN Using(rp[r], c) ELSE rp[r]]
    /\ Finish(c)
    /\ UNCHANGED <<listed, broom, janus>>

JoinFails(c) ==
    /\ Answered(c, "join", "error")
    /\ janus' = IF task[c].new THEN Unfed(c, User) ELSE janus
    /\ Finish(c)
    /\ UNCHANGED <<listed, pub, rp, broom, sub>>

\* del_subscriber() for the feeds of users U.
DropFeeds(c, U) ==
    LET P == {sub[c].feeds[u] : u \in U} \ {None}
        R == UNION {Via(c, p, sub[c].broom) : p \in P}
    IN /\ pub' = [p \in Publisher |-> IF p \in P THEN [pub[p] EXCEPT !.subs = @ \ {c}]
                                               ELSE pub[p]]
       /\ rp' = [r \in Remote |-> IF r \in R THEN Unused(rp[r], c) ELSE rp[r]]

FeedDropped(c, u) ==
    /\ DropFeeds(c, {u})
    /\ sub' = [sub EXCEPT ![c].feeds[u] = None]
    /\ janus' = Unfed(c, {u})
    /\ UNCHANGED <<listed, broom, task>>

Unsubscribe(c, u) ==
    /\ sub[c].on
    /\ At(c, "idle")
    /\ sub[c].feeds[u] # None
    /\ FeedDropped(c, u)

\* The updated event.
Updated(c, u) == FeedEnded(c, u) /\ FeedDropped(c, u)

\* The hangup event of a subscriber.
SubHangup(c) ==
    /\ sub[c].on
    /\ DropFeeds(c, User)
    /\ sub' = [sub EXCEPT ![c].feeds = [u \in User |-> None]]
    /\ janus' = Unfed(c, User)
    /\ UNCHANGED <<listed, broom, task>>

\* destroy(): it leaves, is detached or its backend handle is closed.
SubLeaves(c) ==
    /\ sub[c].on
    /\ DropFeeds(c, User)
    /\ sub' = [sub EXCEPT ![c] = NoSub]
    /\ janus' = Unfed(c, User)
    /\ UNCHANGED <<listed, broom, task>>

-----------------------------------------------------------------------------
\* Somebody waits to use remote publisher r.
Wanted(r) == \E c \in Subscriber : ~At(c, "idle") /\ task[c].pub = rp[r].pub

\* REMOTE_IDLE_TIMEOUT is over.
TimePasses(r) ==
    /\ ~rp[r].destroyed /\ rp[r].broom # None
    /\ rp[r].idle = "idle" /\ rp[r].subs = {}
    /\ "idle" \in Faults \/ ~Wanted(r)
    /\ rp' = [rp EXCEPT ![r].idle = "over"]
    /\ UNCHANGED <<listed, pub, broom, sub, task, janus>>

\* _check_idle()
CheckedIdle(x) == IF x.subs # {} THEN "used" ELSE IF x.idle = "used" THEN "idle" ELSE x.idle

(* A turn of _idle_check_routine(). The backend room is looked at in a way   *)
(* that never finds it invalid.                                              *)
IdleCheck(r) ==
    /\ ~rp[r].destroyed /\ rp[r].broom # None
    /\ LET idle == CheckedIdle(rp[r])
       IN \/ /\ idle # "over"
             /\ rp' = [rp EXCEPT ![r].idle = idle]
             /\ UNCHANGED <<pub, janus>>
          \/ /\ idle = "over"
             /\ "idle" \in Faults \/ ~Wanted(r)
             /\ DestroyRemote(r, Removals({r}))
    /\ UNCHANGED <<listed, broom, sub, task>>

-----------------------------------------------------------------------------
Resume(c) == \/ LockGot(c) \/ Added(c) \/ AddAgain(c) \/ AddFails(c) \/ Forwarded(c)
             \/ ForwardFails(c) \/ Ask(c) \/ Joined(c) \/ JoinFails(c)

Next == \/ \E p \in Publisher : \/ PubUp(p) \/ PubHangup(p) \/ PubLeaves(p)
                                \/ \E u \in User : PubJoins(p, u)
        \/ \E b \in BackendRoom : NewBackendRoom(b) \/ BackendRoomLost(b)
        \/ \E c \in Subscriber : \/ Resume(c) \/ LockTimeout(c) \/ SubLeaves(c) \/ SubHangup(c)
                                 \/ \E u \in User :
                                      \/ Subscribe(c, u) \/ Unsubscribe(c, u) \/ Updated(c, u)
                                      \/ \E b \in BackendRoom \cup {Home} : Join(c, u, b)
        \/ \E r \in Remote : TimePasses(r) \/ IdleCheck(r)

Spec == Init /\ [][Next]_vars

(* Requests are answered or time out, greenlets go on, time passes.          *)
Fairness == /\ \A c \in Subscriber : /\ WF_vars(Resume(c))
                                      /\ \A u \in User : WF_vars(Updated(c, u))
            /\ \A r \in Remote : WF_vars(TimePasses(r)) /\ WF_vars(IdleCheck(r))

FairSpec == Spec /\ Fairness
-----------------------------------------------------------------------------
Live(r) == ~rp[r].destroyed
Running(r) == Live(r) /\ rp[r].broom # None

(* A remote publisher is being started by one greenlet, or it is the child   *)
(* of a publisher that is there and sends: none outlives its origin, and     *)
(* none is left over from a start that failed.                               *)
TreeAlive ==
    /\ \A r \in Remote : Live(r) =>
         LET p == rp[r].pub
         IN IF Running(r)
            THEN /\ ~pub[p].gone /\ pub[p].up
                 /\ pub[p].remote = r /\ r \in pub[p].children
            ELSE \E c \in Subscriber : /\ task[c].pc \in {"add", "remove"}
                                       /\ task[c].rp = r
    /\ \A p \in Publisher : \A r \in pub[p].children \cup ({pub[p].remote} \ {None}) : Live(r)

(* The server of a publisher forwards its media only to a remote publisher   *)
(* that there is.                                                            *)
NoLostForward == \A p \in janus.forward : pub[p].children # {}

(* Publisher and subscriber know each other, so that the one learns of the   *)
(* other's end.                                                              *)
FeedsMutual == \A c \in Subscriber, p \in Publisher :
    c \in pub[p].subs <=> \E u \in User : sub[c].feeds[u] = p

(* What runs here is there at the server: subscribers can join it.           *)
RunningIsThere ==
    \A r \in Remote : Running(r) /\ broom[rp[r].broom] = "valid"
                        => pub[rp[r].pub].user \in janus.remote

(* What is there at the server is known here: somebody will remove it.       *)
NoStray ==
    (\E b \in BackendRoom : broom[b] = "valid") =>
        \A u \in janus.remote :
            \/ \E r \in Remote : Running(r) /\ pub[rp[r].pub].user = u
            \/ \E c \in Subscriber : task[c].pc \in {"add", "remove"} /\ task[c].user = u

Watches(c, r) == \E u \in User : /\ <<c, u>> \in janus.fed
                                 /\ sub[c].feeds[u] = rp[r].pub

(* A subscriber who gets media over a remote publisher is counted there, so  *)
(* that the idle timeout does not cut it off.                                *)
WatchedIsCounted ==
    \A r \in Remote, c \in Subscriber : Running(r) /\ Watches(c, r) => c \in rp[r].subs

Subscribed(r) == \E c \in Subscriber, u \in User :
    sub[c].feeds[u] = rp[r].pub /\ sub[c].broom # Home

(* A remote publisher nobody subscribes to ends.                             *)
UnusedEnds == \A r \in Remote : Running(r) ~> ~Running(r) \/ Subscribed(r)

(* Every request of a subscriber is answered, also when several wait for     *)
(* one remote publisher.                                                     *)
RequestsEnd == \A c \in Subscriber : ~At(c, "idle") ~> At(c, "idle")
(* Together: the tree has only what is alive, and feeds only what is there.  *)
TreeIsSound == TreeAlive /\ NoLostForward

(* Together: proxy and server agree about what runs at the server.           *)
ServerAgrees == RunningIsThere /\ NoStray

(* Together: unused remote publishers end, and requests end.                 *)
EverythingEnds == UnusedEnds /\ RequestsEnd
=============================================================================
