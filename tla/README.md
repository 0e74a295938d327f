# Janus-cloud: TLA+ models, model checking and proofs

Janus-cloud (Python, gevent) puts a cluster of Janus WebRTC servers behind one
signalling proxy. This directory holds the formal models of its concurrent core,
the TLC configurations that check them and the TLAPS proofs about them.

Scheduling assumption used everywhere: the program runs on one OS thread under
gevent. A greenlet runs without interruption until it waits (socket, sleep,
event, queue, lock). A TLA+ action is the code between two such waits.

Contents: 1 inventory, 2 plan, 3 the modules, 4 the runs, 5 bounds and fairness,
6 the proofs, 7 what the checks found, 8 what is not modelled.

## 1. Inventory

| Component | Source | State it keeps | Operations | What is hard |
|---|---|---|---|---|
| Backend session and handle | `core/backend_session.py`, `core/backend_handle.py` | registry of sessions by url, session state, pending transactions, handles, keepalive and auto-destroy greenlets, per-handle event queue | get, init, attach, request, destroy, detach, receive, keepalive | session lost while a request waits; late answers; callbacks run inside `destroy` |
| Frontend session | `core/frontend_session.py`, `core/request.py`, `core/frontend_handle_base.py`, `core/plugin_base.py` | sessions by id, owner transport, handles, last activity | create, claim, attach, detach, destroy, keepalive, timeout check, transport gone | requests of one session run in parallel greenlets; attach and detach wait for a backend |
| WebSocket transport | `transport/ws.py` | connection flags, ping time stamps, greenlet pool | receive, send, close, ping/pong check | messages of one connection are handled concurrently; a handler outlives its connection |
| Videocall plugin | `proxy/plugin/videocall.py`, `proxy/dao/*videocall_user_dao.py` | user record in the handle, copy of it in the DAO, backend handle, auto-disconnect timer, pending candidates | register, call, accept, set, hangup, incoming call, backend events | two users' greenlets and the backend's events meet on one handle; two copies of `incall` |
| P2P call plugin | `proxy/plugin/p2pcall.py` | as videocall without a backend | register, call, accept, set, hangup, peer event | both sides change both records |
| Videoroom plugin | `proxy/plugin/videoroom.py`, `proxy/dao/rd_room_dao.py` | rooms, publishers, subscribers, remote publishers, backend rooms | create/destroy, join, publish, cascade, subscribe, kick | cascade tree built across servers while members leave |
| Audiobridge plugin | `proxy/plugin/audiobridge.py` | rooms, participants, backend room | create/destroy, join, configure, mute, forward | room activated while participants join and leave |
| Echotest and dummytest plugins | `proxy/plugin/echotest.py`, `dummytest.py` | backend handle | attach, message, detach | attach waits for the backend |
| Backend server manager | `core/backend_server.py`, `proxy/dao/*server_dao.py`, `proxy/rest/backend_server_view.py` | servers with status, load, `utime`, `expire` | update, delete, choose, expiry sweep | stale reads around the DAO, expiry boundary |
| Sentinel: Janus server monitor and poster | `sentinel/janus_server.py`, `sentinel/poster*` | status, maintenance flag, sessions and handles count | ping, statistics, maintenance, post | status change during a ping that waits |
| Sentinel: process watcher | `sentinel/process_mngr.py` | popen, started flag, poll greenlet, aged flag | start, stop, async stop, poll | stop waits for the child while start may run |
| Sentinel: videoroom sweeper | `sentinel/videoroom_sweeper.py` | idle rooms with a time stamp, handle | check, connect, close | a room gets busy between the look and the destroy |
| Configuration, schema, logging, errors | `common/*`, `*/config.py` | none | parse, validate | none concurrent |
| REST views, main programs | `proxy/rest`, `sentinel/rest`, `*/main.py` | none of their own | forward to the components above | - |

### How the components interact

A client's message arrives on a websocket connection (`transport/ws.py`), runs in
a greenlet of the connection's pool and is dispatched by `core/request.py` to the
manager of frontend sessions, to one session, or to one plugin handle of it. A
plugin handle answers small requests in that greenlet and puts the others into a
queue that its own `_async_message_greenlet` works off. For a call or a room it
gets the shared **backend session** of a Janus server (`get_backend_session()`),
attaches a **backend handle** and sends requests that wait for an answer. Events
of the Janus server travel the other way: the receiving greenlet of the
connection puts them into the queue of a backend handle, whose greenlet calls the
plugin's `on_async_event()`. A lost session calls `on_close()` of every handle in
the greenlet that noticed. Plugins find each other's users and rooms through a
directory (DAO), in memory or in Redis when several proxies run. Beside each Janus
server a **sentinel** starts it (process watcher), pings it, and posts its status
to the proxies, whose backend server manager chooses a server for a new call or
room.

No state is persisted by the program itself (Redis entries are kept, and have an
owner), so there is no crash recovery to model; what fails is a connection, a
request, a backend, a listener, or a client that leaves or does not read what it is
sent. The last is worse than it looks: an event is sent by the greenlet that causes
it, the send waits up to 30 s, and the `gevent.Timeout` that ends it (`transport/ws.py`
line 123) is not an `Exception`, so that no except clause on the way stops it.

### What makes each component correct

- *Backend session*: one connection per server; nobody gets a dead session; every
  handle of a lost session is told exactly once; nobody waits for ever; nothing is
  left attached at the server that no one can detach.
- *Frontend session*: a handle is detached once and, whoever destroys the session,
  is not forgotten; a session on its way out is out of reach; an abandoned one
  ends.
- *Videocall and P2P call*: handle, directory and backend agree on who is in a
  call with whom; a user is in one call; a call that does not come about ends on
  both sides; a detached user is not listed.
- *Videoroom and audiobridge*: a backend room exists while it has publishers and
  is used only once it is created; a cascade tree has no remote publisher without
  its origin; who is told that somebody joined is told when he leaves.
- *Backend server manager*: a chosen server is valid at that moment; an updated
  one is not swept.
- *Sentinel*: the posted status is the newest one; no child process is forgotten;
  a room in use is not destroyed.
- *Transport*: a connection without pong is closed, one with traffic is not.

The concrete hazards, each at its line, are the `hazards` of `PROJECT.json`, with
the properties about them; one that no property covers says why.

## 2. Plan

In the order of importance; the first eight are done.

| # | Module | Models | State of it |
|---|---|---|---|
| 1 | `BackendSession`, abstract `BackendContract` | sessions and handles towards Janus | checked, invariants and the refinement proved |
| 2 | `FrontendSession` | sessions and handles of the clients | checked, invariants proved |
| 3 | `VideoCall` | calls, user directory, Janus plugin | checked, invariants proved |
| 4 | `VideoRoom` | a room, joining, publishing, leaving, kicking, backend rooms | checked, invariants proved |
| 5 | `Cascade` | a publisher, its remote publishers on other servers, subscribers | checked, invariants proved |
| 6 | `AudioBridge` | a room, its participants, the activation of its one backend room | checked, invariants proved |
| 7 | `ServerStatus` | the sentinel's monitor and poster and the proxies' directories of servers, composed | checked, invariants proved |
| 8 | `ProcWatcher` | start, stop, async stop, the poll greenlet, restart requests, quit | checked, invariants proved |
| 9 | `P2PCall` | P2P calls with the directory in Redis and two proxies | |
| 10 | `VideoroomSweeper` | idle rooms against users that join | |
| 11 | `HandleQueues` | the bounded event and message queues, stop message, detach | |
| 12 | ping/pong of `transport/ws.py` | | last |

Composition: `VideoCall`, `VideoRoom`, `Cascade` and `AudioBridge` use backend
handles only as `BackendContract` promises (attach when there is a session, an end
that is told once), so they take the contract's operations and not the session's
detail. `ServerStatus` puts the monitor, the poster and the directories of all
proxies into one module, because what matters is what comes out at the other end:
whether a proxy offers the server.

Abstract specifications: `BackendContract` (done); a call directory (a name leads
to one registered handle or to none) that `VideoCall` and `P2PCall` implement.

Runs: one passing run per module for safety, with symmetry where the identities
are many, and a second one for liveness where one run cannot do both. The
instances stay at two or three of each kind, the runs at a dozen. A behaviour of
the code that breaks a property one would like to have is described in section 7
with the change of the instance that shows it, not kept as a run.

Theorems: for each module the type invariant and the most important safety
invariant for all constants. All invariants the runs check are proved; what a plan
row does not call proved is liveness or not modelled yet.

## 3. The modules

An action is named after the function whose part it is; a function that waits is
several actions, cut at the waits. Mutants (definitions marked so in a comment)
are plausible bugs used to see that each property can fail.

### BackendSession

`core/backend_session.py` and `core/backend_handle.py`, for one url (sessions of
different urls share nothing).

| Variable | Code |
|---|---|
| `registry` | `_sessions.get(url)` |
| `sess[s]` | `state`, `_ws_client` (`ws`), the connection (`link`), `_handles`, `_auto_destroy_greenlet` (`timer`), where `_keepalive_greenlet` is (`keepalive`), a `destroy()` that waits in a listener (`closing`, `iter`, `whole`) |
| `handle[h]` | its session, `_has_detach` and why (`obj`), whether it exists at the Janus server (`janus`), attached after the proxy gave up (`late`) |
| `client[c]` | a plugin greenlet: where it waits, on which session, for what answer |

| Actions | Code |
|---|---|
| `GetSession`, `Awaited`, `Connected`, `ConnectFails`, `InfoAnswered`, `CreateAnswered`, `InitRequestFails` | `get_backend_session()`, `init()` with the polling of `async_init` and `_recv_msg_cbk` |
| `SendAttach`, `AttachAnswered`, `AttachFails` | `attach_handle()` before and after the wait |
| `Request`, `RequestEnds`, `Detach` | `send_message()` and its siblings, `detach()` |
| `Answer`, `JanusDetaches`, `JanusTimeout`, `ConnectionLost` | `_recv_msg_cbk()`, `_close_cbk()` |
| `Keepalive*`, `AutoDestroyFires` | `_keepalive_routine()`, `_auto_destroy_routine()` |
| `Destroy`, `DestroyGoesOn` | `destroy()` with `on_close()` of its handles; it is one step unless `ListenersBlock`, then each listener may wait |

Abstractions: sending on an open connection does not wait and a connection that
has been closed is gone at once; a transaction id is not modelled, an answer goes
to the one client that waits; an identifier of a session or handle is used again
once nothing refers to the object.

### BackendContract

What a plugin may rely on: there is a usable session or none, attaching needs one,
a handle ends once, and losing the session ends all its handles in that step.
`BackendSession` implements it under the mapping at the end of the module:
*usable* is ACTIVE with a connection, since the end of `init()` can make a lost
session ACTIVE again (it is then out of the registry and without a connection,
and its keepalive greenlet ends it).

### FrontendSession

`core/frontend_session.py` with its callers in `core/request.py` and
`transport/ws.py`.

| Variable | Code |
|---|---|
| `up` | connections that are open |
| `table` | `FrontendSessionManager._sessions` |
| `sess[s]` | `_has_destroyed`, `ts`, `_handles`, and `last_activity` as fresh or over the timeout |
| `handle[h]` | a plugin handle: in use, in use but its backend closed it, detached |
| `worker[w]` | a request greenlet, the greenlet of a connection, the timeout checker: what it waits for, the handles (`todo`) and sessions (`rest`) its loop has left |
| `lost` | sessions whose greenlet ended before it destroyed them (not in the code) |

`Receive` starts a greenlet for a message; `Create`, `Keepalive`, `Claim`,
`Attach` with `AttachEnds` or `AttachFails`, `Detach`, `DestroyRequest` and
`Refuse` are the requests; `TransportGone` and `CheckTimeouts` pop their sessions
before they destroy them one by one (`NextSession`, `DetachNext`). Each turn of
the loop over handles is a step because a plugin's `detach()` may wait; where it
does not this only adds interleavings. `Faults` says what may go wrong: the `detach()`
of a handle that lost its backend raises, as the one of the echotest does (`raise`),
and a client does not read the event that is sent to it (`stall`): the event *timeout*
of `_kick_timeout_sessions()` (`KickStalls`) or one that the `detach()` of a plugin
sends to somebody else (`DetachStalls`). The first is caught by the callers of
`destroy()`, which go on with the next session; the second ends the greenlet.

### VideoCall

`proxy/plugin/videocall.py`, `proxy/dao/mem_videocall_user_dao.py`, and from their
use the videocall plugin of the Janus server.

| Variable | Code |
|---|---|
| `handle[h]` | `videocall_user` (name, `incall`, `peer_name`), `backend_handle`, `_auto_disconnect_greenlet`, `_has_destroy` |
| `directory[u]` | the copy in the DAO: handle and `incall` |
| `task[h]` | the message greenlet: where in `call` or `hangup` it is, with its local variables |
| `backend[b]` | a backend handle: server, owner, registered name, peer, events under way |

`Register`, `Call` to `CallAnswered` or `CallRefused`, `Hangup`, `Detach` are the
client's requests; `Registered` to `PeerRegistered` contain `call_peer()` and
`handle_incoming_call()`, which run in the caller's greenlet but change the
callee; `IncomingCall`, `HangupEvent`, `BackendLost` are events of the backend;
`AutoDisconnect` is the timer. `JanusCalls` is the external server.

`Faults` says what may go wrong in an instance: the backend refuses, the handle is
closed, a client detaches, a callee hangs up early, a hangup event crosses the
user's own, a name is registered that somebody has or that a greenlet is still
calling (`namesake`; the code's check for it is commented out), the timer of a
callee expires before the server has the call (`slow`). It is a parameter because
the code does not survive all of them: what holds is stated with the faults under
which it holds.

Abstractions: trickle candidates, `set`, `accept`, `exists`, `list` and pending
settings change nothing kept here; events of a handle vanish when it is detached
and come after the answer to the request before them; the server refuses a name
that is registered; the relay to another proxy is left out.

### VideoRoom

`proxy/plugin/videoroom.py`: one `VideoRoom`, and from its use the videoroom
plugin of the Janus servers.

| Variable | Code |
|---|---|
| `room` | `_has_destroyed`, `_participants`, `_creating_user_id`, `_backend_rooms` |
| `handle[h]` | a `VideoRoomHandle`: `_has_destroy`, `participant` |
| `task[h]` | its message greenlet: where in a join or an offer it waits, with its local variables and the answer that came |
| `pub[p]` | a `VideoRoomPublisher`: its backend handle from `attach_handle()` on (`link`), whether it is stored in `_backend_handle` yet, `room`, `sdp`, `_has_destroyed` |
| `broom[b]` | a `BackendRoom`: its control handle likewise (`link`, `active`), `_lock`, `_has_destroyed` |
| `sweep` | `VideoRoom.destroy()`: whom it has still to tell (`tell`), the backend rooms it has taken from the table (`todo`); then the greenlet of `destroy_backend_rooms()` and the one it is at (`cur`) |
| `janus[s]` | the room at a Janus server and the handles inside |

A join is `Join` (the checks, the choice of the backend room), then, if the backend
room must be activated, `LockGot` or `LockTimeout`, `Attached`, `Created` or
`Recreate`, `Activated` or `ActivationFails`, then `Joined` or `JoinFails` and,
for joinandconfigure, `Published` or `PublishFails`. `JanusServes` and
`JanusRefuses` answer whichever request waits. `Leave`, `Detach`, `Kick`,
`HangUp`, `PubClosed` and `ControlClosed` end a publisher or a backend room,
`DestroyRoom` and `AutoCleanup` the room: its tables are cleared, then its
participants lose it and are told one after the other (`Told`; `ToldStalls` when one
does not read), then `SweepNext` and `SweepDone` give back the control handles one by
one. A `destroy()` that stalls leaves them in `todo`, with nobody to work it off.

Abstractions: a publisher's attach is one wait with its join (it has no effect of
its own in between, and its failure is that of the join); the server that
`choose_server()` returns is any; a detach reaches Janus at once; an answer that
comes is dealt with before a close that follows it, unless the fault `late` is on.
The events of a kick, a detach and a close, which are sent before the publisher is
ended, do not wait here, and so do those at the end of an operation: the publisher is
ended in the same step. What a client that does not read does there is in section 7.
The scan for the least used backend room in `choose_backend_room()` is left out
because its comparison never selects one.

### Cascade

The cascade mode of `proxy/plugin/videoroom.py`: how the media of a publisher gets
to subscribers at another server. Joining as a publisher and activating backend
rooms are in `VideoRoom` and are one step here.

| Variable | Code |
|---|---|
| `listed` | `_participants` of the room |
| `pub[p]` | a `VideoRoomPublisher`: `webrtc_started` (`up`), `_has_destroyed` (`gone`), `_remote_publishers`, `_children`, `_subscribers` |
| `rp[r]` | a `RemotePublisher`: `origin_publisher`, `_backend_room` (set once it is started), `_parent`, `_subscribers`, `_idle_ts` in three values |
| `broom[b]` | a `BackendRoom` of the second server: valid or destroyed |
| `sub[c]` | the `VideoRoomSubscriber` of a handle: `_backend_room`, `_feeds` |
| `task[c]` | the message greenlet of that handle: where in a join or a subscribe it waits |
| `janus` | at the second server the remote publishers and who is fed with whose media; at the first one who is forwarded |

A `Join` or `Subscribe` goes through `cascade()`: the remote publisher is found
started, or is waited for (`LockGot`, `LockTimeout`), or is made (`Added`,
`AddAgain`, `AddFails`, `Forwarded`, `ForwardFails`); then `Ask` sends the request
itself and `Joined` or `JoinFails` ends it. `PubHangup`, `PubLeaves`, `IdleCheck`
and the failures destroy remote publishers; `Unsubscribe`, `Updated`, `SubHangup`
and `SubLeaves` end feeds.

Abstractions: one second server, since nothing kept here is shared between two; one
feed in a request; a request is worked off when it is sent, in the order sent,
and an event the server sent before an answer is dealt with before it; the rooms
at the server are wiped when a backend room is activated (`VideoRoom` shows when);
time is whether `REMOTE_IDLE_TIMEOUT` is over. Streams, `update`, pause, `switch`
and the children a remote publisher could have (nothing adds one) are left out.

### AudioBridge

`proxy/plugin/audiobridge.py`: one `AudioBridgeRoom`, its participants, and from
its use the room of the audiobridge plugin at the Janus servers.

| Variable | Code |
|---|---|
| `room` | whether it is in `_rooms_map`, `_has_destroyed`, `_participants`, `_creating_user_id`, `_backend_handle` (`bh`), `_lock` and who has it |
| `handle[h]` | an `AudioBridgeHandle`: `_has_destroy`, `participant` |
| `part[p]` | an `AudioBridgeParticipant`: user id, frontend handle, the server it has attached at, `_backend_handle` (`link`), whether `.room` is set, how far its end is (`end`: a kick or a close tells clients, `destroy()` tells the others, that was cut short, done) |
| `backend[b]` | a control handle of the room |
| `task[g]` | a greenlet (that of a handle's queue, or of a request such as kick, edit or destroy): where it waits, for which request, with its local variables and the answer |
| `janus[s]` | the room at a Janus server and who is inside |

| Actions | Code |
|---|---|
| `Join`, `RoomRequest` | the checks of `new_participant()` or of a request that needs the backend room, and `activate_backend_room()` up to its first wait |
| `LockGot`, `LockTimeout`, `Attached`, `Created`, `Recreate`, `Activated`, `ActivationFails` | the rest of `activate_backend_room()` |
| `Joined`, `Greeted`, `JoinFails` | `new_participant()` after `participant.join()`, before and after the others are told |
| `Configure`, `MuteParticipant`, `PartAnswered`, `RoomAnswered` | requests over a participant's or the room's handle |
| `Leave`, `HangUp`, `Kick` or `PartClosed` with `Asked`, `Detach` with `DetachGoesOn` | what ends a participant, cut at the events that are sent first |
| `PartToldOthers`, `ToldHangup` | `participant.destroy()` after the others are told, and after its own client is |
| `ControlClosed` | `on_close()` of the room |
| `DestroyRoom`, `Collect`, `Drop`, `RoomTold`, `RoomDestroyed`, `RoomNotDestroyed` | `destroy()`, by request or by the idle cleanup, which first takes its rooms out of the map and destroys them one after the other; each participant is told before the next loses the room |
| `PartStalls`, `AskedStalls`, `GreetStalls`, `DetachStalls`, `RoomStalls` | a client does not read one of these events, and the greenlet ends there |
| `JanusServes`, `JanusRefuses` | the answer to whichever request waits |

`_backend_handle` is set as soon as the handle is attached, before the room exists
behind it, so a second join does not wait for the lock but joins at once; the
model has that overlap.

The field `stray` of a participant or a control handle is not in the code. It marks
the handles that the code leaves attached, at the step that does so: a control handle
stored when the room is destroyed already (`Attached`, line 957), a participant that
has ended, or whose frontend handle has, when its join goes on (`Joined`, `Greeted`,
line 2238), and what a stalled send cuts short (`GreetStalls`, line 1103; `PartStalls`,
line 1178; `RoomStalls`, line 869; `DetachStalls`, `frontend_handle_base.py` line 56).
`NoLostHandle` says that there are no others but for those of a destroy request that
fails (the link *left*, line 882), and `ListedIsThere` says what may be in the list.

Abstractions: a participant's attach is one wait with its join; a detach reaches Janus
at once; the requests of one handle are served in their order; what mutes, recordings,
edits, forwarders and groups set is left out, as are plain RTP and the reply that ends
an operation.

### ServerStatus

`sentinel/janus_server.py`, `sentinel/poster/http_poster.py`, `core/backend_server.py`
with its directories, and the end of `sentinel/main.py`: one Janus server, its
sentinel and all proxies.

| Variable | Code |
|---|---|
| `janus` | the Janus server is up |
| `js` | the `JanusServer`: `status`, `_in_maintenance`, `_has_destroy`, `_ws_client` and whether its end is still to be reported, the answer that waits for `pingpong()` |
| `poster` | the `HttpPoster`: `_state_changed_event`, `_cur_index`, and the status of its last post |
| `post[a]` | a `post()` that is under way, by the poster's greenlet or by `main()`: what it carries, to whom, how many are left to try |
| `late` | a post the poster gave up and that is still on its way |
| `dir[x]` | the entry of the server at proxy x: none, expired, NORMAL or another status |
| `sweep` | the proxy whose `_check_expired_routine()` has found the entry expired and not deleted it yet |

`PongArrives`, `PingAnswered`, `PingFails` and `ConnClosed` are `pingpong()` cut at
its wait and the callbacks of the connection; `StartMaintenance`, `StopMaintenance`
the REST requests; `PosterWakes`, `Delivered`, `TriesNext`, `PostFails` the poster's
loop; `Quit`, `MainPosts`, `Killed` the end of the sentinel; `LateArrives`,
`Expires`, `SweepFinds`, `SweepDeletes`, `Dropped` what happens at a proxy. The
status of a post is fixed when the post begins, before its waits, as in the code.

Abstractions: of the status a proxy only tells NORMAL from the rest
(`get_valid_servers()`); the choice among valid servers and the high-water mark
are left out; one late post at a time; expiry is untimed.

### ProcWatcher

`sentinel/process_mngr.py` with its users in `sentinel/main.py` and
`sentinel/rest/sentinel_view.py`.

| Variable | Code |
|---|---|
| `watcher` | the `ProcWatcher`: `_popen`, `_started`, the poll greenlet of this start |
| `child[c]` | a process: whether it has executed its program, runs or has exited, has got SIGKILL, and the `_terminate_run()` greenlet that waits for it |
| `watch[g]` | a poll greenlet: before its next check, or in `Popen` |
| `task[a]` | a restart request or `main()`: in `stop()` with the process it waits for, in `start()`'s `Popen`, or done |

`RestartStops` to `StopEnds` are `stop()`, cut at its two waits, and the `start()`
that follows it in the request; `StartEnds` and `StartFails` are the end of
`Popen` there; `Poller...` the poll greenlet; `Destroy`, `ReaperKills`,
`ReaperEnds`, `ProcessEnds` the quit. The points where greenlets take turns are
the waits for a child and `Popen` itself, which in gevent waits until the child
has executed its program.

`Destroy` looks at nothing: `rest_server.stop()` only stops accepting, so that requests
which are served go on in `stop()` and `start()` beside `async_stop()` and after it,
until the sentinel's process ends (`ProcessEnds`).

`NeverForgotten` is about steps: a process that runs and that somebody has (the watcher,
a `stop()` or `_terminate_run()` that waits for it, a `Popen` that has not returned), or
that has got SIGKILL, stays so, unless another launch that is over takes its place as
the watcher's. That two launches may overlap is in the model, and is the one way to lose
a process (section 7). The field `alone` is not in the code. It says of a process that
no other launch and no `stop()` came while `Popen` waited for it; `CanStart` is stated
for such processes, because without it it fails (section 7). Abstractions: no request
comes after the quit (`Served`); no time; `error_restart_interval` is positive (the
default is 10; 0 would mean no restart) and `age_time` zero, which `main()` leaves so;
`poll()` does not wait.

## 4. The runs

| Run | Properties | What it shows |
|---|---|---|
| `backend_session` | `TypeOK`, `RegistryIsSound`, `LossReported`, `UsersAreServed`, `NoOrphan`, `ImplementsContract` | With listeners that do not wait: one open connection, a registry without dead sessions, every handle told of a loss, event routing that is exactly the live handles, no orphan at the server, no timer beside a handle, and the refinement of `BackendContract`. |
| `backend_session_live` | `EverythingEnds` | With listeners that wait: every call returns, a session without handles ends, the end of a handle is final. |
| `frontend_session` | `TypeOK`, `DetachedOnce`, `AvoidFutureUsage`, `SessionsEnd` | Requests that overtake each other, closes and timeouts never detach a handle twice and do not reach a popped session; popped sessions are destroyed even when a `detach()` raises, abandoned ones leave the table; all that remains is what a send to a client who does not read has left when it ended its greenlet. |
| `video_call` | `TypeOK`, `NotTakenOver` | Three users whose names may be registered twice: no call takes over a user who is in another one, under every fault but detach. |
| `video_call_live` | `CallsAreReal`, `EverythingEnds` | Two users with three handles, who detach and come back: the directory leads to handles that are there, being in a call means a call, no timer runs while two users talk, requests end, nobody stays in a call that does not exist. |
| `videoroom` | `TypeOK`, `NoLostHandle`, `ActiveIsUsable`, `IdsAreTrue` | Whatever fails, closes or is destroyed during a join: no backend handle is lost, an active backend room can be joined, ids become free, no destroyed publisher is listed. |
| `videoroom_live` | `EverythingEnds` | Every message ends, although activations wait for each other and a room that exists is wiped and made again; a destroyed room gives back its control handles, but for those in its table when one of its clients does not read that it is destroyed. |
| `cascade` | `TypeOK`, `TreeIsSound`, `FeedsMutual`, `WatchedIsCounted` | Under every fault: no remote publisher outlives its origin or a start that failed; nothing is forwarded to nobody; publisher and subscriber know each other; who gets media over a remote publisher is counted there. |
| `cascade_live` | `ServerAgrees`, `EverythingEnds` | Requests fail and the backend room is lost: what runs at the proxy is there at the server and what is at the server is known to the proxy; an unused remote publisher ends; every request of a subscriber ends. |
| `audiobridge` | `TypeOK`, `NoLostHandle`, `WhatIsTakenIsFreed`, `ListedIsThere` | Two clients and an administrator, under every fault: a backend that fails and closes handles, clients that go during their join or do not read what they are sent. No backend handle is lost but the strays, the user ids and the lock become free, whoever is listed can leave and be kicked, whoever has the room is listed. |
| `server_status` | `TypeOK`, `NoLostWakeup`, `StatusHeld`, `UnfitIsDropped`, `FitIsOffered` | Posts that fail, come late or are swept, maintenance, and a sentinel that quits or is killed: no change of the status is slept through, no ping that waited undoes maintenance, and in the end a server is offered by the proxies when it is fit and only then. |
| `proc_watcher` | `TypeOK`, `CanStart`, `NeverForgotten`, `KeptRunning`, `RequestsEnd` | Two restart requests, the quit and the poll greenlet overlap, with a process that exits, ignores SIGTERM or cannot be executed: a process that runs is forgotten only when another launch takes its place, a stopped watcher can be started again, an exited process is launched again and each request is answered. |

Every property has a mutant of the code that breaks it, one for each part of those
that are a conjunction of several.

## 5. Bounds and fairness

*BackendSession*: two clients, two sessions, two handles. Two clients are needed for one
to poll or attach while the other initialises or detaches; two sessions for an old one
to end late beside its successor; two handles for a destroy that is interrupted between
them. A third session would have to wait for one of the others to be forgotten, since
only one can be registered. The liveness run has one handle. *FrontendSession*: two
connections (claim), two sessions (one expires while the other is destroyed), two
handles, a request that overtakes the checker and the connections' greenlets; all in one
run for safety and liveness. *VideoCall*: the third user calls somebody who is in a
call; two backend handles are a pair, so only one call reaches the server at a time. The
liveness run has two users and three handles, so that a user who detached comes back
under his name while a greenlet still works for the old handle; detaching is its only
fault, for the reasons in section 7: with each of the others what it checks does not
hold. *VideoRoom*: two handles with two user ids on one server, so that one join waits
for the activation of the other and meets what ends it; two publishers and two backend
rooms, the old one and the one that replaces it; the limit of publishers is one, so that
it is met. The liveness run has one user id, failing requests and clients that do not
read: the close of a handle is one more way to fail there. *Cascade*: two subscribers,
one of which starts the remote publisher the other waits for; two remote publishers and
two backend rooms, the old one that still is in use and its successor; in the safety run
two publishers that have one id after each other. The liveness run has one publisher and
one backend room. Its faults exclude `timeout`, `rejoin` and `again`, for the reasons
given in section 7.

*AudioBridge*: two clients with two user ids, so that one joins during the
activation of the other or waits for its lock; one more greenlet for a kick, an
edit or the destruction; two control handles, the lost one and its successor. One
server: a second one only adds the split of section 7. All faults are on. A state
constraint (`Bound` in `MCAudioBridge`) keeps the instance in reach: at most three
things wait at once (`MaxWaiting`: a greenlet, a kick, an end or a detach that tells
somebody), two when there is a stray, at most one handle is a stray, and a request
about one participant comes when no other greenlet waits. Three is what it takes for
a join and an activation to meet the end of the room or of a participant; the proofs
have no such bound. *ServerStatus*: two proxies, so
that the round robin matters and a post goes to the other one when it fails; all
faults.
*ProcWatcher*: two requests and the quit, which may come in the middle of both; four
processes and three poll greenlets, the identities of which are used again, and a
request is served only while there is one left for what it may spawn
(`RoomForRequest`) and before the quit (`Served`); a program cannot be executed once
(`MaxFailures`), after which a launch succeeds.

The configurations of `VideoRoom` and `AudioBridge` have a VIEW that forgets what
is left in an object nothing refers to; such an object is only used again with a
new record, so no behaviour depends on it. Time is not counted: a timeout, a sleep
or an expiry may happen whenever it is under way.

Fairness assumed, weak but for one case: the wait for an answer ends
(`wait_response` has a timeout, a send to a client too), sleeps and timers come due, a
loop goes on, a queued greenlet runs. Nothing is assumed of clients (no one need detach,
hang up or read) and nothing of the Janus server in `BackendSession`; in `VideoCall` a
request is
answered or times out and delivered events are handled, in `VideoRoom` and
`Cascade` likewise. In `ServerStatus` the post to one proxy is strongly fair: a
proxy that is posted to again and again answers at times, or it would be cut off
for good and its directory could not be right. In `ProcWatcher` a process that has
got SIGKILL exits; one that has got SIGTERM need not. `AbandonedEnds` (a part of
`SessionsEnd`) is about sessions that requests do not keep reaching: a client may
keep one alive for ever.

`AudioBridge` is checked for safety only; with its liveness the smallest instance
in which an activation is waited for takes too long.

`CHECK_DEADLOCK FALSE` stands in the configurations of `VideoCall`, `VideoRoom`,
`AudioBridge`, `ServerStatus` and `ProcWatcher`: when all names are registered and
nobody calls, when all handles are detached and the room is destroyed, when the
sentinel's process has ended, there is nothing to do.

## 6. The proofs

For all values of the constants, checked by TLAPS.

`BackendSession_proofs`:
- `TypeCorrect`: `[]TypeOK`, with and without waiting listeners. Its invariant adds
  `Owned` (a live handle has a session, a waiting client has one) because
  `handle[h].sess` is applied to `sess`.
- `Agreed`: the inductive invariant when listeners do not wait. `Connections` ties
  the open link to the registry; `Creators` gives a registered session in state
  CREATING its one initialising client; `Users` says what a waiting or holding
  client knows; `Handles` says that the table of a session is its live handles.
  None is inductive alone: an answer to `attach` makes a handle live in the
  session the *client* remembers, so the table needs `Users`; that this session is
  connected needs `Connections`; and that an old `init()` which ends late does not
  revive a second connection needs `Creators`.
- from it `OneConnectionHolds` and `RegisteredIsAliveHolds`, together
  `RegistryIsSoundHolds`; `LiveIsUsableHolds`, `RoutesToLiveHolds` and
  `TimerOnlyWhenUnusedHolds`, together `UsersAreServedHolds`.
- `NoOrphanHolds` from one more invariant, `Attended`: `NoOrphan` for every handle,
  and that a session which has not connected yet has none at its Janus server;
  without that the orphans of an earlier connection could come back with a new
  one. Each step shows that waiting greenlets go on waiting for their handles.
- `ImplementsContractHolds`: the refinement of `BackendContract`. `Contracted` says
  that a step is one of the contract's or a stutter under the mapping of the
  module; the lemmas `...Contract` show it action by action, those of clients with
  `Users`, those of connections with `Connections`. `EndsOnceHolds` follows from
  the same invariant as an action property of `Spec`.
  All but `TypeCorrect` assume `~ListenersBlock`: otherwise `LossReported` fails
  (section 7), and with it the table. For the same reason `LossReportedHolds` is a lemma
  and no result: listeners that wait are the case it should be about.

`FrontendSession_proofs`:
- `Inductive`: types, the shape of each greenlet's record, the place of every
  handle (at most one table or loop) and that popped sessions are out of the table
  and of each other's loops, and that a session which was popped and is not destroyed
  is in one of those loops or lost (`PoppedIsPending`), under both faults.
- from it `TypeCorrect`, `DetachedOnceHolds`, `AvoidFutureUsageHolds` and
  `PoppedIsPendingHolds`, the safety half of `PoppedEnds`: a `detach()` that raises makes
  nobody forget a session, only a send that times out does.

The steps are argued with four kinds of lemmas on where a handle can be (kept,
taken out, put in, removed), so each action needs one short proof.

`AudioBridge_proofs`, under every set of faults:
- `Inductive`: `TypeOK`; `Shapes`, what a greenlet that waits has in its local
  variables (a join has a user id and is in the greenlet of its handle, a request
  over the control handle has one); `IdsFreed` and `LockFreed`. From it
  `TypeCorrect` and `WhatIsTakenIsFreedHolds`. `OneTask` says once what a step of
  one greenlet owes to the invariant, so each action only shows how it leaves the
  id and the lock.
- `NoLostHandleHolds` from two more invariants. `PartInv`: a participant with an
  attached handle is its frontend handle's or its join's, or is telling the others that
  it leaves, or a stray; a handle whose join waits has no other participant, which is
  what lets `Joined` and `Greeted` set it. `ControlInv`: who is between `Attached` and
  `Activated` has the lock, and the room's control handle is its own or none, so no
  second activation replaces one that is attached; the room keeps an attached one only
  as long as its `destroy()` is still to come to it (`Ready`); who destroys a control
  handle finds the room destroyed, so that the close of one cannot make a room that goes
  on forget another.
- `ListedIsThereHolds` from `ListInv`, which rests on `PartInv`. `Lists` is
  `ListedIsThere` with the participant's way back to its frontend handle (`Held`).
  `IdKept`: nobody is listed under the id of a join that waits and no two joins that
  wait have one id. While the room lives, its `_creating_user_id` says so; `destroy()`
  empties it with joins still waiting, and then only the refusal of new joins keeps
  their ids apart. `Enters`: a participant whose join waits is in no room yet, and its
  end, if it came before the greenlet, is over, so that `Joined` makes it a stray and
  nothing else of it.

`ServerStatus_proofs`: `TypeCorrect`, `NoLostWakeupHolds` and `StatusHeldHolds`, for
any number of proxies and every set of faults. Both invariants are inductive with
the types: a status only changes in `Becomes()`, which sets the event of the poster,
and a poster that clears the event posts the status of that moment; a maintained
server's status is maintenance when maintenance begins and is not set during it.

`ProcWatcher_proofs`, for any number of requests, processes and launches that fail:
- `Inductive`: types; `Shapes` and `Launching`, who waits for a child has one, and
  each greenlet in `Popen` one of its own; `Alone`: of two launches neither is
  alone, a process of the watcher is not once another one is launched, and a poll
  greenlet whose launch is alone is still the watcher's. Without the last nothing
  is known of the watcher when `Popen` returns. `CanStart` is inductive with these.
- from it `TypeCorrect`, `CanStartHolds` and, as an action property, `NeverForgottenHolds`:
  each step keeps every process that runs with whoever had it, or names the launch that
  displaced it. That needs `Shapes` and `Launching`: a process that a greenlet has in
  `Popen` is not one that runs, so nothing is lost when its greenlet goes on.

`Cascade_proofs`, for any number of users, publishers, remote publishers,
subscribers and backend rooms, and but for the last under every set of faults. Four
layers, each inductive with those before it:
- `Sound` is `TypeOK`, the shapes of the greenlets' records, `Placed` (a subscriber
  that has joined is at some backend room) and `Tree`. A remote publisher is known
  by its origin, by the one greenlet that starts it, or by both, and they need not
  agree: the origin may leave while the answer to `add_remote_publisher` is on its
  way. `TaskOK` says which disagreements are possible; `TreeIsSound` alone is not
  inductive because it says nothing of a remote publisher between its making and
  the answer. From it `TypeCorrect` and `TreeIsSoundHolds`.
- `Feeds`: who has whom as a feed is among the publisher's subscribers, and a feed
  is kept under the id its publisher has. From it `FeedsMutualHolds`.
- `Waiting` (a greenlet and the subscriber it works for agree on the backend room)
  and `Counted`. The counts have to be right from the moment the server *answers*
  the add, not when the greenlet learns of it, and an add is answered with ok only
  when nobody is fed from that user yet; a subscriber asks for more only after the
  events of feeds that ended were dealt with. From it `WatchedIsCountedHolds`.
- `Settled`: one publisher per id is waited for and one greenlet starts it
  (`Asking`), and what the server has is what runs or has been added here, exactly
  (`Agrees`). From it `ServerAgreesHolds`, under `NoDrift`, without the faults `timeout`
  and `rejoin`. The code meets both, and the property does not hold with them (a request
  given up may still have had its effect), so this is a lemma about the instance of the
  run `cascade_live` for more publishers, and no result.

`VideoRoom_proofs`, for any number of handles, users, publishers, backend rooms and
servers, and but for the last under every set of faults:
- `IInv` is `TypeOK`, the local variables of the greenlets that wait (`Shapes`) and
  `IdsFreed`. From it `TypeCorrect` and `IdsFreedHolds`.
- `PubInv`: the publisher of a join that waits is nobody else's, is neither stored
  nor in the room, and has no attached handle once it is destroyed (`Fresh`); any
  other attached handle is stored in a publisher that is not destroyed (`OpenPub`).
  Without `Fresh` the answer to one join could store a handle in a publisher that
  another greenlet has ended.
- `BroomInv`: who activates a backend room has its lock (`Held`, `Locks`), an attached
  control handle is that of an active backend room, of the lock's holder or of the sweep
  (`OpenBroom`), and a backend room that is not destroyed is the one of its server in
  the table, or one that `destroy()` has taken from it (`Live`, `InTable`).
  `ActiveIsUsable` is about the room at the Janus server, which only who creates it
  wipes; that this is not the room behind another backend room of the table needs
  `Live`, and `Live` needs `Locks`.
- from these `NoLostHandleHolds` and `ActiveIsUsableHolds`.
- `TellInv`: whom `destroy()` has still to tell is not listed and is not the publisher of
  a join, so that taking the room off it disturbs no one in the list.
- `IdInv`: who is listed has that id and is not destroyed, nor is a publisher whose
  join was answered. From it `IdsAreTrueHolds` without the fault `late`, with which
  it does not hold (section 7).

`VideoCall_proofs`, for any number of users, handles, servers and backend handles,
in five layers, each with its own set of faults and inductive with those before it:
- `IInv`: `TypeOK`, the local variables of the greenlets that wait (`TaskShape`), and
  that an attached backend handle has a listener. From it `TypeCorrect`.
- `ListInv` adds that a detached handle has no user and that who has no user is in
  no call (`Nameless`): a greenlet that goes on with a handle that was detached
  enters nothing. From it `ListedIsThereHolds`, with every fault, and
  `NotTakenOverHolds`, the action property, likewise: all steps but register, detach
  and attach are `SteadyStep`s, in which nobody enters a call from another one.
- `NameInv`, without `namesake`: a name belongs to one handle, in the proxy and at
  the servers (the lemma `NamesAreTrue`).
- `HoldInv`, without `loss`: what a handle has as its backend handle, and what a
  greenlet has in its local variables, is open, has that handle as its listener, and
  is nobody else's (the lemma `HoldsAreTrue`).
- `RoleInv`, with no fault but `detach`: a handle is a caller, a callee or at rest,
  and what it then has is fixed (`Rest`, `Caller`, `Callee`). An open backend handle of
  a handle that is there is its backend handle or in the local variables of one
  greenlet (`Kept`), and nothing has happened to it before the call reaches it
  (`QuietLocals`), so that an event comes to the backend handle that the handle has,
  although `on_async_event()` does not look (`EventHome`). Until the server has the
  call, the one who is called waits for it with its timer (`Expects`); the server
  therefore calls exactly him, and his timer is stopped by the event (`Talks`).
  `InCallIsReal` and `TalkIsUntimed` are not inductive without these: each step that
  ends a call has to know that no greenlet is half way through it.
  From it the lemma `CallsAreRealHolds`. Most steps only end calls; the lemma `RoleLeaving` says
  once what such a step owes to the invariant, and `RoleFails` what one owes that
  gives up a call which cannot be set up.

The last three layers assume what the code does not see to: it does not refuse a name
in use, loses backend sessions, and meets every fault. They say why `CallsAreReal` holds
where it holds, for more users than TLC can take, and are lemmas; the results for every
fault are the first three theorems.

Only model-checked: all liveness, and the mode of `BackendSession` with waiting
listeners but for its types. Liveness is out of the prover's reach.

## 7. What the checks found

The first behaviours were found by TLC in instances that differ from the runs as
stated, and each counterexample follows the code.

- With `ListenersBlock = TRUE`, `LossReported` of `BackendSession` fails: a listener
  that waits inside `on_close()` (the publisher of a videoroom sends events there)
  lets another greenlet change the dict that `destroy()` iterates; the rest of the
  handles is never told (`backend_session.py:186`).
- With two requests and `Faults = {}`, `NoHandleOutlives` of `FrontendSession` fails: an
  attach that waits for its backend while the session is destroyed leaves a handle in
  the dead session (`frontend_session.py:84`).
- With two servers, `OnePerId` of `VideoRoom` fails: two handles that join with one
  user id while backend rooms are activated both get in, because the id is noted
  only after that wait (`videoroom.py:3299`).
- With the fault `raise`, a `detach()` that raises ends the loop of `destroy()` of a
  session, whose docstring promises no exception, and the rest of its handles is never
  detached (`frontend_session.py:57`).
- With the fault `connect` beside `detach`, `InCallIsReal` of `VideoCall` fails: a
  backend that refuses the caller leads to an except clause that uses a local
  variable which is not bound, and the caller stays in a call for ever
  (`videocall.py:282`).
- With three handles and the fault `namesake` it fails the same way: two handles with
  one name make calls, and the server refuses the second one; or a call that was on its
  way reaches whoever took the name meanwhile. So do `loss`, `early`, `late` and, with
  three users (two do no harm), `slow`: `self.backend_handle` is set after the wait,
  when the call may be over (`videocall.py:183`, line 274), and the next call finds
  itself already connected and ends in that except clause. With two handles `namesake`
  does no harm, an instance too small to show it.

Seen on the way: a session can be created or claimed for a connection that has already
closed and then lives until its timeout (`transport/ws.py:220`); a handle whose
name another one registered takes the entry back with its next call
(`mem_videocall_user_dao.py:33`); a hangup event of an earlier call ends the one
that followed (`videocall.py:400`); a client that detaches during the set-up of
its call, or a slow call that meets the auto-disconnect timer and a third user,
leaves a backend handle that nobody detaches (`videocall.py:274`); a callee that
cannot be connected stays busy in the directory (`videocall.py:183`); in a
videoroom, a handle detached while its join waits leaves its participant in the
room (`videoroom.py:4259`), the limit of publishers is exceeded by handles that
were counted before their offers were answered (`videoroom.py:4241`), and a
publisher whose backend handle closes between the answer to its join and the
greenlet is listed although it is destroyed (`videoroom.py:2403`).

In `Cascade`, three things keep three of the faults out of the liveness run. A request
to add a remote publisher that times out but is served leaves one at the server
that nobody removes until the id is added again (`timeout`, `NoStray`). The origin
leaves while its remote publisher is started, a new publisher takes its id and
starts one of its own: when the first start ends, it is destroyed and its removal,
which goes by the user id, removes the successor's (`rejoin`, `RunningIsThere`,
`videoroom.py:2482`). And a subscriber that a remote publisher still being started
has counted, whose publisher hangs up and comes back before that start is over,
stays counted after it left, so that the remote publisher never becomes idle
(`again`, `UnusedEnds`, `videoroom.py:1366`). Besides, `_idle_check_routine()` looks
for `is_valid() is None`, which `is_valid()` never is (`videoroom.py:2733`): a remote
publisher whose backend room is gone ends with its idle timeout and not at once.

A client who does not read is the subject of the faults `stall`. `send_message()` of
`transport/ws.py` gives up after 30 s with a `gevent.Timeout`, and every except clause
on its way is for `Exception`. TLC shows the following.

- `FrontendSession`: the event *timeout* of a session that has expired ends the greenlet
  of `_check_session_timeout_routine()`. The sessions it had popped with that one are
  never destroyed, and no session expires from then on (`frontend_session.py:182`;
  without the disjuncts for `lost` and the dead checker `PoppedEnds` and `AbandonedEnds`
  fail).
- `VideoRoom`: `destroy()` has cleared the tables when it tells the participants. A
  timeout there, of one of them, leaves the control handles of all backend rooms
  attached and the rooms at the Janus servers, and no greenlet that would give them back
  (`videoroom.py:3147`, before line 3156).
- `AudioBridge`: in the same way `destroy()` of a room leaves its control handle
  (`audiobridge.py:869`), `destroy()` of a participant its backend handle, with
  `_has_destroyed` set (line 1178), a join a participant that is in the list and no
  frontend handle's (line 1103), and `detach()` one whose frontend handle is gone
  (`frontend_handle_base.py:56`). A kick or `on_close()` that stalls leaves a
  participant in the list (line 1134, line 745), in the case of `on_close()` one whose
  backend handle is gone.

Not in the models, and seen in the code: a kick, a detach or a close of a videoroom
publisher is cut short likewise, before it is destroyed (`videoroom.py:3435`, line 2416,
line 3835).

In `AudioBridge` besides: a destroy request that fails raises once more in its except
clause, which logs `backend_room_id`, an attribute the room does not have, so that
the control handle is never detached (`audiobridge.py:882`; the link *left* of the
model, which `NoLostHandle` does not count). A room that is destroyed while its
activation attaches keeps the control handle that comes then, unused (line 957), and a
participant whose backend handle closes between the answer to its join and the greenlet
is listed although it is destroyed (line 1097). An
activation after the control handle was lost destroys the old room at the Janus
server with everybody in it, and they stay listed (line 961). A join that waited for
the activation attaches at the server the room has by then, which need not be the
one of those who are in it (line 1082). Since the control handle is published before
its room is created, a request that overtakes the creation fails, or enters a room
that is about to be wiped (line 957). A handle that is detached while its join waits
leaves its participant in the room (line 2238), and after `destroy()` of the room its
participants cannot leave, for they have no room (line 2300).

In `ServerStatus`: with three or more proxies that keep their directory in memory,
an entry expires between two posts, since each proxy gets every third post or fewer
(`http_poster.py:64`). A post that was given up and comes late overwrites a newer
status until the next one; a sweep that read an expired entry deletes the one that
has been updated since (`backend_server.py:163`). Both heal, as `FitIsOffered` and
`UnfitIsDropped` say.

In `ProcWatcher`: a request that is served when the sentinel quits may be in `stop()`
or `start()`, and then launches a process when the watcher has been destroyed
(`main.py:119`). `stop()` returns at once while another one still waits for the
process, though its docstring says that the process has terminated then
(`process_mngr.py:274`). A restart request that comes while the one before it
launches the process again launches one too, and two Janus processes run, one of
them unknown (line 251). A `stop()` that comes
while the poll greenlet launches (line 154) finds no process, and the one that is
launched belongs to a watcher that is not started, whose `start()` raises from then
on (line 248). At quit the sentinel's process may end before `_terminate_run()` has
killed the Janus process (`main.py:138`).

## 8. What is not modelled

Components with status `not_modelled` in `PROJECT.json` and a number in the plan
are to come. Left out for good: configuration, schema, logging and error classes
(no state), the rest of the REST views and main programs (they forward), the echotest and
dummytest plugins (one backend handle, attached and detached; their `detach()`
that raises is in `FrontendSession`), and in the modelled components the content
of messages, error codes and statistics. What is left out of a component that is
modelled partly is in its `note` in `PROJECT.json` and in its section above.
