---------------------------- MODULE ServerStatus ----------------------------
(* How a Janus server comes to be offered by the proxies, and stops to be:  *)
(* the sentinel's JanusServer that pings it (sentinel/janus_server.py), the *)
(* poster that tells the proxies (sentinel/poster/http_poster.py), and each *)
(* proxy's directory of backend servers with its expiry sweep               *)
(* (core/backend_server.py, proxy/dao/rd_server_dao.py).                    *)
(*                                                                          *)
(* A post carries the status of the moment it is made. It goes to one proxy *)
(* after the other until one answers, the next post to the one after that.  *)
(* A post may be lost, and may be dealt with after the poster gave it up.   *)
(* Of the status a post carries the proxies only tell NORMAL from the rest. *)
(* The high-water mark, one more status that is not NORMAL, is left out;    *)
(* session and handle numbers only appear as a reason to post.              *)
EXTENDS Naturals

CONSTANTS
    Proxies,        \* the number of the poster's post_urls
    Faults          \* what may happen besides, some of AllFaults

AllFaults == {"lose",       \* a post fails
              "late",       \* one that failed is dealt with later
              "quit",       \* the sentinel quits or is killed
              "maintain",   \* an administrator starts and stops maintenance
              "remove"}     \* one deletes the server from a directory

ASSUME ServerStatusAssumption == /\ Proxies \in Nat \ {0}
                                 /\ Faults \subseteq AllFaults

VARIABLES
    janus,      \* the Janus server is up
    js,         \* the JanusServer
    post,       \* the posts that are being made, by the poster and by main()
    poster,     \* the HttpPoster
    dir,        \* each proxy's entry for the server, whatever status once it is expired
    late,       \* a post that was given up and is still on its way, one at a time
    sweep       \* a proxy whose _check_expired_routine() deletes the entry, or 0

vars == <<janus, js, post, poster, dir, late, sweep>>

Proxy == 1..Proxies
Actor == {"poster", "main"}
Status == {"normal", "abnormal", "maintenance"}
Note == {"none", "normal", "other"}

JanusServerRec == [status: Status,
                   maint: BOOLEAN,          \* _in_maintenance
                   gone: {"no", "destroyed", "ended"},  \* _has_destroy, the process ended
                   conn: {"none", "open", "dead"},  \* _ws_client
                   closing: BOOLEAN,        \* the end of a client is still to be reported
                   pong: BOOLEAN]           \* an answer is there for pingpong()

PosterRec == [event: BOOLEAN,       \* _state_changed_event
              index: Proxy,         \* _cur_index
              told: Note]           \* the status of its last post

PostRec == [pc: {"idle", "send"}, note: Note, to: Proxy, left: 0..Proxies]

TypeOK == /\ janus \in BOOLEAN
          /\ js \in JanusServerRec
          /\ post \in [Actor -> PostRec]
          /\ poster \in PosterRec
          /\ dir \in [Proxy -> Note \cup {"expired"}]
          /\ late \in [to: Proxy, note: Note]
          /\ sweep \in 0..Proxies

NoPost == [pc |-> "idle", note |-> "none", to |-> 1, left |-> 0]
NotLate == [to |-> 1, note |-> "none"]

NoJanusServer == [status |-> "abnormal", maint |-> FALSE, gone |-> "no", conn |-> "none",
                  closing |-> FALSE, pong |-> FALSE]

Init == /\ janus = FALSE
        /\ js = NoJanusServer
        /\ post = [a \in Actor |-> NoPost]
        /\ poster = [event |-> FALSE, index |-> 1, told |-> "none"]
        /\ dir = [x \in Proxy |-> "none"]
        /\ late = NotLate
        /\ sweep = 0

-----------------------------------------------------------------------------
Alive == js.gone = "no"

\* on_status_changed(), on_stat_updated()
Notified(p) == [p EXCEPT !.event = TRUE]

\* Mutant: maintenance is not looked at.
StatusForced(j, s) == IF j.gone = "no" THEN [j EXCEPT !.status = s] ELSE j

StatusSet(j, s) == IF j.gone = "no" /\ ~j.maint THEN [j EXCEPT !.status = s] ELSE j

\* Mutant: the listeners are not told.
BecomesQuietly(j) == /\ js' = j
                     /\ UNCHANGED poster

\* The JanusServer becomes j; a change of its status is reported.
Becomes(j) ==
    /\ js' = j
    /\ poster' = IF j.status # js.status THEN Notified(poster) ELSE poster

\* The server starts, hangs with its connections open, or ends with them.
JanusStarts ==
    /\ ~janus
    /\ janus' = TRUE
    /\ UNCHANGED <<js, post, poster, dir, late, sweep>>

JanusStops(closes) ==
    /\ janus
    /\ janus' = FALSE
    /\ js' = IF closes /\ js.conn = "open" THEN [js EXCEPT !.conn = "dead", !.closing = TRUE]
                                           ELSE js
    /\ UNCHANGED <<post, poster, dir, late, sweep>>

\* The server answers; the greenlet of pingpong() goes on later.
PongArrives ==
    /\ Alive
    /\ janus
    /\ js.conn \in {"none", "open"}
    /\ js' = [js EXCEPT !.conn = "open", !.pong = TRUE]
    /\ UNCHANGED <<janus, post, poster, dir, late, sweep>>

PingAnswered ==
    /\ Alive /\ js.pong
    /\ Becomes(StatusSet([js EXCEPT !.pong = FALSE], "normal"))
    /\ UNCHANGED <<janus, post, dir, late, sweep>>

\* Mutant: a failed ping leaves the status.
StatusLeft(j) == j

FailedStatus(j) == StatusSet(j, "abnormal")

\* A client whose connection was lost stays until a ping over it fails.
PingFails ==
    /\ Alive /\ ~js.pong
    /\ ~janus \/ js.conn = "dead"
    /\ Becomes(FailedStatus([js EXCEPT !.conn = "none", !.closing = @ \/ js.conn = "open"]))
    /\ UNCHANGED <<janus, post, dir, late, sweep>>

\* _close_cbk(), of the client in use or of one that was given up.
ConnClosed ==
    /\ Alive /\ js.closing
    /\ Becomes(StatusSet([js EXCEPT !.closing = FALSE], "abnormal"))
    /\ UNCHANGED <<janus, post, dir, late, sweep>>

StartMaintenance ==
    /\ "maintain" \in Faults
    /\ Alive /\ ~js.maint
    /\ Becomes([StatusSet(js, "maintenance") EXCEPT !.maint = TRUE])
    /\ UNCHANGED <<janus, post, dir, late, sweep>>

StopMaintenance ==
    /\ Alive /\ js.maint
    /\ Becomes(StatusSet([js EXCEPT !.maint = FALSE], "abnormal"))
    /\ UNCHANGED <<janus, post, dir, late, sweep>>

\* query_stat() has found other numbers.
StatUpdated ==
    /\ Alive
    /\ poster' = Notified(poster)
    /\ UNCHANGED <<janus, js, post, dir, late, sweep>>

-----------------------------------------------------------------------------
\* Mutant: the status is posted as it is.
RawNote(s) == s

NoteOf(s) == IF s = "normal" THEN "normal" ELSE "other"

\* Mutant: each post goes to the first proxy.
SameIndex(i) == i

NextIndex(i) == (i % Proxies) + 1

\* post() sends to the proxy whose turn it is; the poster p is shared.
Sends(a, note, left, p) ==
    /\ post' = [post EXCEPT ![a] = [pc |-> "send", note |-> note, to |-> p.index,
                                    left |-> left]]
    /\ poster' = [p EXCEPT !.index = NextIndex(@)]

Cleared(p, note) == [p EXCEPT !.event = FALSE, !.told = note]

\* The event or the time-out of its wait.
PosterWakes ==
    /\ js.gone # "ended"
    /\ post["poster"].pc = "idle"
    /\ LET note == NoteOf(js.status)
       IN Sends("poster", note, Proxies - 1, Cleared(poster, note))
    /\ UNCHANGED <<janus, js, dir, late, sweep>>

\* A post of a that nobody waits for any more is lost or still on its way.
GivenUp(a) ==
    \/ UNCHANGED late
    \/ /\ "late" \in Faults
       /\ late' = [to |-> post[a].to, note |-> post[a].note]

ProcessEnds ==
    /\ js' = [NoJanusServer EXCEPT !.gone = "ended"]
    /\ post' = [a \in Actor |-> NoPost]

\* post() is over: the poster waits again, main() ends the process.
PostOver(a) ==
    IF a = "poster" THEN /\ post' = [post EXCEPT ![a] = NoPost]
                         /\ UNCHANGED js
                    ELSE ProcessEnds

\* update_server()
Updated(x, note) == [dir EXCEPT ![x] = note]

Delivered(a) ==
    /\ post[a].pc = "send"
    /\ dir' = Updated(post[a].to, post[a].note)
    /\ PostOver(a)
    /\ IF a = "main" /\ post["poster"].pc = "send" THEN GivenUp("poster") ELSE UNCHANGED late
    /\ UNCHANGED <<janus, poster, sweep>>

\* The next proxy gets the same data.
TriesNext(a) ==
    /\ "lose" \in Faults
    /\ post[a].pc = "send" /\ post[a].left > 0
    /\ Sends(a, post[a].note, post[a].left - 1, poster)
    /\ GivenUp(a)
    /\ UNCHANGED <<janus, js, dir, sweep>>

PostFails(a) ==
    /\ "lose" \in Faults
    /\ post[a].pc = "send" /\ post[a].left = 0
    /\ PostOver(a)
    /\ GivenUp(a)
    /\ UNCHANGED <<janus, poster, dir, sweep>>

\* destroy() by main(); no listener is told.
Quit ==
    /\ "quit" \in Faults
    /\ Alive
    /\ js' = [NoJanusServer EXCEPT !.gone = "destroyed"]
    /\ UNCHANGED <<janus, post, poster, dir, late, sweep>>

\* main() posts itself, while the poster may be in a post of its own.
MainPosts ==
    /\ js.gone = "destroyed"
    /\ post["main"].pc = "idle"
    /\ Sends("main", NoteOf(js.status), Proxies - 1, poster)
    /\ UNCHANGED <<janus, js, dir, late, sweep>>

Killed ==
    /\ "quit" \in Faults
    /\ js.gone # "ended"
    /\ ProcessEnds
    /\ IF post["poster"].pc = "send" THEN GivenUp("poster") ELSE UNCHANGED late
    /\ UNCHANGED <<janus, poster, dir, sweep>>

-----------------------------------------------------------------------------
\* sentinel_callback, long after the poster has given up.
LateArrives ==
    /\ late.note # "none"
    /\ dir' = Updated(late.to, late.note)
    /\ late' = NotLate
    /\ UNCHANGED <<janus, js, post, poster, sweep>>

\* The entry has not been updated for as long as its expire says.
Expires(x) ==
    /\ dir[x] \in {"normal", "other"}
    /\ dir' = [dir EXCEPT ![x] = "expired"]
    /\ UNCHANGED <<janus, js, post, poster, late, sweep>>

\* The expiry sweep finds it so, in a list that it has read.
SweepFinds(x) ==
    /\ dir[x] = "expired"
    /\ sweep = 0
    /\ sweep' = x
    /\ UNCHANGED <<janus, js, post, poster, dir, late>>

\* It deletes by name, also an entry that has been updated since.
SweepDeletes ==
    /\ sweep # 0
    /\ sweep' = 0
    /\ dir' = [dir EXCEPT ![sweep] = "none"]
    /\ UNCHANGED <<janus, js, post, poster, late>>

\* Redis drops an expired entry, del_server() any.
Dropped(x) ==
    /\ \/ dir[x] = "expired"
       \/ dir[x] # "none" /\ "remove" \in Faults
    /\ dir' = [dir EXCEPT ![x] = "none"]
    /\ UNCHANGED <<janus, js, post, poster, late, sweep>>

\* get_valid_servers(), from which choose_server() takes one.
Valid(x) == dir[x] = "normal"

-----------------------------------------------------------------------------
PingGoesOn == PongArrives \/ PingAnswered \/ PingFails

PostEnds(a) == Delivered(a) \/ TriesNext(a) \/ PostFails(a)

Next == \/ JanusStarts \/ \E closes \in BOOLEAN : JanusStops(closes)
        \/ PingGoesOn \/ ConnClosed \/ StatUpdated
        \/ StartMaintenance \/ StopMaintenance
        \/ PosterWakes \/ MainPosts \/ Quit \/ Killed
        \/ \E a \in Actor : PostEnds(a)
        \/ LateArrives \/ SweepDeletes
        \/ \E x \in Proxy : Expires(x) \/ SweepFinds(x) \/ Dropped(x)

Spec == Init /\ [][Next]_vars

(* The greenlets go on, requests end, time passes, and a proxy that is      *)
(* posted to again and again answers at times.                              *)
Fairness ==
    /\ WF_vars(PingGoesOn) /\ WF_vars(ConnClosed)
    /\ WF_vars(PosterWakes) /\ WF_vars(MainPosts)
    /\ \A a \in Actor : WF_vars(PostEnds(a))
    /\ WF_vars(LateArrives) /\ WF_vars(SweepDeletes)
    /\ \A x \in Proxy : /\ SF_vars(post["poster"].to = x /\ Delivered("poster"))
                        /\ WF_vars(Expires(x))

FairSpec == Spec /\ Fairness
-----------------------------------------------------------------------------
(* No change of the status is slept through: what the last post told is     *)
(* what the status is, or the poster has been woken to post again.          *)
NoLostWakeup ==
    Alive /\ ~poster.event /\ poster.told # "none" => poster.told = NoteOf(js.status)

(* A server under maintenance keeps that status, whatever a ping that waits *)
(* or a connection that breaks has to say; a destroyed one is abnormal.     *)
StatusHeld == /\ Alive /\ js.maint => js.status = "maintenance"
              /\ ~Alive => js.status # "normal"

(* A Janus server that is down, or under maintenance, or whose sentinel has *)
(* ended, for good, is in the end not offered by any proxy: its status gets *)
(* through, and an entry that says otherwise is not refreshed.              *)
UnfitIsDropped ==
    (<>[]~janus \/ <>[]js.maint \/ <>[]~Alive) => <>[](\A x \in Proxy : ~Valid(x))

Fit == Alive /\ janus /\ ~js.maint

(* One that stays fit is offered by every proxy again and again, however    *)
(* late posts, sweeps and broken connections meet.                          *)
FitIsOffered == <>[]Fit => \A x \in Proxy : []<>Valid(x)
=============================================================================
