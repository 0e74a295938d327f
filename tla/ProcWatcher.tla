---------------------------- MODULE ProcWatcher ----------------------------
(* The sentinel's watcher of the Janus process (sentinel/process_mngr.py):  *)
(* start(), stop() and async_stop(), the poll greenlet that launches the    *)
(* process again, main(), and the requests to restart the process, each in  *)
(* a greenlet of its own (sentinel/rest/sentinel_view.py).                  *)
(*                                                                          *)
(* Greenlets take turns where one waits: for subprocess.Popen, which only   *)
(* returns when the child has executed its program or failed to, for a      *)
(* child to exit, and for the next check. Time is not modelled: a wait may  *)
(* be over, and a timeout expire, at any time. error_restart_interval is    *)
(* positive (0 means no restart) and age_time is 0, main() never sets it.   *)
EXTENDS Naturals, FiniteSets

CONSTANTS
    Child,          \* identities of the processes that are launched, used again
    Poller,         \* identities of the poll greenlets, used again
    Caller,         \* the greenlets that serve a restart_process request
    Main,           \* the main greenlet
    None,           \* no child, no poller
    MaxFailures     \* how often a program cannot be executed

ASSUME ProcWatcherAssumption == /\ MaxFailures \in Nat
                                /\ Main \notin Caller
                                /\ None \notin Child \cup Poller

VARIABLES
    watcher,    \* the ProcWatcher
    child,      \* the processes
    watch,      \* the poll greenlets
    task,       \* the requests that are served, and main()
    failures    \* the launches that have failed

vars == <<watcher, child, watch, task, failures>>

Task == Caller \cup {Main}

WatcherRec == [popen: Child \cup {None}, started: BOOLEAN, poller: Poller \cup {None}]

\* "alone" is not in the code: nobody stopped the watcher or launched another
\* process while Popen waited for this one.
ChildRec == [st: {"exited", "starting", "running"}, killed: BOOLEAN, alone: BOOLEAN,
             reaper: {"none", "waiting", "killing"}]     \* a _terminate_run() greenlet

GreenletRec == [pc: {"none", "check", "launch"}, child: Child \cup {None}]

TaskRec == [pc: {"new", "idle", "launch", "waiting", "killing", "end", "gone"},
            child: Child \cup {None}]

TypeOK == /\ watcher \in WatcherRec
          /\ child \in [Child -> ChildRec]
          /\ watch \in [Poller -> GreenletRec]
          /\ task \in [Task -> TaskRec]
          /\ failures \in 0..MaxFailures
          /\ watcher.started <=> watcher.poller # None
          /\ watcher.started => watch[watcher.poller].pc # "none"

At(pc) == [pc |-> pc, child |-> None]

Unborn == [st |-> "exited", killed |-> FALSE, alone |-> TRUE, reaper |-> "none"]

Init == /\ watcher = [popen |-> None, started |-> FALSE, poller |-> None]
        /\ child = [c \in Child |-> Unborn]
        /\ watch = [g \in Poller |-> At("none")]
        /\ task = [a \in Task |-> At(IF a = Main THEN "new" ELSE "idle")]
        /\ failures = 0

------------------------------------------------------------------------------
Starting == {c \in Child : child[c].st = "starting"}

\* Somebody still has the child: the watcher, a stop() or _terminate_run() that
\* waits for it, a Popen that has not returned.
Held(c) == \/ c = watcher.popen
           \/ child[c].reaper # "none"
           \/ child[c].st = "starting"
           \/ \E a \in Task : task[a].child = c

\* The identity of a child that nobody has is used again, whether or not it runs.
Free == {c \in Child : ~Held(c)}

\* So is the identity of a poll greenlet that has been replaced: at its next check it
\* finds that out and returns, and does nothing else.
Idle == {g \in Poller : watch[g].pc # "launch" /\ g # watcher.poller}

\* A bound: a request is served while there is an identity for what it may spawn.
RoomForRequest == Cardinality({a \in Caller : task[a].pc # "idle"})
                     < Cardinality(Poller) - Cardinality(Poller \ Idle)

\* A request to restart the process can come: main() has started the watcher by then.
\* A bound: none comes after rest_server.stop(), which only stops accepting. The requests
\* that are served then go on, beside main() and after it.
Served(a) == a # Main /\ task[a].pc = "idle" /\ task[Main].pc = "idle" /\ RoomForRequest

\* The children cs are no longer the only thing that happens to the watcher.
Overtaken(cs) == [c \in Child |-> [child[c] EXCEPT !.alone = @ /\ c \notin cs]]

\* subprocess.Popen forks, and waits for the child to execute its program.
Forked(ch, c) ==
    [d \in Child |->
        IF d = c THEN [st |-> "starting", killed |-> FALSE, alone |-> Starting = {},
                       reaper |-> "none"]
                 ELSE [ch[d] EXCEPT !.alone = @ /\ d \notin Starting]]

\* start(), from its first test to the wait in _launch_process(), w being the watcher
\* by then. It returns when the watcher is started, and raises while it is stopped.
Launches(a, w, ch) ==
    IF w.started \/ w.popen # None
    THEN task' = [task EXCEPT ![a] = At("idle")] /\ child' = ch
    ELSE \E c \in Free : /\ c = CHOOSE d \in Free : TRUE
                         /\ task' = [task EXCEPT ![a] = [pc |-> "launch", child |-> c]]
                         /\ child' = Forked(ch, c)

Started(c, g) == [popen |-> c, started |-> TRUE, poller |-> g]
Stopped == [watcher EXCEPT !.started = FALSE, !.poller = None]

\* Mutant: the process is still the watcher's.
TerminatedKept(w) == w

\* _on_process_terminate().
Terminated(w) == [w EXCEPT !.popen = None]

\* main() starts the watcher, and only then serves requests.
MainStarts == /\ task[Main].pc = "new"
              /\ Launches(Main, watcher, child)
              /\ UNCHANGED <<watcher, watch, failures>>

\* A request to restart the process that finds a process to stop: terminate() it and
\* wait.
RestartStops(a) ==
    /\ Served(a)
    /\ watcher.started /\ watcher.popen # None
    /\ watcher' = Stopped
    /\ child' = Overtaken(Starting)
    /\ task' = [task EXCEPT ![a] = [pc |-> "waiting", child |-> watcher.popen]]
    /\ UNCHANGED <<watch, failures>>

\* One that finds none goes on with start() at once. While the watcher has a process
\* that is being stopped start() raises, and nothing changes.
RestartLaunches(a) ==
    /\ Served(a)
    /\ watcher.popen = None
    /\ watcher' = Stopped
    /\ Launches(a, Stopped, IF watcher.started THEN Overtaken(Starting) ELSE child)
    /\ UNCHANGED <<watch, failures>>

\* stop()'s wait is over without an answer: kill() and wait again.
\* Mutant: gives up instead.
StopLeaves(a) ==
    /\ task[a].pc = "waiting" /\ child[task[a].child].st = "running"
    /\ watcher' = IF watcher.popen = task[a].child THEN Terminated(watcher) ELSE watcher
    /\ task' = [task EXCEPT ![a] = At("idle")]
    /\ UNCHANGED <<child, watch, failures>>

\* Mutant: waits again without kill().
StopWaitsAgain(a) ==
    /\ task[a].pc = "waiting" /\ child[task[a].child].st = "running"
    /\ task' = [task EXCEPT ![a].pc = "killing"]
    /\ UNCHANGED <<watcher, child, watch, failures>>

StopKills(a) ==
    /\ task[a].pc = "waiting" /\ child[task[a].child].st = "running"
    /\ child' = [child EXCEPT ![task[a].child].killed = TRUE]
    /\ task' = [task EXCEPT ![a].pc = "killing"]
    /\ UNCHANGED <<watcher, watch, failures>>

\* The process has exited: stop() takes it off the watcher, if it is still the
\* watcher's, and the request goes on with start().
StopEnds(a) ==
    /\ task[a].pc \in {"waiting", "killing"} /\ child[task[a].child].st = "exited"
    /\ watcher' = IF watcher.popen = task[a].child THEN Terminated(watcher) ELSE watcher
    /\ Launches(a, watcher', child)
    /\ UNCHANGED <<watch, failures>>

\* Popen returns to start(), which spawns the poll greenlet.
StartEnds(a) ==
    /\ task[a].pc = "launch"
    /\ \E g \in Idle :
         /\ g = CHOOSE h \in Idle : TRUE
         /\ watcher' = Started(task[a].child, g)
         /\ watch' = [watch EXCEPT ![g] = At("check")]
    /\ child' = [child EXCEPT ![task[a].child].st = "running"]
    /\ task' = [task EXCEPT ![a] = At("idle")]
    /\ UNCHANGED failures

\* Popen raises in start(): what the watcher has is killed. main() gives up.
StartFails(a) ==
    /\ task[a].pc = "launch" /\ failures < MaxFailures
    /\ watcher' = Terminated(Stopped)
    /\ child' = [c \in Child |->
          IF c = task[a].child THEN [child[c] EXCEPT !.st = "exited"]
          ELSE [child[c] EXCEPT !.killed = @ \/ (c = watcher.popen /\ child[c].st = "running")]]
    /\ task' = [task EXCEPT ![a] = At(IF a = Main THEN "gone" ELSE "idle")]
    /\ failures' = failures + 1
    /\ UNCHANGED watch

------------------------------------------------------------------------------
\* _polling_run() is still the watcher's.
Current(g) == watcher.started /\ watcher.poller = g

\* poll() says that the process has exited; the next check launches another one.
\* Mutant: the greenlet returns.
PollerLeaves(g) == /\ watch[g].pc = "check" /\ Current(g)
                   /\ watcher.popen # None /\ child[watcher.popen].st = "exited"
                   /\ watcher' = Terminated(watcher)
                   /\ watch' = [watch EXCEPT ![g] = At("none")]
                   /\ UNCHANGED <<child, task, failures>>

PollerSeesExit(g) == /\ watch[g].pc = "check" /\ Current(g)
                     /\ watcher.popen # None /\ child[watcher.popen].st = "exited"
                     /\ watcher' = Terminated(watcher)
                     /\ UNCHANGED <<child, watch, task, failures>>

PollerLaunches(g) ==
    /\ watch[g].pc = "check" /\ Current(g) /\ watcher.popen = None
    /\ \E c \in Free : /\ c = CHOOSE d \in Free : TRUE
                       /\ watch' = [watch EXCEPT ![g] = [pc |-> "launch", child |-> c]]
                       /\ child' = Forked(child, c)
    /\ UNCHANGED <<watcher, task, failures>>

\* Popen returns, and what the watcher has become in the meantime does not matter.
PollerLaunched(g) ==
    /\ watch[g].pc = "launch"
    /\ watcher' = [watcher EXCEPT !.popen = watch[g].child]
    /\ child' = [child EXCEPT ![watch[g].child].st = "running"]
    /\ watch' = [watch EXCEPT ![g] = At("check")]
    /\ UNCHANGED <<task, failures>>

\* Mutant: the exception ends the greenlet.
PollerFailsForGood(g) ==
    /\ watch[g].pc = "launch" /\ failures < MaxFailures
    /\ child' = [child EXCEPT ![watch[g].child].st = "exited"]
    /\ watch' = [watch EXCEPT ![g] = At("none")]
    /\ failures' = failures + 1
    /\ UNCHANGED <<watcher, task>>

\* Popen raises: logged, and tried again at the next check.
PollerFails(g) ==
    /\ watch[g].pc = "launch" /\ failures < MaxFailures
    /\ child' = [child EXCEPT ![watch[g].child].st = "exited"]
    /\ watch' = [watch EXCEPT ![g] = At("check")]
    /\ failures' = failures + 1
    /\ UNCHANGED <<watcher, task>>

------------------------------------------------------------------------------
\* The process exits, by itself or because it is told to.
Exits(c) == /\ child[c].st = "running" /\ Held(c)
            /\ child' = [child EXCEPT ![c].st = "exited", ![c].killed = FALSE]
            /\ UNCHANGED <<watcher, watch, task, failures>>

\* The sentinel has been told to quit, and main() calls async_stop(), whatever requests
\* are being served: a greenlet of its own waits for the process.
Destroy ==
    /\ task[Main].pc = "idle"
    /\ watcher' = IF watcher.started THEN Terminated(Stopped) ELSE watcher
    /\ child' = IF ~watcher.started THEN child
                ELSE [c \in Child |-> [Overtaken(Starting)[c] EXCEPT
                                         !.reaper = IF c = watcher.popen THEN "waiting" ELSE @]]
    /\ task' = [task EXCEPT ![Main].pc = "end"]
    /\ UNCHANGED <<watch, failures>>

\* _terminate_run().
ReaperKills(c) ==
    /\ child[c].reaper = "waiting" /\ child[c].st = "running"
    /\ child' = [child EXCEPT ![c].killed = TRUE, ![c].reaper = "killing"]
    /\ UNCHANGED <<watcher, watch, task, failures>>

ReaperEnds(c) ==
    /\ child[c].reaper # "none" /\ child[c].st = "exited"
    /\ child' = [child EXCEPT ![c].reaper = "none"]
    /\ UNCHANGED <<watcher, watch, task, failures>>

\* The sentinel's process ends, whatever its greenlets wait for. What its children do then
\* is not modelled.
ProcessEnds == /\ task[Main].pc = "end"
               /\ task' = [a \in Task |-> IF task[a].pc = "idle" THEN task[a] ELSE At("gone")]
               /\ watch' = [g \in Poller |-> At("none")]
               /\ watcher' = Terminated(Stopped)
               /\ child' = [c \in Child |-> Unborn]
               /\ UNCHANGED failures

Goes(a) == \/ StopKills(a) \/ StopEnds(a) \/ StartEnds(a) \/ StartFails(a)

Polls(g) == PollerSeesExit(g) \/ PollerLaunches(g) \/ PollerLaunched(g) \/ PollerFails(g)

Next == \/ MainStarts \/ Destroy \/ ProcessEnds
        \/ \E a \in Task : RestartStops(a) \/ RestartLaunches(a) \/ Goes(a)
        \/ \E g \in Poller : Polls(g)
        \/ \E c \in Child : Exits(c) \/ ReaperKills(c) \/ ReaperEnds(c)

Spec == Init /\ [][Next]_vars

\* A greenlet whose wait is over runs, and a process that is killed exits.
Fairness == /\ \A a \in Task : WF_vars(Goes(a))
            /\ \A g \in Poller : WF_vars(Polls(g))
            /\ \A c \in Child : WF_vars(child[c].killed /\ Exits(c))

FairSpec == Spec /\ Fairness

------------------------------------------------------------------------------
\* The sentinel knows of a process that runs, or has killed it.
Known(c) == Held(c) \/ child[c].killed

\* Another launch is over and sets the watcher's process. (_launch_process, line 110)
Displaced(c) == c = watcher.popen /\ watcher'.popen \notin {c, None}

\* The sentinel forgets a process that runs in one way only, that the end of another
\* launch takes its place: not because a stop() or a kill is late, a launch fails, the
\* poll greenlet is replaced or the sentinel quits beside a request to restart it.
\* (stop, async_stop, start, _polling_run)
Remembers ==
    \A c \in Child :
        child[c].st = "running" /\ Known(c) /\ task'[Main].pc # "gone"
          => Known(c)' \/ child'[c].st = "exited" \/ Displaced(c)

NeverForgotten == [][Remembers]_vars

\* A stopped watcher can be started again: the process it still has is one that a
\* stop() waits for. (start, line 246, with stop, line 314)
CanStart ==
    /\ ~watcher.started /\ watcher.popen # None /\ task[Main].pc # "gone"
    => \/ \E a \in Task : task[a].child = watcher.popen
       \/ ~child[watcher.popen].alone

\* As long as it is started the watcher has a process again whenever its process has
\* exited. (_polling_run, lines 151-168)
KeptRunning ==
    watcher.started ~> \/ ~watcher.started
                       \/ watcher.popen # None /\ child[watcher.popen].st = "running"

\* Every request to restart the process is answered. (stop, lines 298-315, start)
RequestsEnd ==
    \A a \in Caller : task[a].pc # "idle" ~> task[a].pc = "idle" \/ task[Main].pc = "gone"
=============================================================================
