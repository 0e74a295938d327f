------------------------- MODULE ProcWatcher_proofs -------------------------
(* What ProcWatcher guarantees for any number of processes, poll greenlets, *)
(* requests and failures: types, that a stopped watcher can be started      *)
(* again, and the one way in which a process that runs is forgotten.        *)
EXTENDS ProcWatcher, TLAPS

(* Who waits for a process knows which one.                                 *)
Shapes ==
    /\ \A a \in Task : task[a].pc \in {"launch", "waiting", "killing"} <=> task[a].child # None
    /\ \A g \in Poller : watch[g].pc = "launch" <=> watch[g].child # None

(* A greenlet that waits for Popen has a process of its own that starts.    *)
Launching ==
    /\ \A a \in Task : task[a].pc = "launch" => child[task[a].child].st = "starting"
    /\ \A g \in Poller : watch[g].pc = "launch" => child[watch[g].child].st = "starting"
    /\ \A a, b \in Task : task[a].pc = "launch" /\ task[b].pc = "launch"
                          /\ task[a].child = task[b].child => a = b
    /\ \A g, k \in Poller : watch[g].pc = "launch" /\ watch[k].pc = "launch"
                            /\ watch[g].child = watch[k].child => g = k
    /\ \A a \in Task, g \in Poller : task[a].pc = "launch" /\ watch[g].pc = "launch"
                                     => task[a].child # watch[g].child

(* What "alone" means: no other process is being launched, the watcher has  *)
(* none, and the greenlet that launches it is still the watcher's.          *)
Alone ==
    /\ \A c, d \in Starting : child[c].alone => c = d
    /\ watcher.popen # None /\ Starting # {} => ~child[watcher.popen].alone
    /\ \A g \in Poller : watch[g].pc = "launch" /\ child[watch[g].child].alone => Current(g)

IInv == TypeOK /\ Shapes /\ Launching /\ Alone /\ CanStart

-----------------------------------------------------------------------------
LEMMA InvInit == Init => IInv
<1>. SUFFICES ASSUME Init PROVE IInv
  OBVIOUS
<1>1. TypeOK
  BY ProcWatcherAssumption DEF Init, TypeOK, WatcherRec, ChildRec, GreenletRec, TaskRec,
     At, Task, Unborn
<1>2. Shapes /\ Launching
  BY DEF Init, Shapes, Launching, At
<1>3. Alone /\ CanStart
  BY DEF Init, Alone, CanStart, Starting, At, Unborn
<1>. QED  BY <1>1, <1>2, <1>3 DEF IInv

(* The fields of the records, for the steps that need no more of TypeOK.    *)
LEMMA Fields ==
    ASSUME TypeOK
    PROVE  /\ watcher = [popen |-> watcher.popen, started |-> watcher.started,
                         poller |-> watcher.poller]
           /\ watcher.popen \in Child \cup {None}
           /\ watcher.started \in BOOLEAN
           /\ watcher.poller \in Poller \cup {None}
           /\ \A c \in Child : child[c] \in ChildRec
           /\ \A a \in Task : task[a] \in TaskRec
           /\ \A g \in Poller : watch[g] \in GreenletRec
BY DEF TypeOK, WatcherRec

LEMMA ForkedTypes ==
    ASSUME NEW ch \in [Child -> ChildRec], NEW c \in Child
    PROVE  Forked(ch, c) \in [Child -> ChildRec]
<1>. SUFFICES ASSUME NEW d \in Child PROVE Forked(ch, c)[d] \in ChildRec
  BY DEF Forked
<1>1. CASE d = c
  BY <1>1 DEF Forked, ChildRec
<1>2. CASE d # c
  <2>1. ch[d] \in ChildRec
    OBVIOUS
  <2>. QED  BY <1>2, <2>1 DEF Forked, ChildRec
<1>. QED  BY <1>1, <1>2

LEMMA OvertakenTypes ==
    ASSUME TypeOK, NEW cs
    PROVE  Overtaken(cs) \in [Child -> ChildRec]
<1>. SUFFICES ASSUME NEW c \in Child PROVE Overtaken(cs)[c] \in ChildRec
  BY DEF Overtaken
<1>1. child[c] \in ChildRec
  BY Fields
<1>. QED  BY <1>1 DEF Overtaken, ChildRec

LEMMA AtTypes ==
    ASSUME NEW pc \in {"new", "idle", "end", "gone"}
    PROVE  At(pc) \in TaskRec
BY DEF At, TaskRec

LEMMA LaunchesTypes ==
    ASSUME TypeOK, NEW a \in Task, NEW w, NEW ch \in [Child -> ChildRec], Launches(a, w, ch)
    PROVE  task' \in [Task -> TaskRec] /\ child' \in [Child -> ChildRec]
<1>1. CASE w.started \/ w.popen # None
  BY <1>1, AtTypes DEF Launches, TypeOK
<1>2. CASE ~(w.started \/ w.popen # None)
  <2>1. PICK c \in Free : /\ task' = [task EXCEPT ![a] = [pc |-> "launch", child |-> c]]
                          /\ child' = Forked(ch, c)
    BY <1>2 DEF Launches
  <2>2. c \in Child
    BY DEF Free
  <2>3. [pc |-> "launch", child |-> c] \in TaskRec
    BY <2>2 DEF TaskRec
  <2>. QED  BY <2>1, <2>2, <2>3, ForkedTypes DEF TypeOK
<1>. QED  BY <1>1, <1>2

(* Popen's child, field by field.                                           *)
LEMMA ForkedFields ==
    ASSUME NEW ch \in [Child -> ChildRec], NEW c \in Child, NEW d \in Child
    PROVE  /\ d = c => /\ Forked(ch, c)[d].st = "starting"
                       /\ Forked(ch, c)[d].alone <=> Starting = {}
           /\ d # c => /\ Forked(ch, c)[d].st = ch[d].st
                       /\ Forked(ch, c)[d].killed = ch[d].killed
                       /\ Forked(ch, c)[d].reaper = ch[d].reaper
                       /\ Forked(ch, c)[d].alone <=> ch[d].alone /\ d \notin Starting
<1>1. ch[d] \in ChildRec
  OBVIOUS
<1>2. CASE d = c
  BY <1>2 DEF Forked
<1>3. CASE d # c
  BY <1>1, <1>3 DEF Forked, ChildRec
<1>. QED  BY <1>2, <1>3

LEMMA OvertakenFields ==
    ASSUME TypeOK, NEW cs, NEW d \in Child
    PROVE  /\ Overtaken(cs)[d].st = child[d].st
           /\ Overtaken(cs)[d].killed = child[d].killed
           /\ Overtaken(cs)[d].reaper = child[d].reaper
           /\ Overtaken(cs)[d].alone = (child[d].alone /\ d \notin cs)
<1>1. child[d] \in ChildRec
  BY Fields
<1>. QED  BY <1>1 DEF Overtaken, ChildRec

(* start() returns at once, or a free process starts.                       *)
LEMMA LaunchesFields ==
    ASSUME TypeOK, NEW a \in Task, NEW w, NEW ch, Launches(a, w, ch)
    PROVE  /\ \A b \in Task \ {a} : task'[b] = task[b]
           /\ \/ /\ w.started \/ w.popen # None
                 /\ task'[a].pc = "idle" /\ task'[a].child = None
                 /\ child' = ch
              \/ /\ ~w.started /\ w.popen = None
                 /\ \E c \in Free : /\ task'[a].pc = "launch" /\ task'[a].child = c
                                    /\ child' = Forked(ch, c)
<1>1. task \in [Task -> TaskRec]
  BY DEF TypeOK
<1>. QED  BY <1>1 DEF Launches, At

(* The processes that are named are processes.                              *)
Names ==
    /\ watcher.popen \in Child \cup {None}
    /\ \A a \in Task : task[a].pc \in {"launch", "waiting", "killing"} => task[a].child \in Child
    /\ \A g \in Poller : watch[g].pc = "launch" => watch[g].child \in Child

LEMMA Named == ASSUME TypeOK, Shapes PROVE Names
<1>1. ASSUME NEW a \in Task, task[a].child # None PROVE task[a].child \in Child
  BY <1>1, Fields DEF TaskRec
<1>2. ASSUME NEW g \in Poller, watch[g].child # None PROVE watch[g].child \in Child
  BY <1>2, Fields DEF GreenletRec
<1>. QED  BY <1>1, <1>2, Fields DEF Shapes, Names

-----------------------------------------------------------------------------
(* One lemma for each action but those that end with start(). <1>e says     *)
(* what the step does field by field.                                       *)
LEMMA RestartStopsStep ==
    ASSUME IInv, NEW a \in Task, RestartStops(a)
    PROVE  IInv' /\ Remembers
<1>t. /\ TypeOK /\ Shapes /\ Launching /\ Alone /\ CanStart
      /\ child \in [Child -> ChildRec] /\ watch \in [Poller -> GreenletRec]
      /\ task \in [Task -> TaskRec] /\ watcher \in WatcherRec
  BY DEF IInv, TypeOK
<1>i. Shapes /\ Launching /\ Alone /\ CanStart
  BY <1>t
<1>s. Names
  BY <1>t, Named
<1>e. /\ task[a].pc = "idle"
      /\ a # Main
      /\ task[Main].pc = "idle"
      /\ watcher.started
      /\ watcher.popen \in Child
      /\ watcher'.popen = watcher.popen
      /\ watcher'.started = FALSE
      /\ watcher'.poller = None
      /\ task'[a].pc = "waiting"
      /\ task'[a].child = watcher.popen
      /\ \A b \in Task \ {a} : task'[b] = task[b]
      /\ \A d \in Child :
           /\ child'[d].st = child[d].st
           /\ child'[d].killed = child[d].killed
           /\ child'[d].alone = (child[d].alone /\ d \notin Starting)
           /\ child'[d].reaper = child[d].reaper
      /\ watch' = watch
  BY <1>t, <1>s, Fields, OvertakenFields, ProcWatcherAssumption DEF Names, RestartStops, Stopped,
     Served, WatcherRec, ChildRec, GreenletRec, TaskRec
<1>1. TypeOK'
  <2>1. child' \in [Child -> ChildRec]
    BY <1>t, OvertakenTypes DEF RestartStops, Stopped, Served, ChildRec
  <2>2. task' \in [Task -> TaskRec]
    BY <1>t, <1>s DEF Names, RestartStops, Stopped, Served, At, TaskRec
  <2>3. watch' \in [Poller -> GreenletRec]
    BY <1>t DEF RestartStops, Stopped, Served, At, GreenletRec
  <2>4. watcher' \in WatcherRec /\ (watcher'.started <=> watcher'.poller # None)
    BY <1>t, <1>s, <1>e DEF Names, RestartStops, Stopped, Served, WatcherRec, TypeOK
  <2>5. watcher'.started => watch'[watcher'.poller].pc # "none"
    BY <1>t, <1>e DEF TypeOK
  <2>6. failures' \in 0..MaxFailures
    BY <1>t, ProcWatcherAssumption DEF RestartStops, TypeOK
  <2>. QED  BY <2>1, <2>2, <2>3, <2>4, <2>5, <2>6 DEF TypeOK
<1>g. Starting' = Starting
  BY <1>e DEF Starting
<1>2. Shapes'
  BY <1>i, <1>s, <1>e, ProcWatcherAssumption DEF Names, Shapes, Task
<1>3. Launching'
  BY <1>i, <1>s, <1>e, ProcWatcherAssumption DEF Names, Shapes, Launching, Task
<1>4. Alone'
  BY <1>i, <1>s, <1>e, <1>g, ProcWatcherAssumption DEF Names, Shapes, Launching, Alone, Starting,
     Current, Task
<1>5. Remembers
  <2>. SUFFICES ASSUME NEW c \in Child, child[c].st = "running", Known(c),
                       task'[Main].pc # "gone"
       PROVE  Known(c)' \/ child'[c].st = "exited" \/ Displaced(c)
    BY DEF Remembers
  <2>1. Held(c) \/ child[c].killed
    BY <1>i, <1>e DEF Known
  <2>2. CASE \E b \in Task : task[b].child = c
    <3>1. PICK b \in Task : task[b].child = c
      BY <2>2
    <3>2. b # a
      BY <1>i, <1>e, <3>1, ProcWatcherAssumption DEF Shapes
    <3>. QED  BY <1>e, <3>1, <3>2 DEF Held, Known
  <2>. QED  BY <1>e, <2>1, <2>2 DEF Held, Known
<1>6. CanStart'
  BY <1>i, <1>s, <1>e, <1>g, ProcWatcherAssumption DEF Names, Shapes, Launching, Alone, Starting,
     Current, CanStart, Task
<1>. QED  BY <1>1, <1>2, <1>3, <1>4, <1>5, <1>6 DEF IInv

LEMMA StopKillsStep == ASSUME IInv, NEW a \in Task, StopKills(a) PROVE IInv' /\ Remembers
<1>t. /\ TypeOK /\ Shapes /\ Launching /\ Alone /\ CanStart
      /\ child \in [Child -> ChildRec] /\ watch \in [Poller -> GreenletRec]
      /\ task \in [Task -> TaskRec] /\ watcher \in WatcherRec
  BY DEF IInv, TypeOK
<1>i. Shapes /\ Launching /\ Alone /\ CanStart
  BY <1>t
<1>s. Names
  BY <1>t, Named
<1>e. /\ task[a].pc = "waiting"
      /\ child[task[a].child].st = "running"
      /\ watcher' = watcher
      /\ task'[a].pc = "killing"
      /\ task'[a].child = task[a].child
      /\ \A b \in Task \ {a} : task'[b] = task[b]
      /\ child'[task[a].child].st = child[task[a].child].st
      /\ child'[task[a].child].alone = child[task[a].child].alone
      /\ child'[task[a].child].reaper = child[task[a].child].reaper
      /\ child'[task[a].child].killed
      /\ \A d \in Child : d # task[a].child => child'[d] = child[d]
      /\ watch' = watch
  BY <1>t, <1>s, Fields, OvertakenFields, ProcWatcherAssumption DEF Names, StopKills, WatcherRec,
     ChildRec, GreenletRec, TaskRec
<1>1. TypeOK'
  <2>1. child' \in [Child -> ChildRec]
    BY <1>t, OvertakenTypes DEF StopKills, ChildRec
  <2>2. task' \in [Task -> TaskRec]
    BY <1>t, <1>s DEF Names, StopKills, At, TaskRec
  <2>3. watch' \in [Poller -> GreenletRec]
    BY <1>t DEF StopKills, At, GreenletRec
  <2>4. watcher' \in WatcherRec /\ (watcher'.started <=> watcher'.poller # None)
    BY <1>t, <1>s, <1>e DEF Names, StopKills, WatcherRec, TypeOK
  <2>5. watcher'.started => watch'[watcher'.poller].pc # "none"
    BY <1>t, <1>e DEF TypeOK
  <2>6. failures' \in 0..MaxFailures
    BY <1>t, ProcWatcherAssumption DEF StopKills, TypeOK
  <2>. QED  BY <2>1, <2>2, <2>3, <2>4, <2>5, <2>6 DEF TypeOK
<1>g. Starting' = Starting
  BY <1>e DEF Starting
<1>2. Shapes'
  BY <1>i, <1>s, <1>e, ProcWatcherAssumption DEF Names, Shapes, Task
<1>3. Launching'
  BY <1>i, <1>s, <1>e, ProcWatcherAssumption DEF Names, Shapes, Launching, Task
<1>4. Alone'
  BY <1>i, <1>s, <1>e, <1>g, ProcWatcherAssumption DEF Names, Shapes, Launching, Alone, Starting,
     Current, Task
<1>5. Remembers
  BY <1>i, <1>s, <1>e, <1>g, ProcWatcherAssumption DEF Names, Shapes, Launching, Alone, Starting,
     Remembers, Known, Displaced, Held, Task
<1>6. CanStart'
  BY <1>i, <1>s, <1>e, <1>g, ProcWatcherAssumption DEF Names, Shapes, Launching, Alone, Starting,
     Current, CanStart, Task
<1>. QED  BY <1>1, <1>2, <1>3, <1>4, <1>5, <1>6 DEF IInv

LEMMA StartEndsStep == ASSUME IInv, NEW a \in Task, StartEnds(a) PROVE IInv' /\ Remembers
<1>t. /\ TypeOK /\ Shapes /\ Launching /\ Alone /\ CanStart
      /\ child \in [Child -> ChildRec] /\ watch \in [Poller -> GreenletRec]
      /\ task \in [Task -> TaskRec] /\ watcher \in WatcherRec
  BY DEF IInv, TypeOK
<1>i. Shapes /\ Launching /\ Alone /\ CanStart
  BY <1>t
<1>s. Names
  BY <1>t, Named
<1>e. /\ task[a].pc = "launch"
      /\ watcher'.popen = task[a].child
      /\ watcher'.started = TRUE
      /\ watcher'.poller = watcher'.poller
      /\ watcher'.poller \in Poller
      /\ watch[watcher'.poller].pc # "launch"
      /\ watch'[watcher'.poller].pc = "check"
      /\ watch'[watcher'.poller].child = None
      /\ \A k \in Poller : k # watcher'.poller => watch'[k] = watch[k]
      /\ task'[a].pc = "idle"
      /\ task'[a].child = None
      /\ \A b \in Task \ {a} : task'[b] = task[b]
      /\ \A d \in Child :
           /\ child'[d].st = (IF d = task[a].child THEN "running" ELSE child[d].st)
           /\ child'[d].killed = child[d].killed
           /\ child'[d].alone = child[d].alone
           /\ child'[d].reaper = child[d].reaper
  BY <1>t, <1>s, Fields, OvertakenFields, ProcWatcherAssumption DEF Names, StartEnds, Started, At,
     Idle, WatcherRec, ChildRec, GreenletRec, TaskRec
<1>1. TypeOK'
  <2>1. child' \in [Child -> ChildRec]
    <3>1. [child[task[a].child] EXCEPT !.st = "running"] \in ChildRec
      BY <1>t, <1>s, <1>e DEF Names, ChildRec
    <3>. QED  BY <1>t, <3>1 DEF StartEnds
  <2>2. task' \in [Task -> TaskRec]
    BY <1>t, AtTypes DEF StartEnds
  <2>3. watch' \in [Poller -> GreenletRec]
    <3>1. PICK g \in Poller : watch' = [watch EXCEPT ![g] = At("check")]
      BY DEF StartEnds, Idle
    <3>2. At("check") \in GreenletRec
      BY DEF At, GreenletRec
    <3>. QED  BY <1>t, <3>1, <3>2
  <2>4. watcher' \in WatcherRec /\ (watcher'.started <=> watcher'.poller # None)
    BY <1>s, <1>e, ProcWatcherAssumption DEF Names, StartEnds, Started, Idle, WatcherRec
  <2>5. watcher'.started => watch'[watcher'.poller].pc # "none"
    BY <1>e
  <2>6. failures' \in 0..MaxFailures
    BY <1>t DEF StartEnds, TypeOK
  <2>. QED  BY <2>1, <2>2, <2>3, <2>4, <2>5, <2>6 DEF TypeOK
<1>2. Shapes'
  BY <1>i, <1>s, <1>e, ProcWatcherAssumption DEF Names, Shapes, Task
<1>3. Launching'
  BY <1>i, <1>s, <1>e, ProcWatcherAssumption DEF Names, Shapes, Launching, Task
<1>4. Alone'
  BY <1>i, <1>s, <1>e, ProcWatcherAssumption DEF Names, Shapes, Launching, Alone, Starting,
     Current, Task
<1>5. Remembers
  BY <1>i, <1>s, <1>e, ProcWatcherAssumption DEF Names, Shapes, Launching, Alone, Starting,
     Remembers, Known, Displaced, Held, Task
<1>6. CanStart'
  BY <1>i, <1>s, <1>e, ProcWatcherAssumption DEF Names, Shapes, Launching, Alone, Starting,
     Current, CanStart, Task
<1>. QED  BY <1>1, <1>2, <1>3, <1>4, <1>5, <1>6 DEF IInv

LEMMA StartFailsStep ==
    ASSUME IInv, NEW a \in Task, StartFails(a)
    PROVE  IInv' /\ Remembers
<1>t. /\ TypeOK /\ Shapes /\ Launching /\ Alone /\ CanStart
      /\ child \in [Child -> ChildRec] /\ watch \in [Poller -> GreenletRec]
      /\ task \in [Task -> TaskRec] /\ watcher \in WatcherRec
  BY DEF IInv, TypeOK
<1>i. Shapes /\ Launching /\ Alone /\ CanStart
  BY <1>t
<1>s. Names
  BY <1>t, Named
<1>e. /\ task[a].pc = "launch"
      /\ watcher'.popen = None
      /\ watcher'.started = FALSE
      /\ watcher'.poller = None
      /\ task'[a].pc = (IF a = Main THEN "gone" ELSE "idle")
      /\ task'[a].child = None
      /\ \A b \in Task \ {a} : task'[b] = task[b]
      /\ \A d \in Child :
           /\ child'[d].st = (IF d = task[a].child THEN "exited" ELSE child[d].st)
           /\ child'[d].killed =
                (IF d = task[a].child
                 THEN child[d].killed
                 ELSE child[d].killed \/ (d = watcher.popen /\ child[d].st = "running"))
           /\ child'[d].alone = child[d].alone
           /\ child'[d].reaper = child[d].reaper
      /\ watch' = watch
  BY <1>t, <1>s, Fields, OvertakenFields, ProcWatcherAssumption DEF Names, StartFails, Stopped,
     Terminated, At, WatcherRec, ChildRec, GreenletRec, TaskRec
<1>1. TypeOK'
  <2>1. child' \in [Child -> ChildRec]
    BY <1>t, OvertakenTypes DEF StartFails, Stopped, Terminated, At, ChildRec
  <2>2. task' \in [Task -> TaskRec]
    BY <1>t, <1>s DEF Names, StartFails, Stopped, Terminated, At, At, TaskRec
  <2>3. watch' \in [Poller -> GreenletRec]
    BY <1>t DEF StartFails, Stopped, Terminated, At, At, GreenletRec
  <2>4. watcher' \in WatcherRec /\ (watcher'.started <=> watcher'.poller # None)
    BY <1>t, <1>s, <1>e DEF Names, StartFails, Stopped, Terminated, At, WatcherRec, TypeOK
  <2>5. watcher'.started => watch'[watcher'.poller].pc # "none"
    BY <1>t, <1>e DEF TypeOK
  <2>6. failures' \in 0..MaxFailures
    BY <1>t, ProcWatcherAssumption DEF StartFails, TypeOK
  <2>. QED  BY <2>1, <2>2, <2>3, <2>4, <2>5, <2>6 DEF TypeOK
<1>2. Shapes'
  BY <1>i, <1>s, <1>e, ProcWatcherAssumption DEF Names, Shapes, Task
<1>3. Launching'
  BY <1>i, <1>s, <1>e, ProcWatcherAssumption DEF Names, Shapes, Launching, Task
<1>4. Alone'
  BY <1>i, <1>s, <1>e, ProcWatcherAssumption DEF Names, Shapes, Launching, Alone, Starting,
     Current, Task
<1>5. Remembers
  <2>. SUFFICES ASSUME NEW c \in Child, child[c].st = "running", Known(c),
                       task'[Main].pc # "gone"
       PROVE  Known(c)' \/ child'[c].st = "exited" \/ Displaced(c)
    BY DEF Remembers
  <2>1. c # task[a].child
    BY <1>i, <1>e DEF Launching
  <2>3. Held(c) \/ child[c].killed
    BY DEF Known
  <2>4. CASE \E b \in Task : task[b].child = c
    <3>1. PICK b \in Task : task[b].child = c
      BY <2>4
    <3>. QED  BY <1>e, <2>1, <3>1 DEF Held, Known
  <2>5. CASE child[c].killed \/ c = watcher.popen
    BY <1>e, <2>1, <2>5 DEF Known
  <2>. QED  BY <1>e, <2>1, <2>3, <2>4, <2>5 DEF Held, Known
<1>6. CanStart'
  BY <1>i, <1>s, <1>e, ProcWatcherAssumption DEF Names, Shapes, Launching, Alone, Starting,
     Current, CanStart, Task
<1>. QED  BY <1>1, <1>2, <1>3, <1>4, <1>5, <1>6 DEF IInv

LEMMA PollerSeesExitStep ==
    ASSUME IInv, NEW g \in Poller, PollerSeesExit(g)
    PROVE  IInv' /\ Remembers
<1>t. /\ TypeOK /\ Shapes /\ Launching /\ Alone /\ CanStart
      /\ child \in [Child -> ChildRec] /\ watch \in [Poller -> GreenletRec]
      /\ task \in [Task -> TaskRec] /\ watcher \in WatcherRec
  BY DEF IInv, TypeOK
<1>i. Shapes /\ Launching /\ Alone /\ CanStart
  BY <1>t
<1>s. Names
  BY <1>t, Named
<1>e. /\ Current(g)
      /\ watcher.popen \in Child
      /\ child[watcher.popen].st = "exited"
      /\ watcher'.popen = None
      /\ watcher'.started = watcher.started
      /\ watcher'.poller = watcher.poller
      /\ child' = child
      /\ task' = task
      /\ watch' = watch
  BY <1>t, <1>s, Fields, OvertakenFields, ProcWatcherAssumption DEF Names, PollerSeesExit,
     Terminated, WatcherRec, ChildRec, GreenletRec, TaskRec
<1>1. TypeOK'
  BY <1>t, ProcWatcherAssumption, Fields DEF PollerSeesExit, Terminated, TypeOK, Shapes,
     WatcherRec, ChildRec, GreenletRec, TaskRec, At, Stopped, Current
<1>2. Shapes'
  BY <1>i, <1>s, <1>e, ProcWatcherAssumption DEF Names, Shapes, Task
<1>3. Launching'
  BY <1>i, <1>s, <1>e, ProcWatcherAssumption DEF Names, Shapes, Launching, Task
<1>4. Alone'
  BY <1>i, <1>s, <1>e, ProcWatcherAssumption DEF Names, Shapes, Launching, Alone, Starting,
     Current, Task
<1>5. Remembers
  BY <1>i, <1>s, <1>e, ProcWatcherAssumption DEF Names, Shapes, Launching, Alone, Starting,
     Remembers, Known, Displaced, Held, Task
<1>6. CanStart'
  BY <1>i, <1>s, <1>e, ProcWatcherAssumption DEF Names, Shapes, Launching, Alone, Starting,
     Current, CanStart, Task
<1>. QED  BY <1>1, <1>2, <1>3, <1>4, <1>5, <1>6 DEF IInv

LEMMA PollerLaunchedStep ==
    ASSUME IInv, NEW g \in Poller, PollerLaunched(g)
    PROVE  IInv' /\ Remembers
<1>t. /\ TypeOK /\ Shapes /\ Launching /\ Alone /\ CanStart
      /\ child \in [Child -> ChildRec] /\ watch \in [Poller -> GreenletRec]
      /\ task \in [Task -> TaskRec] /\ watcher \in WatcherRec
  BY DEF IInv, TypeOK
<1>i. Shapes /\ Launching /\ Alone /\ CanStart
  BY <1>t
<1>s. Names
  BY <1>t, Named
<1>e. /\ watch[g].pc = "launch"
      /\ watcher'.popen = watch[g].child
      /\ watcher'.started = watcher.started
      /\ watcher'.poller = watcher.poller
      /\ watch'[g].pc = "check"
      /\ watch'[g].child = None
      /\ \A k \in Poller \ {g} : watch'[k] = watch[k]
      /\ \A d \in Child :
           /\ child'[d].st = (IF d = watch[g].child THEN "running" ELSE child[d].st)
           /\ child'[d].killed = child[d].killed
           /\ child'[d].alone = child[d].alone
           /\ child'[d].reaper = child[d].reaper
      /\ task' = task
  BY <1>t, <1>s, Fields, OvertakenFields, ProcWatcherAssumption DEF Names, PollerLaunched, At,
     WatcherRec, ChildRec, GreenletRec, TaskRec
<1>1. TypeOK'
  BY <1>t, ProcWatcherAssumption, Fields DEF PollerLaunched, At, TypeOK, Shapes,
     WatcherRec, ChildRec, GreenletRec, TaskRec, At, Stopped, Current
<1>2. Shapes'
  BY <1>i, <1>s, <1>e, ProcWatcherAssumption DEF Names, Shapes, Task
<1>3. Launching'
  BY <1>i, <1>s, <1>e, ProcWatcherAssumption DEF Names, Shapes, Launching, Task
<1>4. Alone'
  BY <1>i, <1>s, <1>e, ProcWatcherAssumption DEF Names, Shapes, Launching, Alone, Starting,
     Current, Task
<1>5. Remembers
  BY <1>i, <1>s, <1>e, ProcWatcherAssumption DEF Names, Shapes, Launching, Alone, Starting,
     Remembers, Known, Displaced, Held, Task
<1>6. CanStart'
  BY <1>i, <1>s, <1>e, ProcWatcherAssumption DEF Names, Shapes, Launching, Alone, Starting,
     Current, CanStart, Task
<1>. QED  BY <1>1, <1>2, <1>3, <1>4, <1>5, <1>6 DEF IInv

LEMMA PollerFailsStep ==
    ASSUME IInv, NEW g \in Poller, PollerFails(g)
    PROVE  IInv' /\ Remembers
<1>t. /\ TypeOK /\ Shapes /\ Launching /\ Alone /\ CanStart
      /\ child \in [Child -> ChildRec] /\ watch \in [Poller -> GreenletRec]
      /\ task \in [Task -> TaskRec] /\ watcher \in WatcherRec
  BY DEF IInv, TypeOK
<1>i. Shapes /\ Launching /\ Alone /\ CanStart
  BY <1>t
<1>s. Names
  BY <1>t, Named
<1>e. /\ watch[g].pc = "launch"
      /\ watcher' = watcher
      /\ watch'[g].pc = "check"
      /\ watch'[g].child = None
      /\ \A k \in Poller \ {g} : watch'[k] = watch[k]
      /\ \A d \in Child :
           /\ child'[d].st = (IF d = watch[g].child THEN "exited" ELSE child[d].st)
           /\ child'[d].killed = child[d].killed
           /\ child'[d].alone = child[d].alone
           /\ child'[d].reaper = child[d].reaper
      /\ task' = task
  BY <1>t, <1>s, Fields, OvertakenFields, ProcWatcherAssumption DEF Names, PollerFails, At,
     WatcherRec, ChildRec, GreenletRec, TaskRec
<1>1. TypeOK'
  BY <1>t, ProcWatcherAssumption, Fields DEF PollerFails, At, TypeOK, Shapes, WatcherRec,
     ChildRec, GreenletRec, TaskRec, At, Stopped, Current
<1>2. Shapes'
  BY <1>i, <1>s, <1>e, ProcWatcherAssumption DEF Names, Shapes, Task
<1>3. Launching'
  BY <1>i, <1>s, <1>e, ProcWatcherAssumption DEF Names, Shapes, Launching, Task
<1>4. Alone'
  BY <1>i, <1>s, <1>e, ProcWatcherAssumption DEF Names, Shapes, Launching, Alone, Starting,
     Current, Task
<1>5. Remembers
  BY <1>i, <1>s, <1>e, ProcWatcherAssumption DEF Names, Shapes, Launching, Alone, Starting,
     Remembers, Known, Displaced, Held, Task
<1>6. CanStart'
  BY <1>i, <1>s, <1>e, ProcWatcherAssumption DEF Names, Shapes, Launching, Alone, Starting,
     Current, CanStart, Task
<1>. QED  BY <1>1, <1>2, <1>3, <1>4, <1>5, <1>6 DEF IInv

LEMMA ExitsStep == ASSUME IInv, NEW c \in Child, Exits(c) PROVE IInv' /\ Remembers
<1>t. /\ TypeOK /\ Shapes /\ Launching /\ Alone /\ CanStart
      /\ child \in [Child -> ChildRec] /\ watch \in [Poller -> GreenletRec]
      /\ task \in [Task -> TaskRec] /\ watcher \in WatcherRec
  BY DEF IInv, TypeOK
<1>i. Shapes /\ Launching /\ Alone /\ CanStart
  BY <1>t
<1>s. Names
  BY <1>t, Named
<1>e. /\ child[c].st = "running"
      /\ watcher' = watcher
      /\ task' = task
      /\ watch' = watch
      /\ child'[c].st = "exited"
      /\ child'[c].alone = child[c].alone
      /\ child'[c].reaper = child[c].reaper
      /\ ~child'[c].killed
      /\ \A d \in Child : d # c => child'[d] = child[d]
  BY <1>t, <1>s, Fields, OvertakenFields, ProcWatcherAssumption DEF Names, Exits, WatcherRec,
     ChildRec, GreenletRec, TaskRec
<1>1. TypeOK'
  <2>1. child' \in [Child -> ChildRec]
    <3>1. child' = [child EXCEPT ![c] = [child[c] EXCEPT !.st = "exited", !.killed = FALSE]]
      BY <1>t DEF Exits
    <3>2. [child[c] EXCEPT !.st = "exited", !.killed = FALSE] \in ChildRec
      BY Fields, <1>t DEF ChildRec
    <3>. QED  BY <1>t, <3>1, <3>2
  <2>2. task' \in [Task -> TaskRec]
    BY <1>t, <1>s DEF Names, Exits, At, TaskRec
  <2>3. watch' \in [Poller -> GreenletRec]
    BY <1>t DEF Exits, At, GreenletRec
  <2>4. watcher' \in WatcherRec /\ (watcher'.started <=> watcher'.poller # None)
    BY <1>t, <1>s, <1>e DEF Names, Exits, WatcherRec, TypeOK
  <2>5. watcher'.started => watch'[watcher'.poller].pc # "none"
    BY <1>t, <1>e DEF TypeOK
  <2>6. failures' \in 0..MaxFailures
    BY <1>t, ProcWatcherAssumption DEF Exits, TypeOK
  <2>. QED  BY <2>1, <2>2, <2>3, <2>4, <2>5, <2>6 DEF TypeOK
<1>g. Starting' = Starting
  BY <1>e DEF Starting
<1>2. Shapes'
  BY <1>i, <1>s, <1>e, ProcWatcherAssumption DEF Names, Shapes, Task
<1>3. Launching'
  BY <1>i, <1>s, <1>e, ProcWatcherAssumption DEF Names, Shapes, Launching, Task
<1>4. Alone'
  BY <1>i, <1>s, <1>e, <1>g, ProcWatcherAssumption DEF Names, Shapes, Launching, Alone, Starting,
     Current, Task
<1>5. Remembers
  BY <1>i, <1>s, <1>e, <1>g, ProcWatcherAssumption DEF Names, Shapes, Launching, Alone, Starting,
     Remembers, Known, Displaced, Held, Task
<1>6. CanStart'
  BY <1>i, <1>s, <1>e, <1>g, ProcWatcherAssumption DEF Names, Shapes, Launching, Alone, Starting,
     Current, CanStart, Task
<1>. QED  BY <1>1, <1>2, <1>3, <1>4, <1>5, <1>6 DEF IInv

LEMMA ReaperKillsStep ==
    ASSUME IInv, NEW c \in Child, ReaperKills(c)
    PROVE  IInv' /\ Remembers
<1>t. /\ TypeOK /\ Shapes /\ Launching /\ Alone /\ CanStart
      /\ child \in [Child -> ChildRec] /\ watch \in [Poller -> GreenletRec]
      /\ task \in [Task -> TaskRec] /\ watcher \in WatcherRec
  BY DEF IInv, TypeOK
<1>i. Shapes /\ Launching /\ Alone /\ CanStart
  BY <1>t
<1>s. Names
  BY <1>t, Named
<1>e. /\ child[c].reaper # "none"
      /\ child[c].st = "running"
      /\ watcher' = watcher
      /\ task' = task
      /\ watch' = watch
      /\ child'[c].st = child[c].st
      /\ child'[c].alone = child[c].alone
      /\ child'[c].reaper = "killing"
      /\ child'[c].killed
      /\ \A d \in Child : d # c => child'[d] = child[d]
  BY <1>t, <1>s, Fields, OvertakenFields, ProcWatcherAssumption DEF Names, ReaperKills,
     WatcherRec, ChildRec, GreenletRec, TaskRec
<1>1. TypeOK'
  BY <1>t, ProcWatcherAssumption, Fields DEF ReaperKills, TypeOK, Shapes, WatcherRec,
     ChildRec, GreenletRec, TaskRec, At, Stopped, Current
<1>g. Starting' = Starting
  BY <1>e DEF Starting
<1>2. Shapes'
  BY <1>i, <1>s, <1>e, ProcWatcherAssumption DEF Names, Shapes, Task
<1>3. Launching'
  BY <1>i, <1>s, <1>e, ProcWatcherAssumption DEF Names, Shapes, Launching, Task
<1>4. Alone'
  BY <1>i, <1>s, <1>e, <1>g, ProcWatcherAssumption DEF Names, Shapes, Launching, Alone, Starting,
     Current, Task
<1>5. Remembers
  BY <1>i, <1>s, <1>e, <1>g, ProcWatcherAssumption DEF Names, Shapes, Launching, Alone, Starting,
     Remembers, Known, Displaced, Held, Task
<1>6. CanStart'
  BY <1>i, <1>s, <1>e, <1>g, ProcWatcherAssumption DEF Names, Shapes, Launching, Alone, Starting,
     Current, CanStart, Task
<1>. QED  BY <1>1, <1>2, <1>3, <1>4, <1>5, <1>6 DEF IInv

LEMMA ReaperEndsStep ==
    ASSUME IInv, NEW c \in Child, ReaperEnds(c)
    PROVE  IInv' /\ Remembers
<1>t. /\ TypeOK /\ Shapes /\ Launching /\ Alone /\ CanStart
      /\ child \in [Child -> ChildRec] /\ watch \in [Poller -> GreenletRec]
      /\ task \in [Task -> TaskRec] /\ watcher \in WatcherRec
  BY DEF IInv, TypeOK
<1>i. Shapes /\ Launching /\ Alone /\ CanStart
  BY <1>t
<1>s. Names
  BY <1>t, Named
<1>e. /\ child[c].st = "exited"
      /\ watcher' = watcher
      /\ task' = task
      /\ watch' = watch
      /\ \A d \in Child :
           /\ child'[d].st = child[d].st
           /\ child'[d].killed = child[d].killed
           /\ child'[d].alone = child[d].alone
           /\ child'[d].reaper = (IF d = c THEN "none" ELSE child[d].reaper)
  BY <1>t, <1>s, Fields, OvertakenFields, ProcWatcherAssumption DEF Names, ReaperEnds, WatcherRec,
     ChildRec, GreenletRec, TaskRec
<1>1. TypeOK'
  BY <1>t, ProcWatcherAssumption, Fields DEF ReaperEnds, TypeOK, Shapes, WatcherRec,
     ChildRec, GreenletRec, TaskRec, At, Stopped, Current
<1>g. Starting' = Starting
  BY <1>e DEF Starting
<1>2. Shapes'
  BY <1>i, <1>s, <1>e, ProcWatcherAssumption DEF Names, Shapes, Task
<1>3. Launching'
  BY <1>i, <1>s, <1>e, ProcWatcherAssumption DEF Names, Shapes, Launching, Task
<1>4. Alone'
  BY <1>i, <1>s, <1>e, <1>g, ProcWatcherAssumption DEF Names, Shapes, Launching, Alone, Starting,
     Current, Task
<1>5. Remembers
  BY <1>i, <1>s, <1>e, <1>g, ProcWatcherAssumption DEF Names, Shapes, Launching, Alone, Starting,
     Remembers, Known, Displaced, Held, Task
<1>6. CanStart'
  BY <1>i, <1>s, <1>e, <1>g, ProcWatcherAssumption DEF Names, Shapes, Launching, Alone, Starting,
     Current, CanStart, Task
<1>. QED  BY <1>1, <1>2, <1>3, <1>4, <1>5, <1>6 DEF IInv

LEMMA ProcessEndsStep == ASSUME IInv, ProcessEnds PROVE IInv' /\ Remembers
<1>t. /\ TypeOK /\ Shapes /\ Launching /\ Alone /\ CanStart
      /\ child \in [Child -> ChildRec] /\ watch \in [Poller -> GreenletRec]
      /\ task \in [Task -> TaskRec] /\ watcher \in WatcherRec
  BY DEF IInv, TypeOK
<1>i. Shapes /\ Launching /\ Alone /\ CanStart
  BY <1>t
<1>s. Names
  BY <1>t, Named
<1>e. /\ task[Main].pc = "end"
      /\ task'[Main].pc = "gone"
      /\ \A b \in Task : task'[b].pc \in {"idle", "gone"} /\ task'[b].child = None
      /\ \A g \in Poller : watch'[g].pc = "none" /\ watch'[g].child = None
      /\ watcher'.popen = None
      /\ watcher'.started = FALSE
      /\ watcher'.poller = None
      /\ \A d \in Child :
           /\ child'[d].st = "exited"
           /\ child'[d].reaper = "none"
  BY <1>t, <1>s, Fields, ProcWatcherAssumption DEF Names, ProcessEnds, Stopped, Terminated,
     Unborn, At, Task, Shapes, WatcherRec, TaskRec
<1>1. TypeOK'
  <2>1. child' \in [Child -> ChildRec]
    BY DEF ProcessEnds, Unborn, ChildRec
  <2>2. task' \in [Task -> TaskRec]
    BY <1>t, <1>s DEF Names, ProcessEnds, Stopped, At, Task, At, TaskRec
  <2>3. watch' \in [Poller -> GreenletRec]
    BY <1>t DEF ProcessEnds, Stopped, At, Task, At, GreenletRec
  <2>4. watcher' \in WatcherRec /\ (watcher'.started <=> watcher'.poller # None)
    BY <1>t, <1>e DEF ProcessEnds, Stopped, Terminated, WatcherRec
  <2>5. watcher'.started => watch'[watcher'.poller].pc # "none"
    BY <1>t, <1>e DEF TypeOK
  <2>6. failures' \in 0..MaxFailures
    BY <1>t, ProcWatcherAssumption DEF ProcessEnds, TypeOK
  <2>. QED  BY <2>1, <2>2, <2>3, <2>4, <2>5, <2>6 DEF TypeOK
<1>g. Starting' = {}
  BY <1>e DEF Starting
<1>2. Shapes'
  BY <1>i, <1>s, <1>e, ProcWatcherAssumption DEF Names, Shapes, Task
<1>3. Launching'
  BY <1>i, <1>s, <1>e, ProcWatcherAssumption DEF Names, Shapes, Launching, Task
<1>4. Alone'
  BY <1>i, <1>s, <1>e, <1>g, ProcWatcherAssumption DEF Names, Shapes, Launching, Alone, Starting,
     Current, Task
<1>5. Remembers
  BY <1>i, <1>s, <1>e, <1>g, ProcWatcherAssumption DEF Names, Shapes, Launching, Alone, Starting,
     Remembers, Known, Displaced, Held, Task
<1>6. CanStart'
  BY <1>i, <1>s, <1>e, <1>g, ProcWatcherAssumption DEF Names, Shapes, Launching, Alone, Starting,
     Current, CanStart, Task
<1>. QED  BY <1>1, <1>2, <1>3, <1>4, <1>5, <1>6 DEF IInv

LEMMA DestroyStep == ASSUME IInv, Destroy PROVE IInv' /\ Remembers
<1>t. /\ TypeOK /\ Shapes /\ Launching /\ Alone /\ CanStart
      /\ child \in [Child -> ChildRec] /\ watch \in [Poller -> GreenletRec]
      /\ task \in [Task -> TaskRec] /\ watcher \in WatcherRec
  BY DEF IInv, TypeOK
<1>i. Shapes /\ Launching /\ Alone /\ CanStart
  BY <1>t
<1>s. Names
  BY <1>t, Named
<1>e. /\ task[Main].pc = "idle"
      /\ task'[Main].pc = "end"
      /\ task'[Main].child = task[Main].child
      /\ \A b \in Task \ {Main} : task'[b] = task[b]
      /\ watch' = watch
      /\ \/ ~watcher.started /\ watcher' = watcher /\ child' = child
         \/ /\ watcher.started
            /\ watcher'.popen = None
            /\ watcher'.started = FALSE
            /\ watcher'.poller = None
            /\ \A d \in Child :
                 /\ child'[d].st = child[d].st
                 /\ child'[d].killed = child[d].killed
                 /\ child'[d].alone = (child[d].alone /\ d \notin Starting)
                 /\ child'[d].reaper = (IF d = watcher.popen THEN "waiting"
                                                            ELSE child[d].reaper)
  BY <1>t, <1>s, Fields, OvertakenFields, ProcWatcherAssumption DEF Names, Destroy, Stopped,
     Terminated, Task, WatcherRec, ChildRec, GreenletRec, TaskRec
<1>1. TypeOK'
  <2>1. child' \in [Child -> ChildRec]
    <3>1. Overtaken(Starting) \in [Child -> ChildRec]
      BY <1>t, OvertakenTypes
    <3>2. \A c \in Child : [Overtaken(Starting)[c] EXCEPT
             !.reaper = IF c = watcher.popen THEN "waiting" ELSE @] \in ChildRec
      BY <3>1 DEF ChildRec
    <3>. QED  BY <1>t, <3>2 DEF Destroy
  <2>2. task' \in [Task -> TaskRec]
    BY <1>t, <1>s DEF Names, Destroy, Stopped, Terminated, Task, At, TaskRec
  <2>3. watch' \in [Poller -> GreenletRec]
    BY <1>t DEF Destroy, Stopped, Terminated, Task, At, GreenletRec
  <2>4. watcher' \in WatcherRec /\ (watcher'.started <=> watcher'.poller # None)
    BY <1>t, <1>s, <1>e DEF Names, Destroy, Stopped, Terminated, Task, WatcherRec, TypeOK
  <2>5. watcher'.started => watch'[watcher'.poller].pc # "none"
    BY <1>t, <1>e DEF TypeOK
  <2>6. failures' \in 0..MaxFailures
    BY <1>t, ProcWatcherAssumption DEF Destroy, TypeOK
  <2>. QED  BY <2>1, <2>2, <2>3, <2>4, <2>5, <2>6 DEF TypeOK
<1>g. Starting' = Starting
  BY <1>e DEF Starting
<1>2. Shapes'
  BY <1>i, <1>s, <1>e, ProcWatcherAssumption DEF Names, Shapes, Task
<1>3. Launching'
  BY <1>i, <1>s, <1>e, ProcWatcherAssumption DEF Names, Shapes, Launching, Task
<1>4. Alone'
  BY <1>i, <1>s, <1>e, <1>g, ProcWatcherAssumption DEF Names, Shapes, Launching, Alone, Starting,
     Current, Task
<1>5. Remembers
  <2>. SUFFICES ASSUME NEW c \in Child, child[c].st = "running", Known(c),
                       task'[Main].pc # "gone"
       PROVE  Known(c)' \/ child'[c].st = "exited" \/ Displaced(c)
    BY DEF Remembers
  <2>1. child[c].st = "running"
    OBVIOUS
  <2>2. Held(c) \/ child[c].killed
    BY DEF Known
  <2>3. CASE \E b \in Task : task[b].child = c
    <3>1. PICK b \in Task : task[b].child = c
      BY <2>3
    <3>. QED  BY <1>e, <3>1 DEF Held, Known
  <2>. QED  BY <1>e, <2>1, <2>2, <2>3 DEF Held, Known
<1>6. CanStart'
  BY <1>i, <1>s, <1>e, <1>g, ProcWatcherAssumption DEF Names, Shapes, Launching, Alone, Starting,
     Current, CanStart, Task
<1>. QED  BY <1>1, <1>2, <1>3, <1>4, <1>5, <1>6 DEF IInv

-----------------------------------------------------------------------------
(* start(), as the last part of a step of the greenlet a that may have      *)
(* stopped the watcher before, or taken from it a process that has exited.  *)
LEMMA LaunchesStep ==
    ASSUME IInv, NEW a \in Task, task[a].pc \notin {"launch", "gone"},
           NEW ch \in [Child -> ChildRec], Launches(a, watcher', ch), UNCHANGED <<watch, failures>>,
           \A d \in Child : /\ ch[d].st = child[d].st /\ ch[d].killed = child[d].killed
                            /\ ch[d].reaper = child[d].reaper
                            /\ ch[d].alone => child[d].alone,
           watcher' \in WatcherRec, watcher'.started <=> watcher'.poller # None,
           watcher'.started => watcher.started /\ watcher'.poller = watcher.poller,
           watcher.started /\ ~watcher'.started => \A d \in Starting : ~ch[d].alone,
           \/ watcher'.popen = watcher.popen /\ (~watcher.started => ~watcher'.started)
           \/ watcher'.popen = None /\ watcher.popen = task[a].child,
           task[a].child # None => child[task[a].child].st = "exited",
           watcher'.popen # None => /\ ~(watcher.started /\ ~watcher'.started)
                                    /\ watcher'.popen # task[a].child
    PROVE  IInv' /\ Remembers
<1>i. TypeOK /\ Shapes /\ Launching /\ Alone /\ CanStart
  BY DEF IInv
<1>s. Names
  BY <1>i, Named
<1>1. TypeOK'
  <2>1. task' \in [Task -> TaskRec] /\ child' \in [Child -> ChildRec]
    BY <1>i, LaunchesTypes
  <2>. QED  BY <1>i, <2>1 DEF TypeOK
<1>o. \A b \in Task : b # a => task'[b] = task[b]
  BY <1>i, LaunchesFields
<1>m. task'[Main].pc # "gone" => task[Main].pc # "gone"
  BY <1>o DEF Task
<1>2. CASE /\ task'[a].pc = "idle" /\ task'[a].child = None
           /\ child' = ch
  <2>g. Starting' = Starting
    BY <1>2 DEF Starting
  <2>1. Shapes' /\ Launching'
    BY <1>i, <1>s, <1>o, <1>2 DEF Names, Shapes, Launching
  <2>2. Alone'
    <3>1. \A c, d \in Starting' : child'[c].alone => c = d
      BY <1>i, <1>2, <2>g DEF Alone, Starting
    <3>2. watcher'.popen # None /\ Starting' # {} => ~child'[watcher'.popen].alone
      BY <1>i, <1>s, <1>2, <2>g DEF Names, Alone
    <3>3. \A g \in Poller : watch'[g].pc = "launch" /\ child'[watch'[g].child].alone => Current(g)'
      <4>. SUFFICES ASSUME NEW g \in Poller, watch[g].pc = "launch", ch[watch[g].child].alone
           PROVE  Current(g)'
        BY <1>2
      <4>1. watch[g].child \in Starting
        BY <1>i, <1>s DEF Names, Launching, Starting
      <4>2. Current(g)
        BY <1>i, <1>s DEF Names, Alone
      <4>. QED  BY <4>1, <4>2 DEF Current
    <3>. QED  BY <3>1, <3>2, <3>3 DEF Alone
  <2>3. Remembers
    <3>. SUFFICES ASSUME NEW c \in Child, child[c].st = "running", Known(c),
                         task'[Main].pc # "gone"
         PROVE  Known(c)' \/ child'[c].st = "exited" \/ Displaced(c)
      BY DEF Remembers
    <3>1. child[c].st = "running" /\ (Held(c) \/ child[c].killed)
      BY DEF Known
    <3>2. CASE \E b \in Task : task[b].child = c
      <4>1. PICK b \in Task : task[b].child = c
        BY <3>2
      <4>2. b # a
        BY <3>1, <4>1, ProcWatcherAssumption
      <4>. QED  BY <1>o, <4>1, <4>2 DEF Held, Known
    <3>3. CASE c = watcher.popen
      <4>1. watcher'.popen = c
        BY <3>1, <3>3, ProcWatcherAssumption
      <4>. QED  BY <4>1 DEF Held, Known
    <3>. QED  BY <1>2, <3>1, <3>2, <3>3 DEF Held, Known
  <2>4. CanStart'
    <3>. SUFFICES ASSUME ~watcher'.started, watcher'.popen # None, task'[Main].pc # "gone"
         PROVE  \/ \E b \in Task : task'[b].child = watcher'.popen
                \/ ~child'[watcher'.popen].alone
      BY DEF CanStart
    <3>1. ~watcher.started /\ watcher'.popen = watcher.popen
      BY <1>i DEF TypeOK, WatcherRec
    <3>2. CASE \E b \in Task : task[b].child = watcher.popen
      <4>1. PICK b \in Task : task[b].child = watcher.popen
        BY <3>2
      <4>2. CASE b # a
        BY <1>o, <3>1, <4>1, <4>2
      <4>3. CASE b = a
        BY <3>1, <4>1, <4>3
      <4>. QED  BY <4>2, <4>3
    <3>3. CASE ~child[watcher.popen].alone
      BY <1>s, <1>2, <3>1, <3>3 DEF Names
    <3>. QED  BY <1>i, <1>m, <3>1, <3>2, <3>3 DEF CanStart
  <2>. QED  BY <1>1, <2>1, <2>2, <2>3, <2>4 DEF IInv
<1>3. ASSUME NEW c \in Free, ~watcher'.started, watcher'.popen = None,
             task'[a].pc = "launch", task'[a].child = c, child' = Forked(ch, c)
      PROVE  IInv' /\ Remembers
  <2>. c \in Child /\ ~Held(c)
    BY DEF Free
  <2>f. \A d \in Child : /\ child'[d].st = IF d = c THEN "starting" ELSE child[d].st
                         /\ d # c => child'[d].killed = child[d].killed
                         /\ d # c => child'[d].reaper = child[d].reaper
                         /\ d = c => (child'[d].alone <=> Starting = {})
                         /\ d # c /\ child'[d].alone => child[d].alone /\ d \notin Starting
    <3>. SUFFICES ASSUME NEW d \in Child
         PROVE  /\ child'[d].st = IF d = c THEN "starting" ELSE child[d].st
                /\ d # c => child'[d].killed = child[d].killed
                /\ d # c => child'[d].reaper = child[d].reaper
                /\ d = c => (child'[d].alone <=> Starting = {})
                /\ d # c /\ child'[d].alone => child[d].alone /\ d \notin Starting
      OBVIOUS
    <3>1. CASE d = c
      BY <1>3, <3>1, ForkedFields
    <3>2. CASE d # c
      <4>1. /\ child'[d].st = ch[d].st /\ child'[d].killed = ch[d].killed
            /\ child'[d].reaper = ch[d].reaper
            /\ child'[d].alone <=> ch[d].alone /\ d \notin Starting
        BY <1>3, <3>2, ForkedFields
      <4>. QED  BY <3>2, <4>1
    <3>. QED  BY <3>1, <3>2
  <2>n. child[c].st # "starting"
    BY DEF Held, Known
  <2>1. Shapes' /\ Launching'
    BY <1>i, <1>s, <1>o, <1>3, <2>f, <2>n, ProcWatcherAssumption DEF Names, Shapes, Launching
  <2>2. Alone'
    <3>g. Starting' = Starting \cup {c}
      BY <2>f DEF Starting
    <3>1. \A d, e \in Starting' : child'[d].alone => d = e
      BY <2>f, <3>g DEF Starting
    <3>2. \A g \in Poller : watch'[g].pc = "launch" => ~child'[watch'[g].child].alone
      <4>. SUFFICES ASSUME NEW g \in Poller, watch[g].pc = "launch"
           PROVE  ~child'[watch[g].child].alone
        OBVIOUS
      <4>1. watch[g].child \in Starting /\ watch[g].child # c
        BY <1>i, <1>s, <2>n DEF Names, Launching, Starting
      <4>. QED  BY <1>s, <2>f, <4>1 DEF Names
    <3>. QED  BY <1>3, <3>1, <3>2 DEF Alone
  <2>3. Remembers
    <3>. SUFFICES ASSUME NEW d \in Child, child[d].st = "running", Known(d),
                         task'[Main].pc # "gone"
         PROVE  Known(d)' \/ child'[d].st = "exited" \/ Displaced(d)
      BY DEF Remembers
    <3>0. CASE d = c
      BY <2>f, <3>0 DEF Known, Held
    <3>1. child[d].st = "running" /\ (Held(d) \/ child[d].killed)
      BY DEF Known
    <3>2. CASE \E b \in Task : task[b].child = d
      <4>1. PICK b \in Task : task[b].child = d
        BY <3>2
      <4>2. b # a
        BY <3>1, <4>1, ProcWatcherAssumption
      <4>. QED  BY <1>o, <4>1, <4>2 DEF Held, Known
    <3>3. CASE d = watcher.popen
      BY <1>3, <3>1, <3>3, ProcWatcherAssumption
    <3>. QED  BY <2>f, <3>0, <3>1, <3>2, <3>3 DEF Held, Known
  <2>4. CanStart'
    BY <1>3 DEF CanStart
  <2>. QED  BY <1>1, <2>1, <2>2, <2>3, <2>4 DEF IInv
<1>. QED  BY <1>i, <1>2, <1>3, LaunchesFields

LEMMA MainStartsStep == ASSUME IInv, MainStarts PROVE IInv' /\ Remembers
<1>i. TypeOK /\ Shapes /\ child \in [Child -> ChildRec] /\ watcher \in WatcherRec
  BY DEF IInv, TypeOK
<1>1. Main \in Task /\ task[Main].pc = "new" /\ task[Main].child = None
  BY <1>i DEF MainStarts, Shapes, Task
<1>2. /\ Launches(Main, watcher', child)
      /\ UNCHANGED <<watcher, watch, failures>>
  BY DEF MainStarts
<1>3. watcher.started <=> watcher.poller # None
  BY <1>i DEF TypeOK
<1>. QED  BY <1>i, <1>1, <1>2, <1>3, LaunchesStep

LEMMA RestartLaunchesStep ==
    ASSUME IInv, NEW a \in Task, RestartLaunches(a)
    PROVE  IInv' /\ Remembers
<1>i. TypeOK /\ Shapes /\ child \in [Child -> ChildRec] /\ watcher \in WatcherRec
  BY DEF IInv, TypeOK
<1>1. task[a].pc = "idle" /\ task[a].child = None /\ watcher.popen = None
  BY <1>i DEF RestartLaunches, Served, Shapes
<1>2. watcher'.popen = None /\ watcher'.started = FALSE /\ watcher'.poller = None
      /\ watcher' = Stopped /\ watcher' \in WatcherRec
  BY <1>i, <1>1 DEF RestartLaunches, Stopped, WatcherRec
<1>. DEFINE ch == IF watcher.started THEN Overtaken(Starting) ELSE child
<1>3. ch \in [Child -> ChildRec]
  BY <1>i, OvertakenTypes
<1>4. \A d \in Child : /\ ch[d].st = child[d].st /\ ch[d].killed = child[d].killed
                       /\ ch[d].reaper = child[d].reaper
                       /\ ch[d].alone => child[d].alone
                       /\ watcher.started /\ d \in Starting => ~ch[d].alone
  BY <1>i, OvertakenFields
<1>5. \A d \in Starting : d \in Child
  BY DEF Starting
<1>6. Launches(a, watcher', ch) /\ UNCHANGED <<watch, failures>>
  BY <1>2 DEF RestartLaunches
<1>. HIDE DEF ch
<1>. QED  BY <1>1, <1>2, <1>3, <1>4, <1>5, <1>6, LaunchesStep

LEMMA StopEndsStep == ASSUME IInv, NEW a \in Task, StopEnds(a) PROVE IInv' /\ Remembers
<1>i. TypeOK /\ Shapes /\ child \in [Child -> ChildRec] /\ watcher \in WatcherRec
      /\ (watcher.started <=> watcher.poller # None)
  BY DEF IInv, TypeOK
<1>1. /\ task[a].pc \notin {"launch", "gone"}
      /\ task[a].child # None /\ child[task[a].child].st = "exited"
  BY <1>i DEF StopEnds, Shapes
<1>2. /\ watcher' \in WatcherRec
      /\ watcher'.started = watcher.started /\ watcher'.poller = watcher.poller
      /\ watcher'.popen = IF watcher.popen = task[a].child THEN None ELSE watcher.popen
  BY <1>i DEF StopEnds, Terminated, WatcherRec
<1>3. Launches(a, watcher', child) /\ UNCHANGED <<watch, failures>>
  BY DEF StopEnds
<1>. QED  BY <1>i, <1>1, <1>2, <1>3, LaunchesStep

LEMMA PollerLaunchesStep ==
    ASSUME IInv, NEW g \in Poller, PollerLaunches(g)
    PROVE  IInv' /\ Remembers
<1>i. /\ TypeOK /\ Shapes /\ Launching /\ Alone /\ CanStart
      /\ child \in [Child -> ChildRec] /\ watch \in [Poller -> GreenletRec]
  BY DEF IInv, TypeOK
<1>s. Names
  BY <1>i, Named
<1>1. PICK c \in Free : /\ watch' = [watch EXCEPT ![g] = [pc |-> "launch", child |-> c]]
                        /\ child' = Forked(child, c)
  BY DEF PollerLaunches
<1>2. c \in Child /\ ~Held(c)
  BY DEF Free
<1>3. /\ Current(g) /\ watcher.popen = None /\ watch[g].pc = "check"
      /\ UNCHANGED <<watcher, task, failures>>
  BY DEF PollerLaunches
<1>4. /\ watch'[g].pc = "launch" /\ watch'[g].child = c
      /\ \A k \in Poller : k # g => watch'[k] = watch[k]
  BY <1>i, <1>1
<1>5. TypeOK'
  <2>1. [pc |-> "launch", child |-> c] \in GreenletRec
    BY <1>2 DEF GreenletRec
  <2>2. child' \in [Child -> ChildRec] /\ watch' \in [Poller -> GreenletRec]
    BY <1>i, <1>1, <1>2, <2>1, ForkedTypes
  <2>3. watcher.started => watch'[watcher.poller].pc # "none"
    BY <1>3, <1>4 DEF Current
  <2>. QED  BY <1>i, <1>3, <2>2, <2>3 DEF TypeOK
<1>f. \A d \in Child : /\ d = c => /\ child'[d].st = "starting"
                                   /\ child'[d].alone <=> Starting = {}
                       /\ d # c => /\ child'[d].st = child[d].st
                                   /\ child'[d].killed = child[d].killed
                                   /\ child'[d].reaper = child[d].reaper
                                   /\ child'[d].alone <=> child[d].alone /\ d \notin Starting
  BY <1>i, <1>1, <1>2, ForkedFields
<1>n. child[c].st # "starting"
  BY <1>2 DEF Held, Known
<1>6. Shapes' /\ Launching'
  BY <1>i, <1>s, <1>2, <1>3, <1>4, <1>f, <1>n, ProcWatcherAssumption DEF Names, Shapes, Launching
<1>7. Alone'
  <2>g. Starting' = Starting \cup {c}
    BY <1>2, <1>f DEF Starting
  <2>1. \A d, e \in Starting' : child'[d].alone => d = e
    BY <1>f, <2>g DEF Starting
  <2>2. \A k \in Poller : watch'[k].pc = "launch" /\ child'[watch'[k].child].alone => Current(k)'
    <3>. SUFFICES ASSUME NEW k \in Poller, k # g, watch[k].pc = "launch"
         PROVE  ~child'[watch[k].child].alone
      BY <1>3, <1>4 DEF Current
    <3>1. watch[k].child \in Starting /\ watch[k].child # c
      BY <1>i, <1>s, <1>n DEF Names, Launching, Starting
    <3>. QED  BY <1>s, <1>f, <3>1 DEF Names
  <2>. QED  BY <1>3, <2>1, <2>2 DEF Alone
<1>8. Remembers
  <2>. SUFFICES ASSUME NEW d \in Child, child[d].st = "running", Known(d),
                       task'[Main].pc # "gone"
       PROVE  Known(d)' \/ child'[d].st = "exited" \/ Displaced(d)
    BY DEF Remembers
  <2>1. CASE d = c
    BY <1>f, <2>1 DEF Known, Held
  <2>2. CASE d # c
    BY <1>3, <1>f, <2>2 DEF Known, Held
  <2>. QED  BY <2>1, <2>2
<1>9. CanStart'
  BY <1>3 DEF CanStart
<1>. QED  BY <1>5, <1>6, <1>7, <1>8, <1>9 DEF IInv

-----------------------------------------------------------------------------
LEMMA InvStep == IInv /\ [Next]_vars => IInv' /\ [Remembers]_vars
<1>1. ASSUME IInv, Next PROVE IInv' /\ Remembers
  <2>1. ASSUME NEW a \in Task, RestartStops(a) \/ RestartLaunches(a) \/ Goes(a)
        PROVE  IInv' /\ Remembers
    BY <1>1, <2>1, RestartStopsStep, RestartLaunchesStep, StopKillsStep, StopEndsStep,
       StartEndsStep, StartFailsStep DEF Goes
  <2>2. ASSUME NEW g \in Poller, Polls(g) PROVE IInv' /\ Remembers
    BY <1>1, <2>2, PollerSeesExitStep, PollerLaunchesStep, PollerLaunchedStep,
       PollerFailsStep DEF Polls
  <2>3. ASSUME NEW c \in Child, Exits(c) \/ ReaperKills(c) \/ ReaperEnds(c)
        PROVE  IInv' /\ Remembers
    BY <1>1, <2>3, ExitsStep, ReaperKillsStep, ReaperEndsStep
  <2>. QED
    BY <1>1, <2>1, <2>2, <2>3, MainStartsStep, DestroyStep, ProcessEndsStep DEF Next
<1>2. ASSUME IInv, UNCHANGED vars PROVE IInv'
  <2>1. TypeOK' /\ Shapes' /\ Launching'
    BY <1>2 DEF IInv, vars, TypeOK, Shapes, Launching
  <2>2. Alone' /\ CanStart'
    BY <1>2 DEF IInv, vars, Alone, Starting, Current, CanStart
  <2>. QED  BY <2>1, <2>2 DEF IInv
<1>. QED  BY <1>1, <1>2

(* The inductive invariant. That a process which is launched is "alone"     *)
(* ties the two greenlets that may set the watcher's process to the watcher *)
(* as it was when they began; CanStart is not inductive without.            *)
THEOREM Inductive == Spec => []IInv
BY InvInit, InvStep, PTL DEF Spec

(* Types, for any number of processes, poll greenlets and requests.         *)
THEOREM TypeCorrect == Spec => []TypeOK
<1>1. IInv => TypeOK
  BY DEF IInv
<1>. QED  BY <1>1, Inductive, PTL

(* The sentinel forgets a process that runs only when the end of another    *)
(* launch takes its place: launches that overlap are the one way, whatever  *)
(* stops, kills, failures and the sentinel's end come between.              *)
THEOREM NeverForgottenHolds == Spec => NeverForgotten
<1>1. IInv /\ [Next]_vars => [Remembers]_vars
  BY InvStep
<1>. QED  BY <1>1, Inductive, PTL DEF Spec, NeverForgotten

(* A watcher that is stopped and still has a process is about to lose it:   *)
(* start() will not raise for ever, with the same exception.                *)
THEOREM CanStartHolds == Spec => []CanStart
<1>1. IInv => CanStart
  BY DEF IInv
<1>. QED  BY <1>1, Inductive, PTL
=============================================================================
