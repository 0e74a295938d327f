----------------------- MODULE FrontendSession_proofs ------------------------
(* Proofs about FrontendSession, for every set of connections, sessions,    *)
(* handles and request greenlets: a handle is detached once, a session that *)
(* is about to be destroyed is out of reach and, as long as its greenlet    *)
(* lives, not forgotten. Every fault may occur.                             *)
EXTENDS FrontendSession, TLAPS

(* A greenlet has handles and sessions left only inside destroy(), it       *)
(* attaches to a session, and the one that destroys the sessions of a       *)
(* connection runs only when the connection is closed.                      *)
Greenlets ==
    /\ \A w \in Worker : ~At(w, "destroy") => worker[w].todo = {} /\ worker[w].rest = {}
    /\ \A w \in Worker : At(w, "attach") => worker[w].sess \in Session
    /\ \A t \in up : At(t, "idle")

IInv == TypeOK /\ Greenlets /\ DetachedOnce /\ AvoidFutureUsage /\ PoppedIsPending

-----------------------------------------------------------------------------
USE FrontendAssumption

LEMMA IdleType == Idle \in WorkerRec
BY DEF Idle, WorkerRec

LEMMA LoopType ==
    ASSUME NEW todo \in SUBSET Handle, NEW rest \in SUBSET Session
    PROVE  /\ Loop(todo, rest) \in WorkerRec
           /\ Loop(todo, rest).todo = todo
           /\ Loop(todo, rest).rest = rest
           /\ \/ Loop(todo, rest).pc = "destroy"
              \/ Loop(todo, rest).pc = "idle" /\ todo = {} /\ rest = {}
BY DEF Loop, Idle, WorkerRec

\* What a greenlet does to its own record.
LEMMA WorkerMoves ==
    ASSUME TypeOK, Greenlets, NEW w \in Worker, NEW r \in WorkerRec,
           worker' = [worker EXCEPT ![w] = r],
           r.pc # "destroy" => r.todo = {} /\ r.rest = {},
           r.pc = "attach" => r.sess \in Session,
           up' \subseteq up,
           w \in up' => r.pc = "idle"
    PROVE  /\ worker' \in [Worker -> WorkerRec]
           /\ worker'[w] = r
           /\ \A v \in Worker : v # w => worker'[v] = worker[v]
           /\ Greenlets'
<1>1. worker \in [Worker -> WorkerRec]
  BY DEF TypeOK
<1>2. worker' \in [Worker -> WorkerRec] /\ worker'[w] = r
  BY <1>1
<1>3. \A v \in Worker : v # w => worker'[v] = worker[v]
  BY <1>1
<1>4. up \subseteq Worker
  BY DEF TypeOK, Worker
<1>. QED  BY <1>2, <1>3, <1>4 DEF Greenlets, At

\* A request greenlet is not the one of a connection or the checker.
LEMMA RequestMoves ==
    ASSUME TypeOK, Greenlets, NEW q \in Request, NEW r \in WorkerRec,
           worker' = [worker EXCEPT ![q] = r],
           r.pc # "destroy" => r.todo = {} /\ r.rest = {},
           r.pc = "attach" => r.sess \in Session,
           UNCHANGED up
    PROVE  /\ worker' \in [Worker -> WorkerRec]
           /\ worker'[q] = r
           /\ \A v \in Worker : v # q => worker'[v] = worker[v]
           /\ Greenlets'
<1>1. q \in Worker /\ q \notin up
  BY DEF TypeOK, Worker
<1>. QED  BY <1>1, WorkerMoves

LEMMA Finishes ==
    ASSUME TypeOK, Greenlets, NEW q \in Request, Finish(q), UNCHANGED up
    PROVE  /\ worker' \in [Worker -> WorkerRec]
           /\ worker'[q].todo = {} /\ worker'[q].rest = {}
           /\ \A v \in Worker : v # q => worker'[v] = worker[v]
           /\ Greenlets'
<1>1. Idle.pc = "idle" /\ Idle.todo = {} /\ Idle.rest = {}
  BY DEF Idle
<1>. QED  BY <1>1, IdleType, RequestMoves DEF Finish

-----------------------------------------------------------------------------
(* How steps move handles between the tables of the sessions and the loops  *)
(* of destroy().                                                            *)
LEMMA Kept ==
    ASSUME DetachedOnce,
           \A s \in Session : sess'[s].handles = sess[s].handles,
           \A w \in Worker : worker'[w].todo = worker[w].todo,
           \A h \in Handle : handle'[h].sess = handle[h].sess /\ (InUse(h)' <=> InUse(h))
    PROVE  DetachedOnce'
<1>1. \A h \in Handle : InTables(h)' = InTables(h) /\ InLoops(h)' = InLoops(h)
  BY DEF InTables, InLoops
<1>. QED  BY <1>1 DEF DetachedOnce, InTables

\* A session's handles go to the loop of the greenlet that destroys it.
LEMMA Taken ==
    ASSUME DetachedOnce, NEW s \in Session, NEW w \in Worker, worker[w].todo = {},
           sess'[s].handles = {}, worker'[w].todo = sess[s].handles,
           \A t \in Session \ {s} : sess'[t].handles = sess[t].handles,
           \A v \in Worker \ {w} : worker'[v].todo = worker[v].todo,
           UNCHANGED handle
    PROVE  DetachedOnce'
<1>. SUFFICES ASSUME NEW h \in Handle
     PROVE  /\ \A t \in InTables(h)' : handle'[h].sess = t /\ InLoops(h)' = {}
            /\ \A v, u \in InLoops(h)' : v = u
            /\ InTables(h)' \cup InLoops(h)' # {} => InUse(h)'
  BY DEF DetachedOnce
<1>1. InUse(h)' <=> InUse(h)
  BY DEF InUse
<1>2. CASE h \in sess[s].handles
  <2>1. InTables(h) = {s} /\ InLoops(h) = {} /\ InUse(h)
    BY <1>2 DEF DetachedOnce, InTables
  <2>2. InTables(h)' = {}
    BY <2>1 DEF InTables
  <2>3. InLoops(h)' = {w}
    BY <1>2, <2>1 DEF InLoops
  <2>. QED  BY <1>1, <2>1, <2>2, <2>3
<1>3. CASE h \notin sess[s].handles
  <2>1. InTables(h)' = InTables(h) /\ InLoops(h)' = InLoops(h)
    BY <1>3 DEF InTables, InLoops
  <2>. QED  BY <1>1, <2>1 DEF DetachedOnce
<1>. QED  BY <1>2, <1>3

\* A handle that was in no table or loop is registered in its session.
LEMMA Placed ==
    ASSUME TypeOK, DetachedOnce, NEW s \in Session, NEW h \in Handle, FreeHandle(h),
           handle' = [handle EXCEPT ![h] = [sess |-> s, obj |-> "live"]],
           sess'[s].handles = sess[s].handles \cup {h},
           \A t \in Session \ {s} : sess'[t].handles = sess[t].handles,
           \A w \in Worker : worker'[w].todo = worker[w].todo
    PROVE  DetachedOnce'
<1>. SUFFICES ASSUME NEW g \in Handle
     PROVE  /\ \A t \in InTables(g)' : handle'[g].sess = t /\ InLoops(g)' = {}
            /\ \A v, u \in InLoops(g)' : v = u
            /\ InTables(g)' \cup InLoops(g)' # {} => InUse(g)'
  BY DEF DetachedOnce
<1>1. CASE g = h
  <2>1. InTables(h) = {} /\ InLoops(h) = {}
    BY DEF DetachedOnce, FreeHandle
  <2>2. InTables(h)' = {s} /\ InLoops(h)' = {}
    BY <2>1 DEF InTables, InLoops
  <2>3. handle'[h] = [sess |-> s, obj |-> "live"]
    BY DEF TypeOK
  <2>4. handle'[h].sess = s /\ InUse(h)'
    BY <2>3 DEF InUse
  <2>. QED  BY <1>1, <2>2, <2>4
<1>2. CASE g # h
  <2>1. InTables(g)' = InTables(g) /\ InLoops(g)' = InLoops(g)
    BY <1>2 DEF InTables, InLoops
  <2>2. handle'[g] = handle[g]
    BY <1>2 DEF TypeOK
  <2>3. InUse(g)' <=> InUse(g)
    BY <2>2 DEF InUse
  <2>. QED  BY <2>1, <2>2, <2>3 DEF DetachedOnce
<1>. QED  BY <1>1, <1>2

\* A handle leaves the place it is in and is detached.
LEMMA Removed ==
    ASSUME TypeOK, DetachedOnce, NEW h \in Handle, InTables(h)' = {}, InLoops(h)' = {},
           handle' = [handle EXCEPT ![h] = NoHandle],
           \A g \in Handle \ {h} : InTables(g)' = InTables(g) /\ InLoops(g)' = InLoops(g)
    PROVE  DetachedOnce'
<1>. SUFFICES ASSUME NEW g \in Handle
     PROVE  /\ \A t \in InTables(g)' : handle'[g].sess = t /\ InLoops(g)' = {}
            /\ \A v, u \in InLoops(g)' : v = u
            /\ InTables(g)' \cup InLoops(g)' # {} => InUse(g)'
  BY DEF DetachedOnce
<1>1. CASE g = h
  <2>1. handle'[h] = NoHandle
    BY DEF TypeOK
  <2>. QED  BY <1>1, <2>1 DEF InUse
<1>2. CASE g # h
  <2>1. handle'[g] = handle[g]
    BY <1>2 DEF TypeOK
  <2>2. InUse(g)' <=> InUse(g)
    BY <2>1 DEF InUse
  <2>. QED  BY <1>2, <2>1, <2>2 DEF DetachedOnce
<1>. QED  BY <1>1, <1>2

\* Handles leave the place they are in and nobody has them any more.
LEMMA Forsaken ==
    ASSUME DetachedOnce, UNCHANGED handle,
           \A g \in Handle : /\ InTables(g)' \subseteq InTables(g)
                             /\ InLoops(g)' \subseteq InLoops(g)
    PROVE  DetachedOnce'
BY DEF DetachedOnce, InUse

-----------------------------------------------------------------------------
(* How steps change the sessions that requests can reach.                   *)
LEMMA StillAvoided ==
    ASSUME AvoidFutureUsage, table' \subseteq table,
           \A s \in table' : sess'[s].destroyed = sess[s].destroyed,
           \A w \in Worker : worker'[w].rest \subseteq worker[w].rest
    PROVE  AvoidFutureUsage'
<1>1. \A s \in table' : ~sess'[s].destroyed /\ \A w \in Worker : s \notin worker'[w].rest
  BY DEF AvoidFutureUsage
<1>2. \A v, w \in Worker : v # w => worker'[v].rest \cap worker'[w].rest = {}
  BY DEF AvoidFutureUsage
<1>. QED  BY <1>1, <1>2 DEF AvoidFutureUsage

\* A greenlet takes the sessions in S out of the table to destroy them.
LEMMA Popping ==
    ASSUME AvoidFutureUsage, NEW S \in SUBSET table, NEW w \in Worker,
           table' = table \ S, UNCHANGED sess, worker'[w].rest = S,
           \A v \in Worker \ {w} : worker'[v].rest = worker[v].rest
    PROVE  AvoidFutureUsage'
<1>1. \A s \in table' : ~sess'[s].destroyed /\ \A v \in Worker : s \notin worker'[v].rest
  BY DEF AvoidFutureUsage
<1>2. ASSUME NEW u \in Worker, NEW v \in Worker, u # v
      PROVE  worker'[u].rest \cap worker'[v].rest = {}
  <2>1. CASE u # w /\ v # w
    BY <1>2, <2>1 DEF AvoidFutureUsage
  <2>2. CASE u = w \/ v = w
    BY <1>2, <2>2 DEF AvoidFutureUsage
  <2>. QED  BY <2>1, <2>2
<1>. QED  BY <1>1, <1>2 DEF AvoidFutureUsage

(* How steps change who has the sessions that have left the table.          *)
LEMMA StillPending ==
    ASSUME PoppedIsPending, lost \subseteq lost',
           \A s \in Session : s \notin table' /\ ~sess'[s].destroyed
              => \/ s \notin table /\ ~sess[s].destroyed
                 \/ \E w \in Worker : s \in worker'[w].rest,
           \A w \in Worker : \A s \in worker[w].rest :
              \/ sess'[s].destroyed \/ s \in lost'
              \/ \E v \in Worker : s \in worker'[v].rest
    PROVE  PoppedIsPending'
BY DEF PoppedIsPending

\* The requests leave it as it is: no session leaves the table but destroyed.
LEMMA PendingKept ==
    ASSUME PoppedIsPending, UNCHANGED lost, table \subseteq table',
           \A s \in Session : s \notin table' => sess'[s].destroyed = sess[s].destroyed,
           \A w \in Worker : worker'[w].rest = worker[w].rest
    PROVE  PoppedIsPending'
BY DEF PoppedIsPending

-----------------------------------------------------------------------------
\* Requests that leave the handles where they are.
LEMMA InvMessage ==
    ASSUME IInv, NEW r \in Request, NEW s \in Session,
           Keepalive(r, s) \/ Claim(r, s) \/ Attach(r, s)
    PROVE  IInv'
<1>1. r \in Worker /\ worker[r] \in WorkerRec /\ ~At(r, "destroy") /\ sess[s] \in SessionRec
  BY DEF IInv, TypeOK, Worker, Keepalive, Claim, Attach, At
<1>2. worker[r].todo = {} /\ worker[r].rest = {}
  BY <1>1 DEF IInv, Greenlets
<1>3. /\ worker' \in [Worker -> WorkerRec]
      /\ worker'[r].todo = {} /\ worker'[r].rest = {}
      /\ \A v \in Worker : v # r => worker'[v] = worker[v]
      /\ Greenlets'
  <2>1. CASE Finish(r) /\ UNCHANGED up
    BY <2>1, Finishes DEF IInv
  <2>2. CASE Attach(r, s)
    <3>. DEFINE q == [Idle EXCEPT !.pc = "attach", !.sess = s]
    <3>1. q \in WorkerRec /\ q.pc = "attach" /\ q.sess = s /\ q.todo = {} /\ q.rest = {}
      BY DEF WorkerRec, Idle
    <3>2. worker' = [worker EXCEPT ![r] = q] /\ UNCHANGED up
      BY <2>2 DEF Attach
    <3>. HIDE DEF q
    <3>. QED  BY <3>1, <3>2, RequestMoves DEF IInv
  <2>. QED  BY <2>1, <2>2 DEF Keepalive, Claim
<1>4. /\ sess' \in [Session -> SessionRec]
      /\ \A t \in Session : /\ sess'[t].handles = sess[t].handles
                            /\ sess'[t].destroyed = sess[t].destroyed
  <2>. DEFINE a == [sess[s] EXCEPT !.fresh = TRUE]
              b == [a EXCEPT !.ts = worker[r].trans]
  <2>1. /\ a \in SessionRec /\ a.handles = sess[s].handles /\ a.destroyed = sess[s].destroyed
        /\ b \in SessionRec /\ b.handles = sess[s].handles /\ b.destroyed = sess[s].destroyed
    BY <1>1 DEF SessionRec, WorkerRec
  <2>2. sess' = [sess EXCEPT ![s] = a] \/ sess' = [sess EXCEPT ![s] = b]
    BY DEF Keepalive, Claim, Attach, Activated, IInv, TypeOK
  <2>. HIDE DEF a, b
  <2>. QED  BY <2>1, <2>2 DEF IInv, TypeOK
<1>5. UNCHANGED <<up, table, handle, lost>>
  BY DEF Keepalive, Claim, Attach
<1>6. TypeOK'
  BY <1>3, <1>4, <1>5 DEF IInv, TypeOK
<1>7. \A v \in Worker : worker'[v].todo = worker[v].todo /\ worker'[v].rest = worker[v].rest
  BY <1>2, <1>3
<1>8. DetachedOnce'
  BY <1>4, <1>5, <1>7, Kept DEF IInv, InUse
<1>9. AvoidFutureUsage'
  BY <1>4, <1>5, <1>7, StillAvoided DEF IInv, TypeOK
<1>10. PoppedIsPending'
  BY <1>4, <1>5, <1>7, PendingKept DEF IInv
<1>. QED  BY <1>3, <1>6, <1>8, <1>9, <1>10 DEF IInv

LEMMA InvReceive ==
    ASSUME IInv, NEW r \in Request, NEW t \in Transport, Receive(r, t)
    PROVE  IInv'
<1>. DEFINE q == [Idle EXCEPT !.pc = "queued", !.trans = t]
<1>1. q \in WorkerRec /\ q.pc = "queued" /\ q.todo = {} /\ q.rest = {}
  BY DEF Idle, WorkerRec
<1>2. worker' = [worker EXCEPT ![r] = q] /\ UNCHANGED <<up, table, sess, handle, lost>> /\ r \in Worker
  BY DEF Receive, Worker
<1>3. worker[r].todo = {} /\ worker[r].rest = {}
  BY <1>2 DEF Receive, IInv, Greenlets, At
<1>. HIDE DEF q
<1>4. /\ worker' \in [Worker -> WorkerRec] /\ Greenlets' /\ worker'[r] = q
      /\ \A v \in Worker : v # r => worker'[v] = worker[v]
  BY <1>1, <1>2, RequestMoves DEF IInv
<1>5. \A v \in Worker : worker'[v].todo = worker[v].todo /\ worker'[v].rest = worker[v].rest
  BY <1>1, <1>3, <1>4
<1>6. TypeOK'
  BY <1>2, <1>4 DEF IInv, TypeOK
<1>7. DetachedOnce'
  BY <1>2, <1>5, Kept DEF IInv, InUse
<1>8. AvoidFutureUsage'
  BY <1>2, <1>5, StillAvoided DEF IInv
<1>9. PoppedIsPending'
  BY <1>2, <1>5, PendingKept DEF IInv
<1>. QED  BY <1>4, <1>6, <1>7, <1>8, <1>9 DEF IInv

\* What holds of a request greenlet before it runs, and after it has finished.
LEMMA Queued ==
    ASSUME IInv, NEW r \in Request, ~At(r, "destroy"), Finish(r), UNCHANGED up
    PROVE  /\ worker' \in [Worker -> WorkerRec] /\ Greenlets'
           /\ \A v \in Worker : /\ worker'[v].todo = worker[v].todo
                                /\ worker'[v].rest = worker[v].rest
<1>1. r \in Worker
  BY DEF Worker
<1>2. worker[r].todo = {} /\ worker[r].rest = {}
  BY <1>1 DEF IInv, Greenlets
<1>. QED  BY <1>2, Finishes DEF IInv

LEMMA InvRefused ==
    ASSUME IInv, NEW r \in Request, Refuse(r) \/ AttachFails(r)
    PROVE  IInv'
<1>1. UNCHANGED <<up, table, sess, handle, lost>> /\ Finish(r) /\ ~At(r, "destroy")
  BY DEF Refuse, AttachFails, At
<1>2. /\ worker' \in [Worker -> WorkerRec] /\ Greenlets'
      /\ \A v \in Worker : worker'[v].todo = worker[v].todo /\ worker'[v].rest = worker[v].rest
  BY <1>1, Queued
<1>3. TypeOK'
  BY <1>1, <1>2 DEF IInv, TypeOK
<1>4. DetachedOnce'
  BY <1>1, <1>2, Kept DEF IInv, InUse
<1>5. AvoidFutureUsage'
  BY <1>1, <1>2, StillAvoided DEF IInv
<1>6. PoppedIsPending'
  BY <1>1, <1>2, PendingKept DEF IInv
<1>. QED  BY <1>2, <1>3, <1>4, <1>5, <1>6 DEF IInv

LEMMA InvCreate ==
    ASSUME IInv, NEW r \in Request, Create(r)
    PROVE  IInv'
<1>1. PICK s \in Session :
        /\ FreeSession(s)
        /\ table' = table \cup {s}
        /\ sess' = [sess EXCEPT ![s] = [destroyed |-> FALSE, ts |-> worker[r].trans,
                                        handles |-> {}, fresh |-> TRUE]]
        /\ UNCHANGED <<handle, lost>>
  BY DEF Create
<1>2. /\ worker' \in [Worker -> WorkerRec] /\ Greenlets'
      /\ \A v \in Worker : worker'[v].todo = worker[v].todo /\ worker'[v].rest = worker[v].rest
  BY Queued DEF Create, At
<1>3. worker[r].trans \in Transport \cup {None}
  BY DEF IInv, TypeOK, Worker, WorkerRec
<1>4. /\ sess' \in [Session -> SessionRec]
      /\ sess'[s].handles = {} /\ ~sess'[s].destroyed
      /\ \A t \in Session \ {s} : sess'[t] = sess[t]
  <2>. DEFINE n == [destroyed |-> FALSE, ts |-> worker[r].trans, handles |-> {}, fresh |-> TRUE]
  <2>1. n \in SessionRec /\ n.handles = {} /\ ~n.destroyed
    BY <1>3 DEF SessionRec
  <2>2. sess' = [sess EXCEPT ![s] = n]
    BY <1>1
  <2>. HIDE DEF n
  <2>. QED  BY <2>1, <2>2 DEF IInv, TypeOK
<1>5. sess[s].handles = {}
  BY <1>1 DEF FreeSession, IInv, DetachedOnce, InTables, TypeOK, SessionRec
<1>6. TypeOK'
  BY <1>1, <1>2, <1>4 DEF IInv, TypeOK, Create
<1>7. DetachedOnce'
  BY <1>1, <1>2, <1>4, <1>5, Kept DEF IInv, InUse
<1>8. AvoidFutureUsage'
  <2>1. \A v \in Worker : s \notin worker[v].rest
    BY <1>1 DEF FreeSession
  <2>2. \A t \in table' : ~sess'[t].destroyed /\ \A v \in Worker : t \notin worker'[v].rest
    BY <1>1, <1>2, <1>4, <2>1 DEF IInv, AvoidFutureUsage, TypeOK
  <2>3. \A v, w \in Worker : v # w => worker'[v].rest \cap worker'[w].rest = {}
    BY <1>2 DEF IInv, AvoidFutureUsage
  <2>. QED  BY <2>2, <2>3 DEF AvoidFutureUsage
<1>9. PoppedIsPending'
  BY <1>1, <1>2, <1>4, PendingKept DEF IInv
<1>. QED  BY <1>2, <1>6, <1>7, <1>8, <1>9 DEF IInv

LEMMA InvAttachEnds ==
    ASSUME IInv, NEW r \in Request, AttachEnds(r)
    PROVE  IInv'
<1>. DEFINE s == worker[r].sess
<1>1. s \in Session
  BY DEF AttachEnds, IInv, Greenlets, Worker
<1>2. /\ worker' \in [Worker -> WorkerRec] /\ Greenlets'
      /\ \A v \in Worker : worker'[v].todo = worker[v].todo /\ worker'[v].rest = worker[v].rest
  BY Queued DEF AttachEnds, At
<1>3. PICK h \in Handle :
        /\ FreeHandle(h)
        /\ handle' = [handle EXCEPT ![h] = [sess |-> s, obj |-> "live"]]
        /\ sess' = [sess EXCEPT ![s].handles = @ \cup {h}]
  BY DEF AttachEnds
<1>. HIDE DEF s
<1>4. /\ sess' \in [Session -> SessionRec]
      /\ sess'[s].handles = sess[s].handles \cup {h}
      /\ \A t \in Session : sess'[t].destroyed = sess[t].destroyed
      /\ \A t \in Session \ {s} : sess'[t].handles = sess[t].handles
  <2>. DEFINE n == [sess[s] EXCEPT !.handles = @ \cup {h}]
  <2>1. sess[s] \in SessionRec
    BY <1>1 DEF IInv, TypeOK
  <2>2. n \in SessionRec /\ n.handles = sess[s].handles \cup {h} /\ n.destroyed = sess[s].destroyed
    BY <2>1 DEF SessionRec
  <2>3. sess' = [sess EXCEPT ![s] = n]
    BY <1>3
  <2>. HIDE DEF n
  <2>. QED  BY <1>1, <2>2, <2>3 DEF IInv, TypeOK
<1>5. handle' \in [Handle -> HandleRec]
  BY <1>1, <1>3 DEF IInv, TypeOK, HandleRec
<1>6. TypeOK'
  BY <1>2, <1>4, <1>5 DEF IInv, TypeOK, AttachEnds
<1>7. DetachedOnce'
  BY <1>1, <1>2, <1>3, <1>4, Placed DEF IInv
<1>8. AvoidFutureUsage'
  BY <1>2, <1>4, StillAvoided DEF IInv, AttachEnds, TypeOK
<1>9. PoppedIsPending'
  BY <1>2, <1>4, PendingKept DEF IInv, AttachEnds
<1>. QED  BY <1>2, <1>6, <1>7, <1>8, <1>9 DEF IInv

LEMMA InvDetach ==
    ASSUME IInv, NEW r \in Request, NEW s \in Session, NEW h \in Handle, Detach(r, s, h)
    PROVE  IInv'
<1>1. /\ worker' \in [Worker -> WorkerRec] /\ Greenlets'
      /\ \A v \in Worker : worker'[v].todo = worker[v].todo /\ worker'[v].rest = worker[v].rest
  BY Queued DEF Detach, At
<1>2. /\ sess' \in [Session -> SessionRec]
      /\ sess'[s].handles = sess[s].handles \ {h}
      /\ \A t \in Session : sess'[t].destroyed = sess[t].destroyed
      /\ \A t \in Session \ {s} : sess'[t].handles = sess[t].handles
  <2>. DEFINE n == [sess[s] EXCEPT !.fresh = TRUE, !.handles = @ \ {h}]
  <2>1. sess[s] \in SessionRec
    BY DEF IInv, TypeOK
  <2>2. n \in SessionRec /\ n.handles = sess[s].handles \ {h} /\ n.destroyed = sess[s].destroyed
    BY <2>1 DEF SessionRec
  <2>3. sess' = [sess EXCEPT ![s] = n]
    BY DEF Detach, Popped, Activated, IInv, TypeOK
  <2>. HIDE DEF n
  <2>. QED  BY <2>2, <2>3 DEF IInv, TypeOK
<1>3. handle' \in [Handle -> HandleRec]
  <2>1. NoHandle \in HandleRec
    BY DEF NoHandle, HandleRec
  <2>. QED  BY <2>1 DEF Detach, IInv, TypeOK
<1>4. TypeOK'
  BY <1>1, <1>2, <1>3 DEF IInv, TypeOK, Detach
<1>5. InTables(h) = {s} /\ InLoops(h) = {}
  BY DEF Detach, IInv, DetachedOnce, InTables
<1>6. InTables(h)' = {} /\ InLoops(h)' = {}
  BY <1>1, <1>2, <1>5 DEF InTables, InLoops
<1>7. \A g \in Handle \ {h} : InTables(g)' = InTables(g) /\ InLoops(g)' = InLoops(g)
  BY <1>1, <1>2 DEF InTables, InLoops
<1>8. DetachedOnce'
  <2>1. CASE handle' = [handle EXCEPT ![h] = NoHandle]
    BY <2>1, <1>6, <1>7, Removed DEF IInv
  <2>2. CASE UNCHANGED handle
    BY <2>2, <1>5, <1>6, <1>7, Forsaken DEF IInv
  <2>. QED  BY <2>1, <2>2 DEF Detach
<1>9. AvoidFutureUsage'
  BY <1>1, <1>2, StillAvoided DEF IInv, Detach, TypeOK
<1>10. PoppedIsPending'
  BY <1>1, <1>2, PendingKept DEF IInv, Detach
<1>. QED  BY <1>1, <1>4, <1>8, <1>9, <1>10 DEF IInv

-----------------------------------------------------------------------------
\* destroy() of session s by greenlet w, which has no handles left.
LEMMA InvDestroyed ==
    ASSUME IInv, NEW w \in Worker, NEW s \in Session, NEW rest \in SUBSET Session,
           w \notin up, worker[w].todo = {}, rest \subseteq worker[w].rest,
           sess' = Destroyed(s), worker' = [worker EXCEPT ![w] = Loop(sess[s].handles, rest)],
           table' = table \ {s}, UNCHANGED <<up, handle, lost>>,
           worker[w].rest \subseteq rest \cup {s}
    PROVE  IInv'
<1>1. sess[s] \in SessionRec /\ sess[s].handles \in SUBSET Handle
  BY DEF IInv, TypeOK, SessionRec
<1>. DEFINE q == Loop(sess[s].handles, rest)
<1>2. /\ q \in WorkerRec /\ q.todo = sess[s].handles /\ q.rest = rest
      /\ q.pc # "destroy" => q.todo = {} /\ q.rest = {}
      /\ q.pc # "attach"
  BY <1>1, LoopType
<1>3. worker' = [worker EXCEPT ![w] = q]
  OBVIOUS
<1>. HIDE DEF q
<1>4. /\ worker' \in [Worker -> WorkerRec] /\ Greenlets' /\ worker'[w] = q
      /\ \A v \in Worker : v # w => worker'[v] = worker[v]
  BY <1>2, <1>3, WorkerMoves DEF IInv
<1>5. /\ sess' \in [Session -> SessionRec]
      /\ sess'[s].handles = {} /\ sess'[s].destroyed
      /\ \A t \in Session \ {s} : sess'[t] = sess[t]
  <2>. DEFINE n == [sess[s] EXCEPT !.destroyed = TRUE, !.ts = None, !.handles = {},
                               !.fresh = FALSE]
  <2>1. n \in SessionRec /\ n.handles = {} /\ n.destroyed
    BY <1>1 DEF SessionRec
  <2>2. sess' = [sess EXCEPT ![s] = n]
    BY DEF Destroyed, IInv, TypeOK
  <2>. HIDE DEF n
  <2>. QED  BY <2>1, <2>2 DEF IInv, TypeOK
<1>6. TypeOK'
  BY <1>4, <1>5 DEF IInv, TypeOK
<1>7. DetachedOnce'
  BY <1>2, <1>4, <1>5, Taken DEF IInv
<1>8. AvoidFutureUsage'
  <2>1. \A t \in table' : sess'[t].destroyed = sess[t].destroyed
    BY <1>5 DEF IInv, TypeOK
  <2>. QED  BY <1>2, <1>4, <2>1, StillAvoided DEF IInv
<1>9. PoppedIsPending'
  BY <1>2, <1>4, <1>5, StillPending DEF IInv
<1>. QED  BY <1>4, <1>6, <1>7, <1>8, <1>9 DEF IInv

LEMMA InvDestroyRequest ==
    ASSUME IInv, NEW r \in Request, NEW s \in Session, DestroyRequest(r, s)
    PROVE  IInv'
<1>1. r \in Worker /\ r \notin up
  BY DEF IInv, TypeOK, Worker
<1>2. worker[r].todo = {} /\ worker[r].rest = {}
  BY <1>1 DEF DestroyRequest, IInv, Greenlets, At
<1>. QED  BY <1>1, <1>2, InvDestroyed DEF DestroyRequest

LEMMA InvNextSession ==
    ASSUME IInv, NEW w \in Worker, NextSession(w)
    PROVE  IInv'
<1>1. PICK s \in worker[w].rest :
        /\ sess' = Destroyed(s)
        /\ worker' = [worker EXCEPT ![w] = Loop(sess[s].handles, worker[w].rest \ {s})]
  BY DEF NextSession, IInv, TypeOK
<1>2. worker[w].rest \in SUBSET Session
  BY DEF IInv, TypeOK, WorkerRec
<1>3. s \in Session /\ s \notin table /\ w \notin up
  BY <1>2 DEF IInv, AvoidFutureUsage, Greenlets, At, NextSession
<1>4. table' = table \ {s} /\ UNCHANGED <<up, handle, lost>> /\ worker[w].todo = {}
  BY <1>3 DEF NextSession
<1>. DEFINE rest == worker[w].rest \ {s}
<1>5. /\ rest \in SUBSET Session /\ rest \subseteq worker[w].rest
      /\ worker[w].rest \subseteq rest \cup {s}
  BY <1>2
<1>6. worker' = [worker EXCEPT ![w] = Loop(sess[s].handles, rest)]
  BY <1>1
<1>. HIDE DEF rest
<1>. QED  BY <1>1, <1>3, <1>4, <1>5, <1>6, InvDestroyed

\* The sessions in S leave the table, greenlet w is to destroy them.
LEMMA InvPopped ==
    ASSUME IInv, NEW w \in Worker, NEW S \in SUBSET table, At(w, "idle"),
           table' = table \ S, worker' = [worker EXCEPT ![w] = Loop({}, S)],
           up' \subseteq up, w \notin up', UNCHANGED <<sess, handle, lost>>
    PROVE  IInv'
<1>1. S \in SUBSET Session
  BY DEF IInv, TypeOK
<1>. DEFINE q == Loop({}, S)
<1>2. /\ q \in WorkerRec /\ q.todo = {} /\ q.rest = S
      /\ q.pc # "destroy" => q.todo = {} /\ q.rest = {}
      /\ q.pc # "attach"
  BY <1>1, LoopType
<1>3. worker' = [worker EXCEPT ![w] = q]
  OBVIOUS
<1>. HIDE DEF q
<1>4. /\ worker' \in [Worker -> WorkerRec] /\ worker'[w] = q
      /\ \A v \in Worker : v # w => worker'[v] = worker[v]
  BY <1>2, <1>3 DEF IInv, TypeOK
<1>5. Greenlets'
  BY <1>2, <1>4 DEF IInv, TypeOK, Greenlets, At, Worker
<1>6. worker[w].todo = {} /\ worker[w].rest = {}
  BY DEF IInv, Greenlets, At
<1>7. TypeOK'
  BY <1>4 DEF IInv, TypeOK
<1>8. DetachedOnce'
  BY <1>2, <1>4, <1>6, Kept DEF IInv, InUse
<1>9. AvoidFutureUsage'
  BY <1>2, <1>4, Popping DEF IInv
<1>10. PoppedIsPending'
  BY <1>2, <1>4, <1>6, StillPending DEF IInv
<1>. QED  BY <1>5, <1>7, <1>8, <1>9, <1>10 DEF IInv

LEMMA InvTransportGone ==
    ASSUME IInv, NEW t \in Transport, TransportGone(t)
    PROVE  IInv'
<1>1. t \in Worker /\ At(t, "idle")
  BY DEF TransportGone, IInv, Greenlets, Worker
<1>2. {s \in table : sess[s].ts = t} \in SUBSET table
  OBVIOUS
<1>. QED  BY <1>1, <1>2, InvPopped DEF TransportGone, PopAll

LEMMA InvCheckTimeouts ==
    ASSUME IInv, CheckTimeouts
    PROVE  IInv'
<1>1. Checker \in Worker /\ Checker \notin up
  BY DEF IInv, TypeOK, Worker
<1>2. {s \in table : ~sess[s].fresh} \in SUBSET table
  OBVIOUS
<1>. QED  BY <1>1, <1>2, InvPopped DEF CheckTimeouts, PopAll

LEMMA InvDetachNext ==
    ASSUME IInv, NEW w \in Worker, DetachNext(w)
    PROVE  IInv'
<1>1. worker[w] \in WorkerRec /\ worker[w].todo \in SUBSET Handle /\ worker[w].rest \in SUBSET Session
  BY DEF IInv, TypeOK, WorkerRec
<1>2. PICK h \in worker[w].todo :
        /\ handle' = [handle EXCEPT ![h] = NoHandle]
        /\ worker' = [worker EXCEPT ![w] =
             IF "raise" \in Faults /\ handle[h].obj = "closed"
             THEN Raised(worker[w])
             ELSE Loop(worker[w].todo \ {h}, worker[w].rest)]
  BY DEF DetachNext, IInv, TypeOK
<1>. DEFINE q == IF "raise" \in Faults /\ handle[h].obj = "closed"
                 THEN Loop({}, worker[w].rest)
                 ELSE Loop(worker[w].todo \ {h}, worker[w].rest)
<1>3. /\ q \in WorkerRec /\ q.rest = worker[w].rest
      /\ q.todo \subseteq worker[w].todo \ {h}
      /\ q.pc # "destroy" => q.todo = {} /\ q.rest = {}
      /\ q.pc # "attach"
  BY <1>1, LoopType
<1>4. worker' = [worker EXCEPT ![w] = q]
  BY <1>2 DEF Raised
<1>. HIDE DEF q
<1>5. w \notin up /\ h \in Handle /\ UNCHANGED <<up, table, sess, lost>>
  BY <1>1 DEF DetachNext, IInv, Greenlets, At
<1>6. /\ worker' \in [Worker -> WorkerRec] /\ Greenlets' /\ worker'[w] = q
      /\ \A v \in Worker : v # w => worker'[v] = worker[v]
  BY <1>3, <1>4, <1>5, WorkerMoves DEF IInv
<1>7. handle' \in [Handle -> HandleRec] /\ \A g \in Handle : g # h => handle'[g] = handle[g]
  <2>1. NoHandle \in HandleRec
    BY DEF NoHandle, HandleRec
  <2>. QED  BY <1>2, <1>5, <2>1 DEF IInv, TypeOK
<1>8. TypeOK'
  BY <1>5, <1>6, <1>7 DEF IInv, TypeOK
<1>9. InTables(h) = {} /\ InLoops(h) = {w}
  BY <1>5 DEF IInv, DetachedOnce, InLoops
<1>10. InTables(h)' = {} /\ InLoops(h)' = {}
  BY <1>3, <1>5, <1>6, <1>9 DEF InTables, InLoops
<1>11. \A g \in Handle \ {h} : InTables(g)' = InTables(g) /\ InLoops(g)' \subseteq InLoops(g)
  BY <1>3, <1>5, <1>6 DEF InTables, InLoops
<1>12. DetachedOnce'
  <2>. SUFFICES ASSUME NEW g \in Handle
       PROVE  /\ \A t \in InTables(g)' : handle'[g].sess = t /\ InLoops(g)' = {}
              /\ \A v, u \in InLoops(g)' : v = u
              /\ InTables(g)' \cup InLoops(g)' # {} => InUse(g)'
    BY DEF DetachedOnce
  <2>1. CASE g = h
    BY <1>10, <2>1
  <2>2. CASE g # h
    <3>1. InUse(g)' <=> InUse(g)
      BY <1>7, <2>2 DEF InUse
    <3>. QED  BY <1>7, <1>11, <2>2, <3>1 DEF IInv, DetachedOnce
  <2>. QED  BY <2>1, <2>2
<1>13. AvoidFutureUsage'
  BY <1>3, <1>5, <1>6, StillAvoided DEF IInv, TypeOK
<1>14. PoppedIsPending'
  BY <1>3, <1>5, <1>6, StillPending DEF IInv
<1>. QED  BY <1>6, <1>8, <1>12, <1>13, <1>14 DEF IInv

\* A gevent.Timeout ends the greenlet w in its loop.
LEMMA InvKilled ==
    ASSUME IInv, NEW w \in Worker, At(w, "destroy"), Killed(w),
           UNCHANGED <<up, table, sess, handle>>
    PROVE  IInv'
<1>1. worker[w].rest \in SUBSET Session /\ w \notin up
  BY DEF IInv, TypeOK, WorkerRec, Greenlets, At
<1>. DEFINE q == [Idle EXCEPT !.pc = IF w = Checker THEN "dead" ELSE "idle"]
<1>2. q \in WorkerRec /\ q.todo = {} /\ q.rest = {} /\ q.pc \in {"dead", "idle"}
  BY DEF Idle, WorkerRec
<1>3. worker' = [worker EXCEPT ![w] = q] /\ lost' = lost \cup worker[w].rest
  BY DEF Killed
<1>. HIDE DEF q
<1>4. /\ worker' \in [Worker -> WorkerRec] /\ Greenlets' /\ worker'[w] = q
      /\ \A v \in Worker : v # w => worker'[v] = worker[v]
  BY <1>1, <1>2, <1>3, WorkerMoves DEF IInv
<1>5. TypeOK'
  BY <1>1, <1>3, <1>4 DEF IInv, TypeOK
<1>6. \A g \in Handle : InTables(g)' = InTables(g) /\ InLoops(g)' \subseteq InLoops(g)
  BY <1>2, <1>4 DEF InTables, InLoops
<1>7. DetachedOnce'
  BY <1>6, Forsaken DEF IInv
<1>8. AvoidFutureUsage'
  BY <1>2, <1>4, StillAvoided DEF IInv
<1>9. PoppedIsPending'
  BY <1>2, <1>3, <1>4, StillPending DEF IInv
<1>. QED  BY <1>4, <1>5, <1>7, <1>8, <1>9 DEF IInv

LEMMA InvStalls ==
    ASSUME IInv, KickStalls \/ \E w \in Worker : DetachStalls(w)
    PROVE  IInv'
<1>1. Checker \in Worker
  BY DEF Worker
<1>2. CASE KickStalls
  BY <1>1, <1>2, InvKilled DEF KickStalls
<1>3. ASSUME NEW w \in Worker, DetachStalls(w)
      PROVE  IInv'
  BY <1>3, InvKilled DEF DetachStalls
<1>. QED  BY <1>2, <1>3

\* A connection opens, time passes, a backend session is lost.
LEMMA InvOutside ==
    ASSUME IInv,
           \/ \E t \in Transport : Connect(t)
           \/ \E s \in Session : Expire(s)
           \/ \E h \in Handle : BackendLost(h)
    PROVE  IInv'
<1>1. UNCHANGED <<table, worker, lost>>
  BY DEF Connect, Expire, BackendLost
<1>2. up' \subseteq Transport /\ Greenlets'
  BY <1>1 DEF Connect, Expire, BackendLost, IInv, TypeOK, Greenlets, At
<1>3. /\ sess' \in [Session -> SessionRec]
      /\ \A s \in Session : /\ sess'[s].handles = sess[s].handles
                            /\ sess'[s].destroyed = sess[s].destroyed
  <2>1. CASE UNCHANGED sess
    BY <2>1 DEF IInv, TypeOK
  <2>2. ASSUME NEW s \in Session, Expire(s)
        PROVE  /\ sess' \in [Session -> SessionRec]
               /\ \A u \in Session : /\ sess'[u].handles = sess[u].handles
                                     /\ sess'[u].destroyed = sess[u].destroyed
    BY <2>2 DEF Expire, IInv, TypeOK, SessionRec
  <2>. QED  BY <2>1, <2>2 DEF Connect, BackendLost
<1>4. /\ handle' \in [Handle -> HandleRec]
      /\ \A h \in Handle : handle'[h].sess = handle[h].sess /\ (InUse(h)' <=> InUse(h))
  <2>1. CASE UNCHANGED handle
    BY <2>1 DEF IInv, TypeOK, InUse
  <2>2. ASSUME NEW h \in Handle, BackendLost(h)
        PROVE  /\ handle' \in [Handle -> HandleRec]
               /\ \A g \in Handle : handle'[g].sess = handle[g].sess /\ (InUse(g)' <=> InUse(g))
    BY <2>2 DEF BackendLost, IInv, TypeOK, HandleRec, InUse
  <2>. QED  BY <2>1, <2>2 DEF Connect, Expire
<1>5. TypeOK'
  BY <1>1, <1>2, <1>3, <1>4 DEF IInv, TypeOK
<1>6. DetachedOnce'
  BY <1>1, <1>3, <1>4, Kept DEF IInv
<1>7. AvoidFutureUsage'
  BY <1>1, <1>3, StillAvoided DEF IInv, TypeOK
<1>8. PoppedIsPending'
  BY <1>1, <1>3, PendingKept DEF IInv
<1>. QED  BY <1>2, <1>5, <1>6, <1>7, <1>8 DEF IInv

-----------------------------------------------------------------------------
LEMMA InvInit == Init => IInv
<1>. SUFFICES ASSUME Init PROVE IInv
  OBVIOUS
<1>1. /\ Unborn \in SessionRec /\ Unborn.handles = {} /\ Unborn.destroyed
      /\ NoHandle \in HandleRec /\ NoHandle.obj = "none"
      /\ Idle.pc = "idle" /\ Idle.todo = {} /\ Idle.rest = {}
  BY DEF Unborn, NoHandle, Idle, SessionRec, HandleRec
<1>2. /\ \A s \in Session : sess[s] = Unborn
      /\ \A h \in Handle : handle[h] = NoHandle
      /\ \A w \in Worker : worker[w] = Idle
  BY DEF Init
<1>3. TypeOK
  BY <1>1, IdleType DEF Init, TypeOK
<1>4. Greenlets
  BY <1>1, <1>2 DEF Init, Greenlets, At, Worker
<1>5. \A h \in Handle : InTables(h) = {} /\ InLoops(h) = {} /\ ~InUse(h)
  BY <1>1, <1>2 DEF InTables, InLoops, InUse
<1>6. DetachedOnce
  BY <1>5 DEF DetachedOnce
<1>7. AvoidFutureUsage
  BY <1>1, <1>2 DEF Init, AvoidFutureUsage
<1>8. PoppedIsPending
  BY <1>1, <1>2 DEF PoppedIsPending
<1>. QED  BY <1>3, <1>4, <1>6, <1>7, <1>8 DEF IInv

LEMMA InvStep ==
    ASSUME IInv, [Next]_vars
    PROVE  IInv'
<1>1. CASE UNCHANGED vars
  BY <1>1 DEF vars, IInv, TypeOK, Greenlets, At, DetachedOnce, AvoidFutureUsage,
              PoppedIsPending, InTables, InLoops, InUse
<1>2. ASSUME NEW r \in Request, Handled(r)
      PROVE  IInv'
  BY <1>2, InvRefused, InvMessage, InvCreate, InvAttachEnds, InvDetach, InvDestroyRequest
     DEF Handled
<1>3. ASSUME NEW w \in Worker, Destroying(w)
      PROVE  IInv'
  BY <1>3, InvNextSession, InvDetachNext DEF Destroying
<1>4. ASSUME NEW t \in Transport, Connect(t) \/ TransportGone(t)
      PROVE  IInv'
  BY <1>4, InvOutside, InvTransportGone
<1>. QED  BY <1>1, <1>2, <1>3, <1>4, InvReceive, InvOutside, InvCheckTimeouts,
              InvStalls DEF Next

(* The inductive invariant of the sessions, whatever goes wrong: types,     *)
(* greenlets, the place of each handle, the table of sessions and what has  *)
(* left it.                                                                 *)
THEOREM Inductive == Spec => []IInv
<1>1. Init => IInv
  BY InvInit
<1>2. IInv /\ [Next]_vars => IInv'
  BY InvStep
<1>. QED  BY <1>1, <1>2, PTL DEF Spec

(* Every variable has its type.                                             *)
THEOREM TypeCorrect == Spec => []TypeOK
<1>1. IInv => TypeOK
  BY DEF IInv
<1>. QED  BY <1>1, Inductive, PTL

(* A request, the loop of destroy(), the timeout checker and the close of a *)
(* connection never detach the same handle, however they overtake another.  *)
THEOREM DetachedOnceHolds == Spec => []DetachedOnce
<1>1. IInv => DetachedOnce
  BY DEF IInv
<1>. QED  BY <1>1, Inductive, PTL

(* A session that waits to be destroyed is out of reach of requests and is  *)
(* destroyed by one greenlet.                                               *)
THEOREM AvoidFutureUsageHolds == Spec => []AvoidFutureUsage
<1>1. IInv => AvoidFutureUsage
  BY DEF IInv
<1>. QED  BY <1>1, Inductive, PTL

(* Whoever takes sessions out of the table has each until it is destroyed,  *)
(* whatever raises meanwhile, unless a gevent.Timeout ends the greenlet.    *)
THEOREM PoppedIsPendingHolds == Spec => []PoppedIsPending
<1>1. IInv => PoppedIsPending
  BY DEF IInv
<1>. QED  BY <1>1, Inductive, PTL
=============================================================================
