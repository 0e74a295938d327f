--------------------------- MODULE Cascade_proofs ---------------------------
(* Proofs about Cascade, for every number of users, publishers, remote       *)
(* publishers, subscribers and backend rooms and every set of faults.        *)
(* A step is first looked at for the types, then for the tree of publishers  *)
(* and remote publishers, for the feeds, for who is counted, and at last for *)
(* what the server has; each part uses those before it. Most actions leave a *)
(* part alone, which the lemmas ...Kept turn into its invariance.            *)
EXTENDS Cascade, TLAPS

(* What a greenlet that waits has in its local variables.                    *)
TaskShape(t) ==
    /\ t.pc # "idle" => /\ t.user \in User /\ t.pub \in Publisher
                        /\ t.broom \in BackendRoom \cup {Home}
    /\ t.pc \in {"lock", "add", "remove", "forward"} =>
         t.rp \in Remote /\ t.broom \in BackendRoom

Shapes == \A c \in Subscriber : TaskShape(task[c])

Typed == TypeOK /\ Shapes

JanusRec == [remote: SUBSET User, fed: SUBSET (Subscriber \X User), forward: SUBSET Publisher]

-----------------------------------------------------------------------------
LEMMA NoneApart ==
    /\ None \notin User /\ None \notin Publisher /\ None \notin Remote
    /\ None \notin Subscriber /\ None \notin BackendRoom /\ None # Home
    /\ Home \notin BackendRoom
BY CascadeAssumption

(* TypeOK, by the variable.                                                  *)
LEMMA Types ==
    ASSUME TypeOK
    PROVE  /\ listed \in [User -> Publisher \cup {None}]
           /\ pub \in [Publisher -> PubRec] /\ rp \in [Remote -> RemoteRec]
           /\ sub \in [Subscriber -> SubRec] /\ task \in [Subscriber -> TaskRec]
           /\ janus \in JanusRec /\ broom \in [BackendRoom -> {"none", "valid", "dead"}]
           /\ \A p \in Publisher : pub[p] \in PubRec /\ pub[p].user \in User \cup {None}
                                /\ pub[p].children \subseteq Remote
                                /\ pub[p].subs \subseteq Subscriber
                                /\ pub[p].remote \in Remote \cup {None}
           /\ \A r \in Remote : rp[r] \in RemoteRec /\ rp[r].pub \in Publisher \cup {None}
           /\ \A c \in Subscriber : /\ sub[c] \in SubRec /\ task[c] \in TaskRec
                                    /\ sub[c].feeds \in [User -> Publisher \cup {None}]
BY DEF TypeOK, PubRec, RemoteRec, SubRec, JanusRec

LEMMA BlankTypes ==
    /\ NoPub \in PubRec /\ NoRemote \in RemoteRec /\ NoSub \in SubRec /\ NoTask \in TaskRec
    /\ TaskShape(NoTask)
BY DEF NoPub, NoRemote, NoSub, NoTask, PubRec, RemoteRec, SubRec, TaskRec, TaskShape

LEMMA TypedInit == Init => Typed
<1>. SUFFICES ASSUME Init PROVE Typed
  OBVIOUS
<1>1. TypeOK
  BY BlankTypes DEF Init, TypeOK
<1>2. Shapes
  BY BlankTypes DEF Init, Shapes
<1>. QED  BY <1>1, <1>2 DEF Typed

LEMMA WithoutType == ASSUME TypeOK, NEW U PROVE Without(U) \in JanusRec
BY DEF TypeOK, Without, JanusRec

LEMMA UnfedType == ASSUME TypeOK, NEW c, NEW U PROVE Unfed(c, U) \in JanusRec
BY DEF TypeOK, Unfed, JanusRec

LEMMA EffectsOne ==
    ASSUME NEW r, NEW served, NEW e, NEW x, NEW y \in Effects(r, served, e, x)
    PROVE  /\ y = e \/ y = x
           /\ r # "error" => y = IF r = served THEN e ELSE x
BY DEF Effects

(* A greenlet goes on as t.                                                  *)
Goes(c, t) == t \in TaskRec /\ TaskShape(t) /\ task' = [task EXCEPT ![c] = t]

LEMMA GoesTyped ==
    ASSUME Typed, NEW c \in Subscriber, NEW t, Goes(c, t)
    PROVE  task' \in [Subscriber -> TaskRec] /\ Shapes'
BY Types DEF Typed, Goes, Shapes

LEMMA FinishGoes == ASSUME NEW c \in Subscriber, Finish(c) PROVE Goes(c, NoTask)
BY BlankTypes DEF Finish, Goes

LEMMA SendsAddTyped ==
    ASSUME TypeOK, NEW c \in Subscriber, NEW t \in TaskRec, t.user \in User, t.pub \in Publisher,
           t.broom \in BackendRoom, t.rp \in Remote, SendsAdd(c, t)
    PROVE  /\ janus' \in JanusRec
           /\ \E u \in TaskRec : Goes(c, u)
<1>1. PICK r \in {"ok", "exists", "error"} :
         /\ janus' \in Effects(r, "ok", [janus EXCEPT !.remote = @ \cup {t.user}], janus)
         /\ task' = [task EXCEPT ![c] = [t EXCEPT !.pc = "add", !.resp = r]]
  BY DEF SendsAdd, Answers
<1>2. [janus EXCEPT !.remote = @ \cup {t.user}] \in JanusRec /\ janus \in JanusRec
  BY DEF TypeOK, JanusRec
<1>3. janus' \in JanusRec
  BY <1>1, <1>2, EffectsOne
<1>4. Goes(c, [t EXCEPT !.pc = "add", !.resp = r])
  BY <1>1 DEF Goes, TaskRec, TaskShape
<1>. QED  BY <1>3, <1>4 DEF Goes

LEMMA CascadeToTyped ==
    ASSUME Typed, NEW c \in Subscriber, NEW t \in TaskRec, t.user \in User,
           t.pub \in Publisher, t.broom \in BackendRoom \cup {Home}, CascadeTo(c, t)
    PROVE  /\ pub' \in [Publisher -> PubRec] /\ rp' \in [Remote -> RemoteRec]
           /\ janus' \in JanusRec /\ \E u : Goes(c, u)
<1>t. TypeOK
  BY DEF Typed
<1>1. CASE /\ task' = [task EXCEPT ![c] = [t EXCEPT !.pc = "ready"]]
           /\ UNCHANGED <<pub, rp, janus>>
  <2>1. Goes(c, [t EXCEPT !.pc = "ready"])
    BY <1>1 DEF Goes, TaskRec, TaskShape
  <2>. QED  BY <1>t, <1>1, <2>1, Types
<1>2. CASE /\ t.broom # Home /\ pub[t.pub].remote # None
           /\ task' = [task EXCEPT ![c] = [t EXCEPT !.pc = "lock", !.rp = pub[t.pub].remote]]
           /\ UNCHANGED <<pub, rp, janus>>
  <2>1. pub[t.pub].remote \in Remote
    BY <1>t, <1>2, Types
  <2>. DEFINE u == [t EXCEPT !.pc = "lock", !.rp = pub[t.pub].remote]
  <2>2. u \in TaskRec /\ TaskShape(u)
    BY <1>2, <2>1 DEF TaskRec, TaskShape
  <2>3. Goes(c, u)
    BY <1>2, <2>2 DEF Goes
  <2>. QED  BY <1>t, <1>2, <2>3, Types
<1>3. ASSUME NEW n \in Remote, t.broom # Home,
             pub' = [pub EXCEPT ![t.pub].remote = n],
             rp' = [rp EXCEPT ![n] = [NoRemote EXCEPT !.pub = t.pub, !.destroyed = FALSE]],
             SendsAdd(c, [t EXCEPT !.rp = n])
      PROVE  /\ pub' \in [Publisher -> PubRec] /\ rp' \in [Remote -> RemoteRec]
             /\ janus' \in JanusRec /\ \E u : Goes(c, u)
  <2>1. pub' \in [Publisher -> PubRec]
    <3>1. pub[t.pub] \in PubRec
      BY <1>t, Types
    <3>2. [pub[t.pub] EXCEPT !.remote = n] \in PubRec
      BY <3>1 DEF PubRec
    <3>. QED  BY <1>t, <1>3, <3>2, Types
  <2>2. [NoRemote EXCEPT !.pub = t.pub, !.destroyed = FALSE] \in RemoteRec
    BY DEF NoRemote, RemoteRec
  <2>. DEFINE u == [t EXCEPT !.rp = n]
  <2>3. /\ u \in TaskRec /\ u.user \in User /\ u.pub \in Publisher /\ u.broom \in BackendRoom
        /\ u.rp \in Remote
    BY <1>3 DEF TaskRec
  <2>4. SendsAdd(c, u)
    BY <1>3
  <2>. HIDE DEF u
  <2>5. janus' \in JanusRec /\ \E v \in TaskRec : Goes(c, v)
    BY <1>t, <2>3, <2>4, SendsAddTyped
  <2>6. rp' \in [Remote -> RemoteRec]
    BY <1>t, <1>3, <2>2, Types
  <2>. QED  BY <2>1, <2>5, <2>6
<1>. QED  BY <1>1, <1>2, <1>3 DEF CascadeTo

LEMMA DestroyedType == ASSUME NEW x \in RemoteRec PROVE Destroyed(x) \in RemoteRec
BY DEF Destroyed, NoRemote, RemoteRec

LEMMA DestroyAllTyped ==
    ASSUME TypeOK, NEW R, DestroyAll(R) PROVE rp' \in [Remote -> RemoteRec]
BY DestroyedType, Types DEF DestroyAll

LEMMA FeedLostTyped ==
    ASSUME TypeOK, NEW p \in Publisher, FeedLost(p) PROVE sub' \in [Subscriber -> SubRec]
<1>1. ASSUME NEW c \in Subscriber
      PROVE  [sub[c] EXCEPT !.feeds[pub[p].user] = None] \in SubRec
  BY DEF TypeOK, SubRec
<1>. QED  BY <1>1, Types DEF FeedLost

LEMMA ForwardType ==
    ASSUME NEW j \in JanusRec, NEW F, F \subseteq Publisher
    PROVE  [j EXCEPT !.forward = F] \in JanusRec
BY DEF JanusRec

LEMMA PublisherTyped ==
    ASSUME Typed, NEW p \in Publisher,
           \/ PubUp(p) \/ PubHangup(p) \/ PubLeaves(p) \/ \E u \in User : PubJoins(p, u)
    PROVE  Typed'
<1>t. TypeOK /\ Shapes
  BY DEF Typed
<1>s. UNCHANGED <<task, broom>> => Shapes' /\ task' \in [Subscriber -> TaskRec]
                                   /\ broom' \in [BackendRoom -> {"none", "valid", "dead"}]
  BY <1>t, Types DEF Shapes
<1>1. ASSUME NEW u \in User, PubJoins(p, u) PROVE Typed'
  <2>1. pub' \in [Publisher -> PubRec] /\ listed' \in [User -> Publisher \cup {None}]
    BY <1>t, <1>1, BlankTypes DEF PubJoins, TypeOK, PubRec
  <2>. QED  BY <1>t, <1>s, <1>1, <2>1 DEF PubJoins, Typed, TypeOK
<1>2. CASE PubUp(p)
  <2>1. pub' \in [Publisher -> PubRec]
    <3>1. pub[p] \in PubRec
      BY <1>t, Types
    <3>2. [pub[p] EXCEPT !.up = TRUE] \in PubRec
      BY <3>1 DEF PubRec
    <3>. QED  BY <1>t, <1>2, <3>2, Types DEF PubUp
  <2>. QED  BY <1>t, <1>s, <1>2, <2>1 DEF PubUp, Typed, TypeOK
<1>3. ASSUME janus' = [Without(Removals(Children(p))) EXCEPT !.forward = @ \ {p}]
      PROVE  janus' \in JanusRec
  <2>1. Without(Removals(Children(p))) \in JanusRec
    BY <1>t, WithoutType
  <2>2. Without(Removals(Children(p))).forward \ {p} \subseteq Publisher
    BY <2>1 DEF JanusRec
  <2>. QED  BY <1>3, <2>1, <2>2, ForwardType
<1>4. CASE PubHangup(p)
  <2>1. pub' \in [Publisher -> PubRec]
    <3>1. pub[p].remote \in Remote \cup {None} /\ pub[p] \in PubRec
      BY <1>t, Types
    <3>. DEFINE x == IF pub[p].remote \in Children(p) THEN None ELSE pub[p].remote
    <3>2. pub' = [pub EXCEPT ![p] = [@ EXCEPT !.up = FALSE, !.children = {}, !.subs = {},
                                              !.remote = x]]
      BY <1>4 DEF PubHangup
    <3>3. x \in Remote \cup {None}
      BY <3>1
    <3>. HIDE DEF x
    <3>4. [pub[p] EXCEPT !.up = FALSE, !.children = {}, !.subs = {}, !.remote = x] \in PubRec
      BY <3>1, <3>3 DEF PubRec
    <3>. QED  BY <1>t, <3>2, <3>4 DEF TypeOK
  <2>2. rp' \in [Remote -> RemoteRec] /\ sub' \in [Subscriber -> SubRec] /\ janus' \in JanusRec
    BY <1>t, <1>3, <1>4, DestroyAllTyped, FeedLostTyped DEF PubHangup
  <2>. QED  BY <1>t, <1>s, <1>4, <2>1, <2>2 DEF PubHangup, Typed, TypeOK, JanusRec
<1>5. CASE PubLeaves(p)
  <2>1. pub' \in [Publisher -> PubRec] /\ listed' \in [User -> Publisher \cup {None}]
    <3>1. [NoPub EXCEPT !.user = pub[p].user] \in PubRec
      BY <1>t, BlankTypes, Types DEF PubRec
    <3>2. pub' = [pub EXCEPT ![p] = [NoPub EXCEPT !.user = pub[p].user]]
          /\ listed' = [listed EXCEPT ![pub[p].user] = None]
      BY <1>5 DEF PubLeaves
    <3>3. pub' \in [Publisher -> PubRec]
      BY <1>t, <3>1, <3>2, Types
    <3>4. listed' \in [User -> Publisher \cup {None}]
      BY <1>t, <3>2 DEF TypeOK
    <3>. QED  BY <3>3, <3>4
  <2>2. rp' \in [Remote -> RemoteRec] /\ sub' \in [Subscriber -> SubRec] /\ janus' \in JanusRec
    BY <1>t, <1>3, <1>5, DestroyAllTyped, FeedLostTyped DEF PubLeaves
  <2>. QED  BY <1>t, <1>s, <1>5, <2>1, <2>2 DEF PubLeaves, Typed, TypeOK, JanusRec
<1>. QED  BY <1>1, <1>2, <1>4, <1>5

LEMMA DestroyRemoteTyped ==
    ASSUME TypeOK, NEW r \in Remote, NEW U, DestroyRemote(r, U)
    PROVE  /\ pub' \in [Publisher -> PubRec] /\ rp' \in [Remote -> RemoteRec]
           /\ janus' \in JanusRec
<1>. DEFINE p == rp[r].pub
            child == rp[r].parent /\ ~pub[p].gone /\ pub[p].up /\ r \in pub[p].children
<1>1. rp' \in [Remote -> RemoteRec]
  BY DestroyedType, Types DEF DestroyRemote
<1>2. pub' \in [Publisher -> PubRec]
  <2>1. CASE p \notin Publisher
    <3>1. pub' = pub
      BY <2>1, Types DEF DestroyRemote
    <3>. QED  BY <3>1, Types
  <2>2. CASE p \in Publisher
    <3>1. pub[p] \in PubRec
      BY <2>2, Types
    <3>. DEFINE ch == IF child THEN pub[p].children \ {r} ELSE pub[p].children
                x == IF pub[p].remote = r THEN None ELSE pub[p].remote
    <3>2. pub' = [pub EXCEPT ![p] = [@ EXCEPT !.children = ch, !.remote = x]]
      BY <2>2, Types DEF DestroyRemote
    <3>3. ch \subseteq Remote /\ x \in Remote \cup {None}
      BY <3>1 DEF PubRec
    <3>. HIDE DEF ch, x
    <3>4. [pub[p] EXCEPT !.children = ch, !.remote = x] \in PubRec
      BY <3>1, <3>3 DEF PubRec
    <3>. QED  BY <3>2, <3>4, Types
  <2>. QED  BY <2>1, <2>2
<1>3. janus' \in JanusRec
  <2>. DEFINE F == IF child THEN Unforwarded(p) ELSE Without(U).forward
  <2>1. Without(U) \in JanusRec
    BY WithoutType
  <2>2. F \subseteq Publisher
    BY <2>1, Types DEF Unforwarded, JanusRec
  <2>3. janus' = [Without(U) EXCEPT !.forward = F]
    BY DEF DestroyRemote
  <2>. HIDE DEF F
  <2>. QED  BY <2>1, <2>2, <2>3, ForwardType
<1>. QED  BY <1>1, <1>2, <1>3

LEMMA TaskMoved ==
    ASSUME Typed, NEW c \in Subscriber, NEW t, Goes(c, t), UNCHANGED <<listed, broom>>,
           pub' \in [Publisher -> PubRec], rp' \in [Remote -> RemoteRec],
           sub' \in [Subscriber -> SubRec], janus' \in JanusRec
    PROVE  Typed'
<1>1. task' \in [Subscriber -> TaskRec] /\ Shapes'
  BY GoesTyped
<1>. QED  BY <1>1 DEF Typed, TypeOK, JanusRec

\* The greenlet goes on with another pc, remote publisher and answer.
Onto(t, pc, r, resp) == [t EXCEPT !.pc = pc, !.rp = r, !.resp = resp]

LEMMA OntoType ==
    ASSUME NEW t \in TaskRec, TaskShape(t), t.pc # "idle",
           NEW pc \in {"add", "remove", "forward", "ready", "join"},
           NEW resp \in {"none", "ok", "exists", "error"}, NEW r, r = t.rp \/ r = None,
           pc \in {"ready", "join"} \/ (t.pc \in {"add", "remove"} /\ r # None)
    PROVE  Onto(t, pc, r, resp) \in TaskRec /\ TaskShape(Onto(t, pc, r, resp))
BY DEF Onto, TaskRec, TaskShape

-----------------------------------------------------------------------------
\* A subscriber that has joined is at some backend room.
Placed == \A c \in Subscriber : sub[c].on => sub[c].broom \in BackendRoom \cup {Home}

LEMMA AddTyped ==
    ASSUME Typed, NEW c \in Subscriber, Added(c) \/ AddAgain(c) \/ AddFails(c)
    PROVE  Typed'
<1>t. TypeOK
  BY DEF Typed
<1>c. /\ task[c] \in TaskRec /\ task[c].user \in User /\ task[c].pub \in Publisher
      /\ task[c].rp \in Remote /\ task[c].broom \in BackendRoom
      /\ task[c].pc \in {"add", "remove"} /\ TaskShape(task[c])
  BY <1>t, Types DEF Added, AddAgain, AddFails, Answered, At, Typed, Shapes, TaskShape
<1>s. UNCHANGED sub => sub' \in [Subscriber -> SubRec]
  BY <1>t, Types
<1>n. task[c].rp # None
  BY <1>c, NoneApart
<1>1. ASSUME /\ rp' = [rp EXCEPT ![task[c].rp].broom = task[c].broom, ![task[c].rp].parent = TRUE]
             /\ pub' = [pub EXCEPT ![task[c].pub].children = @ \cup {task[c].rp}],
             NEW r \in {"ok", "error"},
             janus' \in Effects(r, "ok", [janus EXCEPT !.forward = @ \cup {task[c].pub}], janus),
             task' = [task EXCEPT ![c].pc = "forward", ![c].resp = r],
             UNCHANGED <<listed, broom, sub>>
      PROVE  Typed'
  <2>1. rp' \in [Remote -> RemoteRec]
    <3>1. rp[task[c].rp] \in RemoteRec
      BY <1>t, <1>c, Types
    <3>2. [rp[task[c].rp] EXCEPT !.broom = task[c].broom, !.parent = TRUE] \in RemoteRec
      BY <1>c, <3>1 DEF RemoteRec
    <3>3. rp' = [rp EXCEPT ![task[c].rp] = [@ EXCEPT !.broom = task[c].broom, !.parent = TRUE]]
      BY <1>1
    <3>. QED  BY <1>t, <3>2, <3>3, Types
  <2>2. pub' \in [Publisher -> PubRec]
    <3>1. pub[task[c].pub] \in PubRec
      BY <1>t, <1>c, Types
    <3>2. [pub[task[c].pub] EXCEPT !.children = @ \cup {task[c].rp}] \in PubRec
      BY <1>c, <3>1 DEF PubRec
    <3>. QED  BY <1>t, <1>1, <3>2, Types
  <2>3. janus' \in JanusRec
    <3>1. janus \in JanusRec /\ janus.forward \cup {task[c].pub} \subseteq Publisher
      BY <1>t, <1>c, Types DEF JanusRec
    <3>. DEFINE e == [janus EXCEPT !.forward = @ \cup {task[c].pub}]
    <3>2. e \in JanusRec
      BY <3>1, ForwardType
    <3>3. janus' \in Effects(r, "ok", e, janus)
      BY <1>1
    <3>. HIDE DEF e
    <3>. QED  BY <3>1, <3>2, <3>3, EffectsOne
  <2>4. Goes(c, Onto(task[c], "forward", task[c].rp, r))
    <3>1. [task[c] EXCEPT !.pc = "forward", !.resp = r] = Onto(task[c], "forward", task[c].rp, r)
      BY <1>c DEF Onto, TaskRec
    <3>2. /\ Onto(task[c], "forward", task[c].rp, r) \in TaskRec
          /\ TaskShape(Onto(task[c], "forward", task[c].rp, r))
      BY <1>c, <1>n, OntoType
    <3>. QED  BY <1>1, <3>1, <3>2 DEF Goes
  <2>. QED  BY <1>1, <1>s, <2>1, <2>2, <2>3, <2>4, TaskMoved
<1>2. ASSUME NEW U, DestroyRemote(task[c].rp, U), Finish(c), UNCHANGED <<listed, broom, sub>>
      PROVE  Typed'
  <2>1. /\ pub' \in [Publisher -> PubRec] /\ rp' \in [Remote -> RemoteRec] /\ janus' \in JanusRec
    BY <1>t, <1>c, <1>2, DestroyRemoteTyped
  <2>2. Goes(c, NoTask)
    BY <1>2, FinishGoes
  <2>. QED  BY <1>2, <1>s, <2>1, <2>2, TaskMoved
<1>3. CASE Added(c)
  BY <1>1, <1>2, <1>3 DEF Added, Answers
<1>4. CASE AddFails(c)
  BY <1>2, <1>4 DEF AddFails
<1>5. ASSUME NEW r \in {"ok", "error"}, 
             janus' \in Effects(r, "ok", Without({task[c].user}), janus),
             task' = [task EXCEPT ![c].pc = "remove", ![c].resp = r],
             UNCHANGED <<listed, pub, rp, broom, sub>>
      PROVE  Typed'
  <2>1. Without({task[c].user}) \in JanusRec /\ janus \in JanusRec
    BY <1>t, WithoutType, Types
  <2>2. janus' \in JanusRec
    BY <1>5, <2>1, EffectsOne
  <2>3. Goes(c, Onto(task[c], "remove", task[c].rp, r))
    <3>1. [task[c] EXCEPT !.pc = "remove", !.resp = r] = Onto(task[c], "remove", task[c].rp, r)
      BY <1>c DEF Onto, TaskRec
    <3>2. /\ Onto(task[c], "remove", task[c].rp, r) \in TaskRec
          /\ TaskShape(Onto(task[c], "remove", task[c].rp, r))
      BY <1>c, <1>n, OntoType
    <3>. QED  BY <1>5, <3>1, <3>2 DEF Goes
  <2>. QED  BY <1>5, <1>s, <1>t, <2>2, <2>3, TaskMoved, Types
<1>6. ASSUME SendsAdd(c, task[c]), UNCHANGED <<listed, pub, rp, broom, sub>>
      PROVE  Typed'
  <2>1. janus' \in JanusRec /\ \E u \in TaskRec : Goes(c, u)
    BY <1>t, <1>c, <1>6, SendsAddTyped
  <2>. QED  BY <1>6, <1>s, <1>t, <2>1, TaskMoved, Types
<1>7. CASE AddAgain(c)
  BY <1>5, <1>6, <1>7 DEF AddAgain, Answers
<1>. QED  BY <1>3, <1>4, <1>7

LEMMA UsingType == ASSUME NEW x \in RemoteRec, NEW c \in Subscriber
                   PROVE  Using(x, c) \in RemoteRec /\ Unused(x, c) \in RemoteRec
<1>1. Using(x, c) \in RemoteRec
  BY DEF Using, RemoteRec
<1>2. Unused(x, c) \in RemoteRec
  <2>. DEFINE S == x.subs \ {c}
              i == IF S # {} THEN "used" ELSE IF x.idle = "used" THEN "idle" ELSE x.idle
  <2>1. S \subseteq Subscriber /\ i \in {"used", "idle", "over"}
    BY DEF RemoteRec
  <2>2. Unused(x, c) = [x EXCEPT !.subs = S, !.idle = i]
    BY DEF Unused
  <2>. HIDE DEF S, i
  <2>. QED  BY <2>1, <2>2 DEF RemoteRec
<1>. QED  BY <1>1, <1>2

LEMMA WaitTyped ==
    ASSUME Typed, NEW c \in Subscriber,
           \/ LockGot(c) \/ LockTimeout(c) \/ Forwarded(c) \/ ForwardFails(c) \/ Ask(c)
           \/ JoinFails(c)
    PROVE  Typed'
<1>t. TypeOK
  BY DEF Typed
<1>c. task[c] \in TaskRec /\ TaskShape(task[c])
  BY <1>t, Types DEF Typed, Shapes
<1>u. UNCHANGED <<pub, rp, sub>> =>
        /\ pub' \in [Publisher -> PubRec] /\ rp' \in [Remote -> RemoteRec]
        /\ sub' \in [Subscriber -> SubRec]
  BY <1>t, Types
<1>1. ASSUME Finish(c), UNCHANGED <<listed, pub, rp, broom, sub>>, janus' \in JanusRec
      PROVE  Typed'
  BY <1>1, <1>u, FinishGoes, TaskMoved
<1>2. ASSUME UNCHANGED <<listed, pub, rp, broom, sub>>, janus' \in JanusRec,
             NEW pc \in {"ready", "join"}, NEW r, r = task[c].rp \/ r = None,
             NEW resp \in {"none", "ok", "exists", "error"}, task[c].pc # "idle",
             task' = [task EXCEPT ![c] = Onto(task[c], pc, r, resp)]
      PROVE  Typed'
  <2>1. Onto(task[c], pc, r, resp) \in TaskRec /\ TaskShape(Onto(task[c], pc, r, resp))
    BY <1>c, <1>2 DEF Onto, TaskRec, TaskShape
  <2>2. Goes(c, Onto(task[c], pc, r, resp))
    BY <1>2, <2>1 DEF Goes
  <2>. QED  BY <1>2, <1>u, <2>2, TaskMoved
<1>3. janus \in JanusRec /\ \A U : Unfed(c, U) \in JanusRec
  BY <1>t, Types, UnfedType
<1>4. CASE LockGot(c)
  <2>1. CASE Finish(c)
    BY <1>1, <1>3, <1>4, <2>1 DEF LockGot
  <2>2. CASE task' = [task EXCEPT ![c].pc = "ready", ![c].rp = None]
    <3>1. [task[c] EXCEPT !.pc = "ready", !.rp = None] = Onto(task[c], "ready", None, task[c].resp)
      BY <1>c DEF Onto, TaskRec
    <3>2. task' = [task EXCEPT ![c] = Onto(task[c], "ready", None, task[c].resp)]
      BY <2>2, <3>1
    <3>3. task[c].resp \in {"none", "ok", "exists", "error"} /\ task[c].pc # "idle"
      BY <1>c, <1>4 DEF TaskRec, LockGot, At
    <3>. QED  BY <1>2, <1>3, <1>4, <3>2, <3>3 DEF LockGot
  <2>. QED  BY <1>4, <2>1, <2>2 DEF LockGot
<1>5. CASE LockTimeout(c) \/ JoinFails(c)
  BY <1>1, <1>3, <1>5 DEF LockTimeout, JoinFails
<1>6. CASE Forwarded(c)
  <2>1. task' = [task EXCEPT ![c] = Onto(task[c], "ready", None, "none")]
    BY <1>6 DEF Forwarded, Onto
  <2>. QED  BY <1>2, <1>3, <1>6, <2>1 DEF Forwarded, Answered, At
<1>7. CASE ForwardFails(c)
  <2>1. task[c].rp \in Remote
    BY <1>c, <1>7 DEF ForwardFails, Answered, At, TaskShape
  <2>2. /\ pub' \in [Publisher -> PubRec] /\ rp' \in [Remote -> RemoteRec] /\ janus' \in JanusRec
    BY <1>t, <1>3, <1>7, <2>1, DestroyRemoteTyped, Types DEF ForwardFails
  <2>3. Goes(c, NoTask)
    BY <1>7, FinishGoes DEF ForwardFails
  <2>4. UNCHANGED <<listed, broom, sub>>
    BY <1>7 DEF ForwardFails
  <2>. QED  BY <1>t, <2>2, <2>3, <2>4, TaskMoved, Types
<1>8. CASE Ask(c)
  <2>1. CASE Finish(c) /\ UNCHANGED janus
    BY <1>1, <1>3, <1>8, <2>1 DEF Ask
  <2>2. ASSUME NEW r \in {"ok", "error"}, task' = [task EXCEPT ![c].pc = "join", ![c].resp = r],
               \/ UNCHANGED janus
               \/ janus' \in Effects(r, "ok", [janus EXCEPT !.fed = @ \cup {<<c, task[c].user>>}],
                                     janus)
        PROVE  Typed'
    <3>0. [task[c] EXCEPT !.pc = "join", !.resp = r] = Onto(task[c], "join", task[c].rp, r)
      BY <1>c DEF Onto, TaskRec
    <3>1. task' = [task EXCEPT ![c] = Onto(task[c], "join", task[c].rp, r)]
      BY <2>2, <3>0
    <3>2. task[c].user \in User /\ task[c].pc # "idle"
      BY <1>c, <1>8 DEF Ask, At, TaskShape
    <3>3. janus' \in JanusRec
      <4>1. [janus EXCEPT !.fed = @ \cup {<<c, task[c].user>>}] \in JanusRec
        BY <1>3, <3>2 DEF JanusRec
      <4>. QED  BY <1>3, <2>2, <4>1, EffectsOne
    <3>. QED  BY <1>2, <1>8, <2>2, <3>1, <3>2, <3>3 DEF Ask
  <2>. QED  BY <1>8, <2>1, <2>2 DEF Ask, Answers
<1>. QED  BY <1>4, <1>5, <1>6, <1>7, <1>8

LEMMA DropFeedsTyped ==
    ASSUME TypeOK, NEW c \in Subscriber, NEW U, DropFeeds(c, U)
    PROVE  pub' \in [Publisher -> PubRec] /\ rp' \in [Remote -> RemoteRec]
<1>1. \A p \in Publisher : pub[p] \in PubRec /\ [pub[p] EXCEPT !.subs = @ \ {c}] \in PubRec
  BY Types DEF PubRec
<1>2. \A r \in Remote : rp[r] \in RemoteRec /\ Unused(rp[r], c) \in RemoteRec
  BY Types, UsingType
<1>3. pub' \in [Publisher -> PubRec]
  BY <1>1 DEF DropFeeds
<1>4. rp' \in [Remote -> RemoteRec]
  BY <1>2 DEF DropFeeds
<1>. QED  BY <1>3, <1>4

LEMMA SubscriberTyped ==
    ASSUME Typed, Placed, NEW c \in Subscriber,
           \/ Joined(c) \/ SubHangup(c) \/ SubLeaves(c)
           \/ \E u \in User : \/ Subscribe(c, u) \/ Unsubscribe(c, u) \/ Updated(c, u)
                              \/ \E b \in BackendRoom \cup {Home} : Join(c, u, b)
    PROVE  Typed'
<1>t. TypeOK /\ Shapes
  BY DEF Typed
<1>c. task[c] \in TaskRec /\ TaskShape(task[c]) /\ sub[c] \in SubRec
  BY <1>t, Types DEF Shapes
<1>1. ASSUME NEW U, DropFeeds(c, U), sub' \in [Subscriber -> SubRec], janus' = Unfed(c, U),
             UNCHANGED <<listed, broom, task>>
      PROVE  Typed'
  <2>1. pub' \in [Publisher -> PubRec] /\ rp' \in [Remote -> RemoteRec]
    BY <1>t, <1>1, DropFeedsTyped
  <2>2. janus' \in JanusRec
    BY <1>t, <1>1, UnfedType
  <2>. QED  BY <1>t, <1>1, <2>1, <2>2, Types DEF Typed, TypeOK, Shapes, JanusRec
<1>2. ASSUME NEW u \in User, FeedDropped(c, u) PROVE Typed'
  <2>1. [sub[c] EXCEPT !.feeds[u] = None] \in SubRec
    BY <1>c DEF SubRec
  <2>2. sub' \in [Subscriber -> SubRec]
    BY <1>t, <1>2, <2>1, Types DEF FeedDropped
  <2>. QED  BY <1>1, <1>2, <2>2 DEF FeedDropped
<1>3. CASE SubHangup(c)
  <2>1. [sub[c] EXCEPT !.feeds = [u \in User |-> None]] \in SubRec
    BY <1>c DEF SubRec
  <2>2. sub' \in [Subscriber -> SubRec]
    BY <1>t, <1>3, <2>1, Types DEF SubHangup
  <2>. QED  BY <1>1, <1>3, <2>2 DEF SubHangup
<1>4. CASE SubLeaves(c)
  <2>2. sub' \in [Subscriber -> SubRec]
    BY <1>t, <1>4, BlankTypes, Types DEF SubLeaves
  <2>. QED  BY <1>1, <1>4, <2>2 DEF SubLeaves
<1>5. ASSUME NEW u \in User, NEW b \in BackendRoom \cup {Home}, Join(c, u, b) PROVE Typed'
  <2>. DEFINE t == [NoTask EXCEPT !.user = u, !.pub = listed[u], !.broom = b, !.new = TRUE]
  <2>1. listed[u] \in Publisher
    BY <1>t, <1>5, Types DEF Join
  <2>2. /\ t \in TaskRec /\ t.user \in User /\ t.pub \in Publisher
        /\ t.broom \in BackendRoom \cup {Home}
    BY <2>1 DEF NoTask, TaskRec
  <2>3. CascadeTo(c, t)
    BY <1>5 DEF Join
  <2>. HIDE DEF t
  <2>4. /\ pub' \in [Publisher -> PubRec] /\ rp' \in [Remote -> RemoteRec]
        /\ janus' \in JanusRec /\ \E v : Goes(c, v)
    BY <2>2, <2>3, CascadeToTyped
  <2>. QED  BY <1>t, <1>5, <2>4, TaskMoved, Types DEF Join
<1>6. ASSUME NEW u \in User, Subscribe(c, u) PROVE Typed'
  <2>. DEFINE t == [NoTask EXCEPT !.user = u, !.pub = listed[u], !.broom = sub[c].broom]
  <2>1. listed[u] \in Publisher
    BY <1>t, <1>6, Types DEF Subscribe
  <2>0. sub[c].broom \in BackendRoom \cup {Home}
    BY <1>6 DEF Subscribe, Placed
  <2>2. /\ t \in TaskRec /\ t.user \in User /\ t.pub \in Publisher
        /\ t.broom \in BackendRoom \cup {Home}
    BY <2>0, <2>1 DEF NoTask, TaskRec
  <2>3. CascadeTo(c, t)
    BY <1>6 DEF Subscribe
  <2>. HIDE DEF t
  <2>4. /\ pub' \in [Publisher -> PubRec] /\ rp' \in [Remote -> RemoteRec]
        /\ janus' \in JanusRec /\ \E v : Goes(c, v)
    BY <2>2, <2>3, CascadeToTyped
  <2>. QED  BY <1>t, <1>6, <2>4, TaskMoved, Types DEF Subscribe
<1>7. CASE Joined(c)
  <2>. DEFINE t == task[c]
              p == listed[t.user]
              takes == (t.new \/ sub[c].on) /\ p # None /\ sub[c].feeds[t.user] = None
  <2>0. t.user \in User /\ t.broom \in BackendRoom \cup {Home} /\ p \in Publisher \cup {None}
    BY <1>t, <1>c, <1>7, Types DEF Joined, Answered, At, TaskShape
  <2>1. pub' \in [Publisher -> PubRec]
    <3>1. CASE takes
      <4>1. pub[p] \in PubRec /\ p \in Publisher
        BY <1>t, <2>0, <3>1, Types
      <4>2. [pub[p] EXCEPT !.subs = @ \cup {c}] \in PubRec
        BY <4>1 DEF PubRec
      <4>3. pub' = [pub EXCEPT ![p] = [pub[p] EXCEPT !.subs = @ \cup {c}]]
        BY <1>t, <1>7, <3>1, <4>1, Types DEF Joined
      <4>. HIDE DEF p
      <4>. QED  BY <1>t, <4>2, <4>3, Types
    <3>2. CASE ~takes
      BY <1>t, <1>7, <3>2, Types DEF Joined
    <3>. QED  BY <3>1, <3>2
  <2>2. rp' \in [Remote -> RemoteRec]
    <3>1. \A r \in Remote : rp[r] \in RemoteRec /\ Using(rp[r], c) \in RemoteRec
      BY <1>t, Types, UsingType
    <3>. QED  BY <1>7, <3>1 DEF Joined
  <2>3. sub' \in [Subscriber -> SubRec]
    <3>. DEFINE f == [sub[c].feeds EXCEPT ![t.user] = IF takes THEN p ELSE @]
                s == [on |-> TRUE, broom |-> t.broom, feeds |-> f]
    <3>1. f \in [User -> Publisher \cup {None}]
      BY <1>t, <2>0, Types
    <3>2. sub' = (IF t.new \/ sub[c].on THEN [sub EXCEPT ![c] = s] ELSE sub)
      BY <1>7 DEF Joined
    <3>. HIDE DEF f
    <3>3. s \in SubRec
      BY <2>0, <3>1 DEF SubRec
    <3>. HIDE DEF s
    <3>. QED  BY <1>t, <3>2, <3>3, Types
  <2>4. Goes(c, NoTask)
    BY <1>7, FinishGoes DEF Joined
  <2>. QED  BY <1>t, <1>7, <2>1, <2>2, <2>3, <2>4, TaskMoved, Types DEF Joined
<1>. QED  BY <1>2, <1>3, <1>4, <1>5, <1>6, <1>7 DEF Unsubscribe, Updated

LEMMA RemoteTyped ==
    ASSUME Typed, NEW r \in Remote, TimePasses(r) \/ IdleCheck(r) PROVE Typed'
<1>t. TypeOK /\ Shapes /\ rp[r] \in RemoteRec
  BY Types DEF Typed
<1>1. ASSUME NEW i \in {"used", "idle", "over"}, rp' = [rp EXCEPT ![r].idle = i],
             UNCHANGED <<listed, pub, broom, sub, task, janus>>
      PROVE  Typed'
  <2>1. [rp[r] EXCEPT !.idle = i] \in RemoteRec
    BY <1>t DEF RemoteRec
  <2>. QED  BY <1>t, <1>1, <2>1, Types DEF Typed, TypeOK, Shapes
<1>2. CASE TimePasses(r)
  BY <1>1, <1>2 DEF TimePasses
<1>3. CASE IdleCheck(r)
  <2>1. CheckedIdle(rp[r]) \in {"used", "idle", "over"}
    BY <1>t DEF CheckedIdle, RemoteRec
  <2>2. CASE DestroyRemote(r, Removals({r}))
    <3>1. pub' \in [Publisher -> PubRec] /\ rp' \in [Remote -> RemoteRec] /\ janus' \in JanusRec
      BY <1>t, <2>2, DestroyRemoteTyped
    <3>. QED  BY <1>t, <1>3, <3>1, Types DEF IdleCheck, Typed, TypeOK, Shapes, JanusRec
  <2>. QED  BY <1>1, <1>3, <2>1, <2>2 DEF IdleCheck
<1>. QED  BY <1>2, <1>3

LEMMA BackendRoomTyped ==
    ASSUME Typed, NEW b \in BackendRoom, NewBackendRoom(b) \/ BackendRoomLost(b) PROVE Typed'
<1>t. TypeOK /\ Shapes
  BY DEF Typed
<1>1. broom' \in [BackendRoom -> {"none", "valid", "dead"}]
  BY <1>t DEF TypeOK, NewBackendRoom, BackendRoomLost
<1>2. janus' \in JanusRec
  BY <1>t, Types DEF NewBackendRoom, BackendRoomLost, JanusRec
<1>. QED  BY <1>t, <1>1, <1>2, Types DEF NewBackendRoom, BackendRoomLost, Typed, TypeOK,
                                        Shapes, JanusRec

LEMMA PlacedStep == Typed /\ Placed /\ [Next]_vars => Placed'
<1>. SUFFICES ASSUME Typed, Placed, [Next]_vars PROVE Placed'
  OBVIOUS
<1>t. TypeOK
  BY DEF Typed
<1>1. ASSUME NEW p \in Publisher, FeedLost(p) PROVE Placed'
  BY <1>t, <1>1, Types DEF FeedLost, Placed, SubRec
<1>2. ASSUME NEW c \in Subscriber, Joined(c) PROVE Placed'
  <2>1. task[c].broom \in BackendRoom \cup {Home}
    BY <1>2 DEF Joined, Answered, At, Typed, Shapes, TaskShape
  <2>2. /\ \A d \in Subscriber : d # c => sub'[d] = sub[d]
        /\ sub'[c] = sub[c] \/ sub'[c].broom = task[c].broom
    BY <1>t, <1>2, Types DEF Joined, SubRec
  <2>. QED  BY <2>1, <2>2 DEF Placed
<1>3. ASSUME NEW c \in Subscriber,
             SubHangup(c) \/ SubLeaves(c) \/ \E u \in User : FeedDropped(c, u)
      PROVE  Placed'
  <2>1. sub[c] \in SubRec
    BY <1>t, Types
  <2>2. CASE sub' = [sub EXCEPT ![c].feeds = [u \in User |-> None]]
    BY <1>t, <2>1, <2>2, Types DEF Placed, SubRec
  <2>3. CASE sub' = [sub EXCEPT ![c] = NoSub]
    BY <1>t, <2>3, Types DEF Placed, NoSub
  <2>4. ASSUME NEW u, sub' = [sub EXCEPT ![c].feeds[u] = None] PROVE Placed'
    BY <1>t, <2>1, <2>4, Types DEF Placed, SubRec
  <2>. QED  BY <1>3, <2>2, <2>3, <2>4 DEF SubHangup, SubLeaves, FeedDropped
<1>4. ASSUME UNCHANGED sub PROVE Placed'
  BY <1>4 DEF Placed
<1>5. CASE UNCHANGED vars
  BY <1>4, <1>5 DEF vars
<1>6. ASSUME NEW p \in Publisher,
             \/ PubUp(p) \/ PubHangup(p) \/ PubLeaves(p) \/ \E u \in User : PubJoins(p, u)
      PROVE  Placed'
  BY <1>1, <1>4, <1>6 DEF PubUp, PubHangup, PubLeaves, PubJoins
<1>7. ASSUME NEW c \in Subscriber, Resume(c) \/ LockTimeout(c) PROVE Placed'
  BY <1>2, <1>4, <1>7 DEF Resume, LockTimeout, LockGot, Added, AddAgain, AddFails, Forwarded,
                          ForwardFails, Ask, JoinFails
<1>8. ASSUME NEW c \in Subscriber, NEW u \in User, NEW b \in BackendRoom \cup {Home},
             Subscribe(c, u) \/ Unsubscribe(c, u) \/ Updated(c, u) \/ Join(c, u, b)
      PROVE  Placed'
  BY <1>3, <1>4, <1>8 DEF Subscribe, Unsubscribe, Updated, Join
<1>9. ASSUME NEW b \in BackendRoom, NewBackendRoom(b) \/ BackendRoomLost(b) PROVE Placed'
  BY <1>4, <1>9 DEF NewBackendRoom, BackendRoomLost
<1>10. ASSUME NEW r \in Remote, TimePasses(r) \/ IdleCheck(r) PROVE Placed'
  BY <1>4, <1>10 DEF TimePasses, IdleCheck
<1>. QED  BY <1>3, <1>5, <1>6, <1>7, <1>8, <1>9, <1>10 DEF Next

LEMMA TypedStep == Typed /\ Placed /\ [Next]_vars => Typed'
<1>1. UNCHANGED vars => (Typed => Typed')
  BY DEF vars, Typed, TypeOK, Shapes
<1>. QED  BY <1>1, PublisherTyped, BackendRoomTyped, AddTyped, WaitTyped, SubscriberTyped,
             RemoteTyped
          DEF Next, Resume

-----------------------------------------------------------------------------
(* The tree. A remote publisher is known by its origin, by the greenlet that *)
(* starts it or by both, which agree as follows.                             *)
Begins(c) == task[c].pc \in {"add", "remove"}
Builds(c) == task[c].pc \in {"add", "remove", "forward"}

ListedOK(u) == listed[u] # None => ~pub[listed[u]].gone /\ pub[listed[u]].user = u

PubOK(p) ==
    /\ pub[p].gone => ~pub[p].up /\ pub[p].remote = None
    /\ ~pub[p].gone => pub[p].user \in User /\ listed[pub[p].user] = p
    /\ pub[p].children # {} => pub[p].up
    /\ \A r \in pub[p].children : Running(r) /\ rp[r].pub = p
    /\ pub[p].remote # None => Live(pub[p].remote) /\ rp[pub[p].remote].pub = p
    /\ p \in janus.forward => pub[p].children # {}

RemoteOK(r) ==
    Live(r) => /\ rp[r].pub \in Publisher
               /\ Running(r) => /\ ~pub[rp[r].pub].gone /\ pub[rp[r].pub].up /\ rp[r].parent
                                /\ pub[rp[r].pub].remote = r /\ r \in pub[rp[r].pub].children
               /\ ~Running(r) => \E c \in Subscriber : Begins(c) /\ task[c].rp = r

TaskOK(c) ==
    /\ ~At(c, "idle") => pub[task[c].pub].user = task[c].user
    /\ Begins(c) => /\ Live(task[c].rp) /\ ~Running(task[c].rp)
                    /\ rp[task[c].rp].pub = task[c].pub
                    /\ pub[task[c].pub].gone \/ pub[task[c].pub].remote = task[c].rp
    /\ At(c, "forward") /\ Live(task[c].rp) => Running(task[c].rp)
    /\ \A d \in Subscriber : Builds(c) /\ Builds(d) /\ d # c => task[d].rp # task[c].rp

Tree == /\ \A u \in User : ListedOK(u)
        /\ \A p \in Publisher : PubOK(p)
        /\ \A r \in Remote : RemoteOK(r)
        /\ \A c \in Subscriber : TaskOK(c)

-----------------------------------------------------------------------------
LEMMA TreeInit == Init => Tree
BY DEF Init, Tree, ListedOK, PubOK, RemoteOK, TaskOK, Live, Begins, Builds, At,
       NoPub, NoRemote, NoTask

\* A step that changes nothing of the tree, and what a greenlet may do then.
SameTree ==
    /\ listed' = listed
    /\ janus'.forward = janus.forward
    /\ \A p \in Publisher : /\ pub'[p].user = pub[p].user /\ pub'[p].up = pub[p].up
                            /\ pub'[p].gone = pub[p].gone /\ pub'[p].remote = pub[p].remote
                            /\ pub'[p].children = pub[p].children
    /\ \A r \in Remote : /\ rp'[r].pub = rp[r].pub /\ rp'[r].broom = rp[r].broom
                         /\ rp'[r].parent = rp[r].parent
                         /\ rp'[r].destroyed = rp[r].destroyed

TaskKept(c) ==
    /\ task'[c].pc \in {"add", "remove"} <=> Begins(c)
    /\ task'[c].pc \in {"add", "remove"}
         => task'[c].rp = task[c].rp /\ task'[c].pub = task[c].pub
    /\ task'[c].pc = "forward" => At(c, "forward") /\ task'[c].rp = task[c].rp
    /\ task'[c].pc # "idle" => /\ task'[c].pub \in Publisher
                               /\ pub[task'[c].pub].user = task'[c].user

LEMMA TreeKept ==
    ASSUME Typed, Tree, SameTree, \A c \in Subscriber : TaskKept(c) PROVE Tree'
<1>1. ASSUME NEW u \in User PROVE ListedOK(u)'
  <2>1. ListedOK(u) /\ listed[u] \in Publisher \cup {None}
    BY Types DEF Tree, Typed
  <2>. QED  BY <2>1 DEF SameTree, ListedOK
<1>2. ASSUME NEW p \in Publisher PROVE PubOK(p)'
  <2>1. PubOK(p) /\ pub[p].children \subseteq Remote /\ pub[p].remote \in Remote \cup {None}
    BY Types DEF Tree, Typed
  <2>. QED  BY <2>1 DEF SameTree, PubOK, Live, Running
<1>3. ASSUME NEW r \in Remote PROVE RemoteOK(r)'
  <2>1. RemoteOK(r)
    BY DEF Tree
  <2>2. ASSUME NEW c \in Subscriber, Begins(c), task[c].rp = r
        PROVE  \E d \in Subscriber : Begins(d)' /\ task'[d].rp = r
    <3>1. Begins(c)' /\ task'[c].rp = r
      BY <2>2 DEF TaskKept, Begins
    <3>. QED  BY <3>1
  <2>. QED  BY <2>1, <2>2 DEF SameTree, RemoteOK, Live, Running
<1>4. ASSUME NEW c \in Subscriber PROVE TaskOK(c)'
  <2>1. TaskOK(c) /\ TaskKept(c) /\ TaskShape(task[c]) /\ \A d \in Subscriber : TaskKept(d)
    BY DEF Tree, Typed, Shapes
  <2>2. ~At(c, "idle")' => pub'[task'[c].pub].user = task'[c].user
    BY <2>1 DEF TaskKept, SameTree, At
  <2>3. ASSUME Begins(c)'
        PROVE  /\ Live(task[c].rp)' /\ ~Running(task[c].rp)'
               /\ rp'[task'[c].rp].pub = task'[c].pub
               /\ pub'[task'[c].pub].gone \/ pub'[task'[c].pub].remote = task'[c].rp
    <3>1. /\ Begins(c) /\ task'[c].rp = task[c].rp /\ task'[c].pub = task[c].pub
          /\ task[c].rp \in Remote /\ task[c].pub \in Publisher
      BY <2>1, <2>3 DEF TaskKept, Begins, TaskShape
    <3>. QED  BY <2>1, <3>1 DEF TaskOK, SameTree, Live, Running
  <2>4. At(c, "forward")' /\ Live(task[c].rp)' => Running(task[c].rp)'
    <3>1. At(c, "forward")' => /\ At(c, "forward") /\ task'[c].rp = task[c].rp
                               /\ task[c].rp \in Remote
      BY <2>1 DEF TaskKept, TaskShape, At
    <3>. QED  BY <2>1, <3>1 DEF TaskOK, SameTree, Live, Running
  <2>5. ASSUME NEW d \in Subscriber, Builds(c)', Builds(d)', d # c PROVE task'[d].rp # task'[c].rp
    <3>1. /\ Builds(c) /\ task'[c].rp = task[c].rp
          /\ Builds(d) /\ task'[d].rp = task[d].rp
      BY <2>1, <2>5 DEF TaskKept, Builds, Begins, At
    <3>. QED  BY <2>1, <2>5, <3>1 DEF TaskOK
  <2>. QED  BY <2>2, <2>3, <2>4, <2>5 DEF TaskOK
<1>. QED  BY <1>1, <1>2, <1>3, <1>4 DEF Tree

\* A greenlet that stays, or goes on without having anything to build.
LEMMA Stays ==
    ASSUME Tree, NEW c \in Subscriber, Typed, task'[c] = task[c] PROVE TaskKept(c)
BY DEF TaskKept, Tree, TaskOK, At, Begins, Typed, Shapes, TaskShape

LEMMA AllStay == ASSUME Typed, Tree, task' = task PROVE \A c \in Subscriber : TaskKept(c)
BY Stays

LEMMA OneGoes ==
    ASSUME Typed, Tree, NEW c \in Subscriber, NEW t, task' = [task EXCEPT ![c] = t],
           task'[c] = t => TaskKept(c)
    PROVE  \A d \in Subscriber : TaskKept(d)
BY Stays, Types DEF Typed

-----------------------------------------------------------------------------
LEMMA EffectsForward ==
    ASSUME NEW r, NEW s, NEW e, NEW x, NEW y \in Effects(r, s, e, x), e.forward = x.forward
    PROVE  y.forward = x.forward
BY EffectsOne

\* What counting a subscriber leaves alone.
SameRemote(x, y) == /\ y.pub = x.pub /\ y.broom = x.broom /\ y.parent = x.parent
                    /\ y.destroyed = x.destroyed

SamePub(x, y) == /\ y.user = x.user /\ y.up = x.up /\ y.gone = x.gone
                 /\ y.remote = x.remote /\ y.children = x.children

LEMMA UsingSame ==
    ASSUME NEW x \in RemoteRec, NEW c
    PROVE  SameRemote(x, Using(x, c)) /\ SameRemote(x, Unused(x, c))
BY DEF Using, Unused, SameRemote, RemoteRec

LEMMA SameTreeFields ==
    ASSUME UNCHANGED listed, janus'.forward = janus.forward,
           \A p \in Publisher : SamePub(pub[p], pub'[p]),
           \A r \in Remote : SameRemote(rp[r], rp'[r])
    PROVE  SameTree
BY DEF SameTree, SamePub, SameRemote

LEMMA FreesTask ==
    ASSUME Typed, Tree, NEW c \in Subscriber, ~Begins(c), Finish(c)
    PROVE  \A d \in Subscriber : TaskKept(d)
<1>1. task'[c] = NoTask => TaskKept(c)
  BY DEF TaskKept, NoTask
<1>. QED  BY <1>1, OneGoes DEF Finish

LEMMA GoesOnTask ==
    ASSUME Typed, Tree, NEW c \in Subscriber, ~At(c, "idle"), ~Begins(c), 
           NEW pc \in {"ready", "join"},
           \E r, resp : task' = [task EXCEPT ![c] = Onto(task[c], pc, r, resp)]
    PROVE  \A d \in Subscriber : TaskKept(d)
<1>1. PICK r, resp : task' = [task EXCEPT ![c] = Onto(task[c], pc, r, resp)]
  OBVIOUS
<1>2. /\ task[c] \in TaskRec /\ task[c].pub \in Publisher /\ pub[task[c].pub].user = task[c].user
  BY Types DEF Typed, Shapes, TaskShape, Tree, TaskOK, At
<1>3. /\ Onto(task[c], pc, r, resp).pc = pc /\ Onto(task[c], pc, r, resp).pub = task[c].pub
      /\ Onto(task[c], pc, r, resp).user = task[c].user
  BY <1>2 DEF Onto, TaskRec
<1>4. task'[c] = Onto(task[c], pc, r, resp) => TaskKept(c)
  BY <1>2, <1>3 DEF TaskKept, Begins
<1>. QED  BY <1>1, <1>4, OneGoes

LEMMA WaitTree ==
    ASSUME Typed, Tree, NEW c \in Subscriber,
           \/ LockGot(c) \/ LockTimeout(c) \/ Forwarded(c) \/ Ask(c) \/ JoinFails(c)
    PROVE  Tree'
<1>c. task[c] \in TaskRec
  BY Types DEF Typed
<1>1. SameTree
  <2>1. CASE Ask(c)
    <3>1. UNCHANGED <<listed, pub, rp>>
      BY <2>1 DEF Ask
    <3>. PICK e : e = [janus EXCEPT !.fed = janus.fed \cup {<<c, task[c].user>>}]
      OBVIOUS
    <3>2. e.forward = janus.forward
      BY Types DEF Typed, JanusRec
    <3>3. janus' = janus \/ \E r : janus' \in Effects(r, "ok", e, janus)
      BY <2>1 DEF Ask
    <3>4. janus'.forward = janus.forward
      <4>1. ASSUME NEW r, janus' \in Effects(r, "ok", e, janus) PROVE janus'.forward = janus.forward
        <5>1. janus' = e \/ janus' = janus
          BY <4>1, EffectsOne
        <5>. QED  BY <3>2, <5>1
      <4>. QED  BY <3>3, <4>1
    <3>. QED  BY <3>1, <3>4 DEF SameTree
  <2>2. CASE ~Ask(c)
    <3>1. janus'.forward = janus.forward
      BY <2>2, Types DEF LockGot, LockTimeout, Forwarded, JoinFails, Unfed, Typed, JanusRec
    <3>. QED  BY <2>2, <3>1 DEF LockGot, LockTimeout, Forwarded, JoinFails, SameTree
  <2>. QED  BY <2>1, <2>2
<1>2. ~At(c, "idle") /\ ~Begins(c)
  BY DEF LockGot, LockTimeout, Forwarded, Ask, JoinFails, Answered, At, Begins
<1>3. \/ Finish(c)
      \/ \E pc \in {"ready", "join"} : \E r, resp :
            task' = [task EXCEPT ![c] = Onto(task[c], pc, r, resp)]
  <2>1. CASE LockTimeout(c) \/ JoinFails(c)
    BY <2>1 DEF LockTimeout, JoinFails
  <2>2. CASE LockGot(c)
    <3>1. CASE task' = [task EXCEPT ![c].pc = "ready", ![c].rp = None]
      <4>1. [task[c] EXCEPT !.pc = "ready", !.rp = None] 
          = Onto(task[c], "ready", None, task[c].resp)
        BY <1>c DEF Onto, TaskRec
      <4>2. task' = [task EXCEPT ![c] = Onto(task[c], "ready", None, task[c].resp)]
        BY <3>1, <4>1
      <4>. QED  BY <4>2
    <3>. QED  BY <2>2, <3>1 DEF LockGot
  <2>3. CASE Forwarded(c)
    <3>1. task' = [task EXCEPT ![c] = Onto(task[c], "ready", None, "none")]
      BY <2>3 DEF Forwarded, Onto
    <3>. QED  BY <3>1
  <2>4. CASE Ask(c)
    <3>1. ASSUME NEW r, task' = [task EXCEPT ![c].pc = "join", ![c].resp = r]
          PROVE  \E pc \in {"ready", "join"} : \E x, resp :
                   task' = [task EXCEPT ![c] = Onto(task[c], pc, x, resp)]
      <4>1. [task[c] EXCEPT !.pc = "join", !.resp = r] = Onto(task[c], "join", task[c].rp, r)
        BY <1>c DEF Onto, TaskRec
      <4>2. task' = [task EXCEPT ![c] = Onto(task[c], "join", task[c].rp, r)]
        BY <3>1, <4>1
      <4>. QED  BY <4>2
    <3>. QED  BY <2>4, <3>1 DEF Ask
  <2>. QED  BY <2>1, <2>2, <2>3, <2>4
<1>4. \A d \in Subscriber : TaskKept(d)
  BY <1>2, <1>3, FreesTask, GoesOnTask
<1>. QED  BY <1>1, <1>4, TreeKept

LEMMA AddAgainTree ==
    ASSUME Typed, Tree, NEW c \in Subscriber, AddAgain(c) PROVE Tree'
<1>c. /\ task[c] \in TaskRec /\ task[c].pub \in Publisher /\ pub[task[c].pub].user = task[c].user
      /\ Begins(c)
  BY Types DEF AddAgain, Answered, Typed, Shapes, TaskShape, Tree, TaskOK, At, Begins
<1>1. SameTree
  <2>1. UNCHANGED <<listed, pub, rp>>
    BY DEF AddAgain
  <2>2. janus'.forward = janus.forward
    <3>1. Without({task[c].user}).forward = janus.forward
      BY DEF Without
    <3>2. [janus EXCEPT !.remote = @ \cup {task[c].user}].forward = janus.forward
      OBVIOUS
    <3>3. \/ \E r : janus' \in Effects(r, "ok", Without({task[c].user}), janus)
          \/ \E r : janus' \in Effects(r, "ok", [janus EXCEPT !.remote = @ \cup {task[c].user}],
                                       janus)
      BY DEF AddAgain, SendsAdd
    <3>4. ASSUME NEW r, NEW e, e.forward = janus.forward, janus' \in Effects(r, "ok", e, janus)
          PROVE  janus'.forward = janus.forward
      BY <3>4, EffectsOne
    <3>. QED  BY <3>1, <3>2, <3>3, <3>4
  <2>. QED  BY <2>1, <2>2 DEF SameTree
<1>2. \E pc \in {"add", "remove"} :
         \E r : task' = [task EXCEPT ![c] = Onto(task[c], pc, task[c].rp, r)]
  <2>1. ASSUME NEW pc \in {"add", "remove"}, NEW r
        PROVE  [task[c] EXCEPT !.pc = pc, !.resp = r] = Onto(task[c], pc, task[c].rp, r)
    BY <1>c DEF Onto, TaskRec
  <2>2. ASSUME NEW r, task' = [task EXCEPT ![c].pc = "remove", ![c].resp = r]
        PROVE  task' = [task EXCEPT ![c] = Onto(task[c], "remove", task[c].rp, r)]
    <3>1. [task[c] EXCEPT !.pc = "remove", !.resp = r] = Onto(task[c], "remove", task[c].rp, r)
      BY <2>1
    <3>. QED  BY <2>2, <3>1
  <2>3. ASSUME NEW r, task' = [task EXCEPT ![c] = [task[c] EXCEPT !.pc = "add", !.resp = r]]
        PROVE  task' = [task EXCEPT ![c] = Onto(task[c], "add", task[c].rp, r)]
    BY <2>1, <2>3
  <2>. QED  BY <2>2, <2>3 DEF AddAgain, SendsAdd
<1>3. PICK pc \in {"add", "remove"} :
         \E r : task' = [task EXCEPT ![c] = Onto(task[c], pc, task[c].rp, r)]
  BY <1>2
<1>r. PICK r : task' = [task EXCEPT ![c] = Onto(task[c], pc, task[c].rp, r)]
  BY <1>3
<1>4. LET t == Onto(task[c], pc, task[c].rp, r)
      IN t.pc = pc /\ t.rp = task[c].rp /\ t.pub = task[c].pub /\ t.user = task[c].user
  BY <1>c DEF Onto, TaskRec
<1>5. task'[c] = Onto(task[c], pc, task[c].rp, r) => TaskKept(c)
  BY <1>c, <1>4 DEF TaskKept
<1>6. \A d \in Subscriber : TaskKept(d)
  BY <1>r, <1>5, OneGoes
<1>. QED  BY <1>1, <1>6, TreeKept

LEMMA SubscriberTree ==
    ASSUME Typed, Tree, NEW c \in Subscriber,
           \/ Joined(c) \/ SubHangup(c) \/ SubLeaves(c)
           \/ \E u \in User : Unsubscribe(c, u) \/ Updated(c, u)
    PROVE  Tree'
<1>1. ASSUME NEW U, DropFeeds(c, U), UNCHANGED <<listed, broom, task>>, janus' = Unfed(c, U)
      PROVE  Tree'
  <2>1. \A p \in Publisher : pub'[p] = pub[p] \/ pub'[p] = [pub[p] EXCEPT !.subs = @ \ {c}]
    BY <1>1 DEF DropFeeds
  <2>2. \A r \in Remote : rp'[r] = rp[r] \/ rp'[r] = Unused(rp[r], c)
    BY <1>1 DEF DropFeeds
  <2>3. SameTree
    <3>1. ASSUME NEW p \in Publisher PROVE SamePub(pub[p], pub'[p])
      <4>1. pub[p] \in PubRec
        BY Types DEF Typed
      <4>. QED  BY <2>1, <4>1 DEF SamePub, PubRec
    <3>2. \A r \in Remote : SameRemote(rp[r], rp'[r])
      BY <2>2, UsingSame, Types DEF Typed, SameRemote
    <3>. QED  BY <1>1, <3>1, <3>2, SameTreeFields, Types DEF Unfed, Typed, JanusRec
  <2>4. \A d \in Subscriber : TaskKept(d)
    BY <1>1, AllStay
  <2>. QED  BY <2>3, <2>4, TreeKept
<1>2. CASE Joined(c)
  <2>1. \A p \in Publisher : pub'[p] = pub[p] \/ pub'[p] = [pub[p] EXCEPT !.subs = @ \cup {c}]
    BY <1>2, Types DEF Joined, Typed
  <2>2. \A r \in Remote : rp'[r] = rp[r] \/ rp'[r] = Using(rp[r], c)
    BY <1>2 DEF Joined
  <2>3. listed' = listed /\ janus' = janus /\ Finish(c) /\ ~Begins(c)
    BY <1>2 DEF Joined, Answered, At, Begins
  <2>4. SameTree
    <3>1. ASSUME NEW p \in Publisher PROVE SamePub(pub[p], pub'[p])
      <4>1. pub[p] \in PubRec
        BY Types DEF Typed
      <4>. QED  BY <2>1, <4>1 DEF SamePub, PubRec
    <3>2. \A r \in Remote : SameRemote(rp[r], rp'[r])
      BY <2>2, UsingSame, Types DEF Typed, SameRemote
    <3>. QED  BY <2>3, <3>1, <3>2, SameTreeFields
  <2>. QED  BY <2>3, <2>4, FreesTask, TreeKept
<1>. QED  BY <1>1, <1>2 DEF SubHangup, SubLeaves, Unsubscribe, Updated, FeedDropped

LEMMA IdleTree ==
    ASSUME Typed, Tree, NEW r \in Remote, NEW i, rp' = [rp EXCEPT ![r].idle = i],
           UNCHANGED <<listed, pub, task, janus>>
    PROVE  Tree'
<1>1. \A x \in Remote : rp'[x] = rp[x] \/ rp'[x] = [rp[x] EXCEPT !.idle = i]
  BY Types DEF Typed
<1>2. SameTree
  <2>1. ASSUME NEW x \in Remote PROVE SameRemote(rp[x], rp'[x])
    <3>1. rp[x] \in RemoteRec
      BY Types DEF Typed
    <3>. QED  BY <1>1, <3>1 DEF RemoteRec, SameRemote
  <2>. QED  BY <2>1, SameTreeFields DEF SamePub
<1>. QED  BY <1>2, AllStay, TreeKept

LEMMA BackendRoomTree ==
    ASSUME Typed, Tree, NEW b \in BackendRoom, NewBackendRoom(b) \/ BackendRoomLost(b) PROVE Tree'
<1>1. SameTree
  <2>1. janus'.forward = janus.forward
    BY Types DEF NewBackendRoom, BackendRoomLost, Typed, JanusRec
  <2>. QED  BY <2>1 DEF NewBackendRoom, BackendRoomLost, SameTree
<1>. QED  BY <1>1, AllStay, TreeKept DEF NewBackendRoom, BackendRoomLost

-----------------------------------------------------------------------------
\* A publisher object that is used again has nothing left.
LEMMA PubJoinsTree ==
    ASSUME Typed, Tree, NEW p \in Publisher, NEW u \in User, PubJoins(p, u) PROVE Tree'
<1>1. /\ pub'[p].user = u /\ ~pub'[p].gone /\ ~pub'[p].up /\ pub'[p].remote = None
      /\ pub'[p].children = {}
      /\ \A q \in Publisher : q # p => pub'[q] = pub[q]
      /\ listed'[u] = p /\ \A v \in User : v # u => listed'[v] = listed[v]
      /\ pub[p].gone /\ listed[u] = None
      /\ \A c \in Subscriber : task[c].pub # p
      /\ UNCHANGED <<rp, task, janus>>
  BY Types DEF PubJoins, FreePub, NoPub, Typed
<1>p. /\ \A q \in Publisher : PubOK(q) /\ pub[q].user \in User \cup {None}
      /\ \A r \in Remote : RemoteOK(r) /\ rp[r].pub \in Publisher \cup {None}
      /\ \A c \in Subscriber : TaskOK(c) /\ TaskShape(task[c])
      /\ \A v \in User : ListedOK(v) /\ listed[v] \in Publisher \cup {None}
  BY Types DEF Tree, Typed, Shapes
<1>2. ASSUME NEW r \in Remote, Live(r) PROVE rp[r].pub # p
  <2>1. CASE Running(r)
    BY <1>1, <1>p, <1>2, <2>1 DEF RemoteOK
  <2>2. CASE ~Running(r)
    <3>1. PICK c \in Subscriber : Begins(c) /\ task[c].rp = r
      BY <1>p, <1>2, <2>2 DEF RemoteOK
    <3>. QED  BY <1>1, <1>p, <3>1 DEF TaskOK
  <2>. QED  BY <2>1, <2>2
<1>3. ASSUME NEW v \in User PROVE ListedOK(v)'
  BY <1>1, <1>p DEF ListedOK
<1>4. ASSUME NEW q \in Publisher PROVE PubOK(q)'
  <2>1. CASE q = p
    BY <1>1, <1>p, <2>1, NoneApart DEF PubOK
  <2>2. CASE q # p
    <3>1. PubOK(q) /\ pub'[q] = pub[q] /\ UNCHANGED <<rp, janus>>
      BY <1>1, <1>p, <2>2
    <3>2. ~pub[q].gone => listed'[pub[q].user] = listed[pub[q].user]
      BY <1>1, <1>p, <3>1, NoneApart DEF PubOK
    <3>. QED  BY <3>1, <3>2 DEF PubOK, Live, Running
  <2>. QED  BY <2>1, <2>2
<1>5. ASSUME NEW r \in Remote PROVE RemoteOK(r)'
  BY <1>1, <1>2, <1>p DEF RemoteOK, Live, Running, Begins
<1>6. ASSUME NEW c \in Subscriber PROVE TaskOK(c)'
  BY <1>1, <1>p DEF TaskOK, Live, Running, Begins, Builds, At, TaskShape
<1>. QED  BY <1>3, <1>4, <1>5, <1>6 DEF Tree

LEMMA PubUpTree == ASSUME Typed, Tree, NEW p \in Publisher, PubUp(p) PROVE Tree'
<1>1. /\ pub'[p].user = pub[p].user /\ pub'[p].gone = pub[p].gone /\ pub'[p].up
      /\ pub'[p].remote = pub[p].remote /\ pub'[p].children = pub[p].children
      /\ \A q \in Publisher : q # p => pub'[q] = pub[q]
      /\ ~pub[p].gone /\ ~pub[p].up
      /\ UNCHANGED <<listed, rp, task, janus>>
  <2>1. pub[p] \in PubRec
    BY Types DEF Typed
  <2>. QED  BY <2>1, Types DEF PubUp, Typed, PubRec
<1>2. /\ \A u \in User : ListedOK(u) /\ listed[u] \in Publisher \cup {None}
      /\ \A q \in Publisher : PubOK(q)
      /\ \A r \in Remote : RemoteOK(r)
      /\ \A c \in Subscriber : TaskOK(c) /\ TaskShape(task[c])
  BY Types DEF Tree, Typed, Shapes
<1>3. ASSUME NEW u \in User PROVE ListedOK(u)'
  BY <1>1, <1>2 DEF ListedOK
<1>4. ASSUME NEW q \in Publisher PROVE PubOK(q)'
  BY <1>1, <1>2 DEF PubOK, Live, Running
<1>5. ASSUME NEW r \in Remote PROVE RemoteOK(r)'
  BY <1>1, <1>2 DEF RemoteOK, Live, Running, Begins
<1>6. ASSUME NEW c \in Subscriber PROVE TaskOK(c)'
  BY <1>1, <1>2 DEF TaskOK, Live, Running, Begins, Builds, At, TaskShape
<1>. QED  BY <1>3, <1>4, <1>5, <1>6 DEF Tree

\* The media of a publisher end, and with them its children.
LEMMA PubEndsTree ==
    ASSUME Typed, Tree, NEW p \in Publisher, PubHangup(p) \/ PubLeaves(p) PROVE Tree'
<1>. DEFINE R == pub[p].children
<1>1. /\ ~pub[p].gone
      /\ pub'[p].user = pub[p].user /\ ~pub'[p].up /\ pub'[p].children = {}
      /\ \A q \in Publisher : q # p => pub'[q] = pub[q]
      /\ task' = task /\ janus'.forward = janus.forward \ {p}
      /\ \A r \in Remote : IF r \in R THEN rp'[r].destroyed ELSE rp'[r] = rp[r]
  <2>1. pub[p] \in PubRec
    BY Types DEF Typed
  <2>2. janus'.forward = janus.forward \ {p}
    BY Types DEF PubHangup, PubLeaves, Without, Typed, JanusRec
  <2>3. \A r \in Remote : IF r \in R THEN rp'[r].destroyed ELSE rp'[r] = rp[r]
    BY DEF PubHangup, PubLeaves, DestroyAll, Destroyed, NoRemote, Children
  <2>4. CASE PubHangup(p)
    BY <2>1, <2>2, <2>3, <2>4, Types DEF PubHangup, Typed, PubRec
  <2>5. CASE PubLeaves(p)
    BY <2>1, <2>2, <2>3, <2>5, Types DEF PubLeaves, Typed, NoPub
  <2>. QED  BY <2>4, <2>5
<1>2. \/ /\ ~pub'[p].gone /\ listed' = listed
         /\ pub'[p].remote = (IF pub[p].remote \in R THEN None ELSE pub[p].remote)
      \/ /\ pub'[p].gone /\ pub'[p].remote = None
         /\ listed' = [listed EXCEPT ![pub[p].user] = None]
  <2>1. pub[p] \in PubRec
    BY Types DEF Typed
  <2>2. CASE PubHangup(p)
    BY <2>1, <2>2, Types DEF PubHangup, Typed, PubRec, Children
  <2>3. CASE PubLeaves(p)
    BY <2>3, Types DEF PubLeaves, Typed, NoPub
  <2>. QED  BY <2>2, <2>3
<1>p. /\ \A q \in Publisher : PubOK(q) /\ pub[q].children \subseteq Remote
                              /\ pub[q].remote \in Remote \cup {None}
      /\ \A r \in Remote : RemoteOK(r)
      /\ \A c \in Subscriber : TaskOK(c) /\ TaskShape(task[c])
      /\ \A v \in User : ListedOK(v) /\ listed[v] \in Publisher \cup {None}
  BY Types DEF Tree, Typed, Shapes
<1>3. \A r \in R : Running(r) /\ rp[r].pub = p /\ pub[p].remote = r
  BY <1>p DEF PubOK, RemoteOK, Running
<1>4. ASSUME NEW v \in User PROVE ListedOK(v)'
  BY <1>1, <1>2, <1>p, Types DEF ListedOK, PubOK, Typed
<1>5. ASSUME NEW q \in Publisher PROVE PubOK(q)'
  <2>1. CASE q = p
    <3>1. pub'[p].remote # None => pub'[p].remote = pub[p].remote /\ pub[p].remote \notin R
      BY <1>2
    <3>. QED  BY <1>1, <1>2, <1>p, <2>1, <3>1 DEF PubOK, Live
  <2>2. CASE q # p
    <3>1. \A r \in pub[q].children : r \in Remote /\ r \notin R
      BY <1>3, <1>p, <2>2 DEF PubOK
    <3>2. pub[q].remote # None => pub[q].remote \in Remote /\ pub[q].remote \notin R
      BY <1>3, <1>p, <2>2 DEF PubOK
    <3>3. ~pub[q].gone => pub[q].user # pub[p].user
      BY <1>1, <1>p, <2>2 DEF PubOK
    <3>4. ~pub[q].gone => listed'[pub[q].user] = listed[pub[q].user]
      BY <1>2, <1>p, <3>3, Types DEF Typed, PubOK
    <3>. QED  BY <1>1, <1>p, <2>2, <3>1, <3>2, <3>4 DEF PubOK, Live, Running
  <2>. QED  BY <2>1, <2>2
<1>6. ASSUME NEW r \in Remote PROVE RemoteOK(r)'
  <2>. SUFFICES ASSUME Live(r)' PROVE RemoteOK(r)'
    BY DEF RemoteOK
  <2>1. r \notin R /\ rp'[r] = rp[r] /\ Live(r)
    BY <1>1 DEF Live
  <2>2. Running(r) => rp[r].pub # p
    BY <1>p, <2>1 DEF RemoteOK
  <2>. QED  BY <1>1, <1>p, <2>1, <2>2 DEF RemoteOK, Running, Live, Begins
<1>7. ASSUME NEW c \in Subscriber PROVE TaskOK(c)'
  <2>1. ~At(c, "idle") => pub'[task[c].pub].user = task[c].user
    BY <1>1, <1>p DEF TaskOK, TaskShape, At
  <2>2. Begins(c) => /\ task[c].rp \in Remote /\ task[c].pub \in Publisher /\ task[c].rp \notin R
    BY <1>3, <1>p DEF TaskOK, TaskShape, Begins
  <2>3. Begins(c) => pub'[task[c].pub].gone \/ pub'[task[c].pub].remote = task[c].rp
    BY <1>1, <1>2, <1>p, <2>2 DEF TaskOK
  <2>4. At(c, "forward") => task[c].rp \in Remote
    BY <1>p DEF TaskShape, At
  <2>. QED  BY <1>1, <1>p, <2>1, <2>2, <2>3, <2>4 DEF TaskOK, Live, Running, Begins, Builds, At
<1>. QED  BY <1>4, <1>5, <1>6, <1>7 DEF Tree

LEMMA RemoteNew ==
    ASSUME Typed, Tree, NEW c \in Subscriber, NEW t \in TaskRec, At(c, "idle"),
           t.pub \in Publisher, ~pub[t.pub].gone, pub[t.pub].user = t.user,
           pub[t.pub].remote = None, NEW n \in Remote, FreeRemote(n),
           pub' = [pub EXCEPT ![t.pub].remote = n],
           rp' = [rp EXCEPT ![n] = [NoRemote EXCEPT !.pub = t.pub, !.destroyed = FALSE]],
           SendsAdd(c, [t EXCEPT !.rp = n]), UNCHANGED listed
    PROVE  Tree'
<1>. DEFINE p == t.pub
<1>1. /\ pub'[p].user = pub[p].user /\ pub'[p].gone = pub[p].gone /\ pub'[p].up = pub[p].up
      /\ pub'[p].remote = n /\ pub'[p].children = pub[p].children
      /\ \A q \in Publisher : q # p => pub'[q] = pub[q]
  <2>1. pub[p] \in PubRec
    BY Types DEF Typed
  <2>. QED  BY <2>1, Types DEF Typed, PubRec
<1>2. /\ rp'[n].pub = p /\ ~rp'[n].destroyed /\ rp'[n].broom = None
      /\ \A r \in Remote : r # n => rp'[r] = rp[r]
  BY Types DEF Typed, NoRemote
<1>3. /\ task'[c].pc = "add" /\ task'[c].rp = n /\ task'[c].pub = p /\ task'[c].user = t.user
      /\ \A d \in Subscriber : d # c => task'[d] = task[d]
  <2>1. PICK r : task' = [task EXCEPT ![c] = [[t EXCEPT !.rp = n] EXCEPT !.pc = "add", !.resp = r]]
    BY DEF SendsAdd
  <2>. QED  BY <2>1, Types DEF Typed, TaskRec
<1>4. janus'.forward = janus.forward
  <2>1. PICK r : janus' \in Effects(r, "ok",
                               [janus EXCEPT !.remote = @ \cup {[t EXCEPT !.rp = n].user}], janus)
    BY DEF SendsAdd
  <2>2. [janus EXCEPT !.remote = @ \cup {[t EXCEPT !.rp = n].user}].forward = janus.forward
    OBVIOUS
  <2>3. ASSUME NEW s, NEW e, e.forward = janus.forward, janus' \in Effects(s, "ok", e, janus)
        PROVE  janus'.forward = janus.forward
    BY <2>3, EffectsOne
  <2>. QED  BY <2>1, <2>2, <2>3
<1>p. /\ \A q \in Publisher : PubOK(q) /\ pub[q].children \subseteq Remote
                              /\ pub[q].remote \in Remote \cup {None}
      /\ \A r \in Remote : RemoteOK(r)
      /\ \A d \in Subscriber : TaskOK(d) /\ TaskShape(task[d])
      /\ \A v \in User : ListedOK(v) /\ listed[v] \in Publisher \cup {None}
  BY Types DEF Tree, Typed, Shapes
<1>f. ~Live(n) /\ \A d \in Subscriber : task[d].rp # n
  BY DEF FreeRemote, Live
<1>5. ASSUME NEW v \in User PROVE ListedOK(v)'
  BY <1>1, <1>p DEF ListedOK
<1>6. ASSUME NEW q \in Publisher PROVE PubOK(q)'
  <2>1. \A r \in pub[q].children : r \in Remote /\ r # n
    BY <1>f, <1>p DEF PubOK, Running
  <2>2. pub[q].remote # None => pub[q].remote \in Remote /\ pub[q].remote # n
    BY <1>f, <1>p DEF PubOK
  <2>3. CASE q = p
    BY <1>1, <1>2, <1>4, <1>p, <2>1, <2>3, NoneApart DEF PubOK, Live, Running
  <2>4. CASE q # p
    BY <1>1, <1>2, <1>4, <1>p, <2>1, <2>2, <2>4 DEF PubOK, Live, Running
  <2>. QED  BY <2>3, <2>4
<1>7. ASSUME NEW r \in Remote PROVE RemoteOK(r)'
  <2>1. CASE r = n
    <3>1. Begins(c)' /\ task'[c].rp = n
      BY <1>3 DEF Begins
    <3>. QED  BY <1>2, <2>1, <3>1 DEF RemoteOK, Running
  <2>2. CASE r # n
    <3>1. Live(r) => rp[r].pub \in Publisher /\ (Running(r) => rp[r].pub # p)
      BY <1>p, NoneApart DEF RemoteOK
    <3>2. ASSUME NEW d \in Subscriber, Begins(d), task[d].rp = r
          PROVE  Begins(d)' /\ task'[d].rp = r
      BY <1>3, <3>2 DEF Begins, At
    <3>. QED  BY <1>1, <1>2, <1>p, <2>2, <3>1, <3>2 DEF RemoteOK, Live, Running
  <2>. QED  BY <2>1, <2>2
<1>8. ASSUME NEW d \in Subscriber PROVE TaskOK(d)'
  <2>1. ASSUME NEW x \in Subscriber, NEW y \in Subscriber, Builds(x)', Builds(y)', x # y
        PROVE  task'[x].rp # task'[y].rp
    BY <1>3, <1>f, <1>p, <2>1 DEF TaskOK, Builds
  <2>2. CASE d = c
    BY <1>1, <1>2, <1>3, <2>1, <2>2 DEF TaskOK, At, Begins, Live, Running
  <2>3. CASE d # c
    <3>1. Builds(d) => task[d].rp \in Remote /\ task[d].rp # n
      BY <1>f, <1>p DEF TaskShape, Builds
    <3>2. ~At(d, "idle") => task[d].pub \in Publisher
      BY <1>p DEF TaskShape, At
    <3>3. Begins(d) => pub'[task[d].pub].gone \/ pub'[task[d].pub].remote = task[d].rp
      <4>1. Begins(d) => Builds(d) /\ ~At(d, "idle")
        BY DEF Begins, Builds, At
      <4>. QED  BY <1>1, <1>p, <3>1, <3>2, <4>1, NoneApart DEF TaskOK
    <3>4. ~At(d, "idle") => pub'[task[d].pub].user = task[d].user
      BY <1>1, <1>p, <3>2 DEF TaskOK
    <3>. QED  BY <1>2, <1>3, <1>p, <2>1, <2>3, <3>1, <3>3, <3>4
              DEF TaskOK, At, Begins, Builds, Live, Running
  <2>. QED  BY <2>2, <2>3
<1>. QED  BY <1>5, <1>6, <1>7, <1>8 DEF Tree

\* start() is done while its origin sends: a child more.
LEMMA AddedTree ==
    ASSUME Typed, Tree, NEW c \in Subscriber, At(c, "add"),
           ~pub[task[c].pub].gone, pub[task[c].pub].up,
           rp' = [rp EXCEPT ![task[c].rp].broom = task[c].broom, ![task[c].rp].parent = TRUE],
           pub' = [pub EXCEPT ![task[c].pub].children = @ \cup {task[c].rp}],
           NEW r,
           janus' \in Effects(r, "ok", [janus EXCEPT !.forward = @ \cup {task[c].pub}], janus),
           task' = [task EXCEPT ![c].pc = "forward", ![c].resp = r], UNCHANGED listed
    PROVE  Tree'
<1>0. /\ task[c].pub \in Publisher /\ task[c].rp \in Remote /\ task[c].broom \in BackendRoom
      /\ task[c] \in TaskRec
  BY Types DEF Typed, Shapes, TaskShape, At
<1>. PICK p \in Publisher, n \in Remote, b \in BackendRoom :
       p = task[c].pub /\ n = task[c].rp /\ b = task[c].broom
  BY <1>0
<1>p. /\ \A q \in Publisher : PubOK(q) /\ pub[q].children \subseteq Remote
                              /\ pub[q].remote \in Remote \cup {None}
      /\ \A x \in Remote : RemoteOK(x)
      /\ \A d \in Subscriber : TaskOK(d) /\ TaskShape(task[d])
      /\ \A v \in User : ListedOK(v) /\ listed[v] \in Publisher \cup {None}
  BY Types DEF Tree, Typed, Shapes
<1>c. /\ Live(n) /\ ~Running(n) /\ rp[n].pub = p /\ pub[p].remote = n
      /\ ~pub[p].gone /\ pub[p].up
  BY <1>p DEF TaskOK, Begins, At
<1>1. /\ pub'[p].user = pub[p].user /\ ~pub'[p].gone /\ pub'[p].up
      /\ pub'[p].remote = n /\ pub'[p].children = pub[p].children \cup {n}
      /\ \A q \in Publisher : q # p => pub'[q] = pub[q]
  <2>1. pub[p] \in PubRec
    BY Types DEF Typed
  <2>. QED  BY <1>c, <2>1, Types DEF Typed, PubRec
<1>2. /\ rp'[n].pub = p /\ rp'[n].destroyed = rp[n].destroyed /\ rp'[n].broom = b
      /\ rp'[n].parent
      /\ \A x \in Remote : x # n => rp'[x] = rp[x]
  <2>1. rp[n] \in RemoteRec
    BY Types DEF Typed
  <2>. QED  BY <1>c, <2>1, Types DEF Typed, RemoteRec
<1>3. /\ task'[c].pc = "forward" /\ task'[c].rp = n /\ task'[c].pub = p
      /\ task'[c].user = task[c].user
      /\ \A d \in Subscriber : d # c => task'[d] = task[d]
  BY <1>0, Types DEF Typed, TaskRec
<1>4. janus'.forward \subseteq janus.forward \cup {p}
  BY EffectsOne, Types DEF Typed, JanusRec
<1>n. b # None /\ Running(n)'
  BY <1>2, <1>c, NoneApart DEF Running, Live
<1>5. ASSUME NEW v \in User PROVE ListedOK(v)'
  BY <1>1, <1>c, <1>p DEF ListedOK
<1>6. ASSUME NEW q \in Publisher PROVE PubOK(q)'
  <2>0. PubOK(q) /\ pub[q].children \subseteq Remote /\ pub[q].remote \in Remote \cup {None}
    BY <1>p
  <2>1. \A x \in pub[q].children : x \in Remote /\ x # n
    BY <1>c, <2>0 DEF PubOK
  <2>2. pub[q].remote # None => /\ pub[q].remote \in Remote
                                /\ ~rp'[pub[q].remote].destroyed /\ rp'[pub[q].remote].pub = q
    <3>1. CASE pub[q].remote = n
      BY <1>2, <1>c, <2>0, <3>1 DEF PubOK, Live
    <3>2. CASE pub[q].remote # n
      BY <1>2, <2>0, <3>2 DEF PubOK, Live
    <3>. QED  BY <3>1, <3>2
  <2>3. \A x \in pub[q].children : Running(x)' /\ rp'[x].pub = q
    BY <1>2, <2>0, <2>1 DEF PubOK, Live, Running
  <2>4. CASE q = p
    <3>1. \A x \in pub'[p].children : Running(x)' /\ rp'[x].pub = p
      BY <1>1, <1>2, <1>n, <2>3, <2>4
    <3>2. ~rp'[n].destroyed /\ rp'[n].pub = p
      BY <1>2, <1>c DEF Live
    <3>3. pub[p].user \in User /\ listed'[pub[p].user] = p
      BY <1>c, <2>0, <2>4 DEF PubOK
    <3>4. pub'[p].children # {}
      BY <1>1
    <3>. QED  BY <1>1, <2>4, <3>1, <3>2, <3>3, <3>4 DEF PubOK, Live
  <2>5. CASE q # p
    BY <1>1, <1>4, <2>0, <2>2, <2>3, <2>5 DEF PubOK, Live
  <2>. QED  BY <2>4, <2>5
<1>7. ASSUME NEW x \in Remote PROVE RemoteOK(x)'
  <2>1. CASE x = n
    BY <1>1, <1>2, <1>n, <2>1 DEF RemoteOK
  <2>2. CASE x # n
    <3>2. ASSUME NEW d \in Subscriber, Begins(d), task[d].rp = x
          PROVE  Begins(d)' /\ task'[d].rp = x
      BY <1>3, <2>2, <3>2 DEF Begins
    <3>3. /\ rp'[x] = rp[x] /\ RemoteOK(x)
      BY <1>2, <1>p, <2>2
    <3>4. Live(x) => /\ pub'[rp[x].pub].gone = pub[rp[x].pub].gone
                     /\ pub'[rp[x].pub].up = pub[rp[x].pub].up
                     /\ pub'[rp[x].pub].remote = pub[rp[x].pub].remote
                     /\ pub[rp[x].pub].children \subseteq pub'[rp[x].pub].children
      BY <1>1, <1>c, <3>3 DEF RemoteOK
    <3>. QED  BY <3>2, <3>3, <3>4 DEF RemoteOK, Live, Running
  <2>. QED  BY <2>1, <2>2
<1>8. ASSUME NEW d \in Subscriber PROVE TaskOK(d)'
  <2>1. ASSUME NEW x \in Subscriber, NEW y \in Subscriber, Builds(x)', Builds(y)', x # y
        PROVE  task'[x].rp # task'[y].rp
    <3>1. \A z \in Subscriber : Builds(z)' => Builds(z) /\ task'[z].rp = task[z].rp
      BY <1>3 DEF Builds, At
    <3>2. Builds(x) /\ Builds(y) /\ TaskOK(x)
      BY <1>p, <2>1, <3>1
    <3>. QED  BY <2>1, <3>1, <3>2 DEF TaskOK
  <2>2. CASE d = c
    <3>1. pub[p].user = task[c].user
      BY <1>p DEF TaskOK, At
    <3>2. Running(task[c].rp)'
      BY <1>3, <1>n DEF Running, Live
    <3>3. ~Begins(c)' /\ pub'[task'[c].pub].user = task'[c].user
      BY <1>1, <1>3, <3>1 DEF Begins
    <3>4. \A y \in Subscriber : Builds(c)' /\ Builds(y)' /\ y # c => task'[y].rp # task'[c].rp
      BY <2>1
    <3>. QED  BY <2>2, <3>2, <3>3, <3>4 DEF TaskOK
  <2>3. CASE d # c
    <3>1. task'[d] = task[d] /\ TaskOK(d)
      BY <1>3, <1>p, <2>3
    <3>2. Builds(d) => task[d].rp \in Remote /\ task[d].rp # n
      BY <1>p, <2>3 DEF TaskOK, TaskShape, Builds, At
    <3>3. ~At(d, "idle") => pub'[task[d].pub].user = task[d].user
      BY <1>1, <1>p, <3>1 DEF TaskOK, TaskShape, At
    <3>4. Begins(d) => pub'[task[d].pub].gone \/ pub'[task[d].pub].remote = task[d].rp
      BY <1>1, <1>c, <1>p, <3>1 DEF TaskOK, TaskShape, Begins
    <3>5. Begins(d) => Builds(d)
      BY DEF Begins, Builds
    <3>6. At(d, "forward") => Builds(d)
      BY DEF At, Builds
    <3>7. Builds(d) => rp'[task[d].rp] = rp[task[d].rp]
      BY <1>2, <3>2
    <3>8. Begins(d)' => /\ Live(task[d].rp)' /\ ~Running(task[d].rp)'
                        /\ rp'[task'[d].rp].pub = task'[d].pub
      BY <3>1, <3>5, <3>7 DEF TaskOK, Begins, Live, Running
    <3>9. At(d, "forward")' /\ Live(task[d].rp)' => Running(task[d].rp)'
      BY <3>1, <3>6, <3>7 DEF TaskOK, At, Live, Running
    <3>. QED  BY <2>1, <3>1, <3>3, <3>4, <3>8, <3>9 DEF TaskOK, At, Begins
  <2>. QED  BY <2>2, <2>3
<1>. QED  BY <1>5, <1>6, <1>7, <1>8 DEF Tree

\* A remote publisher is destroyed by who starts it, by who has started it or
\* by its idle check.
LEMMA DestroyRemoteTree ==
    ASSUME Typed, Tree, NEW n \in Remote, NEW U, Live(n), DestroyRemote(n, U), UNCHANGED listed,
           \/ Running(n) /\ task' = task
           \/ \E c \in Subscriber : Builds(c) /\ task[c].rp = n /\ Finish(c)
    PROVE  Tree'
<1>p. /\ \A q \in Publisher : PubOK(q) /\ pub[q].children \subseteq Remote
                              /\ pub[q].remote \in Remote \cup {None}
      /\ \A x \in Remote : RemoteOK(x)
      /\ \A d \in Subscriber : TaskOK(d) /\ TaskShape(task[d])
      /\ \A v \in User : ListedOK(v) /\ listed[v] \in Publisher \cup {None}
  BY Types DEF Tree, Typed, Shapes
<1>. PICK p \in Publisher : p = rp[n].pub
  BY <1>p DEF RemoteOK
<1>c. \/ Running(n) /\ rp[n].parent /\ ~pub[p].gone /\ pub[p].up /\ n \in pub[p].children
      \/ ~Running(n) /\ n \notin pub[p].children
  BY <1>p DEF RemoteOK, PubOK
<1>1. /\ pub'[p].user = pub[p].user /\ pub'[p].gone = pub[p].gone /\ pub'[p].up = pub[p].up
      /\ pub'[p].remote = (IF pub[p].remote = n THEN None ELSE pub[p].remote)
      /\ pub'[p].children = pub[p].children \ {n}
      /\ \A q \in Publisher : q # p => pub'[q] = pub[q]
  <2>1. pub[p] \in PubRec
    BY Types DEF Typed
  <2>. DEFINE child == rp[n].parent /\ ~pub[p].gone /\ pub[p].up /\ n \in pub[p].children
  <2>2. pub' = [pub EXCEPT ![p].children = IF child THEN @ \ {n} ELSE @,
                           ![p].remote = IF @ = n THEN None ELSE @]
    BY DEF DestroyRemote
  <2>3. n \in pub[p].children => child
    BY <1>c
  <2>. HIDE DEF child
  <2>. QED  BY <2>1, <2>2, <2>3, Types DEF Typed, PubRec
<1>2. rp'[n].destroyed /\ \A x \in Remote : x # n => rp'[x] = rp[x]
  BY Types DEF Typed, DestroyRemote, Destroyed, NoRemote
<1>4. /\ janus'.forward \subseteq janus.forward
      /\ n \in pub[p].children => p \notin janus'.forward
  <2>1. Without(U).forward = janus.forward /\ Without(U) \in JanusRec
    BY WithoutType, Types DEF Without, Typed, JanusRec
  <2>. QED  BY <1>c, <2>1 DEF DestroyRemote, Unforwarded, JanusRec
<1>3. /\ \A d \in Subscriber : task'[d] = task[d] \/ task'[d].pc = "idle"
      /\ \A d \in Subscriber : Begins(d) /\ task[d].rp # n => task'[d] = task[d]
      /\ \A d \in Subscriber : Begins(d)' => task[d].rp # n
  <2>1. CASE Running(n) /\ task' = task
    BY <1>p, <2>1 DEF TaskOK, Begins
  <2>2. ASSUME NEW c \in Subscriber, Builds(c), task[c].rp = n, Finish(c)
        PROVE  /\ \A d \in Subscriber : task'[d] = task[d] \/ task'[d].pc = "idle"
               /\ \A d \in Subscriber : Begins(d) /\ task[d].rp # n => task'[d] = task[d]
               /\ \A d \in Subscriber : Begins(d)' => task[d].rp # n
    <3>1. task'[c].pc = "idle" /\ \A d \in Subscriber : d # c => task'[d] = task[d]
      BY <2>2, Types DEF Typed, Finish, NoTask
    <3>. QED  BY <1>p, <2>2, <3>1 DEF TaskOK, Begins, Builds
  <2>. QED  BY <2>1, <2>2
<1>5. ASSUME NEW v \in User PROVE ListedOK(v)'
  BY <1>1, <1>p DEF ListedOK
<1>6. ASSUME NEW q \in Publisher PROVE PubOK(q)'
  <2>1. q # p => n \notin pub[q].children /\ pub[q].remote # n
    BY <1>p, NoneApart DEF PubOK
  <2>2. \A x \in pub'[q].children : x \in pub[q].children /\ x \in Remote /\ x # n
    BY <1>1, <1>p, <2>1
  <2>3. \A x \in pub'[q].children : Running(x)' /\ rp'[x].pub = q
    BY <1>2, <1>p, <2>2 DEF PubOK, Running, Live
  <2>4. pub'[q].remote # None => /\ pub'[q].remote = pub[q].remote /\ pub[q].remote \in Remote
                                 /\ pub[q].remote # n
    BY <1>1, <1>p, <2>1
  <2>5. pub'[q].remote # None => Live(pub[q].remote)' /\ rp'[pub[q].remote].pub = q
    BY <1>2, <1>p, <2>4 DEF PubOK, Live
  <2>6. q \in janus'.forward => pub'[q].children # {}
    BY <1>1, <1>4, <1>p, <2>1 DEF PubOK
  <2>7. /\ pub'[q].gone = pub[q].gone /\ pub'[q].up = pub[q].up /\ pub'[q].user = pub[q].user
        /\ pub[q].remote = None => pub'[q].remote = None
    BY <1>1
  <2>. QED  BY <1>p, <2>2, <2>3, <2>4, <2>5, <2>6, <2>7 DEF PubOK
<1>7. ASSUME NEW x \in Remote PROVE RemoteOK(x)'
  <2>1. CASE x = n
    BY <1>2, <2>1 DEF RemoteOK, Live
  <2>2. CASE x # n
    <3>1. ASSUME NEW d \in Subscriber, Begins(d), task[d].rp = x
          PROVE  Begins(d)' /\ task'[d].rp = x
      BY <1>3, <2>2, <3>1 DEF Begins
    <3>2. rp'[x] = rp[x] /\ RemoteOK(x)
      BY <1>2, <1>p, <2>2
    <3>3. Running(x) => /\ pub'[rp[x].pub].remote = pub[rp[x].pub].remote
                        /\ pub'[rp[x].pub].gone = pub[rp[x].pub].gone
                        /\ pub'[rp[x].pub].up = pub[rp[x].pub].up
                        /\ x \in pub'[rp[x].pub].children
      BY <1>1, <2>2, <3>2 DEF RemoteOK, Running
    <3>. QED  BY <3>1, <3>2, <3>3 DEF RemoteOK, Live, Running
  <2>. QED  BY <2>1, <2>2
<1>8. ASSUME NEW d \in Subscriber PROVE TaskOK(d)'
  <2>1. CASE task'[d].pc = "idle"
    BY <2>1 DEF TaskOK, At, Begins, Builds
  <2>2. CASE task'[d] = task[d]
    <3>1. \A x \in Subscriber : Builds(x)' => Builds(x) /\ task'[x] = task[x]
      BY <1>3 DEF Builds
    <3>2. ~At(d, "idle") => task[d].pub \in Publisher /\ pub'[task[d].pub].user = task[d].user
      BY <1>1, <1>p DEF TaskOK, TaskShape, At
    <3>3. Begins(d) => /\ task[d].rp \in Remote /\ task[d].rp # n
                       /\ task[d].pub \in Publisher
      BY <1>3, <1>p, <2>2 DEF TaskShape, Begins
    <3>4. Begins(d) => pub'[task[d].pub].gone \/ pub'[task[d].pub].remote = task[d].rp
      BY <1>1, <1>p, <3>3 DEF TaskOK
    <3>5. At(d, "forward") => task[d].rp \in Remote
      BY <1>p DEF TaskShape, At
    <3>. QED  BY <1>2, <1>p, <2>2, <3>1, <3>2, <3>3, <3>4, <3>5
              DEF TaskOK, At, Begins, Live, Running
  <2>. QED  BY <1>3, <2>1, <2>2
<1>. QED  BY <1>5, <1>6, <1>7, <1>8 DEF Tree

-----------------------------------------------------------------------------
\* The greenlet goes on as x for the publisher of t.
GoesAs(c, t, x) == /\ x.pc \in {"ready", "lock"} /\ x.pub = t.pub /\ x.user = t.user
                   /\ task' = [task EXCEPT ![c] = x]

LEMMA CascadeToTree ==
    ASSUME Typed, Tree, NEW c \in Subscriber, NEW t \in TaskRec, At(c, "idle"),
           t.pub \in Publisher, ~pub[t.pub].gone, pub[t.pub].user = t.user,
           CascadeTo(c, t), UNCHANGED listed
    PROVE  Tree'
<1>1. ASSUME NEW x, GoesAs(c, t, x), UNCHANGED <<pub, rp, janus>>
      PROVE  Tree'
  <2>1. task'[c] = x => TaskKept(c)
    BY <1>1 DEF GoesAs, TaskKept, At, Begins
  <2>2. \A d \in Subscriber : TaskKept(d)
    BY <1>1, <2>1, OneGoes DEF GoesAs
  <2>3. SameTree
    BY <1>1 DEF SameTree
  <2>. QED  BY <2>2, <2>3, TreeKept
<1>3. CASE task' = [task EXCEPT ![c] = [t EXCEPT !.pc = "ready"]] /\ UNCHANGED <<pub, rp, janus>>
  <2>1. GoesAs(c, t, [t EXCEPT !.pc = "ready"])
    BY <1>3 DEF GoesAs, TaskRec
  <2>. QED  BY <1>1, <1>3, <2>1
<1>4. CASE /\ task' = [task EXCEPT ![c] = [t EXCEPT !.pc = "lock", !.rp = pub[t.pub].remote]]
           /\ UNCHANGED <<pub, rp, janus>>
  <2>1. GoesAs(c, t, [t EXCEPT !.pc = "lock", !.rp = pub[t.pub].remote])
    BY <1>4 DEF GoesAs, TaskRec
  <2>. QED  BY <1>1, <1>4, <2>1
<1>5. ASSUME NEW n \in Remote, FreeRemote(n), pub[t.pub].remote = None,
             pub' = [pub EXCEPT ![t.pub].remote = n],
             rp' = [rp EXCEPT ![n] = [NoRemote EXCEPT !.pub = t.pub, !.destroyed = FALSE]],
             SendsAdd(c, [t EXCEPT !.rp = n])
      PROVE  Tree'
  BY <1>5, RemoteNew
<1>. QED  BY <1>3, <1>4, <1>5 DEF CascadeTo

LEMMA JoinTree ==
    ASSUME Typed, Placed, Tree, NEW c \in Subscriber, NEW u \in User,
           Subscribe(c, u) \/ \E b \in BackendRoom \cup {Home} : Join(c, u, b)
    PROVE  Tree'
<1>1. listed[u] \in Publisher /\ ~pub[listed[u]].gone /\ pub[listed[u]].user = u
  BY Types DEF Typed, Tree, ListedOK, Subscribe, Join
<1>2. ASSUME NEW b \in BackendRoom \cup {Home}, Join(c, u, b) PROVE Tree'
  <2>. DEFINE t == [NoTask EXCEPT !.user = u, !.pub = listed[u], !.broom = b, !.new = TRUE]
  <2>1. t \in TaskRec /\ t.pub = listed[u] /\ t.user = u
    BY <1>1 DEF NoTask, TaskRec
  <2>2. CascadeTo(c, t) /\ At(c, "idle") /\ UNCHANGED listed
    BY <1>2 DEF Join
  <2>. HIDE DEF t
  <2>. QED  BY <1>1, <2>1, <2>2, CascadeToTree
<1>3. CASE Subscribe(c, u)
  <2>. DEFINE t == [NoTask EXCEPT !.user = u, !.pub = listed[u], !.broom = sub[c].broom]
  <2>1. sub[c].broom \in BackendRoom \cup {Home}
    BY <1>3 DEF Subscribe, Placed
  <2>2. t \in TaskRec /\ t.pub = listed[u] /\ t.user = u
    BY <1>1, <2>1 DEF NoTask, TaskRec
  <2>3. CascadeTo(c, t) /\ At(c, "idle") /\ UNCHANGED listed
    BY <1>3 DEF Subscribe
  <2>. HIDE DEF t
  <2>. QED  BY <1>1, <2>2, <2>3, CascadeToTree
<1>. QED  BY <1>2, <1>3

LEMMA AddEndsTree ==
    ASSUME Typed, Tree, NEW c \in Subscriber, Added(c) \/ AddFails(c) \/ ForwardFails(c)
    PROVE  Tree'
<1>1. CASE Added(c)
  <2>1. CASE pub[task[c].pub].gone \/ ~pub[task[c].pub].up
    <3>1. /\ Begins(c) /\ Builds(c) /\ task[c].rp \in Remote /\ Live(task[c].rp)
      BY <1>1 DEF Added, Answered, At, Begins, Builds, Typed, Shapes, TaskShape, Tree, TaskOK
    <3>2. PICK U : DestroyRemote(task[c].rp, U)
      BY <1>1, <2>1 DEF Added
    <3>. QED  BY <1>1, <2>1, <3>1, <3>2, DestroyRemoteTree DEF Added
  <2>2. CASE ~pub[task[c].pub].gone /\ pub[task[c].pub].up
    <3>1. At(c, "add") /\ UNCHANGED listed
      BY <1>1 DEF Added, Answered
    <3>. QED  BY <1>1, <2>2, <3>1, AddedTree DEF Added
  <2>. QED  BY <2>1, <2>2
<1>2. CASE AddFails(c)
  <2>1. /\ Begins(c) /\ Builds(c) /\ task[c].rp \in Remote /\ Live(task[c].rp)
    BY <1>2 DEF AddFails, Begins, Builds, Typed, Shapes, TaskShape, Tree, TaskOK
  <2>. QED  BY <1>2, <2>1, DestroyRemoteTree DEF AddFails
<1>3. CASE ForwardFails(c)
  <2>1. At(c, "forward") /\ Builds(c) /\ ~Begins(c) /\ task[c].rp \in Remote
    BY <1>3 DEF ForwardFails, Answered, At, Begins, Builds, Typed, Shapes, TaskShape
  <2>2. CASE ~rp[task[c].rp].destroyed
    BY <1>3, <2>1, <2>2, DestroyRemoteTree DEF ForwardFails, Live
  <2>3. CASE rp[task[c].rp].destroyed
    <3>1. SameTree /\ Finish(c)
      BY <1>3, <2>3 DEF ForwardFails, SameTree
    <3>. QED  BY <2>1, <3>1, FreesTask, TreeKept
  <2>. QED  BY <2>2, <2>3
<1>. QED  BY <1>1, <1>2, <1>3

LEMMA RemoteTree ==
    ASSUME Typed, Tree, NEW r \in Remote, TimePasses(r) \/ IdleCheck(r) PROVE Tree'
<1>1. CASE TimePasses(r)
  BY <1>1, IdleTree DEF TimePasses
<1>2. CASE IdleCheck(r)
  <2>1. CASE DestroyRemote(r, Removals({r}))
    BY <1>2, <2>1, DestroyRemoteTree DEF IdleCheck, Live, Running
  <2>. QED  BY <1>2, <2>1, IdleTree DEF IdleCheck
<1>. QED  BY <1>1, <1>2

LEMMA TreeStep == Typed /\ Placed /\ Tree /\ [Next]_vars => Tree'
<1>. SUFFICES ASSUME Typed, Placed, Tree, [Next]_vars PROVE Tree'
  OBVIOUS
<1>1. CASE UNCHANGED vars
  <2>1. SameTree /\ task' = task
    BY <1>1 DEF vars, SameTree
  <2>. QED  BY <2>1, AllStay, TreeKept
<1>2. ASSUME NEW p \in Publisher,
             \/ PubUp(p) \/ PubHangup(p) \/ PubLeaves(p) \/ \E u \in User : PubJoins(p, u)
      PROVE  Tree'
  BY <1>2, PubUpTree, PubEndsTree, PubJoinsTree
<1>3. ASSUME NEW c \in Subscriber, Resume(c) \/ LockTimeout(c) PROVE Tree'
  BY <1>3, WaitTree, AddEndsTree, AddAgainTree, SubscriberTree DEF Resume
<1>4. ASSUME NEW c \in Subscriber,
             \/ SubLeaves(c) \/ SubHangup(c)
             \/ \E u \in User : \/ Subscribe(c, u) \/ Unsubscribe(c, u) \/ Updated(c, u)
                                \/ \E b \in BackendRoom \cup {Home} : Join(c, u, b)
      PROVE  Tree'
  BY <1>4, SubscriberTree, JoinTree
<1>. QED  BY <1>1, <1>2, <1>3, <1>4, BackendRoomTree, RemoteTree DEF Next

-----------------------------------------------------------------------------
LEMMA PlacedInit == Init => Placed
BY DEF Init, Placed, NoSub

\* The inductive invariant of types and tree.
Sound == Typed /\ Placed /\ Tree

LEMMA SoundHolds == Spec => []Sound
<1>1. Init => Sound
  BY TypedInit, PlacedInit, TreeInit DEF Sound
<1>2. Sound /\ [Next]_vars => Sound'
  BY TypedStep, PlacedStep, TreeStep DEF Sound
<1>. QED  BY <1>1, <1>2, PTL DEF Spec

(* The state is always of its type.                                          *)
THEOREM TypeCorrect == Spec => []TypeOK
<1>1. Sound => TypeOK
  BY DEF Sound, Typed
<1>. QED  BY <1>1, SoundHolds, PTL

LEMMA TreeSound == Sound => TreeIsSound
<1>. SUFFICES ASSUME Sound PROVE TreeIsSound
  OBVIOUS
<1>1. /\ \A p \in Publisher : PubOK(p) /\ pub[p].children \subseteq Remote
                              /\ pub[p].remote \in Remote \cup {None}
      /\ \A r \in Remote : RemoteOK(r)
      /\ janus.forward \subseteq Publisher
  BY Types DEF Sound, Tree, Typed, TypeOK
<1>2. TreeAlive
  <2>1. ASSUME NEW r \in Remote, Running(r)
        PROVE  /\ ~pub[rp[r].pub].gone /\ pub[rp[r].pub].up
               /\ pub[rp[r].pub].remote = r /\ r \in pub[rp[r].pub].children
    BY <1>1, <2>1 DEF RemoteOK, Running
  <2>2. ASSUME NEW r \in Remote, Live(r), ~Running(r)
        PROVE  \E c \in Subscriber : task[c].pc \in {"add", "remove"} /\ task[c].rp = r
    BY <1>1, <2>2 DEF RemoteOK, Begins
  <2>3. ASSUME NEW p \in Publisher, NEW r \in pub[p].children \cup ({pub[p].remote} \ {None})
        PROVE  Live(r)
    BY <1>1, <2>3 DEF PubOK, Running
  <2>. QED  BY <2>1, <2>2, <2>3 DEF TreeAlive
<1>3. NoLostForward
  BY <1>1 DEF NoLostForward, PubOK
<1>. QED  BY <1>2, <1>3 DEF TreeIsSound

(* No remote publisher outlives its origin or is left over from a start that *)
(* failed, a publisher refers only to those there are, and its media are     *)
(* forwarded only to one that there is: RemotePublisher.destroy() and        *)
(* on_child_destroy(), whatever comes between a request and its answer.      *)
THEOREM TreeIsSoundHolds == Spec => []TreeIsSound
BY TreeSound, SoundHolds, PTL

-----------------------------------------------------------------------------
(* The feeds: what a subscriber has from a publisher is known to both.       *)
FeedOK(c, u) ==
    sub[c].feeds[u] # None => /\ ~pub[sub[c].feeds[u]].gone
                              /\ pub[sub[c].feeds[u]].user = u
                              /\ c \in pub[sub[c].feeds[u]].subs

SubsOK(p) == \A c \in pub[p].subs : pub[p].user \in User /\ sub[c].feeds[pub[p].user] = p

Feeds == /\ \A c \in Subscriber, u \in User : FeedOK(c, u)
         /\ \A p \in Publisher : SubsOK(p)

\* What a step leaves alone that has nothing to do with feeds.
SameFeedPub(x, y) == y.user = x.user /\ y.gone = x.gone /\ y.subs = x.subs

SameFeeds == sub' = sub /\ \A p \in Publisher : SameFeedPub(pub[p], pub'[p])

-----------------------------------------------------------------------------
LEMMA FeedsInit == Init => Feeds
BY DEF Init, Feeds, FeedOK, SubsOK, NoPub, NoSub

LEMMA FeedsKept == ASSUME Typed, Feeds, SameFeeds PROVE Feeds'
<1>1. ASSUME NEW c \in Subscriber, NEW u \in User PROVE FeedOK(c, u)'
  <2>1. FeedOK(c, u) /\ sub[c].feeds[u] \in Publisher \cup {None}
    BY Types DEF Feeds, Typed
  <2>. QED  BY <2>1 DEF SameFeeds, SameFeedPub, FeedOK
<1>2. ASSUME NEW p \in Publisher PROVE SubsOK(p)'
  BY <1>2 DEF SameFeeds, SameFeedPub, SubsOK, Feeds
<1>. QED  BY <1>1, <1>2 DEF Feeds

LEMMA DestroyRemoteFeeds ==
    ASSUME Typed, NEW r \in Remote, NEW U, DestroyRemote(r, U), sub' = sub PROVE SameFeeds
<1>1. \A p \in Publisher : pub[p] \in PubRec
  BY Types DEF Typed
<1>2. \E S, x : pub' = [pub EXCEPT ![rp[r].pub].children = S, ![rp[r].pub].remote = x]
  BY DEF DestroyRemote
<1>3. ASSUME NEW p \in Publisher PROVE SameFeedPub(pub[p], pub'[p])
  BY <1>1, <1>2, Types DEF Typed, PubRec, SameFeedPub
<1>. QED  BY <1>3 DEF SameFeeds

LEMMA PubFieldFeeds ==
    ASSUME Typed, sub' = sub, NEW q, NEW x,
           \/ pub' = [pub EXCEPT ![q].up = x]
           \/ pub' = [pub EXCEPT ![q].remote = x]
           \/ pub' = [pub EXCEPT ![q].children = x]
    PROVE  SameFeeds
<1>1. \A p \in Publisher : pub[p] \in PubRec
  BY Types DEF Typed
<1>2. ASSUME NEW p \in Publisher PROVE SameFeedPub(pub[p], pub'[p])
  BY <1>1, Types DEF Typed, PubRec, SameFeedPub
<1>. QED  BY <1>2 DEF SameFeeds

LEMMA OtherFeeds ==
    ASSUME Typed,
           \/ \E p \in Publisher : PubUp(p)
           \/ \E b \in BackendRoom : NewBackendRoom(b) \/ BackendRoomLost(b)
           \/ \E r \in Remote : TimePasses(r) \/ IdleCheck(r)
           \/ \E c \in Subscriber :
                \/ LockGot(c) \/ LockTimeout(c) \/ Added(c) \/ AddAgain(c) \/ AddFails(c)
                \/ Forwarded(c) \/ ForwardFails(c) \/ Ask(c) \/ JoinFails(c)
                \/ \E u \in User : \/ Subscribe(c, u)
                                   \/ \E b \in BackendRoom \cup {Home} : Join(c, u, b)
    PROVE  SameFeeds
<1>1. ASSUME UNCHANGED <<pub, sub>> PROVE SameFeeds
  BY <1>1 DEF SameFeeds, SameFeedPub
<1>2. ASSUME NEW p \in Publisher, PubUp(p) PROVE SameFeeds
  BY <1>2, PubFieldFeeds DEF PubUp
<1>3. ASSUME NEW r \in Remote, TimePasses(r) \/ IdleCheck(r) PROVE SameFeeds
  BY <1>1, <1>3, DestroyRemoteFeeds DEF TimePasses, IdleCheck
<1>4. ASSUME NEW c \in Subscriber, NEW u \in User, NEW b \in BackendRoom \cup {Home},
             Subscribe(c, u) \/ Join(c, u, b)
      PROVE  SameFeeds
  <2>1. sub' = sub /\ \E t : CascadeTo(c, t)
    BY <1>4 DEF Subscribe, Join
  <2>2. ASSUME NEW t, CascadeTo(c, t) PROVE SameFeeds
    <3>1. pub' = pub \/ \E n : pub' = [pub EXCEPT ![t.pub].remote = n]
      BY <2>2 DEF CascadeTo
    <3>. QED  BY <1>1, <2>1, <3>1, PubFieldFeeds
  <2>. QED  BY <2>1, <2>2
<1>5. ASSUME NEW c \in Subscriber, Added(c) \/ AddFails(c) \/ ForwardFails(c) PROVE SameFeeds
  <2>1. sub' = sub /\ task[c].rp \in Remote
    BY <1>5 DEF Added, AddFails, ForwardFails, Answered, At, Typed, Shapes, TaskShape
  <2>2. \/ pub' = pub
        \/ \E U : DestroyRemote(task[c].rp, U)
        \/ \E S : pub' = [pub EXCEPT ![task[c].pub].children = S]
    BY <1>5 DEF Added, AddFails, ForwardFails
  <2>. QED  BY <1>1, <2>1, <2>2, DestroyRemoteFeeds, PubFieldFeeds
<1>6. ASSUME NEW c \in Subscriber,
             \/ LockGot(c) \/ LockTimeout(c) \/ AddAgain(c) \/ Forwarded(c) \/ Ask(c)
             \/ JoinFails(c)
      PROVE  SameFeeds
  BY <1>1, <1>6 DEF LockGot, LockTimeout, AddAgain, Forwarded, Ask, JoinFails
<1>. QED  BY <1>1, <1>2, <1>3, <1>4, <1>5, <1>6 DEF NewBackendRoom, BackendRoomLost

LEMMA PubJoinsFeeds ==
    ASSUME Typed, Feeds, NEW p \in Publisher, NEW u \in User, PubJoins(p, u) PROVE Feeds'
<1>1. /\ pub[p].gone /\ pub'[p].subs = {} /\ sub' = sub
      /\ \A q \in Publisher : q # p => pub'[q] = pub[q]
  BY Types DEF Typed, PubJoins, FreePub, NoPub
<1>2. ASSUME NEW c \in Subscriber, NEW v \in User PROVE FeedOK(c, v)'
  <2>1. FeedOK(c, v) /\ sub[c].feeds[v] \in Publisher \cup {None}
    BY Types DEF Feeds, Typed
  <2>. QED  BY <1>1, <2>1 DEF FeedOK
<1>3. ASSUME NEW q \in Publisher PROVE SubsOK(q)'
  BY <1>1 DEF SubsOK, Feeds
<1>. QED  BY <1>2, <1>3 DEF Feeds

LEMMA PubEndsFeeds ==
    ASSUME Typed, Tree, Feeds, NEW p \in Publisher, PubHangup(p) \/ PubLeaves(p) PROVE Feeds'
<1>0. /\ pub[p].user \in User /\ ~pub[p].gone /\ pub[p] \in PubRec
      /\ \A c \in Subscriber : sub[c] \in SubRec /\ sub[c].feeds \in [User -> Publisher \cup {None}]
  BY Types DEF Typed, Tree, PubOK, PubHangup, PubLeaves
<1>1. /\ pub'[p].subs = {} /\ \A q \in Publisher : q # p => pub'[q] = pub[q]
  BY <1>0, Types DEF Typed, PubHangup, PubLeaves, NoPub, PubRec
<1>2. ASSUME NEW c \in Subscriber
      PROVE  /\ c \notin pub[p].subs => sub'[c] = sub[c]
             /\ c \in pub[p].subs =>
                  /\ sub'[c].feeds[pub[p].user] = None
                  /\ \A u \in User : u # pub[p].user => sub'[c].feeds[u] = sub[c].feeds[u]
  <2>1. sub'[c] = IF c \in pub[p].subs THEN [sub[c] EXCEPT !.feeds[pub[p].user] = None] ELSE sub[c]
    BY DEF PubHangup, PubLeaves, FeedLost
  <2>. QED  BY <1>0, <2>1 DEF SubRec
<1>3. ASSUME NEW c \in Subscriber, NEW u \in User, sub[c].feeds[u] = p
      PROVE  u = pub[p].user /\ c \in pub[p].subs
  BY <1>3, NoneApart DEF Feeds, FeedOK
<1>4. ASSUME NEW c \in Subscriber, NEW u \in User PROVE FeedOK(c, u)'
  <2>1. \/ sub'[c].feeds[u] = None
        \/ sub'[c].feeds[u] = sub[c].feeds[u] /\ sub[c].feeds[u] # p
    BY <1>2, <1>3
  <2>2. FeedOK(c, u) /\ sub[c].feeds[u] \in Publisher \cup {None}
    BY <1>0 DEF Feeds
  <2>. QED  BY <1>1, <2>1, <2>2 DEF FeedOK
<1>5. ASSUME NEW q \in Publisher PROVE SubsOK(q)'
  <2>1. CASE q = p
    BY <1>1, <2>1 DEF SubsOK
  <2>2. CASE q # p
    <3>1. pub'[q] = pub[q] /\ SubsOK(q) /\ pub[q].subs \subseteq Subscriber
      BY <1>1, <2>2, Types DEF Feeds, Typed
    <3>2. ASSUME NEW c \in pub[q].subs
          PROVE  pub[q].user \in User /\ sub'[c].feeds[pub[q].user] = q
      <4>1. c \in Subscriber /\ pub[q].user \in User /\ sub[c].feeds[pub[q].user] = q
        BY <3>1 DEF SubsOK
      <4>2. c \in pub[p].subs => sub[c].feeds[pub[p].user] = p
        BY DEF Feeds, SubsOK
      <4>. QED  BY <1>2, <2>2, <4>1, <4>2
    <3>. QED  BY <3>1, <3>2 DEF SubsOK
  <2>. QED  BY <2>1, <2>2
<1>. QED  BY <1>4, <1>5 DEF Feeds

\* The feeds of the users of U are dropped.
LEMMA DroppedFeeds ==
    ASSUME Typed, Feeds, NEW c \in Subscriber, NEW U, U \subseteq User, DropFeeds(c, U),
           \A d \in Subscriber : d # c => sub'[d] = sub[d],
           \A u \in User : sub'[c].feeds[u] = IF u \in U THEN None ELSE sub[c].feeds[u]
    PROVE  Feeds'
<1>. DEFINE P == {sub[c].feeds[u] : u \in U} \ {None}
<1>0. \A p \in Publisher : pub[p] \in PubRec
  BY Types DEF Typed
<1>1. ASSUME NEW p \in Publisher
      PROVE  /\ pub'[p].user = pub[p].user /\ pub'[p].gone = pub[p].gone
             /\ pub'[p].subs = IF p \in P THEN pub[p].subs \ {c} ELSE pub[p].subs
  <2>1. pub'[p] = IF p \in P THEN [pub[p] EXCEPT !.subs = @ \ {c}] ELSE pub[p]
    BY DEF DropFeeds
  <2>. QED  BY <1>0, <2>1 DEF PubRec
<1>2. ASSUME NEW u \in User, sub[c].feeds[u] \in P PROVE u \in U
  <2>1. PICK v \in U : sub[c].feeds[v] = sub[c].feeds[u] /\ sub[c].feeds[u] # None
    BY <1>2
  <2>. QED  BY <2>1 DEF Feeds, FeedOK
<1>. HIDE DEF P
<1>3. ASSUME NEW d \in Subscriber, NEW u \in User PROVE FeedOK(d, u)'
  <2>1. FeedOK(d, u) /\ sub[d].feeds[u] \in Publisher \cup {None}
    BY Types DEF Feeds, Typed
  <2>2. CASE d = c /\ u \in U
    BY <2>2 DEF FeedOK
  <2>3. CASE ~(d = c /\ u \in U)
    <3>1. sub'[d].feeds[u] = sub[d].feeds[u]
      BY <2>3
    <3>2. d = c => sub[d].feeds[u] \notin P
      BY <1>2, <2>3
    <3>. QED  BY <1>1, <2>1, <3>1, <3>2 DEF FeedOK
  <2>. QED  BY <2>2, <2>3
<1>4. ASSUME NEW p \in Publisher PROVE SubsOK(p)'
  <2>1. SubsOK(p) /\ pub[p].subs \subseteq Subscriber
    BY Types DEF Feeds, Typed
  <2>2. ASSUME NEW d \in pub'[p].subs
        PROVE  pub[p].user \in User /\ sub'[d].feeds[pub[p].user] = p
    <3>1. d \in Subscriber /\ d \in pub[p].subs /\ (d = c => p \notin P)
      BY <1>1, <2>1
    <3>2. pub[p].user \in User /\ sub[d].feeds[pub[p].user] = p
      BY <2>1, <3>1 DEF SubsOK
    <3>3. d = c => pub[p].user \notin U
      BY <3>1, <3>2, NoneApart DEF P
    <3>. QED  BY <3>1, <3>2, <3>3
  <2>3. pub'[p].user = pub[p].user
    BY <1>1
  <2>. QED  BY <2>2, <2>3 DEF SubsOK
<1>. QED  BY <1>3, <1>4 DEF Feeds

LEMMA SubEndsFeeds ==
    ASSUME Typed, Feeds, NEW c \in Subscriber,
           SubHangup(c) \/ SubLeaves(c) \/ \E u \in User : FeedDropped(c, u)
    PROVE  Feeds'
<1>0. sub[c] \in SubRec /\ sub \in [Subscriber -> SubRec]
  BY Types DEF Typed
<1>1. CASE SubHangup(c) \/ SubLeaves(c)
  <2>1. /\ \A d \in Subscriber : d # c => sub'[d] = sub[d]
        /\ \A u \in User : sub'[c].feeds[u] = None
    BY <1>0, <1>1 DEF SubHangup, SubLeaves, NoSub, SubRec
  <2>2. DropFeeds(c, User)
    BY <1>1 DEF SubHangup, SubLeaves
  <2>. QED  BY <2>1, <2>2, DroppedFeeds
<1>2. ASSUME NEW u \in User, FeedDropped(c, u) PROVE Feeds'
  <2>1. /\ \A d \in Subscriber : d # c => sub'[d] = sub[d]
        /\ \A v \in User : sub'[c].feeds[v] = IF v \in {u} THEN None ELSE sub[c].feeds[v]
    BY <1>0, <1>2 DEF FeedDropped, SubRec
  <2>. QED  BY <1>2, <2>1, DroppedFeeds DEF FeedDropped
<1>. QED  BY <1>1, <1>2

LEMMA JoinedFeeds == ASSUME Typed, Tree, Feeds, NEW c \in Subscriber, Joined(c) PROVE Feeds'
<1>. DEFINE takes == /\ task[c].new \/ sub[c].on
                     /\ listed[task[c].user] # None /\ sub[c].feeds[task[c].user] = None
<1>0. /\ task[c].user \in User /\ sub[c].feeds \in [User -> Publisher \cup {None}]
      /\ listed[task[c].user] \in Publisher \cup {None} /\ sub \in [Subscriber -> SubRec]
      /\ \A q \in Publisher : pub[q] \in PubRec
      /\ pub \in [Publisher -> PubRec]
  BY Types DEF Typed, Shapes, TaskShape, Joined, Answered, At
<1>. PICK u \in User, p \in Publisher \cup {None} : u = task[c].user /\ p = listed[u]
  BY <1>0
<1>1. /\ \A d \in Subscriber : d # c => sub'[d] = sub[d]
      /\ \A v \in User : sub'[c].feeds[v] = IF takes /\ v = u THEN p ELSE sub[c].feeds[v]
  <2>. DEFINE f == [sub[c].feeds EXCEPT ![u] = IF takes THEN p ELSE @]
  <2>1. sub' = IF task[c].new \/ sub[c].on
               THEN [sub EXCEPT ![c] = [on |-> TRUE, broom |-> task[c].broom, feeds |-> f]]
               ELSE sub
    BY DEF Joined
  <2>2. \A v \in User : f[v] = IF takes /\ v = u THEN p ELSE sub[c].feeds[v]
    BY <1>0
  <2>. HIDE DEF f
  <2>. QED  BY <1>0, <2>1, <2>2
<1>2. ~takes => pub' = pub
  BY DEF Joined
<1>3. takes => /\ p \in Publisher /\ pub[p].user = u /\ ~pub[p].gone
               /\ pub'[p].subs = pub[p].subs \cup {c}
               /\ pub'[p].user = pub[p].user /\ pub'[p].gone = pub[p].gone
               /\ \A q \in Publisher : q # p => pub'[q] = pub[q]
  <2>1. SUFFICES ASSUME takes
                 PROVE  /\ p \in Publisher /\ pub[p].user = u /\ ~pub[p].gone
                        /\ pub'[p].subs = pub[p].subs \cup {c}
                        /\ pub'[p].user = pub[p].user /\ pub'[p].gone = pub[p].gone
                        /\ \A q \in Publisher : q # p => pub'[q] = pub[q]
    OBVIOUS
  <2>2. p \in Publisher /\ pub[p].user = u /\ ~pub[p].gone /\ pub[p] \in PubRec
    BY <1>0, <2>1 DEF Tree, ListedOK
  <2>3. pub' = [pub EXCEPT ![p].subs = @ \cup {c}]
    BY <2>1 DEF Joined
  <2>. QED  BY <1>0, <2>2, <2>3 DEF PubRec
<1>. HIDE DEF takes
<1>5. ASSUME NEW d \in Subscriber, NEW v \in User PROVE FeedOK(d, v)'
  <2>1. FeedOK(d, v) /\ sub[d].feeds[v] \in Publisher \cup {None}
    BY Types DEF Feeds, Typed
  <2>2. CASE takes /\ d = c /\ v = u
    BY <1>1, <1>3, <2>2 DEF FeedOK
  <2>3. CASE ~(takes /\ d = c /\ v = u)
    <3>1. sub'[d].feeds[v] = sub[d].feeds[v]
      BY <1>1, <2>3
    <3>2. \A q \in Publisher : /\ pub'[q].user = pub[q].user /\ pub'[q].gone = pub[q].gone
                               /\ pub[q].subs \subseteq pub'[q].subs
      BY <1>2, <1>3
    <3>. QED  BY <2>1, <3>1, <3>2 DEF FeedOK
  <2>. QED  BY <2>2, <2>3
<1>6. ASSUME NEW q \in Publisher PROVE SubsOK(q)'
  <2>1. SubsOK(q) /\ pub[q].subs \subseteq Subscriber
    BY Types DEF Feeds, Typed
  <2>2. pub'[q].user = pub[q].user
    BY <1>2, <1>3
  <2>3. ASSUME NEW d \in pub'[q].subs
        PROVE  pub[q].user \in User /\ sub'[d].feeds[pub[q].user] = q
    <3>1. CASE takes /\ q = p /\ d = c
      BY <1>1, <1>3, <3>1
    <3>2. CASE ~(takes /\ q = p /\ d = c)
      <4>1. d \in Subscriber /\ d \in pub[q].subs
        BY <1>2, <1>3, <2>1, <3>2
      <4>2. pub[q].user \in User /\ sub[d].feeds[pub[q].user] = q
        BY <2>1, <4>1 DEF SubsOK
      <4>3. takes /\ d = c => pub[q].user # u
        <5>1. takes => sub[c].feeds[u] = None
          BY DEF takes
        <5>. QED  BY <4>2, <5>1, NoneApart
      <4>. QED  BY <1>1, <4>1, <4>2, <4>3
    <3>. QED  BY <3>1, <3>2
  <2>. QED  BY <2>2, <2>3 DEF SubsOK
<1>. QED  BY <1>5, <1>6 DEF Feeds

LEMMA FeedsStep == Sound /\ Feeds /\ [Next]_vars => Feeds'
<1>. SUFFICES ASSUME Sound, Feeds, [Next]_vars PROVE Feeds'
  OBVIOUS
<1>t. Typed /\ Tree
  BY DEF Sound
<1>1. CASE UNCHANGED vars
  BY <1>t, <1>1, FeedsKept DEF vars, SameFeeds, SameFeedPub
<1>2. ASSUME NEW p \in Publisher,
             \/ PubUp(p) \/ PubHangup(p) \/ PubLeaves(p) \/ \E u \in User : PubJoins(p, u)
      PROVE  Feeds'
  <2>1. CASE PubUp(p)
    BY <1>t, <2>1, OtherFeeds, FeedsKept
  <2>. QED  BY <1>t, <1>2, <2>1, PubJoinsFeeds, PubEndsFeeds
<1>3. ASSUME NEW b \in BackendRoom, NewBackendRoom(b) \/ BackendRoomLost(b) PROVE Feeds'
  BY <1>t, <1>3, OtherFeeds, FeedsKept
<1>4. ASSUME NEW c \in Subscriber, Resume(c) \/ LockTimeout(c) PROVE Feeds'
  <2>1. CASE Joined(c)
    BY <1>t, <2>1, JoinedFeeds
  <2>2. CASE ~Joined(c)
    BY <1>t, <1>4, <2>2, OtherFeeds, FeedsKept DEF Resume
  <2>. QED  BY <2>1, <2>2
<1>5. ASSUME NEW c \in Subscriber, NEW u \in User, NEW b \in BackendRoom \cup {Home},
             Subscribe(c, u) \/ Join(c, u, b)
      PROVE  Feeds'
  BY <1>t, <1>5, OtherFeeds, FeedsKept
<1>6. ASSUME NEW c \in Subscriber,
             \/ SubLeaves(c) \/ SubHangup(c) \/ \E u \in User : Unsubscribe(c, u) \/ Updated(c, u)
      PROVE  Feeds'
  BY <1>t, <1>6, SubEndsFeeds DEF Unsubscribe, Updated
<1>7. ASSUME NEW r \in Remote, TimePasses(r) \/ IdleCheck(r) PROVE Feeds'
  BY <1>t, <1>7, OtherFeeds, FeedsKept
<1>8. ASSUME NEW c \in Subscriber,
             \/ Resume(c) \/ LockTimeout(c) \/ SubLeaves(c) \/ SubHangup(c)
             \/ \E u \in User : \/ Subscribe(c, u) \/ Unsubscribe(c, u) \/ Updated(c, u)
                                \/ \E b \in BackendRoom \cup {Home} : Join(c, u, b)
      PROVE  Feeds'
  BY <1>4, <1>5, <1>6, <1>8
<1>. QED  BY <1>1, <1>2, <1>3, <1>7, <1>8 DEF Next

(* Publisher and subscriber know each other, whatever comes between: what    *)
(* on_feed_hangup() and del_subscriber() take away, they take away at both.  *)
THEOREM FeedsMutualHolds == Spec => []FeedsMutual
<1>1. Sound /\ Feeds => FeedsMutual
  <2>. SUFFICES ASSUME Sound, Feeds, NEW c \in Subscriber, NEW p \in Publisher
                PROVE  c \in pub[p].subs <=> \E u \in User : sub[c].feeds[u] = p
    BY DEF FeedsMutual
  <2>1. SubsOK(p) /\ \A u \in User : FeedOK(c, u)
    BY DEF Feeds
  <2>. QED  BY <2>1, NoneApart DEF SubsOK, FeedOK
<1>2. Init => Feeds
  BY FeedsInit
<1>3. Sound /\ Feeds /\ [Next]_vars => Feeds'
  BY FeedsStep
<1>. QED  BY <1>1, <1>2, <1>3, SoundHolds, PTL DEF Spec

-----------------------------------------------------------------------------
(* A greenlet that waits and the subscriber it works for.                    *)
Waits(c) ==
    /\ ~sub[c].on => \A u \in User : sub[c].feeds[u] = None
    /\ ~At(c, "idle") /\ task[c].new => ~sub[c].on
    /\ ~At(c, "idle") /\ ~task[c].new /\ sub[c].on => sub[c].broom = task[c].broom

Waiting == \A c \in Subscriber : Waits(c)

LEMMA WaitingInit == Init => Waiting
BY DEF Init, Waiting, Waits, NoSub, NoTask, At

\* The greenlet of c goes on for the same request, or is done.
SameRequest(c) == task'[c].pc # "idle" => /\ ~At(c, "idle")
                                          /\ task'[c].new = task[c].new
                                          /\ task'[c].broom = task[c].broom

OneMoves(c) == \A d \in Subscriber : d # c => task'[d] = task[d]

LEMMA WaitingKept ==
    ASSUME Waiting, sub' = sub, \A c \in Subscriber : SameRequest(c) PROVE Waiting'
BY DEF Waiting, Waits, SameRequest, At

LEMMA Requests ==
    ASSUME Typed, NEW c \in Subscriber,
           \/ LockGot(c) \/ LockTimeout(c) \/ Added(c) \/ AddAgain(c) \/ AddFails(c)
           \/ Forwarded(c) \/ ForwardFails(c) \/ Ask(c) \/ JoinFails(c) \/ Joined(c)
    PROVE  OneMoves(c) /\ SameRequest(c) /\ (~Joined(c) => sub' = sub)
<1>1. /\ task[c] \in TaskRec /\ task \in [Subscriber -> TaskRec] /\ ~At(c, "idle")
  BY Types DEF Typed, LockGot, LockTimeout, Added, AddAgain, AddFails, Forwarded, ForwardFails, Ask,
               JoinFails, Joined, Answered, At
<1>2. CASE Finish(c)
  <2>1. OneMoves(c) /\ task'[c] = NoTask
    BY <1>1, <1>2 DEF Finish, OneMoves
  <2>2. SameRequest(c)
    BY <2>1 DEF NoTask, SameRequest
  <2>. QED  BY <2>1, <2>2 DEF LockGot, LockTimeout, Added, AddAgain, AddFails, Forwarded,
                              ForwardFails, Ask, JoinFails
<1>3. ASSUME NEW pc, NEW resp, task' = [task EXCEPT ![c].pc = pc, ![c].resp = resp]
      PROVE  OneMoves(c) /\ SameRequest(c)
  BY <1>1, <1>3 DEF TaskRec, OneMoves, SameRequest
<1>4. CASE Added(c) \/ Ask(c)
  BY <1>2, <1>3, <1>4 DEF Added, Ask
<1>5. CASE LockGot(c)
  <2>1. ASSUME task' = [task EXCEPT ![c].pc = "ready", ![c].rp = None]
        PROVE  OneMoves(c) /\ SameRequest(c)
    BY <1>1, <2>1 DEF TaskRec, OneMoves, SameRequest
  <2>. QED  BY <1>2, <1>5, <2>1 DEF LockGot
<1>6. CASE Forwarded(c)
  <2>1. task' = [task EXCEPT ![c].pc = "ready", ![c].rp = None, ![c].resp = "none"]
    BY <1>6 DEF Forwarded
  <2>2. OneMoves(c) /\ SameRequest(c)
    BY <1>1, <2>1 DEF TaskRec, OneMoves, SameRequest
  <2>. QED  BY <1>6, <2>2 DEF Forwarded
<1>7. CASE AddAgain(c)
  <2>1. ASSUME SendsAdd(c, task[c]) PROVE OneMoves(c) /\ SameRequest(c)
    <3>1. PICK r : task' = [task EXCEPT ![c] = [task[c] EXCEPT !.pc = "add", !.resp = r]]
      BY <2>1 DEF SendsAdd
    <3>. QED  BY <1>1, <3>1 DEF TaskRec, OneMoves, SameRequest
  <2>. QED  BY <1>3, <1>7, <2>1 DEF AddAgain
<1>. QED  BY <1>2, <1>4, <1>5, <1>6, <1>7 DEF LockTimeout, AddFails, ForwardFails, JoinFails, Joined

LEMMA WaitingStep == Typed /\ Waiting /\ [Next]_vars => Waiting'
<1>. SUFFICES ASSUME Typed, Waiting, [Next]_vars PROVE Waiting'
  OBVIOUS
<1>0. /\ \A c \in Subscriber : /\ sub[c] \in SubRec /\ task[c] \in TaskRec /\ Waits(c)
                               /\ sub[c].feeds \in [User -> Publisher \cup {None}]
      /\ sub \in [Subscriber -> SubRec] /\ task \in [Subscriber -> TaskRec]
  BY Types DEF Typed, Waiting
<1>1. ASSUME UNCHANGED <<sub, task>> PROVE Waiting'
  BY <1>1, WaitingKept DEF SameRequest, At
<1>2. ASSUME NEW p \in Publisher,
             \/ PubUp(p) \/ PubHangup(p) \/ PubLeaves(p) \/ \E u \in User : PubJoins(p, u)
      PROVE  Waiting'
  <2>1. CASE FeedLost(p) /\ UNCHANGED task
    <3>1. ASSUME NEW c \in Subscriber
          PROVE  /\ sub'[c].on = sub[c].on /\ sub'[c].broom = sub[c].broom
                 /\ \A u \in User : sub'[c].feeds[u] \in {sub[c].feeds[u], None}
      <4>1. sub'[c] = IF c \in pub[p].subs THEN [sub[c] EXCEPT !.feeds[pub[p].user] = None]
                                           ELSE sub[c]
        BY <2>1 DEF FeedLost
      <4>. QED  BY <1>0, <4>1 DEF SubRec
    <3>. QED  BY <1>0, <2>1, <3>1 DEF Waiting, Waits, At
  <2>. QED  BY <1>1, <1>2, <2>1 DEF PubUp, PubHangup, PubLeaves, PubJoins
<1>3. ASSUME NEW c \in Subscriber, Joined(c) PROVE Waiting'
  <2>1. /\ \A d \in Subscriber : d # c => sub'[d] = sub[d] /\ task'[d] = task[d]
        /\ task'[c].pc = "idle" /\ (sub'[c].on \/ sub'[c] = sub[c])
    BY <1>0, <1>3 DEF Joined, Finish, NoTask
  <2>. QED  BY <1>0, <2>1 DEF Waiting, Waits, At
<1>4. ASSUME NEW c \in Subscriber, Resume(c) \/ LockTimeout(c), ~Joined(c) PROVE Waiting'
  <2>1. sub' = sub /\ OneMoves(c) /\ SameRequest(c)
    BY <1>4, Requests DEF Resume
  <2>2. \A d \in Subscriber : SameRequest(d)
    BY <2>1 DEF OneMoves, SameRequest, At
  <2>. QED  BY <2>1, <2>2, WaitingKept
<1>5. ASSUME NEW c \in Subscriber,
             \/ SubLeaves(c) \/ SubHangup(c) \/ \E u \in User : FeedDropped(c, u)
      PROVE  Waiting'
  <2>1. /\ \A d \in Subscriber : d # c => sub'[d] = sub[d]
        /\ \/ ~sub'[c].on
           \/ sub'[c].on = sub[c].on /\ sub'[c].broom = sub[c].broom
        /\ \A u \in User : sub'[c].feeds[u] \in {sub[c].feeds[u], None}
    <3>1. CASE SubLeaves(c)
      BY <1>0, <3>1 DEF SubLeaves, NoSub
    <3>2. CASE SubHangup(c)
      BY <1>0, <3>2 DEF SubHangup, SubRec
    <3>3. ASSUME NEW u \in User, sub' = [sub EXCEPT ![c].feeds[u] = None]
          PROVE  /\ \A d \in Subscriber : d # c => sub'[d] = sub[d]
                 /\ sub'[c].on = sub[c].on /\ sub'[c].broom = sub[c].broom
                 /\ \A v \in User : sub'[c].feeds[v] \in {sub[c].feeds[v], None}
      BY <1>0, <3>3 DEF SubRec
    <3>. QED  BY <1>5, <3>1, <3>2, <3>3 DEF FeedDropped
  <2>2. SubLeaves(c) => \A u \in User : sub'[c].feeds[u] = None
    BY <1>0 DEF SubLeaves, NoSub
  <2>3. ~SubLeaves(c) => sub'[c].on = sub[c].on
    BY <1>0, <1>5 DEF SubHangup, FeedDropped, SubRec
  <2>4. task' = task
    BY <1>5 DEF SubLeaves, SubHangup, FeedDropped
  <2>5. Waits(c)'
    BY <1>0, <2>1, <2>2, <2>3, <2>4 DEF Waits, At
  <2>6. ASSUME NEW d \in Subscriber, d # c PROVE Waits(d)'
    BY <1>0, <2>1, <2>4, <2>6 DEF Waits, At
  <2>. QED  BY <2>5, <2>6 DEF Waiting
<1>6. ASSUME NEW c \in Subscriber, NEW u \in User, NEW b \in BackendRoom \cup {Home},
             Subscribe(c, u) \/ Join(c, u, b)
      PROVE  Waiting'
  <2>1. ASSUME NEW t, t \in TaskRec, CascadeTo(c, t), sub' = sub, 
               sub[c].on <=> ~t.new, sub[c].on => t.broom = sub[c].broom
        PROVE  Waiting'
    <3>1. /\ \A d \in Subscriber : d # c => task'[d] = task[d]
          /\ task'[c].new = t.new /\ task'[c].broom = t.broom
      <4>1. CASE task' = [task EXCEPT ![c] = [t EXCEPT !.pc = "ready"]]
        BY <1>0, <2>1, <4>1 DEF TaskRec
      <4>2. CASE task' = [task EXCEPT ![c] = [t EXCEPT !.pc = "lock", !.rp = pub[t.pub].remote]]
        BY <1>0, <2>1, <4>2 DEF TaskRec
      <4>3. ASSUME NEW n, SendsAdd(c, [t EXCEPT !.rp = n])
            PROVE  /\ \A d \in Subscriber : d # c => task'[d] = task[d]
                   /\ task'[c].new = t.new /\ task'[c].broom = t.broom
        <5>1. PICK r : task' = [task EXCEPT ![c] = [[t EXCEPT !.rp = n] EXCEPT !.pc = "add",
                                                                               !.resp = r]]
          BY <4>3 DEF SendsAdd
        <5>. QED  BY <1>0, <2>1, <5>1 DEF TaskRec
      <4>. QED  BY <2>1, <4>1, <4>2, <4>3 DEF CascadeTo
    <3>. QED  BY <1>0, <2>1, <3>1 DEF Waiting, Waits, At
  <2>2. CASE Join(c, u, b)
    <3>. DEFINE t == [NoTask EXCEPT !.user = u, !.pub = listed[u], !.broom = b, !.new = TRUE]
    <3>1. t \in TaskRec /\ t.new
      BY Types DEF NoTask, TaskRec, Typed
    <3>2. CascadeTo(c, t) /\ ~sub[c].on /\ sub' = sub
      BY <2>2 DEF Join
    <3>. HIDE DEF t
    <3>. QED  BY <2>1, <3>1, <3>2
  <2>3. CASE Subscribe(c, u)
    <3>. DEFINE t == [NoTask EXCEPT !.user = u, !.pub = listed[u], !.broom = sub[c].broom]
    <3>1. t \in TaskRec /\ ~t.new /\ t.broom = sub[c].broom
      BY <1>0, Types DEF NoTask, TaskRec, SubRec, Typed
    <3>2. CascadeTo(c, t) /\ sub[c].on /\ sub' = sub
      BY <2>3 DEF Subscribe
    <3>. HIDE DEF t
    <3>. QED  BY <2>1, <3>1, <3>2
  <2>. QED  BY <1>6, <2>2, <2>3
<1>7. ASSUME NEW c \in Subscriber,
             \/ Resume(c) \/ LockTimeout(c) \/ SubLeaves(c) \/ SubHangup(c)
             \/ \E u \in User : \/ Subscribe(c, u) \/ Unsubscribe(c, u) \/ Updated(c, u)
                                \/ \E b \in BackendRoom \cup {Home} : Join(c, u, b)
      PROVE  Waiting'
  BY <1>3, <1>4, <1>5, <1>6, <1>7 DEF Unsubscribe, Updated
<1>8. ASSUME NEW b \in BackendRoom, NewBackendRoom(b) \/ BackendRoomLost(b) PROVE Waiting'
  BY <1>1, <1>8 DEF NewBackendRoom, BackendRoomLost
<1>9. ASSUME NEW r \in Remote, TimePasses(r) \/ IdleCheck(r) PROVE Waiting'
  BY <1>1, <1>9 DEF TimePasses, IdleCheck
<1>. QED  BY <1>1, <1>2, <1>7, <1>8, <1>9 DEF Next, vars

-----------------------------------------------------------------------------
(* What a subscriber gets at the second server it gets of a remote publisher *)
(* there, and it has joined there or is about to. Whoever gets media over a  *)
(* remote publisher is counted there, already when its start is answered.    *)
Joining(c) == At(c, "join") /\ task[c].new /\ task[c].broom # Home

FedOK(c, u) == <<c, u>> \in janus.fed => /\ u \in janus.remote
                                         /\ (sub[c].on /\ sub[c].broom # Home) \/ Joining(c)

AddIsOk(c, r) == Answered(c, "add", "ok") /\ task[c].rp = r

Counting(r) == Running(r) \/ \E c \in Subscriber : AddIsOk(c, r)

CountOK(r, c) == Counting(r) /\ Watches(c, r) => c \in rp[r].subs

Counted == /\ \A c \in Subscriber, u \in User : FedOK(c, u)
           /\ \A r \in Remote, c \in Subscriber : CountOK(r, c)

LEMMA CountedInit == Init => Counted
BY DEF Init, Counted, FedOK, CountOK, Watches

-----------------------------------------------------------------------------
\* What a step may do that neither feeds nor counts anybody.
FedKept == \A c \in Subscriber, u \in User :
               <<c, u>> \in janus'.fed => <<c, u>> \in janus.fed /\ u \in janus'.remote

SubKept(c) == /\ sub'[c].on = sub[c].on /\ sub'[c].broom = sub[c].broom
              /\ \A u \in User : sub'[c].feeds[u] \in {sub[c].feeds[u], None}

JoinKept(c) == Joining(c) => Joining(c)' \/ \A u \in User : <<c, u>> \notin janus'.fed

CountKept(r) == Counting(r)' => \/ /\ Counting(r) /\ rp'[r].pub = rp[r].pub
                                   /\ rp[r].subs \subseteq rp'[r].subs
                                \/ \A c \in Subscriber : ~Watches(c, r)'

LEMMA CountingLive == 
    ASSUME Sound, NEW r \in Remote, Counting(r) PROVE Live(r) /\ rp[r].pub \in Publisher
BY DEF Sound, Tree, RemoteOK, TaskOK, Counting, AddIsOk, Running, Answered, At, Begins

LEMMA CountingLiveNext ==
    ASSUME Sound', NEW r \in Remote, Counting(r)'
    PROVE  ~rp'[r].destroyed /\ rp'[r].pub \in Publisher
<1>1. CASE Running(r)'
  BY <1>1 DEF Sound, Tree, RemoteOK, Running, Live
<1>2. ASSUME NEW c \in Subscriber, AddIsOk(c, r)' PROVE Live(r)'
  <2>1. TaskOK(c)' /\ task'[c].pc = "add" /\ task'[c].rp = r
    BY <1>2 DEF Sound, Tree, AddIsOk, Answered, At
  <2>. QED  BY <2>1 DEF TaskOK, Begins, Live
<1>3. Live(r)'
  BY <1>1, <1>2 DEF Counting, Running
<1>. QED  BY <1>3 DEF Live, Sound, Tree, RemoteOK

LEMMA CountedKept ==
    ASSUME Sound', Counted, FedKept, \A c \in Subscriber : SubKept(c) /\ JoinKept(c),
           \A r \in Remote : CountKept(r)
    PROVE  Counted'
<1>1. ASSUME NEW c \in Subscriber, NEW u \in User PROVE FedOK(c, u)'
  <2>. SUFFICES ASSUME <<c, u>> \in janus'.fed
                PROVE  /\ u \in janus'.remote
                       /\ (sub'[c].on /\ sub'[c].broom # Home) \/ Joining(c)'
    BY DEF FedOK
  <2>1. <<c, u>> \in janus.fed /\ u \in janus'.remote
    BY DEF FedKept
  <2>2. (sub[c].on /\ sub[c].broom # Home) \/ Joining(c)
    BY <2>1 DEF Counted, FedOK
  <2>. QED  BY <2>1, <2>2 DEF SubKept, JoinKept
<1>2. ASSUME NEW r \in Remote, NEW c \in Subscriber PROVE CountOK(r, c)'
  <2>. SUFFICES ASSUME Counting(r)', Watches(c, r)' PROVE c \in rp'[r].subs
    BY DEF CountOK
  <2>1. /\ Counting(r) /\ rp'[r].pub = rp[r].pub /\ rp[r].subs \subseteq rp'[r].subs
    BY DEF CountKept
  <2>2. rp'[r].pub # None
    BY CountingLiveNext, NoneApart
  <2>3. PICK u \in User : <<c, u>> \in janus'.fed /\ sub'[c].feeds[u] = rp'[r].pub
    BY DEF Watches
  <2>4. <<c, u>> \in janus.fed /\ sub[c].feeds[u] = rp[r].pub
    BY <2>1, <2>2, <2>3 DEF FedKept, SubKept
  <2>5. CountOK(r, c) /\ Watches(c, r)
    BY <2>4 DEF Counted, Watches
  <2>. QED  BY <2>1, <2>5 DEF CountOK
<1>. QED  BY <1>1, <1>2 DEF Counted

-----------------------------------------------------------------------------
LEMMA SameFed ==
    ASSUME Counted, janus'.fed = janus.fed, janus.remote \subseteq janus'.remote PROVE FedKept
BY DEF FedKept, Counted, FedOK

LEMMA UnfedKept == ASSUME Counted, NEW c, NEW U, janus' = Unfed(c, U) PROVE FedKept
BY DEF FedKept, Counted, FedOK, Unfed

\* Without() with whatever becomes of the forwards.
LEMMA WithoutKept ==
    ASSUME Typed, Counted, NEW U, NEW F, janus' = [Without(U) EXCEPT !.forward = F] PROVE FedKept
<1>1. Without(U) \in JanusRec /\ janus \in JanusRec
  BY WithoutType, Types DEF Typed
<1>2. /\ janus'.remote = janus.remote \ U
      /\ janus'.fed = {x \in janus.fed : x[2] \notin U}
  BY <1>1 DEF Without, JanusRec
<1>. QED  BY <1>2 DEF FedKept, Counted, FedOK

LEMMA SubSame == ASSUME sub' = sub, NEW c PROVE SubKept(c)
BY DEF SubKept

\* Nobody is counted before an answer or the end of a start.
LEMMA CountSame ==
    ASSUME NEW r \in Remote, \A c \in Subscriber : AddIsOk(c, r)' => AddIsOk(c, r),
           rp'[r].broom = rp[r].broom, rp'[r].destroyed = rp[r].destroyed,
           rp'[r].pub = rp[r].pub, rp[r].subs \subseteq rp'[r].subs
    PROVE  CountKept(r)
BY DEF CountKept, Counting, Running, Live

LEMMA CountEnds == ASSUME Sound', NEW r \in Remote, rp'[r].destroyed PROVE CountKept(r)
BY CountingLiveNext DEF CountKept

LEMMA DestroyRemoteCounts ==
    ASSUME Typed, Sound', Counted, NEW n \in Remote, NEW U, DestroyRemote(n, U),
           \A c \in Subscriber, r \in Remote : AddIsOk(c, r)' => AddIsOk(c, r)
    PROVE  FedKept /\ \A r \in Remote : CountKept(r)
<1>1. FedKept
  <2>1. \E F : janus' = [Without(U) EXCEPT !.forward = F]
    BY DEF DestroyRemote
  <2>. QED  BY <2>1, WithoutKept
<1>2. rp'[n].destroyed /\ \A r \in Remote : r # n => rp'[r] = rp[r]
  BY Types DEF Typed, DestroyRemote, Destroyed, NoRemote
<1>3. \A r \in Remote : CountKept(r)
  BY <1>2, CountSame, CountEnds
<1>. QED  BY <1>1, <1>3

LEMMA PublisherCounted ==
    ASSUME Typed, Tree, Sound', Counted, NEW p \in Publisher,
           \/ PubUp(p) \/ PubHangup(p) \/ PubLeaves(p) \/ \E u \in User : PubJoins(p, u)
    PROVE  Counted'
<1>1. task' = task
  BY DEF PubUp, PubHangup, PubLeaves, PubJoins
<1>2. \A c \in Subscriber : JoinKept(c)
  BY <1>1 DEF JoinKept, Joining, At
<1>3. \A r \in Remote : \A c \in Subscriber : AddIsOk(c, r)' => AddIsOk(c, r)
  BY <1>1 DEF AddIsOk, Answered, At
<1>4. CASE UNCHANGED <<rp, sub, janus>>
  <2>1. \A r \in Remote : CountKept(r)
    BY <1>3, <1>4, CountSame
  <2>. QED  BY <1>2, <1>4, <2>1, SameFed, SubSame, CountedKept
<1>5. CASE PubHangup(p) \/ PubLeaves(p)
  <2>1. FedKept
    <3>1. \E F : janus' = [Without(Removals(Children(p))) EXCEPT !.forward = F]
      BY <1>5 DEF PubHangup, PubLeaves
    <3>. QED  BY <3>1, WithoutKept
  <2>2. ASSUME NEW c \in Subscriber PROVE SubKept(c)
    <3>1. sub'[c] = IF c \in pub[p].subs THEN [sub[c] EXCEPT !.feeds[pub[p].user] = None]
                                         ELSE sub[c]
      BY <1>5 DEF PubHangup, PubLeaves, FeedLost
    <3>2. sub[c] \in SubRec
      BY Types DEF Typed
    <3>. QED  BY <3>1, <3>2 DEF SubKept, SubRec
  <2>3. ASSUME NEW r \in Remote PROVE CountKept(r)
    <3>1. rp'[r] = IF r \in Children(p) THEN Destroyed(rp[r]) ELSE rp[r]
      BY <1>5 DEF PubHangup, PubLeaves, DestroyAll
    <3>2. r \in Children(p) => rp'[r].destroyed
      BY <3>1 DEF Destroyed, NoRemote
    <3>. QED  BY <1>3, <3>1, <3>2, CountSame, CountEnds
  <2>. QED  BY <1>2, <2>1, <2>2, <2>3, CountedKept
<1>. QED  BY <1>4, <1>5 DEF PubUp, PubJoins

LEMMA ServerCounted ==
    ASSUME Typed, Sound', Counted,
           \/ \E b \in BackendRoom : NewBackendRoom(b) \/ BackendRoomLost(b)
           \/ \E r \in Remote : TimePasses(r) \/ IdleCheck(r)
    PROVE  Counted'
<1>1. task' = task /\ sub' = sub
  BY DEF NewBackendRoom, BackendRoomLost, TimePasses, IdleCheck
<1>2. \A c \in Subscriber : JoinKept(c) /\ SubKept(c)
  BY <1>1, SubSame DEF JoinKept, Joining, At
<1>3. \A c \in Subscriber, r \in Remote : AddIsOk(c, r)' => AddIsOk(c, r)
  BY <1>1 DEF AddIsOk, Answered, At
<1>4. ASSUME NEW b \in BackendRoom, NewBackendRoom(b) \/ BackendRoomLost(b) PROVE Counted'
  <2>1. janus' = janus \/ janus'.fed = {}
    BY <1>4, Types DEF NewBackendRoom, BackendRoomLost, Typed, JanusRec
  <2>2. FedKept
    BY <2>1, SameFed DEF FedKept
  <2>3. \A r \in Remote : CountKept(r)
    BY <1>3, <1>4, CountSame DEF NewBackendRoom, BackendRoomLost
  <2>. QED  BY <1>2, <2>2, <2>3, CountedKept
<1>5. ASSUME NEW n \in Remote, TimePasses(n) \/ IdleCheck(n) PROVE Counted'
  <2>1. CASE DestroyRemote(n, Removals({n}))
    BY <1>2, <1>3, <2>1, DestroyRemoteCounts, CountedKept
  <2>2. CASE ~DestroyRemote(n, Removals({n}))
    <3>1. janus' = janus /\ \E i : rp' = [rp EXCEPT ![n].idle = i]
      BY <1>5, <2>2 DEF TimePasses, IdleCheck
    <3>2. ASSUME NEW r \in Remote PROVE CountKept(r)
      <4>1. rp[r] \in RemoteRec
        BY Types DEF Typed
      <4>2. /\ rp'[r].broom = rp[r].broom /\ rp'[r].destroyed = rp[r].destroyed
            /\ rp'[r].pub = rp[r].pub /\ rp'[r].subs = rp[r].subs
        BY <3>1, <4>1, Types DEF Typed, RemoteRec
      <4>. QED  BY <1>3, <4>2, CountSame
    <3>. QED  BY <1>2, <3>1, <3>2, SameFed, CountedKept
  <2>. QED  BY <2>1, <2>2
<1>. QED  BY <1>4, <1>5

-----------------------------------------------------------------------------
\* The greenlet of c goes on and starts nothing.
LEMMA NoNewAdd ==
    ASSUME NEW c \in Subscriber, OneMoves(c), task'[c].pc # "add"
    PROVE  \A d \in Subscriber, r \in Remote : AddIsOk(d, r)' => AddIsOk(d, r)
BY DEF OneMoves, AddIsOk, Answered, At

LEMMA NotJoining ==
    ASSUME NEW c \in Subscriber, OneMoves(c), ~At(c, "join")
    PROVE  \A d \in Subscriber : JoinKept(d)
BY DEF OneMoves, JoinKept, Joining, At

(* add_remote_publisher is sent: if it will be answered with ok then nobody  *)
(* gets anything of that user yet.                                           *)
LEMMA SendsAddCounted ==
    ASSUME Sound, Sound', Feeds, Counted, NEW c \in Subscriber, NEW t \in TaskRec,
           t.pub \in Publisher, t.rp \in Remote, pub[t.pub].user = t.user, SendsAdd(c, t),
           sub' = sub, ~At(c, "join"), rp'[t.rp].pub = t.pub,
           \A r \in Remote : r # t.rp => rp'[r] = rp[r]
    PROVE  Counted'
<1>1. PICK r : /\ r \in Answers(IF t.user \in janus.remote THEN "exists" ELSE "ok")
               /\ janus' \in Effects(r, "ok", [janus EXCEPT !.remote = @ \cup {t.user}], janus)
               /\ task' = [task EXCEPT ![c] = [t EXCEPT !.pc = "add", !.resp = r]]
  BY DEF SendsAdd
<1>2. janus'.fed = janus.fed /\ janus.remote \subseteq janus'.remote
  <2>1. janus' = [janus EXCEPT !.remote = @ \cup {t.user}] \/ janus' = janus
    BY <1>1, EffectsOne
  <2>. QED  BY <2>1, Types DEF Sound, Typed, JanusRec
<1>3. /\ task'[c].pc = "add" /\ task'[c].rp = t.rp /\ task'[c].resp = r /\ OneMoves(c)
  BY <1>1, Types DEF Sound, Typed, TaskRec, OneMoves
<1>4. ASSUME NEW n \in Remote PROVE CountKept(n)
  <2>1. CASE n # t.rp
    <3>1. ASSUME NEW d \in Subscriber, AddIsOk(d, n)' PROVE AddIsOk(d, n)
      BY <1>3, <2>1, <3>1 DEF AddIsOk, Answered, At, OneMoves
    <3>. QED  BY <2>1, <3>1, CountSame
  <2>2. CASE n = t.rp
    <3>. SUFFICES ASSUME Counting(n)', NEW d \in Subscriber, Watches(d, n)' PROVE FALSE
      BY DEF CountKept
    <3>1. TaskOK(c)' /\ Begins(c)' /\ Builds(c)'
      BY <1>3 DEF Sound, Tree, Begins, Builds
    <3>2. ~Running(n)'
      BY <1>3, <2>2, <3>1 DEF TaskOK, Running, Live
    <3>3. PICK x \in Subscriber : AddIsOk(x, n)'
      BY <3>2 DEF Counting
    <3>4. x = c
      <4>1. Builds(x)' /\ task'[x].rp = task'[c].rp
        BY <1>3, <2>2, <3>3 DEF AddIsOk, Answered, At, Builds
      <4>. QED  BY <3>1, <4>1 DEF TaskOK
    <3>5. r = "ok"
      BY <1>3, <3>3, <3>4 DEF AddIsOk, Answered
    <3>6. t.user \notin janus.remote
      BY <1>1, <3>5 DEF Answers
    <3>7. PICK u \in User : <<d, u>> \in janus.fed /\ sub[d].feeds[u] = t.pub
      BY <1>2, <2>2 DEF Watches
    <3>8. u = t.user
      BY <3>7, NoneApart DEF Feeds, FeedOK
    <3>9. u \in janus.remote
      BY <3>7 DEF Counted, FedOK
    <3>. QED  BY <3>6, <3>8, <3>9
  <2>. QED  BY <2>1, <2>2
<1>5. \A d \in Subscriber : JoinKept(d) /\ SubKept(d)
  BY <1>3, NotJoining, SubSame
<1>. QED  BY <1>2, <1>4, <1>5, SameFed, CountedKept

LEMMA CascadeToCounted ==
    ASSUME Sound, Sound', Feeds, Counted, NEW c \in Subscriber, NEW t \in TaskRec,
           At(c, "idle"), t.pub \in Publisher, pub[t.pub].user = t.user, CascadeTo(c, t), sub' = sub
    PROVE  Counted'
<1>0. task \in [Subscriber -> TaskRec] /\ rp \in [Remote -> RemoteRec]
  BY Types DEF Sound, Typed
<1>1. ASSUME UNCHANGED <<rp, janus>>, OneMoves(c), task'[c].pc # "add" PROVE Counted'
  <2>1. \A d \in Subscriber : JoinKept(d) /\ SubKept(d)
    BY <1>1, NotJoining, SubSame DEF At
  <2>2. \A r \in Remote : CountKept(r)
    BY <1>1, NoNewAdd, CountSame
  <2>. QED  BY <1>1, <2>1, <2>2, SameFed, CountedKept
<1>2. CASE task' = [task EXCEPT ![c] = [t EXCEPT !.pc = "ready"]] /\ UNCHANGED <<rp, janus>>
  BY <1>0, <1>1, <1>2 DEF TaskRec, OneMoves
<1>3. CASE /\ task' = [task EXCEPT ![c] = [t EXCEPT !.pc = "lock", !.rp = pub[t.pub].remote]]
           /\ UNCHANGED <<rp, janus>>
  BY <1>0, <1>1, <1>3 DEF TaskRec, OneMoves
<1>4. ASSUME NEW n \in Remote,
             rp' = [rp EXCEPT ![n] = [NoRemote EXCEPT !.pub = t.pub, !.destroyed = FALSE]],
             SendsAdd(c, [t EXCEPT !.rp = n])
      PROVE  Counted'
  <2>. DEFINE x == [t EXCEPT !.rp = n]
  <2>1. x \in TaskRec /\ x.pub = t.pub /\ x.rp = n /\ x.user = t.user
    BY DEF TaskRec
  <2>2. SendsAdd(c, x)
    BY <1>4
  <2>. HIDE DEF x
  <2>3. rp'[n].pub = t.pub /\ \A r \in Remote : r # n => rp'[r] = rp[r]
    BY <1>0, <1>4 DEF NoRemote
  <2>. QED  BY <2>1, <2>2, <2>3, SendsAddCounted DEF At
<1>. QED  BY <1>2, <1>3, <1>4 DEF CascadeTo

LEMMA JoinCounted ==
    ASSUME Sound, Sound', Feeds, Counted, NEW c \in Subscriber, NEW u \in User,
           Subscribe(c, u) \/ \E b \in BackendRoom \cup {Home} : Join(c, u, b)
    PROVE  Counted'
<1>1. listed[u] \in Publisher /\ pub[listed[u]].user = u
  BY Types DEF Sound, Typed, Tree, ListedOK, Subscribe, Join
<1>2. ASSUME NEW b \in BackendRoom \cup {Home}, Join(c, u, b) PROVE Counted'
  <2>. DEFINE t == [NoTask EXCEPT !.user = u, !.pub = listed[u], !.broom = b, !.new = TRUE]
  <2>1. t \in TaskRec /\ t.pub = listed[u] /\ t.user = u
    BY <1>1 DEF NoTask, TaskRec
  <2>2. CascadeTo(c, t) /\ At(c, "idle") /\ sub' = sub
    BY <1>2 DEF Join
  <2>. HIDE DEF t
  <2>. QED  BY <1>1, <2>1, <2>2, CascadeToCounted
<1>3. CASE Subscribe(c, u)
  <2>. DEFINE t == [NoTask EXCEPT !.user = u, !.pub = listed[u], !.broom = sub[c].broom]
  <2>1. sub[c].broom \in BackendRoom \cup {Home}
    BY <1>3 DEF Subscribe, Placed, Sound
  <2>2. t \in TaskRec /\ t.pub = listed[u] /\ t.user = u
    BY <1>1, <2>1 DEF NoTask, TaskRec
  <2>3. CascadeTo(c, t) /\ At(c, "idle") /\ sub' = sub
    BY <1>3 DEF Subscribe
  <2>. HIDE DEF t
  <2>. QED  BY <1>1, <2>2, <2>3, CascadeToCounted
<1>. QED  BY <1>2, <1>3

LEMMA StartCounted ==
    ASSUME Sound, Sound', Feeds, Waiting, Counted, NEW c \in Subscriber,
           \/ LockGot(c) \/ LockTimeout(c) \/ Added(c) \/ AddAgain(c) \/ AddFails(c)
           \/ Forwarded(c) \/ ForwardFails(c)
    PROVE  Counted'
<1>0. /\ Typed /\ task[c] \in TaskRec /\ rp \in [Remote -> RemoteRec] /\ janus \in JanusRec
      /\ task \in [Subscriber -> TaskRec]
  BY Types DEF Sound, Typed
<1>1. OneMoves(c) /\ sub' = sub /\ ~At(c, "join")
  BY <1>0, Requests DEF LockGot, LockTimeout, Added, AddAgain, AddFails, Forwarded, ForwardFails,
                        Joined, Answered, At
<1>2. \A d \in Subscriber : JoinKept(d) /\ SubKept(d)
  BY <1>1, NotJoining, SubSame
<1>3. ASSUME UNCHANGED <<rp, janus>>, task'[c].pc # "add" PROVE Counted'
  BY <1>1, <1>2, <1>3, NoNewAdd, CountSame, SameFed, CountedKept
<1>f. Finish(c) => task'[c].pc # "add"
  BY <1>0 DEF Finish, NoTask
<1>4. ASSUME NEW n \in Remote, NEW U, DestroyRemote(n, U), Finish(c) PROVE Counted'
  BY <1>0, <1>1, <1>2, <1>4, <1>f, NoNewAdd, DestroyRemoteCounts, CountedKept
<1>5. CASE LockGot(c)
  BY <1>0, <1>3, <1>5, <1>f DEF LockGot, TaskRec
<1>6. CASE LockTimeout(c)
  BY <1>3, <1>6, <1>f DEF LockTimeout
<1>7. CASE Forwarded(c)
  BY <1>0, <1>3, <1>7 DEF Forwarded, TaskRec
<1>8. CASE AddFails(c)
  <2>1. task[c].rp \in Remote
    BY <1>0, <1>8 DEF AddFails, Typed, Shapes, TaskShape
  <2>. QED  BY <1>4, <1>8, <2>1 DEF AddFails
<1>9. CASE ForwardFails(c)
  <2>1. task[c].rp \in Remote
    BY <1>0, <1>9 DEF ForwardFails, Answered, At, Typed, Shapes, TaskShape
  <2>. QED  BY <1>3, <1>4, <1>9, <1>f, <2>1 DEF ForwardFails
<1>10. CASE AddAgain(c)
  <2>0. /\ task[c].rp \in Remote /\ task[c].pub \in Publisher
        /\ pub[task[c].pub].user = task[c].user /\ rp[task[c].rp].pub = task[c].pub
    BY <1>10 DEF AddAgain, Answered, At, Sound, Typed, Shapes, TaskShape, Tree, TaskOK, Begins
  <2>1. ASSUME NEW r, janus' \in Effects(r, "ok", Without({task[c].user}), janus),
               task' = [task EXCEPT ![c].pc = "remove", ![c].resp = r], rp' = rp
        PROVE  Counted'
    <3>1. FedKept
      <4>1. janus' = janus => FedKept
        BY SameFed
      <4>2. Without({task[c].user})
              = [Without({task[c].user}) EXCEPT !.forward = Without({task[c].user}).forward]
        BY <1>0, WithoutType DEF Typed, JanusRec
      <4>3. janus' = Without({task[c].user}) => FedKept
        BY <1>0, <4>2, WithoutKept
      <4>. QED  BY <2>1, <4>1, <4>3, EffectsOne
    <3>2. task'[c].pc # "add"
      BY <1>0, <2>1 DEF TaskRec
    <3>. QED  BY <1>1, <1>2, <2>1, <3>1, <3>2, NoNewAdd, CountSame, CountedKept
  <2>2. ASSUME SendsAdd(c, task[c]), rp' = rp PROVE Counted'
    BY <1>0, <1>1, <2>0, <2>2, SendsAddCounted
  <2>. QED  BY <1>10, <2>1, <2>2 DEF AddAgain
<1>11. CASE Added(c)
  <2>0. task[c].rp \in Remote /\ AddIsOk(c, task[c].rp)
    BY <1>0, <1>11 DEF Added, Answered, At, Typed, Shapes, TaskShape, AddIsOk
  <2>1. ASSUME rp' = [rp EXCEPT ![task[c].rp].broom = task[c].broom, ![task[c].rp].parent = TRUE],
               NEW r, task' = [task EXCEPT ![c].pc = "forward", ![c].resp = r],
               janus' \in Effects(r, "ok", [janus EXCEPT !.forward = @ \cup {task[c].pub}], janus)
        PROVE  Counted'
    <3>1. janus'.fed = janus.fed /\ janus'.remote = janus.remote
      <4>1. janus' = [janus EXCEPT !.forward = @ \cup {task[c].pub}] \/ janus' = janus
        BY <2>1, EffectsOne
      <4>. QED  BY <1>0, <4>1 DEF JanusRec
    <3>2. task'[c].pc # "add"
      BY <1>0, <2>1 DEF TaskRec
    <3>3. ASSUME NEW n \in Remote PROVE CountKept(n)
      <4>1. rp[n] \in RemoteRec
        BY <1>0
      <4>2. rp'[n].pub = rp[n].pub /\ rp'[n].subs = rp[n].subs
        BY <1>0, <2>1, <4>1 DEF RemoteRec
      <4>3. CASE n = task[c].rp
        BY <2>0, <4>2, <4>3 DEF CountKept, Counting
      <4>4. CASE n # task[c].rp
        BY <1>0, <1>1, <2>1, <3>2, <4>4, NoNewAdd, CountSame
      <4>. QED  BY <4>3, <4>4
    <3>. QED  BY <1>2, <3>1, <3>3, SameFed, CountedKept
  <2>. QED  BY <1>4, <1>11, <2>0, <2>1 DEF Added
<1>. QED  BY <1>5, <1>6, <1>7, <1>8, <1>9, <1>10, <1>11

-----------------------------------------------------------------------------
LEMMA JoinFailsCounted ==
    ASSUME Sound, Sound', Counted, NEW c \in Subscriber, JoinFails(c) PROVE Counted'
<1>1. OneMoves(c) /\ sub' = sub /\ rp' = rp /\ task'[c].pc = "idle"
  BY Types DEF JoinFails, OneMoves, Finish, NoTask, Sound, Typed
<1>2. janus \in JanusRec
  BY Types DEF Sound, Typed
<1>3. FedKept
  BY SameFed, UnfedKept DEF JoinFails
<1>4. ASSUME NEW d \in Subscriber PROVE JoinKept(d)
  <2>1. CASE d = c
    <3>1. task[c].new => \A u \in User : <<c, u>> \notin janus'.fed
      BY <1>2 DEF JoinFails, Unfed, JanusRec
    <3>. QED  BY <2>1, <3>1 DEF JoinKept, Joining
  <2>2. CASE d # c
    BY <1>1, <2>2 DEF JoinKept, Joining, At, OneMoves
  <2>. QED  BY <2>1, <2>2
<1>. QED  BY <1>1, <1>3, <1>4, NoNewAdd, CountSame, SubSame, CountedKept

LEMMA AskCounted ==
    ASSUME Sound, Sound', Feeds, Waiting, Counted, NEW c \in Subscriber, Ask(c) PROVE Counted'
<1>0. /\ Typed /\ task[c] \in TaskRec /\ janus \in JanusRec /\ task \in [Subscriber -> TaskRec]
      /\ sub \in [Subscriber -> SubRec]
  BY Types DEF Sound, Typed
<1>1. OneMoves(c) /\ sub' = sub /\ rp' = rp /\ At(c, "ready")
  BY <1>0, Requests DEF Ask, Joined, Answered, At
<1>2. \/ Finish(c) /\ janus' = janus
      \/ \E r : /\ task' = [task EXCEPT ![c].pc = "join", ![c].resp = r]
                /\ task[c].new \/ sub[c].on
                /\ \/ janus' = janus
                   \/ /\ janus' = [janus EXCEPT !.fed = @ \cup {<<c, task[c].user>>}]
                      /\ task[c].broom # Home /\ task[c].user \in janus.remote
  BY EffectsOne DEF Ask
<1>3. task'[c].pc \in {"join", "idle"}
  BY <1>0, <1>2 DEF Finish, NoTask, TaskRec
<1>4. \A r \in Remote : Counting(r)' => Counting(r)
  BY <1>1, <1>3, NoNewAdd DEF Counting, Running, Live
<1>5. CASE janus' = janus
  <2>1. \A d \in Subscriber : JoinKept(d) /\ SubKept(d)
    BY <1>1, NotJoining, SubSame DEF At
  <2>2. \A r \in Remote : CountKept(r)
    BY <1>1, <1>3, NoNewAdd, CountSame
  <2>. QED  BY <1>5, <2>1, <2>2, SameFed, CountedKept
<1>6. CASE janus' # janus
  <2>1. /\ janus'.fed = janus.fed \cup {<<c, task[c].user>>} /\ janus'.remote = janus.remote
        /\ task[c].broom # Home /\ task[c].user \in janus.remote
        /\ task[c].new \/ sub[c].on
        /\ task'[c].pc = "join" /\ task'[c].new = task[c].new /\ task'[c].broom = task[c].broom
    BY <1>0, <1>2, <1>6 DEF JanusRec, TaskRec
  <2>2. Waits(c) /\ ~At(c, "idle") /\ \A u \in User : ~FeedEnded(c, u)
    BY <1>1 DEF Waiting, Ask, At
  <2>3. ASSUME NEW d \in Subscriber, NEW u \in User PROVE FedOK(d, u)'
    <3>1. FedOK(d, u)
      BY DEF Counted
    <3>2. CASE <<d, u>> = <<c, task[c].user>>
      <4>1. task[c].new \/ (sub[c].on /\ sub[c].broom # Home)
        BY <2>1, <2>2 DEF Waits
      <4>. QED  BY <1>1, <2>1, <3>2, <4>1 DEF FedOK, Joining, At
    <3>3. CASE <<d, u>> # <<c, task[c].user>>
      <4>1. <<d, u>> \in janus'.fed => <<d, u>> \in janus.fed
        BY <2>1, <3>3
      <4>2. Joining(d) => Joining(d)'
        BY <1>1 DEF Joining, At, OneMoves
      <4>. QED  BY <1>1, <2>1, <3>1, <4>1, <4>2 DEF FedOK
    <3>. QED  BY <3>2, <3>3
  <2>4. ASSUME NEW r \in Remote, NEW d \in Subscriber PROVE CountOK(r, d)'
    <3>. SUFFICES ASSUME Counting(r)', Watches(d, r)' PROVE d \in rp'[r].subs
      BY DEF CountOK
    <3>1. Counting(r) /\ rp[r].pub # None /\ CountOK(r, d)
      BY <1>4, CountingLive, NoneApart DEF Counted
    <3>2. PICK u \in User : <<d, u>> \in janus'.fed /\ sub[d].feeds[u] = rp[r].pub
      BY <1>1 DEF Watches
    <3>3. <<d, u>> \in janus.fed
      <4>. SUFFICES ASSUME <<d, u>> \notin janus.fed PROVE FALSE
        OBVIOUS
      <4>1. d = c
        BY <2>1, <3>2
      <4>2. sub[c].on /\ sub[c].broom # Home
        BY <2>1, <2>2, <3>1, <3>2, <4>1 DEF Waits
      <4>. QED  BY <2>2, <3>1, <3>2, <4>1, <4>2 DEF FeedEnded
    <3>. QED  BY <1>1, <3>1, <3>2, <3>3 DEF CountOK, Watches
  <2>. QED  BY <2>3, <2>4 DEF Counted
<1>. QED  BY <1>5, <1>6

LEMMA JoinedCounted ==
    ASSUME Sound, Sound', Feeds, Waiting, Counted, NEW c \in Subscriber, Joined(c) PROVE Counted'
<1>. DEFINE takes == /\ task[c].new \/ sub[c].on
                     /\ listed[task[c].user] # None /\ sub[c].feeds[task[c].user] = None
<1>0. /\ task[c].user \in User /\ sub[c].feeds \in [User -> Publisher \cup {None}]
      /\ listed[task[c].user] \in Publisher \cup {None} /\ sub \in [Subscriber -> SubRec]
      /\ rp \in [Remote -> RemoteRec] /\ Typed /\ task \in [Subscriber -> TaskRec]
      /\ \A r \in Remote : rp[r] \in RemoteRec
  BY Types DEF Sound, Typed, Shapes, TaskShape, Joined, Answered, At
<1>. PICK u \in User, p \in Publisher \cup {None} : u = task[c].user /\ p = listed[u]
  BY <1>0
<1>1. /\ \A d \in Subscriber : d # c => sub'[d] = sub[d]
      /\ IF task[c].new \/ sub[c].on
         THEN sub'[c].on /\ sub'[c].broom = task[c].broom
         ELSE sub'[c] = sub[c]
      /\ \A v \in User : sub'[c].feeds[v] = IF takes /\ v = u THEN p ELSE sub[c].feeds[v]
  <2>. DEFINE f == [sub[c].feeds EXCEPT ![u] = IF takes THEN p ELSE @]
  <2>1. sub' = IF task[c].new \/ sub[c].on
               THEN [sub EXCEPT ![c] = [on |-> TRUE, broom |-> task[c].broom, feeds |-> f]]
               ELSE sub
    BY DEF Joined
  <2>2. \A v \in User : f[v] = IF takes /\ v = u THEN p ELSE sub[c].feeds[v]
    BY <1>0
  <2>. HIDE DEF f
  <2>. QED  BY <1>0, <2>1, <2>2
<1>2. \A r \in Remote : rp'[r] = IF takes /\ r \in Via(c, p, task[c].broom)
                                 THEN Using(rp[r], c) ELSE rp[r]
  BY DEF Joined
<1>3. takes => /\ task[c].new \/ sub[c].on
               /\ p \in Publisher /\ pub[p].user = u /\ ~pub[p].gone
  BY <1>0 DEF Sound, Tree, ListedOK
<1>. HIDE DEF takes
<1>4. /\ janus' = janus /\ OneMoves(c) /\ task'[c].pc = "idle" /\ Waits(c) /\ At(c, "join")
  BY <1>0, Requests DEF Joined, Finish, NoTask, Waiting, Answered, At
<1>5. \A r \in Remote : /\ rp'[r].pub = rp[r].pub /\ rp'[r].broom = rp[r].broom
                        /\ rp'[r].destroyed = rp[r].destroyed /\ rp[r].subs \subseteq rp'[r].subs
                        /\ takes /\ r \in Via(c, p, task[c].broom) => c \in rp'[r].subs
  <2>1. ASSUME NEW r \in Remote
        PROVE  SameRemote(rp[r], Using(rp[r], c)) /\ Using(rp[r], c).subs = rp[r].subs \cup {c}
    <3>1. rp[r] \in RemoteRec
      BY <1>0
    <3>. QED  BY <3>1, UsingSame DEF Using, RemoteRec
  <2>. QED  BY <1>2, <2>1 DEF SameRemote
<1>6. \A r \in Remote : Counting(r)' => Counting(r)
  BY <1>4, <1>5, NoNewAdd DEF Counting, Running, Live
<1>7. ASSUME NEW v \in User, <<c, v>> \in janus.fed
      PROVE  task[c].broom # Home /\ (task[c].new \/ sub[c].on)
  BY <1>4, <1>7 DEF Counted, FedOK, Joining, Waits, At
<1>8. ASSUME NEW d \in Subscriber, NEW v \in User PROVE FedOK(d, v)'
  <2>1. FedOK(d, v)
    BY DEF Counted
  <2>2. CASE d = c
    BY <1>1, <1>4, <1>7, <2>1, <2>2 DEF FedOK
  <2>3. CASE d # c
    BY <1>1, <1>4, <2>1, <2>3 DEF FedOK, Joining, At, OneMoves
  <2>. QED  BY <2>2, <2>3
<1>9. ASSUME NEW r \in Remote, NEW d \in Subscriber PROVE CountOK(r, d)'
  <2>. SUFFICES ASSUME Counting(r)', Watches(d, r)' PROVE d \in rp'[r].subs
    BY DEF CountOK
  <2>1. Counting(r) /\ CountOK(r, d) /\ Live(r) /\ rp[r].pub \in Publisher
    BY <1>6, CountingLive DEF Counted
  <2>2. PICK v \in User : <<d, v>> \in janus.fed /\ sub'[d].feeds[v] = rp[r].pub
    BY <1>4, <1>5 DEF Watches
  <2>3. CASE sub[d].feeds[v] = rp[r].pub
    BY <1>5, <2>1, <2>2, <2>3 DEF CountOK, Watches
  <2>4. CASE sub[d].feeds[v] # rp[r].pub
    <3>1. d = c /\ takes /\ v = u /\ p = rp[r].pub
      BY <1>1, <2>2, <2>4
    <3>2. pub[p].remote = r
      <4>1. CASE Running(r)
        BY <2>1, <3>1, <4>1 DEF Sound, Tree, RemoteOK, Running
      <4>2. ASSUME NEW x \in Subscriber, AddIsOk(x, r) PROVE pub[p].remote = r
        <5>1. TaskOK(x) /\ Begins(x) /\ task[x].rp = r
          BY <4>2 DEF Sound, Tree, AddIsOk, Answered, At, Begins
        <5>. QED  BY <1>3, <3>1, <5>1 DEF TaskOK
      <4>. QED  BY <2>1, <4>1, <4>2 DEF Counting
    <3>3. r \in Via(c, p, task[c].broom)
      BY <1>7, <2>2, <3>1, <3>2, NoneApart DEF Via
    <3>. QED  BY <1>5, <3>1, <3>3
  <2>. QED  BY <2>3, <2>4
<1>. QED  BY <1>8, <1>9 DEF Counted

LEMMA DroppedCounted ==
    ASSUME Sound, Sound', Feeds, Counted, NEW c \in Subscriber, NEW U, U \subseteq User,
           DropFeeds(c, U), janus' = Unfed(c, U), task' = task,
           \A d \in Subscriber : d # c => sub'[d] = sub[d],
           \A u \in User : sub'[c].feeds[u] = IF u \in U THEN None ELSE sub[c].feeds[u],
           U = User \/ (sub'[c].on = sub[c].on /\ sub'[c].broom = sub[c].broom)
    PROVE  Counted'
<1>0. janus \in JanusRec /\ \A r \in Remote : rp[r] \in RemoteRec
  BY Types DEF Sound, Typed
<1>1. /\ janus'.remote = janus.remote
      /\ \A d \in Subscriber, u \in User :
           <<d, u>> \in janus'.fed => <<d, u>> \in janus.fed /\ ~(d = c /\ u \in U)
  BY <1>0 DEF Unfed, JanusRec
<1>. DEFINE R == UNION {Via(c, q, sub[c].broom) : q \in {sub[c].feeds[u] : u \in U} \ {None}}
<1>2. ASSUME NEW r \in Remote
      PROVE  /\ rp'[r].pub = rp[r].pub /\ rp'[r].broom = rp[r].broom
             /\ rp'[r].destroyed = rp[r].destroyed
             /\ \A d \in rp[r].subs : (d = c => r \notin R) => d \in rp'[r].subs
  <2>1. rp'[r] = IF r \in R THEN Unused(rp[r], c) ELSE rp[r]
    BY DEF DropFeeds
  <2>2. SameRemote(rp[r], Unused(rp[r], c)) /\ Unused(rp[r], c).subs = rp[r].subs \ {c}
    <3>1. rp[r] \in RemoteRec
      BY <1>0
    <3>. QED  BY <3>1, UsingSame DEF Unused, RemoteRec
  <2>. HIDE DEF R
  <2>. QED  BY <2>1, <2>2 DEF SameRemote
<1>3. ASSUME NEW r \in R PROVE \E u \in U : /\ sub[c].feeds[u] # None
                                            /\ pub[sub[c].feeds[u]].remote = r /\ r # None
  BY DEF Via
<1>. HIDE DEF R
<1>4. \A r \in Remote : Counting(r)' => Counting(r)
  BY <1>2 DEF Counting, Running, Live, AddIsOk, Answered, At
<1>5. ASSUME NEW d \in Subscriber, NEW u \in User PROVE FedOK(d, u)'
  <2>1. FedOK(d, u) /\ (Joining(d) => Joining(d)')
    BY DEF Counted, Joining, At
  <2>2. CASE d = c
    BY <1>1, <2>1, <2>2 DEF FedOK
  <2>3. CASE d # c
    BY <1>1, <2>1, <2>3 DEF FedOK
  <2>. QED  BY <2>2, <2>3
<1>6. ASSUME NEW r \in Remote, NEW d \in Subscriber PROVE CountOK(r, d)'
  <2>. SUFFICES ASSUME Counting(r)', Watches(d, r)' PROVE d \in rp'[r].subs
    BY DEF CountOK
  <2>1. Counting(r) /\ CountOK(r, d) /\ rp[r].pub # None
    BY <1>4, CountingLive, NoneApart DEF Counted
  <2>2. PICK u \in User : <<d, u>> \in janus'.fed /\ sub'[d].feeds[u] = rp[r].pub
    BY <1>2 DEF Watches
  <2>3. <<d, u>> \in janus.fed /\ sub[d].feeds[u] = rp[r].pub /\ (d = c => u \notin U)
    BY <1>1, <2>2
  <2>4. d \in rp[r].subs
    BY <2>1, <2>3 DEF CountOK, Watches
  <2>5. ASSUME d = c, r \in R PROVE FALSE
    <3>1. PICK v \in U : sub[c].feeds[v] # None /\ pub[sub[c].feeds[v]].remote = r /\ r # None
      BY <1>3, <2>5
    <3>2. sub[c].feeds[v] \in Publisher
      BY <3>1, Types DEF Sound, Typed
    <3>3. rp[r].pub = sub[c].feeds[v]
      BY <3>1, <3>2 DEF Sound, Tree, PubOK
    <3>4. u = v
      BY <2>3, <2>5, <3>1, <3>3 DEF Feeds, FeedOK
    <3>. QED  BY <2>3, <2>5, <3>4
  <2>. QED  BY <1>2, <2>4, <2>5
<1>. QED  BY <1>5, <1>6 DEF Counted

LEMMA SubEndsCounted ==
    ASSUME Sound, Sound', Feeds, Counted, NEW c \in Subscriber,
           SubHangup(c) \/ SubLeaves(c) \/ \E u \in User : FeedDropped(c, u)
    PROVE  Counted'
<1>0. sub[c] \in SubRec /\ sub \in [Subscriber -> SubRec]
  BY Types DEF Sound, Typed
<1>1. CASE SubHangup(c) \/ SubLeaves(c)
  <2>1. /\ \A d \in Subscriber : d # c => sub'[d] = sub[d]
        /\ \A u \in User : sub'[c].feeds[u] = None
    BY <1>0, <1>1 DEF SubHangup, SubLeaves, NoSub, SubRec
  <2>2. DropFeeds(c, User) /\ janus' = Unfed(c, User) /\ task' = task
    BY <1>1 DEF SubHangup, SubLeaves
  <2>. QED  BY <2>1, <2>2, DroppedCounted
<1>2. ASSUME NEW u \in User, FeedDropped(c, u) PROVE Counted'
  <2>1. /\ \A d \in Subscriber : d # c => sub'[d] = sub[d]
        /\ \A v \in User : sub'[c].feeds[v] = IF v \in {u} THEN None ELSE sub[c].feeds[v]
        /\ sub'[c].on = sub[c].on /\ sub'[c].broom = sub[c].broom
    BY <1>0, <1>2 DEF FeedDropped, SubRec
  <2>2. DropFeeds(c, {u}) /\ janus' = Unfed(c, {u}) /\ task' = task
    BY <1>2 DEF FeedDropped
  <2>. QED  BY <2>1, <2>2, DroppedCounted
<1>. QED  BY <1>1, <1>2

-----------------------------------------------------------------------------
\* The inductive invariant with feeds and counts.
Cared == Sound /\ Feeds /\ Waiting /\ Counted

LEMMA CountedStep == Cared /\ Sound' /\ [Next]_vars => Counted'
<1>. SUFFICES ASSUME Sound, Sound', Feeds, Waiting, Counted, [Next]_vars PROVE Counted'
  BY DEF Cared
<1>t. Typed /\ Tree
  BY DEF Sound
<1>1. CASE UNCHANGED vars
  BY <1>1 DEF vars, Counted, FedOK, CountOK, Joining, Counting, Running, Live, AddIsOk, Answered,
              At, Watches
<1>2. ASSUME NEW p \in Publisher,
             \/ PubUp(p) \/ PubHangup(p) \/ PubLeaves(p) \/ \E u \in User : PubJoins(p, u)
      PROVE  Counted'
  BY <1>t, <1>2, PublisherCounted
<1>3. ASSUME NEW c \in Subscriber, Resume(c) \/ LockTimeout(c) PROVE Counted'
  BY <1>3, StartCounted, AskCounted, JoinedCounted, JoinFailsCounted DEF Resume
<1>4. ASSUME NEW c \in Subscriber,
             \/ SubLeaves(c) \/ SubHangup(c)
             \/ \E u \in User : \/ Subscribe(c, u) \/ Unsubscribe(c, u) \/ Updated(c, u)
                                \/ \E b \in BackendRoom \cup {Home} : Join(c, u, b)
      PROVE  Counted'
  BY <1>4, SubEndsCounted, JoinCounted DEF Unsubscribe, Updated
<1>. QED  BY <1>t, <1>1, <1>2, <1>3, <1>4, ServerCounted DEF Next

LEMMA CaredHolds == Spec => []Cared
<1>1. Init => Feeds /\ Waiting /\ Counted
  BY FeedsInit, WaitingInit, CountedInit
<1>2. Sound /\ Sound' /\ Feeds /\ Waiting /\ Counted /\ [Next]_vars
        => Feeds' /\ Waiting' /\ Counted'
  BY FeedsStep, WaitingStep, CountedStep DEF Cared, Sound
<1>3. Sound /\ Feeds /\ Waiting /\ Counted <=> Cared
  BY DEF Cared
<1>. QED  BY <1>1, <1>2, <1>3, SoundHolds, PTL DEF Spec

(* Who gets the media of a publisher over a running remote publisher is      *)
(* among its subscribers, so that _check_idle() does not find it idle.       *)
THEOREM WatchedIsCountedHolds == Spec => []WatchedIsCounted
<1>1. Cared => WatchedIsCounted
  BY DEF Cared, Counted, CountOK, Counting, WatchedIsCounted
<1>. QED  BY <1>1, CaredHolds, PTL

-----------------------------------------------------------------------------
(* Proxy and server. No request has its effect after it was given up, and an *)
(* id is not used again while somebody waits for its last owner.             *)
NoDrift == Faults \cap {"timeout", "rejoin"} = {}

Valid(b) == broom[b] = "valid"

\* Who waits waits for the one publisher of its id, and one greenlet starts one.
AsksFor(c) == ~At(c, "idle") =>
    /\ listed[task[c].user] \in {None, task[c].pub}
    /\ task[c].pc # "remove" /\ task[c].resp # "exists"
    /\ \A d \in Subscriber :
         /\ ~At(d, "idle") /\ task[d].user = task[c].user => task[d].pub = task[c].pub
         /\ Begins(c) /\ Begins(d) /\ task[d].pub = task[c].pub => d = c

\* The proxy knows of a remote publisher of u at the valid backend room.
Runs(r, u) == Running(r) /\ Valid(rp[r].broom) /\ pub[rp[r].pub].user = u
Adds(c, u) == Answered(c, "add", "ok") /\ Valid(task[c].broom) /\ task[c].user = u
There(u) == (\E r \in Remote : Runs(r, u)) \/ (\E c \in Subscriber : Adds(c, u))

Agrees(u) == /\ There(u) => u \in janus.remote
             /\ u \in janus.remote /\ (\E b \in BackendRoom : Valid(b)) => There(u)

OneValid == \A a, b \in BackendRoom : Valid(a) /\ Valid(b) => a = b

Asking == \A c \in Subscriber : AsksFor(c)

Settled == OneValid /\ Asking /\ \A u \in User : Agrees(u)

-----------------------------------------------------------------------------
LEMMA SettledInit == Init => Settled
BY DEF Init, Settled, OneValid, Asking, AsksFor, Agrees, There, Runs, Adds, Valid, Running, Live,
       Answered, At, NoTask, NoRemote

\* There is one at a time of what answers for a user.
LEMMA OneSource ==
    ASSUME Sound, Asking
    PROVE  /\ \A q, r \in Remote :
                Running(q) /\ Running(r) /\ pub[rp[q].pub].user = pub[rp[r].pub].user => q = r
           /\ \A r \in Remote, c \in Subscriber : Running(r) /\ Begins(c)
                                   => pub[rp[r].pub].user # task[c].user
           /\ \A c, d \in Subscriber :
                Begins(c) /\ Begins(d) /\ task[c].user = task[d].user => c = d
<1>1. ASSUME NEW r \in Remote, Running(r)
      PROVE  LET p == rp[r].pub
             IN p \in Publisher /\ ~pub[p].gone /\ pub[p].remote = r /\ listed[pub[p].user] = p
  <2>1. RemoteOK(r) /\ \A p \in Publisher : PubOK(p)
    BY DEF Sound, Tree
  <2>. QED  BY <1>1, <2>1 DEF RemoteOK, PubOK, Running
<1>2. ASSUME NEW r \in Remote, NEW c \in Subscriber, Running(r), Begins(c),
             pub[rp[r].pub].user = task[c].user
      PROVE  FALSE
  <2>1. rp[r].pub = task[c].pub
    BY <1>1, <1>2, NoneApart DEF Asking, AsksFor, Begins, At
  <2>2. TaskOK(c)
    BY DEF Sound, Tree
  <2>. QED  BY <1>1, <1>2, <2>1, <2>2 DEF TaskOK
<1>3. ASSUME NEW c \in Subscriber, NEW d \in Subscriber, Begins(c), Begins(d),
             task[c].user = task[d].user
      PROVE  c = d
  BY <1>3 DEF Asking, AsksFor, Begins, At
<1>. QED  BY <1>1, <1>2, <1>3

-----------------------------------------------------------------------------
\* The greenlet of c goes on for the same request, or is done.
AskKept(c) == task'[c].pc # "idle" =>
    /\ ~At(c, "idle") /\ task'[c].user = task[c].user /\ task'[c].pub = task[c].pub
    /\ task'[c].pc # "remove" /\ task'[c].resp # "exists"
    /\ task'[c].pc \in {"add", "remove"} => Begins(c)

LEMMA AskingKept ==
    ASSUME Typed, Asking, \A c \in Subscriber : AskKept(c),
           \A u \in User : listed'[u] \in {listed[u], None}
    PROVE  Asking'
<1>. SUFFICES ASSUME NEW c \in Subscriber, task'[c].pc # "idle" PROVE AsksFor(c)'
  BY DEF Asking, AsksFor, At
<1>1. AsksFor(c) /\ AskKept(c) /\ ~At(c, "idle") /\ task[c].user \in User
  BY DEF Asking, AskKept, Typed, Shapes, TaskShape, At
<1>2. ASSUME NEW d \in Subscriber
      PROVE  /\ ~At(d, "idle")' /\ task'[d].user = task'[c].user => task'[d].pub = task'[c].pub
             /\ Begins(c)' /\ Begins(d)' /\ task'[d].pub = task'[c].pub => d = c
  BY <1>1 DEF AskKept, AsksFor, At, Begins
<1>. QED  BY <1>1, <1>2 DEF AskKept, AsksFor

LEMMA AskStays == ASSUME Asking, NEW c \in Subscriber, task'[c] = task[c] PROVE AskKept(c)
BY DEF AskKept, Asking, AsksFor, At, Begins

\* An answered request has had its effect, and none else.
LEMMA EffectIsAnswer ==
    ASSUME NoDrift, NEW r, NEW e, NEW x, NEW y \in Effects(r, "ok", e, x)
    PROVE  y = IF r = "ok" THEN e ELSE x
BY DEF NoDrift, Effects

LEMMA ResumeAsks ==
    ASSUME Typed, Asking, NEW c \in Subscriber, Resume(c) \/ LockTimeout(c)
    PROVE  ~AddAgain(c) /\ \A d \in Subscriber : AskKept(d)
<1>1. /\ task[c] \in TaskRec /\ task \in [Subscriber -> TaskRec] /\ ~At(c, "idle")
  BY Types DEF Typed, Resume, LockGot, LockTimeout, Added, AddAgain, AddFails, Forwarded,
               ForwardFails, Ask, JoinFails, Joined, Answered, At
<1>2. ~AddAgain(c) /\ task[c].resp # "exists" /\ task[c].pc # "remove"
  BY <1>1 DEF AddAgain, Answered, At, Asking, AsksFor
<1>3. OneMoves(c)
  BY Requests DEF Resume
<1>4. AskKept(c)
  <2>1. CASE Finish(c)
    BY <1>1, <2>1 DEF Finish, NoTask, AskKept
  <2>2. ASSUME NEW pc \in {"forward", "ready", "join"}, NEW r \in {"none", "ok", "error"},
               task' = [task EXCEPT ![c].pc = pc, ![c].resp = r]
        PROVE  AskKept(c)
    BY <1>1, <2>2 DEF TaskRec, AskKept
  <2>3. CASE Added(c) \/ Ask(c)
    BY <2>1, <2>2, <2>3 DEF Added, Ask, Answers
  <2>4. CASE LockGot(c)
    <3>1. ASSUME task' = [task EXCEPT ![c].pc = "ready", ![c].rp = None] PROVE AskKept(c)
      BY <1>1, <1>2, <3>1 DEF TaskRec, AskKept
    <3>. QED  BY <2>1, <2>4, <3>1 DEF LockGot
  <2>5. CASE Forwarded(c)
    <3>1. task' = [task EXCEPT ![c].pc = "ready", ![c].rp = None, ![c].resp = "none"]
      BY <2>5 DEF Forwarded
    <3>. QED  BY <1>1, <3>1 DEF TaskRec, AskKept
  <2>. QED  BY <1>2, <2>1, <2>3, <2>4, <2>5
            DEF Resume, LockTimeout, AddFails, ForwardFails, Joined, JoinFails
<1>. QED  BY <1>2, <1>3, <1>4, AskStays DEF OneMoves

\* A new request asks for the listed publisher; it starts one if there is none.
LEMMA CascadeAsks ==
    ASSUME Sound, Asking, NEW c \in Subscriber, NEW t \in TaskRec, At(c, "idle"), t.resp = "none",
           t.user \in User, t.pub \in Publisher, listed[t.user] = t.pub, ~pub[t.pub].gone,
           NEW x \in TaskRec, x.user = t.user, x.pub = t.pub, x.resp # "exists",
           x.pc \in {"add", "ready", "lock"},
           x.pc = "add" => pub[t.pub].remote = None,
           task' = [task EXCEPT ![c] = x], UNCHANGED listed
    PROVE  Asking'
<1>1. task'[c] = x /\ \A d \in Subscriber : d # c => task'[d] = task[d]
  BY Types DEF Sound, Typed
<1>2. \A d \in Subscriber : ~At(d, "idle") /\ task[d].user = t.user => task[d].pub = t.pub
  BY NoneApart DEF Asking, AsksFor
<1>3. \A d \in Subscriber : Begins(d) => task[d].rp # None
  BY NoneApart DEF Sound, Typed, Shapes, TaskShape, Begins
<1>4. \A d \in Subscriber : x.pc = "add" /\ Begins(d) => task[d].pub # t.pub
  BY <1>3 DEF Sound, Tree, TaskOK
<1>5. ASSUME NEW d \in Subscriber PROVE AsksFor(d)'
  <2>1. CASE d = c
    BY <1>1, <1>2, <1>4, <2>1 DEF AsksFor, At, Begins
  <2>2. CASE d # c
    <3>1. AsksFor(d) /\ task'[d] = task[d]
      BY <1>1, <2>2 DEF Asking
    <3>2. ASSUME NEW e \in Subscriber, task'[d].pc # "idle"
          PROVE  /\ ~At(e, "idle")' /\ task'[e].user = task'[d].user => task'[e].pub = task'[d].pub
                 /\ Begins(d)' /\ Begins(e)' /\ task'[e].pub = task'[d].pub => e = d
      <4>1. CASE e = c
        BY <1>1, <1>2, <1>4, <2>2, <3>1, <3>2, <4>1 DEF At, Begins
      <4>2. CASE e # c
        BY <1>1, <3>1, <3>2, <4>2 DEF AsksFor, At, Begins
      <4>. QED  BY <4>1, <4>2
    <3>. QED  BY <3>1, <3>2 DEF AsksFor, At
  <2>. QED  BY <2>1, <2>2
<1>. QED  BY <1>5 DEF Asking

-----------------------------------------------------------------------------
(* The same is there as before, or u comes or goes at both.                  *)
AgreesStill(u) ==
    \/ (There(u)' <=> There(u)) /\ (u \in janus'.remote <=> u \in janus.remote)
    \/ There(u)' /\ u \in janus'.remote
    \/ ~There(u)' /\ u \notin janus'.remote

LEMMA AgreesKept ==
    ASSUME Settled, broom' = broom, \A u \in User : AgreesStill(u)
    PROVE  \A u \in User : Agrees(u)'
BY DEF Settled, Agrees, AgreesStill, Valid

SameRuns == \A r \in Remote, u \in User : Runs(r, u)' <=> Runs(r, u)
SameAdds == \A c \in Subscriber, u \in User : Adds(c, u)' <=> Adds(c, u)

LEMMA NothingNew ==
    ASSUME Settled, broom' = broom, janus'.remote = janus.remote, SameRuns, SameAdds
    PROVE  \A u \in User : Agrees(u)'
<1>1. \A u \in User : AgreesStill(u)
  BY DEF AgreesStill, There, SameRuns, SameAdds
<1>. QED  BY <1>1, AgreesKept

\* What does not run does not have to stay.
LEMMA RunsOn ==
    ASSUME Typed, Tree, broom' = broom,
           \A p \in Publisher : ~pub[p].gone => pub'[p].user = pub[p].user,
           \A r \in Remote : \/ /\ rp'[r].pub = rp[r].pub /\ rp'[r].broom = rp[r].broom
                                /\ rp'[r].destroyed = rp[r].destroyed
                             \/ ~Running(r) /\ ~Running(r)'
    PROVE  SameRuns
<1>. SUFFICES ASSUME NEW r \in Remote, NEW u \in User PROVE Runs(r, u)' <=> Runs(r, u)
  BY DEF SameRuns
<1>1. CASE Running(r)
  <2>1. rp[r].pub \in Publisher /\ ~pub[rp[r].pub].gone
    BY <1>1 DEF Tree, RemoteOK, Running
  <2>. QED  BY <1>1, <2>1 DEF Runs, Running, Live, Valid
<1>2. CASE ~Running(r)
  BY <1>2 DEF Runs, Running, Live
<1>. QED  BY <1>1, <1>2

LEMMA AddsOn ==
    ASSUME broom' = broom, NEW c \in Subscriber, OneMoves(c),
           ~Answered(c, "add", "ok") \/ ~Valid(task[c].broom),
           task'[c].pc # "add" \/ task'[c].resp # "ok"
    PROVE  SameAdds
BY DEF SameAdds, Adds, OneMoves, Answered, At, Valid

LEMMA AddsStay == ASSUME broom' = broom, task' = task PROVE SameAdds
BY DEF SameAdds, Adds, Answered, At, Valid

-----------------------------------------------------------------------------
\* A remote publisher that runs is destroyed, and removed if it can be.
LEMMA StopAgrees ==
    ASSUME Sound, Settled, NEW n \in Remote, Running(n), broom' = broom, SameAdds,
           rp'[n].destroyed, \A r \in Remote : r # n => rp'[r] = rp[r],
           \A p \in Publisher : pub'[p].user = pub[p].user,
           janus'.remote = janus.remote \ Removals({n})
    PROVE  \A u \in User : Agrees(u)'
<1>0. Asking
  BY DEF Settled
<1>. DEFINE v == pub[rp[n].pub].user
<1>1. \A r \in Remote : Running(r) => rp[r].pub \in Publisher
  BY DEF Sound, Tree, RemoteOK, Running
<1>2. ASSUME NEW r \in Remote, NEW u \in User, r # n PROVE Runs(r, u)' <=> Runs(r, u)
  <2>1. rp'[r] = rp[r]
    BY <1>2
  <2>. QED  BY <1>1, <2>1 DEF Runs, Running, Live, Valid
<1>3. \A u \in User : ~Runs(n, u)'
  BY DEF Runs, Running, Live
<1>4. CASE Valid(rp[n].broom)
  <2>1. Removals({n}) = {v}
    BY <1>4 DEF Removals, Running, Valid
  <2>2. ASSUME NEW u \in User, u = v PROVE ~There(u)'
    <3>1. ASSUME NEW r \in Remote, Runs(r, u)' PROVE FALSE
      <4>1. r # n /\ Runs(r, u)
        BY <1>2, <1>3, <3>1
      <4>. QED  BY <1>0, <2>2, <4>1, OneSource DEF Runs
    <3>2. ASSUME NEW c \in Subscriber, Adds(c, u)' PROVE FALSE
      <4>1. Adds(c, u) /\ Begins(c)
        BY <3>2 DEF SameAdds, Adds, Answered, At, Begins
      <4>. QED  BY <1>0, <2>2, <4>1, OneSource DEF Adds
    <3>. QED  BY <3>1, <3>2 DEF There
  <2>3. ASSUME NEW u \in User, u # v PROVE AgreesStill(u)
    <3>1. ~Runs(n, u)
      BY <2>3 DEF Runs
    <3>2. There(u)' <=> There(u)
      BY <1>2, <1>3, <3>1 DEF There, SameAdds
    <3>. QED  BY <2>1, <2>3, <3>2 DEF AgreesStill
  <2>4. ASSUME NEW u \in User PROVE AgreesStill(u)
    BY <2>1, <2>2, <2>3 DEF AgreesStill
  <2>. QED  BY <2>4, AgreesKept
<1>5. CASE ~Valid(rp[n].broom)
  <2>1. janus'.remote = janus.remote
    BY <1>5 DEF Removals, Valid
  <2>2. SameRuns
    BY <1>2, <1>3, <1>5 DEF SameRuns, Runs
  <2>. QED  BY <2>1, <2>2, NothingNew
<1>. QED  BY <1>4, <1>5

LEMMA WithoutRemote ==
    ASSUME Typed, NEW U, NEW F, janus' = [Without(U) EXCEPT !.forward = F]
    PROVE  janus'.remote = janus.remote \ U
BY Types DEF Typed, Without, JanusRec

LEMMA DestroyRemoteParts ==
    ASSUME Typed, NEW n \in Remote, NEW U, DestroyRemote(n, U)
    PROVE  /\ rp'[n].destroyed /\ \A r \in Remote : r # n => rp'[r] = rp[r]
           /\ \A p \in Publisher : pub'[p].user = pub[p].user
           /\ janus'.remote = janus.remote \ U
<1>1. rp'[n].destroyed /\ \A r \in Remote : r # n => rp'[r] = rp[r]
  BY Types DEF Typed, DestroyRemote, Destroyed, NoRemote
<1>2. \A p \in Publisher : pub'[p].user = pub[p].user
  BY Types DEF Typed, DestroyRemote, PubRec
<1>3. janus'.remote = janus.remote \ U
  <2>1. \E F : janus' = [Without(U) EXCEPT !.forward = F]
    BY DEF DestroyRemote
  <2>. QED  BY <2>1, WithoutRemote
<1>. QED  BY <1>1, <1>2, <1>3

-----------------------------------------------------------------------------
\* Where there is at most one child, Removals of all is Removals of the one.
LEMMA PubAgrees ==
    ASSUME NoDrift, Sound, Settled, NEW p \in Publisher,
           \/ PubUp(p) \/ PubHangup(p) \/ PubLeaves(p) \/ \E u \in User : PubJoins(p, u)
    PROVE  Settled'
<1>t. /\ Typed /\ Tree /\ pub[p] \in PubRec /\ pub \in [Publisher -> PubRec]
      /\ listed \in [User -> Publisher \cup {None}] /\ Asking
  BY Types DEF Sound, Typed, Settled
<1>0. task' = task /\ broom' = broom /\ OneValid'
  BY DEF PubUp, PubHangup, PubLeaves, PubJoins, Settled, OneValid, Valid
<1>1. SameAdds /\ \A c \in Subscriber : AskKept(c)
  BY <1>t, <1>0, AddsStay, AskStays
<1>2. ASSUME NEW u \in User, PubJoins(p, u) PROVE Settled'
  <2>1. \A c \in Subscriber : task[c].user # u
    BY <1>2 DEF PubJoins, NoDrift
  <2>2. \A v \in User : v # u => listed'[v] = listed[v]
    BY <1>t, <1>2 DEF PubJoins
  <2>3. Asking'
    <3>. SUFFICES ASSUME NEW c \in Subscriber PROVE AsksFor(c)'
      BY DEF Asking
    <3>1. AsksFor(c) /\ (~At(c, "idle") => task[c].user \in User)
      BY <1>t DEF Asking, Typed, Shapes, TaskShape, At
    <3>2. ~At(c, "idle") => listed'[task[c].user] = listed[task[c].user]
      BY <2>1, <2>2, <3>1
    <3>. QED  BY <1>0, <3>1, <3>2 DEF AsksFor, At, Begins
  <2>4. \A q \in Publisher : ~pub[q].gone => pub'[q].user = pub[q].user
    BY <1>t, <1>2 DEF PubJoins, FreePub
  <2>5. SameRuns
    BY <1>t, <1>0, <1>2, <2>4, RunsOn DEF PubJoins
  <2>. QED  BY <1>0, <1>1, <1>2, <2>3, <2>5, NothingNew DEF Settled, PubJoins
<1>3. CASE PubUp(p)
  <2>1. Asking'
    BY <1>t, <1>1, <1>3, AskingKept DEF PubUp
  <2>2. \A q \in Publisher : pub'[q].user = pub[q].user
    BY <1>t, <1>3 DEF PubUp, PubRec
  <2>3. SameRuns
    BY <1>t, <1>0, <1>3, <2>2, RunsOn DEF PubUp
  <2>. QED  BY <1>0, <1>1, <1>3, <2>1, <2>3, NothingNew DEF Settled, PubUp
<1>4. CASE PubHangup(p) \/ PubLeaves(p)
  <2>1. \A u \in User : listed'[u] \in {listed[u], None}
    BY <1>t, <1>4 DEF PubHangup, PubLeaves
  <2>2. Asking'
    BY <1>t, <1>1, <2>1, AskingKept
  <2>3. \A q \in Publisher : pub'[q].user = pub[q].user
    BY <1>t, <1>4 DEF PubHangup, PubLeaves, PubRec, NoPub
  <2>4. janus'.remote = janus.remote \ Removals(Children(p))
    <3>1. \E F : janus' = [Without(Removals(Children(p))) EXCEPT !.forward = F]
      BY <1>4 DEF PubHangup, PubLeaves
    <3>. QED  BY <1>t, <3>1, WithoutRemote
  <2>5. \A r \in Remote : rp'[r] = IF r \in Children(p) THEN Destroyed(rp[r]) ELSE rp[r]
    BY <1>4 DEF PubHangup, PubLeaves, DestroyAll
  <2>6. /\ Children(p) \subseteq Remote
        /\ \A r \in Children(p) : Running(r) /\ rp[r].pub = p /\ pub[p].remote = r
    BY <1>t DEF Children, Tree, PubOK, RemoteOK, Running, PubRec
  <2>7. CASE Children(p) = {}
    <3>1. Removals(Children(p)) = {}
      BY <2>7 DEF Removals
    <3>2. SameRuns
      BY <1>t, <1>0, <2>3, <2>5, <2>7, RunsOn
    <3>3. janus'.remote = janus.remote
      BY <2>4, <3>1
    <3>. QED  BY <1>0, <1>1, <2>2, <3>2, <3>3, NothingNew DEF Settled
  <2>8. ASSUME NEW n \in Children(p) PROVE Settled'
    <3>1. Children(p) = {n} /\ n \in Remote /\ Running(n)
      BY <2>6
    <3>2. rp'[n].destroyed /\ \A r \in Remote : r # n => rp'[r] = rp[r]
      BY <2>5, <3>1 DEF Destroyed, NoRemote
    <3>3. janus'.remote = janus.remote \ Removals({n})
      BY <2>4, <3>1
    <3>4. \A u \in User : Agrees(u)'
      BY <1>0, <1>1, <2>3, <3>1, <3>2, <3>3, StopAgrees
    <3>. QED  BY <1>0, <2>2, <3>4 DEF Settled
  <2>. QED  BY <2>7, <2>8
<1>. QED  BY <1>2, <1>3, <1>4

LEMMA ServerRoomAgrees ==
    ASSUME Sound, Settled, NEW b \in BackendRoom, NewBackendRoom(b) \/ BackendRoomLost(b)
    PROVE  Settled'
<1>t. broom \in [BackendRoom -> {"none", "valid", "dead"}] /\ Typed /\ Asking
  BY Types DEF Sound, Typed, Settled
<1>1. Asking'
  BY <1>t, AskingKept, AskStays DEF NewBackendRoom, BackendRoomLost
<1>2. ASSUME NEW u \in User PROVE Agrees(u)'
  <2>1. CASE NewBackendRoom(b)
    <3>1. janus'.remote = {}
      BY <2>1, Types DEF NewBackendRoom, Sound, Typed, JanusRec
    <3>2. \A x \in BackendRoom : Valid(x)' => x = b
      BY <1>t, <2>1 DEF NewBackendRoom, Valid
    <3>3. ASSUME NEW r \in Remote, Runs(r, u)' PROVE FALSE
      <4>1. rp[r].broom \in BackendRoom /\ broom'[rp[r].broom] = "valid" /\ rp[r].broom # b
        <5>1. rp[r] \in RemoteRec /\ rp' = rp
          BY <2>1, Types DEF Sound, Typed, NewBackendRoom
        <5>. QED  BY <2>1, <3>3, <5>1 DEF Runs, Running, Valid, NewBackendRoom, FreeBackendRoom,
                                          RemoteRec
      <4>. QED  BY <3>2, <4>1 DEF Valid
    <3>4. ASSUME NEW c \in Subscriber, Adds(c, u)' PROVE FALSE
      <4>1. task[c].broom \in BackendRoom /\ broom'[task[c].broom] = "valid" /\ task[c].broom # b
        <5>1. TaskShape(task[c]) /\ task' = task
          BY <2>1 DEF Sound, Typed, Shapes, NewBackendRoom
        <5>. QED  BY <2>1, <3>4, <5>1 DEF Adds, Answered, At, Valid, NewBackendRoom,
                                          FreeBackendRoom, TaskShape
      <4>. QED  BY <3>2, <4>1 DEF Valid
    <3>. QED  BY <3>1, <3>3, <3>4 DEF Agrees, There
  <2>2. CASE BackendRoomLost(b)
    <3>1. \A x \in BackendRoom : ~Valid(x)'
      BY <1>t, <2>2 DEF BackendRoomLost, Valid, Settled, OneValid
    <3>2. ASSUME NEW r \in Remote, Runs(r, u)' PROVE FALSE
      <4>1. rp[r] \in RemoteRec /\ rp' = rp
        BY <2>2, Types DEF Sound, Typed, BackendRoomLost
      <4>2. rp[r].broom \in BackendRoom /\ broom'[rp[r].broom] = "valid"
        BY <3>2, <4>1 DEF Runs, Running, Valid, RemoteRec
      <4>. QED  BY <3>1, <4>2 DEF Valid
    <3>3. ASSUME NEW c \in Subscriber, Adds(c, u)' PROVE FALSE
      <4>1. TaskShape(task[c]) /\ task' = task
        BY <2>2 DEF Sound, Typed, Shapes, BackendRoomLost
      <4>2. task[c].broom \in BackendRoom /\ broom'[task[c].broom] = "valid"
        BY <3>3, <4>1 DEF Adds, Answered, At, Valid, TaskShape
      <4>. QED  BY <3>1, <4>2 DEF Valid
    <3>. QED  BY <3>1, <3>2, <3>3 DEF Agrees, There
  <2>. QED  BY <2>1, <2>2
<1>3. OneValid'
  BY <1>t DEF NewBackendRoom, BackendRoomLost, OneValid, Valid, Settled
<1>. QED  BY <1>1, <1>2, <1>3 DEF Settled

\* A turn of the idle check, and time.
LEMMA IdleAgrees ==
    ASSUME Sound, Settled, NEW n \in Remote, TimePasses(n) \/ IdleCheck(n) PROVE Settled'
<1>t. Typed /\ Tree /\ Asking /\ rp \in [Remote -> RemoteRec]
  BY Types DEF Sound, Settled, Typed
<1>0. /\ task' = task /\ broom' = broom /\ listed' = listed /\ OneValid'
      /\ SameAdds /\ \A c \in Subscriber : AskKept(c)
  BY <1>t, AskStays, AddsStay DEF TimePasses, IdleCheck, Settled, OneValid, Valid
<1>1. Asking'
  BY <1>t, <1>0, AskingKept
<1>2. Running(n)
  BY DEF TimePasses, IdleCheck, Running, Live
<1>3. CASE DestroyRemote(n, Removals({n}))
  <2>1. \A u \in User : Agrees(u)'
    BY <1>t, <1>0, <1>2, <1>3, DestroyRemoteParts, StopAgrees
  <2>. QED  BY <1>0, <1>1, <2>1 DEF Settled
<1>4. CASE ~DestroyRemote(n, Removals({n}))
  <2>1. janus' = janus /\ pub' = pub /\ \E i : rp' = [rp EXCEPT ![n].idle = i]
    BY <1>4 DEF TimePasses, IdleCheck
  <2>2. \A r \in Remote : /\ rp'[r].pub = rp[r].pub /\ rp'[r].broom = rp[r].broom
                          /\ rp'[r].destroyed = rp[r].destroyed
    BY <1>t, <2>1 DEF RemoteRec
  <2>3. SameRuns
    BY <1>t, <1>0, <2>1, <2>2, RunsOn
  <2>. QED  BY <1>0, <1>1, <2>1, <2>3, NothingNew DEF Settled
<1>. QED  BY <1>3, <1>4

-----------------------------------------------------------------------------
\* Feeds go.
LEMMA DropAgrees ==
    ASSUME Sound, Settled, NEW c \in Subscriber, NEW U, DropFeeds(c, U), janus' = Unfed(c, U),
           UNCHANGED <<listed, broom, task>>
    PROVE  Settled'
<1>t. Typed /\ Tree /\ Asking /\ janus \in JanusRec
  BY Types DEF Sound, Settled, Typed
<1>1. Asking' /\ SameAdds /\ OneValid'
  BY <1>t, AskingKept, AskStays, AddsStay DEF Settled, OneValid, Valid
<1>2. janus'.remote = janus.remote
  BY <1>t DEF Unfed, JanusRec
<1>3. \A p \in Publisher : pub'[p].user = pub[p].user
  BY Types DEF DropFeeds, Typed, PubRec
<1>4. ASSUME NEW r \in Remote
      PROVE  /\ rp'[r].pub = rp[r].pub /\ rp'[r].broom = rp[r].broom
             /\ rp'[r].destroyed = rp[r].destroyed
  <2>1. rp'[r] \in {rp[r], Unused(rp[r], c)}
    BY DEF DropFeeds
  <2>2. rp[r] \in RemoteRec
    BY <1>t, Types DEF Typed
  <2>. QED  BY <2>1, <2>2, UsingSame DEF SameRemote
<1>5. SameRuns
  BY <1>t, <1>3, <1>4, RunsOn
<1>. QED  BY <1>1, <1>2, <1>5, NothingNew DEF Settled

\* The answer to join; a greenlet that goes on without having started anything.
LEMMA WaitAgrees ==
    ASSUME NoDrift, Sound, Settled, NEW c \in Subscriber,
           \/ LockGot(c) \/ LockTimeout(c) \/ Forwarded(c) \/ Ask(c) \/ Joined(c) \/ JoinFails(c)
    PROVE  \A u \in User : Agrees(u)'
<1>t. /\ Typed /\ Tree /\ task[c] \in TaskRec /\ task \in [Subscriber -> TaskRec]
      /\ janus \in JanusRec /\ OneMoves(c)
  BY Types, Requests DEF Sound, Typed
<1>0. broom' = broom
  BY DEF LockGot, LockTimeout, Forwarded, Ask, Joined, JoinFails
<1>1. task[c].pc # "add" /\ task'[c].pc # "add"
  <2>1. task'[c].pc # "add"
    BY <1>t DEF LockGot, LockTimeout, Forwarded, Ask, Joined, JoinFails, Finish, NoTask, TaskRec
  <2>. QED  BY <2>1 DEF LockGot, LockTimeout, Forwarded, Ask, Joined, JoinFails, Answered, At
<1>2. SameAdds
  BY <1>t, <1>0, <1>1, AddsOn DEF Answered, At
<1>3. janus'.remote = janus.remote
  <2>1. CASE Ask(c)
    <3>1. [janus EXCEPT !.fed = @ \cup {<<c, task[c].user>>}].remote = janus.remote
      BY <1>t DEF JanusRec
    <3>2. janus' = janus \/ janus' = [janus EXCEPT !.fed = @ \cup {<<c, task[c].user>>}]
      BY <2>1, EffectsOne DEF Ask
    <3>. QED  BY <3>1, <3>2
  <2>2. CASE ~Ask(c)
    BY <1>t, <2>2 DEF LockGot, LockTimeout, Forwarded, Joined, JoinFails, Unfed, JanusRec
  <2>. QED  BY <2>1, <2>2
<1>4. \A p \in Publisher : pub'[p].user = pub[p].user
  <2>1. CASE Joined(c)
    <3>1. \E p : pub' = pub \/ pub' = [pub EXCEPT ![p].subs = @ \cup {c}]
      BY <2>1 DEF Joined
    <3>. QED  BY <1>t, <3>1, Types DEF Typed, PubRec
  <2>2. CASE ~Joined(c)
    BY <2>2 DEF LockGot, LockTimeout, Forwarded, Ask, JoinFails
  <2>. QED  BY <2>1, <2>2
<1>5. ASSUME NEW r \in Remote
      PROVE  /\ rp'[r].pub = rp[r].pub /\ rp'[r].broom = rp[r].broom
             /\ rp'[r].destroyed = rp[r].destroyed
  <2>1. rp'[r] \in {rp[r], Using(rp[r], c)}
    BY DEF LockGot, LockTimeout, Forwarded, Ask, Joined, JoinFails
  <2>2. rp[r] \in RemoteRec
    BY <1>t, Types DEF Typed
  <2>. QED  BY <2>1, <2>2, UsingSame DEF SameRemote
<1>6. SameRuns
  BY <1>t, <1>0, <1>4, <1>5, RunsOn
<1>. QED  BY <1>0, <1>2, <1>3, <1>6, NothingNew

\* start() is done, or is given up.
LEMMA StartAgrees ==
    ASSUME NoDrift, Sound, Settled, NEW c \in Subscriber, Added(c) \/ AddFails(c)
    PROVE  \A u \in User : Agrees(u)'
<1>t. /\ Typed /\ Tree /\ task[c] \in TaskRec /\ task \in [Subscriber -> TaskRec] /\ Asking
      /\ janus \in JanusRec /\ rp \in [Remote -> RemoteRec] /\ pub \in [Publisher -> PubRec]
      /\ task[c].rp \in Remote /\ task[c].broom \in BackendRoom /\ task[c].pub \in Publisher
      /\ task[c].user \in User /\ TaskOK(c) /\ OneMoves(c) /\ Begins(c)
  BY Types, Requests DEF Sound, Typed, Tree, Settled, Shapes, TaskShape, Added, AddFails,
                         Answered, At, Begins
<1>0. broom' = broom
  BY DEF Added, AddFails
<1>. PICK n \in Remote, p \in Publisher, v \in User, b \in BackendRoom :
       n = task[c].rp /\ p = task[c].pub /\ v = task[c].user /\ b = task[c].broom
  BY <1>t
<1>1. Live(n) /\ ~Running(n) /\ rp[n].pub = p /\ pub[p].user = v
  BY <1>t DEF TaskOK, Begins, At
<1>2. \A d \in Subscriber, u \in User : d # c => (Adds(d, u)' <=> Adds(d, u))
  BY <1>t, <1>0 DEF Adds, Answered, At, OneMoves, Valid
<1>3. ASSUME NEW U, DestroyRemote(n, U)
      PROVE  SameRuns /\ janus'.remote = janus.remote \ U
  <2>1. /\ ~Running(n)' /\ \A r \in Remote : r # n => rp'[r] = rp[r]
        /\ \A q \in Publisher : pub'[q].user = pub[q].user
        /\ janus'.remote = janus.remote \ U
    BY <1>t, <1>3, DestroyRemoteParts DEF Running, Live
  <2>. QED  BY <1>t, <1>0, <1>1, <2>1, RunsOn
<1>4. Finish(c) => task'[c].pc = "idle" /\ \A u \in User : ~Adds(c, u)'
  BY <1>t DEF Finish, NoTask, Adds, Answered, At
<1>5. ASSUME Answered(c, "add", "ok"), Valid(b), NEW r \in Remote, Runs(r, v) PROVE FALSE
  BY <1>t, <1>5, OneSource DEF Runs
<1>6. ASSUME NEW d \in Subscriber, Adds(d, v) PROVE d = c
  BY <1>t, <1>6, OneSource DEF Adds, Answered, At, Begins
<1>7. CASE AddFails(c)
  <2>1. ~Answered(c, "add", "ok") \/ ~Valid(b)
    BY <1>7 DEF AddFails, Answered, Valid
  <2>2. SameAdds
    BY <1>t, <1>0, <1>4, <1>7, <2>1, AddsOn DEF AddFails
  <2>. QED  BY <1>0, <1>3, <1>7, <2>2, NothingNew DEF AddFails
<1>8. CASE Added(c) /\ (pub[p].gone \/ ~pub[p].up)
  <2>1. /\ Answered(c, "add", "ok") /\ Finish(c)
        /\ DestroyRemote(n, IF Valid(b) THEN {v} ELSE {})
    BY <1>8 DEF Added, Valid
  <2>2. CASE Valid(b)
    <3>1. SameRuns /\ janus'.remote = janus.remote \ {v}
      BY <1>3, <2>1, <2>2
    <3>2. ~There(v)'
      BY <1>2, <1>4, <1>5, <1>6, <2>1, <2>2, <3>1 DEF There, SameRuns
    <3>3. ASSUME NEW u \in User, u # v PROVE There(u)' <=> There(u)
      <4>1. ~Adds(c, u)
        BY <3>3 DEF Adds
      <4>. QED  BY <1>2, <1>4, <2>1, <3>1, <4>1 DEF There, SameRuns
    <3>4. \A u \in User : AgreesStill(u)
      BY <3>1, <3>2, <3>3 DEF AgreesStill
    <3>. QED  BY <1>0, <3>4, AgreesKept
  <2>3. CASE ~Valid(b)
    <3>1. DestroyRemote(n, {})
      BY <2>1, <2>3
    <3>2. SameRuns /\ janus'.remote = janus.remote \ {}
      BY <1>3, <3>1
    <3>3. janus'.remote = janus.remote
      BY <3>2
    <3>4. SameAdds
      BY <1>t, <1>0, <1>4, <2>1, <2>3, AddsOn
    <3>. QED  BY <1>0, <3>2, <3>3, <3>4, NothingNew
  <2>. QED  BY <2>2, <2>3
<1>9. CASE Added(c) /\ ~pub[p].gone /\ pub[p].up
  <2>1. /\ Answered(c, "add", "ok")
        /\ rp' = [rp EXCEPT ![n].broom = b, ![n].parent = TRUE]
        /\ pub' = [pub EXCEPT ![p].children = @ \cup {n}]
        /\ \E r : /\ janus' \in Effects(r, "ok", [janus EXCEPT !.forward = @ \cup {p}], janus)
                  /\ task' = [task EXCEPT ![c].pc = "forward", ![c].resp = r]
    BY <1>9 DEF Added
  <2>2. janus'.remote = janus.remote
    <3>1. [janus EXCEPT !.forward = @ \cup {p}].remote = janus.remote
      BY <1>t DEF JanusRec
    <3>2. janus' = janus \/ janus' = [janus EXCEPT !.forward = @ \cup {p}]
      BY <2>1, EffectsOne
    <3>. QED  BY <3>1, <3>2
  <2>3. \A u \in User : ~Adds(c, u)'
    BY <1>t, <2>1 DEF Adds, Answered, At, TaskRec
  <2>4. \A q \in Publisher : pub'[q].user = pub[q].user
    BY <1>t, <2>1 DEF PubRec
  <2>5. /\ rp'[n].broom = b /\ rp'[n].pub = p /\ ~rp'[n].destroyed
        /\ \A r \in Remote : r # n => rp'[r] = rp[r]
    <3>1. rp[n] \in RemoteRec
      BY <1>t
    <3>2. rp' = [rp EXCEPT ![n] = [@ EXCEPT !.broom = b, !.parent = TRUE]]
      BY <2>1
    <3>. QED  BY <1>t, <1>1, <3>1, <3>2 DEF RemoteRec, Live
  <2>6. \A u \in User : Runs(n, u)' <=> Adds(c, u)
    <3>1. pub'[p].user = v /\ b # None
      BY <1>1, <2>4, NoneApart
    <3>. QED  BY <1>0, <2>1, <2>5, <3>1 DEF Runs, Running, Live, Valid, Adds
  <2>7. \A u \in User : ~Runs(n, u)
    BY <1>1 DEF Runs
  <2>8. ASSUME NEW r \in Remote, NEW u \in User, r # n PROVE Runs(r, u)' <=> Runs(r, u)
    <3>1. rp'[r] = rp[r] /\ (Running(r) => rp[r].pub \in Publisher)
      BY <1>t, <2>5, <2>8 DEF Tree, RemoteOK, Running
    <3>. QED  BY <1>0, <2>4, <3>1 DEF Runs, Running, Live, Valid
  <2>9. \A u \in User : AgreesStill(u)
    BY <1>2, <2>2, <2>3, <2>6, <2>7, <2>8 DEF AgreesStill, There
  <2>. QED  BY <1>0, <2>9, AgreesKept
<1>. QED  BY <1>7, <1>8, <1>9

-----------------------------------------------------------------------------
\* add_remote_publisher for a publisher that has none, on a valid backend room.
LEMMA SendsAddAgrees ==
    ASSUME NoDrift, Sound, Settled, NEW c \in Subscriber, NEW t \in TaskRec, At(c, "idle"),
           t.user \in User, t.pub \in Publisher, listed[t.user] = t.pub, ~pub[t.pub].gone,
           pub[t.pub].remote = None, t.broom \in BackendRoom, Valid(t.broom),
           NEW n \in Remote, FreeRemote(n), pub' = [pub EXCEPT ![t.pub].remote = n],
           rp' = [rp EXCEPT ![n] = [NoRemote EXCEPT !.pub = t.pub, !.destroyed = FALSE]],
           SendsAdd(c, t), broom' = broom
    PROVE  /\ \A u \in User : Agrees(u)'
           /\ \E r \in {"ok", "error"} :
                task' = [task EXCEPT ![c] = [t EXCEPT !.pc = "add", !.resp = r]]
<1>t. /\ Typed /\ Tree /\ task \in [Subscriber -> TaskRec] /\ Asking
      /\ janus \in JanusRec /\ rp \in [Remote -> RemoteRec] /\ pub \in [Publisher -> PubRec]
  BY Types DEF Sound, Typed, Settled
<1>0. t.user \notin janus.remote
  <2>. SUFFICES ASSUME t.user \in janus.remote PROVE FALSE
    OBVIOUS
  <2>1. There(t.user)
    BY DEF Settled, Agrees
  <2>2. ASSUME NEW r \in Remote, Runs(r, t.user) PROVE FALSE
    <3>1. /\ rp[r].pub \in Publisher /\ ~pub[rp[r].pub].gone /\ pub[rp[r].pub].remote = r
          /\ pub[rp[r].pub].user = t.user
      BY <1>t, <2>2 DEF Runs, Running, Tree, RemoteOK
    <3>2. rp[r].pub = t.pub
      BY <1>t, <3>1 DEF Tree, PubOK
    <3>. QED  BY <3>1, <3>2, NoneApart
  <2>3. ASSUME NEW d \in Subscriber, Adds(d, t.user) PROVE FALSE
    <3>1. task[d].pub = t.pub
      BY <1>t, <2>3, NoneApart DEF Asking, AsksFor, Adds, Answered, At
    <3>2. TaskOK(d) /\ Begins(d) /\ TaskShape(task[d])
      BY <1>t, <2>3 DEF Tree, Adds, Answered, At, Begins, Typed, Shapes
    <3>. QED  BY <3>1, <3>2, NoneApart DEF TaskOK, TaskShape, Begins
  <2>. QED  BY <2>1, <2>2, <2>3 DEF There
<1>1. PICK r \in {"ok", "error"} :
         /\ janus' \in Effects(r, "ok", [janus EXCEPT !.remote = @ \cup {t.user}], janus)
         /\ task' = [task EXCEPT ![c] = [t EXCEPT !.pc = "add", !.resp = r]]
  BY <1>0 DEF SendsAdd, Answers
<1>2. janus'.remote = IF r = "ok" THEN janus.remote \cup {t.user} ELSE janus.remote
  <2>1. janus' = IF r = "ok" THEN [janus EXCEPT !.remote = @ \cup {t.user}] ELSE janus
    BY <1>1, EffectIsAnswer
  <2>. QED  BY <1>t, <2>1 DEF JanusRec
<1>3. /\ task'[c].pc = "add" /\ task'[c].resp = r /\ task'[c].user = t.user
      /\ task'[c].broom = t.broom /\ OneMoves(c)
  BY <1>t, <1>1 DEF TaskRec, OneMoves
<1>4. SameRuns
  <2>1. \A q \in Publisher : pub'[q].user = pub[q].user
    BY <1>t DEF PubRec
  <2>2. ~Running(n) /\ ~Running(n)' /\ \A x \in Remote : x # n => rp'[x] = rp[x]
    BY <1>t DEF FreeRemote, Running, Live, NoRemote
  <2>. QED  BY <1>t, <2>1, <2>2, RunsOn
<1>5. \A d \in Subscriber, u \in User : d # c => (Adds(d, u)' <=> Adds(d, u))
  BY <1>3 DEF Adds, Answered, At, OneMoves, Valid
<1>6. \A u \in User : ~Adds(c, u)
  BY DEF Adds, Answered, At
<1>7. \A u \in User : Adds(c, u)' <=> r = "ok" /\ u = t.user
  BY <1>3 DEF Adds, Answered, At, Valid
<1>8. \A u \in User : AgreesStill(u)
  BY <1>2, <1>4, <1>5, <1>6, <1>7 DEF AgreesStill, There, SameRuns
<1>. QED  BY <1>1, <1>8, AgreesKept

LEMMA CascadeToAgrees ==
    ASSUME NoDrift, Sound, Settled, NEW c \in Subscriber, NEW t \in TaskRec, At(c, "idle"),
           t.resp = "none", t.user \in User, t.pub \in Publisher, listed[t.user] = t.pub,
           ~pub[t.pub].gone, t.broom \in BackendRoom \cup {Home}, CascadeTo(c, t),
           UNCHANGED <<listed, broom>>
    PROVE  Settled'
<1>t. /\ Typed /\ Tree /\ task \in [Subscriber -> TaskRec] /\ Asking
  BY Types DEF Sound, Typed, Settled
<1>0. OneValid'
  BY DEF Settled, OneValid, Valid
<1>1. ASSUME NEW x \in TaskRec, GoesAs(c, t, x), x.resp = "none", UNCHANGED <<pub, rp, janus>>
      PROVE  Settled'
  <2>1. Asking'
    BY <1>t, <1>1, CascadeAsks DEF GoesAs
  <2>2. SameRuns
    BY <1>1 DEF SameRuns, Runs, Running, Live, Valid
  <2>3. SameAdds
    <3>1. OneMoves(c) /\ task'[c] = x
      BY <1>t, <1>1 DEF GoesAs, OneMoves
    <3>2. ~At(c, "add") /\ task'[c].pc # "add"
      BY <1>1, <3>1 DEF GoesAs, At
    <3>. QED  BY <3>1, <3>2, AddsOn DEF Answered
  <2>. QED  BY <1>0, <1>1, <2>1, <2>2, <2>3, NothingNew DEF Settled
<1>3. CASE task' = [task EXCEPT ![c] = [t EXCEPT !.pc = "ready"]] /\ UNCHANGED <<pub, rp, janus>>
  <2>. DEFINE x == [t EXCEPT !.pc = "ready"]
  <2>1. x \in TaskRec /\ GoesAs(c, t, x) /\ x.resp = "none"
    BY <1>3 DEF GoesAs, TaskRec
  <2>. HIDE DEF x
  <2>. QED  BY <1>1, <1>3, <2>1
<1>4. CASE /\ task' = [task EXCEPT ![c] = [t EXCEPT !.pc = "lock", !.rp = pub[t.pub].remote]]
           /\ UNCHANGED <<pub, rp, janus>>
  <2>. DEFINE x == [t EXCEPT !.pc = "lock", !.rp = pub[t.pub].remote]
  <2>0. pub[t.pub].remote \in Remote \cup {None}
    BY <1>t, Types DEF Typed
  <2>1. x \in TaskRec /\ GoesAs(c, t, x) /\ x.resp = "none"
    BY <1>4, <2>0 DEF GoesAs, TaskRec
  <2>. HIDE DEF x
  <2>. QED  BY <1>1, <1>4, <2>1
<1>5. ASSUME NEW n \in Remote, FreeRemote(n), pub[t.pub].remote = None, Valid(t.broom),
             t.broom # Home, pub' = [pub EXCEPT ![t.pub].remote = n],
             rp' = [rp EXCEPT ![n] = [NoRemote EXCEPT !.pub = t.pub, !.destroyed = FALSE]],
             SendsAdd(c, [t EXCEPT !.rp = n])
      PROVE  Settled'
  <2>. DEFINE y == [t EXCEPT !.rp = n]
  <2>1. /\ y \in TaskRec /\ y.user = t.user /\ y.pub = t.pub /\ y.broom = t.broom
        /\ t.broom \in BackendRoom
    BY <1>5 DEF TaskRec
  <2>2. SendsAdd(c, y)
    BY <1>5
  <2>. HIDE DEF y
  <2>3. /\ \A u \in User : Agrees(u)'
        /\ \E r \in {"ok", "error"} :
             task' = [task EXCEPT ![c] = [y EXCEPT !.pc = "add", !.resp = r]]
    BY <1>5, <2>1, <2>2, SendsAddAgrees
  <2>4. PICK r \in {"ok", "error"} :
          task' = [task EXCEPT ![c] = [y EXCEPT !.pc = "add", !.resp = r]]
    BY <2>3
  <2>. DEFINE x == [y EXCEPT !.pc = "add", !.resp = r]
  <2>5. /\ x \in TaskRec /\ x.user = t.user /\ x.pub = t.pub /\ x.resp # "exists" /\ x.pc = "add"
        /\ task' = [task EXCEPT ![c] = x]
    BY <2>1, <2>4 DEF TaskRec
  <2>. HIDE DEF x
  <2>6. Asking'
    BY <1>t, <1>5, <2>5, CascadeAsks
  <2>. QED  BY <1>0, <2>3, <2>6 DEF Settled
<1>. QED  BY <1>3, <1>4, <1>5 DEF CascadeTo, Valid

LEMMA JoinAgrees ==
    ASSUME NoDrift, Sound, Settled, NEW c \in Subscriber, NEW u \in User,
           Subscribe(c, u) \/ \E b \in BackendRoom \cup {Home} : Join(c, u, b)
    PROVE  Settled'
<1>1. listed[u] \in Publisher /\ ~pub[listed[u]].gone
  BY Types DEF Sound, Typed, Tree, ListedOK, Subscribe, Join
<1>2. ASSUME NEW b \in BackendRoom \cup {Home}, Join(c, u, b) PROVE Settled'
  <2>. DEFINE t == [NoTask EXCEPT !.user = u, !.pub = listed[u], !.broom = b, !.new = TRUE]
  <2>1. t \in TaskRec /\ t.pub = listed[u] /\ t.user = u /\ t.broom = b /\ t.resp = "none"
    BY <1>1 DEF NoTask, TaskRec
  <2>2. CascadeTo(c, t) /\ At(c, "idle") /\ UNCHANGED <<listed, broom>>
    BY <1>2 DEF Join
  <2>. HIDE DEF t
  <2>. QED  BY <1>1, <2>1, <2>2, CascadeToAgrees
<1>3. CASE Subscribe(c, u)
  <2>. DEFINE t == [NoTask EXCEPT !.user = u, !.pub = listed[u], !.broom = sub[c].broom]
  <2>1. sub[c].broom \in BackendRoom \cup {Home}
    BY <1>3 DEF Subscribe, Placed, Sound
  <2>2. /\ t \in TaskRec /\ t.pub = listed[u] /\ t.user = u /\ t.broom = sub[c].broom
        /\ t.resp = "none"
    BY <1>1, <2>1 DEF NoTask, TaskRec
  <2>3. CascadeTo(c, t) /\ At(c, "idle") /\ UNCHANGED <<listed, broom>>
    BY <1>3 DEF Subscribe
  <2>. HIDE DEF t
  <2>. QED  BY <1>1, <2>1, <2>2, <2>3, CascadeToAgrees
<1>. QED  BY <1>2, <1>3

LEMMA ResumeAgrees ==
    ASSUME NoDrift, Sound, Settled, NEW c \in Subscriber, Resume(c) \/ LockTimeout(c)
    PROVE  Settled'
<1>t. Typed /\ Tree /\ Asking /\ task \in [Subscriber -> TaskRec]
  BY Types DEF Sound, Settled, Typed
<1>0. listed' = listed /\ broom' = broom
  BY DEF Resume, LockTimeout, LockGot, Added, AddAgain, AddFails, Forwarded, ForwardFails, Ask,
         Joined, JoinFails
<1>1. ~AddAgain(c) /\ Asking'
  BY <1>t, <1>0, ResumeAsks, AskingKept
<1>2. OneValid'
  BY <1>0 DEF Settled, OneValid, Valid
<1>3. CASE ForwardFails(c)
  <2>1. task[c].rp \in Remote /\ TaskOK(c) /\ At(c, "forward") /\ Finish(c)
    BY <1>t, <1>3 DEF ForwardFails, Answered, At, Typed, Shapes, TaskShape, Tree
  <2>2. SameAdds
    <3>1. OneMoves(c) /\ task'[c].pc = "idle"
      BY <1>t, <2>1 DEF Finish, NoTask, OneMoves
    <3>. QED  BY <1>0, <2>1, <3>1, AddsOn DEF Answered, At
  <2>3. CASE rp[task[c].rp].destroyed
    <3>1. UNCHANGED <<pub, rp, janus>>
      BY <1>3, <2>3 DEF ForwardFails
    <3>2. SameRuns
      BY <1>0, <3>1 DEF SameRuns, Runs, Running, Live, Valid
    <3>. QED  BY <1>0, <1>1, <1>2, <2>2, <3>1, <3>2, NothingNew DEF Settled
  <2>4. CASE ~rp[task[c].rp].destroyed
    <3>1. DestroyRemote(task[c].rp, Removals({task[c].rp})) /\ Running(task[c].rp)
      BY <1>3, <2>1, <2>4 DEF ForwardFails, TaskOK, Live
    <3>2. \A u \in User : Agrees(u)'
      BY <1>t, <1>0, <2>1, <2>2, <3>1, DestroyRemoteParts, StopAgrees
    <3>. QED  BY <1>1, <1>2, <3>2 DEF Settled
  <2>. QED  BY <2>3, <2>4
<1>4. CASE ~ForwardFails(c)
  <2>1. \A u \in User : Agrees(u)'
    BY <1>1, <1>4, WaitAgrees, StartAgrees DEF Resume
  <2>. QED  BY <1>1, <1>2, <2>1 DEF Settled
<1>. QED  BY <1>3, <1>4

-----------------------------------------------------------------------------
LEMMA SettledStep == NoDrift /\ Sound /\ Settled /\ [Next]_vars => Settled'
<1>. SUFFICES ASSUME NoDrift, Sound, Settled, [Next]_vars PROVE Settled'
  OBVIOUS
<1>1. CASE UNCHANGED vars
  BY <1>1 DEF vars, Settled, OneValid, Asking, AsksFor, Agrees, There, Runs, Adds, Valid, Running,
              Live, Answered, At, Begins
<1>2. ASSUME NEW p \in Publisher,
             \/ PubUp(p) \/ PubHangup(p) \/ PubLeaves(p) \/ \E u \in User : PubJoins(p, u)
      PROVE  Settled'
  BY <1>2, PubAgrees
<1>3. ASSUME NEW c \in Subscriber,
             \/ SubLeaves(c) \/ SubHangup(c)
             \/ \E u \in User : Unsubscribe(c, u) \/ Updated(c, u)
      PROVE  Settled'
  BY <1>3, DropAgrees DEF SubLeaves, SubHangup, Unsubscribe, Updated, FeedDropped
<1>4. ASSUME NEW c \in Subscriber,
             \/ Resume(c) \/ LockTimeout(c)
             \/ \E u \in User : Subscribe(c, u) \/ \E b \in BackendRoom \cup {Home} : Join(c, u, b)
      PROVE  Settled'
  BY <1>4, ResumeAgrees, JoinAgrees
<1>. QED  BY <1>1, <1>2, <1>3, <1>4, ServerRoomAgrees, IdleAgrees DEF Next

(* The proxy and the second server agree about the remote publishers that    *)
(* are there: what runs can be joined, and what the server has somebody here *)
(* will remove. In the code a request may have its effect after it was given *)
(* up and an id may be used again while somebody waits for its last owner,   *)
(* and then they do not agree: this is about the instances without these.    *)
LEMMA ServerAgreesHolds == ASSUME NoDrift PROVE Spec => []ServerAgrees
<1>1. Sound /\ Settled => ServerAgrees
  <2>. SUFFICES ASSUME Sound, Settled PROVE ServerAgrees
    OBVIOUS
  <2>1. RunningIsThere
    <3>. SUFFICES ASSUME NEW r \in Remote, Running(r), Valid(rp[r].broom)
                  PROVE  pub[rp[r].pub].user \in janus.remote
      BY DEF RunningIsThere, Valid
    <3>1. Sound => pub[rp[r].pub].user \in User
      BY DEF Sound, Tree, RemoteOK, PubOK, Running
    <3>2. There(pub[rp[r].pub].user)
      BY DEF There, Runs
    <3>. QED  BY <3>1, <3>2 DEF Settled, Agrees
  <2>2. NoStray
    <3>. SUFFICES ASSUME NEW b \in BackendRoom, Valid(b), NEW u \in janus.remote
                  PROVE  \/ \E r \in Remote : Running(r) /\ pub[rp[r].pub].user = u
                         \/ \E c \in Subscriber : Begins(c) /\ task[c].user = u
      BY DEF NoStray, Valid, Begins
    <3>1. u \in User
      BY Types DEF Sound, Typed, JanusRec
    <3>. QED  BY <3>1 DEF Settled, Agrees, There, Runs, Adds, Answered, At, Begins
  <2>. QED  BY <2>1, <2>2 DEF ServerAgrees
<1>2. NoDrift /\ Sound /\ Settled /\ [Next]_vars => Settled'
  BY SettledStep
<1>3. Sound /\ Settled /\ [Next]_vars => Settled'
  BY <1>2
<1>. QED  BY <1>1, <1>3, SettledInit, SoundHolds, PTL DEF Spec
=============================================================================
