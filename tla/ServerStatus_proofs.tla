------------------------- MODULE ServerStatus_proofs -------------------------
(* What ServerStatus guarantees for any number of proxies and all faults:   *)
(* types, that no change of the status is slept through, and that the       *)
(* maintenance status is held.                                              *)
EXTENDS ServerStatus, TLAPS

(* The round robin stays within the proxies.                                *)
LEMMA NextIndexInRange == ASSUME NEW i \in Proxy PROVE NextIndex(i) \in Proxy
<1>1. Proxies \in Nat /\ Proxies > 0 /\ i \in Nat
  BY ServerStatusAssumption DEF Proxy
<1>2. i % Proxies \in 0..(Proxies - 1)
  BY <1>1
<1>. QED  BY <1>1, <1>2 DEF NextIndex, Proxy

(* A post of a that starts at the proxy whose turn it is has its type.      *)
LEMMA SendsTypes ==
    ASSUME NEW a \in Actor, NEW note \in Note, NEW left \in 0..Proxies,
           NEW p \in PosterRec, post \in [Actor -> PostRec], Sends(a, note, left, p)
    PROVE  post' \in [Actor -> PostRec] /\ poster' \in PosterRec
<1>1. p.index \in Proxy
  BY DEF PosterRec
<1>2. [pc |-> "send", note |-> note, to |-> p.index, left |-> left] \in PostRec
  BY <1>1 DEF PostRec
<1>3. NextIndex(p.index) \in Proxy
  BY <1>1, NextIndexInRange
<1>. QED  BY <1>2, <1>3 DEF Sends, PosterRec

LEMMA NoPostTypes == NoPost \in PostRec
<1>1. 1 \in Proxy /\ 0 \in 0..Proxies
  BY ServerStatusAssumption DEF Proxy
<1>. QED  BY <1>1 DEF NoPost, PostRec, Note

LEMMA BecomesTypes ==
    ASSUME NEW j \in JanusServerRec, poster \in PosterRec, Becomes(j)
    PROVE  js' \in JanusServerRec /\ poster' \in PosterRec
BY DEF Becomes, Notified, PosterRec

LEMMA StatusSetTypes ==
    ASSUME NEW j \in JanusServerRec, NEW s \in Status
    PROVE  StatusSet(j, s) \in JanusServerRec
BY DEF StatusSet, JanusServerRec, Status

LEMMA NoteOfTypes == ASSUME NEW s PROVE NoteOf(s) \in Note
BY DEF NoteOf, Note

LEMMA GivenUpTypes ==
    ASSUME TypeOK, NEW a \in Actor, GivenUp(a)
    PROVE  late' \in [to: Proxy, note: Note]
<1>1. post[a] \in PostRec
  BY DEF TypeOK
<1>. QED  BY <1>1 DEF TypeOK, GivenUp, PostRec

LEMMA ProcessEndsTypes ==
    ASSUME ProcessEnds
    PROVE  js' \in JanusServerRec /\ post' \in [Actor -> PostRec]
BY NoPostTypes DEF ProcessEnds, NoJanusServer, JanusServerRec, Status

LEMMA PostOverTypes ==
    ASSUME TypeOK, NEW a \in Actor, PostOver(a)
    PROVE  js' \in JanusServerRec /\ post' \in [Actor -> PostRec]
BY NoPostTypes, ProcessEndsTypes DEF TypeOK, PostOver

(* What an update puts into a directory is what a post carries.             *)
LEMMA UpdatedTypes ==
    ASSUME TypeOK, NEW x, NEW note \in Note, dir' = Updated(x, note)
    PROVE  dir' \in [Proxy -> Note \cup {"expired"}]
BY DEF TypeOK, Updated

-----------------------------------------------------------------------------
LEMMA TypeInit == Init => TypeOK
<1>1. 1 \in Proxy /\ 0 \in 0..Proxies
  BY ServerStatusAssumption DEF Proxy
<1>2. NoJanusServer \in JanusServerRec /\ NotLate \in [to: Proxy, note: Note]
  BY <1>1 DEF NoJanusServer, JanusServerRec, Status, NotLate, Note
<1>3. [event |-> FALSE, index |-> 1, told |-> "none"] \in PosterRec
  BY <1>1 DEF PosterRec, Note
<1>. SUFFICES ASSUME Init PROVE TypeOK
  OBVIOUS
<1>4. post \in [Actor -> PostRec]
  BY NoPostTypes DEF Init
<1>5. dir \in [Proxy -> Note \cup {"expired"}]
  BY DEF Init, Note
<1>. QED  BY <1>1, <1>2, <1>3, <1>4, <1>5 DEF Init, TypeOK

LEMMA TypeStep == TypeOK /\ [Next]_vars => TypeOK'
<1>. SUFFICES ASSUME TypeOK, [Next]_vars PROVE TypeOK'
  OBVIOUS
<1>t. /\ janus \in BOOLEAN /\ js \in JanusServerRec /\ post \in [Actor -> PostRec]
      /\ poster \in PosterRec /\ dir \in [Proxy -> Note \cup {"expired"}]
      /\ late \in [to: Proxy, note: Note] /\ sweep \in 0..Proxies
  BY DEF TypeOK
<1>n. Proxies \in Nat /\ Proxies - 1 \in 0..Proxies
  BY ServerStatusAssumption
<1>1. CASE JanusStarts
  BY <1>t, <1>1 DEF JanusStarts, TypeOK
<1>2. CASE \E closes \in BOOLEAN : JanusStops(closes)
  BY <1>t, <1>2 DEF JanusStops, TypeOK, JanusServerRec
<1>3. CASE PongArrives
  BY <1>t, <1>3 DEF PongArrives, TypeOK, JanusServerRec
<1>4. CASE PingAnswered
  <2>1. StatusSet([js EXCEPT !.pong = FALSE], "normal") \in JanusServerRec
    <3>1. [js EXCEPT !.pong = FALSE] \in JanusServerRec
      BY <1>t DEF JanusServerRec
    <3>. QED  BY <3>1, StatusSetTypes DEF Status
  <2>. QED  BY <1>t, <1>4, <2>1, BecomesTypes DEF PingAnswered, TypeOK
<1>5. CASE PingFails
  <2>1. FailedStatus([js EXCEPT !.conn = "none", !.closing = @ \/ js.conn = "open"])
          \in JanusServerRec
    <3>1. [js EXCEPT !.conn = "none", !.closing = @ \/ js.conn = "open"] \in JanusServerRec
      BY <1>t DEF JanusServerRec
    <3>. QED  BY <3>1, StatusSetTypes DEF FailedStatus, Status
  <2>. QED  BY <1>t, <1>5, <2>1, BecomesTypes DEF PingFails, TypeOK
<1>6. CASE ConnClosed
  <2>1. StatusSet([js EXCEPT !.closing = FALSE], "abnormal") \in JanusServerRec
    <3>1. [js EXCEPT !.closing = FALSE] \in JanusServerRec
      BY <1>t DEF JanusServerRec
    <3>. QED  BY <3>1, StatusSetTypes DEF Status
  <2>. QED  BY <1>t, <1>6, <2>1, BecomesTypes DEF ConnClosed, TypeOK
<1>7. CASE StartMaintenance
  <2>1. StatusSet(js, "maintenance") \in JanusServerRec
    BY <1>t, StatusSetTypes DEF Status
  <2>2. [StatusSet(js, "maintenance") EXCEPT !.maint = TRUE] \in JanusServerRec
    BY <2>1 DEF JanusServerRec
  <2>. QED  BY <1>t, <1>7, <2>2, BecomesTypes DEF StartMaintenance, TypeOK
<1>8. CASE StopMaintenance
  <2>1. StatusSet([js EXCEPT !.maint = FALSE], "abnormal") \in JanusServerRec
    <3>1. [js EXCEPT !.maint = FALSE] \in JanusServerRec
      BY <1>t DEF JanusServerRec
    <3>. QED  BY <3>1, StatusSetTypes DEF Status
  <2>. QED  BY <1>t, <1>8, <2>1, BecomesTypes DEF StopMaintenance, TypeOK
<1>9. CASE StatUpdated
  BY <1>t, <1>9 DEF StatUpdated, Notified, TypeOK, PosterRec
<1>10. CASE PosterWakes
  <2>1. Cleared(poster, NoteOf(js.status)) \in PosterRec
    BY <1>t, NoteOfTypes DEF Cleared, PosterRec
  <2>2. post' \in [Actor -> PostRec] /\ poster' \in PosterRec
    BY <1>t, <1>n, <1>10, <2>1, NoteOfTypes, SendsTypes DEF PosterWakes, Actor
  <2>. QED  BY <1>t, <1>10, <2>2 DEF PosterWakes, TypeOK
<1>11. CASE MainPosts
  <2>1. post' \in [Actor -> PostRec] /\ poster' \in PosterRec
    BY <1>t, <1>n, <1>11, NoteOfTypes, SendsTypes DEF MainPosts, Actor
  <2>. QED  BY <1>t, <1>11, <2>1 DEF MainPosts, TypeOK
<1>12. CASE Quit
  BY <1>t, <1>12 DEF Quit, NoJanusServer, TypeOK, JanusServerRec, Status
<1>13. CASE Killed
  <2>1. "poster" \in Actor
    BY DEF Actor
  <2>. QED  BY <1>t, <1>13, <2>1, ProcessEndsTypes, GivenUpTypes DEF Killed, TypeOK
<1>14. ASSUME NEW a \in Actor, PostEnds(a) PROVE TypeOK'
  <2>1. post[a] \in PostRec /\ "poster" \in Actor
    BY <1>t DEF Actor
  <2>2. CASE Delivered(a)
    <3>1. dir' \in [Proxy -> Note \cup {"expired"}]
      BY <2>1, <2>2, UpdatedTypes DEF Delivered, PostRec
    <3>. QED  BY <1>t, <2>1, <2>2, <3>1, PostOverTypes, GivenUpTypes DEF Delivered, TypeOK
  <2>3. CASE TriesNext(a)
    <3>1. post[a].note \in Note /\ post[a].left - 1 \in 0..Proxies
      BY <1>n, <2>1, <2>3 DEF TriesNext, PostRec
    <3>2. post' \in [Actor -> PostRec] /\ poster' \in PosterRec
      BY <1>t, <2>3, <3>1, SendsTypes DEF TriesNext
    <3>. QED  BY <1>t, <2>3, <3>2, GivenUpTypes DEF TriesNext, TypeOK
  <2>4. CASE PostFails(a)
    BY <1>t, <2>4, PostOverTypes, GivenUpTypes DEF PostFails, TypeOK
  <2>. QED  BY <1>14, <2>2, <2>3, <2>4 DEF PostEnds
<1>15. CASE LateArrives
  <2>1. late.note \in Note /\ NotLate \in [to: Proxy, note: Note]
    BY <1>t, ServerStatusAssumption DEF NotLate, Note, Proxy
  <2>2. dir' \in [Proxy -> Note \cup {"expired"}]
    BY <1>15, <2>1, UpdatedTypes DEF LateArrives
  <2>. QED  BY <1>t, <1>15, <2>1, <2>2 DEF LateArrives, TypeOK
<1>16. CASE SweepDeletes
  <2>1. dir' \in [Proxy -> Note \cup {"expired"}]
    BY <1>t, <1>16 DEF SweepDeletes, Note
  <2>2. sweep' \in 0..Proxies
    BY <1>n, <1>16 DEF SweepDeletes
  <2>. QED  BY <1>t, <1>16, <2>1, <2>2 DEF SweepDeletes, TypeOK
<1>17. ASSUME NEW x \in Proxy, Expires(x) \/ SweepFinds(x) \/ Dropped(x) PROVE TypeOK'
  <2>1. x \in 0..Proxies
    BY <1>n DEF Proxy
  <2>. QED  BY <1>t, <1>17, <2>1 DEF Expires, SweepFinds, Dropped, TypeOK, Note
<1>18. CASE UNCHANGED vars
  BY <1>18 DEF vars, TypeOK
<1>. QED
  BY <1>1, <1>2, <1>3, <1>4, <1>5, <1>6, <1>7, <1>8, <1>9, <1>10, <1>11, <1>12, <1>13,
     <1>14, <1>15, <1>16, <1>17, <1>18 DEF Next, PingGoesOn

(* Every variable keeps its type, for any number of proxies: in particular  *)
(* the round robin stays within them.                                       *)
THEOREM TypeCorrect == Spec => []TypeOK
BY TypeInit, TypeStep, PTL DEF Spec

-----------------------------------------------------------------------------
(* NoLostWakeup is inductive. Every change of the status goes through       *)
(* Becomes, which sets the event; the poster clears it and reads the status *)
(* in one step, and main()'s own post leaves both alone.                    *)
LEMMA WakeupKept ==
    ASSUME TypeOK, NoLostWakeup, NEW j \in JanusServerRec, Becomes(j), j.gone = js.gone
    PROVE  NoLostWakeup'
<1>1. CASE j.status # js.status
  BY <1>1 DEF Becomes, Notified, NoLostWakeup, TypeOK, PosterRec
<1>2. CASE j.status = js.status
  BY <1>2 DEF Becomes, NoLostWakeup, Alive
<1>. QED  BY <1>1, <1>2

LEMMA StatusSetKeeps ==
    ASSUME NEW j \in JanusServerRec, NEW s \in Status
    PROVE  StatusSet(j, s).gone = j.gone /\ StatusSet(j, s).maint = j.maint
BY DEF StatusSet, JanusServerRec

LEMMA WakeupStep == TypeOK /\ NoLostWakeup /\ [Next]_vars => NoLostWakeup'
<1>. SUFFICES ASSUME TypeOK, NoLostWakeup, [Next]_vars PROVE NoLostWakeup'
  OBVIOUS
<1>t. js \in JanusServerRec /\ poster \in PosterRec
  BY DEF TypeOK
<1>. DEFINE pinged == [js EXCEPT !.pong = FALSE]
            failed == [js EXCEPT !.conn = "none", !.closing = @ \/ js.conn = "open"]
            closed == [js EXCEPT !.closing = FALSE]
            served == [js EXCEPT !.maint = FALSE]
            kept == [StatusSet(js, "maintenance") EXCEPT !.maint = TRUE]
<1>r. /\ \A j \in {pinged, failed, closed, served} : j \in JanusServerRec /\ j.gone = js.gone
      /\ kept \in JanusServerRec /\ kept.gone = js.gone
  <2>1. StatusSet(js, "maintenance") \in JanusServerRec
    BY <1>t, StatusSetTypes DEF Status
  <2>2. StatusSet(js, "maintenance").gone = js.gone
    BY <1>t, StatusSetKeeps DEF Status
  <2>3. kept \in JanusServerRec /\ kept.gone = js.gone
    BY <2>1, <2>2 DEF JanusServerRec
  <2>. QED  BY <1>t, <2>3 DEF JanusServerRec
<1>1. CASE JanusStarts
  BY <1>1 DEF JanusStarts, NoLostWakeup, Alive
<1>2. CASE \E closes \in BOOLEAN : JanusStops(closes)
  BY <1>t, <1>2 DEF JanusStops, NoLostWakeup, Alive, JanusServerRec
<1>3. CASE PongArrives
  BY <1>t, <1>3 DEF PongArrives, NoLostWakeup, Alive, JanusServerRec
<1>s. ASSUME NEW j \in {pinged, failed, closed, served}, NEW s \in Status,
             Becomes(StatusSet(j, s))
      PROVE  NoLostWakeup'
  <2>1. StatusSet(j, s) \in JanusServerRec /\ StatusSet(j, s).gone = js.gone
    BY <1>r, StatusSetTypes, StatusSetKeeps
  <2>. QED  BY <1>s, <2>1, WakeupKept
<1>4. CASE PingAnswered
  BY <1>s, <1>4 DEF PingAnswered, Status
<1>5. CASE PingFails
  BY <1>s, <1>5 DEF PingFails, FailedStatus, Status
<1>6. CASE ConnClosed
  BY <1>s, <1>6 DEF ConnClosed, Status
<1>7. CASE StartMaintenance
  BY <1>r, <1>7, WakeupKept DEF StartMaintenance
<1>8. CASE StopMaintenance
  BY <1>s, <1>8 DEF StopMaintenance, Status
<1>9. CASE StatUpdated
  BY <1>t, <1>9 DEF StatUpdated, Notified, NoLostWakeup, PosterRec
<1>10. CASE PosterWakes
  BY <1>t, <1>10 DEF PosterWakes, Sends, Cleared, NoLostWakeup, PosterRec
<1>11. CASE MainPosts
  BY <1>t, <1>11 DEF MainPosts, Sends, NoLostWakeup, Alive, PosterRec
<1>12. CASE Quit
  BY <1>12 DEF Quit, NoJanusServer, NoLostWakeup, Alive
<1>13. CASE Killed
  BY <1>13 DEF Killed, ProcessEnds, NoJanusServer, NoLostWakeup, Alive
<1>14. ASSUME NEW a \in Actor, PostEnds(a) PROVE NoLostWakeup'
  <2>1. CASE UNCHANGED poster
    <3>1. UNCHANGED js \/ ProcessEnds
      BY <1>14 DEF PostEnds, Delivered, TriesNext, PostFails, PostOver
    <3>. QED  BY <2>1, <3>1 DEF ProcessEnds, NoJanusServer, NoLostWakeup, Alive
  <2>2. CASE TriesNext(a)
    BY <1>t, <2>2 DEF TriesNext, Sends, NoLostWakeup, Alive, PosterRec
  <2>. QED  BY <1>14, <2>1, <2>2 DEF PostEnds, Delivered, PostFails
<1>15. CASE LateArrives
  BY <1>15 DEF LateArrives, NoLostWakeup, Alive
<1>16. CASE SweepDeletes
  BY <1>16 DEF SweepDeletes, NoLostWakeup, Alive
<1>17. ASSUME NEW x \in Proxy, Expires(x) \/ SweepFinds(x) \/ Dropped(x) PROVE NoLostWakeup'
  BY <1>17 DEF Expires, SweepFinds, Dropped, NoLostWakeup, Alive
<1>18. CASE UNCHANGED vars
  BY <1>18 DEF vars, NoLostWakeup, Alive
<1>. QED
  BY <1>1, <1>2, <1>3, <1>4, <1>5, <1>6, <1>7, <1>8, <1>9, <1>10, <1>11, <1>12, <1>13,
     <1>14, <1>15, <1>16, <1>17, <1>18 DEF Next, PingGoesOn

(* The poster never sleeps through a change of the status, whatever pings,  *)
(* closed connections, maintenance and posts do while it waits for a proxy. *)
THEOREM NoLostWakeupHolds == Spec => []NoLostWakeup
<1>1. Init => NoLostWakeup
  BY DEF Init, NoLostWakeup
<1>. QED  BY <1>1, TypeInit, TypeStep, WakeupStep, PTL DEF Spec

-----------------------------------------------------------------------------
(* StatusHeld is inductive too: only StatusSet changes the status, and it   *)
(* leaves one under maintenance and a destroyed one alone.                  *)
LEMMA HeldByStatusSet ==
    ASSUME StatusHeld, NEW j \in JanusServerRec, NEW s \in Status,
           j.gone = js.gone, j.status = js.status, j.maint = js.maint \/ ~j.maint,
           js' = StatusSet(j, s)
    PROVE  StatusHeld'
<1>1. CASE j.gone = "no" /\ ~j.maint
  BY <1>1 DEF StatusSet, StatusHeld, Alive, JanusServerRec
<1>2. CASE ~(j.gone = "no" /\ ~j.maint)
  BY <1>2 DEF StatusSet, StatusHeld, Alive
<1>. QED  BY <1>1, <1>2

LEMMA HeldStep == TypeOK /\ StatusHeld /\ [Next]_vars => StatusHeld'
<1>. SUFFICES ASSUME TypeOK, StatusHeld, [Next]_vars PROVE StatusHeld'
  OBVIOUS
<1>t. js \in JanusServerRec
  BY DEF TypeOK
<1>1. CASE UNCHANGED js
  BY <1>1 DEF StatusHeld, Alive
<1>2. CASE \E closes \in BOOLEAN : JanusStops(closes)
  BY <1>t, <1>2 DEF JanusStops, StatusHeld, Alive, JanusServerRec
<1>3. CASE PongArrives
  BY <1>t, <1>3 DEF PongArrives, StatusHeld, Alive, JanusServerRec
<1>4. CASE PingAnswered
  <2>1. [js EXCEPT !.pong = FALSE] \in JanusServerRec
    BY <1>t DEF JanusServerRec
  <2>. QED  BY <1>t, <1>4, <2>1, HeldByStatusSet DEF PingAnswered, Becomes, Status, JanusServerRec
<1>5. CASE PingFails
  <2>1. [js EXCEPT !.conn = "none", !.closing = @ \/ js.conn = "open"] \in JanusServerRec
    BY <1>t DEF JanusServerRec
  <2>. QED  BY <1>t, <1>5, <2>1, HeldByStatusSet DEF PingFails, FailedStatus, Becomes, Status, JanusServerRec
<1>6. CASE ConnClosed
  <2>1. [js EXCEPT !.closing = FALSE] \in JanusServerRec
    BY <1>t DEF JanusServerRec
  <2>. QED  BY <1>t, <1>6, <2>1, HeldByStatusSet DEF ConnClosed, Becomes, Status, JanusServerRec
<1>7. CASE StartMaintenance
  <2>1. js' = [StatusSet(js, "maintenance") EXCEPT !.maint = TRUE]
    BY <1>7 DEF StartMaintenance, Becomes
  <2>. QED  BY <1>t, <1>7, <2>1 DEF StartMaintenance, StatusSet, StatusHeld, Alive, JanusServerRec
<1>8. CASE StopMaintenance
  <2>1. [js EXCEPT !.maint = FALSE] \in JanusServerRec
    BY <1>t DEF JanusServerRec
  <2>. QED  BY <1>t, <1>8, <2>1, HeldByStatusSet DEF StopMaintenance, Becomes, Status, JanusServerRec
<1>9. CASE Quit \/ ProcessEnds
  BY <1>9 DEF Quit, ProcessEnds, NoJanusServer, StatusHeld, Alive
<1>10. ASSUME NEW a \in Actor, PostEnds(a) PROVE UNCHANGED js \/ ProcessEnds
  BY <1>10 DEF PostEnds, Delivered, TriesNext, PostFails, PostOver
<1>. QED
  BY <1>1, <1>2, <1>3, <1>4, <1>5, <1>6, <1>7, <1>8, <1>9, <1>10
     DEF Next, PingGoesOn, vars, JanusStarts, StatUpdated, PosterWakes, MainPosts, Killed,
         LateArrives, SweepDeletes, Expires, SweepFinds, Dropped

(* No ping that waits and no broken connection ends a maintenance, and a    *)
(* destroyed JanusServer is never NORMAL again.                             *)
THEOREM StatusHeldHolds == Spec => []StatusHeld
<1>1. Init => StatusHeld
  BY DEF Init, NoJanusServer, StatusHeld, Alive
<1>. QED  BY <1>1, TypeInit, TypeStep, HeldStep, PTL DEF Spec
=============================================================================
