------------------------- MODULE CreatureWalkProofs -------------------------
(***************************************************************************)
(* Theorems about CreatureWalk: the tasks of the scheduler have one owner, *)
(* the walk event of a creature is never one that is dead.                 *)
(***************************************************************************)
EXTENDS CreatureWalk, FiniteSetTheorems, TLAPS

(* The handlers that own a task object: the one that will set its timer,   *)
(* and the completions of its timer.                                       *)
Owner == {"insert", "fire", "abort"}

(* Ids that are in use were given out by addEvent. *)
Issued ==
  /\ \A i \in DOMAIN handlers :
       handlers[i].op # "cancelAll" => handlers[i].id \in 1 .. lastEventId
  /\ \A i \in DOMAIN taskList : taskList[i] \in 1 .. lastEventId
  /\ DOMAIN timers \subseteq 1 .. lastEventId
  /\ walk.eventWalk <= lastEventId /\ walk.walkTaskEvent <= lastEventId
  /\ inHand <= lastEventId

(* The owners of one task do not exist twice, nor beside one another. *)
OneOwner ==
  /\ \A i, j \in DOMAIN handlers :
       (handlers[i].op \in Owner /\ handlers[j].op \in Owner /\ handlers[i].id = handlers[j].id)
         => i = j
  /\ \A i, j \in DOMAIN taskList : taskList[i] = taskList[j] => i = j
  /\ \A i \in DOMAIN handlers, j \in DOMAIN taskList :
       handlers[i].op \in Owner => handlers[i].id # taskList[j]
  /\ \A i \in DOMAIN handlers : handlers[i].op = "insert" => handlers[i].id \notin DOMAIN timers
  /\ \A j \in DOMAIN taskList : taskList[j] \notin DOMAIN timers

(* The task that the scheduler thread hands over is nowhere else. *)
HandAlone ==
  inHand # 0 =>
    /\ \A i \in DOMAIN handlers : handlers[i].op \in Owner => handlers[i].id # inHand
    /\ \A j \in DOMAIN taskList : taskList[j] # inHand
    /\ inHand \notin DOMAIN timers

(* While the io_context runs, a completion is queued for the timers that are *)
(* completing and for no other.                                              *)
Completions ==
  ~ioStopped =>
    /\ \A id \in DOMAIN timers :
         timers[id] = "completing" =>
           \E i \in DOMAIN handlers : handlers[i].op \in {"fire", "abort"} /\ handlers[i].id = id
    /\ \A i \in DOMAIN handlers :
         handlers[i].op \in {"fire", "abort"} =>
           handlers[i].id \in DOMAIN timers /\ timers[handlers[i].id] = "completing"

(* Before shutdown the io_context runs and the dispatcher takes tasks.  When *)
(* a running server ends, the dispatcher is closed before the scheduler.     *)
Running ==
  /\ schedState = "RUNNING" =>
       /\ dispatcherOpen /\ ~ioStopped
       /\ \A i \in DOMAIN handlers : handlers[i].op # "cancelAll"
  /\ online /\ schedState # "RUNNING" => ~dispatcherOpen

(* eventWalk and walkTaskEvent name events of their kinds, never each other's. *)
Kinds ==
  /\ walk.eventWalk # 0 => kind[walk.eventWalk] = "walk"
  /\ walk.walkTaskEvent # 0 => kind[walk.walkTaskEvent] = "action"

(* Who is in the game has health or is about to die, and nobody else walks. *)
Living ==
  /\ walk.eventWalk # 0 => walk.present
  /\ walk.present <=> (walk.healthy \/ walk.dying)

(* Nobody has stopped the event that eventWalk names, and it is to come,     *)
(* unless it has run while the player was dying.                             *)
Alive ==
  (schedState = "RUNNING" /\ walk.eventWalk # 0) =>
    /\ \A i \in DOMAIN handlers :
         handlers[i].op \in {"cancel", "abort"} => handlers[i].id # walk.eventWalk
    /\ \/ walk.dying \/ inHand = walk.eventWalk
       \/ \E i \in DOMAIN handlers : handlers[i] = Handler("insert", walk.eventWalk)
       \/ walk.eventWalk \in DOMAIN timers
       \/ \E j \in DOMAIN taskList : taskList[j] = walk.eventWalk

Inv ==
  /\ TypeOK
  /\ Issued
  /\ OneOwner
  /\ HandAlone
  /\ Completions
  /\ Running
  /\ Kinds
  /\ Living
  /\ Alive

-----------------------------------------------------------------------------
(* The handlers of the player, as far as they have gone. *)

Fields == [eventWalk : Nat, steps : 0 .. MaxPath, cancelNextWalk : BOOLEAN, walkTask : BOOLEAN,
           walkTaskEvent : Nat, resting : BOOLEAN, slow : BOOLEAN,
           present : BOOLEAN, healthy : BOOLEAN, dying : BOOLEAN]

Entry == [op : Op, id : Nat]

Progress == [w : Fields, kind : Seq({"walk", "action", "script"}), posts : Seq(Entry)]

(* What a handler has posted: inserts of all the ids that it was given, once *)
(* each, and cancellations.                                                  *)
PostsSound(s) ==
  /\ \A i \in DOMAIN s.posts :
       /\ s.posts[i].op \in {"insert", "cancel"}
       /\ s.posts[i].id \in 1 .. Len(s.kind)
       /\ s.posts[i].op = "insert" => s.posts[i].id > lastEventId
  /\ \A i, j \in DOMAIN s.posts :
       (s.posts[i].op = "insert" /\ s.posts[j].op = "insert" /\ s.posts[i].id = s.posts[j].id)
         => i = j
  /\ \A id \in lastEventId + 1 .. Len(s.kind) :
       \E i \in DOMAIN s.posts : s.posts[i] = Handler("insert", id)

KindsSound(s) ==
  /\ Len(s.kind) >= lastEventId
  /\ \A id \in 1 .. lastEventId : s.kind[id] = kind[id]
  /\ s.w.eventWalk <= Len(s.kind) /\ s.w.walkTaskEvent <= Len(s.kind)
  /\ s.w.eventWalk # 0 => s.kind[s.w.eventWalk] = "walk"
  /\ s.w.walkTaskEvent # 0 => s.kind[s.w.walkTaskEvent] = "action"

(* Whether the player is there, has health, and is about to die. *)
Life(w) == <<w.present, w.healthy, w.dying>>

(* The walk event is the one from before or a new one, and is not stopped. *)
WalkSound(s) ==
  s.w.eventWalk # 0 =>
    /\ walk.present
    /\ s.w.eventWalk = walk.eventWalk \/ s.w.eventWalk > lastEventId
    /\ \A i \in DOMAIN s.posts : s.posts[i] # Handler("cancel", s.w.eventWalk)

(* What may be finished, and what besides leaves life and death alone. *)
Settled(s) == s \in Progress /\ PostsSound(s) /\ KindsSound(s) /\ WalkSound(s)
Sound(s) == Settled(s) /\ Life(s.w) = Life(walk)


(* The types of a walk, whatever the ids. *)
LEMMA WalkFields == ASSUME TypeOK PROVE walk \in Fields
  BY WalkAssumption DEF TypeOK, Walk, Fields

(* A handler begins with the player as it is and nothing posted. *)
LEMMA StartSound == ASSUME Inv PROVE Sound(Start)
<1>1. /\ TypeOK /\ Issued /\ Kinds /\ Living BY DEF Inv
<1>2. lastEventId \in Nat /\ kind \in Seq({"walk", "action", "script"}) /\ Len(kind) = lastEventId
  BY <1>1, WalkAssumption DEF TypeOK, SchedTypeOK
<1>3. Start \in Progress BY <1>1, <1>2, WalkFields DEF Start, Progress
<1>4. PostsSound(Start) BY <1>2 DEF Start, PostsSound
<1>5. KindsSound(Start) BY <1>1, <1>2 DEF Start, KindsSound, Issued, Kinds
<1>6. WalkSound(Start) BY <1>1 DEF Start, WalkSound, Living
<1>7. Life(Start.w) = Life(walk) BY DEF Start
<1> QED BY <1>7, <1>3, <1>4, <1>5, <1>6 DEF Sound, Settled

(* One more entry at the end of a sequence. *)
LEMMA Appended ==
  ASSUME NEW S, NEW ps \in Seq(S), NEW x \in S, NEW qs, qs = ps \o <<x>>
  PROVE  /\ qs \in Seq(S) /\ Len(qs) = Len(ps) + 1 /\ qs[Len(ps) + 1] = x
         /\ \A i \in 1 .. Len(ps) : qs[i] = ps[i]
<1>1. qs \in Seq(S) /\ Len(qs) = Len(ps) + 1 OBVIOUS
<1>2. qs[Len(ps) + 1] = x OBVIOUS
<1>3. \A i \in 1 .. Len(ps) : qs[i] = ps[i] OBVIOUS
<1> QED BY <1>1, <1>2, <1>3

(* What is posted by an added event. *)
LEMMA OneInsert ==
  ASSUME NEW id \in Nat
  PROVE  /\ Inserts(<<id>>) = <<Handler("insert", id)>>
         /\ Handler("insert", id) \in Entry
<1>1. Inserts(<<id>>) = <<Handler("insert", id)>> BY DEF Inserts
<1>2. Handler("insert", id) \in Entry BY DEF Handler, Op, Entry
<1> QED BY <1>1, <1>2

(* What is posted by a stopped event. *)
LEMMA OneCancel ==
  ASSUME NEW id \in Nat
  PROVE  /\ Cancel(id) = IF id = 0 THEN <<>> ELSE <<Handler("cancel", id)>>
         /\ Handler("cancel", id) \in Entry
<1>1. Cancel(id) = IF id = 0 THEN <<>> ELSE <<Handler("cancel", id)>> BY DEF Cancel
<1>2. Handler("cancel", id) \in Entry BY DEF Handler, Op, Entry
<1> QED BY <1>1, <1>2

(* Stopping an event posts and does nothing else. *)
LEMMA StopEventProgress ==
  ASSUME NEW s \in Progress, NEW id \in Nat, NEW t, t = StopEvent(s, id)
  PROVE  /\ t \in Progress
         /\ t.w = s.w /\ t.kind = s.kind /\ t.posts = s.posts \o Cancel(id)
<1> DEFINE ps == s.posts
           x == Handler("cancel", id)
<1>1. ps \in Seq(Entry) BY DEF Progress
<1>2. x \in Entry BY OneCancel
<1>3. ps \o Cancel(id) \in Seq(Entry)
  <2>1. CASE id = 0
    <3>1. Cancel(id) = <<>> BY <2>1, OneCancel
    <3> HIDE DEF ps
    <3> QED BY <1>1, <3>1
  <2>2. CASE id # 0
    <3>1. Cancel(id) = <<x>> BY <2>2, OneCancel
    <3> HIDE DEF ps, x
    <3> QED BY <1>1, <1>2, <3>1
  <2> QED BY <2>1, <2>2
<1> QED BY <1>3 DEF StopEvent, Progress

(* An added event has the next id, its kind, and one insert. *)
LEMMA AddEventSound ==
  ASSUME TypeOK, NEW s, Sound(s), NEW k \in {"walk", "action", "script"},
         NEW t, t = AddEvent(s, k), NEW new, new = Len(s.kind) + 1
  PROVE  /\ Sound(t)
         /\ t.w = s.w /\ Len(t.kind) = new /\ t.kind[new] = k
         /\ \A i \in DOMAIN t.posts : t.posts[i] # Handler("cancel", new)
<1> DEFINE ps == s.posts
           qs == t.posts
<1>1. /\ s \in Progress /\ PostsSound(s) /\ KindsSound(s) /\ WalkSound(s) BY DEF Sound, Settled
<1>2. lastEventId \in Nat /\ new \in Nat BY <1>1, WalkAssumption DEF Progress, TypeOK, SchedTypeOK
<1>3. /\ s.w \in Fields /\ s.kind \in Seq({"walk", "action", "script"}) /\ ps \in Seq(Entry)
  BY <1>1 DEF Progress
<1>4. t.w = s.w /\ t.kind = Append(s.kind, k) /\ qs = ps \o Inserts(<<new>>)
  BY <1>1 DEF AddEvent, Progress
<1>5. /\ t.kind \in Seq({"walk", "action", "script"}) /\ Len(t.kind) = new /\ t.kind[new] = k
      /\ \A i \in 1 .. Len(s.kind) : t.kind[i] = s.kind[i]
  BY <1>3, <1>4
<1>6. /\ qs \in Seq(Entry) /\ Len(qs) = Len(ps) + 1
      /\ \A i \in 1 .. Len(ps) : qs[i] = ps[i]
      /\ qs[Len(ps) + 1] = Handler("insert", new)
  <2>1. qs = ps \o <<Handler("insert", new)>> BY <1>2, <1>4, OneInsert
  <2>2. Handler("insert", new) \in Entry BY <1>2, OneInsert
  <2> HIDE DEF qs, ps
  <2> QED BY <1>3, <2>1, <2>2, Appended
<1>7. t \in Progress BY <1>1, <1>4, <1>5, <1>6 DEF Progress, AddEvent
<1>8. t.w = s.w BY <1>4
<1>9. DOMAIN qs = 1 .. Len(ps) + 1 /\ DOMAIN ps = 1 .. Len(ps) /\ Len(ps) \in Nat BY <1>3, <1>6
<1>10. Handler("insert", new).op = "insert" /\ Handler("insert", new).id = new BY DEF Handler
<1>11. PostsSound(t)
  <2>1. \A i \in DOMAIN ps : /\ ps[i].op \in {"insert", "cancel"} /\ ps[i].id \in 1 .. Len(s.kind)
                             /\ ps[i].op = "insert" => ps[i].id > lastEventId
    BY <1>1 DEF PostsSound
  <2>2. lastEventId <= Len(s.kind) /\ Len(s.kind) \in Nat BY <1>1, <1>3 DEF KindsSound
  <2>3. ASSUME NEW i \in DOMAIN qs
        PROVE  /\ qs[i].op \in {"insert", "cancel"} /\ qs[i].id \in 1 .. Len(t.kind)
               /\ qs[i].op = "insert" => qs[i].id > lastEventId
    <3>1. CASE i \in DOMAIN ps
      <4>1. qs[i] = ps[i] BY <1>6, <1>9, <3>1
      <4> QED BY <1>5, <2>1, <2>2, <3>1, <4>1
    <3>2. CASE i = Len(ps) + 1
      <4>1. qs[i].op = "insert" /\ qs[i].id = new BY <1>6, <1>10, <3>2
      <4>2. qs[i].id \in 1 .. Len(t.kind) /\ qs[i].id > lastEventId BY <1>2, <1>5, <2>2, <4>1
      <4> QED BY <4>1, <4>2
    <3> QED BY <1>9, <3>1, <3>2
  <2>4. ASSUME NEW i \in DOMAIN qs, NEW j \in DOMAIN qs,
               qs[i].op = "insert", qs[j].op = "insert", qs[i].id = qs[j].id
        PROVE  i = j
    <3>1. CASE i \in DOMAIN ps /\ j \in DOMAIN ps
      BY <1>1, <1>6, <1>9, <2>4, <3>1 DEF PostsSound
    <3>2. CASE i = Len(ps) + 1 /\ j \in DOMAIN ps
      <4>1. qs[i].id = new /\ qs[j] = ps[j] BY <1>6, <1>9, <1>10, <3>2
      <4> QED BY <2>1, <2>2, <2>4, <3>2, <4>1
    <3>3. CASE j = Len(ps) + 1 /\ i \in DOMAIN ps
      <4>1. qs[j].id = new /\ qs[i] = ps[i] BY <1>6, <1>9, <1>10, <3>3
      <4> QED BY <2>1, <2>2, <2>4, <3>3, <4>1
    <3> QED BY <1>9, <3>1, <3>2, <3>3
  <2>5. ASSUME NEW id \in lastEventId + 1 .. Len(t.kind)
        PROVE  \E i \in DOMAIN qs : qs[i] = Handler("insert", id)
    <3>1. CASE id = new BY <1>6, <1>9, <3>1
    <3>2. CASE id # new
      <4>1. id \in lastEventId + 1 .. Len(s.kind) BY <1>2, <1>5, <2>2, <3>2
      <4>2. PICK i \in DOMAIN ps : ps[i] = Handler("insert", id) BY <1>1, <4>1 DEF PostsSound
      <4> QED BY <1>6, <1>9, <4>2
    <3> QED BY <3>1, <3>2
  <2> QED BY <2>3, <2>4, <2>5 DEF PostsSound
<1>12. KindsSound(t)
  BY <1>1, <1>2, <1>3, <1>5, <1>8, SMTT(30) DEF KindsSound, Fields
<1>13. \A i \in DOMAIN qs : qs[i] # Handler("cancel", new)
  <2>1. \A i \in DOMAIN ps : ps[i].id \in 1 .. Len(s.kind) BY <1>1 DEF PostsSound
  <2>2. \A i \in DOMAIN ps : ps[i].id # new BY <1>2, <1>3, <2>1
  <2>3. Handler("cancel", new).id = new /\ Handler("cancel", new).op = "cancel" BY DEF Handler
  <2> QED BY <1>6, <1>9, <1>10, <2>2, <2>3
<1>14. WalkSound(t)
  <2>1. Handler("cancel", s.w.eventWalk).op = "cancel" BY DEF Handler
  <2> QED BY <1>1, <1>6, <1>8, <1>9, <1>10, <2>1 DEF WalkSound
<1> QED BY <1>5, <1>7, <1>8, <1>11, <1>12, <1>13, <1>14 DEF Sound, Settled

(* The fields may change as they like, but an id that changes must be that  *)
(* of an event of its kind, which is new and is not stopped.                 *)
LEMMA FieldsSound ==
  ASSUME NEW s, Sound(s), NEW t \in Progress, t.kind = s.kind, t.posts = s.posts,
         Life(t.w) = Life(s.w),
         \/ t.w.eventWalk \in {0, s.w.eventWalk}
         \/ /\ t.w.eventWalk \in lastEventId + 1 .. Len(s.kind)
            /\ s.kind[t.w.eventWalk] = "walk" /\ walk.present
            /\ \A i \in DOMAIN s.posts : s.posts[i] # Handler("cancel", t.w.eventWalk),
         \/ t.w.walkTaskEvent \in {0, s.w.walkTaskEvent}
         \/ t.w.walkTaskEvent \in 1 .. Len(s.kind) /\ s.kind[t.w.walkTaskEvent] = "action",
         lastEventId \in Nat
  PROVE  Sound(t)
<1>1. PostsSound(t) BY DEF Sound, Settled, PostsSound
<1>2. KindsSound(t)
  <2>1. Len(s.kind) \in Nat BY DEF Sound, Settled, Progress
  <2> QED BY <2>1 DEF Sound, Settled, KindsSound
<1>3. WalkSound(t) BY DEF Sound, Settled, WalkSound
<1> QED BY <1>1, <1>2, <1>3 DEF Sound, Settled

(* An event may be stopped when eventWalk does not name it, or no longer. *)
LEMMA StopEventSound ==
  ASSUME NEW s, Sound(s), NEW id \in 0 .. Len(s.kind), NEW t \in Progress,
         Life(t.w) = Life(s.w),
         t.kind = s.kind, t.posts = s.posts \o Cancel(id),
         t.w.eventWalk \in {0, s.w.eventWalk}, t.w.eventWalk # 0 => t.w.eventWalk # id,
         t.w.walkTaskEvent \in {0, s.w.walkTaskEvent}
  PROVE  Sound(t)
<1> DEFINE w == t.w
           ps == s.posts
           qs == t.posts
<1>1. /\ s \in Progress /\ PostsSound(s) /\ KindsSound(s) /\ WalkSound(s) BY DEF Sound, Settled
<1>2. /\ s.kind \in Seq({"walk", "action", "script"}) /\ ps \in Seq(Entry) BY <1>1 DEF Progress
<1>3. id \in Nat /\ Len(s.kind) \in Nat BY <1>2
<1>4. qs = ps \o Cancel(id) OBVIOUS
<1>5. /\ qs \in Seq(Entry)
      /\ id = 0 => qs = ps
      /\ id # 0 => Len(qs) = Len(ps) + 1 /\ qs[Len(ps) + 1] = Handler("cancel", id)
      /\ \A i \in 1 .. Len(ps) : qs[i] = ps[i]
  <2>1. CASE id = 0
    <3>1. qs = ps BY <1>2, <1>4, <2>1, OneCancel
    <3> QED BY <1>2, <2>1, <3>1
  <2>2. CASE id # 0
    <3>1. qs = ps \o <<Handler("cancel", id)>> BY <1>3, <1>4, <2>2, OneCancel
    <3>2. Handler("cancel", id) \in Entry BY <1>3, OneCancel
    <3> HIDE DEF qs, ps
    <3> QED BY <1>2, <2>2, <3>1, <3>2, Appended
  <2> QED BY <2>1, <2>2
<1>6. t \in Progress OBVIOUS
<1>7. t.kind = s.kind OBVIOUS
<1>8. /\ DOMAIN ps = 1 .. Len(ps) /\ Len(ps) \in Nat
      /\ DOMAIN qs = IF id = 0 THEN DOMAIN ps ELSE 1 .. Len(ps) + 1
  BY <1>2, <1>5
<1>9. Handler("cancel", id).op = "cancel" /\ Handler("cancel", id).id = id BY DEF Handler
<1>10. \A i \in DOMAIN qs : i \in DOMAIN ps \/ (id # 0 /\ qs[i] = Handler("cancel", id))
  BY <1>5, <1>8
<1>11. \A i \in DOMAIN ps : i \in DOMAIN qs /\ qs[i] = ps[i] BY <1>5, <1>8
<1>12. PostsSound(t)
  <2>1. \A i \in DOMAIN qs : /\ qs[i].op \in {"insert", "cancel"} /\ qs[i].id \in 1 .. Len(t.kind)
                             /\ qs[i].op = "insert" => qs[i].id > lastEventId
    BY <1>1, <1>3, <1>7, <1>9, <1>10, <1>11 DEF PostsSound
  <2>2. \A i, j \in DOMAIN qs :
          (qs[i].op = "insert" /\ qs[j].op = "insert" /\ qs[i].id = qs[j].id) => i = j
    BY <1>1, <1>9, <1>10, <1>11 DEF PostsSound
  <2>3. \A e \in lastEventId + 1 .. Len(t.kind) :
          \E i \in DOMAIN qs : qs[i] = Handler("insert", e)
    BY <1>1, <1>7, <1>11 DEF PostsSound
  <2> QED BY <2>1, <2>2, <2>3 DEF PostsSound
<1>13. KindsSound(t) BY <1>1, <1>3, <1>7 DEF KindsSound
<1>14. WalkSound(t)
  <2>1. Handler("cancel", w.eventWalk).id = w.eventWalk BY DEF Handler
  <2> QED BY <1>1, <1>7, <1>9, <1>10, <1>11, <2>1 DEF WalkSound
<1> QED BY <1>6, <1>12, <1>13, <1>14 DEF Sound, Settled

-----------------------------------------------------------------------------
(* What the parts of a handler do: each keeps it sound. *)

(* stopEventWalk. *)
LEMMA StopEventWalkSound ==
  ASSUME NEW s, Sound(s), NEW t, t = StopEventWalk(s)
  PROVE  /\ Sound(t) /\ t.kind = s.kind
         /\ t.w = [s.w EXCEPT !.eventWalk = 0]
<1> DEFINE id == s.w.eventWalk
           u == StopEvent(s, id)
<1>1. s \in Progress /\ KindsSound(s) BY DEF Sound, Settled
<1>2. /\ s.w \in Fields /\ id \in Nat /\ Len(s.kind) \in Nat BY <1>1 DEF Progress, Fields
<1>3. id \in 0 .. Len(s.kind) BY <1>1, <1>2 DEF KindsSound
<1>4. u \in Progress /\ u.w = s.w /\ u.kind = s.kind /\ u.posts = s.posts \o Cancel(id)
  BY <1>1, <1>2, StopEventProgress
<1>5. t = [u EXCEPT !.w.eventWalk = 0] BY DEF StopEventWalk
<1> HIDE DEF u
<1> DEFINE w == [u.w EXCEPT !.eventWalk = 0]
<1>6. /\ t \in Progress /\ t.w = [s.w EXCEPT !.eventWalk = 0]
      /\ t.kind = s.kind /\ t.posts = s.posts \o Cancel(id)
  <2>1. w \in Fields BY <1>2, <1>4 DEF Fields
  <2>2. t = [u EXCEPT !.w = w] BY <1>4, <1>5 DEF Progress
  <2>3. w = [s.w EXCEPT !.eventWalk = 0] BY <1>4
  <2> HIDE DEF w
  <2>4. t \in Progress /\ t.w = w /\ t.kind = u.kind /\ t.posts = u.posts
    BY <1>4, <2>1, <2>2 DEF Progress
  <2> QED BY <1>4, <2>3, <2>4
<1>7. /\ t.w.eventWalk = 0 /\ t.w.walkTaskEvent = s.w.walkTaskEvent
      /\ Life(t.w) = Life(s.w)
  BY <1>2, <1>6 DEF Fields, Life
<1>8. Sound(t) BY <1>3, <1>6, <1>7, StopEventSound
<1> QED BY <1>6, <1>8

(* setNextWalkActionTask stops an event that eventWalk does not name. *)
LEMMA SetNextSound ==
  ASSUME NEW s, Sound(s), NEW task \in BOOLEAN, NEW t, t = SetNextWalkActionTask(s, task)
  PROVE  /\ Sound(t) /\ t.kind = s.kind
         /\ t.w = [s.w EXCEPT !.walkTaskEvent = 0, !.walkTask = task]
<1> DEFINE id == s.w.walkTaskEvent
           u == StopEvent(s, id)
<1>1. s \in Progress /\ KindsSound(s) BY DEF Sound, Settled
<1>2. /\ s.w \in Fields /\ id \in Nat /\ Len(s.kind) \in Nat BY <1>1 DEF Progress, Fields
<1>3. id \in 0 .. Len(s.kind) BY <1>1, <1>2 DEF KindsSound
<1>4. u \in Progress /\ u.w = s.w /\ u.kind = s.kind /\ u.posts = s.posts \o Cancel(id)
  BY <1>1, <1>2, StopEventProgress
<1>5. t = [u EXCEPT !.w.walkTaskEvent = 0, !.w.walkTask = task] BY DEF SetNextWalkActionTask
<1> HIDE DEF u
<1>6. /\ t \in Progress /\ t.kind = s.kind /\ t.posts = s.posts \o Cancel(id)
  <2>1. t.kind = u.kind /\ t.posts = u.posts BY <1>4, <1>5 DEF Progress
  <2>2. t \in Progress
    <3> DEFINE v == [u EXCEPT !.w.walkTaskEvent = 0]
    <3>1. v \in Progress BY <1>4 DEF Progress, Fields
    <3>2. t = [v EXCEPT !.w.walkTask = task] BY <1>5
    <3> HIDE DEF v
    <3> QED BY <3>1, <3>2 DEF Progress, Fields
  <2> QED BY <1>4, <2>1, <2>2
<1>7. t.w = [s.w EXCEPT !.walkTaskEvent = 0, !.walkTask = task]
  BY <1>4, <1>5 DEF Progress, Fields
<1>8. /\ t.w.eventWalk = s.w.eventWalk /\ t.w.walkTaskEvent = 0
      /\ Life(t.w) = Life(s.w)
  BY <1>2, <1>7 DEF Fields, Life
<1>9. s.w.eventWalk # 0 => s.w.eventWalk # id BY <1>1 DEF KindsSound
<1>10. Sound(t) BY <1>3, <1>6, <1>8, <1>9, StopEventSound
<1> QED BY <1>6, <1>7, <1>10

LEMMA InHandType == ASSUME TypeOK PROVE inHand \in Nat
  BY WalkAssumption DEF TypeOK, SchedTypeOK

LEMMA LastId == ASSUME TypeOK PROVE lastEventId \in Nat
  BY WalkAssumption DEF TypeOK, SchedTypeOK

(* onWalkComplete adds at most the event of the action that waited. *)
LEMMA OnWalkCompleteSound ==
  ASSUME TypeOK, NEW s, Sound(s), NEW t, t = OnWalkComplete(s)
  PROVE  Sound(t) /\ t.w.eventWalk = s.w.eventWalk
<1>1. CASE s.w.walkTask
  <2> DEFINE new == Len(s.kind) + 1
             u == AddEvent(s, "action")
             v == [u EXCEPT !.w.walkTask = FALSE]
  <2>1. s \in Progress /\ Len(s.kind) \in Nat BY DEF Sound, Settled, Progress
  <2>2. /\ Sound(u) /\ u.w = s.w /\ Len(u.kind) = new /\ u.kind[new] = "action"
    BY AddEventSound
  <2>3. t = [v EXCEPT !.w.walkTaskEvent = new] BY <1>1 DEF OnWalkComplete
  <2>4. u \in Progress BY <2>2 DEF Sound, Settled
  <2> HIDE DEF u
  <2>5. /\ v \in Progress /\ v.kind = u.kind /\ v.posts = u.posts
        /\ v.w.eventWalk = u.w.eventWalk /\ Life(v.w) = Life(u.w)
    BY <2>4 DEF Progress, Fields, Life
  <2>6. new \in Nat BY <2>1
  <2> HIDE DEF v, new
  <2>7. /\ t \in Progress /\ t.kind = v.kind /\ t.posts = v.posts
        /\ t.w.eventWalk = v.w.eventWalk /\ t.w.walkTaskEvent = new
        /\ Life(t.w) = Life(v.w)
    BY <2>3, <2>5, <2>6 DEF Progress, Fields, Life
  <2>8. /\ t.kind = u.kind /\ t.posts = u.posts
        /\ t.w.eventWalk = u.w.eventWalk /\ Life(t.w) = Life(u.w)
    BY <2>5, <2>7
  <2>9. new \in 1 .. Len(u.kind) BY <2>1, <2>2 DEF new
  <2>10. Sound(t) BY <2>2, <2>8, <2>9, <2>7, FieldsSound, LastId
  <2> QED BY <2>2, <2>8, <2>10
<1>2. CASE ~s.w.walkTask BY <1>2 DEF OnWalkComplete
<1> QED BY <1>1, <1>2

(* A step of the path, or its end, keeps the walk event or stops it. *)
LEMMA StepOrCompleteSound ==
  ASSUME TypeOK, NEW s, Sound(s), NEW teleport \in BOOLEAN, NEW t, t = StepOrComplete(s, teleport)
  PROVE  Sound(t) /\ t.w.eventWalk \in {0, s.w.eventWalk}
<1>1. CASE s.w.resting BY <1>1 DEF StepOrComplete
<1>2. CASE ~s.w.resting /\ s.w.steps > 0
  <2> DEFINE v == [s EXCEPT !.w.steps = @ - 1]
             u == [v EXCEPT !.w.resting = TRUE]
  <2>1. s \in Progress /\ s.w \in Fields BY DEF Sound, Settled, Progress
  <2>2. s.w.steps - 1 \in 0 .. MaxPath BY <1>2, <2>1, WalkAssumption DEF Fields
  <2>3. /\ v \in Progress /\ v.kind = s.kind /\ v.posts = s.posts
        /\ v.w.eventWalk = s.w.eventWalk /\ v.w.walkTaskEvent = s.w.walkTaskEvent
        /\ Life(v.w) = Life(s.w)
    BY <2>1, <2>2 DEF Progress, Fields, Life
  <2>4. t = IF teleport THEN StopEventWalk(u) ELSE u BY <1>2 DEF StepOrComplete
  <2> HIDE DEF v
  <2>5. /\ u \in Progress /\ u.kind = v.kind /\ u.posts = v.posts
        /\ u.w.eventWalk = v.w.eventWalk /\ u.w.walkTaskEvent = v.w.walkTaskEvent
        /\ Life(u.w) = Life(v.w)
    BY <2>3 DEF Progress, Fields, Life
  <2> HIDE DEF u
  <2>6. Sound(u) /\ u.w.eventWalk = s.w.eventWalk BY <2>3, <2>5, FieldsSound, LastId
  <2>7. CASE teleport
    <3>1. Sound(t) /\ t.w = [u.w EXCEPT !.eventWalk = 0] BY <2>4, <2>6, <2>7, StopEventWalkSound
    <3> QED BY <2>5, <3>1 DEF Progress, Fields
  <2>8. CASE ~teleport BY <2>4, <2>6, <2>8
  <2> QED BY <2>7, <2>8
<1>3. CASE ~s.w.resting /\ ~(s.w.steps > 0)
  <2> DEFINE u == StopEventWalk(s)
  <2>1. t = OnWalkComplete(u) BY <1>3 DEF StepOrComplete
  <2>2. Sound(u) /\ u.w = [s.w EXCEPT !.eventWalk = 0] BY StopEventWalkSound
  <2>3. s.w \in Fields BY DEF Sound, Settled, Progress
  <2>4. u.w.eventWalk = 0 BY <2>2, <2>3 DEF Fields
  <2> HIDE DEF u
  <2> QED BY <2>1, <2>2, <2>4, OnWalkCompleteSound
<1> QED BY <1>1, <1>2, <1>3

(* A cancelled walk forgets its path and the action that waits for its end. *)
LEMMA AbortIfCancelledSound ==
  ASSUME TypeOK, NEW s, Sound(s), NEW t, t = AbortIfCancelled(s)
  PROVE  Sound(t) /\ t.w.eventWalk = s.w.eventWalk
<1>1. CASE s.w.cancelNextWalk
  <2> DEFINE u == SetNextWalkActionTask(s, FALSE)
             v == [u EXCEPT !.w.steps = 0]
  <2>1. Sound(u) /\ u.w = [s.w EXCEPT !.walkTaskEvent = 0, !.walkTask = FALSE] BY SetNextSound
  <2>2. s.w \in Fields BY DEF Sound, Settled, Progress
  <2>3. u.w.eventWalk = s.w.eventWalk BY <2>1, <2>2 DEF Fields
  <2>4. t = [v EXCEPT !.w.cancelNextWalk = FALSE] BY <1>1 DEF AbortIfCancelled
  <2>5. u \in Progress BY <2>1 DEF Sound, Settled
  <2> HIDE DEF u
  <2>6. /\ v \in Progress /\ v.kind = u.kind /\ v.posts = u.posts
        /\ v.w.eventWalk = u.w.eventWalk /\ v.w.walkTaskEvent = u.w.walkTaskEvent
        /\ Life(v.w) = Life(u.w)
    <3>1. 0 \in 0 .. MaxPath BY WalkAssumption
    <3> QED BY <2>5, <3>1 DEF Progress, Fields, Life
  <2> HIDE DEF v
  <2>7. /\ t \in Progress /\ t.kind = v.kind /\ t.posts = v.posts
        /\ t.w.eventWalk = v.w.eventWalk /\ t.w.walkTaskEvent = v.w.walkTaskEvent
        /\ Life(t.w) = Life(v.w)
    BY <2>4, <2>6 DEF Progress, Fields, Life
  <2> QED BY <2>1, <2>3, <2>6, <2>7, FieldsSound, LastId
<1>2. CASE ~s.w.cancelNextWalk BY <1>2 DEF AbortIfCancelled
<1> QED BY <1>1, <1>2

(* The event of the next step is new. *)
LEMMA QueueWalkSound ==
  ASSUME TypeOK, NEW s, Sound(s), walk.present, NEW t, t = QueueWalk(s)
  PROVE  Sound(t) /\ t.w.eventWalk > lastEventId
<1> DEFINE new == Len(s.kind) + 1
           u == AddEvent(s, "walk")
<1>1. s \in Progress /\ Len(s.kind) \in Nat /\ KindsSound(s) BY DEF Sound, Settled, Progress
<1>2. /\ Sound(u) /\ u.w = s.w /\ Len(u.kind) = new /\ u.kind[new] = "walk"
      /\ \A i \in DOMAIN u.posts : u.posts[i] # Handler("cancel", new)
  BY AddEventSound
<1>3. t = [u EXCEPT !.w.eventWalk = new] BY DEF QueueWalk
<1>4. u \in Progress BY <1>2 DEF Sound, Settled
<1>5. new \in lastEventId + 1 .. new /\ new \in Nat /\ new > lastEventId
  BY <1>1, LastId DEF KindsSound
<1> HIDE DEF u, new
<1>6. /\ t \in Progress /\ t.kind = u.kind /\ t.posts = u.posts
      /\ t.w.eventWalk = new /\ t.w.walkTaskEvent = u.w.walkTaskEvent
      /\ Life(t.w) = Life(u.w)
  BY <1>3, <1>4, <1>5 DEF Progress, Fields, Life
<1>7. Sound(t) BY <1>2, <1>5, <1>6, FieldsSound, LastId
<1> QED BY <1>5, <1>6, <1>7

(* addEventWalk adds nothing while there is an event, and a new one else. *)
LEMMA AddEventWalkSound ==
  ASSUME TypeOK, NEW s, Sound(s), walk.present, NEW first \in BOOLEAN, NEW teleport \in BOOLEAN,
         NEW t, t = AddEventWalk(s, first, teleport)
  PROVE  Sound(t) /\ (t.w.eventWalk = s.w.eventWalk \/ t.w.eventWalk > lastEventId)
<1> DEFINE c == [s EXCEPT !.w.cancelNextWalk = FALSE]
<1>1. s \in Progress BY DEF Sound, Settled
<1>2. /\ c \in Progress /\ c.kind = s.kind /\ c.posts = s.posts
      /\ c.w.eventWalk = s.w.eventWalk /\ c.w.walkTaskEvent = s.w.walkTaskEvent
      /\ Life(c.w) = Life(s.w)
  BY <1>1 DEF Progress, Fields, Life
<1>3. t = IF s.w.slow \/ s.w.eventWalk # 0 THEN c
          ELSE IF first /\ ~s.w.resting /\ CanWalk(s)
            THEN QueueWalk(AbortIfCancelled(StepOrComplete(c, teleport)))
            ELSE QueueWalk(c)
  BY DEF AddEventWalk
<1> HIDE DEF c
<1>4. Sound(c) BY <1>2, FieldsSound, LastId
<1>5. CASE s.w.slow \/ s.w.eventWalk # 0 BY <1>2, <1>3, <1>4, <1>5
<1>6. CASE ~(s.w.slow \/ s.w.eventWalk # 0) /\ first /\ ~s.w.resting /\ CanWalk(s)
  <2> DEFINE u == StepOrComplete(c, teleport)
             v == AbortIfCancelled(u)
  <2>1. t = QueueWalk(v) BY <1>3, <1>6
  <2>2. Sound(u) BY <1>4, StepOrCompleteSound
  <2> HIDE DEF u
  <2>3. Sound(v) BY <2>2, AbortIfCancelledSound
  <2> HIDE DEF v
  <2> QED BY <2>1, <2>3, QueueWalkSound
<1>7. CASE ~(s.w.slow \/ s.w.eventWalk # 0) /\ ~(first /\ ~s.w.resting /\ CanWalk(s))
  <2>1. t = QueueWalk(c) BY <1>3, <1>7
  <2> QED BY <1>4, <2>1, QueueWalkSound
<1> QED BY <1>5, <1>6, <1>7

(* When onWalk is over, eventWalk does not name the event that ran. *)
LEMMA OnWalkSound ==
  ASSUME TypeOK, NEW s, Sound(s), walk.present, NEW teleport \in BOOLEAN, NEW t, t = OnWalk(s, teleport)
  PROVE  Sound(t) /\ (t.w.eventWalk = 0 \/ t.w.eventWalk > lastEventId)
<1> DEFINE u == StepOrComplete(s, teleport)
           v == AbortIfCancelled(u)
           z == [v EXCEPT !.w.eventWalk = 0]
<1>1. Sound(u) BY StepOrCompleteSound
<1>2. Sound(v) BY <1>1, AbortIfCancelledSound
<1>3. t = IF v.w.eventWalk # 0 THEN AddEventWalk(z, FALSE, FALSE) ELSE v BY DEF OnWalk
<1> HIDE DEF v
<1>4. v \in Progress BY <1>2 DEF Sound, Settled
<1>5. /\ z \in Progress /\ z.kind = v.kind /\ z.posts = v.posts
      /\ z.w.eventWalk = 0 /\ z.w.walkTaskEvent = v.w.walkTaskEvent
      /\ Life(z.w) = Life(v.w)
  BY <1>4 DEF Progress, Fields, Life
<1> HIDE DEF z
<1>6. Sound(z) BY <1>2, <1>5, FieldsSound, LastId
<1>7. CASE v.w.eventWalk # 0
  <2>1. t = AddEventWalk(z, FALSE, FALSE) BY <1>3, <1>7
  <2> QED BY <1>5, <1>6, <2>1, AddEventWalkSound
<1>8. CASE v.w.eventWalk = 0 BY <1>2, <1>3, <1>8
<1> QED BY <1>7, <1>8

(* setSpeed: the creature is no longer slow, and goes on. *)
LEMMA GoOnSound ==
  ASSUME TypeOK, NEW s, Sound(s), walk.present, NEW t, t = GoOn(s)
  PROVE  Sound(t)
<1> DEFINE a == [s EXCEPT !.w.slow = FALSE]
<1>1. s \in Progress BY DEF Sound, Settled
<1>2. /\ a \in Progress /\ a.kind = s.kind /\ a.posts = s.posts
      /\ a.w.eventWalk = s.w.eventWalk /\ a.w.walkTaskEvent = s.w.walkTaskEvent
      /\ Life(a.w) = Life(s.w)
  BY <1>1 DEF Progress, Fields, Life
<1>3. t = IF s.w.steps > 0 THEN AddEventWalk(a, FALSE, FALSE) ELSE a BY DEF GoOn
<1> HIDE DEF a
<1>4. Sound(a) BY <1>2, FieldsSound, LastId
<1>5. CASE s.w.steps > 0
  <2>1. t = AddEventWalk(a, FALSE, FALSE) BY <1>3, <1>5
  <2> QED BY <1>4, <2>1, AddEventWalkSound
<1>6. CASE ~(s.w.steps > 0) BY <1>3, <1>4, <1>6
<1> QED BY <1>5, <1>6

-----------------------------------------------------------------------------
(* A handler of the player that is over: everything it posted is behind what *)
(* was in the queue.                                                         *)

(* The types after a handler. *)
LEMMA FinishTypes ==
  ASSUME Inv, NEW s, Settled(s), Finish(s), autoWalks' \in 0 .. 1, taskList' \in Seq(Ids)
  PROVE  TypeOK'
<1>1. s \in Progress /\ PostsSound(s) /\ KindsSound(s) /\ TypeOK BY DEF Sound, Settled, Inv
<1>2. /\ Len(s.kind) \in Nat /\ Len(s.kind) <= MaxEvents /\ s.w \in Fields
      /\ s.kind \in Seq({"walk", "action", "script"}) /\ s.posts \in Seq(Entry)
  BY <1>1 DEF Progress, Finish
<1>3. walk' \in Walk
  <2>1. walk' = s.w BY DEF Finish
  <2>2. s.w.eventWalk \in 0 .. MaxEvents /\ s.w.walkTaskEvent \in 0 .. MaxEvents
    BY <1>1, <1>2, WalkAssumption DEF KindsSound, Fields
  <2> QED BY <1>2, <2>1, <2>2 DEF Fields, Walk
<1>4. handlers' \in Seq([op : Op, id : 0 .. MaxEvents])
  <2> DEFINE E == [op : Op, id : 0 .. MaxEvents]
  <2>1. \A i \in DOMAIN s.posts : s.posts[i] \in E
    <3> TAKE i \in DOMAIN s.posts
    <3>1. s.posts[i] \in Entry BY <1>2
    <3>2. s.posts[i].id \in 0 .. MaxEvents BY <1>1, <1>2, WalkAssumption DEF PostsSound
    <3> QED BY <3>1, <3>2 DEF Entry
  <2>2. handlers \in Seq(E) BY <1>1 DEF TypeOK, SchedTypeOK
  <2> HIDE DEF E
  <2>3. s.posts \in Seq(E) BY <1>2, <2>1
  <2>4. handlers \o s.posts \in Seq(E) BY <2>2, <2>3
  <2> QED BY <2>4 DEF Finish, Post, E
<1>5. lastEventId' \in 0 .. MaxEvents /\ lastEventId' = Len(s.kind) /\ kind' = s.kind
  BY <1>2, WalkAssumption DEF Finish
<1>6. UNCHANGED <<online, schedState, ioStopped, inHand, timers, dispatcherOpen>> BY DEF Finish
<1>7. SchedTypeOK' BY <1>1, <1>4, <1>5, <1>6 DEF TypeOK, SchedTypeOK
<1> QED BY <1>1, <1>2, <1>3, <1>5, <1>6, <1>7 DEF TypeOK

(* An entry of the queue is one from before or one that was posted. *)
LEMMA Concatenated ==
  ASSUME NEW S, NEW T, NEW h \in Seq(S), NEW p \in Seq(T), NEW g, g = h \o p
  PROVE  /\ \A i \in DOMAIN g : \/ i \in DOMAIN h /\ g[i] = h[i]
                                \/ i - Len(h) \in DOMAIN p /\ g[i] = p[i - Len(h)] /\ i > Len(h)
         /\ \A i \in DOMAIN h : i \in DOMAIN g /\ g[i] = h[i] /\ i <= Len(h)
         /\ \A i \in DOMAIN p : i + Len(h) \in DOMAIN g /\ g[i + Len(h)] = p[i]
         /\ Len(h) \in Nat /\ DOMAIN g \subseteq Nat
<1>1. /\ Len(h) \in Nat /\ Len(p) \in Nat
      /\ DOMAIN h = 1 .. Len(h) /\ DOMAIN p = 1 .. Len(p) /\ DOMAIN g = 1 .. Len(h) + Len(p)
  OBVIOUS
<1>2. \A i \in 1 .. Len(h) : g[i] = h[i] OBVIOUS
<1>3. \A i \in 1 .. Len(p) : g[i + Len(h)] = p[i] OBVIOUS
<1>4. \A i \in DOMAIN g : \/ i \in DOMAIN h /\ g[i] = h[i]
                          \/ i - Len(h) \in DOMAIN p /\ g[i] = p[i - Len(h)] /\ i > Len(h)
  <2> SUFFICES ASSUME NEW i \in DOMAIN g, ~(i \in DOMAIN h)
               PROVE  i - Len(h) \in DOMAIN p /\ g[i] = p[i - Len(h)] /\ i > Len(h)
    BY <1>1, <1>2
  <2>1. i - Len(h) \in 1 .. Len(p) /\ (i - Len(h)) + Len(h) = i /\ i > Len(h) BY <1>1
  <2>2. g[(i - Len(h)) + Len(h)] = p[i - Len(h)] BY <1>3, <2>1
  <2> QED BY <1>1, <2>1, <2>2
<1> QED BY <1>1, <1>2, <1>3, <1>4

(* A queue without its first entry. *)
LEMMA TailEntries ==
  ASSUME NEW S, NEW q \in Seq(S), q # <<>>, NEW r, r = Tail(q)
  PROVE  /\ r \in Seq(S) /\ 1 \in DOMAIN q /\ q[1] = Head(q)
         /\ DOMAIN q \subseteq Nat /\ DOMAIN r \subseteq Nat
         /\ \A j \in DOMAIN r : j + 1 \in DOMAIN q /\ r[j] = q[j + 1] /\ j + 1 # 1
         /\ \A j \in DOMAIN q : j = 1 \/ (j - 1 \in DOMAIN r /\ r[j - 1] = q[j])
<1>1. r \in Seq(S) /\ Len(r) = Len(q) - 1 /\ Len(q) \in Nat /\ Len(q) > 0 /\ q[1] = Head(q) OBVIOUS
<1>2. DOMAIN q = 1 .. Len(q) /\ DOMAIN r = 1 .. Len(r) BY <1>1
<1>3. \A j \in 1 .. Len(r) : r[j] = q[j + 1] OBVIOUS
<1>4. \A j \in DOMAIN r : j + 1 \in DOMAIN q /\ r[j] = q[j + 1] /\ j + 1 # 1 BY <1>1, <1>2, <1>3
<1>5. \A j \in DOMAIN q : j = 1 \/ (j - 1 \in DOMAIN r /\ r[j - 1] = q[j])
  <2> SUFFICES ASSUME NEW j \in DOMAIN q, j # 1 PROVE j - 1 \in DOMAIN r /\ r[j - 1] = q[j]
    OBVIOUS
  <2>1. j - 1 \in DOMAIN r /\ (j - 1) + 1 = j BY <1>1, <1>2
  <2> QED BY <1>4, <2>1
<1> QED BY <1>1, <1>2, <1>4, <1>5

(* The invariant after a handler; the event that runs, if there is one, is   *)
(* no longer in the dispatcher's list and, but for a dying player, no longer *)
(* the event to come.                                                        *)
LEMMA FinishKeepsInv ==
  ASSUME Inv, NEW s, Settled(s), Finish(s), autoWalks' \in 0 .. 1,
         s.w.present <=> (s.w.healthy \/ s.w.dying), s.w.eventWalk # 0 => s.w.present,
         walk.dying => s.w.dying \/ s.w.eventWalk = 0,
         \/ taskList' = taskList
         \/ /\ taskList # <<>> /\ taskList' = Tail(taskList)
            /\ s.w.eventWalk # Head(taskList) \/ s.w.dying
  PROVE  Inv'
<1> DEFINE h == handlers
           p == s.posts
           g == handlers'
           n == Len(h)
           S == [op : Op, id : 0 .. MaxEvents]
<1>1. /\ s \in Progress /\ PostsSound(s) /\ KindsSound(s) /\ WalkSound(s)
      /\ TypeOK /\ Issued /\ OneOwner /\ HandAlone /\ Completions /\ Running /\ Kinds /\ Alive
  BY DEF Settled, Inv
<1>2. /\ Len(s.kind) \in Nat /\ s.w \in Fields
      /\ p \in Seq(Entry) /\ h \in Seq(S) /\ taskList \in Seq(Ids)
      /\ lastEventId \in Nat /\ lastEventId <= Len(s.kind) /\ walk \in Fields
  BY <1>1, LastId, WalkFields DEF Progress, TypeOK, SchedTypeOK, KindsSound
<1>3. /\ walk' = s.w /\ kind' = s.kind /\ lastEventId' = Len(s.kind) /\ g = h \o p
      /\ UNCHANGED <<online, schedState, ioStopped, inHand, timers, dispatcherOpen>>
  BY DEF Finish, Post
<1>4. /\ \A i \in DOMAIN g : \/ i \in DOMAIN h /\ g[i] = h[i]
                             \/ i - n \in DOMAIN p /\ g[i] = p[i - n] /\ i > n
      /\ \A i \in DOMAIN h : i \in DOMAIN g /\ g[i] = h[i] /\ i <= n
      /\ \A i \in DOMAIN p : i + n \in DOMAIN g /\ g[i + n] = p[i]
      /\ n \in Nat /\ DOMAIN g \subseteq Nat
  <2>1. h \in Seq(S) /\ p \in Seq(Entry) /\ g = h \o p BY <1>2, <1>3
  <2> HIDE DEF g, h, p, S
  <2> QED BY <2>1, Concatenated DEF n
<1>5. n \in Nat /\ DOMAIN g \subseteq Nat BY <1>4
(* The queue of the dispatcher, with or without its first event. *)
<1>6. \E d \in {0, 1} :
        /\ taskList' \in Seq(Ids)
        /\ \A j \in DOMAIN taskList' : j + d \in DOMAIN taskList /\ taskList'[j] = taskList[j + d]
        /\ \A j \in DOMAIN taskList :
             taskList[j] = s.w.eventWalk /\ ~s.w.dying =>
               j - d \in DOMAIN taskList' /\ taskList'[j - d] = taskList[j]
  <2>1. CASE taskList' = taskList
    <3>1. \A j \in DOMAIN taskList : j + 0 = j /\ j - 0 = j BY <1>2
    <3>2. taskList' \in Seq(Ids) BY <1>2, <2>1
    <3> WITNESS 0 \in {0, 1}
    <3> QED BY <2>1, <3>1, <3>2
  <2>2. CASE /\ taskList # <<>> /\ taskList' = Tail(taskList)
             /\ s.w.eventWalk # Head(taskList) \/ s.w.dying
    <3>1. /\ taskList' \in Seq(Ids) /\ taskList[1] = Head(taskList)
          /\ \A j \in DOMAIN taskList' : j + 1 \in DOMAIN taskList /\ taskList'[j] = taskList[j + 1]
          /\ \A j \in DOMAIN taskList :
               j = 1 \/ (j - 1 \in DOMAIN taskList' /\ taskList'[j - 1] = taskList[j])
      BY <1>2, <2>2, TailEntries
    <3> WITNESS 1 \in {0, 1}
    <3> QED BY <2>2, <3>1
  <2> QED BY <2>1, <2>2
<1>7. PICK d \in {0, 1} :
        /\ taskList' \in Seq(Ids)
        /\ \A j \in DOMAIN taskList' : j + d \in DOMAIN taskList /\ taskList'[j] = taskList[j + d]
        /\ \A j \in DOMAIN taskList :
             taskList[j] = s.w.eventWalk /\ ~s.w.dying =>
               j - d \in DOMAIN taskList' /\ taskList'[j - d] = taskList[j]
  BY <1>6
<1>8. TypeOK' BY <1>7, FinishTypes
<1>9. \A i \in DOMAIN p : /\ p[i].op \in {"insert", "cancel"} /\ p[i].id \in 1 .. Len(s.kind)
                          /\ p[i].op = "insert" => p[i].id > lastEventId
  BY <1>1 DEF PostsSound
<1> HIDE DEF g, h, p, n
<1>10. Issued'
  <2>1. \A i \in DOMAIN g : g[i].op # "cancelAll" => g[i].id \in 1 .. Len(s.kind)
    <3> SUFFICES ASSUME NEW i \in DOMAIN g, g[i].op # "cancelAll"
                 PROVE  g[i].id \in 1 .. Len(s.kind)
      OBVIOUS
    <3>1. CASE i \in DOMAIN h /\ g[i] = h[i]
      <4>1. h[i].id \in 1 .. lastEventId BY <1>1, <3>1 DEF Issued, h
      <4> QED BY <1>2, <3>1, <4>1
    <3>2. CASE i - n \in DOMAIN p /\ g[i] = p[i - n] BY <1>9, <3>2
    <3> QED BY <1>4, <3>1, <3>2
  <2>2. \A j \in DOMAIN taskList' : taskList'[j] \in 1 .. Len(s.kind)
    <3>1. \A j \in DOMAIN taskList : taskList[j] \in 1 .. lastEventId BY <1>1 DEF Issued
    <3>2. \A j \in DOMAIN taskList : taskList[j] \in 1 .. Len(s.kind) BY <1>2, <3>1
    <3> QED BY <1>7, <3>2
  <2>3. DOMAIN timers \subseteq 1 .. Len(s.kind) BY <1>1, <1>2 DEF Issued
  <2>4. s.w.eventWalk <= Len(s.kind) /\ s.w.walkTaskEvent <= Len(s.kind) BY <1>1 DEF KindsSound
  <2>5. inHand <= Len(s.kind) BY <1>1, <1>2, InHandType DEF Issued
  <2> QED BY <1>3, <2>1, <2>2, <2>3, <2>4, <2>5 DEF Issued, g
<1>11. OneOwner'
  <2>1. \A i \in DOMAIN h : h[i].op \in Owner => h[i].id \in 1 .. lastEventId
    BY <1>1 DEF Issued, Owner, h
  <2>2. \A i \in DOMAIN p : p[i].op \in Owner => p[i].op = "insert" /\ p[i].id > lastEventId
    BY <1>9 DEF Owner
  <2>3. \A i \in DOMAIN h, j \in DOMAIN p : (h[i].op \in Owner /\ p[j].op \in Owner) => h[i].id # p[j].id
    BY <1>2, <2>1, <2>2
  <2>4. ASSUME NEW i \in DOMAIN g, NEW j \in DOMAIN g,
               g[i].op \in Owner, g[j].op \in Owner, g[i].id = g[j].id
        PROVE  i = j
    <3>1. CASE i \in DOMAIN h /\ g[i] = h[i] /\ j \in DOMAIN h /\ g[j] = h[j]
      BY <1>1, <2>4, <3>1 DEF OneOwner, h
    <3>2. CASE i - n \in DOMAIN p /\ g[i] = p[i - n] /\ j - n \in DOMAIN p /\ g[j] = p[j - n]
      <4>1. i - n = j - n BY <1>1, <2>2, <2>4, <3>2 DEF PostsSound, p
      <4> QED BY <1>5, <4>1
    <3>3. CASE i \in DOMAIN h /\ g[i] = h[i] /\ j - n \in DOMAIN p /\ g[j] = p[j - n]
      BY <2>3, <2>4, <3>3
    <3>4. CASE i - n \in DOMAIN p /\ g[i] = p[i - n] /\ j \in DOMAIN h /\ g[j] = h[j]
      BY <2>3, <2>4, <3>4
    <3> QED BY <1>4, <3>1, <3>2, <3>3, <3>4
  <2>5. ASSUME NEW i \in DOMAIN taskList', NEW j \in DOMAIN taskList', taskList'[i] = taskList'[j]
        PROVE  i = j
    <3>1. i + d \in DOMAIN taskList /\ j + d \in DOMAIN taskList /\ taskList[i + d] = taskList[j + d]
      BY <1>7, <2>5
    <3>2. i + d = j + d BY <1>1, <3>1 DEF OneOwner
    <3>3. i \in Nat /\ j \in Nat
      <4>1. taskList' \in Seq(Ids) BY <1>7
      <4>2. DOMAIN taskList' = 1 .. Len(taskList') /\ Len(taskList') \in Nat BY <4>1
      <4> QED BY <4>2
    <3> QED BY <1>7, <3>2, <3>3
  <2>6. ASSUME NEW i \in DOMAIN g, NEW j \in DOMAIN taskList', g[i].op \in Owner
        PROVE  g[i].id # taskList'[j]
    <3>1. j + d \in DOMAIN taskList /\ taskList'[j] = taskList[j + d] BY <1>7
    <3>2. taskList[j + d] \in 1 .. lastEventId BY <1>1, <3>1 DEF Issued
    <3>3. CASE i \in DOMAIN h /\ g[i] = h[i] BY <1>1, <2>6, <3>1, <3>3 DEF OneOwner, h
    <3>4. CASE i - n \in DOMAIN p /\ g[i] = p[i - n] BY <1>2, <2>2, <2>6, <3>1, <3>2, <3>4
    <3> QED BY <1>4, <3>3, <3>4
  <2>7. ASSUME NEW i \in DOMAIN g, g[i].op = "insert"
        PROVE  g[i].id \notin DOMAIN timers
    <3>1. CASE i \in DOMAIN h /\ g[i] = h[i] BY <1>1, <2>7, <3>1 DEF OneOwner, h
    <3>2. CASE i - n \in DOMAIN p /\ g[i] = p[i - n]
      <4>1. g[i].id > lastEventId BY <1>9, <2>7, <3>2
      <4>2. DOMAIN timers \subseteq 1 .. lastEventId BY <1>1 DEF Issued
      <4> QED BY <1>2, <1>9, <3>2, <4>1, <4>2
    <3> QED BY <1>4, <3>1, <3>2
  <2>8. \A j \in DOMAIN taskList' : taskList'[j] \notin DOMAIN timers BY <1>1, <1>7 DEF OneOwner
  <2> QED BY <1>3, <2>4, <2>5, <2>6, <2>7, <2>8 DEF OneOwner, g
<1>12. HandAlone'
  <2> SUFFICES ASSUME inHand # 0
               PROVE  /\ \A i \in DOMAIN g : g[i].op \in Owner => g[i].id # inHand
                      /\ \A j \in DOMAIN taskList' : taskList'[j] # inHand
                      /\ inHand \notin DOMAIN timers
    BY <1>3 DEF HandAlone, g
  <2>1. /\ \A i \in DOMAIN h : h[i].op \in Owner => h[i].id # inHand
        /\ \A j \in DOMAIN taskList : taskList[j] # inHand
        /\ inHand \notin DOMAIN timers
    BY <1>1 DEF HandAlone, h
  <2>2. inHand \in Nat /\ inHand <= lastEventId BY <1>1, InHandType DEF Issued
  <2>3. ASSUME NEW i \in DOMAIN g, g[i].op \in Owner
        PROVE  g[i].id # inHand
    <3>1. CASE i \in DOMAIN h /\ g[i] = h[i] BY <2>1, <2>3, <3>1
    <3>2. CASE i - n \in DOMAIN p /\ g[i] = p[i - n]
      <4>1. p[i - n].id > lastEventId /\ p[i - n].id \in Nat
        BY <1>2, <1>9, <2>3, <3>2 DEF Owner
      <4> QED BY <1>2, <2>2, <3>2, <4>1
    <3> QED BY <1>4, <3>1, <3>2
  <2>4. \A j \in DOMAIN taskList' : taskList'[j] # inHand BY <1>7, <2>1
  <2> QED BY <2>1, <2>3, <2>4
<1>13. Living' BY <1>3 DEF Living
<1>14. Completions'
  <2> SUFFICES ASSUME ~ioStopped
               PROVE  /\ \A id \in DOMAIN timers :
                           timers[id] = "completing" =>
                             \E i \in DOMAIN g : g[i].op \in {"fire", "abort"} /\ g[i].id = id
                      /\ \A i \in DOMAIN g :
                           g[i].op \in {"fire", "abort"} =>
                             g[i].id \in DOMAIN timers /\ timers[g[i].id] = "completing"
    BY <1>3 DEF Completions, g
  <2>1. \A id \in DOMAIN timers : timers[id] = "completing" =>
          \E i \in DOMAIN h : h[i].op \in {"fire", "abort"} /\ h[i].id = id
    BY <1>1 DEF Completions, h
  <2>2. \A i \in DOMAIN h : h[i].op \in {"fire", "abort"} =>
          h[i].id \in DOMAIN timers /\ timers[h[i].id] = "completing"
    BY <1>1 DEF Completions, h
  <2>3. \A i \in DOMAIN g : g[i].op \in {"fire", "abort"} => i \in DOMAIN h /\ g[i] = h[i]
    BY <1>4, <1>9
  <2>4. \A id \in DOMAIN timers : timers[id] = "completing" =>
          \E i \in DOMAIN g : g[i].op \in {"fire", "abort"} /\ g[i].id = id
    BY <1>4, <2>1
  <2> QED BY <2>2, <2>3, <2>4
<1>15. Running'
  <2>1. ASSUME schedState = "RUNNING", NEW i \in DOMAIN g
        PROVE  g[i].op # "cancelAll"
    <3>1. CASE i \in DOMAIN h /\ g[i] = h[i] BY <1>1, <2>1, <3>1 DEF Running, h
    <3>2. CASE i - n \in DOMAIN p /\ g[i] = p[i - n] BY <1>9, <3>2
    <3> QED BY <1>4, <3>1, <3>2
  <2> QED BY <1>1, <1>3, <2>1 DEF Running, g
<1>16. Kinds' BY <1>1, <1>3 DEF KindsSound, Kinds
<1>17. Alive'
  <2> SUFFICES ASSUME schedState = "RUNNING", s.w.eventWalk # 0
               PROVE  /\ \A i \in DOMAIN g :
                           g[i].op \in {"cancel", "abort"} => g[i].id # s.w.eventWalk
                      /\ \/ s.w.dying \/ inHand = s.w.eventWalk
                         \/ \E i \in DOMAIN g : g[i] = Handler("insert", s.w.eventWalk)
                         \/ s.w.eventWalk \in DOMAIN timers
                         \/ \E j \in DOMAIN taskList' : taskList'[j] = s.w.eventWalk
    BY <1>3 DEF Alive, g
  <2> DEFINE e == s.w.eventWalk
  <2>1. \A i \in DOMAIN p : p[i] # Handler("cancel", e) BY <1>1 DEF WalkSound, p
  <2>2. \A i \in DOMAIN p : p[i].op = "cancel" => p[i].id # e
    <3> SUFFICES ASSUME NEW i \in DOMAIN p, p[i].op = "cancel", p[i].id = e
                 PROVE  FALSE
      OBVIOUS
    <3>1. p[i] \in Entry BY <1>2
    <3>2. p[i] = Handler("cancel", e) BY <3>1 DEF Entry, Handler
    <3> QED BY <2>1, <3>2
  <2>3. e \in Nat /\ e <= Len(s.kind) BY <1>1, <1>2 DEF Fields, KindsSound
  <2>4. CASE e > lastEventId
    <3>1. e \in lastEventId + 1 .. Len(s.kind) BY <1>2, <2>3, <2>4
    <3>2. PICK i \in DOMAIN p : p[i] = Handler("insert", e) BY <1>1, <3>1 DEF PostsSound, p
    <3>3. i + n \in DOMAIN g /\ g[i + n] = Handler("insert", e) BY <1>4, <3>2
    <3>4. ASSUME NEW k \in DOMAIN g, g[k].op \in {"cancel", "abort"}
          PROVE  g[k].id # e
      <4>1. CASE k \in DOMAIN h /\ g[k] = h[k]
        <5>1. h[k].id \in 1 .. lastEventId BY <1>1, <3>4, <4>1 DEF Issued, h
        <5> QED BY <1>2, <2>3, <2>4, <4>1, <5>1
      <4>2. CASE k - n \in DOMAIN p /\ g[k] = p[k - n] BY <1>9, <2>2, <3>4, <4>2
      <4> QED BY <1>4, <4>1, <4>2
    <3> QED BY <3>3, <3>4
  <2>5. CASE e = walk.eventWalk
    <3>1. /\ \A i \in DOMAIN h : h[i].op \in {"cancel", "abort"} => h[i].id # e
          /\ \/ s.w.dying \/ inHand = e
             \/ \E i \in DOMAIN h : h[i] = Handler("insert", e)
             \/ e \in DOMAIN timers
             \/ \E j \in DOMAIN taskList : taskList[j] = e
      BY <1>1, <2>5 DEF Alive, h
    <3>2. ASSUME NEW k \in DOMAIN g, g[k].op \in {"cancel", "abort"}
          PROVE  g[k].id # e
      <4>1. CASE k \in DOMAIN h /\ g[k] = h[k] BY <3>1, <3>2, <4>1
      <4>2. CASE k - n \in DOMAIN p /\ g[k] = p[k - n] BY <1>9, <2>2, <3>2, <4>2
      <4> QED BY <1>4, <4>1, <4>2
    <3>3. CASE \E i \in DOMAIN h : h[i] = Handler("insert", e) BY <1>4, <3>2, <3>3
    <3>4. CASE e \in DOMAIN timers BY <3>2, <3>4
    <3>5. CASE (\E j \in DOMAIN taskList : taskList[j] = e) /\ ~s.w.dying
      <4>1. \E j \in DOMAIN taskList' : taskList'[j] = e BY <1>7, <3>5
      <4> QED BY <3>2, <4>1
    <3>6. CASE s.w.dying \/ inHand = e BY <3>2, <3>6
    <3> QED BY <3>1, <3>3, <3>4, <3>5, <3>6
  <2> QED BY <1>1, <2>4, <2>5 DEF WalkSound
<1> QED BY <1>8, <1>10, <1>11, <1>12, <1>13, <1>14, <1>15, <1>16, <1>17 DEF Inv

(* What most handlers do: life and death are not their matter. *)
LEMMA SoundKeepsInv ==
  ASSUME Inv, NEW s, Sound(s), Finish(s), autoWalks' \in 0 .. 1, UNCHANGED taskList
  PROVE  Inv'
<1>1. Living /\ Settled(s) /\ WalkSound(s) /\ Life(s.w) = Life(walk) BY DEF Inv, Sound, Settled
<1>2. s.w.present = walk.present /\ s.w.healthy = walk.healthy /\ s.w.dying = walk.dying
  BY <1>1 DEF Life
<1>3. /\ s.w.present <=> (s.w.healthy \/ s.w.dying)
      /\ s.w.eventWalk # 0 => s.w.present
      /\ walk.dying => s.w.dying \/ s.w.eventWalk = 0
  BY <1>1, <1>2 DEF Living, WalkSound
<1> QED BY <1>1, <1>3, FinishKeepsInv

-----------------------------------------------------------------------------
(* The handlers of the scheduler thread. *)

(* The types, spelt out. *)
LEMMA Types ==
  ASSUME TypeOK
  PROVE  /\ lastEventId \in Nat /\ inHand \in 0 .. MaxEvents /\ inHand \in Nat
         /\ handlers \in Seq([op : Op, id : 0 .. MaxEvents])
         /\ taskList \in Seq(Ids)
         /\ \A id \in DOMAIN timers : timers[id] \in {"armed", "completing"}
         /\ DOMAIN timers \subseteq Ids
         /\ timers = [id \in DOMAIN timers |-> timers[id]]
<1>1. PICK D \in SUBSET Ids : timers \in [D -> {"armed", "completing"}]
  BY DEF TypeOK, SchedTypeOK
<1>2. DOMAIN timers = D /\ \A id \in D : timers[id] \in {"armed", "completing"} BY <1>1
<1>3. timers = [id \in DOMAIN timers |-> timers[id]] BY <1>1
<1> QED BY <1>2, <1>3, LastId, InHandType DEF TypeOK, SchedTypeOK

(* The types after a step of the scheduler. *)
LEMMA SchedTypes ==
  ASSUME TypeOK, UNCHANGED <<lastEventId, dispatcherOpen, walkVars>>, inHand' \in 0 .. MaxEvents,
         schedState' \in {"RUNNING", "CLOSING", "TERMINATED"}, ioStopped' \in BOOLEAN,
         handlers' \in Seq([op : Op, id : 0 .. MaxEvents]), taskList' \in Seq(Ids),
         NEW D \in SUBSET Ids, timers' \in [D -> {"armed", "completing"}]
  PROVE  TypeOK'
<1>1. SchedTypeOK' BY DEF TypeOK, SchedTypeOK
<1>2. UNCHANGED <<online, walk, autoWalks, kind>> BY DEF walkVars
<1> QED BY <1>1, <1>2 DEF TypeOK

(* The queue without the handler that runs: the entries of g are those of h  *)
(* from the second on.                                                       *)
LEMMA Popped ==
  ASSUME Inv, NEW op, NextHandler(op), NEW g, g = Tail(handlers)
  PROVE  /\ g \in Seq([op : Op, id : 0 .. MaxEvents])
         /\ 1 \in DOMAIN handlers /\ handlers[1] = Head(handlers) /\ handlers[1].op = op
         /\ \A j \in DOMAIN g : /\ j + 1 \in DOMAIN handlers /\ g[j] = handlers[j + 1]
                                /\ j + 1 # 1 /\ j \in Nat
         /\ \A j \in DOMAIN handlers :
              j = 1 \/ (j - 1 \in DOMAIN g /\ g[j - 1] = handlers[j])
         /\ ~ioStopped /\ inHand = 0
<1> DEFINE S == [op : Op, id : 0 .. MaxEvents]
<1>1. handlers \in Seq(S) BY Types DEF Inv
<1>2. handlers # <<>> /\ Head(handlers).op = op /\ ~ioStopped /\ inHand = 0 BY DEF NextHandler
<1> HIDE DEF S
<1>3. /\ g \in Seq(S) /\ 1 \in DOMAIN handlers /\ handlers[1] = Head(handlers)
      /\ DOMAIN handlers \subseteq Nat /\ DOMAIN g \subseteq Nat
      /\ \A j \in DOMAIN g : j + 1 \in DOMAIN handlers /\ g[j] = handlers[j + 1] /\ j + 1 # 1
      /\ \A j \in DOMAIN handlers : j = 1 \/ (j - 1 \in DOMAIN g /\ g[j - 1] = handlers[j])
  BY <1>1, <1>2, TailEntries
<1> QED BY <1>2, <1>3 DEF S

(* Popped entries are those from before: what holds of the entries of h      *)
(* without regard to their places holds of those of g.                       *)
LEMMA PoppedInv ==
  ASSUME Inv, NEW op, NextHandler(op), handlers' = Tail(handlers),
         UNCHANGED <<lastEventId, walkVars>>
  PROVE  /\ \A i \in DOMAIN handlers' :
              handlers'[i].op # "cancelAll" => handlers'[i].id \in 1 .. lastEventId'
         /\ \A i, j \in DOMAIN handlers' :
              (handlers'[i].op \in Owner /\ handlers'[j].op \in Owner
                 /\ handlers'[i].id = handlers'[j].id) => i = j
         /\ \A i \in DOMAIN handlers' :
              (op \in Owner /\ handlers'[i].op \in Owner) => handlers'[i].id # handlers[1].id
         /\ walk' = walk /\ kind' = kind /\ lastEventId' = lastEventId /\ online' = online
         /\ Kinds' /\ Living'
<1> DEFINE h == handlers
           g == handlers'
<1>1. /\ 1 \in DOMAIN h /\ h[1].op = op
      /\ \A j \in DOMAIN g : j + 1 \in DOMAIN h /\ g[j] = h[j + 1] /\ j + 1 # 1 /\ j \in Nat
  BY Popped
<1>2. walk' = walk /\ kind' = kind /\ lastEventId' = lastEventId /\ online' = online
  BY DEF walkVars
<1>3. Issued /\ OneOwner /\ Kinds /\ Living BY DEF Inv
<1>4. \A i \in DOMAIN g : g[i].op # "cancelAll" => g[i].id \in 1 .. lastEventId
  BY <1>1, <1>3 DEF Issued
<1>5. ASSUME NEW i \in DOMAIN g, NEW j \in DOMAIN g,
             g[i].op \in Owner, g[j].op \in Owner, g[i].id = g[j].id
      PROVE  i = j
  <2>1. i + 1 = j + 1 BY <1>1, <1>3, <1>5 DEF OneOwner
  <2> QED BY <1>1, <2>1
<1>6. ASSUME NEW i \in DOMAIN g, op \in Owner, g[i].op \in Owner
      PROVE  g[i].id # h[1].id
  BY <1>1, <1>3, <1>6 DEF OneOwner
<1>7. Kinds' /\ Living' BY <1>2, <1>3 DEF Kinds, Living
<1> QED BY <1>2, <1>4, <1>5, <1>6, <1>7

(* Insert: the timer takes over from the handler. *)
LEMMA InsertKeepsInv ==
  ASSUME Inv, Insert, UNCHANGED walkVars
  PROVE  Inv'
<1> DEFINE h == handlers
           g == handlers'
           id == handlers[1].id
<1>1. /\ TypeOK /\ Issued /\ OneOwner /\ HandAlone /\ Completions /\ Running /\ Kinds
      /\ Living /\ Alive
  BY DEF Inv
<1>2. /\ NextHandler("insert") /\ g = Tail(h)
      /\ UNCHANGED <<schedState, ioStopped, lastEventId, inHand, dispatcherOpen, taskList>>
  BY DEF Insert
<1>3. /\ g \in Seq([op : Op, id : 0 .. MaxEvents])
      /\ 1 \in DOMAIN h /\ h[1] = Head(h) /\ h[1].op = "insert" /\ ~ioStopped /\ inHand = 0
      /\ \A j \in DOMAIN g : j + 1 \in DOMAIN h /\ g[j] = h[j + 1] /\ j + 1 # 1 /\ j \in Nat
      /\ \A j \in DOMAIN h : j = 1 \/ (j - 1 \in DOMAIN g /\ g[j - 1] = h[j])
  BY <1>2, Popped
<1>4. /\ \A i \in DOMAIN g : g[i].op # "cancelAll" => g[i].id \in 1 .. lastEventId'
      /\ \A i, j \in DOMAIN g :
           (g[i].op \in Owner /\ g[j].op \in Owner /\ g[i].id = g[j].id) => i = j
      /\ \A i \in DOMAIN g : g[i].op \in Owner => g[i].id # id
      /\ walk' = walk /\ kind' = kind /\ lastEventId' = lastEventId /\ online' = online
      /\ Kinds' /\ Living'
  <2>1. "insert" \in Owner BY DEF Owner
  <2> QED BY <1>2, <2>1, PoppedInv
<1>5. /\ id \in 1 .. lastEventId /\ id \notin DOMAIN timers
      /\ \A j \in DOMAIN taskList : taskList[j] # id
  BY <1>1, <1>3 DEF Issued, OneOwner, Owner
<1>6. timers' = [i \in DOMAIN timers \cup {id} |-> IF i = id THEN "armed" ELSE timers[i]]
  BY <1>3 DEF Insert
<1>7. /\ DOMAIN timers' = DOMAIN timers \cup {id}
      /\ timers'[id] = "armed"
      /\ \A i \in DOMAIN timers : timers'[i] = timers[i]
  BY <1>5, <1>6
<1>8. TypeOK'
  <2>1. /\ \A i \in DOMAIN timers : timers[i] \in {"armed", "completing"}
        /\ DOMAIN timers \subseteq Ids /\ lastEventId <= MaxEvents /\ lastEventId \in Nat
    BY <1>1, Types, WalkAssumption DEF TypeOK, SchedTypeOK
  <2>2. DOMAIN timers \cup {id} \in SUBSET Ids BY <1>5, <2>1, WalkAssumption DEF Ids
  <2>3. timers' \in [DOMAIN timers \cup {id} -> {"armed", "completing"}] BY <1>6, <2>1
  <2>4. /\ schedState' \in {"RUNNING", "CLOSING", "TERMINATED"} /\ ioStopped' \in BOOLEAN
        /\ taskList' \in Seq(Ids) /\ inHand' \in 0 .. MaxEvents
    BY <1>1, <1>2 DEF TypeOK, SchedTypeOK
  <2> QED BY <1>1, <1>2, <1>3, <2>2, <2>3, <2>4, SchedTypes
<1> HIDE DEF g, h, id
<1>9. Issued'
  <2>1. /\ \A i \in DOMAIN taskList : taskList[i] \in 1 .. lastEventId
        /\ walk.eventWalk <= lastEventId /\ walk.walkTaskEvent <= lastEventId
        /\ inHand <= lastEventId
        /\ DOMAIN timers' \subseteq 1 .. lastEventId
    BY <1>1, <1>5, <1>7 DEF Issued
  <2> QED BY <1>2, <1>4, <2>1 DEF Issued, g
<1>10. OneOwner'
  <2>1. \A i \in DOMAIN g, j \in DOMAIN taskList : g[i].op \in Owner => g[i].id # taskList[j]
    BY <1>1, <1>3 DEF OneOwner, h
  <2>2. \A i \in DOMAIN g : g[i].op = "insert" => g[i].id \notin DOMAIN timers'
    <3>1. \A i \in DOMAIN g : g[i].op = "insert" => g[i].id \notin DOMAIN timers
      BY <1>1, <1>3 DEF OneOwner, h
    <3> QED BY <1>4, <1>7, <3>1 DEF Owner
  <2>3. \A j \in DOMAIN taskList : taskList[j] \notin DOMAIN timers' BY <1>1, <1>5, <1>7 DEF OneOwner
  <2>4. \A i, j \in DOMAIN taskList : taskList[i] = taskList[j] => i = j BY <1>1 DEF OneOwner
  <2> QED BY <1>2, <1>4, <2>1, <2>2, <2>3, <2>4 DEF OneOwner, g
<1>11. Completions'
  <2>1. ASSUME NEW e \in DOMAIN timers', timers'[e] = "completing"
        PROVE  \E i \in DOMAIN g : g[i].op \in {"fire", "abort"} /\ g[i].id = e
    <3>1. e \in DOMAIN timers /\ timers[e] = "completing" BY <1>7, <2>1
    <3>2. PICK i \in DOMAIN h : h[i].op \in {"fire", "abort"} /\ h[i].id = e
      BY <1>1, <1>3, <3>1 DEF Completions, h
    <3>3. i # 1 BY <1>3, <3>2
    <3> QED BY <1>3, <3>2, <3>3
  <2>2. ASSUME NEW i \in DOMAIN g, g[i].op \in {"fire", "abort"}
        PROVE  g[i].id \in DOMAIN timers' /\ timers'[g[i].id] = "completing"
    <3>1. g[i].id \in DOMAIN timers /\ timers[g[i].id] = "completing"
      BY <1>1, <1>3, <2>2 DEF Completions, h
    <3> QED BY <1>7, <3>1
  <2> QED BY <2>1, <2>2 DEF Completions, g
<1>12. Running' BY <1>1, <1>2, <1>3, <1>4 DEF Running, g, h
<1>13. Alive'
  <2> SUFFICES ASSUME schedState = "RUNNING", walk.eventWalk # 0
               PROVE  /\ \A i \in DOMAIN g :
                           g[i].op \in {"cancel", "abort"} => g[i].id # walk.eventWalk
                      /\ \/ walk.dying \/ inHand = walk.eventWalk
                         \/ \E i \in DOMAIN g : g[i] = Handler("insert", walk.eventWalk)
                         \/ walk.eventWalk \in DOMAIN timers'
                         \/ \E j \in DOMAIN taskList : taskList[j] = walk.eventWalk
    BY <1>2, <1>4 DEF Alive, g
  <2>1. /\ \A i \in DOMAIN h : h[i].op \in {"cancel", "abort"} => h[i].id # walk.eventWalk
        /\ \/ walk.dying \/ inHand = walk.eventWalk
           \/ \E i \in DOMAIN h : h[i] = Handler("insert", walk.eventWalk)
           \/ walk.eventWalk \in DOMAIN timers
           \/ \E j \in DOMAIN taskList : taskList[j] = walk.eventWalk
    BY <1>1 DEF Alive, h
  <2>2. \A i \in DOMAIN g : g[i].op \in {"cancel", "abort"} => g[i].id # walk.eventWalk
    BY <1>3, <2>1
  <2>3. CASE \E i \in DOMAIN h : h[i] = Handler("insert", walk.eventWalk)
    <3>1. PICK i \in DOMAIN h : h[i] = Handler("insert", walk.eventWalk) BY <2>3
    <3>2. CASE i = 1
      <4>1. id = walk.eventWalk BY <3>1, <3>2 DEF Handler, id, h
      <4> QED BY <1>7, <2>2, <4>1
    <3>3. CASE i # 1 BY <1>3, <2>2, <3>1, <3>3
    <3> QED BY <3>2, <3>3
  <2>4. CASE walk.eventWalk \in DOMAIN timers BY <1>7, <2>2, <2>4
  <2> QED BY <2>1, <2>2, <2>3, <2>4
<1>14. HandAlone' BY <1>2, <1>3 DEF HandAlone, g
<1> QED BY <1>4, <1>8, <1>9, <1>10, <1>11, <1>12, <1>13, <1>14 DEF Inv

(* A queue with one more entry. *)
LEMMA Pushed ==
  ASSUME NEW S, NEW q \in Seq(S), NEW x \in S, NEW r, r = Append(q, x)
  PROVE  /\ r \in Seq(S)
         /\ \E n \in DOMAIN r : n \notin DOMAIN q /\ r[n] = x
                                /\ \A i \in DOMAIN r : i = n \/ (i \in DOMAIN q /\ r[i] = q[i])
         /\ \A i \in DOMAIN q : i \in DOMAIN r /\ r[i] = q[i]
<1>1. r \in Seq(S) /\ Len(r) = Len(q) + 1 /\ Len(q) \in Nat OBVIOUS
<1>2. DOMAIN q = 1 .. Len(q) /\ DOMAIN r = 1 .. Len(q) + 1 BY <1>1
<1>3. r[Len(q) + 1] = x /\ \A i \in 1 .. Len(q) : r[i] = q[i] OBVIOUS
<1>4. \A i \in DOMAIN r : i = Len(q) + 1 \/ (i \in DOMAIN q /\ r[i] = q[i]) BY <1>1, <1>2, <1>3
<1>5. Len(q) + 1 \in DOMAIN r /\ Len(q) + 1 \notin DOMAIN q BY <1>1, <1>2
<1>6. \A i \in DOMAIN q : i \in DOMAIN r /\ r[i] = q[i] BY <1>1, <1>2, <1>3
<1> QED BY <1>1, <1>3, <1>4, <1>5, <1>6

(* A timer completes: its completion goes behind the entries of q, which are *)
(* those of the queue, or all but a cancellation.                            *)
LEMMA TimerCompletes ==
  ASSUME Inv, NEW q \in Seq([op : Op, id : 0 .. MaxEvents]), NEW op \in {"fire", "abort"},
         NEW id \in DOMAIN timers, timers[id] = "armed", ~ioStopped,
         \A i \in DOMAIN q : q[i].op # "cancelAll" => q[i].id \in 1 .. lastEventId,
         \A i, j \in DOMAIN q :
           (q[i].op \in Owner /\ q[j].op \in Owner /\ q[i].id = q[j].id) => i = j,
         \A i \in DOMAIN q : \E k \in DOMAIN handlers : q[i] = handlers[k],
         \A k \in DOMAIN handlers :
           handlers[k].op # "cancel" => \E i \in DOMAIN q : q[i] = handlers[k],
         op = "abort" /\ schedState = "RUNNING" => id # walk.eventWalk,
         handlers' = Append(q, Handler(op, id)),
         timers' = [timers EXCEPT ![id] = "completing"],
         UNCHANGED <<schedState, ioStopped, lastEventId, inHand, dispatcherOpen, taskList, walkVars>>
  PROVE  Inv'
<1> DEFINE h == handlers
           g == handlers'
           x == Handler(op, id)
           S == [op : Op, id : 0 .. MaxEvents]
<1>1. /\ TypeOK /\ Issued /\ OneOwner /\ HandAlone /\ Completions /\ Running /\ Kinds
      /\ Living /\ Alive
  BY DEF Inv
<1>2. walk' = walk /\ kind' = kind /\ online' = online BY DEF walkVars
<1>3. /\ \A i \in DOMAIN timers : timers[i] \in {"armed", "completing"}
      /\ DOMAIN timers \subseteq Ids /\ timers = [i \in DOMAIN timers |-> timers[i]]
      /\ lastEventId \in Nat
  BY <1>1, Types
<1>4. x \in S /\ x.op = op /\ x.id = id
  <2>1. id \in 0 .. MaxEvents BY <1>3, WalkAssumption DEF Ids
  <2> QED BY <2>1 DEF Handler, Op
<1> HIDE DEF x, S
<1>5. /\ g \in Seq(S)
      /\ \E n \in DOMAIN g : n \notin DOMAIN q /\ g[n] = x
                             /\ \A i \in DOMAIN g : i = n \/ (i \in DOMAIN q /\ g[i] = q[i])
      /\ \A i \in DOMAIN q : i \in DOMAIN g /\ g[i] = q[i]
  BY <1>4, Pushed DEF x, S
<1>6. PICK n \in DOMAIN g : n \notin DOMAIN q /\ g[n] = x
                            /\ \A i \in DOMAIN g : i = n \/ (i \in DOMAIN q /\ g[i] = q[i])
  BY <1>5
<1>7. /\ DOMAIN timers' = DOMAIN timers /\ timers'[id] = "completing"
      /\ \A i \in DOMAIN timers : i # id => timers'[i] = timers[i]
  BY <1>3
<1>8. TypeOK'
  <2>1. timers' \in [DOMAIN timers -> {"armed", "completing"}] BY <1>3
  <2>2. /\ schedState' \in {"RUNNING", "CLOSING", "TERMINATED"} /\ ioStopped' \in BOOLEAN
        /\ taskList' \in Seq(Ids) /\ inHand' \in 0 .. MaxEvents
    BY <1>1 DEF TypeOK, SchedTypeOK
  <2> QED BY <1>1, <1>3, <1>5, <2>1, <2>2, SchedTypes DEF S
<1> HIDE DEF g, h
(* No other entry owns the task. *)
<1>9. \A i \in DOMAIN q : q[i].op \in Owner => q[i].id # id
  <2> SUFFICES ASSUME NEW i \in DOMAIN q, q[i].op \in Owner, q[i].id = id
               PROVE  FALSE
    OBVIOUS
  <2>1. PICK k \in DOMAIN h : q[i] = h[k] BY DEF h
  <2>2. CASE h[k].op = "insert" BY <1>1, <2>1, <2>2 DEF OneOwner, h
  <2>3. CASE h[k].op \in {"fire", "abort"}
    <3>1. timers[h[k].id] = "completing" BY <1>1, <2>3 DEF Completions, h
    <3> QED BY <2>1, <3>1
  <2> QED BY <2>1, <2>2, <2>3 DEF Owner
<1>10. Issued'
  <2>1. /\ \A i \in DOMAIN taskList : taskList[i] \in 1 .. lastEventId
        /\ walk.eventWalk <= lastEventId /\ walk.walkTaskEvent <= lastEventId
        /\ inHand <= lastEventId
        /\ DOMAIN timers \subseteq 1 .. lastEventId
    BY <1>1 DEF Issued
  <2>2. \A i \in DOMAIN g : g[i].op # "cancelAll" => g[i].id \in 1 .. lastEventId
    BY <1>4, <1>6, <2>1
  <2> QED BY <1>2, <1>7, <2>1, <2>2 DEF Issued, g
<1>11. OneOwner'
  <2>1. ASSUME NEW i \in DOMAIN g, NEW j \in DOMAIN g,
               g[i].op \in Owner, g[j].op \in Owner, g[i].id = g[j].id
        PROVE  i = j
    <3>1. CASE i = n /\ j = n BY <3>1
    <3>2. CASE i = n /\ j \in DOMAIN q /\ g[j] = q[j] BY <1>4, <1>6, <1>9, <2>1, <3>2
    <3>3. CASE j = n /\ i \in DOMAIN q /\ g[i] = q[i] BY <1>4, <1>6, <1>9, <2>1, <3>3
    <3>4. CASE i \in DOMAIN q /\ g[i] = q[i] /\ j \in DOMAIN q /\ g[j] = q[j] BY <2>1, <3>4
    <3> QED BY <1>6, <3>1, <3>2, <3>3, <3>4
  <2>2. ASSUME NEW i \in DOMAIN g, NEW j \in DOMAIN taskList, g[i].op \in Owner
        PROVE  g[i].id # taskList[j]
    <3>1. CASE i = n BY <1>1, <1>4, <1>6, <3>1 DEF OneOwner
    <3>2. CASE i \in DOMAIN q /\ g[i] = q[i] BY <1>1, <2>2, <3>2 DEF OneOwner
    <3> QED BY <1>6, <3>1, <3>2
  <2>3. ASSUME NEW i \in DOMAIN g, g[i].op = "insert"
        PROVE  g[i].id \notin DOMAIN timers'
    <3>1. i \in DOMAIN q /\ g[i] = q[i] BY <1>4, <1>6, <2>3
    <3> QED BY <1>1, <1>7, <2>3, <3>1 DEF OneOwner
  <2>4. /\ \A j \in DOMAIN taskList : taskList[j] \notin DOMAIN timers'
        /\ \A i, j \in DOMAIN taskList : taskList[i] = taskList[j] => i = j
    BY <1>1, <1>7 DEF OneOwner
  <2> QED BY <2>1, <2>2, <2>3, <2>4 DEF OneOwner, g
<1>12. Completions'
  <2>1. ASSUME NEW e \in DOMAIN timers', timers'[e] = "completing"
        PROVE  \E i \in DOMAIN g : g[i].op \in {"fire", "abort"} /\ g[i].id = e
    <3>1. CASE e = id BY <1>4, <1>6, <3>1
    <3>2. CASE e # id
      <4>1. e \in DOMAIN timers /\ timers[e] = "completing" BY <1>7, <2>1, <3>2
      <4>2. PICK k \in DOMAIN h : h[k].op \in {"fire", "abort"} /\ h[k].id = e
        BY <1>1, <4>1 DEF Completions, h
      <4>3. PICK i \in DOMAIN q : q[i] = h[k] BY <4>2 DEF h
      <4> QED BY <1>5, <4>2, <4>3
    <3> QED BY <3>1, <3>2
  <2>2. ASSUME NEW i \in DOMAIN g, g[i].op \in {"fire", "abort"}
        PROVE  g[i].id \in DOMAIN timers' /\ timers'[g[i].id] = "completing"
    <3>1. CASE i = n BY <1>4, <1>6, <1>7, <3>1
    <3>2. CASE i \in DOMAIN q /\ g[i] = q[i]
      <4>1. PICK k \in DOMAIN h : q[i] = h[k] BY <3>2 DEF h
      <4>2. h[k].id \in DOMAIN timers /\ timers[h[k].id] = "completing"
        BY <1>1, <2>2, <3>2, <4>1 DEF Completions, h
      <4> QED BY <1>7, <3>2, <4>1, <4>2
    <3> QED BY <1>6, <3>1, <3>2
  <2> QED BY <2>1, <2>2 DEF Completions, g
<1>13. Running'
  <2>1. ASSUME schedState = "RUNNING", NEW i \in DOMAIN g
        PROVE  g[i].op # "cancelAll"
    <3>1. CASE i = n BY <1>4, <1>6, <3>1
    <3>2. CASE i \in DOMAIN q /\ g[i] = q[i] BY <1>1, <2>1, <3>2 DEF Running
    <3> QED BY <1>6, <3>1, <3>2
  <2> QED BY <1>1, <1>2, <2>1 DEF Running, g
<1>14. Kinds' /\ Living' BY <1>1, <1>2 DEF Kinds, Living
<1>15. HandAlone'
  <2> SUFFICES ASSUME inHand # 0
               PROVE  /\ \A i \in DOMAIN g : g[i].op \in Owner => g[i].id # inHand
                      /\ \A j \in DOMAIN taskList : taskList[j] # inHand
                      /\ inHand \notin DOMAIN timers
    BY <1>7 DEF HandAlone, g
  <2>1. /\ \A i \in DOMAIN q : q[i].op \in Owner => q[i].id # inHand
        /\ \A j \in DOMAIN taskList : taskList[j] # inHand
        /\ inHand \notin DOMAIN timers
    BY <1>1 DEF HandAlone
  <2> QED BY <1>4, <1>6, <2>1
<1>16. Alive'
  <2> SUFFICES ASSUME schedState = "RUNNING", walk.eventWalk # 0
               PROVE  /\ \A i \in DOMAIN g :
                           g[i].op \in {"cancel", "abort"} => g[i].id # walk.eventWalk
                      /\ \/ walk.dying \/ inHand = walk.eventWalk
                         \/ \E i \in DOMAIN g : g[i] = Handler("insert", walk.eventWalk)
                         \/ walk.eventWalk \in DOMAIN timers
                         \/ \E j \in DOMAIN taskList : taskList[j] = walk.eventWalk
    BY <1>2, <1>7 DEF Alive, g
  <2>1. /\ \A i \in DOMAIN h : h[i].op \in {"cancel", "abort"} => h[i].id # walk.eventWalk
        /\ \/ walk.dying \/ inHand = walk.eventWalk
           \/ \E i \in DOMAIN h : h[i] = Handler("insert", walk.eventWalk)
           \/ walk.eventWalk \in DOMAIN timers
           \/ \E j \in DOMAIN taskList : taskList[j] = walk.eventWalk
    BY <1>1 DEF Alive, h
  <2>2. ASSUME NEW i \in DOMAIN g, g[i].op \in {"cancel", "abort"}
        PROVE  g[i].id # walk.eventWalk
    <3>1. CASE i = n BY <1>4, <1>6, <2>2, <3>1
    <3>2. CASE i \in DOMAIN q /\ g[i] = q[i] BY <2>1, <2>2, <3>2 DEF h
    <3> QED BY <1>6, <3>1, <3>2
  <2>3. CASE \E k \in DOMAIN h : h[k] = Handler("insert", walk.eventWalk)
    <3>1. PICK k \in DOMAIN h : h[k] = Handler("insert", walk.eventWalk) BY <2>3
    <3>2. h[k].op # "cancel" BY <3>1 DEF Handler
    <3>3. PICK i \in DOMAIN q : q[i] = h[k] BY <3>2 DEF h
    <3> QED BY <1>5, <2>2, <3>1, <3>3
  <2> QED BY <2>1, <2>2, <2>3
<1> QED BY <1>8, <1>10, <1>11, <1>12, <1>13, <1>14, <1>15, <1>16 DEF Inv

(* A timer expires. *)
LEMMA ExpireKeepsInv ==
  ASSUME Inv, NEW id \in Ids, Expire(id), UNCHANGED walkVars
  PROVE  Inv'
<1>1. handlers \in Seq([op : Op, id : 0 .. MaxEvents]) BY Types DEF Inv
<1>2. /\ \A i \in DOMAIN handlers : handlers[i].op # "cancelAll" => handlers[i].id \in 1 .. lastEventId
      /\ \A i, j \in DOMAIN handlers :
           (handlers[i].op \in Owner /\ handlers[j].op \in Owner /\ handlers[i].id = handlers[j].id)
             => i = j
  BY DEF Inv, Issued, OneOwner
<1>3. /\ id \in DOMAIN timers /\ timers[id] = "armed" /\ ~ioStopped
      /\ handlers' = Append(handlers, Handler("fire", id))
      /\ timers' = [timers EXCEPT ![id] = "completing"]
      /\ UNCHANGED <<schedState, ioStopped, lastEventId, inHand, dispatcherOpen, taskList, walkVars>>
  BY DEF Expire
<1>4. "fire" \in {"fire", "abort"} /\ "fire" # "abort" OBVIOUS
<1> QED BY <1>1, <1>2, <1>3, <1>4, TimerCompletes

(* The queue loses an entry that owns no task, and nothing else changes. *)
LEMMA PopKeepsInv ==
  ASSUME Inv, NextHandler("cancel"), handlers' = Tail(handlers), UNCHANGED timers,
         UNCHANGED <<schedState, ioStopped, lastEventId, inHand, dispatcherOpen, taskList, walkVars>>
  PROVE  Inv'
<1> DEFINE h == handlers
           g == handlers'
<1>1. /\ TypeOK /\ Issued /\ OneOwner /\ HandAlone /\ Completions /\ Running /\ Kinds
      /\ Living /\ Alive
  BY DEF Inv
<1>2. /\ g \in Seq([op : Op, id : 0 .. MaxEvents])
      /\ 1 \in DOMAIN h /\ h[1].op = "cancel" /\ ~ioStopped /\ inHand = 0
      /\ \A j \in DOMAIN g : j + 1 \in DOMAIN h /\ g[j] = h[j + 1] /\ j + 1 # 1 /\ j \in Nat
      /\ \A j \in DOMAIN h : j = 1 \/ (j - 1 \in DOMAIN g /\ g[j - 1] = h[j])
  BY Popped
<1>3. /\ \A i \in DOMAIN g : g[i].op # "cancelAll" => g[i].id \in 1 .. lastEventId'
      /\ \A i, j \in DOMAIN g :
           (g[i].op \in Owner /\ g[j].op \in Owner /\ g[i].id = g[j].id) => i = j
      /\ walk' = walk /\ kind' = kind /\ lastEventId' = lastEventId /\ online' = online
      /\ Kinds' /\ Living'
  BY PoppedInv
<1>4. TypeOK'
  <2>1. /\ schedState' \in {"RUNNING", "CLOSING", "TERMINATED"} /\ ioStopped' \in BOOLEAN
        /\ taskList' \in Seq(Ids) /\ inHand' \in 0 .. MaxEvents
        /\ \E D \in SUBSET Ids : timers' \in [D -> {"armed", "completing"}]
    BY <1>1 DEF TypeOK, SchedTypeOK
  <2> QED BY <1>1, <1>2, <2>1, SchedTypes
<1> HIDE DEF g, h
<1>5. Issued' /\ HandAlone' BY <1>1, <1>2, <1>3 DEF Issued, HandAlone, g
<1>6. OneOwner'
  <2>1. \A i \in DOMAIN g, j \in DOMAIN taskList : g[i].op \in Owner => g[i].id # taskList[j]
    BY <1>1, <1>2 DEF OneOwner, h
  <2>2. \A i \in DOMAIN g : g[i].op = "insert" => g[i].id \notin DOMAIN timers
    BY <1>1, <1>2 DEF OneOwner, h
  <2> QED BY <1>1, <1>3, <2>1, <2>2 DEF OneOwner, g
<1>7. Completions'
  <2>1. ASSUME NEW e \in DOMAIN timers, timers[e] = "completing"
        PROVE  \E i \in DOMAIN g : g[i].op \in {"fire", "abort"} /\ g[i].id = e
    <3>1. PICK i \in DOMAIN h : h[i].op \in {"fire", "abort"} /\ h[i].id = e
      BY <1>1, <1>2, <2>1 DEF Completions, h
    <3> QED BY <1>2, <3>1
  <2>2. \A i \in DOMAIN g : g[i].op \in {"fire", "abort"} =>
          g[i].id \in DOMAIN timers /\ timers[g[i].id] = "completing"
    BY <1>1, <1>2 DEF Completions, h
  <2> QED BY <2>1, <2>2 DEF Completions, g
<1>8. Running' BY <1>1, <1>2, <1>3 DEF Running, g, h
<1>9. Alive'
  <2> SUFFICES ASSUME schedState = "RUNNING", walk.eventWalk # 0
               PROVE  /\ \A i \in DOMAIN g :
                           g[i].op \in {"cancel", "abort"} => g[i].id # walk.eventWalk
                      /\ \/ walk.dying \/ inHand = walk.eventWalk
                         \/ \E i \in DOMAIN g : g[i] = Handler("insert", walk.eventWalk)
                         \/ walk.eventWalk \in DOMAIN timers
                         \/ \E j \in DOMAIN taskList : taskList[j] = walk.eventWalk
    BY <1>3 DEF Alive, g
  <2>1. /\ \A i \in DOMAIN h : h[i].op \in {"cancel", "abort"} => h[i].id # walk.eventWalk
        /\ \/ walk.dying \/ inHand = walk.eventWalk
           \/ \E i \in DOMAIN h : h[i] = Handler("insert", walk.eventWalk)
           \/ walk.eventWalk \in DOMAIN timers
           \/ \E j \in DOMAIN taskList : taskList[j] = walk.eventWalk
    BY <1>1 DEF Alive, h
  <2>2. \A i \in DOMAIN g : g[i].op \in {"cancel", "abort"} => g[i].id # walk.eventWalk
    BY <1>2, <2>1
  <2>3. CASE \E i \in DOMAIN h : h[i] = Handler("insert", walk.eventWalk)
    <3>1. PICK i \in DOMAIN h : h[i] = Handler("insert", walk.eventWalk) BY <2>3
    <3>2. i # 1 BY <1>2, <3>1 DEF Handler
    <3> QED BY <1>2, <2>2, <3>1, <3>2
  <2> QED BY <2>1, <2>2, <2>3
<1> QED BY <1>3, <1>4, <1>5, <1>6, <1>7, <1>8, <1>9 DEF Inv

(* stopEvent: a timer that has not expired completes, any other goes on. *)
LEMMA CancelTimerKeepsInv ==
  ASSUME Inv, CancelTimer, UNCHANGED walkVars
  PROVE  Inv'
<1> DEFINE h == handlers
           q == Tail(handlers)
           id == handlers[1].id
<1>1. /\ NextHandler("cancel")
      /\ UNCHANGED <<schedState, ioStopped, lastEventId, inHand, dispatcherOpen, taskList>>
  BY DEF CancelTimer
<1>2. /\ q \in Seq([op : Op, id : 0 .. MaxEvents])
      /\ 1 \in DOMAIN h /\ h[1] = Head(h) /\ h[1].op = "cancel" /\ ~ioStopped
      /\ \A j \in DOMAIN q : j + 1 \in DOMAIN h /\ q[j] = h[j + 1] /\ j + 1 # 1 /\ j \in Nat
      /\ \A j \in DOMAIN h : j = 1 \/ (j - 1 \in DOMAIN q /\ q[j - 1] = h[j])
  BY <1>1, Popped
<1>3. CASE ~Cancellable(id)
  <2>1. handlers' = Tail(handlers) /\ UNCHANGED timers BY <1>2, <1>3 DEF CancelTimer
  <2> QED BY <1>1, <2>1, PopKeepsInv
<1>4. CASE Cancellable(id)
  <2>1. /\ timers' = [timers EXCEPT ![id] = "completing"]
        /\ handlers' = Append(q, Handler("abort", id))
    BY <1>2, <1>4 DEF CancelTimer
  <2>2. id \in DOMAIN timers /\ timers[id] = "armed" BY <1>4 DEF Cancellable
  <2>3. Issued /\ OneOwner /\ Alive /\ TypeOK /\ walk \in Fields BY WalkFields DEF Inv
  <2> HIDE DEF h, q, id
  <2>4. \A i \in DOMAIN q : q[i].op # "cancelAll" => q[i].id \in 1 .. lastEventId
    BY <1>2, <2>3 DEF Issued, h
  <2>5. ASSUME NEW i \in DOMAIN q, NEW j \in DOMAIN q,
               q[i].op \in Owner, q[j].op \in Owner, q[i].id = q[j].id
        PROVE  i = j
    <3>1. i + 1 = j + 1 BY <1>2, <2>3, <2>5 DEF OneOwner, h
    <3> QED BY <1>2, <3>1
  <2>6. \A i \in DOMAIN q : \E k \in DOMAIN handlers : q[i] = handlers[k] BY <1>2 DEF h
  <2>7. \A k \in DOMAIN handlers :
          handlers[k].op # "cancel" => \E i \in DOMAIN q : q[i] = handlers[k]
    BY <1>2 DEF h
  <2>8. schedState = "RUNNING" => id # walk.eventWalk
    <3>1. id \in 1 .. lastEventId BY <1>2, <2>3 DEF Issued, h, id
    <3> QED BY <1>2, <2>3, <3>1, LastId DEF Alive, h, id
  <2>9. "abort" \in {"fire", "abort"} OBVIOUS
  <2>10. UNCHANGED <<schedState, ioStopped, lastEventId, inHand, dispatcherOpen, taskList, walkVars>>
    BY <1>1
  <2> QED BY <1>2, <2>1, <2>2, <2>4, <2>5, <2>6, <2>7, <2>8, <2>9, <2>10, TimerCompletes
<1> QED BY <1>3, <1>4

(* The completion of a timer is handled: the timer leaves the map, and the   *)
(* scheduler thread, if it goes on with the task, has it alone.              *)
LEMMA CompletionKeepsInv ==
  ASSUME Inv, NEW op \in {"fire", "abort"}, NextHandler(op),
         timers' = Without(Head(handlers).id), handlers' = Tail(handlers),
         inHand' \in {0, Head(handlers).id},
         op = "fire" /\ schedState = "RUNNING" => inHand' = Head(handlers).id,
         UNCHANGED <<schedState, ioStopped, lastEventId, dispatcherOpen, taskList, walkVars>>
  PROVE  Inv'
<1> DEFINE h == handlers
           g == handlers'
           id == handlers[1].id
<1>1. /\ TypeOK /\ Issued /\ OneOwner /\ Completions /\ Running /\ Kinds /\ Alive BY DEF Inv
<1>2. /\ g \in Seq([op : Op, id : 0 .. MaxEvents])
      /\ 1 \in DOMAIN h /\ h[1] = Head(h) /\ h[1].op = op /\ ~ioStopped /\ inHand = 0
      /\ \A j \in DOMAIN g : j + 1 \in DOMAIN h /\ g[j] = h[j + 1] /\ j + 1 # 1 /\ j \in Nat
      /\ \A j \in DOMAIN h : j = 1 \/ (j - 1 \in DOMAIN g /\ g[j - 1] = h[j])
  BY Popped
<1>3. /\ \A i \in DOMAIN g : g[i].op # "cancelAll" => g[i].id \in 1 .. lastEventId'
      /\ \A i, j \in DOMAIN g :
           (g[i].op \in Owner /\ g[j].op \in Owner /\ g[i].id = g[j].id) => i = j
      /\ \A i \in DOMAIN g : g[i].op \in Owner => g[i].id # id
      /\ walk' = walk /\ kind' = kind /\ lastEventId' = lastEventId /\ online' = online
      /\ Kinds' /\ Living'
  <2>1. op \in Owner BY DEF Owner
  <2> QED BY <2>1, PoppedInv
<1>4. /\ id \in DOMAIN timers /\ timers[id] = "completing"
      /\ id \in 1 .. lastEventId
      /\ \A j \in DOMAIN taskList : taskList[j] # id
  <2>1. op # "cancelAll" /\ op \in Owner BY DEF Owner
  <2> QED BY <1>1, <1>2, <2>1 DEF Completions, Issued, OneOwner
<1>5. /\ \A i \in DOMAIN timers : timers[i] \in {"armed", "completing"}
      /\ DOMAIN timers \subseteq Ids /\ lastEventId \in Nat
  BY <1>1, Types
<1>6. timers' = [i \in DOMAIN timers \ {id} |-> timers[i]] BY <1>2 DEF Without
<1>7. /\ DOMAIN timers' = DOMAIN timers \ {id}
      /\ \A i \in DOMAIN timers : i # id => timers'[i] = timers[i]
  BY <1>6
<1>8. /\ inHand' \in {0, id}
      /\ op = "fire" /\ schedState = "RUNNING" => inHand' = id
  BY <1>2
<1> HIDE DEF g, h, id
<1>9. TypeOK'
  <2>1. timers' \in [DOMAIN timers \ {id} -> {"armed", "completing"}] BY <1>5, <1>6
  <2>2. DOMAIN timers \ {id} \in SUBSET Ids BY <1>5
  <2>3. /\ schedState' \in {"RUNNING", "CLOSING", "TERMINATED"} /\ ioStopped' \in BOOLEAN
        /\ taskList' \in Seq(Ids)
    BY <1>1 DEF TypeOK, SchedTypeOK
  <2>4. inHand' \in 0 .. MaxEvents
    <3>1. id \in Ids BY <1>4, <1>5
    <3> QED BY <1>8, <3>1, WalkAssumption DEF Ids
  <2> QED BY <1>1, <1>2, <2>1, <2>2, <2>3, <2>4, SchedTypes DEF g
<1>10. Issued'
  <2>1. /\ \A i \in DOMAIN taskList : taskList[i] \in 1 .. lastEventId
        /\ walk.eventWalk <= lastEventId /\ walk.walkTaskEvent <= lastEventId
        /\ DOMAIN timers' \subseteq 1 .. lastEventId
    BY <1>1, <1>7 DEF Issued
  <2>2. inHand' <= lastEventId BY <1>4, <1>5, <1>8
  <2> QED BY <1>3, <2>1, <2>2 DEF Issued, g
<1>11. OneOwner'
  <2>1. \A i \in DOMAIN g, j \in DOMAIN taskList : g[i].op \in Owner => g[i].id # taskList[j]
    BY <1>1, <1>2 DEF OneOwner, h
  <2>2. \A i \in DOMAIN g : g[i].op = "insert" => g[i].id \notin DOMAIN timers'
    <3>1. \A i \in DOMAIN g : g[i].op = "insert" => g[i].id \notin DOMAIN timers
      BY <1>1, <1>2 DEF OneOwner, h
    <3> QED BY <1>7, <3>1
  <2>3. \A j \in DOMAIN taskList : taskList[j] \notin DOMAIN timers' BY <1>1, <1>7 DEF OneOwner
  <2>4. \A i, j \in DOMAIN taskList : taskList[i] = taskList[j] => i = j BY <1>1 DEF OneOwner
  <2> QED BY <1>3, <2>1, <2>2, <2>3, <2>4 DEF OneOwner, g
<1>12. HandAlone' BY <1>3, <1>4, <1>7, <1>8 DEF HandAlone, g
<1>13. Completions'
  <2>1. ASSUME NEW e \in DOMAIN timers', timers'[e] = "completing"
        PROVE  \E i \in DOMAIN g : g[i].op \in {"fire", "abort"} /\ g[i].id = e
    <3>1. e \in DOMAIN timers /\ e # id /\ timers[e] = "completing" BY <1>7, <2>1
    <3>2. PICK i \in DOMAIN h : h[i].op \in {"fire", "abort"} /\ h[i].id = e
      BY <1>1, <1>2, <3>1 DEF Completions, h
    <3>3. i # 1 BY <3>1, <3>2 DEF id, h
    <3> QED BY <1>2, <3>2, <3>3
  <2>2. ASSUME NEW i \in DOMAIN g, g[i].op \in {"fire", "abort"}
        PROVE  g[i].id \in DOMAIN timers' /\ timers'[g[i].id] = "completing"
    <3>1. g[i].id \in DOMAIN timers /\ timers[g[i].id] = "completing"
      BY <1>1, <1>2, <2>2 DEF Completions, h
    <3>2. g[i].id # id BY <1>3, <2>2 DEF Owner
    <3> QED BY <1>7, <3>1, <3>2
  <2> QED BY <2>1, <2>2 DEF Completions, g
<1>14. Running' BY <1>1, <1>2, <1>3 DEF Running, g, h
<1>15. Alive'
  <2> SUFFICES ASSUME schedState = "RUNNING", walk.eventWalk # 0
               PROVE  /\ \A i \in DOMAIN g :
                           g[i].op \in {"cancel", "abort"} => g[i].id # walk.eventWalk
                      /\ \/ walk.dying \/ inHand' = walk.eventWalk
                         \/ \E i \in DOMAIN g : g[i] = Handler("insert", walk.eventWalk)
                         \/ walk.eventWalk \in DOMAIN timers'
                         \/ \E j \in DOMAIN taskList : taskList[j] = walk.eventWalk
    BY <1>3 DEF Alive, g
  <2>1. /\ \A i \in DOMAIN h : h[i].op \in {"cancel", "abort"} => h[i].id # walk.eventWalk
        /\ \/ walk.dying
           \/ \E i \in DOMAIN h : h[i] = Handler("insert", walk.eventWalk)
           \/ walk.eventWalk \in DOMAIN timers
           \/ \E j \in DOMAIN taskList : taskList[j] = walk.eventWalk
    BY <1>1, <1>2 DEF Alive, h
  <2>2. \A i \in DOMAIN g : g[i].op \in {"cancel", "abort"} => g[i].id # walk.eventWalk
    BY <1>2, <2>1
  <2>3. CASE \E i \in DOMAIN h : h[i] = Handler("insert", walk.eventWalk)
    <3>1. PICK i \in DOMAIN h : h[i] = Handler("insert", walk.eventWalk) BY <2>3
    <3>2. i # 1 BY <1>2, <3>1 DEF Handler
    <3> QED BY <1>2, <2>2, <3>1, <3>2
  <2>4. CASE walk.eventWalk \in DOMAIN timers
    <3>1. CASE walk.eventWalk # id BY <1>7, <2>2, <2>4, <3>1
    <3>2. CASE walk.eventWalk = id
      <4>1. op = "fire" BY <1>2, <2>1, <3>2 DEF id, h
      <4> QED BY <1>8, <2>2, <3>2, <4>1
    <3> QED BY <3>1, <3>2
  <2> QED BY <2>1, <2>2, <2>3, <2>4
<1> QED BY <1>3, <1>9, <1>10, <1>11, <1>12, <1>13, <1>14, <1>15 DEF Inv

(* The completion of a timer that expired. *)
LEMMA FireKeepsInv ==
  ASSUME Inv, Fire, UNCHANGED walkVars
  PROVE  Inv'
<1>1. /\ NextHandler("fire") /\ timers' = Without(Head(handlers).id) /\ handlers' = Tail(handlers)
      /\ UNCHANGED <<schedState, ioStopped, lastEventId, dispatcherOpen, taskList>>
      /\ inHand' = IF ToDispatcher THEN Head(handlers).id ELSE 0
  BY DEF Fire
<1>2. schedState = "RUNNING" => ToDispatcher BY DEF ToDispatcher
<1>3. "fire" \in {"fire", "abort"} OBVIOUS
<1>4. inHand' \in {0, Head(handlers).id} BY <1>1
<1>5. schedState = "RUNNING" => inHand' = Head(handlers).id BY <1>1, <1>2
<1>6. UNCHANGED <<schedState, ioStopped, lastEventId, dispatcherOpen, taskList, walkVars>> BY <1>1
<1> QED BY <1>1, <1>3, <1>4, <1>5, <1>6, CompletionKeepsInv

(* The completion of a timer that was cancelled. *)
LEMMA AbortKeepsInv ==
  ASSUME Inv, Abort, UNCHANGED walkVars
  PROVE  Inv'
<1>1. /\ NextHandler("abort") /\ timers' = Without(Head(handlers).id) /\ handlers' = Tail(handlers)
      /\ UNCHANGED <<schedState, ioStopped, lastEventId, inHand, dispatcherOpen, taskList>>
  BY DEF Abort
<1>2. "abort" \in {"fire", "abort"} /\ "abort" # "fire" OBVIOUS
<1>3. UNCHANGED <<schedState, ioStopped, lastEventId, dispatcherOpen, taskList, walkVars>> BY <1>1
<1>4. inHand' \in {0, Head(handlers).id} BY <1>1 DEF NextHandler
<1> QED BY <1>1, <1>2, <1>3, <1>4, CompletionKeepsInv

(* addTask: the dispatcher, unless it is closed, has the task alone. *)
LEMMA HandOverKeepsInv ==
  ASSUME Inv, HandOver, UNCHANGED walkVars
  PROVE  Inv'
<1> DEFINE l == taskList'
           e == inHand
<1>1. /\ TypeOK /\ Issued /\ OneOwner /\ HandAlone /\ Completions /\ Running /\ Kinds
      /\ Living /\ Alive
  BY DEF Inv
<1>2. /\ e # 0 /\ inHand' = 0
      /\ l = IF dispatcherOpen THEN Append(taskList, e) ELSE taskList
      /\ UNCHANGED <<schedState, ioStopped, lastEventId, handlers, timers, dispatcherOpen>>
      /\ UNCHANGED <<online, walk, kind, autoWalks>>
  BY DEF HandOver, walkVars
<1>3. e \in 1 .. lastEventId /\ lastEventId \in Nat /\ e \in Ids /\ taskList \in Seq(Ids)
  BY <1>1, <1>2, Types, WalkAssumption DEF Issued, Ids
<1>4. /\ \A i \in DOMAIN handlers : handlers[i].op \in Owner => handlers[i].id # e
      /\ \A j \in DOMAIN taskList : taskList[j] # e
      /\ e \notin DOMAIN timers
  BY <1>1, <1>2 DEF HandAlone
<1> HIDE DEF l, e
<1>5. l = Append(taskList, e) =>
        /\ l \in Seq(Ids)
        /\ \E n \in DOMAIN l : n \notin DOMAIN taskList /\ l[n] = e
                               /\ \A i \in DOMAIN l : i = n \/ (i \in DOMAIN taskList /\ l[i] = taskList[i])
        /\ \A i \in DOMAIN taskList : i \in DOMAIN l /\ l[i] = taskList[i]
  BY <1>3, Pushed
<1>6. l \in Seq(Ids) BY <1>2, <1>3, <1>5
<1>7. /\ \A i \in DOMAIN l : l[i] = e \/ (i \in DOMAIN taskList /\ l[i] = taskList[i])
      /\ \A i, j \in DOMAIN l : l[i] = e /\ l[j] = e => i = j
      /\ \A i \in DOMAIN taskList : i \in DOMAIN l /\ l[i] = taskList[i]
  BY <1>2, <1>4, <1>5
<1>8. schedState = "RUNNING" => \E i \in DOMAIN l : l[i] = e BY <1>1, <1>2, <1>5 DEF Running
<1>9. TypeOK'
  <2>1. 0 \in 0 .. MaxEvents BY WalkAssumption
  <2>2. SchedTypeOK' BY <1>1, <1>2, <1>6, <2>1 DEF TypeOK, SchedTypeOK, l
  <2> QED BY <1>1, <1>2, <2>2 DEF TypeOK
<1>10. Issued'
  <2>1. \A j \in DOMAIN taskList : taskList[j] \in 1 .. lastEventId BY <1>1 DEF Issued
  <2>2. \A j \in DOMAIN l : l[j] \in 1 .. lastEventId BY <1>3, <1>7, <2>1
  <2>3. inHand' <= lastEventId BY <1>2, <1>3
  <2> QED BY <1>1, <1>2, <2>2, <2>3 DEF Issued, l
<1>11. OneOwner'
  <2>1. \A i \in DOMAIN handlers, j \in DOMAIN l :
          handlers[i].op \in Owner => handlers[i].id # l[j]
    <3>1. \A i \in DOMAIN handlers, j \in DOMAIN taskList :
            handlers[i].op \in Owner => handlers[i].id # taskList[j]
      BY <1>1 DEF OneOwner
    <3> QED BY <1>4, <1>7, <3>1
  <2>2. \A j \in DOMAIN l : l[j] \notin DOMAIN timers BY <1>1, <1>4, <1>7 DEF OneOwner
  <2>3. \A i, j \in DOMAIN l : l[i] = l[j] => i = j
    <3>1. \A i, j \in DOMAIN taskList : taskList[i] = taskList[j] => i = j BY <1>1 DEF OneOwner
    <3> QED BY <1>4, <1>7, <3>1
  <2> QED BY <1>1, <1>2, <2>1, <2>2, <2>3 DEF OneOwner, l
<1>12. Completions' /\ Kinds' /\ Living' BY <1>1, <1>2 DEF Completions, Kinds, Living
<1>13. HandAlone' BY <1>2 DEF HandAlone
<1>14. Running' BY <1>1, <1>2 DEF Running
<1>15. Alive'
  <2> SUFFICES ASSUME schedState = "RUNNING", walk.eventWalk # 0
               PROVE  /\ \A i \in DOMAIN handlers :
                           handlers[i].op \in {"cancel", "abort"} => handlers[i].id # walk.eventWalk
                      /\ \/ walk.dying
                         \/ \E i \in DOMAIN handlers : handlers[i] = Handler("insert", walk.eventWalk)
                         \/ walk.eventWalk \in DOMAIN timers
                         \/ \E j \in DOMAIN l : l[j] = walk.eventWalk
    BY <1>2 DEF Alive, l
  <2> QED BY <1>1, <1>7, <1>8 DEF Alive, e
<1> QED BY <1>9, <1>10, <1>11, <1>12, <1>13, <1>14, <1>15 DEF Inv

(* cancelAll: every timer completes, and none of their completions runs. *)
LEMMA CancelAllKeepsInv ==
  ASSUME Inv, CancelAll, UNCHANGED walkVars
  PROVE  Inv'
<1> DEFINE h == handlers
           g == handlers'
<1>1. TypeOK /\ Issued /\ OneOwner /\ HandAlone /\ Running /\ Kinds BY DEF Inv
<1>2. /\ NextHandler("cancelAll") /\ ioStopped' = TRUE /\ g = Tail(h)
      /\ timers' = [i \in DOMAIN timers |-> "completing"]
      /\ UNCHANGED <<schedState, lastEventId, inHand, dispatcherOpen, taskList>>
  BY DEF CancelAll
<1>3. /\ g \in Seq([op : Op, id : 0 .. MaxEvents])
      /\ 1 \in DOMAIN h /\ h[1].op = "cancelAll" /\ inHand = 0
      /\ \A j \in DOMAIN g : j + 1 \in DOMAIN h /\ g[j] = h[j + 1] /\ j + 1 # 1 /\ j \in Nat
  BY <1>2, Popped
<1>4. /\ \A i \in DOMAIN g : g[i].op # "cancelAll" => g[i].id \in 1 .. lastEventId'
      /\ \A i, j \in DOMAIN g :
           (g[i].op \in Owner /\ g[j].op \in Owner /\ g[i].id = g[j].id) => i = j
      /\ walk' = walk /\ kind' = kind /\ lastEventId' = lastEventId /\ online' = online
      /\ Kinds' /\ Living'
  BY <1>2, PoppedInv
<1>5. DOMAIN timers' = DOMAIN timers BY <1>2
<1>6. TypeOK'
  <2>1. DOMAIN timers \in SUBSET Ids BY <1>1, Types
  <2>2. timers' \in [DOMAIN timers -> {"armed", "completing"}] BY <1>2
  <2>3. /\ schedState' \in {"RUNNING", "CLOSING", "TERMINATED"} /\ ioStopped' \in BOOLEAN
        /\ taskList' \in Seq(Ids) /\ inHand' \in 0 .. MaxEvents
    BY <1>1, <1>2 DEF TypeOK, SchedTypeOK
  <2> QED BY <1>1, <1>2, <1>3, <2>1, <2>2, <2>3, SchedTypes
<1>7. schedState # "RUNNING" BY <1>1, <1>3 DEF Running
<1> HIDE DEF g, h
<1>8. Issued' BY <1>1, <1>2, <1>4, <1>5 DEF Issued, g
<1>9. OneOwner'
  <2>1. \A i \in DOMAIN g, j \in DOMAIN taskList : g[i].op \in Owner => g[i].id # taskList[j]
    BY <1>1, <1>3 DEF OneOwner, h
  <2>2. \A i \in DOMAIN g : g[i].op = "insert" => g[i].id \notin DOMAIN timers'
    BY <1>1, <1>3, <1>5 DEF OneOwner, h
  <2> QED BY <1>1, <1>2, <1>4, <1>5, <2>1, <2>2 DEF OneOwner, g
<1>10. Completions' /\ Running' /\ Alive'
  BY <1>1, <1>2, <1>4, <1>7 DEF Completions, Running, Alive
<1>11. HandAlone' BY <1>2, <1>3 DEF HandAlone
<1> QED BY <1>4, <1>6, <1>8, <1>9, <1>10, <1>11 DEF Inv

(* Scheduler::shutdown posts cancelAll. *)
LEMMA ShutdownKeepsInv == ASSUME Inv, Shutdown PROVE Inv'
<1> DEFINE h == handlers
           g == handlers'
           x == Handler("cancelAll", 0)
           S == [op : Op, id : 0 .. MaxEvents]
<1>1. TypeOK /\ Issued /\ OneOwner /\ HandAlone /\ Completions /\ Running /\ Kinds /\ Living
  BY DEF Inv
<1>2. /\ schedState' = "TERMINATED" /\ g = h \o <<x>>
      /\ schedState = IF online THEN "CLOSING" ELSE "RUNNING"
      /\ UNCHANGED <<ioStopped, lastEventId, inHand, timers, dispatcherOpen, taskList, walkVars>>
  BY DEF Shutdown, Post
<1>3. h \in Seq(S) BY <1>1, Types
<1>4. x \in S /\ x.op = "cancelAll" BY WalkAssumption DEF Handler, Op
<1> HIDE DEF x, S, h
<1>5. /\ g \in Seq(S)
      /\ \E n \in DOMAIN g : n \notin DOMAIN h /\ g[n] = x
                             /\ \A i \in DOMAIN g : i = n \/ (i \in DOMAIN h /\ g[i] = h[i])
      /\ \A i \in DOMAIN h : i \in DOMAIN g /\ g[i] = h[i]
  <2>1. g = Append(h, x) BY <1>2, <1>3, <1>4
  <2> QED BY <1>3, <1>4, <2>1, Pushed
<1>6. /\ \A i \in DOMAIN g : g[i].op # "cancelAll" => i \in DOMAIN h /\ g[i] = h[i]
      /\ \A i \in DOMAIN h : i \in DOMAIN g /\ g[i] = h[i]
  BY <1>4, <1>5
<1>7. walk' = walk /\ kind' = kind /\ online' = online BY <1>2 DEF walkVars
<1>8. TypeOK'
  <2>1. /\ taskList' \in Seq(Ids) /\ inHand' \in 0 .. MaxEvents /\ ioStopped' \in BOOLEAN
        /\ \E D \in SUBSET Ids : timers' \in [D -> {"armed", "completing"}]
    BY <1>1, <1>2 DEF TypeOK, SchedTypeOK
  <2> QED BY <1>1, <1>2, <1>5, <2>1, SchedTypes DEF S
<1> HIDE DEF g
<1>9. Issued' BY <1>1, <1>2, <1>6, <1>7 DEF Issued, g, h
<1>10. OneOwner'
  <2>1. \A i \in DOMAIN g : g[i].op \in Owner => i \in DOMAIN h /\ g[i] = h[i] BY <1>6 DEF Owner
  <2>2. \A i, j \in DOMAIN g :
          (g[i].op \in Owner /\ g[j].op \in Owner /\ g[i].id = g[j].id) => i = j
    BY <1>1, <2>1 DEF OneOwner, h
  <2>3. \A i \in DOMAIN g, j \in DOMAIN taskList : g[i].op \in Owner => g[i].id # taskList[j]
    BY <1>1, <2>1 DEF OneOwner, h
  <2>4. \A i \in DOMAIN g : g[i].op = "insert" => g[i].id \notin DOMAIN timers
    BY <1>1, <2>1 DEF OneOwner, Owner, h
  <2> QED BY <1>1, <1>2, <2>2, <2>3, <2>4 DEF OneOwner, g
<1>11. Completions'
  <2> SUFFICES ASSUME ~ioStopped
               PROVE  /\ \A id \in DOMAIN timers :
                           timers[id] = "completing" =>
                             \E i \in DOMAIN g : g[i].op \in {"fire", "abort"} /\ g[i].id = id
                      /\ \A i \in DOMAIN g :
                           g[i].op \in {"fire", "abort"} =>
                             g[i].id \in DOMAIN timers /\ timers[g[i].id] = "completing"
    BY <1>2 DEF Completions, g
  <2>1. \A i \in DOMAIN g : g[i].op \in {"fire", "abort"} => i \in DOMAIN h /\ g[i] = h[i]
    BY <1>6
  <2>2. \A id \in DOMAIN timers :
          timers[id] = "completing" =>
            \E i \in DOMAIN h : h[i].op \in {"fire", "abort"} /\ h[i].id = id
    BY <1>1 DEF Completions, h
  <2>3. \A i \in DOMAIN h : h[i].op \in {"fire", "abort"} =>
          h[i].id \in DOMAIN timers /\ timers[h[i].id] = "completing"
    BY <1>1 DEF Completions, h
  <2>4. \A id \in DOMAIN timers :
          timers[id] = "completing" =>
            \E i \in DOMAIN g : g[i].op \in {"fire", "abort"} /\ g[i].id = id
    BY <1>6, <2>2
  <2> QED BY <2>1, <2>3, <2>4
<1>12. Running' /\ Alive' BY <1>1, <1>2, <1>7 DEF Running, Alive
<1>13. Kinds' /\ Living' BY <1>1, <1>7 DEF Kinds, Living
<1>14. HandAlone'
  <2>1. \A i \in DOMAIN g : g[i].op \in Owner => i \in DOMAIN h /\ g[i] = h[i] BY <1>6 DEF Owner
  <2> QED BY <1>1, <1>2, <2>1 DEF HandAlone, g, h
<1> QED BY <1>8, <1>9, <1>10, <1>11, <1>12, <1>13, <1>14 DEF Inv

(* Nobody is there who has events. *)
LEMMA AbsentType == Absent \in Walk /\ Absent.eventWalk = 0 /\ Absent.walkTaskEvent = 0
                    /\ ~Absent.present /\ ~Absent.healthy /\ ~Absent.dying
  BY WalkAssumption DEF Absent, Walk

(* The players are removed and the threads told to stop. *)
LEMMA StopThreadsKeepsInv == ASSUME Inv, StopThreads PROVE Inv'
<1>1. TypeOK /\ Issued /\ OneOwner /\ HandAlone /\ Completions /\ Kinds BY DEF Inv
<1>2. /\ schedState' = "CLOSING" /\ dispatcherOpen' = FALSE /\ walk' = Absent
      /\ UNCHANGED <<ioStopped, lastEventId, inHand, handlers, timers, taskList, online, autoWalks,
                     kind>>
  BY DEF StopThreads
<1>3. TypeOK' BY <1>1, <1>2, AbsentType DEF TypeOK, SchedTypeOK
<1>4. Issued' BY <1>1, <1>2, AbsentType, LastId DEF Issued
<1>5. OneOwner' /\ HandAlone' /\ Completions'
  BY <1>1, <1>2 DEF OneOwner, HandAlone, Completions
<1>6. Kinds' /\ Living' BY <1>2, AbsentType DEF Kinds, Living
<1>7. Running' /\ Alive' BY <1>2 DEF Running, Alive
<1> QED BY <1>3, <1>4, <1>5, <1>6, <1>7 DEF Inv

(* The dispatcher is closed after the scheduler has ended. *)
LEMMA CloseDispatcherKeepsInv == ASSUME Inv, CloseDispatcher PROVE Inv'
<1>1. TypeOK /\ Issued /\ OneOwner /\ HandAlone /\ Completions /\ Kinds /\ Living BY DEF Inv
<1>2. /\ schedState = "TERMINATED" /\ dispatcherOpen' = FALSE
      /\ UNCHANGED <<schedState, ioStopped, lastEventId, inHand, handlers, timers, taskList>>
      /\ UNCHANGED <<online, walk, autoWalks, kind>>
  BY DEF CloseDispatcher, walkVars
<1>3. TypeOK' BY <1>1, <1>2 DEF TypeOK, SchedTypeOK
<1>4. Issued' BY <1>1, <1>2 DEF Issued
<1>5. OneOwner' /\ HandAlone' /\ Completions'
  BY <1>1, <1>2 DEF OneOwner, HandAlone, Completions
<1>6. Kinds' /\ Living' BY <1>1, <1>2 DEF Kinds, Living
<1>7. Running' /\ Alive' BY <1>2 DEF Running, Alive
<1> QED BY <1>3, <1>4, <1>5, <1>6, <1>7 DEF Inv

(* Only the fields of the player change, and not its events. *)
LEMMA WalkFieldsKeepInv ==
  ASSUME Inv, UNCHANGED <<schedVars, online, autoWalks, kind>>, walk' \in Walk,
         walk'.eventWalk = walk.eventWalk, walk'.walkTaskEvent = walk.walkTaskEvent,
         walk'.present = walk.present, walk.dying => walk'.dying,
         walk'.present <=> (walk'.healthy \/ walk'.dying)
  PROVE  Inv'
<1>1. /\ TypeOK /\ Issued /\ OneOwner /\ HandAlone /\ Completions /\ Running /\ Kinds
      /\ Living /\ Alive
  BY DEF Inv
<1>2. UNCHANGED <<schedState, ioStopped, lastEventId, inHand, handlers, timers, dispatcherOpen,
                  taskList, online, autoWalks, kind>>
  BY DEF schedVars
<1>3. TypeOK' BY <1>1, <1>2 DEF TypeOK, SchedTypeOK
<1>4. Issued' BY <1>1, <1>2 DEF Issued
<1>5. OneOwner' /\ HandAlone' /\ Completions' /\ Running'
  BY <1>1, <1>2 DEF OneOwner, HandAlone, Completions, Running
<1>6. Kinds' /\ Living' BY <1>1, <1>2 DEF Kinds, Living
<1>7. Alive' BY <1>1, <1>2 DEF Alive
<1> QED BY <1>3, <1>4, <1>5, <1>6, <1>7 DEF Inv

-----------------------------------------------------------------------------
(* Tasks of the dispatcher: each is a sound handler that is finished. *)

(* A path of another length. *)
LEMMA StepsSound ==
  ASSUME TypeOK, NEW s, Sound(s), NEW n \in 0 .. MaxPath, NEW t, t = [s EXCEPT !.w.steps = n]
  PROVE  Sound(t)
<1>1. s \in Progress BY DEF Sound, Settled
<1>2. /\ t \in Progress /\ t.kind = s.kind /\ t.posts = s.posts
      /\ t.w.eventWalk = s.w.eventWalk /\ t.w.walkTaskEvent = s.w.walkTaskEvent
      /\ Life(t.w) = Life(s.w)
  BY <1>1 DEF Progress, Fields, Life
<1> QED BY <1>2, FieldsSound, LastId

LEMMA PlayerMoveKeepsInv ==
  ASSUME Inv, NEW teleport \in BOOLEAN, PlayerMove(teleport)
  PROVE  Inv'
<1> DEFINE a == SetNextWalkActionTask(Start, FALSE)
           b == [a EXCEPT !.w.steps = 1]
           c == AddEventWalk(b, TRUE, teleport)
<1>1. TypeOK /\ autoWalks \in 0 .. 1 BY DEF Inv, TypeOK
<1>2. Sound(a) BY StartSound, SetNextSound
<1>3. Sound(b)
  <2>1. 1 \in 0 .. MaxPath BY WalkAssumption
  <2> HIDE DEF a
  <2> QED BY <1>1, <1>2, <2>1, StepsSound
<1>4. Finish(c) /\ walk.present /\ UNCHANGED <<taskList, autoWalks>> BY DEF PlayerMove
<1>5. Sound(c)
  <2> HIDE DEF b
  <2> QED BY <1>1, <1>3, <1>4, AddEventWalkSound
<1> HIDE DEF c
<1> QED BY <1>1, <1>4, <1>5, SoundKeepsInv

LEMMA PlayerActFarAwayKeepsInv ==
  ASSUME Inv, PlayerActFarAway
  PROVE  Inv'
<1> DEFINE a == SetNextWalkActionTask(Start, TRUE)
<1>1. TypeOK /\ autoWalks \in 0 .. 1 BY DEF Inv, TypeOK
<1>2. Sound(a) BY StartSound, SetNextSound
<1>3. Finish(a) /\ UNCHANGED taskList /\ autoWalks < 1 /\ autoWalks' = autoWalks + 1
  BY DEF PlayerActFarAway
<1>4. autoWalks' \in 0 .. 1 BY <1>1, <1>3
<1> HIDE DEF a
<1> QED BY <1>2, <1>3, <1>4, SoundKeepsInv

LEMMA PlayerAutoWalkKeepsInv ==
  ASSUME Inv, NEW n \in 1 .. MaxPath, NEW teleport \in BOOLEAN, PlayerAutoWalk(n, teleport)
  PROVE  Inv'
<1> DEFINE b == [Start EXCEPT !.w.steps = n]
           c == IF walk.present THEN AddEventWalk(b, n = 1, teleport) ELSE Start
<1>1. TypeOK /\ autoWalks \in 0 .. 1 BY DEF Inv, TypeOK
<1>2. Sound(b)
  <2>1. n \in 0 .. MaxPath BY WalkAssumption
  <2> QED BY <1>1, <2>1, StartSound, StepsSound
<1>3. Sound(c)
  <2> HIDE DEF b
  <2>1. (n = 1) \in BOOLEAN OBVIOUS
  <2>2. CASE walk.present
    <3>1. c = AddEventWalk(b, n = 1, teleport) BY <2>2
    <3> HIDE DEF c
    <3> QED BY <1>1, <1>2, <2>1, <2>2, <3>1, AddEventWalkSound
  <2>3. CASE ~walk.present BY <2>3, StartSound
  <2> QED BY <2>2, <2>3
<1>4. Finish(c) /\ UNCHANGED taskList /\ autoWalks > 0 /\ autoWalks' = autoWalks - 1
  BY DEF PlayerAutoWalk
<1>5. autoWalks' \in 0 .. 1 BY <1>1, <1>4
<1> HIDE DEF c
<1> QED BY <1>3, <1>4, <1>5, SoundKeepsInv

LEMMA PlayerStopAutoWalkKeepsInv ==
  ASSUME Inv, PlayerStopAutoWalk
  PROVE  Inv'
<1>1. walk \in Walk /\ Living BY DEF Inv, TypeOK
<1>2. walk' = [walk EXCEPT !.cancelNextWalk = TRUE] /\ UNCHANGED <<schedVars, online, autoWalks, kind>>
  BY DEF PlayerStopAutoWalk
<1>3. /\ walk' \in Walk /\ walk'.eventWalk = walk.eventWalk
      /\ walk'.walkTaskEvent = walk.walkTaskEvent /\ Life(walk') = Life(walk)
  BY <1>1, <1>2 DEF Walk, Life
<1> QED BY <1>1, <1>2, <1>3, WalkFieldsKeepInv DEF Life, Living

LEMMA TeleportKeepsInv ==
  ASSUME Inv, Teleport
  PROVE  Inv'
<1> DEFINE a == StopEventWalk(Start)
<1>1. TypeOK /\ autoWalks \in 0 .. 1 BY DEF Inv, TypeOK
<1>2. Sound(a) BY StartSound, StopEventWalkSound
<1>3. Finish(a) /\ UNCHANGED <<taskList, autoWalks>> BY DEF Teleport
<1> HIDE DEF a
<1> QED BY <1>1, <1>2, <1>3, SoundKeepsInv

LEMMA SetSpeedKeepsInv ==
  ASSUME Inv, SetSpeed
  PROVE  Inv'
<1>1. TypeOK /\ autoWalks \in 0 .. 1 BY DEF Inv, TypeOK
<1>2. UNCHANGED <<taskList, autoWalks>> BY DEF SetSpeed
<1>3. CASE walk.slow
  <2> DEFINE b == GoOn(Start)
  <2>1. Finish(b) /\ walk.present BY <1>3 DEF SetSpeed
  <2>2. Sound(b) BY <1>1, <2>1, StartSound, GoOnSound
  <2> HIDE DEF b
  <2> QED BY <1>1, <1>2, <2>1, <2>2, SoundKeepsInv
<1>4. CASE ~walk.slow
  <2> DEFINE s == StopEventWalk(Start)
             a == [s EXCEPT !.w.slow = TRUE]
             b == [a EXCEPT !.w.cancelNextWalk = TRUE]
  <2>1. Sound(s) BY StartSound, StopEventWalkSound
  <2>2. [s EXCEPT !.w.slow = TRUE, !.w.cancelNextWalk = TRUE] = b OBVIOUS
  <2>3. Sound(a)
    <3> HIDE DEF s
    <3>1. s \in Progress BY <2>1 DEF Sound, Settled
    <3>2. /\ a \in Progress /\ a.kind = s.kind /\ a.posts = s.posts
          /\ a.w.eventWalk = s.w.eventWalk /\ a.w.walkTaskEvent = s.w.walkTaskEvent
          /\ Life(a.w) = Life(s.w)
      BY <3>1 DEF Progress, Fields, Life
    <3> HIDE DEF a
    <3> QED BY <1>1, <2>1, <3>2, FieldsSound, LastId
  <2>4. Sound(b)
    <3> HIDE DEF a
    <3>1. a \in Progress BY <2>3 DEF Sound, Settled
    <3>2. /\ b \in Progress /\ b.kind = a.kind /\ b.posts = a.posts
          /\ b.w.eventWalk = a.w.eventWalk /\ b.w.walkTaskEvent = a.w.walkTaskEvent
          /\ Life(b.w) = Life(a.w)
      BY <3>1 DEF Progress, Fields, Life
    <3> HIDE DEF b
    <3> QED BY <1>1, <2>3, <3>2, FieldsSound, LastId
  <2>5. Finish(b) BY <1>4, <2>2 DEF SetSpeed
  <2> HIDE DEF b
  <2> QED BY <1>1, <1>2, <2>4, <2>5, SoundKeepsInv
<1> QED BY <1>3, <1>4

(* The last health is lost. *)
LEMMA LoseHealthKeepsInv == ASSUME Inv, LoseHealth PROVE Inv'
<1>1. walk \in Walk /\ Living BY DEF Inv, TypeOK
<1>2. /\ walk' = [walk EXCEPT !.healthy = FALSE, !.dying = TRUE] /\ walk.healthy
      /\ UNCHANGED <<schedVars, online, autoWalks, kind>>
  BY DEF LoseHealth
<1>3. /\ walk' \in Walk /\ walk'.eventWalk = walk.eventWalk
      /\ walk'.walkTaskEvent = walk.walkTaskEvent /\ walk'.present = walk.present
      /\ walk'.dying /\ walk.present
  BY <1>1, <1>2 DEF Walk, Living
<1> QED BY <1>2, <1>3, WalkFieldsKeepInv

(* Some health comes back. *)
LEMMA RegenerateKeepsInv == ASSUME Inv, Regenerate PROVE Inv'
<1>1. walk \in Walk BY DEF Inv, TypeOK
<1>2. /\ walk' = [walk EXCEPT !.healthy = TRUE] /\ walk.present
      /\ UNCHANGED <<schedVars, online, autoWalks, kind>>
  BY DEF Regenerate
<1>3. /\ walk' \in Walk /\ walk'.eventWalk = walk.eventWalk
      /\ walk'.walkTaskEvent = walk.walkTaskEvent /\ walk'.present = walk.present
      /\ walk'.dying = walk.dying /\ walk'.healthy
  BY <1>1, <1>2 DEF Walk
<1> QED BY <1>2, <1>3, WalkFieldsKeepInv

(* A death leaves no walk event: the player is away, or was teleported. *)
LEMMA ExecuteDeathKeepsInv ==
  ASSUME Inv, NEW pvpZone \in BOOLEAN, ExecuteDeath(pvpZone)
  PROVE  Inv'
<1> DEFINE s == IF walk.slow THEN GoOn(Start) ELSE Start
           u == StopEventWalk(s)
           v == [u EXCEPT !.w.healthy = TRUE]
           b == [v EXCEPT !.w.dying = FALSE]
           c == [s EXCEPT !.w = Absent]
<1>1. TypeOK /\ autoWalks \in 0 .. 1 /\ walk.present BY DEF Inv, TypeOK, Living, ExecuteDeath
<1>2. Finish(IF pvpZone THEN b ELSE c) /\ UNCHANGED <<taskList, autoWalks>> BY DEF ExecuteDeath
<1>3. Sound(s)
  <2>1. CASE walk.slow
    <3>1. s = GoOn(Start) BY <2>1
    <3> HIDE DEF s
    <3> QED BY <1>1, <3>1, StartSound, GoOnSound
  <2>2. CASE ~walk.slow BY <2>2, StartSound
  <2> QED BY <2>1, <2>2
<1> HIDE DEF s
<1>4. CASE pvpZone
  <2>1. Sound(u) /\ u.w = [s.w EXCEPT !.eventWalk = 0] BY <1>3, StopEventWalkSound
  <2>2. s.w \in Fields BY <1>3 DEF Sound, Settled, Progress
  <2>3. u.w.eventWalk = 0 /\ u.w.present /\ u \in Progress
    <3>1. u.w.present = walk.present BY <2>1 DEF Sound, Life
    <3> QED BY <1>1, <2>1, <2>2, <3>1 DEF Sound, Settled, Fields
  <2> HIDE DEF u
  <2>4. /\ v \in Progress /\ v.kind = u.kind /\ v.posts = u.posts /\ v.w.eventWalk = 0
        /\ v.w.walkTaskEvent = u.w.walkTaskEvent /\ v.w.present /\ v.w.healthy
    BY <2>3 DEF Progress, Fields
  <2> HIDE DEF v
  <2>5. /\ b \in Progress /\ b.kind = u.kind /\ b.posts = u.posts /\ b.w.eventWalk = 0
        /\ b.w.walkTaskEvent = u.w.walkTaskEvent /\ b.w.present /\ b.w.healthy
    BY <2>4 DEF Progress, Fields
  <2> HIDE DEF b
  <2>6. Settled(b)
    <3>1. PostsSound(b) BY <2>1, <2>5 DEF Sound, Settled, PostsSound
    <3>2. KindsSound(b)
      <4>1. Len(u.kind) \in Nat BY <2>3 DEF Progress
      <4> QED BY <2>1, <2>5, <4>1 DEF Sound, Settled, KindsSound
    <3>3. WalkSound(b) BY <2>5 DEF WalkSound
    <3> QED BY <2>5, <3>1, <3>2, <3>3 DEF Settled
  <2>7. Finish(b) BY <1>2, <1>4
  <2> QED BY <1>1, <1>2, <2>5, <2>6, <2>7, FinishKeepsInv
<1>5. CASE ~pvpZone
  <2>1. s \in Progress BY <1>3 DEF Sound, Settled
  <2>2. c.kind = s.kind /\ c.posts = s.posts /\ c.w = Absent BY <2>1 DEF Progress
  <2>3. c \in Progress
    <3>1. Absent \in Fields BY AbsentType, WalkAssumption DEF Walk, Fields
    <3> QED BY <2>1, <3>1 DEF Progress
  <2> HIDE DEF c
  <2>4. Settled(c)
    <3>1. PostsSound(c) BY <1>3, <2>2 DEF Sound, Settled, PostsSound
    <3>2. KindsSound(c)
      <4>1. Len(s.kind) \in Nat BY <2>1 DEF Progress
      <4> QED BY <1>3, <2>2, <4>1, AbsentType DEF Sound, Settled, KindsSound
    <3>3. WalkSound(c) BY <2>2, AbsentType DEF WalkSound
    <3> QED BY <2>3, <3>1, <3>2, <3>3 DEF Settled
  <2>5. Finish(c) BY <1>2, <1>5
  <2> QED BY <1>1, <1>2, <2>2, <2>4, <2>5, AbsentType, FinishKeepsInv
<1> QED BY <1>4, <1>5

(* An event of a script. *)
LEMMA ScriptEventKeepsInv == ASSUME Inv, ScriptEvent PROVE Inv'
<1> DEFINE a == AddEvent(Start, "script")
<1>1. TypeOK /\ autoWalks \in 0 .. 1 BY DEF Inv, TypeOK
<1>2. Sound(a) BY <1>1, StartSound, AddEventSound
<1>3. Finish(a) /\ UNCHANGED <<taskList, autoWalks>> BY DEF ScriptEvent
<1> HIDE DEF a
<1> QED BY <1>1, <1>2, <1>3, SoundKeepsInv

(* The event that runs is no longer the event to come, unless the player is  *)
(* dying.                                                                    *)
LEMMA RunEventKeepsInv ==
  ASSUME Inv, NEW teleport \in BOOLEAN, RunEvent(teleport)
  PROVE  Inv'
<1> DEFINE e == Head(taskList)
           a == IF kind[e] = "walk" THEN CheckCreatureWalk(Start, teleport) ELSE Start
<1>1. TypeOK /\ Issued /\ Kinds /\ Living /\ autoWalks \in 0 .. 1 BY DEF Inv, TypeOK
<1>2. taskList # <<>> /\ taskList' = Tail(taskList) /\ Finish(a) /\ UNCHANGED autoWalks
  BY DEF RunEvent
<1>3. e \in 1 .. lastEventId /\ lastEventId \in Nat
  <2>1. taskList \in Seq(Ids) BY <1>1, Types
  <2>2. 1 \in DOMAIN taskList /\ e = taskList[1] BY <1>2, <2>1
  <2> QED BY <1>1, <2>2, LastId DEF Issued
<1>4. Sound(a) /\ (a.w.eventWalk # e \/ a.w.dying)
  <2>1. Sound(Start) /\ Start.w = walk BY StartSound DEF Start
  <2>2. CASE kind[e] = "walk" /\ CanWalk(Start)
    <3>1. a = OnWalk(Start, teleport) BY <2>2 DEF CheckCreatureWalk
    <3> HIDE DEF a, e
    <3>2. walk.present BY <2>1, <2>2 DEF CanWalk
    <3>3. Sound(a) /\ (a.w.eventWalk = 0 \/ a.w.eventWalk > lastEventId)
      BY <1>1, <2>1, <3>1, <3>2, OnWalkSound
    <3> QED BY <1>3, <3>3
  <2>3. CASE kind[e] = "walk" /\ ~CanWalk(Start)
    <3>1. a = Start BY <2>3 DEF CheckCreatureWalk
    <3> HIDE DEF a, e
    <3>2. ~walk.present \/ ~walk.healthy BY <2>1, <2>3 DEF CanWalk
    <3>3. walk.eventWalk = 0 \/ walk.dying BY <1>1, <3>2 DEF Living
    <3> QED BY <1>3, <2>1, <3>1, <3>3
  <2>4. CASE kind[e] # "walk"
    <3>1. a = Start BY <2>4
    <3> HIDE DEF a, e
    <3> QED BY <1>1, <1>3, <2>1, <2>4, <3>1 DEF Kinds
  <2> QED BY <2>2, <2>3, <2>4
<1> HIDE DEF a
<1>5. /\ a.w.present <=> (a.w.healthy \/ a.w.dying)
      /\ a.w.eventWalk # 0 => a.w.present
      /\ walk.dying => a.w.dying
  BY <1>1, <1>4 DEF Sound, Settled, WalkSound, Life, Living
<1>6. Settled(a) BY <1>4 DEF Sound
<1> QED BY <1>1, <1>2, <1>4, <1>5, <1>6, FinishKeepsInv

LEMMA StepDurationKeepsInv ==
  ASSUME Inv, StepDurationPasses
  PROVE  Inv'
<1>1. walk \in Walk /\ Living BY DEF Inv, TypeOK
<1>2. walk' = [walk EXCEPT !.resting = FALSE] /\ UNCHANGED <<schedVars, online, autoWalks, kind>>
  BY DEF StepDurationPasses
<1>3. /\ walk' \in Walk /\ walk'.eventWalk = walk.eventWalk
      /\ walk'.walkTaskEvent = walk.walkTaskEvent /\ Life(walk') = Life(walk)
  BY <1>1, <1>2 DEF Walk, Life
<1> QED BY <1>1, <1>2, <1>3, WalkFieldsKeepInv DEF Life, Living

-----------------------------------------------------------------------------
LEMMA InitInv == Init => Inv
<1> SUFFICES ASSUME Init PROVE Inv OBVIOUS
<1>1. /\ schedState = "RUNNING" /\ ioStopped = FALSE /\ dispatcherOpen = TRUE /\ lastEventId = 0
      /\ handlers = <<>> /\ timers = <<>> /\ taskList = <<>> /\ autoWalks = 0 /\ kind = <<>>
      /\ inHand = 0 /\ online \in BOOLEAN
      /\ walk = IF online THEN [Absent EXCEPT !.present = TRUE, !.healthy = TRUE] ELSE Absent
  BY DEF Init, SchedInit
<1>2. DOMAIN handlers = {} /\ DOMAIN taskList = {} /\ DOMAIN timers = {} BY <1>1
<1>3. /\ walk \in Walk /\ walk.eventWalk = 0 /\ walk.walkTaskEvent = 0
      /\ walk.present = online /\ walk.healthy = online /\ walk.dying = FALSE
  <2>1. CASE online BY <1>1, <2>1, AbsentType DEF Walk
  <2>2. CASE ~online
    <3>1. walk = Absent BY <1>1, <2>2
    <3> QED BY <1>1, <2>2, <3>1, AbsentType DEF Walk
  <2> QED BY <2>1, <2>2
<1>4. TypeOK
  <2>1. walk \in Walk BY <1>3
  <2>2. \E D \in SUBSET Ids : timers \in [D -> {"armed", "completing"}]
    <3> DEFINE T == {"armed", "completing"}
    <3>1. timers \in Seq(T) /\ Len(timers) = 0 BY <1>1
    <3>2. timers \in [1 .. 0 -> T] BY <3>1
    <3>3. 1 .. 0 \in SUBSET Ids BY DEF Ids
    <3> HIDE DEF T
    <3> WITNESS 1 .. 0 \in SUBSET Ids
    <3> QED BY <3>2 DEF T
  <2>3. SchedTypeOK
    <3>1. handlers \in Seq([op : Op, id : 0 .. MaxEvents]) /\ taskList \in Seq(Ids) BY <1>1
    <3>2. lastEventId \in 0 .. MaxEvents /\ inHand \in 0 .. MaxEvents BY <1>1, WalkAssumption
    <3>3. /\ schedState \in {"RUNNING", "CLOSING", "TERMINATED"}
          /\ ioStopped \in BOOLEAN /\ dispatcherOpen \in BOOLEAN
      BY <1>1
    <3> QED BY <2>2, <3>1, <3>2, <3>3 DEF SchedTypeOK
  <2> QED BY <1>1, <2>1, <2>3 DEF TypeOK
<1>5. Issued BY <1>1, <1>2, <1>3 DEF Issued
<1>6. OneOwner /\ HandAlone BY <1>1, <1>2 DEF OneOwner, HandAlone
<1>7. Completions BY <1>2 DEF Completions
<1>8. Running BY <1>1, <1>2 DEF Running
<1>9. Kinds /\ Living /\ Alive BY <1>3 DEF Kinds, Living, Alive
<1> QED BY <1>4, <1>5, <1>6, <1>7, <1>8, <1>9 DEF Inv

LEMMA NextKeepsInv == Inv /\ [Next]_vars => Inv'
<1> SUFFICES ASSUME Inv, [Next]_vars PROVE Inv' OBVIOUS
<1>1. CASE SchedulerThread /\ UNCHANGED walkVars
  BY <1>1, InsertKeepsInv, CancelTimerKeepsInv, FireKeepsInv, HandOverKeepsInv, AbortKeepsInv,
     CancelAllKeepsInv
     DEF SchedulerThread
<1>2. CASE \E id \in Ids : Expire(id) /\ UNCHANGED walkVars BY <1>2, ExpireKeepsInv
<1>3. ASSUME NEW teleport \in BOOLEAN, PlayerMove(teleport) PROVE Inv'
  BY <1>3, PlayerMoveKeepsInv
<1>4. ASSUME NEW teleport \in BOOLEAN, NEW n \in 1 .. MaxPath, PlayerAutoWalk(n, teleport) PROVE Inv'
  BY <1>4, PlayerAutoWalkKeepsInv
<1>5. ASSUME NEW teleport \in BOOLEAN, RunEvent(teleport) PROVE Inv'
  BY <1>5, RunEventKeepsInv
<1>6. CASE PlayerActFarAway BY <1>6, PlayerActFarAwayKeepsInv
<1>7. CASE PlayerStopAutoWalk BY <1>7, PlayerStopAutoWalkKeepsInv
<1>8. CASE Teleport BY <1>8, TeleportKeepsInv
<1>9. CASE SetSpeed BY <1>9, SetSpeedKeepsInv
<1>10. CASE StepDurationPasses BY <1>10, StepDurationKeepsInv
<1>11. CASE StopThreads BY <1>11, StopThreadsKeepsInv
<1>12. CASE Shutdown BY <1>12, ShutdownKeepsInv
<1>13. ASSUME NEW pvpZone \in BOOLEAN, ExecuteDeath(pvpZone) PROVE Inv'
  BY <1>13, ExecuteDeathKeepsInv
<1>14. CASE LoseHealth BY <1>14, LoseHealthKeepsInv
<1>15. CASE Regenerate BY <1>15, RegenerateKeepsInv
<1>16. CASE ScriptEvent BY <1>16, ScriptEventKeepsInv
<1>17. CASE CloseDispatcher BY <1>17, CloseDispatcherKeepsInv
<1>18. CASE UNCHANGED vars
  <2>1. UNCHANGED <<schedVars, online, autoWalks, kind>> /\ walk' = walk
    BY <1>18 DEF vars, walkVars
  <2>2. walk \in Walk /\ Living BY DEF Inv, TypeOK
  <2> QED BY <2>1, <2>2, WalkFieldsKeepInv DEF Living
<1> QED BY <1>1, <1>2, <1>3, <1>4, <1>5, <1>6, <1>7, <1>8, <1>9, <1>10, <1>11, <1>12, <1>13, <1>14,
           <1>15, <1>16, <1>17, <1>18 DEF Next

(* The invariant holds in every reachable state of the scheduler and its     *)
(* walking player, whatever the bounds on events and paths.                  *)
THEOREM Invariant == Spec => []Inv
<1>1. Init => Inv BY InitInv
<1>2. Inv /\ [Next]_vars => Inv' BY NextKeepsInv
<1> QED BY <1>1, <1>2, PTL DEF Spec

(* The state of the scheduler and of the player always has its types: no id  *)
(* is used that addEvent did not give out, and a path never has less than no *)
(* steps.                                                                    *)
THEOREM TypeCorrect == Spec => []TypeOK
<1>1. Inv => TypeOK BY DEF Inv
<1> QED BY <1>1, Invariant, PTL

(* A set whose elements are one and the same. *)
LEMMA AtMostOne ==
  ASSUME NEW S, \A x, y \in S : x = y
  PROVE  Cardinality(S) \in {0, 1} /\ (S = {} => Cardinality(S) = 0)
<1>1. Cardinality({}) = 0 BY FS_EmptySet
<1>2. CASE S = {} BY <1>1, <1>2
<1>3. CASE S # {}
  <2>1. PICK x \in S : TRUE BY <1>3
  <2>2. S = {x} BY <2>1
  <2>3. Cardinality({x}) = 1 BY FS_Singleton
  <2> QED BY <1>3, <2>2, <2>3
<1> QED BY <1>2, <1>3

(* What OneOwner and Completions say of one task. *)
LEMMA InvOnePlace == Inv => EventInOnePlace
<1> SUFFICES ASSUME Inv, NEW id \in Ids
             PROVE  LET completions == Posted("fire", id) \cup Posted("abort", id)
                    IN  /\ Cardinality(Posted("insert", id)) + Cardinality(completions)
                             + Cardinality(InHand(id)) + Cardinality(Queued(id)) <= 1
                        /\ id \in DOMAIN timers =>
                              Posted("insert", id) = {} /\ InHand(id) = {} /\ Queued(id) = {}
                        /\ ~ioStopped => ((id \in DOMAIN timers /\ timers[id] = "completing")
                                             <=> completions # {})
  BY DEF EventInOnePlace
<1> DEFINE I == Posted("insert", id)
           C == Posted("fire", id) \cup Posted("abort", id)
           Q == Queued(id)
           H == InHand(id)
<1>1. TypeOK /\ OneOwner /\ HandAlone /\ Completions BY DEF Inv
<1>2. \A i \in I : i \in DOMAIN handlers /\ handlers[i].op = "insert" /\ handlers[i].id = id
  BY DEF Posted, Handler
<1>3. \A i \in C : i \in DOMAIN handlers /\ handlers[i].op \in {"fire", "abort"} /\ handlers[i].id = id
  BY DEF Posted, Handler
<1>4. \A i \in Q : i \in DOMAIN taskList /\ taskList[i] = id BY DEF Queued
<1>5. \A i \in DOMAIN handlers :
        handlers[i].op \in {"fire", "abort"} /\ handlers[i].id = id => i \in C
  <2> DEFINE S == [op : Op, id : 0 .. MaxEvents]
  <2>1. handlers \in Seq(S) BY <1>1, Types
  <2>2. \A x \in S : x = Handler(x.op, x.id) BY DEF Handler
  <2> HIDE DEF S
  <2>3. \A i \in DOMAIN handlers : handlers[i] \in S BY <2>1
  <2>4. \A i \in DOMAIN handlers : handlers[i] = Handler(handlers[i].op, handlers[i].id)
    BY <2>2, <2>3
  <2> QED BY <2>4 DEF Posted
<1>6. /\ H = {} \/ (H = {id} /\ inHand = id /\ inHand # 0)
  BY DEF InHand, Ids
<1> HIDE DEF I, C, Q, H
<1>7. Cardinality(H) \in {0, 1} /\ (H = {} => Cardinality(H) = 0)
  <2>1. \A i, j \in H : i = j BY <1>6
  <2> QED BY <2>1, AtMostOne
<1>8. H = {} \/ (I = {} /\ C = {} /\ Q = {} /\ id \notin DOMAIN timers)
  BY <1>1, <1>2, <1>3, <1>4, <1>6 DEF HandAlone, Owner
<1>9. Cardinality(I) \in {0, 1} /\ (I = {} => Cardinality(I) = 0)
  <2>1. \A i, j \in I : i = j BY <1>1, <1>2 DEF OneOwner, Owner
  <2> QED BY <2>1, AtMostOne
<1>10. Cardinality(C) \in {0, 1} /\ (C = {} => Cardinality(C) = 0)
  <2>1. \A i, j \in C : i = j BY <1>1, <1>3 DEF OneOwner, Owner
  <2> QED BY <2>1, AtMostOne
<1>11. Cardinality(Q) \in {0, 1} /\ (Q = {} => Cardinality(Q) = 0)
  <2>1. \A i, j \in Q : i = j BY <1>1, <1>4 DEF OneOwner
  <2> QED BY <2>1, AtMostOne
<1>12. I = {} \/ C = {}
  <2> SUFFICES ASSUME NEW i \in I, NEW j \in C PROVE FALSE OBVIOUS
  <2>1. i = j BY <1>1, <1>2, <1>3 DEF OneOwner, Owner
  <2> QED BY <1>2, <1>3, <2>1
<1>13. I = {} \/ Q = {} BY <1>1, <1>2, <1>4 DEF OneOwner, Owner
<1>14. C = {} \/ Q = {} BY <1>1, <1>3, <1>4 DEF OneOwner, Owner
<1>15. Cardinality(I) + Cardinality(C) + Cardinality(H) + Cardinality(Q) <= 1
  BY <1>7, <1>8, <1>9, <1>10, <1>11, <1>12, <1>13, <1>14
<1>16. id \in DOMAIN timers => I = {} /\ H = {} /\ Q = {}
  BY <1>1, <1>2, <1>4, <1>8 DEF OneOwner
<1>17. ~ioStopped => ((id \in DOMAIN timers /\ timers[id] = "completing") <=> C # {})
  BY <1>1, <1>3, <1>5 DEF Completions
<1> QED BY <1>15, <1>16, <1>17 DEF I, C, Q, H

(* However cancellations and expiries interleave, the task of an event is    *)
(* owned by one place: it is never deleted and run, nor run twice.           *)
THEOREM TasksHaveOneOwner == Spec => []EventInOnePlace
BY InvOnePlace, Invariant, PTL

(* What Alive says in the words of the property. *)
LEMMA InvWalkAlive == Inv => EventWalkAlive
<1> SUFFICES ASSUME Inv, schedState = "RUNNING", walk.eventWalk # 0
             PROVE  LET id == walk.eventWalk
                    IN  /\ Posted("cancel", id) \cup Posted("abort", id) = {}
                        /\ \/ walk.dying
                           \/ Posted("insert", id) # {} \/ id \in DOMAIN timers
                           \/ InHand(id) # {} \/ Queued(id) # {}
  BY DEF EventWalkAlive
<1> DEFINE id == walk.eventWalk
<1>1. /\ \A i \in DOMAIN handlers : handlers[i].op \in {"cancel", "abort"} => handlers[i].id # id
      /\ \/ walk.dying \/ inHand = id
         \/ \E i \in DOMAIN handlers : handlers[i] = Handler("insert", id)
         \/ id \in DOMAIN timers
         \/ \E j \in DOMAIN taskList : taskList[j] = id
  BY DEF Inv, Alive
<1> HIDE DEF id
<1>2. /\ Handler("cancel", id).op = "cancel" /\ Handler("cancel", id).id = id
      /\ Handler("abort", id).op = "abort" /\ Handler("abort", id).id = id
  BY DEF Handler
<1>3. Posted("cancel", id) \cup Posted("abort", id) = {} BY <1>1, <1>2 DEF Posted
<1>4. \/ walk.dying
      \/ Posted("insert", id) # {} \/ id \in DOMAIN timers
      \/ InHand(id) # {} \/ Queued(id) # {}
  BY <1>1 DEF Posted, InHand, Queued
<1> QED BY <1>3, <1>4 DEF id

(* As long as the server runs, a creature that believes a walk event to be   *)
(* pending has one that nobody stopped and that is still to be run: it       *)
(* cannot be frozen on its tile.  A player that is about to die may have one *)
(* that has run already (checkCreatureWalk does nothing without health).     *)
THEOREM WalkEventAlive == Spec => []EventWalkAlive
BY InvWalkAlive, Invariant, PTL

(* Only the completion of an expired timer gives a task to the dispatcher,   *)
(* and it looks at the thread state before.  So once Scheduler::shutdown was *)
(* called no further task is taken in hand, and the one in hand reaches the  *)
(* dispatcher only when the server was never started: at the end of a        *)
(* running one the dispatcher is closed first.                               *)
THEOREM NothingRunsAfterShutdown == Spec => NothingAfterShutdown
<1> DEFINE Late == /\ inHand' \in {0, inHand}
                   /\ Len(taskList') > Len(taskList) =>
                        ~online /\ taskList' = Append(taskList, inHand)
<1>1. Inv /\ [Next]_vars => [schedState = "TERMINATED" => Late]_vars
  <2> SUFFICES ASSUME Inv, Next, schedState = "TERMINATED" PROVE Late
    BY DEF vars
  <2>1. taskList \in Seq(Ids) /\ Len(taskList) \in Nat BY Types DEF Inv
  <2>2. ASSUME UNCHANGED taskList, inHand' \in {0, inHand} PROVE Late BY <2>1, <2>2
  <2>3. CASE Fire
    <3>1. taskList' = taskList /\ inHand' = 0 BY <2>3 DEF Fire, ToDispatcher
    <3> QED BY <2>2, <3>1
  <2>4. CASE HandOver
    <3>1. CASE dispatcherOpen
      <4>1. ~online BY <3>1 DEF Inv, Running
      <4> QED BY <2>4, <3>1, <4>1 DEF HandOver
    <3>2. CASE ~dispatcherOpen
      <4>1. taskList' = taskList /\ inHand' = 0 BY <2>4, <3>2 DEF HandOver
      <4> QED BY <2>2, <4>1
    <3> QED BY <3>1, <3>2
  <2>5. CASE \E teleport \in BOOLEAN : RunEvent(teleport)
    <3>1. taskList # <<>> /\ taskList' = Tail(taskList) /\ inHand' = inHand
      BY <2>5 DEF RunEvent, Finish
    <3> DEFINE l == taskList
    <3>2. l \in Seq(Ids) /\ l # <<>> BY <2>1, <3>1
    <3>3. ~(Len(Tail(l)) > Len(l))
      <4> HIDE DEF l
      <4> QED BY <3>2
    <3> QED BY <3>1, <3>3
  <2>6. CASE SchedulerThread /\ UNCHANGED walkVars
    BY <2>2, <2>3, <2>4, <2>6 DEF SchedulerThread, Insert, CancelTimer, Abort, CancelAll
  <2>7. CASE \E id \in Ids : Expire(id) /\ UNCHANGED walkVars BY <2>2, <2>7 DEF Expire
  <2>8. ASSUME NEW teleport \in BOOLEAN, PlayerMove(teleport)
        PROVE  Late
    BY <2>2, <2>8 DEF PlayerMove, Finish
  <2>9. ASSUME NEW teleport \in BOOLEAN, NEW n \in 1 .. MaxPath, PlayerAutoWalk(n, teleport)
        PROVE  Late
    BY <2>2, <2>9 DEF PlayerAutoWalk, Finish
  <2>10. CASE PlayerActFarAway \/ Teleport \/ SetSpeed \/ ScriptEvent
    BY <2>2, <2>10 DEF PlayerActFarAway, Teleport, SetSpeed, ScriptEvent, Finish
  <2>11. CASE PlayerStopAutoWalk \/ LoseHealth \/ Regenerate \/ StepDurationPasses
    BY <2>2, <2>11 DEF PlayerStopAutoWalk, LoseHealth, Regenerate, StepDurationPasses, schedVars
  <2>12. CASE StopThreads \/ Shutdown \/ CloseDispatcher
    BY <2>2, <2>12 DEF StopThreads, Shutdown, CloseDispatcher
  <2>13. ASSUME NEW pvpZone \in BOOLEAN, ExecuteDeath(pvpZone) PROVE Late
    BY <2>2, <2>13 DEF ExecuteDeath, Finish
  <2> QED BY <2>5, <2>6, <2>7, <2>8, <2>9, <2>10, <2>11, <2>12, <2>13 DEF Next
<1> QED BY <1>1, Invariant, PTL DEF Spec, NothingAfterShutdown
=============================================================================
