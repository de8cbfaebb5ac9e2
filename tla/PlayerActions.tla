---------------------------- MODULE PlayerActions ----------------------------
(* What a player does to a thing that is too far away, or too soon after     *)
(* something else, is done later: the command waits for the end of a walk    *)
(* (walkTask), then for its event (walkTaskEvent), or for the end of the     *)
(* exhaustion (actionTaskEvent), and is then given to its handler again,     *)
(* which looks for the thing anew.  The swings of a fight use the event of   *)
(* the delayed actions, too.                                                 *)
EXTENDS Naturals, Sequences

CONSTANTS Last,      \* the tiles are 0 .. Last, in a row
          Id,        \* bounds the commands that wait at a time
          MaxQueue,  \* bounds the tasks that wait in the dispatcher
          None

VARIABLE s

vars == <<s>>

Tile == 0 .. Last
(* The thing of the commands: a creature on a tile, or an item, which may    *)
(* also be in a container whose window is open, or in one without a window;  *)
(* a command may name a window that does not exist.                          *)
Open == Last + 1
Shut == Last + 2
Nowhere == Last + 3
Place == Tile \cup {Open, Shut}
Named == Tile \cup {Open, Nowhere}

What == {"use", "useEx", "useWith", "move", "hang", "push", "rotate", "wrap", "browse"}
Command ==
  {c \in [id : Id, from : Named, to : Tile, what : What] :
     /\ IF c.what \in {"useEx", "move", "hang", "push"} THEN c.to # c.from ELSE c.to = 0
     /\ c.what \in {"push", "browse"} => c.from \in Tile}
Attack == [id |-> None, what |-> "attack", from |-> 0, to |-> 0]
WalkTo(t) == [id |-> None, what |-> "walk", from |-> 0, to |-> t]
Task == Command \cup {Attack} \cup {WalkTo(t) : t \in Tile}

(* Assumed where this module is instantiated. *)
PlayerActionsAssumption ==
  /\ Last \in Nat \ {0} /\ MaxQueue \in Nat \ {0}
  /\ None \notin Id \cup Task

-----------------------------------------------------------------------------
Abs(m, n) == IF m < n THEN n - m ELSE m - n
InReach(t, where) == where \in Tile => Abs(t.at, where) <= 1

(* The thing is looked for where the command says, at every attempt.         *)
GetThing(t, c) == t.thing = c.from

(* An event is stopped by its id; an id that is overwritten is forgotten.    *)
Forget(t, event) == [t EXCEPT !.forgotten = @ \cup ({t[event]} \ {None}), ![event] = None]
StopEvent(t, event) == [t EXCEPT ![event] = None]

(* A mutant: the event of the command that is replaced is not stopped.       *)
SetNextWalkActionTaskForgets(t, c) ==
  [Forget(t, "walkTaskEvent") EXCEPT !.walkTask = c, !.left = FALSE]

SetNextWalkActionTask(t, c) ==
  [StopEvent(t, "walkTaskEvent") EXCEPT !.walkTask = c, !.left = FALSE]

(* setNextActionTask; None is the null pointer.                              *)
SetNextActionTask(t, c) == [StopEvent(t, "actionTaskEvent") EXCEPT !.actionTaskEvent = c]
ClearNextAction(t) == SetNextActionTask(t, None)

(* startAutoWalk of a player that can move, or is not allowed to.  history:  *)
(* left says that walkTask has lost its walk.                                *)
StartAutoWalk(t, path) ==
  {[t EXCEPT !.path = path, !.walking = TRUE, !.cancelNextWalk = FALSE],
   [t EXCEPT !.left = t.walkTask # None]}

(* A path to a tile next to where, as getPathTo finds it.                    *)
PathTo(t, where) ==
  [i \in 1 .. IF Abs(t.at, where) <= 1 THEN 0 ELSE Abs(t.at, where) - 1 |->
     IF t.at < where THEN "east" ELSE "west"]

(* There is a way and the command waits for the walk, or it is given up.     *)
Approach(t, c, where) ==
  {t, [SetNextWalkActionTask(t, c) EXCEPT !.queue = Append(@, WalkTo(where))]}

-----------------------------------------------------------------------------
(* The handlers, as the states they may leave.  What stops a command for     *)
(* good (a thing that is gone, no permission, no room, a wall) leaves the    *)
(* state, and stands for a cancel message.                                   *)

(* The item is picked up, and the command names the place internalGetPosition *)
(* tells: a window of the container it is in, the number 15 if there is none. *)
PickUp(t, c) ==
  {<<[t EXCEPT !.thing = Open], [c EXCEPT !.from = Open]>>,
   <<[t EXCEPT !.thing = Shut], [c EXCEPT !.from = Nowhere]>>}

(* An action with an item: exhausting whether or not it succeeds.            *)
UseItem(t) == {[t EXCEPT !.busy = TRUE]}
UseItemEx(t) == {[t EXCEPT !.busy = TRUE]}

(* Tests in the order of the code: the thing, the distance, the exhaustion.  *)
PlayerUseItem(t, c) ==
  IF ~GetThing(t, c) THEN {t}
  ELSE IF ~InReach(t, c.from) THEN Approach(t, c, c.from)
  ELSE IF t.busy THEN {SetNextActionTask(t, c)}
  ELSE UseItem(ClearNextAction(t))

(* The thing may have to be taken along to what it is used with, at to.      *)
UseWith(t, c, to) ==
  IF ~GetThing(t, c) THEN {t}
  ELSE IF ~InReach(t, c.from) THEN Approach(t, c, c.from)
  ELSE IF ~InReach(t, to)
    THEN IF c.from \in Tile /\ Abs(c.from, to) > 1
           THEN {t} \cup UNION {Approach(x[1], x[2], to) : x \in PickUp(t, c)}
           ELSE Approach(t, c, to)
  ELSE IF t.busy THEN {SetNextActionTask(t, c)}
  ELSE UseItemEx(ClearNextAction(t))

PlayerUseItemEx(t, c) == UseWith(t, c, c.to)
(* A creature is wherever it has gone to, or out of sight.                   *)
PlayerUseWithCreature(t, c) == {t} \cup UNION {UseWith(t, c, to) : to \in Tile}

(* Here the exhaustion comes first, and ends what was to be done before.     *)
PlayerMoveItem(t, c) ==
  IF t.busy THEN {SetNextActionTask(t, c)}
  ELSE LET u == ClearNextAction(t)
       IN  IF ~GetThing(u, c) THEN {u}
           ELSE IF ~InReach(u, c.from) THEN Approach(u, c, c.from)
           ELSE IF c.what = "hang" /\ ~InReach(u, c.to)
             THEN IF c.from \in Tile /\ Abs(c.from, c.to) > 1
                    THEN {u} \cup UNION {Approach(x[1], x[2], c.to) : x \in PickUp(u, c)}
                    ELSE Approach(u, c, c.to)
           ELSE {u, [u EXCEPT !.thing = c.to]}

(* The creature is found by its number; the distance to it is told from      *)
(* where it was when the command was given.                                  *)
PlayerMoveCreature(t, c) ==
  IF t.busy THEN {SetNextActionTask(t, c)}
  ELSE LET u == ClearNextAction(t)
       IN  IF ~InReach(u, c.from) THEN Approach(u, c, c.from)
           ELSE IF u.thing \in Tile /\ Abs(u.thing, c.to) <= 1
             THEN {u, [u EXCEPT !.thing = c.to]}
             ELSE {u}

(* A creature within reach is pushed after a delay.                          *)
PlayerMoveThing(t, c) ==
  IF c.what # "push" THEN PlayerMoveItem(t, c)
  ELSE IF InReach(t, c.from) THEN {SetNextActionTask(t, c)}
  ELSE PlayerMoveCreature(t, c)

(* Neither exhausted nor exhausting.                                         *)
PlayerRotateItem(t, c) ==
  IF GetThing(t, c) /\ ~InReach(t, c.from) THEN Approach(t, c, c.from) ELSE {t}
PlayerWrapItem(t, c) ==
  IF GetThing(t, c) /\ ~InReach(t, c.from) THEN Approach(t, c, c.from) ELSE {t}
PlayerBrowseField(t, c) ==
  IF ~InReach(t, c.from) THEN Approach(t, c, c.from) ELSE {t}

(* A swing, unless the last is too recent, there is nobody to attack or the  *)
(* sight is blocked.                                                         *)
CheckCreatureAttack(t) == {t, SetNextActionTask(t, Attack)}

Handle(t, c) ==
  CASE c.what = "use" -> PlayerUseItem(t, c)
    [] c.what = "useEx" -> PlayerUseItemEx(t, c)
    [] c.what = "useWith" -> PlayerUseWithCreature(t, c)
    [] c.what \in {"move", "hang"} -> PlayerMoveItem(t, c)
    [] c.what = "push" -> PlayerMoveCreature(t, c)
    [] c.what = "rotate" -> PlayerRotateItem(t, c)
    [] c.what = "wrap" -> PlayerWrapItem(t, c)
    [] c.what = "browse" -> PlayerBrowseField(t, c)
    [] c.what = "attack" -> CheckCreatureAttack(t)
    [] c.what = "walk" -> StartAutoWalk(t, PathTo(t, c.to))

-----------------------------------------------------------------------------
Init == s = [at |-> 0, thing |-> Last,
             busy |-> FALSE,
             path |-> <<>>, walking |-> FALSE, cancelNextWalk |-> FALSE,
             walkTask |-> None, walkTaskEvent |-> None, actionTaskEvent |-> None,
             forgotten |-> {}, queue |-> <<>>, left |-> FALSE]

(* Whatever a handler does it does in the task at the head of the queue.     *)
Becomes(t) == Len(t.queue) <= MaxQueue /\ s' = t

Events == {s.walkTaskEvent, s.actionTaskEvent} \cup s.forgotten
Waiting == (Events \cup {s.walkTask} \cup {s.queue[i] : i \in DOMAIN s.queue}) \ {None}

(* A packet: a command that is not one of those that still wait, about the   *)
(* thing where the client sees it.                                           *)
GiveCommand(c) ==
  /\ c \in Command /\ c.id \notin {w.id : w \in Waiting}
  /\ \E t \in IF c.what \in {"move", "hang", "push"} THEN PlayerMoveThing(s, c) ELSE Handle(s, c) :
       Becomes(t)

(* An arrow key.                                                             *)
PlayerMove(dir) ==
  \E t \in {s} \cup StartAutoWalk(SetNextWalkActionTask(s, None), <<dir>>) : Becomes(t)

(* A click on the map: the command that waits for another walk is kept.      *)
PlayerAutoWalk(to) == s.at # to /\ \E t \in StartAutoWalk(s, PathTo(s, to)) : Becomes(t)

PlayerStopAutoWalk == s.walking /\ Becomes([s EXCEPT !.cancelNextWalk = TRUE])

PlayerSetAttackedCreature ==
  Becomes([s EXCEPT !.queue = Append(@, Attack)])

(* Creature::onThink, once in a second.                                      *)
OnAttacking == \E t \in CheckCreatureAttack(s) : Becomes(t)

(* A timer expires, and its task is taken by the dispatcher.                 *)
Expire(event) ==
  /\ s[event] # None
  /\ Becomes([s EXCEPT ![event] = None, !.queue = Append(@, s[event])])

RunTask ==
  /\ s.queue # <<>>
  /\ \E t \in Handle([s EXCEPT !.queue = Tail(@)], Head(s.queue)) : Becomes(t)

(* One step of the path, which somebody may block.                           *)
TakeStep(t) ==
  LET there == IF Head(t.path) = "east" THEN t.at + 1 ELSE t.at - 1
  IN  {[ClearNextAction(t) EXCEPT !.path = Tail(@), !.busy = TRUE, !.at = p] :
         p \in {t.at} \cup (IF Head(t.path) = "west" /\ t.at = 0 THEN {} ELSE {there} \cap Tile)}

(* A mutant: the command that is scheduled also keeps waiting.               *)
OnWalkCompleteKeeps(t) ==
  IF t.walkTask = None THEN t
  ELSE [Forget(t, "walkTaskEvent") EXCEPT !.walkTaskEvent = t.walkTask]

OnWalkComplete(t) ==
  IF t.walkTask = None THEN t
  ELSE [Forget(t, "walkTaskEvent") EXCEPT !.walkTaskEvent = t.walkTask, !.walkTask = None]

OnWalkAborted(t) == SetNextWalkActionTask(t, None)

(* The event of the walk: a step or its end, then what stopWalk asked for.   *)
OnWalk ==
  /\ s.walking
  /\ \E t \in IF s.path # <<>> THEN TakeStep(s)
              ELSE {OnWalkComplete([s EXCEPT !.walking = FALSE])} :
       Becomes(IF t.cancelNextWalk
                 THEN [OnWalkAborted(t) EXCEPT !.path = <<>>, !.cancelNextWalk = FALSE]
                 ELSE t)

NextActionPasses == s.busy /\ Becomes([s EXCEPT !.busy = FALSE])

(* Others move the thing, or the player.                                     *)
Others ==
  \/ \E p \in Place \ {s.thing} : Becomes([s EXCEPT !.thing = p])
  \/ \E p \in Tile \ {s.at} :
       Becomes([s EXCEPT !.at = p, !.walking = FALSE, !.left = s.walkTask # None])

Next ==
  \/ \E i \in Id, to \in Tile, what \in What :
       GiveCommand([id |-> i, from |-> s.thing, to |-> to, what |-> what])
  \/ \E dir \in {"east", "west"} : PlayerMove(dir)
  \/ \E to \in Tile : PlayerAutoWalk(to)
  \/ PlayerStopAutoWalk \/ PlayerSetAttackedCreature \/ OnAttacking
  \/ \E event \in {"walkTaskEvent", "actionTaskEvent"} : Expire(event)
  \/ RunTask \/ OnWalk \/ NextActionPasses \/ Others

Spec == Init /\ [][Next]_vars

-----------------------------------------------------------------------------
TypeOK ==
  /\ s.at \in Tile /\ s.thing \in Place
  /\ {s.busy, s.walking, s.cancelNextWalk, s.left} \subseteq BOOLEAN
  /\ Len(s.path) <= Last /\ Len(s.queue) <= MaxQueue
  /\ s.walkTask \in Command \cup {None}
  /\ Waiting \subseteq Task

(* A command waits in one place: as walkTask, as an event, or in the queue   *)
(* of the dispatcher.  Otherwise what was asked for once would be done twice. *)
(* And whatever has not gone to the dispatcher can still be stopped: the     *)
(* player keeps the id of every event.                                       *)
CommandsWaitOnce ==
  /\ s.forgotten = {}
  /\ LET waits == <<s.walkTask, s.walkTaskEvent, s.actionTaskEvent>> \o s.queue
     IN  \A j, k \in DOMAIN waits :
           j # k /\ {waits[j], waits[k]} \subseteq Command => waits[j].id # waits[k].id

(* A command that waits for a walk has one that will end, unless the player  *)
(* was teleported or nailed down: then it stays, keeps the player from       *)
(* following anybody, and is done at the end of some later walk.             *)
CommandsHaveAWalk ==
  s.walkTask # None => \/ s.walking \/ s.left
                       \/ \E i \in DOMAIN s.queue : s.queue[i].what = "walk"

(* Not so in the code: a command that waits is given up only when the player *)
(* gives another one or walks.  A swing takes the event of the command.      *)
OnlyThePlayerForgets ==
  [][OnAttacking => s'.actionTaskEvent = s.actionTaskEvent \/ s.actionTaskEvent = None]_vars
=============================================================================
