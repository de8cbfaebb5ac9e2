---------------------------- MODULE CreatureWalk ----------------------------
(***************************************************************************)
(* The scheduler (scheduler.cpp) and one walking player (creature.cpp,     *)
(* player.cpp, game.cpp) as its client.                                    *)
(*                                                                         *)
(* Delayed tasks: addEvent and stopEvent, called on other threads, only    *)
(* post a handler to the io_context; the scheduler thread runs the         *)
(* handlers in order.  A timer that expires, or is cancelled, queues its   *)
(* completion handler behind them, so cancelling a timer whose completion  *)
(* is already queued comes too late.  Delays are abstracted to "some time  *)
(* later".  The completion of a timer is two steps of the scheduler        *)
(* thread: it looks at the thread state, then it calls addTask; others run *)
(* in between, main() among them, which ends the scheduler when loading    *)
(* failed.                                                                 *)
(*                                                                         *)
(* Every step of a walk is an event that, when run by the dispatcher, adds *)
(* the event of the next step.  eventWalk holds the id of the event to     *)
(* come; while it is not 0 addEventWalk refuses to add one.  An action     *)
(* that needs a walk first is kept in walkTask and becomes an event of its *)
(* own when the walk is complete.                                          *)
(*                                                                         *)
(* A player without health is about to die: the walk event then does       *)
(* nothing, until the task executeDeath takes the player away or, in a     *)
(* zone for player killing, to the temple.  Health may come back before.   *)
(*                                                                         *)
(* A command of the player is a task of the dispatcher, so it is one step. *)
(* Whether the step duration has passed (getWalkDelay() <= 0) is the state *)
(* variable resting; paths are their lengths.                              *)
(***************************************************************************)
EXTENDS Naturals, Sequences, FiniteSets

CONSTANTS MaxEvents,      \* bound: events added in one behaviour
          MaxPath         \* bound: length of a path

ASSUME WalkAssumption == MaxEvents \in Nat /\ MaxPath \in Nat \ {0}

Ids == 1 .. MaxEvents

VARIABLES schedState,     \* the atomic of ThreadHolder
          ioStopped,      \* io_context.stop() was called
          lastEventId,
          inHand,         \* the event the scheduler thread calls addTask with, or 0
          handlers,       \* the io_context's queue
          timers,         \* eventIdTimerMap: the timer of each event id in the map
          dispatcherOpen, \* g_dispatcher still accepts tasks
          taskList        \* events whose tasks wait in the dispatcher, in order

schedVars == <<schedState, ioStopped, lastEventId, inHand, handlers, timers, dispatcherOpen,
               taskList>>

Op == {"insert", "cancel", "fire", "abort", "cancelAll"}
Handler(op, id) == [op |-> op, id |-> id]

SchedTypeOK ==
  /\ schedState \in {"RUNNING", "CLOSING", "TERMINATED"}
  /\ ioStopped \in BOOLEAN /\ dispatcherOpen \in BOOLEAN
  /\ lastEventId \in 0 .. MaxEvents /\ inHand \in 0 .. MaxEvents
  /\ handlers \in Seq([op : Op, id : 0 .. MaxEvents])
  /\ \E D \in SUBSET Ids : timers \in [D -> {"armed", "completing"}]
  /\ taskList \in Seq(Ids)

SchedInit ==
  /\ schedState = "RUNNING" /\ ioStopped = FALSE /\ dispatcherOpen = TRUE
  /\ lastEventId = 0 /\ inHand = 0
  /\ handlers = <<>> /\ timers = <<>> /\ taskList = <<>>

-----------------------------------------------------------------------------
(* Calls.  A client may add several events in one step, so these say what  *)
(* is posted, and Post appends it.                                         *)

Inserts(ids) == [i \in 1 .. Len(ids) |-> Handler("insert", ids[i])]

(* stopEvent(0) does nothing. *)
Cancel(id) == IF id = 0 THEN <<>> ELSE <<Handler("cancel", id)>>

Post(hs) == handlers' = handlers \o hs

-----------------------------------------------------------------------------
(* The scheduler thread runs the handler at the front of the queue. *)

NextHandler(op) == /\ ~ioStopped /\ inHand = 0
                   /\ handlers # <<>> /\ Head(handlers).op = op

Without(id) == [i \in DOMAIN timers \ {id} |-> timers[i]]

(* The timer is created, set and waited for. *)
Insert ==
  /\ NextHandler("insert")
  /\ timers' = [i \in DOMAIN timers \cup {Head(handlers).id} |->
                  IF i = Head(handlers).id THEN "armed" ELSE timers[i]]
  /\ handlers' = Tail(handlers)
  /\ UNCHANGED <<schedState, ioStopped, lastEventId, inHand, dispatcherOpen, taskList>>

Expire(id) ==
  /\ ~ioStopped
  /\ id \in DOMAIN timers /\ timers[id] = "armed"
  /\ timers' = [timers EXCEPT ![id] = "completing"]
  /\ handlers' = Append(handlers, Handler("fire", id))
  /\ UNCHANGED <<schedState, ioStopped, lastEventId, inHand, dispatcherOpen, taskList>>

(* A mutant: a timer is cancelled although its completion is already queued. *)
InMap(id) == id \in DOMAIN timers
Cancellable(id) == id \in DOMAIN timers /\ timers[id] = "armed"

CancelTimer ==
  /\ NextHandler("cancel")
  /\ LET id == Head(handlers).id
     IN  IF Cancellable(id)
           THEN /\ timers' = [timers EXCEPT ![id] = "completing"]
                /\ handlers' = Append(Tail(handlers), Handler("abort", id))
           ELSE handlers' = Tail(handlers) /\ UNCHANGED timers
  /\ UNCHANGED <<schedState, ioStopped, lastEventId, inHand, dispatcherOpen, taskList>>

(* A mutant: the state is not looked at. *)
ToDispatcherAlways == TRUE
ToDispatcher == schedState # "TERMINATED"

(* The completion of a timer that expired: the task is deleted, or about to *)
(* be added to the dispatcher.                                              *)
Fire ==
  /\ NextHandler("fire")
  /\ timers' = Without(Head(handlers).id)
  /\ inHand' = IF ToDispatcher THEN Head(handlers).id ELSE 0
  /\ handlers' = Tail(handlers)
  /\ UNCHANGED <<schedState, ioStopped, lastEventId, dispatcherOpen, taskList>>

(* g_dispatcher.addTask(task), which deletes the task when it is closed. *)
HandOver ==
  /\ inHand # 0
  /\ taskList' = IF dispatcherOpen THEN Append(taskList, inHand) ELSE taskList
  /\ inHand' = 0
  /\ UNCHANGED <<schedState, ioStopped, lastEventId, handlers, timers, dispatcherOpen>>

(* The completion of a cancelled timer: the task is deleted. *)
Abort ==
  /\ NextHandler("abort")
  /\ timers' = Without(Head(handlers).id)
  /\ handlers' = Tail(handlers)
  /\ UNCHANGED <<schedState, ioStopped, lastEventId, inHand, dispatcherOpen, taskList>>

(* The handler posted by shutdown: nothing runs after it. *)
CancelAll ==
  /\ NextHandler("cancelAll")
  /\ timers' = [i \in DOMAIN timers |-> "completing"]
  /\ ioStopped' = TRUE
  /\ handlers' = Tail(handlers)
  /\ UNCHANGED <<schedState, lastEventId, inHand, dispatcherOpen, taskList>>

SchedulerThread == Insert \/ CancelTimer \/ Fire \/ HandOver \/ Abort \/ CancelAll

-----------------------------------------------------------------------------
(* The player. *)

VARIABLES online,         \* the services were started, so that players came
          walk,           \* the fields of the player, see below
          autoWalks,      \* playerAutoWalk tasks waiting in the dispatcher
          kind            \* what each event runs, by its id

walkVars == <<online, walk, autoWalks, kind>>
vars == <<schedVars, walkVars>>

Walk == [eventWalk : 0 .. MaxEvents,  \* 0 when none
         steps : 0 .. MaxPath,        \* the length of listWalkDir
         cancelNextWalk : BOOLEAN,
         walkTask : BOOLEAN,          \* an action waits for the end of the walk
         walkTaskEvent : 0 .. MaxEvents,
         resting : BOOLEAN,           \* getWalkDelay() > 0
         slow : BOOLEAN,              \* getStepSpeed() <= 0
         present : BOOLEAN,           \* the player is in the game
         healthy : BOOLEAN,           \* getHealth() > 0
         dying : BOOLEAN]             \* an executeDeath waits in the dispatcher

(* A player that nobody finds by its id any more. *)
Absent == [eventWalk |-> 0, steps |-> 0, cancelNextWalk |-> FALSE, walkTask |-> FALSE,
           walkTaskEvent |-> 0, resting |-> FALSE, slow |-> FALSE,
           present |-> FALSE, healthy |-> FALSE, dying |-> FALSE]

TypeOK ==
  /\ SchedTypeOK
  /\ online \in BOOLEAN
  /\ walk \in Walk
  /\ autoWalks \in 0 .. 1
  /\ kind \in Seq({"walk", "action", "script"}) /\ Len(kind) = lastEventId

(* The loader has ended: the services run and the player comes in, or main() *)
(* is about to end the threads.                                              *)
Init ==
  /\ SchedInit
  /\ online \in BOOLEAN
  /\ walk = IF online THEN [Absent EXCEPT !.present = TRUE, !.healthy = TRUE] ELSE Absent
  /\ autoWalks = 0 /\ kind = <<>>

-----------------------------------------------------------------------------
(* A handler is the player's fields with the calls of the scheduler made so *)
(* far: the kinds of the events added, and what was posted.                  *)

Start == [w |-> walk, kind |-> kind, posts |-> <<>>]

(* g_scheduler.addEvent: the new id is ++lastEventId. *)
AddEvent(s, k) == [s EXCEPT !.kind = Append(@, k),
                            !.posts = @ \o Inserts(<<Len(s.kind) + 1>>)]

StopEvent(s, id) == [s EXCEPT !.posts = @ \o Cancel(id)]

(* A mutant: the event is stopped and its id kept. *)
StopEventWalkKeepsId(s) == StopEvent(s, s.w.eventWalk)
StopEventWalk(s) == [StopEvent(s, s.w.eventWalk) EXCEPT !.w.eventWalk = 0]

SetNextWalkActionTask(s, task) ==
  [StopEvent(s, s.w.walkTaskEvent) EXCEPT !.w.walkTaskEvent = 0, !.w.walkTask = task]

OnWalkComplete(s) ==
  IF s.w.walkTask
    THEN [AddEvent(s, "action") EXCEPT !.w.walkTask = FALSE,
                                       !.w.walkTaskEvent = Len(s.kind) + 1]
    ELSE s

(* A mutant: the path is popped even when it is empty. *)
StepAlways(s, teleport) ==
  IF s.w.resting THEN s ELSE [s EXCEPT !.w.steps = @ - 1, !.w.resting = TRUE]

(* One step of the path, or the end of the walk; nothing before the step   *)
(* duration has passed.  A step onto a teleport calls stopEventWalk.       *)
StepOrComplete(s, teleport) ==
  IF s.w.resting THEN s
  ELSE IF s.w.steps > 0
    THEN LET t == [s EXCEPT !.w.steps = @ - 1, !.w.resting = TRUE]
         IN  IF teleport THEN StopEventWalk(t) ELSE t
    ELSE OnWalkComplete(StopEventWalk(s))

(* onWalkAborted is setNextWalkActionTask(nullptr). *)
AbortIfCancelled(s) ==
  IF s.w.cancelNextWalk
    THEN [SetNextWalkActionTask(s, FALSE) EXCEPT !.w.steps = 0, !.w.cancelNextWalk = FALSE]
    ELSE s

QueueWalk(s) == [AddEvent(s, "walk") EXCEPT !.w.eventWalk = Len(s.kind) + 1]

(* checkCreatureWalk finds the creature, and its health is not 0. *)
CanWalk(s) == s.w.present /\ s.w.healthy

(* addEventWalk.  The first step of a rested creature is taken at once, by *)
(* a nested checkCreatureWalk that adds no event since eventWalk is 0.      *)
AddEventWalk(s, firstStep, teleport) ==
  LET c == [s EXCEPT !.w.cancelNextWalk = FALSE]
  IN  IF s.w.slow \/ s.w.eventWalk # 0 THEN c
      ELSE IF firstStep /\ ~s.w.resting /\ CanWalk(s)
        THEN QueueWalk(AbortIfCancelled(StepOrComplete(c, teleport)))
        ELSE QueueWalk(c)

(* A mutant: the id of the event that runs is not forgotten. *)
OnWalkKeepsId(s, teleport) ==
  LET t == AbortIfCancelled(StepOrComplete(s, teleport))
  IN  AddEventWalk(t, FALSE, FALSE)

OnWalk(s, teleport) ==
  LET t == AbortIfCancelled(StepOrComplete(s, teleport))
  IN  IF t.w.eventWalk # 0
        THEN AddEventWalk([t EXCEPT !.w.eventWalk = 0], FALSE, FALSE)
        ELSE t

(* The event runs and does nothing for a creature without health. *)
CheckCreatureWalk(s, teleport) == IF CanWalk(s) THEN OnWalk(s, teleport) ELSE s

(* setSpeed, when the speed is no longer 0. *)
GoOn(s) == LET t == [s EXCEPT !.w.slow = FALSE]
           IN  IF s.w.steps > 0 THEN AddEventWalk(t, FALSE, FALSE) ELSE t

(* The handler is over.  MaxEvents bounds the ids. *)
Finish(s) == /\ Len(s.kind) <= MaxEvents
             /\ walk' = s.w
             /\ kind' = s.kind
             /\ lastEventId' = Len(s.kind)
             /\ Post(s.posts)
             /\ UNCHANGED <<online, schedState, ioStopped, inHand, timers, dispatcherOpen>>

-----------------------------------------------------------------------------
(* Tasks of the dispatcher. *)

(* An arrow key: one step. *)
PlayerMove(teleport) ==
  /\ dispatcherOpen /\ walk.present
  /\ Finish(AddEventWalk([SetNextWalkActionTask(Start, FALSE) EXCEPT !.w.steps = 1],
                         TRUE, teleport))
  /\ UNCHANGED <<taskList, autoWalks>>

(* An action on something out of reach: playerAutoWalk is added to the     *)
(* dispatcher, the action waits for the end of the walk.  The pending      *)
(* playerAutoWalk tasks are bounded like the events.                       *)
PlayerActFarAway ==
  /\ dispatcherOpen /\ walk.present /\ autoWalks < 1
  /\ autoWalks' = autoWalks + 1
  /\ Finish(SetNextWalkActionTask(Start, TRUE))
  /\ UNCHANGED taskList

PlayerAutoWalk(n, teleport) ==
  /\ autoWalks > 0
  /\ autoWalks' = autoWalks - 1
  /\ Finish(IF walk.present
              THEN AddEventWalk([Start EXCEPT !.w.steps = n], n = 1, teleport) ELSE Start)
  /\ UNCHANGED taskList

PlayerStopAutoWalk ==
  /\ dispatcherOpen /\ walk.present /\ ~walk.cancelNextWalk
  /\ walk' = [walk EXCEPT !.cancelNextWalk = TRUE]
  /\ UNCHANGED <<schedVars, online, autoWalks, kind>>

(* A teleport by a spell, a script or a door: Creature::onCreatureMove. *)
Teleport ==
  /\ dispatcherOpen /\ walk.eventWalk # 0
  /\ Finish(StopEventWalk(Start))
  /\ UNCHANGED <<taskList, autoWalks>>

(* setSpeed: a paralysed creature stops, and goes on when it recovers. *)
SetSpeed ==
  /\ dispatcherOpen /\ walk.present
  /\ Finish(IF walk.slow THEN GoOn(Start)
            ELSE [StopEventWalk(Start) EXCEPT !.w.slow = TRUE, !.w.cancelNextWalk = TRUE])
  /\ UNCHANGED <<taskList, autoWalks>>

(* The last health is lost, and executeDeath is added to the dispatcher.    *)
(* (One waits at a time: a player killed again meanwhile is left out.)      *)
LoseHealth ==
  /\ dispatcherOpen /\ walk.healthy /\ ~walk.dying
  /\ walk' = [walk EXCEPT !.healthy = FALSE, !.dying = TRUE]
  /\ UNCHANGED <<schedVars, online, autoWalks, kind>>

(* A regeneration heals whoever is about to die, too, in the think in which *)
(* a wound has killed it; a level that is gained does so later as well.     *)
Regenerate ==
  /\ dispatcherOpen /\ walk.present /\ ~walk.healthy
  /\ walk' = [walk EXCEPT !.healthy = TRUE]
  /\ UNCHANGED <<schedVars, online, autoWalks, kind>>

(* Death ends the conditions, a paralysis among them.  Then the player is    *)
(* removed, or, when a player killed it in a zone for that, teleported to    *)
(* the temple (which is not next to the zone).                               *)
ExecuteDeath(pvpZone) ==
  /\ walk.dying
  /\ LET s == IF walk.slow THEN GoOn(Start) ELSE Start
     IN  Finish(IF pvpZone
                  THEN [StopEventWalk(s) EXCEPT !.w.healthy = TRUE, !.w.dying = FALSE]
                  ELSE [s EXCEPT !.w = Absent])
  /\ UNCHANGED <<taskList, autoWalks>>

(* The event at the head of the dispatcher's list is run. *)
RunEvent(teleport) ==
  /\ taskList # <<>>
  /\ taskList' = Tail(taskList)
  /\ Finish(IF kind[Head(taskList)] = "walk" THEN CheckCreatureWalk(Start, teleport) ELSE Start)
  /\ UNCHANGED autoWalks

(* A script that the loader ran has added an event, or one that runs does. *)
ScriptEvent ==
  /\ ~online /\ dispatcherOpen
  /\ Finish(AddEvent(Start, "script"))
  /\ UNCHANGED <<taskList, autoWalks>>

StepDurationPasses ==
  /\ walk.resting
  /\ walk' = [walk EXCEPT !.resting = FALSE]
  /\ UNCHANGED <<schedVars, online, autoWalks, kind>>

(* setGameState(GAME_STATE_SHUTDOWN): every player is removed, the scheduler *)
(* stopped, then the dispatcher.                                             *)
StopThreads ==
  /\ online /\ schedState = "RUNNING"
  /\ walk' = Absent
  /\ schedState' = "CLOSING" /\ dispatcherOpen' = FALSE
  /\ UNCHANGED <<ioStopped, lastEventId, inHand, handlers, timers, taskList, online, autoWalks,
                 kind>>

(* Scheduler::shutdown, by Game::shutdown, or by main() when loading failed. *)
Shutdown ==
  /\ schedState = IF online THEN "CLOSING" ELSE "RUNNING"
  /\ schedState' = "TERMINATED"
  /\ Post(<<Handler("cancelAll", 0)>>)
  /\ UNCHANGED <<ioStopped, lastEventId, inHand, timers, dispatcherOpen, taskList, walkVars>>

(* After a failed start the dispatcher is ended after the scheduler. *)
CloseDispatcher ==
  /\ ~online /\ schedState = "TERMINATED" /\ dispatcherOpen
  /\ dispatcherOpen' = FALSE
  /\ UNCHANGED <<schedState, ioStopped, lastEventId, inHand, handlers, timers, taskList, walkVars>>

-----------------------------------------------------------------------------
Next == \/ SchedulerThread /\ UNCHANGED walkVars
        \/ \E id \in Ids : Expire(id) /\ UNCHANGED walkVars
        \/ \E teleport \in BOOLEAN :
             \/ PlayerMove(teleport)
             \/ \E n \in 1 .. MaxPath : PlayerAutoWalk(n, teleport)
             \/ RunEvent(teleport)
        \/ \E pvpZone \in BOOLEAN : ExecuteDeath(pvpZone)
        \/ PlayerActFarAway \/ PlayerStopAutoWalk \/ Teleport \/ SetSpeed
        \/ LoseHealth \/ Regenerate \/ ScriptEvent
        \/ StepDurationPasses \/ StopThreads \/ Shutdown \/ CloseDispatcher

Spec == Init /\ [][Next]_vars

(* The scheduler thread handles what is posted, a timer that is set expires, *)
(* the dispatcher runs the events and the deaths it has, and time passes.    *)
(* No command of the player is assumed.                                      *)
FairSpec == /\ Spec
            /\ WF_vars(SchedulerThread /\ UNCHANGED walkVars)
            /\ \A id \in Ids : WF_vars(Expire(id) /\ UNCHANGED walkVars)
            /\ WF_vars(\E teleport \in BOOLEAN : RunEvent(teleport))
            /\ WF_vars(\E pvpZone \in BOOLEAN : ExecuteDeath(pvpZone))
            /\ WF_vars(StepDurationPasses)

-----------------------------------------------------------------------------
Posted(op, id) == {i \in DOMAIN handlers : handlers[i] = Handler(op, id)}
Queued(id) == {i \in DOMAIN taskList : taskList[i] = id}

InHand(id) == IF inHand = id THEN {id} ELSE {}

(* A task object is owned by one place at a time: the handler that will set  *)
(* its timer, its timer, the scheduler thread that hands it over, or the     *)
(* dispatcher.  Nothing is deleted and run, or run twice, however            *)
(* cancellations and expiries interleave.                                    *)
EventInOnePlace ==
  \A id \in Ids :
    LET completions == Posted("fire", id) \cup Posted("abort", id)
    IN  /\ Cardinality(Posted("insert", id)) + Cardinality(completions)
             + Cardinality(InHand(id)) + Cardinality(Queued(id)) <= 1
        /\ id \in DOMAIN timers =>
              Posted("insert", id) = {} /\ InHand(id) = {} /\ Queued(id) = {}
        /\ ~ioStopped => ((id \in DOMAIN timers /\ timers[id] = "completing")
                             <=> completions # {})

(* While the server runs, eventWalk is 0 or the id of an event that nobody   *)
(* has stopped and that is still to be run.  Otherwise addEventWalk would    *)
(* refuse for ever and the creature would be frozen on its tile.  The        *)
(* exception is a player whose death is queued: its event may have run while *)
(* it had no health, and only the death resets eventWalk.                    *)
EventWalkAlive ==
  (schedState = "RUNNING" /\ walk.eventWalk # 0) =>
    LET id == walk.eventWalk
    IN  /\ Posted("cancel", id) \cup Posted("abort", id) = {}
        /\ \/ walk.dying
           \/ Posted("insert", id) # {} \/ id \in DOMAIN timers \/ InHand(id) # {}
           \/ Queued(id) # {}

(* Once Scheduler::shutdown was called no further task is on its way to the  *)
(* dispatcher.  Only one that had passed the test of the thread state before *)
(* may still get there, and only after a failed start: at the end of a       *)
(* running server the dispatcher is closed first.                            *)
NothingAfterShutdown ==
  [][schedState = "TERMINATED" =>
       /\ inHand' \in {0, inHand}
       /\ Len(taskList') > Len(taskList) =>
            ~online /\ taskList' = Append(taskList, inHand)]_vars

(* A walk under way does not hang: it is finished, stopped, ended by death,  *)
(* or the server ends.                                                       *)
WalkEnds ==
  (walk.steps > 0 /\ walk.eventWalk # 0)
    ~> (walk.steps = 0 \/ walk.eventWalk = 0 \/ schedState # "RUNNING"
        \/ lastEventId >= MaxEvents)
=============================================================================
