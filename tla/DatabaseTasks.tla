---------------------------- MODULE DatabaseTasks ----------------------------
(***************************************************************************)
(* The asynchronous queries of databasetasks.cpp: a worker thread pops     *)
(* them one by one, and the dispatcher thread empties the same list itself *)
(* in flush(), from Game::saveGameState and from shutdown().  Both drop    *)
(* the mutex while a query runs, so two queries can be in hand at once.    *)
(*                                                                         *)
(* As in Dispatcher, what is done under taskLock is one step with its      *)
(* release.  The result of a query is not modelled: success or failure     *)
(* goes to the callback, which is a task for the dispatcher.               *)
(***************************************************************************)
EXTENDS Naturals, Sequences

CONSTANTS Net, Disp, Worker,  \* network thread, dispatcher thread, database thread
          Query,              \* every DatabaseTask that may be created
          WithCallback,       \* those that have a callback
          MaxSaves,           \* bound: calls of saveGameState besides the one at shutdown
          NoQuery, NoThread

Threads == {Net, Disp, Worker}

ASSUME DatabaseTasksAssumption ==
  /\ Net # Disp /\ Net # Worker /\ Disp # Worker
  /\ NoThread \notin Threads
  /\ NoQuery \notin Query
  /\ WithCallback \subseteq Query
  /\ MaxSaves \in Nat

VARIABLES threadState,    \* of the database thread
          dispatcherOpen, \* g_dispatcher still accepts tasks
          lock, tasks,
          pc,
          inHand,         \* the query a thread adds, or has popped and runs
          flushReturn,    \* where the dispatcher thread goes when flush() returns
          created,        \* queries already handed to addTask
          saves,
          accepted,       \* history: queries pushed, in order
          executed,       \* history: queries executed, in order
          callbacks       \* history: callbacks given to the dispatcher, in order

vars == <<threadState, dispatcherOpen, lock, tasks, pc, inHand, flushReturn, created, saves,
          accepted, executed, callbacks>>

PC == {"idle", "addLock", "addBody", "addNotify", "flushLock", "flushTest", "exec",
       "callback", "stop", "stopped", "shutLock", "shutBody", "shutNotify", "done",
       "check", "lock", "test", "waiting", "relock", "retest", "exited"}

(* Besides the types: a query is in hand exactly inside addTask and runTask. *)
TypeOK ==
  /\ threadState \in {"RUNNING", "CLOSING", "TERMINATED"}
  /\ dispatcherOpen \in BOOLEAN
  /\ lock \in Threads \cup {NoThread}
  /\ tasks \in Seq(Query)
  /\ pc \in [Threads -> PC]
  /\ inHand \in [Threads -> Query \cup {NoQuery}]
  /\ \A t \in Threads :
       inHand[t] \in Query <=> pc[t] \in {"addLock", "addBody", "exec", "callback"}
  /\ flushReturn \in {"idle", "stop", "shutNotify"}
  /\ created \subseteq Query
  /\ saves \in 0 .. MaxSaves
  /\ accepted \in Seq(Query) /\ executed \in Seq(Query) /\ callbacks \in Seq(Query)

(* DatabaseTasks::start() *)
Init ==
  /\ threadState = "RUNNING" /\ dispatcherOpen = TRUE
  /\ lock = NoThread /\ tasks = <<>>
  /\ pc = [t \in Threads |-> IF t = Worker THEN "check" ELSE "idle"]
  /\ inHand = [t \in Threads |-> NoQuery]
  /\ flushReturn = "idle"
  /\ created = {} /\ saves = 0
  /\ accepted = <<>> /\ executed = <<>> /\ callbacks = <<>>

Goto(t, l) == pc' = [pc EXCEPT ![t] = l]

(* A wait of the database thread is ended by a notification. *)
Notified(p) == IF p = "waiting" THEN "relock" ELSE p

-----------------------------------------------------------------------------
(* taskLock: taken for addTask, flush, shutdown and the loop. *)

Locked == [addLock |-> "addBody", flushLock |-> "flushTest", shutLock |-> "shutBody",
           lock |-> "test", relock |-> "retest"]

TakeLock(t) ==
  /\ pc[t] \in DOMAIN Locked /\ lock = NoThread
  /\ lock' = t
  /\ Goto(t, Locked[pc[t]])
  /\ UNCHANGED <<threadState, dispatcherOpen, tasks, inHand, flushReturn, created, saves,
                 accepted, executed, callbacks>>

(* DatabaseTasks::addTask *)
AddTask(t, q) ==
  /\ t \in {Net, Disp} /\ pc[t] = "idle"
  /\ q \notin created
  /\ created' = created \cup {q}
  /\ inHand' = [inHand EXCEPT ![t] = q]
  /\ Goto(t, "addLock")
  /\ UNCHANGED <<threadState, dispatcherOpen, lock, tasks, flushReturn, saves,
                 accepted, executed, callbacks>>

(* A mutant: signalled whenever a query had to queue. *)
SignalIfBehind == tasks # <<>>
Signal == tasks = <<>>

AddBody(t) ==
  /\ pc[t] = "addBody"
  /\ IF threadState = "RUNNING"
       THEN /\ tasks' = Append(tasks, inHand[t])
            /\ accepted' = Append(accepted, inHand[t])
            /\ Goto(t, IF Signal THEN "addNotify" ELSE "idle")
       ELSE Goto(t, "idle") /\ UNCHANGED <<tasks, accepted>>
  /\ lock' = NoThread
  /\ inHand' = [inHand EXCEPT ![t] = NoQuery]
  /\ UNCHANGED <<threadState, dispatcherOpen, flushReturn, created, saves, executed, callbacks>>

AddNotify(t) ==
  /\ pc[t] = "addNotify"
  /\ pc' = [pc EXCEPT ![t] = "idle", ![Worker] = Notified(@)]
  /\ UNCHANGED <<threadState, dispatcherOpen, lock, tasks, inHand, flushReturn, created, saves,
                 accepted, executed, callbacks>>

-----------------------------------------------------------------------------
(* DatabaseTasks::runTask *)

(* A mutant: the query is only read, and still heads the list while it runs. *)
PeekFront(t) == inHand' = [inHand EXCEPT ![t] = Head(tasks)] /\ UNCHANGED tasks
(* A mutant: the newest query first. *)
PopBack(t) == /\ inHand' = [inHand EXCEPT ![t] = tasks[Len(tasks)]]
              /\ tasks' = SubSeq(tasks, 1, Len(tasks) - 1)

PopFront(t) == /\ inHand' = [inHand EXCEPT ![t] = Head(tasks)]
               /\ tasks' = Tail(tasks)

(* Popped by the loop or by flush; the mutex is released before it runs. *)
Pop(t) ==
  /\ pc[t] \in {"test", "retest", "flushTest"} /\ tasks # <<>>
  /\ PopFront(t)
  /\ lock' = NoThread
  /\ Goto(t, "exec")
  /\ UNCHANGED <<threadState, dispatcherOpen, flushReturn, created, saves, accepted, executed,
                 callbacks>>

Execute(t) ==
  /\ pc[t] = "exec"
  /\ executed' = Append(executed, inHand[t])
  /\ Goto(t, "callback")
  /\ UNCHANGED <<threadState, dispatcherOpen, lock, tasks, inHand, flushReturn, created, saves,
                 accepted, callbacks>>

(* A mutant: the finished query is kept. *)
KeepQuery(t) == UNCHANGED inHand
DropQuery(t) == inHand' = [inHand EXCEPT ![t] = NoQuery]

(* The callback becomes a task of the dispatcher, unless that one is closing. *)
Callback(t) ==
  /\ pc[t] = "callback"
  /\ callbacks' = IF inHand[t] \in WithCallback /\ dispatcherOpen
                    THEN Append(callbacks, inHand[t]) ELSE callbacks
  /\ DropQuery(t)
  /\ Goto(t, IF t = Worker THEN "check" ELSE "flushLock")
  /\ UNCHANGED <<threadState, dispatcherOpen, lock, tasks, flushReturn, created, saves, accepted,
                 executed>>

-----------------------------------------------------------------------------
(* The dispatcher thread: flush, stop and shutdown *)

(* Game::saveGameState, on SIGUSR1 or from a script; MaxSaves is a bound. *)
SaveGameState ==
  /\ pc[Disp] = "idle" /\ saves < MaxSaves
  /\ saves' = saves + 1
  /\ flushReturn' = "idle"
  /\ Goto(Disp, "flushLock")
  /\ UNCHANGED <<threadState, dispatcherOpen, lock, tasks, inHand, created, accepted, executed,
                 callbacks>>

(* Game::setGameState(GAME_STATE_SHUTDOWN) saves the game state ... *)
SetShutdown ==
  /\ pc[Disp] = "idle"
  /\ flushReturn' = "stop"
  /\ Goto(Disp, "flushLock")
  /\ UNCHANGED <<threadState, dispatcherOpen, lock, tasks, inHand, created, saves, accepted,
                 executed, callbacks>>

FlushEnd ==
  /\ pc[Disp] = "flushTest" /\ tasks = <<>>
  /\ lock' = NoThread
  /\ Goto(Disp, flushReturn)
  /\ UNCHANGED <<threadState, dispatcherOpen, tasks, inHand, flushReturn, created, saves,
                 accepted, executed, callbacks>>

(* ... and stops the database thread, then the dispatcher. *)
StopThreads ==
  \/ /\ pc[Disp] = "stop"
     /\ threadState' = "CLOSING"
     /\ Goto(Disp, "stopped")
     /\ UNCHANGED <<dispatcherOpen, lock, tasks, inHand, flushReturn, created, saves, accepted,
                    executed, callbacks>>
  \/ /\ pc[Disp] = "stopped"
     /\ dispatcherOpen' = FALSE
     /\ Goto(Disp, "shutLock")
     /\ UNCHANGED <<threadState, lock, tasks, inHand, flushReturn, created, saves, accepted,
                    executed, callbacks>>

(* A mutant: nothing is flushed after the thread was told to end. *)
NoLastFlush == "shutNotify"
LastFlush == "flushLock"

(* DatabaseTasks::shutdown, from the task Game::shutdown. *)
Shutdown ==
  /\ pc[Disp] = "shutBody"
  /\ threadState' = "TERMINATED"
  /\ lock' = NoThread
  /\ flushReturn' = "shutNotify"
  /\ Goto(Disp, LastFlush)
  /\ UNCHANGED <<dispatcherOpen, tasks, inHand, created, saves, accepted, executed, callbacks>>

ShutdownNotify ==
  /\ pc[Disp] = "shutNotify"
  /\ pc' = [pc EXCEPT ![Disp] = "done", ![Worker] = Notified(@)]
  /\ UNCHANGED <<threadState, dispatcherOpen, lock, tasks, inHand, flushReturn, created, saves,
                 accepted, executed, callbacks>>

-----------------------------------------------------------------------------
(* DatabaseTasks::threadMain *)

CheckState ==
  /\ pc[Worker] = "check"
  /\ Goto(Worker, IF threadState = "TERMINATED" THEN "exited" ELSE "lock")
  /\ UNCHANGED <<threadState, dispatcherOpen, lock, tasks, inHand, flushReturn, created, saves,
                 accepted, executed, callbacks>>

(* wait() without a predicate, entered whatever happened to the state since *)
(* CheckState; after it an empty list sends the loop back to its condition. *)
WaitOrRetry ==
  /\ tasks = <<>>
  /\ \/ pc[Worker] = "test" /\ Goto(Worker, "waiting")
     \/ pc[Worker] = "retest" /\ Goto(Worker, "check")
  /\ lock' = NoThread
  /\ UNCHANGED <<threadState, dispatcherOpen, tasks, inHand, flushReturn, created, saves,
                 accepted, executed, callbacks>>

SpuriousWakeup ==
  /\ pc[Worker] = "waiting"
  /\ Goto(Worker, "relock")
  /\ UNCHANGED <<threadState, dispatcherOpen, lock, tasks, inHand, flushReturn, created, saves,
                 accepted, executed, callbacks>>

-----------------------------------------------------------------------------
ThreadSteps(t) == TakeLock(t) \/ AddBody(t) \/ AddNotify(t) \/ Pop(t) \/ Execute(t) \/ Callback(t)
DispatcherSteps == FlushEnd \/ StopThreads \/ Shutdown \/ ShutdownNotify
WorkerSteps == CheckState \/ WaitOrRetry

Next == \/ \E t \in Threads : ThreadSteps(t) \/ \E q \in Query : AddTask(t, q)
        \/ SaveGameState \/ SetShutdown \/ DispatcherSteps
        \/ WorkerSteps \/ SpuriousWakeup

Spec == Init /\ [][Next]_vars

(* Every thread that can run is run, and gets the mutex it keeps asking for. *)
(* Nothing has to be added, saved or shut down, and no wakeup is spurious.    *)
FairSpec == /\ Spec
            /\ \A t \in Threads : WF_vars(ThreadSteps(t)) /\ SF_vars(TakeLock(t))
            /\ WF_vars(DispatcherSteps) /\ WF_vars(WorkerSteps)

-----------------------------------------------------------------------------
Elements(s) == {s[i] : i \in DOMAIN s}
Distinct(s) == \A i, j \in DOMAIN s : s[i] = s[j] => i = j
Running == {inHand[t] : t \in {u \in Threads : pc[u] = "exec"}}

(* Whichever of the two threads takes it, an accepted query is executed once: *)
(* it is in the list, popped by exactly one thread, or executed; and it is    *)
(* when the thread has ended after shutdown().                                *)
ExecutedOnce ==
  /\ Distinct(executed) /\ Distinct(callbacks)
  /\ Elements(accepted) = Elements(tasks) \cup Running \cup Elements(executed)
  /\ Elements(tasks) \cap (Running \cup Elements(executed)) = {}
  /\ Running \cap Elements(executed) = {}
  /\ pc[Worker] = "exec" /\ pc[Disp] = "exec" => inHand[Worker] # inHand[Disp]
  /\ Elements(callbacks) \subseteq Elements(executed)
  /\ (pc[Worker] = "exited" /\ pc[Disp] = "done") => Elements(executed) = Elements(accepted)

(* A query can be executed before an earlier one only while the other thread *)
(* has that earlier one in hand: the order of a ban's INSERT and DELETE can   *)
(* be inverted by flush(), but by one query only and never from the list.     *)
OvertakenOnlyInHand ==
  \A i, j \in DOMAIN accepted :
    (i < j /\ accepted[j] \in Elements(executed) /\ accepted[i] \notin Elements(executed))
      => accepted[i] \in Running

(* An accepted query is executed in the end, by the worker or by a flush. *)
AcceptedIsExecuted ==
  \A q \in Query : (q \in Elements(accepted)) ~> (q \in Elements(executed))

(* The thread ends after shutdown(), so that g_databaseTasks.join() returns. *)
ThreadEnds == (threadState = "TERMINATED") ~> (pc[Worker] = "exited")
=============================================================================
