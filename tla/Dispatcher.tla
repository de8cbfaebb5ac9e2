------------------------------ MODULE Dispatcher ------------------------------
(***************************************************************************)
(* The dispatcher thread of tasks.cpp and the threads that call it.  Every *)
(* change to the game world is a task executed here.                       *)
(*                                                                         *)
(* A critical section is two steps: taking taskLock, then what is done     *)
(* under it together with its release (nobody else reads the guarded data  *)
(* in between; the atomic threadState is read once inside it).  The call   *)
(* of notify_one after the release is a step of its own.                   *)
(*                                                                         *)
(* Two ways lead to the end.  A running server gets StopTask from a signal *)
(* handler: Game::setGameState(GAME_STATE_SHUTDOWN) adds Game::shutdown    *)
(* and then stops the dispatcher.  When loading fails, main() itself calls *)
(* Dispatcher::shutdown.                                                   *)
(***************************************************************************)
EXTENDS Naturals, Sequences

CONSTANTS Producers,      \* the scheduler's thread and the database thread
          Main, Disp,     \* the main (and network) thread, the dispatcher thread
          Work,           \* ordinary tasks, each a Task object created at most once
          Expiring,       \* those of them created with an expiration
          StopTask,       \* a signal handler: setGameState(GAME_STATE_SHUTDOWN)
          ShutdownTask,   \* Game::shutdown
          TerminateTask,  \* the task that Dispatcher::shutdown pushes
          NoTask, NoThread

Threads == Producers \cup {Main, Disp}
Task == Work \cup {StopTask, ShutdownTask, TerminateTask}

ASSUME DispatcherAssumption ==
  /\ Main # Disp /\ Main \notin Producers /\ Disp \notin Producers
  /\ NoThread \notin Threads
  /\ Expiring \subseteq Work
  /\ NoTask \notin Task
  /\ StopTask \notin Work /\ ShutdownTask \notin Work /\ TerminateTask \notin Work
  /\ StopTask # ShutdownTask /\ StopTask # TerminateTask /\ ShutdownTask # TerminateTask

VARIABLES threadState,  \* the atomic of ThreadHolder
          lock,         \* the owner of taskLock, or NoThread
          taskList,
          tmpTaskList,  \* the batch the dispatcher thread took
          pc,           \* where each thread is
          arg,          \* the task a thread is adding
          current,      \* the task being executed
          created,      \* Work and StopTask tasks already handed to addTask
          startup,      \* how main() left g_loaderSignal.wait
          serviceStopped, \* Game::shutdown has called ServiceManager::stop
          accepted,     \* history: every task pushed to taskList, in order
          handled       \* history: every task taken from a batch, in order

vars == <<threadState, lock, taskList, tmpTaskList, pc, arg, current, created,
          startup, serviceStopped, accepted, handled>>

PC == {"boot", "idle", "addLock", "addBody", "addNotify", "shutLock", "shutBody",
       "joinProducers", "join", "joined", "check", "lock", "test", "waiting", "relock",
       "swap", "run", "exec", "exited"}

TypeOK ==
  /\ threadState \in {"RUNNING", "CLOSING", "TERMINATED"}
  /\ lock \in Threads \cup {NoThread}
  /\ taskList \in Seq(Task) /\ tmpTaskList \in Seq(Task)
  /\ pc \in [Threads -> PC]
  /\ arg \in [Threads -> Task \cup {NoTask}]
  /\ current \in Task \cup {NoTask}
  /\ created \subseteq Work \cup {StopTask}
  /\ startup \in {"loading", "online", "failed"}
  /\ serviceStopped \in BOOLEAN
  /\ accepted \in Seq(Task) /\ handled \in Seq(Task)

(* main() has called g_dispatcher.start(). *)
Init ==
  /\ threadState = "RUNNING"
  /\ lock = NoThread
  /\ taskList = <<>> /\ tmpTaskList = <<>>
  /\ pc = [t \in Threads |-> IF t = Disp THEN "check"
                             ELSE IF t = Main THEN "boot" ELSE "idle"]
  /\ arg = [t \in Threads |-> NoTask]
  /\ current = NoTask
  /\ created = {}
  /\ startup = "loading" /\ serviceStopped = FALSE
  /\ accepted = <<>> /\ handled = <<>>

Goto(t, l) == pc' = [pc EXCEPT ![t] = l]

(* Where a call returns to: a task being executed calls from "exec". *)
Return(t) == IF t = Disp THEN "exec"
             ELSE IF startup = "failed" /\ t = Main THEN "joinProducers" ELSE "idle"

Push(x) == /\ taskList' = Append(taskList, x)
           /\ accepted' = Append(accepted, x)

-----------------------------------------------------------------------------
(* Dispatcher::addTask, by any thread *)

AddTask(t, x) ==
  /\ pc[t] = "idle" \/ (t = Disp /\ pc[t] = "exec" /\ current \in Work)
  /\ x \in Work \/ (x = StopTask /\ t = Main)
  /\ x \notin created
  /\ created' = created \cup {x}
  /\ arg' = [arg EXCEPT ![t] = x]
  /\ Goto(t, "addLock")
  /\ UNCHANGED <<threadState, lock, taskList, tmpTaskList, current, startup,
                 serviceStopped, accepted, handled>>

AddLock(t) ==
  /\ pc[t] = "addLock" /\ lock = NoThread
  /\ lock' = t
  /\ Goto(t, "addBody")
  /\ UNCHANGED <<threadState, taskList, tmpTaskList, arg, current, created, startup,
                 serviceStopped, accepted, handled>>

(* A mutant: read after the push, when the list is never empty. *)
DoSignalAfterPush == taskList' = <<>>

(* do_signal is read before the push: only the task that makes the list    *)
(* non-empty is signalled.                                                 *)
DoSignal == taskList = <<>>

(* A mutant: tasks are accepted as long as the thread runs. *)
AcceptingWhileClosing == threadState # "TERMINATED"
Accepting == threadState = "RUNNING"

AddBody(t) ==
  /\ pc[t] = "addBody"
  /\ IF Accepting
       THEN /\ Push(arg[t])
            /\ Goto(t, IF DoSignal THEN "addNotify" ELSE Return(t))
       ELSE /\ Goto(t, Return(t))
            /\ UNCHANGED <<taskList, accepted>>
  /\ lock' = NoThread
  /\ arg' = [arg EXCEPT ![t] = NoTask]
  /\ UNCHANGED <<threadState, tmpTaskList, current, created, startup, serviceStopped,
                 handled>>

(* notify_one: wakes the dispatcher thread if it waits, and nobody else waits. *)
AddNotify(t) ==
  /\ pc[t] = "addNotify"
  /\ pc' = [pc EXCEPT ![t] = Return(t),
                      ![Disp] = IF t = Disp THEN Return(t)
                                ELSE IF @ = "waiting" THEN "relock" ELSE @]
  /\ UNCHANGED <<threadState, lock, taskList, tmpTaskList, arg, current, created, startup,
                 serviceStopped, accepted, handled>>

-----------------------------------------------------------------------------
(* Dispatcher::shutdown, by Game::shutdown or by main *)

ShutdownLock(t) ==
  /\ pc[t] = "shutLock" /\ lock = NoThread
  /\ lock' = t
  /\ Goto(t, "shutBody")
  /\ UNCHANGED <<threadState, taskList, tmpTaskList, arg, current, created, startup,
                 serviceStopped, accepted, handled>>

(* Mutants: the task is subject to addTask's test of the state; the        *)
(* argument of a finished addTask is pushed.                               *)
TerminateIfRunning == IF threadState = "RUNNING"
                        THEN Push(TerminateTask) /\ UNCHANGED threadState
                        ELSE UNCHANGED <<threadState, taskList, accepted>>
TerminateStaleTask == Push(arg[Main]) /\ UNCHANGED threadState

(* The terminating task is pushed whatever the thread state is. *)
PushTerminate == Push(TerminateTask) /\ UNCHANGED threadState

ShutdownBody(t) ==
  /\ pc[t] = "shutBody"
  /\ PushTerminate
  /\ pc' = [pc EXCEPT ![t] = Return(t),
                      ![Disp] = IF t = Disp THEN Return(t)
                                ELSE IF @ = "waiting" THEN "relock" ELSE @]
  /\ lock' = NoThread
  /\ UNCHANGED <<tmpTaskList, arg, current, created, startup, serviceStopped, handled>>

-----------------------------------------------------------------------------
(* Dispatcher::threadMain *)

CheckState ==
  /\ pc[Disp] = "check"
  /\ Goto(Disp, IF threadState = "TERMINATED" THEN "exited" ELSE "lock")
  /\ UNCHANGED <<threadState, lock, taskList, tmpTaskList, arg, current, created, startup,
                 serviceStopped, accepted, handled>>

TakeLock ==
  /\ lock = NoThread
  /\ lock' = Disp
  /\ \/ pc[Disp] = "lock" /\ Goto(Disp, "test")
     \/ pc[Disp] = "relock" /\ Goto(Disp, "swap")
  /\ UNCHANGED <<threadState, taskList, tmpTaskList, arg, current, created, startup,
                 serviceStopped, accepted, handled>>

Wait ==
  /\ pc[Disp] = "test" /\ taskList = <<>>
  /\ lock' = NoThread
  /\ Goto(Disp, "waiting")
  /\ UNCHANGED <<threadState, taskList, tmpTaskList, arg, current, created, startup,
                 serviceStopped, accepted, handled>>

(* std::condition_variable::wait may return without a notification. *)
SpuriousWakeup ==
  /\ pc[Disp] = "waiting"
  /\ Goto(Disp, "relock")
  /\ UNCHANGED <<threadState, lock, taskList, tmpTaskList, arg, current, created, startup,
                 serviceStopped, accepted, handled>>

(* A mutant: the batch is copied and the list is not emptied. *)
CopyLists == tmpTaskList' = taskList /\ UNCHANGED taskList

SwapLists == tmpTaskList' = taskList /\ taskList' = tmpTaskList

Swap ==
  /\ pc[Disp] = "swap" \/ (pc[Disp] = "test" /\ taskList # <<>>)
  /\ SwapLists
  /\ lock' = NoThread
  /\ Goto(Disp, "run")
  /\ UNCHANGED <<threadState, arg, current, created, startup, serviceStopped, accepted,
                 handled>>

EndBatch ==
  /\ pc[Disp] = "run" /\ tmpTaskList = <<>>
  /\ Goto(Disp, "check")
  /\ UNCHANGED <<threadState, lock, taskList, tmpTaskList, arg, current, created, startup,
                 serviceStopped, accepted, handled>>

NextTask(x) == /\ pc[Disp] = "run" /\ tmpTaskList # <<>>
               /\ x = Head(tmpTaskList)
               /\ tmpTaskList' = Tail(tmpTaskList)
               /\ handled' = Append(handled, x)

SkipExpired ==
  /\ \E x \in Expiring : NextTask(x)
  /\ UNCHANGED <<threadState, lock, taskList, pc, arg, current, created, startup,
                 serviceStopped, accepted>>

StartTask ==
  \E x \in Work :
    /\ NextTask(x)
    /\ current' = x
    /\ Goto(Disp, "exec")
    /\ UNCHANGED <<threadState, lock, taskList, arg, created, startup, serviceStopped,
                   accepted>>

(* Game::setGameState(GAME_STATE_SHUTDOWN): first addTask(Game::shutdown)  *)
StartStopTask ==
  /\ NextTask(StopTask)
  /\ current' = StopTask
  /\ arg' = [arg EXCEPT ![Disp] = ShutdownTask]
  /\ Goto(Disp, "addLock")
  /\ UNCHANGED <<threadState, lock, taskList, created, startup, serviceStopped, accepted>>

StartShutdownTask ==
  /\ NextTask(ShutdownTask)
  /\ current' = ShutdownTask
  /\ Goto(Disp, "shutLock")
  /\ UNCHANGED <<threadState, lock, taskList, arg, created, startup, serviceStopped, accepted>>

(* Its notify_one reaches nobody: only this thread ever waits. *)
RunTerminateTask ==
  /\ NextTask(TerminateTask)
  /\ threadState' = "TERMINATED"
  /\ UNCHANGED <<lock, taskList, pc, arg, current, created, startup, serviceStopped, accepted>>

(* The end of a task.  For StopTask it is g_dispatcher.stop(), for Game::shutdown *)
(* serviceManager->stop().                                                        *)
EndTask ==
  /\ pc[Disp] = "exec"
  /\ threadState' = IF current = StopTask THEN "CLOSING" ELSE threadState
  /\ serviceStopped' = (serviceStopped \/ current = ShutdownTask)
  /\ current' = NoTask
  /\ Goto(Disp, "run")
  /\ UNCHANGED <<lock, taskList, tmpTaskList, arg, created, startup, accepted, handled>>

-----------------------------------------------------------------------------
(* main() *)

(* The services are running: main() runs the io_service and becomes the network thread. *)
GoOnline ==
  /\ pc[Main] = "boot"
  /\ startup' = "online"
  /\ Goto(Main, "idle")
  /\ UNCHANGED <<threadState, lock, taskList, tmpTaskList, arg, current, created,
                 serviceStopped, accepted, handled>>

StartupFails ==
  /\ pc[Main] = "boot"
  /\ startup' = "failed"
  /\ Goto(Main, "shutLock")
  /\ UNCHANGED <<threadState, lock, taskList, tmpTaskList, arg, current, created,
                 serviceStopped, accepted, handled>>

(* ServiceManager::stop, and 3 s later die(): io_service.run() returns. *)
LeaveService ==
  /\ pc[Main] = "idle" /\ serviceStopped
  /\ Goto(Main, "joinProducers")
  /\ UNCHANGED <<threadState, lock, taskList, tmpTaskList, arg, current, created, startup,
                 serviceStopped, accepted, handled>>

(* Another thread ends once it was told to, by Game::shutdown or by main() *)
(* after a failed start.  The database thread may never do so: see         *)
(* ThreadEnds in DatabaseTasks.                                            *)
ProducerEnds(t) ==
  /\ t \in Producers /\ pc[t] = "idle"
  /\ startup = "failed" \/ current = ShutdownTask \/ serviceStopped
  /\ Goto(t, "exited")
  /\ UNCHANGED <<threadState, lock, taskList, tmpTaskList, arg, current, created, startup,
                 serviceStopped, accepted, handled>>

(* g_scheduler.join() and g_databaseTasks.join() come before g_dispatcher.join(). *)
JoinProducers ==
  /\ pc[Main] = "joinProducers" /\ \A t \in Producers : pc[t] = "exited"
  /\ Goto(Main, "join")
  /\ UNCHANGED <<threadState, lock, taskList, tmpTaskList, arg, current, created, startup,
                 serviceStopped, accepted, handled>>

Join ==
  /\ pc[Main] = "join" /\ pc[Disp] = "exited"
  /\ Goto(Main, "joined")
  /\ UNCHANGED <<threadState, lock, taskList, tmpTaskList, arg, current, created, startup,
                 serviceStopped, accepted, handled>>

-----------------------------------------------------------------------------
DispatcherLoop == CheckState \/ TakeLock \/ Wait \/ Swap \/ EndBatch \/ SkipExpired
                  \/ StartTask \/ StartStopTask \/ StartShutdownTask \/ RunTerminateTask
                  \/ EndTask

CallSteps(t) == AddLock(t) \/ AddBody(t) \/ AddNotify(t) \/ ShutdownLock(t) \/ ShutdownBody(t)

Next == \/ DispatcherLoop \/ SpuriousWakeup
        \/ GoOnline \/ StartupFails \/ LeaveService \/ JoinProducers \/ Join
        \/ \E t \in Threads : CallSteps(t) \/ ProducerEnds(t)
                               \/ \E x \in Work \cup {StopTask} : AddTask(t, x)

Spec == Init /\ [][Next]_vars

(* The operating system runs every thread that can run, and lets each thread *)
(* that keeps asking for the mutex have it.  Nobody has to call addTask, no  *)
(* signal has to arrive, and no producer has to end.                         *)
Fairness == /\ WF_vars(DispatcherLoop) /\ SF_vars(TakeLock)
            /\ \A t \in Threads : WF_vars(CallSteps(t)) /\ SF_vars(AddLock(t))
                                  /\ SF_vars(ShutdownLock(t))
            /\ WF_vars(GoOnline \/ StartupFails) /\ WF_vars(LeaveService)
            /\ WF_vars(JoinProducers) /\ WF_vars(Join)

FairSpec == Spec /\ Fairness

-----------------------------------------------------------------------------
(* The queue a client sees: the rest of the batch, then the list behind it. *)
Pending == tmpTaskList \o taskList

Queue == INSTANCE TaskQueue WITH queue <- Pending, Task <- Task

(* Every accepted task is handled once, in the order of acceptance, although *)
(* producers push to one list while a batch swapped out of it is executed    *)
(* and tasks add tasks: the dispatcher implements TaskQueue.                 *)
ImplementsTaskQueue == Queue!QSpec

(* If the dispatcher thread waits on taskSignal with work in the list, the   *)
(* producer that made the list non-empty has yet to notify it: the signal    *)
(* sent only by that producer, after the mutex is released, is never lost.   *)
NoLostWakeup ==
  (pc[Disp] = "waiting" /\ taskList # <<>>)
    => \E t \in Threads \ {Disp} : pc[t] = "addNotify"

(* A thread inside addTask holds the task it adds. *)
TaskInHand == \A t \in Threads : pc[t] \in {"addLock", "addBody"} => arg[t] \in Task

(* The loop looks at taskList only when its batch is used up, so the swap   *)
(* leaves an empty list behind.                                            *)
BatchUsedUp ==
  pc[Disp] \in {"check", "lock", "test", "waiting", "relock", "swap", "exited"}
    => tmpTaskList = <<>>

(* The inductive invariant of the proofs. *)
IInv == TypeOK /\ TaskInHand /\ BatchUsedUp /\ NoLostWakeup

(* After an orderly shutdown everything that addTask accepted was handled:   *)
(* main() does not return with a task (a player's save, a logout) dropped.   *)
NothingDropped ==
  (pc[Main] = "joined" /\ startup = "online") => handled = accepted

(* Once the shutdown is under way, by Game::shutdown or by a failed start,   *)
(* the dispatcher thread ends, and main() does not stay in the last of its   *)
(* three joins, that of g_dispatcher.  (Whether it gets that far depends on  *)
(* the database thread, which it joins before.)                              *)
ShutdownJoins ==
  /\ (current = StopTask \/ startup = "failed") ~> (pc[Disp] = "exited")
  /\ (pc[Main] = "join") ~> (pc[Main] = "joined")
=============================================================================
