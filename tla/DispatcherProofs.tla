-------------------------- MODULE DispatcherProofs --------------------------
(***************************************************************************)
(* For any producers and any tasks: the dispatcher is type correct, loses  *)
(* no wakeup, implements the queue of TaskQueue, and drops no task that it *)
(* accepted when the server shuts down.                                    *)
(***************************************************************************)
EXTENDS Dispatcher, SequenceTheorems, TLAPS

(* Appending to the right part of a concatenation appends to the whole. *)
LEMMA AppendToConcat ==
  ASSUME NEW S, NEW s \in Seq(S), NEW t \in Seq(S), NEW e \in S
  PROVE  s \o Append(t, e) = Append(s \o t, e)
<1>1. <<e>> \in Seq(S) /\ s \o t \in Seq(S)
  BY ConcatProperties
<1>2. s \o Append(t, e) = s \o (t \o <<e>>)
  BY AppendIsConcat
<1>3. s \o (t \o <<e>>) = (s \o t) \o <<e>>
  BY <1>1, ConcatAssociative
<1>4. (s \o t) \o <<e>> = Append(s \o t, e)
  BY <1>1, AppendIsConcat
<1>. QED  BY <1>2, <1>3, <1>4

(* The head and the tail of a concatenation are those of its left part. *)
LEMMA HeadTailOfConcat ==
  ASSUME NEW S, NEW s \in Seq(S), NEW t \in Seq(S), s # <<>>
  PROVE  /\ s \o t # <<>>
         /\ Head(s \o t) = Head(s)
         /\ Tail(s \o t) = Tail(s) \o t
<1>1. Len(s) \in Nat \ {0} /\ Len(t) \in Nat
  BY EmptySeq, LenProperties
<1>2. /\ s \o t \in Seq(S)
      /\ Len(s \o t) = Len(s) + Len(t)
      /\ \A i \in 1 .. Len(s) + Len(t) :
            (s \o t)[i] = IF i <= Len(s) THEN s[i] ELSE t[i - Len(s)]
  BY ConcatProperties
<1>3. s \o t # <<>>
  BY <1>1, ConcatEqualIffEmpty
<1>4. Head(s \o t) = Head(s)
  <2>1. (s \o t)[1] = s[1]
    BY <1>1, <1>2
  <2>. QED  BY <1>2, <1>3, <2>1
<1>5. Tail(s \o t) = Tail(s) \o t
  <2>1. /\ Tail(s \o t) \in Seq(S)
        /\ Len(Tail(s \o t)) = Len(s) + Len(t) - 1
        /\ \A i \in 1 .. Len(Tail(s \o t)) : Tail(s \o t)[i] = (s \o t)[i + 1]
    BY <1>2, <1>3, HeadTailProperties
  <2>2. /\ Tail(s) \in Seq(S)
        /\ Len(Tail(s)) = Len(s) - 1
        /\ \A i \in 1 .. Len(Tail(s)) : Tail(s)[i] = s[i + 1]
    BY HeadTailProperties
  <2>3. /\ Tail(s) \o t \in Seq(S)
        /\ Len(Tail(s) \o t) = Len(s) - 1 + Len(t)
        /\ \A i \in 1 .. Len(s) - 1 + Len(t) :
              (Tail(s) \o t)[i] = IF i <= Len(s) - 1 THEN Tail(s)[i] ELSE t[i - (Len(s) - 1)]
    BY <2>2, ConcatProperties
  <2>4. Len(Tail(s \o t)) = Len(Tail(s) \o t)
    BY <1>1, <2>1, <2>3
  <2>5. ASSUME NEW i \in 1 .. Len(Tail(s \o t))
        PROVE  Tail(s \o t)[i] = (Tail(s) \o t)[i]
    <3>1. i \in 1 .. Len(s) + Len(t) - 1 /\ i + 1 \in 1 .. Len(s) + Len(t)
      BY <1>1, <2>1
    <3>2. CASE i <= Len(s) - 1
      <4>1. (Tail(s) \o t)[i] = s[i + 1]
        BY <1>1, <2>2, <2>3, <3>1, <3>2
      <4>2. (s \o t)[i + 1] = s[i + 1]
        BY <1>1, <1>2, <3>1, <3>2
      <4>. QED  BY <2>1, <4>1, <4>2
    <3>3. CASE ~(i <= Len(s) - 1)
      <4>1. (Tail(s) \o t)[i] = t[i - (Len(s) - 1)]
        BY <1>1, <2>3, <3>1, <3>3
      <4>2. (s \o t)[i + 1] = t[i + 1 - Len(s)]
        BY <1>1, <1>2, <3>1, <3>3
      <4>3. i - (Len(s) - 1) = i + 1 - Len(s)
        BY <1>1, <3>1
      <4>. QED  BY <2>1, <4>1, <4>2, <4>3
    <3>. QED  BY <3>2, <3>3
  <2>. QED  BY <2>1, <2>3, <2>4, <2>5, SeqEqual
<1>. QED  BY <1>3, <1>4, <1>5

-----------------------------------------------------------------------------
(* The steps of a call stay within the types. *)
LEMMA CallTypes ==
  ASSUME TypeOK, TaskInHand, NEW t \in Threads, CallSteps(t)
  PROVE  TypeOK'
<1>. USE DEF TypeOK, PC, Goto, Return
<1>0. Main \in Threads /\ Disp \in Threads /\ TerminateTask \in Task
  BY DEF Threads, Task
<1>1. CASE AddLock(t)
  BY <1>0, <1>1 DEF AddLock
<1>2. CASE AddBody(t)
  <2>1. arg[t] \in Task
    BY <1>2 DEF AddBody, TaskInHand
  <2>2. taskList' \in Seq(Task) /\ accepted' \in Seq(Task)
    <3>1. CASE Accepting
      <4>1. Push(arg[t])
        BY <1>2, <3>1 DEF AddBody
      <4>. QED  BY <2>1, <4>1, AppendProperties DEF Push
    <3>2. CASE ~Accepting
      <4>1. UNCHANGED <<taskList, accepted>>
        BY <1>2, <3>2 DEF AddBody
      <4>. QED  BY <4>1
    <3>. QED  BY <3>1, <3>2
  <2>. QED  BY <1>0, <1>2, <2>2 DEF AddBody
<1>3. CASE AddNotify(t)
  BY <1>0, <1>3 DEF AddNotify
<1>4. CASE ShutdownLock(t)
  BY <1>0, <1>4 DEF ShutdownLock
<1>5. CASE ShutdownBody(t)
  <2>1. taskList' \in Seq(Task) /\ accepted' \in Seq(Task)
    BY <1>0, <1>5, AppendProperties DEF ShutdownBody, PushTerminate, Push
  <2>. QED  BY <1>0, <1>5, <2>1 DEF ShutdownBody, PushTerminate
<1>. QED  BY <1>1, <1>2, <1>3, <1>4, <1>5 DEF CallSteps

(* Taking the next task of the batch leaves sequences of tasks. *)
LEMMA NextTaskTypes ==
  ASSUME TypeOK, NEW x \in Task, NextTask(x)
  PROVE  tmpTaskList' \in Seq(Task) /\ handled' \in Seq(Task)
  BY HeadTailProperties, AppendProperties DEF TypeOK, NextTask

(* The steps of the dispatcher thread stay within the types. *)
LEMMA LoopTypes ==
  ASSUME TypeOK, DispatcherLoop
  PROVE  TypeOK'
<1>0. Work \subseteq Task /\ Expiring \subseteq Task /\ Disp \in Threads
      /\ {StopTask, ShutdownTask, TerminateTask} \subseteq Task
  BY DispatcherAssumption DEF Task, Threads
<1>1. CASE CheckState
  BY <1>0, <1>1 DEF CheckState, TypeOK, Goto, PC
<1>2. CASE TakeLock
  BY <1>0, <1>2 DEF TakeLock, TypeOK, Goto, PC
<1>3. CASE Wait
  BY <1>0, <1>3 DEF Wait, TypeOK, Goto, PC
<1>4. CASE Swap
  BY <1>0, <1>4 DEF Swap, SwapLists, TypeOK, Goto, PC
<1>5. CASE EndBatch
  BY <1>0, <1>5 DEF EndBatch, TypeOK, Goto, PC
<1>6. CASE SkipExpired
  BY <1>0, <1>6, NextTaskTypes DEF SkipExpired, TypeOK
<1>7. CASE StartTask
  BY <1>0, <1>7, NextTaskTypes DEF StartTask, TypeOK, Goto, PC
<1>8. CASE StartStopTask
  BY <1>0, <1>8, NextTaskTypes DEF StartStopTask, TypeOK, Goto, PC
<1>9. CASE StartShutdownTask
  BY <1>0, <1>9, NextTaskTypes DEF StartShutdownTask, TypeOK, Goto, PC
<1>10. CASE RunTerminateTask
  BY <1>0, <1>10, NextTaskTypes DEF RunTerminateTask, TypeOK
<1>11. CASE EndTask
  BY <1>0, <1>11 DEF EndTask, TypeOK, Goto, PC
<1>. QED  BY <1>1, <1>2, <1>3, <1>4, <1>5, <1>6, <1>7, <1>8, <1>9, <1>10, <1>11
          DEF DispatcherLoop

(* Every step keeps the types, given the task in hand of a call. *)
LEMMA TypeStep ==
  ASSUME TypeOK, TaskInHand, [Next]_vars
  PROVE  TypeOK'
<1>0. Main \in Threads /\ Disp \in Threads /\ Work \cup {StopTask} \subseteq Task
  BY DEF Threads, Task
<1>1. CASE SpuriousWakeup
  BY <1>0, <1>1 DEF SpuriousWakeup, TypeOK, Goto, PC
<1>2. CASE GoOnline
  BY <1>0, <1>2 DEF GoOnline, TypeOK, Goto, PC
<1>3. CASE StartupFails
  BY <1>0, <1>3 DEF StartupFails, TypeOK, Goto, PC
<1>4. CASE LeaveService
  BY <1>0, <1>4 DEF LeaveService, TypeOK, Goto, PC
<1>5. CASE Join
  BY <1>0, <1>5 DEF Join, TypeOK, Goto, PC
<1>6. ASSUME NEW t \in Threads, NEW x \in Work \cup {StopTask}, AddTask(t, x)
      PROVE  TypeOK'
  BY <1>0, <1>6 DEF AddTask, TypeOK, Goto, PC
<1>7. CASE UNCHANGED vars
  BY <1>7 DEF vars, TypeOK
<1>8. ASSUME NEW t \in Threads, ProducerEnds(t)
      PROVE  TypeOK'
  BY <1>0, <1>8 DEF ProducerEnds, TypeOK, Goto, PC
<1>9. CASE JoinProducers
  BY <1>0, <1>9 DEF JoinProducers, TypeOK, Goto, PC
<1>. QED  BY <1>1, <1>2, <1>3, <1>4, <1>5, <1>6, <1>7, <1>8, <1>9, CallTypes, LoopTypes DEF Next

-----------------------------------------------------------------------------
(* A call keeps the rest of the inductive invariant.  Only AddBody adds to *)
(* the list while the dispatcher thread may be waiting: it then announces  *)
(* a notification, unless an earlier producer still has one to send.       *)
LEMMA CallInvariant ==
  ASSUME IInv, NEW t \in Threads, CallSteps(t)
  PROVE  TaskInHand' /\ BatchUsedUp' /\ NoLostWakeup'
<1>0. Disp \in Threads /\ Threads # {} /\ pc \in [Threads -> PC] /\ lock \in Threads \cup {NoThread}
  BY DEF IInv, TypeOK, Threads
<1>. USE <1>0
<1>1. CASE AddLock(t)
  BY <1>1 DEF AddLock, IInv, TypeOK, Goto, TaskInHand, BatchUsedUp, NoLostWakeup
<1>2. CASE AddBody(t)
  <2>1. pc' = [pc EXCEPT ![t] = pc'[t]] /\ pc[t] = "addBody"
        /\ pc'[t] \in {"addNotify", "exec", "joinProducers", "idle"}
    BY <1>2 DEF AddBody, Goto, Return
  <2>2. TaskInHand'
    BY <1>2, <2>1 DEF AddBody, IInv, TypeOK, TaskInHand
  <2>3. BatchUsedUp'
    BY <1>2, <2>1 DEF AddBody, IInv, BatchUsedUp
  <2>4. NoLostWakeup'
    <3>. SUFFICES ASSUME pc'[Disp] = "waiting", taskList' # <<>>
                  PROVE  \E u \in Threads \ {Disp} : pc'[u] = "addNotify"
      BY DEF NoLostWakeup
    <3>1. t # Disp /\ pc[Disp] = "waiting"
      BY <2>1
    <3>2. CASE taskList # <<>>
      <4>1. PICK u \in Threads \ {Disp} : pc[u] = "addNotify"
        BY <3>1, <3>2 DEF IInv, NoLostWakeup
      <4>2. pc'[u] = "addNotify"
        BY <2>1, <4>1
      <4>. QED  BY <4>2
    <3>3. CASE taskList = <<>>
      <4>1. pc'[t] = "addNotify"
        BY <1>2, <3>3, <2>1 DEF AddBody, Goto, DoSignal
      <4>. QED  BY <3>1, <4>1
    <3>. QED  BY <3>2, <3>3
  <2>. QED  BY <2>2, <2>3, <2>4
<1>3. CASE AddNotify(t)
  <2>1. pc'[Disp] # "waiting"
    BY <1>3 DEF AddNotify, Return
  <2>. QED  BY <1>3, <2>1 DEF AddNotify, IInv, TaskInHand, BatchUsedUp, NoLostWakeup, Return
<1>4. CASE ShutdownLock(t)
  BY <1>4 DEF ShutdownLock, IInv, TypeOK, Goto, TaskInHand, BatchUsedUp, NoLostWakeup
<1>5. CASE ShutdownBody(t)
  <2>1. pc'[Disp] # "waiting"
    BY <1>5 DEF ShutdownBody, Return
  <2>. QED  BY <1>5, <2>1 DEF ShutdownBody, IInv, TaskInHand, BatchUsedUp, NoLostWakeup, Return
<1>. QED  BY <1>1, <1>2, <1>3, <1>4, <1>5 DEF CallSteps

(* The loop waits only after it found the list empty under the mutex. *)
LEMMA LoopInvariant ==
  ASSUME IInv, DispatcherLoop
  PROVE  TaskInHand' /\ BatchUsedUp' /\ NoLostWakeup'
<1>0. Disp \in Threads /\ ShutdownTask \in Task
      /\ pc \in [Threads -> PC] /\ arg \in [Threads -> Task \cup {NoTask}]
  BY DEF IInv, TypeOK, Threads, Task
<1>. USE <1>0 DEF IInv, TaskInHand, BatchUsedUp, NoLostWakeup, Goto
<1>1. CASE CheckState
  BY <1>1 DEF CheckState
<1>2. CASE TakeLock
  BY <1>2 DEF TakeLock
<1>3. CASE Wait
  BY <1>3 DEF Wait
<1>4. CASE Swap
  BY <1>4 DEF Swap
<1>5. CASE EndBatch
  BY <1>5 DEF EndBatch
<1>6. CASE SkipExpired
  BY <1>6 DEF SkipExpired, NextTask
<1>7. CASE StartTask
  BY <1>7 DEF StartTask, NextTask
<1>8. CASE StartStopTask
  BY <1>8 DEF StartStopTask, NextTask
<1>9. CASE StartShutdownTask
  BY <1>9 DEF StartShutdownTask, NextTask
<1>10. CASE RunTerminateTask
  BY <1>10 DEF RunTerminateTask, NextTask
<1>11. CASE EndTask
  BY <1>11 DEF EndTask
<1>. QED  BY <1>1, <1>2, <1>3, <1>4, <1>5, <1>6, <1>7, <1>8, <1>9, <1>10, <1>11
          DEF DispatcherLoop

(* The inductive invariant is kept by every step. *)
LEMMA InvariantStep ==
  ASSUME IInv, [Next]_vars
  PROVE  IInv'
<1>0. /\ Disp \in Threads /\ Main \in Threads /\ Main # Disp
      /\ pc \in [Threads -> PC] /\ arg \in [Threads -> Task \cup {NoTask}]
      /\ Work \cup {StopTask} \subseteq Task
  BY DispatcherAssumption DEF IInv, TypeOK, Threads, Task
<1>1. TypeOK'
  BY TypeStep DEF IInv
<1>2. TaskInHand' /\ BatchUsedUp' /\ NoLostWakeup'
  <2>. USE <1>0 DEF IInv, TaskInHand, BatchUsedUp, NoLostWakeup, Goto
  <2>1. CASE SpuriousWakeup
    BY <2>1 DEF SpuriousWakeup
  <2>2. CASE GoOnline
    BY <2>2 DEF GoOnline
  <2>3. CASE StartupFails
    BY <2>3 DEF StartupFails
  <2>4. CASE LeaveService
    BY <2>4 DEF LeaveService
  <2>5. CASE Join
    BY <2>5 DEF Join
  <2>6. ASSUME NEW t \in Threads, NEW x \in Work \cup {StopTask}, AddTask(t, x)
        PROVE  TaskInHand' /\ BatchUsedUp' /\ NoLostWakeup'
    BY <2>6 DEF AddTask
  <2>7. CASE UNCHANGED vars
    BY <2>7 DEF vars
  <2>8. ASSUME NEW t \in Threads, ProducerEnds(t)
        PROVE  TaskInHand' /\ BatchUsedUp' /\ NoLostWakeup'
    <3>1. t # Disp
      BY <2>8, DispatcherAssumption DEF ProducerEnds
    <3>. QED  BY <2>8, <3>1 DEF ProducerEnds
  <2>9. CASE JoinProducers
    BY <2>9 DEF JoinProducers
  <2>. QED  BY <2>1, <2>2, <2>3, <2>4, <2>5, <2>6, <2>7, <2>8, <2>9, CallInvariant, LoopInvariant DEF Next
<1>. QED  BY <1>1, <1>2 DEF IInv

(* The inductive invariant holds when main() has started the dispatcher. *)
LEMMA InitInvariant == Init => IInv
<1>. SUFFICES ASSUME Init PROVE IInv
  OBVIOUS
<1>1. TypeOK
  BY EmptySeq DEF Init, TypeOK, Threads, PC
<1>2. TaskInHand /\ BatchUsedUp /\ NoLostWakeup
  BY DEF Init, TaskInHand, BatchUsedUp, NoLostWakeup, Threads
<1>. QED  BY <1>1, <1>2 DEF IInv

(* The inductive invariant holds in every reachable state. *)
THEOREM Invariant == Spec => []IInv
BY InitInvariant, InvariantStep, PTL DEF Spec

(* Type correctness, for any threads and any tasks. *)
THEOREM TypeCorrect == Spec => []TypeOK
BY Invariant, PTL DEF IInv

(* The dispatcher thread never waits on a non-empty list without a notification *)
(* to come (tasks.cpp, addTask against threadMain).                             *)
THEOREM WakeupsAreNotLost == Spec => []NoLostWakeup
BY Invariant, PTL DEF IInv

-----------------------------------------------------------------------------
(* A push accepts a task; what the clients see as queue grows at its end. *)
LEMMA PushAccepts ==
  ASSUME TypeOK, NEW x \in Task, Push(x), UNCHANGED <<tmpTaskList, handled>>
  PROVE  Queue!QNext
<1>1. Pending' = Append(Pending, x)
  BY AppendToConcat DEF TypeOK, Push, Pending
<1>. QED  BY <1>1 DEF Queue!QNext, Queue!Accept

(* Taking the head of the batch handles the head of the queue. *)
LEMMA NextTaskHandles ==
  ASSUME TypeOK, NEW x \in Task, NextTask(x), UNCHANGED taskList
  PROVE  Queue!QNext
<1>1. Pending # <<>> /\ Head(Pending) = Head(tmpTaskList)
      /\ Tail(Pending) = Tail(tmpTaskList) \o taskList
  BY HeadTailOfConcat DEF TypeOK, NextTask, Pending
<1>2. Pending' = Tail(Pending) /\ handled' = Append(handled, Head(Pending))
  BY <1>1 DEF NextTask, Pending
<1>. QED  BY <1>1, <1>2 DEF Queue!QNext, Queue!Handle

(* Every step of the dispatcher is a step of the queue, or none. *)
LEMMA QueueStep ==
  ASSUME IInv, [Next]_vars
  PROVE  [Queue!QNext]_Queue!qvars
<1>0. /\ TypeOK
      /\ Work \subseteq Task /\ Expiring \subseteq Task
      /\ {StopTask, ShutdownTask, TerminateTask} \subseteq Task
  BY DispatcherAssumption DEF IInv, Task
<1>1. SUFFICES ASSUME ~ UNCHANGED <<tmpTaskList, taskList, handled>>
      PROVE  Queue!QNext \/ UNCHANGED <<Pending, handled>>
  BY DEF Queue!qvars, Pending
<1>2. ASSUME NEW t \in Threads, CallSteps(t)
      PROVE  Queue!QNext
  <2>1. CASE AddBody(t)
    <3>1. arg[t] \in Task
      BY <2>1 DEF IInv, TaskInHand, AddBody
    <3>2. Push(arg[t]) /\ UNCHANGED <<tmpTaskList, handled>>
      BY <1>1, <2>1 DEF AddBody
    <3>. QED  BY <1>0, <3>1, <3>2, PushAccepts
  <2>2. CASE ShutdownBody(t)
    BY <1>0, <2>2, PushAccepts DEF ShutdownBody, PushTerminate
  <2>. QED  BY <1>1, <1>2, <2>1, <2>2 DEF CallSteps, AddLock, AddNotify, ShutdownLock
<1>3. CASE Swap
  <2>1. tmpTaskList = <<>>
    BY <1>3 DEF Swap, IInv, BatchUsedUp
  <2>2. Pending = taskList /\ Pending' = taskList
    BY <1>0, <1>3, <2>1, ConcatEmptySeq DEF Swap, SwapLists, Pending, TypeOK
  <2>. QED  BY <1>3, <2>2 DEF Swap
<1>4. ASSUME NEW x \in Task, NextTask(x), UNCHANGED taskList
      PROVE  Queue!QNext
  BY <1>0, <1>4, NextTaskHandles
<1>5. CASE DispatcherLoop
  BY <1>0, <1>1, <1>3, <1>4, <1>5
     DEF DispatcherLoop, CheckState, TakeLock, Wait, EndBatch, SkipExpired, StartTask,
         StartStopTask, StartShutdownTask, RunTerminateTask, EndTask
<1>. QED
  BY <1>1, <1>2, <1>5
     DEF Next, SpuriousWakeup, GoOnline, StartupFails, LeaveService, ProducerEnds,
         JoinProducers, Join, AddTask, vars

(* The queue that the clients see is empty at first. *)
LEMMA QueueInit == Init => Queue!QInit
<1>. SUFFICES ASSUME Init PROVE Pending = <<>> /\ handled = <<>>
  BY DEF Queue!QInit
<1>. QED  BY EmptySeq, ConcatEmptySeq DEF Init, Pending

(* The dispatcher implements TaskQueue: each accepted task is handled once, in *)
(* the order of acceptance, for any number of producers, tasks and batches.    *)
THEOREM DispatcherImplementsTaskQueue == Spec => ImplementsTaskQueue
BY Invariant, QueueInit, QueueStep, PTL DEF Spec, ImplementsTaskQueue, Queue!QSpec
-----------------------------------------------------------------------------
(* Nothing is dropped at an orderly shutdown, because three tasks come after *)
(* each other: the one that calls setGameState, Game::shutdown that it adds, *)
(* and the task that ends the thread, which is the last one ever accepted.   *)

ClosingTask == {StopTask, ShutdownTask, TerminateTask}

HasAccepted(x) == \E i \in 1 .. Len(accepted) : accepted[i] = x
HasHandled(x) == \E i \in 1 .. Len(handled) : accepted[i] = x

(* What was accepted is what was handled, then what is pending, in order. *)
HandledInOrder == accepted = handled \o Pending

(* No closing task is accepted twice. *)
OnceEach ==
  \A i, j \in 1 .. Len(accepted) :
    (accepted[i] \in ClosingTask /\ accepted[j] = accepted[i]) => i = j

TerminateLast ==
  \A i \in 1 .. Len(accepted) : accepted[i] = TerminateTask => i = Len(accepted)

(* A closing task in the hand of a thread was not accepted before. *)
ClosingInHand ==
  \A t \in Threads :
    /\ arg[t] # TerminateTask
    /\ arg[t] = StopTask => t = Main /\ StopTask \in created /\ ~HasAccepted(StopTask)
    /\ arg[t] = ShutdownTask => t = Disp /\ current = StopTask /\ ~HasAccepted(ShutdownTask)
                                   /\ pc[Disp] \in {"addLock", "addBody"}
    /\ pc[t] \in {"shutLock", "shutBody"} =>
         t = Disp /\ current = ShutdownTask /\ ~HasAccepted(TerminateTask)

(* Each closing task is accepted after the one before it was handled, and   *)
(* the thread state follows.                                                *)
ClosingChain ==
  /\ HasAccepted(StopTask) => StopTask \in created
  /\ HasAccepted(ShutdownTask) => HasHandled(StopTask)
  /\ HasAccepted(TerminateTask) => HasHandled(ShutdownTask)
  /\ current \in {StopTask, ShutdownTask} => HasHandled(current)
  /\ current = StopTask => ~HasHandled(ShutdownTask)
  /\ HasHandled(StopTask) => current = StopTask \/ threadState # "RUNNING"
  /\ threadState = "TERMINATED" => HasHandled(TerminateTask)
  /\ current # NoTask =>
       pc[Disp] \in {"exec", "addLock", "addBody", "addNotify", "shutLock", "shutBody"}

(* When loading failed, main() ends the dispatcher without asking. *)
OrderlyClosing ==
  startup # "failed" => OnceEach /\ TerminateLast /\ ClosingInHand /\ ClosingChain

ThreadsLeaveInOrder ==
  /\ pc[Main] = "boot" => startup = "loading"
  /\ pc[Main] = "joined" => pc[Disp] = "exited"
  /\ pc[Disp] = "exited" => threadState = "TERMINATED"

ClosingInv == HandledInOrder /\ OrderlyClosing /\ ThreadsLeaveInOrder

(* The handled tasks are the first of the accepted ones. *)
LEMMA HandledPrefix ==
  ASSUME TypeOK, HandledInOrder
  PROVE  /\ Len(handled) \in Nat /\ Len(accepted) \in Nat /\ Len(Pending) \in Nat
         /\ Pending \in Seq(Task)
         /\ Len(accepted) = Len(handled) + Len(Pending)
         /\ \A i \in 1 .. Len(Pending) : accepted[Len(handled) + i] = Pending[i]
         /\ \A x : HasHandled(x) => HasAccepted(x)
<1>1. Pending \in Seq(Task)
  BY ConcatProperties DEF TypeOK, Pending
<1>2. /\ Len(handled) \in Nat /\ Len(accepted) \in Nat /\ Len(Pending) \in Nat
      /\ Len(accepted) = Len(handled) + Len(Pending)
      /\ \A i \in 1 .. Len(handled) + Len(Pending) :
           accepted[i] = IF i <= Len(handled) THEN handled[i] ELSE Pending[i - Len(handled)]
  BY <1>1, ConcatProperties, LenProperties DEF TypeOK, HandledInOrder
<1>3. ASSUME NEW i \in 1 .. Len(Pending)
      PROVE  accepted[Len(handled) + i] = Pending[i]
  <2>1. Len(handled) + i \in 1 .. Len(handled) + Len(Pending) /\ ~(Len(handled) + i <= Len(handled))
        /\ (Len(handled) + i) - Len(handled) = i
    BY <1>2
  <2>. QED  BY <1>2, <2>1
<1>4. ASSUME NEW x, HasHandled(x)
      PROVE  HasAccepted(x)
  BY <1>2, <1>4 DEF HasHandled, HasAccepted
<1>. QED  BY <1>1, <1>2, <1>3, <1>4
(* A push adds its task to the accepted ones and handles none. *)
LEMMA PushAdds ==
  ASSUME TypeOK, HandledInOrder, NEW x \in Task, Push(x), UNCHANGED <<tmpTaskList, handled>>
  PROVE  /\ HandledInOrder'
         /\ \A y : HasAccepted(y)' <=> HasAccepted(y) \/ y = x
         /\ \A y : HasHandled(y)' <=> HasHandled(y)
         /\ OnceEach /\ (x \in ClosingTask => ~HasAccepted(x)) => OnceEach'
         /\ TerminateLast /\ ~HasAccepted(TerminateTask) => TerminateLast'
<1>1. Pending' = Append(Pending, x)
  BY AppendToConcat DEF TypeOK, Push, Pending
<1>2. HandledInOrder'
  <2>1. handled \in Seq(Task) /\ Pending \in Seq(Task)
    BY HandledPrefix DEF TypeOK
  <2>2. handled \o Append(Pending, x) = Append(handled \o Pending, x)
    BY <2>1, AppendToConcat
  <2>. QED  BY <1>1, <2>2 DEF HandledInOrder, Push
<1>3. /\ Len(accepted) \in Nat /\ Len(accepted') = Len(accepted) + 1
      /\ accepted'[Len(accepted) + 1] = x
      /\ \A i \in 1 .. Len(accepted) : accepted'[i] = accepted[i]
      /\ Len(handled) \in 0 .. Len(accepted) /\ handled' = handled
  BY AppendProperties, HandledPrefix DEF TypeOK, Push
<1>4. \A y : HasAccepted(y)' <=> HasAccepted(y) \/ y = x
  BY <1>3 DEF HasAccepted
<1>5. \A y : HasHandled(y)' <=> HasHandled(y)
  BY <1>3 DEF HasHandled
<1>6. ASSUME OnceEach, x \in ClosingTask => ~HasAccepted(x)
      PROVE  OnceEach'
  BY <1>3, <1>6 DEF OnceEach, HasAccepted, ClosingTask
<1>7. ASSUME TerminateLast, ~HasAccepted(TerminateTask)
      PROVE  TerminateLast'
  BY <1>3, <1>7 DEF TerminateLast, HasAccepted
<1>. QED  BY <1>2, <1>4, <1>5, <1>6, <1>7

(* The next task of the batch is the first accepted one that is not handled. *)
LEMMA NextTaskIsNext ==
  ASSUME TypeOK, HandledInOrder, NEW x \in Task, NextTask(x), UNCHANGED <<taskList, accepted>>
  PROVE  /\ HandledInOrder'
         /\ HasAccepted(x)
         /\ \A y : HasHandled(y)' <=> HasHandled(y) \/ y = x
         /\ OnceEach /\ x \in ClosingTask => ~HasHandled(x)
<1>1. Pending # <<>> /\ x = Head(Pending) /\ Pending' = Tail(Pending) /\ Pending \in Seq(Task)
  BY HeadTailOfConcat, HandledPrefix DEF TypeOK, NextTask, Pending
<1>2. /\ Len(Pending) \in Nat \ {0} /\ Len(handled) \in Nat
      /\ Len(accepted) = Len(handled) + Len(Pending)
      /\ Len(handled') = Len(handled) + 1
      /\ x = accepted[Len(handled) + 1]
  <2>1. Pending[1] = accepted[Len(handled) + 1] /\ Len(Pending) \in Nat \ {0}
    BY <1>1, HandledPrefix, EmptySeq, LenProperties
  <2>2. x = Pending[1]
    BY <1>1
  <2>. QED  BY <2>1, <2>2, HandledPrefix, AppendProperties DEF TypeOK, NextTask
<1>3. HandledInOrder'
  <2>1. accepted' \in Seq(Task) /\ (handled' \o Pending') \in Seq(Task)
    BY <1>1, AppendProperties, HeadTailProperties, ConcatProperties DEF TypeOK, NextTask
  <2>2. handled' \o Pending' = handled \o Pending
    <3>1. handled' = handled \o <<x>> /\ <<x>> \in Seq(Task) /\ Pending' \in Seq(Task)
      BY <1>1, AppendIsConcat, HeadTailProperties DEF TypeOK, NextTask
    <3>2. handled' \o Pending' = handled \o (<<x>> \o Pending')
      BY <3>1, ConcatAssociative DEF TypeOK
    <3>3. <<x>> \o Pending' = Pending
      BY <1>1, <3>1, HeadTailProperties
    <3>. QED  BY <3>2, <3>3
  <2>. QED  BY <2>2 DEF HandledInOrder
<1>4. HasAccepted(x)
  BY <1>2 DEF HasAccepted
<1>5. \A y : HasHandled(y)' <=> HasHandled(y) \/ y = x
  BY <1>2 DEF HasHandled
<1>6. ASSUME OnceEach, x \in ClosingTask
      PROVE  ~HasHandled(x)
  BY <1>2, <1>6 DEF OnceEach, HasHandled
<1>. QED  BY <1>3, <1>4, <1>5, <1>6
(* A step that leaves both histories alone keeps what was said of them. *)
LEMMA HistoriesAlone ==
  ASSUME UNCHANGED <<taskList, tmpTaskList, accepted, handled>>
  PROVE  /\ HandledInOrder' <=> HandledInOrder
         /\ \A y : HasAccepted(y)' <=> HasAccepted(y)
         /\ \A y : HasHandled(y)' <=> HasHandled(y)
         /\ OnceEach' <=> OnceEach
         /\ TerminateLast' <=> TerminateLast
BY DEF HandledInOrder, Pending, HasAccepted, HasHandled, OnceEach, TerminateLast

(* A step of a call keeps the order in which the closing tasks come. *)
LEMMA CallCloses ==
  ASSUME IInv, ClosingInv, NEW t \in Threads, CallSteps(t)
  PROVE  ClosingInv'
<1>0. /\ TypeOK /\ HandledInOrder /\ Disp \in Threads /\ Main \in Threads /\ Main # Disp
      /\ pc \in [Threads -> PC] /\ arg \in [Threads -> Task \cup {NoTask}]
      /\ \A x : HasHandled(x) => HasAccepted(x)
      /\ {StopTask, ShutdownTask, TerminateTask} \subseteq Task
      /\ NoTask \notin {StopTask, ShutdownTask, TerminateTask}
      /\ StopTask # ShutdownTask /\ StopTask # TerminateTask /\ ShutdownTask # TerminateTask
  BY HandledPrefix, DispatcherAssumption DEF IInv, TypeOK, ClosingInv, Threads, Task
<1>. USE <1>0
<1>1. CASE AddLock(t) \/ AddNotify(t) \/ ShutdownLock(t)
  <2>1. UNCHANGED <<taskList, tmpTaskList, accepted, handled, arg, current, created, startup, threadState>>
    BY <1>1 DEF AddLock, AddNotify, ShutdownLock
  <2>2. /\ pc'[Main] = "joined" => pc[Main] = "joined"
        /\ pc'[Main] = "boot" => pc[Main] = "boot"
        /\ pc'[Disp] = "exited" <=> pc[Disp] = "exited"
    BY <1>1 DEF AddLock, AddNotify, ShutdownLock, Goto, Return
  <2>3. ASSUME startup # "failed", ClosingInHand, ClosingChain
        PROVE  ClosingInHand' /\ ClosingChain'
    BY <1>1, <2>1, <2>3, HistoriesAlone
       DEF ClosingInHand, ClosingChain, AddLock, AddNotify, ShutdownLock, Goto, Return
  <2>. QED  BY <2>1, <2>2, <2>3, HistoriesAlone DEF ClosingInv, OrderlyClosing, ThreadsLeaveInOrder
<1>2. CASE AddBody(t)
  <2>1. /\ \A u \in Threads \ {t} : pc'[u] = pc[u]
        /\ pc[t] = "addBody"
        /\ pc'[t] \in {"addNotify", "exec", "joinProducers", "idle"}
        /\ t = Disp => pc'[t] \in {"addNotify", "exec"}
    BY <1>2 DEF AddBody, Goto, Return
  <2>2. /\ arg' = [arg EXCEPT ![t] = NoTask] /\ arg[t] \in Task
        /\ UNCHANGED <<threadState, tmpTaskList, current, created, startup, handled>>
    BY <1>2 DEF AddBody, IInv, TaskInHand
  <2>3. ThreadsLeaveInOrder'
    BY <2>1, <2>2 DEF ClosingInv, ThreadsLeaveInOrder
  <2>4. CASE Accepting
    <3>1. Push(arg[t]) /\ threadState = "RUNNING"
      BY <1>2, <2>4 DEF AddBody, Accepting
    <3>2. /\ HandledInOrder'
          /\ \A y : HasAccepted(y)' <=> HasAccepted(y) \/ y = arg[t]
          /\ \A y : HasHandled(y)' <=> HasHandled(y)
          /\ OnceEach /\ (arg[t] \in ClosingTask => ~HasAccepted(arg[t])) => OnceEach'
          /\ TerminateLast /\ ~HasAccepted(TerminateTask) => TerminateLast'
      BY <2>2, <3>1, PushAdds
    <3>3. ASSUME startup # "failed", OnceEach, TerminateLast, ClosingInHand, ClosingChain
          PROVE  OnceEach' /\ TerminateLast' /\ ClosingInHand' /\ ClosingChain'
      <4>1. arg[t] # TerminateTask /\ ~HasAccepted(TerminateTask)
            /\ (arg[t] \in ClosingTask => ~HasAccepted(arg[t]))
        <5>1. ~HasHandled(StopTask) \/ current = StopTask
          BY <3>1, <3>3 DEF ClosingChain
        <5>2. ~HasHandled(ShutdownTask)
          BY <3>3, <5>1 DEF ClosingChain
        <5>. QED  BY <3>3, <5>2 DEF ClosingInHand, ClosingChain, ClosingTask
      <4>2. ClosingInHand'
        BY <2>1, <2>2, <3>2, <3>3, <4>1 DEF ClosingInHand
      <4>3. ClosingChain'
        BY <2>1, <2>2, <3>2, <3>3, <4>1 DEF ClosingInHand, ClosingChain
      <4>. QED  BY <3>2, <3>3, <4>1, <4>2, <4>3
    <3>. QED  BY <2>2, <2>3, <3>2, <3>3 DEF ClosingInv, OrderlyClosing
  <2>5. CASE ~Accepting
    <3>1. UNCHANGED <<taskList, accepted>>
      BY <1>2, <2>5 DEF AddBody
    <3>2. ASSUME startup # "failed", ClosingInHand, ClosingChain
          PROVE  ClosingInHand' /\ ClosingChain'
      BY <2>1, <2>2, <3>1, <3>2, HistoriesAlone DEF ClosingInHand, ClosingChain
    <3>. QED  BY <2>2, <2>3, <3>1, <3>2, HistoriesAlone DEF ClosingInv, OrderlyClosing
  <2>. QED  BY <2>4, <2>5
<1>3. CASE ShutdownBody(t)
  <2>1. /\ Push(TerminateTask)
        /\ UNCHANGED <<threadState, tmpTaskList, arg, current, created, startup, handled>>
    BY <1>3 DEF ShutdownBody, PushTerminate
  <2>2. /\ pc[t] = "shutBody" /\ pc' \in [Threads -> PC]
        /\ pc'[t] \in {"exec", "joinProducers", "idle"}
        /\ pc'[Disp] = "exited" <=> pc[Disp] = "exited"
        /\ pc'[Main] = "joined" <=> pc[Main] = "joined"
        /\ pc'[Main] = "boot" => pc[Main] = "boot"
        /\ \A u \in Threads : pc'[u] \in {"shutLock", "shutBody"} => pc[u] = pc'[u] /\ u # t
        /\ t = Disp => pc'[Disp] = "exec"
    BY <1>3 DEF ShutdownBody, Return, PC
  <2>3. /\ HandledInOrder'
        /\ \A y : HasAccepted(y)' <=> HasAccepted(y) \/ y = TerminateTask
        /\ \A y : HasHandled(y)' <=> HasHandled(y)
        /\ OnceEach /\ ~HasAccepted(TerminateTask) => OnceEach'
        /\ TerminateLast /\ ~HasAccepted(TerminateTask) => TerminateLast'
    BY <2>1, PushAdds
  <2>4. ThreadsLeaveInOrder'
    BY <2>1, <2>2 DEF ClosingInv, ThreadsLeaveInOrder
  <2>5. ASSUME startup # "failed", OnceEach, TerminateLast, ClosingInHand, ClosingChain
        PROVE  OnceEach' /\ TerminateLast' /\ ClosingInHand' /\ ClosingChain'
    <3>1. t = Disp /\ current = ShutdownTask /\ ~HasAccepted(TerminateTask)
      BY <2>2, <2>5 DEF ClosingInHand
    <3>2. ClosingInHand'
      BY <2>1, <2>2, <2>3, <2>5, <3>1 DEF ClosingInHand
    <3>3. ClosingChain'
      BY <2>1, <2>2, <2>3, <2>5, <3>1 DEF ClosingChain
    <3>. QED  BY <2>3, <2>5, <3>1, <3>2, <3>3
  <2>. QED  BY <2>1, <2>3, <2>4, <2>5 DEF ClosingInv, OrderlyClosing
<1>. QED  BY <1>1, <1>2, <1>3 DEF CallSteps
(* The next task of the batch.  A closing task is handled before the next   *)
(* one is accepted; after the last one nothing is left.                     *)
LEMMA NextTaskCloses ==
  ASSUME IInv, ClosingInv, NEW x \in Task, NextTask(x), startup # "failed"
  PROVE  /\ current = NoTask
         /\ HasHandled(StopTask) => threadState # "RUNNING"
         /\ x = StopTask => ~HasAccepted(ShutdownTask)
         /\ x = ShutdownTask => ~HasAccepted(TerminateTask) /\ threadState # "RUNNING"
         /\ threadState # "TERMINATED"
<1>0. /\ TypeOK /\ HandledInOrder /\ \A y : HasHandled(y) => HasAccepted(y)
      /\ OnceEach /\ TerminateLast /\ ClosingChain
  BY HandledPrefix DEF IInv, ClosingInv, OrderlyClosing
<1>1. pc[Disp] = "run"
  BY DEF NextTask
<1>2. current = NoTask /\ (HasHandled(StopTask) => threadState # "RUNNING")
  <2>1. current = NoTask
    BY <1>0, <1>1 DEF ClosingChain
  <2>2. StopTask # NoTask
    BY DispatcherAssumption DEF Task
  <2>. QED  BY <1>0, <2>1, <2>2 DEF ClosingChain
<1>3. Len(Pending) >= 1 /\ accepted[Len(handled) + 1] = x
  <2>1. Pending # <<>> /\ Head(Pending) = x /\ Pending \in Seq(Task)
    BY <1>0, HeadTailOfConcat, HandledPrefix DEF TypeOK, NextTask, Pending
  <2>. QED  BY <1>0, <2>1, HandledPrefix, EmptySeq, LenProperties
<1>4. x \in ClosingTask => ~HasHandled(x)
  BY <1>0, <1>3, HandledPrefix DEF OnceEach, HasHandled
<1>5. threadState # "TERMINATED"
  BY <1>0, <1>3, HandledPrefix DEF ClosingChain, HasHandled, TerminateLast
<1>6. HasAccepted(x)
  BY <1>0, <1>3, HandledPrefix DEF HasAccepted
<1>. QED  BY <1>0, <1>2, <1>4, <1>5, <1>6 DEF ClosingChain, ClosingTask

(* A step of the loop keeps the order in which the closing tasks come. *)
LEMMA LoopCloses ==
  ASSUME IInv, ClosingInv, DispatcherLoop
  PROVE  ClosingInv'
<1>0. /\ TypeOK /\ HandledInOrder /\ Disp \in Threads /\ Main \in Threads /\ Main # Disp
      /\ pc \in [Threads -> PC] /\ arg \in [Threads -> Task \cup {NoTask}]
      /\ \A x : HasHandled(x) => HasAccepted(x)
      /\ {StopTask, ShutdownTask, TerminateTask} \subseteq Task
      /\ Work \subseteq Task /\ Expiring \subseteq Work
      /\ Work \cap {NoTask, StopTask, ShutdownTask, TerminateTask} = {}
      /\ NoTask \notin {StopTask, ShutdownTask, TerminateTask}
      /\ StopTask # ShutdownTask /\ StopTask # TerminateTask /\ ShutdownTask # TerminateTask
  BY HandledPrefix, DispatcherAssumption DEF IInv, TypeOK, ClosingInv, Threads, Task
<1>. USE <1>0
<1>1. CASE CheckState \/ TakeLock \/ Wait \/ EndBatch
  <2>1. UNCHANGED <<taskList, tmpTaskList, accepted, handled, arg, current, created, startup, threadState>>
    BY <1>1 DEF CheckState, TakeLock, Wait, EndBatch
  <2>2. /\ pc[Disp] \in {"check", "lock", "relock", "test", "run"}
        /\ pc'[Disp] \in {"exited", "lock", "test", "swap", "waiting", "check"}
        /\ pc'[Disp] = "exited" => threadState = "TERMINATED"
        /\ \A u \in Threads \ {Disp} : pc'[u] = pc[u]
    BY <1>1 DEF CheckState, TakeLock, Wait, EndBatch, Goto
  <2>3. ThreadsLeaveInOrder'
    BY <2>1, <2>2 DEF ClosingInv, ThreadsLeaveInOrder
  <2>4. ASSUME startup # "failed", ClosingInHand, ClosingChain
        PROVE  ClosingInHand' /\ ClosingChain'
    BY <2>1, <2>2, <2>4, HistoriesAlone DEF ClosingInHand, ClosingChain
  <2>. QED  BY <2>1, <2>3, <2>4, HistoriesAlone DEF ClosingInv, OrderlyClosing
<1>2. CASE Swap
  <2>1. UNCHANGED <<accepted, handled, arg, current, created, startup, threadState>>
    BY <1>2 DEF Swap
  <2>2. Pending' = Pending
    <3>1. tmpTaskList = <<>>
      BY <1>2 DEF Swap, IInv, BatchUsedUp
    <3>. QED  BY <1>2, <3>1, ConcatEmptySeq DEF Swap, SwapLists, Pending, TypeOK
  <2>3. /\ pc[Disp] \in {"test", "swap"} /\ pc'[Disp] = "run"
        /\ \A u \in Threads \ {Disp} : pc'[u] = pc[u]
    BY <1>2 DEF Swap, Goto
  <2>4. ThreadsLeaveInOrder'
    BY <2>1, <2>3 DEF ClosingInv, ThreadsLeaveInOrder
  <2>5. /\ HandledInOrder'
        /\ \A y : (HasAccepted(y)' <=> HasAccepted(y)) /\ (HasHandled(y)' <=> HasHandled(y))
        /\ (OnceEach' <=> OnceEach) /\ (TerminateLast' <=> TerminateLast)
    BY <2>1, <2>2 DEF HandledInOrder, HasAccepted, HasHandled, OnceEach, TerminateLast
  <2>6. ASSUME startup # "failed", ClosingInHand, ClosingChain
        PROVE  ClosingInHand' /\ ClosingChain'
    BY <2>1, <2>3, <2>5, <2>6 DEF ClosingInHand, ClosingChain
  <2>. QED  BY <2>1, <2>4, <2>5, <2>6 DEF ClosingInv, OrderlyClosing
<1>3. CASE EndTask
  <2>1. /\ UNCHANGED <<taskList, tmpTaskList, accepted, handled, arg, created, startup>>
        /\ threadState' = IF current = StopTask THEN "CLOSING" ELSE threadState
        /\ current' = NoTask
    BY <1>3 DEF EndTask
  <2>2. /\ pc[Disp] = "exec" /\ pc'[Disp] = "run"
        /\ \A u \in Threads \ {Disp} : pc'[u] = pc[u]
    BY <1>3 DEF EndTask, Goto
  <2>3. ThreadsLeaveInOrder'
    BY <2>1, <2>2 DEF ClosingInv, ThreadsLeaveInOrder
  <2>4. ASSUME startup # "failed", ClosingInHand, ClosingChain
        PROVE  ClosingInHand' /\ ClosingChain'
    <3>1. ClosingInHand'
      BY <2>1, <2>2, <2>4, HistoriesAlone DEF ClosingInHand
    <3>2. ClosingChain'
      BY <2>1, <2>2, <2>4, HistoriesAlone DEF ClosingChain
    <3>. QED  BY <3>1, <3>2
  <2>. QED  BY <2>1, <2>3, <2>4, HistoriesAlone DEF ClosingInv, OrderlyClosing
<1>4. ASSUME NEW x \in Task, NextTask(x), UNCHANGED <<taskList, accepted, created, startup>>,
             \/ /\ x \in Work /\ UNCHANGED <<threadState, arg>>
                /\ \/ current' = current /\ pc'[Disp] = "run"
                   \/ current' = x /\ pc'[Disp] = "exec"
             \/ /\ x = StopTask /\ UNCHANGED threadState
                /\ current' = x /\ pc'[Disp] = "addLock"
                /\ arg' = [arg EXCEPT ![Disp] = ShutdownTask]
             \/ /\ x = ShutdownTask /\ UNCHANGED <<threadState, arg>>
                /\ current' = x /\ pc'[Disp] = "shutLock"
             \/ /\ x = TerminateTask /\ threadState' = "TERMINATED"
                /\ UNCHANGED <<current, arg>> /\ pc'[Disp] = "run",
             \A u \in Threads \ {Disp} : pc'[u] = pc[u]
      PROVE  ClosingInv'
  <2>1. /\ HandledInOrder' /\ HasAccepted(x)
        /\ \A y : HasHandled(y)' <=> HasHandled(y) \/ y = x
        /\ \A y : HasAccepted(y)' <=> HasAccepted(y)
        /\ (OnceEach' <=> OnceEach) /\ (TerminateLast' <=> TerminateLast)
    BY <1>4, NextTaskIsNext DEF HasAccepted, OnceEach, TerminateLast
  <2>2. pc[Disp] = "run" /\ pc'[Disp] \in {"run", "exec", "addLock", "shutLock"}
    BY <1>4 DEF NextTask
  <2>3. ThreadsLeaveInOrder'
    BY <1>4, <2>2 DEF ClosingInv, ThreadsLeaveInOrder
  <2>4. ASSUME startup # "failed", OnceEach, ClosingInHand, ClosingChain
        PROVE  ClosingInHand' /\ ClosingChain'
    <3>1. /\ current = NoTask
          /\ HasHandled(StopTask) => threadState # "RUNNING"
          /\ x = StopTask => ~HasAccepted(ShutdownTask)
          /\ x = ShutdownTask => ~HasAccepted(TerminateTask) /\ threadState # "RUNNING"
          /\ threadState # "TERMINATED"
      BY <1>4, <2>4, NextTaskCloses
    <3>2. ClosingInHand'
      BY <1>4, <2>1, <2>2, <2>4, <3>1 DEF ClosingInHand
    <3>3. ClosingChain'
      BY <1>4, <2>1, <2>2, <2>4, <3>1 DEF ClosingChain
    <3>. QED  BY <3>2, <3>3
  <2>. QED  BY <1>4, <2>1, <2>3, <2>4 DEF ClosingInv, OrderlyClosing
<1>5. CASE SkipExpired
  BY <1>4, <1>5 DEF SkipExpired, NextTask
<1>6. CASE StartTask
  BY <1>4, <1>6 DEF StartTask, Goto
<1>7. CASE StartStopTask
  BY <1>4, <1>7 DEF StartStopTask, Goto
<1>8. CASE StartShutdownTask
  BY <1>4, <1>8 DEF StartShutdownTask, Goto
<1>9. CASE RunTerminateTask
  BY <1>4, <1>9 DEF RunTerminateTask, NextTask
<1>. QED  BY <1>1, <1>2, <1>3, <1>5, <1>6, <1>7, <1>8, <1>9 DEF DispatcherLoop
(* Every step keeps the order in which the closing tasks come. *)
LEMMA ClosingStep ==
  ASSUME IInv, ClosingInv, [Next]_vars
  PROVE  ClosingInv'
<1>0. /\ Disp \in Threads /\ Main \in Threads /\ Main # Disp
      /\ pc \in [Threads -> PC] /\ arg \in [Threads -> Task \cup {NoTask}]
      /\ StopTask \notin Work /\ ShutdownTask \notin Work \cup {StopTask}
      /\ TerminateTask \notin Work \cup {StopTask, ShutdownTask}
  BY DispatcherAssumption DEF IInv, TypeOK, Threads, Task
<1>. USE <1>0
<1>1. CASE SpuriousWakeup \/ Join \/ JoinProducers \/ LeaveService \/ GoOnline \/ StartupFails
  <2>1. /\ UNCHANGED <<taskList, tmpTaskList, accepted, handled, arg, current, created, threadState>>
        /\ startup' # "failed" => startup # "failed"
    BY <1>1 DEF SpuriousWakeup, Join, JoinProducers, LeaveService, GoOnline, StartupFails,
                ClosingInv, ThreadsLeaveInOrder
  <2>2. ThreadsLeaveInOrder'
    <3>1. /\ pc'[Main] = "joined" => (pc[Disp] = "exited" /\ pc'[Disp] = "exited")
                                   \/ pc'[Main] = pc[Main]
          /\ pc'[Disp] = pc[Disp] \/ (pc[Disp] = "waiting" /\ pc'[Disp] = "relock")
          /\ pc'[Main] = "boot" => pc[Main] = "boot" /\ startup' = startup
      BY <1>1 DEF SpuriousWakeup, Join, JoinProducers, LeaveService, GoOnline, StartupFails, Goto
    <3>. QED  BY <2>1, <3>1 DEF ClosingInv, ThreadsLeaveInOrder
  <2>3. ASSUME startup' # "failed", ClosingInHand, ClosingChain
        PROVE  ClosingInHand' /\ ClosingChain'
    <3>1. \A t \in Threads : /\ pc'[t] # pc[t] => pc'[t] \in {"relock", "joined", "join", "joinProducers", "idle"}
                             /\ t = Disp /\ pc'[t] # pc[t] => pc[t] = "waiting"
      BY <1>1, <2>3 DEF SpuriousWakeup, Join, JoinProducers, LeaveService, GoOnline, StartupFails, Goto
    <3>2. ClosingInHand'
      BY <2>1, <2>3, <3>1, HistoriesAlone DEF ClosingInHand
    <3>3. ClosingChain'
      BY <2>1, <2>3, <3>1, HistoriesAlone DEF ClosingChain
    <3>. QED  BY <3>2, <3>3
  <2>. QED  BY <2>1, <2>2, <2>3, HistoriesAlone DEF ClosingInv, OrderlyClosing
<1>2. ASSUME NEW t \in Threads, NEW x \in Work \cup {StopTask}, AddTask(t, x)
      PROVE  ClosingInv'
  <2>1. /\ UNCHANGED <<taskList, tmpTaskList, accepted, handled, current, startup, threadState>>
        /\ created' = created \cup {x} /\ x \notin created
        /\ arg' = [arg EXCEPT ![t] = x] /\ (x = StopTask => t = Main)
        /\ pc[t] \in {"idle", "exec"} /\ pc'[t] = "addLock"
        /\ \A u \in Threads \ {t} : pc'[u] = pc[u]
    BY <1>2 DEF AddTask, Goto
  <2>2. ThreadsLeaveInOrder'
    BY <2>1 DEF ClosingInv, ThreadsLeaveInOrder
  <2>3. ASSUME startup # "failed", ClosingInHand, ClosingChain
        PROVE  ClosingInHand' /\ ClosingChain'
    <3>1. ClosingInHand'
      BY <2>1, <2>3, HistoriesAlone DEF ClosingInHand, ClosingChain
    <3>2. ClosingChain'
      BY <2>1, <2>3, HistoriesAlone DEF ClosingChain
    <3>. QED  BY <3>1, <3>2
  <2>. QED  BY <2>1, <2>2, <2>3, HistoriesAlone DEF ClosingInv, OrderlyClosing
<1>3. ASSUME NEW t \in Threads, ProducerEnds(t)
      PROVE  ClosingInv'
  <2>1. /\ UNCHANGED <<taskList, tmpTaskList, accepted, handled, arg, current, created, startup,
                       threadState>>
        /\ t \notin {Main, Disp} /\ pc'[t] = "exited"
        /\ \A u \in Threads \ {t} : pc'[u] = pc[u]
    BY <1>3, DispatcherAssumption DEF ProducerEnds, Goto
  <2>2. ThreadsLeaveInOrder'
    BY <2>1 DEF ClosingInv, ThreadsLeaveInOrder
  <2>3. ASSUME startup # "failed", ClosingInHand, ClosingChain
        PROVE  ClosingInHand' /\ ClosingChain'
    BY <2>1, <2>3, HistoriesAlone DEF ClosingInHand, ClosingChain
  <2>. QED  BY <2>1, <2>2, <2>3, HistoriesAlone DEF ClosingInv, OrderlyClosing
<1>4. CASE UNCHANGED vars
  BY <1>4, HistoriesAlone
     DEF vars, ClosingInv, OrderlyClosing, ThreadsLeaveInOrder, ClosingInHand, ClosingChain
<1>. QED  BY <1>1, <1>2, <1>3, <1>4, CallCloses, LoopCloses DEF Next

LEMMA ClosingInit == Init => ClosingInv
<1>. SUFFICES ASSUME Init PROVE ClosingInv
  OBVIOUS
<1>1. Len(accepted) = 0 /\ Len(handled) = 0
  BY EmptySeq DEF Init
<1>2. HandledInOrder
  BY EmptySeq, ConcatEmptySeq DEF Init, HandledInOrder, Pending
<1>3. \A x : ~HasAccepted(x) /\ ~HasHandled(x)
  BY <1>1 DEF HasAccepted, HasHandled
<1>4. OnceEach /\ TerminateLast
  BY <1>1 DEF OnceEach, TerminateLast
<1>5. ClosingInHand /\ ClosingChain /\ ThreadsLeaveInOrder
  BY <1>3, DispatcherAssumption
     DEF Init, ClosingInHand, ClosingChain, ThreadsLeaveInOrder, Threads, Task
<1>. QED  BY <1>2, <1>4, <1>5 DEF ClosingInv, OrderlyClosing

(* When main() has joined the thread, everything was handled. *)
LEMMA ClosingMeansHandled ==
  ASSUME IInv, ClosingInv
  PROVE  NothingDropped
<1>. SUFFICES ASSUME pc[Main] = "joined", startup = "online"
              PROVE  handled = accepted
  BY DEF NothingDropped
<1>1. /\ TypeOK /\ HandledInOrder /\ TerminateLast /\ ClosingChain
      /\ threadState = "TERMINATED"
  BY DEF IInv, ClosingInv, OrderlyClosing, ThreadsLeaveInOrder
<1>2. Len(Pending) = 0
  BY <1>1, HandledPrefix DEF ClosingChain, HasHandled, TerminateLast
<1>3. Pending = <<>>
  BY <1>1, <1>2, HandledPrefix, EmptySeq
<1>. QED  BY <1>1, <1>3, ConcatEmptySeq DEF HandledInOrder, TypeOK

(* After an orderly shutdown no task that addTask accepted is left (game.cpp, *)
(* setGameState and Game::shutdown against tasks.cpp), for any threads and    *)
(* any tasks.                                                                 *)
THEOREM NothingIsDropped == Spec => []NothingDropped
<1>1. Init => IInv /\ ClosingInv
  BY InitInvariant, ClosingInit
<1>2. IInv /\ ClosingInv /\ [Next]_vars => (IInv /\ ClosingInv)'
  BY InvariantStep, ClosingStep
<1>3. IInv /\ ClosingInv => NothingDropped
  BY ClosingMeansHandled
<1>. QED  BY <1>1, <1>2, <1>3, PTL DEF Spec
=============================================================================
