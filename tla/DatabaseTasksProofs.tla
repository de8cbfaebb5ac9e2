------------------------- MODULE DatabaseTasksProofs -------------------------
(***************************************************************************)
(* For any set of queries: each accepted query is executed once, by one of *)
(* the two threads, and overtaken only by one that the other thread had in *)
(* hand.                                                                   *)
(***************************************************************************)
EXTENDS DatabaseTasks, SequenceTheorems, TLAPS

-----------------------------------------------------------------------------
(* The elements of a list that grows at its end and shrinks at its front.   *)

LEMMA AppendElements ==
  ASSUME NEW s \in Seq(Query), NEW q \in Query
  PROVE  /\ Append(s, q) \in Seq(Query)
         /\ Elements(Append(s, q)) = Elements(s) \cup {q}
         /\ Distinct(s) /\ q \notin Elements(s) => Distinct(Append(s, q))
<1>. DEFINE u == Append(s, q)
            n == Len(s) + 1
<1>1. /\ Len(s) \in Nat /\ DOMAIN s = 1 .. Len(s) /\ u \in Seq(Query) /\ Len(u) = n
      /\ u[n] = q /\ \A i \in 1 .. Len(s) : u[i] = s[i]
  BY LenProperties, AppendProperties
<1>2. DOMAIN u = 1 .. n
  BY <1>1, LenProperties
<1>. HIDE DEF u
<1>3. Elements(u) = Elements(s) \cup {q}
  BY <1>1, <1>2 DEF Elements
<1>4. ASSUME Distinct(s), q \notin Elements(s) PROVE Distinct(u)
  BY <1>1, <1>2, <1>4 DEF Elements, Distinct
<1>. QED  BY <1>1, <1>3, <1>4 DEF u

LEMMA TailElements ==
  ASSUME NEW s \in Seq(Query), s # <<>>
  PROVE  /\ Head(s) \in Query /\ Tail(s) \in Seq(Query)
         /\ Elements(s) = Elements(Tail(s)) \cup {Head(s)}
         /\ Distinct(s) => Head(s) \notin Elements(Tail(s))
<1>. DEFINE u == Tail(s)
<1>1. /\ Len(s) \in Nat /\ Len(s) > 0 /\ DOMAIN s = 1 .. Len(s) /\ Head(s) = s[1]
      /\ Head(s) \in Query /\ u \in Seq(Query) /\ Len(u) = Len(s) - 1
      /\ \A i \in 1 .. Len(u) : u[i] = s[i + 1]
  BY LenProperties, HeadTailProperties, EmptySeq
<1>2. DOMAIN u = 1 .. Len(s) - 1
  BY <1>1, LenProperties
<1>. HIDE DEF u
<1>3. Elements(s) \subseteq Elements(u) \cup {Head(s)}
  <2>. SUFFICES ASSUME NEW i \in 1 .. Len(s)
                PROVE  s[i] \in Elements(u) \cup {Head(s)}
    BY <1>1 DEF Elements
  <2>1. CASE i = 1
    BY <1>1, <2>1
  <2>2. CASE i # 1
    <3>1. i - 1 \in 1 .. Len(u) /\ s[i] = u[i - 1]
      BY <1>1, <2>2
    <3>. QED  BY <1>1, <1>2, <3>1 DEF Elements
  <2>. QED  BY <2>1, <2>2
<1>4. Elements(u) \cup {Head(s)} \subseteq Elements(s)
  BY <1>1, <1>2 DEF Elements
<1>5. ASSUME Distinct(s) PROVE Head(s) \notin Elements(u)
  BY <1>1, <1>2, <1>5 DEF Elements, Distinct
<1>. QED  BY <1>1, <1>3, <1>4, <1>5 DEF u

-----------------------------------------------------------------------------
(* The inductive invariant. *)

(* Where each thread may be: the database thread never adds or flushes.     *)
Places ==
  /\ pc[Net] \in {"idle", "addLock", "addBody", "addNotify"}
  /\ pc[Disp] \in {"idle", "addLock", "addBody", "addNotify", "flushLock", "flushTest", "exec",
                   "callback", "stop", "stopped", "shutLock", "shutBody", "shutNotify", "done"}
  /\ pc[Worker] \in {"check", "lock", "test", "waiting", "relock", "retest", "exec", "callback",
                     "exited"}

(* Nothing is accepted after the state is TERMINATED, and the flush that    *)
(* shutdown() ends with leaves the list empty.                              *)
LastFlushed ==
  /\ flushReturn = "shutNotify" => threadState = "TERMINATED"
  /\ threadState = "TERMINATED" =>
       /\ flushReturn = "shutNotify"
       /\ pc[Disp] \in {"flushLock", "flushTest", "exec", "callback", "shutNotify", "done"}
  /\ pc[Disp] \in {"shutNotify", "done"} => threadState = "TERMINATED" /\ tasks = <<>>

(* What a thread has in hand is not accepted yet, popped and not executed,  *)
(* or executed and without its callback; and no other thread has it.        *)
InHand ==
  \A t \in Threads :
    /\ pc[t] \in {"addLock", "addBody"} => inHand[t] \in created \ Elements(accepted)
    /\ pc[t] = "exec" =>
         inHand[t] \in Elements(accepted) \ (Elements(tasks) \cup Elements(executed))
    /\ pc[t] = "callback" => inHand[t] \in Elements(executed) \ Elements(callbacks)
    /\ \A u \in Threads \ {t} : inHand[t] \in Query => inHand[t] # inHand[u]

OnceEach ==
  /\ Distinct(accepted) /\ Distinct(executed) /\ Distinct(callbacks)
  /\ Elements(accepted) \subseteq created
  /\ Elements(executed) \subseteq Elements(accepted)
  /\ Elements(callbacks) \subseteq Elements(executed)
  /\ Elements(tasks) \cap Elements(executed) = {}

(* The list is the end of what was accepted, in that order, and what came   *)
(* before it is executed or in hand.                                        *)
Popped == Len(accepted) - Len(tasks)

PoppedFirst ==
  /\ Popped \in Nat
  /\ \A i \in 1 .. Len(tasks) : tasks[i] = accepted[Popped + i]
  /\ \A i \in 1 .. Popped : accepted[i] \in Running \cup Elements(executed)

Inv == TypeOK /\ Places /\ LastFlushed /\ InHand /\ OnceEach /\ PoppedFirst

-----------------------------------------------------------------------------
(* Steps that move the threads and leave the queries alone. *)

Idle(p) == p \notin {"addLock", "addBody", "exec", "callback"}
SameWork(p, r) == p = r \/ (Idle(p) /\ Idle(r)) \/ (p = "addLock" /\ r = "addBody")

Queries == <<tasks, inHand, created, accepted, executed, callbacks>>

LEMMA GotoIs ==
  ASSUME TypeOK, NEW t \in Threads, NEW l \in PC, Goto(t, l)
  PROVE  /\ pc' \in [Threads -> PC]
         /\ pc'[t] = l /\ \A u \in Threads \ {t} : pc'[u] = pc[u]
BY DEF TypeOK, Goto

LEMMA ThreadsAre ==
  /\ Net \in Threads /\ Disp \in Threads /\ Worker \in Threads
  /\ Net # Disp /\ Net # Worker /\ Disp # Worker
  /\ \A t \in Threads : t = Net \/ t = Disp \/ t = Worker
  /\ NoQuery \notin Query
BY DatabaseTasksAssumption DEF Threads

LEMMA WorkKept ==
  ASSUME Inv, UNCHANGED Queries, pc' \in [Threads -> PC],
         \A t \in Threads : SameWork(pc[t], pc'[t]),
         threadState' \in {"RUNNING", "CLOSING", "TERMINATED"}, dispatcherOpen' \in BOOLEAN,
         lock' \in Threads \cup {NoThread}, flushReturn' \in {"idle", "stop", "shutNotify"},
         saves' \in 0 .. MaxSaves, Places', LastFlushed'
  PROVE  Inv'
<1>1. /\ TypeOK /\ InHand /\ OnceEach /\ PoppedFirst
      /\ UNCHANGED <<tasks, inHand, created, accepted, executed, callbacks>>
  BY DEF Inv, Queries
<1>2. TypeOK'
  <2>1. \A t \in Threads :
          inHand'[t] \in Query <=> pc'[t] \in {"addLock", "addBody", "exec", "callback"}
    BY <1>1 DEF TypeOK, SameWork, Idle
  <2>. QED  BY <1>1, <2>1 DEF TypeOK
<1>3. InHand'
  BY <1>1 DEF InHand, SameWork, Idle, Elements
<1>4. OnceEach'
  BY <1>1 DEF OnceEach, Elements, Distinct
<1>5. Running' = Running
  BY <1>1 DEF Running, SameWork, Idle
<1>6. PoppedFirst'
  BY <1>1, <1>5 DEF PoppedFirst, Popped, Elements
<1>. QED  BY <1>2, <1>3, <1>4, <1>6 DEF Inv

LEMMA TakeLockStep ==
  ASSUME Inv, NEW t \in Threads, TakeLock(t)
  PROVE  Inv'
<1>1. /\ TypeOK /\ Places /\ LastFlushed
      /\ UNCHANGED <<threadState, dispatcherOpen, tasks, inHand, flushReturn, created, saves,
                     accepted, executed, callbacks>>
      /\ lock' = t
  BY DEF Inv, TakeLock
<1>. DEFINE l == Locked[pc[t]]
<1>2. \/ pc[t] = "addLock" /\ l = "addBody"
      \/ pc[t] = "flushLock" /\ l = "flushTest"
      \/ pc[t] = "shutLock" /\ l = "shutBody"
      \/ pc[t] = "lock" /\ l = "test"
      \/ pc[t] = "relock" /\ l = "retest"
  BY DEF TakeLock, Locked
<1>3. Goto(t, l)
  BY DEF TakeLock
<1>. HIDE DEF l
<1>4. /\ pc' \in [Threads -> PC]
      /\ pc'[t] = l /\ \A u \in Threads \ {t} : pc'[u] = pc[u]
  BY <1>1, <1>2, <1>3, GotoIs DEF PC
<1>5. \A u \in Threads : SameWork(pc[u], pc'[u])
  BY <1>2, <1>4 DEF SameWork, Idle
<1>6. Places' /\ LastFlushed'
  BY <1>1, <1>2, <1>4, ThreadsAre DEF Places, LastFlushed
<1>. QED  BY <1>1, <1>4, <1>5, <1>6, WorkKept DEF Queries, TypeOK

(* A step of the dispatcher or the database thread between its queries.     *)
LEMMA MoveKept ==
  ASSUME Inv, NEW t \in Threads, NEW l \in PC, Goto(t, l), Idle(pc[t]), Idle(l),
         UNCHANGED Queries,
         threadState' \in {"RUNNING", "CLOSING", "TERMINATED"}, dispatcherOpen' \in BOOLEAN,
         lock' \in Threads \cup {NoThread}, flushReturn' \in {"idle", "stop", "shutNotify"},
         saves' \in 0 .. MaxSaves, Places', LastFlushed'
  PROVE  Inv'
<1>1. /\ pc' \in [Threads -> PC]
      /\ pc'[t] = l /\ \A u \in Threads \ {t} : pc'[u] = pc[u]
  BY GotoIs DEF Inv
<1>2. \A u \in Threads : SameWork(pc[u], pc'[u])
  BY <1>1 DEF SameWork
<1>. QED  BY <1>1, <1>2, WorkKept

LEMMA DispatcherMoves ==
  ASSUME Inv, SaveGameState \/ SetShutdown \/ FlushEnd \/ StopThreads \/ Shutdown
  PROVE  Inv'
<1>1. /\ TypeOK /\ Places /\ LastFlushed /\ Disp \in Threads /\ MaxSaves \in Nat
  BY ThreadsAre, DatabaseTasksAssumption DEF Inv
<1>2. ASSUME NEW l \in PC, Goto(Disp, l)
      PROVE  pc'[Disp] = l /\ pc'[Net] = pc[Net] /\ pc'[Worker] = pc[Worker]
  BY <1>1, <1>2, GotoIs, ThreadsAre
<1>3. CASE SaveGameState
  <2>1. /\ pc[Disp] = "idle" /\ saves' = saves + 1 /\ saves < MaxSaves /\ flushReturn' = "idle"
        /\ Goto(Disp, "flushLock")
        /\ UNCHANGED <<threadState, dispatcherOpen, lock, tasks, inHand, created, accepted,
                       executed, callbacks>>
    BY <1>3 DEF SaveGameState
  <2>2. Places' /\ LastFlushed'
    BY <1>1, <1>2, <2>1 DEF Places, LastFlushed, PC
  <2>. QED  BY <1>1, <2>1, <2>2, MoveKept DEF TypeOK, Queries, Idle, PC
<1>4. CASE SetShutdown
  <2>1. /\ pc[Disp] = "idle" /\ flushReturn' = "stop" /\ Goto(Disp, "flushLock")
        /\ UNCHANGED <<threadState, dispatcherOpen, lock, tasks, inHand, created, saves, accepted,
                       executed, callbacks>>
    BY <1>4 DEF SetShutdown
  <2>2. Places' /\ LastFlushed'
    BY <1>1, <1>2, <2>1 DEF Places, LastFlushed, PC
  <2>. QED  BY <1>1, <2>1, <2>2, MoveKept DEF TypeOK, Queries, Idle, PC
<1>5. CASE FlushEnd
  <2>1. /\ pc[Disp] = "flushTest" /\ tasks = <<>> /\ lock' = NoThread /\ Goto(Disp, flushReturn)
        /\ UNCHANGED <<threadState, dispatcherOpen, tasks, inHand, flushReturn, created, saves,
                       accepted, executed, callbacks>>
    BY <1>5 DEF FlushEnd
  <2>2. flushReturn \in PC /\ Idle(flushReturn)
        /\ flushReturn \in {"idle", "stop", "shutNotify"}
    BY <1>1 DEF TypeOK, PC, Idle
  <2>3. Places' /\ LastFlushed'
    BY <1>1, <1>2, <2>1, <2>2 DEF Places, LastFlushed
  <2>. QED  BY <1>1, <2>1, <2>2, <2>3, MoveKept DEF TypeOK, Queries, Idle
<1>6. CASE StopThreads
  <2>1. CASE /\ pc[Disp] = "stop" /\ threadState' = "CLOSING" /\ Goto(Disp, "stopped")
             /\ UNCHANGED <<dispatcherOpen, lock, tasks, inHand, flushReturn, created, saves,
                            accepted, executed, callbacks>>
    <3>1. Places' /\ LastFlushed'
      BY <1>1, <1>2, <2>1 DEF Places, LastFlushed, PC
    <3>. QED  BY <1>1, <2>1, <3>1, MoveKept DEF TypeOK, Queries, Idle, PC
  <2>2. CASE /\ pc[Disp] = "stopped" /\ dispatcherOpen' = FALSE /\ Goto(Disp, "shutLock")
             /\ UNCHANGED <<threadState, lock, tasks, inHand, flushReturn, created, saves,
                            accepted, executed, callbacks>>
    <3>1. Places' /\ LastFlushed'
      BY <1>1, <1>2, <2>2 DEF Places, LastFlushed, PC
    <3>. QED  BY <1>1, <2>2, <3>1, MoveKept DEF TypeOK, Queries, Idle, PC
  <2>. QED  BY <1>6, <2>1, <2>2 DEF StopThreads
<1>7. CASE Shutdown
  <2>1. /\ pc[Disp] = "shutBody" /\ threadState' = "TERMINATED" /\ lock' = NoThread
        /\ flushReturn' = "shutNotify" /\ Goto(Disp, "flushLock")
        /\ UNCHANGED <<dispatcherOpen, tasks, inHand, created, saves, accepted, executed,
                       callbacks>>
    BY <1>7 DEF Shutdown, LastFlush
  <2>2. Places' /\ LastFlushed'
    BY <1>1, <1>2, <2>1 DEF Places, LastFlushed, PC
  <2>. QED  BY <1>1, <2>1, <2>2, MoveKept DEF TypeOK, Queries, Idle, PC
<1>. QED  BY <1>3, <1>4, <1>5, <1>6, <1>7

LEMMA WorkerMoves ==
  ASSUME Inv, WorkerSteps \/ SpuriousWakeup
  PROVE  Inv'
<1>1. /\ TypeOK /\ Places /\ LastFlushed /\ Worker \in Threads
  BY ThreadsAre DEF Inv
<1>2. ASSUME NEW l \in PC, Goto(Worker, l)
      PROVE  pc'[Worker] = l /\ pc'[Net] = pc[Net] /\ pc'[Disp] = pc[Disp]
  BY <1>1, <1>2, GotoIs, ThreadsAre
<1>3. ASSUME NEW l \in {"exited", "lock", "waiting", "check", "relock"}, Goto(Worker, l),
             pc[Worker] \in {"check", "test", "retest", "waiting"},
             lock' = lock \/ lock' = NoThread,
             UNCHANGED <<threadState, dispatcherOpen, tasks, inHand, flushReturn, created, saves,
                         accepted, executed, callbacks>>
      PROVE  Inv'
  <2>1. l \in PC /\ Idle(l) /\ Idle(pc[Worker])
    BY <1>3 DEF PC, Idle
  <2>2. Places' /\ LastFlushed'
    BY <1>1, <1>2, <1>3, <2>1 DEF Places, LastFlushed
  <2>. QED  BY <1>1, <1>3, <2>1, <2>2, MoveKept DEF TypeOK, Queries
<1>4. CASE CheckState
  <2>1. Goto(Worker, "exited") \/ Goto(Worker, "lock")
    BY <1>4 DEF CheckState
  <2>. QED  BY <1>3, <1>4, <2>1 DEF CheckState
<1>5. CASE WaitOrRetry
  BY <1>3, <1>5 DEF WaitOrRetry
<1>6. CASE SpuriousWakeup
  BY <1>3, <1>6 DEF SpuriousWakeup
<1>. QED  BY <1>4, <1>5, <1>6 DEF WorkerSteps

LEMMA NotifySteps ==
  ASSUME Inv, ShutdownNotify \/ \E t \in Threads : AddNotify(t)
  PROVE  Inv'
<1>1. TypeOK /\ Places /\ LastFlushed
  BY DEF Inv
<1>2. ASSUME NEW t \in {Net, Disp}, NEW l \in PC, Idle(pc[t]), Idle(l),
             pc' = [pc EXCEPT ![t] = l, ![Worker] = Notified(@)]
      PROVE  /\ pc' \in [Threads -> PC]
             /\ pc'[t] = l /\ \A u \in Threads \ {t, Worker} : pc'[u] = pc[u]
             /\ pc'[Worker] = pc[Worker] \/ (pc[Worker] = "waiting" /\ pc'[Worker] = "relock")
             /\ \A u \in Threads : SameWork(pc[u], pc'[u])
  <2>. DEFINE n == Notified(pc[Worker])
  <2>1. n \in PC /\ (n = pc[Worker] \/ (pc[Worker] = "waiting" /\ n = "relock"))
    BY <1>1, ThreadsAre DEF Notified, TypeOK, PC
  <2>2. pc' = [pc EXCEPT ![t] = l, ![Worker] = n]
    BY <1>1, <1>2, ThreadsAre DEF TypeOK
  <2>. HIDE DEF n
  <2>3. /\ pc' \in [Threads -> PC]
        /\ pc'[t] = l /\ pc'[Worker] = n /\ \A u \in Threads \ {t, Worker} : pc'[u] = pc[u]
    BY <1>1, <2>1, <2>2, ThreadsAre DEF TypeOK
  <2>4. \A u \in Threads : SameWork(pc[u], pc'[u])
    BY <1>2, <2>1, <2>3 DEF SameWork, Idle
  <2>. QED  BY <2>1, <2>3, <2>4
<1>3. CASE ShutdownNotify
  <2>1. /\ pc[Disp] = "shutNotify" /\ pc' = [pc EXCEPT ![Disp] = "done", ![Worker] = Notified(@)]
        /\ UNCHANGED <<threadState, dispatcherOpen, lock, tasks, inHand, flushReturn, created,
                       saves, accepted, executed, callbacks>>
    BY <1>3 DEF ShutdownNotify
  <2>2. /\ pc' \in [Threads -> PC]
        /\ pc'[Disp] = "done" /\ pc'[Net] = pc[Net]
        /\ pc'[Worker] = pc[Worker] \/ (pc[Worker] = "waiting" /\ pc'[Worker] = "relock")
        /\ \A u \in Threads : SameWork(pc[u], pc'[u])
    BY <1>2, <2>1, ThreadsAre DEF Idle, PC
  <2>3. Places' /\ LastFlushed'
    BY <1>1, <2>1, <2>2 DEF Places, LastFlushed
  <2>. QED  BY <1>1, <2>1, <2>2, <2>3, WorkKept DEF TypeOK, Queries
<1>4. ASSUME NEW t \in Threads, AddNotify(t)
      PROVE  Inv'
  <2>1. /\ pc[t] = "addNotify" /\ pc' = [pc EXCEPT ![t] = "idle", ![Worker] = Notified(@)]
        /\ UNCHANGED <<threadState, dispatcherOpen, lock, tasks, inHand, flushReturn, created,
                       saves, accepted, executed, callbacks>>
    BY <1>4 DEF AddNotify
  <2>2. t \in {Net, Disp}
    BY <1>1, <2>1, ThreadsAre DEF Places
  <2>3. /\ pc' \in [Threads -> PC]
        /\ pc'[t] = "idle" /\ \A u \in Threads \ {t, Worker} : pc'[u] = pc[u]
        /\ pc'[Worker] = pc[Worker] \/ (pc[Worker] = "waiting" /\ pc'[Worker] = "relock")
        /\ \A u \in Threads : SameWork(pc[u], pc'[u])
    BY <1>2, <2>1, <2>2 DEF Idle, PC
  <2>4. Places' /\ LastFlushed'
    BY <1>1, <2>1, <2>2, <2>3, ThreadsAre DEF Places, LastFlushed
  <2>. QED  BY <1>1, <2>1, <2>3, <2>4, WorkKept, SMTT(30) DEF TypeOK, Queries
<1>. QED  BY <1>3, <1>4

-----------------------------------------------------------------------------
(* Steps that do something to a query. *)

LEMMA AddTaskStep ==
  ASSUME Inv, NEW t \in Threads, NEW q \in Query, AddTask(t, q)
  PROVE  Inv'
<1>1. /\ TypeOK /\ Places /\ LastFlushed /\ InHand /\ OnceEach /\ PoppedFirst
      /\ t \in {Net, Disp} /\ pc[t] = "idle" /\ q \notin created
      /\ created' = created \cup {q} /\ inHand' = [inHand EXCEPT ![t] = q] /\ Goto(t, "addLock")
      /\ UNCHANGED <<threadState, dispatcherOpen, lock, tasks, flushReturn, saves, accepted,
                     executed, callbacks>>
  BY DEF Inv, AddTask
<1>2. /\ pc' \in [Threads -> PC]
      /\ pc'[t] = "addLock" /\ \A u \in Threads \ {t} : pc'[u] = pc[u]
  BY <1>1, GotoIs DEF PC
<1>3. /\ inHand' \in [Threads -> Query \cup {NoQuery}]
      /\ inHand'[t] = q /\ \A u \in Threads \ {t} : inHand'[u] = inHand[u]
  BY <1>1 DEF TypeOK
<1>4. TypeOK'
  <2>1. \A u \in Threads :
          inHand'[u] \in Query <=> pc'[u] \in {"addLock", "addBody", "exec", "callback"}
    BY <1>1, <1>2, <1>3 DEF TypeOK
  <2>. QED  BY <1>1, <1>2, <1>3, <2>1 DEF TypeOK
<1>5. Places' /\ LastFlushed'
  BY <1>1, <1>2, ThreadsAre DEF Places, LastFlushed
<1>6. \A u \in Threads : inHand[u] \in Query => inHand[u] \in created
  BY <1>1 DEF TypeOK, InHand, OnceEach
<1>7. UNCHANGED <<Elements(accepted), Elements(tasks), Elements(executed), Elements(callbacks)>>
  BY <1>1 DEF Elements
<1>8. InHand'
  BY <1>1, <1>2, <1>3, <1>6, <1>7 DEF InHand, OnceEach
<1>9. OnceEach'
  BY <1>1, <1>7 DEF OnceEach, Distinct
<1>10. Running' = Running
  BY <1>1, <1>2, <1>3 DEF Running
<1>11. PoppedFirst'
  BY <1>1, <1>7, <1>10 DEF PoppedFirst, Popped
<1>. QED  BY <1>4, <1>5, <1>8, <1>9, <1>11 DEF Inv

(* The query that a thread had in hand is put away. *)
LEMMA HandEmptied ==
  ASSUME TypeOK, NEW t \in Threads, NEW l \in PC, Idle(l), Goto(t, l),
         inHand' = [inHand EXCEPT ![t] = NoQuery]
  PROVE  /\ pc' \in [Threads -> PC] /\ inHand' \in [Threads -> Query \cup {NoQuery}]
         /\ pc'[t] = l /\ inHand'[t] = NoQuery
         /\ \A u \in Threads \ {t} : pc'[u] = pc[u] /\ inHand'[u] = inHand[u]
         /\ \A u \in Threads :
              inHand'[u] \in Query <=> pc'[u] \in {"addLock", "addBody", "exec", "callback"}
<1>1. /\ pc' \in [Threads -> PC]
      /\ pc'[t] = l /\ \A u \in Threads \ {t} : pc'[u] = pc[u]
  BY GotoIs
<1>2. /\ inHand' \in [Threads -> Query \cup {NoQuery}]
      /\ inHand'[t] = NoQuery /\ \A u \in Threads \ {t} : inHand'[u] = inHand[u]
  BY DEF TypeOK
<1>. QED  BY <1>1, <1>2, ThreadsAre DEF TypeOK, Idle

LEMMA AddBodyStep ==
  ASSUME Inv, NEW t \in Threads, AddBody(t)
  PROVE  Inv'
<1>. DEFINE q == inHand[t]
            l == IF threadState = "RUNNING" /\ Signal THEN "addNotify" ELSE "idle"
<1>1. /\ TypeOK /\ Places /\ LastFlushed /\ InHand /\ OnceEach /\ PoppedFirst
      /\ pc[t] = "addBody" /\ lock' = NoThread /\ inHand' = [inHand EXCEPT ![t] = NoQuery]
      /\ UNCHANGED <<threadState, dispatcherOpen, flushReturn, created, saves, executed, callbacks>>
      /\ Goto(t, l)
      /\ \/ threadState = "RUNNING" /\ tasks' = Append(tasks, q) /\ accepted' = Append(accepted, q)
         \/ UNCHANGED <<tasks, accepted>>
  BY DEF Inv, AddBody
<1>2. l \in {"addNotify", "idle"} /\ l \in PC /\ Idle(l)
  BY DEF PC, Idle
<1>. HIDE DEF l
<1>3. /\ pc' \in [Threads -> PC] /\ inHand' \in [Threads -> Query \cup {NoQuery}]
      /\ pc'[t] = l /\ inHand'[t] = NoQuery
      /\ \A u \in Threads \ {t} : pc'[u] = pc[u] /\ inHand'[u] = inHand[u]
      /\ \A u \in Threads :
           inHand'[u] \in Query <=> pc'[u] \in {"addLock", "addBody", "exec", "callback"}
  BY <1>1, <1>2, HandEmptied
<1>4. q \in Query /\ q \in created /\ q \notin Elements(accepted)
  BY <1>1 DEF TypeOK, InHand
<1>5. Running' = Running
  BY <1>1, <1>2, <1>3 DEF Running
<1>6. t \in {Net, Disp}
  BY <1>1, ThreadsAre DEF Places
<1>7. CASE threadState = "RUNNING" /\ tasks' = Append(tasks, q) /\ accepted' = Append(accepted, q)
  <2>1. /\ tasks' \in Seq(Query) /\ accepted' \in Seq(Query)
        /\ Elements(tasks)' = Elements(tasks) \cup {q}
        /\ Elements(accepted)' = Elements(accepted) \cup {q}
        /\ Distinct(accepted)'
    BY <1>1, <1>4, <1>7, AppendElements DEF TypeOK, OnceEach
  <2>2. TypeOK'
    BY <1>1, <1>3, <2>1 DEF TypeOK
  <2>3. Places' /\ LastFlushed'
    BY <1>1, <1>2, <1>3, <1>6, <1>7, ThreadsAre DEF Places, LastFlushed
  <2>4. Elements(executed)' = Elements(executed) /\ Elements(callbacks)' = Elements(callbacks)
    BY <1>1 DEF Elements
  <2>5. InHand'
    <3>. SUFFICES ASSUME NEW u \in Threads
                  PROVE  /\ pc'[u] \in {"addLock", "addBody"} =>
                              inHand'[u] \in created' \ Elements(accepted)'
                         /\ pc'[u] = "exec" =>
                              inHand'[u] \in Elements(accepted)'
                                               \ (Elements(tasks)' \cup Elements(executed)')
                         /\ pc'[u] = "callback" =>
                              inHand'[u] \in Elements(executed)' \ Elements(callbacks)'
                         /\ \A v \in Threads \ {u} : inHand'[u] \in Query => inHand'[u] # inHand'[v]
      BY DEF InHand
    <3>1. CASE u = t
      BY <1>2, <1>3, <3>1, ThreadsAre DEF Idle
    <3>2. CASE u # t
      <4>1. inHand[u] \in Query => inHand[u] # q
        BY <1>1, <3>2 DEF InHand
      <4>2. pc'[u] \in {"addLock", "addBody", "exec", "callback"} => inHand[u] # q
        BY <1>3, <3>2, <4>1
      <4>3. \A v \in Threads \ {u} : inHand'[u] \in Query => inHand'[u] # inHand'[v]
        BY <1>1, <1>3, <3>2, ThreadsAre DEF InHand
      <4>. HIDE DEF q
      <4>. QED  BY <1>1, <1>3, <2>1, <2>4, <3>2, <4>2, <4>3 DEF InHand
    <3>. QED  BY <3>1, <3>2
  <2>6. OnceEach'
    <3>1. q \notin Elements(executed)
      BY <1>1, <1>4 DEF OnceEach
    <3>. QED  BY <1>1, <1>4, <2>1, <2>4, <3>1 DEF OnceEach, Distinct
  <2>7. PoppedFirst'
    <3>1. /\ Len(tasks) \in Nat /\ Len(accepted) \in Nat
          /\ Len(tasks') = Len(tasks) + 1 /\ Len(accepted') = Len(accepted) + 1
          /\ tasks'[Len(tasks) + 1] = q /\ accepted'[Len(accepted) + 1] = q
          /\ \A i \in 1 .. Len(tasks) : tasks'[i] = tasks[i]
          /\ \A i \in 1 .. Len(accepted) : accepted'[i] = accepted[i]
      BY <1>1, <1>4, <1>7, LenProperties, AppendProperties DEF TypeOK
    <3>2. Popped' = Popped /\ Popped \in Nat
      BY <1>1, <3>1 DEF Popped, PoppedFirst
    <3>3. ASSUME NEW i \in 1 .. Len(tasks')
          PROVE  tasks'[i] = accepted'[Popped + i]
      <4>1. Popped + Len(tasks) = Len(accepted)
        BY <3>1 DEF Popped
      <4>2. CASE i \in 1 .. Len(tasks)
        <5>1. tasks[i] = accepted[Popped + i] /\ Popped + i \in 1 .. Len(accepted)
          BY <1>1, <3>1, <3>2, <4>1, <4>2 DEF PoppedFirst
        <5>. QED  BY <3>1, <4>2, <5>1
      <4>3. CASE i = Len(tasks) + 1
        <5>. DEFINE n == Len(tasks)
        <5>1. n \in Nat /\ Popped \in Nat /\ Popped + n = Len(accepted) /\ i = n + 1
          BY <3>1, <3>2, <4>1, <4>3
        <5>. HIDE DEF n
        <5>2. Popped + i = Len(accepted) + 1
          BY <5>1
        <5>. QED  BY <3>1, <4>3, <5>2 DEF n
      <4>. QED  BY <3>1, <4>2, <4>3
    <3>4. \A i \in 1 .. Popped : accepted'[i] = accepted[i]
      BY <3>1, <3>2 DEF Popped
    <3>. QED  BY <1>1, <1>5, <2>4, <3>2, <3>3, <3>4 DEF PoppedFirst
  <2>. QED  BY <2>2, <2>3, <2>5, <2>6, <2>7 DEF Inv
<1>8. CASE UNCHANGED <<tasks, accepted>>
  <2>1. UNCHANGED <<Elements(accepted), Elements(tasks), Elements(executed), Elements(callbacks)>>
    BY <1>1, <1>8 DEF Elements
  <2>2. TypeOK'
    BY <1>1, <1>3, <1>8 DEF TypeOK
  <2>3. Places' /\ LastFlushed'
    BY <1>1, <1>2, <1>3, <1>6, <1>8, ThreadsAre DEF Places, LastFlushed
  <2>4. InHand'
    BY <1>1, <1>2, <1>3, <2>1, ThreadsAre DEF InHand, Idle
  <2>5. OnceEach'
    BY <1>1, <1>8, <2>1 DEF OnceEach, Distinct
  <2>6. PoppedFirst'
    BY <1>1, <1>5, <1>8, <2>1 DEF PoppedFirst, Popped
  <2>. QED  BY <2>2, <2>3, <2>4, <2>5, <2>6 DEF Inv
<1>. QED  BY <1>1, <1>7, <1>8

LEMMA PopStep ==
  ASSUME Inv, NEW t \in Threads, Pop(t)
  PROVE  Inv'
<1>. DEFINE q == Head(tasks)
<1>1. /\ TypeOK /\ Places /\ LastFlushed /\ InHand /\ OnceEach /\ PoppedFirst
      /\ pc[t] \in {"test", "retest", "flushTest"} /\ tasks # <<>>
      /\ inHand' = [inHand EXCEPT ![t] = q] /\ tasks' = Tail(tasks)
      /\ lock' = NoThread /\ Goto(t, "exec")
      /\ UNCHANGED <<threadState, dispatcherOpen, flushReturn, created, saves, accepted, executed,
                     callbacks>>
  BY DEF Inv, Pop, PopFront
<1>2. /\ pc' \in [Threads -> PC]
      /\ pc'[t] = "exec" /\ \A u \in Threads \ {t} : pc'[u] = pc[u]
  BY <1>1, GotoIs DEF PC
<1>3. /\ Len(tasks) \in Nat /\ Len(tasks) > 0 /\ Len(accepted) \in Nat
      /\ DOMAIN tasks = 1 .. Len(tasks) /\ DOMAIN accepted = 1 .. Len(accepted)
      /\ q = tasks[1] /\ Len(tasks') = Len(tasks) - 1
      /\ \A i \in 1 .. Len(tasks') : tasks'[i] = tasks[i + 1]
  BY <1>1, LenProperties, HeadTailProperties, EmptySeq DEF TypeOK
<1>4. Popped \in Nat /\ Popped + Len(tasks) = Len(accepted) /\ Popped' = Popped + 1
  BY <1>1, <1>3 DEF Popped, PoppedFirst
<1>5. q = accepted[Popped + 1] /\ Popped + 1 \in DOMAIN accepted
  <2>1. 1 \in 1 .. Len(tasks) /\ Popped + 1 \in 1 .. Len(accepted)
    BY <1>3, <1>4
  <2>. QED  BY <1>1, <1>3, <2>1 DEF PoppedFirst
<1>6. Distinct(tasks)
  <2>. SUFFICES ASSUME NEW i \in 1 .. Len(tasks), NEW j \in 1 .. Len(tasks), tasks[i] = tasks[j]
                PROVE  i = j
    BY <1>3 DEF Distinct
  <2>1. /\ Popped + i \in DOMAIN accepted /\ Popped + j \in DOMAIN accepted
        /\ accepted[Popped + i] = accepted[Popped + j]
    BY <1>1, <1>3, <1>4 DEF PoppedFirst
  <2>2. Popped + i = Popped + j
    BY <1>1, <2>1 DEF OnceEach, Distinct
  <2>. QED  BY <1>4, <2>2
<1>7. /\ q \in Query /\ tasks' \in Seq(Query)
      /\ Elements(tasks) = Elements(tasks)' \cup {q} /\ q \notin Elements(tasks)'
  <2>1. Elements(tasks)' = Elements(Tail(tasks))
    BY <1>1 DEF Elements
  <2>. QED  BY <1>1, <1>6, <2>1, TailElements DEF TypeOK
<1>8. /\ UNCHANGED <<Elements(accepted), Elements(executed), Elements(callbacks)>>
      /\ q \in Elements(accepted) /\ q \notin Elements(executed)
  <2>1. UNCHANGED <<Elements(accepted), Elements(executed), Elements(callbacks)>>
    BY <1>1 DEF Elements
  <2>. QED  BY <1>1, <1>5, <1>7, <2>1 DEF Elements, OnceEach
<1>. HIDE DEF q
<1>9. /\ inHand' \in [Threads -> Query \cup {NoQuery}]
      /\ inHand'[t] = q /\ \A u \in Threads \ {t} : inHand'[u] = inHand[u]
  BY <1>1, <1>7 DEF TypeOK
<1>10. TypeOK'
  <2>1. \A u \in Threads :
          inHand'[u] \in Query <=> pc'[u] \in {"addLock", "addBody", "exec", "callback"}
    BY <1>1, <1>2, <1>7, <1>9 DEF TypeOK
  <2>. QED  BY <1>1, <1>2, <1>7, <1>9, <2>1 DEF TypeOK
<1>11. Places' /\ LastFlushed'
  <2>1. Places'
    BY <1>1, <1>2, ThreadsAre DEF Places
  <2>2. pc[Disp] \notin {"shutNotify", "done"}
    BY <1>1 DEF LastFlushed
  <2>. QED  BY <1>1, <1>2, <2>1, <2>2, ThreadsAre DEF LastFlushed
<1>12. \A u \in Threads \ {t} : inHand[u] \in Query => inHand[u] # q
  <2>. SUFFICES ASSUME NEW u \in Threads \ {t}, inHand[u] = q PROVE FALSE
    OBVIOUS
  <2>1. pc[u] \in {"addLock", "addBody", "exec", "callback"}
    BY <1>1, <1>7 DEF TypeOK
  <2>. QED  BY <1>1, <1>7, <1>8, <2>1 DEF InHand
<1>13. InHand'
  <2>. SUFFICES ASSUME NEW u \in Threads
                PROVE  /\ pc'[u] \in {"addLock", "addBody"} =>
                            inHand'[u] \in created' \ Elements(accepted)'
                       /\ pc'[u] = "exec" =>
                            inHand'[u] \in Elements(accepted)'
                                             \ (Elements(tasks)' \cup Elements(executed)')
                       /\ pc'[u] = "callback" =>
                            inHand'[u] \in Elements(executed)' \ Elements(callbacks)'
                       /\ \A v \in Threads \ {u} : inHand'[u] \in Query => inHand'[u] # inHand'[v]
    BY DEF InHand
  <2>1. CASE u = t
    <3>1. \A v \in Threads \ {u} : inHand'[v] # q
      BY <1>7, <1>9, <1>12, <2>1
    <3>. QED  BY <1>2, <1>7, <1>8, <1>9, <2>1, <3>1
  <2>2. CASE u # t
    <3>1. \A v \in Threads \ {u} : inHand'[u] \in Query => inHand'[u] # inHand'[v]
      BY <1>1, <1>9, <1>12, <2>2 DEF InHand
    <3>. QED  BY <1>1, <1>2, <1>7, <1>8, <1>9, <2>2, <3>1 DEF InHand
  <2>. QED  BY <2>1, <2>2
<1>14. OnceEach'
  BY <1>1, <1>7, <1>8 DEF OnceEach, Distinct
<1>15. PoppedFirst'
  <2>1. Running' = Running \cup {q}
    BY <1>1, <1>2, <1>9 DEF Running
  <2>2. \A i \in 1 .. Popped' : accepted'[i] \in Running' \cup Elements(executed)'
    BY <1>1, <1>4, <1>5, <1>8, <2>1 DEF PoppedFirst
  <2>3. ASSUME NEW i \in 1 .. Len(tasks')
        PROVE  tasks'[i] = accepted'[Popped' + i]
    <3>1. i + 1 \in 1 .. Len(tasks) /\ Popped + (i + 1) = Popped' + i
      BY <1>3, <1>4
    <3>2. tasks'[i] = tasks[i + 1] /\ tasks[i + 1] = accepted[Popped + (i + 1)]
      BY <1>1, <1>3, <3>1 DEF PoppedFirst
    <3>. QED  BY <1>1, <3>1, <3>2
  <2>. QED  BY <1>4, <2>2, <2>3 DEF PoppedFirst
<1>. QED  BY <1>10, <1>11, <1>13, <1>14, <1>15 DEF Inv

LEMMA ExecuteStep ==
  ASSUME Inv, NEW t \in Threads, Execute(t)
  PROVE  Inv'
<1>. DEFINE q == inHand[t]
<1>1. /\ TypeOK /\ Places /\ LastFlushed /\ InHand /\ OnceEach /\ PoppedFirst
      /\ pc[t] = "exec" /\ executed' = Append(executed, q) /\ Goto(t, "callback")
      /\ UNCHANGED <<threadState, dispatcherOpen, lock, tasks, inHand, flushReturn, created, saves,
                     accepted, callbacks>>
  BY DEF Inv, Execute
<1>2. /\ pc' \in [Threads -> PC]
      /\ pc'[t] = "callback" /\ \A u \in Threads \ {t} : pc'[u] = pc[u]
  BY <1>1, GotoIs DEF PC
<1>3. /\ q \in Query /\ q \in Elements(accepted) /\ q \notin Elements(tasks)
      /\ q \notin Elements(executed) /\ q \notin Elements(callbacks)
  BY <1>1 DEF TypeOK, InHand, OnceEach
<1>4. /\ executed' \in Seq(Query)
      /\ Elements(executed)' = Elements(executed) \cup {q} /\ Distinct(executed)'
  BY <1>1, <1>3, AppendElements DEF TypeOK, OnceEach
<1>5. UNCHANGED <<Elements(accepted), Elements(tasks), Elements(callbacks)>>
  BY <1>1 DEF Elements
<1>6. TypeOK'
  <2>1. \A u \in Threads :
          inHand'[u] \in Query <=> pc'[u] \in {"addLock", "addBody", "exec", "callback"}
    BY <1>1, <1>2, <1>3 DEF TypeOK
  <2>. QED  BY <1>1, <1>2, <1>4, <2>1 DEF TypeOK
<1>7. Places' /\ LastFlushed'
  BY <1>1, <1>2, ThreadsAre DEF Places, LastFlushed
<1>8. InHand'
  <2>1. \A u \in Threads \ {t} : inHand[u] \in Query => inHand[u] # q
    BY <1>1 DEF InHand
  <2>2. \A u \in Threads \ {t} :
          pc[u] \in {"addLock", "addBody", "exec", "callback"} => inHand[u] # q
    BY <1>1, <2>1 DEF TypeOK
  <2>. QED  BY <1>1, <1>2, <1>3, <1>4, <1>5, <2>2 DEF InHand
<1>9. OnceEach'
  BY <1>1, <1>3, <1>4, <1>5 DEF OnceEach, Distinct
<1>10. PoppedFirst'
  <2>1. Running \subseteq Running' \cup {q}
    BY <1>1, <1>2 DEF Running
  <2>2. Popped' = Popped
    BY <1>1 DEF Popped
  <2>. QED  BY <1>1, <1>4, <2>1, <2>2 DEF PoppedFirst
<1>. QED  BY <1>6, <1>7, <1>8, <1>9, <1>10 DEF Inv

LEMMA CallbackStep ==
  ASSUME Inv, NEW t \in Threads, Callback(t)
  PROVE  Inv'
<1>. DEFINE q == inHand[t]
            l == IF t = Worker THEN "check" ELSE "flushLock"
<1>1. /\ TypeOK /\ Places /\ LastFlushed /\ InHand /\ OnceEach /\ PoppedFirst
      /\ pc[t] = "callback" /\ inHand' = [inHand EXCEPT ![t] = NoQuery] /\ Goto(t, l)
      /\ callbacks' = Append(callbacks, q) \/ callbacks' = callbacks
      /\ UNCHANGED <<threadState, dispatcherOpen, lock, tasks, flushReturn, created, saves,
                     accepted, executed>>
  BY DEF Inv, Callback, DropQuery
<1>2. l \in PC /\ Idle(l) /\ (t = Worker => l = "check") /\ (t # Worker => l = "flushLock")
  BY DEF PC, Idle
<1>. HIDE DEF l
<1>3. /\ pc' \in [Threads -> PC] /\ inHand' \in [Threads -> Query \cup {NoQuery}]
      /\ pc'[t] = l /\ inHand'[t] = NoQuery
      /\ \A u \in Threads \ {t} : pc'[u] = pc[u] /\ inHand'[u] = inHand[u]
      /\ \A u \in Threads :
           inHand'[u] \in Query <=> pc'[u] \in {"addLock", "addBody", "exec", "callback"}
  BY <1>1, <1>2, HandEmptied
<1>4. q \in Query /\ q \in Elements(executed) /\ q \notin Elements(callbacks)
  BY <1>1 DEF TypeOK, InHand
<1>5. /\ callbacks' \in Seq(Query) /\ Distinct(callbacks)'
      /\ Elements(callbacks)' \subseteq Elements(callbacks) \cup {q}
  <2>1. CASE callbacks' = Append(callbacks, q)
    BY <1>1, <1>4, <2>1, AppendElements DEF TypeOK, OnceEach
  <2>2. CASE callbacks' = callbacks
    BY <1>1, <2>2 DEF TypeOK, OnceEach, Elements, Distinct
  <2>. QED  BY <1>1, <2>1, <2>2
<1>6. UNCHANGED <<Elements(accepted), Elements(tasks), Elements(executed)>>
  BY <1>1 DEF Elements
<1>7. TypeOK'
  BY <1>1, <1>3, <1>5 DEF TypeOK
<1>8. Places' /\ LastFlushed'
  <2>1. t \in {Disp, Worker}
    BY <1>1, ThreadsAre DEF Places
  <2>. QED  BY <1>1, <1>2, <1>3, <2>1, ThreadsAre DEF Places, LastFlushed
<1>9. InHand'
  <2>. SUFFICES ASSUME NEW u \in Threads
                PROVE  /\ pc'[u] \in {"addLock", "addBody"} =>
                            inHand'[u] \in created' \ Elements(accepted)'
                       /\ pc'[u] = "exec" =>
                            inHand'[u] \in Elements(accepted)'
                                             \ (Elements(tasks)' \cup Elements(executed)')
                       /\ pc'[u] = "callback" =>
                            inHand'[u] \in Elements(executed)' \ Elements(callbacks)'
                       /\ \A v \in Threads \ {u} : inHand'[u] \in Query => inHand'[u] # inHand'[v]
    BY DEF InHand
  <2>1. CASE u = t
    BY <1>2, <1>3, <2>1, ThreadsAre DEF Idle
  <2>2. CASE u # t
    <3>1. pc[u] = "callback" => inHand[u] # q
      BY <1>1, <2>2 DEF InHand, TypeOK
    <3>2. \A v \in Threads \ {u} : inHand'[u] \in Query => inHand'[u] # inHand'[v]
      BY <1>1, <1>3, <2>2, ThreadsAre DEF InHand
    <3>. HIDE DEF q
    <3>. QED  BY <1>1, <1>3, <1>5, <1>6, <2>2, <3>1, <3>2 DEF InHand
  <2>. QED  BY <2>1, <2>2
<1>10. OnceEach'
  BY <1>1, <1>4, <1>5, <1>6 DEF OnceEach, Distinct
<1>11. PoppedFirst'
  <2>1. Running' = Running
    BY <1>1, <1>2, <1>3 DEF Running, Idle
  <2>2. Popped' = Popped
    BY <1>1 DEF Popped
  <2>. QED  BY <1>1, <1>6, <2>1, <2>2 DEF PoppedFirst
<1>. QED  BY <1>7, <1>8, <1>9, <1>10, <1>11 DEF Inv

-----------------------------------------------------------------------------
LEMMA InvInit == Init => Inv
<1>. SUFFICES ASSUME Init PROVE Inv
  OBVIOUS
<1>1. /\ threadState = "RUNNING" /\ dispatcherOpen = TRUE /\ lock = NoThread /\ tasks = <<>>
      /\ pc = [t \in Threads |-> IF t = Worker THEN "check" ELSE "idle"]
      /\ inHand = [t \in Threads |-> NoQuery] /\ flushReturn = "idle"
      /\ created = {} /\ saves = 0
      /\ accepted = <<>> /\ executed = <<>> /\ callbacks = <<>>
  BY DEF Init
<1>2. pc[Worker] = "check" /\ \A t \in Threads \ {Worker} : pc[t] = "idle"
  BY <1>1, ThreadsAre
<1>3. TypeOK
  <2>1. <<>> \in Seq(Query) /\ 0 \in 0 .. MaxSaves
    BY DatabaseTasksAssumption
  <2>2. pc \in [Threads -> PC]
    BY <1>1 DEF PC
  <2>. QED  BY <1>1, <1>2, <2>1, <2>2, ThreadsAre DEF TypeOK
<1>4. Places /\ LastFlushed
  BY <1>1, <1>2, ThreadsAre DEF Places, LastFlushed
<1>5. InHand
  BY <1>1, <1>2, ThreadsAre DEF InHand
<1>6. Elements(<<>>) = {} /\ Distinct(<<>>) /\ Len(<<>>) = 0
  BY DEF Elements, Distinct
<1>7. OnceEach
  BY <1>1, <1>6 DEF OnceEach
<1>8. PoppedFirst
  BY <1>1, <1>6 DEF PoppedFirst, Popped
<1>. QED  BY <1>3, <1>4, <1>5, <1>7, <1>8 DEF Inv

LEMMA InvStep == Inv /\ [Next]_vars => Inv'
<1>. SUFFICES ASSUME Inv, [Next]_vars PROVE Inv'
  OBVIOUS
<1>1. CASE UNCHANGED vars
  BY <1>1, WorkKept DEF vars, Queries, SameWork, Inv, TypeOK, Places, LastFlushed
<1>2. CASE \E t \in Threads : ThreadSteps(t) \/ \E q \in Query : AddTask(t, q)
  BY <1>2, TakeLockStep, AddBodyStep, NotifySteps, PopStep, ExecuteStep, CallbackStep,
     AddTaskStep DEF ThreadSteps
<1>3. CASE SaveGameState \/ SetShutdown \/ DispatcherSteps
  BY <1>3, DispatcherMoves, NotifySteps DEF DispatcherSteps
<1>4. CASE WorkerSteps \/ SpuriousWakeup
  BY <1>4, WorkerMoves
<1>. QED  BY <1>1, <1>2, <1>3, <1>4 DEF Next

(* The inductive invariant holds in every state. *)
THEOREM Invariant == Spec => []Inv
BY InvInit, InvStep, PTL DEF Spec

(* Every variable keeps to its type, and a query is in hand exactly inside  *)
(* addTask and runTask.                                                     *)
THEOREM TypeCorrect == Spec => []TypeOK
<1>1. Inv => TypeOK
  BY DEF Inv
<1>. QED  BY <1>1, Invariant, PTL

(* What was popped is executed or in hand, the rest is in the list.         *)
LEMMA AcceptedIs ==
  ASSUME Inv
  PROVE  Elements(accepted) = Elements(tasks) \cup Running \cup Elements(executed)
<1>1. /\ Popped \in Nat /\ Popped + Len(tasks) = Len(accepted)
      /\ DOMAIN tasks = 1 .. Len(tasks) /\ DOMAIN accepted = 1 .. Len(accepted)
      /\ Len(tasks) \in Nat
  BY LenProperties DEF Inv, TypeOK, PoppedFirst, Popped
<1>2. \A i \in 1 .. Len(tasks) : tasks[i] = accepted[Popped + i]
  BY DEF Inv, PoppedFirst
<1>3. ASSUME NEW i \in DOMAIN accepted
      PROVE  accepted[i] \in Elements(tasks) \cup Running \cup Elements(executed)
  <2>1. CASE i \in 1 .. Popped
    BY <2>1 DEF Inv, PoppedFirst
  <2>2. CASE i \notin 1 .. Popped
    <3>1. i - Popped \in 1 .. Len(tasks) /\ Popped + (i - Popped) = i
      BY <1>1, <2>2
    <3>2. accepted[i] = tasks[i - Popped]
      BY <1>2, <3>1
    <3>. QED  BY <1>1, <3>1, <3>2 DEF Elements
  <2>. QED  BY <2>1, <2>2
<1>4. ASSUME NEW i \in DOMAIN tasks
      PROVE  tasks[i] \in Elements(accepted)
  <2>1. Popped + i \in DOMAIN accepted
    BY <1>1
  <2>. QED  BY <1>1, <1>2, <2>1 DEF Elements
<1>5. Running \subseteq Elements(accepted) /\ Elements(executed) \subseteq Elements(accepted)
  BY DEF Inv, InHand, OnceEach, Running
<1>. QED  BY <1>3, <1>4, <1>5 DEF Elements

(* An accepted query is in the list, in hand of one thread, or executed,    *)
(* and when both threads are done it is executed; its callback comes once   *)
(* and after it.                                                            *)
THEOREM QueriesRunOnce == Spec => []ExecutedOnce
<1>1. ASSUME Inv PROVE ExecutedOnce
  <2>1. /\ TypeOK /\ Places /\ LastFlushed /\ InHand /\ OnceEach
        /\ Elements(accepted) = Elements(tasks) \cup Running \cup Elements(executed)
    BY <1>1, AcceptedIs DEF Inv
  <2>2. /\ Running \cap Elements(tasks) = {} /\ Running \cap Elements(executed) = {}
        /\ Elements(tasks) \cap Elements(executed) = {}
    BY <2>1 DEF Running, InHand, OnceEach
  <2>3. pc[Worker] = "exec" /\ pc[Disp] = "exec" => inHand[Worker] # inHand[Disp]
    BY <2>1, ThreadsAre DEF InHand, TypeOK
  <2>4. ASSUME pc[Worker] = "exited", pc[Disp] = "done"
        PROVE  Elements(executed) = Elements(accepted)
    <3>1. tasks = <<>> /\ \A t \in Threads : pc[t] # "exec"
      BY <2>1, <2>4, ThreadsAre DEF LastFlushed, Places
    <3>2. Elements(tasks) = {} /\ Running = {}
      BY <3>1 DEF Elements, Running
    <3>. QED  BY <2>1, <3>2
  <2>. QED  BY <2>1, <2>2, <2>3, <2>4 DEF ExecutedOnce, OnceEach
<1>. QED  BY <1>1, Invariant, PTL

(* Of two accepted queries the later one is executed first only while the   *)
(* earlier one is in the hand of the other thread.                          *)
THEOREM OvertakenByOne == Spec => []OvertakenOnlyInHand
<1>1. ASSUME Inv PROVE OvertakenOnlyInHand
  <2>. SUFFICES ASSUME NEW i \in DOMAIN accepted, NEW j \in DOMAIN accepted, i < j,
                       accepted[j] \in Elements(executed), accepted[i] \notin Elements(executed)
                PROVE  accepted[i] \in Running
    BY DEF OvertakenOnlyInHand
  <2>1. /\ Popped \in Nat /\ Popped + Len(tasks) = Len(accepted)
        /\ DOMAIN tasks = 1 .. Len(tasks) /\ DOMAIN accepted = 1 .. Len(accepted)
        /\ Len(tasks) \in Nat
    BY <1>1, LenProperties DEF Inv, TypeOK, PoppedFirst, Popped
  <2>2. j \in 1 .. Popped
    <3>. SUFFICES ASSUME j \notin 1 .. Popped PROVE FALSE
      OBVIOUS
    <3>1. j - Popped \in 1 .. Len(tasks) /\ Popped + (j - Popped) = j
      BY <2>1
    <3>2. accepted[j] = tasks[j - Popped]
      BY <1>1, <3>1 DEF Inv, PoppedFirst
    <3>3. accepted[j] \in Elements(tasks)
      BY <2>1, <3>1, <3>2 DEF Elements
    <3>. QED  BY <1>1, <3>3 DEF Inv, OnceEach
  <2>3. i \in 1 .. Popped
    BY <2>1, <2>2
  <2>. QED  BY <1>1, <2>3 DEF Inv, PoppedFirst
<1>. QED  BY <1>1, Invariant, PTL
=============================================================================
