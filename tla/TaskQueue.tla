------------------------------ MODULE TaskQueue ------------------------------
(***************************************************************************)
(* What the dispatcher (tasks.cpp) promises the rest of the server: the    *)
(* tasks it accepts are handled one at a time, each exactly once, in the   *)
(* order in which they were accepted.  Threads, batches, the mutex and the *)
(* condition variable of the code do not appear here.                      *)
(***************************************************************************)
EXTENDS Sequences

CONSTANT Task           \* every Task object that may be handed to the queue

VARIABLES queue,        \* accepted and not yet handled
          handled       \* executed, or thrown away because they had expired

qvars == <<queue, handled>>

QInit == queue = <<>> /\ handled = <<>>

Accept(x) == /\ queue' = Append(queue, x)
             /\ UNCHANGED handled

Handle == /\ queue # <<>>
          /\ handled' = Append(handled, Head(queue))
          /\ queue' = Tail(queue)

QNext == Handle \/ \E x \in Task : Accept(x)

QSpec == QInit /\ [][QNext]_qvars
=============================================================================
