------------------------------- MODULE Timers -------------------------------
(***************************************************************************)
(* The scheduler (scheduler.cpp) as a client on the dispatcher thread sees *)
(* it; CreatureWalk has its detail.  A timer is a record of a set: it      *)
(* waits, then it is handed to the dispatcher, then its task runs.  To     *)
(* stop it removes it only as long as it waits.                            *)
(***************************************************************************)
EXTENDS Naturals, FiniteSets

(* addEvent: ids are not used again while anybody may remember them. *)
FreshEventId(timers, remembered) ==
  LET used == {e.id : e \in timers} \cup remembered
      free == (1..Cardinality(used) + 1) \ used
  IN  CHOOSE n \in free : \A m \in free : n <= m
AddEvent(timers, id, task) == timers \cup {[id |-> id, task |-> task, handed |-> FALSE]}

StopEvent(timers, id) == {e \in timers : e.id # id \/ e.handed}

Handed(timers, e) == (timers \ {e}) \cup {[e EXCEPT !.handed = TRUE]}

Pending(timers, task) == \E e \in timers : e.task = task
=============================================================================
