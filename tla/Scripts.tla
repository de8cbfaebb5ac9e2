------------------------------ MODULE Scripts ------------------------------
(***************************************************************************)
(* Running Lua scripts (luascript.cpp, luascript.h): the environments of   *)
(* scripts that call each other through the events of the game, the query  *)
(* results they hold, and the functions they have called later.            *)
(*                                                                         *)
(* A frame is a script that runs; it is numbered like its environment in   *)
(* scriptEnv as long as scriptEnvIndex tells the truth.  Left out: the     *)
(* items scripts make, and what they do to the world.                      *)
(***************************************************************************)
EXTENDS Timers, Sequences, SequencesExt

CONSTANTS Limit,           \* 16 environments
          MaxOverflows, MaxTimers,
          Refs, NoRef,     \* the registry of Lua: references to functions
          Result           \* numbers of results

(* Assumed where this module is instantiated. *)
ScriptsAssumption ==
  /\ Limit \in Nat \ {0} /\ MaxOverflows \in Nat /\ MaxTimers \in Nat /\ NoRef \notin Refs

VARIABLE s

Frame == [held : SUBSET Result,       \* not freed by the script
          ref : Refs \cup {NoRef}]    \* of the timer event it runs for

TimerId == 1 .. MaxTimers
NoEvent == [ref |-> NoRef, event |-> 0]          \* no such timer event

TypeOK ==
  s \in [index : -1 .. Limit + MaxOverflows - 1,             \* scriptEnvIndex
         frames : UNION {[1 .. n -> Frame] : n \in 0 .. Limit},
         tempResults : SUBSET Result,
         registry : SUBSET Refs,
         timerEvents : [TimerId -> [ref : Refs \cup {NoRef}, event : Nat]],
         timers : SUBSET [id : Nat, task : TimerId, handed : BOOLEAN],
         bad : BOOLEAN]               \* a reference was used after its release

Init ==
  s = [index |-> -1, frames |-> <<>>, tempResults |-> {}, registry |-> {},
       timerEvents |-> [i \in TimerId |-> NoEvent], timers |-> {}, bad |-> FALSE]

-----------------------------------------------------------------------------
Running == s.frames # <<>>
Overflows == s.index - Len(s.frames) + 1

(* reserveScriptEnv, and the frame of the script if there is room *)
Reserve(t, ref) ==
  LET more == [t EXCEPT !.index = @ + 1]
  IN  IF more.index < Limit
      THEN [more EXCEPT !.frames = Append(@, [held |-> {}, ref |-> ref])] ELSE more

(* luaL_unref *)
Unref(t, ref) == [t EXCEPT !.registry = @ \ {ref}, !.bad = @ \/ ref \notin t.registry]

(* An event calls a script, within another script or by the dispatcher. *)
Call ==
  /\ s.index < Limit - 1 \/ Overflows < MaxOverflows
  /\ s' = Reserve(s, NoRef)

(* db.storeQuery, result.free *)
StoreQuery(r) ==
  /\ Running /\ r \notin s.tempResults
  /\ \A i \in DOMAIN s.frames : r \notin s.frames[i].held
  /\ s' = [s EXCEPT !.tempResults = @ \cup {r}, !.frames[Len(s.frames)].held = @ \cup {r}]

Free(r) ==
  /\ Running /\ r \in Last(s.frames).held
  /\ s' = [s EXCEPT !.tempResults = @ \ {r}, !.frames[Len(s.frames)].held = @ \ {r}]

(* The script returns: resetScriptEnv, which clears the results of all, and  *)
(* the end of executeTimerEvent.                                            *)
Return ==
  /\ Running
  /\ LET done == [s EXCEPT !.frames = Front(@), !.index = @ - 1, !.tempResults = {}]
         ref == Last(s.frames).ref
     IN  s' = IF ref = NoRef THEN done ELSE Unref(done, ref)

(* addEvent *)
AddTimer(i, ref) ==
  LET n == FreshEventId(s.timers, {s.timerEvents[j].event : j \in TimerId})
  IN  /\ Running /\ ref \notin s.registry
      /\ s.timerEvents[i] = NoEvent /\ ~ Pending(s.timers, i)
      /\ s' = [s EXCEPT !.registry = @ \cup {ref}, !.timers = AddEvent(@, n, i),
                        !.timerEvents[i] = [ref |-> ref, event |-> n]]

(* stopEvent.  Mutant: the entry stays. *)
StopTimerKeeps(i) ==
  /\ Running /\ s.timerEvents[i] # NoEvent
  /\ s' = Unref([s EXCEPT !.timers = StopEvent(@, s.timerEvents[i].event)], s.timerEvents[i].ref)
StopTimer(i) ==
  /\ Running /\ s.timerEvents[i] # NoEvent
  /\ s' = Unref([s EXCEPT !.timers = StopEvent(@, s.timerEvents[i].event),
                          !.timerEvents[i] = NoEvent], s.timerEvents[i].ref)

(* The scheduler gives a timer to the dispatcher. *)
Hand(e) == ~ e.handed /\ s' = [s EXCEPT !.timers = Handed(@, e)]

(* executeTimerEvent *)
RunTimer(e) ==
  LET ref == s.timerEvents[e.task].ref
      taken == [s EXCEPT !.timers = @ \ {e}, !.timerEvents[e.task] = NoEvent,
                         !.bad = @ \/ ref \notin s.registry]
      called == Reserve(taken, ref)
  IN  /\ e.handed /\ ~ Running
      /\ s.index < Limit - 1 \/ Overflows < MaxOverflows
      /\ s' = IF ref = NoRef THEN [s EXCEPT !.timers = @ \ {e}]
              ELSE IF called.frames = <<>> THEN Unref(called, ref) ELSE called

(* The references of the timer events *)
Referred == {s.timerEvents[i].ref : i \in TimerId} \ {NoRef}

(* LuaEnvironment::closeState, when the server ends *)
CloseState ==
  /\ ~ Running /\ Referred # {}
  /\ s' = [s EXCEPT !.registry = @ \ Referred, !.bad = @ \/ ~ Referred \subseteq s.registry,
                    !.timerEvents = [i \in TimerId |-> NoEvent]]

Next ==
  \/ Call \/ Return \/ CloseState
  \/ \E r \in Result : StoreQuery(r) \/ Free(r)
  \/ \E i \in TimerId : StopTimer(i) \/ \E ref \in Refs : AddTimer(i, ref)
  \/ \E e \in s.timers : Hand(e) \/ RunTimer(e)

Spec == Init /\ [][Next]_s

-----------------------------------------------------------------------------
(* A function given to addEvent is released once, by whichever of its call, *)
(* stopEvent and the end comes first, even between the timer and its task,  *)
(* and is not called after that; and none is forgotten.                     *)
FunctionsReleasedOnce ==
  /\ ~ s.bad
  /\ s.registry = Referred \cup ({s.frames[k].ref : k \in DOMAIN s.frames} \ {NoRef})

(* Not so: luascript.h:222 asserts scriptEnvIndex < 16 whenever a script     *)
(* asks for its environment; a call too deep is refused but counted.         *)
IndexInRange == Running => s.index = Len(s.frames) - 1

(* Nor this: a script keeps its query results until it returns; a script     *)
(* that is called meanwhile clears those of all.                             *)
ResultsKept == \A k \in DOMAIN s.frames : s.frames[k].held \subseteq s.tempResults
=============================================================================
