----------------------------- MODULE GlobalEvents ----------------------------
(***************************************************************************)
(* Global events (globalevent.cpp): the events that think at intervals and *)
(* those of a time of the day are called from one chain of timers each,    *)
(* which is started when the first event of its kind is registered.        *)
(* Events come from globalevents.xml and from the scripts of data/scripts, *)
(* and each of the two can be loaded again while the server runs.          *)
(*                                                                         *)
(* Abstracted: when an event is due; the events of startup, shutdown and   *)
(* record, which have no timers.                                           *)
(***************************************************************************)
EXTENDS Timers, FiniteSets

CONSTANTS Events,           \* those of the files
          OfKind(_),        \* "think" or "timer"
          FromLua(_),
          MaxTimers         \* timers of a kind, at most

(* Assumed where this module is instantiated. *)
GlobalEventsAssumption ==
  /\ IsFiniteSet(Events)
  /\ \A e \in Events : OfKind(e) \in {"think", "timer"} /\ FromLua(e) \in BOOLEAN

VARIABLE s

Kinds == {"think", "timer"}
Ids == Nat

TypeOK == /\ s.registered \subseteq Events
          /\ s.eventId \in [Kinds -> Ids]           \* thinkEventId, timerEventId
          /\ s.timers \subseteq [id : Ids, task : Kinds, handed : BOOLEAN]

-----------------------------------------------------------------------------
(* Each kind has its map and its id. *)
Schedule(t, kind) ==
  LET n == FreshEventId(t.timers, {t.eventId[k] : k \in Kinds})
  IN  [t EXCEPT !.timers = AddEvent(@, n, kind), !.eventId[kind] = n]

(* clear(fromLua).  A mutant forgets to reset the ids. *)
ClearKeepsIds(t, fromLua) ==
  [t EXCEPT !.timers = StopEvent(StopEvent(@, t.eventId["think"]), t.eventId["timer"]),
            !.registered = {e \in @ : FromLua(e) # fromLua}]
Clear(t, fromLua) ==
  [t EXCEPT !.timers = StopEvent(StopEvent(@, t.eventId["think"]), t.eventId["timer"]),
            !.eventId = [k \in Kinds |-> 0],
            !.registered = {e \in @ : FromLua(e) # fromLua}]

(* registerEvent and registerLuaEvent, of all events of one origin *)
Register(t, fromLua) ==
  LET new == {e \in Events : FromLua(e) = fromLua} \ t.registered
      Start(u, kind) == IF (\E e \in new : OfKind(e) = kind) /\ u.eventId[kind] = 0
                        THEN Schedule(u, kind) ELSE u
  IN  [Start(Start(t, "think"), "timer") EXCEPT !.registered = @ \cup new]

Init == s = Register(Register([registered |-> {}, eventId |-> [k \in Kinds |-> 0], timers |-> {}],
                              FALSE), TRUE)

(* RELOAD_TYPE_GLOBALEVENTS, and RELOAD_TYPE_SCRIPTS *)
Reload(fromLua) == s' = Register(Clear(s, fromLua), fromLua)

(* The scheduler gives a timer to the dispatcher. *)
Hand(e) == ~e.handed /\ s' = [s EXCEPT !.timers = Handed(@, e)]

(* think() and timer(): a timer event whose script fails is removed, a      *)
(* think event is not.                                                      *)
Run(e, failed) ==
  /\ e.handed
  /\ failed \subseteq {x \in s.registered : OfKind(x) = "timer" /\ e.task = "timer"}
  /\ LET left == s.registered \ failed
         done == [s EXCEPT !.timers = @ \ {e}, !.registered = left]
     IN  s' = IF \E x \in left : OfKind(x) = e.task THEN Schedule(done, e.task) ELSE done

(* Two chains never become one again, so that reloads can pile them up. *)
Bounded(e) == Cardinality({x \in s.timers : x.task = e.task}) < MaxTimers

Next == \/ \E fromLua \in BOOLEAN : /\ \A e \in s.timers : e.handed => Bounded(e)
                                    /\ Reload(fromLua)
        \/ \E e \in s.timers : Hand(e) \/ \E failed \in SUBSET Events : Run(e, failed)

Spec == Init /\ [][Next]_s

-----------------------------------------------------------------------------
Registered(kind) == \E e \in s.registered : OfKind(e) = kind
BothOrigins(kind) ==
  \A fromLua \in BOOLEAN : \E e \in Events : OfKind(e) = kind /\ FromLua(e) = fromLua

(* Reloading, a failing script and a timer that can no longer be stopped:   *)
(* events of a kind that both origins have are always called again.         *)
ThinksOn == \A kind \in Kinds : BothOrigins(kind) /\ Registered(kind) => Pending(s.timers, kind)

(* globalevents.xml: <globalevent name="Server Save" time="09:55:00" .../>. *)
(* An event that is registered is called again, whatever is reloaded.       *)
TimersKept == \A kind \in Kinds : Registered(kind) => Pending(s.timers, kind)
=============================================================================
