-------------------------------- MODULE Raids --------------------------------
(***************************************************************************)
(* Raids (raids.cpp): checkRaids runs every minute and may start a raid,   *)
(* which executes its events one after the other; only one raid may run.   *)
(* A reload stops the raids of the list and loads the list anew.           *)
(*                                                                         *)
(* Abstracted: chance, margins and delays; what an event does.  A raid is  *)
(* named by the load it comes from: a reload creates new objects.  An id   *)
(* whose timer has run is forgotten; the code keeps it, but to stop it     *)
(* does nothing.                                                           *)
(***************************************************************************)
EXTENDS Timers, FiniteSets

CONSTANTS Name, Repeats, NoRaid, Length, MaxReloads, MaxTimers

(* Assumed where this module is instantiated. *)
RaidsAssumption ==
  /\ Repeats \subseteq Name
  /\ Length \in Nat \ {0} /\ MaxReloads \in Nat /\ MaxTimers \in Nat
  /\ NoRaid \notin Name \X (0..MaxReloads)

VARIABLE s

Raid == Name \X (0..MaxReloads)
Loaded(load) == {<<n, load>> : n \in Name}
Ids == Nat

TypeOK == /\ s.load \in 0..MaxReloads
          /\ s.raidList \subseteq Raid
          /\ s.freed \subseteq Raid
          /\ s.running \in Raid \cup {NoRaid}
          /\ s.nextEvent \in [Raid -> 0..Length]
          /\ s.checkRaidsEvent \in Ids
          /\ s.nextEventEvent \in [Raid -> Ids]
          /\ s.timers \subseteq [id : Ids, task : Raid \cup {NoRaid}, handed : BOOLEAN]

-----------------------------------------------------------------------------
NewId(t) == FreshEventId(t.timers, {})

Ran(t, e) ==
  [t EXCEPT !.timers = @ \ {e}, !.checkRaidsEvent = IF @ = e.id THEN 0 ELSE @,
            !.nextEventEvent = [r \in Raid |-> IF @[r] = e.id THEN 0 ELSE @[r]]]

(* The timer of checkRaids has the task NoRaid. *)
ScheduleCheck(t) ==
  LET n == NewId(t) IN [t EXCEPT !.timers = AddEvent(@, n, NoRaid), !.checkRaidsEvent = n]
ScheduleEvent(t, r) ==
  LET n == NewId(t) IN [t EXCEPT !.timers = AddEvent(@, n, r), !.nextEventEvent[r] = n]

StartRaid(t, r) == ScheduleEvent([t EXCEPT !.running = r], r)

(* A mutant: the raid ends, and nobody says so. *)
ResetRaidAlone(t, r) == [t EXCEPT !.nextEvent[r] = 0]
ResetRaid(t, r) == [t EXCEPT !.nextEvent[r] = 0, !.running = NoRaid]

(* clear(), loadFromXml() and startup() *)
StopEvents(t, rs) ==
  [t EXCEPT !.timers = {e \in @ : e.handed \/ \A r \in rs : e.id # t.nextEventEvent[r]},
            !.nextEventEvent = [r \in Raid |-> IF r \in rs THEN 0 ELSE @[r]]]
Clear(t) ==
  LET stopped == StopEvents([t EXCEPT !.timers = StopEvent(@, t.checkRaidsEvent)], t.raidList)
  IN  [stopped EXCEPT !.freed = @ \cup t.raidList, !.raidList = {}, !.running = NoRaid,
                      !.checkRaidsEvent = 0]

Init == s = ScheduleCheck([load |-> 0, raidList |-> Loaded(0), freed |-> {}, running |-> NoRaid,
                           nextEvent |-> [r \in Raid |-> 0], checkRaidsEvent |-> 0,
                           nextEventEvent |-> [r \in Raid |-> 0], timers |-> {}])

Reload ==
  /\ s.load < MaxReloads
  /\ s' = ScheduleCheck([Clear(s) EXCEPT !.load = @ + 1, !.raidList = Loaded(s.load + 1)])

Hand(e) == ~e.handed /\ s' = [s EXCEPT !.timers = Handed(@, e)]

(* checkRaids: a raid that is not repeated leaves the list when it starts. *)
CheckRaids(e) ==
  /\ e.handed /\ e.task = NoRaid
  /\ LET done == Ran(s, e)
     IN  \/ s' = ScheduleCheck(done)
         \/ /\ s.running = NoRaid /\ Cardinality(s.timers) < MaxTimers
            /\ \E r \in s.raidList :
                 LET started == StartRaid(done, r)
                 IN  s' = ScheduleCheck(IF r[1] \in Repeats THEN started
                                        ELSE [started EXCEPT !.raidList = @ \ {r}])

(* Game.startRaid, of a script *)
LuaStartRaid(r) ==
  /\ r \in s.raidList /\ s.running = NoRaid
  /\ Cardinality(s.timers) < MaxTimers
  /\ s' = StartRaid(s, r)

(* executeRaidEvent; an event that fails ends the raid. *)
ExecuteRaidEvent(e, ok) ==
  /\ e.handed /\ e.task # NoRaid /\ e.task \notin s.freed
  /\ LET r    == e.task
         done == [Ran(s, e) EXCEPT !.nextEvent[r] = IF ok /\ @ < Length THEN @ + 1 ELSE @]
     IN  s' = IF ok /\ done.nextEvent[r] < Length THEN ScheduleEvent(done, r) ELSE ResetRaid(done, r)

(* The raid was deleted when its event was already on its way: what this    *)
(* does is undefined, and the behaviour ends here.                          *)
EventOfFreedRaid(e) ==
  e.handed /\ e.task \in s.freed /\ s' = [s EXCEPT !.timers = {}, !.raidList = {}, !.load = MaxReloads]

Next == \/ Reload
        \/ \E e \in s.timers : \/ Hand(e) \/ CheckRaids(e) \/ EventOfFreedRaid(e)
                               \/ \E ok \in BOOLEAN : ExecuteRaidEvent(e, ok)
        \/ \E r \in s.raidList : LuaStartRaid(r)

Spec == Init /\ [][Next]_s

-----------------------------------------------------------------------------
Executing == {r \in Raid : Pending(s.timers, r)}

(* However timers, scripts and reloads fall: raids are looked for again;    *)
(* the raid that keeps others from starting has an event to come, else      *)
(* there would be none any more; and until a reload only one executes.      *)
RaidsGoOn ==
  \/ s.timers = {}
  \/ /\ Pending(s.timers, NoRaid)
     /\ s.running # NoRaid => s.running \in Executing
     /\ s.load = 0 => Executing \subseteq {s.running}

(* luascript.cpp: "RETURNVALUE_ANOTHERRAIDISALREADYEXECUTING".  A raid that *)
(* left the list is not stopped by a reload, and lets others start.         *)
OneRaid == Cardinality(Executing) <= 1
=============================================================================
