------------------------- MODULE PlayersPartsProofs -------------------------
(***************************************************************************)
(* Proofs about five components of MCPlayers, for any numbers of players,  *)
(* containers, windows, buddies, scripts, raids, events and timers:        *)
(* global events, raids, the functions of scripts, lists of buddies and    *)
(* container windows.  PlayersProofs goes on with the others and puts all  *)
(* of them together.                                                       *)
(***************************************************************************)
EXTENDS MCPlayers, FiniteSetTheorems, SequenceTheorems, WellFoundedInduction, TLAPS

(* A set of naturals that is not empty has a least member. *)
LEMMA NatLeast ==
  ASSUME NEW S \in SUBSET Nat, S # {}
  PROVE  \E d \in S : \A e \in S : d <= e
<1>1. IsWellFoundedOn(OpToRel(<, Nat), Nat)
  BY NatLessThanWellFounded
<1>2. PICK d \in S : \A e \in S : ~ (<<e, d>> \in OpToRel(<, Nat))
  BY <1>1, WFMin
<1>3. \A e \in S : ~ (e < d)
  BY <1>2 DEF OpToRel
<1> QED BY <1>3

-----------------------------------------------------------------------------
(* Timers: an id that is fresh is one that nobody remembers.                  *)
FreshId(used) ==
  CHOOSE n \in (1 .. Cardinality(used) + 1) \ used :
    \A m \in (1 .. Cardinality(used) + 1) \ used : n <= m

LEMMA FiniteIds ==
  ASSUME NEW timers, IsFiniteSet(timers)
  PROVE  IsFiniteSet({e.id : e \in timers})
<1> DEFINE ids == {e.id : e \in timers}
           f == [e \in timers |-> e.id]
<1>1. f \in Surjection(timers, ids)
  BY DEF Surjection
<1> QED BY <1>1, FS_Surjection, Zenon

LEMMA FreshIdIs ==
  ASSUME NEW used, IsFiniteSet(used)
  PROVE  FreshId(used) \in Nat \ {0} /\ FreshId(used) \notin used
<1>1. Cardinality(used) \in Nat
  BY FS_CardinalityType
<1> DEFINE all == 1 .. Cardinality(used) + 1
           free == all \ used
<1>2. IsFiniteSet(all) /\ Cardinality(all) = Cardinality(used) + 1
  BY <1>1, FS_Interval
<1>3. free # {}
  <2>1. ~ all \subseteq used
    BY <1>1, <1>2, FS_Subset
  <2> QED BY <2>1
<1>4. PICK n \in free : \A m \in free : n <= m
  <2>1. free \in SUBSET Nat
    BY <1>1
  <2> HIDE DEF free
  <2> QED BY <1>3, <2>1, NatLeast
<1>5. FreshId(used) \in free
  BY <1>4 DEF FreshId
<1> QED BY <1>1, <1>5

-----------------------------------------------------------------------------
(* GlobalEvents *)

Thought == [id : Nat, task : GlobalEvents!Kinds, handed : BOOLEAN]
EventsState == [registered : SUBSET (Thinks \cup Clocks), eventId : [GlobalEvents!Kinds -> Nat],
                timers : SUBSET Thought]
EventsIn(t) == t \in EventsState /\ IsFiniteSet(t.timers)

EventsInv == EventsIn(s) /\ GlobalEvents!ThinksOn

LEMMA EventsFresh ==
  ASSUME NEW t, EventsIn(t)
  PROVE  GlobalEvents!FreshEventId(t.timers, {t.eventId[k] : k \in GlobalEvents!Kinds}) \in Nat
<1> DEFINE ids == {e.id : e \in t.timers}
           kept == {t.eventId[k] : k \in GlobalEvents!Kinds}
           used == ids \cup kept
<1>1. IsFiniteSet(ids)
  BY FiniteIds DEF EventsIn
<1>2. IsFiniteSet(kept)
  <2>1. kept = {t.eventId["think"]} \cup {t.eventId["timer"]}
    BY DEF GlobalEvents!Kinds
  <2>2. IsFiniteSet({t.eventId["think"]}) /\ IsFiniteSet({t.eventId["timer"]})
    BY FS_Singleton
  <2> DEFINE a == {t.eventId["think"]}
             b == {t.eventId["timer"]}
  <2> HIDE DEF a, b, kept
  <2>3. IsFiniteSet(a) /\ IsFiniteSet(b) /\ kept = a \cup b
    BY <2>1, <2>2 DEF a, b
  <2> QED BY <2>3, FS_Union
<1>3. IsFiniteSet(used)
  BY <1>1, <1>2, FS_Union
<1>4. FreshId(used) \in Nat
  BY <1>3, FreshIdIs
<1>5. GlobalEvents!FreshEventId(t.timers, kept) = FreshId(used)
  BY DEF GlobalEvents!FreshEventId, FreshId, GlobalEvents!Cardinality, Cardinality
<1> QED BY <1>4, <1>5

(* A timer is started. *)
LEMMA EventsSchedule ==
  ASSUME NEW t, EventsIn(t), NEW kind \in GlobalEvents!Kinds,
         NEW u, u = GlobalEvents!Schedule(t, kind)
  PROVE  /\ EventsIn(u) /\ u.registered = t.registered
         /\ \E e \in u.timers : e.task = kind
         /\ t.timers \subseteq u.timers
         /\ \A k \in GlobalEvents!Kinds \ {kind} : u.eventId[k] = t.eventId[k]
<1> DEFINE n == GlobalEvents!FreshEventId(t.timers, {t.eventId[k] : k \in GlobalEvents!Kinds})
           e == [id |-> n, task |-> kind, handed |-> FALSE]
           timers == t.timers \cup {e}
           ids == [t.eventId EXCEPT ![kind] = n]
<1>1. n \in Nat
  BY EventsFresh
<1>2. u = [t EXCEPT !.timers = timers, !.eventId[kind] = n]
  BY DEF GlobalEvents!Schedule, GlobalEvents!AddEvent
<1>3. /\ t.registered \in SUBSET (Thinks \cup Clocks) /\ t.eventId \in [GlobalEvents!Kinds -> Nat]
      /\ t.timers \in SUBSET Thought /\ t \in EventsState
  BY DEF EventsIn, EventsState
<1> HIDE DEF n
<1>4. timers \in SUBSET Thought /\ IsFiniteSet(timers) /\ e \in timers /\ e.task = kind
  <2>1. e \in Thought /\ e.task = kind
    BY <1>1 DEF Thought
  <2> HIDE DEF e
  <2>2. IsFiniteSet(timers)
    BY FS_AddElement DEF EventsIn
  <2> QED BY <1>3, <2>1, <2>2
<1>5. ids \in [GlobalEvents!Kinds -> Nat] /\ \A k \in GlobalEvents!Kinds \ {kind} : ids[k] = t.eventId[k]
  BY <1>1, <1>3
<1> HIDE DEF timers, e
<1>6. u = [t EXCEPT !.timers = timers, !.eventId = ids]
  BY <1>2, <1>3 DEF EventsState
<1> HIDE DEF ids
<1>7. u \in EventsState /\ u.timers = timers /\ u.eventId = ids /\ u.registered = t.registered
  BY <1>3, <1>4, <1>5, <1>6 DEF EventsState
<1> QED BY <1>4, <1>5, <1>7 DEF EventsIn, timers

(* What a registration of one origin adds. *)
EventsNew(t, fromLua) == {e \in Thinks \cup Clocks : IsLua(e) = fromLua} \ t.registered

(* The events of one origin are registered: the timers that there were are    *)
(* still there, and a kind without one that gets an event gets a timer.       *)
LEMMA EventsRegister ==
  ASSUME NEW t, EventsIn(t), NEW fromLua \in BOOLEAN,
         NEW u, u = GlobalEvents!Register(t, fromLua),
         NEW new, new = EventsNew(t, fromLua)
  PROVE  /\ EventsIn(u) /\ u.registered = t.registered \cup new
         /\ t.timers \subseteq u.timers
         /\ \A kind \in GlobalEvents!Kinds :
              (\E e \in new : KindOf(e) = kind) /\ t.eventId[kind] = 0 =>
                \E e \in u.timers : e.task = kind
<1> DEFINE Start(v, kind) == IF (\E e \in new : KindOf(e) = kind) /\ v.eventId[kind] = 0
                             THEN GlobalEvents!Schedule(v, kind) ELSE v
           v1 == Start(t, "think")
           v2 == Start(v1, "timer")
<1>1. u = [v2 EXCEPT !.registered = @ \cup new]
  BY DEF GlobalEvents!Register, EventsNew
<1>2. ASSUME NEW v, EventsIn(v), NEW kind \in GlobalEvents!Kinds
      PROVE  /\ EventsIn(Start(v, kind)) /\ Start(v, kind).registered = v.registered
             /\ v.timers \subseteq Start(v, kind).timers
             /\ \A k \in GlobalEvents!Kinds \ {kind} : Start(v, kind).eventId[k] = v.eventId[k]
             /\ (\E e \in new : KindOf(e) = kind) /\ v.eventId[kind] = 0 =>
                  \E e \in Start(v, kind).timers : e.task = kind
  <2> DEFINE w == GlobalEvents!Schedule(v, kind)
  <2> HIDE DEF w
  <2>1. w = GlobalEvents!Schedule(v, kind)
    BY DEF w
  <2>2. /\ EventsIn(w) /\ w.registered = v.registered
        /\ \E e \in w.timers : e.task = kind
        /\ v.timers \subseteq w.timers
        /\ \A k \in GlobalEvents!Kinds \ {kind} : w.eventId[k] = v.eventId[k]
    BY <1>2, <2>1, EventsSchedule
  <2> QED BY <1>2, <2>2 DEF w
<1> HIDE DEF Start
<1>3. "think" \in GlobalEvents!Kinds /\ "timer" \in GlobalEvents!Kinds \ {"think"}
      /\ GlobalEvents!Kinds = {"think", "timer"}
  BY DEF GlobalEvents!Kinds
<1>4. /\ EventsIn(v1) /\ v1.registered = t.registered /\ t.timers \subseteq v1.timers
      /\ v1.eventId["timer"] = t.eventId["timer"]
      /\ (\E e \in new : KindOf(e) = "think") /\ t.eventId["think"] = 0 =>
           \E e \in v1.timers : e.task = "think"
  BY <1>2, <1>3
<1> HIDE DEF v1
<1>5. /\ EventsIn(v2) /\ v2.registered = v1.registered /\ v1.timers \subseteq v2.timers
      /\ (\E e \in new : KindOf(e) = "timer") /\ v1.eventId["timer"] = 0 =>
           \E e \in v2.timers : e.task = "timer"
  BY <1>2, <1>3, <1>4
<1> HIDE DEF v2
<1>6. /\ EventsIn(u) /\ u.timers = v2.timers /\ u.registered = t.registered \cup new
  <2>1. new \subseteq Thinks \cup Clocks
    BY DEF EventsNew
  <2>2. v2 \in EventsState
    BY <1>5 DEF EventsIn
  <2>3. u \in EventsState /\ u.timers = v2.timers /\ u.registered = v2.registered \cup new
    BY <1>1, <2>1, <2>2 DEF EventsState
  <2> QED BY <1>4, <1>5, <2>3 DEF EventsIn
<1> QED BY <1>3, <1>4, <1>5, <1>6

(* Those of one origin are taken away, and all timers that still wait. *)
LEMMA EventsClear ==
  ASSUME NEW t, EventsIn(t), NEW fromLua \in BOOLEAN, NEW u, u = GlobalEvents!Clear(t, fromLua)
  PROVE  /\ EventsIn(u) /\ u.registered = {e \in t.registered : IsLua(e) # fromLua}
         /\ \A kind \in GlobalEvents!Kinds : u.eventId[kind] = 0
<1> DEFINE timers == GlobalEvents!StopEvent(GlobalEvents!StopEvent(t.timers, t.eventId["think"]),
                                            t.eventId["timer"])
           ids == [k \in GlobalEvents!Kinds |-> 0]
           left == {e \in t.registered : IsLua(e) # fromLua}
<1>1. u = [t EXCEPT !.timers = timers, !.eventId = ids, !.registered = left]
  BY DEF GlobalEvents!Clear
<1>2. timers \subseteq t.timers
  BY DEF GlobalEvents!StopEvent
<1>3. ids \in [GlobalEvents!Kinds -> Nat] /\ \A kind \in GlobalEvents!Kinds : ids[kind] = 0
  OBVIOUS
<1>4. left \subseteq t.registered
  OBVIOUS
<1> HIDE DEF timers, ids, left
<1>5. /\ u \in EventsState /\ u.timers = timers /\ u.eventId = ids /\ u.registered = left
  BY <1>1, <1>2, <1>3, <1>4 DEF EventsIn, EventsState
<1>6. IsFiniteSet(timers)
  BY <1>2, FS_Subset DEF EventsIn
<1> QED BY <1>3, <1>5, <1>6 DEF EventsIn, left

LEMMA EventsReload ==
  ASSUME EventsInv, NEW fromLua \in BOOLEAN, GlobalEvents!Reload(fromLua) PROVE EventsInv'
<1> DEFINE t == GlobalEvents!Clear(s, fromLua)
           new == EventsNew(t, fromLua)
<1>1. s' = GlobalEvents!Register(t, fromLua)
  BY DEF GlobalEvents!Reload
<1>2. /\ EventsIn(t) /\ t.registered = {e \in s.registered : IsLua(e) # fromLua}
      /\ \A kind \in GlobalEvents!Kinds : t.eventId[kind] = 0
  BY EventsClear DEF EventsInv
<1> HIDE DEF t
<1>3. /\ EventsIn(s') /\ s'.registered = t.registered \cup new
      /\ \A kind \in GlobalEvents!Kinds :
           (\E e \in new : KindOf(e) = kind) /\ t.eventId[kind] = 0 =>
             \E e \in s'.timers : e.task = kind
  <2> HIDE DEF new
  <2>1. new = EventsNew(t, fromLua)
    BY DEF new
  <2> QED BY <1>1, <1>2, <2>1, EventsRegister
<1>4. ASSUME NEW kind \in GlobalEvents!Kinds, GlobalEvents!BothOrigins(kind)
      PROVE  \E e \in s'.timers : e.task = kind
  <2>1. PICK e \in Thinks \cup Clocks : KindOf(e) = kind /\ IsLua(e) = fromLua
    BY <1>4 DEF GlobalEvents!BothOrigins
  <2>2. e \in new
    BY <1>2, <2>1 DEF EventsNew
  <2> QED BY <1>2, <1>3, <2>1, <2>2
<1> QED BY <1>3, <1>4 DEF EventsInv, GlobalEvents!ThinksOn, GlobalEvents!Pending

LEMMA EventsHand ==
  ASSUME EventsInv, NEW e \in s.timers, GlobalEvents!Hand(e) PROVE EventsInv'
<1> DEFINE h == [e EXCEPT !.handed = TRUE]
           timers == (s.timers \ {e}) \cup {h}
<1>1. /\ s \in EventsState /\ IsFiniteSet(s.timers) /\ e \in Thought
  BY DEF EventsInv, EventsIn, EventsState
<1>2. s' = [s EXCEPT !.timers = timers]
  BY DEF GlobalEvents!Hand, GlobalEvents!Handed
<1>3. h \in Thought /\ h.task = e.task
  BY <1>1 DEF Thought
<1> HIDE DEF h
<1>4. IsFiniteSet(s.timers \ {e})
  BY <1>1, FS_RemoveElement
<1>5. IsFiniteSet(timers)
  BY <1>4, FS_AddElement
<1>6. timers \subseteq Thought /\ \A x \in s.timers : \E y \in timers : y.task = x.task
  BY <1>1, <1>3 DEF EventsState
<1> HIDE DEF timers
<1>7. s' \in EventsState /\ s'.timers = timers /\ s'.registered = s.registered
  BY <1>1, <1>2, <1>6 DEF EventsState
<1>8. GlobalEvents!ThinksOn'
  <2>1. ASSUME NEW kind \in GlobalEvents!Kinds, GlobalEvents!Pending(s.timers, kind)
        PROVE  GlobalEvents!Pending(s'.timers, kind)
    BY <1>6, <1>7, <2>1 DEF GlobalEvents!Pending
  <2> QED BY <1>7, <2>1 DEF EventsInv, GlobalEvents!ThinksOn, GlobalEvents!Registered
<1> QED BY <1>5, <1>7, <1>8 DEF EventsInv, EventsIn

LEMMA EventsRun ==
  ASSUME EventsInv, NEW e \in s.timers, NEW failed, GlobalEvents!Run(e, failed) PROVE EventsInv'
<1> DEFINE left == s.registered \ failed
           timers == s.timers \ {e}
           done == [s EXCEPT !.timers = timers, !.registered = left]
           again == GlobalEvents!Schedule(done, e.task)
<1>1. /\ s \in EventsState /\ IsFiniteSet(s.timers) /\ e \in Thought /\ GlobalEvents!ThinksOn
      /\ left \subseteq s.registered
  BY DEF EventsInv, EventsIn, EventsState
<1>2. s' = IF \E x \in left : KindOf(x) = e.task THEN again ELSE done
  BY DEF GlobalEvents!Run
<1>3. IsFiniteSet(timers)
  BY <1>1, FS_RemoveElement
<1> HIDE DEF left, timers
<1>4. /\ done \in EventsState /\ done.timers = timers /\ done.registered = left
  BY <1>1 DEF EventsState, timers
<1>5. EventsIn(done)
  BY <1>3, <1>4 DEF EventsIn
<1> HIDE DEF done
<1>6. e.task \in GlobalEvents!Kinds
  BY <1>1 DEF Thought
<1>7. /\ EventsIn(again) /\ again.registered = left
      /\ \E x \in again.timers : x.task = e.task
      /\ timers \subseteq again.timers
  BY <1>4, <1>5, <1>6, EventsSchedule
<1> HIDE DEF again
<1>8. EventsIn(s') /\ s'.registered = left /\ timers \subseteq s'.timers
  BY <1>2, <1>4, <1>5, <1>7
<1>9. ASSUME NEW kind \in GlobalEvents!Kinds, GlobalEvents!BothOrigins(kind),
             \E x \in left : KindOf(x) = kind
      PROVE  \E x \in s'.timers : x.task = kind
  <2>1. CASE kind = e.task
    BY <1>2, <1>7, <1>9, <2>1
  <2>2. CASE kind # e.task
    <3>1. \E x \in s.timers : x.task = kind
      BY <1>1, <1>9 DEF GlobalEvents!ThinksOn, GlobalEvents!Registered, GlobalEvents!Pending
    <3> QED BY <1>8, <2>2, <3>1 DEF timers
  <2> QED BY <2>1, <2>2
<1> QED BY <1>8, <1>9 DEF EventsInv, GlobalEvents!ThinksOn, GlobalEvents!Registered, GlobalEvents!Pending

LEMMA EventsInit == GlobalEvents!Init => EventsInv
<1> SUFFICES ASSUME GlobalEvents!Init PROVE EventsInv
  OBVIOUS
<1> DEFINE t == [registered |-> {}, eventId |-> [k \in GlobalEvents!Kinds |-> 0], timers |-> {}]
           u == GlobalEvents!Register(t, FALSE)
           first == EventsNew(t, FALSE)
           second == EventsNew(u, TRUE)
<1>1. /\ EventsIn(t) /\ t.registered = {} /\ \A kind \in GlobalEvents!Kinds : t.eventId[kind] = 0
  <2>1. IsFiniteSet({})
    BY FS_EmptySet
  <2> QED BY <2>1 DEF EventsIn, EventsState
<1>2. s = GlobalEvents!Register(u, TRUE)
  BY DEF GlobalEvents!Init
<1> HIDE DEF t
<1>3. PICK no \in BOOLEAN, yes \in BOOLEAN : no = FALSE /\ yes = TRUE
  OBVIOUS
<1>4. /\ EventsIn(u) /\ u.registered = t.registered \cup first
      /\ \A kind \in GlobalEvents!Kinds :
           (\E e \in first : KindOf(e) = kind) /\ t.eventId[kind] = 0 =>
             \E e \in u.timers : e.task = kind
  <2> HIDE DEF u, first
  <2>1. u = GlobalEvents!Register(t, no)
    BY <1>3 DEF u
  <2>2. first = EventsNew(t, no)
    BY <1>3 DEF first
  <2>3. EventsIn(t)
    BY <1>1
  <2>4. EventsIn(u) /\ u.registered = t.registered \cup first
    BY <2>1, <2>2, <2>3, EventsRegister
  <2>5. ASSUME NEW kind \in GlobalEvents!Kinds, \E e \in first : KindOf(e) = kind, t.eventId[kind] = 0
        PROVE  \E e \in u.timers : e.task = kind
    BY <2>1, <2>2, <2>3, <2>5, EventsRegister
  <2> QED BY <2>4, <2>5
<1> HIDE DEF u
<1>5. /\ EventsIn(s) /\ u.timers \subseteq s.timers
  <2> HIDE DEF second
  <2>1. s = GlobalEvents!Register(u, yes)
    BY <1>2, <1>3
  <2>2. second = EventsNew(u, yes)
    BY <1>3 DEF second
  <2> QED BY <1>4, <2>1, <2>2, EventsRegister
<1>6. ASSUME NEW kind \in GlobalEvents!Kinds, GlobalEvents!BothOrigins(kind)
      PROVE  \E e \in s.timers : e.task = kind
  <2>1. PICK e \in Thinks \cup Clocks : KindOf(e) = kind /\ IsLua(e) = FALSE
    BY <1>6 DEF GlobalEvents!BothOrigins
  <2>2. e \in first
    BY <1>1, <2>1 DEF EventsNew
  <2> QED BY <1>1, <1>4, <1>5, <2>1, <2>2
<1> QED BY <1>5, <1>6 DEF EventsInv, GlobalEvents!ThinksOn, GlobalEvents!Pending

LEMMA EventsStutter == EventsInv /\ UNCHANGED s => EventsInv'
BY DEF EventsInv, EventsIn, GlobalEvents!ThinksOn, GlobalEvents!Registered

LEMMA EventsStep == EventsInv /\ GlobalEvents!Next => EventsInv'
BY EventsReload, EventsHand, EventsRun DEF GlobalEvents!Next

LEMMA EventsHold == EventsInv => GlobalEvents!TypeOK /\ GlobalEvents!ThinksOn
BY DEF EventsInv, EventsIn, EventsState, Thought, GlobalEvents!TypeOK, GlobalEvents!Ids

(* However scripts fail, events are loaded again and timers can no longer be  *)
(* stopped: events of a kind that files and scripts both have go on being     *)
(* called (globalevent.cpp), for any events and any number of timers.         *)
THEOREM EventsThink == GlobalEvents!Spec => [](GlobalEvents!TypeOK /\ GlobalEvents!ThinksOn)
<1>1. EventsInv /\ [GlobalEvents!Next]_s => EventsInv'
  BY EventsStep, EventsStutter
<1> QED BY <1>1, EventsInit, EventsHold, PTL DEF GlobalEvents!Spec

-----------------------------------------------------------------------------
(* Raids *)

LEMMA RaidsConstants ==
  RaidLength \in Nat \ {0} /\ RaidReloads \in Nat /\ none \notin Raids!Raid
BY PlayersAssumption DEF Raids!RaidsAssumption, Raids!Raid

RaidTimer == [id : Nat, task : Raids!Raid \cup {none}, handed : BOOLEAN]
RaidsState ==
  [load : 0 .. RaidReloads, raidList : SUBSET Raids!Raid, freed : SUBSET Raids!Raid,
   running : Raids!Raid \cup {none}, nextEvent : [Raids!Raid -> 0 .. RaidLength],
   checkRaidsEvent : Nat, nextEventEvent : [Raids!Raid -> Nat], timers : SUBSET RaidTimer]
RaidsIn(t) == t \in RaidsState /\ IsFiniteSet(t.timers)

(* Raids are looked for; the raid that runs has an event to come; and as long *)
(* as nothing was loaded again, no other raid has one, and it has but one.    *)
Ongoing(t) ==
  /\ t.timers = {} => t.raidList = {} /\ t.load = RaidReloads
  /\ t.timers # {} => \E e \in t.timers : e.task = none
  /\ t.timers # {} /\ t.running # none => \E e \in t.timers : e.task = t.running
  /\ t.load = 0 => /\ \A e \in t.timers : e.task # none => e.task = t.running
                   /\ \A e, f \in t.timers : e.task # none /\ f.task # none => e = f

RaidsInv == RaidsIn(s) /\ Ongoing(s)

LEMMA RaidsFresh ==
  ASSUME NEW t, RaidsIn(t) PROVE Raids!NewId(t) \in Nat
<1> DEFINE ids == {e.id : e \in t.timers}
<1>1. IsFiniteSet(ids)
  BY FiniteIds DEF RaidsIn
<1>2. ids \cup {} = ids
  OBVIOUS
<1>3. FreshId(ids) \in Nat
  BY <1>1, FreshIdIs
<1>4. Raids!NewId(t) = FreshId(ids)
  BY <1>2 DEF Raids!NewId, Raids!FreshEventId, FreshId, Raids!Cardinality, Cardinality
<1> QED BY <1>3, <1>4

(* What another timer leaves as it was. *)
Alike(u, t) ==
  /\ u.load = t.load /\ u.raidList = t.raidList /\ u.freed = t.freed
  /\ u.running = t.running /\ u.nextEvent = t.nextEvent

LEMMA RaidsTimer ==
  ASSUME NEW t, RaidsIn(t), NEW id \in Nat, NEW task \in Raids!Raid \cup {none}
  PROVE  /\ Raids!AddEvent(t.timers, id, task) \in SUBSET RaidTimer
         /\ IsFiniteSet(Raids!AddEvent(t.timers, id, task))
<1> DEFINE e == [id |-> id, task |-> task, handed |-> FALSE]
<1>1. e \in RaidTimer
  BY DEF RaidTimer
<1>2. Raids!AddEvent(t.timers, id, task) = t.timers \cup {e}
  BY DEF Raids!AddEvent
<1> HIDE DEF e
<1>3. IsFiniteSet(t.timers \cup {e})
  BY FS_AddElement DEF RaidsIn
<1> QED BY <1>1, <1>2, <1>3 DEF RaidsIn, RaidsState

LEMMA RaidsCheckAgain ==
  ASSUME NEW t, RaidsIn(t), NEW u, u = Raids!ScheduleCheck(t)
  PROVE  /\ RaidsIn(u) /\ Alike(u, t)
         /\ \E e : e.task = none /\ u.timers = t.timers \cup {e}
<1> DEFINE n == Raids!NewId(t)
           timers == Raids!AddEvent(t.timers, n, none)
<1>1. n \in Nat
  BY RaidsFresh
<1>2. u = [t EXCEPT !.timers = timers, !.checkRaidsEvent = n]
  BY DEF Raids!ScheduleCheck
<1> HIDE DEF n
<1>3. timers \in SUBSET RaidTimer /\ IsFiniteSet(timers)
  BY <1>1, RaidsTimer
<1>4. timers = t.timers \cup {[id |-> n, task |-> none, handed |-> FALSE]}
  BY DEF Raids!AddEvent
<1> HIDE DEF timers
<1>5. u \in RaidsState /\ u.timers = timers /\ Alike(u, t)
  BY <1>1, <1>2, <1>3 DEF RaidsIn, RaidsState, Alike
<1> QED BY <1>3, <1>4, <1>5 DEF RaidsIn

LEMMA RaidsEventAgain ==
  ASSUME NEW t, RaidsIn(t), NEW r \in Raids!Raid, NEW u, u = Raids!ScheduleEvent(t, r)
  PROVE  /\ RaidsIn(u) /\ Alike(u, t)
         /\ \E e : e.task = r /\ u.timers = t.timers \cup {e}
<1> DEFINE n == Raids!NewId(t)
           timers == Raids!AddEvent(t.timers, n, r)
           events == [t.nextEventEvent EXCEPT ![r] = n]
<1>1. n \in Nat
  BY RaidsFresh
<1>2. u = [t EXCEPT !.timers = timers, !.nextEventEvent[r] = n]
  BY DEF Raids!ScheduleEvent
<1> HIDE DEF n
<1>3. timers \in SUBSET RaidTimer /\ IsFiniteSet(timers)
  BY <1>1, RaidsTimer
<1>4. timers = t.timers \cup {[id |-> n, task |-> r, handed |-> FALSE]}
  BY DEF Raids!AddEvent
<1> HIDE DEF timers
<1>5. events \in [Raids!Raid -> Nat]
  BY <1>1 DEF RaidsIn, RaidsState
<1>6. u = [t EXCEPT !.timers = timers, !.nextEventEvent = events]
  BY <1>2 DEF RaidsIn, RaidsState
<1> HIDE DEF events
<1>7. u \in RaidsState /\ u.timers = timers /\ Alike(u, t)
  BY <1>1, <1>3, <1>5, <1>6 DEF RaidsIn, RaidsState, Alike
<1> QED BY <1>3, <1>4, <1>7 DEF RaidsIn

LEMMA RaidsStart ==
  ASSUME NEW t, RaidsIn(t), NEW r \in Raids!Raid, NEW u, u = Raids!StartRaid(t, r)
  PROVE  /\ RaidsIn(u) /\ u.running = r
         /\ u.load = t.load /\ u.raidList = t.raidList
         /\ \E e : e.task = r /\ u.timers = t.timers \cup {e}
<1> DEFINE v == [t EXCEPT !.running = r]
<1>1. u = Raids!ScheduleEvent(v, r)
  BY DEF Raids!StartRaid
<1>2. /\ v \in RaidsState /\ v.timers = t.timers /\ v.running = r
      /\ v.load = t.load /\ v.raidList = t.raidList
  BY DEF RaidsIn, RaidsState
<1> HIDE DEF v
<1>3. RaidsIn(v)
  BY <1>2 DEF RaidsIn
<1>4. /\ RaidsIn(u) /\ Alike(u, v)
      /\ \E e : e.task = r /\ u.timers = v.timers \cup {e}
  BY <1>1, <1>3, RaidsEventAgain
<1> QED BY <1>2, <1>4 DEF Alike

LEMMA RaidsRan ==
  ASSUME NEW t, RaidsIn(t), NEW e \in t.timers, NEW u, u = Raids!Ran(t, e)
  PROVE  RaidsIn(u) /\ Alike(u, t) /\ u.timers = t.timers \ {e}
<1> DEFINE timers == t.timers \ {e}
           check == IF t.checkRaidsEvent = e.id THEN 0 ELSE t.checkRaidsEvent
           events == [r \in Raids!Raid |-> IF t.nextEventEvent[r] = e.id THEN 0 ELSE t.nextEventEvent[r]]
<1>1. u = [t EXCEPT !.timers = timers, !.checkRaidsEvent = check, !.nextEventEvent = events]
  BY DEF Raids!Ran
<1>2. timers \in SUBSET RaidTimer /\ check \in Nat /\ events \in [Raids!Raid -> Nat]
  BY DEF RaidsIn, RaidsState
<1>3. IsFiniteSet(timers)
  BY FS_RemoveElement DEF RaidsIn
<1> HIDE DEF timers, check, events
<1>4. u \in RaidsState /\ u.timers = timers /\ Alike(u, t)
  BY <1>1, <1>2 DEF RaidsIn, RaidsState, Alike
<1> QED BY <1>3, <1>4 DEF RaidsIn, timers

LEMMA RaidsClear ==
  ASSUME NEW t, RaidsIn(t), NEW u, u = Raids!Clear(t)
  PROVE  RaidsIn(u) /\ u.load = t.load /\ u.running = none
<1> DEFINE awake == Raids!StopEvent(t.timers, t.checkRaidsEvent)
           t1 == [t EXCEPT !.timers = awake]
           timers == {e \in t1.timers : e.handed \/ \A r \in t.raidList : e.id # t1.nextEventEvent[r]}
           events == [r \in Raids!Raid |-> IF r \in t.raidList THEN 0 ELSE t1.nextEventEvent[r]]
           t2 == [t1 EXCEPT !.timers = timers, !.nextEventEvent = events]
           freed == t2.freed \cup t.raidList
<1>1. u = [t2 EXCEPT !.freed = freed, !.raidList = {}, !.running = none, !.checkRaidsEvent = 0]
  BY DEF Raids!Clear, Raids!StopEvents
<1>2. /\ t \in RaidsState /\ t.timers \in SUBSET RaidTimer /\ t.raidList \in SUBSET Raids!Raid
      /\ IsFiniteSet(t.timers)
  BY DEF RaidsIn, RaidsState
<1>3. awake \subseteq t.timers
  BY DEF Raids!StopEvent
<1> HIDE DEF awake
<1>4. /\ t1 \in RaidsState /\ t1.timers = awake /\ t1.load = t.load
      /\ t1.nextEventEvent \in [Raids!Raid -> Nat]
  BY <1>2, <1>3 DEF RaidsState
<1> HIDE DEF t1
<1>5. timers \subseteq t.timers /\ events \in [Raids!Raid -> Nat]
  BY <1>3, <1>4
<1> HIDE DEF timers, events
<1>6. /\ t2 \in RaidsState /\ t2.timers = timers /\ t2.load = t.load
      /\ t2.freed \in SUBSET Raids!Raid
  BY <1>2, <1>4, <1>5 DEF RaidsState
<1> HIDE DEF t2
<1>7. freed \in SUBSET Raids!Raid
  BY <1>2, <1>6
<1> HIDE DEF freed
<1>8. u \in RaidsState /\ u.timers = timers /\ u.load = t.load /\ u.running = none
  <2> DEFINE t3 == [t2 EXCEPT !.freed = freed, !.raidList = {}]
  <2>1. t3 \in RaidsState /\ t3.timers = timers /\ t3.load = t.load
    BY <1>6, <1>7 DEF RaidsState
  <2>2. u = [t3 EXCEPT !.running = none, !.checkRaidsEvent = 0]
    BY <1>1
  <2> HIDE DEF t3
  <2>3. 0 \in Nat /\ none \in Raids!Raid \cup {none}
    OBVIOUS
  <2> QED BY <2>1, <2>2, <2>3 DEF RaidsState
<1>9. IsFiniteSet(timers)
  BY <1>2, <1>5, FS_Subset
<1> QED BY <1>8, <1>9 DEF RaidsIn

LEMMA RaidsReload == ASSUME RaidsInv, Raids!Reload PROVE RaidsInv'
<1> DEFINE t == Raids!Clear(s)
           loaded == Raids!Loaded(s.load + 1)
           more == s.load + 1
           u == [t EXCEPT !.load = more, !.raidList = loaded]
<1>2. s.load \in Nat /\ more \in 0 .. RaidReloads /\ more # 0
  BY RaidsConstants DEF RaidsInv, RaidsIn, RaidsState, Raids!Reload
<1>3. RaidsIn(t) /\ t.load = s.load /\ t.running = none
  BY RaidsClear DEF RaidsInv
<1>1. s' = Raids!ScheduleCheck(u)
  <2>1. s' = Raids!ScheduleCheck([t EXCEPT !.load = t.load + 1, !.raidList = loaded])
    BY DEF Raids!Reload
  <2> HIDE DEF t, loaded
  <2> QED BY <1>3, <2>1
<1> HIDE DEF t
<1>4. loaded \in SUBSET Raids!Raid
  BY <1>2 DEF Raids!Loaded, Raids!Raid
<1> HIDE DEF loaded, more
<1>5. /\ u \in RaidsState /\ u.timers = t.timers /\ u.running = none /\ u.load # 0
  BY <1>2, <1>3, <1>4 DEF RaidsIn, RaidsState
<1> HIDE DEF u
<1>6. RaidsIn(u)
  BY <1>3, <1>5 DEF RaidsIn
<1>7. /\ RaidsIn(s') /\ Alike(s', u)
      /\ \E e : e.task = none /\ s'.timers = u.timers \cup {e}
  BY <1>1, <1>6, RaidsCheckAgain
<1> QED BY <1>5, <1>7 DEF RaidsInv, Ongoing, Alike

LEMMA RaidsHand == ASSUME RaidsInv, NEW e \in s.timers, Raids!Hand(e) PROVE RaidsInv'
<1> DEFINE h == [e EXCEPT !.handed = TRUE]
           timers == (s.timers \ {e}) \cup {h}
<1>1. /\ s \in RaidsState /\ IsFiniteSet(s.timers) /\ e \in RaidTimer /\ Ongoing(s)
      /\ s.timers \subseteq RaidTimer
  BY DEF RaidsInv, RaidsIn, RaidsState
<1>2. s' = [s EXCEPT !.timers = timers]
  BY DEF Raids!Hand, Raids!Handed
<1>3. h \in RaidTimer /\ h.task = e.task
  BY <1>1 DEF RaidTimer
<1> HIDE DEF h
<1>4. IsFiniteSet(s.timers \ {e})
  BY <1>1, FS_RemoveElement
<1>5. IsFiniteSet(timers)
  BY <1>4, FS_AddElement
<1>6. timers \subseteq RaidTimer
  BY <1>1, <1>3
<1>7. /\ timers # {} /\ s.timers # {}
      /\ \A x \in s.timers : \E y \in timers : y.task = x.task
      /\ \A y \in timers : \E x \in s.timers : y.task = x.task
  BY <1>3
<1>8. ASSUME s.load = 0 PROVE \A x, y \in timers : x.task # none /\ y.task # none => x = y
  <2>1. \A x, y \in s.timers : x.task # none /\ y.task # none => x = y
    BY <1>1, <1>8 DEF Ongoing
  <2> QED BY <1>3, <2>1
<1> HIDE DEF timers
<1>9. s' \in RaidsState /\ s'.timers = timers /\ Alike(s', s)
  BY <1>1, <1>2, <1>6 DEF RaidsState, Alike
<1>10. Ongoing(s')
  <2>1. \E x \in timers : x.task = none
    BY <1>1, <1>7 DEF Ongoing
  <2>2. s.running # none => \E x \in timers : x.task = s.running
    BY <1>1, <1>7 DEF Ongoing
  <2>3. s.load = 0 => \A x \in timers : x.task # none => x.task = s.running
    BY <1>1, <1>7 DEF Ongoing
  <2> QED BY <1>7, <1>8, <1>9, <2>1, <2>2, <2>3 DEF Ongoing, Alike
<1> QED BY <1>5, <1>9, <1>10 DEF RaidsInv, RaidsIn

LEMMA RaidsCheck == ASSUME RaidsInv, NEW e \in s.timers, Raids!CheckRaids(e) PROVE RaidsInv'
<1> DEFINE done == Raids!Ran(s, e)
<1>1. RaidsIn(s) /\ Ongoing(s) /\ e.task = none
  BY DEF RaidsInv, Raids!CheckRaids
<1>2. RaidsIn(done) /\ Alike(done, s) /\ done.timers = s.timers \ {e}
  BY <1>1, RaidsRan
<1>3. CASE s' = Raids!ScheduleCheck(done)
  <2> HIDE DEF done
  <2>1. /\ RaidsIn(s') /\ Alike(s', done)
        /\ \E f : f.task = none /\ s'.timers = done.timers \cup {f}
    BY <1>2, <1>3, RaidsCheckAgain
  <2>2. Ongoing(s')
    BY <1>1, <1>2, <2>1 DEF Ongoing, Alike
  <2> QED BY <2>1, <2>2 DEF RaidsInv
<1>4. ASSUME s.running = none, NEW r \in s.raidList,
             s' = Raids!ScheduleCheck(IF r[1] \in RaidRepeats THEN Raids!StartRaid(done, r)
                                      ELSE [Raids!StartRaid(done, r) EXCEPT !.raidList = @ \ {r}])
      PROVE  RaidsInv'
  <2> DEFINE t == Raids!StartRaid(done, r)
             left == t.raidList \ {r}
             u == IF r[1] \in RaidRepeats THEN t ELSE [t EXCEPT !.raidList = left]
  <2>1. s' = Raids!ScheduleCheck(u)
    BY <1>4
  <2> HIDE DEF done
  <2>2. r \in Raids!Raid /\ r # none
    BY <1>1, RaidsConstants DEF RaidsIn, RaidsState
  <2>3. /\ RaidsIn(t) /\ t.running = r /\ t.load = done.load
        /\ \E f : f.task = r /\ t.timers = done.timers \cup {f}
    BY <1>2, <2>2, RaidsStart
  <2> HIDE DEF t
  <2>4. left \in SUBSET Raids!Raid
    BY <2>3 DEF RaidsIn, RaidsState
  <2> HIDE DEF left
  <2>5. u \in RaidsState /\ u.timers = t.timers /\ u.running = r /\ u.load = t.load
    BY <2>3, <2>4 DEF RaidsIn, RaidsState
  <2> HIDE DEF u
  <2>6. RaidsIn(u)
    BY <2>3, <2>5 DEF RaidsIn
  <2>7. /\ RaidsIn(s') /\ Alike(s', u)
        /\ \E f : f.task = none /\ s'.timers = u.timers \cup {f}
    BY <2>1, <2>6, RaidsCheckAgain
  <2>8. s.load = 0 => \A x \in s.timers : x.task = none
    BY <1>1, <1>4 DEF Ongoing
  <2>9. PICK f, g : f.task = r /\ g.task = none /\ s'.timers = ((s.timers \ {e}) \cup {f}) \cup {g}
    BY <1>2, <2>3, <2>5, <2>7
  <2>10. s'.running = r /\ s'.load = s.load
    BY <1>2, <2>3, <2>5, <2>7 DEF Alike
  <2>11. Ongoing(s')
    BY <2>2, <2>8, <2>9, <2>10 DEF Ongoing
  <2> QED BY <2>7, <2>11 DEF RaidsInv
<1> QED BY <1>3, <1>4 DEF Raids!CheckRaids

LEMMA RaidsLua == ASSUME RaidsInv, NEW r \in s.raidList, Raids!LuaStartRaid(r) PROVE RaidsInv'
<1>1. RaidsIn(s) /\ Ongoing(s) /\ s.running = none /\ s' = Raids!StartRaid(s, r)
  BY DEF RaidsInv, Raids!LuaStartRaid
<1>2. r \in Raids!Raid /\ r # none
  BY <1>1, RaidsConstants DEF RaidsIn, RaidsState
<1>3. /\ RaidsIn(s') /\ s'.running = r /\ s'.load = s.load
      /\ \E f : f.task = r /\ s'.timers = s.timers \cup {f}
  BY <1>1, <1>2, RaidsStart
<1>4. \E e \in s.timers : e.task = none
  BY <1>1 DEF Ongoing
<1>5. s.load = 0 => \A x \in s.timers : x.task = none
  BY <1>1 DEF Ongoing
<1>6. Ongoing(s')
  BY <1>2, <1>3, <1>4, <1>5 DEF Ongoing
<1> QED BY <1>3, <1>6 DEF RaidsInv

LEMMA RaidsExecute ==
  ASSUME RaidsInv, NEW e \in s.timers, NEW ok \in BOOLEAN, Raids!ExecuteRaidEvent(e, ok)
  PROVE  RaidsInv'
<1> DEFINE r == e.task
           ran == Raids!Ran(s, e)
           next == IF ok /\ ran.nextEvent[r] < RaidLength THEN ran.nextEvent[r] + 1 ELSE ran.nextEvent[r]
           done == [ran EXCEPT !.nextEvent[r] = next]
<1>1. RaidsIn(s) /\ Ongoing(s) /\ r \in Raids!Raid /\ r # none
  BY DEF RaidsInv, RaidsIn, RaidsState, RaidTimer, Raids!ExecuteRaidEvent
<1>2. s' = IF ok /\ done.nextEvent[r] < RaidLength THEN Raids!ScheduleEvent(done, r)
           ELSE Raids!ResetRaid(done, r)
  BY DEF Raids!ExecuteRaidEvent
<1>3. RaidsIn(ran) /\ Alike(ran, s) /\ ran.timers = s.timers \ {e}
  BY <1>1, RaidsRan
<1> HIDE DEF ran, r
<1>4. next \in 0 .. RaidLength
  BY <1>1, <1>3, RaidsConstants DEF RaidsIn, RaidsState
<1> HIDE DEF next
<1> DEFINE nexts == [ran.nextEvent EXCEPT ![r] = next]
<1>5. nexts \in [Raids!Raid -> 0 .. RaidLength] /\ done = [ran EXCEPT !.nextEvent = nexts]
  BY <1>1, <1>3, <1>4 DEF RaidsIn, RaidsState
<1> HIDE DEF nexts
<1>6. /\ done \in RaidsState /\ done.timers = s.timers \ {e}
      /\ done.running = s.running /\ done.load = s.load /\ done.raidList = s.raidList
  BY <1>3, <1>5 DEF RaidsIn, RaidsState, Alike
<1> HIDE DEF done
<1>7. RaidsIn(done)
  BY <1>3, <1>6 DEF RaidsIn
<1>8. /\ \E x \in s.timers : x.task = none /\ x # e
      /\ s.running # none => \E x \in s.timers : x.task = s.running
      /\ s.load = 0 => /\ \A x \in s.timers : x.task # none => x = e
                       /\ s.running = r
  BY <1>1 DEF Ongoing, r
<1>9. CASE s' = Raids!ScheduleEvent(done, r)
  <2>1. /\ RaidsIn(s') /\ Alike(s', done)
        /\ \E f : f.task = r /\ s'.timers = done.timers \cup {f}
    BY <1>1, <1>7, <1>9, RaidsEventAgain
  <2>2. PICK f : f.task = r /\ s'.timers = (s.timers \ {e}) \cup {f}
    BY <1>6, <2>1
  <2>3. s'.running # none => \E x \in s'.timers : x.task = s'.running
    BY <1>6, <1>8, <2>1, <2>2 DEF Alike, r
  <2>4. Ongoing(s')
    BY <1>1, <1>6, <1>8, <2>1, <2>2, <2>3 DEF Ongoing, Alike
  <2> QED BY <2>1, <2>4 DEF RaidsInv
<1>10. CASE s' = Raids!ResetRaid(done, r)
  <2> DEFINE reset == [done.nextEvent EXCEPT ![r] = 0]
  <2>1. reset \in [Raids!Raid -> 0 .. RaidLength]
    <3>1. done.nextEvent \in [Raids!Raid -> 0 .. RaidLength]
      BY <1>6 DEF RaidsState
    <3>2. 0 \in 0 .. RaidLength
      BY RaidsConstants
    <3> QED BY <3>1, <3>2
  <2>2. s' = [done EXCEPT !.nextEvent = reset, !.running = none]
    <3>1. [done EXCEPT !.nextEvent[r] = 0] = [done EXCEPT !.nextEvent = reset]
      BY <1>6 DEF RaidsState
    <3>2. s' = [[done EXCEPT !.nextEvent[r] = 0] EXCEPT !.running = none]
      BY <1>10 DEF Raids!ResetRaid
    <3> QED BY <3>1, <3>2
  <2> HIDE DEF reset
  <2>3. s' \in RaidsState /\ s'.timers = s.timers \ {e} /\ s'.running = none /\ s'.load = s.load
    BY <1>6, <2>1, <2>2 DEF RaidsState
  <2>4. Ongoing(s')
    BY <1>8, <2>3 DEF Ongoing
  <2> QED BY <1>6, <1>7, <2>3, <2>4 DEF RaidsInv, RaidsIn
<1> QED BY <1>2, <1>9, <1>10

LEMMA RaidsFreed == ASSUME RaidsInv, NEW e \in s.timers, Raids!EventOfFreedRaid(e) PROVE RaidsInv'
<1>1. s' = [s EXCEPT !.timers = {}, !.raidList = {}, !.load = RaidReloads] /\ s \in RaidsState
  BY DEF Raids!EventOfFreedRaid, RaidsInv, RaidsIn
<1>2. s' \in RaidsState /\ s'.timers = {} /\ s'.raidList = {} /\ s'.load = RaidReloads
  <2> DEFINE t == [s EXCEPT !.timers = {}, !.raidList = {}]
  <2>1. t \in RaidsState /\ t.timers = {} /\ t.raidList = {}
    BY <1>1 DEF RaidsState
  <2>2. s' = [t EXCEPT !.load = RaidReloads]
    BY <1>1
  <2> HIDE DEF t
  <2>3. RaidReloads \in 0 .. RaidReloads
    BY RaidsConstants
  <2> QED BY <2>1, <2>2, <2>3 DEF RaidsState
<1>3. IsFiniteSet(s'.timers)
  BY <1>2, FS_EmptySet
<1> QED BY <1>2, <1>3 DEF RaidsInv, RaidsIn, Ongoing

LEMMA RaidsInit == Raids!Init => RaidsInv
<1> SUFFICES ASSUME Raids!Init PROVE RaidsInv
  OBVIOUS
<1> DEFINE t == [load |-> 0, raidList |-> Raids!Loaded(0), freed |-> {}, running |-> none,
                 nextEvent |-> [r \in Raids!Raid |-> 0], checkRaidsEvent |-> 0,
                 nextEventEvent |-> [r \in Raids!Raid |-> 0], timers |-> {}]
<1>1. s = Raids!ScheduleCheck(t)
  BY DEF Raids!Init
<1>2. Raids!Loaded(0) \in SUBSET Raids!Raid
  BY RaidsConstants DEF Raids!Loaded, Raids!Raid
<1>3. t \in RaidsState /\ t.timers = {} /\ t.running = none /\ t.load = 0
  BY <1>2, RaidsConstants DEF RaidsState
<1> HIDE DEF t
<1>4. RaidsIn(t)
  BY <1>3, FS_EmptySet DEF RaidsIn
<1>5. /\ RaidsIn(s) /\ Alike(s, t)
      /\ \E e : e.task = none /\ s.timers = t.timers \cup {e}
  BY <1>1, <1>4, RaidsCheckAgain
<1> QED BY <1>3, <1>5 DEF RaidsInv, Ongoing, Alike

LEMMA RaidsStutter == RaidsInv /\ UNCHANGED s => RaidsInv'
BY DEF RaidsInv

LEMMA RaidsStep == RaidsInv /\ Raids!Next => RaidsInv'
BY RaidsReload, RaidsHand, RaidsCheck, RaidsLua, RaidsExecute, RaidsFreed DEF Raids!Next

LEMMA RaidsHold == RaidsInv => Raids!TypeOK /\ Raids!RaidsGoOn
<1> SUFFICES ASSUME RaidsInv PROVE Raids!TypeOK /\ Raids!RaidsGoOn
  OBVIOUS
<1>1. RaidsIn(s) /\ Ongoing(s)
  BY DEF RaidsInv
<1>2. Raids!TypeOK
  BY <1>1 DEF RaidsIn, RaidsState, RaidTimer, Raids!TypeOK, Raids!Ids
<1>3. ASSUME s.timers # {} PROVE Raids!RaidsGoOn
  <2>1. Raids!Pending(s.timers, none)
    BY <1>1, <1>3 DEF Ongoing, Raids!Pending
  <2>2. s.running \in Raids!Raid \cup {none}
    BY <1>1 DEF RaidsIn, RaidsState
  <2>3. s.running # none => s.running \in Raids!Executing
    BY <1>1, <1>3, <2>2 DEF Ongoing, Raids!Executing, Raids!Pending
  <2>4. s.load = 0 => Raids!Executing \subseteq {s.running}
    BY <1>1, RaidsConstants DEF Ongoing, Raids!Executing, Raids!Pending
  <2> QED BY <2>1, <2>3, <2>4 DEF Raids!RaidsGoOn
<1> QED BY <1>2, <1>3 DEF Raids!RaidsGoOn

(* However timers, scripts and reloads fall: raids are looked for again, and  *)
(* the one that keeps others from starting has an event to come (raids.cpp),  *)
(* for any raids of any length and any number of reloads.                     *)
THEOREM RaidsComeAgain == Raids!Spec => [](Raids!TypeOK /\ Raids!RaidsGoOn)
<1>1. RaidsInv /\ [Raids!Next]_s => RaidsInv'
  BY RaidsStep, RaidsStutter
<1> QED BY <1>1, RaidsInit, RaidsHold, PTL DEF Raids!Spec

-----------------------------------------------------------------------------
(* Scripts *)

LEMMA ScriptsConstants ==
  /\ ScriptLimit \in Nat \ {0} /\ ScriptOverflows \in Nat /\ ScriptTimers \in Nat /\ none \notin ScriptRefs
BY PlayersAssumption DEF Scripts!ScriptsAssumption

ScriptFrame == [held : SUBSET ScriptResults, ref : ScriptRefs \cup {none}]
ScriptTimer == [id : Nat, task : Scripts!TimerId, handed : BOOLEAN]
TimerEvent == [ref : ScriptRefs \cup {none}, event : Nat]
ScriptsState ==
  [index : Int, frames : Seq(ScriptFrame), tempResults : SUBSET ScriptResults,
   registry : SUBSET ScriptRefs, timerEvents : [Scripts!TimerId -> TimerEvent],
   timers : SUBSET ScriptTimer, bad : BOOLEAN]

(* The index is never below the number of scripts that run, nor far above.    *)
Counted(t) ==
  /\ Len(t.frames) <= t.index + 1 /\ Len(t.frames) <= ScriptLimit
  /\ t.index < ScriptLimit + ScriptOverflows

ScriptsIn(t) == t \in ScriptsState /\ IsFiniteSet(t.timers) /\ Counted(t)

(* Each function of a timer event or of the script that it called, and only   *)
(* the first script was called by a timer event, is held once.                *)
Held(events, frames, registry) ==
  /\ \A i \in Scripts!TimerId : events[i].ref = none => events[i] = Scripts!NoEvent
  /\ \A i, j \in Scripts!TimerId : events[i].ref = events[j].ref => i = j \/ events[i].ref = none
  /\ \A i \in Scripts!TimerId : \A k \in DOMAIN frames : events[i].ref = frames[k].ref => events[i].ref = none
  /\ \A k \in DOMAIN frames : frames[k].ref # none => k = 1
  /\ \A r \in ScriptRefs :
       r \in registry <=> \/ \E i \in Scripts!TimerId : events[i].ref = r
                          \/ \E k \in DOMAIN frames : frames[k].ref = r

ScriptsInv == ScriptsIn(s) /\ Held(s.timerEvents, s.frames, s.registry) /\ ~ s.bad

LEMMA ScriptsFields ==
  ASSUME NEW t \in ScriptsState
  PROVE  /\ t.index \in Int /\ t.frames \in Seq(ScriptFrame) /\ t.tempResults \in SUBSET ScriptResults
         /\ t.registry \in SUBSET ScriptRefs /\ t.timerEvents \in [Scripts!TimerId -> TimerEvent]
         /\ t.timers \in SUBSET ScriptTimer /\ t.bad \in BOOLEAN
BY DEF ScriptsState

LEMMA ScriptsFresh ==
  ASSUME NEW t, ScriptsIn(t)
  PROVE  Scripts!FreshEventId(t.timers, {t.timerEvents[j].event : j \in Scripts!TimerId}) \in Nat
<1> DEFINE ids == {e.id : e \in t.timers}
           events == {t.timerEvents[j].event : j \in Scripts!TimerId}
           f == [j \in Scripts!TimerId |-> t.timerEvents[j].event]
           used == ids \cup events
<1>1. IsFiniteSet(ids)
  BY FiniteIds DEF ScriptsIn
<1>2. IsFiniteSet(events)
  <2>1. f \in Surjection(Scripts!TimerId, events)
    BY DEF Surjection
  <2>2. IsFiniteSet(Scripts!TimerId)
    BY ScriptsConstants, FS_Interval DEF Scripts!TimerId
  <2> QED BY <2>1, <2>2, FS_Surjection, Zenon
<1>3. IsFiniteSet(used)
  <2> HIDE DEF ids, events
  <2> QED BY <1>1, <1>2, FS_Union
<1>4. FreshId(used) \in Nat
  BY <1>3, FreshIdIs
<1>5. Scripts!FreshEventId(t.timers, events) = FreshId(used)
  BY DEF Scripts!FreshEventId, FreshId, Scripts!Cardinality, Cardinality
<1> QED BY <1>4, <1>5

(* A script begins, if there is room. *)
LEMMA ScriptsReserve ==
  ASSUME NEW t \in ScriptsState, Counted(t), NEW ref \in ScriptRefs \cup {none},
         t.index < ScriptLimit - 1 \/ t.index - Len(t.frames) + 1 < ScriptOverflows,
         NEW u, u = Scripts!Reserve(t, ref)
  PROVE  /\ u \in ScriptsState /\ Counted(u)
         /\ u.timers = t.timers /\ u.timerEvents = t.timerEvents
         /\ u.registry = t.registry /\ (u.bad <=> t.bad)
         /\ u.frames = t.frames \/ u.frames = Append(t.frames, [held |-> {}, ref |-> ref])
<1> DEFINE n == t.index + 1
           more == [t EXCEPT !.index = n]
           frames == Append(t.frames, [held |-> {}, ref |-> ref])
<1>1. /\ n \in Int /\ n < ScriptLimit + ScriptOverflows /\ Len(t.frames) \in Nat
      /\ t.index \in Int /\ t.frames \in Seq(ScriptFrame)
  BY ScriptsFields, ScriptsConstants DEF Counted
<1>2. /\ more \in ScriptsState /\ more.index = n /\ more.frames = t.frames
      /\ more.timers = t.timers /\ more.timerEvents = t.timerEvents
      /\ more.registry = t.registry /\ (more.bad <=> t.bad)
  <2> HIDE DEF n
  <2> QED BY <1>1 DEF ScriptsState
<1>3. u = IF more.index < ScriptLimit THEN [more EXCEPT !.frames = frames] ELSE more
  <2>1. u = IF more.index < ScriptLimit
            THEN [more EXCEPT !.frames = Append(more.frames, [held |-> {}, ref |-> ref])] ELSE more
    BY DEF Scripts!Reserve
  <2> HIDE DEF more
  <2> QED BY <1>2, <2>1
<1>4. /\ frames \in Seq(ScriptFrame) /\ Len(frames) = Len(t.frames) + 1
  <2>1. [held |-> {}, ref |-> ref] \in ScriptFrame
    BY DEF ScriptFrame
  <2> QED BY <1>1, <2>1
<1> HIDE DEF more, frames
<1>5. CASE more.index < ScriptLimit
  <2>1. /\ u \in ScriptsState /\ u.index = n /\ u.frames = frames
        /\ u.timers = t.timers /\ u.timerEvents = t.timerEvents
        /\ u.registry = t.registry /\ (u.bad <=> t.bad)
    BY <1>2, <1>3, <1>4, <1>5 DEF ScriptsState
  <2>2. Counted(u)
    BY <1>1, <1>2, <1>4, <1>5, <2>1, ScriptsConstants DEF Counted
  <2> QED BY <2>1, <2>2 DEF frames
<1>6. CASE ~ more.index < ScriptLimit
  <2>1. Counted(more)
    BY <1>1, <1>2, ScriptsConstants DEF Counted
  <2> QED BY <1>2, <1>3, <1>6, <2>1
<1> QED BY <1>5, <1>6

LEMMA ScriptsCall == ASSUME ScriptsInv, Scripts!Call PROVE ScriptsInv'
<1>1. /\ s \in ScriptsState /\ Counted(s) /\ IsFiniteSet(s.timers) /\ ~ s.bad
      /\ Held(s.timerEvents, s.frames, s.registry) /\ s.frames \in Seq(ScriptFrame)
  BY ScriptsFields DEF ScriptsInv, ScriptsIn
<1>2. /\ s' \in ScriptsState /\ Counted(s')
      /\ s'.timers = s.timers /\ s'.timerEvents = s.timerEvents
      /\ s'.registry = s.registry /\ (s'.bad <=> s.bad)
      /\ s'.frames = s.frames \/ s'.frames = Append(s.frames, [held |-> {}, ref |-> none])
  <2>1. s' = Scripts!Reserve(s, none)
    BY DEF Scripts!Call
  <2>2. s.index < ScriptLimit - 1 \/ s.index - Len(s.frames) + 1 < ScriptOverflows
    BY DEF Scripts!Call, Scripts!Overflows
  <2> QED BY <1>1, <2>1, <2>2, ScriptsReserve
<1>3. ASSUME s'.frames = Append(s.frames, [held |-> {}, ref |-> none])
      PROVE  Held(s.timerEvents, s'.frames, s.registry)
  <2>1. /\ DOMAIN s'.frames = DOMAIN s.frames \cup {Len(s.frames) + 1}
        /\ \A k \in DOMAIN s.frames : s'.frames[k] = s.frames[k]
        /\ s'.frames[Len(s.frames) + 1].ref = none
    BY <1>1, <1>3
  <2> QED BY <1>1, <2>1, ScriptsConstants DEF Held
<1> QED BY <1>1, <1>2, <1>3 DEF ScriptsInv, ScriptsIn

(* The results that a script holds make no difference. *)
LEMMA ScriptsResults ==
  ASSUME ScriptsInv, NEW r \in ScriptResults, Scripts!StoreQuery(r) \/ Scripts!Free(r) PROVE ScriptsInv'
<1> DEFINE n == Len(s.frames)
<1>1. /\ s \in ScriptsState /\ Counted(s) /\ IsFiniteSet(s.timers) /\ ~ s.bad
      /\ Held(s.timerEvents, s.frames, s.registry) /\ s.frames \in Seq(ScriptFrame)
      /\ s.tempResults \in SUBSET ScriptResults
  BY ScriptsFields DEF ScriptsInv, ScriptsIn
<1>2. n \in DOMAIN s.frames /\ s.frames[n] \in ScriptFrame
  <2>1. s.frames # <<>>
    BY <1>1 DEF Scripts!StoreQuery, Scripts!Free, Scripts!Running
  <2> QED BY <1>1, <2>1
<1>3. PICK temp \in SUBSET ScriptResults, held \in SUBSET ScriptResults :
        s' = [s EXCEPT !.tempResults = temp, !.frames[n].held = held]
  <2>1. s.frames[n].held \in SUBSET ScriptResults
    BY <1>2 DEF ScriptFrame
  <2>2. CASE Scripts!StoreQuery(r)
    <3>1. s' = [s EXCEPT !.tempResults = s.tempResults \cup {r},
                         !.frames[n].held = s.frames[n].held \cup {r}]
      BY <1>1, <2>2 DEF Scripts!StoreQuery, ScriptsState
    <3> HIDE DEF n
    <3> QED BY <1>1, <2>1, <3>1
  <2>3. CASE Scripts!Free(r)
    <3>1. s' = [s EXCEPT !.tempResults = s.tempResults \ {r},
                         !.frames[n].held = s.frames[n].held \ {r}]
      BY <1>1, <2>3 DEF Scripts!Free, ScriptsState
    <3> HIDE DEF n
    <3> QED BY <1>1, <2>1, <3>1
  <2> QED BY <2>2, <2>3
<1> DEFINE top == [s.frames[n] EXCEPT !.held = held]
           frames == [s.frames EXCEPT ![n] = top]
<1>4. top \in ScriptFrame /\ top.ref = s.frames[n].ref
  BY <1>2 DEF ScriptFrame
<1>5. [s.frames EXCEPT ![n].held = held] = frames
  BY <1>1, <1>2
<1> HIDE DEF top, n
<1>6. /\ frames \in Seq(ScriptFrame) /\ Len(frames) = Len(s.frames) /\ DOMAIN frames = DOMAIN s.frames
      /\ \A k \in DOMAIN s.frames : frames[k].ref = s.frames[k].ref
  BY <1>1, <1>2, <1>4
<1>7. s' = [s EXCEPT !.tempResults = temp, !.frames = frames]
  <2> DEFINE t == [s EXCEPT !.tempResults = temp]
  <2>1. s' = [t EXCEPT !.frames[n].held = held]
    BY <1>3
  <2>2. t.frames = s.frames /\ t \in ScriptsState
    BY <1>1 DEF ScriptsState
  <2> HIDE DEF t, frames
  <2>3. [t EXCEPT !.frames[n].held = held] = [t EXCEPT !.frames = [t.frames EXCEPT ![n].held = held]]
    BY <2>2 DEF ScriptsState
  <2>4. s' = [t EXCEPT !.frames = frames]
    BY <1>5, <2>1, <2>2, <2>3
  <2> QED BY <2>4 DEF t
<1> HIDE DEF frames
<1>8. /\ s' \in ScriptsState /\ s'.frames = frames /\ s'.index = s.index
      /\ s'.timers = s.timers /\ s'.timerEvents = s.timerEvents
      /\ s'.registry = s.registry /\ (s'.bad <=> s.bad)
  BY <1>1, <1>6, <1>7 DEF ScriptsState
<1>9. Counted(s')
  BY <1>1, <1>6, <1>8 DEF Counted
<1>10. Held(s.timerEvents, frames, s.registry)
  BY <1>1, <1>6 DEF Held
<1> QED BY <1>1, <1>8, <1>9, <1>10 DEF ScriptsInv, ScriptsIn

LEMMA ScriptsReturn == ASSUME ScriptsInv, Scripts!Return PROVE ScriptsInv'
<1> DEFINE n == Len(s.frames)
           frames == Scripts!Front(s.frames)
           ref == s.frames[n].ref
           index == s.index - 1
           done == [s EXCEPT !.frames = frames, !.index = index, !.tempResults = {}]
<1>1. /\ s \in ScriptsState /\ Counted(s) /\ IsFiniteSet(s.timers) /\ ~ s.bad
      /\ Held(s.timerEvents, s.frames, s.registry) /\ s.frames \in Seq(ScriptFrame)
      /\ s.index \in Int /\ s.registry \in SUBSET ScriptRefs
      /\ s.timerEvents \in [Scripts!TimerId -> TimerEvent]
  BY ScriptsFields DEF ScriptsInv, ScriptsIn
<1>2. /\ n \in Nat \ {0} /\ s.frames[n] \in ScriptFrame /\ DOMAIN s.frames = 1 .. n
  <2>1. s.frames # <<>>
    BY DEF Scripts!Return, Scripts!Running
  <2> QED BY <1>1, <2>1
<1>3. s' = IF ref = none THEN done ELSE Scripts!Unref(done, ref)
  BY DEF Scripts!Return, Scripts!Last
<1>4. /\ frames \in Seq(ScriptFrame) /\ Len(frames) = n - 1 /\ DOMAIN frames = 1 .. n - 1
      /\ \A k \in 1 .. n - 1 : frames[k] = s.frames[k]
  BY <1>1, <1>2 DEF Scripts!Front
<1>5. index \in Int /\ ref \in ScriptRefs \cup {none}
  BY <1>1, <1>2 DEF ScriptFrame
<1> HIDE DEF frames, ref, index
<1>6. /\ done \in ScriptsState /\ done.frames = frames /\ done.index = index
      /\ done.timers = s.timers /\ done.timerEvents = s.timerEvents
      /\ done.registry = s.registry /\ (done.bad <=> s.bad)
  <2> DEFINE t == [s EXCEPT !.frames = frames]
  <2>1. /\ t \in ScriptsState /\ t.frames = frames
        /\ t.timers = s.timers /\ t.timerEvents = s.timerEvents
        /\ t.registry = s.registry /\ (t.bad <=> s.bad)
    BY <1>1, <1>4 DEF ScriptsState
  <2>2. done = [t EXCEPT !.index = index, !.tempResults = {}]
    OBVIOUS
  <2> HIDE DEF t
  <2> QED BY <1>5, <2>1, <2>2 DEF ScriptsState
<1> HIDE DEF done
<1>7. Counted(done)
  <2>1. /\ n <= s.index + 1 /\ n <= ScriptLimit /\ s.index < ScriptLimit + ScriptOverflows
        /\ index = s.index - 1
    BY <1>1 DEF Counted, index
  <2> HIDE DEF n
  <2> QED BY <1>1, <1>2, <1>4, <1>6, <2>1, ScriptsConstants DEF Counted
<1>8. CASE ref = none
  <2>1. Held(s.timerEvents, frames, s.registry)
    <3>1. \A k \in 1 .. n : k \in 1 .. n - 1 \/ k = n
      BY <1>2
    <3>2. s.frames[n].ref = none
      BY <1>8 DEF ref
    <3> HIDE DEF n
    <3> QED BY <1>1, <1>2, <1>4, <3>1, <3>2, ScriptsConstants DEF Held
  <2> QED BY <1>1, <1>3, <1>6, <1>7, <1>8, <2>1 DEF ScriptsInv, ScriptsIn
<1>9. CASE ref # none
  <2>1. ref \in ScriptRefs /\ n = 1 /\ frames = <<>>
    <3>1. n = 1
      <4>1. \A k \in DOMAIN s.frames : s.frames[k].ref # none => k = 1
        BY <1>1 DEF Held
      <4>2. n \in DOMAIN s.frames /\ s.frames[n].ref # none
        BY <1>2, <1>9 DEF ref
      <4> HIDE DEF n
      <4> QED BY <4>1, <4>2
    <3> QED BY <1>4, <1>5, <1>9, <3>1
  <2>2. ref \in s.registry
    BY <1>1, <1>2, <2>1 DEF Held, ref
  <2> DEFINE registry == s.registry \ {ref}
             bad == done.bad \/ ref \notin done.registry
  <2>3. s' = [done EXCEPT !.registry = registry, !.bad = bad]
    <3>1. s' = [done EXCEPT !.registry = done.registry \ {ref}, !.bad = bad]
      BY <1>3, <1>9 DEF Scripts!Unref
    <3> QED BY <1>6, <3>1
  <2>4. registry \in SUBSET ScriptRefs /\ bad \in BOOLEAN /\ ~ bad
    BY <1>1, <1>6, <2>2
  <2>5. Held(s.timerEvents, frames, registry)
    <3>1. \A i \in Scripts!TimerId : s.timerEvents[i].ref # ref
      BY <1>1, <1>2, <1>9 DEF Held, ref
    <3>2. \A k \in DOMAIN s.frames : s.frames[k].ref = ref
      BY <1>2, <2>1 DEF ref
    <3>3. DOMAIN frames = {}
      BY <2>1
    <3> QED BY <1>1, <3>1, <3>2, <3>3 DEF Held
  <2> HIDE DEF registry, bad
  <2>6. /\ s' \in ScriptsState /\ s'.frames = frames /\ s'.index = index
        /\ s'.timers = s.timers /\ s'.timerEvents = s.timerEvents
        /\ s'.registry = registry /\ (s'.bad <=> bad)
    BY <1>6, <2>3, <2>4 DEF ScriptsState
  <2>7. Counted(s')
    BY <1>6, <1>7, <2>6 DEF Counted
  <2> QED BY <1>1, <2>4, <2>5, <2>6, <2>7 DEF ScriptsInv, ScriptsIn
<1> QED BY <1>8, <1>9

LEMMA ScriptsKnown ==
  ASSUME ScriptsInv
  PROVE  /\ s \in ScriptsState /\ Counted(s) /\ IsFiniteSet(s.timers) /\ ~ s.bad
         /\ Held(s.timerEvents, s.frames, s.registry) /\ s.frames \in Seq(ScriptFrame)
         /\ s.index \in Int /\ s.registry \in SUBSET ScriptRefs
         /\ s.timerEvents \in [Scripts!TimerId -> TimerEvent]
         /\ s.timers \in SUBSET ScriptTimer
BY ScriptsFields DEF ScriptsInv, ScriptsIn

(* A step that leaves the running scripts alone. *)
LEMMA ScriptsAside ==
  ASSUME ScriptsInv, NEW registry \in SUBSET ScriptRefs, NEW timers \in SUBSET ScriptTimer,
         NEW events \in [Scripts!TimerId -> TimerEvent], NEW bad \in BOOLEAN, ~ bad,
         IsFiniteSet(timers), Held(events, s.frames, registry),
         s' = [s EXCEPT !.registry = registry, !.timers = timers, !.timerEvents = events, !.bad = bad]
  PROVE  ScriptsInv'
<1> DEFINE t == [s EXCEPT !.registry = registry, !.timers = timers]
<1>1. s \in ScriptsState /\ Counted(s)
  BY ScriptsKnown
<1>2. /\ t \in ScriptsState /\ t.frames = s.frames /\ t.index = s.index
      /\ t.registry = registry /\ t.timers = timers
  BY <1>1 DEF ScriptsState
<1>3. s' = [t EXCEPT !.timerEvents = events, !.bad = bad]
  OBVIOUS
<1> HIDE DEF t
<1>4. /\ s' \in ScriptsState /\ s'.frames = t.frames /\ s'.index = t.index
      /\ s'.registry = registry /\ s'.timers = timers /\ s'.timerEvents = events /\ (s'.bad <=> bad)
  BY <1>2, <1>3 DEF ScriptsState
<1>5. Counted(s')
  BY <1>1, <1>2, <1>4 DEF Counted
<1> QED BY <1>2, <1>4, <1>5 DEF ScriptsInv, ScriptsIn

(* Functions come and go with their timer events. *)
LEMMA HeldAdded ==
  ASSUME NEW old, NEW events, NEW frames, NEW registry, Held(old, frames, registry),
         NEW i \in Scripts!TimerId, NEW ref \in ScriptRefs, ref \notin registry,
         old[i].ref = none, events[i].ref = ref,
         \A j \in Scripts!TimerId \ {i} : events[j] = old[j]
  PROVE  Held(events, frames, registry \cup {ref})
<1>1. /\ ref # none
      /\ \A j \in Scripts!TimerId : old[j].ref # ref
      /\ \A k \in DOMAIN frames : frames[k].ref # ref
  BY ScriptsConstants DEF Held
<1>2. \A j \in Scripts!TimerId : events[j].ref = none => events[j] = Scripts!NoEvent
  BY <1>1 DEF Held
<1>3. \A j, k \in Scripts!TimerId : events[j].ref = events[k].ref => j = k \/ events[j].ref = none
  BY <1>1 DEF Held
<1>4. \A j \in Scripts!TimerId : \A k \in DOMAIN frames :
        events[j].ref = frames[k].ref => events[j].ref = none
  BY <1>1 DEF Held
<1>5. \A k \in DOMAIN frames : frames[k].ref # none => k = 1
  BY DEF Held
<1>6. ASSUME NEW r \in ScriptRefs
      PROVE  r \in registry \cup {ref} <=> \/ \E j \in Scripts!TimerId : events[j].ref = r
                                           \/ \E k \in DOMAIN frames : frames[k].ref = r
  <2>1. r \in registry <=> \/ \E j \in Scripts!TimerId : old[j].ref = r
                           \/ \E k \in DOMAIN frames : frames[k].ref = r
    BY DEF Held
  <2>2. CASE r = ref
    BY <2>2
  <2>3. CASE r # ref
    <3>1. \A j \in Scripts!TimerId : events[j].ref = r <=> old[j].ref = r
      BY <2>3, ScriptsConstants
    <3> QED BY <2>1, <2>3, <3>1
  <2> QED BY <2>2, <2>3
<1> QED BY <1>2, <1>3, <1>4, <1>5, <1>6 DEF Held

LEMMA HeldTaken ==
  ASSUME NEW old, NEW events, NEW frames, NEW registry, Held(old, frames, registry),
         NEW i \in Scripts!TimerId, NEW ref \in ScriptRefs, old[i].ref = ref,
         events[i] = Scripts!NoEvent,
         \A j \in Scripts!TimerId \ {i} : events[j] = old[j]
  PROVE  Held(events, frames, registry \ {ref})
<1>1. /\ ref # none /\ events[i].ref = none
      /\ \A j \in Scripts!TimerId \ {i} : old[j].ref # ref
      /\ \A k \in DOMAIN frames : frames[k].ref # ref
  BY ScriptsConstants DEF Held, Scripts!NoEvent
<1>2. \A j \in Scripts!TimerId : events[j].ref = none => events[j] = Scripts!NoEvent
  BY <1>1 DEF Held
<1>3. \A j, k \in Scripts!TimerId : events[j].ref = events[k].ref => j = k \/ events[j].ref = none
  BY <1>1 DEF Held
<1>4. \A j \in Scripts!TimerId : \A k \in DOMAIN frames :
        events[j].ref = frames[k].ref => events[j].ref = none
  BY <1>1 DEF Held
<1>5. \A k \in DOMAIN frames : frames[k].ref # none => k = 1
  BY DEF Held
<1>6. ASSUME NEW r \in ScriptRefs
      PROVE  r \in registry \ {ref} <=> \/ \E j \in Scripts!TimerId : events[j].ref = r
                                        \/ \E k \in DOMAIN frames : frames[k].ref = r
  <2>1. r \in registry <=> \/ \E j \in Scripts!TimerId : old[j].ref = r
                           \/ \E k \in DOMAIN frames : frames[k].ref = r
    BY DEF Held
  <2>2. CASE r = ref
    BY <1>1, <2>2
  <2>3. CASE r # ref
    <3>1. \A j \in Scripts!TimerId : events[j].ref = r <=> old[j].ref = r
      BY <1>1, <2>3, ScriptsConstants
    <3> QED BY <2>1, <2>3, <3>1
  <2> QED BY <2>2, <2>3
<1> QED BY <1>2, <1>3, <1>4, <1>5, <1>6 DEF Held

LEMMA ScriptsAddTimer ==
  ASSUME ScriptsInv, NEW i \in Scripts!TimerId, NEW ref \in ScriptRefs, Scripts!AddTimer(i, ref)
  PROVE  ScriptsInv'
<1> DEFINE n == Scripts!FreshEventId(s.timers, {s.timerEvents[j].event : j \in Scripts!TimerId})
           e == [id |-> n, task |-> i, handed |-> FALSE]
           registry == s.registry \cup {ref}
           timers == s.timers \cup {e}
           event == [ref |-> ref, event |-> n]
           events == [s.timerEvents EXCEPT ![i] = event]
<1>1. n \in Nat
  BY ScriptsFresh DEF ScriptsInv
<1>2. /\ s' = [s EXCEPT !.registry = registry, !.timers = timers, !.timerEvents[i] = event]
      /\ ref \notin s.registry /\ s.timerEvents[i] = Scripts!NoEvent
  BY DEF Scripts!AddTimer, Scripts!AddEvent
<1> HIDE DEF n
<1>3. e \in ScriptTimer /\ event \in TimerEvent /\ event.ref = ref
  BY <1>1 DEF ScriptTimer, TimerEvent
<1> HIDE DEF e, event
<1>4. IsFiniteSet(timers)
  BY ScriptsKnown, FS_AddElement
<1>5. registry \in SUBSET ScriptRefs /\ timers \in SUBSET ScriptTimer
  BY <1>3, ScriptsKnown
<1>6. /\ events \in [Scripts!TimerId -> TimerEvent] /\ events[i].ref = ref
      /\ \A j \in Scripts!TimerId \ {i} : events[j] = s.timerEvents[j]
  BY <1>3, ScriptsKnown
<1>7. Held(events, s.frames, registry)
  <2>1. Held(s.timerEvents, s.frames, s.registry)
    BY ScriptsKnown
  <2>2. s.timerEvents[i].ref = none
    BY <1>2 DEF Scripts!NoEvent
  <2> HIDE DEF events
  <2> QED BY <1>2, <1>6, <2>1, <2>2, HeldAdded
<1>8. s' = [s EXCEPT !.registry = registry, !.timers = timers, !.timerEvents = events, !.bad = s.bad]
  <2> DEFINE t == [s EXCEPT !.registry = registry, !.timers = timers]
  <2>1. t \in ScriptsState /\ t.timerEvents = s.timerEvents /\ t.bad = s.bad
    BY <1>5, ScriptsKnown DEF ScriptsState
  <2>2. s' = [t EXCEPT !.timerEvents[i] = event]
    BY <1>2
  <2> HIDE DEF t
  <2>3. s' = [t EXCEPT !.timerEvents = events]
    BY <2>1, <2>2 DEF ScriptsState
  <2>4. s' = [[t EXCEPT !.timerEvents = events] EXCEPT !.bad = s.bad]
    <3> HIDE DEF events
    <3> QED BY <2>1, <2>3 DEF ScriptsState
  <2> QED BY <2>4 DEF t
<1> HIDE DEF registry, timers, events
<1>9. s.bad \in BOOLEAN /\ ~ s.bad
  BY ScriptsKnown, ScriptsFields
<1> QED BY <1>4, <1>5, <1>6, <1>7, <1>8, <1>9, ScriptsAside

LEMMA ScriptsStopTimer ==
  ASSUME ScriptsInv, NEW i \in Scripts!TimerId, Scripts!StopTimer(i) PROVE ScriptsInv'
<1> DEFINE ref == s.timerEvents[i].ref
           timers == Scripts!StopEvent(s.timers, s.timerEvents[i].event)
           noEvent == Scripts!NoEvent
           events == [s.timerEvents EXCEPT ![i] = noEvent]
           registry == s.registry \ {ref}
           t == [s EXCEPT !.timers = timers, !.timerEvents[i] = noEvent]
           bad == t.bad \/ ref \notin t.registry
<1>1. /\ s' = [t EXCEPT !.registry = t.registry \ {ref}, !.bad = bad]
      /\ s.timerEvents[i] # noEvent
  BY DEF Scripts!StopTimer, Scripts!Unref
<1>2. timers \in SUBSET s.timers
  BY DEF Scripts!StopEvent
<1>3. timers \in SUBSET ScriptTimer /\ IsFiniteSet(timers)
  BY <1>2, ScriptsKnown, FS_Subset
<1>4. noEvent \in TimerEvent /\ noEvent.ref = none
  BY DEF TimerEvent, Scripts!NoEvent
<1> HIDE DEF noEvent, timers
<1>5. /\ events \in [Scripts!TimerId -> TimerEvent] /\ events[i] = noEvent
      /\ \A j \in Scripts!TimerId \ {i} : events[j] = s.timerEvents[j]
  BY <1>4, ScriptsKnown
<1>6. t = [s EXCEPT !.timers = timers, !.timerEvents = events]
  <2> DEFINE u == [s EXCEPT !.timers = timers]
  <2>1. u \in ScriptsState /\ u.timerEvents = s.timerEvents
    BY <1>3, ScriptsKnown DEF ScriptsState
  <2>2. t = [u EXCEPT !.timerEvents[i] = noEvent]
    OBVIOUS
  <2> HIDE DEF u, t
  <2>3. t = [u EXCEPT !.timerEvents = events]
    BY <2>1, <2>2 DEF ScriptsState
  <2> QED BY <2>3 DEF u
<1>7. t \in ScriptsState /\ t.registry = s.registry /\ t.bad = s.bad /\ t.timers = timers
      /\ t.timerEvents = events /\ t.frames = s.frames /\ t.index = s.index
  <2> HIDE DEF t, events
  <2> QED BY <1>3, <1>5, <1>6, ScriptsKnown DEF ScriptsState
<1>8. Held(s.timerEvents, s.frames, s.registry)
  BY ScriptsKnown
<1>9. ref \in ScriptRefs /\ ref \in s.registry
  <2>1. ref # none
    BY <1>1, <1>8 DEF Held, noEvent
  <2>2. ref \in ScriptRefs \cup {none}
    BY ScriptsKnown DEF TimerEvent
  <2> QED BY <1>8, <2>1, <2>2 DEF Held
<1>10. Held(events, s.frames, registry)
  <2>1. s.timerEvents[i].ref = ref
    OBVIOUS
  <2> HIDE DEF ref, events
  <2> QED BY <1>5, <1>8, <1>9, <2>1, HeldTaken DEF noEvent
<1>11. registry \in SUBSET ScriptRefs
  BY ScriptsKnown
<1> HIDE DEF t, bad
<1>12. bad \in BOOLEAN /\ ~ bad
  BY <1>7, <1>9, ScriptsKnown DEF bad
<1>13. s' = [t EXCEPT !.registry = registry, !.bad = bad]
  BY <1>1, <1>7
<1> HIDE DEF registry
<1>14. /\ s' \in ScriptsState /\ s'.frames = s.frames /\ s'.index = s.index
       /\ s'.registry = registry /\ s'.timers = timers /\ s'.timerEvents = events /\ (s'.bad <=> bad)
  <2> HIDE DEF events
  <2> QED BY <1>7, <1>11, <1>12, <1>13 DEF ScriptsState
<1>15. Counted(s')
  BY <1>14, ScriptsKnown DEF Counted
<1> QED BY <1>3, <1>10, <1>12, <1>14, <1>15 DEF ScriptsInv, ScriptsIn

LEMMA ScriptsHand == ASSUME ScriptsInv, NEW e \in s.timers, Scripts!Hand(e) PROVE ScriptsInv'
<1> DEFINE h == [e EXCEPT !.handed = TRUE]
           timers == (s.timers \ {e}) \cup {h}
<1>1. s' = [s EXCEPT !.timers = timers]
  BY DEF Scripts!Hand, Scripts!Handed
<1>2. h \in ScriptTimer
  BY ScriptsKnown DEF ScriptTimer
<1> HIDE DEF h
<1>3. IsFiniteSet(s.timers \ {e})
  BY ScriptsKnown, FS_RemoveElement
<1>4. IsFiniteSet(timers)
  BY <1>3, FS_AddElement
<1>5. timers \in SUBSET ScriptTimer
  BY <1>2, ScriptsKnown
<1> HIDE DEF timers
<1>6. /\ s' \in ScriptsState /\ s'.frames = s.frames /\ s'.index = s.index
      /\ s'.registry = s.registry /\ s'.timers = timers /\ s'.timerEvents = s.timerEvents
      /\ (s'.bad <=> s.bad)
  BY <1>1, <1>5, ScriptsKnown DEF ScriptsState
<1>7. Counted(s')
  BY <1>6, ScriptsKnown DEF Counted
<1> QED BY <1>4, <1>6, <1>7, ScriptsKnown DEF ScriptsInv, ScriptsIn

LEMMA ScriptsCloseState == ASSUME ScriptsInv, Scripts!CloseState PROVE ScriptsInv'
<1> DEFINE refs == Scripts!Referred
           registry == s.registry \ refs
           bad == s.bad \/ ~ refs \subseteq s.registry
           noEvent == Scripts!NoEvent
           events == [i \in Scripts!TimerId |-> noEvent]
<1>1. /\ s' = [s EXCEPT !.registry = registry, !.bad = bad, !.timerEvents = events]
      /\ s.frames = <<>>
  BY DEF Scripts!CloseState, Scripts!Running
<1>2. Held(s.timerEvents, s.frames, s.registry) /\ s \in ScriptsState
  BY ScriptsKnown
<1>3. \A r \in ScriptRefs : r \in refs <=> \E i \in Scripts!TimerId : s.timerEvents[i].ref = r
  BY ScriptsConstants DEF Scripts!Referred
<1>4. refs \subseteq ScriptRefs
  BY ScriptsKnown DEF Scripts!Referred, TimerEvent
<1>5. refs = s.registry
  <2>1. DOMAIN s.frames = {}
    BY <1>1
  <2>2. \A r \in ScriptRefs : r \in s.registry <=> \E i \in Scripts!TimerId : s.timerEvents[i].ref = r
    BY <1>2, <2>1 DEF Held
  <2> HIDE DEF refs
  <2> QED BY <1>3, <1>4, <2>2, ScriptsKnown
<1>6. noEvent \in TimerEvent /\ noEvent.ref = none
  BY DEF TimerEvent, Scripts!NoEvent
<1> HIDE DEF noEvent, refs
<1>7. events \in [Scripts!TimerId -> TimerEvent] /\ \A i \in Scripts!TimerId : events[i] = noEvent
  BY <1>6
<1>8. registry = {} /\ bad \in BOOLEAN /\ ~ bad
  BY <1>5, ScriptsKnown
<1> HIDE DEF registry, bad, events
<1>9. Held(events, s.frames, registry)
  BY <1>1, <1>6, <1>7, <1>8, ScriptsConstants DEF Held, noEvent
<1>10. /\ s' \in ScriptsState /\ s'.frames = s.frames /\ s'.index = s.index
       /\ s'.registry = registry /\ s'.timers = s.timers /\ s'.timerEvents = events
       /\ (s'.bad <=> bad)
  <2> DEFINE t == [s EXCEPT !.registry = registry, !.bad = bad]
  <2>1. /\ t \in ScriptsState /\ t.frames = s.frames /\ t.index = s.index
        /\ t.registry = registry /\ t.timers = s.timers /\ (t.bad <=> bad)
    BY <1>2, <1>8 DEF ScriptsState
  <2>2. s' = [t EXCEPT !.timerEvents = events]
    BY <1>1
  <2> HIDE DEF t
  <2> QED BY <1>7, <2>1, <2>2 DEF ScriptsState
<1>11. Counted(s')
  BY <1>10, ScriptsKnown DEF Counted
<1> QED BY <1>8, <1>9, <1>10, <1>11, ScriptsKnown DEF ScriptsInv, ScriptsIn

LEMMA ScriptsRunTimer ==
  ASSUME ScriptsInv, NEW e \in s.timers, Scripts!RunTimer(e) PROVE ScriptsInv'
<1> DEFINE i == e.task
           ref == s.timerEvents[i].ref
           timers == s.timers \ {e}
           noEvent == Scripts!NoEvent
           events == [s.timerEvents EXCEPT ![i] = noEvent]
           bad == s.bad \/ ref \notin s.registry
           taken == [s EXCEPT !.timers = timers, !.timerEvents[i] = noEvent, !.bad = bad]
           called == Scripts!Reserve(taken, ref)
<1>1. /\ s.frames = <<>>
      /\ s.index < ScriptLimit - 1 \/ s.index - Len(s.frames) + 1 < ScriptOverflows
      /\ s' = IF ref = none THEN [s EXCEPT !.timers = timers]
              ELSE IF called.frames = <<>> THEN Scripts!Unref(called, ref) ELSE called
  BY DEF Scripts!RunTimer, Scripts!Running, Scripts!Overflows
<1>2. i \in Scripts!TimerId /\ ref \in ScriptRefs \cup {none}
  BY ScriptsKnown DEF ScriptTimer, TimerEvent
<1>3. timers \in SUBSET ScriptTimer /\ IsFiniteSet(timers)
  BY ScriptsKnown, FS_RemoveElement
<1>4. noEvent \in TimerEvent /\ noEvent.ref = none
  BY DEF TimerEvent, Scripts!NoEvent
<1>5. Held(s.timerEvents, s.frames, s.registry)
  BY ScriptsKnown
<1> HIDE DEF timers, called, taken, i
<1>6. CASE ref = none
  <2>1. s' = [s EXCEPT !.timers = timers]
    BY <1>1, <1>6
  <2>2. /\ s' \in ScriptsState /\ s'.frames = s.frames /\ s'.index = s.index
        /\ s'.registry = s.registry /\ s'.timers = timers /\ s'.timerEvents = s.timerEvents
        /\ (s'.bad <=> s.bad)
    BY <1>3, <2>1, ScriptsKnown DEF ScriptsState
  <2>3. Counted(s')
    BY <2>2, ScriptsKnown DEF Counted
  <2> QED BY <1>3, <2>2, <2>3, ScriptsKnown DEF ScriptsInv, ScriptsIn
<1>7. CASE ref # none
  <2>1. ref \in ScriptRefs /\ ref \in s.registry
    <3>1. ref \in ScriptRefs
      BY <1>2, <1>7
    <3>2. s.timerEvents[i].ref = ref
      OBVIOUS
    <3> HIDE DEF ref
    <3> QED BY <1>2, <1>5, <3>1, <3>2 DEF Held
  <2>2. /\ events \in [Scripts!TimerId -> TimerEvent] /\ events[i] = noEvent
        /\ \A j \in Scripts!TimerId \ {i} : events[j] = s.timerEvents[j]
    BY <1>2, <1>4, ScriptsKnown
  <2>3. Held(events, s.frames, s.registry \ {ref})
    <3>1. s.timerEvents[i].ref = ref
      OBVIOUS
    <3> HIDE DEF ref, events
    <3> QED BY <1>2, <1>5, <2>1, <2>2, <3>1, HeldTaken DEF noEvent
  <2>4. bad \in BOOLEAN /\ ~ bad
    BY <2>1, ScriptsKnown, ScriptsFields
  <2>5. /\ taken \in ScriptsState /\ taken.frames = s.frames /\ taken.index = s.index
        /\ taken.registry = s.registry /\ taken.timers = timers /\ taken.timerEvents = events
        /\ ~ taken.bad
    <3> DEFINE t == [s EXCEPT !.timers = timers]
    <3>1. /\ t \in ScriptsState /\ t.timerEvents = s.timerEvents /\ t.frames = s.frames
          /\ t.index = s.index /\ t.registry = s.registry /\ t.timers = timers
      BY <1>3, ScriptsKnown DEF ScriptsState
    <3>2. taken = [[t EXCEPT !.timerEvents[i] = noEvent] EXCEPT !.bad = bad]
      BY DEF taken
    <3> HIDE DEF t, bad
    <3>3. taken = [[t EXCEPT !.timerEvents = events] EXCEPT !.bad = bad]
      BY <3>1, <3>2 DEF ScriptsState
    <3> HIDE DEF events
    <3> QED BY <2>2, <2>4, <3>1, <3>3 DEF ScriptsState
  <2> HIDE DEF ref, events, bad, noEvent
  <2>6. Counted(taken)
    BY <2>5, ScriptsKnown DEF Counted
  <2>7. /\ called \in ScriptsState /\ Counted(called)
        /\ called.timers = timers /\ called.timerEvents = events
        /\ called.registry = s.registry /\ ~ called.bad
        /\ called.frames = <<>> \/ called.frames = Append(<<>>, [held |-> {}, ref |-> ref])
    <3>1. called = Scripts!Reserve(taken, ref)
      BY DEF called
    <3> QED BY <1>1, <1>2, <2>5, <2>6, <3>1, ScriptsReserve
  <2>8. CASE called.frames = <<>>
    <3> DEFINE registry == s.registry \ {ref}
               released == called.bad \/ ref \notin called.registry
    <3>1. s' = [called EXCEPT !.registry = registry, !.bad = released]
      <4>1. s' = [called EXCEPT !.registry = called.registry \ {ref}, !.bad = released]
        BY <1>1, <1>7, <2>8 DEF Scripts!Unref
      <4> QED BY <2>7, <4>1
    <3>2. registry \in SUBSET ScriptRefs /\ released \in BOOLEAN /\ ~ released
      BY <2>1, <2>7, ScriptsKnown
    <3>3. Held(events, called.frames, registry)
      BY <1>1, <2>3, <2>8
    <3> HIDE DEF registry, released
    <3>4. /\ s' \in ScriptsState /\ s'.frames = called.frames /\ s'.index = called.index
          /\ s'.registry = registry /\ s'.timers = called.timers
          /\ s'.timerEvents = called.timerEvents /\ (s'.bad <=> released)
      BY <2>7, <3>1, <3>2 DEF ScriptsState
    <3>5. Counted(s')
      BY <2>7, <3>4 DEF Counted
    <3> QED BY <1>3, <2>7, <3>2, <3>3, <3>4, <3>5 DEF ScriptsInv, ScriptsIn
  <2>9. CASE called.frames # <<>>
    <3> DEFINE frame == [held |-> {}, ref |-> ref]
    <3>1. s' = called /\ called.frames = Append(<<>>, frame)
      BY <1>1, <1>7, <2>7, <2>9
    <3>2. DOMAIN called.frames = {1} /\ called.frames[1].ref = ref
      BY <3>1
    <3>3. DOMAIN s.frames = {}
      BY <1>1
    <3>4. Held(events, called.frames, s.registry)
      <4>1. /\ \A j \in Scripts!TimerId : events[j].ref = none => events[j] = Scripts!NoEvent
            /\ \A j, k \in Scripts!TimerId : events[j].ref = events[k].ref => j = k \/ events[j].ref = none
        BY <2>3 DEF Held
      <4>2. \A r \in ScriptRefs : r \in s.registry \ {ref} <=> \E j \in Scripts!TimerId : events[j].ref = r
        BY <2>3, <3>3 DEF Held
      <4>3. \A j \in Scripts!TimerId : events[j].ref # ref
        BY <2>1, <4>2
      <4> QED BY <2>1, <3>2, <4>1, <4>2, <4>3 DEF Held
    <3> QED BY <1>3, <2>7, <3>1, <3>4 DEF ScriptsInv, ScriptsIn
  <2> QED BY <2>8, <2>9
<1> QED BY <1>6, <1>7

LEMMA ScriptsInit == Scripts!Init => ScriptsInv
<1> SUFFICES ASSUME Scripts!Init PROVE ScriptsInv
  OBVIOUS
<1> DEFINE noEvent == Scripts!NoEvent
           events == [i \in Scripts!TimerId |-> noEvent]
<1>1. s = [index |-> -1, frames |-> <<>>, tempResults |-> {}, registry |-> {},
           timerEvents |-> events, timers |-> {}, bad |-> FALSE]
  BY DEF Scripts!Init
<1>2. noEvent \in TimerEvent /\ noEvent.ref = none
  BY DEF TimerEvent, Scripts!NoEvent
<1>3. <<>> \in Seq(ScriptFrame) /\ Len(<<>>) = 0 /\ DOMAIN <<>> = {} /\ -1 \in Int
  OBVIOUS
<1> HIDE DEF noEvent
<1>4. events \in [Scripts!TimerId -> TimerEvent] /\ \A i \in Scripts!TimerId : events[i] = noEvent
  BY <1>2
<1> HIDE DEF events
<1>5. /\ s \in ScriptsState /\ s.index = -1 /\ s.frames = <<>> /\ s.registry = {}
      /\ s.timerEvents = events /\ s.timers = {} /\ ~ s.bad
  BY <1>1, <1>3, <1>4 DEF ScriptsState
<1>6. Counted(s)
  BY <1>5, ScriptsConstants DEF Counted
<1>7. Held(s.timerEvents, s.frames, s.registry)
  BY <1>2, <1>4, <1>5, ScriptsConstants DEF Held, noEvent
<1>8. IsFiniteSet(s.timers)
  BY <1>5, FS_EmptySet
<1> QED BY <1>5, <1>6, <1>7, <1>8 DEF ScriptsInv, ScriptsIn

LEMMA ScriptsStutter == ScriptsInv /\ UNCHANGED s => ScriptsInv'
BY DEF ScriptsInv

LEMMA ScriptsStep == ScriptsInv /\ Scripts!Next => ScriptsInv'
BY ScriptsCall, ScriptsReturn, ScriptsCloseState, ScriptsResults, ScriptsStopTimer, ScriptsAddTimer,
   ScriptsHand, ScriptsRunTimer DEF Scripts!Next

LEMMA ScriptsHold == ScriptsInv => Scripts!TypeOK /\ Scripts!FunctionsReleasedOnce
<1> SUFFICES ASSUME ScriptsInv PROVE Scripts!TypeOK /\ Scripts!FunctionsReleasedOnce
  OBVIOUS
<1>1. Held(s.timerEvents, s.frames, s.registry) /\ Counted(s) /\ s \in ScriptsState
  BY ScriptsKnown
<1>2. Scripts!TypeOK
  <2>1. s.index \in -1 .. ScriptLimit + ScriptOverflows - 1
    BY <1>1, ScriptsKnown, ScriptsConstants DEF Counted
  <2>2. s.frames \in [1 .. Len(s.frames) -> Scripts!Frame] /\ Len(s.frames) \in 0 .. ScriptLimit
    <3>1. Scripts!Frame = ScriptFrame
      BY DEF ScriptFrame, Scripts!Frame
    <3>2. s.frames \in [1 .. Len(s.frames) -> ScriptFrame] /\ Len(s.frames) \in Nat
      BY ScriptsKnown
    <3> QED BY <1>1, <3>1, <3>2, ScriptsConstants DEF Counted
  <2>3. s.frames \in UNION {[1 .. n -> Scripts!Frame] : n \in 0 .. ScriptLimit}
    BY <2>2
  <2> DEFINE I == -1 .. ScriptLimit + ScriptOverflows - 1
             F == UNION {[1 .. n -> Scripts!Frame] : n \in 0 .. ScriptLimit}
             state == [index : I, frames : F, tempResults : SUBSET ScriptResults,
                       registry : SUBSET ScriptRefs, timerEvents : [Scripts!TimerId -> TimerEvent],
                       timers : SUBSET ScriptTimer, bad : BOOLEAN]
  <2>4. s \in state
    <3> HIDE DEF I, F
    <3> QED BY <1>1, <2>1, <2>3 DEF ScriptsState, I, F
  <2> QED BY <2>4 DEF Scripts!TypeOK, TimerEvent, ScriptTimer
<1>3. ASSUME NEW r
      PROVE  r \in s.registry <=> r \in Scripts!Referred \cup ({s.frames[k].ref : k \in DOMAIN s.frames} \ {none})
  <2>1. r \in s.registry => r \in ScriptRefs
    BY ScriptsKnown
  <2>2. r \in Scripts!Referred \cup ({s.frames[k].ref : k \in DOMAIN s.frames} \ {none})
          <=> /\ r # none
              /\ \/ \E i \in Scripts!TimerId : s.timerEvents[i].ref = r
                 \/ \E k \in DOMAIN s.frames : s.frames[k].ref = r
    BY DEF Scripts!Referred
  <2>3. /\ \A i \in Scripts!TimerId : s.timerEvents[i].ref \in ScriptRefs \cup {none}
        /\ \A k \in DOMAIN s.frames : s.frames[k].ref \in ScriptRefs \cup {none}
    <3>1. \A i \in Scripts!TimerId : s.timerEvents[i] \in TimerEvent
      BY ScriptsKnown
    <3>2. \A k \in DOMAIN s.frames : s.frames[k] \in ScriptFrame
      BY ScriptsKnown
    <3> QED BY <3>1, <3>2 DEF TimerEvent, ScriptFrame
  <2> QED BY <1>1, <2>1, <2>2, <2>3, ScriptsConstants DEF Held
<1> QED BY <1>2, <1>3, ScriptsKnown DEF Scripts!FunctionsReleasedOnce

(* A function that a script has called later is held until it was called, or  *)
(* stopped, or the state of Lua is closed, and is released once               *)
(* (luascript.cpp), for any depth of calls and any number of timers.          *)
THEOREM FunctionsHeld == Scripts!Spec => [](Scripts!TypeOK /\ Scripts!FunctionsReleasedOnce)
<1>1. ScriptsInv /\ [Scripts!Next]_s => ScriptsInv'
  BY ScriptsStep, ScriptsStutter
<1> QED BY <1>1, ScriptsInit, ScriptsHold, PTL DEF Scripts!Spec

-----------------------------------------------------------------------------
(* Buddies *)

LEMMA BuddiesConstants ==
  /\ Gods \subseteq Friends /\ FreeFriends \in Nat /\ PremiumFriends \in Nat
BY PlayersAssumption DEF Buddies!BuddiesAssumption

(* Maps of some players to what a list shows of them. *)
Shown == UNION {[who -> {"online", "offline"}] : who \in SUBSET Friends}

(* What q may know of g, and what a client of q shows of all of them. *)
Sees(of, q, g) == of[g].on /\ (~ of[g].ghost \/ q \in Gods)
Shows(of, q) == [g \in of[q].entries |-> IF Sees(of, q, g) THEN "online" ELSE "offline"]

(* Only who is in game has a client, or is a ghost; who was loaded with all   *)
(* its entries has them in its list, and its client shows them as they are.   *)
Befriended(of, q) ==
  /\ ~ of[q].on => ~ of[q].client /\ ~ of[q].ghost
  /\ q \notin of[q].entries
  /\ of[q].on /\ ~ of[q].short => of[q].list = of[q].entries
  /\ of[q].client /\ ~ of[q].short => of[q].shown = Shows(of, q)

BuddiesState == [of : [Friends -> Buddies!Buddy], table : SUBSET Friends]

BuddiesInv ==
  /\ s \in BuddiesState
  /\ \A q \in Friends : Befriended(s.of, q)
  /\ s.table = {q \in Friends : s.of[q].on /\ ~ s.of[q].ghost}

LEMMA ShownIs ==
  ASSUME NEW S \in SUBSET Friends, NEW f, f = [g \in S |-> f[g]],
         \A g \in S : f[g] \in {"online", "offline"}
  PROVE  f \in Shown
<1>1. f \in [S -> {"online", "offline"}]
  OBVIOUS
<1> QED BY <1>1 DEF Shown

LEMMA ShownHas ==
  ASSUME NEW f \in Shown
  PROVE  /\ DOMAIN f \in SUBSET Friends /\ f = [g \in DOMAIN f |-> f[g]]
         /\ \A g \in DOMAIN f : f[g] \in {"online", "offline"}
<1>1. PICK S \in SUBSET Friends : f \in [S -> {"online", "offline"}]
  BY DEF Shown
<1> QED BY <1>1

LEMMA ShowsTyped ==
  ASSUME NEW of \in [Friends -> Buddies!Buddy], NEW q \in Friends
  PROVE  Shows(of, q) \in Shown
<1>1. of[q].entries \in SUBSET Friends
  BY DEF Buddies!Buddy
<1> DEFINE f == [g \in of[q].entries |-> IF Sees(of, q, g) THEN "online" ELSE "offline"]
<1>2. f = [g \in of[q].entries |-> f[g]] /\ \A g \in of[q].entries : f[g] \in {"online", "offline"}
  OBVIOUS
<1> HIDE DEF f
<1>3. f \in Shown
  BY <1>1, <1>2, ShownIs
<1> QED BY <1>3 DEF Shows, f

(* g has changed, and what those who are told of it, and the others, may see. *)
Changed(old, of, g, to, status) ==
  /\ \A q \in Friends \ {g} : of[q] = old[q] /\ Befriended(old, q)
  /\ Befriended(of, g)
  /\ \A q \in to : Sees(of, q, g) <=> status = "online"
  /\ \A q \in Friends \ to : q # g => (Sees(of, q, g) <=> Sees(old, q, g))

(* Everybody that lists g is told that it has come, has gone, or is a ghost.  *)
(* What the told are told is true, and for the others nothing has changed.    *)
LEMMA BuddiesNotified ==
  ASSUME NEW old \in [Friends -> Buddies!Buddy], NEW of \in [Friends -> Buddies!Buddy],
         NEW g \in Friends, NEW to \in SUBSET Friends, NEW status \in {"online", "offline"},
         Changed(old, of, g, to, status), NEW new, new = Buddies!NotifyStatusChange(of, to, g, status)
  PROVE  /\ new \in [Friends -> Buddies!Buddy]
         /\ \A q \in Friends : Befriended(new, q)
         /\ \A q \in Friends : new[q].on = of[q].on /\ new[q].ghost = of[q].ghost
<1> USE DEF Changed
<1> DEFINE told(q) == q \in to /\ of[q].on /\ of[q].client /\ g \in of[q].list
           now(q) == [x \in DOMAIN of[q].shown \cup {g} |-> IF x = g THEN status ELSE of[q].shown[x]]
<1>1. new = [q \in Friends |-> IF told(q) THEN [of[q] EXCEPT !.shown = now(q)] ELSE of[q]]
  BY DEF Buddies!NotifyStatusChange
<1>2. ASSUME NEW q \in Friends
      PROVE  now(q) \in Shown
  <2>1. of[q].shown \in Shown
    BY DEF Buddies!Buddy, Shown
  <2> DEFINE f == now(q)
             S == DOMAIN of[q].shown \cup {g}
  <2>2. f = [x \in S |-> f[x]] /\ S \in SUBSET Friends /\ \A x \in S : f[x] \in {"online", "offline"}
    BY <2>1, ShownHas
  <2> HIDE DEF f, S
  <2>3. f \in Shown
    BY <2>2, ShownIs
  <2> QED BY <2>3 DEF f
<1>3. ASSUME NEW q \in Friends
      PROVE  /\ new[q] \in Buddies!Buddy
             /\ new[q].on = of[q].on /\ new[q].client = of[q].client /\ new[q].ghost = of[q].ghost
             /\ new[q].short = of[q].short /\ new[q].entries = of[q].entries
             /\ new[q].list = of[q].list
             /\ new[q].shown = IF told(q) THEN now(q) ELSE of[q].shown
  <2>1. of[q] \in Buddies!Buddy
    OBVIOUS
  <2>2. now(q) \in Shown
    BY <1>2
  <2> DEFINE v == of[q]
             n == now(q)
  <2>3. new[q] = IF told(q) THEN [v EXCEPT !.shown = n] ELSE v
    BY <1>1
  <2> HIDE DEF v, n, told
  <2>4. v \in Buddies!Buddy /\ n \in Shown
    BY <2>1, <2>2 DEF v, n
  <2>5. /\ new[q] \in Buddies!Buddy
        /\ new[q].on = v.on /\ new[q].client = v.client /\ new[q].ghost = v.ghost
        /\ new[q].short = v.short /\ new[q].entries = v.entries /\ new[q].list = v.list
        /\ new[q].shown = IF told(q) THEN n ELSE v.shown
    BY <2>3, <2>4 DEF Buddies!Buddy, Shown
  <2> QED BY <2>5 DEF v, n
<1>4. new \in [Friends -> Buddies!Buddy]
  BY <1>1, <1>3
<1>5. \A q, x \in Friends : Sees(new, q, x) <=> Sees(of, q, x)
  BY <1>3 DEF Sees
<1>6. ASSUME NEW q \in Friends, q # g PROVE Befriended(new, q)
  <2>1. of[q] = old[q] /\ Befriended(old, q)
    BY <1>6
  <2>2. \A x \in Friends \ {g} : Sees(of, q, x) <=> Sees(old, q, x)
    BY DEF Sees
  <2>3. ASSUME of[q].client, ~ of[q].short PROVE new[q].shown = Shows(new, q)
    <3>1. /\ of[q].shown = Shows(old, q) /\ of[q].list = of[q].entries /\ of[q].on
          /\ of[q].entries \in SUBSET Friends
      BY <2>1, <2>3 DEF Befriended, Buddies!Buddy
    <3>2. Shows(new, q) = [x \in of[q].entries |-> IF Sees(of, q, x) THEN "online" ELSE "offline"]
      BY <1>3, <1>5, <3>1 DEF Shows
    <3>3. of[q].shown = [x \in of[q].entries |-> IF Sees(old, q, x) THEN "online" ELSE "offline"]
      BY <2>1, <3>1 DEF Shows
    <3>4. CASE told(q)
      <4>1. q \in to /\ g \in of[q].entries
        BY <3>1, <3>4
      <4>2. status = IF Sees(of, q, g) THEN "online" ELSE "offline"
        BY <4>1
      <4>3. now(q) = [x \in of[q].entries |-> IF Sees(of, q, x) THEN "online" ELSE "offline"]
        BY <2>2, <3>1, <3>3, <4>1, <4>2
      <4> QED BY <1>3, <3>2, <3>4, <4>3
    <3>5. CASE ~ told(q)
      <4>1. q \in to => g \notin of[q].entries
        BY <2>3, <3>1, <3>5
      <4>2. \A x \in of[q].entries : Sees(of, q, x) <=> Sees(old, q, x)
        BY <1>6, <2>2, <3>1, <4>1
      <4> QED BY <1>3, <3>2, <3>3, <3>5, <4>2
    <3> QED BY <3>4, <3>5
  <2> QED BY <1>3, <2>1, <2>3, ZenonT(60) DEF Befriended
<1>7. Befriended(new, g)
  <2>1. ASSUME of[g].client, ~ of[g].short PROVE new[g].shown = Shows(new, g)
    <3>1. /\ of[g].shown = Shows(of, g) /\ of[g].list = of[g].entries /\ g \notin of[g].entries
          /\ of[g].on /\ of[g].entries \in SUBSET Friends
      BY <2>1 DEF Befriended, Buddies!Buddy
    <3>2. new[g].shown = of[g].shown
      BY <1>3, <3>1
    <3> QED BY <1>3, <1>5, <3>1, <3>2 DEF Shows
  <2> QED BY <1>3, <2>1 DEF Befriended
<1> QED BY <1>3, <1>4, <1>6, <1>7

(* What a player becomes that goes. *)
LEMMA BuddyGoes ==
  ASSUME NEW v \in Buddies!Buddy, NEW shown \in Shown, NEW u,
         u = [v EXCEPT !.on = FALSE, !.client = FALSE, !.ghost = FALSE,
                       !.list = {}, !.shown = shown, !.short = FALSE]
  PROVE  /\ u \in Buddies!Buddy
         /\ ~ u.on /\ ~ u.client /\ ~ u.ghost /\ u.entries = v.entries
<1>1. ~ u.on /\ ~ u.client /\ ~ u.ghost /\ u.entries = v.entries
  BY DEF Buddies!Buddy
<1>2. u \in Buddies!Buddy
  BY DEF Buddies!Buddy, Shown
<1> QED BY <1>1, <1>2

(* A step of one player that nobody else is told of. *)
LEMMA BuddiesAlone ==
  ASSUME BuddiesInv, NEW q \in Friends, NEW u \in Buddies!Buddy, s' = [s EXCEPT !.of[q] = u],
         u.on = s.of[q].on, u.ghost = s.of[q].ghost,
         NEW of, of = [s.of EXCEPT ![q] = u], Befriended(of, q)
  PROVE  BuddiesInv'
<1>1. /\ s.of \in [Friends -> Buddies!Buddy] /\ s.table \in SUBSET Friends /\ s \in BuddiesState
      /\ s.table = {r \in Friends : s.of[r].on /\ ~ s.of[r].ghost}
      /\ \A r \in Friends : Befriended(s.of, r)
  BY DEF BuddiesInv, BuddiesState
<1>2. of \in [Friends -> Buddies!Buddy] /\ of[q] = u /\ \A r \in Friends \ {q} : of[r] = s.of[r]
  BY <1>1
<1>3. \A r \in Friends : of[r].on = s.of[r].on /\ of[r].ghost = s.of[r].ghost
  BY <1>2
<1>4. s'.of = of /\ s'.table = s.table /\ s' \in BuddiesState
  BY <1>1, <1>2 DEF BuddiesState
<1>5. \A r, g \in Friends : Sees(of, r, g) <=> Sees(s.of, r, g)
  BY <1>3 DEF Sees
<1>6. ASSUME NEW r \in Friends \ {q} PROVE Befriended(of, r)
  <2>1. s.of[r].entries \in SUBSET Friends
    BY <1>1 DEF Buddies!Buddy
  <2>2. Shows(of, r) = Shows(s.of, r)
    BY <1>2, <1>5, <2>1 DEF Shows
  <2> QED BY <1>1, <1>2, <2>2 DEF Befriended
<1>7. \A r \in Friends : Befriended(of, r)
  BY <1>6
<1>8. s.table = {r \in Friends : of[r].on /\ ~ of[r].ghost}
  BY <1>1, <1>3
<1> QED BY <1>4, <1>7, <1>8 DEF BuddiesInv

(* A step of one player, of which some are told. *)
LEMMA BuddiesTold ==
  ASSUME BuddiesInv, NEW g \in Friends, NEW u \in Buddies!Buddy,
         NEW to \in SUBSET Friends, NEW status \in {"online", "offline"},
         NEW of, of = [s.of EXCEPT ![g] = u], Befriended(of, g),
         \A q \in to : Sees(of, q, g) <=> status = "online",
         \A q \in Friends \ to : q # g => (Sees(of, q, g) <=> Sees(s.of, q, g)),
         NEW table \in SUBSET Friends,
         table = IF u.on /\ ~ u.ghost THEN s.table \cup {g} ELSE s.table \ {g},
         s' = [of |-> Buddies!NotifyStatusChange(of, to, g, status), table |-> table]
  PROVE  BuddiesInv'
<1>1. /\ s.of \in [Friends -> Buddies!Buddy] /\ s.table \in SUBSET Friends
      /\ s.table = {r \in Friends : s.of[r].on /\ ~ s.of[r].ghost}
      /\ \A r \in Friends : Befriended(s.of, r)
  BY DEF BuddiesInv, BuddiesState
<1>2. of \in [Friends -> Buddies!Buddy] /\ of[g] = u /\ \A r \in Friends \ {g} : of[r] = s.of[r]
  BY <1>1
<1> DEFINE new == Buddies!NotifyStatusChange(of, to, g, status)
<1>3. /\ new \in [Friends -> Buddies!Buddy]
      /\ \A q \in Friends : Befriended(new, q)
      /\ \A q \in Friends : new[q].on = of[q].on /\ new[q].ghost = of[q].ghost
  <2>1. Changed(s.of, of, g, to, status)
    BY <1>1, <1>2 DEF Changed
  <2>2. s.of \in [Friends -> Buddies!Buddy] /\ of \in [Friends -> Buddies!Buddy]
    BY <1>1, <1>2
  <2> HIDE DEF new
  <2>3. new = Buddies!NotifyStatusChange(of, to, g, status)
    BY DEF new
  <2> QED BY <2>1, <2>2, <2>3, BuddiesNotified
<1> HIDE DEF new
<1>4. s'.of = new /\ s'.table = table /\ s' \in BuddiesState
  BY <1>3 DEF BuddiesState, new
<1>5. table = {r \in Friends : new[r].on /\ ~ new[r].ghost}
  <2>1. \A r \in Friends : r \in table <=> new[r].on /\ ~ new[r].ghost
    BY <1>1, <1>2, <1>3
  <2> QED BY <2>1
<1> QED BY <1>3, <1>4, <1>5 DEF BuddiesInv

LEMMA BuddiesLogin == ASSUME BuddiesInv, NEW q \in Friends, Buddies!Login(q) PROVE BuddiesInv'
<1> DEFINE v == s.of[q]
           shown == Shows(s.of, q)
<1>1. /\ s.of \in [Friends -> Buddies!Buddy] /\ v \in Buddies!Buddy /\ Befriended(s.of, q)
      /\ s.table \in SUBSET Friends
  BY DEF BuddiesInv, BuddiesState
<1>2. shown = Buddies!SendVIPEntries(q)
  BY DEF Shows, Sees, Buddies!SendVIPEntries, Buddies!CanSee
<1>3. PICK list \in SUBSET v.entries, all \in BOOLEAN :
        /\ all => list = v.entries
        /\ s' = [of |-> Buddies!NotifyStatusChange(
                          [s.of EXCEPT ![q] = [v EXCEPT !.on = TRUE, !.client = TRUE, !.list = list,
                                                        !.short = ~ all, !.shown = shown]],
                          Friends \ {q}, q, "online"),
                 table |-> s.table \cup {q}]
  <2> DEFINE all == Buddies!Cardinality(v.entries) <= Buddies!GetMaxVIPEntries(v)
  <2>1. PICK list \in SUBSET v.entries :
          /\ all => list = v.entries
          /\ s' = [of |-> Buddies!NotifyStatusChange(
                            [s.of EXCEPT ![q] = [v EXCEPT !.on = TRUE, !.client = TRUE, !.list = list,
                                                          !.short = ~ all, !.shown = shown]],
                            Friends \ {q}, q, "online"),
                   table |-> s.table \cup {q}]
    BY <1>2 DEF Buddies!Login
  <2>2. all \in BOOLEAN
    OBVIOUS
  <2> HIDE DEF all, shown, v
  <2> QED BY <2>1, <2>2
<1>4. ~ v.on
  BY DEF Buddies!Login
<1>5. shown \in Shown
  BY <1>1, ShowsTyped
<1> DEFINE u == [v EXCEPT !.on = TRUE, !.client = TRUE, !.list = list, !.short = ~ all, !.shown = shown]
<1>6. s' = [of |-> Buddies!NotifyStatusChange([s.of EXCEPT ![q] = u], Friends \ {q}, q, "online"),
            table |-> s.table \cup {q}]
  <2> HIDE DEF v, shown
  <2> QED BY <1>3
<1>7. /\ v.entries \in SUBSET Friends /\ ~ v.ghost /\ q \notin v.entries
  BY <1>1, <1>4 DEF Befriended, Buddies!Buddy
<1> HIDE DEF v, shown
<1>8. u = [v EXCEPT !.on = TRUE, !.client = TRUE, !.list = list, !.short = ~ all, !.shown = shown]
  OBVIOUS
<1> HIDE DEF u
<1>9. /\ u \in Buddies!Buddy /\ u.on /\ u.client /\ ~ u.ghost
      /\ u.short = ~ all /\ u.entries = v.entries /\ u.list = list /\ u.shown = shown
  <2>1. /\ u.on /\ u.client /\ ~ u.ghost
        /\ u.short = ~ all /\ u.entries = v.entries /\ u.list = list /\ u.shown = shown
    BY <1>1, <1>7, <1>8 DEF Buddies!Buddy
  <2>2. list \in SUBSET Friends
    BY <1>7
  <2>3. u \in Buddies!Buddy
    BY <1>1, <1>5, <1>8, <2>2 DEF Buddies!Buddy, Shown
  <2> QED BY <2>1, <2>3
<1> DEFINE of == [s.of EXCEPT ![q] = u]
<1>10. of[q] = u /\ \A r \in Friends \ {q} : of[r] = s.of[r]
  BY <1>1
<1>11. Befriended(of, q)
  <2>1. shown = [g \in v.entries |-> IF Sees(s.of, q, g) THEN "online" ELSE "offline"]
    BY DEF shown, v, Shows
  <2>2. \A g \in v.entries : Sees(of, q, g) = Sees(s.of, q, g)
    BY <1>7, <1>10 DEF Sees
  <2>3. Shows(of, q) = shown
    BY <1>7, <1>9, <1>10, <2>1, <2>2 DEF Shows
  <2> QED BY <1>3, <1>7, <1>9, <1>10, <2>3 DEF Befriended
<1>12. \A r \in Friends \ {q} : Sees(of, r, q) <=> "online" = "online"
  BY <1>9, <1>10 DEF Sees
<1> HIDE DEF of
<1>13. of = [s.of EXCEPT ![q] = u] /\ s.table \cup {q} \in SUBSET Friends
  BY <1>1 DEF of
<1>14. s' = [of |-> Buddies!NotifyStatusChange(of, Friends \ {q}, q, "online"), table |-> s.table \cup {q}]
  BY <1>6, <1>13
<1> QED BY <1>9, <1>11, <1>12, <1>13, <1>14, BuddiesTold

LEMMA BuddiesLogout == ASSUME BuddiesInv, NEW q \in Friends, Buddies!Logout(q) PROVE BuddiesInv'
<1> DEFINE v == s.of[q]
           none_ == Buddies!Nobody
           u == [v EXCEPT !.on = FALSE, !.client = FALSE, !.ghost = FALSE,
                          !.list = {}, !.shown = none_, !.short = FALSE]
<1>1. /\ s.of \in [Friends -> Buddies!Buddy] /\ v \in Buddies!Buddy /\ Befriended(s.of, q)
      /\ s.table \in SUBSET Friends
  BY DEF BuddiesInv, BuddiesState
<1>2. s' = [of |-> Buddies!NotifyStatusChange([s.of EXCEPT ![q] = u], Friends \ {q}, q, "offline"),
            table |-> s.table \ {q}]
  BY DEF Buddies!Logout
<1>3. none_ \in Shown
  BY DEF Buddies!Nobody, Shown
<1>4. q \notin v.entries
  BY <1>1 DEF Befriended
<1> HIDE DEF v, none_
<1>5. u = [v EXCEPT !.on = FALSE, !.client = FALSE, !.ghost = FALSE,
                    !.list = {}, !.shown = none_, !.short = FALSE]
  OBVIOUS
<1> HIDE DEF u
<1>6. /\ u \in Buddies!Buddy /\ ~ u.on /\ ~ u.client /\ ~ u.ghost /\ u.entries = v.entries
  BY <1>1, <1>3, <1>5, BuddyGoes
<1> DEFINE of == [s.of EXCEPT ![q] = u]
<1>7. of[q] = u
  BY <1>1
<1>8. Befriended(of, q)
  BY <1>4, <1>6, <1>7 DEF Befriended
<1>9. \A r \in Friends \ {q} : Sees(of, r, q) <=> "offline" = "online"
  BY <1>6, <1>7 DEF Sees
<1> HIDE DEF of
<1>10. of = [s.of EXCEPT ![q] = u] /\ s.table \ {q} \in SUBSET Friends
  BY <1>1 DEF of
<1>11. s' = [of |-> Buddies!NotifyStatusChange(of, Friends \ {q}, q, "offline"), table |-> s.table \ {q}]
  BY <1>2, <1>10
<1> QED BY <1>6, <1>8, <1>9, <1>10, <1>11, BuddiesTold

LEMMA BuddiesClient ==
  ASSUME BuddiesInv, NEW q \in Friends, Buddies!Release(q) \/ Buddies!Connect(q) PROVE BuddiesInv'
<1> DEFINE v == s.of[q]
<1>1. /\ s.of \in [Friends -> Buddies!Buddy] /\ v \in Buddies!Buddy /\ Befriended(s.of, q)
  BY DEF BuddiesInv, BuddiesState
<1>2. PICK client \in BOOLEAN, shown \in Shown :
        /\ s' = [s EXCEPT !.of[q] = [v EXCEPT !.client = client, !.shown = shown]]
        /\ client => v.on /\ shown = Shows(s.of, q)
  <2>1. CASE Buddies!Release(q)
    <3>1. Buddies!Nobody \in Shown
      BY DEF Buddies!Nobody, Shown
    <3>2. s' = [s EXCEPT !.of[q] = [v EXCEPT !.client = FALSE, !.shown = Buddies!Nobody]]
      BY <1>1, <2>1 DEF Buddies!Release
    <3> HIDE DEF v
    <3> QED BY <3>1, <3>2
  <2>2. CASE Buddies!Connect(q)
    <3>1. Shows(s.of, q) \in Shown
      BY <1>1, ShowsTyped
    <3>2. Shows(s.of, q) = Buddies!SendVIPEntries(q)
      BY DEF Shows, Sees, Buddies!SendVIPEntries, Buddies!CanSee
    <3>3. s' = [s EXCEPT !.of[q] = [v EXCEPT !.client = TRUE, !.shown = Shows(s.of, q)]] /\ v.on
      BY <1>1, <2>2, <3>2 DEF Buddies!Connect
    <3> HIDE DEF v
    <3> QED BY <3>1, <3>3
  <2> QED BY <2>1, <2>2
<1>3. /\ v.on \in BOOLEAN /\ v.ghost \in BOOLEAN /\ v.short \in BOOLEAN
      /\ v.entries \in SUBSET Friends /\ v.list \in SUBSET Friends
  BY <1>1 DEF Buddies!Buddy
<1> DEFINE u == [v EXCEPT !.client = client, !.shown = shown]
<1>4. s' = [s EXCEPT !.of[q] = u]
  BY <1>2
<1> HIDE DEF v
<1>5. /\ u \in Buddies!Buddy /\ u.on = v.on /\ u.client = client /\ u.ghost = v.ghost
      /\ u.short = v.short /\ u.entries = v.entries /\ u.list = v.list /\ u.shown = shown
  <2>1. /\ u.on = v.on /\ u.client = client /\ u.ghost = v.ghost
        /\ u.short = v.short /\ u.entries = v.entries /\ u.list = v.list /\ u.shown = shown
    BY <1>1 DEF Buddies!Buddy
  <2>2. u \in Buddies!Buddy
    BY <1>1 DEF Buddies!Buddy, Shown
  <2> QED BY <2>1, <2>2
<1> HIDE DEF u
<1> DEFINE of == [s.of EXCEPT ![q] = u]
<1>6. of[q] = u /\ \A r \in Friends \ {q} : of[r] = s.of[r]
  BY <1>1
<1>7. Befriended(of, q)
  <2>1. Shows(of, q) = Shows(s.of, q)
    BY <1>3, <1>5, <1>6 DEF Shows, Sees, v
  <2> QED BY <1>1, <1>2, <1>5, <1>6, <2>1 DEF Befriended, v
<1> HIDE DEF of
<1>9. of = [s.of EXCEPT ![q] = u]
  BY DEF of
<1> QED BY <1>4, <1>5, <1>7, <1>9, BuddiesAlone DEF v

LEMMA BuddiesAddVIP ==
  ASSUME BuddiesInv, NEW q \in Friends, NEW g \in Friends, q # g, s.of[q].on,
         NEW status, status = (IF Sees(s.of, q, g) THEN "online" ELSE "offline"),
         Buddies!AddVIP(q, g, status)
  PROVE  BuddiesInv'
<1> DEFINE v == s.of[q]
<1>1. /\ s.of \in [Friends -> Buddies!Buddy] /\ v \in Buddies!Buddy /\ Befriended(s.of, q)
  BY DEF BuddiesInv, BuddiesState
<1>2. CASE UNCHANGED s
  BY <1>2 DEF BuddiesInv, Befriended, Shows, Sees
<1> DEFINE with == [x \in DOMAIN v.shown \cup {g} |-> IF x = g THEN status ELSE v.shown[x]]
           shown == IF ~ v.client THEN v.shown ELSE with
           list == v.list \cup {g}
           entries == v.entries \cup {g}
           u == [v EXCEPT !.list = list, !.entries = entries, !.shown = shown]
<1>3. CASE s' = [s EXCEPT !.of[q] = u]
  <2>1. /\ v.on \in BOOLEAN /\ v.ghost \in BOOLEAN /\ v.short \in BOOLEAN
        /\ v.entries \in SUBSET Friends /\ v.list \in SUBSET Friends /\ v.shown \in Shown
    BY <1>1 DEF Buddies!Buddy, Shown
  <2>2. with \in Shown
    <3> DEFINE f == with
               S == DOMAIN v.shown \cup {g}
    <3>1. f = [x \in S |-> f[x]] /\ S \in SUBSET Friends /\ \A x \in S : f[x] \in {"online", "offline"}
      BY <2>1, ShownHas
    <3> HIDE DEF f, S
    <3>2. f \in Shown
      BY <3>1, ShownIs
    <3> QED BY <3>2 DEF f
  <2>3. shown \in Shown /\ list \in SUBSET Friends /\ entries \in SUBSET Friends
    BY <2>1, <2>2
  <2> HIDE DEF v, shown, list, entries
  <2>4. s' = [s EXCEPT !.of[q] = u]
    BY <1>3
  <2>5. /\ u \in Buddies!Buddy /\ u.on = v.on /\ u.client = v.client /\ u.ghost = v.ghost
        /\ u.short = v.short /\ u.entries = entries /\ u.list = list /\ u.shown = shown
    <3>1. /\ u.on = v.on /\ u.client = v.client /\ u.ghost = v.ghost
          /\ u.short = v.short /\ u.entries = entries /\ u.list = list /\ u.shown = shown
      BY <1>1 DEF Buddies!Buddy
    <3>2. u \in Buddies!Buddy
      BY <1>1, <2>3 DEF Buddies!Buddy, Shown
    <3> QED BY <3>1, <3>2
  <2> HIDE DEF u
  <2> DEFINE of == [s.of EXCEPT ![q] = u]
  <2>6. of[q] = u /\ \A r \in Friends \ {q} : of[r] = s.of[r]
    BY <1>1
  <2>7. \A x \in Friends : Sees(of, q, x) <=> Sees(s.of, q, x)
    <3>1. \A x \in Friends : of[x].on = s.of[x].on /\ of[x].ghost = s.of[x].ghost
      BY <2>5, <2>6 DEF v
    <3> HIDE DEF of
    <3> QED BY <3>1 DEF Sees
  <2>8. Befriended(of, q)
    <3>1. ASSUME v.client, ~ v.short PROVE shown = Shows(of, q)
      <4>1. v.shown = [x \in v.entries |-> IF Sees(s.of, q, x) THEN "online" ELSE "offline"]
        BY <1>1, <3>1 DEF Befriended, Shows, v
      <4>2. Shows(of, q) = [x \in entries |-> IF Sees(of, q, x) THEN "online" ELSE "offline"]
        BY <2>5, <2>6 DEF Shows
      <4>3. shown = [x \in entries |-> IF x = g THEN status ELSE v.shown[x]]
        BY <3>1, <4>1 DEF shown, entries
      <4>4. \A x \in entries : (IF x = g THEN status ELSE v.shown[x])
                               = IF Sees(of, q, x) THEN "online" ELSE "offline"
        BY <2>1, <2>7, <4>1 DEF entries
      <4> QED BY <4>2, <4>3, <4>4
    <3>2. ~ v.short => list = entries
      BY <1>1 DEF Befriended, v, list, entries
    <3>3. q \notin entries
      BY <1>1 DEF Befriended, v, entries
    <3>4. ~ v.on => ~ v.client /\ ~ v.ghost
      BY <1>1 DEF Befriended, v
    <3> QED BY <2>5, <2>6, <3>1, <3>2, <3>3, <3>4 DEF Befriended
  <2> HIDE DEF of
  <2>9. of = [s.of EXCEPT ![q] = u]
    BY DEF of
  <2> QED BY <2>4, <2>5, <2>8, <2>9, BuddiesAlone DEF v
<1> QED BY <1>2, <1>3 DEF Buddies!AddVIP

LEMMA BuddiesRequestAdd ==
  ASSUME BuddiesInv, NEW q \in Friends, NEW g \in Friends, Buddies!PlayerRequestAddVip(q, g)
  PROVE  BuddiesInv'
<1>1. /\ s.of[q].on /\ q # g
  BY DEF Buddies!PlayerRequestAddVip
<1>2. s.of[g].on \in BOOLEAN
  BY DEF BuddiesInv, BuddiesState, Buddies!Buddy
<1> DEFINE status == IF Sees(s.of, q, g) THEN "online" ELSE "offline"
<1>3. Buddies!AddVIP(q, g, status)
  BY <1>2 DEF Buddies!PlayerRequestAddVip, Sees, Buddies!CanSee
<1> HIDE DEF status
<1>4. status = (IF Sees(s.of, q, g) THEN "online" ELSE "offline")
  BY DEF status
<1> QED BY <1>1, <1>3, <1>4, BuddiesAddVIP

LEMMA BuddiesRequestRemove ==
  ASSUME BuddiesInv, NEW q \in Friends, NEW g \in Friends, Buddies!PlayerRequestRemoveVip(q, g)
  PROVE  BuddiesInv'
<1> DEFINE v == s.of[q]
<1>1. /\ s.of \in [Friends -> Buddies!Buddy] /\ v \in Buddies!Buddy /\ Befriended(s.of, q)
      /\ v.on /\ g \in DOMAIN v.shown
  BY DEF BuddiesInv, BuddiesState, Buddies!PlayerRequestRemoveVip
<1> DEFINE shown == [x \in DOMAIN v.shown \ {g} |-> v.shown[x]]
           list == v.list \ {g}
           entries == IF g \in v.list THEN v.entries \ {g} ELSE v.entries
           u == [v EXCEPT !.shown = shown, !.list = list, !.entries = entries]
<1>2. s' = [s EXCEPT !.of[q] = u]
  BY DEF Buddies!PlayerRequestRemoveVip
<1>3. /\ v.on \in BOOLEAN /\ v.ghost \in BOOLEAN /\ v.short \in BOOLEAN
      /\ v.entries \in SUBSET Friends /\ v.list \in SUBSET Friends /\ v.shown \in Shown
  BY <1>1 DEF Buddies!Buddy, Shown
<1>4. shown \in Shown
  <2> DEFINE f == shown
             S == DOMAIN v.shown \ {g}
  <2>1. f = [x \in S |-> f[x]] /\ S \in SUBSET Friends /\ \A x \in S : f[x] \in {"online", "offline"}
    BY <1>3, ShownHas
  <2> HIDE DEF f, S
  <2>2. f \in Shown
    BY <2>1, ShownIs
  <2> QED BY <2>2 DEF f
<1>5. list \in SUBSET Friends /\ entries \in SUBSET Friends
  BY <1>3
<1>6. ASSUME v.client, ~ v.short
      PROVE  shown = [x \in entries |-> IF Sees(s.of, q, x) THEN "online" ELSE "offline"]
  <2>1. v.shown = [x \in v.entries |-> IF Sees(s.of, q, x) THEN "online" ELSE "offline"]
    BY <1>1, <1>6 DEF Befriended, Shows
  <2>2. v.list = v.entries
    BY <1>1, <1>6 DEF Befriended
  <2>3. shown = [x \in v.entries \ {g} |-> v.shown[x]]
    BY <2>1
  <2>4. entries = v.entries \ {g}
    BY <2>2
  <2> QED BY <2>1, <2>3, <2>4
<1>7. ~ v.short => list = entries
  BY <1>1 DEF Befriended
<1>8. q \notin entries
  BY <1>1 DEF Befriended
<1> HIDE DEF v, shown, list, entries
<1>9. s' = [s EXCEPT !.of[q] = u]
  BY <1>2
<1>10. /\ u \in Buddies!Buddy /\ u.on = v.on /\ u.client = v.client /\ u.ghost = v.ghost
       /\ u.short = v.short /\ u.entries = entries /\ u.list = list /\ u.shown = shown
  <2>1. /\ u.on = v.on /\ u.client = v.client /\ u.ghost = v.ghost
        /\ u.short = v.short /\ u.entries = entries /\ u.list = list /\ u.shown = shown
    BY <1>1 DEF Buddies!Buddy
  <2>2. u \in Buddies!Buddy
    BY <1>1, <1>4, <1>5 DEF Buddies!Buddy, Shown
  <2> QED BY <2>1, <2>2
<1> HIDE DEF u
<1> DEFINE of == [s.of EXCEPT ![q] = u]
<1>11. of[q] = u /\ \A r \in Friends \ {q} : of[r] = s.of[r]
  BY <1>1
<1>12. \A x \in Friends : Sees(of, q, x) <=> Sees(s.of, q, x)
  <2>1. \A x \in Friends : of[x].on = s.of[x].on /\ of[x].ghost = s.of[x].ghost
    BY <1>10, <1>11 DEF v
  <2> HIDE DEF of
  <2> QED BY <2>1 DEF Sees
<1>13. Befriended(of, q)
  <2>1. ASSUME v.client, ~ v.short PROVE shown = Shows(of, q)
    <3>1. Shows(of, q) = [x \in entries |-> IF Sees(of, q, x) THEN "online" ELSE "offline"]
      BY <1>10, <1>11 DEF Shows
    <3> QED BY <1>5, <1>6, <1>12, <2>1, <3>1
  <2> QED BY <1>1, <1>7, <1>8, <1>10, <1>11, <2>1 DEF Befriended
<1> HIDE DEF of
<1>14. of = [s.of EXCEPT ![q] = u]
  BY DEF of
<1> QED BY <1>9, <1>10, <1>13, <1>14, BuddiesAlone DEF v

LEMMA BuddiesGhost ==
  ASSUME BuddiesInv, NEW q \in Friends, NEW enabled \in BOOLEAN,
         Buddies!LuaPlayerSetGhostMode(q, enabled)
  PROVE  BuddiesInv'
<1> DEFINE v == s.of[q]
           u == [v EXCEPT !.ghost = enabled]
           status == IF enabled THEN "offline" ELSE "online"
           table == IF enabled THEN s.table \ {q} ELSE s.table \cup {q}
           to == Friends \ Gods
<1>1. /\ s.of \in [Friends -> Buddies!Buddy] /\ v \in Buddies!Buddy /\ Befriended(s.of, q)
      /\ s.table \in SUBSET Friends /\ v.on
  BY DEF BuddiesInv, BuddiesState, Buddies!LuaPlayerSetGhostMode
<1> DEFINE of == [s.of EXCEPT ![q] = u]
<1>2. s' = [of |-> Buddies!NotifyStatusChange(of, to, q, status), table |-> table]
  <2>1. [s.of EXCEPT ![q].ghost = enabled] = of
    BY <1>1
  <2>2. s' = [of |-> Buddies!NotifyStatusChange([s.of EXCEPT ![q].ghost = enabled], to, q, status),
              table |-> table]
    BY DEF Buddies!LuaPlayerSetGhostMode
  <2> QED BY <2>1, <2>2
<1>3. /\ u \in Buddies!Buddy /\ u.on = v.on /\ u.client = v.client /\ u.ghost = enabled
      /\ u.short = v.short /\ u.entries = v.entries /\ u.list = v.list /\ u.shown = v.shown
  <2> HIDE DEF v
  <2>1. /\ u.on = v.on /\ u.client = v.client /\ u.ghost = enabled
        /\ u.short = v.short /\ u.entries = v.entries /\ u.list = v.list /\ u.shown = v.shown
    BY <1>1 DEF Buddies!Buddy
  <2>2. u \in Buddies!Buddy
    BY <1>1 DEF Buddies!Buddy
  <2> QED BY <2>1, <2>2
<1> HIDE DEF u
<1>4. of[q] = u /\ \A r \in Friends \ {q} : of[r] = s.of[r]
  BY <1>1
<1>5. v.entries \in SUBSET Friends /\ q \notin v.entries
  BY <1>1 DEF Befriended, Buddies!Buddy
<1>6. Befriended(of, q)
  <2>1. Shows(of, q) = Shows(s.of, q)
    <3>1. \A g \in v.entries : Sees(of, q, g) <=> Sees(s.of, q, g)
      BY <1>4, <1>5 DEF Sees
    <3> QED BY <1>3, <1>4, <1>5, <3>1 DEF Shows
  <2> QED BY <1>1, <1>3, <1>4, <2>1 DEF Befriended
<1>7. \A r \in to : Sees(of, r, q) <=> status = "online"
  BY <1>1, <1>3, <1>4 DEF Sees
<1>8. \A r \in Friends \ to : r # q => (Sees(of, r, q) <=> Sees(s.of, r, q))
  BY <1>1, <1>3, <1>4 DEF Sees
<1>9. table \in SUBSET Friends /\ status \in {"online", "offline"} /\ to \in SUBSET Friends
  BY <1>1
<1>10. table = IF u.on /\ ~ u.ghost THEN s.table \cup {q} ELSE s.table \ {q}
  BY <1>1, <1>3
<1> HIDE DEF of, to, status, table, v
<1>11. of = [s.of EXCEPT ![q] = u]
  BY DEF of
<1> QED BY <1>2, <1>3, <1>6, <1>7, <1>8, <1>9, <1>10, <1>11, BuddiesTold

LEMMA BuddiesPremium ==
  ASSUME BuddiesInv, NEW q \in Friends, Buddies!PremiumEnds(q) PROVE BuddiesInv'
<1> DEFINE v == s.of[q]
           u == [v EXCEPT !.premium = FALSE]
           of == [s.of EXCEPT ![q] = u]
<1>1. /\ s.of \in [Friends -> Buddies!Buddy] /\ v \in Buddies!Buddy /\ Befriended(s.of, q)
      /\ s \in BuddiesState
  BY DEF BuddiesInv, BuddiesState
<1>2. s' = [s EXCEPT !.of[q] = u]
  BY <1>1 DEF Buddies!PremiumEnds, BuddiesState
<1>3. /\ u \in Buddies!Buddy /\ u.on = v.on /\ u.client = v.client /\ u.ghost = v.ghost
      /\ u.short = v.short /\ u.entries = v.entries /\ u.list = v.list /\ u.shown = v.shown
  <2> HIDE DEF v
  <2>1. /\ u.on = v.on /\ u.client = v.client /\ u.ghost = v.ghost
        /\ u.short = v.short /\ u.entries = v.entries /\ u.list = v.list /\ u.shown = v.shown
    BY <1>1 DEF Buddies!Buddy
  <2>2. u \in Buddies!Buddy
    BY <1>1 DEF Buddies!Buddy
  <2> QED BY <2>1, <2>2
<1> HIDE DEF u
<1>4. of[q] = u /\ \A r \in Friends \ {q} : of[r] = s.of[r]
  BY <1>1
<1>5. Befriended(of, q)
  <2>1. \A x \in Friends : of[x].on = s.of[x].on /\ of[x].ghost = s.of[x].ghost
    BY <1>3, <1>4
  <2>2. v.entries \in SUBSET Friends
    BY <1>1 DEF Buddies!Buddy
  <2>3. Shows(of, q) = Shows(s.of, q)
    BY <1>3, <1>4, <2>1, <2>2 DEF Shows, Sees
  <2> QED BY <1>1, <1>3, <1>4, <2>3 DEF Befriended
<1> HIDE DEF of
<1>6. of = [s.of EXCEPT ![q] = u]
  BY DEF of
<1> QED BY <1>2, <1>3, <1>5, <1>6, BuddiesAlone

LEMMA BuddiesInit == Buddies!Init => BuddiesInv
<1> SUFFICES ASSUME Buddies!Init PROVE BuddiesInv
  OBVIOUS
<1> DEFINE nobody_ == Buddies!Nobody
           v == [on |-> FALSE, client |-> FALSE, ghost |-> FALSE, premium |-> TRUE,
                 short |-> FALSE, entries |-> {}, list |-> {}, shown |-> nobody_]
<1>1. nobody_ \in Shown
  BY DEF Shown, Buddies!Nobody
<1>2. s = [of |-> [q \in Friends |-> v], table |-> {}]
  BY DEF Buddies!Init
<1> HIDE DEF nobody_
<1>3. v \in Buddies!Buddy /\ ~ v.on /\ ~ v.client /\ ~ v.ghost /\ v.entries = {}
  BY <1>1 DEF Buddies!Buddy, Shown
<1> HIDE DEF v
<1>4. /\ s.of \in [Friends -> Buddies!Buddy] /\ s.table = {} /\ s \in BuddiesState
      /\ \A q \in Friends : s.of[q] = v
  BY <1>2, <1>3 DEF BuddiesState
<1> QED BY <1>3, <1>4 DEF BuddiesInv, Befriended

LEMMA BuddiesStutter == BuddiesInv /\ UNCHANGED s => BuddiesInv'
BY DEF BuddiesInv, Befriended, Shows, Sees

LEMMA BuddiesStep == BuddiesInv /\ Buddies!Next => BuddiesInv'
<1> SUFFICES ASSUME BuddiesInv, Buddies!Next PROVE BuddiesInv'
  OBVIOUS
<1>1. PICK q \in Friends :
        \/ Buddies!Login(q) \/ Buddies!Logout(q) \/ Buddies!Release(q) \/ Buddies!Connect(q)
        \/ Buddies!PremiumEnds(q)
        \/ \E g \in Friends : Buddies!PlayerRequestAddVip(q, g) \/ Buddies!PlayerRequestRemoveVip(q, g)
        \/ \E enabled \in BOOLEAN : Buddies!LuaPlayerSetGhostMode(q, enabled)
  BY DEF Buddies!Next
<1> QED BY <1>1, BuddiesLogin, BuddiesLogout, BuddiesClient, BuddiesPremium, BuddiesRequestAdd,
           BuddiesRequestRemove, BuddiesGhost

LEMMA BuddiesHold == BuddiesInv => Buddies!TypeOK /\ Buddies!BuddiesShown
<1> SUFFICES ASSUME BuddiesInv PROVE Buddies!TypeOK /\ Buddies!BuddiesShown
  OBVIOUS
<1>1. Buddies!TypeOK
  BY DEF BuddiesInv, BuddiesState, Buddies!TypeOK
<1>2. \A q \in Friends : Shows(s.of, q) = Buddies!SendVIPEntries(q)
  BY DEF Shows, Sees, Buddies!SendVIPEntries, Buddies!CanSee
<1>3. \A q \in Friends : Befriended(s.of, q)
  BY DEF BuddiesInv
<1>4. s.table = {q \in Friends : s.of[q].on /\ ~ s.of[q].ghost}
  BY DEF BuddiesInv
<1> HIDE DEF BuddiesInv
<1>5. ASSUME NEW q \in Friends, s.of[q].client, ~ s.of[q].short
      PROVE  s.of[q].list = s.of[q].entries /\ s.of[q].shown = Buddies!SendVIPEntries(q)
  <2>1. s.of[q].on
    BY <1>3, <1>5 DEF Befriended
  <2>2. s.of[q].list = s.of[q].entries /\ s.of[q].shown = Shows(s.of, q)
    BY <1>3, <1>5, <2>1 DEF Befriended
  <2> QED BY <1>2, <2>2
<1> QED BY <1>1, <1>4, <1>5 DEF Buddies!BuddiesShown

(* Whoever comes, goes, becomes a ghost, loses its client or is listed: each  *)
(* client shows the entries of its account as they are, and the table of      *)
(* those online has who may be seen (player.cpp, game.cpp, iologindata.cpp),  *)
(* for any players, groups and limits.                                        *)
THEOREM BuddiesAreShown == Buddies!Spec => [](Buddies!TypeOK /\ Buddies!BuddiesShown)
<1>1. BuddiesInv /\ [Buddies!Next]_s => BuddiesInv'
  BY BuddiesStep, BuddiesStutter
<1> QED BY <1>1, BuddiesInit, BuddiesHold, PTL DEF Buddies!Spec

-----------------------------------------------------------------------------
(* Containers *)

LEMMA ContainersConstants ==
  /\ Ground \in Nat /\ none \notin Many /\ Containers!Tile = 1 .. Ground
  /\ Many \cap (Containers!Tile \cup Few \cup {nobody}) = {}
  /\ Few \cap (Containers!Tile \cup {nobody}) = {} /\ nobody \notin Containers!Tile
BY PlayersAssumption DEF Containers!ContainersAssumption, Containers!Tile

(* Where a bag can be that is in no other. *)
Places == Containers!Tile \cup Few \cup {nobody}
Parents == [Many -> Places \cup Many]

(* A bag, and those it is in. *)
Upward(par, b, S) == b \in S /\ \A x \in S : par[x] \in Many => par[x] \in S
Up(par, b) == {x \in Many : \A S \in SUBSET Many : Upward(par, b, S) => x \in S}
Root(par, b) == CHOOSE x \in {par[y] : y \in Up(par, b)} : x \notin Many

(* No bag is in itself: each of them is somewhere, and only there. *)
Rooted(par) ==
  \A b \in Many :
    /\ \E y \in Up(par, b) : par[y] \notin Many
    /\ \A y, z \in Up(par, b) : par[y] \notin Many /\ par[z] \notin Many => par[y] = par[z]

LEMMA UpIs ==
  ASSUME NEW par \in Parents, NEW b \in Many
  PROVE  /\ b \in Up(par, b) /\ Up(par, b) \in SUBSET Many /\ Upward(par, b, Up(par, b))
         /\ \A S \in SUBSET Many : Upward(par, b, S) => Up(par, b) \subseteq S
<1>1. b \in Up(par, b)
  BY DEF Up, Upward
<1>2. \A S \in SUBSET Many : Upward(par, b, S) => Up(par, b) \subseteq S
  BY DEF Up
<1>3. ASSUME NEW x \in Up(par, b), par[x] \in Many PROVE par[x] \in Up(par, b)
  BY <1>3 DEF Up, Upward
<1>4. Upward(par, b, Up(par, b))
  BY <1>1, <1>3 DEF Upward
<1> QED BY <1>1, <1>2, <1>4 DEF Up

LEMMA UpWithin ==
  ASSUME NEW par \in Parents, NEW b \in Many, NEW x \in Up(par, b)
  PROVE  Up(par, x) \subseteq Up(par, b)
<1>1. x \in Many /\ Up(par, b) \in SUBSET Many /\ Upward(par, x, Up(par, b))
  BY UpIs DEF Upward
<1> QED BY <1>1, UpIs

(* One step up. *)
LEMMA UpFrom ==
  ASSUME NEW par \in Parents, NEW b \in Many
  PROVE  /\ par[b] \notin Many => Up(par, b) = {b}
         /\ par[b] \in Many => Up(par, b) = {b} \cup Up(par, par[b])
<1>1. CASE par[b] \notin Many
  <2>1. {b} \in SUBSET Many /\ Upward(par, b, {b})
    BY <1>1 DEF Upward
  <2>2. Up(par, b) \subseteq {b}
    BY <2>1, UpIs
  <2> QED BY <1>1, <2>2, UpIs
<1>2. CASE par[b] \in Many
  <2> DEFINE S == {b} \cup Up(par, par[b])
  <2>1. par[b] \in Up(par, par[b]) /\ S \in SUBSET Many
    BY <1>2, UpIs
  <2>2. Upward(par, par[b], Up(par, par[b]))
    BY <1>2, UpIs
  <2>3. Upward(par, b, S)
    BY <2>1, <2>2 DEF Upward
  <2>4. Up(par, b) \subseteq S
    BY <2>1, <2>3, UpIs
  <2>5. b \in Up(par, b) /\ par[b] \in Up(par, b)
    BY <1>2, UpIs DEF Upward
  <2>6. Up(par, par[b]) \subseteq Up(par, b)
    BY <2>5, UpWithin
  <2> QED BY <1>2, <2>4, <2>5, <2>6
<1> QED BY <1>1, <1>2

LEMMA RootIs ==
  ASSUME NEW par \in Parents, Rooted(par), NEW b \in Many
  PROVE  /\ Root(par, b) \in Places
         /\ \A y \in Up(par, b) : par[y] \notin Many => Root(par, b) = par[y]
<1> DEFINE from == {par[y] : y \in Up(par, b)}
<1>1. \E x \in from : x \notin Many
  BY DEF Rooted
<1>2. Root(par, b) \in from /\ Root(par, b) \notin Many
  BY <1>1 DEF Root
<1>3. PICK y \in Up(par, b) : Root(par, b) = par[y] /\ par[y] \notin Many
  BY <1>2
<1>4. y \in Many
  BY UpIs
<1>5. \A z \in Up(par, b) : par[z] \notin Many => par[z] = par[y]
  BY <1>3 DEF Rooted
<1> QED BY <1>3, <1>4, <1>5 DEF Parents

LEMMA RootUp ==
  ASSUME NEW par \in Parents, Rooted(par), NEW b \in Many, NEW x \in Up(par, b)
  PROVE  Root(par, x) = Root(par, b)
<1>1. x \in Many /\ Up(par, x) \subseteq Up(par, b)
  BY UpIs, UpWithin
<1>2. PICK y \in Up(par, x) : par[y] \notin Many
  BY <1>1 DEF Rooted
<1>3. Root(par, x) = par[y] /\ Root(par, b) = par[y]
  BY <1>1, <1>2, RootIs
<1> QED BY <1>3

(* A bag is moved to where it is not in itself: those that are not in it stay *)
(* where they are, and those that are go with it.                             *)
LEMMA UpMoved ==
  ASSUME NEW par \in Parents, Rooted(par), NEW b \in Many, NEW to \in Places \cup Many,
         to \in Many => b \notin Up(par, to), NEW new, new = [par EXCEPT ![b] = to]
  PROVE  /\ new \in Parents /\ Rooted(new)
         /\ \A x \in Many : b \notin Up(par, x) => Up(new, x) = Up(par, x) /\ Root(new, x) = Root(par, x)
         /\ \A x \in Many : b \in Up(par, x) => b \in Up(new, x) /\ Root(new, x) = Root(new, b)
<1>1. new \in Parents /\ new[b] = to /\ \A x \in Many \ {b} : new[x] = par[x]
  BY DEF Parents
<1>2. ASSUME NEW x \in Many, b \notin Up(par, x) PROVE Up(new, x) = Up(par, x)
  <2>1. Up(par, x) \in SUBSET Many /\ Upward(par, x, Up(par, x))
    BY UpIs
  <2>2. Upward(new, x, Up(par, x))
    BY <1>1, <1>2, <2>1 DEF Upward
  <2>3. Up(new, x) \subseteq Up(par, x)
    BY <1>1, <2>1, <2>2, UpIs
  <2>4. Up(new, x) \in SUBSET Many /\ Upward(new, x, Up(new, x))
    BY <1>1, UpIs
  <2>5. Upward(par, x, Up(new, x))
    BY <1>1, <1>2, <2>3, <2>4 DEF Upward
  <2>6. Up(par, x) \subseteq Up(new, x)
    BY <2>4, <2>5, UpIs
  <2> QED BY <2>3, <2>6
<1>3. ASSUME NEW x \in Many, b \in Up(par, x) PROVE b \in Up(new, x)
  <2>1. Up(new, x) \in SUBSET Many /\ Upward(new, x, Up(new, x))
    BY <1>1, UpIs
  <2>2. SUFFICES ASSUME b \notin Up(new, x) PROVE FALSE
    OBVIOUS
  <2>3. Upward(par, x, Up(new, x))
    BY <1>1, <2>1, <2>2 DEF Upward
  <2>4. Up(par, x) \subseteq Up(new, x)
    BY <2>1, <2>3, UpIs
  <2> QED BY <1>3, <2>2, <2>4
(* What is above the bag that moved *)
<1>4. /\ \E y \in Up(new, b) : new[y] \notin Many
      /\ \A y, z \in Up(new, b) : new[y] \notin Many /\ new[z] \notin Many => new[y] = new[z]
  <2>1. CASE to \notin Many
    <3>1. Up(new, b) = {b}
      BY <1>1, <2>1, UpFrom
    <3> QED BY <1>1, <2>1, <3>1
  <2>2. CASE to \in Many
    <3>1. Up(new, to) = Up(par, to) /\ b \notin Up(par, to)
      BY <1>2, <2>2
    <3>2. Up(new, b) = {b} \cup Up(par, to)
      <4>1. new[b] \in Many
        BY <1>1, <2>2
      <4>2. Up(new, b) = {b} \cup Up(new, new[b])
        BY <1>1, <4>1, UpFrom
      <4> QED BY <1>1, <3>1, <4>2
    <3>3. Up(par, to) \in SUBSET Many
      BY <2>2, UpIs
    <3>4. \A y \in Up(par, to) : new[y] = par[y]
      BY <1>1, <3>1, <3>3
    <3>5. /\ \E y \in Up(par, to) : par[y] \notin Many
          /\ \A y, z \in Up(par, to) : par[y] \notin Many /\ par[z] \notin Many => par[y] = par[z]
      BY <2>2 DEF Rooted
    <3>6. \E y \in Up(new, b) : new[y] \notin Many
      BY <3>2, <3>4, <3>5
    <3>7. ASSUME NEW y \in Up(new, b), NEW z \in Up(new, b), new[y] \notin Many, new[z] \notin Many
          PROVE  new[y] = new[z]
      <4>1. y \in Up(par, to) /\ z \in Up(par, to)
        BY <1>1, <2>2, <3>2, <3>7
      <4> QED BY <3>4, <3>5, <3>7, <4>1
    <3> QED BY <3>6, <3>7
  <2> QED BY <2>1, <2>2
<1>5. ASSUME NEW x \in Many, b \in Up(par, x)
      PROVE  \A y \in Up(new, x) : new[y] \notin Many => y \in Up(new, b)
  <2> DEFINE low == {y \in Up(par, x) : b \in Up(par, y)}
             S == low \cup Up(new, b)
  <2>1. Up(par, x) \in SUBSET Many /\ Upward(par, x, Up(par, x)) /\ x \in Up(par, x)
    BY UpIs
  <2>2. Up(new, b) \in SUBSET Many /\ Upward(new, b, Up(new, b)) /\ b \in Up(new, b)
    BY <1>1, UpIs
  <2>3. ASSUME NEW y \in low, y # b PROVE par[y] \in Many /\ par[y] \in low
    <3>1. y \in Many /\ b \in Up(par, y)
      BY <2>1
    <3>2. par[y] \in Many
      BY <2>3, <3>1, UpFrom
    <3>3. b \in Up(par, par[y])
      BY <2>3, <3>1, <3>2, UpFrom
    <3>4. par[y] \in Up(par, x)
      BY <2>1, <3>2 DEF Upward
    <3> QED BY <3>2, <3>3, <3>4
  <2>4. x \in low /\ low \subseteq Many
    BY <1>5, <2>1
  <2>5. S \in SUBSET Many /\ Upward(new, x, S)
    <3>1. ASSUME NEW y \in S, new[y] \in Many PROVE new[y] \in S
      <4>1. CASE y \in Up(new, b)
        BY <2>2, <3>1, <4>1 DEF Upward
      <4>2. CASE y \notin Up(new, b)
        <5>1. y \in low /\ y # b /\ y \in Many
          BY <2>2, <2>4, <4>2
        <5>2. new[y] = par[y]
          BY <1>1, <5>1
        <5> QED BY <2>3, <5>1, <5>2
      <4> QED BY <4>1, <4>2
    <3> HIDE DEF low
    <3> QED BY <2>2, <2>4, <3>1 DEF Upward
  <2>6. Up(new, x) \subseteq S
    <3> HIDE DEF S
    <3> QED BY <1>1, <2>5, UpIs
  <2>7. ASSUME NEW y \in low, new[y] \notin Many PROVE y = b
    BY <1>1, <2>3, <2>4, <2>7
  <2> HIDE DEF low
  <2> QED BY <2>2, <2>6, <2>7
<1>6. ASSUME NEW x \in Many
      PROVE  /\ \E y \in Up(new, x) : new[y] \notin Many
             /\ \A y, z \in Up(new, x) : new[y] \notin Many /\ new[z] \notin Many => new[y] = new[z]
  <2>1. CASE b \in Up(par, x)
    <3>1. b \in Up(new, x) /\ Up(new, b) \subseteq Up(new, x)
      BY <1>1, <1>3, <2>1, UpWithin
    <3> QED BY <1>4, <1>5, <2>1, <3>1
  <2>2. CASE b \notin Up(par, x)
    <3>1. Up(new, x) = Up(par, x) /\ Up(par, x) \in SUBSET Many
      BY <1>2, <2>2, UpIs
    <3>2. \A y \in Up(par, x) : new[y] = par[y]
      BY <1>1, <2>2, <3>1
    <3>3. \E y \in Up(par, x) : par[y] \notin Many
      BY DEF Rooted
    <3>4. \A y, z \in Up(par, x) : par[y] \notin Many /\ par[z] \notin Many => par[y] = par[z]
      BY DEF Rooted
    <3>5. \E y \in Up(new, x) : new[y] \notin Many
      BY <3>1, <3>2, <3>3
    <3>6. ASSUME NEW y \in Up(new, x), NEW z \in Up(new, x), new[y] \notin Many, new[z] \notin Many
          PROVE  new[y] = new[z]
      BY <3>1, <3>2, <3>4, <3>6
    <3> QED BY <3>5, <3>6
  <2> QED BY <2>1, <2>2
<1>7. Rooted(new)
  BY <1>6 DEF Rooted
<1>8. ASSUME NEW x \in Many, b \notin Up(par, x) PROVE Root(new, x) = Root(par, x)
  <2>1. Up(new, x) = Up(par, x) /\ Up(par, x) \in SUBSET Many
    BY <1>2, <1>8, UpIs
  <2>2. PICK y \in Up(par, x) : par[y] \notin Many
    BY DEF Rooted
  <2>3. new[y] = par[y]
    BY <1>1, <1>8, <2>1, <2>2
  <2>4. Root(par, x) = par[y]
    BY <2>2, RootIs
  <2>5. Root(new, x) = new[y]
    BY <1>1, <1>7, <2>1, <2>2, <2>3, RootIs
  <2> QED BY <2>3, <2>4, <2>5
<1>9. ASSUME NEW x \in Many, b \in Up(par, x) PROVE Root(new, x) = Root(new, b)
  BY <1>1, <1>3, <1>7, <1>9, RootUp
<1> QED BY <1>1, <1>2, <1>3, <1>7, <1>8, <1>9

(* Containers!Around and Holder, of the parents alone *)
LEMMA AroundIs ==
  ASSUME NEW t, NEW b
  PROVE  Containers!Around(t, b) = Up(t.parent, b) /\ Containers!Holder(t, b) = Root(t.parent, b)
<1>1. Containers!Around(t, b) = Up(t.parent, b)
  BY DEF Containers!Around, Up, Upward
<1> QED BY <1>1 DEF Containers!Holder, Root

ContainersState == [parent : [Many -> Containers!Tile \cup Many \cup Few \cup {nobody}],
                    at : [Few -> Containers!Tile],
                    open : [Few -> [Windows -> Many \cup {none}]]]

(* What is in a window is worn or stood next to. *)
Reached(t, p) ==
  \A c \in Windows : t.open[p][c] # none => Containers!AtHand(t, p, Root(t.parent, t.open[p][c]))

(* The inductive invariant of Containers *)
ContainersInv == Containers!TypeOK /\ Rooted(s.parent) /\ \A p \in Few : Reached(s, p)

LEMMA ContainersTyped ==
  ASSUME Containers!TypeOK
  PROVE  s \in ContainersState /\ s.parent \in Parents /\ s.at \in [Few -> Containers!Tile]
         /\ s.open \in [Few -> [Windows -> Many \cup {none}]]
<1>1. s \in ContainersState
  BY DEF Containers!TypeOK, ContainersState, Containers!Tile
<1> QED BY <1>1 DEF ContainersState, Parents, Places

LEMMA AtHandSame ==
  ASSUME NEW t, NEW u, t.at = u.at, NEW p, NEW h
  PROVE  Containers!AtHand(t, p, h) <=> Containers!AtHand(u, p, h)
BY DEF Containers!AtHand, Containers!TileOf, Containers!Near

(* What MoveTo does: only those that are told close windows. *)
LEMMA MoveToIs ==
  ASSUME ContainersInv, NEW b \in Many, NEW to \in Places \cup Many, NEW u, u = Containers!MoveTo(s, b, to)
  PROVE  /\ u \in ContainersState /\ u.parent = [s.parent EXCEPT ![b] = to] /\ u.at = s.at
         /\ \A p \in Few, c \in Windows : u.open[p][c] # none =>
              /\ u.open[p][c] = s.open[p][c]
              /\ p \in Containers!Told(Root(s.parent, b)) =>
                   Containers!AtHand(s, p, Root(u.parent, b)) \/ b \notin Up(u.parent, u.open[p][c])
<1> DEFINE par == [s.parent EXCEPT ![b] = to]
           moved == [s EXCEPT !.parent[b] = to]
           holder == Containers!Holder(moved, b)
           told == Containers!Told(Containers!Holder(s, b))
           open == [p \in Few |-> IF p \in told THEN Containers!PostRemove(moved, p, b, holder) ELSE s.open[p]]
<1>1. s \in ContainersState /\ s.parent \in Parents /\ s.at \in [Few -> Containers!Tile]
      /\ s.open \in [Few -> [Windows -> Many \cup {none}]]
  BY ContainersTyped DEF ContainersInv
<1>2. par \in Parents
  BY <1>1 DEF Parents
<1>3. moved = [s EXCEPT !.parent = par]
  BY <1>1 DEF ContainersState
<1>4. u = [moved EXCEPT !.open = open]
  BY DEF Containers!MoveTo
<1>5. holder = Root(moved.parent, b) /\ told = Containers!Told(Root(s.parent, b))
  BY AroundIs
<1> HIDE DEF par
<1>6. moved \in ContainersState
  BY <1>1, <1>2, <1>3 DEF ContainersState, Parents, Places
<1>7. moved.parent = par /\ moved.at = s.at /\ moved.open = s.open
  BY <1>1, <1>3 DEF ContainersState
<1> HIDE DEF moved, holder, told
<1>8. \A p \in Few : s.open[p] \in [Windows -> Many \cup {none}]
  BY <1>1
<1>9. ASSUME NEW p \in Few
      PROVE  Containers!PostRemove(moved, p, b, holder) \in [Windows -> Many \cup {none}]
  <2>1. Containers!AutoClose(moved, p, b) \in [Windows -> Many \cup {none}]
    BY <1>7, <1>8 DEF Containers!AutoClose
  <2> QED BY <1>7, <1>8, <2>1 DEF Containers!PostRemove
<1>10. open \in [Few -> [Windows -> Many \cup {none}]]
  BY <1>8, <1>9
<1>11. ASSUME NEW p \in Few, NEW c \in Windows, open[p][c] # none
       PROVE  /\ open[p][c] = s.open[p][c]
              /\ p \in told => Containers!AtHand(s, p, holder) \/ b \notin Up(par, open[p][c])
  <2>1. CASE p \notin told
    BY <1>8, <2>1
  <2>2. CASE p \in told /\ Containers!AtHand(moved, p, holder)
    <3>1. open[p] = s.open[p]
      BY <1>7, <2>2 DEF Containers!PostRemove
    <3> QED BY <1>7, <2>2, <3>1, AtHandSame
  <2>3. CASE p \in told /\ ~ Containers!AtHand(moved, p, holder)
    <3>1. open[p] = Containers!AutoClose(moved, p, b)
      BY <2>3 DEF Containers!PostRemove
    <3>2. open[p][c] = s.open[p][c] /\ ~ Containers!Closes(moved, b, s.open[p][c])
      BY <1>7, <1>11, <3>1 DEF Containers!AutoClose
    <3>3. b \notin Containers!Around(moved, s.open[p][c])
      BY <1>11, <3>2 DEF Containers!Closes
    <3> QED BY <1>7, <3>2, <3>3, AroundIs
  <2> QED BY <2>1, <2>2, <2>3
<1> HIDE DEF open
<1>12. u \in ContainersState
  BY <1>4, <1>6, <1>10 DEF ContainersState
<1>13. u.parent = par /\ u.at = s.at /\ u.open = open
  BY <1>4, <1>6, <1>7 DEF ContainersState
<1> QED BY <1>5, <1>7, <1>11, <1>12, <1>13 DEF par

LEMMA MoveToHolds ==
  ASSUME ContainersInv, NEW b \in Many, NEW to \in Places \cup Many,
         to \in Many => b \notin Up(s.parent, to), s' = Containers!MoveTo(s, b, to)
  PROVE  ContainersInv'
<1> DEFINE par == [s.parent EXCEPT ![b] = to]
<1>1. s.parent \in Parents /\ s.open \in [Few -> [Windows -> Many \cup {none}]] /\ Rooted(s.parent)
  BY ContainersTyped DEF ContainersInv
<1>2. /\ s' \in ContainersState /\ s'.parent = par /\ s'.at = s.at
      /\ \A p \in Few, c \in Windows : s'.open[p][c] # none =>
              /\ s'.open[p][c] = s.open[p][c]
              /\ p \in Containers!Told(Root(s.parent, b)) =>
                   Containers!AtHand(s, p, Root(s'.parent, b)) \/ b \notin Up(s'.parent, s'.open[p][c])
  BY MoveToIs
<1>3. /\ par \in Parents /\ Rooted(par)
      /\ \A x \in Many : b \notin Up(s.parent, x) => Root(par, x) = Root(s.parent, x)
      /\ \A x \in Many : b \in Up(s.parent, x) => b \in Up(par, x) /\ Root(par, x) = Root(par, b)
  BY <1>1, UpMoved
<1> HIDE DEF par
<1>4. ASSUME NEW p \in Few, NEW c \in Windows, s'.open[p][c] # none
      PROVE  Containers!AtHand(s, p, Root(par, s.open[p][c]))
  <2> DEFINE x == s.open[p][c]
  <2>1. x \in Many /\ x = s'.open[p][c]
    BY <1>1, <1>2, <1>4
  <2>2. Containers!AtHand(s, p, Root(s.parent, x))
    BY <2>1, ContainersConstants DEF ContainersInv, Reached
  <2> HIDE DEF x
  <2>3. CASE b \notin Up(s.parent, x)
    BY <1>3, <2>1, <2>2, <2>3 DEF x
  <2>4. CASE b \in Up(s.parent, x)
    <3>1. Root(s.parent, x) = Root(s.parent, b) /\ b \in Up(par, x) /\ Root(par, x) = Root(par, b)
      BY <1>1, <1>3, <2>1, <2>4, RootUp
    <3>2. Root(s.parent, b) \in Containers!Tile \cup {p}
      BY <2>2, <3>1 DEF Containers!AtHand
    <3>3. p \in Containers!Told(Root(s.parent, b))
      BY <3>2, ContainersConstants DEF Containers!Told
    <3>4. Containers!AtHand(s, p, Root(par, b)) \/ b \notin Up(par, x)
      BY <1>2, <1>4, <2>1, <3>3
    <3> QED BY <3>1, <3>4 DEF x
  <2> QED BY <2>3, <2>4
<1>5. \A p \in Few : Reached(s', p)
  <2> SUFFICES ASSUME NEW p \in Few, NEW c \in Windows, s'.open[p][c] # none
               PROVE  Containers!AtHand(s', p, Root(s'.parent, s'.open[p][c]))
    BY DEF Reached
  <2>1. s'.open[p][c] = s.open[p][c] /\ s'.parent = par
    BY <1>2
  <2>2. Containers!AtHand(s, p, Root(s'.parent, s'.open[p][c]))
    BY <1>4, <2>1
  <2> QED BY <1>2, <2>2, AtHandSame
<1>6. Containers!TypeOK'
  BY <1>2 DEF Containers!TypeOK, ContainersState, Containers!Tile
<1> QED BY <1>2, <1>3, <1>5, <1>6 DEF ContainersInv, Reached

(* A player's own hands and its own tile *)
LEMMA OwnHand ==
  ASSUME ContainersInv, NEW p \in Few
  PROVE  Containers!AtHand(s, p, p)
<1>1. s.at[p] \in Nat
  BY ContainersTyped, ContainersConstants DEF ContainersInv
<1> QED BY <1>1 DEF Containers!AtHand, Containers!TileOf, Containers!Near

(* What a player may use is in reach. *)
LEMMA MayReach ==
  ASSUME ContainersInv, NEW p \in Few, NEW b \in Many, Containers!May(p, b)
  PROVE  Containers!AtHand(s, p, Root(s.parent, b))
<1>1. s.parent \in Parents /\ s.open \in [Few -> [Windows -> Many \cup {none}]] /\ Rooted(s.parent)
  BY ContainersTyped DEF ContainersInv
<1>2. CASE s.parent[b] \notin Many
  <2>1. Root(s.parent, b) = s.parent[b]
    BY <1>1, <1>2, UpIs, RootIs
  <2>2. s.parent[b] \notin Containers!Opened(s, p)
    BY <1>1, <1>2 DEF Containers!Opened
  <2>3. CASE s.parent[b] = p
    BY <2>1, <2>3, OwnHand
  <2>4. CASE s.parent[b] # p
    <3>1. s.parent[b] \in Containers!Tile /\ Containers!Near(s.at[p], s.parent[b])
      BY <2>2, <2>4 DEF Containers!May, Containers!Has
    <3>2. Containers!TileOf(s, s.parent[b]) = s.parent[b]
      BY <3>1, ContainersConstants DEF Containers!TileOf
    <3> QED BY <2>1, <3>1, <3>2 DEF Containers!AtHand
  <2> QED BY <2>3, <2>4
<1>3. CASE s.parent[b] \in Many
  <2>1. s.parent[b] \in Containers!Opened(s, p)
    BY <1>3, ContainersConstants DEF Containers!May, Containers!Has
  <2>2. PICK c \in Windows : s.open[p][c] = s.parent[b]
    BY <2>1 DEF Containers!Opened
  <2>3. s.open[p][c] # none
    BY <1>3, <2>2, ContainersConstants
  <2>4. Containers!AtHand(s, p, Root(s.parent, s.parent[b]))
    BY <2>2, <2>3 DEF ContainersInv, Reached
  <2>5. s.parent[b] \in Up(s.parent, b)
    BY <1>1, <1>3, UpIs DEF Upward
  <2>6. Root(s.parent, s.parent[b]) = Root(s.parent, b)
    BY <1>1, <2>5, RootUp
  <2> QED BY <2>4, <2>6
<1> QED BY <1>2, <1>3

(* A window is opened on what is in reach, or closed. *)
LEMMA OpenHolds ==
  ASSUME ContainersInv, NEW p \in Few, NEW c \in Windows, NEW x \in Many \cup {none},
         x # none => Containers!AtHand(s, p, Root(s.parent, x)), s' = [s EXCEPT !.open[p][c] = x]
  PROVE  ContainersInv'
<1> DEFINE open == [s.open EXCEPT ![p][c] = x]
<1>1. s \in ContainersState /\ s.open \in [Few -> [Windows -> Many \cup {none}]]
  BY ContainersTyped DEF ContainersInv
<1>2. s' = [s EXCEPT !.open = open]
  BY <1>1 DEF ContainersState
<1>3. /\ open \in [Few -> [Windows -> Many \cup {none}]]
      /\ \A q \in Few, d \in Windows : open[q][d] = IF q = p /\ d = c THEN x ELSE s.open[q][d]
  BY <1>1
<1> HIDE DEF open
<1>4. s' \in ContainersState
  BY <1>1, <1>2, <1>3 DEF ContainersState
<1>5. s'.parent = s.parent /\ s'.at = s.at /\ s'.open = open
  BY <1>1, <1>2 DEF ContainersState
<1>6. ASSUME NEW q \in Few, NEW d \in Windows, open[q][d] # none
      PROVE  Containers!AtHand(s, q, Root(s.parent, open[q][d]))
  BY <1>3, <1>6 DEF ContainersInv, Reached
<1>7. ASSUME NEW q \in Few PROVE Reached(s', q)
  <2>1. SUFFICES ASSUME NEW d \in Windows, open[q][d] # none
                 PROVE  Containers!AtHand(s', q, Root(s.parent, open[q][d]))
    BY <1>5 DEF Reached
  <2>2. Containers!AtHand(s, q, Root(s.parent, open[q][d])) /\ s.at = s'.at
    BY <1>5, <1>6, <2>1
  <2> QED BY <2>2, AtHandSame
<1>8. Containers!TypeOK'
  BY <1>4 DEF Containers!TypeOK, ContainersState, Containers!Tile
<1> QED BY <1>5, <1>7, <1>8 DEF ContainersInv

LEMMA ContainersWindows ==
  ASSUME ContainersInv, NEW p \in Few, NEW c \in Windows,
         \/ \E b \in Many : Containers!UseContainer(p, b, c)
         \/ Containers!CloseContainer(p, c)
         \/ Containers!MoveUpContainer(p, c)
  PROVE  ContainersInv'
<1>1. s.parent \in Parents /\ s.open \in [Few -> [Windows -> Many \cup {none}]] /\ Rooted(s.parent)
  BY ContainersTyped DEF ContainersInv
<1>2. ASSUME NEW b \in Many, Containers!UseContainer(p, b, c) PROVE ContainersInv'
  <2>1. Containers!AtHand(s, p, Root(s.parent, b))
    BY <1>2, MayReach DEF Containers!UseContainer
  <2>2. CASE b \notin Containers!Opened(s, p)
    <3>1. s' = [s EXCEPT !.open[p][c] = b]
      BY <1>2, <2>2 DEF Containers!UseContainer
    <3> QED BY <2>1, <3>1, OpenHolds
  <2>3. CASE b \in Containers!Opened(s, p)
    <3>1. PICK d \in Windows : s' = [s EXCEPT !.open[p][d] = none]
      BY <1>2, <2>3 DEF Containers!UseContainer
    <3> QED BY <3>1, OpenHolds
  <2> QED BY <2>2, <2>3
<1>3. CASE Containers!CloseContainer(p, c)
  BY <1>3, OpenHolds DEF Containers!CloseContainer
<1>4. CASE Containers!MoveUpContainer(p, c)
  <2> DEFINE b == s.open[p][c]
             up == s.parent[b]
  <2>1. b \in Many /\ up \in Many /\ s' = [s EXCEPT !.open[p][c] = up]
    BY <1>1, <1>4 DEF Containers!MoveUpContainer
  <2>2. Containers!AtHand(s, p, Root(s.parent, b))
    BY <2>1, ContainersConstants DEF ContainersInv, Reached
  <2> HIDE DEF b
  <2>3. up \in Up(s.parent, b)
    BY <1>1, <2>1, UpIs DEF Upward
  <2>4. Root(s.parent, up) = Root(s.parent, b)
    BY <1>1, <2>1, <2>3, RootUp
  <2> HIDE DEF up
  <2> QED BY <2>1, <2>2, <2>4, OpenHolds
<1> QED BY <1>2, <1>3, <1>4

LEMMA ContainersMoved ==
  ASSUME ContainersInv, NEW b \in Many,
         \/ \E p \in Few : Containers!MoveItem(p, b)
         \/ \E p, q \in Few : Containers!Give(p, q, b)
         \/ Containers!RemoveItem(b)
  PROVE  ContainersInv'
<1>1. s.parent \in Parents /\ s.open \in [Few -> [Windows -> Many \cup {none}]]
  BY ContainersTyped DEF ContainersInv
<1>2. PICK to \in Places \cup Many :
        (to \in Many => b \notin Containers!Around(s, to)) /\ s' = Containers!MoveTo(s, b, to)
  <2>1. ASSUME NEW p \in Few, Containers!MoveItem(p, b)
        PROVE  \E to \in Places \cup Many :
                 (to \in Many => b \notin Containers!Around(s, to)) /\ s' = Containers!MoveTo(s, b, to)
    <3>1. PICK to \in Containers!Tile \cup {p} \cup Containers!Opened(s, p) :
            (to \in Many => b \notin Containers!Around(s, to)) /\ s' = Containers!MoveTo(s, b, to)
      BY <2>1 DEF Containers!MoveItem
    <3>2. Containers!Opened(s, p) \subseteq Many
      BY <1>1 DEF Containers!Opened
    <3> QED BY <3>1, <3>2 DEF Places
  <2>2. ASSUME NEW p \in Few, NEW q \in Few, Containers!Give(p, q, b)
        PROVE  \E to \in Places \cup Many :
                 (to \in Many => b \notin Containers!Around(s, to)) /\ s' = Containers!MoveTo(s, b, to)
    <3>1. q \in Places /\ q \notin Many /\ s' = Containers!MoveTo(s, b, q)
      BY <2>2, ContainersConstants DEF Containers!Give, Places
    <3> QED BY <3>1
  <2>3. CASE Containers!RemoveItem(b)
    <3>1. nobody \in Places /\ nobody \notin Many /\ s' = Containers!MoveTo(s, b, nobody)
      BY <2>3, ContainersConstants DEF Containers!RemoveItem, Places
    <3> QED BY <3>1
  <2> QED BY <2>1, <2>2, <2>3
<1>3. to \in Many => b \notin Up(s.parent, to)
  BY <1>2, AroundIs
<1> QED BY <1>2, <1>3, MoveToHolds

LEMMA ContainersCreate ==
  ASSUME ContainersInv, NEW b \in Many, Containers!CreateItem(b)
  PROVE  ContainersInv'
<1>1. /\ s \in ContainersState /\ s.parent \in Parents /\ Rooted(s.parent)
      /\ s.open \in [Few -> [Windows -> Many \cup {none}]]
  BY ContainersTyped DEF ContainersInv
<1>2. s.parent[b] = nobody /\ \A x \in Many : s.parent[x] # b
  BY DEF Containers!CreateItem
<1>3. PICK to \in Containers!Tile \cup Few : s' = [s EXCEPT !.parent[b] = to]
  BY DEF Containers!CreateItem
<1> DEFINE par == [s.parent EXCEPT ![b] = to]
<1>4. to \in Places /\ to \notin Many
  BY ContainersConstants DEF Places
<1>5. s' = [s EXCEPT !.parent = par]
  BY <1>1, <1>3 DEF ContainersState
<1>6. /\ par \in Parents /\ Rooted(par)
      /\ \A x \in Many : b \notin Up(s.parent, x) => Root(par, x) = Root(s.parent, x)
  BY <1>1, <1>4, UpMoved
<1> HIDE DEF par
<1>7. s' \in ContainersState /\ s'.parent = par /\ s'.at = s.at /\ s'.open = s.open
  <2>1. s'.parent = par /\ s'.at = s.at /\ s'.open = s.open
    BY <1>1, <1>5 DEF ContainersState
  <2>2. s' \in ContainersState
    BY <1>1, <1>5, <1>6 DEF ContainersState, Parents, Places
  <2> QED BY <2>1, <2>2
<1>8. ASSUME NEW x \in Many, x # b PROVE b \notin Up(s.parent, x)
  <2> DEFINE S == Many \ {b}
  <2>1. S \in SUBSET Many /\ Upward(s.parent, x, S)
    BY <1>2, <1>8 DEF Upward
  <2>2. Up(s.parent, x) \subseteq S
    <3> HIDE DEF S
    <3> QED BY <1>1, <2>1, UpIs
  <2> QED BY <2>2
<1>9. ASSUME NEW p \in Few, NEW c \in Windows, s.open[p][c] # none
      PROVE  Containers!AtHand(s', p, Root(par, s.open[p][c]))
  <2> DEFINE x == s.open[p][c]
  <2>1. x \in Many
    BY <1>1, <1>9
  <2>2. Containers!AtHand(s, p, Root(s.parent, x))
    BY <1>9 DEF ContainersInv, Reached
  <2>3. Root(s.parent, b) = nobody
    <3>1. s.parent[b] \notin Many
      BY <1>2, ContainersConstants
    <3> QED BY <1>1, <1>2, <3>1, UpIs, RootIs
  <2>4. x # b
    <3>1. nobody \notin Containers!Tile \cup {p}
      BY ContainersConstants
    <3> QED BY <2>2, <2>3, <3>1 DEF Containers!AtHand
  <2> HIDE DEF x
  <2>5. Root(par, x) = Root(s.parent, x)
    BY <1>6, <1>8, <2>1, <2>4
  <2>6. Containers!AtHand(s', p, Root(par, x))
    BY <1>7, <2>2, <2>5, AtHandSame
  <2> QED BY <2>6 DEF x
<1>10. \A p \in Few : Reached(s', p)
  BY <1>7, <1>9 DEF Reached
<1>11. Containers!TypeOK'
  BY <1>7 DEF Containers!TypeOK, ContainersState, Containers!Tile
<1> QED BY <1>6, <1>7, <1>10, <1>11 DEF ContainersInv

LEMMA ContainersMove ==
  ASSUME ContainersInv, NEW p \in Few, Containers!Move(p)
  PROVE  ContainersInv'
<1>1. /\ s \in ContainersState /\ s.parent \in Parents /\ Rooted(s.parent)
      /\ s.at \in [Few -> Containers!Tile] /\ s.open \in [Few -> [Windows -> Many \cup {none}]]
  BY ContainersTyped, SMTT(30) DEF ContainersInv
<1> DEFINE there(to) == [s EXCEPT !.at[p] = to]
           far(to) == {b \in Containers!Opened(there(to), p) : ~ Containers!InRange(there(to), p, b)}
           left(to) == [c \in Windows |-> IF \E b \in far(to) : Containers!Closes(there(to), b, s.open[p][c])
                                          THEN none ELSE s.open[p][c]]
<1>2. PICK to \in Containers!Tile : s' = [there(to) EXCEPT !.open[p] = left(to)]
  BY DEF Containers!Move
<1> DEFINE t == there(to)
           windows == left(to)
           at == [s.at EXCEPT ![p] = to]
           open == [s.open EXCEPT ![p] = windows]
<1>3. t = [s EXCEPT !.at = at]
  BY <1>1 DEF ContainersState
<1>4. at \in [Few -> Containers!Tile] /\ \A q \in Few \ {p} : at[q] = s.at[q]
  BY <1>1
<1> HIDE DEF at
<1>5. t.at = at /\ t.parent = s.parent /\ t.open = s.open
  BY <1>1, <1>3 DEF ContainersState
<1>6. t \in ContainersState
  BY <1>1, <1>3, <1>4 DEF ContainersState
<1>7. windows \in [Windows -> Many \cup {none}]
  <2>1. s.open[p] \in [Windows -> Many \cup {none}]
    BY <1>1
  <2>2. \A c \in Windows : windows[c] \in Many \cup {none}
    BY <2>1
  <2> QED BY <2>2
<1>8. ASSUME NEW c \in Windows, windows[c] # none
      PROVE  /\ windows[c] = s.open[p][c]
             /\ Containers!NearHolder(t, p, Root(s.parent, windows[c]))
  <2>1. windows[c] = s.open[p][c] /\ ~ \E b \in far(to) : Containers!Closes(t, b, s.open[p][c])
    BY <1>8
  <2> DEFINE x == s.open[p][c]
  <2>2. x \in Many /\ x # none /\ x \in Containers!Opened(t, p)
    BY <1>1, <1>5, <1>8, <2>1 DEF Containers!Opened
  <2>3. x \in Containers!Around(t, x)
    <3> HIDE DEF x, t
    <3>1. x \in Up(s.parent, x)
      BY <1>1, <2>2, UpIs
    <3>2. Containers!Around(t, x) = Up(t.parent, x)
      BY AroundIs
    <3> QED BY <1>5, <3>1, <3>2
  <2>4. Containers!Closes(t, x, x)
    BY <2>2, <2>3 DEF Containers!Closes
  <2>5. Containers!InRange(t, p, x)
    BY <2>1, <2>2, <2>4
  <2> QED BY <1>5, <2>1, <2>5, AroundIs DEF Containers!InRange
<1> HIDE DEF t, windows
<1>9. s' = [t EXCEPT !.open = open]
  BY <1>2, <1>5, <1>6 DEF t, windows, ContainersState
<1>10. /\ open \in [Few -> [Windows -> Many \cup {none}]] /\ open[p] = windows
       /\ \A q \in Few \ {p} : open[q] = s.open[q]
  BY <1>1, <1>7
<1> HIDE DEF open
<1>11. s' \in ContainersState
  BY <1>6, <1>9, <1>10 DEF ContainersState
<1>12. s'.parent = s.parent /\ s'.at = at /\ s'.open = open
  BY <1>5, <1>6, <1>9 DEF ContainersState
<1>13. Reached(s', p)
  <2>1. SUFFICES ASSUME NEW c \in Windows, windows[c] # none
                 PROVE  Containers!AtHand(s', p, Root(s.parent, windows[c]))
    BY <1>10, <1>12 DEF Reached
  <2>2. windows[c] = s.open[p][c] /\ Containers!NearHolder(t, p, Root(s.parent, windows[c]))
    BY <1>8, <2>1
  <2>3. Containers!AtHand(s, p, Root(s.parent, windows[c]))
    BY <2>1, <2>2 DEF ContainersInv, Reached
  <2>4. Containers!AtHand(t, p, Root(s.parent, windows[c]))
    BY <2>2, <2>3 DEF Containers!AtHand, Containers!NearHolder
  <2> QED BY <1>5, <1>12, <2>4, AtHandSame
<1>14. ASSUME NEW q \in Few \ {p} PROVE Reached(s', q)
  <2>1. SUFFICES ASSUME NEW c \in Windows, s.open[q][c] # none
                 PROVE  Containers!AtHand(s', q, Root(s.parent, s.open[q][c]))
    BY <1>10, <1>12 DEF Reached
  <2>2. Containers!AtHand(s, q, Root(s.parent, s.open[q][c]))
    BY <2>1 DEF ContainersInv, Reached
  <2>3. s'.at[q] = s.at[q]
    BY <1>4, <1>12
  <2>4. Root(s.parent, s.open[q][c]) \in Few => Root(s.parent, s.open[q][c]) = q
    BY <2>2, ContainersConstants DEF Containers!AtHand
  <2> QED BY <2>2, <2>3, <2>4 DEF Containers!AtHand, Containers!TileOf
<1>15. Containers!TypeOK'
  BY <1>11 DEF Containers!TypeOK, ContainersState, Containers!Tile
<1> QED BY <1>1, <1>12, <1>13, <1>14, <1>15 DEF ContainersInv

LEMMA ContainersInit == Containers!Init => ContainersInv
<1> SUFFICES ASSUME Containers!Init PROVE ContainersInv
  OBVIOUS
<1> DEFINE par == [b \in Many |-> nobody]
<1>1. PICK at \in [Few -> Containers!Tile] :
        s = [parent |-> par, at |-> at, open |-> [p \in Few |-> [c \in Windows |-> none]]]
  BY DEF Containers!Init
<1>2. s.parent = par /\ \A p \in Few, c \in Windows : s.open[p][c] = none
  BY <1>1
<1>3. Containers!TypeOK
  BY <1>1 DEF Containers!TypeOK, Containers!Tile
<1>4. par \in Parents /\ \A b \in Many : par[b] \notin Many
  BY ContainersConstants DEF Parents, Places
<1>5. \A b \in Many : Up(par, b) = {b}
  <2> HIDE DEF par
  <2> QED BY <1>4, UpFrom
<1>6. Rooted(par)
  BY <1>4, <1>5 DEF Rooted
<1> QED BY <1>2, <1>3, <1>6 DEF ContainersInv, Reached

LEMMA ContainersStutter == ContainersInv /\ UNCHANGED s => ContainersInv'
BY DEF ContainersInv, Containers!TypeOK, Reached

LEMMA ContainersStep == ContainersInv /\ Containers!Next => ContainersInv'
<1> SUFFICES ASSUME ContainersInv, Containers!Next PROVE ContainersInv'
  OBVIOUS
<1>1. CASE \E p \in Few : \/ \E b \in Many : Containers!MoveItem(p, b)
                          \/ \E q \in Few, b \in Many : Containers!Give(p, q, b)
  BY <1>1, ContainersMoved
<1>2. CASE \E p \in Few, c \in Windows :
             \/ Containers!CloseContainer(p, c) \/ Containers!MoveUpContainer(p, c)
             \/ \E b \in Many : Containers!UseContainer(p, b, c)
  BY <1>2, ContainersWindows
<1>3. CASE \E p \in Few : Containers!Move(p)
  BY <1>3, ContainersMove
<1>4. CASE \E b \in Many : Containers!RemoveItem(b) \/ Containers!CreateItem(b)
  BY <1>4, ContainersMoved, ContainersCreate
<1> QED BY <1>1, <1>2, <1>3, <1>4 DEF Containers!Next

LEMMA ContainersHold == ContainersInv => Containers!TypeOK /\ Containers!WindowsInReach
<1> SUFFICES ASSUME ContainersInv, NEW p \in Few, NEW b \in Containers!Opened(s, p)
             PROVE  Containers!AtHand(s, p, Root(s.parent, b))
  BY AroundIs DEF ContainersInv, Containers!WindowsInReach
<1>1. PICK c \in Windows : b = s.open[p][c] /\ b # none
  BY DEF Containers!Opened
<1> QED BY <1>1 DEF ContainersInv, Reached

(* However containers in containers are moved, carried off, traded and        *)
(* removed, and players walk: a window is on a container that exists and is   *)
(* in reach (player.cpp, game.cpp, actions.cpp), for any containers, nested   *)
(* as deeply as may be, any players and any row of tiles.                     *)
THEOREM WindowsReach == Containers!Spec => [](Containers!TypeOK /\ Containers!WindowsInReach)
<1>1. ContainersInv /\ [Containers!Next]_s => ContainersInv'
  BY ContainersStep, ContainersStutter
<1> QED BY <1>1, ContainersInit, ContainersHold, PTL DEF Containers!Spec
=============================================================================
