-------------------------------- MODULE Spawn --------------------------------
(***************************************************************************)
(* A spawn (spawn.cpp): its places are filled at startup; when one of its  *)
(* monsters is gone a check is scheduled, which fills at most RateSpawn    *)
(* places, each when its interval has passed since it was last looked at,  *)
(* and schedules the next check as long as places are empty.               *)
(*                                                                         *)
(* Abstracted: a place is ready or not instead of a time; what keeps a     *)
(* monster from being placed (a player near, a script, the tile) is a      *)
(* choice, which at startup is not taken.                                  *)
(***************************************************************************)
EXTENDS Timers, SequencesExt

CONSTANTS Place,            \* the keys of spawnMap
          Monsters,         \* how many Monster objects may exist
          RateSpawn,
          Abroad            \* 0, the key of a monster outside its zone

(* Assumed where this module is instantiated. *)
SpawnAssumption ==
  /\ Abroad \notin Place /\ IsFiniteSet(Place)
  /\ Monsters >= Cardinality(Place) /\ RateSpawn \in Nat \ {0}

VARIABLE s

Monster == 1..Monsters
Check == "check"
Ids == 0..2

TypeOK == /\ s.alive \subseteq Monster
          /\ s.outside \subseteq s.alive
          /\ s.ours \subseteq s.alive                         \* monster->spawn is this
          /\ s.spawned \subseteq (Place \cup {Abroad}) \X Monster
          /\ s.ready \subseteq Place
          /\ s.checkSpawnEvent \in Ids
          /\ s.timers \subseteq [id : Ids, task : {Check}, handed : BOOLEAN]

-----------------------------------------------------------------------------
Filled(t) == {x[1] : x \in t.spawned} \cap Place
Fresh(t) == Monster \ (t.alive \cup {x[2] : x \in t.spawned})
New(t) == CHOOSE m \in Fresh(t) : \A n \in Fresh(t) : m <= n

SpawnMonster(t, p) ==
  [t EXCEPT !.alive = @ \cup {New(t)}, !.ours = @ \cup {New(t)},
            !.spawned = @ \cup {<<p, New(t)>>}, !.ready = @ \ {p}]

Schedule(t) ==
  LET n == FreshEventId(t.timers, {t.checkSpawnEvent})
  IN  [t EXCEPT !.timers = AddEvent(@, n, Check), !.checkSpawnEvent = n]
StartSpawnCheck(t) == IF t.checkSpawnEvent = 0 THEN Schedule(t) ELSE t

Startup ==
  LET f == CHOOSE f \in [Place -> Monster] : \A p, q \in Place : p # q => f[p] # f[q]
      placed == {f[p] : p \in Place}
  IN  [alive |-> placed, outside |-> {}, ours |-> placed,
       spawned |-> {<<p, f[p]>> : p \in Place}, ready |-> {}, checkSpawnEvent |-> 0, timers |-> {}]

(* cleanup: who is gone leaves its place, and so does who is outside. *)
Cleanup(t) ==
  LET gone == {x \in t.spawned : x[2] \notin t.alive}
      away == {x \in t.spawned \ gone : x[2] \in t.outside}
  IN  [t EXCEPT !.spawned = (@ \ (gone \cup away)) \cup {<<Abroad, x[2]>> : x \in away},
                !.ready = @ \ {x[1] : x \in gone}]

(* checkSpawn, of one place: a place whose monster could not be placed waits *)
(* for its interval again.                                                   *)
OfPlace(t, p, blocked, count) ==
  IF p \in Filled(t) \/ p \notin t.ready \/ count >= RateSpawn THEN t
  ELSE IF p \in blocked THEN [t EXCEPT !.ready = @ \ {p}]
  ELSE SpawnMonster(t, p)

(* A mutant of checkSpawn: the id of the timer that has run is kept. *)
CheckSpawnKeepsId(e, blocked) ==
  LET clean == Cleanup([s EXCEPT !.timers = @ \ {e}])
      Next(t, p) == OfPlace(t, p, blocked, Cardinality(t.alive \ clean.alive))
      filled == FoldLeft(Next, clean, SetToSortSeq(Place, <))
  IN  /\ e.handed /\ Cardinality(Fresh(clean)) >= RateSpawn
      /\ s' = IF Cardinality(filled.spawned) < Cardinality(Place) THEN Schedule(filled) ELSE filled
CheckSpawn(e, blocked) ==
  LET clean == Cleanup([s EXCEPT !.timers = @ \ {e}, !.checkSpawnEvent = 0])
      Next(t, p) == OfPlace(t, p, blocked, Cardinality(t.alive \ clean.alive))
      filled == FoldLeft(Next, clean, SetToSortSeq(Place, <))
  IN  /\ e.handed /\ Cardinality(Fresh(clean)) >= RateSpawn
      /\ s' = IF Cardinality(filled.spawned) < Cardinality(Place) THEN Schedule(filled) ELSE filled

Init == s = Startup

Hand(e) == ~e.handed /\ s' = [s EXCEPT !.timers = Handed(@, e)]

(* The interval of an empty place has passed. *)
Ready(p) == p \notin s.ready /\ s' = [s EXCEPT !.ready = @ \cup {p}]

Walk(m) ==
  /\ m \in s.alive
  /\ s' = [s EXCEPT !.outside = IF m \in @ THEN @ \ {m} ELSE @ \cup {m}]

(* Monster::onRemoveCreature.  A mutant: spawn is not reset. *)
DisappearStillOurs(m) ==
  /\ m \in s.alive
  /\ LET gone == [s EXCEPT !.alive = @ \ {m}, !.outside = @ \ {m}]
     IN  s' = IF m \in s.ours THEN StartSpawnCheck(gone) ELSE gone
Disappear(m) ==
  /\ m \in s.alive
  /\ LET gone == [s EXCEPT !.alive = @ \ {m}, !.outside = @ \ {m}, !.ours = @ \ {m}]
     IN  s' = IF m \in s.ours THEN StartSpawnCheck(gone) ELSE gone

(* Monster::onThink, removeMonster: with monsterOverspawn, who goes too far *)
(* is no longer the business of its spawn.                                  *)
Overspawn(m) ==
  /\ m \in s.ours
  /\ s' = StartSpawnCheck([s EXCEPT !.ours = @ \ {m}, !.spawned = {x \in @ : x[2] # m}])

Next == \/ \E e \in s.timers : \/ Hand(e)
                               \/ \E blocked \in SUBSET Place : CheckSpawn(e, blocked)
        \/ \E p \in Place : Ready(p)
        \/ \E m \in Monster : Walk(m) \/ Disappear(m) \/ Overspawn(m)

Spec == Init /\ [][Next]_s

-----------------------------------------------------------------------------
Inhabited(p) == \E m \in s.alive : <<p, m>> \in s.spawned

(* Monsters die, wander off and are replaced in any order: the id of the    *)
(* check is that of the one timer that waits or runs next, a monster is     *)
(* counted once while it is the spawn's, and a place whose monster is gone  *)
(* has a check to come, unless a monster is abroad.                         *)
SpawnGoesOn ==
  /\ {e.id : e \in s.timers} = {s.checkSpawnEvent} \ {0}
  /\ \A m \in s.ours : \E x \in s.spawned : x[2] = m /\ \A y \in s.spawned : y[2] = m => y = x
  /\ \/ \A p \in Place : Inhabited(p)
     \/ s.timers # {}
     \/ \E m \in Monster : <<Abroad, m>> \in s.spawned

(* A monster abroad is counted as one at its place: the check is not        *)
(* scheduled although a place is empty (spawn.cpp:392).                     *)
PlacesFilled == (\E p \in Place : ~Inhabited(p)) => s.timers # {}
=============================================================================
