-------------------------------- MODULE Wounds --------------------------------
(***************************************************************************)
(* A condition that hurts again and again: fire, poison, energy           *)
(* (ConditionDamage in condition.cpp, fields in combat.cpp, items.cpp).    *)
(* Its rounds wait in a list, each for its interval; besides, the          *)
(* condition has ticks and a time of the clock at which it ends, whether   *)
(* or not the list is empty.  It is made stronger while it is on, held up  *)
(* by the field the victim stands in, stored and loaded.                   *)
(*                                                                         *)
(* A think counts for one second and comes one second after the last one   *)
(* or later, while the end is a time of the clock.                         *)
(*                                                                         *)
(* Abstracted: two steps of the clock are one think of the creature, which *)
(* may come anywhere between them; one victim, one type, one interval;     *)
(* damage is positive and is dealt or blocked, without effect on the list. *)
(***************************************************************************)
EXTENDS Integers, Sequences, SequencesExt, FiniteSetsExt

CONSTANTS Interval,      \* of the rounds, in steps of the clock
          Lists,         \* explicit lists of damage: of scripts and fields
          Ranges,        \* <<min, max, start>>: of monsters
          MaxRounds,     \* bound on the rounds of a list
          MaxLate        \* bound on the steps by which thinks come late in one wound

Think == 2                                   \* EVENT_CREATURE_THINK_INTERVAL
Forever == -1

(* Assumed where this module is instantiated: intervals are whole thinks, as *)
(* those of all items and monsters are.                                     *)
WoundsAssumption ==
  /\ Interval \in Nat \ {0} /\ Interval % Think = 0
  /\ Lists \subseteq Seq(Nat \ {0}) /\ Ranges \subseteq Nat \X Nat \X Nat /\ MaxLate \in Nat

VARIABLE s

(* endTime is what is left of it. *)
Wound == [on : BOOLEAN, list : Seq([left : 1 .. Interval, value : Nat]),
          ticks : Int, endTime : Int, min : Nat, max : Nat, start : Nat,
          delayed : BOOLEAN, period : Nat, periodTick : Nat, force : BOOLEAN,
          meant : Int,                       \* history: what is still to be dealt
          late : 0 .. MaxLate]               \* history: steps of late thinks, since its end was set

None == [on |-> FALSE, list |-> <<>>, ticks |-> 0, endTime |-> 0, min |-> 0, max |-> 0, start |-> 0,
         delayed |-> FALSE, period |-> 0, periodTick |-> 0, force |-> FALSE, meant |-> 0, late |-> 0]

TypeOK == s \in [online : BOOLEAN, wound : Wound, field : BOOLEAN, nextThink : 0 .. Think]

Init == s = [online |-> TRUE, wound |-> None, field |-> FALSE, nextThink |-> Think]

-----------------------------------------------------------------------------
(* The list *)

SumOf(seq) == FoldSeq(LAMBDA v, sum : v + sum, 0, seq)
Values(w) == [k \in DOMAIN w.list |-> w.list[k].value]

(* getTotalDamage *)
GetTotalDamage(w) ==
  IF w.list # <<>> THEN SumOf(Values(w)) ELSE w.min + (w.max - w.min) \div 2

SetTicks(w, ticks) == [w EXCEPT !.ticks = ticks, !.endTime = ticks, !.late = 0]

(* generateDamageList: each value from start down to 1 as often as it takes *)
(* to come nearest to its share of the amount, and at least once.           *)
Abs(n) == IF n < 0 THEN -n ELSE n
Nearest(sum, i, share) ==
  Min({k \in 1 .. MaxRounds : share = 0 \/ Abs(share - (sum + (k + 1) * i)) >= Abs(share - (sum + k * i))})
GenerateDamageList(amount, start) ==
  FoldLeft(LAMBDA list, n : LET i == start + 1 - n
                            IN  list \o [k \in 1 .. Nearest(SumOf(list), i, (n * amount) \div start) |-> i],
           <<>>, [n \in 1 .. start |-> n])

(* addDamage.  A mutant: the condition does not last longer for it.         *)
AddDamageNoLonger(w, value) ==
  [w EXCEPT !.list = Append(@, [left |-> Interval, value |-> value]), !.meant = @ + value]
AddDamage(w, value) ==
  LET longer == [w EXCEPT !.list = Append(@, [left |-> Interval, value |-> value]),
                          !.meant = @ + value]
  IN  IF w.ticks = Forever THEN longer ELSE SetTicks(longer, w.ticks + Interval)

AddAll(w, values) == FoldLeft(AddDamage, w, values)

(* What init takes as the first round *)
StartDamage(w, amount) ==
  IF w.start > w.max THEN w.max
  ELSE IF w.start = 0 THEN Max({1, (amount + 19) \div 20}) ELSE w.start

(* init, when the amount that is drawn is known.                            *)
InitDamage(w, amount) ==
  IF w.period # 0 \/ w.list # <<>> THEN w
  ELSE IF amount = 0 THEN SetTicks(w, 0)
  ELSE LET drawn == [SetTicks(w, 0) EXCEPT !.start = StartDamage(w, amount)]
       IN  [AddAll(drawn, GenerateDamageList(amount, drawn.start)) EXCEPT !.meant = amount]

InitWorks(w) == w.period # 0 \/ w.list # <<>>

-----------------------------------------------------------------------------
(* What is made elsewhere: addDamage of a script, a field of items.xml,     *)
(* getDamageCondition of a monster, and one that goes on for ever.          *)

LuaAddDamage(values, delayed, force) ==
  [AddAll(None, values) EXCEPT !.delayed = delayed, !.force = force]
FieldDamage(values) == [AddAll(None, values) EXCEPT !.force = TRUE]
GetDamageCondition(range) ==
  [None EXCEPT !.min = range[1], !.max = range[2], !.start = range[3], !.delayed = TRUE]
Periodic(value) == SetTicks([None EXCEPT !.period = value], Forever)

New == {LuaAddDamage(values, delayed, force) : values \in Lists, delayed, force \in BOOLEAN}
       \cup {FieldDamage(values) : values \in Lists}
       \cup {GetDamageCondition(range) : range \in Ranges}
       \cup {Periodic(1)}

-----------------------------------------------------------------------------
(* What happens to one that is on *)

(* getNextDamage: the first round at once, and without its time.            *)
GetNextDamage(w) ==
  IF w.period # 0 \/ w.list = <<>> \/ w.ticks = Forever THEN w
  ELSE [w EXCEPT !.list = Tail(@), !.meant = @ - Head(w.list).value]

(* doDamage: nothing is dealt to one that is immune, suppresses the type,   *)
(* may not be attacked or fought; what the damage meets depends on others.  *)
Refusals == BOOLEAN

(* startCondition: damage that is not delayed begins with some, and a       *)
(* condition whose first damage is refused does not begin.                  *)
StartCondition(w, amount, refused) ==
  LET begun == InitDamage(w, amount)
  IN  IF (~w.delayed /\ refused) \/ ~InitWorks(begun) THEN None ELSE [begun EXCEPT !.on = TRUE]

(* updateCondition *)
UpdateCondition(w, new) ==
  \/ new.force
  \/ ~(w.ticks = Forever /\ new.ticks > 0) /\ GetTotalDamage(new) > GetTotalDamage(w)

(* addCondition: the new rounds, of which the first is due when that of the *)
(* old ones was.  A mutant: it ends when the old one would have.            *)
AddConditionKeepsEnd(w, new, amount) ==
  IF ~UpdateCondition(w, new) THEN w
  ELSE [InitDamage([new EXCEPT !.on = TRUE, !.delayed = w.delayed, !.force = w.force], amount)
        EXCEPT !.ticks = w.ticks, !.endTime = w.endTime]
AddCondition(w, new, amount) ==
  IF ~UpdateCondition(w, new) THEN w
  ELSE LET first   == IF w.list # <<>> THEN Head(w.list).left ELSE Interval
           taken   == SetTicks([new EXCEPT !.on = TRUE, !.delayed = w.delayed, !.force = w.force,
                                           !.periodTick = w.periodTick], new.ticks)
           drawn   == InitDamage(taken, amount)
           resumed == IF drawn.list = <<>> THEN drawn ELSE [drawn EXCEPT !.list[1].left = first]
       IN  IF InitWorks(drawn) /\ ~w.delayed THEN GetNextDamage(resumed) ELSE resumed

(* onTickCondition: a field of the same element under the victim holds up.  *)
OnTickCondition(w, field) == w.ticks # Forever /\ ~field

(* The next round: its time passes, and it is dealt.                        *)
TakeRound(w, remove) ==
  IF w.list[1].left > Think THEN [w EXCEPT !.list[1].left = @ - Think]
  ELSE IF remove THEN [w EXCEPT !.list = Tail(@), !.meant = @ - Head(w.list).value]
  ELSE [w EXCEPT !.list[1].left = Interval]

(* executeCondition *)
ExecuteCondition(w, field) ==
  LET remove == OnTickCondition(w, field)
      hurt   == IF w.period # 0
                THEN [w EXCEPT !.periodTick = IF @ + Think >= Interval THEN 0 ELSE @ + Think]
                ELSE IF w.list = <<>> THEN w ELSE TakeRound(w, remove)
      held   == w.period = 0 /\ w.list # <<>> /\ ~remove
      later  == IF held /\ w.ticks > 0 THEN [hurt EXCEPT !.endTime = @ + Think] ELSE hurt
      passed == IF w.ticks = Forever \/ held THEN later
                ELSE [later EXCEPT !.ticks = Max({0, @ - Think})]
  IN  IF w.ticks = Forever \/ passed.endTime >= 0 THEN passed ELSE None

-----------------------------------------------------------------------------
Amounts(new) == IF InitWorks(new) THEN {0} ELSE new.min .. new.max

(* addCondition of the creature: a spell, a step into a field.              *)
Suffer(new, amount, refused) ==
  /\ s.online
  /\ s' = [s EXCEPT !.wound = IF @.on THEN AddCondition(@, new, amount)
                              ELSE StartCondition(new, amount, refused)]

(* A step into a field, or out of it: onStepInField gives its condition.    *)
StepInField(values, refused) ==
  /\ s.online /\ ~s.field
  /\ s' = [s EXCEPT !.field = TRUE,
                    !.wound = IF @.on THEN AddCondition(@, FieldDamage(values), 0)
                              ELSE StartCondition(FieldDamage(values), 0, refused)]

StepOut == s.online /\ s.field /\ s' = [s EXCEPT !.field = FALSE]

(* The clock goes on, when a think is due, too: it comes late then, and the   *)
(* next one a second after it.                                              *)
Ends(w) == w.on /\ w.ticks # Forever
Pass ==
  /\ s.online /\ s.nextThink > 0
  /\ s' = [s EXCEPT !.nextThink = @ - 1, !.wound.endTime = IF Ends(s.wound) THEN @ - 1 ELSE @]
PassOverdue ==
  /\ s.online /\ s.nextThink = 0 /\ Ends(s.wound) /\ s.wound.late < MaxLate
  /\ s' = [s EXCEPT !.wound.endTime = @ - 1, !.wound.late = @ + 1]

(* executeConditions; a creature that appears thinks at any time.           *)
OnThink ==
  /\ s.online /\ s.nextThink = 0
  /\ s' = [s EXCEPT !.nextThink = Think, !.wound = IF @.on THEN ExecuteCondition(@, s.field) ELSE @]

(* dispel, or removeCondition by a script.                                  *)
Cure == s.online /\ s.wound.on /\ s' = [s EXCEPT !.wound = None]

(* serialize: the rounds with the time that the first one has left; not who *)
(* did it, and not the ticks, which unserializeProp counts again.           *)
Serialize(w) == IF ~w.on \/ w.ticks = Forever THEN None
                ELSE [None EXCEPT !.on = TRUE, !.list = w.list, !.delayed = w.delayed,
                                  !.meant = w.meant]
UnserializeProp(w) == SetTicks(w, Interval * Len(w.list))

Logout ==
  /\ s.online
  /\ s' = [online |-> FALSE, wound |-> Serialize(s.wound), field |-> FALSE, nextThink |-> Think]

(* One whose list was empty draws an amount of nothing, and is not begun.   *)
Login(phase) ==
  /\ ~s.online
  /\ s' = [s EXCEPT !.online = TRUE, !.nextThink = phase,
                    !.wound = IF @.on THEN StartCondition(UnserializeProp(@), 0, FALSE) ELSE None]

Next ==
  \/ \E new \in New, refused \in Refusals : \E amount \in Amounts(new) : Suffer(new, amount, refused)
  \/ \E values \in Lists, refused \in Refusals : StepInField(values, refused)
  \/ \E phase \in 1 .. Think : Login(phase)
  \/ Pass \/ PassOverdue \/ OnThink \/ StepOut \/ Cure \/ Logout

Spec == Init /\ [][Next]_s

-----------------------------------------------------------------------------
(* The clock leaves time for every round that waits, but for the time by     *)
(* which thinks came late since the end was set: a wound that is not cured   *)
(* and whose thinks are punctual does not close before the last round, and   *)
(* late ones cost no more rounds than they were late.  Wounds of different   *)
(* intervals break it: the first round of the new one waits as long as the   *)
(* old one's.                                                               *)
LastRound(w) == s.nextThink + Think * ((w.list[1].left - 1) \div Think)
                + Interval * (Len(w.list) - 1)
RoundsFit ==
  s.online /\ s.wound.on /\ s.wound.list # <<>> /\ s.wound.ticks # Forever =>
    s.wound.endTime + s.wound.late >= LastRound(s.wound) - (IF s.field THEN Think ELSE 0)

(* The rounds that wait hurt as much as was drawn and not yet dealt, also   *)
(* after a renewal and a login.  A range whose start is so strong that one  *)
(* of each strength is more than min breaks it.                             *)
DealtAsMeant == s.wound.on => SumOf(Values(s.wound)) = s.wound.meant
=============================================================================
