-------------------------------- MODULE Decay --------------------------------
(***************************************************************************)
(* Items that decay (game.cpp, item.cpp): startDecay and its relatives put *)
(* an item with a duration in toDecayItems, cleanup() moves it to one of   *)
(* four buckets, and every 250 ms checkDecay visits the next bucket.  The  *)
(* lists keep items alive by their reference counters; ReleaseItem gives a *)
(* reference back at the next cleanup().                                   *)
(*                                                                         *)
(* Abstracted: durations are counted in intervals of 250 ms; five types    *)
(* stand for those of items.xml: a torch that is "off" (stopduration) or   *)
(* "lit", what is "low" when it burns down, a "corpse" that leaves the     *)
(* new item "bones".  Where an item lies is left out.                      *)
(***************************************************************************)
EXTENDS Naturals, FiniteSets, SequencesExt

CONSTANTS Slots,            \* the addresses at which items are created
          MaxCreated,       \* items in the world that were not made by decay
          Time              \* the duration of a type, in intervals

(* Assumed where this module is instantiated. *)
DecayAssumption == MaxCreated \in 1..Slots /\ Time \in Nat \ {0}

VARIABLE s

Item == 1..Slots
Types == {"off", "lit", "low", "corpse", "bones"}
Buckets == 4
Torches == {"off", "lit"}
Duration(type) == IF type = "off" THEN 0 ELSE Time
StopTime(type) == type = "off"
DecayTo(type) == CASE type = "lit" -> "low" [] type = "corpse" -> "bones" [] OTHER -> "nothing"
Group(type) == IF type = "corpse" THEN "container" ELSE "none"

NoItem == [type |-> "off", placed |-> FALSE, left |-> 0, decaying |-> FALSE, refs |-> 0]

TypeOK == s \in [item : [Item -> [type : Types, placed : BOOLEAN, left : 0..Time,
                                  decaying : BOOLEAN, refs : Nat]],
                 bucket : [0..Buckets-1 -> Seq(Item)], toDecay : Seq(Item),
                 toRelease : Seq(Item), last : 0..Buckets-1]

Init == s = [item |-> [i \in Item |-> NoItem], bucket |-> [b \in 0..Buckets-1 |-> <<>>],
             toDecay |-> <<>>, toRelease |-> <<>>, last |-> 0]

-----------------------------------------------------------------------------
CanDecay(x) == x.placed /\ Duration(x.type) > 0

Free(t) == {i \in Item : t.item[i].refs = 0}
Fresh(t) == CHOOSE i \in Free(t) : \A j \in Free(t) : i <= j

CreateItem(t, i, type) ==
  [t EXCEPT !.item[i] = [NoItem EXCEPT !.type = type, !.placed = TRUE,
                                       !.left = Duration(type), !.refs = 1]]

ReleaseItem(t, i) == [t EXCEPT !.toRelease = Append(@, i)]

ToDecay(t, i) ==
  [t EXCEPT !.item[i].refs = @ + 1, !.item[i].decaying = TRUE, !.toDecay = <<i>> \o @]

(* setID.  The duration goes on where it was stopped.  A mutant restarts it. *)
SetIDRestart(x, type) ==
  IF Duration(type) > 0
  THEN [x EXCEPT !.type = type, !.decaying = FALSE, !.left = Duration(type)]
  ELSE [x EXCEPT !.type = type]
SetID(x, type) ==
  IF Duration(type) > 0 /\ (~StopTime(x.type) \/ x.left = 0)
  THEN [x EXCEPT !.type = type, !.decaying = FALSE, !.left = Duration(type)]
  ELSE [x EXCEPT !.type = type]

(* internalRemoveItem: canDecay is FALSE of a removed item, so that the item *)
(* stays in its bucket until it is visited.                                  *)
RemoveItem(t, i) == ReleaseItem([t EXCEPT !.item[i].placed = FALSE], i)

(* transformItem: a type of another group is another item. *)
TransformItem(t, i, type) ==
  IF Group(t.item[i].type) = Group(type)
  THEN [state |-> [t EXCEPT !.item[i] = SetID(@, type)], item |-> i]
  ELSE LET n == Fresh(t)
       IN  [state |-> ToDecay(ReleaseItem([CreateItem(t, n, type) EXCEPT !.item[i].placed = FALSE], i), n),
            item |-> n]

(* internalDecayItem and startDecay *)
StartDecay(t, i) ==
  IF CanDecay(t.item[i]) /\ ~t.item[i].decaying THEN ToDecay(t, i) ELSE t
DecayItem(t, i) ==
  LET to == DecayTo(t.item[i].type)
      transformed == TransformItem(t, i, to)
  IN  IF to = "nothing" THEN RemoveItem(t, i) ELSE StartDecay(transformed.state, transformed.item)

-----------------------------------------------------------------------------
(* checkDecay, of one item of bucket b, which is taken out before. *)
Visit(t, b, i) ==
  LET x    == t.item[i]
      left == x.left - (IF x.left < Buckets THEN x.left ELSE Buckets)
      next == (b + (250 * left + 125) \div 1000) % Buckets
      aged == [t EXCEPT !.item[i].left = left]
  IN  IF ~CanDecay(x) THEN ReleaseItem([t EXCEPT !.item[i].decaying = FALSE], i)
      ELSE IF left = 0 \/ (left < Buckets /\ next = b) THEN ReleaseItem(DecayItem(aged, i), i)
      ELSE [aged EXCEPT !.bucket[IF left < Buckets THEN next ELSE b] = Append(@, i)]

Cleanup(t) ==
  LET gone == [i \in Item |-> Cardinality({k \in DOMAIN t.toRelease : t.toRelease[k] = i})]
      Into(u, i) == [u EXCEPT !.bucket[IF u.item[i].left >= Buckets THEN u.last
                                       ELSE (u.last + 1) % Buckets] = Append(@, i)]
      kept == [t EXCEPT !.item = [i \in Item |-> IF @[i].refs <= gone[i] THEN NoItem
                                                 ELSE [@[i] EXCEPT !.refs = @ - gone[i]]],
                        !.toRelease = <<>>, !.toDecay = <<>>]
  IN  FoldLeft(Into, kept, t.toDecay)

CheckDecay ==
  LET b == (s.last + 1) % Buckets
      OfBucket(t, i) == Visit(t, b, i)
  IN  s' = Cleanup([FoldLeft(OfBucket, [s EXCEPT !.bucket[b] = <<>>], s.bucket[b]) EXCEPT !.last = b])

(* internalAddItem *)
AddItem(type) ==
  /\ Cardinality(Item \ Free(s)) < MaxCreated
  /\ LET n == Fresh(s)
         t == CreateItem(s, n, type)
     IN  s' = IF Duration(type) > 0 THEN ToDecay(t, n) ELSE t

(* internalMoveItem *)
MoveItem(i) ==
  /\ s.item[i].placed /\ s.item[i].left > 0 /\ ~s.item[i].decaying
  /\ s' = ToDecay(s, i)

RemoveFromWorld(i) == s.item[i].placed /\ s' = RemoveItem(s, i)

(* decayTo.lua: a torch is lit or put out, and item:decay() called. *)
Use(i) ==
  /\ s.item[i].placed /\ s.item[i].type \in Torches
  /\ LET to == IF s.item[i].type = "off" THEN "lit" ELSE "off"
     IN  s' = StartDecay(TransformItem(s, i, to).state, i)

Next == \/ CheckDecay
        \/ \E type \in {"off", "lit", "corpse"} : AddItem(type)
        \/ \E i \in Item : MoveItem(i) \/ RemoveFromWorld(i) \/ Use(i)

Spec == Init /\ [][Next]_s

-----------------------------------------------------------------------------
Count(list, i) == Cardinality({k \in DOMAIN list : list[k] = i})
Counted(i) == Count(s.toDecay, i) + Count(s.bucket[0], i) + Count(s.bucket[1], i)
                                  + Count(s.bucket[2], i) + Count(s.bucket[3], i)

(* However often an item is lit, put out, moved and removed between two     *)
(* visits of its bucket: what burns in the world is counted down, and never *)
(* twice; DECAYSTATE says whether it is in a list; and the reference        *)
(* counter is what the world and the lists hold, so that no list has an     *)
(* item that was deleted, and none is kept for ever.                        *)
DecayCounted ==
  \A i \in Item :
    LET x == s.item[i]
    IN  /\ Counted(i) = (IF x.decaying THEN 1 ELSE 0)
        /\ CanDecay(x) => x.decaying
        /\ x.refs = Counted(i) + Count(s.toRelease, i) + (IF x.placed THEN 1 ELSE 0)
=============================================================================
