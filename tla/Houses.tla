------------------------------- MODULE Houses -------------------------------
(***************************************************************************)
(* Houses (house.cpp, housetile.cpp), their beds (bed.cpp) and the talk    *)
(* actions by which they are bought, left and sold: who owns a house, who  *)
(* may be in it, who sleeps in its bed, and the transfer document that is  *)
(* traded for it.                                                          *)
(*                                                                         *)
(* Abstracted: a house is one place with one bed, the rest of the map is   *)
(* the street; access lists name players; prices and rent; the items of a  *)
(* house, which go to its owner's depot; the trade of a document (Trade)   *)
(* is open until it is accepted or closed, which may happen at any time.   *)
(* A sleeping player is sent off after SCHEDULER_MINTICKS, 50 ms, and      *)
(* cannot use a second bed before: timeBetweenActions is 200 ms.           *)
(***************************************************************************)
EXTENDS Naturals

CONSTANTS Player, House, NoPlayer, Street

(* Assumed where this module is instantiated. *)
HousesAssumption == NoPlayer \notin Player /\ Street \notin House

VARIABLE s

Lists == {"guests", "subowners"}
NoDeal == [seller |-> NoPlayer, buyer |-> NoPlayer]
NoEdit == [house |-> Street, list |-> "guests"]

TypeOK == s \in [online : SUBSET Player,
                 pos : [Player -> House \cup {Street}],
                 owner : [House -> Player \cup {NoPlayer}],
                 invited : [House -> [Lists -> SUBSET Player]],
                 sleeper : [House -> Player \cup {NoPlayer}],
                 bedOf : [Player -> House \cup {Street}],         \* bedSleepersMap
                 kick : SUBSET Player,                            \* scheduled kickPlayer
                 edit : [Player -> [house : House \cup {Street}, list : Lists]],
                 transfer : SUBSET House,                         \* transferItem
                 deal : [House -> [seller : Player \cup {NoPlayer}, buyer : Player \cup {NoPlayer}]]]

Init == s = [online |-> {},
             pos |-> [p \in Player |-> Street],
             owner |-> [h \in House |-> NoPlayer],
             invited |-> [h \in House |-> [l \in Lists |-> {}]],
             sleeper |-> [h \in House |-> NoPlayer],
             bedOf |-> [p \in Player |-> Street],
             kick |-> {},
             edit |-> [p \in Player |-> NoEdit],
             transfer |-> {},
             deal |-> [h \in House |-> NoDeal]]

-----------------------------------------------------------------------------
(* getHouseAccessLevel: owner, subowner, guest, not invited *)
AccessLevel(t, h, p) ==
  CASE t.owner[h] = p -> 3
    [] t.owner[h] # p /\ p \in t.invited[h].subowners -> 2
    [] t.owner[h] # p /\ p \in t.invited[h].guests \ t.invited[h].subowners -> 1
    [] OTHER -> 0
IsInvited(t, h, p) == AccessLevel(t, h, p) > 0

CanEdit(t, h, list, p) == \/ AccessLevel(t, h, p) = 3
                          \/ AccessLevel(t, h, p) = 2 /\ list = "guests"

In(t, h) == {p \in t.online : t.pos[p] = h}
KickPlayers(t, h, out) ==
  [t EXCEPT !.pos = [p \in Player |-> IF p \in In(t, h) \cap out THEN Street ELSE @[p]]]

(* setAccessList.  A mutant: who is not invited any more stays.             *)
SetAccessListOnly(t, h, list, names) == [t EXCEPT !.invited[h][list] = names]
SetAccessList(t, h, list, names) ==
  LET set == [t EXCEPT !.invited[h][list] = names]
  IN  KickPlayers(set, h, {p \in Player : ~IsInvited(set, h, p)})

(* BedItem::wakeUp *)
WakeUp(t, h) ==
  IF t.sleeper[h] = NoPlayer THEN t
  ELSE [t EXCEPT !.sleeper[h] = NoPlayer, !.bedOf[t.sleeper[h]] = Street]

Vacated(t, h) ==
  SetAccessList(SetAccessList([WakeUp(KickPlayers(t, h, Player), h) EXCEPT !.owner[h] = NoPlayer],
                              h, "subowners", {}), h, "guests", {})
(* A mutant: the bed is not looked at. *)
SetOwnerBed(t, h, p) ==
  IF t.owner[h] = p THEN t
  ELSE [SetAccessList(SetAccessList(KickPlayers(t, h, Player), h, "subowners", {}), h, "guests", {})
          EXCEPT !.owner[h] = p]
SetOwner(t, h, p) ==
  IF t.owner[h] = p THEN t
  ELSE IF t.owner[h] = NoPlayer THEN [t EXCEPT !.owner[h] = p]
  ELSE [Vacated(t, h) EXCEPT !.owner[h] = p]

OwnsNone(t, p) == \A h \in House : t.owner[h] # p
Trading(t, p) == \E h \in House : p \in {t.deal[h].seller, t.deal[h].buyer}

(* resetTransferItem, of the trades of p that are closed *)
CloseDeals(t, p) ==
  LET closed == {h \in House : p \in {t.deal[h].seller, t.deal[h].buyer}}
  IN  [t EXCEPT !.transfer = @ \ closed,
                !.deal = [h \in House |-> IF h \in closed THEN NoDeal ELSE @[h]]]

-----------------------------------------------------------------------------
(* The talk actions buyhouse.lua, leavehouse.lua and sellhouse.lua *)

BuyHouse(p, h) ==
  /\ p \in s.online /\ s.owner[h] = NoPlayer /\ OwnsNone(s, p)
  /\ s' = SetOwner(s, h, p)

LeaveHouse(p, h) ==
  /\ p \in In(s, h) /\ s.owner[h] = p
  /\ s' = SetOwner(s, h, NoPlayer)

StartTrade(p, h, q) ==
  /\ p \in In(s, h) /\ q \in s.online \ {p}
  /\ s.owner[h] = p /\ OwnsNone(s, q)
  /\ h \notin s.transfer
  /\ ~Trading(s, p) /\ ~Trading(s, q)          \* else the document is taken back at once
  /\ s' = [s EXCEPT !.transfer = @ \cup {h}, !.deal[h] = [seller |-> p, buyer |-> q]]

(* onTradeEvent(ON_TRADE_TRANSFER), executeTransfer *)
ExecuteTransfer(q, h) ==
  /\ s.deal[h].buyer = q
  /\ s' = [SetOwner(s, h, s.deal[h].buyer) EXCEPT !.transfer = @ \ {h}, !.deal[h] = NoDeal]

CloseTrade(p) == Trading(s, p) /\ s' = CloseDeals(s, p)

(* The windows to edit a list: the right to is asked when it is opened and  *)
(* when it is sent back.  A mutant asks only once.                          *)
OpenWindow(p, h, list) ==
  /\ p \in In(s, h) /\ CanEdit(s, h, list, p)
  /\ s' = [s EXCEPT !.edit[p] = [house |-> h, list |-> list]]

UpdateHouseWindowUnchecked(p, names) ==
  /\ s.edit[p] # NoEdit
  /\ s' = [SetAccessList(s, s.edit[p].house, s.edit[p].list, names) EXCEPT !.edit[p] = NoEdit]
UpdateHouseWindow(p, names) ==
  LET e == s.edit[p]
  IN  /\ e # NoEdit
      /\ s' = [IF CanEdit(s, e.house, e.list, p) THEN SetAccessList(s, e.house, e.list, names) ELSE s
                 EXCEPT !.edit[p] = NoEdit]

(* kickPlayer, of the spell *)
KickGuest(p, q) ==
  /\ p \in s.online /\ q \in s.online /\ s.pos[q] # Street
  /\ AccessLevel(s, s.pos[q], p) >= AccessLevel(s, s.pos[q], q)
  /\ s' = KickPlayers(s, s.pos[q], {q})

(* Using the bed: sleep, or the owner wakes who sleeps there. *)
UseBed(p, h) ==
  /\ p \in In(s, h) \ s.kick
  /\ \/ s.sleeper[h] = NoPlayer
        /\ s' = [s EXCEPT !.sleeper[h] = p, !.bedOf[p] = h, !.kick = @ \cup {p}]
     \/ s.sleeper[h] # NoPlayer /\ s.owner[h] = p
        /\ s' = WakeUp(s, h)

Enter(p, h) ==
  /\ p \in s.online /\ s.pos[p] = Street /\ IsInvited(s, h, p)
  /\ s' = [s EXCEPT !.pos[p] = h]

Exit(p) == p \in s.online /\ s.pos[p] # Street /\ s' = [s EXCEPT !.pos[p] = Street]

(* Who is not invited any more is placed at the entry (HouseTile            *)
(* ::queryDestination), and a sleeper wakes up (onCreatureAppear).          *)
Login(p) ==
  /\ p \notin s.online
  /\ LET h == s.pos[p]
         woken == IF s.bedOf[p] = Street THEN s ELSE WakeUp(s, s.bedOf[p])
         out == h # Street /\ ~IsInvited(s, h, p)
     IN  s' = [woken EXCEPT !.online = @ \cup {p}, !.pos[p] = IF out THEN Street ELSE h]

(* Also kickPlayer of one who went to sleep. *)
Logout(p) ==
  /\ p \in s.online
  /\ s' = [CloseDeals(s, p) EXCEPT !.online = @ \ {p}, !.kick = @ \ {p}, !.edit[p] = NoEdit]

Next ==
  \E p \in Player :
    \/ \E h \in House : \/ BuyHouse(p, h) \/ LeaveHouse(p, h) \/ UseBed(p, h) \/ Enter(p, h)
                        \/ ExecuteTransfer(p, h)
                        \/ \E q \in Player : StartTrade(p, h, q)
                        \/ \E list \in Lists : OpenWindow(p, h, list)
    \/ CloseTrade(p) \/ Exit(p) \/ Login(p) \/ Logout(p)
    \/ \E names \in SUBSET Player : UpdateHouseWindow(p, names)
    \/ \E q \in Player : KickGuest(p, q)

Spec == Init /\ [][Next]_s

-----------------------------------------------------------------------------
(* Whoever buys, leaves, sells, edits, kicks, sleeps and logs in, in any    *)
(* order: who is in a house is invited; a house without an owner has no     *)
(* lists and no sleeper; a bed and its sleeper name each other, and who is  *)
(* in the game sleeps only until it is sent off; and a document exists only *)
(* while it is traded, or else its house could not be sold any more.        *)
HousesKept ==
  /\ \A h \in House : \A p \in In(s, h) : IsInvited(s, h, p)
  /\ \A h \in House : s.owner[h] = NoPlayer =>
       s.sleeper[h] = NoPlayer /\ \A l \in Lists : s.invited[h][l] = {}
  /\ \A h \in House, p \in Player :
       /\ s.sleeper[h] = p <=> s.bedOf[p] = h
       /\ s.sleeper[h] = p /\ p \in s.online => p \in s.kick
  /\ \A h \in House : /\ h \in s.transfer <=> s.deal[h] # NoDeal
                      /\ {s.deal[h].seller, s.deal[h].buyer} \ {NoPlayer} \subseteq s.online

(* "You don't own this house." (tools.cpp): a transfer takes the house from *)
(* the player that offered it, and from nobody else.                        *)
SoldByOwner == 
  [][\A h \in House, q \in Player : ExecuteTransfer(q, h) => s.owner[h] = s.deal[h].seller]_s

(* "You are already the owner of a house." (buyhouse.lua)                   *)
OneHouse == \A h, g \in House : s.owner[h] = s.owner[g] /\ s.owner[h] # NoPlayer => h = g
=============================================================================
