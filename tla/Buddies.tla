------------------------------- MODULE Buddies -------------------------------
(***************************************************************************)
(* The list of buddies (VIPs): of an account in the database, of a player  *)
(* in memory, and what its client shows, which is told who comes, who goes *)
(* and who turns into a ghost; and the table of those who are online       *)
(* (player.cpp, game.cpp, iologindata.cpp, luascript.cpp).                 *)
(*                                                                         *)
(* Abstracted: each player has an account of its own and does not list     *)
(* itself; every player can be found by name; names, descriptions and      *)
(* icons, which no client is sent, are left out.  A client takes a buddy   *)
(* off its list when it asks the server to.                                *)
(***************************************************************************)
EXTENDS Integers, FiniteSets

CONSTANTS Player,
          Access,         \* who sees ghosts, for its group
          Special,        \* PlayerFlag_SpecialVIP: only these may list these
          Lapsing,        \* whose premium time ends
          FreeLimit, PremiumLimit

(* Assumed where this module is instantiated. *)
BuddiesAssumption ==
  /\ Access \subseteq Player /\ Special \subseteq Player /\ Lapsing \subseteq Player
  /\ FreeLimit \in Nat /\ PremiumLimit \in Nat /\ FreeLimit <= PremiumLimit

VARIABLE s

(* entries: the rows of the account; list: VIPList; shown: by the client;    *)
(* short: the player has been loaded with fewer than its entries.            *)
Buddy == [on : BOOLEAN, client : BOOLEAN, ghost : BOOLEAN, premium : BOOLEAN, short : BOOLEAN,
          entries : SUBSET Player, list : SUBSET Player,
          shown : UNION {[who -> {"online", "offline"}] : who \in SUBSET Player}]
TypeOK == s \in [of : [Player -> Buddy], table : SUBSET Player]

Nobody == [g \in {} |-> "offline"]

Init ==
  s = [of |-> [q \in Player |-> [on |-> FALSE, client |-> FALSE, ghost |-> FALSE, premium |-> TRUE,
                                short |-> FALSE, entries |-> {}, list |-> {}, shown |-> Nobody]],
       table |-> {}]

-----------------------------------------------------------------------------
GetMaxVIPEntries(v) == IF v.premium THEN PremiumLimit ELSE FreeLimit

(* sendVIPEntries: all of the account, each as it is now *)
CanSee(q, g) == s.of[g].on /\ (~ s.of[g].ghost \/ q \in Access)
SendVIPEntries(q) ==
  [g \in s.of[q].entries |-> IF CanSee(q, g) THEN "online" ELSE "offline"]

(* notifyStatusChange, of g to those of "to" who have it in their list.      *)
NotifyStatusChange(of, to, g, status) ==
  [q \in Player |->
     IF q \in to /\ of[q].on /\ of[q].client /\ g \in of[q].list
     THEN [of[q] EXCEPT !.shown = [x \in DOMAIN @ \cup {g} |-> IF x = g THEN status ELSE @[x]]]
     ELSE of[q]]

(* loadPlayer takes the entries up to the limit; addList tells the others    *)
(* before the player itself is told of them; then it is in the table.        *)
Login(q) ==
  LET v == s.of[q]
      limit == GetMaxVIPEntries(v)
      all == Cardinality(v.entries) <= limit
  IN  /\ ~ v.on
      /\ \E list \in SUBSET v.entries :
           /\ IF all THEN list = v.entries ELSE Cardinality(list) = limit
           /\ s' = [of |-> NotifyStatusChange(
                             [s.of EXCEPT ![q] = [v EXCEPT !.on = TRUE, !.client = TRUE, !.list = list,
                                                           !.short = ~ all,
                                                           !.shown = SendVIPEntries(q)]],
                             Player \ {q}, q, "online"),
                    table |-> s.table \cup {q}]

(* Player::onRemoveCreature, removeList: also for a ghost *)
Logout(q) ==
  /\ s.of[q].on
  /\ s' = [of |-> NotifyStatusChange(
                    [s.of EXCEPT ![q] = [s.of[q] EXCEPT !.on = FALSE, !.client = FALSE, !.ghost = FALSE,
                                                        !.list = {}, !.shown = Nobody, !.short = FALSE]],
                    Player \ {q}, q, "offline"),
           table |-> s.table \ {q}]

(* The connection is lost, and the player stays; connect() takes it up again *)
Release(q) ==
  /\ s.of[q].client
  /\ s' = [s EXCEPT !.of[q].client = FALSE, !.of[q].shown = Nobody]
Connect(q) ==
  /\ s.of[q].on /\ ~ s.of[q].client
  /\ s' = [s EXCEPT !.of[q].client = TRUE, !.of[q].shown = SendVIPEntries(q)]

(* addVIP: a row that is there already is not inserted *)
AddVIP(q, g, status) ==
  LET v == s.of[q]
  IN  IF Cardinality(v.list) >= GetMaxVIPEntries(v) \/ g \in v.list THEN UNCHANGED s
      ELSE s' = [s EXCEPT !.of[q] =
                   [v EXCEPT !.list = @ \cup {g}, !.entries = @ \cup {g},
                             !.shown = IF ~ v.client THEN @
                                       ELSE [x \in DOMAIN @ \cup {g} |-> IF x = g THEN status ELSE @[x]]]]

(* playerRequestAddVip, of somebody who is online and of anybody else.       *)
(* Mutant: a ghost is shown as online.                                       *)
PlayerRequestAddVipGhost(q, g) ==
  /\ s.of[q].on /\ q # g
  /\ g \in Special => q \in Special
  /\ AddVIP(q, g, IF s.of[g].on THEN "online" ELSE "offline")
PlayerRequestAddVip(q, g) ==
  /\ s.of[q].on /\ q # g
  /\ g \in Special => q \in Special
  /\ \/ ~ s.of[g].on /\ AddVIP(q, g, "offline")
     \/ s.of[g].on /\ AddVIP(q, g, IF CanSee(q, g) THEN "online" ELSE "offline")

(* playerRequestRemoveVip, removeVIP: what is not in the list stays a row *)
PlayerRequestRemoveVip(q, g) ==
  /\ s.of[q].on /\ g \in DOMAIN s.of[q].shown
  /\ LET v == s.of[q]
     IN  s' = [s EXCEPT !.of[q] =
                [v EXCEPT !.shown = [x \in DOMAIN @ \ {g} |-> @[x]], !.list = @ \ {g},
                          !.entries = IF g \in v.list THEN @ \ {g} ELSE @]]

(* luaPlayerSetGhostMode: those who see ghosts are not told *)
LuaPlayerSetGhostMode(q, enabled) ==
  /\ s.of[q].on /\ s.of[q].ghost # enabled
  /\ s' = [of |-> NotifyStatusChange([s.of EXCEPT ![q].ghost = enabled], Player \ Access, q,
                                     IF enabled THEN "offline" ELSE "online"),
           table |-> IF enabled THEN s.table \ {q} ELSE s.table \cup {q}]

PremiumEnds(q) == q \in Lapsing /\ s.of[q].premium /\ s' = [s EXCEPT !.of[q].premium = FALSE]

Next ==
  \E q \in Player :
    \/ Login(q) \/ Logout(q) \/ Release(q) \/ Connect(q) \/ PremiumEnds(q)
    \/ \E g \in Player : PlayerRequestAddVip(q, g) \/ PlayerRequestRemoveVip(q, g)
    \/ \E enabled \in BOOLEAN : LuaPlayerSetGhostMode(q, enabled)

Spec == Init /\ [][Next]_s

-----------------------------------------------------------------------------
(* Whatever the order in which players come, go, lose their clients, turn    *)
(* into ghosts and are listed: a client shows the entries of its account,    *)
(* online those the player may know to be; unless there are more of them     *)
(* than it was loaded with.  The table has those who are in game and no      *)
(* ghosts.                                                                   *)
BuddiesShown ==
  /\ \A q \in Player : s.of[q].client /\ ~ s.of[q].short =>
       s.of[q].list = s.of[q].entries /\ s.of[q].shown = SendVIPEntries(q)
  /\ s.table = {q \in Player : s.of[q].on /\ ~ s.of[q].ghost}

(* Not so: once the premium time has ended, entries beyond the limit are     *)
(* shown, but are neither updated nor can they be removed.                   *)
AllShownAreListed == \A q \in Player : DOMAIN s.of[q].shown \subseteq s.of[q].list
=============================================================================
