------------------------------- MODULE Party -------------------------------
(***************************************************************************)
(* Parties (party.cpp, the handlers of game.cpp, what player.cpp does when *)
(* a player leaves the game) and their chat channels (chat.cpp), which are *)
(* kept by the address of the Party object.  Addresses of deleted parties  *)
(* are used again.                                                         *)
(*                                                                         *)
(* Each handler is a task of the dispatcher and one step.  The functions   *)
(* of party.cpp call each other, so they are operators on the state s.     *)
(*                                                                         *)
(* Abstracted: what clients are shown, and shared experience.  A script    *)
(* may refuse a join, which then does nothing; none of the callbacks that  *)
(* could refuse to let a player leave, or a party disband, is registered   *)
(* in data/scripts.  A channel that was not asked for yet has no users.    *)
(***************************************************************************)
EXTENDS Naturals, Sequences, SequencesExt, FiniteSets

CONSTANTS Player, NoPlayer,
          Address,        \* of Party objects
          NoParty

(* Assumed where this module is instantiated. *)
PartyAssumption == NoPlayer \notin Player /\ NoParty \notin Address

VARIABLE s

PartyRec == [leader : Player \cup {NoPlayer},   \* NoPlayer: no object at this address
             members : Seq(Player),
             invites : SUBSET Player,
             users : SUBSET Player]             \* of partyChannels[address]

PlayerRec == [online : BOOLEAN,
              party : Address \cup {NoParty},
              invitations : SUBSET Address]     \* invitePartyList

TypeOK == s \in [party : [Address -> PartyRec], player : [Player -> PlayerRec]]

NoObject == [leader |-> NoPlayer, members |-> <<>>, invites |-> {}, users |-> {}]
Absent == [online |-> FALSE, party |-> NoParty, invitations |-> {}]

Init == s = [party |-> [g \in Address |-> NoObject], player |-> [p \in Player |-> Absent]]

-----------------------------------------------------------------------------
Online(p) == s.player[p].online
PartyOf(p) == s.player[p].party
Leads(p) == PartyOf(p) # NoParty /\ s.party[PartyOf(p)].leader = p

(* Player::isInviting *)
IsInviting(p, q) == Leads(p) /\ q \in s.party[PartyOf(p)].invites

Empty(t, g) == t.party[g].members = <<>> /\ t.party[g].invites = {}

Members(t, g) == Range(t.party[g].members)

(* setParty(nullptr) of each of ps *)
NoPartyFor(t, ps) ==
  [t EXCEPT !.player = [p \in Player |-> IF p \in ps THEN [t.player[p] EXCEPT !.party = NoParty]
                                      ELSE t.player[p]]]

(* sendClosePrivate(CHANNEL_PARTY) of each of ps: getChannel finds the      *)
(* channel of the party that the player is in now.                          *)
SendClosePrivate(t, ps) ==
  [t EXCEPT !.party = [g \in Address |->
     [t.party[g] EXCEPT !.users = @ \ {p \in ps : t.player[p].party = g}]]]

(* removePartyInvitation, of each player that a party of gs invited *)
RemoveInvitations(t, gs) ==
  [t EXCEPT !.player = [p \in Player |->
     [t.player[p] EXCEPT !.invitations = @ \ {g \in gs : p \in t.party[g].invites}]]]

(* The objects are deleted; the channels of their addresses are not. *)
Deleted(t, gs) ==
  [t EXCEPT !.party = [g \in Address |->
     IF g \in gs THEN [NoObject EXCEPT !.users = t.party[g].users] ELSE t.party[g]]]

(* Mutants: invited players are forgotten; a member keeps its party.        *)
DisbandForgets(t, gs) ==
  LET all == UNION {Members(t, g) \cup {t.party[g].leader} : g \in gs}
  IN  Deleted(SendClosePrivate(NoPartyFor(t, all), all), gs)
DisbandHead(t, gs) ==
  LET all == {t.party[g].leader : g \in gs}
  IN  Deleted(RemoveInvitations(SendClosePrivate(NoPartyFor(t, all), all), gs), gs)

(* Party::disband, of each of gs: the players of one are not in another.    *)
Disband(t, gs) ==
  LET all == UNION {Members(t, g) \cup {t.party[g].leader} : g \in gs}
  IN  Deleted(RemoveInvitations(SendClosePrivate(NoPartyFor(t, all), all), gs), gs)

(* memberList.erase(std::find(...)): a player is on a list once. *)
Without(seq, p) ==
  IF p \in Range(seq) THEN RemoveAt(seq, CHOOSE i \in DOMAIN seq : seq[i] = p) ELSE seq

PassLeadership(t, g, p) ==
  IF p = t.party[g].leader \/ t.player[p].party # g THEN t
  ELSE [t EXCEPT !.party[g].members = <<t.party[g].leader>> \o Without(@, p),
                 !.party[g].leader = p]

LeavesNoLeader(t, g, p) ==
  /\ t.party[g].leader = p
  /\ \/ t.party[g].members = <<>>
     \/ Len(t.party[g].members) = 1 /\ t.party[g].invites = {}

LeaveParty(t, g, p) ==
  LET missing == LeavesNoLeader(t, g, p)
      passed == IF t.party[g].leader = p /\ ~missing
                THEN PassLeadership(t, g, Head(t.party[g].members)) ELSE t
      out == [passed EXCEPT !.party[g].members = Without(@, p), !.player[p].party = NoParty]
      closed == SendClosePrivate(out, {p})
  IN  IF missing \/ Empty(closed, g) THEN Disband(closed, {g}) ELSE closed

(* Party::removeInvite of p, of each of gs *)
RemoveInvite(t, gs, p) ==
  LET by == {g \in gs : p \in t.party[g].invites}
      out == [t EXCEPT !.party = [g \in Address |->
                           IF g \in by THEN [t.party[g] EXCEPT !.invites = @ \ {p}] ELSE t.party[g]],
                       !.player[p].invitations = @ \ by]
  IN  Disband(out, {g \in by : Empty(out, g)})

-----------------------------------------------------------------------------
(* The handlers of game.cpp *)

Invite(p, q) ==
  /\ p # q /\ Online(p) /\ Online(q)
  /\ ~IsInviting(q, p) /\ PartyOf(q) = NoParty
  /\ \E g \in Address :
       /\ IF PartyOf(p) = NoParty THEN s.party[g].leader = NoPlayer
          ELSE g = PartyOf(p) /\ Leads(p)
       /\ q \notin s.party[g].invites
       /\ s' = [s EXCEPT !.party[g].leader = p, !.party[g].invites = @ \cup {q},
                         !.player[p].party = g, !.player[q].invitations = @ \cup {g}]

Join(p, q) ==
  /\ Online(p) /\ Online(q) /\ IsInviting(q, p)
  /\ PartyOf(p) = NoParty
  /\ LET g == PartyOf(q)
     IN  s' = [s EXCEPT !.party[g].invites = @ \ {p}, !.party[g].members = Append(@, p),
                        !.player[p].party = g, !.player[p].invitations = @ \ {g}]

RevokeInvitation(p, q) ==
  /\ Online(p) /\ Online(q) /\ IsInviting(p, q)
  /\ s' = RemoveInvite(s, {PartyOf(p)}, q)

PassPartyLeadership(p, q) ==
  /\ Leads(p) /\ q # p /\ PartyOf(q) = PartyOf(p)
  /\ s' = PassLeadership(s, PartyOf(p), q)

PlayerLeaveParty(p) ==
  /\ PartyOf(p) # NoParty
  /\ s' = LeaveParty(s, PartyOf(p), p)

(* playerRequestChannels, which makes the channel, and playerOpenChannel.   *)
OpenPartyChannel(p) ==
  /\ PartyOf(p) # NoParty
  /\ s' = [s EXCEPT !.party[PartyOf(p)].users = @ \cup {p}]

ClosePartyChannel(p) ==
  /\ PartyOf(p) # NoParty /\ p \in s.party[PartyOf(p)].users
  /\ s' = SendClosePrivate(s, {p})

Login(p) == ~Online(p) /\ s' = [s EXCEPT !.player[p].online = TRUE]

(* Chat::removeUserFromAllChannels.  A mutant: only the channel of the      *)
(* player's party is looked at.                                              *)
RemoveUserFromParty(t, p) == SendClosePrivate(t, {p})
RemoveUserFromAllChannels(t, p) ==
  [t EXCEPT !.party = [g \in Address |-> [t.party[g] EXCEPT !.users = @ \ {p}]]]

(* Player::onRemoveCreature: clearPartyInvitations, leaveParty, and chat.   *)
ClearPartyInvitations(t, p) ==
  [RemoveInvite(t, t.player[p].invitations, p) EXCEPT !.player[p].invitations = {}]

Logout(p) ==
  /\ Online(p)
  /\ LET cleared == ClearPartyInvitations(s, p)
         g == cleared.player[p].party
         left == IF g = NoParty THEN cleared ELSE LeaveParty(cleared, g, p)
     IN  s' = [RemoveUserFromAllChannels(left, p) EXCEPT !.player[p].online = FALSE]

(* ProtocolGame::connect, of a client that takes the player over. *)
Reconnect(p) == Online(p) /\ s' = RemoveUserFromAllChannels(s, p)

Next ==
  \E p \in Player :
    \/ \E q \in Player : \/ Invite(p, q) \/ Join(p, q) \/ RevokeInvitation(p, q)
                         \/ PassPartyLeadership(p, q)
    \/ PlayerLeaveParty(p) \/ OpenPartyChannel(p) \/ ClosePartyChannel(p)
    \/ Login(p) \/ Logout(p) \/ Reconnect(p)

Spec == Init /\ [][Next]_s

-----------------------------------------------------------------------------
(* Whatever players leave, pass on or let lapse, and in whatever order they *)
(* log out: a party and its players point to each other, likewise a party   *)
(* and those it invited, only players in the game are concerned, and no     *)
(* object is left with nobody but its leader.                               *)
PartyPaired ==
  /\ \A p \in Player, g \in Address :
       /\ PartyOf(p) = g <=> p \in Members(s, g) \cup {s.party[g].leader}
       /\ g \in s.player[p].invitations <=> p \in s.party[g].invites
       /\ PartyOf(p) = g \/ p \in s.party[g].invites => Online(p)
  /\ \A g \in Address :
       /\ IsInjective(s.party[g].members) /\ s.party[g].leader \notin Members(s, g)
       /\ s.party[g].leader = NoPlayer <=> Empty(s, g)

(* A channel keeps no pointer to a player that is gone, not even the one of *)
(* a party that is gone: the map is kept by address and never cleared.      *)
ChannelUsersOnline == \A g \in Address : \A p \in s.party[g].users : Online(p)

(* "Open the party channel to communicate with your members.": who has left *)
(* a party is not in its channel (Player::sendClosePrivate).                *)
PartyChannelForMembers ==
  \A g \in Address : \A p \in s.party[g].users : PartyOf(p) = g
=============================================================================
