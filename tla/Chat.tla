-------------------------------- MODULE Chat --------------------------------
(***************************************************************************)
(* The private, the normal and the guild channels of chat.cpp, and the     *)
(* handlers of game.cpp for them; and the guilds with members in the game  *)
(* (guild.cpp, Game::guilds), from the loading of a player to its removal. *)
(* The channels of guilds are kept by id and outlive the guild objects.    *)
(* The channels of parties are in Party.                                   *)
(*                                                                         *)
(* A handler is a task of the dispatcher and one step on the state s.  A   *)
(* behaviour is about one of "About": "channels" or "guilds".              *)
(*                                                                         *)
(* Abstracted: one channel of chatchannels.xml stands for all of them; its *)
(* canJoin is asked at each lookup, and its answer (from vocation and      *)
(* account type) may differ each time, as may isPremium().  What is said,  *)
(* and the callbacks onJoin and onLeave, which are defined nowhere, are    *)
(* left out.  Ranks but the one of level 1, which setGuild looks for; who  *)
(* is in which guild is changed in the database by others, so that a login *)
(* may find any guild.                                                     *)
(***************************************************************************)
EXTENDS Naturals, FiniteSets, FiniteSetsExt

CONSTANTS About,
          Player, NoPlayer,
          Slots,           \* private channels: 100 .. 9999
          Guild, NoGuild,
          Recruiting       \* the guilds that have a rank of level 1

(* Assumed where this module is instantiated. *)
ChatAssumption ==
  /\ About \subseteq {"channels", "guilds"}
  /\ NoPlayer \notin Player /\ Slots \in Nat
  /\ NoGuild \notin Guild /\ Recruiting \subseteq Guild

VARIABLE s

Private == 1 .. Slots
Channel == [owner : Player \cup {NoPlayer}, invites : SUBSET Player, users : SUBSET Player]

TypeOK == s \in [about : About,
                 online : SUBSET Player,
                 normal : SUBSET Player,                 \* users of the normal channel
                 private : [Private -> Channel],
                 guild : [Player -> Guild \cup {NoGuild}],
                 members : [Guild -> SUBSET Player],     \* membersOnline
                 loaded : SUBSET Guild,                  \* Game::guilds
                 users : [Guild -> SUBSET Player]]       \* of guildChannels[id]

Closed == [owner |-> NoPlayer, invites |-> {}, users |-> {}]

Init ==
  \E about \in About :
    s = [about |-> about, online |-> {}, normal |-> {}, private |-> [c \in Private |-> Closed],
         guild |-> [p \in Player |-> NoGuild], members |-> [g \in Guild |-> {}],
         loaded |-> {}, users |-> [g \in Guild |-> {}]]

-----------------------------------------------------------------------------
(* Private channels *)

Owns(p) == {c \in Private : s.private[c].owner = p}
IsInvited(p, c) == p = s.private[c].owner \/ p \in s.private[c].invites
FreeSlots == {c \in Private : s.private[c] = Closed}

PlayerCreatePrivateChannel(p) ==
  /\ p \in s.online /\ Owns(p) = {} /\ FreeSlots # {}
  /\ s' = [s EXCEPT !.private[Min(FreeSlots)] = [owner |-> p, invites |-> {}, users |-> {p}]]

PlayerChannelInvite(p, q) ==
  /\ {p, q} \subseteq s.online /\ p # q
  /\ \E c \in Owns(p) : s' = [s EXCEPT !.private[c].invites = @ \cup {q}]

(* ChatChannel::removeUser *)
RemoveUser(ch, q) == [ch EXCEPT !.users = @ \ {q}]
(* A mutant: the user stays. *)
ExcludeInvite(ch, q) == [ch EXCEPT !.invites = @ \ {q}]
ExcludePlayer(ch, q) == [ch EXCEPT !.invites = @ \ {q}, !.users = @ \ {q}]

PlayerChannelExclude(p, q) ==
  /\ {p, q} \subseteq s.online /\ p # q
  /\ \E c \in Owns(p) : /\ q \in s.private[c].invites
                        /\ s' = [s EXCEPT !.private[c] = ExcludePlayer(@, q)]

OpenPrivate(p, c) ==
  /\ p \in s.online /\ IsInvited(p, c)
  /\ s' = [s EXCEPT !.private[c].users = @ \cup {p}]

(* Chat::removeUserFromChannel, which deletes the channel of the owner.     *)
ClosePrivate(p, c) ==
  /\ p \in s.private[c].users /\ IsInvited(p, c)
  /\ s' = [s EXCEPT !.private[c] = IF @.owner = p THEN Closed ELSE RemoveUser(@, p)]

(* The test of canJoin when who is in the channel closes it is the same:    *)
(* who may not join any more is not found there, and stays.                 *)
OpenNormal(p) == p \in s.online /\ s' = [s EXCEPT !.normal = @ \cup {p}]
CloseNormal(p) == p \in s.normal /\ s' = [s EXCEPT !.normal = @ \ {p}]

-----------------------------------------------------------------------------
(* Guilds *)

(* playerRequestChannels, which makes the channel, and playerOpenChannel.   *)
OpenGuildChannel(p) ==
  /\ p \in s.online /\ s.guild[p] # NoGuild
  /\ s' = [s EXCEPT !.users[s.guild[p]] = @ \cup {p}]

CloseGuildChannel(p) ==
  /\ p \in s.online /\ s.guild[p] # NoGuild /\ p \in s.users[s.guild[p]]
  /\ s' = [s EXCEPT !.users[s.guild[p]] = @ \ {p}]

AddMember(t, p, g) == IF g = NoGuild THEN t ELSE [t EXCEPT !.members[g] = @ \cup {p}]

(* Guild::removeMember: the last one deletes the object.  A mutant deletes  *)
(* it when one member is left.                                              *)
RemoveMemberEarly(t, p, g) ==
  IF g = NoGuild THEN t
  ELSE [t EXCEPT !.members[g] = @ \ {p},
                 !.loaded = IF Cardinality(t.members[g]) <= 2 THEN @ \ {g} ELSE @]
RemoveMember(t, p, g) ==
  IF g = NoGuild THEN t
  ELSE [t EXCEPT !.members[g] = @ \ {p},
                 !.loaded = IF t.members[g] \ {p} = {} THEN @ \ {g} ELSE @]

(* Player::setGuild, of scripts: who moves to a guild that has no rank of   *)
(* level 1 is in no guild, and is not taken off the list of the old one.    *)
SetGuild(p, g) ==
  /\ p \in s.online /\ g # s.guild[p] /\ g \in s.loaded \cup {NoGuild}
  /\ IF g \in Guild \ Recruiting
     THEN s' = [s EXCEPT !.guild[p] = NoGuild]
     ELSE s' = RemoveMember(AddMember([s EXCEPT !.guild[p] = g], p, g), p, s.guild[p])

(* loadPlayer of a player that is not in the game, for its mail or to show  *)
(* it: the guild is loaded, and stays so until a member leaves the game.    *)
LoadOffline(g) == g \notin s.loaded /\ s' = [s EXCEPT !.loaded = @ \cup {g}]

-----------------------------------------------------------------------------
(* loadPlayer, and onCreatureAppear *)
Login(p) ==
  /\ p \notin s.online
  /\ \E g \in {NoGuild} \cup (IF s.about = "guilds" THEN Guild ELSE {}) :
       s' = AddMember([s EXCEPT !.online = @ \cup {p}, !.guild[p] = g,
                                !.loaded = @ \cup ({g} \ {NoGuild})], p, g)

(* Chat::removeUserFromAllChannels.  A mutant keeps the invitations. *)
RemoveUserOnly(t, p) ==
  [t EXCEPT !.normal = @ \ {p},
            !.private = [c \in Private |-> IF @[c].owner = p THEN Closed
                                           ELSE RemoveUser(@[c], p)],
            !.users = [g \in Guild |-> @[g] \ {p}]]
RemoveUserFromAllChannels(t, p) ==
  [t EXCEPT !.normal = @ \ {p},
            !.private = [c \in Private |-> IF @[c].owner = p THEN Closed
                                           ELSE ExcludePlayer(@[c], p)],
            !.users = [g \in Guild |-> @[g] \ {p}]]

(* Player::onRemoveCreature; the object is not used again. *)
Logout(p) ==
  /\ p \in s.online
  /\ s' = RemoveMember([RemoveUserFromAllChannels(s, p)
                          EXCEPT !.online = @ \ {p}, !.guild[p] = NoGuild], p, s.guild[p])

(* ProtocolGame::connect, of a client that takes the player over *)
Reconnect(p) == p \in s.online /\ s' = RemoveUserFromAllChannels(s, p)

ChannelsNext ==
  /\ s.about = "channels"
  /\ \E p \in Player :
       \/ PlayerCreatePrivateChannel(p)
       \/ \E q \in Player : PlayerChannelInvite(p, q) \/ PlayerChannelExclude(p, q)
       \/ \E c \in Private : OpenPrivate(p, c) \/ ClosePrivate(p, c)
       \/ OpenNormal(p) \/ CloseNormal(p)

GuildsNext ==
  /\ s.about = "guilds"
  /\ \/ \E p \in Player : \/ OpenGuildChannel(p) \/ CloseGuildChannel(p)
                          \/ \E g \in Guild \cup {NoGuild} : SetGuild(p, g)
     \/ \E g \in Guild : LoadOffline(g)

Next ==
  \/ ChannelsNext \/ GuildsNext
  \/ \E p \in Player : Login(p) \/ Logout(p) \/ Reconnect(p)

Spec == Init /\ [][Next]_s

-----------------------------------------------------------------------------
(* A private channel is that of a player in the game who is in it; it has   *)
(* no user but those invited, who are in the game (the maps hold pointers); *)
(* nobody owns two; and the normal channel holds no player that is gone.    *)
PrivateChannelsHeld ==
  /\ \A c \in Private \ FreeSlots :
       LET ch == s.private[c]
       IN  /\ ch.owner \in ch.users /\ ch.users \subseteq ch.invites \cup {ch.owner}
           /\ ch.invites \cup {ch.owner} \subseteq s.online
  /\ \A p \in Player : \A c, d \in Owns(p) : c = d
  /\ s.normal \subseteq s.online

(* No player points to a guild that was deleted, whatever happens to the    *)
(* others on its list, and the channels, which outlive the guilds, hold no  *)
(* player that is gone.                                                     *)
GuildAlive ==
  /\ \A p \in s.online : s.guild[p] # NoGuild => /\ s.guild[p] \in s.loaded
                                                 /\ p \in s.members[s.guild[p]]
  /\ UNION {s.users[g] : g \in Guild} \subseteq s.online
=============================================================================
