---------------------------- MODULE PlayersProofs ----------------------------
(***************************************************************************)
(* Proofs about the components that players have to do with, for any sets  *)
(* of players, addresses, guilds and houses and any limits: parties,       *)
(* channels, houses, speed, fights, damage and commands, each with its      *)
(* inductive invariant, and then all components of MCPlayers at once, with *)
(* those of PlayersPartsProofs.                                             *)
(***************************************************************************)
EXTENDS PlayersPartsProofs, FiniteSetTheorems, SequenceTheorems, TLAPS

-----------------------------------------------------------------------------
(* Channels and guilds *)

(* Two private channels have two owners. *)
ChatOwners ==
  \A c, d \in Chat!Private :
    s.private[c].owner = s.private[d].owner /\ s.private[c].owner # nobody => c = d

(* A private channel is free, or has an owner who is in it and in the game,  *)
(* like those who are invited; and nobody else is in it.                     *)
ChatHeld ==
  \A c \in Chat!Private :
    \/ s.private[c] = Chat!Closed
    \/ /\ s.private[c].owner \in s.private[c].users
       /\ s.private[c].users \subseteq s.private[c].invites \cup {s.private[c].owner}
       /\ s.private[c].invites \cup {s.private[c].owner} \subseteq s.online

ChatGuilds ==
  /\ \A p \in s.online : s.guild[p] # none => /\ s.guild[p] \in s.loaded
                                              /\ p \in s.members[s.guild[p]]
  /\ \A g \in GuildIds : s.users[g] \subseteq s.online

ChatInv ==
  /\ Chat!TypeOK /\ ChatOwners /\ ChatHeld /\ ChatGuilds
  /\ s.normal \subseteq s.online

LEMMA ChatConstants ==
  /\ nobody \notin Many /\ ChatSlots \in Nat /\ none \notin GuildIds /\ Recruits \subseteq GuildIds
BY PlayersAssumption DEF Chat!ChatAssumption

(* The private channels in use are held by their owners, the guilds of the   *)
(* players in the game are loaded.                                           *)
LEMMA ChatHolds == ChatInv => Chat!PrivateChannelsHeld /\ Chat!GuildAlive
<1> SUFFICES ASSUME ChatInv PROVE Chat!PrivateChannelsHeld /\ Chat!GuildAlive
  OBVIOUS
<1>1. \A c \in Chat!Private \ Chat!FreeSlots :
        LET ch == s.private[c]
        IN  /\ ch.owner \in ch.users /\ ch.users \subseteq ch.invites \cup {ch.owner}
            /\ ch.invites \cup {ch.owner} \subseteq s.online
  BY DEF ChatInv, ChatHeld, Chat!FreeSlots
<1>2. \A p \in Many : \A c, d \in Chat!Owns(p) : c = d
  BY ChatConstants DEF ChatInv, ChatOwners, Chat!Owns
<1>3. Chat!GuildAlive
  BY DEF ChatInv, ChatGuilds, Chat!GuildAlive
<1> QED BY <1>1, <1>2, <1>3 DEF ChatInv, Chat!PrivateChannelsHeld

LEMMA ChatInit == Chat!Init => ChatInv
BY ChatConstants DEF Chat!Init, ChatInv, Chat!TypeOK, Chat!Channel, Chat!Closed, Chat!Private,
  ChatOwners, ChatHeld, ChatGuilds

(* A handler that changes one private channel, and leaves it held. *)
LEMMA ChatOneChannel ==
  ASSUME ChatInv, NEW c \in Chat!Private, NEW ch \in Chat!Channel,
         s' = [s EXCEPT !.private = [@ EXCEPT ![c] = ch]],
         \/ ch = Chat!Closed
         \/ /\ ch.owner \in ch.users
            /\ ch.users \subseteq ch.invites \cup {ch.owner}
            /\ ch.invites \cup {ch.owner} \subseteq s.online
            /\ \A d \in Chat!Private \ {c} : s.private[d].owner # ch.owner
  PROVE  ChatInv'
<1> DEFINE prv == [s.private EXCEPT ![c] = ch]
<1>1. prv \in [Chat!Private -> Chat!Channel]
  BY DEF ChatInv, Chat!TypeOK
<1>2. s' = [s EXCEPT !.private = prv]
  OBVIOUS
<1>3. \A d \in Chat!Private : prv[d] = IF d = c THEN ch ELSE s.private[d]
  BY DEF ChatInv, Chat!TypeOK
<1> HIDE DEF prv
<1>4. /\ Chat!TypeOK' /\ s'.private = prv /\ s'.online = s.online /\ s'.normal = s.normal
      /\ s'.guild = s.guild /\ s'.members = s.members /\ s'.loaded = s.loaded
      /\ s'.users = s.users
  BY <1>1, <1>2 DEF ChatInv, Chat!TypeOK
<1>5. ChatOwners'
  BY <1>3, <1>4, ChatConstants DEF ChatInv, ChatOwners, Chat!Closed
<1>6. ChatHeld'
  BY <1>3, <1>4 DEF ChatInv, ChatHeld
<1>7. ChatGuilds' /\ s'.normal \subseteq s'.online
  BY <1>4 DEF ChatInv, ChatGuilds
<1> QED BY <1>4, <1>5, <1>6, <1>7 DEF ChatInv

LEMMA ChatRemoveUser ==
  ASSUME NEW ch \in Chat!Channel, NEW q \in Many
  PROVE  /\ Chat!RemoveUser(ch, q) \in Chat!Channel
         /\ Chat!RemoveUser(ch, q).owner = ch.owner
         /\ Chat!RemoveUser(ch, q).invites = ch.invites
         /\ Chat!RemoveUser(ch, q).users = ch.users \ {q}
         /\ Chat!ExcludePlayer(ch, q) \in Chat!Channel
         /\ Chat!ExcludePlayer(ch, q).owner = ch.owner
         /\ Chat!ExcludePlayer(ch, q).invites = ch.invites \ {q}
         /\ Chat!ExcludePlayer(ch, q).users = ch.users \ {q}
BY DEF Chat!Channel, Chat!RemoveUser, Chat!ExcludePlayer

LEMMA ChatCreate ==
  ASSUME ChatInv, NEW p \in Many, Chat!PlayerCreatePrivateChannel(p)
  PROVE  ChatInv'
<1> DEFINE c == Chat!Min(Chat!FreeSlots)
           ch == [owner |-> p, invites |-> {}, users |-> {p}]
<1>1. c \in Chat!FreeSlots
  <2>1. Chat!FreeSlots # {} /\ Chat!FreeSlots \in SUBSET Nat
    BY ChatConstants DEF Chat!PlayerCreatePrivateChannel, Chat!FreeSlots, Chat!Private
  <2>2. PICK d \in Chat!FreeSlots : \A e \in Chat!FreeSlots : d <= e
    BY <2>1, NatLeast
  <2> QED BY <2>2 DEF Chat!Min
<1>2. c \in Chat!Private /\ ch \in Chat!Channel
  BY <1>1 DEF Chat!FreeSlots, Chat!Channel
<1>3. s' = [s EXCEPT !.private = [@ EXCEPT ![c] = ch]]
  BY DEF Chat!PlayerCreatePrivateChannel
<1>4. /\ p \in s.online
      /\ \A d \in Chat!Private \ {c} : s.private[d].owner # p
  BY DEF Chat!PlayerCreatePrivateChannel, Chat!Owns
<1> HIDE DEF c
<1> QED BY <1>2, <1>3, <1>4, ChatOneChannel

(* Whoever owns a channel owns no other. *)
LEMMA ChatOwnsOne ==
  ASSUME ChatInv, NEW p \in Many, NEW c \in Chat!Owns(p)
  PROVE  /\ c \in Chat!Private /\ s.private[c] \in Chat!Channel /\ s.private[c].owner = p
         /\ p \in s.private[c].users
         /\ s.private[c].users \subseteq s.private[c].invites \cup {p}
         /\ s.private[c].invites \cup {p} \subseteq s.online
         /\ \A d \in Chat!Private \ {c} : s.private[d].owner # p
BY ChatConstants DEF ChatInv, ChatOwners, ChatHeld, Chat!Owns, Chat!TypeOK, Chat!Closed

LEMMA ChatInvite ==
  ASSUME ChatInv, NEW p \in Many, NEW q \in Many, Chat!PlayerChannelInvite(p, q)
  PROVE  ChatInv'
<1>1. PICK c \in Chat!Owns(p) : s' = [s EXCEPT !.private[c].invites = @ \cup {q}]
  BY DEF Chat!PlayerChannelInvite
<1> DEFINE ch == [s.private[c] EXCEPT !.invites = @ \cup {q}]
<1>2. ch \in Chat!Channel /\ ch.owner = p /\ ch.users = s.private[c].users
      /\ ch.invites = s.private[c].invites \cup {q}
  BY ChatOwnsOne DEF Chat!Channel
<1>3. s' = [s EXCEPT !.private = [@ EXCEPT ![c] = ch]]
  BY <1>1
<1>4. q \in s.online
  BY DEF Chat!PlayerChannelInvite
<1> HIDE DEF ch
<1> QED BY <1>2, <1>3, <1>4, ChatOwnsOne, ChatOneChannel

LEMMA ChatExclude ==
  ASSUME ChatInv, NEW p \in Many, NEW q \in Many, Chat!PlayerChannelExclude(p, q)
  PROVE  ChatInv'
<1>1. PICK c \in Chat!Owns(p) : s' = [s EXCEPT !.private[c] = Chat!ExcludePlayer(@, q)]
  BY DEF Chat!PlayerChannelExclude
<1> DEFINE ch == Chat!ExcludePlayer(s.private[c], q)
<1>2. ch \in Chat!Channel /\ ch.owner = p /\ ch.users = s.private[c].users \ {q}
      /\ ch.invites = s.private[c].invites \ {q}
  <2>1. s.private[c] \in Chat!Channel /\ s.private[c].owner = p
    BY ChatOwnsOne
  <2> QED BY <2>1, ChatRemoveUser
<1>3. s' = [s EXCEPT !.private = [@ EXCEPT ![c] = ch]]
  BY <1>1
<1>4. p # q
  BY DEF Chat!PlayerChannelExclude
<1> HIDE DEF ch
<1> QED BY <1>2, <1>3, <1>4, ChatOwnsOne, ChatOneChannel

(* Whoever is invited finds the channel of somebody in the game. *)
LEMMA ChatOpenPrivate ==
  ASSUME ChatInv, NEW p \in Many, NEW c \in Chat!Private, Chat!OpenPrivate(p, c)
  PROVE  ChatInv'
<1> DEFINE ch == [s.private[c] EXCEPT !.users = @ \cup {p}]
           o == s.private[c].owner
<1>1. /\ s.private[c] \in Chat!Channel /\ p \in s.private[c].invites \cup {o}
      /\ s.private[c] # Chat!Closed
  BY ChatConstants
  DEF ChatInv, Chat!TypeOK, Chat!OpenPrivate, Chat!IsInvited, Chat!Closed
<1>2. o \in Many /\ c \in Chat!Owns(o)
  BY <1>1 DEF ChatInv, ChatHeld, Chat!Owns, Chat!Channel
<1>3. ch \in Chat!Channel /\ ch.owner = o /\ ch.users = s.private[c].users \cup {p}
      /\ ch.invites = s.private[c].invites
  BY <1>1 DEF Chat!Channel
<1>4. s' = [s EXCEPT !.private = [@ EXCEPT ![c] = ch]]
  BY DEF Chat!OpenPrivate
<1> HIDE DEF ch, o
<1> QED BY <1>1, <1>2, <1>3, <1>4, ChatOwnsOne, ChatOneChannel

LEMMA ChatClosePrivate ==
  ASSUME ChatInv, NEW p \in Many, NEW c \in Chat!Private, Chat!ClosePrivate(p, c)
  PROVE  ChatInv'
<1> DEFINE o == s.private[c].owner
           out == Chat!RemoveUser(s.private[c], p)
           ch == IF o = p THEN Chat!Closed ELSE out
<1>1. s.private[c] \in Chat!Channel /\ s.private[c] # Chat!Closed
  BY DEF ChatInv, Chat!TypeOK, Chat!ClosePrivate, Chat!Closed
<1>2. o \in Many /\ c \in Chat!Owns(o)
  BY <1>1 DEF ChatInv, ChatHeld, Chat!Owns, Chat!Channel
<1>3. out \in Chat!Channel /\ out.owner = o /\ out.users = s.private[c].users \ {p}
      /\ out.invites = s.private[c].invites
  BY <1>1, ChatRemoveUser
<1>4. Chat!Closed \in Chat!Channel
  BY DEF Chat!Closed, Chat!Channel
<1>5. s' = [s EXCEPT !.private = [@ EXCEPT ![c] = ch]]
  BY DEF Chat!ClosePrivate
<1> HIDE DEF out, o
<1>6. CASE o = p
  BY <1>4, <1>5, <1>6, ChatOneChannel
<1>7. CASE o # p
  BY <1>2, <1>3, <1>5, <1>7, ChatOwnsOne, ChatOneChannel
<1> QED BY <1>6, <1>7

(* A handler that changes who is in the channels of guilds. *)
LEMMA ChatGuildChannel ==
  ASSUME ChatInv, NEW p \in s.online, NEW g \in GuildIds,
         NEW U \in SUBSET (s.users[g] \cup {p}),
         s' = [s EXCEPT !.users = [@ EXCEPT ![g] = U]]
  PROVE  ChatInv'
<1> DEFINE us == [s.users EXCEPT ![g] = U]
<1>1. us \in [GuildIds -> SUBSET Many] /\ \A h \in GuildIds : us[h] \subseteq s.online
  BY DEF ChatInv, Chat!TypeOK, ChatGuilds
<1>2. s' = [s EXCEPT !.users = us]
  OBVIOUS
<1> HIDE DEF us
<1>3. /\ Chat!TypeOK' /\ s'.private = s.private /\ s'.online = s.online
      /\ s'.normal = s.normal /\ s'.guild = s.guild /\ s'.members = s.members
      /\ s'.loaded = s.loaded /\ s'.users = us
  BY <1>1, <1>2 DEF ChatInv, Chat!TypeOK
<1>4. ChatOwners' /\ ChatHeld'
  BY <1>3 DEF ChatInv, ChatOwners, ChatHeld
<1>5. ChatGuilds' /\ s'.normal \subseteq s'.online
  BY <1>1, <1>3 DEF ChatInv, ChatGuilds
<1> QED BY <1>3, <1>4, <1>5 DEF ChatInv

LEMMA ChatGuildOf ==
  ASSUME ChatInv, NEW p \in Many, s.guild[p] # none
  PROVE  s.guild[p] \in GuildIds
BY DEF ChatInv, Chat!TypeOK

LEMMA ChatOpenGuild ==
  ASSUME ChatInv, NEW p \in Many, Chat!OpenGuildChannel(p) \/ Chat!CloseGuildChannel(p)
  PROVE  ChatInv'
<1> DEFINE g == s.guild[p]
<1>1. p \in s.online /\ g \in GuildIds
  BY ChatGuildOf DEF Chat!OpenGuildChannel, Chat!CloseGuildChannel
<1>2. CASE Chat!OpenGuildChannel(p)
  <2>1. s' = [s EXCEPT !.users = [@ EXCEPT ![g] = s.users[g] \cup {p}]]
    BY <1>2 DEF Chat!OpenGuildChannel
  <2> HIDE DEF g
  <2> QED BY <1>1, <2>1, ChatGuildChannel
<1>3. CASE Chat!CloseGuildChannel(p)
  <2>1. s' = [s EXCEPT !.users = [@ EXCEPT ![g] = s.users[g] \ {p}]]
    BY <1>3 DEF Chat!CloseGuildChannel
  <2> HIDE DEF g
  <2> QED BY <1>1, <2>1, ChatGuildChannel
<1> QED BY <1>2, <1>3

LEMMA ChatNormal ==
  ASSUME ChatInv, NEW p \in Many, Chat!OpenNormal(p) \/ Chat!CloseNormal(p)
  PROVE  ChatInv'
<1> DEFINE n == s'.normal
<1>1. n \subseteq s.online /\ s' = [s EXCEPT !.normal = n]
  BY DEF ChatInv, Chat!TypeOK, Chat!OpenNormal, Chat!CloseNormal
<1>2. n \in SUBSET Many
  BY <1>1 DEF ChatInv, Chat!TypeOK
<1> HIDE DEF n
<1>3. /\ Chat!TypeOK' /\ s'.private = s.private /\ s'.online = s.online
      /\ s'.normal = n /\ s'.guild = s.guild /\ s'.members = s.members
      /\ s'.loaded = s.loaded /\ s'.users = s.users
  BY <1>1, <1>2 DEF ChatInv, Chat!TypeOK
<1> QED BY <1>1, <1>3 DEF ChatInv, ChatOwners, ChatHeld, ChatGuilds

LEMMA ChatLoadOffline ==
  ASSUME ChatInv, NEW g \in GuildIds, Chat!LoadOffline(g)
  PROVE  ChatInv'
<1>1. /\ Chat!TypeOK' /\ s'.private = s.private /\ s'.online = s.online
      /\ s'.normal = s.normal /\ s'.guild = s.guild /\ s'.members = s.members
      /\ s'.loaded = s.loaded \cup {g} /\ s'.users = s.users
  BY DEF ChatInv, Chat!TypeOK, Chat!LoadOffline
<1> QED BY <1>1 DEF ChatInv, ChatOwners, ChatHeld, ChatGuilds

ChatState ==
  [about : ChatAbout, online : SUBSET Many, normal : SUBSET Many,
   private : [Chat!Private -> Chat!Channel],
   guild : [Many -> GuildIds \cup {none}],
   members : [GuildIds -> SUBSET Many], loaded : SUBSET GuildIds,
   users : [GuildIds -> SUBSET Many]]

(* Somebody joins or leaves the guild g. *)
LEMMA ChatAddMember ==
  ASSUME NEW t \in ChatState,
         NEW p \in Many, NEW g \in GuildIds \cup {none}
  PROVE  /\ Chat!AddMember(t, p, g) \in ChatState
         /\ Chat!AddMember(t, p, g).online = t.online
         /\ Chat!AddMember(t, p, g).normal = t.normal
         /\ Chat!AddMember(t, p, g).private = t.private
         /\ Chat!AddMember(t, p, g).guild = t.guild
         /\ Chat!AddMember(t, p, g).loaded = t.loaded
         /\ Chat!AddMember(t, p, g).users = t.users
         /\ \A h \in GuildIds : Chat!AddMember(t, p, g).members[h]
              = IF h = g THEN t.members[h] \cup {p} ELSE t.members[h]
<1>1. CASE g = none
  BY <1>1, ChatConstants DEF Chat!AddMember, ChatState
<1>2. CASE g \in GuildIds
  <2> DEFINE ms == [t.members EXCEPT ![g] = @ \cup {p}]
  <2>1. ms \in [GuildIds -> SUBSET Many]
        /\ \A h \in GuildIds : ms[h] = IF h = g THEN t.members[h] \cup {p} ELSE t.members[h]
    BY <1>2 DEF ChatState
  <2>2. Chat!AddMember(t, p, g) = [t EXCEPT !.members = ms]
    BY <1>2, ChatConstants DEF Chat!AddMember
  <2> HIDE DEF ms
  <2> QED BY <2>1, <2>2 DEF ChatState
<1> QED BY <1>1, <1>2

LEMMA ChatRemoveMember ==
  ASSUME NEW t \in ChatState, NEW p \in Many, NEW g \in GuildIds \cup {none}
  PROVE  /\ Chat!RemoveMember(t, p, g) \in ChatState
         /\ Chat!RemoveMember(t, p, g).online = t.online
         /\ Chat!RemoveMember(t, p, g).normal = t.normal
         /\ Chat!RemoveMember(t, p, g).private = t.private
         /\ Chat!RemoveMember(t, p, g).guild = t.guild
         /\ Chat!RemoveMember(t, p, g).users = t.users
         /\ Chat!RemoveMember(t, p, g).members
              = [h \in GuildIds |-> IF h = g THEN t.members[h] \ {p} ELSE t.members[h]]
         /\ \A h \in t.loaded : \/ h \in Chat!RemoveMember(t, p, g).loaded
                                \/ h = g /\ t.members[h] \subseteq {p}
<1>1. CASE g = none
  BY <1>1, ChatConstants DEF Chat!RemoveMember, ChatState
<1>2. CASE g \in GuildIds
  <2> DEFINE ms == [t.members EXCEPT ![g] = @ \ {p}]
             mh == [h \in GuildIds |-> IF h = g THEN t.members[h] \ {p} ELSE t.members[h]]
             ld == IF t.members[g] \ {p} = {} THEN t.loaded \ {g} ELSE t.loaded
  <2>1. /\ ms \in [GuildIds -> SUBSET Many]
        /\ ms = mh
    BY <1>2 DEF ChatState
  <2>2. /\ ld \in SUBSET GuildIds
        /\ \A h \in t.loaded : h \in ld \/ (h = g /\ t.members[h] \subseteq {p})
    BY DEF ChatState
  <2>3. Chat!RemoveMember(t, p, g) = [t EXCEPT !.members = ms, !.loaded = ld]
    BY <1>2, ChatConstants DEF Chat!RemoveMember
  <2> HIDE DEF ms, mh, ld
  <2> DEFINE r == Chat!RemoveMember(t, p, g)
  <2>4. /\ r \in ChatState /\ r.online = t.online /\ r.normal = t.normal
        /\ r.private = t.private /\ r.guild = t.guild /\ r.users = t.users
        /\ r.members = mh /\ r.loaded = ld
    BY <2>1, <2>2, <2>3 DEF ChatState
  <2> HIDE DEF r
  <2>5. /\ r.members = [h \in GuildIds |-> IF h = g THEN t.members[h] \ {p} ELSE t.members[h]]
        /\ \A h \in t.loaded : h \in r.loaded \/ (h = g /\ t.members[h] \subseteq {p})
    BY <2>2, <2>4 DEF mh
  <2> QED BY <2>4, <2>5 DEF r
<1> QED BY <1>1, <1>2

(* Whoever leaves the game, or is taken over, is in no channel, and its own  *)
(* is closed.                                                                *)
LEMMA ChatRemoveUserAll ==
  ASSUME NEW t \in ChatState, NEW p \in Many
  PROVE  /\ Chat!RemoveUserFromAllChannels(t, p) \in ChatState
         /\ Chat!RemoveUserFromAllChannels(t, p).online = t.online
         /\ Chat!RemoveUserFromAllChannels(t, p).normal = t.normal \ {p}
         /\ Chat!RemoveUserFromAllChannels(t, p).guild = t.guild
         /\ Chat!RemoveUserFromAllChannels(t, p).members = t.members
         /\ Chat!RemoveUserFromAllChannels(t, p).loaded = t.loaded
         /\ \A c \in Chat!Private : Chat!RemoveUserFromAllChannels(t, p).private[c]
              = IF t.private[c].owner = p THEN Chat!Closed
                ELSE Chat!ExcludePlayer(t.private[c], p)
         /\ \A g \in GuildIds : Chat!RemoveUserFromAllChannels(t, p).users[g] = t.users[g] \ {p}
<1> DEFINE prv == [c \in Chat!Private |-> IF t.private[c].owner = p THEN Chat!Closed
                                          ELSE Chat!ExcludePlayer(t.private[c], p)]
           us == [g \in GuildIds |-> t.users[g] \ {p}]
           nm == t.normal \ {p}
<1>1. prv \in [Chat!Private -> Chat!Channel]
  <2>1. Chat!Closed \in Chat!Channel
    BY DEF Chat!Closed, Chat!Channel
  <2>2. \A c \in Chat!Private : Chat!ExcludePlayer(t.private[c], p) \in Chat!Channel
    BY ChatRemoveUser DEF ChatState
  <2> QED BY <2>1, <2>2
<1>2. us \in [GuildIds -> SUBSET Many] /\ nm \in SUBSET Many
  BY DEF ChatState
<1>3. /\ \A c \in Chat!Private : prv[c] = IF t.private[c].owner = p THEN Chat!Closed
                                          ELSE Chat!ExcludePlayer(t.private[c], p)
      /\ \A g \in GuildIds : us[g] = t.users[g] \ {p}
  OBVIOUS
<1>4. Chat!RemoveUserFromAllChannels(t, p)
        = [t EXCEPT !.normal = nm, !.private = prv, !.users = us]
  BY DEF Chat!RemoveUserFromAllChannels
<1>5. nm = t.normal \ {p}
  OBVIOUS
<1> HIDE DEF prv, us, nm
<1> QED BY <1>1, <1>2, <1>3, <1>4, <1>5 DEF ChatState

LEMMA ChatClosedStays ==
  ASSUME NEW q
  PROVE  Chat!ExcludePlayer(Chat!Closed, q) = Chat!Closed
<1>1. \A x, y \in [owner : {nobody}, invites : {{}}, users : {{}}] : x = y
  OBVIOUS
<1>2. Chat!Closed \in [owner : {nobody}, invites : {{}}, users : {{}}]
  BY DEF Chat!Closed
<1>3. Chat!ExcludePlayer(Chat!Closed, q) \in [owner : {nobody}, invites : {{}}, users : {{}}]
  BY DEF Chat!Closed, Chat!ExcludePlayer
<1> QED BY <1>1, <1>2, <1>3

(* The private channels stay held, whether the player leaves the game or not. *)
LEMMA ChatPlayerOut ==
  ASSUME ChatInv, NEW p \in Many,
         s'.online = s.online \/ s'.online = s.online \ {p},
         \A c \in Chat!Private : s'.private[c]
           = IF s.private[c].owner = p THEN Chat!Closed ELSE Chat!ExcludePlayer(s.private[c], p)
  PROVE  ChatOwners' /\ ChatHeld'
<1>1. \A c \in Chat!Private :
        /\ Chat!ExcludePlayer(s.private[c], p).owner = s.private[c].owner
        /\ Chat!ExcludePlayer(s.private[c], p).invites = s.private[c].invites \ {p}
        /\ Chat!ExcludePlayer(s.private[c], p).users = s.private[c].users \ {p}
  BY ChatRemoveUser DEF ChatInv, Chat!TypeOK
<1>2. ChatOwners'
  BY <1>1, ChatConstants DEF ChatInv, ChatOwners, Chat!Closed
<1>3. ChatHeld'
  <2> SUFFICES ASSUME NEW c \in Chat!Private, s.private[c].owner # p
               PROVE  \/ Chat!ExcludePlayer(s.private[c], p) = Chat!Closed
                      \/ /\ s.private[c].owner \in s.private[c].users \ {p}
                         /\ s.private[c].users \ {p}
                              \subseteq (s.private[c].invites \ {p}) \cup {s.private[c].owner}
                         /\ (s.private[c].invites \ {p}) \cup {s.private[c].owner}
                              \subseteq s.online \ {p}
    BY <1>1 DEF ChatHeld
  <2>1. CASE s.private[c] = Chat!Closed
    BY <2>1, ChatClosedStays
  <2>2. CASE s.private[c] # Chat!Closed
    BY <2>2 DEF ChatInv, ChatHeld
  <2> QED BY <2>1, <2>2
<1> QED BY <1>2, <1>3

LEMMA ChatReconnect ==
  ASSUME ChatInv, NEW p \in Many, Chat!Reconnect(p)
  PROVE  ChatInv'
<1>1. s \in ChatState /\ s' = Chat!RemoveUserFromAllChannels(s, p)
  BY DEF ChatInv, Chat!TypeOK, ChatState, Chat!Reconnect
<1>2. /\ s' \in ChatState /\ s'.online = s.online /\ s'.normal = s.normal \ {p}
      /\ s'.guild = s.guild /\ s'.members = s.members /\ s'.loaded = s.loaded
      /\ \A c \in Chat!Private : s'.private[c]
           = IF s.private[c].owner = p THEN Chat!Closed ELSE Chat!ExcludePlayer(s.private[c], p)
      /\ \A g \in GuildIds : s'.users[g] = s.users[g] \ {p}
  BY <1>1, ChatRemoveUserAll
<1>3. ChatOwners' /\ ChatHeld'
  BY <1>2, ChatPlayerOut
<1>4. ChatGuilds' /\ s'.normal \subseteq s'.online
  BY <1>2 DEF ChatInv, ChatGuilds
<1> QED BY <1>2, <1>3, <1>4 DEF ChatInv, Chat!TypeOK, ChatState

(* The guild that the last member leaves is deleted: nobody else points to it. *)
LEMMA ChatLogout ==
  ASSUME ChatInv, NEW p \in Many, Chat!Logout(p)
  PROVE  ChatInv'
<1> DEFINE u == Chat!RemoveUserFromAllChannels(s, p)
           v == [u EXCEPT !.online = @ \ {p}, !.guild[p] = none]
           g == s.guild[p]
<1>1. s \in ChatState /\ g \in GuildIds \cup {none}
  BY DEF ChatInv, Chat!TypeOK, ChatState
<1>2. /\ u \in ChatState /\ u.online = s.online /\ u.normal = s.normal \ {p}
      /\ u.guild = s.guild /\ u.members = s.members /\ u.loaded = s.loaded
      /\ \A c \in Chat!Private : u.private[c]
           = IF s.private[c].owner = p THEN Chat!Closed ELSE Chat!ExcludePlayer(s.private[c], p)
      /\ \A h \in GuildIds : u.users[h] = s.users[h] \ {p}
  BY <1>1, ChatRemoveUserAll
<1>3. s' = Chat!RemoveMember(v, p, g) /\ p \in s.online
  BY DEF Chat!Logout
<1> HIDE DEF u
<1>4. /\ v \in ChatState /\ v.online = s.online \ {p} /\ v.normal = u.normal
      /\ v.private = u.private /\ v.members = u.members /\ v.loaded = u.loaded
      /\ v.users = u.users /\ \A q \in Many \ {p} : v.guild[q] = s.guild[q]
  BY <1>2 DEF ChatState
<1> HIDE DEF v, g
<1>5. /\ s' \in ChatState /\ s'.online = v.online /\ s'.normal = v.normal
      /\ s'.private = v.private /\ s'.guild = v.guild /\ s'.users = v.users
      /\ \A h \in GuildIds : s'.members[h]
           = IF h = g THEN v.members[h] \ {p} ELSE v.members[h]
      /\ \A h \in v.loaded : h \in s'.loaded \/ (h = g /\ v.members[h] \subseteq {p})
  <2> DEFINE r == Chat!RemoveMember(v, p, g)
  <2>1. v \in ChatState /\ g \in GuildIds \cup {none}
    BY <1>1, <1>4
  <2>2. /\ r \in ChatState /\ r.online = v.online /\ r.normal = v.normal
        /\ r.private = v.private /\ r.guild = v.guild /\ r.users = v.users
    BY <2>1, ChatRemoveMember, ZenonT(60)
  <2>6. r.members = [h \in GuildIds |-> IF h = g THEN v.members[h] \ {p} ELSE v.members[h]]
    BY <2>1, ChatRemoveMember
  <2>4. ASSUME NEW h \in v.loaded
        PROVE  h \in r.loaded \/ (h = g /\ v.members[h] \subseteq {p})
    BY <2>1, ChatRemoveMember
  <2>3. s' = r
    BY <1>3
  <2> HIDE DEF r
  <2> QED BY <2>2, <2>3, <2>4, <2>6
<1>6. ChatOwners' /\ ChatHeld'
  BY <1>2, <1>4, <1>5, ChatPlayerOut
<1>7. ChatGuilds'
  <2>1. ASSUME NEW q \in s'.online, s'.guild[q] # none
        PROVE  s'.guild[q] \in s'.loaded /\ q \in s'.members[s'.guild[q]]
    <3> DEFINE h == s.guild[q]
    <3>1. q \in s.online /\ q # p /\ q \in Many /\ s'.guild[q] = h
      BY <1>1, <1>4, <1>5 DEF ChatState
    <3>2. h \in s.loaded /\ q \in s.members[h] /\ h \in GuildIds
      BY <2>1, <3>1 DEF ChatInv, ChatGuilds, Chat!TypeOK
    <3>3. h \in v.loaded /\ q \in v.members[h] /\ q \in v.members[h] \ {p}
      BY <1>2, <1>4, <3>1, <3>2
    <3> HIDE DEF h
    <3> QED BY <1>5, <3>1, <3>2, <3>3
  <2>2. \A h \in GuildIds : s'.users[h] \subseteq s'.online
    BY <1>2, <1>4, <1>5 DEF ChatInv, ChatGuilds
  <2> QED BY <2>1, <2>2 DEF ChatGuilds
<1>8. s'.normal \subseteq s'.online
  BY <1>2, <1>4, <1>5 DEF ChatInv
<1> QED BY <1>5, <1>6, <1>7, <1>8 DEF ChatInv, Chat!TypeOK, ChatState

LEMMA ChatLogin ==
  ASSUME ChatInv, NEW p \in Many, Chat!Login(p)
  PROVE  ChatInv'
<1>1. PICK g \in GuildIds \cup {none} :
        s' = Chat!AddMember([s EXCEPT !.online = @ \cup {p}, !.guild[p] = g,
                                      !.loaded = @ \cup ({g} \ {none})], p, g)
  BY DEF Chat!Login
<1> DEFINE gd == [s.guild EXCEPT ![p] = g]
           ld == s.loaded \cup ({g} \ {none})
           v == [s EXCEPT !.online = @ \cup {p}, !.guild = gd, !.loaded = ld]
<1>2. s' = Chat!AddMember(v, p, g)
  BY <1>1
<1>3. /\ gd \in [Many -> GuildIds \cup {none}] /\ ld \in SUBSET GuildIds
      /\ gd[p] = g /\ \A q \in Many \ {p} : gd[q] = s.guild[q]
      /\ s.loaded \subseteq ld /\ (g # none => g \in ld)
  BY DEF ChatInv, Chat!TypeOK
<1> HIDE DEF gd, ld
<1>4. /\ v \in ChatState /\ v.online = s.online \cup {p} /\ v.normal = s.normal
      /\ v.private = s.private /\ v.members = s.members /\ v.loaded = ld
      /\ v.users = s.users /\ v.guild = gd
  BY <1>3 DEF ChatInv, Chat!TypeOK, ChatState
<1> HIDE DEF v
<1>5. /\ s' \in ChatState /\ s'.online = v.online /\ s'.normal = v.normal
      /\ s'.private = v.private /\ s'.guild = v.guild /\ s'.users = v.users
      /\ s'.loaded = v.loaded
      /\ \A h \in GuildIds : s'.members[h]
           = IF h = g THEN v.members[h] \cup {p} ELSE v.members[h]
  <2> DEFINE r == Chat!AddMember(v, p, g)
  <2>1. v \in ChatState
    BY <1>4
  <2>2. /\ r \in ChatState /\ r.online = v.online /\ r.normal = v.normal
        /\ r.private = v.private /\ r.guild = v.guild /\ r.users = v.users
        /\ r.loaded = v.loaded
        /\ \A h \in GuildIds : r.members[h] = IF h = g THEN v.members[h] \cup {p} ELSE v.members[h]
    BY <2>1, ChatAddMember, ZenonT(60)
  <2>3. s' = r
    BY <1>2
  <2> QED BY <2>2, <2>3
<1>6. ChatOwners' /\ ChatHeld' /\ s'.normal \subseteq s'.online
  BY <1>4, <1>5 DEF ChatInv, ChatOwners, ChatHeld
<1>7. ChatGuilds'
  <2>1. ASSUME NEW q \in s'.online, s'.guild[q] # none
        PROVE  s'.guild[q] \in s'.loaded /\ q \in s'.members[s'.guild[q]]
    <3>1. CASE q = p
      BY <1>3, <1>4, <1>5, <2>1, <3>1
    <3>2. CASE q # p
      <4>1. q \in s.online /\ q \in Many /\ s'.guild[q] = s.guild[q]
        BY <1>3, <1>4, <1>5, <3>2 DEF ChatInv, Chat!TypeOK
      <4>2. s.guild[q] \in s.loaded /\ q \in s.members[s.guild[q]] /\ s.guild[q] \in GuildIds
        BY <2>1, <4>1 DEF ChatInv, ChatGuilds, Chat!TypeOK
      <4> QED BY <1>3, <1>4, <1>5, <4>1, <4>2
    <3> QED BY <3>1, <3>2
  <2>2. \A h \in GuildIds : s'.users[h] \subseteq s'.online
    BY <1>4, <1>5 DEF ChatInv, ChatGuilds
  <2> QED BY <2>1, <2>2 DEF ChatGuilds
<1> QED BY <1>5, <1>6, <1>7 DEF ChatInv, Chat!TypeOK, ChatState

(* Who moves to another guild is on its list before the list of the old one  *)
(* is looked at.                                                             *)
LEMMA ChatSetGuild ==
  ASSUME ChatInv, NEW p \in Many, NEW g \in GuildIds \cup {none}, Chat!SetGuild(p, g)
  PROVE  ChatInv'
<1> DEFINE ng == IF g \in GuildIds \ Recruits THEN none ELSE g
           gd == [s.guild EXCEPT ![p] = ng]
           u == [s EXCEPT !.guild = gd]
           w == Chat!AddMember(u, p, g)
           old == s.guild[p]
<1>1. /\ gd \in [Many -> GuildIds \cup {none}] /\ gd[p] = ng
      /\ \A q \in Many \ {p} : gd[q] = s.guild[q]
      /\ old \in GuildIds \cup {none} /\ g # old /\ (g # none => g \in s.loaded)
  BY DEF ChatInv, Chat!TypeOK, Chat!SetGuild
<1>2. s' = IF g \in GuildIds \ Recruits THEN u ELSE Chat!RemoveMember(w, p, old)
  BY DEF Chat!SetGuild
<1> HIDE DEF gd
<1>3. /\ u \in ChatState /\ u.online = s.online /\ u.normal = s.normal
      /\ u.private = s.private /\ u.members = s.members /\ u.loaded = s.loaded
      /\ u.users = s.users /\ u.guild = gd
  BY <1>1 DEF ChatInv, Chat!TypeOK, ChatState
<1> HIDE DEF u
<1>4. /\ w \in ChatState /\ w.online = s.online /\ w.normal = s.normal
      /\ w.private = s.private /\ w.loaded = s.loaded
      /\ w.users = s.users /\ w.guild = gd
      /\ \A h \in GuildIds : w.members[h]
           = IF h = g THEN s.members[h] \cup {p} ELSE s.members[h]
  <2>1. u \in ChatState
    BY <1>3
  <2>2. /\ w \in ChatState /\ w.online = u.online /\ w.normal = u.normal
        /\ w.private = u.private /\ w.loaded = u.loaded
        /\ w.users = u.users /\ w.guild = u.guild
        /\ \A h \in GuildIds : w.members[h]
             = IF h = g THEN u.members[h] \cup {p} ELSE u.members[h]
    BY <2>1, ChatAddMember, ZenonT(60)
  <2> QED BY <1>3, <2>2
<1> HIDE DEF w, old
<1>5. /\ s' \in ChatState /\ s'.online = s.online /\ s'.normal = s.normal
      /\ s'.private = s.private /\ s'.users = s.users /\ s'.guild = gd
      /\ \A h \in GuildIds : \A q \in s.members[h] : q = p \/ q \in s'.members[h]
      /\ \A h \in s.loaded : h \in s'.loaded \/ (h # g /\ s.members[h] \subseteq {p})
      /\ ng # none => p \in s'.members[ng]
  <2>1. CASE g \in GuildIds \ Recruits
    BY <1>2, <1>3, <2>1
  <2>2. CASE g \notin GuildIds \ Recruits
    <3>1. s' = Chat!RemoveMember(w, p, old)
      BY <1>2, <2>2
    <3>2. /\ s' \in ChatState /\ s'.online = w.online /\ s'.normal = w.normal
          /\ s'.private = w.private /\ s'.guild = w.guild /\ s'.users = w.users
          /\ \A h \in GuildIds : s'.members[h]
               = IF h = old THEN w.members[h] \ {p} ELSE w.members[h]
          /\ \A h \in w.loaded : h \in s'.loaded \/ (h = old /\ w.members[h] \subseteq {p})
      <4> DEFINE r == Chat!RemoveMember(w, p, old)
      <4>1. w \in ChatState /\ old \in GuildIds \cup {none}
        BY <1>1, <1>4
      <4>2. /\ r \in ChatState /\ r.online = w.online /\ r.normal = w.normal
            /\ r.private = w.private /\ r.guild = w.guild /\ r.users = w.users
        BY <4>1, ChatRemoveMember, ZenonT(60)
      <4>6. r.members = [h \in GuildIds |-> IF h = old THEN w.members[h] \ {p} ELSE w.members[h]]
        BY <4>1, ChatRemoveMember
      <4>4. ASSUME NEW h \in w.loaded
            PROVE  h \in r.loaded \/ (h = old /\ w.members[h] \subseteq {p})
        BY <4>1, ChatRemoveMember
      <4>3. s' = r
        BY <3>1
      <4> HIDE DEF r
      <4> QED BY <4>2, <4>3, <4>4, <4>6
    <3>3. s.loaded \subseteq GuildIds
      BY DEF ChatInv, Chat!TypeOK
    <3>4. ng = g
      BY <2>2
    <3>5. \A h \in GuildIds : \A q \in s.members[h] : q = p \/ q \in s'.members[h]
      BY <1>4, <3>2
    <3>6. ASSUME NEW h \in s.loaded, h \notin s'.loaded
          PROVE  h # g /\ s.members[h] \subseteq {p}
      <4>1. h \in GuildIds /\ h = old /\ w.members[h] \subseteq {p}
        BY <1>4, <3>2, <3>3, <3>6
      <4>2. s.members[h] \subseteq w.members[h]
        BY <1>4, <4>1
      <4> QED BY <1>1, <4>1, <4>2
    <3>7. g # none => p \in s'.members[g]
      BY <1>1, <1>4, <3>2
    <3> HIDE DEF ng
    <3> QED BY <1>4, <3>2, <3>4, <3>5, <3>6, <3>7
  <2> QED BY <2>1, <2>2
<1>6. ChatOwners' /\ ChatHeld' /\ s'.normal \subseteq s'.online
  BY <1>5 DEF ChatInv, ChatOwners, ChatHeld
<1>7. ChatGuilds'
  <2>1. ASSUME NEW q \in s'.online, s'.guild[q] # none
        PROVE  s'.guild[q] \in s'.loaded /\ q \in s'.members[s'.guild[q]]
    <3>1. CASE q = p
      BY <1>1, <1>5, <2>1, <3>1
    <3>2. CASE q # p
      <4>1. q \in s.online /\ q \in Many /\ s'.guild[q] = s.guild[q]
        BY <1>1, <1>5, <3>2 DEF ChatInv, Chat!TypeOK
      <4>2. s.guild[q] \in s.loaded /\ q \in s.members[s.guild[q]] /\ s.guild[q] \in GuildIds
        BY <2>1, <4>1 DEF ChatInv, ChatGuilds, Chat!TypeOK
      <4> QED BY <1>5, <3>2, <4>1, <4>2
    <3> QED BY <3>1, <3>2
  <2>2. \A h \in GuildIds : s'.users[h] \subseteq s'.online
    BY <1>5 DEF ChatInv, ChatGuilds
  <2> QED BY <2>1, <2>2 DEF ChatGuilds
<1> QED BY <1>5, <1>6, <1>7 DEF ChatInv, Chat!TypeOK, ChatState

LEMMA ChatStep == ChatInv /\ Chat!Next => ChatInv'
BY ChatCreate, ChatInvite, ChatExclude, ChatOpenPrivate, ChatClosePrivate, ChatNormal,
   ChatOpenGuild, ChatSetGuild, ChatLoadOffline, ChatLogin, ChatLogout, ChatReconnect
DEF Chat!Next, Chat!ChannelsNext, Chat!GuildsNext

LEMMA ChatStutter == ChatInv /\ s' = s => ChatInv'
BY DEF ChatInv, ChatOwners, ChatHeld, ChatGuilds, Chat!TypeOK

(* However players log in and out, are taken over, invite each other and     *)
(* change guilds: private channels are held by an owner in the game, nobody  *)
(* that is gone is in a channel, and no player points to a deleted guild.    *)
THEOREM ChatTiesAgree == Chat!Spec => [](Chat!TypeOK /\ Chat!PrivateChannelsHeld /\ Chat!GuildAlive)
<1>1. ChatInv => Chat!TypeOK /\ Chat!PrivateChannelsHeld /\ Chat!GuildAlive
  BY ChatHolds DEF ChatInv
<1>2. ChatInv /\ [Chat!Next]_s => ChatInv'
  BY ChatStep, ChatStutter
<1> QED BY <1>1, <1>2, ChatInit, PTL DEF Chat!Spec

-----------------------------------------------------------------------------
(* Lists on which nobody is twice *)

LEMMA InRange ==
  ASSUME NEW S, NEW q \in Seq(S), NEW x
  PROVE  x \in Party!Range(q) <=> \E i \in 1 .. Len(q) : q[i] = x
<1>1. DOMAIN q = 1 .. Len(q)
  OBVIOUS
<1>2. x \in Party!Range(q) <=> \E i \in DOMAIN q : q[i] = x
  BY DEF Party!Range
<1> QED BY <1>1, <1>2

(* What a list holds after erase(find(p)). *)
LEMMA WithoutOne ==
  ASSUME NEW S, NEW q \in Seq(S), Party!IsInjective(q), NEW p
  PROVE  /\ Party!Without(q, p) \in Seq(S) /\ Party!IsInjective(Party!Without(q, p))
         /\ Party!Range(Party!Without(q, p)) = Party!Range(q) \ {p}
<1>1. CASE p \notin Party!Range(q)
  <2>1. Party!Without(q, p) = q
    BY <1>1 DEF Party!Without
  <2> QED BY <1>1, <2>1
<1>2. CASE p \in Party!Range(q)
  <2>1. DOMAIN q = 1 .. Len(q) /\ Len(q) \in Nat
    OBVIOUS
  <2> DEFINE k == CHOOSE i \in DOMAIN q : q[i] = p
             r == SubSeq(q, 1, k - 1) \o SubSeq(q, k + 1, Len(q))
  <2>2. k \in 1 .. Len(q) /\ q[k] = p
    BY <1>2, <2>1 DEF Party!Range
  <2>3. Party!Without(q, p) = r
    BY <1>2 DEF Party!Without, Party!RemoveAt
  <2> HIDE DEF k
  <2>4. /\ r \in Seq(S) /\ Len(r) = Len(q) - 1 /\ DOMAIN r = 1 .. Len(q) - 1
        /\ \A i \in 1 .. Len(q) - 1 : r[i] = IF i < k THEN q[i] ELSE q[i + 1]
    <3>1. /\ SubSeq(q, 1, k - 1) \in Seq(S) /\ Len(SubSeq(q, 1, k - 1)) = k - 1
          /\ \A i \in 1 .. k - 1 : SubSeq(q, 1, k - 1)[i] = q[i]
      <4>1. 1 \in Int /\ k - 1 \in Int /\ \A i \in 1 .. k - 1 : q[i] \in S
        BY <2>1, <2>2
      <4>2. /\ SubSeq(q, 1, k - 1) \in Seq(S)
            /\ Len(SubSeq(q, 1, k - 1)) = IF 1 <= k - 1 THEN (k - 1) - 1 + 1 ELSE 0
            /\ \A i \in 1 .. (k - 1) - 1 + 1 : SubSeq(q, 1, k - 1)[i] = q[1 + i - 1]
        BY <4>1, SubSeqProperties
      <4> DEFINE b == SubSeq(q, 1, k - 1)
                 n == k - 1
      <4>3. /\ b \in Seq(S) /\ n \in Nat
            /\ Len(b) = IF 1 <= n THEN n - 1 + 1 ELSE 0
            /\ \A i \in 1 .. n - 1 + 1 : b[i] = q[1 + i - 1]
        BY <2>1, <2>2, <4>2
      <4> HIDE DEF b, n
      <4>4. n - 1 + 1 = n /\ Len(b) = n
        BY <4>3
      <4>5. \A i \in 1 .. n : 1 + i - 1 = i
        OBVIOUS
      <4>6. \A i \in 1 .. n : b[i] = q[1 + i - 1]
        BY ONLY <4>3, <4>4, Zenon
      <4>7. \A i \in 1 .. n : b[i] = q[i]
        BY ONLY <4>5, <4>6, Zenon
      <4> QED BY <4>3, <4>4, <4>7 DEF b, n
    <3>2. /\ SubSeq(q, k + 1, Len(q)) \in Seq(S) /\ Len(SubSeq(q, k + 1, Len(q))) = Len(q) - k
          /\ \A i \in 1 .. Len(q) - k : SubSeq(q, k + 1, Len(q))[i] = q[k + i]
      <4>1. k + 1 \in Int /\ Len(q) \in Int /\ \A i \in k + 1 .. Len(q) : q[i] \in S
        BY <2>1, <2>2
      <4>2. /\ SubSeq(q, k + 1, Len(q)) \in Seq(S)
            /\ Len(SubSeq(q, k + 1, Len(q)))
                 = IF k + 1 <= Len(q) THEN Len(q) - (k + 1) + 1 ELSE 0
            /\ \A i \in 1 .. Len(q) - (k + 1) + 1 :
                 SubSeq(q, k + 1, Len(q))[i] = q[(k + 1) + i - 1]
        BY <4>1, SubSeqProperties
      <4> DEFINE b == SubSeq(q, k + 1, Len(q))
                 n == Len(q)
      <4>3. /\ b \in Seq(S) /\ n \in Nat /\ k \in 1 .. n
            /\ Len(b) = IF k + 1 <= n THEN n - (k + 1) + 1 ELSE 0
            /\ \A i \in 1 .. n - (k + 1) + 1 : b[i] = q[(k + 1) + i - 1]
        BY <2>1, <2>2, <4>2
      <4> HIDE DEF b, n
      <4>4. n - (k + 1) + 1 = n - k /\ Len(b) = n - k
        BY <4>3
      <4>5. \A i \in 1 .. n - k : (k + 1) + i - 1 = k + i
        BY <4>3
      <4>6. \A i \in 1 .. n - k : b[i] = q[(k + 1) + i - 1]
        BY ONLY <4>3, <4>4, Zenon
      <4>7. \A i \in 1 .. n - k : b[i] = q[k + i]
        BY ONLY <4>5, <4>6, Zenon
      <4> QED BY <4>3, <4>4, <4>7, Zenon DEF b, n
    <3> DEFINE a == SubSeq(q, 1, k - 1)
               b == SubSeq(q, k + 1, Len(q))
    <3> HIDE DEF a, b
    <3>3. /\ a \in Seq(S) /\ b \in Seq(S) /\ Len(a) = k - 1 /\ Len(b) = Len(q) - k
          /\ \A i \in 1 .. k - 1 : a[i] = q[i]
          /\ \A i \in 1 .. Len(q) - k : b[i] = q[k + i]
      BY <3>1, <3>2 DEF a, b
    <3>4. /\ a \o b \in Seq(S) /\ Len(a \o b) = Len(q) - 1
          /\ \A i \in 1 .. Len(q) - 1 : (a \o b)[i] = IF i < k THEN q[i] ELSE q[i + 1]
      <4>1. /\ a \o b \in Seq(S) /\ Len(a \o b) = Len(a) + Len(b)
            /\ \A i \in 1 .. Len(a) + Len(b) : (a \o b)[i]
                 = IF i <= Len(a) THEN a[i] ELSE b[i - Len(a)]
        BY <3>3, ConcatProperties
      <4> DEFINE c == a \o b
      <4> HIDE DEF c
      <4>2. /\ c \in Seq(S) /\ Len(c) = Len(q) - 1
            /\ \A i \in 1 .. Len(q) - 1 : c[i] = IF i <= k - 1 THEN a[i] ELSE b[i - (k - 1)]
        BY <2>1, <2>2, <3>3, <4>1 DEF c
      <4>3. \A i \in 1 .. Len(q) - 1 : c[i] = IF i < k THEN q[i] ELSE q[i + 1]
        <5> SUFFICES ASSUME NEW i \in 1 .. Len(q) - 1
                     PROVE  c[i] = IF i < k THEN q[i] ELSE q[i + 1]
          OBVIOUS
        <5>1. CASE i < k
          BY <2>1, <2>2, <3>3, <4>2, <5>1
        <5>2. CASE i >= k
          <6>1. i - (k - 1) \in 1 .. Len(q) - k /\ k + (i - (k - 1)) = i + 1
            BY <2>1, <2>2, <5>2
          <6>2. c[i] = b[i - (k - 1)] /\ b[i - (k - 1)] = q[i + 1]
            BY <2>1, <2>2, <3>3, <4>2, <5>2, <6>1
          <6> QED BY <2>1, <2>2, <5>2, <6>2
        <5> QED BY <2>1, <2>2, <5>1, <5>2
      <4> QED BY <4>2, <4>3 DEF c
    <3>5. DOMAIN (a \o b) = 1 .. Len(q) - 1
      BY <3>4
    <3> QED BY <3>4, <3>5 DEF a, b
  <2> HIDE DEF r
  <2>5. Party!IsInjective(r)
    <3> SUFFICES ASSUME NEW i \in 1 .. Len(q) - 1, NEW j \in 1 .. Len(q) - 1, r[i] = r[j]
                 PROVE  i = j
      BY <2>4 DEF Party!IsInjective
    <3>1. \A m, n \in 1 .. Len(q) : q[m] = q[n] => m = n
      BY <2>1 DEF Party!IsInjective
    <3> DEFINE m == IF i < k THEN i ELSE i + 1
               n == IF j < k THEN j ELSE j + 1
    <3>2. m \in 1 .. Len(q) /\ n \in 1 .. Len(q) /\ q[m] = q[n]
      BY <2>1, <2>2, <2>4
    <3>3. m = n
      BY <3>1, <3>2
    <3> QED BY <2>1, <2>2, <3>3
  <2>6. Party!Range(r) = Party!Range(q) \ {p}
    <3>1. ASSUME NEW x \in Party!Range(r) PROVE x \in Party!Range(q) \ {p}
      <4>1. PICK i \in 1 .. Len(q) - 1 : x = r[i]
        BY <2>4 DEF Party!Range
      <4>2. CASE i < k
        BY <2>1, <2>2, <2>4, <4>1, <4>2 DEF Party!Range, Party!IsInjective
      <4>3. CASE ~(i < k)
        BY <2>1, <2>2, <2>4, <4>1, <4>3, SMTT(30) DEF Party!Range, Party!IsInjective
      <4> QED BY <4>2, <4>3
    <3>2. ASSUME NEW x \in Party!Range(q) \ {p} PROVE x \in Party!Range(r)
      <4>1. PICK i \in 1 .. Len(q) : x = q[i]
        BY <2>1 DEF Party!Range
      <4>2. i # k
        BY <2>2, <4>1
      <4>3. CASE i < k
        <5>1. i \in 1 .. Len(q) - 1 /\ r[i] = x
          BY <2>1, <2>2, <2>4, <4>1, <4>3
        <5> QED BY <2>4, <5>1 DEF Party!Range
      <4>4. CASE i > k
        <5>1. i - 1 \in 1 .. Len(q) - 1 /\ r[i - 1] = x
          BY <2>1, <2>2, <2>4, <4>1, <4>4
        <5> QED BY <2>4, <5>1 DEF Party!Range
      <4> QED BY <2>1, <2>2, <4>1, <4>2, <4>3, <4>4
    <3> QED BY <3>1, <3>2
  <2> QED BY <2>3, <2>4, <2>5, <2>6
<1> QED BY <1>1, <1>2

LEMMA AppendOne ==
  ASSUME NEW S, NEW q \in Seq(S), Party!IsInjective(q), NEW p \in S, p \notin Party!Range(q)
  PROVE  /\ Append(q, p) \in Seq(S) /\ Party!IsInjective(Append(q, p))
         /\ Party!Range(Append(q, p)) = Party!Range(q) \cup {p}
         /\ Append(q, p) # <<>>
<1> DEFINE r == Append(q, p)
<1>1. /\ r \in Seq(S) /\ Len(r) = Len(q) + 1 /\ DOMAIN r = 1 .. Len(q) + 1
      /\ \A i \in 1 .. Len(q) : r[i] = q[i]
      /\ r[Len(q) + 1] = p
      /\ Len(q) \in Nat /\ DOMAIN q = 1 .. Len(q)
  OBVIOUS
<1>2. r # <<>>
  BY <1>1
<1> HIDE DEF r
<1>3. Party!IsInjective(r)
  BY <1>1 DEF Party!IsInjective, Party!Range
<1>4. Party!Range(r) = Party!Range(q) \cup {p}
  <2>1. ASSUME NEW x \in Party!Range(r) PROVE x \in Party!Range(q) \cup {p}
    BY <1>1 DEF Party!Range
  <2>2. ASSUME NEW x \in Party!Range(q) PROVE x \in Party!Range(r)
    <3>1. PICK i \in 1 .. Len(q) : x = q[i]
      BY <1>1 DEF Party!Range
    <3> QED BY <1>1, <3>1 DEF Party!Range
  <2>3. p \in Party!Range(r)
    BY <1>1 DEF Party!Range
  <2> QED BY <2>1, <2>2, <2>3
<1> QED BY <1>1, <1>2, <1>3, <1>4 DEF r

(* A new first one. *)
LEMMA FirstOne ==
  ASSUME NEW S, NEW q \in Seq(S), Party!IsInjective(q), NEW p \in S, p \notin Party!Range(q)
  PROVE  /\ <<p>> \o q \in Seq(S) /\ Party!IsInjective(<<p>> \o q)
         /\ Party!Range(<<p>> \o q) = Party!Range(q) \cup {p}
         /\ <<p>> \o q # <<>>
<1> DEFINE r == <<p>> \o q
<1>1. /\ r \in Seq(S) /\ Len(r) = Len(q) + 1 /\ DOMAIN r = 1 .. Len(q) + 1
      /\ \A i \in 1 .. Len(q) : r[i + 1] = q[i]
      /\ r[1] = p
      /\ Len(q) \in Nat /\ DOMAIN q = 1 .. Len(q)
  OBVIOUS
<1>2. r # <<>>
  BY <1>1
<1> HIDE DEF r
<1>3. \A i \in 1 .. Len(q) + 1 : i = 1 \/ (i - 1 \in 1 .. Len(q) /\ r[i] = q[i - 1])
  <2> SUFFICES ASSUME NEW i \in 1 .. Len(q) + 1, i # 1
               PROVE  i - 1 \in 1 .. Len(q) /\ r[i] = q[i - 1]
    OBVIOUS
  <2>1. i - 1 \in 1 .. Len(q) /\ (i - 1) + 1 = i
    BY <1>1
  <2> QED BY <1>1, <2>1
<1>4. Party!IsInjective(r)
  <2> SUFFICES ASSUME NEW i \in 1 .. Len(q) + 1, NEW j \in 1 .. Len(q) + 1, r[i] = r[j]
               PROVE  i = j
    BY <1>1 DEF Party!IsInjective
  <2>1. \A m \in 1 .. Len(q) : q[m] # p
    BY <1>1 DEF Party!Range
  <2>2. \A m, n \in 1 .. Len(q) : q[m] = q[n] => m = n
    BY <1>1 DEF Party!IsInjective
  <2> QED BY <1>1, <1>3, <2>1, <2>2, SMTT(30)
<1>5. Party!Range(r) = Party!Range(q) \cup {p}
  <2>1. ASSUME NEW x \in Party!Range(r) PROVE x \in Party!Range(q) \cup {p}
    <3>1. PICK i \in 1 .. Len(q) + 1 : x = r[i]
      BY <1>1, InRange
    <3>2. x = p \/ \E j \in 1 .. Len(q) : q[j] = x
      BY <1>1, <1>3, <3>1
    <3> QED BY <3>2, InRange
  <2>2. ASSUME NEW x \in Party!Range(q) PROVE x \in Party!Range(r)
    <3>1. PICK i \in 1 .. Len(q) : x = q[i]
      BY <1>1 DEF Party!Range
    <3>2. i + 1 \in DOMAIN r /\ r[i + 1] = x
      BY <1>1, <3>1
    <3> QED BY <3>2 DEF Party!Range
  <2>3. p \in Party!Range(r)
    BY <1>1 DEF Party!Range
  <2> QED BY <2>1, <2>2, <2>3
<1> QED BY <1>1, <1>2, <1>4, <1>5 DEF r

LEMMA HeadOne ==
  ASSUME NEW S, NEW q \in Seq(S), q # <<>>
  PROVE  Head(q) \in S /\ Head(q) \in Party!Range(q)
<1>1. Len(q) \in Nat /\ Len(q) # 0 /\ DOMAIN q = 1 .. Len(q) /\ Head(q) = q[1]
  OBVIOUS
<1> QED BY <1>1 DEF Party!Range

LEMMA EmptyList ==
  ASSUME NEW S, NEW q \in Seq(S)
  PROVE  q = <<>> <=> Party!Range(q) = {}
<1>1. q = <<>> <=> Len(q) = 0
  OBVIOUS
<1>2. Len(q) \in Nat /\ DOMAIN q = 1 .. Len(q)
  OBVIOUS
<1>3. Len(q) = 0 <=> Party!Range(q) = {}
  <2>1. ASSUME Len(q) = 0 PROVE Party!Range(q) = {}
    <3> SUFFICES ASSUME NEW x \in Party!Range(q) PROVE FALSE
      OBVIOUS
    <3>1. PICK i \in 1 .. Len(q) : q[i] = x
      BY InRange
    <3> QED BY <1>2, <2>1, <3>1
  <2>2. ASSUME Len(q) # 0 PROVE q[1] \in Party!Range(q)
    BY <1>2, <2>2, InRange
  <2> QED BY <2>1, <2>2
<1> QED BY <1>1, <1>3

-----------------------------------------------------------------------------
(* Parties: what each function of party.cpp changes *)

PartyState == [party : [Few -> Party!PartyRec], player : [Many -> Party!PlayerRec]]

LEMMA PartyConstants == nobody \notin Many /\ none \notin Few
BY PlayersAssumption DEF Party!PartyAssumption

LEMMA NoPartyForIs ==
  ASSUME NEW t \in PartyState, NEW ps, NEW r, r = Party!NoPartyFor(t, ps)
  PROVE  /\ r \in PartyState /\ r.party = t.party
         /\ \A p \in Many : /\ r.player[p].online = t.player[p].online
                            /\ r.player[p].invitations = t.player[p].invitations
                            /\ r.player[p].party = IF p \in ps THEN none ELSE t.player[p].party
<1> DEFINE pl == [p \in Many |-> IF p \in ps THEN [t.player[p] EXCEPT !.party = none] ELSE t.player[p]]
<1>1. \A p \in Many : t.player[p] \in Party!PlayerRec
  BY DEF PartyState
<1>2. \A x \in Party!PlayerRec :
        /\ [x EXCEPT !.party = none] \in Party!PlayerRec
        /\ [x EXCEPT !.party = none].party = none
        /\ [x EXCEPT !.party = none].online = x.online
        /\ [x EXCEPT !.party = none].invitations = x.invitations
  BY DEF Party!PlayerRec
<1>3. /\ pl \in [Many -> Party!PlayerRec]
      /\ \A p \in Many : /\ pl[p].online = t.player[p].online
                         /\ pl[p].invitations = t.player[p].invitations
                         /\ pl[p].party = IF p \in ps THEN none ELSE t.player[p].party
  BY <1>1, <1>2
<1>4. r = [t EXCEPT !.player = pl]
  BY DEF Party!NoPartyFor
<1> HIDE DEF pl
<1>5. r \in PartyState /\ r.party = t.party /\ r.player = pl
  BY <1>3, <1>4 DEF PartyState
<1> QED BY <1>3, <1>5

LEMMA SendClosePrivateIs ==
  ASSUME NEW t \in PartyState, NEW ps, NEW r, r = Party!SendClosePrivate(t, ps)
  PROVE  /\ r \in PartyState /\ r.player = t.player
         /\ \A g \in Few : /\ r.party[g].leader = t.party[g].leader
                           /\ r.party[g].members = t.party[g].members
                           /\ r.party[g].invites = t.party[g].invites
                           /\ r.party[g].users \subseteq t.party[g].users
<1> DEFINE gone(g) == {p \in ps : t.player[p].party = g}
           pt == [g \in Few |-> [t.party[g] EXCEPT !.users = t.party[g].users \ gone(g)]]
<1>1. \A g \in Few : t.party[g] \in Party!PartyRec
  BY DEF PartyState
<1>2. \A x \in Party!PartyRec : \A U :
        /\ [x EXCEPT !.users = x.users \ U] \in Party!PartyRec
        /\ [x EXCEPT !.users = x.users \ U].leader = x.leader
        /\ [x EXCEPT !.users = x.users \ U].members = x.members
        /\ [x EXCEPT !.users = x.users \ U].invites = x.invites
        /\ [x EXCEPT !.users = x.users \ U].users \subseteq x.users
  BY DEF Party!PartyRec
<1>3. r = [t EXCEPT !.party = pt]
  BY DEF Party!SendClosePrivate
<1> HIDE DEF gone
<1>4. /\ pt \in [Few -> Party!PartyRec]
      /\ \A g \in Few : /\ pt[g].leader = t.party[g].leader
                        /\ pt[g].members = t.party[g].members
                        /\ pt[g].invites = t.party[g].invites
                        /\ pt[g].users \subseteq t.party[g].users
  BY <1>1, <1>2
<1> HIDE DEF pt
<1>5. r \in PartyState /\ r.party = pt /\ r.player = t.player
  BY <1>3, <1>4 DEF PartyState
<1> QED BY <1>4, <1>5

LEMMA RemoveInvitationsIs ==
  ASSUME NEW t \in PartyState, NEW gs, NEW r, r = Party!RemoveInvitations(t, gs)
  PROVE  /\ r \in PartyState /\ r.party = t.party
         /\ \A p \in Many :
              /\ r.player[p].online = t.player[p].online
              /\ r.player[p].party = t.player[p].party
              /\ r.player[p].invitations
                   = t.player[p].invitations \ {g \in gs : p \in t.party[g].invites}
<1> DEFINE off(p) == {g \in gs : p \in t.party[g].invites}
           pl == [p \in Many |-> [t.player[p] EXCEPT !.invitations = t.player[p].invitations \ off(p)]]
<1>1. \A p \in Many : t.player[p] \in Party!PlayerRec
  BY DEF PartyState
<1>2. \A x \in Party!PlayerRec : \A G :
        /\ [x EXCEPT !.invitations = x.invitations \ G] \in Party!PlayerRec
        /\ [x EXCEPT !.invitations = x.invitations \ G].party = x.party
        /\ [x EXCEPT !.invitations = x.invitations \ G].online = x.online
        /\ [x EXCEPT !.invitations = x.invitations \ G].invitations = x.invitations \ G
  BY DEF Party!PlayerRec
<1>3. r = [t EXCEPT !.player = pl]
  BY DEF Party!RemoveInvitations
<1> HIDE DEF off
<1>4. /\ pl \in [Many -> Party!PlayerRec]
      /\ \A p \in Many : /\ pl[p].online = t.player[p].online
                         /\ pl[p].party = t.player[p].party
                         /\ pl[p].invitations = t.player[p].invitations \ off(p)
  BY <1>1, <1>2
<1> HIDE DEF pl
<1>5. r \in PartyState /\ r.party = t.party /\ r.player = pl
  BY <1>3, <1>4 DEF PartyState
<1> QED BY <1>4, <1>5 DEF off

LEMMA DeletedIs ==
  ASSUME NEW t \in PartyState, NEW gs, NEW r, r = Party!Deleted(t, gs)
  PROVE  /\ r \in PartyState /\ r.player = t.player
         /\ \A g \in Few :
              /\ g \in gs => /\ r.party[g].leader = nobody /\ r.party[g].members = <<>>
                             /\ r.party[g].invites = {} /\ r.party[g].users = t.party[g].users
              /\ g \notin gs => r.party[g] = t.party[g]
<1> DEFINE out(g) == [Party!NoObject EXCEPT !.users = t.party[g].users]
           pt == [g \in Few |-> IF g \in gs THEN out(g) ELSE t.party[g]]
<1>1. \A g \in Few : t.party[g] \in Party!PartyRec
  BY DEF PartyState
<1>2. \A g \in Few : /\ out(g) \in Party!PartyRec
                     /\ out(g).leader = nobody /\ out(g).members = <<>>
                     /\ out(g).invites = {} /\ out(g).users = t.party[g].users
  <2>1. <<>> \in Seq(Many)
    OBVIOUS
  <2>2. \A g \in Few : t.party[g].users \in SUBSET Many
    BY <1>1 DEF Party!PartyRec
  <2> QED BY <2>1, <2>2 DEF Party!PartyRec, Party!NoObject
<1>3. r = [t EXCEPT !.party = pt]
  BY DEF Party!Deleted
<1> HIDE DEF out
<1>4. /\ pt \in [Few -> Party!PartyRec]
      /\ \A g \in Few : pt[g] = IF g \in gs THEN out(g) ELSE t.party[g]
  BY <1>1, <1>2
<1> HIDE DEF pt
<1>5. r \in PartyState /\ r.party = pt /\ r.player = t.player
  BY <1>3, <1>4 DEF PartyState
<1> QED BY <1>2, <1>4, <1>5

-----------------------------------------------------------------------------
(* Parties: what agrees in the state t while the parties of gs are about to   *)
(* be disbanded, or were.                                                    *)

PartyOwn(t, g) == Party!Members(t, g) \cup {t.party[g].leader}

PartyMates(t, gs) ==
  \A p \in Many, g \in Few :
    /\ t.player[p].party = g => p \in PartyOwn(t, g)
    /\ p \in PartyOwn(t, g) => t.player[p].party = g \/ (g \in gs /\ t.player[p].party = none)

PartyInvited(t) ==
  \A p \in Many, g \in Few : g \in t.player[p].invitations <=> p \in t.party[g].invites

PartyOnline(t) ==
  \A p \in Many, g \in Few :
    t.player[p].party = g \/ p \in t.party[g].invites \cup t.party[g].users
      => t.player[p].online

PartyLists(t, gs) ==
  \A g \in Few :
    /\ Party!IsInjective(t.party[g].members) /\ t.party[g].leader \notin Party!Members(t, g)
    /\ t.party[g].leader = nobody => Party!Empty(t, g)
    /\ Party!Empty(t, g) => t.party[g].leader = nobody \/ g \in gs

Tied(t, gs) == PartyMates(t, gs) /\ PartyInvited(t) /\ PartyOnline(t) /\ PartyLists(t, gs)

PartyInv == s \in PartyState /\ Tied(s, {})

LEMMA PartyHolds == PartyInv => Party!TypeOK /\ Party!PartyPaired /\ Party!ChannelUsersOnline
<1> SUFFICES ASSUME PartyInv PROVE Party!TypeOK /\ Party!PartyPaired /\ Party!ChannelUsersOnline
  OBVIOUS
<1>1. Party!TypeOK
  BY DEF PartyInv, PartyState, Party!TypeOK
<1>2. Party!ChannelUsersOnline
  <2>1. \A g \in Few : s.party[g].users \subseteq Many
    BY DEF PartyInv, PartyState, Party!PartyRec
  <2> QED BY <2>1 DEF PartyInv, Tied, PartyOnline, Party!ChannelUsersOnline, Party!Online
<1>3. Party!PartyPaired
  BY DEF PartyInv, Tied, PartyMates, PartyInvited, PartyOnline, PartyLists, PartyOwn,
     Party!PartyPaired, Party!PartyOf, Party!Online
<1> QED BY <1>1, <1>2, <1>3

LEMMA EmptyOne ==
  /\ <<>> \in Seq(Many) /\ Party!IsInjective(<<>>) /\ Party!Range(<<>>) = {}
<1>1. <<>> \in Seq(Many)
  OBVIOUS
<1>2. Party!Range(<<>>) = {}
  BY <1>1, EmptyList
<1>3. Party!IsInjective(<<>>)
  BY DEF Party!IsInjective
<1> QED BY <1>1, <1>2, <1>3

LEMMA PartyInit == Party!Init => PartyInv
<1> SUFFICES ASSUME Party!Init PROVE PartyInv
  OBVIOUS
<1>1. /\ s = [party |-> [g \in Few |-> Party!NoObject], player |-> [p \in Many |-> Party!Absent]]
  BY DEF Party!Init
<1>2. Party!NoObject \in Party!PartyRec /\ Party!Absent \in Party!PlayerRec
  BY EmptyOne DEF Party!NoObject, Party!Absent, Party!PartyRec, Party!PlayerRec
<1>3. s \in PartyState
  BY <1>1, <1>2 DEF PartyState
<1>4. /\ \A g \in Few : /\ s.party[g].leader = nobody /\ s.party[g].members = <<>>
                        /\ s.party[g].invites = {} /\ s.party[g].users = {}
      /\ \A p \in Many : s.player[p].party = none /\ s.player[p].invitations = {}
  BY <1>1 DEF Party!NoObject, Party!Absent
<1>5. \A g \in Few : Party!Members(s, g) = {} /\ Party!Empty(s, g)
  BY <1>4, EmptyOne DEF Party!Members, Party!Empty
<1>6. PartyMates(s, {})
  BY <1>4, <1>5, PartyConstants DEF PartyMates, PartyOwn
<1>7. PartyInvited(s) /\ PartyOnline(s)
  BY <1>4, PartyConstants DEF PartyInvited, PartyOnline
<1>8. PartyLists(s, {})
  BY <1>4, <1>5, EmptyOne DEF PartyLists
<1> QED BY <1>3, <1>6, <1>7, <1>8 DEF PartyInv, Tied

(* A party whose record keeps its lists keeps its members. *)
LEMMA SameMembers ==
  ASSUME NEW t, NEW r, NEW g,
         r.party[g].leader = t.party[g].leader, r.party[g].members = t.party[g].members
  PROVE  Party!Members(r, g) = Party!Members(t, g) /\ PartyOwn(r, g) = PartyOwn(t, g)
BY DEF Party!Members, PartyOwn

(* Party::disband leaves what it has to: nobody points to what is deleted.   *)
LEMMA DisbandKeeps ==
  ASSUME NEW t \in PartyState, NEW gs \in SUBSET Few, Tied(t, gs),
         NEW r, r = Party!Disband(t, gs)
  PROVE  /\ r \in PartyState /\ Tied(r, {})
         /\ \A g \in Few : r.party[g].invites \subseteq t.party[g].invites
         /\ \A p \in Many : /\ r.player[p].online = t.player[p].online
                            /\ r.player[p].party \in {t.player[p].party, none}
<1> DEFINE all == UNION {Party!Members(t, g) \cup {t.party[g].leader} : g \in gs}
           u == Party!NoPartyFor(t, all)
           v == Party!SendClosePrivate(u, all)
           w == Party!RemoveInvitations(v, gs)
<1>1. r = Party!Deleted(w, gs)
  BY DEF Party!Disband
<1>2. \A p \in Many : p \in all <=> \E g \in gs : p \in PartyOwn(t, g)
  BY DEF PartyOwn
<1> HIDE DEF all
<1>3. /\ u \in PartyState /\ u.party = t.party
      /\ \A p \in Many : /\ u.player[p].online = t.player[p].online
                         /\ u.player[p].invitations = t.player[p].invitations
                         /\ u.player[p].party = IF p \in all THEN none ELSE t.player[p].party
  BY NoPartyForIs
<1> HIDE DEF u
<1>4. /\ v \in PartyState /\ v.player = u.player
      /\ \A g \in Few : /\ v.party[g].leader = u.party[g].leader
                        /\ v.party[g].members = u.party[g].members
                        /\ v.party[g].invites = u.party[g].invites
                        /\ v.party[g].users \subseteq u.party[g].users
  BY <1>3, SendClosePrivateIs
<1> HIDE DEF v
<1>5. /\ w \in PartyState /\ w.party = v.party
      /\ \A p \in Many :
           /\ w.player[p].online = v.player[p].online
           /\ w.player[p].party = v.player[p].party
           /\ w.player[p].invitations
                = v.player[p].invitations \ {g \in gs : p \in v.party[g].invites}
  BY <1>4, RemoveInvitationsIs
<1> HIDE DEF w
<1>6. /\ r \in PartyState /\ r.player = w.player
      /\ \A g \in Few :
           /\ g \in gs => /\ r.party[g].leader = nobody /\ r.party[g].members = <<>>
                          /\ r.party[g].invites = {} /\ r.party[g].users = w.party[g].users
           /\ g \notin gs => r.party[g] = w.party[g]
  BY <1>1, <1>5, DeletedIs
(* What is left, party by party and player by player. *)
<1>7. \A g \in Few :
        /\ g \in gs => /\ r.party[g].leader = nobody /\ r.party[g].members = <<>>
                       /\ r.party[g].invites = {}
        /\ g \notin gs => /\ r.party[g].leader = t.party[g].leader
                          /\ r.party[g].members = t.party[g].members
                          /\ r.party[g].invites = t.party[g].invites
        /\ r.party[g].users \subseteq t.party[g].users
  BY <1>3, <1>4, <1>5, <1>6
<1>8. \A p \in Many :
        /\ r.player[p].online = t.player[p].online
        /\ r.player[p].party = IF p \in all THEN none ELSE t.player[p].party
        /\ r.player[p].invitations = t.player[p].invitations \ {g \in gs : p \in t.party[g].invites}
  <2>1. \A p \in Many : {g \in gs : p \in v.party[g].invites} = {g \in gs : p \in t.party[g].invites}
    BY <1>3, <1>4
  <2> QED BY <1>3, <1>4, <1>5, <1>6, <2>1
<1>9. \A g \in Few :
        /\ g \in gs => Party!Members(r, g) = {} /\ PartyOwn(r, g) = {nobody} /\ Party!Empty(r, g)
        /\ g \notin gs => /\ Party!Members(r, g) = Party!Members(t, g)
                          /\ PartyOwn(r, g) = PartyOwn(t, g)
                          /\ Party!Empty(r, g) = Party!Empty(t, g)
  BY <1>7, EmptyOne DEF Party!Members, PartyOwn, Party!Empty
<1>10. PartyMates(r, {})
  <2> SUFFICES ASSUME NEW p \in Many, NEW g \in Few
               PROVE  /\ r.player[p].party = g => p \in PartyOwn(r, g)
                      /\ p \in PartyOwn(r, g) => r.player[p].party = g
    BY DEF PartyMates
  <2>1. /\ t.player[p].party = g => p \in PartyOwn(t, g)
        /\ \A h \in Few : p \in PartyOwn(t, h)
             => t.player[p].party = h \/ (h \in gs /\ t.player[p].party = none)
    BY DEF Tied, PartyMates
  <2>2. p # nobody /\ g # none
    BY PartyConstants
  <2>3. ASSUME r.player[p].party = g PROVE p \in PartyOwn(r, g)
    <3>1. p \notin all /\ t.player[p].party = g
      BY <1>8, <2>2, <2>3
    <3>2. p \in PartyOwn(t, g) /\ g \notin gs
      BY <1>2, <2>1, <3>1
    <3> QED BY <1>9, <3>2
  <2>4. ASSUME p \in PartyOwn(r, g) PROVE r.player[p].party = g
    <3>1. g \notin gs /\ p \in PartyOwn(t, g)
      BY <1>9, <2>2, <2>4
    <3>2. t.player[p].party = g
      BY <2>1, <3>1
    <3>3. p \notin all
      BY <1>2, <2>1, <2>2, <3>1, <3>2
    <3> QED BY <1>8, <3>2, <3>3
  <2> QED BY <2>3, <2>4
<1>11. PartyInvited(r)
  BY <1>7, <1>8 DEF Tied, PartyInvited
<1>12. PartyOnline(r)
  <2> SUFFICES ASSUME NEW p \in Many, NEW g \in Few,
                      r.player[p].party = g \/ p \in r.party[g].invites \cup r.party[g].users
               PROVE  t.player[p].online
    BY <1>8 DEF PartyOnline
  <2>1. t.player[p].party = g \/ p \in t.party[g].invites \cup t.party[g].users
    BY <1>7, <1>8, PartyConstants
  <2> QED BY <2>1 DEF Tied, PartyOnline
<1>13. PartyLists(r, {})
  BY <1>7, <1>9, EmptyOne DEF Tied, PartyLists
<1>14. \A g \in Few : r.party[g].invites \subseteq t.party[g].invites
  BY <1>7
<1> QED BY <1>6, <1>8, <1>10, <1>11, <1>12, <1>13, <1>14 DEF Tied

LEMMA PassLeadershipKeeps ==
  ASSUME NEW t \in PartyState, Tied(t, {}), NEW g \in Few, NEW p \in Many,
         NEW r, r = Party!PassLeadership(t, g, p)
  PROVE  /\ r \in PartyState /\ Tied(r, {}) /\ r.player = t.player
         /\ \A h \in Few : PartyOwn(r, h) = PartyOwn(t, h) /\ r.party[h].invites = t.party[h].invites
         /\ t.player[p].party = g => r.party[g].leader = p
<1>1. CASE p = t.party[g].leader \/ t.player[p].party # g
  BY <1>1 DEF Party!PassLeadership
<1>2. CASE p # t.party[g].leader /\ t.player[p].party = g
  <2> DEFINE old == t.party[g]
             mem == <<old.leader>> \o Party!Without(old.members, p)
             x == [old EXCEPT !.members = mem, !.leader = p]
             pt == [t.party EXCEPT ![g] = x]
  <2>1. old \in Party!PartyRec /\ old.members \in Seq(Many)
    BY DEF PartyState, Party!PartyRec
  <2>2. /\ p \in Party!Range(old.members) /\ Party!IsInjective(old.members)
        /\ old.leader \notin Party!Range(old.members)
    BY <1>2 DEF Tied, PartyMates, PartyLists, PartyOwn, Party!Members
  <2>3. old.leader \in Many
    <3>1. old.members # <<>>
      BY <2>2, EmptyOne
    <3>2. old.leader # nobody
      BY <3>1 DEF Tied, PartyLists, Party!Empty
    <3> QED BY <2>1, <3>2 DEF Party!PartyRec
  <2> DEFINE rest == Party!Without(old.members, p)
  <2>4. rest \in Seq(Many) /\ Party!IsInjective(rest) /\ Party!Range(rest) = Party!Range(old.members) \ {p}
    BY <2>1, <2>2, WithoutOne
  <2>5. /\ mem \in Seq(Many) /\ Party!IsInjective(mem) /\ mem # <<>>
        /\ Party!Range(mem) = (Party!Range(old.members) \ {p}) \cup {old.leader}
    <3> DEFINE q == rest
    <3>1. /\ q \in Seq(Many) /\ Party!IsInjective(q) /\ old.leader \notin Party!Range(q)
          /\ Party!Range(q) = Party!Range(old.members) \ {p}
      BY <2>2, <2>4
    <3>2. mem = <<old.leader>> \o q
      OBVIOUS
    <3> HIDE DEF q, mem
    <3> QED BY <2>3, <3>1, <3>2, FirstOne
  <2> HIDE DEF mem, rest
  <2>6. /\ x \in Party!PartyRec /\ x.leader = p /\ x.members = mem
        /\ x.invites = old.invites /\ x.users = old.users
    BY <2>1, <2>5 DEF Party!PartyRec
  <2>7. r = [t EXCEPT !.party = pt]
    BY <1>2, ZenonT(40) DEF Party!PassLeadership, mem
  <2> HIDE DEF x
  <2>8. /\ pt \in [Few -> Party!PartyRec] /\ pt[g] = x
        /\ \A h \in Few \ {g} : pt[h] = t.party[h]
    BY <2>6 DEF PartyState
  <2> HIDE DEF pt
  <2>9. r \in PartyState /\ r.party = pt /\ r.player = t.player
    BY <2>7, <2>8 DEF PartyState
  <2>10. \A h \in Few : /\ PartyOwn(r, h) = PartyOwn(t, h)
                        /\ r.party[h].invites = t.party[h].invites
                        /\ r.party[h].users = t.party[h].users
    <3> SUFFICES ASSUME NEW h \in Few
                 PROVE  /\ PartyOwn(r, h) = PartyOwn(t, h)
                        /\ r.party[h].invites = t.party[h].invites
                        /\ r.party[h].users = t.party[h].users
      OBVIOUS
    <3>1. CASE h = g
      BY <2>2, <2>5, <2>6, <2>8, <2>9, <3>1 DEF PartyOwn, Party!Members
    <3>2. CASE h # g
      BY <2>8, <2>9, <3>2 DEF PartyOwn, Party!Members
    <3> QED BY <3>1, <3>2
  <2>11. PartyMates(r, {}) /\ PartyInvited(r) /\ PartyOnline(r)
    BY <2>9, <2>10 DEF Tied, PartyMates, PartyInvited, PartyOnline
  <2>12. PartyLists(r, {})
    <3> SUFFICES ASSUME NEW h \in Few
                 PROVE  /\ Party!IsInjective(r.party[h].members)
                        /\ r.party[h].leader \notin Party!Members(r, h)
                        /\ r.party[h].leader = nobody => Party!Empty(r, h)
                        /\ Party!Empty(r, h) => r.party[h].leader = nobody
      BY DEF PartyLists
    <3>1. CASE h = g
      <4>1. r.party[g].members = mem /\ r.party[g].leader = p /\ p # nobody
        BY <2>6, <2>8, <2>9, PartyConstants
      <4>2. p \notin Party!Range(mem)
        BY <1>2, <2>5
      <4> QED BY <2>5, <3>1, <4>1, <4>2 DEF Party!Members, Party!Empty
    <3>2. CASE h # g
      <4>1. r.party[h] = t.party[h]
        BY <2>8, <2>9, <3>2
      <4> QED BY <4>1 DEF Tied, PartyLists, Party!Members, Party!Empty
    <3> QED BY <3>1, <3>2
  <2>13. r.party[g].leader = p
    BY <2>6, <2>8, <2>9
  <2> QED BY <2>9, <2>10, <2>11, <2>12, <2>13 DEF Tied
<1> QED BY <1>1, <1>2

(* A member is taken off the list, and its party off the member. *)
TakenOff(t, g, p) == [t EXCEPT !.party[g].members = Party!Without(@, p), !.player[p].party = none]

LEMMA TakenOffIs ==
  ASSUME NEW t \in PartyState, NEW g \in Few, NEW p \in Many, Party!IsInjective(t.party[g].members),
         NEW r, r = TakenOff(t, g, p)
  PROVE  /\ r \in PartyState
         /\ Party!IsInjective(r.party[g].members)
         /\ Party!Members(r, g) = Party!Members(t, g) \ {p}
         /\ \A h \in Few : /\ r.party[h].leader = t.party[h].leader
                           /\ r.party[h].invites = t.party[h].invites
                           /\ r.party[h].users = t.party[h].users
         /\ \A h \in Few \ {g} : r.party[h] = t.party[h]
         /\ \A q \in Many : /\ r.player[q].online = t.player[q].online
                            /\ r.player[q].invitations = t.player[q].invitations
         /\ r.player[p].party = none
         /\ \A q \in Many \ {p} : r.player[q].party = t.player[q].party
<1> DEFINE mem == Party!Without(t.party[g].members, p)
           x == [t.party[g] EXCEPT !.members = mem]
           y == [t.player[p] EXCEPT !.party = none]
           pt == [t.party EXCEPT ![g] = x]
           pl == [t.player EXCEPT ![p] = y]
<1>1. t.party[g] \in Party!PartyRec /\ t.party[g].members \in Seq(Many) /\ t.player[p] \in Party!PlayerRec
  BY DEF PartyState, Party!PartyRec
<1>2. /\ mem \in Seq(Many) /\ Party!IsInjective(mem)
      /\ Party!Range(mem) = Party!Range(t.party[g].members) \ {p}
  BY <1>1, WithoutOne
<1> HIDE DEF mem
<1>3. /\ x \in Party!PartyRec /\ x.leader = t.party[g].leader /\ x.members = mem
      /\ x.invites = t.party[g].invites /\ x.users = t.party[g].users
  BY <1>1, <1>2 DEF Party!PartyRec
<1>4. /\ y \in Party!PlayerRec /\ y.online = t.player[p].online
      /\ y.invitations = t.player[p].invitations /\ y.party = none
  BY <1>1 DEF Party!PlayerRec
<1>5. r = [t EXCEPT !.party = pt, !.player = pl]
  BY DEF TakenOff, mem
<1> HIDE DEF x, y
<1>6. /\ pt \in [Few -> Party!PartyRec] /\ pt[g] = x
      /\ \A h \in Few \ {g} : pt[h] = t.party[h]
      /\ pl \in [Many -> Party!PlayerRec] /\ pl[p] = y
      /\ \A q \in Many \ {p} : pl[q] = t.player[q]
  BY <1>3, <1>4 DEF PartyState
<1> HIDE DEF pt, pl
<1>7. r \in PartyState /\ r.party = pt /\ r.player = pl
  BY <1>5, <1>6 DEF PartyState
<1> QED BY <1>2, <1>3, <1>4, <1>6, <1>7 DEF Party!Members

LEMMA LeavePartyKeeps ==
  ASSUME NEW t \in PartyState, Tied(t, {}), NEW g \in Few, NEW p \in Many,
         t.player[p].party = g, NEW r, r = Party!LeaveParty(t, g, p)
  PROVE  /\ r \in PartyState /\ Tied(r, {}) /\ r.player[p].party = none
         /\ \A h \in Few : r.party[h].invites \subseteq t.party[h].invites
         /\ \A q \in Many : r.player[q].online = t.player[q].online
<1> DEFINE missing == Party!LeavesNoLeader(t, g, p)
           head == Head(t.party[g].members)
           passed == IF t.party[g].leader = p /\ ~missing
                     THEN Party!PassLeadership(t, g, head) ELSE t
           out == TakenOff(passed, g, p)
           closed == Party!SendClosePrivate(out, {p})
<1>1. r = IF missing \/ Party!Empty(closed, g) THEN Party!Disband(closed, {g}) ELSE closed
  BY DEF Party!LeaveParty, TakenOff
<1>2. /\ passed \in PartyState /\ Tied(passed, {}) /\ passed.player = t.player
      /\ \A h \in Few : /\ PartyOwn(passed, h) = PartyOwn(t, h)
                        /\ passed.party[h].invites = t.party[h].invites
      /\ passed.party[g].leader # p \/ missing
  <2>1. CASE t.party[g].leader = p /\ ~missing
    <3>1. t.party[g].members \in Seq(Many) /\ t.party[g].members # <<>>
      BY <2>1 DEF PartyState, Party!PartyRec, Party!LeavesNoLeader
    <3>2. head \in Many /\ head \in Party!Members(t, g)
      BY <3>1, HeadOne DEF Party!Members
    <3>3. t.player[head].party = g /\ head # p
      BY <2>1, <3>2 DEF Tied, PartyMates, PartyLists, PartyOwn
    <3>4. passed = Party!PassLeadership(t, g, head)
      BY <2>1
    <3> HIDE DEF head, missing, passed
    <3> QED BY <3>2, <3>3, <3>4, PassLeadershipKeeps
  <2>2. CASE ~(t.party[g].leader = p /\ ~missing)
    <3>1. passed = t
      BY <2>2
    <3> HIDE DEF missing, passed
    <3> QED BY <2>2, <3>1
  <2> QED BY <2>1, <2>2
<1> HIDE DEF missing, head, passed
<1>3. /\ p \in PartyOwn(passed, g) /\ passed.player[p].party = g
      /\ Party!IsInjective(passed.party[g].members)
      /\ passed.party[g].leader \notin Party!Members(passed, g)
      /\ passed.party[g].leader # nobody
  <2>1. p \in PartyOwn(passed, g) /\ passed.player[p].party = g
    BY <1>2 DEF Tied, PartyMates
  <2>2. p # nobody
    BY PartyConstants
  <2>3. passed.party[g].leader = nobody => Party!Members(passed, g) = {}
    BY <1>2, EmptyOne DEF Tied, PartyLists, Party!Empty, Party!Members
  <2> QED BY <1>2, <2>1, <2>2, <2>3 DEF Tied, PartyLists, PartyOwn
<1>4. /\ out \in PartyState
      /\ Party!IsInjective(out.party[g].members)
      /\ Party!Members(out, g) = Party!Members(passed, g) \ {p}
      /\ \A h \in Few : /\ out.party[h].leader = passed.party[h].leader
                        /\ out.party[h].invites = passed.party[h].invites
                        /\ out.party[h].users = passed.party[h].users
      /\ \A h \in Few \ {g} : out.party[h] = passed.party[h]
      /\ \A q \in Many : /\ out.player[q].online = passed.player[q].online
                         /\ out.player[q].invitations = passed.player[q].invitations
      /\ out.player[p].party = none
      /\ \A q \in Many \ {p} : out.player[q].party = passed.player[q].party
  BY <1>2, <1>3, TakenOffIs
<1> HIDE DEF out
<1>5. /\ closed \in PartyState /\ closed.player = out.player
      /\ \A h \in Few : /\ closed.party[h].leader = out.party[h].leader
                        /\ closed.party[h].members = out.party[h].members
                        /\ closed.party[h].invites = out.party[h].invites
                        /\ closed.party[h].users \subseteq out.party[h].users
  BY <1>4, SendClosePrivateIs
<1> HIDE DEF closed
<1> DEFINE gs == IF missing \/ Party!Empty(closed, g) THEN {g} ELSE {}
<1>6. /\ Party!Members(closed, g) = Party!Members(passed, g) \ {p}
      /\ \A h \in Few \ {g} : /\ Party!Members(closed, h) = Party!Members(passed, h)
                              /\ Party!Empty(closed, h) = Party!Empty(passed, h)
  BY <1>4, <1>5 DEF Party!Members, Party!Empty
<1>7. PartyMates(closed, gs)
  <2> SUFFICES ASSUME NEW q \in Many, NEW h \in Few
               PROVE  /\ closed.player[q].party = h => q \in PartyOwn(closed, h)
                      /\ q \in PartyOwn(closed, h)
                           => closed.player[q].party = h \/ (h \in gs /\ closed.player[q].party = none)
    BY DEF PartyMates
  <2> HIDE DEF gs
  <2>1. passed.player[q].party = h <=> q \in PartyOwn(passed, h)
    BY <1>2 DEF Tied, PartyMates
  <2>2. none # h
    BY PartyConstants
  <2>3. CASE q = p
    <3>1. closed.player[q].party = none
      BY <1>4, <1>5, <2>3
    <3>2. q \in PartyOwn(closed, h) => h = g
      <4>1. CASE h # g
        <5>1. PartyOwn(closed, h) = PartyOwn(passed, h)
          BY <1>4, <1>5, <1>6, <4>1 DEF PartyOwn
        <5> QED BY <1>3, <2>1, <2>3, <4>1, <5>1
      <4> QED BY <4>1
    <3>3. q \in PartyOwn(closed, g) => missing
      BY <1>2, <1>4, <1>5, <1>6, <2>3 DEF PartyOwn
    <3>4. missing => g \in gs
      BY DEF gs
    <3> QED BY <2>2, <3>1, <3>2, <3>3, <3>4
  <2>4. CASE q # p
    <3>1. closed.player[q].party = passed.player[q].party
      BY <1>4, <1>5, <2>4
    <3>2. q \in PartyOwn(closed, h) <=> q \in PartyOwn(passed, h)
      BY <1>4, <1>5, <1>6, <2>4 DEF PartyOwn
    <3> QED BY <2>1, <3>1, <3>2
  <2> QED BY <2>3, <2>4
<1>8. PartyInvited(closed)
  BY <1>2, <1>4, <1>5 DEF Tied, PartyInvited
<1>9. PartyOnline(closed)
  <2> SUFFICES ASSUME NEW q \in Many, NEW h \in Few,
                      closed.player[q].party = h \/ q \in closed.party[h].invites \cup closed.party[h].users
               PROVE  closed.player[q].online
    BY DEF PartyOnline
  <2>1. passed.player[q].party = h \/ q \in passed.party[h].invites \cup passed.party[h].users
    BY <1>4, <1>5, PartyConstants
  <2>2. passed.player[q].online
    BY <1>2, <2>1 DEF Tied, PartyOnline
  <2> QED BY <1>4, <1>5, <2>2
<1>10. PartyLists(closed, gs)
  <2> SUFFICES ASSUME NEW h \in Few
               PROVE  /\ Party!IsInjective(closed.party[h].members)
                      /\ closed.party[h].leader \notin Party!Members(closed, h)
                      /\ closed.party[h].leader = nobody => Party!Empty(closed, h)
                      /\ Party!Empty(closed, h) => closed.party[h].leader = nobody \/ h \in gs
    BY DEF PartyLists
  <2>1. CASE h = g
    BY <1>3, <1>4, <1>5, <1>6, <2>1
  <2>2. CASE h # g
    <3>1. /\ closed.party[h].leader = passed.party[h].leader
          /\ closed.party[h].members = passed.party[h].members
      BY <1>4, <1>5, <2>2
    <3> HIDE DEF gs
    <3> QED BY <1>2, <1>6, <2>2, <3>1 DEF Tied, PartyLists
  <2> QED BY <2>1, <2>2
<1>11. Tied(closed, gs) /\ gs \in SUBSET Few
  BY <1>7, <1>8, <1>9, <1>10 DEF Tied
<1>12. CASE gs = {g}
  <2>1. r = Party!Disband(closed, gs)
    BY <1>1, <1>12
  <2> HIDE DEF gs
  <2>2. /\ r \in PartyState /\ Tied(r, {})
        /\ \A h \in Few : r.party[h].invites \subseteq closed.party[h].invites
        /\ \A q \in Many : /\ r.player[q].online = closed.player[q].online
                           /\ r.player[q].party \in {closed.player[q].party, none}
    BY <1>5, <1>11, <2>1, DisbandKeeps
  <2> QED BY <1>2, <1>4, <1>5, <2>2
<1>13. CASE gs = {}
  <2>1. r = closed
    BY <1>1, <1>13
  <2> HIDE DEF gs
  <2> QED BY <1>2, <1>4, <1>5, <1>11, <1>13, <2>1
<1> QED BY <1>12, <1>13

(* From t to r, p is invited by no party of gs any more, and nobody is        *)
(* invited or gets a party.                                                  *)
InviteGone(t, r, gs, p) ==
  /\ \A h \in gs : p \notin r.party[h].invites
  /\ \A h \in Few : r.party[h].invites \subseteq t.party[h].invites
  /\ \A q \in Many : /\ r.player[q].online = t.player[q].online
                     /\ r.player[q].party \in {t.player[q].party, none}

(* Party::removeInvite: a party that is empty without the invitation goes.   *)
LEMMA RemoveInviteKeeps ==
  ASSUME NEW t \in PartyState, Tied(t, {}), NEW gs \in SUBSET Few, NEW p \in Many,
         NEW r, r = Party!RemoveInvite(t, gs, p)
  PROVE  r \in PartyState /\ Tied(r, {}) /\ InviteGone(t, r, gs, p)
<1> DEFINE by == {g \in gs : p \in t.party[g].invites}
           less(g) == [t.party[g] EXCEPT !.invites = t.party[g].invites \ {p}]
           pt == [g \in Few |-> IF g \in by THEN less(g) ELSE t.party[g]]
           y == [t.player[p] EXCEPT !.invitations = t.player[p].invitations \ by]
           pl == [t.player EXCEPT ![p] = y]
           out == [t EXCEPT !.party = pt, !.player = pl]
           es == {g \in by : Party!Empty(out, g)}
<1>1. r = Party!Disband(out, es)
  BY DEF Party!RemoveInvite
<1>2. \A g \in Few : t.party[g] \in Party!PartyRec
  BY DEF PartyState
<1>3. \A g \in Few : /\ less(g) \in Party!PartyRec
                     /\ less(g).leader = t.party[g].leader /\ less(g).members = t.party[g].members
                     /\ less(g).invites = t.party[g].invites \ {p} /\ less(g).users = t.party[g].users
  BY <1>2 DEF Party!PartyRec
<1>4. /\ y \in Party!PlayerRec /\ y.online = t.player[p].online /\ y.party = t.player[p].party
      /\ y.invitations = t.player[p].invitations \ by
  BY DEF PartyState, Party!PlayerRec
<1> HIDE DEF less, y
<1>5. /\ pt \in [Few -> Party!PartyRec]
      /\ \A g \in Few : pt[g] = IF g \in by THEN less(g) ELSE t.party[g]
      /\ pl \in [Many -> Party!PlayerRec] /\ pl[p] = y
      /\ \A q \in Many \ {p} : pl[q] = t.player[q]
  BY <1>2, <1>3, <1>4 DEF PartyState
<1> HIDE DEF pt, pl
<1>6. out \in PartyState /\ out.party = pt /\ out.player = pl
  BY <1>5 DEF PartyState
<1>7. es \in SUBSET Few /\ \A g \in Few : g \in es <=> g \in by /\ Party!Empty(out, g)
  OBVIOUS
<1> HIDE DEF out, es
<1>8. /\ \A g \in Few : /\ out.party[g].leader = t.party[g].leader
                        /\ out.party[g].members = t.party[g].members
                        /\ out.party[g].users = t.party[g].users
                        /\ g \in by => out.party[g].invites = t.party[g].invites \ {p}
                        /\ g \notin by => out.party[g].invites = t.party[g].invites
      /\ \A q \in Many : /\ out.player[q].online = t.player[q].online
                         /\ out.player[q].party = t.player[q].party
                         /\ q # p => out.player[q].invitations = t.player[q].invitations
      /\ out.player[p].invitations = t.player[p].invitations \ by
  BY <1>3, <1>4, <1>5, <1>6
<1>9. \A g \in Few : Party!Members(out, g) = Party!Members(t, g) /\ PartyOwn(out, g) = PartyOwn(t, g)
  BY <1>8, SameMembers
<1>10. PartyMates(out, es)
  BY <1>8, <1>9 DEF Tied, PartyMates
<1>11. PartyInvited(out)
  <2> SUFFICES ASSUME NEW q \in Many, NEW g \in Few
               PROVE  g \in out.player[q].invitations <=> q \in out.party[g].invites
    BY DEF PartyInvited
  <2>1. g \in t.player[q].invitations <=> q \in t.party[g].invites
    BY DEF Tied, PartyInvited
  <2> HIDE DEF by
  <2>2. CASE g \in by
    BY <1>8, <2>1, <2>2
  <2>3. CASE g \notin by
    BY <1>8, <2>1, <2>3
  <2> QED BY <2>2, <2>3
<1>12. PartyOnline(out)
  <2> SUFFICES ASSUME NEW q \in Many, NEW g \in Few,
                      out.player[q].party = g \/ q \in out.party[g].invites \cup out.party[g].users
               PROVE  out.player[q].online
    BY DEF PartyOnline
  <2>1. t.player[q].party = g \/ q \in t.party[g].invites \cup t.party[g].users
    BY <1>8
  <2> QED BY <1>8, <2>1 DEF Tied, PartyOnline
<1>13. PartyLists(out, es)
  <2> SUFFICES ASSUME NEW g \in Few
               PROVE  /\ Party!IsInjective(out.party[g].members)
                      /\ out.party[g].leader \notin Party!Members(out, g)
                      /\ out.party[g].leader = nobody => Party!Empty(out, g)
                      /\ Party!Empty(out, g) => out.party[g].leader = nobody \/ g \in es
    BY DEF PartyLists
  <2>1. /\ Party!IsInjective(t.party[g].members) /\ t.party[g].leader \notin Party!Members(t, g)
        /\ t.party[g].leader = nobody <=> Party!Empty(t, g)
    BY DEF Tied, PartyLists
  <2>2. CASE g \in by
    BY <1>7, <1>8, <1>9, <2>1, <2>2 DEF Party!Empty
  <2>3. CASE g \notin by
    BY <1>7, <1>8, <1>9, <2>1, <2>3 DEF Party!Empty
  <2> QED BY <2>2, <2>3
<1>14. /\ r \in PartyState /\ Tied(r, {})
       /\ \A g \in Few : r.party[g].invites \subseteq out.party[g].invites
       /\ \A q \in Many : /\ r.player[q].online = out.player[q].online
                          /\ r.player[q].party \in {out.player[q].party, none}
  BY <1>1, <1>6, <1>7, <1>10, <1>11, <1>12, <1>13, DisbandKeeps DEF Tied
<1>15. \A h \in gs : p \notin out.party[h].invites
  BY <1>8
<1> QED BY <1>8, <1>14, <1>15 DEF InviteGone

-----------------------------------------------------------------------------
(* Parties: the handlers *)

LEMMA PartyInvTied ==
  /\ PartyInv <=> s \in PartyState /\ Tied(s, {})
  /\ s' \in PartyState /\ Tied(s', {}) => PartyInv'
BY DEF PartyInv, Tied, PartyMates, PartyInvited, PartyOnline, PartyLists, PartyOwn,
       Party!Members, Party!Empty

LEMMA PartyRevoke ==
  ASSUME PartyInv, NEW p \in Many, NEW q \in Many, Party!RevokeInvitation(p, q)
  PROVE  PartyInv'
<1> DEFINE g == s.player[p].party
<1>1. g \in Few /\ s' = Party!RemoveInvite(s, {g}, q)
  BY DEF PartyInv, PartyState, Party!PlayerRec, Party!RevokeInvitation, Party!IsInviting,
     Party!Leads, Party!PartyOf
<1> HIDE DEF g
<1>2. s \in PartyState /\ Tied(s, {}) /\ {g} \in SUBSET Few
  BY <1>1 DEF PartyInv
<1>3. s' \in PartyState /\ Tied(s', {})
  BY <1>1, <1>2, RemoveInviteKeeps
<1> QED BY <1>3, PartyInvTied

LEMMA PartyPass ==
  ASSUME PartyInv, NEW p \in Many, NEW q \in Many, Party!PassPartyLeadership(p, q)
  PROVE  PartyInv'
<1> DEFINE g == s.player[p].party
<1>1. g \in Few /\ s' = Party!PassLeadership(s, g, q)
  BY DEF PartyInv, PartyState, Party!PlayerRec, Party!PassPartyLeadership, Party!Leads, Party!PartyOf
<1> HIDE DEF g
<1>2. s \in PartyState /\ Tied(s, {})
  BY PartyInvTied
<1>3. s' \in PartyState /\ Tied(s', {})
  BY <1>1, <1>2, PassLeadershipKeeps
<1> QED BY <1>3, PartyInvTied

LEMMA PartyLeave ==
  ASSUME PartyInv, NEW p \in Many, Party!PlayerLeaveParty(p)
  PROVE  PartyInv'
<1> DEFINE g == s.player[p].party
<1>1. g \in Few /\ s' = Party!LeaveParty(s, g, p)
  BY DEF PartyInv, PartyState, Party!PlayerRec, Party!PlayerLeaveParty, Party!PartyOf
<1>2. s \in PartyState /\ Tied(s, {}) /\ s.player[p].party = g
  BY PartyInvTied
<1> HIDE DEF g
<1>3. s' \in PartyState /\ Tied(s', {})
  BY <1>1, <1>2, LeavePartyKeeps
<1> QED BY <1>3, PartyInvTied

(* A handler that changes nothing but who is in channels. *)
LEMMA PartyUsers ==
  ASSUME PartyInv, s' \in PartyState, s'.player = s.player,
         \A g \in Few : /\ s'.party[g].leader = s.party[g].leader
                        /\ s'.party[g].members = s.party[g].members
                        /\ s'.party[g].invites = s.party[g].invites
                        /\ \A p \in s'.party[g].users : p \in Many => s.player[p].online
  PROVE  PartyInv'
<1>1. s \in PartyState /\ Tied(s, {})
  BY PartyInvTied
<1>2. \A g \in Few : /\ Party!Members(s', g) = Party!Members(s, g)
                     /\ PartyOwn(s', g) = PartyOwn(s, g)
                     /\ Party!Empty(s', g) = Party!Empty(s, g)
  BY DEF Party!Members, PartyOwn, Party!Empty
<1>3. PartyMates(s', {}) /\ PartyInvited(s')
  BY <1>1, <1>2 DEF Tied, PartyMates, PartyInvited
<1>4. PartyOnline(s')
  BY <1>1 DEF Tied, PartyOnline
<1>5. PartyLists(s', {})
  BY <1>1, <1>2 DEF Tied, PartyLists
<1> QED BY <1>3, <1>4, <1>5, PartyInvTied DEF Tied

LEMMA PartyOpenChannel ==
  ASSUME PartyInv, NEW p \in Many, Party!OpenPartyChannel(p)
  PROVE  PartyInv'
<1> DEFINE g == s.player[p].party
           x == [s.party[g] EXCEPT !.users = s.party[g].users \cup {p}]
           pt == [s.party EXCEPT ![g] = x]
<1>1. g \in Few /\ s' = [s EXCEPT !.party = pt]
  BY DEF PartyInv, PartyState, Party!PlayerRec, Party!OpenPartyChannel, Party!PartyOf
<1>2. s \in PartyState /\ Tied(s, {}) /\ s.player[p].party = g
  BY PartyInvTied
<1>3. s.player[p].online
  BY <1>1, <1>2 DEF Tied, PartyOnline
<1> HIDE DEF g
<1>4. /\ x \in Party!PartyRec /\ x.leader = s.party[g].leader /\ x.members = s.party[g].members
      /\ x.invites = s.party[g].invites /\ x.users = s.party[g].users \cup {p}
  BY <1>1, <1>2 DEF PartyState, Party!PartyRec
<1> HIDE DEF x
<1>5. /\ pt \in [Few -> Party!PartyRec] /\ pt[g] = x
      /\ \A h \in Few \ {g} : pt[h] = s.party[h]
  BY <1>1, <1>2, <1>4 DEF PartyState
<1> HIDE DEF pt
<1>6. s' \in PartyState /\ s'.party = pt /\ s'.player = s.player
  BY <1>1, <1>2, <1>5 DEF PartyState
<1>7. \A h \in Few : /\ s'.party[h].leader = s.party[h].leader
                     /\ s'.party[h].members = s.party[h].members
                     /\ s'.party[h].invites = s.party[h].invites
                     /\ \A q \in s'.party[h].users : q = p \/ q \in s.party[h].users
  BY <1>4, <1>5, <1>6
<1>8. \A h \in Few : \A q \in s'.party[h].users : q \in Many => s.player[q].online
  BY <1>2, <1>3, <1>7 DEF Tied, PartyOnline
<1> QED BY <1>6, <1>7, <1>8, PartyUsers

LEMMA PartyCloseChannel ==
  ASSUME PartyInv, NEW p \in Many, Party!ClosePartyChannel(p)
  PROVE  PartyInv'
<1>1. s \in PartyState /\ Tied(s, {}) /\ s' = Party!SendClosePrivate(s, {p})
  BY PartyInvTied DEF Party!ClosePartyChannel
<1>2. /\ s' \in PartyState /\ s'.player = s.player
      /\ \A g \in Few : /\ s'.party[g].leader = s.party[g].leader
                        /\ s'.party[g].members = s.party[g].members
                        /\ s'.party[g].invites = s.party[g].invites
                        /\ s'.party[g].users \subseteq s.party[g].users
  BY <1>1, SendClosePrivateIs
<1>3. \A g \in Few : \A q \in s'.party[g].users : q \in Many => s.player[q].online
  BY <1>1, <1>2 DEF Tied, PartyOnline
<1> QED BY <1>2, <1>3, PartyUsers

LEMMA RemoveUserIs ==
  ASSUME NEW t \in PartyState, NEW p, NEW r, r = Party!RemoveUserFromAllChannels(t, p)
  PROVE  /\ r \in PartyState /\ r.player = t.player
         /\ \A g \in Few : /\ r.party[g].leader = t.party[g].leader
                           /\ r.party[g].members = t.party[g].members
                           /\ r.party[g].invites = t.party[g].invites
                           /\ r.party[g].users = t.party[g].users \ {p}
<1> DEFINE pt == [g \in Few |-> [t.party[g] EXCEPT !.users = t.party[g].users \ {p}]]
<1>1. \A g \in Few : t.party[g] \in Party!PartyRec
  BY DEF PartyState
<1>2. \A x \in Party!PartyRec :
        /\ [x EXCEPT !.users = x.users \ {p}] \in Party!PartyRec
        /\ [x EXCEPT !.users = x.users \ {p}].leader = x.leader
        /\ [x EXCEPT !.users = x.users \ {p}].members = x.members
        /\ [x EXCEPT !.users = x.users \ {p}].invites = x.invites
        /\ [x EXCEPT !.users = x.users \ {p}].users = x.users \ {p}
  BY DEF Party!PartyRec
<1>3. r = [t EXCEPT !.party = pt]
  BY DEF Party!RemoveUserFromAllChannels
<1>4. /\ pt \in [Few -> Party!PartyRec]
      /\ \A g \in Few : /\ pt[g].leader = t.party[g].leader
                        /\ pt[g].members = t.party[g].members
                        /\ pt[g].invites = t.party[g].invites
                        /\ pt[g].users = t.party[g].users \ {p}
  BY <1>1, <1>2
<1> HIDE DEF pt
<1>5. r \in PartyState /\ r.party = pt /\ r.player = t.player
  BY <1>3, <1>4 DEF PartyState
<1> QED BY <1>4, <1>5

LEMMA PartyReconnect ==
  ASSUME PartyInv, NEW p \in Many, Party!Reconnect(p)
  PROVE  PartyInv'
<1>1. s \in PartyState /\ Tied(s, {}) /\ s' = Party!RemoveUserFromAllChannels(s, p)
  BY PartyInvTied DEF Party!Reconnect
<1>2. /\ s' \in PartyState /\ s'.player = s.player
      /\ \A g \in Few : /\ s'.party[g].leader = s.party[g].leader
                        /\ s'.party[g].members = s.party[g].members
                        /\ s'.party[g].invites = s.party[g].invites
                        /\ s'.party[g].users = s.party[g].users \ {p}
  BY <1>1, RemoveUserIs
<1>3. \A g \in Few : \A q \in s'.party[g].users : q \in Many => s.player[q].online
  BY <1>1, <1>2 DEF Tied, PartyOnline
<1> QED BY <1>2, <1>3, PartyUsers

(* A player comes into the game, or leaves it when nothing holds it. *)
LEMMA PartyOnlineChanges ==
  ASSUME NEW t \in PartyState, Tied(t, {}), NEW p \in Many, NEW on \in BOOLEAN,
         on \/ (t.player[p].party \notin Few
                /\ \A g \in Few : p \notin t.party[g].invites \cup t.party[g].users),
         NEW r, r = [t EXCEPT !.player[p].online = on]
  PROVE  r \in PartyState /\ Tied(r, {})
<1> DEFINE y == [t.player[p] EXCEPT !.online = on]
           pl == [t.player EXCEPT ![p] = y]
<1>1. r = [t EXCEPT !.player = pl]
  OBVIOUS
<1>2. /\ y \in Party!PlayerRec /\ y.online = on /\ y.party = t.player[p].party
      /\ y.invitations = t.player[p].invitations
  BY DEF PartyState, Party!PlayerRec
<1> HIDE DEF y
<1>3. /\ pl \in [Many -> Party!PlayerRec] /\ pl[p] = y
      /\ \A q \in Many \ {p} : pl[q] = t.player[q]
  BY <1>2 DEF PartyState
<1> HIDE DEF pl
<1>4. r \in PartyState /\ r.party = t.party /\ r.player = pl
  BY <1>1, <1>3 DEF PartyState
<1>5. \A q \in Many : /\ r.player[q].party = t.player[q].party
                      /\ r.player[q].invitations = t.player[q].invitations
                      /\ r.player[q].online = IF q = p THEN on ELSE t.player[q].online
  BY <1>2, <1>3, <1>4
<1>6. \A g \in Few : /\ Party!Members(r, g) = Party!Members(t, g)
                     /\ PartyOwn(r, g) = PartyOwn(t, g)
                     /\ Party!Empty(r, g) = Party!Empty(t, g)
  BY <1>4 DEF Party!Members, PartyOwn, Party!Empty
<1>7. PartyMates(r, {}) /\ PartyInvited(r)
  BY <1>4, <1>5, <1>6 DEF Tied, PartyMates, PartyInvited
<1>8. PartyOnline(r)
  <2> SUFFICES ASSUME NEW q \in Many, NEW g \in Few,
                      t.player[q].party = g \/ q \in t.party[g].invites \cup t.party[g].users
               PROVE  r.player[q].online
    BY <1>4, <1>5 DEF PartyOnline
  <2>1. t.player[q].online
    BY DEF Tied, PartyOnline
  <2>2. CASE q = p
    <3>1. on
      BY <2>2
    <3> QED BY <1>5, <2>2, <3>1
  <2>3. CASE q # p
    BY <1>5, <2>1, <2>3
  <2> QED BY <2>2, <2>3
<1>9. PartyLists(r, {})
  BY <1>4, <1>6 DEF Tied, PartyLists
<1> QED BY <1>4, <1>7, <1>8, <1>9 DEF Tied

LEMMA PartyLogin ==
  ASSUME PartyInv, NEW p \in Many, Party!Login(p)
  PROVE  PartyInv'
<1>1. s \in PartyState /\ Tied(s, {}) /\ s' = [s EXCEPT !.player[p].online = TRUE]
  BY PartyInvTied DEF Party!Login
<1>2. s' \in PartyState /\ Tied(s', {})
  BY <1>1, PartyOnlineChanges
<1> QED BY <1>2, PartyInvTied

(* Whoever leaves the game is in no party, invited by none, in no channel.    *)
LEMMA PartyLogout ==
  ASSUME PartyInv, NEW p \in Many, Party!Logout(p)
  PROVE  PartyInv'
<1> DEFINE by == s.player[p].invitations
           a == Party!RemoveInvite(s, by, p)
           b == Party!ClearPartyInvitations(s, p)
           g == b.player[p].party
           c == IF g = none THEN b ELSE Party!LeaveParty(b, g, p)
           d == Party!RemoveUserFromAllChannels(c, p)
<1>1. s \in PartyState /\ Tied(s, {}) /\ by \in SUBSET Few
  BY PartyInvTied DEF PartyState, Party!PlayerRec
<1>2. s' = [d EXCEPT !.player[p].online = FALSE]
  BY DEF Party!Logout
<1>3. b = [a EXCEPT !.player[p].invitations = {}]
  BY Zenon DEF Party!ClearPartyInvitations
<1> HIDE DEF a
<1>4. /\ a \in PartyState /\ Tied(a, {})
      /\ \A h \in by : p \notin a.party[h].invites
      /\ \A h \in Few : a.party[h].invites \subseteq s.party[h].invites
      /\ \A q \in Many : /\ a.player[q].online = s.player[q].online
                         /\ a.player[q].party \in {s.player[q].party, none}
  <2>1. a = Party!RemoveInvite(s, by, p)
    BY DEF a
  <2> HIDE DEF by
  <2>2. a \in PartyState /\ Tied(a, {}) /\ InviteGone(s, a, by, p)
    BY <1>1, <2>1, RemoveInviteKeeps
  <2> QED BY <2>2 DEF InviteGone
<1>5. \A h \in Few : p \notin a.party[h].invites /\ h \notin a.player[p].invitations
  BY <1>1, <1>4 DEF Tied, PartyInvited
<1>6. a.player[p].invitations = {}
  BY <1>4, <1>5 DEF PartyState, Party!PlayerRec
<1>7. b \in PartyState /\ b.party = a.party
      /\ \A q \in Many : /\ b.player[q].online = a.player[q].online
                         /\ b.player[q].party = a.player[q].party
                         /\ b.player[q].invitations = a.player[q].invitations
  <2> DEFINE y == [a.player[p] EXCEPT !.invitations = {}]
             pl == [a.player EXCEPT ![p] = y]
  <2>1. b = [a EXCEPT !.player = pl]
    BY <1>3
  <2>2. /\ y \in Party!PlayerRec /\ y.online = a.player[p].online /\ y.party = a.player[p].party
        /\ y.invitations = {}
    BY <1>4 DEF PartyState, Party!PlayerRec
  <2> HIDE DEF y
  <2>3. /\ pl \in [Many -> Party!PlayerRec] /\ pl[p] = y
        /\ \A q \in Many \ {p} : pl[q] = a.player[q]
    BY <1>4, <2>2 DEF PartyState
  <2> HIDE DEF pl, b
  <2>4. b \in PartyState /\ b.party = a.party /\ b.player = pl
    BY <1>4, <2>1, <2>3 DEF PartyState
  <2> QED BY <1>6, <2>2, <2>3, <2>4
<1> HIDE DEF b
<1>8. Tied(b, {})
  <2>1. \A h \in Few : /\ Party!Members(b, h) = Party!Members(a, h)
                       /\ PartyOwn(b, h) = PartyOwn(a, h)
                       /\ Party!Empty(b, h) = Party!Empty(a, h)
    BY <1>7 DEF Party!Members, PartyOwn, Party!Empty
  <2>2. PartyMates(b, {}) /\ PartyInvited(b)
    BY <1>4, <1>7, <2>1 DEF Tied, PartyMates, PartyInvited
  <2>3. PartyOnline(b)
    BY <1>4, <1>7 DEF Tied, PartyOnline
  <2>4. PartyLists(b, {})
    BY <1>4, <1>7, <2>1 DEF Tied, PartyLists
  <2> QED BY <2>2, <2>3, <2>4 DEF Tied
<1>9. g \in Few \cup {none}
  BY <1>7 DEF PartyState, Party!PlayerRec
<1> HIDE DEF g
<1>10. /\ c \in PartyState /\ Tied(c, {}) /\ c.player[p].party = none
       /\ \A h \in Few : c.party[h].invites \subseteq b.party[h].invites
  <2>1. CASE g = none
    BY <1>7, <1>8, <2>1 DEF g
  <2>2. CASE g # none
    <3>1. g \in Few /\ b.player[p].party = g /\ c = Party!LeaveParty(b, g, p)
      BY <1>9, <2>2 DEF g
    <3> HIDE DEF c
    <3> QED BY <1>7, <1>8, <3>1, LeavePartyKeeps
  <2> QED BY <2>1, <2>2
<1> HIDE DEF c
<1>11. /\ d \in PartyState /\ d.player = c.player
       /\ \A h \in Few : /\ d.party[h].leader = c.party[h].leader
                         /\ d.party[h].members = c.party[h].members
                         /\ d.party[h].invites = c.party[h].invites
                         /\ d.party[h].users = c.party[h].users \ {p}
  BY <1>10, RemoveUserIs
<1> HIDE DEF d
<1>12. Tied(d, {})
  <2>1. \A h \in Few : /\ Party!Members(d, h) = Party!Members(c, h)
                       /\ PartyOwn(d, h) = PartyOwn(c, h)
                       /\ Party!Empty(d, h) = Party!Empty(c, h)
    BY <1>11 DEF Party!Members, PartyOwn, Party!Empty
  <2>2. PartyMates(d, {}) /\ PartyInvited(d)
    BY <1>10, <1>11, <2>1 DEF Tied, PartyMates, PartyInvited
  <2>3. PartyOnline(d)
    BY <1>10, <1>11 DEF Tied, PartyOnline
  <2>4. PartyLists(d, {})
    BY <1>10, <1>11, <2>1 DEF Tied, PartyLists
  <2> QED BY <2>2, <2>3, <2>4 DEF Tied
<1>13. /\ d.player[p].party \notin Few
       /\ \A h \in Few : p \notin d.party[h].invites \cup d.party[h].users
  BY <1>5, <1>7, <1>10, <1>11, PartyConstants
<1>14. FALSE \in BOOLEAN
  OBVIOUS
<1>15. s' \in PartyState /\ Tied(s', {})
  BY <1>2, <1>11, <1>12, <1>13, <1>14, PartyOnlineChanges
<1> QED BY <1>15, PartyInvTied

LEMMA PartyInvite ==
  ASSUME PartyInv, NEW p \in Many, NEW q \in Many, Party!Invite(p, q)
  PROVE  PartyInv'
<1>1. s \in PartyState /\ Tied(s, {})
  BY PartyInvTied
<1>2. /\ p # q /\ s.player[p].online /\ s.player[q].online
      /\ s.player[q].party = none
  BY DEF Party!Invite, Party!Online, Party!PartyOf
<1>3. PICK g \in Few :
        /\ \/ s.player[p].party = none /\ s.party[g].leader = nobody
           \/ s.player[p].party = g /\ s.party[g].leader = p
        /\ q \notin s.party[g].invites
        /\ s' = [s EXCEPT !.party[g].leader = p, !.party[g].invites = @ \cup {q},
                          !.player[p].party = g, !.player[q].invitations = @ \cup {g}]
  BY DEF Party!Invite, Party!Leads, Party!PartyOf
<1> DEFINE x == [s.party[g] EXCEPT !.leader = p, !.invites = s.party[g].invites \cup {q}]
           y == [s.player[p] EXCEPT !.party = g]
           z == [s.player[q] EXCEPT !.invitations = s.player[q].invitations \cup {g}]
           pt == [s.party EXCEPT ![g] = x]
           pl == [s.player EXCEPT ![p] = y, ![q] = z]
<1>4. s' = [s EXCEPT !.party = pt, !.player = pl]
  <2> DEFINE pt2 == [s.party EXCEPT ![g].leader = p, ![g].invites = @ \cup {q}]
             pl2 == [s.player EXCEPT ![p].party = g, ![q].invitations = @ \cup {g}]
  <2>1. s.party \in [Few -> Party!PartyRec] /\ s.player \in [Many -> Party!PlayerRec]
    BY <1>1 DEF PartyState
  <2>2. s' = [s EXCEPT !.party = pt2, !.player = pl2]
    <3>1. s' = [s EXCEPT !.party[g].leader = p, !.party[g].invites = @ \cup {q},
                         !.player[p].party = g, !.player[q].invitations = @ \cup {g}]
      BY <1>3
    <3> QED BY ONLY <3>1, ZenonT(60)
  <2>3. pt2 = pt
    BY <2>1
  <2>4. pl2 = pl
    BY <1>2, <2>1
  <2> HIDE DEF pt2, pl2, pt, pl
  <2> QED BY <2>2, <2>3, <2>4
<1>5. /\ x \in Party!PartyRec /\ x.leader = p /\ x.members = s.party[g].members
      /\ x.invites = s.party[g].invites \cup {q} /\ x.users = s.party[g].users
      /\ y \in Party!PlayerRec /\ y.online = s.player[p].online /\ y.party = g
      /\ y.invitations = s.player[p].invitations
      /\ z \in Party!PlayerRec /\ z.online = s.player[q].online /\ z.party = s.player[q].party
      /\ z.invitations = s.player[q].invitations \cup {g}
  BY <1>1, ZenonT(40) DEF PartyState, Party!PartyRec, Party!PlayerRec
<1> HIDE DEF x, y, z
<1>6. /\ pt \in [Few -> Party!PartyRec] /\ pt[g] = x
      /\ \A h \in Few \ {g} : pt[h] = s.party[h]
      /\ pl \in [Many -> Party!PlayerRec] /\ pl[p] = y /\ pl[q] = z
      /\ \A o \in Many \ {p, q} : pl[o] = s.player[o]
  BY <1>1, <1>2, <1>5 DEF PartyState
<1> HIDE DEF pt, pl
<1>7. s' \in PartyState /\ s'.party = pt /\ s'.player = pl
  BY <1>1, <1>4, <1>6 DEF PartyState
<1>8. \A h \in Few : /\ s'.party[h].leader = IF h = g THEN p ELSE s.party[h].leader
                     /\ s'.party[h].members = s.party[h].members
                     /\ s'.party[h].users = s.party[h].users
                     /\ s'.party[h].invites = IF h = g THEN s.party[h].invites \cup {q}
                                              ELSE s.party[h].invites
  BY <1>5, <1>6, <1>7
<1>9. \A o \in Many : /\ s'.player[o].online = s.player[o].online
                      /\ s'.player[o].party = IF o = p THEN g ELSE s.player[o].party
                      /\ s'.player[o].invitations = IF o = q THEN s.player[o].invitations \cup {g}
                                                    ELSE s.player[o].invitations
  <2> SUFFICES ASSUME NEW o \in Many
               PROVE  /\ pl[o].online = s.player[o].online
                      /\ pl[o].party = IF o = p THEN g ELSE s.player[o].party
                      /\ pl[o].invitations = IF o = q THEN s.player[o].invitations \cup {g}
                                             ELSE s.player[o].invitations
    BY <1>7
  <2>1. CASE o = p
    BY <1>2, <1>5, <1>6, <2>1
  <2>2. CASE o = q
    BY <1>2, <1>5, <1>6, <2>2
  <2>3. CASE o \notin {p, q}
    BY <1>6, <2>3
  <2> QED BY <2>1, <2>2, <2>3
<1>10. /\ PartyOwn(s', g) = Party!Members(s, g) \cup {p}
       /\ Party!Members(s', g) = Party!Members(s, g)
       /\ s.party[g].leader = nobody => Party!Members(s, g) = {}
       /\ \A h \in Few \ {g} : /\ Party!Members(s', h) = Party!Members(s, h)
                               /\ PartyOwn(s', h) = PartyOwn(s, h)
                               /\ Party!Empty(s', h) = Party!Empty(s, h)
  BY <1>1, <1>8, EmptyOne DEF Tied, PartyLists, Party!Members, PartyOwn, Party!Empty
<1>11. PartyMates(s', {})
  <2> SUFFICES ASSUME NEW o \in Many, NEW h \in Few
               PROVE  s'.player[o].party = h <=> o \in PartyOwn(s', h)
    BY DEF PartyMates
  <2>1. s.player[o].party = h <=> o \in PartyOwn(s, h)
    BY <1>1 DEF Tied, PartyMates
  <2>2. o # nobody /\ h # none
    BY PartyConstants
  <2>3. CASE h = g
    BY <1>3, <1>9, <1>10, <2>1, <2>2, <2>3 DEF PartyOwn
  <2>4. CASE h # g
    BY <1>3, <1>9, <1>10, <2>1, <2>2, <2>4
  <2> QED BY <2>3, <2>4
<1>12. PartyInvited(s')
  <2> SUFFICES ASSUME NEW o \in Many, NEW h \in Few
               PROVE  h \in s'.player[o].invitations <=> o \in s'.party[h].invites
    BY DEF PartyInvited
  <2>1. h \in s.player[o].invitations <=> o \in s.party[h].invites
    BY <1>1 DEF Tied, PartyInvited
  <2>2. CASE h = g
    BY <1>8, <1>9, <2>1, <2>2
  <2>3. CASE h # g
    BY <1>8, <1>9, <2>1, <2>3
  <2> QED BY <2>2, <2>3
<1>13. PartyOnline(s')
  <2> SUFFICES ASSUME NEW o \in Many, NEW h \in Few,
                      s'.player[o].party = h \/ o \in s'.party[h].invites \cup s'.party[h].users
               PROVE  s.player[o].online
    BY <1>9 DEF PartyOnline
  <2>1. o \in {p, q} \/ s.player[o].party = h \/ o \in s.party[h].invites \cup s.party[h].users
    BY <1>8, <1>9
  <2> QED BY <1>1, <1>2, <2>1 DEF Tied, PartyOnline
<1>14. PartyLists(s', {})
  <2> SUFFICES ASSUME NEW h \in Few
               PROVE  /\ Party!IsInjective(s'.party[h].members)
                      /\ s'.party[h].leader \notin Party!Members(s', h)
                      /\ s'.party[h].leader = nobody <=> Party!Empty(s', h)
    BY DEF PartyLists
  <2>1. /\ Party!IsInjective(s.party[h].members) /\ s.party[h].leader \notin Party!Members(s, h)
        /\ s.party[h].leader = nobody <=> Party!Empty(s, h)
    BY <1>1 DEF Tied, PartyLists
  <2>2. CASE h = g
    <3>1. p # nobody /\ s'.party[h].leader = p
      BY <1>8, <2>2, PartyConstants
    <3>2. p \notin Party!Members(s', h)
      BY <1>3, <1>10, <2>1, <2>2
    <3>3. ~Party!Empty(s', h)
      BY <1>8, <2>2 DEF Party!Empty
    <3> QED BY <1>8, <2>1, <3>1, <3>2, <3>3
  <2>3. CASE h # g
    BY <1>8, <1>10, <2>1, <2>3
  <2> QED BY <2>2, <2>3
<1> QED BY <1>7, <1>11, <1>12, <1>13, <1>14, PartyInvTied DEF Tied

LEMMA PartyJoin ==
  ASSUME PartyInv, NEW p \in Many, NEW q \in Many, Party!Join(p, q)
  PROVE  PartyInv'
<1> DEFINE g == s.player[q].party
<1>1. s \in PartyState /\ Tied(s, {})
  BY PartyInvTied
<1>2. /\ s.player[p].online /\ s.player[p].party = none
      /\ g # none /\ s.party[g].leader = q /\ p \in s.party[g].invites
      /\ s' = [s EXCEPT !.party[g].invites = @ \ {p}, !.party[g].members = Append(@, p),
                        !.player[p].party = g, !.player[p].invitations = @ \ {g}]
  BY DEF Party!Join, Party!IsInviting, Party!Leads, Party!PartyOf, Party!Online
<1>3. g \in Few
  BY <1>1, <1>2 DEF PartyState, Party!PlayerRec
<1> HIDE DEF g
<1> DEFINE mem == Append(s.party[g].members, p)
           x == [s.party[g] EXCEPT !.invites = s.party[g].invites \ {p}, !.members = mem]
           y == [s.player[p] EXCEPT !.party = g, !.invitations = s.player[p].invitations \ {g}]
           pt == [s.party EXCEPT ![g] = x]
           pl == [s.player EXCEPT ![p] = y]
<1>4. s' = [s EXCEPT !.party = pt, !.player = pl]
  BY <1>2
<1>5. /\ s.party[g] \in Party!PartyRec /\ s.party[g].members \in Seq(Many)
      /\ s.player[p] \in Party!PlayerRec
      /\ Party!IsInjective(s.party[g].members) /\ p \notin Party!Range(s.party[g].members)
  <2>1. p \notin PartyOwn(s, g)
    BY <1>1, <1>2, <1>3 DEF Tied, PartyMates
  <2> QED BY <1>1, <1>3, <2>1 DEF PartyState, Party!PartyRec, Tied, PartyLists, PartyOwn, Party!Members
<1>6. /\ mem \in Seq(Many) /\ Party!IsInjective(mem) /\ mem # <<>>
      /\ Party!Range(mem) = Party!Range(s.party[g].members) \cup {p}
  BY <1>5, AppendOne
<1> HIDE DEF mem
<1>7. /\ x \in Party!PartyRec /\ x.leader = s.party[g].leader /\ x.members = mem
      /\ x.invites = s.party[g].invites \ {p} /\ x.users = s.party[g].users
      /\ y \in Party!PlayerRec /\ y.online = s.player[p].online /\ y.party = g
      /\ y.invitations = s.player[p].invitations \ {g}
  BY <1>3, <1>5, <1>6 DEF Party!PartyRec, Party!PlayerRec
<1> HIDE DEF x, y
<1>8. /\ pt \in [Few -> Party!PartyRec] /\ pt[g] = x
      /\ \A h \in Few \ {g} : pt[h] = s.party[h]
      /\ pl \in [Many -> Party!PlayerRec] /\ pl[p] = y
      /\ \A o \in Many \ {p} : pl[o] = s.player[o]
  BY <1>1, <1>3, <1>7 DEF PartyState
<1> HIDE DEF pt, pl
<1>9. s' \in PartyState /\ s'.party = pt /\ s'.player = pl
  BY <1>1, <1>4, <1>8 DEF PartyState
<1>10. \A h \in Few : /\ s'.party[h].leader = s.party[h].leader
                      /\ s'.party[h].members = IF h = g THEN mem ELSE s.party[h].members
                      /\ s'.party[h].users = s.party[h].users
                      /\ s'.party[h].invites = IF h = g THEN s.party[h].invites \ {p}
                                               ELSE s.party[h].invites
  BY <1>7, <1>8, <1>9
<1>11. \A o \in Many : /\ s'.player[o].online = s.player[o].online
                       /\ s'.player[o].party = IF o = p THEN g ELSE s.player[o].party
                       /\ s'.player[o].invitations = IF o = p THEN s.player[o].invitations \ {g}
                                                     ELSE s.player[o].invitations
  BY <1>7, <1>8, <1>9
<1>12. /\ Party!Members(s', g) = Party!Members(s, g) \cup {p}
       /\ PartyOwn(s', g) = PartyOwn(s, g) \cup {p}
       /\ \A h \in Few \ {g} : /\ Party!Members(s', h) = Party!Members(s, h)
                               /\ PartyOwn(s', h) = PartyOwn(s, h)
                               /\ Party!Empty(s', h) = Party!Empty(s, h)
  BY <1>3, <1>6, <1>10 DEF Party!Members, PartyOwn, Party!Empty
<1>13. PartyMates(s', {})
  <2> SUFFICES ASSUME NEW o \in Many, NEW h \in Few
               PROVE  s'.player[o].party = h <=> o \in PartyOwn(s', h)
    BY DEF PartyMates
  <2>1. s.player[o].party = h <=> o \in PartyOwn(s, h)
    BY <1>1 DEF Tied, PartyMates
  <2>2. h # none
    BY PartyConstants
  <2>3. CASE h = g
    BY <1>11, <1>12, <2>1, <2>3
  <2>4. CASE h # g
    BY <1>2, <1>11, <1>12, <2>1, <2>2, <2>4
  <2> QED BY <2>3, <2>4
<1>14. PartyInvited(s')
  <2> SUFFICES ASSUME NEW o \in Many, NEW h \in Few
               PROVE  h \in s'.player[o].invitations <=> o \in s'.party[h].invites
    BY DEF PartyInvited
  <2>1. h \in s.player[o].invitations <=> o \in s.party[h].invites
    BY <1>1 DEF Tied, PartyInvited
  <2>2. CASE h = g
    BY <1>10, <1>11, <2>1, <2>2
  <2>3. CASE h # g
    BY <1>10, <1>11, <2>1, <2>3
  <2> QED BY <2>2, <2>3
<1>15. PartyOnline(s')
  <2> SUFFICES ASSUME NEW o \in Many, NEW h \in Few,
                      s'.player[o].party = h \/ o \in s'.party[h].invites \cup s'.party[h].users
               PROVE  s.player[o].online
    BY <1>11 DEF PartyOnline
  <2>1. o = p \/ s.player[o].party = h \/ o \in s.party[h].invites \cup s.party[h].users
    BY <1>10, <1>11
  <2> QED BY <1>1, <1>2, <2>1 DEF Tied, PartyOnline
<1>16. PartyLists(s', {})
  <2> SUFFICES ASSUME NEW h \in Few
               PROVE  /\ Party!IsInjective(s'.party[h].members)
                      /\ s'.party[h].leader \notin Party!Members(s', h)
                      /\ s'.party[h].leader = nobody <=> Party!Empty(s', h)
    BY DEF PartyLists
  <2>1. /\ Party!IsInjective(s.party[h].members) /\ s.party[h].leader \notin Party!Members(s, h)
        /\ s.party[h].leader = nobody <=> Party!Empty(s, h)
    BY <1>1 DEF Tied, PartyLists
  <2>2. CASE h = g
    <3>1. q # nobody /\ s'.party[h].leader = q
      BY <1>2, <1>10, <2>2, PartyConstants
    <3>2. q # p
      <4>1. p \notin PartyOwn(s, g)
        BY <1>1, <1>2, <1>3 DEF Tied, PartyMates
      <4> QED BY <1>2, <4>1 DEF PartyOwn
    <3>3. q \notin Party!Members(s', h)
      BY <1>2, <1>12, <2>1, <2>2, <3>2
    <3>4. ~Party!Empty(s', h)
      BY <1>6, <1>10, <2>2 DEF Party!Empty
    <3> QED BY <1>6, <1>10, <2>2, <3>1, <3>3, <3>4
  <2>3. CASE h # g
    BY <1>10, <1>12, <2>1, <2>3
  <2> QED BY <2>2, <2>3
<1> QED BY <1>9, <1>13, <1>14, <1>15, <1>16, PartyInvTied DEF Tied

LEMMA PartyStep == PartyInv /\ Party!Next => PartyInv'
BY PartyInvite, PartyJoin, PartyRevoke, PartyPass, PartyLeave, PartyOpenChannel,
   PartyCloseChannel, PartyLogin, PartyLogout, PartyReconnect
DEF Party!Next

LEMMA PartyStutter == PartyInv /\ s' = s => PartyInv'
<1> SUFFICES ASSUME PartyInv, s' = s PROVE PartyInv'
  OBVIOUS
<1>1. s' \in PartyState /\ Tied(s', {})
  BY PartyInvTied
<1> QED BY <1>1, PartyInvTied

(* However players invite, join, leave, pass on and log out: a party and its  *)
(* players point to each other, and its channel holds only players that are  *)
(* in the game, even when the address of a party is used again.              *)
THEOREM PartyTiesAgree ==
  Party!Spec => [](Party!TypeOK /\ Party!PartyPaired /\ Party!ChannelUsersOnline)
<1>1. PartyInv /\ [Party!Next]_s => PartyInv'
  BY PartyStep, PartyStutter
<1> QED BY <1>1, PartyHolds, PartyInit, PTL DEF Party!Spec

-----------------------------------------------------------------------------
(* Houses *)

HouseState == [online : SUBSET Few,
               pos : [Few -> Homes \cup {none}],
               owner : [Homes -> Few \cup {nobody}],
               invited : [Homes -> [Houses!Lists -> SUBSET Few]],
               sleeper : [Homes -> Few \cup {nobody}],
               bedOf : [Few -> Homes \cup {none}],
               kick : SUBSET Few,
               edit : [Few -> [house : Homes \cup {none}, list : Houses!Lists]],
               transfer : SUBSET Homes,
               deal : [Homes -> [seller : Few \cup {nobody}, buyer : Few \cup {nobody}]]]

(* Who may be in the house h. *)
Admits(t, h, p) ==
  t.owner[h] = p \/ p \in t.invited[h]["subowners"] \/ p \in t.invited[h]["guests"]

(* A bed and its sleeper name each other. *)
Paired(t) == \A h \in Homes, p \in Few : t.sleeper[h] = p <=> t.bedOf[p] = h

(* Who is in a house may be; a house without an owner admits nobody and has  *)
(* no sleeper; and who is in the game sleeps only until it is sent off.       *)
Housed(t) ==
  /\ \A h \in Homes, p \in Few : p \in t.online /\ t.pos[p] = h => Admits(t, h, p)
  /\ \A h \in Homes : t.owner[h] = nobody =>
       t.sleeper[h] = nobody /\ \A l \in Houses!Lists : t.invited[h][l] = {}
  /\ Paired(t)
  /\ \A h \in Homes, p \in Few : t.sleeper[h] = p /\ p \in t.online => p \in t.kick

(* A document exists while it is traded, by players in the game.             *)
Dealt(t) ==
  \A h \in Homes : /\ h \in t.transfer <=> t.deal[h] # Houses!NoDeal
                   /\ {t.deal[h].seller, t.deal[h].buyer} \ {nobody} \subseteq t.online

(* A window that is open is of a house. *)
Edited(t) == \A p \in Few : t.edit[p] = Houses!NoEdit \/ t.edit[p].house \in Homes

HousesInv == s \in HouseState /\ Housed(s) /\ Dealt(s) /\ Edited(s)

LEMMA HouseConstants ==
  /\ nobody \notin Few /\ none \notin Homes
  /\ Houses!NoDeal = [seller |-> nobody, buyer |-> nobody]
  /\ Houses!NoEdit = [house |-> none, list |-> "guests"]
  /\ Houses!Lists = {"guests", "subowners"}
BY PlayersAssumption DEF Houses!HousesAssumption, Houses!NoDeal, Houses!NoEdit, Houses!Lists

(* What the functions about a house leave alone. *)
Rest(r, t) == /\ r.online = t.online /\ r.kick = t.kick /\ r.edit = t.edit
              /\ r.transfer = t.transfer /\ r.deal = t.deal
Beds(r, t) == r.sleeper = t.sleeper /\ r.bedOf = t.bedOf

LEMMA AdmitsIs ==
  ASSUME NEW t \in HouseState, NEW h \in Homes, NEW p \in Few
  PROVE  Houses!IsInvited(t, h, p) <=> Admits(t, h, p)
<1>1. /\ t.invited[h].subowners = t.invited[h]["subowners"]
      /\ t.invited[h].guests = t.invited[h]["guests"]
  OBVIOUS
<1>2. CASE t.owner[h] = p
  BY <1>2 DEF Houses!IsInvited, Houses!AccessLevel, Admits
<1>3. CASE t.owner[h] # p /\ p \in t.invited[h].subowners
  BY <1>3, <1>1 DEF Houses!IsInvited, Houses!AccessLevel, Admits
<1>4. CASE t.owner[h] # p /\ p \in t.invited[h].guests \ t.invited[h].subowners
  BY <1>4, <1>1 DEF Houses!IsInvited, Houses!AccessLevel, Admits
<1>5. CASE /\ t.owner[h] # p /\ p \notin t.invited[h].subowners
           /\ p \notin t.invited[h].guests
  BY <1>5, <1>1 DEF Houses!IsInvited, Houses!AccessLevel, Admits
<1> QED BY <1>2, <1>3, <1>4, <1>5

LEMMA HousesHold == HousesInv => Houses!TypeOK /\ Houses!HousesKept
<1> SUFFICES ASSUME HousesInv PROVE Houses!TypeOK /\ Houses!HousesKept
  OBVIOUS
<1>1. Houses!TypeOK
  BY DEF HousesInv, HouseState, Houses!TypeOK
<1>2. \A h \in Homes : \A p \in Houses!In(s, h) : Houses!IsInvited(s, h, p)
  <2> SUFFICES ASSUME NEW h \in Homes, NEW p \in Houses!In(s, h)
               PROVE  Houses!IsInvited(s, h, p)
    OBVIOUS
  <2>1. p \in Few /\ p \in s.online /\ s.pos[p] = h
    BY DEF HousesInv, HouseState, Houses!In
  <2> QED BY <2>1, AdmitsIs DEF HousesInv, Housed
<1> QED BY <1>1, <1>2 DEF HousesInv, Housed, Paired, Dealt, Houses!HousesKept

LEMMA HousesInit == Houses!Init => HousesInv
<1> SUFFICES ASSUME Houses!Init PROVE HousesInv
  OBVIOUS
<1>1. s \in HouseState
  BY HouseConstants DEF Houses!Init, HouseState
<1> QED BY <1>1, HouseConstants DEF Houses!Init, HousesInv, Housed, Paired, Dealt, Edited

(* Those of out that are in h are put into the street. *)
LEMMA KickPlayersIs ==
  ASSUME NEW t \in HouseState, NEW h \in Homes, NEW out \in SUBSET Few,
         NEW r, r = Houses!KickPlayers(t, h, out)
  PROVE  /\ r \in HouseState
         /\ Rest(r, t) /\ Beds(r, t) /\ r.owner = t.owner /\ r.invited = t.invited
         /\ r.pos = [p \in Few |-> IF p \in t.online /\ t.pos[p] = h /\ p \in out
                                   THEN none ELSE t.pos[p]]
BY DEF Houses!KickPlayers, Houses!In, HouseState, Rest, Beds

(* Who may not be there any more is put into the street. *)
LEMMA SetAccessListIs ==
  ASSUME NEW t \in HouseState, NEW h \in Homes, NEW list \in Houses!Lists,
         NEW names \in SUBSET Few, NEW r, r = Houses!SetAccessList(t, h, list, names)
  PROVE  /\ r \in HouseState
         /\ Rest(r, t) /\ Beds(r, t) /\ r.owner = t.owner
         /\ \A g \in Homes, l \in Houses!Lists :
              r.invited[g][l] = IF g = h /\ l = list THEN names ELSE t.invited[g][l]
         /\ r.pos = [p \in Few |-> IF p \in t.online /\ t.pos[p] = h /\ ~ Admits(r, h, p)
                                   THEN none ELSE t.pos[p]]
<1> DEFINE set == [t EXCEPT !.invited[h][list] = names]
           out == {p \in Few : ~ Houses!IsInvited(set, h, p)}
<1>1. /\ set \in HouseState
      /\ Rest(set, t) /\ Beds(set, t) /\ set.owner = t.owner /\ set.pos = t.pos
      /\ \A g \in Homes, l \in Houses!Lists :
           set.invited[g][l] = IF g = h /\ l = list THEN names ELSE t.invited[g][l]
  BY DEF HouseState, Rest, Beds
<1>2. r = Houses!KickPlayers(set, h, out)
  BY DEF Houses!SetAccessList
<1>3. out = {p \in Few : ~ Admits(set, h, p)}
  BY <1>1, AdmitsIs
<1> HIDE DEF set, out
<1>4. /\ r \in HouseState
      /\ Rest(r, set) /\ Beds(r, set) /\ r.owner = set.owner /\ r.invited = set.invited
      /\ r.pos = [p \in Few |-> IF p \in set.online /\ set.pos[p] = h /\ p \in out
                                THEN none ELSE set.pos[p]]
  <2>1. out \in SUBSET Few
    BY <1>3
  <2> QED BY <1>1, <1>2, <2>1, KickPlayersIs
<1>7. \A p \in Few : Admits(r, h, p) <=> Admits(set, h, p)
  BY <1>4 DEF Admits
<1>8. Rest(r, t) /\ Beds(r, t) /\ r.owner = t.owner
  BY <1>1, <1>4 DEF Rest, Beds
<1>9. r.pos = [p \in Few |-> IF p \in t.online /\ t.pos[p] = h /\ ~ Admits(r, h, p)
                             THEN none ELSE t.pos[p]]
  BY <1>1, <1>3, <1>4, <1>7 DEF Rest
<1>10. \A g \in Homes, l \in Houses!Lists :
         r.invited[g][l] = IF g = h /\ l = list THEN names ELSE t.invited[g][l]
  BY <1>1, <1>4
<1> QED BY <1>4, <1>8, <1>9, <1>10

(* The sleeper of h, if there is one, wakes up. *)
LEMMA WakeUpIs ==
  ASSUME NEW t \in HouseState, NEW h \in Homes, NEW r, r = Houses!WakeUp(t, h),
         Paired(t)
  PROVE  /\ r \in HouseState
         /\ Rest(r, t) /\ r.pos = t.pos /\ r.owner = t.owner /\ r.invited = t.invited
         /\ r.sleeper = [t.sleeper EXCEPT ![h] = nobody]
         /\ \A p \in Few : r.bedOf[p] = IF t.sleeper[h] = p THEN none ELSE t.bedOf[p]
<1>1. CASE t.sleeper[h] = nobody
  <2>1. r = t
    BY <1>1 DEF Houses!WakeUp
  <2>2. \A p \in Few : t.sleeper[h] # p
    BY <1>1, HouseConstants
  <2> QED BY <1>1, <2>1, <2>2 DEF HouseState, Rest
<1>2. CASE t.sleeper[h] # nobody
  <2>1. t.sleeper[h] \in Few
    BY <1>2 DEF HouseState
  <2> DEFINE sl == [t.sleeper EXCEPT ![h] = nobody]
             bd == [t.bedOf EXCEPT ![t.sleeper[h]] = none]
  <2>2. r = [t EXCEPT !.sleeper = sl, !.bedOf = bd]
    BY <1>2 DEF Houses!WakeUp
  <2>3. /\ sl \in [Homes -> Few \cup {nobody}] /\ bd \in [Few -> Homes \cup {none}]
        /\ \A p \in Few : bd[p] = IF t.sleeper[h] = p THEN none ELSE t.bedOf[p]
    BY <2>1 DEF HouseState
  <2> HIDE DEF bd
  <2>4. r.sleeper = sl /\ r.bedOf = bd
    BY <2>2 DEF HouseState
  <2> HIDE DEF sl
  <2>5. /\ r \in HouseState /\ Rest(r, t)
        /\ r.pos = t.pos /\ r.owner = t.owner /\ r.invited = t.invited
    BY <2>2, <2>3 DEF HouseState, Rest
  <2>6. r.sleeper = [t.sleeper EXCEPT ![h] = nobody]
    BY <2>4 DEF sl
  <2> QED BY <2>3, <2>4, <2>5, <2>6
<1> QED BY <1>1, <1>2

(* A house is left to nobody: all who are in it are in the street, the lists *)
(* are empty and the sleeper is awake.                                       *)
LEMMA VacatedIs ==
  ASSUME NEW t \in HouseState, NEW h \in Homes, NEW r, r = Houses!Vacated(t, h),
         Paired(t)
  PROVE  /\ r \in HouseState
         /\ Rest(r, t)
         /\ r.owner = [t.owner EXCEPT ![h] = nobody]
         /\ r.sleeper = [t.sleeper EXCEPT ![h] = nobody]
         /\ \A p \in Few : r.bedOf[p] = IF t.sleeper[h] = p THEN none ELSE t.bedOf[p]
         /\ \A g \in Homes, l \in Houses!Lists :
              r.invited[g][l] = IF g = h THEN {} ELSE t.invited[g][l]
         /\ r.pos = [p \in Few |-> IF p \in t.online /\ t.pos[p] = h THEN none ELSE t.pos[p]]
<1> DEFINE a == Houses!KickPlayers(t, h, Few)
           b == Houses!WakeUp(a, h)
           c == [b EXCEPT !.owner[h] = nobody]
           d == Houses!SetAccessList(c, h, "subowners", {})
<1>1. /\ a \in HouseState
      /\ Rest(a, t) /\ Beds(a, t) /\ a.owner = t.owner /\ a.invited = t.invited
      /\ a.pos = [p \in Few |-> IF p \in t.online /\ t.pos[p] = h THEN none ELSE t.pos[p]]
  BY KickPlayersIs
<1>2. r = Houses!SetAccessList(d, h, "guests", {})
  BY DEF Houses!Vacated
<1> HIDE DEF a
<1>4. /\ b \in HouseState
      /\ Rest(b, a) /\ b.pos = a.pos /\ b.owner = a.owner /\ b.invited = a.invited
      /\ b.sleeper = [t.sleeper EXCEPT ![h] = nobody]
      /\ \A p \in Few : b.bedOf[p] = IF t.sleeper[h] = p THEN none ELSE t.bedOf[p]
  <2>1. Paired(a)
    BY <1>1 DEF Beds, Paired
  <2>2. b = Houses!WakeUp(a, h)
    OBVIOUS
  <2> HIDE DEF b
  <2>3. /\ b \in HouseState
        /\ Rest(b, a) /\ b.pos = a.pos /\ b.owner = a.owner /\ b.invited = a.invited
        /\ b.sleeper = [a.sleeper EXCEPT ![h] = nobody]
        /\ \A p \in Few : b.bedOf[p] = IF a.sleeper[h] = p THEN none ELSE a.bedOf[p]
    BY <1>1, <2>1, <2>2, WakeUpIs, SMTT(30)
  <2> QED BY <1>1, <2>3 DEF Beds
<1> HIDE DEF b
<1>5. /\ c \in HouseState
      /\ c.owner = [b.owner EXCEPT ![h] = nobody]
      /\ Rest(c, b) /\ Beds(c, b) /\ c.pos = b.pos /\ c.invited = b.invited
  BY <1>4 DEF HouseState, Rest, Beds
<1> HIDE DEF c
<1>6. /\ d \in HouseState
      /\ Rest(d, c) /\ Beds(d, c) /\ d.owner = c.owner
      /\ \A g \in Homes, l \in Houses!Lists :
           d.invited[g][l] = IF g = h /\ l = "subowners" THEN {} ELSE c.invited[g][l]
      /\ d.pos = [p \in Few |-> IF p \in c.online /\ c.pos[p] = h /\ ~ Admits(d, h, p)
                                THEN none ELSE c.pos[p]]
  <2>1. {} \in SUBSET Few /\ "subowners" \in Houses!Lists
    BY HouseConstants
  <2> QED BY <1>5, <2>1, SetAccessListIs
<1> HIDE DEF d
<1>7. /\ r \in HouseState
      /\ Rest(r, d) /\ Beds(r, d) /\ r.owner = d.owner
      /\ \A g \in Homes, l \in Houses!Lists :
           r.invited[g][l] = IF g = h /\ l = "guests" THEN {} ELSE d.invited[g][l]
      /\ r.pos = [p \in Few |-> IF p \in d.online /\ d.pos[p] = h /\ ~ Admits(r, h, p)
                                THEN none ELSE d.pos[p]]
  <2>1. {} \in SUBSET Few /\ "guests" \in Houses!Lists
    BY HouseConstants
  <2> QED BY <1>2, <1>6, <2>1, SetAccessListIs
<1>8. /\ c.pos = a.pos /\ c.online = t.online /\ d.online = t.online
      /\ c.invited = t.invited /\ c.owner = [t.owner EXCEPT ![h] = nobody]
      /\ r.owner = c.owner /\ r.sleeper = b.sleeper /\ r.bedOf = b.bedOf
      /\ Rest(r, t)
  BY <1>1, <1>4, <1>5, <1>6, <1>7 DEF Rest, Beds
<1>9. d.pos = a.pos /\ r.pos = a.pos
  <2>1. \A p \in Few : ~ (p \in t.online /\ a.pos[p] = h)
    BY <1>1, HouseConstants
  <2>2. a.pos \in [Few -> Homes \cup {none}]
    BY <1>1 DEF HouseState
  <2>3. d.pos = a.pos
    BY <1>6, <1>8, <2>1, <2>2
  <2> QED BY <1>7, <1>8, <2>1, <2>2, <2>3
<1>10. \A g \in Homes, l \in Houses!Lists :
         r.invited[g][l] = IF g = h THEN {} ELSE t.invited[g][l]
  BY <1>6, <1>7, <1>8, HouseConstants
<1> QED BY <1>1, <1>4, <1>7, <1>8, <1>9, <1>10

(* Who wakes up need not be sent off any more. *)
LEMMA StillSent ==
  ASSUME NEW t \in HouseState, Housed(t), NEW h \in Homes, NEW r, Rest(r, t),
         r.sleeper = [t.sleeper EXCEPT ![h] = nobody]
  PROVE  \A g \in Homes, q \in Few : r.sleeper[g] = q /\ q \in r.online => q \in r.kick
<1> SUFFICES ASSUME NEW g \in Homes, NEW q \in Few, r.sleeper[g] = q, q \in r.online
             PROVE  q \in r.kick
  OBVIOUS
<1>1. r.sleeper[g] = IF g = h THEN nobody ELSE t.sleeper[g]
  BY DEF HouseState
<1>2. t.sleeper[g] = q
  BY <1>1, HouseConstants
<1>3. r.online = t.online /\ r.kick = t.kick
  BY DEF Rest
<1> QED BY <1>2, <1>3 DEF Housed

(* Whoever gets a house or leaves it. *)
LEMMA SetOwnerKeeps ==
  ASSUME NEW t \in HouseState, Housed(t), NEW h \in Homes, NEW p \in Few \cup {nobody},
         NEW r, r = Houses!SetOwner(t, h, p)
  PROVE  r \in HouseState /\ Housed(r) /\ Rest(r, t)
<1>1. CASE t.owner[h] = p
  <2>1. r = t
    BY <1>1 DEF Houses!SetOwner
  <2> QED BY <2>1 DEF Rest
<1>2. CASE t.owner[h] # p /\ t.owner[h] = nobody
  <2>1. r = [t EXCEPT !.owner[h] = p]
    BY <1>2 DEF Houses!SetOwner
  <2>2. /\ r \in HouseState /\ Rest(r, t) /\ Beds(r, t)
        /\ r.pos = t.pos /\ r.invited = t.invited
        /\ r.owner = [t.owner EXCEPT ![h] = p]
    <3> DEFINE ow == [t.owner EXCEPT ![h] = p]
    <3>1. r = [t EXCEPT !.owner = ow]
      BY <2>1
    <3>2. ow \in [Homes -> Few \cup {nobody}]
      BY DEF HouseState
    <3> HIDE DEF ow
    <3>3. /\ r \in HouseState /\ Rest(r, t) /\ Beds(r, t)
          /\ r.pos = t.pos /\ r.invited = t.invited /\ r.owner = ow
      BY <3>1, <3>2 DEF HouseState, Rest, Beds
    <3> QED BY <3>3 DEF ow
  <2>3. \A g \in Homes, q \in Few : Admits(t, g, q) => Admits(r, g, q)
    <3> SUFFICES ASSUME NEW g \in Homes, NEW q \in Few, Admits(t, g, q)
                 PROVE  Admits(r, g, q)
      OBVIOUS
    <3>1. t.owner[g] # q \/ g # h
      BY <1>2, HouseConstants
    <3> QED BY <2>2, <3>1 DEF Admits, HouseState
  <2> HIDE DEF Rest
  <2>4. p # nobody
    BY <1>2
  <2>5. \A g \in Homes : r.owner[g] = nobody => t.owner[g] = nobody
    BY <2>2, <2>4 DEF HouseState
  <2> QED BY <2>2, <2>3, <2>5 DEF Housed, Paired, Beds, Rest
<1>3. CASE t.owner[h] # p /\ t.owner[h] # nobody
  <2> DEFINE v == Houses!Vacated(t, h)
  <2>1. r = [v EXCEPT !.owner[h] = p]
    BY <1>3 DEF Houses!SetOwner
  <2>2. /\ v \in HouseState
        /\ Rest(v, t)
        /\ v.owner = [t.owner EXCEPT ![h] = nobody]
        /\ v.sleeper = [t.sleeper EXCEPT ![h] = nobody]
        /\ \A q \in Few : v.bedOf[q] = IF t.sleeper[h] = q THEN none ELSE t.bedOf[q]
        /\ \A g \in Homes, l \in Houses!Lists :
             v.invited[g][l] = IF g = h THEN {} ELSE t.invited[g][l]
        /\ v.pos = [q \in Few |-> IF q \in t.online /\ t.pos[q] = h THEN none ELSE t.pos[q]]
    BY VacatedIs DEF Housed
  <2> HIDE DEF v
  <2>3. /\ r \in HouseState /\ Rest(r, v) /\ Beds(r, v)
        /\ r.pos = v.pos /\ r.invited = v.invited
        /\ r.owner = [v.owner EXCEPT ![h] = p]
    <3> DEFINE ow == [v.owner EXCEPT ![h] = p]
    <3>1. r = [v EXCEPT !.owner = ow]
      BY <2>1
    <3>2. ow \in [Homes -> Few \cup {nobody}]
      BY <2>2 DEF HouseState
    <3> HIDE DEF ow
    <3>3. /\ r \in HouseState /\ Rest(r, v) /\ Beds(r, v)
          /\ r.pos = v.pos /\ r.invited = v.invited /\ r.owner = ow
      BY <2>2, <3>1, <3>2 DEF HouseState, Rest, Beds
    <3> QED BY <3>3 DEF ow
  <2>4. /\ r.owner = [t.owner EXCEPT ![h] = p]
        /\ r.sleeper = [t.sleeper EXCEPT ![h] = nobody]
        /\ \A q \in Few : r.bedOf[q] = IF t.sleeper[h] = q THEN none ELSE t.bedOf[q]
        /\ \A g \in Homes, l \in Houses!Lists :
             r.invited[g][l] = IF g = h THEN {} ELSE t.invited[g][l]
        /\ r.pos = [q \in Few |-> IF q \in t.online /\ t.pos[q] = h THEN none ELSE t.pos[q]]
        /\ Rest(r, t)
    BY <2>2, <2>3 DEF Rest, Beds, HouseState
  <2>5. \A g \in Homes, q \in Few : q \in r.online /\ r.pos[q] = g => Admits(r, g, q)
    <3> SUFFICES ASSUME NEW g \in Homes, NEW q \in Few, q \in r.online, r.pos[q] = g
                 PROVE  Admits(r, g, q)
      OBVIOUS
    <3>1. q \in t.online /\ t.pos[q] = g /\ g # h
      BY <2>4, HouseConstants DEF Rest
    <3>2. Admits(t, g, q)
      BY <3>1 DEF Housed
    <3> QED BY <2>4, <3>1, <3>2, HouseConstants DEF Admits, HouseState
  <2>6. ASSUME NEW g \in Homes, r.owner[g] = nobody
        PROVE  r.sleeper[g] = nobody /\ \A l \in Houses!Lists : r.invited[g][l] = {}
    <3>1. CASE g = h
      BY <2>4, <3>1 DEF HouseState
    <3>2. CASE g # h
      <4>1. t.owner[g] = nobody
        BY <2>4, <2>6, <3>2 DEF HouseState
      <4> QED BY <2>4, <3>2, <4>1 DEF Housed, HouseState
    <3> QED BY <3>1, <3>2
  <2>7. Paired(r)
    <3> SUFFICES ASSUME NEW g \in Homes, NEW q \in Few
                 PROVE  r.sleeper[g] = q <=> r.bedOf[q] = g
      BY DEF Paired
    <3>1. t.sleeper[g] = q <=> t.bedOf[q] = g
      BY DEF Housed, Paired
    <3>2. t.sleeper[h] = q <=> t.bedOf[q] = h
      BY DEF Housed, Paired
    <3> QED BY <2>4, <3>1, <3>2, HouseConstants DEF HouseState
  <2>8. \A g \in Homes, q \in Few : r.sleeper[g] = q /\ q \in r.online => q \in r.kick
    BY <2>4, StillSent
  <2> QED BY <2>3, <2>4, <2>5, <2>6, <2>7, <2>8 DEF Housed
<1> QED BY <1>1, <1>2, <1>3

LEMMA WakeUpKeeps ==
  ASSUME NEW t \in HouseState, Housed(t), NEW h \in Homes, NEW r, r = Houses!WakeUp(t, h)
  PROVE  /\ r \in HouseState /\ Housed(r) /\ Rest(r, t)
         /\ r.pos = t.pos /\ r.owner = t.owner /\ r.invited = t.invited
         /\ r.sleeper = [t.sleeper EXCEPT ![h] = nobody]
<1>1. /\ r \in HouseState /\ Rest(r, t)
      /\ r.pos = t.pos /\ r.owner = t.owner /\ r.invited = t.invited
      /\ r.sleeper = [t.sleeper EXCEPT ![h] = nobody]
      /\ \A p \in Few : r.bedOf[p] = IF t.sleeper[h] = p THEN none ELSE t.bedOf[p]
  BY WakeUpIs DEF Housed
<1>2. Paired(r)
  <2> SUFFICES ASSUME NEW g \in Homes, NEW q \in Few
               PROVE  r.sleeper[g] = q <=> r.bedOf[q] = g
    BY DEF Paired
  <2>1. t.sleeper[g] = q <=> t.bedOf[q] = g
    BY DEF Housed, Paired
  <2>2. t.sleeper[h] = q <=> t.bedOf[q] = h
    BY DEF Housed, Paired
  <2> QED BY <1>1, <2>1, <2>2, HouseConstants DEF HouseState
<1>3. \A g \in Homes, q \in Few : q \in r.online /\ r.pos[q] = g => Admits(r, g, q)
  BY <1>1 DEF Housed, Rest, Admits
<1>4. \A g \in Homes, q \in Few : r.sleeper[g] = q /\ q \in r.online => q \in r.kick
  BY <1>1, StillSent
<1>5. \A g \in Homes : r.owner[g] = nobody =>
        r.sleeper[g] = nobody /\ \A l \in Houses!Lists : r.invited[g][l] = {}
  BY <1>1 DEF Housed, HouseState
<1> QED BY <1>1, <1>2, <1>3, <1>4, <1>5 DEF Housed

(* CloseDeals: the documents of p are taken back. *)
LEMMA CloseDealsIs ==
  ASSUME NEW t \in HouseState, Dealt(t), NEW p \in Few, NEW r, r = Houses!CloseDeals(t, p)
  PROVE  /\ r \in HouseState /\ Dealt(r)
         /\ \A h \in Homes : p \notin {r.deal[h].seller, r.deal[h].buyer}
         /\ Beds(r, t) /\ r.pos = t.pos /\ r.owner = t.owner /\ r.invited = t.invited
         /\ r.online = t.online /\ r.kick = t.kick /\ r.edit = t.edit
<1> DEFINE closed == {h \in Homes : p \in {t.deal[h].seller, t.deal[h].buyer}}
           tf == t.transfer \ closed
           dl == [h \in Homes |-> IF h \in closed THEN Houses!NoDeal ELSE t.deal[h]]
<1>1. r = [t EXCEPT !.transfer = tf, !.deal = dl]
  BY DEF Houses!CloseDeals
<1>2. /\ tf \in SUBSET Homes
      /\ dl \in [Homes -> [seller : Few \cup {nobody}, buyer : Few \cup {nobody}]]
      /\ \A h \in Homes : dl[h] = IF h \in closed THEN Houses!NoDeal ELSE t.deal[h]
  BY HouseConstants DEF HouseState
<1>3. \A h \in Homes : p \notin {dl[h].seller, dl[h].buyer}
  BY <1>2, HouseConstants
<1> HIDE DEF dl
<1>4. \A h \in Homes : h \in tf <=> dl[h] # Houses!NoDeal
  BY <1>2 DEF Dealt
<1>5. ASSUME NEW h \in Homes
      PROVE  {dl[h].seller, dl[h].buyer} \ {nobody} \subseteq t.online
  <2>1. CASE h \in closed
    <3>1. dl[h].seller = nobody /\ dl[h].buyer = nobody
      BY <1>2, <2>1, HouseConstants
    <3> QED BY <3>1
  <2>2. CASE h \notin closed
    BY <1>2, <2>2 DEF Dealt
  <2> QED BY <2>1, <2>2
<1> HIDE DEF tf, closed
<1>6. /\ r \in HouseState /\ r.transfer = tf /\ r.deal = dl
      /\ Beds(r, t) /\ r.pos = t.pos /\ r.owner = t.owner /\ r.invited = t.invited
      /\ r.online = t.online /\ r.kick = t.kick /\ r.edit = t.edit
  BY <1>1, <1>2 DEF HouseState, Beds
<1> QED BY <1>3, <1>4, <1>5, <1>6 DEF Dealt

(* What Housed says depends on these fields only. *)
LEMMA SameHoused ==
  ASSUME NEW t, NEW r, Housed(t), Beds(r, t), r.pos = t.pos, r.owner = t.owner,
         r.invited = t.invited, r.online = t.online, r.kick = t.kick
  PROVE  Housed(r)
BY DEF Housed, Paired, Beds, Admits

LEMMA SameRest ==
  ASSUME NEW t, NEW r, Rest(r, t), Dealt(t), Edited(t)
  PROVE  Dealt(r) /\ Edited(r)
BY DEF Rest, Dealt, Edited

LEMMA HousesBuy ==
  ASSUME HousesInv, NEW p \in Few, NEW h \in Homes, Houses!BuyHouse(p, h)
  PROVE  HousesInv'
<1>1. s' = Houses!SetOwner(s, h, p)
  BY DEF Houses!BuyHouse
<1>2. s' \in HouseState /\ Housed(s') /\ Rest(s', s)
  BY <1>1, SetOwnerKeeps DEF HousesInv
<1> QED BY <1>2, SameRest DEF HousesInv

LEMMA HousesLeave ==
  ASSUME HousesInv, NEW p \in Few, NEW h \in Homes, Houses!LeaveHouse(p, h)
  PROVE  HousesInv'
<1>1. s' = Houses!SetOwner(s, h, nobody)
  BY DEF Houses!LeaveHouse
<1>2. s' \in HouseState /\ Housed(s') /\ Rest(s', s)
  BY <1>1, SetOwnerKeeps DEF HousesInv
<1> QED BY <1>2, SameRest DEF HousesInv

LEMMA HousesStartTrade ==
  ASSUME HousesInv, NEW p \in Few, NEW h \in Homes, NEW q \in Few, Houses!StartTrade(p, h, q)
  PROVE  HousesInv'
<1> DEFINE d == [seller |-> p, buyer |-> q]
           tf == s.transfer \cup {h}
           dl == [s.deal EXCEPT ![h] = d]
<1>1. s' = [s EXCEPT !.transfer = tf, !.deal = dl]
  BY DEF Houses!StartTrade
<1>2. p \in s.online /\ q \in s.online
  BY DEF Houses!StartTrade, Houses!In
<1>3. s \in HouseState /\ Housed(s) /\ Dealt(s) /\ Edited(s)
  BY DEF HousesInv
<1>4. /\ d \in [seller : Few \cup {nobody}, buyer : Few \cup {nobody}]
      /\ d.seller = p /\ d.buyer = q /\ d # Houses!NoDeal
  BY HouseConstants
<1> HIDE DEF d
<1>5. /\ dl \in [Homes -> [seller : Few \cup {nobody}, buyer : Few \cup {nobody}]]
      /\ dl[h] = d /\ \A g \in Homes \ {h} : dl[g] = s.deal[g]
      /\ tf \in SUBSET Homes
  BY <1>3, <1>4 DEF HouseState
<1> HIDE DEF dl
<1>6. \A g \in Homes : /\ g \in tf <=> dl[g] # Houses!NoDeal
                       /\ {dl[g].seller, dl[g].buyer} \ {nobody} \subseteq s.online
  BY <1>2, <1>3, <1>4, <1>5 DEF Dealt
<1> HIDE DEF tf
<1>7. /\ s' \in HouseState /\ s'.transfer = tf /\ s'.deal = dl
      /\ Beds(s', s) /\ s'.pos = s.pos /\ s'.owner = s.owner /\ s'.invited = s.invited
      /\ s'.online = s.online /\ s'.kick = s.kick /\ s'.edit = s.edit
  BY <1>1, <1>3, <1>5 DEF HouseState, Beds
<1>8. Housed(s')
  BY <1>3, <1>7, SameHoused
<1> QED BY <1>3, <1>6, <1>7, <1>8 DEF HousesInv, Dealt, Edited
LEMMA HousesExecute ==
  ASSUME HousesInv, NEW q \in Few, NEW h \in Homes, Houses!ExecuteTransfer(q, h)
  PROVE  HousesInv'
<1> DEFINE w == Houses!SetOwner(s, h, q)
           tf == w.transfer \ {h}
           dl == [w.deal EXCEPT ![h] = Houses!NoDeal]
<1>1. s' = [w EXCEPT !.transfer = tf, !.deal = dl]
  BY DEF Houses!ExecuteTransfer
<1>2. s \in HouseState /\ Housed(s) /\ Dealt(s) /\ Edited(s)
  BY DEF HousesInv
<1>3. w \in HouseState /\ Housed(w) /\ Rest(w, s)
  BY <1>2, SetOwnerKeeps
<1> HIDE DEF w
<1>4. Dealt(w) /\ Edited(w)
  BY <1>2, <1>3, SameRest
<1>5. /\ dl \in [Homes -> [seller : Few \cup {nobody}, buyer : Few \cup {nobody}]]
      /\ dl[h] = Houses!NoDeal /\ \A g \in Homes \ {h} : dl[g] = w.deal[g]
      /\ tf \in SUBSET Homes
  BY <1>3, HouseConstants DEF HouseState
<1> HIDE DEF dl
<1>6. ASSUME NEW g \in Homes
      PROVE  /\ g \in tf <=> dl[g] # Houses!NoDeal
             /\ {dl[g].seller, dl[g].buyer} \ {nobody} \subseteq w.online
  <2>1. CASE g = h
    <3>1. dl[g].seller = nobody /\ dl[g].buyer = nobody
      BY <1>5, <2>1, HouseConstants
    <3> QED BY <1>5, <2>1, <3>1
  <2>2. CASE g # h
    BY <1>4, <1>5, <2>2 DEF Dealt
  <2> QED BY <2>1, <2>2
<1> HIDE DEF tf
<1>7. /\ s' \in HouseState /\ s'.transfer = tf /\ s'.deal = dl
      /\ Beds(s', w) /\ s'.pos = w.pos /\ s'.owner = w.owner /\ s'.invited = w.invited
      /\ s'.online = w.online /\ s'.kick = w.kick /\ s'.edit = w.edit
  BY <1>1, <1>3, <1>5 DEF HouseState, Beds
<1>8. Housed(s')
  BY <1>3, <1>7, SameHoused
<1> QED BY <1>4, <1>6, <1>7, <1>8 DEF HousesInv, Dealt, Edited

LEMMA HousesClose ==
  ASSUME HousesInv, NEW p \in Few, Houses!CloseTrade(p)
  PROVE  HousesInv'
<1>1. s' = Houses!CloseDeals(s, p)
  BY DEF Houses!CloseTrade
<1>2. /\ s' \in HouseState /\ Dealt(s')
      /\ Beds(s', s) /\ s'.pos = s.pos /\ s'.owner = s.owner /\ s'.invited = s.invited
      /\ s'.online = s.online /\ s'.kick = s.kick /\ s'.edit = s.edit
  BY <1>1, CloseDealsIs DEF HousesInv
<1>3. Housed(s')
  BY <1>2, SameHoused DEF HousesInv
<1> QED BY <1>2, <1>3 DEF HousesInv, Edited

LEMMA HousesOpenWindow ==
  ASSUME HousesInv, NEW p \in Few, NEW h \in Homes, NEW list \in Houses!Lists,
         Houses!OpenWindow(p, h, list)
  PROVE  HousesInv'
<1> DEFINE e == [house |-> h, list |-> list]
           ed == [s.edit EXCEPT ![p] = e]
<1>1. s' = [s EXCEPT !.edit = ed]
  BY DEF Houses!OpenWindow
<1>2. s \in HouseState /\ Housed(s) /\ Dealt(s) /\ Edited(s)
  BY DEF HousesInv
<1>3. e \in [house : Homes \cup {none}, list : Houses!Lists] /\ e.house = h
  OBVIOUS
<1> HIDE DEF e
<1>4. /\ ed \in [Few -> [house : Homes \cup {none}, list : Houses!Lists]]
      /\ ed[p] = e /\ \A q \in Few \ {p} : ed[q] = s.edit[q]
  BY <1>2, <1>3 DEF HouseState
<1> HIDE DEF ed
<1>5. /\ s' \in HouseState /\ s'.edit = ed /\ s'.transfer = s.transfer /\ s'.deal = s.deal
      /\ Beds(s', s) /\ s'.pos = s.pos /\ s'.owner = s.owner /\ s'.invited = s.invited
      /\ s'.online = s.online /\ s'.kick = s.kick
  BY <1>1, <1>2, <1>4 DEF HouseState, Beds
<1>6. Housed(s')
  BY <1>2, <1>5, SameHoused
<1>7. Edited(s')
  BY <1>2, <1>3, <1>4, <1>5 DEF Edited
<1> QED BY <1>2, <1>5, <1>6, <1>7 DEF HousesInv, Dealt

(* Who may edit a list of a house is its owner or is on one of its lists:    *)
(* the house has an owner.                                                   *)
LEMMA CanEditOwned ==
  ASSUME NEW t \in HouseState, Housed(t), NEW h \in Homes, NEW list \in Houses!Lists,
         NEW p \in Few, Houses!CanEdit(t, h, list, p)
  PROVE  t.owner[h] # nobody
<1>1. Houses!IsInvited(t, h, p)
  BY DEF Houses!CanEdit, Houses!IsInvited
<1>2. Admits(t, h, p)
  BY <1>1, AdmitsIs
<1> QED BY <1>2, HouseConstants DEF Admits, Housed

LEMMA SetAccessListKeeps ==
  ASSUME NEW t \in HouseState, Housed(t), NEW h \in Homes, NEW list \in Houses!Lists,
         NEW names \in SUBSET Few, t.owner[h] # nobody,
         NEW r, r = Houses!SetAccessList(t, h, list, names)
  PROVE  r \in HouseState /\ Housed(r) /\ Rest(r, t)
<1>1. /\ r \in HouseState
      /\ Rest(r, t) /\ Beds(r, t) /\ r.owner = t.owner
      /\ \A g \in Homes, l \in Houses!Lists :
           r.invited[g][l] = IF g = h /\ l = list THEN names ELSE t.invited[g][l]
      /\ r.pos = [p \in Few |-> IF p \in t.online /\ t.pos[p] = h /\ ~ Admits(r, h, p)
                                THEN none ELSE t.pos[p]]
  BY SetAccessListIs
<1>2. ASSUME NEW g \in Homes, NEW q \in Few, q \in r.online, r.pos[q] = g
      PROVE  Admits(r, g, q)
  <2>1. q \in t.online /\ t.pos[q] = g
    BY <1>1, <1>2, HouseConstants DEF Rest
  <2>2. CASE g = h
    BY <1>1, <1>2, <2>1, <2>2, HouseConstants
  <2>3. CASE g # h
    <3>1. Admits(t, g, q)
      BY <2>1 DEF Housed
    <3> QED BY <1>1, <2>3, <3>1, HouseConstants DEF Admits
  <2> QED BY <2>2, <2>3
<1>3. \A g \in Homes : r.owner[g] = nobody =>
        r.sleeper[g] = nobody /\ \A l \in Houses!Lists : r.invited[g][l] = {}
  <2> SUFFICES ASSUME NEW g \in Homes, r.owner[g] = nobody
               PROVE  r.sleeper[g] = nobody /\ \A l \in Houses!Lists : r.invited[g][l] = {}
    OBVIOUS
  <2>1. g # h /\ t.owner[g] = nobody
    BY <1>1
  <2> QED BY <1>1, <2>1 DEF Housed, Beds
<1>4. Paired(r) /\ \A g \in Homes, q \in Few : r.sleeper[g] = q /\ q \in r.online => q \in r.kick
  BY <1>1 DEF Housed, Paired, Beds, Rest
<1> QED BY <1>1, <1>2, <1>3, <1>4 DEF Housed

LEMMA HousesUpdateWindow ==
  ASSUME HousesInv, NEW p \in Few, NEW names \in SUBSET Few, Houses!UpdateHouseWindow(p, names)
  PROVE  HousesInv'
<1> DEFINE e == s.edit[p]
           w == IF Houses!CanEdit(s, e.house, e.list, p)
                THEN Houses!SetAccessList(s, e.house, e.list, names) ELSE s
           ed == [w.edit EXCEPT ![p] = Houses!NoEdit]
<1>1. s' = [w EXCEPT !.edit = ed] /\ e # Houses!NoEdit
  BY DEF Houses!UpdateHouseWindow
<1>2. s \in HouseState /\ Housed(s) /\ Dealt(s) /\ Edited(s)
  BY DEF HousesInv
<1>3. e.house \in Homes /\ e.list \in Houses!Lists
  BY <1>1, <1>2 DEF Edited, HouseState
<1> HIDE DEF e
<1>4. w \in HouseState /\ Housed(w) /\ Rest(w, s)
  <2>1. CASE Houses!CanEdit(s, e.house, e.list, p)
    <3>1. s.owner[e.house] # nobody
      BY <1>2, <1>3, <2>1, CanEditOwned
    <3>2. w = Houses!SetAccessList(s, e.house, e.list, names)
      BY <2>1
    <3> HIDE DEF w
    <3> QED BY <1>2, <1>3, <3>1, <3>2, SetAccessListKeeps
  <2>2. CASE ~ Houses!CanEdit(s, e.house, e.list, p)
    BY <1>2, <2>2 DEF Rest
  <2> QED BY <2>1, <2>2
<1> HIDE DEF w
<1>5. Dealt(w) /\ Edited(w)
  BY <1>2, <1>4, SameRest
<1>6. /\ ed \in [Few -> [house : Homes \cup {none}, list : Houses!Lists]]
      /\ ed[p] = Houses!NoEdit /\ \A q \in Few \ {p} : ed[q] = w.edit[q]
  BY <1>4, HouseConstants DEF HouseState
<1> HIDE DEF ed
<1>7. /\ s' \in HouseState /\ s'.edit = ed /\ s'.transfer = w.transfer /\ s'.deal = w.deal
      /\ Beds(s', w) /\ s'.pos = w.pos /\ s'.owner = w.owner /\ s'.invited = w.invited
      /\ s'.online = w.online /\ s'.kick = w.kick
  BY <1>1, <1>4, <1>6 DEF HouseState, Beds
<1>8. Housed(s')
  BY <1>4, <1>7, SameHoused
<1>9. Edited(s')
  BY <1>5, <1>6, <1>7 DEF Edited
<1> QED BY <1>5, <1>7, <1>8, <1>9 DEF HousesInv, Dealt
(* Who is put into the street, or into a house that admits it.               *)
LEMMA HousesMove ==
  ASSUME HousesInv, NEW ps \in [Few -> Homes \cup {none}], s' = [s EXCEPT !.pos = ps],
         \A p \in Few : ps[p] = s.pos[p] \/ ps[p] = none \/ Admits(s, ps[p], p)
  PROVE  HousesInv'
<1>1. s \in HouseState /\ Housed(s) /\ Dealt(s) /\ Edited(s)
  BY DEF HousesInv
<1>2. /\ s' \in HouseState /\ Rest(s', s) /\ Beds(s', s) /\ s'.pos = ps
      /\ s'.owner = s.owner /\ s'.invited = s.invited
  BY <1>1 DEF HouseState, Rest, Beds
<1>3. \A g \in Homes, q \in Few : q \in s'.online /\ s'.pos[q] = g => Admits(s', g, q)
  <2> SUFFICES ASSUME NEW g \in Homes, NEW q \in Few, q \in s'.online, s'.pos[q] = g
               PROVE  Admits(s', g, q)
    OBVIOUS
  <2>1. q \in s.online /\ ps[q] = g
    BY <1>2 DEF Rest
  <2>2. s.pos[q] = g \/ Admits(s, g, q)
    BY <2>1, HouseConstants
  <2>3. Admits(s, g, q)
    BY <1>1, <2>1, <2>2 DEF Housed
  <2> QED BY <1>2, <2>3 DEF Admits
<1>4. Housed(s')
  BY <1>1, <1>2, <1>3 DEF Housed, Paired, Rest, Beds
<1>5. Dealt(s') /\ Edited(s')
  BY <1>1, <1>2, SameRest
<1> QED BY <1>2, <1>4, <1>5 DEF HousesInv

LEMMA HousesKick ==
  ASSUME HousesInv, NEW p \in Few, NEW q \in Few, Houses!KickGuest(p, q)
  PROVE  HousesInv'
<1> DEFINE h == s.pos[q]
           ps == [o \in Few |-> IF o \in Houses!In(s, h) \cap {q} THEN none ELSE s.pos[o]]
<1>1. s' = [s EXCEPT !.pos = ps]
  BY DEF Houses!KickGuest, Houses!KickPlayers
<1>2. ps \in [Few -> Homes \cup {none}] /\ \A o \in Few : ps[o] = s.pos[o] \/ ps[o] = none
  BY DEF HousesInv, HouseState
<1> HIDE DEF ps
<1> QED BY <1>1, <1>2, HousesMove

LEMMA HousesEnter ==
  ASSUME HousesInv, NEW p \in Few, NEW h \in Homes, Houses!Enter(p, h)
  PROVE  HousesInv'
<1> DEFINE ps == [s.pos EXCEPT ![p] = h]
<1>1. s' = [s EXCEPT !.pos = ps] /\ Houses!IsInvited(s, h, p)
  BY DEF Houses!Enter
<1>2. Admits(s, h, p)
  BY <1>1, AdmitsIs DEF HousesInv
<1>3. ps \in [Few -> Homes \cup {none}] /\ \A o \in Few : ps[o] = IF o = p THEN h ELSE s.pos[o]
  BY DEF HousesInv, HouseState
<1> HIDE DEF ps
<1>4. \A o \in Few : ps[o] = s.pos[o] \/ ps[o] = none \/ Admits(s, ps[o], o)
  BY <1>2, <1>3
<1> QED BY <1>1, <1>3, <1>4, HousesMove

LEMMA HousesExit ==
  ASSUME HousesInv, NEW p \in Few, Houses!Exit(p)
  PROVE  HousesInv'
<1> DEFINE ps == [s.pos EXCEPT ![p] = none]
<1>1. s' = [s EXCEPT !.pos = ps]
  BY DEF Houses!Exit
<1>2. ps \in [Few -> Homes \cup {none}] /\ \A o \in Few : ps[o] = s.pos[o] \/ ps[o] = none
  BY DEF HousesInv, HouseState
<1> HIDE DEF ps
<1> QED BY <1>1, <1>2, HousesMove

(* Who is in a house and goes to sleep is admitted by it: it has an owner;   *)
(* and nobody goes to sleep twice before it is sent off.                     *)
LEMMA HousesUseBed ==
  ASSUME HousesInv, NEW p \in Few, NEW h \in Homes, Houses!UseBed(p, h)
  PROVE  HousesInv'
<1>1. s \in HouseState /\ Housed(s) /\ Dealt(s) /\ Edited(s)
  BY DEF HousesInv
<1>2. p \in s.online /\ s.pos[p] = h /\ p \notin s.kick
  BY DEF Houses!UseBed, Houses!In
<1>3. CASE s.sleeper[h] # nobody /\ s' = Houses!WakeUp(s, h)
  <2>1. s' \in HouseState /\ Housed(s') /\ Rest(s', s)
    BY <1>1, <1>3, WakeUpKeeps
  <2> QED BY <1>1, <2>1, SameRest DEF HousesInv
<1>4. CASE /\ s.sleeper[h] = nobody
           /\ s' = [s EXCEPT !.sleeper[h] = p, !.bedOf[p] = h, !.kick = s.kick \cup {p}]
  <2> DEFINE sl == [s.sleeper EXCEPT ![h] = p]
             bd == [s.bedOf EXCEPT ![p] = h]
             kk == s.kick \cup {p}
  <2>1. s' = [s EXCEPT !.sleeper = sl, !.bedOf = bd, !.kick = kk]
    BY <1>4
  <2>2. /\ sl \in [Homes -> Few \cup {nobody}] /\ bd \in [Few -> Homes \cup {none}]
        /\ kk \in SUBSET Few
        /\ \A g \in Homes : sl[g] = IF g = h THEN p ELSE s.sleeper[g]
        /\ \A q \in Few : bd[q] = IF q = p THEN h ELSE s.bedOf[q]
    BY <1>1 DEF HouseState
  <2>3. \A q \in Few : q \in kk <=> q = p \/ q \in s.kick
    OBVIOUS
  <2> HIDE DEF sl, bd, kk
  <2>4. /\ s' \in HouseState /\ s'.sleeper = sl /\ s'.bedOf = bd /\ s'.kick = kk
        /\ s'.pos = s.pos /\ s'.owner = s.owner /\ s'.invited = s.invited
        /\ s'.online = s.online /\ s'.edit = s.edit
        /\ s'.transfer = s.transfer /\ s'.deal = s.deal
    BY <1>1, <2>1, <2>2 DEF HouseState
  <2>5. \A g \in Homes : s.sleeper[g] # p /\ s.bedOf[p] # g
    BY <1>1, <1>2 DEF Housed, Paired
  <2>6. s.owner[h] # nobody
    <3>1. Admits(s, h, p)
      BY <1>1, <1>2 DEF Housed
    <3> QED BY <1>1, <3>1, HouseConstants DEF Housed, Admits
  <2>7. Paired(s')
    <3> SUFFICES ASSUME NEW g \in Homes, NEW q \in Few PROVE sl[g] = q <=> bd[q] = g
      BY <2>4 DEF Paired
    <3>1. s.sleeper[g] = q <=> s.bedOf[q] = g
      BY <1>1 DEF Housed, Paired
    <3>2. s.bedOf[q] # h
      BY <1>1, <1>4, HouseConstants DEF Housed, Paired
    <3> QED BY <2>2, <2>5, <3>1, <3>2
  <2>8. \A g \in Homes, q \in Few : sl[g] = q /\ q \in s.online => q \in kk
    BY <1>1, <2>2, <2>3 DEF Housed
  <2>9. \A g \in Homes : s.owner[g] = nobody => sl[g] = nobody
    BY <1>1, <2>2, <2>6 DEF Housed
  <2>10. Housed(s')
    BY <1>1, <2>4, <2>7, <2>8, <2>9 DEF Housed, Admits
  <2> QED BY <1>1, <2>4, <2>10 DEF HousesInv, Dealt, Edited
<1> QED BY <1>3, <1>4 DEF Houses!UseBed

LEMMA HousesLogin ==
  ASSUME HousesInv, NEW p \in Few, Houses!Login(p)
  PROVE  HousesInv'
<1> DEFINE h == s.pos[p]
           w == IF s.bedOf[p] = none THEN s ELSE Houses!WakeUp(s, s.bedOf[p])
           out == h # none /\ ~ Houses!IsInvited(s, h, p)
           on == w.online \cup {p}
           ps == [w.pos EXCEPT ![p] = IF out THEN none ELSE h]
<1>1. s' = [w EXCEPT !.online = on, !.pos = ps]
  BY DEF Houses!Login
<1>2. s \in HouseState /\ Housed(s) /\ Dealt(s) /\ Edited(s)
  BY DEF HousesInv
<1>3. /\ w \in HouseState /\ Housed(w) /\ Rest(w, s)
      /\ w.pos = s.pos /\ w.owner = s.owner /\ w.invited = s.invited
      /\ \A g \in Homes : w.sleeper[g] # p
  <2>1. CASE s.bedOf[p] = none
    BY <1>2, <2>1, HouseConstants DEF Rest, Housed, Paired
  <2>2. CASE s.bedOf[p] # none
    <3>1. s.bedOf[p] \in Homes
      BY <1>2, <2>2 DEF HouseState
    <3>2. w = Houses!WakeUp(s, s.bedOf[p])
      BY <2>2
    <3> HIDE DEF w
    <3>3. /\ w \in HouseState /\ Housed(w) /\ Rest(w, s)
          /\ w.pos = s.pos /\ w.owner = s.owner /\ w.invited = s.invited
          /\ w.sleeper = [s.sleeper EXCEPT ![s.bedOf[p]] = nobody]
      BY <1>2, <3>1, <3>2, WakeUpKeeps
    <3>4. \A g \in Homes : s.sleeper[g] = p <=> s.bedOf[p] = g
      BY <1>2 DEF Housed, Paired
    <3>5. \A g \in Homes : w.sleeper[g] # p
      BY <1>2, <3>3, <3>4, HouseConstants DEF HouseState
    <3> QED BY <3>3, <3>5
  <2> QED BY <2>1, <2>2
<1> HIDE DEF w
<1>4. /\ ps \in [Few -> Homes \cup {none}] /\ on \in SUBSET Few
      /\ \A q \in Few : ps[q] = IF q = p THEN (IF out THEN none ELSE h) ELSE w.pos[q]
      /\ \A q \in Few : q \in on <=> q = p \/ q \in w.online
      /\ w.online \subseteq on
  BY <1>2, <1>3 DEF HouseState
<1>5. ~ out => h = none \/ Admits(s, h, p)
  BY <1>2, AdmitsIs DEF HouseState
<1> HIDE DEF ps, on, out
<1>6. /\ s' \in HouseState /\ s'.online = on /\ s'.pos = ps
      /\ Beds(s', w) /\ s'.owner = w.owner /\ s'.invited = w.invited
      /\ s'.kick = w.kick /\ s'.edit = w.edit /\ s'.transfer = w.transfer /\ s'.deal = w.deal
  BY <1>1, <1>3, <1>4 DEF HouseState, Beds
<1>7. ASSUME NEW g \in Homes, NEW q \in Few, q \in s'.online, s'.pos[q] = g
      PROVE  Admits(s', g, q)
  <2>1. Admits(w, g, q)
    <3>1. CASE q = p
      <4>1. ~ out /\ h = g
        BY <1>4, <1>6, <1>7, <3>1, HouseConstants
      <4>2. Admits(s, g, q)
        BY <1>5, <3>1, <4>1, HouseConstants
      <4> QED BY <1>3, <4>2 DEF Admits
    <3>2. CASE q # p
      BY <1>3, <1>4, <1>6, <1>7, <3>2 DEF Housed
    <3> QED BY <3>1, <3>2
  <2> QED BY <1>6, <2>1 DEF Admits
<1>8. \A g \in Homes, q \in Few : s'.sleeper[g] = q /\ q \in s'.online => q \in s'.kick
  BY <1>3, <1>4, <1>6 DEF Housed, Beds
<1>9. Housed(s')
  BY <1>3, <1>6, <1>7, <1>8 DEF Housed, Paired, Beds
<1>10. Dealt(w) /\ Edited(w)
  BY <1>2, <1>3, SameRest
<1>11. Dealt(s') /\ Edited(s')
  BY <1>4, <1>6, <1>10 DEF Dealt, Edited
<1> QED BY <1>6, <1>9, <1>11 DEF HousesInv

LEMMA HousesLogout ==
  ASSUME HousesInv, NEW p \in Few, Houses!Logout(p)
  PROVE  HousesInv'
<1> DEFINE w == Houses!CloseDeals(s, p)
           on == w.online \ {p}
           kk == w.kick \ {p}
           ed == [w.edit EXCEPT ![p] = Houses!NoEdit]
<1>1. s' = [w EXCEPT !.online = on, !.kick = kk, !.edit = ed]
  BY DEF Houses!Logout
<1>2. s \in HouseState /\ Housed(s) /\ Dealt(s) /\ Edited(s)
  BY DEF HousesInv
<1>3. /\ w \in HouseState /\ Dealt(w)
      /\ \A h \in Homes : p \notin {w.deal[h].seller, w.deal[h].buyer}
      /\ Beds(w, s) /\ w.pos = s.pos /\ w.owner = s.owner /\ w.invited = s.invited
      /\ w.online = s.online /\ w.kick = s.kick /\ w.edit = s.edit
  BY <1>2, CloseDealsIs
<1> HIDE DEF w
<1>4. Housed(w) /\ Edited(w)
  <2>1. Housed(w)
    BY <1>2, <1>3, SameHoused
  <2> QED BY <1>2, <1>3, <2>1 DEF Edited
<1>5. /\ on \in SUBSET Few /\ kk \in SUBSET Few
      /\ \A q \in Few : q \in on <=> q # p /\ q \in w.online
      /\ \A q \in Few : q \in kk <=> q # p /\ q \in w.kick
      /\ ed \in [Few -> [house : Homes \cup {none}, list : Houses!Lists]]
      /\ \A q \in Few : ed[q] = IF q = p THEN Houses!NoEdit ELSE w.edit[q]
  BY <1>3, HouseConstants DEF HouseState
<1>6. \A h \in Homes : {w.deal[h].seller, w.deal[h].buyer} \ {nobody} \subseteq on
  BY <1>3 DEF Dealt
<1> HIDE DEF on, kk, ed
<1>7. /\ s' \in HouseState /\ s'.online = on /\ s'.kick = kk /\ s'.edit = ed
      /\ Beds(s', w) /\ s'.pos = w.pos /\ s'.owner = w.owner /\ s'.invited = w.invited
      /\ s'.transfer = w.transfer /\ s'.deal = w.deal
  BY <1>1, <1>3, <1>5 DEF HouseState, Beds
<1>8. \A g \in Homes, q \in Few : q \in s'.online /\ s'.pos[q] = g => Admits(s', g, q)
  BY <1>4, <1>5, <1>7 DEF Housed, Admits
<1>9. \A g \in Homes, q \in Few : s'.sleeper[g] = q /\ q \in s'.online => q \in s'.kick
  BY <1>4, <1>5, <1>7 DEF Housed, Beds
<1>10. Housed(s')
  BY <1>4, <1>7, <1>8, <1>9 DEF Housed, Paired, Beds
<1>11. Dealt(s') /\ Edited(s')
  BY <1>3, <1>4, <1>5, <1>6, <1>7 DEF Dealt, Edited
<1> QED BY <1>7, <1>10, <1>11 DEF HousesInv

LEMMA HousesStep == HousesInv /\ Houses!Next => HousesInv'
BY HousesBuy, HousesLeave, HousesUseBed, HousesEnter, HousesExecute, HousesStartTrade,
   HousesOpenWindow, HousesClose, HousesExit, HousesLogin, HousesLogout, HousesUpdateWindow,
   HousesKick
DEF Houses!Next

LEMMA HousesStutter == HousesInv /\ s' = s => HousesInv'
BY DEF HousesInv

(* Whoever buys, leaves, sells, edits, kicks, sleeps and logs in: who is in  *)
(* a house is invited, and a document of sale exists only while it is traded *)
(* (house.cpp, bed.cpp), for any sets of players and of houses.              *)
THEOREM HousesTiesAgree == Houses!Spec => [](Houses!TypeOK /\ Houses!HousesKept)
<1>1. HousesInv /\ [Houses!Next]_s => HousesInv'
  BY HousesStep, HousesStutter
<1>2. HousesInv => Houses!TypeOK /\ Houses!HousesKept
  BY HousesHold
<1> QED BY <1>1, <1>2, HousesInit, PTL DEF Houses!Spec

-----------------------------------------------------------------------------
(* Speed *)

SpeedCond == Speed!Condition \cup {Speed!None}
SpeedTask == [type : Speed!Types, cond : SpeedCond]

SpeedState == [online : BOOLEAN, speed : Int, cond : [Speed!Types -> SpeedCond],
               tasks : Seq(SpeedTask), outfit : BOOLEAN, owned : SUBSET Steeds,
               current : Steeds \cup {0}, look : Steeds \cup {0},
               worn : [Speed!Slots -> BOOLEAN], active : BOOLEAN, fit : BOOLEAN,
               enabled : [Speed!Slots -> BOOLEAN]]

(* Only what is worn counts. *)
WornOnly(t) == \A slot \in Speed!Slots : t.enabled[slot] => t.worn[slot]

(* Who is not in the game has no speed, no mount under it and nothing to come. *)
Bare(t) == /\ t.speed = 0 /\ t.look = 0 /\ t.tasks = <<>>
           /\ \A slot \in Speed!Slots : ~ t.enabled[slot]

SpeedInv == s \in SpeedState /\ WornOnly(s) /\ (~ s.online => Bare(s))

(* What the conditions, the items and the mount add to the speed. *)
Suffered(t) == t.cond["haste"].delta + t.cond["slow"].delta
OnFeet(t) == IF t.enabled["feet"] THEN BootSpeed ELSE 0
OnFinger(t) == IF t.enabled["ring"] THEN RingSpeed ELSE 0
Ridden(t) == IF t.look # 0 THEN t.current ELSE 0

LEMMA SpeedConstants ==
  /\ Steeds \subseteq Nat \ {0} /\ Hurries \subseteq Nat /\ Delays \subseteq Nat
  /\ BootSpeed \in Nat /\ RingSpeed \in Nat
BY PlayersAssumption DEF Speed!SpeedAssumption

LEMMA SpeedNone == Speed!None \in SpeedCond /\ Speed!None.delta = 0 /\ Speed!None.left = "gone"
BY DEF Speed!None, SpeedCond

LEMMA SpeedCondInt == \A c \in SpeedCond : c.delta \in Int
<1>1. \A type \in Speed!Types : Speed!Delta(type) \subseteq Int
  <2>1. \A x \in Hurries : x \in Int
    BY SpeedConstants
  <2>2. \A x \in Delays : -x \in Int
    BY SpeedConstants
  <2> QED BY <2>1, <2>2 DEF Speed!Delta
<1>2. \A c \in Speed!Condition : c.delta \in Int
  BY <1>1 DEF Speed!Condition, Speed!Types
<1> QED BY <1>2, SpeedNone DEF SpeedCond

LEMMA OwedIs ==
  ASSUME NEW t \in SpeedState
  PROVE  /\ Speed!Owed(t) = Suffered(t) + OnFeet(t) + OnFinger(t) + Ridden(t)
         /\ Suffered(t) \in Int /\ OnFeet(t) \in Int /\ OnFinger(t) \in Int /\ Ridden(t) \in Int
         /\ t.speed \in Int /\ t.current \in Int
<1>1. t.cond["haste"].delta \in Int /\ t.cond["slow"].delta \in Int
  BY SpeedCondInt DEF SpeedState, Speed!Types
<1>2. Suffered(t) \in Int
  BY <1>1 DEF Suffered
<1>3. OnFeet(t) \in Int /\ OnFinger(t) \in Int
  BY SpeedConstants DEF OnFeet, OnFinger
<1>4. t.current \in Int
  <2>1. t.current \in Steeds \cup {0}
    BY DEF SpeedState
  <2>2. \A m \in Steeds : m \in Int
    BY SpeedConstants
  <2>3. t.current \in Steeds \/ t.current = 0
    BY <2>1
  <2> QED BY <2>2, <2>3
<1>5. t.speed \in Int
  BY DEF SpeedState
<1>6. Ridden(t) \in Int
  BY <1>4 DEF Ridden
<1>7. Speed!Owed(t) = t.cond["haste"].delta + t.cond["slow"].delta + OnFeet(t) + OnFinger(t)
                      + Ridden(t)
  BY DEF Speed!Owed, Speed!IsMounted, OnFeet, OnFinger, Ridden
<1> QED BY <1>1, <1>2, <1>3, <1>4, <1>5, <1>6, <1>7 DEF Suffered

(* Speed and what is owed change by the same. *)
Even(r, t) == r.speed - Speed!Owed(r) = t.speed - Speed!Owed(t)

(* What conditions leave alone. *)
SpeedRest(r, t) ==
  /\ r.online = t.online /\ r.outfit = t.outfit /\ r.owned = t.owned
  /\ r.current = t.current /\ r.look = t.look /\ r.worn = t.worn
  /\ r.active = t.active /\ r.fit = t.fit /\ r.enabled = t.enabled

(* r differs from t in its conditions, and in its speed by what they add.    *)
CondStep(r, t) ==
  r \in SpeedState /\ SpeedRest(r, t) /\ r.speed - Suffered(r) = t.speed - Suffered(t)

LEMMA CondTwice ==
  ASSUME NEW t, NEW u, NEW r, CondStep(u, t), CondStep(r, u)
  PROVE  CondStep(r, t)
BY DEF CondStep, SpeedRest

LEMMA CondNone == ASSUME NEW t \in SpeedState PROVE CondStep(t, t)
BY DEF CondStep, SpeedRest

LEMMA CondEven == ASSUME NEW t \in SpeedState, NEW r, CondStep(r, t) PROVE Even(r, t)
<1>1. OnFeet(r) = OnFeet(t) /\ OnFinger(r) = OnFinger(t) /\ Ridden(r) = Ridden(t)
  BY DEF CondStep, SpeedRest, OnFeet, OnFinger, Ridden
<1>2. r \in SpeedState /\ r.speed - Suffered(r) = t.speed - Suffered(t)
  BY DEF CondStep
<1> QED BY <1>1, <1>2, OwedIs DEF Even

(* The condition of a type becomes c, the speed changes by d. *)
WithCond(t, type, c, d) ==
  [t EXCEPT !.speed = t.speed + d, !.cond = [t.cond EXCEPT ![type] = c]]

LEMMA CondChange ==
  ASSUME NEW t \in SpeedState, NEW type \in Speed!Types, NEW c \in SpeedCond, NEW d \in Int,
         d = c.delta - t.cond[type].delta
  PROVE  CondStep(WithCond(t, type, c, d), t) /\ WithCond(t, type, c, d).tasks = t.tasks
<1> DEFINE cs == [t.cond EXCEPT ![type] = c]
           sp == t.speed + d
           r == WithCond(t, type, c, d)
<1>1. r = [t EXCEPT !.speed = sp, !.cond = cs]
  BY DEF WithCond
<1>2. /\ cs \in [Speed!Types -> SpeedCond]
      /\ cs[type] = c /\ \A o \in Speed!Types \ {type} : cs[o] = t.cond[o]
  BY DEF SpeedState
<1>3. t.speed \in Int /\ c.delta \in Int /\ t.cond[type].delta \in Int
  BY SpeedCondInt DEF SpeedState
<1>4. cs["haste"].delta + cs["slow"].delta = Suffered(t) + d
  <2>1. t.cond["haste"].delta \in Int /\ t.cond["slow"].delta \in Int
    BY SpeedCondInt DEF SpeedState, Speed!Types
  <2>2. CASE type = "haste"
    BY <1>2, <1>3, <2>1, <2>2 DEF Suffered, Speed!Types
  <2>3. CASE type = "slow"
    BY <1>2, <1>3, <2>1, <2>3 DEF Suffered, Speed!Types
  <2> QED BY <2>2, <2>3 DEF Speed!Types
<1> HIDE DEF cs
<1>5. sp \in Int
  BY <1>3
<1> HIDE DEF sp, r
<1>6. /\ r \in SpeedState /\ SpeedRest(r, t) /\ r.tasks = t.tasks
      /\ r.cond = cs /\ r.speed = sp
  BY <1>1, <1>2, <1>5 DEF SpeedState, SpeedRest
<1>7. Suffered(r) = Suffered(t) + d
  BY <1>4, <1>6 DEF Suffered
<1>8. Suffered(t) \in Int /\ t.speed \in Int
  BY OwedIs
<1>9. r.speed - Suffered(r) = t.speed - Suffered(t)
  BY <1>6, <1>7, <1>8 DEF sp
<1>10. CondStep(r, t) /\ r.tasks = t.tasks
  BY <1>6, <1>9 DEF CondStep
<1> QED BY <1>10 DEF r

LEMMA CondTask ==
  ASSUME NEW t \in SpeedState, NEW q \in Seq(SpeedTask)
  PROVE  CondStep([t EXCEPT !.tasks = q], t)
<1> DEFINE r == [t EXCEPT !.tasks = q]
<1>1. r \in SpeedState /\ SpeedRest(r, t) /\ r.speed = t.speed /\ r.cond = t.cond
  BY DEF SpeedState, SpeedRest
<1> HIDE DEF r
<1>2. CondStep(r, t)
  BY <1>1 DEF CondStep, Suffered
<1> QED BY <1>2 DEF r

LEMMA EndConditionKeeps ==
  ASSUME NEW t \in SpeedState, NEW type \in Speed!Types
  PROVE  CondStep(Speed!EndCondition(t, type), t)
<1> DEFINE d == -t.cond[type].delta
<1>1. t.cond[type].delta \in Int
  BY SpeedCondInt DEF SpeedState
<1>2. Speed!EndCondition(t, type) = WithCond(t, type, Speed!None, d)
  BY DEF Speed!EndCondition, Speed!ChangeSpeed, SpeedState, WithCond
<1>3. d \in Int /\ d = Speed!None.delta - t.cond[type].delta
  BY <1>1, SpeedNone
<1> HIDE DEF d
<1>4. CondStep(WithCond(t, type, Speed!None, d), t)
  BY <1>3, SpeedNone, CondChange
<1> QED BY <1>2, <1>4

LEMMA AppendTask ==
  ASSUME NEW t \in SpeedState, NEW x \in SpeedTask
  PROVE  CondStep([t EXCEPT !.tasks = Append(t.tasks, x)], t)
<1>1. Append(t.tasks, x) \in Seq(SpeedTask)
  BY DEF SpeedState
<1> QED BY <1>1, CondTask

LEMMA RemoveConditionKeeps ==
  ASSUME NEW t \in SpeedState, NEW type \in Speed!Types, NEW delay \in BOOLEAN,
         NEW force \in BOOLEAN
  PROVE  CondStep(Speed!RemoveCondition(t, type, delay, force), t)
<1>1. CASE t.cond[type] = Speed!None
  <2>1. Speed!RemoveCondition(t, type, delay, force) = t
    BY <1>1 DEF Speed!RemoveCondition
  <2> QED BY <2>1, CondNone
<1>2. CASE t.cond[type] # Speed!None /\ (type = "slow" /\ delay /\ ~ force)
  <2>1. Speed!RemoveCondition(t, type, delay, force)
          = [t EXCEPT !.tasks = Append(t.tasks, Speed!Cure)]
    BY <1>2 DEF Speed!RemoveCondition
  <2>2. Speed!Cure \in SpeedTask
    BY SpeedNone DEF Speed!Cure, SpeedTask, Speed!Types
  <2>3. CondStep([t EXCEPT !.tasks = Append(t.tasks, Speed!Cure)], t)
    BY <2>2, AppendTask
  <2> QED BY <2>1, <2>3
<1>3. CASE t.cond[type] # Speed!None /\ ~ (type = "slow" /\ delay /\ ~ force)
  <2>1. Speed!RemoveCondition(t, type, delay, force) = Speed!EndCondition(t, type)
    BY <1>3 DEF Speed!RemoveCondition
  <2> QED BY <2>1, EndConditionKeeps
<1> QED BY <1>1, <1>2, <1>3

LEMMA RenewKeeps ==
  ASSUME NEW t \in SpeedState, NEW type \in Speed!Types, NEW c \in SpeedCond
  PROVE  CondStep(Speed!Renew(t, type, c), t)
<1> DEFINE d == c.delta - t.cond[type].delta
<1>1. CASE t.cond[type].left = "forever" /\ c.left # "forever"
  <2>1. Speed!Renew(t, type, c) = t
    BY <1>1 DEF Speed!Renew
  <2> QED BY <2>1, CondNone
<1>2. CASE ~ (t.cond[type].left = "forever" /\ c.left # "forever")
  <2>1. Speed!Renew(t, type, c) = WithCond(t, type, c, d)
    BY <1>2 DEF Speed!Renew, Speed!ChangeSpeed, SpeedState, WithCond
  <2>2. d \in Int
    BY SpeedCondInt DEF SpeedState
  <2>3. d = c.delta - t.cond[type].delta
    OBVIOUS
  <2> HIDE DEF d
  <2>4. CondStep(WithCond(t, type, c, d), t)
    BY <2>2, <2>3, CondChange
  <2> QED BY <2>1, <2>4
<1> QED BY <1>1, <1>2

LEMMA AddConditionKeeps ==
  ASSUME NEW t \in SpeedState, NEW type \in Speed!Types, NEW c \in SpeedCond,
         NEW delay \in BOOLEAN, NEW force \in BOOLEAN
  PROVE  CondStep(Speed!AddCondition(t, type, c, delay, force), t)
<1> DEFINE r == Speed!AddCondition(t, type, c, delay, force)
           x == [type |-> type, cond |-> c]
           later == ~ force /\ type = "haste" /\ Speed!Has(t, "slow") /\ delay
<1>1. CASE later
  <2>1. r = [t EXCEPT !.tasks = Append(t.tasks, x)]
    BY <1>1 DEF Speed!AddCondition
  <2>2. x \in SpeedTask
    BY DEF SpeedTask
  <2> HIDE DEF r, x
  <2>3. CondStep(r, t)
    BY <2>1, <2>2, AppendTask
  <2> QED BY <2>3 DEF r
<1>2. CASE ~ later /\ t.cond[type] # Speed!None
  <2>1. r = Speed!Renew(t, type, c)
    BY <1>2 DEF Speed!AddCondition
  <2> HIDE DEF r
  <2>2. CondStep(r, t)
    BY <2>1, RenewKeeps
  <2> QED BY <2>2 DEF r
<1>3. CASE ~ later /\ t.cond[type] = Speed!None
  <2> DEFINE u == WithCond(t, type, c, c.delta)
  <2>1. [Speed!ChangeSpeed(t, c.delta) EXCEPT !.cond[type] = c] = u
    BY DEF Speed!ChangeSpeed, SpeedState, WithCond
  <2>2. r = Speed!OnAdd(u, type, delay)
    BY <1>3, <2>1 DEF Speed!AddCondition
  <2>3. c.delta \in Int /\ c.delta = c.delta - t.cond[type].delta
    BY <1>3, SpeedNone, SpeedCondInt
  <2>4. CondStep(u, t)
    BY <2>3, CondChange
  <2> HIDE DEF u, r
  <2>5. CondStep(r, u)
    <3>1. u \in SpeedState /\ Speed!Other(type) \in Speed!Types /\ FALSE \in BOOLEAN
      BY <2>4 DEF CondStep, Speed!Other, Speed!Types
    <3>2. r = u \/ r = Speed!RemoveCondition(u, Speed!Other(type), delay, FALSE)
      BY <2>2 DEF Speed!OnAdd
    <3> QED BY <3>1, <3>2, CondNone, RemoveConditionKeeps
  <2>6. CondStep(r, t)
    BY <2>4, <2>5, CondTwice
  <2> QED BY <2>6 DEF r
<1> QED BY <1>1, <1>2, <1>3

-----------------------------------------------------------------------------
(* What an item adds it takes back.                                          *)
EquipRest(r, t) ==
  /\ r.online = t.online /\ r.outfit = t.outfit /\ r.owned = t.owned
  /\ r.current = t.current /\ r.look = t.look /\ r.worn = t.worn
  /\ r.fit = t.fit /\ r.cond = t.cond /\ r.tasks = t.tasks
Equipped(t) == OnFeet(t) + OnFinger(t)
EquipStep(r, t) ==
  r \in SpeedState /\ EquipRest(r, t) /\ r.speed - Equipped(r) = t.speed - Equipped(t)

LEMMA EquipNone == ASSUME NEW t \in SpeedState PROVE EquipStep(t, t)
BY DEF EquipStep, EquipRest

LEMMA EquipEven == ASSUME NEW t \in SpeedState, NEW r, EquipStep(r, t) PROVE Even(r, t)
<1>1. Suffered(r) = Suffered(t) /\ Ridden(r) = Ridden(t)
  BY DEF EquipStep, EquipRest, Suffered, Ridden
<1>2. r \in SpeedState /\ r.speed - Equipped(r) = t.speed - Equipped(t)
  BY DEF EquipStep
<1> QED BY <1>1, <1>2, OwedIs DEF Even, Equipped

(* The item of a slot begins, or ceases, to count. *)
WithItem(t, slot, on, ac, d) ==
  [t EXCEPT !.speed = t.speed + d, !.enabled = [t.enabled EXCEPT ![slot] = on], !.active = ac]

Bonus(slot) == IF slot = "feet" THEN BootSpeed ELSE RingSpeed

LEMMA BonusIs ==
  ASSUME NEW slot \in Speed!Slots
  PROVE  Speed!Bonus(slot) = Bonus(slot) /\ Bonus(slot) \in Int
BY SpeedConstants DEF Speed!Bonus, Bonus, Speed!Slots

OnSlot(t, slot) == IF t.enabled[slot] THEN Bonus(slot) ELSE 0

LEMMA OnSlots ==
  ASSUME NEW t \in SpeedState
  PROVE  /\ Equipped(t) = OnSlot(t, "feet") + OnSlot(t, "ring")
         /\ OnSlot(t, "feet") \in Int /\ OnSlot(t, "ring") \in Int
<1>1. OnSlot(t, "feet") = OnFeet(t) /\ OnSlot(t, "ring") = OnFinger(t)
  BY DEF OnSlot, OnFeet, OnFinger, Bonus
<1> QED BY <1>1, OwedIs DEF Equipped

Gain(slot, on) == IF on THEN Bonus(slot) ELSE 0

(* r differs from t in what one slot counts. *)
SlotStep(r, t, slot, on) ==
  /\ EquipStep(r, t) /\ r.enabled[slot] = on
  /\ \A o \in Speed!Slots \ {slot} : r.enabled[o] = t.enabled[o]

LEMMA EquipChange ==
  ASSUME NEW t \in SpeedState, NEW slot \in Speed!Slots, NEW on \in BOOLEAN,
         NEW ac \in BOOLEAN, NEW d \in Int,
         d = Gain(slot, on) - OnSlot(t, slot)
  PROVE  SlotStep(WithItem(t, slot, on, ac, d), t, slot, on)
<1> DEFINE en == [t.enabled EXCEPT ![slot] = on]
           sp == t.speed + d
           r == WithItem(t, slot, on, ac, d)
<1>1. r = [t EXCEPT !.speed = sp, !.enabled = en, !.active = ac]
  BY DEF WithItem
<1>2. /\ en \in [Speed!Slots -> BOOLEAN]
      /\ en[slot] = on /\ \A o \in Speed!Slots \ {slot} : en[o] = t.enabled[o]
  BY DEF SpeedState
<1>3. t.speed \in Int /\ sp \in Int
  BY DEF SpeedState
<1> HIDE DEF en, sp, r
<1>4. r \in SpeedState /\ EquipRest(r, t) /\ r.enabled = en /\ r.speed = sp
  BY <1>1, <1>2, <1>3 DEF SpeedState, EquipRest
<1>5. OnSlot(r, slot) = Gain(slot, on)
  BY <1>2, <1>4 DEF OnSlot, Gain
<1>6. \A o \in Speed!Slots \ {slot} : OnSlot(r, o) = OnSlot(t, o)
  BY <1>2, <1>4 DEF OnSlot
<1>7. /\ OnSlot(r, "feet") \in Int /\ OnSlot(r, "ring") \in Int
      /\ OnSlot(t, "feet") \in Int /\ OnSlot(t, "ring") \in Int
      /\ Equipped(r) = OnSlot(r, "feet") + OnSlot(r, "ring")
      /\ Equipped(t) = OnSlot(t, "feet") + OnSlot(t, "ring")
  BY <1>4, OnSlots
<1>8. OnSlot(r, slot) = OnSlot(t, slot) + d
  <2>1. OnSlot(t, slot) \in Int /\ OnSlot(r, slot) \in Int
    BY <1>7 DEF Speed!Slots
  <2>2. OnSlot(r, slot) - OnSlot(t, slot) = d
    BY <1>5
  <2> QED BY <2>1, <2>2
<1>9. Equipped(r) = Equipped(t) + d
  <2>1. CASE slot = "feet"
    BY <1>6, <1>7, <1>8, <2>1 DEF Speed!Slots
  <2>2. CASE slot = "ring"
    BY <1>6, <1>7, <1>8, <2>2 DEF Speed!Slots
  <2> QED BY <2>1, <2>2 DEF Speed!Slots
<1>10. r.speed - Equipped(r) = t.speed - Equipped(t)
  <2>1. Equipped(t) \in Int
    BY <1>7
  <2> QED BY <1>3, <1>4, <1>9, <2>1 DEF sp
<1>11. SlotStep(r, t, slot, on)
  BY <1>2, <1>4, <1>10 DEF EquipStep, SlotStep
<1> QED BY <1>11 DEF r

LEMMA EquipItemKeeps ==
  ASSUME NEW t \in SpeedState, NEW slot \in Speed!Slots, NEW r, r = Speed!EquipItem(t, slot)
  PROVE  /\ EquipStep(r, t)
         /\ \A o \in Speed!Slots \ {slot} : r.enabled[o] = t.enabled[o]
<1>1. CASE ~ t.fit \/ t.enabled[slot]
  <2>1. r = t
    BY <1>1 DEF Speed!EquipItem
  <2> QED BY <2>1, EquipNone
<1>2. CASE ~ (~ t.fit \/ t.enabled[slot])
  <2> DEFINE ac == t.active \/ slot = "ring"
             d == Bonus(slot)
             u == WithItem(t, slot, TRUE, ac, d)
  <2>1. r = u
    <3> DEFINE w == [t EXCEPT !.speed = t.speed + d]
    <3>1. w = Speed!ChangeSpeed(t, Speed!Bonus(slot))
      BY BonusIs DEF Speed!ChangeSpeed
    <3>2. w.enabled = t.enabled /\ w.active = t.active
      BY DEF SpeedState
    <3>3. u = [w EXCEPT !.enabled = [t.enabled EXCEPT ![slot] = TRUE], !.active = ac]
      BY DEF WithItem
    <3> HIDE DEF w, u, d
    <3>4. r = [w EXCEPT !.enabled[slot] = TRUE, !.active = @ \/ slot = "ring"]
      BY <1>2, <3>1 DEF Speed!EquipItem
    <3>5. r = [w EXCEPT !.enabled = [w.enabled EXCEPT ![slot] = TRUE],
                       !.active = w.active \/ slot = "ring"]
      BY <3>4
    <3> QED BY <3>2, <3>3, <3>5
  <2>2. d \in Int /\ TRUE \in BOOLEAN /\ ac \in BOOLEAN
    BY BonusIs
  <2>3. d = Gain(slot, TRUE) - OnSlot(t, slot)
    <3>1. OnSlot(t, slot) = 0
      BY <1>2 DEF OnSlot
    <3> QED BY <3>1, <2>2 DEF Gain
  <2> HIDE DEF ac, d
  <2>4. SlotStep(u, t, slot, TRUE)
    BY <2>2, <2>3, EquipChange
  <2> QED BY <2>1, <2>4 DEF SlotStep
<1> QED BY <1>1, <1>2

LEMMA DeEquipItemKeeps ==
  ASSUME NEW t \in SpeedState, NEW slot \in Speed!Slots, NEW r, r = Speed!DeEquipItem(t, slot)
  PROVE  /\ EquipStep(r, t) /\ ~ r.enabled[slot]
         /\ \A o \in Speed!Slots \ {slot} : r.enabled[o] = t.enabled[o]
<1>1. CASE ~ t.enabled[slot]
  <2>1. r = t
    BY <1>1 DEF Speed!DeEquipItem
  <2> QED BY <1>1, <2>1, EquipNone
<1>2. CASE t.enabled[slot]
  <2> DEFINE ac == t.active /\ slot # "ring"
             d == -Bonus(slot)
             u == WithItem(t, slot, FALSE, ac, d)
  <2>1. r = u
    <3> DEFINE w == [t EXCEPT !.speed = t.speed + d]
    <3>1. w = Speed!ChangeSpeed(t, -Speed!Bonus(slot))
      BY BonusIs DEF Speed!ChangeSpeed
    <3>2. w.enabled = t.enabled /\ w.active = t.active
      BY DEF SpeedState
    <3>3. u = [w EXCEPT !.enabled = [t.enabled EXCEPT ![slot] = FALSE], !.active = ac]
      BY DEF WithItem
    <3> HIDE DEF w, u, d
    <3>4. r = [w EXCEPT !.enabled[slot] = FALSE, !.active = @ /\ slot # "ring"]
      BY <1>2, <3>1 DEF Speed!DeEquipItem
    <3>5. r = [w EXCEPT !.enabled = [w.enabled EXCEPT ![slot] = FALSE],
                       !.active = w.active /\ slot # "ring"]
      BY <3>4
    <3> QED BY <3>2, <3>3, <3>5
  <2>2. d \in Int /\ FALSE \in BOOLEAN /\ ac \in BOOLEAN
    BY BonusIs
  <2>3. d = Gain(slot, FALSE) - OnSlot(t, slot)
    <3>1. OnSlot(t, slot) = Bonus(slot)
      BY <1>2 DEF OnSlot
    <3> QED BY <3>1, BonusIs DEF Gain
  <2> HIDE DEF ac, d
  <2>4. SlotStep(u, t, slot, FALSE)
    BY <2>2, <2>3, EquipChange
  <2> QED BY <2>1, <2>4 DEF SlotStep
<1> QED BY <1>1, <1>2

-----------------------------------------------------------------------------
(* The steps.                                                                *)

LEMMA EvenStep ==
  ASSUME SpeedInv, s' \in SpeedState, s'.online = s.online, Even(s', s), WornOnly(s'),
         s'.online \/ Bare(s')
  PROVE  SpeedInv' /\ Speed!OutfitStep
<1>1. Speed!Astray(s') = Speed!Astray(s)
  BY DEF Speed!Astray, Even
<1> QED BY <1>1 DEF SpeedInv, WornOnly, Bare, Speed!OutfitStep

(* Conditions of a player in the game begin, change and end.                 *)
LEMMA SpeedCondStep ==
  ASSUME SpeedInv, s.online, CondStep(s', s)
  PROVE  SpeedInv' /\ Speed!OutfitStep
<1>1. Even(s', s)
  BY CondEven DEF SpeedInv
<1>2. s' \in SpeedState /\ s'.online = s.online /\ WornOnly(s')
  BY DEF CondStep, SpeedRest, SpeedInv, WornOnly
<1> QED BY <1>1, <1>2, EvenStep

LEMMA SpeedCast ==
  ASSUME SpeedInv, NEW type \in Speed!Types, NEW delay \in BOOLEAN,
         NEW delta \in Speed!Delta(type), NEW left \in {"some", "forever"},
         NEW force \in BOOLEAN, Speed!Cast(type, delta, left, delay, force)
  PROVE  SpeedInv' /\ Speed!OutfitStep
<1> DEFINE c == [delta |-> delta, left |-> left]
<1>1. c \in SpeedCond
  BY DEF SpeedCond, Speed!Condition, Speed!Delta, Speed!Types
<1>2. s.online /\ s' = Speed!AddCondition(s, type, c, delay, force)
  BY DEF Speed!Cast
<1> HIDE DEF c
<1>3. CondStep(s', s)
  BY <1>1, <1>2, AddConditionKeeps DEF SpeedInv
<1> QED BY <1>2, <1>3, SpeedCondStep

LEMMA SpeedDispel ==
  ASSUME SpeedInv, NEW type \in Speed!Types, NEW delay \in BOOLEAN, Speed!Dispel(type, delay)
  PROVE  SpeedInv' /\ Speed!OutfitStep
<1>1. s.online /\ s' = Speed!RemoveCondition(s, type, delay, FALSE) /\ FALSE \in BOOLEAN
  BY DEF Speed!Dispel
<1>2. CondStep(s', s)
  BY <1>1, RemoveConditionKeeps DEF SpeedInv
<1> QED BY <1>1, <1>2, SpeedCondStep

LEMMA SpeedRunOut ==
  ASSUME SpeedInv, NEW type \in Speed!Types, Speed!RunOut(type)
  PROVE  SpeedInv' /\ Speed!OutfitStep
<1> DEFINE c == [s.cond[type] EXCEPT !.left = "none"]
           cs == [s.cond EXCEPT ![type] = c]
<1>1. s' = [s EXCEPT !.cond = cs] /\ s.cond[type].left = "some" /\ s \in SpeedState
  BY DEF Speed!RunOut, SpeedInv
<1>2. s.cond[type] \in Speed!Condition
  BY <1>1, SpeedNone DEF SpeedState, SpeedCond
<1>3. c \in SpeedCond /\ c.delta = s.cond[type].delta
  BY <1>2 DEF SpeedCond, Speed!Condition
<1> HIDE DEF c
<1>4. /\ cs \in [Speed!Types -> SpeedCond]
      /\ \A o \in Speed!Types : cs[o].delta = s.cond[o].delta
  BY <1>1, <1>3 DEF SpeedState
<1> HIDE DEF cs
<1>5. /\ s' \in SpeedState /\ SpeedRest(s', s) /\ s'.cond = cs /\ s'.tasks = s.tasks
      /\ s'.speed = s.speed
  BY <1>1, <1>4 DEF SpeedState, SpeedRest
<1>6. Suffered(s') = Suffered(s)
  BY <1>4, <1>5 DEF Suffered, Speed!Types
<1>7. Even(s', s)
  BY <1>1, <1>5, <1>6, CondEven DEF CondStep
<1>8. WornOnly(s') /\ (s'.online \/ Bare(s'))
  BY <1>5 DEF SpeedInv, WornOnly, Bare, SpeedRest
<1> QED BY <1>5, <1>7, <1>8, EvenStep DEF SpeedRest

LEMMA SpeedExecuteConditions ==
  ASSUME SpeedInv, NEW type \in Speed!Types, Speed!ExecuteConditions(type)
  PROVE  SpeedInv' /\ Speed!OutfitStep
<1>1. s.online /\ s' = Speed!EndCondition(s, type)
  BY DEF Speed!ExecuteConditions
<1>2. CondStep(s', s)
  BY <1>1, EndConditionKeeps DEF SpeedInv
<1> QED BY <1>1, <1>2, SpeedCondStep

LEMMA SpeedRunTask ==
  ASSUME SpeedInv, NEW k \in DOMAIN s.tasks, NEW delay \in BOOLEAN, Speed!RunTask(k, delay)
  PROVE  SpeedInv' /\ Speed!OutfitStep
<1> DEFINE task == s.tasks[k]
           q == Speed!RemoveAt(s.tasks, k)
           rest == [s EXCEPT !.tasks = q]
<1>1. s \in SpeedState /\ s.tasks \in Seq(SpeedTask)
  BY DEF SpeedInv, SpeedState
<1>2. s.online
  <2>1. s.tasks # <<>>
    BY <1>1
  <2> QED BY <2>1 DEF SpeedInv, Bare
<1>3. task \in SpeedTask
  BY <1>1
<1>4. q \in Seq(SpeedTask)
  <2>1. k \in 1 .. Len(s.tasks)
    BY <1>1
  <2>2. SubSeq(s.tasks, 1, k - 1) \in Seq(SpeedTask)
    BY <1>1, <2>1
  <2>3. SubSeq(s.tasks, k + 1, Len(s.tasks)) \in Seq(SpeedTask)
    BY <1>1, <2>1
  <2> QED BY <2>2, <2>3 DEF Speed!RemoveAt
<1>5. s' = IF task = Speed!Cure THEN Speed!RemoveCondition(rest, "slow", delay, TRUE)
           ELSE Speed!AddCondition(rest, task.type, task.cond, delay, TRUE)
  BY DEF Speed!RunTask
<1> HIDE DEF q
<1>6. CondStep(rest, s)
  BY <1>1, <1>4, CondTask
<1> HIDE DEF rest, task
<1>7. CondStep(s', rest)
  <2>1. rest \in SpeedState /\ TRUE \in BOOLEAN /\ "slow" \in Speed!Types
    BY <1>6 DEF CondStep, Speed!Types
  <2>2. task.type \in Speed!Types /\ task.cond \in SpeedCond
    BY <1>3 DEF SpeedTask
  <2>3. CASE task = Speed!Cure
    <3>1. s' = Speed!RemoveCondition(rest, "slow", delay, TRUE)
      BY <1>5, <2>3
    <3> QED BY <2>1, <3>1, RemoveConditionKeeps
  <2>4. CASE task # Speed!Cure
    <3>1. s' = Speed!AddCondition(rest, task.type, task.cond, delay, TRUE)
      BY <1>5, <2>4
    <3> QED BY <2>1, <2>2, <3>1, AddConditionKeeps
  <2> QED BY <2>3, <2>4
<1>8. CondStep(s', s)
  BY <1>6, <1>7, CondTwice
<1> QED BY <1>2, <1>8, SpeedCondStep

(* What mounts leave alone. *)
MountRest(r, t) ==
  /\ r.online = t.online /\ r.cond = t.cond /\ r.tasks = t.tasks
  /\ r.worn = t.worn /\ r.active = t.active /\ r.fit = t.fit /\ r.enabled = t.enabled

MountStep(r, t) ==
  r \in SpeedState /\ MountRest(r, t) /\ r.speed - Ridden(r) = t.speed - Ridden(t)

LEMMA SpeedMountStep ==
  ASSUME SpeedInv, s.online, MountStep(s', s)
  PROVE  SpeedInv' /\ Speed!OutfitStep
<1>1. /\ Suffered(s') = Suffered(s) /\ OnFeet(s') = OnFeet(s) /\ OnFinger(s') = OnFinger(s)
  BY DEF MountStep, MountRest, Suffered, OnFeet, OnFinger
<1>2. s \in SpeedState /\ s' \in SpeedState /\ s'.speed - Ridden(s') = s.speed - Ridden(s)
  BY DEF MountStep, SpeedInv
<1>3. Even(s', s)
  BY <1>1, <1>2, OwedIs DEF Even
<1>4. s'.online = s.online /\ WornOnly(s')
  BY DEF MountStep, MountRest, SpeedInv, WornOnly
<1> QED BY <1>2, <1>3, <1>4, EvenStep

LEMMA DismountIs ==
  ASSUME NEW t \in SpeedState, NEW r, r = Speed!Dismount(t)
  PROVE  /\ r \in SpeedState /\ MountRest(r, t) /\ r.look = 0 /\ r.current = t.current
         /\ r.owned = t.owned /\ r.outfit = t.outfit /\ r.speed = t.speed - t.current
<1> DEFINE sp == t.speed + -t.current
<1>1. sp \in Int /\ sp = t.speed - t.current
  BY OwedIs
<1>2. r = [[t EXCEPT !.speed = sp] EXCEPT !.look = 0]
  BY DEF Speed!Dismount, Speed!ChangeSpeed
<1> HIDE DEF sp
<1> QED BY <1>1, <1>2 DEF SpeedState, MountRest

LEMMA SpeedTame ==
  ASSUME SpeedInv, NEW m \in Steeds, Speed!Tame(m)
  PROVE  SpeedInv' /\ Speed!OutfitStep
<1>1. s' = [s EXCEPT !.owned = s.owned \cup {m}] /\ s.online /\ s \in SpeedState
  BY DEF Speed!Tame, SpeedInv
<1>2. MountStep(s', s)
  BY <1>1 DEF SpeedState, MountStep, MountRest, Ridden
<1> QED BY <1>1, <1>2, SpeedMountStep

LEMMA SpeedUntame ==
  ASSUME SpeedInv, NEW m \in Steeds, Speed!Untame(m)
  PROVE  SpeedInv' /\ Speed!OutfitStep
<1> DEFINE lost == [s EXCEPT !.owned = s.owned \ {m}]
           off == IF Speed!IsMounted(lost) THEN Speed!Dismount(lost) ELSE lost
<1>1. /\ s' = IF s.current = m THEN [off EXCEPT !.current = 0] ELSE lost
      /\ s.online /\ s \in SpeedState
  BY DEF Speed!Untame, SpeedInv
<1>2. /\ lost \in SpeedState /\ MountRest(lost, s) /\ lost.speed = s.speed
      /\ lost.look = s.look /\ lost.current = s.current
  BY <1>1 DEF SpeedState, MountRest
<1> HIDE DEF lost
<1>3. /\ off \in SpeedState /\ MountRest(off, lost) /\ off.look = 0
      /\ off.speed = s.speed - Ridden(s)
  <2>1. CASE Speed!IsMounted(lost)
    <3>1. off = Speed!Dismount(lost)
      BY <2>1
    <3> HIDE DEF off
    <3>2. /\ off \in SpeedState /\ MountRest(off, lost) /\ off.look = 0
          /\ off.speed = lost.speed - lost.current
      BY <1>2, <3>1, DismountIs
    <3> QED BY <1>2, <2>1, <3>2 DEF Speed!IsMounted, Ridden
  <2>2. CASE ~ Speed!IsMounted(lost)
    <3>1. off = lost
      BY <2>2
    <3> HIDE DEF off
    <3>2. lost.look = 0 /\ Ridden(s) = 0 /\ s.speed \in Int
      BY <1>1, <1>2, <2>2, OwedIs DEF Speed!IsMounted, Ridden
    <3> QED BY <1>2, <3>1, <3>2 DEF MountRest
  <2> QED BY <2>1, <2>2
<1> HIDE DEF off
<1>4. CASE s.current = m
  <2>1. s' = [off EXCEPT !.current = 0]
    BY <1>1, <1>4
  <2>2. /\ s' \in SpeedState /\ MountRest(s', off) /\ s'.speed = off.speed /\ s'.look = 0
    BY <1>3, <2>1 DEF SpeedState, MountRest
  <2>3. MountRest(s', s)
    BY <1>2, <1>3, <2>2 DEF MountRest
  <2>4. s'.speed - Ridden(s') = s.speed - Ridden(s)
    BY <1>1, <1>3, <2>2, OwedIs DEF Ridden
  <2>5. MountStep(s', s)
    BY <2>2, <2>3, <2>4 DEF MountStep
  <2> QED BY <1>1, <2>5, SpeedMountStep
<1>5. CASE s.current # m
  <2>1. s' = lost
    BY <1>1, <1>5
  <2>2. MountStep(s', s)
    BY <1>2, <2>1 DEF MountStep, Ridden
  <2> QED BY <1>1, <2>2, SpeedMountStep
<1> QED BY <1>4, <1>5

LEMMA SpeedMountUp ==
  ASSUME SpeedInv, Speed!MountUp
  PROVE  SpeedInv' /\ Speed!OutfitStep
<1>1. s.online /\ s \in SpeedState /\ s.look = 0 /\ s.current # 0
  BY DEF Speed!MountUp, Speed!IsMounted, SpeedInv
<1>2. MountStep(s', s)
  <2>1. CASE s.current \notin s.owned
    <3>1. s' = [s EXCEPT !.current = 0]
      BY <2>1 DEF Speed!MountUp
    <3> QED BY <1>1, <3>1 DEF SpeedState, MountStep, MountRest, Ridden
  <2>2. CASE s.current \in s.owned
    <3> DEFINE sp == s.speed + s.current
    <3>1. s' = [[s EXCEPT !.speed = sp] EXCEPT !.look = s.current]
      BY <2>2 DEF Speed!MountUp, Speed!ChangeSpeed
    <3>2. sp \in Int
      BY <1>1, OwedIs
    <3> HIDE DEF sp
    <3>3. /\ s' \in SpeedState /\ MountRest(s', s) /\ s'.speed = sp /\ s'.look = s.current
          /\ s'.current = s.current
      BY <1>1, <3>1, <3>2 DEF SpeedState, MountRest
    <3>4. s'.speed - Ridden(s') = s.speed - Ridden(s)
      BY <1>1, <3>3, OwedIs DEF Ridden, sp
    <3> QED BY <3>3, <3>4 DEF MountStep
  <2> QED BY <2>1, <2>2
<1> QED BY <1>1, <1>2, SpeedMountStep

LEMMA SpeedToggleOff ==
  ASSUME SpeedInv, Speed!ToggleOff
  PROVE  SpeedInv' /\ Speed!OutfitStep
<1>1. s.online /\ s \in SpeedState /\ s.look # 0 /\ s' = Speed!Dismount(s)
  BY DEF Speed!ToggleOff, Speed!IsMounted, SpeedInv
<1>2. s' \in SpeedState /\ MountRest(s', s) /\ s'.look = 0 /\ s'.speed = s.speed - s.current
  BY <1>1, DismountIs
<1>3. s'.speed - Ridden(s') = s.speed - Ridden(s)
  BY <1>1, <1>2, OwedIs DEF Ridden
<1>4. MountStep(s', s)
  BY <1>2, <1>3 DEF MountStep
<1> QED BY <1>1, <1>4, SpeedMountStep

LEMMA SpeedChangeOutfit ==
  ASSUME SpeedInv, NEW m \in Steeds \cup {0}, NEW refused \in BOOLEAN,
         Speed!ChangeOutfit(m, refused)
  PROVE  SpeedInv' /\ Speed!OutfitStep
<1> DEFINE chosen == IF m # 0 /\ Speed!IsMounted(s) THEN Speed!ChangeSpeed(s, m - s.current)
                     ELSE IF Speed!IsMounted(s) THEN Speed!Dismount(s) ELSE s
           cu == IF m # 0 THEN m ELSE chosen.current
           kept == [chosen EXCEPT !.current = cu]
           lo == IF Speed!IsMounted(s) THEN m ELSE 0
<1>1. /\ s.online /\ s \in SpeedState
      /\ s' = IF refused THEN kept ELSE [kept EXCEPT !.look = lo]
  BY DEF Speed!ChangeOutfit, SpeedInv
<1>2. m \in Int /\ s.current \in Int /\ s.speed \in Int
  <2>1. \A x \in Steeds : x \in Int
    BY SpeedConstants
  <2> QED BY <1>1, <2>1, OwedIs
<1>3. /\ chosen \in SpeedState /\ MountRest(chosen, s) /\ chosen.current = s.current
      /\ chosen.speed = IF s.look = 0 THEN s.speed
                        ELSE IF m # 0 THEN s.speed + (m - s.current) ELSE s.speed - s.current
      /\ chosen.look = IF m = 0 THEN 0 ELSE s.look
  <2>1. CASE m # 0 /\ s.look # 0
    <3> DEFINE sp == s.speed + (m - s.current)
    <3>1. chosen = [s EXCEPT !.speed = sp]
      BY <2>1 DEF Speed!IsMounted, Speed!ChangeSpeed
    <3>2. sp \in Int
      BY <1>2
    <3> HIDE DEF sp, chosen
    <3>3. /\ chosen \in SpeedState /\ MountRest(chosen, s) /\ chosen.current = s.current
          /\ chosen.speed = sp /\ chosen.look = s.look
      BY <1>1, <3>1, <3>2 DEF SpeedState, MountRest
    <3> QED BY <2>1, <3>3 DEF sp
  <2>2. CASE m = 0 /\ s.look # 0
    <3>1. chosen = Speed!Dismount(s)
      BY <2>2 DEF Speed!IsMounted
    <3> HIDE DEF chosen
    <3> QED BY <1>1, <2>2, <3>1, DismountIs
  <2>3. CASE s.look = 0
    <3>1. chosen = s
      BY <2>3 DEF Speed!IsMounted
    <3> HIDE DEF chosen
    <3> QED BY <1>1, <2>3, <3>1 DEF MountRest
  <2> QED BY <2>1, <2>2, <2>3
<1> HIDE DEF chosen
<1>4. cu \in Steeds \cup {0} /\ lo \in Steeds \cup {0}
  BY <1>3 DEF SpeedState
<1>5. cu = IF m # 0 THEN m ELSE s.current
  BY <1>3
<1>6. lo = IF s.look # 0 THEN m ELSE 0
  BY DEF Speed!IsMounted
<1> HIDE DEF cu, lo
<1>7. /\ kept \in SpeedState /\ MountRest(kept, s) /\ kept.current = cu
      /\ kept.speed = chosen.speed /\ kept.look = chosen.look
  BY <1>3, <1>4 DEF SpeedState, MountRest
<1> HIDE DEF kept
<1>8. /\ s' \in SpeedState /\ MountRest(s', s) /\ s'.current = cu /\ s'.speed = chosen.speed
      /\ s'.look = IF refused THEN chosen.look ELSE lo
  <2>1. CASE refused
    BY <1>1, <1>7, <2>1
  <2>2. CASE ~ refused
    <3>1. s' = [kept EXCEPT !.look = lo]
      BY <1>1, <2>2
    <3> QED BY <1>4, <1>7, <2>2, <3>1 DEF SpeedState, MountRest
  <2> QED BY <2>1, <2>2
<1>9. s'.speed - Ridden(s') = s.speed - Ridden(s)
  BY <1>2, <1>3, <1>5, <1>6, <1>8 DEF Ridden
<1>10. MountStep(s', s)
  BY <1>8, <1>9 DEF MountStep
<1> QED BY <1>1, <1>10, SpeedMountStep

(* What is worn, and whether the player is fit for it, changes; nothing else. *)
WearRest(r, t) ==
  /\ r.online = t.online /\ r.speed = t.speed /\ r.cond = t.cond
  /\ r.look = t.look /\ r.current = t.current /\ r.enabled = t.enabled

LEMMA WearEven == ASSUME NEW t, NEW r, WearRest(r, t) PROVE Even(r, t)
BY DEF WearRest, Even, Speed!Owed, Speed!IsMounted

Dressed(t, slot, on) == [t EXCEPT !.worn[slot] = on]
WearStep(u, t, slot, on) ==
  /\ u \in SpeedState /\ WearRest(u, t) /\ u.worn[slot] = on
  /\ \A o \in Speed!Slots \ {slot} : u.worn[o] = t.worn[o]

LEMMA WornIs ==
  ASSUME NEW t \in SpeedState, NEW slot \in Speed!Slots, NEW on \in BOOLEAN
  PROVE  WearStep(Dressed(t, slot, on), t, slot, on)
<1> DEFINE w == [t.worn EXCEPT ![slot] = on]
           u == Dressed(t, slot, on)
<1>1. u = [t EXCEPT !.worn = w]
  BY DEF Dressed
<1>2. /\ w \in [Speed!Slots -> BOOLEAN] /\ w[slot] = on
      /\ \A o \in Speed!Slots \ {slot} : w[o] = t.worn[o]
  BY DEF SpeedState
<1> HIDE DEF w, u
<1>3. u \in SpeedState /\ WearRest(u, t) /\ u.worn = w
  BY <1>1, <1>2 DEF SpeedState, WearRest
<1>4. WearStep(u, t, slot, on)
  BY <1>2, <1>3 DEF WearStep
<1> QED BY <1>4 DEF u

LEMMA SpeedPutOn ==
  ASSUME SpeedInv, NEW slot \in Speed!Slots, Speed!PutOn(slot)
  PROVE  SpeedInv' /\ Speed!OutfitStep
<1> DEFINE u == Dressed(s, slot, TRUE)
<1>1. s.online /\ s \in SpeedState /\ s' = Speed!EquipItem(u, slot) /\ TRUE \in BOOLEAN
  BY DEF Speed!PutOn, SpeedInv, Dressed
<1>2. WearStep(u, s, slot, TRUE)
  BY <1>1, WornIs
<1> HIDE DEF u
<1>3. /\ EquipStep(s', u)
      /\ \A o \in Speed!Slots \ {slot} : s'.enabled[o] = u.enabled[o]
  BY <1>1, <1>2, EquipItemKeeps DEF WearStep
<1>4. Even(s', s)
  BY <1>2, <1>3, WearEven, EquipEven DEF Even, WearStep
<1>5. s' \in SpeedState /\ s'.online = s.online /\ WornOnly(s')
  BY <1>2, <1>3 DEF WearStep, EquipStep, EquipRest, WearRest, SpeedInv, WornOnly
<1> QED BY <1>1, <1>4, <1>5, EvenStep

LEMMA SpeedTakeOff ==
  ASSUME SpeedInv, NEW slot \in Speed!Slots, Speed!TakeOff(slot)
  PROVE  SpeedInv' /\ Speed!OutfitStep
<1> DEFINE u == Dressed(s, slot, FALSE)
<1>1. s.online /\ s \in SpeedState /\ s' = Speed!DeEquipItem(u, slot) /\ FALSE \in BOOLEAN
  BY DEF Speed!TakeOff, SpeedInv, Dressed
<1>2. WearStep(u, s, slot, FALSE)
  BY <1>1, WornIs
<1> HIDE DEF u
<1>3. /\ EquipStep(s', u) /\ ~ s'.enabled[slot]
      /\ \A o \in Speed!Slots \ {slot} : s'.enabled[o] = u.enabled[o]
  BY <1>1, <1>2, DeEquipItemKeeps DEF WearStep
<1>4. Even(s', s)
  BY <1>2, <1>3, WearEven, EquipEven DEF Even, WearStep
<1>5. s' \in SpeedState /\ s'.online = s.online /\ WornOnly(s')
  BY <1>2, <1>3 DEF WearStep, EquipStep, EquipRest, WearRest, SpeedInv, WornOnly
<1> QED BY <1>1, <1>4, <1>5, EvenStep

LEMMA SpeedRingDecays ==
  ASSUME SpeedInv, Speed!RingDecays
  PROVE  SpeedInv' /\ Speed!OutfitStep
<1> DEFINE u == Dressed(s, "ring", FALSE)
           v == Speed!DeEquipItem(u, "ring")
<1>1. /\ s.online /\ s \in SpeedState /\ s' = [v EXCEPT !.active = FALSE]
      /\ FALSE \in BOOLEAN /\ "ring" \in Speed!Slots
  BY DEF Speed!RingDecays, SpeedInv, Speed!Slots, Dressed
<1>2. WearStep(u, s, "ring", FALSE)
  BY <1>1, WornIs
<1> HIDE DEF u
<1>3. /\ EquipStep(v, u) /\ ~ v.enabled["ring"]
      /\ \A o \in Speed!Slots \ {"ring"} : v.enabled[o] = u.enabled[o]
  BY <1>1, <1>2, DeEquipItemKeeps DEF WearStep
<1> HIDE DEF v
<1>4. s' \in SpeedState /\ WearRest(s', v) /\ s'.worn = v.worn
  BY <1>1, <1>3 DEF EquipStep, SpeedState, WearRest
<1>5. Even(s', s)
  BY <1>2, <1>3, <1>4, WearEven, EquipEven DEF Even, WearStep
<1>6. s'.online = s.online /\ WornOnly(s')
  BY <1>2, <1>3, <1>4 DEF WearStep, EquipStep, EquipRest, WearRest, SpeedInv, WornOnly
<1> QED BY <1>1, <1>4, <1>5, <1>6, EvenStep

LEMMA SpeedChangeLevel ==
  ASSUME SpeedInv, Speed!ChangeLevel
  PROVE  SpeedInv' /\ Speed!OutfitStep
<1>1. s.online /\ s \in SpeedState /\ s' = [s EXCEPT !.fit = ~ s.fit] /\ (~ s.fit) \in BOOLEAN
  BY DEF Speed!ChangeLevel, SpeedInv
<1>2. s' \in SpeedState /\ WearRest(s', s) /\ s'.worn = s.worn
  BY <1>1 DEF SpeedState, WearRest
<1>3. s'.online = s.online /\ WornOnly(s')
  BY <1>2 DEF WearRest, SpeedInv, WornOnly
<1> QED BY <1>1, <1>2, <1>3, WearEven, EvenStep

LEMMA SpeedEndDisguise ==
  ASSUME SpeedInv, Speed!EndDisguise
  PROVE  SpeedInv' /\ Speed!OutfitStep
<1>1. s.online /\ s \in SpeedState /\ s' = [s EXCEPT !.outfit = FALSE]
  BY DEF Speed!EndDisguise, SpeedInv
<1>2. s' \in SpeedState /\ WearRest(s', s) /\ s'.worn = s.worn
  BY <1>1 DEF SpeedState, WearRest
<1>3. s'.online = s.online /\ WornOnly(s')
  BY <1>2 DEF WearRest, SpeedInv, WornOnly
<1> QED BY <1>1, <1>2, <1>3, WearEven, EvenStep

(* Who gets an outfit dismounts; the speed of a mount is lost that was not   *)
(* ridden.                                                                   *)
LEMMA AddOutfitIs ==
  ASSUME NEW t \in SpeedState, ~ t.outfit, NEW r, r = Speed!AddOutfit(t)
  PROVE  /\ r \in SpeedState /\ MountRest(r, t) /\ r.outfit /\ r.look = 0
         /\ r.current = t.current
         /\ r.speed - Speed!Owed(r) = t.speed - Speed!Owed(t)
                                      - IF t.look = 0 THEN t.current ELSE 0
<1> DEFINE u == Speed!Dismount(t)
<1>1. r = [u EXCEPT !.outfit = TRUE]
  BY DEF Speed!AddOutfit
<1>2. /\ u \in SpeedState /\ MountRest(u, t) /\ u.look = 0 /\ u.current = t.current
      /\ u.speed = t.speed - t.current
  BY DismountIs
<1> HIDE DEF u
<1>3. /\ r \in SpeedState /\ MountRest(r, u) /\ r.outfit /\ r.look = u.look
      /\ r.current = u.current /\ r.speed = u.speed
  BY <1>1, <1>2 DEF SpeedState, MountRest
<1>4. MountRest(r, t)
  BY <1>2, <1>3 DEF MountRest
<1>5. /\ Suffered(r) = Suffered(t) /\ OnFeet(r) = OnFeet(t) /\ OnFinger(r) = OnFinger(t)
  BY <1>4 DEF MountRest, Suffered, OnFeet, OnFinger
<1>6. Ridden(r) = 0 /\ Ridden(t) = IF t.look = 0 THEN 0 ELSE t.current
  BY <1>2, <1>3 DEF Ridden
<1>7. r.speed = t.speed - t.current
  BY <1>2, <1>3
<1>8. r.speed - Speed!Owed(r) = t.speed - Speed!Owed(t) - IF t.look = 0 THEN t.current ELSE 0
  BY <1>3, <1>5, <1>6, <1>7, OwedIs
<1> QED BY <1>2, <1>3, <1>4, <1>8

LEMMA SpeedDisguise ==
  ASSUME SpeedInv, Speed!Disguise
  PROVE  SpeedInv' /\ Speed!OutfitStep
<1>1. s.online /\ s \in SpeedState /\ s' = Speed!AddOutfit(s)
  BY DEF Speed!Disguise, SpeedInv
<1>2. CASE s.outfit
  <2>1. s' = s
    BY <1>1, <1>2 DEF Speed!AddOutfit
  <2> QED BY <1>1, <2>1, EvenStep DEF SpeedInv, Even
<1>3. CASE ~ s.outfit
  <2> DEFINE x == IF s.look = 0 THEN s.current ELSE 0
  <2>1. /\ s' \in SpeedState /\ MountRest(s', s) /\ s'.outfit
        /\ s'.speed - Speed!Owed(s') = s.speed - Speed!Owed(s) - x
    BY <1>1, <1>3, AddOutfitIs
  <2>2. s'.online = s.online /\ WornOnly(s')
    BY <2>1 DEF MountRest, SpeedInv, WornOnly
  <2>3. s.speed - Speed!Owed(s) \in Int /\ s.current \in Int
    BY <1>1, OwedIs
  <2>4. Speed!Astray(s) = s.speed - Speed!Owed(s) /\ Speed!Astray(s') = Speed!Astray(s) - x
    BY <1>1, <2>1, <2>2 DEF Speed!Astray
  <2>5. Speed!Astray(s') # Speed!Astray(s) => s.look = 0 /\ s.current # 0
    BY <2>3, <2>4
  <2>6. s.look = 0 => Speed!Astray(s') = Speed!Astray(s) - s.current
    BY <2>4
  <2> QED BY <1>1, <1>3, <2>1, <2>2, <2>5, <2>6 DEF SpeedInv, WornOnly, Speed!OutfitStep
<1> QED BY <1>2, <1>3

LEMMA SpeedLogout ==
  ASSUME SpeedInv, NEW disguised \in BOOLEAN, Speed!Logout(disguised)
  PROVE  SpeedInv' /\ Speed!OutfitStep
<1> DEFINE cs == [c \in Speed!Types |-> IF s.cond[c].left = "forever" THEN Speed!None
                                        ELSE s.cond[c]]
           en == [l \in Speed!Slots |-> FALSE]
           ou == s.outfit /\ disguised
<1>1. /\ s \in SpeedState
      /\ s' = [s EXCEPT !.online = FALSE, !.speed = 0, !.tasks = <<>>, !.look = 0,
                        !.outfit = ou, !.cond = cs, !.enabled = en]
  BY DEF Speed!Logout, SpeedInv, SpeedState
<1>2. cs \in [Speed!Types -> SpeedCond]
  BY <1>1, SpeedNone DEF SpeedState
<1>3. ou \in BOOLEAN /\ en \in [Speed!Slots -> BOOLEAN] /\ \A l \in Speed!Slots : ~ en[l]
  OBVIOUS
<1> HIDE DEF cs, en, ou
<1> DEFINE v == [s EXCEPT !.online = FALSE, !.speed = 0]
           u == [v EXCEPT !.tasks = <<>>, !.look = 0]
<1>4. s' = [u EXCEPT !.outfit = ou, !.cond = cs, !.enabled = en]
  BY <1>1
<1>5. /\ u \in SpeedState /\ ~ u.online /\ u.speed = 0 /\ u.look = 0 /\ u.tasks = <<>>
  <2>1. s \in SpeedState
    BY <1>1
  <2>2. v \in SpeedState /\ ~ v.online /\ v.speed = 0
    <3> DEFINE x == [s EXCEPT !.online = FALSE]
    <3>1. x \in SpeedState
      BY <2>1 DEF SpeedState
    <3>2. ~ x.online
      BY <2>1 DEF SpeedState
    <3>3. v = [x EXCEPT !.speed = 0]
      OBVIOUS
    <3> HIDE DEF x, v
    <3>4. v \in SpeedState
      BY <3>1, <3>3 DEF SpeedState
    <3> QED BY <3>1, <3>2, <3>3, <3>4 DEF SpeedState
  <2>3. <<>> \in Seq(SpeedTask)
    OBVIOUS
  <2> HIDE DEF v
  <2> QED BY <2>2, <2>3 DEF SpeedState
<1> HIDE DEF u
<1>6. /\ s' \in SpeedState /\ ~ s'.online /\ s'.speed = 0 /\ s'.look = 0
      /\ s'.tasks = <<>> /\ s'.enabled = en
  BY <1>2, <1>3, <1>4, <1>5 DEF SpeedState
<1> QED BY <1>3, <1>6 DEF SpeedInv, Bare, WornOnly, Speed!OutfitStep

-----------------------------------------------------------------------------
(* Login: what a player wears and suffers is put on again, one after the     *)
(* other.                                                                    *)

(* t came from s, by items and conditions put on it. *)
Dressing(t) ==
  /\ t \in SpeedState /\ WornOnly(t) /\ t.online /\ ~ t.outfit
  /\ t.current = s.current /\ t.look = 0 /\ t.speed = Speed!Owed(t)

Wear(t, slot) == IF t.worn[slot] THEN Speed!EquipItem(t, slot) ELSE t
Suffer(t, type) ==
  IF s.cond[type] = Speed!None THEN t
  ELSE Speed!AddCondition(t, type, s.cond[type], FALSE, FALSE)

LEMMA WearDresses ==
  ASSUME NEW t, Dressing(t), NEW slot \in Speed!Slots, NEW r, r = Wear(t, slot)
  PROVE  Dressing(r)
<1>1. t \in SpeedState
  BY DEF Dressing
<1>2. CASE ~ t.worn[slot]
  BY <1>2 DEF Wear
<1>3. CASE t.worn[slot]
  <2>1. r = Speed!EquipItem(t, slot)
    BY <1>3 DEF Wear
  <2>2. /\ EquipStep(r, t)
        /\ \A o \in Speed!Slots \ {slot} : r.enabled[o] = t.enabled[o]
    BY <1>1, <2>1, EquipItemKeeps
  <2>3. r.speed = Speed!Owed(r)
    <3>1. r \in SpeedState /\ Even(r, t)
      BY <1>1, <2>2, EquipEven DEF EquipStep
    <3>2. t.speed - Speed!Owed(t) = 0
      BY <1>1, OwedIs DEF Dressing
    <3>3. Speed!Owed(r) \in Int /\ r.speed \in Int
      BY <3>1, OwedIs
    <3> QED BY <3>1, <3>2, <3>3 DEF Even
  <2>4. WornOnly(r)
    BY <1>3, <2>2 DEF EquipStep, EquipRest, WornOnly, Dressing
  <2> QED BY <2>2, <2>3, <2>4 DEF EquipStep, EquipRest, Dressing
<1> QED BY <1>2, <1>3

LEMMA SufferDresses ==
  ASSUME s \in SpeedState, NEW t, Dressing(t), NEW type \in Speed!Types, NEW r, r = Suffer(t, type)
  PROVE  Dressing(r)
<1>1. t \in SpeedState /\ s.cond[type] \in SpeedCond /\ FALSE \in BOOLEAN
  BY DEF Dressing, SpeedState
<1>2. CASE s.cond[type] = Speed!None
  BY <1>2 DEF Suffer
<1>3. CASE s.cond[type] # Speed!None
  <2>1. r = Speed!AddCondition(t, type, s.cond[type], FALSE, FALSE)
    BY <1>3 DEF Suffer
  <2>2. CondStep(r, t)
    BY <1>1, <2>1, AddConditionKeeps
  <2>3. r.speed = Speed!Owed(r)
    <3>1. r \in SpeedState /\ Even(r, t)
      BY <1>1, <2>2, CondEven DEF CondStep
    <3>2. t.speed - Speed!Owed(t) = 0
      BY <1>1, OwedIs DEF Dressing
    <3>3. Speed!Owed(r) \in Int /\ r.speed \in Int
      BY <3>1, OwedIs
    <3> QED BY <3>1, <3>2, <3>3 DEF Even
  <2>4. WornOnly(r)
    BY <2>2 DEF CondStep, SpeedRest, WornOnly, Dressing
  <2> QED BY <2>2, <2>3, <2>4 DEF CondStep, SpeedRest, Dressing
<1> QED BY <1>2, <1>3

LEMMA SpeedLogin ==
  ASSUME SpeedInv, Speed!Login
  PROVE  SpeedInv' /\ Speed!OutfitStep
<1> DEFINE none0 == [c \in Speed!Types |-> Speed!None]
           bare == [s EXCEPT !.online = TRUE, !.cond = none0, !.outfit = FALSE]
           felt == Suffer(Suffer(Wear(Wear(bare, "feet"), "ring"), "haste"), "slow")
<1>1. /\ ~ s.online /\ s \in SpeedState /\ Bare(s)
      /\ s' = IF s.outfit THEN Speed!AddOutfit(felt) ELSE felt
  BY DEF Speed!Login, Wear, Suffer, SpeedInv
<1>2. none0 \in [Speed!Types -> SpeedCond] /\ \A c \in Speed!Types : none0[c].delta = 0
  BY SpeedNone
<1> HIDE DEF none0
<1>3. /\ bare \in SpeedState /\ bare.online /\ ~ bare.outfit /\ bare.cond = none0
      /\ bare.current = s.current /\ bare.look = 0 /\ bare.speed = 0
      /\ bare.enabled = s.enabled /\ bare.worn = s.worn
  BY <1>1, <1>2 DEF SpeedState, Bare
<1> HIDE DEF bare
<1>4. Dressing(bare)
  <2>1. Suffered(bare) = 0
    BY <1>2, <1>3 DEF Suffered, Speed!Types
  <2>2. OnFeet(bare) = 0 /\ OnFinger(bare) = 0 /\ Ridden(bare) = 0
    BY <1>1, <1>3 DEF OnFeet, OnFinger, Ridden, Bare, Speed!Slots
  <2>3. bare.speed = Speed!Owed(bare)
    BY <1>3, <2>1, <2>2, OwedIs
  <2> QED BY <1>3, <2>3 DEF Dressing, SpeedInv, WornOnly
<1>5. Dressing(felt)
  <2>1. Dressing(Wear(bare, "feet"))
    BY <1>4, WearDresses DEF Speed!Slots
  <2>2. Dressing(Wear(Wear(bare, "feet"), "ring"))
    BY <2>1, WearDresses DEF Speed!Slots
  <2>3. Dressing(Suffer(Wear(Wear(bare, "feet"), "ring"), "haste"))
    BY <1>1, <2>2, SufferDresses DEF Speed!Types
  <2> QED BY <1>1, <2>3, SufferDresses DEF Speed!Types
<1> HIDE DEF felt
<1>6. felt.speed - Speed!Owed(felt) = 0 /\ felt.current \in Int
  BY <1>5, OwedIs DEF Dressing
<1>7. CASE s.outfit
  <2>1. s' = Speed!AddOutfit(felt)
    BY <1>1, <1>7
  <2>2. /\ s' \in SpeedState /\ MountRest(s', felt) /\ s'.outfit
        /\ s'.speed - Speed!Owed(s') = felt.speed - Speed!Owed(felt)
                                        - IF felt.look = 0 THEN felt.current ELSE 0
    BY <1>5, <2>1, AddOutfitIs DEF Dressing
  <2>3. s'.online /\ WornOnly(s')
    BY <1>5, <2>2 DEF MountRest, Dressing, WornOnly
  <2>4. s.current = 0 => Speed!Astray(s') = 0
    BY <1>5, <1>6, <2>2, <2>3 DEF Dressing, Speed!Astray
  <2>5. Speed!Astray(s) = 0
    BY <1>1 DEF Speed!Astray
  <2>6. s'.online # s.online
    BY <1>1, <2>3
  <2> QED BY <2>2, <2>3, <2>4, <2>5, <2>6 DEF SpeedInv, WornOnly, Speed!OutfitStep
<1>8. CASE ~ s.outfit
  <2>1. s' = felt
    BY <1>1, <1>8
  <2>2. Speed!Astray(s') = Speed!Astray(s)
    BY <1>1, <1>6, <2>1 DEF Speed!Astray
  <2> QED BY <1>5, <2>1, <2>2 DEF Dressing, SpeedInv, WornOnly, Speed!OutfitStep
<1> QED BY <1>7, <1>8

LEMMA SpeedInit == Speed!Init => SpeedInv
<1> SUFFICES ASSUME Speed!Init PROVE SpeedInv
  OBVIOUS
<1>1. /\ [c \in Speed!Types |-> Speed!None] \in [Speed!Types -> SpeedCond]
      /\ [l \in Speed!Slots |-> FALSE] \in [Speed!Slots -> BOOLEAN]
      /\ <<>> \in Seq(SpeedTask) /\ 0 \in Steeds \cup {0}
  BY SpeedNone
<1>2. s \in SpeedState
  BY <1>1 DEF Speed!Init, SpeedState
<1> QED BY <1>2 DEF Speed!Init, SpeedInv, WornOnly, Bare

LEMMA SpeedNext == SpeedInv /\ Speed!Next => SpeedInv' /\ Speed!OutfitStep
BY SpeedCast, SpeedDispel, SpeedRunOut, SpeedExecuteConditions, SpeedRunTask, SpeedTame,
   SpeedUntame, SpeedChangeOutfit, SpeedPutOn, SpeedTakeOff, SpeedDisguise, SpeedEndDisguise,
   SpeedMountUp, SpeedToggleOff, SpeedRingDecays, SpeedChangeLevel, SpeedLogin, SpeedLogout
DEF Speed!Next

LEMMA SpeedHolds == SpeedInv => Speed!TypeOK
BY DEF SpeedInv, SpeedState, SpeedTask, SpeedCond, Speed!TypeOK

LEMMA SpeedStutter == SpeedInv /\ s' = s => SpeedInv'
BY DEF SpeedInv, WornOnly, Bare

(* Whatever hastes, slows, boots, rings, mounts and disguises come and go, in *)
(* whatever order and however late: what each gave is taken back, but for a   *)
(* disguise that begins on no mount (creature.cpp, player.cpp, condition.cpp), *)
(* for any speeds and any number of tasks that wait.                          *)
THEOREM SpeedTakenBack ==
  Speed!Spec => []Speed!TypeOK /\ Speed!OnlyOutfitsGoAstray
<1>1. SpeedInv /\ [Speed!Next]_s => SpeedInv' /\ [Speed!OutfitStep]_s
  BY SpeedNext, SpeedStutter
<1> QED BY <1>1, SpeedHolds, SpeedInit, PTL DEF Speed!Spec, Speed!OnlyOutfitsGoAstray

-----------------------------------------------------------------------------
(* Damage *)

LEMMA DamageConstants ==
  /\ DamageAbout \subseteq SUBSET {"player", "monster"} /\ DamageInDetail \subseteq DamageAbout
  /\ DamageHits \subseteq Nat \X Nat /\ DamageReplies \subseteq Nat \X Nat
  /\ DamageHealth \in Nat \ {0} /\ DamageCaster \in Nat \ {0} /\ DamageMana \in Nat \ {0}
  /\ DamageDefense \in Nat /\ DamageArmor \in Nat /\ DamageCharges \in Nat
  /\ DamageBlocks \in Nat /\ DamageCredit \in Nat /\ DamageDeaths \in Nat \ {0}
BY PlayersAssumption DEF Damage!DamageAssumption, Damage!AllVictims, Damage!Player, Damage!Monster

LEMMA DamageMax ==
  ASSUME NEW a \in Int, NEW b \in Int
  PROVE  Damage!Max({a, b}) = IF a >= b THEN a ELSE b
<1>1. \E x \in {a, b} : \A y \in {a, b} : x >= y
  OBVIOUS
<1>2. Damage!Max({a, b}) \in {a, b} /\ \A y \in {a, b} : Damage!Max({a, b}) >= y
  BY <1>1 DEF Damage!Max
<1> QED BY <1>2

LEMMA DamageMin ==
  ASSUME NEW a \in Int, NEW b \in Int
  PROVE  Damage!Min({a, b}) = IF a <= b THEN a ELSE b
<1>1. \E x \in {a, b} : \A y \in {a, b} : x <= y
  OBVIOUS
<1>2. Damage!Min({a, b}) \in {a, b} /\ \A y \in {a, b} : Damage!Min({a, b}) <= y
  BY <1>1 DEF Damage!Min
<1> QED BY <1>2

(* Parts of a natural number are natural numbers, and half of one is no more. *)
LEMMA PercentNat ==
  ASSUME NEW n \in Nat
  PROVE  /\ Damage!Percent(n, 50) \in Nat /\ Damage!Percent(n, 150) \in Nat
         /\ n # 0 => Damage!Percent(n, 50) <= n
         /\ n \div 2 \in Nat
BY DEF Damage!Percent

(* Nobody gains more than what was taken, by one or by two. *)
LEMMA LeechNoMore ==
  ASSUME NEW n \in Nat
  PROVE  /\ Damage!LeechShare(n, 1) \in Nat /\ Damage!LeechShare(n, 1) <= n
         /\ Damage!LeechShare(n, 2) \in Nat /\ Damage!LeechShare(n, 2) <= n
<1>1. Damage!LeechShare(n, 1) = (n * 100 * 10 + 999) \div 1000
  BY DEF Damage!LeechShare, Damage!LeechPercent
<1>2. Damage!LeechShare(n, 2) = (n * 100 * 11 + 1999) \div 2000
  BY DEF Damage!LeechShare, Damage!LeechPercent
<1> QED BY <1>1, <1>2

(* A victim in the middle of a hit: its counters have no bound yet.          *)
Rec == [health : 0 .. DamageHealth, mana : 0 .. DamageMana, shield : BOOLEAN,
        blocks : 0 .. DamageBlocks, charges : 0 .. DamageCharges, deaths : Nat,
        credit : Nat, taken : Nat]

(* Who has no health left is about to die. *)
Mortal(r) == r.health = 0 => r.deaths # 0

(* A hit on its way; what scripts may answer. *)
Dmg == [first : Nat, second : Nat, type : Damage!Types, heal : BOOLEAN,
        by : {"none", "defense", "armor"}, asked : BOOLEAN]
Answers(w) ==
  /\ w.health \in Nat \X Nat /\ w.mana \in Nat \X Nat
  /\ w.heals \in BOOLEAN /\ w.dies \in BOOLEAN

LEMMA WordsAnswer ==
  ASSUME NEW asked, NEW w \in Damage!Words(asked)
  PROVE  Answers(w)
<1>1. <<0, 0>> \in Nat \X Nat
  OBVIOUS
<1>2. /\ w.health \in Damage!Answers("health", asked, DamageReplies, <<0, 0>>)
      /\ w.heals \in Damage!Answers("health", asked, BOOLEAN, FALSE)
      /\ w.mana \in Damage!Answers("mana", asked, DamageReplies, <<0, 0>>)
      /\ w.dies \in Damage!Answers("prepare", asked, BOOLEAN, TRUE)
  BY DEF Damage!Words
<1> QED BY <1>1, <1>2, DamageConstants DEF Damage!Answers, Answers

(* The sums of two halves. *)
Sum(d) == d.first + d.second

(* n is r with blocks and charges used up. *)
Blocked(n, r) ==
  /\ n \in Rec /\ n.health = r.health /\ n.mana = r.mana /\ n.shield = r.shield
  /\ n.deaths = r.deaths /\ n.credit = r.credit /\ n.taken = r.taken

LEMMA CreatureBlockHitIs ==
  ASSUME NEW r \in Rec, NEW amount \in Nat, NEW cd \in BOOLEAN, NEW ca \in BOOLEAN,
         NEW roll \in [shield : Int, armor : Int], NEW b,
         b = Damage!CreatureBlockHit(r, amount, cd, ca, roll)
  PROVE  /\ Blocked(b.r, r) /\ b.left \in Nat /\ b.by \in {"none", "defense", "armor"}
         /\ (~ cd /\ ~ ca) => b.left <= amount
         /\ b = [r |-> b.r, left |-> b.left, by |-> b.by]
<1> DEFINE able == (cd \/ ca) /\ r.blocks > 0
           parried == Damage!Max({0, amount - roll.shield})
           stopped == cd /\ able /\ parried = 0
           left == IF cd /\ able THEN parried ELSE amount
           worn == IF ca /\ ~ stopped THEN Damage!Max({0, left - roll.armor}) ELSE left
           bl == IF able THEN r.blocks - 1 ELSE r.blocks
           by == IF stopped THEN "defense" ELSE IF ca /\ worn = 0 THEN "armor" ELSE "none"
<1>1. b = [r |-> [r EXCEPT !.blocks = bl], left |-> worn, by |-> by]
  BY DEF Damage!CreatureBlockHit
<1>2. parried \in Nat
  <2>1. amount - roll.shield \in Int
    OBVIOUS
  <2> QED BY <2>1, DamageMax
<1>3. left \in Nat /\ left - roll.armor \in Int
  BY <1>2
<1>4. worn \in Nat /\ (~ cd /\ ~ ca => worn = amount)
  <2> HIDE DEF parried, stopped
  <2>1. Damage!Max({0, left - roll.armor}) \in Nat
    BY <1>3, DamageMax
  <2> QED BY <1>3, <2>1
<1>5. bl \in 0 .. DamageBlocks
  BY DamageConstants DEF Rec
<1>6. by \in {"none", "defense", "armor"}
  OBVIOUS
<1> HIDE DEF worn, bl, by
<1> DEFINE q == [r EXCEPT !.blocks = bl]
<1>7. Blocked(q, r)
  BY <1>5 DEF Rec, Blocked
<1> HIDE DEF q
<1>8. b = [r |-> q, left |-> worn, by |-> by]
  BY <1>1 DEF q
<1>9. b.r = q /\ b.left = worn /\ b.by = by
  BY <1>8
<1>10. b = [r |-> b.r, left |-> b.left, by |-> b.by]
  BY ONLY <1>8, <1>9
<1> QED BY <1>4, <1>6, <1>7, <1>9, <1>10

LEMMA BlockHitIs ==
  ASSUME NEW v \in {"player", "monster"}, NEW r \in Rec, NEW amount \in Nat, NEW type,
         NEW cd \in BOOLEAN, NEW ca \in BOOLEAN, NEW roll \in [shield : Int, armor : Int],
         NEW b, b = Damage!BlockHit(v, r, amount, type, cd, ca, roll)
  PROVE  /\ Blocked(b.r, r) /\ b.left \in Nat /\ b.by \in {"none", "defense", "armor"}
         /\ v = "player" /\ ~ cd /\ ~ ca => b.left <= amount
<1> DEFINE c == Damage!CreatureBlockHit(r, amount, cd, ca, roll)
<1>1. /\ Blocked(c.r, r) /\ c.left \in Nat /\ c.by \in {"none", "defense", "armor"}
      /\ (~ cd /\ ~ ca) => c.left <= amount
      /\ c = [r |-> c.r, left |-> c.left, by |-> c.by]
  BY CreatureBlockHitIs
<1>2. b = IF v = "player" THEN Damage!PlayerBlockHit(c) ELSE Damage!MonsterBlockHit(c, type)
  BY DEF Damage!BlockHit, Damage!Player
<1> HIDE DEF c
<1>3. CASE v = "player"
  <2>1. b = Damage!PlayerBlockHit(c)
    BY <1>2, <1>3
  <2>2. CASE c.by # "none"
    <3>1. b = c
      BY <2>1, <2>2 DEF Damage!PlayerBlockHit
    <3> QED BY <1>1, <3>1
  <2>3. CASE c.by = "none" /\ c.left = 0
    <3>1. b = [c EXCEPT !.by = "armor"]
      BY <2>1, <2>3 DEF Damage!PlayerBlockHit
    <3>2. b.r = c.r /\ b.left = c.left /\ b.by = "armor"
      BY <1>1, <3>1
    <3> QED BY <1>1, <3>2
  <2>4. CASE c.by = "none" /\ c.left # 0 /\ c.r.charges = 0
    <3>1. b = c
      BY <2>1, <2>4 DEF Damage!PlayerBlockHit
    <3> QED BY <1>1, <3>1
  <2>5. CASE c.by = "none" /\ c.left # 0 /\ c.r.charges # 0
    <3> DEFINE left == c.left - Damage!Percent(c.left, 50)
               ch == c.r.charges - 1
    <3>1. b = [r |-> [c.r EXCEPT !.charges = ch], left |-> left,
               by |-> IF left = 0 THEN "armor" ELSE "none"]
      BY <2>1, <2>5 DEF Damage!PlayerBlockHit
    <3>2. left \in Nat /\ left <= c.left
      BY <1>1, <2>5, PercentNat
    <3>3. ch \in 0 .. DamageCharges
      BY <1>1, <2>5, DamageConstants DEF Blocked, Rec
    <3> HIDE DEF left, ch
    <3>4. Blocked([c.r EXCEPT !.charges = ch], r)
      BY <1>1, <3>3 DEF Rec, Blocked
    <3> QED BY <1>1, <3>1, <3>2, <3>4
  <2> QED BY <2>2, <2>3, <2>4, <2>5
<1>4. CASE v = "monster"
  <2>1. b = Damage!MonsterBlockHit(c, type)
    BY <1>2, <1>4
  <2>2. Damage!Percent(c.left, 150) \in Nat
    BY <1>1, PercentNat
  <2>3. b = IF type = "element" THEN [c EXCEPT !.left = Damage!Percent(c.left, 150)] ELSE c
    BY <2>1 DEF Damage!MonsterBlockHit
  <2>4. b.r = c.r /\ b.left \in Nat /\ b.by = c.by
    BY <1>1, <2>2, <2>3
  <2> QED BY <1>1, <1>4, <2>4
<1> QED BY <1>3, <1>4

LEMMA BlockedTwice ==
  ASSUME NEW r, NEW m, NEW n, Blocked(m, r), Blocked(n, m) PROVE Blocked(n, r)
BY DEF Blocked

LEMMA BlockedNone == ASSUME NEW r \in Rec PROVE Blocked(r, r)
BY DEF Blocked

LEMMA CombatBlockHitIs ==
  ASSUME NEW v \in {"player", "monster"}, NEW r \in Rec, NEW d \in Dmg,
         NEW roll \in [shield : Int, armor : Int],
         NEW b, b = Damage!CombatBlockHit(v, r, d, roll)
  PROVE  /\ Blocked(b.r, r) /\ b.d \in Dmg
         /\ b.d.type = d.type /\ b.d.heal = d.heal /\ b.d.asked = d.asked
<1>1. CASE d.heal
  <2>1. b = [r |-> r, d |-> d, all |-> FALSE]
    BY <1>1 DEF Damage!CombatBlockHit
  <2> QED BY <2>1, BlockedNone
<1>2. CASE ~ d.heal
  <2> DEFINE first == Damage!BlockHit(v, r, d.first, d.type, TRUE, TRUE, roll)
             second == IF d.second = 0 THEN [r |-> first.r, left |-> d.second, by |-> "none"]
                       ELSE Damage!BlockHit(v, first.r, d.second, d.type, FALSE, FALSE, roll)
             e == [d EXCEPT !.first = first.left, !.second = second.left, !.by = first.by]
  <2>1. b = [r |-> second.r, d |-> e, all |-> first.by # "none" /\ second.by # "none"]
    BY <1>2 DEF Damage!CombatBlockHit
  <2>2. d.first \in Nat /\ d.second \in Nat /\ TRUE \in BOOLEAN /\ FALSE \in BOOLEAN
    BY DEF Dmg
  <2>3. Blocked(first.r, r) /\ first.left \in Nat /\ first.by \in {"none", "defense", "armor"}
    BY <2>2, BlockHitIs
  <2> HIDE DEF first
  <2>4. Blocked(second.r, first.r) /\ second.left \in Nat
    <3>1. first.r \in Rec
      BY <2>3 DEF Blocked
    <3>2. CASE d.second = 0
      <4>1. second = [r |-> first.r, left |-> d.second, by |-> "none"]
        BY <3>2
      <4> HIDE DEF second
      <4> QED BY <2>2, <3>1, <4>1, BlockedNone
    <3>3. CASE d.second # 0
      <4>1. second = Damage!BlockHit(v, first.r, d.second, d.type, FALSE, FALSE, roll)
        BY <3>3
      <4> HIDE DEF second
      <4> QED BY <2>2, <3>1, <4>1, BlockHitIs
    <3> QED BY <3>2, <3>3
  <2> HIDE DEF second
  <2>5. e \in Dmg /\ e.type = d.type /\ e.heal = d.heal /\ e.asked = d.asked
    BY <2>3, <2>4 DEF Dmg
  <2> HIDE DEF e
  <2>6. b.r = second.r /\ b.d = e
    BY <2>1
  <2> QED BY <2>3, <2>4, <2>5, <2>6, BlockedTwice
<1> QED BY <1>1, <1>2

(* n is r with mana taken, and credited. *)
Drained(n, r) ==
  /\ n \in Rec /\ n.health = r.health /\ n.shield = r.shield /\ n.deaths = r.deaths
  /\ n.taken = r.taken /\ n.mana <= r.mana /\ n.credit = r.credit + (r.mana - n.mana)

LEMMA DrainedTwice ==
  ASSUME NEW r \in Rec, NEW m, NEW n, Drained(m, r), Drained(n, m) PROVE Drained(n, r)
BY DEF Drained, Rec

LEMMA BlockedDrained == ASSUME NEW r \in Rec, NEW n, Blocked(n, r) PROVE Drained(n, r)
BY DEF Drained, Blocked, Rec

LEMMA DrainManaIs ==
  ASSUME NEW r \in Rec, NEW amount \in Nat, amount <= r.mana, NEW n,
         n = Damage!DrainMana(r, amount)
  PROVE  Drained(n, r) /\ n.mana = r.mana - amount
<1> DEFINE ma == r.mana - amount
           cr == r.credit + amount
<1>1. n = [[r EXCEPT !.mana = ma] EXCEPT !.credit = cr]
  BY DEF Damage!DrainMana, Damage!Credit, Rec
<1>2. ma \in 0 .. DamageMana /\ cr \in Nat /\ r.mana \in Int /\ r.credit \in Int
  BY DamageConstants DEF Rec
<1> HIDE DEF ma, cr
<1>3. /\ n \in Rec /\ n.health = r.health /\ n.shield = r.shield /\ n.deaths = r.deaths
      /\ n.taken = r.taken /\ n.mana = ma /\ n.credit = cr
  BY <1>1, <1>2 DEF Rec
<1> QED BY <1>2, <1>3 DEF Drained, ma, cr

(* Behind the mana shield: no mana, or no damage, is left. *)
LEMMA ManaShieldIs ==
  ASSUME NEW v \in {"player", "monster"}, NEW r \in Rec, NEW d \in Dmg, NEW events, NEW w,
         Answers(w), NEW m, m = Damage!ManaShield(v, r, d, events, w)
  PROVE  /\ Drained(m.r, r) /\ m.d \in Dmg
         /\ m.d.type = d.type /\ m.d.heal = d.heal /\ m.d.asked = d.asked
         /\ v = "player" /\ r.shield /\ d.type # "undefined" => m.r.mana = 0 \/ Sum(m.d) = 0
<1> DEFINE due == Damage!Min({r.mana, d.first + d.second})
           told == IF "mana" \in events /\ ~ d.asked THEN Damage!ManaAnswer(d, w) ELSE d
           drain == Damage!Min({r.mana, told.first + told.second})
           open == v # "player" \/ ~ r.shield \/ d.type = "undefined" \/ due = 0
<1>1. m = IF open THEN [r |-> r, d |-> d]
          ELSE [r |-> Damage!DrainMana(r, drain), d |-> Damage!BehindShield(told, drain)]
  BY DEF Damage!ManaShield, Damage!Player
<1>2. r.mana \in Nat /\ d.first \in Nat /\ d.second \in Nat
  BY DamageConstants DEF Rec, Dmg
<1>3. /\ told \in Dmg /\ told.type = d.type /\ told.heal = d.heal /\ told.asked = d.asked
  <2>1. CASE "mana" \in events /\ ~ d.asked
    <3>1. told = [[d EXCEPT !.first = w.mana[1]] EXCEPT !.second = w.mana[2]]
      BY <2>1 DEF Damage!ManaAnswer
    <3>2. w.mana[1] \in Nat /\ w.mana[2] \in Nat
      BY DEF Answers
    <3> HIDE DEF told
    <3> QED BY <3>1, <3>2 DEF Dmg
  <2>2. CASE ~ ("mana" \in events /\ ~ d.asked)
    <3>1. told = d
      BY <2>2
    <3> QED BY <3>1
  <2> QED BY <2>1, <2>2
<1> HIDE DEF told
<1>4. told.first \in Nat /\ told.second \in Nat
  BY <1>3 DEF Dmg
<1>5. /\ drain \in Nat /\ drain <= r.mana
      /\ drain = r.mana \/ drain = told.first + told.second
  BY <1>2, <1>4, DamageMin
<1>6. due = 0 => r.mana = 0 \/ Sum(d) = 0
  BY <1>2, DamageMin DEF Sum
<1> HIDE DEF due, drain
<1>7. CASE open
  <2>1. m.r = r /\ m.d = d
    BY <1>1, <1>7
  <2> QED BY <1>6, <1>7, <2>1, BlockedNone, BlockedDrained
<1>8. CASE ~ open
  <2> DEFINE e == Damage!BehindShield(told, drain)
             n == Damage!DrainMana(r, drain)
             fi == Damage!Max({0, told.first - drain})
             over == Damage!Max({0, drain - told.first})
             se == Damage!Max({0, told.second - over})
  <2>1. m.r = n /\ m.d = e
    BY <1>1, <1>8
  <2>2. Drained(n, r) /\ n.mana = r.mana - drain
    BY <1>5, DrainManaIs
  <2>3. e = [[told EXCEPT !.first = fi] EXCEPT !.second = se]
    BY <1>3 DEF Damage!BehindShield, Dmg
  <2>4. fi \in Nat /\ over \in Nat /\ (drain = told.first + told.second => fi = 0 /\ over = told.second)
    BY <1>4, <1>5, DamageMax
  <2> HIDE DEF fi, over, n, e
  <2>5. se \in Nat /\ (over = told.second => se = 0)
    BY <1>4, <2>4, DamageMax
  <2> HIDE DEF se
  <2>6. /\ e \in Dmg /\ e.type = told.type /\ e.heal = told.heal /\ e.asked = told.asked
        /\ e.first = fi /\ e.second = se
    BY <1>3, <2>3, <2>4, <2>5 DEF Dmg
  <2>7. n.mana = 0 \/ Sum(e) = 0
    BY <1>2, <1>5, <2>2, <2>4, <2>5, <2>6 DEF Sum
  <2> QED BY <1>3, <2>1, <2>2, <2>6, <2>7
<1> QED BY <1>7, <1>8

Lost(a, b) == IF a >= b THEN a - b ELSE 0

(* n is r after a hit: all it has lost is credited. *)
Struck(n, r) ==
  /\ n \in Rec /\ Mortal(n) /\ n.shield = r.shield /\ n.taken = r.taken /\ n.mana <= r.mana
  /\ n.credit = r.credit + Lost(r.health, n.health) + (r.mana - n.mana)

LEMMA RecNumbers ==
  ASSUME NEW r \in Rec
  PROVE  r.health \in Nat /\ r.mana \in Nat /\ r.credit \in Nat /\ r.taken \in Nat
BY DamageConstants DEF Rec

LEMMA DrainedStruck ==
  ASSUME NEW r \in Rec, Mortal(r), NEW n, Drained(n, r)
  PROVE  Struck(n, r) /\ n.health = r.health
BY RecNumbers DEF Drained, Struck, Mortal, Lost

LEMMA DrainedThenStruck ==
  ASSUME NEW r \in Rec, NEW m, Drained(m, r), NEW n, Struck(n, m)
  PROVE  Struck(n, r)
<1>1. /\ m \in Rec /\ m.health = r.health /\ m.shield = r.shield /\ m.taken = r.taken
      /\ m.mana <= r.mana /\ m.credit = r.credit + (r.mana - m.mana)
  BY DEF Drained
<1>2. /\ n \in Rec /\ Mortal(n) /\ n.shield = m.shield /\ n.taken = m.taken /\ n.mana <= m.mana
      /\ n.credit = m.credit + Lost(m.health, n.health) + (m.mana - n.mana)
  BY DEF Struck
<1>3. Lost(m.health, n.health) = Lost(r.health, n.health) /\ Lost(r.health, n.health) \in Int
  BY <1>1, <1>2, RecNumbers DEF Lost
<1>4. n.credit = r.credit + Lost(r.health, n.health) + (r.mana - n.mana) /\ n.mana <= r.mana
  BY <1>1, <1>2, <1>3, RecNumbers
<1> QED BY <1>1, <1>2, <1>4 DEF Struck

LEMMA ChangeHealthIs ==
  ASSUME NEW r \in Rec, Mortal(r), NEW h \in 0 .. DamageHealth, NEW n,
         n = Damage!ChangeHealth(r, h)
  PROVE  /\ n \in Rec /\ Mortal(n) /\ n.health = h /\ n.mana = r.mana /\ n.shield = r.shield
         /\ n.taken = r.taken /\ n.credit = r.credit
<1> DEFINE de == IF h = 0 THEN r.deaths + 1 ELSE r.deaths
<1>1. n = [[r EXCEPT !.health = h] EXCEPT !.deaths = de]
  BY DEF Damage!ChangeHealth, Rec
<1>2. de \in Nat /\ (h = 0 => de # 0)
  BY DEF Rec
<1> HIDE DEF de
<1>3. /\ n \in Rec /\ n.health = h /\ n.mana = r.mana /\ n.shield = r.shield
      /\ n.taken = r.taken /\ n.credit = r.credit /\ n.deaths = de
  BY <1>1, <1>2 DEF Rec
<1> QED BY <1>2, <1>3 DEF Mortal

LEMMA MortalPartIs ==
  ASSUME NEW r \in Rec, NEW d \in Dmg, NEW e, e = Damage!MortalPart(r, d)
  PROVE  /\ e \in Dmg /\ e.type = d.type /\ e.heal = d.heal /\ e.asked = d.asked
         /\ Sum(e) \in Nat /\ Sum(e) <= r.health /\ Sum(e) <= Sum(d)
<1> DEFINE fi == Damage!Min({d.first, r.health})
           se == Damage!Min({d.second, r.health - fi})
<1>1. e = [[d EXCEPT !.first = fi] EXCEPT !.second = se]
  BY DEF Damage!MortalPart, Dmg
<1>2. d.first \in Nat /\ d.second \in Nat /\ r.health \in Nat
  BY RecNumbers DEF Dmg
<1>3. fi \in Nat /\ fi <= r.health /\ fi <= d.first
  BY <1>2, DamageMin
<1> HIDE DEF fi
<1>4. se \in Nat /\ fi + se <= r.health /\ se <= d.second
  BY <1>2, <1>3, DamageMin
<1> HIDE DEF se
<1>5. /\ e \in Dmg /\ e.type = d.type /\ e.heal = d.heal /\ e.asked = d.asked
      /\ e.first = fi /\ e.second = se
  BY <1>1, <1>3, <1>4 DEF Dmg
<1> QED BY <1>2, <1>3, <1>4, <1>5 DEF Sum

(* What the shield leaves reaches the health, if no script keeps it alive. *)
LEMMA WoundIs ==
  ASSUME NEW r \in Rec, Mortal(r), NEW d \in Dmg, NEW events, NEW w, NEW c,
         c = Damage!Wound(r, d, events, w)
  PROVE  /\ Struck(c.r, r) /\ c.d \in Dmg /\ c.r.mana = r.mana
         /\ Sum(d) = 0 => c.r.health = r.health
         /\ c.ok => Sum(c.d) = Lost(r.health, c.r.health)
<1> DEFINE real == Damage!MortalPart(r, d)
           loss == real.first + real.second
           kept == loss = r.health /\ "prepare" \in events /\ ~ w.dies
           n == Damage!ChangeHealth(r, r.health - loss)
           q == Damage!Credit(n, loss)
<1>1. c = IF loss = 0 THEN [r |-> r, d |-> real, ok |-> TRUE]
          ELSE IF kept THEN [r |-> r, d |-> real, ok |-> FALSE]
          ELSE [r |-> q, d |-> real, ok |-> TRUE]
  BY DEF Damage!Wound, Damage!Done, Damage!DrainHealth
<1>2. real \in Dmg /\ loss \in Nat /\ loss <= r.health /\ loss <= Sum(d) /\ loss = Sum(real)
  BY MortalPartIs DEF Sum
<1>3. Sum(d) \in Nat
  BY DEF Sum, Dmg
<1> HIDE DEF real
<1>4. CASE loss = 0
  <2>1. c.r = r /\ c.d = real /\ c.ok
    BY <1>1, <1>4
  <2>2. Struck(r, r) /\ Lost(r.health, r.health) = 0
    BY BlockedNone, BlockedDrained, DrainedStruck, RecNumbers DEF Lost
  <2> QED BY <1>2, <1>4, <2>1, <2>2
<1>5. CASE loss # 0 /\ kept
  <2>1. c.r = r /\ c.d = real /\ ~ c.ok
    BY <1>1, <1>5
  <2>2. Struck(r, r)
    BY BlockedNone, BlockedDrained, DrainedStruck
  <2> QED BY <1>2, <2>1, <2>2
<1>6. CASE loss # 0 /\ ~ kept
  <2>1. c.r = q /\ c.d = real
    BY <1>1, <1>6
  <2>2. r.health - loss \in 0 .. DamageHealth /\ r.health # 0 /\ r.health \in Nat
    BY <1>2, <1>6, RecNumbers, DamageConstants DEF Rec
  <2> HIDE DEF loss
  <2>3. /\ n \in Rec /\ Mortal(n) /\ n.health = r.health - loss /\ n.mana = r.mana
        /\ n.shield = r.shield /\ n.taken = r.taken /\ n.credit = r.credit
    BY <2>2, ChangeHealthIs
  <2> DEFINE cr == n.credit + loss
  <2>4. q = [n EXCEPT !.credit = cr]
    BY DEF Damage!Credit
  <2>5. cr \in Nat /\ cr = r.credit + loss /\ r.mana - r.mana = 0
    BY <1>2, <2>3, RecNumbers
  <2> HIDE DEF n, cr, q
  <2>6. /\ q \in Rec /\ q.health = n.health /\ q.deaths = n.deaths /\ q.mana = r.mana
        /\ q.shield = r.shield /\ q.taken = r.taken /\ q.credit = cr
    BY <2>3, <2>4, <2>5 DEF Rec
  <2>7. Mortal(q) /\ Lost(r.health, q.health) = loss
    BY <1>2, <2>2, <2>3, <2>6 DEF Mortal, Lost
  <2>8. cr = r.credit + loss + (r.mana - q.mana) /\ q.mana <= r.mana
    BY <1>2, <2>5, <2>6, RecNumbers
  <2>9. Struck(q, r)
    BY <2>6, <2>7, <2>8 DEF Struck
  <2>10. Sum(d) # 0
    BY <1>2, <1>3, <1>6
  <2> QED BY <1>2, <2>1, <2>6, <2>7, <2>9, <2>10
<1> QED BY <1>4, <1>5, <1>6

LEMMA GainHealthIs ==
  ASSUME NEW r \in Rec, Mortal(r), NEW d \in Dmg, NEW c, c = Damage!GainHealth(r, d)
  PROVE  Struck(c.r, r) /\ c.d = d /\ c.r.mana = r.mana /\ c.r.health >= r.health
<1>1. CASE r.health = 0
  <2>1. c.r = r /\ c.d = d
    BY <1>1 DEF Damage!GainHealth, Damage!Done
  <2>2. Struck(r, r)
    BY BlockedNone, BlockedDrained, DrainedStruck
  <2> QED BY <2>1, <2>2, RecNumbers
<1>2. CASE r.health # 0
  <2> DEFINE h == Damage!Min({DamageHealth, r.health + d.first})
             n == Damage!ChangeHealth(r, h)
  <2>1. c.r = n /\ c.d = d
    BY <1>2 DEF Damage!GainHealth, Damage!Done
  <2>2. d.first \in Nat /\ r.health \in 0 .. DamageHealth
    BY DEF Dmg, Rec
  <2>3. h \in 0 .. DamageHealth /\ h >= r.health
    BY <2>2, DamageMin, DamageConstants
  <2> HIDE DEF h
  <2>4. /\ n \in Rec /\ Mortal(n) /\ n.health = h /\ n.mana = r.mana /\ n.shield = r.shield
        /\ n.taken = r.taken /\ n.credit = r.credit
    BY <1>2, <2>3, ChangeHealthIs
  <2> HIDE DEF n
  <2>5. n.credit = r.credit + Lost(r.health, n.health) + (r.mana - n.mana) /\ n.mana <= r.mana
    BY <2>2, <2>3, <2>4, RecNumbers, DamageConstants DEF Lost
  <2>6. Struck(n, r)
    BY <2>4, <2>5 DEF Struck
  <2> QED BY <2>1, <2>3, <2>4, <2>6
<1> QED BY <1>1, <1>2

LEMMA HealthAnswerIs ==
  ASSUME NEW d \in Dmg, NEW w, Answers(w), NEW h, h = Damage!HealthAnswer(d, w)
  PROVE  h \in Dmg /\ (d.type = "element" => h.type # "undefined") /\ (h.heal => h.type = "healing")
<1> DEFINE heals == w.heals /\ w.health[1] > 0
           type == IF w.heals THEN "healing" ELSE IF d.type = "healing" THEN "element" ELSE d.type
<1>1. h = [[[[[d EXCEPT !.first = w.health[1]] EXCEPT !.second = w.health[2]] EXCEPT !.asked = TRUE]
            EXCEPT !.heal = heals] EXCEPT !.type = type]
  BY DEF Damage!HealthAnswer, Dmg
<1>2. w.health[1] \in Nat /\ w.health[2] \in Nat /\ heals \in BOOLEAN
  BY DEF Answers
<1>3. type \in Damage!Types /\ (d.type = "element" => type # "undefined") /\ (heals => type = "healing")
  BY DEF Damage!Types, Dmg
<1> HIDE DEF heals, type
<1> DEFINE h1 == [d EXCEPT !.first = w.health[1]]
           h2 == [h1 EXCEPT !.second = w.health[2]]
           h3 == [h2 EXCEPT !.asked = TRUE]
<1>4. h2 \in Dmg
  BY <1>2 DEF Dmg
<1> HIDE DEF h2
<1>5. h3 \in Dmg
  BY <1>4 DEF Dmg
<1>6. h = [[h3 EXCEPT !.heal = heals] EXCEPT !.type = type]
  BY <1>1 DEF h2
<1> HIDE DEF h3
<1>7. h \in Dmg /\ h.type = type /\ h.heal = heals
  BY <1>2, <1>3, <1>5, <1>6 DEF Dmg
<1> QED BY <1>3, <1>7

(* combatChangeHealth: what is lost is credited; one with a mana shield loses *)
(* health to an element only when no mana is left.                           *)
LEMMA CombatChangeHealthIs ==
  ASSUME NEW v \in {"player", "monster"}, NEW r \in Rec, Mortal(r), NEW d \in Dmg, NEW events,
         NEW w, Answers(w), NEW c, c = Damage!CombatChangeHealth(v, r, d, events, w)
  PROVE  /\ Struck(c.r, r) /\ c.d \in Dmg
         /\ v = "player" /\ r.shield /\ d.type = "element" /\ c.r.health < r.health => c.r.mana = 0
         /\ ~ d.heal /\ c.ok /\ c.d.type # "healing" => Sum(c.d) = Lost(r.health, c.r.health)
<1>1. Struck(r, r) /\ r.health \in Nat /\ r.mana \in Nat
  BY BlockedNone, BlockedDrained, DrainedStruck, RecNumbers
<1> DEFINE m == IF d.heal THEN [r |-> r, d |-> d] ELSE Damage!ManaShield(v, r, d, events, w)
           h == Damage!HealthAnswer(m.d, w)
           n == Damage!ManaShield(v, m.r, h, events, w)
<1>2. c = IF d.heal /\ r.health = 0 THEN Damage!Done(r, d, FALSE)
          ELSE IF m.d.first + m.d.second = 0 THEN Damage!Done(m.r, m.d, TRUE)
          ELSE IF d.asked \/ "health" \notin events
               THEN IF d.heal THEN Damage!GainHealth(r, d) ELSE Damage!Wound(m.r, m.d, events, w)
          ELSE IF h.heal THEN Damage!GainHealth(m.r, h) ELSE Damage!Wound(n.r, n.d, events, w)
  BY DEF Damage!CombatChangeHealth
<1>3. /\ Drained(m.r, r) /\ m.d \in Dmg
      /\ m.d.type = d.type
      /\ v = "player" /\ r.shield /\ d.type = "element" => m.r.mana = 0 \/ Sum(m.d) = 0 \/ d.heal
  <2>1. CASE d.heal
    <3>1. m.r = r /\ m.d = d
      BY <2>1
    <3> QED BY <2>1, <3>1, BlockedNone, BlockedDrained
  <2>2. CASE ~ d.heal
    <3>1. m = Damage!ManaShield(v, r, d, events, w)
      BY <2>2
    <3> HIDE DEF m
    <3> QED BY <3>1, ManaShieldIs
  <2> QED BY <2>1, <2>2
<1>4. d.heal => m.d = d
  OBVIOUS
<1> HIDE DEF m
<1>5. m.r \in Rec /\ Mortal(m.r) /\ Struck(m.r, r) /\ m.r.health = r.health /\ m.r.shield = r.shield
  BY <1>3, DrainedStruck DEF Drained, Struck
<1>6. h \in Dmg /\ (d.type = "element" => h.type # "undefined") /\ (h.heal => h.type = "healing")
  BY <1>3, HealthAnswerIs
<1> HIDE DEF h
<1>7. /\ Drained(n.r, m.r) /\ n.d \in Dmg
      /\ v = "player" /\ r.shield /\ d.type = "element" => n.r.mana = 0 \/ Sum(n.d) = 0
  BY <1>5, <1>6, ManaShieldIs
<1> HIDE DEF n
<1>8. /\ n.r \in Rec /\ Mortal(n.r) /\ n.r.health = r.health
  BY <1>5, <1>7, DrainedStruck DEF Drained, Struck
<1>9. Lost(r.health, r.health) = 0 /\ Sum(m.d) = m.d.first + m.d.second
  BY <1>1 DEF Lost, Sum
<1>10. CASE d.heal /\ r.health = 0
  <2>1. c.r = r /\ c.d = d
    BY <1>2, <1>10 DEF Damage!Done
  <2> QED BY <1>1, <1>10, <2>1
<1>11. CASE ~ (d.heal /\ r.health = 0) /\ m.d.first + m.d.second = 0
  <2>1. c.r = m.r /\ c.d = m.d
    BY <1>2, <1>11 DEF Damage!Done
  <2> QED BY <1>1, <1>3, <1>5, <1>9, <1>11, <2>1
<1>12. CASE ~ (d.heal /\ r.health = 0) /\ m.d.first + m.d.second # 0 /\ (d.asked \/ "health" \notin events)
            /\ d.heal
  <2>1. c = Damage!GainHealth(r, d)
    BY <1>2, <1>12
  <2>2. Struck(c.r, r) /\ c.d = d /\ c.r.health >= r.health
    BY <2>1, GainHealthIs
  <2>3. ~ (c.r.health < r.health)
    BY <1>1, <2>2, RecNumbers DEF Struck
  <2> QED BY <1>12, <2>2, <2>3
<1>13. CASE ~ (d.heal /\ r.health = 0) /\ m.d.first + m.d.second # 0 /\ (d.asked \/ "health" \notin events)
            /\ ~ d.heal
  <2>1. c = Damage!Wound(m.r, m.d, events, w)
    BY <1>2, <1>13
  <2>2. /\ Struck(c.r, m.r) /\ c.d \in Dmg /\ c.r.mana = m.r.mana
        /\ c.ok => Sum(c.d) = Lost(m.r.health, c.r.health)
    BY <1>3, <1>5, <2>1, WoundIs
  <2>3. Struck(c.r, r)
    BY <1>3, <2>2, DrainedThenStruck
  <2> QED BY <1>3, <1>5, <1>9, <1>13, <2>2, <2>3
<1>14. CASE ~ (d.heal /\ r.health = 0) /\ m.d.first + m.d.second # 0 /\ ~ d.asked /\ "health" \in events
            /\ h.heal
  <2>1. c = Damage!GainHealth(m.r, h)
    BY <1>2, <1>14
  <2>2. Struck(c.r, m.r) /\ c.d = h /\ c.r.health >= m.r.health
    BY <1>5, <1>6, <2>1, GainHealthIs
  <2>3. Struck(c.r, r) /\ ~ (c.r.health < r.health)
    BY <1>1, <1>3, <1>5, <1>14, <2>2, DrainedThenStruck, RecNumbers DEF Struck
  <2> QED BY <1>6, <1>14, <2>2, <2>3
<1>15. CASE ~ (d.heal /\ r.health = 0) /\ m.d.first + m.d.second # 0 /\ ~ d.asked /\ "health" \in events
            /\ ~ h.heal
  <2>1. c = Damage!Wound(n.r, n.d, events, w)
    BY <1>2, <1>15
  <2>2. /\ Struck(c.r, n.r) /\ c.d \in Dmg /\ c.r.mana = n.r.mana
        /\ Sum(n.d) = 0 => c.r.health = n.r.health
        /\ c.ok => Sum(c.d) = Lost(n.r.health, c.r.health)
    BY <1>7, <1>8, <2>1, WoundIs
  <2>3. Drained(n.r, r)
    BY <1>3, <1>7, DrainedTwice
  <2>4. Struck(c.r, r)
    BY <2>2, <2>3, DrainedThenStruck
  <2>5. Sum(n.d) = 0 => ~ (c.r.health < r.health)
    BY <1>1, <1>8, <2>2
  <2> QED BY <1>7, <1>8, <2>2, <2>4, <2>5
<1> QED BY <1>10, <1>11, <1>12, <1>13, <1>14, <1>15

(* combatChangeMana: what is drained is credited. *)
LEMMA ManaLossIs ==
  ASSUME NEW r \in Rec, NEW d \in Dmg, NEW roll \in [shield : Int, armor : Int], NEW b,
         b = Damage!ManaLoss(r, d, roll)
  PROVE  Blocked(b.r, r) /\ b.left \in Nat /\ b.left <= b.r.mana
<1> DEFINE amount == Damage!Min({r.mana, d.first + d.second})
<1>1. amount \in Nat /\ amount <= r.mana
  <2>1. r.mana \in Nat /\ d.first + d.second \in Nat
    BY RecNumbers DEF Dmg
  <2> QED BY <2>1, DamageMin
<1>2. b = Damage!BlockHit("player", r, amount, "manadrain", FALSE, FALSE, roll)
  BY DEF Damage!ManaLoss, Damage!Player
<1> HIDE DEF amount
<1>3. Blocked(b.r, r) /\ b.left \in Nat /\ b.left <= amount
  <2>1. PICK v \in {"player", "monster"}, cd \in BOOLEAN : v = "player" /\ cd = FALSE
    OBVIOUS
  <2>2. b = Damage!BlockHit(v, r, amount, "manadrain", cd, cd, roll)
    BY <1>2, <2>1
  <2>3. ~ cd
    BY <2>1
  <2> QED BY <1>1, <2>1, <2>2, <2>3, BlockHitIs
<1>4. b.r.mana = r.mana /\ r.mana \in Nat
  BY <1>3, RecNumbers DEF Blocked
<1> QED BY <1>1, <1>3, <1>4

LEMMA CombatChangeManaIs ==
  ASSUME NEW v \in {"player", "monster"}, NEW r \in Rec, NEW d \in Dmg, NEW events,
         NEW w, Answers(w), NEW roll \in [shield : Int, armor : Int], NEW c,
         c = Damage!CombatChangeMana(v, r, d, events, w, roll)
  PROVE  Drained(c.r, r) /\ c.d \in Dmg
<1> DEFINE b == Damage!ManaLoss(r, d, roll)
           told == Damage!ManaAnswer(d, w)
           again == Damage!ManaLoss(b.r, told, roll)
           one == Damage!DrainMana(b.r, b.left)
           two == Damage!DrainMana(again.r, again.left)
<1>1. c = IF v # "player" THEN [r |-> r, d |-> d, ok |-> TRUE]
          ELSE IF b.by # "none" THEN [r |-> b.r, d |-> d, ok |-> FALSE]
          ELSE IF "mana" \notin events THEN [r |-> one, d |-> d, ok |-> TRUE]
          ELSE IF again.by # "none" THEN [r |-> again.r, d |-> told, ok |-> FALSE]
          ELSE [r |-> two, d |-> told, ok |-> TRUE]
  BY DEF Damage!CombatChangeMana, Damage!Done, Damage!Player
<1>2. told \in Dmg
  <2>1. told = [[d EXCEPT !.first = w.mana[1]] EXCEPT !.second = w.mana[2]]
    BY DEF Damage!ManaAnswer
  <2>2. w.mana[1] \in Nat /\ w.mana[2] \in Nat
    BY DEF Answers
  <2> HIDE DEF told
  <2> QED BY <2>1, <2>2 DEF Dmg
<1>3. Blocked(b.r, r) /\ b.left \in Nat /\ b.left <= b.r.mana
  BY ManaLossIs
<1> HIDE DEF told, b
<1>4. b.r \in Rec
  BY <1>3 DEF Blocked
<1>5. Blocked(again.r, b.r) /\ again.left \in Nat /\ again.left <= again.r.mana
  BY <1>2, <1>4, ManaLossIs
<1> HIDE DEF again
<1>6. again.r \in Rec
  BY <1>5 DEF Blocked
<1>7. Drained(r, r) /\ Drained(b.r, r) /\ Drained(again.r, r)
  BY <1>3, <1>4, <1>5, BlockedNone, BlockedTwice, BlockedDrained
<1>8. Drained(one, r)
  BY <1>3, <1>4, <1>7, DrainManaIs, DrainedTwice
<1>9. Drained(two, r)
  BY <1>5, <1>6, <1>7, DrainManaIs, DrainedTwice
<1> HIDE DEF one, two
<1>10. /\ c.d = d \/ c.d = told
       /\ c.r \in {r, b.r, again.r, one, two}
  BY <1>1
<1> QED BY <1>2, <1>7, <1>8, <1>9, <1>10

LEMMA HitIs ==
  ASSUME NEW hit \in Nat \X Nat, NEW type \in Damage!Types
  PROVE  /\ Damage!Hit(hit, type) \in Dmg /\ Damage!Hit(hit, type).type = type
         /\ Damage!Hit(hit, type).heal = (type = "healing")
<1>1. hit[1] \in Nat /\ hit[2] \in Nat /\ (type = "healing") \in BOOLEAN
  OBVIOUS
<1> QED BY <1>1 DEF Damage!Hit, Dmg

(* e is d with other halves. *)
Like(e, d) == e \in Dmg /\ e.type = d.type /\ e.heal = d.heal /\ e.asked = d.asked

LEMMA HalvedIs ==
  ASSUME NEW v, NEW d \in Dmg
  PROVE  Like(Damage!Halved(v, d), d) /\ Like(Damage!CriticalPart(d), d) /\ Like(d, d)
<1>1. d.first \in Nat /\ d.second \in Nat /\ Like(d, d)
  BY DEF Dmg, Like
<1> DEFINE a == d.first \div 2
           b == d.second \div 2
           e == [[d EXCEPT !.first = a] EXCEPT !.second = b]
           f == Damage!Percent(d.first, 50)
           g == Damage!Percent(d.second, 50)
           h == [[d EXCEPT !.first = f] EXCEPT !.second = g]
<1>2. Damage!Halved(v, d) = IF v # "player" \/ d.heal THEN d ELSE e
  BY DEF Damage!Halved, Damage!Player, Dmg
<1>3. Damage!CriticalPart(d) = h
  BY DEF Damage!CriticalPart, Damage!CriticalPercent, Dmg
<1>4. a \in Nat /\ b \in Nat /\ f \in Nat /\ g \in Nat
  BY <1>1, PercentNat
<1> HIDE DEF a, b, f, g
<1>5. Like(e, d) /\ Like(h, d)
  BY <1>4 DEF Dmg, Like
<1> QED BY <1>1, <1>2, <1>3, <1>5

LEMMA WithCriticalIs ==
  ASSUME NEW d \in Dmg, NEW e \in Dmg, NEW critical
  PROVE  Like(Damage!WithCritical(d, e, critical), d)
<1> DEFINE a == d.first + e.first
           b == d.second + e.second
           f == [[d EXCEPT !.first = a] EXCEPT !.second = b]
<1>1. a \in Nat /\ b \in Nat
  BY DEF Dmg
<1>2. Damage!WithCritical(d, e, critical) = IF critical /\ ~ d.heal THEN f ELSE d
  BY DEF Damage!WithCritical, Damage!Plus, Dmg
<1> HIDE DEF a, b
<1>3. Like(f, d) /\ Like(d, d)
  BY <1>1 DEF Dmg, Like
<1> QED BY <1>2, <1>3

(* Whatever the order, what has been lost is what has been credited. *)
LEMMA CountIs ==
  ASSUME NEW r \in Rec, r.credit = r.taken, NEW n, Struck(n, r), NEW q, q = Damage!Count(r, n)
  PROVE  /\ q \in Rec /\ Mortal(q) /\ q.credit = q.taken
         /\ q.health = n.health /\ q.mana = n.mana /\ q.shield = r.shield
<1> DEFINE a == Damage!Max({0, r.health - n.health})
           b == Damage!Max({0, r.mana - n.mana})
           ta == n.taken + a + b
<1>1. n \in Rec /\ n.taken = r.taken
  BY DEF Struck
<1>2. q = [n EXCEPT !.taken = ta]
  BY <1>1 DEF Damage!Count, Rec
<1>3. a = Lost(r.health, n.health) /\ a \in Nat
  BY <1>1, DamageMax, RecNumbers DEF Lost
<1>4. b = r.mana - n.mana /\ b \in Nat
  BY <1>1, DamageMax, RecNumbers DEF Struck
<1> HIDE DEF a, b
<1>5. ta \in Nat /\ n.credit = ta
  BY <1>1, <1>3, <1>4, RecNumbers DEF Struck
<1> HIDE DEF ta
<1>6. /\ q \in Rec /\ q.credit = n.credit /\ q.taken = ta /\ q.deaths = n.deaths
      /\ q.health = n.health /\ q.mana = n.mana /\ q.shield = n.shield
  BY <1>1, <1>2, <1>5 DEF Rec
<1> QED BY <1>5, <1>6 DEF Struck, Mortal

(* A state in the middle of a hit: nothing is owed. *)
Fair(r) == r \in Rec /\ Mortal(r) /\ r.credit = r.taken
DamageState(t) ==
  /\ t = [victims |-> t.victims, of |-> t.of, health |-> t.health, events |-> t.events,
          last |-> t.last]
  /\ t.victims \in DamageAbout /\ t.of = [v \in t.victims |-> t.of[v]]
  /\ \A v \in t.victims : Fair(t.of[v])
  /\ "monster" \in t.victims => ~ t.of["monster"].shield
  /\ t.health \in 1 .. DamageCaster
  /\ t.events \in SUBSET {"health", "mana", "prepare"}
  /\ t.last \in {"element", "undefined", "other"}

(* t is u after the hit on v that became c. *)
CountedOn(t, u, v, c) ==
  /\ DamageState(t) /\ t.victims = u.victims /\ t.events = u.events
  /\ t.last = IF c.d.type = "healing" THEN "other" ELSE u.last
  /\ \A x \in u.victims : x # v => t.of[x] = u.of[x]
  /\ t.of[v].health = c.r.health /\ t.of[v].mana = c.r.mana /\ t.of[v].shield = u.of[v].shield

LEMMA CountsIs ==
  ASSUME NEW u, DamageState(u), NEW v \in u.victims, NEW c, Struck(c.r, u.of[v]), NEW t,
         t = Damage!Counts(u, v, c)
  PROVE  CountedOn(t, u, v, c) /\ t.health = u.health
<1> DEFINE q == Damage!Count(u.of[v], c.r)
           of == [u.of EXCEPT ![v] = q]
           mark == IF c.d.type = "healing" THEN "other" ELSE u.last
<1>1. t = [[u EXCEPT !.of = of] EXCEPT !.last = mark]
  BY DEF Damage!Counts, DamageState
<1>2. u.of[v] \in Rec /\ Mortal(u.of[v]) /\ u.of[v].credit = u.of[v].taken
  BY DEF DamageState, Fair
<1>3. Fair(q) /\ q.health = c.r.health /\ q.mana = c.r.mana /\ q.shield = u.of[v].shield
  BY <1>2, CountIs DEF Fair
<1>4. mark \in {"element", "undefined", "other"}
  BY DEF DamageState
<1> HIDE DEF q, mark
<1>5. /\ of = [x \in u.victims |-> of[x]] /\ of[v] = q
      /\ \A x \in u.victims : x # v => of[x] = u.of[x]
  BY DEF DamageState
<1> HIDE DEF of
<1>6. t = [victims |-> u.victims, of |-> of, health |-> u.health, events |-> u.events,
           last |-> mark]
  BY <1>1 DEF DamageState
<1>7. /\ t.victims = u.victims /\ t.of = of /\ t.health = u.health /\ t.events = u.events
      /\ t.last = mark
  BY <1>6
<1>8. \A x \in t.victims : Fair(t.of[x])
  BY <1>3, <1>5, <1>7 DEF DamageState
<1>9. "monster" \in t.victims => ~ t.of["monster"].shield
  BY <1>3, <1>5, <1>7 DEF DamageState
<1>10. t = [victims |-> t.victims, of |-> t.of, health |-> t.health, events |-> t.events,
            last |-> t.last] /\ t.of = [x \in t.victims |-> t.of[x]]
  BY ONLY <1>5, <1>6, <1>7
<1>11. DamageState(t)
  BY <1>4, <1>7, <1>8, <1>9, <1>10 DEF DamageState
<1> QED BY <1>3, <1>5, <1>7, <1>11 DEF CountedOn, mark

(* The caster leeches of a hit that was not refused. *)
LEMMA SettledIs ==
  ASSUME NEW u, DamageState(u), NEW v \in u.victims, NEW c, Struck(c.r, u.of[v]),
         c.d \in Dmg, NEW leech, NEW n \in {1, 2}, NEW t,
         t = Damage!Settled(u, v, c, leech, n)
  PROVE  /\ CountedOn(t, u, v, c)
         /\ t.health <= u.health + Sum(c.d) /\ (~ c.ok \/ ~ leech => t.health = u.health)
<1> DEFINE q == Damage!Counts(u, v, c)
           share == Damage!LeechShare(c.d.first + c.d.second, n)
           he == Damage!Min({DamageCaster, q.health + share})
<1>1. CountedOn(q, u, v, c) /\ q.health = u.health
  BY CountsIs
<1>2. t = IF c.ok /\ leech THEN Damage!Leech(q, c.d.first + c.d.second, n) ELSE q
  BY DEF Damage!Settled
<1> HIDE DEF q
<1>3. Sum(c.d) \in Nat /\ Sum(c.d) = c.d.first + c.d.second
  BY DEF Sum, Dmg
<1>4. share \in Nat /\ share <= Sum(c.d)
  BY <1>3, LeechNoMore
<1> HIDE DEF share
<1>5. u.health \in 1 .. DamageCaster
  BY DEF DamageState
<1>6. he \in 1 .. DamageCaster /\ he <= u.health + Sum(c.d)
  BY <1>1, <1>3, <1>4, <1>5, DamageMin, DamageConstants
<1>7. CASE c.ok /\ leech
  <2>1. t = [q EXCEPT !.health = he]
    BY <1>2, <1>7 DEF Damage!Leech, share
  <2> HIDE DEF he
  <2>2. DamageState(q)
    BY <1>1 DEF CountedOn
  <2>3. t = [victims |-> q.victims, of |-> q.of, health |-> he, events |-> q.events,
             last |-> q.last]
    BY <2>1, <2>2 DEF DamageState
  <2>4. /\ t.victims = q.victims /\ t.of = q.of /\ t.health = he /\ t.events = q.events
        /\ t.last = q.last
    BY <2>3
  <2>5. t = [victims |-> t.victims, of |-> t.of, health |-> t.health, events |-> t.events,
             last |-> t.last]
    BY ONLY <2>3, <2>4
  <2>6. DamageState(t)
    BY <1>6, <2>2, <2>4, <2>5 DEF DamageState
  <2> QED BY <1>1, <1>6, <1>7, <2>4, <2>6 DEF CountedOn
<1>8. CASE ~ (c.ok /\ leech)
  <2>1. t = q
    BY <1>2, <1>8
  <2>2. u.health <= u.health + Sum(c.d)
    BY <1>3, <1>5, DamageConstants
  <2> QED BY <1>1, <2>1, <2>2
<1> QED BY <1>7, <1>8

(* One victim is hit: what HitStep says of it. *)
HitOn(t, u, v, type) ==
  /\ DamageState(t) /\ t.victims = u.victims /\ t.events = u.events
  /\ t.last \in {u.last, "other"}
  /\ \A x \in u.victims : x # v => t.of[x] = u.of[x]
  /\ t.of[v].shield = u.of[v].shield
  /\ v = "player" /\ u.of[v].shield /\ type = "element" /\ t.of[v].health < u.of[v].health
       => t.of[v].mana = 0
  /\ type \in {"element", "undefined"} /\ t.last # "other" =>
       t.health <= u.health + Lost(u.of[v].health, t.of[v].health)

(* A hit that is blocked, or goes on; what comes of it. *)
GoesOn(c, v, q, b, d, events, w) ==
  \/ c.r = q /\ c.d = b /\ ~ c.ok
  \/ c = Damage!CombatChangeHealth(v, q, d, events, w)
Outcome(c, v, r, d) ==
  /\ Struck(c.r, r) /\ c.d \in Dmg
  /\ v = "player" /\ r.shield /\ d.type = "element" /\ c.r.health < r.health => c.r.mana = 0
  /\ ~ d.heal /\ c.ok /\ c.d.type # "healing" => Sum(c.d) = Lost(r.health, c.r.health)

LEMMA ChangedIs ==
  ASSUME NEW v \in {"player", "monster"}, NEW r \in Rec, Mortal(r), NEW q, Blocked(q, r),
         NEW b \in Dmg, NEW events, NEW w, Answers(w), NEW d \in Dmg, NEW c,
         GoesOn(c, v, q, b, d, events, w)
  PROVE  Outcome(c, v, r, d)
<1>1. /\ q \in Rec /\ Mortal(q) /\ q.health = r.health /\ q.shield = r.shield
      /\ Drained(q, r) /\ Struck(q, r)
  BY BlockedDrained, DrainedStruck DEF Blocked, Mortal
<1>2. CASE c.r = q /\ c.d = b /\ ~ c.ok
  <2>1. c.r = q /\ c.d = b /\ ~ c.ok
    BY <1>2
  <2>2. r.health \in Nat /\ c.r.health = r.health
    BY <1>1, <2>1, RecNumbers
  <2>3. ~ (c.r.health < r.health)
    BY <2>2
  <2> QED BY <1>1, <2>1, <2>3 DEF Outcome
<1>3. CASE c = Damage!CombatChangeHealth(v, q, d, events, w)
  <2>1. /\ Struck(c.r, q) /\ c.d \in Dmg
        /\ v = "player" /\ q.shield /\ d.type = "element" /\ c.r.health < q.health
             => c.r.mana = 0
        /\ ~ d.heal /\ c.ok /\ c.d.type # "healing" => Sum(c.d) = Lost(q.health, c.r.health)
    BY <1>1, <1>3, CombatChangeHealthIs
  <2>2. Struck(c.r, r)
    BY <1>1, <2>1, DrainedThenStruck
  <2> QED BY <1>1, <2>1, <2>2 DEF Outcome
<1> QED BY <1>2, <1>3 DEF GoesOn

(* What the whole of a hit on one makes of it. *)
LEMMA HitsIs ==
  ASSUME NEW u, DamageState(u), NEW v \in u.victims, NEW d, NEW c, Struck(c.r, u.of[v]),
         c.d \in Dmg, NEW leech, NEW n \in {1, 2}, NEW t,
         t = Damage!Settled(u, v, c, leech, n),
         v = "player" /\ u.of[v].shield /\ d.type = "element" /\ c.r.health < u.of[v].health
           => c.r.mana = 0,
         d.type \in {"element", "undefined"} /\ c.ok /\ c.d.type # "healing"
           => Sum(c.d) = Lost(u.of[v].health, c.r.health)
  PROVE  HitOn(t, u, v, d.type)
<1>1. /\ CountedOn(t, u, v, c)
      /\ t.health <= u.health + Sum(c.d) /\ (~ c.ok \/ ~ leech => t.health = u.health)
  BY SettledIs
<1>2. t.of[v].health = c.r.health /\ t.of[v].mana = c.r.mana
  BY <1>1 DEF CountedOn
<1>3. d.type \in {"element", "undefined"} /\ t.last # "other" =>
        t.health <= u.health + Lost(u.of[v].health, t.of[v].health)
  <2>1. CASE c.ok /\ leech
    BY <1>1, <1>2, <2>1 DEF CountedOn
  <2>2. CASE ~ (c.ok /\ leech)
    <3>1. u.of[v].health \in Nat /\ c.r.health \in Nat
      BY RecNumbers DEF DamageState, Fair, Struck
    <3>2. Lost(u.of[v].health, t.of[v].health) \in Nat
      BY <1>2, <3>1 DEF Lost
    <3>3. t.health = u.health /\ u.health \in Int
      BY <1>1, <2>2, DamageConstants DEF DamageState
    <3> QED BY <3>2, <3>3
  <2> QED BY <2>1, <2>2
<1>4. t.last \in {u.last, "other"}
  BY <1>1 DEF CountedOn
<1> QED BY <1>1, <1>2, <1>3, <1>4 DEF CountedOn, HitOn

LEMMA TargetIs ==
  ASSUME NEW u, DamageState(u), NEW v \in u.victims, NEW hit \in Nat \X Nat,
         NEW type \in Damage!Types, NEW roll \in [shield : Int, armor : Int], NEW critical,
         NEW leech, NEW w, Answers(w), NEW t,
         t = Damage!DoTargetCombat(u, v, Damage!Hit(hit, type), roll, critical, leech, w)
  PROVE  HitOn(t, u, v, type)
<1> DEFINE d == Damage!Hit(hit, type)
<1>1. d \in Dmg /\ d.type = type /\ d.heal = (type = "healing")
  BY HitIs
<1>2. t = Damage!DoTargetCombat(u, v, d, roll, critical, leech, w)
  OBVIOUS
<1>3. /\ v \in {"player", "monster"} /\ v \in u.victims /\ u.of[v] \in Rec /\ Mortal(u.of[v])
      /\ 1 \in {1, 2}
  BY DamageConstants DEF DamageState, Fair
<1> HIDE DEF d
<1>4. CASE type = "manadrain"
  <2> DEFINE c == Damage!CombatChangeMana(v, u.of[v], d, u.events, w, roll)
             le == leech /\ c.d.type # "healing"
  <2>1. t = Damage!Settled(u, v, c, le, 1)
    BY <1>1, <1>2, <1>4 DEF Damage!DoTargetCombat, Damage!TargetSettled
  <2>2. Drained(c.r, u.of[v]) /\ c.d \in Dmg
    BY <1>1, <1>3, CombatChangeManaIs
  <2> HIDE DEF c, le
  <2>3. Struck(c.r, u.of[v])
    BY <1>3, <2>2, DrainedStruck
  <2>4. HitOn(t, u, v, d.type)
    BY <1>1, <1>3, <1>4, <2>1, <2>2, <2>3, HitsIs
  <2> QED BY <1>1, <2>4
<1>5. CASE type # "manadrain"
  <2> DEFINE b == Damage!CombatBlockHit(v, u.of[v], d, roll)
             half == Damage!Halved(v, b.d)
             e == Damage!WithCritical(half, Damage!CriticalPart(half), critical)
             c == Damage!TargetChange(u, v, b, critical, w)
             le == leech /\ c.d.type # "healing"
  <2>1. t = Damage!Settled(u, v, c, le, 1)
    BY <1>1, <1>2, <1>5 DEF Damage!DoTargetCombat, Damage!TargetSettled
  <2>2. GoesOn(c, v, b.r, b.d, e, u.events, w)
    BY DEF GoesOn, Damage!TargetChange, Damage!Done
  <2> HIDE DEF c, le
  <2>4. Blocked(b.r, u.of[v]) /\ b.d \in Dmg /\ b.d.type = d.type /\ b.d.heal = d.heal
    BY <1>1, <1>3, CombatBlockHitIs
  <2> HIDE DEF b
  <2>5. Like(half, b.d)
    BY <2>4, HalvedIs
  <2> HIDE DEF half
  <2>6. Damage!CriticalPart(half) \in Dmg
    BY <2>5, HalvedIs DEF Like
  <2>7. Like(e, half)
    BY <2>5, <2>6, WithCriticalIs DEF Like
  <2> HIDE DEF e
  <2>8. Like(e, b.d) /\ e.type = d.type /\ e.heal = d.heal
    BY <2>4, <2>5, <2>7 DEF Like
  <2>9. Outcome(c, v, u.of[v], e)
    BY <1>3, <2>2, <2>4, <2>8, ChangedIs DEF Like
  <2>10. d.type \in {"element", "undefined"} => ~ e.heal
    BY <1>1, <2>8
  <2>11. HitOn(t, u, v, d.type)
    BY <1>3, <2>1, <2>8, <2>9, <2>10, HitsIs DEF Outcome
  <2> QED BY <1>1, <2>11
<1> QED BY <1>4, <1>5

LEMMA AreaIs ==
  ASSUME NEW u, DamageState(u), NEW v \in u.victims, NEW hit \in Nat \X Nat,
         NEW type \in Damage!Types, NEW roll, roll[v] \in [shield : Int, armor : Int],
         NEW critical, NEW leech, NEW w, Answers(w), NEW t,
         t = Damage!AreaOne(u, v, Damage!Hit(hit, type), roll, critical, leech, w)
  PROVE  HitOn(t, u, v, type)
<1> DEFINE d == Damage!Hit(hit, type)
           half == Damage!Halved(v, Damage!CriticalPart(d))
           h == Damage!WithCritical(Damage!Halved(v, d), half, critical)
           one == roll[v]
           n == Damage!Targets(u)
<1>1. d \in Dmg /\ d.type = type /\ d.heal = (type = "healing")
  BY HitIs
<1>2. t = Damage!AreaHit(u, v, d, h, one, leech, w) /\ one \in [shield : Int, armor : Int]
  BY DEF Damage!AreaOne
<1>3. /\ v \in {"player", "monster"} /\ v \in u.victims /\ u.of[v] \in Rec /\ Mortal(u.of[v])
      /\ n \in {1, 2}
  BY DamageConstants DEF DamageState, Fair, Damage!Targets
<1> HIDE DEF d, one, n
<1>4. h \in Dmg /\ h.type = d.type /\ h.heal = d.heal
  <2>1. Damage!CriticalPart(d) \in Dmg /\ Like(Damage!Halved(v, d), d)
    BY <1>1, HalvedIs DEF Like
  <2>2. half \in Dmg /\ Damage!Halved(v, d) \in Dmg
    BY <2>1, HalvedIs DEF Like
  <2>3. Like(h, Damage!Halved(v, d))
    BY <2>2, WithCriticalIs
  <2> QED BY <2>1, <2>3 DEF Like
<1> HIDE DEF half, h
<1>5. CASE type = "manadrain"
  <2> DEFINE c == Damage!CombatChangeMana(v, u.of[v], h, u.events, w, one)
  <2>1. t = Damage!Settled(u, v, c, leech, n)
    BY <1>1, <1>2, <1>5 DEF Damage!AreaHit, n
  <2>2. Drained(c.r, u.of[v]) /\ c.d \in Dmg
    BY <1>2, <1>3, <1>4, CombatChangeManaIs
  <2> HIDE DEF c
  <2>3. Struck(c.r, u.of[v])
    BY <1>3, <2>2, DrainedStruck
  <2>4. HitOn(t, u, v, d.type)
    BY <1>1, <1>3, <1>5, <2>1, <2>2, <2>3, HitsIs
  <2> QED BY <1>1, <2>4
<1>6. CASE type # "manadrain"
  <2> DEFINE b == Damage!CombatBlockHit(v, u.of[v], h, one)
             c == Damage!AreaChange(u, v, h, b, w)
             le == leech /\ ~ d.heal
  <2>1. t = Damage!Settled(u, v, c, le, n)
    BY <1>1, <1>2, <1>6 DEF Damage!AreaHit, n
  <2>2. GoesOn(c, v, b.r, b.d, b.d, u.events, w)
    BY DEF GoesOn, Damage!AreaChange, Damage!Done
  <2> HIDE DEF c, le
  <2>4. Blocked(b.r, u.of[v]) /\ b.d \in Dmg /\ b.d.type = h.type /\ b.d.heal = h.heal
    BY <1>2, <1>3, <1>4, CombatBlockHitIs
  <2> HIDE DEF b
  <2> DEFINE e == b.d
  <2>5. e \in Dmg /\ GoesOn(c, v, b.r, e, e, u.events, w)
    BY <2>2, <2>4
  <2>6. e.type = d.type /\ e.heal = d.heal
    BY <1>4, <2>4
  <2> HIDE DEF e
  <2>7. Outcome(c, v, u.of[v], e)
    BY <1>3, <2>4, <2>5, ChangedIs
  <2>8. d.type \in {"element", "undefined"} => ~ e.heal
    BY <1>1, <2>6
  <2>9. HitOn(t, u, v, d.type)
    BY <1>3, <2>1, <2>6, <2>7, <2>8, HitsIs DEF Outcome
  <2> QED BY <1>1, <2>9
<1> QED BY <1>5, <1>6

LEMMA RollIs == ASSUME NEW roll \in Damage!Roll PROVE roll \in [shield : Int, armor : Int]
<1>1. Damage!Min({DamageArmor, 1}) \in Int /\ DamageDefense \in Nat /\ DamageArmor \in Nat
  BY DamageConstants, DamageMin
<1>2. \A x \in Damage!ArmorRolls : x \in Int
  BY <1>1 DEF Damage!ArmorRolls
<1>3. \A x \in Damage!ShieldRolls : x \in Int
  BY <1>1 DEF Damage!ShieldRolls
<1> QED BY <1>2, <1>3 DEF Damage!Roll

DamageInv == DamageState(s) /\ Damage!Counted(s)

LEMMA DamageHolds ==
  DamageInv => Damage!TypeOK /\ Damage!CreditedAsTaken /\ Damage!TheDeadDie
<1> SUFFICES ASSUME DamageInv
             PROVE  Damage!TypeOK /\ Damage!CreditedAsTaken /\ Damage!TheDeadDie
  OBVIOUS
<1>1. DamageState(s) /\ Damage!Counted(s)
  BY DEF DamageInv
<1>2. ASSUME NEW v \in s.victims PROVE s.of[v] \in Damage!VictimRec
  <2>1. /\ s.of[v] \in Rec /\ s.of[v].credit <= DamageCredit /\ s.of[v].taken <= DamageCredit
        /\ s.of[v].deaths <= DamageDeaths
    BY <1>1, DamageConstants DEF DamageState, Fair, Rec, Damage!Counted
  <2> QED BY <2>1, DamageConstants DEF Rec, Damage!VictimRec
<1>3. s.of \in [s.victims -> Damage!VictimRec]
  BY <1>1, <1>2 DEF DamageState
<1>4. Damage!TypeOK
  BY <1>1, <1>3 DEF DamageState, Damage!TypeOK
<1>5. Damage!CreditedAsTaken
  BY <1>1 DEF DamageState, Fair, Damage!CreditedAsTaken
<1>6. Damage!TheDeadDie
  BY <1>1 DEF DamageState, Fair, Mortal, Rec, Damage!TheDeadDie
<1> QED BY <1>4, <1>5, <1>6

LEMMA FreshIs ==
  ASSUME NEW v
  PROVE  /\ Fair(Damage!Fresh(v)) /\ ~ Damage!Fresh(v).shield
         /\ Damage!Fresh(v).health = DamageHealth
         /\ Damage!Fresh(v).credit = 0 /\ Damage!Fresh(v).taken = 0 /\ Damage!Fresh(v).deaths = 0
<1> DEFINE ma == IF v = "player" THEN DamageMana ELSE 0
<1>1. Damage!Fresh(v) = [health |-> DamageHealth, mana |-> ma, shield |-> FALSE, blocks |-> 0,
                         charges |-> 0, deaths |-> 0, credit |-> 0, taken |-> 0]
  BY DEF Damage!Fresh, Damage!Player
<1>2. ma \in 0 .. DamageMana /\ DamageHealth \in 0 .. DamageHealth /\ DamageHealth # 0
  BY DamageConstants
<1> HIDE DEF ma
<1>3. /\ 0 \in 0 .. DamageBlocks /\ 0 \in 0 .. DamageCharges /\ 0 \in Nat
      /\ FALSE \in BOOLEAN
  BY DamageConstants
<1>4. Damage!Fresh(v) \in Rec
  BY <1>1, <1>2, <1>3 DEF Rec
<1> QED BY <1>1, <1>2, <1>4 DEF Fair, Mortal

LEMMA DamageInit == Damage!Init => DamageInv
<1> SUFFICES ASSUME Damage!Init PROVE DamageInv
  OBVIOUS
<1>1. PICK victims \in DamageAbout :
        s = [victims |-> victims, of |-> [v \in victims |-> Damage!Fresh(v)],
             health |-> DamageCaster, events |-> {}, last |-> "other"]
  BY DEF Damage!Init
<1> DEFINE of == [v \in victims |-> Damage!Fresh(v)]
<1>2. of = [v \in victims |-> of[v]] /\ \A v \in victims : of[v] = Damage!Fresh(v)
  OBVIOUS
<1>3. s = [victims |-> victims, of |-> of, health |-> DamageCaster, events |-> {}, last |-> "other"]
  BY <1>1
<1> HIDE DEF of
<1>4. /\ s.victims = victims /\ s.of = of /\ s.health = DamageCaster /\ s.events = {}
      /\ s.last = "other"
  BY <1>3
<1>5. s = [victims |-> s.victims, of |-> s.of, health |-> s.health, events |-> s.events,
           last |-> s.last] /\ s.of = [v \in s.victims |-> s.of[v]]
  BY ONLY <1>2, <1>3, <1>4
<1>6. \A v \in s.victims : /\ Fair(s.of[v]) /\ ~ s.of[v].shield
                           /\ s.of[v].credit = 0 /\ s.of[v].taken = 0 /\ s.of[v].deaths = 0
  BY <1>2, <1>4, FreshIs
<1>7. DamageState(s)
  BY <1>4, <1>5, <1>6, DamageConstants DEF DamageState
<1>8. Damage!Counted(s)
  BY <1>6, DamageConstants DEF Damage!Counted
<1> QED BY <1>7, <1>8 DEF DamageInv

LEMMA LossIs ==
  ASSUME NEW v, v \in s.victims, s.of[v].health \in Nat, s'.of[v].health \in Nat
  PROVE  /\ Damage!LossOf(v) = Lost(s.of[v].health, s'.of[v].health)
         /\ Lost(s.of[v].health, s'.of[v].health) \in Nat
<1> DEFINE a == s.of[v].health
           b == s'.of[v].health
<1>1. Damage!LossOf(v) = Damage!Max({0, a - b})
  BY DEF Damage!LossOf
<1>2. a \in Nat /\ b \in Nat
  OBVIOUS
<1> HIDE DEF a, b
<1>3. Damage!Max({0, a - b}) = Lost(a, b) /\ Lost(a, b) \in Nat
  BY <1>2, DamageMax DEF Lost
<1> QED BY <1>1, <1>3 DEF a, b

LEMMA NoLoss ==
  ASSUME NEW v, v \notin s.victims PROVE Damage!LossOf(v) = 0
BY DEF Damage!LossOf

LEMMA MarkOf ==
  ASSUME NEW type
  PROVE  /\ Damage!Mark(type) = "element" => type = "element"
         /\ Damage!Mark(type) # "other" => type \in {"element", "undefined"}
BY DEF Damage!Mark

(* What a hit begins with. *)
Started(p, type) ==
  /\ DamageState(p) /\ p.victims = s.victims /\ p.of = s.of /\ p.health = s.health
  /\ p.last = Damage!Mark(type)

LEMMA MarkedIs ==
  ASSUME DamageState(s), NEW type
  PROVE  Started(Damage!Marked(s, type), type)
<1> DEFINE mark == Damage!Mark(type)
           p == Damage!Marked(s, type)
<1>1. mark \in {"element", "undefined", "other"}
  BY DEF Damage!Mark
<1>2. p = [s EXCEPT !.last = mark]
  BY DEF Damage!Marked
<1> HIDE DEF mark, p
<1>3. p = [victims |-> s.victims, of |-> s.of, health |-> s.health, events |-> s.events, last |-> mark]
  BY <1>2 DEF DamageState
<1>4. /\ p.victims = s.victims /\ p.of = s.of /\ p.health = s.health /\ p.events = s.events
      /\ p.last = mark
  BY <1>3
<1>5. p = [victims |-> p.victims, of |-> p.of, health |-> p.health, events |-> p.events,
           last |-> p.last]
  BY ONLY <1>3, <1>4
<1>6. DamageState(p)
  BY <1>1, <1>4, <1>5 DEF DamageState
<1> QED BY <1>4, <1>6 DEF Started, mark, p

LEMMA OneHitStep ==
  ASSUME DamageState(s), NEW v \in s.victims, NEW type, NEW p, Started(p, type),
         HitOn(s', p, v, type)
  PROVE  Damage!HitStep
<1>1. /\ DamageState(s') /\ s'.victims = s.victims /\ s'.last \in {Damage!Mark(type), "other"}
      /\ \A x \in s.victims : x # v => s'.of[x] = s.of[x]
      /\ v = "player" /\ s.of[v].shield /\ type = "element" /\ s'.of[v].health < s.of[v].health
           => s'.of[v].mana = 0
      /\ type \in {"element", "undefined"} /\ s'.last # "other" =>
           s'.health <= s.health + Lost(s.of[v].health, s'.of[v].health)
  BY DEF HitOn, Started
<1>2. /\ \A x \in s.victims : s.of[x].health \in Nat /\ s'.of[x].health \in Nat
      /\ s.health \in Int /\ s'.health \in Int
      /\ v \in {"player", "monster"} /\ (v = "monster" => ~ s.of[v].shield)
  BY <1>1, RecNumbers, DamageConstants DEF DamageState, Fair
<1>3. ASSUME NEW x \in s.victims, s.of[x].shield, s'.of[x].health < s.of[x].health,
             s'.last = "element"
      PROVE  s'.of[x].mana = 0
  <2>1. type = "element"
    BY <1>1, <1>3, MarkOf
  <2>2. x = v
    <3>1. CASE x # v
      <4>1. s'.of[x].health = s.of[x].health
        BY <1>1, <3>1
      <4> QED BY <1>2, <1>3, <4>1
    <3> QED BY <3>1
  <2> QED BY <1>1, <1>2, <1>3, <2>1, <2>2
<1>4. ASSUME s'.last # "other", s'.health > s.health
      PROVE  s'.health - s.health <= Damage!LossOf("player") + Damage!LossOf("monster")
  <2>1. s'.health <= s.health + Damage!LossOf(v) /\ Damage!LossOf(v) \in Nat
    <3>1. type \in {"element", "undefined"}
      BY <1>1, <1>4, MarkOf
    <3>2. v \in s.victims
      OBVIOUS
    <3> QED BY <1>1, <1>2, <1>4, <3>1, <3>2, LossIs
  <2>2. \A x \in {"player", "monster"} : Damage!LossOf(x) \in Nat
    BY <1>2, LossIs, NoLoss
  <2> QED BY <1>2, <2>1, <2>2
<1> QED BY <1>3, <1>4 DEF Damage!HitStep, Damage!Player, Damage!Monster

LEMMA TwoHitsStep ==
  ASSUME DamageState(s), "player" \in s.victims, "monster" \in s.victims, NEW type,
         NEW o, Started(o, type), NEW p, HitOn(p, o, "player", type),
         HitOn(s', p, "monster", type)
  PROVE  Damage!HitStep
<1>1. /\ DamageState(p) /\ p.victims = s.victims /\ p.of["monster"] = s.of["monster"]
      /\ p.last \in {Damage!Mark(type), "other"}
      /\ s.of["player"].shield /\ type = "element" /\ p.of["player"].health < s.of["player"].health
           => p.of["player"].mana = 0
      /\ type \in {"element", "undefined"} /\ p.last # "other" =>
           p.health <= s.health + Lost(s.of["player"].health, p.of["player"].health)
  BY DEF HitOn, Started
<1>2. /\ DamageState(s') /\ s'.victims = s.victims /\ s'.last \in {p.last, "other"}
      /\ s'.of["player"] = p.of["player"]
      /\ type \in {"element", "undefined"} /\ s'.last # "other" =>
           s'.health <= p.health + Lost(p.of["monster"].health, s'.of["monster"].health)
  BY <1>1 DEF HitOn
<1>3. /\ \A x \in s.victims : s.of[x].health \in Nat /\ s'.of[x].health \in Nat
      /\ s.health \in Int /\ s'.health \in Int /\ p.health \in Int
      /\ s.victims \subseteq {"player", "monster"} /\ ~ s.of["monster"].shield
  BY <1>1, <1>2, RecNumbers, DamageConstants DEF DamageState, Fair
<1>4. ASSUME NEW x \in s.victims, s.of[x].shield, s'.of[x].health < s.of[x].health,
             s'.last = "element"
      PROVE  s'.of[x].mana = 0
  <2>1. type = "element" /\ x = "player"
    BY <1>1, <1>2, <1>3, <1>4, MarkOf
  <2> QED BY <1>1, <1>2, <1>4, <2>1
<1>5. ASSUME s'.last # "other", s'.health > s.health
      PROVE  s'.health - s.health <= Damage!LossOf("player") + Damage!LossOf("monster")
  <2>1. type \in {"element", "undefined"} /\ p.last # "other"
    BY <1>1, <1>2, <1>5, MarkOf
  <2>2. /\ Damage!LossOf("player") = Lost(s.of["player"].health, s'.of["player"].health)
        /\ Damage!LossOf("monster") = Lost(s.of["monster"].health, s'.of["monster"].health)
        /\ Damage!LossOf("player") \in Nat /\ Damage!LossOf("monster") \in Nat
    BY <1>3, LossIs
  <2>3. p.health <= s.health + Damage!LossOf("player")
    BY <1>1, <1>2, <2>1, <2>2
  <2>4. s'.health <= p.health + Damage!LossOf("monster")
    BY <1>1, <1>2, <1>5, <2>1, <2>2
  <2> QED BY <1>3, <2>2, <2>3, <2>4
<1> QED BY <1>4, <1>5 DEF Damage!HitStep, Damage!Player, Damage!Monster

LEMMA DamageTargetCombat ==
  ASSUME DamageInv, NEW v \in s.victims, NEW hit \in DamageHits, NEW type \in Damage!Types,
         NEW roll \in Damage!Roll, NEW critical, NEW leech, NEW asked, NEW w \in Damage!Words(asked),
         Damage!TargetCombat(v, hit, type, roll, critical, leech, w)
  PROVE  DamageInv' /\ Damage!HitStep
<1> DEFINE p == Damage!Marked(s, type)
<1>1. /\ s' = Damage!DoTargetCombat(p, v, Damage!Hit(hit, type), roll, critical, leech, w)
      /\ Damage!Counted(s')
  BY DEF Damage!TargetCombat
<1>2. hit \in Nat \X Nat /\ roll \in [shield : Int, armor : Int] /\ Answers(w)
  BY DamageConstants, RollIs, WordsAnswer
<1>3. DamageState(s)
  BY DEF DamageInv
<1>4. Started(p, type)
  BY <1>3, MarkedIs
<1> HIDE DEF p
<1>5. DamageState(p) /\ v \in p.victims
  BY <1>4 DEF Started
<1>6. HitOn(s', p, v, type)
  BY <1>1, <1>2, <1>5, TargetIs
<1>7. Damage!HitStep
  BY <1>3, <1>4, <1>6, OneHitStep
<1> QED BY <1>1, <1>6, <1>7 DEF DamageInv, HitOn

LEMMA DamageAreaCombat ==
  ASSUME DamageInv, NEW hit \in DamageHits, NEW type \in Damage!Types,
         NEW roll \in [s.victims -> Damage!Roll], NEW critical, NEW leech,
         NEW asked, NEW w \in Damage!Words(asked),
         Damage!AreaCombat(hit, type, roll, critical, leech, w)
  PROVE  DamageInv' /\ Damage!HitStep
<1> DEFINE d == Damage!Hit(hit, type)
           o == Damage!Marked(s, type)
           p == IF "player" \in o.victims
                THEN Damage!AreaOne(o, "player", d, roll, critical, leech, w) ELSE o
<1>1. /\ s' = Damage!DoAreaCombat(o, d, roll, critical, leech, w)
      /\ Damage!Counted(s')
  BY DEF Damage!AreaCombat
<1>2. DamageState(s) /\ Started(o, type)
  BY MarkedIs DEF DamageInv
<1> HIDE DEF o
<1>3. o.victims = s.victims /\ DamageState(o)
  BY <1>2 DEF Started
<1>4. s' = IF "monster" \in s.victims
           THEN Damage!AreaOne(p, "monster", d, roll, critical, leech, w) ELSE p
  BY <1>1, <1>3 DEF Damage!DoAreaCombat, Damage!Player, Damage!Monster
<1>5. /\ hit \in Nat \X Nat /\ Answers(w)
      /\ \A v \in s.victims : roll[v] \in [shield : Int, armor : Int]
  BY DamageConstants, RollIs, WordsAnswer
<1>6. "player" \in s.victims => HitOn(p, o, "player", type)
  BY <1>3, <1>5, AreaIs
<1>7. "player" \notin s.victims => p = o
  BY <1>3
<1> HIDE DEF p
<1>8. DamageState(p) /\ p.victims = s.victims
  BY <1>3, <1>6, <1>7 DEF HitOn
<1>9. "monster" \in s.victims => HitOn(s', p, "monster", type)
  BY <1>4, <1>5, <1>8, AreaIs
<1>10. CASE "player" \in s.victims /\ "monster" \in s.victims
  BY <1>1, <1>2, <1>6, <1>9, <1>10, TwoHitsStep DEF DamageInv, HitOn
<1>11. CASE "player" \in s.victims /\ "monster" \notin s.victims
  <2>1. HitOn(s', o, "player", type)
    BY <1>4, <1>6, <1>11
  <2> QED BY <1>1, <1>2, <1>11, <2>1, OneHitStep DEF DamageInv, HitOn
<1>12. CASE "player" \notin s.victims /\ "monster" \in s.victims
  <2>1. HitOn(s', o, "monster", type)
    BY <1>7, <1>9, <1>12
  <2> QED BY <1>1, <1>2, <1>12, <2>1, OneHitStep DEF DamageInv, HitOn
<1>13. CASE "player" \notin s.victims /\ "monster" \notin s.victims
  <2>1. s' = o /\ s.victims = {} /\ o.health = s.health
    BY <1>2, <1>4, <1>7, <1>13, DamageConstants DEF DamageState, Started
  <2>2. ~ (s'.health > s.health)
    BY <1>2, <2>1, DamageConstants DEF DamageState
  <2>3. Damage!HitStep
    BY <2>1, <2>2 DEF Damage!HitStep
  <2> QED BY <1>1, <1>3, <2>1, <2>3 DEF DamageInv
<1> QED BY <1>10, <1>11, <1>12, <1>13

(* Between the hits one victim changes, and loses nothing. *)
LEMMA BetweenHits ==
  ASSUME DamageInv, NEW v \in s.victims, NEW q, Fair(q), v = "monster" => ~ q.shield,
         q.credit <= DamageCredit, q.taken <= DamageCredit, q.health >= s.of[v].health,
         q.deaths <= s.of[v].deaths,
         s' = [s EXCEPT !.of = [s.of EXCEPT ![v] = q]]
  PROVE  DamageInv' /\ Damage!HitStep
<1> DEFINE of == [s.of EXCEPT ![v] = q]
<1>1. DamageState(s) /\ Damage!Counted(s)
  BY DEF DamageInv
<1>2. /\ of = [x \in s.victims |-> of[x]] /\ of[v] = q
      /\ \A x \in s.victims : x # v => of[x] = s.of[x]
  BY <1>1 DEF DamageState
<1>3. s' = [s EXCEPT !.of = of]
  OBVIOUS
<1> HIDE DEF of
<1>4. s' = [victims |-> s.victims, of |-> of, health |-> s.health, events |-> s.events,
            last |-> s.last]
  BY <1>1, <1>3 DEF DamageState
<1>5. /\ s'.victims = s.victims /\ s'.of = of /\ s'.health = s.health /\ s'.events = s.events
      /\ s'.last = s.last
  BY <1>4
<1>6. s' = [victims |-> s'.victims, of |-> s'.of, health |-> s'.health, events |-> s'.events,
            last |-> s'.last] /\ s'.of = [x \in s'.victims |-> s'.of[x]]
  BY ONLY <1>2, <1>4, <1>5
<1>7. \A x \in s'.victims : Fair(s'.of[x])
  BY <1>1, <1>2, <1>5 DEF DamageState
<1>8. "monster" \in s'.victims => ~ s'.of["monster"].shield
  BY <1>1, <1>2, <1>5 DEF DamageState
<1>9. DamageState(s')
  BY <1>1, <1>5, <1>6, <1>7, <1>8 DEF DamageState
<1>10. Damage!Counted(s')
  <2> DEFINE most == IF s.victims \in DamageInDetail THEN 1 ELSE DamageDeaths
  <2>1. s.of[v].deaths \in Nat /\ q.deaths \in Nat /\ most \in Nat /\ s.of[v].deaths <= most
    BY <1>1, DamageConstants DEF DamageState, Fair, Rec, Damage!Counted
  <2>2. q.deaths <= most
    BY <2>1
  <2> QED BY <1>1, <1>2, <1>5, <2>2 DEF Damage!Counted
<1>11. \A x \in s.victims : s.of[x].health \in Nat /\ s'.of[x].health \in Nat
  BY <1>1, <1>5, <1>7, RecNumbers DEF DamageState, Fair
<1>12. \A x \in s.victims : ~ (s'.of[x].health < s.of[x].health)
  BY <1>2, <1>5, <1>11
<1>13. ~ (s'.health > s.health)
  BY <1>1, <1>5, DamageConstants DEF DamageState
<1>14. Damage!HitStep
  BY <1>12, <1>13 DEF Damage!HitStep
<1> QED BY <1>9, <1>10, <1>14 DEF DamageInv

(* What a victim is between hits. *)
LEMMA VictimIs ==
  ASSUME DamageInv, NEW v \in s.victims, NEW r, r = s.of[v]
  PROVE  /\ Fair(r) /\ r \in Rec /\ Mortal(r) /\ r.credit = r.taken
         /\ r.credit <= DamageCredit /\ r.taken <= DamageCredit
         /\ (v = "monster" => ~ r.shield) /\ r.health >= r.health /\ r.deaths <= r.deaths
<1>1. Fair(r) /\ r.credit <= DamageCredit /\ r.taken <= DamageCredit /\ (v = "monster" => ~ r.shield)
  BY DEF DamageInv, DamageState, Damage!Counted
<1>2. r.health >= r.health /\ r.deaths <= r.deaths
  BY <1>1, RecNumbers DEF Fair, Rec
<1> QED BY <1>1, <1>2 DEF Fair

LEMMA DamageThink ==
  ASSUME DamageInv, NEW v \in s.victims, Damage!Think(v)
  PROVE  DamageInv' /\ Damage!HitStep
<1> DEFINE r == s.of[v]
           bl == r.blocks + 1
           q == [r EXCEPT !.blocks = bl]
<1>1. /\ Fair(r) /\ r \in Rec /\ Mortal(r) /\ r.credit = r.taken
      /\ r.credit <= DamageCredit /\ r.taken <= DamageCredit
      /\ (v = "monster" => ~ r.shield) /\ r.health >= r.health /\ r.deaths <= r.deaths
  BY VictimIs
<1>2. s' = [s EXCEPT !.of = [s.of EXCEPT ![v] = q]] /\ r.blocks < DamageBlocks
  BY DEF Damage!Think, DamageInv, DamageState
<1>3. bl \in 0 .. DamageBlocks
  BY <1>1, <1>2, DamageConstants DEF Rec
<1> HIDE DEF r, bl
<1>4. /\ q \in Rec /\ q.health = r.health /\ q.deaths = r.deaths /\ q.credit = r.credit
      /\ q.taken = r.taken /\ q.shield = r.shield
  BY <1>1, <1>3 DEF Rec
<1> HIDE DEF q
<1>5. /\ Fair(q) /\ (v = "monster" => ~ q.shield) /\ q.credit <= DamageCredit
      /\ q.taken <= DamageCredit /\ q.health >= s.of[v].health /\ q.deaths <= s.of[v].deaths
  BY <1>1, <1>4 DEF Fair, Mortal, r
<1> QED BY <1>2, <1>5, BetweenHits

LEMMA DamageCastManaShield ==
  ASSUME DamageInv, Damage!CastManaShield
  PROVE  DamageInv' /\ Damage!HitStep
<1> DEFINE r == s.of["player"]
           sh == ~ r.shield
           q == [r EXCEPT !.shield = sh]
<1>1. "player" \in s.victims /\ s' = [s EXCEPT !.of = [s.of EXCEPT !["player"] = q]]
  BY DEF Damage!CastManaShield, Damage!Player, DamageInv, DamageState
<1>2. /\ Fair(r) /\ r \in Rec /\ Mortal(r) /\ r.credit = r.taken
      /\ r.credit <= DamageCredit /\ r.taken <= DamageCredit /\ r.health >= r.health
      /\ r.deaths <= r.deaths
  BY <1>1, VictimIs
<1>3. sh \in BOOLEAN
  OBVIOUS
<1> HIDE DEF r, sh
<1>4. /\ q \in Rec /\ q.health = r.health /\ q.deaths = r.deaths /\ q.credit = r.credit
      /\ q.taken = r.taken
  BY <1>2, <1>3 DEF Rec
<1> HIDE DEF q
<1>5. /\ Fair(q) /\ q.credit <= DamageCredit
      /\ q.taken <= DamageCredit /\ q.health >= s.of["player"].health
      /\ q.deaths <= s.of["player"].deaths
  BY <1>2, <1>4 DEF Fair, Mortal, r
<1> QED BY <1>1, <1>5, BetweenHits

LEMMA DamageRecover ==
  ASSUME DamageInv, Damage!Recover
  PROVE  DamageInv' /\ Damage!HitStep
<1> DEFINE r == s.of["player"]
           ch == IF s.victims \in DamageInDetail THEN DamageCharges ELSE r.charges
           q == [[r EXCEPT !.mana = DamageMana] EXCEPT !.charges = ch]
<1>1. DamageState(s) /\ "player" \in s.victims
  BY DEF DamageInv, Damage!Recover, Damage!Player
<1>2. /\ Fair(r) /\ r \in Rec /\ Mortal(r) /\ r.credit = r.taken
      /\ r.credit <= DamageCredit /\ r.taken <= DamageCredit /\ r.health >= r.health
      /\ r.deaths <= r.deaths
  BY <1>1, VictimIs
<1>3. s' = [s EXCEPT !.of = [s.of EXCEPT !["player"] = q]]
  BY <1>1, <1>2 DEF Damage!Recover, Damage!Player, DamageState, Rec
<1>4. ch \in 0 .. DamageCharges /\ DamageMana \in 0 .. DamageMana
  BY <1>2, DamageConstants DEF Rec
<1> HIDE DEF r, ch
<1>5. /\ q \in Rec /\ q.health = r.health /\ q.deaths = r.deaths /\ q.credit = r.credit
      /\ q.taken = r.taken
  BY <1>2, <1>4 DEF Rec
<1> HIDE DEF q
<1>6. /\ Fair(q) /\ q.credit <= DamageCredit
      /\ q.taken <= DamageCredit /\ q.health >= s.of["player"].health
      /\ q.deaths <= s.of["player"].deaths
  BY <1>2, <1>5 DEF Fair, Mortal, r
<1> QED BY <1>1, <1>3, <1>6, BetweenHits

LEMMA DamageExecuteDeath ==
  ASSUME DamageInv, NEW v \in s.victims, Damage!ExecuteDeath(v)
  PROVE  DamageInv' /\ Damage!HitStep
<1> DEFINE q == Damage!Fresh(v)
<1>1. s' = [s EXCEPT !.of = [s.of EXCEPT ![v] = q]]
  BY DEF Damage!ExecuteDeath, DamageInv, DamageState
<1>2. /\ Fair(q) /\ ~ q.shield /\ q.health = DamageHealth
      /\ q.credit = 0 /\ q.taken = 0 /\ q.deaths = 0
  BY FreshIs
<1> HIDE DEF q
<1>3. s.of[v] \in Rec
  BY VictimIs
<1>4. /\ q.credit <= DamageCredit /\ q.taken <= DamageCredit /\ q.health >= s.of[v].health
      /\ q.deaths <= s.of[v].deaths
  BY <1>2, <1>3, DamageConstants DEF Rec
<1> QED BY <1>1, <1>2, <1>4, BetweenHits

LEMMA DamageRegenerate ==
  ASSUME DamageInv, NEW v \in s.victims, Damage!Regenerate(v)
  PROVE  DamageInv' /\ Damage!HitStep
<1> DEFINE r == s.of[v]
           he == r.health + 1
           q == [r EXCEPT !.health = he]
<1>1. /\ Fair(r) /\ r \in Rec /\ Mortal(r) /\ r.credit = r.taken
      /\ r.credit <= DamageCredit /\ r.taken <= DamageCredit
      /\ (v = "monster" => ~ r.shield) /\ r.health >= r.health /\ r.deaths <= r.deaths
  BY VictimIs
<1>2. s' = [s EXCEPT !.of = [s.of EXCEPT ![v] = q]] /\ r.health < DamageHealth
  BY DEF Damage!Regenerate, DamageInv, DamageState
<1>3. he \in 0 .. DamageHealth /\ he # 0 /\ he >= r.health
  BY <1>1, <1>2, DamageConstants DEF Rec
<1> HIDE DEF r, he
<1>4. /\ q \in Rec /\ q.health = he /\ q.deaths = r.deaths /\ q.credit = r.credit
      /\ q.taken = r.taken /\ q.shield = r.shield
  BY <1>1, <1>3 DEF Rec
<1> HIDE DEF q
<1>5. /\ Fair(q) /\ (v = "monster" => ~ q.shield) /\ q.credit <= DamageCredit
      /\ q.taken <= DamageCredit /\ q.health >= s.of[v].health /\ q.deaths <= s.of[v].deaths
  BY <1>1, <1>3, <1>4 DEF Fair, Mortal, r
<1> QED BY <1>2, <1>5, BetweenHits

LEMMA RevivedIs ==
  ASSUME NEW r \in Rec, r.deaths > 0, NEW q, q = Damage!Revived(r)
  PROVE  /\ Fair(q) /\ q.health = DamageHealth /\ q.credit = 0 /\ q.taken = 0
         /\ q.deaths <= r.deaths
<1> DEFINE more == Damage!Min({DamageBlocks, r.blocks + 1})
           bl == IF s.victims \in DamageInDetail THEN more ELSE r.blocks
           de == r.deaths - 1
           q1 == [r EXCEPT !.health = DamageHealth]
           q2 == [q1 EXCEPT !.shield = FALSE]
           q3 == [q2 EXCEPT !.deaths = de]
           q4 == [q3 EXCEPT !.credit = 0]
           q5 == [q4 EXCEPT !.taken = 0]
<1>1. q = [q5 EXCEPT !.blocks = bl]
  BY DEF Damage!Revived, Rec
<1>2. r.blocks \in Nat /\ r.blocks + 1 \in Nat /\ r.blocks \in 0 .. DamageBlocks
  BY DamageConstants DEF Rec
<1>3. more \in 0 .. DamageBlocks
  BY <1>2, DamageMin, DamageConstants
<1> HIDE DEF more
<1>4. bl \in 0 .. DamageBlocks
  BY <1>2, <1>3
<1>5. de \in Nat /\ de <= r.deaths
  BY DEF Rec
<1>6. DamageHealth \in 0 .. DamageHealth /\ DamageHealth # 0
  BY DamageConstants
<1> HIDE DEF bl, de
<1>7. q1 \in Rec /\ q1.health = DamageHealth
  BY <1>6 DEF Rec
<1> HIDE DEF q1
<1>8. q2 \in Rec /\ q2.health = DamageHealth
  BY <1>7 DEF Rec
<1> HIDE DEF q2
<1>9. q3 \in Rec /\ q3.health = DamageHealth /\ q3.deaths = de
  BY <1>5, <1>8 DEF Rec
<1> HIDE DEF q3
<1>10. q4 \in Rec /\ q4.health = DamageHealth /\ q4.deaths = de /\ q4.credit = 0
  BY <1>9 DEF Rec
<1> HIDE DEF q4
<1>11. q5 \in Rec /\ q5.health = DamageHealth /\ q5.deaths = de /\ q5.credit = 0 /\ q5.taken = 0
  BY <1>10 DEF Rec
<1> HIDE DEF q5
<1>12. q \in Rec /\ q.health = DamageHealth /\ q.deaths = de /\ q.credit = 0 /\ q.taken = 0
  BY <1>1, <1>4, <1>11 DEF Rec
<1> QED BY <1>5, <1>6, <1>12 DEF Fair, Mortal

LEMMA DamageRevive ==
  ASSUME DamageInv, Damage!Revive
  PROVE  DamageInv' /\ Damage!HitStep
<1> DEFINE r == s.of["player"]
           q == Damage!Revived(r)
<1>1. "player" \in s.victims /\ r.deaths > 0
  BY DEF Damage!Revive, Damage!Player
<1>2. s' = [s EXCEPT !.of = [s.of EXCEPT !["player"] = q]]
  BY DEF Damage!Revive, Damage!Player, DamageInv, DamageState
<1>3. r \in Rec
  BY <1>1, VictimIs
<1>4. /\ Fair(q) /\ q.health = DamageHealth /\ q.credit = 0 /\ q.taken = 0
      /\ q.deaths <= r.deaths
  BY <1>1, <1>3, RevivedIs
<1> HIDE DEF q
<1>5. q.credit <= DamageCredit /\ q.taken <= DamageCredit /\ q.health >= r.health
  BY <1>3, <1>4, DamageConstants DEF Rec
<1> QED BY <1>1, <1>2, <1>4, <1>5, BetweenHits

LEMMA DamageIdle ==
  ASSUME DamageInv, NEW v \in s.victims, Damage!Idle(v)
  PROVE  DamageInv' /\ Damage!HitStep
<1> DEFINE r == s.of[v]
           q == [[r EXCEPT !.credit = 0] EXCEPT !.taken = 0]
<1>1. /\ Fair(r) /\ r \in Rec /\ Mortal(r) /\ (v = "monster" => ~ r.shield)
      /\ r.health >= r.health /\ r.deaths <= r.deaths /\ DamageState(s)
  BY VictimIs DEF DamageInv
<1>2. s' = [s EXCEPT !.of = [s.of EXCEPT ![v] = q]]
  BY <1>1 DEF Damage!Idle, DamageState, Rec
<1> HIDE DEF r
<1>3. /\ q \in Rec /\ q.health = r.health /\ q.deaths = r.deaths /\ q.credit = 0
      /\ q.taken = 0 /\ q.shield = r.shield
  BY <1>1 DEF Rec
<1> HIDE DEF q
<1>4. /\ Fair(q) /\ (v = "monster" => ~ q.shield) /\ q.credit <= DamageCredit
      /\ q.taken <= DamageCredit /\ q.health >= s.of[v].health /\ q.deaths <= s.of[v].deaths
  BY <1>1, <1>3, DamageConstants DEF Fair, Mortal, r
<1> QED BY <1>2, <1>4, BetweenHits

(* What is done to the caster and to the scripts does not reach the victims. *)
LEMMA VictimsStay ==
  ASSUME DamageInv, NEW he \in 1 .. DamageCaster, he <= s.health,
         NEW ev \in SUBSET {"health", "mana", "prepare"},
         s' = [victims |-> s.victims, of |-> s.of, health |-> he, events |-> ev, last |-> s.last]
  PROVE  DamageInv' /\ Damage!HitStep
<1>1. DamageState(s) /\ Damage!Counted(s)
  BY DEF DamageInv
<1>2. /\ s'.victims = s.victims /\ s'.of = s.of /\ s'.health = he /\ s'.events = ev
      /\ s'.last = s.last
  OBVIOUS
<1>3. s' = [victims |-> s'.victims, of |-> s'.of, health |-> s'.health, events |-> s'.events,
            last |-> s'.last]
  BY <1>2
<1>4. DamageState(s') /\ Damage!Counted(s')
  BY <1>1, <1>2, <1>3 DEF DamageState, Damage!Counted
<1>5. \A x \in s.victims : ~ (s'.of[x].health < s.of[x].health)
  BY <1>1, <1>2, RecNumbers DEF DamageState, Fair
<1>6. ~ (s'.health > s.health)
  BY <1>1, <1>2, DamageConstants DEF DamageState
<1>7. Damage!HitStep
  BY <1>5, <1>6 DEF Damage!HitStep
<1> QED BY <1>4, <1>7 DEF DamageInv

LEMMA DamageSuffer ==
  ASSUME DamageInv, Damage!Suffer
  PROVE  DamageInv' /\ Damage!HitStep
<1>1. DamageState(s)
  BY DEF DamageInv
<1>2. s' = [s EXCEPT !.health = 1]
  BY DEF Damage!Suffer
<1>3. s' = [victims |-> s.victims, of |-> s.of, health |-> 1, events |-> s.events, last |-> s.last]
  BY <1>1, <1>2 DEF DamageState
<1>4. 1 \in 1 .. DamageCaster /\ 1 <= s.health /\ s.events \in SUBSET {"health", "mana", "prepare"}
  BY <1>1, DamageConstants DEF DamageState
<1> QED BY <1>3, <1>4, VictimsStay

LEMMA DamageEvents ==
  ASSUME DamageInv, NEW e \in {"health", "mana", "prepare"},
         Damage!RegisterEvent(e) \/ Damage!UnregisterEvent(e)
  PROVE  DamageInv' /\ Damage!HitStep
<1>1. DamageState(s)
  BY DEF DamageInv
<1>2. /\ s.health \in 1 .. DamageCaster /\ s.health <= s.health
      /\ s.events \in SUBSET {"health", "mana", "prepare"}
  BY <1>1, DamageConstants DEF DamageState
<1>3. PICK ev \in SUBSET {"health", "mana", "prepare"} : s' = [s EXCEPT !.events = ev]
  <2>1. CASE Damage!RegisterEvent(e)
    <3>1. s' = [s EXCEPT !.events = s.events \cup {e}]
      BY <2>1 DEF Damage!RegisterEvent
    <3>2. s.events \cup {e} \in SUBSET {"health", "mana", "prepare"}
      BY <1>2
    <3> QED BY <3>1, <3>2
  <2>2. CASE Damage!UnregisterEvent(e)
    <3>1. s' = [s EXCEPT !.events = s.events \ {e}]
      BY <2>2 DEF Damage!UnregisterEvent
    <3>2. s.events \ {e} \in SUBSET {"health", "mana", "prepare"}
      BY <1>2
    <3> QED BY <3>1, <3>2
  <2> QED BY <2>1, <2>2
<1>4. s' = [victims |-> s.victims, of |-> s.of, health |-> s.health, events |-> ev, last |-> s.last]
  BY <1>1, <1>3 DEF DamageState
<1> QED BY <1>2, <1>4, VictimsStay

LEMMA DamageNext == DamageInv /\ Damage!Next => DamageInv' /\ Damage!HitStep
<1> SUFFICES ASSUME DamageInv, Damage!Next PROVE DamageInv' /\ Damage!HitStep
  OBVIOUS
<1>1. CASE \E hit \in DamageHits, type \in Damage!Kinds :
           \E w \in Damage!Words(Damage!Asked(s.events, type)), roll \in Damage!Rolls(type),
              critical \in Damage!Criticals(type), leech \in Damage!Leeches(type) :
             \/ \E v \in s.victims :
                  Damage!TargetCombat(v, hit, type, roll[v], critical, leech, w)
             \/ Damage!AreaCombat(hit, type, roll, critical, leech, w)
  <2>1. PICK hit \in DamageHits, type \in Damage!Kinds :
           \E w \in Damage!Words(Damage!Asked(s.events, type)), roll \in Damage!Rolls(type),
              critical \in Damage!Criticals(type), leech \in Damage!Leeches(type) :
             \/ \E v \in s.victims :
                  Damage!TargetCombat(v, hit, type, roll[v], critical, leech, w)
             \/ Damage!AreaCombat(hit, type, roll, critical, leech, w)
    BY <1>1
  <2>2. PICK w \in Damage!Words(Damage!Asked(s.events, type)), roll \in Damage!Rolls(type),
             critical \in Damage!Criticals(type), leech \in Damage!Leeches(type) :
             \/ \E v \in s.victims :
                  Damage!TargetCombat(v, hit, type, roll[v], critical, leech, w)
             \/ Damage!AreaCombat(hit, type, roll, critical, leech, w)
    BY <2>1
  <2>3. roll \in [s.victims -> Damage!Roll] /\ type \in Damage!Types
    BY DEF Damage!Rolls, Damage!Kinds
  <2>4. \A v \in s.victims : roll[v] \in Damage!Roll
    BY <2>3
  <2> QED BY <2>2, <2>3, <2>4, DamageTargetCombat, DamageAreaCombat
<1>2. CASE \E v \in s.victims : \/ Damage!Think(v) \/ Damage!Regenerate(v)
                                \/ Damage!ExecuteDeath(v) \/ Damage!Idle(v)
  BY <1>2, DamageThink, DamageRegenerate, DamageExecuteDeath, DamageIdle
<1>3. CASE \E e \in {"health", "mana", "prepare"} :
             Damage!RegisterEvent(e) \/ Damage!UnregisterEvent(e)
  BY <1>3, DamageEvents
<1>4. CASE Damage!CastManaShield \/ Damage!Recover \/ Damage!Revive \/ Damage!Suffer
  BY <1>4, DamageCastManaShield, DamageRecover, DamageRevive, DamageSuffer
<1> QED BY <1>1, <1>2, <1>3, <1>4 DEF Damage!Next

LEMMA DamageStutter == DamageInv /\ s' = s => DamageInv'
BY DEF DamageInv

(* Whatever a hit is made of, and whatever shields, armor, scripts and the    *)
(* hit's own second half do to it: who dealt damage is credited with it; who  *)
(* is left without health is about to die, whoever was healed while its death *)
(* was on its way; a mana shield with mana left lets no hit of an element      *)
(* through; and no more is leeched than was lost, scripts or none, unless one *)
(* turned the hit into healing (combat.cpp, game.cpp, creature.cpp), for any  *)
(* hits and any numbers of the rest.                                          *)
THEOREM DamageMeasured ==
  Damage!Spec => /\ [](Damage!TypeOK /\ Damage!CreditedAsTaken /\ Damage!TheDeadDie)
                 /\ Damage!HitsMeasured
<1>1. DamageInv /\ [Damage!Next]_s => DamageInv' /\ [Damage!HitStep]_s
  BY DamageNext, DamageStutter
<1> QED BY <1>1, DamageHolds, DamageInit, PTL DEF Damage!Spec, Damage!HitsMeasured

-----------------------------------------------------------------------------
(* Fight *)

LEMMA FightConstants ==
  /\ none \notin Few /\ nobody \notin Few /\ nobody # none
  /\ FightHealth \in Nat \ {0} /\ FightKills \in Nat \ {0}
  /\ FightHits \in Nat \ {0} /\ FightDeaths \in Nat \ {0}
BY PlayersAssumption DEF Fight!FightAssumption

(* What is so of every player, in the game or not.                           *)
Settled(r) ==
  /\ r.skull = "white" \/ r.pzLocked \/ r.attacked # {} => r.infight # "no"
  /\ r.damage # Fight!Unhurt => r.infight # "no" \/ r.deaths > 0
  /\ r.health = 0 => r.deaths > 0
Fighter(r) == r \in Fight!PlayerRec /\ Settled(r)

FightInv == s \in [Few -> Fight!PlayerRec] /\ \A p \in Few : Settled(s[p])

LEMMA FightUnhurt == Fight!Unhurt \in [Fight!Attacker -> 0..FightHits]
BY FightConstants DEF Fight!Unhurt

LEMMA FightFresh == Fighter(Fight!Fresh)
<1>1. Fight!Fresh \in Fight!PlayerRec
  BY FightUnhurt, FightConstants DEF Fight!Fresh, Fight!PlayerRec
<1>2. Settled(Fight!Fresh)
  BY FightConstants DEF Fight!Fresh, Settled
<1> QED BY <1>1, <1>2 DEF Fighter

LEMMA FightForget ==
  ASSUME NEW r \in Fight!PlayerRec, NEW q, q = Fight!Forget(r)
  PROVE  /\ q \in Fight!PlayerRec
         /\ q.damage = IF r.health = 0 THEN r.damage ELSE Fight!Unhurt
         /\ q.health = r.health /\ q.deaths = r.deaths /\ q.infight = r.infight
         /\ q.pzLocked = r.pzLocked /\ q.skull = r.skull /\ q.attacked = r.attacked
         /\ q.skillLoss = r.skillLoss /\ q.arena = r.arena
<1>1. nobody \in Fight!Attacker \cup {nobody}
  OBVIOUS
<1> QED BY <1>1, FightUnhurt DEF Fight!Forget, Fight!PlayerRec

LEMMA FightEndFight ==
  ASSUME NEW r \in Fight!PlayerRec, NEW q, q = Fight!EndFight(r)
  PROVE  /\ q \in Fight!PlayerRec
         /\ q.health = r.health /\ q.deaths = r.deaths /\ q.infight = "no"
         /\ r.infight = "no" => q = r
         /\ r.infight # "no" => /\ q.damage = IF r.health = 0 THEN r.damage ELSE Fight!Unhurt
                                /\ ~ q.pzLocked /\ q.attacked = {} /\ q.skull # "white"
         /\ q.skillLoss = r.skillLoss /\ q.arena = r.arena
<1>1. CASE r.infight = "no"
  BY <1>1 DEF Fight!EndFight
<1>2. CASE r.infight # "no"
  <2> DEFINE f == Fight!Forget(r)
  <2>1. /\ f \in Fight!PlayerRec /\ f.damage = IF r.health = 0 THEN r.damage ELSE Fight!Unhurt
        /\ f.health = r.health /\ f.deaths = r.deaths
        /\ f.skillLoss = r.skillLoss /\ f.arena = r.arena
    BY FightForget
  <2>2. q = [f EXCEPT !.infight = "no", !.pzLocked = FALSE, !.attacked = {},
                      !.skull = Fight!Calm(r.skull)]
    BY <1>2 DEF Fight!EndFight
  <2>3. Fight!Calm(r.skull) \in {"none", "red"}
    BY DEF Fight!Calm
  <2> HIDE DEF f
  <2>4. /\ q \in Fight!PlayerRec /\ q.health = f.health /\ q.deaths = f.deaths
        /\ q.infight = "no" /\ q.damage = f.damage /\ ~ q.pzLocked /\ q.attacked = {}
        /\ q.skull = Fight!Calm(r.skull) /\ q.skillLoss = f.skillLoss /\ q.arena = f.arena
    BY <2>1, <2>2, <2>3 DEF Fight!PlayerRec
  <2> QED BY <1>2, <2>1, <2>3, <2>4
<1> QED BY <1>1, <1>2

LEMMA FightEndFightSettled ==
  ASSUME NEW r \in Fight!PlayerRec, Settled(r)
  PROVE  Fighter(Fight!EndFight(r))
<1> DEFINE q == Fight!EndFight(r)
<1>1. CASE r.infight = "no"
  BY <1>1, FightEndFight DEF Fighter
<1>2. CASE r.infight # "no"
  BY <1>2, FightEndFight DEF Fighter, Settled
<1> QED BY <1>1, <1>2


(* Locked out, sought or marked only in a fight: what a death does not touch. *)
Marked(r) == r.skull = "white" \/ r.pzLocked \/ r.attacked # {} => r.infight # "no"

LEMMA FightDeath ==
  ASSUME NEW r \in Fight!PlayerRec, Marked(r)
  PROVE  /\ Fight!Death(r) \in Fight!PlayerRec
         /\ ~ r.skillLoss => Fighter(Fight!Death(r))
<1>1. CASE r.skillLoss
  <2> DEFINE h == [r EXCEPT !.health = FightHealth]
  <2>1. h \in Fight!PlayerRec
    BY FightConstants DEF Fight!PlayerRec
  <2>2. Fight!Death(r) = Fight!EndFight(h)
    BY <1>1 DEF Fight!Death
  <2> HIDE DEF h
  <2> QED BY <1>1, <2>1, <2>2, FightEndFight
<1>2. CASE ~ r.skillLoss
  <2> DEFINE e == Fight!EndFight(r)
             f == [e EXCEPT !.skillLoss = TRUE]
             g == [f EXCEPT !.health = FightHealth]
             h == [g EXCEPT !.arena = FALSE]
  <2>1. e \in Fight!PlayerRec /\ Marked(e) /\ e.infight = "no"
    BY FightEndFight DEF Marked
  <2>2. Fight!Death(r) = Fight!Forget(h)
    BY <1>2 DEF Fight!Death
  <2> HIDE DEF e
  <2>f. /\ f \in Fight!PlayerRec /\ f.infight = e.infight
        /\ f.pzLocked = e.pzLocked /\ f.skull = e.skull /\ f.attacked = e.attacked
    BY <2>1 DEF Fight!PlayerRec
  <2>h. FightHealth \in 0..FightHealth
    BY FightConstants
  <2> HIDE DEF f
  <2>a. /\ g \in Fight!PlayerRec /\ g.health = FightHealth /\ g.infight = e.infight
        /\ g.pzLocked = e.pzLocked /\ g.skull = e.skull /\ g.attacked = e.attacked
    BY <2>f, <2>h DEF Fight!PlayerRec
  <2> HIDE DEF g
  <2>3. /\ h \in Fight!PlayerRec /\ h.health = FightHealth /\ h.infight = e.infight
        /\ h.pzLocked = e.pzLocked /\ h.skull = e.skull /\ h.attacked = e.attacked
    BY <2>a DEF Fight!PlayerRec
  <2> HIDE DEF h
  <2> DEFINE d == Fight!Forget(h)
  <2>4. /\ d \in Fight!PlayerRec /\ d.damage = Fight!Unhurt /\ d.health = FightHealth
        /\ d.infight = e.infight /\ d.pzLocked = e.pzLocked /\ d.skull = e.skull
        /\ d.attacked = e.attacked
    BY <2>3, FightForget, FightConstants
  <2> HIDE DEF d
  <2>5. Settled(d)
    BY <2>1, <2>4, FightConstants DEF Settled, Marked
  <2> QED BY <2>2, <2>4, <2>5 DEF Fighter, d
<1> QED BY <1>1, <1>2

LEMMA FightSaved ==
  ASSUME NEW r \in Fight!PlayerRec PROVE Fighter(Fight!Saved(r))
<1>1. Fight!Fresh \in Fight!PlayerRec /\ Fight!Fresh.damage = Fight!Unhurt
      /\ ~ Fight!Fresh.pzLocked /\ Fight!Fresh.attacked = {}
  BY FightFresh DEF Fighter, Fight!Fresh
<1> DEFINE h == IF r.health = 0 THEN 1 ELSE r.health
           i == IF r.infight = "no" THEN "no" ELSE "on"
           k == Fight!Calm(r.skull)
<1>2. h \in 0..FightHealth /\ h # 0 /\ i \in {"no", "on", "over"} /\ k \in {"none", "red"}
  BY FightConstants DEF Fight!PlayerRec, Fight!Calm
<1>3. r.murders \in 0..FightKills
  BY DEF Fight!PlayerRec
<1>4. Fight!Saved(r) = [Fight!Fresh EXCEPT !.health = h, !.infight = i, !.skull = k, !.murders = r.murders]
  BY DEF Fight!Saved
<1> HIDE DEF h, i, k
<1> DEFINE q == Fight!Saved(r)
<1>5. /\ q \in Fight!PlayerRec /\ q.health = h /\ q.skull = k /\ q.damage = Fight!Unhurt
      /\ ~ q.pzLocked /\ q.attacked = {}
  BY <1>1, <1>2, <1>3, <1>4 DEF Fight!PlayerRec
<1> QED BY <1>2, <1>5 DEF Fighter, Settled

LEMMA FightWithout ==
  ASSUME NEW r \in Fight!PlayerRec, NEW p \in Few, Settled(r)
  PROVE  Fighter(Fight!Without(r, p))
<1> DEFINE m == [r.damage EXCEPT ![p] = 0]
           l == IF r.lastHit = p THEN nobody ELSE r.lastHit
<1>1. m \in [Fight!Attacker -> 0..FightHits] /\ l \in Fight!Attacker \cup {nobody}
  <2>1. r.damage \in [Fight!Attacker -> 0..FightHits] /\ r.lastHit \in Fight!Attacker \cup {nobody}
    BY DEF Fight!PlayerRec
  <2>2. 0 \in 0..FightHits
    BY FightConstants
  <2> QED BY <2>1, <2>2
<1>2. r.damage = Fight!Unhurt => m = Fight!Unhurt
  BY DEF Fight!Unhurt
<1>3. Fight!Without(r, p) = [r EXCEPT !.damage = m, !.lastHit = l]
  BY DEF Fight!Without
<1> HIDE DEF m, l
<1> DEFINE q == Fight!Without(r, p)
<1>4. /\ q \in Fight!PlayerRec /\ q.damage = m /\ q.health = r.health /\ q.deaths = r.deaths
      /\ q.infight = r.infight /\ q.pzLocked = r.pzLocked /\ q.skull = r.skull
      /\ q.attacked = r.attacked
  BY <1>1, <1>3 DEF Fight!PlayerRec
<1> QED BY <1>2, <1>4 DEF Fighter, Settled

LEMMA FightRemove ==
  ASSUME NEW t \in [Few -> Fight!PlayerRec], NEW p \in Few, \A q \in Few \ {p} : Settled(t[q])
  PROVE  LET u == Fight!Remove(t, p) IN u \in [Few -> Fight!PlayerRec] /\ \A q \in Few : Settled(u[q])
<1>1. \A q \in Few : Fighter(IF q = p THEN Fight!Saved(t[p]) ELSE Fight!Without(t[q], p))
  BY FightSaved, FightWithout
<1> QED BY <1>1 DEF Fight!Remove, Fighter

(* One that a fight begins or goes on for has nothing to settle.             *)
LEMMA FightGoesOn ==
  ASSUME NEW r \in Fight!PlayerRec, NEW q \in Fight!PlayerRec, Settled(r), q.infight # "no",
         q.health = r.health, q.deaths = r.deaths
  PROVE  Fighter(q)
BY DEF Fighter, Settled

LEMMA FightStrikes ==
  ASSUME NEW r \in Fight!PlayerRec, NEW q \in Few, Settled(r)
  PROVE  /\ Fighter(Fight!Strikes(r, q)) /\ Fight!Strikes(r, q).infight = "on"
         /\ Fight!Strikes(r, q).health = r.health /\ Fight!Strikes(r, q).deaths = r.deaths
<1>1. r.attacked \cup {q} \in SUBSET Few
  BY DEF Fight!PlayerRec
<1> DEFINE x == Fight!Strikes(r, q)
<1>2. x \in Fight!PlayerRec /\ x.infight = "on" /\ x.health = r.health /\ x.deaths = r.deaths
  BY <1>1 DEF Fight!Strikes, Fight!PlayerRec
<1> QED BY <1>2, FightGoesOn

LEMMA FightAssaults ==
  ASSUME NEW r \in Fight!PlayerRec, NEW q \in Few, Settled(r), NEW skull
  PROVE  Fighter(Fight!Assaults(r, q, skull))
<1> DEFINE f == Fight!Strikes(r, q)
           k == IF skull = "none" /\ r.skull = "none" THEN "white" ELSE r.skull
<1>1. f \in Fight!PlayerRec /\ f.infight = "on" /\ f.health = r.health /\ f.deaths = r.deaths
  BY FightStrikes DEF Fighter
<1>2. k \in {"none", "white", "red"}
  BY DEF Fight!PlayerRec
<1>3. Fight!Assaults(r, q, skull) = [f EXCEPT !.pzLocked = TRUE, !.skull = k]
  BY DEF Fight!Assaults
<1> HIDE DEF f, k
<1> DEFINE x == Fight!Assaults(r, q, skull)
<1>4. x \in Fight!PlayerRec /\ x.infight = "on" /\ x.health = r.health /\ x.deaths = r.deaths
  BY <1>1, <1>2, <1>3 DEF Fight!PlayerRec
<1> QED BY <1>4, FightGoesOn


-----------------------------------------------------------------------------
Fighters == [Few -> Fight!PlayerRec]
AllSettled(t) == \A p \in Few : Settled(t[p])

LEMMA FightPut ==
  ASSUME NEW t \in Fighters, AllSettled(t), NEW p \in Few, NEW r, Fighter(r),
         NEW u, u = [t EXCEPT ![p] = r]
  PROVE  u \in Fighters /\ AllSettled(u) /\ u[p] = r
BY DEF Fighters, AllSettled, Fighter

LEMMA FightInFight ==
  ASSUME NEW t \in Fighters, AllSettled(t), NEW p \in Few
  PROVE  LET u == Fight!InFight(t, p)
         IN  /\ u \in Fighters /\ AllSettled(u)
             /\ u[p].infight = "on" /\ u[p].deaths = t[p].deaths
             /\ \A q \in Few \ {p} : u[q] = t[q]
<1> DEFINE r == [t[p] EXCEPT !.infight = "on"]
<1>1. t[p] \in Fight!PlayerRec /\ Settled(t[p])
  BY DEF Fighters, AllSettled
<1>2. /\ r \in Fight!PlayerRec /\ r.infight = "on" /\ r.health = t[p].health
      /\ r.deaths = t[p].deaths
  BY <1>1 DEF Fight!PlayerRec
<1>3. Fight!InFight(t, p) = [t EXCEPT ![p] = r]
  BY DEF Fight!InFight
<1> HIDE DEF r
<1>4. Fighter(r)
  BY <1>1, <1>2, FightGoesOn
<1>5. [t EXCEPT ![p] = r] \in Fighters /\ AllSettled([t EXCEPT ![p] = r])
  BY <1>4, FightPut
<1> QED BY <1>2, <1>3, <1>5 DEF Fighters

LEMMA FightOnAttacked ==
  ASSUME NEW t \in Fighters, AllSettled(t), NEW p \in Few, NEW q \in Few, p # q
  PROVE  LET u == Fight!OnAttackedCreature(t, p, q)
         IN  u \in Fighters /\ AllSettled(u) /\ u[q].deaths = t[q].deaths
<1> DEFINE u == Fight!OnAttackedCreature(t, p, q)
           f == Fight!InFight(t, q)
           a == Fight!Strikes(t[p], q)
           b == Fight!Assaults(t[p], q, t[q].skull)
           c == [t[p] EXCEPT !.infight = "on"]
<1>1. /\ f \in Fighters /\ AllSettled(f) /\ f[q].deaths = t[q].deaths
  BY FightInFight
<1>2. t[p] \in Fight!PlayerRec /\ Settled(t[p])
  BY DEF Fighters, AllSettled
<1>3. Fighter(a) /\ Fighter(b)
  BY <1>2, FightStrikes, FightAssaults
<1>4. /\ c \in Fight!PlayerRec /\ c.infight = "on" /\ c.health = t[p].health
      /\ c.deaths = t[p].deaths
  BY <1>2 DEF Fight!PlayerRec
<1>5. \/ u = t \/ u = [f EXCEPT ![p] = a] \/ u = [f EXCEPT ![p] = b] \/ u = [f EXCEPT ![p] = c]
  BY DEF Fight!OnAttackedCreature
<1> HIDE DEF u, f, a, b, c
<1>6. Fighter(c)
  BY <1>2, <1>4, FightGoesOn
<1>7. ASSUME NEW r, Fighter(r), u = [f EXCEPT ![p] = r]
      PROVE  u \in Fighters /\ AllSettled(u) /\ u[q].deaths = t[q].deaths
  BY <1>1, <1>7, FightPut DEF Fighters
<1>8. u \in Fighters /\ AllSettled(u) /\ u[q].deaths = t[q].deaths
  BY <1>3, <1>5, <1>6, <1>7
<1> QED BY <1>8 DEF u

LEMMA FightHurt ==
  ASSUME NEW r \in Fight!PlayerRec, Settled(r), NEW a \in Fight!Attacker,
         r.health # 0, r.deaths < FightDeaths, r.infight # "no"
  PROVE  Fighter(Fight!Hurt(r, a))
<1> DEFINE h == r.health - 1
           d == IF r.health = 1 THEN r.deaths + 1 ELSE r.deaths
           m == [r.damage EXCEPT ![a] = IF @ < FightHits THEN @ + 1 ELSE @]
<1>1. h \in 0..FightHealth /\ d \in 0..FightDeaths /\ (h = 0 => d > 0)
  BY FightConstants DEF Fight!PlayerRec
<1>2. m \in [Fight!Attacker -> 0..FightHits]
  <2>1. r.damage \in [Fight!Attacker -> 0..FightHits]
    BY DEF Fight!PlayerRec
  <2>2. (IF r.damage[a] < FightHits THEN r.damage[a] + 1 ELSE r.damage[a]) \in 0..FightHits
    BY <2>1, FightConstants
  <2> QED BY <2>1, <2>2
<1>3. Fight!Hurt(r, a) = [r EXCEPT !.health = h, !.deaths = d, !.damage = m, !.lastHit = a]
  BY DEF Fight!Hurt
<1> HIDE DEF h, d, m
<1> DEFINE i == [r EXCEPT !.health = h, !.deaths = d]
           q == [i EXCEPT !.damage = m, !.lastHit = a]
<1>4. Fight!Hurt(r, a) = q
  BY <1>3 DEF Fight!PlayerRec
<1>5. i \in Fight!PlayerRec /\ i.health = h /\ i.deaths = d /\ i.infight = r.infight
  BY <1>1 DEF Fight!PlayerRec
<1> HIDE DEF i
<1>6. /\ q \in Fight!PlayerRec /\ q.health = h /\ q.deaths = d /\ q.infight = r.infight
  BY <1>2, <1>5 DEF Fight!PlayerRec
<1> QED BY <1>1, <1>4, <1>6 DEF Fighter, Settled

LEMMA FightSuffer ==
  ASSUME NEW t \in Fighters, AllSettled(t), NEW a \in Fight!Attacker, NEW q \in Few, NEW hit,
         t[q].deaths < FightDeaths, t[q].infight # "no"
  PROVE  LET u == Fight!Suffer(t, a, q, hit) IN u \in Fighters /\ AllSettled(u)
<1>1. t[q] \in Fight!PlayerRec /\ Settled(t[q])
  BY DEF Fighters, AllSettled
<1>2. CASE ~ hit \/ t[q].health = 0
  BY <1>2 DEF Fight!Suffer
<1>3. CASE hit /\ t[q].health # 0
  <2>1. Fighter(Fight!Hurt(t[q], a))
    BY <1>1, <1>3, FightHurt
  <2> QED BY <1>3, <2>1, FightPut DEF Fight!Suffer
<1> QED BY <1>2, <1>3

LEMMA FightAttack ==
  ASSUME FightInv, NEW p \in Few, NEW q \in Few, NEW hit, Fight!Attack(p, q, hit) PROVE FightInv'
<1>1. s \in Fighters /\ AllSettled(s)
  BY DEF FightInv, Fighters, AllSettled
<1>2. p # q /\ s[q].deaths < FightDeaths
  BY DEF Fight!Attack
<1> DEFINE u == Fight!OnAttackedCreature(s, p, q)
<1>3. u \in Fighters /\ AllSettled(u) /\ u[q].deaths = s[q].deaths
  BY <1>1, <1>2, FightOnAttacked
<1> HIDE DEF u
<1> DEFINE v == Fight!InFight(u, q)
<1>4. v \in Fighters /\ AllSettled(v) /\ v[q].infight = "on" /\ v[q].deaths = s[q].deaths
  BY <1>3, FightInFight
<1>5. s' = Fight!Suffer(v, p, q, hit)
  BY DEF Fight!Attack, u
<1>6. p \in Fight!Attacker
  BY DEF Fight!Attacker
<1> HIDE DEF v
<1>7. s' \in Fighters /\ AllSettled(s')
  BY <1>2, <1>4, <1>5, <1>6, FightSuffer
<1> QED BY <1>7 DEF FightInv, Fighters, AllSettled

LEMMA FightMonsterAttack ==
  ASSUME FightInv, NEW q \in Few, NEW hit, Fight!MonsterAttack(q, hit) PROVE FightInv'
<1>1. s \in Fighters /\ AllSettled(s)
  BY DEF FightInv, Fighters, AllSettled
<1>2. s[q].deaths < FightDeaths
  BY DEF Fight!MonsterAttack
<1> DEFINE v == Fight!InFight(s, q)
<1>4. v \in Fighters /\ AllSettled(v) /\ v[q].infight = "on" /\ v[q].deaths = s[q].deaths
  BY <1>1, FightInFight
<1>5. s' = Fight!Suffer(v, none, q, hit)
  BY DEF Fight!MonsterAttack
<1>6. none \in Fight!Attacker
  BY DEF Fight!Attacker
<1> HIDE DEF v
<1>7. s' \in Fighters /\ AllSettled(s')
  BY <1>2, <1>4, <1>5, <1>6, FightSuffer
<1> QED BY <1>7 DEF FightInv, Fighters, AllSettled

(* An action that changes what one player has.                               *)
LEMMA FightOnly ==
  ASSUME FightInv, NEW p \in Few, NEW r, Fighter(r), s' = [s EXCEPT ![p] = r] PROVE FightInv'
BY FightPut DEF FightInv, Fighters, AllSettled

LEMMA FightAlone ==
  ASSUME FightInv, NEW p \in Few,
         \/ Fight!Regenerate(p) \/ Fight!FightTicksEnd(p) \/ Fight!ExecuteConditions(p)
         \/ Fight!CheckSkullTicks(p) \/ Fight!Walk(p) \/ Fight!Login(p)
  PROVE  FightInv'
<1>1. s[p] \in Fight!PlayerRec /\ Settled(s[p]) /\ s \in [Few -> Fight!PlayerRec]
  BY DEF FightInv
<1>2. CASE Fight!Regenerate(p)
  <2> DEFINE r == [s[p] EXCEPT !.health = s[p].health + 1]
  <2>1. s' = [s EXCEPT ![p] = r] /\ s[p].health < FightHealth
    BY <1>1, <1>2 DEF Fight!Regenerate
  <2>2. s[p].health + 1 \in 0..FightHealth /\ s[p].health + 1 # 0
    BY <1>1, <2>1, FightConstants DEF Fight!PlayerRec
  <2>3. Fighter(r)
    BY <1>1, <2>2 DEF Fighter, Settled, Fight!PlayerRec
  <2> QED BY <2>1, <2>3, FightOnly
<1>3. CASE Fight!FightTicksEnd(p)
  <2> DEFINE r == [s[p] EXCEPT !.infight = "over"]
  <2>1. s' = [s EXCEPT ![p] = r] /\ s[p].infight = "on"
    BY <1>1, <1>3 DEF Fight!FightTicksEnd
  <2>2. r \in Fight!PlayerRec /\ r.infight = "over" /\ r.health = s[p].health /\ r.deaths = s[p].deaths
    BY <1>1 DEF Fight!PlayerRec
  <2> HIDE DEF r
  <2>3. Fighter(r)
    BY <1>1, <2>2, FightGoesOn
  <2> QED BY <2>1, <2>3, FightOnly
<1>4. CASE Fight!ExecuteConditions(p)
  <2>1. s' = [s EXCEPT ![p] = Fight!EndFight(s[p])]
    BY <1>1, <1>4 DEF Fight!ExecuteConditions
  <2>2. Fighter(Fight!EndFight(s[p]))
    BY <1>1, FightEndFightSettled
  <2> QED BY <2>1, <2>2, FightOnly
<1>5. CASE Fight!CheckSkullTicks(p)
  <2> DEFINE k == IF s[p].skull = "red" /\ s[p].murders = 1 /\ s[p].infight # "on" THEN "none"
                  ELSE s[p].skull
             n == s[p].murders - 1
             r == [s[p] EXCEPT !.murders = n, !.skull = k]
  <2>1. s' = [s EXCEPT ![p] = Fight!Served(s[p])] /\ s[p].murders > 0
    BY <1>1, <1>5 DEF Fight!CheckSkullTicks
  <2>2. Fight!Served(s[p]) = r
    BY DEF Fight!Served
  <2>3. n \in 0..FightKills
    BY <1>1, <2>1, FightConstants DEF Fight!PlayerRec
  <2>4. k \in {"none", "white", "red"} /\ (k = "white" => s[p].skull = "white")
    BY <1>1 DEF Fight!PlayerRec
  <2> HIDE DEF k, n
  <2>5. /\ r \in Fight!PlayerRec /\ r.skull = k /\ r.health = s[p].health /\ r.deaths = s[p].deaths
        /\ r.damage = s[p].damage /\ r.infight = s[p].infight /\ r.pzLocked = s[p].pzLocked
        /\ r.attacked = s[p].attacked
    BY <1>1, <2>3, <2>4 DEF Fight!PlayerRec
  <2> HIDE DEF r
  <2>6. Fighter(r)
    BY <1>1, <2>4, <2>5 DEF Fighter, Settled
  <2> QED BY <2>1, <2>2, <2>6, FightOnly
<1>6. CASE Fight!Walk(p)
  <2> DEFINE r == [s[p] EXCEPT !.arena = ~ s[p].arena]
  <2>1. s' = [s EXCEPT ![p] = r]
    BY <1>1, <1>6 DEF Fight!Walk
  <2>2. Fighter(r)
    BY <1>1 DEF Fighter, Settled, Fight!PlayerRec
  <2> QED BY <2>1, <2>2, FightOnly
<1>7. CASE Fight!Login(p)
  <2> DEFINE r == [s[p] EXCEPT !.online = TRUE]
  <2>1. s' = [s EXCEPT ![p] = r]
    BY <1>1, <1>7 DEF Fight!Login
  <2>2. Fighter(r)
    BY <1>1 DEF Fighter, Settled, Fight!PlayerRec
  <2> QED BY <2>1, <2>2, FightOnly
<1> QED BY <1>2, <1>3, <1>4, <1>5, <1>6, <1>7


LEMMA FightMurder ==
  ASSUME NEW r \in Fight!PlayerRec, NEW q, q = Fight!Murder(r)
  PROVE  /\ q \in Fight!PlayerRec /\ q.skull \in {r.skull, "red"}
         /\ q.pzLocked = r.pzLocked /\ q.attacked = r.attacked /\ q.infight = r.infight
         /\ q.damage = r.damage /\ q.deaths = r.deaths /\ q.health = r.health
<1> DEFINE n == IF r.murders < FightKills THEN r.murders + 1 ELSE FightKills
           k == IF n >= FightKills THEN "red" ELSE r.skull
<1>1. n \in 0..FightKills
  BY FightConstants DEF Fight!PlayerRec
<1>2. k \in {"none", "white", "red"} /\ k \in {r.skull, "red"}
  BY DEF Fight!PlayerRec
<1>3. q = [r EXCEPT !.murders = n, !.skull = k]
  BY DEF Fight!Murder
<1> HIDE DEF n, k
<1> QED BY <1>1, <1>2, <1>3 DEF Fight!PlayerRec

LEMMA FightKillsIs ==
  ASSUME NEW r \in Fight!PlayerRec, Settled(r), NEW skull, NEW b
  PROVE  Fighter(Fight!Kills(r, skull, b))
<1> DEFINE c == IF skull = "none" THEN Fight!Murder(r) ELSE r
           l == [c EXCEPT !.pzLocked = TRUE]
<1>1. /\ c \in Fight!PlayerRec /\ c.skull \in {r.skull, "red"}
      /\ c.pzLocked = r.pzLocked /\ c.attacked = r.attacked /\ c.infight = r.infight
      /\ c.damage = r.damage /\ c.deaths = r.deaths /\ c.health = r.health
  BY FightMurder
<1>2. Fight!Kills(r, skull, b) = IF b /\ r.infight = "on" THEN l ELSE c
  BY DEF Fight!Kills
<1> HIDE DEF c
<1>3. Fighter(c)
  BY <1>1 DEF Fighter, Settled
<1>4. ASSUME r.infight = "on" PROVE Fighter(l)
  <2>1. l \in Fight!PlayerRec /\ l.infight = "on" /\ l.health = r.health /\ l.deaths = r.deaths
    BY <1>1, <1>4 DEF Fight!PlayerRec
  <2> QED BY <2>1, FightGoesOn
<1> HIDE DEF l
<1> QED BY <1>2, <1>3, <1>4

(* What is so while q dies: it is of all others, and q has not lost more than *)
(* the death of its own that is being told.                                  *)
Dying(t, q) ==
  /\ t \in Fighters
  /\ \A p \in Few \ {q} : Settled(t[p])
  /\ Marked(t[q])

LEMMA FightOnKilled ==
  ASSUME NEW t, NEW q \in Few, NEW p \in Few, Dying(t, q), NEW b,
         NEW u, u = Fight!OnKilledCreature(t, p, q, b)
  PROVE  Dying(u, q) /\ (t[q].arena \/ ~ t[q].skillLoss => ~ u[q].skillLoss)
<1>1. t[q] \in Fight!PlayerRec /\ t[p] \in Fight!PlayerRec
  BY DEF Dying, Fighters
<1>2. CASE p = q \/ t[q].arena
  <2> DEFINE l == t[q].skillLoss /\ ~ t[q].arena
             r == [t[q] EXCEPT !.skillLoss = l]
  <2>1. l \in BOOLEAN /\ (t[q].arena \/ ~ t[q].skillLoss => ~ l)
    BY <1>1 DEF Fight!PlayerRec
  <2>2. u = [t EXCEPT ![q] = r]
    BY <1>2 DEF Fight!OnKilledCreature
  <2> HIDE DEF l
  <2>3. /\ r \in Fight!PlayerRec /\ r.skillLoss = l /\ r.skull = t[q].skull
        /\ r.pzLocked = t[q].pzLocked /\ r.attacked = t[q].attacked /\ r.infight = t[q].infight
    BY <1>1, <2>1 DEF Fight!PlayerRec
  <2> HIDE DEF r
  <2>4. Dying(u, q) /\ u[q] = r
    BY <2>2, <2>3 DEF Dying, Fighters, Marked
  <2> QED BY <2>1, <2>3, <2>4
<1>3. CASE ~ (p = q \/ t[q].arena) /\ (q \notin t[p].attacked \/ p \in t[q].attacked)
  BY <1>3 DEF Fight!OnKilledCreature
<1>4. CASE ~ (p = q \/ t[q].arena) /\ ~ (q \notin t[p].attacked \/ p \in t[q].attacked)
  <2> DEFINE r == Fight!Kills(t[p], t[q].skull, b)
  <2>1. u = [t EXCEPT ![p] = r]
    BY <1>4 DEF Fight!OnKilledCreature
  <2>2. Fighter(r)
    BY <1>1, <1>4, FightKillsIs DEF Dying
  <2> HIDE DEF r
  <2>3. Dying(u, q) /\ u[q] = t[q]
    BY <1>4, <2>1, <2>2 DEF Dying, Fighters, Fighter
  <2> QED BY <1>4, <2>3
<1> QED BY <1>2, <1>3, <1>4

LEMMA FightTold ==
  ASSUME NEW t, NEW q \in Few, Dying(t, q), NEW S,
         NEW u, u = [p \in Few |-> IF p \in S /\ p # q
                                   THEN [t[p] EXCEPT !.attacked = t[p].attacked \ {q}] ELSE t[p]]
  PROVE  Dying(u, q) /\ u[q] = t[q]
<1>1. ASSUME NEW p \in Few, p # q
      PROVE  Fighter([t[p] EXCEPT !.attacked = t[p].attacked \ {q}])
  <2> DEFINE a == t[p].attacked \ {q}
             r == [t[p] EXCEPT !.attacked = a]
  <2>1. t[p] \in Fight!PlayerRec /\ Settled(t[p])
    BY <1>1 DEF Dying, Fighters
  <2>2. a \in SUBSET Few /\ (a # {} => t[p].attacked # {})
    BY <2>1 DEF Fight!PlayerRec
  <2> HIDE DEF a
  <2>3. /\ r \in Fight!PlayerRec /\ r.attacked = a /\ r.skull = t[p].skull
        /\ r.health = t[p].health /\ r.deaths = t[p].deaths /\ r.damage = t[p].damage
        /\ r.infight = t[p].infight /\ r.pzLocked = t[p].pzLocked
    BY <2>1, <2>2 DEF Fight!PlayerRec
  <2> HIDE DEF r
  <2>4. Fighter(r)
    BY <2>1, <2>2, <2>3 DEF Fighter, Settled
  <2> QED BY <2>4 DEF r, a
<1>2. ASSUME NEW p \in Few, p # q
      PROVE  Fighter(u[p])
  <2>1. Fighter(t[p])
    BY <1>2 DEF Dying, Fighters, Fighter
  <2> QED BY <1>1, <1>2, <2>1
<1>3. u[q] = t[q] /\ t[q] \in Fight!PlayerRec
  BY DEF Dying, Fighters
<1>4. \A p \in Few : u[p] \in Fight!PlayerRec
  BY <1>2, <1>3 DEF Fighter
<1>5. u \in Fighters
  BY <1>4 DEF Fighters
<1> QED BY <1>2, <1>3, <1>5 DEF Dying, Fighter

LEMMA FightOnDeath ==
  ASSUME NEW t, NEW q \in Few, Dying(t, q), NEW most
  PROVE  Fight!OnDeath(t, q, most) \in Fighters /\ AllSettled(Fight!OnDeath(t, q, most))
<1> DEFINE last == t[q].lastHit
           won == IF last \in Few THEN Fight!OnKilledCreature(t, last, q, TRUE) ELSE t
           S == {p \in Few : t[q].damage[p] > 0}
           told == [p \in Few |-> IF p \in S /\ p # q
                                  THEN [won[p] EXCEPT !.attacked = won[p].attacked \ {q}] ELSE won[p]]
           both == IF most \in Few /\ most # last THEN Fight!OnKilledCreature(told, most, q, FALSE)
                   ELSE told
           drop == ~ t[q].arena \/ last \notin Few
           dead == [both EXCEPT ![q] = Fight!Death(both[q])]
<1>0. /\ told = [p \in Few |-> IF t[q].damage[p] > 0 /\ p # q
                               THEN [won[p] EXCEPT !.attacked = won[p].attacked \ {q}] ELSE won[p]]
  BY SMTT(40)
<1>1. Fight!OnDeath(t, q, most) = IF drop THEN Fight!Remove(dead, q) ELSE dead
  BY <1>0 DEF Fight!OnDeath
<1>2. Dying(won, q) /\ (~ drop => ~ won[q].skillLoss)
  <2>1. CASE last \in Few
    <3>1. won = Fight!OnKilledCreature(t, last, q, TRUE)
      BY <2>1
    <3> HIDE DEF won, last, S, told, both, dead
    <3>2. Dying(won, q) /\ (t[q].arena \/ ~ t[q].skillLoss => ~ won[q].skillLoss)
      BY <2>1, <3>1, FightOnKilled
    <3> QED BY <2>1, <3>2
  <2>2. CASE last \notin Few
    BY <2>2
  <2> QED BY <2>1, <2>2
<1> HIDE DEF won, S
<1>3. Dying(told, q) /\ told[q] = won[q]
  BY <1>2, FightTold
<1> HIDE DEF told
<1>4. Dying(both, q) /\ (~ drop => ~ both[q].skillLoss)
  BY <1>2, <1>3, FightOnKilled
<1> HIDE DEF both, drop, last
<1>5. /\ Fight!Death(both[q]) \in Fight!PlayerRec
      /\ ~ drop => Fighter(Fight!Death(both[q]))
  BY <1>4, FightDeath DEF Dying, Fighters
<1>6. /\ dead \in Fighters /\ \A p \in Few \ {q} : Settled(dead[p])
      /\ ~ drop => Settled(dead[q])
  BY <1>4, <1>5 DEF Dying, Fighters, Fighter
<1> HIDE DEF dead
<1>7. CASE drop
  <2>1. Fight!Remove(dead, q) \in Fighters /\ AllSettled(Fight!Remove(dead, q))
    BY <1>6, FightRemove DEF Fighters, AllSettled
  <2> QED BY <1>1, <1>7, <2>1
<1>8. CASE ~ drop
  BY <1>1, <1>6, <1>8 DEF AllSettled
<1> QED BY <1>7, <1>8

LEMMA FightExecuteDeath ==
  ASSUME FightInv, NEW q \in Few, Fight!ExecuteDeath(q) PROVE FightInv'
<1> DEFINE d == s[q].deaths - 1
           r == [s[q] EXCEPT !.deaths = d]
           t == [s EXCEPT ![q] = r]
<1>1. s \in Fighters /\ AllSettled(s) /\ s[q] \in Fight!PlayerRec
  BY DEF FightInv, Fighters, AllSettled
<1>2. s[q].deaths > 0
  BY DEF Fight!ExecuteDeath
<1>3. d \in 0..FightDeaths
  BY <1>1, <1>2, FightConstants DEF Fight!PlayerRec
<1>4. [s EXCEPT ![q].deaths = @ - 1] = t
  BY <1>1 DEF Fighters
<1>5. PICK most : s' = Fight!OnDeath(t, q, most)
  BY <1>4 DEF Fight!ExecuteDeath
<1> HIDE DEF d
<1>6. /\ r \in Fight!PlayerRec /\ r.skull = s[q].skull /\ r.pzLocked = s[q].pzLocked
      /\ r.attacked = s[q].attacked /\ r.infight = s[q].infight
  BY <1>1, <1>3 DEF Fight!PlayerRec
<1> HIDE DEF r
<1>7. Dying(t, q)
  BY <1>1, <1>6 DEF Dying, Fighters, AllSettled, Settled, Marked
<1> HIDE DEF t
<1>8. s' \in Fighters /\ AllSettled(s')
  BY <1>5, <1>7, FightOnDeath
<1> QED BY <1>8 DEF FightInv, Fighters, AllSettled

LEMMA FightLogout == ASSUME FightInv, NEW p \in Few, Fight!Logout(p) PROVE FightInv'
<1>1. s \in [Few -> Fight!PlayerRec] /\ \A q \in Few \ {p} : Settled(s[q])
  BY DEF FightInv
<1>2. s' = Fight!Remove(s, p)
  BY DEF Fight!Logout
<1> QED BY <1>1, <1>2, FightRemove DEF FightInv

LEMMA FightInit == Fight!Init => FightInv
BY FightFresh DEF Fight!Init, FightInv, Fighter

LEMMA FightStutter == FightInv /\ s' = s => FightInv'
BY DEF FightInv

LEMMA FightStep == FightInv /\ Fight!Next => FightInv'
BY FightAttack, FightMonsterAttack, FightExecuteDeath, FightAlone, FightLogout DEF Fight!Next

LEMMA FightHolds == FightInv => Fight!TypeOK /\ Fight!FightsEnd
BY DEF FightInv, Settled, Fight!TypeOK, Fight!FightsEnd

(* However a fight goes on, in an arena or out of it, through blows, deaths   *)
(* that come later, relogins and murders: who is marked by it is still in it, *)
(* and leaves it when its time is over (player.cpp, creature.cpp, game.cpp),  *)
(* for any players and any numbers of blows and murders.                      *)
THEOREM FightsCome == Fight!Spec => [](Fight!TypeOK /\ Fight!FightsEnd)
<1>1. FightInv /\ [Fight!Next]_s => FightInv'
  BY FightStep, FightStutter
<1> QED BY <1>1, FightInit, FightHolds, PTL DEF Fight!Spec

-----------------------------------------------------------------------------
(* PlayerActions *)

LEMMA ActionsConstants ==
  /\ LastTile \in Nat \ {0} /\ MaxCommands \in Nat \ {0}
  /\ none \notin CommandIds /\ none \notin PlayerActions!Task
BY PlayersAssumption DEF PlayerActions!PlayerActionsAssumption

Slot == PlayerActions!Task \cup {none}

Directions == {"east", "west"}

ActionsState ==
  [at : PlayerActions!Tile, thing : PlayerActions!Place, busy : BOOLEAN,
   path : Seq(Directions), walking : BOOLEAN, cancelNextWalk : BOOLEAN,
   walkTask : PlayerActions!Command \cup {none}, walkTaskEvent : Slot, actionTaskEvent : Slot,
   forgotten : {{}}, queue : Seq(PlayerActions!Task), left : BOOLEAN]

(* Two that wait are not of one command.                                     *)
Apart(x, y) == {x, y} \subseteq PlayerActions!Command => x.id # y.id

(* c is of no command that waits.                                            *)
New(t, c) ==
  /\ Apart(c, t.walkTask) /\ Apart(c, t.walkTaskEvent) /\ Apart(c, t.actionTaskEvent)
  /\ \A k \in DOMAIN t.queue : Apart(c, t.queue[k])

Once(t) ==
  /\ Apart(t.walkTask, t.walkTaskEvent) /\ Apart(t.walkTask, t.actionTaskEvent)
  /\ Apart(t.walkTaskEvent, t.actionTaskEvent)
  /\ \A k \in DOMAIN t.queue : /\ Apart(t.walkTask, t.queue[k])
                               /\ Apart(t.walkTaskEvent, t.queue[k])
                               /\ Apart(t.actionTaskEvent, t.queue[k])
  /\ \A j, k \in DOMAIN t.queue : j # k => Apart(t.queue[j], t.queue[k])

(* The walk that a command waits for is under way, or asked for, or lost.    *)
HasWalk(t) ==
  t.walkTask # none => \/ t.walking \/ t.left
                       \/ \E i \in DOMAIN t.queue : t.queue[i].what = "walk"

(* A handler keeps this, but for the room in the queue.                      *)
Sound(t) ==
  /\ t \in ActionsState /\ Len(t.path) <= LastTile
  /\ t.walkTask # none => t.walkTaskEvent = none
  /\ Once(t)
Good(t) == Sound(t) /\ HasWalk(t)

ActionsInv == Good(s) /\ Len(s.queue) <= MaxCommands

LEMMA ApartSym == ASSUME NEW x, NEW y, Apart(x, y) PROVE Apart(y, x)
BY DEF Apart

LEMMA ApartNone == ASSUME NEW x PROVE Apart(x, none) /\ Apart(none, x)
BY ActionsConstants DEF Apart, PlayerActions!Task

(* Attacks and walks are of no command.                                      *)
LEMMA ApartTask ==
  ASSUME NEW x, NEW y \in PlayerActions!Task \ PlayerActions!Command
  PROVE  Apart(x, y) /\ Apart(y, x)
BY DEF Apart

LEMMA TaskIs ==
  /\ PlayerActions!Attack \in PlayerActions!Task \ PlayerActions!Command
  /\ \A t \in PlayerActions!Tile :
       /\ PlayerActions!WalkTo(t) \in PlayerActions!Task \ PlayerActions!Command
       /\ PlayerActions!WalkTo(t).what = "walk"
<1>1. PlayerActions!Attack \notin PlayerActions!Command
  BY ActionsConstants DEF PlayerActions!Attack, PlayerActions!Command
<1>2. \A t \in PlayerActions!Tile : /\ PlayerActions!WalkTo(t) \notin PlayerActions!Command
                                    /\ PlayerActions!WalkTo(t).what = "walk"
  BY ActionsConstants DEF PlayerActions!WalkTo, PlayerActions!Command
<1> QED BY <1>1, <1>2 DEF PlayerActions!Task

LEMMA AbsIs ==
  ASSUME NEW m \in PlayerActions!Tile, NEW n \in PlayerActions!Tile
  PROVE  PlayerActions!Abs(m, n) \in 0..LastTile
BY ActionsConstants DEF PlayerActions!Abs, PlayerActions!Tile

-----------------------------------------------------------------------------
(* What nobody waits for may change.                                         *)
Aside(u, t) ==
  /\ u.walkTask = t.walkTask /\ u.walkTaskEvent = t.walkTaskEvent
  /\ u.actionTaskEvent = t.actionTaskEvent /\ u.queue = t.queue

LEMMA AsideKeeps ==
  ASSUME NEW t, NEW u, Sound(t), u \in ActionsState, Aside(u, t), Len(u.path) <= LastTile
  PROVE  /\ Sound(u)
         /\ \A c : New(t, c) => New(u, c)
         /\ HasWalk(t) /\ (t.walking => u.walking) /\ (t.left => u.left) => HasWalk(u)
BY DEF Sound, Aside, Once, New, HasWalk

LEMMA ActionsBusy ==
  ASSUME NEW t, Good(t), NEW b \in BOOLEAN, NEW u, u = [t EXCEPT !.busy = b]
  PROVE  Good(u) /\ \A c : New(t, c) => New(u, c)
<1>1. u \in ActionsState /\ Aside(u, t) /\ u.path = t.path /\ u.walking = t.walking /\ u.left = t.left
  BY DEF Good, Sound, ActionsState, Aside
<1> QED BY <1>1, AsideKeeps DEF Good, Sound

LEMMA ActionsThing ==
  ASSUME NEW t, Good(t), NEW x \in PlayerActions!Place, NEW u, u = [t EXCEPT !.thing = x]
  PROVE  Good(u) /\ \A c : New(t, c) => New(u, c)
<1>1. u \in ActionsState /\ Aside(u, t) /\ u.path = t.path /\ u.walking = t.walking /\ u.left = t.left
  BY DEF Good, Sound, ActionsState, Aside
<1> QED BY <1>1, AsideKeeps DEF Good, Sound

(* setNextActionTask                                                         *)
LEMMA ActionsNext ==
  ASSUME NEW t, Good(t), NEW c \in Slot, New(t, c), NEW u, u = PlayerActions!SetNextActionTask(t, c)
  PROVE  /\ Good(u)
         /\ c = none => \A d : New(t, d) => New(u, d)
         /\ u.busy = t.busy /\ u.thing = t.thing /\ u.at = t.at
<1>1. t \in ActionsState
  BY DEF Good, Sound
<1>2. u = [t EXCEPT !.actionTaskEvent = c]
  BY <1>1 DEF PlayerActions!SetNextActionTask, PlayerActions!StopEvent, ActionsState
<1>3. /\ u \in ActionsState /\ u.actionTaskEvent = c /\ u.walkTask = t.walkTask
      /\ u.walkTaskEvent = t.walkTaskEvent /\ u.queue = t.queue /\ u.path = t.path
      /\ u.walking = t.walking /\ u.left = t.left
      /\ u.busy = t.busy /\ u.thing = t.thing /\ u.at = t.at
  BY <1>1, <1>2 DEF ActionsState
<1>4. Once(u)
  BY <1>3, ApartSym DEF Good, Sound, Once, New
<1>5. Good(u)
  BY <1>3, <1>4 DEF Good, Sound, HasWalk
<1>6. ASSUME c = none, NEW d, New(t, d) PROVE New(u, d)
  BY <1>3, <1>6, ApartNone DEF New
<1> QED BY <1>3, <1>5, <1>6

LEMMA ActionsClear ==
  ASSUME NEW t, Good(t), NEW u, u = PlayerActions!ClearNextAction(t)
  PROVE  /\ Good(u) /\ \A d : New(t, d) => New(u, d)
         /\ u.busy = t.busy /\ u.thing = t.thing /\ u.at = t.at
<1>1. New(t, none)
  BY ApartNone DEF New
<1>2. none \in Slot /\ u = PlayerActions!SetNextActionTask(t, none)
  BY DEF Slot, PlayerActions!ClearNextAction
<1> QED BY <1>1, <1>2, ActionsNext


(* setNextWalkActionTask; what has lost its walk is forgotten.               *)
LEMMA ActionsNextWalk ==
  ASSUME NEW t, Sound(t), NEW c \in PlayerActions!Command \cup {none}, New(t, c),
         NEW u, u = PlayerActions!SetNextWalkActionTask(t, c)
  PROVE  /\ Sound(u) /\ u.walkTask = c /\ u.walkTaskEvent = none
         /\ u.actionTaskEvent = t.actionTaskEvent /\ u.queue = t.queue
         /\ u.path = t.path /\ u.walking = t.walking /\ u.at = t.at
         /\ u.cancelNextWalk = t.cancelNextWalk
<1>1. t \in ActionsState
  BY DEF Sound
<1> DEFINE v == [t EXCEPT !.walkTaskEvent = none]
           w == [v EXCEPT !.walkTask = c]
<1>2. v \in ActionsState /\ Aside([v EXCEPT !.walkTaskEvent = t.walkTaskEvent], t)
      /\ v.walkTaskEvent = none /\ v.walkTask = t.walkTask /\ v.actionTaskEvent = t.actionTaskEvent
      /\ v.queue = t.queue /\ v.path = t.path /\ v.walking = t.walking /\ v.at = t.at
      /\ v.cancelNextWalk = t.cancelNextWalk
  BY <1>1 DEF ActionsState, Aside, Slot
<1>3. u = [w EXCEPT !.left = FALSE]
  BY <1>1 DEF PlayerActions!SetNextWalkActionTask, PlayerActions!StopEvent, ActionsState
<1> HIDE DEF v
<1>4. w \in ActionsState
      /\ w.walkTaskEvent = none /\ w.walkTask = c /\ w.actionTaskEvent = t.actionTaskEvent
      /\ w.queue = t.queue /\ w.path = t.path /\ w.walking = t.walking /\ w.at = t.at
      /\ w.cancelNextWalk = t.cancelNextWalk
  BY <1>2 DEF ActionsState
<1> HIDE DEF w
<1>5. u \in ActionsState
      /\ u.walkTaskEvent = none /\ u.walkTask = c /\ u.actionTaskEvent = t.actionTaskEvent
      /\ u.queue = t.queue /\ u.path = t.path /\ u.walking = t.walking /\ u.at = t.at
      /\ u.cancelNextWalk = t.cancelNextWalk
  BY <1>3, <1>4 DEF ActionsState
<1>6. Once(u)
  BY <1>5, ApartNone DEF Sound, Once, New
<1> QED BY <1>5, <1>6 DEF Sound

(* A task that is apart from all that wait is put last in the queue.         *)
LEMMA ActionsAppend ==
  ASSUME NEW t, Sound(t), NEW x \in PlayerActions!Task, New(t, x),
         NEW u, u = [t EXCEPT !.queue = Append(t.queue, x)]
  PROVE  /\ Sound(u)
         /\ HasWalk(t) \/ x.what = "walk" => HasWalk(u)
         /\ \A d : New(t, d) /\ Apart(d, x) => New(u, d)
<1> DEFINE q == Append(t.queue, x)
<1>1. t \in ActionsState /\ t.queue \in Seq(PlayerActions!Task)
  BY DEF Sound, ActionsState
<1>2. /\ q \in Seq(PlayerActions!Task) /\ DOMAIN q = DOMAIN t.queue \cup {Len(t.queue) + 1}
      /\ Len(t.queue) + 1 \notin DOMAIN t.queue
      /\ \A k \in DOMAIN t.queue : q[k] = t.queue[k]
      /\ q[Len(t.queue) + 1] = x
  BY <1>1
<1>3. u = [t EXCEPT !.queue = q]
  OBVIOUS
<1> HIDE DEF q
<1>4. /\ u \in ActionsState /\ u.queue = q /\ u.walkTask = t.walkTask
      /\ u.walkTaskEvent = t.walkTaskEvent /\ u.actionTaskEvent = t.actionTaskEvent
      /\ u.path = t.path /\ u.walking = t.walking /\ u.left = t.left
  BY <1>1, <1>2, <1>3 DEF ActionsState
<1>5. ASSUME NEW d, New(t, d), Apart(d, x) PROVE New(u, d)
  BY <1>2, <1>4, <1>5 DEF New
<1>6. \A k \in DOMAIN q : /\ Apart(t.walkTask, q[k]) /\ Apart(t.walkTaskEvent, q[k])
                          /\ Apart(t.actionTaskEvent, q[k])
  BY <1>2, ApartSym DEF Sound, Once, New
<1>7. \A j, k \in DOMAIN q : j # k => Apart(q[j], q[k])
  BY <1>2, ApartSym DEF Sound, Once, New
<1>8. Sound(u)
  BY <1>4, <1>6, <1>7 DEF Sound, Once
<1>9. HasWalk(t) => HasWalk(u)
  BY <1>2, <1>4 DEF HasWalk
<1>10. x.what = "walk" => HasWalk(u)
  BY <1>2, <1>4 DEF HasWalk
<1> QED BY <1>5, <1>8, <1>9, <1>10

LEMMA ActionsApproach ==
  ASSUME NEW t, Good(t), NEW c \in PlayerActions!Command, New(t, c),
         NEW where, ~ PlayerActions!InReach(t, where),
         NEW u \in PlayerActions!Approach(t, c, where)
  PROVE  Good(u)
<1>1. CASE u = t
  BY <1>1
<1>2. CASE u # t
  <2> DEFINE v == PlayerActions!SetNextWalkActionTask(t, c)
             x == PlayerActions!WalkTo(where)
  <2>1. u = [v EXCEPT !.queue = Append(v.queue, x)]
    BY <1>2 DEF PlayerActions!Approach
  <2>2. Sound(v) /\ v.walkTask = c
    BY ActionsNextWalk DEF Good
  <2>3. x \in PlayerActions!Task \ PlayerActions!Command /\ x.what = "walk"
    BY TaskIs DEF PlayerActions!InReach
  <2> HIDE DEF v, x
  <2>4. New(v, x)
    BY <2>3, ApartTask DEF New
  <2> QED BY <2>1, <2>2, <2>3, <2>4, ActionsAppend DEF Good
<1> QED BY <1>1, <1>2

(* A command that names another place is of the same command.                *)
LEMMA ActionsSame ==
  ASSUME NEW t, NEW c \in PlayerActions!Command, NEW d \in PlayerActions!Command, d.id = c.id,
         New(t, c)
  PROVE  New(t, d)
BY DEF New, Apart

LEMMA ActionsPickUp ==
  ASSUME NEW t, Good(t), NEW c \in PlayerActions!Command, New(t, c),
         c.what \in {"useEx", "useWith", "hang"}, NEW x \in PlayerActions!PickUp(t, c)
  PROVE  /\ Good(x[1]) /\ New(x[1], x[2]) /\ x[2] \in PlayerActions!Command
         /\ x[1].at = t.at
<1>1. PICK p \in {PlayerActions!Open, PlayerActions!Shut},
           f \in {PlayerActions!Open, PlayerActions!Nowhere} :
        x = <<[t EXCEPT !.thing = p], [c EXCEPT !.from = f]>>
  BY DEF PlayerActions!PickUp
<1>2. p \in PlayerActions!Place
  BY DEF PlayerActions!Place
<1>3. f \in PlayerActions!Named /\ f \notin PlayerActions!Tile
  BY ActionsConstants
  DEF PlayerActions!Named, PlayerActions!Tile, PlayerActions!Open, PlayerActions!Nowhere
<1> DEFINE d == [c EXCEPT !.from = f]
<1>4. /\ d \in [id : CommandIds, from : PlayerActions!Named, to : PlayerActions!Tile,
                what : PlayerActions!What]
      /\ d.from = f /\ d.id = c.id /\ d.what = c.what /\ d.to = c.to /\ d.to \in PlayerActions!Tile
  BY <1>3 DEF PlayerActions!Command
<1> HIDE DEF d
<1>5. IF d.what \in {"useEx", "move", "hang", "push"} THEN d.to # d.from ELSE d.to = 0
  BY <1>3, <1>4 DEF PlayerActions!Command
<1>6. d \in PlayerActions!Command
  BY <1>4, <1>5 DEF PlayerActions!Command
<1> DEFINE v == [t EXCEPT !.thing = p]
<1>7. Good(v) /\ New(v, c)
  BY <1>2, ActionsThing
<1>8. v.at = t.at
  BY DEF Good, Sound, ActionsState
<1> HIDE DEF v
<1>9. New(v, d)
  BY <1>4, <1>6, <1>7, ActionsSame
<1>10. x[1] = v /\ x[2] = d
  BY <1>1 DEF v, d
<1> QED BY <1>6, <1>7, <1>8, <1>9, <1>10

(* startAutoWalk                                                             *)
LEMMA ActionsStartAutoWalk ==
  ASSUME NEW t, Sound(t), NEW path \in Seq(Directions), Len(path) <= LastTile,
         NEW u \in PlayerActions!StartAutoWalk(t, path)
  PROVE  Good(u)
<1>1. t \in ActionsState
  BY DEF Sound
<1>2. CASE u = [t EXCEPT !.path = path, !.walking = TRUE, !.cancelNextWalk = FALSE]
  <2> DEFINE v == [t EXCEPT !.path = path]
             w == [v EXCEPT !.walking = TRUE]
  <2>1. v \in ActionsState /\ Aside(v, t) /\ v.path = path
    BY <1>1 DEF ActionsState, Aside
  <2>2. u = [w EXCEPT !.cancelNextWalk = FALSE]
    BY <1>2
  <2> HIDE DEF v
  <2>3. w \in ActionsState /\ Aside(w, v) /\ w.path = path /\ w.walking
    BY <2>1 DEF ActionsState, Aside
  <2> HIDE DEF w
  <2>4. u \in ActionsState /\ Aside(u, w) /\ u.path = path /\ u.walking
    BY <2>2, <2>3 DEF ActionsState, Aside
  <2>5. Aside(u, t)
    BY <2>1, <2>3, <2>4 DEF Aside
  <2>6. Sound(u)
    BY <2>4, <2>5, AsideKeeps
  <2> QED BY <2>4, <2>6 DEF Good, HasWalk
<1>3. CASE u = [t EXCEPT !.left = t.walkTask # none]
  <2> DEFINE l == t.walkTask # none
  <2>1. l \in BOOLEAN
    OBVIOUS
  <2>2. u = [t EXCEPT !.left = l]
    BY <1>3
  <2>3. (t.walkTask # none) <=> l
    OBVIOUS
  <2> HIDE DEF l
  <2>4. u \in ActionsState /\ Aside(u, t) /\ u.path = t.path /\ u.left = l
    BY <1>1, <2>1, <2>2 DEF ActionsState, Aside
  <2>5. Sound(u)
    BY <2>4, AsideKeeps DEF Sound
  <2> QED BY <2>3, <2>4, <2>5 DEF Good, HasWalk, Aside
<1> QED BY <1>2, <1>3 DEF PlayerActions!StartAutoWalk

LEMMA ActionsPathTo ==
  ASSUME NEW t, t.at \in PlayerActions!Tile, NEW where \in PlayerActions!Tile
  PROVE  /\ PlayerActions!PathTo(t, where) \in Seq(Directions)
         /\ Len(PlayerActions!PathTo(t, where)) <= LastTile
<1> DEFINE a == PlayerActions!Abs(t.at, where)
           n == IF a <= 1 THEN 0 ELSE a - 1
<1>1. n \in Nat /\ n <= LastTile
  BY AbsIs, ActionsConstants
<1>2. PlayerActions!PathTo(t, where) = [i \in 1..n |-> IF t.at < where THEN "east" ELSE "west"]
  BY DEF PlayerActions!PathTo
<1> HIDE DEF n
<1> DEFINE h == IF t.at < where THEN "east" ELSE "west"
           f == [i \in 1..n |-> h]
<1>a. h \in Directions
  BY DEF Directions
<1> HIDE DEF h
<1>b. f \in [1..n -> Directions] /\ DOMAIN f = 1..n
  BY <1>a
<1> HIDE DEF f
<1>c. f \in Seq(Directions)
  BY <1>1, <1>b, SeqDef
<1>3. f \in Seq(Directions) /\ Len(f) = n
  BY <1>1, <1>b, <1>c
<1> QED BY <1>1, <1>2, <1>3 DEF f, h


-----------------------------------------------------------------------------
(* The handlers of commands                                                  *)

LEMMA ActionsUse ==
  ASSUME NEW t, Good(t),
         NEW u, u = [PlayerActions!ClearNextAction(t) EXCEPT !.busy = TRUE]
  PROVE  Good(u)
<1> DEFINE v == PlayerActions!ClearNextAction(t)
<1>1. Good(v)
  BY ActionsClear
<1>2. u = [v EXCEPT !.busy = TRUE]
  OBVIOUS
<1> HIDE DEF v
<1>3. u \in ActionsState /\ Aside(u, v) /\ u.path = v.path /\ u.walking = v.walking /\ u.left = v.left
  BY <1>1, <1>2 DEF Good, Sound, ActionsState, Aside
<1>4. Sound(v) /\ HasWalk(v) /\ Len(u.path) <= LastTile
  BY <1>1, <1>3 DEF Good, Sound
<1>5. Sound(u) /\ HasWalk(u)
  BY <1>3, <1>4, AsideKeeps
<1> QED BY <1>5 DEF Good

LEMMA ActionsUseItem ==
  ASSUME NEW t, Good(t), NEW c \in PlayerActions!Command, New(t, c),
         NEW u \in PlayerActions!PlayerUseItem(t, c)
  PROVE  Good(u)
<1>1. c \in Slot
  BY DEF Slot, PlayerActions!Task
<1>2. CASE u = t
  BY <1>2
<1>3. CASE ~ PlayerActions!InReach(t, c.from) /\ u \in PlayerActions!Approach(t, c, c.from)
  BY <1>3, ActionsApproach
<1>4. CASE u = PlayerActions!SetNextActionTask(t, c)
  BY <1>1, <1>4, ActionsNext
<1>5. CASE u \in PlayerActions!UseItem(PlayerActions!ClearNextAction(t))
  BY <1>5, ActionsUse DEF PlayerActions!UseItem
<1> QED BY <1>2, <1>3, <1>4, <1>5 DEF PlayerActions!PlayerUseItem

(* The way to a place that is too far from what was picked up.               *)
LEMMA ActionsTakeAlong ==
  ASSUME NEW t, Good(t), NEW c \in PlayerActions!Command, New(t, c),
         c.what \in {"useEx", "useWith", "hang"}, NEW to, ~ PlayerActions!InReach(t, to),
         NEW x \in PlayerActions!PickUp(t, c),
         NEW u \in PlayerActions!Approach(x[1], x[2], to)
  PROVE  Good(u)
<1>1. /\ Good(x[1]) /\ New(x[1], x[2]) /\ x[2] \in PlayerActions!Command
      /\ x[1].at = t.at
  BY ActionsPickUp
<1>2. ~ PlayerActions!InReach(x[1], to)
  BY <1>1 DEF PlayerActions!InReach
<1> QED BY <1>1, <1>2, ActionsApproach

LEMMA ActionsUseWith ==
  ASSUME NEW t, Good(t), NEW c \in PlayerActions!Command, New(t, c),
         c.what \in {"useEx", "useWith"}, NEW to,
         NEW u \in PlayerActions!UseWith(t, c, to)
  PROVE  Good(u)
<1>1. c \in Slot
  BY DEF Slot, PlayerActions!Task
<1>2. CASE u = t
  BY <1>2
<1>3. CASE ~ PlayerActions!InReach(t, c.from) /\ u \in PlayerActions!Approach(t, c, c.from)
  BY <1>3, ActionsApproach
<1>4. CASE u = PlayerActions!SetNextActionTask(t, c)
  BY <1>1, <1>4, ActionsNext
<1>5. CASE u \in PlayerActions!UseItemEx(PlayerActions!ClearNextAction(t))
  BY <1>5, ActionsUse DEF PlayerActions!UseItemEx
<1>6. CASE ~ PlayerActions!InReach(t, to) /\ u \in PlayerActions!Approach(t, c, to)
  BY <1>6, ActionsApproach
<1>7. CASE /\ ~ PlayerActions!InReach(t, to)
           /\ \E x \in PlayerActions!PickUp(t, c) : u \in PlayerActions!Approach(x[1], x[2], to)
  BY <1>7, ActionsTakeAlong
<1> QED BY <1>2, <1>3, <1>4, <1>5, <1>6, <1>7 DEF PlayerActions!UseWith

LEMMA ActionsMoveItem ==
  ASSUME NEW t, Good(t), NEW c \in PlayerActions!Command, New(t, c),
         NEW u \in PlayerActions!PlayerMoveItem(t, c)
  PROVE  Good(u)
<1> DEFINE v == PlayerActions!ClearNextAction(t)
<1>1. c \in Slot
  BY DEF Slot, PlayerActions!Task
<1>2. Good(v) /\ New(v, c)
  BY ActionsClear
<1>3. c.to \in PlayerActions!Place
  BY DEF PlayerActions!Command, PlayerActions!Place
<1>4. \/ u = PlayerActions!SetNextActionTask(t, c)
      \/ u = v
      \/ ~ PlayerActions!InReach(v, c.from) /\ u \in PlayerActions!Approach(v, c, c.from)
      \/ /\ c.what = "hang" /\ ~ PlayerActions!InReach(v, c.to)
         /\ \/ \E x \in PlayerActions!PickUp(v, c) : u \in PlayerActions!Approach(x[1], x[2], c.to)
            \/ u \in PlayerActions!Approach(v, c, c.to)
      \/ u = [v EXCEPT !.thing = c.to]
  BY DEF PlayerActions!PlayerMoveItem
<1> HIDE DEF v
<1>5. CASE u = PlayerActions!SetNextActionTask(t, c)
  BY <1>1, <1>5, ActionsNext
<1>6. CASE u = v
  BY <1>2, <1>6
<1>7. CASE ~ PlayerActions!InReach(v, c.from) /\ u \in PlayerActions!Approach(v, c, c.from)
  BY <1>2, <1>7, ActionsApproach
<1>8. CASE /\ c.what = "hang" /\ ~ PlayerActions!InReach(v, c.to)
           /\ \E x \in PlayerActions!PickUp(v, c) : u \in PlayerActions!Approach(x[1], x[2], c.to)
  BY <1>2, <1>8, ActionsTakeAlong
<1>9. CASE ~ PlayerActions!InReach(v, c.to) /\ u \in PlayerActions!Approach(v, c, c.to)
  BY <1>2, <1>9, ActionsApproach
<1>10. CASE u = [v EXCEPT !.thing = c.to]
  BY <1>2, <1>3, <1>10, ActionsThing
<1> QED BY <1>4, <1>5, <1>6, <1>7, <1>8, <1>9, <1>10

LEMMA ActionsMoveCreature ==
  ASSUME NEW t, Good(t), NEW c \in PlayerActions!Command, New(t, c),
         NEW u \in PlayerActions!PlayerMoveCreature(t, c)
  PROVE  Good(u)
<1> DEFINE v == PlayerActions!ClearNextAction(t)
<1>1. c \in Slot
  BY DEF Slot, PlayerActions!Task
<1>2. Good(v) /\ New(v, c)
  BY ActionsClear
<1>3. c.to \in PlayerActions!Place
  BY DEF PlayerActions!Command, PlayerActions!Place
<1>4. \/ u = PlayerActions!SetNextActionTask(t, c)
      \/ u = v
      \/ ~ PlayerActions!InReach(v, c.from) /\ u \in PlayerActions!Approach(v, c, c.from)
      \/ u = [v EXCEPT !.thing = c.to]
  BY DEF PlayerActions!PlayerMoveCreature
<1> HIDE DEF v
<1>5. CASE u = PlayerActions!SetNextActionTask(t, c)
  BY <1>1, <1>5, ActionsNext
<1>6. CASE u = v
  BY <1>2, <1>6
<1>7. CASE ~ PlayerActions!InReach(v, c.from) /\ u \in PlayerActions!Approach(v, c, c.from)
  BY <1>2, <1>7, ActionsApproach
<1>8. CASE u = [v EXCEPT !.thing = c.to]
  BY <1>2, <1>3, <1>8, ActionsThing
<1> QED BY <1>4, <1>5, <1>6, <1>7, <1>8

LEMMA ActionsMoveThing ==
  ASSUME NEW t, Good(t), NEW c \in PlayerActions!Command, New(t, c),
         NEW u \in PlayerActions!PlayerMoveThing(t, c)
  PROVE  Good(u)
<1>1. c \in Slot
  BY DEF Slot, PlayerActions!Task
<1> QED BY <1>1, ActionsMoveItem, ActionsNext, ActionsMoveCreature DEF PlayerActions!PlayerMoveThing

LEMMA ActionsAttack ==
  ASSUME NEW t, Good(t), NEW u \in PlayerActions!CheckCreatureAttack(t)
  PROVE  Good(u)
<1>1. PlayerActions!Attack \in Slot /\ New(t, PlayerActions!Attack)
  BY TaskIs, ApartTask DEF Slot, New
<1> QED BY <1>1, ActionsNext DEF PlayerActions!CheckCreatureAttack

(* What a command or a swing leaves behind.                                  *)
LEMMA ActionsHandle ==
  ASSUME NEW t, Good(t), NEW c \in PlayerActions!Command \cup {PlayerActions!Attack}, New(t, c),
         NEW u \in PlayerActions!Handle(t, c)
  PROVE  Good(u)
<1>1. CASE c = PlayerActions!Attack
  <2>1. c.what = "attack"
    BY <1>1 DEF PlayerActions!Attack
  <2>2. PlayerActions!Handle(t, c) = PlayerActions!CheckCreatureAttack(t)
    BY <2>1 DEF PlayerActions!Handle
  <2> QED BY <2>2, ActionsAttack
<1>2. CASE c \in PlayerActions!Command
  <2>1. c.what \in PlayerActions!What
    BY <1>2 DEF PlayerActions!Command
  <2>2. CASE c.what = "use"
    BY <1>2, <2>2, ActionsUseItem DEF PlayerActions!Handle
  <2>3. CASE c.what = "useEx"
    <3>1. u \in PlayerActions!UseWith(t, c, c.to)
      BY <2>3 DEF PlayerActions!Handle, PlayerActions!PlayerUseItemEx
    <3> QED BY <1>2, <2>3, <3>1, ActionsUseWith
  <2>4. CASE c.what = "useWith"
    <3>1. u = t \/ \E to \in PlayerActions!Tile : u \in PlayerActions!UseWith(t, c, to)
      BY <2>4 DEF PlayerActions!Handle, PlayerActions!PlayerUseWithCreature
    <3> QED BY <1>2, <2>4, <3>1, ActionsUseWith
  <2>5. CASE c.what \in {"move", "hang"}
    BY <1>2, <2>5, ActionsMoveItem DEF PlayerActions!Handle
  <2>6. CASE c.what = "push"
    BY <1>2, <2>6, ActionsMoveCreature DEF PlayerActions!Handle
  <2>7. CASE c.what \in {"rotate", "wrap", "browse"}
    <3>1. \/ u = t
          \/ ~ PlayerActions!InReach(t, c.from) /\ u \in PlayerActions!Approach(t, c, c.from)
      BY <2>7 DEF PlayerActions!Handle, PlayerActions!PlayerRotateItem,
                  PlayerActions!PlayerWrapItem, PlayerActions!PlayerBrowseField
    <3> QED BY <1>2, <3>1, ActionsApproach
  <2> QED BY <2>1, <2>2, <2>3, <2>4, <2>5, <2>6, <2>7 DEF PlayerActions!What
<1> QED BY <1>1, <1>2

LEMMA ActionsHandleWalk ==
  ASSUME NEW t, Sound(t), NEW where \in PlayerActions!Tile,
         NEW u \in PlayerActions!Handle(t, PlayerActions!WalkTo(where))
  PROVE  Good(u)
<1> DEFINE c == PlayerActions!WalkTo(where)
<1>1. c.what = "walk" /\ c.to = where
  BY DEF PlayerActions!WalkTo
<1>2. PlayerActions!Handle(t, c) = PlayerActions!StartAutoWalk(t, PlayerActions!PathTo(t, c.to))
  BY <1>1 DEF PlayerActions!Handle
<1>3. t.at \in PlayerActions!Tile
  BY DEF Sound, ActionsState
<1> QED BY <1>1, <1>2, <1>3, ActionsPathTo, ActionsStartAutoWalk


-----------------------------------------------------------------------------
LEMMA ActionsBecomes ==
  ASSUME NEW t, Good(t), PlayerActions!Becomes(t) PROVE ActionsInv'
BY DEF PlayerActions!Becomes, ActionsInv

LEMMA ActionsGiveCommand ==
  ASSUME ActionsInv, NEW c, PlayerActions!GiveCommand(c) PROVE ActionsInv'
<1>1. Good(s) /\ s \in ActionsState
  BY DEF ActionsInv, Good, Sound
<1>2. c \in PlayerActions!Command /\ c.id \notin {w.id : w \in PlayerActions!Waiting}
  BY DEF PlayerActions!GiveCommand
<1>3. \A w \in PlayerActions!Waiting : Apart(c, w)
  BY <1>2 DEF Apart
<1>4. New(s, c)
  <2>1. ASSUME NEW w, w \in {s.walkTask, s.walkTaskEvent, s.actionTaskEvent}
                            \/ \E k \in DOMAIN s.queue : w = s.queue[k]
        PROVE  Apart(c, w)
    BY <1>3, <2>1, ApartNone DEF PlayerActions!Waiting, PlayerActions!Events
  <2> QED BY <2>1 DEF New
<1>5. PICK t : /\ PlayerActions!Becomes(t)
               /\ t \in PlayerActions!PlayerMoveThing(s, c) \/ t \in PlayerActions!Handle(s, c)
  BY DEF PlayerActions!GiveCommand
<1>6. Good(t)
  BY <1>1, <1>2, <1>4, <1>5, ActionsMoveThing, ActionsHandle
<1> QED BY <1>5, <1>6, ActionsBecomes

LEMMA ActionsPlayerMove ==
  ASSUME ActionsInv, NEW dir \in Directions, PlayerActions!PlayerMove(dir) PROVE ActionsInv'
<1> DEFINE v == PlayerActions!SetNextWalkActionTask(s, none)
<1>1. Good(s) /\ Sound(s)
  BY DEF ActionsInv, Good
<1>2. New(s, none)
  BY ApartNone DEF New
<1>3. Sound(v)
  BY <1>1, <1>2, ActionsNextWalk
<1>4. <<dir>> \in Seq(Directions) /\ Len(<<dir>>) <= LastTile
  BY ActionsConstants
<1>5. PICK t : PlayerActions!Becomes(t)
               /\ (t = s \/ t \in PlayerActions!StartAutoWalk(v, <<dir>>))
  BY DEF PlayerActions!PlayerMove
<1> HIDE DEF v
<1>6. Good(t)
  BY <1>1, <1>3, <1>4, <1>5, ActionsStartAutoWalk
<1> QED BY <1>5, <1>6, ActionsBecomes

LEMMA ActionsPlayerAutoWalk ==
  ASSUME ActionsInv, NEW to \in PlayerActions!Tile, PlayerActions!PlayerAutoWalk(to)
  PROVE  ActionsInv'
<1>1. Sound(s) /\ s.at \in PlayerActions!Tile
  BY DEF ActionsInv, Good, Sound, ActionsState
<1>2. PICK t \in PlayerActions!StartAutoWalk(s, PlayerActions!PathTo(s, to)) : PlayerActions!Becomes(t)
  BY DEF PlayerActions!PlayerAutoWalk
<1>3. Good(t)
  BY <1>1, <1>2, ActionsPathTo, ActionsStartAutoWalk
<1> QED BY <1>2, <1>3, ActionsBecomes

LEMMA ActionsPlayerStop ==
  ASSUME ActionsInv, PlayerActions!PlayerStopAutoWalk PROVE ActionsInv'
<1> DEFINE u == [s EXCEPT !.cancelNextWalk = TRUE]
<1>1. Good(s) /\ Sound(s) /\ HasWalk(s) /\ s \in ActionsState
  BY DEF ActionsInv, Good, Sound
<1>2. /\ u \in ActionsState /\ Aside(u, s) /\ u.path = s.path /\ u.walking = s.walking
      /\ u.left = s.left
  BY <1>1 DEF ActionsState, Aside
<1>3. PlayerActions!Becomes(u)
  BY DEF PlayerActions!PlayerStopAutoWalk
<1> HIDE DEF u
<1>4. Len(u.path) <= LastTile
  BY <1>1, <1>2 DEF Sound
<1>5. Good(u)
  BY <1>1, <1>2, <1>4, AsideKeeps DEF Good
<1> QED BY <1>3, <1>5, ActionsBecomes

LEMMA ActionsSetAttacked ==
  ASSUME ActionsInv, PlayerActions!PlayerSetAttackedCreature PROVE ActionsInv'
<1> DEFINE u == [s EXCEPT !.queue = Append(s.queue, PlayerActions!Attack)]
<1>1. Good(s) /\ Sound(s) /\ HasWalk(s)
  BY DEF ActionsInv, Good
<1>2. PlayerActions!Attack \in PlayerActions!Task /\ New(s, PlayerActions!Attack)
  BY TaskIs, ApartTask DEF New
<1>3. PlayerActions!Becomes(u)
  BY DEF PlayerActions!PlayerSetAttackedCreature
<1>4. Sound(u) /\ HasWalk(u)
  BY <1>1, <1>2, ActionsAppend
<1> QED BY <1>3, <1>4, ActionsBecomes DEF Good

LEMMA ActionsOnAttacking ==
  ASSUME ActionsInv, PlayerActions!OnAttacking PROVE ActionsInv'
BY ActionsAttack, ActionsBecomes DEF ActionsInv, PlayerActions!OnAttacking

LEMMA ActionsExpire ==
  ASSUME ActionsInv, NEW event \in {"walkTaskEvent", "actionTaskEvent"},
         PlayerActions!Expire(event)
  PROVE  ActionsInv'
<1> DEFINE v == [s EXCEPT ![event] = none]
           x == s[event]
           u == [v EXCEPT !.queue = Append(v.queue, x)]
<1>1. Sound(s) /\ HasWalk(s) /\ s \in ActionsState
  BY DEF ActionsInv, Good, Sound
<1>2. x # none
  BY DEF PlayerActions!Expire
<1>3. PlayerActions!Becomes([s EXCEPT ![event] = none, !.queue = Append(@, x)])
  BY DEF PlayerActions!Expire
<1>4. CASE event = "walkTaskEvent"
  <2>1. /\ v \in ActionsState /\ v.walkTaskEvent = none /\ v.walkTask = s.walkTask
        /\ v.actionTaskEvent = s.actionTaskEvent /\ v.queue = s.queue /\ v.path = s.path
        /\ v.walking = s.walking /\ v.left = s.left /\ x = s.walkTaskEvent
        /\ x \in PlayerActions!Task
    BY <1>1, <1>2, <1>4 DEF ActionsState, Slot
  <2>2. [s EXCEPT ![event] = none, !.queue = Append(@, x)] = u
    BY <1>1, <1>4 DEF ActionsState
  <2> HIDE DEF v, x
  <2>3. Sound(v) /\ New(v, x) /\ HasWalk(v)
    BY <1>1, <2>1, ApartNone, ApartSym DEF Sound, Once, New, HasWalk
  <2>4. Good(u)
    BY <2>1, <2>3, ActionsAppend DEF Good
  <2> QED BY <1>3, <2>2, <2>4, ActionsBecomes
<1>5. CASE event = "actionTaskEvent"
  <2>1. /\ v \in ActionsState /\ v.actionTaskEvent = none /\ v.walkTask = s.walkTask
        /\ v.walkTaskEvent = s.walkTaskEvent /\ v.queue = s.queue /\ v.path = s.path
        /\ v.walking = s.walking /\ v.left = s.left /\ x = s.actionTaskEvent
        /\ x \in PlayerActions!Task
    BY <1>1, <1>2, <1>5 DEF ActionsState, Slot
  <2>2. [s EXCEPT ![event] = none, !.queue = Append(@, x)] = u
    BY <1>1, <1>5 DEF ActionsState
  <2> HIDE DEF v, x
  <2>3. Sound(v) /\ New(v, x) /\ HasWalk(v)
    BY <1>1, <2>1, ApartNone, ApartSym DEF Sound, Once, New, HasWalk
  <2>4. Good(u)
    BY <2>1, <2>3, ActionsAppend DEF Good
  <2> QED BY <1>3, <2>2, <2>4, ActionsBecomes
<1> QED BY <1>4, <1>5

(* The task at the head of the queue is run, and waits no more.              *)
LEMMA ActionsDequeue ==
  ASSUME NEW t, Good(t), t.queue # <<>>, NEW u, u = [t EXCEPT !.queue = Tail(t.queue)]
  PROVE  /\ Sound(u) /\ New(u, Head(t.queue)) /\ Head(t.queue) \in PlayerActions!Task
         /\ Head(t.queue).what # "walk" => HasWalk(u)
<1> DEFINE q == Tail(t.queue)
           x == Head(t.queue)
<1>1. t \in ActionsState /\ t.queue \in Seq(PlayerActions!Task) /\ Sound(t) /\ HasWalk(t)
  BY DEF Good, Sound, ActionsState
<1>2. /\ q \in Seq(PlayerActions!Task) /\ DOMAIN q = 1..(Len(t.queue) - 1)
      /\ DOMAIN t.queue = 1..Len(t.queue) /\ Len(t.queue) \in Nat \ {0}
      /\ \A k \in DOMAIN q : q[k] = t.queue[k + 1]
      /\ x = t.queue[1] /\ x \in PlayerActions!Task
  BY <1>1
<1>3. \A k \in DOMAIN q : k + 1 \in DOMAIN t.queue /\ 1 # k + 1
  BY <1>2
<1>4. \A j, k \in DOMAIN q : j # k => j + 1 # k + 1
  BY <1>2
<1>5. \A i \in DOMAIN t.queue : i # 1 => i - 1 \in DOMAIN q /\ (i - 1) + 1 = i
  BY <1>2
<1>6. 1 \in DOMAIN t.queue
  BY <1>2
<1>7. u = [t EXCEPT !.queue = q]
  OBVIOUS
<1> HIDE DEF q, x
<1>8. /\ u \in ActionsState /\ u.queue = q /\ u.walkTask = t.walkTask
      /\ u.walkTaskEvent = t.walkTaskEvent /\ u.actionTaskEvent = t.actionTaskEvent
      /\ u.path = t.path /\ u.walking = t.walking /\ u.left = t.left
  BY <1>1, <1>2, <1>7 DEF ActionsState
<1>9. \A k \in DOMAIN q : /\ Apart(t.walkTask, q[k]) /\ Apart(t.walkTaskEvent, q[k])
                          /\ Apart(t.actionTaskEvent, q[k]) /\ Apart(x, q[k])
  BY <1>1, <1>2, <1>3, <1>6 DEF Sound, Once
<1>10. \A j, k \in DOMAIN q : j # k => Apart(q[j], q[k])
  BY <1>1, <1>2, <1>3, <1>4 DEF Sound, Once
<1>11. Apart(x, t.walkTask) /\ Apart(x, t.walkTaskEvent) /\ Apart(x, t.actionTaskEvent)
  BY <1>1, <1>2, <1>6, ApartSym DEF Sound, Once
<1>12. Sound(u) /\ New(u, x)
  BY <1>1, <1>8, <1>9, <1>10, <1>11 DEF Sound, Once, New
<1>13. ASSUME x.what # "walk" PROVE HasWalk(u)
  <2>1. ASSUME NEW i \in DOMAIN t.queue, t.queue[i].what = "walk"
        PROVE  \E k \in DOMAIN q : q[k].what = "walk"
    <3>1. i # 1
      BY <1>2, <1>13, <2>1
    <3> QED BY <1>2, <1>5, <2>1, <3>1
  <2> QED BY <1>1, <1>8, <2>1 DEF HasWalk
<1> QED BY <1>2, <1>12, <1>13 DEF x

LEMMA ActionsRunTask ==
  ASSUME ActionsInv, PlayerActions!RunTask PROVE ActionsInv'
<1> DEFINE u == [s EXCEPT !.queue = Tail(s.queue)]
           x == Head(s.queue)
<1>1. Good(s)
  BY DEF ActionsInv
<1>2. s.queue # <<>>
  BY DEF PlayerActions!RunTask
<1>3. PICK t \in PlayerActions!Handle(u, x) : PlayerActions!Becomes(t)
  BY DEF PlayerActions!RunTask
<1>4. /\ Sound(u) /\ New(u, x) /\ x \in PlayerActions!Task
      /\ x.what # "walk" => HasWalk(u)
  BY <1>1, <1>2, ActionsDequeue
<1> HIDE DEF u, x
<1>5. CASE x \in PlayerActions!Command \cup {PlayerActions!Attack}
  <2>1. x.what # "walk"
    BY <1>5 DEF PlayerActions!Command, PlayerActions!Attack, PlayerActions!What
  <2>2. Good(t)
    BY <1>3, <1>4, <1>5, <2>1, ActionsHandle DEF Good
  <2> QED BY <1>3, <2>2, ActionsBecomes
<1>6. CASE x \notin PlayerActions!Command \cup {PlayerActions!Attack}
  <2>1. PICK where \in PlayerActions!Tile : x = PlayerActions!WalkTo(where)
    BY <1>4, <1>6 DEF PlayerActions!Task
  <2>2. Good(t)
    BY <1>3, <1>4, <2>1, ActionsHandleWalk
  <2> QED BY <1>3, <2>2, ActionsBecomes
<1> QED BY <1>5, <1>6


(* One step of the path, taken or blocked.                                   *)
LEMMA ActionsTakeStep ==
  ASSUME NEW t, Good(t), t.path # <<>>, NEW u \in PlayerActions!TakeStep(t)
  PROVE  Good(u) /\ u.walking = t.walking
<1> DEFINE c == PlayerActions!ClearNextAction(t)
           h == Tail(c.path)
<1>1. /\ Good(c) /\ Sound(c) /\ HasWalk(c) /\ c \in ActionsState
      /\ c.path = t.path /\ c.walking = t.walking
  <2>1. Good(c)
    BY ActionsClear
  <2>2. t \in ActionsState
    BY DEF Good, Sound
  <2>3. c = [t EXCEPT !.actionTaskEvent = none]
    BY <2>2 DEF PlayerActions!ClearNextAction, PlayerActions!SetNextActionTask,
                PlayerActions!StopEvent, ActionsState
  <2>4. c.path = t.path /\ c.walking = t.walking
    BY <2>2, <2>3 DEF ActionsState
  <2> QED BY <2>1, <2>4 DEF Good, Sound
<1>2. t.at \in PlayerActions!Tile
  BY DEF Good, Sound, ActionsState
<1>3. PICK p \in PlayerActions!Tile : u = [c EXCEPT !.path = h, !.busy = TRUE, !.at = p]
  BY <1>2 DEF PlayerActions!TakeStep
<1>4. h \in Seq(Directions) /\ Len(h) <= LastTile
  <2>1. c.path \in Seq(Directions) /\ c.path # <<>> /\ Len(c.path) <= LastTile
    BY <1>1 DEF Sound, ActionsState
  <2>2. Tail(c.path) \in Seq(Directions) /\ Len(Tail(c.path)) = Len(c.path) - 1
    BY <2>1
  <2> QED BY <2>1, <2>2, ActionsConstants DEF PlayerActions!PlayerActionsAssumption
<1> HIDE DEF c, h
<1> DEFINE v == [c EXCEPT !.path = h]
           w == [v EXCEPT !.busy = TRUE]
<1>5. /\ v \in ActionsState /\ Aside(v, c) /\ v.path = h /\ v.walking = c.walking /\ v.left = c.left
  BY <1>1, <1>4 DEF ActionsState, Aside
<1>6. u = [w EXCEPT !.at = p]
  BY <1>3
<1> HIDE DEF v
<1>7. /\ w \in ActionsState /\ Aside(w, v) /\ w.path = h /\ w.walking = v.walking /\ w.left = v.left
  BY <1>5 DEF ActionsState, Aside
<1> HIDE DEF w
<1>8. /\ u \in ActionsState /\ Aside(u, w) /\ u.path = h /\ u.walking = w.walking /\ u.left = w.left
  BY <1>6, <1>7 DEF ActionsState, Aside
<1>9. Aside(u, c)
  BY <1>5, <1>7, <1>8 DEF Aside
<1>10. Sound(u) /\ HasWalk(u)
  BY <1>1, <1>4, <1>5, <1>7, <1>8, <1>9, AsideKeeps
<1> QED BY <1>1, <1>5, <1>7, <1>8, <1>10 DEF Good

(* onWalkComplete: the command that waited for the walk gets its event.      *)
LEMMA ActionsWalkComplete ==
  ASSUME NEW t, Good(t), NEW f, f = [t EXCEPT !.walking = FALSE],
         NEW u, u = PlayerActions!OnWalkComplete(f)
  PROVE  Good(u)
<1>1. t \in ActionsState /\ Sound(t) /\ Once(t)
  BY DEF Good, Sound
<1>2. /\ f \in ActionsState /\ Aside(f, t) /\ f.path = t.path /\ f.forgotten = {}
  BY <1>1 DEF ActionsState, Aside
<1>3. Sound(f) /\ Len(f.path) <= LastTile
  BY <1>1, <1>2, AsideKeeps DEF Sound
<1>4. CASE f.walkTask = none
  BY <1>3, <1>4 DEF PlayerActions!OnWalkComplete, Good, HasWalk
<1>5. CASE f.walkTask # none
  <2>1. f.walkTaskEvent = none
    BY <1>3, <1>5 DEF Sound
  <2> DEFINE x == f.walkTask
             g == PlayerActions!Forget(f, "walkTaskEvent")
             v == [g EXCEPT !.walkTaskEvent = x]
  <2>2. x \in Slot
    BY <1>2 DEF ActionsState, Slot, PlayerActions!Task
  <2>3. u = [v EXCEPT !.walkTask = none]
    BY <1>5 DEF PlayerActions!OnWalkComplete
  <2>4. /\ g \in ActionsState /\ Aside(g, f) /\ g.path = f.path
    <3>1. g = [f EXCEPT !.forgotten = {}, !.walkTaskEvent = none]
      BY <1>2, <2>1 DEF PlayerActions!Forget, ActionsState
    <3> HIDE DEF g
    <3> QED BY <1>2, <2>1, <3>1 DEF ActionsState, Aside, Slot
  <2> HIDE DEF g, x
  <2>5. /\ v \in ActionsState /\ v.walkTaskEvent = x /\ v.actionTaskEvent = f.actionTaskEvent
        /\ v.queue = f.queue /\ v.path = f.path
    BY <2>2, <2>4 DEF ActionsState, Aside
  <2> HIDE DEF v
  <2>6. /\ u \in ActionsState /\ u.walkTask = none /\ u.walkTaskEvent = x
        /\ u.actionTaskEvent = f.actionTaskEvent /\ u.queue = f.queue /\ u.path = f.path
    BY <2>3, <2>5 DEF ActionsState
  <2>7. Once(u)
    BY <1>3, <2>6, ApartNone DEF x, Sound, Once
  <2> QED BY <1>3, <2>6, <2>7 DEF Good, Sound, HasWalk
<1> QED BY <1>4, <1>5

(* onWalkAborted, after which no command waits for a walk.                   *)
LEMMA ActionsAborted ==
  ASSUME NEW t, Good(t),
         NEW u, u = [PlayerActions!OnWalkAborted(t) EXCEPT !.path = <<>>, !.cancelNextWalk = FALSE]
  PROVE  Good(u)
<1> DEFINE v == PlayerActions!OnWalkAborted(t)
           w == [v EXCEPT !.path = <<>>]
<1>1. New(t, none)
  BY ApartNone DEF New
<1>2. Sound(v) /\ v.walkTask = none /\ v \in ActionsState
  BY <1>1, ActionsNextWalk DEF PlayerActions!OnWalkAborted, Good, Sound
<1>3. u = [w EXCEPT !.cancelNextWalk = FALSE]
  OBVIOUS
<1>4. <<>> \in Seq(Directions) /\ Len(<<>>) <= LastTile
  BY ActionsConstants
<1> HIDE DEF v
<1>5. w \in ActionsState /\ Aside(w, v) /\ w.path = <<>>
  BY <1>2, <1>4 DEF ActionsState, Aside
<1> HIDE DEF w
<1>6. u \in ActionsState /\ Aside(u, w) /\ u.path = <<>>
  BY <1>3, <1>5 DEF ActionsState, Aside
<1>7. Aside(u, v) /\ Len(u.path) <= LastTile
  BY <1>4, <1>5, <1>6 DEF Aside
<1>8. Sound(u)
  BY <1>2, <1>6, <1>7, AsideKeeps
<1> QED BY <1>2, <1>7, <1>8 DEF Good, HasWalk, Aside

LEMMA ActionsOnWalk == ASSUME ActionsInv, PlayerActions!OnWalk PROVE ActionsInv'
<1>1. Good(s)
  BY DEF ActionsInv
<1> DEFINE f == [s EXCEPT !.walking = FALSE]
<1>2. PICK t : /\ IF s.path # <<>> THEN t \in PlayerActions!TakeStep(s)
                  ELSE t = PlayerActions!OnWalkComplete(f)
               /\ PlayerActions!Becomes(
                    IF t.cancelNextWalk
                    THEN [PlayerActions!OnWalkAborted(t) EXCEPT !.path = <<>>, !.cancelNextWalk = FALSE]
                    ELSE t)
  BY DEF PlayerActions!OnWalk
<1>3. Good(t)
  BY <1>1, <1>2, ActionsTakeStep, ActionsWalkComplete
<1> DEFINE u == [PlayerActions!OnWalkAborted(t) EXCEPT !.path = <<>>, !.cancelNextWalk = FALSE]
<1>4. PlayerActions!Becomes(IF t.cancelNextWalk THEN u ELSE t)
  BY <1>2
<1>5. Good(u)
  BY <1>3, ActionsAborted
<1> HIDE DEF u
<1>6. CASE t.cancelNextWalk
  BY <1>4, <1>5, <1>6, ActionsBecomes
<1>7. CASE ~ t.cancelNextWalk
  BY <1>3, <1>4, <1>7, ActionsBecomes
<1> QED BY <1>6, <1>7

LEMMA ActionsNextPasses == ASSUME ActionsInv, PlayerActions!NextActionPasses PROVE ActionsInv'
<1>1. PICK b \in BOOLEAN : b = FALSE
  OBVIOUS
<1>2. PlayerActions!Becomes([s EXCEPT !.busy = b])
  BY <1>1 DEF PlayerActions!NextActionPasses
<1>3. Good([s EXCEPT !.busy = b])
  BY ActionsBusy DEF ActionsInv
<1> QED BY <1>2, <1>3, ActionsBecomes

LEMMA ActionsOthers == ASSUME ActionsInv, PlayerActions!Others PROVE ActionsInv'
<1>1. Good(s) /\ Sound(s) /\ s \in ActionsState
  BY DEF ActionsInv, Good, Sound
<1>2. ASSUME NEW p \in PlayerActions!Place, PlayerActions!Becomes([s EXCEPT !.thing = p])
      PROVE  ActionsInv'
  <2>1. Good([s EXCEPT !.thing = p])
    BY <1>1, ActionsThing
  <2> QED BY <1>2, <2>1, ActionsBecomes
<1>3. ASSUME NEW p \in PlayerActions!Tile,
             PlayerActions!Becomes([s EXCEPT !.at = p, !.walking = FALSE, !.left = s.walkTask # none])
      PROVE  ActionsInv'
  <2> DEFINE l == s.walkTask # none
             v == [s EXCEPT !.at = p]
             w == [v EXCEPT !.walking = FALSE]
             u == [w EXCEPT !.left = l]
  <2>1. PlayerActions!Becomes(u)
    BY <1>3
  <2>2. l \in BOOLEAN /\ (l <=> s.walkTask # none)
    OBVIOUS
  <2> HIDE DEF l
  <2>3. v \in ActionsState /\ Aside(v, s) /\ v.path = s.path
    BY <1>1 DEF ActionsState, Aside
  <2> HIDE DEF v
  <2>4. w \in ActionsState /\ Aside(w, v) /\ w.path = s.path
    BY <2>3 DEF ActionsState, Aside
  <2> HIDE DEF w
  <2>5. u \in ActionsState /\ Aside(u, w) /\ u.path = s.path /\ u.left = l
    BY <2>2, <2>4 DEF ActionsState, Aside
  <2> HIDE DEF u
  <2>6. Aside(u, s) /\ Len(u.path) <= LastTile
    BY <1>1, <2>3, <2>4, <2>5 DEF Aside, Sound
  <2>7. Sound(u)
    BY <1>1, <2>5, <2>6, AsideKeeps
  <2>8. Good(u)
    BY <2>2, <2>5, <2>6, <2>7 DEF Good, HasWalk, Aside
  <2> QED BY <2>1, <2>8, ActionsBecomes
<1> QED BY <1>2, <1>3 DEF PlayerActions!Others

LEMMA ActionsInit == PlayerActions!Init => ActionsInv
<1> SUFFICES ASSUME PlayerActions!Init PROVE ActionsInv
  OBVIOUS
<1>1. /\ 0 \in PlayerActions!Tile /\ LastTile \in PlayerActions!Place
      /\ <<>> \in Seq(Directions) /\ <<>> \in Seq(PlayerActions!Task)
  BY ActionsConstants DEF PlayerActions!Tile, PlayerActions!Place
<1>2. s \in ActionsState
  BY <1>1 DEF PlayerActions!Init, ActionsState, Slot
<1>3. /\ s.walkTask = none /\ s.walkTaskEvent = none /\ s.actionTaskEvent = none
      /\ s.queue = <<>> /\ s.path = <<>>
  BY DEF PlayerActions!Init
<1>4. Once(s)
  BY <1>3, ApartNone DEF Once
<1> QED BY <1>2, <1>3, <1>4, ActionsConstants DEF ActionsInv, Good, Sound, HasWalk

LEMMA ActionsStutter == ActionsInv /\ s' = s => ActionsInv'
BY DEF ActionsInv, Good, Sound, Once, HasWalk

LEMMA ActionsStep == ActionsInv /\ PlayerActions!Next => ActionsInv'
BY ActionsGiveCommand, ActionsPlayerMove, ActionsPlayerAutoWalk, ActionsPlayerStop,
   ActionsSetAttacked, ActionsOnAttacking, ActionsExpire, ActionsRunTask, ActionsOnWalk,
   ActionsNextPasses, ActionsOthers
DEF PlayerActions!Next, Directions

LEMMA ActionsHold ==
  ActionsInv => PlayerActions!TypeOK /\ PlayerActions!CommandsWaitOnce /\ PlayerActions!CommandsHaveAWalk
<1> SUFFICES ASSUME ActionsInv
             PROVE  /\ PlayerActions!TypeOK /\ PlayerActions!CommandsWaitOnce
                    /\ PlayerActions!CommandsHaveAWalk
  OBVIOUS
<1>1. s \in ActionsState /\ Once(s) /\ HasWalk(s) /\ s.queue \in Seq(PlayerActions!Task)
  BY DEF ActionsInv, Good, Sound, ActionsState
<1>2. PlayerActions!Waiting \subseteq PlayerActions!Task
  <2>1. \A k \in DOMAIN s.queue : s.queue[k] \in PlayerActions!Task
    BY <1>1
  <2>2. {s.walkTask, s.walkTaskEvent, s.actionTaskEvent} \subseteq PlayerActions!Task \cup {none}
        /\ s.forgotten = {}
    BY <1>1 DEF ActionsState, Slot, PlayerActions!Task
  <2> QED BY <2>1, <2>2 DEF PlayerActions!Waiting, PlayerActions!Events
<1>3. PlayerActions!TypeOK
  BY <1>1, <1>2 DEF PlayerActions!TypeOK, ActionsInv, Good, Sound, ActionsState
<1>4. PlayerActions!CommandsHaveAWalk
  BY <1>1 DEF PlayerActions!CommandsHaveAWalk, HasWalk
<1>5. PlayerActions!CommandsWaitOnce
  <2> DEFINE three == <<s.walkTask, s.walkTaskEvent, s.actionTaskEvent>>
             waits == three \o s.queue
  <2>1. /\ DOMAIN waits = 1..(3 + Len(s.queue)) /\ Len(s.queue) \in Nat
        /\ \A k \in DOMAIN waits : waits[k] = IF k <= 3 THEN three[k] ELSE s.queue[k - 3]
    BY <1>1
  <2>2. three[1] = s.walkTask /\ three[2] = s.walkTaskEvent /\ three[3] = s.actionTaskEvent
    OBVIOUS
  <2> HIDE DEF three, waits
  <2>3. \A k \in DOMAIN waits : k > 3 => k - 3 \in DOMAIN s.queue
    BY <1>1, <2>1
  <2>4. ASSUME NEW j \in DOMAIN waits, NEW k \in DOMAIN waits, j < k
        PROVE  Apart(waits[j], waits[k])
    <3>1. CASE k <= 3
      <4>1. (j = 1 /\ k = 2) \/ (j = 1 /\ k = 3) \/ (j = 2 /\ k = 3)
        BY <2>1, <2>4, <3>1
      <4> QED BY <1>1, <2>1, <2>2, <4>1 DEF Once
    <3>2. CASE k > 3 /\ j <= 3
      <4>1. j = 1 \/ j = 2 \/ j = 3
        BY <2>1, <3>2
      <4>2. waits[k] = s.queue[k - 3] /\ waits[j] = three[j] /\ k - 3 \in DOMAIN s.queue
        BY <2>1, <2>3, <3>2
      <4> QED BY <1>1, <2>2, <4>1, <4>2 DEF Once
    <3>3. CASE j > 3
      <4>1. /\ waits[k] = s.queue[k - 3] /\ waits[j] = s.queue[j - 3]
            /\ k - 3 \in DOMAIN s.queue /\ j - 3 \in DOMAIN s.queue /\ j - 3 # k - 3
        BY <2>1, <2>3, <2>4, <3>3
      <4> QED BY <1>1, <4>1 DEF Once
    <3> QED BY <2>1, <3>1, <3>2, <3>3
  <2>5. \A j, k \in DOMAIN waits : j # k => j < k \/ k < j
    BY <2>1
  <2>6. \A j, k \in DOMAIN waits : j # k => Apart(waits[j], waits[k])
    BY <2>4, <2>5, ApartSym
  <2>7. s.forgotten = {}
    BY <1>1 DEF ActionsState
  <2> QED BY <2>6, <2>7 DEF PlayerActions!CommandsWaitOnce, Apart, waits, three
<1> QED BY <1>3, <1>4, <1>5

(* Whatever a player asks for, walks, swings and is kept from meanwhile: no   *)
(* command waits in two places, the id of every event is kept, and a command  *)
(* that waits for a walk has one, unless the walk was lost (game.cpp,         *)
(* player.cpp, creature.cpp), for any row of tiles and number of commands.    *)
THEOREM CommandsWait ==
  PlayerActions!Spec => [](/\ PlayerActions!TypeOK /\ PlayerActions!CommandsWaitOnce
                           /\ PlayerActions!CommandsHaveAWalk)
<1>1. ActionsInv /\ [PlayerActions!Next]_(PlayerActions!vars) => ActionsInv'
  BY ActionsStep, ActionsStutter DEF PlayerActions!vars
<1> QED BY <1>1, ActionsInit, ActionsHold, PTL DEF PlayerActions!Spec

-----------------------------------------------------------------------------
(* A behaviour is about one component: its invariant is the invariant of all. *)
PlayersInv ==
  /\ part = "party" => PartyInv
  /\ part = "chat" => ChatInv
  /\ part = "houses" => HousesInv
  /\ part = "speed" => SpeedInv
  /\ part = "fight" => FightInv
  /\ part = "damage" => DamageInv
  /\ part = "playeractions" => ActionsInv
  /\ part = "containers" => ContainersInv
  /\ part = "buddies" => BuddiesInv
  /\ part = "scripts" => ScriptsInv
  /\ part = "raids" => RaidsInv
  /\ part = "globalevents" => EventsInv

LEMMA PlayersInit == Init => PlayersInv
<1> SUFFICES ASSUME Init PROVE PlayersInv
  OBVIOUS
<1>1. /\ part = "party" => Party!Init
      /\ part = "chat" => Chat!Init
      /\ part = "houses" => Houses!Init
      /\ part = "speed" => Speed!Init
      /\ part = "fight" => Fight!Init
      /\ part = "damage" => Damage!Init
      /\ part = "playeractions" => PlayerActions!Init
      /\ part = "containers" => Containers!Init
      /\ part = "buddies" => Buddies!Init
      /\ part = "scripts" => Scripts!Init
      /\ part = "raids" => Raids!Init
      /\ part = "globalevents" => GlobalEvents!Init
  BY DEF Init
<1> QED BY <1>1, PartyInit, ChatInit, HousesInit, SpeedInit, FightInit, DamageInit, ActionsInit,
           ContainersInit, BuddiesInit, ScriptsInit, RaidsInit, EventsInit DEF PlayersInv

(* What a step may never do, of whichever component it is a step. *)
StepNotTooFar == (part = "speed" => Speed!OutfitStep) /\ (part = "damage" => Damage!HitStep)

LEMMA PlayersStep == PlayersInv /\ Next => PlayersInv' /\ StepNotTooFar
<1> SUFFICES ASSUME PlayersInv, Next PROVE PlayersInv' /\ StepNotTooFar
  OBVIOUS
<1>1. part' = part
  BY DEF Next
<1>2. CASE part = "party"
  <2>1. PartyInv /\ Party!Next
    BY <1>2 DEF Next, PlayersInv
  <2> QED BY <1>1, <1>2, <2>1, PartyStep DEF PlayersInv, StepNotTooFar
<1>3. CASE part = "chat"
  <2>1. ChatInv /\ Chat!Next
    BY <1>3 DEF Next, PlayersInv
  <2> QED BY <1>1, <1>3, <2>1, ChatStep DEF PlayersInv, StepNotTooFar
<1>4. CASE part = "houses"
  <2>1. HousesInv /\ Houses!Next
    BY <1>4 DEF Next, PlayersInv
  <2> QED BY <1>1, <1>4, <2>1, HousesStep DEF PlayersInv, StepNotTooFar
<1>5. CASE part = "speed"
  <2>1. SpeedInv /\ Speed!Next
    BY <1>5 DEF Next, PlayersInv
  <2> QED BY <1>1, <1>5, <2>1, SpeedNext DEF PlayersInv, StepNotTooFar
<1>6. CASE part = "fight"
  <2>1. FightInv /\ Fight!Next
    BY <1>6 DEF Next, PlayersInv
  <2> QED BY <1>1, <1>6, <2>1, FightStep DEF PlayersInv, StepNotTooFar
<1>7. CASE part = "damage"
  <2>1. DamageInv /\ Damage!Next
    BY <1>7 DEF Next, PlayersInv
  <2> QED BY <1>1, <1>7, <2>1, DamageNext DEF PlayersInv, StepNotTooFar
<1>8. CASE part = "playeractions"
  <2>1. ActionsInv /\ PlayerActions!Next
    BY <1>8 DEF Next, PlayersInv
  <2> QED BY <1>1, <1>8, <2>1, ActionsStep DEF PlayersInv, StepNotTooFar
<1>9. CASE part = "containers"
  <2>1. ContainersInv /\ Containers!Next
    BY <1>9 DEF Next, PlayersInv
  <2> QED BY <1>1, <1>9, <2>1, ContainersStep DEF PlayersInv, StepNotTooFar
<1>10. CASE part = "buddies"
  <2>1. BuddiesInv /\ Buddies!Next
    BY <1>10 DEF Next, PlayersInv
  <2> QED BY <1>1, <1>10, <2>1, BuddiesStep DEF PlayersInv, StepNotTooFar
<1>11. CASE part = "scripts"
  <2>1. ScriptsInv /\ Scripts!Next
    BY <1>11 DEF Next, PlayersInv
  <2> QED BY <1>1, <1>11, <2>1, ScriptsStep DEF PlayersInv, StepNotTooFar
<1>12. CASE part = "raids"
  <2>1. RaidsInv /\ Raids!Next
    BY <1>12 DEF Next, PlayersInv
  <2> QED BY <1>1, <1>12, <2>1, RaidsStep DEF PlayersInv, StepNotTooFar
<1>13. CASE part = "globalevents"
  <2>1. EventsInv /\ GlobalEvents!Next
    BY <1>13 DEF Next, PlayersInv
  <2> QED BY <1>1, <1>13, <2>1, EventsStep DEF PlayersInv, StepNotTooFar
<1>14. \/ part = "party" \/ part = "chat" \/ part = "houses" \/ part = "speed"
       \/ part = "fight" \/ part = "damage" \/ part = "playeractions" \/ part = "containers"
       \/ part = "buddies" \/ part = "scripts" \/ part = "raids" \/ part = "globalevents"
  BY DEF Next
<1> QED BY <1>2, <1>3, <1>4, <1>5, <1>6, <1>7, <1>8, <1>9, <1>10, <1>11, <1>12, <1>13, <1>14

LEMMA PlayersStutter == PlayersInv /\ UNCHANGED vars => PlayersInv'
<1> SUFFICES ASSUME PlayersInv, UNCHANGED vars PROVE PlayersInv'
  OBVIOUS
<1>1. part' = part /\ s' = s
  BY DEF vars
<1> QED BY <1>1, PartyStutter, ChatStutter, HousesStutter, SpeedStutter, FightStutter,
           DamageStutter, ActionsStutter, ContainersStutter, BuddiesStutter, ScriptsStutter,
           RaidsStutter, EventsStutter DEF PlayersInv

(* Every player, party, channel, guild, house, spell, command, container,     *)
(* buddy, script, raid and event the steps write is of its type, whatever the *)
(* sets of all these and whatever the limits.                                 *)
THEOREM TypeCorrect == Spec => []TypeOK
<1>1. PlayersInv => TypeOK
  <2>1. ChatInv => Chat!TypeOK
    BY DEF ChatInv
  <2> QED BY <2>1, PartyHolds, HousesHold, SpeedHolds, FightHolds, DamageHolds, ActionsHold,
             ContainersHold, BuddiesHold, ScriptsHold, RaidsHold, EventsHold DEF PlayersInv, TypeOK
<1>2. PlayersInv /\ [Next]_vars => PlayersInv'
  BY PlayersStep, PlayersStutter
<1> QED BY <1>1, <1>2, PlayersInit, PTL DEF Spec

(* What a party, a channel, a guild, a house, a window, a list of buddies and *)
(* a timer of a script have written down on two sides agrees after every way  *)
(* in and out (party.cpp, chat.cpp, guild.cpp, house.cpp, player.cpp,         *)
(* game.cpp, luascript.cpp), for any sets of players, addresses, guilds,      *)
(* houses, containers and functions.                                          *)
THEOREM TiesAlwaysAgree == Spec => []TiesAgree
<1>1. PlayersInv => TiesAgree
  BY PartyHolds, ChatHolds, HousesHold, ContainersHold, BuddiesHold, ScriptsHold
     DEF PlayersInv, TiesAgree
<1>2. PlayersInv /\ [Next]_vars => PlayersInv'
  BY PlayersStep, PlayersStutter
<1> QED BY <1>1, <1>2, PlayersInit, PTL DEF Spec

(* Whoever deals damage is credited with all of it, in health and in mana,    *)
(* and with no more (game.cpp, creature.cpp), for any hits, armor and mana.   *)
THEOREM DamageIsCredited == Spec => []DamageCredited
<1>1. PlayersInv => DamageCredited
  BY DamageHolds DEF PlayersInv, DamageCredited
<1>2. PlayersInv /\ [Next]_vars => PlayersInv'
  BY PlayersStep, PlayersStutter
<1> QED BY <1>1, <1>2, PlayersInit, PTL DEF Spec

(* No fight, no death and no command stays begun: who is marked by a fight is *)
(* in it, who is left without health has a death to come, a command that      *)
(* waits for a walk has one, a raid and a think event have a timer            *)
(* (player.cpp, creature.cpp, game.cpp, raids.cpp, globalevent.cpp).          *)
THEOREM NothingStaysBegun == Spec => []NothingHangs
<1>1. PlayersInv => NothingHangs
  BY FightHolds, DamageHolds, ActionsHold, RaidsHold, EventsHold DEF PlayersInv, NothingHangs
<1>2. PlayersInv /\ [Next]_vars => PlayersInv'
  BY PlayersStep, PlayersStutter
<1> QED BY <1>1, <1>2, PlayersInit, PTL DEF Spec

(* Only disguises take speed away, or leave some; no hit of an element         *)
(* reaches the health of one whose mana shield has mana left, and none but a  *)
(* drain of mana gives its caster more than it takes, unless a script has     *)
(* turned it into healing (creature.cpp, game.cpp, combat.cpp).               *)
THEOREM NoStepGoesTooFar == Spec => NoStepTooFar
<1>1. PlayersInv /\ [Next]_vars
      => /\ PlayersInv'
         /\ [(part = "speed" => Speed!OutfitStep) /\ (part = "damage" => Damage!HitStep)]_vars
  BY PlayersStep, PlayersStutter DEF StepNotTooFar
<1> QED BY <1>1, PlayersInit, PTL DEF Spec, NoStepTooFar
=============================================================================
