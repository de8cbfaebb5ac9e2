# TLA+ verification of the game server

This directory holds formal models of the server in `src/src/` (The Forgotten Server with the
extensions of this fork), the TLC configurations that check them, and proofs for TLAPS. The models
are translated from the C++ code; where a comment or the documentation says something else, the code
is modelled and the difference is listed under [Findings](#findings).

    tlc -workers 2 -config MCDispatcher.cfg Dispatcher
    tlapm DispatcherProofs.tla

`PROJECT.json` lists the components, the runs, the source lines of every definition (`map`), the
hazards with the properties that cover them, and, for every checked property, a mutation of the
model that violates it (`mutants`).

## 1. Inventory

The server is one process with few threads:

| Thread | Code | What it does |
|---|---|---|
| dispatcher | `tasks.cpp` | owns the game world: every change to it is a task run here |
| scheduler | `scheduler.cpp` | an `io_context` with a timer for each delayed task; adds the task to the dispatcher when it expires |
| database | `databasetasks.cpp` | runs asynchronous queries; a callback becomes a dispatcher task |
| main / network | `otserv.cpp`, `server.cpp`, `connection.cpp` | loads the server, then runs the network `io_service`; a parsed packet becomes a dispatcher task |

A lock protects each queue between threads; the world itself has no lock and relies on being
touched by the dispatcher alone. Most of what is hard is therefore of one of two kinds: the
hand-over between threads (locks, notifications, shutdown), and *protocols of tasks*, in which a
handler finishes and its effects are picked up by a later task, when the world has changed.

| Component | State | Operations | Interacts with | What is hard | What makes it correct |
|---|---|---|---|---|---|
| Dispatcher (`tasks`) | `taskList`, `threadState`, lock and signal | `addTask`, `shutdown`, `stop`, `threadMain` | everybody | notification outside the lock and only when the list was empty; batches; closing | FIFO, no lost wake-up, accepted tasks are run before `main` returns |
| Server start and shutdown (`otserv`, `signals`, `Game::shutdown`) | game state, thread states | load, `setGameState`, `shutdown`, `join` | all threads | order of `stop`, `shutdown` and `join` over four threads | every `join` returns and nothing accepted is dropped |
| Database tasks | `tasks`, `threadState` | `addTask`, `flush`, `shutdown`, `runTask` | dispatcher | two threads empty one list and unlock while a query runs | each query runs once and by the end; the order is kept but for the query in hand |
| Scheduler | `eventIdTimerMap`, `lastEventId`, handler queue | `addEvent`, `stopEvent`, `shutdown` | dispatcher | `stopEvent` after the timer's completion was queued | a task object is deleted or run, once |
| Creature walking | `eventWalk`, `listWalkDir`, `cancelNextWalk`, `walkTask` | `addEventWalk`, `stopEventWalk`, `onWalk`, `startAutoWalk` | scheduler | a stopped event that runs all the same; nested handlers | `eventWalk` never names a dead event, walks end |
| Waiting list (`protocolgame.cpp`) | two lists of (timeout, GUID) | `clientLogin` | player count, clients | retries, time-outs, accounts that change list | the limit, one place each, no barging |
| Trade | `tradeState`, `tradePartner`, `tradeItem`, `tradeItems` | request, accept, close, item notifications | cylinders, walking, logout | items stay where they are while offered; the rest of the world may move them | partners paired, an item is offered once, an offer does not change, both items move or none |
| Cylinders | parents of items, containers, slots, tiles | `queryAdd`, `queryMaxCount`, `queryDestination`, `addThing`, `removeThing` | all moves | a query is about a state that its caller then changes | an item has one parent |
| Connections | socket, timers, `closed`, message queue | `accept`, `parsePacket`, `send`, `close`, timeouts | protocols, dispatcher | timeouts racing completions, release as a task on another thread | closed once, released once |
| Game sessions (`protocolgame.cpp`) | `player`, `acceptPackets`, `eventConnect` | `login`, `connect`, `logout`, `release` | connections, creatures | a second login of the same player, reconnect event | a player has one client; references are given back |
| Creature life cycle (`game.cpp`) | check lists, reference counts, `toRemove` | place, check, remove | dispatcher, all | creature removed while a list is iterated | no creature is used after release |
| Party, guilds and chat | members, invitations, leader, channels, buddies | invite, join, pass, leave, disband; open, invite, exclude; list and unlist | players, sessions | leader leaves or logs out; channels kept by address; ghosts | membership symmetric; empty parties end; nobody sits in a channel after leaving the game |
| Houses and beds | owner, access lists, sleepers, transfer items | buy, transfer, leave, rent, sleep, kick | trade, players | an owner changes while others sleep, edit and trade | lists, beds and documents agree with the owner |
| Stacks and windows (`game.cpp`, `tile.cpp`) | stacks, open containers, numbers of things | move, merge, split, exchange, pay; open, move up, close | moves, clients | the client's numbers are counted from what it was told | money is conserved; a window is of a container in reach |
| Decay | buckets of items with durations | `startDecay`, `checkDecay`, `cleanup` | items | an item moved or changed between buckets | an item is listed once, and each listing counts a reference |
| Spawns, monsters, NPCs, raids | spawn map, targets, customers, timers | spawn check, think, shop, raid | creatures, scheduler | creatures come and go while lists point to them | references counted; what has something to do is awake |
| Combat, conditions, spells | conditions, cooldowns, damage map, areas | hit, heal, add, execute, end, cast | creatures, scripts | several of one type at once; death is a later task; scripts answer in between | what is given is taken back; what is dealt is what was drawn; nobody is hurt where none may be |
| Delayed actions | `walkTask`, `walkTaskEvent`, `actionTaskEvent` | use, move, attack, walk | walking, scheduler | three places for one command | a command is given once |
| Map and tiles | quadtree, caches, stacks of things | place, move, remove, search | all | caches and neighbours of leaves | a search finds who is there |
| Database, persistence | connection, transaction lock; rows, items, attributes | query, transaction, save, load | database tasks, map | recursive lock held across a transaction; what is written only when something changed | commit or rollback; what is loaded is what was saved |
| Lua scripting and events | environments, references, timers, tables of handlers | call, `addEvent`, `stopEvent`, register, reload | all | scripts that call scripts; reloads from two sources | references given back once; a reload finds what is on disk |
| Configuration, tools, names | the tree of names | insert, remove, find | players | names that begin alike | a beginning finds its only name |
| Market (`iomarket.cpp`) | offers in the database | none reached: its packets are commented out in `ProtocolGame::parsePacket`, its expiry in `otserv.cpp:325` | database tasks | | |
| Status and login protocols, static tables, cryptography, data | | | | one request, one answer, or data | |

The hazards, each at its line and with the properties that would catch it, are in `PROJECT.json`;
a note says where the property that a reader might expect does not hold.

## 2. The modules

| Module | Models | Kind |
|---|---|---|
| `TaskQueue` | what `Dispatcher::addTask` promises: a FIFO queue | abstract specification |
| `Dispatcher` | `tasks.cpp`, with `main` and the ways the server ends | detailed specification, implements `TaskQueue` |
| `DispatcherProofs` | | theorems about `Dispatcher` |
| `DatabaseTasks` | `databasetasks.cpp`, with `saveGameState` and shutdown as its callers | specification |
| `DatabaseTasksProofs` | | theorems about `DatabaseTasks` |
| `CreatureWalk` | `scheduler.cpp` with its `io_context`, and the walk events of a player as its client | specification |
| `CreatureWalkProofs` | | theorems about `CreatureWalk` |
| `WaitList` | the waiting list in `protocolgame.cpp` | specification |
| `WaitListProofs` | | theorems about `WaitList` |
| `Trade` | the cylinder queries over a placement of items, and trading in `game.cpp` and `player.cpp` | specification |
| `TradeProofs` | | theorems about `Trade` |
| `Session` | `connection.cpp`: sockets and the network thread's handlers; on top of them, login to logout in `protocolgame.cpp`, with the life of a `Player` (`game.cpp`) | specification |
| `SessionProofs` | | theorems about `Session` |
| `Timers` | the scheduler as a client on the dispatcher thread sees it | operators, used by the modules with delayed tasks |
| `Party`, `Chat`, `Buddies` | `party.cpp`, `chat.cpp` with `guild.cpp`, the VIP lists, with their handlers in `game.cpp` and `player.cpp` | specifications |
| `Houses` | `house.cpp`, `housetile.cpp`, `bed.cpp` and the transfer by trade | specification |
| `Containers` | `openContainers` of `player.cpp` and its handlers | specification |
| `Stacks` | `internalMoveItem`, `internalAddItem`, `removeMoney`, `addMoney` over stacks | specification |
| `TileStack` | the things of one tile and the numbers clients know them by (`tile.cpp`) | specification |
| `Spectators` | quadtree leaves and spectator caches (`map.cpp`) | specification |
| `Names` | `wildcardtree.cpp` beside the map of players | specification |
| `Advance` | experience, levels, skills, magic level (`player.cpp`) | specification |
| `Transaction` | `DBTransaction`, `savePlayer` and the database lock | specification |
| `Belongings` | items and attributes saved and loaded: players, depots, houses (`iologindata.cpp`, `iomapserialize.cpp`, `item.cpp`) | specification |
| `Character` | outfits, mounts, reserved storage, the player's row, skulls between sessions | specification |
| `Monster` | targets, idleness, masters and references (`monster.cpp`, `creature.cpp`) | specification |
| `Npc` | shops, sale lists, presence (`npc.cpp`, `player.cpp`) | specification |
| `Spawn`, `Raids`, `GlobalEvents` | chains of timers (`spawn.cpp`, `raids.cpp`, `globalevent.cpp`) | specifications |
| `Decay` | `startDecay`, `checkDecay`, `cleanup` | specification |
| `Scripts` | script environments, query results, timers of scripts (`luascript.cpp`) | specification |
| `Registry` | the tables of actions, talk actions, spells, weapons, move and creature events, and `Game::reload` | specification |
| `PlayerActions` | delayed commands of a player | specification |
| `Speed` | what adds to `varSpeed` | specification |
| `Fight` | INFIGHT, skulls, damage map, death | specification |
| `Conditions` | conditions that show on a player (`condition.cpp`) | specification |
| `Wounds` | `ConditionDamage` and its list of rounds | specification |
| `Damage` | a hit: blocking, mana shield, scripts, credit and leech (`combat.cpp`, `creature.cpp`, `game.cpp`) | specification |
| `Casting` | spells, runes, weapons, areas, cooldowns, zones (`spells.cpp`, `weapons.cpp`, `combat.cpp`) | specification |
| `MCPlayers`, `MCWorld` | small instances of the specifications that keep one state variable `s` | sums of instances |
| `PlayersPartsProofs` | | theorems about `GlobalEvents`, `Raids`, `Scripts`, `Buddies` and `Containers` |
| `PlayersProofs` | | theorems about `Chat`, `Party`, `Houses`, `Speed`, `Damage`, `Fight`, `PlayerActions`, and about the sum `MCPlayers` |

Conventions. A definition has the name of the function it models, in upper camel case. What is done
between taking a mutex and releasing it is one step with the release, because nobody reads the
guarded data in between; taking it, and a `notify_one` that comes after, are steps of their own. A
handler of the dispatcher (a task) is one step. History variables (`accepted`, `handled`,
`executed`, `callbacks`, `shown`) are named as such where they are declared; no guard reads them.
An operator introduced as "A mutant" is a plausible mistake of the code, used only to show that a
property would notice it.

### Dispatcher and TaskQueue

`pc[t]` is where a thread is, `lock` the owner of `taskLock`, `arg[t]` the task in a call of
`addTask`, `taskList` and `tmpTaskList` the two lists that `threadMain` swaps, `current` the task it
runs. `AddTask`, `AddLock`, `AddBody` and `AddNotify` are the call of `addTask`; `ShutdownLock` and
`ShutdownBody` are `Dispatcher::shutdown`; `CheckState` to `EndTask` are the loop. A task of `Work`
may add others while it runs. `StopTask` is `setGameState(GAME_STATE_SHUTDOWN)`: it adds
`ShutdownTask` (`Game::shutdown`) and then closes the queue; `ShutdownTask` calls
`Dispatcher::shutdown`, whose task sets the thread state to TERMINATED. When loading fails, `main`
calls `Dispatcher::shutdown` itself. An expired task is skipped without being run (`SkipExpired`);
whether an expiring task has expired is left open. The condition variable may wake up without a
notification (`SpuriousWakeup`), and the code does not test the list again. `main` leaves its
network service and joins the scheduler and the database thread (`JoinProducers`) before the
dispatcher (`Join`). The other threads end only after they were told to, and need not end at all
(`ProducerEnds`): the second of these joins may block for ever, as the run `thread_ends` shows.
`ShutdownJoins` therefore says two things: once the shutdown task runs, or the start has failed, the
dispatcher's thread ends; and `main`, if it gets as far, gets past `g_dispatcher.join()`.

`TaskQueue` has the queue and the sequences `accepted` and `handled`; `ImplementsTaskQueue` maps its
queue to `tmpTaskList \o taskList`.

### DatabaseTasks

The same conventions, with three threads: the network thread and the dispatcher call `addTask`, the
dispatcher calls `flush` (from `saveGameState`, and from `shutdown`), and the worker runs
`threadMain`. `inHand[t]` is the query a thread has popped and not finished, while it has no lock.
The result of a query is the database's; a query with a callback adds it to the dispatcher if the
dispatcher still accepts tasks.

### CreatureWalk

`handlers` is the queue of the `io_context`: posted `insert` and `cancel` handlers, and the
completions `fire` and `abort` of timers. A timer in the map is `armed` or `completing` (its
completion is queued), so that a cancellation of a completing timer has no effect, as in Asio.
A completion that was not cancelled looks at the thread state in one step and calls `addTask` in
another (`HandOver`); in between the task is `inHand`. When loading fails (`online` is FALSE), `main`
calls `Scheduler::shutdown` while the dispatcher still accepts, which may fall between the two, with
events that scripts have added while they were loaded (`ScriptEvent`); `main` ends the dispatcher
afterwards (`CloseDispatcher`). At the end of a running server the dispatcher is closed first, and its
players are removed.

The second part is one player. A handler is written as a function from the player's fields and the
calls made so far to the same, in the order of the code, because `addEventWalk`, `stopEventWalk` and
`onWalk` call each other. Directions and tiles are abstracted: a path is its length, a step may or
may not lead onto a teleport (which stops the walk), a creature is `slow` when its speed is 0. A player
that has lost its health (`LoseHealth`) is `dying` until the task `executeDeath` takes it away, or, in
a zone where players may kill each other, to the temple (`ExecuteDeath`). Its walk event, which
`checkCreatureWalk` runs for creatures with health only, does nothing in the meantime and `eventWalk`
keeps the id; a regeneration, or a level gained, may give it health again before (`Regenerate`). This
is the exception in `EventWalkAlive`. One death waits at a time, deaths and events are not ordered
among each other, the temple is not next to such a zone, and a player who was removed does not come
back.

### WaitList

`Login` is `clientLogin` together with the login it allows, in one task. Entries hold the time left
and the GUID. Premium accounts use the priority list; an account may become premium while it waits
(`BuyPremium`). A client tries again when its countdown is over, may give up, and a login may still
fail after it was let in.

### Trade

The operators of the first part take a placement of items as an argument (`loc` is the present one):
what a container holds (`Holding`), where an item may go (`Destinations`), what `queryAdd` with
`queryMaxCount` answers (`QueryAdd`). There is one action for each handler: `RequestTrade`; for
`playerAcceptTrade` the actions `AcceptFirst`, `AcceptRefused`, `SwapFails` and `Swap`;
`PlayerCloseTrade`; and the world around it: `MoveItem`, `Walk`, `Logout`, `Login`. `MoveCloses`
collects the players whose notifications (`onRemoveTileItem`, `onRemoveInventoryItem`,
`onRemoveContainerItem`, `onAddContainerItem`) close the trade. `SwapFails` is left free of the
conditions under which there is no room: capacity and scripts can refuse as well. Not modelled:
stackable items and their counts, updates of an item in place, exchanges of an item with the one in a
slot, the transfer items of houses, the checks of line of sight. The equipment has the backpack slot and
one hand; with `classicEquipmentSlots = true` (`src/config.lua:91`) a container may be in a hand. The
script events around a trade are disabled in `src/data/events/events.xml`; where the code asks them, the
answer is left open (`AcceptRefused`). `MissingItemRead` is the case in which the code reads through a
null pointer; the process ends and the model has no step for it.

### Session

In the first part of the module, `conn[c]` has the fields of a `Connection`; `net` is the handler the
network thread is in, `tasks` the list of the dispatcher. The `io_context` runs one handler at a time
and each is one step, except `parsePacket`: it calls the protocol between `ParsePacket` and `EndParse`,
with `connectionLock` held (`Locked`), and tasks of the dispatcher that would take this lock wait. After
a handler closed its connection it still holds a `shared_ptr` (`HandlerEnds`). `Expired(c)` says when no
such pointer is left, which is what `isConnectionExpired` asks. Calls are functions from the record of
the connection and the list of tasks to the same, because a handler may make several (`disconnectClient`
sends and closes). The two timers only say that a timeout may come while there is something to wait for.

The second part has one character. `proto[c]` is the `ProtocolGame` of a connection, `players` the
`Player` objects with their `referenceCounter`, who refers to them, and `isConnecting`. `login` is five
actions, by what it does: a new player refused (`LoginNew`) or placed (`LoginPlaced`), and for a
character in the game `LoginReplaces`, `LoginTwice` (with `replaceKickOnLogin` off) and `LoginConnects`.
`Connect`, `Logout`, `Release`, `Kick`, `Die`, `CheckCreatures` and `SendAll` are the other tasks.
`allowClones` is off, as in `config.lua`. The one second before `connect()` and the 10 ms of `sendAll`
are not measured: an event that was scheduled comes later. Protocols, connections and players that
nothing refers to are used again (`Renew`, `Unused`), so that the runs see any number of logins.
`onConnect` is not a task of the model since its body is commented out.

### The components with one state variable

The remaining modules have a single variable `s`, a record of the fields of the code's objects. A
handler is one step: an operator from `s` and its arguments to the next `s`, composed of the
functions the code calls, in their order. That is how the code runs them, on the dispatcher thread,
to the end. What comes later (a timer, a task added to the dispatcher, the removal at the next
`checkCreatures`) is an action of its own. Each header says what is abstracted. `Timers` has the part
of the scheduler that such a module sees: a timer waits, is handed to the dispatcher, runs; stopping it
removes it only while it waits.

*Players among players.* `Party` follows `party.cpp` call by call (`Join`, `LeaveParty`,
`PassPartyLeadership`, `Disband`, which call each other), and the party channels of `chat.cpp`, found
by the address of the `Party` object, which a later party can have again. `Chat` has private channels
(created, invited to, excluded from, opened, closed) and one normal channel, and, apart from them, the
`Guild` objects with their channels, created with the first member that is loaded and deleted with the
last that leaves; `s.about` says which of the two a behaviour is about. `Houses`
has `setOwner` and everything that must follow it: the bed and its sleeper, the guest and sub-owner
lists, open list windows, the transfer document that is being traded. `Buddies` has the three places
of a VIP list: the database, the player, the client's screen.

*Things.* `Stacks` has `PlayerMoveItem` (`internalMoveItem` with its merges, splits and exchanges,
over the queries of player, container and tile), `AddItemToPlayer`, `Earn` (`addMoney`) and `Pay`
(`removeMoney`); `minted`, `lost` account for what scripts add and what the code drops. `Containers`
has `openContainers` and all that opens, moves up, closes and must close a window. `TileStack` has the
sequence of things on a tile and, for each viewer, the numbers its client has derived from what it
was sent. `Decay` has the list `toDecayItems`, the four buckets, and the reference counts of the
items. `Spectators` has the leaves of the quadtree with their `leafS` and `leafE` pointers, made in
any order, and both caches.

*Creatures.* `Monster` has two monsters that may summon each other and a player: target lists,
`isIdle`, `followCreature`, `attackedCreature`, masters, the vector of `checkCreatures` and
`referenceCounter`. `Npc` is about shops (a window of a player, the npc's set, the Lua references of
`onBuy` and `onSell`), the sale list of a client, or the presence of players. `Spawn`, `Raids` and
`GlobalEvents` are chains of timers that a reload may double.

*Fighting.* `Damage` takes a hit from `doTargetCombat` or `doAreaCombat` through `blockHit`, the mana
shield, the script events and `drainHealth` to the damage map and the leech; `Fight` takes it from
there: INFIGHT, protection-zone lock, skulls, `executeDeath` as a later task. In `Damage`, too, a death
is a task, of which one victim may have several: it may be healed by a regeneration (`Regenerate`) or
revived by a script while the task waits, and be killed again. `Conditions` and `Speed`
add and take back what conditions, items and mounts give; `Wounds` has the list of rounds of a
`ConditionDamage`, with its clock and with thinks that come late (`PassOverdue`; `late` is the time
lost that way). `Casting` has `playerSaySpell`, `executeUse` of runes,
`Weapon::useWeapon` with their checks and costs, the zones, and the areas: `AreaCombat::getArea` with
`setupArea` and the turning of matrices, as functions checked against the geometry they stand for.
`Advance` has experience and levels, skill tries and magic levels, up and down, over tables that are
parameters.

*What lasts.* `Transaction` has the saves of a player with their statements, failures, a crash anywhere,
a connection that is lost at any statement (`executeQuery` then tries again on a new one, which knows of
no transaction; `cut` remembers whether that happened between BEGIN and COMMIT), and another thread's
queries on the same connection. `Belongings` has what is written: items of a player and its depots, of a
house; the table of attributes that `serializeAttr` writes; what `loadItem` does with what the map has
already, on maps with an empty shelf and with books in it, of which each start puts out new ones.
`Character` has the reserved storage keys and the row.

*Scripts.* `Scripts` has the stack of environments (`reserveScriptEnv`), the query results of
`tempResults`, and `timerEvents` with their references in the Lua registry. `Registry` has, for one
table at a time, the entries read from XML and from scripts, the reload of either or both, and who
asks: a creature, a player who says or uses something, a step. `PlayerActions` has the three places of
a command that waits.

`MCPlayers` and `MCWorld` put 12 and 16 instances of these side by side. The variable `part` says which
component a behaviour is about and never changes; `s` is that component's variable. The state space is
the sum of the parts, not their product, since the parts do not interact there (where they do, a module
above composes them). A property of a sum is a promise that several components make, each in its own
words: `part = "party" => Party!PartyPaired`, and so on. `Parts` in the configuration chooses the
instances of a run; to look at one component alone, give `Parts` that one.

## 3. The runs

| Run | Bounds | Checks | States |
|---|---|---|---|
| `dispatcher` | one producer, network thread, dispatcher; two ordinary tasks, one expiring; one shutdown | `TypeOK`, `NoLostWakeup`, `NothingDropped`, `ImplementsTaskQueue`, `ShutdownJoins` | 9 thousand |
| `database_tasks` | three queries, one with a callback; one save and the shutdown | `TypeOK`, `ExecutedOnce`, `OvertakenOnlyInHand`, `AcceptedIsExecuted` | 70 thousand |
| `thread_ends` | the same | `ThreadEnds` is violated | |
| `creature_walk` | three events, paths of at most two steps, one death to come | `TypeOK`, `EventInOnePlace`, `EventWalkAlive`, `NothingAfterShutdown`, `WalkEnds` | 190 thousand |
| `wait_list` | two places, three characters and a gamemaster, three entries | `TypeOK`, `OneEntryPerClient`, `LimitKept`, `NoBarging` | 900 thousand |
| `waiting_keeps_entry` | the same | `WaitingKeepsEntry` is violated | |
| `trade` | three players, a backpack, a bag, a sword, containers of one place, three tiles | `TypeOK`, `PartnersPaired`, `OffersDisjoint`, `OfferAsShown`, `BothOrNone` | 100 thousand |
| `traded_item_arrives` | the same | `TradedItemArrives` is violated | |
| `session` | two connections and two `Player` objects at a time, one unwritten message, two chains of `sendAll`, one waiting logout of each protocol | `TypeOK`, `PlayerAliveWhileParsed`, `ClientPaired`, `ReferencesCounted`, `OutputIsSent` | 3.6 million |
| `released_lets_go` | the same | `ReleasedLetsGo` is violated | |
| `players` | 12 parts, in `MCPlayers`, below | `TypeOK`, `TiesAgree`, `DamageCredited`, `NothingHangs`, `NoStepTooFar` | 890 thousand |
| `world` | 16 parts, in `MCWorld`, below | `TypeOK`, `SearchesAgree`, `NothingLost`, `ReferencesHeld`, `NothingFallsAsleep`, `RulesKept`, `ClientsAgree` | 1.2 million |

What the properties of the two sums say of each part:

| Property | Parts and what is promised |
|---|---|
| `TiesAgree` | party: leader, members, invitations and the players' `party` agree, nobody is in a channel who left the game; chat: private channels are of their owner and nobody owns two, and a guild object lives as long as members are online; houses: beds, lists, documents and owners agree; containers: a window is of a container in reach; buddies: the status shown is the buddy's; scripts: a function that is called later is held until then, and released once |
| `DamageCredited` | damage: the damage map has what was taken, health and mana, no more and no less |
| `NothingLost` | stacks: money is made and lost only where the code drops it; transaction: what is saved is of one moment, unless the connection was lost between BEGIN and COMMIT, and no lock stays; belongings: what is loaded is what was saved, once, and besides it what the map puts into a shelf; wounds: what waits is what was drawn and not dealt, and no more time is lost for it than thinks came late; casting: a shot takes one arrow; character: outfits, looks, row and skull come back; conditions: what ended is undone |
| `NothingHangs` | fight: INFIGHT ends, the dying die; damage: who has no health is about to die, though it was healed, revived and killed again; playeractions: a command waits for something and is given once; raids, globalevents: a timer is pending while there is something to do |
| `NoStepTooFar` | speed: only disguises unbalance it; damage: a hit of an element passes no mana shield that has mana; scripts or none, a hit leeches no more than its victims lose of their health, unless it drains mana or a script turned an area's hit into healing |
| `SearchesAgree` | names: a beginning finds its only name; spectators: a search finds all around; advance: levels are those of the experience; casting: what is said is cast, areas turn; registry: a reload finds what is on disk |
| `ClientsAgree` | tilestack: the numbers of things are those the client counted; conditions: icons, looks and light; npc: windows are between two that know each other, function references are of windows, what can be sold is owned; character: what the outfit window offers may be worn |
| `ReferencesHeld` | monster: `referenceCounter` is the number of those who refer; decay: each listing counts one; registry: spells and events handed out are alive |
| `NothingFallsAsleep` | spawn: a timer is pending while there is something to do; monster: who sees a player thinks; npc: awake for whom it met |
| `RulesKept` | casting: nobody is hurt where none may be, cooldowns hold |

Why the bounds are enough to meet the interesting cases:

- *dispatcher*: two tasks are enough for one to be in the batch while the other is pushed, for a
  push to an empty and to a non-empty list, and for a task to add a task; with `StopTask`,
  `ShutdownTask` and `TerminateTask` up to five tasks are in play. The proofs hold for every number
  of producers and tasks.
- *database_tasks*: one query in the worker's hand, one in the flushing dispatcher's, one in the
  list; a save before the shutdown gives `flush` both of its callers. `MaxSaves` bounds the saves.
- *creature_walk*: an event stopped too late, the one that replaces it, and the one that the late event
  adds; or one that ran for a player without health, and those of a walk after the death. `MaxEvents`
  bounds the ids, `MaxPath` a path; every handler that would need another id is disabled at the bound,
  so this run and `WalkEnds` say nothing beyond it.
- *wait_list*: a full server with two clients on the list, of either kind, a newcomer, and one that
  ignores the limit. `MaxList` bounds the entries, expired ones included. Time goes in steps of 5
  seconds, which divides every time in the code; with `MaxList` 3 only the shortest waiting time is
  used, so the table in `GetWaitTime` is modelled and not exercised beyond its first row.
- *trade*: two traders and a third player who takes, moves or asks for the same items; an item in a
  bag in a backpack; tiles 0, 2 and 3, of which the outer two are too far apart to trade. Players are
  interchangeable, and so are the two containers: the symmetry is sound because no property of these
  runs is a liveness property.
- *session*: an old client and the one that replaces it; when the old one is gone its place is used by
  a third, which may come before `connect()`. A `Player` that was removed and is still referred to
  beside the one of the next login. `MaxQueue` 1 gives a close with and without a pending write;
  `MaxChains` 2 is the most that an emptied and refilled list needs to be seen; `MaxLogouts` lets a
  logout wait behind a release. Connections are interchangeable, and so are players; there is no
  liveness property in the run.
- *players*. party, chat: three players, so that one can interfere with two; two addresses, of a party
  and its successor; `ChatSlots` 2 private channels; one guild with and one without a rank for recruits.
  houses: two players and one house; a second house adds nothing to `HousesKept`, which relates each
  house to its own owner. containers: three containers, of which two can be inside the third, two
  windows, three tiles of which the outer two are out of reach. speed: amounts no sum of which is
  another, one delayed haste, so that what is missing shows; `SpeedAstray` 0: no disguise is put on over
  a speed that is already wrong. fight: two players and monsters, two health, one murder to a red skull;
  one hit at a time and one death to come. damage: hits of which one half reaches through what stops the
  other, on a player, a monster, or both, which tells an area from a target; shield, item and up to two
  scripts are in detail for the player alone, one block per think where the code has two; leeches with
  and without scripts, whenever the caster has health to gain. `DamageDeaths` 2 for one killed again
  before its first death, and one death in detail; `DamageCredit` 3 bounds what is counted before the
  map is forgotten. playeractions: three tiles, one waiting command. buddies: three players, one who
  sees ghosts and whose premium time ends. globalevents: a timer and two think events of either source,
  two timers at once. raids: two raids, one repeats, one reload, three timers. scripts: two environments
  where the code has 16, and the call that is too deep.
- *world*. names: eight names that branch at every place where a tree can. advance: four levels, of
  which the last cannot be left. spectators: leaves of two by two, two floors, a player and a monster.
  monster: two monsters, either of which may summon the other, and a player, at two places, in every
  order in which `getSpectators` may return them that matters. decay: two items, six intervals, so
  that every bucket and both re-insertions occur. spawn: two places, four monsters over time; one that
  walks away is kept under a key of its own, as in the code. casting: a row of the four kinds of
  zones, six spells, times to 2; areas of up to six fields with each centre. registry: one file at a
  time changes, spells two. stacks: two coins with stacks of 3, a bag of 2, `MaxWeight` 3, `MaxWealth`
  8 bounds what scripts add: enough to fill, to split and to exchange. transaction: three tries (the
  code's), `MaxChanges` and `MaxErrors` 2, `MaxQueries` 1; `MaxLosses` 1, one lost connection in a
  behaviour, at any statement. wounds: two lists of rounds, two ranges to draw from, six rounds; `MaxLate`
  2, a whole think, at once or in two. belongings: two depots, two changes between saves, three in a
  house; a map with nothing and one with a text and a book in a shelf, and `MaxCopies` 3, the books of
  three starts. tilestack: viewers who
  see one, two and three of three creatures; a client is shown 4 things where the code shows 10.
  conditions: one type at a time (outfits with invisibility), two strengths, two at once, with the
  item's. npc: two customers, two npcs, an address freed and used again; a row of six places.
  character: three mounts where 31 share a word, five changes at most.

Symmetry in the sums permutes the model values only; the parts with names, numbers or orders of
their own are not permuted, and no property is a liveness property.

Deadlock. `CHECK_DEADLOCK FALSE` is given where the system really stops: in `dispatcher` and
`database_tasks` the threads end, `CreatureWalk` stops at its bound, `Session` when both connections
are of protocols that keep a player for ever (see `released_lets_go`), and in the sums a part stops
when its bound is used up, when the server ends, or where the code's behaviour becomes undefined.
`WaitList` and `Trade` are checked for deadlock.

Fairness. `FairSpec` of `Dispatcher` and `DatabaseTasks` assumes that the operating system runs every
thread that can run (weak fairness of each thread's steps) and that a thread which keeps asking for a
mutex gets it (strong fairness of the lock steps: other threads may take it in between). No caller is
obliged to call, no signal to arrive, and no other thread to end. `CreatureWalk` assumes that the
scheduler thread handles what is posted, that timers expire, that the dispatcher runs the events and the
deaths it has (this is what `Dispatcher` shows of it), and that time passes. The components with one
state variable have no fairness: `NothingFallsAsleep` and `NothingHangs` are invariants that say that
the timer or the task which goes on is there, and that it runs is what `CreatureWalk` and `Dispatcher`
assume and show.

Mutants. For each property of a passing run, `PROJECT.json` names a mistake of the code that the run
would notice. The modules keep further forms, marked "Mutant" or "A mutant" where they are defined,
which were tried in the same way against the part of a sum that a listed mutant does not touch.

## 4. Findings

### With a run

- **A database thread that never ends** (`thread_ends`). `DatabaseTasks::threadMain` tests its state
  outside the mutex and then waits without testing it again; `shutdown` sets the state and notifies
  once. When that happens between the test and the wait, the thread sleeps for ever and
  `g_databaseTasks.join()` in `main` does not return (`databasetasks.cpp:39`). The dispatcher does
  not have this defect because `Dispatcher::shutdown` pushes a task.
- **A waiting client loses its entry** (`waiting_keeps_entry`, `protocolgame.cpp:130`): the new
  timeout is written over the GUID.
- **A traded item that arrives nowhere** (`traded_item_arrives`, `player.cpp:2572`): with no place
  except in the bag it gives away, the receiver passes `queryAdd` and `queryMaxCount`, and `addThing`
  does nothing at the index -1.
- **A released protocol that takes the player** (`released_lets_go`, `protocolgame.cpp:282`). The new
  client waits for `connect()` and is closed while a message is being written to it; `release()` runs,
  the pending write keeps the `Connection`, and `connect()` gives it the player. No `release()` follows:
  the player keeps a closed client, later logins are told "You are already logged in", and the
  `Player` object is never deleted. The property asks only about connections whose socket is still
  open, so that the run shows this case and not one in which a handler takes a second to end.

### Stated, and not true of the code

These definitions stand in the modules with a comment that says so, or quotes what the repository
says. Each was violated when it was checked alone; none is a property of a run above. They mark the
edge of the invariants that do hold.

| Module | Property | What happens instead |
|---|---|---|
| `WaitList` | `CapacityLetsIn` | slots are counted from the end of the list (`protocolgame.cpp:54`): the first client has the highest slot and is turned away although its place is free |
| `Party` | `PartyChannelForMembers` | leaving closes the client's window but leaves the player among the channel's users |
| `Houses` | `SoldByOwner`, `OneHouse` | a document that is traded after the house changed hands still sells it; a transfer does not ask whether the receiver owns another house |
| `Stacks` | `MoneyArrives` | `addMoney` drops what finds no room |
| `Transaction` | `ReportedIsKept`, `CommitMeansAll`; `OneSnapshot` without its exception | a query of the other thread that falls between `BEGIN` and the lock is inside the transaction, and is rolled back with it; after a lost connection the rest of a save goes on outside any transaction |
| `Raids` | `OneRaid` | a raid that left the list is not stopped by a reload, and another starts |
| `Spawn` | `PlacesFilled` | a monster that walked away counts as one at its place |
| `GlobalEvents` | `TimersKept` | a reload of one source stops the chain that the other needs |
| `Fight` | `OnlyTheDyingDie`, `MostDamageIsMurder` | who was healed before `executeDeath` dies all the same; the flag of the one who did most damage is not used |
| `Monster` | `OpponentsKnown`, `TargetsAlive` | a monster teleported home forgets those in sight; a killed summon stays in target lists |
| `Speed` | `SpeedBalanced` | a mount, boots or haste that change between begin and end are taken back in another amount |
| `Conditions` | `WhatIsOnShows` | the end of one condition takes the effect of another of its type |
| `Scripts` | `IndexInRange`, `ResultsKept` | a call that is too deep still counts; the end of an inner script frees the results of the outer one |
| `TileStack` | `RemovedByItsNumber` | the numbers of three viewers are gathered in one order and sent in another when the first cannot see the creature |
| `PlayerActions` | `OnlyThePlayerForgets` | a swing of a fight takes the event of a waiting command |
| `Casting` | `NoPvpKept`, `ExtAreasTurn` | who walks into a zone without fights goes on to hit; the matrices of diagonal areas lose their centre |
| `Registry` | `ReloadedIsAlwaysFresh`, `SpellsOfMonstersAlive`, `RegisteredEventsAlive`, `NoEmptyEvent`, `ListKeepsRules`, `SaidInFullIsDone`, `EveryIdRegistered` | keys that move between the sources, spells of scripts held by monsters, events held by creatures, handlers without a function, and lists of identifiers of which some get other rules |
| `Belongings` | `AllAttributesKept`, `DepotsKept`, `BooksOnce` | some attributes are not written; a depot is written only if it was changed in the ways the code knows; what the map has in a shelf is saved with the house and comes again at the next start |
| `Npc` | `NeverCrashes`, `CallbacksGivenBack`, `SaleListComplete`, `AwakeWhenSeen`, `SleepsWhenAlone`; `ShopsPaired` with `Reopens` | windows outlive npcs and players (`npc.cpp:310`, `player.cpp:1230` are commented out) |
| `Character` | `TakenStaysTaken`, `RidesTamed`, `ConditionsKept`, `OnlineTimeTrue` | reserved keys are written and never erased; a refused outfit has changed the mount; a save of one who is away loses conditions; each save counts the session's time again |
| `Buddies` | `AllShownAreListed` | when premium time ends, entries beyond the limit stay on the client's screen |

`Damage` keeps what the code does where it is surprising: a drain of mana leeches what was demanded,
not what was there (`combat.cpp`); an area leeches what a script turned into healing (both are excepted
in `HitsMeasured`); who is healed before `executeDeath` dies all the same, as in `Fight`; after the script
events of a hit the damage begins anew, through the mana shield; a drain that scripts know of passes
`blockHit` twice and takes two charges; `onPrepareDeath` may refuse after clients were told.

## 5. What is proved

Eight modules hold theorems. Six are about one component each, and prove type correctness and every
safety property that a run checks of it. `PlayersPartsProofs` and `PlayersProofs` do so for the twelve
components of the sum `MCPlayers`. All of it is for all values of the constants that satisfy the
assumptions. These say that values meant to be different are (the threads, `NoPlayer`, `NoTask` and so
on), that special values are members of their sets (`Expiring \subseteq Work`, `Container \subseteq
Item`), and that limits and bounds are natural numbers. No number of threads, players, items or
connections is assumed, and the bounds of the runs (`MaxEvents`, `MaxPath`, `MaxList`, `MaxChains`,
`MaxQueue`...) are arbitrary.

| Module | Theorem | Says |
|---|---|---|
| `DispatcherProofs` | `TypeCorrect`, `WakeupsAreNotLost`, `NothingIsDropped` | `Spec => []P` for `TypeOK`, `NoLostWakeup`, `NothingDropped` |
| | `DispatcherImplementsTaskQueue` | `Spec => ImplementsTaskQueue` |
| `DatabaseTasksProofs` | `TypeCorrect`, `QueriesRunOnce`, `OvertakenByOne` | `TypeOK`, `ExecutedOnce`, `OvertakenOnlyInHand` |
| `CreatureWalkProofs` | `TypeCorrect`, `TasksHaveOneOwner`, `WalkEventAlive` | `TypeOK`, `EventInOnePlace`, `EventWalkAlive` |
| | `NothingRunsAfterShutdown` | the action property `NothingAfterShutdown` |
| `WaitListProofs` | `TypeCorrect`, `OneEntryEach` | `TypeOK`, `OneEntryPerClient` |
| | `LimitIsKept`, `NobodyBarges` | the action properties `LimitKept`, `NoBarging` |
| `SessionProofs` | `TypeCorrect`, `PairsMatch`, `ReferencesAreRight`, `OutputGetsSent`, `ParsedPlayerLives` | `TypeOK`, `ClientPaired`, `ReferencesCounted`, `OutputIsSent`, `PlayerAliveWhileParsed` |
| `TradeProofs` | `TypeCorrect`, `TradersComeInPairs`, `NothingPromisedTwice`, `OffersStayAsShown` | `TypeOK`, `PartnersPaired`, `OffersDisjoint`, `OfferAsShown` |
| | `SwapsMoveBoth` | the action property `BothOrNone`: both items leave their places, or neither; not that they arrive |
| `PlayersPartsProofs` | `EventsThink` | `GlobalEvents!ThinksOn` |
| | `RaidsComeAgain` | `Raids!RaidsGoOn` |
| | `FunctionsHeld` | `Scripts!FunctionsReleasedOnce` |
| | `BuddiesAreShown` | `Buddies!BuddiesShown` |
| | `WindowsReach` | `Containers!WindowsInReach` |
| `PlayersProofs` | `ChatTiesAgree` | `Chat!PrivateChannelsHeld`, `Chat!GuildAlive` |
| | `PartyTiesAgree` | `Party!PartyPaired`, `Party!ChannelUsersOnline` |
| | `HousesTiesAgree` | `Houses!HousesKept` |
| | `SpeedTakenBack` | the action property `Speed!OnlyOutfitsGoAstray` |
| | `DamageMeasured` | `Damage!CreditedAsTaken`, `Damage!TheDeadDie`, and the action property `Damage!HitsMeasured` |
| | `FightsCome` | `Fight!FightsEnd` |
| | `CommandsWait` | `PlayerActions!CommandsWaitOnce`, `PlayerActions!CommandsHaveAWalk` |
| | `TypeCorrect`, `TiesAlwaysAgree`, `DamageIsCredited`, `NothingStaysBegun` | of the sum, `TypeOK`, `TiesAgree`, `DamageCredited`, `NothingHangs` |
| | `NoStepGoesTooFar` | of the sum, the action property `NoStepTooFar` |

A theorem about a component of a sum (`Party!Spec => ...`) includes its `TypeOK`; the properties of the
sum are those the run `players` checks, all of them. The assumption there, `PlayersAssumption`, is that
of each component, which TLC evaluates on that run.

Each module about one component has a theorem `Invariant`, which says that its inductive invariant holds
in every reachable state; the others follow from it. Hardly any of the properties is inductive as it
stands.

*Dispatcher.* `IInv == TypeOK /\ TaskInHand /\ BatchUsedUp /\ NoLostWakeup`. `NoLostWakeup` is about a
wait that other threads can only end with a notification: a push to a list that is not empty announces
none, and the proof takes the notification from the same property before the step. `TaskInHand` keeps
`taskList` a sequence of tasks when a thread pushes what it brought. `BatchUsedUp` is for the
refinement: the swap must leave `tmpTaskList \o taskList` unchanged, which is false for a batch with
something left in it. `NothingDropped` needs a second invariant, `ClosingInv`, that follows the closing
tasks: what was accepted is what was handled and what is pending, in order; each of `StopTask`,
`ShutdownTask` and the task of `Dispatcher::shutdown` is accepted once, after the one before it was
handled, and nothing after the last. This holds when the server was online; when loading failed, `main`
ends the dispatcher without asking, and the property does not speak of that.

*Database tasks.* `Places` says where each thread may be: only the dispatcher flushes, only the worker
waits. `InHand` and `OnceEach` place a query in the list, in one thread's hand, or among the executed.
`PoppedFirst` is for the order: the list is the end of the sequence of accepted queries, and what came
before it is executed or in hand. `LastFlushed` is for the shutdown: the flush that follows TERMINATED
leaves an empty list, and nothing is accepted after.

*Creature walk.* `Issued`, `OneOwner` and `Completions` are about the scheduler alone: ids in use were
given out, an `insert`, a completion or a place in the dispatcher's list owns its task and excludes the
others, and, until `cancelAll` has run, exactly the timers that are completing have a completion in the
queue. `Alive` is `EventWalkAlive` without the sets, with the exception for the dying; it is inductive
only with `Running` (before shutdown the `io_context` runs and the dispatcher accepts, so that a timer
that fires arrives), `Kinds` (`eventWalk` and `walkTaskEvent` name events of different kinds, so that
stopping one never stops the other, and an action that runs leaves the walk alone) and `Living` (who is
in the game has health or is about to die, so that an event that does nothing is of somebody dying; who
is not has no `eventWalk`). `Running` also says that a dispatcher of a server that was online is closed
before the scheduler ends, which is what `NothingAfterShutdown` needs of the task in hand. The handlers
of the player call each other; for them `Sound` says of a handler that has gone some way which ids it
was given and what it has posted. There is one lemma for each function of the code, which keeps `Sound`,
one for the end of a handler (`FinishKeepsInv`), and one for each step of the scheduler thread.

*Waiting list.* The lists are `Orderly`: no client twice in a list, none in both, none that is online or
privileged. That the privileged are out of them is needed because such a character gets online without a
look at the lists; that both are empty when there is no limit, because then everybody does.
`cleanupList` is a recursive function (`Kept`): that it has a value at each index, and that what it
keeps is a subsequence, is shown by induction over the indices with the set of those for which it holds
(`InductionOnSet`, from the library's fact that the natural numbers are well-founded).

*Session.* The reference count of a player is a sum: its client, the map, `checkCreatures`, and the
releases to come. The invariant adds to the properties that a protocol gets a player once (`OneLogin`:
it is before its first packet, or has one login task, or waits once for `connect()`), that a packet is
parsed only of an open connection (`ParsesOpen`, by the lock), and that a player removed from the game
is given to the releaser once. The calls of `Connection` are described once, by which tasks they take
from the list and add to it (`Summary`); the actions of `Session` use that only.

*Trade.* `Holding` is the least set closed under "is in". Moving an item changes the holdings of those
around it; the proof needs that containers never hold themselves, which `Rooted` says: each item has an
outermost one. `MoveItem` keeps it because `queryAdd` refuses to put a container into itself. A move
that closes no trade leaves the offers of all trades untouched (`NotToldNotTouched`), and this is what
`OffersDisjoint` and `OfferAsShown` rest on. `BothOrNone` needs a further invariant, `Tidy`: slots have
one item and containers no more than their capacity, so that the item given away leaves room.

*The sum of the players.* Each component has its inductive invariant, and `PlayersInv` says that the
one of `part` holds; a step of the sum is a step of one component.

- `PartyInv` (`Tied`): a player's `party` and the lists of that party name each other, a party without
  a leader is empty. The functions of `party.cpp` call each other while this is untrue of the party
  that is being left or ended; so `Tied` takes the set of addresses for which it is not yet true again,
  and there is one lemma for each function.
- `ChatInv`: two private channels have two owners (`ChatOwners`), a channel in use has its owner among
  its users, who were all invited and are in the game (`ChatHeld`), and the guild of everybody in the
  game is loaded and counts them (`ChatGuilds`).
- `HousesInv`: who is in a house may be (`Housed`), beds and sleepers name each other (`Paired`), a
  document exists while it is traded, between players in the game (`Dealt`). That a house without an
  owner admits nobody is needed when it is sold.
- `SpeedInv`: only what is worn counts (`WornOnly`), and who is not in the game has no speed, nothing
  enabled and nothing to come (`Bare`).
- `DamageInv`: nobody is left without health who is not about to die, credit is what was taken, and
  these and the deaths to come keep to the bounds `MaxCredit` and `MaxDeaths` of the model (`Counted`).
  The steps of a hit, with the scripts between them, are lemmas about what a hit may have become on the
  way.
- `FightInv` (`Settled`): who has a white skull, is locked out of protection zones or has attacked
  somebody is in a fight; who has damage to remember is in one or has a death to come; and who has no
  health has a death to come.
- `ActionsInv`: a command is in one of three places or in the dispatcher's list, once (`Once`); one that
  waits for a walk excludes one that waits for time; and its walk is under way, asked for, or lost
  (`HasWalk`).
- `EventsInv`, `RaidsInv` (`Ongoing`): timers are finitely many, so that there is a fresh id; the raid
  that runs has an event to come, and, until something is loaded again, no other has one.
- `ScriptsInv` (`Counted`, `Held`): the registry of Lua has the functions of the timer events, and that of
  the script called by one, and each of them once; only the outermost script can be called by a timer.
- `BuddiesInv` (`Befriended`): who was loaded with all its entries has them in its list, and its client
  shows each as those see it; the table of names has who is in the game and no ghost.
- `ContainersInv` (`Rooted`, `Reached`): each container has one outermost place, so none is in itself.
  Putting a container elsewhere takes along what is in it and nothing else (`MoveItem` refuses what
  would close a circle); the windows of those that are told are closed, and for the others the outermost
  place is in reach as before.

Only model-checked, by TLC on the instances above:

- the liveness properties (`ShutdownJoins`, `AcceptedIsExecuted`, `WalkEnds`): fairness and ENABLED are
  out of the prover's reach;
- the properties of the sum `world`. `Stacks`, `Advance` and `Monster` have RECURSIVE operators, about
  which the prover cannot reason, and neither can it in a module that reaches them, as `MCWorld` does.
  Of the others, `Belongings`, `Conditions`, `Npc` and `Registry` fold over sequences, and what a fold
  computes is a matter of induction over data.

## 6. Plan

Done first: `TaskQueue` and `Dispatcher` with proofs (everything else runs on it), `DatabaseTasks`,
`CreatureWalk` (the pattern of every delayed task), `WaitList`, `Trade`, `Session`, and their
proofs. Then the components with one state variable and their sums, and the proofs of the sum
`players`.

Left to model: the wait of `main` for the loader (`otserv.cpp`), connections at the end of the
server (`closeAll`, with a dispatcher that no longer accepts release tasks), stackable items in
`Trade`, walking and following in the world (`getPathTo` as an oracle) on top of `Monster`.

Next proofs: a sum of its own for the parts of `world` without RECURSIVE operators; in it, `SpawnGoesOn`,
`LockGivenBack`, `DecayCounted` and `NumbersAgree`, whose modules are closest to sets and functions.

## 7. Not modelled

- The market: no client reaches it in this fork (`protocolgame.cpp`, `otserv.cpp:325`). Likewise the
  dialogues of offline training with modal windows.
- Formulas that turn levels into damage, and the tables of items, monsters and vocations: data. The
  models take the results of formulas as parameters or choices.
- The encoding of messages, cryptography, the allocator; the login and status protocols, which answer
  one request from what they read.
- What scripts do. Where a handler asks a script for permission, the answer is left open; where the
  code calls scripts in the middle of something (`Damage`, `Scripts`, `Npc`), they may call back.
- Pathfinding, line of sight, the loading of maps: geometry too large to enumerate. Where a path or a
  line is asked for, the answer is a choice.
- Undefined behaviour that ends the process ends the behaviour of the model (`MissingItemRead` in
  `Trade`, `EventOfFreedRaid` in `Raids`).

See the `components` of `PROJECT.json` for each part and its status.
