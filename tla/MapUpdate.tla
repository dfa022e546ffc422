----------------------------- MODULE MapUpdate ------------------------------
(***************************************************************************)
(* Maps/MapManager.cpp: one update of the maps, and the players who leave  *)
(* one map for another.                                                    *)
(*                                                                         *)
(* MapManager::Update runs on the world thread.  It hands the continents   *)
(* to one ThreadPool and the instances to another; a continent that has    *)
(* finished waits for the others, and the instances are updated again      *)
(* until the last continent has.  A player who is teleported meanwhile is  *)
(* moved when no map is being updated any more.                            *)
(*                                                                         *)
(* Both pools are used as TaskJob describes them.  A dungeon is one        *)
(* instance, shared by those who go there (one group); battleground maps   *)
(* are left out, and so is the timer that lets Update return at once.      *)
(***************************************************************************)
EXTENDS Integers, FiniteSets

CONSTANTS
  Player,           \* characters
  Continent,        \* the parts of the continents, each a Map of its own
  Instance,         \* dungeon instances
  None,             \* no map
  Id,               \* GetId() of a map: the parts of a continent share one
  Home,             \* the part of a continent with everybody's homebind
  InstanceThreads   \* MapUpdate.InstancedThreads

Map == Continent \cup Instance

ASSUME MapAssumption ==
  /\ Home \in Continent
  /\ None \notin Map
  /\ Continent \cap Instance = {}
  /\ IsFiniteSet(Map)
  /\ InstanceThreads \in Nat \ {0}

VARIABLES
  world,            \* where the world thread stands
  asyncMapUpdating,
  maps,             \* i_maps
  closed,           \* instances nobody may enter: full, about to be reset, or in an encounter
  at,               \* how far the update of each map is
  finished,         \* i_continentUpdateFinished
  maxThreads,       \* i_maxContinentThread
  workers,          \* m_continentThreads->size()
  player,           \* see PlayerType
  newInstances,     \* m_scheduledNewInstancesForPlayers
  batch,            \* those of them CreateNewInstancesForPlayersSync has yet to see
  scheduled,        \* m_scheduledFarTeleports: where to, None for no teleport
  switches          \* m_scheduledInstanceSwitches, likewise

mapVars == <<maps, closed, at, finished, maxThreads, workers>>
teleportVars == <<player, newInstances, batch, scheduled, switches>>
updateVars == <<world, asyncMapUpdating, mapVars, teleportVars>>

MapPhase == {"maps", "working", "deciding", "joining", "creating", "teleporting"}
Progress == {"none", "queued", "update", "wait", "finish", "done"}

PlayerType == [
  on: BOOLEAN,      \* the character is loaded
  map: Map \cup {None}, \* None: IsInWorld() is false
  last: Map,        \* where its position is
  dest: Map,        \* m_teleport_dest
  far: BOOLEAN,     \* mSemaphoreTeleport_Far
  pending: BOOLEAN, \* mPendingFarTeleport
  told: BOOLEAN]    \* SMSG_NEW_WORLD was sent and not answered yet

Nowhere == [on |-> FALSE, map |-> None, last |-> Home, dest |-> Home,
            far |-> FALSE, pending |-> FALSE, told |-> FALSE]

MapInit ==
  /\ asyncMapUpdating = FALSE
  /\ maps = {Home} /\ closed = {}
  /\ at = [m \in Map |-> "none"]
  /\ finished = 0 /\ maxThreads = 0 /\ workers = 0
  /\ player = [p \in Player |-> Nowhere]
  /\ newInstances = {} /\ batch = {}
  /\ scheduled = [p \in Player |-> None]
  /\ switches = [p \in Player |-> None]

In(m) == {p \in Player : player[p].map = m}

\* Map::CanEnter(), DungeonMap::CanEnter()
CanEnter(m) == m \notin closed

\* Other players, a reset or an encounter close an instance, or open it again.
OpenOrClose(m) ==
  /\ m \in Instance \cap maps
  /\ closed' = IF m \in closed THEN closed \ {m} ELSE closed \cup {m}
  /\ UNCHANGED <<world, asyncMapUpdating, maps, at, finished, maxThreads, workers,
                 teleportVars>>

\* CreateNewInstancesForPlayersSync() for a player not in Player.
CreateForOthers(m) ==
  /\ world = "creating"
  /\ m \in Instance \ maps
  /\ maps' = maps \cup {m}
  /\ UNCHANGED <<world, asyncMapUpdating, closed, at, finished, maxThreads, workers,
                 teleportVars>>

OtherPlayers(m) == OpenOrClose(m) \/ CreateForOthers(m)

----------------------------------------------------------------------------
\* Teleports outside of a map update: TeleportTo() executes them at once.

\* The instance a player q goes to is not among the maps M yet.
Awaits(q, M) == q.dest \in Instance /\ q.dest \notin M

\* ExecuteTeleportFar() of a player who may enter: out of the map, and
\* SendNewWorld() unless the instance has to be created first.
Departed(q, M) == [q EXCEPT !.map = None, !.far = TRUE, !.told = ~Awaits(q, M)]
Depart(p, q, M) ==
  /\ player' = [player EXCEPT ![p] = Departed(q, M)]
  /\ newInstances' = IF Awaits(q, M) THEN newInstances \cup {p} ELSE newInstances

\* HandleReturnOnTeleportFail(): back to where q came from, or home.
ReturnOnTeleportFail(p, q, old, M) ==
  Depart(p, [q EXCEPT !.dest = IF CanEnter(old) THEN old ELSE Home], M)

\* TeleportTo() has a far branch for other maps, and for TeleportToHomebind().
IsFar(m, n) == Id[m] # Id[n] \/ n = Home

\* A packet handler of the world thread teleports p.
TeleportTo(p) ==
  /\ player[p].map # None
  /\ \E m \in Map :
       /\ IsFar(player[p].map, m)
       /\ CanEnter(m)
       /\ Depart(p, [player[p] EXCEPT !.dest = m], maps)
  /\ UNCHANGED <<world, asyncMapUpdating, mapVars, batch, scheduled, switches>>

\* HandleMoveWorldportAckOpcode(): p arrives, or is sent back where it came from.
HandleMoveWorldportAck(p) ==
  LET q == [player[p] EXCEPT !.told = FALSE, !.last = player[p].dest]
      M == maps \cup {q.dest}
  IN
  /\ player[p].told /\ player[p].far
  /\ maps' = M
  /\ IF CanEnter(q.dest)
     THEN /\ player' = [player EXCEPT ![p] = [q EXCEPT !.map = q.dest, !.far = FALSE]]
          /\ UNCHANGED newInstances
     ELSE ReturnOnTeleportFail(p, q, player[p].last, M)
  /\ UNCHANGED <<world, asyncMapUpdating, closed, at, finished, maxThreads, workers,
                 batch, scheduled, switches>>

\* LoadFromDB() and Map::Add() of a character saved on map m; where it may not
\* enter it is sent home.
Login(p) ==
  /\ ~player[p].on
  /\ \E m \in Map :
       LET q == [Nowhere EXCEPT !.on = TRUE, !.last = m] IN
       /\ maps' = maps \cup {m}
       /\ IF CanEnter(m)
          THEN /\ player' = [player EXCEPT ![p] = [q EXCEPT !.map = m, !.dest = m]]
               /\ UNCHANGED newInstances
          ELSE Depart(p, q, maps')
  /\ UNCHANGED <<world, asyncMapUpdating, closed, at, finished, maxThreads, workers,
                 batch, scheduled, switches>>

\* Mutant: the creation of an instance is not cancelled.
LogoutPlayerUncancelled(p) ==
  LET q == player[p]
      second == IF CanEnter(q.last) THEN q.last ELSE Home
  IN
  /\ q.on
  /\ maps' = IF ~q.far THEN maps
             ELSE maps \cup {q.dest} \cup (IF CanEnter(q.dest) THEN {} ELSE {second})
  /\ player' = [player EXCEPT ![p] = Nowhere]
  /\ scheduled' = [scheduled EXCEPT ![p] = None]
  /\ UNCHANGED <<world, asyncMapUpdating, closed, at, finished, maxThreads, workers,
                 newInstances, batch, switches>>

\* LogoutPlayer(): a teleport is brought to its end first, on the server's
\* side, and the destructor cancels what is still scheduled.
LogoutPlayer(p) ==
  LET q == player[p]
      second == IF CanEnter(q.last) THEN q.last ELSE Home
  IN
  /\ q.on
  /\ maps' = IF ~q.far THEN maps
             ELSE maps \cup {q.dest} \cup (IF CanEnter(q.dest) THEN {} ELSE {second})
  /\ player' = [player EXCEPT ![p] = Nowhere]
  /\ newInstances' = newInstances \ {p}
  /\ scheduled' = [scheduled EXCEPT ![p] = None]
  /\ UNCHANGED <<world, asyncMapUpdating, closed, at, finished, maxThreads, workers,
                 batch, switches>>

----------------------------------------------------------------------------
\* The update of the maps.

Running(S) == {m \in S : at[m] \in {"update", "wait", "finish"}}
Updated(S) == {m \in S : at[m] # "none"}

\* Mutant: a teleport that fails stays scheduled.
RetryDelayedTeleport(p) ==
  /\ world \in {"maps", "teleporting"}
  /\ scheduled[p] # None
  /\ IF CanEnter(scheduled[p])
     THEN /\ Depart(p, [player[p] EXCEPT !.pending = FALSE], maps)
          /\ scheduled' = [scheduled EXCEPT ![p] = None]
     ELSE UNCHANGED <<player, newInstances, scheduled>>
  /\ UNCHANGED <<world, asyncMapUpdating, mapVars, batch, switches>>

\* ExecuteSingleDelayedTeleport(): one turn of the loops of
\* ExecuteDelayedPlayerTeleports(), before and after the maps are updated.
ExecuteSingleDelayedTeleport(p) ==
  LET q == [player[p] EXCEPT !.pending = FALSE] IN
  /\ world \in {"maps", "teleporting"}
  /\ scheduled[p] # None
  /\ IF CanEnter(scheduled[p])
     THEN Depart(p, q, maps)
     ELSE /\ player' = [player EXCEPT ![p] = [q EXCEPT !.far = FALSE]]
          /\ UNCHANGED newInstances
  /\ scheduled' = [scheduled EXCEPT ![p] = None]
  /\ UNCHANGED <<world, asyncMapUpdating, mapVars, batch, switches>>

NothingScheduled == \A p \in Player : scheduled[p] = None

\* Mutant: the threads are added to those of the pool there is.
ContinentPoolAdded(n) == workers + n

\* The pool of the continents is replaced by a larger one when it has fewer
\* workers than there are continents to update.
ContinentPool(n) == IF workers < n THEN n ELSE workers

\* Every map with players is updated, others unless they were empty for long.
BeginUpdate ==
  /\ world = "maps"
  /\ NothingScheduled
  /\ asyncMapUpdating' = TRUE
  /\ \E U \in SUBSET maps :
       LET n == Cardinality(U \cap Continent) IN
       /\ {m \in maps : In(m) # {}} \subseteq U
       /\ at' = [m \in Map |-> IF m \in U THEN "queued" ELSE "none"]
       /\ finished' = 0
       /\ maxThreads' = n
       /\ workers' = ContinentPool(n)
       /\ world' = IF U \cap Instance = {} THEN "joining" ELSE "working"
  /\ UNCHANGED <<maps, closed, teleportVars>>

\* IsContinentUpdateFinished()
ContinentUpdateFinished == finished = maxThreads

\* A worker of the pool takes the continent m.
StartContinent(m) ==
  /\ m \in Continent
  /\ at[m] = "queued"
  /\ Cardinality(Running(Continent)) < workers
  /\ at' = [at EXCEPT ![m] = "update"]
  /\ UNCHANGED <<world, asyncMapUpdating, maps, closed, finished, maxThreads, workers, teleportVars>>

MarkContinentUpdateFinished(m) ==
  /\ m \in Continent
  /\ at[m] = "update"
  /\ at' = [at EXCEPT ![m] = "wait"]
  /\ finished' = finished + 1
  /\ UNCHANGED <<world, asyncMapUpdating, maps, closed, maxThreads, workers, teleportVars>>

\* Mutant: a continent goes on when its wait has timed out.
LeaveWaitAtTimeout(m) ==
  /\ at[m] = "wait"
  /\ at' = [at EXCEPT ![m] = "finish"]
  /\ UNCHANGED <<world, asyncMapUpdating, maps, closed, finished, maxThreads, workers, teleportVars>>

\* A continent that waits updates its players each time its wait times out;
\* when all have finished it goes on with grids, scripts and weather.
LeaveWait(m) ==
  /\ at[m] = "wait"
  /\ ContinentUpdateFinished
  /\ at' = [at EXCEPT ![m] = "finish"]
  /\ UNCHANGED <<world, asyncMapUpdating, maps, closed, finished, maxThreads, workers, teleportVars>>

EndContinent(m) ==
  /\ at[m] = "finish"
  /\ at' = [at EXCEPT ![m] = "done"]
  /\ UNCHANGED <<world, asyncMapUpdating, maps, closed, finished, maxThreads, workers, teleportVars>>

StartInstance(m) ==
  /\ m \in Instance
  /\ at[m] = "queued"
  /\ Cardinality(Running(Instance)) < InstanceThreads
  /\ at' = [at EXCEPT ![m] = "update"]
  /\ UNCHANGED <<world, asyncMapUpdating, maps, closed, finished, maxThreads, workers, teleportVars>>

EndInstance(m) ==
  /\ m \in Instance
  /\ at[m] = "update"
  /\ at' = [at EXCEPT ![m] = "done"]
  /\ UNCHANGED <<world, asyncMapUpdating, maps, closed, finished, maxThreads, workers, teleportVars>>

\* What the update of a map does to its players: TeleportTo() to another map
\* schedules a teleport; the last one counts.
ScheduleFarTeleport(p, m) ==
  /\ IsFar(player[p].map, m)
  /\ CanEnter(m)
  /\ player' = [player EXCEPT ![p].dest = m, ![p].pending = TRUE]
  /\ scheduled' = [scheduled EXCEPT ![p] = m]
  /\ UNCHANGED switches

\* TeleportTo() within a map, which a player who waits for a far teleport may do too.
TeleportNear(p, m) ==
  /\ Id[player[p].map] = Id[m]
  /\ m \in Instance => m = player[p].map
  /\ player' = [player EXCEPT ![p].dest = m, ![p].far = FALSE]
  /\ UNCHANGED <<scheduled, switches>>

\* Player::Update() finds that p has walked to another part of the continent.
ScheduleInstanceSwitch(p, m) ==
  /\ {m, player[p].map} \subseteq Continent
  /\ Id[player[p].map] = Id[m] /\ m # player[p].map
  /\ ~player[p].pending /\ ~player[p].far
  /\ switches' = [switches EXCEPT ![p] = m]
  /\ UNCHANGED <<player, scheduled>>

UpdatePlayers(p) ==
  /\ player[p].map \in Running(Map)
  /\ \E m \in Map : ScheduleFarTeleport(p, m) \/ TeleportNear(p, m) \/ ScheduleInstanceSwitch(p, m)
  /\ UNCHANGED <<world, asyncMapUpdating, mapVars, newInstances, batch>>

\* f.wait() for the job of the instances.
JoinInstances ==
  /\ world = "working"
  /\ \A m \in Instance : at[m] \in {"none", "done"}
  /\ world' = "deciding"
  /\ UNCHANGED <<asyncMapUpdating, mapVars, teleportVars>>

\* waitContinentUpdateFinishedUntil(): all continents have finished, or it is
\* time to update the instances again.
StopInstances ==
  /\ world = "deciding"
  /\ ContinentUpdateFinished
  /\ world' = "joining"
  /\ UNCHANGED <<asyncMapUpdating, mapVars, teleportVars>>

RepeatInstances ==
  /\ world = "deciding"
  /\ ~ContinentUpdateFinished
  /\ at' = [m \in Map |-> IF m \in Updated(Instance) THEN "queued" ELSE at[m]]
  /\ world' = "working"
  /\ UNCHANGED <<asyncMapUpdating, maps, closed, finished, maxThreads, workers, teleportVars>>

\* continents.wait()
ContinentsJoined == \A m \in Continent : at[m] \in {"none", "done"}

\* SwitchPlayersInstances(), with no map being updated.
JoinContinents ==
  LET switching == {p \in Player : /\ switches[p] # None
                                   /\ player[p].map # None
                                   /\ Id[player[p].map] = Id[switches[p]]}
  IN
  /\ world = "joining"
  /\ ContinentsJoined
  /\ player' = [p \in Player |->
       IF p \in switching
       THEN [player[p] EXCEPT !.map = switches[p], !.last = switches[p]]
       ELSE player[p]]
  /\ maps' = maps \cup {switches[p] : p \in switching}
  /\ switches' = [p \in Player |-> None]
  /\ asyncMapUpdating' = FALSE
  /\ batch' = newInstances
  /\ newInstances' = {}
  /\ world' = "creating"
  /\ UNCHANGED <<closed, at, finished, maxThreads, workers, scheduled>>

\* Mutant: who may not enter is put off to the next update.
CreateNewInstanceOrRetry(p) ==
  LET q == player[p] IN
  /\ world = "creating"
  /\ p \in batch
  /\ batch' = batch \ {p}
  /\ maps' = maps \cup {q.dest}
  /\ IF CanEnter(q.dest)
     THEN player' = [player EXCEPT ![p].told = TRUE] /\ UNCHANGED newInstances
     ELSE newInstances' = newInstances \cup {p} /\ UNCHANGED player
  /\ UNCHANGED <<world, asyncMapUpdating, closed, at, finished, maxThreads, workers,
                 scheduled, switches>>

\* CreateNewInstancesForPlayersSync() for one player of the batch.
CreateNewInstance(p) ==
  LET q == player[p] IN
  /\ world = "creating"
  /\ p \in batch
  /\ batch' = batch \ {p}
  /\ IF ~q.far
     THEN UNCHANGED <<maps, player, newInstances>>
     ELSE /\ maps' = maps \cup {q.dest}
          /\ IF CanEnter(q.dest)
             THEN /\ player' = [player EXCEPT ![p].told = TRUE]
                  /\ UNCHANGED newInstances
             ELSE ReturnOnTeleportFail(p, q, q.last, maps')
  /\ UNCHANGED <<world, asyncMapUpdating, closed, at, finished, maxThreads, workers,
                 scheduled, switches>>

EndCreation ==
  /\ world = "creating"
  /\ batch = {}
  /\ world' = "teleporting"
  /\ UNCHANGED <<asyncMapUpdating, mapVars, teleportVars>>

\* The instances that are empty for long enough are unloaded.
EndUpdate ==
  /\ world = "teleporting"
  /\ NothingScheduled
  /\ \E U \in SUBSET {m \in maps \cap Instance : In(m) = {}} :
       maps' = maps \ U /\ closed' = closed \ U
  /\ world' = "joined"
  /\ UNCHANGED <<asyncMapUpdating, at, finished, maxThreads, workers, teleportVars>>

UpdateStep ==
  \/ BeginUpdate \/ JoinInstances \/ StopInstances \/ RepeatInstances
  \/ JoinContinents \/ EndCreation \/ EndUpdate
  \/ \E p \in Player : ExecuteSingleDelayedTeleport(p) \/ CreateNewInstance(p)

MapStep(m) ==
  \/ StartContinent(m) \/ MarkContinentUpdateFinished(m) \/ LeaveWait(m) \/ EndContinent(m)
  \/ StartInstance(m) \/ EndInstance(m)
=============================================================================
