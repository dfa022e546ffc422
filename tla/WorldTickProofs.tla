-------------------------- MODULE WorldTickProofs ---------------------------
(***************************************************************************)
(* The order of a tick, for every number of players, continents, instances *)
(* and threads: the continents wait for one another, nobody is lost on the *)
(* way from one map to another, every task is executed once, and the world *)
(* changes only while nothing else runs.                                   *)
(***************************************************************************)
EXTENDS WorldTick, FiniteSetTheorems, TLAPS

Busy == {"working", "deciding", "joining"}

\* What a phase of the world thread finds settled.
PhaseInv ==
  /\ world \notin Busy => \A m \in Map : at[m] \in {"none", "done"}
  /\ world \in {"deciding", "joining"} => \A m \in Instance : at[m] \in {"none", "done"}
  /\ world \in {"adding", "sessions", "tasks", "results"} => running = {}
  /\ world # "creating" => batch = {}
  /\ world \notin Busy => \A p \in Player : switches[p] = None

\* What NobodyLost leaves open: who is awaited by MapManager was not told
\* where to go, and only a player on a map is about to leave it.
TravelInv ==
  /\ newInstances \cap batch = {}
  /\ \A p \in Player :
       /\ player[p].told => player[p].far
       /\ p \in newInstances \cup batch => player[p].far /\ ~player[p].told
       /\ player[p].pending => player[p].map # None

TickInv ==
  /\ TypeOK /\ PhaseInv /\ TravelInv
  /\ BarrierHolds /\ NobodyLost /\ TaskOnce

----------------------------------------------------------------------------

\* Tasks and those who wait for them stay in step: a task is added together with
\* the mark of who waits, and executed together with its removal.
LEMMA TaskOnceNext ==
  ASSUME TickInv, Next
  PROVE  TaskOnce'
<1>1. ASSUME UNCHANGED <<asyncTasks, running, searching, charged>>
      PROVE  TaskOnce'
  BY <1>1 DEF TickInv, TaskOnce
<1>2. CASE WorldThread
  <2>1. CASE SubmitTasks
    BY <2>1 DEF TickInv, PhaseInv, TaskOnce, SubmitTasks, Submit
  <2>2. CASE EndAdding \/ EndSessions \/ UpdateMaps \/ SkipMaps \/ JoinTasks \/ NextUpdate
    BY <1>1, <2>2 DEF EndAdding, EndSessions, UpdateMaps, SkipMaps, JoinTasks,
         NextUpdate, tickVars
  <2> QED
    BY <1>2, <2>1, <2>2 DEF WorldThread
<1>3. ASSUME NEW m \in Map, MapThread(m) \/ (OtherPlayers(m) /\ UNCHANGED tickVars)
      PROVE  TaskOnce'
  BY <1>1, <1>3 DEF MapThread, tickVars
<1>4. ASSUME NEW t \in Task, ExecuteTask(t)
      PROVE  TaskOnce'
  BY <1>4 DEF TickInv, TaskOnce, ExecuteTask, Task
<1>5. ASSUME NEW p \in Player,
             \/ AddSession(p) \/ HandlePacket(p) \/ LoginCallback(p)
             \/ UpdatePlayers(p) /\ UNCHANGED tickVars
             \/ ReadSession(p)
      PROVE  TaskOnce'
  BY <1>1, <1>5 DEF AddSession, HandlePacket, LoginCallback, ReadSession, tickVars
<1>6. ASSUME NEW p \in Player, Logout(p) \/ DeleteSession(p)
      PROVE  TaskOnce'
  BY <1>6 DEF TickInv, TaskOnce, Logout, DeleteSession
<1>7. ASSUME NEW p \in Player, HandleAuctionListItems(p)
      PROVE  TaskOnce'
  BY <1>7 DEF TickInv, PhaseInv, TaskOnce, HandleAuctionListItems, AddAsyncTask
<1>8. ASSUME NEW p \in Player, BuyItem(p)
      PROVE  TaskOnce'
  BY <1>8 DEF TickInv, TaskOnce, BuyItem, AddAsyncTask
<1>9. CASE ReadEnd
  BY <1>1, <1>9 DEF ReadEnd
<1> QED
  BY <1>2, <1>3, <1>4, <1>5, <1>6, <1>7, <1>8, <1>9 DEF Next

\* The world thread leaves a phase only when what the next one needs is settled.
LEMMA PhaseNext ==
  ASSUME TickInv, Next
  PROVE  PhaseInv'
<1> USE MapAssumption DEF PhaseInv, Busy, Map
<1> TypeOK /\ PhaseInv
  BY DEF TickInv
<1>1. CASE EndAdding \/ EndSessions \/ SkipMaps \/ JoinTasks \/ NextUpdate
  BY <1>1 DEF EndAdding, EndSessions, SkipMaps, JoinTasks, NextUpdate,
       mapVars, teleportVars, tickVars
<1>2. CASE SubmitTasks
  BY <1>2 DEF SubmitTasks, mapVars, teleportVars
<1>3. CASE UpdateMaps
  <2>1. CASE BeginUpdate
    BY <1>3, <2>1 DEF UpdateMaps, BeginUpdate, TypeOK, tickVars, teleportVars
  <2>2. CASE JoinInstances \/ StopInstances
    BY <1>3, <2>2 DEF UpdateMaps, JoinInstances, StopInstances, tickVars, mapVars,
         teleportVars
  <2>3. CASE RepeatInstances
    BY <1>3, <2>3 DEF UpdateMaps, RepeatInstances, tickVars, teleportVars
  <2>4. CASE JoinContinents
    BY <1>3, <2>4 DEF UpdateMaps, JoinContinents, ContinentsJoined, tickVars
  <2>5. CASE EndCreation \/ EndUpdate
    BY <1>3, <2>5 DEF UpdateMaps, EndCreation, EndUpdate, tickVars, mapVars, teleportVars
  <2>6. ASSUME NEW p \in Player, ExecuteSingleDelayedTeleport(p)
        PROVE  PhaseInv'
    BY <1>3, <2>6 DEF UpdateMaps, ExecuteSingleDelayedTeleport, tickVars, mapVars
  <2>7. ASSUME NEW p \in Player, CreateNewInstance(p)
        PROVE  PhaseInv'
    BY <1>3, <2>7 DEF UpdateMaps, CreateNewInstance, tickVars
  <2> QED
    BY <1>3, <2>1, <2>2, <2>3, <2>4, <2>5, <2>6, <2>7 DEF UpdateMaps, UpdateStep
<1>4. ASSUME NEW m \in Map, MapThread(m)
      PROVE  PhaseInv'
  BY <1>4 DEF TypeOK, MapThread, MapStep, StartContinent, MarkContinentUpdateFinished,
       LeaveWait, EndContinent, StartInstance, EndInstance, tickVars, teleportVars
<1>5. ASSUME NEW m \in Map, OtherPlayers(m), UNCHANGED tickVars
      PROVE  PhaseInv'
  BY <1>5 DEF OtherPlayers, OpenOrClose, CreateForOthers, tickVars, teleportVars
<1>6. ASSUME NEW t \in Task, ExecuteTask(t)
      PROVE  PhaseInv'
  BY <1>6 DEF ExecuteTask, updateVars, mapVars, teleportVars
<1>7. ASSUME NEW p \in Player,
             AddSession(p) \/ DeleteSession(p) \/ HandleAuctionListItems(p)
             \/ BuyItem(p) \/ ReadSession(p) \/ ReadEnd
      PROVE  PhaseInv'
  BY <1>7 DEF AddSession, DeleteSession, HandleAuctionListItems, BuyItem, ReadSession,
       ReadEnd, updateVars, mapVars, teleportVars
<1>8. ASSUME NEW p \in Player, Logout(p)
      PROVE  PhaseInv'
  BY <1>8 DEF Logout, LogoutPlayer
<1>9. ASSUME NEW p \in Player, HandlePacket(p) \/ LoginCallback(p)
      PROVE  PhaseInv'
  BY <1>9 DEF HandlePacket, TeleportTo, HandleMoveWorldportAck, LoginCallback, Login,
       tickVars, mapVars
<1>10. ASSUME NEW p \in Player, UpdatePlayers(p), UNCHANGED tickVars
      PROVE  PhaseInv'
  BY <1>10 DEF TypeOK, UpdatePlayers, ScheduleFarTeleport, TeleportNear,
       ScheduleInstanceSwitch, Running, tickVars, mapVars
<1>11. CASE ReadEnd
  BY <1>11 DEF ReadEnd, updateVars, mapVars, teleportVars
<1> QED
  BY <1>1, <1>2, <1>3, <1>4, <1>5, <1>6, <1>7, <1>8, <1>9, <1>10, <1>11
     DEF Next, WorldThread

----------------------------------------------------------------------------
\* The continents that have finished, and wait for the others or go on.
Passed == {c \in Continent : at[c] \in {"wait", "finish", "done"}}

\* The sets the barrier counts are finite.
LEMMA CountedSets ==
  ASSUME TypeOK
  PROVE  /\ IsFiniteSet(Continent) /\ Cardinality(Continent) \in Nat
         /\ Passed \subseteq Updated(Continent) /\ Updated(Continent) \subseteq Continent
         /\ IsFiniteSet(Passed) /\ IsFiniteSet(Updated(Continent))
         /\ Cardinality(Passed) \in Nat
         /\ Cardinality(Updated(Continent)) \in Nat
         /\ Cardinality(Passed) <= Cardinality(Updated(Continent))
         /\ Cardinality(Updated(Continent)) <= Cardinality(Continent)
<1>1. IsFiniteSet(Continent)
  <2>1. Continent \in SUBSET Map
    BY DEF Map
  <2> QED
    BY <2>1, FS_Subset, MapAssumption
<1>2. Updated(Continent) \in SUBSET Continent /\ Passed \in SUBSET Updated(Continent)
  BY DEF Passed, Updated
<1>3. IsFiniteSet(Updated(Continent))
  BY <1>1, <1>2, FS_Subset
<1>4. IsFiniteSet(Passed)
  BY <1>2, <1>3, FS_Subset
<1>5. Cardinality(Passed) <= Cardinality(Updated(Continent))
  BY <1>2, <1>3, FS_Subset
<1>6. Cardinality(Updated(Continent)) <= Cardinality(Continent)
  BY <1>1, <1>2, FS_Subset
<1>7. /\ Cardinality(Continent) \in Nat /\ Cardinality(Passed) \in Nat
      /\ Cardinality(Updated(Continent)) \in Nat
  BY <1>1, <1>3, <1>4, FS_CardinalityType
<1> QED
  BY <1>1, <1>2, <1>3, <1>4, <1>5, <1>6, <1>7

\* While a continent still updates its players, fewer have finished than there are.
LEMMA OneMissing ==
  ASSUME TypeOK, NEW c \in Continent, at[c] \in {"queued", "update"}
  PROVE  Cardinality(Passed) < Cardinality(Updated(Continent))
<1>1. Cardinality(Passed) # Cardinality(Updated(Continent))
  <2>1. Passed # Updated(Continent)
    BY DEF Passed, Updated
  <2>2. Passed \in SUBSET Updated(Continent)
    BY CountedSets
  <2> QED
    BY <2>1, <2>2, CountedSets, FS_Subset
<1> QED
  BY <1>1, CountedSets

\* A step that leaves the progress of the continents and the counters alone.
LEMMA BarrierUntouched ==
  ASSUME BarrierHolds, world' \in Busy => world \in Busy,
         \A c \in Continent : at'[c] = at[c],
         UNCHANGED <<finished, maxThreads>>
  PROVE  BarrierHolds'
<1>1. Updated(Continent)' = Updated(Continent) /\ Passed' = Passed
  BY DEF Updated, Passed
<1> QED
  BY <1>1 DEF BarrierHolds, Passed, Busy

\* The continents of a new update have all yet to be started.
LEMMA BarrierBegins ==
  ASSUME TypeOK, BeginUpdate
  PROVE  BarrierHolds'
<1> PICK U \in SUBSET maps :
      /\ at' = [m \in Map |-> IF m \in U THEN "queued" ELSE "none"]
      /\ maxThreads' = Cardinality(U \cap Continent)
  BY DEF BeginUpdate
<1>1. Updated(Continent)' = U \cap Continent
  BY DEF Updated, Map
<1>2. Passed' = {}
  BY DEF Passed, Map
<1>3. finished' = Cardinality(Passed')
  BY <1>2, FS_EmptySet DEF BeginUpdate
<1>4. \A c \in Continent : at'[c] \in {"queued", "none"}
  BY DEF Map
<1> QED
  BY <1>1, <1>3, <1>4 DEF BarrierHolds, Passed

\* A continent that has finished counts itself; it is the last one exactly if
\* the count is then complete.
LEMMA BarrierCounts ==
  ASSUME TickInv, NEW c \in Continent, MarkContinentUpdateFinished(c)
  PROVE  BarrierHolds'
<1> c \in Map /\ at[c] = "update" /\ TypeOK /\ PhaseInv /\ BarrierHolds
  BY DEF Map, MarkContinentUpdateFinished, TickInv
<1>1. world \in Busy /\ world' = world
  BY DEF PhaseInv, MarkContinentUpdateFinished
<1>2. at' = [at EXCEPT ![c] = "wait"] /\ finished' = finished + 1 /\ maxThreads' = maxThreads
  BY DEF MarkContinentUpdateFinished
<1>3. Updated(Continent)' = Updated(Continent)
  BY <1>2 DEF Updated, TypeOK, Map
<1>4. Passed' = Passed \cup {c} /\ c \notin Passed
  BY <1>2 DEF Passed, TypeOK, Map
<1>5. finished = Cardinality(Passed) /\ maxThreads = Cardinality(Updated(Continent))
  BY <1>1 DEF BarrierHolds, Passed, Busy
<1>6. finished' = Cardinality(Passed')
  BY <1>2, <1>4, <1>5, FS_AddElement, CountedSets
<1>7. ASSUME NEW d \in Continent, at'[d] = "update"
      PROVE  finished' < maxThreads'
  <2>1. Passed' # Updated(Continent)'
    BY <1>7 DEF Passed, Updated
  <2>2. Passed' \in SUBSET Updated(Continent)
    BY <1>3, <1>4, CountedSets DEF Updated
  <2>3. Cardinality(Passed') <= Cardinality(Updated(Continent))
    BY <2>2, CountedSets, FS_Subset
  <2>4. Cardinality(Passed') # Cardinality(Updated(Continent))
    BY <2>1, <2>2, <1>3, CountedSets, FS_Subset
  <2> QED
    BY <2>3, <2>4, <1>2, <1>4, <1>5, <1>6, CountedSets
<1>8. ASSUME NEW d \in Continent, at'[d] \in {"finish", "done"}
      PROVE  Updated(Continent)' = Passed'
  BY <1>8, <1>2, <1>3, <1>4 DEF BarrierHolds, Passed, Updated, TypeOK, Map
<1> QED
  BY <1>1, <1>2, <1>3, <1>5, <1>6, <1>7, <1>8 DEF BarrierHolds, Passed

\* Who leaves the wait knows that nobody is missing.
LEMMA BarrierOpens ==
  ASSUME TickInv, NEW c \in Continent, LeaveWait(c)
  PROVE  BarrierHolds'
<1> c \in Map /\ TypeOK /\ PhaseInv /\ BarrierHolds
  BY DEF Map, TickInv
<1>1. world \in Busy /\ finished = maxThreads
  BY DEF PhaseInv, LeaveWait, ContinentUpdateFinished
<1>2. Updated(Continent) = Passed
  <2>1. Cardinality(Passed) = Cardinality(Updated(Continent))
    BY <1>1 DEF BarrierHolds, Passed, Busy
  <2> QED
    BY <2>1, CountedSets, FS_Subset
<1>3. Updated(Continent)' = Updated(Continent) /\ Passed' = Passed
  BY DEF LeaveWait, Updated, Passed, TypeOK, Map
<1> QED
  BY <1>1, <1>2, <1>3 DEF LeaveWait, BarrierHolds, Passed, TypeOK, Map

\* The progress of one map keeps the barrier.
LEMMA BarrierMapStep ==
  ASSUME TickInv, NEW m \in Map, MapStep(m)
  PROVE  BarrierHolds'
<1> TypeOK /\ PhaseInv /\ BarrierHolds
  BY DEF TickInv
<1>1. CASE StartContinent(m)
  <2>1. Updated(Continent)' = Updated(Continent) /\ Passed' = Passed
    BY <1>1 DEF StartContinent, Updated, Passed, TypeOK
  <2>2. world \in Busy /\ m \in Continent
    BY <1>1 DEF PhaseInv, StartContinent
  <2>3. finished < maxThreads
    BY <1>1, <2>2, OneMissing DEF StartContinent, BarrierHolds, Passed, Busy
  <2> QED
    BY <1>1, <2>1, <2>3 DEF StartContinent, BarrierHolds, Passed, TypeOK, Map
<1>2. CASE MarkContinentUpdateFinished(m)
  BY <1>2, BarrierCounts DEF MarkContinentUpdateFinished
<1>3. CASE LeaveWait(m) /\ m \in Continent
  BY <1>3, BarrierOpens
<1>4. CASE EndContinent(m) /\ m \in Continent
  <2>1. Updated(Continent)' = Updated(Continent) /\ Passed' = Passed
    BY <1>4 DEF EndContinent, Updated, Passed, TypeOK
  <2> QED
    BY <1>4, <2>1 DEF EndContinent, BarrierHolds, Passed, TypeOK
<1>5. CASE m \notin Continent /\ ~StartContinent(m) /\ ~MarkContinentUpdateFinished(m)
  <2>1. /\ UNCHANGED <<world, finished, maxThreads>>
        /\ \A c \in Continent : at'[c] = at[c]
    BY <1>5 DEF MapStep, LeaveWait, EndContinent, StartInstance, EndInstance, TypeOK, Map
  <2> QED
    BY <2>1, BarrierUntouched DEF Busy
<1>6. CASE (StartInstance(m) \/ EndInstance(m)) /\ m \in Continent
  BY <1>6, MapAssumption DEF StartInstance, EndInstance
<1> QED
  BY <1>1, <1>2, <1>3, <1>4, <1>5, <1>6 DEF MapStep

\* Every step keeps the barrier.
LEMMA BarrierNext ==
  ASSUME TickInv, Next
  PROVE  BarrierHolds'
<1> TypeOK /\ PhaseInv /\ BarrierHolds
  BY DEF TickInv
<1>1. CASE BeginUpdate
  BY <1>1, BarrierBegins
<1>2. ASSUME NEW m \in Map, MapThread(m)
      PROVE  BarrierHolds'
  BY <1>2, BarrierMapStep DEF MapThread
<1>3. CASE UpdateMaps /\ ~BeginUpdate
  <2>1. /\ UNCHANGED <<finished, maxThreads>>
        /\ \A c \in Continent : at'[c] = at[c]
        /\ world' \in Busy => world \in Busy
    BY <1>3, MapAssumption DEF UpdateMaps, UpdateStep, BeginUpdate, JoinInstances,
         StopInstances, RepeatInstances, JoinContinents, EndCreation, EndUpdate,
         ExecuteSingleDelayedTeleport, CreateNewInstance, Updated, Busy, Map, mapVars
  <2> QED
    BY <2>1, BarrierUntouched
<1>4. ASSUME NEW p \in Player,
             Logout(p) \/ HandlePacket(p) \/ LoginCallback(p) \/ UpdatePlayers(p)
      PROVE  BarrierHolds'
  <2>1. UNCHANGED <<world, at, finished, maxThreads>>
    BY <1>4 DEF Logout, LogoutPlayer, HandlePacket, TeleportTo, HandleMoveWorldportAck,
         LoginCallback, Login, UpdatePlayers, mapVars
  <2> QED
    BY <2>1, BarrierUntouched
<1>5. ASSUME NEW m \in Map, OtherPlayers(m)
      PROVE  BarrierHolds'
  BY <1>5, BarrierUntouched DEF OtherPlayers, OpenOrClose, CreateForOthers
<1>6. CASE \/ WorldThread /\ ~UpdateMaps
           \/ \E t \in Task : ExecuteTask(t)
           \/ \E p \in Player :
                AddSession(p) \/ DeleteSession(p) \/ HandleAuctionListItems(p)
                \/ BuyItem(p) \/ ReadSession(p)
           \/ ReadEnd
  <2>1. UNCHANGED mapVars /\ (world' \in Busy => world \in Busy)
    BY <1>6 DEF WorldThread, EndAdding, EndSessions, SubmitTasks, SkipMaps, JoinTasks,
         NextUpdate, ExecuteTask, AddSession, DeleteSession, HandleAuctionListItems,
         BuyItem, ReadSession, ReadEnd, updateVars, Busy
  <2> QED
    BY <2>1, BarrierUntouched DEF mapVars
<1> QED
  BY <1>1, <1>2, <1>3, <1>4, <1>5, <1>6 DEF Next, WorldThread

----------------------------------------------------------------------------
\* Types.  The count of finished continents stays within its bound because the
\* barrier holds.

\* The records of the players, and the sets of those on their way.
TravelType ==
  /\ player \in [Player -> PlayerType]
  /\ newInstances \subseteq Player /\ batch \subseteq Player
  /\ scheduled \in [Player -> Map \cup {None}]
  /\ switches \in [Player -> Continent \cup {None}]

MapType ==
  /\ maps \subseteq Map /\ closed \subseteq maps \cap Instance
  /\ at \in [Map -> Progress]
  /\ {finished, maxThreads, workers} \subseteq 0..Cardinality(Continent)

TickType ==
  /\ canProcess \in BOOLEAN
  /\ session \subseteq Player
  /\ reader \in Player \cup {None}
  /\ asyncTasks \subseteq Task /\ running \subseteq Task
  /\ searching \subseteq Player /\ charged \subseteq Player

\* Who departs stays a player record.
LEMMA DepartType ==
  ASSUME TravelType, NEW p \in Player, NEW q \in PlayerType, NEW M, Depart(p, q, M)
  PROVE  player' \in [Player -> PlayerType] /\ newInstances' \subseteq Player
<1>1. Departed(q, M) \in PlayerType
  BY DEF Departed, PlayerType, Awaits
<1> QED
  BY <1>1 DEF TravelType, Depart

\* Who is sent back stays a player record.
LEMMA ReturnType ==
  ASSUME TravelType, NEW p \in Player, NEW q \in PlayerType, NEW old \in Map, NEW M,
         ReturnOnTeleportFail(p, q, old, M)
  PROVE  player' \in [Player -> PlayerType] /\ newInstances' \subseteq Player
<1>1. [q EXCEPT !.dest = IF CanEnter(old) THEN old ELSE Home] \in PlayerType
  BY MapAssumption DEF PlayerType, Map
<1> QED
  BY <1>1, DepartType DEF ReturnOnTeleportFail

\* A character that is not loaded is a player record.
LEMMA NowhereType == Nowhere \in PlayerType
BY MapAssumption DEF Nowhere, PlayerType, Map

\* Types after a teleport by the world thread.
LEMMA TeleportType ==
  ASSUME TypeOK, NEW p \in Player, HandlePacket(p)
  PROVE  TravelType' /\ MapType'
<1> TravelType /\ MapType
  BY DEF TypeOK, TravelType, MapType
<1>1. CASE TeleportTo(p)
  <2> PICK m \in Map : Depart(p, [player[p] EXCEPT !.dest = m], maps)
    BY <1>1 DEF TeleportTo
  <2>1. [player[p] EXCEPT !.dest = m] \in PlayerType
    BY DEF TravelType, PlayerType
  <2>2. player' \in [Player -> PlayerType] /\ newInstances' \subseteq Player
    BY <2>1, DepartType
  <2> QED
    BY <1>1, <2>2 DEF TeleportTo, TravelType, MapType, mapVars
<1>2. CASE HandleMoveWorldportAck(p)
  <2> DEFINE q == [player[p] EXCEPT !.told = FALSE, !.last = player[p].dest]
  <2>1. q \in PlayerType /\ q.dest \in Map /\ player[p].last \in Map
    BY DEF TravelType, PlayerType
  <2>2. player' \in [Player -> PlayerType] /\ newInstances' \subseteq Player
    <3>1. CASE CanEnter(q.dest)
      <4>1. [q EXCEPT !.map = q.dest, !.far = FALSE] \in PlayerType
        BY <2>1 DEF PlayerType
      <4> QED
        BY <1>2, <3>1, <4>1 DEF HandleMoveWorldportAck, TravelType
    <3>2. CASE ~CanEnter(q.dest)
      BY <1>2, <2>1, <3>2, ReturnType DEF HandleMoveWorldportAck
    <3> QED
      BY <3>1, <3>2
  <2>3. maps' \subseteq Map /\ maps \subseteq maps'
    BY <1>2, <2>1 DEF HandleMoveWorldportAck, MapType
  <2> QED
    BY <1>2, <2>2, <2>3 DEF HandleMoveWorldportAck, TravelType, MapType
<1> QED
  BY <1>1, <1>2 DEF HandlePacket

\* Types after a login.
LEMMA LoginType ==
  ASSUME TypeOK, NEW p \in Player, Login(p)
  PROVE  TravelType' /\ MapType'
<1> TravelType /\ MapType
  BY DEF TypeOK, TravelType, MapType
<1> PICK m \in Map :
      LET q == [Nowhere EXCEPT !.on = TRUE, !.last = m] IN
      /\ maps' = maps \cup {m}
      /\ IF CanEnter(m)
         THEN /\ player' = [player EXCEPT ![p] = [q EXCEPT !.map = m, !.dest = m]]
              /\ UNCHANGED newInstances
         ELSE Depart(p, q, maps')
  BY DEF Login
<1> DEFINE q == [Nowhere EXCEPT !.on = TRUE, !.last = m]
<1>1. q \in PlayerType /\ [q EXCEPT !.map = m, !.dest = m] \in PlayerType
  BY NowhereType DEF PlayerType
<1>2. player' \in [Player -> PlayerType] /\ newInstances' \subseteq Player
  BY <1>1, DepartType DEF TravelType
<1> QED
  BY <1>2 DEF Login, TravelType, MapType

\* Types after a logout.
LEMMA LogoutType ==
  ASSUME TypeOK, NEW p \in Player, LogoutPlayer(p)
  PROVE  TravelType' /\ MapType'
<1>1. maps' \subseteq Map /\ maps \subseteq maps'
  BY MapAssumption DEF TypeOK, LogoutPlayer, PlayerType, Map
<1> QED
  BY <1>1, NowhereType DEF TypeOK, TravelType, MapType, LogoutPlayer

\* Types after what the update of a map does to a player.
LEMMA UpdatePlayersType ==
  ASSUME TypeOK, NEW p \in Player, UpdatePlayers(p)
  PROVE  TravelType' /\ MapType'
<1> PICK m \in Map :
      ScheduleFarTeleport(p, m) \/ TeleportNear(p, m) \/ ScheduleInstanceSwitch(p, m)
  BY DEF UpdatePlayers
<1>1. player' \in [Player -> PlayerType]
  BY DEF TypeOK, ScheduleFarTeleport, TeleportNear, ScheduleInstanceSwitch, PlayerType
<1>2. /\ scheduled' \in [Player -> Map \cup {None}]
      /\ switches' \in [Player -> Continent \cup {None}]
  BY DEF TypeOK, ScheduleFarTeleport, TeleportNear, ScheduleInstanceSwitch
<1> QED
  BY <1>1, <1>2 DEF TypeOK, TravelType, MapType, UpdatePlayers, mapVars

\* Types after the beginning of an update.
LEMMA BeginUpdateType ==
  ASSUME TypeOK, BeginUpdate
  PROVE  TravelType' /\ MapType'
<1> PICK U \in SUBSET maps :
      LET n == Cardinality(U \cap Continent) IN
      /\ at' = [m \in Map |-> IF m \in U THEN "queued" ELSE "none"]
      /\ finished' = 0
      /\ maxThreads' = n
      /\ workers' = ContinentPool(n)
  BY DEF BeginUpdate
<1>1. Cardinality(U \cap Continent) \in 0..Cardinality(Continent)
  <2>1. U \cap Continent \in SUBSET Continent
    OBVIOUS
  <2>2. IsFiniteSet(U \cap Continent)
        /\ Cardinality(U \cap Continent) <= Cardinality(Continent)
    BY <2>1, CountedSets, FS_Subset
  <2>3. Cardinality(U \cap Continent) \in Nat
    BY <2>2, FS_CardinalityType
  <2> QED
    BY <2>2, <2>3, CountedSets
<1>2. at' \in [Map -> Progress]
  BY DEF Progress
<1>3. {finished', maxThreads', workers'} \subseteq 0..Cardinality(Continent)
  BY <1>1, CountedSets DEF TypeOK, ContinentPool
<1> QED
  BY <1>2, <1>3 DEF TypeOK, BeginUpdate, TravelType, MapType, teleportVars

\* Types after the progress of one map.
LEMMA MapStepType ==
  ASSUME TickInv, NEW m \in Map, MapStep(m)
  PROVE  TravelType' /\ MapType'
<1> TypeOK /\ PhaseInv /\ BarrierHolds
  BY DEF TickInv
<1>1. at' \in [Map -> Progress]
  BY DEF MapStep, StartContinent, MarkContinentUpdateFinished, LeaveWait, EndContinent,
       StartInstance, EndInstance, TypeOK, Progress
<1>2. finished' \in 0..Cardinality(Continent)
  <2>1. CASE MarkContinentUpdateFinished(m)
    <3>1. finished < maxThreads /\ finished' = finished + 1
      BY <2>1 DEF MarkContinentUpdateFinished, BarrierHolds
    <3> QED
      BY <3>1, CountedSets DEF TypeOK
  <2>2. CASE ~MarkContinentUpdateFinished(m)
    BY <2>2 DEF MapStep, StartContinent, LeaveWait, EndContinent, StartInstance,
         EndInstance, TypeOK
  <2> QED
    BY <2>1, <2>2
<1> QED
  BY <1>1, <1>2 DEF MapStep, StartContinent, MarkContinentUpdateFinished, LeaveWait,
       EndContinent, StartInstance, EndInstance, TypeOK, TravelType, MapType, teleportVars

\* Types after the world thread's part of an update.
LEMMA UpdateStepType ==
  ASSUME TickInv, UpdateStep
  PROVE  TravelType' /\ MapType'
<1> TypeOK
  BY DEF TickInv
<1> TravelType /\ MapType
  BY DEF TypeOK, TravelType, MapType
<1>1. CASE JoinInstances \/ StopInstances \/ EndCreation
  BY <1>1 DEF JoinInstances, StopInstances, EndCreation, TravelType, MapType,
       mapVars, teleportVars
<1>2. CASE RepeatInstances
  <2>1. at' \in [Map -> Progress]
    BY <1>2 DEF RepeatInstances, MapType, Progress
  <2> QED
    BY <1>2, <2>1 DEF RepeatInstances, TravelType, MapType, teleportVars
<1>3. CASE JoinContinents
  <2>1. player' \in [Player -> PlayerType]
    <3>1. ASSUME NEW p \in Player, switches[p] # None
          PROVE  [player[p] EXCEPT !.map = switches[p], !.last = switches[p]] \in PlayerType
      BY <3>1 DEF TravelType, PlayerType, Map
    <3> QED
      BY <1>3, <3>1 DEF JoinContinents, TravelType
  <2>2. maps' \subseteq Map /\ maps \subseteq maps'
    BY <1>3 DEF JoinContinents, TravelType, MapType, Map
  <2> QED
    BY <1>3, <2>1, <2>2 DEF JoinContinents, TravelType, MapType
<1>4. CASE EndUpdate
  BY <1>4 DEF EndUpdate, TravelType, MapType, teleportVars
<1>5. ASSUME NEW p \in Player, ExecuteSingleDelayedTeleport(p)
      PROVE  TravelType' /\ MapType'
  <2> DEFINE q == [player[p] EXCEPT !.pending = FALSE]
  <2>1. q \in PlayerType /\ [q EXCEPT !.far = FALSE] \in PlayerType
    BY DEF TravelType, PlayerType
  <2>2. player' \in [Player -> PlayerType] /\ newInstances' \subseteq Player
    BY <1>5, <2>1, DepartType DEF ExecuteSingleDelayedTeleport, TravelType
  <2> QED
    BY <1>5, <2>2 DEF ExecuteSingleDelayedTeleport, TravelType, MapType, mapVars
<1>6. ASSUME NEW p \in Player, CreateNewInstance(p)
      PROVE  TravelType' /\ MapType'
  <2>1. player[p] \in PlayerType /\ player[p].dest \in Map /\ player[p].last \in Map
        /\ [player[p] EXCEPT !.told = TRUE] \in PlayerType
    BY DEF TravelType, PlayerType
  <2>2. player' \in [Player -> PlayerType] /\ newInstances' \subseteq Player
    BY <1>6, <2>1, ReturnType DEF CreateNewInstance, TravelType
  <2>3. maps' \subseteq Map /\ maps \subseteq maps'
    BY <1>6, <2>1 DEF CreateNewInstance, MapType
  <2> QED
    BY <1>6, <2>2, <2>3 DEF CreateNewInstance, TravelType, MapType
<1> QED
  BY <1>1, <1>2, <1>3, <1>4, <1>5, <1>6, BeginUpdateType DEF UpdateStep

\* Every step keeps the types.
LEMMA TypeNext ==
  ASSUME TickInv, Next
  PROVE  TypeOK'
<1> TypeOK /\ PhaseInv
  BY DEF TickInv
<1> DEFINE Phases == MapPhase \cup {"adding", "sessions", "tasks", "joined", "results"}
<1>1. ASSUME UNCHANGED <<maps, closed, at, finished, maxThreads, workers, teleportVars>>
      PROVE  TravelType' /\ MapType'
  BY <1>1 DEF TypeOK, TravelType, MapType, teleportVars
<1>2. TravelType' /\ MapType'
  <2>1. CASE WorldThread /\ ~UpdateMaps
    BY <1>1, <2>1 DEF WorldThread, EndAdding, EndSessions, SubmitTasks, SkipMaps,
         JoinTasks, NextUpdate, mapVars
  <2>2. CASE UpdateMaps
    BY <2>2, UpdateStepType DEF UpdateMaps
  <2>3. ASSUME NEW m \in Map, MapThread(m)
        PROVE  TravelType' /\ MapType'
    BY <2>3, MapStepType DEF MapThread
  <2>4. ASSUME NEW m \in Map, OtherPlayers(m)
        PROVE  TravelType' /\ MapType'
    BY <2>4 DEF OtherPlayers, OpenOrClose, CreateForOthers, TypeOK, TravelType, MapType,
         teleportVars
  <2>5. ASSUME NEW p \in Player, Logout(p) \/ HandlePacket(p) \/ LoginCallback(p)
                                 \/ UpdatePlayers(p)
        PROVE  TravelType' /\ MapType'
    BY <2>5, LogoutType, TeleportType, LoginType, UpdatePlayersType
       DEF Logout, LoginCallback
  <2>6. CASE \/ \E t \in Task : ExecuteTask(t)
             \/ \E p \in Player :
                  AddSession(p) \/ DeleteSession(p) \/ HandleAuctionListItems(p)
                  \/ BuyItem(p) \/ ReadSession(p)
             \/ ReadEnd
    BY <1>1, <2>6 DEF ExecuteTask, AddSession, DeleteSession, HandleAuctionListItems,
         BuyItem, ReadSession, ReadEnd, updateVars, mapVars
  <2> QED
    BY <2>1, <2>2, <2>3, <2>4, <2>5, <2>6 DEF Next, WorldThread
<1>3. world' \in Phases /\ asyncMapUpdating' \in BOOLEAN
  <2>1. CASE WorldThread
    BY <2>1 DEF TypeOK, MapPhase, WorldThread, EndAdding, EndSessions, SubmitTasks, SkipMaps,
         JoinTasks, NextUpdate, UpdateMaps, UpdateStep, BeginUpdate, JoinInstances,
         StopInstances, RepeatInstances, JoinContinents, EndCreation, EndUpdate,
         ExecuteSingleDelayedTeleport, CreateNewInstance
  <2>2. CASE ~WorldThread
    <3>1. UNCHANGED <<world, asyncMapUpdating>>
      BY <2>2 DEF Next, MapThread, MapStep, StartContinent, MarkContinentUpdateFinished,
           LeaveWait, EndContinent, StartInstance, EndInstance, OtherPlayers, OpenOrClose,
           CreateForOthers, ExecuteTask, AddSession, Logout, LogoutPlayer, DeleteSession,
           HandlePacket, TeleportTo, HandleMoveWorldportAck, HandleAuctionListItems,
           LoginCallback, Login, UpdatePlayers, BuyItem, ReadSession, ReadEnd, updateVars
    <3> QED
      BY <3>1 DEF TypeOK
  <2> QED
    BY <2>1, <2>2
<1>4. TickType'
  <2> TickType
    BY DEF TypeOK, TickType
  <2>1. CASE WorldThread
    BY <2>1 DEF WorldThread, EndAdding, EndSessions, SubmitTasks, Submit, SkipMaps,
         JoinTasks, NextUpdate, UpdateMaps, tickVars, TickType
  <2>2. ASSUME NEW m \in Map, MapThread(m) \/ (OtherPlayers(m) /\ UNCHANGED tickVars)
        PROVE  TickType'
    BY <2>2 DEF MapThread, tickVars, TickType
  <2>3. ASSUME NEW t \in Task, ExecuteTask(t)
        PROVE  TickType'
    BY <2>3 DEF ExecuteTask, TickType
  <2>4. ASSUME NEW p \in Player,
               \/ AddSession(p) \/ Logout(p) \/ DeleteSession(p) \/ HandlePacket(p)
               \/ LoginCallback(p) \/ ReadSession(p)
               \/ (UpdatePlayers(p) /\ UNCHANGED tickVars)
        PROVE  TickType'
    BY <2>4 DEF AddSession, Logout, DeleteSession, HandlePacket, LoginCallback,
         ReadSession, tickVars, TickType
  <2>5. ASSUME NEW p \in Player, HandleAuctionListItems(p) \/ BuyItem(p)
        PROVE  TickType'
    BY <2>5 DEF HandleAuctionListItems, BuyItem, AddAsyncTask, Task, TickType
  <2>6. CASE ReadEnd
    BY <2>6 DEF ReadEnd, TickType
  <2> QED
    BY <2>1, <2>2, <2>3, <2>4, <2>5, <2>6 DEF Next
<1> HIDE DEF Phases
<1> QED
  BY <1>2, <1>3, <1>4 DEF TypeOK, TravelType, MapType, TickType, Phases

----------------------------------------------------------------------------
\* Travellers.  What NobodyLost and TravelInv say of one player.
Traced(p) ==
  LET q == player[p]
      awaited == p \in newInstances \cup batch
  IN
  /\ IF q.map # None THEN q.map \in maps /\ ~q.far ELSE q.far = q.on
  /\ q.far = (q.told # awaited)
  /\ awaited => q.dest \in Instance /\ q.far /\ ~q.told
  /\ q.pending = (scheduled[p] # None)
  /\ q.pending => /\ q.map # None
                  /\ world \in {"working", "deciding", "joining", "creating", "teleporting"}
  /\ ~q.on => q = Nowhere /\ scheduled[p] = None /\ switches[p] = None
  /\ q.told => q.far
  /\ p \notin newInstances \cap batch

\* The two invariants say it of every player, and nothing else.
LEMMA AllTraced ==
  ASSUME TypeOK, TravelInv, NobodyLost
  PROVE  \A p \in Player : Traced(p)
BY DEF TypeOK, TravelInv, NobodyLost, Traced

\* The converse, after a step.
LEMMA TracedAll ==
  ASSUME TypeOK', \A p \in Player : Traced(p)'
  PROVE  TravelInv' /\ NobodyLost'
<1>1. TravelInv'
  BY DEF TypeOK, TravelInv, Traced
<1>2. NobodyLost'
  BY DEF NobodyLost, Traced
<1> QED
  BY <1>1, <1>2

\* A player whom a step does not concern.
LEMMA OthersTraced ==
  ASSUME NEW p \in Player, Traced(p),
         player'[p] = player[p], scheduled'[p] = scheduled[p],
         switches'[p] \in {switches[p], None},
         p \in newInstances' <=> p \in newInstances, p \in batch' <=> p \in batch,
         player[p].map # None => player[p].map \in maps',
         scheduled[p] # None =>
           world' \in {"working", "deciding", "joining", "creating", "teleporting"}
  PROVE  Traced(p)'
<1> DEFINE q == player[p]
           awaited == p \in newInstances \cup batch
<1>1. q' = q /\ awaited' = awaited /\ (scheduled[p] # None)' = (scheduled[p] # None)
  OBVIOUS
<1>2. /\ IF q.map # None THEN q.map \in maps' /\ ~q.far ELSE q.far = q.on
      /\ p \notin newInstances' \cap batch'
  BY DEF Traced
<1>3. /\ q.far = (q.told # awaited)
      /\ awaited => q.dest \in Instance /\ q.far /\ ~q.told
      /\ q.told => q.far
  BY DEF Traced
<1>4. q.pending = (scheduled[p] # None)
  BY DEF Traced
<1>5. q.pending => /\ q.map # None
                   /\ world' \in {"working", "deciding", "joining", "creating", "teleporting"}
  BY <1>4 DEF Traced
<1>6. ~q.on => q = Nowhere /\ scheduled'[p] = None /\ switches'[p] = None
  BY DEF Traced
<1> HIDE DEF awaited
<1> QED
  BY <1>1, <1>2, <1>3, <1>4, <1>5, <1>6 DEF Traced, awaited

\* Who departs is told where to go, or awaits the creation of an instance.
LEMMA DepartTraced ==
  ASSUME TravelType, NEW p \in Player, NEW q \in PlayerType, NEW M,
         Depart(p, q, M), q.on, ~q.pending,
         p \notin newInstances, p \notin batch', scheduled'[p] = None
  PROVE  Traced(p)'
<1>1. player'[p] = Departed(q, M)
  BY DEF Depart, TravelType
<1>2. p \in newInstances' <=> Awaits(q, M)
  BY DEF Depart
<1>3. /\ player'[p].map = None /\ player'[p].far = TRUE /\ player'[p].told = ~Awaits(q, M)
      /\ player'[p].on = q.on /\ player'[p].pending = q.pending /\ player'[p].dest = q.dest
  BY <1>1 DEF Departed, PlayerType
<1>4. q.pending = FALSE /\ q.on = TRUE /\ Awaits(q, M) \in BOOLEAN
  BY DEF PlayerType, Awaits
<1> QED
  BY <1>2, <1>3, <1>4 DEF Traced, Awaits

\* Who departs leaves the others alone.
LEMMA DepartOthers ==
  ASSUME NEW p \in Player, NEW q, NEW M, Depart(p, q, M), TravelType,
         NEW o \in Player, o # p
  PROVE  player'[o] = player[o] /\ (o \in newInstances' <=> o \in newInstances)
BY DEF Depart, TravelType

\* The same of one whose teleport has failed.
LEMMA ReturnTraced ==
  ASSUME TravelType, NEW p \in Player, NEW q \in PlayerType, NEW old \in Map, NEW M,
         ReturnOnTeleportFail(p, q, old, M), q.on, ~q.pending,
         p \notin newInstances, p \notin batch', scheduled'[p] = None
  PROVE  /\ Traced(p)'
         /\ \A o \in Player \ {p} :
              player'[o] = player[o] /\ (o \in newInstances' <=> o \in newInstances)
<1> DEFINE r == [q EXCEPT !.dest = IF CanEnter(old) THEN old ELSE Home]
<1>1. r \in PlayerType /\ r.on = q.on /\ r.pending = q.pending
  BY MapAssumption DEF PlayerType, Map
<1>2. Depart(p, r, M)
  BY DEF ReturnOnTeleportFail
<1> HIDE DEF r
<1>3. Traced(p)'
  BY <1>1, <1>2, DepartTraced
<1>4. \A o \in Player \ {p} :
        player'[o] = player[o] /\ (o \in newInstances' <=> o \in newInstances)
  BY <1>2, DepartOthers
<1> QED
  BY <1>3, <1>4

\* What a player is known to be, by where it is.
LEMMA TracedFacts ==
  ASSUME TypeOK, NEW p \in Player, Traced(p)
  PROVE  /\ player[p] \in PlayerType
         /\ player[p].map # None =>
              /\ player[p].on /\ ~player[p].far /\ ~player[p].told
              /\ p \notin newInstances /\ p \notin batch
         /\ player[p].told => player[p].on /\ player[p].map = None
         /\ player[p].told \/ p \in newInstances \cup batch =>
              /\ player[p].on /\ player[p].map = None
              /\ ~player[p].pending /\ scheduled[p] = None
         /\ scheduled[p] # None => player[p].pending /\ player[p].map # None
         /\ world \in {"adding", "sessions", "results", "maps", "joined"} =>
              scheduled[p] = None /\ ~player[p].pending
         /\ ~player[p].on =>
              /\ player[p] = Nowhere /\ p \notin newInstances /\ p \notin batch
              /\ scheduled[p] = None /\ switches[p] = None
<1>1. player[p] \in PlayerType
  BY DEF TypeOK
<1>2. player[p].map # None =>
        /\ player[p].on /\ ~player[p].far /\ ~player[p].told
        /\ p \notin newInstances /\ p \notin batch
  BY <1>1 DEF Traced, Nowhere, PlayerType
<1>3. player[p].told => player[p].on /\ player[p].map = None
  BY <1>1 DEF Traced, Nowhere, PlayerType
<1>4. scheduled[p] # None => player[p].pending /\ player[p].map # None
  BY DEF Traced
<1>5. p \in newInstances \cup batch => player[p].on /\ player[p].map = None
  BY <1>1 DEF Traced, PlayerType
<1>6. player[p].pending => player[p].map # None
  BY DEF Traced
<1>7. world \in {"adding", "sessions", "results", "maps", "joined"} =>
        scheduled[p] = None /\ ~player[p].pending
  BY DEF Traced
<1>8. ~player[p].on => /\ player[p] = Nowhere
                       /\ scheduled[p] = None /\ switches[p] = None
  BY DEF Traced
<1> QED
  BY <1>1, <1>2, <1>3, <1>4, <1>5, <1>6, <1>7, <1>8

\* A player who is on a map.
LEMMA OnMapTraced ==
  ASSUME NEW p \in Player,
         player'[p].map # None, player'[p].map \in maps',
         player'[p].far = FALSE, player'[p].told = FALSE, player'[p].on = TRUE,
         p \notin newInstances', p \notin batch',
         player'[p].pending = (scheduled'[p] # None),
         scheduled'[p] # None =>
           world' \in {"working", "deciding", "joining", "creating", "teleporting"}
  PROVE  Traced(p)'
<1> DEFINE awaited == p \in newInstances \cup batch
<1>1. awaited' = FALSE
  OBVIOUS
<1> HIDE DEF awaited
<1> QED
  BY <1>1 DEF Traced, awaited

\* A handler of the world thread teleports a player.
LEMMA TeleportTraced ==
  ASSUME TickInv, \A p \in Player : Traced(p), NEW p \in Player, HandlePacket(p)
  PROVE  \A o \in Player : Traced(o)'
<1> TypeOK /\ TravelType /\ PhaseInv
  BY DEF TickInv, TypeOK, TravelType
<1> world = "sessions" /\ world' = world /\ batch = {}
  BY DEF HandlePacket, TeleportTo, HandleMoveWorldportAck, PhaseInv
<1>1. CASE TeleportTo(p)
  <2> PICK m \in Map : Depart(p, [player[p] EXCEPT !.dest = m], maps)
    BY <1>1 DEF TeleportTo
  <2> DEFINE q == [player[p] EXCEPT !.dest = m]
  <2>1. UNCHANGED <<maps, batch, scheduled, switches>> /\ player[p].map # None
    BY <1>1 DEF TeleportTo, mapVars
  <2>2. q \in PlayerType /\ q.on = player[p].on /\ q.pending = player[p].pending
    BY DEF TravelType, PlayerType
  <2> HIDE DEF q
  <2>3. Traced(p)'
    BY <2>1, <2>2, TracedFacts, DepartTraced DEF q
  <2>4. ASSUME NEW o \in Player, o # p
        PROVE  Traced(o)'
    BY <2>1, <2>4, TracedFacts, DepartOthers, OthersTraced DEF q, Traced
  <2> QED
    BY <2>3, <2>4
<1>2. CASE HandleMoveWorldportAck(p)
  <2> DEFINE q == [player[p] EXCEPT !.told = FALSE, !.last = player[p].dest]
  <2>1. /\ q \in PlayerType /\ q.dest \in Map /\ q.on = player[p].on
        /\ q.pending = player[p].pending /\ q.dest = player[p].dest
        /\ q.told = FALSE /\ player[p].last \in Map
    BY DEF TravelType, PlayerType
  <2>2. /\ UNCHANGED <<batch, scheduled, switches>> /\ maps' = maps \cup {q.dest}
        /\ player[p].told
    BY <1>2 DEF HandleMoveWorldportAck
  <2>3. /\ player[p].on /\ p \notin newInstances /\ p \notin batch
        /\ ~player[p].pending /\ scheduled[p] = None
    BY <2>2, TracedFacts DEF Traced
  <2>4. CASE CanEnter(q.dest)
    <3>1. player' = [player EXCEPT ![p] = [q EXCEPT !.map = q.dest, !.far = FALSE]]
          /\ newInstances' = newInstances
      BY <1>2, <2>4 DEF HandleMoveWorldportAck
    <3>2. /\ player'[p].map = q.dest /\ player'[p].far = FALSE /\ player'[p].told = FALSE
          /\ player'[p].pending = FALSE /\ player'[p].on = TRUE
      BY <3>1, <2>1, <2>3 DEF TravelType, PlayerType
    <3>3. player'[p].map # None /\ player'[p].map \in maps'
      BY <3>2, <2>1, <2>2, MapAssumption
    <3>4. p \notin newInstances' /\ p \notin batch' /\ scheduled'[p] = None
      BY <3>1, <2>2, <2>3
    <3> HIDE DEF q
    <3>5. Traced(p)'
      BY <3>2, <3>3, <3>4, OnMapTraced
    <3>6. ASSUME NEW o \in Player, o # p
          PROVE  Traced(o)'
      BY <3>1, <3>6, <2>2, TracedFacts, OthersTraced DEF Traced, TravelType
    <3> QED
      BY <3>5, <3>6
  <2>5. CASE ~CanEnter(q.dest)
    <3>1. ReturnOnTeleportFail(p, q, player[p].last, maps')
      BY <1>2, <2>5 DEF HandleMoveWorldportAck
    <3> HIDE DEF q
    <3>2. /\ Traced(p)'
          /\ \A o \in Player \ {p} :
               player'[o] = player[o] /\ (o \in newInstances' <=> o \in newInstances)
      BY <3>1, <2>1, <2>2, <2>3, ReturnTraced
    <3>3. ASSUME NEW o \in Player, o # p
          PROVE  Traced(o)'
      BY <3>2, <3>3, <2>2, TracedFacts, OthersTraced DEF Traced
    <3> QED
      BY <3>2, <3>3
  <2> QED
    BY <2>4, <2>5
<1> QED
  BY <1>1, <1>2 DEF HandlePacket

\* A character enters the world, or is sent home before it has.
LEMMA LoginTraced ==
  ASSUME TickInv, \A p \in Player : Traced(p), NEW p \in Player, LoginCallback(p)
  PROVE  \A o \in Player : Traced(o)'
<1> TypeOK /\ TravelType /\ PhaseInv
  BY DEF TickInv, TypeOK, TravelType
<1> world = "results" /\ world' = world /\ batch = {} /\ ~player[p].on
  BY DEF LoginCallback, Login, PhaseInv
<1> PICK m \in Map :
      LET q == [Nowhere EXCEPT !.on = TRUE, !.last = m] IN
      /\ maps' = maps \cup {m}
      /\ IF CanEnter(m)
         THEN /\ player' = [player EXCEPT ![p] = [q EXCEPT !.map = m, !.dest = m]]
              /\ UNCHANGED newInstances
         ELSE Depart(p, q, maps')
  BY DEF LoginCallback, Login
<1> DEFINE q == [Nowhere EXCEPT !.on = TRUE, !.last = m]
<1>1. q \in PlayerType /\ q.on = TRUE /\ q.pending = FALSE
  BY NowhereType DEF PlayerType, Nowhere
<1>2. UNCHANGED <<batch, scheduled, switches>>
  BY DEF LoginCallback, Login
<1>3. p \notin newInstances /\ p \notin batch /\ scheduled[p] = None
  BY TracedFacts
<1>4. CASE CanEnter(m)
  <2>1. player' = [player EXCEPT ![p] = [q EXCEPT !.map = m, !.dest = m]]
        /\ newInstances' = newInstances /\ maps' = maps \cup {m}
    BY <1>4
  <2>2. /\ player'[p].map = m /\ player'[p].far = FALSE /\ player'[p].told = FALSE
        /\ player'[p].pending = FALSE /\ player'[p].on = TRUE
    BY <2>1 DEF TravelType, Nowhere
  <2>3. player'[p].map # None /\ player'[p].map \in maps'
    BY <2>1, <2>2, MapAssumption
  <2>4. p \notin newInstances' /\ p \notin batch' /\ scheduled'[p] = None
    BY <2>1, <1>2, <1>3
  <2>5. Traced(p)'
    BY <2>2, <2>3, <2>4, OnMapTraced
  <2>6. ASSUME NEW o \in Player, o # p
        PROVE  Traced(o)'
    BY <2>1, <2>6, <1>2, TracedFacts, OthersTraced DEF Traced, TravelType
  <2> QED
    BY <2>5, <2>6
<1>5. CASE ~CanEnter(m)
  <2>1. Depart(p, q, maps') /\ maps' = maps \cup {m}
    BY <1>5
  <2> HIDE DEF q
  <2>2. Traced(p)'
    BY <2>1, <1>1, <1>2, <1>3, DepartTraced
  <2>3. ASSUME NEW o \in Player, o # p
        PROVE  Traced(o)'
    BY <2>1, <2>3, <1>2, TracedFacts, DepartOthers, OthersTraced DEF Traced
  <2> QED
    BY <2>2, <2>3
<1> QED
  BY <1>4, <1>5

\* Nothing is left of a character that leaves.
LEMMA LogoutTraced ==
  ASSUME TickInv, \A p \in Player : Traced(p), NEW p \in Player, Logout(p)
  PROVE  \A o \in Player : Traced(o)'
<1> TypeOK /\ PhaseInv
  BY DEF TickInv
<1>1. /\ world = "sessions" /\ world' = world /\ batch = {}
      /\ maps \subseteq maps'
      /\ player' = [player EXCEPT ![p] = Nowhere]
      /\ newInstances' = newInstances \ {p}
      /\ scheduled' = [scheduled EXCEPT ![p] = None]
      /\ UNCHANGED <<batch, switches>>
  BY DEF Logout, LogoutPlayer, PhaseInv
<1>2. Traced(p)'
  <2>1. player'[p] = Nowhere /\ scheduled'[p] = None /\ switches'[p] = None
    BY <1>1 DEF TypeOK, PhaseInv, Busy
  <2> DEFINE awaited == p \in newInstances \cup batch
  <2>2. awaited' = FALSE
    BY <1>1
  <2> HIDE DEF awaited
  <2>3. /\ Nowhere.map = None /\ Nowhere.far = FALSE /\ Nowhere.told = FALSE
        /\ Nowhere.pending = FALSE /\ Nowhere.on = FALSE
    BY DEF Nowhere
  <2>4. p \notin newInstances' \cap batch'
    BY <1>1
  <2> QED
    BY <2>1, <2>2, <2>3, <2>4 DEF Traced, awaited
<1>3. ASSUME NEW o \in Player, o # p
      PROVE  Traced(o)'
  BY <1>1, <1>3, TracedFacts, OthersTraced DEF Traced, TypeOK
<1> QED
  BY <1>2, <1>3

\* A delayed teleport is executed, or has failed and the player stays.
LEMMA DelayedTraced ==
  ASSUME TickInv, \A p \in Player : Traced(p),
         NEW p \in Player, ExecuteSingleDelayedTeleport(p)
  PROVE  \A o \in Player : Traced(o)'
<1> TypeOK /\ TravelType /\ PhaseInv
  BY DEF TickInv, TypeOK, TravelType
<1> DEFINE q == [player[p] EXCEPT !.pending = FALSE]
<1>1. /\ world' = world /\ batch = {} /\ UNCHANGED <<maps, batch, switches>>
      /\ scheduled' = [scheduled EXCEPT ![p] = None] /\ scheduled[p] # None
  BY DEF ExecuteSingleDelayedTeleport, PhaseInv, mapVars
<1>2. /\ q \in PlayerType /\ q.on = player[p].on /\ q.pending = FALSE
      /\ q.map = player[p].map /\ q.told = player[p].told
  BY DEF TravelType, PlayerType
<1>3. /\ player[p].on /\ player[p].map # None /\ ~player[p].told
      /\ p \notin newInstances /\ p \notin batch
  BY <1>1, TracedFacts
<1>4. \A o \in Player : scheduled[o] # None =>
        world \in {"working", "deciding", "joining", "creating", "teleporting"}
  BY DEF Traced
<1>5. scheduled'[p] = None /\ \A o \in Player \ {p} : scheduled'[o] = scheduled[o]
  BY <1>1 DEF TravelType
<1>6. CASE CanEnter(scheduled[p])
  <2>1. Depart(p, q, maps)
    BY <1>6 DEF ExecuteSingleDelayedTeleport
  <2> HIDE DEF q
  <2>2. Traced(p)'
    BY <2>1, <1>1, <1>2, <1>3, <1>5, DepartTraced
  <2>3. ASSUME NEW o \in Player, o # p
        PROVE  Traced(o)'
    BY <2>1, <2>3, <1>1, <1>4, <1>5, DepartOthers, OthersTraced DEF Traced
  <2> QED
    BY <2>2, <2>3
<1>7. CASE ~CanEnter(scheduled[p])
  <2>1. player' = [player EXCEPT ![p] = [q EXCEPT !.far = FALSE]]
        /\ newInstances' = newInstances
    BY <1>7 DEF ExecuteSingleDelayedTeleport
  <2>2. /\ player'[p].map = player[p].map /\ player'[p].far = FALSE
        /\ player'[p].told = player[p].told /\ player'[p].pending = FALSE
        /\ player'[p].on = player[p].on
    BY <2>1, <1>2 DEF TravelType, PlayerType
  <2>3. player[p].map \in maps /\ player[p].told \in BOOLEAN
    BY <1>3 DEF Traced, TravelType, PlayerType
  <2> p \notin newInstances' /\ p \notin batch' /\ maps' = maps
    BY <2>1, <1>1, <1>3
  <2> HIDE DEF q
  <2>4. Traced(p)'
    BY <2>2, <2>3, <1>3, <1>5, OnMapTraced
  <2>5. ASSUME NEW o \in Player, o # p
        PROVE  Traced(o)'
    BY <2>1, <2>5, <1>1, <1>4, <1>5, OthersTraced DEF Traced, TravelType
  <2> QED
    BY <2>4, <2>5
<1> QED
  BY <1>6, <1>7

\* The instance somebody awaits is created, or turns out to be closed.
LEMMA CreateTraced ==
  ASSUME TickInv, \A p \in Player : Traced(p), NEW p \in Player, CreateNewInstance(p)
  PROVE  \A o \in Player : Traced(o)'
<1> TypeOK /\ TravelType /\ TravelInv
  BY DEF TickInv, TypeOK, TravelType
<1>1. /\ world = "creating" /\ world' = world /\ p \in batch /\ batch' = batch \ {p}
      /\ UNCHANGED <<scheduled, switches>>
  BY DEF CreateNewInstance
<1>2. /\ player[p].on /\ player[p].map = None /\ ~player[p].pending /\ scheduled[p] = None
      /\ player[p] \in PlayerType /\ player[p].dest \in Map /\ player[p].last \in Map
      /\ player[p].far /\ player[p].dest \in Instance
  BY <1>1, TracedFacts DEF Traced, PlayerType
<1>3. p \notin newInstances
  BY <1>1 DEF TravelInv
<1>4. maps' = maps \cup {player[p].dest}
  BY <1>2 DEF CreateNewInstance
<1>5. CASE CanEnter(player[p].dest)
  <2>1. player' = [player EXCEPT ![p].told = TRUE] /\ newInstances' = newInstances
    BY <1>2, <1>5 DEF CreateNewInstance
  <2>2. /\ player'[p].map = None /\ player'[p].far = TRUE /\ player'[p].told = TRUE
        /\ player'[p].pending = FALSE /\ player'[p].on = TRUE
    BY <2>1, <1>2 DEF TravelType, PlayerType
  <2>3. Traced(p)'
    BY <2>1, <2>2, <1>1, <1>2, <1>3 DEF Traced
  <2>4. ASSUME NEW o \in Player, o # p
        PROVE  Traced(o)'
    BY <2>1, <2>4, <1>1, <1>4, OthersTraced DEF Traced, TravelType
  <2> QED
    BY <2>3, <2>4
<1>6. CASE ~CanEnter(player[p].dest)
  <2>1. ReturnOnTeleportFail(p, player[p], player[p].last, maps')
    BY <1>2, <1>6 DEF CreateNewInstance
  <2>2. /\ Traced(p)'
        /\ \A o \in Player \ {p} :
             player'[o] = player[o] /\ (o \in newInstances' <=> o \in newInstances)
    BY <2>1, <1>1, <1>2, <1>3, ReturnTraced
  <2>3. ASSUME NEW o \in Player, o # p
        PROVE  Traced(o)'
    BY <2>2, <2>3, <1>1, <1>4, OthersTraced DEF Traced
  <2> QED
    BY <2>2, <2>3
<1> QED
  BY <1>5, <1>6

\* The players who have walked to another part of their continent are moved, and
\* those who await an instance become the batch.
LEMMA JoinTraced ==
  ASSUME TickInv, \A p \in Player : Traced(p), JoinContinents
  PROVE  \A o \in Player : Traced(o)'
<1> TypeOK /\ PhaseInv
  BY DEF TickInv
<1> TAKE o \in Player
<1> Traced(o)
  OBVIOUS
<1>1. /\ world = "joining" /\ world' = "creating" /\ batch = {} /\ batch' = newInstances
      /\ newInstances' = {} /\ UNCHANGED scheduled /\ maps \subseteq maps'
      /\ switches'[o] = None
  BY DEF JoinContinents, PhaseInv
<1>2. CASE player'[o] = player[o]
  <2>1. o \in newInstances' \cup batch' <=> o \in newInstances \cup batch
    BY <1>1
  <2>2. player[o].map # None => player[o].map \in maps'
    BY <1>1 DEF Traced
  <2> DEFINE awaited == o \in newInstances \cup batch
  <2>3. awaited' = awaited /\ o \notin newInstances' \cap batch'
    BY <1>1
  <2>4. /\ player[o].far = (player[o].told # awaited)
        /\ awaited => player[o].dest \in Instance /\ player[o].far /\ ~player[o].told
    BY DEF Traced
  <2> HIDE DEF awaited
  <2> QED
    BY <1>1, <1>2, <2>2, <2>3, <2>4 DEF Traced, awaited
<1>3. CASE player'[o] # player[o]
  <2>1. /\ switches[o] # None /\ player[o].map # None
        /\ player'[o] = [player[o] EXCEPT !.map = switches[o], !.last = switches[o]]
        /\ switches[o] \in maps'
    BY <1>3 DEF JoinContinents
  <2>2. /\ player[o].on /\ ~player[o].far /\ ~player[o].told
        /\ o \notin newInstances /\ o \notin batch /\ player[o] \in PlayerType
    BY <2>1, TracedFacts
  <2>3. /\ player'[o].map = switches[o] /\ player'[o].far = FALSE /\ player'[o].told = FALSE
        /\ player'[o].pending = player[o].pending /\ player'[o].on = TRUE
    BY <2>1, <2>2 DEF PlayerType
  <2>4. player[o].pending = (scheduled[o] # None)
    BY DEF Traced
  <2> QED
    BY <1>1, <2>1, <2>2, <2>3, <2>4 DEF Traced
<1> QED
  BY <1>2, <1>3

\* What the update of a map does to its players.
LEMMA UpdatePlayersTraced ==
  ASSUME TickInv, \A p \in Player : Traced(p), NEW p \in Player, UpdatePlayers(p)
  PROVE  \A o \in Player : Traced(o)'
<1> TypeOK /\ TravelType /\ PhaseInv
  BY DEF TickInv, TypeOK, TravelType
<1> PICK m \in Map :
      ScheduleFarTeleport(p, m) \/ TeleportNear(p, m) \/ ScheduleInstanceSwitch(p, m)
  BY DEF UpdatePlayers
<1>1. /\ world' = world /\ UNCHANGED <<maps, newInstances, batch>>
      /\ player[p].map \in Map
  BY DEF UpdatePlayers, Running, mapVars
<1>2. world \in Busy
  BY DEF UpdatePlayers, Running, PhaseInv
<1>3. /\ player[p].map # None /\ player[p].on /\ ~player[p].far /\ ~player[p].told
      /\ p \notin newInstances /\ p \notin batch /\ player[p].map \in maps
  BY <1>1, TracedFacts, MapAssumption DEF Traced
<1>4. player[p].pending = (scheduled[p] # None) /\ player[p] \in PlayerType
  BY DEF Traced, TravelType
<1>5. Traced(p)'
  <2>1. CASE ScheduleFarTeleport(p, m)
    <3>1. /\ player'[p].map = player[p].map /\ player'[p].far = player[p].far
          /\ player'[p].told = player[p].told /\ player'[p].pending = TRUE
          /\ player'[p].on = player[p].on /\ scheduled'[p] = m
      BY <2>1 DEF ScheduleFarTeleport, TravelType, PlayerType
    <3> QED
      BY <3>1, <1>1, <1>2, <1>3, <1>4, MapAssumption DEF Traced, Busy, PlayerType
  <2>2. CASE TeleportNear(p, m)
    <3>1. /\ player'[p].map = player[p].map /\ player'[p].far = FALSE
          /\ player'[p].told = player[p].told /\ player'[p].pending = player[p].pending
          /\ player'[p].on = player[p].on /\ scheduled'[p] = scheduled[p]
      BY <2>2 DEF TeleportNear, TravelType, PlayerType
    <3> QED
      BY <3>1, <1>1, <1>2, <1>3, <1>4 DEF Traced, Busy, PlayerType
  <2>3. CASE ScheduleInstanceSwitch(p, m)
    <3>1. UNCHANGED <<player, scheduled>>
      BY <2>3 DEF ScheduleInstanceSwitch
    <3> QED
      BY <3>1, <1>1, <1>2, <1>3, <1>4 DEF Traced, Busy, PlayerType
  <2> QED
    BY <2>1, <2>2, <2>3
<1>6. ASSUME NEW o \in Player, o # p
      PROVE  Traced(o)'
  <2>1. player'[o] = player[o] /\ scheduled'[o] = scheduled[o] /\ switches'[o] = switches[o]
    BY <1>6 DEF ScheduleFarTeleport, TeleportNear, ScheduleInstanceSwitch, TravelType
  <2> QED
    BY <2>1, <1>1, <1>2, OthersTraced DEF Traced, Busy
<1> QED
  BY <1>5, <1>6

\* A step that moves nobody, removes no map with a player on it, and does not
\* leave the update of the maps while a teleport is scheduled.
LEMMA UntouchedTraced ==
  ASSUME \A p \in Player : Traced(p), UNCHANGED teleportVars,
         \A p \in Player : player[p].map \in maps => player[p].map \in maps',
         \/ NothingScheduled
         \/ world' \in {"working", "deciding", "joining", "creating", "teleporting"}
         \/ world' = world
  PROVE  \A p \in Player : Traced(p)'
<1> TAKE p \in Player
<1>1. player[p].map # None => player[p].map \in maps'
  BY DEF Traced
<1>2. scheduled[p] # None =>
        world' \in {"working", "deciding", "joining", "creating", "teleporting"}
  BY DEF Traced, NothingScheduled
<1> QED
  BY <1>1, <1>2, OthersTraced DEF teleportVars

\* Every step keeps track of every player.
LEMMA TracedNext ==
  ASSUME TickInv, Next
  PROVE  \A p \in Player : Traced(p)'
<1> TypeOK /\ PhaseInv
  BY DEF TickInv
<1> \A p \in Player : Traced(p)
  BY AllTraced DEF TickInv
<1>1. world \in {"adding", "sessions", "results", "maps", "joined"} => NothingScheduled
  BY TracedFacts DEF NothingScheduled
<1>2. world = "tasks" => NothingScheduled
  BY DEF Traced, NothingScheduled
<1>3. CASE WorldThread /\ ~UpdateMaps
  BY <1>1, <1>2, <1>3, UntouchedTraced DEF WorldThread, EndAdding, EndSessions, SubmitTasks,
       SkipMaps, JoinTasks, NextUpdate, mapVars
<1>4. CASE BeginUpdate \/ JoinInstances \/ StopInstances \/ RepeatInstances \/ EndCreation
  BY <1>4, <1>1, UntouchedTraced DEF BeginUpdate, JoinInstances, StopInstances,
       RepeatInstances, EndCreation, mapVars
<1>5. CASE EndUpdate
  <2>1. \A p \in Player : player[p].map \in maps => player[p].map \in maps'
    BY <1>5 DEF EndUpdate, In
  <2>2. NothingScheduled /\ UNCHANGED teleportVars
    BY <1>5 DEF EndUpdate
  <2> QED
    BY <2>1, <2>2, UntouchedTraced
<1>6. CASE JoinContinents
  BY <1>6, JoinTraced
<1>7. ASSUME NEW p \in Player, ExecuteSingleDelayedTeleport(p) \/ CreateNewInstance(p)
      PROVE  \A o \in Player : Traced(o)'
  BY <1>7, DelayedTraced, CreateTraced
<1>8. ASSUME NEW m \in Map, MapThread(m) \/ OtherPlayers(m)
      PROVE  \A o \in Player : Traced(o)'
  BY <1>8, UntouchedTraced DEF MapThread, MapStep, StartContinent,
       MarkContinentUpdateFinished, LeaveWait, EndContinent, StartInstance, EndInstance,
       OtherPlayers, OpenOrClose, CreateForOthers
<1>9. ASSUME NEW p \in Player,
             Logout(p) \/ HandlePacket(p) \/ LoginCallback(p) \/ UpdatePlayers(p)
      PROVE  \A o \in Player : Traced(o)'
  BY <1>9, LogoutTraced, TeleportTraced, LoginTraced, UpdatePlayersTraced
<1>10. CASE \/ \E t \in Task : ExecuteTask(t)
            \/ \E p \in Player :
                 AddSession(p) \/ DeleteSession(p) \/ HandleAuctionListItems(p)
                 \/ BuyItem(p) \/ ReadSession(p)
            \/ ReadEnd
  BY <1>10, UntouchedTraced DEF ExecuteTask, AddSession, DeleteSession,
       HandleAuctionListItems, BuyItem, ReadSession, ReadEnd, updateVars, mapVars
<1>11. CASE UpdateMaps
  BY <1>11, <1>4, <1>5, <1>6, <1>7 DEF UpdateMaps, UpdateStep
<1> QED
  BY <1>3, <1>8, <1>9, <1>10, <1>11 DEF Next, WorldThread

----------------------------------------------------------------------------
\* The invariant holds before the first tick.
LEMMA TickInit == Init => TickInv
<1> SUFFICES ASSUME Init PROVE TickInv
  OBVIOUS
<1> USE DEF Init, MapInit
<1>1. TypeOK
  <2>1. Cardinality(Continent) \in Nat
    <3>1. Continent \in SUBSET Map
      BY DEF Map
    <3> QED
      BY <3>1, FS_Subset, FS_CardinalityType, MapAssumption
  <2>2. maps \subseteq Map /\ closed \subseteq maps \cap Instance /\ at \in [Map -> Progress]
    BY MapAssumption DEF Map, Progress
  <2>3. {finished, maxThreads, workers} \subseteq 0..Cardinality(Continent)
    BY <2>1
  <2>4. /\ player \in [Player -> PlayerType]
        /\ scheduled \in [Player -> Map \cup {None}]
        /\ switches \in [Player -> Continent \cup {None}]
    BY NowhereType
  <2> QED
    BY <2>2, <2>3, <2>4 DEF TypeOK
<1>2. PhaseInv
  BY DEF PhaseInv, Busy
<1>3. \A p \in Player : player[p] = Nowhere /\ scheduled[p] = None /\ switches[p] = None
  OBVIOUS
<1>4. TravelInv
  BY <1>3 DEF TravelInv, Nowhere
<1>5. NobodyLost
  <2>1. /\ Nowhere.map = None /\ Nowhere.far = FALSE /\ Nowhere.told = FALSE
        /\ Nowhere.pending = FALSE /\ Nowhere.on = FALSE
    BY DEF Nowhere
  <2>2. ASSUME NEW p \in Player
        PROVE  Traced(p)
    <3> DEFINE awaited == p \in newInstances \cup batch
    <3>1. awaited = FALSE /\ p \notin newInstances \cap batch
      OBVIOUS
    <3>2. player[p] = Nowhere /\ scheduled[p] = None /\ switches[p] = None
      BY <1>3
    <3> HIDE DEF awaited, Init, MapInit
    <3> QED
      BY <3>1, <3>2, <2>1 DEF Traced, awaited
  <2> QED
    BY <2>2 DEF NobodyLost, Traced
<1>6. BarrierHolds
  <2>1. \A c \in Continent : at[c] = "none"
    BY DEF Map
  <2> QED
    BY <2>1 DEF BarrierHolds
<1>7. TaskOnce
  BY DEF TaskOnce
<1> QED
  BY <1>1, <1>2, <1>4, <1>5, <1>6, <1>7 DEF TickInv

\* The invariant speaks of the variables only.
LEMMA TickStutters == TickInv /\ UNCHANGED vars => TickInv'
<1> SUFFICES ASSUME TickInv, UNCHANGED vars PROVE TickInv'
  OBVIOUS
<1> USE DEF vars, updateVars, mapVars, teleportVars, tickVars
<1>1. TypeOK'
  BY DEF TickInv, TypeOK
<1>2. PhaseInv' /\ TravelInv'
  BY DEF TickInv, PhaseInv, TravelInv
<1>3. BarrierHolds'
  BY BarrierUntouched DEF TickInv
<1>4. NobodyLost'
  BY DEF TickInv, NobodyLost
<1>5. TaskOnce'
  BY DEF TickInv, TaskOnce
<1> QED
  BY <1>1, <1>2, <1>3, <1>4, <1>5 DEF TickInv

\* The invariant is inductive.
LEMMA TickNext == TickInv /\ [Next]_vars => TickInv'
<1>1. ASSUME TickInv, Next
      PROVE  TickInv'
  <2>1. TypeOK'
    BY <1>1, TypeNext
  <2>2. TravelInv' /\ NobodyLost'
    BY <1>1, <2>1, TracedNext, TracedAll
  <2> QED
    BY <1>1, <2>1, <2>2, PhaseNext, BarrierNext, TaskOnceNext DEF TickInv
<1> QED
  BY <1>1, TickStutters

\* The invariant of the tick, of which the following theorems are parts.
THEOREM TickInvariant == Spec => []TickInv
BY TickInit, TickNext, PTL DEF Spec

\* Every variable keeps its type; the counts of continents and of the workers
\* of their pool stay within the number of continents.
THEOREM TypeCorrect == Spec => []TypeOK
<1>1. TickInv => TypeOK
  BY DEF TickInv
<1> QED
  BY <1>1, TickInvariant, PTL

\* No continent goes on to its grids and scripts before every continent of the
\* update has finished its players, and no more finish than were counted.
THEOREM BarrierCorrect == Spec => []BarrierHolds
<1>1. TickInv => BarrierHolds
  BY DEF TickInv
<1> QED
  BY <1>1, TickInvariant, PTL

\* A loaded character is on a map that exists, or exactly one party owes the
\* next step of its teleport.
THEOREM NobodyIsLost == Spec => []NobodyLost
<1>1. TickInv => NobodyLost
  BY DEF TickInv
<1> QED
  BY <1>1, TickInvariant, PTL

\* A task is in one place until it is executed; nobody waits for a search, or
\* has paid for an item, without one.
THEOREM TasksOnce == Spec => []TaskOnce
<1>1. TickInv => TaskOnce
  BY DEF TickInv
<1> QED
  BY <1>1, TickInvariant, PTL

----------------------------------------------------------------------------
\* A player's map, a map, a session or a loaded character changes only while
\* the world runs alone, by the invariant of the tick.
LEMMA MovesAlone ==
  ASSUME TickInv, Next,
         \/ [p \in Player |-> player[p].map]' # [p \in Player |-> player[p].map]
         \/ maps' # maps
         \/ [p \in Player |-> player[p].on]' # [p \in Player |-> player[p].on]
         \/ session' # session
  PROVE  Running(Map) = {}
<1> TypeOK /\ PhaseInv
  BY DEF TickInv
<1>1. ASSUME world \notin Busy
      PROVE  Running(Map) = {}
  BY <1>1 DEF PhaseInv, Running
<1>2. CASE WorldThread /\ ~UpdateMaps
  BY <1>2 DEF WorldThread, EndAdding, EndSessions, SubmitTasks, SkipMaps, JoinTasks,
       NextUpdate, mapVars, teleportVars, tickVars
<1>3. CASE UpdateMaps
  <2>1. CASE JoinContinents
    <3>1. \A m \in Map : at[m] \in {"none", "done"}
      BY <2>1 DEF JoinContinents, ContinentsJoined, PhaseInv, Map
    <3> QED
      BY <3>1 DEF Running
  <2>2. CASE BeginUpdate \/ JoinInstances \/ StopInstances \/ RepeatInstances
    BY <1>3, <2>2 DEF UpdateMaps, BeginUpdate, JoinInstances, StopInstances,
         RepeatInstances, mapVars, teleportVars, tickVars
  <2>3. CASE \/ EndCreation \/ EndUpdate
             \/ \E p \in Player : ExecuteSingleDelayedTeleport(p) \/ CreateNewInstance(p)
    BY <1>1, <2>3 DEF EndCreation, EndUpdate, ExecuteSingleDelayedTeleport,
         CreateNewInstance, Busy
  <2> QED
    BY <1>3, <2>1, <2>2, <2>3 DEF UpdateMaps, UpdateStep
<1>4. ASSUME NEW m \in Map, MapThread(m)
      PROVE  Running(Map) = {}
  BY <1>4 DEF MapThread, MapStep, StartContinent, MarkContinentUpdateFinished, LeaveWait,
       EndContinent, StartInstance, EndInstance, teleportVars, tickVars
<1>5. ASSUME NEW m \in Map, OtherPlayers(m), UNCHANGED tickVars
      PROVE  Running(Map) = {}
  BY <1>1, <1>5 DEF OtherPlayers, OpenOrClose, CreateForOthers, teleportVars, tickVars, Busy
<1>6. ASSUME NEW p \in Player, UpdatePlayers(p), UNCHANGED tickVars
      PROVE  Running(Map) = {}
  <2>1. \A o \in Player : player'[o].map = player[o].map /\ player'[o].on = player[o].on
    BY <1>6 DEF UpdatePlayers, ScheduleFarTeleport, TeleportNear, ScheduleInstanceSwitch,
         TypeOK, PlayerType
  <2> QED
    BY <1>6, <2>1 DEF UpdatePlayers, mapVars, tickVars
<1>7. CASE \E p \in Player :
             \/ AddSession(p) \/ Logout(p) \/ DeleteSession(p) \/ HandlePacket(p)
             \/ LoginCallback(p)
  BY <1>1, <1>7 DEF AddSession, Logout, DeleteSession, HandlePacket, LoginCallback, Login, Busy
<1>8. CASE \/ \E t \in Task : ExecuteTask(t)
           \/ \E p \in Player : HandleAuctionListItems(p) \/ BuyItem(p) \/ ReadSession(p)
           \/ ReadEnd
  BY <1>8 DEF ExecuteTask, HandleAuctionListItems, BuyItem, ReadSession, ReadEnd,
       updateVars, mapVars, teleportVars
<1> QED
  BY <1>2, <1>3, <1>4, <1>5, <1>6, <1>7, <1>8 DEF Next

\* Neither a teleport nor the creation of an instance unloads the character.
LEMMA StaysLoaded ==
  ASSUME TypeOK, NEW p \in Player,
         ExecuteSingleDelayedTeleport(p) \/ CreateNewInstance(p)
  PROVE  \E r \in PlayerType : r.on = player[p].on /\ player' = [player EXCEPT ![p] = r]
<1> player \in [Player -> PlayerType] /\ player[p] \in PlayerType
  BY DEF TypeOK
<1>1. ASSUME NEW q \in PlayerType, NEW M, Depart(p, q, M), q.on = player[p].on
      PROVE  \E r \in PlayerType : r.on = player[p].on /\ player' = [player EXCEPT ![p] = r]
  <2>1. Departed(q, M) \in PlayerType /\ Departed(q, M).on = q.on
    BY DEF Departed, PlayerType, Awaits
  <2> QED
    BY <1>1, <2>1 DEF Depart
<1>2. CASE ExecuteSingleDelayedTeleport(p)
  <2> DEFINE q == [player[p] EXCEPT !.pending = FALSE]
  <2>1. /\ q \in PlayerType /\ q.on = player[p].on
        /\ [q EXCEPT !.far = FALSE] \in PlayerType /\ [q EXCEPT !.far = FALSE].on = player[p].on
    BY DEF PlayerType
  <2> QED
    BY <1>1, <1>2, <2>1 DEF ExecuteSingleDelayedTeleport
<1>3. CASE CreateNewInstance(p)
  <2> DEFINE r == [player[p] EXCEPT !.told = TRUE]
             home(old) == [player[p] EXCEPT !.dest = IF CanEnter(old) THEN old ELSE Home]
  <2>1. /\ r \in PlayerType /\ r.on = player[p].on /\ player[p].last \in Map
        /\ \A old \in Map : home(old) \in PlayerType /\ home(old).on = player[p].on
    BY MapAssumption DEF PlayerType, Map
  <2>2. \/ player' = player
        \/ player' = [player EXCEPT ![p] = r]
        \/ \E M : Depart(p, home(player[p].last), M)
    BY <1>3 DEF CreateNewInstance, ReturnOnTeleportFail
  <2>3. player = [player EXCEPT ![p] = player[p]]
    OBVIOUS
  <2> HIDE DEF r, home
  <2> QED
    BY <1>1, <2>1, <2>2, <2>3
<1> QED
  BY <1>2, <1>3

\* Likewise of sessions and characters, and the tasks.
LEMMA SessionsAlone ==
  ASSUME TickInv, Next,
         \/ [p \in Player |-> player[p].on]' # [p \in Player |-> player[p].on]
         \/ session' # session
  PROVE  running = {}
<1> TypeOK /\ PhaseInv
  BY DEF TickInv
<1>1. ASSUME world \in {"adding", "sessions", "tasks", "results"}
      PROVE  running = {}
  BY <1>1 DEF PhaseInv
<1>2. CASE WorldThread /\ ~UpdateMaps
  BY <1>2 DEF WorldThread, EndAdding, EndSessions, SubmitTasks, SkipMaps, JoinTasks,
       NextUpdate, mapVars, teleportVars, tickVars
<1>3. CASE UpdateMaps
  <2>1. \A o \in Player : player'[o].on = player[o].on
    <3>1. CASE JoinContinents
      BY <3>1 DEF JoinContinents, TypeOK, PlayerType
    <3>2. CASE BeginUpdate \/ JoinInstances \/ StopInstances \/ RepeatInstances
               \/ EndCreation \/ EndUpdate
      BY <3>2 DEF BeginUpdate, JoinInstances, StopInstances, RepeatInstances,
           EndCreation, EndUpdate, teleportVars
    <3>3. ASSUME NEW p \in Player, ExecuteSingleDelayedTeleport(p) \/ CreateNewInstance(p)
          PROVE  \A o \in Player : player'[o].on = player[o].on
      <4>1. PICK r \in PlayerType : r.on = player[p].on /\ player' = [player EXCEPT ![p] = r]
        BY <3>3, StaysLoaded
      <4> QED
        BY <4>1 DEF TypeOK
    <3> QED
      BY <1>3, <3>1, <3>2, <3>3 DEF UpdateMaps, UpdateStep
  <2> QED
    BY <1>3, <2>1 DEF UpdateMaps, tickVars
<1>4. ASSUME NEW m \in Map,
             MapThread(m) \/ (OtherPlayers(m) /\ UNCHANGED tickVars)
      PROVE  running = {}
  BY <1>4 DEF MapThread, MapStep, StartContinent, MarkContinentUpdateFinished, LeaveWait,
       EndContinent, StartInstance, EndInstance, OtherPlayers, OpenOrClose,
       CreateForOthers, teleportVars, tickVars
<1>5. ASSUME NEW p \in Player, UpdatePlayers(p), UNCHANGED tickVars
      PROVE  running = {}
  <2>1. \A o \in Player : player'[o].on = player[o].on
    BY <1>5 DEF UpdatePlayers, ScheduleFarTeleport, TeleportNear, ScheduleInstanceSwitch,
         TypeOK, PlayerType
  <2> QED
    BY <1>5, <2>1 DEF tickVars
<1>6. CASE \E p \in Player :
             \/ AddSession(p) \/ Logout(p) \/ DeleteSession(p) \/ HandlePacket(p)
             \/ LoginCallback(p)
  BY <1>1, <1>6 DEF AddSession, Logout, DeleteSession, HandlePacket, LoginCallback
<1>7. CASE \/ \E t \in Task : ExecuteTask(t)
           \/ \E p \in Player : HandleAuctionListItems(p) \/ BuyItem(p) \/ ReadSession(p)
           \/ ReadEnd
  BY <1>7 DEF ExecuteTask, HandleAuctionListItems, BuyItem, ReadSession, ReadEnd,
       updateVars, mapVars, teleportVars
<1> QED
  BY <1>2, <1>3, <1>4, <1>5, <1>6, <1>7 DEF Next

\* No step moves a player, creates or unloads a map while a map is being updated;
\* none adds or removes a session or a character then, or while a task runs.
THEOREM ChangesAlone == Spec => WorldChangesAlone
<1>1. TickInv /\ [Next]_vars =>
        [LET there == [p \in Player |-> player[p].map]
             loaded == [p \in Player |-> player[p].on]
         IN /\ there' # there \/ maps' # maps => Running(Map) = {}
            /\ session' # session \/ loaded' # loaded => Running(Map) = {} /\ running = {}]_vars
  BY MovesAlone, SessionsAlone
<1> QED
  BY <1>1, TickInvariant, PTL DEF Spec, WorldChangesAlone
=============================================================================
