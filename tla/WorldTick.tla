----------------------------- MODULE WorldTick ------------------------------
(***************************************************************************)
(* World::Update: sessions first, then a job of asynchronous tasks runs    *)
(* beside the update of the maps, then the callbacks of queries.  Other    *)
(* threads add tasks at any time, and the packet thread handles packets of *)
(* the sessions while m_canProcessAsyncPackets is set.                     *)
(*                                                                         *)
(* Two of the tasks are modelled: the auction search of a session, which   *)
(* blocks further searches until it was answered, and the delivery of an   *)
(* item the shop's thread has taken the money for.                         *)
(***************************************************************************)
EXTENDS MapUpdate

CONSTANTS
  Searcher,  \* bound: the players who search the auction house
  Buyer      \* bound: the players who buy in the shop, one item at a time

ASSUME TickAssumption == Searcher \cup Buyer \subseteq Player

VARIABLES
  session,       \* m_sessions
  canProcess,    \* m_canProcessAsyncPackets
  reader,        \* the session whose packets the packet thread handles, None if none
  asyncTasks,    \* _asyncTasks
  running,       \* the tasks of the job that were not executed yet
  searching,     \* players whose session has m_ah_list_recvd set
  charged        \* players who paid for an item they neither have nor were refunded

tickVars == <<session, canProcess, reader, asyncTasks, running, searching, charged>>
vars == <<updateVars, tickVars>>

Task == {"search", "deliver"} \X Player

TypeOK ==
  /\ world \in MapPhase \cup {"adding", "sessions", "tasks", "joined", "results"}
  /\ {asyncMapUpdating, canProcess} \subseteq BOOLEAN
  /\ maps \subseteq Map /\ closed \subseteq maps \cap Instance
  /\ at \in [Map -> Progress]
  /\ {finished, maxThreads, workers} \subseteq 0..Cardinality(Continent)
  /\ player \in [Player -> PlayerType]
  /\ newInstances \subseteq Player /\ batch \subseteq Player
  /\ scheduled \in [Player -> Map \cup {None}]
  /\ switches \in [Player -> Continent \cup {None}]
  /\ session \subseteq Player
  /\ reader \in Player \cup {None}
  /\ asyncTasks \subseteq Task /\ running \subseteq Task
  /\ searching \subseteq Player /\ charged \subseteq Player

Init ==
  /\ MapInit
  /\ world = "adding"
  /\ session = {} /\ canProcess = FALSE /\ reader = None
  /\ asyncTasks = {} /\ running = {} /\ searching = {} /\ charged = {}

----------------------------------------------------------------------------
\* UpdateSessions(): sessions are added, then each of them handles packets.

AddSession(p) ==
  /\ world = "adding"
  /\ p \notin session
  /\ session' = session \cup {p}
  /\ UNCHANGED <<updateVars, canProcess, reader, asyncTasks, running, searching, charged>>

EndAdding ==
  /\ world = "adding"
  /\ world' = "sessions"
  /\ UNCHANGED <<asyncMapUpdating, mapVars, teleportVars, tickVars>>

\* The character leaves; without a connection the session is deleted, too.
Logout(p) ==
  /\ world = "sessions"
  /\ p \in session
  /\ LogoutPlayer(p)
  /\ \/ UNCHANGED <<session, searching>>
     \/ session' = session \ {p} /\ searching' = searching \ {p}
  /\ UNCHANGED <<canProcess, reader, asyncTasks, running, charged>>

DeleteSession(p) ==
  /\ world = "sessions"
  /\ p \in session /\ ~player[p].on
  /\ session' = session \ {p}
  /\ searching' = searching \ {p}
  /\ UNCHANGED <<updateVars, canProcess, reader, asyncTasks, running, charged>>

HandlePacket(p) ==
  /\ world = "sessions"
  /\ p \in session
  /\ TeleportTo(p) \/ HandleMoveWorldportAck(p)
  /\ UNCHANGED tickVars

AddAsyncTask(t) == asyncTasks' = asyncTasks \cup {t}

HandleAuctionListItems(p) ==
  /\ world = "sessions"
  /\ p \in (session \cap Searcher) \ searching
  /\ player[p].map # None
  /\ searching' = searching \cup {p}
  /\ AddAsyncTask(<<"search", p>>)
  /\ UNCHANGED <<updateVars, session, canProcess, reader, running, charged>>

EndSessions ==
  /\ world = "sessions"
  /\ canProcess' = TRUE
  /\ world' = "tasks"
  /\ UNCHANGED <<asyncMapUpdating, mapVars, teleportVars, session, reader,
                 asyncTasks, running, searching, charged>>

----------------------------------------------------------------------------
\* Asynchronous tasks.

\* The vectors are swapped, the job started and the old tasks cleared under
\* m_asyncTaskQueueMutex.
SubmitKeeping == \* mutant: the tasks stay in _asyncTasks
  /\ running' = asyncTasks
  /\ UNCHANGED asyncTasks
Submit ==
  /\ running' = asyncTasks
  /\ asyncTasks' = {}

SubmitTasks ==
  /\ world = "tasks"
  /\ Submit
  /\ world' = "maps"
  /\ UNCHANGED <<asyncMapUpdating, mapVars, teleportVars, session, canProcess,
                 reader, searching, charged>>

\* ShopMgr::BuyItem() on the shop's thread.
BuyItem(p) ==
  /\ p \in Buyer \ charged
  /\ charged' = charged \cup {p}
  /\ AddAsyncTask(<<"deliver", p>>)
  /\ UNCHANGED <<updateVars, session, canProcess, reader, running, searching>>

\* A worker runs a task: the search answers the session of the account if there
\* is one, the item is delivered or, to a character not in the world, refunded.
ExecuteTask(t) ==
  /\ t \in running
  /\ running' = running \ {t}
  /\ IF t[1] = "search"
     THEN searching' = searching \ {t[2]} /\ UNCHANGED charged
     ELSE charged' = charged \ {t[2]} /\ UNCHANGED searching
  /\ UNCHANGED <<updateVars, session, canProcess, reader, asyncTasks>>

----------------------------------------------------------------------------
\* The rest of the tick.

UpdateMaps ==
  /\ UpdateStep
  /\ UNCHANGED tickVars

\* MapManager::Update() returns at once until its timer has passed.
SkipMaps ==
  /\ world = "maps"
  /\ world' = "joined"
  /\ UNCHANGED <<asyncMapUpdating, mapVars, teleportVars, tickVars>>

\* Mutant: the job is not waited for.
JoinNothing ==
  /\ world = "joined"
  /\ world' = "results"
  /\ UNCHANGED <<asyncMapUpdating, mapVars, teleportVars, tickVars>>

\* job.wait()
JoinTasks ==
  /\ world = "joined"
  /\ running = {}
  /\ world' = "results"
  /\ UNCHANGED <<asyncMapUpdating, mapVars, teleportVars, tickVars>>

\* UpdateResultQueue(): the callback of a login.
LoginCallback(p) ==
  /\ world = "results"
  /\ p \in session
  /\ Login(p)
  /\ UNCHANGED tickVars

NextUpdate ==
  /\ world = "results"
  /\ canProcess' = FALSE
  /\ world' = "adding"
  /\ UNCHANGED <<asyncMapUpdating, mapVars, teleportVars, session, reader,
                 asyncTasks, running, searching, charged>>

----------------------------------------------------------------------------
\* ProcessAsyncPackets(): the thread looks at the flag after each sleep and
\* after each session, never during one.  Which sessions it has seen is left out.

ReadSession(p) ==
  /\ canProcess
  /\ p \in session \ {reader}
  /\ reader' = p
  /\ UNCHANGED <<updateVars, session, canProcess, asyncTasks, running, searching, charged>>

ReadEnd ==
  /\ reader # None
  /\ reader' = None
  /\ UNCHANGED <<updateVars, session, canProcess, asyncTasks, running, searching, charged>>

----------------------------------------------------------------------------
WorldThread ==
  \/ EndAdding \/ EndSessions \/ SubmitTasks \/ UpdateMaps \/ SkipMaps
  \/ JoinTasks \/ NextUpdate

MapThread(m) == MapStep(m) /\ UNCHANGED tickVars

Next ==
  \/ WorldThread
  \/ \E m \in Map : MapThread(m) \/ (OtherPlayers(m) /\ UNCHANGED tickVars)
  \/ \E t \in Task : ExecuteTask(t)
  \/ \E p \in Player :
       \/ AddSession(p) \/ Logout(p) \/ DeleteSession(p) \/ HandlePacket(p)
       \/ HandleAuctionListItems(p) \/ LoginCallback(p)
       \/ (UpdatePlayers(p) /\ UNCHANGED tickVars)
       \/ BuyItem(p)
       \/ ReadSession(p)
  \/ ReadEnd

Spec == Init /\ [][Next]_vars

\* The threads go on, and the timer of the maps passes again and again; nobody
\* has to connect, to answer or to buy.
FairSpec ==
  /\ Spec
  /\ WF_vars(WorldThread)
  /\ SF_vars(BeginUpdate /\ UNCHANGED tickVars)
  /\ \A m \in Map : WF_vars(MapThread(m))
  /\ \A t \in Task : WF_vars(ExecuteTask(t))

----------------------------------------------------------------------------
\* A continent goes on to its grids and scripts only when every continent of
\* this update has finished its players; the counter is the number of those that
\* have, and no more finish than were counted (the ASSERT of
\* MarkContinentUpdateFinished).
BarrierHolds ==
  LET passed == {c \in Continent : at[c] \in {"wait", "finish", "done"}} IN
  /\ world \in {"working", "deciding", "joining"} =>
       /\ finished = Cardinality(passed)
       /\ maxThreads = Cardinality(Updated(Continent))
  /\ \A c \in Continent : at[c] = "update" => finished < maxThreads
  /\ \A c \in Continent : at[c] \in {"finish", "done"} => Updated(Continent) = passed

\* A character that is loaded is on a map that exists, or on its way with
\* exactly one party that owes the next step: the client, or MapManager, which
\* creates an instance only for those who go to one.  What is scheduled is
\* flagged as pending, and nothing is left of a character that was deleted.
NobodyLost ==
  \A p \in Player :
    LET q == player[p]
        awaited == p \in newInstances \cup batch
    IN
    /\ IF q.map # None THEN q.map \in maps /\ ~q.far ELSE q.far = q.on
    /\ q.far = (q.told # awaited)
    /\ awaited => q.dest \in Instance
    /\ q.pending = (scheduled[p] # None)
    /\ q.pending => world \in {"working", "deciding", "joining", "creating", "teleporting"}
    /\ ~q.on => q = Nowhere /\ scheduled[p] = None /\ switches[p] = None

\* Nobody changes maps, no map is created or unloaded, while a map is being
\* updated; no session and no character comes or goes then, nor while a task runs.
WorldChangesAlone ==
  [][LET there == [p \in Player |-> player[p].map]
         loaded == [p \in Player |-> player[p].on]
     IN /\ there' # there \/ maps' # maps => Running(Map) = {}
        /\ session' # session \/ loaded' # loaded => Running(Map) = {} /\ running = {}]_vars

\* Each task is in one place until it is executed: a search that is waited for
\* and an item that was paid for have one, and no item is delivered twice.
TaskOnce ==
  /\ asyncTasks \cap running = {}
  /\ \A p \in searching : <<"search", p>> \in asyncTasks \cup running
  /\ \A p \in Player : p \in charged <=> <<"deliver", p>> \in asyncTasks \cup running

\* Every tick ends, however the continents, the instances and the tasks run.
TickEnds == []<>(world = "adding")

\* A player who waits for an instance to be created is told where to go, unless
\* the character leaves the game.
InstanceCreated ==
  \A p \in Player :
    player[p].far /\ ~player[p].told ~> player[p].told \/ ~player[p].on

\* WorldSession.cpp:250 says of the packets of this thread that they "can be
\* handled at any time session update in world thread is not running".
PacketsOutsideUpdate == world \in {"adding", "sessions"} => reader = None
=============================================================================
