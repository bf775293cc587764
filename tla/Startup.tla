------------------------------- MODULE Startup -------------------------------
(***************************************************************************)
(* One home, the daemons started for it and the clients that start them.  A   *)
(* daemon takes the home's lock before it touches the socket or the store and  *)
(* gives it back after both; a client that finds no listener starts a daemon   *)
(* under a lock of its own and polls until the socket answers.                 *)
(***************************************************************************)
EXTENDS Integers, FiniteSets

CONSTANTS
    Daemons,   \* daemon processes, each started at most once
    Callers    \* client processes

None == "none"

ASSUME StartupAssumption == None \notin Daemons /\ None \notin Callers

VARIABLES
    daemon,     \* stage of each daemon
    homeLock,   \* holder of `lock`
    socketFile, \* whose listener the socket file names, or none
    spawnLock,  \* holder of `spawn.lock`
    caller      \* stage of each client

startupVars == <<daemon, homeLock, socketFile, spawnLock, caller>>

\* A daemon is "checked" when its home is valid; "locked", "cleared", "opened" inside `bind`;
\* then "listening"; "draining", "quiet", "closed" inside the shutdown of `run`.
HasStore(d) == daemon[d] \in {"opened", "listening", "draining", "quiet"}
Live == socketFile # None /\ daemon[socketFile] = "listening"

Moves(d, from, to) == daemon[d] = from /\ daemon' = [daemon EXCEPT ![d] = to]

-----------------------------------------------------------------------------
(* A daemon: `bind_with`.                                                      *)

\* The configuration, the socket path's length, the home and the work root are checked;
\* a home that fails ends the process with nothing touched.
CheckHome(d, good) ==
    /\ Moves(d, "off", IF good THEN "checked" ELSE "exited")
    /\ socketFile # d
    /\ UNCHANGED <<homeLock, socketFile, spawnLock, caller>>

\* try_lock: a second daemon ends with AlreadyRunning.
TakeHomeLock(d) ==
    /\ Moves(d, "checked", IF homeLock = None THEN "locked" ELSE "exited")
    /\ homeLock' = IF homeLock = None THEN d ELSE homeLock
    /\ UNCHANGED <<socketFile, spawnLock, caller>>

\* Under the lock, a socket that is there was left behind.
RemoveStaleSocket(d) ==
    /\ Moves(d, "locked", "cleared") /\ socketFile' = None
    /\ UNCHANGED <<homeLock, spawnLock, caller>>

\* Both stores are opened, the actors run and the system identity is registered.
OpenStores(d) ==
    /\ Moves(d, "cleared", "opened")
    /\ UNCHANGED <<homeLock, socketFile, spawnLock, caller>>

Listen(d) ==
    /\ Moves(d, "opened", "listening") /\ socketFile' = d
    /\ UNCHANGED <<homeLock, spawnLock, caller>>

-----------------------------------------------------------------------------
(* Its end: the last part of `run`.                                            *)

\* A Shutdown request or a signal: no more accepts, the socket path is free at once.
StopListening(d) ==
    /\ Moves(d, "listening", "draining") /\ socketFile' = None
    /\ UNCHANGED <<homeLock, spawnLock, caller>>

\* Connections have had their grace, and the background tasks are joined.
StopTasks(d) ==
    /\ Moves(d, "draining", "quiet")
    /\ UNCHANGED <<homeLock, socketFile, spawnLock, caller>>

\* Faulty: the lock goes with the tasks, before the actor threads are joined.
ReleaseEarly(d) == daemon[d] = "quiet" \/ daemon[d] = "closed"
\* Only once the actor threads are joined.
MayRelease(d) == daemon[d] = "closed"

JoinActors(d) ==
    /\ Moves(d, "quiet", "closed")
    /\ UNCHANGED <<homeLock, socketFile, spawnLock, caller>>

DropHomeLock(d) ==
    /\ MayRelease(d) /\ homeLock = d /\ homeLock' = None
    /\ daemon' = [daemon EXCEPT ![d] = IF @ = "closed" THEN "exited" ELSE @]
    /\ UNCHANGED <<socketFile, spawnLock, caller>>

\* The process dies: the system frees its lock, the socket file stays.
Crash(d) ==
    /\ daemon[d] \notin {"off", "exited", "crashed"}
    /\ daemon' = [daemon EXCEPT ![d] = "crashed"]
    /\ homeLock' = IF homeLock = d THEN None ELSE homeLock
    /\ UNCHANGED <<socketFile, spawnLock, caller>>

-----------------------------------------------------------------------------
(* A client: `Client::connect` and `ensure_daemon`.                            *)

Goes(c, from, to) == caller[c] = from /\ caller' = [caller EXCEPT ![c] = to]

\* A missing or refusing socket is absent; with AGORA_NO_SPAWN the client gives up.
Connect(c, noSpawn) ==
    /\ Goes(c, "idle", IF Live THEN "connected" ELSE IF noSpawn THEN "failed" ELSE "absent")
    /\ UNCHANGED <<daemon, homeLock, socketFile, spawnLock>>

TakeSpawnLock(c) ==
    /\ Goes(c, "absent", "holding") /\ spawnLock = None /\ spawnLock' = c
    /\ UNCHANGED <<daemon, homeLock, socketFile>>

\* Another client may have been faster: under the lock the socket is tried again.
FoundLive(c) ==
    /\ Goes(c, "holding", "again") /\ Live /\ spawnLock' = None
    /\ UNCHANGED <<daemon, homeLock, socketFile>>

Spawn(c, d) ==
    /\ Goes(c, "holding", "polling") /\ ~Live
    /\ daemon[d] = "off" /\ daemon' = [daemon EXCEPT ![d] = "checked"]
    /\ UNCHANGED <<homeLock, socketFile, spawnLock>>

\* The poll ends with the socket, or with the deadline.
PollEnds(c) ==
    /\ Goes(c, "polling", IF Live THEN "again" ELSE "failed") /\ spawnLock' = None
    /\ UNCHANGED <<daemon, homeLock, socketFile>>

ConnectAgain(c) ==
    /\ Goes(c, "again", IF Live THEN "connected" ELSE "failed")
    /\ UNCHANGED <<daemon, homeLock, socketFile, spawnLock>>

DaemonStep(d) ==
    \/ \E good \in BOOLEAN : CheckHome(d, good)
    \/ TakeHomeLock(d) \/ RemoveStaleSocket(d) \/ OpenStores(d) \/ Listen(d)
    \/ StopListening(d) \/ StopTasks(d) \/ JoinActors(d) \/ DropHomeLock(d) \/ Crash(d)

CallerStep(c) ==
    \/ \E noSpawn \in BOOLEAN : Connect(c, noSpawn)
    \/ TakeSpawnLock(c) \/ FoundLive(c) \/ PollEnds(c) \/ ConnectAgain(c)
    \/ \E d \in Daemons : Spawn(c, d)

StartupNext == (\E d \in Daemons : DaemonStep(d)) \/ \E c \in Callers : CallerStep(c)

StartupInit ==
    /\ daemon = [d \in Daemons |-> "off"] /\ homeLock = None /\ spawnLock = None
    /\ socketFile \in {None} \cup Daemons  \* a file left by a process long gone
    /\ caller = [c \in Callers |-> "idle"]

StartupSpec == StartupInit /\ [][StartupNext]_startupVars

-----------------------------------------------------------------------------
(* Properties.                                                                *)

\* No two daemons have the store open, whoever starts, stops and dies in between ("so no
\* second daemon can open the store while this one still has it", `run`).
StoreHasOneOwner == \A d, e \in Daemons : HasStore(d) /\ HasStore(e) => d = e

=============================================================================
