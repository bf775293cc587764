---------------------------- MODULE MCProcesses ----------------------------
(***************************************************************************)
(* Groups of processes that share no state, taken one at a time: the daemon's  *)
(* start and end, a client's calls, the timer loop, the rungs of one agent     *)
(* session, the MCP server's HTTP front-end with its token file, and the       *)
(* clients of one encrypted channel, a call of one MCP tool, the commands that *)
(* install and uninstall the agent clients, a bridge beside an agent, signed    *)
(* operations sent again, and uploads of attachments.                          *)
(***************************************************************************)
EXTENDS Startup, ClientCalls, TimerLoop, Sessions, McpHttp, Sealing, Tools, Install, Bridge,
    Envelope, BlobFiles

VARIABLE part

EachSizeOne == [b \in Blobs |-> 1]
storeVars == <<envelopeVars, blobVars>>

daemonVars == <<startupVars, callVars, busVars, timerVars>>
processVars == <<daemonVars, sessionVars, httpVars, sealVars, toolVars, installVars, bridgeVars, storeVars, part>>

ProcessInit ==
    /\ part \in {"startup", "calls", "timers", "hooks", "push", "pump", "http", "sealing", "tools", "install", "bridge", "envelope", "blobs"}
    /\ StartupInit /\ (part # "startup" => socketFile = None)
    /\ ToolInit /\ (part # "tools" => tool.name = "delivery_status" /\ ~tool.remote)
    /\ BridgeInit /\ (part # "bridge" => bridge.harness = CHOOSE h \in Harnesses : TRUE)
    /\ InstallInit /\ (part # "install" => setup.crew = (CHOOSE crew \in Crews : TRUE) /\ broken = {} /\ \A f \in DOMAIN disk : disk[f] = StartDoc(f))
    /\ BusInit /\ store.members = {}
    /\ CallsInit /\ TimerInit /\ SessionInit /\ HttpInit /\ SealInit /\ EnvelopeInit /\ BlobInit

NotAgent     == UNCHANGED <<sessionVars, httpVars, sealVars, toolVars, installVars, bridgeVars, storeVars, part>>
StartupMoves == part = "startup" /\ StartupNext /\ UNCHANGED <<callVars, busVars, timerVars>> /\ NotAgent
CallsMove    == part = "calls" /\ CallsNext /\ UNCHANGED <<startupVars, busVars, timerVars>> /\ NotAgent
TimersMove   == part = "timers" /\ TimerNext /\ UNCHANGED <<startupVars, callVars>> /\ NotAgent

OneRun     == {CHOOSE r \in Runs : TRUE}
NotSession == UNCHANGED <<daemonVars, httpVars, sealVars, toolVars, installVars, bridgeVars, storeVars, part>>
HooksMove  == part = "hooks" /\ (\E r \in Runs : HookStep(r, HookKinds)) /\ NotSession
HooksPost  == part = "hooks" /\ (Arrives("own") \/ AgentStep) /\ NotSession
PushMove   == part = "push" /\ (PushStep \/ MailStep \/ \E r \in OneRun : HookStep(r, {"tool", "start"})) /\ NotSession
PumpMove   == part = "pump" /\ (PumpStep \/ MailStep \/ \E r \in OneRun : HookStep(r, {"stop"})) /\ NotSession

NotHttp    == UNCHANGED <<daemonVars, sessionVars, sealVars, toolVars, installVars, bridgeVars, storeVars, part>>
HttpEdit   == part = "http" /\ (\E e \in Editors : EditStep(e)) /\ NotHttp
HttpPost   == part = "http" /\ (\E p \in Posts : PostStep(p)) /\ NotHttp
HttpStop   == part = "http" /\ StopStep /\ NotHttp

SealingMoves == part = "sealing" /\ (\E m \in Mates : SealStep(m)) /\ UNCHANGED <<daemonVars, sessionVars, httpVars, toolVars, installVars, bridgeVars, storeVars, part>>
ToolsMove    == part = "tools" /\ ToolStep /\ UNCHANGED <<daemonVars, sessionVars, httpVars, sealVars, installVars, bridgeVars, storeVars, part>>

InstallMoves == part = "install" /\ InstallStep /\ UNCHANGED <<daemonVars, sessionVars, httpVars, sealVars, toolVars, bridgeVars, storeVars, part>>
BridgeMoves  == part = "bridge" /\ BridgeStep /\ UNCHANGED <<daemonVars, sessionVars, httpVars, sealVars, toolVars, installVars, storeVars, part>>

NotProcess    == UNCHANGED <<daemonVars, sessionVars, httpVars, sealVars, toolVars, installVars, bridgeVars, part>>
EnvelopeMoves == part = "envelope" /\ EnvelopeStep /\ UNCHANGED blobVars /\ NotProcess
BlobsMove     == part = "blobs" /\ BlobStep /\ UNCHANGED envelopeVars /\ NotProcess

ProcessNext ==
    \/ StartupMoves \/ CallsMove \/ TimersMove
    \/ HooksMove \/ HooksPost \/ PushMove \/ PumpMove
    \/ HttpEdit \/ HttpPost \/ HttpStop \/ SealingMoves \/ ToolsMove \/ InstallMoves \/ BridgeMoves
    \/ EnvelopeMoves \/ BlobsMove

ProcessSpec == ProcessInit /\ [][ProcessNext]_processVars
=============================================================================
