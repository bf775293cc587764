----------------------------- MODULE MCService -----------------------------
(***************************************************************************)
(* What must go on to its end, one part at a time: a connection of the daemon,  *)
(* an MCP session over stdio, and the delivery ladder of a session.             *)
(***************************************************************************)
EXTENDS Connection, McpStdio, Ladder

VARIABLE part

serviceVars == <<connVars, stdioVars, ladderVars, part>>

ServiceInit ==
    /\ ConnInit /\ StdioInit /\ LadderInit
    /\ part \in {"connection", "stdio", "ladder"}
    /\ part # "ladder" => beats.installed = {}

ConnMoves  == part = "connection" /\ ConnNext /\ UNCHANGED <<stdioVars, ladderVars, part>>

NotStdio   == UNCHANGED <<connVars, ladderVars, part>>
StdioRead  == part = "stdio" /\ ((\E i \in RequestIds : ReaderStep(i)) \/ ReadInitialized \/ QueueNote) /\ NotStdio
StdioTask(i) == part = "stdio" /\ TaskStep(i) /\ NotStdio
StdioWrite == part = "stdio" /\ WriteLine /\ NotStdio
StdioEnd   == part = "stdio" /\ EndStep /\ NotStdio

NotLadder    == UNCHANGED <<connVars, stdioVars, part>>
LadderFires  == part = "ladder" /\ LadderTick /\ NotLadder
LadderTime   == part = "ladder" /\ TimePasses /\ NotLadder
LadderEvents == part = "ladder" /\ LadderEvent /\ NotLadder

ServiceNext ==
    \/ ConnMoves
    \/ StdioRead \/ (\E i \in RequestIds : StdioTask(i)) \/ StdioWrite \/ StdioEnd
    \/ LadderFires \/ LadderTime \/ LadderEvents

\* The runtime polls every task that can go on, the writer of the stdio session and the
\* ladder's timer among them.
ServiceSpec ==
    /\ ServiceInit /\ [][ServiceNext]_serviceVars
    /\ ConnFairness
    /\ \A i \in RequestIds : WF_serviceVars(StdioTask(i))
    /\ WF_serviceVars(StdioWrite) /\ WF_serviceVars(LadderFires) /\ WF_serviceVars(LadderTime)
=============================================================================
