------------------------------- MODULE MCTools -------------------------------
(* Model values and bounds for the components around tool calls.  They share no *)
(* state, so each behaviour runs one of them, the focus, and leaves the others  *)
(* in one of their initial states; the registry is run twice, with turns and    *)
(* with every operation of the connection manager.                              *)
EXTENDS MCPClient, ToolRegistry, Sandboxes

CONSTANT OtherCall  \* the execution that only competes for a sandbox

VARIABLE focus

Agents == {"a", "b"}
Skills == {"s1", "s2"}
\* Both skills bring a tool of the same name.
ToolOf == [s \in Skills |-> "tool"]
Denied == [g \in Agents |-> IF g = "a" THEN {"exec"} ELSE {}]
ByAgentA(s) == [agent |-> "a", server |-> s]
\* Three connections of one agent: a shift moves two cells, and m1 may be connected twice.
Connects == <<ByAgentA("m1"), ByAgentA("m2"), ByAgentA("m1")>>

McpOthers == <<focus, regVars, boxVars>>
RegOthers == <<focus, mcpVars, boxVars>>
BoxOthers == <<focus, mcpVars, regVars>>

ToolsInit ==
  /\ focus \in {"mcp", "turns", "conns", "box"}
  /\ McpInit /\ RegInit /\ BoxInit
  /\ focus # "mcp" => mcpKind = "stdio"
  /\ focus # "turns" => regRows = {}
  /\ \A c \in BoxCalls : focus # "box" \/ c = OtherCall => boxKind[c] = "wasm"

FirstConn == RegConnect(1) \/ RegRegisterTools(1) \/ RegAppend(1) \/ RegDisconnect("a", "m1")

ToolsNext ==
  \/ focus = "mcp" /\ McpNext /\ UNCHANGED McpOthers
  \/ focus = "turns" /\ (RegTurnNext \/ FirstConn) /\ UNCHANGED RegOthers
  \/ focus = "conns" /\ RegConnNext /\ UNCHANGED RegOthers
  \/ focus = "box" /\ BoxNext /\ UNCHANGED BoxOthers

toolsVars == <<focus, mcpVars, regVars, boxVars>>

ToolsSpec ==
  /\ ToolsInit
  /\ [][ToolsNext]_toolsVars
  /\ \A c \in BoxCalls : WF_toolsVars(focus = "box" /\ BoxProgress(c) /\ UNCHANGED BoxOthers)

-----------------------------------------------------------------------------
\* Every variable of the three modules keeps its type.
ToolsTypeOK == McpTypeOK /\ RegTypeOK /\ BoxTypeOK
=============================================================================
