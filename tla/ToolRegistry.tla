---------------------------- MODULE ToolRegistry ----------------------------
(***************************************************************************)
(* The tool registry every turn shares, and what changes it while turns run: *)
(* WorkspaceLoader registers the tools of an agent's skills, the MCP          *)
(* connection manager those of the servers it connects.  A server has one    *)
(* tool, named like the server.  The manager's slices are modelled with      *)
(* their backing arrays, which Disconnect shifts in place while CallTool     *)
(* scans them without the lock.                                              *)
(***************************************************************************)
EXTENDS Integers, Sequences, FiniteSets, SequencesExt

CONSTANTS
  RegAgents,
  RegSkills,
  RegToolOf,    \* the tool of each skill's manifest; skills may share one
  RegBundled,   \* tools of RegisterBuiltinTools
  RegDenied,    \* tools each agent's policy denies
  RegServers,   \* MCP servers
  RegConnects   \* Connect calls: a sequence of [agent, server]

RegNames == RegBundled \union {RegToolOf[s] : s \in RegSkills} \union RegServers

ASSUME RegAssumption ==
  /\ RegServers \intersect (RegBundled \union {RegToolOf[s] : s \in RegSkills}) = {}
  /\ RegDenied \in [RegAgents -> SUBSET RegNames]
  /\ RegConnects \in Seq([agent : RegAgents, server : RegServers])

Conns == 1..Len(RegConnects)
ConnAgent(k) == RegConnects[k].agent
ConnServer(k) == RegConnects[k].server

VARIABLES
  regTools,   \* names in Registry.tools
  regRows,    \* enabled rows of agent_skills: pairs <<agent, skill>>
  regTurn,    \* a turn of each agent: where it is, and the skills it has yet to register
  regOffered, \* req.AvailableTools of each turn
  regMissed,  \* offered tools that the turn called and did not find
  regConn,    \* each Connect: "idle", "listed", "registered", "open", "leaving" (taken out
              \* of the map by DisconnectAll), "ended"
  regArrays,  \* backing arrays of the slices: sequences of connections, 0 if unset
  regList,    \* connections[agent]: [array, len], array 0 for nil
  regScan,    \* one CallTool: [at, agent, server, list, i]
  regSteady,  \* its server has been connected since it started
  regShifted, \* a Disconnect of its agent ran since it started
  regShared,  \* servers that had two connections at once (history variable)
  regShut     \* Close has run

regTurnVars == <<regRows, regTurn, regOffered, regMissed>>
regSliceVars == <<regArrays, regList>>
regScanVars == <<regScan, regSteady, regShifted>>
regVars == <<regTools, regTurnVars, regConn, regSliceVars, regScanVars, regShared, regShut>>

NilList == [array |-> 0, len |-> 0]

RegInit ==
  /\ regTools = RegBundled
  /\ regRows \in SUBSET (RegAgents \X RegSkills)
  /\ regTurn = [g \in RegAgents |-> [at |-> "idle", todo |-> {}]]
  /\ regOffered = [g \in RegAgents |-> {}]
  /\ regMissed = {}
  /\ regConn = [k \in Conns |-> "idle"]
  /\ regArrays = <<>>
  /\ regList = [g \in RegAgents |-> NilList]
  /\ regScan = [at |-> "idle", list |-> NilList, i |-> 0, agent |-> CHOOSE g \in RegAgents : TRUE,
                server |-> CHOOSE s \in RegServers : TRUE]
  /\ regSteady = FALSE
  /\ regShifted = FALSE
  /\ regShared = {}
  /\ regShut = FALSE

-----------------------------------------------------------------------------
(* Skills: handleAttachSkill, handleDetachSkill, handleUninstallSkill *)

\* Fault: detaching a skill takes its tools out of the registry.
RegForgets(s) == regTools' = regTools \ {RegToolOf[s]}

\* The registry keeps the tools of a skill that is detached or uninstalled.
RegKeeps(s) == UNCHANGED regTools

RegAttach(g, s) ==
  /\ <<g, s>> \notin regRows
  /\ regRows' = regRows \union {<<g, s>>}
  /\ UNCHANGED <<regTools, regTurn, regOffered, regMissed, regConn, regSliceVars, regScanVars,
                 regShared, regShut>>

\* Detach removes one row; uninstalling removes the skill and with it its rows.
RegDetach(gs, s) ==
  /\ \E g \in gs : <<g, s>> \in regRows
  /\ regRows' = {r \in regRows : ~(r[1] \in gs /\ r[2] = s)}
  /\ RegKeeps(s)
  /\ UNCHANGED <<regTurn, regOffered, regMissed, regConn, regSliceVars, regScanVars, regShared,
                 regShut>>

-----------------------------------------------------------------------------
(* A turn *)

RegAt(g, at, todo) == regTurn' = [regTurn EXCEPT ![g] = [at |-> at, todo |-> todo]]

\* WorkspaceLoader's query; a query that fails leaves the turn without skills.
RegLoad(g) ==
  /\ regTurn[g].at = "idle"
  /\ \E failed \in BOOLEAN :
       RegAt(g, "registering", IF failed THEN {} ELSE {s \in RegSkills : <<g, s>> \in regRows})
  /\ UNCHANGED <<regTools, regRows, regOffered, regMissed, regConn, regSliceVars, regScanVars,
                 regShared, regShut>>

\* One row: its tool replaces a definition of that name.
RegRegister(g) ==
  /\ regTurn[g].at = "registering"
  /\ \E s \in regTurn[g].todo :
       /\ regTools' = regTools \union {RegToolOf[s]}
       /\ RegAt(g, "registering", regTurn[g].todo \ {s})
  /\ UNCHANGED <<regRows, regOffered, regMissed, regConn, regSliceVars, regScanVars, regShared,
                 regShut>>

\* ToolPolicyFilter: List, less what the agent's policy denies.
RegFilter(g) ==
  /\ regTurn[g] = [at |-> "registering", todo |-> {}]
  /\ regOffered' = [regOffered EXCEPT ![g] = regTools \ RegDenied[g]]
  /\ RegAt(g, "ready", {})
  /\ UNCHANGED <<regTools, regRows, regMissed, regConn, regSliceVars, regScanVars, regShared,
                 regShut>>

\* ToolExecutor: the model calls a tool it was offered, and Get looks it up.
RegUse(g) ==
  /\ regTurn[g].at = "ready"
  /\ \E t \in regOffered[g] : regMissed' = IF t \in regTools THEN regMissed ELSE regMissed \union {t}
  /\ UNCHANGED <<regTools, regRows, regTurn, regOffered, regConn, regSliceVars, regScanVars,
                 regShared, regShut>>

-----------------------------------------------------------------------------
(* MCPConnectionManager.Connect *)

Live == {"listed", "registered", "open", "leaving"}
LiveConns(s) == {k \in Conns : ConnServer(k) = s /\ regConn[k] \in Live}

\* Start, handshake and ListTools; each failure ends the process and the transport.
RegConnect(k) ==
  /\ regConn[k] = "idle"
  /\ \/ regConn' = [regConn EXCEPT ![k] = "ended"] /\ UNCHANGED regShared
     \/ /\ regConn' = [regConn EXCEPT ![k] = "listed"]
        /\ regShared' = IF LiveConns(ConnServer(k)) = {} THEN regShared
                        ELSE regShared \union {ConnServer(k)}
  /\ UNCHANGED <<regTools, regTurnVars, regSliceVars, regScanVars, regShut>>

RegRegisterTools(k) ==
  /\ regConn[k] = "listed"
  /\ regTools' = regTools \union {ConnServer(k)}
  /\ regConn' = [regConn EXCEPT ![k] = "registered"]
  /\ UNCHANGED <<regTurnVars, regSliceVars, regScanVars, regShared, regShut>>

\* Fault: the agent's slice is replaced by one that holds the new connection.
AppendReplaces(g, k) ==
  /\ regArrays' = Append(regArrays, <<k>>)
  /\ regList' = [regList EXCEPT ![g] = [array |-> Len(regArrays) + 1, len |-> 1]]

\* Go's append: into the backing array while it has room, else into one twice as large.
AppendConn(g, k) ==
  LET l == regList[g]
      cap == IF l.array = 0 THEN 0 ELSE Len(regArrays[l.array])
      old == IF l.array = 0 THEN <<>> ELSE regArrays[l.array]
  IN IF l.len < cap
     THEN /\ regArrays' = [regArrays EXCEPT ![l.array][l.len + 1] = k]
          /\ regList' = [regList EXCEPT ![g].len = @ + 1]
     ELSE /\ regArrays' = Append(regArrays,
               [j \in 1..(IF cap = 0 THEN 1 ELSE 2 * cap) |->
                  IF j <= l.len THEN old[j] ELSE IF j = l.len + 1 THEN k ELSE 0])
          /\ regList' = [regList EXCEPT ![g] = [array |-> Len(regArrays) + 1, len |-> l.len + 1]]

RegAppend(k) ==
  /\ regConn[k] = "registered"
  /\ AppendConn(ConnAgent(k), k)
  /\ regConn' = [regConn EXCEPT ![k] = "open"]
  /\ UNCHANGED <<regTools, regTurnVars, regScanVars, regShared, regShut>>

-----------------------------------------------------------------------------
(* Disconnect, DisconnectAll and Close *)

Cells(g) == IF regList[g].array = 0 THEN <<>>
            ELSE SubSeq(regArrays[regList[g].array], 1, regList[g].len)

\* Fault: Disconnect leaves the registry alone.
UnregisterNone(s) == UNCHANGED regTools

Unregister(s) == regTools' = regTools \ {s}

Forsakes(g, s) == regSteady' = (regSteady /\ ~(regScan.agent = g /\ regScan.server \in s))

\* The first connection of that id; the cells after it move down in the same array,
\* whose last cell keeps its value.
RegDisconnect(g, s) ==
  /\ \E i \in DOMAIN Cells(g) :
       LET k == Cells(g)[i] a == regList[g].array n == regList[g].len IN
       /\ ConnServer(k) = s
       /\ \A j \in 1..(i - 1) : ConnServer(Cells(g)[j]) # s
       /\ regArrays' = [regArrays EXCEPT ![a] =
            [j \in DOMAIN @ |-> IF j \in i..(n - 1) THEN @[j + 1] ELSE @[j]]]
       /\ regList' = [regList EXCEPT ![g].len = @ - 1]
       /\ regConn' = [regConn EXCEPT ![k] = "ended"]
  /\ Unregister(s)
  /\ Forsakes(g, {s})
  /\ regShifted' = (regShifted \/ regScan.agent = g)
  /\ UNCHANGED <<regTurnVars, regScan, regShared, regShut>>

\* The entry is deleted under the lock, the connections are ended after it.
RegDisconnectAll(g) ==
  /\ regList[g] # NilList
  /\ regConn' = [k \in Conns |-> IF k \in Range(Cells(g)) THEN "leaving" ELSE regConn[k]]
  /\ regList' = [regList EXCEPT ![g] = NilList]
  /\ Forsakes(g, RegServers)
  /\ UNCHANGED <<regTools, regTurnVars, regArrays, regScan, regShifted, regShared, regShut>>

RegEnd(k) ==
  /\ regConn[k] = "leaving"
  /\ Unregister(ConnServer(k))
  /\ regConn' = [regConn EXCEPT ![k] = "ended"]
  /\ UNCHANGED <<regTurnVars, regSliceVars, regScanVars, regShared, regShut>>

\* Close ends every connection in the map and leaves the registry as it is.
RegShutdown ==
  /\ ~regShut
  /\ regShut' = TRUE
  /\ regConn' = [k \in Conns |-> IF \E g \in RegAgents : k \in Range(Cells(g)) THEN "ended"
                                 ELSE regConn[k]]
  /\ regList' = [g \in RegAgents |-> NilList]
  /\ regSteady' = FALSE
  /\ UNCHANGED <<regTools, regTurnVars, regArrays, regScan, regShifted, regShared>>

-----------------------------------------------------------------------------
(* CallTool: the slice is read under the lock, its cells are not. *)

RegCallTool(g, s) ==
  /\ regScan.at = "idle"
  /\ regScan' = [at |-> "scanning", list |-> regList[g], i |-> 1, agent |-> g, server |-> s]
  /\ regSteady' = \E k \in LiveConns(s) : ConnAgent(k) = g /\ regConn[k] = "open"
  /\ regShifted' = FALSE
  /\ UNCHANGED <<regTools, regTurnVars, regConn, regSliceVars, regShared, regShut>>

RegScanCell ==
  /\ regScan.at = "scanning"
  /\ regScan' =
       IF regScan.i > regScan.list.len THEN [regScan EXCEPT !.at = "missed"]
       ELSE IF ConnServer(regArrays[regScan.list.array][regScan.i]) = regScan.server
            THEN [regScan EXCEPT !.at = "found"]
            ELSE [regScan EXCEPT !.i = @ + 1]
  /\ UNCHANGED <<regTools, regTurnVars, regConn, regSliceVars, regSteady, regShifted, regShared,
                 regShut>>

RegTurnNext ==
  \/ \E g \in RegAgents, s \in RegSkills : RegAttach(g, s) \/ RegDetach({g}, s)
  \/ \E s \in RegSkills : RegDetach(RegAgents, s)
  \/ \E g \in RegAgents : RegLoad(g) \/ RegRegister(g) \/ RegFilter(g) \/ RegUse(g)

RegConnNext ==
  \/ \E k \in Conns : RegConnect(k) \/ RegRegisterTools(k) \/ RegAppend(k) \/ RegEnd(k)
  \/ \E g \in RegAgents, s \in RegServers : RegDisconnect(g, s) \/ RegCallTool(g, s)
  \/ \E g \in RegAgents : RegDisconnectAll(g)
  \/ RegShutdown
  \/ RegScanCell

RegNext == RegTurnNext \/ RegConnNext

-----------------------------------------------------------------------------
(* Correctness *)

Lists == [array : 0..Len(regArrays), len : 0..Len(RegConnects)]

RegTypeOK ==
  /\ regTools \subseteq RegNames
  /\ regRows \subseteq RegAgents \X RegSkills
  /\ regTurn \in [RegAgents -> [at : {"idle", "registering", "ready"}, todo : SUBSET RegSkills]]
  /\ regOffered \in [RegAgents -> SUBSET RegNames]
  /\ regMissed \subseteq RegNames
  /\ regConn \in [Conns -> Live \union {"idle", "ended"}]
  /\ regArrays \in Seq(Seq(0..Len(RegConnects)))
  /\ regList \in [RegAgents -> Lists]
  /\ regScan \in [at : {"idle", "scanning", "found", "missed"}, list : Lists,
                  i : 0..Len(RegConnects) + 1, agent : RegAgents, server : RegServers]
  /\ regSteady \in BOOLEAN /\ regShifted \in BOOLEAN /\ regShut \in BOOLEAN
  /\ regShared \subseteq RegServers

\* The tools of an MCP server are in the registry exactly while it is connected, unless
\* it had two connections at once or the manager was closed (Connect, Disconnect,
\* DisconnectAll); a stale tool is offered to every agent and can only fail.
RegToolsFollowServers ==
  ~regShut => \A s \in RegServers \ regShared :
    s \in regTools <=> \E k \in LiveConns(s) : regConn[k] # "listed"

\* A tool that a turn was offered is still there when the model calls it, whatever other
\* agents attach, detach and load meanwhile; only an MCP server's can go (Registry.Get).
RegOfferedFound == regMissed \subseteq RegServers

\* CallTool finds a server that stays connected, unless a Disconnect of its agent moved
\* the cells while it scanned them (Disconnect, CallTool).
RegScanFinds == regScan.at = "missed" /\ regSteady => regShifted

RegCallsReach == RegOfferedFound /\ RegScanFinds
=============================================================================
