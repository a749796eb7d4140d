\* The MCP client, the tool registry with the connection manager, and the sandboxes.
SPECIFICATION ToolsSpec
CONSTANTS
  McpCalls = {h, a, b}
  McpHandshake = h
  McpNobody = none
  McpRecvCap = 1
  McpTalk = 3
  RegAgents <- Agents
  RegSkills <- Skills
  RegToolOf <- ToolOf
  RegBundled = {"exec"}
  RegDenied <- Denied
  RegServers = {"m1", "m2"}
  RegConnects <- Connects
  BoxCalls = {c1, c2}
  BoxHost = {"runsc", "firecracker"}
  OtherCall = c2
INVARIANTS
  ToolsTypeOK
  McpAnswersMatch
  McpLoopNeverWaits
  RegToolsFollowServers
  RegCallsReach
  BoxNothingLeaks
PROPERTIES
  BoxEnds
CHECK_DEADLOCK FALSE
