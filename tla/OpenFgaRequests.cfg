SPECIFICATION FairSpec
CONSTANTS
  r1 = r1
  r2 = r2
  agent = agent
  temp = temp
  Everything = Everything
  None = None
  Requests <- MCRequests
  Agents <- MCAgents
  TempAgents <- MCTempAgents
  McpAgents <- MCAgents
  MaxChanges = 0
PROPERTY EveryRequestIsAnswered
CHECK_DEADLOCK FALSE
