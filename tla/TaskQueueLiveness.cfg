SPECIFICATION FairSpec
CONSTANTS
  a1 = a1
  a2 = a2
  shared = shared
  orphan = orphan
  Agent = {a1}
  TaskType = {shared, orphan}
  Handles <- MCHandlesL
  Priority <- MCPriorityL
  Requeues = {a1}
  NoAgent = NoAgent
  NoType = NoType
  Producer = {}
  RetryLimit = 2
  BatchLimit = 2
  MaxTask = 3
  MaxCrash = 1
  MaxStop = 1
  MaxDbError = 1
PROPERTY NoStarvation
