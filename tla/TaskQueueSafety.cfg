SPECIFICATION Spec
CONSTANTS
  a1 = a1
  a2 = a2
  shared = shared
  orphan = orphan
  Agent <- MCAgent
  TaskType = {shared}
  Handles <- MCHandles
  Priority <- MCPriority
  Requeues = {a1}
  NoAgent = NoAgent
  NoType = NoType
  Producer = {p1}
  RetryLimit = 2
  BatchLimit = 2
  MaxTask = 2
  MaxCrash = 1
  MaxStop = 1
  MaxDbError = 1
INVARIANT TypeOK
INVARIANT ExclusiveExecution
INVARIANT RunningIsHeld
INVARIANT ExecutionBudget
INVARIANT DeadLetterAlerted
PROPERTY FinishedIsFinal
PROPERTY ImplementsLease
