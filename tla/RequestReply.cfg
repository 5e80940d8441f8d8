SPECIFICATION Spec
CONSTANTS
  Req = {q1, q2}
  None = None
  TaskLimit = 1
  RetryLimit = 2
  AlertLimit = 2
  MaxEvent = 2
  MaxFault = 2
INVARIANTS AnswersAreTrue  EventsAreSeen TasksAreBounded
CHECK_DEADLOCK FALSE
PROPERTIES ImplementsLease
SYMMETRY RequestSymmetry
