SPECIFICATION Spec
CONSTANTS
  Lead = {l1}
  Worker = {w1, w2}
  None = None
  FollowUpLimit = 1
  Wishes = {"other"}
  MaxSeq = 3
  MaxReply = 1
  MaxFault = 1
INVARIANTS FollowUpsOnce FirstContactOnce OptOutStops
PROPERTIES MovesFollowTable
SYMMETRY WorkerSymmetry
CONSTRAINT AtMostOneDisturbance
