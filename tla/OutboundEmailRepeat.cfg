SPECIFICATION Spec
CONSTANTS
  Client = {c1}
  TitanSender = {loop, a2a}
  Reviewer = {}
  NoClient = NoClient
  Flagged = {}
  FollowUpLimit = 2
  MaxSeq = 2
  MaxItem = 1
  MaxLog = 3
  MaxFault = 0
INVARIANT NoRepeat
