SPECIFICATION Spec
CONSTANTS
  Client = {c1}
  TitanSender = {loop, a2a}
  Reviewer = {hermes}
  NoClient = NoClient
  Flagged = {2}
  FollowUpLimit = 2
  MaxSeq = 2
  MaxItem = 2
  MaxLog = 4
  MaxFault = 1
SYMMETRY SenderSymmetry
INVARIANTS LogIsTruthful NoRepeatUnlessContended SentMeansDelivered ReviewPrecedesSend
PROPERTIES ImplementsAuditLog
