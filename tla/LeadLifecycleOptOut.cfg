SPECIFICATION Spec
CONSTANTS
  Lead = {l1}
  Worker = {w1}
  None = None
  FollowUpLimit = 2
  Wishes = {"unsubscribe", "other"}
  MaxSeq = 3
  MaxReply = 1
  MaxFault = 1
INVARIANTS OptOutIsHonoured
