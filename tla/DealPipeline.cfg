SPECIFICATION Spec
CONSTANTS
  Lead = {l1}
  Worker = {w1, w2}
  None = None
  Providers = {"stripe", "wise"}
  SalesThreshold = 1
  MaxItem = 1
  MaxDeal = 2
  MaxRef = 2
  MaxSale = 1
  MaxFault = 1
INVARIANTS NoLeadForgotten OneDealPerLead ProposalsAreReviewed
PROPERTIES ImplementsLedger
SYMMETRY WorkerSymmetry
