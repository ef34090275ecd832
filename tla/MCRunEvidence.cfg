SPECIFICATION Spec
CONSTANTS
  Missing = Missing
  Raised = Raised
  Jobs = {"dry", "live", "draft"}
  Work <- MCWork
  Claims <- MCClaims
  Requirements <- MCRequirements
INVARIANTS
  VerifiedExactlyWhenBoundForIt
  AcceptedWithinReceiptBounds
  LiveClaimRestsOnLiveRun
ACTION_CONSTRAINT
  Bounded
CHECK_DEADLOCK FALSE
