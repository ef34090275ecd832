SPECIFICATION ASpec
CONSTANTS
  Records <- MCRecords
  NoText = ""
  MaxReturned = 2
  Absent = Absent
  Jobs = {"admission-1"}
  Summaries <- MCSummaries
  Sound <- MCSound
INVARIANTS
  AdmittedOnOneFreshClaim
  ProvenIsConsumable
  BothRoutesAgree
  BlockersAreTheWholeReason
CONSTRAINT
  OthersAreFinal
ACTION_CONSTRAINT
  LateCompositionsThatMatter
CHECK_DEADLOCK FALSE
