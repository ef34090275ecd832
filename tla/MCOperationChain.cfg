CONSTANTS
  Missing = Missing
  Raised = Raised
  StageNames <- HostStageNames
  TicketVersions <- HostTicketVersions
  Changing <- ChangingRoles
  Failing <- FailingRoles
  MaxEdition = 2
  MaxChanges = 2
  Supervisors = {"s1", "s2"}
  MaxAttempts = 1
  MaxAge = 1
  MaxRules = 2
  Proposers = {"model", "reaction"}
  Limits <- ChainLimits
  IntentClasses = {"read", "write"}
  AllowedClasses = {"read"}
SPECIFICATION Spec
INVARIANTS
  OutOfDateIsAlwaysNamed
  NothingRunsUnapproved
  NoChildOnTheModelsWordAlone
PROPERTIES
  VerifiedOnlyWhenCurrent
  DoneOnlyAsWarranted
  ChainStaysWithinLimits
  AdviceLeadsToVerified
CHECK_DEADLOCK FALSE
