SPECIFICATION Spec
CONSTANTS
  Rules <- MCRules
  Requests <- MCRequests
  MaxSource = 3
  MaxVersion = 2
  MaxRules = 3
  MaxConditions = 2
  MaxTotal = 5
  MaxControls = 5
INVARIANTS
  AcceptedPlanIsOfPackInForce
  VerdictAtLeastAsStrictAsEveryMatch
  IllTypedFactsStopTheRequest
  ReadyPlanEnforcesEveryControl
PROPERTIES
  AuthoringOrderIsIrrelevant
