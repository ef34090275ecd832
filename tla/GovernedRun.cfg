SPECIFICATION ControlSpec
CONSTANTS
  RunId = "run"
  OtherRunId = "other"
  Reasons = {"trust_missing"}
  MaxEvents = 9
INVARIANTS
  EventLogExplainsState
  RunsOnlyWhenGated
CHECK_DEADLOCK FALSE
