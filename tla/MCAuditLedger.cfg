SPECIFICATION LedgerSpec
CONSTANTS
  Writers = {w1, w2}
  AuditRecords <- MCRecords
  ReadLimit = 2
  PageLimits = {1, 2}
  MaxLines = 4
SYMMETRY Interchangeable
INVARIANTS
  VerifiedLedgerHoldsEveryRecord
  ShortLedgerReadsBack
CHECK_DEADLOCK FALSE
