CONSTANTS
  TechnicalAttempts = 2
  MaxAttempts = 4
  Handles = {1, 2}
SPECIFICATION Spec
CHECK_DEADLOCK FALSE
INVARIANTS
  TypeOK
  ReceiptAgrees
PROPERTIES
  BlockHolds
  CallEnds
