\* A pause is recorded while a reservation of the work is on its way.
SPECIFICATION ControlSpec
CONSTANTS
  RecordOutcomes = {"recorded"}
  MaxOperations = 1
  MaxCommands = 3
INVARIANT PauseHolds
CHECK_DEADLOCK FALSE
