\* Two operations, four commands, and a storage that may fail at any Record.
SPECIFICATION FairSpec
CONSTANTS
  RecordOutcomes = {"recorded", "unapplied", "failed"}
  MaxOperations = 2
  MaxCommands = 4
INVARIANT ControlTypeOK
PROPERTIES ClosedIsFinal TransitionAfterOperation CommandsAnswered
CHECK_DEADLOCK FALSE
