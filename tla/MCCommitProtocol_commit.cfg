\* Two assignments, two versions of the code, up to three disturbances.
SPECIFICATION MCSpec
CONSTANTS
  MaxAssignments = 2
  MaxCode = 1
  MaxCommits = 3
  MaxDisturbances = 3
CONSTRAINT Bounded
INVARIANTS TypeOK CompletedIsCommitted CommitsAccountedFor OnlyRecordedCounts
PROPERTIES CommitsAcceptedCode
