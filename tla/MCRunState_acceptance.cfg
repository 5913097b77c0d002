\* Assignments, acceptance, commit, final acceptance: five scenarios.
SPECIFICATION Spec
CONSTANTS
  States = {s1, s2}
  Bases = {b1, b2}
  Trees = {t1, t2}
  Hierarchies <- AllTasks
  AssignmentTemplates <- AcceptanceTemplates
  RunTemplates <- FinalTemplates
  Limit <- LimitTwo
  TechnicalAttempts = 2
  AttemptOutcomes = {}
  ResultStatuses = {"succeeded", "failed"}
  MaxTasks = 3
  MaxBriefs = 2
  MaxAsgOps = 3
  MaxRunOps = 3
  MaxAttempts = 1
  MaxCycle = 2
CONSTRAINT AcceptanceScenarios
SYMMETRY Symmetry
INVARIANTS TypeOK RecordStaysValid
PROPERTY LeavesCompleteByCommit
CHECK_DEADLOCK FALSE
