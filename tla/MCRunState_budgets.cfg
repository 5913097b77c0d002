\* Limits, technical retries, limit pauses, resumes, superseded operations,
\* operations attempted after a newer one.
SPECIFICATION Spec
CONSTANTS
  States = {s1}
  Bases = {b1, b2}
  Trees = {t1}
  Hierarchies <- OneTask
  AssignmentTemplates <- BudgetTemplates
  RunTemplates <- InputTemplates
  Limit <- LimitMixed
  TechnicalAttempts = 2
  AttemptOutcomes = {"failed"}
  ResultStatuses = {"succeeded", "failed"}
  MaxTasks = 1
  MaxBriefs = 1
  MaxAsgOps = 3
  MaxRunOps = 3
  MaxAttempts = 3
  MaxCycle = 3
CONSTRAINT BudgetScenarios
SYMMETRY Symmetry
INVARIANTS CountersMatchAttempts BudgetsRespected
CHECK_DEADLOCK FALSE
