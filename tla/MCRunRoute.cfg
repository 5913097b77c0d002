SPECIFICATION Spec
CONSTANTS
  MaxTasks = 2
  ReviewLimit = 1
  MaxCycles = 2
  MaxContent = 1
  MaxChanges = 1
  MaxInputs = 2
  MaxResumes = 2
INVARIANTS TypeOK SuccessIsProven NoRejectedSuccess
PROPERTIES WorkStartsOnBaseline Converges
