CONSTANTS
    Features = {f1, f2}
    First = f1
    None = None
    MaxDoc = 2
    MaxLog = 4
    MaxFaults = 2
    MaxEdits = 2
SPECIFICATION Spec
CONSTRAINT Scenarios
CHECK_DEADLOCK FALSE
INVARIANTS TypeOK WholeInGit OnlyEditsDisturb
PROPERTIES Implements Settles
