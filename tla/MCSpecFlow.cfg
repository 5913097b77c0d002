SPECIFICATION Spec
CONSTANTS
    None = None
    MaxDoc = 5
    MaxEdits = 2
    MaxCrashes = 1
    MaxReviews = 2
INVARIANTS
    TypeOK
    
PROPERTIES
    ApprovalHolds
    EditsSurvive
CHECK_DEADLOCK FALSE
