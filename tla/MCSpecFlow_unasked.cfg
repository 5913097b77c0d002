SPECIFICATION Spec
CONSTANTS
    None = None
    MaxDoc = 5
    MaxEdits = 1
    MaxCrashes = 0
    MaxReviews = 1
PROPERTIES
    RevisionsWait
CHECK_DEADLOCK FALSE
