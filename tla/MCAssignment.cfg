CONSTANTS
  Findings = {f1}
  Limits <- OneEach
  MaxContent = 1
  MaxChanges = 1
  MaxResumes = 2
SPECIFICATION Spec
INVARIANTS TypeOK AcceptedIsProven ReviewSeesCheckedCode
PROPERTIES FindingsKept Converges
CHECK_DEADLOCK FALSE
