\* Seven snapshots: six calls of the store, with every failure between them.
SPECIFICATION Spec
CONSTANT MaxSnapshot = 7
INVARIANTS TypeOK DispatchedIsDurable
PROPERTY Implements
CHECK_DEADLOCK FALSE
