SPECIFICATION Spec
CONSTANTS
    Load = "order"
INVARIANTS
    PointersFollow
CHECK_DEADLOCK FALSE
