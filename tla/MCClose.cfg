SPECIFICATION Spec
CONSTANTS
    Load = "close"
INVARIANTS
    NoDangling
CHECK_DEADLOCK FALSE
