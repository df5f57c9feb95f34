SPECIFICATION Spec
CONSTANTS
    Load = "chain"
INVARIANTS
    ChainWithinSnapshot
CHECK_DEADLOCK FALSE
