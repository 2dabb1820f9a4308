SPECIFICATION Spec
CONSTANTS
    None = None
    Setups <- ProhibitedSetups
    MaxChanges = 1
INVARIANT UnprohibitedIsBuilt
CHECK_DEADLOCK FALSE
