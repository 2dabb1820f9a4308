SPECIFICATION Spec
CONSTANTS
    None = None
    Setups <- ProhibitedSetups
    MaxChanges = 1
INVARIANT ProhibitAllChangesNothing
CHECK_DEADLOCK FALSE
