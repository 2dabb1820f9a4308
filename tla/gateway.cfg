SPECIFICATION Spec
CONSTANTS
    None = None
    Setups <- AllSetups
    MaxChanges = 2
INVARIANTS
    OnlyMissingIDsPanic
    RefsResolve
    IngressesServed
    PathMapsAreValid
    ProhibitedHostUntouched
    ProhibitedPathsUntouched
    SanitizedIsContent
PROPERTY Settles
CHECK_DEADLOCK FALSE
