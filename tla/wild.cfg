CONSTANTS
    Namespaces = {"ns"}
    Names = {"web"}
    Objects <- NilRules
    Clusters <- NilRulesClusters
    PodLabels <- Labelled
    Position <- InOrder
    Watched <- NoNamespaces
    Ignored = {"kube-system"}
    WorkBuffer = 2
    MaxChanges = 2
    Resynced = {}
    Tombstones = TRUE
    GatewayIP = "ip"
    Absent = Absent
    None = None
    Ports = {80, 81}
    PutFailures = {"lost"}
    PanicOnPutError = TRUE
    Foreign = Foreign
    MaxFailures = 1
    MaxCrashes = 0
    MaxEdits = 1
SPECIFICATION Spec
INVARIANTS CacheCurrent TornBuildIsRepaired
PROPERTY HasOnlyEffects
CHECK_DEADLOCK FALSE
