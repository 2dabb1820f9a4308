CONSTANTS
    Namespaces = {"ns"}
    Names = {"web"}
    Objects <- OneSite
    Clusters <- OneSiteClusters
    PodLabels <- Labelled
    Position <- InOrder
    Watched <- NoNamespaces
    Ignored = {"kube-system"}
    WorkBuffer = 2
    MaxChanges = 2
    Resynced = {}
    Tombstones = FALSE
    GatewayIP = "ip"
    Absent = Absent
    None = None
    Ports = {80, 81}
    PutFailures = {"rejected"}
    PanicOnPutError = FALSE
    Foreign = Foreign
    MaxFailures = 1
    MaxCrashes = 0
    MaxEdits = 0
SPECIFICATION Spec
INVARIANTS TypeOK CacheCurrent CacheIsGateway
CHECK_DEADLOCK FALSE
