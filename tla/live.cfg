CONSTANTS
    Namespaces = {"ns"}
    Names = {"web"}
    Objects <- OneSite
    Clusters <- OneSiteClusters
    PodLabels <- Labelled
    Position <- InOrder
    Watched <- NoNamespaces
    Ignored = {"kube-system"}
    WorkBuffer = 2
    MaxChanges = 1
    Resynced <- FirstIngress
    Tombstones = FALSE
    GatewayIP = "ip"
    Absent = Absent
    None = None
    Ports = {80, 81}
    PutFailures = {"rejected"}
    PanicOnPutError = FALSE
    Foreign = Foreign
    MaxFailures = 0
    MaxCrashes = 1
    MaxEdits = 0
SPECIFICATION FairSpec
INVARIANTS CacheCurrent
PROPERTIES Converges
CHECK_DEADLOCK FALSE
