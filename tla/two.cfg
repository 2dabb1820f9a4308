CONSTANTS
    Namespaces = {"ns"}
    Names = {"web", "shop"}
    Objects <- TwoSites
    Clusters <- TwoSitesClusters
    PodLabels <- Labelled
    Position <- InOrder
    Watched <- NoNamespaces
    Ignored = {"kube-system"}
    WorkBuffer = 2
    MaxChanges = 1
    Resynced = {}
    Tombstones = FALSE
    GatewayIP = "ip"
    Absent = Absent
    None = None
    Ports = {80, 81}
    PutFailures = {"rejected"}
    PanicOnPutError = FALSE
    Foreign = Foreign
    MaxFailures = 0
    MaxCrashes = 0
    MaxEdits = 0
SPECIFICATION Spec
INVARIANTS CacheCurrent
CHECK_DEADLOCK FALSE
