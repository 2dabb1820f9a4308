CONSTANTS
    Namespaces = {"ns"}
    Names = {"web"}
    Objects <- TwoObjects
    Clusters <- TwoObjectsClusters
    PodLabels <- Labelled
    Position <- InOrder
    Watched <- NoNamespaces
    Ignored = {"kube-system"}
    WorkBuffer = 2
    MaxChanges = 2
    Resynced = {}
    Tombstones = FALSE
    GatewayIP = "ip"
    Absent = Absent
    None = None
    Ports = {80, 81}
    PutFailures = {"rejected"}
    PanicOnPutError = FALSE
    Foreign = Foreign
    MaxFailures = 0
    MaxCrashes = 1
    MaxEdits = 0
SPECIFICATION FairSpec
PROPERTIES Converges
CHECK_DEADLOCK FALSE
