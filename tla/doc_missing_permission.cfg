SPECIFICATION ExporterFairSpec
CONSTANTS
    r1 = r1
    r2 = r2
    Watch <- TwoPodResources
    Requests = {r1}
    Refusable <- AllVpods
    Anchors <- BothResources
    SourcesRead = {"anchor", "topController"}
PROPERTY MissingPermissionFailsStartup
CHECK_DEADLOCK FALSE
