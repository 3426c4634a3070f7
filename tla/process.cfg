SPECIFICATION ExporterFairSpec
CONSTANTS
    r1 = r1
    r2 = r2
    Watch <- TwoPodResources
    Requests <- TwoRequests
    Refusable <- CorePodsOfB
    Anchors <- BothResources
    SourcesRead = {"anchor", "topController"}
INVARIANTS
    NoInformerBeforeTheDryRun
    StartedIsSynced
    NoConcurrentSort
    ScrapesAfterStartAreFull
PROPERTIES
    TerminationCompletes
    NoGoroutineDiesAlone
    ServedMeansStarted
    EveryScrapeIsCollected
CHECK_DEADLOCK FALSE
