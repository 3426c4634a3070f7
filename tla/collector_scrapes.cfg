SPECIFICATION Spec
CONSTANTS
    s1 = s1
    s2 = s2
    Absent = Absent
    Free = Free
    Scrapers <- TwoScrapers
    Watch <- RecreatedWatch
    Objects <- RecreatedObjects
    InitialClusters <- RecreatedClusters
    Rules <- OwnerRules
    MaxVersions = 2
    MaxDepth = 8
    MaxCollects = 2
    ReservedLabels = {}
SYMMETRY Symmetry
INVARIANTS
    ChargedInLockstep
    AnchorCountIsOfThisCollect
    NothingOlderThanTheScrape
    ExactWhenStable
PROPERTY ScrapesAreServed
CHECK_DEADLOCK FALSE
