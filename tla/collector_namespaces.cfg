SPECIFICATION Spec
CONSTANTS
    s1 = s1
    s2 = s2
    Absent = Absent
    Free = Free
    Scrapers <- OneScraper
    Watch <- NamespacesWatch
    Objects <- NamespacesObjects
    InitialClusters <- NamespacesClusters
    Rules <- NamespacesRules
    MaxVersions = 2
    MaxDepth = 8
    MaxCollects = 1
    ReservedLabels = {}
INVARIANTS
    ListsItsOwnObjectsOnce
    GetFindsWhatIsListed
    ExactWhenStable
    OneLabelSetOwnValues
PROPERTY ScrapesAreServed
CHECK_DEADLOCK FALSE
