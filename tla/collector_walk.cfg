SPECIFICATION Spec
CONSTANTS
    s1 = s1
    s2 = s2
    Absent = Absent
    Free = Free
    Scrapers <- OneScraper
    Watch <- WorkloadWatch
    Objects <- WorkloadObjects
    InitialClusters <- WorkloadClusters
    Rules <- WorkloadRules
    MaxVersions = 2
    MaxDepth = 8
    MaxCollects = 1
    ReservedLabels = {}
INVARIANTS
    ExactWhenStable
    OneLabelSetOwnValues
CHECK_DEADLOCK FALSE
