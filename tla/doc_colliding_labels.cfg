SPECIFICATION Spec
CONSTANTS
    s1 = s1
    s2 = s2
    Absent = Absent
    Free = Free
    Scrapers <- OneScraper
    Watch <- WorkloadWatch
    Objects <- WorkloadObjects
    InitialClusters <- WorkloadClusters
    Rules <- CollidingRules
    MaxVersions = 1
    MaxDepth = 8
    MaxCollects = 1
    ReservedLabels = {}
PROPERTY EverySeriesIsSent
CHECK_DEADLOCK FALSE
