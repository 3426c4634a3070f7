SPECIFICATION Spec
CONSTANTS
    s1 = s1
    s2 = s2
    Absent = Absent
    Free = Free
    Scrapers <- OneScraper
    Watch <- GroupWatch
    Objects <- GroupObjects
    InitialClusters <- GroupClusters
    Rules <- GroupRules
    MaxVersions = 1
    MaxDepth = 8
    MaxCollects = 1
    ReservedLabels = {}
INVARIANT SourceIsFirstOfItsResource
CHECK_DEADLOCK FALSE
