SPECIFICATION Spec
CONSTANTS
    s1 = s1
    s2 = s2
    Absent = Absent
    Free = Free
    Scrapers <- OneScraper
    Watch <- WorkloadWatch
    Objects <- WorkloadObjects
    InitialClusters <- WorkloadClusters
    Rules <- UnidentifiedRules
    MaxVersions = 1
    MaxDepth = 8
    MaxCollects = 1
    ReservedLabels = {}
PROPERTY RulesAreIndependent
CHECK_DEADLOCK FALSE
