SPECIFICATION FairSpec
CONSTANTS
    s1 = s1
    s2 = s2
    Absent = Absent
    Free = Free
    Scrapers <- TwoScrapers
    Watch <- GroupWatch
    Objects <- GroupObjects
    InitialClusters <- CycleClusters
    Rules <- GroupRules
    MaxVersions = 1
    MaxDepth = 8
    MaxCollects = 2
    ReservedLabels = {}
INVARIANTS
    TypeOK
    ExactWhenStable
PROPERTY ScrapeCompletes
CHECK_DEADLOCK FALSE
