SPECIFICATION InformersSpec
CONSTANTS
    Absent = Absent
    Watch <- TwoJobsWatch
    Objects <- TwoJobsObjects
    InitialClusters <- TwoJobsClusters
    MaxVersions = 1
INVARIANT ListsItsOwnObjectsOnce
CHECK_DEADLOCK FALSE
