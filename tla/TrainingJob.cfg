SPECIFICATION MCSpec
CONSTANTS
    s1 = s1
    s2 = s2
    r1 = r1
    r2 = r2
    Jobs = {j1}
    Sessions = {s1, s2}
    Runs = {r1, r2}
    NoJob = NoJob
    MaxTasks = 3
    MaxCalls = 3
    MaxCrashes = 1
INVARIANTS
    UnsettledIsCarried
    CompletedHasModel
    TrainingInv
PROPERTIES
    RefinesJobLife
    JobsSettle
CHECK_DEADLOCK FALSE
