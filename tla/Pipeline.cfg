SPECIFICATION FairSpec
CONSTANTS
    r1 = r1
    r2 = r2
    c1 = c1
    c2 = c2
    o1 = o1
    NoOne = NoOne
    Runners = {r1}
    Clients = {c1}
    Operators = {o1}
    MaxRuns = 2
    MaxJobs = 1
    MaxStarts = 2
    MaxCrashes = 1
    MaxErrors = 1
    MaxLockLosses = 1
    MaxFaults = 1
INVARIANTS SweepSparesTheLiving JobsAreAttributed VerdictIsEarned
PROPERTIES HistoryStands LivingRunClosesFrozen
PROPERTY EveryRunEnds
