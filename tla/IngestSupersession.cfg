SPECIFICATION Spec
CONSTANTS
    w1 = w1
    w2 = w2
    upload = upload
    circular = circular
    NoSource = upload
    Workers = {w1, w2}
    Docs = {1, 2, 3}
    SourceOf <- AllVersions
    ContentOf <- DistinctContent
    MaxJobs = 4
    MaxCrashes = 0
    MaxFaults = 1
    RetryPasses = 0
    ReingestPasses = 1
SYMMETRY WorkerSymmetry
INVARIANT PendingHasActiveJob
INVARIANT IndexMatchesStatus
INVARIANT OneCurrentVersion
INVARIANT SuccessionForward
PROPERTY ImplementsLifecycle
