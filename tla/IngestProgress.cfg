SPECIFICATION FairSpec
CONSTANTS
    w1 = w1
    w2 = w2
    upload = upload
    circular = circular
    NoSource = upload
    Workers = {w1, w2}
    Docs = {1, 2, 3}
    SourceOf <- AllVersions
    ContentOf <- BytesComeBack
    MaxJobs = 3
    MaxCrashes = 1
    MaxFaults = 0
    RetryPasses = 1
    ReingestPasses = 0
PROPERTY QueueDrains
