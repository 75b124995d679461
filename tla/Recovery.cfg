SPECIFICATION Spec
CONSTANTS
    w1 = w1
    w2 = w2
    Nothing = Nothing
    Workers = {w1, w2}
    Blobs <- EveryBlob
    Deployments <- EveryDeployment
    MaxDeploys = 1
    MaxReadFaults = 1
SYMMETRY WorkerSymmetry
CHECK_DEADLOCK FALSE
INVARIANTS CacheIsTransparent UntrustedTextIsWithheld
