SPECIFICATION Spec
CONSTANTS
    p1 = p1
    p2 = p2
    s1 = s1
    s2 = s2
    s3 = s3
    f1 = f1
    f2 = f2
    Procs = {p1, p2}
    Sources = {s1, s2}
    Files = {f1}
    RecordBatch = 1
    FloorMin = 2
    FloorPercent = 50
    MaxVersion = 2
    MaxSyncs = 2
    MaxFetches = 2
    MaxEdits = 2
    MaxCrashes = 1
    MayRefuse = {f1}
    MayHide = {f1}
SYMMETRY Symmetry
CHECK_DEADLOCK FALSE
INVARIANTS NoticedReplacementIsRefetched
PROPERTIES CompletedSyncMirrorsTheSite ContentNeverGoesBack
