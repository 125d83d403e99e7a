SPECIFICATION FairSpec
CONSTANTS
    Procs = {p1, p2}
    LockIds = {l1, l2, l3}
    NoLock = NoLock
    Resources <- MCResources
    PathArgs <- MCPathArgs
    MaxPaths = 2
PROPERTIES GetLockReturns RefinesTable
