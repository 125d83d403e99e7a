SPECIFICATION Spec
CONSTANTS
    Procs = {p1, p2, p3}
    LockIds = {l1, l2, l3}
    NoLock = NoLock
    Resources <- MCResources
    PathArgs <- MCPathArgs
    MaxPaths = 2
SYMMETRY MCSymmetry
INVARIANTS LockInv MutualExclusion ReleaseIsSafe EntryIffReferenced NoWaitCycle
