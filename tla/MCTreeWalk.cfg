SPECIFICATION Spec
CONSTANTS
    Keys <- MCKeys
    Dirs <- MCDirs
    Ancestors <- MCAncestors
    Clients = {c1}
    WalkIds = {w1, w2}
    TimerIds = {t1, t2}
    NoWalk = NoWalk
    MaxObjectList = 2
SYMMETRY MCSymmetry
INVARIANTS TypeOK WalkHasOneUser PoolWalksLive ListingComplete ListingInOrder
