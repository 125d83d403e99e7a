SPECIFICATION Spec
CONSTANTS
    Keys <- MCTwoObjects
    Dirs = {}
    Ancestors <- MCNoAncestors
    Clients = {c1, c2}
    WalkIds = {w1, w2}
    TimerIds = {t1, t2}
    NoWalk = NoWalk
    MaxObjectList = 1
SYMMETRY MCSymmetry
INVARIANT ListingComplete
