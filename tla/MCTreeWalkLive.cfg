SPECIFICATION FairSpec
CONSTANTS
    Keys <- MCKeys
    Dirs = {}
    Ancestors <- MCNoAncestors
    Clients = {c1}
    WalkIds = {w1}
    TimerIds = {t1, t2}
    NoWalk = NoWalk
    MaxObjectList = 1
PROPERTY WalkEnds
