SPECIFICATION Spec
CONSTANTS
    p1 = p1
    p2 = p2
    b1 = b1
    dir = dir
    file = file
    NoNode = NoNode
    DirNode = DirNode
    NoRange = NoRange
    Procs = {p1, p2}
    Buckets = {b1}
    Objects = {dir, file}
    Ancestors <- MCAncestors
    Payloads <- MCPayloads
    Ranges <- MCRanges
    ObjectLists <- MCObjectLists
SYMMETRY MCSymmetry
INVARIANTS ObjectsInv UndisturbedKeepContract
PROPERTIES LossOnlyByDelete BucketMadeKnowingly
