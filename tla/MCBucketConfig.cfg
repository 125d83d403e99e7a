SPECIFICATION Spec
CONSTANTS
  Procs = {p1, p2}
  Buckets <- MCBuckets
  Edits <- MCEdits
  Docs <- MCDocs
  NoDoc = NoDoc
SYMMETRY MCSymmetry
INVARIANTS MemoryMatchesStore GrantedWasSet ShownIsGranted
PROPERTY EditIsShown
