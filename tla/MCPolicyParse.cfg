SPECIFICATION Spec
CONSTANTS
  Procs = {p1, p2}
  Buckets <- MCBuckets
  Edits <- MCNoEdits
  Docs <- MCDocsTwice
  NoDoc = NoDoc
INVARIANT ParsingKeepsStatements
