SPECIFICATION MCSpec
CONSTANTS
  Loggers = {1, 2}
  LogSize = 2
  Durations = {0, 4}
  InitialTimeout = 8
  Minimum = 4
  MaxDuration = 99
  MaxTimeout = 12
  MaxEntries = 4
  Requests = {1, 2}
  MaxClients = 1
  MaxPanics = 1
  Entries = {1, 2}
  Errors = {"x", "y"}
  Subscribers = {s1, s2}
  RingSize = 1
  LogChSize = 1
  FirstEntry = 1
  FirstSubscriber = s1
  Regular = {"u"}
  Temp = {"t"}
  Service = {"s"}
  Groups = {"g"}
  Policies = {"p"}
  Canned = {"p"}
  NoDoc = NoDoc
  MaxFailures = 1
  MaxUpdates = 3
INVARIANTS
  FullLogIsAdjustedOnce
  BooksBalance
  ShutdownDrains
  NoEntryTwice
  MapsMatchStore
  PoliciesFollowGroups
  NoOrphans
PROPERTIES
  EveryConnEnds
  RefreshHeals
CHECK_DEADLOCK FALSE
