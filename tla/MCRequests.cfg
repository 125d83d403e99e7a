SPECIFICATION MCSpec
CONSTANTS
  ChunkSize = 2
  Payloads <- MCPayloads
  BufferSizes = {1, 3}
  Users = {"user"}
  Root = "root"
  Bodies = {"b"}
  ServerRegion = "us"
  Expiry = 2
  SkewTime = 1
  DayLength = 2
  MaxTime = 3
  MaxPayloadSize = 2
  PayloadSizes = {1}
  PlainLengths = {0, 1, 3, 4}
  Rooms = {1, 3, 7}
  ObjectNames = {"a"}
  CustomerKeys = {"k1", "k2"}
  MasterKeys = {"m1", "m2"}
  MaxRandom = 8
  Evaluators = {e1, e2}
  Arguments <- MCArguments
  Accounts <- MCAccounts
  PolicyDocs <- MCPolicyDocs
  UserMaps <- MCUserMaps
  Capacity = 2
  MaxChanges = 1
  Handlers = {h1, h2}
  LockedNames = {"o"}
  LockRequests <- MCLockRequests
  LockConfigs <- MCLockConfigs
  Lifecycles <- MCLifecycles
  LastTime = 2
  Clients = {c1, c2}
  Lockers = {l1, l2}
  Offline = {}
  MaxFaults = 1
  MaxLate = 1
  Browsers = {1, 2, 3}
  Holders = {"h"}
  TempHolders = {"th"}
  Owner = "owner"
  Anybody = "anybody"
  Secrets = {"s1", "s2"}
  OwnerSecret = "s0"
  Bucket = "bucket"
  Objects = {"a", "b"}
  Folders = {"d"}
  Selections <- MCSelections
  OpsOf <- MCOpsOf
  NoToken = NoToken
  WebLife = 2
  URLLife = 1
  PresignLife = 3
  MaxClock = 3
  MaxWebChanges = 1
  MaxWebRequests = 2
INVARIANTS
  QuorumsExclude
  NothingLeftLocked
  StreamIsSigned
  SignaturesDecide
  DecryptedAsEncrypted
  ReadBackAsPut
  ServedAsAllowed
PROPERTIES
  DecidesByOwnPolicies
  LockedIsKept
CHECK_DEADLOCK FALSE
