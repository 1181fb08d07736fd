SPECIFICATION ToolkitSpec
CONSTANTS
  ToolkitParts = {"election", "lock", "partition", "quorum", "registry", "crdt", "clock", "limiter", "ring", "bloom", "merkle"}
  Algorithms = {"bully", "ring", "lease"}
  MaxEpoch = 1
  BullyNodes = {1, 2}
  BullyMaxTerm = 1
  BullyMaxUnderWay = 1
  BullyMayStop = {2}
  BullyTriggers = {1}
  RingNodes = {1, 2, 3}
  RingMayStop = {1, 3}
  RingTriggers = {2}
  LeaseNodes = {1, 2, 3}
  LeaseMaxTerm = 1
  LeaseMaxSleepers = 1
  LeaseContenders = {1, 2}
  LeaseTriggers = {3}
  LeaseMayStop = {3}
  NoHolder = NoHolder
  LockParts = {"lock", "redlock", "deadlock"}
  c1 = c1
  c2 = c2
  c3 = c3
  LockClients = {c1, c2, c3}
  LockUsages <- AnyUsage
  LockSlow = {}
  LockMaxGrants = 4
  NoOwner = NoOwner
  RedClients = {c1, c2}
  ServerCount = 3
  RetryCount = 2
  RedMaxAcquires = 1
  NoKey = NoKey
  Processes = {p1, p2, p3}
  Resources = {r1, r2, r3}
  WaitsOfMany = {p1}
  FreeResource = FreeResource
  Node = {1, 2, 3}
  MaxPartitions = 2
  OneWay <- OnePair
  QReplicaCount = 3
  QWriteQuorum = 2
  QReadQuorum = 2
  QLevels = {"QUORUM"}
  QMaxOps = 3
  QHanded = {3}
  SMaxInstances = 2
  SProbed = {1}
  SFlaky = {1}
  SLeaving = {2}
  SCallers = {1, 2}
  CNodes = {1, 2}
  CTypes = {"GCounter", "PNCounter", "GSet", "TwoPhaseSet", "ORSet", "LWWRegister", "LWWMap", "CausalContext", "DVV"}
  CTies = {"LWWRegister"}
  CElements = {a}
  CKeys = {k}
  CNull = CNull
  CAmounts = {1}
  CMaxOps = 3
  CJumps = {0, 2}
  LNodes = {1, 2, 3}
  LTimes = {1, 2}
  LMaxEvents = 4
  RKinds = {"token", "adaptive", "leaky", "window", "redis"}
  RRates = {1, 2}
  RInterval = 2
  RCapacity = 2
  RWindow = 3
  RCosts = {1, 2}
  RStale = FALSE
  RMaxTime = 7
  RMaxRequests = 7
  HNodes = {1, 2, 3}
  HHashes = {1, 2, 3}
  HKeys = {0, 1, 2, 3, 4}
  BKinds = {"plain", "counting", "scalable"}
  BElements = {1, 2}
  BHashes = 2
  BSize = 3
  BExpected = 1
  BLimit = 100
  BMaxOps = 6
  MSizes = {1, 3, 5, 6}
  MValues = {0, 1}
  MAbsent = 0
  MBucketings <- Bucketings
INVARIANTS
  FirstTermElectsOne
  LockExclusion
  RedlockExclusion
  CycleIsDeadlock
  MatrixIsTrue
  ReadsSeeCompletedWrites
  MissesAreHinted
  RoundSetsStatus
  RoundRobin
  ValueIsHistory
  CompareIsCausality
  TimestampsFollowCausality
  AdmittedWithinRate
  NoFalseNegatives
  DifferencesAreFound
  ProofsProve
PROPERTIES
  OnlyItsKeysMove
CHECK_DEADLOCK FALSE
