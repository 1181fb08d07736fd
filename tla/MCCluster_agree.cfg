SPECIFICATION ClusterSpec
CONSTANTS
  ClusterParts = {"bully", "ring", "gossip", "membership", "repair"}
  BullyNodes = {1, 2, 3}
  BullyMaxTerm = 1
  BullyMaxUnderWay = 2
  BullyMayStop = {3}
  BullyTriggers = {}
  RingNodes = {1, 2, 3}
  RingMayStop = {1, 3}
  RingTriggers = {2}
  GNodes = {1, 2, 3}
  GSeeds <- Line
  GCluster <- Sizes
  GWriters = {1, 3}
  GMaxVersion = 2
  GLinks <- LineLinks
  GPings = {3}
  VNodes = {1, 2}
  VMaxIncarnation = 1
  PReplicas = {r1, r2}
  PClients = {c1, c2}
  PMaxWrites = 2
  PMaxFailures = 1
INVARIANTS
  LowerLeadIsAnswered
  RingElectsTheHighest
  ViewIsGravest
  SessionsAreCausal
PROPERTIES
  HighestLeads
  RingAgrees
  GossipConverges
  ReplicasConverge
CHECK_DEADLOCK FALSE
