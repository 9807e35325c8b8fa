SPECIFICATION SideSpec
CONSTANTS
  t1 = t1
  t2 = t2
  a = a
  b = b
  c = c
  d = d
  peer = peer
  edge = edge
  source = source
  Callers = {t1, t2}
  Clusters = {a, b}
  CacheCapacity = 1
  Critical = {"Identity"}
  None = None
  MaxAccess = 5
  Users = {t1, t2, t3}
  Models = {a, b}
  Names = {c}
  MaxClusters = 1
  Exporters = {t1, t2}
  Shards = {a, b}
  MaxBatch = 2
  MaxCalls = 3
  Putters = {t1, t2}
  Parts = {a, b}
  MaxFiles = 4
  Peers <- PeerList
  Edges <- EdgeList
  Sources <- SourceList
  Self = Self
  Hosts = {a, b}
  Operators = {t1, t2}
  MinReplicas = 2
  StaleAfter = 0
  MaxDays = 1
  MaxLosses = 1
  Owners = {a, b}
  Keys = {c, d}
  Prints = {t1, t2}
  MaxRefs = 2
  MaxChunks = 3
  Assets = {a, b}
  Letters = {c, d}
  Threshold = 1
  MaxLetters = 2
  MaxHarm = 1
  Clients = {t1, t2}
  Signers = {c, d}
  Unsigned = Unsigned
  MaxTime = 2
  MaxEdges = 3
  MaxSetbacks = 1
  Gear <- GearTable
  MinSize = 1
  AvgSize = 4
  MaxSize = 5
  MaxHead = 2
  TailSize = 6
SYMMETRY Symmetry
CHECK_DEADLOCK FALSE
INVARIANTS
  SideTypeOK
  CriticalStays
  CachedIsStored
  OneDeadlock
  ExportsAccounted
  WholeUnlessOverlapped
  LocalCopySound
  BackendsAgree
  ReadsBack
  ProofHolds
  Resynchronises
PROPERTIES
  RepairSatisfies
  CountsKept
