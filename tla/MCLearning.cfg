SPECIFICATION LearnSpec
CONSTANTS
  u1 = u1
  u2 = u2
  x = x
  y = y
  g = g
  h = h
  Sessions = {u1, u2}
  Runs = {g, h}
  Snapshots = {x, y}
  MaxCheckpoints = 2
  MaxSaves = 4
  Trainers = {u1, u2}
  Paths = {g, h}
  Tags = {v1, v2}
  Weights = {x}
  MaxTrainings = 3
  BlockCount = 2
  FlushEvery = 2
  Lookahead = 1
  WriteThreshold = 2
  MaxSteps = 2
  MaxReturns = 2
  Workers = {u1, u2}
  Trainer = Trainer
  Tensors = {g, h}
  Values = {x, y}
  Unset = Unset
  MinDirty = 2
  MaxMarks = 3
  Loaders = {u1, u2}
  Wanted = {g, h}
  Editions = {x, y}
  Missing = Missing
  QueueSize = 2
  MaxAsked = 2
  ByteCount = 3
  Boundary = {2}
  Specials = 1
  VocabSize = 7
  MaxText = 7
  Levels = 256
  Scale = 4
  Logs <- NormLogs
  Tilts <- AngleTilts
  MaxDim = 3
SYMMETRY Alike
CHECK_DEADLOCK FALSE
INVARIANTS
  LearnTypeOK
  ListedRestorable
  RegistryKept
  ManifestClustersKept
  ResumesOwnLineage
  MomentsFollowWeights
  PulsesKeepNewest
  PrefetchSound
  TokensSpellText
  QuantRoundTrip
