SPECIFICATION FairGcSpec
CONSTANTS
  m = m
  x = x
  y = y
  up = up
  api = api
  share = share
  pin = pin
  Origins = {up, api}
  Blobs = {m}
  Refs = {share}
  Slots = {t1, t2}
  NoOrigin = NoOrigin
  NoBlob = NoBlob
  Uploads = {up}
  Content <- OneBlobContent
  RepEnd <- OneBlobRoots
  Kind <- RefKinds
  Permits = {"overlap", "repeat", "gc_race"}
  ScanZeros = TRUE
CHECK_DEADLOCK FALSE
INVARIANTS
  NeverOvercounted
  ShortByRepeats
PROPERTIES
  NoResurrection
  GarbageReclaimed
