SPECIFICATION GcSpec
CONSTANTS
  m = m
  x = x
  y = y
  up = up
  api = api
  share = share
  pin = pin
  Origins = {up, api}
  Blobs = {m, x, y}
  Refs = {pin}
  Slots = {t1}
  NoOrigin = NoOrigin
  NoBlob = NoBlob
  Uploads = {up}
  Content <- PrivateContent
  RepEnd <- PrivateRoots
  Kind <- RefKinds
  Permits = {"partial", "dangling", "gc_race"}
  ScanZeros = TRUE
CHECK_DEADLOCK FALSE
PROPERTIES
  ImplementsRetention
