SPECIFICATION GcSpec
CONSTANTS
  m = m
  x = x
  y = y
  up = up
  api = api
  share = share
  pin = pin
  Origins = {up, api}
  Blobs = {m, x}
  Refs = {pin}
  Slots = {t1}
  NoOrigin = NoOrigin
  NoBlob = NoBlob
  Uploads = {up}
  Content <- SharedContent
  RepEnd <- SharedRoots
  Kind <- RefKinds
  Permits = {}
  ScanZeros = TRUE
CHECK_DEADLOCK FALSE
PROPERTIES
  PinnedBytesKept
