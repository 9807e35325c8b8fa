SPECIFICATION Spec
CONSTANTS
  a = a
  b = b
  c = c
  p = p
  q = q
  run = run
  other = other
  Threads = {t}
  Keys = {a, b, c}
  OriginOf <- Owners
  Payloads = {p, q}
  None = None
  Batches = {{a, b}, {a}, {b}, {c}}
  Capacities = {1, 2}
  Threshold = 2
  Faulty = {"manifest", "read", "scan", "delete"}
  Serial = TRUE
INVARIANTS
  TypeOK
  ManifestReadable
  SupersededReclaimed
  DirtyBounded
  PinFlagsAgree
PROPERTIES
  ImplementsWriteBack
SYMMETRY Symmetry
