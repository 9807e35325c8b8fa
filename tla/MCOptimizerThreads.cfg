SPECIFICATION Spec
CONSTANTS
  a = a
  b = b
  c = c
  p = p
  q = q
  run = run
  other = other
  Threads = {t, u}
  Keys = {a, b}
  OriginOf <- Owner
  Payloads = {p, q}
  None = None
  Batches = {{a}, {b}}
  Capacities = {2}
  Threshold = 3
  Faulty = {}
  Serial = FALSE
INVARIANTS
  ManifestReadable
SYMMETRY Symmetry
