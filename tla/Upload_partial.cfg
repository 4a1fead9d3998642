SPECIFICATION Spec
CONSTANTS
  c1 = c1
  c2 = c2
  h1 = h1
  h2 = h2
  f1 = f1
  f2 = f2
  a1 = a1
  a2 = a2
  None = None
  Conn = {c1}
  Hash = {h1}
  File = {f1}
  Author = {}
  MAX_THREADS = 2
  MAX_RETRIES = 1
  HASHES_INSERT_MAX = 3
  HASHES_MAX_SIZE = 1
  FILES_MAX_SIZE = 1
  Clients = {}
  MaxVersion = 1
  MaxFaults = 2
  MaxCrashes = 0
CHECK_DEADLOCK FALSE
INVARIANTS
  UploadComplete
