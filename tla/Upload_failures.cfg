SPECIFICATION FairSpec
CONSTANTS
  c1 = c1
  c2 = c2
  h1 = h1
  h2 = h2
  f1 = f1
  f2 = f2
  a1 = a1
  a2 = a2
  None = None
  Conn = {c1}
  Hash = {h1}
  File = {f1, f2}
  Author = {a1}
  MAX_THREADS = 2
  MAX_RETRIES = 1
  HASHES_INSERT_MAX = 1
  HASHES_MAX_SIZE = 1
  FILES_MAX_SIZE = 1
  Clients = {"bad", "check", "authors"}
  MaxVersion = 2
  MaxFaults = 2
  MaxCrashes = 1
CHECK_DEADLOCK FALSE
INVARIANTS
  TypeOK
  RowsHonest
  HashesHonest
  RowsHaveProject
  AuthorsIndexed
PROPERTIES
  RepliedUnlessProcessEnds
