SPECIFICATION PartsSpec
CONSTANTS
  Worker = {w1, w2}
  Handler = handler
  Kinds = {"chck", "extp", "gppr", "idau", "aume"}
  None = None
  MAX_RETRIES = 1
  MaxItems = 3
  MaxFaults = 2
  MaxLength = 4
  Conn = {c1, c2}
  Families <- TwoFamilies
  MaxRequests = 3
  MaxCrashes = 1
  Label = {l1, l2, l3}
  Address = {1, 2, 3, 4, 5}
  RecentMax = 1
  MaxTime = 5
  MaxRestarts = 1
  MaxText = 5
  MaxWords = 3
  MaxList = 6
  MaxChunk = 4
CHECK_DEADLOCK FALSE
INVARIANTS
  PartsTypeOK
  DataAsSent
  
  GaugesTracked
  VulnsAreLatest
  SplitIsPieces
  ChunksAndPairs
  RoundTrips
PROPERTIES
  ImplementsLookup
  EveryRequestReplied
  EveryRequestAnswered
  FlaggedIsWritten
