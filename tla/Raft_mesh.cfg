SPECIFICATION Spec
CONSTANTS
  Node = {"a", "b", "c"}
  NoNode = NoNode
  Seeds <- Mesh
  CrawlIDs = {"0"}
  FirstCrawlID = "0"
  Mortal = {"a", "b", "c"}
  MaxRead = 2
  MaxRestarts = 1
  MaxCrashes = 1
  MaxBeats = 2
  MaxForwards = 0
INVARIANTS
  TypeOK
  AtMostOneLeader
CONSTRAINT FewHeartbeats
CHECK_DEADLOCK FALSE
