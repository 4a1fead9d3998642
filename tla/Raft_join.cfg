SPECIFICATION FairSpec
CONSTANTS
  Node = {"a", "b", "c"}
  NoNode = NoNode
  Seeds <- Chain
  CrawlIDs = {"0", "1"}
  FirstCrawlID = "0"
  Mortal = {"a", "b"}
  MaxRead = 1
  MaxRestarts = 1
  MaxCrashes = 1
  MaxBeats = 1
  MaxForwards = 1
INVARIANTS
  NoLiveNodeForgotten
  NoGhostNodes
PROPERTIES
  StartCompletes
  PassEndsOrDies
CONSTRAINT PlainRestarts
CHECK_DEADLOCK FALSE
