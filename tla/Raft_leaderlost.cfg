SPECIFICATION Spec
CONSTANTS
  Node = {"a", "b"}
  NoNode = NoNode
  Seeds <- Star
  CrawlIDs = {"0"}
  FirstCrawlID = "0"
  Mortal = {"a", "b"}
  MaxRead = 1
  MaxRestarts = 0
  MaxCrashes = 1
  MaxBeats = 0
  MaxForwards = 0
PROPERTIES
  LeaderLossSurvived
CHECK_DEADLOCK FALSE
