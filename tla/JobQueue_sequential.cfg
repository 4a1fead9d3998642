SPECIFICATION Spec
CONSTANTS
  j1 = j1
  j2 = j2
  j3 = j3
  t1 = t1
  t2 = t2
  sw = sw
  Uuid = {j1, j2, j3}
  NoId = NoId
  Thread = {t1}
  Sweeper = {}
  Nobody = Nobody
  Kinds = {"gtjb", "udjb", "fnjb", "upjb", "upcd"}
  InitQueue = {j1}
  Priorities = {0, 2}
  Timeouts = {0}
  CrawlIDs = {0, 1}
  JunkInts = {0, 9}
  Reasons = {0, 1}
  NO_RETRY_REASONS = {10}
  MAX_JOB_RETRIES = 1
  MAX_RETRIES = 0
  MIN_AMOUNT_JOBS = 2
  CRAWL_TIMEOUT_SECONDS = 1
  RECOUNT_WAIT_TIME = 1
  MaxTime = 2
  MaxRequests = 5
  MaxUpload = 2
  MaxFaults = 0
INVARIANTS
  TopJobProvidable
  CountMatchesQueue
  CrawlIDStored
PROPERTIES
  CrawlOnlyWhenNoneWorking
CHECK_DEADLOCK FALSE
