SPECIFICATION Spec
CONSTANTS
  j1 = j1
  j2 = j2
  a1 = a1
  b1 = b1
  sa = sa
  sb = sb
  Uuid = {j1}
  NoId = NoId
  ThreadA = {a1}
  SweeperA = {sa}
  ThreadB = {b1}
  SweeperB = {sb}
  Nobody = Nobody
  Kinds = {"gtjb", "fnjb"}
  InitQueue = {j1}
  Priorities = {0}
  Timeouts = {0}
  CrawlIDs = {0}
  JunkInts = {9}
  Reasons = {0, 1}
  NO_RETRY_REASONS = {10}
  MAX_JOB_RETRIES = 1
  MAX_RETRIES = 0
  MIN_AMOUNT_JOBS = 1
  CRAWL_TIMEOUT_SECONDS = 1
  RECOUNT_WAIT_TIME = 1
  MaxTime = 1
  MaxRequests = 3
  MaxUpload = 1
  MaxFaults = 0
INVARIANTS
  NoJobLost
  RetriesStillBounded
