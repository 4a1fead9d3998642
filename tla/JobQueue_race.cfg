SPECIFICATION Spec
CONSTANTS
  j1 = j1
  j2 = j2
  j3 = j3
  t1 = t1
  t2 = t2
  sw = sw
  Uuid = {j1}
  NoId = NoId
  Thread = {t1, t2}
  Sweeper = {sw}
  Nobody = Nobody
  Kinds = {"gtjb", "udjb", "fnjb"}
  InitQueue = {j1}
  Priorities = {0}
  Timeouts = {0}
  CrawlIDs = {0}
  JunkInts = {9}
  Reasons = {0, 1, 10}
  NO_RETRY_REASONS = {10}
  MAX_JOB_RETRIES = 1
  MAX_RETRIES = 1
  MIN_AMOUNT_JOBS = 1
  CRAWL_TIMEOUT_SECONDS = 1
  RECOUNT_WAIT_TIME = 1
  MaxTime = 1
  MaxRequests = 4
  MaxUpload = 1
  MaxFaults = 2
CONSTRAINT FewFaults
SYMMETRY ThreadSymmetry
INVARIANTS
  TypeOK
  RetriesBounded
  HandoutsPaidFor
  NoJobVanishes
  RetryHasFailureRecord
