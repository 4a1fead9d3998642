------------------------------ MODULE TwoLeaders ------------------------------
(***************************************************************************)
(* Two nodes that both take themselves for the leader, as RaftMembership    *)
(* shows they may: each runs the job distribution of JobQueue with its own  *)
(* mutex, count of jobs and sweeper, over the same Cassandra tables.        *)
(***************************************************************************)
EXTENDS Integers, FiniteSets

CONSTANTS
  ThreadA, SweeperA, ThreadB, SweeperB,
  Uuid, NoId, Nobody, Kinds, InitQueue, Priorities, Timeouts, CrawlIDs, JunkInts,
  Reasons, NO_RETRY_REASONS, MAX_JOB_RETRIES, MAX_RETRIES,
  MIN_AMOUNT_JOBS, CRAWL_TIMEOUT_SECONDS, RECOUNT_WAIT_TIME,
  MaxTime, MaxRequests, MaxUpload, MaxFaults

ASSUME LeadersAssumption == (ThreadA \cup SweeperA) \cap (ThreadB \cup SweeperB) = {}

VARIABLES
  jobsqueue, currentjobs, failedjobs, dbCrawlID,
  now, leases, issued, crawlers, requests, faults,
  used, finished, credit, overtaken, crashed, undef,
  crossed,          \* jobs one leader put back while the other one was about to delete them
  \* memory and threads of the one leader and of the other
  jobmtxA, numberOfJobsA, timeLastRecountA, timeLastCrawlA, crawlIDA,
  pcA, reqA, jobA, sinceA, triesA, todoA,
  jobmtxB, numberOfJobsB, timeLastRecountB, timeLastCrawlB, crawlIDB,
  pcB, reqB, jobB, sinceB, triesB, todoB

memoryA == <<jobmtxA, numberOfJobsA, timeLastRecountA, timeLastCrawlA, crawlIDA,
             pcA, reqA, jobA, sinceA, triesA, todoA>>
memoryB == <<jobmtxB, numberOfJobsB, timeLastRecountB, timeLastCrawlB, crawlIDB,
             pcB, reqB, jobB, sinceB, triesB, todoB>>
shared  == <<jobsqueue, currentjobs, failedjobs, dbCrawlID,
             now, leases, issued, crawlers, requests, faults,
             used, finished, credit, overtaken, crashed, undef>>
vars    == <<shared, crossed, memoryA, memoryB>>

\* Each is JobQueue; the module taken also has what is proved about it.
A == INSTANCE JobFlowProofs WITH
       Thread <- ThreadA, Sweeper <- SweeperA, jobmtx <- jobmtxA,
       numberOfJobs <- numberOfJobsA, timeLastRecount <- timeLastRecountA,
       timeLastCrawl <- timeLastCrawlA, crawlID <- crawlIDA, pc <- pcA, req <- reqA,
       job <- jobA, since <- sinceA, tries <- triesA, todo <- todoA
B == INSTANCE JobFlowProofs WITH
       Thread <- ThreadB, Sweeper <- SweeperB, jobmtx <- jobmtxB,
       numberOfJobs <- numberOfJobsB, timeLastRecount <- timeLastRecountB,
       timeLastCrawl <- timeLastCrawlB, crawlID <- crawlIDB, pc <- pcB, req <- reqB,
       job <- jobB, since <- sinceB, tries <- triesB, todo <- todoB

\* Each of them alone is an instance that JobQueue allows.
ASSUME EachAssumption ==
  /\ A!IdAssumption /\ A!ThreadAssumption /\ A!QueueAssumption /\ A!DataAssumption
  /\ A!LimitAssumption /\ A!BoundAssumption
  /\ B!IdAssumption /\ B!ThreadAssumption /\ B!QueueAssumption /\ B!DataAssumption
  /\ B!LimitAssumption /\ B!BoundAssumption

\* Both start on the same tables.
Init == A!Init /\ B!Init /\ crossed = {}

\* The jobs this step puts in the queue.
PutBack == {id \in Uuid : credit'[id] > credit[id]}

\* A step of one of them leaves the memory of the other one alone.
Next == \/ /\ A!Next
           /\ crossed' = crossed \cup {id \in PutBack : B!Leaving(id)}
           /\ UNCHANGED memoryB
        \/ /\ B!Next
           /\ crossed' = crossed \cup {id \in PutBack : A!Leaving(id)}
           /\ UNCHANGED memoryA

Spec == Init /\ [][Next]_vars

(***************************************************************************)
(* Properties                                                               *)
(***************************************************************************)
\* As long as no query fails and no process dies, two leaders hand out, sweep, requeue
\* and finish the jobs of the same tables without losing one, but in one case: a job that
\* either of them puts back in the queue while a getTopJob, of the same leader (overtaken)
\* or of the other one (crossed), is between its INSERT into currentjobs and its DELETE
\* from jobsqueue.  That DELETE takes the row just put back, and the job may be gone.
NoJobLost ==
  faults = 0 /\ ~crashed
    => \A id \in used \ (overtaken \cup crossed) : A!Known(id) \/ B!Known(id)

\* Two leaders that requeue the same job do not give it more than MAX_JOB_RETRIES.
RetriesStillBounded ==
  ~undef => \A row \in jobsqueue \cup currentjobs : row.retries <= MAX_JOB_RETRIES
=============================================================================
