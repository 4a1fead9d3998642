-------------------------- MODULE JobQueueProperties --------------------------
(***************************************************************************)
(* What the job distribution has to keep, and what the comments and tests   *)
(* of the repository say of it.                                             *)
(***************************************************************************)
EXTENDS JobQueue

Places == {"idle", "lock", "countFree", "countBusy", "countAgain", "top", "addCur", "delTop",
           "time", "getCur", "delCur", "putCur", "addFail", "next", "upload", "insert",
           "bump", "bumpErr", "check", "setCrawl", "newCrawl", "storeCrawl",
           "sleep", "clock", "sweep", "swDel"}

QueueRows   == [jobid : Uuid, priority : Int, retries : Int, timeout : Int]
CurrentRows == [jobid : Uuid, priority : Int, retries : Int, timeout : Int,
                time : Nat]
LocalJobs   == [jobid : Uuid \cup {NoId}, priority : Int, retries : Int,
                timeout : Int, time : Int]
LocalReqs   == [kind : {"none", "gtjb", "udjb", "fnjb", "upjb", "upcd"},
                jobid : Uuid \cup {NoId}, time : Int, reason : Int, crawl : Int, left : Int]

\* The types of the tables, the shared memory and the locals; queryWithRetry counts
\* no more than MAX_RETRIES failed attempts before the one that gives up.
TypeOK ==
  /\ jobsqueue \subseteq QueueRows /\ IsFiniteSet(jobsqueue)
  /\ currentjobs \subseteq CurrentRows
  /\ failedjobs \subseteq Uuid \X Int
  /\ dbCrawlID \in Int /\ crawlID \in Int
  /\ jobmtx \in Thread \cup {Nobody}
  /\ numberOfJobs \in Int
  /\ timeLastRecount \in Nat \cup {-1}
  /\ timeLastCrawl \in Nat \cup {-1}
  /\ pc \in [Proc -> Places]
  /\ req \in [Proc -> LocalReqs]
  /\ job \in [Proc -> LocalJobs]
  /\ since \in [Proc -> Nat]
  /\ tries \in [Proc -> 0..MAX_RETRIES]
  /\ todo \in [Sweeper -> SUBSET CurrentRows]
  /\ now \in Nat
  /\ leases \subseteq Uuid \X Int
  /\ issued \subseteq Nat /\ crawlers \subseteq Nat
  /\ requests \in Nat /\ faults \in Nat
  /\ used \subseteq Uuid /\ finished \subseteq Uuid /\ overtaken \subseteq Uuid
  /\ credit \in [Uuid -> Int]
  /\ crashed \in BOOLEAN /\ undef \in BOOLEAN

(***************************************************************************)
(* Safety.                                                                  *)
(***************************************************************************)
\* No row of jobsqueue is handed out twice: the "Spider" replies for a job plus
\* the rows it still has never exceed the times it was put in the queue.  This is
\* what jobmtx in handleGetJobRequest is for; it must survive failed and repeated
\* queries and restarts.
HandoutsPaidFor == \A id \in Uuid : Cardinality(RowsOf(id)) <= credit[id]

\* A handler or the sweep took the job out of currentjobs and will put it back.
InFlight(id) ==
  \E t \in Proc : pc[t] \in {"putCur", "addFail", "upload", "insert"} /\ job[t].jobid = id

Known(id) == \/ RowsOf(id) # {}
             \/ CurrentOf(id) # {}
             \/ id \in finished
             \/ InFlight(id)

\* As long as the database answers and the process lives, a job that was ever in
\* a table is queued, handed out, done with, or in the hands of a handler or the
\* sweep that will put it back, retries included: getTopJob adds it to currentjobs
\* before it deletes it from jobsqueue.  One interleaving does lose a job and is
\* left out: it is put back in the queue, for a retry, between that INSERT and that
\* DELETE (overtaken), and the DELETE takes the row of the retry.
NoJobVanishes ==
  faults = 0 /\ ~crashed => \A id \in used \ overtaken : Known(id)

\* No row ever carries more retries than MAX_JOB_RETRIES, whatever failed queries,
\* restarts, handleFinishJobRequest and the sweep do to each other, as long as no
\* uninitialised Job was used.
RetriesBounded ==
  ~undef => \A row \in jobsqueue \cup currentjobs : row.retries <= MAX_JOB_RETRIES

\* As long as the database answers and no uninitialised Job was used, a job is on
\* a retry only if failedjobs says it failed: handleFinishJobRequest and
\* updateCurrentJob record the failure first.
RetryHasFailureRecord ==
  faults = 0 /\ ~undef =>
    \A row \in jobsqueue \cup currentjobs :
      row.retries > 0 => \E f \in failedjobs : f[1] = row.jobid

\* getTopJob is only called when there is a top job (JobRequestHandler.cpp: "Check
\* if number of jobs is enough to provide the top job.").
TopJobProvidable == \A t \in Thread : pc[t] = "top" => jobsqueue # {}

\* numberOfJobs is the number of rows of jobsqueue whenever no handler is between
\* the query and the count.
CountMatchesQueue ==
  (\A t \in Proc : pc[t] \notin {"insert", "bump", "bumpErr"})
    => numberOfJobs = Cardinality(jobsqueue)

\* A crawlID the leader works with is the one in the database, except while
\* updateCrawlID stores it.
CrawlIDStored == crawlID # dbCrawlID => \E t \in Thread : pc[t] = "storeCrawl"

(***************************************************************************)
(* Action properties.                                                       *)
(***************************************************************************)
IssuesCrawl == \E t \in Thread : pc[t] = "countFree" /\ pc'[t] = "idle"

\* A crawl is handed out only when no crawler is working: none that was told to
\* crawl at most CRAWL_TIMEOUT_SECONDS ago has yet to report (JobRequestHandler.h,
\* handleGetJobRequest).
CrawlOnlyWhenNoneWorking ==
  [][ ~crashed /\ ~crashed' /\ IssuesCrawl =>
        \A c \in crawlers : \E t \in Thread :
           pc[t] = "countFree" /\ since[t] - c > CRAWL_TIMEOUT_SECONDS ]_vars

(***************************************************************************)
(* Liveness.                                                                *)
(***************************************************************************)
\* A row of currentjobs whose timeout has passed does not stay: updateCurrentJobs
\* comes around again and finds it, unless a handler replaced or took it before.
Overdue(id, time) ==
  \E row \in currentjobs : row.jobid = id /\ row.time = time /\ row.time + row.timeout < now
ExpiredLeaseSwept ==
  \A id \in Uuid, time \in 0..MaxTime : Overdue(id, time) ~> ~Overdue(id, time)

\* jobmtx is locked and unlocked by hand in handleGetJobRequest; every way out of
\* the handler, failed queries included, releases it.
JobmtxReleased == \A t \in Thread : jobmtx = t ~> jobmtx # t
============================================================================
