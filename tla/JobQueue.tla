------------------------------- MODULE JobQueue -------------------------------
(***************************************************************************)
(* The job distribution of the leader node: the request handlers of         *)
(* JobRequestHandler.cpp, the queries of DatabaseConnection.cpp they make   *)
(* and the thread that sweeps timed-out jobs, over the three Cassandra      *)
(* tables jobsqueue, currentjobs and failedjobs.                            *)
(*                                                                          *)
(* Every TCP connection is served by a thread of its own (Thread), so one   *)
(* step is one Cassandra query, or one stretch of code between queries that *)
(* touches memory shared by the threads.  A handler's place between its     *)
(* steps is pc[t], named after the query that comes next.                   *)
(*                                                                          *)
(* A query may fail (faults < MaxFaults): an error is reported either for a *)
(* query that had no effect ("lost") or for one that had ("late"), since a  *)
(* time-out says nothing about what the database did.                       *)
(***************************************************************************)
EXTENDS Integers, FiniteSets

CONSTANTS
  Uuid,             \* job ids the database can generate
  NoId,             \* the empty jobid of a Job that getCurrentJob did not find
  Thread,           \* connection threads
  Sweeper,          \* threads that run updateCurrentJobs (one, or none)
  Nobody,           \* jobmtx is free
  Kinds,            \* the requests the clients of this instance send
  InitQueue,        \* jobs already in the database when the leader starts
  Priorities, Timeouts, CrawlIDs,                  \* data in requests
  JunkInts,         \* what an uninitialised integer may hold
  Reasons,          \* reason ids of a finish request; 0 is success
  NO_RETRY_REASONS, MAX_JOB_RETRIES, MAX_RETRIES,
  MIN_AMOUNT_JOBS, CRAWL_TIMEOUT_SECONDS, RECOUNT_WAIT_TIME,
  MaxTime, MaxRequests, MaxUpload, MaxFaults       \* bounds of the instance

ASSUME IdAssumption     == NoId \notin Uuid
ASSUME ThreadAssumption == /\ Thread \cap Sweeper = {}
                           /\ Nobody \notin Thread \cup Sweeper
ASSUME QueueAssumption  == InitQueue \subseteq Uuid /\ IsFiniteSet(Uuid)
ASSUME DataAssumption   == /\ Priorities \subseteq Int
                           /\ Timeouts \subseteq Int
                           /\ CrawlIDs \subseteq Int
                           /\ Reasons \subseteq Int
                           /\ JunkInts \subseteq Int
ASSUME LimitAssumption  == /\ MAX_JOB_RETRIES \in Nat
                           /\ MAX_RETRIES \in Nat
                           /\ MIN_AMOUNT_JOBS \in Nat \ {0}
                           /\ CRAWL_TIMEOUT_SECONDS \in Nat
                           /\ RECOUNT_WAIT_TIME \in Nat
ASSUME BoundAssumption  == /\ MaxTime \in Nat
                           /\ MaxRequests \in Nat
                           /\ MaxUpload \in Nat
                           /\ MaxFaults \in Nat

VARIABLES
  \* Cassandra
  jobsqueue,        \* rows of jobs.jobsqueue, key (priority, jobid)
  currentjobs,      \* rows of jobs.currentjobs, key jobid
  failedjobs,       \* keys (jobid, time) of jobs.failedjobs
  dbCrawlID,        \* the row crawlID of jobs.variables
  \* memory of the process, shared by its threads
  jobmtx, numberOfJobs, timeLastRecount, timeLastCrawl, crawlID,
  \* per thread: place, request, local Job, last clock reading, failed attempts
  pc, req, job, since, tries,
  todo,             \* the rows a sweep has yet to look at
  \* the world
  now,              \* the clock
  leases,           \* <<jobid, time>> pairs told to some worker
  issued, crawlers, \* crawl identifiers told to some crawler / not yet reported
  requests, faults, \* requests and faults so far
  \* history
  used,             \* job ids that ever had a row
  finished,         \* jobs whose success was accepted or that were given up
  credit,           \* per job: inserts into jobsqueue minus "Spider" replies
  overtaken,        \* jobs put back in the queue while getTopJob was about to delete them
  crashed, undef    \* the process died / an uninitialised Job was used

db     == <<jobsqueue, currentjobs, failedjobs, dbCrawlID>>
mem    == <<jobmtx, numberOfJobs, timeLastRecount, timeLastCrawl, crawlID>>
local  == <<pc, req, job, since, tries, todo>>
world  == <<now, leases, issued, crawlers, requests, faults>>
ghosts == <<used, finished, credit, overtaken, crashed, undef>>
vars   == <<db, mem, local, world, ghosts>>

Proc     == Thread \cup Sweeper
Outcomes == {"ok", "lost", "late"}
Answers  == {"ok", "lost"}          \* of a query that only reads

(***************************************************************************)
(* Rows and locals.                                                         *)
(***************************************************************************)
NoJob == [jobid |-> NoId, priority |-> 0, retries |-> 0, timeout |-> 0, time |-> 0]
NoReq == [kind |-> "none", jobid |-> NoId, time |-> -1, reason |-> 0,
          crawl |-> 0, left |-> 0]

QueueRow(j, id, p) == [jobid |-> id, priority |-> p,
                       retries |-> j.retries, timeout |-> j.timeout]
\* MUTANT of JobOf: getTopJob counts a hand-out as a retry.
CountsHandout(row) == [jobid |-> row.jobid, priority |-> row.priority,
                       retries |-> row.retries + 1, timeout |-> row.timeout, time |-> 0]
JobOf(row) == [jobid |-> row.jobid, priority |-> row.priority,
               retries |-> row.retries, timeout |-> row.timeout, time |-> 0]

\* What the fields of a default-constructed Job may hold: jobid is set to "",
\* the integers are not initialised.
Junk == [jobid : {NoId}, priority : JunkInts, retries : JunkInts,
         timeout : JunkInts, time : JunkInts]

\* cass_uuid_from_string leaves its result alone when the string is no uuid.
UuidOf(j) == IF j.jobid = NoId THEN Uuid ELSE {j.jobid}

RowsOf(id)    == {r \in jobsqueue : r.jobid = id}
CurrentOf(id) == {r \in currentjobs : r.jobid = id}
TopRows       == {r \in jobsqueue : \A q \in jobsqueue : r.priority <= q.priority}

\* INSERT and DELETE by primary key.
QueueWith(row)      == {r \in jobsqueue : r.jobid # row.jobid \/ r.priority # row.priority}
                         \cup {row}
QueueWithout(id, p) == {r \in jobsqueue : r.jobid # id \/ r.priority # p}
CurrentWith(row)    == {r \in currentjobs : r.jobid # row.jobid} \cup {row}
CurrentWithout(id)  == {r \in currentjobs : r.jobid # id}

(***************************************************************************)
(* The conditions the code decides on.                                      *)
(***************************************************************************)
AlreadyCrawling(time) ==
  timeLastCrawl # -1 /\ time - timeLastCrawl <= CRAWL_TIMEOUT_SECONDS

\* timeLastRecount = -1 is long ago for a clock that counts from 1970.
RecountDue == timeLastRecount = -1 \/ now - timeLastRecount > RECOUNT_WAIT_TIME

\* MUTANT of Expired: the comparison the wrong way round.
ExpiredReversed(row, time) == row.time + row.timeout > time
Expired(row, time) == row.time + row.timeout < time

\* MUTANT of RetriesLeft: one retry too many.
OneRetryMore(j) == j.retries <= MAX_JOB_RETRIES
RetriesLeft(j) == j.retries < MAX_JOB_RETRIES

(***************************************************************************)
(* Going on at a place of the code with j as the local Job.  A handler's    *)
(* locals end with it; the clock is read again where a time is about to be  *)
(* recorded.                                                                *)
(***************************************************************************)
Jobless == {"idle", "top", "getCur", "next", "sweep"}
Stamped == {"countFree", "addCur", "putCur"}

Goto(t, place, j) ==
  /\ pc' = [pc EXCEPT ![t] = place]
  /\ job' = [job EXCEPT ![t] = IF place \in Jobless THEN NoJob ELSE j]
  /\ since' = [since EXCEPT ![t] = IF place \in Stamped THEN now ELSE 0]
  /\ req' = [req EXCEPT ![t] = IF place = "idle" THEN NoReq ELSE @]

(***************************************************************************)
(* Utility::queryWithRetry.  A failed attempt starts the wrapped function   *)
(* over at `first', until MAX_RETRIES + 1 attempts failed; then the handler *)
(* goes on at `giveUp'.  A function of several queries keeps its count of   *)
(* attempts until it is through.  The sweeper retries nothing.              *)
(***************************************************************************)
MidFunction == {"addCur", "delTop", "delCur"}
Attempts(t) == IF t \in Sweeper THEN 0 ELSE MAX_RETRIES

Spend(o) == /\ o # "ok" => faults < MaxFaults
            /\ faults' = IF o = "ok" THEN faults ELSE faults + 1

\* MUTANT of Again: one attempt too many.
OnceMore(t, o) == o # "ok" /\ tries[t] <= Attempts(t)

Again(t, o) == o # "ok" /\ tries[t] < Attempts(t)

AfterQuery(t, o, next, first, giveUp, j) ==
  /\ Goto(t, IF o = "ok" THEN next ELSE IF Again(t, o) THEN first ELSE giveUp, j)
  /\ tries' = [tries EXCEPT ![t] = IF Again(t, o) THEN @ + 1
                                   ELSE IF o = "ok" /\ next \in MidFunction THEN @ ELSE 0]

(***************************************************************************)
(* numberOfJobs is a plain int.  An update is lost when another thread is   *)
(* updating it too.                                                         *)
(***************************************************************************)
Racing(t) == \E u \in Proc \ {t} : pc[u] \in {"delTop", "upload", "bump", "bumpErr"}

\* MUTANT of AddToNumberOfJobs: deleteTopJob does not count down.
CountsOnlyUp(t, d) == numberOfJobs' = IF d > 0 THEN numberOfJobs + d ELSE numberOfJobs

AddToNumberOfJobs(t, d) ==
  \/ numberOfJobs' = numberOfJobs + d
  \/ Racing(t) /\ numberOfJobs' = numberOfJobs

\* getNumberOfJobs: numberOfJobs' is also the number returned.  COUNT and its
\* assignment are one step; an upload in progress counts itself before or after it.
GetNumberOfJobs ==
  \/ /\ ~RecountDue
     /\ UNCHANGED <<numberOfJobs, timeLastRecount, faults>>
  \/ /\ RecountDue
     /\ numberOfJobs' = Cardinality(jobsqueue)
     /\ timeLastRecount' = now
     /\ UNCHANGED faults
  \/ /\ RecountDue
     /\ Spend("lost")
     /\ UNCHANGED <<numberOfJobs, timeLastRecount>>

(***************************************************************************)
(* Requests.  A client may send any lease or crawl identifier it was ever   *)
(* told, again or late.                                                     *)
(***************************************************************************)
Begin(t, r, place) ==
  /\ pc[t] = "idle"
  /\ r.kind \in Kinds
  /\ requests < MaxRequests
  /\ requests' = requests + 1
  /\ req' = [req EXCEPT ![t] = r]
  /\ pc' = [pc EXCEPT ![t] = place]
  /\ UNCHANGED <<db, mem, job, since, tries, todo, now, leases, issued, crawlers,
                 faults, ghosts>>

RequestGetJob(t) == Begin(t, [NoReq EXCEPT !.kind = "gtjb"], "lock")

RequestUpdateJob(t) ==
  \E l \in leases :
    Begin(t, [NoReq EXCEPT !.kind = "udjb", !.jobid = l[1], !.time = l[2]], "time")

RequestFinishJob(t) ==
  \E l \in leases, why \in Reasons :
    Begin(t, [NoReq EXCEPT !.kind = "fnjb", !.jobid = l[1], !.time = l[2],
                           !.reason = why], "time")

\* Jobs are parsed before any is uploaded; a malformed request changes nothing.
RequestUploadJob(t) ==
  \E n \in 1..MaxUpload :
    Begin(t, [NoReq EXCEPT !.kind = "upjb", !.left = n], "next")

\* left = 0 stands for malformed job lines, found after the crawlID was taken.
RequestCrawlData(t) ==
  \E ident \in issued, c \in CrawlIDs, n \in 0..MaxUpload :
    Begin(t, [NoReq EXCEPT !.kind = "upcd", !.time = ident, !.crawl = c, !.left = n],
          "check")

(***************************************************************************)
(* handleGetJobRequest                                                      *)
(***************************************************************************)
\* MUTANT of MutexFree: handleGetJobRequest does not lock.
NotLocked == TRUE
MutexFree == jobmtx = Nobody

LockJobmtx(t) ==
  /\ pc[t] = "lock"
  /\ MutexFree
  /\ jobmtx' = t
  /\ Goto(t, IF AlreadyCrawling(now) THEN "countBusy" ELSE "countFree", job[t])
  /\ UNCHANGED <<db, numberOfJobs, timeLastRecount, timeLastCrawl, crawlID,
                 tries, todo, world, ghosts>>

\* MUTANT of ReleaseJobmtx: the error return does not unlock.
LeaksJobmtx(t) ==
  jobmtx' = IF pc'[t] = "idle" /\ faults' = faults THEN Nobody ELSE jobmtx

\* The mutex is released where the handler ends.
ReleaseJobmtx(t) == jobmtx' = IF pc'[t] = "idle" THEN Nobody ELSE jobmtx

EnoughJobs(n) == n >= MIN_AMOUNT_JOBS
\* MUTANT of SomeJobs: off by one.
NoJobsWillDo(n) == n >= 0
SomeJobs(n)   == n >= 1

\* No crawler is working: hand out a job if there are plenty, else a crawl.
CountFree(t) ==
  /\ pc[t] = "countFree"
  /\ GetNumberOfJobs
  /\ IF EnoughJobs(numberOfJobs')
     THEN /\ Goto(t, "top", job[t])
          /\ UNCHANGED <<timeLastCrawl, issued, crawlers>>
     ELSE /\ Goto(t, "idle", job[t])
          /\ timeLastCrawl' = since[t]
          /\ issued' = issued \cup {since[t]}
          /\ crawlers' = crawlers \cup {since[t]}
  /\ ReleaseJobmtx(t)
  /\ UNCHANGED <<db, crawlID, tries, todo, now, leases, requests, ghosts>>

CountBusy(t) ==
  /\ pc[t] = "countBusy"
  /\ GetNumberOfJobs
  /\ Goto(t, IF EnoughJobs(numberOfJobs') THEN "top" ELSE "countAgain", job[t])
  /\ UNCHANGED <<db, jobmtx, timeLastCrawl, crawlID, tries, todo,
                 now, leases, issued, crawlers, requests, ghosts>>

\* A crawler is working: hand out a job as long as there is one, else "NoJob".
CountAgain(t) ==
  /\ pc[t] = "countAgain"
  /\ GetNumberOfJobs
  /\ Goto(t, IF SomeJobs(numberOfJobs') THEN "top" ELSE "idle", job[t])
  /\ ReleaseJobmtx(t)
  /\ UNCHANGED <<db, timeLastCrawl, crawlID, tries, todo,
                 now, leases, issued, crawlers, requests, ghosts>>

\* MUTANT of SelectTopJob: the row is deleted before it is added to currentjobs.
DeletesTopFirst(t) ==
  /\ pc[t] = "top"
  /\ \E row \in TopRows : /\ AfterQuery(t, "ok", "addCur", "top", "idle", JobOf(row))
                          /\ jobsqueue' = jobsqueue \ {row}
  /\ UNCHANGED <<currentjobs, failedjobs, dbCrawlID, mem, todo, world, ghosts>>

\* getTopJob: SELECT the top row, INSERT it into currentjobs, DELETE it.
SelectTopJob(t) ==
  /\ pc[t] = "top"
  /\ \/ \E row \in TopRows : /\ AfterQuery(t, "ok", "addCur", "top", "idle", JobOf(row))
                             /\ UNCHANGED faults
     \/ /\ Spend("lost")
        /\ AfterQuery(t, "lost", "addCur", "top", "idle", job[t])
  /\ ReleaseJobmtx(t)
  /\ UNCHANGED <<db, numberOfJobs, timeLastRecount, timeLastCrawl, crawlID, todo,
                 now, leases, issued, crawlers, requests, ghosts>>

\* addCurrentJob stamps the row with a clock reading taken before the INSERT.
AddTopToCurrent(t) ==
  /\ pc[t] = "addCur"
  /\ \E o \in Outcomes, stamp \in since[t]..now :
       LET row == [job[t] EXCEPT !.time = stamp]
       IN  /\ Spend(o)
           /\ AfterQuery(t, o, "delTop", "top", "idle", row)
           /\ currentjobs' = IF o = "lost" THEN currentjobs ELSE CurrentWith(row)
  /\ ReleaseJobmtx(t)
  /\ UNCHANGED <<jobsqueue, failedjobs, dbCrawlID, numberOfJobs, timeLastRecount,
                 timeLastCrawl, crawlID, todo, now, leases, issued, crawlers,
                 requests, ghosts>>

\* deleteTopJob counts the job down once per attempt, whatever the outcome.
DeleteTopJob(t) ==
  /\ pc[t] = "delTop"
  /\ \E o \in Outcomes :
       /\ Spend(o)
       /\ AfterQuery(t, o, "idle", "top", "idle", job[t])
       /\ jobsqueue' = IF o = "lost" THEN jobsqueue
                       ELSE QueueWithout(job[t].jobid, job[t].priority)
       /\ IF o = "ok"
          THEN /\ leases' = leases \cup {<<job[t].jobid, job[t].time>>}
               /\ credit' = [credit EXCEPT ![job[t].jobid] = @ - 1]
          ELSE UNCHANGED <<leases, credit>>
  /\ AddToNumberOfJobs(t, -1)
  /\ ReleaseJobmtx(t)
  /\ UNCHANGED <<currentjobs, failedjobs, dbCrawlID, timeLastRecount, timeLastCrawl,
                 crawlID, todo, now, issued, crawlers, requests,
                 used, finished, overtaken, crashed, undef>>

(***************************************************************************)
(* handleUpdateJobRequest and handleFinishJobRequest                        *)
(***************************************************************************)
SameTime(row, r) == row.time = r.time

\* getCurrentJobTime: any answer but the time in the request is refused.
CheckTime(t) ==
  /\ pc[t] = "time"
  /\ \E o \in Answers :
       /\ Spend(o)
       /\ AfterQuery(t, o, IF \E row \in CurrentOf(req[t].jobid) : SameTime(row, req[t])
                           THEN "getCur" ELSE "idle", "time", "idle", job[t])
  /\ UNCHANGED <<db, mem, todo, now, leases, issued, crawlers, requests, ghosts>>

\* Where the handler goes with what getCurrentJob returned; errno is not checked.
AfterGet(r) == IF r.kind = "udjb" THEN "putCur"
               ELSE IF r.reason # 0 THEN "addFail" ELSE "idle"

\* getCurrentJob: SELECT the row, then DELETE it.  When there is no row, or the
\* last attempt failed, the Job returned is not initialised.
GetCurrentJob(t) ==
  /\ pc[t] = "getCur"
  /\ \/ \E row \in CurrentOf(req[t].jobid) :
          /\ AfterQuery(t, "ok", "delCur", "getCur", "idle", row)
          /\ UNCHANGED <<faults, undef>>
     \/ \E j \in Junk :
          /\ CurrentOf(req[t].jobid) = {}
          /\ AfterQuery(t, "ok", AfterGet(req[t]), "getCur", "idle", j)
          /\ undef' = (undef \/ AfterGet(req[t]) # "idle")
          /\ UNCHANGED faults
     \/ \E j \in Junk :
          /\ Spend("lost")
          /\ AfterQuery(t, "lost", "delCur", "getCur", AfterGet(req[t]), j)
          /\ undef' = (undef \/ (~Again(t, "lost") /\ AfterGet(req[t]) # "idle"))
  /\ UNCHANGED <<db, mem, todo, now, leases, issued, crawlers, requests,
                 used, finished, credit, overtaken, crashed>>

\* The success of the job is accepted where the handler ends.
DeleteCurrentJob(t) ==
  /\ pc[t] = "delCur"
  /\ \E o \in Outcomes :
       /\ Spend(o)
       /\ AfterQuery(t, o, AfterGet(req[t]), "getCur", AfterGet(req[t]), job[t])
       /\ currentjobs' = IF o = "lost" THEN currentjobs ELSE CurrentWithout(req[t].jobid)
  /\ finished' = IF pc'[t] = "idle" THEN finished \cup {job[t].jobid} ELSE finished
  /\ UNCHANGED <<jobsqueue, failedjobs, dbCrawlID, mem, todo, now, leases, issued,
                 crawlers, requests, used, credit, overtaken, crashed, undef>>

\* The handler answers an update with the new time even if no row got it.
RenewCurrentJob(t) ==
  /\ pc[t] = "putCur"
  /\ \E o \in Outcomes, stamp \in since[t]..now, id \in UuidOf(job[t]) :
       LET row == [job[t] EXCEPT !.jobid = id, !.time = stamp]
       IN  /\ Spend(o)
           /\ AfterQuery(t, o, "idle", "putCur", "idle", job[t])
           /\ currentjobs' = IF o = "lost" THEN currentjobs ELSE CurrentWith(row)
           /\ used' = IF o = "lost" THEN used ELSE used \cup {id}
           /\ leases' = IF Again(t, o) THEN leases
                        ELSE leases \cup {<<req[t].jobid, stamp>>}
  /\ UNCHANGED <<jobsqueue, failedjobs, dbCrawlID, mem, todo, now, issued, crawlers,
                 requests, finished, credit, overtaken, crashed, undef>>

\* The finished jobs once nothing is left to do for j.
Over(j) == finished \cup ({j.jobid} \ {NoId})

Retryable(j, reason) == RetriesLeft(j) /\ reason \notin NO_RETRY_REASONS

\* addFailedJob, then the queue again unless this was the last try.
AddFailedJob(t) ==
  /\ pc[t] = "addFail"
  /\ \E o \in Outcomes, id \in UuidOf(job[t]) :
       /\ Spend(o)
       /\ IF o = "ok" /\ Retryable(job[t], req[t].reason)
          THEN AfterQuery(t, o, "upload", "addFail", "idle",
                          [job[t] EXCEPT !.retries = @ + 1])
          ELSE AfterQuery(t, o, "idle", "addFail", "idle", job[t])
       /\ failedjobs' = IF o = "lost" THEN failedjobs
                        ELSE failedjobs \cup {<<id, job[t].time>>}
       /\ finished' = IF o = "ok" /\ ~Retryable(job[t], req[t].reason)
                      THEN Over(job[t]) ELSE finished
  /\ UNCHANGED <<jobsqueue, currentjobs, dbCrawlID, mem, todo, now, leases, issued,
                 crawlers, requests, used, credit, overtaken, crashed, undef>>

(***************************************************************************)
(* uploadJob, for new jobs (handleUploadJobRequest, handleCrawlDataRequest) *)
(* and for retried ones (handleFinishJobRequest, updateCurrentJob).  The    *)
(* query runs asynchronously: numberOfJobs may be counted up before or      *)
(* after the row is there, and is, once per attempt, whatever the outcome.  *)
(***************************************************************************)
IsNew(t) == t \in Thread /\ req[t].kind \in {"upjb", "upcd"}

\* Uuid bounds the number of jobs.
NextJob(t) ==
  /\ pc[t] = "next"
  /\ Uuid \ used # {}
  /\ \E p \in Priorities, d \in Timeouts :
       job' = [job EXCEPT ![t] = [NoJob EXCEPT !.priority = p, !.timeout = d]]
  /\ req' = [req EXCEPT ![t].left = @ - 1]
  /\ pc' = [pc EXCEPT ![t] = "upload"]
  /\ UNCHANGED <<db, mem, since, tries, todo, world, ghosts>>

AfterUpload(t) == IF t \in Sweeper THEN "sweep"
                  ELSE IF req[t].left > 0 THEN "next" ELSE "idle"
NoUpload(t)    == IF t \in Sweeper THEN "sweep" ELSE "idle"

\* getTopJob has copied the job to currentjobs and is about to delete its row.
Leaving(id) == \E u \in Thread : pc[u] = "delTop" /\ job[u].jobid = id

\* The priority of a new job ages with the clock, a retried job keeps its own.
InsertJob(t) ==
  /\ pc[t] \in {"upload", "insert"}
  /\ \E o \in Outcomes, id \in IF IsNew(t) THEN Uuid \ used ELSE UuidOf(job[t]) :
       LET p == IF IsNew(t) THEN now - job[t].priority ELSE job[t].priority
       IN  /\ Spend(o)
           /\ IF pc[t] = "insert"
              THEN AfterQuery(t, o, AfterUpload(t), "upload", NoUpload(t), job[t])
              ELSE /\ Goto(t, IF o = "ok" THEN "bump" ELSE "bumpErr", job[t])
                   /\ UNCHANGED tries
           /\ IF o = "lost" THEN UNCHANGED <<jobsqueue, credit, overtaken, used>>
              ELSE /\ jobsqueue' = QueueWith(QueueRow(job[t], id, p))
                   /\ credit' = [credit EXCEPT ![id] = @ + 1]
                   /\ overtaken' = IF Leaving(id) THEN overtaken \cup {id} ELSE overtaken
                   /\ used' = used \cup {id}
  /\ UNCHANGED <<currentjobs, failedjobs, dbCrawlID, mem, todo, now, leases, issued,
                 crawlers, requests, finished, crashed, undef>>

CountUp(t) ==
  /\ \/ pc[t] = "upload" /\ Goto(t, "insert", job[t]) /\ UNCHANGED tries
     \/ pc[t] = "bump" /\ AfterQuery(t, "ok", AfterUpload(t), "upload", NoUpload(t), job[t])
     \/ pc[t] = "bumpErr" /\ AfterQuery(t, "lost", AfterUpload(t), "upload", NoUpload(t), job[t])
  /\ AddToNumberOfJobs(t, 1)
  /\ UNCHANGED <<db, jobmtx, timeLastRecount, timeLastCrawl, crawlID, todo, world, ghosts>>

(***************************************************************************)
(* handleCrawlDataRequest.  Nothing here takes jobmtx.                      *)
(***************************************************************************)
\* MUTANT of CrawlExpected: data of a deprecated crawl is accepted.
AnyCrawl(ident) == TRUE
CrawlExpected(ident) == ident = timeLastCrawl

CheckCrawl(t) ==
  /\ pc[t] = "check"
  /\ Goto(t, IF CrawlExpected(req[t].time) THEN "setCrawl" ELSE "idle", job[t])
  /\ UNCHANGED <<db, mem, tries, todo, world, ghosts>>

AfterCrawl(r) == IF r.left > 0 THEN "next" ELSE "idle"

\* updateCrawlID: two assignments that any other thread may come between.
UpdateCrawlID(t) ==
  /\ pc[t] = "setCrawl"
  /\ timeLastCrawl' = -1
  /\ Goto(t, "newCrawl", job[t])
  /\ crawlers' = crawlers \ {req[t].time}
  /\ UNCHANGED <<db, jobmtx, numberOfJobs, timeLastRecount, crawlID, tries, todo,
                 now, leases, issued, requests, faults, ghosts>>

ChangeCrawlID(t) ==
  /\ pc[t] = "newCrawl"
  /\ crawlID' = req[t].crawl
  /\ Goto(t, IF crawlID # req[t].crawl THEN "storeCrawl" ELSE AfterCrawl(req[t]), job[t])
  /\ UNCHANGED <<db, jobmtx, numberOfJobs, timeLastRecount, timeLastCrawl, tries, todo,
                 world, ghosts>>

\* MUTANT of SetCrawlID: the crawlID is not stored.
KeepsCrawlID(t) ==
  /\ pc[t] = "storeCrawl"
  /\ Goto(t, AfterCrawl(req[t]), job[t])
  /\ UNCHANGED <<db, mem, tries, todo, world, ghosts>>

\* setCrawlID; its errors are ignored.
SetCrawlID(t) ==
  /\ pc[t] = "storeCrawl"
  /\ \E o \in Outcomes : /\ Spend(o)
                         /\ dbCrawlID' = IF o = "lost" THEN dbCrawlID ELSE req[t].crawl
  /\ Goto(t, AfterCrawl(req[t]), job[t])
  /\ UNCHANGED <<jobsqueue, currentjobs, failedjobs, mem, tries, todo,
                 now, leases, issued, crawlers, requests, ghosts>>

(***************************************************************************)
(* updateCurrentJobs: every five minutes SELECT all current jobs, read the  *)
(* clock once, and move the rows that had expired by then to failedjobs and *)
(* back to the queue.  The rows are not read again.                         *)
(***************************************************************************)
SweepSelect(s) ==
  /\ pc[s] = "sleep"
  /\ \E o \in Answers :
       /\ Spend(o)
       /\ todo' = [todo EXCEPT ![s] = IF o = "ok" THEN currentjobs ELSE {}]
       /\ Goto(s, IF o = "ok" THEN "clock" ELSE "sleep", job[s])
  /\ UNCHANGED <<db, mem, tries, now, leases, issued, crawlers, requests, ghosts>>

SweepClock(s) ==
  /\ pc[s] = "clock"
  /\ todo' = [todo EXCEPT ![s] = {row \in @ : Expired(row, now)}]
  /\ Goto(s, "sweep", job[s])
  /\ UNCHANGED <<db, mem, tries, world, ghosts>>

SweepEnd(s) ==
  /\ pc[s] = "sweep"
  /\ todo[s] = {}
  /\ Goto(s, "sleep", job[s])
  /\ UNCHANGED <<db, mem, tries, todo, world, ghosts>>

\* updateCurrentJob: addFailedJob, deleteCurrentJob, uploadJob; no error is checked.
SweepFail(s) ==
  /\ pc[s] = "sweep"
  /\ \E row \in todo[s], o \in Outcomes :
       /\ Spend(o)
       /\ todo' = [todo EXCEPT ![s] = @ \ {row}]
       /\ failedjobs' = IF o = "lost" THEN failedjobs
                        ELSE failedjobs \cup {<<row.jobid, row.time>>}
       /\ Goto(s, "swDel", row)
  /\ UNCHANGED <<jobsqueue, currentjobs, dbCrawlID, mem, tries, now, leases, issued,
                 crawlers, requests, ghosts>>

SweepDelete(s) ==
  /\ pc[s] = "swDel"
  /\ \E o \in Outcomes :
       /\ Spend(o)
       /\ currentjobs' = IF o = "lost" THEN currentjobs ELSE CurrentWithout(job[s].jobid)
  /\ IF RetriesLeft(job[s])
     THEN Goto(s, "upload", [job[s] EXCEPT !.retries = @ + 1]) /\ UNCHANGED finished
     ELSE Goto(s, "sweep", job[s]) /\ finished' = Over(job[s])
  /\ UNCHANGED <<jobsqueue, failedjobs, dbCrawlID, mem, tries, todo, now, leases, issued,
                 crawlers, requests, used, credit, overtaken, crashed, undef>>

(***************************************************************************)
(* The process dies and is started again.  It forgets its threads and       *)
(* memory and reads the number of jobs and the crawlID from the database.   *)
(* numberOfJobs has no initial value, so it is arbitrary if its count fails.*)
(***************************************************************************)
Restart(countOk, crawlOk) ==
  /\ jobmtx' = Nobody
  /\ timeLastCrawl' = -1
  /\ numberOfJobs' \in IF countOk THEN {Cardinality(jobsqueue)} ELSE JunkInts
  /\ timeLastRecount' = IF countOk THEN now ELSE -1
  /\ crawlID' = IF crawlOk THEN dbCrawlID ELSE 0
  /\ pc' = [t \in Proc |-> IF t \in Sweeper THEN "sleep" ELSE "idle"]
  /\ req' = [t \in Proc |-> NoReq]
  /\ job' = [t \in Proc |-> NoJob]
  /\ since' = [t \in Proc |-> 0]
  /\ tries' = [t \in Proc |-> 0]
  /\ todo' = [s \in Sweeper |-> {}]
  /\ crashed' = TRUE
  /\ UNCHANGED <<db, now, leases, issued, crawlers, requests,
                 used, finished, credit, overtaken, undef>>

Crash ==
  /\ faults < MaxFaults
  /\ \E countOk, crawlOk \in BOOLEAN : Restart(countOk, crawlOk)
  /\ faults' = faults + 1

\* getTopJob reads columns of the first row without asking whether there is one.
SelectFromEmptyQueue(t) ==
  /\ pc[t] = "top"
  /\ jobsqueue = {}
  /\ Restart(TRUE, TRUE)
  /\ UNCHANGED faults

Tick ==
  /\ now < MaxTime
  /\ now' = now + 1
  /\ UNCHANGED <<db, mem, local, leases, issued, crawlers, requests, faults, ghosts>>

(***************************************************************************)
(* The specification.                                                       *)
(***************************************************************************)
Init ==
  /\ \E p \in [InitQueue -> Priorities], d \in [InitQueue -> Timeouts] :
       jobsqueue = {[jobid |-> id, priority |-> p[id], retries |-> 0, timeout |-> d[id]]
                      : id \in InitQueue}
  /\ currentjobs = {}
  /\ failedjobs = {}
  /\ dbCrawlID = 0
  /\ jobmtx = Nobody
  /\ numberOfJobs = Cardinality(jobsqueue)
  /\ timeLastRecount = 0
  /\ timeLastCrawl = -1
  /\ crawlID = 0
  /\ pc = [t \in Proc |-> IF t \in Sweeper THEN "sleep" ELSE "idle"]
  /\ req = [t \in Proc |-> NoReq]
  /\ job = [t \in Proc |-> NoJob]
  /\ since = [t \in Proc |-> 0]
  /\ tries = [t \in Proc |-> 0]
  /\ todo = [s \in Sweeper |-> {}]
  /\ now = 0
  /\ leases = {}
  /\ issued = {}
  /\ crawlers = {}
  /\ requests = 0
  /\ faults = 0
  /\ used = InitQueue
  /\ finished = {}
  /\ credit = [id \in Uuid |-> IF id \in InitQueue THEN 1 ELSE 0]
  /\ overtaken = {}
  /\ crashed = FALSE
  /\ undef = FALSE

Request(t) == \/ RequestGetJob(t)    \/ RequestUpdateJob(t) \/ RequestFinishJob(t)
              \/ RequestUploadJob(t) \/ RequestCrawlData(t)

\* What the thread of a connection does once it has a request.
Handle(t) ==
  \/ LockJobmtx(t)       \/ CountFree(t)     \/ CountBusy(t)       \/ CountAgain(t)
  \/ SelectTopJob(t)     \/ AddTopToCurrent(t) \/ DeleteTopJob(t)
  \/ SelectFromEmptyQueue(t)
  \/ CheckTime(t)        \/ GetCurrentJob(t) \/ DeleteCurrentJob(t)
  \/ RenewCurrentJob(t)  \/ AddFailedJob(t)
  \/ NextJob(t)          \/ InsertJob(t)     \/ CountUp(t)
  \/ CheckCrawl(t)       \/ UpdateCrawlID(t) \/ ChangeCrawlID(t)
  \/ SetCrawlID(t)

Sweep(s) == \/ SweepSelect(s) \/ SweepClock(s) \/ SweepEnd(s) \/ SweepFail(s)
            \/ SweepDelete(s) \/ InsertJob(s)  \/ CountUp(s)

Next == \/ \E t \in Thread : Request(t) \/ Handle(t)
        \/ \E s \in Sweeper : Sweep(s)
        \/ Crash
        \/ Tick

Spec == Init /\ [][Next]_vars

\* Threads run on; a client need not send anything and the clock may stand still.
Fairness == /\ \A t \in Thread : WF_vars(Handle(t))
            /\ \A s \in Sweeper : WF_vars(Sweep(s))

FairSpec == Spec /\ Fairness
============================================================================
