---------------------------- MODULE JobFlowProofs ----------------------------
(***************************************************************************)
(* A job on its way through the tables of JobQueue is handed out once for   *)
(* every time it was queued, is not lost on the way, and comes back no more *)
(* than MAX_JOB_RETRIES times, each time with the record of a failure.      *)
(***************************************************************************)
EXTENDS JobQueueProofs

(***************************************************************************)
(* No row of jobsqueue is handed out twice: HandoutsPaidFor for any number  *)
(* of jobs, threads, faults and restarts.                                   *)
(*                                                                          *)
(* HandoutsPaidFor is not inductive.  DeleteTopJob pays for a hand-out with *)
(* the row it deletes, so that row must still be there: nobody else deletes *)
(* rows while a thread is inside getTopJob (Exclusive), hence the row that  *)
(* was selected is there until it is deleted (Held).                        *)
(***************************************************************************)
Critical == {"countFree", "countBusy", "countAgain", "top", "addCur", "delTop"}

Exclusive == \A t \in Thread : pc[t] \in Critical => jobmtx = t

Held == \A t \in Thread : pc[t] \in {"addCur", "delTop"} =>
          \E r \in jobsqueue : r.jobid = job[t].jobid /\ r.priority = job[t].priority

HandoutInv == Exclusive /\ Held /\ HandoutsPaidFor

\* A row of jobsqueue less is one less to pay for, a row more at most one more.
LEMMA RowsCount ==
  ASSUME TypeOK, TypeOK'
  PROVE  /\ \A id : Cardinality(RowsOf(id)) \in Nat
         /\ \A id : RowsOf(id)' \subseteq RowsOf(id)
                      => Cardinality(RowsOf(id)') <= Cardinality(RowsOf(id))
         /\ \A id : \A r \in RowsOf(id) : RowsOf(id)' \subseteq RowsOf(id) \ {r}
                      => Cardinality(RowsOf(id)') <= Cardinality(RowsOf(id)) - 1
         /\ \A id, r : RowsOf(id)' \subseteq RowsOf(id) \cup {r}
                      => Cardinality(RowsOf(id)') <= Cardinality(RowsOf(id)) + 1
<1>1. ASSUME NEW id PROVE IsFiniteSet(RowsOf(id)) /\ Cardinality(RowsOf(id)) \in Nat
  <2>1. RowsOf(id) \subseteq jobsqueue
    BY DEF RowsOf
  <2>2. IsFiniteSet(jobsqueue)
    BY DEF TypeOK
  <2>3. IsFiniteSet(RowsOf(id))
    BY <2>1, <2>2, FS_Subset
  <2> QED BY <2>3, FS_CardinalityType
<1>2. ASSUME NEW id, RowsOf(id)' \subseteq RowsOf(id)
      PROVE  Cardinality(RowsOf(id)') <= Cardinality(RowsOf(id))
  BY <1>1, <1>2, FS_Subset
<1>3. ASSUME NEW id, NEW r \in RowsOf(id), RowsOf(id)' \subseteq RowsOf(id) \ {r}
      PROVE  Cardinality(RowsOf(id)') <= Cardinality(RowsOf(id)) - 1
  <2>1. /\ IsFiniteSet(RowsOf(id) \ {r})
        /\ Cardinality(RowsOf(id) \ {r}) = Cardinality(RowsOf(id)) - 1
    BY <1>1, FS_RemoveElement
  <2>2. Cardinality(RowsOf(id)') <= Cardinality(RowsOf(id) \ {r})
    BY <1>3, <2>1, FS_Subset
  <2> QED BY <2>1, <2>2
<1>4. ASSUME NEW id, NEW r, RowsOf(id)' \subseteq RowsOf(id) \cup {r}
      PROVE  Cardinality(RowsOf(id)') <= Cardinality(RowsOf(id)) + 1
  <2>1. /\ IsFiniteSet(RowsOf(id) \cup {r})
        /\ Cardinality(RowsOf(id) \cup {r}) \in Nat
        /\ Cardinality(RowsOf(id) \cup {r}) <= Cardinality(RowsOf(id)) + 1
    <3>1. /\ IsFiniteSet(RowsOf(id) \cup {r})
          /\ Cardinality(RowsOf(id) \cup {r}) =
               IF r \in RowsOf(id) THEN Cardinality(RowsOf(id)) ELSE Cardinality(RowsOf(id)) + 1
      BY <1>1, FS_AddElement
    <3> QED BY <1>1, <3>1, FS_CardinalityType
  <2>2. /\ Cardinality(RowsOf(id)') <= Cardinality(RowsOf(id) \cup {r})
        /\ IsFiniteSet(RowsOf(id)')
    BY <1>4, <2>1, FS_Subset
  <2>3. Cardinality(RowsOf(id)') \in Nat
    BY <2>2, FS_CardinalityType
  <2> QED BY <1>1, <2>1, <2>2, <2>3
<1> QED BY <1>1, <1>2, <1>3, <1>4

LEMMA HandoutInit == Init => HandoutInv
<1> SUFFICES ASSUME Init PROVE HandoutInv
  OBVIOUS
<1>1. Exclusive /\ Held
  BY DEF Init, Exclusive, Held, Critical, Proc
<1>2. ASSUME NEW id \in Uuid PROVE Cardinality(RowsOf(id)) <= credit[id]
  <2>1. credit[id] = IF id \in InitQueue THEN 1 ELSE 0
    BY DEF Init
  <2>2. CASE id \in InitQueue
    <3>1. PICK p, d : jobsqueue = {[jobid |-> x, priority |-> p[x], retries |-> 0,
                                    timeout |-> d[x]] : x \in InitQueue}
      BY DEF Init
    <3> DEFINE row == [jobid |-> id, priority |-> p[id], retries |-> 0, timeout |-> d[id]]
    <3>2. RowsOf(id) = {row}
      BY <2>2, <3>1 DEF RowsOf
    <3> HIDE DEF row
    <3>3. Cardinality(RowsOf(id)) = 1
      BY <3>2, FS_Singleton
    <3> QED BY <2>1, <2>2, <3>3
  <2>3. CASE id \notin InitQueue
    <3>1. RowsOf(id) = {}
      BY <2>3 DEF Init, RowsOf
    <3> QED BY <2>1, <2>3, <3>1, FS_EmptySet
  <2> QED BY <2>2, <2>3
<1> QED BY <1>1, <1>2 DEF HandoutInv, HandoutsPaidFor

\* A step that leaves the queue and the mutex alone, outside the critical section.
LEMMA HandoutQuiet ==
  ASSUME HandoutInv, NEW t \in Proc, pc'[t] \notin Critical,
         \A u \in Proc \ {t} : pc'[u] = pc[u] /\ job'[u] = job[u],
         UNCHANGED <<jobsqueue, credit, jobmtx>>
  PROVE  HandoutInv'
<1>1. Exclusive'
  BY DEF HandoutInv, Exclusive, Proc
<1>2. Held'
  BY DEF HandoutInv, Held, Proc, Critical
<1>3. HandoutsPaidFor'
  BY DEF HandoutInv, HandoutsPaidFor, RowsOf
<1> QED BY <1>1, <1>2, <1>3 DEF HandoutInv

\* handleGetJobRequest
LEMMA HandoutGetJob ==
  ASSUME TypeInv, TypeInv', HandoutInv, NEW t \in Thread,
         \/ LockJobmtx(t) \/ CountFree(t) \/ CountBusy(t) \/ CountAgain(t)
         \/ SelectTopJob(t) \/ AddTopToCurrent(t) \/ DeleteTopJob(t)
  PROVE  HandoutInv'
<1>0. /\ t \in Proc /\ pc \in [Proc -> Places] /\ job \in [Proc -> LocalJobs]
      /\ \A u \in Thread : u \in Proc /\ u # Nobody
  BY ThreadAssumption DEF TypeInv, TypeOK, Proc
\* Nobody else is in the critical section, before or after the step.
<1>1. \A u \in Thread \ {t} : pc[u] \notin Critical
  BY <1>0 DEF HandoutInv, Exclusive, LockJobmtx, MutexFree, CountFree, CountBusy, CountAgain,
              SelectTopJob, AddTopToCurrent, DeleteTopJob, Critical
<1>2. \A u \in Thread \ {t} : pc'[u] = pc[u]
  BY <1>0 DEF LockJobmtx, CountFree, CountBusy, CountAgain,
              SelectTopJob, AddTopToCurrent, DeleteTopJob, AfterQuery, Goto
<1>3. pc'[t] \in Critical => jobmtx' = t
  BY <1>0 DEF HandoutInv, Exclusive, LockJobmtx, CountFree, CountBusy, CountAgain,
              SelectTopJob, AddTopToCurrent, DeleteTopJob, ReleaseJobmtx, Critical
<1>4. Exclusive'
  BY <1>1, <1>2, <1>3 DEF Exclusive
<1>5. CASE ~DeleteTopJob(t)
  <2>1. UNCHANGED <<jobsqueue, credit>>
    BY <1>5 DEF LockJobmtx, CountFree, CountBusy, CountAgain,
                SelectTopJob, AddTopToCurrent, db, ghosts
  <2>2. HandoutsPaidFor'
    BY <2>1 DEF HandoutInv, HandoutsPaidFor, RowsOf
  <2>3. Held'
    <3>1. CASE LockJobmtx(t) \/ CountFree(t) \/ CountBusy(t) \/ CountAgain(t)
      <4>1. pc'[t] \notin {"addCur", "delTop"}
        BY <1>0, <3>1 DEF LockJobmtx, CountFree, CountBusy, CountAgain, Goto
      <4> QED BY <1>1, <1>2, <4>1 DEF Held, Critical
    <3>2. CASE SelectTopJob(t)
      <4>1. pc'[t] \notin {"addCur", "delTop"} \/
              \E row \in TopRows : AfterQuery(t, "ok", "addCur", "top", "idle", JobOf(row))
        BY <1>0, <3>2 DEF SelectTopJob, AfterQuery, Goto
      <4>2. CASE pc'[t] \notin {"addCur", "delTop"}
        BY <1>1, <1>2, <4>2 DEF Held, Critical
      <4>3. CASE pc'[t] \in {"addCur", "delTop"}
        <5>1. PICK row \in TopRows : AfterQuery(t, "ok", "addCur", "top", "idle", JobOf(row))
          BY <4>1, <4>3
        <5>2. row \in jobsqueue /\ row \in QueueRows
          BY DEF TopRows, TypeInv, TypeOK
        <5>3. job'[t] = JobOf(row)
          BY <1>0, <5>1 DEF AfterQuery, Goto, Jobless
        <5>4. \E r \in jobsqueue' : r.jobid = job'[t].jobid /\ r.priority = job'[t].priority
          BY <2>1, <5>2, <5>3, JobOfType
        <5> QED BY <1>1, <1>2, <5>4 DEF Held, Critical
      <4> QED BY <4>2, <4>3
    <3>3. CASE AddTopToCurrent(t)
      <4>1. PICK r \in jobsqueue : r.jobid = job[t].jobid /\ r.priority = job[t].priority
        BY <3>3 DEF HandoutInv, Held, AddTopToCurrent
      <4>2. pc'[t] \in {"addCur", "delTop"} =>
              job'[t].jobid = job[t].jobid /\ job'[t].priority = job[t].priority
        BY <1>0, <3>3 DEF AddTopToCurrent, AfterQuery, Goto, Jobless, LocalJobs
      <4> QED BY <1>1, <1>2, <2>1, <4>1, <4>2 DEF Held, Critical
    <3> QED BY <1>5, <3>1, <3>2, <3>3
  <2> QED BY <1>4, <2>2, <2>3 DEF HandoutInv
<1>6. CASE DeleteTopJob(t)
  <2>1. Held'
    <3>1. pc'[t] \notin {"addCur", "delTop"}
      BY <1>0, <1>6 DEF DeleteTopJob, AfterQuery, Goto
    <3> QED BY <1>1, <1>2, <3>1 DEF Held, Critical
  <2>2. PICK r \in jobsqueue : r.jobid = job[t].jobid /\ r.priority = job[t].priority
    BY <1>6 DEF HandoutInv, Held, DeleteTopJob
  <2>3. PICK o \in Outcomes :
           /\ jobsqueue' = IF o = "lost" THEN jobsqueue
                           ELSE QueueWithout(job[t].jobid, job[t].priority)
           /\ credit' = IF o = "ok" THEN [credit EXCEPT ![job[t].jobid] = @ - 1] ELSE credit
    BY <1>6 DEF DeleteTopJob
  <2>4. ASSUME NEW id \in Uuid PROVE Cardinality(RowsOf(id)') <= credit'[id]
    <3>1. /\ Cardinality(RowsOf(id)) \in Nat /\ credit[id] \in Int
          /\ Cardinality(RowsOf(id)) <= credit[id] /\ credit \in [Uuid -> Int]
          /\ RowsOf(id)' \subseteq RowsOf(id)
      BY <2>3, RowsCount DEF HandoutInv, HandoutsPaidFor, TypeInv, TypeOK, RowsOf, QueueWithout
    <3>2. Cardinality(RowsOf(id)') \in Nat /\ Cardinality(RowsOf(id)') <= Cardinality(RowsOf(id))
      <4>1. IsFiniteSet(RowsOf(id)')
        BY FS_Subset DEF TypeInv, TypeOK, RowsOf
      <4> QED BY <3>1, <4>1, RowsCount, FS_CardinalityType DEF TypeInv
    <3>3. CASE o = "ok" /\ id = job[t].jobid
      <4>1. r \in RowsOf(id) /\ RowsOf(id)' \subseteq RowsOf(id) \ {r}
        BY <2>2, <2>3, <3>3 DEF RowsOf, QueueWithout
      <4>2. Cardinality(RowsOf(id)') <= Cardinality(RowsOf(id)) - 1
        BY <4>1, RowsCount DEF TypeInv
      <4> QED BY <2>3, <3>1, <3>2, <3>3, <4>2
    <3>4. CASE ~(o = "ok" /\ id = job[t].jobid)
      <4>1. credit'[id] = credit[id]
        BY <2>3, <3>1, <3>4
      <4> QED BY <3>1, <3>2, <4>1
    <3> QED BY <3>3, <3>4
  <2> QED BY <1>4, <2>1, <2>4 DEF HandoutInv, HandoutsPaidFor
<1> QED BY <1>5, <1>6

\* uploadJob: every row put in the queue is paid for.
LEMMA HandoutInsert ==
  ASSUME TypeInv, TypeInv', HandoutInv, NEW t \in Proc, InsertJob(t)
  PROVE  HandoutInv'
<1> DEFINE p == IF IsNew(t) THEN now - job[t].priority ELSE job[t].priority
<1>0. pc \in [Proc -> Places] /\ job \in [Proc -> LocalJobs]
  BY DEF TypeInv, TypeOK
<1>1. PICK o \in Outcomes, id \in IF IsNew(t) THEN Uuid \ used ELSE UuidOf(job[t]) :
         IF o = "lost" THEN UNCHANGED <<jobsqueue, credit, overtaken, used>>
         ELSE /\ jobsqueue' = QueueWith(QueueRow(job[t], id, p))
              /\ credit' = [credit EXCEPT ![id] = @ + 1]
              /\ used' = used \cup {id}
  BY DEF InsertJob
<1>2. id \in Uuid
  BY <1>0, <1>1, UuidOfType
<1> HIDE DEF p
<1>3. /\ pc'[t] \notin Critical
      /\ \A u \in Proc \ {t} : pc'[u] = pc[u] /\ job'[u] = job[u]
      /\ jobmtx' = jobmtx
  BY <1>0 DEF InsertJob, AfterQuery, Goto, AfterUpload, NoUpload, Critical, mem
<1>4. Exclusive'
  BY <1>3 DEF HandoutInv, Exclusive, Proc
<1>5. CASE o = "lost"
  BY <1>1, <1>3, <1>5, HandoutQuiet
<1>6. CASE o # "lost"
  <2> DEFINE row == QueueRow(job[t], id, p)
  <2>1. row.jobid = id /\ row.priority = p
    BY DEF QueueRow
  <2>2. jobsqueue' = QueueWith(row) /\ credit' = [credit EXCEPT ![id] = @ + 1]
    BY <1>1, <1>6
  <2> HIDE DEF row
  <2>3. \A r \in jobsqueue : \E q \in jobsqueue' : q.jobid = r.jobid /\ q.priority = r.priority
    BY <2>1, <2>2 DEF QueueWith
  <2>4. Held'
    <3> SUFFICES ASSUME NEW u \in Thread, pc'[u] \in {"addCur", "delTop"}
                 PROVE  \E q \in jobsqueue' : q.jobid = job'[u].jobid /\ q.priority = job'[u].priority
      BY DEF Held
    <3>1. u \in Proc \ {t}
      BY <1>3 DEF Critical, Proc
    <3>2. PICK r \in jobsqueue : r.jobid = job[u].jobid /\ r.priority = job[u].priority
      BY <1>3, <3>1 DEF HandoutInv, Held
    <3> QED BY <1>3, <2>3, <3>1, <3>2
  <2>5. ASSUME NEW x \in Uuid PROVE Cardinality(RowsOf(x)') <= credit'[x]
    <3>1. /\ Cardinality(RowsOf(x)) \in Nat /\ credit[x] \in Int /\ credit \in [Uuid -> Int]
          /\ Cardinality(RowsOf(x)) <= credit[x]
      BY RowsCount DEF HandoutInv, HandoutsPaidFor, TypeInv, TypeOK
    <3>2. Cardinality(RowsOf(x)') \in Nat
      <4>1. IsFiniteSet(RowsOf(x)')
        BY FS_Subset DEF TypeInv, TypeOK, RowsOf
      <4> QED BY <4>1, FS_CardinalityType
    <3>3. CASE x = id
      <4>1. RowsOf(x)' \subseteq RowsOf(x) \cup {row}
        BY <2>2 DEF RowsOf, QueueWith
      <4>2. Cardinality(RowsOf(x)') <= Cardinality(RowsOf(x)) + 1
        BY <4>1, RowsCount DEF TypeInv
      <4> QED BY <2>2, <3>1, <3>2, <3>3, <4>2
    <3>4. CASE x # id
      <4>1. RowsOf(x)' \subseteq RowsOf(x)
        BY <2>1, <2>2, <3>4 DEF RowsOf, QueueWith
      <4>2. Cardinality(RowsOf(x)') <= Cardinality(RowsOf(x))
        BY <4>1, RowsCount DEF TypeInv
      <4>3. credit'[x] = credit[x]
        BY <2>2, <3>1, <3>4
      <4> QED BY <3>1, <3>2, <4>2, <4>3
    <3> QED BY <3>3, <3>4
  <2> QED BY <1>4, <2>4, <2>5 DEF HandoutInv, HandoutsPaidFor
<1> QED BY <1>5, <1>6

\* Everything else stays out of the critical section and leaves the queue alone.
LEMMA HandoutOther ==
  ASSUME TypeInv, HandoutInv, NEW t \in Proc,
         \/ Request(t)
         \/ CheckTime(t) \/ GetCurrentJob(t) \/ DeleteCurrentJob(t)
         \/ RenewCurrentJob(t) \/ AddFailedJob(t)
         \/ NextJob(t) \/ CountUp(t)
         \/ CheckCrawl(t) \/ UpdateCrawlID(t) \/ ChangeCrawlID(t) \/ SetCrawlID(t)
         \/ SweepSelect(t) \/ SweepClock(t) \/ SweepEnd(t) \/ SweepFail(t) \/ SweepDelete(t)
  PROVE  HandoutInv'
<1>0. pc \in [Proc -> Places] /\ job \in [Proc -> LocalJobs]
  BY DEF TypeInv, TypeOK
<1>1. CASE Request(t)
  <2>1. PICK place \in {"lock", "time", "next", "check"} : \E r : Begin(t, r, place)
    BY <1>1, Zenon DEF Request, RequestGetJob, RequestUpdateJob, RequestFinishJob,
                       RequestUploadJob, RequestCrawlData
  <2> QED BY <1>0, <2>1, HandoutQuiet DEF Begin, db, mem, ghosts, Critical
<1>2. CASE \/ CheckTime(t) \/ GetCurrentJob(t) \/ DeleteCurrentJob(t)
           \/ RenewCurrentJob(t) \/ AddFailedJob(t)
  <2>1. /\ pc'[t] \notin Critical
        /\ \A u \in Proc \ {t} : pc'[u] = pc[u] /\ job'[u] = job[u]
    <3>1. CASE CheckTime(t)
      BY <1>0, <3>1 DEF CheckTime, AfterQuery, Goto, Critical
    <3>2. CASE GetCurrentJob(t)
      BY <1>0, <3>2 DEF GetCurrentJob, AfterQuery, Goto, AfterGet, Critical
    <3>3. CASE DeleteCurrentJob(t)
      BY <1>0, <3>3 DEF DeleteCurrentJob, AfterQuery, Goto, AfterGet, Critical
    <3>4. CASE RenewCurrentJob(t)
      BY <1>0, <3>4 DEF RenewCurrentJob, AfterQuery, Goto, Critical
    <3>5. CASE AddFailedJob(t)
      BY <1>0, <3>5 DEF AddFailedJob, AfterQuery, Goto, Critical
    <3> QED BY <1>2, <3>1, <3>2, <3>3, <3>4, <3>5
  <2>2. UNCHANGED <<jobsqueue, credit, jobmtx>>
    BY <1>2 DEF CheckTime, GetCurrentJob, DeleteCurrentJob, RenewCurrentJob,
                AddFailedJob, db, mem, ghosts
  <2> QED BY <2>1, <2>2, HandoutQuiet
<1>3. CASE NextJob(t) \/ CountUp(t) \/ CheckCrawl(t) \/ UpdateCrawlID(t) \/ ChangeCrawlID(t) \/ SetCrawlID(t)
  <2>1. /\ pc'[t] \notin Critical
        /\ \A u \in Proc \ {t} : pc'[u] = pc[u] /\ job'[u] = job[u]
    <3>1. CASE NextJob(t)
      BY <1>0, <3>1 DEF NextJob, AfterQuery, Goto, AfterUpload, NoUpload, AfterCrawl, Critical
    <3>2. CASE CountUp(t)
      BY <1>0, <3>2 DEF CountUp, AfterQuery, Goto, AfterUpload, NoUpload, AfterCrawl, Critical
    <3>3. CASE CheckCrawl(t) \/ UpdateCrawlID(t) \/ ChangeCrawlID(t) \/ SetCrawlID(t)
      BY <1>0, <3>3 DEF CheckCrawl, UpdateCrawlID, ChangeCrawlID, SetCrawlID, AfterQuery, Goto, AfterCrawl, Critical
    <3> QED BY <1>3, <3>1, <3>2, <3>3
  <2>2. UNCHANGED <<jobsqueue, credit, jobmtx>>
    BY <1>3 DEF NextJob, CountUp, CheckCrawl, UpdateCrawlID, ChangeCrawlID, SetCrawlID, db, mem, ghosts
  <2> QED BY <2>1, <2>2, HandoutQuiet
<1>4. CASE SweepSelect(t) \/ SweepClock(t) \/ SweepEnd(t) \/ SweepFail(t) \/ SweepDelete(t)
  <2>1. /\ pc'[t] \notin Critical
        /\ \A u \in Proc \ {t} : pc'[u] = pc[u] /\ job'[u] = job[u]
    BY <1>0, <1>4 DEF SweepSelect, SweepClock, SweepEnd, SweepFail, SweepDelete, Goto, Critical
  <2>2. UNCHANGED <<jobsqueue, credit, jobmtx>>
    BY <1>4 DEF SweepSelect, SweepClock, SweepEnd, SweepFail, SweepDelete, db, mem, ghosts
  <2> QED BY <2>1, <2>2, HandoutQuiet
<1> QED BY <1>1, <1>2, <1>3, <1>4

\* A restart empties the critical section and keeps the queue.
LEMMA HandoutRestart ==
  ASSUME HandoutInv, NEW b, NEW c, Restart(b, c) PROVE HandoutInv'
<1>1. \A t \in Thread : pc'[t] \notin Critical
  BY DEF Restart, Critical, Proc
<1>2. Exclusive' /\ Held'
  BY <1>1 DEF Exclusive, Held, Critical
<1>3. HandoutsPaidFor'
  BY DEF HandoutInv, HandoutsPaidFor, RowsOf, Restart, db
<1> QED BY <1>2, <1>3 DEF HandoutInv

LEMMA HandoutStep ==
  ASSUME TypeInv, TypeInv', HandoutInv, [Next]_vars PROVE HandoutInv'
<1>0. Thread \subseteq Proc /\ Sweeper \subseteq Proc
  BY DEF Proc
<1>1. CASE \E t \in Thread : Request(t) \/ Handle(t)
  <2>1. PICK t \in Thread : Request(t) \/ Handle(t)
    BY <1>1
  <2>2. CASE SelectFromEmptyQueue(t)
    BY <2>2, HandoutRestart, Zenon DEF SelectFromEmptyQueue
  <2> QED BY <1>0, <2>1, <2>2, HandoutGetJob, HandoutInsert, HandoutOther DEF Handle
<1>2. CASE \E s \in Sweeper : Sweep(s)
  BY <1>0, <1>2, HandoutInsert, HandoutOther DEF Sweep
<1>3. CASE Crash
  BY <1>3, HandoutRestart, Zenon DEF Crash
<1>4. CASE Tick \/ UNCHANGED vars
  <2>1. UNCHANGED <<jobsqueue, credit, jobmtx, pc, job>>
    BY <1>4 DEF Tick, vars, db, mem, local, ghosts
  <2> QED BY <2>1 DEF HandoutInv, Exclusive, Held, HandoutsPaidFor, RowsOf
<1> QED BY <1>1, <1>2, <1>3, <1>4 DEF Next

\* No row of jobsqueue is handed out twice, for any number of jobs and connection
\* threads, with queries that fail or take effect after all and with the process
\* dying at any point: the lock in handleGetJobRequest is enough, although the sweep
\* and the finish handler put rows back without it.
THEOREM HandoutsOnce == Spec => []HandoutsPaidFor
<1>1. TypeInv /\ TypeInv' /\ HandoutInv /\ [Next]_vars => HandoutInv'
  BY HandoutStep
<1>2. HandoutInv => HandoutsPaidFor
  BY DEF HandoutInv
<1> QED BY <1>1, <1>2, HandoutInit, TypeInvariant, PTL DEF Spec

(***************************************************************************)
(* NoJobVanishes for any number of jobs, threads and sweepers.              *)
(*                                                                          *)
(* A handler deletes a row from one table only after the job is somewhere   *)
(* else, and other threads may take it from there meanwhile.  The invariant *)
(* therefore says where the job besides is that a thread is about to delete *)
(* from jobsqueue, and that the job deleted from currentjobs is the one the *)
(* handler holds.  A job that goes back to the queue in that place leaves   *)
(* what kept it; it is overtaken.                                           *)
(*                                                                          *)
(* H are jobs held elsewhere: none, or those in the hands of another node   *)
(* that uses the same tables; X are jobs such a node put back.  A step      *)
(* takes a job from where it is kept only to keep it elsewhere, or to put   *)
(* it in the queue (Saved), as such a node relies on.                       *)
(***************************************************************************)
Kept(H, id) == \/ CurrentOf(id) # {}
               \/ id \in finished
               \/ InFlight(id)
               \/ id \in H

Clean == faults = 0 /\ ~crashed

UsedKnown(H, X)   == \A id \in used \ (overtaken \cup X) : RowsOf(id) # {} \/ Kept(H, id)
HandoutKept(H, X) ==
  \A t \in Thread : pc[t] = "delTop" /\ job[t].jobid \notin overtaken \cup X
                      => Kept(H, job[t].jobid)
TakenIsAsked      == \A t \in Proc : pc[t] = "delCur" => job[t].jobid = req[t].jobid

LossInv(H, X) == Clean => UsedKnown(H, X) /\ HandoutKept(H, X) /\ TakenIsAsked

Saved(H) == /\ overtaken \subseteq overtaken'
            /\ \A id \in Uuid : Kept(H, id) => Kept(H, id)' \/ credit'[id] > credit[id]

Holding == {"putCur", "addFail", "upload", "insert"}

LEMMA SpendClean ==
  ASSUME TypeOK, NEW o, Spend(o), faults' = 0 PROVE o = "ok" /\ faults = 0
  BY DEF TypeOK, Spend

LEMMA LossInit ==
  ASSUME NEW H, NEW X, Init PROVE LossInv(H, X)
<1>1. \A t \in Proc : pc[t] \in {"sleep", "idle"}
  BY DEF Init
<1>2. UsedKnown(H, X)
  <2>1. PICK p, d : jobsqueue = {[jobid |-> x, priority |-> p[x], retries |-> 0,
                                  timeout |-> d[x]] : x \in InitQueue}
    BY DEF Init
  <2>2. \A id \in InitQueue : \E r \in jobsqueue : r.jobid = id
    <3> SUFFICES ASSUME NEW id \in InitQueue PROVE \E r \in jobsqueue : r.jobid = id
      OBVIOUS
    <3> DEFINE row == [jobid |-> id, priority |-> p[id], retries |-> 0, timeout |-> d[id]]
    <3>1. row \in jobsqueue /\ row.jobid = id
      BY <2>1
    <3> QED BY <3>1
  <2> QED BY <2>2 DEF Init, UsedKnown, RowsOf
<1> QED BY <1>1, <1>2 DEF LossInv, HandoutKept, TakenIsAsked, Proc

\* A step after which no table, and no handler, has lost a job.
LEMMA LossGrow ==
  ASSUME NEW H, NEW X, LossInv(H, X), Clean, NEW t \in Proc,
         \A u \in Proc \ {t} : pc'[u] = pc[u] /\ job'[u] = job[u] /\ req'[u] = req[u],
         pc[t] \notin Holding,
         \A id : CurrentOf(id) # {} => CurrentOf(id)' # {},
         UNCHANGED <<jobsqueue, finished, used, overtaken>>,
         pc'[t] = "delTop" => \E r \in currentjobs' : r.jobid = job'[t].jobid,
         pc'[t] = "delCur" => job'[t].jobid = req'[t].jobid
  PROVE  LossInv(H, X)' /\ Saved(H)
<1>1. ASSUME NEW id, Kept(H, id) PROVE Kept(H, id)'
  <2>1. ASSUME InFlight(id) PROVE InFlight(id)'
    BY <2>1 DEF InFlight, Holding
  <2>2. ASSUME CurrentOf(id) # {} PROVE CurrentOf(id)' # {}
    BY <2>2
  <2> QED BY <1>1, <2>1, <2>2 DEF Kept
<1>2. UsedKnown(H, X)'
  BY <1>1 DEF LossInv, UsedKnown, RowsOf
<1>3. HandoutKept(H, X)'
  <2> SUFFICES ASSUME NEW u \in Thread, pc'[u] = "delTop",
                      NEW id, id = job'[u].jobid, id \notin overtaken \cup X
               PROVE  Kept(H, id)'
    BY DEF HandoutKept
  <2>1. CASE u = t
    <3>1. CurrentOf(id)' # {}
      BY <2>1 DEF CurrentOf
    <3> QED BY <3>1 DEF Kept
  <2>2. CASE u # t
    <3>1. u \in Proc \ {t}
      BY <2>2 DEF Proc
    <3>2. Kept(H, id)
      BY <3>1 DEF LossInv, HandoutKept
    <3> QED BY <1>1, <3>2
  <2> QED BY <2>1, <2>2
<1>4. TakenIsAsked'
  BY DEF LossInv, TakenIsAsked
<1> QED BY <1>1, <1>2, <1>3, <1>4 DEF LossInv, Saved

\* getTopJob: the row added to currentjobs, or whoever took it from there, keeps the
\* job when its row in jobsqueue is deleted.
LEMMA LossGetJob ==
  ASSUME NEW H, NEW X, TypeInv, LossInv(H, X), Clean, Clean', NEW t \in Thread,
         \/ LockJobmtx(t) \/ CountFree(t) \/ CountBusy(t) \/ CountAgain(t)
         \/ SelectTopJob(t) \/ AddTopToCurrent(t) \/ DeleteTopJob(t)
  PROVE  LossInv(H, X)' /\ Saved(H)
<1>0. /\ t \in Proc /\ pc \in [Proc -> Places] /\ job \in [Proc -> LocalJobs]
      /\ req \in [Proc -> LocalReqs]
  BY DEF TypeInv, TypeOK, Proc
<1>1. \A u \in Proc \ {t} : pc'[u] = pc[u] /\ job'[u] = job[u] /\ req'[u] = req[u]
  BY <1>0 DEF LockJobmtx, CountFree, CountBusy, CountAgain, SelectTopJob, AddTopToCurrent,
              DeleteTopJob, AfterQuery, Goto
<1>2. pc[t] \notin Holding
  BY DEF LockJobmtx, CountFree, CountBusy, CountAgain, SelectTopJob, AddTopToCurrent,
         DeleteTopJob, Holding
<1>3. pc'[t] # "delCur"
  BY <1>0 DEF LockJobmtx, CountFree, CountBusy, CountAgain, SelectTopJob, AddTopToCurrent,
              DeleteTopJob, AfterQuery, Goto
<1>4. CASE LockJobmtx(t) \/ CountFree(t) \/ CountBusy(t) \/ CountAgain(t) \/ SelectTopJob(t)
  <2>1. UNCHANGED <<jobsqueue, currentjobs, finished, used, overtaken>>
    BY <1>4 DEF LockJobmtx, CountFree, CountBusy, CountAgain, SelectTopJob, db, ghosts
  <2>2. pc'[t] # "delTop"
    BY <1>0, <1>4 DEF LockJobmtx, CountFree, CountBusy, CountAgain, SelectTopJob,
                      AfterQuery, Goto
  <2> QED BY <1>0, <1>1, <1>2, <1>3, <2>1, <2>2, LossGrow DEF CurrentOf
<1>5. CASE AddTopToCurrent(t)
  <2>1. PICK o \in Outcomes, stamp \in since[t]..now :
           /\ Spend(o)
           /\ AfterQuery(t, o, "delTop", "top", "idle", [job[t] EXCEPT !.time = stamp])
           /\ currentjobs' = IF o = "lost" THEN currentjobs
                             ELSE CurrentWith([job[t] EXCEPT !.time = stamp])
    BY <1>5 DEF AddTopToCurrent
  <2> DEFINE row == [job[t] EXCEPT !.time = stamp]
  <2>2. o = "ok"
    BY <2>1, SpendClean DEF TypeInv, Clean
  <2>3. currentjobs' = CurrentWith(row) /\ job'[t] = row
    BY <1>0, <2>1, <2>2 DEF AfterQuery, Goto, Jobless
  <2> HIDE DEF row
  <2>4. /\ \A id : CurrentOf(id) # {} => CurrentOf(id)' # {}
        /\ \E r \in currentjobs' : r.jobid = job'[t].jobid
    BY <2>3 DEF CurrentOf, CurrentWith
  <2>5. UNCHANGED <<jobsqueue, finished, used, overtaken>>
    BY <1>5 DEF AddTopToCurrent, ghosts
  <2> QED BY <1>0, <1>1, <1>2, <1>3, <2>4, <2>5, LossGrow
<1>6. CASE DeleteTopJob(t)
  <2>1. UNCHANGED <<currentjobs, finished, used, overtaken>>
    BY <1>6 DEF DeleteTopJob
  <2>2. ASSUME NEW id, Kept(H, id) PROVE Kept(H, id)'
    <3>1. InFlight(id) => InFlight(id)'
      BY <1>1, <1>2 DEF InFlight, Holding
    <3> QED BY <2>1, <2>2, <3>1 DEF Kept, CurrentOf
  <2>3. \A id : id # job[t].jobid /\ RowsOf(id) # {} => RowsOf(id)' # {}
    BY <1>6 DEF DeleteTopJob, RowsOf, QueueWithout
  <2>4. job[t].jobid \notin overtaken \cup X => Kept(H, job[t].jobid)
    BY <1>6 DEF LossInv, HandoutKept, DeleteTopJob
  <2>5. UsedKnown(H, X)'
    BY <2>1, <2>2, <2>3, <2>4 DEF LossInv, UsedKnown
  <2>6. pc'[t] # "delTop"
    BY <1>0, <1>6 DEF DeleteTopJob, AfterQuery, Goto
  <2>7. HandoutKept(H, X)'
    <3> SUFFICES ASSUME NEW u \in Thread, pc'[u] = "delTop", NEW id, id = job'[u].jobid,
                        id \notin overtaken \cup X
                 PROVE  Kept(H, id)'
      BY <2>1 DEF HandoutKept
    <3>1. u \in Proc \ {t}
      BY <2>6 DEF Proc
    <3> QED BY <1>1, <2>2, <3>1 DEF LossInv, HandoutKept
  <2>8. TakenIsAsked'
    BY <1>1, <1>3 DEF LossInv, TakenIsAsked
  <2> QED BY <2>1, <2>2, <2>5, <2>7, <2>8 DEF LossInv, Saved
<1> QED BY <1>4, <1>5, <1>6

\* The steps of t that may take a job out of currentjobs or out of its own hands:
\* what they must leave behind.
LEMMA LossMove ==
  ASSUME NEW H, NEW X, TypeInv, LossInv(H, X), Clean, NEW t \in Proc,
         \A u \in Proc \ {t} : pc'[u] = pc[u] /\ job'[u] = job[u] /\ req'[u] = req[u],
         pc'[t] \notin {"delTop", "delCur"},
         UNCHANGED <<jobsqueue, overtaken>>,
         \A id \in Uuid : Kept(H, id) => Kept(H, id)',
         \A id \in used' \ used : Kept(H, id)'
  PROVE  LossInv(H, X)' /\ Saved(H)
<1>1. UsedKnown(H, X)'
  BY DEF LossInv, UsedKnown, RowsOf, TypeInv, TypeOK
<1>2. HandoutKept(H, X)'
  <2> SUFFICES ASSUME NEW u \in Thread, pc'[u] = "delTop", NEW id, id = job'[u].jobid,
                      id \notin overtaken \cup X
               PROVE  Kept(H, id)'
    BY DEF HandoutKept
  <2>1. u \in Proc \ {t}
    BY DEF Proc
  <2>2. id \in Uuid
    BY <2>1 DEF TypeInv, LocalsOK
  <2> QED BY <2>1, <2>2 DEF LossInv, HandoutKept
<1>3. TakenIsAsked'
  BY DEF LossInv, TakenIsAsked
<1> QED BY <1>1, <1>2, <1>3 DEF LossInv, Saved

\* A job uploaded for the first time has no id until its INSERT, so no one holds it; the
\* handlers of update and finish requests upload no such job.
Asking  == {"time", "getCur", "delCur", "putCur", "addFail"}
Putting == {"upload", "insert", "bump", "bumpErr"}

NewIsNobody ==
  \A t \in Proc : /\ pc[t] \in Asking => ~IsNew(t)
                  /\ pc[t] \in Putting /\ IsNew(t) => job[t].jobid = NoId

LEMMA NewInit == Init => NewIsNobody
  BY DEF Init, NewIsNobody, Asking, Putting

LEMMA NewGoto ==
  ASSUME TypeOK, NewIsNobody, NEW t \in Proc, NEW place, NEW j, Goto(t, place, j),
         place \in Asking => ~IsNew(t),
         place \in Putting /\ IsNew(t) => j.jobid = NoId
  PROVE  NewIsNobody'
<1>1. /\ \A u \in Proc \ {t} : pc'[u] = pc[u] /\ job'[u] = job[u] /\ req'[u] = req[u]
      /\ pc'[t] = place /\ job'[t] = IF place \in Jobless THEN NoJob ELSE j
      /\ req'[t] = IF place = "idle" THEN NoReq ELSE req[t]
  BY DEF Goto, TypeOK
<1>2. ASSUME NEW u \in Proc, u # t
      PROVE  /\ pc'[u] \in Asking => ~IsNew(u)'
             /\ pc'[u] \in Putting /\ IsNew(u)' => job'[u].jobid = NoId
  BY <1>1, <1>2 DEF NewIsNobody, IsNew
<1>3. place # "idle" => (IsNew(t)' <=> IsNew(t))
  BY <1>1 DEF IsNew
<1>4. /\ place \in Asking => place # "idle"
      /\ place \in Putting => place # "idle" /\ place \notin Jobless
  BY DEF Asking, Putting, Jobless
<1>5. /\ pc'[t] \in Asking => ~IsNew(t)'
      /\ pc'[t] \in Putting /\ IsNew(t)' => job'[t].jobid = NoId
  BY <1>1, <1>3, <1>4
<1> QED BY <1>2, <1>5, Zenon DEF NewIsNobody

LEMMA NewAfter ==
  ASSUME TypeOK, NewIsNobody, NEW t \in Proc, NEW o, NEW next, NEW first, NEW giveUp, NEW j,
         AfterQuery(t, o, next, first, giveUp, j),
         \A place \in {next, first, giveUp} :
           /\ place \in Asking => ~IsNew(t)
           /\ place \in Putting /\ IsNew(t) => j.jobid = NoId
  PROVE  NewIsNobody'
<1>1. PICK place \in {next, first, giveUp} : Goto(t, place, j)
  BY DEF AfterQuery
<1> HIDE DEF AfterQuery
<1> QED BY <1>1, NewGoto

\* What NewIsNobody says where t is.
LEMMA NewParts ==
  ASSUME NewIsNobody, NEW t \in Proc
  PROVE  /\ pc[t] \in {"time", "getCur", "delCur", "putCur", "addFail"} => ~IsNew(t)
         /\ pc[t] \in {"upload", "insert", "bump", "bumpErr"} /\ IsNew(t)
              => job[t].jobid = NoId
  BY DEF NewIsNobody, Asking, Putting

LEMMA NewThread ==
  ASSUME TypeInv, NewIsNobody, NEW t \in Thread, Request(t) \/ Handle(t)
  PROVE  NewIsNobody'
<1>0. t \in Proc /\ TypeOK /\ job[t] \in LocalJobs
  BY DEF TypeInv, TypeOK, Proc
<1>1. CASE Request(t)
  <2> DEFINE Plain(place) == place \notin Putting /\ place \notin Asking
  <2>1. PICK r, place : Begin(t, r, place) /\ (Plain(place) \/ (/\ place = "time"
                                                              /\ r.kind \in {"udjb", "fnjb"}))
    <3>1. CASE RequestGetJob(t) \/ RequestUploadJob(t) \/ RequestCrawlData(t)
      <4>1. \E r : \E place \in {"lock", "next", "check"} : Begin(t, r, place)
        BY <3>1, Zenon DEF RequestGetJob, RequestUploadJob, RequestCrawlData
      <4>2. \A place \in {"lock", "next", "check"} : Plain(place)
        BY DEF Asking, Putting
      <4> QED BY <4>1, <4>2
    <3>2. CASE RequestUpdateJob(t)
      <4>1. PICK l \in leases :
              Begin(t, [NoReq EXCEPT !.kind = "udjb", !.jobid = l[1], !.time = l[2]], "time")
        BY <3>2 DEF RequestUpdateJob
      <4>2. [NoReq EXCEPT !.kind = "udjb", !.jobid = l[1], !.time = l[2]].kind = "udjb"
        BY DEF NoReq
      <4> QED BY <4>1, <4>2
    <3>3. CASE RequestFinishJob(t)
      <4>1. PICK l \in leases, why \in Reasons :
              Begin(t, [NoReq EXCEPT !.kind = "fnjb", !.jobid = l[1], !.time = l[2],
                                     !.reason = why], "time")
        BY <3>3 DEF RequestFinishJob
      <4>2. [NoReq EXCEPT !.kind = "fnjb", !.jobid = l[1], !.time = l[2],
                          !.reason = why].kind = "fnjb"
        BY DEF NoReq
      <4> QED BY <4>1, <4>2
    <3> QED BY <1>1, <3>1, <3>2, <3>3 DEF Request
  <2>2. /\ \A u \in Proc \ {t} : pc'[u] = pc[u] /\ job'[u] = job[u] /\ req'[u] = req[u]
        /\ pc'[t] = place /\ req'[t] = r
    BY <1>0, <2>1 DEF Begin, TypeOK
  <2>3. place \notin Putting /\ (place \in Asking => ~IsNew(t)')
    BY <2>1, <2>2 DEF IsNew, Putting
  <2>4. \A u \in Proc \ {t} : IsNew(u)' <=> IsNew(u)
    BY <2>2 DEF IsNew
  <2> QED BY <2>2, <2>3, <2>4 DEF NewIsNobody
<1>2. CASE LockJobmtx(t) \/ CountFree(t) \/ CountBusy(t) \/ CountAgain(t)
  <2>1. PICK place \in {"countBusy", "countFree", "top", "idle", "countAgain"} :
          Goto(t, place, job[t])
    BY <1>2 DEF LockJobmtx, CountFree, CountBusy, CountAgain
  <2> QED BY <1>0, <2>1, NewGoto DEF Asking, Putting
<1>3. CASE SelectTopJob(t) \/ AddTopToCurrent(t) \/ DeleteTopJob(t)
  <2>1. \E o : \E next \in {"addCur", "delTop", "idle"} : \E j :
          AfterQuery(t, o, next, "top", "idle", j)
    <3>1. CASE SelectTopJob(t)
      BY <3>1, Zenon DEF SelectTopJob
    <3>2. CASE AddTopToCurrent(t)
      BY <3>2, Zenon DEF AddTopToCurrent
    <3>3. CASE DeleteTopJob(t)
      BY <3>3, Zenon DEF DeleteTopJob
    <3> QED BY <1>3, <3>1, <3>2, <3>3
  <2> QED BY <1>0, <2>1, NewAfter DEF Asking, Putting
<1>4. CASE SelectFromEmptyQueue(t)
  <2>1. \A u \in Proc : pc'[u] \in {"sleep", "idle"}
    BY <1>4 DEF SelectFromEmptyQueue, Restart
  <2> QED BY <2>1 DEF NewIsNobody, Asking, Putting
<1>5. CASE CheckTime(t)
  <2>1. PICK o, next : AfterQuery(t, o, next, "time", "idle", job[t]) /\ next \notin Putting
    BY <1>5 DEF CheckTime, Putting
  <2>2. ~IsNew(t)
    BY <1>0, <1>5, NewParts DEF CheckTime
  <2> QED BY <1>0, <2>1, <2>2, NewAfter
<1>6. CASE GetCurrentJob(t) \/ DeleteCurrentJob(t)
  <2>1. PICK o, next, giveUp, j : AfterQuery(t, o, next, "getCur", giveUp, j)
    BY <1>6 DEF GetCurrentJob, DeleteCurrentJob
  <2>2. ~IsNew(t)
    BY <1>0, <1>6, NewParts DEF GetCurrentJob, DeleteCurrentJob
  <2> QED BY <1>0, <2>1, <2>2, NewAfter
<1>7. CASE RenewCurrentJob(t) \/ AddFailedJob(t)
  <2>1. PICK o, next, first, j : AfterQuery(t, o, next, first, "idle", j)
    BY <1>7 DEF RenewCurrentJob, AddFailedJob
  <2>2. ~IsNew(t)
    BY <1>0, <1>7, NewParts DEF RenewCurrentJob, AddFailedJob
  <2> QED BY <1>0, <2>1, <2>2, NewAfter
<1>8. CASE NextJob(t)
  <2>1. PICK p, d : job' = [job EXCEPT ![t] = [NoJob EXCEPT !.priority = p, !.timeout = d]]
    BY <1>8 DEF NextJob
  <2>2. /\ \A u \in Proc \ {t} : pc'[u] = pc[u] /\ job'[u] = job[u] /\ req'[u] = req[u]
        /\ pc'[t] = "upload" /\ job'[t].jobid = NoId
    BY <1>0, <1>8, <2>1 DEF NextJob, TypeOK, NoJob
  <2> QED BY <2>2 DEF NewIsNobody, IsNew, Asking, Putting
<1>9. CASE InsertJob(t) \/ CountUp(t)
  <2>1. IsNew(t) => job[t].jobid = NoId
    BY <1>0, <1>9, NewParts DEF InsertJob, CountUp
  <2>2. PICK place \in {"upload", "insert", "bump", "bumpErr", "sweep", "next", "idle"} :
          Goto(t, place, job[t])
    BY <1>9 DEF InsertJob, CountUp, AfterQuery, AfterUpload, NoUpload
  <2>3. place \notin Asking
    BY DEF Asking
  <2> QED BY <1>0, <2>1, <2>2, <2>3, NewGoto
<1>10. CASE CheckCrawl(t) \/ UpdateCrawlID(t) \/ ChangeCrawlID(t) \/ SetCrawlID(t)
  <2>1. PICK place \in {"setCrawl", "newCrawl", "storeCrawl", "next", "idle"} :
          Goto(t, place, job[t])
    BY <1>10 DEF CheckCrawl, UpdateCrawlID, ChangeCrawlID, SetCrawlID, AfterCrawl
  <2> QED BY <1>0, <2>1, NewGoto DEF Asking, Putting
<1> QED BY <1>1, <1>2, <1>3, <1>4, <1>5, <1>6, <1>7, <1>8, <1>9, <1>10, Zenon DEF Handle

LEMMA NewStep ==
  ASSUME TypeInv, NewIsNobody, [Next]_vars PROVE NewIsNobody'
<1>1. CASE \E t \in Thread : Request(t) \/ Handle(t)
  BY <1>1, NewThread
<1>2. CASE \E s \in Sweeper : Sweep(s)
  <2>1. PICK s \in Sweeper : Sweep(s)
    BY <1>2
  <2>2. s \in Proc /\ TypeOK /\ ~IsNew(s)
    BY ThreadAssumption DEF TypeInv, Proc, IsNew
  <2>3. PICK place, j : Goto(s, place, j) /\ place \notin Asking
    BY <2>1 DEF Sweep, SweepSelect, SweepClock, SweepEnd, SweepFail, SweepDelete, InsertJob,
                CountUp, AfterQuery, AfterUpload, NoUpload, Asking
  <2> QED BY <2>2, <2>3, NewGoto
<1>3. CASE Crash
  <2>1. \A u \in Proc : pc'[u] \in {"sleep", "idle"}
    BY <1>3 DEF Crash, Restart
  <2> QED BY <2>1 DEF NewIsNobody, Asking, Putting
<1>4. CASE Tick \/ UNCHANGED vars
  BY <1>4 DEF Tick, vars, local, NewIsNobody, IsNew
<1> QED BY <1>1, <1>2, <1>3, <1>4 DEF Next


\* handleUpdateJobRequest and handleFinishJobRequest: what is deleted from currentjobs
\* is in the handler's hands until it is put back, given up or finished.
LEMMA LossFinish ==
  ASSUME NEW H, NEW X, TypeInv, LossInv(H, X), Clean, Clean', NEW t \in Thread,
         \/ CheckTime(t) \/ GetCurrentJob(t) \/ DeleteCurrentJob(t)
         \/ RenewCurrentJob(t) \/ AddFailedJob(t)
  PROVE  LossInv(H, X)' /\ Saved(H)
<1>0. /\ t \in Proc /\ pc \in [Proc -> Places] /\ job \in [Proc -> LocalJobs]
      /\ req \in [Proc -> LocalReqs]
  BY DEF TypeInv, TypeOK, Proc
<1>1. \A u \in Proc \ {t} : pc'[u] = pc[u] /\ job'[u] = job[u] /\ req'[u] = req[u]
  BY <1>0 DEF CheckTime, GetCurrentJob, DeleteCurrentJob, RenewCurrentJob, AddFailedJob,
              AfterQuery, Goto
<1>2. CASE CheckTime(t)
  <2>1. /\ pc[t] \notin Holding /\ pc'[t] \notin {"delTop", "delCur"}
        /\ UNCHANGED <<jobsqueue, currentjobs, finished, used, overtaken>>
    BY <1>0, <1>2 DEF CheckTime, AfterQuery, Goto, db, ghosts, Holding
  <2> QED BY <1>0, <1>1, <2>1, LossGrow DEF CurrentOf
<1>3. CASE GetCurrentJob(t)
  <2>1. /\ pc[t] \notin Holding /\ pc'[t] # "delTop"
        /\ UNCHANGED <<jobsqueue, currentjobs, finished, used, overtaken>>
    BY <1>0, <1>3 DEF GetCurrentJob, AfterQuery, Goto, AfterGet, db, Holding
  <2>2. pc'[t] = "delCur" => job'[t].jobid = req'[t].jobid
    BY <1>0, <1>3 DEF GetCurrentJob, AfterQuery, Goto, AfterGet, CurrentOf, Jobless
  <2> QED BY <1>0, <1>1, <2>1, <2>2, LossGrow DEF CurrentOf
<1>4. CASE DeleteCurrentJob(t)
  <2>1. PICK o \in Outcomes :
           /\ Spend(o)
           /\ AfterQuery(t, o, AfterGet(req[t]), "getCur", AfterGet(req[t]), job[t])
           /\ currentjobs' = IF o = "lost" THEN currentjobs ELSE CurrentWithout(req[t].jobid)
    BY <1>4 DEF DeleteCurrentJob
  <2>2. o = "ok"
    BY <2>1, SpendClean DEF TypeInv, Clean
  <2>3. /\ currentjobs' = CurrentWithout(job[t].jobid)
        /\ pc[t] = "delCur" /\ pc'[t] \in {"putCur", "addFail", "idle"}
        /\ pc'[t] # "idle" => job'[t] = job[t]
        /\ finished' = IF pc'[t] = "idle" THEN finished \cup {job[t].jobid} ELSE finished
        /\ UNCHANGED <<jobsqueue, used, overtaken>>
    BY <1>0, <1>4, <2>1, <2>2 DEF DeleteCurrentJob, AfterQuery, Goto, AfterGet, Jobless,
                                  LossInv, TakenIsAsked
  <2>4. ASSUME NEW id, Kept(H, id) PROVE Kept(H, id)'
    <3>1. CASE id = job[t].jobid
      <4>1. id \in finished' \/ InFlight(id)'
        BY <1>0, <2>3, <3>1 DEF InFlight
      <4> QED BY <4>1 DEF Kept
    <3>2. CASE id # job[t].jobid
      <4>1. CurrentOf(id) # {} => CurrentOf(id)' # {}
        BY <2>3, <3>2 DEF CurrentOf, CurrentWithout
      <4>2. InFlight(id) => InFlight(id)'
        BY <1>1, <2>3 DEF InFlight
      <4>3. id \in finished => id \in finished'
        BY <2>3
      <4> QED BY <2>4, <4>1, <4>2, <4>3 DEF Kept
    <3> QED BY <3>1, <3>2
  <2> QED BY <1>0, <1>1, <2>3, <2>4, LossMove
<1>5. CASE RenewCurrentJob(t)
  <2>1. PICK o \in Outcomes, stamp \in since[t]..now, id \in UuidOf(job[t]) :
           /\ Spend(o)
           /\ AfterQuery(t, o, "idle", "putCur", "idle", job[t])
           /\ currentjobs' = IF o = "lost" THEN currentjobs
                             ELSE CurrentWith([job[t] EXCEPT !.jobid = id, !.time = stamp])
           /\ used' = IF o = "lost" THEN used ELSE used \cup {id}
    BY <1>5 DEF RenewCurrentJob
  <2> DEFINE row == [job[t] EXCEPT !.jobid = id, !.time = stamp]
  <2>2. o = "ok"
    BY <2>1, SpendClean DEF TypeInv, Clean
  <2>3. row.jobid = id
    BY <1>0 DEF LocalJobs
  <2>4. /\ currentjobs' = CurrentWith(row) /\ used' = used \cup {id}
        /\ pc[t] = "putCur" /\ pc'[t] = "idle"
        /\ UNCHANGED <<jobsqueue, finished, overtaken>>
    BY <1>0, <1>5, <2>1, <2>2 DEF RenewCurrentJob, AfterQuery, Goto
  <2> HIDE DEF row
  <2>5. /\ CurrentOf(id)' # {}
        /\ \A x : CurrentOf(x) # {} => CurrentOf(x)' # {}
    BY <2>3, <2>4 DEF CurrentOf, CurrentWith
  <2>6. ASSUME NEW x \in Uuid, Kept(H, x) PROVE Kept(H, x)'
    <3>1. ASSUME InFlight(x) PROVE InFlight(x)' \/ x = id
      <4>1. PICK u \in Proc : pc[u] \in Holding /\ job[u].jobid = x
        BY <3>1 DEF InFlight, Holding
      <4>2. CASE u = t
        BY <2>1, <4>1, <4>2, IdAssumption DEF UuidOf
      <4>3. CASE u # t
        BY <1>1, <4>1, <4>3 DEF InFlight, Holding
      <4> QED BY <4>2, <4>3
    <3> QED BY <2>4, <2>5, <2>6, <3>1 DEF Kept
  <2>7. \A x \in used' \ used : Kept(H, x)'
    BY <2>4, <2>5 DEF Kept
  <2> QED BY <1>0, <1>1, <2>4, <2>6, <2>7, LossMove
<1>6. CASE AddFailedJob(t)
  <2>1. PICK o \in Outcomes :
           /\ Spend(o)
           /\ IF o = "ok" /\ Retryable(job[t], req[t].reason)
              THEN AfterQuery(t, o, "upload", "addFail", "idle",
                              [job[t] EXCEPT !.retries = @ + 1])
              ELSE AfterQuery(t, o, "idle", "addFail", "idle", job[t])
           /\ finished' = IF o = "ok" /\ ~Retryable(job[t], req[t].reason)
                          THEN Over(job[t]) ELSE finished
    BY <1>6 DEF AddFailedJob
  <2>2. o = "ok"
    BY <2>1, SpendClean DEF TypeInv, Clean
  <2>3. UNCHANGED <<jobsqueue, currentjobs, used, overtaken>>
    BY <1>6 DEF AddFailedJob
  <2>4. /\ pc'[t] \in {"upload", "idle"}
        /\ finished \subseteq finished'
        /\ \/ job[t].jobid \in finished' \cup {NoId}
           \/ pc'[t] = "upload" /\ job'[t].jobid = job[t].jobid
    <3>1. CASE Retryable(job[t], req[t].reason)
      <4>1. [job[t] EXCEPT !.retries = @ + 1].jobid = job[t].jobid
        BY <1>0 DEF LocalJobs
      <4> QED BY <1>0, <2>1, <2>2, <3>1, <4>1 DEF AfterQuery, Goto, Jobless
    <3>2. CASE ~Retryable(job[t], req[t].reason)
      BY <1>0, <2>1, <2>2, <3>2 DEF AfterQuery, Goto, Over
    <3> QED BY <3>1, <3>2
  <2>5. ASSUME NEW x \in Uuid, Kept(H, x) PROVE Kept(H, x)'
    <3>1. ASSUME InFlight(x) PROVE InFlight(x)' \/ x \in finished'
      <4>1. PICK u \in Proc : pc[u] \in Holding /\ job[u].jobid = x
        BY <3>1 DEF InFlight, Holding
      <4>2. CASE u = t
        BY <1>0, <2>4, <4>1, <4>2, IdAssumption DEF InFlight
      <4>3. CASE u # t
        BY <1>1, <4>1, <4>3 DEF InFlight, Holding
      <4> QED BY <4>2, <4>3
    <3> QED BY <2>3, <2>4, <2>5, <3>1 DEF Kept, CurrentOf
  <2>6. pc'[t] \notin {"delTop", "delCur"}
    BY <2>4
  <2> QED BY <1>0, <1>1, <2>3, <2>5, <2>6, LossMove
<1> QED BY <1>2, <1>3, <1>4, <1>5, <1>6

\* uploadJob puts the job it holds in the queue: whoever counted on it being held is
\* about to delete that row, and the job is overtaken.
LEMMA LossInsert ==
  ASSUME NEW H, NEW X, TypeInv, TypeInv', NewIsNobody, LossInv(H, X), Clean, Clean',
         NEW t \in Proc, InsertJob(t)
  PROVE  LossInv(H, X)' /\ Saved(H)
<1> DEFINE p == IF IsNew(t) THEN now - job[t].priority ELSE job[t].priority
<1>0. /\ pc \in [Proc -> Places] /\ job \in [Proc -> LocalJobs]
      /\ req \in [Proc -> LocalReqs] /\ credit \in [Uuid -> Int] /\ used' \subseteq Uuid
  BY DEF TypeInv, TypeOK
<1>1. PICK o \in Outcomes, id \in IF IsNew(t) THEN Uuid \ used ELSE UuidOf(job[t]) :
         /\ Spend(o)
         /\ IF o = "lost" THEN UNCHANGED <<jobsqueue, credit, overtaken, used>>
            ELSE /\ jobsqueue' = QueueWith(QueueRow(job[t], id, p))
                 /\ credit' = [credit EXCEPT ![id] = @ + 1]
                 /\ overtaken' = IF Leaving(id) THEN overtaken \cup {id} ELSE overtaken
                 /\ used' = used \cup {id}
  BY DEF InsertJob
<1>2. o = "ok"
  BY <1>1, SpendClean DEF TypeInv, Clean
<1> DEFINE row == QueueRow(job[t], id, p)
<1>3. row.jobid = id
  BY DEF QueueRow
<1>4. /\ jobsqueue' = QueueWith(row)
      /\ credit' = [credit EXCEPT ![id] = @ + 1]
      /\ overtaken' = IF Leaving(id) THEN overtaken \cup {id} ELSE overtaken
      /\ used' = used \cup {id}
  BY <1>1, <1>2
<1>5. id \in Uuid
  BY <1>0, <1>1, UuidOfType
<1>6. job[t].jobid \in Uuid /\ ~IsNew(t) => id = job[t].jobid
  BY <1>1, IdAssumption DEF UuidOf
<1> HIDE DEF row, p
<1>7. /\ \A u \in Proc \ {t} : pc'[u] = pc[u] /\ job'[u] = job[u] /\ req'[u] = req[u]
      /\ pc'[t] \notin {"delTop", "delCur"}
      /\ UNCHANGED <<currentjobs, finished>>
  BY <1>0 DEF InsertJob, AfterQuery, Goto, AfterUpload, NoUpload
<1>8. RowsOf(id)' # {} /\ \A x : RowsOf(x) # {} => RowsOf(x)' # {}
  BY <1>3, <1>4 DEF RowsOf, QueueWith
<1>9. overtaken \subseteq overtaken'
  BY <1>4
<1>10. ASSUME NEW x \in Uuid, x # id, Kept(H, x) PROVE Kept(H, x)'
  <2>1. ASSUME InFlight(x) PROVE InFlight(x)'
    <3>1. PICK u \in Proc : pc[u] \in Holding /\ job[u].jobid = x
      BY <2>1 DEF InFlight, Holding
    <3>2. u # t
      BY <1>0, <1>6, <1>10, <3>1, NewParts, IdAssumption DEF Holding, InsertJob
    <3> QED BY <1>7, <3>1, <3>2 DEF InFlight, Holding
  <2> QED BY <1>7, <1>10, <2>1 DEF Kept, CurrentOf
<1>11. UsedKnown(H, X)'
  <2> SUFFICES ASSUME NEW x \in used', x \notin overtaken' \cup X
               PROVE  RowsOf(x)' # {} \/ Kept(H, x)'
    BY DEF UsedKnown
  <2>1. CASE x = id
    BY <1>8, <2>1
  <2>2. CASE x # id
    BY <1>0, <1>4, <1>8, <1>9, <1>10, <2>2 DEF LossInv, UsedKnown
  <2> QED BY <2>1, <2>2
<1>12. HandoutKept(H, X)'
  <2> SUFFICES ASSUME NEW u \in Thread, pc'[u] = "delTop", NEW x, x = job'[u].jobid,
                      x \notin overtaken' \cup X
               PROVE  Kept(H, x)'
    BY DEF HandoutKept
  <2>1. u \in Proc \ {t} /\ pc[u] = "delTop" /\ x = job[u].jobid
    BY <1>7 DEF Proc
  <2>2. x \in Uuid
    BY <2>1 DEF TypeInv, LocalsOK
  <2>3. x # id
    BY <1>4, <2>1 DEF Leaving
  <2>4. Kept(H, x)
    BY <1>9, <2>1 DEF LossInv, HandoutKept
  <2> QED BY <1>10, <2>2, <2>3, <2>4
<1>13. TakenIsAsked'
  BY <1>7 DEF LossInv, TakenIsAsked
<1>14. credit'[id] > credit[id]
  BY <1>0, <1>4, <1>5
<1>15. Saved(H)
  BY <1>9, <1>10, <1>14 DEF Saved
<1> QED BY <1>11, <1>12, <1>13, <1>15 DEF LossInv

LEMMA LossUpload ==
  ASSUME NEW H, NEW X, TypeInv, TypeInv', LossInv(H, X), Clean, Clean', NEW t \in Proc,
         NextJob(t) \/ CountUp(t)
  PROVE  LossInv(H, X)' /\ Saved(H)
<1>0. /\ pc \in [Proc -> Places] /\ job \in [Proc -> LocalJobs]
      /\ req \in [Proc -> LocalReqs]
  BY DEF TypeInv, TypeOK
<1>1. \A u \in Proc \ {t} : pc'[u] = pc[u] /\ job'[u] = job[u] /\ req'[u] = req[u]
  BY <1>0 DEF NextJob, CountUp, AfterQuery, Goto
<1>2. /\ pc'[t] \notin {"delTop", "delCur"}
      /\ UNCHANGED <<jobsqueue, currentjobs, finished, used, overtaken>>
  BY <1>0 DEF NextJob, CountUp, AfterQuery, Goto, AfterUpload, NoUpload, db, ghosts
<1>3. CASE pc[t] \in Holding
  <2>1. pc[t] \in Holding /\ pc'[t] = "insert" /\ job'[t] = job[t]
    BY <1>0, <1>3 DEF NextJob, CountUp, Goto, Jobless, Holding
  <2>2. \A id : InFlight(id) => InFlight(id)'
    BY <1>1, <2>1 DEF InFlight, Holding
  <2>3. \A id : Kept(H, id) => Kept(H, id)'
    BY <1>2, <2>2 DEF Kept, CurrentOf
  <2> QED BY <1>1, <1>2, <2>3, LossMove
<1>4. CASE pc[t] \notin Holding
  BY <1>0, <1>1, <1>2, <1>4, LossGrow DEF CurrentOf
<1> QED BY <1>3, <1>4

\* Requests and handleCrawlDataRequest move no job.
LEMMA LossQuiet ==
  ASSUME NEW H, NEW X, TypeInv, LossInv(H, X), Clean, NEW t \in Thread,
         Request(t) \/ CheckCrawl(t) \/ UpdateCrawlID(t) \/ ChangeCrawlID(t) \/ SetCrawlID(t)
  PROVE  LossInv(H, X)' /\ Saved(H)
<1>0. /\ t \in Proc /\ pc \in [Proc -> Places] /\ job \in [Proc -> LocalJobs]
      /\ req \in [Proc -> LocalReqs]
  BY DEF TypeInv, TypeOK, Proc
<1>1. CASE Request(t)
  <2>1. PICK r : \E place \in {"lock", "time", "next", "check"} : Begin(t, r, place)
    BY <1>1 DEF Request, RequestGetJob, RequestUpdateJob, RequestFinishJob,
                RequestUploadJob, RequestCrawlData
  <2>2. /\ \A u \in Proc \ {t} : pc'[u] = pc[u] /\ job'[u] = job[u] /\ req'[u] = req[u]
        /\ pc[t] \notin Holding /\ pc'[t] \notin {"delTop", "delCur"}
        /\ UNCHANGED <<jobsqueue, currentjobs, finished, used, overtaken>>
    BY <1>0, <2>1 DEF Begin, db, ghosts, Holding
  <2> QED BY <1>0, <2>2, LossGrow DEF CurrentOf
<1>2. CASE CheckCrawl(t) \/ UpdateCrawlID(t) \/ ChangeCrawlID(t) \/ SetCrawlID(t)
  <2>1. \A u \in Proc \ {t} : pc'[u] = pc[u] /\ job'[u] = job[u] /\ req'[u] = req[u]
    BY <1>0, <1>2 DEF CheckCrawl, UpdateCrawlID, ChangeCrawlID, SetCrawlID, Goto
  <2>2. pc[t] \notin Holding /\ pc'[t] \notin {"delTop", "delCur"}
    BY <1>0, <1>2 DEF CheckCrawl, UpdateCrawlID, ChangeCrawlID, SetCrawlID, Goto,
                      AfterCrawl, Holding
  <2>3. UNCHANGED <<jobsqueue, currentjobs, finished, used, overtaken>>
    BY <1>2 DEF CheckCrawl, UpdateCrawlID, ChangeCrawlID, SetCrawlID, db, ghosts
  <2> QED BY <1>0, <2>1, <2>2, <2>3, LossGrow DEF CurrentOf
<1> QED BY <1>1, <1>2

\* updateCurrentJobs: what leaves currentjobs is in the hands of the sweep, or given up.
LEMMA LossSweep ==
  ASSUME NEW H, NEW X, TypeInv, LossInv(H, X), Clean, Clean', NEW s \in Sweeper,
         SweepSelect(s) \/ SweepClock(s) \/ SweepEnd(s) \/ SweepFail(s) \/ SweepDelete(s)
  PROVE  LossInv(H, X)' /\ Saved(H)
<1>0. /\ s \in Proc /\ pc \in [Proc -> Places] /\ job \in [Proc -> LocalJobs]
      /\ req \in [Proc -> LocalReqs]
  BY DEF TypeInv, TypeOK, Proc
<1>1. \A u \in Proc \ {s} : pc'[u] = pc[u] /\ job'[u] = job[u] /\ req'[u] = req[u]
  BY <1>0 DEF SweepSelect, SweepClock, SweepEnd, SweepFail, SweepDelete, Goto
<1>2. /\ pc[s] \notin Holding /\ pc'[s] \notin {"delTop", "delCur"}
      /\ UNCHANGED <<jobsqueue, used, overtaken>>
  BY <1>0 DEF SweepSelect, SweepClock, SweepEnd, SweepFail, SweepDelete, Goto, Holding,
              db, ghosts
<1>3. CASE SweepSelect(s) \/ SweepClock(s) \/ SweepEnd(s) \/ SweepFail(s)
  <2>1. UNCHANGED <<currentjobs, finished>>
    BY <1>3 DEF SweepSelect, SweepClock, SweepEnd, SweepFail, db, ghosts
  <2> QED BY <1>0, <1>1, <1>2, <2>1, LossGrow DEF CurrentOf
<1>4. CASE SweepDelete(s)
  <2>0. PICK x : x = job[s].jobid
    OBVIOUS
  <2>1. /\ currentjobs' = currentjobs \/ currentjobs' = CurrentWithout(x)
        /\ finished \subseteq finished'
    BY <1>4, <2>0 DEF SweepDelete, Over
  <2>2. x \in Uuid
    BY <1>0, <1>4, <2>0 DEF SweepDelete, TypeInv, LocalsOK
  <2>3. x \in finished' \/ InFlight(x)'
    <3>1. CASE RetriesLeft(job[s])
      <4>1. [job[s] EXCEPT !.retries = @ + 1].jobid = x
        BY <1>0, <2>0 DEF LocalJobs
      <4>2. pc'[s] = "upload" /\ job'[s].jobid = x
        BY <1>0, <1>4, <3>1, <4>1 DEF SweepDelete, Goto, Jobless
      <4> QED BY <1>0, <4>2 DEF InFlight
    <3>2. CASE ~RetriesLeft(job[s])
      BY <1>4, <2>0, <2>2, <3>2, IdAssumption DEF SweepDelete, Over
    <3> QED BY <3>1, <3>2
  <2>4. ASSUME NEW id \in Uuid, Kept(H, id) PROVE Kept(H, id)'
    <3>1. InFlight(id) => InFlight(id)'
      BY <1>1, <1>2 DEF InFlight, Holding
    <3>2. id # x /\ CurrentOf(id) # {} => CurrentOf(id)' # {}
      BY <2>1 DEF CurrentOf, CurrentWithout
    <3>3. CASE id = x
      BY <2>3, <3>3 DEF Kept
    <3>4. CASE id # x
      BY <2>1, <2>4, <3>1, <3>2, <3>4 DEF Kept
    <3> QED BY <3>3, <3>4
  <2> QED BY <1>0, <1>1, <1>2, <2>4, LossMove
<1> QED BY <1>3, <1>4

\* No step makes up for a fault or a crash.
LEMMA CleanBefore ==
  ASSUME TypeInv, [Next]_vars, Clean' PROVE Clean
<1>0. faults \in Nat /\ faults' = 0
  BY DEF TypeInv, TypeOK, Clean
<1>1. \A o : Spend(o) => faults = 0
  BY <1>0, SpendClean DEF TypeInv
<1>2. \A b, c : ~Restart(b, c)
  BY DEF Restart, Clean
<1>3. SUFFICES faults = 0 /\ crashed' = crashed
  BY DEF Clean
<1>4. ASSUME NEW t, NextJob(t) \/ InsertJob(t) \/ CountUp(t)
      PROVE  faults = 0 /\ crashed' = crashed
  <2>1. CASE NextJob(t) \/ CountUp(t)
    BY <1>0, <2>1 DEF NextJob, CountUp, world, ghosts
  <2>2. CASE InsertJob(t)
    <3>1. \E o : Spend(o)
      BY <2>2 DEF InsertJob
    <3> QED BY <1>1, <2>2, <3>1 DEF InsertJob
  <2> QED BY <1>4, <2>1, <2>2
<1>5. CASE \E t \in Thread : Request(t)
  <2>1. PICK t, r, place : Begin(t, r, place)
    BY <1>5 DEF Request, RequestGetJob, RequestUpdateJob, RequestFinishJob,
                RequestUploadJob, RequestCrawlData
  <2> QED BY <1>0, <2>1 DEF Begin, ghosts
<1>6. CASE \E t \in Thread : Handle(t)
  <2>1. PICK t \in Thread : Handle(t)
    BY <1>6
  <2>2. ~SelectFromEmptyQueue(t)
    BY <1>2, Zenon DEF SelectFromEmptyQueue
  <2>3. CASE LockJobmtx(t)
    BY <1>0, <2>3 DEF LockJobmtx, world, ghosts
  <2>4. CASE CountFree(t) \/ CountBusy(t) \/ CountAgain(t)
    <3>1. GetNumberOfJobs /\ crashed' = crashed
      BY <2>4 DEF CountFree, CountBusy, CountAgain, ghosts
    <3> QED BY <1>0, <1>1, <3>1 DEF GetNumberOfJobs
  <2>5. CASE SelectTopJob(t) \/ AddTopToCurrent(t) \/ DeleteTopJob(t)
    <3>1. crashed' = crashed /\ (faults' = faults \/ \E o : Spend(o))
      BY <2>5 DEF SelectTopJob, AddTopToCurrent, DeleteTopJob, ghosts
    <3> QED BY <1>0, <1>1, <3>1
  <2>6. CASE CheckTime(t) \/ GetCurrentJob(t) \/ DeleteCurrentJob(t) \/ RenewCurrentJob(t)
             \/ AddFailedJob(t)
    <3>1. crashed' = crashed /\ (faults' = faults \/ \E o : Spend(o))
      BY <2>6 DEF CheckTime, GetCurrentJob, DeleteCurrentJob, RenewCurrentJob,
                  AddFailedJob, ghosts
    <3> QED BY <1>0, <1>1, <3>1
  <2>7. CASE CheckCrawl(t) \/ UpdateCrawlID(t) \/ ChangeCrawlID(t) \/ SetCrawlID(t)
    <3>1. crashed' = crashed /\ (faults' = faults \/ \E o : Spend(o))
      BY <2>7 DEF CheckCrawl, UpdateCrawlID, ChangeCrawlID, SetCrawlID, world, ghosts
    <3> QED BY <1>0, <1>1, <3>1
  <2> QED BY <1>4, <2>1, <2>2, <2>3, <2>4, <2>5, <2>6, <2>7 DEF Handle
<1>7. CASE \E s \in Sweeper : Sweep(s)
  <2>1. PICK s \in Sweeper : Sweep(s)
    BY <1>7
  <2>2. CASE SweepSelect(s) \/ SweepClock(s) \/ SweepEnd(s) \/ SweepFail(s) \/ SweepDelete(s)
    <3>1. crashed' = crashed /\ (faults' = faults \/ \E o : Spend(o))
      BY <2>2 DEF SweepSelect, SweepClock, SweepEnd, SweepFail, SweepDelete, world, ghosts
    <3> QED BY <1>0, <1>1, <3>1
  <2> QED BY <1>4, <2>1, <2>2 DEF Sweep
<1>8. CASE Crash
  BY <1>2, <1>8, Zenon DEF Crash
<1>9. CASE Tick \/ UNCHANGED vars
  BY <1>0, <1>9 DEF Tick, vars, world, ghosts
<1> QED BY <1>5, <1>6, <1>7, <1>8, <1>9 DEF Next

LEMMA LossStep ==
  ASSUME NEW H, NEW X, NEW Y, X \subseteq Y, TypeInv, NewIsNobody,
         LossInv(H, X), [Next]_vars
  PROVE  LossInv(H, Y)' /\ (Clean' => Saved(H))
<1> SUFFICES ASSUME Clean' PROVE LossInv(H, X)' /\ Saved(H)
  BY DEF LossInv, UsedKnown, HandoutKept
<1>0. Clean
  BY CleanBefore
<1>00. TypeInv'
  BY TypeStep
<1>1. \A b, c : ~Restart(b, c)
  BY DEF Restart, Clean
<1>2. CASE \E t \in Thread : Request(t)
  BY <1>0, <1>2, LossQuiet
<1>3. CASE \E t \in Thread : Handle(t)
  <2>1. PICK t \in Thread : Handle(t)
    BY <1>3
  <2>2. t \in Proc
    BY DEF Proc
  <2>3. ~SelectFromEmptyQueue(t)
    BY <1>1, Zenon DEF SelectFromEmptyQueue
  <2> QED BY <1>0, <1>00, <2>1, <2>2, <2>3, LossGetJob, LossFinish, LossInsert, LossUpload,
             LossQuiet DEF Handle
<1>4. CASE \E s \in Sweeper : Sweep(s)
  <2>1. PICK s \in Sweeper : Sweep(s)
    BY <1>4
  <2>2. s \in Proc
    BY DEF Proc
  <2> QED BY <1>0, <1>00, <2>1, <2>2, LossSweep, LossInsert, LossUpload DEF Sweep
<1>5. CASE Crash
  BY <1>1, <1>5, Zenon DEF Crash
<1>6. CASE Tick \/ UNCHANGED vars
  <2>1. UNCHANGED <<jobsqueue, currentjobs, finished, used, overtaken, pc, job, req>>
    BY <1>6 DEF Tick, vars, db, local, ghosts
  <2>2. UsedKnown(H, X)' /\ HandoutKept(H, X)' /\ TakenIsAsked'
    BY <1>0, <2>1 DEF LossInv, UsedKnown, HandoutKept, TakenIsAsked, Kept, RowsOf, CurrentOf,
                      InFlight
  <2>3. Saved(H)
    BY <2>1 DEF Saved, Kept, CurrentOf, InFlight
  <2> QED BY <2>2, <2>3 DEF LossInv
<1> QED BY <1>2, <1>3, <1>4, <1>5, <1>6 DEF Next

\* As long as the database answers and the process lives, no interleaving of any number
\* of handlers and sweeps loses a job, on a retry or not, but the one in which it comes
\* back to the queue between the INSERT and the DELETE of a getTopJob that hands it out.
THEOREM JobsNeverVanish == Spec => []NoJobVanishes
<1>1. TypeInv /\ NewIsNobody /\ LossInv({}, {}) /\ [Next]_vars
        => NewIsNobody' /\ LossInv({}, {})'
  BY LossStep, NewStep
<1>2. LossInv({}, {}) => NoJobVanishes
  BY DEF LossInv, Clean, UsedKnown, Kept, NoJobVanishes, Known
<1>3. Init => NewIsNobody /\ LossInv({}, {})
  BY LossInit, NewInit
<1> QED BY <1>1, <1>2, <1>3, TypeInvariant, PTL DEF Spec

(***************************************************************************)
(* Retries are bounded and each has a record of a failure, for any number   *)
(* of jobs, threads, sweepers and faults.                                   *)
(*                                                                          *)
(* A job travels from jobsqueue to currentjobs and back in the hands of a   *)
(* thread, and a sweep looks at a copy of currentjobs, so the invariant     *)
(* bounds the retries of every copy of a job, not only of the two tables.   *)
(***************************************************************************)
Few(rows) == \A row \in rows : row.retries <= MAX_JOB_RETRIES

HandsFew  == \A t \in Proc : job[t].retries <= MAX_JOB_RETRIES
CopiesFew == \A s \in Sweeper : Few(todo[s])

RetryInv == ~undef => Few(jobsqueue) /\ Few(currentjobs) /\ HandsFew /\ CopiesFew

LEMMA NoJobFew == NoJob.retries <= MAX_JOB_RETRIES
  BY LimitAssumption DEF NoJob

\* Going on with a job that is within the bound keeps all threads within it.
LEMMA HandsGoto ==
  ASSUME TypeOK, HandsFew, NEW t \in Proc, NEW place, NEW j, Goto(t, place, j),
         place \in Jobless \/ j.retries <= MAX_JOB_RETRIES
  PROVE  HandsFew'
  BY NoJobFew DEF TypeOK, HandsFew, Goto

LEMMA HandsAfter ==
  ASSUME TypeOK, HandsFew, NEW t \in Proc, NEW o, NEW next, NEW first, NEW giveUp, NEW j,
         AfterQuery(t, o, next, first, giveUp, j), j.retries <= MAX_JOB_RETRIES
  PROVE  HandsFew'
  BY HandsGoto DEF AfterQuery

LEMMA RetryInit == Init => RetryInv
<1> SUFFICES ASSUME Init PROVE Few(jobsqueue) /\ Few(currentjobs) /\ HandsFew /\ CopiesFew
  BY DEF RetryInv
<1>1. Few(jobsqueue)
  <2>1. PICK p, d : jobsqueue = {[jobid |-> x, priority |-> p[x], retries |-> 0,
                                  timeout |-> d[x]] : x \in InitQueue}
    BY DEF Init
  <2>2. \A row \in jobsqueue : row.retries = 0
    BY <2>1
  <2> QED BY <2>2, LimitAssumption DEF Few
<1>2. Few(currentjobs) /\ HandsFew /\ CopiesFew
  BY NoJobFew DEF Init, Few, HandsFew, CopiesFew
<1> QED BY <1>1, <1>2

\* handleGetJobRequest
LEMMA RetryGetJob ==
  ASSUME TypeInv, RetryInv, NEW t \in Thread,
         \/ LockJobmtx(t) \/ CountFree(t) \/ CountBusy(t) \/ CountAgain(t)
         \/ SelectTopJob(t) \/ AddTopToCurrent(t) \/ DeleteTopJob(t)
  PROVE  RetryInv'
<1>0. t \in Proc /\ TypeOK /\ job[t] \in LocalJobs
  BY DEF TypeInv, TypeOK, Proc
<1>1. UNCHANGED <<undef, todo>>
  BY DEF LockJobmtx, CountFree, CountBusy, CountAgain, SelectTopJob, AddTopToCurrent,
         DeleteTopJob, ghosts
<1> SUFFICES ASSUME Few(jobsqueue), Few(currentjobs), HandsFew, CopiesFew
             PROVE  Few(jobsqueue') /\ Few(currentjobs') /\ HandsFew' /\ CopiesFew'
  BY <1>1 DEF RetryInv, Few
<1>2. CopiesFew' /\ job[t].retries <= MAX_JOB_RETRIES
  BY <1>0, <1>1 DEF CopiesFew, HandsFew
<1>3. CASE LockJobmtx(t) \/ CountFree(t) \/ CountBusy(t) \/ CountAgain(t)
  <2>1. UNCHANGED <<jobsqueue, currentjobs>> /\ \E place : Goto(t, place, job[t])
    BY <1>3 DEF LockJobmtx, CountFree, CountBusy, CountAgain, db
  <2> QED BY <1>0, <1>2, <2>1, HandsGoto
<1>4. CASE SelectTopJob(t)
  <2>1. UNCHANGED <<jobsqueue, currentjobs>>
    BY <1>4 DEF SelectTopJob, db
  <2>2. PICK o, j : /\ AfterQuery(t, o, "addCur", "top", "idle", j)
                    /\ j = job[t] \/ \E row \in TopRows : j = JobOf(row)
    BY <1>4 DEF SelectTopJob
  <2>3. j.retries <= MAX_JOB_RETRIES
    BY <1>2, <2>2 DEF TopRows, JobOf, Few
  <2> QED BY <1>0, <1>2, <2>1, <2>2, <2>3, HandsAfter
<1>5. CASE AddTopToCurrent(t)
  <2>1. PICK o, stamp :
           /\ AfterQuery(t, o, "delTop", "top", "idle", [job[t] EXCEPT !.time = stamp])
           /\ currentjobs' = IF o = "lost" THEN currentjobs
                             ELSE CurrentWith([job[t] EXCEPT !.time = stamp])
           /\ jobsqueue' = jobsqueue
    BY <1>5 DEF AddTopToCurrent
  <2> DEFINE row == [job[t] EXCEPT !.time = stamp]
  <2>2. row.retries <= MAX_JOB_RETRIES
    BY <1>0, <1>2 DEF LocalJobs
  <2>3. AfterQuery(t, o, "delTop", "top", "idle", row)
        /\ (currentjobs' = currentjobs \/ currentjobs' = CurrentWith(row))
    BY <2>1
  <2> HIDE DEF row
  <2>4. Few(currentjobs')
    BY <2>2, <2>3 DEF Few, CurrentWith
  <2> QED BY <1>0, <1>2, <2>1, <2>2, <2>3, <2>4, HandsAfter
<1>6. CASE DeleteTopJob(t)
  <2>1. PICK o : /\ AfterQuery(t, o, "idle", "top", "idle", job[t])
                 /\ jobsqueue' = IF o = "lost" THEN jobsqueue
                                 ELSE QueueWithout(job[t].jobid, job[t].priority)
                 /\ currentjobs' = currentjobs
    BY <1>6 DEF DeleteTopJob
  <2>2. Few(jobsqueue')
    BY <2>1 DEF Few, QueueWithout
  <2> QED BY <1>0, <1>2, <2>1, <2>2, HandsAfter
<1> QED BY <1>3, <1>4, <1>5, <1>6

\* handleUpdateJobRequest and handleFinishJobRequest: a job goes back to the queue
\* with one retry more only while RetriesLeft.
LEMMA RetryFinish ==
  ASSUME TypeInv, RetryInv, NEW t \in Thread,
         \/ CheckTime(t) \/ GetCurrentJob(t) \/ DeleteCurrentJob(t)
         \/ RenewCurrentJob(t) \/ AddFailedJob(t)
  PROVE  RetryInv'
<1>0. t \in Proc /\ TypeOK /\ job[t] \in LocalJobs /\ undef \in BOOLEAN
  BY DEF TypeInv, TypeOK, Proc
<1>1. todo' = todo /\ jobsqueue' = jobsqueue
  BY DEF CheckTime, GetCurrentJob, DeleteCurrentJob, RenewCurrentJob, AddFailedJob, db
<1>2. CASE GetCurrentJob(t)
  <2> SUFFICES ASSUME ~undef'
               PROVE  Few(jobsqueue') /\ Few(currentjobs') /\ HandsFew' /\ CopiesFew'
    BY DEF RetryInv, Few
  <2>0. currentjobs' = currentjobs
    BY <1>2 DEF GetCurrentJob, db
  <2>1. CASE \E row \in CurrentOf(req[t].jobid) :
               AfterQuery(t, "ok", "delCur", "getCur", "idle", row) /\ UNCHANGED undef
    <3>1. Few(jobsqueue) /\ Few(currentjobs) /\ HandsFew /\ CopiesFew
      BY <1>0, <2>1 DEF RetryInv
    <3>2. PICK row \in CurrentOf(req[t].jobid) :
             AfterQuery(t, "ok", "delCur", "getCur", "idle", row)
      BY <2>1
    <3>3. row.retries <= MAX_JOB_RETRIES
      BY <3>1, <3>2 DEF CurrentOf, Few
    <3> QED BY <1>0, <1>1, <2>0, <3>1, <3>2, <3>3, HandsAfter DEF CopiesFew
  <2>2. CASE \E place, j : /\ Goto(t, place, j)
                           /\ place \in Jobless
                           /\ undef => undef'
    <3>1. Few(jobsqueue) /\ Few(currentjobs) /\ HandsFew /\ CopiesFew
      BY <1>0, <2>2 DEF RetryInv
    <3>2. HandsFew'
      BY <1>0, <2>2, <3>1, HandsGoto
    <3> QED BY <1>1, <2>0, <3>1, <3>2 DEF CopiesFew
  <2>3. CASE \E j \in Junk : /\ AfterQuery(t, "ok", AfterGet(req[t]), "getCur", "idle", j)
                             /\ undef' = (undef \/ AfterGet(req[t]) # "idle")
    <3>1. AfterGet(req[t]) = "idle" /\ (undef => undef')
      BY <2>3
    <3>2. \E j : Goto(t, "idle", j)
      BY <2>3, <3>1 DEF AfterQuery
    <3> QED BY <2>2, <3>1, <3>2 DEF Jobless
  <2>4. CASE \E j \in Junk :
               /\ AfterQuery(t, "lost", "delCur", "getCur", AfterGet(req[t]), j)
               /\ undef' = (undef \/ (~Again(t, "lost") /\ AfterGet(req[t]) # "idle"))
    <3>1. (Again(t, "lost") \/ AfterGet(req[t]) = "idle") /\ (undef => undef')
      BY <2>4
    <3>2. \E j : Goto(t, "getCur", j) \/ Goto(t, "idle", j)
      BY <2>4, <3>1 DEF AfterQuery
    <3> QED BY <2>2, <3>1, <3>2 DEF Jobless
  <2> QED BY <1>2, <2>1, <2>3, <2>4 DEF GetCurrentJob
<1>3. CASE CheckTime(t) \/ DeleteCurrentJob(t) \/ RenewCurrentJob(t) \/ AddFailedJob(t)
  <2>0. undef' = undef
    BY <1>3 DEF CheckTime, DeleteCurrentJob, RenewCurrentJob, AddFailedJob, ghosts
  <2> SUFFICES ASSUME Few(jobsqueue), Few(currentjobs), HandsFew, CopiesFew
               PROVE  Few(currentjobs') /\ HandsFew'
    BY <1>1, <2>0 DEF RetryInv, Few, CopiesFew
  <2>1. job[t].retries <= MAX_JOB_RETRIES
    BY <1>0 DEF HandsFew
  <2>2. CASE CheckTime(t)
    <3>1. currentjobs' = currentjobs
          /\ \E o, n : AfterQuery(t, o, n, "time", "idle", job[t])
      BY <2>2 DEF CheckTime, db
    <3> QED BY <1>0, <2>1, <3>1, HandsAfter
  <2>3. CASE DeleteCurrentJob(t)
    <3>1. /\ currentjobs' = currentjobs \/ currentjobs' = CurrentWithout(req[t].jobid)
          /\ \E o, n, f, g : AfterQuery(t, o, n, f, g, job[t])
      BY <2>3 DEF DeleteCurrentJob
    <3>2. Few(currentjobs')
      BY <3>1 DEF Few, CurrentWithout
    <3> QED BY <1>0, <2>1, <3>1, <3>2, HandsAfter
  <2>4. CASE RenewCurrentJob(t)
    <3>1. PICK o, stamp, id :
             /\ AfterQuery(t, o, "idle", "putCur", "idle", job[t])
             /\ currentjobs' = IF o = "lost" THEN currentjobs
                               ELSE CurrentWith([job[t] EXCEPT !.jobid = id, !.time = stamp])
      BY <2>4 DEF RenewCurrentJob
    <3> DEFINE row == [job[t] EXCEPT !.jobid = id, !.time = stamp]
    <3>2. row.retries <= MAX_JOB_RETRIES
      BY <1>0, <2>1 DEF LocalJobs
    <3>3. currentjobs' = currentjobs \/ currentjobs' = CurrentWith(row)
      BY <3>1
    <3> HIDE DEF row
    <3>4. Few(currentjobs')
      BY <3>2, <3>3 DEF Few, CurrentWith
    <3> QED BY <1>0, <2>1, <3>1, <3>4, HandsAfter
  <2>5. CASE AddFailedJob(t)
    <3>1. currentjobs' = currentjobs
      BY <2>5 DEF AddFailedJob
    <3>2. PICK o : IF o = "ok" /\ Retryable(job[t], req[t].reason)
                   THEN AfterQuery(t, o, "upload", "addFail", "idle",
                                   [job[t] EXCEPT !.retries = @ + 1])
                   ELSE AfterQuery(t, o, "idle", "addFail", "idle", job[t])
      BY <2>5 DEF AddFailedJob
    <3>3. Retryable(job[t], req[t].reason)
            => [job[t] EXCEPT !.retries = @ + 1].retries <= MAX_JOB_RETRIES
      BY <1>0, LimitAssumption DEF Retryable, RetriesLeft, LocalJobs
    <3> QED BY <1>0, <2>1, <3>1, <3>2, <3>3, HandsAfter
  <2> QED BY <1>3, <2>2, <2>3, <2>4, <2>5
<1> QED BY <1>2, <1>3

\* uploadJob: the row has the retries of the job in hand.
LEMMA RetryUpload ==
  ASSUME TypeInv, RetryInv, NEW t \in Proc, NextJob(t) \/ InsertJob(t) \/ CountUp(t)
  PROVE  RetryInv'
<1>0. TypeOK /\ job[t] \in LocalJobs
  BY DEF TypeInv, TypeOK
<1>1. UNCHANGED <<undef, todo, currentjobs>>
  BY DEF NextJob, InsertJob, CountUp, db, ghosts
<1> SUFFICES ASSUME Few(jobsqueue), Few(currentjobs), HandsFew, CopiesFew
             PROVE  Few(jobsqueue') /\ HandsFew'
  BY <1>1 DEF RetryInv, Few, CopiesFew
<1>2. job[t].retries <= MAX_JOB_RETRIES
  BY DEF HandsFew
<1>3. CASE NextJob(t)
  <2>1. jobsqueue' = jobsqueue
    BY <1>3 DEF NextJob, db
  <2>2. PICK p, d : job' = [job EXCEPT ![t] = [NoJob EXCEPT !.priority = p, !.timeout = d]]
    BY <1>3 DEF NextJob
  <2>3. [NoJob EXCEPT !.priority = p, !.timeout = d].retries = 0
    BY DEF NoJob
  <2> QED BY <1>0, <2>1, <2>2, <2>3, LimitAssumption DEF HandsFew, TypeOK
<1>4. CASE InsertJob(t)
  <2>1. PICK o, id : \E p :
           /\ \/ \E n, f, g : AfterQuery(t, o, n, f, g, job[t])
              \/ \E place : Goto(t, place, job[t])
           /\ jobsqueue' = jobsqueue \/ jobsqueue' = QueueWith(QueueRow(job[t], id, p))
    BY <1>4 DEF InsertJob
  <2>2. HandsFew'
    BY <1>0, <1>2, <2>1, HandsAfter, HandsGoto
  <2>3. PICK p : jobsqueue' = jobsqueue \/ jobsqueue' = QueueWith(QueueRow(job[t], id, p))
    BY <2>1
  <2> DEFINE row == QueueRow(job[t], id, p)
  <2>4. row.retries <= MAX_JOB_RETRIES
    BY <1>2 DEF QueueRow
  <2>5. jobsqueue' = jobsqueue \/ jobsqueue' = QueueWith(row)
    BY <2>3
  <2> HIDE DEF row
  <2>6. Few(jobsqueue')
    BY <2>4, <2>5 DEF Few, QueueWith
  <2> QED BY <2>2, <2>6
<1>5. CASE CountUp(t)
  <2>1. /\ jobsqueue' = jobsqueue
        /\ \/ Goto(t, "insert", job[t])
           \/ \E o, n, f, g : AfterQuery(t, o, n, f, g, job[t])
    BY <1>5 DEF CountUp, db
  <2> QED BY <1>0, <1>2, <2>1, HandsGoto, HandsAfter
<1> QED BY <1>3, <1>4, <1>5

\* Requests and handleCrawlDataRequest move no job.
LEMMA RetryQuiet ==
  ASSUME TypeInv, RetryInv, NEW t \in Thread,
         Request(t) \/ CheckCrawl(t) \/ UpdateCrawlID(t) \/ ChangeCrawlID(t) \/ SetCrawlID(t)
  PROVE  RetryInv'
<1>0. TypeOK /\ t \in Proc
  BY DEF TypeInv, Proc
<1>1. CASE Request(t)
  <2>1. \E r, place : Begin(t, r, place)
    BY <1>1 DEF Request, RequestGetJob, RequestUpdateJob, RequestFinishJob,
                RequestUploadJob, RequestCrawlData
  <2>2. UNCHANGED <<undef, todo, jobsqueue, currentjobs, job>>
    BY <2>1 DEF Begin, db, ghosts
  <2> QED BY <2>2 DEF RetryInv, Few, HandsFew, CopiesFew
<1>2. CASE CheckCrawl(t) \/ UpdateCrawlID(t) \/ ChangeCrawlID(t) \/ SetCrawlID(t)
  <2>1. UNCHANGED <<undef, todo, jobsqueue, currentjobs>>
    BY <1>2 DEF CheckCrawl, UpdateCrawlID, ChangeCrawlID, SetCrawlID, db, ghosts
  <2>2. \E place : Goto(t, place, job[t])
    BY <1>2 DEF CheckCrawl, UpdateCrawlID, ChangeCrawlID, SetCrawlID
  <2>3. HandsFew => HandsFew'
    BY <1>0, <2>2, HandsGoto DEF HandsFew
  <2> QED BY <2>1, <2>3 DEF RetryInv, Few, CopiesFew
<1> QED BY <1>1, <1>2

\* updateCurrentJobs works on copies of rows; one retry more only while RetriesLeft.
LEMMA RetrySweep ==
  ASSUME TypeInv, RetryInv, NEW s \in Sweeper,
         SweepSelect(s) \/ SweepClock(s) \/ SweepEnd(s) \/ SweepFail(s) \/ SweepDelete(s)
  PROVE  RetryInv'
<1>0. TypeOK /\ s \in Proc /\ job[s] \in LocalJobs /\ todo \in [Sweeper -> SUBSET CurrentRows]
  BY DEF TypeInv, TypeOK, Proc
<1>1. UNCHANGED <<undef, jobsqueue>>
  BY DEF SweepSelect, SweepClock, SweepEnd, SweepFail, SweepDelete, db, ghosts
<1> SUFFICES ASSUME Few(jobsqueue), Few(currentjobs), HandsFew, CopiesFew
             PROVE  Few(currentjobs') /\ HandsFew' /\ CopiesFew'
  BY <1>1 DEF RetryInv, Few
<1>2. job[s].retries <= MAX_JOB_RETRIES
  BY <1>0 DEF HandsFew
<1>3. CASE SweepSelect(s) \/ SweepClock(s) \/ SweepEnd(s)
  <2>1. currentjobs' = currentjobs /\ \E place : Goto(s, place, job[s])
    BY <1>3 DEF SweepSelect, SweepClock, SweepEnd, db
  <2>2. /\ \A u \in Sweeper \ {s} : todo'[u] = todo[u]
        /\ todo'[s] \subseteq todo[s] \/ todo'[s] \subseteq currentjobs
    BY <1>0, <1>3 DEF SweepSelect, SweepClock, SweepEnd
  <2>3. CopiesFew'
    BY <2>2 DEF CopiesFew, Few
  <2> QED BY <1>0, <1>2, <2>1, <2>3, HandsGoto
<1>4. CASE SweepFail(s)
  <2>1. PICK row \in todo[s] : /\ todo' = [todo EXCEPT ![s] = @ \ {row}]
                               /\ Goto(s, "swDel", row)
                               /\ currentjobs' = currentjobs
    BY <1>4 DEF SweepFail
  <2>2. row.retries <= MAX_JOB_RETRIES
    BY DEF CopiesFew, Few
  <2>3. CopiesFew'
    BY <1>0, <2>1 DEF CopiesFew, Few
  <2> QED BY <1>0, <2>1, <2>2, <2>3, HandsGoto
<1>5. CASE SweepDelete(s)
  <2>1. /\ currentjobs' = currentjobs \/ currentjobs' = CurrentWithout(job[s].jobid)
        /\ todo' = todo
        /\ IF RetriesLeft(job[s]) THEN Goto(s, "upload", [job[s] EXCEPT !.retries = @ + 1])
                                  ELSE Goto(s, "sweep", job[s])
    BY <1>5 DEF SweepDelete
  <2>2. RetriesLeft(job[s]) => [job[s] EXCEPT !.retries = @ + 1].retries <= MAX_JOB_RETRIES
    BY <1>0, LimitAssumption DEF RetriesLeft, LocalJobs
  <2>3. Few(currentjobs')
    BY <2>1 DEF Few, CurrentWithout
  <2> QED BY <1>0, <1>2, <2>1, <2>2, <2>3, HandsGoto DEF CopiesFew
<1> QED BY <1>3, <1>4, <1>5

LEMMA RetryRestart ==
  ASSUME RetryInv, NEW b, NEW c, Restart(b, c) PROVE RetryInv'
<1>1. UNCHANGED <<undef, jobsqueue, currentjobs>>
  BY DEF Restart, db
<1>2. HandsFew' /\ CopiesFew'
  BY NoJobFew DEF Restart, HandsFew, CopiesFew, Few
<1> QED BY <1>1, <1>2 DEF RetryInv, Few

\* Once an uninitialised Job has been used it stays so.
LEMMA UndefStays ==
  ASSUME [Next]_vars, undef PROVE undef'
<1>1. CASE \E t \in Thread : Request(t)
  <2>1. PICK t, r, place : Begin(t, r, place)
    BY <1>1 DEF Request, RequestGetJob, RequestUpdateJob, RequestFinishJob,
                RequestUploadJob, RequestCrawlData
  <2> QED BY <2>1 DEF Begin, ghosts
<1>2. ASSUME NEW t, NextJob(t) \/ InsertJob(t) \/ CountUp(t) PROVE undef'
  BY <1>2 DEF NextJob, InsertJob, CountUp, ghosts
<1>3. ASSUME NEW b, NEW c, Restart(b, c) PROVE undef'
  BY <1>3 DEF Restart
<1>4. CASE \E t \in Thread : Handle(t)
  <2>1. PICK t \in Thread : Handle(t)
    BY <1>4
  <2>2. CASE GetCurrentJob(t)
    BY <2>2, Zenon DEF GetCurrentJob
  <2>3. CASE LockJobmtx(t) \/ CountFree(t) \/ CountBusy(t) \/ CountAgain(t)
             \/ SelectTopJob(t) \/ AddTopToCurrent(t) \/ DeleteTopJob(t)
    BY <2>3 DEF LockJobmtx, CountFree, CountBusy, CountAgain, SelectTopJob, AddTopToCurrent,
                DeleteTopJob, ghosts
  <2>4. CASE CheckTime(t) \/ DeleteCurrentJob(t) \/ RenewCurrentJob(t) \/ AddFailedJob(t)
    BY <2>4 DEF CheckTime, DeleteCurrentJob, RenewCurrentJob, AddFailedJob, ghosts
  <2>5. CASE CheckCrawl(t) \/ UpdateCrawlID(t) \/ ChangeCrawlID(t) \/ SetCrawlID(t)
    BY <2>5 DEF CheckCrawl, UpdateCrawlID, ChangeCrawlID, SetCrawlID, ghosts
  <2>6. CASE SelectFromEmptyQueue(t)
    BY <1>3, <2>6, Zenon DEF SelectFromEmptyQueue
  <2> QED BY <1>2, <2>1, <2>2, <2>3, <2>4, <2>5, <2>6, Zenon DEF Handle
<1>5. CASE \E s \in Sweeper : Sweep(s)
  <2>1. PICK s \in Sweeper : Sweep(s)
    BY <1>5
  <2>2. CASE SweepSelect(s) \/ SweepClock(s) \/ SweepEnd(s) \/ SweepFail(s) \/ SweepDelete(s)
    BY <2>2 DEF SweepSelect, SweepClock, SweepEnd, SweepFail, SweepDelete, ghosts
  <2> QED BY <1>2, <2>1, <2>2, Zenon DEF Sweep
<1>6. CASE Crash
  BY <1>3, <1>6, Zenon DEF Crash
<1>7. CASE Tick \/ UNCHANGED vars
  BY <1>7 DEF Tick, vars, ghosts
<1> QED BY <1>1, <1>4, <1>5, <1>6, <1>7, Zenon DEF Next

LEMMA RetryStep ==
  ASSUME TypeInv, RetryInv, [Next]_vars PROVE RetryInv'
<1>1. CASE \E t \in Thread : Request(t)
  BY <1>1, RetryQuiet
<1>2. CASE \E t \in Thread : Handle(t)
  <2>1. PICK t \in Thread : Handle(t)
    BY <1>2
  <2>2. t \in Proc
    BY DEF Proc
  <2>3. CASE SelectFromEmptyQueue(t)
    BY <2>3, RetryRestart, Zenon DEF SelectFromEmptyQueue
  <2> QED BY <2>1, <2>2, <2>3, RetryGetJob, RetryFinish, RetryUpload, RetryQuiet DEF Handle
<1>3. CASE \E s \in Sweeper : Sweep(s)
  <2>1. PICK s \in Sweeper : Sweep(s)
    BY <1>3
  <2>2. s \in Proc
    BY DEF Proc
  <2> QED BY <2>1, <2>2, RetrySweep, RetryUpload DEF Sweep
<1>4. CASE Crash
  BY <1>4, RetryRestart, Zenon DEF Crash
<1>5. CASE Tick \/ UNCHANGED vars
  <2>1. UNCHANGED <<undef, todo, jobsqueue, currentjobs, job>>
    BY <1>5 DEF Tick, vars, db, local, ghosts
  <2> QED BY <2>1 DEF RetryInv, Few, HandsFew, CopiesFew
<1> QED BY <1>1, <1>2, <1>3, <1>4, <1>5 DEF Next

\* No row carries more retries than MAX_JOB_RETRIES, for any number of handlers, sweeps,
\* failed queries and restarts, as long as no uninitialised Job was used.
THEOREM RetriesAlwaysBounded == Spec => []RetriesBounded
<1>1. TypeInv /\ RetryInv /\ [Next]_vars => RetryInv'
  BY RetryStep
<1>2. RetryInv => RetriesBounded
  BY DEF RetryInv, Few, RetriesBounded
<1> QED BY <1>1, <1>2, TypeInvariant, RetryInit, PTL DEF Spec

(***************************************************************************)
(* RetryHasFailureRecord.  A failure is recorded before the job goes back   *)
(* to the queue, by a finish request (addFail, then upload) as by a sweep   *)
(* (sweep, swDel, upload).  Every copy of a job on a retry therefore has a  *)
(* record already, the one a thread is about to write included.             *)
(***************************************************************************)
Recorded(fs, id) == \E f \in fs : f[1] = id

RowsRecorded(fs, rows) == \A row \in rows : row.retries > 0 => Recorded(fs, row.jobid)

HandRecorded(t) ==
  /\ job[t].retries > 0 \/ pc[t] = "swDel" => Recorded(failedjobs, job[t].jobid)
  /\ pc[t] = "addFail" => job[t].jobid # NoId
  /\ pc[t] \in Asking => ~IsNew(t)
  /\ pc[t] \in Putting /\ IsNew(t) => job[t].jobid = NoId

Undisturbed == faults = 0 /\ ~undef

RecordInv ==
  Undisturbed =>
    /\ RowsRecorded(failedjobs, jobsqueue) /\ RowsRecorded(failedjobs, currentjobs)
    /\ \A s \in Sweeper : RowsRecorded(failedjobs, todo[s])
    /\ \A t \in Proc : HandRecorded(t)

LEMMA SpendRecord ==
  ASSUME TypeOK, NEW o, Spend(o), faults' = 0 PROVE o = "ok" /\ faults = 0
  BY DEF TypeOK, Spend

LEMMA RecordInit == Init => RecordInv
<1> SUFFICES ASSUME Init PROVE RecordInv
  OBVIOUS
<1>1. RowsRecorded(failedjobs, jobsqueue)
  <2>1. PICK p, d : jobsqueue = {[jobid |-> x, priority |-> p[x], retries |-> 0,
                                  timeout |-> d[x]] : x \in InitQueue}
    BY DEF Init
  <2>2. \A row \in jobsqueue : row.retries = 0
    BY <2>1
  <2> QED BY <2>2 DEF RowsRecorded
<1>2. RowsRecorded(failedjobs, currentjobs) /\ \A s \in Sweeper : RowsRecorded(failedjobs, todo[s])
  BY DEF Init, RowsRecorded
<1>3. \A t \in Proc : job[t].retries = 0 /\ pc[t] \in {"sleep", "idle"}
  BY DEF Init, NoJob
<1>4. \A t \in Proc : HandRecorded(t)
  BY <1>3 DEF HandRecorded, Asking, Putting
<1> QED BY <1>1, <1>2, <1>4 DEF RecordInv

\* What is left to show of RecordInv after a step of t: records are never deleted.
LEMMA RecordGrow ==
  ASSUME TypeOK, RecordInv, Undisturbed, NEW t \in Proc, failedjobs \subseteq failedjobs',
         \A u \in Proc \ {t} : pc'[u] = pc[u] /\ job'[u] = job[u] /\ req'[u] = req[u],
         \A row \in jobsqueue' : row.retries > 0 => row \in jobsqueue \/ Recorded(failedjobs', row.jobid),
         \A row \in currentjobs' : row.retries > 0 => row \in currentjobs \/ Recorded(failedjobs', row.jobid),
         \A s \in Sweeper : todo'[s] \subseteq todo[s] \cup currentjobs,
         HandRecorded(t)'
  PROVE  RecordInv'
<1>1. \A id : Recorded(failedjobs, id) => Recorded(failedjobs', id)
  BY DEF Recorded
<1>2. /\ RowsRecorded(failedjobs, jobsqueue) /\ RowsRecorded(failedjobs, currentjobs)
      /\ \A s \in Sweeper : RowsRecorded(failedjobs, todo[s])
      /\ \A u \in Proc : HandRecorded(u)
  BY Zenon DEF RecordInv
<1>3. RowsRecorded(failedjobs, jobsqueue)' /\ RowsRecorded(failedjobs, currentjobs)'
  BY <1>1, <1>2, Zenon DEF RowsRecorded
<1>4. \A s \in Sweeper : RowsRecorded(failedjobs, todo[s])'
  BY <1>1, <1>2, Zenon DEF RowsRecorded
<1>5. ASSUME NEW u \in Proc, u # t PROVE HandRecorded(u)'
  <2>1. pc'[u] = pc[u] /\ job'[u] = job[u] /\ req'[u] = req[u] /\ HandRecorded(u)
    BY <1>2, <1>5
  <2> QED BY <1>1, <2>1, Zenon DEF HandRecorded, IsNew
<1> QED BY <1>3, <1>4, <1>5, Zenon DEF RecordInv

LEMMA HandGoto ==
  ASSUME TypeOK, NEW t \in Proc, NEW place, NEW j, Goto(t, place, j),
         place \notin Jobless /\ (j.retries > 0 \/ place = "swDel") => Recorded(failedjobs', j.jobid),
         place = "addFail" => j.jobid # NoId,
         place \in Asking => ~IsNew(t),
         place \in Putting /\ IsNew(t) => j.jobid = NoId
  PROVE  /\ HandRecorded(t)'
         /\ \A u \in Proc \ {t} : pc'[u] = pc[u] /\ job'[u] = job[u] /\ req'[u] = req[u]
<1>1. /\ \A u \in Proc \ {t} : pc'[u] = pc[u] /\ job'[u] = job[u] /\ req'[u] = req[u]
      /\ pc'[t] = place /\ job'[t] = IF place \in Jobless THEN NoJob ELSE j
      /\ req'[t] = IF place = "idle" THEN NoReq ELSE req[t]
  BY DEF Goto, TypeOK
<1>2. place # "idle" => IsNew(t)' = IsNew(t)
  BY <1>1 DEF IsNew
<1>3. NoJob.retries = 0 /\ NoJob.jobid = NoId
  BY DEF NoJob
<1>4. CASE place \in Jobless
  <2>1. job'[t].retries = 0 /\ pc'[t] \notin Putting \cup {"swDel", "addFail"}
    BY <1>1, <1>3, <1>4 DEF Jobless, Putting
  <2>2. pc'[t] \in Asking => ~IsNew(t)'
    BY <1>1, <1>2 DEF Asking
  <2> QED BY <1>1, <2>1, <2>2 DEF HandRecorded
<1>5. CASE place \notin Jobless
  <2>1. place # "idle" /\ job'[t] = j /\ pc'[t] = place
    BY <1>1, <1>5 DEF Jobless
  <2>2. job'[t].retries > 0 \/ pc'[t] = "swDel" => Recorded(failedjobs', job'[t].jobid)
    BY <1>5, <2>1
  <2>3. pc'[t] = "addFail" => job'[t].jobid # NoId
    BY <2>1
  <2>4. pc'[t] \in Asking => ~IsNew(t)'
    BY <1>2, <2>1
  <2>5. pc'[t] \in Putting /\ IsNew(t)' => job'[t].jobid = NoId
    BY <1>2, <2>1
  <2>6. HandRecorded(t)'
    BY <2>2, <2>3, <2>4, <2>5, Zenon DEF HandRecorded
  <2> QED BY <1>1, <2>6
<1> QED BY <1>1, <1>4, <1>5

\* The same for a query that succeeded, which is the only kind while nothing failed.
LEMMA HandAfter ==
  ASSUME TypeOK, NEW t \in Proc, NEW next, NEW first, NEW giveUp, NEW j,
         AfterQuery(t, "ok", next, first, giveUp, j),
         next \notin Jobless /\ (j.retries > 0 \/ next = "swDel") => Recorded(failedjobs', j.jobid),
         next = "addFail" => j.jobid # NoId,
         next \in Asking => ~IsNew(t),
         next \in Putting /\ IsNew(t) => j.jobid = NoId
  PROVE  /\ HandRecorded(t)'
         /\ \A u \in Proc \ {t} : pc'[u] = pc[u] /\ job'[u] = job[u] /\ req'[u] = req[u]
<1>1. Goto(t, next, j)
  BY DEF AfterQuery
<1> HIDE DEF AfterQuery
<1> QED BY <1>1, HandGoto

\* What RecordInv says of thread t while nothing failed.
LEMMA RecordParts ==
  ASSUME RecordInv, Undisturbed, NEW t \in Proc
  PROVE  /\ RowsRecorded(failedjobs, jobsqueue) /\ RowsRecorded(failedjobs, currentjobs)
         /\ \A s \in Sweeper : RowsRecorded(failedjobs, todo[s])
         /\ job[t].retries > 0 \/ pc[t] = "swDel" => Recorded(failedjobs, job[t].jobid)
         /\ pc[t] = "addFail" => job[t].jobid # NoId
         /\ pc[t] \in Asking => ~IsNew(t)
         /\ pc[t] \in Putting /\ IsNew(t) => job[t].jobid = NoId
  BY Zenon DEF RecordInv, HandRecorded

\* handleGetJobRequest
LEMMA RecordGetJob ==
  ASSUME TypeInv, RecordInv, NEW t \in Thread,
         \/ LockJobmtx(t) \/ CountFree(t) \/ CountBusy(t) \/ CountAgain(t)
         \/ SelectTopJob(t) \/ AddTopToCurrent(t) \/ DeleteTopJob(t)
  PROVE  RecordInv'
<1>0. t \in Proc /\ TypeOK /\ job[t] \in LocalJobs /\ faults \in Nat
  BY DEF TypeInv, TypeOK, Proc
<1>1. UNCHANGED <<undef, todo, failedjobs>>
  BY DEF LockJobmtx, CountFree, CountBusy, CountAgain, SelectTopJob, AddTopToCurrent,
         DeleteTopJob, ghosts, db
<1> SUFFICES ASSUME Undisturbed' PROVE RecordInv'
  BY Zenon DEF RecordInv
<1>2. faults' = 0 /\ undef = FALSE
  BY <1>0, <1>1 DEF Undisturbed, TypeInv, TypeOK
<1>3. /\ failedjobs \subseteq failedjobs' /\ \A id : Recorded(failedjobs, id) => Recorded(failedjobs', id)
      /\ \A s \in Sweeper : todo'[s] \subseteq todo[s] \cup currentjobs
  BY <1>1, Zenon DEF Recorded
<1>4. CASE LockJobmtx(t) \/ CountFree(t) \/ CountBusy(t) \/ CountAgain(t)
  <2>1. UNCHANGED <<jobsqueue, currentjobs>>
        /\ \E place \in {"countBusy", "countFree", "top", "idle", "countAgain"} :
             Goto(t, place, job[t])
    BY <1>4 DEF LockJobmtx, CountFree, CountBusy, CountAgain, db
  <2>2. faults = 0
    <3>1. faults' = faults \/ Spend("lost")
      BY <1>4, Zenon DEF LockJobmtx, CountFree, CountBusy, CountAgain, GetNumberOfJobs, world
    <3> QED BY <1>0, <1>2, <3>1, SpendRecord
  <2>3. Undisturbed
    BY <1>2, <2>2 DEF Undisturbed
  <2>4. PICK place \in {"countBusy", "countFree", "top", "idle", "countAgain"} :
           Goto(t, place, job[t])
    BY <2>1
  <2>5. job[t].retries > 0 => Recorded(failedjobs', job[t].jobid)
    BY <1>0, <1>3, <2>3, RecordParts
  <2>6. place # "swDel" /\ place # "addFail" /\ place \notin Asking /\ place \notin Putting
    BY DEF Asking, Putting
  <2>7. /\ HandRecorded(t)'
        /\ \A u \in Proc \ {t} : pc'[u] = pc[u] /\ job'[u] = job[u] /\ req'[u] = req[u]
    BY <1>0, <2>4, <2>5, <2>6, HandGoto
  <2> QED BY <1>0, <1>3, <2>1, <2>3, <2>7, RecordGrow
<1>5. CASE SelectTopJob(t)
  <2>1. UNCHANGED <<jobsqueue, currentjobs>>
    BY <1>5 DEF SelectTopJob, db
  <2>2. \/ \E row \in TopRows : /\ AfterQuery(t, "ok", "addCur", "top", "idle", JobOf(row))
                                /\ faults' = faults
        \/ Spend("lost")
    BY <1>5 DEF SelectTopJob
  <2>3. ~Spend("lost")
    BY <1>0, <1>2, SpendRecord
  <2>4. PICK row \in TopRows : /\ AfterQuery(t, "ok", "addCur", "top", "idle", JobOf(row))
                               /\ faults' = faults
    BY <2>2, <2>3
  <2>5. Undisturbed
    BY <1>2, <2>4 DEF Undisturbed
  <2>6. JobOf(row).retries > 0 => Recorded(failedjobs', JobOf(row).jobid)
    <3>1. row \in jobsqueue /\ JobOf(row).retries = row.retries /\ JobOf(row).jobid = row.jobid
      BY DEF TopRows, JobOf
    <3> QED BY <1>0, <1>3, <2>5, <3>1, RecordParts, Zenon DEF RowsRecorded
  <2>7. /\ HandRecorded(t)'
        /\ \A u \in Proc \ {t} : pc'[u] = pc[u] /\ job'[u] = job[u] /\ req'[u] = req[u]
    BY <1>0, <2>4, <2>6, HandAfter DEF Asking, Putting
  <2> QED BY <1>0, <1>3, <2>1, <2>5, <2>7, RecordGrow
<1>6. CASE AddTopToCurrent(t)
  <2>1. PICK o, stamp :
           /\ Spend(o)
           /\ AfterQuery(t, o, "delTop", "top", "idle", [job[t] EXCEPT !.time = stamp])
           /\ currentjobs' = IF o = "lost" THEN currentjobs
                             ELSE CurrentWith([job[t] EXCEPT !.time = stamp])
           /\ jobsqueue' = jobsqueue
    BY <1>6 DEF AddTopToCurrent
  <2> DEFINE row == [job[t] EXCEPT !.time = stamp]
  <2>2. row.retries = job[t].retries /\ row.jobid = job[t].jobid
    BY <1>0 DEF LocalJobs
  <2>3. o = "ok" /\ faults = 0
    BY <1>0, <1>2, <2>1, SpendRecord
  <2>4. Undisturbed
    BY <1>2, <2>3 DEF Undisturbed
  <2>5. AfterQuery(t, "ok", "delTop", "top", "idle", row) /\ currentjobs' = CurrentWith(row)
    BY <2>1, <2>3
  <2>6. row.retries > 0 => Recorded(failedjobs', row.jobid)
    BY <1>0, <1>3, <2>2, <2>4, RecordParts
  <2> HIDE DEF row
  <2>7. /\ HandRecorded(t)'
        /\ \A u \in Proc \ {t} : pc'[u] = pc[u] /\ job'[u] = job[u] /\ req'[u] = req[u]
    BY <1>0, <2>5, <2>6, HandAfter DEF Asking, Putting
  <2>8. \A r \in currentjobs' : r.retries > 0 => r \in currentjobs \/ Recorded(failedjobs', r.jobid)
    BY <2>5, <2>6, Zenon DEF CurrentWith
  <2> QED BY <1>0, <1>3, <2>1, <2>4, <2>7, <2>8, RecordGrow
<1>7. CASE DeleteTopJob(t)
  <2>1. PICK o : /\ Spend(o)
                 /\ AfterQuery(t, o, "idle", "top", "idle", job[t])
                 /\ jobsqueue' = IF o = "lost" THEN jobsqueue
                                 ELSE QueueWithout(job[t].jobid, job[t].priority)
                 /\ currentjobs' = currentjobs
    BY <1>7 DEF DeleteTopJob
  <2>2. o = "ok" /\ faults = 0
    BY <1>0, <1>2, <2>1, SpendRecord
  <2>3. Undisturbed
    BY <1>2, <2>2 DEF Undisturbed
  <2>4. jobsqueue' \subseteq jobsqueue
    BY <2>1 DEF QueueWithout
  <2>5. /\ HandRecorded(t)'
        /\ \A u \in Proc \ {t} : pc'[u] = pc[u] /\ job'[u] = job[u] /\ req'[u] = req[u]
    BY <1>0, <2>1, <2>2, HandAfter DEF Asking, Putting, Jobless
  <2> QED BY <1>0, <1>3, <2>1, <2>3, <2>4, <2>5, RecordGrow
<1> QED BY <1>4, <1>5, <1>6, <1>7

\* Steps that leave the tables and the copies of a sweep alone and go on with the job
\* in hand, or without one.
LEMMA RecordMove ==
  ASSUME TypeInv, RecordInv, Undisturbed, NEW t \in Proc, NEW place,
         UNCHANGED <<jobsqueue, currentjobs, failedjobs, todo>>, Goto(t, place, job[t]),
         place \notin {"swDel", "addFail"},
         place \in Asking => ~IsNew(t),
         place \in Putting => pc[t] \in Putting
  PROVE  RecordInv'
<1>0. TypeOK
  BY DEF TypeInv
<1>1. /\ failedjobs \subseteq failedjobs'
      /\ \A s \in Sweeper : todo'[s] \subseteq todo[s] \cup currentjobs
  OBVIOUS
<1>2. job[t].retries > 0 => Recorded(failedjobs', job[t].jobid)
  BY RecordParts
<1>3. place \in Putting /\ IsNew(t) => job[t].jobid = NoId
  BY RecordParts
<1>4. /\ HandRecorded(t)'
      /\ \A u \in Proc \ {t} : pc'[u] = pc[u] /\ job'[u] = job[u] /\ req'[u] = req[u]
  BY <1>0, <1>2, <1>3, HandGoto
<1> QED BY <1>0, <1>1, <1>4, RecordGrow

\* handleUpdateJobRequest and handleFinishJobRequest: addFailedJob comes before the job
\* goes back to the queue, and it writes the id of the job in hand.
LEMMA RecordFinish ==
  ASSUME TypeInv, RecordInv, NEW t \in Thread,
         \/ CheckTime(t) \/ GetCurrentJob(t) \/ DeleteCurrentJob(t)
         \/ RenewCurrentJob(t) \/ AddFailedJob(t)
  PROVE  RecordInv'
<1>0. /\ t \in Proc /\ TypeOK /\ job[t] \in LocalJobs /\ faults \in Nat
      /\ undef \in BOOLEAN /\ currentjobs \subseteq CurrentRows
  BY DEF TypeInv, TypeOK, Proc
<1>1. todo' = todo /\ jobsqueue' = jobsqueue
  BY DEF CheckTime, GetCurrentJob, DeleteCurrentJob, RenewCurrentJob, AddFailedJob, db
<1> SUFFICES ASSUME Undisturbed' PROVE RecordInv'
  BY Zenon DEF RecordInv
<1>2. faults' = 0 /\ undef' # TRUE
  BY DEF Undisturbed
<1>3. \A s \in Sweeper : todo'[s] \subseteq todo[s] \cup currentjobs
  BY <1>1, Zenon
<1>4. CASE CheckTime(t)
  <2>1. PICK o : /\ Spend(o) /\ undef' = undef
                 /\ UNCHANGED <<jobsqueue, currentjobs, failedjobs, todo>>
                 /\ \E next \in {"getCur", "idle"} :
                      AfterQuery(t, o, next, "time", "idle", job[t])
    BY <1>4 DEF CheckTime, db, ghosts
  <2>2. o = "ok" /\ Undisturbed
    BY <1>0, <1>2, <2>1, SpendRecord DEF Undisturbed
  <2>3. PICK next \in {"getCur", "idle"} : Goto(t, next, job[t])
    BY <2>1, <2>2 DEF AfterQuery
  <2>4. ~IsNew(t)
    <3>1. pc[t] \in Asking
      BY <1>4 DEF CheckTime, Asking
    <3> QED BY <1>0, <2>2, <3>1, RecordParts
  <2>5. next \notin {"swDel", "addFail"} /\ next \notin Putting
    BY DEF Putting
  <2> QED BY <1>0, <2>1, <2>2, <2>3, <2>4, <2>5, RecordMove
<1>5. CASE GetCurrentJob(t)
  <2>0. UNCHANGED <<jobsqueue, currentjobs, failedjobs, todo>>
    BY <1>5 DEF GetCurrentJob, db
  <2>1. pc[t] \in Asking
    BY <1>5 DEF GetCurrentJob, Asking
  <2>2. CASE \E row \in CurrentOf(req[t].jobid) :
               AfterQuery(t, "ok", "delCur", "getCur", "idle", row) /\ UNCHANGED <<faults, undef>>
    <3>1. PICK row \in CurrentOf(req[t].jobid) :
             AfterQuery(t, "ok", "delCur", "getCur", "idle", row)
      BY <2>2
    <3>2. Undisturbed /\ row \in currentjobs
      BY <1>2, <2>2, <3>1 DEF CurrentOf, Undisturbed
    <3>3. row.retries > 0 => Recorded(failedjobs', row.jobid)
      BY <1>0, <2>0, <3>2, RecordParts DEF RowsRecorded
    <3>4. ~IsNew(t)
      BY <1>0, <2>1, <3>2, RecordParts
    <3>5. /\ HandRecorded(t)'
          /\ \A u \in Proc \ {t} : pc'[u] = pc[u] /\ job'[u] = job[u] /\ req'[u] = req[u]
      BY <1>0, <3>1, <3>3, <3>4, HandAfter
    <3> QED BY <1>0, <1>3, <2>0, <3>2, <3>5, RecordGrow
  <2>3. CASE \E j \in Junk : /\ AfterQuery(t, "ok", AfterGet(req[t]), "getCur", "idle", j)
                             /\ undef' = (undef \/ AfterGet(req[t]) # "idle")
                             /\ UNCHANGED faults
    <3>1. AfterGet(req[t]) = "idle" /\ Undisturbed
      BY <1>2, <2>3 DEF Undisturbed
    <3>2. PICK j : AfterQuery(t, "ok", "idle", "getCur", "idle", j)
      BY <2>3, <3>1
    <3>3. /\ HandRecorded(t)'
          /\ \A u \in Proc \ {t} : pc'[u] = pc[u] /\ job'[u] = job[u] /\ req'[u] = req[u]
      BY <1>0, <3>2, HandAfter DEF Jobless, Asking, Putting
    <3> QED BY <1>0, <1>3, <2>0, <3>1, <3>3, RecordGrow
  <2>4. ~Spend("lost")
    BY <1>0, <1>2, SpendRecord
  <2> QED BY <1>5, <2>2, <2>3, <2>4 DEF GetCurrentJob
<1>6. CASE DeleteCurrentJob(t) \/ RenewCurrentJob(t) \/ AddFailedJob(t)
  <2>0. undef' = undef /\ pc[t] \in Asking
    BY <1>6 DEF DeleteCurrentJob, RenewCurrentJob, AddFailedJob, Asking
  <2>1. CASE DeleteCurrentJob(t)
    <3>1. PICK o : /\ Spend(o)
                   /\ AfterQuery(t, o, AfterGet(req[t]), "getCur", AfterGet(req[t]), job[t])
                   /\ currentjobs' = IF o = "lost" THEN currentjobs ELSE CurrentWithout(req[t].jobid)
                   /\ failedjobs' = failedjobs
      BY <2>1 DEF DeleteCurrentJob
    <3>2. o = "ok" /\ Undisturbed
      BY <1>0, <1>2, <2>0, <3>1, SpendRecord DEF Undisturbed
    <3>3. currentjobs' \subseteq currentjobs
      BY <3>1 DEF CurrentWithout
    <3>4. job[t].jobid # NoId
      BY <1>0, <2>1, IdAssumption DEF DeleteCurrentJob, TypeInv, LocalsOK
    <3>5. job[t].retries > 0 => Recorded(failedjobs', job[t].jobid)
      BY <1>0, <3>1, <3>2, RecordParts
    <3>6. ~IsNew(t)
      BY <1>0, <2>0, <3>2, RecordParts
    <3>7. AfterGet(req[t]) # "swDel" /\ AfterGet(req[t]) \notin Putting
      BY DEF AfterGet, Putting
    <3>8. /\ HandRecorded(t)'
          /\ \A u \in Proc \ {t} : pc'[u] = pc[u] /\ job'[u] = job[u] /\ req'[u] = req[u]
      BY <1>0, <3>1, <3>2, <3>4, <3>5, <3>6, <3>7, HandAfter
    <3> QED BY <1>0, <1>1, <1>3, <3>1, <3>2, <3>3, <3>8, RecordGrow
  <2>2. CASE RenewCurrentJob(t)
    <3>1. PICK o, stamp, id :
             /\ Spend(o) /\ id \in UuidOf(job[t])
             /\ AfterQuery(t, o, "idle", "putCur", "idle", job[t])
             /\ currentjobs' = IF o = "lost" THEN currentjobs
                               ELSE CurrentWith([job[t] EXCEPT !.jobid = id, !.time = stamp])
             /\ failedjobs' = failedjobs
      BY <2>2 DEF RenewCurrentJob
    <3> DEFINE row == [job[t] EXCEPT !.jobid = id, !.time = stamp]
    <3>2. o = "ok" /\ Undisturbed
      BY <1>0, <1>2, <2>0, <3>1, SpendRecord DEF Undisturbed
    <3>3. row.retries = job[t].retries /\ row.jobid = id
      BY <1>0 DEF LocalJobs
    <3>4. row.retries > 0 => Recorded(failedjobs', row.jobid)
      <4>1. job[t].retries > 0 => Recorded(failedjobs, job[t].jobid)
        BY <1>0, <3>2, RecordParts
      <4>2. Recorded(failedjobs, job[t].jobid) => job[t].jobid # NoId
        BY <1>0, IdAssumption DEF Recorded, TypeOK
      <4>3. job[t].jobid # NoId => id = job[t].jobid
        BY <3>1 DEF UuidOf
      <4> HIDE DEF row
      <4> QED BY <3>1, <3>3, <4>1, <4>2, <4>3
    <3>5. currentjobs' = CurrentWith(row)
      BY <3>1, <3>2
    <3> HIDE DEF row
    <3>6. \A r \in currentjobs' : r.retries > 0 => r \in currentjobs \/ Recorded(failedjobs', r.jobid)
      BY <3>4, <3>5, Zenon DEF CurrentWith
    <3>7. /\ HandRecorded(t)'
          /\ \A u \in Proc \ {t} : pc'[u] = pc[u] /\ job'[u] = job[u] /\ req'[u] = req[u]
      BY <1>0, <3>1, <3>2, HandAfter DEF Jobless, Asking, Putting
    <3> QED BY <1>0, <1>1, <1>3, <3>1, <3>2, <3>6, <3>7, RecordGrow
  <2>3. CASE AddFailedJob(t)
    <3>1. PICK o, id :
             /\ Spend(o) /\ id \in UuidOf(job[t])
             /\ IF o = "ok" /\ Retryable(job[t], req[t].reason)
                THEN AfterQuery(t, o, "upload", "addFail", "idle",
                                [job[t] EXCEPT !.retries = @ + 1])
                ELSE AfterQuery(t, o, "idle", "addFail", "idle", job[t])
             /\ failedjobs' = IF o = "lost" THEN failedjobs
                              ELSE failedjobs \cup {<<id, job[t].time>>}
             /\ currentjobs' = currentjobs
      BY <2>3 DEF AddFailedJob
    <3>2. o = "ok" /\ Undisturbed
      BY <1>0, <1>2, <2>0, <3>1, SpendRecord DEF Undisturbed
    <3>3. id = job[t].jobid /\ ~IsNew(t)
      <4>1. pc[t] = "addFail"
        BY <2>3 DEF AddFailedJob
      <4>2. job[t].jobid # NoId /\ ~IsNew(t)
        BY <1>0, <2>0, <3>2, <4>1, RecordParts
      <4> QED BY <3>1, <4>2 DEF UuidOf
    <3>4. Recorded(failedjobs', job[t].jobid) /\ failedjobs \subseteq failedjobs'
      <4>1. failedjobs' = failedjobs \cup {<<job[t].jobid, job[t].time>>}
        BY <3>1, <3>2, <3>3
      <4>2. <<job[t].jobid, job[t].time>>[1] = job[t].jobid
        OBVIOUS
      <4> QED BY <4>1, <4>2, Zenon DEF Recorded
    <3> DEFINE j == [job[t] EXCEPT !.retries = @ + 1]
    <3>5. j.jobid = job[t].jobid
      BY <1>0 DEF LocalJobs
    <3>6. \/ AfterQuery(t, "ok", "upload", "addFail", "idle", j)
          \/ AfterQuery(t, "ok", "idle", "addFail", "idle", job[t])
      BY <3>1, <3>2
    <3>7. Recorded(failedjobs', j.jobid)
      BY <3>4, <3>5
    <3> HIDE DEF j
    <3>8. /\ HandRecorded(t)'
          /\ \A u \in Proc \ {t} : pc'[u] = pc[u] /\ job'[u] = job[u] /\ req'[u] = req[u]
      <4>1. CASE AfterQuery(t, "ok", "upload", "addFail", "idle", j)
        BY <1>0, <3>3, <3>7, <4>1, HandAfter DEF Asking
      <4>2. CASE AfterQuery(t, "ok", "idle", "addFail", "idle", job[t])
        BY <1>0, <4>2, HandAfter DEF Asking, Jobless, Putting
      <4> QED BY <3>6, <4>1, <4>2
    <3> QED BY <1>0, <1>1, <1>3, <3>1, <3>2, <3>4, <3>8, RecordGrow
  <2> QED BY <1>6, <2>1, <2>2, <2>3
<1> QED BY <1>4, <1>5, <1>6

\* uploadJob: a new job has no id yet and no retries, a retried one has its record.
LEMMA RecordUpload ==
  ASSUME TypeInv, RecordInv, NEW t \in Proc, NextJob(t) \/ InsertJob(t) \/ CountUp(t)
  PROVE  RecordInv'
<1>0. TypeOK /\ job[t] \in LocalJobs /\ faults \in Nat
  BY DEF TypeInv, TypeOK
<1>1. UNCHANGED <<undef, todo, currentjobs, failedjobs>>
  BY DEF NextJob, InsertJob, CountUp, db, ghosts
<1> SUFFICES ASSUME Undisturbed' PROVE RecordInv'
  BY Zenon DEF RecordInv
<1>2. faults' = 0 /\ undef # TRUE
  BY <1>1 DEF Undisturbed
<1>3. /\ failedjobs \subseteq failedjobs'
      /\ \A s \in Sweeper : todo'[s] \subseteq todo[s] \cup currentjobs
  BY <1>1, Zenon
<1>4. CASE NextJob(t)
  <2>1. PICK p, d : job' = [job EXCEPT ![t] = [NoJob EXCEPT !.priority = p, !.timeout = d]]
    BY <1>4 DEF NextJob
  <2>2. /\ jobsqueue' = jobsqueue /\ faults' = faults
        /\ pc' = [pc EXCEPT ![t] = "upload"]
        /\ req' = [req EXCEPT ![t].left = @ - 1]
    BY <1>4 DEF NextJob, db, world
  <2>3. Undisturbed
    BY <1>2, <2>2 DEF Undisturbed
  <2>4. job'[t].retries = 0 /\ job'[t].jobid = NoId /\ pc'[t] = "upload"
    BY <1>0, <2>1, <2>2 DEF NoJob, TypeOK
  <2>5. HandRecorded(t)'
    BY <2>4 DEF HandRecorded, Asking
  <2>6. \A u \in Proc \ {t} : pc'[u] = pc[u] /\ job'[u] = job[u] /\ req'[u] = req[u]
    BY <1>0, <2>1, <2>2 DEF TypeOK
  <2> QED BY <1>0, <1>1, <1>3, <2>2, <2>3, <2>5, <2>6, RecordGrow
<1>5. CASE InsertJob(t)
  <2>1. PICK o, id, p :
           /\ Spend(o)
           /\ id \in IF IsNew(t) THEN Uuid \ used ELSE UuidOf(job[t])
           /\ \/ AfterQuery(t, o, AfterUpload(t), "upload", NoUpload(t), job[t])
              \/ Goto(t, IF o = "ok" THEN "bump" ELSE "bumpErr", job[t])
           /\ jobsqueue' = jobsqueue \/ jobsqueue' = QueueWith(QueueRow(job[t], id, p))
    <3>1. PICK o \in Outcomes, id \in IF IsNew(t) THEN Uuid \ used ELSE UuidOf(job[t]) :
            LET p == IF IsNew(t) THEN now - job[t].priority ELSE job[t].priority
            IN  /\ Spend(o)
                /\ \/ AfterQuery(t, o, AfterUpload(t), "upload", NoUpload(t), job[t])
                   \/ Goto(t, IF o = "ok" THEN "bump" ELSE "bumpErr", job[t])
                /\ jobsqueue' = jobsqueue \/ jobsqueue' = QueueWith(QueueRow(job[t], id, p))
      BY <1>5 DEF InsertJob
    <3> QED BY <3>1
  <2>2. o = "ok" /\ Undisturbed
    BY <1>0, <1>2, <2>1, SpendRecord DEF Undisturbed
  <2>3. /\ job[t].retries > 0 => Recorded(failedjobs', job[t].jobid)
        /\ IsNew(t) => job[t].jobid = NoId
    <3>1. pc[t] \in Putting
      BY <1>5 DEF InsertJob, Putting
    <3> QED BY <1>1, <2>2, <3>1, RecordParts
  <2>4. /\ HandRecorded(t)'
        /\ \A u \in Proc \ {t} : pc'[u] = pc[u] /\ job'[u] = job[u] /\ req'[u] = req[u]
    <3>1. PICK place \in {"bump", AfterUpload(t)} : Goto(t, place, job[t])
      BY <2>1, <2>2 DEF AfterQuery
    <3>2. place \notin Asking /\ place \notin {"swDel", "addFail"}
      BY DEF AfterUpload, Asking
    <3> QED BY <1>0, <2>3, <3>1, <3>2, HandGoto
  <2> DEFINE row == QueueRow(job[t], id, p)
  <2>5. row.retries = job[t].retries /\ row.jobid = id
    BY DEF QueueRow
  <2>6. row.retries > 0 => Recorded(failedjobs', row.jobid)
    <3>1. Recorded(failedjobs', job[t].jobid) => job[t].jobid # NoId
      BY <1>0, <1>1, IdAssumption DEF Recorded, TypeOK
    <3>2. job[t].jobid # NoId => id = job[t].jobid
      BY <2>1, <2>3 DEF UuidOf
    <3> HIDE DEF row
    <3> QED BY <2>3, <2>5, <3>1, <3>2
  <2>7. jobsqueue' = jobsqueue \/ jobsqueue' = QueueWith(row)
    BY <2>1
  <2> HIDE DEF row
  <2>8. \A r \in jobsqueue' : r.retries > 0 => r \in jobsqueue \/ Recorded(failedjobs', r.jobid)
    BY <2>6, <2>7, Zenon DEF QueueWith
  <2> QED BY <1>0, <1>1, <1>3, <2>2, <2>4, <2>8, RecordGrow
<1>6. CASE CountUp(t)
  <2>1. jobsqueue' = jobsqueue /\ faults' = faults /\ pc[t] \in Putting
    BY <1>6 DEF CountUp, db, world, Putting
  <2>2. Undisturbed
    BY <1>2, <2>1 DEF Undisturbed
  <2>3. PICK place \in {"insert", "upload", "idle", "next", "sweep"} : Goto(t, place, job[t])
    BY <1>6 DEF CountUp, AfterQuery, AfterUpload, NoUpload
  <2>4. place \notin {"swDel", "addFail"} /\ place \notin Asking
    BY DEF Asking
  <2> QED BY <1>1, <2>1, <2>2, <2>3, <2>4, RecordMove
<1> QED BY <1>4, <1>5, <1>6

\* Requests and handleCrawlDataRequest.
LEMMA RecordQuiet ==
  ASSUME TypeInv, RecordInv, NEW t \in Thread,
         Request(t) \/ CheckCrawl(t) \/ UpdateCrawlID(t) \/ ChangeCrawlID(t) \/ SetCrawlID(t)
  PROVE  RecordInv'
<1>0. TypeOK /\ t \in Proc /\ faults \in Nat
  BY DEF TypeInv, TypeOK, Proc
<1> SUFFICES ASSUME Undisturbed' PROVE RecordInv'
  BY Zenon DEF RecordInv
<1>1. UNCHANGED <<undef, todo, jobsqueue, currentjobs, failedjobs>>
  <2>1. CASE Request(t)
    <3>1. \E r, place : Begin(t, r, place)
      BY <2>1 DEF Request, RequestGetJob, RequestUpdateJob, RequestFinishJob,
                  RequestUploadJob, RequestCrawlData
    <3> QED BY <3>1 DEF Begin, db, ghosts
  <2> QED BY <2>1 DEF CheckCrawl, UpdateCrawlID, ChangeCrawlID, SetCrawlID, db, ghosts
<1>2. CASE Request(t)
  <2>1. PICK r, place : /\ Begin(t, r, place)
                        /\ place \in {"lock", "time", "next", "check"}
                        /\ place = "time" => r.kind \notin {"upjb", "upcd"}
    <3>1. CASE RequestGetJob(t) \/ RequestUploadJob(t) \/ RequestCrawlData(t)
      <4>1. \E r : Begin(t, r, "lock") \/ Begin(t, r, "next") \/ Begin(t, r, "check")
        BY <3>1, Zenon DEF RequestGetJob, RequestUploadJob, RequestCrawlData
      <4> QED BY <4>1
    <3>2. CASE RequestUpdateJob(t) \/ RequestFinishJob(t)
      <4> DEFINE update(x, y) == [NoReq EXCEPT !.kind = "udjb", !.jobid = x, !.time = y]
                 finish(x, y, z) == [NoReq EXCEPT !.kind = "fnjb", !.jobid = x, !.time = y,
                                                  !.reason = z]
      <4>1. \E x, y, z : Begin(t, update(x, y), "time") \/ Begin(t, finish(x, y, z), "time")
        BY <3>2 DEF RequestUpdateJob, RequestFinishJob
      <4>2. \A x, y, z : update(x, y).kind = "udjb" /\ finish(x, y, z).kind = "fnjb"
        BY DEF NoReq
      <4> HIDE DEF update, finish
      <4>3. \E r : Begin(t, r, "time") /\ r.kind \in {"udjb", "fnjb"}
        BY <4>1, <4>2
      <4> QED BY <4>3
    <3> QED BY <1>2, <3>1, <3>2, Zenon DEF Request
  <2>2. /\ pc[t] = "idle" /\ faults' = faults /\ job' = job
        /\ req' = [req EXCEPT ![t] = r] /\ pc' = [pc EXCEPT ![t] = place]
    BY <2>1 DEF Begin
  <2>3. Undisturbed
    BY <1>1, <2>2 DEF Undisturbed
  <2>4. pc'[t] = place /\ req'[t] = r
    BY <1>0, <2>2 DEF TypeOK
  <2>5. job[t].retries > 0 => Recorded(failedjobs, job[t].jobid)
    BY <1>0, <2>3, RecordParts
  <2>6. HandRecorded(t)'
    <3>1. place \notin Putting \cup {"swDel", "addFail"} /\ (place \in Asking => place = "time")
      BY <2>1 DEF Asking, Putting
    <3>2. place \in Asking => ~IsNew(t)'
      BY <2>1, <2>4, <3>1 DEF IsNew
    <3>3. pc'[t] \notin {"swDel", "addFail"} /\ pc'[t] \notin Putting
      BY <2>4, <3>1
    <3> QED BY <1>1, <2>2, <2>4, <2>5, <3>2, <3>3 DEF HandRecorded
  <2>7. \A u \in Proc \ {t} : pc'[u] = pc[u] /\ job'[u] = job[u] /\ req'[u] = req[u]
    BY <1>0, <2>2 DEF TypeOK
  <2>8. /\ failedjobs \subseteq failedjobs'
        /\ \A s \in Sweeper : todo'[s] \subseteq todo[s] \cup currentjobs
    BY <1>1, Zenon
  <2> QED BY <1>0, <1>1, <2>3, <2>6, <2>7, <2>8, RecordGrow
<1>3. CASE CheckCrawl(t) \/ UpdateCrawlID(t) \/ ChangeCrawlID(t) \/ SetCrawlID(t)
  <2>1. PICK place \in {"setCrawl", "newCrawl", "idle", "storeCrawl", "next"} :
          Goto(t, place, job[t])
    BY <1>3 DEF CheckCrawl, UpdateCrawlID, ChangeCrawlID, SetCrawlID, AfterCrawl
  <2>2. faults = 0
    <3>1. faults' = faults \/ \E o : Spend(o)
      BY <1>3 DEF CheckCrawl, UpdateCrawlID, ChangeCrawlID, SetCrawlID, world
    <3> QED BY <1>0, <3>1, SpendRecord DEF Undisturbed
  <2>3. Undisturbed
    BY <1>1, <2>2 DEF Undisturbed
  <2>4. place \notin {"swDel", "addFail"} /\ place \notin Asking /\ place \notin Putting
    BY DEF Asking, Putting
  <2> QED BY <1>0, <1>1, <2>1, <2>3, <2>4, RecordMove
<1> QED BY <1>2, <1>3

\* updateCurrentJobs: the record is written before the row is deleted and the job put
\* back, and the rows it works on were recorded when it copied them.
LEMMA RecordSweep ==
  ASSUME TypeInv, RecordInv, NEW s \in Sweeper,
         SweepSelect(s) \/ SweepClock(s) \/ SweepEnd(s) \/ SweepFail(s) \/ SweepDelete(s)
  PROVE  RecordInv'
<1>0. /\ TypeOK /\ s \in Proc /\ job[s] \in LocalJobs /\ faults \in Nat
      /\ todo \in [Sweeper -> SUBSET CurrentRows] /\ ~IsNew(s)
  BY ThreadAssumption DEF TypeInv, TypeOK, Proc, IsNew
<1>1. UNCHANGED <<undef, jobsqueue>>
  BY DEF SweepSelect, SweepClock, SweepEnd, SweepFail, SweepDelete, db, ghosts
<1> SUFFICES ASSUME Undisturbed' PROVE RecordInv'
  BY Zenon DEF RecordInv
<1>2. Undisturbed
  <2>1. faults' = faults \/ \E o : Spend(o)
    BY DEF SweepSelect, SweepClock, SweepEnd, SweepFail, SweepDelete, world
  <2> QED BY <1>0, <1>1, <2>1, SpendRecord DEF Undisturbed
<1>3. job[s].retries > 0 \/ pc[s] = "swDel" => Recorded(failedjobs, job[s].jobid)
  BY <1>0, <1>2, RecordParts
<1>4. CASE SweepSelect(s) \/ SweepClock(s) \/ SweepEnd(s)
  <2>1. UNCHANGED <<currentjobs, failedjobs>>
    BY <1>4 DEF SweepSelect, SweepClock, SweepEnd, db
  <2>2. PICK place \in {"clock", "sleep", "sweep"} : Goto(s, place, job[s])
    BY <1>4 DEF SweepSelect, SweepClock, SweepEnd
  <2>3. \A u \in Sweeper : todo'[u] \subseteq todo[u] \cup currentjobs
    BY <1>0, <1>4 DEF SweepSelect, SweepClock, SweepEnd
  <2>4. /\ HandRecorded(s)'
        /\ \A u \in Proc \ {s} : pc'[u] = pc[u] /\ job'[u] = job[u] /\ req'[u] = req[u]
    <3>1. place \notin {"swDel", "addFail"} /\ place \notin Asking /\ place \notin Putting
      BY DEF Asking, Putting
    <3> QED BY <1>0, <1>3, <2>1, <2>2, <3>1, HandGoto
  <2> QED BY <1>0, <1>1, <1>2, <2>1, <2>3, <2>4, RecordGrow
<1>5. CASE SweepFail(s)
  <2>1. PICK row \in todo[s], o \in Outcomes :
           /\ Spend(o)
           /\ todo' = [todo EXCEPT ![s] = @ \ {row}]
           /\ failedjobs' = IF o = "lost" THEN failedjobs
                            ELSE failedjobs \cup {<<row.jobid, row.time>>}
           /\ Goto(s, "swDel", row)
           /\ currentjobs' = currentjobs
    BY <1>5 DEF SweepFail
  <2>2. o = "ok"
    BY <1>0, <2>1, SpendRecord DEF Undisturbed
  <2>3. Recorded(failedjobs', row.jobid) /\ failedjobs \subseteq failedjobs'
    <3>1. failedjobs' = failedjobs \cup {<<row.jobid, row.time>>}
      BY <2>1, <2>2
    <3>2. <<row.jobid, row.time>>[1] = row.jobid
      OBVIOUS
    <3> QED BY <3>1, <3>2, Zenon DEF Recorded
  <2>4. \A u \in Sweeper : todo'[u] \subseteq todo[u] \cup currentjobs
    BY <1>0, <2>1
  <2>5. /\ HandRecorded(s)'
        /\ \A u \in Proc \ {s} : pc'[u] = pc[u] /\ job'[u] = job[u] /\ req'[u] = req[u]
    BY <1>0, <2>1, <2>3, HandGoto DEF Asking, Putting
  <2> QED BY <1>0, <1>1, <1>2, <2>1, <2>3, <2>4, <2>5, RecordGrow
<1>6. CASE SweepDelete(s)
  <2>1. /\ todo' = todo /\ failedjobs' = failedjobs /\ pc[s] = "swDel"
        /\ currentjobs' = currentjobs \/ currentjobs' = CurrentWithout(job[s].jobid)
        /\ \/ Goto(s, "upload", [job[s] EXCEPT !.retries = @ + 1])
           \/ Goto(s, "sweep", job[s])
    BY <1>6 DEF SweepDelete
  <2>2. currentjobs' \subseteq currentjobs
    BY <2>1 DEF CurrentWithout
  <2> DEFINE j == [job[s] EXCEPT !.retries = @ + 1]
  <2>3. Recorded(failedjobs', j.jobid) /\ (Goto(s, "upload", j) \/ Goto(s, "sweep", job[s]))
    <3>1. j.jobid = job[s].jobid
      BY <1>0 DEF LocalJobs
    <3> QED BY <1>3, <2>1, <3>1
  <2> HIDE DEF j
  <2>4. /\ HandRecorded(s)'
        /\ \A u \in Proc \ {s} : pc'[u] = pc[u] /\ job'[u] = job[u] /\ req'[u] = req[u]
    <3>1. CASE Goto(s, "upload", j)
      BY <1>0, <2>3, <3>1, HandGoto DEF Asking
    <3>2. CASE Goto(s, "sweep", job[s])
      BY <1>0, <3>2, HandGoto DEF Asking, Putting, Jobless
    <3> QED BY <2>3, <3>1, <3>2
  <2>5. /\ failedjobs \subseteq failedjobs'
        /\ \A u \in Sweeper : todo'[u] \subseteq todo[u] \cup currentjobs
    BY <2>1, Zenon
  <2> QED BY <1>0, <1>1, <1>2, <2>1, <2>2, <2>4, <2>5, RecordGrow
<1> QED BY <1>4, <1>5, <1>6

LEMMA RecordRestart ==
  ASSUME RecordInv, NEW b, NEW c, Restart(b, c), faults' = faults PROVE RecordInv'
<1> SUFFICES ASSUME Undisturbed' PROVE RecordInv'
  BY Zenon DEF RecordInv
<1>1. UNCHANGED <<undef, jobsqueue, currentjobs, failedjobs>>
  BY DEF Restart, db
<1>2. Undisturbed
  BY <1>1 DEF Undisturbed
<1>3. RowsRecorded(failedjobs, jobsqueue) /\ RowsRecorded(failedjobs, currentjobs)
  BY <1>2, Zenon DEF RecordInv
<1>4. RowsRecorded(failedjobs, jobsqueue)' /\ RowsRecorded(failedjobs, currentjobs)'
  BY <1>1, <1>3
<1>5. \A s \in Sweeper : RowsRecorded(failedjobs', todo'[s])
  BY DEF Restart, RowsRecorded
<1>6. \A t \in Proc : job'[t].retries = 0 /\ pc'[t] \in {"sleep", "idle"}
  BY DEF Restart, NoJob
<1>7. \A t \in Proc : HandRecorded(t)'
  BY <1>6 DEF HandRecorded, Asking, Putting
<1> QED BY <1>4, <1>5, <1>7, Zenon DEF RecordInv

LEMMA RecordStep ==
  ASSUME TypeInv, RecordInv, [Next]_vars PROVE RecordInv'
<1>1. CASE \E t \in Thread : Request(t)
  BY <1>1, RecordQuiet
<1>2. CASE \E t \in Thread : Handle(t)
  <2>1. PICK t \in Thread : Handle(t)
    BY <1>2
  <2>2. t \in Proc
    BY DEF Proc
  <2>3. CASE SelectFromEmptyQueue(t)
    BY <2>3, RecordRestart, Zenon DEF SelectFromEmptyQueue
  <2> QED BY <2>1, <2>2, <2>3, RecordGetJob, RecordFinish, RecordUpload, RecordQuiet DEF Handle
<1>3. CASE \E s \in Sweeper : Sweep(s)
  <2>1. PICK s \in Sweeper : Sweep(s)
    BY <1>3
  <2>2. s \in Proc
    BY DEF Proc
  <2> QED BY <2>1, <2>2, RecordSweep, RecordUpload DEF Sweep
<1>4. CASE Crash
  <2>1. faults' # 0
    BY <1>4 DEF Crash, TypeInv, TypeOK
  <2> QED BY <2>1, Zenon DEF RecordInv, Undisturbed
<1>5. CASE Tick \/ UNCHANGED vars
  <2>1. UNCHANGED <<undef, faults, todo, jobsqueue, currentjobs, failedjobs, job, pc, req>>
    BY <1>5 DEF Tick, vars, db, local, world, ghosts
  <2>2. Undisturbed' = Undisturbed /\ \A t \in Proc : HandRecorded(t)' = HandRecorded(t)
    BY <2>1 DEF Undisturbed, HandRecorded, IsNew
  <2> QED BY <2>1, <2>2 DEF RecordInv
<1> QED BY <1>1, <1>2, <1>3, <1>4, <1>5 DEF Next

\* While the database answers and no uninitialised Job was used, a job that is on a retry
\* has a record in failedjobs, for any number of handlers and sweeps that race over it:
\* handleFinishJobRequest and updateCurrentJob record the failure before uploadJob.
THEOREM RetriesAlwaysRecorded == Spec => []RetryHasFailureRecord
<1>1. TypeInv /\ RecordInv /\ [Next]_vars => RecordInv'
  BY RecordStep
<1>2. RecordInv => RetryHasFailureRecord
  BY DEF RecordInv, Undisturbed, RowsRecorded, Recorded, RetryHasFailureRecord
<1> QED BY <1>1, <1>2, TypeInvariant, RecordInit, PTL DEF Spec
=============================================================================
