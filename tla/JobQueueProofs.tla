---------------------------- MODULE JobQueueProofs ----------------------------
(***************************************************************************)
(* Proofs about JobQueue for any number of jobs, retries, faults and        *)
(* requests: its types, and what holds when requests are served one at a    *)
(* time.                                                                    *)
(***************************************************************************)
EXTENDS JobQueueProperties, FiniteSetTheorems, TLAPS

\* A local Job or request is a real one wherever its jobid is used as it stands.
LocalsOK ==
  \A t \in Proc :
    /\ pc[t] \in {"addCur", "delTop", "delCur", "swDel"} => job[t].jobid \in Uuid
    /\ pc[t] \in {"time", "getCur", "delCur", "putCur"} => req[t].jobid \in Uuid

TypeInv == TypeOK /\ LocalsOK

(***************************************************************************)
(* Lemmas about the operators actions are built from.                       *)
(***************************************************************************)
LEMMA NoLocals == NoJob \in LocalJobs /\ NoReq \in LocalReqs
  BY LimitAssumption DEF NoJob, NoReq, LocalJobs, LocalReqs

\* A local Job made from a row of jobsqueue.
LEMMA JobOfType ==
  ASSUME NEW row \in QueueRows
  PROVE  /\ JobOf(row) \in LocalJobs
         /\ JobOf(row).jobid = row.jobid /\ JobOf(row).priority = row.priority
         /\ row.jobid \in Uuid
  BY DEF QueueRows, JobOf, LocalJobs

LEMMA QueueRowType ==
  ASSUME NEW j \in LocalJobs, NEW id \in Uuid, NEW p \in Int
  PROVE  QueueRow(j, id, p) \in QueueRows
  BY DEF QueueRows, QueueRow, LocalJobs

LEMMA JunkType ==
  ASSUME NEW j \in Junk PROVE j \in LocalJobs
<1>1. JunkInts \subseteq Int
  BY DataAssumption
<1>2. /\ j = [jobid |-> j.jobid, priority |-> j.priority, retries |-> j.retries,
              timeout |-> j.timeout, time |-> j.time]
      /\ j.jobid = NoId /\ j.priority \in JunkInts /\ j.retries \in JunkInts
      /\ j.timeout \in JunkInts /\ j.time \in JunkInts
  BY DEF Junk
<1> QED BY <1>1, <1>2 DEF LocalJobs

LEMMA UuidOfType ==
  ASSUME NEW j \in LocalJobs, NEW id \in UuidOf(j) PROVE id \in Uuid
  BY DEF UuidOf, LocalJobs

LEMMA CurrentIsLocal ==
  ASSUME NEW row \in CurrentRows PROVE row \in LocalJobs /\ row.jobid \in Uuid
  BY DEF CurrentRows, LocalJobs

\* The rows of jobsqueue stay rows, finitely many, when a key is written or deleted.
LEMMA QueueOps ==
  ASSUME jobsqueue \subseteq QueueRows, IsFiniteSet(jobsqueue)
  PROVE  /\ \A row \in QueueRows : /\ QueueWith(row) \subseteq QueueRows
                                   /\ IsFiniteSet(QueueWith(row))
         /\ \A id, p : /\ QueueWithout(id, p) \subseteq jobsqueue
                       /\ IsFiniteSet(QueueWithout(id, p))
<1>1. ASSUME NEW row \in QueueRows
      PROVE  QueueWith(row) \subseteq QueueRows /\ IsFiniteSet(QueueWith(row))
  <2> DEFINE rest == {r \in jobsqueue : r.jobid # row.jobid \/ r.priority # row.priority}
  <2>1. IsFiniteSet(rest)
    BY FS_Subset, rest \subseteq jobsqueue
  <2>2. IsFiniteSet(rest \cup {row})
    BY <2>1, FS_AddElement
  <2> QED BY <2>2 DEF QueueWith
<1>2. ASSUME NEW id, NEW p
      PROVE  QueueWithout(id, p) \subseteq jobsqueue /\ IsFiniteSet(QueueWithout(id, p))
  <2>1. QueueWithout(id, p) \subseteq jobsqueue
    BY DEF QueueWithout
  <2> QED BY <2>1, FS_Subset
<1> QED BY <1>1, <1>2

\* The locals of all threads are typed after a step of t; only t's may differ.
LocalsTyped(t) ==
  /\ pc' \in [Proc -> Places]
  /\ req' \in [Proc -> LocalReqs]
  /\ job' \in [Proc -> LocalJobs]
  /\ since' \in [Proc -> Nat]
  /\ tries' \in [Proc -> 0..MAX_RETRIES]
  /\ \A u \in Proc \ {t} : pc'[u] = pc[u] /\ job'[u] = job[u] /\ req'[u] = req[u]

\* Goto and AfterQuery keep the locals typed, and change those of one thread.
LEMMA GotoType ==
  ASSUME TypeOK, NEW t \in Proc, NEW place \in Places, NEW j \in LocalJobs,
         Goto(t, place, j), tries' \in [Proc -> 0..MAX_RETRIES]
  PROVE  /\ LocalsTyped(t)
         /\ pc'[t] = place
         /\ job'[t] = IF place \in Jobless THEN NoJob ELSE j
         /\ req'[t] = IF place = "idle" THEN NoReq ELSE req[t]
  BY NoLocals DEF TypeOK, Goto, LocalsTyped

LEMMA AfterQueryType ==
  ASSUME TypeOK, NEW t \in Proc, NEW o \in Outcomes, NEW next \in Places,
         NEW first \in Places, NEW giveUp \in Places, NEW j \in LocalJobs,
         AfterQuery(t, o, next, first, giveUp, j)
  PROVE  /\ LocalsTyped(t)
         /\ pc'[t] = IF o = "ok" THEN next ELSE IF Again(t, o) THEN first ELSE giveUp
         /\ job'[t] = IF pc'[t] \in Jobless THEN NoJob ELSE j
         /\ req'[t] = IF pc'[t] = "idle" THEN NoReq ELSE req[t]
<1> DEFINE place == IF o = "ok" THEN next ELSE IF Again(t, o) THEN first ELSE giveUp
<1>1. place \in Places /\ Goto(t, place, j)
  BY DEF AfterQuery
<1>2. tries' \in [Proc -> 0..MAX_RETRIES]
  BY LimitAssumption DEF AfterQuery, TypeOK, Again, Attempts
<1> HIDE DEF place
<1>3. QED BY <1>1, <1>2, GotoType DEF place

\* What is left to show of LocalsOK after a step of t.
LEMMA LocalsStep ==
  ASSUME TypeInv, NEW t \in Proc, LocalsTyped(t),
         pc'[t] \in {"addCur", "delTop", "delCur", "swDel"} => job'[t].jobid \in Uuid,
         pc'[t] \in {"time", "getCur", "delCur", "putCur"} => req'[t].jobid \in Uuid
  PROVE  LocalsOK'
  BY DEF TypeInv, LocalsOK, LocalsTyped

(***************************************************************************)
(* Type correctness.                                                        *)
(***************************************************************************)
LEMMA TypeInit == Init => TypeInv
<1> SUFFICES ASSUME Init PROVE TypeInv
  OBVIOUS
<1>1. PICK p \in [InitQueue -> Priorities], d \in [InitQueue -> Timeouts] :
        jobsqueue = {[jobid |-> id, priority |-> p[id], retries |-> 0, timeout |-> d[id]]
                       : id \in InitQueue}
  BY DEF Init
<1> DEFINE f == [id \in InitQueue |-> [jobid |-> id, priority |-> p[id], retries |-> 0,
                                       timeout |-> d[id]]]
<1>2. f \in Surjection(InitQueue, jobsqueue)
  BY <1>1 DEF Surjection
<1>3. IsFiniteSet(InitQueue)
  BY QueueAssumption, FS_Subset
<1>4. IsFiniteSet(jobsqueue)
  BY <1>2, <1>3, FS_Surjection
<1>5. jobsqueue \subseteq QueueRows
  <2>1. ASSUME NEW id \in InitQueue
        PROVE  id \in Uuid /\ p[id] \in Int /\ d[id] \in Int /\ 0 \in Int
    <3>1. id \in Uuid /\ 0 \in Int
      BY QueueAssumption, LimitAssumption
    <3>2. p[id] \in Priorities /\ d[id] \in Timeouts
      OBVIOUS
    <3> QED BY <3>1, <3>2, DataAssumption
  <2> QED BY <1>1, <2>1 DEF QueueRows
<1>6. numberOfJobs \in Int
  BY <1>4, FS_CardinalityType DEF Init
<1>7. /\ pc \in [Proc -> Places]
      /\ \A t \in Proc : pc[t] \in {"sleep", "idle"}
  BY DEF Init, Places
<1>8. credit \in [Uuid -> Int]
  BY DEF Init
<1>9. TypeOK
  <2>1. /\ job \in [Proc -> LocalJobs] /\ req \in [Proc -> LocalReqs]
        /\ since \in [Proc -> Nat] /\ tries \in [Proc -> 0..MAX_RETRIES]
        /\ todo \in [Sweeper -> SUBSET CurrentRows]
    BY NoLocals, LimitAssumption DEF Init
  <2>2. /\ currentjobs = {} /\ failedjobs = {} /\ dbCrawlID \in Int /\ crawlID \in Int
        /\ jobmtx = Nobody /\ timeLastRecount \in Nat /\ timeLastCrawl = -1
        /\ now \in Nat /\ leases = {} /\ issued = {} /\ crawlers = {}
        /\ requests \in Nat /\ faults \in Nat
    BY DEF Init
  <2>3. /\ used \subseteq Uuid /\ finished \subseteq Uuid /\ overtaken \subseteq Uuid
        /\ crashed \in BOOLEAN /\ undef \in BOOLEAN
    BY QueueAssumption DEF Init
  <2> QED BY <1>4, <1>5, <1>6, <1>7, <1>8, <2>1, <2>2, <2>3 DEF TypeOK
<1> QED BY <1>7, <1>9 DEF TypeInv, LocalsOK

LEMMA TypeRequest ==
  ASSUME TypeInv, NEW t \in Thread, Request(t) PROVE TypeInv'
<1>1. PICK r \in LocalReqs, place \in Places :
         /\ Begin(t, r, place)
         /\ place \in {"time", "getCur", "delCur", "putCur"} => r.jobid \in Uuid
         /\ place \notin {"addCur", "delTop", "delCur", "swDel"}
  <2>1. CASE RequestGetJob(t)
    BY <2>1, NoLocals DEF RequestGetJob, LocalReqs, Places, NoReq
  <2>2. CASE RequestUpdateJob(t)
    <3>1. PICK l \in leases : Begin(t, [NoReq EXCEPT !.kind = "udjb", !.jobid = l[1],
                                                     !.time = l[2]], "time")
      BY <2>2 DEF RequestUpdateJob
    <3>2. l[1] \in Uuid /\ l[2] \in Int
      BY DEF TypeInv, TypeOK
    <3> QED BY <3>1, <3>2, NoLocals DEF LocalReqs, Places, NoReq
  <2>3. CASE RequestFinishJob(t)
    <3>1. PICK l \in leases, why \in Reasons :
             Begin(t, [NoReq EXCEPT !.kind = "fnjb", !.jobid = l[1], !.time = l[2],
                                    !.reason = why], "time")
      BY <2>3 DEF RequestFinishJob
    <3>2. l[1] \in Uuid /\ l[2] \in Int /\ why \in Int
      BY DataAssumption DEF TypeInv, TypeOK
    <3> QED BY <3>1, <3>2, NoLocals DEF LocalReqs, Places, NoReq
  <2>4. CASE RequestUploadJob(t)
    <3>1. PICK n \in 1..MaxUpload :
             Begin(t, [NoReq EXCEPT !.kind = "upjb", !.left = n], "next")
      BY <2>4 DEF RequestUploadJob
    <3>2. n \in Int
      BY BoundAssumption
    <3> QED BY <3>1, <3>2, NoLocals DEF LocalReqs, Places, NoReq
  <2>5. CASE RequestCrawlData(t)
    <3>1. PICK ident \in issued, c \in CrawlIDs, n \in 0..MaxUpload :
             Begin(t, [NoReq EXCEPT !.kind = "upcd", !.time = ident, !.crawl = c,
                                    !.left = n], "check")
      BY <2>5 DEF RequestCrawlData
    <3>2. ident \in Int /\ c \in Int /\ n \in Int
      BY DataAssumption, BoundAssumption DEF TypeInv, TypeOK
    <3> QED BY <3>1, <3>2, NoLocals DEF LocalReqs, Places, NoReq
  <2> QED BY <2>1, <2>2, <2>3, <2>4, <2>5 DEF Request
<1>2. TypeOK'
  BY <1>1 DEF TypeInv, TypeOK, Begin, db, mem, ghosts, Proc
<1>3. LocalsOK'
  BY <1>1 DEF TypeInv, TypeOK, LocalsOK, Begin, db, mem, ghosts, Proc
<1> QED BY <1>2, <1>3 DEF TypeInv

LEMMA SpendType ==
  ASSUME TypeOK, NEW o, Spend(o) PROVE faults' \in Nat
  BY DEF TypeOK, Spend

LEMMA CountType ==
  ASSUME TypeOK, GetNumberOfJobs
  PROVE  numberOfJobs' \in Int /\ timeLastRecount' \in Nat \cup {-1} /\ faults' \in Nat
  BY FS_CardinalityType, SpendType DEF TypeOK, GetNumberOfJobs

LEMMA AddToNumberType ==
  ASSUME TypeOK, NEW t, NEW d \in Int, AddToNumberOfJobs(t, d)
  PROVE  numberOfJobs' \in Int
  BY DEF TypeOK, AddToNumberOfJobs

LEMMA ReleaseType ==
  ASSUME TypeOK, NEW t, ReleaseJobmtx(t) PROVE jobmtx' \in Thread \cup {Nobody}
  BY DEF TypeOK, ReleaseJobmtx

\* handleGetJobRequest
LEMMA TypeGetJob ==
  ASSUME TypeInv, NEW t \in Thread,
         \/ LockJobmtx(t) \/ CountFree(t) \/ CountBusy(t) \/ CountAgain(t)
         \/ SelectTopJob(t) \/ AddTopToCurrent(t) \/ DeleteTopJob(t)
  PROVE  TypeInv'
<1> USE DEF TypeInv
<1>0. t \in Proc /\ job[t] \in LocalJobs /\ since[t] \in Nat /\ job[t].time \in Int
  BY DEF TypeOK, Proc, LocalJobs
<1>1. CASE LockJobmtx(t)
  <2>1. PICK place \in Places : Goto(t, place, job[t]) /\ place \in {"countBusy", "countFree"}
    BY <1>1 DEF LockJobmtx, Places
  <2>2. TypeOK'
    BY <1>0, <1>1, <2>1, GotoType DEF TypeOK, LocalsTyped, LockJobmtx, db, world, ghosts
  <2>3. LocalsOK'
    BY <1>0, <2>1, <2>2, GotoType, LocalsStep DEF TypeOK
  <2> QED BY <2>2, <2>3
<1>2. CASE CountFree(t)
  <2>1. PICK place \in Places : Goto(t, place, job[t]) /\ place \in {"top", "idle"}
    BY <1>2 DEF CountFree, Places
  <2>2. TypeOK'
    <3>1. /\ timeLastCrawl' \in Nat \cup {-1}
          /\ issued' \subseteq Nat /\ crawlers' \subseteq Nat
      <4>1. \/ UNCHANGED <<timeLastCrawl, issued, crawlers>>
            \/ /\ timeLastCrawl' = since[t]
               /\ issued' = issued \cup {since[t]} /\ crawlers' = crawlers \cup {since[t]}
        BY <1>2 DEF CountFree
      <4>2. timeLastCrawl \in Nat \cup {-1} /\ issued \subseteq Nat /\ crawlers \subseteq Nat
        BY DEF TypeOK
      <4> QED BY <1>0, <4>1, <4>2
    <3>2. /\ numberOfJobs' \in Int /\ timeLastRecount' \in Nat \cup {-1} /\ faults' \in Nat
          /\ jobmtx' \in Thread \cup {Nobody}
      BY <1>2, CountType, ReleaseType DEF CountFree
    <3> QED BY <1>0, <1>2, <2>1, <3>1, <3>2, GotoType DEF TypeOK, LocalsTyped, CountFree, db, ghosts
  <2>3. LocalsOK'
    BY <1>0, <2>1, <2>2, GotoType, LocalsStep DEF TypeOK
  <2> QED BY <2>2, <2>3
<1>3. CASE CountBusy(t)
  <2>1. PICK place \in Places : Goto(t, place, job[t]) /\ place \in {"top", "countAgain"}
    BY <1>3 DEF CountBusy, Places
  <2>2. TypeOK'
    BY <1>0, <1>3, <2>1, GotoType, CountType DEF TypeOK, LocalsTyped, CountBusy, db, ghosts
  <2>3. LocalsOK'
    BY <1>0, <2>1, <2>2, GotoType, LocalsStep DEF TypeOK
  <2> QED BY <2>2, <2>3
<1>4. CASE CountAgain(t)
  <2>1. PICK place \in Places : Goto(t, place, job[t]) /\ place \in {"top", "idle"}
    BY <1>4 DEF CountAgain, Places
  <2>2. TypeOK'
    BY <1>0, <1>4, <2>1, GotoType, CountType, ReleaseType DEF TypeOK, LocalsTyped, CountAgain, db, ghosts
  <2>3. LocalsOK'
    BY <1>0, <2>1, <2>2, GotoType, LocalsStep DEF TypeOK
  <2> QED BY <2>2, <2>3
<1>5. CASE SelectTopJob(t)
  <2>1. PICK o \in Outcomes, j \in LocalJobs :
           /\ AfterQuery(t, o, "addCur", "top", "idle", j)
           /\ o = "ok" => j.jobid \in Uuid
           /\ faults' \in Nat
    <3>1. CASE \E row \in TopRows :
                 AfterQuery(t, "ok", "addCur", "top", "idle", JobOf(row)) /\ UNCHANGED faults
      <4>1. PICK row \in TopRows :
              AfterQuery(t, "ok", "addCur", "top", "idle", JobOf(row)) /\ UNCHANGED faults
        BY <3>1
      <4>2. row \in QueueRows
        BY DEF TypeOK, TopRows
      <4> QED BY <4>1, <4>2, JobOfType DEF TypeOK, Outcomes
    <3>2. CASE Spend("lost") /\ AfterQuery(t, "lost", "addCur", "top", "idle", job[t])
      BY <1>0, <3>2, SpendType DEF Outcomes
    <3> QED BY <1>5, <3>1, <3>2 DEF SelectTopJob
  <2>2. /\ LocalsTyped(t)
        /\ pc'[t] \in {"addCur", "top", "idle"}
        /\ pc'[t] = "addCur" => job'[t].jobid \in Uuid
    <3>1. "addCur" \in Places /\ "top" \in Places /\ "idle" \in Places
      BY DEF Places
    <3> QED BY <1>0, <2>1, <3>1, AfterQueryType DEF Jobless
  <2>3. TypeOK'
    BY <1>5, <2>1, <2>2, ReleaseType DEF TypeOK, LocalsTyped, SelectTopJob, db, ghosts
  <2>4. LocalsOK'
    BY <1>0, <2>2, LocalsStep
  <2> QED BY <2>3, <2>4
<1>6. CASE AddTopToCurrent(t)
  <2>0. job[t].jobid \in Uuid
    BY <1>0, <1>6 DEF LocalsOK, AddTopToCurrent
  <2>1. PICK o \in Outcomes, stamp \in since[t]..now :
           /\ Spend(o)
           /\ AfterQuery(t, o, "delTop", "top", "idle", [job[t] EXCEPT !.time = stamp])
           /\ currentjobs' = IF o = "lost" THEN currentjobs
                             ELSE CurrentWith([job[t] EXCEPT !.time = stamp])
    BY <1>6 DEF AddTopToCurrent
  <2> DEFINE row == [job[t] EXCEPT !.time = stamp]
  <2>2. row \in LocalJobs /\ row.jobid \in Uuid /\ row \in CurrentRows
    BY <1>0, <2>0 DEF TypeOK, LocalJobs, CurrentRows
  <2>3. currentjobs' \subseteq CurrentRows
    BY <2>1, <2>2 DEF TypeOK, CurrentWith
  <2> HIDE DEF row
  <2>4. /\ LocalsTyped(t)
        /\ pc'[t] \in {"delTop", "top", "idle"}
        /\ pc'[t] = "delTop" => job'[t].jobid \in Uuid
    <3>1. AfterQuery(t, o, "delTop", "top", "idle", row)
      BY <2>1 DEF row
    <3>2. "delTop" \in Places /\ "top" \in Places /\ "idle" \in Places
      BY DEF Places
    <3>3. row \in LocalJobs /\ o \in Outcomes
      BY <2>2
    <3>4. /\ LocalsTyped(t)
          /\ pc'[t] = IF o = "ok" THEN "delTop" ELSE IF Again(t, o) THEN "top" ELSE "idle"
          /\ job'[t] = IF pc'[t] \in Jobless THEN NoJob ELSE row
      BY <1>0, <3>1, <3>2, <3>3, AfterQueryType
    <3> QED BY <2>2, <3>4 DEF Jobless
  <2>5. faults' \in Nat
    BY <2>1, SpendType
  <2>6. TypeOK'
    BY <1>6, <2>3, <2>4, <2>5, ReleaseType DEF TypeOK, LocalsTyped, AddTopToCurrent, ghosts
  <2>7. LocalsOK'
    BY <1>0, <2>4, LocalsStep
  <2> QED BY <2>6, <2>7
<1>7. CASE DeleteTopJob(t)
  <2>0. job[t].jobid \in Uuid
    BY <1>0, <1>7 DEF LocalsOK, DeleteTopJob
  <2>1. PICK o \in Outcomes :
           /\ Spend(o)
           /\ AfterQuery(t, o, "idle", "top", "idle", job[t])
           /\ jobsqueue' = IF o = "lost" THEN jobsqueue
                           ELSE QueueWithout(job[t].jobid, job[t].priority)
           /\ leases' \subseteq leases \cup {<<job[t].jobid, job[t].time>>}
           /\ credit' = credit \/ credit' = [credit EXCEPT ![job[t].jobid] = @ - 1]
    BY <1>7 DEF DeleteTopJob
  <2>2. jobsqueue' \subseteq QueueRows /\ IsFiniteSet(jobsqueue')
    BY <2>1, QueueOps DEF TypeOK
  <2>3. leases' \subseteq Uuid \X Int /\ credit' \in [Uuid -> Int] /\ faults' \in Nat
    BY <1>0, <2>0, <2>1, SpendType DEF TypeOK
  <2>4. /\ LocalsTyped(t)
        /\ pc'[t] \in {"top", "idle"}
    <3>1. "top" \in Places /\ "idle" \in Places
      BY DEF Places
    <3> QED BY <1>0, <2>1, <3>1, AfterQueryType
  <2>5. numberOfJobs' \in Int
    BY <1>7, AddToNumberType DEF DeleteTopJob
  <2>6. TypeOK'
    BY <1>7, <2>2, <2>3, <2>4, <2>5, ReleaseType DEF TypeOK, LocalsTyped, DeleteTopJob
  <2>7. LocalsOK'
    BY <1>0, <2>4, LocalsStep
  <2> QED BY <2>6, <2>7
<1> QED BY <1>1, <1>2, <1>3, <1>4, <1>5, <1>6, <1>7

\* handleUpdateJobRequest and handleFinishJobRequest
LEMMA OverType ==
  ASSUME TypeOK, NEW j \in LocalJobs PROVE Over(j) \subseteq Uuid
  BY DEF TypeOK, LocalJobs, Over

LEMMA TypeFinish ==
  ASSUME TypeInv, NEW t \in Thread,
         \/ CheckTime(t) \/ GetCurrentJob(t) \/ DeleteCurrentJob(t)
         \/ RenewCurrentJob(t) \/ AddFailedJob(t)
  PROVE  TypeInv'
<1> USE DEF TypeInv
<1>0. /\ t \in Proc /\ job[t] \in LocalJobs /\ since[t] \in Nat /\ job[t].time \in Int
      /\ AfterGet(req[t]) \in {"putCur", "addFail", "idle"}
      /\ "ok" \in Outcomes /\ "lost" \in Outcomes
  BY DEF TypeOK, Proc, LocalJobs, AfterGet, Outcomes
<1>00. /\ "idle" \in Places /\ "time" \in Places /\ "getCur" \in Places /\ "delCur" \in Places
       /\ "putCur" \in Places /\ "addFail" \in Places /\ "upload" \in Places
  BY DEF Places
<1>1. CASE CheckTime(t)
  <2>1. PICK o \in Outcomes, place \in {"getCur", "idle"} :
           Spend(o) /\ AfterQuery(t, o, place, "time", "idle", job[t])
    BY <1>1 DEF CheckTime, Answers, Outcomes
  <2>2. /\ LocalsTyped(t) /\ pc'[t] \in {"getCur", "time", "idle"} /\ faults' \in Nat
        /\ pc'[t] # "idle" => req'[t] = req[t]
    BY <1>0, <1>00, <2>1, AfterQueryType, SpendType
  <2>3. req[t].jobid \in Uuid
    BY <1>0, <1>1 DEF CheckTime, LocalsOK
  <2>4. TypeOK'
    BY <1>1, <2>2 DEF TypeOK, LocalsTyped, CheckTime, db, mem, ghosts
  <2> QED BY <1>0, <2>2, <2>3, <2>4, LocalsStep
<1>2. CASE GetCurrentJob(t)
  <2>0. req[t].jobid \in Uuid
    BY <1>0, <1>2 DEF GetCurrentJob, LocalsOK
  <2>1. PICK o \in Outcomes, j \in LocalJobs, next \in Places, giveUp \in Places :
           /\ AfterQuery(t, o, next, "getCur", giveUp, j)
           /\ next \in {"delCur", "putCur", "addFail", "idle"}
           /\ giveUp \in {"putCur", "addFail", "idle"}
           /\ next = "delCur" /\ o = "ok" => j.jobid \in Uuid
           /\ faults' \in Nat /\ undef' \in BOOLEAN
    <3>1. CASE \E row \in CurrentOf(req[t].jobid) :
                 AfterQuery(t, "ok", "delCur", "getCur", "idle", row) /\ UNCHANGED <<faults, undef>>
      BY <1>0, <1>00, <3>1, CurrentIsLocal DEF TypeOK, CurrentOf
    <3>2. CASE \E j \in Junk : /\ AfterQuery(t, "ok", AfterGet(req[t]), "getCur", "idle", j)
                               /\ undef' = (undef \/ AfterGet(req[t]) # "idle")
                               /\ UNCHANGED faults
      BY <1>0, <1>00, <3>2, JunkType DEF TypeOK
    <3>3. CASE \E j \in Junk : /\ Spend("lost")
                               /\ AfterQuery(t, "lost", "delCur", "getCur", AfterGet(req[t]), j)
                               /\ undef' = (undef \/ (~Again(t, "lost") /\ AfterGet(req[t]) # "idle"))
      BY <1>0, <1>00, <3>3, JunkType, SpendType DEF TypeOK
    <3> QED BY <1>2, <3>1, <3>2, <3>3 DEF GetCurrentJob
  <2>2. /\ LocalsTyped(t) /\ pc'[t] \in {"delCur", "putCur", "addFail", "idle", "getCur"}
        /\ pc'[t] # "idle" => req'[t] = req[t]
        /\ pc'[t] = "delCur" => job'[t].jobid \in Uuid
    BY <1>0, <1>00, <2>1, AfterQueryType DEF Jobless
  <2>3. TypeOK'
    BY <1>2, <2>1, <2>2 DEF TypeOK, LocalsTyped, GetCurrentJob, db, mem
  <2> QED BY <1>0, <2>0, <2>2, <2>3, LocalsStep
<1>3. CASE DeleteCurrentJob(t)
  <2>0. req[t].jobid \in Uuid /\ job[t].jobid \in Uuid
    BY <1>0, <1>3 DEF DeleteCurrentJob, LocalsOK
  <2>1. PICK o \in Outcomes :
           /\ Spend(o)
           /\ AfterQuery(t, o, AfterGet(req[t]), "getCur", AfterGet(req[t]), job[t])
           /\ currentjobs' = IF o = "lost" THEN currentjobs ELSE CurrentWithout(req[t].jobid)
    BY <1>3 DEF DeleteCurrentJob
  <2>2. /\ LocalsTyped(t) /\ pc'[t] \in {"putCur", "addFail", "idle", "getCur"}
        /\ pc'[t] # "idle" => req'[t] = req[t]
        /\ faults' \in Nat
    BY <1>0, <1>00, <2>1, AfterQueryType, SpendType
  <2>3. currentjobs' \subseteq CurrentRows /\ finished' \subseteq Uuid
    BY <1>3, <2>0, <2>1 DEF TypeOK, CurrentWithout, DeleteCurrentJob
  <2>4. TypeOK'
    BY <1>3, <2>2, <2>3 DEF TypeOK, LocalsTyped, DeleteCurrentJob, mem
  <2> QED BY <1>0, <2>0, <2>2, <2>4, LocalsStep
<1>4. CASE RenewCurrentJob(t)
  <2>0. req[t].jobid \in Uuid
    BY <1>0, <1>4 DEF RenewCurrentJob, LocalsOK
  <2>1. PICK o \in Outcomes, stamp \in since[t]..now, id \in UuidOf(job[t]) :
           /\ Spend(o)
           /\ AfterQuery(t, o, "idle", "putCur", "idle", job[t])
           /\ currentjobs' = IF o = "lost" THEN currentjobs
                             ELSE CurrentWith([job[t] EXCEPT !.jobid = id, !.time = stamp])
           /\ used' = IF o = "lost" THEN used ELSE used \cup {id}
           /\ leases' \subseteq leases \cup {<<req[t].jobid, stamp>>}
    BY <1>4 DEF RenewCurrentJob
  <2>2. id \in Uuid /\ stamp \in Nat
    BY <1>0, UuidOfType DEF TypeOK
  <2>3. [job[t] EXCEPT !.jobid = id, !.time = stamp] \in CurrentRows
    BY <1>0, <2>2 DEF LocalJobs, CurrentRows
  <2>4. currentjobs' \subseteq CurrentRows /\ used' \subseteq Uuid /\ leases' \subseteq Uuid \X Int
    BY <2>0, <2>1, <2>2, <2>3 DEF TypeOK, CurrentWith
  <2>5. /\ LocalsTyped(t) /\ pc'[t] \in {"putCur", "idle"}
        /\ pc'[t] # "idle" => req'[t] = req[t]
        /\ faults' \in Nat
    BY <1>0, <1>00, <2>1, AfterQueryType, SpendType
  <2>6. TypeOK'
    BY <1>4, <2>4, <2>5 DEF TypeOK, LocalsTyped, RenewCurrentJob, mem
  <2> QED BY <1>0, <2>0, <2>5, <2>6, LocalsStep
<1>5. CASE AddFailedJob(t)
  <2>1. PICK o \in Outcomes, id \in UuidOf(job[t]) :
           /\ Spend(o)
           /\ IF o = "ok" /\ Retryable(job[t], req[t].reason)
              THEN AfterQuery(t, o, "upload", "addFail", "idle",
                              [job[t] EXCEPT !.retries = @ + 1])
              ELSE AfterQuery(t, o, "idle", "addFail", "idle", job[t])
           /\ failedjobs' = IF o = "lost" THEN failedjobs
                            ELSE failedjobs \cup {<<id, job[t].time>>}
           /\ finished' \in {finished, Over(job[t])}
    BY <1>5 DEF AddFailedJob
  <2>2. Retryable(job[t], req[t].reason) => [job[t] EXCEPT !.retries = @ + 1] \in LocalJobs
    BY <1>0, LimitAssumption DEF Retryable, RetriesLeft, LocalJobs
  <2>3. LocalsTyped(t) /\ pc'[t] \in {"upload", "addFail", "idle"}
    BY <1>0, <1>00, <2>1, <2>2, AfterQueryType
  <2>4. failedjobs' \subseteq Uuid \X Int /\ finished' \subseteq Uuid /\ faults' \in Nat
    BY <1>0, <2>1, UuidOfType, SpendType, OverType DEF TypeOK
  <2>5. TypeOK'
    BY <1>5, <2>3, <2>4 DEF TypeOK, LocalsTyped, AddFailedJob, mem
  <2> QED BY <1>0, <2>3, <2>5, LocalsStep
<1> QED BY <1>1, <1>2, <1>3, <1>4, <1>5

\* uploadJob, by a handler or the sweeper
LEMMA TypeUpload ==
  ASSUME TypeInv, NEW t \in Proc, NextJob(t) \/ InsertJob(t) \/ CountUp(t)
  PROVE  TypeInv'
<1> USE DEF TypeInv
<1>0. /\ job[t] \in LocalJobs /\ job[t].priority \in Int /\ now \in Nat /\ req[t].left \in Int
      /\ tries \in [Proc -> 0..MAX_RETRIES]
      /\ AfterUpload(t) \in {"sweep", "next", "idle"} /\ NoUpload(t) \in {"sweep", "idle"}
      /\ "ok" \in Outcomes /\ "lost" \in Outcomes
  BY DEF TypeOK, LocalJobs, LocalReqs, AfterUpload, NoUpload, Outcomes
<1>00. /\ "idle" \in Places /\ "next" \in Places /\ "sweep" \in Places /\ "upload" \in Places
       /\ "insert" \in Places /\ "bump" \in Places /\ "bumpErr" \in Places
  BY DEF Places
<1>1. CASE NextJob(t)
  <2>1. PICK p \in Priorities, d \in Timeouts :
           job' = [job EXCEPT ![t] = [NoJob EXCEPT !.priority = p, !.timeout = d]]
    BY <1>1 DEF NextJob
  <2>2. [NoJob EXCEPT !.priority = p, !.timeout = d] \in LocalJobs
    <3>1. p \in Int /\ d \in Int
      BY DataAssumption
    <3> QED BY <3>1, NoLocals DEF LocalJobs
  <2>3. req' \in [Proc -> LocalReqs]
    <3>1. req \in [Proc -> LocalReqs] /\ req' = [req EXCEPT ![t].left = @ - 1]
      BY <1>1 DEF TypeOK, NextJob
    <3>2. [req[t] EXCEPT !.left = @ - 1] \in LocalReqs
      BY <1>0, <3>1 DEF LocalReqs
    <3> QED BY <3>1, <3>2
  <2>4. LocalsTyped(t) /\ pc'[t] = "upload"
    BY <1>1, <1>00, <2>1, <2>2, <2>3 DEF TypeOK, LocalsTyped, NextJob
  <2>5. TypeOK'
    BY <1>1, <2>4 DEF TypeOK, LocalsTyped, NextJob, db, mem, world, ghosts
  <2> QED BY <2>4, <2>5, LocalsStep
<1>2. CASE InsertJob(t)
  <2> DEFINE p == IF IsNew(t) THEN now - job[t].priority ELSE job[t].priority
  <2>1. PICK o \in Outcomes, id \in IF IsNew(t) THEN Uuid \ used ELSE UuidOf(job[t]) :
           /\ Spend(o)
           /\ IF pc[t] = "insert"
              THEN AfterQuery(t, o, AfterUpload(t), "upload", NoUpload(t), job[t])
              ELSE /\ Goto(t, IF o = "ok" THEN "bump" ELSE "bumpErr", job[t])
                   /\ UNCHANGED tries
           /\ IF o = "lost" THEN UNCHANGED <<jobsqueue, credit, overtaken, used>>
              ELSE /\ jobsqueue' = QueueWith(QueueRow(job[t], id, p))
                   /\ credit' = [credit EXCEPT ![id] = @ + 1]
                   /\ overtaken' = IF Leaving(id) THEN overtaken \cup {id} ELSE overtaken
                   /\ used' = used \cup {id}
    BY <1>2 DEF InsertJob
  <2>2. id \in Uuid /\ p \in Int
    BY <1>0, UuidOfType
  <2> HIDE DEF p
  <2>3. /\ LocalsTyped(t)
        /\ pc'[t] \in {"bump", "bumpErr", "sweep", "next", "idle", "upload"}
    BY <1>0, <1>00, <2>1, AfterQueryType, GotoType
  <2>4. /\ jobsqueue' \subseteq QueueRows /\ IsFiniteSet(jobsqueue')
    BY <1>0, <2>1, <2>2, QueueRowType, QueueOps DEF TypeOK
  <2>5. /\ credit' \in [Uuid -> Int] /\ used' \subseteq Uuid /\ overtaken' \subseteq Uuid
        /\ faults' \in Nat
    BY <2>1, <2>2, SpendType DEF TypeOK
  <2>6. TypeOK'
    BY <1>2, <2>3, <2>4, <2>5 DEF TypeOK, LocalsTyped, InsertJob, mem
  <2> QED BY <2>3, <2>6, LocalsStep
<1>3. CASE CountUp(t)
  <2>1. LocalsTyped(t) /\ pc'[t] \in {"insert", "sweep", "next", "idle", "upload"}
    <3>1. CASE Goto(t, "insert", job[t]) /\ UNCHANGED tries
      BY <1>0, <1>00, <3>1, GotoType
    <3>2. CASE AfterQuery(t, "ok", AfterUpload(t), "upload", NoUpload(t), job[t])
      BY <1>0, <1>00, <3>2, AfterQueryType
    <3>3. CASE AfterQuery(t, "lost", AfterUpload(t), "upload", NoUpload(t), job[t])
      BY <1>0, <1>00, <3>3, AfterQueryType
    <3> QED BY <1>3, <3>1, <3>2, <3>3 DEF CountUp
  <2>2. numberOfJobs' \in Int
    BY <1>3, AddToNumberType DEF CountUp
  <2>3. TypeOK'
    BY <1>3, <2>1, <2>2 DEF TypeOK, LocalsTyped, CountUp, db, world, ghosts
  <2> QED BY <2>1, <2>3, LocalsStep
<1> QED BY <1>1, <1>2, <1>3

\* handleCrawlDataRequest
LEMMA TypeCrawl ==
  ASSUME TypeInv, NEW t \in Thread,
         CheckCrawl(t) \/ UpdateCrawlID(t) \/ ChangeCrawlID(t) \/ SetCrawlID(t)
  PROVE  TypeInv'
<1> USE DEF TypeInv
<1>0. /\ t \in Proc /\ job[t] \in LocalJobs /\ req[t].crawl \in Int
      /\ tries \in [Proc -> 0..MAX_RETRIES]
      /\ AfterCrawl(req[t]) \in {"next", "idle"}
  BY DEF TypeOK, LocalReqs, Proc, AfterCrawl
<1>00. /\ "idle" \in Places /\ "next" \in Places /\ "setCrawl" \in Places
       /\ "newCrawl" \in Places /\ "storeCrawl" \in Places
  BY DEF Places
<1>1. PICK place \in {"setCrawl", "newCrawl", "storeCrawl", "next", "idle"} :
         Goto(t, place, job[t]) /\ UNCHANGED tries
  BY <1>0 DEF CheckCrawl, UpdateCrawlID, ChangeCrawlID, SetCrawlID
<1>2. LocalsTyped(t) /\ pc'[t] = place
  BY <1>0, <1>00, <1>1, GotoType
<1>3. CASE CheckCrawl(t)
  BY <1>0, <1>2, <1>3, LocalsStep DEF TypeOK, LocalsTyped, CheckCrawl, db, mem, world, ghosts
<1>4. CASE UpdateCrawlID(t)
  <2>1. TypeOK'
    BY <1>0, <1>2, <1>4 DEF TypeOK, LocalsTyped, UpdateCrawlID, db, ghosts
  <2> QED BY <1>0, <1>2, <2>1, LocalsStep
<1>5. CASE ChangeCrawlID(t)
  <2>1. TypeOK'
    BY <1>0, <1>2, <1>5 DEF TypeOK, LocalsTyped, ChangeCrawlID, db, world, ghosts
  <2> QED BY <1>0, <1>2, <2>1, LocalsStep
<1>6. CASE SetCrawlID(t)
  <2>1. dbCrawlID' \in Int /\ faults' \in Nat
    BY <1>0, <1>6, SpendType DEF TypeOK, SetCrawlID
  <2>2. TypeOK'
    BY <1>2, <1>6, <2>1 DEF TypeOK, LocalsTyped, SetCrawlID, mem, ghosts
  <2> QED BY <1>0, <1>2, <2>2, LocalsStep
<1> QED BY <1>3, <1>4, <1>5, <1>6

\* updateCurrentJobs
LEMMA TypeSweep ==
  ASSUME TypeInv, NEW s \in Sweeper,
         SweepSelect(s) \/ SweepClock(s) \/ SweepEnd(s) \/ SweepFail(s) \/ SweepDelete(s)
  PROVE  TypeInv'
<1> USE DEF TypeInv
<1>0. s \in Proc /\ job[s] \in LocalJobs /\ tries \in [Proc -> 0..MAX_RETRIES]
  BY DEF TypeOK, Proc
<1>00. /\ "sleep" \in Places /\ "clock" \in Places /\ "sweep" \in Places
       /\ "swDel" \in Places /\ "upload" \in Places
  BY DEF Places
<1>1. CASE SweepSelect(s)
  <2>1. PICK o \in Answers :
           /\ Spend(o)
           /\ todo' = [todo EXCEPT ![s] = IF o = "ok" THEN currentjobs ELSE {}]
           /\ Goto(s, IF o = "ok" THEN "clock" ELSE "sleep", job[s])
    BY <1>1 DEF SweepSelect
  <2>2. LocalsTyped(s) /\ pc'[s] \in {"clock", "sleep"}
    BY <1>0, <1>00, <1>1, <2>1, GotoType DEF SweepSelect
  <2>3. todo' \in [Sweeper -> SUBSET CurrentRows] /\ faults' \in Nat
    BY <2>1, SpendType DEF TypeOK
  <2>4. TypeOK'
    BY <1>1, <2>2, <2>3 DEF TypeOK, LocalsTyped, SweepSelect, db, mem, ghosts
  <2> QED BY <1>0, <2>2, <2>4, LocalsStep
<1>2. CASE SweepClock(s)
  <2>2. LocalsTyped(s) /\ pc'[s] = "sweep"
    BY <1>0, <1>00, <1>2, GotoType DEF SweepClock
  <2>3. todo' \in [Sweeper -> SUBSET CurrentRows]
    BY <1>2 DEF TypeOK, SweepClock
  <2>4. TypeOK'
    BY <1>2, <2>2, <2>3 DEF TypeOK, LocalsTyped, SweepClock, db, mem, world, ghosts
  <2> QED BY <1>0, <2>2, <2>4, LocalsStep
<1>3. CASE SweepEnd(s)
  <2>2. LocalsTyped(s) /\ pc'[s] = "sleep"
    BY <1>0, <1>00, <1>3, GotoType DEF SweepEnd
  <2>4. TypeOK'
    BY <1>3, <2>2 DEF TypeOK, LocalsTyped, SweepEnd, db, mem, world, ghosts
  <2> QED BY <1>0, <2>2, <2>4, LocalsStep
<1>4. CASE SweepFail(s)
  <2>1. PICK row \in todo[s], o \in Outcomes :
           /\ Spend(o)
           /\ todo' = [todo EXCEPT ![s] = @ \ {row}]
           /\ failedjobs' = IF o = "lost" THEN failedjobs
                            ELSE failedjobs \cup {<<row.jobid, row.time>>}
           /\ Goto(s, "swDel", row)
    BY <1>4 DEF SweepFail
  <2>2. row \in LocalJobs /\ row.jobid \in Uuid /\ row.time \in Nat
    BY CurrentIsLocal DEF TypeOK, CurrentRows
  <2>3. LocalsTyped(s) /\ pc'[s] = "swDel" /\ job'[s].jobid \in Uuid
    BY <1>0, <1>00, <1>4, <2>1, <2>2, GotoType DEF SweepFail, Jobless
  <2>4. /\ todo' \in [Sweeper -> SUBSET CurrentRows] /\ faults' \in Nat
        /\ failedjobs' \subseteq Uuid \X Int
    BY <2>1, <2>2, SpendType DEF TypeOK
  <2>5. TypeOK'
    BY <1>4, <2>3, <2>4 DEF TypeOK, LocalsTyped, SweepFail, mem, ghosts
  <2> QED BY <1>0, <2>3, <2>5, LocalsStep
<1>5. CASE SweepDelete(s)
  <2>1. RetriesLeft(job[s]) => [job[s] EXCEPT !.retries = @ + 1] \in LocalJobs
    BY <1>0, LimitAssumption DEF RetriesLeft, LocalJobs
  <2>2. LocalsTyped(s) /\ pc'[s] \in {"upload", "sweep"}
    BY <1>0, <1>00, <1>5, <2>1, GotoType DEF SweepDelete
  <2>3. currentjobs' \subseteq CurrentRows /\ faults' \in Nat /\ finished' \subseteq Uuid
    BY <1>0, <1>5, SpendType, OverType DEF TypeOK, SweepDelete, CurrentWithout
  <2>4. TypeOK'
    BY <1>5, <2>2, <2>3 DEF TypeOK, LocalsTyped, SweepDelete, mem
  <2> QED BY <1>0, <2>2, <2>4, LocalsStep
<1> QED BY <1>1, <1>2, <1>3, <1>4, <1>5

\* A restart, after a crash or the NULL row of an empty queue
LEMMA TypeRestart ==
  ASSUME TypeInv, NEW b \in BOOLEAN, NEW c \in BOOLEAN, Restart(b, c), faults' \in Nat
  PROVE  TypeInv'
<1>1. numberOfJobs' \in Int
  <2>1. numberOfJobs' \in IF b THEN {Cardinality(jobsqueue)} ELSE JunkInts
    BY DEF Restart
  <2>2. Cardinality(jobsqueue) \in Int
    BY FS_CardinalityType DEF TypeInv, TypeOK
  <2> QED BY <2>1, <2>2, DataAssumption
<1>2. /\ pc' \in [Proc -> Places] /\ req' \in [Proc -> LocalReqs]
      /\ job' \in [Proc -> LocalJobs] /\ since' \in [Proc -> Nat]
      /\ tries' \in [Proc -> 0..MAX_RETRIES]
      /\ todo' \in [Sweeper -> SUBSET CurrentRows]
      /\ \A t \in Proc : pc'[t] \in {"sleep", "idle"}
  BY NoLocals, LimitAssumption DEF Restart, Places
<1>3. TypeOK'
  BY <1>1, <1>2 DEF TypeInv, TypeOK, Restart, db
<1> QED BY <1>2, <1>3 DEF TypeInv, LocalsOK

LEMMA TypeStep ==
  ASSUME TypeInv, [Next]_vars PROVE TypeInv'
<1>1. CASE \E t \in Thread : Request(t)
  BY <1>1, TypeRequest
<1>2. CASE \E t \in Thread : Handle(t)
  <2>1. PICK t \in Thread : Handle(t)
    BY <1>2
  <2>2. t \in Proc
    BY DEF Proc
  <2>3. CASE SelectFromEmptyQueue(t)
    BY <2>3, TypeRestart DEF SelectFromEmptyQueue, TypeInv, TypeOK
  <2> QED BY <2>1, <2>2, <2>3, TypeGetJob, TypeFinish, TypeUpload, TypeCrawl DEF Handle
<1>3. CASE \E s \in Sweeper : Sweep(s)
  <2>1. PICK s \in Sweeper : Sweep(s)
    BY <1>3
  <2>2. s \in Proc
    BY DEF Proc
  <2> QED BY <2>1, <2>2, TypeSweep, TypeUpload DEF Sweep
<1>4. CASE Crash
  <2>1. faults \in Nat
    BY DEF TypeInv, TypeOK
  <2>2. faults' \in Nat
    BY <1>4, <2>1 DEF Crash
  <2>3. PICK b, c \in BOOLEAN : Restart(b, c)
    BY <1>4 DEF Crash
  <2> QED BY <2>2, <2>3, TypeRestart, Zenon
<1>5. CASE Tick
  <2>1. TypeOK'
    BY <1>5 DEF TypeInv, TypeOK, Tick, db, mem, local, ghosts
  <2>2. LocalsOK'
    BY <1>5 DEF TypeInv, LocalsOK, Tick, local
  <2> QED BY <2>1, <2>2 DEF TypeInv
<1>6. CASE UNCHANGED vars
  <2>1. TypeOK'
    BY <1>6 DEF TypeInv, TypeOK, vars, db, mem, local, world, ghosts
  <2>2. LocalsOK'
    BY <1>6 DEF TypeInv, LocalsOK, vars, local
  <2> QED BY <2>1, <2>2 DEF TypeInv
<1> QED BY <1>1, <1>2, <1>3, <1>4, <1>5, <1>6 DEF Next

LEMMA TypeInvariant == Spec => []TypeInv
<1>1. TypeInv /\ [Next]_vars => TypeInv'
  BY TypeStep
<1> QED BY <1>1, TypeInit, PTL DEF Spec

\* The tables, the shared memory and the locals of every thread keep their types, for
\* any sets of jobs and threads, any number of faults and restarts, and whatever
\* uninitialised Jobs hold.
THEOREM TypeCorrect == Spec => []TypeOK
<1>1. TypeInv => TypeOK
  BY DEF TypeInv
<1> QED BY <1>1, TypeInvariant, PTL

(***************************************************************************)
(* What holds of JobQueue when requests are served one at a time and no     *)
(* sweep runs, for any number of jobs and requests, every priority, timeout *)
(* and limit.  With a second thread it is violated: handleCrawlDataRequest  *)
(* takes no lock.                                                           *)
(***************************************************************************)
\* Requests are served one at a time and no sweep runs.
OneAtATime == Sweeper = {} /\ \A t, u \in Thread : t = u

\* Every crawler that has yet to report is the last one or is late.
CrawlerInv ==
  ~crashed =>
    /\ timeLastCrawl <= now
    /\ \A c \in crawlers : c = timeLastCrawl \/ now - c > CRAWL_TIMEOUT_SECONDS
    /\ \A t \in Thread :
         /\ pc[t] = "countFree" =>
              since[t] <= now /\ \A c \in crawlers : since[t] - c > CRAWL_TIMEOUT_SECONDS
         /\ pc[t] = "setCrawl" => req[t].time = timeLastCrawl

LEMMA OnlyThread ==
  ASSUME OneAtATime, NEW t \in Thread
  PROVE  t \in Proc /\ Proc = Thread /\ \A u \in Thread : u = t
  BY DEF OneAtATime, Proc

\* Where a thread may be after a step of its handler.
LEMMA Moves ==
  ASSUME TypeInv, NEW t \in Thread
  PROVE  /\ Request(t) => pc'[t] \in {"lock", "time", "next", "check"}
         /\ LockJobmtx(t) => pc'[t] \in {"countFree", "countBusy"}
         /\ CountFree(t) \/ CountAgain(t) => pc'[t] \in {"top", "idle"}
         /\ CountBusy(t) => pc'[t] \in {"top", "countAgain"}
         /\ SelectTopJob(t) => pc'[t] \in {"addCur", "top", "idle"}
         /\ AddTopToCurrent(t) => pc'[t] \in {"delTop", "top", "idle"}
         /\ DeleteTopJob(t) => pc'[t] \in {"top", "idle"}
         /\ CheckTime(t) => pc'[t] \in {"getCur", "time", "idle"}
         /\ GetCurrentJob(t) => pc'[t] \in {"delCur", "getCur", "putCur", "addFail", "idle"}
         /\ DeleteCurrentJob(t) => pc'[t] \in {"getCur", "putCur", "addFail", "idle"}
         /\ RenewCurrentJob(t) => pc'[t] \in {"putCur", "idle"}
         /\ AddFailedJob(t) => pc'[t] \in {"upload", "addFail", "idle"}
         /\ NextJob(t) => pc'[t] = "upload"
         /\ InsertJob(t) => pc'[t] \in {"next", "idle", "sweep", "upload", "bump", "bumpErr"}
         /\ CountUp(t) => pc'[t] \in {"insert", "next", "idle", "sweep", "upload"}
         /\ CheckCrawl(t) => pc'[t] \in {"setCrawl", "idle"}
         /\ UpdateCrawlID(t) => pc'[t] = "newCrawl"
         /\ ChangeCrawlID(t) => pc'[t] \in {"storeCrawl", "next", "idle"}
         /\ SetCrawlID(t) => pc'[t] \in {"next", "idle"}
         /\ SelectFromEmptyQueue(t) => pc'[t] \in {"idle", "sleep"}
<1>1. pc \in [Proc -> Places] /\ t \in Proc
  BY DEF TypeInv, TypeOK, Proc
<1>2. \A place, j : Goto(t, place, j) => pc'[t] = place
  BY <1>1 DEF Goto
<1>3. \A o, next, first, giveUp, j :
        AfterQuery(t, o, next, first, giveUp, j) =>
          pc'[t] = IF o = "ok" THEN next ELSE IF Again(t, o) THEN first ELSE giveUp
  BY <1>2, Zenon DEF AfterQuery
<1>4. \A r, place : Begin(t, r, place) => pc'[t] = place
  BY <1>1 DEF Begin
<1>5. Request(t) => pc'[t] \in {"lock", "time", "next", "check"}
  BY <1>4 DEF Request, RequestGetJob, RequestUpdateJob, RequestFinishJob, RequestUploadJob,
              RequestCrawlData
<1>6. LockJobmtx(t) => pc'[t] \in {"countFree", "countBusy"}
  BY <1>2 DEF LockJobmtx
<1>7. CountFree(t) \/ CountAgain(t) => pc'[t] \in {"top", "idle"}
  BY <1>2 DEF CountFree, CountAgain
<1>8. CountBusy(t) => pc'[t] \in {"top", "countAgain"}
  BY <1>2 DEF CountBusy
<1>9. SelectTopJob(t) => pc'[t] \in {"addCur", "top", "idle"}
  BY <1>3 DEF SelectTopJob
<1>10. AddTopToCurrent(t) => pc'[t] \in {"delTop", "top", "idle"}
  BY <1>3 DEF AddTopToCurrent
<1>11. DeleteTopJob(t) => pc'[t] \in {"top", "idle"}
  BY <1>3 DEF DeleteTopJob
<1>12. CheckTime(t) => pc'[t] \in {"getCur", "time", "idle"}
  BY <1>3 DEF CheckTime
<1>13. GetCurrentJob(t) => pc'[t] \in {"delCur", "getCur", "putCur", "addFail", "idle"}
  BY <1>3 DEF GetCurrentJob, AfterGet
<1>14. DeleteCurrentJob(t) => pc'[t] \in {"getCur", "putCur", "addFail", "idle"}
  BY <1>3 DEF DeleteCurrentJob, AfterGet
<1>15. RenewCurrentJob(t) => pc'[t] \in {"putCur", "idle"}
  BY <1>3 DEF RenewCurrentJob
<1>16. AddFailedJob(t) => pc'[t] \in {"upload", "addFail", "idle"}
  BY <1>3 DEF AddFailedJob
<1>17. NextJob(t) => pc'[t] = "upload"
  BY <1>1 DEF NextJob
<1>18. InsertJob(t) => pc'[t] \in {"next", "idle", "sweep", "upload", "bump", "bumpErr"}
  BY <1>2, <1>3 DEF InsertJob, AfterUpload, NoUpload
<1>19. CountUp(t) => pc'[t] \in {"insert", "next", "idle", "sweep", "upload"}
  BY <1>2, <1>3 DEF CountUp, AfterUpload, NoUpload
<1>20. CheckCrawl(t) => pc'[t] \in {"setCrawl", "idle"}
  BY <1>2 DEF CheckCrawl
<1>21. /\ UpdateCrawlID(t) => pc'[t] = "newCrawl"
       /\ ChangeCrawlID(t) => pc'[t] \in {"storeCrawl", "next", "idle"}
  BY <1>2 DEF UpdateCrawlID, ChangeCrawlID, AfterCrawl
<1>22. SetCrawlID(t) => pc'[t] \in {"next", "idle"}
  BY <1>2 DEF SetCrawlID, AfterCrawl
<1>23. SelectFromEmptyQueue(t) => pc'[t] \in {"idle", "sleep"}
  BY <1>1 DEF SelectFromEmptyQueue, Restart
<1> QED
  BY <1>5, <1>6, <1>7, <1>8, <1>9, <1>10, <1>11, <1>12, <1>13, <1>14, <1>15, <1>16,
     <1>17, <1>18, <1>19, <1>20, <1>21, <1>22, <1>23, Zenon

(***************************************************************************)
(* CrawlOnlyWhenNoneWorking                                                 *)
(***************************************************************************)
LEMMA CrawlerTypes ==
  ASSUME TypeInv
  PROVE  /\ now \in Nat /\ crawlers \subseteq Nat /\ timeLastCrawl \in Nat \cup {-1}
         /\ CRAWL_TIMEOUT_SECONDS \in Nat /\ since \in [Proc -> Nat] /\ pc \in [Proc -> Places]
         /\ req \in [Proc -> LocalReqs]
  BY LimitAssumption DEF TypeInv, TypeOK

\* Steps that neither give out nor take back a crawl.
LEMMA CrawlerElsewhere ==
  ASSUME OneAtATime, CrawlerInv, NEW t \in Thread, pc'[t] \notin {"countFree", "setCrawl"},
         UNCHANGED <<timeLastCrawl, crawlers, now, crashed>>
  PROVE  CrawlerInv'
<1>1. \A u \in Thread : pc'[u] \notin {"countFree", "setCrawl"}
  BY OnlyThread
<1> QED BY <1>1 DEF CrawlerInv

LEMMA CrawlerMoving ==
  ASSUME OneAtATime, TypeInv, CrawlerInv, NEW t \in Thread,
         LockJobmtx(t) \/ CountFree(t) \/ CheckCrawl(t) \/ UpdateCrawlID(t)
  PROVE  CrawlerInv'
<1>1. /\ now \in Nat /\ crawlers \subseteq Nat /\ timeLastCrawl \in Nat \cup {-1}
      /\ CRAWL_TIMEOUT_SECONDS \in Nat /\ since \in [Proc -> Nat]
      /\ pc \in [Proc -> Places] /\ req \in [Proc -> LocalReqs]
  BY CrawlerTypes
<1>2. t \in Proc /\ \A u \in Thread : u = t
  BY OnlyThread
<1>3. UNCHANGED <<now, crashed>>
  BY DEF LockJobmtx, CountFree, CheckCrawl, UpdateCrawlID, world, ghosts
<1>4. CASE crashed
  BY <1>3, <1>4 DEF CrawlerInv
<1>5. CASE ~crashed
  <2>1. /\ timeLastCrawl <= now
        /\ \A c \in crawlers : c = timeLastCrawl \/ now - c > CRAWL_TIMEOUT_SECONDS
        /\ pc[t] = "countFree" =>
             since[t] <= now /\ \A c \in crawlers : since[t] - c > CRAWL_TIMEOUT_SECONDS
        /\ pc[t] = "setCrawl" => req[t].time = timeLastCrawl
    BY <1>5 DEF CrawlerInv
  <2>2. CASE LockJobmtx(t)
    <3>1. UNCHANGED <<timeLastCrawl, crawlers>> /\ pc'[t] # "setCrawl"
      BY <2>2, Moves DEF LockJobmtx, world
    <3>2. CASE AlreadyCrawling(now)
      <4>1. pc'[t] # "countFree"
        BY <1>1, <1>2, <2>2, <3>2 DEF LockJobmtx, Goto
      <4> QED BY <1>3, <3>1, <4>1, CrawlerElsewhere
    <3>3. CASE ~AlreadyCrawling(now)
      <4>1. timeLastCrawl = -1 \/ now - timeLastCrawl > CRAWL_TIMEOUT_SECONDS
        BY <1>1, <3>3 DEF AlreadyCrawling
      <4>2. since'[t] = now
        BY <1>1, <1>2, <2>2, <3>3 DEF LockJobmtx, Goto, Stamped
      <4>3. \A c \in crawlers : now - c > CRAWL_TIMEOUT_SECONDS
        BY <1>1, <2>1, <4>1
      <4> QED BY <1>1, <1>2, <1>3, <2>1, <3>1, <4>2, <4>3 DEF CrawlerInv
    <3> QED BY <3>2, <3>3
  <2>3. CASE CountFree(t)
    <3>1. pc[t] = "countFree" /\ pc'[t] \in {"top", "idle"}
      BY <2>3, Moves DEF CountFree
    <3>2. CASE UNCHANGED <<timeLastCrawl, crawlers>>
      BY <1>3, <3>1, <3>2, CrawlerElsewhere
    <3>3. CASE timeLastCrawl' = since[t] /\ crawlers' = crawlers \cup {since[t]}
      <4>1. \A c \in crawlers : now - c > CRAWL_TIMEOUT_SECONDS
        BY <1>1, <1>2, <2>1, <3>1
      <4>2. /\ timeLastCrawl' <= now'
            /\ \A c \in crawlers' : c = timeLastCrawl' \/ now' - c > CRAWL_TIMEOUT_SECONDS
        BY <1>3, <2>1, <3>1, <3>3, <4>1
      <4>3. \A u \in Thread : pc'[u] \notin {"countFree", "setCrawl"}
        BY <1>2, <3>1
      <4> QED BY <4>2, <4>3 DEF CrawlerInv
    <3> QED BY <2>3, <3>2, <3>3 DEF CountFree
  <2>4. CASE CheckCrawl(t)
    <3>1. UNCHANGED <<timeLastCrawl, crawlers>> /\ pc'[t] \in {"setCrawl", "idle"}
      BY <2>4, Moves DEF CheckCrawl, mem, world
    <3>2. pc'[t] = "setCrawl" => req'[t].time = timeLastCrawl
      BY <1>1, <1>2, <2>4 DEF CheckCrawl, CrawlExpected, Goto
    <3>3. \A u \in Thread : pc'[u] # "countFree"
      BY <1>2, <3>1
    <3>4. \A u \in Thread : pc'[u] = "setCrawl" => req'[u].time = timeLastCrawl'
      BY <1>2, <3>1, <3>2
    <3> QED BY <1>3, <2>1, <3>1, <3>3, <3>4 DEF CrawlerInv
  <2>5. CASE UpdateCrawlID(t)
    <3>1. /\ timeLastCrawl' = -1 /\ crawlers' = crawlers \ {req[t].time}
          /\ pc[t] = "setCrawl" /\ pc'[t] \notin {"countFree", "setCrawl"}
      BY <2>5, Moves DEF UpdateCrawlID
    <3>2. \A c \in crawlers' : now - c > CRAWL_TIMEOUT_SECONDS
      BY <2>1, <3>1
    <3>3. timeLastCrawl' <= now
      BY <1>1, <3>1
    <3>4. \A u \in Thread : pc'[u] \notin {"countFree", "setCrawl"}
      BY <1>2, <3>1
    <3> QED BY <1>3, <3>2, <3>3, <3>4 DEF CrawlerInv
  <2> QED BY <2>2, <2>3, <2>4, <2>5
<1> QED BY <1>4, <1>5

LEMMA CrawlerStep ==
  ASSUME OneAtATime, TypeInv, CrawlerInv, [Next]_vars PROVE CrawlerInv'
<1>1. CASE UNCHANGED vars
  BY <1>1 DEF CrawlerInv, vars, mem, local, world, ghosts
<1>2. ASSUME NEW t \in Thread, Request(t) PROVE CrawlerInv'
  <2>1. pc'[t] \notin {"countFree", "setCrawl"}
    BY <1>2, Moves
  <2>2. UNCHANGED <<timeLastCrawl, crawlers, now, crashed>>
    BY <1>2 DEF Request, RequestGetJob, RequestUpdateJob, RequestFinishJob, RequestUploadJob,
                RequestCrawlData, Begin, mem, ghosts
  <2> QED BY <2>1, <2>2, CrawlerElsewhere
<1>3. ASSUME NEW t \in Thread, Handle(t) PROVE CrawlerInv'
  <2>1. CASE LockJobmtx(t) \/ CountFree(t) \/ CheckCrawl(t) \/ UpdateCrawlID(t)
    BY <2>1, CrawlerMoving
  <2>2. CASE \/ CountBusy(t) \/ CountAgain(t) \/ SelectTopJob(t) \/ AddTopToCurrent(t)
             \/ DeleteTopJob(t) \/ CheckTime(t) \/ GetCurrentJob(t) \/ DeleteCurrentJob(t)
    <3>1. UNCHANGED <<timeLastCrawl, crawlers, now, crashed>>
      BY <2>2 DEF CountBusy, CountAgain, SelectTopJob, AddTopToCurrent, DeleteTopJob, CheckTime,
                  GetCurrentJob, DeleteCurrentJob, mem, ghosts
    <3>2. pc'[t] \notin {"countFree", "setCrawl"}
      BY <2>2, Moves
    <3> QED BY <3>1, <3>2, CrawlerElsewhere
  <2>3. CASE \/ RenewCurrentJob(t) \/ AddFailedJob(t) \/ NextJob(t) \/ InsertJob(t)
             \/ CountUp(t) \/ ChangeCrawlID(t) \/ SetCrawlID(t)
    <3>1. UNCHANGED <<timeLastCrawl, crawlers, now, crashed>>
      BY <2>3 DEF RenewCurrentJob, AddFailedJob, NextJob, InsertJob, CountUp, ChangeCrawlID,
                  SetCrawlID, mem, world, ghosts
    <3>2. pc'[t] \notin {"countFree", "setCrawl"}
      BY <2>3, Moves
    <3> QED BY <3>1, <3>2, CrawlerElsewhere
  <2>4. CASE SelectFromEmptyQueue(t)
    BY <2>4 DEF SelectFromEmptyQueue, Restart, CrawlerInv
  <2> QED BY <1>3, <2>1, <2>2, <2>3, <2>4 DEF Handle
<1>4. CASE Crash
  BY <1>4 DEF Crash, Restart, CrawlerInv
<1>5. CASE Tick
  <2>1. now' = now + 1 /\ UNCHANGED <<timeLastCrawl, crawlers, crashed, pc, since, req>>
    BY <1>5 DEF Tick, mem, local, ghosts
  <2>2. /\ now \in Nat /\ crawlers \subseteq Nat /\ timeLastCrawl \in Nat \cup {-1}
        /\ CRAWL_TIMEOUT_SECONDS \in Nat /\ \A u \in Thread : since[u] \in Nat
    BY CrawlerTypes DEF Proc
  <2> QED BY <2>1, <2>2 DEF CrawlerInv
<1>6. Sweeper = {}
  BY DEF OneAtATime
<1> QED BY <1>1, <1>2, <1>3, <1>4, <1>5, <1>6 DEF Next

\* When requests are served one at a time, no crawl is handed out while a crawler that
\* was told to crawl less than CRAWL_TIMEOUT_SECONDS ago has yet to report
\* (handleGetJobRequest, handleCrawlDataRequest).
THEOREM NoCrawlWhileCrawling ==
  ASSUME OneAtATime PROVE Spec => CrawlOnlyWhenNoneWorking
<1>1. Init => CrawlerInv
  BY DEF Init, CrawlerInv, Proc
<1>2. TypeInv /\ CrawlerInv /\ [Next]_vars => CrawlerInv'
  BY CrawlerStep
<1>3. CrawlerInv =>
        [ ~crashed /\ ~crashed' /\ IssuesCrawl =>
            \A c \in crawlers : \E t \in Thread :
               pc[t] = "countFree" /\ since[t] - c > CRAWL_TIMEOUT_SECONDS ]_vars
  BY DEF CrawlerInv, IssuesCrawl
<1> QED BY <1>1, <1>2, <1>3, TypeInvariant, PTL DEF Spec, CrawlOnlyWhenNoneWorking
=============================================================================
