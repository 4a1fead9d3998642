--------------------------- MODULE TwoLeadersProofs ---------------------------
(***************************************************************************)
(* Two leaders on the same tables lose no job and give none more retries,   *)
(* for any number of jobs, threads, sweepers, faults and restarts.          *)
(*                                                                          *)
(* What JobFlowProofs shows of one leader is not enough: its invariants say *)
(* where a job is that a thread is about to delete, and the other leader's  *)
(* threads take it from there as well.  The invariant of a leader therefore *)
(* counts the jobs in the hands of the other one as kept, and a step of one *)
(* keeps every job the other one relies on, or puts it in the queue (Saved),*)
(* where the other one is about to delete it: such a job is crossed.        *)
(***************************************************************************)
EXTENDS TwoLeaders, TLAPS

HandsA == {id \in Uuid : A!InFlight(id)}
HandsB == {id \in Uuid : B!InFlight(id)}

Typed   == A!TypeInv /\ B!TypeInv
Named   == A!NewIsNobody /\ B!NewIsNobody
Bounded == A!RetryInv /\ B!RetryInv
Safe    == A!LossInv(HandsB, crossed) /\ B!LossInv(HandsA, crossed)

LeadersInv == Typed /\ Named /\ Bounded /\ Safe

(***************************************************************************)
(* What is the same seen from both.                                         *)
(***************************************************************************)
LEMMA SameTypes ==
  /\ A!QueueRows = B!QueueRows /\ A!CurrentRows = B!CurrentRows
  /\ \A X : A!IsFiniteSet(X) <=> B!IsFiniteSet(X)
<1>1. A!QueueRows = B!QueueRows /\ A!CurrentRows = B!CurrentRows
  BY DEF A!QueueRows, B!QueueRows, A!CurrentRows, B!CurrentRows
<1>2. ASSUME NEW X PROVE A!IsFiniteSet(X) <=> B!IsFiniteSet(X)
  BY Zenon DEF A!IsFiniteSet, B!IsFiniteSet
<1> QED BY <1>1, <1>2

\* What one of them keeps, the other one keeps.
LEMMA SameKept ==
  ASSUME NEW id \in Uuid
  PROVE  /\ A!Kept(HandsB, id) <=> B!Kept(HandsA, id)
         /\ A!Kept(HandsB, id)' <=> B!Kept(HandsA, id)'
<1>1. A!Kept(HandsB, id) <=> B!Kept(HandsA, id)
  BY Zenon DEF A!Kept, B!Kept, A!CurrentOf, B!CurrentOf, HandsA, HandsB
<1>2. A!Kept(HandsB, id)' <=> B!Kept(HandsA, id)'
  BY Zenon DEF A!Kept, B!Kept, A!CurrentOf, B!CurrentOf, HandsA, HandsB
<1> QED BY <1>1, <1>2

LEMMA SameClean ==
  (A!Clean <=> B!Clean) /\ (A!Clean' <=> B!Clean')
BY Zenon DEF A!Clean, B!Clean

(***************************************************************************)
(* A step of leader A.                                                      *)
(***************************************************************************)
LEMMA TypedA ==
  ASSUME Typed, [A!Next]_(A!vars), UNCHANGED memoryB
  PROVE  Typed'
<1>1. A!TypeInv
  BY Zenon DEF Typed
<1>2. A!TypeInv'
  BY <1>1, A!TypeStep, EachAssumption, Zenon
<1>3. B!TypeOK /\ B!LocalsOK /\ A!TypeOK'
  BY <1>2, Zenon DEF Typed, A!TypeInv, B!TypeInv
<1>4. B!TypeOK'
  <2>1. B!IsFiniteSet(jobsqueue)' /\ (jobsqueue \subseteq B!QueueRows)'
        /\ (currentjobs \subseteq B!CurrentRows)'
    BY <1>3, SameTypes, Zenon DEF A!TypeOK
  <2>2. UNCHANGED <<jobmtxB, numberOfJobsB, timeLastRecountB, timeLastCrawlB, crawlIDB,
                    pcB, reqB, jobB, sinceB, triesB, todoB>>
    BY Zenon DEF memoryB
  <2> QED BY <1>3, <2>1, <2>2, Zenon DEF A!TypeOK, B!TypeOK
<1>5. B!LocalsOK'
  BY <1>3 DEF B!LocalsOK, memoryB
<1> QED BY <1>2, <1>4, <1>5, Zenon DEF Typed, B!TypeInv

LEMMA BoundedA ==
  ASSUME Typed, Bounded, [A!Next]_(A!vars), UNCHANGED memoryB
  PROVE  Bounded'
<1>1. A!TypeInv /\ A!RetryInv /\ B!RetryInv
  BY Zenon DEF Typed, Bounded
<1>2. A!RetryInv'
  BY <1>1, A!RetryStep, EachAssumption, Zenon
<1>3. ASSUME ~undef'
      PROVE  B!Few(jobsqueue)' /\ B!Few(currentjobs)' /\ B!HandsFew' /\ B!CopiesFew'
  <2>1. ~undef
    BY <1>3, A!UndefStays, EachAssumption, Zenon
  <2>2. A!Few(jobsqueue)' /\ A!Few(currentjobs)'
    BY <1>2, <1>3, Zenon DEF A!RetryInv
  <2>3. B!HandsFew /\ B!CopiesFew
    BY <1>1, <2>1, Zenon DEF B!RetryInv
  <2>4. pcB' = pcB /\ jobB' = jobB /\ todoB' = todoB
    BY Zenon DEF memoryB
  <2>5. B!Few(jobsqueue)' /\ B!Few(currentjobs)'
    BY <2>2, Zenon DEF A!Few, B!Few
  <2>6. B!HandsFew' /\ B!CopiesFew'
    BY <2>3, <2>4, Zenon DEF B!HandsFew, B!CopiesFew, B!Few
  <2> QED BY <2>5, <2>6
<1>4. B!RetryInv'
  BY <1>3, Zenon DEF B!RetryInv
<1> QED BY <1>2, <1>4, Zenon DEF Bounded

LEMMA NamedA ==
  ASSUME Typed, Named, [A!Next]_(A!vars), UNCHANGED memoryB
  PROVE  Named'
<1>1. A!TypeInv /\ A!NewIsNobody /\ B!NewIsNobody
  BY Zenon DEF Typed, Named
<1>2. A!NewIsNobody'
  BY <1>1, A!NewStep, EachAssumption, Zenon
<1>3. pcB' = pcB /\ jobB' = jobB /\ reqB' = reqB
  BY Zenon DEF memoryB
<1>4. B!NewIsNobody'
  BY <1>1, <1>3, Zenon DEF B!NewIsNobody, B!IsNew
<1> QED BY <1>2, <1>4, Zenon DEF Named

LEMMA SafeA ==
  ASSUME Typed, Typed', Named, Safe, [A!Next]_(A!vars), UNCHANGED memoryB,
         crossed \subseteq crossed',
         \A id \in Uuid : credit'[id] > credit[id] /\ B!Leaving(id) => id \in crossed'
  PROVE  Safe'
<1>1. /\ A!TypeInv /\ B!TypeInv /\ A!NewIsNobody
      /\ A!LossInv(HandsB, crossed) /\ B!LossInv(HandsA, crossed)
  BY Zenon DEF Typed, Named, Safe
<1>2. PICK H, X, Y : H = HandsB /\ X = crossed /\ Y = crossed'
  OBVIOUS
<1>3. pcB' = pcB /\ jobB' = jobB /\ reqB' = reqB
  BY Zenon DEF memoryB
<1>4. HandsB' = H
  BY <1>2, <1>3, Zenon DEF HandsB, B!InFlight
<1>5. A!LossInv(H, Y)' /\ (A!Clean' => A!Saved(H))
  <2>1. A!LossInv(H, X) /\ X \subseteq Y
    BY <1>1, <1>2, Zenon
  <2> QED BY <1>1, <2>1, A!LossStep, EachAssumption, Zenon
<1>6. A!LossInv(HandsB, crossed)'
  BY <1>2, <1>4, <1>5, Zenon
<1>7. ASSUME B!Clean'
      PROVE  B!UsedKnown(HandsA, crossed)' /\ B!HandoutKept(HandsA, crossed)'
             /\ B!TakenIsAsked'
  <2>1. A!Clean' /\ A!Saved(H)
    BY <1>5, <1>7, SameClean, Zenon
  <2>2. B!Clean
    BY <1>1, <2>1, A!CleanBefore, SameClean, EachAssumption, Zenon
  <2>3. B!HandoutKept(HandsA, crossed) /\ B!TakenIsAsked
    BY <1>1, <2>2, Zenon DEF B!LossInv
  <2>4. B!UsedKnown(HandsA, crossed)'
    <3>1. A!UsedKnown(HandsB, crossed)'
      BY <1>6, <2>1, Zenon DEF A!LossInv
    <3>2. used' \subseteq Uuid
      BY Zenon DEF Typed, B!TypeInv, B!TypeOK
    <3> QED BY <3>1, <3>2, SameKept, Zenon
            DEF A!UsedKnown, B!UsedKnown, A!RowsOf, B!RowsOf
  <2>5. B!HandoutKept(HandsA, crossed)'
    <3> SUFFICES ASSUME NEW t \in ThreadB, pcB[t] = "delTop", NEW id, id = jobB[t].jobid,
                        id \notin overtaken' \cup crossed'
                 PROVE  B!Kept(HandsA, id)'
      BY <1>3, Zenon DEF B!HandoutKept
    <3>1. id \in Uuid
      <4>1. t \in B!Proc
        BY Zenon DEF B!Proc
      <4> QED BY <1>1, <4>1 DEF B!TypeInv, B!LocalsOK
    <3>2. id \notin overtaken \cup crossed
      BY <2>1, Zenon DEF A!Saved
    <3>3. A!Kept(HandsB, id)
      BY <2>3, <3>1, <3>2, SameKept, Zenon DEF B!HandoutKept
    <3>4. ~(credit'[id] > credit[id])
      BY <3>1, Zenon DEF B!Leaving
    <3>5. A!Kept(H, id)'
      BY <1>2, <2>1, <3>1, <3>3, <3>4, Zenon DEF A!Saved
    <3>6. A!Kept(HandsB, id)'
      BY <1>4, <3>5, Zenon
    <3> QED BY <3>1, <3>6, SameKept, Zenon
  <2>6. B!TakenIsAsked'
    BY <1>3, <2>3, Zenon DEF B!TakenIsAsked
  <2> QED BY <2>4, <2>5, <2>6
<1>8. B!LossInv(HandsA, crossed)'
  BY <1>7, Zenon DEF B!LossInv
<1> QED BY <1>6, <1>8, Zenon DEF Safe

(***************************************************************************)
(* A step of leader B.                                                      *)
(***************************************************************************)
LEMMA TypedB ==
  ASSUME Typed, [B!Next]_(B!vars), UNCHANGED memoryA
  PROVE  Typed'
<1>1. B!TypeInv
  BY Zenon DEF Typed
<1>2. B!TypeInv'
  BY <1>1, B!TypeStep, EachAssumption, Zenon
<1>3. A!TypeOK /\ A!LocalsOK /\ B!TypeOK'
  BY <1>2, Zenon DEF Typed, B!TypeInv, A!TypeInv
<1>4. A!TypeOK'
  <2>1. A!IsFiniteSet(jobsqueue)' /\ (jobsqueue \subseteq A!QueueRows)'
        /\ (currentjobs \subseteq A!CurrentRows)'
    BY <1>3, SameTypes, Zenon DEF B!TypeOK
  <2>2. UNCHANGED <<jobmtxA, numberOfJobsA, timeLastRecountA, timeLastCrawlA, crawlIDA,
                    pcA, reqA, jobA, sinceA, triesA, todoA>>
    BY Zenon DEF memoryA
  <2> QED BY <1>3, <2>1, <2>2, Zenon DEF B!TypeOK, A!TypeOK
<1>5. A!LocalsOK'
  BY <1>3 DEF A!LocalsOK, memoryA
<1> QED BY <1>2, <1>4, <1>5, Zenon DEF Typed, A!TypeInv

LEMMA BoundedB ==
  ASSUME Typed, Bounded, [B!Next]_(B!vars), UNCHANGED memoryA
  PROVE  Bounded'
<1>1. B!TypeInv /\ B!RetryInv /\ A!RetryInv
  BY Zenon DEF Typed, Bounded
<1>2. B!RetryInv'
  BY <1>1, B!RetryStep, EachAssumption, Zenon
<1>3. ASSUME ~undef'
      PROVE  A!Few(jobsqueue)' /\ A!Few(currentjobs)' /\ A!HandsFew' /\ A!CopiesFew'
  <2>1. ~undef
    BY <1>3, B!UndefStays, EachAssumption, Zenon
  <2>2. B!Few(jobsqueue)' /\ B!Few(currentjobs)'
    BY <1>2, <1>3, Zenon DEF B!RetryInv
  <2>3. A!HandsFew /\ A!CopiesFew
    BY <1>1, <2>1, Zenon DEF A!RetryInv
  <2>4. pcA' = pcA /\ jobA' = jobA /\ todoA' = todoA
    BY Zenon DEF memoryA
  <2>5. A!Few(jobsqueue)' /\ A!Few(currentjobs)'
    BY <2>2, Zenon DEF B!Few, A!Few
  <2>6. A!HandsFew' /\ A!CopiesFew'
    BY <2>3, <2>4, Zenon DEF A!HandsFew, A!CopiesFew, A!Few
  <2> QED BY <2>5, <2>6
<1>4. A!RetryInv'
  BY <1>3, Zenon DEF A!RetryInv
<1> QED BY <1>2, <1>4, Zenon DEF Bounded

LEMMA NamedB ==
  ASSUME Typed, Named, [B!Next]_(B!vars), UNCHANGED memoryA
  PROVE  Named'
<1>1. B!TypeInv /\ B!NewIsNobody /\ A!NewIsNobody
  BY Zenon DEF Typed, Named
<1>2. B!NewIsNobody'
  BY <1>1, B!NewStep, EachAssumption, Zenon
<1>3. pcA' = pcA /\ jobA' = jobA /\ reqA' = reqA
  BY Zenon DEF memoryA
<1>4. A!NewIsNobody'
  BY <1>1, <1>3, Zenon DEF A!NewIsNobody, A!IsNew
<1> QED BY <1>2, <1>4, Zenon DEF Named

LEMMA SafeB ==
  ASSUME Typed, Typed', Named, Safe, [B!Next]_(B!vars), UNCHANGED memoryA,
         crossed \subseteq crossed',
         \A id \in Uuid : credit'[id] > credit[id] /\ A!Leaving(id) => id \in crossed'
  PROVE  Safe'
<1>1. /\ B!TypeInv /\ A!TypeInv /\ B!NewIsNobody
      /\ B!LossInv(HandsA, crossed) /\ A!LossInv(HandsB, crossed)
  BY Zenon DEF Typed, Named, Safe
<1>2. PICK H, X, Y : H = HandsA /\ X = crossed /\ Y = crossed'
  OBVIOUS
<1>3. pcA' = pcA /\ jobA' = jobA /\ reqA' = reqA
  BY Zenon DEF memoryA
<1>4. HandsA' = H
  BY <1>2, <1>3, Zenon DEF HandsA, A!InFlight
<1>5. B!LossInv(H, Y)' /\ (B!Clean' => B!Saved(H))
  <2>1. B!LossInv(H, X) /\ X \subseteq Y
    BY <1>1, <1>2, Zenon
  <2> QED BY <1>1, <2>1, B!LossStep, EachAssumption, Zenon
<1>6. B!LossInv(HandsA, crossed)'
  BY <1>2, <1>4, <1>5, Zenon
<1>7. ASSUME A!Clean'
      PROVE  A!UsedKnown(HandsB, crossed)' /\ A!HandoutKept(HandsB, crossed)'
             /\ A!TakenIsAsked'
  <2>1. B!Clean' /\ B!Saved(H)
    BY <1>5, <1>7, SameClean, Zenon
  <2>2. A!Clean
    BY <1>1, <2>1, B!CleanBefore, SameClean, EachAssumption, Zenon
  <2>3. A!HandoutKept(HandsB, crossed) /\ A!TakenIsAsked
    BY <1>1, <2>2, Zenon DEF A!LossInv
  <2>4. A!UsedKnown(HandsB, crossed)'
    <3>1. B!UsedKnown(HandsA, crossed)'
      BY <1>6, <2>1, Zenon DEF B!LossInv
    <3>2. used' \subseteq Uuid
      BY Zenon DEF Typed, A!TypeInv, A!TypeOK
    <3> QED BY <3>1, <3>2, SameKept, Zenon
            DEF B!UsedKnown, A!UsedKnown, B!RowsOf, A!RowsOf
  <2>5. A!HandoutKept(HandsB, crossed)'
    <3> SUFFICES ASSUME NEW t \in ThreadA, pcA[t] = "delTop", NEW id, id = jobA[t].jobid,
                        id \notin overtaken' \cup crossed'
                 PROVE  A!Kept(HandsB, id)'
      BY <1>3, Zenon DEF A!HandoutKept
    <3>1. id \in Uuid
      <4>1. t \in A!Proc
        BY Zenon DEF A!Proc
      <4> QED BY <1>1, <4>1 DEF A!TypeInv, A!LocalsOK
    <3>2. id \notin overtaken \cup crossed
      BY <2>1, Zenon DEF B!Saved
    <3>3. B!Kept(HandsA, id)
      BY <2>3, <3>1, <3>2, SameKept, Zenon DEF A!HandoutKept
    <3>4. ~(credit'[id] > credit[id])
      BY <3>1, Zenon DEF A!Leaving
    <3>5. B!Kept(H, id)'
      BY <1>2, <2>1, <3>1, <3>3, <3>4, Zenon DEF B!Saved
    <3>6. B!Kept(HandsA, id)'
      BY <1>4, <3>5, Zenon
    <3> QED BY <3>1, <3>6, SameKept, Zenon
  <2>6. A!TakenIsAsked'
    BY <1>3, <2>3, Zenon DEF A!TakenIsAsked
  <2> QED BY <2>4, <2>5, <2>6
<1>8. A!LossInv(HandsB, crossed)'
  BY <1>7, Zenon DEF A!LossInv
<1> QED BY <1>6, <1>8, Zenon DEF Safe

(***************************************************************************)
(* The theorems                                                             *)
(***************************************************************************)
LEMMA LeadersInit == Init => LeadersInv
<1> SUFFICES ASSUME A!Init, B!Init PROVE LeadersInv
  BY Zenon DEF Init
<1>1. Typed
  BY A!TypeInit, B!TypeInit, EachAssumption, Zenon DEF Typed
<1>2. Bounded
  BY A!RetryInit, B!RetryInit, EachAssumption, Zenon DEF Bounded
<1>3. Named
  BY A!NewInit, B!NewInit, EachAssumption, Zenon DEF Named
<1>4. PICK H, G, X : H = HandsB /\ G = HandsA /\ X = crossed
  OBVIOUS
<1>5. A!LossInv(H, X) /\ B!LossInv(G, X)
  BY A!LossInit, B!LossInit, EachAssumption, Zenon
<1>6. Safe
  BY <1>4, <1>5, Zenon DEF Safe
<1> QED BY <1>1, <1>2, <1>3, <1>6, Zenon DEF LeadersInv

LEMMA LeadersNext == LeadersInv /\ [Next]_vars => LeadersInv'
<1> SUFFICES ASSUME Typed, Named, Bounded, Safe, [Next]_vars
             PROVE  Typed' /\ Named' /\ Bounded' /\ Safe'
  BY Zenon DEF LeadersInv
<1>1. CASE /\ A!Next /\ UNCHANGED memoryB
           /\ crossed' = crossed \cup {id \in PutBack : B!Leaving(id)}
  <2>1. /\ crossed \subseteq crossed'
        /\ \A id \in Uuid : credit'[id] > credit[id] /\ B!Leaving(id) => id \in crossed'
    BY <1>1, Zenon DEF PutBack
  <2> QED BY <1>1, <2>1, TypedA, NamedA, BoundedA, SafeA, Zenon
<1>2. CASE /\ B!Next /\ UNCHANGED memoryA
           /\ crossed' = crossed \cup {id \in PutBack : A!Leaving(id)}
  <2>1. /\ crossed \subseteq crossed'
        /\ \A id \in Uuid : credit'[id] > credit[id] /\ A!Leaving(id) => id \in crossed'
    BY <1>2, Zenon DEF PutBack
  <2> QED BY <1>2, <2>1, TypedB, NamedB, BoundedB, SafeB, Zenon
<1>3. CASE UNCHANGED vars
  <2>1. /\ UNCHANGED shared /\ UNCHANGED memoryA /\ UNCHANGED memoryB
        /\ crossed' = crossed
    BY <1>3, Zenon DEF vars
  <2>2. UNCHANGED A!vars
    BY <2>1 DEF shared, memoryA, A!vars, A!db, A!mem, A!local, A!world, A!ghosts
  <2>3. \A id \in Uuid : ~(credit'[id] > credit[id])
    <3>1. credit \in [Uuid -> Int] /\ credit' = credit
      BY <2>1, Zenon DEF Typed, A!TypeInv, A!TypeOK, shared
    <3> QED BY <3>1
  <2> QED BY <2>1, <2>2, <2>3, TypedA, NamedA, BoundedA, SafeA, Zenon
<1> QED BY <1>1, <1>2, <1>3, Zenon DEF Next

LEMMA LeadersInvariant == Spec => []LeadersInv
BY LeadersInit, LeadersNext, PTL DEF Spec

\* As long as the database answers and both processes live, no interleaving of the
\* handlers and sweeps of two leaders loses a job of the tables they share, on a retry or
\* not, but the one in which it comes back to the queue between the INSERT and the DELETE
\* of a getTopJob that hands it out.
THEOREM JobsKeptByTwo == Spec => []NoJobLost
<1>1. LeadersInv => NoJobLost
  <2> SUFFICES ASSUME LeadersInv, faults = 0, ~crashed,
                      NEW id \in used \ (overtaken \cup crossed)
               PROVE  A!Known(id) \/ B!Known(id)
    BY Zenon DEF NoJobLost
  <2>1. A!UsedKnown(HandsB, crossed)
    BY Zenon DEF LeadersInv, Safe, A!LossInv, A!Clean
  <2> QED BY <2>1, Zenon DEF A!UsedKnown, A!Kept, A!Known, B!Known, HandsB
<1> QED BY <1>1, LeadersInvariant, PTL

\* Two leaders that requeue the same job give it no more than MAX_JOB_RETRIES retries,
\* whatever queries fail and processes restart.
THEOREM RetriesBoundedForTwo == Spec => []RetriesStillBounded
<1>1. LeadersInv => RetriesStillBounded
  BY Zenon DEF LeadersInv, Bounded, A!RetryInv, A!Few, RetriesStillBounded
<1> QED BY <1>1, LeadersInvariant, PTL
=============================================================================
