----------------------------- MODULE MCJobQueue -----------------------------
(***************************************************************************)
(* Instances of JobQueue for TLC.                                           *)
(***************************************************************************)
EXTENDS JobQueueProperties, TLC

CONSTANTS j1, j2, j3, t1, t2, sw

\* Threads, and jobs that are all in the queue at first, are interchangeable.
ThreadSymmetry == Permutations(Thread)

\* Four requests while the database answers, three with failures.
FewFaults == faults = 0 \/ requests < 4
=============================================================================
