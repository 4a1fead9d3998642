------------------------------ MODULE QueryPool ------------------------------
(***************************************************************************)
(* The requests of the Database-API that look up a list of keys with        *)
(* MAX_THREADS worker threads: check ("chck"), extract projects ("extp"),   *)
(* latest version of projects ("gppr"), authors by id ("idau") and methods  *)
(* by author ("aume").  The workers of a request share a queue and its      *)
(* lock; each returns a vector, and the handler joins them all.             *)
(*                                                                          *)
(* A key is what the database holds for it: "row", "none", "nameless" (an   *)
(* author without a name or a mail) or "bad" (not a key at all).  errno     *)
(* belongs to a thread; the handler's own is the one of Handler.            *)
(***************************************************************************)
EXTENDS Integers, Sequences, FiniteSets

CONSTANTS
  Worker, Handler,  \* threads of a request: MAX_THREADS workers, the handler's
  Kinds,            \* requests sent in this instance
  None,
  MAX_RETRIES,
  MaxItems, MaxFaults                             \* bounds of the instance

AllKinds == {"chck", "extp", "gppr", "idau", "aume"}
Keys     == {"row", "none", "nameless", "bad"}
Position == 1..MaxItems

ASSUME PoolAssumption  == Worker # {} /\ IsFiniteSet(Worker) /\ Handler \notin Worker
ASSUME KindAssumption  == Kinds \subseteq AllKinds
ASSUME PoolBounds      == MAX_RETRIES \in Nat /\ MaxItems \in Nat /\ MaxFaults \in Nat

Request == [kind : Kinds, keys : UNION {[1..n -> Keys] : n \in 0..MaxItems}]

ASSUME NoneAssumption  == None \notin Request

VARIABLES
  request,          \* the request being handled, or None
  queue,            \* positions no worker has taken yet, a sequence
  pc,               \* per worker: "idle", "take", "query" or "ended"
  item,             \* per worker: the position it is looking up
  tries,            \* per worker: failed attempts of its query (queryWithRetry)
  errno,            \* per thread: 0 or ENETUNREACH, here FALSE or TRUE
  got,              \* per worker: the positions its vector has an answer for
  reply,            \* the last reply, or None
  trouble,          \* history: a query of this request failed for good
  faults            \* failed attempts so far

vars == <<request, queue, pc, item, tries, errno, got, reply, trouble, faults>>

(***************************************************************************)
(* Requests                                                                 *)
(***************************************************************************)
\* The handlers parse all keys before they start a worker.
WellFormed(r) == \A p \in DOMAIN r.keys : r.keys[p] # "bad"

\* What the worker pushes for a key that was looked up without an error.
Pushed(kind, key) == key = "row" \/ (key = "nameless" /\ kind # "idau")

Answerable(r) == {p \in DOMAIN r.keys : Pushed(r.kind, r.keys[p])}

\* A worker of singlePrevProjectThread looks up one project and ends; the workers of
\* the other requests go on until the queue is empty.
Whole(r) == r.kind = "gppr" => Len(r.keys) <= Cardinality(Worker)

Receive(r) ==
  /\ request = None
  /\ request' = r /\ reply' = None /\ trouble' = FALSE
  /\ errno' = [t \in Worker \cup {Handler} |-> FALSE]
  /\ IF WellFormed(r)
       THEN /\ queue' = [p \in DOMAIN r.keys |-> p]
            /\ pc' = [w \in Worker |-> "take"]
       ELSE UNCHANGED <<queue, pc>>
  /\ got' = [w \in Worker |-> {}]
  /\ tries' = [w \in Worker |-> 0]
  /\ UNCHANGED <<item, faults>>

Nothing == [p \in Position |-> 0]

\* clientError before any worker is started.
Reject ==
  /\ request # None /\ ~WellFormed(request)
  /\ reply' = [code |-> "client", times |-> Nothing]
  /\ request' = None
  /\ UNCHANGED <<queue, pc, item, tries, errno, got, trouble, faults>>

(***************************************************************************)
(* A worker                                                                 *)
(***************************************************************************)
\* MUTANT of TakeItem: front() and pop() are not done under one lock.
TakesUnlocked(w) ==
  /\ pc[w] = "take"
  /\ IF queue = <<>>
       THEN /\ pc' = [pc EXCEPT ![w] = "ended"]
            /\ UNCHANGED <<queue, item>>
       ELSE /\ item' = [item EXCEPT ![w] = Head(queue)]
            /\ queue' \in {queue, Tail(queue)}
            /\ pc' = [pc EXCEPT ![w] = "query"]
  /\ tries' = [tries EXCEPT ![w] = 0]
  /\ UNCHANGED <<request, errno, got, reply, trouble, faults>>

\* MUTANT of TakeItem: a worker that finds the queue empty looks again.
LooksAgain(w) ==
  /\ pc[w] = "take"
  /\ \/ queue = <<>> /\ UNCHANGED <<queue, item, pc, tries>>
     \/ /\ queue # <<>>
        /\ item' = [item EXCEPT ![w] = Head(queue)]
        /\ queue' = Tail(queue)
        /\ pc' = [pc EXCEPT ![w] = "query"]
        /\ tries' = [tries EXCEPT ![w] = 0]
  /\ UNCHANGED <<request, errno, got, reply, trouble, faults>>

\* Under queueLock: the first position, or the end of the worker.
TakeItem(w) ==
  /\ pc[w] = "take"
  /\ IF queue = <<>>
       THEN /\ pc' = [pc EXCEPT ![w] = "ended"]
            /\ UNCHANGED <<queue, item>>
       ELSE /\ item' = [item EXCEPT ![w] = Head(queue)]
            /\ queue' = Tail(queue)
            /\ pc' = [pc EXCEPT ![w] = "query"]
  /\ tries' = [tries EXCEPT ![w] = 0]
  /\ errno' = [errno EXCEPT ![w] = IF queue = <<>> THEN @ ELSE FALSE]
  /\ UNCHANGED <<request, got, reply, trouble, faults>>

\* errno after an attempt: prevProject does not reset it, the others do.
ErrnoAfter(w, ok) == ~ok \/ (request.kind = "gppr" /\ errno[w])

\* MUTANT of Again: one retry too many.
AlwaysAgain(w, ok) == ErrnoAfter(w, ok) /\ tries[w] <= MAX_RETRIES

\* queryWithRetry goes on; usleep is not modelled.
Again(w, ok) == ErrnoAfter(w, ok) /\ tries[w] + 1 <= MAX_RETRIES

\* singlePrevProjectThread returns after its first item, whatever came of it;
\* singleSearchProjectThread keeps what it has when a query failed; the others
\* return an empty vector then.
Ends(w, ok) == request.kind = "gppr" \/ ErrnoAfter(w, ok)

Collected(w, ok) ==
  CASE ok /\ Pushed(request.kind, request.keys[item[w]]) -> got[w] \cup {item[w]}
    [] ~ok /\ request.kind \in {"chck", "idau", "aume"}  -> {}
    [] OTHER                                              -> got[w]

\* One attempt of searchForProject, hashToMethods, prevProject, authorToMethods
\* or idToAuthor, and what the worker does with its outcome.  The projects whose
\* license getMethod looks up are stored (ProjectUpload, RowsHaveProject).
Query(w) ==
  /\ pc[w] = "query"
  /\ \E ok \in BOOLEAN :
       /\ ok \/ faults < MaxFaults
       /\ faults' = IF ok THEN faults ELSE faults + 1
       /\ errno' = [errno EXCEPT ![w] = ErrnoAfter(w, ok)]
       /\ IF Again(w, ok)
            THEN /\ tries' = [tries EXCEPT ![w] = @ + 1]
                 /\ UNCHANGED <<pc, got, trouble>>
            ELSE /\ pc' = [pc EXCEPT ![w] = IF Ends(w, ok) THEN "ended" ELSE "take"]
                 /\ got' = [got EXCEPT ![w] = Collected(w, ok)]
                 /\ trouble' = (trouble \/ ~ok)
                 /\ UNCHANGED tries
  /\ UNCHANGED <<request, queue, item, reply>>

(***************************************************************************)
(* The handler                                                              *)
(***************************************************************************)
\* How many of the joined vectors have an answer for position p.
Times(p) == Cardinality({w \in Worker : p \in got[w]})

\* join() of all workers; errno is looked at in the handler's thread.
Join ==
  /\ request # None /\ WellFormed(request)
  /\ \A w \in Worker : pc[w] = "ended"
  /\ reply' = IF errno[Handler] THEN [code |-> "server", times |-> Nothing]
              ELSE [code |-> "ok", times |-> [p \in Position |-> Times(p)]]
  /\ request' = None
  /\ pc' = [w \in Worker |-> "idle"]
  /\ UNCHANGED <<queue, item, tries, errno, got, trouble, faults>>

Init ==
  /\ request = None /\ queue = <<>> /\ reply = None /\ trouble = FALSE /\ faults = 0
  /\ pc = [w \in Worker |-> "idle"]
  /\ item = [w \in Worker |-> 1]
  /\ tries = [w \in Worker |-> 0]
  /\ errno = [t \in Worker \cup {Handler} |-> FALSE]
  /\ got = [w \in Worker |-> {}]

Work(w) == TakeItem(w) \/ Query(w)

Next == \/ \E r \in Request : Receive(r)
        \/ Reject \/ Join
        \/ \E w \in Worker : Work(w)

Spec == Init /\ [][Next]_vars

\* The handler and every worker thread run on; requests come as they like.
FairSpec == /\ Spec
            /\ WF_vars(Reject \/ Join)
            /\ \A w \in Worker : WF_vars(Work(w))

(***************************************************************************)
(* Properties                                                               *)
(***************************************************************************)
\* The types of a request's queue, workers and replies; queryWithRetry counts no more
\* than MAX_RETRIES failed attempts before the one that gives up.
TypeOK ==
  /\ request \in Request \cup {None}
  /\ queue \in Seq(Position)
  /\ pc \in [Worker -> {"idle", "take", "query", "ended"}]
  /\ item \in [Worker -> Nat]
  /\ tries \in [Worker -> Nat]
  /\ errno \in [Worker \cup {Handler} -> BOOLEAN]
  /\ got \in [Worker -> SUBSET Position]
  /\ trouble \in BOOLEAN
  /\ faults \in Nat
  /\ \A w \in Worker : tries[w] <= MAX_RETRIES

Lookup == INSTANCE ParallelLookup

\* The pool does what ParallelLookup promises: whatever order the workers take
\* and answer positions in, the joined reply has each answerable position once,
\* and all of them unless a query failed more than MAX_RETRIES times or the request is
\* a gppr with more projects than there are workers (singlePrevProjectThread).
ImplementsLookup == Lookup!Spec

\* Every request that came in is replied to (getMethods and its siblings join
\* all workers, and every worker ends).
EveryRequestReplied == request # None ~> request = None
=============================================================================
