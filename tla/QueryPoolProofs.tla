---------------------------- MODULE QueryPoolProofs ----------------------------
(***************************************************************************)
(* The pool of query workers implements ParallelLookup, for any number of   *)
(* workers, keys, retries and failed attempts.                              *)
(*                                                                          *)
(* The argument: a position is in the queue, in the hands of one worker, in *)
(* the vector of one worker, or settled without an answer; it is never in   *)
(* two of these places, and none gets lost before a query failed for good.  *)
(***************************************************************************)
EXTENDS QueryPool, FiniteSetTheorems, TLAPS

Active == request # None /\ WellFormed(request)

\* The positions worker w answers for: the ones of its vector and the one it looks up.
InHand(w) == IF pc[w] = "query" THEN {item[w]} ELSE {}
Held(w)   == got[w] \cup InHand(w)
Waiting   == {queue[i] : i \in 1..Len(queue)}
Takers    == {w \in Worker : pc[w] = "take"}

\* Workers run only while a well-formed request is handled.
Phases == /\ ~Active => \A w \in Worker : pc[w] = "idle"
          /\ Active  => \A w \in Worker : pc[w] \in {"take", "query", "ended"}

\* No position is in two places.
OnePlace ==
  /\ \A i, j \in 1..Len(queue) : queue[i] = queue[j] => i = j
  /\ \A w \in Worker : Waiting \cap Held(w) = {} /\ got[w] \cap InHand(w) = {}
  /\ \A w, v \in Worker : w # v => Held(w) \cap Held(v) = {}

\* Positions are positions of the request, and only answerable ones are answered.
OfRequest ==
  /\ Waiting \subseteq DOMAIN request.keys
  /\ \A w \in Worker : InHand(w) \subseteq DOMAIN request.keys /\ got[w] \subseteq Answerable(request)

\* Before a query failed for good, every answerable position is somewhere.
NothingLost ==
  ~trouble => \A p \in Answerable(request) : p \in Waiting \/ \E w \in Worker : p \in Held(w)

\* Before a query failed for good, a worker only ends at an empty queue; a worker
\* of a gppr ends after one item, and there is a worker for each item.
Drained ==
  /\ request.kind # "gppr" /\ ~trouble =>
       \A w \in Worker : pc[w] = "ended" => queue = <<>>
  /\ request.kind = "gppr" /\ Whole(request) => Len(queue) <= Cardinality(Takers)

PoolInv ==
  /\ TypeOK /\ Phases
  /\ errno[Handler] = FALSE
  /\ Active => OnePlace /\ OfRequest /\ NothingLost /\ Drained

(***************************************************************************)
(* Requests and the queue                                                   *)
(***************************************************************************)
LEMMA RequestKeys ==
  ASSUME NEW r \in Request
  PROVE  \E n \in 0..MaxItems : /\ r.keys \in [1..n -> Keys] /\ DOMAIN r.keys = 1..n
                                /\ Len(r.keys) = n
<1>1. PICK n \in 0..MaxItems : r.keys \in [1..n -> Keys]
  BY DEF Request
<1>2. n \in Nat
  BY PoolBounds
<1> QED BY <1>1, <1>2

\* The queue a request starts with.
LEMMA FirstQueue ==
  ASSUME NEW r \in Request, NEW q, q = [p \in DOMAIN r.keys |-> p]
  PROVE  /\ q \in Seq(Position) /\ Len(q) = Len(r.keys)
         /\ \A i \in 1..Len(q) : q[i] = i
         /\ DOMAIN r.keys = 1..Len(q)
<1>1. PICK n \in 0..MaxItems : r.keys \in [1..n -> Keys] /\ DOMAIN r.keys = 1..n /\ Len(r.keys) = n
  BY RequestKeys
<1>2. n \in Nat /\ 1..n \subseteq Position
  BY PoolBounds DEF Position
<1>3. q \in [1..n -> Position]
  BY <1>1, <1>2
<1> QED BY <1>1, <1>2, <1>3

\* What taking the first item does to the queue.
LEMMA TakeFirst ==
  ASSUME queue \in Seq(Position), queue # <<>>
  PROVE  /\ Head(queue) = queue[1] /\ queue[1] \in Position
         /\ Tail(queue) \in Seq(Position) /\ Len(Tail(queue)) = Len(queue) - 1
         /\ Len(queue) \in Nat \ {0}
         /\ \A i \in 1..Len(queue) - 1 : Tail(queue)[i] = queue[i + 1]
  OBVIOUS

(***************************************************************************)
(* Type correctness                                                         *)
(***************************************************************************)
\* The Booleans of TypeOK, and the rest of it.
ErrnoOK == errno \in [Worker \cup {Handler} -> BOOLEAN] /\ trouble \in BOOLEAN

RestOK ==
  /\ request \in Request \cup {None}
  /\ queue \in Seq(Position)
  /\ pc \in [Worker -> {"idle", "take", "query", "ended"}]
  /\ item \in [Worker -> Nat]
  /\ tries \in [Worker -> Nat]
  /\ got \in [Worker -> SUBSET Position]
  /\ faults \in Nat
  /\ \A w \in Worker : tries[w] <= MAX_RETRIES

LEMMA TypeParts == /\ TypeOK <=> ErrnoOK /\ RestOK
                   /\ TypeOK' <=> ErrnoOK' /\ RestOK'
  BY Zenon DEF TypeOK, ErrnoOK, RestOK

LEMMA InitTypeOK == Init => TypeOK
<1> SUFFICES ASSUME Init PROVE TypeOK
  OBVIOUS
<1>1. ErrnoOK
  BY Zenon DEF Init, ErrnoOK
<1>2. RestOK
  BY PoolBounds DEF Init, RestOK
<1> QED BY <1>1, <1>2, TypeParts

LEMMA ReceiveTypeOK ==
  ASSUME TypeOK, NEW r \in Request, Receive(r) PROVE TypeOK'
<1>1. ErrnoOK'
  BY Zenon DEF Receive, ErrnoOK
<1>2. RestOK'
  <2>1. queue' \in Seq(Position)
    <3>1. CASE WellFormed(r)
      BY <3>1, FirstQueue DEF Receive
    <3>2. CASE ~WellFormed(r)
      BY <3>2, TypeParts DEF Receive, RestOK
    <3> QED BY <3>1, <3>2
  <2> QED BY <2>1, TypeParts, PoolBounds DEF RestOK, Receive
<1> QED BY <1>1, <1>2, TypeParts

\* What TakeItem does to the variables that are no Booleans.
LEMMA TakeFacts ==
  ASSUME NEW w \in Worker, TakeItem(w)
  PROVE  /\ pc[w] = "take" /\ tries' = [tries EXCEPT ![w] = 0]
         /\ request' = request /\ got' = got /\ faults' = faults
         /\ queue = <<>> => /\ pc' = [pc EXCEPT ![w] = "ended"]
                            /\ queue' = queue /\ item' = item
         /\ queue # <<>> => /\ pc' = [pc EXCEPT ![w] = "query"] /\ queue' = Tail(queue)
                            /\ item' = [item EXCEPT ![w] = Head(queue)]
  BY Zenon DEF TakeItem

LEMMA TakeItemTypeOK ==
  ASSUME TypeOK, NEW w \in Worker, TakeItem(w) PROVE TypeOK'
<1>1. ErrnoOK'
  <2>1. w \in Worker \cup {Handler} /\ errno[w] \in BOOLEAN /\ ErrnoOK
    BY TypeParts, Zenon DEF ErrnoOK
  <2>2. CASE queue = <<>>
    <3>1. errno' = [errno EXCEPT ![w] = errno[w]]
      BY <2>2, Zenon DEF TakeItem
    <3> QED BY <2>1, <3>1, Zenon DEF ErrnoOK, TakeItem
  <2>3. CASE queue # <<>>
    <3>1. errno' = [errno EXCEPT ![w] = FALSE]
      BY <2>3, Zenon DEF TakeItem
    <3> QED BY <2>1, <3>1, Zenon DEF ErrnoOK, TakeItem
  <2> QED BY <2>2, <2>3, Zenon
<1>2. RestOK'
  <2>0. RestOK
    BY TypeParts
  <2>1. /\ request' = request /\ got' = got /\ faults' = faults
        /\ tries' = [tries EXCEPT ![w] = 0]
    BY TakeFacts
  <2>2. CASE queue = <<>>
    <3>1. pc' = [pc EXCEPT ![w] = "ended"] /\ queue' = queue /\ item' = item
      BY <2>2, TakeFacts
    <3> QED BY <2>0, <2>1, <3>1, PoolBounds DEF RestOK
  <2>3. CASE queue # <<>>
    <3>1. /\ pc' = [pc EXCEPT ![w] = "query"] /\ queue' = Tail(queue)
          /\ item' = [item EXCEPT ![w] = Head(queue)]
      BY <2>3, TakeFacts
    <3>2. Head(queue) \in Nat /\ Tail(queue) \in Seq(Position)
      BY <2>0, <2>3, TakeFirst, PoolBounds DEF RestOK, Position
    <3> QED BY <2>0, <2>1, <3>1, <3>2, PoolBounds DEF RestOK
  <2> QED BY <2>2, <2>3
<1> QED BY <1>1, <1>2, TypeParts

\* One outcome of an attempt, as Query has it.
Attempt(w, ok) ==
  /\ faults' = IF ok THEN faults ELSE faults + 1
  /\ errno' = [errno EXCEPT ![w] = ErrnoAfter(w, ok)]
  /\ IF Again(w, ok)
       THEN tries' = [tries EXCEPT ![w] = @ + 1] /\ UNCHANGED <<pc, got, trouble>>
       ELSE /\ pc' = [pc EXCEPT ![w] = IF Ends(w, ok) THEN "ended" ELSE "take"]
            /\ got' = [got EXCEPT ![w] = Collected(w, ok)]
            /\ trouble' = (trouble \/ ~ok)
            /\ UNCHANGED tries

LEMMA QueryAttempt ==
  ASSUME NEW w \in Worker, Query(w)
  PROVE  \E ok \in BOOLEAN : Attempt(w, ok)
  BY Zenon DEF Query, Attempt

LEMMA AttemptFacts ==
  ASSUME NEW w \in Worker, Query(w), NEW ok \in BOOLEAN, Attempt(w, ok)
  PROVE  /\ pc[w] = "query"
         /\ request' = request /\ queue' = queue /\ item' = item
         /\ faults' = faults \/ faults' = faults + 1
         /\ Again(w, ok) => /\ tries' = [tries EXCEPT ![w] = tries[w] + 1]
                            /\ pc' = pc /\ got' = got /\ trouble' = trouble
         /\ ~Again(w, ok) => /\ \/ Ends(w, ok) /\ pc' = [pc EXCEPT ![w] = "ended"]
                                \/ ~Ends(w, ok) /\ pc' = [pc EXCEPT ![w] = "take"]
                             /\ got' = [got EXCEPT ![w] = Collected(w, ok)]
                             /\ trouble' = (trouble \/ ~ok)
                             /\ tries' = tries
<1>1. Ends(w, ok) \/ ~Ends(w, ok)
  OBVIOUS
<1> QED BY <1>1, Zenon DEF Query, Attempt

\* Vectors have positions of the request only.
LEMMA QueryTypeOK ==
  ASSUME TypeOK, NEW w \in Worker, Query(w), Active, OfRequest PROVE TypeOK'
<1>1. PICK ok \in BOOLEAN : Attempt(w, ok)
  BY QueryAttempt, Zenon
<1>2. item[w] \in Position
  <2>1. item[w] \in DOMAIN request.keys
    BY DEF Query, OfRequest, InHand
  <2>2. request \in Request
    BY TypeParts DEF RestOK, Active
  <2> QED BY <2>1, <2>2, RequestKeys, PoolBounds DEF Position
<1>3. Collected(w, ok) \subseteq Position
  BY <1>2, TypeParts DEF Collected, RestOK
<1>4. ErrnoOK'
  <2>1. ErrnoAfter(w, ok) \in BOOLEAN
    BY Zenon DEF ErrnoAfter
  <2>2. w \in Worker \cup {Handler} /\ ErrnoOK
    BY TypeParts, Zenon
  <2> QED BY <1>1, <2>1, <2>2, Zenon DEF ErrnoOK, Attempt
<1>5. RestOK'
  <2>0. RestOK
    BY TypeParts
  <2>1. /\ request' = request /\ queue' = queue /\ item' = item
        /\ faults' = faults \/ faults' = faults + 1
    BY <1>1, AttemptFacts
  <2>2. CASE Again(w, ok)
    <3>1. tries[w] + 1 <= MAX_RETRIES
      BY <2>2 DEF Again
    <3>2. tries' = [tries EXCEPT ![w] = tries[w] + 1] /\ pc' = pc /\ got' = got
      BY <1>1, <2>2, AttemptFacts
    <3> QED BY <2>0, <2>1, <3>1, <3>2, PoolBounds DEF RestOK
  <2>3. CASE ~Again(w, ok)
    <3>1. /\ \E place \in {"ended", "take"} : pc' = [pc EXCEPT ![w] = place]
          /\ got' = [got EXCEPT ![w] = Collected(w, ok)] /\ tries' = tries
      BY <1>1, <2>3, AttemptFacts
    <3> QED BY <1>3, <2>0, <2>1, <3>1, PoolBounds DEF RestOK
  <2> QED BY <2>2, <2>3
<1> QED BY <1>4, <1>5, TypeParts

LEMMA HandlerTypeOK ==
  ASSUME TypeOK, Reject \/ Join PROVE TypeOK'
<1>1. ErrnoOK'
  BY TypeParts, Zenon DEF ErrnoOK, Reject, Join
<1>2. RestOK'
  BY TypeParts DEF RestOK, Reject, Join
<1> QED BY <1>1, <1>2, TypeParts

(***************************************************************************)
(* The invariant                                                            *)
(***************************************************************************)
LEMMA InitInv == Init => PoolInv
<1> SUFFICES ASSUME Init PROVE PoolInv
  OBVIOUS
<1>1. request = None /\ pc = [w \in Worker |-> "idle"]
  BY Zenon DEF Init
<1>2. errno[Handler] = FALSE
  BY Zenon DEF Init
<1>3. ~Active /\ Phases
  BY <1>1 DEF Active, Phases
<1> QED BY <1>2, <1>3, InitTypeOK, Zenon DEF PoolInv

LEMMA InvReceive ==
  ASSUME PoolInv, NEW r \in Request, Receive(r) PROVE PoolInv'
<1>1. TypeOK'
  BY ReceiveTypeOK, Zenon DEF PoolInv
<1>2. errno'[Handler] = FALSE
  BY Zenon DEF Receive
<1>3. request' = r /\ got' = [w \in Worker |-> {}] /\ request = None
  BY Zenon DEF Receive
<1>4. CASE ~WellFormed(r)
  <2>1. pc' = pc
    BY <1>4, Zenon DEF Receive
  <2>2. ~Active'
    BY <1>3, <1>4 DEF Active
  <2>3. Phases'
    BY <1>3, <2>1, <2>2 DEF Phases, PoolInv, Active
  <2> QED BY <1>1, <1>2, <2>2, <2>3, Zenon DEF PoolInv
<1>5. CASE WellFormed(r)
  <2>1. queue' = [p \in DOMAIN r.keys |-> p] /\ pc' = [w \in Worker |-> "take"]
    BY <1>5, Zenon DEF Receive
  <2>2. /\ queue' \in Seq(Position) /\ Len(queue') = Len(r.keys)
        /\ \A j \in 1..Len(queue') : queue'[j] = j
        /\ DOMAIN r.keys = 1..Len(queue')
    BY <2>1, FirstQueue
  <2>3. Active'
    BY <1>3, <1>5, NoneAssumption DEF Active
  <2>4. Phases'
    BY <2>1, <2>3 DEF Phases
  <2>5. \A w \in Worker : got'[w] = {} /\ InHand(w)' = {} /\ Held(w)' = {}
    BY <1>3, <2>1 DEF InHand, Held
  <2>6. Waiting' = DOMAIN r.keys
    BY <2>2 DEF Waiting
  <2>7. OnePlace'
    BY <2>2, <2>5 DEF OnePlace
  <2>8. OfRequest'
    BY <1>3, <2>5, <2>6 DEF OfRequest
  <2>9. NothingLost'
    <3>1. Answerable(r) \subseteq Waiting'
      BY <2>6 DEF Answerable
    <3> QED BY <1>3, <3>1 DEF NothingLost
  <2>10. Drained'
    <3>1. \A w \in Worker : pc'[w] # "ended"
      BY <2>1
    <3>2. Takers' = Worker
      BY <2>1 DEF Takers
    <3>3. r.kind = "gppr" /\ Whole(r) => Len(queue') <= Cardinality(Takers')
      BY <2>2, <3>2 DEF Whole
    <3> QED BY <1>3, <3>1, <3>3 DEF Drained
  <2> QED BY <1>1, <1>2, <2>3, <2>4, <2>7, <2>8, <2>9, <2>10, Zenon DEF PoolInv
<1> QED BY <1>4, <1>5

LEMMA InvHandler ==
  ASSUME PoolInv, Reject \/ Join PROVE PoolInv'
<1>1. TypeOK'
  BY HandlerTypeOK, Zenon DEF PoolInv
<1>2. errno' = errno /\ request' = None
  BY Zenon DEF Reject, Join
<1>3. ~Active'
  BY <1>2 DEF Active
<1>4. \A w \in Worker : pc'[w] = "idle"
  <2>1. CASE Reject
    <3>1. pc' = pc /\ ~Active
      BY <2>1, Zenon DEF Reject, Active
    <3> QED BY <3>1 DEF Phases, PoolInv
  <2>2. CASE Join
    <3>1. pc' = [w \in Worker |-> "idle"]
      BY <2>2, Zenon DEF Join
    <3> QED BY <3>1
  <2> QED BY <2>1, <2>2
<1>5. Phases'
  BY <1>3, <1>4 DEF Phases
<1>6. errno'[Handler] = FALSE
  BY <1>2, Zenon DEF PoolInv
<1> QED BY <1>1, <1>3, <1>5, <1>6, Zenon DEF PoolInv

\* A worker that runs does so for an accepted request.
LEMMA WorkerActive ==
  ASSUME PoolInv, NEW w \in Worker, pc[w] # "idle"
  PROVE  /\ Active /\ RestOK /\ OnePlace /\ OfRequest /\ NothingLost /\ Drained
         /\ \A v \in Worker : pc[v] \in {"take", "query", "ended"}
<1>1. Active
  BY Zenon DEF PoolInv, Phases
<1> QED BY <1>1, TypeParts, Zenon DEF PoolInv, Phases

\* errno of the handler's thread is no worker's.
LEMMA HandlerErrno ==
  ASSUME PoolInv, NEW w \in Worker, Work(w) PROVE errno'[Handler] = FALSE
<1>1. ErrnoOK /\ errno[Handler] = FALSE /\ Handler # w
  BY TypeParts, PoolAssumption, Zenon DEF PoolInv
<1>2. \E b : errno' = [errno EXCEPT ![w] = b]
  BY Zenon DEF Work, TakeItem, Query
<1> QED BY <1>1, <1>2, Zenon DEF ErrnoOK

LEMMA InvTake ==
  ASSUME PoolInv, NEW w \in Worker, TakeItem(w) PROVE PoolInv'
<1>1. pc[w] = "take" /\ tries' = [tries EXCEPT ![w] = 0] /\ request' = request /\ got' = got
  BY TakeFacts
<1>2. /\ Active /\ RestOK /\ OnePlace /\ OfRequest /\ NothingLost /\ Drained
      /\ \A v \in Worker : pc[v] \in {"take", "query", "ended"}
  BY <1>1, WorkerActive
<1>3. TypeOK' /\ errno'[Handler] = FALSE
  BY TakeItemTypeOK, HandlerErrno, Zenon DEF PoolInv, Work
<1>4. Active' /\ trouble' = trouble
  BY <1>1, <1>2 DEF Active, TakeItem
<1>5. queue \in Seq(Position) /\ pc \in [Worker -> {"idle", "take", "query", "ended"}]
      /\ item \in [Worker -> Nat] /\ IsFiniteSet(Takers) /\ Cardinality(Takers) \in Nat
  <2>1. IsFiniteSet(Takers)
    BY PoolAssumption, FS_Subset DEF Takers
  <2> QED BY <1>2, <2>1, FS_CardinalityType DEF RestOK
<1>6. IsFiniteSet(Takers \ {w}) /\ Cardinality(Takers \ {w}) = Cardinality(Takers) - 1
  BY <1>1, <1>5, FS_RemoveElement DEF Takers
<1>7. CASE queue = <<>>
  <2>1. pc' = [pc EXCEPT ![w] = "ended"] /\ queue' = queue /\ item' = item
    BY <1>7, TakeFacts
  <2>2. Waiting = {} /\ Waiting' = {}
    BY <1>7, <2>1 DEF Waiting
  <2>3. \A v \in Worker : InHand(v)' = InHand(v) /\ Held(v)' = Held(v)
    BY <1>1, <1>5, <2>1 DEF InHand, Held
  <2>4. Phases'
    BY <1>2, <1>4, <1>5, <2>1 DEF Phases
  <2>5. OnePlace'
    BY <1>1, <1>2, <2>1, <2>2, <2>3 DEF OnePlace
  <2>6. OfRequest'
    BY <1>1, <1>2, <2>2, <2>3 DEF OfRequest
  <2>7. NothingLost'
    BY <1>1, <1>2, <1>4, <2>2, <2>3 DEF NothingLost
  <2>8. Drained'
    <3>1. queue' = <<>> /\ Len(queue') = 0
      BY <1>7, <2>1
    <3>2. Takers' = Takers \ {w}
      BY <1>5, <2>1 DEF Takers
    <3>3. 0 <= Cardinality(Takers')
      BY <1>6, <3>2, FS_CardinalityType
    <3> QED BY <3>1, <3>3 DEF Drained
  <2> QED BY <1>3, <1>4, <2>4, <2>5, <2>6, <2>7, <2>8, Zenon DEF PoolInv
<1>8. CASE queue # <<>>
  <2>1. /\ pc' = [pc EXCEPT ![w] = "query"] /\ queue' = Tail(queue)
        /\ item' = [item EXCEPT ![w] = Head(queue)]
    BY <1>8, TakeFacts
  <2>2. /\ Head(queue) = queue[1] /\ queue[1] \in Position
        /\ queue' \in Seq(Position) /\ Len(queue') = Len(queue) - 1 /\ Len(queue) \in Nat \ {0}
        /\ \A i \in 1..Len(queue') : queue'[i] = queue[i + 1]
    BY <1>5, <1>8, <2>1, TakeFirst
  <2>3. InHand(w)' = {queue[1]} /\ Held(w)' = Held(w) \cup {queue[1]} /\ InHand(w) = {}
    BY <1>1, <1>5, <2>1, <2>2 DEF InHand, Held
  <2>4. \A v \in Worker \ {w} : InHand(v)' = InHand(v) /\ Held(v)' = Held(v)
    BY <1>1, <1>5, <2>1 DEF InHand, Held
  <2>5. Waiting' = Waiting \ {queue[1]} /\ queue[1] \in Waiting
    <3>1. \A i \in 1..Len(queue') : queue'[i] \in Waiting /\ queue'[i] # queue[1]
      BY <1>2, <2>2 DEF OnePlace, Waiting
    <3>2. ASSUME NEW i \in 1..Len(queue), i # 1
          PROVE  i - 1 \in 1..Len(queue') /\ queue[i] = queue'[i - 1]
      <4>1. i - 1 \in 1..Len(queue') /\ (i - 1) + 1 = i
        BY <2>2, <3>2
      <4>2. queue'[i - 1] = queue[(i - 1) + 1]
        BY <2>2, <4>1
      <4> QED BY <4>1, <4>2
    <3>3. queue[1] \in Waiting
      BY <2>2 DEF Waiting
    <3>4. Waiting' \subseteq Waiting \ {queue[1]}
      BY <3>1 DEF Waiting
    <3>5. ASSUME NEW x \in Waiting, x # queue[1] PROVE x \in Waiting'
      <4>1. PICK i \in 1..Len(queue) : x = queue[i]
        BY <3>5, Zenon DEF Waiting
      <4>2. i # 1
        BY <3>5, <4>1
      <4> QED BY <3>2, <4>1, <4>2, Zenon DEF Waiting
    <3> QED BY <3>3, <3>4, <3>5, Zenon
  <2>6. Phases'
    BY <1>2, <1>4, <1>5, <2>1 DEF Phases
  <2>7. OnePlace'
    <3>1. \A i, j \in 1..Len(queue') : queue'[i] = queue'[j] => i = j
      <4>1. \A i, j \in 1..Len(queue) : queue[i] = queue[j] => i = j
        BY <1>2, Zenon DEF OnePlace
      <4> QED BY <2>2, <4>1
    <3>2. \A v \in Worker : Waiting' \cap Held(v)' = {} /\ got'[v] \cap InHand(v)' = {}
      <4>1. Waiting' \cap Held(w)' = {} /\ got'[w] \cap InHand(w)' = {}
        BY <1>1, <1>2, <2>3, <2>5 DEF OnePlace, Held
      <4>2. ASSUME NEW v \in Worker \ {w}
            PROVE  Waiting' \cap Held(v)' = {} /\ got'[v] \cap InHand(v)' = {}
        BY <1>1, <1>2, <2>4, <2>5 DEF OnePlace
      <4> QED BY <4>1, <4>2
    <3>3. \A u, v \in Worker : u # v => Held(u)' \cap Held(v)' = {}
      BY <1>2, <2>3, <2>4, <2>5 DEF OnePlace
    <3> QED BY <3>1, <3>2, <3>3 DEF OnePlace
  <2>8. OfRequest'
    BY <1>1, <1>2, <2>3, <2>4, <2>5 DEF OfRequest
  <2>9. NothingLost'
    BY <1>1, <1>2, <1>4, <2>3, <2>4, <2>5 DEF NothingLost
  <2>10. Drained'
    <3>1. \A v \in Worker : pc'[v] = "ended" => pc[v] = "ended"
      BY <1>5, <2>1
    <3>2. Takers' = Takers \ {w}
      BY <1>5, <2>1 DEF Takers
    <3> QED BY <1>1, <1>2, <1>4, <1>5, <1>6, <1>8, <2>2, <3>1, <3>2 DEF Drained
  <2> QED BY <1>3, <1>4, <2>6, <2>7, <2>8, <2>9, <2>10, Zenon DEF PoolInv
<1> QED BY <1>7, <1>8

\* What a worker's vector is after an attempt that is not tried again.
LEMMA CollectedFacts ==
  ASSUME NEW w \in Worker, NEW ok \in BOOLEAN, OfRequest, pc[w] = "query"
  PROVE  /\ Collected(w, ok) \subseteq got[w] \cup {item[w]}
         /\ Collected(w, ok) \subseteq Answerable(request)
         /\ ok => /\ got[w] \subseteq Collected(w, ok)
                  /\ item[w] \in Answerable(request) => item[w] \in Collected(w, ok)
<1>1. item[w] \in DOMAIN request.keys /\ got[w] \subseteq Answerable(request)
  BY DEF OfRequest, InHand
<1>2. item[w] \in Answerable(request) <=> Pushed(request.kind, request.keys[item[w]])
  BY <1>1 DEF Answerable
<1>3. CASE ok /\ Pushed(request.kind, request.keys[item[w]])
  <2>1. Collected(w, ok) = got[w] \cup {item[w]}
    BY <1>3 DEF Collected
  <2> QED BY <1>1, <1>2, <1>3, <2>1
<1>4. CASE ok /\ ~Pushed(request.kind, request.keys[item[w]])
  <2>1. Collected(w, ok) = got[w]
    BY <1>4 DEF Collected
  <2> QED BY <1>1, <1>2, <1>4, <2>1
<1>5. CASE ~ok
  <2>1. Collected(w, ok) \in {{}, got[w]}
    BY <1>5 DEF Collected
  <2> QED BY <1>1, <1>5, <2>1
<1> QED BY <1>3, <1>4, <1>5

LEMMA InvQuery ==
  ASSUME PoolInv, NEW w \in Worker, Query(w) PROVE PoolInv'
<1>1. PICK ok \in BOOLEAN : Attempt(w, ok)
  BY QueryAttempt, Zenon
<1>2. pc[w] = "query" /\ request' = request /\ queue' = queue /\ item' = item
  BY <1>1, AttemptFacts
<1>3. /\ Active /\ RestOK /\ OnePlace /\ OfRequest /\ NothingLost /\ Drained
      /\ \A v \in Worker : pc[v] \in {"take", "query", "ended"}
  BY <1>2, WorkerActive
<1>4. TypeOK' /\ errno'[Handler] = FALSE
  BY <1>3, QueryTypeOK, HandlerErrno, Zenon DEF PoolInv, Work
<1>5. Active'
  BY <1>2, <1>3 DEF Active
<1>6. pc \in [Worker -> {"idle", "take", "query", "ended"}] /\ got \in [Worker -> SUBSET Position]
  BY <1>3 DEF RestOK
<1>7. Waiting' = Waiting
  BY <1>2 DEF Waiting
<1>8. CASE Again(w, ok)
  <2>1. pc' = pc /\ got' = got /\ trouble' = trouble
    BY <1>1, <1>8, AttemptFacts
  <2>2. Takers' = Takers /\ \A v \in Worker : InHand(v)' = InHand(v) /\ Held(v)' = Held(v)
    BY <1>2, <2>1 DEF InHand, Held, Takers
  <2>3. Phases'
    BY <1>3, <1>5, <2>1 DEF Phases
  <2>4. OnePlace' /\ OfRequest'
    BY <1>2, <1>3, <1>7, <2>1, <2>2 DEF OnePlace, OfRequest
  <2>5. NothingLost'
    BY <1>2, <1>3, <1>7, <2>1, <2>2 DEF NothingLost
  <2>6. Drained'
    BY <1>2, <1>3, <2>1, <2>2 DEF Drained
  <2> QED BY <1>4, <1>5, <2>3, <2>4, <2>5, <2>6, Zenon DEF PoolInv
<1>9. CASE ~Again(w, ok)
  <2>1. /\ \/ Ends(w, ok) /\ pc' = [pc EXCEPT ![w] = "ended"]
           \/ ~Ends(w, ok) /\ pc' = [pc EXCEPT ![w] = "take"]
        /\ got' = [got EXCEPT ![w] = Collected(w, ok)]
        /\ trouble' = (trouble \/ ~ok)
    BY <1>1, <1>9, AttemptFacts, Zenon
  <2>2. /\ Collected(w, ok) \subseteq got[w] \cup {item[w]}
        /\ Collected(w, ok) \subseteq Answerable(request)
        /\ ok => /\ got[w] \subseteq Collected(w, ok)
                 /\ item[w] \in Answerable(request) => item[w] \in Collected(w, ok)
    BY <1>2, <1>3, CollectedFacts
  <2>3. /\ InHand(w)' = {} /\ Held(w)' = Collected(w, ok) /\ got'[w] = Collected(w, ok)
        /\ Held(w) = got[w] \cup {item[w]}
    BY <1>2, <1>6, <2>1 DEF InHand, Held
  <2>4. \A v \in Worker \ {w} : InHand(v)' = InHand(v) /\ Held(v)' = Held(v) /\ got'[v] = got[v]
    BY <1>2, <1>6, <2>1 DEF InHand, Held
  <2>5. Phases'
    BY <1>3, <1>5, <1>6, <2>1 DEF Phases
  <2>6. OnePlace'
    <3>1. \A v \in Worker : Waiting' \cap Held(v)' = {} /\ got'[v] \cap InHand(v)' = {}
      BY <1>3, <1>7, <2>2, <2>3, <2>4 DEF OnePlace
    <3>2. \A u, v \in Worker : u # v => Held(u)' \cap Held(v)' = {}
      BY <1>3, <2>2, <2>3, <2>4 DEF OnePlace
    <3> QED BY <1>2, <1>3, <3>1, <3>2 DEF OnePlace
  <2>7. OfRequest'
    BY <1>2, <1>3, <1>7, <2>2, <2>3, <2>4 DEF OfRequest
  <2>8. NothingLost'
    <3> SUFFICES ASSUME ~trouble', NEW p \in Answerable(request)
                 PROVE  p \in Waiting' \/ \E v \in Worker : p \in Held(v)'
      BY <1>2 DEF NothingLost
    <3>1. ~trouble /\ ok
      BY <2>1
    <3>2. p \in Waiting \/ \E v \in Worker : p \in Held(v)
      BY <1>3, <3>1 DEF NothingLost
    <3>3. p \in Held(w) => p \in Held(w)'
      BY <2>2, <2>3, <3>1
    <3> QED BY <1>7, <2>4, <3>2, <3>3
  <2>9. Drained'
    <3>1. CASE request.kind = "gppr"
      <4>1. pc' = [pc EXCEPT ![w] = "ended"]
        BY <2>1, <3>1 DEF Ends
      <4>2. Takers' = Takers
        BY <1>2, <1>6, <4>1 DEF Takers
      <4> QED BY <1>2, <1>3, <3>1, <4>2 DEF Drained
    <3>2. CASE request.kind # "gppr" /\ ~trouble'
      <4>1. ~trouble /\ ok
        BY <2>1, <3>2
      <4>2. ~Ends(w, ok)
        BY <3>2, <4>1 DEF Ends, ErrnoAfter
      <4>3. pc' = [pc EXCEPT ![w] = "take"]
        BY <2>1, <4>2
      <4> QED BY <1>2, <1>3, <1>6, <3>2, <4>1, <4>3 DEF Drained
    <3>3. CASE request.kind # "gppr" /\ trouble'
      BY <1>2, <3>3 DEF Drained
    <3> QED BY <3>1, <3>2, <3>3
  <2> QED BY <1>4, <1>5, <2>5, <2>6, <2>7, <2>8, <2>9, Zenon DEF PoolInv
<1> QED BY <1>8, <1>9

LEMMA InvNext == PoolInv /\ [Next]_vars => PoolInv'
<1> SUFFICES ASSUME PoolInv, [Next]_vars PROVE PoolInv'
  OBVIOUS
<1>1. ASSUME NEW r \in Request, Receive(r) PROVE PoolInv'
  BY <1>1, InvReceive
<1>2. CASE Reject \/ Join
  BY <1>2, InvHandler
<1>3. ASSUME NEW w \in Worker, Work(w) PROVE PoolInv'
  BY <1>3, InvTake, InvQuery DEF Work
<1>4. CASE UNCHANGED vars
  <2>1. /\ request' = request /\ queue' = queue /\ pc' = pc /\ item' = item
        /\ got' = got /\ trouble' = trouble
    BY <1>4, Zenon DEF vars
  <2>2. TypeOK' <=> TypeOK
    BY <1>4, Zenon DEF vars, TypeOK
  <2>3. errno'[Handler] = errno[Handler]
    BY <1>4, Zenon DEF vars
  <2>4. /\ Active' <=> Active
        /\ Waiting' = Waiting /\ Takers' = Takers
        /\ \A w \in Worker : InHand(w)' = InHand(w) /\ Held(w)' = Held(w)
    BY <2>1 DEF Active, Waiting, Takers, InHand, Held
  <2>5. (Phases' <=> Phases) /\ (OnePlace' <=> OnePlace) /\ (OfRequest' <=> OfRequest)
    BY <2>1, <2>4 DEF Phases, OnePlace, OfRequest
  <2>6. (NothingLost' <=> NothingLost) /\ (Drained' <=> Drained)
    BY <2>1, <2>4 DEF NothingLost, Drained
  <2> QED BY <2>2, <2>3, <2>4, <2>5, <2>6, Zenon DEF PoolInv
<1> QED BY <1>1, <1>2, <1>3, <1>4, Zenon DEF Next

(***************************************************************************)
(* The refinement                                                           *)
(***************************************************************************)
\* The reply of Join: no vector has what another one has, and all of it is there.
LEMMA JoinAnswers ==
  ASSUME PoolInv, Join PROVE Lookup!Answer
<1>1. /\ request # None /\ WellFormed(request) /\ request' = None /\ trouble' = trouble
      /\ \A w \in Worker : pc[w] = "ended"
  BY Zenon DEF Join
<1>2. reply' = [code |-> "ok", times |-> [p \in Position |-> Times(p)]]
  BY Zenon DEF Join, PoolInv
<1>3. OnePlace /\ OfRequest /\ NothingLost /\ Drained /\ RestOK
  BY <1>1, TypeParts, Zenon DEF PoolInv, Active
<1> DEFINE found == {p \in Position : \E w \in Worker : p \in got[w]}
<1>4. \A w \in Worker : Held(w) = got[w]
  BY <1>1 DEF Held, InHand
<1>5. found \subseteq Answerable(request)
  BY <1>3 DEF OfRequest
<1>6. ASSUME NEW p \in Position PROVE Times(p) = IF p \in found THEN 1 ELSE 0
  <2>1. CASE p \in found
    <3>1. PICK w \in Worker : p \in got[w]
      BY <2>1
    <3>2. {v \in Worker : p \in got[v]} = {w}
      BY <1>3, <1>4, <3>1 DEF OnePlace
    <3> QED BY <2>1, <3>2, FS_Singleton DEF Times
  <2>2. CASE p \notin found
    <3>1. {v \in Worker : p \in got[v]} = {}
      BY <2>2
    <3> QED BY <2>2, <3>1, FS_EmptySet DEF Times
  <2> QED BY <2>1, <2>2
<1>7. Whole(request) /\ ~trouble => found = Answerable(request)
  <2> SUFFICES ASSUME Whole(request), ~trouble PROVE Answerable(request) \subseteq found
    BY <1>5
  <2>1. queue = <<>>
    <3>1. CASE request.kind # "gppr"
      BY <1>1, <1>3, <3>1, PoolAssumption DEF Drained
    <3>2. CASE request.kind = "gppr"
      <4>1. Takers = {}
        BY <1>1 DEF Takers
      <4>2. Len(queue) <= 0
        BY <1>3, <3>2, <4>1, FS_EmptySet DEF Drained
      <4> QED BY <1>3, <4>2 DEF RestOK
    <3> QED BY <3>1, <3>2
  <2>2. Waiting = {}
    BY <2>1 DEF Waiting
  <2> QED BY <1>3, <1>4, <2>2 DEF NothingLost, RestOK
<1>8. reply' = [code |-> "ok", times |-> [p \in Position |-> IF p \in found THEN 1 ELSE 0]]
  BY <1>2, <1>6
<1> HIDE DEF found
<1> QED BY <1>1, <1>5, <1>7, <1>8, Zenon DEF Lookup!Answer

\* A step of a worker: nothing the client can see, or a query that failed for good.
LEMMA WorkIsTrouble ==
  ASSUME PoolInv, NEW w \in Worker, Work(w)
  PROVE  Lookup!Trouble \/ UNCHANGED Lookup!vars
<1>1. request' = request /\ reply' = reply
  BY Zenon DEF Work, TakeItem, Query
<1>2. CASE TakeItem(w)
  <2>1. trouble' = trouble
    BY <1>2, Zenon DEF TakeItem
  <2> QED BY <1>1, <2>1, Zenon DEF Lookup!vars
<1>3. CASE Query(w)
  <2>1. PICK ok \in BOOLEAN : Attempt(w, ok)
    BY <1>3, QueryAttempt, Zenon
  <2>2. trouble' = trouble \/ trouble' = (trouble \/ ~ok)
    BY <2>1, Zenon DEF Attempt
  <2>3. Active /\ trouble \in BOOLEAN
    BY <1>3, WorkerActive, TypeParts, Zenon DEF Query, PoolInv, ErrnoOK
  <2>4. trouble' = trouble \/ trouble' = TRUE
    BY <2>2, <2>3
  <2> QED BY <1>1, <2>3, <2>4, Zenon DEF Lookup!Trouble, Lookup!vars, Active
<1> QED BY <1>2, <1>3, Zenon DEF Work

\* The types of a request's queue, workers and replies hold for any number of workers,
\* keys, faults and retries; no query is tried more than MAX_RETRIES times again.
THEOREM PoolTypeCorrect == Spec => []TypeOK
<1>1. PoolInv => TypeOK
  BY Zenon DEF PoolInv
<1> QED BY <1>1, InitInv, InvNext, PTL DEF Spec

\* The workers of getMethods, getProjects, getPrevProjects, getAuthors and
\* getMethodsByAuthor together do what ParallelLookup promises: every position that has
\* an answer is answered by one worker, and all are unless a query failed for good.
THEOREM PoolImplementsLookup == Spec => ImplementsLookup
<1>1. Init => Lookup!Init
  BY Zenon DEF Init, Lookup!Init
<1>2. PoolInv /\ [Next]_vars => [Lookup!Next]_Lookup!vars
  <2> SUFFICES ASSUME PoolInv, [Next]_vars PROVE [Lookup!Next]_Lookup!vars
    OBVIOUS
  <2>1. ASSUME NEW r \in Request, Receive(r) PROVE Lookup!Next
    BY <2>1, Zenon DEF Receive, Lookup!Ask, Lookup!Next
  <2>2. CASE Reject
    BY <2>2, Zenon DEF Reject, Nothing, Lookup!Reject, Lookup!Nothing, Lookup!Next
  <2>3. CASE Join
    BY <2>3, JoinAnswers, Zenon DEF Lookup!Next
  <2>4. ASSUME NEW w \in Worker, Work(w) PROVE [Lookup!Next]_Lookup!vars
    BY <2>4, WorkIsTrouble, Zenon DEF Lookup!Next
  <2>5. CASE UNCHANGED vars
    BY <2>5, Zenon DEF vars, Lookup!vars
  <2> QED BY <2>1, <2>2, <2>3, <2>4, <2>5, Zenon DEF Next
<1> QED BY <1>1, <1>2, InitInv, InvNext, PTL DEF Spec, ImplementsLookup, Lookup!Spec
=============================================================================
