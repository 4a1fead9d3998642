---------------------------- MODULE ParallelLookup ----------------------------
(***************************************************************************)
(* What a request for the data of a list of keys promises, whatever threads *)
(* and retries are behind it: a malformed request is rejected; otherwise    *)
(* every position of the list that the database has something for is        *)
(* answered once, unless a query failed for good.  A request that is not    *)
(* Whole may lack answers, but it too never has one twice or a wrong one.   *)
(***************************************************************************)
EXTENDS Naturals

CONSTANTS
  Request,          \* the requests there are
  None,             \* no request, no reply
  Position,         \* positions in a request
  WellFormed(_),    \* requests that are accepted
  Whole(_),         \* requests all of whose positions are looked up
  Answerable(_)     \* positions of a request the database has something for

VARIABLES
  request,          \* the request being handled
  trouble,          \* a query failed for good
  reply             \* None, or the code and how often each position is answered

vars == <<request, trouble, reply>>

Nothing == [p \in Position |-> 0]

Init == request = None /\ trouble = FALSE /\ reply = None

Ask(r) ==
  /\ request = None
  /\ request' = r /\ trouble' = FALSE /\ reply' = None

Reject ==
  /\ request # None /\ ~WellFormed(request)
  /\ request' = None
  /\ reply' = [code |-> "client", times |-> Nothing]
  /\ UNCHANGED trouble

Trouble ==
  /\ request # None /\ WellFormed(request)
  /\ trouble' = TRUE
  /\ UNCHANGED <<request, reply>>

Answer ==
  /\ request # None /\ WellFormed(request)
  /\ \E found \in SUBSET Answerable(request) :
       /\ Whole(request) /\ ~trouble => found = Answerable(request)
       /\ reply' = [code |-> "ok", times |-> [p \in Position |-> IF p \in found THEN 1 ELSE 0]]
  /\ request' = None
  /\ UNCHANGED trouble

Next == (\E r \in Request : Ask(r)) \/ Reject \/ Trouble \/ Answer

Spec == Init /\ [][Next]_vars
=============================================================================
