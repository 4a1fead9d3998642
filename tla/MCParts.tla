------------------------------- MODULE MCParts -------------------------------
(***************************************************************************)
(* Five small parts of the server that share no state, checked in one run:  *)
(* the pool of query workers (QueryPool), a connection (RequestFraming),    *)
(* the saving of counters (StatisticsSync), the recent lists (RecentLists)  *)
(* and the pure functions (TextFormat).  A behaviour is one of one part:    *)
(* part says which, and the variables of the others keep their initial      *)
(* values, so that the states of the run are the sum of those of the parts. *)
(***************************************************************************)
EXTENDS QueryPool

CONSTANTS
  MaxLength,                                    \* RequestFraming
  Conn, Families, MaxRequests, MaxCrashes,      \* StatisticsSync
  Label, Address, RecentMax, MaxTime, MaxRestarts,   \* RecentLists
  MaxText, MaxWords, MaxList, MaxChunk          \* TextFormat

ASSUME PartsAssumption ==
  /\ MaxLength \in Nat /\ MaxRequests \in Nat /\ MaxCrashes \in Nat
  /\ IsFiniteSet(Conn) /\ IsFiniteSet(Label)
  /\ Families # <<>> /\ Families \in Seq({Families[i] : i \in DOMAIN Families})
  /\ Address \subseteq Nat /\ Cardinality(Address) > 2 * (RecentMax + 1)
  /\ {RecentMax, MaxTime, MaxRestarts, MaxWords, MaxList} \subseteq Nat
  /\ MaxText > 1 /\ MaxChunk > 0

\* The family every request counts in, and one that some do.
TwoFamilies == <<"requestCount", "jobCount">>

VARIABLES
  part,
  asked, unsent, arrived, closed, at, size, capacity, totalData, handled, replies,
  count, file, newRequest, conn, sync, line, fileData, alive, requests, crashes,
  gauge, pointers, received, now, restarts,
  input, result

F == INSTANCE RequestFraming WITH request <- asked, pc <- at
S == INSTANCE StatisticsSync
L == INSTANCE RecentLists WITH queue <- pointers
T == INSTANCE TextFormat

ASSUME ConnectionAssumption == None \notin F!Request

framingVars == <<asked, unsent, arrived, closed, at, size, capacity, totalData, handled, replies>>
countVars   == <<count, file, newRequest, conn, sync, line, fileData, alive, requests, crashes>>
listVars    == <<gauge, pointers, received, now, restarts>>
textVars    == <<input, result>>
all         == <<part, vars, framingVars, countVars, listVars, textVars>>

PartsInit ==
  /\ part \in {"pool", "framing", "statistics", "lists", "text"}
  /\ Init /\ F!Init /\ S!Init /\ L!Init
  /\ IF part = "text" THEN T!Init ELSE input = None /\ result = <<>>

PartsNext ==
  \/ part = "pool"       /\ Next   /\ UNCHANGED <<part, framingVars, countVars, listVars, textVars>>
  \/ part = "framing"    /\ F!Next /\ UNCHANGED <<part, vars, countVars, listVars, textVars>>
  \/ part = "statistics" /\ S!Next /\ UNCHANGED <<part, vars, framingVars, listVars, textVars>>
  \/ part = "lists"      /\ L!Next /\ UNCHANGED <<part, vars, framingVars, countVars, textVars>>
  \/ part = "text"       /\ T!Next /\ UNCHANGED <<part, vars, framingVars, countVars, listVars>>

\* The fairness of the part that runs: the one of its own FairSpec.
PartsFairness ==
  /\ WF_vars(part = "pool" /\ (Reject \/ Join))
  /\ \A w \in Worker : WF_vars(part = "pool" /\ Work(w))
  /\ WF_framingVars(part = "framing" /\ F!Serve)
  /\ WF_framingVars(part = "framing" /\ F!Send)
  /\ WF_countVars(part = "statistics" /\ S!Synchronize)
  /\ WF_countVars(part = "statistics" /\ S!Start)
  /\ \A c \in Conn : WF_countVars(part = "statistics" /\ S!Serve(c))

PartsSpec == PartsInit /\ [][PartsNext]_all /\ PartsFairness

(***************************************************************************)
(* Properties: those of the parts, under their own names.  ImplementsLookup  *)
(* and EveryRequestReplied are QueryPool's.                                  *)
(***************************************************************************)
\* The types of all parts: the workers give up after MAX_RETRIES, the data of a
\* connection never outgrows its buffer (readExpectedData), writeToFile stays inside
\* its families and a queue of recent entries only holds addresses of gauges.
PartsTypeOK == TypeOK /\ F!TypeOK /\ S!TypeOK /\ L!TypeOK

\* handleRequest gets a beginning of what was sent, no longer than declared, and all of
\* it when the client declared what it sends (TcpConnection::start, readExpectedData).
DataAsSent == F!DataAsSent

\* A client that sends all it declared is replied to, without closing first.
EveryRequestAnswered == F!EveryRequestAnswered

\* The file is never ahead of the counters, crashes and restarts included
\* (writeToFile, readFromFile).
FileNeverAhead == S!FileNeverAhead

\* What was counted while the flag is up, before its family is collected, gets into the
\* file (synchronize), unless the process ends or the file cannot be opened.
FlaggedIsWritten == S!FlaggedIsWritten

\* No gauge is forgotten by its queue, and a list has at most RecentMax + 1
\* (addRecentProject, addRecentVulnerability).
GaugesTracked == L!GaugesTracked

\* Until the process restarts, the list shows the latest vulnerabilities, each once.
VulnsAreLatest == L!VulnsAreLatest

\* splitStringOn returns the pieces between the delimiters.
SplitIsPieces == T!SplitIsPieces

\* toChunks and cartesianProductQueue: every element in one chunk, every chunk with
\* every list of files once.
ChunksAndPairs == T!ChunksAndPairs

\* What appendBy, hashToUUIDString and constructMessage put together comes apart again.
RoundTrips == T!RoundTrips
=============================================================================
