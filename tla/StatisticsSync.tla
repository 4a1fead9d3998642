---------------------------- MODULE StatisticsSync ----------------------------
(***************************************************************************)
(* The counters of Statistics and the thread that saves them: connections   *)
(* count, the synchronize thread looks at newRequest every 10 seconds and   *)
(* writes the file, which is read when the process starts again.            *)
(***************************************************************************)
EXTENDS Integers, Sequences, FiniteSets

CONSTANTS
  Conn,
  Families,                 \* a sequence: the families in the order of the file
  MaxRequests, MaxCrashes   \* bounds of the instance

Family == {Families[i] : i \in 1..Len(Families)}

VARIABLES
  count,        \* per family: the counter in memory
  file,         \* per family: the counter in the file, 0 when it has no line
  newRequest,   \* the flag, uninitialised at the start of the process
  conn,         \* per connection: "idle", "reading" or "handled"
  sync,         \* the synchronize thread: "sleep", "collect", "open", "write", "clear"
                \* or "unopened" when the file could not be opened
  line,         \* the family it collects or writes next
  fileData,     \* per family: what it collected
  alive, requests, crashes

vars == <<count, file, newRequest, conn, sync, line, fileData, alive, requests, crashes>>

Nil == [f \in Family |-> 0]

(***************************************************************************)
(* Connections                                                              *)
(***************************************************************************)
\* TcpConnection::start counts the request before it reads its data.
CountRequest(c) ==
  /\ alive /\ conn[c] = "idle" /\ requests < MaxRequests
  /\ requests' = requests + 1
  /\ count' = [count EXCEPT ![Families[1]] = @ + 1]
  /\ conn' = [conn EXCEPT ![c] = "reading"]
  /\ UNCHANGED <<file, newRequest, sync, line, fileData, alive, crashes>>

\* handleRequest counts in some of the other families, or in none.
HandleRequest(c) ==
  /\ conn[c] = "reading"
  /\ \E fs \in SUBSET (Family \ {Families[1]}) :
       count' = [f \in Family |-> IF f \in fs THEN count[f] + 1 ELSE count[f]]
  /\ conn' = [conn EXCEPT ![c] = "handled"]
  /\ UNCHANGED <<file, newRequest, sync, line, fileData, alive, requests, crashes>>

SetNewRequest(c) ==
  /\ conn[c] = "handled"
  /\ newRequest' = TRUE
  /\ conn' = [conn EXCEPT ![c] = "idle"]
  /\ UNCHANGED <<count, file, sync, line, fileData, alive, requests, crashes>>

(***************************************************************************)
(* The synchronize thread                                                   *)
(***************************************************************************)
\* The end of usleep: it writes when there was a request.
Wake ==
  /\ alive /\ sync = "sleep" /\ newRequest
  /\ sync' = "collect" /\ line' = 1
  /\ UNCHANGED <<count, file, newRequest, conn, fileData, alive, requests, crashes>>

\* The next family, or the next stage of writeToFile.
Onward(next) ==
  IF line < Len(Families) THEN line' = line + 1 /\ UNCHANGED sync ELSE line' = 1 /\ sync' = next

\* MUTANT of Collect: the loop ends one family early.
CollectsTooFew ==
  /\ sync = "collect"
  /\ fileData' = IF line < Len(Families) THEN [fileData EXCEPT ![Families[line]] = count[Families[line]]]
                 ELSE fileData
  /\ Onward("open")
  /\ UNCHANGED <<count, file, newRequest, conn, alive, requests, crashes>>

\* Collect() of one family; connections go on counting between two of them.
Collect ==
  /\ sync = "collect"
  /\ fileData' = [fileData EXCEPT ![Families[line]] = count[Families[line]]]
  /\ Onward("open")
  /\ UNCHANGED <<count, file, newRequest, conn, alive, requests, crashes>>

\* The ofstream is opened, which empties the file; or it cannot be opened.
Open ==
  /\ sync = "open"
  /\ \/ file' = Nil /\ sync' = "write"
     \/ sync' = "unopened" /\ UNCHANGED file
  /\ line' = 1
  /\ UNCHANGED <<count, newRequest, conn, fileData, alive, requests, crashes>>

\* A part of the text reaches the file.
WriteLine ==
  /\ sync = "write"
  /\ file' = [file EXCEPT ![Families[line]] = fileData[Families[line]]]
  /\ Onward("clear")
  /\ UNCHANGED <<count, newRequest, conn, fileData, alive, requests, crashes>>

\* The flag is cleared after the write, whatever came in meanwhile and whether anything
\* was written.
Clear ==
  /\ sync \in {"clear", "unopened"}
  /\ newRequest' = FALSE /\ sync' = "sleep"
  /\ UNCHANGED <<count, file, conn, line, fileData, alive, requests, crashes>>

(***************************************************************************)
(* The process                                                              *)
(***************************************************************************)
Crash ==
  /\ alive /\ crashes < MaxCrashes
  /\ crashes' = crashes + 1 /\ alive' = FALSE
  /\ count' = Nil /\ fileData' = Nil /\ line' = 1
  /\ conn' = [c \in Conn |-> "idle"] /\ sync' = "sleep"
  /\ UNCHANGED <<file, newRequest, requests>>

\* MUTANT of Start: the file is not read.
StartsEmpty ==
  /\ ~alive /\ alive' = TRUE
  /\ newRequest' \in BOOLEAN
  /\ UNCHANGED <<count, file, conn, sync, line, fileData, requests, crashes>>

\* main: Initialize, readFromFile and the thread.  Statistics has no constructor,
\* so newRequest may have any value.
Start ==
  /\ ~alive /\ alive' = TRUE
  /\ count' = file
  /\ newRequest' \in BOOLEAN
  /\ UNCHANGED <<file, conn, sync, line, fileData, requests, crashes>>

Init ==
  /\ count = Nil /\ file = Nil /\ fileData = Nil
  /\ newRequest = FALSE /\ alive = FALSE
  /\ conn = [c \in Conn |-> "idle"]
  /\ sync = "sleep" /\ line = 1 /\ requests = 0 /\ crashes = 0

Serve(c) == HandleRequest(c) \/ SetNewRequest(c)
Synchronize == Wake \/ Collect \/ Open \/ WriteLine \/ Clear

Next == \/ \E c \in Conn : CountRequest(c) \/ Serve(c)
        \/ Synchronize \/ Crash \/ Start

Spec == Init /\ [][Next]_vars

\* The threads run on; requests and crashes come as they like.
FairSpec == /\ Spec
            /\ WF_vars(Synchronize) /\ WF_vars(Start)
            /\ \A c \in Conn : WF_vars(Serve(c))

(***************************************************************************)
(* Properties                                                               *)
(***************************************************************************)
\* The types of counters and file; writeToFile stays inside its families.
TypeOK ==
  /\ count \in [Family -> Nat] /\ file \in [Family -> Nat]
  /\ fileData \in [Family -> Nat]
  /\ newRequest \in BOOLEAN /\ alive \in BOOLEAN
  /\ conn \in [Conn -> {"idle", "reading", "handled"}]
  /\ sync \in {"sleep", "collect", "open", "write", "clear", "unopened"}
  /\ line \in 1..Len(Families)
  /\ requests \in 0..MaxRequests /\ crashes \in 0..MaxCrashes

\* The file is never ahead of the counters it was written from, restarts
\* included: nothing is counted that did not happen (writeToFile, readFromFile).
FileNeverAhead == alive => \A f \in Family : file[f] <= count[f] /\ fileData[f] <= count[f]

\* The synchronize thread has yet to collect f in the pass it is in, or in the next one.
YetToCollect(f) == \/ sync = "sleep"
                   \/ sync = "collect" /\ \E i \in line..Len(Families) : Families[i] = f

\* While the flag is up, a count made before its family is collected gets into the file,
\* be the thread asleep or in the middle of a pass (synchronize, writeToFile), unless the
\* process ends or the file cannot be opened.  A count made after that has no such
\* promise: the flag its request sets is cleared at the end of the pass.
FlaggedIsWritten ==
  \A f \in Family, n \in 1..MaxRequests :
    newRequest /\ alive /\ YetToCollect(f) /\ count[f] >= n
      ~> file[f] >= n \/ ~alive \/ sync = "unopened"
=============================================================================
