----------------------------- MODULE PartsProofs -----------------------------
(***************************************************************************)
(* Proofs about the parts that share no state: the saving of the counters   *)
(* for any number of connections, families, requests and crashes, the       *)
(* reading of a request for data of any length, cut into any pieces, the    *)
(* recent lists, and the functions on texts and lists of any length.        *)
(***************************************************************************)
EXTENDS MCParts, QueryPoolProofs, SequenceLemmas

(***************************************************************************)
(* StatisticsSync: FileNeverAhead.  A process that is down holds nothing    *)
(* in memory, so that Start, which takes the counters from the file, finds  *)
(* no collected data that is ahead of them.                                 *)
(***************************************************************************)
DownIsEmpty ==
  ~alive => /\ fileData = S!Nil /\ sync = "sleep"
            /\ \A c \in Conn : conn[c] = "idle"

CountInv == S!TypeOK /\ S!FileNeverAhead /\ DownIsEmpty

LEMMA FamiliesListed ==
  /\ Len(Families) \in Nat \ {0}
  /\ \A i \in 1..Len(Families) : Families[i] \in S!Family
  /\ 1 \in 1..Len(Families) /\ Families[1] \in S!Family
  /\ MaxRequests \in Nat /\ MaxCrashes \in Nat
<1>1. Families # <<>> /\ Families \in Seq({Families[i] : i \in DOMAIN Families})
  BY PartsAssumption
<1>2. Len(Families) \in Nat /\ Len(Families) # 0
  BY <1>1
<1>3. MaxRequests \in Nat /\ MaxCrashes \in Nat
  BY PartsAssumption
<1>4. \A i \in 1..Len(Families) : Families[i] \in S!Family
  BY DEF S!Family
<1>5. 1 \in 1..Len(Families)
  BY <1>2
<1> QED BY <1>2, <1>3, <1>4, <1>5

LEMMA CountInit == S!Init => CountInv
<1> SUFFICES ASSUME S!Init PROVE CountInv
  OBVIOUS
<1>1. S!Nil \in [S!Family -> Nat]
  BY DEF S!Nil
<1>2. S!TypeOK
  <2>1. 1 \in 1..Len(Families) /\ 0 \in 0..MaxRequests /\ 0 \in 0..MaxCrashes
    <3>1. MaxRequests \in Nat /\ MaxCrashes \in Nat /\ 1 \in 1..Len(Families)
      BY FamiliesListed
    <3> QED BY <3>1
  <2>2. conn \in [Conn -> {"idle", "reading", "handled"}]
    BY DEF S!Init
  <2> QED BY <1>1, <2>1, <2>2 DEF S!Init, S!TypeOK
<1> QED BY <1>2 DEF S!Init, S!FileNeverAhead, DownIsEmpty, CountInv

\* The next family stays within the file.
LEMMA OnwardType ==
  ASSUME S!TypeOK, NEW next, S!Onward(next)
  PROVE  line' \in 1..Len(Families) /\ sync' \in {sync, next}
  BY FamiliesListed DEF S!TypeOK, S!Onward

\* Connections only count up.
LEMMA CountServe ==
  ASSUME CountInv, NEW c \in Conn, S!CountRequest(c) \/ S!Serve(c) PROVE CountInv'
<1>1. S!TypeOK /\ S!FileNeverAhead /\ DownIsEmpty /\ alive
  <2>1. alive \in BOOLEAN /\ DownIsEmpty
    BY DEF CountInv, S!TypeOK
  <2> QED BY <2>1 DEF CountInv, DownIsEmpty, S!CountRequest, S!Serve, S!HandleRequest, S!SetNewRequest
<1>2. /\ UNCHANGED <<file, sync, line, fileData, alive, crashes>>
      /\ conn' \in [Conn -> {"idle", "reading", "handled"}]
      /\ requests' \in 0..MaxRequests /\ newRequest' \in BOOLEAN
      /\ count' \in [S!Family -> Nat] /\ \A f \in S!Family : count[f] <= count'[f]
  <2>1. CASE S!CountRequest(c)
    BY <1>1, <2>1, FamiliesListed DEF S!TypeOK, S!CountRequest
  <2>2. CASE S!HandleRequest(c)
    BY <1>1, <2>2 DEF S!TypeOK, S!HandleRequest
  <2>3. CASE S!SetNewRequest(c)
    BY <1>1, <2>3 DEF S!TypeOK, S!SetNewRequest
  <2> QED BY <2>1, <2>2, <2>3 DEF S!Serve
<1>3. S!TypeOK'
  BY <1>1, <1>2 DEF S!TypeOK
<1>4. S!FileNeverAhead'
  BY <1>1, <1>2 DEF S!TypeOK, S!FileNeverAhead
<1> QED BY <1>1, <1>2, <1>3, <1>4 DEF CountInv, DownIsEmpty

\* synchronize and writeToFile only write what they collected.
LEMMA CountSynchronize ==
  ASSUME CountInv, S!Synchronize PROVE CountInv'
<1>1. S!TypeOK /\ S!FileNeverAhead /\ DownIsEmpty /\ alive /\ Families[line] \in S!Family
  <2>1. alive \in BOOLEAN /\ DownIsEmpty /\ line \in 1..Len(Families)
    BY DEF CountInv, S!TypeOK
  <2> QED BY <2>1, FamiliesListed
          DEF CountInv, DownIsEmpty, S!Synchronize, S!Wake, S!Collect, S!Open, S!WriteLine, S!Clear
<1>2. UNCHANGED <<count, conn, alive, requests, crashes>>
  BY DEF S!Synchronize, S!Wake, S!Collect, S!Open, S!WriteLine, S!Clear
<1>3. /\ line' \in 1..Len(Families) /\ newRequest' \in BOOLEAN
      /\ sync' \in {"sleep", "collect", "open", "write", "clear", "unopened"}
  <2>1. CASE S!Collect \/ S!WriteLine
    <3>1. newRequest' = newRequest /\ (S!Onward("open") \/ S!Onward("clear"))
      BY <2>1 DEF S!Collect, S!WriteLine
    <3> QED BY <1>1, <3>1, OnwardType DEF S!TypeOK
  <2>2. CASE S!Wake \/ S!Open \/ S!Clear
    <3>1. line \in 1..Len(Families) /\ newRequest \in BOOLEAN
      BY <1>1 DEF S!TypeOK
    <3>2. /\ line' = line \/ line' = 1
          /\ newRequest' = newRequest \/ newRequest' = FALSE
          /\ sync' \in {"sleep", "collect", "open", "write", "clear", "unopened"}
      BY <2>2 DEF S!Wake, S!Open, S!Clear
    <3> QED BY <3>1, <3>2, FamiliesListed, Zenon
  <2> QED BY <2>1, <2>2 DEF S!Synchronize
<1>4. /\ file' \in [S!Family -> Nat] /\ fileData' \in [S!Family -> Nat]
      /\ \A f \in S!Family : file'[f] <= count[f] /\ fileData'[f] <= count[f]
  <2>1. /\ count \in [S!Family -> Nat] /\ file \in [S!Family -> Nat] /\ fileData \in [S!Family -> Nat]
        /\ \A f \in S!Family : file[f] <= count[f] /\ fileData[f] <= count[f]
    BY <1>1 DEF S!TypeOK, S!FileNeverAhead
  <2>2. CASE S!Collect
    BY <1>1, <2>1, <2>2 DEF S!Collect
  <2>3. CASE S!WriteLine
    BY <1>1, <2>1, <2>3 DEF S!WriteLine
  <2>4. CASE S!Open
    <3>1. fileData' = fileData /\ count' = count /\ (file' = S!Nil \/ file' = file)
      BY <1>2, <2>4 DEF S!Open
    <3> QED BY <2>1, <3>1 DEF S!Nil
  <2>5. CASE S!Wake \/ S!Clear
    BY <2>1, <2>5 DEF S!Wake, S!Clear
  <2> QED BY <2>2, <2>3, <2>4, <2>5 DEF S!Synchronize
<1>5. S!TypeOK' /\ S!FileNeverAhead'
  BY <1>1, <1>2, <1>3, <1>4 DEF S!TypeOK, S!FileNeverAhead
<1> QED BY <1>1, <1>2, <1>5 DEF CountInv, DownIsEmpty

\* The end of the process and its next start.
LEMMA CountProcess ==
  ASSUME CountInv, S!Crash \/ S!Start PROVE CountInv'
<1>1. S!TypeOK /\ DownIsEmpty
  BY DEF CountInv
<1>2. S!Nil \in [S!Family -> Nat] /\ \A f \in S!Family : S!Nil[f] = 0
  BY DEF S!Nil
<1>3. CASE S!Crash
  <2>1. S!TypeOK'
    <3>1. 1 \in 1..Len(Families) /\ MaxCrashes \in Nat
      BY FamiliesListed
    <3>2. crashes' \in 0..MaxCrashes
      BY <1>1, <1>3, <3>1 DEF S!TypeOK, S!Crash
    <3>3. conn' \in [Conn -> {"idle", "reading", "handled"}]
      BY <1>3 DEF S!Crash
    <3>4. /\ count' = S!Nil /\ fileData' = S!Nil /\ line' = 1 /\ alive' = FALSE /\ sync' = "sleep"
          /\ UNCHANGED <<file, newRequest, requests>>
      BY <1>3 DEF S!Crash
    <3> QED BY <1>1, <1>2, <3>1, <3>2, <3>3, <3>4 DEF S!TypeOK
  <2>2. ~alive' /\ DownIsEmpty'
    BY <1>3 DEF S!Crash, DownIsEmpty
  <2> QED BY <2>1, <2>2 DEF CountInv, S!FileNeverAhead
<1>4. CASE S!Start
  <2>1. S!TypeOK'
    BY <1>1, <1>4 DEF S!TypeOK, S!Start
  <2>2. S!FileNeverAhead'
    BY <1>1, <1>2, <1>4 DEF S!TypeOK, S!Start, DownIsEmpty, S!FileNeverAhead
  <2> QED BY <1>4, <2>1, <2>2 DEF CountInv, DownIsEmpty, S!Start
<1> QED BY <1>3, <1>4

LEMMA CountNext == CountInv /\ [S!Next]_S!vars => CountInv'
<1> SUFFICES ASSUME CountInv, [S!Next]_S!vars PROVE CountInv'
  OBVIOUS
<1>1. CASE UNCHANGED S!vars
  BY <1>1 DEF S!vars, CountInv, DownIsEmpty, S!TypeOK, S!FileNeverAhead
<1> QED BY <1>1, CountServe, CountSynchronize, CountProcess DEF S!Next

\* The file of Statistics is never ahead of the counters, for any number of connections
\* that count while writeToFile collects, and with the process ending at any point.
THEOREM FileAlwaysBehind == S!Spec => []FileNeverAhead
<1>1. CountInv => FileNeverAhead
  BY DEF CountInv, FileNeverAhead
<1> QED BY <1>1, CountInit, CountNext, PTL DEF S!Spec

(***************************************************************************)
(* RequestFraming: DataAsSent.  The bytes of a body are numbered, so the    *)
(* server has a beginning of the body when it has the numbers up to some n. *)
(* What waits in the socket goes on where the server stopped reading; while *)
(* the server reads, it has exactly the bytes it took from the socket, and  *)
(* when it goes on to the handler early or late, the client did not send    *)
(* what it declared.                                                        *)
(***************************************************************************)
Upto(n)    == [i \in 1..n |-> i]
After(k, n) == [i \in 1..n |-> k + i]

\* The bytes the server took from the socket.
Taken == asked.body - unsent - Len(arrived)

Places == {"accept", "header", "read", "handle", "done"}

Wires ==
  /\ asked \in F!Request \cup {None} /\ at \in Places /\ closed \in BOOLEAN
  /\ unsent \in Nat /\ arrived \in Seq(Nat) /\ totalData \in Seq(Nat)
  /\ size \in -MaxLength..MaxLength /\ capacity \in 0..MaxLength
  /\ replies \in Seq({"client", "larger than expected", "answer"})
  /\ Len(totalData) <= MaxLength

Fresh == /\ arrived = <<>> /\ unsent = 0 /\ closed = FALSE
         /\ at = "accept" /\ handled = None /\ replies = <<>>

\* What waits in the socket follows what was taken from it.
Flowing == /\ at # "accept" /\ Taken \in Nat
           /\ arrived = After(Taken, Len(arrived))
           /\ closed = TRUE => unsent = 0

\* The data of a request that goes to the handler.
Sound(data) ==
  /\ data = Upto(Len(data)) /\ Len(data) <= asked.length /\ Len(data) <= asked.body
  /\ asked.body = asked.length => Len(data) = asked.body

Reading ==
  /\ at = "header" => Taken = 0 /\ handled = None /\ replies = <<>>
  /\ at = "read" => /\ size >= 1 /\ size <= capacity /\ size + Taken = asked.length
                    /\ totalData = Upto(Taken) /\ handled = None /\ replies = <<>>
  /\ at = "handle" => /\ Sound(totalData) /\ handled = None
                      /\ asked.body = asked.length => replies = <<>>
  /\ at = "done" => F!DataAsSent

FrameInv == Wires /\ (asked = None => Fresh) /\ (asked # None => Flowing /\ Reading)

LEMMA Lengths == MaxLength \in Nat
  BY PartsAssumption

LEMMA RequestFields ==
  ASSUME NEW r \in F!Request
  PROVE  r.length \in 0..MaxLength /\ r.body \in 0..(MaxLength + 1) /\ r # None
  BY ConnectionAssumption DEF F!Request

LEMMA UptoSeq ==
  ASSUME NEW k \in Nat, NEW n \in Nat
  PROVE  /\ After(k, n) \in Seq(Nat) /\ Len(After(k, n)) = n
         /\ \A i \in 1..n : After(k, n)[i] = k + i
         /\ Upto(n) \in Seq(Nat) /\ Len(Upto(n)) = n /\ After(0, n) = Upto(n)
  BY DEF After, Upto

\* Taking the first m of n bytes that wait after the first k.
LEMMA SplitFlow ==
  ASSUME NEW k \in Nat, NEW n \in Nat, NEW m \in 0..n
  PROVE  /\ SubSeq(After(k, n), 1, m) = After(k, m)
         /\ SubSeq(After(k, n), m + 1, n) = After(k + m, n - m)
         /\ Upto(k) \o After(k, m) = Upto(k + m)
<1>1. m \in Nat /\ m <= n /\ n - m \in Nat /\ k + m \in Nat
  OBVIOUS
<1>2. SubSeq(After(k, n), 1, m) = After(k, m)
  BY <1>1 DEF After
<1>3. SubSeq(After(k, n), m + 1, n) = After(k + m, n - m)
  BY <1>1 DEF After
<1>4. Upto(k) \o After(k, m) = Upto(k + m)
  BY <1>1 DEF After, Upto
<1> QED BY <1>2, <1>3, <1>4

\* Sound data is a beginning of the body.
LEMMA SoundIsPrefix ==
  ASSUME asked \in F!Request, NEW data \in Seq(Nat), Sound(data)
  PROVE  /\ F!IsPrefix(data, F!Body) /\ Len(data) <= asked.length
         /\ asked.body = asked.length => data = F!Body
<1>1. asked.body \in Nat /\ Len(data) \in Nat /\ Len(data) <= asked.body /\ data = Upto(Len(data))
  BY RequestFields, Lengths DEF Sound
<1> DEFINE n == Len(data)
<1>2. F!Body = Upto(asked.body) /\ Len(F!Body) = asked.body
  BY <1>1, UptoSeq DEF F!Body, Upto
<1>3. SubSeq(data, 1, n) = SubSeq(F!Body, 1, n)
  <2>1. SubSeq(Upto(n), 1, n) = Upto(n) /\ SubSeq(Upto(asked.body), 1, n) = Upto(n)
    BY <1>1 DEF Upto
  <2> QED BY <1>1, <1>2, <2>1
<1> QED BY <1>1, <1>2, <1>3 DEF F!IsPrefix, Sound

LEMMA FrameInit == F!Init => FrameInv
<1> SUFFICES ASSUME F!Init PROVE FrameInv
  OBVIOUS
<1>1. /\ asked = None /\ unsent = 0 /\ arrived = <<>> /\ closed = FALSE /\ at = "accept"
      /\ size = 0 /\ capacity = 0 /\ totalData = <<>> /\ handled = None /\ replies = <<>>
  BY Zenon DEF F!Init
<1>2. Wires
  <2>1. asked \in F!Request \cup {None} /\ at \in Places /\ closed \in BOOLEAN
    BY <1>1, Zenon DEF Places
  <2>2. /\ unsent \in Nat /\ arrived \in Seq(Nat) /\ totalData \in Seq(Nat)
        /\ size \in -MaxLength..MaxLength /\ capacity \in 0..MaxLength
        /\ replies \in Seq({"client", "larger than expected", "answer"})
        /\ Len(totalData) <= MaxLength
    BY <1>1, Lengths
  <2> QED BY <2>1, <2>2, Zenon DEF Wires
<1>3. Fresh
  BY <1>1, Zenon DEF Fresh
<1> QED BY <1>1, <1>2, <1>3, Zenon DEF FrameInv

\* What the invariant says of a connection whose client sent its request.
LEMMA Connected ==
  ASSUME FrameInv, at # "accept"
  PROVE  /\ Wires /\ Flowing /\ Reading /\ asked \in F!Request /\ asked # None
         /\ asked.length \in 0..MaxLength /\ asked.body \in 0..(MaxLength + 1)
         /\ unsent \in Nat /\ Taken \in Nat /\ Len(arrived) \in Nat /\ arrived \in Seq(Nat)
         /\ Taken = asked.body - unsent - Len(arrived)
<1>1. asked # None /\ Wires /\ Flowing /\ Reading
  BY Zenon DEF FrameInv, Fresh
<1>2. asked \in F!Request /\ unsent \in Nat /\ arrived \in Seq(Nat)
  BY <1>1 DEF Wires
<1>3. asked.length \in 0..MaxLength /\ asked.body \in 0..(MaxLength + 1) /\ Len(arrived) \in Nat
  BY <1>2, RequestFields
<1>4. Taken \in Nat
  BY <1>1, Zenon DEF Flowing
<1>5. Taken = asked.body - unsent - Len(arrived)
  BY DEF Taken
<1> QED BY <1>1, <1>2, <1>3, <1>4, <1>5, Zenon

\* The client: it connects, sends its bytes in order and closes after the last.
LEMMA FrameClient ==
  ASSUME FrameInv, F!Connect \/ F!Send \/ F!Close PROVE FrameInv'
<1>1. CASE F!Connect
  <2>1. PICK r \in F!Request : asked' = r /\ unsent' = r.body
    BY <1>1 DEF F!Connect
  <2>2. Wires /\ Fresh
    BY <1>1, Zenon DEF F!Connect, FrameInv
  <2>3. /\ at' = "header" /\ arrived' = <<>> /\ closed' = FALSE /\ handled' = None
        /\ replies' = <<>> /\ UNCHANGED <<size, capacity, totalData>>
    BY <1>1, <2>2, Zenon DEF F!Connect, Fresh
  <2>4. r.body \in Nat /\ r # None
    BY RequestFields, Lengths
  <2>5. Wires'
    <3>1. asked' \in F!Request \cup {None} /\ at' \in Places /\ closed' \in BOOLEAN
      BY <2>1, <2>3, Zenon DEF Places
    <3>2. unsent' \in Nat /\ arrived' \in Seq(Nat)
      BY <2>1, <2>3, <2>4
    <3>3. replies' \in Seq({"client", "larger than expected", "answer"})
      BY <2>3
    <3> QED BY <2>2, <2>3, <3>1, <3>2, <3>3, Zenon DEF Wires
  <2>6. Taken' = 0
    BY <2>1, <2>3, <2>4 DEF Taken
  <2>7. arrived' = After(0, 0) /\ Len(arrived') = 0
    BY <2>3 DEF After
  <2>8. /\ at' # "accept" /\ at' # "read" /\ at' # "handle" /\ at' # "done"
        /\ ~(closed' = TRUE) /\ Taken' \in Nat
    BY <2>3, <2>6
  <2>9. arrived' = After(Taken', Len(arrived'))
    BY <2>6, <2>7
  <2>10. Flowing'
    BY <2>8, <2>9, Zenon DEF Flowing
  <2>11. Reading'
    BY <2>3, <2>6, <2>8, Zenon DEF Reading
  <2> QED BY <2>1, <2>4, <2>5, <2>10, <2>11, Zenon DEF FrameInv
<1>2. CASE F!Send
  <2>1. /\ asked # None /\ unsent > 0 /\ UNCHANGED <<asked, closed, F!server>>
        /\ arrived' = Append(arrived, asked.body - unsent + 1) /\ unsent' = unsent - 1
    BY <1>2 DEF F!Send
  <2>2. at # "accept"
    BY <2>1, Zenon DEF FrameInv, Flowing
  <2>3. /\ Wires /\ Flowing /\ Reading /\ asked.body \in Nat /\ asked # None
        /\ unsent \in Nat /\ Taken \in Nat /\ Len(arrived) \in Nat /\ arrived \in Seq(Nat)
        /\ Taken = asked.body - unsent - Len(arrived)
    BY <2>2, Connected, Lengths
  <2> DEFINE n == Len(arrived)
             b == asked.body - unsent + 1
  <2>4. b = Taken + (n + 1) /\ b \in Nat
    BY <2>3
  <2>5. arrived' \in Seq(Nat) /\ Len(arrived') = n + 1
    BY <2>1, <2>3, <2>4
  <2>6. Taken' = Taken
    BY <2>1, <2>3, <2>5 DEF Taken
  <2>7. arrived' = After(Taken, n + 1)
    <3>1. arrived = After(Taken, n)
      BY <2>3 DEF Flowing
    <3>2. Append(After(Taken, n), Taken + (n + 1)) = After(Taken, n + 1)
      BY <2>3 DEF After
    <3> HIDE DEF b
    <3> QED BY <2>1, <2>4, <3>1, <3>2 DEF b
  <2>8. UNCHANGED <<at, size, capacity, totalData, handled, replies, asked, closed>>
    BY <2>1 DEF F!server
  <2>9. Wires'
    <3>1. unsent' \in Nat
      BY <2>1, <2>3
    <3> QED BY <2>3, <2>5, <2>8, <3>1, Zenon DEF Wires
  <2>10. Flowing'
    <3>1. closed' = TRUE => unsent = 0
      BY <2>3, <2>8, Zenon DEF Flowing
    <3>2. unsent # 0
      BY <2>1, <2>3
    <3>3. arrived' = After(Taken', Len(arrived'))
      BY <2>5, <2>6, <2>7
    <3> QED BY <2>2, <2>3, <2>6, <2>8, <3>1, <3>2, <3>3, Zenon DEF Flowing
  <2>11. Reading'
    BY <2>3, <2>6, <2>8, Zenon DEF Reading, Sound, F!DataAsSent, F!Body
  <2> QED BY <2>3, <2>8, <2>9, <2>10, <2>11, Zenon DEF FrameInv
<1>3. CASE F!Close
  <2>1. asked # None /\ unsent = 0 /\ closed' = TRUE /\ UNCHANGED <<asked, unsent, arrived, F!server>>
    BY <1>3 DEF F!Close
  <2>2. UNCHANGED <<at, size, capacity, totalData, handled, replies, asked, unsent, arrived>>
    BY <2>1 DEF F!server
  <2>3. Wires /\ Flowing /\ Reading
    BY <2>1, Zenon DEF FrameInv
  <2>4. Wires'
    BY <2>1, <2>2, <2>3 DEF Wires
  <2>5. Taken' = Taken
    BY <2>2 DEF Taken
  <2>6. Flowing' /\ Reading'
    BY <2>1, <2>2, <2>3, <2>5, Zenon DEF Flowing, Reading, Sound, F!DataAsSent, F!Body
  <2> QED BY <2>1, <2>2, <2>4, <2>6, Zenon DEF FrameInv
<1> QED BY <1>1, <1>2, <1>3

\* Taking k bytes from the socket leaves the rest in order.
LEMMA TakeBytes ==
  ASSUME FrameInv, at # "accept", NEW k \in 0..Len(arrived),
         arrived' = SubSeq(arrived, k + 1, Len(arrived)), UNCHANGED <<asked, unsent, closed>>,
         at' # "accept"
  PROVE  /\ arrived' \in Seq(Nat) /\ Taken' = Taken + k /\ Flowing' /\ k \in Nat
         /\ Taken + k <= asked.body
         /\ SubSeq(arrived, 1, k) = After(Taken, k)
<1>1. /\ Wires /\ Flowing /\ asked.body \in Nat /\ unsent \in Nat /\ Taken \in Nat
      /\ Len(arrived) \in Nat /\ Taken = asked.body - unsent - Len(arrived)
  BY Connected, Lengths
<1> DEFINE n == Len(arrived)
<1>2. arrived = After(Taken, n) /\ (closed = TRUE => unsent = 0)
  BY <1>1 DEF Flowing
<1>3. k \in Nat /\ k <= n /\ n - k \in Nat /\ Taken + k \in Nat
  BY <1>1
<1>4. /\ SubSeq(After(Taken, n), 1, k) = After(Taken, k)
      /\ SubSeq(After(Taken, n), k + 1, n) = After(Taken + k, n - k)
  BY <1>1, SplitFlow
<1>5. SubSeq(arrived, 1, k) = After(Taken, k) /\ arrived' = After(Taken + k, n - k)
  <2>1. SubSeq(arrived, 1, k) = SubSeq(After(Taken, n), 1, k)
    BY <1>2
  <2>2. SubSeq(arrived, k + 1, n) = SubSeq(After(Taken, n), k + 1, n)
    BY <1>2
  <2> QED BY <1>4, <2>1, <2>2
<1>6. arrived' \in Seq(Nat) /\ Len(arrived') = n - k
  <2>1. After(Taken + k, n - k) \in Seq(Nat) /\ Len(After(Taken + k, n - k)) = n - k
    BY <1>3, UptoSeq
  <2> QED BY <1>5, <2>1, Zenon
<1>7. Taken' = Taken + k
  BY <1>1, <1>3, <1>6 DEF Taken
<1>8. Flowing'
  <2>1. arrived' = After(Taken', Len(arrived')) /\ Taken' \in Nat
    BY <1>3, <1>5, <1>6, <1>7
  <2>2. closed' = TRUE => unsent' = 0
    BY <1>2, Zenon
  <2> QED BY <2>1, <2>2, Zenon DEF Flowing
<1>9. Taken + k <= asked.body
  BY <1>1, <1>3
<1> QED BY <1>3, <1>5, <1>6, <1>7, <1>8, <1>9, Zenon

\* read_until: the connection ends without a call of the handler, or it has the bytes
\* that came with the header.
LEMMA FrameHeader ==
  ASSUME FrameInv, F!ReadHeader PROVE FrameInv'
<1>1. at = "header" /\ UNCHANGED <<asked, unsent, closed>>
  BY DEF F!ReadHeader
<1>2. PICK k \in 0..Len(arrived) :
        /\ arrived' = SubSeq(arrived, k + 1, Len(arrived))
        /\ CASE asked.header = "cut" -> closed /\ F!End(replies)
             [] asked.header \in {"short", "nan"} -> F!End(Append(replies, "client"))
             [] asked.header = "whole" /\ asked.length - k < 0 -> F!End(Append(replies, "client"))
             [] asked.header = "whole" /\ asked.length - k >= 0 ->
                  /\ at' = IF asked.length - k > 0 THEN "read" ELSE "handle"
                  /\ size' = asked.length - k /\ capacity' = asked.length - k
                  /\ totalData' = SubSeq(arrived, 1, k)
                  /\ UNCHANGED <<handled, replies>>
  BY Zenon DEF F!ReadHeader
<1>3. /\ Wires /\ Flowing /\ Reading /\ asked \in F!Request /\ asked # None
      /\ asked.length \in 0..MaxLength /\ asked.body \in Nat
  BY <1>1, Connected, Lengths
<1>4. \/ F!End(replies) \/ F!End(Append(replies, "client"))
       \/ /\ asked.length - k >= 0
          /\ at' = IF asked.length - k > 0 THEN "read" ELSE "handle"
          /\ size' = asked.length - k /\ capacity' = asked.length - k
          /\ totalData' = SubSeq(arrived, 1, k)
          /\ UNCHANGED <<handled, replies>>
  <2>1. asked.header \in {"whole", "short", "nan", "cut"}
    BY <1>3 DEF F!Request
  <2>2. asked.length - k < 0 \/ asked.length - k >= 0
    BY <1>3
  <2>3. CASE asked.header = "cut"
    BY <1>2, <2>3
  <2>4. CASE asked.header \in {"short", "nan"}
    BY <1>2, <2>4
  <2>5. CASE asked.header = "whole" /\ asked.length - k < 0
    BY <1>2, <2>5
  <2>6. CASE asked.header = "whole" /\ asked.length - k >= 0
    BY <1>2, <1>3, <2>6
  <2> QED BY <2>1, <2>2, <2>3, <2>4, <2>5, <2>6
<1>5. Taken = 0 /\ handled = None /\ replies = <<>>
  BY <1>1, <1>3, Zenon DEF Reading
<1>6. at' # "accept"
  BY <1>4 DEF F!End
<1>7. /\ arrived' \in Seq(Nat) /\ Taken' = k /\ Flowing' /\ k \in Nat /\ k <= asked.body
      /\ SubSeq(arrived, 1, k) = Upto(k)
  <2>1. After(0, k) = Upto(k) /\ k \in Nat
    BY <1>1, <1>2, Connected, UptoSeq
  <2>2. /\ arrived' \in Seq(Nat) /\ Taken' = Taken + k /\ Flowing'
        /\ Taken + k <= asked.body /\ SubSeq(arrived, 1, k) = After(Taken, k)
    BY <1>1, <1>2, <1>6, TakeBytes
  <2> QED BY <1>5, <2>1, <2>2
<1>8. asked' # None
  BY <1>1, <1>3
<1>9. ASSUME NEW answers \in {replies, Append(replies, "client")}, F!End(answers)
      PROVE  FrameInv'
  <2>1. /\ at' = "done" /\ replies' = answers /\ UNCHANGED <<size, capacity, totalData, handled>>
    BY <1>9 DEF F!End
  <2>2. replies' \in Seq({"client", "larger than expected", "answer"})
    <3>1. answers = <<>> \/ answers = <<"client">>
      BY <1>5, <1>9
    <3>2. /\ <<>> \in Seq({"client", "larger than expected", "answer"})
          /\ <<"client">> \in Seq({"client", "larger than expected", "answer"})
      OBVIOUS
    <3> QED BY <2>1, <3>1, <3>2, Zenon
  <2>3. Wires'
    BY <1>1, <1>3, <1>7, <2>1, <2>2, Zenon DEF Wires, Places
  <2>4. at' # "header" /\ at' # "read" /\ at' # "handle"
    BY <2>1
  <2>5. Reading'
    BY <1>5, <2>1, <2>4, Zenon DEF Reading, F!DataAsSent
  <2> QED BY <1>7, <1>8, <2>3, <2>5, Zenon DEF FrameInv
<1>10. ASSUME asked.length - k >= 0,
             at' = IF asked.length - k > 0 THEN "read" ELSE "handle",
             size' = asked.length - k, capacity' = asked.length - k,
             totalData' = SubSeq(arrived, 1, k), UNCHANGED <<handled, replies>>
      PROVE  FrameInv'
  <2>1. /\ totalData' = Upto(k) /\ totalData' \in Seq(Nat) /\ Len(totalData') = k
        /\ k <= asked.length /\ k <= MaxLength
    <3>1. Upto(k) \in Seq(Nat) /\ Len(Upto(k)) = k
      BY <1>7, UptoSeq
    <3>2. k <= asked.length /\ k <= MaxLength
      BY <1>3, <1>7, <1>10, Lengths
    <3> QED BY <1>7, <1>10, <3>1, <3>2, Zenon
  <2>2. /\ at' \in Places /\ size' \in -MaxLength..MaxLength /\ capacity' \in 0..MaxLength
        /\ Len(totalData') <= MaxLength
    BY <1>3, <1>7, <1>10, <2>1, Lengths DEF Places
  <2>3. Wires'
    BY <1>1, <1>3, <1>7, <1>10, <2>1, <2>2, Zenon DEF Wires
  <2>4. at' # "header" /\ at' # "done" /\ handled' = None /\ replies' = <<>>
    BY <1>5, <1>10
  <2>5. at' = "read" => /\ size' >= 1 /\ size' <= capacity' /\ size' + Taken' = asked'.length
                        /\ totalData' = Upto(Taken')
    <3>1. at' = "read" => asked.length - k >= 1
      BY <1>3, <1>7, <1>10
    <3>2. size' <= capacity' /\ size' + Taken' = asked.length
      <4>1. asked.length \in Nat /\ k \in Nat /\ asked.length - k \in Nat
        BY <1>3, <1>7, <1>10, Lengths
      <4>2. Taken' = k /\ size' = asked.length - k /\ capacity' = asked.length - k
        BY <1>7, <1>10, Zenon
      <4>3. asked.length - k <= asked.length - k /\ (asked.length - k) + k = asked.length
        BY <4>1
      <4> QED BY <4>2, <4>3, Zenon
    <3>3. asked' = asked /\ totalData' = Upto(Taken')
      BY <1>1, <1>7, <2>1, Zenon
    <3> QED BY <1>10, <3>1, <3>2, <3>3
  <2>6. at' = "handle" => Sound(totalData)'
    <3>1. at' = "handle" => k = asked.length
      BY <1>3, <1>7, <1>10, Lengths
    <3> QED BY <1>1, <1>3, <1>7, <2>1, <3>1 DEF Sound
  <2>7. Reading'
    BY <2>4, <2>5, <2>6, Zenon DEF Reading
  <2> QED BY <1>7, <1>8, <2>3, <2>7, Zenon DEF FrameInv
<1> QED BY <1>4, <1>9, <1>10, Zenon

LEMMA Sizes ==
  ASSUME Wires PROVE size \in Int /\ capacity \in 0..MaxLength /\ capacity \in Int
<1>1. size \in -MaxLength..MaxLength /\ capacity \in 0..MaxLength
  BY Zenon DEF Wires
<1> QED BY <1>1, Lengths

\* read_some: a piece goes to the data when it is not too much.
LEMMA FrameRead ==
  ASSUME FrameInv, F!ReadSome PROVE FrameInv'
<1>1. at = "read" /\ UNCHANGED <<asked, unsent, closed, capacity, handled>>
  BY DEF F!ReadSome
<1>2. PICK n \in 1..Len(arrived) :
        /\ n <= capacity /\ size' = size - n
        /\ arrived' = SubSeq(arrived, n + 1, Len(arrived))
        /\ IF size' < 0
             THEN replies' = Append(replies, "larger than expected") /\ UNCHANGED totalData
             ELSE totalData' = totalData \o SubSeq(arrived, 1, n) /\ UNCHANGED replies
        /\ at' = IF size' <= 0 THEN "handle" ELSE "read"
  BY DEF F!ReadSome
<1>3. /\ Wires /\ Reading /\ asked \in F!Request /\ asked # None /\ Taken \in Nat
      /\ asked.length \in 0..MaxLength /\ asked.length \in Nat /\ asked.body \in Nat
      /\ Len(arrived) \in Nat /\ MaxLength \in Nat /\ n \in Nat /\ n \in 0..Len(arrived)
  <2>1. at # "accept"
    BY <1>1
  <2>2. /\ Wires /\ Reading /\ asked \in F!Request /\ asked # None /\ Taken \in Nat
        /\ asked.length \in 0..MaxLength /\ asked.body \in 0..(MaxLength + 1)
        /\ Len(arrived) \in Nat /\ MaxLength \in Nat
    BY <2>1, Connected, Lengths, Zenon
  <2>3. asked.length \in Nat /\ asked.body \in Nat /\ n \in Nat /\ n \in 0..Len(arrived)
    <3>1. /\ asked.length \in 0..MaxLength /\ asked.body \in 0..(MaxLength + 1)
          /\ Len(arrived) \in Nat /\ MaxLength \in Nat
      BY <2>2, Zenon
    <3> QED BY <3>1
  <2> QED BY <2>2, <2>3, Zenon
<1>4. /\ size >= 1 /\ size <= capacity /\ size + Taken = asked.length
      /\ totalData = Upto(Taken) /\ handled = None /\ replies = <<>>
  BY <1>1, <1>3, Zenon DEF Reading
<1>5. size \in Int /\ capacity \in 0..MaxLength
  BY <1>3, Sizes
<1>6. at' # "accept" /\ at' # "header" /\ at' # "done" /\ at' \in Places
  BY <1>2 DEF Places
<1>7. /\ arrived' \in Seq(Nat) /\ Taken' = Taken + n /\ Flowing'
      /\ Taken + n <= asked.body /\ SubSeq(arrived, 1, n) = After(Taken, n)
  BY <1>1, <1>3, <1>2, <1>6, TakeBytes, Zenon
<1>8. /\ size' \in -MaxLength..MaxLength /\ size' + Taken' = asked.length
      /\ size' = asked.length - (Taken + n) /\ size' <= capacity
  <2>1. Taken' = Taken + n /\ size' = size - n
    BY <1>2, <1>7, Zenon
  <2>2. n <= capacity /\ size >= 1 /\ size <= capacity /\ size + Taken = asked.length
    BY <1>2, <1>4, Zenon
  <2>3. size \in Int /\ capacity \in 0..MaxLength /\ MaxLength \in Nat /\ n \in Nat /\ Taken \in Nat
    BY <1>3, <1>5, Zenon
  <2>4. /\ size - n \in -MaxLength..MaxLength /\ (size - n) + (Taken + n) = asked.length
        /\ size - n = asked.length - (Taken + n) /\ size - n <= capacity
    BY <2>2, <2>3
  <2> QED BY <2>1, <2>4, Zenon
<1>9. Taken' \in Nat /\ Taken' <= asked.body /\ Taken' = Taken + n /\ asked' = asked /\ asked' # None
  <2>1. Taken' = Taken + n /\ Taken + n <= asked.body /\ asked' = asked
    BY <1>1, <1>7, Zenon
  <2> QED BY <1>3, <2>1
<1>10. CASE size' < 0
  <2>1. totalData' = Upto(Taken) /\ at' = "handle" /\ replies' = <<"larger than expected">>
    <3>1. size' <= 0
      BY <1>8, <1>10
    <3>2. totalData' = totalData /\ replies' = Append(replies, "larger than expected") /\ at' = "handle"
      BY <1>2, <1>10, <3>1, Zenon
    <3>3. Append(<<>>, "larger than expected") = <<"larger than expected">>
      OBVIOUS
    <3> QED BY <1>4, <3>2, <3>3, Zenon
  <2>2. Upto(Taken) \in Seq(Nat) /\ Len(Upto(Taken)) = Taken /\ Taken <= MaxLength
    <3>1. Upto(Taken) \in Seq(Nat) /\ Len(Upto(Taken)) = Taken
      BY <1>3, UptoSeq
    <3>2. size >= 1 /\ size + Taken = asked.length
      BY <1>4, Zenon
    <3>3. Taken <= MaxLength
      BY <1>3, <1>5, <3>2
    <3> QED BY <3>1, <3>3, Zenon
  <2>3. <<"larger than expected">> \in Seq({"client", "larger than expected", "answer"})
    OBVIOUS
  <2>4. Wires'
    BY <1>1, <1>3, <1>6, <1>7, <1>8, <2>1, <2>2, <2>3, Zenon DEF Wires
  <2>5. Taken <= asked.length /\ Taken <= asked.body /\ asked.body # asked.length
    BY <1>3, <1>4, <1>5, <1>8, <1>9, <1>10
  <2>6. Sound(totalData)'
    BY <1>9, <2>1, <2>2, <2>5, Zenon DEF Sound
  <2>7. at' # "read"
    BY <2>1
  <2>8. Reading'
    BY <1>1, <1>4, <1>6, <1>9, <2>5, <2>6, <2>7, Zenon DEF Reading
  <2> QED BY <1>7, <1>9, <2>4, <2>8, Zenon DEF FrameInv
<1>11. CASE size' >= 0
  <2>1. ~(size' < 0)
    BY <1>8, <1>11
  <2>2. totalData' = totalData \o SubSeq(arrived, 1, n) /\ replies' = <<>>
    BY <1>2, <1>4, <2>1, Zenon
  <2>3. /\ totalData' = Upto(Taken') /\ totalData' \in Seq(Nat) /\ Len(totalData') = Taken'
    <3>1. Upto(Taken) \o After(Taken, n) = Upto(Taken + n)
      BY <1>3, SplitFlow
    <3>2. Upto(Taken') \in Seq(Nat) /\ Len(Upto(Taken')) = Taken'
      BY <1>9, UptoSeq
    <3> QED BY <1>4, <1>7, <2>2, <3>1, <3>2, Zenon
  <2>4. Taken' <= asked.length /\ Len(totalData') <= MaxLength
    BY <1>3, <1>8, <1>9, <1>11, <2>3
  <2>5. <<>> \in Seq({"client", "larger than expected", "answer"})
    OBVIOUS
  <2>6. Wires'
    BY <1>1, <1>3, <1>6, <1>7, <1>8, <2>2, <2>3, <2>4, <2>5, Zenon DEF Wires
  <2>7. at' = "handle" => Sound(totalData)'
    <3>1. at' = "handle" => Taken' = asked.length
      <4>1. size' + Taken' = asked.length /\ size' \in Int
        BY <1>8, <1>3
      <4>2. at' = "handle" => size' <= 0
        BY <1>2
      <4> QED BY <1>3, <1>9, <1>11, <4>1, <4>2
    <3>2. asked.body = asked.length /\ at' = "handle" => Taken' = asked.body
      BY <3>1
    <3> QED BY <1>9, <2>3, <2>4, <3>1, <3>2, Zenon DEF Sound
  <2>8. at' = "read" => size' >= 1
    <3>1. at' = "read" => ~(size' <= 0)
      BY <1>2
    <3> QED BY <1>3, <1>8, <3>1
  <2>9. size' <= capacity' /\ size' + Taken' = asked'.length /\ handled' = None
    BY <1>1, <1>4, <1>8, Zenon
  <2>10. Reading'
    BY <1>6, <2>2, <2>3, <2>7, <2>8, <2>9, Zenon DEF Reading
  <2> QED BY <1>7, <1>9, <2>6, <2>10, Zenon DEF FrameInv
<1>12. size' < 0 \/ size' >= 0
  BY <1>8
<1> QED BY <1>10, <1>11, <1>12

\* The client closed before it sent all it declared: the request goes on with less.
LEMMA FrameEof ==
  ASSUME FrameInv, F!ReadEof PROVE FrameInv'
<1>1. /\ at = "read" /\ arrived = <<>> /\ closed /\ at' = "handle"
      /\ UNCHANGED <<asked, unsent, arrived, closed, size, capacity, totalData, handled, replies>>
  BY DEF F!ReadEof
<1>2. /\ Wires /\ Flowing /\ Reading /\ asked \in F!Request /\ asked # None /\ Taken \in Nat
      /\ asked.length \in Nat /\ asked.body \in Nat /\ unsent \in Nat
      /\ Taken = asked.body - unsent - Len(arrived) /\ MaxLength \in Nat
  BY <1>1, Connected, Lengths
<1>3. /\ size >= 1 /\ size + Taken = asked.length
      /\ totalData = Upto(Taken) /\ handled = None /\ replies = <<>>
  BY <1>1, <1>2, Zenon DEF Reading
<1>4. unsent = 0
  BY <1>1, <1>2, Zenon DEF Flowing, Wires
<1>5. size \in Int
  BY <1>2, Sizes
<1>6. /\ Taken <= asked.body /\ Taken <= asked.length /\ asked.body # asked.length
      /\ Len(Upto(Taken)) = Taken
  <2>1. /\ Taken = asked.body - unsent - Len(arrived) /\ Taken \in Nat /\ asked.length \in Nat
        /\ asked.body \in Nat /\ arrived = <<>> /\ size >= 1 /\ size + Taken = asked.length
    BY <1>1, <1>2, <1>3, Zenon
  <2>2. Taken <= asked.body /\ Taken <= asked.length /\ asked.body # asked.length
    BY <1>4, <1>5, <2>1
  <2> QED BY <2>1, <2>2, UptoSeq
<1>7. Taken' = Taken
  BY <1>1 DEF Taken
<1>8. Sound(totalData)'
  BY <1>1, <1>3, <1>6, Zenon DEF Sound
<1>9. Wires'
  BY <1>1, <1>2, Zenon DEF Wires, Places
<1>10. at' # "accept" /\ at' # "header" /\ at' # "read" /\ at' # "done"
  BY <1>1
<1>11. Flowing'
  BY <1>1, <1>2, <1>7, <1>10, Zenon DEF Flowing
<1>12. Reading'
  BY <1>1, <1>3, <1>6, <1>8, <1>10, Zenon DEF Reading
<1> QED BY <1>1, <1>2, <1>9, <1>11, <1>12, Zenon DEF FrameInv

LEMMA FrameHandle ==
  ASSUME FrameInv, F!HandleRequest PROVE FrameInv'
<1>1. /\ at = "handle" /\ at' = "done" /\ replies' = Append(replies, "answer")
      /\ handled' = [by |-> F!Dispatch(asked.type), data |-> totalData]
      /\ UNCHANGED <<asked, unsent, arrived, closed, size, capacity, totalData>>
  BY DEF F!HandleRequest
<1>2. Wires /\ Flowing /\ Reading /\ asked \in F!Request /\ asked # None
  BY <1>1, Connected
<1>3. Sound(totalData) /\ (asked.body = asked.length => replies = <<>>)
  BY <1>1, <1>2, Zenon DEF Reading
<1>4. totalData \in Seq(Nat) /\ replies \in Seq({"client", "larger than expected", "answer"})
  BY <1>2, Zenon DEF Wires
<1>5. /\ F!IsPrefix(totalData, F!Body) /\ Len(totalData) <= asked.length
      /\ asked.body = asked.length => totalData = F!Body
  BY <1>2, <1>3, <1>4, SoundIsPrefix, Zenon
<1>6. replies' \in Seq({"client", "larger than expected", "answer"})
  <2>1. Append(replies, "answer") \in Seq({"client", "larger than expected", "answer"})
    <3> DEFINE Answers == {"client", "larger than expected", "answer"}
    <3>1. replies \in Seq(Answers) /\ "answer" \in Answers
      BY <1>4, Zenon
    <3> HIDE DEF Answers
    <3>2. Append(replies, "answer") \in Seq(Answers)
      BY <3>1
    <3> QED BY <3>2 DEF Answers
  <2> QED BY <1>1, <2>1, Zenon
<1>7. asked.body = asked.length => Len(replies') = 1
  <2>1. Len(Append(<<>>, "answer")) = 1
    OBVIOUS
  <2> QED BY <1>1, <1>3, <2>1, Zenon
<1>8. handled'.data = totalData
  BY <1>1
<1>9. F!Body' = F!Body
  BY <1>1, Zenon DEF F!Body
<1>10. F!DataAsSent'
  BY <1>1, <1>5, <1>7, <1>8, <1>9, Zenon DEF F!DataAsSent
<1>11. Taken' = Taken
  BY <1>1 DEF Taken
<1>12. at' # "accept" /\ at' # "header" /\ at' # "read" /\ at' # "handle"
  BY <1>1
<1>13. Wires'
  BY <1>1, <1>2, <1>6, Zenon DEF Wires, Places
<1>14. Flowing'
  BY <1>1, <1>2, <1>11, <1>12, Zenon DEF Flowing
<1>15. Reading'
  BY <1>10, <1>12, Zenon DEF Reading
<1> QED BY <1>1, <1>2, <1>13, <1>14, <1>15, Zenon DEF FrameInv

LEMMA FrameNext == FrameInv /\ [F!Next]_F!vars => FrameInv'
<1> SUFFICES ASSUME FrameInv, [F!Next]_F!vars PROVE FrameInv'
  OBVIOUS
<1>1. CASE UNCHANGED F!vars
  BY <1>1, Zenon DEF F!vars, FrameInv, Wires, Fresh, Flowing, Taken, Reading, Sound,
       F!DataAsSent, F!Body
<1>2. CASE F!Next
  BY <1>2, FrameClient, FrameHeader, FrameRead, FrameEof, FrameHandle, Zenon
    DEF F!Next, F!Serve
<1> QED BY <1>1, <1>2

\* For every length and every way the bytes are cut into pieces, handleRequest gets a
\* beginning of what the client sent, no longer than the header declares, and all of
\* it, for one reply, when the client sent what it declared (TcpConnection::start,
\* readExpectedData).
THEOREM DataAlwaysAsSent == F!Spec => []DataAsSent
<1>1. FrameInv => DataAsSent
  <2>1. CASE at = "done"
    BY <2>1, Zenon DEF FrameInv, Fresh, Reading, F!DataAsSent, DataAsSent
  <2>2. CASE at # "done"
    BY <2>2, Zenon DEF FrameInv, Fresh, Flowing, Wires, Places, Reading, F!DataAsSent, DataAsSent
  <2> QED BY <2>1, <2>2
<1> QED BY <1>1, FrameInit, FrameNext, PTL DEF F!Spec

(***************************************************************************)
(* RecentLists: GaugesTracked and VulnsAreLatest.                           *)
(*                                                                          *)
(* The loop of addRecentVulnerability keeps the other pointers, all of      *)
(* them, in their order.                                                    *)
(***************************************************************************)
Distinct(q) == \A i, j \in 1..Len(q) : i # j => q[i] # q[j]

\* What is known of the loop's newQueue o after n pointers of q.
Filtered(q, a, n, o) ==
  /\ Len(o) <= n
  /\ (\E i \in 1..n : q[i] = a) => Len(o) < n
  /\ (\A i \in 1..n : q[i] # a) => Len(o) = n
  /\ Distinct(q) => Len(o) + 1 >= n
  /\ \A i \in 1..Len(o) : o[i] # a /\ \E j \in 1..n : q[j] = o[i]
  /\ \A j \in 1..n : q[j] # a => \E i \in 1..Len(o) : o[i] = q[j]
  /\ \A i, j \in 1..Len(o) : i < j =>
       \E x, y \in 1..n : x < y /\ q[x] = o[i] /\ q[y] = o[j]

\* One turn of the loop.
LEMMA FilterStep ==
  ASSUME NEW Elem, NEW q \in Seq(Elem), NEW a, NEW n \in 1..Len(q),
         NEW o \in Seq(Elem), Filtered(q, a, n - 1, o)
  PROVE  LET next == IF q[n] = a THEN o ELSE Append(o, q[n])
         IN  next \in Seq(Elem) /\ Filtered(q, a, n, next)
<1> DEFINE next == IF q[n] = a THEN o ELSE Append(o, q[n])
<1>1. /\ n \in Nat /\ n >= 1 /\ n - 1 \in Nat /\ Len(o) \in Nat /\ q[n] \in Elem
      /\ \A i \in 1..n : i \in 1..(n - 1) \/ i = n
      /\ \A i \in 1..(n - 1) : i \in 1..n /\ i < n
      /\ n \in 1..n /\ n <= Len(q) /\ Len(q) \in Nat
  OBVIOUS
<1>2. CASE q[n] = a
  <2>1. next = o
    BY <1>2
  <2>2. /\ Len(o) <= n /\ Len(o) < n
        /\ ~\A i \in 1..n : q[i] # a
        /\ \A i \in 1..Len(o) : o[i] # a /\ \E j \in 1..n : q[j] = o[i]
        /\ \A j \in 1..n : q[j] # a => \E i \in 1..Len(o) : o[i] = q[j]
    BY <1>1, <1>2 DEF Filtered
  <2>3. Distinct(q) => Len(o) + 1 >= n
    <3> SUFFICES ASSUME Distinct(q) PROVE Len(o) + 1 >= n
      OBVIOUS
    <3>1. \A i \in 1..(n - 1) : q[i] # a
      BY <1>1, <1>2 DEF Distinct
    <3> QED BY <1>1, <3>1 DEF Filtered
  <2>4. \A i, j \in 1..Len(o) : i < j =>
          \E x, y \in 1..n : x < y /\ q[x] = o[i] /\ q[y] = o[j]
    BY <1>1 DEF Filtered
  <2> QED BY <2>1, <2>2, <2>3, <2>4 DEF Filtered
<1>3. CASE q[n] # a
  <2>1. next = Append(o, q[n]) /\ next \in Seq(Elem) /\ Len(next) = Len(o) + 1
        /\ (\A i \in 1..Len(o) : next[i] = o[i]) /\ next[Len(o) + 1] = q[n]
    BY <1>1, <1>3, AppendSeq
  <2>2. \A i \in 1..Len(next) : i \in 1..Len(o) \/ i = Len(o) + 1
    BY <1>1, <2>1
  <2>3. /\ \A i \in 1..Len(o) : i \in 1..Len(next) /\ i < Len(o) + 1
        /\ Len(o) + 1 \in 1..Len(next)
    BY <1>1, <2>1
  <2> HIDE DEF next
  <2>4. Len(next) <= n
    BY <1>1, <2>1 DEF Filtered
  <2>5. (\E i \in 1..n : q[i] = a) => Len(next) < n
    <3> SUFFICES ASSUME NEW i \in 1..n, q[i] = a PROVE Len(next) < n
      OBVIOUS
    <3>1. i \in 1..(n - 1)
      BY <1>1, <1>3
    <3>2. Len(o) < n - 1
      BY <3>1 DEF Filtered
    <3> QED BY <1>1, <2>1, <3>2
  <2>6. (\A i \in 1..n : q[i] # a) => Len(next) = n
    BY <1>1, <2>1 DEF Filtered
  <2>7. Distinct(q) => Len(next) + 1 >= n
    BY <1>1, <2>1 DEF Filtered
  <2>8. ASSUME NEW i \in 1..Len(next)
        PROVE  next[i] # a /\ \E j \in 1..n : q[j] = next[i]
    <3>1. CASE i \in 1..Len(o)
      BY <1>1, <2>1, <3>1 DEF Filtered
    <3>2. CASE i = Len(o) + 1
      BY <1>1, <1>3, <2>1, <3>2
    <3> QED BY <2>2, <3>1, <3>2
  <2>9. ASSUME NEW j \in 1..n, q[j] # a
        PROVE  \E i \in 1..Len(next) : next[i] = q[j]
    <3>1. CASE j \in 1..(n - 1)
      <4>1. PICK i \in 1..Len(o) : o[i] = q[j]
        BY <2>9, <3>1 DEF Filtered
      <4> QED BY <2>1, <2>3, <4>1
    <3>2. CASE j = n
      BY <2>1, <2>3, <3>2
    <3> QED BY <1>1, <3>1, <3>2
  <2>10. ASSUME NEW i \in 1..Len(next), NEW j \in 1..Len(next), i < j
         PROVE  \E x, y \in 1..n : x < y /\ q[x] = next[i] /\ q[y] = next[j]
    <3>1. i \in 1..Len(o)
      BY <1>1, <2>1, <2>10
    <3>2. CASE j \in 1..Len(o)
      <4>1. PICK x \in 1..(n - 1), y \in 1..(n - 1) : x < y /\ q[x] = o[i] /\ q[y] = o[j]
        BY <2>10, <3>1, <3>2 DEF Filtered
      <4> QED BY <1>1, <2>1, <3>1, <3>2, <4>1
    <3>3. CASE j = Len(o) + 1
      <4>1. PICK x \in 1..(n - 1) : q[x] = o[i]
        BY <3>1 DEF Filtered
      <4>2. x \in 1..n /\ x < n /\ n \in 1..n
        BY <1>1, <4>1
      <4> QED BY <2>1, <3>1, <3>3, <4>1, <4>2
    <3> QED BY <2>2, <3>2, <3>3
  <2>11. Filtered(q, a, n, next)
    BY <2>4, <2>5, <2>6, <2>7, <2>8, <2>9, <2>10 DEF Filtered
  <2> QED BY <2>1, <2>11 DEF next
<1> QED BY <1>2, <1>3

LEMMA OthersFilter ==
  ASSUME NEW Elem, NEW q \in Seq(Elem), NEW a
  PROVE  L!Others(q, a) \in Seq(Elem) /\ Filtered(q, a, Len(q), L!Others(q, a))
<1> DEFINE N == Len(q)
           Val(h, n) == IF n = 0 THEN <<>>
                        ELSE IF q[n] = a THEN h[n - 1] ELSE Append(h[n - 1], q[n])
           Fits(h, n) == /\ h \in [0..n -> Seq(Elem)]
                         /\ \A i \in 0..n : h[i] = Val(h, i) /\ Filtered(q, a, i, h[i])
           Gaps == {n \in Nat : n <= N /\ ~\E h : Fits(h, n)}
<1>1. N \in Nat
  OBVIOUS
<1>2. Gaps = {}
  <2> SUFFICES ASSUME Gaps # {} PROVE FALSE
    OBVIOUS
  <2>1. PICK x \in Gaps : \A y \in Gaps : x <= y
    <3>1. Gaps \in SUBSET Nat
      OBVIOUS
    <3> HIDE DEF Gaps
    <3> QED BY <3>1, Least
  <2>2. x \in Nat /\ x <= N /\ ~\E h : Fits(h, x)
    BY <2>1
  <2>3. CASE x = 0
    <3>1. Filtered(q, a, 0, <<>>)
      BY DEF Filtered
    <3> DEFINE h == [i \in 0..0 |-> <<>>]
    <3>2. h \in [0..0 -> Seq(Elem)] /\ (\A i \in 0..0 : i = 0 /\ h[i] = <<>>)
      OBVIOUS
    <3>3. \A i \in 0..0 : h[i] = Val(h, i)
      BY <3>2
    <3> HIDE DEF h
    <3>4. Fits(h, 0)
      BY <3>1, <3>2, <3>3
    <3> QED BY <2>2, <2>3, <3>4
  <2>4. CASE x # 0
    <3>1. x - 1 \in Nat /\ x - 1 <= N /\ ~(x <= x - 1) /\ x \in 1..N
      BY <1>1, <2>2, <2>4
    <3>2. x - 1 \notin Gaps
      <4> HIDE DEF Gaps
      <4> QED BY <2>1, <3>1
    <3>3. PICK f : Fits(f, x - 1)
      BY <3>1, <3>2
    <3>4. x - 1 \in 0..(x - 1) /\ f[x - 1] \in Seq(Elem) /\ Filtered(q, a, x - 1, f[x - 1])
      BY <3>1, <3>3
    <3>5. Val(f, x) \in Seq(Elem) /\ Filtered(q, a, x, Val(f, x))
      <4>1. Val(f, x) = IF q[x] = a THEN f[x - 1] ELSE Append(f[x - 1], q[x])
        BY <2>4
      <4> HIDE DEF Val
      <4> QED BY <3>1, <3>4, <4>1, FilterStep
    <3> DEFINE g == [i \in 0..x |-> IF i < x THEN f[i] ELSE Val(f, x)]
    <3>6. g \in [0..x -> Seq(Elem)]
      <4>1. \A i \in 0..x : i < x => i \in 0..(x - 1)
        BY <3>1
      <4> HIDE DEF Val
      <4> QED BY <3>3, <3>5, <4>1
    <3>7. ASSUME NEW i \in 0..x
          PROVE  g[i] = Val(g, i) /\ Filtered(q, a, i, g[i])
      <4>1. Val(g, i) = Val(f, i)
        <5>1. CASE i = 0
          BY <5>1
        <5>2. CASE i # 0
          <6>1. i - 1 \in 0..x /\ i - 1 < x
            BY <3>1, <5>2
          <6>2. g[i - 1] = f[i - 1]
            BY <6>1
          <6> HIDE DEF g
          <6> QED BY <5>2, <6>2
        <5> QED BY <5>1, <5>2
      <4>2. CASE i < x
        <5>1. i \in 0..(x - 1)
          BY <3>1, <4>2
        <5>2. g[i] = f[i]
          BY <4>2
        <5>3. f[i] = Val(f, i) /\ Filtered(q, a, i, f[i])
          BY <3>3, <5>1
        <5> HIDE DEF g, Val
        <5> QED BY <4>1, <5>2, <5>3
      <4>3. CASE i = x
        <5>1. g[i] = Val(f, x)
          BY <3>1, <4>3
        <5> HIDE DEF g, Val
        <5> QED BY <3>5, <4>1, <4>3, <5>1
      <4> QED BY <3>1, <4>2, <4>3
    <3> HIDE DEF g, Val
    <3>8. Fits(g, x)
      BY <3>6, <3>7
    <3> QED BY <2>2, <3>8
  <2> QED BY <2>3, <2>4
<1>3. PICK f : Fits(f, N)
  <2>1. N <= N
    BY <1>1
  <2>2. N \notin Gaps
    <3> HIDE DEF Gaps, N
    <3> QED BY <1>2
  <2> HIDE DEF Fits, N
  <2> QED BY <1>1, <2>1, <2>2
<1> DEFINE F0 == CHOOSE h : h = [n \in 0..N |-> Val(h, n)]
<1>4. F0 = [n \in 0..N |-> Val(F0, n)]
  <2>1. f = [n \in 0..N |-> Val(f, n)]
    <3> HIDE DEF Val
    <3> QED BY <1>3
  <2> DEFINE Is(h) == h = [n \in 0..N |-> Val(h, n)]
  <2>2. Is(f)
    BY <2>1
  <2>3. F0 = CHOOSE h : Is(h)
    OBVIOUS
  <2> HIDE DEF Is, F0
  <2>4. Is(F0)
    BY <2>2, <2>3
  <2> QED BY <2>4 DEF Is
<1>5. L!Others(q, a) = F0[N]
  BY Zenon DEF L!Others
<1> DEFINE Bad == {i \in Nat : i \in 0..N /\ ~(F0[i] \in Seq(Elem) /\ Filtered(q, a, i, F0[i]))}
<1>6. Bad = {}
  <2> SUFFICES ASSUME Bad # {} PROVE FALSE
    OBVIOUS
  <2> HIDE DEF F0
  <2>1. PICK x \in Bad : \A y \in Bad : x <= y
    <3>1. Bad \in SUBSET Nat
      OBVIOUS
    <3> HIDE DEF Bad
    <3> QED BY <3>1, Least
  <2>2. x \in 0..N /\ F0[x] = Val(F0, x) /\ ~(F0[x] \in Seq(Elem) /\ Filtered(q, a, x, F0[x]))
    <3> HIDE DEF Val
    <3> QED BY <1>4, <2>1
  <2>3. CASE x = 0
    <3>1. F0[x] = <<>>
      BY <2>2, <2>3
    <3>2. Filtered(q, a, 0, <<>>)
      BY DEF Filtered
    <3> QED BY <2>2, <2>3, <3>1, <3>2
  <2>4. CASE x # 0
    <3>1. x - 1 \in 0..N /\ x - 1 \in Nat /\ ~(x <= x - 1) /\ x \in 1..N
      BY <1>1, <2>2, <2>4
    <3>2. x - 1 \notin Bad
      <4> HIDE DEF Bad
      <4> QED BY <2>1, <3>1
    <3>3. F0[x - 1] \in Seq(Elem) /\ Filtered(q, a, x - 1, F0[x - 1])
      BY <3>1, <3>2
    <3>4. F0[x] = IF q[x] = a THEN F0[x - 1] ELSE Append(F0[x - 1], q[x])
      BY <2>2, <2>4
    <3> HIDE DEF Bad, Val
    <3>5. F0[x] \in Seq(Elem) /\ Filtered(q, a, x, F0[x])
      BY <3>1, <3>3, <3>4, FilterStep
    <3> QED BY <2>2, <3>5
  <2> QED BY <2>3, <2>4
<1>7. N \in 0..N /\ N \notin Bad
  BY <1>1, <1>6
<1> HIDE DEF F0
<1>8. F0[N] \in Seq(Elem) /\ Filtered(q, a, N, F0[N])
  BY <1>1, <1>7
<1> QED BY <1>5, <1>8

(***************************************************************************)
(* A queue points at every gauge of its list, gauges have places and labels *)
(* of their own, and no queue is longer than a list may be.                 *)
(***************************************************************************)
Gauge == [label : Label, at : Address, time : 1..MaxTime]

ListTypes ==
  /\ gauge \in [L!Lists -> SUBSET Gauge]
  /\ pointers \in [L!Lists -> Seq(Address)]
  /\ received \in [L!Lists -> [Label -> 0..MaxTime]]
  /\ now \in 1..(MaxTime + 1) /\ restarts \in Nat

\* A list of gauges gs and its queue q.
Tracks(gs, q) ==
  /\ Len(q) <= RecentMax + 1
  /\ \A g \in gs : \E i \in 1..Len(q) : q[i] = g.at
  /\ \A g, h \in gs : g.at = h.at \/ g.label = h.label => g = h

GaugeInv == ListTypes /\ \A k \in L!Lists : Tracks(gauge[k], pointers[k])

\* A list whose queue has the gauges in the order in which r says that their labels were
\* received: the labels that are not there are older, and then the queue is full.
Ordered(gs, q, r) ==
  /\ \A i \in 1..Len(q) : \E g \in gs : g.at = q[i]
  /\ \A g, h \in gs, i, j \in 1..Len(q) :
       g.at = q[i] /\ h.at = q[j] /\ i < j => r[g.label] < r[h.label]
  /\ \A g \in gs : r[g.label] > 0
  /\ \A l \in Label : r[l] > 0 /\ ~L!Has(gs, l) =>
       Len(q) = RecentMax + 1 /\ \A g \in gs : r[l] < r[g.label]

VulnInv ==
  /\ GaugeInv
  /\ restarts = 0 => /\ Ordered(gauge["vulns"], pointers["vulns"], received["vulns"])
                     /\ \A l \in Label : received["vulns"][l] < now

LEMMA Limits == RecentMax \in Nat /\ MaxTime \in Nat /\ MaxRestarts \in Nat /\ Address \subseteq Nat
  BY PartsAssumption

LEMMA SameCardinality == ASSUME NEW X PROVE L!Cardinality(X) = Cardinality(X)
BY Zenon DEF L!Cardinality, Cardinality

\* A list that is tracked shows at most RecentMax + 1.
LEMMA TracksBounded ==
  ASSUME NEW gs \in SUBSET Gauge, NEW q \in Seq(Address), Tracks(gs, q)
  PROVE  /\ {g.at : g \in gs} \subseteq L!Range(q)
         /\ L!Cardinality(gs) <= RecentMax + 1
<1> DEFINE f == [g \in gs |-> CHOOSE i \in 1..Len(q) : q[i] = g.at]
<1>1. ASSUME NEW g \in gs PROVE f[g] \in 1..Len(q) /\ q[f[g]] = g.at
  BY DEF Tracks
<1>2. f \in Injection(gs, 1..Len(q))
  <2>1. f \in [gs -> 1..Len(q)]
    BY <1>1
  <2>2. ASSUME NEW g \in gs, NEW h \in gs, f[g] = f[h] PROVE g = h
    <3>1. g.at = h.at
      <4> HIDE DEF f
      <4> QED BY <1>1, <2>2
    <3> QED BY <3>1 DEF Tracks
  <2> HIDE DEF f
  <2> QED BY <2>1, <2>2 DEF Injection, IsInjective
<1> HIDE DEF f
<1>3. Len(q) \in Nat /\ Len(q) <= RecentMax + 1
  BY DEF Tracks
<1>4. IsFiniteSet(1..Len(q)) /\ Cardinality(1..Len(q)) = Len(q)
  BY <1>3, FS_Interval
<1>5. IsFiniteSet(gs) /\ Cardinality(gs) <= Len(q)
  BY <1>2, <1>4, FS_Injection
<1>6. Cardinality(gs) \in Nat
  BY <1>5, FS_CardinalityType
<1>7. {g.at : g \in gs} \subseteq L!Range(q)
  BY <1>1 DEF L!Range
<1>8. L!Cardinality(gs) <= RecentMax + 1
  BY <1>3, <1>5, <1>6, Limits, SameCardinality
<1> QED BY <1>7, <1>8

LEMMA GaugeInvTracked == GaugeInv => L!GaugesTracked
<1> SUFFICES ASSUME GaugeInv, NEW k \in L!Lists
             PROVE  /\ {g.at : g \in gauge[k]} \subseteq L!Range(pointers[k])
                    /\ L!Cardinality(gauge[k]) <= RecentMax + 1
  BY DEF L!GaugesTracked
<1>1. gauge[k] \in SUBSET Gauge /\ pointers[k] \in Seq(Address) /\ Tracks(gauge[k], pointers[k])
  BY DEF GaugeInv, ListTypes
<1> QED BY <1>1, TracksBounded

(***************************************************************************)
(* What the operations do to a list.                                        *)
(***************************************************************************)
Full(q)         == Len(q) > RecentMax
Kept(gs, q)     == IF Full(q) THEN L!Without(gs, Head(q)) ELSE gs
Trimmed(q)      == IF Full(q) THEN Tail(q) ELSE q

\* When the oldest pointer goes its gauge goes, and there is a place.
LEMMA TrimTracks ==
  ASSUME NEW gs \in SUBSET Gauge, NEW q \in Seq(Address), Tracks(gs, q)
  PROVE  /\ Kept(gs, q) \in SUBSET Gauge /\ Kept(gs, q) \subseteq gs
         /\ Trimmed(q) \in Seq(Address) /\ Len(Trimmed(q)) <= RecentMax
         /\ Tracks(Kept(gs, q), Trimmed(q))
         /\ Full(q) => /\ Len(q) >= 1 /\ Head(q) = q[1]
                       /\ Len(Trimmed(q)) = Len(q) - 1
                       /\ \A i \in 1..Len(Trimmed(q)) : Trimmed(q)[i] = q[i + 1]
<1>1. Kept(gs, q) \subseteq gs
  BY DEF Kept, L!Without
<1>2. RecentMax \in Nat /\ Len(q) \in Nat /\ Len(q) <= RecentMax + 1
  BY Limits DEF Tracks
<1>3. CASE ~Full(q)
  <2>1. Kept(gs, q) = gs /\ Trimmed(q) = q /\ Len(q) <= RecentMax
    BY <1>2, <1>3 DEF Kept, Trimmed, Full
  <2> QED BY <1>3, <2>1
<1>4. CASE Full(q)
  <2>1. Len(q) >= 1 /\ Head(q) = q[1] /\ Len(q) - 1 <= RecentMax
    BY <1>2, <1>4 DEF Full
  <2>2. /\ Trimmed(q) \in Seq(Address) /\ Len(Trimmed(q)) = Len(q) - 1
        /\ \A i \in 1..Len(Trimmed(q)) : Trimmed(q)[i] = q[i + 1]
    BY <1>4, <2>1 DEF Trimmed
  <2>3. ASSUME NEW g \in Kept(gs, q)
        PROVE  \E i \in 1..Len(Trimmed(q)) : Trimmed(q)[i] = g.at
    <3>1. g \in gs /\ g.at # q[1]
      BY <1>4, <2>1 DEF Kept, L!Without
    <3>2. PICK i \in 1..Len(q) : q[i] = g.at
      BY <3>1 DEF Tracks
    <3>3. i - 1 \in 1..(Len(q) - 1) /\ (i - 1) + 1 = i
      BY <1>2, <3>1, <3>2
    <3> QED BY <2>2, <3>2, <3>3
  <2>4. \A g, h \in Kept(gs, q) : g.at = h.at \/ g.label = h.label => g = h
    BY <1>1 DEF Tracks
  <2>5. Len(Trimmed(q)) <= RecentMax + 1
    BY <1>2, <2>1, <2>2
  <2>6. Tracks(Kept(gs, q), Trimmed(q))
    BY <2>3, <2>4, <2>5 DEF Tracks
  <2> QED BY <1>1, <2>1, <2>2, <2>6
<1> QED BY <1>3, <1>4

\* Add and SetToCurrentTime of a label that has a gauge: every gauge keeps its place.
LEMMA TouchKnown ==
  ASSUME NEW gs \in SUBSET Gauge, NEW l \in Label, NEW p, L!Has(gs, l), now \in 1..MaxTime
  PROVE  LET ts == L!Touched(gs, l, p)
         IN  /\ ts \in SUBSET Gauge /\ L!Has(ts, l)
             /\ \A h \in ts : \E g \in gs : g.at = h.at /\ g.label = h.label
             /\ \A g \in gs : \E h \in ts : g.at = h.at /\ g.label = h.label
             /\ (\A g, h \in gs : g.at = h.at \/ g.label = h.label => g = h) =>
                  \A g, h \in ts : g.at = h.at \/ g.label = h.label => g = h
<1> DEFINE new(g) == IF g.label = l THEN [g EXCEPT !.time = now] ELSE g
           ts == L!Touched(gs, l, p)
<1>1. ts = {new(g) : g \in gs}
  BY DEF L!Touched
<1>2. ASSUME NEW g \in gs
      PROVE  new(g) \in Gauge /\ new(g).at = g.at /\ new(g).label = g.label
  BY DEF Gauge
<1> HIDE DEF new, ts
<1>3. ts \in SUBSET Gauge
  BY <1>1, <1>2
<1>4. \A h \in ts : \E g \in gs : h = new(g) /\ g.at = h.at /\ g.label = h.label
  BY <1>1, <1>2
<1>5. \A g \in gs : \E h \in ts : g.at = h.at /\ g.label = h.label
  BY <1>1, <1>2
<1>6. L!Has(ts, l)
  BY <1>5 DEF L!Has
<1>7. ASSUME \A g, h \in gs : g.at = h.at \/ g.label = h.label => g = h,
             NEW g \in ts, NEW h \in ts, g.at = h.at \/ g.label = h.label
      PROVE  g = h
  <2>1. PICK g0 \in gs : g = new(g0) /\ g0.at = g.at /\ g0.label = g.label
    BY <1>4
  <2>2. PICK h0 \in gs : h = new(h0) /\ h0.at = h.at /\ h0.label = h.label
    BY <1>4
  <2>3. g0 = h0
    BY <1>7, <2>1, <2>2
  <2> QED BY <2>1, <2>2, <2>3
<1>8. \A h \in ts : \E g \in gs : g.at = h.at /\ g.label = h.label
  BY <1>4
<1> QED BY <1>3, <1>5, <1>6, <1>7, <1>8 DEF ts

LEMMA TouchNew ==
  ASSUME NEW gs, NEW l, NEW p, ~L!Has(gs, l)
  PROVE  L!Touched(gs, l, p) = gs \cup {[label |-> l, at |-> p, time |-> now]}
BY DEF L!Touched

LEMMA PlaceOf ==
  ASSUME NEW gs, NEW g \in gs, \A h \in gs : h.label = g.label => h = g
  PROVE  L!Place(gs, g.label) = g.at
<1> DEFINE c == CHOOSE h \in gs : h.label = g.label
<1>1. c \in gs /\ c.label = g.label
  OBVIOUS
<1>2. c = g
  <2> HIDE DEF c
  <2> QED BY <1>1
<1> QED BY <1>2 DEF L!Place

\* A queue that gets one more pointer.
LEMMA AppendTracks ==
  ASSUME NEW gs \in SUBSET Gauge, NEW q \in Seq(Address), NEW a \in Address,
         Len(q) <= RecentMax,
         \A g \in gs : g.at = a \/ \E i \in 1..Len(q) : q[i] = g.at,
         \A g, h \in gs : g.at = h.at \/ g.label = h.label => g = h
  PROVE  Tracks(gs, Append(q, a)) /\ Append(q, a) \in Seq(Address)
<1>1. /\ Append(q, a) \in Seq(Address) /\ Len(Append(q, a)) = Len(q) + 1
      /\ \A i \in 1..Len(q) : Append(q, a)[i] = q[i]
      /\ Append(q, a)[Len(q) + 1] = a
  BY AppendSeq
<1>2. Len(q) \in Nat /\ RecentMax \in Nat
  BY Limits
<1>3. Len(Append(q, a)) <= RecentMax + 1
  BY <1>1, <1>2
<1>4. /\ \A i \in 1..Len(q) : i \in 1..Len(Append(q, a))
      /\ Len(q) + 1 \in 1..Len(Append(q, a))
  BY <1>1, <1>2
<1>5. \A g \in gs : \E i \in 1..Len(Append(q, a)) : Append(q, a)[i] = g.at
  BY <1>1, <1>4
<1> QED BY <1>1, <1>3, <1>5 DEF Tracks

\* A label without a gauge gets one at a free address.
LEMMA AddTracks ==
  ASSUME NEW gs \in SUBSET Gauge, NEW q \in Seq(Address), Tracks(gs, q), Len(q) <= RecentMax,
         NEW l \in Label, ~L!Has(gs, l), NEW p \in Address, \A g \in gs : g.at # p,
         now \in 1..MaxTime
  PROVE  LET ts == L!Touched(gs, l, p)
         IN  ts \in SUBSET Gauge /\ L!Place(ts, l) = p
             /\ Append(q, p) \in Seq(Address) /\ Tracks(ts, Append(q, p))
<1> DEFINE g0 == [label |-> l, at |-> p, time |-> now]
           ts == L!Touched(gs, l, p)
<1>1. ts = gs \cup {g0}
  BY TouchNew
<1>2. g0 \in Gauge /\ g0.label = l /\ g0.at = p
  BY DEF Gauge
<1> HIDE DEF g0, ts
<1>3. ts \in SUBSET Gauge
  BY <1>1, <1>2
<1>4. \A g, h \in ts : g.at = h.at \/ g.label = h.label => g = h
  BY <1>1, <1>2 DEF Tracks, L!Has
<1>5. \A g \in ts : g.at = p \/ \E i \in 1..Len(q) : q[i] = g.at
  BY <1>1, <1>2 DEF Tracks
<1>6. Append(q, p) \in Seq(Address) /\ Tracks(ts, Append(q, p))
  BY <1>3, <1>4, <1>5, AppendTracks
<1>7. L!Place(ts, l) = p
  <2>1. g0 \in ts /\ \A h \in ts : h.label = g0.label => h = g0
    BY <1>1, <1>4
  <2> QED BY <1>2, <2>1, PlaceOf
<1> QED BY <1>3, <1>6, <1>7 DEF ts

LEMMA FreeAddress ==
  ASSUME ListTypes, NEW k, NEW gs, NEW p \in L!Free(k, gs)
  PROVE  p \in Address /\ \A g \in gs : g.at # p
<1>1. /\ pointers["projects"] \in Seq(Address) /\ pointers["vulns"] \in Seq(Address)
  BY DEF ListTypes, L!Lists
<1>2. /\ L!Range(pointers["projects"]) \subseteq Address
      /\ L!Range(pointers["vulns"]) \subseteq Address
  BY <1>1 DEF L!Range
<1> DEFINE other == UNION {gauge[o] : o \in L!Lists \ {k}}
           used  == {g.at : g \in gs \cup other}
<1>3. p \in Address /\ p \notin used
  BY <1>2, Zenon DEF L!Free
<1> HIDE DEF other
<1>4. \A g \in gs : g.at \in used
  OBVIOUS
<1> QED BY <1>3, <1>4

\* A list is touched by a label that is received.
LEMMA ListStep ==
  ASSUME GaugeInv, NEW k \in L!Lists, NEW l \in Label, L!Receive(k, l),
         NEW gs \in SUBSET Gauge, NEW q \in Seq(Address), Tracks(gs, q),
         gauge' = [gauge EXCEPT ![k] = gs], pointers' = [pointers EXCEPT ![k] = q]
  PROVE  GaugeInv' /\ now' = now + 1 /\ received' = [received EXCEPT ![k][l] = now]
<1>1. now \in 1..MaxTime /\ now' = now + 1 /\ received' = [received EXCEPT ![k][l] = now]
  BY Limits DEF GaugeInv, ListTypes, L!Receive
<1>2. now' \in 1..(MaxTime + 1)
  BY <1>1, Limits
<1>3. received' \in [L!Lists -> [Label -> 0..MaxTime]]
  <2>1. now \in 0..MaxTime
    BY <1>1, Limits
  <2> QED BY <1>1, <2>1 DEF GaugeInv, ListTypes
<1>4. gauge' \in [L!Lists -> SUBSET Gauge] /\ pointers' \in [L!Lists -> Seq(Address)]
  BY DEF GaugeInv, ListTypes
<1>5. \A j \in L!Lists : Tracks(gauge'[j], pointers'[j])
  BY DEF GaugeInv, ListTypes
<1>6. restarts' \in Nat
  BY DEF GaugeInv, ListTypes, L!Receive
<1> QED BY <1>1, <1>2, <1>3, <1>4, <1>5, <1>6 DEF GaugeInv, ListTypes

LEMMA ProjectStep ==
  ASSUME GaugeInv, NEW l \in Label, L!addRecentProject(l)
  PROVE  /\ GaugeInv' /\ now' = now + 1
         /\ gauge'["vulns"] = gauge["vulns"] /\ pointers'["vulns"] = pointers["vulns"]
         /\ received'["vulns"] = received["vulns"] /\ restarts' = restarts
<1> DEFINE gs == gauge["projects"]
           q  == pointers["projects"]
           kept == Kept(gs, q)
           rest == Trimmed(q)
<1>1. "projects" \in L!Lists /\ gs \in SUBSET Gauge /\ q \in Seq(Address) /\ Tracks(gs, q)
  BY DEF L!Lists, GaugeInv, ListTypes
<1>2. PICK p \in L!Free("projects", kept) :
        LET ts == L!Touched(kept, l, p)
        IN  /\ gauge' = [gauge EXCEPT !["projects"] = ts]
            /\ pointers' = [pointers EXCEPT !["projects"] = Append(rest, L!Place(ts, l))]
            /\ L!Receive("projects", l)
  BY Zenon DEF L!addRecentProject, Kept, Trimmed, Full
<1> DEFINE ts == L!Touched(kept, l, p)
<1>3. p \in Address /\ \A g \in kept : g.at # p
  BY FreeAddress DEF GaugeInv
<1>4. /\ kept \in SUBSET Gauge /\ kept \subseteq gs /\ rest \in Seq(Address)
      /\ Len(rest) <= RecentMax /\ Tracks(kept, rest)
  BY <1>1, TrimTracks
<1>5. now \in 1..MaxTime
  <2>1. now \in 1..(MaxTime + 1) /\ now <= MaxTime
    BY <1>2 DEF GaugeInv, ListTypes, L!Receive
  <2> QED BY <2>1, Limits
<1> HIDE DEF kept, rest, gs, q
<1>6. ts \in SUBSET Gauge /\ Append(rest, L!Place(ts, l)) \in Seq(Address)
      /\ Tracks(ts, Append(rest, L!Place(ts, l)))
  <2>1. CASE ~L!Has(kept, l)
    BY <1>3, <1>4, <1>5, <2>1, AddTracks
  <2>2. CASE L!Has(kept, l)
    <3>1. \A g, h \in kept : g.at = h.at \/ g.label = h.label => g = h
      BY <1>4 DEF Tracks
    <3>2. /\ ts \in SUBSET Gauge /\ L!Has(ts, l)
          /\ \A h \in ts : \E g \in kept : g.at = h.at /\ g.label = h.label
          /\ \A g, h \in ts : g.at = h.at \/ g.label = h.label => g = h
      BY <1>4, <1>5, <2>2, <3>1, TouchKnown
    <3> HIDE DEF ts
    <3>3. PICK g \in ts : g.label = l
      BY <3>2 DEF L!Has
    <3>4. L!Place(ts, l) = g.at /\ g.at \in Address
      <4>1. g.at \in Address
        BY <3>2, <3>3 DEF Gauge
      <4> QED BY <3>2, <3>3, <4>1, PlaceOf
    <3>5. \A h \in ts : \E i \in 1..Len(rest) : rest[i] = h.at
      BY <1>4, <3>2 DEF Tracks
    <3> QED BY <1>4, <3>2, <3>4, <3>5, AppendTracks
  <2> QED BY <2>1, <2>2
<1> HIDE DEF ts
<1>7. GaugeInv' /\ now' = now + 1 /\ received' = [received EXCEPT !["projects"][l] = now]
  BY <1>1, <1>2, <1>6, ListStep DEF ts
<1>8. restarts' = restarts
  BY <1>2 DEF L!Receive
<1> QED BY <1>1, <1>2, <1>7, <1>8 DEF GaugeInv, ListTypes, L!Lists

\* The queue of a code that is received again.
LEMMA AgainTracks ==
  ASSUME NEW gs \in SUBSET Gauge, NEW q \in Seq(Address), Tracks(gs, q),
         NEW l \in Label, NEW p, now \in 1..MaxTime, NEW g0 \in gs, g0.label = l
  PROVE  LET ts == L!Touched(gs, l, p)
             q1 == Append(L!Others(q, L!Place(gs, l)), L!Place(gs, l))
         IN  /\ L!Place(gs, l) = g0.at /\ ts \in SUBSET Gauge
             /\ q1 \in Seq(Address) /\ Tracks(ts, q1)
<1> DEFINE ts == L!Touched(gs, l, p)
           a  == L!Place(gs, l)
           o  == L!Others(q, a)
<1>1. \A g, h \in gs : g.at = h.at \/ g.label = h.label => g = h
  BY DEF Tracks
<1>2. a = g0.at /\ a \in Address
  <2>1. g0.at \in Address
    BY DEF Gauge
  <2> QED BY <1>1, <2>1, PlaceOf
<1>3. o \in Seq(Address) /\ Filtered(q, a, Len(q), o)
  BY OthersFilter
<1>4. /\ ts \in SUBSET Gauge
      /\ \A h \in ts : \E g \in gs : g.at = h.at /\ g.label = h.label
      /\ \A g, h \in ts : g.at = h.at \/ g.label = h.label => g = h
  <2>1. L!Has(gs, l)
    BY DEF L!Has
  <2> QED BY <1>1, <2>1, TouchKnown
<1> HIDE DEF ts, a, o
<1>5. Len(o) <= RecentMax
  <2>1. Len(o) < Len(q)
    BY <1>2, <1>3 DEF Tracks, Filtered
  <2>2. Len(q) \in Nat /\ Len(o) \in Nat /\ Len(q) <= RecentMax + 1
    BY <1>3 DEF Tracks
  <2> QED BY <2>1, <2>2, Limits
<1>6. ASSUME NEW h \in ts PROVE h.at = a \/ \E i \in 1..Len(o) : o[i] = h.at
  <2>1. PICK g \in gs : g.at = h.at
    BY <1>4
  <2>2. PICK j \in 1..Len(q) : q[j] = h.at
    BY <2>1 DEF Tracks
  <2> QED BY <1>3, <2>2 DEF Filtered
<1>7. Append(o, a) \in Seq(Address) /\ Tracks(ts, Append(o, a))
  BY <1>2, <1>3, <1>4, <1>5, <1>6, AppendTracks
<1> QED BY <1>2, <1>4, <1>7 DEF ts, a, o

\* In an ordered queue every pointer is there once.
LEMMA OrderedDistinct ==
  ASSUME NEW gs \in SUBSET Gauge, NEW q \in Seq(Address), NEW r \in [Label -> Nat],
         Ordered(gs, q, r)
  PROVE  Distinct(q)
<1> SUFFICES ASSUME NEW i \in 1..Len(q), NEW j \in 1..Len(q), i < j PROVE q[i] # q[j]
  <2>1. \A i, j \in 1..Len(q) : i # j => i < j \/ j < i
    OBVIOUS
  <2> QED BY <2>1 DEF Distinct
<1>1. SUFFICES ASSUME q[i] = q[j] PROVE FALSE
  OBVIOUS
<1>2. PICK g \in gs : g.at = q[i]
  BY DEF Ordered
<1>3. r[g.label] < r[g.label]
  BY <1>1, <1>2 DEF Ordered
<1>4. r[g.label] \in Nat
  BY <1>2 DEF Gauge
<1> QED BY <1>3, <1>4

\* A code that is received again becomes the latest.
LEMMA OrderedAgain ==
  ASSUME NEW gs \in SUBSET Gauge, NEW q \in Seq(Address), Tracks(gs, q),
         NEW r \in [Label -> Nat], Ordered(gs, q, r), \A x \in Label : r[x] < now,
         NEW l \in Label, NEW p, now \in 1..MaxTime, NEW g0 \in gs, g0.label = l
  PROVE  Ordered(L!Touched(gs, l, p), Append(L!Others(q, L!Place(gs, l)), L!Place(gs, l)),
                 [r EXCEPT ![l] = now])
<1> DEFINE ts == L!Touched(gs, l, p)
           a  == L!Place(gs, l)
           o  == L!Others(q, a)
           q1 == Append(o, a)
           r1 == [r EXCEPT ![l] = now]
<1>1. /\ a = g0.at /\ ts \in SUBSET Gauge /\ q1 \in Seq(Address) /\ Tracks(ts, q1)
  BY AgainTracks
<1>2. a \in Address
  BY <1>1 DEF Gauge
<1>3. o \in Seq(Address) /\ Filtered(q, a, Len(q), o)
  BY OthersFilter
<1>4. /\ Len(q1) = Len(o) + 1 /\ Len(o) \in Nat /\ Len(q) \in Nat /\ now \in Nat
      /\ \A i \in 1..Len(o) : q1[i] = o[i]
      /\ q1[Len(o) + 1] = a
  <2> HIDE DEF a, o
  <2> QED BY <1>2, <1>3, AppendSeq
<1>5. /\ L!Has(ts, l)
      /\ \A h \in ts : \E g \in gs : g.at = h.at /\ g.label = h.label
      /\ \A g \in gs : \E h \in ts : g.at = h.at /\ g.label = h.label
  <2>1. L!Has(gs, l)
    BY DEF L!Has
  <2> QED BY <2>1, TouchKnown
<1>6. \A h \in ts : h.label \in Label /\ (h.label = l <=> h.at = a)
  BY <1>1, <1>5 DEF Gauge, Tracks
<1>7. r1 \in [Label -> Nat] /\ r1[l] = now /\ \A x \in Label : x # l => r1[x] = r[x]
  BY <1>4
<1> HIDE DEF ts, a, o, q1, r1
<1>8. ASSUME NEW i \in 1..Len(q1) PROVE \E h \in ts : h.at = q1[i]
  <2>1. CASE i \in 1..Len(o)
    <3>1. PICK j \in 1..Len(q) : q[j] = q1[i]
      <4>1. o[i] = q1[i] /\ \E j \in 1..Len(q) : q[j] = o[i]
        BY <1>3, <1>4, <2>1 DEF Filtered
      <4> QED BY <4>1
    <3>2. PICK g \in gs : g.at = q1[i]
      BY <3>1 DEF Ordered
    <3> QED BY <1>5, <3>2
  <2>2. CASE i = Len(o) + 1
    <3>1. PICK h \in ts : h.label = l
      BY <1>5 DEF L!Has
    <3> QED BY <1>4, <1>6, <2>2, <3>1
  <2> QED BY <1>4, <2>1, <2>2
<1>9. ASSUME NEW g \in ts, NEW h \in ts, NEW i \in 1..Len(q1), NEW j \in 1..Len(q1),
             g.at = q1[i], h.at = q1[j], i < j
      PROVE  r1[g.label] < r1[h.label]
  <2>1. i \in 1..Len(o)
    BY <1>4, <1>9
  <2>2. g.at # a /\ g.label # l /\ r1[g.label] = r[g.label] /\ r[g.label] < now
    <3>1. g.at # a
      BY <1>3, <1>4, <1>9, <2>1 DEF Filtered
    <3> QED BY <1>6, <1>7, <3>1
  <2>3. CASE j = Len(o) + 1
    <3>1. h.label = l
      BY <1>4, <1>6, <1>9, <2>3
    <3> QED BY <1>7, <2>2, <3>1
  <2>4. CASE j \in 1..Len(o)
    <3>1. h.at # a /\ h.label # l /\ r1[h.label] = r[h.label]
      <4>1. h.at # a
        BY <1>3, <1>4, <1>9, <2>4 DEF Filtered
      <4> QED BY <1>6, <1>7, <4>1
    <3>2. PICK x \in 1..Len(q), y \in 1..Len(q) : x < y /\ q[x] = o[i] /\ q[y] = o[j]
      BY <1>3, <1>9, <2>1, <2>4 DEF Filtered
    <3>3. PICK g1 \in gs : g1.at = g.at /\ g1.label = g.label
      BY <1>5
    <3>4. PICK h1 \in gs : h1.at = h.at /\ h1.label = h.label
      BY <1>5
    <3>5. g1.at = q[x] /\ h1.at = q[y]
      BY <1>4, <1>9, <2>1, <2>4, <3>2, <3>3, <3>4
    <3>6. r[g1.label] < r[h1.label]
      BY <3>2, <3>5 DEF Ordered
    <3> QED BY <2>2, <3>1, <3>3, <3>4, <3>6
  <2> QED BY <1>4, <2>3, <2>4
<1>10. ASSUME NEW h \in ts PROVE r1[h.label] > 0
  <2>1. PICK g \in gs : g.label = h.label
    BY <1>5
  <2> QED BY <1>6, <1>7, <2>1 DEF Ordered
<1>11. ASSUME NEW x \in Label, r1[x] > 0, ~L!Has(ts, x)
       PROVE  Len(q1) = RecentMax + 1 /\ \A h \in ts : r1[x] < r1[h.label]
  <2>1. x # l /\ r1[x] = r[x] /\ ~L!Has(gs, x)
    BY <1>5, <1>7, <1>11 DEF L!Has
  <2>2. Len(q) = RecentMax + 1 /\ \A g \in gs : r[x] < r[g.label]
    BY <1>11, <2>1 DEF Ordered
  <2>3. Distinct(q)
    BY OrderedDistinct
  <2>4. Len(o) + 1 >= Len(q)
    BY <1>3, <2>3 DEF Filtered
  <2>5. Len(q1) <= RecentMax + 1
    BY <1>1 DEF Tracks
  <2>6. Len(q1) = RecentMax + 1
    BY <1>4, <2>2, <2>4, <2>5, Limits
  <2>7. ASSUME NEW h \in ts PROVE r1[x] < r1[h.label]
    <3>1. PICK g \in gs : g.label = h.label
      BY <1>5
    <3>2. r[x] < r[h.label]
      BY <2>2, <3>1
    <3>3. CASE h.label = l
      BY <1>7, <2>1, <3>3
    <3>4. CASE h.label # l
      BY <1>6, <1>7, <2>1, <3>2, <3>4
    <3> QED BY <3>3, <3>4
  <2> QED BY <2>6, <2>7
<1>12. Ordered(ts, q1, r1)
  BY <1>8, <1>9, <1>10, <1>11 DEF Ordered
<1> QED BY <1>12 DEF ts, a, o, q1, r1

\* A new code takes the place of the one that was received longest ago.
LEMMA OrderedNew ==
  ASSUME NEW gs \in SUBSET Gauge, NEW q \in Seq(Address), Tracks(gs, q),
         NEW r \in [Label -> Nat], Ordered(gs, q, r), \A x \in Label : r[x] < now,
         NEW l \in Label, ~L!Has(gs, l), NEW p \in Address, \A g \in Kept(gs, q) : g.at # p,
         now \in 1..MaxTime
  PROVE  Ordered(L!Touched(Kept(gs, q), l, p), Append(Trimmed(q), p), [r EXCEPT ![l] = now])
<1> DEFINE kept == Kept(gs, q)
           rest == Trimmed(q)
           g0   == [label |-> l, at |-> p, time |-> now]
           ts   == L!Touched(kept, l, p)
           q1   == Append(rest, p)
           r1   == [r EXCEPT ![l] = now]
           d    == IF Full(q) THEN 1 ELSE 0
<1>1. /\ kept \in SUBSET Gauge /\ kept \subseteq gs
      /\ rest \in Seq(Address) /\ Len(rest) <= RecentMax /\ Tracks(kept, rest)
      /\ Full(q) => /\ Len(q) >= 1 /\ Head(q) = q[1] /\ Len(rest) = Len(q) - 1
                    /\ \A i \in 1..Len(rest) : rest[i] = q[i + 1]
  BY TrimTracks
<1>2. ts = kept \cup {g0}
  <2>1. ~L!Has(kept, l)
    BY <1>1 DEF L!Has
  <2> QED BY <2>1, TouchNew
<1>3. g0.label = l /\ g0.at = p
  OBVIOUS
<1>4. /\ Len(q1) = Len(rest) + 1 /\ Len(rest) \in Nat /\ Len(q) \in Nat /\ now \in Nat
      /\ \A i \in 1..Len(rest) : q1[i] = rest[i]
      /\ q1[Len(rest) + 1] = p
  <2> HIDE DEF rest
  <2> QED BY <1>1, AppendSeq
<1>5. r1 \in [Label -> Nat] /\ r1[l] = now /\ \A x \in Label : x # l => r1[x] = r[x]
  BY <1>4
<1>6. \A g \in kept : g.label \in Label /\ g.label # l /\ g.at # p /\ r1[g.label] = r[g.label]
  BY <1>1, <1>5 DEF L!Has, Gauge
\* Every place of rest is the place d later of q.
<1>7. /\ d \in {0, 1} /\ Len(rest) = Len(q) - d
      /\ \A i \in 1..Len(rest) : i + d \in 1..Len(q) /\ rest[i] = q[i + d]
  <2>1. CASE Full(q)
    BY <1>1, <1>4, <2>1
  <2>2. CASE ~Full(q)
    BY <1>4, <2>2 DEF Trimmed
  <2> QED BY <2>1, <2>2
<1>8. Distinct(q)
  BY OrderedDistinct
<1>9. \A g \in gs : g \in kept \/ (Full(q) /\ g.at = q[1])
  BY <1>1 DEF Kept, L!Without
<1>10. Full(q) => \A g \in kept : g.at # q[1]
  BY <1>1 DEF Kept, L!Without
<1> HIDE DEF kept, rest, g0, ts, q1, r1
<1>11. ASSUME NEW i \in 1..Len(q1) PROVE \E h \in ts : h.at = q1[i]
  <2>1. CASE i \in 1..Len(rest)
    <3>1. i + d \in 1..Len(q) /\ q1[i] = q[i + d]
      BY <1>4, <1>7, <2>1
    <3>2. PICK g \in gs : g.at = q[i + d]
      BY <3>1 DEF Ordered
    <3>3. Full(q) => g.at # q[1]
      <4> SUFFICES ASSUME Full(q) PROVE g.at # q[1]
        OBVIOUS
      <4>1. i + d # 1 /\ 1 \in 1..Len(q)
        BY <1>4, <2>1, <3>1
      <4> HIDE DEF d
      <4> QED BY <1>8, <3>1, <3>2, <4>1 DEF Distinct
    <3> QED BY <1>2, <1>9, <3>1, <3>2, <3>3
  <2>2. CASE i = Len(rest) + 1
    BY <1>2, <1>3, <1>4, <2>2
  <2> QED BY <1>4, <2>1, <2>2
<1>12. ASSUME NEW g \in ts, NEW h \in ts, NEW i \in 1..Len(q1), NEW j \in 1..Len(q1),
              g.at = q1[i], h.at = q1[j], i < j
       PROVE  r1[g.label] < r1[h.label]
  <2>1. i \in 1..Len(rest)
    BY <1>4, <1>12
  <2>2. g \in kept
    <3>1. CASE g = g0
      <4>1. q[i + d] = p /\ i + d \in 1..Len(q)
        BY <1>3, <1>4, <1>7, <1>12, <2>1, <3>1
      <4>2. PICK g1 \in gs : g1.at = q[i + d]
        BY <4>1 DEF Ordered
      <4>3. Full(q) /\ q[i + d] = q[1]
        BY <1>6, <1>9, <4>1, <4>2
      <4>4. i + d # 1 /\ 1 \in 1..Len(q)
        BY <1>4, <2>1, <4>1, <4>3
      <4> HIDE DEF d
      <4> QED BY <1>8, <4>1, <4>3, <4>4 DEF Distinct
    <3> QED BY <1>2, <3>1
  <2>3. r1[g.label] = r[g.label] /\ r[g.label] < now
    BY <1>6, <2>2
  <2>4. CASE h = g0
    BY <1>3, <1>5, <2>3, <2>4
  <2>5. CASE h \in kept
    <3>1. j \in 1..Len(rest)
      <4>1. j # Len(rest) + 1
        BY <1>4, <1>6, <1>12, <2>5
      <4> QED BY <1>4, <4>1
    <3>2. /\ g.at = q[i + d] /\ h.at = q[j + d] /\ i + d < j + d
          /\ i + d \in 1..Len(q) /\ j + d \in 1..Len(q)
      <4>1. g.at = rest[i] /\ h.at = rest[j]
        BY <1>4, <1>12, <2>1, <3>1
      <4>2. i + d < j + d
        BY <1>7, <1>12
      <4> HIDE DEF d
      <4> QED BY <1>7, <2>1, <3>1, <4>1, <4>2
    <3>3. g \in gs /\ h \in gs
      BY <1>1, <2>2, <2>5
    <3>4. r[g.label] < r[h.label]
      <4> HIDE DEF d
      <4> QED BY <3>2, <3>3 DEF Ordered
    <3> QED BY <1>6, <2>3, <2>5, <3>4
  <2> QED BY <1>2, <2>4, <2>5
<1>13. ASSUME NEW h \in ts PROVE r1[h.label] > 0
  <2>1. CASE h = g0
    BY <1>3, <1>5, <2>1
  <2>2. CASE h \in kept
    BY <1>1, <1>6, <2>2 DEF Ordered
  <2> QED BY <1>2, <2>1, <2>2
<1>14. ASSUME NEW x \in Label, r1[x] > 0, ~L!Has(ts, x)
       PROVE  Len(q1) = RecentMax + 1 /\ \A h \in ts : r1[x] < r1[h.label]
  <2>1. x # l /\ r1[x] = r[x] /\ ~L!Has(kept, x)
    BY <1>2, <1>3, <1>5, <1>14 DEF L!Has
  <2>2. Full(q) /\ \A g \in kept : r[x] < r[g.label]
    <3>1. CASE ~L!Has(gs, x)
      <4>1. Len(q) = RecentMax + 1 /\ \A g \in gs : r[x] < r[g.label]
        BY <1>14, <2>1, <3>1 DEF Ordered
      <4> QED BY <1>1, <4>1, Limits DEF Full
    <3>2. CASE L!Has(gs, x)
      <4>1. PICK g1 \in gs : g1.label = x
        BY <3>2 DEF L!Has
      <4>2. Full(q) /\ g1.at = q[1]
        BY <1>9, <2>1, <4>1 DEF L!Has
      <4>3. ASSUME NEW g \in kept PROVE r[x] < r[g.label]
        <5>1. g \in gs /\ g.at # q[1]
          BY <1>1, <1>10, <4>2
        <5>2. PICK i \in 1..Len(q) : q[i] = g.at
          BY <5>1 DEF Tracks
        <5>3. 1 \in 1..Len(q) /\ 1 < i
          BY <1>4, <5>1, <5>2
        <5> QED BY <4>1, <4>2, <5>1, <5>2, <5>3 DEF Ordered
      <4> QED BY <4>2, <4>3
    <3> QED BY <3>1, <3>2
  <2>3. Len(q1) = RecentMax + 1
    <3>1. Len(q) > RecentMax /\ Len(q) <= RecentMax + 1
      BY <2>2 DEF Full, Tracks
    <3> QED BY <1>1, <1>4, <2>2, <3>1, Limits
  <2>4. ASSUME NEW h \in ts PROVE r1[x] < r1[h.label]
    <3>1. CASE h = g0
      BY <1>3, <1>5, <2>1, <3>1
    <3>2. CASE h \in kept
      BY <1>6, <2>1, <2>2, <3>2
    <3> QED BY <1>2, <3>1, <3>2
  <2> QED BY <2>3, <2>4
<1>15. Ordered(ts, q1, r1)
  BY <1>11, <1>12, <1>13, <1>14 DEF Ordered
<1> QED BY <1>15 DEF kept, rest, ts, q1, r1

LEMMA VulnStep ==
  ASSUME VulnInv, NEW l \in Label, L!addRecentVulnerability(l)
  PROVE  VulnInv'
<1> DEFINE gs == gauge["vulns"]
           q  == pointers["vulns"]
           r  == received["vulns"]
<1>1. /\ "vulns" \in L!Lists /\ gs \in SUBSET Gauge /\ q \in Seq(Address) /\ Tracks(gs, q)
      /\ r \in [Label -> Nat] /\ gauge["vulns"] = gs /\ pointers["vulns"] = q
  <2>1. r \in [Label -> 0..MaxTime]
    BY DEF L!Lists, VulnInv, GaugeInv, ListTypes
  <2>2. r \in [Label -> Nat]
    BY <2>1, Limits
  <2> QED BY <2>2 DEF L!Lists, VulnInv, GaugeInv, ListTypes
<1>2. PICK p \in L!Free("vulns", Kept(gs, q)) :
        /\ IF L!Has(gs, l)
             THEN /\ gauge' = [gauge EXCEPT !["vulns"] = L!Touched(gs, l, p)]
                  /\ pointers' = [pointers EXCEPT !["vulns"] =
                                    Append(L!Others(q, L!Place(gs, l)), L!Place(gs, l))]
             ELSE /\ gauge' = [gauge EXCEPT !["vulns"] = L!Touched(Kept(gs, q), l, p)]
                  /\ pointers' = [pointers EXCEPT !["vulns"] = Append(Trimmed(q), p)]
        /\ L!Receive("vulns", l)
  BY Zenon DEF L!addRecentVulnerability, Kept, Trimmed, Full
<1>3. p \in Address /\ \A g \in Kept(gs, q) : g.at # p
  BY FreeAddress DEF VulnInv, GaugeInv
<1>4. now \in 1..MaxTime
  <2>1. now \in 1..(MaxTime + 1) /\ now <= MaxTime
    BY <1>2 DEF VulnInv, GaugeInv, ListTypes, L!Receive
  <2> QED BY <2>1, Limits
<1> DEFINE ts == IF L!Has(gs, l) THEN L!Touched(gs, l, p) ELSE L!Touched(Kept(gs, q), l, p)
           q1 == IF L!Has(gs, l) THEN Append(L!Others(q, L!Place(gs, l)), L!Place(gs, l))
                                 ELSE Append(Trimmed(q), p)
           r1 == [r EXCEPT ![l] = now]
<1>5. gauge' = [gauge EXCEPT !["vulns"] = ts] /\ pointers' = [pointers EXCEPT !["vulns"] = q1]
  BY <1>2, Zenon
<1>6. restarts = 0 => Ordered(gs, q, r) /\ \A x \in Label : r[x] < now
  BY DEF VulnInv
<1> HIDE DEF gs, q, r
<1>7. /\ ts \in SUBSET Gauge /\ q1 \in Seq(Address) /\ Tracks(ts, q1)
      /\ restarts = 0 => Ordered(ts, q1, r1)
  <2>1. CASE L!Has(gs, l)
    <3>1. PICK g0 \in gs : g0.label = l
      BY <2>1 DEF L!Has
    <3>2. ts = L!Touched(gs, l, p) /\ q1 = Append(L!Others(q, L!Place(gs, l)), L!Place(gs, l))
      BY <2>1
    <3> HIDE DEF ts, q1
    <3>3. ts \in SUBSET Gauge /\ q1 \in Seq(Address) /\ Tracks(ts, q1)
      BY <1>1, <1>4, <3>1, <3>2, AgainTracks
    <3>4. ASSUME restarts = 0 PROVE Ordered(ts, q1, r1)
      BY <1>1, <1>4, <1>6, <3>1, <3>2, <3>4, OrderedAgain
    <3> QED BY <3>3, <3>4
  <2>2. CASE ~L!Has(gs, l)
    <3>1. ts = L!Touched(Kept(gs, q), l, p) /\ q1 = Append(Trimmed(q), p)
      BY <2>2
    <3> HIDE DEF ts, q1
    <3>2. /\ Kept(gs, q) \in SUBSET Gauge /\ Kept(gs, q) \subseteq gs
          /\ Trimmed(q) \in Seq(Address) /\ Len(Trimmed(q)) <= RecentMax
          /\ Tracks(Kept(gs, q), Trimmed(q))
      BY <1>1, TrimTracks
    <3>3. ~L!Has(Kept(gs, q), l) /\ \A g \in Kept(gs, q) : g.at # p
      BY <1>3, <2>2, <3>2, Zenon DEF L!Has
    <3>4. ts \in SUBSET Gauge /\ q1 \in Seq(Address) /\ Tracks(ts, q1)
      BY <1>3, <1>4, <3>1, <3>2, <3>3, AddTracks
    <3>5. ASSUME restarts = 0 PROVE Ordered(ts, q1, r1)
      BY <1>1, <1>3, <1>4, <1>6, <2>2, <3>1, <3>5, OrderedNew
    <3> QED BY <3>4, <3>5
  <2> QED BY <2>1, <2>2
<1> HIDE DEF ts, q1
<1>8. GaugeInv' /\ now' = now + 1 /\ received' = [received EXCEPT !["vulns"][l] = now]
  BY <1>1, <1>2, <1>5, <1>7, ListStep DEF VulnInv
<1>9. gauge'["vulns"] = ts /\ pointers'["vulns"] = q1 /\ received'["vulns"] = r1
  BY <1>1, <1>5, <1>8 DEF VulnInv, GaugeInv, ListTypes, r
<1>10. restarts' = restarts
  BY <1>2 DEF L!Receive
<1>11. ASSUME restarts = 0, NEW x \in Label PROVE r1[x] < now'
  <2>1. r1 \in [Label -> Nat] /\ (r1[x] = now \/ r1[x] = r[x]) /\ now \in Nat
    BY <1>1, <1>4
  <2> QED BY <1>6, <1>8, <1>11, <2>1
<1> HIDE DEF r1
<1>12. restarts' = 0 => /\ Ordered(gauge'["vulns"], pointers'["vulns"], received'["vulns"])
                        /\ \A x \in Label : received'["vulns"][x] < now'
  BY <1>7, <1>9, <1>10, <1>11
<1> QED BY <1>8, <1>12 DEF VulnInv

\* A restart brings every gauge back and a queue of exactly those.
LEMMA ListRestart == ASSUME VulnInv, L!Restart PROVE VulnInv'
<1>1. PICK order \in [L!Lists -> UNION {[1..n -> Address] : n \in 0..(RecentMax + 1)}] :
        /\ \A k \in L!Lists : /\ Len(order[k]) = L!Cardinality(gauge[k])
                              /\ L!Range(order[k]) = {g.at : g \in gauge[k]}
        /\ pointers' = order
  BY Zenon DEF L!Restart
<1>2. UNCHANGED <<gauge, received, now>> /\ restarts' = restarts + 1 /\ restarts < MaxRestarts
  BY DEF L!Restart
<1>3. ASSUME NEW k \in L!Lists
      PROVE  pointers'[k] \in Seq(Address) /\ Tracks(gauge[k], pointers'[k])
  <2>1. PICK n \in 0..(RecentMax + 1) : order[k] \in [1..n -> Address]
    BY <1>1
  <2>2. n \in Nat /\ n <= RecentMax + 1
    BY <2>1, Limits
  <2>3. order[k] \in Seq(Address) /\ Len(order[k]) = n
    BY <2>1, <2>2
  <2>4. ASSUME NEW g \in gauge[k] PROVE \E i \in 1..Len(order[k]) : order[k][i] = g.at
    <3>1. g.at \in L!Range(order[k])
      BY <1>1
    <3> QED BY <2>1, <2>3, <3>1 DEF L!Range
  <2>5. \A g, h \in gauge[k] : g.at = h.at \/ g.label = h.label => g = h
    BY DEF VulnInv, GaugeInv, Tracks
  <2>6. Tracks(gauge[k], order[k])
    BY <2>2, <2>3, <2>4, <2>5 DEF Tracks
  <2> QED BY <1>1, <2>3, <2>6
<1>4. pointers' \in [L!Lists -> Seq(Address)]
  BY <1>1, <1>3
<1>5. GaugeInv'
  BY <1>2, <1>3, <1>4 DEF VulnInv, GaugeInv, ListTypes
<1>6. restarts' # 0
  BY <1>2 DEF VulnInv, GaugeInv, ListTypes
<1> QED BY <1>5, <1>6 DEF VulnInv

LEMMA ListInit == L!Init => VulnInv
<1> SUFFICES ASSUME L!Init PROVE VulnInv
  OBVIOUS
<1>1. /\ gauge = [k \in L!Lists |-> {}] /\ pointers = [k \in L!Lists |-> <<>>]
      /\ received = [k \in L!Lists |-> [l \in Label |-> 0]] /\ now = 1 /\ restarts = 0
  BY DEF L!Init
<1>2. 0 \in 0..MaxTime /\ now \in 1..(MaxTime + 1) /\ 0 <= RecentMax + 1
  BY <1>1, Limits
<1>3. ListTypes
  BY <1>1, <1>2 DEF ListTypes
<1>4. \A k \in L!Lists : gauge[k] = {} /\ pointers[k] = <<>> /\ \A l \in Label : received[k][l] = 0
  BY <1>1
<1>5. \A k \in L!Lists : Tracks(gauge[k], pointers[k])
  BY <1>2, <1>4 DEF Tracks
<1>6. "vulns" \in L!Lists
  BY DEF L!Lists
<1>7. Ordered(gauge["vulns"], pointers["vulns"], received["vulns"])
  BY <1>4, <1>6 DEF Ordered
<1>8. \A l \in Label : received["vulns"][l] < now
  BY <1>1, <1>4, <1>6
<1> QED BY <1>3, <1>5, <1>7, <1>8 DEF VulnInv, GaugeInv

LEMMA ListNext == VulnInv /\ [L!Next]_L!vars => VulnInv'
<1> SUFFICES ASSUME VulnInv, [L!Next]_L!vars PROVE VulnInv'
  OBVIOUS
<1>1. ASSUME NEW l \in Label, L!addRecentProject(l) PROVE VulnInv'
  <2>1. /\ GaugeInv' /\ now' = now + 1
        /\ gauge'["vulns"] = gauge["vulns"] /\ pointers'["vulns"] = pointers["vulns"]
        /\ received'["vulns"] = received["vulns"] /\ restarts' = restarts
    BY <1>1, ProjectStep DEF VulnInv
  <2>2. ASSUME restarts = 0, NEW x \in Label PROVE received["vulns"][x] < now + 1
    <3>1. received["vulns"][x] \in Int /\ now \in Int
      <4>1. received["vulns"][x] \in 0..MaxTime
        BY DEF VulnInv, GaugeInv, ListTypes, L!Lists
      <4>2. now \in 1..(MaxTime + 1)
        BY DEF VulnInv, GaugeInv, ListTypes
      <4> QED BY <4>1, <4>2
    <3>2. received["vulns"][x] < now
      BY <2>2 DEF VulnInv
    <3> QED BY <3>1, <3>2
  <2>3. restarts' = 0 => /\ Ordered(gauge'["vulns"], pointers'["vulns"], received'["vulns"])
                         /\ \A x \in Label : received'["vulns"][x] < now'
    <3> SUFFICES ASSUME restarts' = 0
                 PROVE  /\ Ordered(gauge'["vulns"], pointers'["vulns"], received'["vulns"])
                        /\ \A x \in Label : received'["vulns"][x] < now'
      OBVIOUS
    <3>1. restarts = 0
      BY <2>1
    <3>2. Ordered(gauge["vulns"], pointers["vulns"], received["vulns"])
      BY <3>1 DEF VulnInv
    <3> QED BY <2>1, <2>2, <3>1, <3>2
  <2> QED BY <2>1, <2>3 DEF VulnInv
<1>2. ASSUME NEW l \in Label, L!addRecentVulnerability(l) PROVE VulnInv'
  BY <1>2, VulnStep
<1>3. ASSUME L!Restart PROVE VulnInv'
  BY <1>3, ListRestart
<1>4. CASE UNCHANGED L!vars
  BY <1>4 DEF L!vars, VulnInv, GaugeInv, ListTypes, Ordered, Tracks
<1> QED BY <1>1, <1>2, <1>3, <1>4 DEF L!Next

\* The labels with a gauge are the latest.
LEMMA OrderedLatest ==
  ASSUME NEW gs \in SUBSET Gauge, NEW q \in Seq(Address), Tracks(gs, q),
         NEW r \in [Label -> Nat], Ordered(gs, q, r), NEW l \in Label
  PROVE  LET later == {o \in Label : r[o] > r[l]}
         IN  L!Has(gs, l) <=> r[l] > 0 /\ L!Cardinality(later) <= RecentMax
<1> DEFINE later == {o \in Label : r[o] > r[l]}
<1>1. /\ RecentMax \in Nat /\ Len(q) \in Nat /\ Len(q) <= RecentMax + 1
      /\ IsFiniteSet(later)
  <2>1. IsFiniteSet(Label) /\ later \in SUBSET Label
    BY PartsAssumption
  <2> QED BY <2>1, Limits, FS_Subset DEF Tracks
<1>2. Cardinality(later) \in Nat
  BY <1>1, FS_CardinalityType
<1>3. ASSUME L!Has(gs, l) PROVE r[l] > 0 /\ Cardinality(later) <= RecentMax
  <2>1. PICK g \in gs : g.label = l
    BY <1>3 DEF L!Has
  <2>2. r[l] > 0
    BY <2>1 DEF Ordered
  <2>3. PICK k \in 1..Len(q) : q[k] = g.at
    BY <2>1 DEF Tracks
  <2> DEFINE Is(o, i) == \E h \in gs : h.label = o /\ h.at = q[i]
             f == [o \in later |-> CHOOSE i \in (k + 1)..Len(q) : Is(o, i)]
  <2>4. ASSUME NEW o \in later PROVE \E i \in (k + 1)..Len(q) : Is(o, i)
    <3>1. r[o] > r[l] /\ r[o] \in Nat /\ r[l] \in Nat /\ o \in Label
      OBVIOUS
    <3>2. PICK h \in gs : h.label = o
      <4>1. L!Has(gs, o)
        <5> SUFFICES ASSUME ~L!Has(gs, o) PROVE FALSE
          OBVIOUS
        <5>1. r[o] < r[g.label]
          BY <2>1, <3>1 DEF Ordered
        <5> QED BY <2>1, <3>1, <5>1
      <4> QED BY <4>1 DEF L!Has
    <3>3. PICK i \in 1..Len(q) : q[i] = h.at
      BY <3>2 DEF Tracks
    <3>4. ~(i < k)
      <4> SUFFICES ASSUME i < k PROVE FALSE
        OBVIOUS
      <4>1. r[h.label] < r[g.label]
        BY <2>1, <2>3, <3>2, <3>3 DEF Ordered
      <4> QED BY <2>1, <3>1, <3>2, <4>1
    <3>5. i # k
      <4> SUFFICES ASSUME i = k PROVE FALSE
        OBVIOUS
      <4>1. h = g
        BY <2>1, <2>3, <3>2, <3>3 DEF Tracks
      <4> QED BY <2>1, <3>1, <3>2, <4>1
    <3>6. i \in (k + 1)..Len(q)
      BY <2>3, <3>3, <3>4, <3>5
    <3> QED BY <3>2, <3>3, <3>6
  <2>5. ASSUME NEW o \in later PROVE f[o] \in (k + 1)..Len(q) /\ Is(o, f[o])
    <3> HIDE DEF Is, later
    <3> QED BY <2>4
  <2>6. f \in Injection(later, (k + 1)..Len(q))
    <3>1. f \in [later -> (k + 1)..Len(q)]
      <4> HIDE DEF Is, later
      <4> QED BY <2>5
    <3>2. ASSUME NEW o \in later, NEW x \in later, f[o] = f[x] PROVE o = x
      <4> HIDE DEF f, later
      <4>1. PICK g1 \in gs : g1.label = o /\ g1.at = q[f[o]]
        BY <2>5
      <4>2. PICK g2 \in gs : g2.label = x /\ g2.at = q[f[x]]
        BY <2>5
      <4>3. g1 = g2
        BY <3>2, <4>1, <4>2 DEF Tracks
      <4> QED BY <4>1, <4>2, <4>3
    <3> HIDE DEF f, later
    <3> QED BY <3>1, <3>2 DEF Injection, IsInjective
  <2>7. k + 1 \in Int /\ Len(q) \in Int /\ k \in Nat /\ k >= 1
    BY <1>1, <2>3
  <2>8. IsFiniteSet((k + 1)..Len(q)) /\ Cardinality((k + 1)..Len(q)) <= RecentMax
    <3>1. /\ IsFiniteSet((k + 1)..Len(q))
          /\ Cardinality((k + 1)..Len(q)) = IF k + 1 > Len(q) THEN 0 ELSE Len(q) - (k + 1) + 1
      BY <2>7, FS_Interval
    <3> QED BY <1>1, <2>7, <3>1
  <2> HIDE DEF f, later
  <2>9. Cardinality(later) <= Cardinality((k + 1)..Len(q))
    BY <2>6, <2>8, FS_Injection
  <2>10. Cardinality((k + 1)..Len(q)) \in Nat
    BY <2>8, FS_CardinalityType
  <2> QED BY <1>1, <1>2, <2>2, <2>8, <2>9, <2>10
<1>4. ASSUME ~L!Has(gs, l), r[l] > 0 PROVE ~(Cardinality(later) <= RecentMax)
  <2>1. Len(q) = RecentMax + 1 /\ \A g \in gs : r[l] < r[g.label]
    BY <1>4 DEF Ordered
  <2> DEFINE At(i) == CHOOSE g \in gs : g.at = q[i]
             f == [i \in 1..Len(q) |-> At(i).label]
  <2>2. ASSUME NEW i \in 1..Len(q) PROVE At(i) \in gs /\ At(i).at = q[i]
    BY DEF Ordered
  <2> HIDE DEF At
  <2>3. ASSUME NEW i \in 1..Len(q) PROVE f[i] \in later
    <3>1. f[i] = At(i).label /\ At(i) \in gs /\ At(i).label \in Label
      BY <2>2 DEF Gauge
    <3>2. r[l] \in Nat /\ r[At(i).label] \in Nat
      BY <3>1
    <3> QED BY <2>1, <3>1, <3>2
  <2>4. ASSUME NEW i \in 1..Len(q), NEW j \in 1..Len(q), f[i] = f[j] PROVE i = j
    <3>1. At(i) = At(j)
      BY <2>2, <2>4 DEF Tracks
    <3>2. q[i] = q[j]
      BY <2>2, <3>1
    <3> QED BY <3>2, OrderedDistinct DEF Distinct
  <2> HIDE DEF later
  <2>5. f \in Injection(1..Len(q), later)
    <3>1. f \in [1..Len(q) -> later]
      BY <2>3
    <3> HIDE DEF f
    <3> QED BY <2>4, <3>1 DEF Injection, IsInjective
  <2> HIDE DEF f
  <2>6. Cardinality(1..Len(q)) <= Cardinality(later)
    BY <1>1, <2>5, FS_Injection
  <2>7. Cardinality(1..Len(q)) = Len(q)
    <3>1. 1 \in Int /\ Len(q) \in Int
      BY <1>1
    <3>2. Cardinality(1..Len(q)) = IF 1 > Len(q) THEN 0 ELSE Len(q) - 1 + 1
      BY <3>1, FS_Interval
    <3> QED BY <1>1, <3>2
  <2> QED BY <1>1, <1>2, <2>1, <2>6, <2>7
<1> HIDE DEF later
<1>5. L!Has(gs, l) <=> r[l] > 0 /\ Cardinality(later) <= RecentMax
  BY <1>3, <1>4, Zenon
<1>6. L!Cardinality(later) = Cardinality(later)
  BY SameCardinality
<1> QED BY <1>5, <1>6, Zenon DEF later

LEMMA VulnInvLatest == VulnInv => L!VulnsAreLatest
<1> SUFFICES ASSUME VulnInv, restarts = 0
             PROVE  {g.label : g \in gauge["vulns"]} = L!LatestOf("vulns")
  BY DEF L!VulnsAreLatest
<1> DEFINE gs == gauge["vulns"]
           q  == pointers["vulns"]
           r  == received["vulns"]
<1>1. /\ gs \in SUBSET Gauge /\ q \in Seq(Address) /\ Tracks(gs, q)
      /\ r \in [Label -> Nat] /\ Ordered(gs, q, r)
  <2>1. r \in [Label -> 0..MaxTime]
    BY DEF L!Lists, VulnInv, GaugeInv, ListTypes
  <2>2. r \in [Label -> Nat]
    BY <2>1, Limits
  <2> QED BY <2>2 DEF L!Lists, VulnInv, GaugeInv, ListTypes
<1>2. L!LatestOf("vulns") =
        {l \in Label : r[l] > 0 /\ L!Cardinality({o \in Label : r[o] > r[l]}) <= RecentMax}
  BY DEF L!LatestOf
<1>3. \A g \in gs : g.label \in Label
  BY <1>1 DEF Gauge
<1> HIDE DEF gs, q, r
<1>4. \A l \in Label : L!Has(gs, l) <=>
        r[l] > 0 /\ L!Cardinality({o \in Label : r[o] > r[l]}) <= RecentMax
  BY <1>1, OrderedLatest
<1>5. L!LatestOf("vulns") = {l \in Label : L!Has(gs, l)}
  BY <1>2, <1>4
<1>6. {g.label : g \in gs} = {l \in Label : L!Has(gs, l)}
  BY <1>3 DEF L!Has
<1> QED BY <1>5, <1>6 DEF gs

\* No gauge is forgotten by its queue and a list has at most RecentMax + 1
\* (addRecentProject, addRecentVulnerability), whatever is received how often, wherever
\* new gauges are allocated, and in whatever order a restart finds them.
THEOREM GaugesAlwaysTracked == L!Spec => []GaugesTracked
<1>1. VulnInv => GaugesTracked
  BY GaugeInvTracked DEF VulnInv, GaugesTracked
<1> QED BY <1>1, ListInit, ListNext, PTL DEF L!Spec

\* Until the process restarts, the list shows exactly the RecentMax + 1 vulnerabilities
\* received last, each once (addRecentVulnerability).
THEOREM VulnsAlwaysLatest == L!Spec => []VulnsAreLatest
<1>1. VulnInv => VulnsAreLatest
  BY VulnInvLatest DEF VulnsAreLatest
<1> QED BY <1>1, ListInit, ListNext, PTL DEF L!Spec

(***************************************************************************)
(* TextFormat: SplitIsPieces, ChunksAndPairs and RoundTrips.                *)
(*                                                                          *)
(* splitStringOn, on any text and with any delimiter: what is read after    *)
(* i characters are words without the delimiter, which, each with one after *)
(* it, are with the word being read the first i characters.                 *)
(***************************************************************************)
LEMMA SameOperators ==
  /\ \A s : T!FlattenSeq(s) = FlattenSeq(s) /\ T!Front(s) = Front(s) /\ T!Last(s) = Last(s)
  /\ \A s, x : T!Contains(s, x) <=> Contains(s, x)
BY DEF T!FlattenSeq, FlattenSeq, T!Front, Front, T!Last, Last, T!Contains, Contains

\* f is what getline has read after each character.
Lines(f, s, d, E) ==
  /\ f \in [0..Len(s) -> [item : Seq(E), out : Seq(Seq(E))]]
  /\ f[0] = [item |-> <<>>, out |-> <<>>] /\ T!Getlines(s, d) = f[Len(s)]
  /\ \A i \in 1..Len(s) :
       f[i] = IF s[i] = d THEN [item |-> <<>>, out |-> Append(f[i - 1].out, f[i - 1].item)]
              ELSE [item |-> Append(f[i - 1].item, s[i]), out |-> f[i - 1].out]

LEMMA GetlinesSteps ==
  ASSUME NEW E, NEW s \in Seq(E), NEW d
  PROVE  \E f : Lines(f, s, d, E)
<1> DEFINE k == Len(s)
           D == [item : Seq(E), out : Seq(Seq(E))]
           base == [item |-> <<>>, out |-> <<>>]
           Go(b, c) == IF c = d THEN [item |-> <<>>, out |-> Append(b.out, b.item)]
                       ELSE [item |-> Append(b.item, c), out |-> b.out]
           Val(h, i) == IF i = 0 THEN base ELSE Go(h[i - 1], s[i])
           G == CHOOSE h : h = [i \in 0..k |-> Val(h, i)]
           step == [i \in 1..k |-> [b \in D |-> Go(b, s[i])]]
<1>1. k \in Nat /\ \A i \in 1..k : s[i] \in E
  OBVIOUS
<1>2. T!Getlines(s, d) = G[k]
  BY DEF T!Getlines
<1>3. base \in D
  <2>1. <<>> \in Seq(E) /\ <<>> \in Seq(Seq(E))
    OBVIOUS
  <2> QED BY <2>1, Zenon
<1>4. ASSUME NEW b \in D, NEW c \in E PROVE Go(b, c) \in D
  <2> DEFINE Q == Seq(E)
  <2>1. b.item \in Q /\ b.out \in Seq(Q) /\ <<>> \in Q
    OBVIOUS
  <2>2. Append(b.item, c) \in Q
    OBVIOUS
  <2>3. Append(b.out, b.item) \in Seq(Q)
    <3> HIDE DEF Q
    <3> QED BY <2>1
  <2> HIDE DEF Q
  <2>4. [item |-> <<>>, out |-> Append(b.out, b.item)] \in [item : Q, out : Seq(Q)]
    BY <2>1, <2>3
  <2>5. [item |-> Append(b.item, c), out |-> b.out] \in [item : Q, out : Seq(Q)]
    BY <2>1, <2>2
  <2>6. Go(b, c) \in [item : Q, out : Seq(Q)]
    BY <2>4, <2>5, Zenon
  <2> QED BY <2>6 DEF Q
<1> HIDE DEF D, k, base, Go
<1>5. step \in [1..k -> [D -> D]]
  BY <1>1, <1>4
<1>6. PICK f \in [0..k -> D] : f[0] = base /\ \A i \in 1..k : f[i] = step[i][f[i - 1]]
  <2> HIDE DEF step
  <2>1. \E f : Computes(f, D, base, k, step)
    BY <1>1, <1>3, <1>5, Recursion
  <2> QED BY <2>1, Zenon DEF Computes
<1>7. \A i \in 1..k : i \in 0..k /\ i - 1 \in 0..k /\ i # 0
  BY <1>1
<1>8. \A i \in 0..k : i = 0 \/ i \in 1..k
  BY <1>1
<1>9. ASSUME NEW i \in 1..k PROVE f[i] = Go(f[i - 1], s[i])
  <2>1. f[i - 1] \in D
    BY <1>6, <1>7
  <2>2. step[i][f[i - 1]] = Go(f[i - 1], s[i])
    BY <2>1
  <2> QED BY <1>6, <2>2
<1> HIDE DEF step
<1>10. f = [i \in 0..k |-> Val(f, i)]
  <2>1. ASSUME NEW i \in 0..k PROVE f[i] = Val(f, i)
    BY <1>6, <1>7, <1>8, <1>9, Zenon
  <2>2. f = [i \in 0..k |-> f[i]]
    BY <1>6
  <2> HIDE DEF Val
  <2> QED BY <2>1, <2>2
<1>11. G = [i \in 0..k |-> Val(G, i)]
  <2> HIDE DEF Val
  <2> QED BY <1>10
<1> HIDE DEF G
<1>12. G[0] = base /\ \A i \in 1..k : G[i] = Go(G[i - 1], s[i])
  <2>1. \A i \in 0..k : G[i] = Val(G, i)
    <3> HIDE DEF Val
    <3> QED BY <1>11
  <2>2. 0 \in 0..k
    BY <1>1
  <2> QED BY <1>7, <2>1, <2>2, Zenon
<1>13. \A n \in Nat : n <= k => G[n] = f[n]
  <2> DEFINE U == {n \in Nat : n <= k => G[n] = f[n]}
  <2>1. 0 \in U
    BY <1>6, <1>12
  <2>2. ASSUME NEW n \in Nat, n \in U PROVE n + 1 \in U
    <3> SUFFICES ASSUME n + 1 <= k PROVE G[n + 1] = f[n + 1]
      OBVIOUS
    <3>1. n + 1 \in 1..k /\ (n + 1) - 1 = n /\ n <= k
      BY <1>1
    <3>2. G[n] = f[n]
      BY <2>2, <3>1
    <3> QED BY <1>9, <1>12, <3>1, <3>2
  <2>3. \A n \in Nat : n \in U
    <3> HIDE DEF U
    <3> QED BY <2>1, <2>2, Upward
  <2> QED BY <2>3
<1>14. k <= k
  BY <1>1
<1>15. T!Getlines(s, d) = f[k]
  BY <1>1, <1>2, <1>13, <1>14
<1>16. Lines(f, s, d, E)
  BY <1>6, <1>9, <1>15, Zenon DEF Lines, k, D, base, Go
<1> QED BY <1>16

LEMMA EndedNone == ASSUME NEW d PROVE T!Ended(<<>>, d) = <<>>
<1>1. [i \in DOMAIN <<>> |-> Append(<<>>[i], d)] = <<>>
  OBVIOUS
<1> QED BY <1>1, FlattenNone, SameOperators DEF T!Ended

\* One word more.
LEMMA EndedAppend ==
  ASSUME NEW E, NEW words \in Seq(Seq(E)), NEW w \in Seq(E), NEW d \in E
  PROVE  /\ T!Ended(words, d) \in Seq(E)
         /\ T!Ended(Append(words, w), d) = T!Ended(words, d) \o Append(w, d)
<1> DEFINE C == Seq(E)
           longer == Append(words, w)
           rows(u) == [i \in DOMAIN u |-> Append(u[i], d)]
<1>1. \A x \in C : Append(x, d) \in C
  OBVIOUS
<1>2. words \in Seq(C) /\ w \in C
  OBVIOUS
<1> HIDE DEF C
<1>3. /\ Len(words) \in Nat /\ longer \in Seq(C) /\ Len(longer) = Len(words) + 1 /\ longer[Len(words) + 1] = w
      /\ \A i \in 1..Len(words) : longer[i] = words[i]
  BY <1>2, AppendSeq
<1> HIDE DEF longer
<1>4. ASSUME NEW u \in Seq(C)
      PROVE  rows(u) \in Seq(C) /\ Len(rows(u)) = Len(u) /\ \A i \in 1..Len(u) : rows(u)[i] = Append(u[i], d)
  <2>1. DOMAIN u = 1..Len(u) /\ Len(u) \in Nat /\ \A i \in 1..Len(u) : u[i] \in C
    OBVIOUS
  <2>2. \A i \in 1..Len(u) : Append(u[i], d) \in C
    BY <1>1, <2>1
  <2> QED BY <2>1, <2>2
<1> HIDE DEF rows
<1>5. rows(longer) = Append(rows(words), Append(w, d))
  <2> DEFINE b == Append(w, d)
             r == rows(words)
             t == Append(r, b)
  <2>1. b \in C /\ r \in Seq(C) /\ Len(r) = Len(words)
    BY <1>1, <1>2, <1>4
  <2> HIDE DEF b, r
  <2>2. t \in Seq(C) /\ Len(t) = Len(r) + 1 /\ t[Len(r) + 1] = b /\ \A i \in 1..Len(r) : t[i] = r[i]
    <3>1. ASSUME NEW q \in Seq(C), NEW x \in C
          PROVE  /\ Append(q, x) \in Seq(C) /\ Len(Append(q, x)) = Len(q) + 1
                 /\ Append(q, x)[Len(q) + 1] = x /\ \A i \in 1..Len(q) : Append(q, x)[i] = q[i]
      BY AppendSeq
    <3> QED BY <2>1, <3>1, Zenon
  <2> HIDE DEF t
  <2>3. rows(longer) \in Seq(C) /\ Len(rows(longer)) = Len(words) + 1
    BY <1>3, <1>4
  <2>4. ASSUME NEW i \in 1..(Len(words) + 1) PROVE rows(longer)[i] = t[i]
    <3>1. rows(longer)[i] = Append(longer[i], d)
      BY <1>3, <1>4
    <3>2. CASE i \in 1..Len(words)
      <4>1. longer[i] = words[i] /\ t[i] = r[i]
        BY <1>3, <2>1, <2>2, <3>2
      <4>2. r[i] = Append(words[i], d)
        BY <1>2, <1>4, <3>2 DEF r
      <4> QED BY <3>1, <4>1, <4>2
    <3>3. CASE i = Len(words) + 1
      <4>1. longer[i] = w /\ t[i] = b
        BY <1>3, <2>1, <2>2, <3>3
      <4> QED BY <3>1, <4>1 DEF b
    <3> QED BY <1>3, <3>2, <3>3
  <2>5. rows(longer) = t
    BY <1>3, <2>1, <2>2, <2>3, <2>4
  <2> QED BY <2>5 DEF t, r, b
<1>6. rows(words) \in Seq(C) /\ Append(w, d) \in C
  BY <1>1, <1>2, <1>4
<1>7. FlattenSeq(rows(words)) \in Seq(E) /\ FlattenSeq(rows(longer)) = FlattenSeq(rows(words)) \o Append(w, d)
  BY <1>5, <1>6, FlattenType, FlattenAppend DEF C
<1>8. T!Ended(words, d) = FlattenSeq(rows(words)) /\ T!Ended(longer, d) = FlattenSeq(rows(longer))
  BY SameOperators DEF T!Ended, rows
<1> QED BY <1>7, <1>8 DEF longer

\* One character more.
LEMMA PrefixGrows ==
  ASSUME NEW E, NEW s \in Seq(E), NEW i \in 1..Len(s)
  PROVE  SubSeq(s, 1, i) = Append(SubSeq(s, 1, i - 1), s[i]) /\ SubSeq(s, 1, i - 1) \in Seq(E)
<1> DEFINE t == SubSeq(s, 1, i)
           u == SubSeq(s, 1, i - 1)
           v == Append(u, s[i])
<1>1. Len(s) \in Nat /\ i \in Nat /\ i - 1 \in Nat /\ s[i] \in E
  OBVIOUS
<1>2. t \in Seq(E) /\ Len(t) = i /\ \A j \in 1..i : t[j] = s[j]
  OBVIOUS
<1>3. u \in Seq(E) /\ Len(u) = i - 1 /\ \A j \in 1..(i - 1) : u[j] = s[j]
  OBVIOUS
<1> HIDE DEF t, u
<1>4. v \in Seq(E) /\ Len(v) = i /\ v[i] = s[i] /\ \A j \in 1..(i - 1) : v[j] = u[j]
  BY <1>1, <1>3
<1> HIDE DEF v
<1>5. \A j \in 1..i : t[j] = v[j]
  <2>1. \A j \in 1..i : j \in 1..(i - 1) \/ j = i
    BY <1>1
  <2> QED BY <1>2, <1>3, <1>4, <2>1, Zenon
<1>6. t = v
  BY <1>1, <1>2, <1>4, <1>5
<1> QED BY <1>3, <1>6 DEF t, u, v

\* No piece has a delimiter; the pieces, each with one after it, are the text, with
\* a delimiter at its end.
LEMMA SplitPieces ==
  ASSUME NEW E, NEW s \in Seq(E), NEW d \in E
  PROVE  LET p == T!splitStringOn(s, d)
         IN /\ p \in Seq(Seq(E))
            /\ \A i \in 1..Len(p) : ~Contains(p[i], d)
            /\ T!Ended(p, d) = IF s = <<>> \/ Last(s) = d THEN s ELSE Append(s, d)
<1> DEFINE k == Len(s)
           C == Seq(E)
<1>1. k \in Nat /\ \A i \in 1..k : s[i] \in E
  OBVIOUS
<1>2. PICK f : Lines(f, s, d, E)
  BY GetlinesSteps
<1>3. /\ f \in [0..k -> [item : C, out : Seq(C)]] /\ f[0] = [item |-> <<>>, out |-> <<>>]
      /\ T!Getlines(s, d) = f[k]
      /\ \A i \in 1..k : f[i] = IF s[i] = d THEN [item |-> <<>>, out |-> Append(f[i - 1].out, f[i - 1].item)]
                                ELSE [item |-> Append(f[i - 1].item, s[i]), out |-> f[i - 1].out]
  BY <1>2, Zenon DEF Lines
<1> DEFINE Free(x) == ~Contains(x, d)
           Good(b, i) == /\ \A j \in 1..Len(b.out) : Free(b.out[j])
                         /\ Free(b.item)
                         /\ T!Ended(b.out, d) \o b.item = SubSeq(s, 1, i)
                         /\ b.item = <<>> <=> i = 0 \/ s[i] = d
           U == {n \in Nat : n <= k => Good(f[n], n)}
<1>4. Free(<<>>)
  BY DEF Contains
<1>5. \A n \in Nat : n <= k => n \in 0..k /\ f[n].item \in C /\ f[n].out \in Seq(C)
  <2> SUFFICES ASSUME NEW n \in Nat, n <= k PROVE n \in 0..k /\ f[n].item \in C /\ f[n].out \in Seq(C)
    OBVIOUS
  <2>1. n \in 0..k
    BY <1>1
  <2>2. f[n] \in [item : C, out : Seq(C)]
    BY <1>3, <2>1
  <2> HIDE DEF C
  <2> QED BY <2>1, <2>2
<1>6. 0 \in U
  <2>1. f[0].item = <<>> /\ f[0].out = <<>>
    BY <1>3
  <2>2. T!Ended(<<>>, d) \o <<>> = SubSeq(s, 1, 0)
    <3>1. <<>> \o <<>> = <<>> /\ SubSeq(s, 1, 0) = <<>>
      OBVIOUS
    <3> QED BY <3>1, EndedNone
  <2>3. Len(<<>>) = 0 /\ 1..0 = {}
    OBVIOUS
  <2> HIDE DEF Free
  <2>4. Good(f[0], 0)
    BY <1>4, <2>1, <2>2, <2>3, Zenon
  <2> QED BY <2>4
<1>7. ASSUME NEW n \in Nat, n \in U PROVE n + 1 \in U
  <2> HIDE DEF Good
  <2> SUFFICES ASSUME n + 1 <= k PROVE Good(f[n + 1], n + 1)
    OBVIOUS
  <2> USE DEF Good
  <2>1. n + 1 \in 1..k /\ (n + 1) - 1 = n /\ n <= k /\ n + 1 # 0 /\ n \in 0..k
    BY <1>1
  <2>2. Good(f[n], n)
    BY <1>7, <2>1
  <2> DEFINE it == f[n].item
             ou == f[n].out
             c == s[n + 1]
             e == T!Ended(ou, d)
  <2>3. it \in C /\ ou \in Seq(C) /\ c \in E /\ e \in C
    <3>1. it \in C /\ ou \in Seq(C) /\ c \in E
      BY <1>1, <1>5, <2>1
    <3> QED BY <3>1, EndedAppend
  <2>4. f[n + 1] = IF c = d THEN [item |-> <<>>, out |-> Append(ou, it)]
                   ELSE [item |-> Append(it, c), out |-> ou]
    BY <1>3, <2>1
  <2>5. SubSeq(s, 1, n + 1) = Append(SubSeq(s, 1, n), c)
    <3>1. SubSeq(s, 1, n + 1) = Append(SubSeq(s, 1, (n + 1) - 1), s[n + 1])
      BY <2>1, PrefixGrows
    <3> QED BY <2>1, <3>1
  <2>6. (\A j \in 1..Len(ou) : Free(ou[j])) /\ Free(it) /\ e \o it = SubSeq(s, 1, n)
    BY <2>2
  <2>7. T!Ended(Append(ou, it), d) = e \o Append(it, d)
    BY <2>3, EndedAppend
  <2> HIDE DEF it, ou, c, e, Free, U
  <2>8. \A x \in E : e \o Append(it, x) = Append(e \o it, x)
    BY <2>3
  <2>9. CASE c = d
    <3>1. f[n + 1].item = <<>> /\ f[n + 1].out = Append(ou, it)
      BY <2>4, <2>9
    <3>2. ASSUME NEW j \in 1..Len(Append(ou, it)) PROVE Free(Append(ou, it)[j])
      <4> HIDE DEF C
      <4>1. /\ Len(ou) \in Nat /\ Len(Append(ou, it)) = Len(ou) + 1 /\ Append(ou, it)[Len(ou) + 1] = it
            /\ \A i \in 1..Len(ou) : Append(ou, it)[i] = ou[i]
        BY <2>3, AppendSeq
      <4>2. j \in 1..Len(ou) \/ j = Len(ou) + 1
        BY <4>1
      <4> QED BY <2>6, <4>1, <4>2, Zenon
    <3>3. T!Ended(Append(ou, it), d) \o <<>> = SubSeq(s, 1, n + 1)
      <4>1. e \o Append(it, d) \in C
        BY <2>3
      <4>2. (e \o Append(it, d)) \o <<>> = e \o Append(it, d)
        BY <4>1
      <4> QED BY <2>3, <2>5, <2>6, <2>7, <2>8, <2>9, <4>2, Zenon
    <3> QED BY <1>4, <2>9, <3>1, <3>2, <3>3, Zenon DEF c, Free
  <2>10. CASE c # d
    <3>1. f[n + 1].item = Append(it, c) /\ f[n + 1].out = ou
      BY <2>4, <2>10
    <3>2. Free(Append(it, c))
      BY <2>3, <2>6, <2>10, ContainsAppend DEF Free
    <3>3. e \o Append(it, c) = SubSeq(s, 1, n + 1)
      BY <2>3, <2>5, <2>6, <2>8, Zenon
    <3>4. Append(it, c) # <<>>
      <4>1. \A u \in Seq(E), y \in E : Append(u, y) # <<>>
        OBVIOUS
      <4> QED BY <2>3, <4>1
    <3> QED BY <2>1, <2>6, <2>10, <3>1, <3>2, <3>3, <3>4, Zenon DEF c, e
  <2> QED BY <2>9, <2>10
<1>8. Good(f[k], k)
  <2>1. \A n \in Nat : n \in U
    <3> HIDE DEF U
    <3> QED BY <1>6, <1>7, Upward
  <2>2. k <= k
    BY <1>1
  <2> HIDE DEF Good
  <2> QED BY <1>1, <2>1, <2>2
<1> DEFINE it == f[k].item
           ou == f[k].out
           e == T!Ended(ou, d)
           p == T!splitStringOn(s, d)
<1>9. it \in C /\ ou \in Seq(C) /\ e \in C
  <2>1. k <= k
    BY <1>1
  <2>2. it \in C /\ ou \in Seq(C)
    BY <1>1, <1>5, <2>1
  <2> QED BY <2>2, EndedAppend
<1>10. e \o it = s /\ (it = <<>> <=> s = <<>> \/ Last(s) = d)
  <2>1. SubSeq(s, 1, k) = s /\ (k = 0 <=> s = <<>>)
    OBVIOUS
  <2> QED BY <1>8, <2>1 DEF Last
<1>11. (\A j \in 1..Len(ou) : Free(ou[j])) /\ Free(it)
  BY <1>8
<1>12. p = IF it = <<>> THEN ou ELSE Append(ou, it)
  BY <1>3 DEF T!splitStringOn
<1>13. T!Ended(Append(ou, it), d) = e \o Append(it, d)
  BY <1>9, EndedAppend
<1> HIDE DEF it, ou, Free, U, Good
<1>14. e \o Append(it, d) = Append(e \o it, d) /\ e \o <<>> = e
  <2> HIDE DEF e
  <2> QED BY <1>9
<1>15. CASE it = <<>>
  <2>1. p = ou /\ e = s /\ (s = <<>> \/ Last(s) = d)
    BY <1>10, <1>12, <1>14, <1>15
  <2> HIDE DEF p
  <2> QED BY <1>9, <1>11, <2>1, Zenon DEF Free, p, e
<1>16. CASE it # <<>>
  <2>1. p = Append(ou, it) /\ T!Ended(p, d) = Append(s, d) /\ ~(s = <<>> \/ Last(s) = d)
    BY <1>10, <1>12, <1>13, <1>14, <1>16
  <2> HIDE DEF p, C
  <2>2. /\ p \in Seq(C) /\ Len(ou) \in Nat /\ Len(p) = Len(ou) + 1 /\ p[Len(ou) + 1] = it
        /\ \A i \in 1..Len(ou) : p[i] = ou[i]
    BY <1>9, <2>1, AppendSeq
  <2>3. ASSUME NEW j \in 1..Len(p) PROVE Free(p[j])
    <3>1. j \in 1..Len(ou) \/ j = Len(ou) + 1
      BY <2>2
    <3> QED BY <1>11, <2>2, <3>1, Zenon
  <2> QED BY <2>1, <2>2, <2>3, Zenon DEF Free, p, C
<1> QED BY <1>15, <1>16

(***************************************************************************)
(* cartesianProductQueue                                                    *)
(***************************************************************************)
LEMMA ProductIsPairs ==
  ASSUME NEW A, NEW B, NEW ks \in Seq(A), NEW ls \in Seq(B)
  PROVE  T!cartesianProductQueue(ks, ls) = T!Pairs(ks, ls)
<1> DEFINE p == Len(ks)
           q == Len(ls)
           E == A \X B
           row(i) == [j \in DOMAIN ls |-> <<ks[i], ls[j]>>]
           rows == [i \in DOMAIN ks |-> row(i)]
           pair(k) == <<ks[((k - 1) \div q) + 1], ls[((k - 1) % q) + 1]>>
           c == FlattenSeq(rows)
<1>1. /\ p \in Nat /\ q \in Nat /\ DOMAIN ks = 1..p /\ DOMAIN ls = 1..q
      /\ (\A i \in 1..p : ks[i] \in A) /\ \A j \in 1..q : ls[j] \in B
  OBVIOUS
<1>2. T!cartesianProductQueue(ks, ls) = c
  BY SameOperators DEF T!cartesianProductQueue
<1>3. T!Pairs(ks, ls) = [k \in 1..(p * q) |-> pair(k)]
  BY DEF T!Pairs
<1> HIDE DEF p, q
<1>4. ASSUME NEW i \in 1..p
      PROVE  row(i) \in Seq(E) /\ Len(row(i)) = q /\ \A j \in 1..q : row(i)[j] = <<ks[i], ls[j]>>
  <2>1. \A j \in 1..q : <<ks[i], ls[j]>> \in E
    BY <1>1
  <2> HIDE DEF E
  <2> QED BY <1>1, <2>1
<1> HIDE DEF row, E
<1>5. rows \in Seq(Seq(E)) /\ Len(rows) = p /\ \A i \in 1..p : rows[i] = row(i)
  BY <1>1, <1>4
<1> HIDE DEF rows
<1>6. /\ c \in Seq(E) /\ Len(c) = q * p
      /\ \A i \in 1..p : \A j \in 1..q : c[q * (i - 1) + j] = rows[i][j]
  <2>1. \A i \in 1..Len(rows) : Len(rows[i]) = q
    BY <1>4, <1>5
  <2>2. /\ c \in Seq(E) /\ Len(c) = q * Len(rows)
        /\ \A i \in 1..Len(rows) : \A j \in 1..q : c[q * (i - 1) + j] = rows[i][j]
    <3>1. q \in Nat
      BY <1>1
    <3>2. InARow(FlattenSeq(rows), rows, q, E)
      BY <1>5, <2>1, <3>1, FlattenRows, Zenon
    <3> QED BY <3>2, Zenon DEF InARow
  <2> QED BY <1>5, <2>2
<1>7. q * p \in Nat /\ p * q = q * p
  BY <1>1
<1> HIDE DEF c
<1>8. ASSUME NEW k \in 1..(q * p) PROVE c[k] = pair(k)
  <2> DEFINE x == k - 1
             e == x \div q
             r == x % q
  <2>1. q # 0 /\ x \in Nat /\ k = x + 1 /\ x < q * p
    <3>1. CASE q = 0
      <4>1. q * p = 0
        BY <1>1, <3>1
      <4> QED BY <4>1
    <3> QED BY <1>7, <3>1
  <2> HIDE DEF x
  <2>2. e \in Nat /\ r \in 0..(q - 1) /\ x = q * e + r
    BY <1>1, <2>1, Division
  <2> HIDE DEF e, r
  <2>3. e < p
    <3>1. q * e \in Nat
      BY <1>1, <2>2
    <3>2. q * e < q * p
      BY <1>1, <1>7, <2>1, <2>2, <3>1
    <3> QED BY <1>1, <2>2, <3>2, Quotient
  <2>4. e + 1 \in 1..p /\ r + 1 \in 1..q /\ (e + 1) - 1 = e
    BY <1>1, <2>2, <2>3
  <2>5. k = q * ((e + 1) - 1) + (r + 1)
    <3>1. q * e \in Nat
      BY <1>1, <2>2
    <3> QED BY <1>1, <2>1, <2>2, <2>4, <3>1
  <2>6. c[k] = rows[e + 1][r + 1]
    BY <1>6, <2>4, <2>5
  <2>7. rows[e + 1] = row(e + 1) /\ row(e + 1)[r + 1] = <<ks[e + 1], ls[r + 1]>>
    BY <1>4, <1>5, <2>4
  <2>8. pair(k) = <<ks[e + 1], ls[r + 1]>>
    BY DEF e, r, x
  <2> QED BY <2>6, <2>7, <2>8, Zenon
<1> HIDE DEF pair
<1>9. c = [k \in 1..(q * p) |-> pair(k)]
  BY <1>6, <1>7, <1>8
<1> QED BY <1>2, <1>3, <1>7, <1>9

(***************************************************************************)
(* toChunks                                                                 *)
(***************************************************************************)
\* f is what the loop of toChunks has after each element.
Fills(f, s, n, E) ==
  /\ f \in [0..Len(s) -> [cur : Seq(E), out : Seq(Seq(E))]]
  /\ f[0] = [cur |-> <<>>, out |-> <<>>] /\ T!Chunked(s, n) = f[Len(s)]
  /\ \A i \in 1..Len(s) :
       f[i] = IF Len(Append(f[i - 1].cur, s[i])) >= n
              THEN [cur |-> <<>>, out |-> Append(f[i - 1].out, Append(f[i - 1].cur, s[i]))]
              ELSE [cur |-> Append(f[i - 1].cur, s[i]), out |-> f[i - 1].out]

LEMMA ChunkedSteps ==
  ASSUME NEW E, NEW s \in Seq(E), NEW n
  PROVE  \E f : Fills(f, s, n, E)
<1> DEFINE k == Len(s)
           D == [cur : Seq(E), out : Seq(Seq(E))]
           base == [cur |-> <<>>, out |-> <<>>]
           Go(b, c) == IF Len(Append(b.cur, c)) >= n
                       THEN [cur |-> <<>>, out |-> Append(b.out, Append(b.cur, c))]
                       ELSE [cur |-> Append(b.cur, c), out |-> b.out]
           Val(h, i) == IF i = 0 THEN base ELSE Go(h[i - 1], s[i])
           G == CHOOSE h : h = [i \in 0..k |-> Val(h, i)]
           step == [i \in 1..k |-> [b \in D |-> Go(b, s[i])]]
<1>1. k \in Nat /\ \A i \in 1..k : s[i] \in E
  OBVIOUS
<1>2. T!Chunked(s, n) = G[k]
  BY DEF T!Chunked
<1>3. base \in D
  <2>1. <<>> \in Seq(E) /\ <<>> \in Seq(Seq(E))
    OBVIOUS
  <2> QED BY <2>1, Zenon
<1>4. ASSUME NEW b \in D, NEW c \in E PROVE Go(b, c) \in D
  <2> DEFINE Q == Seq(E)
             a == Append(b.cur, c)
  <2>1. a \in Q /\ b.out \in Seq(Q) /\ <<>> \in Q
    OBVIOUS
  <2> HIDE DEF Q, a
  <2>2. Append(b.out, a) \in Seq(Q)
    BY <2>1
  <2>3. [cur |-> <<>>, out |-> Append(b.out, a)] \in [cur : Q, out : Seq(Q)]
    BY <2>1, <2>2
  <2>4. [cur |-> a, out |-> b.out] \in [cur : Q, out : Seq(Q)]
    BY <2>1
  <2>5. Go(b, c) \in [cur : Q, out : Seq(Q)]
    BY <2>3, <2>4, Zenon DEF a
  <2> QED BY <2>5 DEF Q
<1> HIDE DEF D, k, base, Go
<1>5. step \in [1..k -> [D -> D]]
  BY <1>1, <1>4
<1>6. PICK f \in [0..k -> D] : f[0] = base /\ \A i \in 1..k : f[i] = step[i][f[i - 1]]
  <2> HIDE DEF step
  <2>1. \E f : Computes(f, D, base, k, step)
    BY <1>1, <1>3, <1>5, Recursion
  <2> QED BY <2>1, Zenon DEF Computes
<1>7. \A i \in 1..k : i \in 0..k /\ i - 1 \in 0..k /\ i # 0
  BY <1>1
<1>8. \A i \in 0..k : i = 0 \/ i \in 1..k
  BY <1>1
<1>9. ASSUME NEW i \in 1..k PROVE f[i] = Go(f[i - 1], s[i])
  <2>1. f[i - 1] \in D
    BY <1>6, <1>7
  <2>2. step[i][f[i - 1]] = Go(f[i - 1], s[i])
    BY <2>1
  <2> QED BY <1>6, <2>2
<1> HIDE DEF step
<1>10. f = [i \in 0..k |-> Val(f, i)]
  <2>1. ASSUME NEW i \in 0..k PROVE f[i] = Val(f, i)
    BY <1>6, <1>7, <1>8, <1>9, Zenon
  <2>2. f = [i \in 0..k |-> f[i]]
    BY <1>6
  <2> HIDE DEF Val
  <2> QED BY <2>1, <2>2
<1>11. G = [i \in 0..k |-> Val(G, i)]
  <2> HIDE DEF Val
  <2> QED BY <1>10
<1> HIDE DEF G
<1>12. G[0] = base /\ \A i \in 1..k : G[i] = Go(G[i - 1], s[i])
  <2>1. \A i \in 0..k : G[i] = Val(G, i)
    <3> HIDE DEF Val
    <3> QED BY <1>11
  <2>2. 0 \in 0..k
    BY <1>1
  <2> QED BY <1>7, <2>1, <2>2, Zenon
<1>13. \A m \in Nat : m <= k => G[m] = f[m]
  <2> DEFINE U == {m \in Nat : m <= k => G[m] = f[m]}
  <2>1. 0 \in U
    BY <1>6, <1>12
  <2>2. ASSUME NEW m \in Nat, m \in U PROVE m + 1 \in U
    <3> SUFFICES ASSUME m + 1 <= k PROVE G[m + 1] = f[m + 1]
      OBVIOUS
    <3>1. m + 1 \in 1..k /\ (m + 1) - 1 = m /\ m <= k
      BY <1>1
    <3>2. G[m] = f[m]
      BY <2>2, <3>1
    <3> QED BY <1>9, <1>12, <3>1, <3>2
  <2>3. \A m \in Nat : m \in U
    <3> HIDE DEF U
    <3> QED BY <2>1, <2>2, Upward
  <2> QED BY <2>3
<1>14. k <= k
  BY <1>1
<1>15. T!Chunked(s, n) = f[k]
  BY <1>1, <1>2, <1>13, <1>14
<1>16. Fills(f, s, n, E)
  BY <1>6, <1>9, <1>15, Zenon DEF Fills, k, D, base, Go
<1> QED BY <1>16

\* One element more, from a on.
LEMMA PieceGrows ==
  ASSUME NEW E, NEW s \in Seq(E), NEW a \in Nat \ {0}, NEW i \in 1..Len(s), a <= i
  PROVE  /\ SubSeq(s, a, i) = Append(SubSeq(s, a, i - 1), s[i])
         /\ SubSeq(s, a, i - 1) \in Seq(E) /\ Len(SubSeq(s, a, i - 1)) = i - a
<1> DEFINE t == SubSeq(s, a, i)
           u == SubSeq(s, a, i - 1)
           v == Append(u, s[i])
<1>1. Len(s) \in Nat /\ i \in Nat /\ i - a \in Nat /\ s[i] \in E /\ i = a + (i - a)
  OBVIOUS
<1>2. t \in Seq(E) /\ Len(t) = (i - a) + 1 /\ \A j \in 1..((i - a) + 1) : t[j] = s[a + j - 1]
  OBVIOUS
<1>3. u \in Seq(E) /\ Len(u) = i - a /\ \A j \in 1..(i - a) : u[j] = s[a + j - 1]
  OBVIOUS
<1> HIDE DEF t, u
<1>4. /\ v \in Seq(E) /\ Len(v) = (i - a) + 1 /\ v[(i - a) + 1] = s[i]
      /\ \A j \in 1..(i - a) : v[j] = u[j]
  BY <1>1, <1>3
<1> HIDE DEF v
<1>5. \A j \in 1..((i - a) + 1) : t[j] = v[j]
  <2>1. \A j \in 1..((i - a) + 1) : j \in 1..(i - a) \/ j = (i - a) + 1
    BY <1>1
  <2>2. a + ((i - a) + 1) - 1 = i /\ (i - a) + 1 \in 1..((i - a) + 1)
    BY <1>1
  <2>3. t[(i - a) + 1] = s[i]
    BY <1>2, <2>2
  <2> QED BY <1>2, <1>3, <1>4, <2>1, <2>3, Zenon
<1>6. t = v
  BY <1>1, <1>2, <1>4, <1>5
<1> QED BY <1>3, <1>6 DEF t, u, v

\* b is what toChunks has after q full chunks of s and r elements of the next one.
Filled(b, s, n, q, r) ==
  /\ Len(b.out) = q
  /\ \A j \in 1..q : b.out[j] = SubSeq(s, n * (j - 1) + 1, n * j)
  /\ b.cur = SubSeq(s, n * q + 1, n * q + r)

LEMMA FilledOn ==
  ASSUME NEW E, NEW s \in Seq(E), NEW n \in Nat \ {0}, NEW q \in Nat, NEW r \in 0..(n - 1),
         n * q + r + 1 <= Len(s),
         NEW b \in [cur : Seq(E), out : Seq(Seq(E))], Filled(b, s, n, q, r),
         NEW a, a = Append(b.cur, s[n * q + r + 1])
  PROVE  IF Len(a) >= n THEN Filled([cur |-> <<>>, out |-> Append(b.out, a)], s, n, q + 1, 0)
         ELSE r + 1 \in 0..(n - 1) /\ Filled([cur |-> a, out |-> b.out], s, n, q, r + 1)
<1> DEFINE i == n * q + r + 1
           e == n * q
<1>1. e \in Nat /\ n * (q + 1) = e + n
  OBVIOUS
<1> HIDE DEF e
<1>2. Len(s) \in Nat /\ i = e + r + 1 /\ i \in 1..Len(s) /\ e + 1 \in Nat \ {0} /\ e + 1 <= i /\ i - 1 = e + r
  <2>1. Len(s) \in Nat /\ r \in Nat /\ e + r + 1 <= Len(s) /\ i = e + r + 1
    BY DEF e
  <2> HIDE DEF i
  <2> QED BY <1>1, <2>1
<1> HIDE DEF i
<1>3. /\ SubSeq(s, e + 1, i) = Append(SubSeq(s, e + 1, i - 1), s[i])
      /\ Len(SubSeq(s, e + 1, i - 1)) = i - (e + 1) /\ SubSeq(s, e + 1, i - 1) \in Seq(E)
  <2>1. ASSUME NEW x \in Nat \ {0}, NEW y \in 1..Len(s), x <= y
        PROVE  /\ SubSeq(s, x, y) = Append(SubSeq(s, x, y - 1), s[y])
               /\ Len(SubSeq(s, x, y - 1)) = y - x /\ SubSeq(s, x, y - 1) \in Seq(E)
    BY <2>1, PieceGrows
  <2> QED BY <1>2, <2>1, Zenon
<1>4. b.cur = SubSeq(s, e + 1, i - 1)
  BY <1>2, Zenon DEF Filled, e
<1>5. a = SubSeq(s, e + 1, i)
  BY <1>3, <1>4 DEF i
<1>6. a \in Seq(E) /\ Len(a) = r + 1
  <2>1. s[i] \in E
    BY <1>2
  <2>2. Len(b.cur) = r /\ b.cur \in Seq(E)
    BY <1>1, <1>2, <1>3, <1>4
  <2> QED BY <2>1, <2>2 DEF i
<1>7. (Len(b.out) = q) /\ \A j \in 1..q : b.out[j] = SubSeq(s, n * (j - 1) + 1, n * j)
  BY Zenon DEF Filled
<1>8. CASE Len(a) >= n
  <2> DEFINE o == Append(b.out, a)
             C == Seq(E)
  <2>1. r + 1 = n /\ i = e + n
    BY <1>1, <1>2, <1>6, <1>8
  <2>2. b.out \in Seq(C) /\ a \in C
    BY <1>6
  <2> HIDE DEF C
  <2>3. Len(o) = q + 1 /\ o[q + 1] = a /\ \A j \in 1..q : o[j] = b.out[j]
    BY <1>7, <2>2
  <2>4. ASSUME NEW j \in 1..(q + 1) PROVE o[j] = SubSeq(s, n * (j - 1) + 1, n * j)
    <3>1. CASE j \in 1..q
      BY <1>7, <2>3, <3>1
    <3>2. CASE j = q + 1
      <4>1. n * (j - 1) = e /\ n * j = i
        BY <1>1, <2>1, <3>2 DEF e
      <4> QED BY <1>5, <2>3, <3>2, <4>1
    <3>3. j \in 1..q \/ j = q + 1
      OBVIOUS
    <3> QED BY <3>1, <3>2, <3>3, Zenon
  <2>5. <<>> = SubSeq(s, n * (q + 1) + 1, n * (q + 1) + 0)
    <3> DEFINE g == n * (q + 1)
    <3>1. g \in Nat
      BY <1>1
    <3> HIDE DEF g
    <3>2. <<>> = SubSeq(s, g + 1, g + 0)
      BY <3>1
    <3> QED BY <3>2 DEF g
  <2> DEFINE v == [cur |-> <<>>, out |-> o]
  <2>6. v.cur = <<>> /\ v.out = o
    OBVIOUS
  <2> HIDE DEF o, v
  <2>7. Filled(v, s, n, q + 1, 0)
    BY <2>3, <2>4, <2>5, <2>6, Zenon DEF Filled
  <2> QED BY <1>8, <2>7 DEF v, o
<1>9. CASE ~(Len(a) >= n)
  <2> DEFINE v == [cur |-> a, out |-> b.out]
  <2>1. r + 1 \in 0..(n - 1)
    BY <1>6, <1>9
  <2>2. v.cur = a /\ v.out = b.out
    OBVIOUS
  <2>3. i = e + (r + 1)
    BY <1>1, <1>2
  <2> HIDE DEF v
  <2>4. Filled(v, s, n, q, r + 1)
    BY <1>5, <1>7, <2>2, <2>3, Zenon DEF Filled, e
  <2> QED BY <1>9, <2>1, <2>4 DEF v
<1> QED BY <1>8, <1>9

LEMMA ChunksAreFilled ==
  ASSUME NEW E, NEW s \in Seq(E), NEW n \in Nat \ {0}
  PROVE  \E q \in Nat, r \in 0..(n - 1) :
           /\ Len(s) = n * q + r /\ Filled(T!Chunked(s, n), s, n, q, r)
           /\ T!Chunked(s, n) \in [cur : Seq(E), out : Seq(Seq(E))]
<1> DEFINE k == Len(s)
           D == [cur : Seq(E), out : Seq(Seq(E))]
<1>1. k \in Nat
  OBVIOUS
<1>2. PICK f : Fills(f, s, n, E)
  BY ChunkedSteps
<1>3. /\ f \in [0..k -> D] /\ f[0] = [cur |-> <<>>, out |-> <<>>]
      /\ T!Chunked(s, n) = f[k]
      /\ \A i \in 1..k : f[i] = IF Len(Append(f[i - 1].cur, s[i])) >= n
              THEN [cur |-> <<>>, out |-> Append(f[i - 1].out, Append(f[i - 1].cur, s[i]))]
              ELSE [cur |-> Append(f[i - 1].cur, s[i]), out |-> f[i - 1].out]
  BY <1>2, Zenon DEF Fills
<1> DEFINE Good(i) == \E q \in Nat, r \in 0..(n - 1) : i = n * q + r /\ Filled(f[i], s, n, q, r)
           U == {i \in Nat : i <= k => Good(i)}
<1>4. 0 \in U
  <2>1. f[0].cur = <<>> /\ f[0].out = <<>> /\ Len(<<>>) = 0 /\ 1..0 = {}
    BY <1>3
  <2>2. <<>> = SubSeq(s, n * 0 + 1, n * 0 + 0)
    <3>1. <<>> = SubSeq(s, 0 + 1, 0)
      OBVIOUS
    <3>2. n * 0 = 0 /\ 0 + 0 = 0
      OBVIOUS
    <3> QED BY <3>1, <3>2, Zenon
  <2>3. Filled(f[0], s, n, 0, 0)
    BY <2>1, <2>2, Zenon DEF Filled
  <2>4. 0 \in Nat /\ 0 \in 0..(n - 1) /\ 0 = n * 0 + 0
    OBVIOUS
  <2>5. Good(0)
    BY <2>3, <2>4, Zenon
  <2> HIDE DEF Good
  <2> QED BY <2>5
<1>5. ASSUME NEW i \in Nat, i \in U PROVE i + 1 \in U
  <2> HIDE DEF Good
  <2> SUFFICES ASSUME i + 1 <= k PROVE Good(i + 1)
    OBVIOUS
  <2>1. i <= k /\ i \in 0..k /\ i + 1 \in 1..k /\ (i + 1) - 1 = i
    BY <1>1
  <2>2. Good(i)
    BY <1>5, <2>1
  <2> USE DEF Good
  <2>3. PICK q \in Nat, r \in 0..(n - 1) : i = n * q + r /\ Filled(f[i], s, n, q, r)
    BY <2>2
  <2> DEFINE b == f[i]
             a == Append(b.cur, s[n * q + r + 1])
  <2>4. b \in D /\ i + 1 = n * q + r + 1 /\ n * q + r + 1 <= k
    BY <1>3, <2>1, <2>3
  <2>5. IF Len(a) >= n THEN Filled([cur |-> <<>>, out |-> Append(b.out, a)], s, n, q + 1, 0)
        ELSE r + 1 \in 0..(n - 1) /\ Filled([cur |-> a, out |-> b.out], s, n, q, r + 1)
    BY <2>3, <2>4, FilledOn, Zenon
  <2>6. f[i + 1] = IF Len(a) >= n THEN [cur |-> <<>>, out |-> Append(b.out, a)]
                   ELSE [cur |-> a, out |-> b.out]
    BY <1>3, <2>1, <2>4, Zenon
  <2> HIDE DEF a, b
  <2>7. CASE Len(a) >= n
    <3>1. Filled(f[i + 1], s, n, q + 1, 0)
      BY <2>5, <2>6, <2>7, Zenon
    <3>2. r + 1 = n \/ r + 1 \in 0..(n - 1)
      OBVIOUS
    <3>3. CASE r + 1 = n
      <4>1. n * (q + 1) = n * q + n
        OBVIOUS
      <4>2. i + 1 = n * (q + 1) + 0 /\ q + 1 \in Nat /\ 0 \in 0..(n - 1)
        BY <2>3, <3>3, <4>1
      <4> QED BY <3>1, <4>2, Zenon
    <3>4. CASE r + 1 # n
      <4>1. Len(a) = r + 1
        <5>1. n * q \in Nat
          OBVIOUS
        <5>2. b.cur \in Seq(E) /\ s[n * q + r + 1] \in E
          BY <1>1, <2>4, <5>1
        <5>3. b.cur = SubSeq(s, n * q + 1, n * q + r)
          BY <2>3, Zenon DEF Filled, b
        <5>4. Len(SubSeq(s, n * q + 1, n * q + r)) = r
          <6> DEFINE e == n * q
          <6>1. e \in Nat /\ e + r <= Len(s)
            BY <1>1, <2>4, <5>1
          <6> HIDE DEF e
          <6>2. Len(SubSeq(s, e + 1, e + r)) = r
            BY <6>1
          <6> QED BY <6>2 DEF e
        <5> QED BY <5>2, <5>3, <5>4 DEF a
      <4> QED BY <2>7, <3>2, <3>4, <4>1
    <3> QED BY <3>3, <3>4
  <2>8. CASE ~(Len(a) >= n)
    <3>1. Filled(f[i + 1], s, n, q, r + 1) /\ r + 1 \in 0..(n - 1)
      BY <2>5, <2>6, <2>8, Zenon
    <3>2. i + 1 = n * q + (r + 1)
      <4>1. n * q \in Nat
        OBVIOUS
      <4> QED BY <2>3, <4>1
    <3> QED BY <3>1, <3>2, Zenon
  <2> QED BY <2>7, <2>8
<1>6. Good(k)
  <2>1. \A i \in Nat : i \in U
    <3> HIDE DEF U
    <3> QED BY <1>4, <1>5, Upward
  <2>2. k <= k
    BY <1>1
  <2> HIDE DEF Good
  <2> QED BY <1>1, <2>1, <2>2
<1>7. f[k] \in D
  <2>1. k \in 0..k
    BY <1>1
  <2> QED BY <1>3, <2>1
<1> QED BY <1>3, <1>6, <1>7, Zenon

LEMMA LoopIsChunks ==
  ASSUME NEW E, NEW s \in Seq(E), NEW n \in Nat \ {0}
  PROVE  T!toChunks(s, n) = T!ToChunks(s, n) /\ T!toChunks(s, n) \in Seq(Seq(E))
<1> DEFINE b == T!Chunked(s, n)
           k == Len(s)
           C == Seq(E)
           m == (k + n - 1) \div n
           piece(i) == SubSeq(s, (i - 1) * n + 1, T!LeastOf(i * n, k))
           t == T!toChunks(s, n)
<1>1. PICK q \in Nat, r \in 0..(n - 1) :
        k = n * q + r /\ Filled(b, s, n, q, r) /\ b \in [cur : Seq(E), out : Seq(Seq(E))]
  BY ChunksAreFilled, Zenon
<1>2. t = IF b.cur = <<>> THEN b.out ELSE Append(b.out, b.cur)
  BY DEF T!toChunks
<1>3. T!ToChunks(s, n) = [i \in 1..m |-> piece(i)]
  BY DEF T!ToChunks
<1> DEFINE e == n * q
<1>4. e \in Nat /\ n * (q + 1) = e + n /\ k = e + r /\ k \in Nat /\ k = Len(s)
  BY <1>1
<1>5. /\ Len(b.out) = q /\ b.cur = SubSeq(s, e + 1, e + r)
      /\ \A j \in 1..q : b.out[j] = SubSeq(s, n * (j - 1) + 1, n * j)
  BY <1>1, Zenon DEF Filled
<1>6. b.cur \in C /\ b.out \in Seq(C)
  BY <1>1
<1> HIDE DEF e, k, b
<1>7. Len(b.cur) = r /\ (b.cur = <<>> <=> r = 0)
  <2>1. Len(SubSeq(s, e + 1, e + r)) = r
    BY <1>4
  <2>2. \A x \in C : x = <<>> <=> Len(x) = 0
    OBVIOUS
  <2> HIDE DEF C
  <2> QED BY <1>5, <1>6, <2>1, <2>2, Zenon
<1>8. ASSUME NEW j \in 1..q PROVE b.out[j] = piece(j)
  <2> DEFINE d == q - j
  <2>1. d \in Nat /\ q = j + d /\ j \in Nat /\ j - 1 \in Nat
    OBVIOUS
  <2> HIDE DEF d
  <2>2. n * q = n * j + n * d /\ n * d \in Nat /\ n * j \in Nat
    BY <2>1
  <2>3. n * j <= k /\ j * n = n * j /\ (j - 1) * n = n * (j - 1)
    BY <1>4, <2>1, <2>2 DEF e
  <2>4. T!LeastOf(j * n, k) = n * j
    <3>1. n * j \in Nat
      BY <2>2
    <3> HIDE DEF k
    <3>2. ~(n * j < k) => n * j = k
      BY <1>4, <2>3, <3>1
    <3> QED BY <2>3, <3>2, Zenon DEF T!LeastOf
  <2> QED BY <1>5, <2>3, <2>4, Zenon
<1>9. CASE r = 0
  <2>1. m = q
    <3>1. k + n - 1 = n * q + (n - 1) /\ n - 1 \in 0..(n - 1)
      BY <1>4, <1>9 DEF e
    <3>2. (n * q + (n - 1)) \div n = q
      BY <3>1, DivisionIs
    <3> QED BY <3>1, <3>2, Zenon
  <2>2. t = b.out
    BY <1>2, <1>7, <1>9
  <2> HIDE DEF m, piece, t, C
  <2>3. b.out = [i \in 1..q |-> piece(i)]
    BY <1>5, <1>6, <1>8
  <2> QED BY <1>3, <1>6, <2>1, <2>2, <2>3, Zenon DEF C, t
<1>10. CASE r # 0
  <2>1. m = q + 1
    <3>1. k + n - 1 = n * (q + 1) + (r - 1) /\ r - 1 \in 0..(n - 1) /\ q + 1 \in Nat
      BY <1>4, <1>10 DEF e
    <3>2. (n * (q + 1) + (r - 1)) \div n = q + 1
      BY <3>1, DivisionIs
    <3> QED BY <3>1, <3>2, Zenon
  <2>2. t = Append(b.out, b.cur)
    BY <1>2, <1>7, <1>10
  <2>3. b.cur = piece(q + 1)
    <3>1. ((q + 1) - 1) * n = e /\ (q + 1) * n = e + n /\ ~(e + n < k)
      BY <1>4 DEF e
    <3>2. T!LeastOf((q + 1) * n, k) = k
      BY <3>1, Zenon DEF T!LeastOf
    <3> QED BY <1>4, <1>5, <3>1, <3>2
  <2> HIDE DEF m, piece, t, C
  <2>4. t \in Seq(C) /\ Len(t) = q + 1 /\ t[q + 1] = b.cur /\ \A j \in 1..q : t[j] = b.out[j]
    <3>1. ASSUME NEW u \in Seq(C), NEW x \in C
          PROVE  /\ Append(u, x) \in Seq(C) /\ Len(Append(u, x)) = Len(u) + 1
                 /\ Append(u, x)[Len(u) + 1] = x /\ \A j \in 1..Len(u) : Append(u, x)[j] = u[j]
      BY AppendSeq
    <3> QED BY <1>5, <1>6, <2>2, <3>1, Zenon
  <2>5. \A i \in 1..(q + 1) : i \in 1..q \/ i = q + 1
    OBVIOUS
  <2>6. \A i \in 1..(q + 1) : t[i] = piece(i)
    BY <1>8, <2>3, <2>4, <2>5, Zenon
  <2>7. t = [i \in 1..(q + 1) |-> piece(i)]
    BY <2>4, <2>6
  <2> QED BY <1>3, <2>1, <2>4, <2>7, Zenon DEF C, t
<1> QED BY <1>9, <1>10

(***************************************************************************)
(* appendBy and splitStringOn.  There is only one way to write a text as    *)
(* words without the delimiter, each with one after it: two such ways have  *)
(* the same last word, since one of the last words would have a delimiter   *)
(* in it were it longer than the other.                                     *)
(***************************************************************************)
Free(x, d) == ~Contains(x, d)

\* Words that each end in a delimiter.
LEMMA EndedEnd ==
  ASSUME NEW E, NEW words \in Seq(Seq(E)), NEW d \in E
  PROVE  T!Ended(words, d) \in Seq(E) /\ (T!Ended(words, d) = <<>> \/ Last(T!Ended(words, d)) = d)
<1> DEFINE C == Seq(E)
<1>0. <<>> \in C
  OBVIOUS
<1>1. T!Ended(words, d) \in C
  BY <1>0, EndedAppend
<1>2. CASE Len(words) = 0
  <2>1. words = <<>>
    BY <1>2
  <2> QED BY <1>1, <2>1, EndedNone
<1>3. CASE Len(words) # 0
  <2>1. words \in Seq(C)
    OBVIOUS
  <2> HIDE DEF C
  <2>2. Front(words) \in Seq(C) /\ Last(words) \in C /\ words = Append(Front(words), Last(words))
    BY <1>3, <2>1, LastApart
  <2> USE DEF C
  <2> DEFINE v == Front(words)
             x == Last(words)
             e == T!Ended(v, d)
  <2> HIDE DEF v, x
  <2>3. v \in Seq(C) /\ x \in C /\ words = Append(v, x)
    BY <2>2 DEF v, x
  <2>4. e \in C /\ T!Ended(words, d) = e \o Append(x, d)
    BY <2>3, EndedAppend
  <2> HIDE DEF e
  <2>5. ASSUME NEW p \in Seq(E), NEW y \in Seq(E) PROVE Last(p \o Append(y, d)) = d
    BY DEF Last
  <2> QED BY <1>1, <2>3, <2>4, <2>5
<1> QED BY <1>1, <1>2, <1>3

\* Of two such texts that are the same, with a word after each, the words are the same.
LEMMA LastUnique ==
  ASSUME NEW E, NEW d \in E, NEW e \in Seq(E), NEW g \in Seq(E), NEW x \in Seq(E), NEW y \in Seq(E),
         g = <<>> \/ Last(g) = d, Free(y, d),
         e \o Append(y, d) = g \o Append(x, d)
  PROVE  Len(g) <= Len(e)
<1>0. ASSUME NEW u \in Seq(E), NEW v \in Seq(E)
      PROVE  /\ Len(u \o Append(v, d)) = Len(u) + Len(v) + 1
             /\ \A i \in 1..Len(u) : (u \o Append(v, d))[i] = u[i]
             /\ \A i \in 1..Len(v) : (u \o Append(v, d))[Len(u) + i] = v[i]
  BY AfterConcat
<1> SUFFICES ASSUME Len(e) < Len(g) PROVE FALSE
  OBVIOUS
<1> DEFINE r == e \o Append(y, d)
           n == Len(g)
<1>1. Len(e) \in Nat /\ n \in Nat /\ Len(x) \in Nat /\ Len(y) \in Nat /\ n # 0
  OBVIOUS
<1>2. g[n] = d
  BY <1>1 DEF Last
<1>3. Len(r) = Len(e) + Len(y) + 1 /\ \A i \in 1..Len(y) : r[Len(e) + i] = y[i]
  BY <1>0, Zenon
<1>4. Len(r) = n + Len(x) + 1 /\ r[n] = g[n]
  <2>1. n \in 1..Len(g)
    BY <1>1
  <2> HIDE DEF n
  <2>2. Len(g \o Append(x, d)) = Len(g) + Len(x) + 1 /\ (g \o Append(x, d))[n] = g[n]
    BY <1>0, <2>1, Zenon
  <2> QED BY <2>2, Zenon DEF n
<1> DEFINE j == n - Len(e)
<1> HIDE DEF r, n
<1>5. j \in 1..Len(y) /\ Len(e) + j = n
  BY <1>1, <1>3, <1>4 DEF n
<1>6. y[j] = d
  BY <1>2, <1>3, <1>4, <1>5
<1> QED BY <1>5, <1>6, Zenon DEF Free, Contains

LEMMA WordsUnique ==
  ASSUME NEW E, NEW d \in E, NEW w \in Seq(Seq(E)), \A i \in 1..Len(w) : Free(w[i], d)
  PROVE  \A p \in Seq(Seq(E)) :
           (\A i \in 1..Len(p) : Free(p[i], d)) /\ T!Ended(p, d) = T!Ended(w, d) => p = w
<1> DEFINE C == Seq(E)
           Frees(z) == \A i \in 1..Len(z) : Free(z[i], d)
           U == {z \in Seq(C) : Frees(z) => \A p \in Seq(C) : Frees(p) /\ T!Ended(p, d) = T!Ended(z, d) => p = z}
<1>1. ASSUME NEW v \in Seq(C), NEW x \in C
      PROVE  /\ Append(v, x) \in Seq(C) /\ T!Ended(v, d) \in C
             /\ T!Ended(Append(v, x), d) = T!Ended(v, d) \o Append(x, d)
             /\ T!Ended(v, d) = <<>> \/ Last(T!Ended(v, d)) = d
             /\ T!Ended(Append(v, x), d) # <<>>
             /\ Frees(Append(v, x)) <=> Frees(v) /\ Free(x, d)
  <2>1. T!Ended(v, d) \in C /\ T!Ended(Append(v, x), d) = T!Ended(v, d) \o Append(x, d)
    BY EndedAppend
  <2>2. T!Ended(v, d) = <<>> \/ Last(T!Ended(v, d)) = d
    BY EndedEnd
  <2>3. \A a \in C : a \o Append(x, d) # <<>>
    OBVIOUS
  <2> HIDE DEF C
  <2>4. /\ Append(v, x) \in Seq(C) /\ Len(Append(v, x)) = Len(v) + 1 /\ Append(v, x)[Len(v) + 1] = x
        /\ \A i \in 1..Len(v) : Append(v, x)[i] = v[i]
    BY AppendSeq
  <2>5. Len(v) \in Nat
    OBVIOUS
  <2>6. \A i \in 1..(Len(v) + 1) : i \in 1..Len(v) \/ i = Len(v) + 1
    BY <2>5
  <2>7. Len(v) + 1 \in 1..(Len(v) + 1) /\ \A i \in 1..Len(v) : i \in 1..(Len(v) + 1)
    BY <2>5
  <2>8. Frees(Append(v, x)) <=> Frees(v) /\ Free(x, d)
    BY <2>4, <2>6, <2>7, Zenon
  <2> HIDE DEF Frees
  <2> QED BY <2>1, <2>2, <2>3, <2>4, <2>8, Zenon
<1>2. ASSUME NEW p \in Seq(C), p # <<>>
      PROVE  \E v \in Seq(C), x \in C : p = Append(v, x)
  <2> HIDE DEF C
  <2>1. Len(p) # 0
    BY <1>2
  <2> QED BY <2>1, LastApart, Zenon
<1> HIDE DEF C, Frees
<1>3. <<>> \in U
  <2>1. \A p \in Seq(C) : T!Ended(p, d) = T!Ended(<<>>, d) => p = <<>>
    BY <1>1, <1>2, EndedNone, Zenon
  <2>2. <<>> \in Seq(C)
    OBVIOUS
  <2> QED BY <2>1, <2>2
<1>4. ASSUME NEW v \in Seq(C), NEW x \in C, v \in U PROVE Append(v, x) \in U
  <2>1. Append(v, x) \in Seq(C)
    BY <1>1
  <2>2. ASSUME Frees(Append(v, x)), NEW p \in Seq(C), Frees(p), T!Ended(p, d) = T!Ended(Append(v, x), d)
        PROVE  p = Append(v, x)
    <3>1. p # <<>>
      BY <1>1, <2>2, EndedNone, Zenon
    <3>2. PICK q \in Seq(C), y \in C : p = Append(q, y)
      BY <1>2, <3>1, Zenon
    <3>3. Frees(q) /\ Free(y, d) /\ Frees(v) /\ Free(x, d)
      BY <1>1, <2>2, <3>2, Zenon
    <3> DEFINE e == T!Ended(q, d)
               g == T!Ended(v, d)
    <3>4. /\ e \in C /\ g \in C /\ (e = <<>> \/ Last(e) = d) /\ (g = <<>> \/ Last(g) = d)
          /\ e \o Append(y, d) = g \o Append(x, d)
      <4>1. /\ e \in C /\ g \in C
            /\ T!Ended(Append(q, y), d) = e \o Append(y, d) /\ T!Ended(Append(v, x), d) = g \o Append(x, d)
        BY <1>1, <3>2, Zenon
      <4>2. (e = <<>> \/ Last(e) = d) /\ (g = <<>> \/ Last(g) = d)
        BY <1>1, <3>2, Zenon
      <4> HIDE DEF e, g
      <4> QED BY <2>2, <3>2, <4>1, <4>2, Zenon
    <3> HIDE DEF e, g
    <3>5. x \in Seq(E) /\ y \in Seq(E) /\ e \in Seq(E) /\ g \in Seq(E)
      BY <3>2, <3>4 DEF C
    <3>6. Len(g) <= Len(e) /\ Len(e) <= Len(g)
      BY <3>3, <3>4, <3>5, LastUnique, Zenon
    <3>7. e = g /\ x = y
      <4>1. Len(e) = Len(g) /\ Len(e) \in Nat
        BY <3>5, <3>6
      <4> DEFINE a1 == Append(y, d)
                 a2 == Append(x, d)
      <4>3. a1 \in Seq(E) /\ a2 \in Seq(E)
        BY <3>5
      <4> HIDE DEF a1, a2
      <4>4. e = g /\ a1 = a2
        BY <3>4, <3>5, <4>1, <4>3, ConcatCancel, Zenon DEF a1, a2
      <4>6. y = x
        BY <3>5, <4>4, AppendCancel, Zenon DEF a1, a2
      <4> QED BY <4>4, <4>6
    <3>8. q = v
      <4>1. v \in U
        BY <1>4
      <4> QED BY <3>2, <3>3, <3>7, <4>1, Zenon DEF e, g
    <3> QED BY <3>2, <3>7, <3>8
  <2> QED BY <2>1, <2>2
<1>5. \A z \in Seq(C) : z \in U
  <2> HIDE DEF U
  <2> QED BY <1>3, <1>4, SeqUpward
<1> QED BY <1>5 DEF C, Frees

\* What appendBy puts together splitStringOn takes apart, but for an empty last word.
LEMMA SplitJoined ==
  ASSUME NEW E, NEW d \in E, NEW c \in E, NEW words \in Seq(Seq(E)),
         \A i \in 1..Len(words) : Free(words[i], d)
  PROVE  T!splitStringOn(T!Front(T!appendBy(words, d, c)), d)
           = IF words # <<>> /\ T!Last(words) = <<>> THEN T!Front(words) ELSE words
<1> DEFINE C == Seq(E)
           X == IF words = <<>> THEN <<>> ELSE Front(T!Ended(words, d))
           p == T!splitStringOn(X, d)
<1>1. T!appendBy(words, d, c) = Append(X, c)
  BY SameOperators DEF T!appendBy
<1>2. ASSUME NEW u \in Seq(E), NEW a \in E PROVE Front(Append(u, a)) = u
  BY FrontOfAppend
<1>3. ASSUME NEW u \in Seq(E)
      PROVE  LET z == T!splitStringOn(u, d)
             IN /\ z \in Seq(C) /\ \A i \in 1..Len(z) : Free(z[i], d)
                /\ T!Ended(z, d) = IF u = <<>> \/ Last(u) = d THEN u ELSE Append(u, d)
  BY SplitPieces, Zenon DEF Free
<1>4. ASSUME NEW v \in Seq(C), \A i \in 1..Len(v) : Free(v[i], d),
             NEW u \in Seq(E), T!Ended(v, d) = IF u = <<>> \/ Last(u) = d THEN u ELSE Append(u, d)
      PROVE  T!splitStringOn(u, d) = v
  BY <1>3, <1>4, WordsUnique, Zenon
<1>5. <<>> \in Seq(E) /\ <<>> \in Seq(C) /\ \A i \in 1..Len(<<>>) : Free(<<>>[i], d)
  OBVIOUS
<1>6. CASE words = <<>>
  <2>1. X = <<>>
    BY <1>6
  <2>2. T!splitStringOn(<<>>, d) = <<>>
    BY <1>4, <1>5, EndedNone, Zenon
  <2>3. T!Front(Append(X, c)) = X
    BY <1>2, <1>5, <2>1, SameOperators, Zenon
  <2> HIDE DEF X
  <2> QED BY <1>1, <1>6, <2>1, <2>2, <2>3, Zenon
<1>7. CASE words # <<>>
  <2> DEFINE v == Front(words)
             x == Last(words)
             e == T!Ended(v, d)
  <2>1. /\ v \in Seq(C) /\ x \in C /\ words = Append(v, x) /\ Len(words) \in Nat /\ Len(words) # 0
        /\ Len(v) = Len(words) - 1 /\ x = words[Len(words)] /\ \A i \in 1..Len(v) : v[i] = words[i]
    <3>1. words \in Seq(C) /\ Len(words) # 0 /\ Len(words) \in Nat
      BY <1>7
    <3> HIDE DEF C
    <3>2. Len(words) >= 1
      BY <3>1
    <3>3. /\ v \in Seq(C) /\ x \in C /\ Len(v) = Len(words) - 1 /\ words = Append(v, x)
      BY <3>1, LastApart
    <3>4. \A i \in 1..(Len(words) - 1) : v[i] = words[i]
      BY <3>1, <3>2, FrontSeq
    <3> QED BY <3>1, <3>3, <3>4 DEF Last
  <2>2. /\ e \in C /\ T!Ended(words, d) = e \o Append(x, d) /\ (e = <<>> \/ Last(e) = d)
    <3>1. ASSUME NEW u \in Seq(C), NEW y \in C
          PROVE  T!Ended(u, d) \in C /\ T!Ended(Append(u, y), d) = T!Ended(u, d) \o Append(y, d)
      BY EndedAppend
    <3>2. ASSUME NEW u \in Seq(C) PROVE T!Ended(u, d) = <<>> \/ Last(T!Ended(u, d)) = d
      BY EndedEnd
    <3> HIDE DEF C, v, x
    <3> QED BY <2>1, <3>1, <3>2, Zenon
  <2>3. Free(x, d) /\ \A i \in 1..Len(v) : Free(v[i], d)
    <3>1. Len(words) \in 1..Len(words) /\ \A i \in 1..Len(v) : i \in 1..Len(words)
      BY <2>1
    <3> HIDE DEF v, x
    <3> QED BY <2>1, <3>1, Zenon
  <2> HIDE DEF v, x, e
  <2>4. X = e \o x /\ X \in C
    <3>1. e \o x \in Seq(E) /\ e \o Append(x, d) = Append(e \o x, d)
      BY <2>1, <2>2
    <3>2. Front(Append(e \o x, d)) = e \o x
      BY <1>2, <3>1
    <3> QED BY <1>7, <2>2, <3>1, <3>2, Zenon
  <2>5. T!Front(Append(X, c)) = X
    BY <1>2, <2>4, SameOperators, Zenon
  <2> HIDE DEF X
  <2>6. CASE x = <<>>
    <3>1. X = e
      BY <2>2, <2>4, <2>6
    <3>2. T!splitStringOn(X, d) = v
      BY <1>4, <2>1, <2>2, <2>3, <2>4, <3>1, Zenon DEF e
    <3> QED BY <1>1, <1>7, <2>5, <2>6, <3>2, SameOperators, Zenon DEF v, x
  <2>7. CASE x # <<>>
    <3>1. X # <<>> /\ Last(X) # d /\ Append(X, d) = e \o Append(x, d)
      <4>1. x \in Seq(E) /\ e \in Seq(E)
        BY <2>1, <2>2, Zenon DEF C
      <4>2. e \o x # <<>> /\ Last(e \o x) = x[Len(x)] /\ Len(x) \in 1..Len(x)
        BY <2>7, <4>1, LastOfConcat, Zenon
      <4>3. e \o Append(x, d) = Append(e \o x, d)
        BY <4>1, ConcatAppend
      <4>4. DOMAIN x = 1..Len(x)
        BY <4>1
      <4>5. x[Len(x)] # d
        BY <2>3, <4>2, <4>4, Zenon DEF Free, Contains
      <4> QED BY <2>4, <4>2, <4>3, <4>5, Zenon
    <3>2. words \in Seq(C) /\ T!Ended(words, d) = Append(X, d)
      BY <2>2, <3>1
    <3>3. T!splitStringOn(X, d) = words
      BY <1>4, <2>4, <3>1, <3>2, Zenon
    <3> QED BY <1>1, <2>5, <2>7, <3>3, SameOperators, Zenon DEF x
  <2> QED BY <2>6, <2>7
<1> QED BY <1>6, <1>7

(***************************************************************************)
(* A hash and its UUID: only the dashes between the groups are erased.      *)
(***************************************************************************)
LEMMA EraseNone == T!uuidStringToHash(<<>>) = <<>>
<1>1. [i \in DOMAIN <<>> |-> IF <<>>[i] = "-" THEN <<>> ELSE << <<>>[i] >>] = <<>>
  OBVIOUS
<1> QED BY <1>1, FlattenNone, SameOperators DEF T!uuidStringToHash

\* One character more.
LEMMA EraseAppend ==
  ASSUME NEW E, NEW u \in Seq(E), NEW x \in E
  PROVE  /\ T!uuidStringToHash(u) \in Seq(E)
         /\ T!uuidStringToHash(Append(u, x)) = IF x = "-" THEN T!uuidStringToHash(u)
                                               ELSE Append(T!uuidStringToHash(u), x)
<1> DEFINE C == Seq(E)
           Clean(y) == IF y = "-" THEN <<>> ELSE <<y>>
           rows(v) == [i \in DOMAIN v |-> Clean(v[i])]
           longer == Append(u, x)
<1>1. \A y \in E : Clean(y) \in C
  OBVIOUS
<1>2. /\ Len(u) \in Nat /\ longer \in Seq(E) /\ Len(longer) = Len(u) + 1 /\ longer[Len(u) + 1] = x
      /\ \A i \in 1..Len(u) : longer[i] = u[i]
  BY AppendSeq
<1> HIDE DEF C, Clean, longer
<1>3. ASSUME NEW v \in Seq(E)
      PROVE  rows(v) \in Seq(C) /\ Len(rows(v)) = Len(v) /\ \A i \in 1..Len(v) : rows(v)[i] = Clean(v[i])
  <2>1. DOMAIN v = 1..Len(v) /\ Len(v) \in Nat /\ \A i \in 1..Len(v) : v[i] \in E
    OBVIOUS
  <2>2. \A i \in 1..Len(v) : Clean(v[i]) \in C
    BY <1>1, <2>1
  <2> QED BY <2>1, <2>2
<1>4. T!uuidStringToHash(u) = FlattenSeq(rows(u)) /\ T!uuidStringToHash(longer) = FlattenSeq(rows(longer))
  BY SameOperators, Zenon DEF T!uuidStringToHash, Clean
<1> HIDE DEF rows
<1>5. rows(longer) = Append(rows(u), Clean(x))
  <2> DEFINE r == rows(longer)
             t == Append(rows(u), Clean(x))
  <2>1. r \in Seq(C) /\ Len(r) = Len(u) + 1 /\ \A i \in 1..(Len(u) + 1) : r[i] = Clean(longer[i])
    BY <1>2, <1>3
  <2>2. rows(u) \in Seq(C) /\ Len(rows(u)) = Len(u) /\ \A i \in 1..Len(u) : rows(u)[i] = Clean(u[i])
    BY <1>3
  <2>3. Clean(x) \in C
    BY <1>1
  <2>4. /\ t \in Seq(C) /\ Len(t) = Len(u) + 1 /\ t[Len(u) + 1] = Clean(x)
        /\ \A i \in 1..Len(u) : t[i] = rows(u)[i]
    BY <2>2, <2>3, AppendSeq
  <2> HIDE DEF r, t
  <2>5. ASSUME NEW i \in 1..(Len(u) + 1) PROVE r[i] = t[i]
    <3>1. i \in 1..Len(u) \/ i = Len(u) + 1
      BY <1>2
    <3> QED BY <1>2, <2>1, <2>2, <2>4, <3>1, Zenon
  <2>6. \A i \in 1..Len(r) : r[i] = t[i]
    BY <2>1, <2>5, Zenon
  <2>7. r = t
    BY <2>1, <2>4, <2>6, SameElements, Zenon
  <2> QED BY <2>7 DEF r, t
<1>6. rows(u) \in Seq(Seq(E)) /\ Clean(x) \in Seq(E)
  BY <1>1, <1>3 DEF C
<1>7. FlattenSeq(rows(longer)) = FlattenSeq(rows(u)) \o Clean(x) /\ FlattenSeq(rows(u)) \in Seq(E)
  <2>1. FlattenSeq(Append(rows(u), Clean(x))) = FlattenSeq(rows(u)) \o Clean(x)
    BY <1>6, FlattenAppend
  <2>2. FlattenSeq(rows(u)) \in Seq(E)
    BY <1>6, FlattenType
  <2> QED BY <1>5, <2>1, <2>2, Zenon
<1>8. ASSUME NEW q \in Seq(E) PROVE q \o <<x>> = Append(q, x) /\ q \o <<>> = q
  BY OneMore
<1>9. CASE x = "-"
  BY <1>4, <1>7, <1>8, <1>9, Zenon DEF Clean, longer
<1>10. CASE x # "-"
  BY <1>4, <1>7, <1>8, <1>10, Zenon DEF Clean, longer
<1> QED BY <1>9, <1>10

\* A clean text more.
LEMMA EraseClean ==
  ASSUME NEW E, "-" \in E, NEW v \in Seq(E), NEW p \in Seq(E), \A i \in 1..Len(p) : p[i] # "-"
  PROVE  T!uuidStringToHash(v \o p) = T!uuidStringToHash(v) \o p
<1> DEFINE K == E \ {"-"}
           e == T!uuidStringToHash(v)
           U == {u \in Seq(K) : T!uuidStringToHash(v \o u) = e \o u}
<1>1. e \in Seq(E)
  BY EraseAppend
<1>2. p \in Seq(K)
  OBVIOUS
<1> HIDE DEF e
<1>3. <<>> \in U
  <2>1. <<>> \in Seq(K) /\ v \o <<>> = v /\ e \o <<>> = e
    BY <1>1
  <2> QED BY <2>1 DEF e
<1>4. ASSUME NEW u \in Seq(K), NEW x \in K, u \in U PROVE Append(u, x) \in U
  <2>1. Append(u, x) \in Seq(K) /\ u \in Seq(E) /\ x \in E /\ x # "-"
    OBVIOUS
  <2>2. v \o Append(u, x) = Append(v \o u, x) /\ v \o u \in Seq(E)
    BY <2>1
  <2>3. e \o Append(u, x) = Append(e \o u, x)
    BY <1>1, <2>1
  <2>4. T!uuidStringToHash(Append(v \o u, x)) = Append(T!uuidStringToHash(v \o u), x)
    BY <2>1, <2>2, EraseAppend
  <2>5. T!uuidStringToHash(v \o u) = e \o u
    BY <1>4
  <2> QED BY <2>1, <2>2, <2>3, <2>4, <2>5
<1>5. \A u \in Seq(K) : u \in U
  <2> HIDE DEF U, K
  <2> QED BY <1>3, <1>4, SeqUpward
<1> QED BY <1>2, <1>5 DEF e

\* A group of a UUID more.
LEMMA EraseGroup ==
  ASSUME NEW E, "-" \in E, NEW v \in Seq(E), NEW p \in Seq(E), \A i \in 1..Len(p) : p[i] # "-"
  PROVE  /\ T!uuidStringToHash(v \o <<"-">> \o p) = T!uuidStringToHash(v) \o p
         /\ v \o <<"-">> \o p \in Seq(E) /\ Len(v \o <<"-">> \o p) = Len(v) + 1 + Len(p)
<1>1. v \o <<"-">> \o p \in Seq(E) /\ Len(v \o <<"-">> \o p) = Len(v) + 1 + Len(p)
  OBVIOUS
<1>2. v \o <<"-">> = Append(v, "-") /\ v \o <<"-">> \in Seq(E)
  OBVIOUS
<1>3. T!uuidStringToHash(Append(v, "-")) = T!uuidStringToHash(v)
  BY EraseAppend
<1>4. T!uuidStringToHash((v \o <<"-">>) \o p) = T!uuidStringToHash(v \o <<"-">>) \o p
  BY <1>2, EraseClean
<1> QED BY <1>1, <1>2, <1>3, <1>4

\* A hash of 32 characters, none of them the dash, comes back from its UUID.
LEMMA HashBack ==
  ASSUME NEW E, NEW h \in Seq(E), Len(h) = 32, Free(h, "-")
  PROVE  T!uuidStringToHash(T!hashToUUIDString(h)) = h /\ Len(T!hashToUUIDString(h)) = 36
<1> DEFINE D == E \cup {"-"}
           Part(a, b) == SubSeq(h, a, b)
<1>1. "-" \in D /\ h \in Seq(D)
  <2>1. "-" \in D /\ E \subseteq D
    OBVIOUS
  <2> HIDE DEF D
  <2> QED BY <2>1, SeqMono
<1>2. ASSUME NEW a \in 1..32, NEW b \in a..32
      PROVE  Part(a, b) \in Seq(D) /\ Len(Part(a, b)) = b - a + 1 /\ \A i \in 1..Len(Part(a, b)) : Part(a, b)[i] # "-"
  <2> HIDE DEF D
  <2>1. /\ Part(a, b) \in Seq(D) /\ Len(Part(a, b)) = b - a + 1
        /\ \A i \in 1..(b - a + 1) : Part(a, b)[i] # "-"
    <3>1. a \in 1..Len(h) /\ b \in a..Len(h)
      OBVIOUS
    <3>3. \A i \in 1..Len(h) : h[i] # "-"
      <4>1. DOMAIN h = 1..Len(h)
        OBVIOUS
      <4> QED BY <4>1, Zenon DEF Free, Contains
    <3>2. /\ SubSeq(h, a, b) \in Seq(D) /\ Len(SubSeq(h, a, b)) = b - a + 1
          /\ \A i \in 1..(b - a + 1) : SubSeq(h, a, b)[i] = h[a - 1 + i] /\ a - 1 + i \in 1..Len(h)
      BY <1>1, <3>1, PieceOf
    <3> QED BY <3>2, <3>3, Zenon
  <2> HIDE DEF Part
  <2> QED BY <2>1, Zenon
<1>3. ASSUME NEW k \in 1..31, NEW m \in (k + 1)..32 PROVE Part(1, k) \o Part(k + 1, m) = Part(1, m)
  <2> HIDE DEF D, Part
  <2>1. k \in Nat /\ m \in Nat /\ k <= m /\ m <= 32
    OBVIOUS
  <2>2. m <= Len(h)
    BY <2>1
  <2> QED BY <2>1, <2>2, PiecesJoin, Zenon DEF Part
<1>4. Part(1, 32) = h
  OBVIOUS
<1> DEFINE u1 == Part(1, 8)
           u2 == u1 \o <<"-">> \o Part(9, 12)
           u3 == u2 \o <<"-">> \o Part(13, 16)
           u4 == u3 \o <<"-">> \o Part(17, 20)
           u5 == u4 \o <<"-">> \o Part(21, 32)
           Good(u, n, l) == u \in Seq(D) /\ T!uuidStringToHash(u) = Part(1, n) /\ Len(u) = l
<1>5. T!hashToUUIDString(h) = u5
  BY DEF T!hashToUUIDString
<1> HIDE DEF D, Part
<1>6. Good(u1, 8, 8)
  <2>1. Part(1, 8) \in Seq(D) /\ Len(Part(1, 8)) = 8 /\ \A i \in 1..Len(Part(1, 8)) : Part(1, 8)[i] # "-"
    <3>1. 1 \in 1..32 /\ 8 \in 1..32 /\ 8 - 1 + 1 = 8
      OBVIOUS
    <3> QED BY <1>2, <3>1
  <2>2. <<>> \in Seq(D) /\ <<>> \o Part(1, 8) = Part(1, 8)
    BY <2>1
  <2>3. T!uuidStringToHash(<<>> \o Part(1, 8)) = T!uuidStringToHash(<<>>) \o Part(1, 8)
    BY <1>1, <2>1, <2>2, EraseClean
  <2> QED BY <2>1, <2>2, <2>3, EraseNone
<1>7. ASSUME NEW u, NEW k \in 1..31, NEW m \in (k + 1)..32, NEW l \in Nat, Good(u, k, l)
      PROVE  Good(u \o <<"-">> \o Part(k + 1, m), m, l + 1 + (m - k))
  <2>1. k + 1 \in 1..32 /\ m \in (k + 1)..32 /\ m - (k + 1) + 1 = m - k
    OBVIOUS
  <2>2. /\ Part(k + 1, m) \in Seq(D) /\ Len(Part(k + 1, m)) = m - k
        /\ \A i \in 1..Len(Part(k + 1, m)) : Part(k + 1, m)[i] # "-"
    BY <1>2, <2>1
  <2> DEFINE w == Part(k + 1, m)
  <2> HIDE DEF w
  <2>3. w \in Seq(D) /\ Len(w) = m - k /\ \A i \in 1..Len(w) : w[i] # "-"
    BY <2>2 DEF w
  <2>4. /\ T!uuidStringToHash(u \o <<"-">> \o w) = T!uuidStringToHash(u) \o w
        /\ u \o <<"-">> \o w \in Seq(D) /\ Len(u \o <<"-">> \o w) = Len(u) + 1 + Len(w)
    BY <1>1, <1>7, <2>3, EraseGroup
  <2>5. T!uuidStringToHash(u) \o w = Part(1, m)
    BY <1>3, <1>7 DEF w
  <2> QED BY <1>7, <2>3, <2>4, <2>5 DEF w
<1> HIDE DEF u1, u2, u3, u4, u5, Good
<1>8. Good(u2, 12, 13)
  <2>1. 8 \in 1..31 /\ 12 \in (8 + 1)..32 /\ 8 \in Nat /\ 8 + 1 = 9 /\ 8 + 1 + (12 - 8) = 13
    OBVIOUS
  <2>2. Good(u1 \o <<"-">> \o Part(8 + 1, 12), 12, 8 + 1 + (12 - 8))
    BY <1>6, <1>7, <2>1, Zenon
  <2> QED BY <2>1, <2>2, Zenon DEF u2
<1>9. Good(u3, 16, 18)
  <2>1. 12 \in 1..31 /\ 16 \in (12 + 1)..32 /\ 13 \in Nat /\ 12 + 1 = 13 /\ 13 + 1 + (16 - 12) = 18
    OBVIOUS
  <2>2. Good(u2 \o <<"-">> \o Part(12 + 1, 16), 16, 13 + 1 + (16 - 12))
    BY <1>8, <1>7, <2>1, Zenon
  <2> QED BY <2>1, <2>2, Zenon DEF u3
<1>10. Good(u4, 20, 23)
  <2>1. 16 \in 1..31 /\ 20 \in (16 + 1)..32 /\ 18 \in Nat /\ 16 + 1 = 17 /\ 18 + 1 + (20 - 16) = 23
    OBVIOUS
  <2>2. Good(u3 \o <<"-">> \o Part(16 + 1, 20), 20, 18 + 1 + (20 - 16))
    BY <1>9, <1>7, <2>1, Zenon
  <2> QED BY <2>1, <2>2, Zenon DEF u4
<1>11. Good(u5, 32, 36)
  <2>1. 20 \in 1..31 /\ 32 \in (20 + 1)..32 /\ 23 \in Nat /\ 20 + 1 = 21 /\ 23 + 1 + (32 - 20) = 36
    OBVIOUS
  <2>2. Good(u4 \o <<"-">> \o Part(20 + 1, 32), 32, 23 + 1 + (32 - 20))
    BY <1>10, <1>7, <2>1, Zenon
  <2> QED BY <2>1, <2>2, Zenon DEF u5
<1> QED BY <1>4, <1>5, <1>11 DEF Good

(***************************************************************************)
(* A reply: what comes before the first newline is the code, because it     *)
(* has none.                                                                *)
(***************************************************************************)
\* Words that each end in a delimiter begin with the first of them.
LEMMA EndedFirst ==
  ASSUME NEW E, NEW words \in Seq(Seq(E)), NEW d \in E, words # <<>>
  PROVE  words[1] \in Seq(E) /\ \E t \in Seq(E) : T!Ended(words, d) = Append(words[1], d) \o t
<1> DEFINE C == Seq(E)
           Begins(z) == z[1] \in C /\ \E t \in C : T!Ended(z, d) = Append(z[1], d) \o t
           U == {z \in Seq(C) : z # <<>> => Begins(z)}
<1>1. \A x \in C : Append(x, d) \in C /\ <<>> \o Append(x, d) = Append(x, d) \o <<>> /\ <<>> \in C
  OBVIOUS
<1>2. \A p, q \in C : p \o q \in C
  OBVIOUS
<1>3. \A p, q, r \in C : (p \o q) \o r = p \o (q \o r)
  OBVIOUS
<1>4. ASSUME NEW z \in Seq(C), NEW x \in C PROVE T!Ended(Append(z, x), d) = T!Ended(z, d) \o Append(x, d)
  BY EndedAppend
<1> HIDE DEF C
<1>5. <<>> \in U
  OBVIOUS
<1>6. ASSUME NEW z \in Seq(C), NEW x \in C, z \in U PROVE Append(z, x) \in U
  <2> DEFINE y == Append(z, x)
  <2>1. y \in Seq(C)
    OBVIOUS
  <2>2. CASE z = <<>>
    <3>1. y[1] = x
      BY <2>2
    <3>2. T!Ended(y, d) = Append(x, d) \o <<>>
      <4>1. T!Ended(z, d) = <<>>
        BY <2>2, EndedNone
      <4>2. T!Ended(y, d) = T!Ended(z, d) \o Append(x, d)
        BY <1>4, Zenon
      <4> QED BY <1>1, <4>1, <4>2, Zenon
    <3> HIDE DEF y
    <3>3. Begins(y)
      BY <1>1, <3>1, <3>2, Zenon
    <3> HIDE DEF Begins
    <3> QED BY <2>1, <3>3 DEF y
  <2>3. CASE z # <<>>
    <3>1. z[1] \in C /\ y[1] = z[1]
      BY <2>3
    <3>2. PICK t \in C : T!Ended(z, d) = Append(z[1], d) \o t
      <4> HIDE DEF Begins
      <4>1. Begins(z)
        BY <1>6, <2>3
      <4> QED BY <4>1, Zenon DEF Begins
    <3>3. T!Ended(y, d) = Append(z[1], d) \o (t \o Append(x, d))
      <4>1. T!Ended(y, d) = T!Ended(z, d) \o Append(x, d)
        BY <1>4, Zenon
      <4>2. Append(z[1], d) \in C /\ Append(x, d) \in C
        BY <1>1, <3>1, Zenon
      <4>3. (Append(z[1], d) \o t) \o Append(x, d) = Append(z[1], d) \o (t \o Append(x, d))
        BY <1>3, <4>2, Zenon
      <4> QED BY <3>2, <4>1, <4>3, Zenon
    <3> HIDE DEF y
    <3>4. Begins(y)
      BY <1>1, <1>2, <3>1, <3>3, Zenon
    <3> HIDE DEF Begins
    <3> QED BY <2>1, <3>4 DEF y
  <2> QED BY <2>2, <2>3
<1>7. \A z \in Seq(C) : z \in U
  <2> HIDE DEF U
  <2> QED BY <1>5, <1>6, SeqUpward
<1>8. Begins(words)
  <2>1. words \in Seq(C)
    BY DEF C
  <2> HIDE DEF Begins
  <2> QED BY <1>7, <2>1
<1> QED BY <1>8, Zenon DEF C

\* Of two first words of the same text, one is not longer than the other.
LEMMA NotLonger ==
  ASSUME NEW E, NEW d \in E, NEW a \in Seq(E), NEW b \in Seq(E), NEW t \in Seq(E), NEW u \in Seq(E),
         Free(b, d), Append(a, d) \o t = Append(b, d) \o u
  PROVE  Len(b) <= Len(a)
<1>1. ASSUME NEW x \in Seq(E), NEW y \in Seq(E)
      PROVE  /\ (Append(x, d) \o y)[Len(x) + 1] = d
             /\ \A i \in 1..Len(x) : (Append(x, d) \o y)[i] = x[i]
  OBVIOUS
<1> SUFFICES ASSUME Len(a) < Len(b) PROVE FALSE
  <2>1. Len(a) \in Nat /\ Len(b) \in Nat
    OBVIOUS
  <2> QED BY <2>1
<1>2. Len(a) + 1 \in 1..Len(b) /\ DOMAIN b = 1..Len(b)
  OBVIOUS
<1>3. b[Len(a) + 1] = d
  <2>1. (Append(a, d) \o t)[Len(a) + 1] = d
    BY <1>1, Zenon
  <2>2. (Append(b, d) \o u)[Len(a) + 1] = b[Len(a) + 1]
    BY <1>1, <1>2, Zenon
  <2> QED BY <2>1, <2>2, Zenon
<1> QED BY <1>2, <1>3, Zenon DEF Free, Contains

\* The first piece of a text is what comes before its first delimiter.
LEMMA FirstPiece ==
  ASSUME NEW E, NEW d \in E, NEW a \in Seq(E), NEW u \in Seq(E), Free(a, d)
  PROVE  T!splitStringOn(a \o <<d>> \o u, d)[1] = a
<1> DEFINE s == a \o <<d>> \o u
           z == T!splitStringOn(s, d)
<1>1. s \in Seq(E) /\ s = Append(a, d) \o u /\ Append(s, d) = Append(a, d) \o Append(u, d)
  BY JoinedTwice, Zenon
<1>2. Append(u, d) \in Seq(E)
  OBVIOUS
<1> HIDE DEF s
<1>3. /\ z \in Seq(Seq(E)) /\ \A i \in 1..Len(z) : Free(z[i], d)
      /\ T!Ended(z, d) = IF s = <<>> \/ Last(s) = d THEN s ELSE Append(s, d)
  BY <1>1, SplitPieces, Zenon DEF Free
<1> HIDE DEF z
<1>4. PICK v \in Seq(E) : T!Ended(z, d) = Append(a, d) \o v
  BY <1>1, <1>2, <1>3, Zenon
<1>5. z # <<>>
  <2>1. Append(a, d) \o v # <<>>
    OBVIOUS
  <2> QED BY <1>4, <2>1, EndedNone, Zenon
<1>6. z[1] \in Seq(E) /\ \E t \in Seq(E) : T!Ended(z, d) = Append(z[1], d) \o t
  BY <1>3, <1>5, EndedFirst
<1>7. PICK t \in Seq(E) : T!Ended(z, d) = Append(z[1], d) \o t
  BY <1>6, Zenon
<1>8. Free(z[1], d)
  <2> DEFINE C == Seq(E)
  <2>1. z \in Seq(C)
    BY <1>3
  <2> HIDE DEF C
  <2>2. 1 \in 1..Len(z)
    BY <1>5, <2>1
  <2> QED BY <1>3, <2>2, Zenon
<1> DEFINE b == z[1]
<1> HIDE DEF b
<1>9. b \in Seq(E) /\ Free(b, d) /\ Append(a, d) \o v = Append(b, d) \o t
  BY <1>4, <1>6, <1>7, <1>8, Zenon DEF b
<1>10. Len(b) <= Len(a) /\ Len(a) <= Len(b)
  BY <1>9, NotLonger, Zenon
<1>11. /\ Append(a, d) \in Seq(E) /\ Append(b, d) \in Seq(E)
       /\ Len(Append(a, d)) = Len(Append(b, d))
  <2>1. Len(a) \in Nat /\ Len(b) \in Nat /\ Len(Append(a, d)) = Len(a) + 1 /\ Len(Append(b, d)) = Len(b) + 1
    BY <1>9
  <2>2. Append(a, d) \in Seq(E) /\ Append(b, d) \in Seq(E)
    BY <1>9
  <2> QED BY <1>10, <2>1, <2>2
<1>12. Append(a, d) = Append(b, d)
  BY <1>9, <1>11, ConcatCancel, Zenon
<1>13. a = b
  BY <1>9, <1>12, AppendCancel, Zenon
<1> QED BY <1>13 DEF b, z, s

\* The code and the message of a reply come back.
LEMMA ReplyBack ==
  ASSUME NEW E, T!Entry \in E, NEW code \in Seq(E), NEW text \in Seq(E),
         Len(code) = 3, Free(code, T!Entry), code \in T!Codes
  PROVE  /\ T!getCode(T!constructMessage(code, text)) = code
         /\ T!getMessage(T!constructMessage(code, text)) = text
<1> DEFINE s == T!constructMessage(code, text)
<1>1. T!splitStringOn(s, T!Entry)[1] = code
  BY FirstPiece, Zenon DEF T!constructMessage
<1>2. T!validCode(s)
  BY <1>1, Zenon DEF T!validCode
<1>3. T!getCode(s) = code
  BY <1>1, <1>2, Zenon DEF T!getCode
<1>4. SubSeq(s, 5, Len(s)) = text
  <2>1. s = code \o <<T!Entry>> \o text
    BY DEF T!constructMessage
  <2>2. ASSUME NEW e \in E PROVE LET r == code \o <<e>> \o text IN SubSeq(r, 5, Len(r)) = text
    <3> DEFINE r == code \o <<e>> \o text
    <3>1. /\ r \in Seq(E) /\ Len(r) = Len(text) + 4 /\ \A i \in 1..Len(text) : r[4 + i] = text[i]
      BY AfterFour
    <3>2. Len(text) \in Nat
      OBVIOUS
    <3> HIDE DEF r
    <3> DEFINE q == SubSeq(r, 5, Len(r))
    <3>3. q \in Seq(E) /\ Len(q) = Len(text) /\ \A i \in 1..Len(text) : q[i] = r[4 + i]
      BY <3>1, <3>2
    <3> HIDE DEF q
    <3>4. \A i \in 1..Len(q) : q[i] = text[i]
      BY <3>1, <3>3, Zenon
    <3>5. q = text
      BY <3>3, <3>4, SameElements, Zenon
    <3> QED BY <3>5 DEF q, r
  <2> QED BY <2>1, <2>2, Zenon
<1>5. T!getMessage(s) = text
  BY <1>2, <1>4, Zenon DEF T!getMessage
<1> QED BY <1>3, <1>5

(***************************************************************************)
(* The behaviours of TextFormat: inputs, and what is computed for them.     *)
(***************************************************************************)
\* What is computed is computed from an input; nothing else ever is a result.
TextInv == input \in T!Input /\ result \in {<<>>, T!Compute(input)}

LEMMA TextInit == T!Init => TextInv
BY Zenon DEF T!Init, TextInv

LEMMA TextNext == TextInv /\ [T!Next]_<<input, result>> => TextInv'
<1> SUFFICES ASSUME TextInv, [T!Next]_<<input, result>> PROVE TextInv'
  OBVIOUS
<1>1. input' = input /\ result' \in {result, T!Compute(input)}
  BY Zenon DEF T!Next
<1> QED BY <1>1, Zenon DEF TextInv

LEMMA BoundedIsSeq ==
  ASSUME NEW E, NEW n, NEW s \in T!BoundedSeq(E, n)
  PROVE  s \in Seq(E)
<1>1. PICK m \in 0..n : s \in [1..m -> E]
  BY DEF T!BoundedSeq, T!SeqOf
<1> QED BY <1>1

\* What the inputs of each kind are.
LEMMA Inputs ==
  ASSUME NEW i \in T!Input
  PROVE  /\ i.kind = "text"  => i.text \in Seq(T!Char)
         /\ i.kind = "words" => i.words \in Seq(Seq({"a", "b"}))
         /\ i.kind = "list"  => i.list \in Seq(Int) /\ i.n \in Nat \ {0} /\ i.files \in Seq(Int)
         /\ i.kind = "hash"  => \E k \in 1..16 : i.hash = [j \in 1..32 |-> T!HexChars[(j % k) + 1]]
         /\ i.kind = "reply" => i.code \in T!Codes /\ i.text \in Seq(T!Char)
<1>1. ASSUME NEW E, NEW n, NEW s \in T!BoundedSeq(E, n) PROVE s \in Seq(E)
  BY BoundedIsSeq
<1>2. CASE i \in [kind : {"text"}, text : T!BoundedSeq(T!Char, MaxText)]
  <2>1. i.kind = "text" /\ i.text \in T!BoundedSeq(T!Char, MaxText)
    BY <1>2
  <2> QED BY <1>1, <2>1, Zenon
<1>3. CASE i \in [kind : {"words"}, words : T!BoundedSeq(T!Word, MaxWords)]
  <2>1. i.kind = "words" /\ i.words \in T!BoundedSeq(T!Word, MaxWords)
    BY <1>3
  <2>2. \A w \in T!Word : w \in Seq({"a", "b"})
    BY <1>1, Zenon DEF T!Word
  <2>3. i.words \in Seq(T!Word)
    BY <1>1, <2>1, Zenon
  <2>4. i.words \in Seq(Seq({"a", "b"}))
    <3> DEFINE C == Seq({"a", "b"})
    <3>1. T!Word \subseteq C
      BY <2>2
    <3> HIDE DEF C
    <3>2. i.words \in Seq(C)
      BY <2>3, <3>1, SeqMono
    <3> QED BY <3>2 DEF C
  <2> QED BY <2>1, <2>4
<1>4. CASE i \in [kind : {"list"}, list : {[j \in 1..n |-> j] : n \in 0..MaxList}, n : 1..MaxChunk,
                  files : {[j \in 1..n |-> j] : n \in 0..MaxList}]
  <2>1. /\ i.kind = "list" /\ i.n \in 1..MaxChunk
        /\ i.list \in {[j \in 1..n |-> j] : n \in 0..MaxList}
        /\ i.files \in {[j \in 1..n |-> j] : n \in 0..MaxList}
    BY <1>4
  <2>2. ASSUME NEW x \in {[j \in 1..n |-> j] : n \in 0..MaxList} PROVE x \in Seq(Int)
    OBVIOUS
  <2>3. i.n \in Nat \ {0}
    BY <2>1
  <2> QED BY <2>1, <2>2, <2>3
<1>5. CASE i \in [kind : {"hash"}, hash : {[j \in 1..32 |-> T!HexChars[(j % k) + 1]] : k \in 1..16}]
  <2>1. i.kind = "hash" /\ i.hash \in {[j \in 1..32 |-> T!HexChars[(j % k) + 1]] : k \in 1..16}
    BY <1>5
  <2> QED BY <2>1, Zenon
<1>6. CASE i \in [kind : {"reply"}, code : T!Codes, text : T!BoundedSeq(T!Char, MaxText - 2)]
  <2>1. i.kind = "reply" /\ i.code \in T!Codes /\ i.text \in T!BoundedSeq(T!Char, MaxText - 2)
    BY <1>6
  <2> QED BY <1>1, <2>1, Zenon
<1> QED BY <1>2, <1>3, <1>4, <1>5, <1>6, Zenon DEF T!Input

\* What is computed for them.
LEMMA Computed ==
  ASSUME NEW i
  PROVE  /\ i.kind = "text"  => T!Compute(i).split = T!splitStringOn(i.text, T!Field)
         /\ i.kind = "words" => T!Compute(i).split
                                  = T!splitStringOn(T!Front(T!appendBy(i.words, T!Field, T!Entry)), T!Field)
         /\ i.kind = "list"  => /\ T!Compute(i).chunks = T!toChunks(i.list, i.n)
                                /\ T!Compute(i).pairs = T!cartesianProductQueue(T!toChunks(i.list, i.n), i.files)
         /\ i.kind = "hash"  => /\ T!Compute(i).uuid = T!hashToUUIDString(i.hash)
                                /\ T!Compute(i).hash = T!uuidStringToHash(T!hashToUUIDString(i.hash))
         /\ i.kind = "reply" => /\ T!Compute(i).code = T!getCode(T!constructMessage(i.code, i.text))
                                /\ T!Compute(i).message = T!getMessage(T!constructMessage(i.code, i.text))
<1>1. CASE i.kind = "text"
  BY <1>1 DEF T!Compute
<1>2. CASE i.kind = "words"
  BY <1>2 DEF T!Compute
<1>3. CASE i.kind = "list"
  BY <1>3 DEF T!Compute
<1>4. CASE i.kind = "hash"
  BY <1>4 DEF T!Compute
<1>5. CASE i.kind = "reply"
  BY <1>5 DEF T!Compute
<1> QED BY <1>1, <1>2, <1>3, <1>4, <1>5, Zenon

LEMMA DoneIs ==
  ASSUME TextInv, NEW k, T!Done(k)
  PROVE  input \in T!Input /\ input.kind = k /\ result = T!Compute(input)
BY Zenon DEF TextInv, T!Done

\* splitStringOn returns the pieces between the delimiters of any text of any length:
\* no piece has a delimiter, and the pieces, each with one after it, are the text.
THEOREM SplitsIntoPieces == T!Spec => []SplitIsPieces
<1>1. TextInv => SplitIsPieces
  <2> SUFFICES ASSUME TextInv, T!Done("text") PROVE
         /\ \A i \in DOMAIN result.split : ~T!Contains(result.split[i], T!Field)
         /\ T!Ended(result.split, T!Field)
              = IF input.text = <<>> \/ T!Last(input.text) = T!Field THEN input.text
                ELSE Append(input.text, T!Field)
    BY Zenon DEF SplitIsPieces, T!SplitIsPieces
  <2>1. input \in T!Input /\ input.kind = "text" /\ result = T!Compute(input)
    BY DoneIs
  <2> DEFINE s == input.text
             d == T!Field
             p == T!splitStringOn(s, d)
  <2>2. s \in Seq(T!Char)
    BY <2>1, Inputs, Zenon
  <2>3. result.split = p
    BY <2>1, Computed, Zenon
  <2>4. d \in T!Char
    BY DEF T!Char
  <2> HIDE DEF s, d
  <2>5. /\ p \in Seq(Seq(T!Char)) /\ \A i \in 1..Len(p) : ~Contains(p[i], d)
        /\ T!Ended(p, d) = IF s = <<>> \/ Last(s) = d THEN s ELSE Append(s, d)
    BY <2>2, <2>4, SplitPieces, Zenon
  <2> HIDE DEF p
  <2>6. DOMAIN p = 1..Len(p)
    BY <2>5
  <2> QED BY <2>3, <2>5, <2>6, SameOperators, Zenon DEF s, d
<1> QED BY <1>1, TextInit, TextNext, PTL DEF T!Spec

\* toChunks and cartesianProductQueue return what the uploads are modelled with, for
\* lists and chunks of any size: every element in one chunk, every chunk with every
\* list of files once.
THEOREM LoopsAreChunksAndPairs == T!Spec => []ChunksAndPairs
<1>1. TextInv => ChunksAndPairs
  <2> SUFFICES ASSUME TextInv, T!Done("list") PROVE
         /\ result.chunks = T!ToChunks(input.list, input.n)
         /\ result.pairs = T!Pairs(result.chunks, input.files)
    BY Zenon DEF ChunksAndPairs, T!ChunksAndPairs
  <2>1. input \in T!Input /\ input.kind = "list" /\ result = T!Compute(input)
    BY DoneIs
  <2>2. input.list \in Seq(Int) /\ input.n \in Nat \ {0} /\ input.files \in Seq(Int)
    BY <2>1, Inputs, Zenon
  <2>3. /\ result.chunks = T!toChunks(input.list, input.n)
        /\ result.pairs = T!cartesianProductQueue(T!toChunks(input.list, input.n), input.files)
    BY <2>1, Computed, Zenon
  <2>4. /\ T!toChunks(input.list, input.n) = T!ToChunks(input.list, input.n)
        /\ T!toChunks(input.list, input.n) \in Seq(Seq(Int))
    BY <2>2, LoopIsChunks
  <2>5. T!cartesianProductQueue(T!toChunks(input.list, input.n), input.files)
          = T!Pairs(T!toChunks(input.list, input.n), input.files)
    <3> DEFINE C == Seq(Int)
    <3>1. T!toChunks(input.list, input.n) \in Seq(C)
      BY <2>4
    <3> HIDE DEF C
    <3> QED BY <2>2, <3>1, ProductIsPairs
  <2> QED BY <2>3, <2>4, <2>5
<1> QED BY <1>1, TextInit, TextNext, PTL DEF T!Spec

LEMMA HexIsClean ==
  ASSUME NEW k \in 1..16, NEW h, h = [j \in 1..32 |-> T!HexChars[(j % k) + 1]]
  PROVE  \E E : h \in Seq(E) /\ Len(h) = 32 /\ Free(h, "-")
<1> DEFINE E == {T!HexChars[j] : j \in 1..16}
           e == [j \in 1..32 |-> T!HexChars[(j % k) + 1]]
<1>1. "-" \notin E
  <2>1. \A j \in 1..16 : T!HexChars[j] # "-"
    BY DEF T!HexChars
  <2> QED BY <2>1, Zenon
<1>2. \A j \in 1..32 : (j % k) + 1 \in 1..16
  <2>1. \A j \in Nat : j % k \in 0..(k - 1)
    OBVIOUS
  <2> QED BY <2>1
<1>3. \A j \in 1..32 : e[j] = T!HexChars[(j % k) + 1]
  OBVIOUS
<1>4. \A j \in 1..32 : e[j] \in E
  BY <1>2, <1>3, Zenon
<1> HIDE DEF E
<1>5. e \in [1..32 -> E]
  BY <1>4
<1> HIDE DEF e
<1>6. e \in Seq(E) /\ Len(e) = 32
  <2>1. \A n \in Nat : \A f \in [1..n -> E] : f \in Seq(E) /\ Len(f) = n
    BY TableIsSeq
  <2>2. 32 \in Nat
    OBVIOUS
  <2> QED BY <1>5, <2>1, <2>2, Zenon
<1>7. Free(e, "-")
  BY <1>1, <1>4, <1>6, Zenon DEF Free, Contains
<1> QED BY <1>6, <1>7, Zenon DEF e

\* A code of a reply has three characters and no newline.
LEMMA CodeIsFree ==
  ASSUME NEW code \in T!Codes
  PROVE  /\ code \in Seq(T!Char \cup {"0", "2", "4", "5"})
         /\ Len(code) = 3 /\ Free(code, T!Entry)
<1>1. ASSUME NEW a \in {"2", "4", "5"} PROVE
        LET c == <<a, "0", "0">>
        IN c \in Seq(T!Char \cup {"0", "2", "4", "5"}) /\ Len(c) = 3 /\ Free(c, T!Entry)
  <2> DEFINE c == <<a, "0", "0">>
             D == T!Char \cup {"0", "2", "4", "5"}
  <2>1. a \in D /\ "0" \in D
    OBVIOUS
  <2>2. a # T!Entry /\ "0" # T!Entry
    BY DEF T!Entry
  <2> HIDE DEF D
  <2>3. c \in Seq(D) /\ Len(c) = 3 /\ DOMAIN c = 1..3 /\ c[1] = a /\ c[2] = "0" /\ c[3] = "0"
    BY <2>1
  <2> HIDE DEF c
  <2>4. \A i \in 1..3 : i = 1 \/ i = 2 \/ i = 3
    OBVIOUS
  <2>5. \A i \in 1..3 : c[i] # T!Entry
    BY <2>2, <2>3, <2>4, Zenon
  <2>6. Free(c, T!Entry)
    BY <2>3, <2>5, Zenon DEF Free, Contains
  <2> QED BY <2>3, <2>6 DEF c, D
<1>2. \E a \in {"2", "4", "5"} : code = <<a, "0", "0">>
  BY Zenon DEF T!Codes
<1> QED BY <1>1, <1>2, Zenon

\* What is put together comes apart again: words joined by appendBy, but for a last one
\* that is empty; a hash that was stored as a UUID (hashToUUIDString, uuidStringToHash);
\* the code and the message of a reply (constructMessage, getCode, getMessage).  SplitJoined,
\* HashBack and ReplyBack say it of any words, hash and text, not only of the inputs.
THEOREM EverythingRoundTrips == T!Spec => []RoundTrips
<1>1. ASSUME TextInv, T!Done("words")
      PROVE  result.split = IF input.words # <<>> /\ T!Last(input.words) = <<>> THEN T!Front(input.words)
                            ELSE input.words
  <2>1. input \in T!Input /\ input.kind = "words" /\ result = T!Compute(input)
    BY <1>1, DoneIs
  <2> DEFINE w == input.words
             L2 == {"a", "b"}
             D == L2 \cup {T!Field, T!Entry}
  <2>2. w \in Seq(Seq(L2))
    BY <2>1, Inputs, Zenon
  <2>3. result.split = T!splitStringOn(T!Front(T!appendBy(w, T!Field, T!Entry)), T!Field)
    BY <2>1, Computed, Zenon
  <2>4. T!Field \in D /\ T!Entry \in D /\ L2 \subseteq D /\ T!Field \notin L2
    BY DEF T!Field
  <2> HIDE DEF w, L2, D
  <2>5. w \in Seq(Seq(D)) /\ \A i \in 1..Len(w) : Free(w[i], T!Field)
    <3> DEFINE B == Seq(L2)
               C == Seq(D)
    <3>1. \A x \in B : x \in C
      BY <2>4, SeqMono
    <3>2. ASSUME NEW x \in B PROVE Free(x, T!Field)
      <4>1. \A i \in 1..Len(x) : x[i] \in L2
        OBVIOUS
      <4> QED BY <2>4, <4>1, Zenon DEF Free, Contains
    <3>3. w \in Seq(B)
      BY <2>2
    <3> HIDE DEF B, C
    <3>4. B \subseteq C
      BY <3>1
    <3>5. w \in Seq(C) /\ \A i \in 1..Len(w) : w[i] \in B
      BY <3>3, <3>4, SeqMono
    <3> QED BY <3>2, <3>5, Zenon DEF C
  <2>6. T!splitStringOn(T!Front(T!appendBy(w, T!Field, T!Entry)), T!Field)
          = IF w # <<>> /\ T!Last(w) = <<>> THEN T!Front(w) ELSE w
    BY <2>4, <2>5, SplitJoined, Zenon
  <2> QED BY <2>3, <2>6, Zenon DEF w
<1>2. ASSUME TextInv, T!Done("hash")
      PROVE  result.hash = input.hash /\ Len(result.uuid) = 36
  <2>1. input \in T!Input /\ input.kind = "hash" /\ result = T!Compute(input)
    BY <1>2, DoneIs
  <2> DEFINE h == input.hash
  <2>2. \E k \in 1..16 : h = [j \in 1..32 |-> T!HexChars[(j % k) + 1]]
    BY <2>1, Inputs, Zenon
  <2>3. /\ result.uuid = T!hashToUUIDString(h)
        /\ result.hash = T!uuidStringToHash(T!hashToUUIDString(h))
    BY <2>1, Computed, Zenon
  <2> HIDE DEF h
  <2>4. \E E : h \in Seq(E) /\ Len(h) = 32 /\ Free(h, "-")
    BY <2>2, HexIsClean, Zenon
  <2>5. T!uuidStringToHash(T!hashToUUIDString(h)) = h /\ Len(T!hashToUUIDString(h)) = 36
    BY <2>4, HashBack, Zenon
  <2> QED BY <2>3, <2>5, Zenon DEF h
<1>3. ASSUME TextInv, T!Done("reply")
      PROVE  result.code = input.code /\ result.message = input.text
  <2>1. input \in T!Input /\ input.kind = "reply" /\ result = T!Compute(input)
    BY <1>3, DoneIs
  <2> DEFINE c == input.code
             x == input.text
             D == T!Char \cup {"0", "2", "4", "5"}
  <2>2. c \in T!Codes /\ x \in Seq(T!Char)
    BY <2>1, Inputs, Zenon
  <2>3. /\ result.code = T!getCode(T!constructMessage(c, x))
        /\ result.message = T!getMessage(T!constructMessage(c, x))
    BY <2>1, Computed, Zenon
  <2> HIDE DEF c, x
  <2>4. c \in Seq(D) /\ Len(c) = 3 /\ Free(c, T!Entry)
    BY <2>2, CodeIsFree, Zenon
  <2>5. T!Entry \in D /\ T!Char \subseteq D
    BY DEF T!Char
  <2> HIDE DEF D
  <2>6. x \in Seq(D)
    BY <2>2, <2>5, SeqMono
  <2>7. /\ T!getCode(T!constructMessage(c, x)) = c
        /\ T!getMessage(T!constructMessage(c, x)) = x
    BY <2>2, <2>4, <2>5, <2>6, ReplyBack, Zenon
  <2> QED BY <2>3, <2>7, Zenon DEF c, x
<1>4. TextInv => RoundTrips
  BY <1>1, <1>2, <1>3, Zenon DEF RoundTrips, T!RoundTrips
<1> QED BY <1>4, TextInit, TextNext, PTL DEF T!Spec

(***************************************************************************)
(* The parts together, as one run checks them: a step of one part leaves    *)
(* the invariants of the others alone.                                      *)
(***************************************************************************)
PartsInv == PoolInv /\ FrameInv /\ CountInv /\ VulnInv

LEMMA FrameTypes == FrameInv => F!TypeOK
<1> SUFFICES ASSUME FrameInv PROVE F!TypeOK
  OBVIOUS
<1>1. /\ asked \in F!Request \cup {None} /\ at \in Places
      /\ unsent \in Nat /\ arrived \in Seq(Nat)
      /\ size \in -MaxLength..MaxLength /\ capacity \in 0..MaxLength
      /\ Len(totalData) <= MaxLength
  BY Zenon DEF FrameInv, Wires
<1>2. Len(arrived) <= MaxLength + 1
  <2>1. CASE asked = None
    <3>1. arrived = <<>>
      BY <2>1, Zenon DEF FrameInv, Fresh
    <3> QED BY <3>1, Lengths
  <2>2. CASE asked # None
    <3>1. asked.body \in 0..(MaxLength + 1)
      BY <1>1, <2>2, RequestFields
    <3>2. Taken \in Nat
      BY <2>2, Zenon DEF FrameInv, Flowing
    <3>3. Len(arrived) \in Nat
      BY <1>1
    <3> QED BY <1>1, <3>1, <3>2, <3>3, Lengths DEF Taken
  <2> QED BY <2>1, <2>2
<1> QED BY <1>1, <1>2, Zenon DEF F!TypeOK, Places

LEMMA PartsStart == PartsInit => PartsInv
BY InitInv, FrameInit, CountInit, ListInit, Zenon DEF PartsInit, PartsInv

LEMMA PartsStep == PartsInv /\ [PartsNext]_all => PartsInv'
<1> SUFFICES ASSUME PartsInv, [PartsNext]_all PROVE PartsInv'
  OBVIOUS
<1>1. ASSUME [Next]_vars PROVE PoolInv'
  BY <1>1, InvNext, Zenon DEF PartsInv
<1>2. ASSUME [F!Next]_framingVars PROVE FrameInv'
  BY <1>2, FrameNext, Zenon DEF PartsInv, framingVars, F!vars
<1>3. ASSUME [S!Next]_countVars PROVE CountInv'
  BY <1>3, CountNext, Zenon DEF PartsInv, countVars, S!vars
<1>4. ASSUME [L!Next]_listVars PROVE VulnInv'
  BY <1>4, ListNext, Zenon DEF PartsInv, listVars, L!vars
<1>5. [Next]_vars /\ [F!Next]_framingVars /\ [S!Next]_countVars /\ [L!Next]_listVars
  BY Zenon DEF PartsNext, all
<1> QED BY <1>1, <1>2, <1>3, <1>4, <1>5, Zenon DEF PartsInv

\* The types of all parts hold in the run that interleaves them with nothing, for any
\* number of workers, connections, families and labels: the workers give up after
\* MAX_RETRIES, the data of a connection never outgrows its buffer (readExpectedData),
\* and writeToFile stays inside its families.
THEOREM PartsAlwaysTyped == PartsSpec => []PartsTypeOK
<1>1. PartsInv => PartsTypeOK
  <2> SUFFICES ASSUME PartsInv PROVE PartsTypeOK
    OBVIOUS
  <2>1. TypeOK
    BY Zenon DEF PartsInv, PoolInv
  <2>2. F!TypeOK
    BY FrameTypes, Zenon DEF PartsInv
  <2>3. S!TypeOK
    BY Zenon DEF PartsInv, CountInv
  <2>4. L!TypeOK
    <3>1. ListTypes
      BY Zenon DEF PartsInv, VulnInv, GaugeInv
    <3> QED BY <3>1 DEF ListTypes, L!TypeOK, Gauge
  <2> QED BY <2>1, <2>2, <2>3, <2>4, Zenon DEF PartsTypeOK
<1> QED BY <1>1, PartsStart, PartsStep, PTL DEF PartsSpec
=============================================================================
