---------------------------- MODULE RequestFraming ----------------------------
(***************************************************************************)
(* One connection of the TCP server: a header "type?client?length\n", then  *)
(* length bytes of data, which arrive in pieces of any size; the dispatch   *)
(* of the request and its reply.                                            *)
(***************************************************************************)
EXTENDS Integers, Sequences, SequencesExt

CONSTANTS
  None,
  MaxLength     \* bound of the instance: the largest length

\* RequestHandler::getERequestType and the switch of handleRequest.
Route ==
  [upld |-> "handleUploadRequest",       chck |-> "handleCheckRequest",
   chup |-> "handleCheckUploadRequest",  extp |-> "handleExtractProjectsRequest",
   gppr |-> "handlePrevProjectsRequest", idau |-> "handleGetAuthorRequest",
   aume |-> "handleGetMethodsByAuthorRequest",
   conn |-> "handleConnectRequest",      gtip |-> "handleGetIPsRequest",
   upjb |-> "handleUploadJobRequest",    upcd |-> "handleCrawlDataRequest",
   gtjb |-> "handleGetJobRequest",       udjb |-> "handleUpdateJobRequest",
   fnjb |-> "handleFinishJobRequest"]

Dispatch(type) == IF type \in DOMAIN Route THEN Route[type] ELSE "handleUnknownRequest"

Types == DOMAIN Route \cup {"none of these"}

\* What a client sends: header is "whole", "short" (fewer than three fields),
\* "nan" (the length is no number) or "cut" (closed before the newline).  The body
\* may be longer or shorter than the length it declares.
Request == [type : Types, header : {"whole", "short", "nan", "cut"},
            length : 0..MaxLength, body : 0..(MaxLength + 1)]

VARIABLES
  request,      \* what the client sends, None before it connects
  unsent,       \* bytes of the body the client has not sent yet
  arrived,      \* bytes of the body that wait in the socket, a sequence
  closed,       \* the client has closed its side
  pc,           \* the server: "accept", "header", "read", "handle" or "done"
  size,         \* bytes still to be read
  capacity,     \* the size of the buffer data
  totalData,    \* the data read so far
  handled,      \* what handleRequest was called with, or None
  replies       \* the replies, a sequence

vars == <<request, unsent, arrived, closed, pc, size, capacity, totalData, handled, replies>>
server == <<pc, size, capacity, totalData, handled, replies>>

(***************************************************************************)
(* The client                                                               *)
(***************************************************************************)
Connect ==
  /\ request = None
  /\ \E r \in Request : request' = r /\ unsent' = r.body
  /\ pc' = "header"
  /\ UNCHANGED <<arrived, closed, size, capacity, totalData, handled, replies>>

\* The body is the sequence of bytes 1, 2, 3 ...
Send ==
  /\ request # None /\ unsent > 0
  /\ LET b == request.body - unsent + 1
     IN  arrived' = Append(arrived, b) /\ unsent' = unsent - 1
  /\ UNCHANGED <<request, closed, server>>

Close ==
  /\ request # None /\ unsent = 0 /\ ~closed
  /\ closed' = TRUE
  /\ UNCHANGED <<request, unsent, arrived, server>>

(***************************************************************************)
(* TcpConnection::start                                                     *)
(***************************************************************************)
End(answers) ==
  /\ pc' = "done" /\ replies' = answers
  /\ UNCHANGED <<size, capacity, totalData, handled>>

\* MUTANT of ReadHeader: the data that came with the header is dropped.
ForgetsRest ==
  /\ pc = "header" /\ request.header = "whole"
  /\ \E k \in 0..Len(arrived) :
       LET left == request.length - k
       IN  /\ arrived' = SubSeq(arrived, k + 1, Len(arrived))
           /\ left >= 0
           /\ pc' = IF left > 0 THEN "read" ELSE "handle"
           /\ size' = left /\ capacity' = left /\ totalData' = <<>>
           /\ UNCHANGED <<handled, replies>>
  /\ UNCHANGED <<request, unsent, closed>>

\* MUTANT of ReadHeader: reads on although all data came with the header.
ReadsOn ==
  /\ pc = "header"
  /\ \E k \in 0..Len(arrived) :
       LET left == request.length - k
       IN  /\ arrived' = SubSeq(arrived, k + 1, Len(arrived))
           /\ IF request.header # "whole" \/ left < 0
                THEN (request.header = "cut" => closed) /\ End(Append(replies, "client"))
                ELSE /\ pc' = "read" /\ size' = left /\ capacity' = left
                     /\ totalData' = SubSeq(arrived, 1, k)
                     /\ UNCHANGED <<handled, replies>>
  /\ UNCHANGED <<request, unsent, closed>>

\* read_until returns once there is a newline, with up to k bytes of the body.
ReadHeader ==
  /\ pc = "header"
  /\ \E k \in 0..Len(arrived) :
       LET left == request.length - k
       IN  /\ arrived' = SubSeq(arrived, k + 1, Len(arrived))
           /\ CASE request.header = "cut"                 -> closed /\ End(replies)
                [] request.header \in {"short", "nan"}    -> End(Append(replies, "client"))
                [] request.header = "whole" /\ left < 0   -> End(Append(replies, "client"))
                [] request.header = "whole" /\ left >= 0 ->
                     /\ pc' = IF left > 0 THEN "read" ELSE "handle"
                     /\ size' = left /\ capacity' = left
                     /\ totalData' = SubSeq(arrived, 1, k)
                     /\ UNCHANGED <<handled, replies>>
  /\ UNCHANGED <<request, unsent, closed>>

\* readExpectedData, one read_some into a buffer that keeps its first size: what
\* is too much is answered, not appended, and the request goes on all the same.
ReadSome ==
  /\ pc = "read" /\ arrived # <<>>
  /\ \E n \in 1..Len(arrived) :
       /\ n <= capacity
       /\ arrived' = SubSeq(arrived, n + 1, Len(arrived))
       /\ size' = size - n
       /\ IF size' < 0
            THEN replies' = Append(replies, "larger than expected") /\ UNCHANGED totalData
            ELSE totalData' = totalData \o SubSeq(arrived, 1, n) /\ UNCHANGED replies
       /\ pc' = IF size' <= 0 THEN "handle" ELSE "read"
  /\ UNCHANGED <<request, unsent, closed, capacity, handled>>

\* The socket was closed before all data was received; the request goes on.
ReadEof ==
  /\ pc = "read" /\ arrived = <<>> /\ closed
  /\ pc' = "handle"
  /\ UNCHANGED <<request, unsent, arrived, closed, size, capacity, totalData, handled, replies>>

\* handleRequest, newRequest and the reply.
HandleRequest ==
  /\ pc = "handle"
  /\ handled' = [by |-> Dispatch(request.type), data |-> totalData]
  /\ replies' = Append(replies, "answer")
  /\ pc' = "done"
  /\ UNCHANGED <<request, unsent, arrived, closed, size, capacity, totalData>>

Init ==
  /\ request = None /\ unsent = 0 /\ arrived = <<>> /\ closed = FALSE
  /\ pc = "accept" /\ size = 0 /\ capacity = 0 /\ totalData = <<>>
  /\ handled = None /\ replies = <<>>

Serve == ReadHeader \/ ReadSome \/ ReadEof \/ HandleRequest

Next == Connect \/ Send \/ Close \/ Serve

Spec == Init /\ [][Next]_vars

\* The thread of the connection runs on and a client sends what it has; nothing
\* makes a client close.
FairSpec == Spec /\ WF_vars(Serve) /\ WF_vars(Send)

(***************************************************************************)
(* Properties                                                               *)
(***************************************************************************)
Body == [i \in 1..request.body |-> i]

\* The types of the connection; the data never outgrows the buffer and what is still
\* to be read never falls below minus the buffer (readExpectedData).
TypeOK ==
  /\ request \in Request \cup {None}
  /\ pc \in {"accept", "header", "read", "handle", "done"}
  /\ size \in -MaxLength..MaxLength /\ capacity \in 0..MaxLength
  /\ Len(arrived) <= MaxLength + 1 /\ Len(totalData) <= MaxLength

\* However the data is cut into pieces, handleRequest gets a beginning of what was
\* sent, no longer than declared, and when the client declared what it sends, all of
\* it and for one reply (TcpConnection::start, readExpectedData).
DataAsSent ==
  handled # None =>
    /\ IsPrefix(handled.data, Body) /\ Len(handled.data) <= request.length
    /\ request.body = request.length => handled.data = Body /\ Len(replies) = 1

\* A client that sends all it declared is replied to, without closing first.
EveryRequestAnswered ==
  request # None /\ request.header # "cut" /\ request.body >= request.length
    ~> pc = "done" /\ replies # <<>>
=============================================================================
