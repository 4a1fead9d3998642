------------------------------ MODULE RaftProofs ------------------------------
(***************************************************************************)
(* At most one leader, for any number of nodes, crashes, restarts and       *)
(* heartbeats, and also when two messages are read as one, provided that    *)
(* the SEEDS entry of every node names all others.  And what the followers  *)
(* are told: of no ghosts, and of every node that lives, when every read    *)
(* returns one message.                                                     *)
(*                                                                          *)
(* The first argument: a node leads only after it has ruled out all others, *)
(* and a node is ruled out because its port is closed or because it         *)
(* follows.  Two nodes that both lead or may yet lead have not ruled out    *)
(* each other.  What makes this hard is connectToLeader: an answer of two   *)
(* fields is taken for the address of the leader, so that the proof has to  *)
(* show that no heartbeat, and no two of them read as one, look like such   *)
(* an answer while the node waits for the reply to its request.             *)
(*                                                                          *)
(* The second argument: each node on the list of a leader has a script, the *)
(* list it starts from and all messages up to the next heartbeat, wherever  *)
(* they are now.  Steps of the nodes move a message along the script and    *)
(* leave its end as it is (Quiet); only Register and DropConnection change  *)
(* it, and the leader's list in the same way (Adding, Dropping).            *)
(***************************************************************************)
EXTENDS RaftProperties, SequenceLemmas

\* SEEDS names all other nodes.
CompleteSeeds == \A n \in Node : \A m \in Node \ {n} : Contains(Seeds[n], m)

Field      == Node \cup Words \cup CrawlIDs
Message    == Seq(Field)
Connection == [node : Node, conn : Nat]
Reply      == [to : Connection, data : Message]

Electing(n) == role[n] \in {"starting", "leader"}

\* Node n waits for a reply, on connection Mine(n).
Trying(n) == role[n] = "starting" /\ cur[n] # 0
Mine(n)   == [node |-> n, conn |-> cur[n]]
Seed(n)   == Seeds[n][seed[n]]

\* ... and the seed it came from is not ruled out yet.
Hopeful(n) == Trying(n) /\ Seed(n) \notin ruledOut[n]

(***************************************************************************)
(* Messages by their shape: a heartbeat without changes, and those that     *)
(* are never taken for an address, by themselves or before another one.     *)
(***************************************************************************)
EmptyBeat(m) == Len(m) = 2 /\ m[2] = ""
Big(m)       == Len(m) >= 3 /\ (m[1] = "ok" \/ m[Len(m)] # "")
Harmless(m)  == EmptyBeat(m) \/ Big(m)
Apart(m, k)  == EmptyBeat(m) => Big(k)

\* What getHeartbeat adds to the crawl ID, if it is not empty.
Changes(ch) == ch # <<>> => Len(ch) >= 2 /\ ch[Len(ch)] # ""

(***************************************************************************)
(* The invariant                                                            *)
(***************************************************************************)
Typed ==
  /\ TypeOK
  /\ target \in [Node -> Message]
  /\ inbox \in [Node -> Seq(Message)]
  /\ \A n \in Node : \A i \in 1..Len(inbox[n]) : Len(inbox[n][i]) >= 2
  /\ others \in [Node -> Seq(Connection)]
  /\ backlog \in [Node -> SUBSET Connection]
  /\ replying \in [Node -> SUBSET Reply]
  /\ beat \in [Node -> Message]
  /\ nodeConnectionChange \in [Node -> Message]
  /\ crawlID \in [Node -> Field]

\* connectToLeader: the seeds before the current one are ruled out, and the address
\* that is dialled is the current seed's or one it sent n to.
Search ==
  \A n \in Node :
    /\ role[n] \in {"down", "leader"} => cur[n] = 0
    /\ role[n] = "starting" =>
         /\ \A i \in 1..Len(Seeds[n]) : i < seed[n] => Seeds[n][i] \in ruledOut[n]
         /\ SeedsLeft(n) => target[n] = SeedAt(n, seed[n]) \/ Seed(n) \in ruledOut[n]
    /\ Trying(n) => SeedsLeft(n) /\ target[n][1] \in Node
    /\ role[n] = "leader" => \A i \in 1..Len(Seeds[n]) : Seeds[n][i] \in ruledOut[n]

\* Two nodes that lead or may yet lead have not ruled out each other.
Exclusive ==
  \A n, m \in Node :
    n # m /\ Electing(n) /\ Electing(m) => ~(m \in ruledOut[n] /\ n \in ruledOut[m])

\* A connection is in one place: not handled yet, or on the list of one leader.
Waiting ==
  \A m \in Node : \A c \in backlog[m] :
    /\ c.conn <= dialled[c.node]
    /\ \A k \in Node : ~Contains(others[k], c) /\ \A r \in replying[k] : r.to # c
    /\ \A k \in Node : c \in backlog[k] => k = m

Listed ==
  \A m \in Node : \A i \in 1..Len(others[m]) :
    /\ others[m][i].conn <= dialled[others[m][i].node]
    /\ \A j \in 1..Len(others[m]) : others[m][i] = others[m][j] => i = j

Replies ==
  \A m \in Node : \A r \in replying[m] : r.to.conn <= dialled[r.to.node] /\ Big(r.data)

Places == Waiting /\ Listed /\ Replies

\* The connection n waits on is with the node it dialled.
Dialled ==
  \A n, m \in Node : Trying(n) =>
    /\ Mine(n) \in backlog[m] => m = target[n][1] /\ inbox[n] = <<>>
    /\ Contains(others[m], Mine(n)) => m = target[n][1]

\* heartbeatSender: what a heartbeat looks like, and when there is one.
Beats ==
  \A m \in Node :
    /\ beat[m] = <<>> \/ Harmless(beat[m])
    /\ left[m] > 0 => beat[m] # <<>>
    /\ Changes(nodeConnectionChange[m])

\* The heartbeat of m has not been sent to connection c.
Unsent(m, c) ==
  beat[m] # <<>> /\ (left[m] = 0 \/ \E i \in 1..left[m] : others[m][i] = c)

\* A heartbeat with changes, among them that c is there, is still to be sent to c.
News(m, c) == nodeConnectionChange[m] # <<>> \/ (Big(beat[m]) /\ Unsent(m, c))

\* Nothing that n may read looks like an address ...
Unmistakable ==
  \A n \in Node : Hopeful(n) =>
    /\ \A i \in 1..Len(inbox[n]) : Harmless(inbox[n][i])
    /\ Len(inbox[n]) >= 2 => Apart(inbox[n][1], inbox[n][2])

\* ... nor will: after a heartbeat without changes comes one with changes.
NewsFirst ==
  \A n, m \in Node : Hopeful(n) /\ Contains(others[m], Mine(n)) =>
    /\ inbox[n] = <<>> => News(m, Mine(n))
    /\ Len(inbox[n]) = 1 /\ EmptyBeat(inbox[n][1]) =>
         News(m, Mine(n)) /\ ~(EmptyBeat(beat[m]) /\ Unsent(m, Mine(n)))

RaftInv ==
  /\ Typed /\ Search /\ Exclusive /\ Places /\ Dialled /\ Beats /\ Unmistakable /\ NewsFirst

(***************************************************************************)
(* Messages                                                                 *)
(***************************************************************************)
\* What receiveData returns is a message again, and not an empty one.
LEMMA FieldsOfMessage ==
  ASSUME NEW m \in Message, Len(m) >= 2
  PROVE  Fields(m) \in Message /\ Len(Fields(m)) >= 1 /\ Len(Fields(m)) \in {Len(m), Len(m) - 1}
<1>1. m \in Seq(Field) /\ Len(m) \in Nat
  BY DEF Message
<1>2. Front(m) \in Seq(Field) /\ Len(Front(m)) = Len(m) - 1
  BY <1>1, FrontSeq
<1>3. Fields(m) \in {m, Front(m)}
  BY Zenon DEF Fields
<1> QED BY <1>1, <1>2, <1>3 DEF Message

LEMMA GlueOfMessages ==
  ASSUME NEW m \in Message, NEW k \in Message, Len(m) >= 2, Len(k) >= 2
  PROVE  Glue(m, k) \in Message /\ Len(Glue(m, k)) = Len(m) + Len(k) - 1
<1>1. m \in Seq(Field) /\ k \in Seq(Field) /\ Len(m) \in Nat /\ Len(k) \in Nat
  BY DEF Message
<1>2. Front(m) \in Seq(Field) /\ Len(Front(m)) = Len(m) - 1
  BY <1>1, FrontSeq
<1>3. <<"torn">> \in Seq(Field) /\ Len(<<"torn">>) = 1
  <2>1. "torn" \in Field
    BY DEF Field, Words
  <2> QED BY <2>1, SingletonSeq
<1>4. Tail(k) \in Seq(Field) /\ Len(Tail(k)) = Len(k) - 1
  BY <1>1, TailSeq
<1> HIDE DEF Field
<1> DEFINE a == Front(m) \o <<"torn">>
<1>5. a \in Seq(Field) /\ Len(a) = Len(m)
  BY <1>1, <1>2, <1>3, ConcatSeq
<1> HIDE DEF a
<1>6. a \o Tail(k) \in Seq(Field) /\ Len(a \o Tail(k)) = Len(m) + Len(k) - 1
  <2>1. a \o Tail(k) \in Seq(Field) /\ Len(a \o Tail(k)) = Len(a) + Len(Tail(k))
    BY <1>4, <1>5, ConcatSeq
  <2> QED BY <1>1, <1>4, <1>5, <2>1
<1> QED BY <1>6 DEF Glue, Message, a

\* A heartbeat or a reply of connectNewNode by itself is not taken for an address.
LEMMA NoAddress ==
  ASSUME NEW m \in Message, Harmless(m)
  PROVE  Fields(m)[1] = "ok" \/ Len(Fields(m)) # 2
<1>1. m \in Seq(Field) /\ Len(m) \in Nat
  BY DEF Message
<1>2. Len(m) >= 2
  <2>1. Len(m) = 2 \/ Len(m) >= 3
    BY Zenon DEF EmptyBeat, Big, Harmless
  <2> QED BY <1>1, <2>1
<1>3. Len(Front(m)) = Len(m) - 1 /\ Front(m)[1] = m[1]
  <2>1. 1 \in 1..(Len(m) - 1)
    BY <1>1, <1>2
  <2> QED BY <1>1, <1>2, <2>1, FrontSeq
<1>4. CASE EmptyBeat(m)
  <2>1. Fields(m) = Front(m) /\ Len(m) = 2
    BY <1>4, Zenon DEF EmptyBeat, Fields, Last
  <2> QED BY <1>3, <2>1
<1>5. CASE Big(m)
  <2>1. Fields(m) = m \/ (Fields(m) = Front(m) /\ m[1] = "ok")
    BY <1>5, Zenon DEF Big, Fields, Last
  <2>2. Len(m) >= 3
    BY <1>5, Zenon DEF Big
  <2>3. Len(m) # 2
    <3>1. \A j \in Nat : j >= 3 => j # 2
      OBVIOUS
    <3> QED BY <1>1, <2>2, <3>1, Zenon
  <2> QED BY <1>3, <2>1, <2>3, Zenon
<1> QED BY <1>4, <1>5 DEF Harmless

\* Nor are two, unless both are heartbeats without changes.
LEMMA NoGluedAddress ==
  ASSUME NEW m \in Message, NEW k \in Message, Harmless(m), Harmless(k), Apart(m, k)
  PROVE  Len(Fields(Glue(m, k))) # 2
<1>1. Len(m) \in Nat /\ Len(k) \in Nat
  BY DEF Message
<1>2. Len(m) >= 2 /\ Len(k) >= 2 /\ Len(m) + Len(k) - 1 >= 4
  <2>1. (Len(m) = 2 /\ Len(k) >= 3) \/ (Len(m) >= 3 /\ (Len(k) = 2 \/ Len(k) >= 3))
    BY Zenon DEF EmptyBeat, Big, Harmless, Apart
  <2> QED BY <1>1, <2>1
<1>3. Glue(m, k) \in Message /\ Len(Glue(m, k)) = Len(m) + Len(k) - 1
  BY <1>2, GlueOfMessages
<1>4. Len(Fields(Glue(m, k))) \in {Len(Glue(m, k)), Len(Glue(m, k)) - 1}
  <2>1. Len(Glue(m, k)) >= 2
    BY <1>1, <1>2, <1>3
  <2> QED BY <1>3, <2>1, FieldsOfMessage
<1> DEFINE f == Len(Fields(Glue(m, k)))
           g == Len(Glue(m, k))
           a == Len(m)
           b == Len(k)
<1>5. a \in Nat /\ b \in Nat /\ a + b - 1 >= 4 /\ g = a + b - 1 /\ f \in {g, g - 1}
  BY <1>1, <1>2, <1>3, <1>4, Zenon
<1> HIDE DEF f, g, a, b
<1>6. f # 2
  BY <1>5
<1> QED BY <1>6 DEF f

LEMMA AddressIsMessage ==
  ASSUME NEW c \in Connection
  PROVE  Address(c) \in Seq(Field) /\ Len(Address(c)) = 2 /\ Address(c)[2] = "port"
<1>1. c.node \in Field /\ "port" \in Field
  BY DEF Connection, Field, Words
<1> HIDE DEF Field
<1> QED BY <1>1, PairSeq, Zenon DEF Address

\* The reply of connectNewNode.
LEMMA InitialDataIsMessage ==
  ASSUME Typed, NEW m \in Node
  PROVE  InitialData(m) \in Seq(Field)
<1> DEFINE ss == [i \in DOMAIN others[m] |-> Address(others[m][i])]
<1>1. others[m] \in Seq(Connection)
  BY DEF Typed
<1>2. Len(others[m]) \in Nat /\ DOMAIN others[m] = 1..Len(others[m])
  BY <1>1
<1>3. \A i \in DOMAIN others[m] : others[m][i] \in Connection
  BY <1>1
<1>4. \A i \in DOMAIN others[m] : Address(others[m][i]) \in Seq(Field)
  BY <1>3, AddressIsMessage
<1>5. ss \in Seq(Seq(Field))
  BY <1>2, <1>4
<1> HIDE DEF ss
<1>6. FlattenSeq(ss) \in Seq(Field)
  BY <1>5, FlattenType
<1> QED BY <1>6, Zenon DEF InitialData, ss

LEMMA ReplyIsBig ==
  ASSUME Typed, NEW m \in Node, NEW c \in Connection
  PROVE  /\ <<"ok">> \o Address(c) \o InitialData(m) \in Message
         /\ Big(<<"ok">> \o Address(c) \o InitialData(m))
<1> DEFINE a == <<"ok">> \o Address(c)
           d == InitialData(m)
<1>1. <<"ok">> \in Seq(Field) /\ Len(<<"ok">>) = 1 /\ <<"ok">>[1] = "ok"
  <2>1. "ok" \in Field
    BY DEF Field, Words
  <2> QED BY <2>1, SingletonSeq
<1>2. a \in Seq(Field) /\ Len(a) = 3 /\ a[1] = "ok"
  <2>1. 1 \in 1..Len(<<"ok">>)
    BY <1>1
  <2>2. Address(c) \in Seq(Field) /\ Len(Address(c)) = 2
    BY AddressIsMessage
  <2>3. a \in Seq(Field) /\ Len(a) = Len(<<"ok">>) + Len(Address(c)) /\ a[1] = <<"ok">>[1]
    BY <1>1, <2>1, <2>2, ConcatSeq
  <2> HIDE DEF a
  <2> QED BY <1>1, <2>2, <2>3
<1>3. d \in Seq(Field) /\ Len(d) \in Nat
  BY InitialDataIsMessage
<1> HIDE DEF a, d
<1>4. a \o d \in Seq(Field) /\ Len(a \o d) = 3 + Len(d) /\ (a \o d)[1] = "ok"
  <2>1. 1 \in 1..Len(a)
    BY <1>2
  <2>2. a \o d \in Seq(Field) /\ Len(a \o d) = Len(a) + Len(d) /\ (a \o d)[1] = a[1]
    BY <1>2, <1>3, <2>1, ConcatSeq
  <2> QED BY <1>2, <2>2, Zenon
<1>5. Len(a \o d) >= 3
  BY <1>3, <1>4
<1> QED BY <1>4, <1>5, Zenon DEF a, d, Big, Message

(***************************************************************************)
(* Types                                                                    *)
(***************************************************************************)
LEMMA TypedInit == Init => Typed
<1> SUFFICES ASSUME Init PROVE Typed
  OBVIOUS
<1>1. \A n \in Node : <<n, "port">> \in Seq(Field)
  <2>1. Node \subseteq Field /\ "port" \in Field
    BY DEF Field, Words
  <2> QED BY <2>1, PairSeq
<1>2. FirstCrawlID \in Field
  BY CrawlAssumption DEF Field
<1>3. TypeOK
  BY DEF Init, TypeOK
<1> QED BY <1>1, <1>2, <1>3 DEF Init, Typed, Message

LEMMA TypedBoot ==
  ASSUME Typed, NEW n \in Node, Boot(n)
  PROVE  Typed'
<1>1. Seeds[n] # <<>> => SeedAt(n, 1) \in Message
  <2>1. SUFFICES ASSUME Seeds[n] # <<>> PROVE Seeds[n][1] \in Field /\ "port" \in Field
    BY PairSeq DEF SeedAt, Message
  <2>2. Seeds[n][1] \in Node
    BY <2>1, SeedsAssumption
  <2> QED BY <2>2 DEF Field, Words
<1>2. TypeOK'
  BY DEF Typed, TypeOK, Boot, links, follow, lead, serve
<1>3. target' \in [Node -> Message]
  BY <1>1 DEF Typed, Boot
<1> QED BY <1>2, <1>3 DEF Typed, Boot, links, follow, lead, serve

LEMMA TypedDie ==
  ASSUME Typed, NEW n \in Node, Die(n)
  PROVE  Typed'
<1>1. FirstCrawlID \in Field
  BY CrawlAssumption DEF Field
<1>2. TypeOK'
  BY DEF Typed, TypeOK, Die
<1> QED BY <1>1, <1>2 DEF Typed, Die, Message

LEMMA InboxMessage ==
  ASSUME Typed, NEW n \in Node, NEW i \in 1..Len(inbox[n])
  PROVE  inbox[n][i] \in Message /\ Len(inbox[n][i]) \in Nat /\ Len(inbox[n][i]) >= 2
<1>1. Len(inbox[n][i]) >= 2
  BY Zenon DEF Typed
<1>2. inbox[n] \in Seq(Message)
  BY DEF Typed
<1>3. inbox[n][i] \in Message
  BY <1>2
<1>4. \A m \in Message : Len(m) \in Nat
  BY DEF Message
<1> QED BY <1>1, <1>3, <1>4, Zenon

LEMMA TypedDial ==
  ASSUME Typed, NEW n \in Node, Dial(n)
  PROVE  Typed'
<1>1. PICK to \in Node :
        /\ dialled' = [dialled EXCEPT ![n] = dialled[n] + 1]
        /\ open' = [open EXCEPT ![n] = @ \cup {dialled[n] + 1}]
        /\ cur' = [cur EXCEPT ![n] = dialled[n] + 1]
        /\ peer' = [peer EXCEPT ![n] = to]
        /\ inbox' = [inbox EXCEPT ![n] = <<>>]
        /\ backlog' = [backlog EXCEPT ![to] = @ \cup {[node |-> n, conn |-> dialled[n] + 1]}]
  BY Zenon DEF Dial, Listening
<1>2. UNCHANGED <<role, seed, target, ruledOut, leaderIp, crawlID, others, nodeConnectionChange,
                  beat, left, replying, forward>>
  BY DEF Dial, election, follow, lead
<1>3. [node |-> n, conn |-> dialled[n] + 1] \in Connection
  BY DEF Typed, TypeOK, Connection
<1>4. TypeOK'
  <2>1. dialled' \in [Node -> Nat] /\ cur' \in [Node -> Nat] /\ peer' \in [Node -> Node \cup {NoNode}]
    BY <1>1 DEF Typed, TypeOK
  <2>2. open' \in [Node -> SUBSET Nat]
    BY <1>1 DEF Typed, TypeOK
  <2>3. \A x \in Node : cur'[x] # 0 => cur'[x] \in open'[x]
    BY <1>1 DEF Typed, TypeOK
  <2>4. \A x \in Node : left'[x] <= Len(others'[x])
    BY <1>2 DEF Typed, TypeOK
  <2> QED BY <1>2, <2>1, <2>2, <2>3, <2>4 DEF Typed, TypeOK
<1>5. backlog' \in [Node -> SUBSET Connection]
  BY <1>1, <1>3 DEF Typed
<1>6. inbox' \in [Node -> Seq(Message)]
  BY <1>1 DEF Typed
<1>7. ASSUME NEW x \in Node, NEW i \in 1..Len(inbox'[x]) PROVE Len(inbox'[x][i]) >= 2
  <2>1. inbox'[x] = IF x = n THEN <<>> ELSE inbox[x]
    BY <1>1 DEF Typed
  <2>2. x # n
    BY <1>7, <2>1
  <2> QED BY <1>7, <2>1, <2>2, InboxMessage, Zenon
<1> QED BY <1>2, <1>4, <1>5, <1>6, <1>7 DEF Typed

LEMMA SeedIsNode ==
  ASSUME NEW n \in Node, NEW i \in 1..Len(Seeds[n])
  PROVE  Seeds[n][i] \in Node /\ SeedAt(n, i) \in Message
<1>1. Seeds[n][i] \in Node
  BY SeedsAssumption
<1>2. Seeds[n][i] \in Field /\ "port" \in Field
  BY <1>1 DEF Field, Words
<1> QED BY <1>1, <1>2, PairSeq DEF SeedAt, Message

LEMMA TypedRefused ==
  ASSUME Typed, NEW n \in Node, Refused(n)
  PROVE  Typed'
<1>1. seed[n] \in 1..Len(Seeds[n]) /\ Len(Seeds[n]) \in Nat
  BY SeedsAssumption DEF Refused, Dialling, SeedsLeft, Typed, TypeOK
<1>2. Seeds[n][seed[n]] \in Node
  BY <1>1, SeedIsNode
<1>3. seed[n] < Len(Seeds[n]) => SeedAt(n, seed[n] + 1) \in Message
  <2>1. ASSUME seed[n] < Len(Seeds[n]) PROVE seed[n] + 1 \in 1..Len(Seeds[n])
    BY <1>1, <2>1
  <2> QED BY <2>1, SeedIsNode
<1>4. target' \in [Node -> Message]
  BY <1>3 DEF Typed, Refused, NextSeed
<1>5. PICK s \in Node : ruledOut' = [ruledOut EXCEPT ![n] = @ \cup {s}]
  BY <1>2, Zenon DEF Refused, NextSeed
<1>6. seed' = [seed EXCEPT ![n] = @ + 1] /\ UNCHANGED <<role, links, follow, lead, serve, crawlID, forward>>
  BY Zenon DEF Refused, NextSeed
<1>7. /\ seed' \in [Node -> Nat \ {0}]
      /\ ruledOut' \in [Node -> SUBSET Node]
  BY <1>5, <1>6 DEF Typed, TypeOK
<1>8. UNCHANGED <<role, dialled, open, cur, peer, leaderIp, left, forward, others>>
  BY <1>6, Zenon DEF links, follow, lead
<1>9. TypeOK'
  BY <1>7, <1>8, Zenon DEF Typed, TypeOK
<1> QED BY <1>4, <1>6, <1>9 DEF Typed, links, follow, lead, serve

LEMMA TypedAssumeLeadership ==
  ASSUME Typed, NEW n \in Node, AssumeLeadership(n)
  PROVE  Typed'
<1>1. TypeOK'
  BY DEF Typed, TypeOK, AssumeLeadership, links, follow, lead
<1> QED BY <1>1 DEF Typed, AssumeLeadership, links, follow, lead, serve

\* One or two unread messages, as receiveData returns them.
LEMMA ReceivedIsMessage ==
  ASSUME Typed, NEW n \in Node, NEW k \in Readable(n)
  PROVE  /\ k \in 1..Len(inbox[n])
         /\ Received(n, k) \in Message /\ Len(Received(n, k)) >= 1
<1>1. inbox[n] \in Seq(Message) /\ Len(inbox[n]) \in Nat
  BY DEF Typed
<1>2. k \in 1..Len(inbox[n]) /\ k \in {1, 2} /\ 1 \in 1..Len(inbox[n])
  BY <1>1, ReadAssumption DEF Readable
<1>3. CASE k = 1
  <2>1. Received(n, k) = Fields(inbox[n][1])
    BY <1>3, Zenon DEF Received
  <2> QED BY <1>2, <2>1, InboxMessage, FieldsOfMessage, Zenon
<1>4. CASE k = 2
  <2>1. Received(n, k) = Fields(Glue(inbox[n][1], inbox[n][2]))
    BY <1>4 DEF Received
  <2>2. 2 \in 1..Len(inbox[n])
    BY <1>2, <1>4
  <2>3. /\ Glue(inbox[n][1], inbox[n][2]) \in Message
        /\ Len(Glue(inbox[n][1], inbox[n][2])) = Len(inbox[n][1]) + Len(inbox[n][2]) - 1
    BY <1>2, <2>2, InboxMessage, GlueOfMessages, Zenon
  <2>4. \A a, b \in Nat : a >= 2 /\ b >= 2 => a + b - 1 >= 2
    OBVIOUS
  <2>5. Len(Glue(inbox[n][1], inbox[n][2])) >= 2
    BY <1>2, <2>2, <2>3, <2>4, InboxMessage, Zenon
  <2> QED BY <1>2, <2>1, <2>3, <2>5, FieldsOfMessage, Zenon
<1> QED BY <1>2, <1>3, <1>4

\* ... and what is left unread.
LEMMA TypedInboxRest ==
  ASSUME Typed, NEW n \in Node, NEW k \in Readable(n),
         inbox' = [inbox EXCEPT ![n] = SubSeq(@, k + 1, Len(@))]
  PROVE  /\ inbox' \in [Node -> Seq(Message)]
         /\ \A x \in Node : \A i \in 1..Len(inbox'[x]) : Len(inbox'[x][i]) >= 2
<1>1. k \in 1..Len(inbox[n]) /\ inbox[n] \in Seq(Message) /\ Len(inbox[n]) \in Nat
  <2>1. inbox[n] \in Seq(Message) /\ Len(inbox[n]) \in Nat
    BY DEF Typed
  <2> QED BY <2>1, ReceivedIsMessage, Zenon
<1> DEFINE r == SubSeq(inbox[n], k + 1, Len(inbox[n]))
<1>2. /\ r \in Seq(Message) /\ Len(r) = Len(inbox[n]) - k
      /\ \A i \in 1..(Len(inbox[n]) - k) : r[i] = inbox[n][k + i]
  BY <1>1, DropSeq
<1>3. inbox' = [inbox EXCEPT ![n] = r]
  OBVIOUS
<1> HIDE DEF r
<1>4. \A i \in 1..Len(r) : k + i \in 1..Len(inbox[n])
  BY <1>1, <1>2
<1>5. \A i \in 1..Len(r) : Len(r[i]) >= 2
  BY <1>2, <1>4 DEF Typed
<1> QED BY <1>2, <1>3, <1>5 DEF Typed

LEMMA TypedReadReply ==
  ASSUME Typed, Search, NEW n \in Node, ReadReply(n)
  PROVE  Typed'
<1>1. PICK k \in Readable(n) :
        /\ \/ Joined(n, Received(n, k))
           \/ Redirected(n, Received(n, k))
           \/ Repeated(n)
        /\ inbox' = [inbox EXCEPT ![n] = SubSeq(@, k + 1, Len(@))]
  BY Zenon DEF ReadReply
<1>2. /\ inbox' \in [Node -> Seq(Message)]
      /\ \A x \in Node : \A i \in 1..Len(inbox'[x]) : Len(inbox'[x][i]) >= 2
  BY <1>1, TypedInboxRest
<1>3. Received(n, k) \in Message
  BY ReceivedIsMessage
<1>4. target[n][1] \in Node
  BY DEF Search, Trying, ReadReply
<1>5. PICK f \in Message, to \in Node :
        \/ /\ role' = [role EXCEPT ![n] = "follower"] /\ leaderIp' = [leaderIp EXCEPT ![n] = to]
           /\ UNCHANGED <<target, cur, open>>
        \/ /\ target' = [target EXCEPT ![n] = f] /\ cur' = [cur EXCEPT ![n] = 0]
           /\ open' = [open EXCEPT ![n] = @ \ {cur[n]}] /\ UNCHANGED <<role, leaderIp>>
        \/ cur' = [cur EXCEPT ![n] = 0] /\ UNCHANGED <<role, target, open, leaderIp>>
  BY <1>1, <1>3, <1>4, Zenon DEF Joined, Redirected, Repeated, follow
<1>6. /\ role' \in [Node -> {"down", "starting", "leader", "follower"}]
      /\ leaderIp' \in [Node -> Node]
      /\ open' \in [Node -> SUBSET Nat]
      /\ cur' \in [Node -> Nat]
      /\ target' \in [Node -> Message]
      /\ \A x \in Node : cur'[x] # 0 => cur'[x] \in open'[x]
  <2> DEFINE R == {"down", "starting", "leader", "follower"}
  <2>4. /\ cur \in [Node -> Nat] /\ open \in [Node -> SUBSET Nat] /\ target \in [Node -> Message]
        /\ role \in [Node -> R] /\ leaderIp \in [Node -> Node] /\ "follower" \in R
    BY DEF Typed, TypeOK
  <2> HIDE DEF R
  <2>1. cur' \in [Node -> Nat] /\ open' \in [Node -> SUBSET Nat] /\ target' \in [Node -> Message]
    BY <1>5, <2>4
  <2>2. role' \in [Node -> R] /\ leaderIp' \in [Node -> Node]
    BY <1>5, <2>4
  <2>3. \A x \in Node : cur'[x] # 0 => cur'[x] \in open'[x]
    BY <1>5 DEF Typed, TypeOK
  <2> QED BY <2>1, <2>2, <2>3 DEF R
<1>7. UNCHANGED <<seed, ruledOut, dialled, peer, crawlID, lead, serve, forward>>
  BY Zenon DEF ReadReply
<1>8. TypeOK'
  BY <1>6, <1>7 DEF Typed, TypeOK, lead
<1> QED BY <1>2, <1>6, <1>7, <1>8 DEF Typed, lead, serve

\* A message is appended to the inbox of the node that reads the connection.
LEMMA DeliveredBox ==
  ASSUME Typed, NEW c \in Connection, NEW m, inbox' = Delivered(inbox, c, m), NEW x \in Node
  PROVE  inbox'[x] = IF x = c.node /\ cur[x] = c.conn THEN Append(inbox[x], m) ELSE inbox[x]
<1>1. c.node \in Node /\ DOMAIN inbox = Node
  BY DEF Connection, Typed
<1> QED BY <1>1, Zenon DEF Delivered, Current

LEMMA TypedDelivered ==
  ASSUME Typed, NEW c \in Connection, NEW m \in Message, Len(m) >= 2,
         inbox' = Delivered(inbox, c, m)
  PROVE  /\ inbox' \in [Node -> Seq(Message)]
         /\ \A x \in Node : \A i \in 1..Len(inbox'[x]) : Len(inbox'[x][i]) >= 2
<1>1. inbox \in [Node -> Seq(Message)] /\ c.node \in Node
  BY DEF Typed, Connection
<1>2. inbox' \in [Node -> Seq(Message)]
  BY <1>1, AppendSeq DEF Delivered
<1>3. ASSUME NEW x \in Node, NEW i \in 1..Len(inbox'[x]) PROVE Len(inbox'[x][i]) >= 2
  <2>1. CASE inbox'[x] = inbox[x]
    BY <1>3, <2>1, InboxMessage, Zenon
  <2>2. CASE inbox'[x] = Append(inbox[x], m)
    <3>1. inbox[x] \in Seq(Message) /\ Len(inbox[x]) \in Nat
      BY <1>1
    <3>2. /\ Len(inbox'[x]) = Len(inbox[x]) + 1 /\ inbox'[x][Len(inbox[x]) + 1] = m
          /\ \A j \in 1..Len(inbox[x]) : inbox'[x][j] = inbox[x][j]
      <4> DEFINE s == inbox[x]
                 a == Append(s, m)
      <4>1. /\ Len(a) = Len(s) + 1 /\ a[Len(s) + 1] = m
            /\ \A j \in 1..Len(s) : a[j] = s[j]
        <5>1. s \in Seq(Message)
          BY <3>1
        <5> HIDE DEF s
        <5> QED BY <5>1, AppendSeq
      <4>2. inbox'[x] = a
        BY <2>2
      <4> HIDE DEF a
      <4> QED BY <4>1, <4>2, Zenon
    <3>3. i \in 1..Len(inbox[x]) \/ i = Len(inbox[x]) + 1
      <4>1. \A a \in Nat : \A j \in 1..(a + 1) : j \in 1..a \/ j = a + 1
        OBVIOUS
      <4> QED BY <1>3, <3>1, <3>2, <4>1, Zenon
    <3> QED BY <3>2, <3>3, InboxMessage, Zenon
  <2> QED BY <2>1, <2>2, DeliveredBox, Zenon
<1> QED BY <1>2, <1>3

LEMMA TypedRegister ==
  ASSUME Typed, NEW m \in Node, NEW c \in backlog[m], Register(m, c)
  PROVE  Typed'
<1> DEFINE data == <<"ok">> \o Address(c) \o InitialData(m)
<1>1. c \in Connection
  BY DEF Typed
<1>2. data \in Message /\ [to |-> c, data |-> data] \in Reply
  <2>1. data \in Message
    BY <1>1, ReplyIsBig
  <2> HIDE DEF data
  <2> QED BY <1>1, <2>1 DEF Reply
<1>3. nodeConnectionChange[m] \o <<"A">> \o Address(c) \in Message
  <2>1. nodeConnectionChange[m] \in Seq(Field) /\ <<"A">> \in Seq(Field)
    BY SingletonSeq DEF Typed, Message, Field, Words
  <2> QED BY <1>1, <2>1, AddressIsMessage, ConcatSeq DEF Message
<1>4. /\ backlog' = [backlog EXCEPT ![m] = @ \ {c}]
      /\ replying' = [replying EXCEPT ![m] = @ \cup {[to |-> c, data |-> data]}]
      /\ others' = [others EXCEPT ![m] = Append(@, c)]
      /\ nodeConnectionChange' =
           [nodeConnectionChange EXCEPT ![m] = nodeConnectionChange[m] \o <<"A">> \o Address(c)]
      /\ UNCHANGED <<election, links, follow, crawlID, beat, left, forward>>
  BY Zenon DEF Register
<1> HIDE DEF data
<1>5. replying' \in [Node -> SUBSET Reply]
  BY <1>2, <1>4 DEF Typed
<1>6. nodeConnectionChange' \in [Node -> Message]
  BY <1>3, <1>4 DEF Typed
<1>7. others' \in [Node -> Seq(Connection)] /\ \A x \in Node : left'[x] <= Len(others'[x])
  BY <1>1, <1>4 DEF Typed, TypeOK
<1>8. TypeOK'
  BY <1>4, <1>7 DEF Typed, TypeOK, election, links, follow
<1>9. backlog' \in [Node -> SUBSET Connection]
  BY <1>4 DEF Typed
<1> QED BY <1>4, <1>5, <1>6, <1>7, <1>8, <1>9 DEF Typed, election, links

LEMMA TypedWriteReply ==
  ASSUME Typed, Places, NEW m \in Node, NEW r \in replying[m], WriteReply(m, r)
  PROVE  Typed'
<1>1. r.to \in Connection /\ r.data \in Message /\ Len(r.data) >= 2
  <2>1. r.to \in Connection /\ r.data \in Message
    BY DEF Typed, Reply
  <2>2. Len(r.data) >= 3
    BY Zenon DEF Places, Replies, Big
  <2>3. Len(r.data) \in Nat
    BY <2>1 DEF Message
  <2>4. \A j \in Nat : j >= 3 => j >= 2
    OBVIOUS
  <2> QED BY <2>1, <2>2, <2>3, <2>4, Zenon
<1>2. /\ inbox' \in [Node -> Seq(Message)]
      /\ \A x \in Node : \A i \in 1..Len(inbox'[x]) : Len(inbox'[x][i]) >= 2
  BY <1>1, TypedDelivered, Zenon DEF WriteReply
<1>3. replying' \in [Node -> SUBSET Reply]
  BY DEF Typed, WriteReply
<1>4. UNCHANGED <<election, dialled, open, cur, peer, follow, crawlID, lead, backlog, forward>>
  BY Zenon DEF WriteReply
<1>5. TypeOK'
  BY <1>4 DEF Typed, TypeOK, election, follow, lead
<1> QED BY <1>2, <1>3, <1>4, <1>5 DEF Typed, election, follow, lead

LEMMA TypedRedirect ==
  ASSUME Typed, NEW m \in Node, NEW c \in backlog[m], Redirect(m, c)
  PROVE  Typed'
<1>1. c \in Connection /\ c.node \in Node
  BY DEF Typed, Connection
<1>2. <<leaderIp[m], "port">> \in Message /\ Len(<<leaderIp[m], "port">>) >= 2
  <2>1. leaderIp[m] \in Field /\ "port" \in Field
    BY DEF Typed, TypeOK, Field, Words
  <2> QED BY <2>1, PairSeq DEF Message
<1>3. /\ inbox' \in [Node -> Seq(Message)]
      /\ \A x \in Node : \A i \in 1..Len(inbox'[x]) : Len(inbox'[x][i]) >= 2
  <2>1. inbox' = Delivered(inbox, c, <<leaderIp[m], "port">>)
    BY Zenon DEF Redirect
  <2> QED BY <1>1, <1>2, <2>1, TypedDelivered, Zenon
<1>4. backlog' \in [Node -> SUBSET Connection]
  BY DEF Typed, Redirect
<1>5. ruledOut' \in [Node -> SUBSET Node]
  BY <1>1 DEF Typed, TypeOK, Redirect
<1>6. UNCHANGED <<role, seed, target, dialled, open, cur, peer, follow, crawlID, lead, replying, forward>>
  BY Zenon DEF Redirect
<1>7. TypeOK'
  BY <1>5, <1>6 DEF Typed, TypeOK, follow, lead
<1> QED BY <1>3, <1>4, <1>6, <1>7 DEF Typed, follow, lead

\* A heartbeat: without changes, or with changes of two fields or more.
LEMMA EmptyHeartbeat ==
  ASSUME NEW id \in Field
  PROVE  <<id>> \o <<"">> \in Message /\ EmptyBeat(<<id>> \o <<"">>)
<1> DEFINE a == <<id>>
           e == <<"">>
<1>1. "" \in Field
  BY DEF Field, Words
<1>2. a \in Seq(Field) /\ Len(a) = 1 /\ e \in Seq(Field) /\ Len(e) = 1
  BY <1>1, SingletonSeq
<1>6. e[1] = ""
  BY <1>1, SingletonSeq
<1> HIDE DEF a, e
<1>3. 1 \in 1..Len(e) /\ Len(a) + 1 = 2 /\ Len(a) + Len(e) = 2
  BY <1>2
<1>4. a \o e \in Seq(Field) /\ Len(a \o e) = Len(a) + Len(e) /\ (a \o e)[Len(a) + 1] = e[1]
  BY <1>2, <1>3, ConcatSeq
<1>5. a \o e \in Seq(Field) /\ Len(a \o e) = 2 /\ (a \o e)[2] = ""
  BY <1>3, <1>4, <1>6, Zenon
<1> QED BY <1>5 DEF a, e, Message, EmptyBeat

LEMMA FullHeartbeat ==
  ASSUME NEW id \in Field, NEW ch \in Message, ch # <<>>, Changes(ch)
  PROVE  <<id>> \o ch \in Message /\ Big(<<id>> \o ch)
<1> DEFINE a == <<id>>
<1>1. ch \in Seq(Field) /\ Len(ch) \in Nat
  BY DEF Message
<1>2. a \in Seq(Field) /\ Len(a) = 1
  BY SingletonSeq
<1> HIDE DEF a
<1>3. Len(ch) >= 2 /\ ch[Len(ch)] # ""
  BY Zenon DEF Changes
<1>4. \A j \in Nat : j >= 2 => j \in 1..j /\ 1 + j >= 3
  OBVIOUS
<1>5. Len(ch) \in 1..Len(ch) /\ 1 + Len(ch) >= 3
  BY <1>1, <1>3, <1>4, Zenon
<1>6. /\ a \o ch \in Seq(Field) /\ Len(a \o ch) = Len(a) + Len(ch)
      /\ (a \o ch)[Len(a) + Len(ch)] = ch[Len(ch)]
  BY <1>1, <1>2, <1>5, ConcatSeq
<1>7. a \o ch \in Message /\ Big(a \o ch)
  BY <1>2, <1>3, <1>5, <1>6, Zenon DEF Message, Big
<1> QED BY <1>7 DEF a

\* What getHeartbeat returns.
LEMMA HeartbeatShape ==
  ASSUME Typed, Beats, NEW m \in Node, TakeHeartbeat(m)
  PROVE  \E b \in Message :
           /\ beat' = [beat EXCEPT ![m] = b]
           /\ \/ nodeConnectionChange[m] = <<>> /\ EmptyBeat(b)
              \/ nodeConnectionChange[m] # <<>> /\ Big(b)
<1> DEFINE ch == nodeConnectionChange[m]
           b == <<crawlID[m]>> \o (IF ch = <<>> THEN <<"">> ELSE ch)
<1>1. crawlID[m] \in Field /\ ch \in Message
  BY DEF Typed
<1>2. Changes(ch)
  BY Zenon DEF Beats
<1>3. beat' = [beat EXCEPT ![m] = b]
  BY Zenon DEF TakeHeartbeat
<1>4. CASE ch = <<>>
  <2>1. b = <<crawlID[m]>> \o <<"">>
    BY <1>4, Zenon
  <2>2. b \in Message /\ EmptyBeat(b)
    BY <1>1, <2>1, EmptyHeartbeat, Zenon
  <2> HIDE DEF b
  <2> QED BY <1>3, <1>4, <2>2, Zenon
<1>5. CASE ch # <<>>
  <2>1. b = <<crawlID[m]>> \o ch
    BY <1>5, Zenon
  <2>2. b \in Message /\ Big(b)
    BY <1>1, <1>2, <1>5, <2>1, FullHeartbeat, Zenon
  <2> QED BY <1>3, <1>5, <2>2, Zenon
<1> QED BY <1>4, <1>5, Zenon

LEMMA TypedTakeHeartbeat ==
  ASSUME Typed, Beats, NEW m \in Node, TakeHeartbeat(m)
  PROVE  Typed'
<1>1. PICK b \in Message : beat' = [beat EXCEPT ![m] = b]
  BY HeartbeatShape, Zenon
<1>2. /\ nodeConnectionChange' = [nodeConnectionChange EXCEPT ![m] = <<>>]
      /\ UNCHANGED <<election, links, follow, crawlID, others, left, serve, forward>>
  BY Zenon DEF TakeHeartbeat
<1>3. <<>> \in Message
  BY DEF Message
<1>4. beat' \in [Node -> Message] /\ nodeConnectionChange' \in [Node -> Message]
  BY <1>1, <1>2, <1>3 DEF Typed
<1>5. TypeOK'
  BY <1>2 DEF Typed, TypeOK, election, links, follow
<1> QED BY <1>2, <1>4, <1>5 DEF Typed, election, links, serve

LEMMA TypedBeginSend ==
  ASSUME Typed, NEW m \in Node, BeginSend(m)
  PROVE  Typed'
<1>1. <<>> \in Message
  BY DEF Message
<1>2. beat' \in [Node -> Message]
  BY <1>1 DEF Typed, BeginSend
<1>3. /\ left' = [left EXCEPT ![m] = Len(others[m])]
      /\ UNCHANGED <<election, links, follow, crawlID, others, nodeConnectionChange, serve, forward>>
  BY Zenon DEF BeginSend
<1>4. TypeOK'
  BY <1>3 DEF Typed, TypeOK, election, links, follow
<1> QED BY <1>2, <1>3, <1>4 DEF Typed, election, links, serve

LEMMA TypedCrawlDone ==
  ASSUME Typed, NEW m \in Node, CrawlDone(m)
  PROVE  Typed'
<1>1. PICK c \in CrawlIDs : crawlID' = [crawlID EXCEPT ![m] = c]
  BY Zenon DEF CrawlDone
<1>2. c \in Field
  BY DEF Field
<1>3. crawlID' \in [Node -> Field]
  BY <1>1, <1>2 DEF Typed
<1>4. UNCHANGED <<election, links, follow, lead, serve, forward>>
  BY Zenon DEF CrawlDone
<1>5. TypeOK'
  BY <1>4 DEF Typed, TypeOK, election, links, follow, lead
<1> QED BY <1>3, <1>4, <1>5 DEF Typed, election, links, lead, serve

LEMMA TypedReadHeartbeat ==
  ASSUME Typed, NEW n \in Node, ReadHeartbeat(n)
  PROVE  Typed'
<1>1. PICK k \in Readable(n) :
        /\ crawlID' = [crawlID EXCEPT ![n] = Received(n, k)[1]]
        /\ inbox' = [inbox EXCEPT ![n] = SubSeq(@, k + 1, Len(@))]
  BY Zenon DEF ReadHeartbeat
<1>2. /\ inbox' \in [Node -> Seq(Message)]
      /\ \A x \in Node : \A i \in 1..Len(inbox'[x]) : Len(inbox'[x][i]) >= 2
  BY <1>1, TypedInboxRest
<1>3. Received(n, k)[1] \in Field
  <2> DEFINE f == Received(n, k)
  <2>1. f \in Seq(Field) /\ Len(f) >= 1
    BY ReceivedIsMessage, Zenon DEF Message
  <2> HIDE DEF f
  <2>2. f[1] \in Field
    BY <2>1
  <2> QED BY <2>2 DEF f
<1>4. crawlID' \in [Node -> Field]
  BY <1>1, <1>3 DEF Typed
<1>5. UNCHANGED <<election, dialled, open, cur, peer, leaderIp, lead, serve, forward>>
  BY Zenon DEF ReadHeartbeat
<1>6. TypeOK'
  BY <1>5 DEF Typed, TypeOK, election, lead
<1> QED BY <1>2, <1>4, <1>5, <1>6 DEF Typed, election, lead, serve

LEMMA TypedPass ==
  ASSUME Typed, NEW n \in Node,
         \/ PassRequest(n) \/ PassAnswer(n)
         \/ /\ forward' = [forward EXCEPT ![n] = "answered"]
            /\ UNCHANGED <<election, links, follow, crawlID, lead, serve>>
  PROVE  Typed'
<1>1. /\ forward' \in [Node -> {"none", "waiting", "closed", "answered"}]
      /\ UNCHANGED <<election, links, follow, crawlID, lead, serve>>
  BY DEF PassRequest, PassAnswer, Typed, TypeOK
<1>2. TypeOK'
  BY <1>1 DEF Typed, TypeOK, election, links, follow, lead
<1> QED BY <1>1, <1>2 DEF Typed, election, links, follow, lead, serve

\* One more change is told to the followers.
LEMMA ChangeAdded ==
  ASSUME NEW ch \in Message, NEW op \in Field, NEW c \in Connection
  PROVE  LET more == ch \o <<op>> \o Address(c)
         IN more \in Message /\ more # <<>> /\ Changes(more)
<1> DEFINE a == ch \o <<op>>
           d == Address(c)
<1>1. ch \in Seq(Field) /\ Len(ch) \in Nat
  BY DEF Message
<1>2. <<op>> \in Seq(Field) /\ Len(<<op>>) = 1
  BY SingletonSeq
<1>3. a \in Seq(Field) /\ Len(a) = Len(ch) + 1
  BY <1>1, <1>2, ConcatSeq
<1>4. d \in Seq(Field) /\ Len(d) = 2 /\ d[2] = "port"
  BY AddressIsMessage
<1> HIDE DEF a, d
<1>5. d \in Seq(Field) /\ 2 \in 1..Len(d)
  <2>1. 2 \in 1..2
    OBVIOUS
  <2> QED BY <1>4, <2>1, Zenon
<1>6. a \o d \in Seq(Field) /\ Len(a \o d) = Len(a) + Len(d) /\ (a \o d)[Len(a) + 2] = d[2]
  <2>1. /\ a \o d \in Seq(Field) /\ Len(a \o d) = Len(a) + Len(d)
        /\ \A i \in 1..Len(d) : (a \o d)[Len(a) + i] = d[i]
    <3>1. a \in Seq(Field) /\ d \in Seq(Field)
      BY <1>3, <1>5
    <3> QED BY <3>1, ConcatSeq
  <2> QED BY <1>5, <2>1, Zenon
<1>7. \A j \in Nat : j + 1 + 2 >= 2 /\ j + 1 + 2 # 0
  OBVIOUS
<1>8. Len(a \o d) >= 2 /\ Len(a \o d) # 0 /\ (a \o d)[Len(a \o d)] = "port"
  BY <1>1, <1>3, <1>4, <1>6, <1>7, Zenon
<1>9. Len(<<>>) = 0 /\ "port" # ""
  OBVIOUS
<1> QED BY <1>6, <1>8, <1>9, Zenon DEF a, d, Message, Changes

\* The two ways one turn of the loop of heartbeatSender ends.
LEMMA SendNextCases ==
  ASSUME Typed, NEW m \in Node, SendNext(m)
  PROVE  /\ left[m] \in 1..Len(others[m]) /\ others[m][left[m]] \in Connection
         /\ left' = [left EXCEPT ![m] = left[m] - 1]
         /\ beat' = [beat EXCEPT ![m] = IF left[m] = 1 THEN <<>> ELSE @]
         /\ UNCHANGED <<election, dialled, open, cur, peer, follow, crawlID, serve, forward>>
         /\ \/ /\ inbox' = Delivered(inbox, others[m][left[m]], beat[m])
               /\ UNCHANGED <<others, nodeConnectionChange>>
            \/ /\ others[m][left[m]].conn \notin open[others[m][left[m]].node]
               /\ DropConnection(m, left[m])
<1>1. left[m] \in Nat /\ left[m] > 0 /\ left[m] <= Len(others[m]) /\ others[m] \in Seq(Connection)
  BY DEF Typed, TypeOK, SendNext
<1>2. left[m] \in 1..Len(others[m]) /\ others[m][left[m]] \in Connection
  BY <1>1
<1> QED BY <1>2, Zenon DEF SendNext

LEMMA DropConnectionEffect ==
  ASSUME Typed, NEW m \in Node, NEW i \in 1..Len(others[m]), DropConnection(m, i)
  PROVE  /\ others' \in [Node -> Seq(Connection)]
         /\ \A x \in Node : x # m => others'[x] = others[x]
         /\ Len(others'[m]) = Len(others[m]) - 1
         /\ \A j \in 1..(Len(others[m]) - 1) :
              others'[m][j] = IF j = i THEN others[m][Len(others[m])] ELSE others[m][j]
         /\ nodeConnectionChange' \in [Node -> Message]
         /\ \A x \in Node : x # m => nodeConnectionChange'[x] = nodeConnectionChange[x]
         /\ nodeConnectionChange'[m] # <<>> /\ Changes(nodeConnectionChange'[m])
         /\ UNCHANGED inbox
<1> DEFINE o == others[m]
           t == Front([o EXCEPT ![i] = Last(o)])
           ch == nodeConnectionChange[m] \o <<"R">> \o Address(o[i])
<1>1. o \in Seq(Connection) /\ o[i] \in Connection
  BY DEF Typed
<1>2. /\ t \in Seq(Connection) /\ Len(t) = Len(o) - 1
      /\ \A j \in 1..(Len(o) - 1) : t[j] = IF j = i THEN o[Len(o)] ELSE o[j]
  <2>1. i \in 1..Len(o)
    OBVIOUS
  <2> HIDE DEF o
  <2> QED BY <1>1, <2>1, SwapOutSeq
<1>3. ch \in Message /\ ch # <<>> /\ Changes(ch)
  <2>1. "R" \in Field /\ nodeConnectionChange[m] \in Message
    BY DEF Typed, Field, Words
  <2> QED BY <1>1, <2>1, ChangeAdded
<1>4. /\ others' = [others EXCEPT ![m] = t]
      /\ nodeConnectionChange' = [nodeConnectionChange EXCEPT ![m] = ch]
      /\ UNCHANGED inbox
  BY Zenon DEF DropConnection
<1>5. others \in [Node -> Seq(Connection)] /\ nodeConnectionChange \in [Node -> Message]
  BY DEF Typed
<1> HIDE DEF t, ch
<1>6. /\ others' \in [Node -> Seq(Connection)] /\ others'[m] = t
      /\ \A x \in Node : x # m => others'[x] = others[x]
  BY <1>2, <1>4, <1>5
<1>7. /\ nodeConnectionChange' \in [Node -> Message] /\ nodeConnectionChange'[m] = ch
      /\ \A x \in Node : x # m => nodeConnectionChange'[x] = nodeConnectionChange[x]
  BY <1>3, <1>4, <1>5
<1> QED BY <1>2, <1>3, <1>4, <1>6, <1>7, Zenon

LEMMA TypedSendNext ==
  ASSUME Typed, Beats, NEW m \in Node, SendNext(m)
  PROVE  Typed'
<1> DEFINE i == left[m]
           c == others[m][i]
<1>1. /\ i \in 1..Len(others[m]) /\ c \in Connection
      /\ left' = [left EXCEPT ![m] = i - 1]
      /\ beat' = [beat EXCEPT ![m] = IF i = 1 THEN <<>> ELSE @]
      /\ UNCHANGED <<election, dialled, open, cur, peer, follow, crawlID, serve, forward>>
  BY SendNextCases, Zenon
<1>2. beat[m] \in Message /\ Len(beat[m]) >= 2
  <2>1. beat[m] \in Message /\ Len(beat[m]) \in Nat
    BY DEF Typed, Message
  <2>2. beat[m] # <<>>
    BY <1>1 DEF Beats
  <2>3. Len(beat[m]) = 2 \/ Len(beat[m]) >= 3
    BY <2>2, Zenon DEF Beats, Harmless, EmptyBeat, Big
  <2>4. \A j \in Nat : j = 2 \/ j >= 3 => j >= 2
    OBVIOUS
  <2> QED BY <2>1, <2>3, <2>4, Zenon
<1>3. beat' \in [Node -> Message]
  <2>1. <<>> \in Message
    BY DEF Message
  <2> QED BY <1>1, <2>1 DEF Typed
<1>4. /\ inbox' \in [Node -> Seq(Message)]
      /\ \A x \in Node : \A j \in 1..Len(inbox'[x]) : Len(inbox'[x][j]) >= 2
      /\ nodeConnectionChange' \in [Node -> Message]
      /\ others' \in [Node -> Seq(Connection)]
      /\ \A x \in Node : left'[x] <= Len(others'[x])
  <2>1. CASE inbox' = Delivered(inbox, c, beat[m]) /\ UNCHANGED <<others, nodeConnectionChange>>
    <3>1. /\ inbox' \in [Node -> Seq(Message)]
          /\ \A x \in Node : \A j \in 1..Len(inbox'[x]) : Len(inbox'[x][j]) >= 2
      BY <1>1, <1>2, <2>1, TypedDelivered, Zenon
    <3>2. \A x \in Node : left'[x] <= Len(others'[x])
      BY <1>1, <2>1 DEF Typed, TypeOK
    <3> QED BY <2>1, <3>1, <3>2 DEF Typed
  <2>2. CASE DropConnection(m, i)
    <3>1. /\ others' \in [Node -> Seq(Connection)] /\ nodeConnectionChange' \in [Node -> Message]
          /\ UNCHANGED inbox
          /\ Len(others'[m]) = Len(others[m]) - 1
          /\ \A x \in Node : x # m => others'[x] = others[x]
      BY <1>1, <2>2, DropConnectionEffect, Zenon
    <3>2. \A x \in Node : left'[x] <= Len(others'[x])
      <4>1. left'[m] <= Len(others'[m])
        BY <1>1, <3>1 DEF Typed, TypeOK
      <4>2. ASSUME NEW x \in Node, x # m PROVE left'[x] <= Len(others'[x])
        BY <1>1, <3>1, <4>2 DEF Typed, TypeOK
      <4> QED BY <4>1, <4>2, Zenon
    <3> QED BY <3>1, <3>2 DEF Typed
  <2> QED BY <2>1, <2>2, SendNextCases, Zenon
<1>5. left' \in [Node -> Nat]
  BY <1>1 DEF Typed, TypeOK
<1>6. TypeOK'
  BY <1>1, <1>4, <1>5 DEF Typed, TypeOK, election, follow
<1> QED BY <1>1, <1>3, <1>4, <1>6 DEF Typed, election, serve

(***************************************************************************)
(* connectToLeader: Search and Exclusive                                    *)
(***************************************************************************)
LEMMA SearchFrame ==
  ASSUME Search, UNCHANGED <<role, cur, seed, target>>,
         \A n \in Node : ruledOut[n] \subseteq ruledOut'[n]
  PROVE  Search'
BY DEF Search, Trying, Seed, SeedsLeft

\* A node that is not Trying, as long as what it has ruled out is right.
LEMMA SearchElsewhere ==
  ASSUME Typed, Typed', Search, NEW n \in Node,
         \A x \in Node : x # n =>
           /\ role'[x] = role[x] /\ cur'[x] = cur[x] /\ seed'[x] = seed[x]
           /\ target'[x] = target[x] /\ ruledOut'[x] = ruledOut[x],
         role'[n] \in {"down", "leader"} => cur'[n] = 0,
         role'[n] = "starting" =>
           /\ \A i \in 1..Len(Seeds[n]) : i < seed'[n] => Seeds[n][i] \in ruledOut'[n]
           /\ SeedsLeft(n)' => target'[n] = SeedAt(n, seed'[n]) \/ Seeds[n][seed'[n]] \in ruledOut'[n],
         Trying(n)' => SeedsLeft(n)' /\ target'[n][1] \in Node,
         role'[n] = "leader" => \A i \in 1..Len(Seeds[n]) : Seeds[n][i] \in ruledOut'[n]
  PROVE  Search'
BY DEF Search, Trying, Seed, SeedsLeft

LEMMA SearchBoot ==
  ASSUME Typed, Typed', Search, NEW n \in Node, Boot(n)
  PROVE  Search'
<1>1. /\ role' = [role EXCEPT ![n] = "starting"] /\ seed' = [seed EXCEPT ![n] = 1]
      /\ target' = [target EXCEPT ![n] = IF Seeds[n] = <<>> THEN @ ELSE SeedAt(n, 1)]
      /\ ruledOut' = [ruledOut EXCEPT ![n] = {}]
      /\ cur' = cur /\ role[n] = "down"
  BY DEF Boot, links
<1>2. cur'[n] = 0 /\ role'[n] = "starting" /\ seed'[n] = 1
  BY <1>1 DEF Search, Typed, TypeOK
<1>3. Seeds[n] \in Seq(Node) /\ Len(Seeds[n]) \in Nat
  BY SeedsAssumption
<1>4. SeedsLeft(n)' => target'[n] = SeedAt(n, seed'[n])
  <2>1. SUFFICES ASSUME 1 <= Len(Seeds[n]) PROVE target'[n] = SeedAt(n, 1)
    BY <1>2 DEF SeedsLeft
  <2>2. Seeds[n] # <<>>
    BY <1>3, <2>1
  <2> QED BY <1>1, <2>2 DEF Typed
<1>5. \A i \in 1..Len(Seeds[n]) : ~(i < seed'[n])
  BY <1>2, <1>3
<1>6. \A x \in Node : x # n => /\ role'[x] = role[x] /\ cur'[x] = cur[x] /\ seed'[x] = seed[x]
                               /\ target'[x] = target[x] /\ ruledOut'[x] = ruledOut[x]
  BY <1>1 DEF Typed, TypeOK
<1>7. ~Trying(n)' /\ role'[n] # "leader"
  BY <1>2 DEF Trying
<1> QED BY <1>2, <1>4, <1>5, <1>6, <1>7, SearchElsewhere, Zenon

LEMMA SearchDie ==
  ASSUME Typed, Typed', Search, NEW n \in Node, Die(n)
  PROVE  Search'
<1>1. /\ role' = [role EXCEPT ![n] = "down"] /\ cur' = [cur EXCEPT ![n] = 0]
      /\ UNCHANGED <<seed, target, ruledOut>>
  BY Zenon DEF Die
<1>2. cur'[n] = 0 /\ role'[n] = "down" /\ ~Trying(n)'
  BY <1>1 DEF Typed, TypeOK, Trying
<1>3. \A x \in Node : x # n => /\ role'[x] = role[x] /\ cur'[x] = cur[x] /\ seed'[x] = seed[x]
                               /\ target'[x] = target[x] /\ ruledOut'[x] = ruledOut[x]
  BY <1>1 DEF Typed, TypeOK
<1>4. role'[n] # "starting" /\ role'[n] # "leader"
  BY <1>2
<1> QED BY <1>2, <1>3, <1>4, SearchElsewhere, Zenon

LEMMA SearchDial ==
  ASSUME Typed, Typed', Search, NEW n \in Node, Dial(n)
  PROVE  Search'
<1>1. /\ cur' = [cur EXCEPT ![n] = dialled[n] + 1] /\ UNCHANGED <<role, seed, target, ruledOut>>
      /\ role[n] = "starting" /\ SeedsLeft(n) /\ target[n][1] \in Node
  BY Zenon DEF Dial, election, Dialling, Listening
<1>2. role'[n] = "starting" /\ SeedsLeft(n)' /\ target'[n][1] \in Node
  BY <1>1, Zenon DEF SeedsLeft
<1>3. /\ \A i \in 1..Len(Seeds[n]) : i < seed'[n] => Seeds[n][i] \in ruledOut'[n]
      /\ target'[n] = SeedAt(n, seed'[n]) \/ Seeds[n][seed'[n]] \in ruledOut'[n]
  BY <1>1, Zenon DEF Search, Seed
<1>4. \A x \in Node : x # n => /\ role'[x] = role[x] /\ cur'[x] = cur[x] /\ seed'[x] = seed[x]
                               /\ target'[x] = target[x] /\ ruledOut'[x] = ruledOut[x]
  BY <1>1 DEF Typed, TypeOK
<1>5. role'[n] # "down" /\ role'[n] # "leader"
  BY <1>2
<1> QED BY <1>2, <1>3, <1>4, <1>5, SearchElsewhere, Zenon

\* The seed that Refused leaves behind: its port is closed, or it was ruled out before.
LEMMA SeedRuledOut ==
  ASSUME Typed, Search, NEW n \in Node, Refused(n)
  PROVE  Seed(n) \in Node /\ (~Up(Seed(n)) \/ Seed(n) \in ruledOut[n])
<1>1. role[n] = "starting" /\ SeedsLeft(n) /\ ~Listening(target[n])
  BY Zenon DEF Refused, Dialling
<1>2. seed[n] \in 1..Len(Seeds[n])
  BY <1>1, SeedsAssumption DEF SeedsLeft, Typed, TypeOK
<1>3. Seed(n) \in Node
  BY <1>2, SeedIsNode DEF Seed
<1>4. target[n] = SeedAt(n, seed[n]) \/ Seed(n) \in ruledOut[n]
  BY <1>1, Zenon DEF Search
<1>5. CASE target[n] = SeedAt(n, seed[n])
  <2>1. target[n] = <<Seed(n), "port">>
    BY <1>5, Zenon DEF SeedAt, Seed
  <2>2. target[n][1] = Seed(n) /\ target[n][2] = "port"
    BY <2>1
  <2> QED BY <1>1, <1>3, <2>2, Zenon DEF Listening
<1> QED BY <1>3, <1>4, <1>5

LEMMA SearchRefused ==
  ASSUME Typed, Typed', Search, NEW n \in Node, Refused(n)
  PROVE  Search'
<1>1. /\ role[n] = "starting" /\ cur[n] = 0 /\ SeedsLeft(n)
      /\ seed' = [seed EXCEPT ![n] = @ + 1]
      /\ target' = [target EXCEPT ![n] =
                      IF seed[n] < Len(Seeds[n]) THEN SeedAt(n, seed[n] + 1) ELSE @]
      /\ ruledOut' = [ruledOut EXCEPT ![n] = @ \cup {Seed(n)}]
      /\ role' = role /\ cur' = cur
  BY Zenon DEF Refused, Dialling, NextSeed, links, Seed
<1>2. seed[n] \in Nat /\ Len(Seeds[n]) \in Nat
  BY SeedsAssumption DEF Typed, TypeOK
<1>3. /\ role'[n] = "starting" /\ cur'[n] = 0 /\ seed'[n] = seed[n] + 1
      /\ ruledOut'[n] = ruledOut[n] \cup {Seed(n)}
  BY <1>1 DEF Typed, TypeOK
<1>4. SeedsLeft(n)' => target'[n] = SeedAt(n, seed'[n])
  <2>1. SUFFICES ASSUME seed[n] + 1 <= Len(Seeds[n]) PROVE target'[n] = SeedAt(n, seed[n] + 1)
    BY <1>3 DEF SeedsLeft
  <2>2. seed[n] < Len(Seeds[n])
    BY <1>2, <2>1
  <2> QED BY <1>1, <2>2 DEF Typed
<1>5. ASSUME NEW i \in 1..Len(Seeds[n]), i < seed'[n] PROVE Seeds[n][i] \in ruledOut'[n]
  <2>1. i < seed[n] \/ i = seed[n]
    BY <1>2, <1>3, <1>5
  <2>2. CASE i < seed[n]
    BY <1>1, <1>3, <1>5, <2>2, Zenon DEF Search
  <2>3. CASE i = seed[n]
    BY <1>3, <2>3, Zenon DEF Seed
  <2> QED BY <2>1, <2>2, <2>3
<1>6. \A x \in Node : x # n => /\ role'[x] = role[x] /\ cur'[x] = cur[x] /\ seed'[x] = seed[x]
                               /\ target'[x] = target[x] /\ ruledOut'[x] = ruledOut[x]
  BY <1>1 DEF Typed, TypeOK
<1>7. ~Trying(n)' /\ role'[n] # "leader"
  BY <1>3 DEF Trying
<1> QED BY <1>3, <1>4, <1>5, <1>6, <1>7, SearchElsewhere, Zenon

LEMMA SearchAssumeLeadership ==
  ASSUME Typed, Typed', Search, NEW n \in Node, AssumeLeadership(n)
  PROVE  Search'
<1>1. /\ role[n] = "starting" /\ cur[n] = 0 /\ ~SeedsLeft(n)
      /\ role' = [role EXCEPT ![n] = "leader"]
      /\ UNCHANGED <<seed, target, ruledOut>> /\ cur' = cur
  BY Zenon DEF AssumeLeadership, links
<1>2. role'[n] = "leader" /\ cur'[n] = 0
  BY <1>1 DEF Typed, TypeOK
<1>3. seed[n] \in Nat /\ Len(Seeds[n]) \in Nat
  BY SeedsAssumption DEF Typed, TypeOK
<1>4. \A i \in 1..Len(Seeds[n]) : i < seed[n]
  BY <1>1, <1>3 DEF SeedsLeft
<1>5. \A i \in 1..Len(Seeds[n]) : Seeds[n][i] \in ruledOut'[n]
  BY <1>1, <1>4, Zenon DEF Search
<1>6. \A x \in Node : x # n => /\ role'[x] = role[x] /\ cur'[x] = cur[x] /\ seed'[x] = seed[x]
                               /\ target'[x] = target[x] /\ ruledOut'[x] = ruledOut[x]
  BY <1>1 DEF Typed, TypeOK
<1>7. ~Trying(n)' /\ role'[n] # "starting"
  BY <1>2 DEF Trying
<1> QED BY <1>2, <1>5, <1>6, <1>7, SearchElsewhere, Zenon

\* A node that waits for its seed never takes what it reads for an address.
LEMMA NotMistaken ==
  ASSUME Typed, Unmistakable, NEW n \in Node, Hopeful(n), NEW k \in Readable(n)
  PROVE  Received(n, k)[1] = "ok" \/ Len(Received(n, k)) # 2
<1>1. inbox[n] \in Seq(Message) /\ Len(inbox[n]) \in Nat
  BY DEF Typed
<1>2. k \in {1, 2} /\ k \in 1..Len(inbox[n]) /\ 1 \in 1..Len(inbox[n])
  BY <1>1, ReadAssumption DEF Readable
<1>3. inbox[n][1] \in Message /\ Harmless(inbox[n][1])
  BY <1>2, InboxMessage, Zenon DEF Unmistakable
<1>4. CASE k = 1
  <2>1. Received(n, k) = Fields(inbox[n][1])
    BY <1>4, Zenon DEF Received
  <2> QED BY <1>3, <2>1, NoAddress, Zenon
<1>5. CASE k = 2
  <2>1. Received(n, k) = Fields(Glue(inbox[n][1], inbox[n][2]))
    BY <1>5 DEF Received
  <2>2. 2 \in 1..Len(inbox[n]) /\ Len(inbox[n]) >= 2
    BY <1>1, <1>2, <1>5
  <2>3. inbox[n][2] \in Message /\ Harmless(inbox[n][2]) /\ Apart(inbox[n][1], inbox[n][2])
    BY <2>2, InboxMessage, Zenon DEF Unmistakable
  <2> QED BY <1>3, <2>1, <2>3, NoGluedAddress, Zenon
<1> QED BY <1>2, <1>4, <1>5

LEMMA SearchReadReply ==
  ASSUME Typed, Typed', Search, Unmistakable, NEW n \in Node, ReadReply(n)
  PROVE  Search'
<1>1. role[n] = "starting" /\ cur[n] # 0 /\ UNCHANGED <<seed, ruledOut>>
  BY Zenon DEF ReadReply
<1>2. PICK k \in Readable(n) :
        \/ Joined(n, Received(n, k))
        \/ /\ Received(n, k)[1] # "ok" /\ Len(Received(n, k)) = 2
           /\ Redirected(n, Received(n, k))
        \/ Repeated(n)
  BY Zenon DEF ReadReply
<1>3. \A x \in Node : x # n => /\ role'[x] = role[x] /\ cur'[x] = cur[x] /\ seed'[x] = seed[x]
                               /\ target'[x] = target[x] /\ ruledOut'[x] = ruledOut[x]
  <2>1. /\ role' = role \/ role' = [role EXCEPT ![n] = "follower"]
        /\ cur' = cur \/ cur' = [cur EXCEPT ![n] = 0]
        /\ target' = target \/ \E v : target' = [target EXCEPT ![n] = v]
    BY <1>2, Zenon DEF Joined, Redirected, Repeated
  <2>2. DOMAIN role = Node /\ DOMAIN cur = Node /\ DOMAIN target = Node
    BY DEF Typed, TypeOK
  <2> QED BY <1>1, <2>1, <2>2
<1>4. CASE Joined(n, Received(n, k))
  <2>1. role'[n] = "follower"
    BY <1>4 DEF Joined, Typed, TypeOK
  <2>2. ~Trying(n)' /\ role'[n] \notin {"down", "leader"} /\ role'[n] # "starting" /\ role'[n] # "leader"
    BY <2>1 DEF Trying
  <2> QED BY <1>3, <2>2, SearchElsewhere, Zenon
<1>5. CASE ~Joined(n, Received(n, k))
  <2>1. cur' = [cur EXCEPT ![n] = 0] /\ role' = role
    BY <1>2, <1>5, Zenon DEF Redirected, Repeated
  <2>2. cur'[n] = 0 /\ role'[n] = "starting" /\ ~Trying(n)' /\ role'[n] # "leader"
    BY <1>1, <2>1 DEF Typed, TypeOK, Trying
  <2>3. \A i \in 1..Len(Seeds[n]) : i < seed'[n] => Seeds[n][i] \in ruledOut'[n]
    BY <1>1, Zenon DEF Search
  <2>4. target[n] = SeedAt(n, seed[n]) \/ Seed(n) \in ruledOut[n]
    BY <1>1, Zenon DEF Search, Trying
  <2>5. target'[n] = SeedAt(n, seed'[n]) \/ Seeds[n][seed'[n]] \in ruledOut'[n]
    <3>1. CASE Seed(n) \in ruledOut[n]
      BY <1>1, <3>1, Zenon DEF Seed
    <3>2. CASE Seed(n) \notin ruledOut[n]
      <4>1. Hopeful(n)
        BY <1>1, <3>2, Zenon DEF Hopeful, Trying
      <4>2. Repeated(n)
        BY <1>2, <1>5, <4>1, NotMistaken, Zenon
      <4> QED BY <1>1, <2>4, <3>2, <4>2, Zenon DEF Repeated
    <3> QED BY <3>1, <3>2
  <2> QED BY <1>3, <2>2, <2>3, <2>5, SearchElsewhere, Zenon
<1> QED BY <1>4, <1>5

\* Exclusive is kept when no node starts to lead or looks for a leader again, and what
\* a node rules out in the step is not electing.
LEMMA ExclusiveFrame ==
  ASSUME Exclusive,
         \A x \in Node : Electing(x)' => Electing(x),
         \A x, y \in Node : y \in ruledOut'[x] => y \in ruledOut[x] \/ ~Electing(y)
  PROVE  Exclusive'
BY Zenon DEF Exclusive

LEMMA ExclusiveBoot ==
  ASSUME Typed, Exclusive, NEW n \in Node, Boot(n)
  PROVE  Exclusive'
BY DEF Exclusive, Electing, Boot, Typed, TypeOK

LEMMA ExclusiveDie ==
  ASSUME Typed, Exclusive, NEW n \in Node, Die(n)
  PROVE  Exclusive'
BY DEF Exclusive, Electing, Die, Typed, TypeOK

LEMMA ExclusiveRefused ==
  ASSUME Typed, Search, Exclusive, NEW n \in Node, Refused(n)
  PROVE  Exclusive'
<1>1. ruledOut' = [ruledOut EXCEPT ![n] = @ \cup {Seed(n)}] /\ role' = role
  BY Zenon DEF Refused, NextSeed, Seed
<1>2. Seed(n) \in Node /\ (~Up(Seed(n)) \/ Seed(n) \in ruledOut[n])
  BY SeedRuledOut
<1>3. \A x \in Node : Electing(x)' => Electing(x)
  BY <1>1, Zenon DEF Electing
<1>4. \A x, y \in Node : y \in ruledOut'[x] => y \in ruledOut[x] \/ ~Electing(y)
  BY <1>1, <1>2 DEF Electing, Up, Typed, TypeOK
<1> QED BY <1>3, <1>4, ExclusiveFrame, Zenon

LEMMA ExclusiveAssumeLeadership ==
  ASSUME Typed, Exclusive, NEW n \in Node, AssumeLeadership(n)
  PROVE  Exclusive'
BY DEF Exclusive, Electing, AssumeLeadership, Typed, TypeOK

LEMMA ExclusiveReadReply ==
  ASSUME Typed, Exclusive, NEW n \in Node, ReadReply(n)
  PROVE  Exclusive'
<1>1. /\ ruledOut' = ruledOut
      /\ role' = [role EXCEPT ![n] = "follower"] \/ role' = role
  BY Zenon DEF ReadReply, Joined, Redirected, Repeated
<1> QED BY <1>1 DEF Exclusive, Electing, Typed, TypeOK

LEMMA ExclusiveRedirect ==
  ASSUME Typed, Exclusive, NEW m \in Node, NEW c \in backlog[m], Redirect(m, c)
  PROVE  Exclusive'
<1>1. /\ role[m] = "follower" /\ role' = role
      /\ ruledOut' = ruledOut \/ ruledOut' = [ruledOut EXCEPT ![c.node] = @ \cup {m}]
  BY Zenon DEF Redirect
<1>2. \A x \in Node : Electing(x)' => Electing(x)
  BY <1>1, Zenon DEF Electing
<1>3. c.node \in Node
  BY DEF Typed, Connection
<1>4. \A x, y \in Node : y \in ruledOut'[x] => y \in ruledOut[x] \/ ~Electing(y)
  <2> DEFINE d == c.node
  <2>1. d \in Node /\ (ruledOut' = ruledOut \/ ruledOut' = [ruledOut EXCEPT ![d] = @ \cup {m}])
    BY <1>1, <1>3
  <2>2. ~Electing(m)
    BY <1>1 DEF Electing
  <2>3. ruledOut \in [Node -> SUBSET Node]
    BY DEF Typed, TypeOK
  <2> HIDE DEF d
  <2>4. \A x, y \in Node : y \in ruledOut'[x] => y \in ruledOut[x] \/ y = m
    BY <2>1, <2>3
  <2> QED BY <2>2, <2>4, Zenon
<1> QED BY <1>2, <1>4, ExclusiveFrame, Zenon

(***************************************************************************)
(* Connections: Places and Dialled                                          *)
(***************************************************************************)
LEMMA PlacesFrame ==
  ASSUME Places, UNCHANGED <<backlog, dialled, others, replying>>
  PROVE  Places'
<1>1. Waiting'
  BY Zenon DEF Places, Waiting, Contains
<1>2. Listed'
  BY Zenon DEF Places, Listed
<1>3. Replies'
  BY Zenon DEF Places, Replies
<1> QED BY <1>1, <1>2, <1>3, Zenon DEF Places

\* What is not handled yet, and the lists, get shorter.
LEMMA PlacesDie ==
  ASSUME Typed, Places, NEW n \in Node, Die(n)
  PROVE  Places'
<1>1. /\ backlog' = [backlog EXCEPT ![n] = {}] /\ others' = [others EXCEPT ![n] = <<>>]
      /\ replying' = [replying EXCEPT ![n] = {}] /\ dialled' = dialled
  BY Zenon DEF Die
<1>2. \A x \in Node : x # n =>
        backlog'[x] = backlog[x] /\ replying'[x] = replying[x] /\ others'[x] = others[x]
  BY <1>1 DEF Typed
<1>3. backlog'[n] = {} /\ replying'[n] = {} /\ Len(others'[n]) = 0
  BY <1>1 DEF Typed
<1>4. Waiting'
  <2> SUFFICES ASSUME NEW m \in Node, NEW c \in backlog'[m]
               PROVE  /\ c.conn <= dialled'[c.node]
                      /\ \A k \in Node : ~Contains(others'[k], c) /\ \A r \in replying'[k] : r.to # c
                      /\ \A k \in Node : c \in backlog'[k] => k = m
    BY Zenon DEF Waiting
  <2>1. m # n /\ c \in backlog[m]
    BY <1>2, <1>3
  <2>2. /\ c.conn <= dialled[c.node]
        /\ \A k \in Node : ~Contains(others[k], c) /\ \A r \in replying[k] : r.to # c
        /\ \A k \in Node : c \in backlog[k] => k = m
    BY <2>1, Zenon DEF Places, Waiting
  <2>3. ~Contains(others'[n], c)
    BY <1>3 DEF Contains
  <2>4. ASSUME NEW k \in Node PROVE ~Contains(others'[k], c) /\ \A r \in replying'[k] : r.to # c
    BY <1>2, <1>3, <2>2, <2>3
  <2>5. ASSUME NEW k \in Node, c \in backlog'[k] PROVE k = m
    BY <1>2, <1>3, <2>2, <2>5
  <2> QED BY <1>1, <2>2, <2>4, <2>5, Zenon
<1>5. Listed'
  BY <1>1, <1>2, <1>3 DEF Places, Listed
<1>6. Replies'
  <2>1. \A x \in Node : replying'[x] \subseteq replying[x]
    BY <1>2, <1>3
  <2> QED BY <1>1, <2>1, Zenon DEF Places, Replies
<1> QED BY <1>4, <1>5, <1>6 DEF Places

LEMMA PlacesHandled ==
  ASSUME Places, UNCHANGED <<dialled, others>>,
         \A x \in Node : backlog'[x] \subseteq backlog[x] /\ replying'[x] \subseteq replying[x]
  PROVE  Places'
<1>1. Waiting'
  <2> SUFFICES ASSUME NEW m \in Node, NEW c \in backlog'[m]
               PROVE  /\ c.conn <= dialled'[c.node]
                      /\ \A k \in Node : ~Contains(others'[k], c) /\ \A r \in replying'[k] : r.to # c
                      /\ \A k \in Node : c \in backlog'[k] => k = m
    BY Zenon DEF Waiting
  <2>1. c \in backlog[m]
    OBVIOUS
  <2> QED BY <2>1, Zenon DEF Places, Waiting
<1>2. Listed'
  BY Zenon DEF Places, Listed
<1>3. Replies'
  BY Zenon DEF Places, Replies
<1> QED BY <1>1, <1>2, <1>3 DEF Places

LEMMA PlacesDial ==
  ASSUME Typed, Places, NEW n \in Node, Dial(n)
  PROVE  Places'
<1> DEFINE new == [node |-> n, conn |-> dialled[n] + 1]
<1>1. PICK to \in Node :
        /\ dialled' = [dialled EXCEPT ![n] = dialled[n] + 1]
        /\ backlog' = [backlog EXCEPT ![to] = @ \cup {new}]
        /\ UNCHANGED <<others, replying>>
  BY Zenon DEF Dial, Listening, lead
<1>2. dialled \in [Node -> Nat] /\ new.node = n /\ new.conn = dialled[n] + 1
  BY DEF Typed, TypeOK
<1>3. /\ dialled' \in [Node -> Nat] /\ dialled'[n] = dialled[n] + 1
      /\ \A x \in Node : dialled[x] <= dialled'[x]
  BY <1>1, <1>2
<1> HIDE DEF new
<1>4. \A x \in Node : \A c \in backlog'[x] : c \in backlog[x] \/ (c = new /\ x = to)
  BY <1>1 DEF Typed
<1>5. \A d \in Connection : d.conn <= dialled[d.node] => d # new /\ d.conn <= dialled'[d.node]
  BY <1>2, <1>3 DEF Connection
<1>6. ASSUME NEW k \in Node
      PROVE  ~Contains(others[k], new) /\ (\A r \in replying[k] : r.to # new) /\ new \notin backlog[k]
  <2>1. ASSUME NEW i \in 1..Len(others[k]) PROVE others[k][i] # new
    <3>1. others[k][i] \in Connection
      BY <2>1 DEF Typed
    <3>2. others[k][i].conn <= dialled[others[k][i].node]
      BY <2>1, Zenon DEF Places, Listed
    <3> QED BY <1>5, <3>1, <3>2, Zenon
  <2>2. ASSUME NEW r \in replying[k] PROVE r.to # new
    <3>1. r.to \in Connection
      BY <2>2 DEF Typed, Reply
    <3>2. r.to.conn <= dialled[r.to.node]
      BY <2>2, Zenon DEF Places, Replies
    <3> QED BY <1>5, <3>1, <3>2, Zenon
  <2>3. ASSUME NEW c \in backlog[k] PROVE c # new
    <3>1. c \in Connection
      BY <2>3 DEF Typed
    <3>2. c.conn <= dialled[c.node]
      BY <2>3, Zenon DEF Places, Waiting
    <3> QED BY <1>5, <3>1, <3>2, Zenon
  <2> QED BY <2>1, <2>2, <2>3, Zenon DEF Contains
<1>7. Waiting'
  <2> SUFFICES ASSUME NEW m \in Node, NEW c \in backlog'[m]
               PROVE  /\ c.conn <= dialled'[c.node]
                      /\ \A k \in Node : ~Contains(others'[k], c) /\ \A r \in replying'[k] : r.to # c
                      /\ \A k \in Node : c \in backlog'[k] => k = m
    BY Zenon DEF Waiting
  <2>1. CASE c = new /\ m = to
    <3>1. c.conn <= dialled'[c.node]
      BY <1>2, <1>3, <2>1
    <3>2. \A k \in Node : c \in backlog'[k] => k = m
      BY <1>4, <1>6, <2>1, Zenon
    <3> QED BY <1>1, <1>6, <2>1, <3>1, <3>2, Zenon
  <2>2. CASE c \in backlog[m]
    <3>1. /\ c.conn <= dialled[c.node]
          /\ \A k \in Node : ~Contains(others[k], c) /\ \A r \in replying[k] : r.to # c
          /\ \A k \in Node : c \in backlog[k] => k = m
      BY <2>2, Zenon DEF Places, Waiting
    <3>2. c \in Connection
      BY <2>2 DEF Typed
    <3>3. c.conn <= dialled'[c.node] /\ c # new
      BY <1>5, <3>1, <3>2, Zenon
    <3> QED BY <1>1, <1>4, <3>1, <3>3, Zenon
  <2> QED BY <1>4, <2>1, <2>2, Zenon
<1>8. Listed'
  <2> SUFFICES ASSUME NEW m \in Node, NEW i \in 1..Len(others[m])
               PROVE  /\ others[m][i].conn <= dialled'[others[m][i].node]
                      /\ \A j \in 1..Len(others[m]) : others[m][i] = others[m][j] => i = j
    BY <1>1, Zenon DEF Listed
  <2>1. others[m][i] \in Connection
    BY DEF Typed
  <2>2. /\ others[m][i].conn <= dialled[others[m][i].node]
        /\ \A j \in 1..Len(others[m]) : others[m][i] = others[m][j] => i = j
    BY Zenon DEF Places, Listed
  <2> QED BY <1>5, <2>1, <2>2, Zenon
<1>9. Replies'
  <2> SUFFICES ASSUME NEW m \in Node, NEW r \in replying[m]
               PROVE  r.to.conn <= dialled'[r.to.node] /\ Big(r.data)
    BY <1>1, Zenon DEF Replies
  <2>1. r.to \in Connection
    BY DEF Typed, Reply
  <2>2. r.to.conn <= dialled[r.to.node] /\ Big(r.data)
    BY Zenon DEF Places, Replies
  <2> QED BY <1>5, <2>1, <2>2, Zenon
<1> QED BY <1>7, <1>8, <1>9 DEF Places

LEMMA PlacesRegister ==
  ASSUME Typed, Places, NEW m \in Node, NEW c \in backlog[m], Register(m, c)
  PROVE  Places'
<1> DEFINE data == <<"ok">> \o Address(c) \o InitialData(m)
           new == [to |-> c, data |-> data]
<1>1. /\ backlog' = [backlog EXCEPT ![m] = @ \ {c}]
      /\ replying' = [replying EXCEPT ![m] = @ \cup {new}]
      /\ others' = [others EXCEPT ![m] = Append(@, c)]
      /\ dialled' = dialled
  BY Zenon DEF Register, links
<1>2. c \in Connection
  BY DEF Typed
<1>3. new.to = c /\ Big(new.data)
  <2>1. Big(data)
    BY <1>2, ReplyIsBig
  <2> HIDE DEF data
  <2> QED BY <2>1
<1> HIDE DEF new
<1>4. /\ \A x \in Node : backlog'[x] \subseteq backlog[x] /\ (x = m => c \notin backlog'[x])
      /\ \A x \in Node : \A r \in replying'[x] : r \in replying[x] \/ r = new
      /\ \A x \in Node : x # m => others'[x] = others[x]
      /\ others'[m] = Append(others[m], c)
  BY <1>1 DEF Typed
<1>5. \A x \in Node : \A d : Contains(others'[x], d) => Contains(others[x], d) \/ d = c
  <2>1. others[m] \in Seq(Connection)
    BY DEF Typed
  <2>2. \A d : Contains(Append(others[m], c), d) <=> Contains(others[m], d) \/ d = c
    BY <1>2, <2>1, ContainsAppend, Zenon
  <2> QED BY <1>4, <2>2, Zenon
<1>6. /\ c.conn <= dialled[c.node] /\ \A k \in Node : c \in backlog[k] => k = m
      /\ ~Contains(others[m], c)
  BY Zenon DEF Places, Waiting
<1>7. Waiting'
  <2> SUFFICES ASSUME NEW x \in Node, NEW d \in backlog'[x]
               PROVE  /\ d.conn <= dialled'[d.node]
                      /\ \A k \in Node : ~Contains(others'[k], d) /\ \A r \in replying'[k] : r.to # d
                      /\ \A k \in Node : d \in backlog'[k] => k = x
    BY Zenon DEF Waiting
  <2>1. d \in backlog[x] /\ d # c
    BY <1>4, <1>6
  <2>2. /\ d.conn <= dialled[d.node]
        /\ \A k \in Node : ~Contains(others[k], d) /\ \A r \in replying[k] : r.to # d
        /\ \A k \in Node : d \in backlog[k] => k = x
    BY <2>1, Zenon DEF Places, Waiting
  <2>3. d.conn <= dialled'[d.node]
    BY <1>1, <2>2
  <2>4. \A k \in Node : ~Contains(others'[k], d)
    BY <1>5, <2>1, <2>2, Zenon
  <2>5. \A k \in Node : \A r \in replying'[k] : r.to # d
    BY <1>3, <1>4, <2>1, <2>2, Zenon
  <2>6. \A k \in Node : d \in backlog'[k] => k = x
    BY <1>4, <2>2
  <2> QED BY <2>3, <2>4, <2>5, <2>6
<1>8. Listed'
  <2> SUFFICES ASSUME NEW x \in Node, NEW i \in 1..Len(others'[x])
               PROVE  /\ others'[x][i].conn <= dialled[others'[x][i].node]
                      /\ \A j \in 1..Len(others'[x]) : others'[x][i] = others'[x][j] => i = j
    BY <1>1, Zenon DEF Listed
  <2>1. CASE x # m
    <3>1. others'[x] = others[x]
      BY <1>4, <2>1
    <3> QED BY <3>1, Zenon DEF Places, Listed
  <2>2. CASE x = m
    <3> DEFINE o == others[m]
               a == Append(o, c)
    <3>1. o \in Seq(Connection) /\ Len(o) \in Nat
      BY DEF Typed
    <3>2. others'[x] = a
      BY <1>4, <2>2
    <3>3. /\ Len(a) = Len(o) + 1 /\ a[Len(o) + 1] = c
          /\ \A j \in 1..Len(o) : a[j] = o[j]
      <4> HIDE DEF o
      <4> QED BY <1>2, <3>1, AppendSeq
    <3>4. \A j \in 1..Len(o) : /\ o[j].conn <= dialled[o[j].node] /\ o[j] # c
                               /\ \A l \in 1..Len(o) : o[j] = o[l] => j = l
      BY <1>6, Zenon DEF Places, Listed, Contains
    <3> HIDE DEF o, a
    <3>5. \A j \in 1..Len(a) : j \in 1..Len(o) \/ j = Len(o) + 1
      BY <3>1, <3>3
    <3>6. i \in 1..Len(a)
      BY <3>2
    <3>7. /\ a[i].conn <= dialled[a[i].node]
          /\ \A j \in 1..Len(a) : a[i] = a[j] => i = j
      BY <1>6, <3>3, <3>4, <3>5, <3>6, Zenon
    <3> QED BY <3>2, <3>7, Zenon
  <2> QED BY <2>1, <2>2
<1>9. Replies'
  BY <1>1, <1>3, <1>4, <1>6, Zenon DEF Places, Replies
<1> QED BY <1>7, <1>8, <1>9 DEF Places

LEMMA PlacesSendNext ==
  ASSUME Typed, Places, NEW m \in Node, SendNext(m)
  PROVE  Places'
<1>1. dialled' = dialled /\ UNCHANGED <<backlog, replying>> /\ left[m] \in 1..Len(others[m])
  BY SendNextCases, Zenon DEF serve
<1>2. CASE others' = others
  BY <1>1, <1>2, PlacesFrame, Zenon
<1>3. CASE DropConnection(m, left[m])
  <2> DEFINE i == left[m]
             o == others[m]
  <2>1. /\ Len(others'[m]) = Len(o) - 1
        /\ \A j \in 1..(Len(o) - 1) : others'[m][j] = IF j = i THEN o[Len(o)] ELSE o[j]
        /\ \A x \in Node : x # m => others'[x] = others[x]
    BY <1>1, <1>3, DropConnectionEffect, Zenon
  <2>2. Len(o) \in Nat /\ i \in 1..Len(o)
    BY <1>1 DEF Typed
  <2>3. \A j \in 1..Len(others'[m]) :
          \E l \in 1..Len(o) : others'[m][j] = o[l] /\ l = IF j = i THEN Len(o) ELSE j
    <3> HIDE DEF o
    <3>1. ASSUME NEW j \in 1..Len(others'[m])
          PROVE  j \in 1..(Len(o) - 1) /\ j \in 1..Len(o) /\ Len(o) \in 1..Len(o)
      BY <2>1, <2>2, <3>1
    <3> QED BY <2>1, <3>1, Zenon
  <2>4. Waiting'
    <3>1. ASSUME NEW x \in Node, NEW d, Contains(others'[x], d) PROVE Contains(others[x], d)
      <4>1. CASE x # m
        BY <2>1, <3>1, <4>1
      <4>2. CASE x = m
        <5>1. PICK j \in 1..Len(others'[m]) : others'[m][j] = d
          BY <3>1, <4>2, Zenon DEF Contains
        <5>2. PICK l \in 1..Len(o) : others'[m][j] = o[l]
          BY <2>3, <5>1, Zenon
        <5> QED BY <4>2, <5>1, <5>2, Zenon DEF Contains
      <4> QED BY <4>1, <4>2
    <3>2. UNCHANGED <<dialled, backlog, replying>>
      BY <1>1, Zenon
    <3> QED BY <3>1, <3>2, Zenon DEF Places, Waiting
  <2>5. Listed'
    <3> SUFFICES ASSUME NEW x \in Node, NEW j \in 1..Len(others'[x])
                 PROVE  /\ others'[x][j].conn <= dialled[others'[x][j].node]
                        /\ \A k \in 1..Len(others'[x]) : others'[x][j] = others'[x][k] => j = k
      BY <1>1, Zenon DEF Listed
    <3>1. CASE x # m
      <4>1. others'[x] = others[x]
        BY <2>1, <3>1
      <4> QED BY <4>1, Zenon DEF Places, Listed
    <3>2. CASE x = m
      <4>1. \A l \in 1..Len(o) : /\ o[l].conn <= dialled[o[l].node]
                                 /\ \A k \in 1..Len(o) : o[l] = o[k] => l = k
        BY Zenon DEF Places, Listed
      <4>2. others'[x][j].conn <= dialled[others'[x][j].node]
        BY <2>3, <3>2, <4>1, Zenon
      <4>3. ASSUME NEW k \in 1..Len(others'[m]), others'[m][j] = others'[m][k] PROVE j = k
        <5>1. PICK l \in 1..Len(o) : others'[m][j] = o[l] /\ l = IF j = i THEN Len(o) ELSE j
          BY <2>3, <3>2, Zenon
        <5>2. PICK q \in 1..Len(o) : others'[m][k] = o[q] /\ q = IF k = i THEN Len(o) ELSE k
          BY <2>3, <4>3, Zenon
        <5>3. l = q
          BY <4>1, <4>3, <5>1, <5>2, Zenon
        <5>4. j \in 1..(Len(o) - 1) /\ k \in 1..(Len(o) - 1)
          BY <2>1, <3>2, <4>3
        <5> HIDE DEF o, i
        <5> QED BY <2>2, <5>1, <5>2, <5>3, <5>4
      <4> QED BY <3>2, <4>2, <4>3
    <3> QED BY <3>1, <3>2
  <2>6. Replies'
    BY <1>1, Zenon DEF Places, Replies
  <2> QED BY <2>4, <2>5, <2>6 DEF Places
<1> QED BY <1>2, <1>3, SendNextCases, Zenon

(***************************************************************************)
(* Heartbeats: Beats                                                        *)
(***************************************************************************)
LEMMA BeatsFrame ==
  ASSUME Beats, UNCHANGED <<beat, left, nodeConnectionChange>>
  PROVE  Beats'
BY Zenon DEF Beats

LEMMA BeatsDie ==
  ASSUME Typed, Beats, NEW n \in Node, Die(n)
  PROVE  Beats'
<1>1. /\ beat'[n] = <<>> /\ left'[n] = 0 /\ nodeConnectionChange'[n] = <<>>
      /\ \A x \in Node : x # n => /\ beat'[x] = beat[x] /\ left'[x] = left[x]
                                  /\ nodeConnectionChange'[x] = nodeConnectionChange[x]
  BY DEF Die, Typed, TypeOK
<1>2. ~(left'[n] > 0)
  BY <1>1
<1> QED BY <1>1, <1>2, Zenon DEF Beats, Changes

\* The changes after connectNewNode.
LEMMA RegisterNews ==
  ASSUME Typed, NEW m \in Node, NEW c \in backlog[m], Register(m, c)
  PROVE  /\ nodeConnectionChange'[m] # <<>> /\ Changes(nodeConnectionChange'[m])
         /\ \A x \in Node : x # m => nodeConnectionChange'[x] = nodeConnectionChange[x]
<1> DEFINE more == nodeConnectionChange[m] \o <<"A">> \o Address(c)
<1>1. nodeConnectionChange' = [nodeConnectionChange EXCEPT ![m] = more]
  BY Zenon DEF Register
<1>2. more # <<>> /\ Changes(more)
  <2>1. nodeConnectionChange[m] \in Message /\ "A" \in Field /\ c \in Connection
    BY DEF Typed, Field, Words
  <2> QED BY <2>1, ChangeAdded
<1>3. DOMAIN nodeConnectionChange = Node
  BY DEF Typed
<1> HIDE DEF more
<1> QED BY <1>1, <1>2, <1>3, Zenon

LEMMA BeatsRegister ==
  ASSUME Typed, Beats, NEW m \in Node, NEW c \in backlog[m], Register(m, c)
  PROVE  Beats'
<1>1. UNCHANGED <<beat, left>>
  BY Zenon DEF Register
<1> QED BY <1>1, RegisterNews, Zenon DEF Beats

LEMMA BeatsTakeHeartbeat ==
  ASSUME Typed, Beats, NEW m \in Node, TakeHeartbeat(m)
  PROVE  Beats'
<1>1. PICK b \in Message : beat' = [beat EXCEPT ![m] = b] /\ (EmptyBeat(b) \/ Big(b))
  BY HeartbeatShape, Zenon
<1>2. /\ beat[m] = <<>> /\ nodeConnectionChange' = [nodeConnectionChange EXCEPT ![m] = <<>>]
      /\ left' = left
  BY Zenon DEF TakeHeartbeat
<1>3. DOMAIN beat = Node /\ DOMAIN nodeConnectionChange = Node
  BY DEF Typed
<1>4. beat'[m] = b /\ \A x \in Node : x # m => beat'[x] = beat[x]
  BY <1>1, <1>3, Zenon
<1>5. /\ nodeConnectionChange'[m] = <<>>
      /\ \A x \in Node : x # m => nodeConnectionChange'[x] = nodeConnectionChange[x]
  BY <1>2, <1>3, Zenon
<1>6. ~(left[m] > 0)
  BY <1>2, Zenon DEF Beats
<1>7. Harmless(b)
  BY <1>1, Zenon DEF Harmless
<1> QED BY <1>2, <1>4, <1>5, <1>6, <1>7, Zenon DEF Beats, Changes

LEMMA BeatsBeginSend ==
  ASSUME Typed, Beats, NEW m \in Node, BeginSend(m)
  PROVE  Beats'
<1>1. /\ beat[m] # <<>> /\ left' = [left EXCEPT ![m] = Len(others[m])]
      /\ beat' = [beat EXCEPT ![m] = IF others[m] = <<>> THEN <<>> ELSE @]
      /\ UNCHANGED nodeConnectionChange
  BY Zenon DEF BeginSend
<1>2. DOMAIN beat = Node /\ DOMAIN left = Node
  BY DEF Typed, TypeOK
<1>3. others[m] = <<>> => ~(Len(others[m]) > 0)
  OBVIOUS
<1> QED BY <1>1, <1>2, <1>3, Zenon DEF Beats

LEMMA BeatsSendNext ==
  ASSUME Typed, Beats, NEW m \in Node, SendNext(m)
  PROVE  Beats'
<1>1. /\ left' = [left EXCEPT ![m] = left[m] - 1]
      /\ beat' = [beat EXCEPT ![m] = IF left[m] = 1 THEN <<>> ELSE @]
      /\ left[m] \in 1..Len(others[m])
  BY SendNextCases, Zenon
<1>2. DOMAIN beat = Node /\ DOMAIN left = Node /\ left[m] \in Nat
  BY DEF Typed, TypeOK
<1>3. left[m] > 0 /\ (left[m] = 1 => ~(left[m] - 1 > 0))
  BY <1>1, <1>2
<1>4. ASSUME NEW x \in Node PROVE Changes(nodeConnectionChange'[x])
  <2>1. CASE UNCHANGED nodeConnectionChange
    BY <2>1, Zenon DEF Beats
  <2>2. CASE DropConnection(m, left[m])
    BY <1>1, <2>2, DropConnectionEffect, Zenon DEF Beats
  <2> QED BY <2>1, <2>2, SendNextCases, Zenon
<1>5. ASSUME NEW x \in Node PROVE beat'[x] = <<>> \/ Harmless(beat'[x])
  BY <1>1, <1>2, Zenon DEF Beats
<1>6. ASSUME NEW x \in Node, left'[x] > 0 PROVE beat'[x] # <<>>
  BY <1>1, <1>2, <1>3, <1>6, Zenon DEF Beats
<1> QED BY <1>4, <1>5, <1>6, Zenon DEF Beats

(***************************************************************************)
(* Replies: Dialled, Unmistakable and NewsFirst                             *)
(***************************************************************************)
\* They are kept by every step that makes no node Trying, puts nothing in the inbox of
\* one that is, and leaves the leaders' lists and heartbeats alone or clears the list.
LEMMA TryingFrame ==
  ASSUME Dialled, Unmistakable, NewsFirst,
         \A x \in Node : Trying(x)' =>
           /\ Trying(x) /\ cur'[x] = cur[x] /\ seed'[x] = seed[x] /\ target'[x] = target[x]
           /\ inbox'[x] = inbox[x] /\ ruledOut[x] \subseteq ruledOut'[x],
         \A m \in Node : backlog'[m] \subseteq backlog[m],
         \A m \in Node :
           \/ /\ others'[m] = others[m] /\ left'[m] = left[m] /\ beat'[m] = beat[m]
              /\ nodeConnectionChange'[m] = nodeConnectionChange[m]
           \/ others'[m] = <<>>
  PROVE  Dialled' /\ Unmistakable' /\ NewsFirst'
<1>1. \A x \in Node : Trying(x)' => Mine(x)' = Mine(x)
  BY Zenon DEF Mine
<1>2. \A x \in Node : Hopeful(x)' => Hopeful(x)
  BY Zenon DEF Hopeful, Seed
<1>3. \A d : ~Contains(<<>>, d)
  BY DEF Contains
<1>4. ASSUME NEW m \in Node, NEW x \in Node, Trying(x)', Contains(others[m], Mine(x))'
      PROVE  /\ Contains(others[m], Mine(x)) /\ others'[m] = others[m] /\ left'[m] = left[m]
             /\ beat'[m] = beat[m] /\ nodeConnectionChange'[m] = nodeConnectionChange[m]
  <2>1. Contains(others'[m], Mine(x))
    <3>1. Mine(x)' = Mine(x)
      BY <1>1, <1>4, Zenon
    <3> QED BY <1>4, <3>1 DEF Contains
  <2>2. others'[m] # <<>>
    BY <1>3, <2>1, Zenon
  <2> QED BY <2>1, <2>2, Zenon
<1>5. Dialled'
  <2> SUFFICES ASSUME NEW n \in Node, NEW m \in Node, Trying(n)'
               PROVE  /\ Mine(n)' \in backlog'[m] => m = target'[n][1] /\ inbox'[n] = <<>>
                      /\ Contains(others[m], Mine(n))' => m = target'[n][1]
    BY Zenon DEF Dialled
  <2>1. Trying(n) /\ Mine(n)' = Mine(n) /\ target'[n] = target[n] /\ inbox'[n] = inbox[n]
    BY <1>1, Zenon
  <2>2. ASSUME Mine(n)' \in backlog'[m] PROVE m = target'[n][1] /\ inbox'[n] = <<>>
    <3>1. Mine(n) \in backlog[m]
      BY <2>1, <2>2
    <3>2. m = target[n][1] /\ inbox[n] = <<>>
      BY <2>1, <3>1, Zenon DEF Dialled
    <3> QED BY <2>1, <3>2
  <2>3. ASSUME Contains(others[m], Mine(n))' PROVE m = target'[n][1]
    <3>1. Contains(others[m], Mine(n))
      BY <1>4, <2>3, Zenon
    <3>2. m = target[n][1]
      BY <2>1, <3>1, Zenon DEF Dialled
    <3> QED BY <2>1, <3>2
  <2> QED BY <2>2, <2>3
<1>6. Unmistakable'
  BY <1>2, Zenon DEF Unmistakable, Hopeful
<1>7. NewsFirst'
  <2> SUFFICES ASSUME NEW n \in Node, NEW m \in Node, Hopeful(n)', Contains(others[m], Mine(n))'
               PROVE  /\ inbox'[n] = <<>> => News(m, Mine(n))'
                      /\ Len(inbox'[n]) = 1 /\ EmptyBeat(inbox'[n][1]) =>
                           News(m, Mine(n))' /\ ~(EmptyBeat(beat'[m]) /\ Unsent(m, Mine(n))')
    BY Zenon DEF NewsFirst
  <2>1. Trying(n)' /\ Hopeful(n)
    BY <1>2, Zenon DEF Hopeful
  <2>2. inbox'[n] = inbox[n] /\ Mine(n)' = Mine(n) /\ Contains(others[m], Mine(n))
    BY <1>1, <1>4, <2>1, Zenon
  <2>3. /\ others'[m] = others[m] /\ left'[m] = left[m] /\ beat'[m] = beat[m]
        /\ nodeConnectionChange'[m] = nodeConnectionChange[m]
    BY <1>4, <2>1, Zenon
  <2>4. (Unsent(m, Mine(n))' <=> Unsent(m, Mine(n))) /\ (News(m, Mine(n))' <=> News(m, Mine(n)))
    BY <2>2, <2>3, Zenon DEF Unsent, News
  <2> QED BY <2>1, <2>2, <2>3, <2>4, Zenon DEF NewsFirst
<1> QED BY <1>5, <1>6, <1>7

\* The steps of one node that is not Trying afterwards.
LEMMA TryingElsewhere ==
  ASSUME Dialled, Unmistakable, NewsFirst, NEW n \in Node, ~Trying(n)',
         \A x \in Node : x # n =>
           /\ role'[x] = role[x] /\ cur'[x] = cur[x] /\ seed'[x] = seed[x]
           /\ target'[x] = target[x] /\ inbox'[x] = inbox[x] /\ ruledOut'[x] = ruledOut[x],
         \A m \in Node : backlog'[m] \subseteq backlog[m],
         \A m \in Node :
           \/ /\ others'[m] = others[m] /\ left'[m] = left[m] /\ beat'[m] = beat[m]
              /\ nodeConnectionChange'[m] = nodeConnectionChange[m]
           \/ others'[m] = <<>>
  PROVE  Dialled' /\ Unmistakable' /\ NewsFirst'
<1>1. ASSUME NEW x \in Node, Trying(x)'
      PROVE  /\ Trying(x) /\ cur'[x] = cur[x] /\ seed'[x] = seed[x] /\ target'[x] = target[x]
             /\ inbox'[x] = inbox[x] /\ ruledOut[x] \subseteq ruledOut'[x]
  <2>1. x # n
    BY <1>1
  <2>2. /\ role'[x] = role[x] /\ cur'[x] = cur[x] /\ seed'[x] = seed[x]
        /\ target'[x] = target[x] /\ inbox'[x] = inbox[x] /\ ruledOut'[x] = ruledOut[x]
    BY <2>1
  <2> QED BY <1>1, <2>2 DEF Trying
<1> QED BY <1>1, TryingFrame, Zenon

LEMMA TryingUnchanged ==
  ASSUME Dialled, Unmistakable, NewsFirst,
         UNCHANGED <<role, cur, seed, target, inbox, ruledOut, backlog, others, left, beat,
                     nodeConnectionChange>>
  PROVE  Dialled' /\ Unmistakable' /\ NewsFirst'
<1>1. \A x \in Node : Trying(x)' => Trying(x)
  BY DEF Trying
<1> QED BY <1>1, TryingFrame, Zenon

LEMMA TryingBoot ==
  ASSUME Typed, Search, Dialled, Unmistakable, NewsFirst, NEW n \in Node, Boot(n)
  PROVE  Dialled' /\ Unmistakable' /\ NewsFirst'
<1>1. /\ role[n] = "down" /\ role' = [role EXCEPT ![n] = "starting"]
      /\ seed' = [seed EXCEPT ![n] = 1] /\ ruledOut' = [ruledOut EXCEPT ![n] = {}]
      /\ target' = [target EXCEPT ![n] = IF Seeds[n] = <<>> THEN @ ELSE SeedAt(n, 1)]
      /\ UNCHANGED <<cur, inbox, backlog, others, left, beat, nodeConnectionChange>>
  BY Zenon DEF Boot, links, lead, serve
<1>2. ~Trying(n)'
  BY <1>1 DEF Trying, Search
<1>3. \A x \in Node : x # n =>
        /\ role'[x] = role[x] /\ cur'[x] = cur[x] /\ seed'[x] = seed[x]
        /\ target'[x] = target[x] /\ inbox'[x] = inbox[x] /\ ruledOut'[x] = ruledOut[x]
  BY <1>1 DEF Typed, TypeOK
<1> QED BY <1>1, <1>2, <1>3, TryingElsewhere, Zenon

LEMMA TryingDie ==
  ASSUME Typed, Dialled, Unmistakable, NewsFirst, NEW n \in Node, Die(n)
  PROVE  Dialled' /\ Unmistakable' /\ NewsFirst'
<1>1. /\ role' = [role EXCEPT ![n] = "down"] /\ cur' = [cur EXCEPT ![n] = 0]
      /\ inbox' = [inbox EXCEPT ![n] = <<>>] /\ UNCHANGED <<seed, target, ruledOut>>
      /\ backlog' = [backlog EXCEPT ![n] = {}] /\ others' = [others EXCEPT ![n] = <<>>]
      /\ beat' = [beat EXCEPT ![n] = <<>>] /\ left' = [left EXCEPT ![n] = 0]
      /\ nodeConnectionChange' = [nodeConnectionChange EXCEPT ![n] = <<>>]
  BY Zenon DEF Die
<1>2. ~Trying(n)'
  BY <1>1 DEF Trying, Typed, TypeOK
<1>3. \A x \in Node : x # n =>
        /\ role'[x] = role[x] /\ cur'[x] = cur[x] /\ seed'[x] = seed[x]
        /\ target'[x] = target[x] /\ inbox'[x] = inbox[x] /\ ruledOut'[x] = ruledOut[x]
  BY <1>1 DEF Typed, TypeOK
<1>4. \A m \in Node : backlog'[m] \subseteq backlog[m]
  BY <1>1 DEF Typed
<1>5. others'[n] = <<>>
  BY <1>1 DEF Typed
<1>6. \A m \in Node : m # n =>
        /\ others'[m] = others[m] /\ left'[m] = left[m] /\ beat'[m] = beat[m]
        /\ nodeConnectionChange'[m] = nodeConnectionChange[m]
  BY <1>1 DEF Typed, TypeOK
<1> QED BY <1>2, <1>3, <1>4, <1>5, <1>6, TryingElsewhere, Zenon

LEMMA TryingRefused ==
  ASSUME Typed, Dialled, Unmistakable, NewsFirst, NEW n \in Node, Refused(n)
  PROVE  Dialled' /\ Unmistakable' /\ NewsFirst'
<1>1. /\ cur[n] = 0 /\ seed' = [seed EXCEPT ![n] = @ + 1]
      /\ target' = [target EXCEPT ![n] =
                      IF seed[n] < Len(Seeds[n]) THEN SeedAt(n, seed[n] + 1) ELSE @]
      /\ ruledOut' = [ruledOut EXCEPT ![n] = @ \cup {Seed(n)}]
      /\ UNCHANGED <<role, cur, inbox, backlog, others, left, beat, nodeConnectionChange>>
  BY Zenon DEF Refused, Dialling, NextSeed, Seed, links, lead, serve
<1>2. ~Trying(n)'
  BY <1>1 DEF Trying
<1>3. \A x \in Node : x # n =>
        /\ role'[x] = role[x] /\ cur'[x] = cur[x] /\ seed'[x] = seed[x]
        /\ target'[x] = target[x] /\ inbox'[x] = inbox[x] /\ ruledOut'[x] = ruledOut[x]
  BY <1>1 DEF Typed, TypeOK
<1> QED BY <1>1, <1>2, <1>3, TryingElsewhere, Zenon

LEMMA TryingAssumeLeadership ==
  ASSUME Typed, Dialled, Unmistakable, NewsFirst, NEW n \in Node, AssumeLeadership(n)
  PROVE  Dialled' /\ Unmistakable' /\ NewsFirst'
<1>1. /\ cur[n] = 0 /\ role' = [role EXCEPT ![n] = "leader"]
      /\ UNCHANGED <<seed, target, ruledOut, cur, inbox, backlog, others, left, beat,
                     nodeConnectionChange>>
  BY Zenon DEF AssumeLeadership, links, lead, serve
<1>2. ~Trying(n)'
  BY <1>1 DEF Trying
<1>3. \A x \in Node : x # n =>
        /\ role'[x] = role[x] /\ cur'[x] = cur[x] /\ seed'[x] = seed[x]
        /\ target'[x] = target[x] /\ inbox'[x] = inbox[x] /\ ruledOut'[x] = ruledOut[x]
  BY <1>1 DEF Typed, TypeOK
<1> QED BY <1>1, <1>2, <1>3, TryingElsewhere, Zenon

LEMMA TryingReadReply ==
  ASSUME Typed, Dialled, Unmistakable, NewsFirst, NEW n \in Node, ReadReply(n)
  PROVE  Dialled' /\ Unmistakable' /\ NewsFirst'
<1>1. PICK k \in Readable(n) :
        /\ \/ role' = [role EXCEPT ![n] = "follower"] /\ UNCHANGED <<target, cur>>
           \/ /\ UNCHANGED role /\ cur' = [cur EXCEPT ![n] = 0]
              /\ target' = target \/ target' = [target EXCEPT ![n] = Received(n, k)]
        /\ inbox' = [inbox EXCEPT ![n] = SubSeq(@, k + 1, Len(@))]
  BY Zenon DEF ReadReply, Joined, Redirected, Repeated
<1>2. UNCHANGED <<seed, ruledOut, backlog, others, left, beat, nodeConnectionChange>>
  BY Zenon DEF ReadReply, lead, serve
<1>3. ~Trying(n)'
  BY <1>1 DEF Trying, Typed, TypeOK
<1>4. \A x \in Node : x # n => role'[x] = role[x] /\ cur'[x] = cur[x] /\ target'[x] = target[x]
  BY <1>1 DEF Typed, TypeOK
<1>5. \A x \in Node : x # n => inbox'[x] = inbox[x]
  BY <1>1 DEF Typed
<1> QED BY <1>2, <1>3, <1>4, <1>5, TryingElsewhere, Zenon

LEMMA TryingReadHeartbeat ==
  ASSUME Typed, Dialled, Unmistakable, NewsFirst, NEW n \in Node, ReadHeartbeat(n)
  PROVE  Dialled' /\ Unmistakable' /\ NewsFirst'
<1>1. PICK k \in Readable(n) : inbox' = [inbox EXCEPT ![n] = SubSeq(@, k + 1, Len(@))]
  BY Zenon DEF ReadHeartbeat
<1>2. /\ role[n] = "follower"
      /\ UNCHANGED <<role, cur, seed, target, ruledOut, backlog, others, left, beat,
                     nodeConnectionChange>>
  BY Zenon DEF ReadHeartbeat, election, lead, serve
<1>3. ~Trying(n)'
  BY <1>2 DEF Trying
<1>4. \A x \in Node : x # n => inbox'[x] = inbox[x]
  BY <1>1 DEF Typed
<1> QED BY <1>2, <1>3, <1>4, TryingElsewhere, Zenon

LEMMA TryingDial ==
  ASSUME Typed, Places, Dialled, Unmistakable, NewsFirst, NEW n \in Node, Dial(n)
  PROVE  Dialled' /\ Unmistakable' /\ NewsFirst'
<1> DEFINE new == [node |-> n, conn |-> dialled[n] + 1]
           to == target[n][1]
<1>1. /\ to \in Node /\ role[n] = "starting"
      /\ cur' = [cur EXCEPT ![n] = dialled[n] + 1]
      /\ inbox' = [inbox EXCEPT ![n] = <<>>]
      /\ backlog' = [backlog EXCEPT ![to] = @ \cup {new}]
      /\ UNCHANGED <<role, seed, target, ruledOut, others, left, beat, nodeConnectionChange>>
  BY Zenon DEF Dial, Dialling, Listening, election, lead
<1>2. dialled[n] \in Nat /\ DOMAIN cur = Node /\ DOMAIN inbox = Node /\ DOMAIN backlog = Node
  BY DEF Typed, TypeOK
<1>3. Mine(n)' = new /\ inbox'[n] = <<>>
  BY <1>1, <1>2, Zenon DEF Mine
<1>4. \A x \in Node : x # n =>
        /\ (Trying(x)' <=> Trying(x)) /\ (Hopeful(x)' <=> Hopeful(x))
        /\ Mine(x)' = Mine(x) /\ inbox'[x] = inbox[x] /\ target'[x] = target[x]
  <2>1. \A x \in Node : x # n => cur'[x] = cur[x] /\ inbox'[x] = inbox[x]
    BY <1>1, <1>2, Zenon
  <2> QED BY <1>1, <2>1, Zenon DEF Trying, Hopeful, Seed, Mine
<1>5. \A x \in Node : x # n => Mine(x) # new
  BY DEF Mine
<1>6. \A k \in Node : ~Contains(others[k], new) /\ new \notin backlog[k]
  <2>1. \A d : d = new => ~(d.conn <= dialled[d.node])
    BY <1>2
  <2> HIDE DEF new
  <2>2. ASSUME NEW k \in Node, NEW i \in 1..Len(others[k]) PROVE others[k][i] # new
    BY <2>1, <2>2, Zenon DEF Places, Listed
  <2> QED BY <2>1, <2>2, Zenon DEF Places, Waiting, Contains
<1> HIDE DEF new
<1>7. \A k \in Node : \A d \in backlog'[k] : d \in backlog[k] \/ (d = new /\ k = to)
  BY <1>1, <1>2
<1> HIDE DEF to
<1>8. Dialled'
  <2> SUFFICES ASSUME NEW x \in Node, NEW m \in Node, Trying(x)'
               PROVE  /\ Mine(x)' \in backlog'[m] => m = target'[x][1] /\ inbox'[x] = <<>>
                      /\ Contains(others[m], Mine(x))' => m = target'[x][1]
    BY Zenon DEF Dialled
  <2>1. CASE x = n
    <3>1. ~Contains(others[m], Mine(x))'
      BY <1>1, <1>3, <1>6, <2>1, Zenon
    <3>2. Mine(x)' \in backlog'[m] => m = target'[x][1]
      <4>1. target'[x][1] = to
        BY <1>1, <2>1, Zenon DEF to
      <4> QED BY <1>3, <1>6, <1>7, <2>1, <4>1, Zenon
    <3> QED BY <1>3, <2>1, <3>1, <3>2, Zenon
  <2>2. CASE x # n
    <3>1. /\ Trying(x) /\ Mine(x)' = Mine(x) /\ inbox'[x] = inbox[x] /\ target'[x] = target[x]
          /\ Mine(x) # new /\ others' = others
      BY <1>1, <1>4, <1>5, <2>2, Zenon
    <3>2. /\ Mine(x) \in backlog[m] => m = target[x][1] /\ inbox[x] = <<>>
          /\ Contains(others[m], Mine(x)) => m = target[x][1]
      BY <3>1, Zenon DEF Dialled
    <3>3. Mine(x)' \in backlog'[m] => Mine(x) \in backlog[m]
      BY <1>7, <3>1, Zenon
    <3>4. Contains(others[m], Mine(x))' => Contains(others[m], Mine(x))
      BY <3>1, Zenon
    <3> QED BY <3>1, <3>2, <3>3, <3>4, Zenon
  <2> QED BY <2>1, <2>2
<1>9. Unmistakable'
  <2> SUFFICES ASSUME NEW x \in Node, Hopeful(x)'
               PROVE  /\ \A i \in 1..Len(inbox'[x]) : Harmless(inbox'[x][i])
                      /\ Len(inbox'[x]) >= 2 => Apart(inbox'[x][1], inbox'[x][2])
    BY Zenon DEF Unmistakable
  <2>1. CASE x = n
    <3>1. ~(Len(<<>>) >= 2) /\ \A i \in 1..Len(<<>>) : FALSE
      OBVIOUS
    <3> QED BY <1>3, <2>1, <3>1, Zenon
  <2>2. CASE x # n
    BY <1>4, <2>2, Zenon DEF Unmistakable
  <2> QED BY <2>1, <2>2
<1>10. NewsFirst'
  <2> SUFFICES ASSUME NEW x \in Node, NEW m \in Node, Hopeful(x)', Contains(others[m], Mine(x))'
               PROVE  /\ inbox'[x] = <<>> => News(m, Mine(x))'
                      /\ Len(inbox'[x]) = 1 /\ EmptyBeat(inbox'[x][1]) =>
                           News(m, Mine(x))' /\ ~(EmptyBeat(beat'[m]) /\ Unsent(m, Mine(x))')
    BY Zenon DEF NewsFirst
  <2>1. x # n
    BY <1>1, <1>3, <1>6, Zenon
  <2>2. Hopeful(x) /\ Mine(x)' = Mine(x) /\ inbox'[x] = inbox[x]
    BY <1>4, <2>1, Zenon
  <2>3. Contains(others[m], Mine(x))
    BY <1>1, <2>2, Zenon
  <2>4. (Unsent(m, Mine(x))' <=> Unsent(m, Mine(x))) /\ (News(m, Mine(x))' <=> News(m, Mine(x)))
    BY <1>1, <2>2, Zenon DEF Unsent, News
  <2> QED BY <1>1, <2>2, <2>3, <2>4, Zenon DEF NewsFirst
<1> QED BY <1>8, <1>9, <1>10

LEMMA TryingRegister ==
  ASSUME Typed, Places, Dialled, Unmistakable, NewsFirst,
         NEW m \in Node, NEW c \in backlog[m], Register(m, c)
  PROVE  Dialled' /\ Unmistakable' /\ NewsFirst'
<1>1. /\ left[m] = 0
      /\ backlog' = [backlog EXCEPT ![m] = @ \ {c}]
      /\ others' = [others EXCEPT ![m] = Append(@, c)]
      /\ UNCHANGED <<role, cur, seed, target, ruledOut, inbox, left, beat>>
  BY Zenon DEF Register, MtxFree, election, links
<1>2. others \in [Node -> Seq(Connection)] /\ DOMAIN backlog = Node /\ c \in Connection
  BY DEF Typed
<1>3. \A x \in Node : backlog'[x] \subseteq backlog[x]
  BY <1>1, <1>2
<1>4. /\ \A x \in Node : x # m => others'[x] = others[x]
      /\ \A d : Contains(others'[m], d) => Contains(others[m], d) \/ d = c
  <2>1. others'[m] = Append(others[m], c) /\ others[m] \in Seq(Connection)
    BY <1>1, <1>2
  <2>2. \A d : Contains(Append(others[m], c), d) <=> Contains(others[m], d) \/ d = c
    BY <1>2, <2>1, ContainsAppend
  <2>3. \A x \in Node : x # m => others'[x] = others[x]
    BY <1>1, <1>2
  <2> QED BY <2>1, <2>2, <2>3, Zenon
<1>5. /\ \A x \in Node : Trying(x)' <=> Trying(x)
      /\ \A x \in Node : Hopeful(x)' <=> Hopeful(x)
      /\ \A x \in Node : Mine(x)' = Mine(x)
  BY <1>1, Zenon DEF Trying, Hopeful, Seed, Mine
<1>6. Dialled'
  <2> SUFFICES ASSUME NEW x \in Node, NEW k \in Node, Trying(x)'
               PROVE  /\ Mine(x)' \in backlog'[k] => k = target'[x][1] /\ inbox'[x] = <<>>
                      /\ Contains(others[k], Mine(x))' => k = target'[x][1]
    BY Zenon DEF Dialled
  <2>1. Trying(x) /\ Mine(x)' = Mine(x) /\ target' = target /\ inbox' = inbox
    BY <1>1, <1>5, Zenon
  <2>2. /\ Mine(x) \in backlog[k] => k = target[x][1] /\ inbox[x] = <<>>
        /\ Contains(others[k], Mine(x)) => k = target[x][1]
    BY <2>1, Zenon DEF Dialled
  <2>3. Mine(x)' \in backlog'[k] => Mine(x) \in backlog[k]
    BY <1>3, <2>1
  <2>4. Contains(others[k], Mine(x))' => Contains(others[k], Mine(x)) \/ Mine(x) \in backlog[k]
    BY <1>4, <2>1, Zenon
  <2> QED BY <2>1, <2>2, <2>3, <2>4, Zenon
<1>7. Unmistakable'
  BY <1>1, <1>5, Zenon DEF Unmistakable
<1>8. NewsFirst'
  <2> SUFFICES ASSUME NEW x \in Node, NEW k \in Node, Hopeful(x)', Contains(others[k], Mine(x))'
               PROVE  /\ inbox'[x] = <<>> => News(k, Mine(x))'
                      /\ Len(inbox'[x]) = 1 /\ EmptyBeat(inbox'[x][1]) =>
                           News(k, Mine(x))' /\ ~(EmptyBeat(beat'[k]) /\ Unsent(k, Mine(x))')
    BY Zenon DEF NewsFirst
  <2>1. Hopeful(x) /\ Mine(x)' = Mine(x) /\ inbox' = inbox /\ beat' = beat /\ left' = left
    BY <1>1, <1>5, Zenon
  <2>2. CASE k # m
    <3>1. others'[k] = others[k] /\ nodeConnectionChange'[k] = nodeConnectionChange[k]
      BY <1>4, <2>2, RegisterNews, Zenon
    <3>2. Contains(others[k], Mine(x))
      BY <2>1, <3>1, Zenon
    <3>3. (Unsent(k, Mine(x))' <=> Unsent(k, Mine(x))) /\ (News(k, Mine(x))' <=> News(k, Mine(x)))
      BY <2>1, <3>1, Zenon DEF Unsent, News
    <3> QED BY <2>1, <3>2, <3>3, Zenon DEF NewsFirst
  <2>3. CASE k = m
    <3>1. News(k, Mine(x))'
      BY <2>3, RegisterNews, Zenon DEF News
    <3>2. ASSUME Len(inbox[x]) = 1, EmptyBeat(inbox[x][1])
          PROVE  ~(EmptyBeat(beat[m]) /\ Unsent(m, Mine(x))')
      <4>1. inbox[x] # <<>>
        BY <3>2
      <4>2. Mine(x) # c
        BY <2>1, <4>1, Zenon DEF Dialled, Hopeful
      <4>3. Contains(others[m], Mine(x))
        BY <1>4, <2>1, <2>3, <4>2, Zenon
      <4>4. ~(EmptyBeat(beat[m]) /\ Unsent(m, Mine(x)))
        BY <2>1, <3>2, <4>3, Zenon DEF NewsFirst
      <4>5. Unsent(m, Mine(x))' => Unsent(m, Mine(x))
        BY <1>1, <2>1, Zenon DEF Unsent
      <4> QED BY <4>4, <4>5, Zenon
    <3> QED BY <2>1, <2>3, <3>1, <3>2, Zenon
  <2> QED BY <2>2, <2>3
<1> QED BY <1>6, <1>7, <1>8

\* One more message for node x that waits: Unmistakable is kept.
Clear(box) == /\ \A i \in 1..Len(box) : Harmless(box[i])
              /\ Len(box) >= 2 => Apart(box[1], box[2])

LEMMA ClearAppend ==
  ASSUME NEW box \in Seq(Message), NEW b \in Message, Clear(box), Harmless(b),
         NEW a, a = Append(box, b),
         Big(b) \/ Len(box) # 1 \/ ~EmptyBeat(box[1])
  PROVE  Clear(a) /\ Len(a) = Len(box) + 1 /\ (Len(box) = 0 => a[1] = b)
<1>1. Len(box) \in Nat
  OBVIOUS
<1>2. Len(a) = Len(box) + 1 /\ (\A i \in 1..Len(box) : a[i] = box[i]) /\ a[Len(box) + 1] = b
  BY AppendSeq
<1>3. \A i \in 1..Len(a) : Harmless(a[i])
  <2>1. \A i \in 1..(Len(box) + 1) : i \in 1..Len(box) \/ i = Len(box) + 1
    BY <1>1
  <2> QED BY <1>2, <2>1, Zenon DEF Clear
<1>4. ASSUME Len(a) >= 2 PROVE Apart(a[1], a[2])
  <2>1. CASE Len(box) = 1
    <3>1. 1 \in 1..Len(box) /\ Len(box) + 1 = 2
      BY <2>1
    <3>2. a[1] = box[1] /\ a[2] = b
      BY <1>2, <3>1, Zenon
    <3> QED BY <2>1, <3>2, Zenon DEF Apart
  <2>2. CASE Len(box) >= 2
    <3>1. 1 \in 1..Len(box) /\ 2 \in 1..Len(box)
      BY <1>1, <2>2
    <3>2. a[1] = box[1] /\ a[2] = box[2]
      BY <1>2, <3>1, Zenon
    <3> QED BY <2>2, <3>2, Zenon DEF Clear
  <2>3. Len(box) = 1 \/ Len(box) >= 2
    <3>1. \A j \in Nat : j + 1 >= 2 => j = 1 \/ j >= 2
      OBVIOUS
    <3> QED BY <1>1, <1>2, <1>4, <3>1, Zenon
  <2> QED BY <2>1, <2>2, <2>3
<1>5. Len(box) = 0 => a[1] = b
  <2>1. \A j \in Nat : j = 0 => j + 1 = 1
    OBVIOUS
  <2> QED BY <1>1, <1>2, <2>1, Zenon
<1> QED BY <1>2, <1>3, <1>4, <1>5, Zenon DEF Clear

LEMMA EmptyOrBig ==
  ASSUME NEW m \in Message
  PROVE  ~(EmptyBeat(m) /\ Big(m))
<1>1. Len(m) \in Nat
  BY DEF Message
<1>2. \A j \in Nat : ~(j = 2 /\ j >= 3)
  OBVIOUS
<1> QED BY <1>1, <1>2, Zenon DEF EmptyBeat, Big

LEMMA TryingWriteReply ==
  ASSUME Typed, Places, Dialled, Unmistakable, NewsFirst,
         NEW m \in Node, NEW r \in replying[m], WriteReply(m, r)
  PROVE  Dialled' /\ Unmistakable' /\ NewsFirst'
<1> DEFINE c == r.to
           b == r.data
<1>1. /\ inbox' = Delivered(inbox, c, b)
      /\ UNCHANGED <<role, cur, seed, target, ruledOut, backlog, others, left, beat,
                     nodeConnectionChange>>
  BY Zenon DEF WriteReply, election, lead
<1>2. c \in Connection /\ b \in Message
  BY DEF Typed, Reply
<1>3. Big(b) /\ Harmless(b)
  BY Zenon DEF Places, Replies, Harmless
<1>4. \A k \in Node : c \notin backlog[k]
  BY Zenon DEF Places, Waiting
<1> HIDE DEF c, b
<1>5. /\ \A x \in Node : Trying(x)' <=> Trying(x)
      /\ \A x \in Node : Hopeful(x)' <=> Hopeful(x)
      /\ \A x \in Node : Mine(x)' = Mine(x)
  BY <1>1, Zenon DEF Trying, Hopeful, Seed, Mine
<1>6. ASSUME NEW x \in Node
      PROVE  inbox'[x] = inbox[x] \/ (inbox'[x] = Append(inbox[x], b) /\ Mine(x) = c)
  <2>1. inbox'[x] = IF x = c.node /\ cur[x] = c.conn THEN Append(inbox[x], b) ELSE inbox[x]
    BY <1>1, <1>2, DeliveredBox, Zenon
  <2>2. x = c.node /\ cur[x] = c.conn => Mine(x) = c
    BY <1>2 DEF Mine, Connection
  <2> QED BY <2>1, <2>2, Zenon
<1>7. Dialled'
  <2> SUFFICES ASSUME NEW x \in Node, NEW k \in Node, Trying(x)'
               PROVE  /\ Mine(x)' \in backlog'[k] => k = target'[x][1] /\ inbox'[x] = <<>>
                      /\ Contains(others[k], Mine(x))' => k = target'[x][1]
    BY Zenon DEF Dialled
  <2>1. Trying(x) /\ Mine(x)' = Mine(x) /\ target' = target /\ others' = others /\ backlog' = backlog
    BY <1>1, <1>5, Zenon
  <2>2. /\ Mine(x) \in backlog[k] => k = target[x][1] /\ inbox[x] = <<>>
        /\ Contains(others[k], Mine(x)) => k = target[x][1]
    BY <2>1, Zenon DEF Dialled
  <2>3. Mine(x) \in backlog[k] => inbox'[x] = inbox[x]
    BY <1>4, <1>6, Zenon
  <2> QED BY <2>1, <2>2, <2>3, Zenon
<1>8. Unmistakable'
  <2> SUFFICES ASSUME NEW x \in Node, Hopeful(x)' PROVE Clear(inbox'[x])
    BY Zenon DEF Unmistakable, Clear
  <2>1. Clear(inbox[x]) /\ inbox[x] \in Seq(Message)
    BY <1>5, Zenon DEF Unmistakable, Clear, Typed
  <2>2. CASE inbox'[x] = Append(inbox[x], b)
    BY <1>2, <1>3, <2>1, <2>2, ClearAppend, Zenon
  <2> QED BY <1>6, <2>1, <2>2, Zenon
<1>9. NewsFirst'
  <2> SUFFICES ASSUME NEW x \in Node, NEW k \in Node, Hopeful(x)', Contains(others[k], Mine(x))'
               PROVE  /\ inbox'[x] = <<>> => News(k, Mine(x))'
                      /\ Len(inbox'[x]) = 1 /\ EmptyBeat(inbox'[x][1]) =>
                           News(k, Mine(x))' /\ ~(EmptyBeat(beat'[k]) /\ Unsent(k, Mine(x))')
    BY Zenon DEF NewsFirst
  <2>1. /\ Hopeful(x) /\ Mine(x)' = Mine(x) /\ beat' = beat /\ left' = left /\ others' = others
        /\ nodeConnectionChange' = nodeConnectionChange
    BY <1>1, <1>5, Zenon
  <2>2. Contains(others[k], Mine(x))
    BY <2>1, Zenon
  <2>3. (Unsent(k, Mine(x))' <=> Unsent(k, Mine(x))) /\ (News(k, Mine(x))' <=> News(k, Mine(x)))
    BY <2>1, Zenon DEF Unsent, News
  <2>4. CASE inbox'[x] = inbox[x]
    BY <2>1, <2>2, <2>3, <2>4, Zenon DEF NewsFirst
  <2>5. CASE inbox'[x] = Append(inbox[x], b)
    <3>1. inbox[x] \in Seq(Message) /\ Len(inbox[x]) \in Nat /\ Clear(inbox[x])
      <4>1. Clear(inbox[x])
        BY <2>1, Zenon DEF Unmistakable, Clear
      <4> QED BY <4>1 DEF Typed
    <3>2. Len(inbox'[x]) = Len(inbox[x]) + 1 /\ (Len(inbox[x]) = 0 => inbox'[x][1] = b)
      BY <1>2, <1>3, <2>5, <3>1, ClearAppend, Zenon
    <3>3. inbox'[x] # <<>>
      <4>1. \A j \in Nat : j + 1 # 0
        OBVIOUS
      <4>2. Len(<<>>) = 0
        OBVIOUS
      <4> QED BY <3>1, <3>2, <4>1, <4>2, Zenon
    <3>4. ~(Len(inbox'[x]) = 1 /\ EmptyBeat(inbox'[x][1]))
      <4>1. \A j \in Nat : j + 1 = 1 => j = 0
        OBVIOUS
      <4> QED BY <1>2, <1>3, <3>1, <3>2, <4>1, EmptyOrBig, Zenon
    <3> QED BY <3>3, <3>4, Zenon
  <2> QED BY <1>6, <2>4, <2>5, Zenon
<1> QED BY <1>7, <1>8, <1>9

\* A follower's answer is an address, but then the seed it comes from is ruled out.
LEMMA TryingRedirect ==
  ASSUME Typed, Search, Places, Dialled, Unmistakable, NewsFirst,
         NEW m \in Node, NEW c \in backlog[m], Redirect(m, c)
  PROVE  Dialled' /\ Unmistakable' /\ NewsFirst'
<1> DEFINE b == <<leaderIp[m], "port">>
<1>1. /\ inbox' = Delivered(inbox, c, b)
      /\ backlog' = [backlog EXCEPT ![m] = @ \ {c}]
      /\ ruledOut' = IF Current(c) THEN [ruledOut EXCEPT ![c.node] = @ \cup {m}] ELSE ruledOut
      /\ UNCHANGED <<role, cur, seed, target, others, left, beat, nodeConnectionChange>>
  BY Zenon DEF Redirect, lead
<1> HIDE DEF b
<1>2. c \in Connection /\ c.node \in Node
  BY DEF Typed, Connection
<1>3. \A x \in Node : backlog'[x] \subseteq backlog[x] /\ (x = m => c \notin backlog'[x])
  BY <1>1 DEF Typed
<1>4. \A x \in Node : ruledOut[x] \subseteq ruledOut'[x]
  <2> DEFINE d == c.node
  <2>1. ruledOut' = ruledOut \/ ruledOut' = [ruledOut EXCEPT ![d] = @ \cup {m}]
    BY <1>1, Zenon
  <2>2. d \in Node /\ ruledOut \in [Node -> SUBSET Node]
    BY <1>2 DEF Typed, TypeOK
  <2> HIDE DEF d
  <2> QED BY <2>1, <2>2
<1>5. /\ \A x \in Node : Trying(x)' <=> Trying(x)
      /\ \A x \in Node : Mine(x)' = Mine(x)
  BY <1>1, Zenon DEF Trying, Mine
<1>6. \A x \in Node : Hopeful(x)' => Hopeful(x)
  BY <1>1, <1>4, <1>5 DEF Hopeful, Seed
<1>7. ASSUME NEW x \in Node, Mine(x) # c PROVE inbox'[x] = inbox[x]
  <2>1. inbox'[x] = IF x = c.node /\ cur[x] = c.conn THEN Append(inbox[x], b) ELSE inbox[x]
    BY <1>1, <1>2, DeliveredBox, Zenon
  <2>2. x = c.node /\ cur[x] = c.conn => Mine(x) = c
    BY <1>2 DEF Mine, Connection
  <2> QED BY <1>7, <2>1, <2>2, Zenon
<1>8. ASSUME NEW x \in Node, Trying(x), Mine(x) = c PROVE ~Hopeful(x)'
  <2>1. x = c.node /\ Current(c)
    BY <1>8 DEF Mine, Current
  <2>2. ruledOut' = [ruledOut EXCEPT ![x] = @ \cup {m}]
    BY <1>1, <2>1, Zenon
  <2>3. m \in ruledOut'[x] /\ ruledOut[x] \subseteq ruledOut'[x]
    BY <2>2 DEF Typed, TypeOK
  <2>4. m = target[x][1]
    BY <1>8, Zenon DEF Dialled
  <2>5. target[x] = SeedAt(x, seed[x]) \/ Seed(x) \in ruledOut[x]
    BY <1>8, Zenon DEF Search, Trying
  <2>6. Seed(x) \in ruledOut'[x]
    <3>1. CASE target[x] = SeedAt(x, seed[x])
      <4>1. target[x][1] = Seed(x)
        BY <3>1 DEF SeedAt, Seed
      <4> QED BY <2>3, <2>4, <4>1, Zenon
    <3>2. CASE Seed(x) \in ruledOut[x]
      BY <2>3, <3>2
    <3> QED BY <2>5, <3>1, <3>2
  <2>7. Seed(x)' = Seed(x)
    BY <1>1, Zenon DEF Seed
  <2> QED BY <2>6, <2>7, Zenon DEF Hopeful
<1>9. Dialled'
  <2> SUFFICES ASSUME NEW x \in Node, NEW k \in Node, Trying(x)'
               PROVE  /\ Mine(x)' \in backlog'[k] => k = target'[x][1] /\ inbox'[x] = <<>>
                      /\ Contains(others[k], Mine(x))' => k = target'[x][1]
    BY Zenon DEF Dialled
  <2>1. Trying(x) /\ Mine(x)' = Mine(x) /\ target' = target /\ others' = others
    BY <1>1, <1>5, Zenon
  <2>2. /\ Mine(x) \in backlog[k] => k = target[x][1] /\ inbox[x] = <<>>
        /\ Contains(others[k], Mine(x)) => k = target[x][1]
    BY <2>1, Zenon DEF Dialled
  <2>3. ASSUME Mine(x)' \in backlog'[k] PROVE k = target'[x][1] /\ inbox'[x] = <<>>
    <3>1. Mine(x) \in backlog[k] /\ Mine(x) \in backlog'[k]
      BY <1>3, <2>1, <2>3
    <3>2. Mine(x) # c
      <4>1. c \in backlog[k] => k = m
        BY Zenon DEF Places, Waiting
      <4> QED BY <1>3, <3>1, <4>1, Zenon
    <3> QED BY <1>7, <2>1, <2>2, <3>1, <3>2, Zenon
  <2>4. Contains(others[k], Mine(x))' => k = target'[x][1]
    BY <2>1, <2>2, Zenon
  <2> QED BY <2>3, <2>4
<1>10. ASSUME NEW x \in Node, Hopeful(x)' PROVE Hopeful(x) /\ inbox'[x] = inbox[x]
  BY <1>6, <1>7, <1>8, <1>10, Zenon DEF Hopeful
<1>11. Unmistakable'
  BY <1>10, Zenon DEF Unmistakable
<1>12. NewsFirst'
  <2> SUFFICES ASSUME NEW x \in Node, NEW k \in Node, Hopeful(x)', Contains(others[k], Mine(x))'
               PROVE  /\ inbox'[x] = <<>> => News(k, Mine(x))'
                      /\ Len(inbox'[x]) = 1 /\ EmptyBeat(inbox'[x][1]) =>
                           News(k, Mine(x))' /\ ~(EmptyBeat(beat'[k]) /\ Unsent(k, Mine(x))')
    BY Zenon DEF NewsFirst
  <2>1. /\ Hopeful(x) /\ inbox'[x] = inbox[x] /\ Mine(x)' = Mine(x) /\ beat' = beat
        /\ left' = left /\ others' = others /\ nodeConnectionChange' = nodeConnectionChange
    BY <1>1, <1>5, <1>10, Zenon
  <2>2. Contains(others[k], Mine(x))
    BY <2>1, Zenon
  <2>3. (Unsent(k, Mine(x))' <=> Unsent(k, Mine(x))) /\ (News(k, Mine(x))' <=> News(k, Mine(x)))
    BY <2>1, Zenon DEF Unsent, News
  <2> QED BY <2>1, <2>2, <2>3, Zenon DEF NewsFirst
<1> QED BY <1>9, <1>11, <1>12

\* The steps of heartbeatSender leave everything about the nodes that wait alone, except
\* for their inboxes.
LEMMA DialledLists ==
  ASSUME Dialled, UNCHANGED <<role, cur, target, backlog>>,
         \A x, m \in Node : Trying(x) /\ Mine(x) \in backlog[m] => inbox'[x] = inbox[x],
         \A m \in Node, x \in Node : Contains(others'[m], Mine(x)) => Contains(others[m], Mine(x))
  PROVE  Dialled'
<1>1. /\ \A x \in Node : Trying(x)' <=> Trying(x)
      /\ \A x \in Node : Mine(x)' = Mine(x)
  BY Zenon DEF Trying, Mine
<1> SUFFICES ASSUME NEW x \in Node, NEW k \in Node, Trying(x)'
             PROVE  /\ Mine(x)' \in backlog'[k] => k = target'[x][1] /\ inbox'[x] = <<>>
                    /\ Contains(others[k], Mine(x))' => k = target'[x][1]
  BY Zenon DEF Dialled
<1>2. Trying(x) /\ Mine(x)' = Mine(x)
  BY <1>1, Zenon
<1>3. /\ Mine(x) \in backlog[k] => k = target[x][1] /\ inbox[x] = <<>>
      /\ Contains(others[k], Mine(x)) => k = target[x][1]
  BY <1>2, Zenon DEF Dialled
<1>4. ASSUME Mine(x)' \in backlog'[k] PROVE k = target'[x][1] /\ inbox'[x] = <<>>
  <2>1. Mine(x) \in backlog[k]
    BY <1>2, <1>4, Zenon
  <2> QED BY <1>2, <1>3, <2>1, Zenon
<1>5. Contains(others[k], Mine(x))' => k = target'[x][1]
  BY <1>2, <1>3, Zenon
<1> QED BY <1>4, <1>5

LEMMA TryingTakeHeartbeat ==
  ASSUME Typed, Beats, Dialled, Unmistakable, NewsFirst, NEW m \in Node, TakeHeartbeat(m)
  PROVE  Dialled' /\ Unmistakable' /\ NewsFirst'
<1>1. PICK b \in Message :
        /\ beat' = [beat EXCEPT ![m] = b]
        /\ \/ nodeConnectionChange[m] = <<>> /\ EmptyBeat(b)
           \/ nodeConnectionChange[m] # <<>> /\ Big(b)
  BY HeartbeatShape, Zenon
<1>2. /\ beat[m] = <<>> /\ nodeConnectionChange' = [nodeConnectionChange EXCEPT ![m] = <<>>]
      /\ UNCHANGED <<role, cur, seed, target, ruledOut, inbox, backlog, others, left>>
  BY Zenon DEF TakeHeartbeat, election, links, serve
<1>3. DOMAIN beat = Node /\ DOMAIN nodeConnectionChange = Node /\ left[m] \in Nat
  BY DEF Typed, TypeOK
<1>4. beat'[m] = b /\ \A x \in Node : x # m =>
        beat'[x] = beat[x] /\ nodeConnectionChange'[x] = nodeConnectionChange[x]
  BY <1>1, <1>2, <1>3, Zenon
<1>5. left[m] = 0
  <2>1. ~(left[m] > 0)
    BY <1>2, Zenon DEF Beats
  <2> QED BY <1>3, <2>1
<1>6. /\ \A x \in Node : Hopeful(x)' <=> Hopeful(x)
      /\ \A x \in Node : Mine(x)' = Mine(x)
  BY <1>2, Zenon DEF Trying, Hopeful, Seed, Mine
<1>7. Dialled'
  BY <1>2, DialledLists, Zenon
<1>8. Unmistakable'
  BY <1>2, <1>6, Zenon DEF Unmistakable
<1>9. NewsFirst'
  <2> SUFFICES ASSUME NEW x \in Node, NEW k \in Node, Hopeful(x)', Contains(others[k], Mine(x))'
               PROVE  /\ inbox'[x] = <<>> => News(k, Mine(x))'
                      /\ Len(inbox'[x]) = 1 /\ EmptyBeat(inbox'[x][1]) =>
                           News(k, Mine(x))' /\ ~(EmptyBeat(beat'[k]) /\ Unsent(k, Mine(x))')
    BY Zenon DEF NewsFirst
  <2>1. Hopeful(x) /\ Mine(x)' = Mine(x) /\ inbox' = inbox /\ Contains(others[k], Mine(x))
    BY <1>2, <1>6, Zenon
  <2>2. CASE k # m
    <3>1. beat'[k] = beat[k] /\ nodeConnectionChange'[k] = nodeConnectionChange[k]
      BY <1>4, <2>2, Zenon
    <3>2. (Unsent(k, Mine(x))' <=> Unsent(k, Mine(x))) /\ (News(k, Mine(x))' <=> News(k, Mine(x)))
      BY <1>2, <2>1, <3>1, Zenon DEF Unsent, News
    <3> QED BY <2>1, <3>1, <3>2, Zenon DEF NewsFirst
  <2>3. CASE k = m
    <3>1. ASSUME News(m, Mine(x)) PROVE News(k, Mine(x))' /\ ~EmptyBeat(beat'[k])
      <4>1. <<>> \in Message /\ ~Big(<<>>)
        BY DEF Message, Big
      <4>2. nodeConnectionChange[m] # <<>>
        BY <1>2, <3>1, <4>1, Zenon DEF News
      <4>3. Big(b) /\ ~EmptyBeat(b)
        BY <1>1, <4>2, EmptyOrBig, Zenon
      <4>4. b # <<>>
        BY <4>1, <4>3, Zenon
      <4>5. Unsent(k, Mine(x))'
        BY <1>2, <1>4, <1>5, <2>3, <4>4, Zenon DEF Unsent
      <4> QED BY <1>4, <2>3, <4>3, <4>5, Zenon DEF News
    <3> QED BY <2>1, <2>3, <3>1, Zenon DEF NewsFirst
  <2> QED BY <2>2, <2>3
<1> QED BY <1>7, <1>8, <1>9

LEMMA TryingBeginSend ==
  ASSUME Typed, Dialled, Unmistakable, NewsFirst, NEW m \in Node, BeginSend(m)
  PROVE  Dialled' /\ Unmistakable' /\ NewsFirst'
<1>1. /\ beat[m] # <<>> /\ left[m] = 0 /\ left' = [left EXCEPT ![m] = Len(others[m])]
      /\ beat' = [beat EXCEPT ![m] = IF others[m] = <<>> THEN <<>> ELSE @]
      /\ UNCHANGED <<role, cur, seed, target, ruledOut, inbox, backlog, others, nodeConnectionChange>>
  BY Zenon DEF BeginSend, MtxFree, election, links, serve
<1>2. DOMAIN beat = Node /\ DOMAIN left = Node
  BY DEF Typed, TypeOK
<1>3. left'[m] = Len(others[m]) /\ \A x \in Node : x # m => beat'[x] = beat[x] /\ left'[x] = left[x]
  BY <1>1, <1>2, Zenon
<1>4. others[m] # <<>> => beat'[m] = beat[m]
  BY <1>1, <1>2, Zenon
<1>5. /\ \A x \in Node : Hopeful(x)' <=> Hopeful(x)
      /\ \A x \in Node : Mine(x)' = Mine(x)
  BY <1>1, Zenon DEF Trying, Hopeful, Seed, Mine
<1>6. Dialled'
  BY <1>1, DialledLists, Zenon
<1>7. Unmistakable'
  BY <1>1, <1>5, Zenon DEF Unmistakable
<1>8. NewsFirst'
  <2> SUFFICES ASSUME NEW x \in Node, NEW k \in Node, Hopeful(x)', Contains(others[k], Mine(x))'
               PROVE  /\ inbox'[x] = <<>> => News(k, Mine(x))'
                      /\ Len(inbox'[x]) = 1 /\ EmptyBeat(inbox'[x][1]) =>
                           News(k, Mine(x))' /\ ~(EmptyBeat(beat'[k]) /\ Unsent(k, Mine(x))')
    BY Zenon DEF NewsFirst
  <2>1. Hopeful(x) /\ Mine(x)' = Mine(x) /\ inbox' = inbox /\ Contains(others[k], Mine(x))
    BY <1>1, <1>5, Zenon
  <2>2. beat'[k] = beat[k]
    <3>1. \A d : ~Contains(<<>>, d)
      BY DEF Contains
    <3> QED BY <1>3, <1>4, <2>1, <3>1, Zenon
  <2>3. Unsent(k, Mine(x))' <=> Unsent(k, Mine(x))
    <3>1. CASE k # m
      BY <1>1, <1>3, <2>1, <2>2, <3>1, Zenon DEF Unsent
    <3>2. CASE k = m
      <4>1. Unsent(m, Mine(x))
        BY <1>1, Zenon DEF Unsent
      <4>2. \E i \in 1..left'[m] : others'[m][i] = Mine(x)'
        BY <1>1, <1>3, <2>1, <3>2, Zenon DEF Contains
      <4>3. Unsent(m, Mine(x))'
        BY <1>1, <2>2, <3>2, <4>2, Zenon DEF Unsent
      <4> QED BY <3>2, <4>1, <4>3, Zenon
    <3> QED BY <3>1, <3>2
  <2>4. News(k, Mine(x))' <=> News(k, Mine(x))
    BY <1>1, <2>2, <2>3, Zenon DEF News
  <2> QED BY <2>1, <2>2, <2>3, <2>4, Zenon DEF NewsFirst
<1> QED BY <1>6, <1>7, <1>8

\* SendNext: what is still to be sent to a connection other than the one it is at.
LEMMA UnsentAfter ==
  ASSUME Typed, Typed', NEW m \in Node, SendNext(m), NEW d, d # others[m][left[m]],
         \A j \in 1..(left[m] - 1) : others'[m][j] = others[m][j]
  PROVE  /\ Unsent(m, d) <=> (beat'[m] # <<>> /\ (left'[m] = 0 \/ \E i \in 1..left'[m] : others'[m][i] = d))
         /\ Unsent(m, d) => beat'[m] = beat[m]
<1>1. /\ left[m] \in 1..Len(others[m]) /\ left' = [left EXCEPT ![m] = left[m] - 1]
      /\ beat' = [beat EXCEPT ![m] = IF left[m] = 1 THEN <<>> ELSE @]
  BY SendNextCases, Zenon
<1>2. DOMAIN beat = Node /\ DOMAIN left = Node /\ left[m] \in Nat
  BY DEF Typed, TypeOK
<1>3. left'[m] = left[m] - 1 /\ beat'[m] = IF left[m] = 1 THEN <<>> ELSE beat[m]
  BY <1>1, <1>2, Zenon
<1>4. left[m] # 0
  BY <1>1, <1>2
<1>5. CASE left[m] = 1
  <2>1. \A i \in 1..left[m] : i = left[m]
    BY <1>5
  <2> QED BY <1>3, <1>4, <1>5, <2>1, Zenon DEF Unsent
<1>6. CASE left[m] # 1
  <2>1. beat'[m] = beat[m]
    BY <1>3, <1>6, Zenon
  <2>2. left'[m] # 0
    BY <1>2, <1>3, <1>4, <1>6
  <2>3. /\ \A i \in 1..left[m] : i \in 1..(left[m] - 1) \/ i = left[m]
        /\ \A i \in 1..(left[m] - 1) : i \in 1..left[m]
    BY <1>2, <1>4
  <2> QED BY <1>3, <1>4, <2>1, <2>2, <2>3, Zenon DEF Unsent
<1> QED BY <1>5, <1>6

\* ... and nothing is, to the one it is at.
LEMMA SentAfter ==
  ASSUME Typed, Typed', Places, NEW m \in Node, SendNext(m), others' = others
  PROVE  ~(beat'[m] # <<>> /\ (left'[m] = 0 \/ \E i \in 1..left'[m] : others'[m][i] = others[m][left[m]]))
<1>1. /\ left[m] \in 1..Len(others[m]) /\ left' = [left EXCEPT ![m] = left[m] - 1]
      /\ beat' = [beat EXCEPT ![m] = IF left[m] = 1 THEN <<>> ELSE @]
  BY SendNextCases, Zenon
<1>2. DOMAIN beat = Node /\ DOMAIN left = Node /\ left[m] \in Nat /\ Len(others[m]) \in Nat
  BY DEF Typed, TypeOK
<1>3. left'[m] = left[m] - 1 /\ beat'[m] = IF left[m] = 1 THEN <<>> ELSE beat[m]
  BY <1>1, <1>2, Zenon
<1>4. left'[m] = 0 => left[m] = 1
  BY <1>2, <1>3
<1>5. ASSUME NEW i \in 1..left'[m] PROVE others[m][i] # others[m][left[m]]
  <2>1. i # left[m] /\ i \in 1..Len(others[m])
    BY <1>1, <1>2, <1>3, <1>5
  <2> QED BY <1>1, <2>1, Zenon DEF Places, Listed
<1> QED BY <1>3, <1>4, <1>5, Zenon

LEMMA TryingSendDrop ==
  ASSUME Typed, Typed', Dialled, Unmistakable, NewsFirst, NEW m \in Node, SendNext(m),
         others[m][left[m]].conn \notin open[others[m][left[m]].node], DropConnection(m, left[m])
  PROVE  Dialled' /\ Unmistakable' /\ NewsFirst'
<1> DEFINE i == left[m]
           o == others[m]
<1>1. /\ i \in 1..Len(o) /\ o[i] \in Connection
      /\ beat' = [beat EXCEPT ![m] = IF i = 1 THEN <<>> ELSE @]
      /\ left' = [left EXCEPT ![m] = i - 1]
      /\ UNCHANGED <<role, cur, seed, target, ruledOut, backlog>>
  BY SendNextCases, Zenon DEF election, serve
<1>2. /\ Len(others'[m]) = Len(o) - 1 /\ UNCHANGED inbox
      /\ \A j \in 1..(Len(o) - 1) : others'[m][j] = IF j = i THEN o[Len(o)] ELSE o[j]
      /\ nodeConnectionChange'[m] # <<>>
      /\ \A x \in Node : x # m => /\ others'[x] = others[x]
                                  /\ nodeConnectionChange'[x] = nodeConnectionChange[x]
  BY <1>1, DropConnectionEffect, Zenon
<1>3. Len(o) \in Nat /\ i \in Nat /\ DOMAIN beat = Node /\ DOMAIN left = Node
  BY DEF Typed, TypeOK
<1>4. \A x \in Node : x # m => beat'[x] = beat[x] /\ left'[x] = left[x]
  BY <1>1, <1>3, Zenon
<1>5. /\ \A x \in Node : Hopeful(x)' <=> Hopeful(x)
      /\ \A x \in Node : Mine(x)' = Mine(x)
  BY <1>1, <1>2, Zenon DEF Trying, Hopeful, Seed, Mine
<1>6. ASSUME NEW x \in Node, Trying(x) PROVE Mine(x) # o[i]
  <2>1. cur[x] \in open[x]
    BY <1>6 DEF Trying, Typed, TypeOK
  <2>2. Mine(x).conn = cur[x] /\ Mine(x).node = x
    BY DEF Mine
  <2> QED BY <2>1, <2>2, Zenon
<1>7. \A j \in 1..(i - 1) : others'[m][j] = o[j]
  <2>1. \A j \in 1..(i - 1) : j \in 1..(Len(o) - 1) /\ j # i
    BY <1>1, <1>3
  <2> QED BY <1>2, <2>1, Zenon
<1>8. \A d : Contains(others'[m], d) => Contains(o, d)
  <2>1. \A j \in 1..Len(others'[m]) : j \in 1..(Len(o) - 1) /\ j \in 1..Len(o) /\ Len(o) \in 1..Len(o)
    <3> HIDE DEF o
    <3> QED BY <1>2, <1>3
  <2> QED BY <1>2, <2>1, Zenon DEF Contains
<1>9. Dialled'
  <2>1. \A k \in Node, x \in Node : Contains(others'[k], Mine(x)) => Contains(others[k], Mine(x))
    BY <1>2, <1>8, Zenon
  <2> QED BY <1>1, <1>2, <2>1, DialledLists, Zenon
<1>10. Unmistakable'
  BY <1>2, <1>5, Zenon DEF Unmistakable
<1>11. NewsFirst'
  <2> SUFFICES ASSUME NEW x \in Node, NEW k \in Node, Hopeful(x)', Contains(others[k], Mine(x))'
               PROVE  /\ inbox'[x] = <<>> => News(k, Mine(x))'
                      /\ Len(inbox'[x]) = 1 /\ EmptyBeat(inbox'[x][1]) =>
                           News(k, Mine(x))' /\ ~(EmptyBeat(beat'[k]) /\ Unsent(k, Mine(x))')
    BY Zenon DEF NewsFirst
  <2>1. Hopeful(x) /\ Mine(x)' = Mine(x) /\ inbox' = inbox
    BY <1>2, <1>5, Zenon
  <2>2. Contains(others[k], Mine(x))
    <3>1. Contains(others'[k], Mine(x))
      BY <2>1, Zenon
    <3> QED BY <1>2, <1>8, <3>1, Zenon
  <2>3. CASE k # m
    <3>1. /\ beat'[k] = beat[k] /\ left'[k] = left[k] /\ others'[k] = others[k]
          /\ nodeConnectionChange'[k] = nodeConnectionChange[k]
      BY <1>2, <1>4, <2>3, Zenon
    <3>2. (Unsent(k, Mine(x))' <=> Unsent(k, Mine(x))) /\ (News(k, Mine(x))' <=> News(k, Mine(x)))
      BY <2>1, <3>1, Zenon DEF Unsent, News
    <3> QED BY <2>1, <2>2, <3>1, <3>2, Zenon DEF NewsFirst
  <2>4. CASE k = m
    <3>1. News(k, Mine(x))'
      BY <1>2, <2>4, Zenon DEF News
    <3>2. Mine(x) # o[i]
      BY <1>6, <2>1, Zenon DEF Hopeful
    <3>3. Unsent(m, Mine(x))' => Unsent(m, Mine(x)) /\ beat'[m] = beat[m]
      <4>1. /\ Unsent(m, Mine(x)) <=> (beat'[m] # <<>> /\ (left'[m] = 0 \/ \E j \in 1..left'[m] : others'[m][j] = Mine(x)))
            /\ Unsent(m, Mine(x)) => beat'[m] = beat[m]
        BY <1>7, <3>2, UnsentAfter, Zenon
      <4> QED BY <2>1, <4>1, Zenon DEF Unsent
    <3> QED BY <2>1, <2>2, <2>4, <3>1, <3>3, Zenon DEF NewsFirst
  <2> QED BY <2>3, <2>4
<1> QED BY <1>9, <1>10, <1>11

LEMMA TryingSendBeat ==
  ASSUME Typed, Typed', Places, Dialled, Beats, Unmistakable, NewsFirst, NEW m \in Node, SendNext(m),
         inbox' = Delivered(inbox, others[m][left[m]], beat[m]),
         UNCHANGED <<others, nodeConnectionChange>>
  PROVE  Dialled' /\ Unmistakable' /\ NewsFirst'
<1> DEFINE i == left[m]
           c == others[m][i]
           b == beat[m]
<1>1. /\ i \in 1..Len(others[m]) /\ c \in Connection
      /\ beat' = [beat EXCEPT ![m] = IF i = 1 THEN <<>> ELSE @]
      /\ left' = [left EXCEPT ![m] = i - 1]
      /\ UNCHANGED <<role, cur, seed, target, ruledOut, backlog>>
  BY SendNextCases, Zenon DEF election, serve
<1>2. b \in Message /\ DOMAIN beat = Node /\ DOMAIN left = Node /\ i \in Nat /\ i > 0
  BY <1>1 DEF Typed, TypeOK
<1>3. b # <<>> /\ Harmless(b)
  BY <1>2, Zenon DEF Beats
<1>4. \A x \in Node : x # m => beat'[x] = beat[x] /\ left'[x] = left[x]
  BY <1>1, <1>2, Zenon
<1>5. /\ \A x \in Node : Hopeful(x)' <=> Hopeful(x)
      /\ \A x \in Node : Mine(x)' = Mine(x)
  BY <1>1, Zenon DEF Trying, Hopeful, Seed, Mine
<1>6. ASSUME NEW x \in Node
      PROVE  \/ Mine(x) # c /\ inbox'[x] = inbox[x]
             \/ Mine(x) = c /\ inbox'[x] = Append(inbox[x], b)
  <2>1. inbox'[x] = IF x = c.node /\ cur[x] = c.conn THEN Append(inbox[x], b) ELSE inbox[x]
    BY <1>1, DeliveredBox, Zenon
  <2>2. x = c.node /\ cur[x] = c.conn <=> Mine(x) = c
    <3> HIDE DEF c
    <3> QED BY <1>1 DEF Mine, Connection
  <2> QED BY <2>1, <2>2, Zenon
<1>7. Contains(others[m], c) /\ \A k \in Node : c \notin backlog[k]
  BY <1>1, Zenon DEF Places, Waiting, Contains
<1>8. Unsent(m, c)
  <2>1. i \in 1..left[m]
    BY <1>2
  <2> QED BY <1>3, <2>1, Zenon DEF Unsent
\* A second heartbeat without changes is not sent before the one with changes.
<1>9. ASSUME NEW x \in Node, Hopeful(x), Mine(x) = c
      PROVE  /\ inbox[x] = <<>> => News(m, c)
             /\ Big(b) \/ Len(inbox[x]) # 1 \/ ~EmptyBeat(inbox[x][1])
  BY <1>3, <1>7, <1>8, <1>9, Zenon DEF NewsFirst, Harmless
<1> HIDE DEF c, b
<1>10. Dialled'
  <2>1. \A x, k \in Node : Trying(x) /\ Mine(x) \in backlog[k] => inbox'[x] = inbox[x]
    BY <1>6, <1>7, Zenon
  <2> QED BY <1>1, <2>1, DialledLists, Zenon
<1>11. ASSUME NEW x \in Node, Hopeful(x)
       PROVE  Clear(inbox[x]) /\ inbox[x] \in Seq(Message) /\ Len(inbox[x]) \in Nat
  <2>1. Clear(inbox[x])
    BY <1>11, Zenon DEF Unmistakable, Clear
  <2> QED BY <2>1 DEF Typed
<1>12. ASSUME NEW x \in Node, Hopeful(x), Mine(x) = c
       PROVE  /\ Clear(inbox'[x]) /\ Len(inbox'[x]) = Len(inbox[x]) + 1
              /\ Len(inbox[x]) = 0 => inbox'[x][1] = b
  <2>1. inbox'[x] = Append(inbox[x], b)
    BY <1>6, <1>12, Zenon
  <2> QED BY <1>2, <1>3, <1>9, <1>11, <1>12, <2>1, ClearAppend, Zenon
<1>13. Unmistakable'
  <2> SUFFICES ASSUME NEW x \in Node, Hopeful(x)' PROVE Clear(inbox'[x])
    BY Zenon DEF Unmistakable, Clear
  <2> QED BY <1>5, <1>6, <1>11, <1>12, Zenon
<1>14. NewsFirst'
  <2> SUFFICES ASSUME NEW x \in Node, NEW k \in Node, Hopeful(x)', Contains(others[k], Mine(x))'
               PROVE  /\ inbox'[x] = <<>> => News(k, Mine(x))'
                      /\ Len(inbox'[x]) = 1 /\ EmptyBeat(inbox'[x][1]) =>
                           News(k, Mine(x))' /\ ~(EmptyBeat(beat'[k]) /\ Unsent(k, Mine(x))')
    BY Zenon DEF NewsFirst
  <2>1. Hopeful(x) /\ Trying(x) /\ Mine(x)' = Mine(x) /\ Contains(others[k], Mine(x))
    BY <1>5, Zenon DEF Hopeful
  <2>2. CASE k # m
    <3>1. Mine(x) # c
      BY <1>7, <2>1, <2>2, Zenon DEF Dialled
    <3>2. beat'[k] = beat[k] /\ left'[k] = left[k] /\ inbox'[x] = inbox[x]
      BY <1>4, <1>6, <2>2, <3>1, Zenon
    <3>3. (Unsent(k, Mine(x))' <=> Unsent(k, Mine(x))) /\ (News(k, Mine(x))' <=> News(k, Mine(x)))
      BY <2>1, <3>2, Zenon DEF Unsent, News
    <3> QED BY <2>1, <3>2, <3>3, Zenon DEF NewsFirst
  <2>3. CASE k = m /\ Mine(x) # c
    <3>1. inbox'[x] = inbox[x]
      BY <1>6, <2>3, Zenon
    <3>2. /\ Unsent(m, Mine(x)) <=> (beat'[m] # <<>> /\ (left'[m] = 0 \/ \E j \in 1..left'[m] : others'[m][j] = Mine(x)))
          /\ Unsent(m, Mine(x)) => beat'[m] = beat[m]
      BY <2>3, UnsentAfter, Zenon DEF c
    <3>3. Unsent(m, Mine(x))' <=> Unsent(m, Mine(x))
      BY <2>1, <3>2, Zenon DEF Unsent
    <3>4. News(m, Mine(x)) => News(m, Mine(x))'
      BY <2>1, <3>2, <3>3, Zenon DEF News
    <3> QED BY <2>1, <2>3, <3>1, <3>2, <3>3, <3>4, Zenon DEF NewsFirst
  <2>4. CASE k = m /\ Mine(x) = c
    <3>1. /\ Len(inbox'[x]) = Len(inbox[x]) + 1 /\ (Len(inbox[x]) = 0 => inbox'[x][1] = b)
          /\ Len(inbox[x]) \in Nat
      BY <1>11, <1>12, <2>1, <2>4, Zenon
    <3>2. inbox'[x] # <<>>
      <4>1. (\A j \in Nat : j + 1 # 0) /\ Len(<<>>) = 0
        OBVIOUS
      <4> QED BY <3>1, <4>1, Zenon
    <3>3. ASSUME Len(inbox'[x]) = 1, EmptyBeat(inbox'[x][1]) PROVE News(m, Mine(x))'
      <4>1. (\A j \in Nat : j + 1 = 1 => j = 0)
        OBVIOUS
      <4>2. Len(inbox[x]) = 0 /\ EmptyBeat(b)
        BY <3>1, <3>3, <4>1, Zenon
      <4>3. inbox[x] = <<>>
        BY <1>11, <2>1, <4>2
      <4>4. News(m, c) /\ ~Big(b)
        BY <1>2, <1>9, <2>1, <2>4, <4>2, <4>3, EmptyOrBig, Zenon
      <4> QED BY <4>4, Zenon DEF News, b
    <3>4. ~Unsent(m, Mine(x))'
      <4>1. ~(beat'[m] # <<>> /\ (left'[m] = 0 \/ \E j \in 1..left'[m] : others'[m][j] = c))
        BY SentAfter, Zenon DEF c
      <4> QED BY <2>1, <2>4, <4>1, Zenon DEF Unsent
    <3> QED BY <2>4, <3>2, <3>3, <3>4, Zenon
  <2> QED BY <2>2, <2>3, <2>4
<1> QED BY <1>10, <1>13, <1>14

LEMMA TryingSendNext ==
  ASSUME Typed, Typed', Places, Dialled, Beats, Unmistakable, NewsFirst, NEW m \in Node, SendNext(m)
  PROVE  Dialled' /\ Unmistakable' /\ NewsFirst'
BY SendNextCases, TryingSendBeat, TryingSendDrop, Zenon

(***************************************************************************)
(* Every step keeps the invariant                                           *)
(***************************************************************************)
LEMMA RaftInit == Init => RaftInv
<1> SUFFICES ASSUME Init PROVE RaftInv
  OBVIOUS
<1>1. Typed
  BY TypedInit
<1>2. \A n \in Node : /\ role[n] = "down" /\ cur[n] = 0 /\ backlog[n] = {} /\ replying[n] = {}
                      /\ Len(others[n]) = 0 /\ beat[n] = <<>> /\ left[n] = 0
                      /\ nodeConnectionChange[n] = <<>>
  BY DEF Init
<1>3. Search /\ Exclusive
  BY <1>2 DEF Search, Exclusive, Electing, Trying
<1>4. Places
  BY <1>2 DEF Places, Waiting, Listed, Replies
<1>5. Dialled /\ Unmistakable /\ NewsFirst
  <2>1. \A n \in Node : ~Trying(n)
    BY <1>2 DEF Trying
  <2> QED BY <2>1, Zenon DEF Dialled, Unmistakable, NewsFirst, Hopeful
<1>6. Beats
  <2>1. \A n \in Node : ~(left[n] > 0)
    BY <1>2
  <2> QED BY <1>2, <2>1, Zenon DEF Beats, Changes
<1> QED BY <1>1, <1>3, <1>4, <1>5, <1>6 DEF RaftInv

LEMMA RaftBoot ==
  ASSUME RaftInv, NEW n \in Node, Boot(n)
  PROVE  RaftInv'
<1> USE DEF RaftInv
<1>1. Typed'
  BY TypedBoot
<1>2. Search' /\ Exclusive'
  BY <1>1, SearchBoot, ExclusiveBoot
<1>3. UNCHANGED <<backlog, dialled, others, replying, beat, left, nodeConnectionChange>>
  BY Zenon DEF Boot, links, lead, serve
<1>4. Places' /\ Beats'
  BY <1>3, PlacesFrame, BeatsFrame, Zenon
<1> QED BY <1>1, <1>2, <1>4, TryingBoot

LEMMA RaftDie ==
  ASSUME RaftInv, NEW n \in Node, Die(n)
  PROVE  RaftInv'
<1> USE DEF RaftInv
<1>1. Typed'
  BY TypedDie
<1>2. Search' /\ Exclusive'
  BY <1>1, SearchDie, ExclusiveDie
<1> QED BY <1>1, <1>2, PlacesDie, BeatsDie, TryingDie

LEMMA RaftConnect ==
  ASSUME RaftInv, NEW n \in Node, Connect(n)
  PROVE  RaftInv'
<1> USE DEF RaftInv
<1>1. CASE Dial(n)
  <2>1. Typed'
    BY <1>1, TypedDial
  <2>2. UNCHANGED <<role, ruledOut, beat, left, nodeConnectionChange>>
    BY <1>1, Zenon DEF Dial, election, lead
  <2>3. Exclusive' /\ Beats'
    BY <2>2, BeatsFrame, Zenon DEF Exclusive, Electing
  <2> QED BY <1>1, <2>1, <2>3, SearchDial, PlacesDial, TryingDial
<1>2. CASE Refused(n)
  <2>1. Typed'
    BY <1>2, TypedRefused
  <2>2. UNCHANGED <<backlog, dialled, others, replying, beat, left, nodeConnectionChange>>
    BY <1>2, Zenon DEF Refused, links, lead, serve
  <2>3. Places' /\ Beats'
    BY <2>2, PlacesFrame, BeatsFrame, Zenon
  <2> QED BY <1>2, <2>1, <2>3, SearchRefused, ExclusiveRefused, TryingRefused
<1>3. CASE AssumeLeadership(n)
  <2>1. Typed'
    BY <1>3, TypedAssumeLeadership
  <2>2. UNCHANGED <<backlog, dialled, others, replying, beat, left, nodeConnectionChange>>
    BY <1>3, Zenon DEF AssumeLeadership, links, lead, serve
  <2>3. Places' /\ Beats'
    BY <2>2, PlacesFrame, BeatsFrame, Zenon
  <2> QED BY <1>3, <2>1, <2>3, SearchAssumeLeadership, ExclusiveAssumeLeadership,
             TryingAssumeLeadership
<1>4. CASE ReadReply(n)
  <2>1. Typed'
    BY <1>4, TypedReadReply
  <2>2. UNCHANGED <<backlog, dialled, others, replying, beat, left, nodeConnectionChange>>
    BY <1>4, Zenon DEF ReadReply, lead, serve
  <2>3. Places' /\ Beats'
    BY <2>2, PlacesFrame, BeatsFrame, Zenon
  <2> QED BY <1>4, <2>1, <2>3, SearchReadReply, ExclusiveReadReply, TryingReadReply
<1> QED BY <1>1, <1>2, <1>3, <1>4 DEF Connect

LEMMA RaftAnswer ==
  ASSUME RaftInv, NEW m \in Node, Answer(m)
  PROVE  RaftInv'
<1> USE DEF RaftInv
<1>1. ASSUME NEW c \in backlog[m], Register(m, c) PROVE RaftInv'
  <2>1. Typed'
    BY <1>1, TypedRegister
  <2>2. UNCHANGED <<role, cur, seed, target, ruledOut>>
    BY <1>1, Zenon DEF Register, election, links
  <2>3. Search' /\ Exclusive'
    BY <2>2, SearchFrame, Zenon DEF Exclusive, Electing
  <2> QED BY <1>1, <2>1, <2>3, PlacesRegister, BeatsRegister, TryingRegister
<1>2. ASSUME NEW r \in replying[m], WriteReply(m, r) PROVE RaftInv'
  <2>1. Typed'
    BY <1>2, TypedWriteReply
  <2>2. UNCHANGED <<role, cur, seed, target, ruledOut, dialled, others, backlog, beat, left,
                    nodeConnectionChange>>
    BY <1>2, Zenon DEF WriteReply, election, lead
  <2>3. Search' /\ Exclusive' /\ Beats'
    BY <2>2, SearchFrame, BeatsFrame, Zenon DEF Exclusive, Electing
  <2>4. \A x \in Node : replying'[x] \subseteq replying[x]
    BY <1>2 DEF WriteReply, Typed
  <2>5. Places'
    BY <2>2, <2>4, PlacesHandled, Zenon
  <2> QED BY <1>2, <2>1, <2>3, <2>5, TryingWriteReply
<1>3. ASSUME NEW c \in backlog[m], Redirect(m, c) PROVE RaftInv'
  <2>1. Typed'
    BY <1>3, TypedRedirect
  <2>2. UNCHANGED <<role, cur, seed, target, dialled, others, replying, beat, left, nodeConnectionChange>>
    BY <1>3, Zenon DEF Redirect, lead
  <2>3. \A x \in Node : ruledOut[x] \subseteq ruledOut'[x]
    <3> DEFINE d == c.node
    <3>1. d \in Node /\ ruledOut \in [Node -> SUBSET Node]
      BY DEF Typed, TypeOK, Connection
    <3>2. ruledOut' = ruledOut \/ ruledOut' = [ruledOut EXCEPT ![d] = @ \cup {m}]
      BY <1>3, Zenon DEF Redirect
    <3> HIDE DEF d
    <3> QED BY <3>1, <3>2
  <2>4. Search' /\ Beats'
    BY <2>2, <2>3, SearchFrame, BeatsFrame, Zenon
  <2>5. \A x \in Node : backlog'[x] \subseteq backlog[x]
    BY <1>3 DEF Redirect, Typed
  <2>6. Places'
    BY <2>2, <2>5, PlacesHandled, Zenon
  <2> QED BY <1>3, <2>1, <2>4, <2>6, ExclusiveRedirect, TryingRedirect
<1> QED BY <1>1, <1>2, <1>3 DEF Answer

LEMMA RaftHeartbeat ==
  ASSUME RaftInv, NEW m \in Node, Heartbeat(m)
  PROVE  RaftInv'
<1> USE DEF RaftInv
<1>1. UNCHANGED <<role, cur, seed, target, ruledOut>>
  BY SendNextCases, Zenon DEF Heartbeat, TakeHeartbeat, BeginSend, election, links
<1>2. Search' /\ Exclusive'
  BY <1>1, SearchFrame, Zenon DEF Exclusive, Electing
<1>3. CASE TakeHeartbeat(m)
  <2>1. UNCHANGED <<backlog, dialled, others, replying>>
    BY <1>3, Zenon DEF TakeHeartbeat, links, serve
  <2>2. Places'
    BY <2>1, PlacesFrame, Zenon
  <2> QED BY <1>2, <1>3, <2>2, TypedTakeHeartbeat, BeatsTakeHeartbeat, TryingTakeHeartbeat
<1>4. CASE BeginSend(m)
  <2>1. UNCHANGED <<backlog, dialled, others, replying>>
    BY <1>4, Zenon DEF BeginSend, links, serve
  <2>2. Places'
    BY <2>1, PlacesFrame, Zenon
  <2> QED BY <1>2, <1>4, <2>2, TypedBeginSend, BeatsBeginSend, TryingBeginSend
<1>5. CASE SendNext(m)
  <2>1. Typed'
    BY <1>5, TypedSendNext
  <2> QED BY <1>2, <1>5, <2>1, PlacesSendNext, BeatsSendNext, TryingSendNext
<1> QED BY <1>3, <1>4, <1>5 DEF Heartbeat

\* The steps that leave all but the types alone.
LEMMA RaftUnchanged ==
  ASSUME RaftInv, Typed',
         UNCHANGED <<election, links, backlog, replying, others, left, beat, nodeConnectionChange>>
  PROVE  RaftInv'
<1> USE DEF RaftInv
<1>1. UNCHANGED <<role, cur, seed, target, ruledOut, inbox, dialled, backlog, replying, others, left,
                  beat, nodeConnectionChange>>
  BY Zenon DEF election, links
<1>2. Search' /\ Exclusive'
  BY <1>1, SearchFrame, Zenon DEF Exclusive, Electing
<1>3. Places' /\ Beats'
  BY <1>1, PlacesFrame, BeatsFrame, Zenon
<1>4. Dialled' /\ Unmistakable' /\ NewsFirst'
  BY <1>1, TryingUnchanged, Zenon
<1> QED BY <1>2, <1>3, <1>4

LEMMA RaftListen ==
  ASSUME RaftInv, NEW n \in Node, Listen(n)
  PROVE  RaftInv'
<1> USE DEF RaftInv
<1>1. CASE ReadHeartbeat(n)
  <2>1. UNCHANGED <<role, cur, seed, target, ruledOut, backlog, dialled, others, replying, beat, left,
                    nodeConnectionChange>>
    BY <1>1, Zenon DEF ReadHeartbeat, election, lead, serve
  <2>2. Search' /\ Exclusive'
    BY <2>1, SearchFrame, Zenon DEF Exclusive, Electing
  <2>3. Places' /\ Beats'
    BY <2>1, PlacesFrame, BeatsFrame, Zenon
  <2> QED BY <1>1, <2>2, <2>3, TypedReadHeartbeat, TryingReadHeartbeat
<1>2. CASE ReadPastEnd(n) \/ ReadEof(n)
  <2>1. Die(n)
    BY <1>2, Zenon DEF ReadPastEnd, ReadEof
  <2> QED BY <2>1, RaftDie, Zenon
<1> QED BY <1>1, <1>2 DEF Listen

LEMMA RaftNext == RaftInv /\ [Next]_vars => RaftInv'
<1> SUFFICES ASSUME RaftInv, [Next]_vars PROVE RaftInv'
  OBVIOUS
<1>1. CASE UNCHANGED vars
  <2>1. UNCHANGED <<election, links, follow, crawlID, lead, serve, forward>>
    BY <1>1, Zenon DEF vars
  <2>2. UNCHANGED <<election, links, backlog, replying, others, left, beat, nodeConnectionChange, crawlID>>
    BY <2>1, Zenon DEF lead, serve
  <2>3. TypeOK'
    BY <2>1 DEF RaftInv, Typed, TypeOK, election, links, follow, lead
  <2>4. Typed'
    BY <2>2, <2>3 DEF RaftInv, Typed, election, links
  <2> QED BY <2>2, <2>4, RaftUnchanged, Zenon
<1>2. ASSUME NEW n \in Node, Boot(n) \/ Crash(n) PROVE RaftInv'
  BY <1>2, RaftBoot, RaftDie, Zenon DEF Crash
<1>3. ASSUME NEW n \in Node, Connect(n) \/ Answer(n) \/ Heartbeat(n) \/ Listen(n) PROVE RaftInv'
  BY <1>3, RaftConnect, RaftAnswer, RaftHeartbeat, RaftListen, Zenon
<1>4. ASSUME NEW n \in Node, CrawlDone(n) PROVE RaftInv'
  <2>1. Typed'
    BY <1>4, TypedCrawlDone, Zenon DEF RaftInv
  <2>2. UNCHANGED <<election, links, backlog, replying, others, left, beat, nodeConnectionChange>>
    BY <1>4, Zenon DEF CrawlDone, lead, serve
  <2> QED BY <2>1, <2>2, RaftUnchanged, Zenon
<1>5. ASSUME NEW n \in Node, PassRequest(n) \/ Pass(n) PROVE RaftInv'
  <2>1. CASE Die(n)
    BY <2>1, RaftDie, Zenon
  <2>2. CASE \/ PassRequest(n) \/ PassAnswer(n)
             \/ /\ forward' = [forward EXCEPT ![n] = "answered"]
                /\ UNCHANGED <<election, links, follow, crawlID, lead, serve>>
    <3>1. Typed'
      BY <2>2, TypedPass, Zenon DEF RaftInv
    <3>2. UNCHANGED <<election, links, backlog, replying, others, left, beat, nodeConnectionChange>>
      BY <2>2, Zenon DEF PassRequest, PassAnswer, lead, serve
    <3> QED BY <3>1, <3>2, RaftUnchanged, Zenon
  <2> QED BY <1>5, <2>1, <2>2, Zenon DEF Pass, PassEof
<1> QED BY <1>1, <1>2, <1>3, <1>4, <1>5, Zenon DEF Next

LEMMA RaftInvariant == Spec => []RaftInv
BY RaftInit, RaftNext, PTL DEF Spec

(***************************************************************************)
(* The theorems                                                             *)
(***************************************************************************)
\* The types of a node's memory, for every number of nodes and whatever SEEDS says: the
\* loop of heartbeatSender stays inside others although connectNewNode and dropConnection
\* change that list, and the address a node calls its leader is that of a node.
THEOREM RaftTypes == Spec => []TypeOK
<1>1. RaftInv => TypeOK
  BY DEF RaftInv, Typed
<1> QED BY <1>1, RaftInvariant, PTL

\* Two processes never both lead (isLeader), if every SEEDS entry names all other nodes.
THEOREM OneLeader ==
  ASSUME CompleteSeeds
  PROVE  Spec => []AtMostOneLeader
<1>1. RaftInv => AtMostOneLeader
  <2> SUFFICES ASSUME RaftInv, NEW n \in Node, NEW m \in Node,
                      role[n] = "leader", role[m] = "leader", n # m
               PROVE  FALSE
    BY DEF AtMostOneLeader
  <2>1. Contains(Seeds[n], m) /\ Contains(Seeds[m], n)
    BY DEF CompleteSeeds
  <2>2. m \in ruledOut[n] /\ n \in ruledOut[m]
    BY <2>1, Zenon DEF RaftInv, Search, Contains
  <2>3. Electing(n) /\ Electing(m)
    BY DEF Electing
  <2> QED BY <2>2, <2>3, Zenon DEF RaftInv, Exclusive
<1> QED BY <1>1, RaftInvariant, PTL

(***************************************************************************)
(* What a heartbeat does to a follower's list                               *)
(***************************************************************************)
Pair == Field \X Field

\* Change number i of heartbeat f.
Says(f, i, op, a) == 3 * i + 1 <= Len(f) /\ f[3 * i - 1] = op /\ <<f[3 * i], f[3 * i + 1]>> = a

\* After f, a is on the list; or f takes a off it, maybe to put it back.
Adds(f, a)  == \E i \in Nat \ {0} : /\ Says(f, i, "A", a)
                                    /\ \A j \in Nat \ {0} : j > i => ~Says(f, j, "R", a)
Drops(f, a) == \E i \in Nat \ {0} : Says(f, i, "R", a)

\* a is on the list that starts as l after the messages q.
Held(l, q, a) ==
  \/ \E i \in 1..Len(q) : Adds(q[i], a) /\ \A j \in (i + 1)..Len(q) : ~Drops(q[j], a)
  \/ a \in ToSet(l) /\ \A j \in 1..Len(q) : ~Drops(q[j], a)

\* std::remove and erase.
LEMMA WithoutHas ==
  ASSUME NEW S, NEW l \in Seq(S), NEW x
  PROVE  /\ Without(l, x) \in Seq(S)
         /\ \A a : a \in ToSet(Without(l, x)) <=> a \in ToSet(l) /\ a # x
<1> DEFINE k == Len(l)
           D == Seq(S)
           Val(h, i) == IF i = 0 THEN <<>>
                        ELSE IF l[i] = x THEN h[i - 1] ELSE Append(h[i - 1], l[i])
           F == CHOOSE h : h = [i \in 0..k |-> Val(h, i)]
           step == [i \in 1..k |-> [s \in D |-> IF l[i] = x THEN s ELSE Append(s, l[i])]]
<1>1. k \in Nat /\ \A i \in 1..k : l[i] \in S
  OBVIOUS
<1>2. Without(l, x) = F[k]
  BY Zenon DEF Without
<1>3. <<>> \in D /\ \A s \in D : \A i \in 1..k : Append(s, l[i]) \in D
  BY <1>1
<1> HIDE DEF D, k
<1>4. step \in [1..k -> [D -> D]]
  BY <1>3
<1>5. PICK f \in [0..k -> D] : f[0] = <<>> /\ \A i \in 1..k : f[i] = step[i][f[i - 1]]
  <2> DEFINE e == <<>>
  <2>1. e \in D
    BY <1>3
  <2> HIDE DEF step, e
  <2>2. \E f : Computes(f, D, e, k, step)
    BY <1>1, <1>4, <2>1, Recursion
  <2> QED BY <2>2, Zenon DEF e, Computes
<1>6. \A i \in 1..k : i \in 0..k /\ i - 1 \in 0..k /\ i # 0
  BY <1>1
<1>7. \A i \in 0..k : i = 0 \/ i \in 1..k
  BY <1>1
<1>8. ASSUME NEW i \in 1..k PROVE step[i][f[i - 1]] = IF l[i] = x THEN f[i - 1] ELSE Append(f[i - 1], l[i])
  <2>1. f[i - 1] \in D
    BY <1>5, <1>6
  <2> QED BY <2>1
<1> HIDE DEF step
<1>9. f = [i \in 0..k |-> Val(f, i)]
  <2>1. \A i \in 0..k : f[i] = Val(f, i)
    BY <1>5, <1>6, <1>7, <1>8, Zenon
  <2>2. f = [i \in 0..k |-> f[i]]
    OBVIOUS
  <2> HIDE DEF Val
  <2> QED BY <2>1, <2>2
<1>10. F = [i \in 0..k |-> Val(F, i)]
  <2> HIDE DEF Val
  <2> QED BY <1>9
<1> HIDE DEF F
<1>11. F[0] = <<>> /\ \A i \in 1..k : F[i] = IF l[i] = x THEN F[i - 1] ELSE Append(F[i - 1], l[i])
  <2>1. \A i \in 0..k : F[i] = Val(F, i)
    <3> HIDE DEF Val
    <3> QED BY <1>10
  <2>2. 0 \in 0..k
    BY <1>1
  <2> QED BY <1>6, <2>1, <2>2, Zenon
<1> DEFINE T == {i \in Nat : i <= k /\ F[i] \notin D}
<1>12. T = {}
  <2> SUFFICES ASSUME T # {} PROVE FALSE
    OBVIOUS
  <2>1. PICK y \in T : \A z \in T : y <= z
    <3>1. T \in SUBSET Nat
      OBVIOUS
    <3> HIDE DEF T
    <3> QED BY <3>1, Least
  <2>2. y \in Nat /\ y <= k /\ F[y] \notin D
    BY <2>1
  <2>3. y # 0
    BY <1>3, <1>11, <2>2, Zenon
  <2>4. y - 1 \in Nat /\ y - 1 <= k /\ ~(y <= y - 1) /\ y \in 1..k
    BY <1>1, <2>2, <2>3
  <2>5. y - 1 \notin T
    <3> HIDE DEF T
    <3> QED BY <2>1, <2>4
  <2>6. F[y - 1] \in D
    BY <2>4, <2>5
  <2> QED BY <1>3, <1>11, <2>2, <2>4, <2>6, Zenon
<1>13. ASSUME NEW i \in Nat, i <= k PROVE F[i] \in D
  BY <1>12, <1>13
<1>14. k <= k /\ F[k] \in D
  BY <1>1, <1>13
<1>15. ASSUME NEW a PROVE a \in ToSet(F[k]) <=> a \in ToSet(l) /\ a # x
  <2> DEFINE In  == {i \in 0..k : a \in ToSet(F[i])}
             Pos == {i \in 1..k : l[i] = a /\ a # x}
             Neg == {}
  <2>1. ASSUME NEW i \in 1..k PROVE i \in In <=> i \in Pos \/ (i - 1 \in In /\ i \notin Neg)
    <3>1. i \in 0..k /\ i - 1 \in 0..k /\ i - 1 \in Nat /\ i - 1 <= k
      BY <1>1
    <3>2. F[i - 1] \in Seq(S) /\ l[i] \in S
      BY <1>1, <1>13, <3>1 DEF D
    <3>3. \A y : y \in ToSet(Append(F[i - 1], l[i])) <=> y \in ToSet(F[i - 1]) \/ y = l[i]
      <4>1. \A s \in Seq(S) : \A z \in S : \A y : y \in ToSet(Append(s, z)) <=> y \in ToSet(s) \/ y = z
        BY ToSetAppend
      <4> QED BY <3>2, <4>1, Zenon
    <3>4. CASE l[i] = x
      <4>1. F[i] = F[i - 1]
        BY <1>11, <3>4, Zenon
      <4> QED BY <3>1, <3>4, <4>1
    <3>5. CASE l[i] # x
      <4>1. F[i] = Append(F[i - 1], l[i])
        BY <1>11, <3>5, Zenon
      <4>2. i \in In <=> a \in ToSet(F[i - 1]) \/ a = l[i]
        BY <3>1, <3>3, <4>1
      <4>3. i - 1 \in In <=> a \in ToSet(F[i - 1])
        BY <3>1
      <4>4. i \in Pos <=> l[i] = a
        BY <3>5
      <4> HIDE DEF In, Pos
      <4> QED BY <4>2, <4>3, <4>4
    <3> QED BY <3>4, <3>5
  <2> HIDE DEF In, Pos, Neg
  <2>2. k \in In <=> \/ \E i \in 1..k : i \in Pos /\ \A j \in (i + 1)..k : j \notin Neg
                     \/ 0 \in In /\ \A j \in 1..k : j \notin Neg
    BY <1>1, <2>1, LastChange
  <2>3. k \in In <=> a \in ToSet(F[k])
    <3>1. k \in 0..k
      BY <1>1
    <3> QED BY <3>1 DEF In
  <2>4. 0 \notin In
    <3>1. ToSet(<<>>) = {}
      BY DEF ToSet
    <3> QED BY <1>11, <3>1 DEF In
  <2>5. (\E i \in 1..k : i \in Pos) <=> a \in ToSet(l) /\ a # x
    <3>1. a \in ToSet(l) <=> \E i \in 1..k : l[i] = a
      BY ToSetOf, Zenon DEF k
    <3> QED BY <3>1 DEF Pos
  <2>6. \A j : j \notin Neg
    BY DEF Neg
  <2> QED BY <2>2, <2>3, <2>4, <2>5, <2>6, Zenon
<1> QED BY <1>2, <1>14, <1>15, Zenon DEF D

\* One change of the list.
LEMMA ChangeHas ==
  ASSUME NEW S, NEW l \in Seq(S), NEW op, NEW x \in S
  PROVE  /\ Change(l, op, x) \in Seq(S)
         /\ \A a : a \in ToSet(Change(l, op, x)) <=>
                     (op = "A" /\ a = x) \/ (a \in ToSet(l) /\ ~(op = "R" /\ a = x))
<1>1. "A" # "R"
  OBVIOUS
<1>2. CASE op = "A"
  <2>1. Contains(l, x) <=> x \in ToSet(l)
    BY ToSetOf
  <2>2. CASE Contains(l, x)
    <3>1. Change(l, op, x) = l
      BY <1>2, <2>2 DEF Change
    <3> QED BY <1>1, <1>2, <2>1, <2>2, <3>1
  <2>3. CASE ~Contains(l, x)
    <3>1. Change(l, op, x) = Append(l, x)
      BY <1>2, <2>3 DEF Change
    <3>2. Append(l, x) \in Seq(S) /\ \A y : y \in ToSet(Append(l, x)) <=> y \in ToSet(l) \/ y = x
      BY ToSetAppend
    <3> QED BY <1>1, <1>2, <3>1, <3>2, Zenon
  <2> QED BY <2>2, <2>3
<1>3. CASE op = "R"
  <2>1. Change(l, op, x) = Without(l, x)
    BY <1>1, <1>3 DEF Change
  <2>2. Without(l, x) \in Seq(S) /\ \A a : a \in ToSet(Without(l, x)) <=> a \in ToSet(l) /\ a # x
    BY WithoutHas
  <2> QED BY <1>1, <1>3, <2>1, <2>2, Zenon
<1>4. CASE op # "A" /\ op # "R"
  <2>1. Change(l, op, x) = l
    BY <1>4 DEF Change
  <2> QED BY <1>4, <2>1, Zenon
<1> QED BY <1>2, <1>3, <1>4

\* A change names an address.
LEMMA SaysPair ==
  ASSUME NEW f \in Message, NEW i \in Nat \ {0}, 3 * i + 1 <= Len(f)
  PROVE  <<f[3 * i], f[3 * i + 1]>> \in Pair /\ f[3 * i - 1] \in Field
<1>1. f \in Seq(Field) /\ Len(f) \in Nat
  BY DEF Message
<1>2. 3 * i \in 1..Len(f) /\ 3 * i + 1 \in 1..Len(f) /\ 3 * i - 1 \in 1..Len(f)
  BY <1>1
<1>3. f[3 * i] \in Field /\ f[3 * i + 1] \in Field /\ f[3 * i - 1] \in Field
  BY <1>1, <1>2
<1> QED BY <1>3 DEF Pair

\* handleHeartbeat: the list after all changes of f.
LEMMA AppliedHas ==
  ASSUME NEW l \in Seq(Pair), NEW f \in Message
  PROVE  /\ Applied(l, f) \in Seq(Pair)
         /\ \A a : a \in ToSet(Applied(l, f)) <=> Adds(f, a) \/ (a \in ToSet(l) /\ ~Drops(f, a))
<1> DEFINE k == (Len(f) + 1) \div 3
           D == Seq(Pair)
           x(i) == <<f[3 * i], f[3 * i + 1]>>
           Val(h, i) == IF i = 0 THEN l
                        ELSE IF 3 * i + 1 > Len(f) THEN h[i - 1]
                        ELSE Change(h[i - 1], f[3 * i - 1], x(i))
           F == CHOOSE h : h = [i \in 0..k |-> Val(h, i)]
           step == [i \in 1..k |-> [s \in D |-> IF 3 * i + 1 > Len(f) THEN s
                                                ELSE Change(s, f[3 * i - 1], x(i))]]
<1>1. Len(f) \in Nat
  BY DEF Message
<1>2. k \in Nat /\ \A i \in Nat \ {0} : 3 * i + 1 <= Len(f) => i \in 1..k
  BY <1>1
<1>3. Applied(l, f) = F[k]
  BY Zenon DEF Applied
<1> HIDE DEF k
<1>4. ASSUME NEW i \in 1..k, ~(3 * i + 1 > Len(f)) PROVE x(i) \in Pair
  <2>1. i \in Nat \ {0} /\ 3 * i + 1 <= Len(f)
    BY <1>1, <1>2, <1>4
  <2> QED BY <2>1, SaysPair
<1> HIDE DEF x
<1>5. ASSUME NEW i \in 1..k, NEW s \in D
      PROVE  (IF 3 * i + 1 > Len(f) THEN s ELSE Change(s, f[3 * i - 1], x(i))) \in D
  <2>1. CASE ~(3 * i + 1 > Len(f))
    <3>1. Change(s, f[3 * i - 1], x(i)) \in Seq(Pair)
      BY <1>4, <2>1, ChangeHas
    <3> QED BY <2>1, <3>1
  <2> QED BY <2>1
<1>6. l \in D
  OBVIOUS
<1> HIDE DEF D
<1>7. step \in [1..k -> [D -> D]]
  BY <1>5
<1>8. PICK g : Computes(g, D, l, k, step)
  <2> HIDE DEF step
  <2> QED BY <1>2, <1>6, <1>7, Recursion
<1>9. g \in [0..k -> D] /\ g[0] = l /\ \A i \in 1..k : g[i] = step[i][g[i - 1]]
  BY <1>8, Zenon DEF Computes
<1>10. \A i \in 1..k : i \in 0..k /\ i - 1 \in 0..k /\ i # 0
  BY <1>2
<1>11. \A i \in 0..k : i = 0 \/ i \in 1..k
  BY <1>2
<1>12. ASSUME NEW i \in 1..k
       PROVE  step[i][g[i - 1]] = IF 3 * i + 1 > Len(f) THEN g[i - 1]
                                  ELSE Change(g[i - 1], f[3 * i - 1], x(i))
  <2>1. g[i - 1] \in D
    BY <1>9, <1>10
  <2> QED BY <2>1
<1> HIDE DEF step
<1>13. g = [i \in 0..k |-> Val(g, i)]
  <2>1. ASSUME NEW i \in 0..k PROVE g[i] = Val(g, i)
    <3>1. CASE i = 0
      BY <1>9, <3>1
    <3>2. CASE i \in 1..k
      <4>1. g[i] = step[i][g[i - 1]] /\ i # 0
        BY <1>9, <1>10, <3>2, Zenon
      <4>2. g[i] = IF 3 * i + 1 > Len(f) THEN g[i - 1] ELSE Change(g[i - 1], f[3 * i - 1], x(i))
        BY <1>12, <3>2, <4>1, Zenon
      <4> QED BY <4>1, <4>2, Zenon
    <3> QED BY <1>11, <3>1, <3>2
  <2>2. g = [i \in 0..k |-> g[i]]
    BY <1>9
  <2> HIDE DEF Val
  <2> QED BY <2>1, <2>2
<1>14. F = [i \in 0..k |-> Val(F, i)]
  <2> HIDE DEF Val
  <2> QED BY <1>13
<1> HIDE DEF F
<1>15. F[0] = l /\ \A i \in 1..k : F[i] = IF 3 * i + 1 > Len(f) THEN F[i - 1]
                                         ELSE Change(F[i - 1], f[3 * i - 1], x(i))
  <2>1. \A i \in 0..k : F[i] = Val(F, i)
    <3> HIDE DEF Val
    <3> QED BY <1>14
  <2>2. 0 \in 0..k
    BY <1>2
  <2> QED BY <1>10, <2>1, <2>2, Zenon
<1> DEFINE T == {i \in Nat : i <= k /\ F[i] \notin D}
<1>16. T = {}
  <2> SUFFICES ASSUME T # {} PROVE FALSE
    OBVIOUS
  <2>1. PICK y \in T : \A z \in T : y <= z
    <3>1. T \in SUBSET Nat
      OBVIOUS
    <3> HIDE DEF T
    <3> QED BY <3>1, Least
  <2>2. y \in Nat /\ y <= k /\ F[y] \notin D
    BY <2>1
  <2>3. y # 0
    BY <1>6, <1>15, <2>2, Zenon
  <2>4. y - 1 \in Nat /\ y - 1 <= k /\ ~(y <= y - 1) /\ y \in 1..k
    BY <1>2, <2>2, <2>3
  <2>5. y - 1 \notin T
    <3> HIDE DEF T
    <3> QED BY <2>1, <2>4
  <2>6. F[y - 1] \in D
    BY <2>4, <2>5
  <2> QED BY <1>5, <1>15, <2>2, <2>4, <2>6, Zenon
<1>17. ASSUME NEW i \in Nat, i <= k PROVE F[i] \in D
  BY <1>16, <1>17
<1>18. k <= k /\ F[k] \in D
  BY <1>2, <1>17
<1>19. ASSUME NEW a PROVE a \in ToSet(F[k]) <=> Adds(f, a) \/ (a \in ToSet(l) /\ ~Drops(f, a))
  <2> DEFINE In  == {i \in 0..k : a \in ToSet(F[i])}
             Pos == {i \in 1..k : Says(f, i, "A", a)}
             Neg == {i \in 1..k : Says(f, i, "R", a)}
  <2>1. ASSUME NEW i \in 1..k PROVE i \in In <=> i \in Pos \/ (i - 1 \in In /\ i \notin Neg)
    <3>1. i \in 0..k /\ i - 1 \in 0..k /\ i - 1 \in Nat /\ i - 1 <= k
      BY <1>2
    <3>2. F[i - 1] \in Seq(Pair)
      BY <1>17, <3>1 DEF D
    <3>3. CASE 3 * i + 1 > Len(f)
      <4>1. F[i] = F[i - 1]
        BY <1>15, <3>3, Zenon
      <4>2. ~(3 * i + 1 <= Len(f))
        BY <1>1, <1>2, <3>3
      <4>3. i \notin Pos /\ i \notin Neg
        BY <4>2, Zenon DEF Says
      <4> HIDE DEF Pos, Neg
      <4> QED BY <3>1, <4>1, <4>3
    <3>4. CASE ~(3 * i + 1 > Len(f))
      <4>1. F[i] = Change(F[i - 1], f[3 * i - 1], x(i))
        BY <1>15, <3>4, Zenon
      <4>2. x(i) \in Pair
        BY <1>4, <3>4
      <4>3. ASSUME NEW s \in Seq(Pair), NEW y \in Pair, NEW op
            PROVE  a \in ToSet(Change(s, op, y)) <=>
                     (op = "A" /\ a = y) \/ (a \in ToSet(s) /\ ~(op = "R" /\ a = y))
        BY ChangeHas
      <4>4. a \in ToSet(F[i]) <=> \/ f[3 * i - 1] = "A" /\ a = x(i)
                                  \/ a \in ToSet(F[i - 1]) /\ ~(f[3 * i - 1] = "R" /\ a = x(i))
        <5> DEFINE y == x(i)
                   op == f[3 * i - 1]
                   s == F[i - 1]
        <5>1. F[i] = Change(s, op, y) /\ y \in Pair /\ s \in Seq(Pair)
          BY <3>2, <4>1, <4>2
        <5> HIDE DEF y, op, s
        <5>2. a \in ToSet(Change(s, op, y)) <=>
                (op = "A" /\ a = y) \/ (a \in ToSet(s) /\ ~(op = "R" /\ a = y))
          BY <4>3, <5>1
        <5>3. a \in ToSet(F[i]) <=> (op = "A" /\ a = y) \/ (a \in ToSet(s) /\ ~(op = "R" /\ a = y))
          BY <5>1, <5>2, Zenon
        <5> QED BY <5>3 DEF y, op, s
      <4>5. 3 * i + 1 <= Len(f)
        BY <1>1, <1>2, <3>4
      <4>6. /\ i \in Pos <=> f[3 * i - 1] = "A" /\ a = x(i)
            /\ i \in Neg <=> f[3 * i - 1] = "R" /\ a = x(i)
        BY <4>5, Zenon DEF Says, x
      <4>7. (i \in In <=> a \in ToSet(F[i])) /\ (i - 1 \in In <=> a \in ToSet(F[i - 1]))
        BY <3>1
      <4> HIDE DEF In, Pos, Neg
      <4> QED BY <4>4, <4>6, <4>7, Zenon
    <3> QED BY <3>3, <3>4
  <2> HIDE DEF In, Pos, Neg
  <2>2. k \in In <=> \/ \E i \in 1..k : i \in Pos /\ \A j \in (i + 1)..k : j \notin Neg
                     \/ 0 \in In /\ \A j \in 1..k : j \notin Neg
    BY <1>2, <2>1, LastChange
  <2>3. (k \in In <=> a \in ToSet(F[k])) /\ (0 \in In <=> a \in ToSet(l))
    <3>1. k \in 0..k /\ 0 \in 0..k
      BY <1>2
    <3> QED BY <1>15, <3>1 DEF In
  <2>4. \A i \in Nat \ {0} : \A op : Says(f, i, op, a) => i \in 1..k
    BY <1>2, Zenon DEF Says
  <2>5. \A i \in 1..k : i \in Nat \ {0} /\ \A j \in (i + 1)..k : j \in 1..k /\ j > i
    BY <1>2
  <2>6. \A i, j \in 1..k : j > i => j \in (i + 1)..k
    BY <1>2
  <2>7. Drops(f, a) <=> ~\A j \in 1..k : j \notin Neg
    BY <2>4, <2>5, Zenon DEF Drops, Neg
  <2>8. \A i \in 1..k : (\A j \in (i + 1)..k : j \notin Neg) <=> \A j \in Nat \ {0} : j > i => ~Says(f, j, "R", a)
    BY <2>4, <2>5, <2>6, Zenon DEF Neg
  <2>9. Adds(f, a) <=> \E i \in 1..k : i \in Pos /\ \A j \in (i + 1)..k : j \notin Neg
    BY <2>4, <2>5, <2>8, Zenon DEF Adds, Pos
  <2> QED BY <2>2, <2>3, <2>7, <2>9, Zenon
<1> QED BY <1>3, <1>18, <1>19, Zenon DEF D

(***************************************************************************)
(* ... and what several do                                                  *)
(***************************************************************************)
LEMMA HeldNil ==
  ASSUME NEW l, NEW q, Len(q) = 0, NEW a
  PROVE  Held(l, q, a) <=> a \in ToSet(l)
<1>1. \A j \in 1..0 : FALSE
  OBVIOUS
<1> QED BY <1>1, Zenon DEF Held

\* One more message at the end.
LEMMA HeldAppend ==
  ASSUME NEW S, NEW l, NEW q \in Seq(S), NEW f \in S, NEW a
  PROVE  Held(l, Append(q, f), a) <=> Adds(f, a) \/ (Held(l, q, a) /\ ~Drops(f, a))
<1> DEFINE k == Len(q)
           r == Append(q, f)
<1>1. k \in Nat /\ Len(r) = k + 1 /\ (\A i \in 1..k : r[i] = q[i]) /\ r[k + 1] = f
  BY AppendSeq
<1> HIDE DEF k, r
<1>2. /\ k + 1 \in 1..(k + 1)
      /\ \A j \in 1..(k + 1) : j \in 1..k \/ j = k + 1
      /\ \A j \in 1..k : j \in 1..(k + 1) /\ k + 1 \in (j + 1)..(k + 1)
  BY <1>1
<1>3. \A i \in 1..k : /\ \A j \in (i + 1)..(k + 1) : j \in (i + 1)..k \/ j = k + 1
                      /\ \A j \in (i + 1)..k : j \in (i + 1)..(k + 1) /\ j \in 1..k
  BY <1>1
<1>4. \A j \in (k + 1 + 1)..(k + 1) : FALSE
  BY <1>1
<1>5. ASSUME Held(l, r, a) PROVE Adds(f, a) \/ (Held(l, q, a) /\ ~Drops(f, a))
  <2>1. ASSUME NEW i \in 1..(k + 1), Adds(r[i], a), \A j \in (i + 1)..(k + 1) : ~Drops(r[j], a)
        PROVE  Adds(f, a) \/ (Held(l, q, a) /\ ~Drops(f, a))
    <3>1. CASE i = k + 1
      BY <1>1, <2>1, <3>1, Zenon
    <3>2. CASE i \in 1..k
      <4>1. Adds(q[i], a) /\ ~Drops(f, a)
        BY <1>1, <1>2, <2>1, <3>2, Zenon
      <4>2. \A j \in (i + 1)..k : ~Drops(q[j], a)
        BY <1>1, <1>3, <2>1, <3>2, Zenon
      <4> QED BY <3>2, <4>1, <4>2, Zenon DEF Held, k
    <3> QED BY <1>2, <3>1, <3>2, Zenon
  <2>2. ASSUME a \in ToSet(l), \A j \in 1..(k + 1) : ~Drops(r[j], a)
        PROVE  Held(l, q, a) /\ ~Drops(f, a)
    <3>1. ~Drops(f, a) /\ \A j \in 1..k : ~Drops(q[j], a)
      BY <1>1, <1>2, <2>2, Zenon
    <3> QED BY <2>2, <3>1, Zenon DEF Held, k
  <2> QED BY <1>1, <1>5, <2>1, <2>2, Zenon DEF Held
<1>6. ASSUME Adds(f, a) PROVE Held(l, r, a)
  BY <1>1, <1>2, <1>4, <1>6, Zenon DEF Held
<1>7. ASSUME Held(l, q, a), ~Drops(f, a) PROVE Held(l, r, a)
  <2>1. ASSUME NEW i \in 1..k, Adds(q[i], a), \A j \in (i + 1)..k : ~Drops(q[j], a)
        PROVE  Held(l, r, a)
    <3>1. i \in 1..(k + 1) /\ Adds(r[i], a)
      BY <1>1, <1>2, <2>1, Zenon
    <3>2. \A j \in (i + 1)..(k + 1) : ~Drops(r[j], a)
      BY <1>1, <1>3, <1>7, <2>1, Zenon
    <3> QED BY <1>1, <3>1, <3>2, Zenon DEF Held
  <2>2. ASSUME a \in ToSet(l), \A j \in 1..k : ~Drops(q[j], a) PROVE Held(l, r, a)
    <3>1. \A j \in 1..(k + 1) : ~Drops(r[j], a)
      BY <1>1, <1>2, <1>7, <2>2, Zenon
    <3> QED BY <1>1, <2>2, <3>1, Zenon DEF Held
  <2> QED BY <1>7, <2>1, <2>2, Zenon DEF Held, k
<1> QED BY <1>5, <1>6, <1>7, Zenon DEF r

\* The first message is handled.
LEMMA HeldTail ==
  ASSUME NEW S, NEW l, NEW m, NEW q \in Seq(S), Len(q) # 0, NEW a,
         a \in ToSet(m) <=> Adds(q[1], a) \/ (a \in ToSet(l) /\ ~Drops(q[1], a))
  PROVE  Held(m, Tail(q), a) <=> Held(l, q, a)
<1> DEFINE k == Len(q)
           r == Tail(q)
<1>1. k \in Nat \ {0} /\ Len(r) = k - 1 /\ \A i \in 1..(k - 1) : r[i] = q[i + 1]
  OBVIOUS
<1> HIDE DEF k, r
<1>2. /\ 1 \in 1..k
      /\ \A j \in 1..k : j = 1 \/ (j - 1 \in 1..(k - 1) /\ j - 1 + 1 = j)
      /\ \A j \in 1..(k - 1) : j + 1 \in 1..k /\ j + 1 \in (1 + 1)..k
      /\ \A j \in (1 + 1)..k : j - 1 \in 1..(k - 1) /\ j - 1 + 1 = j
  BY <1>1
<1>3. \A i \in 1..(k - 1) : \A j \in (i + 1)..(k - 1) : j + 1 \in (i + 1 + 1)..k /\ j \in 1..(k - 1)
  BY <1>1
<1>4. \A i \in 1..(k - 1) : \A j \in (i + 1 + 1)..k : j - 1 \in (i + 1)..(k - 1) /\ j - 1 + 1 = j
  BY <1>1
<1>5. ASSUME Held(m, r, a) PROVE Held(l, q, a)
  <2>1. ASSUME NEW i \in 1..(k - 1), Adds(r[i], a), \A j \in (i + 1)..(k - 1) : ~Drops(r[j], a)
        PROVE  Held(l, q, a)
    <3>1. i + 1 \in 1..k /\ Adds(q[i + 1], a)
      BY <1>1, <1>2, <2>1, Zenon
    <3>2. ASSUME NEW j \in (i + 1 + 1)..k PROVE ~Drops(q[j], a)
      <4>1. j - 1 \in (i + 1)..(k - 1) /\ j - 1 + 1 = j /\ j - 1 \in 1..(k - 1)
        BY <1>1, <2>1, <3>2
      <4>2. ~Drops(r[j - 1], a) /\ r[j - 1] = q[j - 1 + 1]
        BY <1>1, <2>1, <4>1, Zenon
      <4> QED BY <4>1, <4>2, Zenon
    <3> QED BY <3>1, <3>2, Zenon DEF Held, k
  <2>2. ASSUME a \in ToSet(m), \A j \in 1..(k - 1) : ~Drops(r[j], a) PROVE Held(l, q, a)
    <3>1. ASSUME NEW j \in (1 + 1)..k PROVE ~Drops(q[j], a)
      <4>1. j - 1 \in 1..(k - 1) /\ j - 1 + 1 = j
        BY <1>2, <3>1
      <4>2. ~Drops(r[j - 1], a) /\ r[j - 1] = q[j - 1 + 1]
        BY <1>1, <2>2, <4>1, Zenon
      <4> QED BY <4>1, <4>2, Zenon
    <3>2. CASE Adds(q[1], a)
      BY <1>2, <3>1, <3>2, Zenon DEF Held, k
    <3>3. CASE a \in ToSet(l) /\ ~Drops(q[1], a)
      <4>1. ASSUME NEW j \in 1..k PROVE ~Drops(q[j], a)
        <5>1. j = 1 \/ j \in (1 + 1)..k
          BY <1>1, <4>1
        <5> QED BY <3>1, <3>3, <5>1, Zenon
      <4> QED BY <3>3, <4>1, Zenon DEF Held, k
    <3> QED BY <2>2, <3>2, <3>3, Zenon
  <2> QED BY <1>1, <1>5, <2>1, <2>2, Zenon DEF Held
<1>6. ASSUME Held(l, q, a) PROVE Held(m, r, a)
  <2>1. ASSUME NEW i \in 1..k, Adds(q[i], a), \A j \in (i + 1)..k : ~Drops(q[j], a)
        PROVE  Held(m, r, a)
    <3>1. CASE i = 1
      <4>1. a \in ToSet(m)
        BY <2>1, <3>1, Zenon
      <4>2. ASSUME NEW j \in 1..(k - 1) PROVE ~Drops(r[j], a)
        <5>1. j + 1 \in (i + 1)..k /\ r[j] = q[j + 1]
          BY <1>1, <1>2, <3>1, <4>2
        <5> QED BY <2>1, <5>1, Zenon
      <4> QED BY <1>1, <4>1, <4>2, Zenon DEF Held
    <3>2. CASE i # 1
      <4> DEFINE e == i - 1
      <4>1. e \in 1..(k - 1) /\ e + 1 = i
        BY <1>2, <3>2
      <4> HIDE DEF e
      <4>2. Adds(r[e], a)
        BY <1>1, <2>1, <4>1, Zenon
      <4>3. ASSUME NEW j \in (e + 1)..(k - 1) PROVE ~Drops(r[j], a)
        <5>1. j + 1 \in (i + 1)..k /\ j \in 1..(k - 1)
          BY <1>3, <4>1, <4>3
        <5> QED BY <1>1, <2>1, <5>1, Zenon
      <4> QED BY <1>1, <4>1, <4>2, <4>3, Zenon DEF Held
    <3> QED BY <3>1, <3>2
  <2>2. ASSUME a \in ToSet(l), \A j \in 1..k : ~Drops(q[j], a) PROVE Held(m, r, a)
    <3>1. a \in ToSet(m)
      BY <1>2, <2>2, Zenon
    <3>2. \A j \in 1..(k - 1) : ~Drops(r[j], a)
      BY <1>1, <1>2, <2>2, Zenon
    <3> QED BY <1>1, <3>1, <3>2, Zenon DEF Held
  <2> QED BY <1>6, <2>1, <2>2, Zenon DEF Held, k
<1> QED BY <1>5, <1>6, Zenon DEF r

\* View: the list after all messages that are and will be sent.
LEMMA ViewHas ==
  ASSUME NEW n, NEW m, nonLeaderNodes[n] \in Seq(Pair), ToCome(n, m) \in Seq(Message)
  PROVE  /\ View(n, m) \in Seq(Pair)
         /\ \A a : a \in ToSet(View(n, m)) <=> Held(nonLeaderNodes[n], ToCome(n, m), a)
<1> DEFINE q == ToCome(n, m)
           l == nonLeaderNodes[n]
           k == Len(q)
           D == Seq(Pair)
           Val(h, i) == IF i = 0 THEN l ELSE Applied(h[i - 1], q[i])
           F == CHOOSE h : h = [i \in 0..k |-> Val(h, i)]
           step == [i \in 1..k |-> [s \in D |-> Applied(s, q[i])]]
<1>1. k \in Nat /\ \A i \in 1..k : q[i] \in Message
  OBVIOUS
<1>2. View(n, m) = F[k]
  BY Zenon DEF View
<1>3. l \in D
  OBVIOUS
<1>4. ASSUME NEW i \in 1..k, NEW s \in D PROVE Applied(s, q[i]) \in D
  BY <1>1, AppliedHas
<1> HIDE DEF D, k, l, q
<1>5. step \in [1..k -> [D -> D]]
  BY <1>4
<1>6. PICK g : Computes(g, D, l, k, step)
  <2> HIDE DEF step
  <2> QED BY <1>1, <1>3, <1>5, Recursion
<1>7. g \in [0..k -> D] /\ g[0] = l /\ \A i \in 1..k : g[i] = step[i][g[i - 1]]
  BY <1>6, Zenon DEF Computes
<1>8. \A i \in 1..k : i \in 0..k /\ i - 1 \in 0..k /\ i # 0
  BY <1>1
<1>9. \A i \in 0..k : i = 0 \/ i \in 1..k
  BY <1>1
<1>10. ASSUME NEW i \in 1..k PROVE step[i][g[i - 1]] = Applied(g[i - 1], q[i])
  <2>1. g[i - 1] \in D
    BY <1>7, <1>8
  <2> QED BY <2>1
<1> HIDE DEF step
<1>11. g = [i \in 0..k |-> Val(g, i)]
  <2>1. \A i \in 0..k : g[i] = Val(g, i)
    BY <1>7, <1>8, <1>9, <1>10, Zenon
  <2>2. g = [i \in 0..k |-> g[i]]
    BY <1>7
  <2> HIDE DEF Val
  <2> QED BY <2>1, <2>2
<1>12. F = [i \in 0..k |-> Val(F, i)]
  <2> HIDE DEF Val
  <2> QED BY <1>11
<1> HIDE DEF F
<1>13. F[0] = l /\ \A i \in 1..k : F[i] = Applied(F[i - 1], q[i])
  <2>1. \A i \in 0..k : F[i] = Val(F, i)
    <3> HIDE DEF Val
    <3> QED BY <1>12
  <2>2. 0 \in 0..k
    BY <1>1
  <2> QED BY <1>8, <2>1, <2>2, Zenon
<1> DEFINE T == {i \in Nat : i <= k /\ F[i] \notin D}
<1>14. T = {}
  <2> SUFFICES ASSUME T # {} PROVE FALSE
    OBVIOUS
  <2>1. PICK y \in T : \A z \in T : y <= z
    <3>1. T \in SUBSET Nat
      OBVIOUS
    <3> HIDE DEF T
    <3> QED BY <3>1, Least
  <2>2. y \in Nat /\ y <= k /\ F[y] \notin D
    BY <2>1
  <2>3. y # 0
    BY <1>3, <1>13, <2>2, Zenon
  <2>4. y - 1 \in Nat /\ y - 1 <= k /\ ~(y <= y - 1) /\ y \in 1..k
    BY <1>1, <2>2, <2>3
  <2>5. y - 1 \notin T
    <3> HIDE DEF T
    <3> QED BY <2>1, <2>4
  <2>6. F[y - 1] \in D
    BY <2>4, <2>5
  <2> QED BY <1>4, <1>13, <2>2, <2>4, <2>6, Zenon
<1>15. ASSUME NEW i \in Nat, i <= k PROVE F[i] \in D
  BY <1>14, <1>15
<1>16. k <= k /\ F[k] \in D
  BY <1>1, <1>15
<1>17. ASSUME NEW a PROVE a \in ToSet(F[k]) <=> Held(l, q, a)
  <2> DEFINE In  == {i \in 0..k : a \in ToSet(F[i])}
             Pos == {i \in 1..k : Adds(q[i], a)}
             Neg == {i \in 1..k : Drops(q[i], a)}
  <2>1. ASSUME NEW i \in 1..k PROVE i \in In <=> i \in Pos \/ (i - 1 \in In /\ i \notin Neg)
    <3>1. i \in 0..k /\ i - 1 \in 0..k /\ i - 1 \in Nat /\ i - 1 <= k
      BY <1>1
    <3>2. F[i - 1] \in Seq(Pair) /\ q[i] \in Message
      BY <1>1, <1>15, <3>1 DEF D
    <3>3. \A s \in Seq(Pair) : \A f \in Message :
            a \in ToSet(Applied(s, f)) <=> Adds(f, a) \/ (a \in ToSet(s) /\ ~Drops(f, a))
      BY AppliedHas
    <3>4. a \in ToSet(F[i]) <=> Adds(q[i], a) \/ (a \in ToSet(F[i - 1]) /\ ~Drops(q[i], a))
      BY <1>13, <3>2, <3>3, Zenon
    <3>5. /\ (i \in In <=> a \in ToSet(F[i])) /\ (i - 1 \in In <=> a \in ToSet(F[i - 1]))
          /\ (i \in Pos <=> Adds(q[i], a)) /\ (i \in Neg <=> Drops(q[i], a))
      BY <3>1
    <3> HIDE DEF In, Pos, Neg
    <3> QED BY <3>4, <3>5, Zenon
  <2> HIDE DEF In, Pos, Neg
  <2>2. k \in In <=> \/ \E i \in 1..k : i \in Pos /\ \A j \in (i + 1)..k : j \notin Neg
                     \/ 0 \in In /\ \A j \in 1..k : j \notin Neg
    BY <1>1, <2>1, LastChange
  <2>3. (k \in In <=> a \in ToSet(F[k])) /\ (0 \in In <=> a \in ToSet(l))
    <3>1. k \in 0..k /\ 0 \in 0..k
      BY <1>1
    <3> QED BY <1>13, <3>1 DEF In
  <2>4. \A i \in 1..k : (i \in Pos <=> Adds(q[i], a)) /\ (i \in Neg <=> Drops(q[i], a))
    BY DEF Pos, Neg
  <2>5. \A i \in 1..k : \A j \in (i + 1)..k : j \in 1..k
    BY <1>1
  <2> QED BY <2>2, <2>3, <2>4, <2>5, Zenon DEF Held, k
<1> QED BY <1>2, <1>16, <1>17, Zenon DEF D, l, q

(***************************************************************************)
(* What the messages of the leader say                                      *)
(***************************************************************************)
\* Changes come in threes.
Whole(ch) == \E k \in Nat : Len(ch) = 3 * k

\* The changes of a message, counted without the crawl ID in front.
LEMMA SaysChanges ==
  ASSUME NEW id \in Field, NEW ch \in Message, NEW i \in Nat \ {0}, NEW op, NEW a
  PROVE  Says(<<id>> \o ch, i, op, a) <=>
           3 * i <= Len(ch) /\ ch[3 * i - 2] = op /\ <<ch[3 * i - 1], ch[3 * i]>> = a
<1> DEFINE f == <<id>> \o ch
           n == Len(ch)
<1>1. ch \in Seq(Field) /\ n \in Nat /\ <<id>> \in Seq(Field) /\ Len(<<id>>) = 1
  BY DEF Message
<1>2. Len(f) = n + 1 /\ \A j \in 1..n : f[1 + j] = ch[j]
  BY <1>1, ConcatSeq
<1> HIDE DEF f, n
<1>3. 3 * i + 1 <= Len(f) <=> 3 * i <= n
  BY <1>1, <1>2
<1>4. ASSUME 3 * i <= n
      PROVE  f[3 * i - 1] = ch[3 * i - 2] /\ f[3 * i] = ch[3 * i - 1] /\ f[3 * i + 1] = ch[3 * i]
  <2>1. 3 * i - 2 \in 1..n /\ 3 * i - 1 \in 1..n /\ 3 * i \in 1..n
    BY <1>1, <1>4
  <2>2. 1 + (3 * i - 2) = 3 * i - 1 /\ 1 + (3 * i - 1) = 3 * i /\ 1 + 3 * i = 3 * i + 1
    OBVIOUS
  <2>3. f[1 + (3 * i - 2)] = ch[3 * i - 2] /\ f[1 + (3 * i - 1)] = ch[3 * i - 1] /\ f[1 + 3 * i] = ch[3 * i]
    BY <1>2, <2>1, Zenon
  <2> QED BY <2>2, <2>3
<1>5. Says(f, i, op, a) <=> 3 * i <= n /\ ch[3 * i - 2] = op /\ <<ch[3 * i - 1], ch[3 * i]>> = a
  BY <1>3, <1>4, Zenon DEF Says
<1> QED BY <1>5 DEF f, n

\* The crawl ID in front does not matter.
LEMMA SameChanges ==
  ASSUME NEW id \in Field, NEW jd \in Field, NEW ch \in Message, NEW a
  PROVE  /\ Adds(<<id>> \o ch, a) <=> Adds(<<jd>> \o ch, a)
         /\ Drops(<<id>> \o ch, a) <=> Drops(<<jd>> \o ch, a)
<1>1. \A i \in Nat \ {0} : \A op : Says(<<id>> \o ch, i, op, a) <=> Says(<<jd>> \o ch, i, op, a)
  <2> SUFFICES ASSUME NEW i \in Nat \ {0}, NEW op
               PROVE  Says(<<id>> \o ch, i, op, a) <=> Says(<<jd>> \o ch, i, op, a)
    OBVIOUS
  <2>1. Says(<<id>> \o ch, i, op, a) <=>
          3 * i <= Len(ch) /\ ch[3 * i - 2] = op /\ <<ch[3 * i - 1], ch[3 * i]>> = a
    BY SaysChanges
  <2>2. Says(<<jd>> \o ch, i, op, a) <=>
          3 * i <= Len(ch) /\ ch[3 * i - 2] = op /\ <<ch[3 * i - 1], ch[3 * i]>> = a
    BY SaysChanges
  <2> QED BY <2>1, <2>2, Zenon
<1> QED BY <1>1, Zenon DEF Adds, Drops

\* A message of fewer than four fields has no change.
LEMMA SaysNothing ==
  ASSUME NEW f \in Message, Len(f) < 4, NEW a
  PROVE  ~Adds(f, a) /\ ~Drops(f, a)
<1>1. Len(f) \in Nat
  BY DEF Message
<1>2. \A i \in Nat \ {0} : ~(3 * i + 1 <= Len(f))
  BY <1>1
<1> QED BY <1>2, Zenon DEF Says, Adds, Drops

\* One more change.
More(ch, op, c) == ch \o <<op>> \o Address(c)

\* One more change at the end (connectNewNode, dropConnection).
LEMMA ChangeTold ==
  ASSUME NEW ch \in Message, Whole(ch), NEW op \in Field, NEW c \in Connection
  PROVE  /\ Whole(More(ch, op, c))
         /\ \A a : /\ Adds(<<"">> \o More(ch, op, c), a) <=>
                        \/ op = "A" /\ a = Address(c)
                        \/ Adds(<<"">> \o ch, a) /\ ~(op = "R" /\ a = Address(c))
                   /\ Drops(<<"">> \o More(ch, op, c), a) <=>
                        Drops(<<"">> \o ch, a) \/ (op = "R" /\ a = Address(c))
<1> DEFINE d == ch \o <<op>>
           more == More(ch, op, c)
           n == Len(ch)
<1>1. ch \in Seq(Field) /\ n \in Nat /\ <<op>> \in Seq(Field) /\ Len(<<op>>) = 1 /\ <<op>>[1] = op
  BY DEF Message
<1>2. /\ d \in Seq(Field) /\ Len(d) = n + 1 /\ \A j \in 1..n : d[j] = ch[j]
      /\ \A j \in 1..Len(<<op>>) : d[n + j] = <<op>>[j]
  BY <1>1, ConcatSeq
<1>3. d[n + 1] = op
  BY <1>1, <1>2
<1> HIDE DEF d
<1>4. Address(c) \in Seq(Field) /\ Len(Address(c)) = 2 /\ Address(c) = <<Address(c)[1], Address(c)[2]>>
  <2>1. Address(c) \in Seq(Field) /\ Len(Address(c)) = 2
    BY AddressIsMessage
  <2> QED BY <2>1 DEF Address
<1>5. /\ more \in Seq(Field) /\ Len(more) = n + 3 /\ \A j \in 1..(n + 1) : more[j] = d[j]
      /\ \A j \in 1..2 : more[n + 1 + j] = Address(c)[j]
  <2>1. ASSUME NEW x \in Seq(Field), NEW y \in Seq(Field), Len(y) = 2
        PROVE  /\ x \o y \in Seq(Field) /\ Len(x \o y) = Len(x) + 2
               /\ \A j \in 1..Len(x) : (x \o y)[j] = x[j]
               /\ \A j \in 1..2 : (x \o y)[Len(x) + j] = y[j]
    BY <2>1, ConcatSeq
  <2>2. more = d \o Address(c)
    BY Zenon DEF d, More
  <2>3. /\ d \o Address(c) \in Seq(Field) /\ Len(d \o Address(c)) = Len(d) + 2
        /\ \A j \in 1..Len(d) : (d \o Address(c))[j] = d[j]
        /\ \A j \in 1..2 : (d \o Address(c))[Len(d) + j] = Address(c)[j]
    BY <1>2, <1>4, <2>1, Zenon
  <2>4. Len(d) = n + 1 /\ n + 1 + 2 = n + 3
    BY <1>1, <1>2
  <2> HIDE DEF more
  <2> QED BY <2>2, <2>3, <2>4
<1> HIDE DEF more
<1>6. PICK k \in Nat : n = 3 * k
  BY Zenon DEF Whole
<1> HIDE DEF n
<1>7. Whole(more)
  <2>1. n + 3 = 3 * (k + 1) /\ k + 1 \in Nat
    BY <1>6
  <2> QED BY <1>5, <2>1, Zenon DEF Whole
<1>8. \A j \in 1..n : more[j] = ch[j]
  BY <1>1, <1>2, <1>5
<1>9. more[n + 1] = op /\ more[n + 2] = Address(c)[1] /\ more[n + 3] = Address(c)[2]
  <2>1. more[n + 1] = d[n + 1]
    BY <1>1, <1>5
  <2>2. more[n + 1 + 1] = Address(c)[1] /\ more[n + 1 + 2] = Address(c)[2]
    BY <1>5
  <2>3. n + 1 + 1 = n + 2 /\ n + 1 + 2 = n + 3
    BY <1>1
  <2> QED BY <1>3, <2>1, <2>2, <2>3
<1>10. ASSUME NEW i \in Nat \ {0}, NEW o, NEW a
       PROVE  Says(<<"">> \o more, i, o, a) <=>
                Says(<<"">> \o ch, i, o, a) \/ (i = k + 1 /\ o = op /\ a = Address(c))
  <2>1. "" \in Field /\ more \in Message
    BY <1>5 DEF Field, Words, Message
  <2>2. Says(<<"">> \o more, i, o, a) <=>
          3 * i <= Len(more) /\ more[3 * i - 2] = o /\ <<more[3 * i - 1], more[3 * i]>> = a
    BY <2>1, SaysChanges
  <2>3. Says(<<"">> \o ch, i, o, a) <=>
          3 * i <= n /\ ch[3 * i - 2] = o /\ <<ch[3 * i - 1], ch[3 * i]>> = a
    BY <2>1, SaysChanges DEF n
  <2>4. CASE 3 * i <= n
    <3>1. 3 * i - 2 \in 1..n /\ 3 * i - 1 \in 1..n /\ 3 * i \in 1..n /\ 3 * i <= n + 3 /\ i # k + 1
      BY <1>1, <1>6, <2>4
    <3>2. more[3 * i - 2] = ch[3 * i - 2] /\ more[3 * i - 1] = ch[3 * i - 1] /\ more[3 * i] = ch[3 * i]
      BY <1>8, <3>1
    <3>3. 3 * i <= Len(more)
      BY <1>5, <3>1
    <3> QED BY <2>2, <2>3, <2>4, <3>1, <3>2, <3>3, Zenon
  <2>5. CASE i = k + 1
    <3>1. ~(3 * i <= n) /\ 3 * i - 2 = n + 1 /\ 3 * i - 1 = n + 2 /\ 3 * i = n + 3 /\ 3 * i <= n + 3
      BY <1>6, <2>5
    <3>2. more[3 * i - 2] = op /\ <<more[3 * i - 1], more[3 * i]>> = Address(c)
      BY <1>4, <1>9, <3>1
    <3>3. 3 * i <= Len(more)
      BY <1>5, <3>1
    <3>4. (op = o <=> o = op) /\ (Address(c) = a <=> a = Address(c))
      OBVIOUS
    <3> QED BY <2>2, <2>3, <2>5, <3>1, <3>2, <3>3, <3>4, Zenon
  <2>6. CASE ~(3 * i <= n) /\ i # k + 1
    <3>1. ~(3 * i <= n + 3)
      BY <1>6, <2>6
    <3>2. ~(3 * i <= Len(more))
      BY <1>5, <3>1
    <3> QED BY <2>2, <2>3, <2>6, <3>2, Zenon
  <2> QED BY <2>4, <2>5, <2>6
<1>11. ASSUME NEW i \in Nat \ {0}, NEW o, NEW a, Says(<<"">> \o ch, i, o, a) PROVE k + 1 > i
  <2>1. "" \in Field
    BY DEF Field, Words
  <2>2. 3 * i <= n
    BY <1>11, <2>1, SaysChanges DEF n
  <2> QED BY <1>6, <2>2
<1>12. k + 1 \in Nat \ {0} /\ ~(k + 1 > k + 1)
  OBVIOUS
<1>13. "A" # "R"
  OBVIOUS
<1>14. \A i \in Nat \ {0} : i > k + 1 => ~(k + 1 > i)
  OBVIOUS
<1>15. ASSUME NEW a
       PROVE  /\ Adds(<<"">> \o more, a) <=>
                   \/ op = "A" /\ a = Address(c)
                   \/ Adds(<<"">> \o ch, a) /\ ~(op = "R" /\ a = Address(c))
              /\ Drops(<<"">> \o more, a) <=>
                   Drops(<<"">> \o ch, a) \/ (op = "R" /\ a = Address(c))
  <2> DEFINE f == <<"">> \o more
             g == <<"">> \o ch
             b == Address(c)
  <2>1. \A i \in Nat \ {0} : \A o : Says(f, i, o, a) <=> Says(g, i, o, a) \/ (i = k + 1 /\ o = op /\ a = b)
    BY <1>10
  <2>2. \A i \in Nat \ {0} : \A o : Says(g, i, o, a) => k + 1 > i
    BY <1>11
  <2> HIDE DEF f, g, b
  <2>3. Drops(f, a) <=> Drops(g, a) \/ (op = "R" /\ a = b)
    <3>1. ASSUME op = "R", a = b PROVE Says(f, k + 1, "R", a)
      BY <1>12, <2>1, <3>1, Zenon
    <3>2. ASSUME Drops(f, a) PROVE Drops(g, a) \/ (op = "R" /\ a = b)
      <4>1. PICK i \in Nat \ {0} : Says(f, i, "R", a)
        BY <3>2, Zenon DEF Drops
      <4>2. Says(g, i, "R", a) \/ (i = k + 1 /\ "R" = op /\ a = b)
        BY <2>1, <4>1, Zenon
      <4> QED BY <4>2, Zenon DEF Drops
    <3>3. ASSUME Drops(g, a) PROVE Drops(f, a)
      <4>1. PICK i \in Nat \ {0} : Says(g, i, "R", a)
        BY <3>3, Zenon DEF Drops
      <4>2. Says(f, i, "R", a)
        BY <2>1, <4>1, Zenon
      <4> QED BY <4>2, Zenon DEF Drops
    <3>4. ASSUME op = "R", a = b PROVE Drops(f, a)
      BY <1>12, <3>1, <3>4, Zenon DEF Drops
    <3> QED BY <3>2, <3>3, <3>4, Zenon
  <2>4. ASSUME op = "A", a = b PROVE Adds(f, a)
    <3>1. Says(f, k + 1, "A", a)
      BY <1>12, <2>1, <2>4, Zenon
    <3>2. ASSUME NEW j \in Nat \ {0}, j > k + 1 PROVE ~Says(f, j, "R", a)
      BY <1>13, <1>14, <2>1, <2>2, <2>4, <3>2, Zenon
    <3> QED BY <1>12, <3>1, <3>2, Zenon DEF Adds
  <2>5. ASSUME Adds(g, a), ~(op = "R" /\ a = b) PROVE Adds(f, a)
    <3>1. PICK i \in Nat \ {0} : Says(g, i, "A", a) /\ \A j \in Nat \ {0} : j > i => ~Says(g, j, "R", a)
      BY <2>5, Zenon DEF Adds
    <3>2. Says(f, i, "A", a)
      BY <2>1, <3>1, Zenon
    <3>3. ASSUME NEW j \in Nat \ {0}, j > i PROVE ~Says(f, j, "R", a)
      <4>1. ~Says(g, j, "R", a)
        BY <3>1, <3>3, Zenon
      <4>2. ~("R" = op /\ a = b)
        BY <2>5
      <4>3. Says(f, j, "R", a) <=> Says(g, j, "R", a) \/ (j = k + 1 /\ "R" = op /\ a = b)
        BY <2>1, Zenon
      <4> QED BY <4>1, <4>2, <4>3
    <3> QED BY <3>2, <3>3, Zenon DEF Adds
  <2>6. ASSUME Adds(f, a) PROVE \/ op = "A" /\ a = b
                                \/ Adds(g, a) /\ ~(op = "R" /\ a = b)
    <3>1. PICK i \in Nat \ {0} : Says(f, i, "A", a) /\ \A j \in Nat \ {0} : j > i => ~Says(f, j, "R", a)
      BY <2>6, Zenon DEF Adds
    <3>2. CASE i = k + 1 /\ "A" = op /\ a = b
      BY <3>2
    <3>3. CASE Says(g, i, "A", a)
      <4>1. k + 1 > i
        BY <2>2, <3>3, Zenon
      <4>2. ~(op = "R" /\ a = b)
        BY <1>12, <2>1, <3>1, <4>1, Zenon
      <4>3. \A j \in Nat \ {0} : j > i => ~Says(g, j, "R", a)
        BY <2>1, <3>1, Zenon
      <4> QED BY <3>3, <4>2, <4>3, Zenon DEF Adds
    <3> QED BY <2>1, <3>1, <3>2, <3>3, Zenon
  <2>7. /\ Adds(f, a) <=> (op = "A" /\ a = b) \/ (Adds(g, a) /\ ~(op = "R" /\ a = b))
        /\ Drops(f, a) <=> Drops(g, a) \/ (op = "R" /\ a = b)
    BY <2>3, <2>4, <2>5, <2>6, Zenon
  <2> QED BY <2>7 DEF f, g, b
<1> QED BY <1>7, <1>15, Zenon DEF more

\* getHeartbeat: what is sent says what was noted down since the last heartbeat.
Taken(id, ch) == <<id>> \o (IF ch = <<>> THEN <<"">> ELSE ch)

LEMMA TakenTold ==
  ASSUME NEW id \in Field, NEW ch \in Message, Changes(ch), NEW b, b = Taken(id, ch)
  PROVE  /\ b # <<>> /\ b[1] = id
         /\ \A a : /\ Adds(Fields(b), a) <=> Adds(<<"">> \o ch, a)
                   /\ Drops(Fields(b), a) <=> Drops(<<"">> \o ch, a)
<1>1. ch \in Seq(Field) /\ Len(ch) \in Nat /\ "" \in Field
  <2>1. "" \in Field
    BY DEF Field, Words
  <2>2. ch \in Seq(Field)
    BY DEF Message
  <2>3. \A s \in Seq(Field) : Len(s) \in Nat
    OBVIOUS
  <2> QED BY <2>1, <2>2, <2>3, Zenon
<1>2. ASSUME NEW x \in Field, NEW y \in Seq(Field)
      PROVE  /\ <<x>> \o y \in Seq(Field) /\ Len(<<x>> \o y) = 1 + Len(y) /\ (<<x>> \o y)[1] = x
             /\ \A i \in 1..Len(y) : (<<x>> \o y)[1 + i] = y[i]
  OBVIOUS
<1>3. \A s \in Seq(Field) : Len(s) # 0 <=> s # <<>>
  OBVIOUS
<1>4. /\ 1 \in 1..1 /\ 1 + 1 = 2
      /\ \A k : k = 1 + 1 => k = 2 /\ k >= 1 /\ k - 1 = 1 /\ k # 0
      /\ \A k : k = 1 => k < 4
      /\ \A k : k = 1 + 0 => k < 4
  OBVIOUS
<1>5. CASE ch = <<>>
  <2> DEFINE e == <<"">>
  <2>1. e \in Seq(Field) /\ Len(e) = 1 /\ e[1] = ""
    BY <1>1, SingletonSeq
  <2>2. b = <<id>> \o e
    BY <1>5, Zenon DEF Taken
  <2>3. b \in Seq(Field) /\ Len(b) = 1 + Len(e) /\ b[1] = id /\ \A i \in 1..Len(e) : b[1 + i] = e[i]
    <3> HIDE DEF e
    <3>1. /\ <<id>> \o e \in Seq(Field) /\ Len(<<id>> \o e) = 1 + Len(e) /\ (<<id>> \o e)[1] = id
          /\ \A i \in 1..Len(e) : (<<id>> \o e)[1 + i] = e[i]
      BY <1>2, <2>1
    <3> QED BY <2>2, <3>1, Zenon
  <2> HIDE DEF e
  <2>4. Len(b) = 2 /\ b[2] = "" /\ Len(b) >= 1 /\ Len(b) - 1 = 1 /\ Len(b) # 0
    <3>1. 1 \in 1..Len(e) /\ 1 + 1 = 2
      BY <1>4, <2>1, Zenon
    <3>2. b[1 + 1] = e[1]
      BY <2>3, <3>1, Zenon
    <3>3. b[2] = ""
      BY <2>1, <3>1, <3>2, Zenon
    <3>4. Len(b) = 1 + 1
      BY <2>1, <2>3, Zenon
    <3> QED BY <1>4, <3>3, <3>4, Zenon
  <2>5. Last(b) = ""
    BY <2>4 DEF Last
  <2>6. Fields(b) = Front(b)
    BY <2>5, Zenon DEF Fields
  <2>7. Front(b) \in Seq(Field) /\ Len(Front(b)) = Len(b) - 1
    BY <2>3, <2>4, FrontSeq, Zenon
  <2>8. Fields(b) \in Message /\ Len(Fields(b)) = 1
    BY <2>4, <2>6, <2>7 DEF Message
  <2>9. ASSUME NEW a PROVE ~Adds(Fields(b), a) /\ ~Drops(Fields(b), a)
    <3>1. Len(Fields(b)) < 4
      BY <2>8
    <3> QED BY <2>8, <3>1, SaysNothing, Zenon
  <2>10. <<"">> \o ch \in Message /\ Len(<<"">> \o ch) < 4
    <3>1. <<"">> \o ch \in Seq(Field) /\ Len(<<"">> \o ch) = 1 + Len(ch)
      BY <1>1, <1>2, Zenon
    <3>2. Len(ch) = 0
      BY <1>5
    <3>3. <<"">> \o ch \in Message
      BY <3>1, Zenon DEF Message
    <3>4. Len(<<"">> \o ch) = 1 + 0
      BY <3>1, <3>2, Zenon
    <3> QED BY <1>4, <3>3, <3>4, Zenon
  <2>11. ASSUME NEW a PROVE ~Adds(<<"">> \o ch, a) /\ ~Drops(<<"">> \o ch, a)
    BY <2>10, SaysNothing, Zenon
  <2>12. b # <<>>
    BY <1>3, <2>3, <2>4, Zenon
  <2> QED BY <2>3, <2>9, <2>11, <2>12, Zenon
<1>6. CASE ch # <<>>
  <2>1. b = <<id>> \o ch
    BY <1>6, Zenon DEF Taken
  <2>2. Len(ch) >= 2 /\ ch[Len(ch)] # ""
    BY <1>6, Zenon DEF Changes
  <2>3. Len(ch) \in 1..Len(ch) /\ 1 + Len(ch) # 0
    <3> DEFINE k == Len(ch)
    <3>1. k \in Nat /\ k >= 2
      BY <1>1, <2>2, Zenon
    <3> HIDE DEF k
    <3>2. k \in 1..k /\ 1 + k # 0
      BY <3>1
    <3> QED BY <3>2 DEF k
  <2>4. b \in Seq(Field) /\ Len(b) = 1 + Len(ch) /\ b[1] = id /\ b[1 + Len(ch)] = ch[Len(ch)]
    <3>1. /\ <<id>> \o ch \in Seq(Field) /\ Len(<<id>> \o ch) = 1 + Len(ch) /\ (<<id>> \o ch)[1] = id
          /\ \A i \in 1..Len(ch) : (<<id>> \o ch)[1 + i] = ch[i]
      BY <1>1, <1>2
    <3> QED BY <2>1, <2>3, <3>1, Zenon
  <2>5. Last(b) = ch[Len(ch)]
    BY <2>4, Zenon DEF Last
  <2>6. b # <<>>
    <3>1. Len(b) # 0
      BY <2>3, <2>4, Zenon
    <3> QED BY <1>3, <2>4, <3>1, Zenon
  <2>7. Fields(b) = b
    BY <2>2, <2>5, Zenon DEF Fields
  <2>8. ASSUME NEW a
        PROVE  /\ Adds(b, a) <=> Adds(<<"">> \o ch, a)
               /\ Drops(b, a) <=> Drops(<<"">> \o ch, a)
    BY <1>1, <2>1, SameChanges
  <2> QED BY <2>4, <2>6, <2>7, <2>8, Zenon
<1> QED BY <1>5, <1>6

(***************************************************************************)
(* The reply of connectNewNode                                              *)
(***************************************************************************)
LEMMA InitialNodesType ==
  ASSUME NEW f \in Message
  PROVE  InitialNodes(f) \in Seq(Pair)
<1> DEFINE k == (Len(f) - 3) \div 2
<1>1. f \in Seq(Field) /\ Len(f) \in Nat
  BY DEF Message
<1>2. \A i \in 1..k : 2 * i + 2 \in 1..Len(f) /\ 2 * i + 3 \in 1..Len(f)
  BY <1>1
<1>3. \A i \in 1..k : <<f[2 * i + 2], f[2 * i + 3]>> \in Pair
  BY <1>1, <1>2 DEF Pair
<1>4. k \in Int
  BY <1>1
<1>5. PICK n \in Nat : 1..k = 1..n
  <2>1. CASE k >= 0
    BY <1>4, <2>1
  <2>2. CASE k < 0
    <3>1. 1..k = 1..0
      BY <1>4, <2>2
    <3> QED BY <3>1
  <2> QED BY <1>4, <2>1, <2>2
<1> HIDE DEF k
<1>6. [i \in 1..n |-> <<f[2 * i + 2], f[2 * i + 3]>>] \in Seq(Pair)
  <2> DEFINE x(i) == <<f[2 * i + 2], f[2 * i + 3]>>
  <2>1. \A i \in 1..n : x(i) \in Pair
    BY <1>3, <1>5
  <2> HIDE DEF x
  <2>2. [i \in 1..n |-> x(i)] \in Seq(Pair)
    BY <2>1
  <2> QED BY <2>2 DEF x
<1>7. InitialNodes(f) = [i \in 1..k |-> <<f[2 * i + 2], f[2 * i + 3]>>]
  BY Zenon DEF InitialNodes, k
<1> QED BY <1>5, <1>6, <1>7

\* The leader of c answers with the addresses of all it has a connection to.
Linked(m, a) == \E i \in 1..Len(others[m]) : Address(others[m][i]) = a

ReplyTo(m, c) == <<"ok">> \o Address(c) \o InitialData(m)

\* The reply of connectNewNode names the connections of the leader.
LEMMA ReplyNodes ==
  ASSUME Typed, NEW m \in Node, NEW c \in Connection
  PROVE  /\ InitialNodes(Fields(ReplyTo(m, c))) \in Seq(Pair)
         /\ \A a : a \in ToSet(InitialNodes(Fields(ReplyTo(m, c)))) <=> Linked(m, a)
<1> DEFINE o == others[m]
           n == Len(o)
           ss == [i \in DOMAIN o |-> Address(o[i])]
           d == InitialData(m)
           h == <<"ok">> \o Address(c)
           f == ReplyTo(m, c)
<1>1. o \in Seq(Connection) /\ n \in Nat /\ DOMAIN o = 1..n /\ \A i \in 1..n : o[i] \in Connection
  BY DEF Typed
<1>2. \A i \in 1..n : /\ Address(o[i]) \in Seq(Field) /\ Len(Address(o[i])) = 2
                      /\ Address(o[i]) = <<Address(o[i])[1], Address(o[i])[2]>>
                      /\ Address(o[i])[2] = "port"
  <2>1. ASSUME NEW e \in Connection
        PROVE  /\ Address(e) \in Seq(Field) /\ Len(Address(e)) = 2
               /\ Address(e) = <<Address(e)[1], Address(e)[2]>>
               /\ Address(e)[2] = "port"
    <3>1. Address(e) \in Seq(Field) /\ Len(Address(e)) = 2 /\ Address(e)[2] = "port"
      BY AddressIsMessage
    <3>2. Address(e) = <<Address(e)[1], Address(e)[2]>>
      BY DEF Address
    <3> QED BY <3>1, <3>2
  <2> QED BY <1>1, <2>1, Zenon
<1>3. ss \in Seq(Seq(Field)) /\ Len(ss) = n /\ \A i \in 1..n : ss[i] = Address(o[i])
  BY <1>1, <1>2
<1>4. d = FlattenSeq(ss)
  BY Zenon DEF InitialData
<1> HIDE DEF ss, o, n
<1>5. /\ Len(d) = 2 * n
      /\ \A i \in 1..n : d[2 * i - 1] = Address(o[i])[1] /\ d[2 * i] = Address(o[i])[2]
  <2>1. \A i \in 1..Len(ss) : Len(ss[i]) = 2
    BY <1>2, <1>3
  <2>2. /\ Len(FlattenSeq(ss)) = 2 * Len(ss)
        /\ \A i \in 1..Len(ss) : FlattenSeq(ss)[2 * i - 1] = ss[i][1] /\ FlattenSeq(ss)[2 * i] = ss[i][2]
    BY <1>3, <2>1, FlattenPairs
  <2> QED BY <1>3, <1>4, <2>2, Zenon
<1>6. d \in Seq(Field)
  BY InitialDataIsMessage
<1>7. h \in Seq(Field) /\ Len(h) = 3 /\ h[3] = "port"
  <2>1. "ok" \in Field
    BY DEF Field, Words
  <2>2. <<"ok">> \in Seq(Field) /\ Len(<<"ok">>) = 1
    BY <2>1, SingletonSeq
  <2>3. Address(c) \in Seq(Field) /\ Len(Address(c)) = 2 /\ Address(c)[2] = "port" /\ 2 \in 1..Len(Address(c))
    BY AddressIsMessage
  <2>4. h \in Seq(Field) /\ Len(h) = Len(<<"ok">>) + Len(Address(c)) /\ h[Len(<<"ok">>) + 2] = Address(c)[2]
    BY <2>2, <2>3, ConcatSeq
  <2> HIDE DEF h
  <2> QED BY <2>2, <2>3, <2>4
<1>8. f = h \o d
  BY Zenon DEF ReplyTo
<1> HIDE DEF d, h, f
<1>9. /\ f \in Seq(Field) /\ Len(f) = 3 + 2 * n /\ f[3] = "port"
      /\ \A i \in 1..Len(d) : f[3 + i] = d[i]
  <2>1. 3 \in 1..Len(h)
    BY <1>7
  <2>2. /\ h \o d \in Seq(Field) /\ Len(h \o d) = Len(h) + Len(d) /\ (h \o d)[3] = h[3]
        /\ \A i \in 1..Len(d) : (h \o d)[Len(h) + i] = d[i]
    <3>1. ASSUME NEW u \in Seq(Field), NEW v \in Seq(Field)
          PROVE  /\ u \o v \in Seq(Field) /\ Len(u \o v) = Len(u) + Len(v)
                 /\ \A i \in 1..Len(u) : (u \o v)[i] = u[i]
                 /\ \A i \in 1..Len(v) : (u \o v)[Len(u) + i] = v[i]
      BY ConcatSeq
    <3> QED BY <1>6, <1>7, <2>1, <3>1, Zenon
  <2> QED BY <1>5, <1>7, <1>8, <2>2
<1>10. \A i \in 1..n : f[2 * i + 2] = Address(o[i])[1] /\ f[2 * i + 3] = Address(o[i])[2]
  <2> SUFFICES ASSUME NEW i \in 1..n
               PROVE  f[2 * i + 2] = Address(o[i])[1] /\ f[2 * i + 3] = Address(o[i])[2]
    OBVIOUS
  <2>1. 2 * i - 1 \in 1..Len(d) /\ 2 * i \in 1..Len(d) /\ 3 + (2 * i - 1) = 2 * i + 2 /\ 3 + 2 * i = 2 * i + 3
    BY <1>1, <1>5
  <2>2. f[3 + (2 * i - 1)] = d[2 * i - 1] /\ f[3 + 2 * i] = d[2 * i]
    BY <1>9, <2>1
  <2> QED BY <1>5, <2>1, <2>2
<1>11. Fields(f) = f
  <2>1. f[Len(f)] = "port"
    <3>1. CASE n = 0
      BY <1>9, <3>1
    <3>2. CASE n # 0
      <4>1. n \in 1..n /\ 2 * n + 3 = Len(f)
        BY <1>1, <1>9, <3>2
      <4> QED BY <1>2, <1>10, <4>1
    <3> QED BY <3>1, <3>2
  <2>2. Last(f) # ""
    BY <2>1 DEF Last
  <2> QED BY <2>2, Zenon DEF Fields
<1>12. f \in Message
  BY <1>9 DEF Message
<1>13. InitialNodes(f) \in Seq(Pair)
  BY <1>12, InitialNodesType
<1>14. (Len(f) - 3) \div 2 = n
  BY <1>1, <1>9
<1>15. InitialNodes(f) = [i \in 1..n |-> <<f[2 * i + 2], f[2 * i + 3]>>]
  BY <1>14, Zenon DEF InitialNodes
<1>16. Len(InitialNodes(f)) = n /\ \A i \in 1..n : InitialNodes(f)[i] = Address(o[i])
  <2>1. \A i \in 1..n : <<f[2 * i + 2], f[2 * i + 3]>> = Address(o[i])
    BY <1>2, <1>10
  <2> QED BY <1>1, <1>15, <2>1
<1> DEFINE l == InitialNodes(f)
<1>17. ASSUME NEW a PROVE a \in ToSet(l) <=> \E i \in 1..Len(l) : l[i] = a
  <2> HIDE DEF l
  <2> QED BY <1>13, ToSetOf DEF l
<1>18. ASSUME NEW a PROVE a \in ToSet(l) <=> Linked(m, a)
  BY <1>16, <1>17, Zenon DEF Linked, o, n
<1> QED BY <1>11, <1>13, <1>18, Zenon DEF f

(***************************************************************************)
(* What a follower will have been told                                      *)
(***************************************************************************)
\* The changes for the next heartbeat, as a message.
ToTell(m)  == <<"">> \o nodeConnectionChange[m]
Sending(m) == Fields(beat[m])
Parsed(q)  == [i \in DOMAIN q |-> Fields(q[i])]

\* m has the connection n reads.
OnList(n, m) == cur[n] # 0 /\ Contains(others[m], Mine(n))

\* n starts from list l and has messages q to read: as a follower, after the reply
\* that is in its inbox, or after the reply that is not written yet.
Following(n, l, q) == role[n] = "follower" /\ l = nonLeaderNodes[n] /\ q = inbox[n]
Answered(n, l, q) ==
  /\ role[n] = "starting" /\ inbox[n] # <<>> /\ inbox[n][1][1] = "ok"
  /\ l = InitialNodes(Fields(inbox[n][1])) /\ q = Tail(inbox[n])
Promised(n, m, l, q) ==
  /\ role[n] = "starting" /\ inbox[n] = <<>> /\ q = <<>>
  /\ \E r \in replying[m] : r.to = Mine(n) /\ l = InitialNodes(Fields(r.data))

Script(n, m, l, q) ==
  OnList(n, m) /\ (Following(n, l, q) \/ Answered(n, l, q) \/ Promised(n, m, l, q))

\* a is on the list of n after q and the heartbeat being sent; then after all changes.
Heard(n, m, l, q, a) ==
  \/ Unsent(m, Mine(n)) /\ Adds(Sending(m), a)
  \/ Held(l, Parsed(q), a) /\ (Unsent(m, Mine(n)) => ~Drops(Sending(m), a))
Stays(n, m, l, q, a) ==
  Adds(ToTell(m), a) \/ (~Drops(ToTell(m), a) /\ Heard(n, m, l, q, a))

\* What is still to be told puts a on a list, or leaves it there.
Gains(m, a) ==
  Adds(ToTell(m), a) \/ (~Drops(ToTell(m), a) /\ beat[m] # <<>> /\ Adds(Sending(m), a))
Remains(m, a) ==
  \/ Adds(ToTell(m), a)
  \/ ~Drops(ToTell(m), a) /\ (beat[m] = <<>> \/ Adds(Sending(m), a) \/ ~Drops(Sending(m), a))

(***************************************************************************)
(* The invariants                                                           *)
(***************************************************************************)
\* Crawl IDs in front of heartbeats, changes in threes.
Ids ==
  \A m \in Node :
    /\ role[m] # "follower" => crawlID[m] \in CrawlIDs
    /\ beat[m] # <<>> => beat[m][1] \in CrawlIDs
    /\ Whole(nodeConnectionChange[m])

\* A follower was answered.
Served ==
  \A n \in Node : role[n] = "follower" => cur[n] # 0 /\ \A m \in Node : Mine(n) \notin backlog[m]

\* A connection belongs to one leader and gets one reply.
OneList ==
  \A m, k \in Node :
    /\ \A c : Contains(others[m], c) /\ Contains(others[k], c) => m = k
    /\ \A r \in replying[k] : Contains(others[m], r.to) => m = k
    /\ \A r \in replying[m], s \in replying[k] : r.to = s.to => m = k /\ r = s

\* ... while the node waits for it, and then it has not got one yet.
NoOk(n) == \A i \in 1..Len(inbox[n]) : inbox[n][i][1] # "ok"
OneReply ==
  \A n, m \in Node : \A r \in replying[m] : cur[n] # 0 /\ r.to = Mine(n) =>
    role[n] = "starting" /\ NoOk(n)

\* What comes from a leader is never an address.
AllHarmless(n) == \A i \in 1..Len(inbox[n]) : Harmless(inbox[n][i])
Plain == \A n, m \in Node : OnList(n, m) => AllHarmless(n)

LinkInv ==
  /\ nonLeaderNodes \in [Node -> Seq(Pair)]
  /\ Ids /\ Served /\ OneList /\ OneReply /\ Plain

\* Nobody will have been told of a node that m has no connection to.
Ghostless(m) ==
  /\ \A a : ~Linked(m, a) => ~Gains(m, a)
  /\ \A n \in Node : \A l, q : Script(n, m, l, q) =>
       \A a : ~Linked(m, a) => ~Stays(n, m, l, q, a)

\* m has a connection to a node that runs.
Living(m, a) == \E i \in 1..Len(others[m]) : Up(others[m][i].node) /\ Address(others[m][i]) = a

\* Everybody will have been told of those.
Unforgetting(m) ==
  /\ \A a : Living(m, a) => Remains(m, a)
  /\ \A n \in Node : \A l, q : Script(n, m, l, q) =>
       \A a : Living(m, a) => Stays(n, m, l, q, a)

\* A node that runs for the first time keeps the connections it made to a leader.
Connected(c) == c.node \in started /\ (Up(c.node) => c.conn \in open[c.node])
FirstRun ==
  /\ \A n \in Node : Up(n) => n \in started
  /\ \A m \in Node : /\ \A i \in 1..Len(others[m]) : Connected(others[m][i])
                     /\ \A c \in backlog[m] : Connected(c)

(***************************************************************************)
(* Steps that tell nobody anything else                                     *)
(***************************************************************************)
SameNode(n) ==
  /\ role'[n] = role[n] /\ cur'[n] = cur[n] /\ inbox'[n] = inbox[n]
  /\ nonLeaderNodes'[n] = nonLeaderNodes[n]
SameLead(m) ==
  /\ others'[m] = others[m] /\ nodeConnectionChange'[m] = nodeConnectionChange[m]
  /\ beat'[m] = beat[m] /\ left'[m] = left[m]

\* What n will have been told by m is what it would have been.
Same(n, m) ==
  \A l, q : Script(n, m, l, q)' =>
    \E k, p : Script(n, m, k, p) /\ \A a : Stays(n, m, l, q, a)' <=> Stays(n, m, k, p, a)

Quiet(m) ==
  /\ \A a : Linked(m, a)' <=> Linked(m, a)
  /\ \A a : Gains(m, a)' => Gains(m, a)
  /\ \A a : Remains(m, a) => Remains(m, a)'
  /\ \A n \in Node : Same(n, m)

LEMMA LinkedSame ==
  ASSUME NEW m, others'[m] = others[m]
  PROVE  /\ \A a : Linked(m, a)' <=> Linked(m, a)
         /\ \A c : Contains(others'[m], c) <=> Contains(others[m], c)
BY Zenon DEF Linked, Contains

LEMMA ToldSame ==
  ASSUME NEW m, nodeConnectionChange'[m] = nodeConnectionChange[m], beat'[m] = beat[m]
  PROVE  ToTell(m)' = ToTell(m) /\ Sending(m)' = Sending(m)
BY Zenon DEF ToTell, Sending

LEMMA GainsSame ==
  ASSUME NEW m, nodeConnectionChange'[m] = nodeConnectionChange[m],
         beat'[m] = beat[m] \/ beat'[m] = <<>>
  PROVE  /\ \A a : Gains(m, a)' => Gains(m, a)
         /\ \A a : Remains(m, a) => Remains(m, a)'
<1>1. ToTell(m)' = ToTell(m)
  BY Zenon DEF ToTell
<1>2. CASE beat'[m] = beat[m]
  <2>1. Sending(m)' = Sending(m)
    BY <1>2, Zenon DEF Sending
  <2> QED BY <1>1, <1>2, <2>1, Zenon DEF Gains, Remains
<1>3. CASE beat'[m] = <<>>
  BY <1>1, <1>3, Zenon DEF Gains, Remains
<1> QED BY <1>2, <1>3

\* Only what is unsent and what is to be read matters.
LEMMA StaysSame ==
  ASSUME NEW n, NEW m, ToTell(m)' = ToTell(m),
         Unsent(m, Mine(n))' <=> Unsent(m, Mine(n)),
         Unsent(m, Mine(n)) => Sending(m)' = Sending(m)
  PROVE  \A l, q, a : Stays(n, m, l, q, a)' <=> Stays(n, m, l, q, a)
<1> SUFFICES ASSUME NEW l, NEW q, NEW a
             PROVE  Stays(n, m, l, q, a)' <=> Stays(n, m, l, q, a)
  OBVIOUS
<1>1. Heard(n, m, l, q, a)' <=> Heard(n, m, l, q, a)
  BY Zenon DEF Heard
<1> QED BY <1>1, Zenon DEF Stays

\* The same heartbeat is to be sent to the same connection.
LEMMA UnsentSame ==
  ASSUME NEW n, NEW m, SameLead(m), cur'[n] = cur[n]
  PROVE  Unsent(m, Mine(n))' <=> Unsent(m, Mine(n))
<1>1. Mine(n)' = Mine(n)
  BY Zenon DEF Mine
<1> QED BY <1>1, Zenon DEF Unsent, SameLead

\* A node and a list that stay as they are give no new script.
LEMMA ScriptSame ==
  ASSUME NEW n, NEW m, SameNode(n), Contains(others'[m], Mine(n)) => Contains(others[m], Mine(n)),
         \A r \in replying'[m] : r.to = Mine(n) => r \in replying[m]
  PROVE  \A l, q : Script(n, m, l, q)' => Script(n, m, l, q)
<1>1. Mine(n)' = Mine(n)
  BY Zenon DEF Mine, SameNode
<1> SUFFICES ASSUME NEW l, NEW q, Script(n, m, l, q)' PROVE Script(n, m, l, q)
  OBVIOUS
<1>2. OnList(n, m)
  BY <1>1, Zenon DEF Script, OnList, SameNode
<1>3. CASE Following(n, l, q)'
  BY <1>2, <1>3, Zenon DEF Script, Following, SameNode
<1>4. CASE Answered(n, l, q)'
  BY <1>2, <1>4, Zenon DEF Script, Answered, SameNode
<1>5. CASE Promised(n, m, l, q)'
  BY <1>1, <1>2, <1>5, Zenon DEF Script, Promised, SameNode
<1> QED BY <1>3, <1>4, <1>5, Zenon DEF Script

LEMMA SameOfNode ==
  ASSUME NEW n, NEW m, SameNode(n), SameLead(m), replying'[m] \subseteq replying[m]
  PROVE  Same(n, m)
<1>1. \A l, q : Script(n, m, l, q)' => Script(n, m, l, q)
  BY ScriptSame, LinkedSame DEF SameLead
<1>2. \A l, q, a : Stays(n, m, l, q, a)' <=> Stays(n, m, l, q, a)
  <2>1. Unsent(m, Mine(n))' <=> Unsent(m, Mine(n))
    BY UnsentSame, Zenon DEF SameNode
  <2> QED BY <2>1, StaysSame, ToldSame, Zenon DEF SameLead
<1> QED BY <1>1, <1>2, Zenon DEF Same

\* Who is on no list has no script.
LEMMA SameOff ==
  ASSUME NEW n, NEW m, ~OnList(n, m)'
  PROVE  Same(n, m)
BY Zenon DEF Same, Script

\* A leader that stays as it is tells nobody anything else.
LEMMA QuietFrame ==
  ASSUME NEW m, SameLead(m), replying'[m] \subseteq replying[m],
         \A n \in Node : SameNode(n) \/ ~OnList(n, m)' \/ Same(n, m)
  PROVE  Quiet(m)
<1>1. \A n \in Node : Same(n, m)
  BY SameOfNode, SameOff, Zenon
<1>2. \A a : Linked(m, a)' <=> Linked(m, a)
  BY LinkedSame, Zenon DEF SameLead
<1>3. /\ \A a : Gains(m, a)' => Gains(m, a)
      /\ \A a : Remains(m, a) => Remains(m, a)'
  BY GainsSame, Zenon DEF SameLead
<1> QED BY <1>1, <1>2, <1>3, Zenon DEF Quiet

\* ... so that it goes on telling of no ghosts,
LEMMA GhostlessQuiet ==
  ASSUME NEW m, Ghostless(m), Quiet(m)
  PROVE  Ghostless(m)'
<1>1. \A a : ~Linked(m, a)' => ~Gains(m, a)'
  BY Zenon DEF Ghostless, Quiet
<1>2. ASSUME NEW n \in Node, NEW l, NEW q, Script(n, m, l, q)', NEW a, ~Linked(m, a)'
      PROVE  ~Stays(n, m, l, q, a)'
  <2>1. PICK k, p : Script(n, m, k, p) /\ \A b : Stays(n, m, l, q, b)' <=> Stays(n, m, k, p, b)
    BY <1>2, Zenon DEF Quiet, Same
  <2>2. ~Linked(m, a)
    BY <1>2, Zenon DEF Quiet
  <2> QED BY <2>1, <2>2, Zenon DEF Ghostless
<1> QED BY <1>1, <1>2, Zenon DEF Ghostless

\* ... and goes on telling of those that live.
LEMMA UnforgettingQuiet ==
  ASSUME NEW m, Unforgetting(m), Quiet(m), \A a : Living(m, a)' => Living(m, a)
  PROVE  Unforgetting(m)'
<1>1. \A a : Living(m, a)' => Remains(m, a)'
  BY Zenon DEF Unforgetting, Quiet
<1>2. ASSUME NEW n \in Node, NEW l, NEW q, Script(n, m, l, q)', NEW a, Living(m, a)'
      PROVE  Stays(n, m, l, q, a)'
  <2>1. PICK k, p : Script(n, m, k, p) /\ \A b : Stays(n, m, l, q, b)' <=> Stays(n, m, k, p, b)
    BY <1>2, Zenon DEF Quiet, Same
  <2>2. Living(m, a)
    BY <1>2, Zenon
  <2> QED BY <2>1, <2>2, Zenon DEF Unforgetting
<1> QED BY <1>1, <1>2, Zenon DEF Unforgetting

(***************************************************************************)
(* One message more or less in an inbox                                     *)
(***************************************************************************)
LEMMA MineIs ==
  ASSUME NEW c \in Connection, NEW n
  PROVE  Mine(n) = c <=> n = c.node /\ cur[n] = c.conn
<1>1. c = [node |-> c.node, conn |-> c.conn]
  BY DEF Connection
<1>2. Mine(n).node = n /\ Mine(n).conn = cur[n]
  BY DEF Mine
<1>3. ASSUME n = c.node, cur[n] = c.conn PROVE Mine(n) = c
  BY <1>1, <1>3, Zenon DEF Mine
<1> QED BY <1>2, <1>3, Zenon

\* One call of receiveData returns one message.
LEMMA OneRead ==
  ASSUME MaxRead = 1, Typed, NEW n \in Node, NEW k \in Readable(n)
  PROVE  /\ k = 1 /\ Len(inbox[n]) >= 1 /\ Received(n, k) = Fields(inbox[n][1])
         /\ SubSeq(inbox[n], k + 1, Len(inbox[n])) = Tail(inbox[n])
<1>1. inbox[n] \in Seq(Message) /\ Len(inbox[n]) \in Nat
  BY DEF Typed
<1>2. k = 1 /\ Len(inbox[n]) >= 1
  BY <1>1 DEF Readable
<1>3. Received(n, k) = Fields(inbox[n][1])
  BY <1>2, Zenon DEF Received
<1>4. SubSeq(inbox[n], 1 + 1, Len(inbox[n])) = Tail(inbox[n])
  BY <1>1, <1>2, RestIsTail, Zenon
<1> QED BY <1>2, <1>3, <1>4, Zenon

\* The first message is read.
LEMMA InboxTail ==
  ASSUME Typed, NEW n \in Node, Len(inbox[n]) >= 1, inbox'[n] = Tail(inbox[n])
  PROVE  (NoOk(n) => NoOk(n)') /\ (AllHarmless(n) => AllHarmless(n)')
<1> DEFINE q == inbox[n]
           r == Tail(q)
<1>1. q \in Seq(Message)
  BY DEF Typed
<1>2. \A i \in 1..Len(r) : i + 1 \in 1..Len(q) /\ r[i] = q[i + 1]
  <2> HIDE DEF q
  <2> QED BY <1>1 DEF q
<1>3. inbox'[n] = r
  OBVIOUS
<1> HIDE DEF r
<1>4. \A i \in 1..Len(inbox'[n]) : i + 1 \in 1..Len(inbox[n]) /\ inbox'[n][i] = inbox[n][i + 1]
  BY <1>2, <1>3 DEF q
<1> QED BY <1>4, Zenon DEF NoOk, AllHarmless

\* One more message comes.
LEMMA InboxAppend ==
  ASSUME Typed, NEW n \in Node, NEW b \in Message, inbox'[n] = Append(inbox[n], b)
  PROVE  /\ NoOk(n) /\ b[1] # "ok" => NoOk(n)'
         /\ AllHarmless(n) /\ Harmless(b) => AllHarmless(n)'
<1> DEFINE q == inbox[n]
           r == Append(q, b)
<1>1. q \in Seq(Message)
  BY DEF Typed
<1>2. \A i \in 1..Len(r) : (i \in 1..Len(q) /\ r[i] = q[i]) \/ r[i] = b
  <2> HIDE DEF q
  <2> QED BY <1>1
<1>3. inbox'[n] = r
  OBVIOUS
<1> HIDE DEF r
<1>4. \A i \in 1..Len(inbox'[n]) : (i \in 1..Len(inbox[n]) /\ inbox'[n][i] = inbox[n][i]) \/ inbox'[n][i] = b
  BY <1>2, <1>3 DEF q
<1> QED BY <1>4, Zenon DEF NoOk, AllHarmless

\* A message for c reaches the node that reads c.
LEMMA DeliveredTo ==
  ASSUME Typed, NEW c \in Connection, NEW b \in Message, inbox' = Delivered(inbox, c, b), NEW x \in Node
  PROVE  \/ Mine(x) = c /\ inbox'[x] = Append(inbox[x], b)
         \/ Mine(x) # c /\ inbox'[x] = inbox[x]
<1>1. inbox'[x] = IF x = c.node /\ cur[x] = c.conn THEN Append(inbox[x], b) ELSE inbox[x]
  BY DeliveredBox
<1>2. Mine(x) = c <=> x = c.node /\ cur[x] = c.conn
  BY MineIs
<1> QED BY <1>1, <1>2

(***************************************************************************)
(* What keeps the invariant                                                 *)
(***************************************************************************)
Shrinks ==
  /\ \A m \in Node : \A c : Contains(others'[m], c) => Contains(others[m], c)
  /\ \A m \in Node : replying'[m] \subseteq replying[m]

\* Each part of LinkInv, by a step after which there are no more connections and replies.
LEMMA OneListLess ==
  ASSUME OneList, Shrinks
  PROVE  OneList'
<1> SUFFICES ASSUME NEW m \in Node, NEW k \in Node
             PROVE  /\ \A c : Contains(others'[m], c) /\ Contains(others'[k], c) => m = k
                    /\ \A r \in replying'[k] : Contains(others'[m], r.to) => m = k
                    /\ \A r \in replying'[m], s \in replying'[k] : r.to = s.to => m = k /\ r = s
  BY Zenon DEF OneList
<1>1. \A x \in Node : \A r \in replying'[x] : r \in replying[x]
  BY DEF Shrinks
<1>2. \A c : Contains(others'[m], c) /\ Contains(others'[k], c) => m = k
  BY Zenon DEF OneList, Shrinks
<1>3. \A r \in replying'[k] : Contains(others'[m], r.to) => m = k
  BY <1>1, Zenon DEF OneList, Shrinks
<1>4. \A r \in replying'[m], s \in replying'[k] : r.to = s.to => m = k /\ r = s
  BY <1>1, Zenon DEF OneList
<1> QED BY <1>2, <1>3, <1>4

LEMMA OneReplyLess ==
  ASSUME OneReply, Shrinks,
         \A n \in Node : \/ cur'[n] = 0
                         \/ \A m \in Node : \A r \in replying'[m] : r.to # Mine(n)'
                         \/ role'[n] = role[n] /\ cur'[n] = cur[n] /\ (NoOk(n) => NoOk(n)')
  PROVE  OneReply'
<1> SUFFICES ASSUME NEW n \in Node, NEW m \in Node, NEW r \in replying'[m], cur'[n] # 0, r.to = Mine(n)'
             PROVE  role'[n] = "starting" /\ NoOk(n)'
  BY Zenon DEF OneReply
<1>1. role'[n] = role[n] /\ cur'[n] = cur[n] /\ (NoOk(n) => NoOk(n)')
  BY Zenon
<1>2. r \in replying[m]
  BY DEF Shrinks
<1>3. r.to = Mine(n)
  BY <1>1, Zenon DEF Mine
<1> QED BY <1>1, <1>2, <1>3, Zenon DEF OneReply

LEMMA PlainLess ==
  ASSUME Plain, Shrinks,
         \A n \in Node : \/ \A m \in Node : ~OnList(n, m)'
                         \/ cur'[n] = cur[n] /\ (AllHarmless(n) => AllHarmless(n)')
  PROVE  Plain'
<1> SUFFICES ASSUME NEW n \in Node, NEW m \in Node, OnList(n, m)' PROVE AllHarmless(n)'
  BY Zenon DEF Plain
<1>1. cur'[n] = cur[n] /\ (AllHarmless(n) => AllHarmless(n)')
  BY Zenon
<1>2. Mine(n)' = Mine(n)
  BY <1>1, Zenon DEF Mine
<1>3. OnList(n, m)
  BY <1>1, <1>2, Zenon DEF OnList, Shrinks
<1> QED BY <1>1, <1>3, Zenon DEF Plain

LEMMA ServedLess ==
  ASSUME Served, \A m \in Node : backlog'[m] \subseteq backlog[m],
         \A n \in Node : role'[n] # "follower" \/ (role'[n] = role[n] /\ cur'[n] = cur[n])
  PROVE  Served'
<1> SUFFICES ASSUME NEW n \in Node, role'[n] = "follower"
             PROVE  cur'[n] # 0 /\ \A m \in Node : Mine(n)' \notin backlog'[m]
  BY Zenon DEF Served
<1>1. role[n] = "follower" /\ cur'[n] = cur[n]
  BY Zenon
<1>2. Mine(n)' = Mine(n)
  BY <1>1, Zenon DEF Mine
<1>3. cur[n] # 0 /\ \A m \in Node : Mine(n) \notin backlog[m]
  BY <1>1, Zenon DEF Served
<1> QED BY <1>1, <1>2, <1>3

LEMMA SameNodeKeeps ==
  ASSUME NEW n, SameNode(n)
  PROVE  /\ role'[n] = role[n] /\ cur'[n] = cur[n] /\ Mine(n)' = Mine(n)
         /\ NoOk(n) => NoOk(n)'
         /\ AllHarmless(n) => AllHarmless(n)'
BY Zenon DEF SameNode, Mine, NoOk, AllHarmless

\* The usual step: each node is as it was or has closed its connection.
LEMMA LinksLess ==
  ASSUME LinkInv, Shrinks, \A m \in Node : backlog'[m] \subseteq backlog[m],
         \A n \in Node : SameNode(n) \/ (cur'[n] = 0 /\ role'[n] # "follower")
  PROVE  Served' /\ OneList' /\ OneReply' /\ Plain'
<1>1. OneList'
  BY OneListLess, Zenon DEF LinkInv
<1>2. OneReply'
  BY SameNodeKeeps, OneReplyLess, Zenon DEF LinkInv
<1>3. Plain'
  <2>1. \A n \in Node : cur'[n] = 0 => \A m \in Node : ~OnList(n, m)'
    BY Zenon DEF OnList
  <2> QED BY <2>1, SameNodeKeeps, PlainLess, Zenon DEF LinkInv
<1>4. Served'
  BY SameNodeKeeps, ServedLess, Zenon DEF LinkInv
<1> QED BY <1>1, <1>2, <1>3, <1>4

(***************************************************************************)
(* Steps outside the lists                                                  *)
(***************************************************************************)
\* Nothing that matters here changes; a role changes only without a connection.
Still ==
  /\ UNCHANGED <<cur, inbox, nonLeaderNodes, others, nodeConnectionChange, beat, left, backlog, replying>>
  /\ \A n \in Node : \/ role'[n] = role[n]
                     \/ cur[n] = 0 /\ role[n] # "follower" /\ role'[n] # "follower"
  /\ \A n \in Node : crawlID'[n] \in CrawlIDs \/ crawlID'[n] = crawlID[n]

\* A still step keeps the invariant and tells nobody anything else.
LEMMA StillKeeps ==
  ASSUME LinkInv, Still
  PROVE  LinkInv' /\ \A m \in Node : Quiet(m)
<1>1. \A n \in Node : SameNode(n) \/ (cur'[n] = 0 /\ role'[n] # "follower")
  BY Zenon DEF Still, SameNode
<1>2. Shrinks /\ \A m \in Node : backlog'[m] \subseteq backlog[m]
  BY DEF Still, Shrinks
<1>3. Served' /\ OneList' /\ OneReply' /\ Plain'
  BY <1>1, <1>2, LinksLess, Zenon
<1>4. Ids'
  <2> SUFFICES ASSUME NEW m \in Node
               PROVE  /\ role'[m] # "follower" => crawlID'[m] \in CrawlIDs
                      /\ beat'[m] # <<>> => beat'[m][1] \in CrawlIDs
                      /\ Whole(nodeConnectionChange'[m])
    BY Zenon DEF Ids
  <2>1. role'[m] # "follower" => role[m] # "follower"
    BY Zenon DEF Still
  <2>2. role'[m] # "follower" => crawlID'[m] \in CrawlIDs
    BY <2>1, Zenon DEF Still, LinkInv, Ids
  <2> QED BY <2>2, Zenon DEF Still, LinkInv, Ids
<1>5. nonLeaderNodes' \in [Node -> Seq(Pair)]
  BY DEF LinkInv, Still
<1>6. ASSUME NEW m \in Node PROVE Quiet(m)
  <2>1. SameLead(m) /\ replying'[m] \subseteq replying[m]
    BY <1>2, Zenon DEF Still, SameLead, Shrinks
  <2>2. \A n \in Node : cur'[n] = 0 => ~OnList(n, m)'
    BY Zenon DEF OnList
  <2> QED BY <1>1, <2>1, <2>2, QuietFrame, Zenon
<1> QED BY <1>3, <1>4, <1>5, <1>6, Zenon DEF LinkInv

\* The steps that are still.
LEMMA StillSteps ==
  ASSUME Typed, Search, NEW n \in Node,
         \/ Boot(n) \/ Refused(n) \/ AssumeLeadership(n) \/ CrawlDone(n) \/ PassRequest(n) \/ PassAnswer(n)
         \/ UNCHANGED <<election, links, follow, crawlID, lead, serve>>
  PROVE  Still
<1>1. UNCHANGED <<cur, inbox, nonLeaderNodes, others, nodeConnectionChange, beat, left, backlog, replying>>
  BY Zenon DEF Boot, Refused, AssumeLeadership, CrawlDone, PassRequest, PassAnswer, links, follow, lead, serve
<1>2. role \in [Node -> {"down", "starting", "leader", "follower"}] /\ crawlID \in [Node -> Field]
  BY DEF Typed, TypeOK
<1>3. \A x \in Node : \/ role'[x] = role[x]
                      \/ cur[x] = 0 /\ role[x] # "follower" /\ role'[x] # "follower"
  <2>1. CASE Boot(n)
    <3>1. role[n] = "down" /\ role' = [role EXCEPT ![n] = "starting"]
      BY <2>1, Zenon DEF Boot
    <3>2. cur[n] = 0
      BY <3>1, Zenon DEF Search
    <3>3. \A x \in Node : role'[x] = role[x] \/ (x = n /\ role[x] = "down" /\ role'[x] = "starting")
      BY <1>2, <3>1
    <3>4. "down" # "follower" /\ "starting" # "follower"
      OBVIOUS
    <3> QED BY <3>2, <3>3, <3>4, Zenon
  <2>2. CASE AssumeLeadership(n)
    <3>1. role[n] = "starting" /\ cur[n] = 0 /\ role' = [role EXCEPT ![n] = "leader"]
      BY <2>2, Zenon DEF AssumeLeadership
    <3>2. \A x \in Node : role'[x] = role[x] \/ (x = n /\ role[x] = "starting" /\ role'[x] = "leader")
      BY <1>2, <3>1
    <3>3. "leader" # "follower" /\ "starting" # "follower"
      OBVIOUS
    <3> QED BY <3>1, <3>2, <3>3, Zenon
  <2>3. CASE role' = role
    BY <2>3, Zenon
  <2>4. \/ Boot(n) \/ AssumeLeadership(n) \/ role' = role
    BY Zenon DEF Refused, CrawlDone, PassRequest, PassAnswer, election
  <2> QED BY <2>1, <2>2, <2>3, <2>4, Zenon
<1>4. \A x \in Node : crawlID'[x] \in CrawlIDs \/ crawlID'[x] = crawlID[x]
  <2>1. CASE CrawlDone(n)
    <3>1. PICK c \in CrawlIDs : crawlID' = [crawlID EXCEPT ![n] = c]
      BY <2>1, Zenon DEF CrawlDone
    <3> QED BY <1>2, <3>1
  <2>2. CASE crawlID' = crawlID
    BY <2>2, Zenon
  <2>3. CrawlDone(n) \/ crawlID' = crawlID
    BY Zenon DEF Boot, Refused, AssumeLeadership, PassRequest, PassAnswer
  <2> QED BY <2>1, <2>2, <2>3, Zenon
<1> QED BY <1>1, <1>3, <1>4, Zenon DEF Still

(***************************************************************************)
(* The end of a process                                                     *)
(***************************************************************************)
LEMMA DieFacts ==
  ASSUME Typed, LinkInv, NEW n \in Node, Die(n)
  PROVE  /\ \A x \in Node \ {n} : /\ SameNode(x) /\ SameLead(x) /\ crawlID'[x] = crawlID[x]
                                  /\ open'[x] = open[x]
                                  /\ backlog'[x] = backlog[x] /\ replying'[x] = replying[x]
         /\ role'[n] = "down" /\ cur'[n] = 0 /\ others'[n] = <<>> /\ nodeConnectionChange'[n] = <<>>
         /\ beat'[n] = <<>> /\ backlog'[n] = {} /\ replying'[n] = {} /\ crawlID'[n] = FirstCrawlID
         /\ nonLeaderNodes' \in [Node -> Seq(Pair)]
<1>1. \A x \in Node \ {n} : /\ role'[x] = role[x] /\ cur'[x] = cur[x] /\ crawlID'[x] = crawlID[x]
                            /\ open'[x] = open[x]
                            /\ backlog'[x] = backlog[x] /\ replying'[x] = replying[x]
  BY DEF Die, Typed, TypeOK
<1>2. \A x \in Node \ {n} : inbox'[x] = inbox[x] /\ others'[x] = others[x]
                            /\ nodeConnectionChange'[x] = nodeConnectionChange[x] /\ beat'[x] = beat[x]
  BY DEF Die, Typed
<1>3. left \in [Node -> Nat] /\ nonLeaderNodes \in [Node -> Seq(Pair)]
  BY DEF Typed, TypeOK, LinkInv
<1>4. \A x \in Node \ {n} : left'[x] = left[x]
  BY <1>3 DEF Die
<1> DEFINE D == Seq(Pair)
<1>5. nonLeaderNodes \in [Node -> D] /\ <<>> \in D
  BY <1>3
<1> HIDE DEF D
<1>6. (\A x \in Node \ {n} : nonLeaderNodes'[x] = nonLeaderNodes[x]) /\ nonLeaderNodes' \in [Node -> D]
  BY <1>5 DEF Die
<1>7. /\ role'[n] = "down" /\ cur'[n] = 0 /\ crawlID'[n] = FirstCrawlID
      /\ backlog'[n] = {} /\ replying'[n] = {}
  BY DEF Die, Typed, TypeOK
<1>8. others'[n] = <<>> /\ nodeConnectionChange'[n] = <<>> /\ beat'[n] = <<>>
  BY DEF Die, Typed
<1> QED BY <1>1, <1>2, <1>4, <1>6, <1>7, <1>8, Zenon DEF D, SameNode, SameLead

\* A process ends: the others are told what they would have been told.
LEMMA LinkDie ==
  ASSUME Typed, LinkInv, NEW n \in Node, Die(n)
  PROVE  LinkInv' /\ \A m \in Node \ {n} : Quiet(m)
<1>1. /\ \A x \in Node \ {n} : /\ SameNode(x) /\ SameLead(x) /\ crawlID'[x] = crawlID[x]
                               /\ backlog'[x] = backlog[x] /\ replying'[x] = replying[x]
      /\ role'[n] = "down" /\ cur'[n] = 0 /\ others'[n] = <<>> /\ nodeConnectionChange'[n] = <<>>
      /\ beat'[n] = <<>> /\ backlog'[n] = {} /\ replying'[n] = {} /\ crawlID'[n] = FirstCrawlID
      /\ nonLeaderNodes' \in [Node -> Seq(Pair)]
  BY DieFacts, Zenon
<1>2. \A x \in Node : SameNode(x) \/ (cur'[x] = 0 /\ role'[x] # "follower")
  <2>1. "down" # "follower"
    OBVIOUS
  <2> QED BY <1>1, <2>1
<1>3. \A c : ~Contains(others'[n], c)
  <2>1. \A i \in 1..Len(<<>>) : FALSE
    OBVIOUS
  <2> QED BY <1>1, <2>1, Zenon DEF Contains
<1>4. Shrinks
  <2>1. ASSUME NEW m \in Node, NEW c, Contains(others'[m], c) PROVE Contains(others[m], c)
    <3>1. m \in Node \ {n}
      BY <1>3, <2>1
    <3> QED BY <1>1, <2>1, <3>1, LinkedSame, Zenon DEF SameLead
  <2>2. \A m \in Node : replying'[m] \subseteq replying[m]
    BY <1>1
  <2> QED BY <2>1, <2>2, Zenon DEF Shrinks
<1>5. \A m \in Node : backlog'[m] \subseteq backlog[m]
  BY <1>1
<1>6. Served' /\ OneList' /\ OneReply' /\ Plain'
  BY <1>2, <1>4, <1>5, LinksLess, Zenon
<1>7. Ids'
  <2>1. Whole(<<>>)
    <3>1. 0 \in Nat /\ Len(<<>>) = 3 * 0
      OBVIOUS
    <3> QED BY <3>1, Zenon DEF Whole
  <2>2. ASSUME NEW m \in Node
        PROVE  /\ role'[m] # "follower" => crawlID'[m] \in CrawlIDs
               /\ beat'[m] # <<>> => beat'[m][1] \in CrawlIDs
               /\ Whole(nodeConnectionChange'[m])
    <3>1. CASE m = n
      BY <1>1, <2>1, <3>1, CrawlAssumption, Zenon
    <3>2. CASE m # n
      <4>1. m \in Node \ {n}
        BY <3>2
      <4> QED BY <1>1, <4>1, Zenon DEF SameNode, SameLead, LinkInv, Ids
    <3> QED BY <3>1, <3>2
  <2> QED BY <2>2, Zenon DEF Ids
<1>8. ASSUME NEW m \in Node \ {n} PROVE Quiet(m)
  <2>1. SameLead(m) /\ replying'[m] \subseteq replying[m]
    BY <1>1
  <2>2. \A x \in Node : cur'[x] = 0 => ~OnList(x, m)'
    BY Zenon DEF OnList
  <2> QED BY <1>2, <2>1, <2>2, QuietFrame, Zenon
<1> QED BY <1>1, <1>6, <1>7, <1>8, Zenon DEF LinkInv

\* A leader that is gone has told nobody anything.
LEMMA DeadTellsNothing ==
  ASSUME Typed, LinkInv, NEW n \in Node, Die(n)
  PROVE  Ghostless(n)' /\ Unforgetting(n)'
<1>1. others'[n] = <<>> /\ nodeConnectionChange'[n] = <<>> /\ beat'[n] = <<>>
  BY DieFacts, Zenon
<1>2. /\ \A c : ~Contains(others'[n], c)
      /\ \A a : ~Living(n, a)'
  <2>1. \A i \in 1..Len(<<>>) : FALSE
    OBVIOUS
  <2> QED BY <1>1, <2>1, Zenon DEF Contains, Living
<1>3. \A x \in Node : \A l, q : ~Script(x, n, l, q)'
  BY <1>2, Zenon DEF Script, OnList
<1>4. \A a : ~Gains(n, a)'
  <2>1. ToTell(n)' \in Message /\ Len(ToTell(n)') < 4
    <3>1. ToTell(n)' = <<"">> \o <<>>
      BY <1>1, Zenon DEF ToTell
    <3>2. "" \in Field
      BY DEF Field, Words
    <3>3. ASSUME NEW x \in Field PROVE <<x>> \o <<>> \in Seq(Field) /\ Len(<<x>> \o <<>>) < 4
      OBVIOUS
    <3> QED BY <3>1, <3>2, <3>3, Zenon DEF Message
  <2>2. \A a : ~Adds(ToTell(n)', a)
    BY <2>1, SaysNothing
  <2> QED BY <1>1, <2>2, Zenon DEF Gains
<1> QED BY <1>2, <1>3, <1>4, Zenon DEF Ghostless, Unforgetting

(***************************************************************************)
(* connectToLeader                                                          *)
(***************************************************************************)
LEMMA DialFacts ==
  ASSUME Typed, NEW n \in Node, Dial(n)
  PROVE  /\ role[n] = "starting" /\ cur'[n] = dialled[n] + 1 /\ inbox'[n] = <<>>
         /\ open' = [open EXCEPT ![n] = @ \cup {dialled[n] + 1}]
         /\ UNCHANGED <<role, crawlID, others, nodeConnectionChange, beat, left, replying, nonLeaderNodes, started, restarts>>
         /\ \A x \in Node : x # n => SameNode(x)
         /\ \A m \in Node : \A c \in backlog'[m] :
              c \in backlog[m] \/ c = [node |-> n, conn |-> dialled[n] + 1]
<1>1. /\ role[n] = "starting" /\ cur' = [cur EXCEPT ![n] = dialled[n] + 1]
      /\ inbox' = [inbox EXCEPT ![n] = <<>>]
      /\ open' = [open EXCEPT ![n] = @ \cup {dialled[n] + 1}]
      /\ backlog' = [backlog EXCEPT ![target[n][1]] = @ \cup {[node |-> n, conn |-> dialled[n] + 1]}]
      /\ UNCHANGED <<role, crawlID, others, nodeConnectionChange, beat, left, replying, nonLeaderNodes, started, restarts>>
  BY Zenon DEF Dial, Dialling, election, follow, lead, world
<1>2. cur'[n] = dialled[n] + 1 /\ \A x \in Node : x # n => cur'[x] = cur[x]
  BY <1>1 DEF Typed, TypeOK
<1>3. inbox'[n] = <<>> /\ \A x \in Node : x # n => inbox'[x] = inbox[x]
  BY <1>1 DEF Typed
<1> DEFINE new == [node |-> n, conn |-> dialled[n] + 1]
           to == target[n][1]
<1>4. backlog' = [backlog EXCEPT ![to] = @ \cup {new}]
  BY <1>1
<1> HIDE DEF new, to
<1>5. \A m \in Node : \A c \in backlog'[m] : c \in backlog[m] \/ c = new
  BY <1>4 DEF Typed
<1>6. \A x \in Node : x # n => SameNode(x)
  BY <1>1, <1>2, <1>3, Zenon DEF SameNode
<1> QED BY <1>1, <1>2, <1>3, <1>5, <1>6 DEF new

\* A new connection is on no list.
LEMMA LinkDial ==
  ASSUME Typed, Places, LinkInv, NEW n \in Node, Dial(n)
  PROVE  LinkInv' /\ \A m \in Node : Quiet(m)
<1> DEFINE new == [node |-> n, conn |-> dialled[n] + 1]
<1>1. /\ role[n] = "starting" /\ cur'[n] = dialled[n] + 1 /\ inbox'[n] = <<>>
      /\ UNCHANGED <<role, crawlID, others, nodeConnectionChange, beat, left, replying, nonLeaderNodes>>
      /\ \A x \in Node : x # n => SameNode(x)
      /\ \A m \in Node : \A c \in backlog'[m] : c \in backlog[m] \/ c = new
  BY DialFacts, Zenon
<1>2. new.node = n /\ new.conn = dialled[n] + 1 /\ Mine(n)' = new
  BY <1>1, Zenon DEF Mine
<1> HIDE DEF new
<1>3. dialled[n] \in Nat
  BY DEF Typed, TypeOK
<1>4. ~(new.conn <= dialled[new.node])
  BY <1>2, <1>3
<1>5. \A m \in Node : ~Contains(others[m], new)
  BY <1>4, Zenon DEF Places, Listed, Contains
<1>6. \A m \in Node : \A r \in replying[m] : r.to # new
  BY <1>4, Zenon DEF Places, Replies
<1>7. Shrinks
  BY <1>1, Zenon DEF Shrinks
<1>8. \A m \in Node : ~OnList(n, m)'
  BY <1>1, <1>2, <1>5, Zenon DEF OnList
<1>9. OneList' /\ Plain'
  BY <1>1, <1>7, <1>8, SameNodeKeeps, OneListLess, PlainLess, Zenon DEF LinkInv
<1>10. OneReply'
  BY <1>1, <1>2, <1>6, <1>7, SameNodeKeeps, OneReplyLess, Zenon DEF LinkInv
<1>11. Served'
  <2> SUFFICES ASSUME NEW x \in Node, role'[x] = "follower"
               PROVE  cur'[x] # 0 /\ \A m \in Node : Mine(x)' \notin backlog'[m]
    BY Zenon DEF Served
  <2>1. "starting" # "follower"
    OBVIOUS
  <2>2. x # n /\ role[x] = "follower"
    BY <1>1, <2>1, Zenon
  <2>3. Mine(x)' = Mine(x) /\ cur'[x] = cur[x] /\ Mine(x).node = x
    BY <1>1, <2>2, SameNodeKeeps, Zenon DEF Mine
  <2>4. Mine(x) # new
    BY <1>2, <2>2, <2>3, Zenon
  <2>5. cur[x] # 0 /\ \A m \in Node : Mine(x) \notin backlog[m]
    BY <2>2, Zenon DEF LinkInv, Served
  <2> QED BY <1>1, <2>3, <2>4, <2>5, Zenon
<1>12. Ids' /\ nonLeaderNodes' \in [Node -> Seq(Pair)]
  BY <1>1, Zenon DEF LinkInv, Ids
<1>13. ASSUME NEW m \in Node PROVE Quiet(m)
  <2>1. SameLead(m) /\ replying'[m] \subseteq replying[m]
    BY <1>1, Zenon DEF SameLead
  <2> QED BY <1>1, <1>8, <2>1, QuietFrame, Zenon
<1> QED BY <1>9, <1>10, <1>11, <1>12, <1>13, Zenon DEF LinkInv

\* splitStringOn keeps the first field.
LEMMA FieldsHead ==
  ASSUME NEW m \in Message, Len(m) >= 2
  PROVE  Fields(m)[1] = m[1]
<1>1. m \in Seq(Field) /\ Len(m) \in Nat
  BY DEF Message
<1>2. Len(m) >= 1 /\ 1 \in 1..(Len(m) - 1)
  BY <1>1
<1>3. \A i \in 1..(Len(m) - 1) : Front(m)[i] = m[i]
  BY <1>1, <1>2, FrontSeq
<1> QED BY <1>2, <1>3, Zenon DEF Fields

\* What the read of a reply does: n follows, or it has closed its connection.
LEMMA ReadReplyFacts ==
  ASSUME MaxRead = 1, Typed, LinkInv, NEW n \in Node, ReadReply(n)
  PROVE  /\ Trying(n) /\ Len(inbox[n]) >= 1
         /\ UNCHANGED <<crawlID, others, nodeConnectionChange, beat, left, replying, backlog, started, restarts>>
         /\ \A x \in Node : x # n => SameNode(x)
         /\ \/ /\ inbox[n][1][1] = "ok" /\ role'[n] = "follower" /\ cur'[n] = cur[n] /\ open' = open
               /\ inbox'[n] = Tail(inbox[n])
               /\ nonLeaderNodes' = [nonLeaderNodes EXCEPT ![n] = InitialNodes(Fields(inbox[n][1]))]
            \/ /\ cur'[n] = 0 /\ role'[n] = "starting" /\ nonLeaderNodes' = nonLeaderNodes
               /\ open' = open \/ (/\ open' = [open EXCEPT ![n] = @ \ {cur[n]}]
                                   /\ inbox[n][1][1] # "ok" /\ Len(Fields(inbox[n][1])) = 2)
<1>1. /\ role[n] = "starting" /\ cur[n] # 0
      /\ UNCHANGED <<crawlID, others, nodeConnectionChange, beat, left, replying, backlog, started, restarts>>
  BY Zenon DEF ReadReply, lead, serve, world
<1>2. PICK k \in Readable(n) :
        /\ \/ Received(n, k)[1] = "ok" /\ Joined(n, Received(n, k))
           \/ Received(n, k)[1] # "ok" /\ Len(Received(n, k)) = 2 /\ Redirected(n, Received(n, k))
           \/ Received(n, k)[1] # "ok" /\ Len(Received(n, k)) # 2 /\ Repeated(n)
        /\ inbox' = [inbox EXCEPT ![n] = SubSeq(@, k + 1, Len(@))]
  BY Zenon DEF ReadReply
<1> DEFINE f == Fields(inbox[n][1])
<1>3. Received(n, k) = f /\ Len(inbox[n]) >= 1 /\ SubSeq(inbox[n], k + 1, Len(inbox[n])) = Tail(inbox[n])
  BY OneRead, Zenon
<1>4. inbox'[n] = Tail(inbox[n]) /\ \A x \in Node : x # n => inbox'[x] = inbox[x]
  <2>1. inbox' = [inbox EXCEPT ![n] = SubSeq(inbox[n], k + 1, Len(inbox[n]))]
    BY <1>2
  <2>2. inbox' = [inbox EXCEPT ![n] = Tail(inbox[n])]
    BY <1>3, <2>1, Zenon
  <2> QED BY <2>2 DEF Typed
<1>5. f[1] = inbox[n][1][1]
  <2>1. 1 \in 1..Len(inbox[n])
    <3>1. inbox[n] \in Seq(Message) /\ Len(inbox[n]) \in Nat
      BY DEF Typed
    <3> QED BY <1>3, <3>1
  <2>2. inbox[n][1] \in Message /\ Len(inbox[n][1]) >= 2
    BY <2>1, InboxMessage, Zenon
  <2> QED BY <2>2, FieldsHead, Zenon
<1> HIDE DEF f
<1>6. role \in [Node -> {"down", "starting", "leader", "follower"}] /\ cur \in [Node -> Nat]
  BY DEF Typed, TypeOK
<1>7. Trying(n)
  BY <1>1, Zenon DEF Trying
<1>8. CASE f[1] = "ok" /\ Joined(n, f)
  <2>1. /\ role' = [role EXCEPT ![n] = "follower"] /\ UNCHANGED <<cur, open>>
        /\ nonLeaderNodes' = [nonLeaderNodes EXCEPT ![n] = InitialNodes(f)]
    BY <1>8, Zenon DEF Joined
  <2>2. role'[n] = "follower" /\ \A x \in Node : x # n => role'[x] = role[x]
    BY <1>6, <2>1
  <2>3. \A x \in Node : x # n => nonLeaderNodes'[x] = nonLeaderNodes[x]
    <3> DEFINE D == Seq(Pair)
    <3>1. nonLeaderNodes \in [Node -> D]
      BY DEF LinkInv
    <3> HIDE DEF D
    <3> QED BY <2>1, <3>1
  <2>4. \A x \in Node : x # n => SameNode(x)
    BY <1>4, <2>1, <2>2, <2>3, Zenon DEF SameNode
  <2> QED BY <1>1, <1>3, <1>4, <1>5, <1>7, <1>8, <2>1, <2>2, <2>4, Zenon DEF f
<1>9. CASE f[1] # "ok" /\ ((Len(f) = 2 /\ Redirected(n, f)) \/ (Len(f) # 2 /\ Repeated(n)))
  <2>1. /\ UNCHANGED <<role, nonLeaderNodes>> /\ cur' = [cur EXCEPT ![n] = 0]
        /\ open' = open \/ (open' = [open EXCEPT ![n] = @ \ {cur[n]}] /\ Len(f) = 2)
    BY <1>9, Zenon DEF Redirected, Repeated, follow
  <2>2. cur'[n] = 0 /\ \A x \in Node : x # n => cur'[x] = cur[x]
    BY <1>6, <2>1
  <2>3. \A x \in Node : x # n => SameNode(x)
    BY <1>4, <2>1, <2>2, Zenon DEF SameNode
  <2>4. role'[n] = "starting"
    BY <1>1, <2>1, Zenon
  <2> QED BY <1>1, <1>3, <1>5, <1>7, <1>9, <2>1, <2>2, <2>3, <2>4, Zenon DEF f
<1> QED BY <1>2, <1>3, <1>8, <1>9, Zenon

\* A script that waits for its reply goes on as that of a follower.
LEMMA LinkReadReply ==
  ASSUME MaxRead = 1, Typed, Dialled, LinkInv, NEW n \in Node, ReadReply(n)
  PROVE  LinkInv' /\ \A m \in Node : Quiet(m)
<1>1. /\ Trying(n) /\ Len(inbox[n]) >= 1
      /\ UNCHANGED <<crawlID, others, nodeConnectionChange, beat, left, replying, backlog>>
      /\ \A x \in Node : x # n => SameNode(x)
      /\ \/ /\ inbox[n][1][1] = "ok" /\ role'[n] = "follower" /\ cur'[n] = cur[n]
            /\ inbox'[n] = Tail(inbox[n])
            /\ nonLeaderNodes' = [nonLeaderNodes EXCEPT ![n] = InitialNodes(Fields(inbox[n][1]))]
         \/ /\ cur'[n] = 0 /\ role'[n] = "starting" /\ nonLeaderNodes' = nonLeaderNodes
  BY ReadReplyFacts, Zenon
<1>2. Shrinks /\ \A m \in Node : backlog'[m] \subseteq backlog[m]
  BY <1>1, Zenon DEF Shrinks
<1>3. \A m \in Node : SameLead(m) /\ replying'[m] \subseteq replying[m]
  BY <1>1, Zenon DEF SameLead
<1>4. Ids'
  <2>1. \A x \in Node : role'[x] # "follower" => role[x] # "follower"
    <3>1. "starting" # "follower"
      OBVIOUS
    <3> QED BY <1>1, <3>1, Zenon DEF SameNode, Trying
  <2> QED BY <1>1, <2>1, Zenon DEF LinkInv, Ids
<1>5. CASE cur'[n] = 0 /\ role'[n] = "starting" /\ nonLeaderNodes' = nonLeaderNodes
  <2>1. "starting" # "follower"
    OBVIOUS
  <2>2. \A x \in Node : SameNode(x) \/ (cur'[x] = 0 /\ role'[x] # "follower")
    BY <1>1, <1>5, <2>1, Zenon
  <2>3. Served' /\ OneList' /\ OneReply' /\ Plain'
    BY <1>2, <2>2, LinksLess, Zenon
  <2>4. \A m \in Node : \A x \in Node : cur'[x] = 0 => ~OnList(x, m)'
    BY Zenon DEF OnList
  <2>5. \A m \in Node : Quiet(m)
    BY <1>3, <2>2, <2>4, QuietFrame, Zenon
  <2>6. nonLeaderNodes' \in [Node -> Seq(Pair)]
    BY <1>5 DEF LinkInv
  <2> QED BY <1>4, <2>3, <2>5, <2>6, Zenon DEF LinkInv
<1>6. CASE /\ inbox[n][1][1] = "ok" /\ role'[n] = "follower" /\ cur'[n] = cur[n]
           /\ inbox'[n] = Tail(inbox[n])
           /\ nonLeaderNodes' = [nonLeaderNodes EXCEPT ![n] = InitialNodes(Fields(inbox[n][1]))]
  <2> DEFINE f == Fields(inbox[n][1])
             D == Seq(Pair)
  <2>1. inbox[n] \in Seq(Message) /\ Len(inbox[n]) \in Nat
    BY DEF Typed
  <2>2. 1 \in 1..Len(inbox[n]) /\ inbox[n] # <<>>
    BY <1>1, <2>1
  <2>3. InitialNodes(f) \in D
    <3>1. inbox[n][1] \in Message /\ Len(inbox[n][1]) >= 2
      BY <2>2, InboxMessage, Zenon
    <3>2. f \in Message
      BY <3>1, FieldsOfMessage, Zenon
    <3> QED BY <3>2, InitialNodesType
  <2>4. nonLeaderNodes \in [Node -> D]
    BY DEF LinkInv
  <2> HIDE DEF f, D
  <2>5. nonLeaderNodes' \in [Node -> D] /\ nonLeaderNodes'[n] = InitialNodes(f)
    <3>1. nonLeaderNodes' = [nonLeaderNodes EXCEPT ![n] = InitialNodes(f)]
      BY <1>6, Zenon DEF f
    <3> QED BY <2>3, <2>4, <3>1
  <2>6. Mine(n)' = Mine(n) /\ (AllHarmless(n) => AllHarmless(n)')
    BY <1>1, <1>6, InboxTail, Zenon DEF Mine
  <2>7. OneList' /\ Plain'
    BY <1>1, <1>2, <1>6, <2>6, SameNodeKeeps, OneListLess, PlainLess, Zenon DEF LinkInv
  <2>8. cur[n] # 0 /\ role[n] = "starting"
    BY <1>1, Zenon DEF Trying
  <2>9. \A m \in Node : \A r \in replying'[m] : r.to # Mine(n)'
    <3>1. ~NoOk(n)
      BY <1>6, <2>2, Zenon DEF NoOk
    <3> QED BY <1>1, <2>6, <2>8, <3>1, Zenon DEF LinkInv, OneReply
  <2>10. OneReply'
    BY <1>1, <1>2, <2>9, SameNodeKeeps, OneReplyLess, Zenon DEF LinkInv
  <2>11. \A m \in Node : Mine(n) \notin backlog[m]
    BY <1>1, <2>2, Zenon DEF Dialled
  <2>12. Served'
    <3> SUFFICES ASSUME NEW x \in Node, role'[x] = "follower"
                 PROVE  cur'[x] # 0 /\ \A m \in Node : Mine(x)' \notin backlog'[m]
      BY Zenon DEF Served
    <3>1. CASE x = n
      BY <1>1, <1>6, <2>6, <2>8, <2>11, <3>1, Zenon
    <3>2. CASE x # n
      <4>1. role[x] = "follower" /\ cur'[x] = cur[x] /\ Mine(x)' = Mine(x)
        BY <1>1, <3>2, SameNodeKeeps, Zenon
      <4> QED BY <1>1, <4>1, Zenon DEF LinkInv, Served
    <3> QED BY <3>1, <3>2
  <2>13. ASSUME NEW m \in Node PROVE Same(n, m)
    <3>1. \A l, q, a : Stays(n, m, l, q, a)' <=> Stays(n, m, l, q, a)
      <4>1. Unsent(m, Mine(n))' <=> Unsent(m, Mine(n))
        BY <1>3, <1>6, UnsentSame, Zenon
      <4> QED BY <1>3, <4>1, StaysSame, ToldSame, Zenon DEF SameLead
    <3>2. ASSUME NEW l, NEW q, Script(n, m, l, q)' PROVE Script(n, m, l, q)
      <4>1. OnList(n, m)
        BY <1>1, <1>6, <2>6, <3>2, Zenon DEF Script, OnList
      <4>2. Following(n, l, q)'
        <5>1. "starting" # "follower"
          OBVIOUS
        <5> QED BY <1>6, <3>2, <5>1, Zenon DEF Script, Answered, Promised
      <4>3. l = InitialNodes(f) /\ q = Tail(inbox[n])
        BY <1>6, <2>5, <4>2, Zenon DEF Following
      <4>4. Answered(n, l, q)
        BY <1>6, <2>2, <2>8, <4>3, Zenon DEF Answered, f
      <4> QED BY <4>1, <4>4, Zenon DEF Script
    <3> QED BY <3>1, <3>2, Zenon DEF Same
  <2>14. \A m \in Node : Quiet(m)
    BY <1>1, <1>3, <2>13, QuietFrame, Zenon
  <2> QED BY <1>4, <2>5, <2>7, <2>10, <2>12, <2>14, Zenon DEF LinkInv, D
<1> QED BY <1>1, <1>5, <1>6, Zenon

(***************************************************************************)
(* Messages that are read, and those that come                              *)
(***************************************************************************)
Unread(q) == q \in Seq(Message) /\ \A i \in 1..Len(q) : Len(q[i]) >= 2

\* What the messages of an inbox are read as.
LEMMA ParsedSeq ==
  ASSUME NEW q, Unread(q)
  PROVE  /\ Parsed(q) \in Seq(Message) /\ Len(Parsed(q)) = Len(q)
         /\ \A i \in 1..Len(q) : Parsed(q)[i] = Fields(q[i])
<1>1. q \in Seq(Message) /\ Len(q) \in Nat /\ DOMAIN q = 1..Len(q)
  BY DEF Unread
<1>2. \A i \in 1..Len(q) : q[i] \in Message
  BY <1>1
<1>3. \A i \in 1..Len(q) : Fields(q[i]) \in Message
  BY <1>2, FieldsOfMessage, Zenon DEF Unread
<1>4. Parsed(q) = [i \in 1..Len(q) |-> Fields(q[i])]
  BY <1>1, Zenon DEF Parsed
<1> DEFINE g(i) == Fields(q[i])
<1>5. \A i \in 1..Len(q) : g(i) \in Message
  BY <1>3
<1>6. Parsed(q) = [i \in 1..Len(q) |-> g(i)]
  BY <1>4
<1> HIDE DEF g
<1>7. [i \in 1..Len(q) |-> g(i)] \in Seq(Message) /\ Len([i \in 1..Len(q) |-> g(i)]) = Len(q)
  BY <1>1, <1>5
<1>8. \A i \in 1..Len(q) : Parsed(q)[i] = g(i)
  BY <1>6
<1> QED BY <1>6, <1>7, <1>8, Zenon DEF g

LEMMA ParsedTail ==
  ASSUME NEW q, Unread(q), Len(q) # 0
  PROVE  Unread(Tail(q)) /\ Parsed(Tail(q)) = Tail(Parsed(q)) /\ Parsed(q)[1] = Fields(q[1])
<1> DEFINE k == Len(q)
           r == Tail(q)
<1>1. q \in Seq(Message) /\ k \in Nat \ {0}
  BY DEF Unread
<1>2. r \in Seq(Message) /\ Len(r) = k - 1 /\ \A i \in 1..(k - 1) : r[i] = q[i + 1] /\ i + 1 \in 1..k
  <2> HIDE DEF k, r
  <2>1. Len(q) = k
    BY DEF k
  <2> QED BY <1>1, <2>1 DEF r
<1> HIDE DEF k, r
<1>3. Unread(r)
  <2>1. \A i \in 1..(k - 1) : Len(r[i]) >= 2
    BY <1>2, Zenon DEF Unread, k
  <2> QED BY <1>2, <2>1, Zenon DEF Unread
<1> DEFINE P == Parsed(q)
           R == Parsed(r)
<1>4. P \in Seq(Message) /\ Len(P) = k /\ \A i \in 1..k : P[i] = Fields(q[i])
  BY ParsedSeq, Zenon DEF k
<1>5. R \in Seq(Message) /\ Len(R) = k - 1 /\ \A i \in 1..(k - 1) : R[i] = Fields(r[i])
  BY <1>2, <1>3, ParsedSeq, Zenon
<1>6. \A i \in 1..(k - 1) : R[i] = P[i + 1]
  BY <1>2, <1>4, <1>5, Zenon
<1> HIDE DEF P, R
<1>7. R = Tail(P)
  <2> DEFINE T == Tail(P)
  <2>1. T \in Seq(Message) /\ Len(T) = k - 1 /\ \A i \in 1..(k - 1) : T[i] = P[i + 1]
    BY <1>1, <1>4
  <2> HIDE DEF T
  <2>2. R = T
    BY <1>1, <1>5, <1>6, <2>1
  <2> QED BY <2>2 DEF T
<1>8. 1 \in 1..k
  BY <1>1
<1> QED BY <1>3, <1>4, <1>7, <1>8, Zenon DEF r, P, R

LEMMA ParsedAppend ==
  ASSUME NEW q, Unread(q), NEW b \in Message, Len(b) >= 2
  PROVE  Unread(Append(q, b)) /\ Parsed(Append(q, b)) = Append(Parsed(q), Fields(b))
<1> DEFINE k == Len(q)
           r == Append(q, b)
<1>1. q \in Seq(Message) /\ k \in Nat
  BY DEF Unread
<1>2. r \in Seq(Message) /\ Len(r) = k + 1 /\ r[k + 1] = b /\ \A i \in 1..k : r[i] = q[i]
  BY <1>1, AppendSeq
<1>3. \A i \in 1..(k + 1) : i \in 1..k \/ i = k + 1
  BY <1>1
<1> HIDE DEF k, r
<1>4. Unread(r)
  <2>1. \A i \in 1..(k + 1) : Len(r[i]) >= 2
    BY <1>2, <1>3, Zenon DEF Unread, k
  <2> QED BY <1>2, <2>1, Zenon DEF Unread
<1> DEFINE P == Parsed(q)
           R == Parsed(r)
           f == Fields(b)
<1>5. P \in Seq(Message) /\ Len(P) = k /\ \A i \in 1..k : P[i] = Fields(q[i])
  BY ParsedSeq, Zenon DEF k
<1>6. R \in Seq(Message) /\ Len(R) = k + 1 /\ \A i \in 1..(k + 1) : R[i] = Fields(r[i])
  BY <1>2, <1>4, ParsedSeq, Zenon
<1>7. \A i \in 1..k : i \in 1..(k + 1)
  BY <1>1
<1>8. \A i \in 1..(k + 1) : (i \in 1..k => R[i] = P[i]) /\ (i = k + 1 => R[i] = f)
  BY <1>2, <1>5, <1>6, <1>7, Zenon
<1>9. f \in Message
  BY FieldsOfMessage
<1> HIDE DEF P, R, f
<1>10. R = Append(P, f)
  <2> DEFINE T == Append(P, f)
  <2>1. T \in Seq(Message) /\ Len(T) = k + 1 /\ T[k + 1] = f /\ \A i \in 1..k : T[i] = P[i]
    BY <1>5, <1>9, AppendSeq
  <2> HIDE DEF T
  <2>2. \A i \in 1..(k + 1) : R[i] = T[i]
    BY <1>3, <1>8, <2>1, Zenon
  <2>3. R = T
    BY <1>1, <1>6, <2>1, <2>2
  <2> QED BY <2>3 DEF T
<1> QED BY <1>4, <1>10, Zenon DEF r, P, R, f

\* What a node holds does not change when it reads a message ...
LEMMA HeldReading ==
  ASSUME NEW q, Unread(q), Len(q) # 0, NEW l \in Seq(Pair), NEW a
  PROVE  Held(Applied(l, Fields(q[1])), Parsed(Tail(q)), a) <=> Held(l, Parsed(q), a)
<1>1. /\ Parsed(q) \in Seq(Message) /\ Len(Parsed(q)) # 0
      /\ Parsed(Tail(q)) = Tail(Parsed(q)) /\ Parsed(q)[1] = Fields(q[1])
  BY ParsedSeq, ParsedTail, Zenon
<1> DEFINE P == Parsed(q)
           f == Fields(q[1])
           k == Applied(l, f)
<1>2. f \in Message
  <2>1. P \in Seq(Message) /\ Len(P) # 0 /\ P[1] = f
    BY <1>1
  <2> HIDE DEF P, f
  <2> QED BY <2>1
<1>3. a \in ToSet(k) <=> Adds(f, a) \/ (a \in ToSet(l) /\ ~Drops(f, a))
  BY <1>2, AppliedHas
<1>4. P \in Seq(Message) /\ Len(P) # 0 /\ P[1] = f
  BY <1>1
<1> HIDE DEF P, f, k
<1>5. a \in ToSet(k) <=> Adds(P[1], a) \/ (a \in ToSet(l) /\ ~Drops(P[1], a))
  BY <1>3, <1>4, Zenon
<1>6. Held(k, Tail(P), a) <=> Held(l, P, a)
  BY <1>4, <1>5, HeldTail, Zenon
<1> QED BY <1>1, <1>6, Zenon DEF P, f, k

\* ... and a message that comes is handled last.
LEMMA HeldComing ==
  ASSUME NEW q, Unread(q), NEW b \in Message, Len(b) >= 2, NEW l, NEW a
  PROVE  Held(l, Parsed(Append(q, b)), a) <=>
           Adds(Fields(b), a) \/ (Held(l, Parsed(q), a) /\ ~Drops(Fields(b), a))
<1>1. Parsed(q) \in Seq(Message) /\ Fields(b) \in Message
  BY ParsedSeq, FieldsOfMessage, Zenon
<1>2. Parsed(Append(q, b)) = Append(Parsed(q), Fields(b))
  BY ParsedAppend, Zenon
<1>3. Held(l, Append(Parsed(q), Fields(b)), a) <=>
        Adds(Fields(b), a) \/ (Held(l, Parsed(q), a) /\ ~Drops(Fields(b), a))
  BY <1>1, HeldAppend, Zenon
<1> QED BY <1>2, <1>3, Zenon

LEMMA InboxUnread ==
  ASSUME Typed, NEW n \in Node
  PROVE  Unread(inbox[n])
<1>1. inbox[n] \in Seq(Message)
  BY DEF Typed
<1> QED BY <1>1, Zenon DEF Typed, Unread

\* The same, from another list and with other messages to read.
LEMMA StaysMoved ==
  ASSUME NEW n, NEW m, NEW l, NEW q, NEW k, NEW p, NEW a, ToTell(m)' = ToTell(m),
         Unsent(m, Mine(n))' <=> Unsent(m, Mine(n)),
         Unsent(m, Mine(n)) => Sending(m)' = Sending(m),
         Held(l, Parsed(q), a) <=> Held(k, Parsed(p), a)
  PROVE  Stays(n, m, l, q, a)' <=> Stays(n, m, k, p, a)
<1>1. Heard(n, m, l, q, a)' <=> Heard(n, m, k, p, a)
  BY Zenon DEF Heard
<1> QED BY <1>1, Zenon DEF Stays

(***************************************************************************)
(* listenForHeartbeat                                                       *)
(***************************************************************************)
LEMMA ReadHeartbeatFacts ==
  ASSUME MaxRead = 1, Typed, LinkInv, NEW n \in Node, ReadHeartbeat(n)
  PROVE  /\ role[n] = "follower" /\ Len(inbox[n]) >= 1
         /\ inbox'[n] = Tail(inbox[n])
         /\ nonLeaderNodes' \in [Node -> Seq(Pair)]
         /\ nonLeaderNodes'[n] = Applied(nonLeaderNodes[n], Fields(inbox[n][1]))
         /\ UNCHANGED <<role, cur, open, others, nodeConnectionChange, beat, left, backlog, replying,
                        started, restarts>>
         /\ \A x \in Node : x # n => SameNode(x) /\ crawlID'[x] = crawlID[x]
<1>1. /\ role[n] = "follower"
      /\ UNCHANGED <<role, cur, open, others, nodeConnectionChange, beat, left, backlog, replying,
                     started, restarts>>
  BY Zenon DEF ReadHeartbeat, election, lead, serve, world
<1>2. PICK k \in Readable(n) :
        /\ nonLeaderNodes' = [nonLeaderNodes EXCEPT ![n] = Applied(@, Received(n, k))]
        /\ crawlID' = [crawlID EXCEPT ![n] = Received(n, k)[1]]
        /\ inbox' = [inbox EXCEPT ![n] = SubSeq(@, k + 1, Len(@))]
  BY Zenon DEF ReadHeartbeat
<1> DEFINE f == Fields(inbox[n][1])
           D == Seq(Pair)
<1>3. Received(n, k) = f /\ Len(inbox[n]) >= 1 /\ SubSeq(inbox[n], k + 1, Len(inbox[n])) = Tail(inbox[n])
  BY OneRead, Zenon
<1>4. inbox'[n] = Tail(inbox[n]) /\ \A x \in Node : x # n => inbox'[x] = inbox[x]
  <2>1. inbox' = [inbox EXCEPT ![n] = SubSeq(inbox[n], k + 1, Len(inbox[n]))]
    BY <1>2
  <2>2. inbox' = [inbox EXCEPT ![n] = Tail(inbox[n])]
    BY <1>3, <2>1, Zenon
  <2> QED BY <2>2 DEF Typed
<1>5. f \in Message
  <2>1. 1 \in 1..Len(inbox[n])
    <3>1. inbox[n] \in Seq(Message) /\ Len(inbox[n]) \in Nat
      BY DEF Typed
    <3> QED BY <1>3, <3>1
  <2>2. inbox[n][1] \in Message /\ Len(inbox[n][1]) >= 2
    BY <2>1, InboxMessage, Zenon
  <2> QED BY <2>2, FieldsOfMessage, Zenon
<1>6. nonLeaderNodes \in [Node -> D] /\ nonLeaderNodes[n] \in D
  BY DEF LinkInv
<1> DEFINE l == Applied(nonLeaderNodes[n], f)
<1>7. l \in D
  <2> HIDE DEF f
  <2> QED BY <1>5, <1>6, AppliedHas
<1>8. nonLeaderNodes' = [nonLeaderNodes EXCEPT ![n] = l]
  <2>1. nonLeaderNodes' = [nonLeaderNodes EXCEPT ![n] = Applied(nonLeaderNodes[n], Received(n, k))]
    BY <1>2
  <2> QED BY <1>3, <2>1, Zenon
<1>9. DOMAIN crawlID = Node
  BY DEF Typed
<1>10. \A x \in Node : x # n => crawlID'[x] = crawlID[x]
  BY <1>2, <1>9
<1> HIDE DEF D, l, f
<1>11. nonLeaderNodes' \in [Node -> D] /\ nonLeaderNodes'[n] = l
       /\ \A x \in Node : x # n => nonLeaderNodes'[x] = nonLeaderNodes[x]
  BY <1>6, <1>7, <1>8
<1>12. \A x \in Node : x # n => SameNode(x)
  BY <1>1, <1>4, <1>11, Zenon DEF SameNode
<1> QED BY <1>1, <1>3, <1>4, <1>10, <1>11, <1>12, Zenon DEF D, l, f

\* A message is read from the inbox and handled: the same list in the end.
LEMMA LinkReadHeartbeat ==
  ASSUME MaxRead = 1, Typed, LinkInv, NEW n \in Node, ReadHeartbeat(n)
  PROVE  LinkInv' /\ \A m \in Node : Quiet(m)
<1>1. /\ role[n] = "follower" /\ Len(inbox[n]) >= 1
      /\ inbox'[n] = Tail(inbox[n])
      /\ nonLeaderNodes' \in [Node -> Seq(Pair)]
      /\ nonLeaderNodes'[n] = Applied(nonLeaderNodes[n], Fields(inbox[n][1]))
      /\ UNCHANGED <<role, cur, others, nodeConnectionChange, beat, left, backlog, replying>>
      /\ \A x \in Node : x # n => SameNode(x) /\ crawlID'[x] = crawlID[x]
  BY ReadHeartbeatFacts, Zenon
<1>2. Shrinks /\ \A m \in Node : backlog'[m] \subseteq backlog[m]
  BY <1>1, Zenon DEF Shrinks
<1>3. \A m \in Node : SameLead(m) /\ replying'[m] \subseteq replying[m]
  BY <1>1, Zenon DEF SameLead
<1>4. Ids'
  <2>1. ASSUME NEW x \in Node, role'[x] # "follower" PROVE crawlID'[x] \in CrawlIDs
    BY <1>1, <2>1, Zenon DEF LinkInv, Ids
  <2> QED BY <1>1, <2>1, Zenon DEF LinkInv, Ids
<1>5. /\ NoOk(n) => NoOk(n)'
      /\ AllHarmless(n) => AllHarmless(n)'
  BY <1>1, InboxTail, Zenon
<1>6. OneList' /\ OneReply' /\ Plain'
  BY <1>1, <1>2, <1>5, SameNodeKeeps, OneListLess, OneReplyLess, PlainLess, Zenon DEF LinkInv
<1>7. Served'
  BY <1>1, <1>2, ServedLess, Zenon DEF LinkInv
<1>8. ASSUME NEW m \in Node PROVE Same(n, m)
  <2>1. Mine(n)' = Mine(n)
    BY <1>1, Zenon DEF Mine
  <2>2. /\ ToTell(m)' = ToTell(m) /\ Sending(m)' = Sending(m)
        /\ Unsent(m, Mine(n))' <=> Unsent(m, Mine(n))
    BY <1>1, <1>3, ToldSame, UnsentSame, Zenon DEF SameLead
  <2> DEFINE k == nonLeaderNodes[n]
             p == inbox[n]
  <2>3. Unread(p) /\ k \in Seq(Pair) /\ Len(p) # 0
    <3>1. Unread(p)
      BY InboxUnread
    <3>2. k \in Seq(Pair)
      BY DEF LinkInv
    <3>3. Len(inbox[n]) # 0
      BY <1>1
    <3> QED BY <3>1, <3>2, <3>3
  <2> HIDE DEF k, p
  <2>4. \A a : Held(Applied(k, Fields(p[1])), Parsed(Tail(p)), a) <=> Held(k, Parsed(p), a)
    BY <2>3, HeldReading, Zenon
  <2>5. ASSUME NEW l, NEW q, Script(n, m, l, q)'
        PROVE  /\ Script(n, m, k, p)
               /\ \A a : Stays(n, m, l, q, a)' <=> Stays(n, m, k, p, a)
    <3>1. "starting" # "follower"
      OBVIOUS
    <3>2. l = nonLeaderNodes'[n] /\ q = inbox'[n]
      BY <1>1, <2>5, <3>1, Zenon DEF Script, Following, Answered, Promised
    <3>3. l = Applied(k, Fields(p[1])) /\ q = Tail(p)
      BY <1>1, <3>2, Zenon DEF k, p
    <3>4. OnList(n, m)
      BY <1>1, <2>1, <2>5, Zenon DEF Script, OnList
    <3>5. Script(n, m, k, p)
      BY <1>1, <3>4, Zenon DEF Script, Following, k, p
    <3>6. \A a : Held(l, Parsed(q), a) <=> Held(k, Parsed(p), a)
      BY <2>4, <3>3, Zenon
    <3> QED BY <2>2, <3>5, <3>6, StaysMoved, Zenon
  <2> QED BY <2>5, Zenon DEF Same
<1>9. \A m \in Node : Quiet(m)
  BY <1>1, <1>3, <1>8, QuietFrame, Zenon
<1> QED BY <1>1, <1>4, <1>6, <1>7, <1>9, Zenon DEF LinkInv

(***************************************************************************)
(* What is written to a connection                                          *)
(***************************************************************************)
LEMMA LinkWriteReply ==
  ASSUME Typed, Places, LinkInv, NEW k \in Node, NEW r \in replying[k], WriteReply(k, r)
  PROVE  LinkInv' /\ \A m \in Node : Quiet(m)
<1> DEFINE c == r.to
           b == r.data
<1>1. c \in Connection /\ b \in Message /\ Harmless(b)
  <2>1. c \in Connection /\ b \in Message
    BY DEF Typed, Reply
  <2>2. Big(b)
    BY Zenon DEF Places, Replies
  <2> QED BY <2>1, <2>2, Zenon DEF Harmless
<1>2. /\ inbox' = Delivered(inbox, c, b)
      /\ replying' = [replying EXCEPT ![k] = @ \ {r}]
      /\ UNCHANGED <<role, cur, crawlID, nonLeaderNodes, others, nodeConnectionChange, beat, left, backlog>>
  BY Zenon DEF WriteReply, election, follow, lead
<1>3. replying'[k] = replying[k] \ {r} /\ \A m \in Node : replying'[m] \subseteq replying[m]
  BY <1>2 DEF Typed
<1> HIDE DEF c, b
<1>4. \A x \in Node : \/ Mine(x) = c /\ inbox'[x] = Append(inbox[x], b)
                      \/ Mine(x) # c /\ SameNode(x)
  BY <1>1, <1>2, DeliveredTo, Zenon DEF SameNode
<1>5. Shrinks /\ \A m \in Node : backlog'[m] \subseteq backlog[m]
  BY <1>2, <1>3, Zenon DEF Shrinks
<1>6. \A x \in Node : Mine(x)' = Mine(x) /\ cur'[x] = cur[x] /\ role'[x] = role[x]
  BY <1>2, Zenon DEF Mine
<1>7. \A m \in Node : SameLead(m)
  BY <1>2, Zenon DEF SameLead
<1>8. Ids' /\ nonLeaderNodes' \in [Node -> Seq(Pair)]
  BY <1>2, Zenon DEF LinkInv, Ids
<1>9. Served' /\ OneList'
  BY <1>5, <1>6, ServedLess, OneListLess, Zenon DEF LinkInv
<1>10. Plain'
  BY <1>1, <1>4, <1>5, <1>6, InboxAppend, SameNodeKeeps, PlainLess, Zenon DEF LinkInv
<1>11. \A m \in Node : \A s \in replying'[m] : s.to # c
  <2> SUFFICES ASSUME NEW m \in Node, NEW s \in replying'[m], s.to = c PROVE FALSE
    OBVIOUS
  <2>1. s \in replying[m]
    BY <1>3
  <2>2. m = k /\ r = s
    BY <2>1, Zenon DEF LinkInv, OneList, c
  <2> QED BY <1>3, <2>2
<1>12. OneReply'
  BY <1>4, <1>5, <1>6, <1>11, SameNodeKeeps, OneReplyLess, Zenon DEF LinkInv
<1>13. ASSUME NEW m \in Node, NEW n \in Node, Mine(n) = c, OnList(n, m)' PROVE Same(n, m)
  <2>1. OnList(n, m) /\ cur[n] # 0 /\ Contains(others[m], c)
    BY <1>2, <1>6, <1>13, Zenon DEF OnList
  <2>2. m = k
    BY <2>1, Zenon DEF LinkInv, OneList, c
  <2>3. role[n] = "starting" /\ NoOk(n)
    BY <1>13, <2>1, Zenon DEF LinkInv, OneReply, c
  <2>4. inbox'[n] = Append(inbox[n], b) /\ inbox[n] \in Seq(Message)
    BY <1>4, <1>13, Zenon DEF Typed
  <2> DEFINE s == inbox[n]
             t == Append(s, b)
  <2>5. /\ t # <<>>
        /\ s # <<>> => t[1] = s[1] /\ 1 \in 1..Len(s)
        /\ s = <<>> => t[1] = b /\ Tail(t) = <<>>
    <3> HIDE DEF s
    <3>1. s \in Seq(Message)
      BY <2>4 DEF s
    <3> QED BY <1>1, <3>1, FirstOfAppend
  <2>6. inbox'[n] = t
    BY <2>4
  <2>7. \A a : \A l, q : Stays(n, m, l, q, a)' <=> Stays(n, m, l, q, a)
    <3>1. Unsent(m, Mine(n))' <=> Unsent(m, Mine(n))
      BY <1>6, <1>7, UnsentSame, Zenon
    <3> QED BY <1>7, <3>1, StaysSame, ToldSame, Zenon DEF SameLead
  <2> HIDE DEF t
  <2>8. ASSUME NEW l, NEW q, Script(n, m, l, q)' PROVE Script(n, m, l, q)
    <3>1. "starting" # "follower"
      OBVIOUS
    <3>2. Answered(n, l, q)'
      BY <1>6, <2>3, <2>5, <2>6, <2>8, <3>1, Zenon DEF Script, Following, Promised
    <3>3. t[1][1] = "ok" /\ l = InitialNodes(Fields(t[1])) /\ q = Tail(t)
      BY <2>6, <3>2, Zenon DEF Answered
    <3>4. s = <<>>
      BY <2>3, <2>5, <3>3, Zenon DEF NoOk
    <3>5. l = InitialNodes(Fields(b)) /\ q = <<>>
      BY <2>5, <3>3, <3>4, Zenon
    <3>6. Promised(n, m, l, q)
      BY <1>13, <2>2, <2>3, <3>4, <3>5, Zenon DEF Promised, b, c
    <3> QED BY <2>1, <3>6, Zenon DEF Script
  <2> QED BY <2>7, <2>8, Zenon DEF Same
<1>14. \A m \in Node : Quiet(m)
  BY <1>3, <1>4, <1>7, <1>13, QuietFrame, Zenon
<1> QED BY <1>8, <1>9, <1>10, <1>12, <1>14, Zenon DEF LinkInv

\* A connection that is answered with an address is on no list.
LEMMA LinkRedirect ==
  ASSUME Typed, Places, LinkInv, NEW k \in Node, NEW c \in backlog[k], Redirect(k, c)
  PROVE  LinkInv' /\ \A m \in Node : Quiet(m)
<1> DEFINE b == <<leaderIp[k], "port">>
<1>1. c \in Connection /\ b \in Message
  <2>1. c \in Connection /\ leaderIp[k] \in Field /\ "port" \in Field
    BY DEF Typed, TypeOK, Field, Words
  <2> HIDE DEF Field
  <2> QED BY <2>1, PairSeq, Zenon DEF Message
<1> HIDE DEF b
<1>2. /\ inbox' = Delivered(inbox, c, b)
      /\ backlog' = [backlog EXCEPT ![k] = @ \ {c}]
      /\ UNCHANGED <<role, cur, crawlID, nonLeaderNodes, others, nodeConnectionChange, beat, left, replying>>
  BY Zenon DEF Redirect, follow, lead, b
<1>3. \A m \in Node : backlog'[m] \subseteq backlog[m]
  BY <1>2 DEF Typed
<1>4. \A x \in Node : \/ Mine(x) = c /\ inbox'[x] = Append(inbox[x], b)
                      \/ Mine(x) # c /\ SameNode(x)
  BY <1>1, <1>2, DeliveredTo, Zenon DEF SameNode
<1>5. Shrinks
  BY <1>2, Zenon DEF Shrinks
<1>6. \A x \in Node : Mine(x)' = Mine(x) /\ cur'[x] = cur[x] /\ role'[x] = role[x]
  BY <1>2, Zenon DEF Mine
<1>7. \A m \in Node : SameLead(m) /\ replying'[m] \subseteq replying[m]
  BY <1>2, Zenon DEF SameLead
<1>8. Ids' /\ nonLeaderNodes' \in [Node -> Seq(Pair)]
  BY <1>2, Zenon DEF LinkInv, Ids
<1>9. Served' /\ OneList'
  BY <1>3, <1>5, <1>6, ServedLess, OneListLess, Zenon DEF LinkInv
<1>10. \A m \in Node : ~Contains(others[m], c) /\ \A s \in replying[m] : s.to # c
  BY Zenon DEF Places, Waiting
<1>11. \A x \in Node : Mine(x) = c => \A m \in Node : ~OnList(x, m)'
  BY <1>2, <1>6, <1>10, Zenon DEF OnList
<1>12. OneReply'
  BY <1>2, <1>4, <1>5, <1>6, <1>10, SameNodeKeeps, OneReplyLess, Zenon DEF LinkInv
<1>13. Plain'
  BY <1>4, <1>5, <1>11, SameNodeKeeps, PlainLess, Zenon DEF LinkInv
<1>14. \A m \in Node : Quiet(m)
  BY <1>4, <1>7, <1>11, QuietFrame, Zenon
<1> QED BY <1>8, <1>9, <1>12, <1>13, <1>14, Zenon DEF LinkInv

(***************************************************************************)
(* heartbeatSender, up to its loop                                          *)
(***************************************************************************)
LEMMA WholeNil == Whole(<<>>)
<1>1. 0 \in Nat /\ Len(<<>>) = 3 * 0
  OBVIOUS
<1> QED BY <1>1, Zenon DEF Whole

\* getHeartbeat: what was noted down is what is sent.
LEMMA TakeFacts ==
  ASSUME Typed, LinkInv, Beats, NEW k \in Node, TakeHeartbeat(k)
  PROVE  /\ UNCHANGED <<role, cur, open, inbox, nonLeaderNodes, crawlID, others, left, backlog, replying,
                        started, restarts>>
         /\ beat[k] = <<>> /\ left[k] = 0 /\ nodeConnectionChange'[k] = <<>>
         /\ beat'[k] # <<>> /\ beat'[k][1] \in CrawlIDs
         /\ \A a : /\ Adds(Sending(k)', a) <=> Adds(ToTell(k), a)
                   /\ Drops(Sending(k)', a) <=> Drops(ToTell(k), a)
         /\ \A x \in Node : x # k => /\ beat'[x] = beat[x]
                                     /\ nodeConnectionChange'[x] = nodeConnectionChange[x]
<1>1. /\ role[k] = "leader" /\ beat[k] = <<>>
      /\ UNCHANGED <<role, cur, open, inbox, nonLeaderNodes, crawlID, others, left, backlog, replying,
                     started, restarts>>
  BY Zenon DEF TakeHeartbeat, election, links, follow, serve
<1> DEFINE id == crawlID[k]
           ch == nodeConnectionChange[k]
           b  == Taken(id, ch)
<1>2. /\ beat' = [beat EXCEPT ![k] = b]
      /\ nodeConnectionChange' = [nodeConnectionChange EXCEPT ![k] = <<>>]
  BY Zenon DEF TakeHeartbeat, Taken
<1>3. id \in Field /\ ch \in Message /\ Changes(ch)
  BY Zenon DEF Typed, Beats
<1>4. id \in CrawlIDs
  <2>1. "leader" # "follower"
    OBVIOUS
  <2> QED BY <1>1, <2>1, Zenon DEF LinkInv, Ids
<1>5. left[k] = 0
  <2>1. ~(left[k] > 0)
    BY <1>1, Zenon DEF Beats
  <2> QED BY <2>1 DEF Typed, TypeOK
<1> HIDE DEF id, ch, b
<1>6. /\ b # <<>> /\ b[1] = id
      /\ \A a : /\ Adds(Fields(b), a) <=> Adds(<<"">> \o ch, a)
                /\ Drops(Fields(b), a) <=> Drops(<<"">> \o ch, a)
  BY <1>3, TakenTold DEF b
<1>7. DOMAIN beat = Node /\ DOMAIN nodeConnectionChange = Node
  BY DEF Typed
<1>8. /\ beat'[k] = b /\ nodeConnectionChange'[k] = <<>>
      /\ \A x \in Node : x # k => beat'[x] = beat[x] /\ nodeConnectionChange'[x] = nodeConnectionChange[x]
  BY <1>2, <1>7, Zenon
<1>9. Sending(k)' = Fields(b) /\ ToTell(k) = <<"">> \o ch
  BY <1>8, Zenon DEF Sending, ToTell, ch
<1> QED BY <1>1, <1>4, <1>5, <1>6, <1>8, <1>9, Zenon

LEMMA LinkTakeHeartbeat ==
  ASSUME Typed, LinkInv, Beats, NEW k \in Node, TakeHeartbeat(k)
  PROVE  LinkInv' /\ \A m \in Node : Quiet(m)
<1>1. /\ UNCHANGED <<role, cur, inbox, nonLeaderNodes, crawlID, others, left, backlog, replying>>
      /\ beat[k] = <<>> /\ left[k] = 0 /\ nodeConnectionChange'[k] = <<>>
      /\ beat'[k] # <<>> /\ beat'[k][1] \in CrawlIDs
      /\ \A a : /\ Adds(Sending(k)', a) <=> Adds(ToTell(k), a)
                /\ Drops(Sending(k)', a) <=> Drops(ToTell(k), a)
      /\ \A x \in Node : x # k => /\ beat'[x] = beat[x]
                                  /\ nodeConnectionChange'[x] = nodeConnectionChange[x]
  BY TakeFacts, Zenon
<1>2. \A n \in Node : SameNode(n)
  BY <1>1, Zenon DEF SameNode
<1>3. Shrinks /\ \A m \in Node : backlog'[m] \subseteq backlog[m]
  BY <1>1, Zenon DEF Shrinks
<1>4. Served' /\ OneList' /\ OneReply' /\ Plain'
  BY <1>2, <1>3, LinksLess, Zenon
<1>5. Ids' /\ nonLeaderNodes' \in [Node -> Seq(Pair)]
  <2>1. ASSUME NEW m \in Node
        PROVE  /\ role'[m] # "follower" => crawlID'[m] \in CrawlIDs
               /\ beat'[m] # <<>> => beat'[m][1] \in CrawlIDs
               /\ Whole(nodeConnectionChange'[m])
    BY <1>1, WholeNil, Zenon DEF LinkInv, Ids
  <2> QED BY <1>1, <2>1, Zenon DEF Ids, LinkInv
<1>6. \A a : ~Adds(ToTell(k)', a) /\ ~Drops(ToTell(k)', a)
  <2>1. \A a : ~Adds(ToTell(k), a)' /\ ~Drops(ToTell(k), a)'
    <3>1. ToTell(k)' = <<"">> \o <<>>
      BY <1>1, Zenon DEF ToTell
    <3>2. "" \in Field
      BY DEF Field, Words
    <3>3. ASSUME NEW x \in Field PROVE <<x>> \o <<>> \in Seq(Field) /\ Len(<<x>> \o <<>>) < 4
      OBVIOUS
    <3>4. ToTell(k)' \in Message /\ Len(ToTell(k)') < 4
      BY <3>1, <3>2, <3>3, Zenon DEF Message
    <3> QED BY <3>4, SaysNothing
  <2> QED BY <2>1
<1>7. Quiet(k)
  <2>1. \A a : Linked(k, a)' <=> Linked(k, a)
    BY <1>1, LinkedSame, Zenon
  <2>2. \A a : Gains(k, a)' => Gains(k, a)
    BY <1>1, <1>6, Zenon DEF Gains
  <2>3. \A a : Remains(k, a) => Remains(k, a)'
    BY <1>1, <1>6, Zenon DEF Remains
  <2>4. ASSUME NEW n \in Node PROVE Same(n, k)
    <3>1. ~Unsent(k, Mine(n)) /\ Unsent(k, Mine(n))'
      BY <1>1, Zenon DEF Unsent
    <3>2. ASSUME NEW l, NEW q, NEW a PROVE Stays(n, k, l, q, a)' <=> Stays(n, k, l, q, a)
      <4>1. Heard(n, k, l, q, a) <=> Held(l, Parsed(q), a)
        BY <3>1, Zenon DEF Heard
      <4>2. Heard(n, k, l, q, a)' <=>
              Adds(ToTell(k), a) \/ (Held(l, Parsed(q), a) /\ ~Drops(ToTell(k), a))
        BY <1>1, <3>1, Zenon DEF Heard
      <4>3. Stays(n, k, l, q, a)' <=> Heard(n, k, l, q, a)'
        BY <1>6, Zenon DEF Stays
      <4> QED BY <4>1, <4>2, <4>3, Zenon DEF Stays
    <3>3. \A l, q : Script(n, k, l, q)' => Script(n, k, l, q)
      BY <1>1, <1>2, ScriptSame, LinkedSame, Zenon
    <3> QED BY <3>2, <3>3, Zenon DEF Same
  <2> QED BY <2>1, <2>2, <2>3, <2>4, Zenon DEF Quiet
<1>8. ASSUME NEW m \in Node, m # k PROVE Quiet(m)
  <2>1. SameLead(m) /\ replying'[m] \subseteq replying[m]
    BY <1>1, <1>8, Zenon DEF SameLead
  <2> QED BY <1>2, <2>1, QuietFrame, Zenon
<1> QED BY <1>4, <1>5, <1>7, <1>8, Zenon DEF LinkInv

\* Who was to get the heartbeat still is.
LEMMA LinkBeginSend ==
  ASSUME Typed, LinkInv, NEW k \in Node, BeginSend(k)
  PROVE  LinkInv' /\ \A m \in Node : Quiet(m)
<1>1. /\ beat[k] # <<>> /\ left[k] = 0 /\ left' = [left EXCEPT ![k] = Len(others[k])]
      /\ beat' = [beat EXCEPT ![k] = IF others[k] = <<>> THEN <<>> ELSE @]
      /\ UNCHANGED <<role, cur, inbox, nonLeaderNodes, crawlID, others, nodeConnectionChange, backlog,
                     replying>>
  BY Zenon DEF BeginSend, MtxFree, election, links, follow, serve
<1>2. DOMAIN beat = Node /\ DOMAIN left = Node
  BY DEF Typed, TypeOK
<1>3. left'[k] = Len(others[k]) /\ \A x \in Node : x # k => beat'[x] = beat[x] /\ left'[x] = left[x]
  BY <1>1, <1>2, Zenon
<1>4. beat'[k] = beat[k] \/ (others[k] = <<>> /\ beat'[k] = <<>>)
  BY <1>1, <1>2, Zenon
<1>5. \A n \in Node : SameNode(n)
  BY <1>1, Zenon DEF SameNode
<1>6. Shrinks /\ \A m \in Node : backlog'[m] \subseteq backlog[m]
  BY <1>1, Zenon DEF Shrinks
<1>7. Served' /\ OneList' /\ OneReply' /\ Plain'
  BY <1>5, <1>6, LinksLess, Zenon
<1>8. Ids' /\ nonLeaderNodes' \in [Node -> Seq(Pair)]
  <2>1. ASSUME NEW m \in Node
        PROVE  /\ role'[m] # "follower" => crawlID'[m] \in CrawlIDs
               /\ beat'[m] # <<>> => beat'[m][1] \in CrawlIDs
               /\ Whole(nodeConnectionChange'[m])
    BY <1>1, <1>3, <1>4, Zenon DEF LinkInv, Ids
  <2> QED BY <1>1, <2>1, Zenon DEF Ids, LinkInv
<1>9. Quiet(k)
  <2>1. \A a : Linked(k, a)' <=> Linked(k, a)
    BY <1>1, LinkedSame, Zenon
  <2>2. /\ \A a : Gains(k, a)' => Gains(k, a)
        /\ \A a : Remains(k, a) => Remains(k, a)'
    BY <1>1, <1>4, GainsSame, Zenon
  <2>3. ASSUME NEW n \in Node, OnList(n, k)' PROVE Same(n, k)
    <3>1. Mine(n)' = Mine(n) /\ Contains(others[k], Mine(n))
      BY <1>1, <2>3, Zenon DEF Mine, OnList
    <3>2. beat'[k] = beat[k]
      <4>1. \A i \in 1..Len(<<>>) : FALSE
        OBVIOUS
      <4> QED BY <1>4, <3>1, <4>1, Zenon DEF Contains
    <3>3. Unsent(k, Mine(n)) /\ Unsent(k, Mine(n))'
      BY <1>1, <1>3, <3>1, <3>2, Zenon DEF Unsent, Contains
    <3>4. \A l, q, a : Stays(n, k, l, q, a)' <=> Stays(n, k, l, q, a)
      BY <1>1, <3>2, <3>3, StaysSame, ToldSame, Zenon
    <3>5. \A l, q : Script(n, k, l, q)' => Script(n, k, l, q)
      BY <1>1, <1>5, ScriptSame, LinkedSame, Zenon
    <3> QED BY <3>4, <3>5, Zenon DEF Same
  <2> QED BY <2>1, <2>2, <2>3, SameOff, Zenon DEF Quiet
<1>10. ASSUME NEW m \in Node, m # k PROVE Quiet(m)
  <2>1. SameLead(m) /\ replying'[m] \subseteq replying[m]
    BY <1>1, <1>3, <1>10, Zenon DEF SameLead
  <2> QED BY <1>5, <2>1, QuietFrame, Zenon
<1> QED BY <1>7, <1>8, <1>9, <1>10, Zenon DEF LinkInv

\* What comes from a leader has at least two fields.
LEMMA HarmlessLength ==
  ASSUME NEW b \in Message, Harmless(b)
  PROVE  Len(b) >= 2
<1>1. Len(b) \in Nat
  BY DEF Message
<1>2. Len(b) = 2 \/ Len(b) >= 3
  BY Zenon DEF Harmless, EmptyBeat, Big
<1>3. \A j \in Nat : j = 2 \/ j >= 3 => j >= 2
  OBVIOUS
<1> QED BY <1>1, <1>2, <1>3, Zenon

(***************************************************************************)
(* The loop of heartbeatSender: a heartbeat is written                      *)
(***************************************************************************)
\* The heartbeat that is sent to one connection.
LEMMA BeatSent ==
  ASSUME Typed, Beats, LinkInv, NEW k \in Node, SendNext(k),
         inbox' = Delivered(inbox, others[k][left[k]], beat[k]),
         UNCHANGED <<others, nodeConnectionChange>>
  PROVE  LET c == others[k][left[k]]
             b == beat[k]
         IN /\ c \in Connection /\ b \in Message /\ Len(b) >= 2 /\ b[1] # "ok" /\ Harmless(b)
            /\ Unsent(k, c) /\ Contains(others[k], c)
            /\ beat'[k] = b \/ beat'[k] = <<>>
            /\ \A x \in Node : x # k => SameLead(x)
            /\ UNCHANGED <<role, cur, open, nonLeaderNodes, crawlID, backlog, replying>>
            /\ \A x \in Node : \/ Mine(x) = c /\ inbox'[x] = Append(inbox[x], b)
                               \/ Mine(x) # c /\ SameNode(x)
<1> DEFINE c == others[k][left[k]]
           b == beat[k]
<1>1. /\ left[k] \in 1..Len(others[k]) /\ c \in Connection
      /\ left' = [left EXCEPT ![k] = left[k] - 1]
      /\ beat' = [beat EXCEPT ![k] = IF left[k] = 1 THEN <<>> ELSE @]
      /\ UNCHANGED <<role, cur, open, nonLeaderNodes, crawlID, backlog, replying>>
  BY SendNextCases, Zenon DEF election, follow, serve
<1>2. left[k] \in Nat /\ left[k] > 0 /\ Len(others[k]) \in Nat /\ left[k] \in 1..left[k]
  BY <1>1 DEF Typed, TypeOK
<1>3. b # <<>>
  BY <1>2, Zenon DEF Beats
<1>4. b \in Message /\ Harmless(b)
  BY <1>3, Zenon DEF Typed, Beats
<1>5. Len(b) >= 2
  BY <1>4, HarmlessLength, Zenon
<1>6. b[1] # "ok"
  <2>1. b[1] \in CrawlIDs
    BY <1>3, Zenon DEF LinkInv, Ids
  <2>2. "ok" \notin CrawlIDs
    BY CrawlAssumption DEF Words
  <2> QED BY <2>1, <2>2
<1>7. Unsent(k, c) /\ Contains(others[k], c)
  BY <1>1, <1>2, <1>3, Zenon DEF Unsent, Contains
<1>8. DOMAIN beat = Node /\ DOMAIN left = Node
  BY DEF Typed, TypeOK
<1>9. /\ beat'[k] = b \/ beat'[k] = <<>>
      /\ \A x \in Node : x # k => beat'[x] = beat[x] /\ left'[x] = left[x]
  BY <1>1, <1>8, Zenon
<1>10. \A x \in Node : x # k => SameLead(x)
  BY <1>9, Zenon DEF SameLead
<1>11. inbox' = Delivered(inbox, c, b)
  OBVIOUS
<1> HIDE DEF b, c
<1>12. \A x \in Node : \/ Mine(x) = c /\ inbox'[x] = Append(inbox[x], b)
                       \/ Mine(x) # c /\ SameNode(x)
  BY <1>1, <1>4, <1>11, DeliveredTo, Zenon DEF SameNode
<1> QED BY <1>1, <1>4, <1>5, <1>6, <1>7, <1>9, <1>10, <1>12 DEF b, c

\* The connection that gets it now has it to read.
LEMMA SentTo ==
  ASSUME Typed, NEW n \in Node, NEW k \in Node, NEW b \in Message, b = beat[k], Len(b) >= 2, b[1] # "ok",
         inbox'[n] = Append(inbox[n], b), UNCHANGED <<role, cur, nonLeaderNodes, others, nodeConnectionChange>>,
         Unsent(k, Mine(n)), ~Unsent(k, Mine(n))'
  PROVE  Same(n, k)
<1> DEFINE s == inbox[n]
           t == Append(s, b)
<1>1. Unread(s) /\ s \in Seq(Message)
  BY InboxUnread DEF Unread
<1>2. Mine(n)' = Mine(n) /\ ToTell(k)' = ToTell(k) /\ Sending(k) = Fields(b)
  BY Zenon DEF Mine, ToTell, Sending
<1>3. inbox'[n] = t
  OBVIOUS
<1>4. /\ t # <<>>
      /\ s # <<>> => t[1] = s[1] /\ Tail(t) = Append(Tail(s), b) /\ Len(s) # 0
      /\ s = <<>> => t[1] = b
  <2> HIDE DEF s
  <2> QED BY <1>1, FirstOfAppend, TailOfAppend
<1> HIDE DEF s, t
<1>5. ASSUME NEW l, NEW p, Unread(p), NEW q, q = Append(p, b), NEW a
      PROVE  Stays(n, k, l, q, a)' <=> Stays(n, k, l, p, a)
  <2>1. Held(l, Parsed(q), a) <=> Adds(Fields(b), a) \/ (Held(l, Parsed(p), a) /\ ~Drops(Fields(b), a))
    BY <1>5, HeldComing, Zenon
  <2>2. Heard(n, k, l, q, a)' <=> Held(l, Parsed(q), a)
    BY Zenon DEF Heard
  <2>3. Heard(n, k, l, p, a) <=> Adds(Fields(b), a) \/ (Held(l, Parsed(p), a) /\ ~Drops(Fields(b), a))
    BY <1>2, Zenon DEF Heard
  <2> QED BY <1>2, <2>1, <2>2, <2>3, Zenon DEF Stays
<1>6. ASSUME NEW l, NEW q, Script(n, k, l, q)'
      PROVE  \E j, p : Script(n, k, j, p) /\ \A a : Stays(n, k, l, q, a)' <=> Stays(n, k, j, p, a)
  <2>1. OnList(n, k)
    BY <1>2, <1>6, Zenon DEF Script, OnList
  <2>2. CASE Following(n, l, q)'
    <3>1. role[n] = "follower" /\ l = nonLeaderNodes[n] /\ q = t
      BY <1>3, <2>2, Zenon DEF Following
    <3>2. Script(n, k, l, s)
      BY <2>1, <3>1, Zenon DEF Script, Following, s
    <3>3. q = Append(s, b)
      BY <3>1, Zenon DEF t
    <3> QED BY <1>1, <1>5, <3>2, <3>3, Zenon
  <2>3. CASE Answered(n, l, q)'
    <3>1. role[n] = "starting" /\ t[1][1] = "ok" /\ l = InitialNodes(Fields(t[1])) /\ q = Tail(t)
      BY <1>3, <2>3, Zenon DEF Answered
    <3>2. s # <<>>
      BY <1>4, <3>1, Zenon
    <3>3. t[1] = s[1] /\ q = Append(Tail(s), b) /\ Len(s) # 0
      BY <1>4, <3>1, <3>2, Zenon
    <3>4. Unread(Tail(s))
      BY <1>1, <3>3, ParsedTail, Zenon
    <3>5. Script(n, k, l, Tail(s))
      BY <2>1, <3>1, <3>2, <3>3, Zenon DEF Script, Answered, s
    <3> QED BY <1>5, <3>3, <3>4, <3>5, Zenon
  <2>4. ~Promised(n, k, l, q)'
    BY <1>3, <1>4, Zenon DEF Promised
  <2> QED BY <1>6, <2>2, <2>3, <2>4, Zenon DEF Script
<1> QED BY <1>6, Zenon DEF Same

LEMMA LinkSendBeat ==
  ASSUME Typed, Typed', Places, Beats, LinkInv, NEW k \in Node, SendNext(k),
         inbox' = Delivered(inbox, others[k][left[k]], beat[k]),
         UNCHANGED <<others, nodeConnectionChange>>
  PROVE  LinkInv' /\ \A m \in Node : Quiet(m)
<1> DEFINE c == others[k][left[k]]
           b == beat[k]
<1>1. /\ c \in Connection /\ b \in Message /\ Len(b) >= 2 /\ b[1] # "ok" /\ Harmless(b)
      /\ Unsent(k, c) /\ Contains(others[k], c)
      /\ beat'[k] = b \/ beat'[k] = <<>>
      /\ \A x \in Node : x # k => SameLead(x)
      /\ UNCHANGED <<role, cur, nonLeaderNodes, crawlID, backlog, replying>>
      /\ \A x \in Node : \/ Mine(x) = c /\ inbox'[x] = Append(inbox[x], b)
                         \/ Mine(x) # c /\ SameNode(x)
  BY BeatSent
<1>2. Shrinks /\ \A m \in Node : backlog'[m] \subseteq backlog[m] /\ replying'[m] \subseteq replying[m]
  BY <1>1, Zenon DEF Shrinks
<1>3. \A x \in Node : Mine(x)' = Mine(x) /\ cur'[x] = cur[x] /\ role'[x] = role[x]
  BY <1>1, Zenon DEF Mine
<1>4. ASSUME NEW n \in Node, Mine(n) = c PROVE Same(n, k)
  <2>1. ~Unsent(k, Mine(n))'
    <3>1. ~(beat'[k] # <<>> /\ (left'[k] = 0 \/ \E i \in 1..left'[k] : others'[k][i] = c))
      BY SentAfter
    <3>2. Mine(n)' = c
      BY <1>3, <1>4
    <3> QED BY <3>1, <3>2, Zenon DEF Unsent
  <2>2. Unsent(k, Mine(n)) /\ inbox'[n] = Append(inbox[n], b)
    BY <1>1, <1>4, Zenon
  <2> QED BY <1>1, <2>1, <2>2, SentTo, Zenon
<1>5. ASSUME NEW n \in Node, Mine(n) # c PROVE Same(n, k)
  <2>1. /\ Unsent(k, Mine(n)) <=> (beat'[k] # <<>> /\ (left'[k] = 0 \/ \E i \in 1..left'[k] : others'[k][i] = Mine(n)))
        /\ Unsent(k, Mine(n)) => beat'[k] = beat[k]
    BY <1>5, UnsentAfter
  <2>2. /\ Unsent(k, Mine(n))' <=> Unsent(k, Mine(n))
        /\ Unsent(k, Mine(n)) => Sending(k)' = Sending(k)
        /\ ToTell(k)' = ToTell(k)
    BY <1>3, <2>1, Zenon DEF Unsent, Sending, ToTell
  <2>3. \A l, q, a : Stays(n, k, l, q, a)' <=> Stays(n, k, l, q, a)
    BY <2>2, StaysSame, Zenon
  <2>4. SameNode(n)
    BY <1>1, <1>5, Zenon
  <2>5. \A l, q : Script(n, k, l, q)' => Script(n, k, l, q)
    BY <1>1, <2>4, ScriptSame, Zenon DEF Contains
  <2> QED BY <2>3, <2>5, Zenon DEF Same
<1> HIDE DEF b, c
<1>6. OneList' /\ Served'
  BY <1>2, <1>3, OneListLess, ServedLess, Zenon DEF LinkInv
<1>7. OneReply' /\ Plain'
  BY <1>1, <1>2, <1>3, InboxAppend, SameNodeKeeps, OneReplyLess, PlainLess, Zenon DEF LinkInv
<1>8. Ids' /\ nonLeaderNodes' \in [Node -> Seq(Pair)]
  <2>1. ASSUME NEW m \in Node
        PROVE  /\ role'[m] # "follower" => crawlID'[m] \in CrawlIDs
               /\ beat'[m] # <<>> => beat'[m][1] \in CrawlIDs
               /\ Whole(nodeConnectionChange'[m])
    BY <1>1, Zenon DEF LinkInv, Ids, SameLead, b
  <2> QED BY <1>1, <2>1, Zenon DEF Ids, LinkInv
<1>9. Quiet(k)
  <2>1. \A a : Linked(k, a)' <=> Linked(k, a)
    BY LinkedSame, Zenon
  <2>2. /\ \A a : Gains(k, a)' => Gains(k, a)
        /\ \A a : Remains(k, a) => Remains(k, a)'
    BY <1>1, GainsSame, Zenon DEF b
  <2> QED BY <1>4, <1>5, <2>1, <2>2, Zenon DEF Quiet
<1>10. ASSUME NEW m \in Node, m # k PROVE Quiet(m)
  <2>1. SameLead(m)
    BY <1>1, <1>10
  <2>2. \A n \in Node : Mine(n) = c => ~OnList(n, m)'
    <3> SUFFICES ASSUME NEW n \in Node, Mine(n) = c, OnList(n, m)' PROVE FALSE
      OBVIOUS
    <3>1. Contains(others[m], c)
      BY <1>3, Zenon DEF OnList
    <3> QED BY <1>1, <1>10, <3>1, Zenon DEF LinkInv, OneList
  <2> QED BY <1>1, <1>2, <2>1, <2>2, QuietFrame, Zenon
<1> QED BY <1>6, <1>7, <1>8, <1>9, <1>10, Zenon DEF LinkInv

(***************************************************************************)
(* The loop of heartbeatSender: a connection is dropped                     *)
(***************************************************************************)
\* The list of k, and what it tells, are those from before without address d.
Dropping(k, d) ==
  /\ \A a : Linked(k, a)' => Linked(k, a)
  /\ \A a : Linked(k, a) => Linked(k, a)' \/ a = d
  /\ \A a : Gains(k, a)' => Gains(k, a) /\ a # d
  /\ \A a : Remains(k, a) /\ a # d => Remains(k, a)'
  /\ \A n \in Node : \A l, q : Script(n, k, l, q)' =>
       Script(n, k, l, q) /\ \A a : Stays(n, k, l, q, a)' <=> Stays(n, k, l, q, a) /\ a # d

\* No ghosts are told of, as the address goes from the list and from what is told,
LEMMA GhostlessDrop ==
  ASSUME NEW k, NEW d, Ghostless(k), Dropping(k, d)
  PROVE  Ghostless(k)'
<1>1. \A a : ~Linked(k, a)' => ~Gains(k, a)'
  BY Zenon DEF Ghostless, Dropping
<1>2. ASSUME NEW n \in Node, NEW l, NEW q, Script(n, k, l, q)', NEW a, ~Linked(k, a)'
      PROVE  ~Stays(n, k, l, q, a)'
  <2>1. Script(n, k, l, q) /\ (Stays(n, k, l, q, a)' <=> Stays(n, k, l, q, a) /\ a # d)
    BY <1>2, Zenon DEF Dropping
  <2>2. ~Linked(k, a) \/ a = d
    BY <1>2, Zenon DEF Dropping
  <2> QED BY <2>1, <2>2, Zenon DEF Ghostless
<1> QED BY <1>1, <1>2, Zenon DEF Ghostless

\* ... and the living are, as the connection that is dropped is not that of one.
LEMMA UnforgettingDrop ==
  ASSUME NEW k, NEW d, Unforgetting(k), Dropping(k, d), \A a : Living(k, a)' => Living(k, a) /\ a # d
  PROVE  Unforgetting(k)'
<1>1. \A a : Living(k, a)' => Remains(k, a)'
  BY Zenon DEF Unforgetting, Dropping
<1>2. ASSUME NEW n \in Node, NEW l, NEW q, Script(n, k, l, q)', NEW a, Living(k, a)'
      PROVE  Stays(n, k, l, q, a)'
  <2>1. Script(n, k, l, q) /\ (Stays(n, k, l, q, a)' <=> Stays(n, k, l, q, a) /\ a # d)
    BY <1>2, Zenon DEF Dropping
  <2>2. Living(k, a) /\ a # d
    BY <1>2, Zenon
  <2> QED BY <2>1, <2>2, Zenon DEF Unforgetting
<1> QED BY <1>1, <1>2, Zenon DEF Unforgetting

\* The list without connection c.
LEMMA DropList ==
  ASSUME Typed, Places, NEW k \in Node, NEW i \in 1..Len(others[k]), DropConnection(k, i)
  PROVE  /\ \A x \in Node : x # k => others'[x] = others[x]
         /\ \A j \in 1..Len(others'[k]) :
              \E h \in 1..Len(others[k]) : others'[k][j] = others[k][h] /\ others[k][h] # others[k][i]
         /\ \A h \in 1..Len(others[k]) : others[k][h] # others[k][i] =>
              \E j \in 1..Len(others'[k]) : others'[k][j] = others[k][h]
         /\ \A j \in 1..(i - 1) : others'[k][j] = others[k][j]
<1> DEFINE N == Len(others[k])
           M == Len(others'[k])
<1>1. /\ \A x \in Node : x # k => others'[x] = others[x]
      /\ M = N - 1
      /\ \A j \in 1..(N - 1) : others'[k][j] = IF j = i THEN others[k][N] ELSE others[k][j]
  BY DropConnectionEffect, Zenon
<1>2. N \in Nat /\ i \in 1..N
  BY DEF Typed
<1>3. \A j \in 1..N : others[k][i] = others[k][j] => i = j
  BY <1>2, Zenon DEF Places, Listed
<1> HIDE DEF N, M
<1>4. /\ N \in 1..N
      /\ \A j \in 1..M : j \in 1..(N - 1) /\ j \in 1..N /\ (j = i => N # i)
      /\ \A j \in 1..N : j \in 1..M \/ j = N
      /\ N # i => i \in 1..M
      /\ \A j \in 1..(i - 1) : j \in 1..(N - 1) /\ j # i
  BY <1>1, <1>2
<1>5. ASSUME NEW j \in 1..M
      PROVE  \E h \in 1..N : others'[k][j] = others[k][h] /\ others[k][h] # others[k][i]
  <2>1. CASE j = i
    <3>1. others'[k][j] = others[k][N] /\ N # i
      BY <1>1, <1>4, <2>1, Zenon
    <3> QED BY <1>3, <1>4, <3>1, Zenon
  <2>2. CASE j # i
    <3>1. others'[k][j] = others[k][j] /\ j \in 1..N
      BY <1>1, <1>4, <2>2, Zenon
    <3> QED BY <1>3, <2>2, <3>1, Zenon
  <2> QED BY <2>1, <2>2, Zenon
<1>6. ASSUME NEW h \in 1..N, others[k][h] # others[k][i]
      PROVE  \E j \in 1..M : others'[k][j] = others[k][h]
  <2>1. h # i
    BY <1>6, Zenon
  <2>2. CASE h = N
    <3>1. i \in 1..M
      BY <1>4, <2>1, <2>2
    <3>2. others'[k][i] = others[k][N]
      BY <1>1, <1>4, <3>1, Zenon
    <3> QED BY <2>2, <3>1, <3>2, Zenon
  <2>3. CASE h # N
    <3>1. h \in 1..M
      BY <1>4, <2>3, Zenon
    <3>2. others'[k][h] = others[k][h]
      BY <1>1, <1>4, <2>1, <3>1, Zenon
    <3> QED BY <3>1, <3>2, Zenon
  <2> QED BY <2>2, <2>3, Zenon
<1>7. \A j \in 1..(i - 1) : others'[k][j] = others[k][j]
  BY <1>1, <1>4, Zenon
<1> QED BY <1>1, <1>5, <1>6, <1>7, Zenon DEF N, M

\* SendNext with a write that failed.
LEMMA DropSent ==
  ASSUME Typed, LinkInv, NEW k \in Node, SendNext(k), DropConnection(k, left[k])
  PROVE  LET c == others[k][left[k]]
         IN /\ c \in Connection /\ left[k] \in 1..Len(others[k])
            /\ beat'[k] = beat[k] \/ beat'[k] = <<>>
            /\ \A x \in Node : x # k => beat'[x] = beat[x] /\ left'[x] = left[x]
                                        /\ nodeConnectionChange'[x] = nodeConnectionChange[x]
            /\ UNCHANGED <<role, cur, open, inbox, nonLeaderNodes, crawlID, backlog, replying>>
            /\ Whole(nodeConnectionChange'[k])
            /\ \A a : /\ Adds(ToTell(k)', a) <=> Adds(ToTell(k), a) /\ a # Address(c)
                      /\ Drops(ToTell(k)', a) <=> Drops(ToTell(k), a) \/ a = Address(c)
<1> DEFINE c == others[k][left[k]]
           ch == nodeConnectionChange[k]
<1>1. /\ left[k] \in 1..Len(others[k]) /\ c \in Connection
      /\ left' = [left EXCEPT ![k] = left[k] - 1]
      /\ beat' = [beat EXCEPT ![k] = IF left[k] = 1 THEN <<>> ELSE @]
      /\ UNCHANGED <<role, cur, open, nonLeaderNodes, crawlID, backlog, replying>>
  BY SendNextCases, Zenon DEF election, follow, serve
<1>2. /\ nodeConnectionChange' = [nodeConnectionChange EXCEPT ![k] = @ \o <<"R">> \o Address(c)]
      /\ inbox' = inbox
  BY Zenon DEF DropConnection
<1>3. DOMAIN beat = Node /\ DOMAIN left = Node /\ DOMAIN nodeConnectionChange = Node
  BY DEF Typed, TypeOK
<1>4. /\ beat'[k] = beat[k] \/ beat'[k] = <<>>
      /\ \A x \in Node : x # k => beat'[x] = beat[x] /\ left'[x] = left[x]
  BY <1>1, <1>3, Zenon
<1>5. /\ nodeConnectionChange'[k] = ch \o <<"R">> \o Address(c)
      /\ \A x \in Node : x # k => nodeConnectionChange'[x] = nodeConnectionChange[x]
  BY <1>2, <1>3, Zenon
<1>6. ch \in Message /\ Whole(ch) /\ "R" \in Field /\ "R" # "A"
  <2>1. ch \in Message /\ Whole(ch)
    BY Zenon DEF Typed, LinkInv, Ids
  <2>2. "R" \in Field /\ "R" # "A"
    BY DEF Field, Words
  <2> QED BY <2>1, <2>2
<1>7. nodeConnectionChange'[k] = More(ch, "R", c)
  BY <1>5, Zenon DEF More
<1>8. ToTell(k)' = <<"">> \o More(ch, "R", c) /\ ToTell(k) = <<"">> \o ch
  BY <1>7, Zenon DEF ToTell
<1> HIDE DEF c, ch
<1>9. /\ Whole(More(ch, "R", c))
      /\ \A a : /\ Adds(<<"">> \o More(ch, "R", c), a) <=>
                     \/ "R" = "A" /\ a = Address(c)
                     \/ Adds(<<"">> \o ch, a) /\ ~("R" = "R" /\ a = Address(c))
                /\ Drops(<<"">> \o More(ch, "R", c), a) <=>
                     Drops(<<"">> \o ch, a) \/ ("R" = "R" /\ a = Address(c))
  BY <1>1, <1>6, ChangeTold, Zenon
<1>10. \A a : /\ Adds(ToTell(k)', a) <=> Adds(ToTell(k), a) /\ a # Address(c)
              /\ Drops(ToTell(k)', a) <=> Drops(ToTell(k), a) \/ a = Address(c)
  BY <1>6, <1>8, <1>9, Zenon
<1> QED BY <1>1, <1>2, <1>4, <1>5, <1>7, <1>9, <1>10 DEF c

LEMMA LinkDrop ==
  ASSUME Typed, Typed', Places, LinkInv, NEW k \in Node, SendNext(k), DropConnection(k, left[k])
  PROVE  /\ LinkInv' /\ \A m \in Node \ {k} : Quiet(m)
         /\ Dropping(k, Address(others[k][left[k]]))
         /\ \A j \in 1..Len(others'[k]) : \E h \in 1..Len(others[k]) : others'[k][j] = others[k][h]
<1> DEFINE i == left[k]
           c == others[k][i]
           d == Address(c)
<1>1. /\ c \in Connection /\ i \in 1..Len(others[k])
      /\ beat'[k] = beat[k] \/ beat'[k] = <<>>
      /\ \A x \in Node : x # k => beat'[x] = beat[x] /\ left'[x] = left[x]
                                  /\ nodeConnectionChange'[x] = nodeConnectionChange[x]
      /\ UNCHANGED <<role, cur, inbox, nonLeaderNodes, crawlID, backlog, replying>>
      /\ Whole(nodeConnectionChange'[k])
      /\ \A a : /\ Adds(ToTell(k)', a) <=> Adds(ToTell(k), a) /\ a # d
                /\ Drops(ToTell(k)', a) <=> Drops(ToTell(k), a) \/ a = d
  BY DropSent
<1>2. /\ \A x \in Node : x # k => others'[x] = others[x]
      /\ \A j \in 1..Len(others'[k]) :
           \E h \in 1..Len(others[k]) : others'[k][j] = others[k][h] /\ others[k][h] # c
      /\ \A h \in 1..Len(others[k]) : others[k][h] # c =>
           \E j \in 1..Len(others'[k]) : others'[k][j] = others[k][h]
      /\ \A j \in 1..(i - 1) : others'[k][j] = others[k][j]
  BY <1>1, DropList
<1>3. \A j \in 1..Len(others'[k]) :
         \E h \in 1..Len(others[k]) : others'[k][j] = others[k][h] /\ others[k][h] # c
  BY <1>2
<1>4. \A h \in 1..Len(others[k]) : others[k][h] # c =>
         \E j \in 1..Len(others'[k]) : others'[k][j] = others[k][h]
  BY <1>2
<1>5. ASSUME NEW x, Contains(others'[k], x) PROVE Contains(others[k], x) /\ x # c
  <2>1. PICK j \in 1..Len(others'[k]) : others'[k][j] = x
    BY <1>5, Zenon DEF Contains
  <2>2. PICK h \in 1..Len(others[k]) : others'[k][j] = others[k][h] /\ others[k][h] # c
    BY <1>3, Zenon
  <2> QED BY <2>1, <2>2, Zenon DEF Contains
<1>6. Shrinks /\ \A m \in Node : backlog'[m] \subseteq backlog[m] /\ replying'[m] \subseteq replying[m]
  <2>1. ASSUME NEW m \in Node, NEW x, Contains(others'[m], x) PROVE Contains(others[m], x)
    <3>1. CASE m = k
      BY <1>5, <2>1, <3>1
    <3>2. CASE m # k
      BY <1>2, <2>1, <3>2
    <3> QED BY <3>1, <3>2
  <2> QED BY <1>1, <2>1, Zenon DEF Shrinks
<1>7. \A n \in Node : SameNode(n) /\ Mine(n)' = Mine(n)
  BY <1>1, Zenon DEF SameNode, Mine
<1>8. Served' /\ OneList' /\ OneReply' /\ Plain'
  BY <1>6, <1>7, LinksLess, Zenon
<1>9. Ids' /\ nonLeaderNodes' \in [Node -> Seq(Pair)]
  <2>1. ASSUME NEW m \in Node
        PROVE  /\ role'[m] # "follower" => crawlID'[m] \in CrawlIDs
               /\ beat'[m] # <<>> => beat'[m][1] \in CrawlIDs
               /\ Whole(nodeConnectionChange'[m])
    BY <1>1, Zenon DEF LinkInv, Ids
  <2> QED BY <1>1, <2>1, Zenon DEF Ids, LinkInv
<1>10. ASSUME NEW m \in Node \ {k} PROVE Quiet(m)
  <2>1. SameLead(m)
    BY <1>1, <1>2, Zenon DEF SameLead
  <2> QED BY <1>6, <1>7, <2>1, QuietFrame, Zenon
<1>11. Dropping(k, d)
  <2>1. ASSUME NEW a, Linked(k, a)' PROVE Linked(k, a)
    <3>1. PICK j \in 1..Len(others'[k]) : Address(others'[k][j]) = a
      BY <2>1, Zenon DEF Linked
    <3>2. PICK h \in 1..Len(others[k]) : others'[k][j] = others[k][h]
      BY <1>3, Zenon
    <3> QED BY <3>1, <3>2, Zenon DEF Linked
  <2>2. ASSUME NEW a, Linked(k, a), a # d PROVE Linked(k, a)'
    <3>1. PICK h \in 1..Len(others[k]) : Address(others[k][h]) = a
      BY <2>2, Zenon DEF Linked
    <3>2. others[k][h] # c
      BY <2>2, <3>1
    <3>3. PICK j \in 1..Len(others'[k]) : others'[k][j] = others[k][h]
      BY <1>4, <3>2, Zenon
    <3> QED BY <3>1, <3>3, Zenon DEF Linked
  <2> HIDE DEF c, d, i
  <2>3. \A a : Gains(k, a)' => Gains(k, a) /\ a # d
    <3>1. beat'[k] # <<>> => Sending(k)' = Sending(k) /\ beat[k] # <<>>
      BY <1>1, Zenon DEF Sending
    <3> QED BY <1>1, <3>1, Zenon DEF Gains
  <2>4. \A a : Remains(k, a) /\ a # d => Remains(k, a)'
    <3>1. beat'[k] # <<>> => Sending(k)' = Sending(k) /\ beat[k] # <<>>
      BY <1>1, Zenon DEF Sending
    <3> QED BY <1>1, <3>1, Zenon DEF Remains
  <2>5. ASSUME NEW n \in Node, NEW l, NEW q, Script(n, k, l, q)'
        PROVE  Script(n, k, l, q) /\ \A a : Stays(n, k, l, q, a)' <=> Stays(n, k, l, q, a) /\ a # d
    <3>1. Script(n, k, l, q)
      BY <1>5, <1>6, <1>7, <2>5, ScriptSame, Zenon
    <3>2. Mine(n) # c
      BY <1>5, <1>7, <2>5, Zenon DEF Script, OnList
    <3>3. /\ Unsent(k, Mine(n)) <=> (beat'[k] # <<>> /\ (left'[k] = 0 \/ \E j \in 1..left'[k] : others'[k][j] = Mine(n)))
          /\ Unsent(k, Mine(n)) => beat'[k] = beat[k]
      <4>1. Mine(n) # others[k][left[k]] /\ \A j \in 1..(left[k] - 1) : others'[k][j] = others[k][j]
        BY <1>2, <3>2 DEF c, i
      <4> QED BY <4>1, UnsentAfter
    <3>4. /\ Unsent(k, Mine(n))' <=> Unsent(k, Mine(n))
          /\ Unsent(k, Mine(n)) => Sending(k)' = Sending(k)
      BY <1>7, <3>3, Zenon DEF Unsent, Sending
    <3>5. ASSUME NEW a PROVE Stays(n, k, l, q, a)' <=> Stays(n, k, l, q, a) /\ a # d
      <4>1. Heard(n, k, l, q, a)' <=> Heard(n, k, l, q, a)
        BY <3>4, Zenon DEF Heard
      <4> QED BY <1>1, <4>1, Zenon DEF Stays
    <3> QED BY <3>1, <3>5
  <2> QED BY <2>1, <2>2, <2>3, <2>4, <2>5, Zenon DEF Dropping
<1>12. \A j \in 1..Len(others'[k]) : \E h \in 1..Len(others[k]) : others'[k][j] = others[k][h]
  BY <1>3, Zenon
<1> QED BY <1>8, <1>9, <1>10, <1>11, <1>12, Zenon DEF LinkInv

(***************************************************************************)
(* connectNewNode                                                           *)
(***************************************************************************)
\* The list of k, and what it tells, are those from before and address d; a node
\* that is answered now is sent the list.
Adding(k, d) ==
  /\ \A a : Linked(k, a)' <=> Linked(k, a) \/ a = d
  /\ \A a : Gains(k, a)' => Gains(k, a) \/ a = d
  /\ \A a : Remains(k, a) \/ a = d => Remains(k, a)'
  /\ \A n \in Node : \A l, q : Script(n, k, l, q)' =>
       \/ Script(n, k, l, q) /\ \A a : Stays(n, k, l, q, a)' <=> Stays(n, k, l, q, a) \/ a = d
       \/ \A a : Stays(n, k, l, q, a)' <=> a = d \/ Gains(k, a) \/ (Linked(k, a) /\ Remains(k, a))

\* No ghosts are told of, as the address is on the list now,
LEMMA GhostlessRegister ==
  ASSUME NEW k, NEW d, Ghostless(k), Adding(k, d)
  PROVE  Ghostless(k)'
<1>1. \A a : ~Linked(k, a)' => ~Gains(k, a)'
  BY Zenon DEF Ghostless, Adding
<1>2. ASSUME NEW n \in Node, NEW l, NEW q, Script(n, k, l, q)', NEW a, ~Linked(k, a)'
      PROVE  ~Stays(n, k, l, q, a)'
  <2>1. ~Linked(k, a) /\ a # d /\ ~Gains(k, a)
    BY <1>2, Zenon DEF Ghostless, Adding
  <2>2. \/ Script(n, k, l, q) /\ (Stays(n, k, l, q, a)' <=> Stays(n, k, l, q, a) \/ a = d)
        \/ Stays(n, k, l, q, a)' <=> a = d \/ Gains(k, a) \/ (Linked(k, a) /\ Remains(k, a))
    BY <1>2, Zenon DEF Adding
  <2> QED BY <2>1, <2>2, Zenon DEF Ghostless
<1> QED BY <1>1, <1>2, Zenon DEF Ghostless

\* ... and the living are, by what is still to be told or by the reply.
LEMMA UnforgettingRegister ==
  ASSUME NEW k, NEW d, Unforgetting(k), Adding(k, d),
         \A a : Living(k, a)' => Living(k, a) \/ a = d,
         \A a : Living(k, a) => Linked(k, a)
  PROVE  Unforgetting(k)'
<1>1. \A a : Living(k, a)' => Remains(k, a)'
  BY Zenon DEF Unforgetting, Adding
<1>2. ASSUME NEW n \in Node, NEW l, NEW q, Script(n, k, l, q)', NEW a, Living(k, a)'
      PROVE  Stays(n, k, l, q, a)'
  <2>1. a = d \/ (Living(k, a) /\ Linked(k, a) /\ Remains(k, a))
    BY <1>2, Zenon DEF Unforgetting
  <2>2. \/ Script(n, k, l, q) /\ (Stays(n, k, l, q, a)' <=> Stays(n, k, l, q, a) \/ a = d)
        \/ Stays(n, k, l, q, a)' <=> a = d \/ Gains(k, a) \/ (Linked(k, a) /\ Remains(k, a))
    BY <1>2, Zenon DEF Adding
  <2> QED BY <2>1, <2>2, Zenon DEF Unforgetting
<1> QED BY <1>1, <1>2, Zenon DEF Unforgetting

\* What Register changes, and what it notes down to be told.
LEMMA RegisterFacts ==
  ASSUME Typed, LinkInv, NEW k \in Node, NEW c \in backlog[k], Register(k, c)
  PROVE  /\ c \in Connection /\ left[k] = 0
         /\ UNCHANGED <<role, cur, open, inbox, nonLeaderNodes, crawlID, beat, left>>
         /\ \A x \in Node : backlog'[x] \subseteq backlog[x]
         /\ \A x \in Node : x # k => SameLead(x) /\ replying'[x] = replying[x]
         /\ replying'[k] = replying[k] \cup {[to |-> c, data |-> ReplyTo(k, c)]}
         /\ others'[k] = Append(others[k], c)
         /\ Whole(nodeConnectionChange'[k])
         /\ \A a : /\ Adds(ToTell(k)', a) <=> Adds(ToTell(k), a) \/ a = Address(c)
                   /\ Drops(ToTell(k)', a) <=> Drops(ToTell(k), a)
<1> DEFINE ch == nodeConnectionChange[k]
           new == [to |-> c, data |-> ReplyTo(k, c)]
<1>1. /\ left[k] = 0
      /\ backlog' = [backlog EXCEPT ![k] = @ \ {c}]
      /\ replying' = [replying EXCEPT ![k] = @ \cup {new}]
      /\ others' = [others EXCEPT ![k] = Append(@, c)]
      /\ nodeConnectionChange' = [nodeConnectionChange EXCEPT ![k] = @ \o <<"A">> \o Address(c)]
      /\ UNCHANGED <<role, cur, open, inbox, nonLeaderNodes, crawlID, beat, left>>
  BY Zenon DEF Register, MtxFree, election, links, follow, ReplyTo
<1>2. c \in Connection
  BY DEF Typed
<1>3. /\ DOMAIN replying = Node /\ DOMAIN others = Node /\ DOMAIN nodeConnectionChange = Node
  BY DEF Typed
<1>4. \A x \in Node : backlog'[x] \subseteq backlog[x]
  BY <1>1 DEF Typed
<1> HIDE DEF new
<1>5. /\ replying'[k] = replying[k] \cup {new} /\ others'[k] = Append(others[k], c)
      /\ nodeConnectionChange'[k] = ch \o <<"A">> \o Address(c)
      /\ \A x \in Node : x # k => /\ replying'[x] = replying[x] /\ others'[x] = others[x]
                                  /\ nodeConnectionChange'[x] = nodeConnectionChange[x]
  BY <1>1, <1>3, Zenon
<1>6. \A x \in Node : x # k => SameLead(x) /\ replying'[x] = replying[x]
  BY <1>1, <1>5, Zenon DEF SameLead
<1>7. ch \in Message /\ Whole(ch) /\ "A" \in Field /\ "R" # "A"
  <2>1. ch \in Message /\ Whole(ch)
    BY Zenon DEF Typed, LinkInv, Ids
  <2>2. "A" \in Field /\ "R" # "A"
    BY DEF Field, Words
  <2> QED BY <2>1, <2>2
<1>8. nodeConnectionChange'[k] = More(ch, "A", c)
  BY <1>5, Zenon DEF More
<1>9. ToTell(k)' = <<"">> \o More(ch, "A", c) /\ ToTell(k) = <<"">> \o ch
  BY <1>8, Zenon DEF ToTell
<1> HIDE DEF ch
<1>10. /\ Whole(More(ch, "A", c))
       /\ \A a : /\ Adds(<<"">> \o More(ch, "A", c), a) <=>
                      \/ "A" = "A" /\ a = Address(c)
                      \/ Adds(<<"">> \o ch, a) /\ ~("A" = "R" /\ a = Address(c))
                 /\ Drops(<<"">> \o More(ch, "A", c), a) <=>
                      Drops(<<"">> \o ch, a) \/ ("A" = "R" /\ a = Address(c))
  BY <1>2, <1>7, ChangeTold, Zenon
<1>11. \A a : /\ Adds(ToTell(k)', a) <=> Adds(ToTell(k), a) \/ a = Address(c)
              /\ Drops(ToTell(k)', a) <=> Drops(ToTell(k), a)
  BY <1>7, <1>9, <1>10, Zenon
<1> QED BY <1>1, <1>2, <1>4, <1>5, <1>6, <1>8, <1>10, <1>11, Zenon DEF new

\* A node whose connection is not handled yet waits for its first answer.
LEMMA NotAnswered ==
  ASSUME Typed, Search, Dialled, LinkInv, NEW k \in Node, NEW n \in Node, Mine(n) \in backlog[k], cur[n] # 0
  PROVE  role[n] = "starting" /\ inbox[n] = <<>> /\ NoOk(n) /\ AllHarmless(n)
<1>1. role[n] # "follower"
  BY Zenon DEF LinkInv, Served
<1>2. role[n] \notin {"down", "leader"}
  BY Zenon DEF Search
<1>3. role[n] \in {"down", "starting", "leader", "follower"}
  BY DEF Typed, TypeOK
<1>4. role[n] = "starting"
  BY <1>1, <1>2, <1>3
<1>5. inbox[n] = <<>>
  BY <1>4, Zenon DEF Trying, Dialled
<1>6. \A i \in 1..Len(<<>>) : FALSE
  OBVIOUS
<1> QED BY <1>4, <1>5, <1>6, Zenon DEF NoOk, AllHarmless

LEMMA LinkRegister ==
  ASSUME Typed, Search, Places, Dialled, LinkInv, NEW k \in Node, NEW c \in backlog[k], Register(k, c)
  PROVE  /\ LinkInv' /\ \A m \in Node \ {k} : Quiet(m)
         /\ Adding(k, Address(c))
<1> DEFINE new == [to |-> c, data |-> ReplyTo(k, c)]
           d == Address(c)
<1>1. /\ c \in Connection /\ left[k] = 0
      /\ UNCHANGED <<role, cur, inbox, nonLeaderNodes, crawlID, beat, left>>
      /\ \A x \in Node : backlog'[x] \subseteq backlog[x]
      /\ \A x \in Node : x # k => SameLead(x) /\ replying'[x] = replying[x]
      /\ replying'[k] = replying[k] \cup {new}
      /\ others'[k] = Append(others[k], c)
      /\ Whole(nodeConnectionChange'[k])
      /\ \A a : /\ Adds(ToTell(k)', a) <=> Adds(ToTell(k), a) \/ a = d
                /\ Drops(ToTell(k)', a) <=> Drops(ToTell(k), a)
  BY RegisterFacts, Zenon
<1>2. new.to = c /\ new.data = ReplyTo(k, c)
  OBVIOUS
<1> HIDE DEF new, d
<1>3. /\ \A m \in Node : ~Contains(others[m], c) /\ \A r \in replying[m] : r.to # c
      /\ \A m \in Node : c \in backlog[m] => m = k
  BY Zenon DEF Places, Waiting
<1>4. others[k] \in Seq(Connection)
  BY DEF Typed
<1>5. \A m \in Node : \A x : Contains(others'[m], x) <=> Contains(others[m], x) \/ (m = k /\ x = c)
  <2>1. \A x : Contains(others'[k], x) <=> Contains(others[k], x) \/ x = c
    <3>1. \A x : Contains(Append(others[k], c), x) <=> Contains(others[k], x) \/ x = c
      <4>1. c \in Connection
        BY <1>1
      <4> QED BY <1>4, <4>1, ContainsAppend, Zenon
    <3> QED BY <1>1, <3>1, Zenon
  <2> QED BY <1>1, <2>1, Zenon DEF SameLead
<1>6. \A m \in Node : \A r \in replying'[m] : r \in replying[m] \/ (m = k /\ r = new)
  BY <1>1
<1>7. \A n \in Node : SameNode(n) /\ Mine(n)' = Mine(n)
  BY <1>1, Zenon DEF SameNode, Mine
<1>8. Ids' /\ nonLeaderNodes' \in [Node -> Seq(Pair)]
  <2>1. ASSUME NEW m \in Node
        PROVE  /\ role'[m] # "follower" => crawlID'[m] \in CrawlIDs
               /\ beat'[m] # <<>> => beat'[m][1] \in CrawlIDs
               /\ Whole(nodeConnectionChange'[m])
    BY <1>1, Zenon DEF LinkInv, Ids, SameLead
  <2> QED BY <1>1, <2>1, Zenon DEF Ids, LinkInv
<1>9. Served'
  BY <1>1, ServedLess, Zenon DEF LinkInv
<1>10. OneList'
  <2> SUFFICES ASSUME NEW m \in Node, NEW j \in Node
               PROVE  /\ \A x : Contains(others'[m], x) /\ Contains(others'[j], x) => m = j
                      /\ \A r \in replying'[j] : Contains(others'[m], r.to) => m = j
                      /\ \A r \in replying'[m], s \in replying'[j] : r.to = s.to => m = j /\ r = s
    BY Zenon DEF OneList
  <2>0. /\ \A x : Contains(others[m], x) /\ Contains(others[j], x) => m = j
        /\ \A r \in replying[j] : Contains(others[m], r.to) => m = j
        /\ \A r \in replying[m], s \in replying[j] : r.to = s.to => m = j /\ r = s
    BY Zenon DEF LinkInv, OneList
  <2>1. ASSUME NEW x, Contains(others'[m], x), Contains(others'[j], x) PROVE m = j
    <3>1. Contains(others[m], x) \/ (m = k /\ x = c)
      BY <1>5, <2>1, Zenon
    <3>2. Contains(others[j], x) \/ (j = k /\ x = c)
      BY <1>5, <2>1, Zenon
    <3> QED BY <1>3, <2>0, <3>1, <3>2, Zenon
  <2>2. ASSUME NEW r \in replying'[j], Contains(others'[m], r.to) PROVE m = j
    <3>1. Contains(others[m], r.to) \/ (m = k /\ r.to = c)
      BY <1>5, <2>2, Zenon
    <3>2. (r \in replying[j] /\ r.to # c) \/ (j = k /\ r.to = c)
      BY <1>2, <1>3, <1>6, Zenon
    <3> QED BY <1>3, <2>0, <3>1, <3>2, Zenon
  <2>3. ASSUME NEW r \in replying'[m], NEW s \in replying'[j], r.to = s.to PROVE m = j /\ r = s
    <3>1. (r \in replying[m] /\ r.to # c) \/ (m = k /\ r = new /\ r.to = c)
      BY <1>2, <1>3, <1>6, Zenon
    <3>2. (s \in replying[j] /\ s.to # c) \/ (j = k /\ s = new /\ s.to = c)
      BY <1>2, <1>3, <1>6, Zenon
    <3> QED BY <2>0, <2>3, <3>1, <3>2, Zenon
  <2> QED BY <2>1, <2>2, <2>3
<1>11. \A n \in Node : Mine(n) = c /\ cur[n] # 0 =>
         role[n] = "starting" /\ inbox[n] = <<>> /\ NoOk(n) /\ AllHarmless(n)
  BY NotAnswered, Zenon
<1>12. OneReply'
  <2> SUFFICES ASSUME NEW n \in Node, NEW m \in Node, NEW r \in replying'[m], cur'[n] # 0, r.to = Mine(n)'
               PROVE  role'[n] = "starting" /\ NoOk(n)'
    BY Zenon DEF OneReply
  <2>1. role[n] = "starting" /\ NoOk(n)
    BY <1>1, <1>2, <1>6, <1>7, <1>11, Zenon DEF LinkInv, OneReply
  <2> QED BY <1>1, <1>7, <2>1, SameNodeKeeps, Zenon
<1>13. Plain'
  <2> SUFFICES ASSUME NEW n \in Node, NEW m \in Node, OnList(n, m)' PROVE AllHarmless(n)'
    BY Zenon DEF Plain
  <2>1. cur[n] # 0 /\ (Contains(others[m], Mine(n)) \/ Mine(n) = c)
    BY <1>1, <1>5, <1>7, Zenon DEF OnList
  <2>2. AllHarmless(n)
    BY <1>11, <2>1, Zenon DEF LinkInv, Plain, OnList
  <2> QED BY <1>7, <2>2, SameNodeKeeps, Zenon
<1>14. ASSUME NEW m \in Node \ {k} PROVE Quiet(m)
  <2>1. SameLead(m) /\ replying'[m] \subseteq replying[m]
    BY <1>1, Zenon
  <2> QED BY <1>7, <2>1, QuietFrame, Zenon
<1>15. Adding(k, d)
  <2>1. \A a : Linked(k, a)' <=> Linked(k, a) \/ a = d
    <3>1. \A a : Linked(k, a) <=> \E x : Contains(others[k], x) /\ Address(x) = a
      BY Zenon DEF Linked, Contains
    <3>2. \A a : Linked(k, a)' <=> \E x : Contains(others'[k], x) /\ Address(x) = a
      BY Zenon DEF Linked, Contains
    <3> QED BY <1>5, <3>1, <3>2, Zenon DEF d
  <2>2. \A x : Unsent(k, x) <=> beat[k] # <<>>
    BY <1>1, Zenon DEF Unsent
  <2>3. \A x : Unsent(k, x)' <=> beat[k] # <<>>
    BY <1>1, Zenon DEF Unsent
  <2>4. Sending(k)' = Sending(k)
    BY <1>1, Zenon DEF Sending
  <2>5. \A a : Gains(k, a)' => Gains(k, a) \/ a = d
    BY <1>1, <2>4, Zenon DEF Gains
  <2>6. \A a : Remains(k, a) \/ a = d => Remains(k, a)'
    BY <1>1, <2>4, Zenon DEF Remains
  <2>7. ASSUME NEW n \in Node, NEW l, NEW q, Script(n, k, l, q)', Mine(n) # c
        PROVE  Script(n, k, l, q) /\ \A a : Stays(n, k, l, q, a)' <=> Stays(n, k, l, q, a) \/ a = d
    <3>1. \A r \in replying'[k] : r.to = Mine(n) => r \in replying[k]
      BY <1>2, <1>6, <2>7, Zenon
    <3>2. Contains(others'[k], Mine(n)) => Contains(others[k], Mine(n))
      BY <1>5, <2>7, Zenon
    <3>3. Script(n, k, l, q)
      BY <1>7, <2>7, <3>1, <3>2, ScriptSame, Zenon
    <3>4. ASSUME NEW a PROVE Stays(n, k, l, q, a)' <=> Stays(n, k, l, q, a) \/ a = d
      <4>1. Unsent(k, Mine(n))' <=> Unsent(k, Mine(n))
        BY <2>2, <2>3, Zenon
      <4>2. Heard(n, k, l, q, a)' <=> Heard(n, k, l, q, a)
        BY <2>4, <4>1, Zenon DEF Heard
      <4> QED BY <1>1, <4>2, Zenon DEF Stays
    <3> QED BY <3>3, <3>4
  <2>8. ASSUME NEW n \in Node, NEW l, NEW q, Script(n, k, l, q)', Mine(n) = c, NEW a
        PROVE  Stays(n, k, l, q, a)' <=> a = d \/ Gains(k, a) \/ (Linked(k, a) /\ Remains(k, a))
    <3>1. cur[n] # 0
      BY <1>1, <2>8, Zenon DEF Script, OnList
    <3>2. role[n] = "starting" /\ inbox[n] = <<>>
      BY <1>11, <2>8, <3>1, Zenon
    <3>3. "starting" # "follower"
      OBVIOUS
    <3>4. Promised(n, k, l, q)'
      BY <1>1, <2>8, <3>2, <3>3, Zenon DEF Script, Following, Answered
    <3>5. q = <<>> /\ l = InitialNodes(Fields(ReplyTo(k, c)))
      BY <1>2, <1>3, <1>6, <1>7, <2>8, <3>4, Zenon DEF Promised
    <3>6. Held(l, Parsed(q), a) <=> Linked(k, a)
      <4>1. Unread(<<>>) /\ Len(<<>>) = 0
        BY DEF Unread
      <4>2. Len(Parsed(q)) = 0
        BY <3>5, <4>1, ParsedSeq, Zenon
      <4>3. Held(l, Parsed(q), a) <=> a \in ToSet(l)
        BY <4>2, HeldNil
      <4>4. a \in ToSet(l) <=> Linked(k, a)
        BY <1>1, <3>5, ReplyNodes, Zenon
      <4> QED BY <4>3, <4>4, Zenon
    <3>7. Unsent(k, Mine(n))' <=> beat[k] # <<>>
      BY <2>3, Zenon
    <3>8. Heard(n, k, l, q, a)' <=> \/ beat[k] # <<>> /\ Adds(Sending(k), a)
                                    \/ Linked(k, a) /\ (beat[k] # <<>> => ~Drops(Sending(k), a))
      BY <2>4, <3>6, <3>7, Zenon DEF Heard
    <3> QED BY <1>1, <3>8, Zenon DEF Stays, Gains, Remains
  <2> QED BY <2>1, <2>5, <2>6, <2>7, <2>8, Zenon DEF Adding
<1> QED BY <1>8, <1>9, <1>10, <1>12, <1>13, <1>14, <1>15, Zenon DEF LinkInv, d

(***************************************************************************)
(* The first run of the nodes                                               *)
(***************************************************************************)
GhostInv ==
  /\ RaftInv /\ LinkInv /\ restarts \in Nat
  /\ \A m \in Node : Ghostless(m)
  /\ restarts = 0 => FirstRun /\ \A m \in Node : Unforgetting(m)

\* m knows connection x.
Knows(m, x) == Contains(others[m], x) \/ x \in backlog[m]

\* Connections a leader knows, and those that live.
LEMMA KnownIs ==
  ASSUME Typed, NEW m \in Node, NEW x, Knows(m, x)
  PROVE  x \in Connection /\ x.node \in Node
<1>1. ASSUME Contains(others[m], x) PROVE x \in Connection
  <2>1. PICK i \in 1..Len(others[m]) : others[m][i] = x
    BY <1>1, Zenon DEF Contains
  <2>2. others[m] \in Seq(Connection)
    BY DEF Typed
  <2>3. others[m][i] \in Connection
    <3> HIDE DEF Connection
    <3> QED BY <2>2
  <2> QED BY <2>1, <2>3
<1>2. ASSUME x \in backlog[m] PROVE x \in Connection
  BY <1>2 DEF Typed
<1>3. x \in Connection
  BY <1>1, <1>2, Zenon DEF Knows
<1> QED BY <1>3 DEF Connection

LEMMA KnownConnected ==
  ASSUME FirstRun, NEW m \in Node, NEW x, Knows(m, x)
  PROVE  Connected(x)
BY Zenon DEF FirstRun, Knows, Contains

\* FirstRun and Living after a step that keeps the connections the leaders know.
LEMMA FirstRunFrame ==
  ASSUME FirstRun,
         \A m \in Node : \A x : Contains(others'[m], x) => Knows(m, x),
         \A m \in Node : \A x : x \in backlog'[m] => Knows(m, x) \/ Connected(x)',
         \A n \in Node : Up(n)' => n \in started',
         \A m \in Node : \A x : Knows(m, x) => Connected(x)'
  PROVE  FirstRun'
<1>1. ASSUME NEW m \in Node, NEW x, Contains(others'[m], x) PROVE Connected(x)'
  BY <1>1, Zenon
<1>2. ASSUME NEW m \in Node, NEW x, x \in backlog'[m] PROVE Connected(x)'
  BY <1>2, Zenon
<1>3. \A m \in Node : \A i \in 1..Len(others'[m]) : Contains(others'[m], others'[m][i])
  BY Zenon DEF Contains
<1> QED BY <1>1, <1>2, <1>3, Zenon DEF FirstRun

LEMMA LivingIs ==
  ASSUME NEW m
  PROVE  \A a : Living(m, a) <=> \E x : Contains(others[m], x) /\ Up(x.node) /\ Address(x) = a
BY Zenon DEF Living, Contains

LEMMA LivingFrame ==
  ASSUME NEW m, \A x : Contains(others'[m], x) => Contains(others[m], x),
         \A x : Contains(others[m], x) /\ Up(x.node)' => Up(x.node)
  PROVE  \A a : Living(m, a)' => Living(m, a)
<1>1. \A a : Living(m, a)' <=> \E x : Contains(others'[m], x) /\ Up(x.node)' /\ Address(x) = a
  BY Zenon DEF Living, Contains
<1> QED BY <1>1, LivingIs, Zenon

\* What has to be shown of a step.
LEMMA GhostStep ==
  ASSUME GhostInv, RaftInv', LinkInv', restarts' \in Nat,
         \A m \in Node : Quiet(m) \/ Ghostless(m)',
         restarts' = 0 =>
           /\ restarts = 0 /\ FirstRun'
           /\ \A m \in Node : Unforgetting(m)' \/ (Quiet(m) /\ \A a : Living(m, a)' => Living(m, a))
  PROVE  GhostInv'
<1>1. \A m \in Node : Ghostless(m)'
  BY GhostlessQuiet, Zenon DEF GhostInv
<1>2. ASSUME restarts' = 0 PROVE FirstRun' /\ \A m \in Node : Unforgetting(m)'
  BY <1>2, UnforgettingQuiet, Zenon DEF GhostInv
<1> QED BY <1>1, <1>2, Zenon DEF GhostInv

\* Most steps: no process starts, no connection is closed or made.
NobodyStarts ==
  /\ UNCHANGED <<started, restarts, open>>
  /\ \A n \in Node : Up(n)' => Up(n)
  /\ \A m \in Node : backlog'[m] \subseteq backlog[m]
  /\ \A m \in Node : \A x : Contains(others'[m], x) => Knows(m, x)

\* A calm step keeps the connections of running processes.
LEMMA FirstRunCalm ==
  ASSUME Typed, FirstRun, NobodyStarts
  PROVE  /\ FirstRun'
         /\ \A m \in Node : \A x : Knows(m, x) /\ Up(x.node)' => Up(x.node)
<1>1. \A m \in Node : \A x : Knows(m, x) /\ Up(x.node)' => Up(x.node)
  BY KnownIs, Zenon DEF NobodyStarts
<1>2. ASSUME NEW m \in Node, NEW x, Knows(m, x) PROVE Connected(x)'
  <2>1. Connected(x)
    BY <1>2, KnownConnected, Zenon
  <2>2. Up(x.node)' => Up(x.node)
    BY <1>1, <1>2, Zenon
  <2> QED BY <2>1, <2>2, Zenon DEF Connected, NobodyStarts
<1>3. \A n \in Node : Up(n)' => n \in started'
  BY Zenon DEF FirstRun, NobodyStarts
<1>4. \A m \in Node : \A x : x \in backlog'[m] => Knows(m, x) \/ Connected(x)'
  <2>1. \A m \in Node : \A x \in backlog'[m] : x \in backlog[m]
    BY DEF NobodyStarts
  <2> QED BY <2>1, Zenon DEF Knows
<1>5. FirstRun'
  BY <1>2, <1>3, <1>4, FirstRunFrame, Zenon DEF NobodyStarts
<1> QED BY <1>1, <1>5

LEMMA GhostCalm ==
  ASSUME GhostInv, RaftInv', LinkInv', NobodyStarts, \A m \in Node : Quiet(m),
         \A m \in Node : \A x : Contains(others'[m], x) => Contains(others[m], x)
  PROVE  GhostInv'
<1>1. restarts' = restarts /\ restarts' \in Nat
  BY Zenon DEF NobodyStarts, GhostInv
<1>2. ASSUME restarts = 0 PROVE FirstRun' /\ \A m \in Node : \A a : Living(m, a)' => Living(m, a)
  <2>1. /\ FirstRun'
        /\ \A m \in Node : \A x : Knows(m, x) /\ Up(x.node)' => Up(x.node)
    BY <1>2, FirstRunCalm, Zenon DEF GhostInv, RaftInv
  <2>2. ASSUME NEW m \in Node PROVE \A a : Living(m, a)' => Living(m, a)
    <3>1. \A x : Contains(others[m], x) /\ Up(x.node)' => Up(x.node)
      BY <2>1, Zenon DEF Knows
    <3> QED BY <3>1, LivingFrame, Zenon
  <2> QED BY <2>1, <2>2
<1> QED BY <1>1, <1>2, GhostStep, Zenon

LEMMA CalmSteps ==
  ASSUME Typed, UNCHANGED <<started, restarts, open, others>>, \A n \in Node : Up(n)' => Up(n),
         \A m \in Node : backlog'[m] \subseteq backlog[m]
  PROVE  NobodyStarts /\ \A m \in Node : \A x : Contains(others'[m], x) => Contains(others[m], x)
BY Zenon DEF NobodyStarts, Knows

(***************************************************************************)
(* Processes that start and end, connections that are made                  *)
(***************************************************************************)
LEMMA GhostBoot ==
  ASSUME GhostInv, NEW n \in Node, Boot(n)
  PROVE  GhostInv'
<1>1. Typed /\ Search /\ LinkInv /\ RaftInv' /\ restarts \in Nat
  BY RaftBoot, Zenon DEF GhostInv, RaftInv
<1>2. Still
  BY <1>1, StillSteps, Zenon
<1>3. LinkInv' /\ \A m \in Node : Quiet(m)
  BY <1>1, <1>2, StillKeeps, Zenon
<1>4. /\ role' = [role EXCEPT ![n] = "starting"] /\ started' = started \cup {n}
      /\ restarts' = IF n \in started THEN restarts + 1 ELSE restarts
      /\ UNCHANGED <<open, others, backlog>>
  BY Zenon DEF Boot, links, lead, serve
<1>5. restarts' \in Nat /\ (restarts' = 0 => restarts = 0 /\ n \notin started)
  BY <1>1, <1>4
<1>6. DOMAIN role = Node
  BY <1>1 DEF Typed, TypeOK
<1>7. \A x \in Node : x # n => role'[x] = role[x]
  BY <1>4, <1>6, Zenon
<1>8. ASSUME restarts' = 0
      PROVE  FirstRun' /\ \A m \in Node : \A a : Living(m, a)' => Living(m, a)
  <2>1. FirstRun /\ n \notin started
    BY <1>5, <1>8, Zenon DEF GhostInv
  <2>2. ASSUME NEW m \in Node, NEW x, Knows(m, x)
        PROVE  Connected(x)' /\ (Up(x.node)' => Up(x.node))
    <3>1. Connected(x) /\ x.node \in Node
      BY <1>1, <2>1, <2>2, KnownConnected, KnownIs, Zenon
    <3>2. x.node # n
      BY <2>1, <3>1, Zenon DEF Connected
    <3>3. role'[x.node] = role[x.node]
      BY <1>7, <3>1, <3>2, Zenon
    <3>4. Up(x.node)' <=> Up(x.node)
      BY <3>3, Zenon DEF Up
    <3>5. x.node \in started'
      BY <1>4, <3>1 DEF Connected
    <3> QED BY <1>4, <3>1, <3>4, <3>5, Zenon DEF Connected
  <2>3. \A x \in Node : Up(x)' => x \in started'
    <3>1. ASSUME NEW x \in Node, x # n, Up(x)' PROVE x \in started'
      <4>1. Up(x)
        BY <1>7, <3>1, Zenon DEF Up
      <4>2. x \in started
        BY <2>1, <4>1, Zenon DEF FirstRun
      <4> QED BY <1>4, <4>2
    <3>2. n \in started'
      BY <1>4
    <3> QED BY <3>1, <3>2
  <2>4. /\ \A m \in Node : \A x : Contains(others'[m], x) => Knows(m, x)
        /\ \A m \in Node : \A x : x \in backlog'[m] => Knows(m, x) \/ Connected(x)'
    BY <1>4, Zenon DEF Knows
  <2>5. FirstRun'
    BY <2>1, <2>2, <2>3, <2>4, FirstRunFrame, Zenon
  <2>6. ASSUME NEW m \in Node PROVE \A a : Living(m, a)' => Living(m, a)
    <3>1. \A x : Contains(others'[m], x) => Contains(others[m], x)
      BY <1>4, Zenon
    <3>2. \A x : Contains(others[m], x) /\ Up(x.node)' => Up(x.node)
      BY <2>2, Zenon DEF Knows
    <3> QED BY <3>1, <3>2, LivingFrame, Zenon
  <2> QED BY <2>5, <2>6
<1> QED BY <1>1, <1>3, <1>5, <1>8, GhostStep, Zenon

\* A process ends: its list is empty, and the connections to it live no more.
LEMMA GhostDie ==
  ASSUME GhostInv, NEW n \in Node, Die(n), UNCHANGED <<started, restarts>>
  PROVE  GhostInv'
<1>1. Typed /\ LinkInv /\ RaftInv' /\ restarts \in Nat
  BY RaftDie, Zenon DEF GhostInv, RaftInv
<1>2. LinkInv' /\ \A m \in Node \ {n} : Quiet(m)
  BY <1>1, LinkDie, Zenon
<1>3. Ghostless(n)' /\ Unforgetting(n)'
  BY <1>1, DeadTellsNothing, Zenon
<1>4. /\ \A x \in Node \ {n} : /\ SameNode(x) /\ SameLead(x) /\ open'[x] = open[x] /\ backlog'[x] = backlog[x]
      /\ role'[n] = "down" /\ others'[n] = <<>> /\ backlog'[n] = {}
  BY <1>1, DieFacts, Zenon
<1>5. \A x \in Node : Up(x)' => Up(x) /\ x # n
  BY <1>4, Zenon DEF Up, SameNode
<1>6. \A m \in Node : \A x : Contains(others'[m], x) => Contains(others[m], x)
  <2>1. \A x : ~Contains(others'[n], x)
    <3>1. \A i \in 1..Len(<<>>) : FALSE
      OBVIOUS
    <3> QED BY <1>4, <3>1, Zenon DEF Contains
  <2> QED BY <1>4, <2>1, Zenon DEF SameLead
<1>7. ASSUME restarts = 0
      PROVE  FirstRun' /\ \A m \in Node : \A a : Living(m, a)' => Living(m, a)
  <2>1. FirstRun
    BY <1>7, Zenon DEF GhostInv
  <2>2. ASSUME NEW m \in Node, NEW x, Knows(m, x)
        PROVE  Connected(x)' /\ (Up(x.node)' => Up(x.node))
    <3>1. Connected(x) /\ x.node \in Node
      BY <1>1, <2>1, <2>2, KnownConnected, KnownIs, Zenon
    <3>2. Up(x.node)' => Up(x.node) /\ open'[x.node] = open[x.node]
      BY <1>4, <1>5, <3>1, Zenon
    <3> QED BY <3>1, <3>2, Zenon DEF Connected
  <2>3. \A x \in Node : Up(x)' => x \in started'
    BY <1>5, <2>1, Zenon DEF FirstRun
  <2>4. \A m \in Node : \A x : x \in backlog'[m] => Knows(m, x) \/ Connected(x)'
    <3>1. ASSUME NEW m \in Node, NEW x, x \in backlog'[m] PROVE x \in backlog[m]
      BY <1>4, <3>1
    <3> QED BY <3>1, Zenon DEF Knows
  <2>5. FirstRun'
    BY <1>6, <2>1, <2>2, <2>3, <2>4, FirstRunFrame, Zenon DEF Knows
  <2>6. ASSUME NEW m \in Node PROVE \A a : Living(m, a)' => Living(m, a)
    <3>1. \A x : Contains(others[m], x) /\ Up(x.node)' => Up(x.node)
      BY <2>2, Zenon DEF Knows
    <3> QED BY <1>6, <3>1, LivingFrame, Zenon
  <2> QED BY <2>5, <2>6
<1> QED BY <1>1, <1>2, <1>3, <1>7, GhostStep, Zenon

\* A connection that is made is open.
LEMMA GhostDial ==
  ASSUME GhostInv, RaftInv', NEW n \in Node, Dial(n)
  PROVE  GhostInv'
<1> DEFINE new == [node |-> n, conn |-> dialled[n] + 1]
<1>1. Typed /\ Places /\ LinkInv /\ restarts \in Nat
  BY Zenon DEF GhostInv, RaftInv
<1>2. LinkInv' /\ \A m \in Node : Quiet(m)
  BY <1>1, LinkDial, Zenon
<1>3. /\ role[n] = "starting"
      /\ open' = [open EXCEPT ![n] = @ \cup {dialled[n] + 1}]
      /\ UNCHANGED <<role, others, started, restarts>>
      /\ \A m \in Node : \A c \in backlog'[m] : c \in backlog[m] \/ c = new
  BY <1>1, DialFacts, Zenon
<1>4. new.node = n /\ new.conn = dialled[n] + 1
  OBVIOUS
<1> HIDE DEF new
<1>5. /\ \A x \in Node : open[x] \subseteq open'[x]
      /\ dialled[n] + 1 \in open'[n]
  BY <1>1, <1>3 DEF Typed, TypeOK
<1>6. \A x \in Node : Up(x)' <=> Up(x)
  BY <1>3, Zenon DEF Up
<1>7. Up(n)
  <2>1. "starting" # "down"
    OBVIOUS
  <2> QED BY <1>3, <2>1, Zenon DEF Up
<1>8. ASSUME restarts = 0
      PROVE  FirstRun' /\ \A m \in Node : \A a : Living(m, a)' => Living(m, a)
  <2>1. FirstRun
    BY <1>8, Zenon DEF GhostInv
  <2>2. ASSUME NEW m \in Node, NEW x, Knows(m, x)
        PROVE  Connected(x)' /\ (Up(x.node)' => Up(x.node))
    <3>1. Connected(x) /\ x.node \in Node
      BY <1>1, <2>1, <2>2, KnownConnected, KnownIs, Zenon
    <3>2. x.conn \in open[x.node] => x.conn \in open'[x.node]
      BY <1>5, <3>1
    <3> QED BY <1>3, <1>6, <3>1, <3>2, Zenon DEF Connected
  <2>3. \A x \in Node : Up(x)' => x \in started'
    BY <1>3, <1>6, <2>1, Zenon DEF FirstRun
  <2>4. ASSUME NEW m \in Node, NEW x, x \in backlog'[m] PROVE Knows(m, x) \/ Connected(x)'
    <3>1. x \in backlog[m] \/ x = new
      BY <1>3, <2>4, Zenon
    <3>2. new.node \in started' /\ new.conn \in open'[new.node]
      BY <1>3, <1>4, <1>5, <1>7, <2>1, Zenon DEF FirstRun
    <3> QED BY <3>1, <3>2, Zenon DEF Knows, Connected
  <2>5. FirstRun'
    BY <1>3, <2>1, <2>2, <2>3, <2>4, FirstRunFrame, Zenon DEF Knows
  <2>6. ASSUME NEW m \in Node PROVE \A a : Living(m, a)' => Living(m, a)
    <3>1. \A x : Contains(others'[m], x) => Contains(others[m], x)
      BY <1>3, Zenon
    <3>2. \A x : Contains(others[m], x) /\ Up(x.node)' => Up(x.node)
      BY <2>2, Zenon DEF Knows
    <3> QED BY <3>1, <3>2, LivingFrame, Zenon
  <2> QED BY <2>5, <2>6
<1> QED BY <1>1, <1>2, <1>3, <1>8, GhostStep, Zenon

\* A connection a leader knows is not the one that is closed for an address.
LEMMA KnownStays ==
  ASSUME Typed, Dialled, LinkInv, NEW n \in Node, Trying(n), Len(inbox[n]) >= 1,
         inbox[n][1][1] # "ok", Len(Fields(inbox[n][1])) = 2,
         NEW m \in Node, NEW x, Knows(m, x)
  PROVE  x # Mine(n)
<1> SUFFICES ASSUME x = Mine(n) PROVE FALSE
  OBVIOUS
<1>1. inbox[n] \in Seq(Message) /\ Len(inbox[n]) \in Nat
  BY DEF Typed
<1>2. 1 \in 1..Len(inbox[n]) /\ inbox[n] # <<>>
  BY <1>1
<1>3. inbox[n][1] \in Message /\ Len(inbox[n][1]) >= 2
  BY <1>2, InboxMessage, Zenon
<1>4. x \notin backlog[m]
  BY <1>2, Zenon DEF Dialled
<1>5. OnList(n, m)
  BY <1>4, Zenon DEF Knows, OnList, Trying
<1>6. Harmless(inbox[n][1])
  BY <1>2, <1>5, Zenon DEF LinkInv, Plain, AllHarmless
<1>7. Fields(inbox[n][1])[1] = "ok"
  BY <1>3, <1>6, NoAddress, Zenon
<1> QED BY <1>3, <1>7, FieldsHead, Zenon

\* networkhandler is deleted only for an address, which no leader sends.
LEMMA GhostReadReply ==
  ASSUME MaxRead = 1, GhostInv, RaftInv', NEW n \in Node, ReadReply(n)
  PROVE  GhostInv'
<1>1. Typed /\ Dialled /\ LinkInv /\ restarts \in Nat
  BY Zenon DEF GhostInv, RaftInv
<1>2. LinkInv' /\ \A m \in Node : Quiet(m)
  BY <1>1, LinkReadReply, Zenon
<1>3. /\ Trying(n) /\ Len(inbox[n]) >= 1 /\ role'[n] \in {"starting", "follower"}
      /\ UNCHANGED <<others, backlog, started, restarts>>
      /\ \A x \in Node : x # n => role'[x] = role[x]
      /\ \/ open' = open
         \/ /\ open' = [open EXCEPT ![n] = @ \ {cur[n]}]
            /\ inbox[n][1][1] # "ok" /\ Len(Fields(inbox[n][1])) = 2
  <2>1. \A x : x = "starting" \/ x = "follower" => x \in {"starting", "follower"}
    OBVIOUS
  <2> QED BY <1>1, <2>1, ReadReplyFacts, Zenon DEF SameNode
<1>4. Up(n)
  <2>1. "starting" # "down"
    OBVIOUS
  <2> QED BY <1>3, <2>1, Zenon DEF Up, Trying
<1>5. \A x \in Node : Up(x)' => Up(x)
  BY <1>3, <1>4, Zenon DEF Up
<1>6. CASE open' = open
  <2>1. NobodyStarts /\ \A m \in Node : \A x : Contains(others'[m], x) => Contains(others[m], x)
    <3>1. \A m \in Node : backlog'[m] \subseteq backlog[m]
      BY <1>3
    <3> QED BY <1>1, <1>3, <1>5, <1>6, <3>1, CalmSteps, Zenon
  <2> QED BY <1>2, <2>1, GhostCalm, Zenon
<1>7. CASE /\ open' = [open EXCEPT ![n] = @ \ {cur[n]}]
           /\ inbox[n][1][1] # "ok" /\ Len(Fields(inbox[n][1])) = 2
  <2>1. \A x \in Node : \A k : k \in open[x] /\ ~(x = n /\ k = cur[n]) => k \in open'[x]
    BY <1>1, <1>7 DEF Typed, TypeOK
  <2>2. ASSUME restarts = 0
        PROVE  FirstRun' /\ \A m \in Node : \A a : Living(m, a)' => Living(m, a)
    <3>1. FirstRun
      BY <2>2, Zenon DEF GhostInv
    <3>2. ASSUME NEW m \in Node, NEW x, Knows(m, x) PROVE Connected(x)' /\ (Up(x.node)' => Up(x.node))
      <4>1. Connected(x) /\ x.node \in Node /\ x \in Connection
        BY <1>1, <3>1, <3>2, KnownConnected, KnownIs, Zenon
      <4>2. x # Mine(n)
        BY <1>1, <1>3, <1>7, <3>2, KnownStays, Zenon
      <4>3. ~(x.node = n /\ x.conn = cur[n])
        BY <4>1, <4>2, MineIs
      <4>4. Up(x.node)' => Up(x.node)
        BY <1>5, <4>1, Zenon
      <4> QED BY <1>3, <2>1, <4>1, <4>3, <4>4, Zenon DEF Connected
    <3>3. \A x \in Node : Up(x)' => x \in started'
      BY <1>3, <1>5, <3>1, Zenon DEF FirstRun
    <3>4. FirstRun'
      BY <1>3, <3>1, <3>2, <3>3, FirstRunFrame, Zenon DEF Knows
    <3>5. ASSUME NEW m \in Node PROVE \A a : Living(m, a)' => Living(m, a)
      <4>1. /\ \A x : Contains(others'[m], x) => Contains(others[m], x)
            /\ \A x : Contains(others[m], x) /\ Up(x.node)' => Up(x.node)
        BY <1>3, <3>2, Zenon DEF Knows
      <4> QED BY <4>1, LivingFrame, Zenon
    <3> QED BY <3>4, <3>5
  <2> QED BY <1>1, <1>2, <1>3, <2>2, GhostStep, Zenon
<1> QED BY <1>3, <1>6, <1>7, Zenon

\* A connection is put on the list.
LEMMA GhostRegister ==
  ASSUME GhostInv, RaftInv', NEW k \in Node, NEW c \in backlog[k], Register(k, c)
  PROVE  GhostInv'
<1> DEFINE d == Address(c)
<1>1. Typed /\ Search /\ Places /\ Dialled /\ LinkInv /\ restarts \in Nat
  BY Zenon DEF GhostInv, RaftInv
<1>2. LinkInv' /\ (\A m \in Node \ {k} : Quiet(m)) /\ Adding(k, d)
  BY <1>1, LinkRegister, Zenon
<1>3. /\ c \in Connection
      /\ UNCHANGED <<role, open>>
      /\ \A x \in Node : backlog'[x] \subseteq backlog[x]
      /\ \A x \in Node : x # k => SameLead(x)
      /\ others'[k] = Append(others[k], c)
  BY <1>1, RegisterFacts, Zenon
<1>4. UNCHANGED <<started, restarts>>
  BY Zenon DEF Register, world
<1> HIDE DEF d
<1>5. \A x : Contains(others'[k], x) <=> Contains(others[k], x) \/ x = c
  <2>1. others[k] \in Seq(Connection)
    BY <1>1 DEF Typed
  <2>2. \A x : Contains(Append(others[k], c), x) <=> Contains(others[k], x) \/ x = c
    BY <1>3, <2>1, ContainsAppend, Zenon
  <2> QED BY <1>3, <2>2, Zenon
<1>6. NobodyStarts
  <2>1. \A x \in Node : Up(x)' => Up(x)
    BY <1>3, Zenon DEF Up
  <2>2. \A m \in Node : \A x : Contains(others'[m], x) => Knows(m, x)
    BY <1>3, <1>5, Zenon DEF SameLead, Knows
  <2> QED BY <1>3, <1>4, <2>1, <2>2, Zenon DEF NobodyStarts
<1>7. Ghostless(k)'
  BY <1>2, GhostlessRegister, Zenon DEF GhostInv
<1>8. ASSUME restarts = 0
      PROVE  /\ FirstRun' /\ Unforgetting(k)'
             /\ \A m \in Node \ {k} : \A a : Living(m, a)' => Living(m, a)
  <2>1. FirstRun /\ Unforgetting(k)
    BY <1>8, Zenon DEF GhostInv
  <2>2. /\ FirstRun'
        /\ \A m \in Node : \A x : Knows(m, x) /\ Up(x.node)' => Up(x.node)
    BY <1>1, <1>6, <2>1, FirstRunCalm, Zenon
  <2>3. ASSUME NEW m \in Node \ {k} PROVE \A a : Living(m, a)' => Living(m, a)
    <3>1. /\ \A x : Contains(others'[m], x) => Contains(others[m], x)
          /\ \A x : Contains(others[m], x) /\ Up(x.node)' => Up(x.node)
      BY <1>3, <2>2, Zenon DEF SameLead, Knows
    <3> QED BY <3>1, LivingFrame, Zenon
  <2>4. \A a : Living(k, a)' => Living(k, a) \/ a = d
    <3>1. \A a : Living(k, a)' <=> \E x : Contains(others'[k], x) /\ Up(x.node)' /\ Address(x) = a
      BY Zenon DEF Living, Contains
    <3>2. \A x : Contains(others[k], x) /\ Up(x.node)' => Up(x.node)
      BY <2>2, Zenon DEF Knows
    <3> QED BY <1>5, <3>1, <3>2, LivingIs, Zenon DEF d
  <2>5. \A a : Living(k, a) => Linked(k, a)
    BY Zenon DEF Living, Linked
  <2>6. Unforgetting(k)'
    BY <1>2, <2>1, <2>4, <2>5, UnforgettingRegister, Zenon
  <2> QED BY <2>2, <2>3, <2>6
<1> QED BY <1>1, <1>2, <1>4, <1>7, <1>8, GhostStep, Zenon

\* The connection that is dropped is one to a process that has ended.
LEMMA GhostDrop ==
  ASSUME GhostInv, RaftInv', NEW k \in Node, SendNext(k), DropConnection(k, left[k]),
         others[k][left[k]].conn \notin open[others[k][left[k]].node]
  PROVE  GhostInv'
<1> DEFINE c == others[k][left[k]]
           d == Address(c)
<1>1. Typed /\ Typed' /\ Places /\ LinkInv /\ restarts \in Nat
  BY Zenon DEF GhostInv, RaftInv
<1>2. LinkInv' /\ (\A m \in Node \ {k} : Quiet(m)) /\ Dropping(k, d)
  BY <1>1, LinkDrop, Zenon
<1>3. left[k] \in 1..Len(others[k]) /\ UNCHANGED <<role, open, backlog>>
  BY <1>1, DropSent, Zenon
<1>4. UNCHANGED <<started, restarts>>
  BY Zenon DEF SendNext, world
<1>5. /\ \A x \in Node : x # k => others'[x] = others[x]
      /\ \A j \in 1..Len(others'[k]) : \E h \in 1..Len(others[k]) : others'[k][j] = others[k][h]
  <2>1. /\ \A x \in Node : x # k => others'[x] = others[x]
        /\ \A j \in 1..Len(others'[k]) :
             \E h \in 1..Len(others[k]) : others'[k][j] = others[k][h] /\ others[k][h] # c
    BY <1>1, <1>3, DropList, Zenon
  <2> HIDE DEF c
  <2> QED BY <2>1, Zenon
<1>6. \A m \in Node : \A x : Contains(others'[m], x) => Contains(others[m], x)
  <2>1. \A x : Contains(others'[k], x) => Contains(others[k], x)
    BY <1>5, Zenon DEF Contains
  <2> QED BY <1>5, <2>1, Zenon
<1>7. NobodyStarts
  <2>1. \A x \in Node : Up(x)' => Up(x)
    BY <1>3, Zenon DEF Up
  <2>2. \A m \in Node : backlog'[m] \subseteq backlog[m]
    BY <1>3
  <2> QED BY <1>3, <1>4, <1>6, <2>1, <2>2, Zenon DEF NobodyStarts, Knows
<1>8. Ghostless(k)'
  BY <1>2, GhostlessDrop, Zenon DEF GhostInv
<1>9. ASSUME restarts = 0
      PROVE  /\ FirstRun' /\ Unforgetting(k)'
             /\ \A m \in Node : \A a : Living(m, a)' => Living(m, a)
  <2>1. FirstRun /\ Unforgetting(k)
    BY <1>9, Zenon DEF GhostInv
  <2>2. /\ FirstRun'
        /\ \A m \in Node : \A x : Knows(m, x) /\ Up(x.node)' => Up(x.node)
    BY <1>1, <1>7, <2>1, FirstRunCalm, Zenon
  <2>3. ASSUME NEW m \in Node PROVE \A a : Living(m, a)' => Living(m, a)
    <3>1. \A x : Contains(others[m], x) /\ Up(x.node)' => Up(x.node)
      BY <2>2, Zenon DEF Knows
    <3> QED BY <1>6, <3>1, LivingFrame, Zenon
  <2>4. ~Up(c.node)
    <3>1. Contains(others[k], c)
      BY <1>3, Zenon DEF Contains
    <3>2. Connected(c)
      BY <2>1, <3>1, KnownConnected, Zenon DEF Knows
    <3> QED BY <3>2, Zenon DEF Connected
  <2>5. ~Living(k, d)
    <3>1. \A x : Address(x) = d => x.node = c.node
      BY DEF Address
    <3> HIDE DEF c, d
    <3> QED BY <2>4, <3>1, LivingIs, Zenon
  <2>6. \A a : Living(k, a)' => Living(k, a) /\ a # d
    BY <2>3, <2>5, Zenon
  <2>7. Unforgetting(k)'
    <3> HIDE DEF d
    <3> QED BY <1>2, <2>1, <2>6, UnforgettingDrop, Zenon
  <2> QED BY <2>2, <2>3, <2>7
<1> QED BY <1>1, <1>2, <1>4, <1>8, <1>9, GhostStep, Zenon

\* The steps that keep connections, processes and lists.
LEMMA GhostKept ==
  ASSUME GhostInv, RaftInv', LinkInv', \A m \in Node : Quiet(m),
         UNCHANGED <<started, restarts, open, others>>, \A n \in Node : Up(n)' => Up(n),
         \A m \in Node : backlog'[m] \subseteq backlog[m]
  PROVE  GhostInv'
BY CalmSteps, GhostCalm, Zenon DEF GhostInv, RaftInv

\* The steps of startListen, of crawls and of passed requests.
LEMMA GhostStill ==
  ASSUME GhostInv, RaftInv', NEW n \in Node,
         \/ Refused(n) \/ AssumeLeadership(n) \/ CrawlDone(n) \/ PassRequest(n) \/ PassAnswer(n)
         \/ UNCHANGED <<election, links, follow, crawlID, lead, serve>> /\ UNCHANGED <<started, restarts>>
  PROVE  GhostInv'
<1>1. Typed /\ Search /\ LinkInv
  BY Zenon DEF GhostInv, RaftInv
<1>2. Still
  BY <1>1, StillSteps, Zenon
<1>3. LinkInv' /\ \A m \in Node : Quiet(m)
  BY <1>1, <1>2, StillKeeps, Zenon
<1>4. UNCHANGED <<started, restarts, open, others, backlog>>
  BY Zenon DEF Refused, AssumeLeadership, CrawlDone, PassRequest, PassAnswer, links, lead, serve, world
<1>5. \A x \in Node : Up(x)' => Up(x)
  <2>1. CASE AssumeLeadership(n)
    <3>1. role[n] = "starting" /\ role' = [role EXCEPT ![n] = "leader"]
      BY <2>1, Zenon DEF AssumeLeadership
    <3>2. DOMAIN role = Node /\ "starting" # "down"
      BY <1>1 DEF Typed, TypeOK
    <3>3. \A x \in Node : x # n => role'[x] = role[x]
      BY <3>1, <3>2, Zenon
    <3>4. Up(n)
      BY <3>1, <3>2, Zenon DEF Up
    <3> QED BY <3>3, <3>4, Zenon DEF Up
  <2>2. CASE ~AssumeLeadership(n)
    <3>1. role' = role
      BY <2>2, Zenon DEF Refused, CrawlDone, PassRequest, PassAnswer, election
    <3> QED BY <3>1, Zenon DEF Up
  <2> QED BY <2>1, <2>2
<1>6. \A m \in Node : backlog'[m] \subseteq backlog[m]
  BY <1>4
<1> QED BY <1>3, <1>4, <1>5, <1>6, GhostKept, Zenon

\* connectNewNode and the answers.
LEMMA GhostAnswer ==
  ASSUME GhostInv, RaftInv', NEW m \in Node, Answer(m)
  PROVE  GhostInv'
<1>1. Typed /\ Places /\ LinkInv
  BY Zenon DEF GhostInv, RaftInv
<1>2. ASSUME NEW c \in backlog[m], Register(m, c) PROVE GhostInv'
  BY <1>2, GhostRegister, Zenon
<1>3. ASSUME NEW c \in backlog[m], Redirect(m, c) PROVE GhostInv'
  <2>1. LinkInv' /\ \A x \in Node : Quiet(x)
    BY <1>1, <1>3, LinkRedirect, Zenon
  <2>2. /\ UNCHANGED <<role, started, restarts, open, others>>
        /\ backlog' = [backlog EXCEPT ![m] = @ \ {c}]
    BY <1>3, Zenon DEF Redirect, lead, world
  <2>3. \A x \in Node : backlog'[x] \subseteq backlog[x]
    BY <1>1, <2>2 DEF Typed
  <2>4. \A x \in Node : Up(x)' => Up(x)
    BY <2>2, Zenon DEF Up
  <2> QED BY <2>1, <2>2, <2>3, <2>4, GhostKept, Zenon
<1>4. ASSUME NEW r \in replying[m], WriteReply(m, r) PROVE GhostInv'
  <2>1. LinkInv' /\ \A x \in Node : Quiet(x)
    BY <1>1, <1>4, LinkWriteReply, Zenon
  <2>2. UNCHANGED <<role, started, restarts, open, others, backlog>>
    BY <1>4, Zenon DEF WriteReply, election, lead, world
  <2>3. \A x \in Node : backlog'[x] \subseteq backlog[x]
    BY <2>2
  <2>4. \A x \in Node : Up(x)' => Up(x)
    BY <2>2, Zenon DEF Up
  <2> QED BY <2>1, <2>2, <2>3, <2>4, GhostKept, Zenon
<1> QED BY <1>2, <1>3, <1>4, Zenon DEF Answer

\* heartbeatSender.
LEMMA GhostHeartbeat ==
  ASSUME GhostInv, RaftInv', NEW m \in Node, Heartbeat(m)
  PROVE  GhostInv'
<1>1. Typed /\ Typed' /\ Places /\ Beats /\ LinkInv
  BY Zenon DEF GhostInv, RaftInv
<1>2. UNCHANGED <<role, started, restarts, open, backlog>>
  BY Zenon DEF Heartbeat, TakeHeartbeat, BeginSend, SendNext, election, links, serve, world
<1>3. \A x \in Node : backlog'[x] \subseteq backlog[x]
  BY <1>2
<1>4. \A x \in Node : Up(x)' => Up(x)
  BY <1>2, Zenon DEF Up
<1>5. CASE TakeHeartbeat(m)
  <2>1. LinkInv' /\ \A x \in Node : Quiet(x)
    BY <1>1, <1>5, LinkTakeHeartbeat, Zenon
  <2>2. others' = others
    BY <1>5, Zenon DEF TakeHeartbeat
  <2> QED BY <1>2, <1>3, <1>4, <2>1, <2>2, GhostKept, Zenon
<1>6. CASE BeginSend(m)
  <2>1. LinkInv' /\ \A x \in Node : Quiet(x)
    BY <1>1, <1>6, LinkBeginSend, Zenon
  <2>2. others' = others
    BY <1>6, Zenon DEF BeginSend
  <2> QED BY <1>2, <1>3, <1>4, <2>1, <2>2, GhostKept, Zenon
<1>7. CASE SendNext(m)
  <2>1. \/ /\ inbox' = Delivered(inbox, others[m][left[m]], beat[m])
           /\ UNCHANGED <<others, nodeConnectionChange>>
        \/ /\ others[m][left[m]].conn \notin open[others[m][left[m]].node]
           /\ DropConnection(m, left[m])
    BY <1>1, <1>7, SendNextCases, Zenon
  <2>2. CASE /\ inbox' = Delivered(inbox, others[m][left[m]], beat[m])
             /\ UNCHANGED <<others, nodeConnectionChange>>
    <3>1. LinkInv' /\ \A x \in Node : Quiet(x)
      BY <1>1, <1>7, <2>2, LinkSendBeat, Zenon
    <3> QED BY <1>2, <1>3, <1>4, <2>2, <3>1, GhostKept, Zenon
  <2> QED BY <1>7, <2>1, <2>2, GhostDrop, Zenon
<1> QED BY <1>5, <1>6, <1>7 DEF Heartbeat

\* connectToLeader.
LEMMA GhostConnect ==
  ASSUME MaxRead = 1, GhostInv, RaftInv', NEW n \in Node, Connect(n)
  PROVE  GhostInv'
BY GhostDial, GhostStill, GhostReadReply, Zenon DEF Connect

\* listenForHeartbeat.
LEMMA GhostListen ==
  ASSUME MaxRead = 1, GhostInv, RaftInv', NEW n \in Node, Listen(n)
  PROVE  GhostInv'
<1>1. CASE ReadHeartbeat(n)
  <2>1. Typed /\ LinkInv
    BY Zenon DEF GhostInv, RaftInv
  <2>2. LinkInv' /\ \A x \in Node : Quiet(x)
    BY <1>1, <2>1, LinkReadHeartbeat, Zenon
  <2>3. UNCHANGED <<role, open, others, backlog, started, restarts>>
    BY <1>1, <2>1, ReadHeartbeatFacts, Zenon
  <2>4. \A x \in Node : backlog'[x] \subseteq backlog[x]
    BY <2>3
  <2>5. \A x \in Node : Up(x)' => Up(x)
    BY <2>3, Zenon DEF Up
  <2> QED BY <2>2, <2>3, <2>4, <2>5, GhostKept, Zenon
<1>2. CASE ReadPastEnd(n) \/ ReadEof(n)
  BY <1>2, GhostDie, Zenon DEF ReadPastEnd, ReadEof, world
<1> QED BY <1>1, <1>2 DEF Listen

LEMMA GhostInit == Init => GhostInv
<1> SUFFICES ASSUME Init PROVE GhostInv
  OBVIOUS
<1>1. RaftInv
  BY RaftInit
<1>2. \A m \in Node : /\ others[m] = <<>> /\ backlog[m] = {} /\ replying[m] = {} /\ cur[m] = 0
                      /\ nonLeaderNodes[m] = <<>> /\ beat[m] = <<>> /\ nodeConnectionChange[m] = <<>>
                      /\ role[m] = "down" /\ crawlID[m] = FirstCrawlID
  BY DEF Init
<1>3. restarts = 0 /\ restarts \in Nat
  BY DEF Init
<1>4. nonLeaderNodes \in [Node -> Seq(Pair)]
  <2> DEFINE D == Seq(Pair)
  <2>1. <<>> \in D
    OBVIOUS
  <2> HIDE DEF D
  <2>2. nonLeaderNodes \in [Node -> D]
    BY <2>1 DEF Init
  <2> QED BY <2>2 DEF D
<1>5. \A m \in Node : \A c : ~Contains(others[m], c)
  <2>1. \A i \in 1..Len(<<>>) : FALSE
    OBVIOUS
  <2> QED BY <1>2, <2>1, Zenon DEF Contains
<1>6. \A m \in Node : \A a : ~Linked(m, a) /\ ~Living(m, a)
  <2>1. \A i \in 1..Len(<<>>) : FALSE
    OBVIOUS
  <2> QED BY <1>2, <2>1, Zenon DEF Linked, Living
<1>7. "down" # "follower"
  OBVIOUS
<1>8. Ids
  BY <1>2, WholeNil, CrawlAssumption, Zenon DEF Ids
<1>9. \A m \in Node : (\A r : r \notin replying[m]) /\ \A c : c \notin backlog[m]
  BY <1>2
<1>10. Served /\ OneList /\ OneReply
  BY <1>2, <1>5, <1>7, <1>9, Zenon DEF Served, OneList, OneReply
<1>11. \A n, m \in Node : ~OnList(n, m)
  BY <1>2, Zenon DEF OnList
<1>12. LinkInv
  BY <1>4, <1>8, <1>10, <1>11, Zenon DEF LinkInv, Plain
<1>13. \A m \in Node : \A a : ~Gains(m, a)
  <2>1. \A a : ~Adds(<<"">> \o <<>>, a)
    <3>1. "" \in Field
      BY DEF Field, Words
    <3>2. ASSUME NEW S, NEW x \in S PROVE <<x>> \o <<>> \in Seq(S) /\ Len(<<x>> \o <<>>) < 4
      BY <3>2
    <3>3. <<"">> \o <<>> \in Message /\ Len(<<"">> \o <<>>) < 4
      BY <3>1, <3>2, Zenon DEF Message
    <3> QED BY <3>3, SaysNothing, Zenon
  <2> QED BY <1>2, <2>1, Zenon DEF Gains, ToTell
<1>14. \A m \in Node : Ghostless(m) /\ Unforgetting(m)
  BY <1>6, <1>11, <1>13, Zenon DEF Ghostless, Unforgetting, Script
<1>15. \A n \in Node : ~Up(n)
  BY <1>2, Zenon DEF Up
<1>16. FirstRun
  BY <1>5, <1>9, <1>15, Zenon DEF FirstRun, Contains
<1> QED BY <1>1, <1>3, <1>12, <1>14, <1>16, Zenon DEF GhostInv

LEMMA GhostNext ==
  ASSUME MaxRead = 1
  PROVE  GhostInv /\ [Next]_vars => GhostInv'
<1> SUFFICES ASSUME GhostInv, [Next]_vars PROVE GhostInv'
  OBVIOUS
<1>1. RaftInv'
  BY RaftNext, Zenon DEF GhostInv
<1>2. CASE UNCHANGED vars
  <2>1. UNCHANGED <<election, links, follow, crawlID, lead, serve>> /\ UNCHANGED <<started, restarts>>
    BY <1>2, Zenon DEF vars, world
  <2>2. UNCHANGED <<role, cur, inbox, nonLeaderNodes, others, nodeConnectionChange, beat, left, backlog,
                        replying, crawlID, open>>
    BY <2>1, Zenon DEF election, links, follow, lead, serve
  <2>3. Still
    BY <2>2, Zenon DEF Still
  <2>4. LinkInv' /\ \A m \in Node : Quiet(m)
    BY <2>3, StillKeeps, Zenon DEF GhostInv
  <2>5. /\ \A n \in Node : Up(n)' => Up(n)
        /\ \A m \in Node : backlog'[m] \subseteq backlog[m]
    BY <2>2 DEF Up
  <2> QED BY <1>1, <2>1, <2>2, <2>4, <2>5, GhostKept, Zenon
<1>3. ASSUME NEW n \in Node, Boot(n) PROVE GhostInv'
  BY <1>3, GhostBoot, Zenon
<1>4. ASSUME NEW n \in Node, Crash(n) PROVE GhostInv'
  BY <1>4, GhostDie, Zenon DEF Crash
<1>5. ASSUME NEW n \in Node, Connect(n) \/ Answer(n) \/ Heartbeat(n) \/ Listen(n) PROVE GhostInv'
  BY <1>1, <1>5, GhostConnect, GhostAnswer, GhostHeartbeat, GhostListen, Zenon
<1>6. ASSUME NEW n \in Node, CrawlDone(n) \/ PassRequest(n) \/ Pass(n) PROVE GhostInv'
  <2>1. CASE CrawlDone(n) \/ PassRequest(n) \/ PassAnswer(n)
    BY <1>1, <2>1, GhostStill, Zenon
  <2>2. CASE PassEof(n)
    <3>1. UNCHANGED <<started, restarts>>
      BY <2>2, Zenon DEF PassEof, world
    <3> QED BY <1>1, <2>2, <3>1, GhostDie, GhostStill, Zenon DEF PassEof
  <2> QED BY <1>6, <2>1, <2>2 DEF Pass
<1> QED BY <1>2, <1>3, <1>4, <1>5, <1>6, Zenon DEF Next

LEMMA GhostInvariant ==
  ASSUME MaxRead = 1
  PROVE  Spec => []GhostInv
<1>1. GhostInv /\ [Next]_vars => GhostInv'
  BY GhostNext
<1> QED BY <1>1, GhostInit, PTL DEF Spec

(***************************************************************************)
(* The lists of the followers                                               *)
(***************************************************************************)
\* A follower on the list of m has a script, and View is where it ends.
LEMMA ViewStays ==
  ASSUME Typed, Beats, LinkInv, NEW n \in Node, NEW m \in Node, InTouch(n, m)
  PROVE  /\ Script(n, m, nonLeaderNodes[n], inbox[n])
         /\ View(n, m) \in Seq(Pair)
         /\ \A a : a \in ToSet(View(n, m)) <=> Stays(n, m, nonLeaderNodes[n], inbox[n], a)
<1> DEFINE l    == nonLeaderNodes[n]
           q    == inbox[n]
           p    == Parsed(q)
           last == <<crawlID[m]>> \o nodeConnectionChange[m]
           sent == Sending(m)
<1>1. cur[n] # 0 /\ Contains(others[m], Mine(n)) /\ role[n] = "follower"
  BY Zenon DEF InTouch, Mine, LinkInv, Served
<1>2. Script(n, m, l, q)
  BY <1>1, Zenon DEF Script, OnList, Following
<1>3. p \in Seq(Message) /\ l \in Seq(Pair)
  <2>1. p \in Seq(Message)
    BY InboxUnread, ParsedSeq, Zenon
  <2>2. l \in Seq(Pair)
    BY DEF LinkInv
  <2> QED BY <2>1, <2>2
<1>4. /\ last \in Message
      /\ \A a : /\ Adds(last, a) <=> Adds(ToTell(m), a)
                /\ Drops(last, a) <=> Drops(ToTell(m), a)
  <2>1. crawlID[m] \in Field /\ nodeConnectionChange[m] \in Message /\ "" \in Field
    BY DEF Typed, Field, Words
  <2>2. last \in Message
    <3>1. ASSUME NEW S, NEW s \in Seq(S), NEW x \in S PROVE <<x>> \o s \in Seq(S)
      BY <3>1
    <3> QED BY <2>1, <3>1, Zenon DEF Message
  <2>3. \A a : /\ Adds(last, a) <=> Adds(<<"">> \o nodeConnectionChange[m], a)
               /\ Drops(last, a) <=> Drops(<<"">> \o nodeConnectionChange[m], a)
    BY <2>1, SameChanges, Zenon
  <2> QED BY <2>2, <2>3, Zenon DEF ToTell
<1>5. beat[m] # <<>> => sent \in Message
  <2>1. beat[m] \in Message
    BY DEF Typed
  <2>2. ASSUME beat[m] # <<>> PROVE Len(beat[m]) >= 2
    BY <2>1, <2>2, HarmlessLength, Zenon DEF Beats
  <2> QED BY <2>1, <2>2, FieldsOfMessage, Zenon DEF Sending
<1>6. ToCome(n, m) = (p \o (IF Unsent(m, Mine(n)) THEN <<sent>> ELSE <<>>)) \o <<last>>
  <2>1. left[m] \in Nat
    BY DEF Typed, TypeOK
  <2>2. left[m] = 0 <=> ~(left[m] > 0)
    BY <2>1
  <2>3. (beat[m] # <<>> /\ (left[m] > 0 =>
           \E i \in 1..left[m] : others[m][i] = [node |-> n, conn |-> cur[n]]))
        <=> Unsent(m, Mine(n))
    BY <2>2, Zenon DEF Unsent, Mine
  <2>4. CASE Unsent(m, Mine(n))
    BY <2>3, <2>4, Zenon DEF ToCome, Parsed, Sending
  <2>5. CASE ~Unsent(m, Mine(n))
    BY <2>3, <2>5, Zenon DEF ToCome, Parsed, Sending
  <2> QED BY <2>4, <2>5
<1>7. Unsent(m, Mine(n)) => beat[m] # <<>>
  BY Zenon DEF Unsent
<1> HIDE DEF l, q, p, last, sent
<1>8. /\ ToCome(n, m) \in Seq(Message)
      /\ \A a : Held(l, ToCome(n, m), a) <=>
           \/ Adds(last, a)
           \/ /\ ~Drops(last, a)
              /\ \/ Unsent(m, Mine(n)) /\ Adds(sent, a)
                 \/ Held(l, p, a) /\ (Unsent(m, Mine(n)) => ~Drops(sent, a))
  <2>1. CASE Unsent(m, Mine(n))
    <3>1. sent \in Message
      BY <1>5, <1>7, <2>1
    <3>2. p \o <<sent>> = Append(p, sent) /\ Append(p, sent) \in Seq(Message)
      BY <1>3, <3>1, OneMore, Zenon
    <3>3. /\ Append(p, sent) \o <<last>> = Append(Append(p, sent), last)
          /\ Append(Append(p, sent), last) \in Seq(Message)
      BY <1>4, <3>2, OneMore, Zenon
    <3>4. ToCome(n, m) = Append(Append(p, sent), last)
      BY <1>6, <2>1, <3>2, <3>3, Zenon
    <3>5. \A a : Held(l, Append(p, sent), a) <=> Adds(sent, a) \/ (Held(l, p, a) /\ ~Drops(sent, a))
      BY <1>3, <3>1, HeldAppend, Zenon
    <3>6. \A a : Held(l, Append(Append(p, sent), last), a) <=>
                   Adds(last, a) \/ (Held(l, Append(p, sent), a) /\ ~Drops(last, a))
      BY <1>4, <3>2, HeldAppend, Zenon
    <3> QED BY <2>1, <3>3, <3>4, <3>5, <3>6, Zenon
  <2>2. CASE ~Unsent(m, Mine(n))
    <3>1. p \o <<>> = p /\ p \o <<last>> = Append(p, last) /\ Append(p, last) \in Seq(Message)
      BY <1>3, <1>4, OneMore, Zenon
    <3>2. ToCome(n, m) = Append(p, last)
      BY <1>6, <2>2, <3>1, Zenon
    <3>3. \A a : Held(l, Append(p, last), a) <=> Adds(last, a) \/ (Held(l, p, a) /\ ~Drops(last, a))
      BY <1>3, <1>4, HeldAppend, Zenon
    <3> QED BY <2>2, <3>1, <3>2, <3>3, Zenon
  <2> QED BY <2>1, <2>2
<1>9. View(n, m) \in Seq(Pair) /\ \A a : a \in ToSet(View(n, m)) <=> Held(l, ToCome(n, m), a)
  BY <1>3, <1>8, ViewHas, Zenon DEF l
<1>10. \A a : Stays(n, m, l, q, a) <=> Held(l, ToCome(n, m), a)
  BY <1>4, <1>8, Zenon DEF Stays, Heard, p, sent
<1> QED BY <1>2, <1>9, <1>10, Zenon DEF l, q

\* What a follower will have been told about, its leader has a connection to, when every
\* call of receiveData returns one message.
THEOREM NoGhosts ==
  ASSUME MaxRead = 1
  PROVE  Spec => []NoGhostNodes
<1>1. GhostInv => NoGhostNodes
  <2> SUFFICES ASSUME GhostInv, NEW n \in Node, NEW m \in Node, InTouch(n, m),
                      NEW a \in ToSet(View(n, m))
               PROVE  a \in {Address(c) : c \in ToSet(others[m])}
    BY DEF NoGhostNodes
  <2>1. Typed /\ Beats /\ LinkInv /\ Ghostless(m)
    BY Zenon DEF GhostInv, RaftInv
  <2>2. Linked(m, a)
    BY <2>1, ViewStays, Zenon DEF Ghostless
  <2>3. PICK i \in 1..Len(others[m]) : Address(others[m][i]) = a
    BY <2>2, Zenon DEF Linked
  <2>4. others[m] \in Seq(Connection)
    BY <2>1 DEF Typed
  <2>5. others[m][i] \in ToSet(others[m])
    BY <2>3, <2>4, ToSetOf, Zenon
  <2> QED BY <2>3, <2>5
<1> QED BY <1>1, GhostInvariant, PTL

\* As long as no node starts again, no follower misses another one, when every call of
\* receiveData returns one message.
THEOREM NobodyForgotten ==
  ASSUME MaxRead = 1
  PROVE  Spec => []NoLiveNodeForgotten
<1>1. GhostInv => NoLiveNodeForgotten
  <2> SUFFICES ASSUME GhostInv, restarts = 0, NEW n \in Node, NEW x \in Node, NEW m \in Node,
                      InTouch(n, m), InTouch(x, m)
               PROVE  Contains(View(n, m), <<x, "port">>)
    BY Zenon DEF NoLiveNodeForgotten
  <2>1. Typed /\ Beats /\ LinkInv /\ Unforgetting(m)
    BY Zenon DEF GhostInv, RaftInv
  <2>2. PICK i \in 1..Len(others[m]) : others[m][i] = Mine(x)
    BY Zenon DEF InTouch, Mine, Contains
  <2>3. Mine(x).node = x /\ Address(Mine(x)) = <<x, "port">>
    BY DEF Mine, Address
  <2>4. Up(x)
    <3>1. "follower" # "down"
      OBVIOUS
    <3> QED BY <3>1, Zenon DEF InTouch, Up
  <2>5. Living(m, <<x, "port">>)
    BY <2>2, <2>3, <2>4, Zenon DEF Living
  <2>6. View(n, m) \in Seq(Pair) /\ <<x, "port">> \in ToSet(View(n, m))
    BY <2>1, <2>5, ViewStays, Zenon DEF Unforgetting
  <2> QED BY <2>6, ToSetOf, Zenon
<1> QED BY <1>1, GhostInvariant, PTL
=============================================================================
