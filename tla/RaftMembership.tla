---------------------------- MODULE RaftMembership ----------------------------
(***************************************************************************)
(* How the nodes find a leader and keep track of each other:                *)
(* RAFTConsensus.cpp, the client side of its sockets (Networking.cpp) and   *)
(* the order in which ConnectionHandler::startListen opens the port, joins  *)
(* and starts to serve.                                                     *)
(*                                                                          *)
(* A message is the sequence of its fields, as splitStringOn gives them.    *)
(* An ip is the node's name and every node has the same port "port".  A     *)
(* read returns what has arrived up to a newline that happens to be last,   *)
(* so it may return two messages glued together (MaxRead = 2): the field    *)
(* around the inner newline is then "torn".                                 *)
(*                                                                          *)
(* NetworkHandler::receiveData catches what it throws itself and then reads *)
(* the last character of an empty buffer: a node whose connection to the    *)
(* leader is closed dies (ReadEof).  The branch of listenForHeartbeat that  *)
(* chooses a new leader is not reachable and not modelled.                  *)
(***************************************************************************)
EXTENDS Integers, Sequences, SequencesExt

CONSTANTS
  Node,             \* ips of the nodes (strings, as all fields)
  NoNode,           \* the far end of a connection is closed
  Seeds,            \* per node: the entry SEEDS of its .env file, a sequence
  CrawlIDs,         \* values of the leader's crawlID (strings)
  FirstCrawlID,
  Mortal,           \* nodes that may crash by themselves
  MaxRead,          \* messages one call of receiveData may return: 1 or 2
  MaxRestarts,      \* starts after the first one of each node
  MaxCrashes, MaxBeats, MaxForwards                \* bounds of the instance

Words == {"ok", "A", "R", "port", "", "torn"}

ASSUME NodeAssumption  == Node \cap Words = {} /\ NoNode \notin Node
ASSUME SeedsAssumption == Seeds \in [Node -> Seq(Node)]
ASSUME CrawlAssumption == FirstCrawlID \in CrawlIDs /\ CrawlIDs \cap Words = {}
ASSUME ReadAssumption  == MaxRead \in {1, 2}
ASSUME RaftBounds      == /\ MaxRestarts \in Nat
                          /\ MaxCrashes \in Nat
                          /\ MaxBeats \in Nat
                          /\ MaxForwards \in Nat

VARIABLES
  role,             \* "down", "starting" (in connectToLeader), "leader", "follower"
  seed,             \* index of the seed being tried
  target,           \* <<ip, port>> to dial next or dialled last
  \* connections, numbered per dialling node; [node, conn] is one of them
  dialled,          \* connections made so far
  open,             \* numbers of the connections the node's process holds open
  cur,              \* the one networkhandler holds, 0 if none
  peer,             \* node at the far end of cur, NoNode once that has closed
  inbox,            \* messages that arrived on cur and are not read yet
  \* memory of a follower
  leaderIp, nonLeaderNodes,
  crawlID,          \* JobRequestHandler::crawlID, of every node
  \* memory of a leader
  others, nodeConnectionChange,
  beat, left,       \* heartbeat being sent, connections of others still to do
  \* memory of every serving node
  backlog,          \* connections accepted whose request is not handled yet
  replying,         \* replies of connectNewNode that are not written yet
  forward,          \* passRequestToLeader: "none", "waiting", "closed" or "answered"
  \* the world
  started, restarts, crashes, beats, forwards,
  \* history: nodes this process found not running or not leading
  ruledOut

election == <<role, seed, target, ruledOut>>
links    == <<dialled, open, cur, peer, inbox>>
follow   == <<leaderIp, nonLeaderNodes>>
lead     == <<others, nodeConnectionChange, beat, left>>
serve    == <<backlog, replying>>
world    == <<started, restarts, crashes, beats, forwards>>
vars     == <<election, links, follow, crawlID, lead, serve, forward, world>>

Up(n)      == role[n] # "down"
Serving(n) == role[n] \in {"leader", "follower"}

(***************************************************************************)
(* Messages                                                                 *)
(***************************************************************************)
\* connectionToString: two fields.
Address(c) == <<c.node, "port">>

\* splitStringOn leaves out an empty field at the end.
Fields(m) == IF Last(m) = "" THEN Front(m) ELSE m

\* receiveData when the second message arrived before the first was read.
Glue(m, k) == Front(m) \o <<"torn">> \o Tail(k)

\* What one call of receiveData returns after taking k messages from inbox[n].
Received(n, k) == Fields(IF k = 1 THEN inbox[n][1]
                                  ELSE Glue(inbox[n][1], inbox[n][2]))

Readable(n) == {k \in 1..MaxRead : k <= Len(inbox[n])}

\* A message for connection c: it arrives if c is the one its node reads.
Current(c) == cur[c.node] = c.conn

Delivered(box, c, m) ==
  IF Current(c) THEN [box EXCEPT ![c.node] = Append(@, m)] ELSE box

(***************************************************************************)
(* Starting and stopping a process                                          *)
(***************************************************************************)
SeedAt(n, i) == <<Seeds[n][i], "port">>

\* startListen: the port is open (connects succeed) before connectToLeader runs.
Boot(n) ==
  /\ role[n] = "down" /\ (n \in started => restarts < MaxRestarts)
  /\ role' = [role EXCEPT ![n] = "starting"]
  /\ seed' = [seed EXCEPT ![n] = 1]
  /\ target' = [target EXCEPT ![n] = IF Seeds[n] = <<>> THEN @ ELSE SeedAt(n, 1)]
  /\ ruledOut' = [ruledOut EXCEPT ![n] = {}]
  /\ started' = started \cup {n}
  /\ restarts' = IF n \in started THEN restarts + 1 ELSE restarts
  /\ UNCHANGED <<links, follow, crawlID, lead, serve, forward, crashes, beats, forwards>>

\* The end of a process: its memory is gone and its connections are closed.
Die(n) ==
  /\ role' = [role EXCEPT ![n] = "down"]
  /\ open' = [open EXCEPT ![n] = {}]
  /\ cur' = [cur EXCEPT ![n] = 0]
  /\ peer' = [x \in Node |-> IF x = n \/ peer[x] = n THEN NoNode ELSE peer[x]]
  /\ inbox' = [inbox EXCEPT ![n] = <<>>]
  /\ nonLeaderNodes' = [nonLeaderNodes EXCEPT ![n] = <<>>]
  /\ crawlID' = [crawlID EXCEPT ![n] = FirstCrawlID]
  /\ others' = [others EXCEPT ![n] = <<>>]
  /\ nodeConnectionChange' = [nodeConnectionChange EXCEPT ![n] = <<>>]
  /\ beat' = [beat EXCEPT ![n] = <<>>]
  /\ left' = [left EXCEPT ![n] = 0]
  /\ backlog' = [backlog EXCEPT ![n] = {}]
  /\ replying' = [replying EXCEPT ![n] = {}]
  /\ forward' = [x \in Node |-> CASE x = n -> "none"
                                  [] forward[x] = "waiting" /\ leaderIp[x] = n -> "closed"
                                  [] OTHER -> forward[x]]
  /\ UNCHANGED <<seed, target, ruledOut, dialled, leaderIp>>

Crash(n) ==
  /\ Up(n) /\ n \in Mortal /\ crashes < MaxCrashes
  /\ crashes' = crashes + 1
  /\ Die(n)
  /\ UNCHANGED <<started, restarts, beats, forwards>>

(***************************************************************************)
(* connectToLeader                                                          *)
(***************************************************************************)
SeedsLeft(n) == seed[n] <= Len(Seeds[n])

Dialling(n) == role[n] = "starting" /\ cur[n] = 0 /\ SeedsLeft(n)

\* MUTANT of Listening: the port is opened when start() is done.
OpensPortLate(addr) == addr[1] \in Node /\ addr[2] = "port" /\ Serving(addr[1])

Listening(addr) == addr[1] \in Node /\ addr[2] = "port" /\ Up(addr[1])

\* openConnection and sendData("conn..."): accepted by the port of the target
\* even while the target itself is still starting.
Dial(n) ==
  LET to == target[n][1]
      k  == dialled[n] + 1
  IN /\ Dialling(n) /\ Listening(target[n])
     /\ dialled' = [dialled EXCEPT ![n] = k]
     /\ open' = [open EXCEPT ![n] = @ \cup {k}]
     /\ cur' = [cur EXCEPT ![n] = k]
     /\ peer' = [peer EXCEPT ![n] = to]
     /\ inbox' = [inbox EXCEPT ![n] = <<>>]
     /\ backlog' = [backlog EXCEPT ![to] = @ \cup {[node |-> n, conn |-> k]}]
     /\ UNCHANGED <<election, follow, crawlID, lead, replying, forward, world>>

\* MUTANT of NextSeed: continue tries the same seed again.
SameSeed(n) == UNCHANGED <<seed, target, ruledOut>>

NextSeed(n) ==
  /\ seed' = [seed EXCEPT ![n] = @ + 1]
  /\ target' = [target EXCEPT ![n] =
                  IF seed[n] < Len(Seeds[n]) THEN SeedAt(n, seed[n] + 1) ELSE @]
  /\ ruledOut' = [ruledOut EXCEPT ![n] = @ \cup {Seeds[n][seed[n]]}]

\* The exception of openConnection: continue with the next seed.
Refused(n) ==
  /\ Dialling(n) /\ ~Listening(target[n])
  /\ NextSeed(n)
  /\ UNCHANGED <<role, links, follow, crawlID, lead, serve, forward, world>>

\* No seed is left: start() goes on as the leader.
AssumeLeadership(n) ==
  /\ role[n] = "starting" /\ cur[n] = 0 /\ ~SeedsLeft(n)
  /\ role' = [role EXCEPT ![n] = "leader"]
  /\ UNCHANGED <<seed, target, ruledOut, links, follow, crawlID, lead, serve, forward, world>>

\* handleInitialData: pairs from the fourth field on.
InitialNodes(f) == [i \in 1..((Len(f) - 3) \div 2) |-> <<f[2 * i + 2], f[2 * i + 3]>>]

Joined(n, f) ==
  /\ role' = [role EXCEPT ![n] = "follower"]
  /\ leaderIp' = [leaderIp EXCEPT ![n] = target[n][1]]
  /\ nonLeaderNodes' = [nonLeaderNodes EXCEPT ![n] = InitialNodes(f)]
  /\ UNCHANGED <<target, cur, open>>

\* MUTANT of Redirected: networkhandler is deleted and used again.
UsesDeleted(n, f) ==
  /\ target' = [target EXCEPT ![n] = f]
  /\ open' = [open EXCEPT ![n] = @ \ {cur[n]}]
  /\ UNCHANGED <<role, cur, follow>>

\* Another address to try instead of the seed; networkhandler is deleted.
Redirected(n, f) ==
  /\ target' = [target EXCEPT ![n] = f]
  /\ cur' = [cur EXCEPT ![n] = 0]
  /\ open' = [open EXCEPT ![n] = @ \ {cur[n]}]
  /\ UNCHANGED <<role, follow>>

\* Neither: the same address once more, networkhandler is not deleted.
Repeated(n) ==
  /\ cur' = [cur EXCEPT ![n] = 0]
  /\ UNCHANGED <<role, target, open, follow>>

\* tryConnectingWithIp from receiveData on.
ReadReply(n) ==
  /\ role[n] = "starting" /\ cur[n] # 0
  /\ \E k \in Readable(n) :
       LET f == Received(n, k)
       IN /\ \/ f[1] = "ok" /\ Joined(n, f)
             \/ f[1] # "ok" /\ Len(f) = 2 /\ Redirected(n, f)
             \/ f[1] # "ok" /\ Len(f) # 2 /\ Repeated(n)
          /\ inbox' = [inbox EXCEPT ![n] = SubSeq(@, k + 1, Len(@))]
  /\ UNCHANGED <<seed, ruledOut, dialled, peer, crawlID, lead, serve, forward, world>>

(***************************************************************************)
(* connectNewNode                                                           *)
(***************************************************************************)
MtxFree(m) == left[m] = 0

\* The nodes already there, as two fields each.
InitialData(m) == FlattenSeq([i \in DOMAIN others[m] |-> Address(others[m][i])])

\* The leader registers the connection under mtx; the reply is written later.
Register(m, c) ==
  /\ role[m] = "leader" /\ c \in backlog[m] /\ MtxFree(m)
  /\ backlog' = [backlog EXCEPT ![m] = @ \ {c}]
  /\ replying' = [replying EXCEPT ![m] =
       @ \cup {[to |-> c, data |-> <<"ok">> \o Address(c) \o InitialData(m)]}]
  /\ others' = [others EXCEPT ![m] = Append(@, c)]
  /\ nodeConnectionChange' = [nodeConnectionChange EXCEPT ![m] = @ \o <<"A">> \o Address(c)]
  /\ UNCHANGED <<election, links, follow, crawlID, beat, left, forward, world>>

WriteReply(m, r) ==
  /\ r \in replying[m]
  /\ replying' = [replying EXCEPT ![m] = @ \ {r}]
  /\ inbox' = Delivered(inbox, r.to, r.data)
  /\ UNCHANGED <<election, dialled, open, cur, peer, follow, crawlID, lead, backlog, forward, world>>

\* A follower answers with the leader it knows.
Redirect(m, c) ==
  /\ role[m] = "follower" /\ c \in backlog[m]
  /\ backlog' = [backlog EXCEPT ![m] = @ \ {c}]
  /\ inbox' = Delivered(inbox, c, <<leaderIp[m], "port">>)
  /\ ruledOut' = IF Current(c) THEN [ruledOut EXCEPT ![c.node] = @ \cup {m}] ELSE ruledOut
  /\ UNCHANGED <<role, seed, target, dialled, open, cur, peer, follow, crawlID, lead,
                 replying, forward, world>>

(***************************************************************************)
(* heartbeatSender                                                          *)
(***************************************************************************)
\* getHeartbeat, under mtx.
TakeHeartbeat(m) ==
  /\ role[m] = "leader" /\ beat[m] = <<>> /\ beats < MaxBeats
  /\ beat' = [beat EXCEPT ![m] = <<crawlID[m]>> \o
       (IF nodeConnectionChange[m] = <<>> THEN <<"">> ELSE nodeConnectionChange[m])]
  /\ nodeConnectionChange' = [nodeConnectionChange EXCEPT ![m] = <<>>]
  /\ beats' = beats + 1
  /\ UNCHANGED <<election, links, follow, crawlID, others, left, serve, forward,
                 started, restarts, crashes, forwards>>

\* MUTANT of BeginSend: the changes are cleared once mtx is locked for sending.
ClearsLate(m) ==
  /\ beat[m] # <<>> /\ MtxFree(m)
  /\ left' = [left EXCEPT ![m] = Len(others[m])]
  /\ beat' = [beat EXCEPT ![m] = IF others[m] = <<>> THEN <<>> ELSE @]
  /\ nodeConnectionChange' = [nodeConnectionChange EXCEPT ![m] = <<>>]
  /\ UNCHANGED <<election, links, follow, crawlID, others, serve, forward, world>>

\* mtx is locked again for the loop over others, from back to front.
BeginSend(m) ==
  /\ beat[m] # <<>> /\ MtxFree(m)
  /\ left' = [left EXCEPT ![m] = Len(others[m])]
  /\ beat' = [beat EXCEPT ![m] = IF others[m] = <<>> THEN <<>> ELSE @]
  /\ UNCHANGED <<election, links, follow, crawlID, others, nodeConnectionChange, serve,
                 forward, world>>

\* MUTANT of DropConnection: the followers are not told.
DropsSilently(m, i) ==
  LET o == others[m] IN
  /\ others' = [others EXCEPT ![m] = Front([o EXCEPT ![i] = Last(o)])]
  /\ UNCHANGED <<nodeConnectionChange, inbox>>

\* dropConnection: the last one takes the place of the dropped one.
DropConnection(m, i) ==
  LET o == others[m] IN
  /\ nodeConnectionChange' = [nodeConnectionChange EXCEPT ![m] =
                                @ \o <<"R">> \o Address(o[i])]
  /\ others' = [others EXCEPT ![m] = Front([o EXCEPT ![i] = Last(o)])]
  /\ UNCHANGED inbox

\* A write fails only when the far end is closed, and then not always.
SendNext(m) ==
  LET i == left[m]
      c == others[m][i]
  IN /\ i > 0
     /\ \/ /\ inbox' = Delivered(inbox, c, beat[m])
           /\ UNCHANGED <<others, nodeConnectionChange>>
        \/ c.conn \notin open[c.node] /\ DropConnection(m, i)
     /\ left' = [left EXCEPT ![m] = i - 1]
     /\ beat' = [beat EXCEPT ![m] = IF i = 1 THEN <<>> ELSE @]
     /\ UNCHANGED <<election, dialled, open, cur, peer, follow, crawlID, serve, forward, world>>

\* The leader's crawlID changes when a crawl is done (JobQueue, UpdateCrawlID).
CrawlDone(m) ==
  /\ role[m] = "leader"
  /\ \E c \in CrawlIDs \ {crawlID[m]} : crawlID' = [crawlID EXCEPT ![m] = c]
  /\ UNCHANGED <<election, links, follow, lead, serve, forward, world>>

(***************************************************************************)
(* listenForHeartbeat                                                       *)
(***************************************************************************)
\* std::remove and erase: the list without node.
Without(list, node) ==
  LET kept[i \in 0..Len(list)] ==
        IF i = 0 THEN <<>>
        ELSE IF list[i] = node THEN kept[i - 1] ELSE Append(kept[i - 1], list[i])
  IN kept[Len(list)]

\* handleHeartbeat: one change of the list of nodes.
Change(list, op, node) ==
  CASE op = "A" -> IF Contains(list, node) THEN list ELSE Append(list, node)
    [] op = "R" -> Without(list, node)
    [] OTHER    -> list

\* handleHeartbeat: all changes, three fields each, of a heartbeat.
Applied(list, f) ==
  LET k == (Len(f) + 1) \div 3
      after[i \in 0..k] ==
        IF i = 0 THEN list
        ELSE IF 3 * i + 1 > Len(f) THEN after[i - 1]
        ELSE Change(after[i - 1], f[3 * i - 1], <<f[3 * i], f[3 * i + 1]>>)
  IN after[k]

\* The last change has fewer than three fields: reads past the end.
TooShort(f) == (Len(f) - 1) % 3 # 0

ReadHeartbeat(n) ==
  /\ role[n] = "follower"
  /\ \E k \in Readable(n) :
       LET f == Received(n, k)
       IN /\ nonLeaderNodes' = [nonLeaderNodes EXCEPT ![n] = Applied(@, f)]
          /\ crawlID' = [crawlID EXCEPT ![n] = f[1]]
          /\ inbox' = [inbox EXCEPT ![n] = SubSeq(@, k + 1, Len(@))]
  /\ UNCHANGED <<election, dialled, open, cur, peer, leaderIp, lead, serve, forward, world>>

\* ... which may also end the process.
ReadPastEnd(n) ==
  /\ role[n] = "follower"
  /\ \E k \in Readable(n) : TooShort(Received(n, k))
  /\ Die(n)
  /\ UNCHANGED world

\* receiveData on a closed connection, before (starting) or after joining.
ReadEof(n) ==
  /\ Up(n) /\ cur[n] # 0 /\ inbox[n] = <<>> /\ peer[n] = NoNode
  /\ Die(n)
  /\ UNCHANGED world

(***************************************************************************)
(* passRequestToLeader                                                      *)
(***************************************************************************)
\* On a connection of its own; a refused one gives the client an empty answer.
PassRequest(n) ==
  /\ role[n] = "follower" /\ forward[n] \in {"none", "answered"} /\ forwards < MaxForwards
  /\ forwards' = forwards + 1
  /\ forward' = [forward EXCEPT ![n] = IF Up(leaderIp[n]) THEN "waiting" ELSE "answered"]
  /\ UNCHANGED <<election, links, follow, crawlID, lead, serve, started, restarts, crashes, beats>>

\* MUTANT of PassAnswer: the leader leaves the connection open after its answer.
LeavesOpen(n) == forward[n] = "waiting" /\ Serving(leaderIp[n]) /\ UNCHANGED vars

\* receiveData(false) returns when the leader has answered and closed.
PassAnswer(n) ==
  /\ forward[n] = "waiting" /\ Serving(leaderIp[n])
  /\ forward' = [forward EXCEPT ![n] = "answered"]
  /\ UNCHANGED <<election, links, follow, crawlID, lead, serve, world>>

\* The same read of an empty buffer; here the build may leave it out, and the client
\* gets an empty answer.
PassEof(n) ==
  /\ forward[n] = "closed"
  /\ \/ Die(n)
     \/ /\ forward' = [forward EXCEPT ![n] = "answered"]
        /\ UNCHANGED <<election, links, follow, crawlID, lead, serve>>
  /\ UNCHANGED world

(***************************************************************************)
(* Specification                                                            *)
(***************************************************************************)
Init ==
  /\ role = [n \in Node |-> "down"]
  /\ seed = [n \in Node |-> 1]
  /\ target = [n \in Node |-> <<n, "port">>]
  /\ dialled = [n \in Node |-> 0]
  /\ open = [n \in Node |-> {}]
  /\ cur = [n \in Node |-> 0]
  /\ peer = [n \in Node |-> NoNode]
  /\ inbox = [n \in Node |-> <<>>]
  /\ leaderIp = [n \in Node |-> n]
  /\ nonLeaderNodes = [n \in Node |-> <<>>]
  /\ crawlID = [n \in Node |-> FirstCrawlID]
  /\ others = [n \in Node |-> <<>>]
  /\ nodeConnectionChange = [n \in Node |-> <<>>]
  /\ beat = [n \in Node |-> <<>>]
  /\ left = [n \in Node |-> 0]
  /\ backlog = [n \in Node |-> {}]
  /\ replying = [n \in Node |-> {}]
  /\ forward = [n \in Node |-> "none"]
  /\ started = {} /\ restarts = 0 /\ crashes = 0 /\ beats = 0 /\ forwards = 0
  /\ ruledOut = [n \in Node |-> {}]

Connect(n)   == Dial(n) \/ Refused(n) \/ AssumeLeadership(n) \/ ReadReply(n)
Answer(n)    == \/ \E c \in backlog[n] : Register(n, c) \/ Redirect(n, c)
                \/ \E r \in replying[n] : WriteReply(n, r)
Heartbeat(n) == TakeHeartbeat(n) \/ BeginSend(n) \/ SendNext(n)
Listen(n)    == ReadHeartbeat(n) \/ ReadPastEnd(n) \/ ReadEof(n)
Pass(n)      == PassAnswer(n) \/ PassEof(n)

Next == \E n \in Node :
          \/ Boot(n) \/ Crash(n)
          \/ Connect(n) \/ Answer(n) \/ Heartbeat(n) \/ Listen(n)
          \/ CrawlDone(n) \/ PassRequest(n) \/ Pass(n)

Spec == Init /\ [][Next]_vars

\* Every thread of a process that is up goes on; starts and crashes are free.
Fairness == \A n \in Node : /\ WF_vars(Connect(n))
                            /\ WF_vars(Answer(n))
                            /\ WF_vars(Heartbeat(n))
                            /\ WF_vars(Listen(n))
                            /\ WF_vars(Pass(n))

FairSpec == Spec /\ Fairness
=============================================================================
