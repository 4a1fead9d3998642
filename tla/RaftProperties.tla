---------------------------- MODULE RaftProperties ----------------------------
(***************************************************************************)
(* What RAFTConsensus should guarantee.                                     *)
(***************************************************************************)
EXTENDS RaftMembership, FiniteSets

\* The types of the nodes' memory; the heartbeat loop stays inside others, and
\* networkhandler is an open connection (Redirected and NextSeed delete and renew it).
TypeOK ==
  /\ role \in [Node -> {"down", "starting", "leader", "follower"}]
  /\ seed \in [Node -> Nat \ {0}]
  /\ dialled \in [Node -> Nat]
  /\ open \in [Node -> SUBSET Nat]
  /\ cur \in [Node -> Nat]
  /\ peer \in [Node -> Node \cup {NoNode}]
  /\ leaderIp \in [Node -> Node]
  /\ left \in [Node -> Nat]
  /\ forward \in [Node -> {"none", "waiting", "closed", "answered"}]
  /\ ruledOut \in [Node -> SUBSET Node]
  /\ \A n \in Node : left[n] <= Len(others[n]) /\ (cur[n] # 0 => cur[n] \in open[n])

(***************************************************************************)
(* Safety                                                                   *)
(***************************************************************************)

\* Two processes never both act as the leader (isLeader(), RAFTConsensus.h:61):
\* both would hand out jobs and sweep the lease table.  Nothing is voted on:
\* start() becomes leader when every seed refuses the connection, and this is
\* enough when SEEDS names all other nodes and a port is opened before dialling.
AtMostOneLeader ==
  \A n, m \in Node : role[n] = "leader" /\ role[m] = "leader" => n = m

\* Follower n is on the list of a running leader m and reads that connection.
InTouch(n, m) ==
  /\ role[n] = "follower" /\ role[m] = "leader" /\ peer[n] = m
  /\ Contains(others[m], [node |-> n, conn |-> cur[n]])

\* nonLeaderNodes of n once it has handled all that is sent or will be sent
\* to it for the changes up to now: unread heartbeats, the heartbeat the
\* leader's loop has not sent it yet, and the changes for the next one.
ToCome(n, m) ==
  LET unread == [i \in DOMAIN inbox[n] |-> Fields(inbox[n][i])]
      notYet == beat[m] # <<>> /\ (left[m] > 0 =>
                  \E i \in 1..left[m] : others[m][i] = [node |-> n, conn |-> cur[n]])
      taken  == IF notYet THEN <<Fields(beat[m])>> ELSE <<>>
  IN unread \o taken \o <<<<crawlID[m]>> \o nodeConnectionChange[m]>>

View(n, m) ==
  LET q == ToCome(n, m)
      after[i \in 0..Len(q)] ==
        IF i = 0 THEN nonLeaderNodes[n] ELSE Applied(after[i - 1], q[i])
  IN after[Len(q)]

\* Whatever follower n will have been told about, the leader has a connection
\* to: initial data, heartbeats before and after it, reconnects and dropped
\* connections interleave, but no node stays on a list for good.
NoGhostNodes ==
  \A n, m \in Node : InTouch(n, m) =>
    ToSet(View(n, m)) \subseteq {Address(c) : c \in ToSet(others[m])}

\* As long as no node starts again, every follower learns of every other follower,
\* however joining, crashes and the two critical sections of heartbeatSender
\* interleave (RAFTConsensus.cpp:350-378).
NoLiveNodeForgotten ==
  restarts = 0 => \A n, x, m \in Node : InTouch(n, m) /\ InTouch(x, m) =>
    Contains(View(n, m), <<x, "port">>)

(***************************************************************************)
(* Action properties                                                        *)
(***************************************************************************)

\* A process ends only by a crash of its own, not because the leader it is
\* connected to is gone: receiveData is to throw (Networking.cpp:74) and
\* listenForHeartbeat is to look for the new leader (RAFTConsensus.cpp:206-233).
LeaderLossSurvived ==
  [][\A n \in Node : Up(n) /\ role'[n] = "down" => crashes' > crashes]_vars

(***************************************************************************)
(* Liveness                                                                 *)
(***************************************************************************)

\* A node that starts ends up serving, as leader or follower
\* (RAFTConsensus.h:50-51), unless its process ends.  This needs SEEDS that only name
\* earlier nodes: two that name each other may wait for each other's answer.
StartCompletes ==
  \A n \in Node : role[n] = "starting" ~> role[n] # "starting"

\* A follower that passed a request on to the leader does not wait for ever: its client
\* is answered, or the follower's own process ends.  passRequestToLeader waits on a
\* connection without a time-out (RAFTConsensus.cpp:335), so the wait must also end when
\* the leader dies in the middle of it.  The end of the process is no answer: a leader's
\* end may take the follower with it, which LeaderLossSurvived shows.
PassEndsOrDies ==
  \A n \in Node :
    forward[n] \in {"waiting", "closed"} ~> forward[n] = "answered" \/ ~Up(n)
=============================================================================
