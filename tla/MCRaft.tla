------------------------------- MODULE MCRaft -------------------------------
(***************************************************************************)
(* Instances of RaftMembership for TLC: how the SEEDS entries are filled in.*)
(***************************************************************************)
EXTENDS RaftProperties, TLC

\* Every node names all the others.
Mesh == [n \in Node |-> SetToSeq(Node \ {n})]

\* A node names those that were there before it; the first names nobody.
Chain == "a" :> <<>> @@ "b" :> <<"a">> @@ "c" :> <<"b", "a">>

\* Every node names the first one.
Star == [n \in Node |-> IF n = "a" THEN <<>> ELSE <<"a">>]

\* A second heartbeat only while two nodes are up and none has crashed: enough for
\* two heartbeats to be read together.
FewHeartbeats == beats < 2 \/ (crashes = 0 /\ ~Up("c"))

\* A node starts again only where no request is passed on and no crawl was done: the
\* lists of nodes depend on neither.
PlainRestarts == restarts = 0 \/ (forwards = 0 /\ \A n \in Node : crawlID[n] = FirstCrawlID)
=============================================================================
