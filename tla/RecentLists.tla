----------------------------- MODULE RecentLists -----------------------------
(***************************************************************************)
(* The lists of recent projects and recent vulnerabilities of Statistics: a *)
(* Prometheus family of gauges, one per label, each with the time it was    *)
(* last received, and a queue of pointers to gauges.  A pointer in the      *)
(* queue outlives its gauge, and an address may be used again.              *)
(***************************************************************************)
EXTENDS Integers, Sequences, FiniteSets, SequencesExt

CONSTANTS
  Label,                    \* project urls and vulnerability codes
  Address,                  \* where gauges live, a set of numbers
  RecentMax,                \* 5 in the code: a list holds one more than that
  MaxTime, MaxRestarts      \* bounds of the instance

VARIABLES
  gauge,        \* per list: the gauges, [label, at, time]
  queue,        \* per list: recentProjectsQueue, recentVulnsQueue
  received,     \* history, per list and label: when it was last received, 0 for never
  now, restarts

vars == <<gauge, queue, received, now, restarts>>

Lists == {"projects", "vulns"}

(***************************************************************************)
(* Prometheus families                                                      *)
(***************************************************************************)
Has(gs, l) == \E g \in gs : g.label = l

\* Where a new gauge of list k may be when its family is left with gs: at an address some
\* queue still points to, the one just removed included, or at one of the others, which
\* are all alike.
Free(k, gs) ==
  LET used    == {g.at : g \in gs \cup UNION {gauge[o] : o \in Lists \ {k}}}
      pointed == Range(queue["projects"]) \cup Range(queue["vulns"])
      fresh   == Address \ (used \cup pointed)
  IN  (pointed \ used) \cup {p \in fresh : \A q \in fresh : p <= q}

\* Remove(pointer): no effect when no gauge of the family lives there.
Without(gs, p) == {g \in gs : g.at # p}

\* Add(label) and SetToCurrentTime: the gauge of the label, or one at address p.
Touched(gs, l, p) ==
  IF Has(gs, l) THEN {IF g.label = l THEN [g EXCEPT !.time = now] ELSE g : g \in gs}
  ELSE gs \cup {[label |-> l, at |-> p, time |-> now]}

Place(gs, l) == (CHOOSE g \in gs : g.label = l).at

\* The loop that builds newQueue: the pointers other than added, in their order.
Others(q, added) ==
  LET newQueue[n \in 0..Len(q)] ==
        IF n = 0 THEN <<>>
        ELSE IF q[n] = added THEN newQueue[n - 1] ELSE Append(newQueue[n - 1], q[n])
  IN  newQueue[Len(q)]

(***************************************************************************)
(* Operations                                                               *)
(***************************************************************************)
\* A label is received at the current time.
Receive(k, l) ==
  /\ now <= MaxTime /\ now' = now + 1
  /\ received' = [received EXCEPT ![k][l] = now]
  /\ UNCHANGED restarts

\* MUTANT of addRecentProject: the queue is trimmed but the gauge is left.
LeavesGauge(l) ==
  LET q    == queue["projects"]
      full == Len(q) > RecentMax
  IN  \E p \in Free("projects", gauge["projects"]) :
        LET gs == Touched(gauge["projects"], l, p)
        IN  /\ gauge' = [gauge EXCEPT !["projects"] = gs]
            /\ queue' = [queue EXCEPT !["projects"] = Append(IF full THEN Tail(q) ELSE q, Place(gs, l))]
            /\ Receive("projects", l)

addRecentProject(l) ==
  LET q    == queue["projects"]
      full == Len(q) > RecentMax
      kept == IF full THEN Without(gauge["projects"], Head(q)) ELSE gauge["projects"]
  IN  \E p \in Free("projects", kept) :
        LET gs == Touched(kept, l, p)
        IN  /\ gauge' = [gauge EXCEPT !["projects"] = gs]
            /\ queue' = [queue EXCEPT !["projects"] = Append(IF full THEN Tail(q) ELSE q, Place(gs, l))]
            /\ Receive("projects", l)

\* MUTANT of addRecentVulnerability: a known code keeps its place in the queue.
KeepsPlace(l) ==
  LET q    == queue["vulns"]
      gs   == gauge["vulns"]
      full == Len(q) > RecentMax
      kept == IF full THEN Without(gs, Head(q)) ELSE gs
  IN  \E p \in Free("vulns", kept) :
        /\ IF Has(gs, l)
             THEN /\ gauge' = [gauge EXCEPT !["vulns"] = Touched(gs, l, p)]
                  /\ UNCHANGED queue
             ELSE /\ gauge' = [gauge EXCEPT !["vulns"] = Touched(kept, l, p)]
                  /\ queue' = [queue EXCEPT !["vulns"] = Append(IF full THEN Tail(q) ELSE q, p)]
        /\ Receive("vulns", l)

\* A code that has a gauge moves to the end of the queue.
addRecentVulnerability(l) ==
  LET q    == queue["vulns"]
      gs   == gauge["vulns"]
      full == Len(q) > RecentMax
      kept == IF full THEN Without(gs, Head(q)) ELSE gs
  IN  \E p \in Free("vulns", kept) :
        /\ IF Has(gs, l)
             THEN /\ gauge' = [gauge EXCEPT !["vulns"] = Touched(gs, l, p)]
                  /\ queue' = [queue EXCEPT !["vulns"] =
                                 Append(Others(q, Place(gs, l)), Place(gs, l))]
             ELSE /\ gauge' = [gauge EXCEPT !["vulns"] = Touched(kept, l, p)]
                  /\ queue' = [queue EXCEPT !["vulns"] = Append(IF full THEN Tail(q) ELSE q, p)]
        /\ Receive("vulns", l)

\* The file is written, the process starts again and reads it: the gauges come
\* back, and the queues have them in the order of the file, which is the order
\* of the family's hash table.
Restart ==
  /\ restarts < MaxRestarts /\ restarts' = restarts + 1
  /\ \E order \in [Lists -> UNION {[1..n -> Address] : n \in 0..(RecentMax + 1)}] :
       /\ \A k \in Lists : /\ Len(order[k]) = Cardinality(gauge[k])
                           /\ Range(order[k]) = {g.at : g \in gauge[k]}
       /\ queue' = order
  /\ UNCHANGED <<gauge, received, now>>

Init ==
  /\ gauge = [k \in Lists |-> {}]
  /\ queue = [k \in Lists |-> <<>>]
  /\ received = [k \in Lists |-> [l \in Label |-> 0]]
  /\ now = 1 /\ restarts = 0

Next == (\E l \in Label : addRecentProject(l) \/ addRecentVulnerability(l)) \/ Restart

Spec == Init /\ [][Next]_vars

(***************************************************************************)
(* Properties                                                               *)
(***************************************************************************)
\* The types of gauges, queues and the clock.
TypeOK ==
  /\ \A k \in Lists : gauge[k] \subseteq [label : Label, at : Address, time : 1..MaxTime]
  /\ queue \in [Lists -> Seq(Address)]
  /\ received \in [Lists -> [Label -> 0..MaxTime]]

\* No gauge is forgotten: each is in its queue, so that it is removed some time,
\* and a list never holds more than RecentMax + 1 (addRecentProject and
\* addRecentVulnerability, re-added labels, used addresses and restarts included).
GaugesTracked ==
  \A k \in Lists : /\ {g.at : g \in gauge[k]} \subseteq Range(queue[k])
                   /\ Cardinality(gauge[k]) <= RecentMax + 1

\* The labels with at most RecentMax later ones: the ones a list should show.
LatestOf(k) ==
  {l \in Label : received[k][l] > 0 /\
     Cardinality({o \in Label : received[k][o] > received[k][l]}) <= RecentMax}

\* Until the process restarts, the list shows the latest vulnerabilities, each once
\* (Statistics.cpp:60, "The latest vulnerabilities that have been received."), also
\* when they are received again and again and addresses are used again.
VulnsAreLatest == restarts = 0 => {g.label : g \in gauge["vulns"]} = LatestOf("vulns")
=============================================================================
