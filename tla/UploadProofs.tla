---------------------------- MODULE UploadProofs ----------------------------
(***************************************************************************)
(* Proofs about ProjectUpload for any number of connections, workers,       *)
(* methods, versions, retries, faults and crashes.                          *)
(***************************************************************************)
EXTENDS UploadProperties, SequenceLemmas

Phase == {"check", "search", "parse", "insert", "extend", "start", "methods", "files", "unchanged"}
Pc    == {"take", "select", "write", "ended"}

\* What the queue of upload u holds.
Entry(u) == IF u.phase \in {"files", "unchanged"} THEN Seq(Hash) \X Seq(u.files) ELSE Method

\* The statements of an upload of version v with methods ms, previous version p.
Statement(v, p, ms) ==
       [op : {"author"}, author : Author, method : ms, version : {v}]
  \cup [op : {"insert"}, method : ms, version : {v}, authors : SUBSET Author]
  \cup [op : {"update"}, method : ms, version : {v}, start : 1..p, authors : SUBSET Author]

Upload(entries) ==
  [phase : Phase, version : Version, prev : 0..MaxVersion, files : SUBSET File, bad : BOOLEAN,
   as : SUBSET Author, sent : Seq(Method), hashes : Seq(Hash), prevHashes : SUBSET Hash,
   queue : Seq(entries), index : Nat, tries : 0..MAX_RETRIES, errno : BOOLEAN]

Thread(v, p, ms, entries) ==
  [pc : Pc, item : entries \cup {None}, todo : Seq(Statement(v, p, ms)), tries : 0..MAX_RETRIES,
   errno : BOOLEAN, found : Seq(HashesOf(ms)), got : Seq(HashesOf(ms))]

(***************************************************************************)
(* Sequences                                                                *)
(***************************************************************************)
LEMMA ToChunksType ==
  ASSUME NEW S, NEW s \in Seq(S), NEW n \in Nat \ {0}
  PROVE  ToChunks(s, n) \in Seq(Seq(S))
<1>1. Len(s) \in Nat
  OBVIOUS
<1> DEFINE m == (Len(s) + n - 1) \div n
           piece(i) == SubSeq(s, (i - 1) * n + 1, LeastOf(i * n, Len(s)))
<1>2. m \in Nat
  <2>1. \A x \in Nat : x \div n \in Nat
    OBVIOUS
  <2>2. Len(s) + n - 1 \in Nat
    BY <1>1
  <2> QED BY <2>1, <2>2
<1>3. ASSUME NEW i \in 1..m PROVE piece(i) \in Seq(S)
  <2>1. i \in Nat /\ i - 1 \in Nat
    BY <1>2
  <2>2. \A j \in Nat : j * n \in Nat
    OBVIOUS
  <2> DEFINE a == (i - 1) * n + 1
             b == LeastOf(i * n, Len(s))
  <2>3. a \in Nat /\ a >= 1
    <3>1. (i - 1) * n \in Nat
      BY <2>1, <2>2
    <3> QED BY <3>1
  <2>4. b \in Nat /\ b <= Len(s)
    <3>1. i * n \in Nat
      BY <2>1, <2>2
    <3> HIDE DEF m
    <3> QED BY <1>1, <3>1 DEF LeastOf
  <2> HIDE DEF a, b
  <2>5. SubSeq(s, a, b) \in Seq(S)
    BY <2>3, <2>4
  <2> QED BY <2>5 DEF a, b
<1> HIDE DEF m, piece
<1>4. [i \in 1..m |-> piece(i)] \in Seq(Seq(S))
  BY <1>2, <1>3
<1> QED BY <1>4 DEF ToChunks, m, piece

LEMMA PairsType ==
  ASSUME NEW A, NEW B, NEW ks \in Seq(A), NEW ls \in Seq(B)
  PROVE  Pairs(ks, ls) \in Seq(A \X B)
<1> DEFINE p == Len(ks)
           q == Len(ls)
           pair(i) == <<ks[((i - 1) \div q) + 1], ls[((i - 1) % q) + 1]>>
<1>1. p \in Nat /\ q \in Nat
  OBVIOUS
<1>2. (\A i \in 1..p : ks[i] \in A) /\ \A i \in 1..q : ls[i] \in B
  OBVIOUS
<1> HIDE DEF p, q
<1>3. p * q \in Nat
  BY <1>1
<1>4. ASSUME NEW i \in 1..(p * q) PROVE pair(i) \in A \X B
  <2>1. i - 1 \in Nat /\ i - 1 < p * q
    BY <1>3
  <2>2. q > 0
    BY <1>1, <2>1
  <2> DEFINE d == (i - 1) \div q
             r == (i - 1) % q
  <2>3. q \in Nat \ {0} /\ i - 1 \in Int
    BY <1>1, <2>1, <2>2
  <2>4. d \in Nat /\ r \in 0..(q - 1) /\ i - 1 = q * d + r
    <3> DEFINE x == i - 1
    <3>1. x \in Nat
      BY <2>1
    <3> HIDE DEF x
    <3>2. x \div q \in Nat
      BY <2>3, <3>1
    <3>3. x % q \in 0..(q - 1)
      BY <2>3, <3>1
    <3>4. x = q * (x \div q) + (x % q)
      <4>1. \A y \in Nat, k \in Nat \ {0} : y = k * (y \div k) + (y % k)
        OBVIOUS
      <4> QED BY <2>3, <3>1, <4>1, Zenon
    <3>5. (x \div q) = d /\ (x % q) = r
      BY DEF x
    <3> HIDE DEF d, r
    <3> QED BY <3>2, <3>3, <3>4, <3>5 DEF x
  <2> HIDE DEF d, r
  <2>5. d < p
    <3>1. q * d < p * q
      <4>1. q * d \in Nat
        BY <1>1, <2>4
      <4> QED BY <1>1, <1>3, <2>1, <2>4, <4>1
    <3>2. \A x, y \in Nat : q * x < y * q => x < y
      BY <1>1, <2>2
    <3> QED BY <1>1, <2>4, <3>1, <3>2
  <2>6. d + 1 \in 1..p /\ r + 1 \in 1..q
    BY <1>1, <2>4, <2>5
  <2> QED BY <1>2, <2>6 DEF d, r
<1> HIDE DEF pair
<1>5. [i \in 1..(p * q) |-> pair(i)] \in Seq(A \X B)
  BY <1>3, <1>4
<1> QED BY <1>5 DEF Pairs, p, q, pair

(***************************************************************************)
(* The lists of statements                                                  *)
(***************************************************************************)
AuthorStatement(a, m, v) == [op |-> "author", author |-> a, method |-> m, version |-> v]

\* The authors statement s writes into a row.
Named(s) == IF s.op = "author" THEN {} ELSE s.authors

\* Statement s relates author a to the method of statement t.
Relates(s, a, t) == s.op = "author" /\ s.author = a /\ s.method = t.method

\* The lists of statements from S in which an author is related to a method before
\* a row names the author.
Grouped(S) ==
  {s \in Seq(S) : /\ Len(s) # 0
                  /\ \A i \in 1..Len(s) : \A a \in Named(s[i]) : \E j \in 1..(i - 1) : Relates(s[j], a, s[i])}

LEMMA GroupedClosed ==
  ASSUME NEW S, NEW x \in Grouped(S), NEW y \in Grouped(S)
  PROVE  x \o y \in Grouped(S)
<1> DEFINE z == x \o y
<1>1. x \in Seq(S) /\ Len(x) # 0 /\ y \in Seq(S) /\ Len(y) # 0
  BY Zenon DEF Grouped
<1>2. Len(x) \in Nat /\ Len(y) \in Nat
  BY <1>1
<1>3. /\ z \in Seq(S) /\ Len(z) = Len(x) + Len(y)
      /\ \A i \in 1..Len(x) : z[i] = x[i]
      /\ \A i \in 1..Len(y) : z[Len(x) + i] = y[i]
  BY <1>1, ConcatSeq
<1> HIDE DEF z
<1>4. ASSUME NEW i \in 1..Len(z), NEW a \in Named(z[i])
      PROVE  \E j \in 1..(i - 1) : Relates(z[j], a, z[i])
  <2>1. CASE i \in 1..Len(x)
    <3>1. z[i] = x[i]
      BY <1>3, <2>1
    <3>2. PICK j \in 1..(i - 1) : Relates(x[j], a, x[i])
      BY <2>1, <3>1, Zenon DEF Grouped
    <3>3. j \in 1..Len(x)
      BY <1>2, <2>1
    <3> QED BY <1>3, <3>1, <3>2, <3>3, Zenon
  <2>2. CASE i \notin 1..Len(x)
    <3> DEFINE k == i - Len(x)
    <3>1. k \in 1..Len(y) /\ i = Len(x) + k
      BY <1>2, <1>3, <2>2
    <3>2. z[i] = y[k]
      BY <1>3, <3>1, Zenon
    <3>3. PICK j \in 1..(k - 1) : Relates(y[j], a, y[k])
      BY <3>1, <3>2, Zenon DEF Grouped
    <3>4. j \in 1..Len(y) /\ Len(x) + j \in 1..(i - 1)
      BY <1>2, <3>1
    <3>5. z[Len(x) + j] = y[j]
      BY <1>3, <3>4, Zenon
    <3> HIDE DEF k
    <3> QED BY <3>2, <3>3, <3>4, <3>5, Zenon
  <2> QED BY <2>1, <2>2
<1>5. Len(z) # 0
  BY <1>1, <1>2, <1>3
<1>6. z \in Grouped(S)
  BY <1>3, <1>4, <1>5, Zenon DEF Grouped
<1> QED BY <1>6 DEF z

LEMMA GroupGrouped ==
  ASSUME NEW S, NEW m, NEW v, NEW as, IsFiniteSet(as), NEW write \in S,
         write.method = m, Named(write) \subseteq as,
         \A a \in as : AuthorStatement(a, m, v) \in S
  PROVE  Group(m, v, as, write) \in Grouped(S)
<1> DEFINE n == Cardinality(as)
           f == SetToSeq(as)
           x == [i \in 1..n |-> AuthorStatement(f[i], m, v)]
           z == x \o <<write>>
<1>1. n \in Nat /\ (\A i \in 1..n : f[i] \in as) /\ \A a \in as : \E i \in 1..n : f[i] = a
  BY SetToSeqLists, Zenon
<1>2. Group(m, v, as, write) = z
  BY Zenon DEF Group, AuthorStatement
<1> HIDE DEF n, f
<1>3. \A i \in 1..n : AuthorStatement(f[i], m, v) \in S
  BY <1>1
<1>4. x \in Seq(S) /\ Len(x) = n /\ \A i \in 1..n : x[i] = AuthorStatement(f[i], m, v)
  <2> DEFINE e(i) == AuthorStatement(f[i], m, v)
  <2>1. \A i \in 1..n : e(i) \in S
    BY <1>3
  <2> HIDE DEF e
  <2>2. [i \in 1..n |-> e(i)] \in Seq(S) /\ Len([i \in 1..n |-> e(i)]) = n
    BY <1>1, <2>1
  <2>3. \A i \in 1..n : [j \in 1..n |-> e(j)][i] = e(i)
    OBVIOUS
  <2> QED BY <2>2, <2>3 DEF e
<1> HIDE DEF x
<1>5. <<write>> \in Seq(S) /\ Len(<<write>>) = 1 /\ <<write>>[1] = write
  BY SingletonSeq
<1>6. /\ z \in Seq(S) /\ Len(z) = n + 1
      /\ \A i \in 1..n : z[i] = x[i]
      /\ z[n + 1] = write
  <2>1. /\ z \in Seq(S) /\ Len(z) = Len(x) + Len(<<write>>)
        /\ \A i \in 1..Len(x) : z[i] = x[i]
        /\ \A i \in 1..Len(<<write>>) : z[Len(x) + i] = <<write>>[i]
    BY <1>4, <1>5, ConcatSeq
  <2>2. 1 \in 1..1
    OBVIOUS
  <2> QED BY <1>4, <1>5, <2>1, <2>2, Zenon
<1> HIDE DEF z
<1>7. ASSUME NEW i \in 1..Len(z), NEW a \in Named(z[i])
      PROVE  \E j \in 1..(i - 1) : Relates(z[j], a, z[i])
  <2>1. CASE i \in 1..n
    <3>1. z[i].op = "author"
      BY <1>4, <1>6, <2>1 DEF AuthorStatement
    <3> QED BY <3>1, Zenon DEF Named
  <2>2. CASE i = n + 1
    <3>1. z[i] = write /\ a \in as
      BY <1>6, <2>2, Zenon
    <3>2. PICK j \in 1..n : f[j] = a
      BY <1>1, <3>1, Zenon
    <3>3. j \in 1..(i - 1) /\ z[j] = AuthorStatement(a, m, v)
      BY <1>1, <1>4, <1>6, <2>2, <3>2
    <3>4. Relates(AuthorStatement(a, m, v), a, write)
      BY DEF Relates, AuthorStatement
    <3> QED BY <3>1, <3>3, <3>4, Zenon
  <2> QED BY <1>1, <1>6, <2>1, <2>2
<1>8. Len(z) # 0
  BY <1>1, <1>6
<1> QED BY <1>2, <1>6, <1>7, <1>8, Zenon DEF Grouped

\* The statement of updateMethod that writes the row.
UpdateStatement(m, start, v, as) ==
  [op |-> "update", method |-> m, version |-> v, start |-> start, authors |-> as]

InsertStatement(m, v, as) == [op |-> "insert", method |-> m, version |-> v, authors |-> as]

LEMMA addNewMethodGrouped ==
  ASSUME NEW S, NEW m, NEW v, NEW as, IsFiniteSet(as),
         InsertStatement(m, v, as) \in S,
         \A a \in as : AuthorStatement(a, m, v) \in S
  PROVE  addNewMethod(m, v, as) \in Grouped(S)
<1> DEFINE write == InsertStatement(m, v, as)
<1>1. write.method = m /\ write.op = "insert" /\ write.authors = as
  BY DEF InsertStatement
<1>2. Named(write) \subseteq as
  BY <1>1, Zenon DEF Named
<1>3. addNewMethod(m, v, as) = Group(m, v, as, write)
  BY Zenon DEF addNewMethod, InsertStatement
<1> HIDE DEF write
<1>4. write \in S
  BY DEF write
<1> QED BY <1>1, <1>2, <1>3, <1>4, GroupGrouped

LEMMA UpdatesGrouped ==
  ASSUME NEW S, NEW rows, IsFiniteSet(rows), rows # {}, NEW v, NEW as, IsFiniteSet(as),
         \A r \in rows : UpdateStatement(AsMethod(r), r.start, v, as) \in S,
         \A r \in rows : \A a \in as : AuthorStatement(a, AsMethod(r), v) \in S
  PROVE  Updates(rows, v, as) \in Grouped(S)
<1> DEFINE n == Cardinality(rows)
           f == SetToSeq(rows)
           C == Grouped(S)
           u(i) == updateMethod(AsMethod(f[i]), f[i].start, v, as)
<1>1. n \in Nat /\ \A i \in 1..n : f[i] \in rows
  BY SetToSeqLists, Zenon
<1>2. n # 0
  BY FS_EmptySet, Zenon
<1>3. ASSUME NEW r \in rows PROVE updateMethod(AsMethod(r), r.start, v, as) \in C
  <2> DEFINE write == UpdateStatement(AsMethod(r), r.start, v, as)
  <2>1. write.method = AsMethod(r) /\ write.op = "update" /\ write.authors = as
    BY DEF UpdateStatement
  <2>2. Named(write) \subseteq as
    BY <2>1, Zenon DEF Named
  <2>3. updateMethod(AsMethod(r), r.start, v, as) = Group(AsMethod(r), v, as, write)
    BY Zenon DEF updateMethod, UpdateStatement
  <2>4. write \in S /\ \A a \in as : AuthorStatement(a, AsMethod(r), v) \in S
    OBVIOUS
  <2> HIDE DEF write
  <2> QED BY <2>1, <2>2, <2>3, <2>4, GroupGrouped
<1>4. \A i \in 1..n : u(i) \in C
  BY <1>1, <1>3, Zenon
<1>5. Updates(rows, v, as) = FlattenSeq([i \in 1..n |-> u(i)])
  BY Zenon DEF Updates
<1>6. \A x, y \in C : x \o y \in C
  BY GroupedClosed
<1> HIDE DEF C, u, n
<1>7. [i \in 1..n |-> u(i)] \in Seq(C) /\ Len([i \in 1..n |-> u(i)]) = n
  BY <1>1, <1>4
<1>8. FlattenSeq([i \in 1..n |-> u(i)]) \in C
  BY <1>2, <1>6, <1>7, FlattenClosed
<1> QED BY <1>5, <1>8 DEF C

(***************************************************************************)
(* The invariant.  ct and pj are the values of content and projects.        *)
(***************************************************************************)
\* The phases after the project row was stored.
Stored == {"extend", "start", "methods", "files", "unchanged"}

\* What upload u sends and stores is what its version holds.
Truthful(u, ct, pj) ==
  /\ ct[u.version] # None
  /\ u.sent \in Seq(ct[u.version])
  /\ u.hashes \in Seq(HashesOf(ct[u.version]))
  /\ \A f \in u.files : /\ u.prev \in Version /\ ct[u.prev] # None
                        /\ At(ct[u.version], f) = At(ct[u.prev], f)
  /\ u.phase \in Stored => pj[u.version] # None
  /\ u.phase = "methods" => u.queue \in Seq(ct[u.version])
  /\ u.phase = "files" => u.prev \in Version

\* A request that will not parse comes as far as the parser.
Request(u, ct, pj) ==
  /\ u \in Upload(Entry(u))
  /\ u.prev < u.version
  /\ u.phase = "search" => u.prev # 0
  /\ \/ u.bad = TRUE /\ u.phase \in {"check", "search", "parse"}
     \/ u.bad = FALSE /\ Truthful(u, ct, pj)

\* A worker t of upload u, from its start until it is joined.
Busy(u, t, ct) ==
  /\ u.phase \in {"methods", "files"}
  /\ t \in Thread(u.version, u.prev, ct[u.version], Entry(u))
  /\ t.pc \in {"select", "write"} => t.item \in Entry(u)
  /\ t.pc \in {"select", "write"} /\ u.phase = "methods" => t.item \in ct[u.version]
  /\ t.pc = "write" => Len(t.todo) # 0

\* Where row r starts and where it ends there is a project row, and the version
\* holds the method.
RowTrue(r, ct, pj) ==
  /\ r.start <= r.end
  /\ ct[r.start] # None /\ AsMethod(r) \in ct[r.start] /\ pj[r.start] # None
  /\ ct[r.end] # None /\ AsMethod(r) \in ct[r.end] /\ pj[r.end] # None

Tables ==
  /\ methods \subseteq Row /\ IsFiniteSet(methods)
  /\ projects \in [Version -> (SUBSET Hash) \cup {None}]
  /\ byAuthor \subseteq Author \X Hash \X File \X Version
  /\ authors \subseteq Author
  /\ content \in [Version -> (SUBSET Method) \cup {None}]
  /\ acked \subseteq Version
  /\ alive \in BOOLEAN /\ faults \in 0..MaxFaults /\ crashes \in 0..MaxCrashes

Requests ==
  /\ up = [c \in Conn |-> up[c]]
  /\ \A c \in Conn : up[c] = Idle \/ Request(up[c], content, projects)

Threads ==
  /\ worker = [c \in Conn |-> [w \in Worker |-> worker[c][w]]]
  /\ \A c \in Conn : \A w \in Worker :
       worker[c][w] = NoWorker \/ Busy(up[c], worker[c][w], content)

Rows == \A r \in methods : RowTrue(r, content, projects)

UploadInv == Tables /\ Requests /\ Threads /\ Rows /\ HashesHonest

(***************************************************************************)
(* Frames                                                                   *)
(***************************************************************************)
\* Contents are written once, project rows are never deleted.
Grown(ct, pj, ct2, pj2) ==
  \A v \in Version : /\ ct[v] # None => ct2[v] = ct[v]
                     /\ pj[v] # None => pj2[v] # None

LEMMA RequestStays ==
  ASSUME NEW ct, NEW pj, NEW ct2, NEW pj2, Grown(ct, pj, ct2, pj2),
         NEW u, Request(u, ct, pj)
  PROVE  Request(u, ct2, pj2)
<1>1. u \in Upload(Entry(u)) /\ u.prev < u.version /\ (u.phase = "search" => u.prev # 0)
  BY Zenon DEF Request
<1>2. u.version \in Version
  BY <1>1 DEF Upload
<1>3. CASE u.bad = TRUE /\ u.phase \in {"check", "search", "parse"}
  BY <1>1, <1>3, Zenon DEF Request
<1>4. CASE u.bad = FALSE /\ Truthful(u, ct, pj)
  <2>1. ct2[u.version] = ct[u.version]
    BY <1>2, <1>4, Zenon DEF Truthful, Grown
  <2>2. Truthful(u, ct2, pj2)
    BY <1>2, <1>4, <2>1, Zenon DEF Truthful, Grown
  <2> QED BY <1>1, <1>4, <2>2, Zenon DEF Request
<1> QED BY <1>3, <1>4, Zenon DEF Request

LEMMA BusyStays ==
  ASSUME NEW ct, NEW ct2, NEW u, NEW t, Busy(u, t, ct), ct2[u.version] = ct[u.version]
  PROVE  Busy(u, t, ct2)
BY Zenon DEF Busy

LEMMA RowStays ==
  ASSUME NEW ct, NEW pj, NEW ct2, NEW pj2, Grown(ct, pj, ct2, pj2),
         NEW r \in Row, RowTrue(r, ct, pj)
  PROVE  RowTrue(r, ct2, pj2)
<1>1. r.start \in Version /\ r.end \in Version
  BY DEF Row
<1> QED BY <1>1, Zenon DEF RowTrue, Grown

\* An upload whose workers run is a request that parsed, past the project row.
LEMMA Working ==
  ASSUME NEW u, NEW ct, NEW pj, u = Idle \/ Request(u, ct, pj),
         u.phase \in {"insert", "extend", "start", "methods", "files", "unchanged"}
  PROVE  /\ Request(u, ct, pj) /\ u.bad = FALSE /\ Truthful(u, ct, pj)
         /\ u \in Upload(Entry(u)) /\ u.prev < u.version
<1>1. u # Idle
  BY DEF Idle
<1>2. u.phase \notin {"check", "search", "parse"}
  OBVIOUS
<1> QED BY <1>1, <1>2, Zenon DEF Request

\* A worker keeps what it needs of the contents.
LEMMA BusyGrows ==
  ASSUME NEW ct, NEW pj, NEW ct2, NEW pj2, Grown(ct, pj, ct2, pj2),
         NEW u, u = Idle \/ Request(u, ct, pj), NEW t, Busy(u, t, ct)
  PROVE  Busy(u, t, ct2)
<1>1. u.phase \in {"methods", "files"}
  BY Zenon DEF Busy
<1>2. u.phase \in {"insert", "extend", "start", "methods", "files", "unchanged"}
  BY <1>1
<1>3. Truthful(u, ct, pj) /\ u \in Upload(Entry(u))
  BY <1>2, Working
<1>4. u.version \in Version
  BY <1>3 DEF Upload
<1>5. ct2[u.version] = ct[u.version]
  BY <1>3, <1>4, Zenon DEF Truthful, Grown
<1> QED BY <1>5, BusyStays

\* A step of connection c: what it does to its own upload and workers is all there is.
LEMMA StepAt ==
  ASSUME Requests, Threads, NEW c \in Conn, NEW x, NEW ws,
         Grown(content, projects, content', projects'),
         up' = [up EXCEPT ![c] = x],
         x = Idle \/ Request(x, content', projects'),
         worker' = [worker EXCEPT ![c] = [w \in Worker |-> ws[w]]],
         \A w \in Worker : ws[w] = NoWorker \/ Busy(x, ws[w], content')
  PROVE  Requests' /\ Threads'
<1>1. /\ up = [d \in Conn |-> up[d]]
      /\ worker = [d \in Conn |-> [w \in Worker |-> worker[d][w]]]
  BY Zenon DEF Requests, Threads
<1>2. /\ up' = [d \in Conn |-> up'[d]] /\ up'[c] = x
      /\ \A d \in Conn : d # c => up'[d] = up[d]
  BY <1>1
<1>3. /\ worker' = [d \in Conn |-> IF d = c THEN [w \in Worker |-> ws[w]] ELSE worker[d]]
  BY <1>1
<1>4. /\ \A w \in Worker : worker'[c][w] = ws[w]
      /\ \A d \in Conn : d # c => worker'[d] = worker[d]
  BY <1>3
<1>5. worker' = [d \in Conn |-> [w \in Worker |-> worker'[d][w]]]
  <2>1. \A d \in Conn : worker[d] = [w \in Worker |-> worker[d][w]]
    BY <1>1
  <2>2. \A d \in Conn : worker'[d] = [w \in Worker |-> worker'[d][w]]
    BY <1>3, <1>4, <2>1
  <2> QED BY <1>3, <2>2
<1>6. ASSUME NEW d \in Conn PROVE up'[d] = Idle \/ Request(up'[d], content', projects')
  <2>1. CASE d = c
    BY <1>2, <2>1, Zenon
  <2>2. CASE d # c
    <3>1. up'[d] = up[d] /\ (up[d] = Idle \/ Request(up[d], content, projects))
      BY <1>2, <2>2, Zenon DEF Requests
    <3> DEFINE u == up[d]
    <3> HIDE DEF u
    <3>2. CASE u = Idle
      BY <3>1, <3>2, Zenon DEF u
    <3>3. CASE Request(u, content, projects)
      <4>1. Request(u, content', projects')
        BY <3>3, RequestStays
      <4> QED BY <3>1, <4>1, Zenon DEF u
    <3> QED BY <3>1, <3>2, <3>3, Zenon DEF u
  <2> QED BY <2>1, <2>2
<1>7. ASSUME NEW d \in Conn, NEW w \in Worker
      PROVE  worker'[d][w] = NoWorker \/ Busy(up'[d], worker'[d][w], content')
  <2>1. CASE d = c
    BY <1>2, <1>4, <2>1, Zenon
  <2>2. CASE d # c
    <3>1. /\ up'[d] = up[d] /\ worker'[d][w] = worker[d][w]
          /\ up[d] = Idle \/ Request(up[d], content, projects)
          /\ worker[d][w] = NoWorker \/ Busy(up[d], worker[d][w], content)
      BY <1>2, <1>4, <2>2, Zenon DEF Requests, Threads
    <3>2. CASE worker[d][w] = NoWorker
      BY <3>1, <3>2, Zenon
    <3>3. CASE Busy(up[d], worker[d][w], content)
      <4>1. Busy(up[d], worker[d][w], content')
        BY <3>1, <3>3, BusyGrows
      <4> QED BY <3>1, <4>1, Zenon
    <3> QED BY <3>1, <3>2, <3>3, Zenon
  <2> QED BY <2>1, <2>2
<1>8. Requests'
  BY <1>2, <1>6, Zenon DEF Requests
<1>9. Threads'
  BY <1>5, <1>7, Zenon DEF Threads
<1> QED BY <1>8, <1>9

LEMMA StepUpload ==
  ASSUME Requests, Threads, NEW c \in Conn, NEW x,
         Grown(content, projects, content', projects'),
         up' = [up EXCEPT ![c] = x],
         x = Idle \/ Request(x, content', projects'),
         worker' = worker, up[c].phase \notin {"methods", "files"}
  PROVE  Requests' /\ Threads'
<1> DEFINE ws == worker[c]
<1>1. worker = [d \in Conn |-> [w \in Worker |-> worker[d][w]]]
  BY Zenon DEF Threads
<1>2. worker' = [worker EXCEPT ![c] = [w \in Worker |-> ws[w]]]
  <2>1. worker[c] = [w \in Worker |-> worker[c][w]]
    BY <1>1
  <2> QED BY <1>1, <2>1
<1>3. \A w \in Worker : ws[w] = NoWorker
  BY Zenon DEF Threads, Busy
<1> HIDE DEF ws
<1> QED BY <1>2, <1>3, StepAt

LEMMA StepWorker ==
  ASSUME Requests, Threads, NEW c \in Conn, NEW k \in Worker, NEW x, NEW t,
         content' = content, projects' = projects,
         up' = [up EXCEPT ![c] = x], Request(x, content, projects),
         x.phase = up[c].phase, x.version = up[c].version, x.prev = up[c].prev,
         x.files = up[c].files,
         Set(c, k, t), Busy(x, t, content)
  PROVE  Requests' /\ Threads'
<1> DEFINE ws == [w \in Worker |-> IF w = k THEN t ELSE worker[c][w]]
<1>1. worker = [d \in Conn |-> [w \in Worker |-> worker[d][w]]]
  BY Zenon DEF Threads
<1>2. worker' = [worker EXCEPT ![c][k] = t]
  BY Zenon DEF Set
<1>3. worker[c] = [w \in Worker |-> worker[c][w]]
  BY <1>1
<1>4. [worker[c] EXCEPT ![k] = t] = ws
  BY <1>3
<1>5. worker' = [worker EXCEPT ![c] = [w \in Worker |-> ws[w]]]
  BY <1>1, <1>2, <1>4
<1>6. \A w \in Worker : ws[w] = NoWorker \/ Busy(x, ws[w], content')
  <2> SUFFICES ASSUME NEW w \in Worker PROVE ws[w] = NoWorker \/ Busy(x, ws[w], content')
    OBVIOUS
  <2>1. CASE w = k
    BY <2>1, Zenon
  <2>2. CASE w # k
    <3>1. ws[w] = worker[c][w]
      BY <2>2
    <3>2. Entry(x) = Entry(up[c])
      BY Zenon DEF Entry
    <3>3. Busy(up[c], worker[c][w], content) => Busy(x, worker[c][w], content)
      BY <3>2, Zenon DEF Busy
    <3> QED BY <3>1, <3>3, Zenon DEF Threads
  <2> QED BY <2>1, <2>2
<1>7. Grown(content, projects, content', projects')
  BY Zenon DEF Grown
<1>8. Request(x, content', projects')
  BY Zenon
<1> HIDE DEF ws
<1> QED BY <1>5, <1>6, <1>7, <1>8, StepAt

LEMMA RowsStay ==
  ASSUME Tables, Rows, methods' = methods, Grown(content, projects, content', projects')
  PROVE  Rows'
<1> SUFFICES ASSUME NEW r \in methods PROVE RowTrue(r, content', projects')
  BY Zenon DEF Rows
<1>1. r \in Row /\ RowTrue(r, content, projects)
  BY Zenon DEF Tables, Rows
<1> QED BY <1>1, RowStays

LEMMA HashesStay ==
  ASSUME HashesHonest, projects' = projects, Grown(content, projects, content', projects')
  PROVE  HashesHonest'
BY Zenon DEF HashesHonest, Grown

LEMMA FiniteImage ==
  ASSUME NEW S, IsFiniteSet(S), NEW f
  PROVE  IsFiniteSet({f[x] : x \in S})
<1> DEFINE T == {f[x] : x \in S}
           g == [x \in S |-> f[x]]
<1>1. g \in [S -> T] /\ \A t \in T : \E x \in S : g[x] = t
  OBVIOUS
<1> HIDE DEF g, T
<1>2. g \in Surjection(S, T)
  BY <1>1, Zenon DEF Surjection
<1>3. IsFiniteSet(T)
  BY <1>2, FS_Surjection
<1> QED BY <1>3 DEF T

LEMMA FiniteMethods ==
  ASSUME NEW ms \in SUBSET Method PROVE IsFiniteSet(ms)
<1> DEFINE g(f) == [h \in Hash |-> [hash |-> h, file |-> f]]
           Of(f) == {g(f)[h] : h \in Hash}
           k == [f \in File |-> Of(f)]
<1>1. \A f \in File : IsFiniteSet(Of(f))
  <2> HIDE DEF g
  <2> QED BY UploadSets, FiniteImage
<1>2. \A m \in Method : m \in Of(m.file) /\ m.file \in File
  BY DEF Method
<1> HIDE DEF Of
<1>3. IsFiniteSet({k[f] : f \in File})
  <2> HIDE DEF k
  <2> QED BY UploadSets, FiniteImage
<1>4. IsFiniteSet(UNION {k[f] : f \in File})
  <2>1. \A T \in {k[f] : f \in File} : IsFiniteSet(T)
    BY <1>1
  <2> HIDE DEF k
  <2> QED BY <1>3, <2>1, FS_UNION
<1>5. ms \subseteq UNION {k[f] : f \in File}
  BY <1>2
<1> HIDE DEF k
<1> QED BY <1>4, <1>5, FS_Subset

\* What a version holds, where it is known.
LEMMA Holds ==
  ASSUME NEW ct \in [Version -> (SUBSET Method) \cup {None}], NEW v \in Version, ct[v] # None
  PROVE  ct[v] \in SUBSET Method
<1>1. ct[v] \in (SUBSET Method) \cup {None}
  OBVIOUS
<1> QED BY <1>1, Zenon

(***************************************************************************)
(* Receive                                                                  *)
(***************************************************************************)
\* The upload a request starts.
Sent(v, ph, bad, p, as, files, ms) ==
  [Idle EXCEPT !.phase = ph, !.version = v, !.prev = p, !.files = files, !.bad = bad,
               !.as = as, !.sent = ms]

Fresh(x, v, ph, bad, p, as, files, ms) ==
  /\ x \in Upload(Entry(x)) /\ x.phase = ph
  /\ x.version = v /\ x.prev = p /\ x.files = files /\ x.bad = bad /\ x.sent = ms
  /\ x.hashes = <<>> /\ x.as = as /\ x.errno = FALSE

LEMMA SentType ==
  ASSUME NEW v \in Version, NEW ph \in {"check", "search", "parse"}, NEW bad \in BOOLEAN,
         NEW p \in 0..MaxVersion, NEW as \in SUBSET Author, NEW files \in SUBSET File,
         NEW ms \in Seq(Method)
  PROVE  Fresh(Sent(v, ph, bad, p, as, files, ms), v, ph, bad, p, as, files, ms)
<1> DEFINE x == Sent(v, ph, bad, p, as, files, ms)
<1> DEFINE R == [phase : Phase \cup {"idle"}, version : 0..MaxVersion, prev : 0..MaxVersion,
                 files : SUBSET File, bad : BOOLEAN, as : SUBSET Author, sent : Seq(Method),
                 hashes : {<<>>}, prevHashes : SUBSET Hash, queue : Seq(Method), index : Nat,
                 tries : 0..MAX_RETRIES, errno : BOOLEAN]
<1>1. Idle \in R
  <2>1. <<>> \in Seq(Method) /\ 0 \in Nat /\ 0 \in 0..MAX_RETRIES /\ 0 \in 0..MaxVersion
    BY UploadBounds
  <2> QED BY <2>1, Zenon DEF Idle
<1>2. v \in 0..MaxVersion /\ ph \in Phase \cup {"idle"}
  BY UploadBounds DEF Version, Phase
<1>0. x = [Idle EXCEPT !.phase = ph, !.version = v, !.prev = p, !.files = files, !.bad = bad,
                       !.as = as, !.sent = ms]
  BY Zenon DEF Sent
<1> HIDE DEF x
<1>3. x \in R
  BY <1>0, <1>1, <1>2
<1>4. /\ x.phase = ph /\ x.version = v /\ x.prev = p /\ x.files = files
      /\ x.as = as /\ x.sent = ms
  BY <1>0, <1>1
<1>5. x.bad = bad
  BY <1>0, <1>1
<1>6. x.hashes = <<>> /\ x.errno = FALSE
  <2>1. x.errno = Idle.errno
    BY <1>0, <1>1
  <2>2. Idle.errno = FALSE
    BY DEF Idle
  <2> QED BY <1>3, <2>1, <2>2
<1>7. x \in Upload(Method)
  <2>1. ph \in Phase /\ <<>> \in Seq(Hash)
    BY DEF Phase
  <2> QED BY <1>3, <1>4, <1>6, <2>1 DEF Upload
<1>8. Entry(x) = Method
  BY <1>4 DEF Entry
<1> QED BY <1>4, <1>5, <1>6, <1>7, <1>8, Zenon DEF x, Fresh

\* The client sends the methods of the files that are not unchanged, in list l.
Posted(l, now, files) ==
  /\ \A i \in 1..Len(l) : l[i].file \notin files
  /\ \A m \in now : m.file \in files \/ \E i \in 1..Len(l) : l[i] = m
  /\ "twins" \notin Clients => \A i, j \in 1..Len(l) : l[i] = l[j] => i = j

\* The choices of a client, and what Receive does with them.
Choice(c, v, bad, p, as, now, files, x) ==
  /\ v \in Version /\ v \in Sendable /\ bad \in BOOLEAN
  /\ p \in Previous /\ p \in 0..MaxVersion /\ p < v /\ as \in SUBSET Author
  /\ now \in SUBSET Method /\ (content[v] # None => now = content[v])
  /\ files \in SUBSET File /\ files \subseteq Same(now, p)
  /\ x \in Upload(Entry(x)) /\ x.phase \in {"check", "search", "parse"}
  /\ x.version = v /\ x.prev = p /\ x.files = files /\ x.bad = bad /\ x.sent \in Seq(now)
  /\ x.hashes = <<>> /\ x.as = as /\ x.errno = FALSE
  /\ (x.phase = "search" => p # 0) /\ (x.phase = "parse" => p = 0)
  /\ Posted(x.sent, now, files)
  /\ up' = [up EXCEPT ![c] = x]
  /\ content' = (IF bad THEN content ELSE [content EXCEPT ![v] = now])
  /\ acked' = (IF bad THEN acked ELSE acked \ {v})

LEMMA ReceiveChoice ==
  ASSUME UploadInv, NEW c \in Conn, Receive(c)
  PROVE  \E v, bad, p, as, now, files, x : Choice(c, v, bad, p, as, now, files, x)
<1>1. PICK v \in Sendable, check \in Flag("check"), bad \in Flag("bad"), twice \in Flag("twins") :
     \E p \in {q \in Previous : q < v}, as \in IF "authors" \in Clients THEN SUBSET Author ELSE {{}} :
     \E now \in IF content[v] = None THEN SUBSET Method ELSE {content[v]} :
     \E files \in SUBSET Same(now, p) :
       LET ms == SetToSeq({m \in now : m.file \notin files})
       IN  /\ up' = [up EXCEPT ![c] = [Idle EXCEPT
                !.phase = IF check THEN "check" ELSE FirstPhase(p),
                !.version = v, !.prev = p, !.files = files, !.bad = bad, !.as = as,
                !.sent = IF twice THEN ms \o ms ELSE ms]]
           /\ content' = IF bad THEN content ELSE [content EXCEPT ![v] = now]
           /\ acked' = IF bad THEN acked ELSE acked \ {v}
  BY Zenon DEF Receive
<1>2. PICK p \in {q \in Previous : q < v}, as \in IF "authors" \in Clients THEN SUBSET Author ELSE {{}} :
     \E now \in IF content[v] = None THEN SUBSET Method ELSE {content[v]} :
     \E files \in SUBSET Same(now, p) :
       LET ms == SetToSeq({m \in now : m.file \notin files})
       IN  /\ up' = [up EXCEPT ![c] = [Idle EXCEPT
                !.phase = IF check THEN "check" ELSE FirstPhase(p),
                !.version = v, !.prev = p, !.files = files, !.bad = bad, !.as = as,
                !.sent = IF twice THEN ms \o ms ELSE ms]]
           /\ content' = IF bad THEN content ELSE [content EXCEPT ![v] = now]
           /\ acked' = IF bad THEN acked ELSE acked \ {v}
  BY <1>1, Zenon
<1>0. PICK now \in IF content[v] = None THEN SUBSET Method ELSE {content[v]} :
     \E files \in SUBSET Same(now, p) :
       LET ms == SetToSeq({m \in now : m.file \notin files})
       IN  /\ up' = [up EXCEPT ![c] = [Idle EXCEPT
                !.phase = IF check THEN "check" ELSE FirstPhase(p),
                !.version = v, !.prev = p, !.files = files, !.bad = bad, !.as = as,
                !.sent = IF twice THEN ms \o ms ELSE ms]]
           /\ content' = IF bad THEN content ELSE [content EXCEPT ![v] = now]
           /\ acked' = IF bad THEN acked ELSE acked \ {v}
  BY <1>2, Zenon
<1>3. PICK files \in SUBSET Same(now, p) :
       LET ms == SetToSeq({m \in now : m.file \notin files})
       IN  /\ up' = [up EXCEPT ![c] = [Idle EXCEPT
                !.phase = IF check THEN "check" ELSE FirstPhase(p),
                !.version = v, !.prev = p, !.files = files, !.bad = bad, !.as = as,
                !.sent = IF twice THEN ms \o ms ELSE ms]]
           /\ content' = IF bad THEN content ELSE [content EXCEPT ![v] = now]
           /\ acked' = IF bad THEN acked ELSE acked \ {v}
  BY <1>0, Zenon
<1> DEFINE S == {m \in now : m.file \notin files}
           l == SetToSeq(S)
           ms == IF twice THEN l \o l ELSE l
           ph == IF check THEN "check" ELSE FirstPhase(p)
           x == Sent(v, ph, bad, p, as, files, ms)
<1>4. v \in Version /\ v \in Sendable
  BY Zenon DEF Sendable
<1>5. check \in BOOLEAN /\ bad \in BOOLEAN
  BY Zenon DEF Flag
<1>6. p \in Previous /\ p < v
  BY Zenon
<1>7. p \in 0..MaxVersion
  <2>1. Latest \in 0..MaxVersion
    <3> DEFINE st == {u \in Version : projects[u] # None}
    <3>1. CASE st = {}
      BY <3>1, UploadBounds DEF Latest
    <3>2. CASE st # {}
      <4>1. st \subseteq Nat /\ \A u \in st : u <= MaxVersion
        BY UploadBounds DEF Version
      <4>2. PICK g \in st : \A u \in st : u <= g
        <5> DEFINE N == {n \in Nat : \A u \in st : u <= n}
        <5>1. MaxVersion \in N
          BY <4>1, UploadBounds
        <5>2. N \in SUBSET Nat /\ N # {}
          BY <5>1
        <5> HIDE DEF N
        <5>3. PICK g \in N : \A y \in N : g <= y
          BY <5>2, Least
        <5>4. g \in Nat /\ \A u \in st : u <= g
          BY <5>3 DEF N
        <5>5. g \in st
          <6> SUFFICES ASSUME g \notin st PROVE FALSE
            OBVIOUS
          <6>1. PICK u \in st : TRUE
            BY <3>2
          <6>2. g # 0 /\ g - 1 \in Nat
            BY <4>1, <5>4, <6>1 DEF Version
          <6>3. \A y \in st : y <= g - 1
            <7> SUFFICES ASSUME NEW y \in st PROVE y <= g - 1
              OBVIOUS
            <7>1. y \in Nat /\ y <= g /\ y # g
              BY <4>1, <5>4
            <7> QED BY <5>4, <7>1
          <6>4. g - 1 \in N
            BY <6>2, <6>3 DEF N
          <6> QED BY <5>3, <5>4, <6>4
        <5> QED BY <5>4, <5>5
      <4> HIDE DEF st
      <4> DEFINE ch == CHOOSE y \in st : \A u \in st : u <= y
      <4>3. ch \in st
        BY <4>2, Zenon
      <4>4. Latest = ch
        BY <3>2, Zenon DEF Latest, st
      <4> HIDE DEF ch
      <4> QED BY <4>1, <4>3, <4>4, UploadBounds
    <3> QED BY <3>1, <3>2
  <2>2. \A u \in Version : u \in 0..MaxVersion
    BY UploadBounds DEF Version
  <2>3. 0 \in 0..MaxVersion
    BY UploadBounds
  <2> QED BY <1>6, <2>1, <2>2, <2>3, Zenon DEF Previous
<1>8. as \in SUBSET Author
  BY Zenon
<1>9. now \in SUBSET Method /\ (content[v] # None => now = content[v])
  <2>1. content[v] \in (SUBSET Method) \cup {None}
    BY <1>4 DEF UploadInv, Tables
  <2>2. CASE content[v] = None
    <3>1. now \in SUBSET Method
      BY <2>2
    <3> QED BY <2>2, <3>1
  <2>3. CASE content[v] # None
    <3>1. (IF content[v] = None THEN SUBSET Method ELSE {content[v]}) = {content[v]}
      BY <2>3, Zenon
    <3>2. now = content[v]
      BY <3>1, Zenon
    <3>3. content[v] \in SUBSET Method
      BY <1>4, <2>3, Holds, Zenon DEF UploadInv, Tables
    <3> QED BY <3>2, <3>3, Zenon
  <2> QED BY <2>2, <2>3
<1>10. files \in SUBSET Same(now, p) /\ files \in SUBSET File
  BY Zenon DEF Same
<1>11. ms \in Seq(now) /\ ms \in Seq(Method)
  <2>1. S \in SUBSET Method /\ S \subseteq now
    BY <1>9
  <2>2. IsFiniteSet(S)
    <3> HIDE DEF S
    <3> QED BY <2>1, FiniteMethods
  <2>3. l \in Seq(S)
    <3> HIDE DEF S
    <3> QED BY <2>2, SetToSeqLists
  <2> HIDE DEF l, S
  <2>4. l \in Seq(now)
    BY <2>1, <2>3, SeqMono
  <2>5. l \o l \in Seq(now)
    BY <2>4
  <2>6. ms \in Seq(now)
    BY <2>4, <2>5, Zenon
  <2>7. now \subseteq Method
    BY <1>9
  <2> QED BY <2>6, <2>7, SeqMono
<1>15. Posted(ms, now, files)
  <2>1. IsFiniteSet(S)
    <3>1. S \in SUBSET Method
      BY <1>9
    <3> HIDE DEF S
    <3> QED BY <3>1, FiniteMethods
  <2>2. \A m \in S : m.file \notin files
    OBVIOUS
  <2>3. \A m \in now : m.file \in files \/ m \in S
    OBVIOUS
  <2> HIDE DEF S
  <2>4. l \in Seq(S) /\ \A m \in S : \E i \in 1..Len(l) : l[i] = m
    BY <2>1, SetToSeqLists
  <2>5. \A i, j \in 1..Len(l) : l[i] = l[j] => i = j
    <3>1. Len(l) = Cardinality(S)
      BY <2>1, SetToSeqLists
    <3>2. \A i, j \in 1..Cardinality(S) : l[i] = l[j] => i = j
      BY <2>1, SetToSeqOnce
    <3> QED BY <3>1, <3>2
  <2> HIDE DEF l
  <2>6. Len(l) \in Nat /\ \A i \in 1..Len(l) : l[i] \in S
    BY <2>4
  <2>7. CASE twice = TRUE
    <3> DEFINE d == l \o l
    <3>1. d \in Seq(S) /\ Len(d) = Len(l) + Len(l) /\ \A i \in 1..Len(l) : d[i] = l[i]
      BY <2>4, ConcatSeq
    <3>2. ms = d /\ "twins" \in Clients
      BY <2>7, Zenon DEF Flag
    <3> HIDE DEF d, ms
    <3>3. \A i \in 1..Len(d) : d[i] \in S
      BY <3>1
    <3>4. \A i \in 1..Len(l) : i \in 1..Len(d)
      BY <2>6, <3>1
    <3> QED BY <2>2, <2>3, <2>4, <3>1, <3>2, <3>3, <3>4, Zenon DEF Posted
  <2>8. CASE twice = FALSE
    <3>1. ms = l
      BY <2>8, Zenon
    <3> HIDE DEF ms
    <3> QED BY <2>2, <2>3, <2>4, <2>5, <2>6, <3>1, Zenon DEF Posted
  <2>9. twice \in BOOLEAN
    BY Zenon DEF Flag
  <2> QED BY <2>7, <2>8, <2>9
<1>12. /\ x \in Upload(Entry(x)) /\ x.phase \in {"check", "search", "parse"}
       /\ x.version = v /\ x.prev = p /\ x.files = files /\ x.bad = bad /\ x.sent = ms
       /\ x.hashes = <<>> /\ x.as = as /\ x.errno = FALSE
       /\ (x.phase = "search" => p # 0) /\ (x.phase = "parse" => p = 0)
  <2>1. ph \in {"check", "search", "parse"}
    BY Zenon DEF FirstPhase
  <2>3. (ph = "search" => p # 0) /\ (ph = "parse" => p = 0)
    BY DEF FirstPhase
  <2> HIDE DEF ms, ph
  <2>2. Fresh(x, v, ph, bad, p, as, files, ms)
    BY <1>4, <1>5, <1>7, <1>8, <1>10, <1>11, <2>1, SentType, Zenon
  <2> QED BY <2>1, <2>2, <2>3, Zenon DEF Fresh
<1>13. up' = [up EXCEPT ![c] = x]
  BY <1>3, Zenon DEF Sent
<1> HIDE DEF x
<1>14. Choice(c, v, bad, p, as, now, files, x)
  BY <1>3, <1>4, <1>5, <1>6, <1>7, <1>8, <1>9, <1>10, <1>11, <1>12, <1>13, <1>15, Zenon DEF Choice
<1> QED BY <1>14, Zenon

LEMMA ReceiveInv ==
  ASSUME UploadInv, NEW c \in Conn, Receive(c)
  PROVE  UploadInv'
<1>1. PICK v, bad, p, as, now, files, x : Choice(c, v, bad, p, as, now, files, x)
  BY ReceiveChoice
<1>2. /\ v \in Version /\ bad \in BOOLEAN /\ p \in 0..MaxVersion /\ p < v
      /\ now \in SUBSET Method /\ (content[v] # None => now = content[v])
      /\ files \subseteq Same(now, p)
  BY <1>1, Zenon DEF Choice
<1>3. /\ x \in Upload(Entry(x)) /\ x.phase \in {"check", "search", "parse"}
      /\ x.version = v /\ x.prev = p /\ x.files = files /\ x.bad = bad /\ x.sent \in Seq(now)
      /\ x.hashes = <<>> /\ (x.phase = "search" => x.prev # 0)
  BY <1>1, Zenon DEF Choice
<1>4. /\ up' = [up EXCEPT ![c] = x]
      /\ bad = TRUE => content' = content /\ acked' = acked
      /\ bad = FALSE => content' = [content EXCEPT ![v] = now] /\ acked' = acked \ {v}
  BY <1>1, Zenon DEF Choice
<1>5. /\ up[c].phase = "idle"
      /\ methods' = methods /\ projects' = projects /\ byAuthor' = byAuthor /\ authors' = authors
      /\ worker' = worker /\ alive' = alive /\ faults' = faults /\ crashes' = crashes
  BY Zenon DEF Receive, tables
<1>6. /\ Tables /\ Requests /\ Threads /\ Rows /\ HashesHonest
      /\ content \in [Version -> (SUBSET Method) \cup {None}] /\ acked \subseteq Version
  BY Zenon DEF UploadInv, Tables
<1>7. now # None
  BY <1>2, UploadSets
<1>8. CASE bad = TRUE
  <2>1. content' = content /\ acked' = acked
    BY <1>4, <1>8
  <2>2. Grown(content, projects, content', projects')
    BY <1>5, <2>1, Zenon DEF Grown
  <2>3. x.bad = TRUE /\ x.prev < x.version
    BY <1>2, <1>3, <1>8, Zenon
  <2>4. Request(x, content', projects')
    BY <1>3, <2>3, Zenon DEF Request
  <2>5. Requests' /\ Threads'
    <3>1. up[c].phase \notin {"methods", "files"}
      BY <1>5
    <3> QED BY <1>4, <1>5, <1>6, <2>2, <2>4, <3>1, StepUpload
  <2>6. Tables'
    BY <1>5, <1>6, <2>1, Zenon DEF Tables
  <2> QED BY <1>5, <1>6, <2>2, <2>5, <2>6, RowsStay, HashesStay, Zenon DEF UploadInv
<1>9. CASE bad = FALSE
  <2>1. content' = [content EXCEPT ![v] = now] /\ acked' = acked \ {v}
    BY <1>4, <1>9
  <2>2. /\ content' \in [Version -> (SUBSET Method) \cup {None}]
        /\ content'[v] = now /\ \A u \in Version : u # v => content'[u] = content[u]
    BY <1>2, <1>6, <2>1
  <2>3. Grown(content, projects, content', projects')
    BY <1>2, <1>5, <2>2, Zenon DEF Grown
  <2>4. x.bad = FALSE /\ x.prev < x.version
    BY <1>2, <1>3, <1>9, Zenon
  <2>5. ASSUME NEW f \in x.files
        PROVE  /\ x.prev \in Version /\ content'[x.prev] # None
               /\ At(content'[x.version], f) = At(content'[x.prev], f)
    <3>1. f \in Same(now, p)
      BY <1>2, <1>3
    <3>2. p # 0 /\ content[p] # None /\ At(now, f) = At(content[p], f)
      BY <3>1, Zenon DEF Same
    <3>3. p \in Version /\ p # v
      BY <1>2, <3>2, UploadBounds DEF Version
    <3> QED BY <1>3, <2>2, <3>2, <3>3, Zenon
  <2>6. x.phase \notin Stored /\ x.phase # "methods" /\ x.phase # "files"
    BY <1>3 DEF Stored
  <2>7. x.hashes \in Seq(HashesOf(content'[x.version]))
    BY <1>3
  <2>8. Truthful(x, content', projects')
    BY <1>3, <1>7, <2>2, <2>5, <2>6, <2>7, Zenon DEF Truthful
  <2>9. Request(x, content', projects')
    BY <1>3, <2>4, <2>8, Zenon DEF Request
  <2>10. Requests' /\ Threads'
    <3>1. up[c].phase \notin {"methods", "files"}
      BY <1>5
    <3> QED BY <1>4, <1>5, <1>6, <2>3, <2>9, <3>1, StepUpload
  <2>11. Tables'
    BY <1>5, <1>6, <2>1, <2>2, Zenon DEF Tables
  <2> QED BY <1>5, <1>6, <2>3, <2>10, <2>11, RowsStay, HashesStay, Zenon DEF UploadInv
<1> QED BY <1>2, <1>8, <1>9, Zenon

(***************************************************************************)
(* The handler before the workers start                                     *)
(***************************************************************************)
\* Upload x is upload u, further on.
Kept(x, u) == /\ x.version = u.version /\ x.prev = u.prev /\ x.files = u.files
              /\ x.bad = u.bad /\ x.sent = u.sent /\ x.as = u.as

LEMMA TruthfulMoves ==
  ASSUME NEW u, NEW x, NEW ct, NEW pj, NEW pj2, Truthful(u, ct, pj), Kept(x, u),
         x.hashes \in Seq(HashesOf(ct[x.version])),
         x.phase \in Stored => pj2[x.version] # None,
         x.phase = "methods" => x.queue \in Seq(ct[x.version]),
         x.phase = "files" => x.prev \in Version
  PROVE  Truthful(x, ct, pj2)
<1>1. /\ x.version = u.version /\ x.prev = u.prev /\ x.files = u.files /\ x.sent = u.sent
  BY Zenon DEF Kept
<1> QED BY <1>1, Zenon DEF Truthful

\* A step that leaves tables and contents alone.
LEMMA Quiet ==
  ASSUME UploadInv, methods' = methods, projects' = projects, byAuthor' = byAuthor,
         authors' = authors, content' = content, acked' \subseteq Version,
         alive' \in BOOLEAN, faults' \in 0..MaxFaults, crashes' \in 0..MaxCrashes,
         Requests', Threads'
  PROVE  UploadInv'
<1>1. Tables /\ Rows /\ HashesHonest
  BY Zenon DEF UploadInv
<1>2. Tables'
  BY <1>1, Zenon DEF Tables
<1>3. Grown(content, projects, content', projects')
  BY Zenon DEF Grown
<1> QED BY <1>1, <1>2, <1>3, RowsStay, HashesStay, Zenon DEF UploadInv

LEMMA HappensType ==
  ASSUME faults \in 0..MaxFaults, NEW o, Happens(o)
  PROVE  faults' \in 0..MaxFaults
<1>1. CASE o = "ok"
  BY <1>1, Zenon DEF Happens
<1>2. CASE o # "ok"
  <2>1. faults < MaxFaults /\ faults' = faults + 1
    BY <1>2, Zenon DEF Happens
  <2> QED BY <2>1, UploadBounds
<1> QED BY <1>1, <1>2

\* The parts of the invariant a step of the handler starts from.
LEMMA Parts ==
  ASSUME UploadInv
  PROVE  /\ Tables /\ Requests /\ Threads /\ Rows /\ HashesHonest
         /\ content \in [Version -> (SUBSET Method) \cup {None}] /\ acked \subseteq Version
         /\ alive \in BOOLEAN /\ faults \in 0..MaxFaults /\ crashes \in 0..MaxCrashes
         /\ up = [c \in Conn |-> up[c]]
         /\ \A c \in Conn : up[c] = Idle \/ Request(up[c], content, projects)
         /\ \A c \in Conn : up[c].phase # "idle" => Request(up[c], content, projects)
<1>1. \A c \in Conn : up[c].phase # "idle" => up[c] # Idle
  BY DEF Idle
<1> QED BY <1>1, Zenon DEF UploadInv, Tables, Requests

LEMMA ReplyType ==
  ASSUME UploadInv, NEW c \in Conn, NEW code, Reply(c, code), up[c].phase # "idle"
  PROVE  /\ up' = [up EXCEPT ![c] = Idle] /\ content' = content /\ acked' \subseteq Version
<1>1. up[c] \in Upload(Entry(up[c]))
  BY Parts, Zenon DEF Request
<1>2. up[c].version \in Version
  BY <1>1 DEF Upload
<1>3. acked \subseteq Version
  BY Parts
<1>4. /\ up' = [up EXCEPT ![c] = Idle] /\ content' = content
      /\ acked' = acked \cup {up[c].version} \/ acked' = acked
  BY Zenon DEF Reply
<1> QED BY <1>2, <1>3, <1>4

LEMMA EarlyType ==
  ASSUME UploadInv, NEW c \in Conn, up[c].phase \in {"check", "search", "parse", "insert"}
  PROVE  /\ Request(up[c], content, projects) /\ up[c] \in Upload(Method)
         /\ up[c].prev < up[c].version /\ up[c].phase \notin {"methods", "files"}
         /\ up[c].phase # "idle"
<1>1. up[c].phase # "idle" /\ Entry(up[c]) = Method /\ up[c].phase \notin {"methods", "files"}
  BY DEF Entry
<1> QED BY <1>1, Parts, Zenon DEF Request

\* The handler goes on with its upload.
LEMMA Advance ==
  ASSUME UploadInv, NEW c \in Conn, NEW x, content' = content, worker' = worker,
         Grown(content, projects, content', projects'),
         Request(up[c], content, projects), up[c].phase \notin {"methods", "files"},
         up' = [up EXCEPT ![c] = x], x \in Upload(Entry(x)), Kept(x, up[c]),
         up[c].bad = FALSE \/ x.phase \in {"check", "search", "parse"},
         x.phase = "search" => x.prev # 0, x.phase \notin {"methods", "files"},
         up[c].bad = FALSE => x.hashes \in Seq(HashesOf(content[x.version])),
         x.phase \in Stored => projects'[x.version] # None
  PROVE  Requests' /\ Threads'
<1>1. x.prev < x.version
  BY Zenon DEF Request, Kept
<1>2. Request(x, content', projects')
  <2>1. CASE up[c].bad = FALSE
    <3>1. Truthful(up[c], content, projects)
      BY <2>1, Zenon DEF Request
    <3>2. x.phase # "methods" /\ x.phase # "files"
      OBVIOUS
    <3>3. Truthful(x, content, projects')
      BY <2>1, <3>1, <3>2, TruthfulMoves, Zenon
    <3>4. x.bad = FALSE
      BY <2>1, Zenon DEF Kept
    <3> QED BY <1>1, <3>3, <3>4, Zenon DEF Request
  <2>2. CASE up[c].bad = TRUE /\ x.phase \in {"check", "search", "parse"}
    <3>1. x.bad = TRUE
      BY <2>2, Zenon DEF Kept
    <3> QED BY <1>1, <2>2, <3>1, Zenon DEF Request
  <2> QED BY <2>1, <2>2, Zenon DEF Request
<1> QED BY <1>2, Parts, StepUpload

\* The handler is done.
LEMMA Replied ==
  ASSUME UploadInv, NEW c \in Conn, NEW code, Reply(c, code), worker' = worker,
         Grown(content, projects, content, projects'),
         up[c].phase \notin {"methods", "files"}, up[c].phase # "idle"
  PROVE  Requests' /\ Threads' /\ content' = content /\ acked' \subseteq Version
<1>1. up' = [up EXCEPT ![c] = Idle] /\ content' = content /\ acked' \subseteq Version
  BY ReplyType
<1>2. Grown(content, projects, content', projects')
  BY <1>1, Zenon
<1> QED BY <1>1, <1>2, Parts, StepUpload

LEMMA CheckInv ==
  ASSUME UploadInv, NEW c \in Conn, Check(c)
  PROVE  UploadInv'
<1>1. /\ up[c].phase = "check"
      /\ methods' = methods /\ projects' = projects /\ byAuthor' = byAuthor /\ authors' = authors
      /\ worker' = worker /\ alive' = alive /\ faults' = faults /\ crashes' = crashes
  BY Zenon DEF Check, tables
<1> DEFINE u == up[c]
<1>2. /\ Request(u, content, projects) /\ u \in Upload(Method)
      /\ u.prev < u.version /\ u.phase \notin {"methods", "files"} /\ u.phase # "idle"
  BY <1>1, EarlyType
<1>0. Grown(content, projects, content, projects')
  BY <1>1, Zenon DEF Grown
<1>3. CASE u.bad = TRUE
  <2>1. Reply(c, "client")
    BY <1>3, Zenon DEF Check
  <2>2. Requests' /\ Threads' /\ content' = content /\ acked' \subseteq Version
    BY <1>0, <1>1, <1>2, <2>1, Replied
  <2> QED BY <1>1, <2>2, Parts, Quiet
<1>4. CASE u.bad = FALSE
  <2> DEFINE q == FirstPhase(u.prev)
             x == [u EXCEPT !.phase = q]
  <2>1. up' = [up EXCEPT ![c].phase = q] /\ content' = content /\ acked' = acked
    BY <1>4, Zenon DEF Check, clients
  <2>2. q \in {"search", "parse"} /\ (q = "search" => u.prev # 0)
    BY DEF FirstPhase
  <2> HIDE DEF q
  <2>3. up' = [up EXCEPT ![c] = x]
    <3>1. up = [d \in Conn |-> up[d]]
      BY Parts
    <3> QED BY <2>1, <3>1
  <2>4. x \in Upload(Method) /\ x.phase = q /\ x.hashes = u.hashes
    BY <1>2, <2>2 DEF Upload, Phase
  <2>5. Kept(x, u)
    BY <1>2 DEF Upload, Kept
  <2> HIDE DEF x
  <2>6. /\ Entry(x) = Method /\ x.phase \notin Stored /\ x.phase \notin {"methods", "files"}
        /\ (x.phase = "search" => x.prev # 0)
    BY <2>2, <2>4, <2>5 DEF Entry, Stored, Kept
  <2>7. x.hashes \in Seq(HashesOf(content[x.version]))
    BY <1>2, <1>4, <2>4, <2>5, Zenon DEF Request, Truthful, Kept
  <2>8. x \in Upload(Entry(x))
    BY <2>4, <2>6, Zenon
  <2>9. Requests' /\ Threads'
    BY <1>0, <1>1, <1>2, <1>4, <2>1, <2>3, <2>5, <2>6, <2>7, <2>8, Advance, Zenon
  <2> QED BY <1>1, <2>1, <2>9, Parts, Quiet
<1>5. u.bad \in BOOLEAN
  BY <1>2 DEF Upload
<1> QED BY <1>3, <1>4, <1>5, Zenon

LEMMA SearchPreviousInv ==
  ASSUME UploadInv, NEW c \in Conn, SearchPrevious(c)
  PROVE  UploadInv'
<1> DEFINE u == up[c]
<1>1. /\ u.phase = "search"
      /\ methods' = methods /\ projects' = projects /\ byAuthor' = byAuthor /\ authors' = authors
      /\ worker' = worker /\ alive' = alive /\ crashes' = crashes
  BY Zenon DEF SearchPrevious, tables
<1>2. /\ Request(u, content, projects) /\ u \in Upload(Method)
      /\ u.prev < u.version /\ u.phase \notin {"methods", "files"} /\ u.phase # "idle"
  BY <1>1, EarlyType
<1>3. Grown(content, projects, content, projects')
  BY <1>1, Zenon DEF Grown
<1>4. PICK o \in {"ok", "fail"} :
       /\ Happens(o)
       /\ IF o = "ok" /\ projects[up[c].prev] # None
            THEN /\ up' = [up EXCEPT ![c].phase = "parse", ![c].prevHashes = projects[up[c].prev]]
                 /\ UNCHANGED clients
            ELSE Reply(c, "server")
  BY Zenon DEF SearchPrevious
<1>5. faults' \in 0..MaxFaults
  BY <1>4, Parts, HappensType
<1>6. CASE o = "ok" /\ projects[u.prev] # None
  <2> DEFINE h == projects[u.prev]
             x == [u EXCEPT !.phase = "parse", !.prevHashes = h]
  <2>1. /\ up' = [up EXCEPT ![c].phase = "parse", ![c].prevHashes = h]
        /\ content' = content /\ acked' = acked
    BY <1>4, <1>6, Zenon DEF clients
  <2>2. h \in SUBSET Hash
    <3>1. u.prev # 0 /\ u.prev \in 0..MaxVersion
      BY <1>1, <1>2 DEF Request, Upload
    <3>2. u.prev \in Version
      BY <3>1, UploadBounds DEF Version
    <3>3. projects[u.prev] \in (SUBSET Hash) \cup {None}
      BY <3>2 DEF UploadInv, Tables
    <3> QED BY <1>6, <3>3, Zenon
  <2> HIDE DEF h
  <2>3. up' = [up EXCEPT ![c] = x]
    <3>1. up = [d \in Conn |-> up[d]]
      BY Parts
    <3> QED BY <2>1, <3>1
  <2>4. x \in Upload(Method) /\ x.phase = "parse" /\ x.hashes = u.hashes
    BY <1>2, <2>2 DEF Upload, Phase
  <2>5. Kept(x, u)
    BY <1>2 DEF Upload, Kept
  <2> HIDE DEF x
  <2>6. /\ Entry(x) = Method /\ x.phase \notin Stored /\ x.phase \notin {"methods", "files"}
        /\ x.phase # "search" /\ x.phase \in {"check", "search", "parse"}
    BY <2>4 DEF Entry, Stored
  <2>7. u.bad = FALSE => x.hashes \in Seq(HashesOf(content[x.version]))
    BY <1>2, <2>4, <2>5, Zenon DEF Request, Truthful, Kept
  <2>8. x \in Upload(Entry(x))
    BY <2>4, <2>6, Zenon
  <2>9. Requests' /\ Threads'
    BY <1>1, <1>2, <1>3, <2>1, <2>3, <2>5, <2>6, <2>7, <2>8, Advance, Zenon
  <2> QED BY <1>1, <1>5, <2>1, <2>9, Parts, Quiet
<1>7. CASE ~(o = "ok" /\ projects[u.prev] # None)
  <2>1. Reply(c, "server")
    BY <1>4, <1>7, Zenon
  <2>2. Requests' /\ Threads' /\ content' = content /\ acked' \subseteq Version
    BY <1>1, <1>2, <1>3, <2>1, Replied
  <2> QED BY <1>1, <1>5, <2>2, Parts, Quiet
<1> QED BY <1>6, <1>7

LEMMA ParseMethodsInv ==
  ASSUME UploadInv, NEW c \in Conn, ParseMethods(c)
  PROVE  UploadInv'
<1> DEFINE u == up[c]
<1>1. /\ u.phase = "parse"
      /\ methods' = methods /\ projects' = projects /\ byAuthor' = byAuthor /\ authors' = authors
      /\ worker' = worker /\ alive' = alive /\ faults' = faults /\ crashes' = crashes
  BY Zenon DEF ParseMethods, tables
<1>2. /\ Request(u, content, projects) /\ u \in Upload(Method)
      /\ u.prev < u.version /\ u.phase \notin {"methods", "files"} /\ u.phase # "idle"
  BY <1>1, EarlyType
<1>3. Grown(content, projects, content, projects')
  BY <1>1, Zenon DEF Grown
<1>4. CASE u.bad = TRUE
  <2>1. Reply(c, "client")
    BY <1>4, Zenon DEF ParseMethods
  <2>2. Requests' /\ Threads' /\ content' = content /\ acked' \subseteq Version
    BY <1>1, <1>2, <1>3, <2>1, Replied
  <2> QED BY <1>1, <2>2, Parts, Quiet
<1>5. CASE u.bad = FALSE
  <2> DEFINE h == [i \in DOMAIN u.sent |-> u.sent[i].hash]
             x == [u EXCEPT !.phase = "insert", !.hashes = h]
  <2>1. /\ up' = [up EXCEPT ![c].phase = "insert", ![c].hashes = h]
        /\ content' = content /\ acked' = acked
    BY <1>5, Zenon DEF ParseMethods, clients
  <2>2. u.sent \in Seq(content[u.version]) /\ u.version \in Version /\ content[u.version] \subseteq Method
    <3>1. u.sent \in Seq(content[u.version]) /\ content[u.version] # None
      BY <1>2, <1>5, Zenon DEF Request, Truthful
    <3>2. u.version \in Version
      BY <1>2 DEF Upload
    <3>3. content[u.version] \in SUBSET Method
      BY <3>1, <3>2, Parts, Holds
    <3> QED BY <3>1, <3>2, <3>3, Zenon
  <2>3. h \in Seq(HashesOf(content[u.version])) /\ h \in Seq(Hash)
    <3> DEFINE s == u.sent
               ms == content[u.version]
    <3>1. s \in Seq(ms) /\ ms \subseteq Method
      BY <2>2
    <3> HIDE DEF s, ms
    <3>2. Len(s) \in Nat /\ DOMAIN s = 1..Len(s) /\ \A i \in 1..Len(s) : s[i] \in ms
      BY <3>1
    <3>3. \A i \in 1..Len(s) : s[i].hash \in HashesOf(ms)
      BY <3>2, Zenon DEF HashesOf
    <3>4. HashesOf(ms) \subseteq Hash
      BY <3>1 DEF HashesOf, Method
    <3>5. [i \in 1..Len(s) |-> s[i].hash] \in Seq(HashesOf(ms))
      BY <3>2, <3>3
    <3>6. [i \in DOMAIN s |-> s[i].hash] \in Seq(HashesOf(ms))
      BY <3>2, <3>5
    <3>7. [i \in DOMAIN s |-> s[i].hash] \in Seq(Hash)
      BY <3>4, <3>6, SeqMono
    <3> QED BY <3>6, <3>7 DEF s, ms
  <2> HIDE DEF h
  <2>4. up' = [up EXCEPT ![c] = x]
    <3>1. up = [d \in Conn |-> up[d]]
      BY Parts
    <3> QED BY <2>1, <3>1
  <2>5. x \in Upload(Method) /\ x.phase = "insert" /\ x.hashes = h
    BY <1>2, <2>3 DEF Upload, Phase
  <2>6. Kept(x, u)
    BY <1>2 DEF Upload, Kept
  <2> HIDE DEF x
  <2>7. /\ Entry(x) = Method /\ x.phase \notin Stored /\ x.phase \notin {"methods", "files"}
        /\ x.phase # "search"
    BY <2>5 DEF Entry, Stored
  <2>8. x.hashes \in Seq(HashesOf(content[x.version]))
    BY <2>3, <2>5, <2>6, Zenon DEF Kept
  <2>9. x \in Upload(Entry(x))
    BY <2>5, <2>7, Zenon
  <2>10. Requests' /\ Threads'
    BY <1>1, <1>2, <1>3, <1>5, <2>1, <2>4, <2>6, <2>7, <2>8, <2>9, Advance, Zenon
  <2> QED BY <1>1, <2>1, <2>10, Parts, Quiet
<1>6. u.bad \in BOOLEAN
  BY <1>2 DEF Upload
<1> QED BY <1>4, <1>5, <1>6, Zenon

(***************************************************************************)
(* The project row                                                          *)
(***************************************************************************)
LEMMA HashChunkType ==
  ASSUME UploadInv, NEW c \in Conn, NEW i \in Nat,
         up[c].phase \in {"insert", "extend", "start", "methods", "files", "unchanged"}
  PROVE  /\ up[c].version \in Version /\ content[up[c].version] # None
         /\ HashChunk(c, i) \subseteq HashesOf(content[up[c].version])
         /\ HashChunk(c, i) \in SUBSET Hash
<1> DEFINE u == up[c]
           S == HashesOf(content[u.version])
           s == u.hashes
<1>1. up[c] = Idle \/ Request(up[c], content, projects)
  BY Parts
<1>2. Truthful(u, content, projects) /\ u \in Upload(Entry(u))
  BY <1>1, Working
<1>3. u.version \in Version /\ s \in Seq(Hash)
  BY <1>2 DEF Upload
<1>4. content[u.version] # None /\ s \in Seq(S)
  BY <1>2, Zenon DEF Truthful
<1>5. HashChunk(c, i) = {s[j] : j \in (i + 1)..LeastOf(i + HASHES_INSERT_MAX, Len(s))}
  BY Zenon DEF HashChunk
<1> HIDE DEF s, S
<1>6. \A j \in (i + 1)..LeastOf(i + HASHES_INSERT_MAX, Len(s)) : j \in 1..Len(s)
  <2>1. Len(s) \in Nat /\ HASHES_INSERT_MAX \in Nat
    BY <1>3, UploadBounds
  <2> QED BY <2>1 DEF LeastOf
<1>7. \A j \in 1..Len(s) : s[j] \in S /\ s[j] \in Hash
  BY <1>3, <1>4
<1>8. HashChunk(c, i) \subseteq S /\ HashChunk(c, i) \subseteq Hash
  BY <1>5, <1>6, <1>7, Zenon
<1> QED BY <1>3, <1>4, <1>8, Zenon DEF S

\* The row of version v gets hashes the version holds, or stays as it is.
LEMMA RowGrows ==
  ASSUME UploadInv, NEW v \in Version, content[v] # None, NEW k \in SUBSET Hash,
         k \subseteq HashesOf(content[v]),
         projects' = projects \/ projects' = [projects EXCEPT ![v] = k]
  PROVE  /\ projects' \in [Version -> (SUBSET Hash) \cup {None}]
         /\ Grown(content, projects, content, projects')
         /\ \A y \in Version : projects'[y] # None =>
              content[y] # None /\ projects'[y] \subseteq HashesOf(content[y])
<1>1. projects \in [Version -> (SUBSET Hash) \cup {None}] /\ HashesHonest
  BY Zenon DEF UploadInv, Tables
<1>2. k # None
  BY UploadSets
<1>3. CASE projects' = projects
  BY <1>1, <1>3, Zenon DEF Grown, HashesHonest
<1>4. CASE projects' = [projects EXCEPT ![v] = k]
  <2>1. /\ projects' \in [Version -> (SUBSET Hash) \cup {None}]
        /\ projects'[v] = k /\ \A y \in Version : y # v => projects'[y] = projects[y]
    BY <1>1, <1>4
  <2> QED BY <1>1, <1>2, <2>1, Zenon DEF Grown, HashesHonest
<1> QED BY <1>3, <1>4

\* A step that leaves all tables but projects alone.
LEMMA Loud ==
  ASSUME UploadInv, NEW v \in Version, content[v] # None, NEW k \in SUBSET Hash,
         k \subseteq HashesOf(content[v]),
         projects' = projects \/ projects' = [projects EXCEPT ![v] = k],
         methods' = methods, byAuthor' = byAuthor,
         authors' = authors, content' = content, acked' \subseteq Version,
         alive' \in BOOLEAN, faults' \in 0..MaxFaults, crashes' \in 0..MaxCrashes,
         Requests', Threads'
  PROVE  UploadInv'
<1>1. /\ projects' \in [Version -> (SUBSET Hash) \cup {None}]
      /\ Grown(content, projects, content, projects')
      /\ \A y \in Version : projects'[y] # None =>
              content[y] # None /\ projects'[y] \subseteq HashesOf(content[y])
  BY RowGrows
<1>2. Tables /\ Rows
  BY Zenon DEF UploadInv
<1>3. Tables'
  BY <1>1, <1>2, Zenon DEF Tables
<1>4. HashesHonest'
  BY <1>1, Zenon DEF HashesHonest
<1>5. Rows'
  BY <1>1, <1>2, RowsStay, Zenon
<1> QED BY <1>3, <1>4, <1>5, Zenon DEF UploadInv

LEMMA AfterAddProjectStep ==
  ASSUME UploadInv, NEW c \in Conn, NEW e \in BOOLEAN, NEW stored \in BOOLEAN,
         AfterAddProject(c, e, stored), worker' = worker,
         up[c].phase \in {"insert", "extend"},
         Grown(content, projects, content, projects'),
         e = FALSE \/ stored = TRUE => projects'[up[c].version] # None
  PROVE  Requests' /\ Threads' /\ content' = content /\ acked' \subseteq Version
<1> DEFINE u == up[c]
           n == u.tries + 1
<1>1. /\ u.phase \in {"insert", "extend", "start", "methods", "files", "unchanged"}
      /\ u.phase \notin {"methods", "files"} /\ u.phase # "idle" /\ Entry(u) = Method
  BY DEF Entry
<1>2. u = Idle \/ Request(u, content, projects)
  BY Parts
<1>3. /\ Request(u, content, projects) /\ u.bad = FALSE /\ Truthful(u, content, projects)
      /\ u \in Upload(Method)
  BY <1>1, <1>2, Working, Zenon
<1>4. up = [d \in Conn |-> up[d]] /\ acked \subseteq Version
  BY Parts
<1>5. ASSUME NEW b \in BOOLEAN, up' = [up EXCEPT ![c].phase = "start", ![c].errno = b],
             content' = content, projects'[u.version] # None
      PROVE  Requests' /\ Threads'
  <2> DEFINE x == [u EXCEPT !.phase = "start", !.errno = b]
  <2>1. up' = [up EXCEPT ![c] = x]
    BY <1>4, <1>5
  <2>2. x \in Upload(Method) /\ x.phase = "start" /\ x.hashes = u.hashes
    BY <1>3 DEF Upload, Phase
  <2>3. Kept(x, u)
    BY <1>3 DEF Upload, Kept
  <2> HIDE DEF x
  <2>4. Entry(x) = Method /\ x.phase \notin {"methods", "files"} /\ x.phase # "search"
    BY <2>2 DEF Entry
  <2>5. x.hashes \in Seq(HashesOf(content[x.version])) /\ projects'[x.version] # None
    BY <1>3, <1>5, <2>2, <2>3, Zenon DEF Truthful, Kept
  <2>6. x \in Upload(Entry(x))
    BY <2>2, <2>4, Zenon
  <2> QED BY <1>1, <1>3, <1>5, <2>1, <2>3, <2>4, <2>5, <2>6, Advance, Zenon
<1>6. ASSUME up' = [up EXCEPT ![c].phase = "insert", ![c].tries = n], n <= MAX_RETRIES,
             content' = content
      PROVE  Requests' /\ Threads'
  <2> DEFINE x == [u EXCEPT !.phase = "insert", !.tries = n]
  <2>1. up' = [up EXCEPT ![c] = x]
    BY <1>4, <1>6
  <2>2. u.tries \in 0..MAX_RETRIES
    BY <1>3 DEF Upload
  <2>3. n \in 0..MAX_RETRIES
    BY <1>6, <2>2, UploadBounds
  <2> HIDE DEF n
  <2>4. x \in Upload(Method) /\ x.phase = "insert" /\ x.hashes = u.hashes
    BY <1>3, <2>3 DEF Upload, Phase
  <2>5. Kept(x, u)
    BY <1>3 DEF Upload, Kept
  <2> HIDE DEF x
  <2>6. Entry(x) = Method /\ x.phase \notin {"methods", "files"} /\ x.phase # "search" /\ x.phase \notin Stored
    BY <2>4 DEF Entry, Stored
  <2>7. x.hashes \in Seq(HashesOf(content[x.version]))
    BY <1>3, <2>4, <2>5, Zenon DEF Truthful, Kept
  <2>8. x \in Upload(Entry(x))
    BY <2>4, <2>6, Zenon
  <2> QED BY <1>1, <1>3, <1>6, <2>1, <2>5, <2>6, <2>7, <2>8, Advance, Zenon
<1>7. \/ e = FALSE /\ up' = [up EXCEPT ![c].phase = "start", ![c].errno = FALSE] /\ content' = content /\ acked' = acked
      \/ up' = [up EXCEPT ![c].phase = "insert", ![c].tries = n] /\ n <= MAX_RETRIES /\ content' = content /\ acked' = acked
      \/ stored = TRUE /\ up' = [up EXCEPT ![c].phase = "start", ![c].errno = TRUE] /\ content' = content /\ acked' = acked
      \/ Reply(c, "server")
  BY Zenon DEF AfterAddProject, clients
<1>8. CASE Reply(c, "server")
  BY <1>1, <1>8, Replied
<1>9. CASE e = FALSE /\ up' = [up EXCEPT ![c].phase = "start", ![c].errno = FALSE] /\ content' = content /\ acked' = acked
  BY <1>4, <1>5, <1>9, Zenon
<1>10. CASE stored = TRUE /\ up' = [up EXCEPT ![c].phase = "start", ![c].errno = TRUE] /\ content' = content /\ acked' = acked
  BY <1>4, <1>5, <1>10, Zenon
<1>11. CASE up' = [up EXCEPT ![c].phase = "insert", ![c].tries = n] /\ n <= MAX_RETRIES /\ content' = content /\ acked' = acked
  BY <1>4, <1>6, <1>11, Zenon
<1> QED BY <1>7, <1>8, <1>9, <1>10, <1>11, Zenon

\* The handler goes on at index i, in phase ph.
LEMMA IndexMove ==
  ASSUME UploadInv, NEW c \in Conn, NEW ph, NEW i \in Nat, content' = content, worker' = worker,
         Grown(content, projects, content, projects'),
         (up[c].phase = "insert" /\ ph = "extend") \/ (up[c].phase = ph /\ ph \in {"extend", "unchanged"}),
         up' = [up EXCEPT ![c].phase = ph, ![c].index = i],
         projects'[up[c].version] # None
  PROVE  Requests' /\ Threads'
<1> DEFINE u == up[c]
           x == [u EXCEPT !.phase = ph, !.index = i]
<1>1. /\ u.phase \in {"insert", "extend", "start", "methods", "files", "unchanged"}
      /\ u.phase \notin {"methods", "files"}
      /\ ph \in Phase /\ ph \notin {"methods", "files"} /\ ph # "search"
  BY DEF Phase
<1>2. u = Idle \/ Request(u, content, projects)
  BY Parts
<1>3. /\ Request(u, content, projects) /\ u.bad = FALSE /\ Truthful(u, content, projects)
      /\ u \in Upload(Entry(u))
  BY <1>1, <1>2, Working, Zenon
<1>4. up' = [up EXCEPT ![c] = x]
  <2>1. up = [d \in Conn |-> up[d]]
    BY Parts
  <2> QED BY <2>1
<1>5. x \in Upload(Entry(u)) /\ x.phase = ph /\ x.hashes = u.hashes
  BY <1>1, <1>3 DEF Upload
<1>6. Kept(x, u)
  BY <1>3 DEF Upload, Kept
<1> HIDE DEF x
<1>7. Entry(x) = Entry(u)
  BY <1>5, <1>6 DEF Entry, Kept
<1>8. x \in Upload(Entry(x)) /\ x.phase \notin {"methods", "files"} /\ x.phase # "search"
  BY <1>1, <1>5, <1>7, Zenon
<1>9. x.hashes \in Seq(HashesOf(content[x.version])) /\ projects'[x.version] # None
  BY <1>3, <1>5, <1>6, Zenon DEF Truthful, Kept
<1> QED BY <1>1, <1>3, <1>4, <1>6, <1>8, <1>9, Advance, Zenon

LEMMA AddProjectInv ==
  ASSUME UploadInv, NEW c \in Conn, AddProject(c)
  PROVE  UploadInv'
<1> DEFINE v == up[c].version
           k == HashChunk(c, 0)
<1>1. PICK o \in Outcome :
       /\ Happens(o)
       /\ projects' = (IF o = "fail" THEN projects ELSE [projects EXCEPT ![v] = k])
       /\ IF o = "ok" /\ MoreHashes(c, 0)
            THEN /\ up' = [up EXCEPT ![c].phase = "extend", ![c].index = HASHES_INSERT_MAX]
                 /\ UNCHANGED clients
            ELSE AfterAddProject(c, o # "ok", FALSE)
  BY Zenon DEF AddProject
<1>2. /\ up[c].phase = "insert"
      /\ methods' = methods /\ byAuthor' = byAuthor /\ authors' = authors
      /\ worker' = worker /\ alive' = alive /\ crashes' = crashes
  BY Zenon DEF AddProject
<1>3. faults' \in 0..MaxFaults
  BY <1>1, Parts, HappensType
<1>4. /\ v \in Version /\ content[v] # None
      /\ k \subseteq HashesOf(content[v]) /\ k \in SUBSET Hash
  BY <1>2, HashChunkType
<1>5. projects \in [Version -> (SUBSET Hash) \cup {None}]
  BY Zenon DEF UploadInv, Tables
<1> HIDE DEF k, v
<1>6. projects' = projects \/ projects' = [projects EXCEPT ![v] = k]
  BY <1>1, Zenon
<1>7. Grown(content, projects, content, projects')
  BY <1>4, <1>6, RowGrows
<1>8. o = "ok" => projects'[v] # None
  <2>1. k # None
    BY <1>4, UploadSets
  <2>2. o = "ok" => projects' = [projects EXCEPT ![v] = k]
    BY <1>1
  <2>3. [projects EXCEPT ![v] = k][v] = k
    BY <1>4, <1>5
  <2> QED BY <2>1, <2>2, <2>3, Zenon
<1>9. Requests' /\ Threads' /\ content' = content /\ acked' \subseteq Version
  <2>1. CASE o = "ok" /\ MoreHashes(c, 0)
    <3>1. /\ up' = [up EXCEPT ![c].phase = "extend", ![c].index = HASHES_INSERT_MAX]
          /\ content' = content /\ acked' = acked
      BY <1>1, <2>1, Zenon DEF clients
    <3>2. HASHES_INSERT_MAX \in Nat /\ acked \subseteq Version
      BY UploadBounds, Parts
    <3>3. projects'[up[c].version] # None
      BY <1>8, <2>1, Zenon DEF v
    <3>4. Requests' /\ Threads'
      BY <1>2, <1>7, <3>1, <3>2, <3>3, IndexMove, Zenon
    <3> QED BY <3>1, <3>2, <3>4, Zenon
  <2>2. CASE ~(o = "ok" /\ MoreHashes(c, 0))
    <3> DEFINE e == o # "ok"
    <3>1. AfterAddProject(c, e, FALSE)
      BY <1>1, <2>2, Zenon
    <3>2. e \in BOOLEAN /\ FALSE \in BOOLEAN
      OBVIOUS
    <3>3. e = FALSE \/ FALSE = TRUE => projects'[up[c].version] # None
      BY <1>8, Zenon DEF v
    <3>4. up[c].phase \in {"insert", "extend"}
      BY <1>2
    <3> HIDE DEF e
    <3> QED BY <1>2, <1>7, <3>1, <3>2, <3>3, <3>4, AfterAddProjectStep, Zenon
  <2> QED BY <2>1, <2>2
<1> QED BY <1>2, <1>3, <1>4, <1>6, <1>9, Parts, Loud

\* The row after a call of addHashToProject.
LEMMA HashesWritten ==
  ASSUME UploadInv, NEW c \in Conn, up[c].phase \in {"extend", "unchanged"},
         \/ projects' = projects
         \/ projects' = WithHashes(up[c].version, HashChunk(c, up[c].index))
  PROVE  /\ up[c].version \in Version /\ content[up[c].version] # None
         /\ projects[up[c].version] # None
         /\ \E k \in SUBSET Hash :
              /\ k \subseteq HashesOf(content[up[c].version])
              /\ projects' = projects \/ projects' = [projects EXCEPT ![up[c].version] = k]
<1> DEFINE v == up[c].version
           i == up[c].index
           hs == HashChunk(c, i)
           k == projects[v] \cup hs
<1>1. /\ up[c].phase \in {"insert", "extend", "start", "methods", "files", "unchanged"}
      /\ up[c].phase \in Stored
  BY DEF Stored
<1>2. up[c] = Idle \/ Request(up[c], content, projects)
  BY Parts
<1>3. Truthful(up[c], content, projects) /\ up[c] \in Upload(Entry(up[c]))
  BY <1>1, <1>2, Working
<1>4. projects[v] # None
  BY <1>1, <1>3, Zenon DEF Truthful
<1>5. i \in Nat
  BY <1>3 DEF Upload
<1>6. /\ v \in Version /\ content[v] # None
      /\ hs \subseteq HashesOf(content[v]) /\ hs \in SUBSET Hash
  BY <1>1, <1>5, HashChunkType
<1>7. /\ projects \in [Version -> (SUBSET Hash) \cup {None}]
      /\ projects[v] \subseteq HashesOf(content[v])
  BY <1>4, <1>6, Zenon DEF UploadInv, Tables, HashesHonest
<1>8. projects[v] \in SUBSET Hash
  <2>1. projects[v] \in (SUBSET Hash) \cup {None}
    BY <1>6, <1>7
  <2> QED BY <1>4, <2>1, Zenon
<1>9. projects' = projects \/ projects' = WithHashes(v, hs)
  BY Zenon
<1> HIDE DEF hs, v
<1>10. k \in SUBSET Hash /\ k \subseteq HashesOf(content[v])
  BY <1>6, <1>7, <1>8
<1>11. WithHashes(v, hs) = [projects EXCEPT ![v] = k]
  BY <1>4, <1>6, <1>7 DEF WithHashes
<1> HIDE DEF k
<1>12. projects' = projects \/ projects' = [projects EXCEPT ![v] = k]
  BY <1>9, <1>11, Zenon
<1> QED BY <1>4, <1>6, <1>10, <1>12, Zenon DEF v

LEMMA AddHashesInv ==
  ASSUME UploadInv, NEW c \in Conn, AddHashes(c)
  PROVE  UploadInv'
<1> DEFINE v == up[c].version
<1>1. PICK o \in Outcome :
       /\ Happens(o)
       /\ projects' = (IF o = "fail" THEN projects ELSE WithHashes(v, HashChunk(c, up[c].index)))
       /\ IF MoreHashes(c, up[c].index)
            THEN up' = [up EXCEPT ![c].index = @ + HASHES_INSERT_MAX] /\ UNCHANGED clients
          ELSE IF up[c].phase = "extend"
            THEN AfterAddProject(c, o # "ok", TRUE)
            ELSE Reply(c, IF o = "ok" THEN "success" ELSE "server")
  BY Zenon DEF AddHashes
<1>2. /\ up[c].phase \in {"extend", "unchanged"}
      /\ methods' = methods /\ byAuthor' = byAuthor /\ authors' = authors
      /\ worker' = worker /\ alive' = alive /\ crashes' = crashes
  BY Zenon DEF AddHashes
<1>3. faults' \in 0..MaxFaults
  BY <1>1, Parts, HappensType
<1>4. /\ up[c].phase \in {"insert", "extend", "start", "methods", "files", "unchanged"}
      /\ up[c].phase \in Stored /\ up[c].phase # "idle" /\ up[c].phase \notin {"methods", "files"}
  BY <1>2 DEF Stored
<1>5. up[c] = Idle \/ Request(up[c], content, projects)
  BY Parts
<1>6. Truthful(up[c], content, projects) /\ up[c] \in Upload(Entry(up[c]))
  BY <1>4, <1>5, Working
<1>7. up[c].index \in Nat
  BY <1>6 DEF Upload
<1>8. projects' = projects \/ projects' = WithHashes(up[c].version, HashChunk(c, up[c].index))
  BY <1>1, Zenon
<1>9. v \in Version /\ content[v] # None /\ projects[v] # None
  BY <1>2, <1>8, HashesWritten, Zenon
<1>10. PICK k \in SUBSET Hash :
         /\ k \subseteq HashesOf(content[v])
         /\ projects' = projects \/ projects' = [projects EXCEPT ![v] = k]
  BY <1>2, <1>8, HashesWritten, Zenon
<1> HIDE DEF v
<1>11. Grown(content, projects, content, projects')
  BY <1>9, <1>10, RowGrows
<1>12. projects'[up[c].version] # None
  BY <1>9, <1>11, Zenon DEF Grown, v
<1>13. Requests' /\ Threads' /\ content' = content /\ acked' \subseteq Version
  <2>1. CASE MoreHashes(c, up[c].index)
    <3> DEFINE j == up[c].index + HASHES_INSERT_MAX
               ph == up[c].phase
    <3>1. /\ up' = [up EXCEPT ![c].index = @ + HASHES_INSERT_MAX]
          /\ content' = content /\ acked' = acked
      BY <1>1, <2>1, Zenon DEF clients
    <3>2. up = [d \in Conn |-> up[d]] /\ acked \subseteq Version
      BY Parts
    <3>3. j \in Nat
      BY <1>7, UploadBounds
    <3>4. up' = [up EXCEPT ![c] = [up[c] EXCEPT !.index = j]]
      BY <3>1, <3>2
    <3>5. [up[c] EXCEPT !.index = j] = [up[c] EXCEPT !.phase = ph, !.index = j]
      BY <1>6 DEF Upload
    <3> HIDE DEF j
    <3>6. up' = [up EXCEPT ![c].phase = ph, ![c].index = j]
      BY <3>2, <3>4, <3>5
    <3>7. up[c].phase = ph /\ ph \in {"extend", "unchanged"}
      BY <1>2
    <3> HIDE DEF ph
    <3>8. Requests' /\ Threads'
      <4>1. content' = content /\ worker' = worker
        BY <1>2, <3>1, Zenon
      <4> QED BY <1>11, <1>12, <3>3, <3>6, <3>7, <4>1, IndexMove
    <3> QED BY <3>1, <3>2, <3>8, Zenon
  <2>2. CASE ~MoreHashes(c, up[c].index) /\ up[c].phase = "extend"
    <3> DEFINE e == o # "ok"
    <3>1. AfterAddProject(c, e, TRUE)
      BY <1>1, <2>2, Zenon
    <3>2. e \in BOOLEAN /\ TRUE \in BOOLEAN
      OBVIOUS
    <3>3. up[c].phase \in {"insert", "extend"}
      BY <2>2
    <3> HIDE DEF e
    <3> QED BY <1>2, <1>11, <1>12, <3>1, <3>2, <3>3, AfterAddProjectStep, Zenon
  <2>3. CASE ~MoreHashes(c, up[c].index) /\ up[c].phase # "extend"
    <3>1. Reply(c, "success") \/ Reply(c, "server")
      BY <1>1, <2>3, Zenon
    <3> QED BY <1>2, <1>4, <1>11, <3>1, Replied, Zenon
  <2> QED BY <2>1, <2>2, <2>3
<1> QED BY <1>2, <1>3, <1>9, <1>10, <1>13, Parts, Loud

(***************************************************************************)
(* The start and the end of the workers                                     *)
(***************************************************************************)
LEMMA StopInv ==
  ASSUME UploadInv, Stop, crashes' \in 0..MaxCrashes
  PROVE  UploadInv'
<1>1. /\ alive' = FALSE /\ up' = [c \in Conn |-> Idle]
      /\ worker' = [c \in Conn |-> [w \in Worker |-> NoWorker]]
      /\ methods' = methods /\ projects' = projects /\ byAuthor' = byAuthor /\ authors' = authors
      /\ content' = content /\ acked' = acked /\ faults' = faults
  BY Zenon DEF Stop, tables, clients
<1>2. Requests'
  <2>1. \A c \in Conn : up'[c] = Idle
    BY <1>1
  <2>2. up' = [c \in Conn |-> up'[c]]
    BY <1>1
  <2> QED BY <2>1, <2>2, Zenon DEF Requests
<1>3. Threads'
  <2>1. \A c \in Conn : \A w \in Worker : worker'[c][w] = NoWorker
    BY <1>1
  <2>2. worker' = [c \in Conn |-> [w \in Worker |-> worker'[c][w]]]
    BY <1>1
  <2> QED BY <2>1, <2>2, Zenon DEF Threads
<1>4. alive' \in BOOLEAN
  BY <1>1
<1> QED BY <1>1, <1>2, <1>3, <1>4, Parts, Quiet

\* A worker that has just started.
LEMMA TakingBusy ==
  ASSUME NEW u, u.phase \in {"methods", "files"}, NEW ct
  PROVE  Busy(u, [NoWorker EXCEPT !.pc = "take"], ct)
<1> DEFINE items == Entry(u) \cup {None}
           S == Statement(u.version, u.prev, ct[u.version])
           H == HashesOf(ct[u.version])
           t == [NoWorker EXCEPT !.pc = "take"]
           R == [pc : Pc \cup {"idle"}, item : items, todo : Seq(S), tries : 0..MAX_RETRIES,
                 errno : BOOLEAN, found : Seq(H), got : Seq(H)]
<1>1. NoWorker \in R
  <2>1. <<>> \in Seq(S) /\ <<>> \in Seq(H) /\ 0 \in 0..MAX_RETRIES /\ None \in items
    BY UploadBounds
  <2> HIDE DEF S, H, items
  <2> QED BY <2>1, Zenon DEF NoWorker
<1>2. t \in [pc : Pc, item : items, todo : Seq(S), tries : 0..MAX_RETRIES,
             errno : BOOLEAN, found : Seq(H), got : Seq(H)] /\ t.pc = "take"
  <2> HIDE DEF S, H, items
  <2> QED BY <1>1 DEF Pc
<1>3. t \in Thread(u.version, u.prev, ct[u.version], Entry(u))
  BY <1>2, Zenon DEF Thread
<1>4. t.pc \notin {"select", "write"} /\ t.pc # "write"
  BY <1>2
<1> HIDE DEF t
<1>5. Busy(u, t, ct)
  BY <1>3, <1>4, Zenon DEF Busy
<1> QED BY <1>5 DEF t

\* Connection c gets new workers, or none, with its next phase.
LEMMA StepAll ==
  ASSUME UploadInv, NEW c \in Conn, NEW x, NEW t, content' = content, projects' = projects,
         up' = [up EXCEPT ![c] = x], x = Idle \/ Request(x, content, projects),
         worker' = [worker EXCEPT ![c] = [w \in Worker |-> t]],
         t = NoWorker \/ Busy(x, t, content)
  PROVE  Requests' /\ Threads'
<1> DEFINE ws == [w \in Worker |-> t]
<1>1. worker' = [worker EXCEPT ![c] = [w \in Worker |-> ws[w]]]
  BY Zenon
<1>2. \A w \in Worker : ws[w] = NoWorker \/ Busy(x, ws[w], content')
  BY Zenon
<1>3. Grown(content, projects, content', projects')
  BY Zenon DEF Grown
<1>4. x = Idle \/ Request(x, content', projects')
  BY Zenon
<1> HIDE DEF ws
<1> QED BY <1>1, <1>2, <1>3, <1>4, Parts, StepAt

LEMMA StartUploadInv ==
  ASSUME UploadInv, NEW c \in Conn, StartUpload(c)
  PROVE  UploadInv'
<1> DEFINE u == up[c]
<1>1. u.phase = "start" /\ crashes' = crashes
  BY Zenon DEF StartUpload
<1>2. /\ u.phase \in {"insert", "extend", "start", "methods", "files", "unchanged"}
      /\ u.phase \in Stored /\ Entry(u) = Method
  BY <1>1 DEF Stored, Entry
<1>3. u = Idle \/ Request(u, content, projects)
  BY Parts
<1>4. /\ u.bad = FALSE /\ Truthful(u, content, projects) /\ u \in Upload(Method)
      /\ u.prev < u.version
  BY <1>2, <1>3, Working, Zenon
<1>5. CASE u.errno = TRUE
  <2>1. Stop
    BY <1>5, Zenon DEF StartUpload
  <2> QED BY <1>1, <2>1, StopInv, Parts
<1>6. CASE u.errno = FALSE
  <2> DEFINE x == [u EXCEPT !.phase = "methods", !.queue = u.sent]
             t == [NoWorker EXCEPT !.pc = "take"]
  <2>1. /\ up' = [up EXCEPT ![c].phase = "methods", ![c].queue = u.sent]
        /\ worker' = [worker EXCEPT ![c] = [w \in Worker |-> t]]
        /\ methods' = methods /\ projects' = projects /\ byAuthor' = byAuthor /\ authors' = authors
        /\ content' = content /\ acked' = acked /\ alive' = alive /\ faults' = faults
    BY <1>6, Zenon DEF StartUpload, tables, clients
  <2>2. up' = [up EXCEPT ![c] = x]
    <3>1. up = [d \in Conn |-> up[d]]
      BY Parts
    <3> QED BY <2>1, <3>1
  <2>3. x \in Upload(Method) /\ x.phase = "methods" /\ x.hashes = u.hashes /\ x.queue = u.sent
    BY <1>4 DEF Upload, Phase
  <2>4. Kept(x, u)
    BY <1>4 DEF Upload, Kept
  <2> HIDE DEF x
  <2>5. /\ Entry(x) = Method /\ x.phase # "search" /\ x.phase # "files"
        /\ x.phase \in {"methods", "files"}
    BY <2>3 DEF Entry
  <2>6. /\ x.hashes \in Seq(HashesOf(content[x.version])) /\ projects[x.version] # None
        /\ x.queue \in Seq(content[x.version])
    BY <1>2, <1>4, <2>3, <2>4, Zenon DEF Truthful, Kept
  <2> HIDE DEF u
  <2>7. Truthful(x, content, projects)
    BY <1>4, <2>4, <2>5, <2>6, TruthfulMoves, Zenon
  <2>8. Request(x, content, projects)
    BY <1>4, <2>3, <2>4, <2>5, <2>7, Zenon DEF Request, Kept
  <2>9. Busy(x, t, content)
    BY <2>5, TakingBusy
  <2> HIDE DEF t
  <2>10. Requests' /\ Threads'
    BY <2>1, <2>2, <2>8, <2>9, StepAll
  <2> QED BY <1>1, <2>1, <2>10, Parts, Quiet
<1>7. u.errno \in BOOLEAN
  BY <1>4 DEF Upload
<1> QED BY <1>5, <1>6, <1>7, Zenon

LEMMA HashFileQueueType ==
  ASSUME NEW hs \in SUBSET Hash, NEW fs \in SUBSET File
  PROVE  HashFileQueue(hs, fs) \in Seq(Seq(Hash) \X Seq(fs))
<1>1. IsFiniteSet(hs) /\ IsFiniteSet(fs)
  BY UploadSets, FS_Subset
<1>2. SetToSeq(hs) \in Seq(hs) /\ SetToSeq(fs) \in Seq(fs)
  BY <1>1, SetToSeqLists
<1>3. SetToSeq(hs) \in Seq(Hash)
  BY <1>2, SeqMono
<1> DEFINE A == Seq(Hash)
           B == Seq(fs)
           ks == ToChunks(SetToSeq(hs), HASHES_MAX_SIZE)
           ls == ToChunks(SetToSeq(fs), FILES_MAX_SIZE)
<1>4. ks \in Seq(A)
  BY <1>3, ToChunksType, UploadBounds
<1>5. ls \in Seq(B)
  BY <1>2, ToChunksType, UploadBounds
<1> HIDE DEF A, B, ks, ls
<1>6. Pairs(ks, ls) \in Seq(A \X B)
  BY <1>4, <1>5, PairsType
<1> QED BY <1>6, Zenon DEF HashFileQueue, A, B, ks, ls

LEMMA JoinUploadInv ==
  ASSUME UploadInv, NEW c \in Conn, JoinUpload(c)
  PROVE  UploadInv'
<1> DEFINE u == up[c]
<1>1. /\ u.phase = "methods" /\ crashes' = crashes /\ alive' = alive /\ faults' = faults
      /\ methods' = methods /\ projects' = projects /\ byAuthor' = byAuthor /\ authors' = authors
  BY Zenon DEF JoinUpload, tables
<1>2. /\ u.phase \in {"insert", "extend", "start", "methods", "files", "unchanged"}
      /\ u.phase \in Stored /\ Entry(u) = Method /\ u.phase # "idle"
  BY <1>1 DEF Stored, Entry
<1>3. u = Idle \/ Request(u, content, projects)
  BY Parts
<1>4. /\ u.bad = FALSE /\ Truthful(u, content, projects) /\ u \in Upload(Method)
      /\ u.prev < u.version
  BY <1>2, <1>3, Working, Zenon
<1>5. CASE u.prev = 0
  <2>1. Reply(c, "success") /\ worker' = [worker EXCEPT ![c] = [w \in Worker |-> NoWorker]]
    BY <1>5, Zenon DEF JoinUpload
  <2>2. up' = [up EXCEPT ![c] = Idle] /\ content' = content /\ acked' \subseteq Version
    BY <1>2, <2>1, ReplyType
  <2>3. Requests' /\ Threads'
    BY <1>1, <2>1, <2>2, StepAll, Zenon
  <2> QED BY <1>1, <2>2, <2>3, Parts, Quiet
<1>6. CASE u.prev # 0
  <2> DEFINE q == HashFileQueue(u.prevHashes, u.files)
             x == [u EXCEPT !.phase = "files", !.queue = q]
             t == [NoWorker EXCEPT !.pc = "take"]
             E == Seq(Hash) \X Seq(u.files)
  <2>1. /\ up' = [up EXCEPT ![c].phase = "files", ![c].queue = q]
        /\ worker' = [worker EXCEPT ![c] = [w \in Worker |-> t]]
        /\ content' = content /\ acked' = acked
    BY <1>6, Zenon DEF JoinUpload, clients
  <2>2. u.prevHashes \in SUBSET Hash /\ u.files \in SUBSET File /\ u.prev \in 0..MaxVersion
    BY <1>4 DEF Upload
  <2>3. q \in Seq(E)
    BY <2>2, HashFileQueueType
  <2> HIDE DEF q, E
  <2>4. up' = [up EXCEPT ![c] = x]
    <3>1. up = [d \in Conn |-> up[d]]
      BY Parts
    <3> QED BY <2>1, <3>1
  <2>5. x \in Upload(E) /\ x.phase = "files" /\ x.hashes = u.hashes
    BY <1>4, <2>3 DEF Upload, Phase
  <2>6. Kept(x, u)
    BY <1>4 DEF Upload, Kept
  <2> HIDE DEF x
  <2>7. /\ x.phase # "search" /\ x.phase # "methods" /\ x.phase \in {"methods", "files"}
        /\ x.phase \in {"files", "unchanged"}
    BY <2>5
  <2>8. Entry(x) = E
    BY <2>6, <2>7, Zenon DEF Entry, Kept, E
  <2>9. /\ x.hashes \in Seq(HashesOf(content[x.version])) /\ projects[x.version] # None
    BY <1>2, <1>4, <2>5, <2>6, Zenon DEF Truthful, Kept
  <2>10. x.prev \in Version
    <3>1. u.prev \in Version
      BY <1>6, <2>2, UploadBounds DEF Version
    <3> QED BY <2>6, <3>1, Zenon DEF Kept
  <2> HIDE DEF u
  <2>11. Truthful(x, content, projects)
    BY <1>4, <2>6, <2>7, <2>9, <2>10, TruthfulMoves, Zenon
  <2>12. Request(x, content, projects)
    BY <1>4, <2>5, <2>6, <2>7, <2>8, <2>11, Zenon DEF Request, Kept
  <2>13. Busy(x, t, content)
    BY <2>7, TakingBusy
  <2> HIDE DEF t
  <2>14. Requests' /\ Threads'
    BY <1>1, <2>1, <2>4, <2>12, <2>13, StepAll
  <2>15. acked' \subseteq Version
    BY <2>1, Parts
  <2> QED BY <1>1, <2>1, <2>14, <2>15, Parts, Quiet
<1> QED BY <1>5, <1>6

LEMMA JoinUnchangedInv ==
  ASSUME UploadInv, NEW c \in Conn, JoinUnchanged(c)
  PROVE  UploadInv'
<1> DEFINE u == up[c]
           S == HashesOf(content[u.version])
           ss == [w \in Worker |-> worker[c][w].got]
           h == FlattenSeq(ss)
           x == [u EXCEPT !.phase = "unchanged", !.index = 0, !.hashes = h]
<1>1. /\ u.phase = "files" /\ crashes' = crashes /\ alive' = alive /\ faults' = faults
      /\ methods' = methods /\ projects' = projects /\ byAuthor' = byAuthor /\ authors' = authors
      /\ content' = content /\ acked' = acked /\ AllEnded(c)
      /\ worker' = [worker EXCEPT ![c] = [w \in Worker |-> NoWorker]]
      /\ up' = [up EXCEPT ![c].phase = "unchanged", ![c].index = 0, ![c].hashes = h]
  BY Zenon DEF JoinUnchanged, tables, clients
<1>2. /\ u.phase \in {"insert", "extend", "start", "methods", "files", "unchanged"}
      /\ u.phase \in Stored
  BY <1>1 DEF Stored
<1>3. u = Idle \/ Request(u, content, projects)
  BY Parts
<1>4. /\ u.bad = FALSE /\ Truthful(u, content, projects) /\ u \in Upload(Entry(u))
      /\ u.prev < u.version
  BY <1>2, <1>3, Working, Zenon
<1>5. \A w \in Worker : worker[c][w].got \in Seq(S)
  <2> SUFFICES ASSUME NEW w \in Worker PROVE worker[c][w].got \in Seq(S)
    OBVIOUS
  <2> DEFINE t == worker[c][w]
  <2>1. t.pc = "ended"
    BY <1>1, Zenon DEF AllEnded
  <2>2. t # NoWorker
    BY <2>1 DEF NoWorker
  <2>3. Busy(u, t, content)
    BY <2>2, Parts, Zenon DEF Threads
  <2>4. t \in Thread(u.version, u.prev, content[u.version], Entry(u))
    BY <2>3, Zenon DEF Busy
  <2> QED BY <2>4 DEF Thread
<1>6. h \in Seq(S)
  <2> HIDE DEF S
  <2>1. MAX_THREADS \in Nat /\ Worker = 1..MAX_THREADS
    BY UploadBounds DEF Worker
  <2> DEFINE g(w) == worker[c][w].got
  <2>2. \A w \in 1..MAX_THREADS : g(w) \in Seq(S)
    BY <1>5, <2>1
  <2> HIDE DEF g
  <2>3. [w \in 1..MAX_THREADS |-> g(w)] \in Seq(Seq(S))
    BY <2>1, <2>2
  <2>4. ss \in Seq(Seq(S))
    BY <2>1, <2>3 DEF g
  <2> HIDE DEF ss
  <2> QED BY <2>4, FlattenType
<1>7. h \in Seq(Hash)
  <2>1. content[u.version] # None /\ u.version \in Version
    <3>1. u.version \in Version
      BY <1>4 DEF Upload
    <3> QED BY <1>4, <3>1, Zenon DEF Truthful
  <2>2. content[u.version] \in SUBSET Method
    BY <2>1, Parts, Holds
  <2>3. S \subseteq Hash
    BY <2>2 DEF HashesOf, Method
  <2> HIDE DEF S, h
  <2> QED BY <1>6, <2>3, SeqMono
<1> HIDE DEF h
<1>8. up' = [up EXCEPT ![c] = x]
  <2>1. up = [d \in Conn |-> up[d]]
    BY Parts
  <2> QED BY <1>1, <2>1
<1>9. x \in Upload(Entry(u)) /\ x.phase = "unchanged" /\ x.hashes = h
  BY <1>4, <1>7 DEF Upload, Phase
<1>10. Kept(x, u)
  BY <1>4 DEF Upload, Kept
<1> HIDE DEF x
<1>11. /\ x.phase # "search" /\ x.phase # "methods" /\ x.phase # "files"
       /\ x.phase \in {"files", "unchanged"} /\ u.phase \in {"files", "unchanged"}
  BY <1>1, <1>9
<1>12. Entry(x) = Entry(u)
  BY <1>10, <1>11, Zenon DEF Entry, Kept
<1>13. x.hashes \in Seq(HashesOf(content[x.version])) /\ projects[x.version] # None
  BY <1>2, <1>4, <1>6, <1>9, <1>10, Zenon DEF Truthful, Kept
<1> HIDE DEF u
<1>14. Truthful(x, content, projects)
  BY <1>4, <1>10, <1>11, <1>13, TruthfulMoves, Zenon
<1>15. Request(x, content, projects)
  BY <1>4, <1>9, <1>10, <1>11, <1>12, <1>14, Zenon DEF Request, Kept
<1>16. Requests' /\ Threads'
  BY <1>1, <1>8, <1>15, StepAll, Zenon
<1> QED BY <1>1, <1>16, Parts, Quiet

(***************************************************************************)
(* The workers                                                              *)
(***************************************************************************)
LEMMA WorkerAt ==
  ASSUME UploadInv, NEW c \in Conn, NEW k \in Worker, worker[c][k].pc # "idle"
  PROVE  /\ Busy(up[c], worker[c][k], content) /\ Request(up[c], content, projects)
         /\ worker[c][k] \in Thread(up[c].version, up[c].prev, content[up[c].version], Entry(up[c]))
         /\ Truthful(up[c], content, projects) /\ up[c] \in Upload(Entry(up[c]))
         /\ up[c].prev < up[c].version /\ up[c].phase \in {"methods", "files"}
         /\ up[c].version \in Version /\ up[c].prev \in 0..MaxVersion
         /\ content[up[c].version] # None /\ content[up[c].version] \in SUBSET Method
         /\ projects[up[c].version] # None
         /\ up[c].as \in SUBSET Author /\ IsFiniteSet(up[c].as)
<1>1. worker[c][k] # NoWorker
  BY DEF NoWorker
<1>2. Busy(up[c], worker[c][k], content)
  BY <1>1, Parts, Zenon DEF Threads
<1>3. /\ worker[c][k] \in Thread(up[c].version, up[c].prev, content[up[c].version], Entry(up[c]))
      /\ up[c].phase \in {"methods", "files"}
  BY <1>2, Zenon DEF Busy
<1>4. /\ up[c].phase \in {"insert", "extend", "start", "methods", "files", "unchanged"}
      /\ up[c].phase \in Stored
  BY <1>3 DEF Stored
<1>5. up[c] = Idle \/ Request(up[c], content, projects)
  BY Parts
<1>6. /\ Request(up[c], content, projects) /\ Truthful(up[c], content, projects)
      /\ up[c] \in Upload(Entry(up[c])) /\ up[c].prev < up[c].version
  BY <1>4, <1>5, Working
<1>7. up[c].version \in Version /\ up[c].prev \in 0..MaxVersion /\ up[c].as \in SUBSET Author
  BY <1>6 DEF Upload
<1>8. content[up[c].version] # None /\ projects[up[c].version] # None
  BY <1>4, <1>6, Zenon DEF Truthful
<1>9. content[up[c].version] \in SUBSET Method
  BY <1>7, <1>8, Parts, Holds
<1>10. IsFiniteSet(up[c].as)
  BY <1>7, UploadSets, FS_Subset
<1> QED BY <1>2, <1>3, <1>6, <1>7, <1>8, <1>9, <1>10, Zenon

LEMMA TakeItemInv ==
  ASSUME UploadInv, NEW c \in Conn, NEW k \in Worker, TakeItem(c, k)
  PROVE  UploadInv'
<1> DEFINE me == worker[c][k]
           u == up[c]
           ms == content[u.version]
<1>1. /\ me.pc = "take"
      /\ methods' = methods /\ projects' = projects /\ byAuthor' = byAuthor /\ authors' = authors
      /\ content' = content /\ acked' = acked /\ alive' = alive /\ faults' = faults
      /\ crashes' = crashes
  BY Zenon DEF TakeItem, tables, clients
<1>2. me.pc # "idle"
  BY <1>1
<1>3. /\ Busy(u, me, content) /\ Request(u, content, projects)
      /\ me \in Thread(u.version, u.prev, ms, Entry(u))
      /\ Truthful(u, content, projects) /\ u \in Upload(Entry(u))
      /\ u.prev < u.version /\ u.phase \in {"methods", "files"}
  BY <1>2, WorkerAt, Zenon
<1>4. up = [d \in Conn |-> up[d]]
  BY Parts
<1>5. CASE u.queue = <<>>
  <2> DEFINE t == [me EXCEPT !.pc = "ended"]
  <2>1. Set(c, k, t) /\ up' = up
    BY <1>5, Zenon DEF TakeItem
  <2>2. t \in Thread(u.version, u.prev, ms, Entry(u)) /\ t.pc = "ended"
    BY <1>3 DEF Thread, Pc
  <2>3. t.pc \notin {"select", "write"} /\ t.pc # "write"
    BY <2>2
  <2> HIDE DEF t
  <2>4. Busy(u, t, content)
    BY <1>3, <2>2, <2>3, Zenon DEF Busy
  <2>5. up' = [up EXCEPT ![c] = u]
    BY <1>4, <2>1
  <2> HIDE DEF me
  <2>6. Requests' /\ Threads'
    BY <1>1, <1>3, <2>1, <2>4, <2>5, Parts, StepWorker
  <2> QED BY <1>1, <2>6, Parts, Quiet
<1>6. CASE u.queue # <<>>
  <2> DEFINE i == Head(u.queue)
             t == [me EXCEPT !.pc = "select", !.item = i, !.tries = 0, !.errno = FALSE]
             x == [u EXCEPT !.queue = Tail(@)]
             E == Entry(u)
  <2>1. Set(c, k, t) /\ up' = [up EXCEPT ![c].queue = Tail(@)]
    BY <1>6, Zenon DEF TakeItem
  <2>2. u.queue \in Seq(E)
    BY <1>3 DEF Upload
  <2> HIDE DEF E
  <2>3. i \in E /\ Tail(u.queue) \in Seq(E)
    BY <1>6, <2>2
  <2>4. u.phase = "methods" => i \in ms /\ Tail(u.queue) \in Seq(ms)
    <3>1. u.phase = "methods" => u.queue \in Seq(ms)
      BY <1>3, Zenon DEF Truthful
    <3>2. u.queue \in Seq(ms) => i \in ms /\ Tail(u.queue) \in Seq(ms)
      <4>1. ASSUME NEW q, NEW M, q \in Seq(M), q # <<>> PROVE Head(q) \in M /\ Tail(q) \in Seq(M)
        BY <4>1
      <4> QED BY <1>6, <4>1, Zenon
    <3> QED BY <3>1, <3>2, Zenon
  <2>5. 0 \in 0..MAX_RETRIES
    BY UploadBounds
  <2> HIDE DEF i
  <2>6. t \in Thread(u.version, u.prev, ms, E) /\ t.pc = "select" /\ t.item = i
    BY <1>3, <2>3, <2>5 DEF Thread, Pc, E
  <2>7. t.pc # "write"
    BY <2>6
  <2> HIDE DEF t
  <2>8. Busy(u, t, content)
    BY <1>3, <2>3, <2>4, <2>6, <2>7, Zenon DEF Busy, E
  <2>9. up' = [up EXCEPT ![c] = x]
    BY <1>4, <2>1
  <2>10. x \in Upload(E) /\ x.phase = u.phase /\ x.queue = Tail(u.queue) /\ x.hashes = u.hashes
    <3>1. u \in Upload(E)
      BY <1>3 DEF E
    <3> QED BY <2>3, <3>1 DEF Upload
  <2>11. Kept(x, u)
    BY <1>3 DEF Upload, Kept
  <2> HIDE DEF x
  <2>12. Entry(x) = E
    BY <2>10, <2>11, Zenon DEF Entry, Kept, E
  <2>13. Truthful(x, content, projects)
    <3>1. /\ x.hashes \in Seq(HashesOf(content[x.version]))
          /\ (x.phase \in Stored => projects[x.version] # None)
          /\ (x.phase = "methods" => x.queue \in Seq(content[x.version]))
          /\ (x.phase = "files" => x.prev \in Version)
      BY <1>3, <2>4, <2>10, <2>11, Zenon DEF Truthful, Kept
    <3> HIDE DEF u
    <3> QED BY <1>3, <2>11, <3>1, TruthfulMoves, Zenon
  <2>14. Request(x, content, projects)
    <3>1. x.phase # "search"
      BY <1>3, <2>10
    <3>2. u.bad = FALSE
      <4>1. u.phase \notin {"check", "search", "parse"}
        BY <1>3
      <4> QED BY <1>3, <4>1, Zenon DEF Request
    <3> QED BY <1>3, <2>10, <2>11, <2>12, <2>13, <3>1, <3>2, Zenon DEF Request, Kept
  <2>15. Busy(x, t, content)
    BY <2>8, <2>10, <2>11, <2>12, Zenon DEF Busy, Kept, E
  <2>16. x.version = u.version /\ x.prev = u.prev /\ x.files = u.files
    BY <2>11, Zenon DEF Kept
  <2> HIDE DEF me
  <2>17. Requests' /\ Threads'
    BY <1>1, <2>1, <2>9, <2>10, <2>14, <2>15, <2>16, Parts, StepWorker
  <2> QED BY <1>1, <2>17, Parts, Quiet
<1> QED BY <1>5, <1>6

LEMMA AfterAttemptBusy ==
  ASSUME NEW c, NEW ct, NEW me, NEW e \in BOOLEAN, Busy(up[c], me, ct), me.pc \in {"select", "write"}
  PROVE  Busy(up[c], AfterAttempt(c, me, e), ct)
<1> DEFINE u == up[c]
           S == Statement(u.version, u.prev, ct[u.version])
           H == HashesOf(ct[u.version])
           n == me.tries + 1
           a == [me EXCEPT !.pc = "select", !.todo = <<>>, !.tries = n, !.errno = e]
           b == [me EXCEPT !.pc = "ended", !.todo = <<>>, !.errno = e, !.got = <<>>]
           d == [me EXCEPT !.pc = "take", !.todo = <<>>, !.errno = e, !.got = @ \o me.found, !.found = <<>>]
<1>1. /\ u.phase \in {"methods", "files"} /\ me.item \in Entry(u)
      /\ u.phase = "methods" => me.item \in ct[u.version]
      /\ me \in Thread(u.version, u.prev, ct[u.version], Entry(u))
  BY Zenon DEF Busy
<1>2. \/ AfterAttempt(c, me, e) = a /\ n <= MAX_RETRIES
      \/ AfterAttempt(c, me, e) = b
      \/ AfterAttempt(c, me, e) = d
  BY Zenon DEF AfterAttempt
<1>3. me \in [pc : Pc, item : Entry(u) \cup {None}, todo : Seq(S), tries : 0..MAX_RETRIES,
             errno : BOOLEAN, found : Seq(H), got : Seq(H)]
  BY <1>1, Zenon DEF Thread
<1>4. <<>> \in Seq(S) /\ <<>> \in Seq(H)
  OBVIOUS
<1> HIDE DEF S, H
<1>5. me.tries \in 0..MAX_RETRIES /\ me.got \o me.found \in Seq(H)
  BY <1>3
<1>6. CASE AfterAttempt(c, me, e) = a /\ n <= MAX_RETRIES
  <2>1. n \in 0..MAX_RETRIES
    BY <1>5, <1>6, UploadBounds
  <2> HIDE DEF n
  <2>2. /\ a \in [pc : Pc, item : Entry(u) \cup {None}, todo : Seq(S), tries : 0..MAX_RETRIES,
                  errno : BOOLEAN, found : Seq(H), got : Seq(H)]
        /\ a.item = me.item /\ a.pc = "select"
    BY <1>3, <1>4, <2>1 DEF Pc
  <2>3. a.pc # "write"
    BY <2>2
  <2> HIDE DEF a
  <2>4. a \in Thread(u.version, u.prev, ct[u.version], Entry(u))
    BY <2>2, Zenon DEF Thread, S, H
  <2> QED BY <1>1, <1>6, <2>2, <2>3, <2>4, Zenon DEF Busy
<1>7. CASE AfterAttempt(c, me, e) = b
  <2>2. /\ b \in [pc : Pc, item : Entry(u) \cup {None}, todo : Seq(S), tries : 0..MAX_RETRIES,
                  errno : BOOLEAN, found : Seq(H), got : Seq(H)]
        /\ b.pc = "ended"
    BY <1>3, <1>4 DEF Pc
  <2>3. b.pc # "write" /\ b.pc \notin {"select", "write"}
    BY <2>2
  <2> HIDE DEF b
  <2>4. b \in Thread(u.version, u.prev, ct[u.version], Entry(u))
    BY <2>2, Zenon DEF Thread, S, H
  <2> QED BY <1>1, <1>7, <2>2, <2>3, <2>4, Zenon DEF Busy
<1>8. CASE AfterAttempt(c, me, e) = d
  <2>2. /\ d \in [pc : Pc, item : Entry(u) \cup {None}, todo : Seq(S), tries : 0..MAX_RETRIES,
                  errno : BOOLEAN, found : Seq(H), got : Seq(H)]
        /\ d.pc = "take"
    BY <1>3, <1>4, <1>5 DEF Pc
  <2>3. d.pc # "write" /\ d.pc \notin {"select", "write"}
    BY <2>2
  <2> HIDE DEF d
  <2>4. d \in Thread(u.version, u.prev, ct[u.version], Entry(u))
    BY <2>2, Zenon DEF Thread, S, H
  <2> QED BY <1>1, <1>8, <2>2, <2>3, <2>4, Zenon DEF Busy
<1> QED BY <1>2, <1>6, <1>7, <1>8, Zenon

\* Worker k of connection c goes on with t; the tables stay as they are.
LEMMA StepSelf ==
  ASSUME UploadInv, NEW c \in Conn, NEW k \in Worker, NEW t, worker[c][k].pc # "idle",
         content' = content, projects' = projects, up' = up,
         Set(c, k, t), Busy(up[c], t, content)
  PROVE  Requests' /\ Threads'
<1>1. up = [d \in Conn |-> up[d]]
  BY Parts
<1>2. up' = [up EXCEPT ![c] = up[c]]
  BY <1>1
<1>3. Request(up[c], content, projects)
  BY WorkerAt
<1> QED BY <1>2, <1>3, Parts, StepWorker

\* A worker that has its statements.
LEMMA WriteBusy ==
  ASSUME NEW u, NEW ct, NEW me, Busy(u, me, ct), me.pc \in {"select", "write"},
         NEW l \in Seq(Statement(u.version, u.prev, ct[u.version])), Len(l) # 0,
         NEW hs \in Seq(HashesOf(ct[u.version])), NEW t,
         t = [me EXCEPT !.pc = "write", !.todo = l] \/ t = [me EXCEPT !.pc = "write", !.todo = l, !.found = hs]
  PROVE  Busy(u, t, ct)
<1> DEFINE S == Statement(u.version, u.prev, ct[u.version])
           H == HashesOf(ct[u.version])
<1>1. /\ u.phase \in {"methods", "files"} /\ me.item \in Entry(u)
      /\ u.phase = "methods" => me.item \in ct[u.version]
      /\ me \in Thread(u.version, u.prev, ct[u.version], Entry(u))
  BY Zenon DEF Busy
<1>2. me \in [pc : Pc, item : Entry(u) \cup {None}, todo : Seq(S), tries : 0..MAX_RETRIES,
             errno : BOOLEAN, found : Seq(H), got : Seq(H)]
  BY <1>1, Zenon DEF Thread
<1>3. l \in Seq(S) /\ hs \in Seq(H)
  OBVIOUS
<1> HIDE DEF S, H
<1>4. /\ t \in [pc : Pc, item : Entry(u) \cup {None}, todo : Seq(S), tries : 0..MAX_RETRIES,
             errno : BOOLEAN, found : Seq(H), got : Seq(H)]
      /\ t.pc = "write" /\ t.todo = l /\ t.item = me.item
  <2>1. CASE t = [me EXCEPT !.pc = "write", !.todo = l]
    BY <1>2, <1>3, <2>1 DEF Pc
  <2>2. CASE t = [me EXCEPT !.pc = "write", !.todo = l, !.found = hs]
    BY <1>2, <1>3, <2>2 DEF Pc
  <2> QED BY <2>1, <2>2, Zenon
<1>5. t \in Thread(u.version, u.prev, ct[u.version], Entry(u))
  BY <1>4, Zenon DEF Thread, S, H
<1> QED BY <1>1, <1>4, <1>5, Zenon DEF Busy

\* The key of the row statement s writes.
KeyOf(s) == <<s.method.hash, s.method.file, s.start>>

\* The statements of S that update none but these rows.
About(rows, S) == {s \in S : s.op = "update" => \E r \in rows : Key(r) = KeyOf(s)}

LEMMA AboutGrouped ==
  ASSUME NEW rows, NEW S, NEW l \in Grouped(About(rows, S))
  PROVE  l \in Seq(S) /\ Len(l) # 0
<1> DEFINE A == About(rows, S)
<1>1. A \subseteq S
  BY Zenon DEF About
<1>2. l \in Seq(A) /\ Len(l) # 0
  BY Zenon DEF Grouped
<1> HIDE DEF A
<1> QED BY <1>1, <1>2, SeqMono

\* The rows addMethod and updateUnchangedFiles extend give statements of the upload.
LEMMA UpdatesType ==
  ASSUME Tables, Rows, NEW rows \in SUBSET methods, rows # {}, NEW v, NEW p, NEW ms,
         \A r \in rows : r.end = p /\ AsMethod(r) \in ms,
         NEW as \in SUBSET Author, IsFiniteSet(as)
  PROVE  Updates(rows, v, as) \in Grouped(About(rows, Statement(v, p, ms)))
<1> DEFINE S == About(rows, Statement(v, p, ms))
<1>1. IsFiniteSet(rows) /\ methods \subseteq Row
  <2>1. IsFiniteSet(methods) /\ methods \subseteq Row
    BY Zenon DEF Tables
  <2> QED BY <2>1, FS_Subset
<1>2. ASSUME NEW r \in rows PROVE UpdateStatement(AsMethod(r), r.start, v, as) \in S
  <2>1. r \in Row /\ RowTrue(r, content, projects)
    BY <1>1, Zenon DEF Rows
  <2>2. r.start \in 1..r.end
    <3>1. r.start \in Version /\ r.end \in Version
      BY <2>1 DEF Row
    <3>2. r.start <= r.end
      BY <2>1, Zenon DEF RowTrue
    <3> QED BY <3>1, <3>2, UploadBounds DEF Version
  <2>3. r.start \in 1..p /\ AsMethod(r) \in ms
    BY <2>2, Zenon
  <2> DEFINE m == AsMethod(r)
             st == r.start
  <2> HIDE DEF m, st
  <2>4. m \in ms /\ st \in 1..p
    BY <2>3 DEF m, st
  <2>5. UpdateStatement(m, st, v, as) \in [op : {"update"}, method : ms, version : {v}, start : 1..p, authors : SUBSET Author]
    BY <2>4, Zenon DEF UpdateStatement
  <2>6. KeyOf(UpdateStatement(m, st, v, as)) = Key(r)
    BY DEF KeyOf, Key, UpdateStatement, AsMethod, m, st
  <2> QED BY <2>5, <2>6, Zenon DEF Statement, About, m, st
<1>3. ASSUME NEW r \in rows, NEW a \in as PROVE AuthorStatement(a, AsMethod(r), v) \in S
  <2>1. AsMethod(r) \in ms /\ a \in Author
    BY Zenon
  <2>2. AuthorStatement(a, AsMethod(r), v) \in [op : {"author"}, author : Author, method : ms, version : {v}]
    BY <2>1, Zenon DEF AuthorStatement
  <2>3. AuthorStatement(a, AsMethod(r), v).op # "update"
    BY DEF AuthorStatement
  <2> QED BY <2>2, <2>3, Zenon DEF Statement, About
<1> HIDE DEF S
<1>4. Updates(rows, v, as) \in Grouped(S)
  BY <1>1, <1>2, <1>3, UpdatesGrouped
<1> QED BY <1>4 DEF S

LEMMA InsertType ==
  ASSUME NEW rows, NEW v, NEW p, NEW ms, NEW m \in ms, NEW as \in SUBSET Author, IsFiniteSet(as)
  PROVE  addNewMethod(m, v, as) \in Grouped(About(rows, Statement(v, p, ms)))
<1> DEFINE S == About(rows, Statement(v, p, ms))
<1>1. InsertStatement(m, v, as) \in S
  <2>1. InsertStatement(m, v, as) \in [op : {"insert"}, method : ms, version : {v}, authors : SUBSET Author]
    BY Zenon DEF InsertStatement
  <2>2. InsertStatement(m, v, as).op # "update"
    BY DEF InsertStatement
  <2> QED BY <2>1, <2>2, Zenon DEF Statement, About
<1>2. ASSUME NEW a \in as PROVE AuthorStatement(a, m, v) \in S
  <2>1. AuthorStatement(a, m, v) \in [op : {"author"}, author : Author, method : ms, version : {v}]
    BY Zenon DEF AuthorStatement
  <2>2. AuthorStatement(a, m, v).op # "update"
    BY DEF AuthorStatement
  <2> QED BY <2>1, <2>2, Zenon DEF Statement, About
<1> HIDE DEF S
<1>3. addNewMethod(m, v, as) \in Grouped(S)
  BY <1>1, <1>2, addNewMethodGrouped
<1> QED BY <1>3 DEF S

\* The list SelectMethod leaves to its worker.
MethodList(u, item, o) ==
  LET rows == RowsToExtend({item.hash}, {item.file}, u.prev)
  IN  IF o = "fail" \/ u.prev = 0 \/ rows = {} THEN addNewMethod(item, u.version, u.as)
      ELSE Updates(rows, u.version, u.as)

LEMMA MethodListType ==
  ASSUME Tables, Rows, NEW u, NEW ms \in SUBSET Method, NEW item \in ms, NEW o,
         u.as \in SUBSET Author, IsFiniteSet(u.as)
  PROVE  MethodList(u, item, o) \in Grouped(About(RowsToExtend({item.hash}, {item.file}, u.prev),
                                                 Statement(u.version, u.prev, ms)))
<1> DEFINE rows == RowsToExtend({item.hash}, {item.file}, u.prev)
           S == About(rows, Statement(u.version, u.prev, ms))
<1>1. addNewMethod(item, u.version, u.as) \in Grouped(S)
  BY InsertType
<1>2. CASE rows # {}
  <2>1. rows \in SUBSET methods
    BY DEF RowsToExtend
  <2>2. ASSUME NEW r \in rows PROVE r.end = u.prev /\ AsMethod(r) \in ms
    <3>1. r.hash = item.hash /\ r.file = item.file /\ r.end = u.prev
      BY DEF RowsToExtend
    <3>2. item \in Method
      OBVIOUS
    <3>3. item = [hash |-> item.hash, file |-> item.file]
      BY <3>2 DEF Method
    <3>4. AsMethod(r) = item
      BY <3>1, <3>3, Zenon DEF AsMethod
    <3> QED BY <3>1, <3>4, Zenon
  <2> HIDE DEF rows
  <2>3. Updates(rows, u.version, u.as) \in Grouped(S)
    BY <1>2, <2>1, <2>2, UpdatesType
  <2> QED BY <1>1, <2>3, Zenon DEF MethodList, rows
<1>3. CASE rows = {}
  BY <1>1, <1>3, Zenon DEF MethodList
<1> QED BY <1>2, <1>3

LEMMA SelectMethodInv ==
  ASSUME UploadInv, NEW c \in Conn, NEW k \in Worker, SelectMethod(c, k)
  PROVE  UploadInv'
<1> DEFINE me == worker[c][k]
           u == up[c]
           ms == content[u.version]
           S == Statement(u.version, u.prev, ms)
<1>1. /\ me.pc = "select" /\ u.phase = "methods" /\ up' = up
      /\ methods' = methods /\ projects' = projects /\ byAuthor' = byAuthor /\ authors' = authors
      /\ content' = content /\ acked' = acked /\ alive' = alive /\ crashes' = crashes
  BY Zenon DEF SelectMethod, tables, clients
<1>2. PICK o : /\ Happens(o)
               /\ Set(c, k, [me EXCEPT !.pc = "write", !.todo = MethodList(u, me.item, o)])
  BY Zenon DEF SelectMethod, MethodList
<1>3. me.pc # "idle" /\ me.pc \in {"select", "write"}
  BY <1>1
<1>4. /\ Busy(u, me, content) /\ ms \in SUBSET Method
      /\ u.as \in SUBSET Author /\ IsFiniteSet(u.as)
  BY <1>3, WorkerAt, Zenon
<1>5. me.item \in ms
  BY <1>1, <1>3, <1>4, Zenon DEF Busy
<1> DEFINE l == MethodList(u, me.item, o)
           t == [me EXCEPT !.pc = "write", !.todo = l]
<1>6. l \in Grouped(About(RowsToExtend({me.item.hash}, {me.item.file}, u.prev), S))
  BY <1>4, <1>5, MethodListType, Parts
<1> HIDE DEF l
<1>7. l \in Seq(S) /\ Len(l) # 0
  <2> HIDE DEF S
  <2> QED BY <1>6, AboutGrouped
<1>8. Set(c, k, t)
  BY <1>2, Zenon DEF l
<1>9. <<>> \in Seq(HashesOf(ms))
  OBVIOUS
<1>10. Busy(u, t, content)
  BY <1>3, <1>4, <1>7, <1>9, WriteBusy
<1> HIDE DEF t
<1>11. Requests' /\ Threads'
  BY <1>1, <1>3, <1>8, <1>10, StepSelf
<1>12. faults' \in 0..MaxFaults
  BY <1>2, Parts, HappensType
<1> QED BY <1>1, <1>11, <1>12, Parts, Quiet

\* The rows of unchanged files: what they say of the previous version is true of this one.
LEMMA UnchangedRows ==
  ASSUME Tables, Rows, NEW u, Truthful(u, content, projects), NEW item \in Seq(Hash) \X Seq(u.files),
         NEW r \in RowsToExtend(Range(item[1]), Range(item[2]), u.prev)
  PROVE  /\ r \in methods /\ r.end = u.prev /\ AsMethod(r) \in content[u.version]
         /\ r.hash \in HashesOf(content[u.version])
<1>1. r \in methods /\ r.file \in Range(item[2]) /\ r.end = u.prev
  BY DEF RowsToExtend
<1>2. r.file \in u.files
  <2>1. item[2] \in Seq(u.files)
    OBVIOUS
  <2> DEFINE q == item[2]
             fs == u.files
  <2> HIDE DEF q, fs
  <2>2. q \in Seq(fs) /\ r.file \in Range(q)
    BY <1>1, <2>1 DEF q, fs
  <2>3. r.file \in fs
    BY <2>2 DEF Range
  <2> QED BY <2>3 DEF fs
<1>3. AsMethod(r) \in content[u.prev] /\ AsMethod(r).file = r.file /\ AsMethod(r).hash = r.hash
  <2>1. RowTrue(r, content, projects)
    BY <1>1, Zenon DEF Rows
  <2>2. AsMethod(r) \in content[r.end]
    BY <2>1, Zenon DEF RowTrue
  <2>3. AsMethod(r).file = r.file /\ AsMethod(r).hash = r.hash
    BY DEF AsMethod
  <2> QED BY <1>1, <2>2, <2>3, Zenon
<1>4. At(content[u.version], r.file) = At(content[u.prev], r.file)
  BY <1>2, Zenon DEF Truthful
<1>5. AsMethod(r) \in At(content[u.prev], r.file)
  BY <1>3, Zenon DEF At
<1>6. AsMethod(r) \in content[u.version]
  BY <1>4, <1>5, Zenon DEF At
<1> QED BY <1>1, <1>3, <1>6, Zenon DEF HashesOf

LEMMA FoundBusy ==
  ASSUME NEW u, NEW ct, NEW me, Busy(u, me, ct), me.pc \in {"select", "write"}
  PROVE  Busy(u, [me EXCEPT !.found = <<>>], ct) /\ [me EXCEPT !.found = <<>>].pc = me.pc
<1> DEFINE S == Statement(u.version, u.prev, ct[u.version])
           H == HashesOf(ct[u.version])
           t == [me EXCEPT !.found = <<>>]
<1>1. /\ u.phase \in {"methods", "files"} /\ me.item \in Entry(u)
      /\ u.phase = "methods" => me.item \in ct[u.version]
      /\ me \in Thread(u.version, u.prev, ct[u.version], Entry(u))
      /\ me.pc = "write" => Len(me.todo) # 0
  BY Zenon DEF Busy
<1>2. me \in [pc : Pc, item : Entry(u) \cup {None}, todo : Seq(S), tries : 0..MAX_RETRIES,
             errno : BOOLEAN, found : Seq(H), got : Seq(H)]
  BY <1>1, Zenon DEF Thread
<1>3. <<>> \in Seq(H)
  OBVIOUS
<1> HIDE DEF S, H
<1>4. /\ t \in [pc : Pc, item : Entry(u) \cup {None}, todo : Seq(S), tries : 0..MAX_RETRIES,
             errno : BOOLEAN, found : Seq(H), got : Seq(H)]
      /\ t.pc = me.pc /\ t.todo = me.todo /\ t.item = me.item
  BY <1>2, <1>3
<1> HIDE DEF t
<1>5. t \in Thread(u.version, u.prev, ct[u.version], Entry(u))
  BY <1>4, Zenon DEF Thread, S, H
<1>6. Busy(u, t, ct) /\ t.pc = me.pc
  BY <1>1, <1>4, <1>5, Zenon DEF Busy
<1> QED BY <1>6 DEF t

LEMMA SelectUnchangedInv ==
  ASSUME UploadInv, NEW c \in Conn, NEW k \in Worker, SelectUnchanged(c, k)
  PROVE  UploadInv'
<1> DEFINE me == worker[c][k]
           u == up[c]
           ms == content[u.version]
           S == Statement(u.version, u.prev, ms)
           rows == RowsToExtend(Range(me.item[1]), Range(me.item[2]), u.prev)
           f == SetToSeq(rows)
           n == Cardinality(rows)
           hs == [i \in 1..n |-> f[i].hash]
           l == Updates(rows, u.version, {})
           b == [me EXCEPT !.found = <<>>]
<1>1. /\ me.pc = "select" /\ u.phase = "files" /\ up' = up
      /\ methods' = methods /\ projects' = projects /\ byAuthor' = byAuthor /\ authors' = authors
      /\ content' = content /\ acked' = acked /\ alive' = alive /\ crashes' = crashes
  BY Zenon DEF SelectUnchanged, tables, clients
<1>2. PICK o : /\ Happens(o)
               /\ \/ Set(c, k, AfterAttempt(c, b, TRUE))
                  \/ Set(c, k, AfterAttempt(c, b, FALSE))
                  \/ rows # {} /\ Set(c, k, [me EXCEPT !.pc = "write", !.todo = l, !.found = hs])
  BY Zenon DEF SelectUnchanged
<1>3. me.pc # "idle" /\ me.pc \in {"select", "write"} /\ u.phase \in {"files", "unchanged"}
  BY <1>1
<1>4. /\ Busy(u, me, content) /\ ms \in SUBSET Method /\ Truthful(u, content, projects)
  BY <1>3, WorkerAt, Zenon
<1>5. me.item \in Seq(Hash) \X Seq(u.files)
  BY <1>1, <1>3, <1>4, Zenon DEF Busy, Entry
<1>6. \A r \in rows : /\ r \in methods /\ r.end = u.prev /\ AsMethod(r) \in ms
                      /\ r.hash \in HashesOf(ms)
  <2> DEFINE i == me.item
  <2> HIDE DEF i
  <2>1. i \in Seq(Hash) \X Seq(u.files)
    BY <1>5 DEF i
  <2>2. \A r \in RowsToExtend(Range(i[1]), Range(i[2]), u.prev) :
           /\ r \in methods /\ r.end = u.prev /\ AsMethod(r) \in ms
           /\ r.hash \in HashesOf(ms)
    <3> HIDE DEF u
    <3> QED BY <1>4, <2>1, Parts, UnchangedRows
  <2> QED BY <2>2, Zenon DEF i
<1> HIDE DEF rows
<1>7. \E t : Set(c, k, t) /\ Busy(u, t, content)
  <2>1. ASSUME NEW e \in BOOLEAN, Set(c, k, AfterAttempt(c, b, e))
        PROVE  \E t : Set(c, k, t) /\ Busy(u, t, content)
    <3>1. Busy(u, b, content) /\ b.pc = me.pc
      <4> HIDE DEF u, me
      <4> QED BY <1>3, <1>4, FoundBusy
    <3> HIDE DEF b
    <3>2. b.pc \in {"select", "write"}
      BY <1>3, <3>1
    <3>3. Busy(u, AfterAttempt(c, b, e), content)
      BY <3>1, <3>2, AfterAttemptBusy
    <3> QED BY <2>1, <3>3, Zenon
  <2>2. ASSUME rows # {}, Set(c, k, [me EXCEPT !.pc = "write", !.todo = l, !.found = hs])
        PROVE  \E t : Set(c, k, t) /\ Busy(u, t, content)
    <3> DEFINE t == [me EXCEPT !.pc = "write", !.todo = l, !.found = hs]
    <3>1. rows \in SUBSET methods /\ \A r \in rows : r.end = u.prev /\ AsMethod(r) \in ms
      BY <1>6
    <3>2. {} \in SUBSET Author /\ IsFiniteSet({})
      BY FS_EmptySet
    <3>3. l \in Grouped(About(rows, S))
      BY <2>2, <3>1, <3>2, Parts, UpdatesType
    <3>4. l \in Seq(S) /\ Len(l) # 0
      <4> HIDE DEF l, S
      <4> QED BY <3>3, AboutGrouped
    <3>5. hs \in Seq(HashesOf(ms))
      <4>1. IsFiniteSet(rows)
        <5>1. IsFiniteSet(methods)
          BY Parts, Zenon DEF Tables
        <5> QED BY <3>1, <5>1, FS_Subset
      <4>2. n \in Nat /\ \A i \in 1..n : f[i] \in rows
        BY <4>1, SetToSeqLists, Zenon
      <4> HIDE DEF n, f
      <4> DEFINE H == HashesOf(ms)
      <4>3. \A i \in 1..n : f[i].hash \in H
        BY <1>6, <4>2, Zenon
      <4> HIDE DEF H
      <4>4. hs \in Seq(H)
        BY <4>2, <4>3
      <4> QED BY <4>4 DEF H
    <3> HIDE DEF l, hs
    <3>6. Busy(u, t, content)
      <4> HIDE DEF t
      <4>1. t = [me EXCEPT !.pc = "write", !.todo = l, !.found = hs]
        BY DEF t
      <4> HIDE DEF me, u
      <4> QED BY <1>3, <1>4, <3>4, <3>5, <4>1, WriteBusy
    <3> QED BY <2>2, <3>6, Zenon
  <2> QED BY <1>2, <2>1, <2>2, Zenon
<1>8. PICK t : Set(c, k, t) /\ Busy(u, t, content)
  BY <1>7
<1>9. Requests' /\ Threads'
  BY <1>1, <1>3, <1>8, StepSelf
<1>10. faults' \in 0..MaxFaults
  BY <1>2, Parts, HappensType
<1> QED BY <1>1, <1>9, <1>10, Parts, Quiet

\* What a statement of an upload does to the tables.
Written ==
  /\ methods' \subseteq Row /\ IsFiniteSet(methods')
  /\ \A r \in methods' : RowTrue(r, content, projects)
  /\ projects' = projects
  /\ byAuthor' \subseteq Author \X Hash \X File \X Version
  /\ authors' \subseteq Author

LEMMA UpsertType ==
  ASSUME Tables, Rows, NEW row \in Row, RowTrue(row, content, projects)
  PROVE  /\ Upsert(row) \subseteq Row /\ IsFiniteSet(Upsert(row))
         /\ \A r \in Upsert(row) : RowTrue(r, content, projects)
<1> DEFINE K == {r \in methods : Key(r) # Key(row)}
<1>1. methods \subseteq Row /\ IsFiniteSet(methods)
  BY Zenon DEF Tables
<1>2. K \subseteq methods
  OBVIOUS
<1>3. IsFiniteSet(K)
  BY <1>1, <1>2, FS_Subset
<1>4. Upsert(row) = K \cup {row}
  BY DEF Upsert
<1> HIDE DEF K
<1>5. IsFiniteSet(K \cup {row})
  BY <1>3, FS_AddElement
<1>6. \A r \in K \cup {row} : r \in Row /\ RowTrue(r, content, projects)
  BY <1>1, <1>2, Zenon DEF Rows
<1>7. K \cup {row} \subseteq Row
  BY <1>6, Zenon
<1> QED BY <1>4, <1>5, <1>6, <1>7, Zenon

LEMMA ExtendedType ==
  ASSUME Tables, Rows, NEW m \in Method, NEW start, NEW v \in Version, start <= v, NEW as \in SUBSET Author,
         content[v] # None, m \in content[v], projects[v] # None
  PROVE  LET E == Extended(<<m.hash, m.file, start>>, v, as)
         IN  /\ E \subseteq Row /\ IsFiniteSet(E)
             /\ \A r \in E : RowTrue(r, content, projects)
<1> DEFINE key == <<m.hash, m.file, start>>
           e(r) == IF Key(r) = key THEN [r EXCEPT !.end = v, !.authors = @ \cup as] ELSE r
           g == [r \in methods |-> e(r)]
           E == Extended(key, v, as)
<1>1. methods \subseteq Row /\ IsFiniteSet(methods)
  BY Zenon DEF Tables
<1>2. E = {g[r] : r \in methods}
  BY DEF Extended
<1>3. IsFiniteSet(E)
  <2> HIDE DEF g, E
  <2> QED BY <1>1, <1>2, FiniteImage
<1>4. ASSUME NEW r \in methods PROVE g[r] \in Row /\ RowTrue(g[r], content, projects)
  <2>1. r \in Row /\ RowTrue(r, content, projects)
    BY <1>1, Zenon DEF Rows
  <2>2. CASE Key(r) = key
    <3> DEFINE q == [r EXCEPT !.end = v, !.authors = @ \cup as]
    <3>1. g[r] = q
      BY <2>2
    <3>2. r.hash = m.hash /\ r.file = m.file /\ r.start = start
      BY <2>2 DEF Key
    <3>3. q \in Row /\ q.hash = r.hash /\ q.file = r.file /\ q.start = r.start /\ q.end = v
      BY <2>1 DEF Row
    <3> HIDE DEF q
    <3>4. AsMethod(q) = AsMethod(r) /\ AsMethod(q) = m
      <4>1. m = [hash |-> m.hash, file |-> m.file]
        BY DEF Method
      <4> QED BY <3>2, <3>3, <4>1, Zenon DEF AsMethod
    <3>5. RowTrue(q, content, projects)
      BY <2>1, <3>2, <3>3, <3>4, Zenon DEF RowTrue
    <3> QED BY <3>1, <3>3, <3>5, Zenon
  <2>3. CASE Key(r) # key
    <3>1. g[r] = r
      BY <2>3
    <3> QED BY <2>1, <3>1, Zenon
  <2> QED BY <2>2, <2>3
<1> HIDE DEF g, E
<1>5. \A r \in E : r \in Row /\ RowTrue(r, content, projects)
  BY <1>2, <1>4, Zenon
<1>6. E \subseteq Row
  BY <1>5, Zenon
<1> QED BY <1>3, <1>5, <1>6, Zenon DEF E

LEMMA WriteType ==
  ASSUME UploadInv, NEW v \in Version, NEW p \in 0..MaxVersion, p < v, content[v] # None,
         content[v] \in SUBSET Method, projects[v] # None,
         NEW s \in Statement(v, p, content[v]), NEW o, Write(s, o)
  PROVE  Written
<1> DEFINE ms == content[v]
           A == [op : {"author"}, author : Author, method : ms, version : {v}]
           I == [op : {"insert"}, method : ms, version : {v}, authors : SUBSET Author]
           U == [op : {"update"}, method : ms, version : {v}, start : 1..p, authors : SUBSET Author]
<1>1. Tables /\ Rows
  BY Parts
<1>2. /\ methods \subseteq Row /\ IsFiniteSet(methods)
      /\ byAuthor \subseteq Author \X Hash \X File \X Version
      /\ authors \subseteq Author
      /\ \A r \in methods : RowTrue(r, content, projects)
  BY <1>1, Zenon DEF Tables, Rows
<1>3. s \in A \/ s \in I \/ s \in U
  BY Zenon DEF Statement
<1>4. CASE s \in A
  <2>1. /\ s.op = "author" /\ s.author \in Author /\ s.method \in ms /\ s.version = v
        /\ s.op # "insert" /\ s.op # "update"
    BY <1>4
  <2>2. /\ byAuthor' = byAuthor
              \/ byAuthor' = byAuthor \cup {<<s.author, s.method.hash, s.method.file, s.version>>}
        /\ authors' = authors \cup {s.author} \/ authors' = authors
        /\ methods' = methods /\ projects' = projects
    BY <2>1, Zenon DEF Write, createAuthorIfNotExists
  <2>3. <<s.author, s.method.hash, s.method.file, s.version>> \in Author \X Hash \X File \X Version
    <3>1. s.method \in Method
      BY <2>1
    <3>2. s.method.hash \in Hash /\ s.method.file \in File
      BY <3>1 DEF Method
    <3> QED BY <2>1, <3>2, Zenon
  <2> DEFINE e == <<s.author, s.method.hash, s.method.file, s.version>>
             P == Author \X Hash \X File \X Version
  <2> HIDE DEF e, P
  <2>4. byAuthor' \subseteq P
    <3>1. byAuthor \subseteq P /\ e \in P /\ (byAuthor' = byAuthor \/ byAuthor' = byAuthor \cup {e})
      BY <1>2, <2>2, <2>3, Zenon DEF e, P
    <3> QED BY <3>1, Zenon
  <2>5. authors' \subseteq Author
    BY <1>2, <2>1, <2>2, Zenon
  <2> QED BY <1>2, <2>2, <2>4, <2>5, Zenon DEF Written, P
<1>5. CASE s \in I
  <2>1. /\ s.op = "insert" /\ s.method \in ms /\ s.version = v /\ s.authors \in SUBSET Author
        /\ s.op # "author" /\ s.op # "update"
    BY <1>5
  <2> DEFINE row == [hash |-> s.method.hash, file |-> s.method.file, start |-> s.version,
                     end |-> s.version, authors |-> s.authors]
  <2>2. /\ methods' = methods \/ methods' = Upsert(row)
        /\ projects' = projects /\ byAuthor' = byAuthor /\ authors' = authors
    BY <2>1, Zenon DEF Write, createAuthorIfNotExists
  <2>3. s.method \in Method
    BY <2>1
  <2>4. s.method.hash \in Hash /\ s.method.file \in File /\ s.method = [hash |-> s.method.hash, file |-> s.method.file]
    BY <2>3 DEF Method
  <2>5. row \in Row
    BY <2>1, <2>4, Zenon DEF Row
  <2>6. row.start = v /\ row.end = v /\ row.hash = s.method.hash /\ row.file = s.method.file
    BY <2>1
  <2> HIDE DEF row
  <2>7. AsMethod(row) = s.method
    BY <2>4, <2>6, Zenon DEF AsMethod
  <2>8. v <= v
    BY UploadBounds DEF Version
  <2>9. RowTrue(row, content, projects)
    BY <2>1, <2>6, <2>7, <2>8, Zenon DEF RowTrue
  <2>10. /\ Upsert(row) \subseteq Row /\ IsFiniteSet(Upsert(row))
         /\ \A r \in Upsert(row) : RowTrue(r, content, projects)
    BY <1>1, <2>5, <2>9, UpsertType
  <2>11. CASE methods' = methods
    BY <1>2, <2>2, <2>11, Zenon DEF Written
  <2>12. CASE methods' = Upsert(row)
    BY <1>2, <2>2, <2>10, <2>12, Zenon DEF Written
  <2> QED BY <2>2, <2>11, <2>12
<1>6. CASE s \in U
  <2>1. /\ s.op = "update" /\ s.method \in ms /\ s.version = v /\ s.authors \in SUBSET Author
        /\ s.op # "author" /\ s.op # "insert" /\ s.start \in 1..p
    BY <1>6
  <2> DEFINE E == Extended(<<s.method.hash, s.method.file, s.start>>, v, s.authors)
  <2>2. /\ methods' = methods \/ methods' = E
        /\ projects' = projects /\ byAuthor' = byAuthor /\ authors' = authors
    BY <2>1, Zenon DEF Write, createAuthorIfNotExists
  <2>3. s.method \in Method /\ s.start <= v
    BY <2>1, UploadBounds DEF Version
  <2>4. E \subseteq Row /\ IsFiniteSet(E) /\ \A r \in E : RowTrue(r, content, projects)
    BY <1>1, <2>1, <2>3, ExtendedType, Zenon
  <2> HIDE DEF E
  <2>5. CASE methods' = methods
    BY <1>2, <2>2, <2>5, Zenon DEF Written
  <2>6. CASE methods' = E
    BY <1>2, <2>2, <2>4, <2>6, Zenon DEF Written
  <2> QED BY <2>2, <2>5, <2>6
<1> QED BY <1>3, <1>4, <1>5, <1>6

LEMMA ExecuteInv ==
  ASSUME UploadInv, NEW c \in Conn, NEW k \in Worker, Execute(c, k)
  PROVE  UploadInv'
<1> DEFINE me == worker[c][k]
           u == up[c]
           ms == content[u.version]
           S == Statement(u.version, u.prev, ms)
           s == Head(me.todo)
<1>1. /\ me.pc = "write" /\ up' = up
      /\ content' = content /\ acked' = acked /\ alive' = alive /\ crashes' = crashes
  BY Zenon DEF Execute, clients
<1>2. PICK o : /\ Happens(o) /\ Write(s, o)
               /\ \/ Len(me.todo) > 1 /\ Set(c, k, [me EXCEPT !.todo = Tail(@), !.errno = Errno(s, me.errno, o)])
                  \/ Set(c, k, AfterAttempt(c, me, Errno(s, me.errno, o)))
  BY Zenon DEF Execute
<1>3. me.pc # "idle" /\ me.pc \in {"select", "write"}
  BY <1>1
<1>4. /\ Busy(u, me, content) /\ ms \in SUBSET Method /\ Truthful(u, content, projects)
      /\ me \in Thread(u.version, u.prev, ms, Entry(u))
      /\ u.prev < u.version /\ u.version \in Version /\ u.prev \in 0..MaxVersion
      /\ ms # None /\ projects[u.version] # None
  BY <1>3, WorkerAt, Zenon
<1>5. Len(me.todo) # 0
  BY <1>1, <1>4, Zenon DEF Busy
<1>6. me.todo \in Seq(S) /\ me.errno \in BOOLEAN
  BY <1>4 DEF Thread
<1>7. s \in S /\ Tail(me.todo) \in Seq(S) /\ Len(Tail(me.todo)) = Len(me.todo) - 1 /\ Len(me.todo) \in Nat
  <2> HIDE DEF S
  <2> QED BY <1>5, <1>6
<1> DEFINE e == Errno(s, me.errno, o)
<1>8. e \in BOOLEAN
  BY Zenon DEF Errno
<1>9. Written
  <2> HIDE DEF s
  <2> QED BY <1>2, <1>4, <1>7, WriteType
<1> HIDE DEF e
<1>10. \E t : Set(c, k, t) /\ Busy(u, t, content)
  <2>1. CASE Set(c, k, AfterAttempt(c, me, e))
    <3>1. Busy(u, AfterAttempt(c, me, e), content)
      <4> HIDE DEF me
      <4> QED BY <1>3, <1>4, <1>8, AfterAttemptBusy
    <3> QED BY <2>1, <3>1, Zenon
  <2>2. CASE Len(me.todo) > 1 /\ Set(c, k, [me EXCEPT !.todo = Tail(@), !.errno = e])
    <3> DEFINE t == [me EXCEPT !.todo = Tail(@), !.errno = e]
    <3>1. Len(Tail(me.todo)) # 0
      <4>1. Len(me.todo) > 1
        BY <2>2, Zenon
      <4>2. \A a, b \in Nat : a = b - 1 /\ b > 1 => a # 0
        OBVIOUS
      <4>3. Len(Tail(me.todo)) \in Nat
        <5> HIDE DEF S
        <5> QED BY <1>7
      <4> QED BY <1>7, <4>1, <4>2, <4>3, Zenon
    <3>2. /\ t \in Thread(u.version, u.prev, ms, Entry(u)) /\ t.pc = "write" /\ t.item = me.item
          /\ t.todo = Tail(me.todo)
      BY <1>1, <1>4, <1>7, <1>8 DEF Thread, Pc
    <3> HIDE DEF t
    <3>3. Busy(u, t, content)
      BY <1>3, <1>4, <3>1, <3>2, Zenon DEF Busy
    <3>4. Set(c, k, t)
      BY <2>2 DEF t
    <3> QED BY <3>3, <3>4, Zenon
  <2> QED BY <1>2, <2>1, <2>2, Zenon DEF e
<1>11. PICK t : Set(c, k, t) /\ Busy(u, t, content)
  BY <1>10
<1>12. projects' = projects
  BY <1>9, Zenon DEF Written
<1>13. Requests' /\ Threads'
  BY <1>1, <1>3, <1>11, <1>12, StepSelf
<1>14. faults' \in 0..MaxFaults
  BY <1>2, Parts, HappensType
<1>15. Tables'
  <2>1. Tables
    BY Parts
  <2> QED BY <1>1, <1>9, <1>12, <1>14, <2>1, Zenon DEF Tables, Written
<1>16. Rows'
  BY <1>1, <1>9, <1>12, Zenon DEF Rows, Written
<1>17. HashesHonest'
  <2>1. HashesHonest
    BY Parts
  <2> QED BY <1>1, <1>12, <2>1, Zenon DEF HashesHonest
<1> QED BY <1>13, <1>15, <1>16, <1>17, Zenon DEF UploadInv

(***************************************************************************)
(* The theorems                                                             *)
(***************************************************************************)
LEMMA CrashInv ==
  ASSUME UploadInv, Crash PROVE UploadInv'
<1>1. Stop /\ crashes < MaxCrashes /\ crashes' = crashes + 1
  BY Zenon DEF Crash
<1>2. crashes \in 0..MaxCrashes
  BY Parts
<1>3. crashes' \in 0..MaxCrashes
  BY <1>1, <1>2, UploadBounds
<1> QED BY <1>1, <1>3, StopInv

LEMMA RestartInv ==
  ASSUME UploadInv, Restart PROVE UploadInv'
<1>1. /\ alive' = TRUE /\ up' = up /\ worker' = worker /\ faults' = faults /\ crashes' = crashes
      /\ methods' = methods /\ projects' = projects /\ byAuthor' = byAuthor /\ authors' = authors
      /\ content' = content /\ acked' = acked
  BY Zenon DEF Restart, tables, clients
<1>2. Requests' /\ Threads'
  BY <1>1, Parts, Zenon DEF Requests, Threads
<1>3. alive' \in BOOLEAN
  BY <1>1, Zenon
<1> QED BY <1>1, <1>2, <1>3, Parts, Quiet

LEMMA StutterInv ==
  ASSUME UploadInv, UNCHANGED vars PROVE UploadInv'
BY Zenon DEF UploadInv, Tables, Requests, Threads, Rows, HashesHonest, vars, tables, clients

LEMMA InitInv ==
  ASSUME Init PROVE UploadInv
<1>1. /\ methods = {} /\ byAuthor = {} /\ authors = {}
      /\ projects = [v \in Version |-> None] /\ content = [v \in Version |-> None]
      /\ up = [c \in Conn |-> Idle] /\ worker = [c \in Conn |-> [w \in Worker |-> NoWorker]]
      /\ acked = {} /\ alive = TRUE /\ faults = 0 /\ crashes = 0
  BY Zenon DEF Init
<1>2. faults \in 0..MaxFaults /\ crashes \in 0..MaxCrashes
  BY <1>1, UploadBounds
<1>3. /\ projects \in [Version -> (SUBSET Hash) \cup {None}]
      /\ content \in [Version -> (SUBSET Method) \cup {None}]
  BY <1>1
<1>4. IsFiniteSet(methods)
  BY <1>1, FS_EmptySet
<1>5. Tables
  <2>1. /\ methods \subseteq Row /\ byAuthor \subseteq Author \X Hash \X File \X Version
        /\ authors \subseteq Author /\ acked \subseteq Version
    BY <1>1
  <2>2. alive \in BOOLEAN
    BY <1>1, Zenon
  <2> QED BY <1>2, <1>3, <1>4, <2>1, <2>2, Zenon DEF Tables
<1>6. Requests
  <2>1. up = [c \in Conn |-> up[c]] /\ \A c \in Conn : up[c] = Idle
    BY <1>1
  <2> QED BY <2>1, Zenon DEF Requests
<1>7. Threads
  <2>1. \A c \in Conn : \A w \in Worker : worker[c][w] = NoWorker
    BY <1>1
  <2>2. worker = [c \in Conn |-> [w \in Worker |-> worker[c][w]]]
    BY <1>1
  <2> QED BY <2>1, <2>2, Zenon DEF Threads
<1>8. Rows
  BY <1>1, Zenon DEF Rows
<1>9. HashesHonest
  BY <1>1 DEF HashesHonest
<1> QED BY <1>5, <1>6, <1>7, <1>8, <1>9, Zenon DEF UploadInv

LEMMA NextInv ==
  ASSUME UploadInv, Next PROVE UploadInv'
<1>1. ASSUME NEW c \in Conn, Receive(c) PROVE UploadInv'
  BY <1>1, ReceiveInv
<1>2. ASSUME NEW c \in Conn, Handle(c) PROVE UploadInv'
  <2>1. CASE Check(c)
    BY <2>1, CheckInv
  <2>2. CASE SearchPrevious(c)
    BY <2>2, SearchPreviousInv
  <2>3. CASE ParseMethods(c)
    BY <2>3, ParseMethodsInv
  <2>4. CASE AddProject(c)
    BY <2>4, AddProjectInv
  <2>5. CASE AddHashes(c)
    BY <2>5, AddHashesInv
  <2>6. CASE StartUpload(c)
    BY <2>6, StartUploadInv
  <2>7. CASE JoinUpload(c)
    BY <2>7, JoinUploadInv
  <2>8. CASE JoinUnchanged(c)
    BY <2>8, JoinUnchangedInv
  <2> QED BY <1>2, <2>1, <2>2, <2>3, <2>4, <2>5, <2>6, <2>7, <2>8, Zenon DEF Handle
<1>3. ASSUME NEW c \in Conn, NEW w \in Worker, Work(c, w) PROVE UploadInv'
  <2>1. CASE TakeItem(c, w)
    BY <2>1, TakeItemInv
  <2>2. CASE SelectMethod(c, w)
    BY <2>2, SelectMethodInv
  <2>3. CASE SelectUnchanged(c, w)
    BY <2>3, SelectUnchangedInv
  <2>4. CASE Execute(c, w)
    BY <2>4, ExecuteInv
  <2> QED BY <1>3, <2>1, <2>2, <2>3, <2>4, Zenon DEF Work
<1>4. CASE Crash
  BY <1>4, CrashInv
<1>5. CASE Restart
  BY <1>5, RestartInv
<1> QED BY <1>1, <1>2, <1>3, <1>4, <1>5, Zenon DEF Next

\* Everything an upload, its workers and the rows they wrote say of a version is true
\* of what that version holds.
LEMMA UploadInvariant == Spec => []UploadInv
<1>1. Init => UploadInv
  BY InitInv
<1>2. UploadInv /\ [Next]_vars => UploadInv'
  BY NextInv, StutterInv
<1> QED BY <1>1, <1>2, PTL DEF Spec

\* The tables and the locals of handlers and workers keep their types, and
\* queryWithRetry never counts past MAX_RETRIES, however often uploads are repeated,
\* statements fail and the process ends.
THEOREM UploadTypes == Spec => []TypeOK
<1>1. ASSUME UploadInv PROVE TypeOK
  <2>1. Tables /\ Requests /\ Threads
    BY <1>1, Parts
  <2>2. ASSUME NEW c \in Conn
        PROVE  /\ up[c].phase \in {"idle", "check", "search", "parse", "insert", "extend", "start",
                                   "methods", "files", "unchanged"}
               /\ up[c].tries \in 0..MAX_RETRIES
    <3>1. CASE up[c] = Idle
      BY <3>1, UploadBounds DEF Idle
    <3>2. CASE Request(up[c], content, projects)
      <4>1. up[c] \in Upload(Entry(up[c]))
        BY <3>2, Zenon DEF Request
      <4> QED BY <4>1 DEF Upload, Phase
    <3> QED BY <2>1, <3>1, <3>2, Zenon DEF Requests
  <2>3. ASSUME NEW c \in Conn, NEW w \in Worker
        PROVE  /\ worker[c][w].pc \in {"idle", "take", "select", "write", "ended"}
               /\ worker[c][w].tries \in 0..MAX_RETRIES
    <3>1. CASE worker[c][w] = NoWorker
      BY <3>1, UploadBounds DEF NoWorker
    <3>2. CASE Busy(up[c], worker[c][w], content)
      <4>1. worker[c][w] \in Thread(up[c].version, up[c].prev, content[up[c].version], Entry(up[c]))
        BY <3>2, Zenon DEF Busy
      <4> QED BY <4>1 DEF Thread, Pc
    <3> QED BY <2>1, <3>1, <3>2, Zenon DEF Threads
  <2> QED BY <2>1, <2>2, <2>3, Zenon DEF TypeOK, Tables
<1> QED BY <1>1, UploadInvariant, PTL

\* A project row never holds a hash that its version does not have, however the
\* connections interleave: not from addProject, not from the chunks addHashToProject
\* adds, and not from the hashes handleUpdateUnchangedFilesThreads collects from the
\* previous version.  A request that did not parse leaves no row.
THEOREM ProjectRowsHonest == Spec => []HashesHonest
<1>1. UploadInv => HashesHonest
  BY Parts
<1> QED BY <1>1, UploadInvariant, PTL

\* A method row starts and ends at versions that have a project row: workers only
\* start after queryWithRetry stored the row of their version, an update only extends
\* a row to that version, and nothing deletes a project row, whatever fails.
THEOREM RowsAlwaysHaveProject == Spec => []RowsHaveProject
<1>1. UploadInv => RowsHaveProject
  BY Parts, Zenon DEF Rows, RowTrue, RowsHaveProject
<1> QED BY <1>1, UploadInvariant, PTL

(***************************************************************************)
(* One uploader at a time.  Two connections that upload versions of the     *)
(* same project at once can shorten each other's rows; nothing in the code  *)
(* keeps them apart, so what follows assumes there is one.                  *)
(***************************************************************************)
OneUploader == \A c, d \in Conn : c = d

\* A row an update is about ends between the two versions.
Fit(s, u, ms) ==
  s.op = "update" => \A r \in ms : Key(r) = KeyOf(s) => u.prev <= r.end /\ r.end <= u.version

\* The authors statement l[i] names are related to its method, or will be before it.
Announced(l, i, ba) ==
  \A a \in Named(l[i]) :
    \/ <<a, l[i].method.hash, l[i].method.file, l[i].version>> \in ba
    \/ \E j \in 1..(i - 1) : Relates(l[j], a, l[i])

\* The list of statements of a worker of upload u, with n faults so far.
Ready(l, u, ms, ba, n) ==
  \A i \in 1..Len(l) : Fit(l[i], u, ms) /\ (n = 0 => Announced(l, i, ba))

Keyed(ms) == \A r, q \in ms : Key(r) = Key(q) => r = q

\* Row r has its authors in table ba.
RowIndexed(r, ba) ==
  \A a \in r.authors :
    \E e \in ba : e[1] = a /\ e[2] = r.hash /\ e[3] = r.file /\ r.start <= e[4] /\ e[4] <= r.end

Lists == \A c \in Conn : \A w \in Worker : Ready(worker[c][w].todo, up[c], methods, byAuthor, faults)

ListInv == Keyed(methods) /\ Lists /\ (faults = 0 => \A r \in methods : RowIndexed(r, byAuthor))

(***************************************************************************)
(* Clients that send a version once and build on the latest one.            *)
(***************************************************************************)
Orderly == "stale" \notin Clients /\ "repeat" \notin Clients

\* The version of upload u is the newest, and none was stored since its previous one.
Newest(u, ct, pj) ==
  u.phase # "idle" /\ u.bad = FALSE =>
    /\ \A v \in Version : ct[v] # None => v <= u.version
    /\ u.prev # 0 => \A v \in Version : pj[v] # None => v <= u.prev \/ v = u.version

\* Every stored version row r spans holds its method.
Spans(r, ct, pj) ==
  \A v \in Version : r.start <= v /\ v <= r.end /\ pj[v] # None => AsMethod(r) \in ct[v]

OrderInv ==
  /\ \A v \in acked : projects[v] # None
  /\ \A c \in Conn : Newest(up[c], content, projects)
  /\ \A r \in methods : Spans(r, content, projects)

\* A row that was extended to version v.
Longer(r, v, as) == [r EXCEPT !.end = v, !.authors = @ \cup as]

\* Row r became row q.
Became(r, q, key, v, as) ==
  /\ q.hash = r.hash /\ q.file = r.file /\ q.start = r.start /\ Key(q) = Key(r)
  /\ AsMethod(q) = AsMethod(r)
  /\ q = (IF Key(r) = key THEN Longer(r, v, as) ELSE r)
  /\ Key(r) = key => q.end = v /\ q.authors = r.authors \cup as

\* The rows after an UPDATE, one by one.
LEMMA ExtendedRow ==
  ASSUME methods \subseteq Row, NEW key, NEW v, NEW as, NEW q \in Extended(key, v, as)
  PROVE  \E r \in methods : Became(r, q, key, v, as)
<1>0. Extended(key, v, as) = {IF Key(r) = key THEN Longer(r, v, as) ELSE r : r \in methods}
  BY Zenon DEF Extended, Longer
<1>1. PICK r \in methods : q = IF Key(r) = key THEN Longer(r, v, as) ELSE r
  BY <1>0, Zenon
<1>2. CASE Key(r) = key
  <2> DEFINE x == Longer(r, v, as)
  <2>1. r \in Row
    OBVIOUS
  <2>2. /\ x.hash = r.hash /\ x.file = r.file /\ x.start = r.start
        /\ x.end = v /\ x.authors = r.authors \cup as
    BY <2>1 DEF Row, Longer
  <2>3. q = x
    BY <1>1, <1>2, Zenon
  <2> HIDE DEF x
  <2>4. /\ q.hash = r.hash /\ q.file = r.file /\ q.start = r.start
        /\ q.end = v /\ q.authors = r.authors \cup as
    BY <2>2, <2>3, Zenon
  <2>5. Key(q) = Key(r) /\ AsMethod(q) = AsMethod(r)
    BY <2>4, Zenon DEF Key, AsMethod
  <2> QED BY <1>1, <2>4, <2>5, Zenon DEF Became
<1>3. CASE Key(r) # key
  BY <1>1, <1>3, Zenon DEF Became
<1> QED BY <1>2, <1>3

LEMMA KeyedExtended ==
  ASSUME methods \subseteq Row, Keyed(methods), NEW key, NEW v, NEW as
  PROVE  Keyed(Extended(key, v, as))
<1> SUFFICES ASSUME NEW x \in Extended(key, v, as), NEW y \in Extended(key, v, as), Key(x) = Key(y)
             PROVE  x = y
  BY Zenon DEF Keyed
<1>1. PICK r \in methods : Became(r, x, key, v, as)
  BY ExtendedRow
<1>2. PICK q \in methods : Became(q, y, key, v, as)
  BY ExtendedRow
<1>3. r = q
  BY <1>1, <1>2, Zenon DEF Keyed, Became
<1> QED BY <1>1, <1>2, <1>3, Zenon DEF Became

LEMMA KeyedUpsert ==
  ASSUME Keyed(methods), NEW row PROVE Keyed(Upsert(row))
BY Zenon DEF Keyed, Upsert

LEMMA ReadyList ==
  ASSUME NEW u, NEW ms, Keyed(ms), NEW rows \in SUBSET ms, \A r \in rows : r.end = u.prev,
         u.prev \in Nat, u.version \in Nat, u.prev < u.version,
         NEW S, NEW l \in Grouped(About(rows, S)), NEW ba, NEW n
  PROVE  Ready(l, u, ms, ba, n)
<1>1. l \in Seq(About(rows, S))
  BY Zenon DEF Grouped
<1>2. u.prev <= u.prev /\ u.prev <= u.version
  OBVIOUS
<1> SUFFICES ASSUME NEW i \in 1..Len(l) PROVE Fit(l[i], u, ms) /\ Announced(l, i, ba)
  BY Zenon DEF Ready
<1>3. l[i] \in About(rows, S)
  <2> DEFINE A == About(rows, S)
  <2> HIDE DEF A
  <2>1. l \in Seq(A)
    BY <1>1 DEF A
  <2>2. l[i] \in A
    BY <2>1
  <2> QED BY <2>2 DEF A
<1>4. Fit(l[i], u, ms)
  <2> SUFFICES ASSUME l[i].op = "update", NEW q \in ms, Key(q) = KeyOf(l[i])
               PROVE  u.prev <= q.end /\ q.end <= u.version
    BY Zenon DEF Fit
  <2>1. PICK r \in rows : Key(r) = KeyOf(l[i])
    BY <1>3, Zenon DEF About
  <2>2. q = r
    BY <2>1, Zenon DEF Keyed
  <2> QED BY <1>2, <2>1, <2>2, Zenon
<1>5. Announced(l, i, ba)
  BY Zenon DEF Announced, Grouped
<1> QED BY <1>4, <1>5

LEMMA ReadyEmpty ==
  ASSUME NEW u, NEW ms, NEW ba, NEW n PROVE Ready(<<>>, u, ms, ba, n)
<1>1. 1..Len(<<>>) = {}
  OBVIOUS
<1> QED BY <1>1, Zenon DEF Ready

LEMMA ReadyStays ==
  ASSUME NEW l, NEW u, NEW u2, NEW ms, NEW ba, NEW n, NEW n2, Ready(l, u, ms, ba, n),
         n2 = 0 => n = 0, u2.prev = u.prev, u2.version = u.version
  PROVE  Ready(l, u2, ms, ba, n2)
BY Zenon DEF Ready, Fit

\* A step that leaves the rows and the author index alone.
LEMMA ListsKept ==
  ASSUME ListInv, methods' = methods, byAuthor' = byAuthor, faults' = 0 => faults = 0,
         \A c \in Conn : \A w \in Worker : Ready(worker'[c][w].todo, up'[c], methods, byAuthor, faults')
  PROVE  ListInv'
BY Zenon DEF ListInv, Lists

\* ... after which no worker has a statement to send.
LEMMA NoLists ==
  ASSUME ListInv, methods' = methods, byAuthor' = byAuthor, faults' = 0 => faults = 0,
         \A c \in Conn : \A w \in Worker : worker'[c][w].todo = <<>>
  PROVE  ListInv'
<1>1. ASSUME NEW c \in Conn, NEW w \in Worker
      PROVE  Ready(worker'[c][w].todo, up'[c], methods, byAuthor, faults')
  <2>1. worker'[c][w].todo = <<>>
    BY Zenon
  <2>2. Ready(<<>>, up'[c], methods, byAuthor, faults')
    BY ReadyEmpty
  <2> QED BY <2>1, <2>2, Zenon
<1> QED BY <1>1, ListsKept

\* ... of the handler, while it has no workers.
LEMMA HandlerLists ==
  ASSUME OneUploader, UploadInv, ListInv, NEW c \in Conn, up[c].phase \notin {"methods", "files"},
         methods' = methods, byAuthor' = byAuthor, faults' = 0 => faults = 0, worker' = worker
  PROVE  ListInv'
<1>1. NoWorker.todo = <<>>
  BY DEF NoWorker
<1>2. \A w \in Worker : worker[c][w] = NoWorker
  BY Parts, Zenon DEF Threads, Busy
<1>3. \A d \in Conn : \A w \in Worker : worker'[d][w].todo = <<>>
  BY <1>1, <1>2, Zenon DEF OneUploader
<1> QED BY <1>3, NoLists

\* Worker k of connection c goes on with t.
LEMMA SelfLists ==
  ASSUME OneUploader, UploadInv, ListInv, NEW c \in Conn, NEW k \in Worker, NEW t, Set(c, k, t),
         up'[c].prev = up[c].prev, up'[c].version = up[c].version,
         methods' = methods, byAuthor' = byAuthor, faults' = 0 => faults = 0,
         Ready(t.todo, up[c], methods, byAuthor, faults')
  PROVE  ListInv'
<1>1. worker = [d \in Conn |-> [w \in Worker |-> worker[d][w]]]
  BY Parts, Zenon DEF Threads
<1>2. worker' = [worker EXCEPT ![c][k] = t]
  BY Zenon DEF Set
<1>3. worker'[c][k] = t /\ \A w \in Worker : w # k => worker'[c][w] = worker[c][w]
  BY <1>1, <1>2
<1>4. ASSUME NEW d \in Conn, NEW w \in Worker
      PROVE  Ready(worker'[d][w].todo, up'[d], methods, byAuthor, faults')
  <2>1. d = c
    BY Zenon DEF OneUploader
  <2>2. Ready(worker'[c][w].todo, up[c], methods, byAuthor, faults')
    <3>1. CASE w = k
      BY <1>3, <3>1, Zenon
    <3>2. CASE w # k
      <4>1. worker'[c][w] = worker[c][w] /\ Ready(worker[c][w].todo, up[c], methods, byAuthor, faults)
        BY <1>3, <3>2, Zenon DEF ListInv, Lists
      <4> DEFINE l == worker[c][w].todo
                 u == up[c]
      <4> HIDE DEF l, u
      <4>2. Ready(l, u, methods, byAuthor, faults)
        BY <4>1 DEF l, u
      <4>3. Ready(l, u, methods, byAuthor, faults')
        BY <4>2, ReadyStays
      <4> QED BY <4>1, <4>3, Zenon DEF l, u
    <3> QED BY <3>1, <3>2
  <2> DEFINE l == worker'[c][w].todo
  <2> HIDE DEF l
  <2>3. Ready(l, up[c], methods, byAuthor, faults')
    BY <2>2 DEF l
  <2>4. Ready(l, up'[c], methods, byAuthor, faults')
    BY <2>3, ReadyStays
  <2> QED BY <2>1, <2>4, Zenon DEF l
<1> QED BY <1>4, ListsKept

InsertRow(s) == [hash |-> s.method.hash, file |-> s.method.file, start |-> s.version,
                 end |-> s.version, authors |-> s.authors]

\* The effects statement s can have on the rows and the author index.
Related(s, o) ==
  /\ s.op = "author" /\ methods' = methods /\ byAuthor \subseteq byAuthor'
  /\ o = "ok" => <<s.author, s.method.hash, s.method.file, s.version>> \in byAuthor'
Failed(s)   == s.op # "author" /\ methods' = methods /\ byAuthor' = byAuthor
Inserted(s) == s.op = "insert" /\ methods' = Upsert(InsertRow(s)) /\ byAuthor' = byAuthor
Updated(s)  == s.op = "update" /\ methods' = Extended(KeyOf(s), s.version, s.authors) /\ byAuthor' = byAuthor

\* A statement by its kind.
LEMMA StatementKinds ==
  ASSUME NEW v, NEW p, NEW ms, NEW s \in Statement(v, p, ms)
  PROVE  /\ s.op \in {"author", "insert", "update"} /\ s.version = v /\ s.method \in ms
         /\ s.op = "author" => s.author \in Author
         /\ s.op # "author" => s.authors \in SUBSET Author
         /\ s.op = "update" => s.start \in 1..p
<1> DEFINE A == [op : {"author"}, author : Author, method : ms, version : {v}]
           I == [op : {"insert"}, method : ms, version : {v}, authors : SUBSET Author]
           U == [op : {"update"}, method : ms, version : {v}, start : 1..p, authors : SUBSET Author]
<1>1. s \in A \/ s \in I \/ s \in U
  BY Zenon DEF Statement
<1>2. CASE s \in A
  BY <1>2
<1>3. CASE s \in I
  BY <1>3
<1>4. CASE s \in U
  BY <1>4
<1> QED BY <1>1, <1>2, <1>3, <1>4

LEMMA WriteKinds ==
  ASSUME NEW v, NEW p, NEW ms, NEW s \in Statement(v, p, ms), NEW o, Write(s, o)
  PROVE  Related(s, o) \/ Failed(s) \/ Inserted(s) \/ Updated(s)
<1>1. s.op \in {"author", "insert", "update"}
  BY StatementKinds
<1>2. CASE s.op = "author"
  <2>1. s.op # "insert" /\ s.op # "update"
    BY <1>2
  <2>2. /\ methods' = methods
        /\ byAuthor' = IF o = "fail" THEN byAuthor
                       ELSE byAuthor \cup {<<s.author, s.method.hash, s.method.file, s.version>>}
    BY <1>2, <2>1, Zenon DEF Write, createAuthorIfNotExists
  <2>3. o = "ok" => o # "fail"
    OBVIOUS
  <2> QED BY <1>2, <2>2, <2>3, Zenon DEF Related
<1>3. CASE s.op = "insert"
  <2>1. s.op # "author" /\ s.op # "update"
    BY <1>3
  <2> QED BY <1>3, <2>1, Zenon DEF Write, createAuthorIfNotExists, Failed, Inserted, InsertRow
<1>4. CASE s.op = "update"
  <2>1. s.op # "author" /\ s.op # "insert"
    BY <1>4
  <2> QED BY <1>4, <2>1, Zenon DEF Write, createAuthorIfNotExists, Failed, Updated, KeyOf
<1> QED BY <1>1, <1>2, <1>3, <1>4

\* Another statement s2 of the same upload still fits.
LEMMA FitStays ==
  ASSUME methods \subseteq Row, NEW u, u.version \in Version, u.prev \in 0..MaxVersion, u.prev < u.version,
         NEW ms, NEW s \in Statement(u.version, u.prev, ms), NEW o,
         Related(s, o) \/ Failed(s) \/ Inserted(s) \/ Updated(s),
         NEW s2 \in Statement(u.version, u.prev, ms), Fit(s2, u, methods)
  PROVE  Fit(s2, u, methods')
<1> SUFFICES ASSUME s2.op = "update", NEW q \in methods', Key(q) = KeyOf(s2)
             PROVE  u.prev <= q.end /\ q.end <= u.version
  BY Zenon DEF Fit
<1>1. s.version = u.version /\ s2.start \in 1..u.prev
  BY StatementKinds
<1>2. u.prev <= u.version /\ u.version <= u.version /\ s2.start # u.version
  BY <1>1, UploadBounds DEF Version
<1>3. q \in methods => u.prev <= q.end /\ q.end <= u.version
  BY Zenon DEF Fit
<1>4. CASE Related(s, o) \/ Failed(s)
  BY <1>3, <1>4, Zenon DEF Related, Failed
<1>5. CASE Inserted(s)
  <2> DEFINE row == InsertRow(s)
  <2>1. row.start = u.version
    BY <1>1 DEF InsertRow
  <2> HIDE DEF row
  <2>2. q # row
    <3>1. Key(row)[3] = u.version /\ KeyOf(s2)[3] = s2.start
      BY <2>1 DEF Key, KeyOf
    <3> QED BY <1>2, <3>1, Zenon
  <2>3. methods' = {r \in methods : Key(r) # Key(row)} \cup {row}
    BY <1>5, Zenon DEF Inserted, Upsert, row
  <2> QED BY <1>3, <2>2, <2>3, Zenon
<1>6. CASE Updated(s)
  <2>1. methods' = Extended(KeyOf(s), u.version, s.authors)
    BY <1>1, <1>6, Zenon DEF Updated
  <2>2. PICK r \in methods : Became(r, q, KeyOf(s), u.version, s.authors)
    BY <2>1, ExtendedRow
  <2>3. Key(r) = KeyOf(s2)
    BY <2>2, Zenon DEF Became
  <2>4. CASE Key(r) = KeyOf(s)
    <3>1. q.end = u.version
      BY <2>2, <2>4, Zenon DEF Became
    <3> QED BY <1>2, <3>1, Zenon
  <2>5. CASE Key(r) # KeyOf(s)
    <3>1. q = r
      BY <2>2, <2>5, Zenon DEF Became
    <3> QED BY <1>3, <3>1, Zenon
  <2> QED BY <2>4, <2>5
<1> QED BY <1>4, <1>5, <1>6, Zenon

LEMMA ReadyWrites ==
  ASSUME methods \subseteq Row, NEW u, u.version \in Version, u.prev \in 0..MaxVersion, u.prev < u.version,
         NEW ms, NEW s \in Statement(u.version, u.prev, ms), NEW o,
         Related(s, o) \/ Failed(s) \/ Inserted(s) \/ Updated(s),
         faults' = 0 => faults = 0,
         NEW l \in Seq(Statement(u.version, u.prev, ms)), Ready(l, u, methods, byAuthor, faults)
  PROVE  Ready(l, u, methods', byAuthor', faults')
<1> DEFINE S == Statement(u.version, u.prev, ms)
<1>1. byAuthor \subseteq byAuthor'
  BY Zenon DEF Related, Failed, Inserted, Updated
<1>2. ASSUME NEW i \in 1..Len(l) PROVE Fit(l[i], u, methods') /\ (faults' = 0 => Announced(l, i, byAuthor'))
  <2>1. l[i] \in S
    <3> HIDE DEF S
    <3>1. l \in Seq(S)
      BY DEF S
    <3> QED BY <3>1
  <2>2. Fit(l[i], u, methods) /\ (faults = 0 => Announced(l, i, byAuthor))
    BY Zenon DEF Ready
  <2>3. Fit(l[i], u, methods')
    <3> DEFINE x == l[i]
    <3> HIDE DEF x
    <3>1. x \in S /\ Fit(x, u, methods)
      BY <2>1, <2>2 DEF x
    <3>2. Fit(x, u, methods')
      BY <3>1, FitStays
    <3> QED BY <3>2 DEF x
  <2>4. Announced(l, i, byAuthor) => Announced(l, i, byAuthor')
    BY <1>1, Zenon DEF Announced
  <2> QED BY <2>2, <2>3, <2>4, Zenon
<1> QED BY <1>2, Zenon DEF Ready

LEMMA ReadyTail ==
  ASSUME NEW u, NEW ms, NEW ba, NEW n, NEW v, NEW p, NEW cs,
         NEW l \in Seq(Statement(v, p, cs)), Len(l) # 0, Ready(l, u, ms, ba, n),
         n = 0 /\ Head(l).op = "author" =>
           <<Head(l).author, Head(l).method.hash, Head(l).method.file, Head(l).version>> \in ba
  PROVE  Ready(Tail(l), u, ms, ba, n)
<1> DEFINE S == Statement(v, p, cs)
           t == Tail(l)
<1>1. l \in Seq(S)
  OBVIOUS
<1>2. \A i \in 1..Len(l) : l[i].version = v
  <2>1. \A s \in S : s.version = v
    BY StatementKinds
  <2> HIDE DEF S
  <2> QED BY <1>1, <2>1
<1> HIDE DEF S
<1>3. /\ Len(l) \in Nat /\ Len(t) = Len(l) - 1 /\ Head(l) = l[1] /\ Len(t) \in Nat
      /\ \A i \in 1..Len(t) : t[i] = l[i + 1] /\ i + 1 \in 1..Len(l)
  BY <1>1
<1> HIDE DEF t
<1>4. ASSUME NEW i \in 1..Len(t) PROVE Fit(t[i], u, ms) /\ (n = 0 => Announced(t, i, ba))
  <2>1. t[i] = l[i + 1] /\ i + 1 \in 1..Len(l)
    BY <1>3, Zenon
  <2>2. Fit(l[i + 1], u, ms) /\ (n = 0 => Announced(l, i + 1, ba))
    BY <2>1, Zenon DEF Ready
  <2>3. ASSUME n = 0, NEW a \in Named(t[i])
        PROVE  \/ <<a, t[i].method.hash, t[i].method.file, t[i].version>> \in ba
               \/ \E j \in 1..(i - 1) : Relates(t[j], a, t[i])
    <3>1. \/ <<a, t[i].method.hash, t[i].method.file, t[i].version>> \in ba
          \/ \E j \in 1..((i + 1) - 1) : Relates(l[j], a, l[i + 1])
      BY <2>1, <2>2, <2>3, Zenon DEF Announced
    <3>2. ASSUME NEW j \in 1..((i + 1) - 1), Relates(l[j], a, l[i + 1])
          PROVE  \/ <<a, t[i].method.hash, t[i].method.file, t[i].version>> \in ba
                 \/ \E x \in 1..(i - 1) : Relates(t[x], a, t[i])
      <4>1. CASE j = 1
        <5>1. Head(l).op = "author" /\ Head(l).author = a /\ Head(l).method = t[i].method
          BY <1>3, <2>1, <3>2, <4>1, Zenon DEF Relates
        <5>2. Head(l).version = t[i].version
          <6>1. 1 \in 1..Len(l)
            BY <1>3
          <6> QED BY <1>2, <1>3, <2>1, <6>1, Zenon
        <5> QED BY <2>3, <5>1, <5>2, Zenon
      <4>2. CASE j # 1
        <5> DEFINE x == j - 1
        <5>1. x \in 1..(i - 1) /\ x \in 1..Len(t) /\ x + 1 = j
          BY <1>3, <4>2
        <5> HIDE DEF x
        <5>2. t[x] = l[j]
          BY <1>3, <5>1, Zenon
        <5> QED BY <2>1, <3>2, <5>1, <5>2, Zenon
      <4> QED BY <4>1, <4>2
    <3> QED BY <3>1, <3>2, Zenon
  <2> QED BY <2>1, <2>2, <2>3, Zenon DEF Announced
<1>5. Ready(t, u, ms, ba, n)
  BY <1>4, Zenon DEF Ready
<1> QED BY <1>5 DEF t

\* The authors of the rows after a statement that did not fail.
LEMMA RowsIndexed ==
  ASSUME methods \subseteq Row, NEW u, u.version \in Version, u.prev \in 0..MaxVersion, u.prev < u.version,
         NEW ms, NEW s \in Statement(u.version, u.prev, ms), NEW o,
         Related(s, o) \/ Failed(s) \/ Inserted(s) \/ Updated(s),
         byAuthor \subseteq Author \X Hash \X File \X Version,
         Fit(s, u, methods),
         \A a \in Named(s) : <<a, s.method.hash, s.method.file, s.version>> \in byAuthor,
         \A r \in methods : RowIndexed(r, byAuthor)
  PROVE  \A r \in methods' : RowIndexed(r, byAuthor')
<1>1. byAuthor \subseteq byAuthor'
  BY Zenon DEF Related, Failed, Inserted, Updated
<1>2. \A r \in methods : RowIndexed(r, byAuthor')
  BY <1>1, Zenon DEF RowIndexed
<1>3. /\ s.version = u.version
      /\ (s.op = "update" => s.start \in 1..u.prev)
  BY StatementKinds
<1>4. \A x, y, z, w : <<x, y, z, w>>[1] = x /\ <<x, y, z, w>>[2] = y /\ <<x, y, z, w>>[3] = z /\ <<x, y, z, w>>[4] = w
  OBVIOUS
<1>5. u.version <= u.version /\ u.version \in Nat
  BY UploadBounds DEF Version
<1>6. CASE Related(s, o) \/ Failed(s)
  BY <1>2, <1>6, Zenon DEF Related, Failed
<1>7. CASE Inserted(s)
  <2> DEFINE row == InsertRow(s)
  <2>1. /\ row.start = u.version /\ row.end = u.version /\ row.authors = s.authors
        /\ row.hash = s.method.hash /\ row.file = s.method.file
    BY <1>3 DEF InsertRow
  <2> HIDE DEF row
  <2>2. s.op # "author"
    BY <1>7 DEF Inserted
  <2>3. RowIndexed(row, byAuthor')
    <3> SUFFICES ASSUME NEW a \in row.authors
                 PROVE  \E e \in byAuthor' : e[1] = a /\ e[2] = row.hash /\ e[3] = row.file
                                             /\ row.start <= e[4] /\ e[4] <= row.end
      BY Zenon DEF RowIndexed
    <3> DEFINE e == <<a, s.method.hash, s.method.file, s.version>>
    <3>1. e \in byAuthor'
      BY <1>1, <2>1, <2>2, Zenon DEF Named
    <3>2. e[1] = a /\ e[2] = row.hash /\ e[3] = row.file /\ e[4] = u.version
      BY <1>3, <1>4, <2>1, Zenon
    <3> HIDE DEF e
    <3> QED BY <1>5, <2>1, <3>1, <3>2, Zenon
  <2>4. methods' = {r \in methods : Key(r) # Key(row)} \cup {row}
    BY <1>7, Zenon DEF Inserted, Upsert, row
  <2> QED BY <1>2, <2>3, <2>4, Zenon
<1>8. CASE Updated(s)
  <2>1. methods' = Extended(KeyOf(s), u.version, s.authors) /\ s.op = "update"
    BY <1>3, <1>8, Zenon DEF Updated
  <2>2. s.op # "author"
    BY <2>1
  <2> SUFFICES ASSUME NEW q \in methods' PROVE RowIndexed(q, byAuthor')
    OBVIOUS
  <2>3. PICK r \in methods : Became(r, q, KeyOf(s), u.version, s.authors)
    BY <2>1, ExtendedRow
  <2>4. CASE Key(r) # KeyOf(s)
    <3>1. q = r
      BY <2>3, <2>4, Zenon DEF Became
    <3> QED BY <1>2, <3>1, Zenon
  <2>5. CASE Key(r) = KeyOf(s)
    <3>1. /\ q.end = u.version /\ q.authors = r.authors \cup s.authors /\ q.start = r.start
          /\ q.hash = r.hash /\ q.file = r.file
      BY <2>3, <2>5, Zenon DEF Became
    <3>2. r.hash = s.method.hash /\ r.file = s.method.file /\ r.start = s.start
      BY <2>5 DEF Key, KeyOf
    <3>3. r.end <= u.version
      BY <2>1, <2>5, Zenon DEF Fit
    <3>4. r.start \in Nat /\ r.end \in Nat /\ r.start <= u.version
      <4>1. r \in Row
        OBVIOUS
      <4>2. r.start \in Nat /\ r.end \in Nat
        BY <4>1, UploadBounds DEF Row, Version
      <4>3. r.start \in 1..u.prev
        BY <1>3, <2>1, <3>2, Zenon
      <4> QED BY <4>2, <4>3, <1>5
    <3> SUFFICES ASSUME NEW a \in q.authors
                 PROVE  \E e \in byAuthor' : e[1] = a /\ e[2] = q.hash /\ e[3] = q.file
                                             /\ q.start <= e[4] /\ e[4] <= q.end
      BY Zenon DEF RowIndexed
    <3>5. CASE a \in r.authors
      <4>1. PICK e \in byAuthor : /\ e[1] = a /\ e[2] = r.hash /\ e[3] = r.file
                                  /\ r.start <= e[4] /\ e[4] <= r.end
        BY <3>5, Zenon DEF RowIndexed
      <4>2. e[4] \in Nat
        <5>1. e \in Author \X Hash \X File \X Version
          OBVIOUS
        <5>2. e[4] \in Version
          BY <5>1
        <5> QED BY <5>2, UploadBounds DEF Version
      <4>3. e[4] <= u.version
        BY <1>5, <3>3, <3>4, <4>1, <4>2
      <4> QED BY <1>1, <3>1, <4>1, <4>3, Zenon
    <3>6. CASE a \in s.authors
      <4> DEFINE e == <<a, s.method.hash, s.method.file, s.version>>
      <4>1. e \in byAuthor'
        BY <1>1, <2>2, <3>6, Zenon DEF Named
      <4>2. e[1] = a /\ e[2] = q.hash /\ e[3] = q.file /\ e[4] = u.version
        BY <1>3, <1>4, <3>1, <3>2, Zenon
      <4> HIDE DEF e
      <4> QED BY <1>5, <3>1, <3>4, <4>1, <4>2, Zenon
    <3> QED BY <3>1, <3>5, <3>6, Zenon
  <2> QED BY <2>4, <2>5
<1> QED BY <1>6, <1>7, <1>8, Zenon

LEMMA HappensCounts ==
  ASSUME faults \in 0..MaxFaults, NEW o, Happens(o)
  PROVE  (faults' = 0 => faults = 0) /\ (faults' = 0 => o = "ok")
<1>1. CASE o = "ok"
  BY <1>1, Zenon DEF Happens
<1>2. CASE o # "ok"
  <2>1. faults' = faults + 1
    BY <1>2, Zenon DEF Happens
  <2>2. faults' # 0
    BY <2>1
  <2> QED BY <2>2
<1> QED BY <1>1, <1>2

LEMMA AfterAttemptTodo ==
  ASSUME NEW c, NEW e, NEW v, NEW p, NEW ms, NEW E, NEW me \in Thread(v, p, ms, E)
  PROVE  AfterAttempt(c, me, e).todo = <<>>
<1> DEFINE n == me.tries + 1
           a == [me EXCEPT !.pc = "select", !.todo = <<>>, !.tries = n, !.errno = e]
           b == [me EXCEPT !.pc = "ended", !.todo = <<>>, !.errno = e, !.got = <<>>]
           d == [me EXCEPT !.pc = "take", !.todo = <<>>, !.errno = e, !.got = @ \o me.found, !.found = <<>>]
<1>1. AfterAttempt(c, me, e) = a \/ AfterAttempt(c, me, e) = b \/ AfterAttempt(c, me, e) = d
  BY Zenon DEF AfterAttempt
<1>2. a.todo = <<>> /\ b.todo = <<>> /\ d.todo = <<>>
  BY DEF Thread
<1> HIDE DEF a, b, d
<1> QED BY <1>1, <1>2, Zenon

LEMMA HandleLists ==
  ASSUME OneUploader, UploadInv, ListInv, NEW c \in Conn, Receive(c) \/ Handle(c)
  PROVE  ListInv'
<1>0. faults \in 0..MaxFaults
  BY Parts
<1>1. CASE Receive(c) \/ Check(c) \/ ParseMethods(c)
  <2>1. /\ up[c].phase \in {"idle", "check", "parse"} /\ worker' = worker /\ faults' = faults
        /\ methods' = methods /\ byAuthor' = byAuthor
    BY <1>1, Zenon DEF Receive, Check, ParseMethods, tables
  <2>2. up[c].phase \notin {"methods", "files"}
    BY <2>1
  <2> QED BY <2>1, <2>2, HandlerLists
<1>2. CASE SearchPrevious(c) \/ AddProject(c) \/ AddHashes(c)
  <2>1. /\ up[c].phase \in {"search", "insert", "extend", "unchanged"} /\ worker' = worker
        /\ methods' = methods /\ byAuthor' = byAuthor /\ \E o : Happens(o)
    BY <1>2, Zenon DEF SearchPrevious, AddProject, AddHashes, tables
  <2>2. up[c].phase \notin {"methods", "files"}
    BY <2>1
  <2>3. faults' = 0 => faults = 0
    BY <1>0, <2>1, HappensCounts
  <2> QED BY <2>1, <2>2, <2>3, HandlerLists
<1>3. CASE StartUpload(c) \/ JoinUpload(c) \/ JoinUnchanged(c)
  <2> DEFINE t == [NoWorker EXCEPT !.pc = "take"]
  <2>1. t.todo = <<>> /\ NoWorker.todo = <<>>
    BY DEF NoWorker
  <2> HIDE DEF t
  <2>2. /\ methods' = methods /\ byAuthor' = byAuthor /\ faults' = faults
        /\ \/ worker' = [d \in Conn |-> [w \in Worker |-> NoWorker]]
           \/ worker' = [worker EXCEPT ![c] = [w \in Worker |-> NoWorker]]
           \/ worker' = [worker EXCEPT ![c] = [w \in Worker |-> t]]
    BY <1>3, Zenon DEF StartUpload, JoinUpload, JoinUnchanged, Stop, tables, t
  <2>3. worker = [d \in Conn |-> [w \in Worker |-> worker[d][w]]]
    BY Parts, Zenon DEF Threads
  <2>4. \A w \in Worker : worker'[c][w] = NoWorker \/ worker'[c][w] = t
    BY <2>2, <2>3
  <2>5. \A d \in Conn : \A w \in Worker : worker'[d][w].todo = <<>>
    BY <2>1, <2>4, Zenon DEF OneUploader
  <2> QED BY <2>2, <2>5, NoLists
<1> QED BY <1>1, <1>2, <1>3, Zenon DEF Handle

LEMMA TakeItemLists ==
  ASSUME OneUploader, UploadInv, ListInv, NEW c \in Conn, NEW k \in Worker, TakeItem(c, k)
  PROVE  ListInv'
<1> DEFINE me == worker[c][k]
           u == up[c]
           i == Head(u.queue)
           a == [me EXCEPT !.pc = "ended"]
           b == [me EXCEPT !.pc = "select", !.item = i, !.tries = 0, !.errno = FALSE]
<1>1. /\ me.pc = "take" /\ faults' = faults /\ methods' = methods /\ byAuthor' = byAuthor
      /\ \/ Set(c, k, a) /\ up' = up
         \/ Set(c, k, b) /\ up' = [up EXCEPT ![c].queue = Tail(@)]
  BY Zenon DEF TakeItem, tables
<1>2. me.pc # "idle"
  BY <1>1
<1>3. me \in Thread(u.version, u.prev, content[u.version], Entry(u)) /\ u \in Upload(Entry(u))
  BY <1>2, WorkerAt, Zenon
<1>4. a.todo = me.todo /\ b.todo = me.todo
  BY <1>3 DEF Thread
<1> HIDE DEF a, b
<1>5. up'[c].prev = u.prev /\ up'[c].version = u.version
  <2>1. up = [d \in Conn |-> up[d]]
    BY Parts
  <2>2. CASE up' = up
    BY <2>2, Zenon
  <2>3. CASE up' = [up EXCEPT ![c].queue = Tail(@)]
    <3>1. up'[c] = [u EXCEPT !.queue = Tail(@)]
      BY <2>1, <2>3
    <3> QED BY <1>3, <3>1 DEF Upload
  <2> QED BY <1>1, <2>2, <2>3, Zenon
<1>6. Ready(me.todo, u, methods, byAuthor, faults')
  BY <1>1, Zenon DEF ListInv, Lists
<1>7. PICK t : Set(c, k, t) /\ t.todo = me.todo
  BY <1>1, <1>4, Zenon
<1>8. Ready(t.todo, u, methods, byAuthor, faults')
  BY <1>6, <1>7, Zenon
<1> QED BY <1>1, <1>5, <1>7, <1>8, SelfLists

LEMMA SelectLists ==
  ASSUME OneUploader, UploadInv, ListInv, NEW c \in Conn, NEW k \in Worker,
         worker[c][k].pc # "idle", NEW o, Happens(o), up' = up,
         methods' = methods, byAuthor' = byAuthor, NEW t, Set(c, k, t),
         NEW rows \in SUBSET methods, \A r \in rows : r.end = up[c].prev, NEW S,
         t.todo = <<>> \/ t.todo \in Grouped(About(rows, S))
  PROVE  ListInv'
<1>1. faults' = 0 => faults = 0
  BY Parts, HappensCounts
<1> DEFINE u == up[c]
           l == t.todo
<1>2. u.prev \in Nat /\ u.version \in Nat /\ u.prev < u.version
  <2>1. u.version \in Version /\ u.prev \in 0..MaxVersion /\ u.prev < u.version
    BY WorkerAt
  <2> QED BY <2>1, UploadBounds DEF Version
<1>3. Keyed(methods)
  BY Zenon DEF ListInv
<1>4. CASE l = <<>>
  <2>1. Ready(<<>>, u, methods, byAuthor, faults')
    BY ReadyEmpty
  <2>2. Ready(l, u, methods, byAuthor, faults')
    BY <1>4, <2>1, Zenon
  <2> QED BY <1>1, <2>2, SelfLists, Zenon
<1>5. CASE l \in Grouped(About(rows, S))
  <2> HIDE DEF u, l
  <2>0. \A r \in rows : r.end = u.prev
    BY DEF u
  <2>1. Ready(l, u, methods, byAuthor, faults')
    BY <1>2, <1>3, <1>5, <2>0, ReadyList
  <2> QED BY <1>1, <2>1, SelfLists, Zenon DEF u, l
<1> QED BY <1>4, <1>5

LEMMA SelectMethodLists ==
  ASSUME OneUploader, UploadInv, ListInv, NEW c \in Conn, NEW k \in Worker, SelectMethod(c, k)
  PROVE  ListInv'
<1> DEFINE me == worker[c][k]
           u == up[c]
           ms == content[u.version]
           rows == RowsToExtend({me.item.hash}, {me.item.file}, u.prev)
           S == Statement(u.version, u.prev, ms)
<1>1. /\ me.pc = "select" /\ u.phase = "methods" /\ up' = up
      /\ methods' = methods /\ byAuthor' = byAuthor
  BY Zenon DEF SelectMethod, tables, clients
<1>2. PICK o : /\ Happens(o)
               /\ Set(c, k, [me EXCEPT !.pc = "write", !.todo = MethodList(u, me.item, o)])
  BY Zenon DEF SelectMethod, MethodList
<1>3. me.pc # "idle" /\ me.pc \in {"select", "write"}
  BY <1>1
<1>4. /\ Busy(u, me, content) /\ ms \in SUBSET Method
      /\ u.as \in SUBSET Author /\ IsFiniteSet(u.as)
      /\ me \in Thread(u.version, u.prev, ms, Entry(u))
  BY <1>3, WorkerAt, Zenon
<1>5. me.item \in ms
  BY <1>1, <1>3, <1>4, Zenon DEF Busy
<1> DEFINE l == MethodList(u, me.item, o)
           t == [me EXCEPT !.pc = "write", !.todo = l]
<1>6. l \in Grouped(About(rows, S))
  BY <1>4, <1>5, MethodListType, Parts
<1>7. rows \in SUBSET methods /\ \A r \in rows : r.end = u.prev
  BY DEF RowsToExtend
<1> HIDE DEF l
<1>8. Set(c, k, t) /\ t.todo = l
  <2>1. t.todo = l
    BY <1>4 DEF Thread
  <2> QED BY <1>2, <2>1, Zenon DEF l
<1> HIDE DEF t, rows, S
<1>9. t.todo = <<>> \/ t.todo \in Grouped(About(rows, S))
  BY <1>6, <1>8, Zenon
<1> QED BY <1>1, <1>2, <1>3, <1>7, <1>8, <1>9, SelectLists

LEMMA SelectUnchangedLists ==
  ASSUME OneUploader, UploadInv, ListInv, NEW c \in Conn, NEW k \in Worker, SelectUnchanged(c, k)
  PROVE  ListInv'
<1> DEFINE me == worker[c][k]
           u == up[c]
           ms == content[u.version]
           S == Statement(u.version, u.prev, ms)
           rows == RowsToExtend(Range(me.item[1]), Range(me.item[2]), u.prev)
           hs == [i \in 1..Cardinality(rows) |-> SetToSeq(rows)[i].hash]
           l == Updates(rows, u.version, {})
           b == [me EXCEPT !.found = <<>>]
           d == [me EXCEPT !.pc = "write", !.todo = l, !.found = hs]
<1>1. /\ me.pc = "select" /\ u.phase = "files" /\ up' = up
      /\ methods' = methods /\ byAuthor' = byAuthor
  BY Zenon DEF SelectUnchanged, tables, clients
<1>2. PICK o : /\ Happens(o)
               /\ \/ Set(c, k, AfterAttempt(c, b, TRUE))
                  \/ Set(c, k, AfterAttempt(c, b, FALSE))
                  \/ rows # {} /\ Set(c, k, d)
  BY Zenon DEF SelectUnchanged
<1>3. me.pc # "idle" /\ me.pc \in {"select", "write"} /\ u.phase \in {"files", "unchanged"}
  BY <1>1
<1>4. /\ Busy(u, me, content) /\ ms \in SUBSET Method /\ Truthful(u, content, projects)
      /\ me \in Thread(u.version, u.prev, ms, Entry(u))
  BY <1>3, WorkerAt, Zenon
<1>5. me.item \in Seq(Hash) \X Seq(u.files)
  BY <1>1, <1>3, <1>4, Zenon DEF Busy, Entry
<1>6. \A r \in rows : r \in methods /\ r.end = u.prev /\ AsMethod(r) \in ms
  <2> DEFINE i == me.item
  <2> HIDE DEF i
  <2>1. i \in Seq(Hash) \X Seq(u.files)
    BY <1>5 DEF i
  <2>2. \A r \in RowsToExtend(Range(i[1]), Range(i[2]), u.prev) :
           r \in methods /\ r.end = u.prev /\ AsMethod(r) \in ms
    <3> HIDE DEF u
    <3> QED BY <1>4, <2>1, Parts, UnchangedRows
  <2> QED BY <2>2, Zenon DEF i
<1> HIDE DEF rows
<1>7. rows \in SUBSET methods /\ \A r \in rows : r.end = u.prev
  BY <1>6
<1>8. b \in Thread(u.version, u.prev, ms, Entry(u))
  <2>1. Busy(u, b, content)
    <3> HIDE DEF u, me
    <3> QED BY <1>3, <1>4, FoundBusy
  <2> HIDE DEF b
  <2> QED BY <2>1, Zenon DEF Busy
<1> HIDE DEF b
<1>9. \E t : Set(c, k, t) /\ (t.todo = <<>> \/ t.todo \in Grouped(About(rows, S)))
  <2>1. ASSUME NEW e \in BOOLEAN, Set(c, k, AfterAttempt(c, b, e))
        PROVE  \E t : Set(c, k, t) /\ (t.todo = <<>> \/ t.todo \in Grouped(About(rows, S)))
    <3>1. AfterAttempt(c, b, e).todo = <<>>
      BY <1>8, AfterAttemptTodo
    <3> QED BY <2>1, <3>1, Zenon
  <2>2. ASSUME rows # {}, Set(c, k, d)
        PROVE  \E t : Set(c, k, t) /\ (t.todo = <<>> \/ t.todo \in Grouped(About(rows, S)))
    <3>1. {} \in SUBSET Author /\ IsFiniteSet({})
      BY FS_EmptySet
    <3>2. l \in Grouped(About(rows, S))
      BY <1>6, <1>7, <2>2, <3>1, Parts, UpdatesType
    <3> HIDE DEF l, hs
    <3>3. d.todo = l
      BY <1>4 DEF Thread
    <3> HIDE DEF d
    <3> QED BY <2>2, <3>2, <3>3, Zenon
  <2> QED BY <1>2, <2>1, <2>2, Zenon
<1>10. PICK t : Set(c, k, t) /\ (t.todo = <<>> \/ t.todo \in Grouped(About(rows, S)))
  BY <1>9
<1> HIDE DEF S
<1> QED BY <1>1, <1>2, <1>3, <1>7, <1>10, SelectLists

\* A worker and the statement it sends.
LEMMA ExecuteFacts ==
  ASSUME UploadInv, NEW c \in Conn, NEW k \in Worker, Execute(c, k)
  PROVE  \E o :
           LET me == worker[c][k]
               u  == up[c]
               S  == Statement(u.version, u.prev, content[u.version])
               s  == Head(me.todo)
           IN  /\ Happens(o) /\ s \in S /\ me.todo \in Seq(S) /\ Len(me.todo) # 0
               /\ Related(s, o) \/ Failed(s) \/ Inserted(s) \/ Updated(s)
               /\ \E t : Set(c, k, t) /\ (t.todo = <<>> \/ t.todo = Tail(me.todo))
               /\ u.version \in Version /\ u.prev \in 0..MaxVersion /\ u.prev < u.version
               /\ u.phase \in {"methods", "files"} /\ u.bad = FALSE
               /\ content[u.version] \in SUBSET Method /\ projects[u.version] # None
               /\ up' = up /\ content' = content /\ acked' = acked
<1> DEFINE me == worker[c][k]
           u == up[c]
           ms == content[u.version]
           S == Statement(u.version, u.prev, ms)
           s == Head(me.todo)
<1>1. me.pc = "write" /\ up' = up /\ content' = content /\ acked' = acked
  BY Zenon DEF Execute, clients
<1>2. PICK o : /\ Happens(o) /\ Write(s, o)
               /\ \/ Set(c, k, [me EXCEPT !.todo = Tail(@), !.errno = Errno(s, me.errno, o)])
                  \/ Set(c, k, AfterAttempt(c, me, Errno(s, me.errno, o)))
  BY Zenon DEF Execute
<1>3. me.pc # "idle" /\ me.pc \in {"select", "write"}
  BY <1>1
<1>4. /\ Busy(u, me, content) /\ ms \in SUBSET Method /\ Request(u, content, projects)
      /\ me \in Thread(u.version, u.prev, ms, Entry(u)) /\ u.phase \in {"methods", "files"}
      /\ u.prev < u.version /\ u.version \in Version /\ u.prev \in 0..MaxVersion
      /\ projects[u.version] # None
  BY <1>3, WorkerAt, Zenon
<1>5. u.bad = FALSE
  <2>1. u.phase \notin {"check", "search", "parse"}
    BY <1>4
  <2> QED BY <1>4, <2>1, Zenon DEF Request
<1>6. Len(me.todo) # 0
  BY <1>1, <1>4, Zenon DEF Busy
<1>7. me.todo \in Seq(S)
  BY <1>4 DEF Thread
<1>8. s \in S
  <2> HIDE DEF S
  <2> QED BY <1>6, <1>7
<1>9. Related(s, o) \/ Failed(s) \/ Inserted(s) \/ Updated(s)
  <2> HIDE DEF s
  <2> QED BY <1>2, <1>8, WriteKinds
<1> DEFINE e == Errno(s, me.errno, o)
           b == [me EXCEPT !.todo = Tail(@), !.errno = e]
<1>10. AfterAttempt(c, me, e).todo = <<>>
  <2> HIDE DEF e
  <2> QED BY <1>4, AfterAttemptTodo
<1>11. b.todo = Tail(me.todo)
  <2> HIDE DEF e
  <2> QED BY <1>4 DEF Thread
<1>12. \E t : Set(c, k, t) /\ (t.todo = <<>> \/ t.todo = Tail(me.todo))
  <2> HIDE DEF s
  <2> QED BY <1>2, <1>10, <1>11, Zenon
<1> QED BY <1>1, <1>2, <1>4, <1>5, <1>6, <1>7, <1>8, <1>9, <1>12, Zenon

LEMMA ExecuteLists ==
  ASSUME OneUploader, UploadInv, ListInv, NEW c \in Conn, NEW k \in Worker, Execute(c, k)
  PROVE  ListInv'
<1> DEFINE me == worker[c][k]
           u == up[c]
           S == Statement(u.version, u.prev, content[u.version])
           s == Head(me.todo)
<1>1. PICK o :
        /\ Happens(o) /\ s \in S /\ me.todo \in Seq(S) /\ Len(me.todo) # 0
        /\ Related(s, o) \/ Failed(s) \/ Inserted(s) \/ Updated(s)
        /\ \E t : Set(c, k, t) /\ (t.todo = <<>> \/ t.todo = Tail(me.todo))
        /\ u.version \in Version /\ u.prev \in 0..MaxVersion /\ u.prev < u.version
        /\ u.phase \in {"methods", "files"} /\ u.bad = FALSE
        /\ content[u.version] \in SUBSET Method /\ projects[u.version] # None
        /\ up' = up /\ content' = content /\ acked' = acked
  BY ExecuteFacts
<1>2. PICK t : Set(c, k, t) /\ (t.todo = <<>> \/ t.todo = Tail(me.todo))
  BY <1>1, Zenon
<1>3. (faults' = 0 => faults = 0) /\ (faults' = 0 => o = "ok")
  BY <1>1, Parts, HappensCounts
<1>4. methods \subseteq Row /\ byAuthor \subseteq Author \X Hash \X File \X Version
  BY Parts, Zenon DEF Tables
<1>5. /\ Keyed(methods) /\ (faults = 0 => \A r \in methods : RowIndexed(r, byAuthor))
      /\ \A w \in Worker : Ready(worker[c][w].todo, u, methods, byAuthor, faults)
  BY Zenon DEF ListInv, Lists
<1>6. Keyed(methods')
  <2>1. CASE Related(s, o) \/ Failed(s)
    BY <1>5, <2>1, Zenon DEF Related, Failed
  <2>2. CASE Inserted(s)
    <3>1. methods' = Upsert(InsertRow(s))
      BY <2>2, Zenon DEF Inserted
    <3>2. Keyed(Upsert(InsertRow(s)))
      BY <1>5, KeyedUpsert
    <3> QED BY <3>1, <3>2, Zenon
  <2>3. CASE Updated(s)
    <3>1. methods' = Extended(KeyOf(s), s.version, s.authors)
      BY <2>3, Zenon DEF Updated
    <3>2. Keyed(Extended(KeyOf(s), s.version, s.authors))
      BY <1>4, <1>5, KeyedExtended
    <3> QED BY <3>1, <3>2, Zenon
  <2> QED BY <1>1, <2>1, <2>2, <2>3, Zenon
<1> HIDE DEF s
<1>7. ASSUME NEW l \in Seq(S), Ready(l, u, methods, byAuthor, faults)
      PROVE  Ready(l, u, methods', byAuthor', faults')
  <2> HIDE DEF u
  <2> QED BY <1>1, <1>3, <1>4, <1>7, ReadyWrites
<1>8. Ready(me.todo, u, methods', byAuthor', faults')
  BY <1>1, <1>5, <1>7, Zenon
<1>9. Ready(t.todo, u, methods', byAuthor', faults')
  <2>1. CASE t.todo = <<>>
    <3>1. Ready(<<>>, u, methods', byAuthor', faults')
      BY ReadyEmpty
    <3> QED BY <2>1, <3>1, Zenon
  <2>2. CASE t.todo = Tail(me.todo)
    <3>1. o = "ok" /\ s.op = "author" =>
             <<s.author, s.method.hash, s.method.file, s.version>> \in byAuthor'
      <4>1. s.op = "author" => s.op # "insert" /\ s.op # "update"
        OBVIOUS
      <4> QED BY <1>1, <4>1, Zenon DEF Related, Failed, Inserted, Updated
    <3>2. faults' = 0 /\ s.op = "author" =>
             <<s.author, s.method.hash, s.method.file, s.version>> \in byAuthor'
      BY <1>3, <3>1, Zenon
    <3> DEFINE l == me.todo
    <3> HIDE DEF l
    <3>3. l \in Seq(S) /\ Len(l) # 0 /\ Ready(l, u, methods', byAuthor', faults')
      BY <1>1, <1>8 DEF l
    <3>4. faults' = 0 /\ Head(l).op = "author" =>
             <<Head(l).author, Head(l).method.hash, Head(l).method.file, Head(l).version>> \in byAuthor'
      BY <3>2, Zenon DEF s, l
    <3> HIDE DEF u
    <3>5. Ready(Tail(l), u, methods', byAuthor', faults')
      BY <3>3, <3>4, ReadyTail
    <3> QED BY <2>2, <3>5, Zenon DEF l
  <2> QED BY <1>2, <2>1, <2>2
<1>10. Lists'
  <2>1. worker = [d \in Conn |-> [w \in Worker |-> worker[d][w]]]
    BY Parts, Zenon DEF Threads
  <2>2. worker' = [worker EXCEPT ![c][k] = t]
    BY <1>2, Zenon DEF Set
  <2>3. worker'[c][k] = t /\ \A w \in Worker : w # k => worker'[c][w] = worker[c][w]
    BY <2>1, <2>2
  <2>4. ASSUME NEW w \in Worker PROVE Ready(worker'[c][w].todo, u, methods', byAuthor', faults')
    <3>1. CASE w = k
      BY <1>9, <2>3, <3>1, Zenon
    <3>2. CASE w # k
      <4>1. worker'[c][w] = worker[c][w]
        BY <2>3, <3>2, Zenon
      <4>2. worker[c][w].todo \in Seq(S)
        <5>1. CASE worker[c][w] = NoWorker
          BY <5>1 DEF NoWorker
        <5>2. CASE Busy(u, worker[c][w], content)
          <6>1. worker[c][w] \in Thread(u.version, u.prev, content[u.version], Entry(u))
            BY <5>2, Zenon DEF Busy
          <6> QED BY <6>1 DEF Thread
        <5> QED BY <5>1, <5>2, Parts, Zenon DEF Threads
      <4>3. Ready(worker[c][w].todo, u, methods', byAuthor', faults')
        BY <1>5, <1>7, <4>2, Zenon
      <4> QED BY <4>1, <4>3, Zenon
    <3> QED BY <3>1, <3>2
  <2>5. up'[c] = u
    BY <1>1, Zenon
  <2> QED BY <2>4, <2>5, Zenon DEF Lists, OneUploader
<1>11. ASSUME faults' = 0 PROVE \A r \in methods' : RowIndexed(r, byAuthor')
  <2>1. \A r \in methods : RowIndexed(r, byAuthor)
    BY <1>3, <1>5, <1>11, Zenon
  <2>2. /\ Len(me.todo) \in Nat /\ s = me.todo[1]
    <3> HIDE DEF S
    <3> QED BY <1>1 DEF s
  <2>3. 1 \in 1..Len(me.todo) /\ 1..(1 - 1) = {}
    BY <1>1, <2>2
  <2>4. Fit(me.todo[1], u, methods) /\ Announced(me.todo, 1, byAuthor)
    BY <1>3, <1>5, <1>11, <2>3, Zenon DEF Ready
  <2>5. Fit(s, u, methods)
    BY <2>2, <2>4, Zenon
  <2>6. \A a \in Named(s) : <<a, s.method.hash, s.method.file, s.version>> \in byAuthor
    BY <2>2, <2>3, <2>4, Zenon DEF Announced
  <2> HIDE DEF u
  <2> QED BY <1>1, <1>4, <2>1, <2>5, <2>6, RowsIndexed
<1> QED BY <1>6, <1>10, <1>11, Zenon DEF ListInv

LEMMA ListStep ==
  ASSUME OneUploader, UploadInv, ListInv, [Next]_vars
  PROVE  ListInv'
<1>1. ASSUME NEW c \in Conn, Receive(c) \/ Handle(c) PROVE ListInv'
  BY <1>1, HandleLists
<1>2. ASSUME NEW c \in Conn, NEW w \in Worker, Work(c, w) PROVE ListInv'
  <2>1. CASE TakeItem(c, w)
    BY <2>1, TakeItemLists
  <2>2. CASE SelectMethod(c, w)
    BY <2>2, SelectMethodLists
  <2>3. CASE SelectUnchanged(c, w)
    BY <2>3, SelectUnchangedLists
  <2>4. CASE Execute(c, w)
    BY <2>4, ExecuteLists
  <2> QED BY <1>2, <2>1, <2>2, <2>3, <2>4, Zenon DEF Work
<1>3. CASE Crash
  <2>1. /\ methods' = methods /\ byAuthor' = byAuthor /\ faults' = faults
        /\ worker' = [c \in Conn |-> [w \in Worker |-> NoWorker]]
    BY <1>3, Zenon DEF Crash, Stop, tables
  <2>2. \A c \in Conn : \A w \in Worker : worker'[c][w] = NoWorker
    BY <2>1
  <2>3. NoWorker.todo = <<>>
    BY DEF NoWorker
  <2>4. \A c \in Conn : \A w \in Worker : worker'[c][w].todo = <<>>
    BY <2>2, <2>3, Zenon
  <2> QED BY <2>1, <2>4, NoLists
<1>4. CASE Restart \/ UNCHANGED vars
  BY <1>4, Zenon DEF Restart, vars, tables, ListInv, Lists
<1> QED BY <1>1, <1>2, <1>3, <1>4, Zenon DEF Next

LEMMA ListInit ==
  ASSUME Init PROVE ListInv
<1>1. /\ methods = {} /\ worker = [c \in Conn |-> [w \in Worker |-> NoWorker]]
  BY Zenon DEF Init
<1>2. \A c \in Conn : \A w \in Worker : worker[c][w] = NoWorker
  BY <1>1
<1>3. NoWorker.todo = <<>>
  BY DEF NoWorker
<1>4. ASSUME NEW c \in Conn, NEW w \in Worker
      PROVE  Ready(worker[c][w].todo, up[c], methods, byAuthor, faults)
  <2>1. worker[c][w].todo = <<>>
    BY <1>2, <1>3, Zenon
  <2>2. Ready(<<>>, up[c], methods, byAuthor, faults)
    BY ReadyEmpty
  <2> QED BY <2>1, <2>2, Zenon
<1> QED BY <1>1, <1>4, Zenon DEF ListInv, Lists, Keyed

LEMMA ListInvariant ==
  ASSUME OneUploader PROVE Spec => []ListInv
<1>1. Init => ListInv
  BY ListInit
<1>2. UploadInv /\ ListInv /\ [Next]_vars => ListInv'
  BY ListStep
<1> QED BY <1>1, <1>2, UploadInvariant, PTL DEF Spec

\* With one uploader at a time and no failed statement, an author a method row names
\* is related to the method at a version the row spans: addNewMethod and updateMethod
\* send addMethodByAuthor first, and neither the other workers nor the end of the
\* process between two statements come in between.
THEOREM AuthorsAlwaysIndexed ==
  ASSUME OneUploader PROVE Spec => []AuthorsIndexed
<1>1. ListInv => AuthorsIndexed
  BY Zenon DEF ListInv, AuthorsIndexed, RowIndexed
<1> QED BY <1>1, ListInvariant, PTL

(***************************************************************************)
(* The same with clients that keep the order                                *)
(***************************************************************************)
\* The fields a handler changes while it goes on with its upload.
LEMMA MovedBy ==
  ASSUME up = [d \in Conn |-> up[d]], NEW c \in Conn, NEW E, up[c] \in Upload(E), NEW a, NEW b, NEW x,
         \/ up' = [up EXCEPT ![c].phase = a]
         \/ up' = [up EXCEPT ![c].index = a]
         \/ up' = [up EXCEPT ![c].queue = a]
         \/ up' = [up EXCEPT ![c].phase = a, ![c].prevHashes = b]
         \/ up' = [up EXCEPT ![c].phase = a, ![c].hashes = b]
         \/ up' = [up EXCEPT ![c].phase = a, ![c].index = b]
         \/ up' = [up EXCEPT ![c].phase = a, ![c].errno = b]
         \/ up' = [up EXCEPT ![c].phase = a, ![c].tries = b]
         \/ up' = [up EXCEPT ![c].phase = a, ![c].queue = b]
         \/ up' = [up EXCEPT ![c].phase = a, ![c].index = b, ![c].hashes = x]
  PROVE  Kept(up'[c], up[c])
<1> DEFINE u == up[c]
<1>0. u \in Upload(E)
  OBVIOUS
<1>1. CASE up' = [up EXCEPT ![c].phase = a]
  <2>1. up'[c] = [u EXCEPT !.phase = a]
    BY <1>1
  <2> QED BY <1>0, <2>1 DEF Upload, Kept
<1>2. CASE up' = [up EXCEPT ![c].index = a]
  <2>1. up'[c] = [u EXCEPT !.index = a]
    BY <1>2
  <2> QED BY <1>0, <2>1 DEF Upload, Kept
<1>3. CASE up' = [up EXCEPT ![c].queue = a]
  <2>1. up'[c] = [u EXCEPT !.queue = a]
    BY <1>3
  <2> QED BY <1>0, <2>1 DEF Upload, Kept
<1>4. CASE up' = [up EXCEPT ![c].phase = a, ![c].prevHashes = b]
  <2>1. up'[c] = [u EXCEPT !.phase = a, !.prevHashes = b]
    BY <1>4
  <2> QED BY <1>0, <2>1 DEF Upload, Kept
<1>5. CASE up' = [up EXCEPT ![c].phase = a, ![c].hashes = b]
  <2>1. up'[c] = [u EXCEPT !.phase = a, !.hashes = b]
    BY <1>5
  <2> QED BY <1>0, <2>1 DEF Upload, Kept
<1>6. CASE up' = [up EXCEPT ![c].phase = a, ![c].index = b]
  <2>1. up'[c] = [u EXCEPT !.phase = a, !.index = b]
    BY <1>6
  <2> QED BY <1>0, <2>1 DEF Upload, Kept
<1>7. CASE up' = [up EXCEPT ![c].phase = a, ![c].errno = b]
  <2>1. up'[c] = [u EXCEPT !.phase = a, !.errno = b]
    BY <1>7
  <2> QED BY <1>0, <2>1 DEF Upload, Kept
<1>8. CASE up' = [up EXCEPT ![c].phase = a, ![c].tries = b]
  <2>1. up'[c] = [u EXCEPT !.phase = a, !.tries = b]
    BY <1>8
  <2> QED BY <1>0, <2>1 DEF Upload, Kept
<1>9. CASE up' = [up EXCEPT ![c].phase = a, ![c].queue = b]
  <2>1. up'[c] = [u EXCEPT !.phase = a, !.queue = b]
    BY <1>9
  <2> QED BY <1>0, <2>1 DEF Upload, Kept
<1>10. CASE up' = [up EXCEPT ![c].phase = a, ![c].index = b, ![c].hashes = x]
  <2>1. up'[c] = [u EXCEPT !.phase = a, !.index = b, !.hashes = x]
    BY <1>10
  <2> QED BY <1>0, <2>1 DEF Upload, Kept
<1> QED BY <1>1, <1>2, <1>3, <1>4, <1>5, <1>6, <1>7, <1>8, <1>9, <1>10

\* What a step of the handler of c may change.
Moved(c) ==
  /\ content' = content /\ methods' = methods /\ up[c].phase # "idle"
  /\ up'[c] = Idle \/ Kept(up'[c], up[c])
  /\ acked' = acked \/ (up[c].phase \in Stored /\ acked' = acked \cup {up[c].version})
  /\ \A v \in Version : /\ projects[v] # None => projects'[v] # None
                        /\ v # up[c].version => projects'[v] = projects[v]
  /\ up[c].bad = FALSE \/ projects' = projects

LEMMA ReplyMoves ==
  ASSUME up = [d \in Conn |-> up[d]], NEW c \in Conn, NEW code, Reply(c, code)
  PROVE  /\ up'[c] = Idle /\ content' = content
         /\ acked' = acked \/ (code = "success" /\ acked' = acked \cup {up[c].version})
<1>1. /\ up' = [up EXCEPT ![c] = Idle] /\ content' = content
      /\ acked' = acked \/ (code = "success" /\ acked' = acked \cup {up[c].version})
  BY Zenon DEF Reply
<1>2. up'[c] = Idle
  BY <1>1
<1> QED BY <1>1, <1>2, Zenon

LEMMA ErrorMoves ==
  ASSUME up = [d \in Conn |-> up[d]], NEW c \in Conn, Reply(c, "client") \/ Reply(c, "server")
  PROVE  up'[c] = Idle /\ content' = content /\ acked' = acked
<1>1. "client" # "success" /\ "server" # "success"
  OBVIOUS
<1>2. CASE Reply(c, "client")
  BY <1>1, <1>2, ReplyMoves
<1>3. CASE Reply(c, "server")
  BY <1>1, <1>3, ReplyMoves
<1> QED BY <1>2, <1>3

LEMMA AfterAddProjectMoves ==
  ASSUME up = [d \in Conn |-> up[d]], NEW c \in Conn, NEW E, up[c] \in Upload(E), NEW e, NEW stored,
         AfterAddProject(c, e, stored)
  PROVE  /\ up'[c] = Idle \/ Kept(up'[c], up[c])
         /\ content' = content /\ acked' = acked
<1> DEFINE n == up[c].tries + 1
<1>1. CASE Reply(c, "server")
  BY <1>1, ErrorMoves
<1>2. CASE ~Reply(c, "server")
  <2>1. /\ content' = content /\ acked' = acked
        /\ \/ up' = [up EXCEPT ![c].phase = "start", ![c].errno = FALSE]
           \/ up' = [up EXCEPT ![c].phase = "insert", ![c].tries = n]
           \/ up' = [up EXCEPT ![c].phase = "start", ![c].errno = TRUE]
    BY <1>2, Zenon DEF AfterAddProject, clients
  <2> HIDE DEF n
  <2>2. Kept(up'[c], up[c])
    <3>1. CASE up' = [up EXCEPT ![c].phase = "start", ![c].errno = FALSE]
      BY <3>1, MovedBy
    <3>2. CASE up' = [up EXCEPT ![c].phase = "insert", ![c].tries = n]
      BY <3>2, MovedBy
    <3>3. CASE up' = [up EXCEPT ![c].phase = "start", ![c].errno = TRUE]
      BY <3>3, MovedBy
    <3> QED BY <2>1, <3>1, <3>2, <3>3, Zenon
  <2> QED BY <2>1, <2>2, Zenon
<1> QED BY <1>1, <1>2

LEMMA HandleMoves ==
  ASSUME UploadInv, NEW c \in Conn, Handle(c)
  PROVE  Moved(c)
<1> DEFINE u == up[c]
<1>1. u.phase # "idle"
  <2>1. u.phase \in {"check", "search", "parse", "insert", "extend", "unchanged", "start", "methods", "files"}
    BY Zenon DEF Handle, Check, SearchPrevious, ParseMethods, AddProject, AddHashes, StartUpload,
                 JoinUpload, JoinUnchanged
  <2> QED BY <2>1
<1>2. Request(u, content, projects)
  BY <1>1, Parts
<1>3. u \in Upload(Entry(u)) /\ up = [d \in Conn |-> up[d]]
  BY <1>2, Parts, Zenon DEF Request
<1>4. ASSUME projects' = projects, methods' = methods, content' = content,
             up'[c] = Idle \/ Kept(up'[c], u),
             acked' = acked \/ (u.phase \in Stored /\ acked' = acked \cup {u.version})
      PROVE  Moved(c)
  BY <1>1, <1>4, Zenon DEF Moved
<1>5. CASE Check(c)
  <2>1. /\ projects' = projects /\ methods' = methods
        /\ \/ Reply(c, "client")
           \/ /\ up' = [up EXCEPT ![c].phase = FirstPhase(u.prev)]
              /\ content' = content /\ acked' = acked
    BY <1>5, Zenon DEF Check, tables, clients
  <2>2. CASE Reply(c, "client")
    BY <1>3, <1>4, <2>1, <2>2, ErrorMoves, Zenon
  <2>3. CASE up' = [up EXCEPT ![c].phase = FirstPhase(u.prev)] /\ content' = content /\ acked' = acked
    <3>1. Kept(up'[c], u)
      BY <1>3, <2>3, MovedBy
    <3> QED BY <1>4, <2>1, <2>3, <3>1, Zenon
  <2> QED BY <2>1, <2>2, <2>3, Zenon
<1>6. CASE SearchPrevious(c)
  <2>1. /\ projects' = projects /\ methods' = methods
        /\ \/ Reply(c, "server")
           \/ /\ up' = [up EXCEPT ![c].phase = "parse", ![c].prevHashes = projects[u.prev]]
              /\ content' = content /\ acked' = acked
    BY <1>6, Zenon DEF SearchPrevious, tables, clients
  <2>2. CASE Reply(c, "server")
    BY <1>3, <1>4, <2>1, <2>2, ErrorMoves, Zenon
  <2>3. CASE /\ up' = [up EXCEPT ![c].phase = "parse", ![c].prevHashes = projects[u.prev]]
             /\ content' = content /\ acked' = acked
    <3>1. Kept(up'[c], u)
      BY <1>3, <2>3, MovedBy
    <3> QED BY <1>4, <2>1, <2>3, <3>1, Zenon
  <2> QED BY <2>1, <2>2, <2>3, Zenon
<1>7. CASE ParseMethods(c)
  <2> DEFINE h == [i \in DOMAIN u.sent |-> u.sent[i].hash]
  <2>1. /\ projects' = projects /\ methods' = methods
        /\ \/ Reply(c, "client")
           \/ /\ up' = [up EXCEPT ![c].phase = "insert", ![c].hashes = h]
              /\ content' = content /\ acked' = acked
    BY <1>7, Zenon DEF ParseMethods, tables, clients
  <2> HIDE DEF h
  <2>2. CASE Reply(c, "client")
    BY <1>3, <1>4, <2>1, <2>2, ErrorMoves, Zenon
  <2>3. CASE /\ up' = [up EXCEPT ![c].phase = "insert", ![c].hashes = h]
             /\ content' = content /\ acked' = acked
    <3>1. Kept(up'[c], u)
      BY <1>3, <2>3, MovedBy
    <3> QED BY <1>4, <2>1, <2>3, <3>1, Zenon
  <2> QED BY <2>1, <2>2, <2>3, Zenon
<1>8. ASSUME u.phase \in {"insert", "extend", "unchanged"}, methods' = methods, content' = content,
             up'[c] = Idle \/ Kept(up'[c], u),
             acked' = acked \/ (u.phase \in Stored /\ acked' = acked \cup {u.version}),
             u.version \in Version, content[u.version] # None,
             NEW k \in SUBSET Hash, k \subseteq HashesOf(content[u.version]),
             projects' = projects \/ projects' = [projects EXCEPT ![u.version] = k]
      PROVE  Moved(c)
  <2>1. u.bad = FALSE
    <3>1. u.phase \notin {"check", "search", "parse"}
      BY <1>8
    <3> QED BY <1>2, <3>1, Zenon DEF Request
  <2> DEFINE v == u.version
  <2> HIDE DEF v
  <2>2. /\ v \in Version /\ content[v] # None /\ k \subseteq HashesOf(content[v])
        /\ projects' = projects \/ projects' = [projects EXCEPT ![v] = k]
    BY <1>8, Zenon DEF v
  <2>3. Grown(content, projects, content, projects')
    BY <2>2, RowGrows
  <2>4. \A w \in Version : w # v => projects'[w] = projects[w]
    <3>1. projects \in [Version -> (SUBSET Hash) \cup {None}]
      BY Parts, Zenon DEF Tables
    <3> QED BY <2>2, <3>1
  <2> QED BY <1>1, <1>8, <2>1, <2>3, <2>4, Zenon DEF Moved, Grown, v
<1>9. CASE AddProject(c)
  <2> DEFINE k == HashChunk(c, 0)
  <2>1. /\ u.phase = "insert" /\ methods' = methods
        /\ projects' = projects \/ projects' = [projects EXCEPT ![u.version] = k]
        /\ \/ /\ up' = [up EXCEPT ![c].phase = "extend", ![c].index = HASHES_INSERT_MAX]
              /\ content' = content /\ acked' = acked
           \/ \E e : AfterAddProject(c, e, FALSE)
    BY <1>9, Zenon DEF AddProject, clients
  <2>2. u.phase \in {"insert", "extend", "start", "methods", "files", "unchanged"} /\ 0 \in Nat
        /\ u.phase \in {"insert", "extend", "unchanged"}
    BY <2>1
  <2>3. /\ u.version \in Version /\ content[u.version] # None
        /\ k \subseteq HashesOf(content[u.version]) /\ k \in SUBSET Hash
    BY <2>2, HashChunkType
  <2> HIDE DEF k
  <2>4. content' = content /\ acked' = acked /\ (up'[c] = Idle \/ Kept(up'[c], u))
    <3>1. CASE /\ up' = [up EXCEPT ![c].phase = "extend", ![c].index = HASHES_INSERT_MAX]
               /\ content' = content /\ acked' = acked
      <4>1. Kept(up'[c], u)
        BY <1>3, <3>1, MovedBy
      <4> QED BY <3>1, <4>1, Zenon
    <3>2. CASE \E e : AfterAddProject(c, e, FALSE)
      <4>1. PICK e : AfterAddProject(c, e, FALSE)
        BY <3>2, Zenon
      <4> QED BY <1>3, <4>1, AfterAddProjectMoves
    <3> QED BY <2>1, <3>1, <3>2, Zenon
  <2> QED BY <1>8, <2>1, <2>2, <2>3, <2>4, Zenon
<1>10. CASE AddHashes(c)
  <2> DEFINE i == u.index + HASHES_INSERT_MAX
  <2>1. /\ u.phase \in {"extend", "unchanged"} /\ methods' = methods
        /\ projects' = projects \/ projects' = WithHashes(u.version, HashChunk(c, u.index))
        /\ \/ /\ up' = [up EXCEPT ![c].index = i]
              /\ content' = content /\ acked' = acked
           \/ \E e : AfterAddProject(c, e, TRUE)
           \/ \E code : Reply(c, code)
    BY <1>10, Zenon DEF AddHashes, clients
  <2> HIDE DEF i
  <2>2. u.phase \in {"insert", "extend", "unchanged"} /\ u.phase \in Stored
    BY <2>1 DEF Stored
  <2>3. u.version \in Version /\ content[u.version] # None
    BY <2>1, HashesWritten, Zenon
  <2>4. PICK k \in SUBSET Hash :
          /\ k \subseteq HashesOf(content[u.version])
          /\ projects' = projects \/ projects' = [projects EXCEPT ![u.version] = k]
    BY <2>1, HashesWritten, Zenon
  <2>5. /\ content' = content /\ (up'[c] = Idle \/ Kept(up'[c], u))
        /\ acked' = acked \/ acked' = acked \cup {u.version}
    <3>1. CASE up' = [up EXCEPT ![c].index = i] /\ content' = content /\ acked' = acked
      <4>1. Kept(up'[c], u)
        BY <1>3, <3>1, MovedBy
      <4> QED BY <3>1, <4>1, Zenon
    <3>2. CASE \E e : AfterAddProject(c, e, TRUE)
      <4>1. PICK e : AfterAddProject(c, e, TRUE)
        BY <3>2, Zenon
      <4> QED BY <1>3, <4>1, AfterAddProjectMoves
    <3>3. CASE \E code : Reply(c, code)
      <4>1. PICK code : Reply(c, code)
        BY <3>3, Zenon
      <4> QED BY <1>3, <4>1, ReplyMoves
    <3> QED BY <2>1, <3>1, <3>2, <3>3, Zenon
  <2> QED BY <1>8, <2>1, <2>2, <2>3, <2>4, <2>5, Zenon
<1>11. CASE StartUpload(c)
  <2>1. /\ projects' = projects /\ methods' = methods /\ content' = content /\ acked' = acked
        /\ \/ up' = [d \in Conn |-> Idle]
           \/ up' = [up EXCEPT ![c].phase = "methods", ![c].queue = u.sent]
    BY <1>11, Zenon DEF StartUpload, Stop, tables, clients
  <2>2. CASE up' = [d \in Conn |-> Idle]
    <3>1. up'[c] = Idle
      BY <2>2
    <3> QED BY <1>4, <2>1, <3>1, Zenon
  <2>3. CASE up' = [up EXCEPT ![c].phase = "methods", ![c].queue = u.sent]
    <3>1. Kept(up'[c], u)
      BY <1>3, <2>3, MovedBy
    <3> QED BY <1>4, <2>1, <3>1, Zenon
  <2> QED BY <2>1, <2>2, <2>3, Zenon
<1>12. CASE JoinUpload(c)
  <2> DEFINE q == HashFileQueue(u.prevHashes, u.files)
  <2>1. /\ projects' = projects /\ methods' = methods /\ u.phase = "methods"
        /\ \/ Reply(c, "success")
           \/ /\ up' = [up EXCEPT ![c].phase = "files", ![c].queue = q]
              /\ content' = content /\ acked' = acked
    BY <1>12, Zenon DEF JoinUpload, tables, clients
  <2> HIDE DEF q
  <2>2. CASE Reply(c, "success")
    <3>1. u.phase \in Stored
      BY <2>1 DEF Stored
    <3> QED BY <1>3, <1>4, <2>1, <2>2, <3>1, ReplyMoves, Zenon
  <2>3. CASE /\ up' = [up EXCEPT ![c].phase = "files", ![c].queue = q]
             /\ content' = content /\ acked' = acked
    <3>1. Kept(up'[c], u)
      BY <1>3, <2>3, MovedBy
    <3> QED BY <1>4, <2>1, <2>3, <3>1, Zenon
  <2> QED BY <2>1, <2>2, <2>3, Zenon
<1>13. CASE JoinUnchanged(c)
  <2> DEFINE h == FlattenSeq([w \in Worker |-> worker[c][w].got])
  <2>1. /\ projects' = projects /\ methods' = methods /\ content' = content /\ acked' = acked
        /\ up' = [up EXCEPT ![c].phase = "unchanged", ![c].index = 0, ![c].hashes = h]
    BY <1>13, Zenon DEF JoinUnchanged, tables, clients
  <2> HIDE DEF h
  <2>2. Kept(up'[c], u)
    BY <1>3, <2>1, MovedBy
  <2> QED BY <1>4, <2>1, <2>2, Zenon
<1> QED BY <1>5, <1>6, <1>7, <1>9, <1>10, <1>11, <1>12, <1>13, Zenon DEF Handle

\* Latest is the newest version that has a project row.
LEMMA LatestIsNewest ==
  ASSUME NEW v \in Version, projects[v] # None
  PROVE  v <= Latest /\ Latest \in Version /\ projects[Latest] # None
<1> DEFINE st == {w \in Version : projects[w] # None}
<1>1. v \in st /\ st # {}
  OBVIOUS
<1>2. st \subseteq Nat /\ \A w \in st : w <= MaxVersion
  BY UploadBounds DEF Version
<1>3. Latest = CHOOSE g \in st : \A w \in st : w <= g
  BY <1>1, Zenon DEF Latest
<1> HIDE DEF st
<1>4. \E g \in st : \A w \in st : w <= g
  <2> DEFINE N == {n \in Nat : \A w \in st : w <= n}
  <2>1. MaxVersion \in N
    BY <1>2, UploadBounds
  <2>2. N \in SUBSET Nat /\ N # {}
    BY <2>1
  <2> HIDE DEF N
  <2>3. PICK g \in N : \A y \in N : g <= y
    BY <2>2, Least
  <2>4. g \in Nat /\ \A w \in st : w <= g
    BY <2>3 DEF N
  <2>5. CASE g \in st
    BY <2>4, <2>5
  <2>6. CASE g \notin st
    <3>1. \A w \in st : w <= g - 1
      BY <1>2, <2>4, <2>6
    <3>2. g >= 1
      BY <1>1, <1>2, <3>1, <2>4
    <3>3. g - 1 \in N
      BY <2>4, <3>1, <3>2 DEF N
    <3> QED BY <2>3, <2>4, <3>3
  <2> QED BY <2>5, <2>6
<1>5. Latest \in st /\ \A w \in st : w <= Latest
  BY <1>3, <1>4, Zenon
<1> QED BY <1>1, <1>5 DEF st

LEMMA ReceiveOrder ==
  ASSUME OneUploader, Orderly, UploadInv, OrderInv, NEW c \in Conn, Receive(c)
  PROVE  OrderInv'
<1>1. PICK v, bad, p, as, now, files, x : Choice(c, v, bad, p, as, now, files, x)
  BY ReceiveChoice
<1>2. /\ v \in Version /\ v \in Sendable /\ bad \in BOOLEAN /\ p \in Previous /\ p < v
      /\ x.version = v /\ x.prev = p /\ x.bad = bad /\ up' = [up EXCEPT ![c] = x]
      /\ content' = (IF bad THEN content ELSE [content EXCEPT ![v] = now])
      /\ acked' = (IF bad THEN acked ELSE acked \ {v})
  BY <1>1, Zenon DEF Choice
<1>3. projects' = projects /\ methods' = methods
  BY Zenon DEF Receive, tables
<1>4. /\ content \in [Version -> (SUBSET Method) \cup {None}] /\ HashesHonest
      /\ up = [d \in Conn |-> up[d]]
  BY Parts
<1>5. content[v] = None /\ \A w \in Version : content[w] # None => w < v
  BY <1>2, Zenon DEF Sendable, Orderly
<1>6. p = 0 \/ p = Latest
  BY <1>2, Zenon DEF Previous, Orderly
<1>7. up'[c] = x
  BY <1>2, <1>4
<1>8. /\ \A w \in Version : w # v => content'[w] = content[w]
      /\ \A w \in Version : content[w] # None => content'[w] = content[w]
  <2>1. CASE bad = TRUE
    BY <1>2, <2>1, Zenon
  <2>2. CASE bad = FALSE
    <3>1. content' = [content EXCEPT ![v] = now]
      BY <1>2, <2>2, Zenon
    <3>2. \A w \in Version : w # v => content'[w] = content[w]
      BY <1>4, <3>1
    <3> QED BY <1>5, <3>2, Zenon
  <2> QED BY <1>2, <2>1, <2>2
<1>9. Newest(x, content', projects')
  <2> SUFFICES ASSUME x.phase # "idle", x.bad = FALSE
               PROVE  /\ \A w \in Version : content'[w] # None => w <= v
                      /\ p # 0 => \A w \in Version : projects[w] # None => w <= p \/ w = v
    BY <1>2, <1>3, Zenon DEF Newest
  <2>1. ASSUME NEW w \in Version, content'[w] # None PROVE w <= v
    <3>1. w \in Nat /\ v \in Nat
      BY <1>2, UploadBounds DEF Version
    <3>2. CASE w = v
      BY <3>1, <3>2
    <3>3. CASE w # v
      <4>1. w < v
        BY <1>5, <1>8, <2>1, <3>3, Zenon
      <4> QED BY <3>1, <4>1
    <3> QED BY <3>2, <3>3
  <2>2. ASSUME p # 0, NEW w \in Version, projects[w] # None PROVE w <= p
    BY <1>6, <2>2, LatestIsNewest
  <2> QED BY <2>1, <2>2, Zenon
<1>10. ASSUME NEW d \in Conn PROVE Newest(up'[d], content', projects')
  <2>1. d = c
    BY Zenon DEF OneUploader
  <2> QED BY <1>7, <1>9, <2>1, Zenon
<1>11. ASSUME NEW r \in methods PROVE Spans(r, content', projects')
  <2> SUFFICES ASSUME NEW w \in Version, r.start <= w, w <= r.end, projects[w] # None
               PROVE  AsMethod(r) \in content'[w]
    BY <1>3, Zenon DEF Spans
  <2>1. AsMethod(r) \in content[w]
    BY Zenon DEF OrderInv, Spans
  <2>2. content[w] # None
    BY <1>4, Zenon DEF HashesHonest
  <2> QED BY <1>8, <2>1, <2>2, Zenon
<1>12. \A w \in acked' : projects[w] # None
  <2>1. acked' \subseteq acked
    BY <1>2
  <2> QED BY <2>1, Zenon DEF OrderInv
<1> QED BY <1>3, <1>10, <1>11, <1>12, Zenon DEF OrderInv

LEMMA HandleOrder ==
  ASSUME OneUploader, UploadInv, OrderInv, NEW c \in Conn, Handle(c)
  PROVE  OrderInv'
<1> DEFINE u == up[c]
           v == u.version
<1>1. /\ content' = content /\ methods' = methods /\ u.phase # "idle"
      /\ up'[c] = Idle \/ Kept(up'[c], u)
      /\ acked' = acked \/ (u.phase \in Stored /\ acked' = acked \cup {v})
      /\ \A w \in Version : /\ projects[w] # None => projects'[w] # None
                            /\ w # v => projects'[w] = projects[w]
      /\ u.bad = FALSE \/ projects' = projects
  BY HandleMoves, Zenon DEF Moved
<1>2. Request(u, content, projects) /\ acked \subseteq Version
  BY <1>1, Parts
<1>3. u \in Upload(Entry(u))
  BY <1>2, Zenon DEF Request
<1>4. v \in Version
  BY <1>3 DEF Upload
<1>5. /\ \A w \in acked : projects[w] # None
      /\ Newest(u, content, projects)
      /\ \A r \in methods : Spans(r, content, projects)
  BY Zenon DEF OrderInv
<1>6. \A w \in acked' : projects'[w] # None
  <2>1. u.phase \in Stored => projects[v] # None
    <3>1. u.phase \in Stored => u.phase \notin {"check", "search", "parse"}
      BY DEF Stored
    <3> QED BY <1>2, <3>1, Zenon DEF Request, Truthful
  <2> QED BY <1>1, <1>2, <1>4, <1>5, <2>1, Zenon
<1>7. Newest(up'[c], content', projects')
  <2> DEFINE x == up'[c]
  <2>1. CASE x = Idle
    <3>1. x.phase = "idle"
      BY <2>1 DEF Idle
    <3> QED BY <3>1, Zenon DEF Newest
  <2>2. CASE Kept(x, u)
    <3>1. x.version = v /\ x.prev = u.prev /\ x.bad = u.bad
      BY <2>2, Zenon DEF Kept
    <3>2. u.bad = FALSE =>
            /\ \A w \in Version : content[w] # None => w <= v
            /\ u.prev # 0 => \A w \in Version : projects[w] # None => w <= u.prev \/ w = v
      BY <1>1, <1>5, Zenon DEF Newest
    <3> HIDE DEF u
    <3>3. \A w \in Version : projects'[w] # None => projects[w] # None \/ w = v
      BY <1>1, Zenon
    <3>4. Newest(x, content', projects')
      <4> SUFFICES ASSUME x.bad = FALSE
                   PROVE  /\ \A w \in Version : content'[w] # None => w <= x.version
                          /\ x.prev # 0 =>
                               \A w \in Version : projects'[w] # None => w <= x.prev \/ w = x.version
        BY Zenon DEF Newest
      <4>1. content' = content
        BY <1>1
      <4> HIDE DEF x, v
      <4> QED BY <4>1, <3>1, <3>2, <3>3, Zenon
    <3> QED BY <3>4
  <2> QED BY <1>1, <2>1, <2>2
<1>8. ASSUME NEW r \in methods PROVE Spans(r, content, projects')
  <2> SUFFICES ASSUME NEW w \in Version, r.start <= w, w <= r.end, projects'[w] # None
               PROVE  AsMethod(r) \in content[w]
    BY Zenon DEF Spans
  <2>1. CASE projects[w] # None
    BY <1>5, <2>1, Zenon DEF Spans
  <2>2. CASE projects[w] = None
    <3>1. w = v /\ projects' # projects
      BY <1>1, <2>2, Zenon
    <3>2. \A y \in Version : content[y] # None => y <= v
      BY <1>1, <1>5, <3>1, Zenon DEF Newest
    <3>3. RowTrue(r, content, projects) /\ r \in Row
      BY Parts, Zenon DEF Rows, Tables
    <3>4. r.end \in Version
      BY <3>3 DEF Row
    <3>5. r.end <= v
      BY <3>2, <3>3, <3>4, Zenon DEF RowTrue
    <3>6. \A y, z \in Version : y <= z /\ z <= y => y = z
      BY UploadBounds DEF Version
    <3>7. r.end = w
      BY <1>4, <3>1, <3>4, <3>5, <3>6, Zenon
    <3> QED BY <3>3, <3>7, Zenon DEF RowTrue
  <2> QED BY <2>1, <2>2
<1>9. \A d \in Conn : Newest(up'[d], content', projects')
  BY <1>7, Zenon DEF OneUploader
<1> QED BY <1>1, <1>6, <1>8, <1>9, Zenon DEF OrderInv

LEMMA ExecuteOrder ==
  ASSUME OneUploader, UploadInv, ListInv, OrderInv, NEW c \in Conn, NEW k \in Worker, Execute(c, k)
  PROVE  OrderInv'
<1> DEFINE me == worker[c][k]
           u == up[c]
           v == u.version
           S == Statement(u.version, u.prev, content[u.version])
           s == Head(me.todo)
<1>1. PICK o :
        /\ Happens(o) /\ s \in S /\ me.todo \in Seq(S) /\ Len(me.todo) # 0
        /\ Related(s, o) \/ Failed(s) \/ Inserted(s) \/ Updated(s)
        /\ \E t : Set(c, k, t) /\ (t.todo = <<>> \/ t.todo = Tail(me.todo))
        /\ u.version \in Version /\ u.prev \in 0..MaxVersion /\ u.prev < u.version
        /\ u.phase \in {"methods", "files"} /\ u.bad = FALSE
        /\ content[u.version] \in SUBSET Method /\ projects[u.version] # None
        /\ up' = up /\ content' = content /\ acked' = acked
  BY ExecuteFacts
<1>2. projects' = projects
  <2>1. \E x \in Outcome : Write(s, x)
    BY Zenon DEF Execute
  <2>2. s.op \in {"author", "insert", "update"}
    <3> HIDE DEF s
    <3> QED BY <1>1, StatementKinds
  <2> QED BY <2>1, <2>2, Zenon DEF Write, createAuthorIfNotExists
<1>3. methods \subseteq Row
  BY Parts, Zenon DEF Tables
<1>4. /\ Newest(u, content, projects)
      /\ \A r \in methods : Spans(r, content, projects)
  BY Zenon DEF OrderInv
<1>5. u.phase # "idle"
  BY <1>1
<1>6. u.prev # 0 => \A w \in Version : projects[w] # None => w <= u.prev \/ w = v
  BY <1>1, <1>4, <1>5, Zenon DEF Newest
<1>7. Fit(s, u, methods)
  <2>1. Len(me.todo) \in Nat /\ s = me.todo[1]
    <3> HIDE DEF S
    <3> QED BY <1>1
  <2>2. 1 \in 1..Len(me.todo)
    BY <1>1, <2>1
  <2>3. Ready(me.todo, u, methods, byAuthor, faults)
    BY Zenon DEF ListInv, Lists
  <2> QED BY <2>1, <2>2, <2>3, Zenon DEF Ready
<1> HIDE DEF s
<1>8. s.version = v /\ s.method \in content[v] /\ (s.op = "update" => s.start \in 1..u.prev)
  BY <1>1, StatementKinds
<1>9. s.method \in Method /\ s.method = [hash |-> s.method.hash, file |-> s.method.file]
  <2>1. s.method \in Method
    BY <1>1, <1>8, Zenon
  <2> QED BY <2>1 DEF Method
<1>10. \A y, z \in Version : y <= z /\ z <= y => y = z
  BY UploadBounds DEF Version
<1>11. ASSUME NEW q \in methods' PROVE Spans(q, content, projects)
  <2>1. CASE q \in methods
    BY <1>4, <2>1, Zenon
  <2>2. CASE q \notin methods /\ Inserted(s)
    <3>1. q = InsertRow(s)
      BY <2>2, Zenon DEF Inserted, Upsert
    <3>2. q.start = v /\ q.end = v /\ q.hash = s.method.hash /\ q.file = s.method.file
      BY <1>8, <3>1 DEF InsertRow
    <3>3. AsMethod(q) = s.method
      BY <1>9, <3>2, Zenon DEF AsMethod
    <3> QED BY <1>1, <1>8, <1>10, <3>2, <3>3, Zenon DEF Spans
  <2>3. CASE q \notin methods /\ Updated(s)
    <3>1. methods' = Extended(KeyOf(s), v, s.authors) /\ s.op = "update"
      BY <1>8, <2>3, Zenon DEF Updated
    <3>2. PICK r \in methods : Became(r, q, KeyOf(s), v, s.authors)
      BY <1>3, <3>1, ExtendedRow
    <3>3. Key(r) = KeyOf(s)
      BY <2>3, <3>2, Zenon DEF Became
    <3>4. q.end = v /\ q.start = r.start /\ AsMethod(q) = AsMethod(r)
      BY <3>2, <3>3, Zenon DEF Became
    <3>5. r.hash = s.method.hash /\ r.file = s.method.file
      BY <3>3 DEF Key, KeyOf
    <3>6. AsMethod(r) = s.method
      BY <1>9, <3>5, Zenon DEF AsMethod
    <3>7. u.prev <= r.end
      BY <1>7, <3>1, <3>3, Zenon DEF Fit
    <3>8. u.prev # 0
      <4>1. s.start \in 1..u.prev
        BY <1>8, <3>1, Zenon
      <4> QED BY <1>1, <4>1
    <3>9. r.end \in Version
      <4>1. r \in Row
        BY <1>3
      <4> QED BY <4>1 DEF Row
    <3> SUFFICES ASSUME NEW w \in Version, q.start <= w, w <= q.end, projects[w] # None
                 PROVE  AsMethod(q) \in content[w]
      BY Zenon DEF Spans
    <3>10. CASE w = v
      BY <1>8, <3>4, <3>6, <3>10, Zenon
    <3>11. CASE w # v
      <4>1. w <= u.prev
        BY <1>6, <3>8, <3>11, Zenon
      <4>2. w <= r.end
        BY <1>1, <3>7, <3>9, <4>1, UploadBounds DEF Version
      <4>3. AsMethod(r) \in content[w]
        BY <1>4, <3>4, <4>2, Zenon DEF Spans
      <4> QED BY <3>4, <4>3, Zenon
    <3> QED BY <3>10, <3>11
  <2>4. CASE Related(s, o) \/ Failed(s)
    BY <2>1, <2>4, Zenon DEF Related, Failed
  <2> QED BY <1>1, <2>1, <2>2, <2>3, <2>4, Zenon
<1> QED BY <1>1, <1>2, <1>11, Zenon DEF OrderInv

LEMMA QuietOrder ==
  ASSUME OneUploader, OrderInv, NEW c \in Conn, methods' = methods, projects' = projects,
         content' = content, acked' = acked, up'[c] = Idle \/ up'[c] = up[c] \/
         (Kept(up'[c], up[c]) /\ up[c].phase # "idle")
  PROVE  OrderInv'
<1>1. Newest(up[c], content, projects)
  BY Zenon DEF OrderInv
<1>2. Newest(up'[c], content, projects)
  <2>1. CASE up'[c] = Idle
    <3>1. up'[c].phase = "idle"
      BY <2>1 DEF Idle
    <3> QED BY <3>1, Zenon DEF Newest
  <2>2. CASE up'[c] = up[c]
    BY <1>1, <2>2, Zenon
  <2>3. CASE Kept(up'[c], up[c]) /\ up[c].phase # "idle"
    <3> DEFINE x == up'[c]
               u == up[c]
    <3> HIDE DEF x, u
    <3>1. Kept(x, u) /\ u.phase # "idle" /\ Newest(u, content, projects)
      BY <1>1, <2>3 DEF x, u
    <3>2. Newest(x, content, projects)
      BY <3>1, Zenon DEF Kept, Newest
    <3> QED BY <3>2 DEF x
  <2> QED BY <2>1, <2>2, <2>3
<1>3. \A d \in Conn : Newest(up'[d], content', projects')
  BY <1>2, Zenon DEF OneUploader
<1> QED BY <1>3, Zenon DEF OrderInv

LEMMA OrderStep ==
  ASSUME OneUploader, Orderly, UploadInv, ListInv, OrderInv, [Next]_vars
  PROVE  OrderInv'
<1>1. ASSUME NEW c \in Conn, Receive(c) PROVE OrderInv'
  BY <1>1, ReceiveOrder
<1>2. ASSUME NEW c \in Conn, Handle(c) PROVE OrderInv'
  BY <1>2, HandleOrder
<1>3. ASSUME NEW c \in Conn, NEW w \in Worker, Work(c, w) PROVE OrderInv'
  <2>1. CASE TakeItem(c, w)
    <3>1. /\ worker[c][w].pc = "take" /\ methods' = methods /\ projects' = projects
          /\ content' = content /\ acked' = acked
          /\ up' = up \/ up' = [up EXCEPT ![c].queue = Tail(@)]
      BY <2>1, Zenon DEF TakeItem, tables, clients
    <3>2. worker[c][w].pc # "idle"
      BY <3>1
    <3>3. /\ up[c] \in Upload(Entry(up[c])) /\ up[c].phase \in {"methods", "files"}
          /\ up = [d \in Conn |-> up[d]]
      BY <3>2, WorkerAt, Parts
    <3>4. CASE up' = up
      BY <3>1, <3>4, QuietOrder, Zenon
    <3>5. CASE up' = [up EXCEPT ![c].queue = Tail(@)]
      <4> DEFINE q == Tail(up[c].queue)
      <4>1. up' = [up EXCEPT ![c].queue = q]
        BY <3>5
      <4> HIDE DEF q
      <4>2. Kept(up'[c], up[c])
        BY <3>3, <4>1, MovedBy
      <4>3. up[c].phase # "idle"
        BY <3>3
      <4> QED BY <3>1, <4>2, <4>3, QuietOrder, Zenon
    <3> QED BY <3>1, <3>4, <3>5
  <2>2. CASE SelectMethod(c, w) \/ SelectUnchanged(c, w)
    <3>1. /\ methods' = methods /\ projects' = projects /\ content' = content /\ acked' = acked
          /\ up' = up
      BY <2>2, Zenon DEF SelectMethod, SelectUnchanged, tables, clients
    <3> QED BY <3>1, QuietOrder, Zenon
  <2>3. CASE Execute(c, w)
    BY <2>3, ExecuteOrder
  <2> QED BY <1>3, <2>1, <2>2, <2>3, Zenon DEF Work
<1>4. CASE Crash
  <2>1. /\ methods' = methods /\ projects' = projects /\ content' = content /\ acked' = acked
        /\ up' = [c \in Conn |-> Idle]
    BY <1>4, Zenon DEF Crash, Stop, tables, clients
  <2>2. \A c \in Conn : up'[c] = Idle
    BY <2>1
  <2>3. Idle.phase = "idle"
    BY DEF Idle
  <2>4. \A c \in Conn : Newest(up'[c], content', projects')
    BY <2>2, <2>3, Zenon DEF Newest
  <2> QED BY <2>1, <2>4, Zenon DEF OrderInv
<1>5. CASE Restart \/ UNCHANGED vars
  BY <1>5, Zenon DEF Restart, vars, tables, clients, OrderInv
<1> QED BY <1>1, <1>2, <1>3, <1>4, <1>5, Zenon DEF Next

LEMMA OrderInit ==
  ASSUME Init PROVE OrderInv
<1>1. methods = {} /\ acked = {} /\ up = [c \in Conn |-> Idle]
  BY Zenon DEF Init
<1>2. \A c \in Conn : up[c] = Idle
  BY <1>1
<1>3. Idle.phase = "idle"
  BY DEF Idle
<1>4. \A c \in Conn : Newest(up[c], content, projects)
  BY <1>2, <1>3, Zenon DEF Newest
<1> QED BY <1>1, <1>4, Zenon DEF OrderInv

\* One uploader at a time, each version sent once and built on the latest one: a
\* method row never speaks of an uploaded version that does not hold the method, at
\* its ends or in between, whatever statement of addMethod or updateUnchangedFiles
\* fails, is retried or is cut off by the end of the process.  Clients that name an
\* older previous version, and uploads that overlap, break this.
THEOREM RowsAlwaysHonest ==
  ASSUME OneUploader, Orderly PROVE Spec => []RowsHonest
<1>1. Init => OrderInv
  BY OrderInit
<1>2. UploadInv /\ ListInv /\ OrderInv /\ [Next]_vars => OrderInv'
  BY OrderStep
<1>3. ASSUME UploadInv, OrderInv PROVE RowsHonest
  <2> SUFFICES ASSUME NEW r \in methods
               PROVE  /\ r.start <= r.end
                      /\ \A v \in {r.start, r.end} \cup (acked \cap r.start..r.end) :
                           content[v] # None /\ AsMethod(r) \in content[v]
    BY Zenon DEF RowsHonest
  <2>1. RowTrue(r, content, projects) /\ HashesHonest /\ acked \subseteq Version /\ r \in Row
    BY <1>3, Parts, Zenon DEF Rows, Tables
  <2>2. ASSUME NEW v \in acked, v \in r.start..r.end
        PROVE  content[v] # None /\ AsMethod(r) \in content[v]
    <3>1. v \in Version /\ projects[v] # None /\ Spans(r, content, projects)
      BY <1>3, <2>1, Zenon DEF OrderInv
    <3>2. r.start <= v /\ v <= r.end
      <4>1. r.start \in Nat /\ r.end \in Nat
        BY <2>1, UploadBounds DEF Row, Version
      <4> QED BY <2>2, <4>1
    <3>3. content[v] # None
      BY <2>1, <3>1, Zenon DEF HashesHonest
    <3> QED BY <3>1, <3>2, <3>3, Zenon DEF Spans
  <2> QED BY <2>1, <2>2, Zenon DEF RowTrue
<1>4. UploadInv /\ OrderInv => RowsHonest
  BY <1>3
<1> QED BY <1>1, <1>2, <1>4, UploadInvariant, ListInvariant, PTL DEF Spec

\* Every element is in one of the chunks.
LEMMA ToChunksCover ==
  ASSUME NEW S, NEW s \in Seq(S), NEW n \in Nat \ {0}, NEW x \in Range(s)
  PROVE  \E i \in 1..Len(ToChunks(s, n)) : x \in Range(ToChunks(s, n)[i])
<1> DEFINE N == Len(s)
           m == (N + n - 1) \div n
           piece(i) == SubSeq(s, (i - 1) * n + 1, LeastOf(i * n, N))
           ch == ToChunks(s, n)
<1>1. N \in Nat
  OBVIOUS
<1>2. PICK k \in 1..N : s[k] = x
  BY DEF Range
<1>3. N + n - 1 \in Nat /\ k - 1 \in Nat /\ k <= N
  BY <1>1, <1>2
<1> DEFINE d == (k - 1) \div n
           r == (k - 1) % n
           z == (N + n - 1) % n
<1>4. d \in Nat /\ r \in 0..(n - 1) /\ k - 1 = n * d + r
  <2> DEFINE y == k - 1
  <2>1. y \in Nat
    BY <1>3
  <2> HIDE DEF y
  <2>2. y \div n \in Nat /\ y % n \in 0..(n - 1) /\ y = n * (y \div n) + (y % n)
    BY <2>1, Division
  <2> QED BY <2>2 DEF y
<1>5. m \in Nat /\ z \in 0..(n - 1) /\ N + n - 1 = n * m + z
  <2> DEFINE y == N + n - 1
  <2>1. y \in Nat
    BY <1>3
  <2> HIDE DEF y
  <2>2. y \div n \in Nat /\ y % n \in 0..(n - 1) /\ y = n * (y \div n) + (y % n)
    BY <2>1, Division
  <2> QED BY <2>2 DEF y
<1>6. ch = [i \in 1..m |-> piece(i)]
  BY DEF ToChunks
<1> HIDE DEF d, r, z, m, N
<1>7. d < m
  <2>1. n * d \in Nat /\ n * m \in Nat
    BY <1>4, <1>5
  <2>2. n * d < n * m
    BY <1>1, <1>3, <1>4, <1>5, <2>1
  <2> QED BY <1>4, <1>5, <2>2, Quotient
<1> DEFINE i == d + 1
<1>8. i \in 1..m /\ Len(ch) = m /\ ch[i] = piece(i)
  <2>1. i \in 1..m
    BY <1>4, <1>5, <1>7
  <2> HIDE DEF piece, i
  <2>2. Len(ch) = m /\ ch[i] = piece(i)
    BY <1>5, <1>6, <2>1
  <2> QED BY <2>1, <2>2
<1> HIDE DEF ch
<1> DEFINE a == d * n + 1
           b == LeastOf((d + 1) * n, N)
<1>9. piece(i) = SubSeq(s, a, b)
  <2>1. i - 1 = d
    BY <1>4
  <2> QED BY <2>1, Zenon
<1>10. n * d \in Nat /\ d * n = n * d /\ (d + 1) * n = n * d + n
  BY <1>4
<1>11. a \in 1..k /\ b \in k..N /\ k = a + r
  BY <1>1, <1>3, <1>4, <1>10 DEF LeastOf
<1> HIDE DEF a, b, i, piece
<1>12. Len(SubSeq(s, a, b)) = b - a + 1 /\ SubSeq(s, a, b)[r + 1] = s[a + r] /\ r + 1 \in 1..(b - a + 1)
  <2>1. a \in Nat /\ b \in Nat /\ a >= 1 /\ a <= b /\ b <= Len(s)
    BY <1>1, <1>2, <1>11 DEF N
  <2>2. r + 1 \in 1..(b - a + 1)
    BY <1>1, <1>2, <1>4, <1>11
  <2>3. Len(SubSeq(s, a, b)) = b - a + 1 /\ \A g \in 1..(b - a + 1) : SubSeq(s, a, b)[g] = s[a + g - 1]
    BY <2>1
  <2>4. SubSeq(s, a, b)[r + 1] = s[a + (r + 1) - 1] /\ a + (r + 1) - 1 = a + r
    BY <1>4, <1>11, <2>1, <2>2, <2>3
  <2> QED BY <2>2, <2>3, <2>4
<1>13. SubSeq(s, a, b) \in Seq(S)
  BY <1>1, <1>2, <1>11 DEF N
<1>14. r + 1 \in DOMAIN SubSeq(s, a, b)
  BY <1>12, <1>13
<1>15. x \in Range(SubSeq(s, a, b))
  BY <1>2, <1>11, <1>12, <1>14, Zenon DEF Range
<1> QED BY <1>8, <1>9, <1>15, Zenon DEF ch

\* Every pair of elements is in the product.
LEMMA PairsCover ==
  ASSUME NEW A, NEW B, NEW ks \in Seq(A), NEW ls \in Seq(B), NEW i \in 1..Len(ks), NEW j \in 1..Len(ls)
  PROVE  \E k \in 1..Len(Pairs(ks, ls)) : Pairs(ks, ls)[k][1] = ks[i] /\ Pairs(ks, ls)[k][2] = ls[j]
<1> DEFINE p == Len(ks)
           q == Len(ls)
           pair(n) == <<ks[((n - 1) \div q) + 1], ls[((n - 1) % q) + 1]>>
           x == q * (i - 1) + (j - 1)
           k == x + 1
<1>1. p \in Nat /\ q \in Nat \ {0} /\ i - 1 \in Nat /\ j - 1 \in 0..(q - 1) /\ i - 1 < p
  OBVIOUS
<1>2. Pairs(ks, ls) = [n \in 1..(p * q) |-> pair(n)]
  BY DEF Pairs
<1> DEFINE e == i - 1
           f == j - 1
<1>3. e \in Nat /\ f \in 0..(q - 1) /\ e < p /\ i = e + 1 /\ j = f + 1
  BY <1>1
<1>4. x = q * e + f
  OBVIOUS
<1> HIDE DEF p, q, e, f, x
<1>5. q * e \in Nat /\ p * q \in Nat /\ x \in Nat
  BY <1>1, <1>3, <1>4
<1>6. x \div q = e /\ x % q = f
  <2> DEFINE d == x \div q
             r == x % q
  <2>1. d \in Nat /\ r \in 0..(q - 1) /\ x = q * d + r
    BY <1>1, <1>5, Division
  <2> HIDE DEF d, r
  <2>2. q * d \in Nat /\ q * (d + 1) = q * d + q /\ q * (e + 1) = q * e + q
    BY <1>1, <1>3, <2>1
  <2>3. e < d + 1
    <3>1. q * e < q * (d + 1)
      BY <1>1, <1>3, <1>4, <1>5, <2>1, <2>2
    <3> QED BY <1>1, <1>3, <2>1, <3>1, Quotient
  <2>4. d < e + 1
    <3>1. q * d < q * (e + 1)
      BY <1>1, <1>3, <1>4, <1>5, <2>1, <2>2
    <3> QED BY <1>1, <1>3, <2>1, <3>1, Quotient
  <2>5. d = e
    BY <1>3, <2>1, <2>3, <2>4
  <2>6. r = f
    BY <1>1, <1>3, <1>4, <1>5, <2>1, <2>5
  <2> QED BY <2>5, <2>6 DEF d, r
<1>7. k \in 1..(p * q)
  <2> DEFINE g == p - e - 1
  <2>1. g \in Nat /\ p = e + (g + 1)
    BY <1>1, <1>3
  <2> HIDE DEF g
  <2>2. q * g \in Nat
    BY <1>1, <2>1
  <2>3. q * (e + (g + 1)) = q * e + (q * g + q)
    BY <1>1, <1>3, <2>1
  <2>4. p * q = q * p
    BY <1>1
  <2>5. p * q = q * e + (q * g + q)
    BY <2>1, <2>3, <2>4, Zenon
  <2> QED BY <1>1, <1>3, <1>4, <1>5, <2>2, <2>5
<1>8. k - 1 = x
  BY <1>5
<1> HIDE DEF k
<1>9. pair(k) = <<ks[e + 1], ls[f + 1]>>
  BY <1>6, <1>8
<1> HIDE DEF pair
<1>10. Len(Pairs(ks, ls)) = p * q /\ Pairs(ks, ls)[k] = pair(k)
  BY <1>2, <1>5, <1>7
<1>11. k \in 1..Len(Pairs(ks, ls))
  BY <1>7, <1>10, Zenon
<1>12. Pairs(ks, ls)[k] = <<ks[i], ls[j]>>
  BY <1>3, <1>9, <1>10, Zenon
<1>13. Pairs(ks, ls)[k][1] = ks[i] /\ Pairs(ks, ls)[k][2] = ls[j]
  BY <1>12
<1> QED BY <1>11, <1>13, Zenon

\* The queue of the second round has a pair for every hash and file.
LEMMA HashFileQueueCovers ==
  ASSUME NEW hashes \in SUBSET Hash, NEW files \in SUBSET File, NEW h \in hashes, NEW f \in files
  PROVE  LET q == HashFileQueue(hashes, files)
         IN  \E k \in 1..Len(q) : h \in Range(q[k][1]) /\ f \in Range(q[k][2])
<1>1. IsFiniteSet(hashes) /\ IsFiniteSet(files)
  BY UploadSets, FS_Subset
<1> DEFINE hl == SetToSeq(hashes)
           fl == SetToSeq(files)
<1>2. /\ hl \in Seq(hashes) /\ fl \in Seq(files)
      /\ \E i \in 1..Len(hl) : hl[i] = h
      /\ \E i \in 1..Len(fl) : fl[i] = f
  BY <1>1, SetToSeqLists
<1> HIDE DEF hl, fl
<1>3. DOMAIN hl = 1..Len(hl) /\ DOMAIN fl = 1..Len(fl)
  BY <1>2
<1>4. h \in Range(hl) /\ f \in Range(fl)
  BY <1>2, <1>3, Zenon DEF Range
<1> DEFINE ks == ToChunks(hl, HASHES_MAX_SIZE)
           ls == ToChunks(fl, FILES_MAX_SIZE)
<1>5. ks \in Seq(Seq(hashes)) /\ ls \in Seq(Seq(files))
  BY <1>2, ToChunksType, UploadBounds
<1>6. HASHES_MAX_SIZE \in Nat \ {0} /\ FILES_MAX_SIZE \in Nat \ {0}
  BY UploadBounds
<1>7. PICK i \in 1..Len(ks) : h \in Range(ks[i])
  BY <1>2, <1>4, <1>6, ToChunksCover, Zenon
<1>8. PICK j \in 1..Len(ls) : f \in Range(ls[j])
  BY <1>2, <1>4, <1>6, ToChunksCover, Zenon
<1> HIDE DEF ks, ls
<1>9. PICK k \in 1..Len(Pairs(ks, ls)) : Pairs(ks, ls)[k][1] = ks[i] /\ Pairs(ks, ls)[k][2] = ls[j]
  <2> DEFINE A == Seq(hashes)
             B == Seq(files)
  <2>1. ks \in Seq(A) /\ ls \in Seq(B)
    BY <1>5
  <2> HIDE DEF A, B
  <2>2. \A x \in 1..Len(ks), y \in 1..Len(ls) :
          \E k \in 1..Len(Pairs(ks, ls)) : Pairs(ks, ls)[k][1] = ks[x] /\ Pairs(ks, ls)[k][2] = ls[y]
    BY <2>1, PairsCover
  <2> QED BY <2>2, Zenon
<1>10. HashFileQueue(hashes, files) = Pairs(ks, ls)
  BY Zenon DEF HashFileQueue, ks, ls, hl, fl
<1> QED BY <1>7, <1>8, <1>9, <1>10, Zenon

(***************************************************************************)
(* Uploads no statement of which failed                                     *)
(***************************************************************************)
\* Statement s writes the row of method m.
Writes(s, m) == s.op # "author" /\ s.method = m

\* The key of the row statement s writes.
Target(s) == <<s.method.hash, s.method.file, IF s.op = "insert" THEN s.version ELSE s.start>>

\* Worker t has an entry of the queue in hand.
Active(t) == t.pc \in {"select", "write"}

\* A statement worker t of upload u still has to send: its row is there if it updates
\* one, and the second round updates rows of unchanged files only.
Prepared(s, u, t, ms) ==
  s.op # "author" =>
    /\ s.op = "update" => \E r \in ms : Key(r) = KeyOf(s)
    /\ u.phase = "methods" => s.method = t.item
    /\ u.phase = "files" => /\ s.op = "update" /\ s.method.file \in u.files
                            /\ s.method.hash \in Range(t.found)

\* A worker no statement of which failed.
Calm(u, t, ms) ==
  /\ t.errno = FALSE
  /\ t.pc = "ended" => u.queue = <<>>
  /\ t.pc # "write" => t.todo = <<>> /\ t.found = <<>>
  /\ \A i \in 1..Len(t.todo) : Prepared(t.todo[i], u, t, ms)

\* Some worker of ts found a row with hash h.
Collected(ts, h) == \E w \in Worker : h \in Range(ts[w].got) \/ h \in Range(ts[w].found)

\* The methods of the unchanged files wait for the second round.
Split(u, ts, ms) ==
  /\ \A i \in 1..Len(u.sent) : u.sent[i].file \notin u.files
  /\ u.phase = "methods" =>
       /\ \A i \in 1..Len(u.queue) : u.queue[i].file \notin u.files
       /\ \A w \in Worker : Active(ts[w]) => ts[w].item.file \notin u.files
  /\ \A r \in ms : r.file \in u.files =>
       /\ r.start # u.version
       /\ r.end = u.version => /\ u.phase \in {"files", "unchanged"}
                               /\ u.phase = "files" => Collected(ts, r.hash)

Parsed(u) == u.phase # "idle" /\ u.bad = FALSE

CalmInv ==
  faults = 0 =>
    \A c \in Conn : /\ up[c].errno = FALSE
                    /\ \A w \in Worker : Calm(up[c], worker[c][w], methods)
                    /\ Parsed(up[c]) => Split(up[c], worker[c], methods)

\* No method of upload u is in two hands at a time, nor in any once its row is written.
Apart(u, ts, ms) ==
  /\ \A i, j \in 1..Len(u.queue) : u.queue[i] = u.queue[j] => i = j
  /\ \A w \in Worker : Active(ts[w]) =>
       /\ \A i \in 1..Len(u.queue) : u.queue[i] # ts[w].item
       /\ \A x \in Worker : Active(ts[x]) /\ ts[x].item = ts[w].item => x = w
       /\ \A i, j \in 1..Len(ts[w].todo) :
            ts[w].todo[i].op # "author" /\ ts[w].todo[j].op # "author" =>
              Target(ts[w].todo[i]) = Target(ts[w].todo[j])
  /\ \A r \in ms : r.end = u.version =>
       /\ \A i \in 1..Len(u.queue) : u.queue[i] # AsMethod(r)
       /\ \A w \in Worker : Active(ts[w]) /\ ts[w].item = AsMethod(r) =>
            /\ ts[w].pc = "write"
            /\ \A i \in 1..Len(ts[w].todo) : ts[w].todo[i].op # "author" => Target(ts[w].todo[i]) = Key(r)

\* What keeps the rows of upload u disjoint.
Separate(u, ts, ms) ==
  /\ \A i, j \in 1..Len(u.sent) : u.sent[i] = u.sent[j] => i = j
  /\ u.phase \notin {"methods", "files", "unchanged"} => \A r \in ms : r.end # u.version
  /\ u.phase = "methods" => Apart(u, ts, ms)

RangeInv ==
  faults = 0 /\ "twins" \notin Clients =>
    RangesDisjoint /\ \A c \in Conn : Parsed(up[c]) => Separate(up[c], worker[c], methods)

\* A row of method m spans version v.
Spanned(v, m, ms) == \E r \in ms : AsMethod(r) = m /\ r.start <= v /\ v <= r.end

\* Entry e of the queue of upload u is about method m.
Covers(u, e, m) == IF u.phase = "files" THEN m.hash \in Range(e[1]) /\ m.file \in Range(e[2]) ELSE m = e

Holding(u, t, m) == \/ t.pc = "select" /\ Covers(u, t.item, m)
                    \/ t.pc = "write" /\ \E i \in 1..Len(t.todo) : Writes(t.todo[i], m)

\* Method m waits in the queue of upload u or is in the hands of a worker.
Pending(u, ts, m) == \/ \E i \in 1..Len(u.queue) : Covers(u, u.queue[i], m)
                     \/ \E w \in Worker : Holding(u, ts[w], m)

\* Hash h waits to be added to the project row.
Waits(u, h) == \E j \in 1..Len(u.hashes) : u.index < j /\ u.hashes[j] = h

\* What an undisturbed upload u builds on, and what it was sent.
Steady(u, ct, ak) ==
  /\ u.prev # 0 => u.prev \in ak
  /\ u.version \notin ak
  /\ \A m \in ct[u.version] : m.file \in u.files \/ \E i \in 1..Len(u.sent) : u.sent[i] = m

\* How far its handler has come with the hashes of the project row.
Hashed(u, pj) ==
  /\ u.phase \notin {"check", "search"} /\ u.prev # 0 => u.prevHashes = pj[u.prev]
  /\ u.phase \in {"insert", "extend"} => u.hashes = [i \in DOMAIN u.sent |-> u.sent[i].hash]
  /\ u.phase = "extend" => \A i \in 1..Len(u.hashes) : i <= u.index => u.hashes[i] \in pj[u.version]
  /\ u.phase \in {"start", "methods", "files", "unchanged"} =>
       \A i \in 1..Len(u.sent) : u.sent[i].hash \in pj[u.version]

\* How far its workers have come with the method rows.
Spread(u, ts, ct, pj, ms) ==
  LET v == u.version
  IN  /\ u.phase = "methods" =>
           \A i \in 1..Len(u.sent) : Pending(u, ts, u.sent[i]) \/ Spanned(v, u.sent[i], ms)
      /\ u.phase \in {"files", "unchanged"} => \A i \in 1..Len(u.sent) : Spanned(v, u.sent[i], ms)
      /\ u.phase = "files" => \A m \in ct[v] : m.file \in u.files =>
           Pending(u, ts, m) \/ (Spanned(v, m, ms) /\ Collected(ts, m.hash))
      /\ u.phase = "unchanged" => \A m \in ct[v] : m.file \in u.files =>
           Spanned(v, m, ms) /\ (m.hash \in pj[v] \/ Waits(u, m.hash))

\* Version v is in the database as it was uploaded.
Complete(v, ct, pj, ms) == pj[v] = HashesOf(ct[v]) /\ \A m \in ct[v] : Spanned(v, m, ms)

CompleteInv ==
  Undisturbed =>
    /\ \A v \in Version : projects[v] # None =>
         v \in acked \/ \E c \in Conn : up[c].phase \in Stored /\ up[c].version = v
    /\ \A v \in acked : Complete(v, content, projects, methods)
    /\ \A c \in Conn : Parsed(up[c]) =>
         /\ Steady(up[c], content, acked) /\ Hashed(up[c], projects)
         /\ Spread(up[c], worker[c], content, projects, methods)

(***************************************************************************)
(* The steps of the handler while no statement fails                        *)
(***************************************************************************)
\* The handler of upload u goes on as x.
Goes(x, u, ph, hs, ps, q, i) ==
  /\ Kept(x, u) /\ x.phase = ph /\ x.hashes = hs /\ x.prevHashes = ps /\ x.queue = q /\ x.index = i
  /\ x.errno = FALSE

LEMMA GoesTo ==
  ASSUME up = [d \in Conn |-> up[d]], NEW c \in Conn, NEW E, up[c] \in Upload(E), up[c].errno = FALSE,
         NEW a, up' = [up EXCEPT ![c].phase = a]
  PROVE  Goes(up'[c], up[c], a, up[c].hashes, up[c].prevHashes, up[c].queue, up[c].index)
<1> DEFINE u == up[c]
           x == up'[c]
<1>1. x = [u EXCEPT !.phase = a]
  OBVIOUS
<1>2. u \in Upload(E) /\ u.errno = FALSE
  OBVIOUS
<1> HIDE DEF x, u
<1>3. Goes(x, u, a, u.hashes, u.prevHashes, u.queue, u.index)
  BY <1>1, <1>2 DEF Upload, Kept, Goes
<1> QED BY <1>3 DEF x, u

LEMMA GoesFound ==
  ASSUME up = [d \in Conn |-> up[d]], NEW c \in Conn, NEW E, up[c] \in Upload(E), up[c].errno = FALSE,
         NEW a, NEW b, up' = [up EXCEPT ![c].phase = a, ![c].prevHashes = b]
  PROVE  Goes(up'[c], up[c], a, up[c].hashes, b, up[c].queue, up[c].index)
<1> DEFINE u == up[c]
           x == up'[c]
<1>1. x = [u EXCEPT !.phase = a, !.prevHashes = b]
  OBVIOUS
<1>2. u \in Upload(E) /\ u.errno = FALSE
  OBVIOUS
<1> HIDE DEF x, u
<1>3. Goes(x, u, a, u.hashes, b, u.queue, u.index)
  BY <1>1, <1>2 DEF Upload, Kept, Goes
<1> QED BY <1>3 DEF x, u

LEMMA GoesParsed ==
  ASSUME up = [d \in Conn |-> up[d]], NEW c \in Conn, NEW E, up[c] \in Upload(E), up[c].errno = FALSE,
         NEW a, NEW b, up' = [up EXCEPT ![c].phase = a, ![c].hashes = b]
  PROVE  Goes(up'[c], up[c], a, b, up[c].prevHashes, up[c].queue, up[c].index)
<1> DEFINE u == up[c]
           x == up'[c]
<1>1. x = [u EXCEPT !.phase = a, !.hashes = b]
  OBVIOUS
<1>2. u \in Upload(E) /\ u.errno = FALSE
  OBVIOUS
<1> HIDE DEF x, u
<1>3. Goes(x, u, a, b, u.prevHashes, u.queue, u.index)
  BY <1>1, <1>2 DEF Upload, Kept, Goes
<1> QED BY <1>3 DEF x, u

LEMMA GoesFrom ==
  ASSUME up = [d \in Conn |-> up[d]], NEW c \in Conn, NEW E, up[c] \in Upload(E), up[c].errno = FALSE,
         NEW a, NEW b, up' = [up EXCEPT ![c].phase = a, ![c].index = b]
  PROVE  Goes(up'[c], up[c], a, up[c].hashes, up[c].prevHashes, up[c].queue, b)
<1> DEFINE u == up[c]
           x == up'[c]
<1>1. x = [u EXCEPT !.phase = a, !.index = b]
  OBVIOUS
<1>2. u \in Upload(E) /\ u.errno = FALSE
  OBVIOUS
<1> HIDE DEF x, u
<1>3. Goes(x, u, a, u.hashes, u.prevHashes, u.queue, b)
  BY <1>1, <1>2 DEF Upload, Kept, Goes
<1> QED BY <1>3 DEF x, u

LEMMA GoesClean ==
  ASSUME up = [d \in Conn |-> up[d]], NEW c \in Conn, NEW E, up[c] \in Upload(E), up[c].errno = FALSE,
         NEW a, up' = [up EXCEPT ![c].phase = a, ![c].errno = FALSE]
  PROVE  Goes(up'[c], up[c], a, up[c].hashes, up[c].prevHashes, up[c].queue, up[c].index)
<1> DEFINE u == up[c]
           x == up'[c]
<1>1. x = [u EXCEPT !.phase = a, !.errno = FALSE]
  OBVIOUS
<1>2. u \in Upload(E) /\ u.errno = FALSE
  OBVIOUS
<1> HIDE DEF x, u
<1>3. Goes(x, u, a, u.hashes, u.prevHashes, u.queue, u.index)
  BY <1>1, <1>2 DEF Upload, Kept, Goes
<1> QED BY <1>3 DEF x, u

LEMMA GoesQueue ==
  ASSUME up = [d \in Conn |-> up[d]], NEW c \in Conn, NEW E, up[c] \in Upload(E), up[c].errno = FALSE,
         NEW a, NEW b, up' = [up EXCEPT ![c].phase = a, ![c].queue = b]
  PROVE  Goes(up'[c], up[c], a, up[c].hashes, up[c].prevHashes, b, up[c].index)
<1> DEFINE u == up[c]
           x == up'[c]
<1>1. x = [u EXCEPT !.phase = a, !.queue = b]
  OBVIOUS
<1>2. u \in Upload(E) /\ u.errno = FALSE
  OBVIOUS
<1> HIDE DEF x, u
<1>3. Goes(x, u, a, u.hashes, u.prevHashes, b, u.index)
  BY <1>1, <1>2 DEF Upload, Kept, Goes
<1> QED BY <1>3 DEF x, u

LEMMA GoesUnchanged ==
  ASSUME up = [d \in Conn |-> up[d]], NEW c \in Conn, NEW E, up[c] \in Upload(E), up[c].errno = FALSE,
         NEW a, NEW b, NEW i, up' = [up EXCEPT ![c].phase = a, ![c].index = i, ![c].hashes = b]
  PROVE  Goes(up'[c], up[c], a, b, up[c].prevHashes, up[c].queue, i)
<1> DEFINE u == up[c]
           x == up'[c]
<1>1. x = [u EXCEPT !.phase = a, !.index = i, !.hashes = b]
  OBVIOUS
<1>2. u \in Upload(E) /\ u.errno = FALSE
  OBVIOUS
<1> HIDE DEF x, u
<1>3. Goes(x, u, a, b, u.prevHashes, u.queue, i)
  BY <1>1, <1>2 DEF Upload, Kept, Goes
<1> QED BY <1>3 DEF x, u

LEMMA GoesIndex ==
  ASSUME up = [d \in Conn |-> up[d]], NEW c \in Conn, NEW E, up[c] \in Upload(E), up[c].errno = FALSE,
         NEW i, up' = [up EXCEPT ![c].index = i]
  PROVE  Goes(up'[c], up[c], up[c].phase, up[c].hashes, up[c].prevHashes, up[c].queue, i)
<1> DEFINE u == up[c]
           x == up'[c]
<1>1. x = [u EXCEPT !.index = i]
  OBVIOUS
<1>2. u \in Upload(E) /\ u.errno = FALSE
  OBVIOUS
<1> HIDE DEF x, u
<1>3. Goes(x, u, u.phase, u.hashes, u.prevHashes, u.queue, i)
  BY <1>1, <1>2 DEF Upload, Kept, Goes
<1> QED BY <1>3 DEF x, u

LEMMA GoesTail ==
  ASSUME up = [d \in Conn |-> up[d]], NEW c \in Conn, NEW E, up[c] \in Upload(E), up[c].errno = FALSE,
         NEW b, up' = [up EXCEPT ![c].queue = b]
  PROVE  Goes(up'[c], up[c], up[c].phase, up[c].hashes, up[c].prevHashes, b, up[c].index)
<1> DEFINE u == up[c]
           x == up'[c]
<1>1. x = [u EXCEPT !.queue = b]
  OBVIOUS
<1>2. u \in Upload(E) /\ u.errno = FALSE
  OBVIOUS
<1> HIDE DEF x, u
<1>3. Goes(x, u, u.phase, u.hashes, u.prevHashes, b, u.index)
  BY <1>1, <1>2 DEF Upload, Kept, Goes
<1> QED BY <1>3 DEF x, u

\* The request is refused before anything was written.
Refused(c) ==
  /\ up[c].phase \in {"check", "search", "parse"} /\ up'[c] = Idle
  /\ projects' = projects /\ acked' = acked /\ \A w \in Worker : worker'[c][w] = NoWorker

\* The handler of c reads on.
ReadOn(c) ==
  LET u == up[c]
      x == up'[c]
  IN  /\ projects' = projects /\ acked' = acked /\ \A w \in Worker : worker'[c][w] = NoWorker
      /\ \/ u.phase = "check" /\ u.bad = FALSE /\ Goes(x, u, FirstPhase(u.prev), u.hashes, u.prevHashes, u.queue, u.index)
         \/ u.phase = "search" /\ Goes(x, u, "parse", u.hashes, projects[u.prev], u.queue, u.index)
         \/ /\ u.phase = "parse" /\ u.bad = FALSE
            /\ Goes(x, u, "insert", [i \in DOMAIN u.sent |-> u.sent[i].hash], u.prevHashes, u.queue, u.index)

\* ... has stored the project row with its first hashes ...
Stores(c) ==
  LET u == up[c]
      x == up'[c]
  IN  /\ u.phase = "insert" /\ projects' = [projects EXCEPT ![u.version] = HashChunk(c, 0)]
      /\ acked' = acked /\ \A w \in Worker : worker'[c][w] = NoWorker
      /\ \/ MoreHashes(c, 0) /\ Goes(x, u, "extend", u.hashes, u.prevHashes, u.queue, HASHES_INSERT_MAX)
         \/ ~MoreHashes(c, 0) /\ Goes(x, u, "start", u.hashes, u.prevHashes, u.queue, u.index)

\* ... has added hashes to it ...
Adds(c) ==
  LET u == up[c]
      x == up'[c]
  IN  /\ u.phase \in {"extend", "unchanged"} /\ projects' = WithHashes(u.version, HashChunk(c, u.index))
      /\ \A w \in Worker : worker'[c][w] = NoWorker
      /\ \/ /\ MoreHashes(c, u.index) /\ acked' = acked
            /\ Goes(x, u, u.phase, u.hashes, u.prevHashes, u.queue, u.index + HASHES_INSERT_MAX)
         \/ /\ ~MoreHashes(c, u.index) /\ u.phase = "extend" /\ acked' = acked
            /\ Goes(x, u, "start", u.hashes, u.prevHashes, u.queue, u.index)
         \/ /\ ~MoreHashes(c, u.index) /\ u.phase = "unchanged" /\ acked' = acked \cup {u.version}
            /\ x = Idle

\* ... has started its workers ...
Starts(c) ==
  /\ up[c].phase = "start" /\ projects' = projects /\ acked' = acked
  /\ Goes(up'[c], up[c], "methods", up[c].hashes, up[c].prevHashes, up[c].sent, up[c].index)
  /\ \A w \in Worker : worker'[c][w] = [NoWorker EXCEPT !.pc = "take"]

\* ... has joined them.
Joins(c) ==
  LET u == up[c]
      x == up'[c]
  IN  /\ AllEnded(c) /\ projects' = projects
      /\ \/ /\ u.phase = "methods" /\ u.prev = 0 /\ x = Idle /\ acked' = acked \cup {u.version}
            /\ \A w \in Worker : worker'[c][w] = NoWorker
         \/ /\ u.phase = "methods" /\ u.prev # 0 /\ acked' = acked
            /\ Goes(x, u, "files", u.hashes, u.prevHashes, HashFileQueue(u.prevHashes, u.files), u.index)
            /\ \A w \in Worker : worker'[c][w] = [NoWorker EXCEPT !.pc = "take"]
         \/ /\ u.phase = "files" /\ acked' = acked
            /\ Goes(x, u, "unchanged", FlattenSeq([w \in Worker |-> worker[c][w].got]), u.prevHashes, u.queue, 0)
            /\ \A w \in Worker : worker'[c][w] = NoWorker

LEMMA NoWorkers ==
  ASSUME UploadInv, NEW c \in Conn, up[c].phase \notin {"methods", "files"}
  PROVE  \A w \in Worker : worker[c][w] = NoWorker
BY Parts, Zenon DEF Threads, Busy

LEMMA NewWorkers ==
  ASSUME UploadInv, NEW c \in Conn, NEW t, worker' = [worker EXCEPT ![c] = [w \in Worker |-> t]]
  PROVE  \A w \in Worker : worker'[c][w] = t
<1>1. worker = [d \in Conn |-> [w \in Worker |-> worker[d][w]]]
  BY Parts, Zenon DEF Threads
<1>2. worker'[c] = [w \in Worker |-> t]
  BY <1>1
<1> QED BY <1>2

\* What the handler of c does while no statement fails.
LEMMA HandleGoes ==
  ASSUME UploadInv, CalmInv, NEW c \in Conn, Handle(c), faults' = 0
  PROVE  /\ faults = 0 /\ methods' = methods /\ content' = content /\ crashes' = crashes
         /\ Refused(c) \/ ReadOn(c) \/ Stores(c) \/ Adds(c) \/ Starts(c) \/ Joins(c)
<1> DEFINE u == up[c]
<1>1. ASSUME NEW o, Happens(o) PROVE faults = 0 /\ o = "ok"
  <2>1. faults \in 0..MaxFaults
    BY Parts, Zenon DEF Tables
  <2> QED BY <1>1, <2>1, HappensCounts
<1>2. u.phase # "idle"
  <2>1. u.phase \in {"check", "search", "parse", "insert", "extend", "unchanged", "start", "methods", "files"}
    BY Zenon DEF Handle, Check, SearchPrevious, ParseMethods, AddProject, AddHashes, StartUpload,
                 JoinUpload, JoinUnchanged
  <2> QED BY <2>1
<1>3. Request(u, content, projects)
  BY <1>2, Parts
<1>4. u \in Upload(Entry(u)) /\ up = [d \in Conn |-> up[d]]
  BY <1>3, Parts, Zenon DEF Request
<1>5. faults = 0 => u.errno = FALSE
  BY Zenon DEF CalmInv
<1>6. CASE Check(c)
  <2>1. /\ u.phase = "check" /\ worker' = worker /\ projects' = projects /\ faults' = faults
        /\ methods' = methods /\ crashes' = crashes
        /\ \/ Reply(c, "client")
           \/ /\ ~u.bad /\ up' = [up EXCEPT ![c].phase = FirstPhase(u.prev)]
              /\ content' = content /\ acked' = acked
    BY <1>6, Zenon DEF Check, tables, clients
  <2>2. u.phase \notin {"methods", "files"} /\ u.phase \in {"check", "search", "parse"}
    BY <2>1
  <2>3. \A w \in Worker : worker'[c][w] = NoWorker
    BY <2>1, <2>2, NoWorkers, Zenon
  <2>4. CASE Reply(c, "client")
    BY <1>4, <2>1, <2>2, <2>3, <2>4, ErrorMoves, Zenon DEF Refused
  <2>5. CASE ~Reply(c, "client")
    <3>1. u.bad = FALSE
      <4>1. u.bad \in BOOLEAN
        BY <1>4 DEF Upload
      <4> QED BY <2>1, <2>5, <4>1, Zenon
    <3>2. Goes(up'[c], u, FirstPhase(u.prev), u.hashes, u.prevHashes, u.queue, u.index)
      BY <1>4, <1>5, <2>1, <2>5, GoesTo, Zenon
    <3> QED BY <2>1, <2>3, <2>5, <3>1, <3>2, Zenon DEF ReadOn
  <2> QED BY <2>4, <2>5
<1>7. CASE SearchPrevious(c)
  <2>1. PICK o : /\ Happens(o)
                 /\ u.phase = "search" /\ worker' = worker /\ projects' = projects
                 /\ methods' = methods /\ crashes' = crashes
                 /\ \/ Reply(c, "server")
                    \/ /\ up' = [up EXCEPT ![c].phase = "parse", ![c].prevHashes = projects[u.prev]]
                       /\ content' = content /\ acked' = acked
    BY <1>7, Zenon DEF SearchPrevious, tables, clients
  <2>2. u.phase \notin {"methods", "files"} /\ u.phase \in {"check", "search", "parse"}
    BY <2>1
  <2>3. \A w \in Worker : worker'[c][w] = NoWorker
    BY <2>1, <2>2, NoWorkers, Zenon
  <2>4. faults = 0
    BY <1>1, <2>1
  <2>5. CASE Reply(c, "server")
    BY <1>4, <2>1, <2>2, <2>3, <2>4, <2>5, ErrorMoves, Zenon DEF Refused
  <2>6. CASE ~Reply(c, "server")
    <3>1. Goes(up'[c], u, "parse", u.hashes, projects[u.prev], u.queue, u.index)
      BY <1>4, <1>5, <2>1, <2>4, <2>6, GoesFound, Zenon
    <3> QED BY <2>1, <2>3, <2>4, <2>6, <3>1, Zenon DEF ReadOn
  <2> QED BY <2>5, <2>6
<1>8. CASE ParseMethods(c)
  <2> DEFINE h == [i \in DOMAIN u.sent |-> u.sent[i].hash]
  <2>1. /\ u.phase = "parse" /\ worker' = worker /\ projects' = projects /\ faults' = faults
        /\ methods' = methods /\ crashes' = crashes
        /\ \/ Reply(c, "client")
           \/ /\ ~u.bad /\ up' = [up EXCEPT ![c].phase = "insert", ![c].hashes = h]
              /\ content' = content /\ acked' = acked
    BY <1>8, Zenon DEF ParseMethods, tables, clients
  <2>2. u.phase \notin {"methods", "files"} /\ u.phase \in {"check", "search", "parse"}
    BY <2>1
  <2>3. \A w \in Worker : worker'[c][w] = NoWorker
    BY <2>1, <2>2, NoWorkers, Zenon
  <2>4. CASE Reply(c, "client")
    BY <1>4, <2>1, <2>2, <2>3, <2>4, ErrorMoves, Zenon DEF Refused
  <2>5. CASE ~Reply(c, "client")
    <3>1. u.bad = FALSE
      <4>1. u.bad \in BOOLEAN
        BY <1>4 DEF Upload
      <4> QED BY <2>1, <2>5, <4>1, Zenon
    <3> HIDE DEF h
    <3>2. Goes(up'[c], u, "insert", h, u.prevHashes, u.queue, u.index)
      BY <1>4, <1>5, <2>1, <2>5, GoesParsed, Zenon
    <3> QED BY <2>1, <2>3, <2>5, <3>1, <3>2, Zenon DEF ReadOn, h
  <2> QED BY <2>4, <2>5
<1>9. CASE AddProject(c)
  <2>1. PICK o : /\ Happens(o) /\ u.phase = "insert" /\ worker' = worker
                 /\ methods' = methods /\ crashes' = crashes
                 /\ o # "fail" => projects' = [projects EXCEPT ![u.version] = HashChunk(c, 0)]
                 /\ \/ /\ MoreHashes(c, 0)
                       /\ up' = [up EXCEPT ![c].phase = "extend", ![c].index = HASHES_INSERT_MAX]
                       /\ content' = content /\ acked' = acked
                    \/ o = "ok" => ~MoreHashes(c, 0) /\ AfterAddProject(c, FALSE, FALSE)
    BY <1>9, Zenon DEF AddProject, clients
  <2>2. u.phase \notin {"methods", "files"}
    BY <2>1
  <2>3. \A w \in Worker : worker'[c][w] = NoWorker
    BY <2>1, <2>2, NoWorkers, Zenon
  <2>4. faults = 0 /\ o = "ok" /\ o # "fail"
    BY <1>1, <2>1
  <2>5. CASE /\ MoreHashes(c, 0)
             /\ up' = [up EXCEPT ![c].phase = "extend", ![c].index = HASHES_INSERT_MAX]
             /\ content' = content /\ acked' = acked
    <3>1. Goes(up'[c], u, "extend", u.hashes, u.prevHashes, u.queue, HASHES_INSERT_MAX)
      BY <1>4, <1>5, <2>4, <2>5, GoesFrom, Zenon
    <3> QED BY <2>1, <2>3, <2>4, <2>5, <3>1, Zenon DEF Stores
  <2>6. CASE ~MoreHashes(c, 0) /\ AfterAddProject(c, FALSE, FALSE)
    <3>1. /\ up' = [up EXCEPT ![c].phase = "start", ![c].errno = FALSE]
          /\ content' = content /\ acked' = acked
      BY <2>6, Zenon DEF AfterAddProject, clients
    <3>2. Goes(up'[c], u, "start", u.hashes, u.prevHashes, u.queue, u.index)
      BY <1>4, <1>5, <2>4, <3>1, GoesClean, Zenon
    <3> QED BY <2>1, <2>3, <2>4, <2>6, <3>1, <3>2, Zenon DEF Stores
  <2> QED BY <2>1, <2>4, <2>5, <2>6, Zenon
<1>10. CASE AddHashes(c)
  <2> DEFINE i == u.index + HASHES_INSERT_MAX
             g == HashChunk(c, u.index)
  <2>1. PICK o : /\ Happens(o) /\ u.phase \in {"extend", "unchanged"} /\ worker' = worker
                 /\ methods' = methods /\ crashes' = crashes
                 /\ o # "fail" => projects' = WithHashes(u.version, g)
                 /\ \/ /\ MoreHashes(c, u.index)
                       /\ up' = [up EXCEPT ![c].index = i] /\ content' = content /\ acked' = acked
                    \/ /\ ~MoreHashes(c, u.index) /\ u.phase = "extend"
                       /\ o = "ok" => AfterAddProject(c, FALSE, TRUE)
                    \/ /\ ~MoreHashes(c, u.index) /\ u.phase # "extend"
                       /\ o = "ok" => Reply(c, "success")
    BY <1>10, Zenon DEF AddHashes, clients
  <2> HIDE DEF i, g
  <2>2. u.phase \notin {"methods", "files"}
    BY <2>1
  <2>3. \A w \in Worker : worker'[c][w] = NoWorker
    BY <2>1, <2>2, NoWorkers, Zenon
  <2>4. faults = 0 /\ o = "ok" /\ o # "fail"
    BY <1>1, <2>1
  <2>5. CASE /\ MoreHashes(c, u.index)
             /\ up' = [up EXCEPT ![c].index = i] /\ content' = content /\ acked' = acked
    <3>1. Goes(up'[c], u, u.phase, u.hashes, u.prevHashes, u.queue, i)
      BY <1>4, <1>5, <2>4, <2>5, GoesIndex, Zenon
    <3> QED BY <2>1, <2>3, <2>4, <2>5, <3>1, Zenon DEF Adds, i, g
  <2>6. CASE ~MoreHashes(c, u.index) /\ u.phase = "extend" /\ AfterAddProject(c, FALSE, TRUE)
    <3>1. /\ up' = [up EXCEPT ![c].phase = "start", ![c].errno = FALSE]
          /\ content' = content /\ acked' = acked
      BY <2>6, Zenon DEF AfterAddProject, clients
    <3>2. Goes(up'[c], u, "start", u.hashes, u.prevHashes, u.queue, u.index)
      BY <1>4, <1>5, <2>4, <3>1, GoesClean, Zenon
    <3> QED BY <2>1, <2>3, <2>4, <2>6, <3>1, <3>2, Zenon DEF Adds, g
  <2>7. CASE ~MoreHashes(c, u.index) /\ u.phase # "extend" /\ Reply(c, "success")
    <3>1. up'[c] = Idle /\ content' = content /\ acked' = acked \cup {u.version}
      <4>1. up' = [up EXCEPT ![c] = Idle] /\ content' = content /\ acked' = acked \cup {u.version}
        BY <2>7, Zenon DEF Reply
      <4> QED BY <1>4, <4>1
    <3>2. u.phase = "unchanged"
      BY <2>1, <2>7
    <3> QED BY <2>1, <2>3, <2>4, <2>7, <3>1, <3>2, Zenon DEF Adds, g
  <2> QED BY <2>1, <2>4, <2>5, <2>6, <2>7, Zenon
<1>11. CASE StartUpload(c)
  <2>1. faults = 0
    BY <1>11, Zenon DEF StartUpload, Stop
  <2>2. u.errno = FALSE
    BY <1>5, <2>1
  <2>3. /\ u.phase = "start" /\ projects' = projects /\ acked' = acked /\ content' = content
        /\ methods' = methods /\ crashes' = crashes
        /\ up' = [up EXCEPT ![c].phase = "methods", ![c].queue = u.sent]
        /\ worker' = [worker EXCEPT ![c] = [w \in Worker |-> [NoWorker EXCEPT !.pc = "take"]]]
    BY <1>11, <2>2, Zenon DEF StartUpload, tables, clients
  <2>4. Goes(up'[c], u, "methods", u.hashes, u.prevHashes, u.sent, u.index)
    BY <1>4, <2>2, <2>3, GoesQueue, Zenon
  <2>5. \A w \in Worker : worker'[c][w] = [NoWorker EXCEPT !.pc = "take"]
    BY <2>3, NewWorkers, Zenon
  <2> QED BY <2>1, <2>3, <2>4, <2>5, Zenon DEF Starts
<1>12. CASE JoinUpload(c)
  <2> DEFINE q == HashFileQueue(u.prevHashes, u.files)
  <2>1. /\ u.phase = "methods" /\ AllEnded(c) /\ projects' = projects /\ faults' = faults
        /\ methods' = methods /\ crashes' = crashes
        /\ \/ /\ u.prev = 0 /\ Reply(c, "success")
              /\ worker' = [worker EXCEPT ![c] = [w \in Worker |-> NoWorker]]
           \/ /\ u.prev # 0 /\ up' = [up EXCEPT ![c].phase = "files", ![c].queue = q]
              /\ worker' = [worker EXCEPT ![c] = [w \in Worker |-> [NoWorker EXCEPT !.pc = "take"]]]
              /\ content' = content /\ acked' = acked
    BY <1>12, Zenon DEF JoinUpload, tables, clients
  <2> HIDE DEF q
  <2>2. CASE u.prev = 0
    <3>1. up'[c] = Idle /\ content' = content /\ acked' = acked \cup {u.version}
      <4>1. up' = [up EXCEPT ![c] = Idle] /\ content' = content /\ acked' = acked \cup {u.version}
        BY <2>1, <2>2, Zenon DEF Reply
      <4> QED BY <1>4, <4>1
    <3>2. \A w \in Worker : worker'[c][w] = NoWorker
      BY <2>1, <2>2, NewWorkers, Zenon
    <3> QED BY <2>1, <2>2, <3>1, <3>2, Zenon DEF Joins
  <2>3. CASE u.prev # 0
    <3>1. Goes(up'[c], u, "files", u.hashes, u.prevHashes, q, u.index)
      BY <1>4, <1>5, <2>1, <2>3, GoesQueue, Zenon
    <3>2. \A w \in Worker : worker'[c][w] = [NoWorker EXCEPT !.pc = "take"]
      BY <2>1, <2>3, NewWorkers, Zenon
    <3> QED BY <2>1, <2>3, <3>1, <3>2, Zenon DEF Joins, q
  <2> QED BY <2>2, <2>3
<1>13. CASE JoinUnchanged(c)
  <2> DEFINE h == FlattenSeq([w \in Worker |-> worker[c][w].got])
  <2>1. /\ u.phase = "files" /\ AllEnded(c) /\ projects' = projects /\ faults' = faults
        /\ methods' = methods /\ crashes' = crashes /\ content' = content /\ acked' = acked
        /\ up' = [up EXCEPT ![c].phase = "unchanged", ![c].index = 0, ![c].hashes = h]
        /\ worker' = [worker EXCEPT ![c] = [w \in Worker |-> NoWorker]]
    BY <1>13, Zenon DEF JoinUnchanged, tables, clients
  <2> HIDE DEF h
  <2>2. Goes(up'[c], u, "unchanged", h, u.prevHashes, u.queue, 0)
    BY <1>4, <1>5, <2>1, GoesUnchanged, Zenon
  <2>3. \A w \in Worker : worker'[c][w] = NoWorker
    BY <2>1, NewWorkers, Zenon
  <2> QED BY <2>1, <2>2, <2>3, Zenon DEF Joins, h
<1> QED BY <1>6, <1>7, <1>8, <1>9, <1>10, <1>11, <1>12, <1>13, Zenon DEF Handle

(***************************************************************************)
(* The steps of a worker while no statement fails                           *)
(***************************************************************************)
\* Where worker x is.
Does(x, pc, item, todo, found, got) ==
  /\ x.pc = pc /\ x.item = item /\ x.todo = todo /\ x.found = found /\ x.got = got /\ x.errno = FALSE

\* Worker k of c finds the queue empty ...
Ends(c, k) ==
  LET t == worker[c][k]
  IN  /\ t.pc = "take" /\ up[c].queue = <<>> /\ up'[c] = up[c] /\ methods' = methods
      /\ Does(worker'[c][k], "ended", t.item, <<>>, <<>>, t.got)

\* ... takes an entry from it ...
Takes(c, k) ==
  LET u == up[c]
      t == worker[c][k]
  IN  /\ t.pc = "take" /\ u.queue # <<>> /\ methods' = methods
      /\ Goes(up'[c], u, u.phase, u.hashes, u.prevHashes, Tail(u.queue), u.index)
      /\ Does(worker'[c][k], "select", Head(u.queue), <<>>, <<>>, t.got)

\* ... has looked a method up ...
LooksUp(c, k) ==
  LET t == worker[c][k]
  IN  /\ up[c].phase = "methods" /\ t.pc = "select" /\ up'[c] = up[c] /\ methods' = methods
      /\ Does(worker'[c][k], "write", t.item, MethodList(up[c], t.item, "ok"), <<>>, t.got)

\* The rows worker k of c extends to the version of its upload.
Extends(c, k) == RowsToExtend(Range(worker[c][k].item[1]), Range(worker[c][k].item[2]), up[c].prev)

HashList(rows) == [i \in 1..Cardinality(rows) |-> SetToSeq(rows)[i].hash]

\* ... has looked the methods of unchanged files up ...
LooksUpAll(c, k) ==
  LET t == worker[c][k]
      rows == Extends(c, k)
  IN  /\ up[c].phase = "files" /\ t.pc = "select" /\ up'[c] = up[c] /\ methods' = methods
      /\ \/ rows = {} /\ Does(worker'[c][k], "take", t.item, <<>>, <<>>, t.got)
         \/ /\ rows # {}
            /\ Does(worker'[c][k], "write", t.item, Updates(rows, up[c].version, {}), HashList(rows), t.got)

\* ... has sent a statement.
Sends(c, k) ==
  LET t == worker[c][k]
      s == Head(t.todo)
      x == worker'[c][k]
  IN  /\ t.pc = "write" /\ up'[c] = up[c]
      /\ (s.op = "author" /\ methods' = methods) \/ Inserted(s) \/ Updated(s)
      /\ \/ Len(t.todo) > 1 /\ Does(x, "write", t.item, Tail(t.todo), t.found, t.got)
         \/ Len(t.todo) = 1 /\ Does(x, "take", t.item, <<>>, <<>>, t.got \o t.found)

Rest(c, k) == \A w \in Worker : w # k => worker'[c][w] = worker[c][w]

LEMMA SetRest ==
  ASSUME UploadInv, NEW c \in Conn, NEW k \in Worker, NEW t, Set(c, k, t)
  PROVE  Rest(c, k) /\ worker'[c][k] = t
<1>1. worker = [d \in Conn |-> [w \in Worker |-> worker[d][w]]]
  BY Parts, Zenon DEF Threads
<1>2. worker' = [worker EXCEPT ![c][k] = t]
  BY Zenon DEF Set
<1>3. worker'[c][k] = t /\ \A w \in Worker : w # k => worker'[c][w] = worker[c][w]
  BY <1>1, <1>2
<1> QED BY <1>3, Zenon DEF Rest

\* queryWithRetry after an attempt that went well.
LEMMA AttemptGoes ==
  ASSUME NEW c, NEW me, NEW v, NEW p, NEW ms, NEW E, me \in Thread(v, p, ms, E)
  PROVE  Does(AfterAttempt(c, me, FALSE), "take", me.item, <<>>, <<>>, me.got \o me.found)
<1> DEFINE d == [me EXCEPT !.pc = "take", !.todo = <<>>, !.errno = FALSE, !.got = @ \o me.found, !.found = <<>>]
<1>1. AfterAttempt(c, me, FALSE) = d
  BY Zenon DEF AfterAttempt
<1>2. /\ d.pc = "take" /\ d.item = me.item /\ d.todo = <<>> /\ d.found = <<>>
      /\ d.got = me.got \o me.found /\ d.errno = FALSE
  BY DEF Thread
<1> HIDE DEF d
<1> QED BY <1>1, <1>2, Zenon DEF Does

LEMMA NoErrno ==
  ASSUME NEW s PROVE Errno(s, FALSE, "ok") = FALSE
BY Zenon DEF Errno

\* What worker k of c does while no statement fails.
LEMMA WorkGoes ==
  ASSUME UploadInv, CalmInv, NEW c \in Conn, NEW k \in Worker, Work(c, k), faults' = 0
  PROVE  /\ faults = 0 /\ projects' = projects /\ content' = content /\ acked' = acked /\ crashes' = crashes
         /\ Rest(c, k)
         /\ Ends(c, k) \/ Takes(c, k) \/ LooksUp(c, k) \/ LooksUpAll(c, k) \/ Sends(c, k)
<1> DEFINE u == up[c]
           t == worker[c][k]
           ms == content[u.version]
           x == worker'[c][k]
<1>1. ASSUME NEW o, Happens(o) PROVE faults = 0 /\ o = "ok"
  <2>1. faults \in 0..MaxFaults
    BY Parts, Zenon DEF Tables
  <2> QED BY <1>1, <2>1, HappensCounts
<1>2. t.pc # "idle"
  BY Zenon DEF Work, TakeItem, SelectMethod, SelectUnchanged, Execute
<1>3. /\ Busy(u, t, content) /\ t \in Thread(u.version, u.prev, ms, Entry(u))
      /\ u \in Upload(Entry(u)) /\ u.phase \in {"methods", "files"}
  BY <1>2, WorkerAt, Zenon
<1>4. faults = 0 => Calm(u, t, methods) /\ u.errno = FALSE
  BY Zenon DEF CalmInv
<1>5. t.got \o <<>> = t.got
  <2> DEFINE H == HashesOf(ms)
             g == t.got
  <2>1. g \in Seq(H)
    BY <1>3 DEF Thread
  <2> HIDE DEF H, g
  <2>2. g \o <<>> = g
    BY <2>1
  <2> QED BY <2>2 DEF g
<1>6. CASE TakeItem(c, k)
  <2>1. /\ t.pc = "take" /\ projects' = projects /\ content' = content /\ acked' = acked
        /\ crashes' = crashes /\ faults' = faults /\ methods' = methods
    BY <1>6, Zenon DEF TakeItem, tables, clients
  <2>2. faults = 0 /\ t.pc # "write"
    BY <2>1
  <2>3. t.todo = <<>> /\ t.found = <<>> /\ t.errno = FALSE /\ u.errno = FALSE
    BY <1>4, <2>2, Zenon DEF Calm
  <2>4. CASE u.queue = <<>>
    <3> DEFINE y == [t EXCEPT !.pc = "ended"]
    <3>1. Set(c, k, y) /\ up' = up
      BY <1>6, <2>4, Zenon DEF TakeItem
    <3>2. /\ y.pc = "ended" /\ y.item = t.item /\ y.todo = t.todo /\ y.found = t.found
          /\ y.got = t.got /\ y.errno = t.errno
      BY <1>3 DEF Thread
    <3> HIDE DEF y
    <3>3. Rest(c, k) /\ x = y
      BY <3>1, SetRest
    <3>4. Does(x, "ended", t.item, <<>>, <<>>, t.got)
      BY <2>3, <3>2, <3>3, Zenon DEF Does
    <3> QED BY <2>1, <2>2, <2>4, <3>1, <3>3, <3>4, Zenon DEF Ends
  <2>5. CASE u.queue # <<>>
    <3> DEFINE i == Head(u.queue)
               y == [t EXCEPT !.pc = "select", !.item = i, !.tries = 0, !.errno = FALSE]
    <3>1. Set(c, k, y) /\ up' = [up EXCEPT ![c].queue = Tail(@)]
      BY <1>6, <2>5, Zenon DEF TakeItem
    <3>2. /\ y.pc = "select" /\ y.item = i /\ y.todo = t.todo /\ y.found = t.found
          /\ y.got = t.got /\ y.errno = FALSE
      BY <1>3 DEF Thread
    <3> HIDE DEF y, i
    <3>3. Rest(c, k) /\ x = y
      BY <3>1, SetRest
    <3>4. Does(x, "select", i, <<>>, <<>>, t.got)
      BY <2>3, <3>2, <3>3, Zenon DEF Does
    <3>5. up = [d \in Conn |-> up[d]]
      BY Parts
    <3>6. up' = [up EXCEPT ![c].queue = Tail(u.queue)]
      BY <3>1, <3>5
    <3>7. Goes(up'[c], u, u.phase, u.hashes, u.prevHashes, Tail(u.queue), u.index)
      BY <1>3, <2>3, <3>5, <3>6, GoesTail, Zenon
    <3> QED BY <2>1, <2>2, <2>5, <3>3, <3>4, <3>7, Zenon DEF Takes, i
  <2> QED BY <2>4, <2>5
<1>7. CASE SelectMethod(c, k)
  <2>1. /\ u.phase = "methods" /\ t.pc = "select" /\ projects' = projects /\ content' = content
        /\ acked' = acked /\ crashes' = crashes /\ up' = up /\ methods' = methods
    BY <1>7, Zenon DEF SelectMethod, tables, clients
  <2>2. PICK o : Happens(o) /\ Set(c, k, [t EXCEPT !.pc = "write", !.todo = MethodList(u, t.item, o)])
    BY <1>7, Zenon DEF SelectMethod, MethodList
  <2>3. faults = 0 /\ o = "ok" /\ t.pc # "write"
    BY <1>1, <2>1, <2>2
  <2>4. t.todo = <<>> /\ t.found = <<>> /\ t.errno = FALSE
    BY <1>4, <2>3, Zenon DEF Calm
  <2> DEFINE l == MethodList(u, t.item, "ok")
             y == [t EXCEPT !.pc = "write", !.todo = l]
  <2>5. Set(c, k, y)
    BY <2>2, <2>3, Zenon
  <2> HIDE DEF l
  <2>6. /\ y.pc = "write" /\ y.item = t.item /\ y.todo = l /\ y.found = t.found
        /\ y.got = t.got /\ y.errno = t.errno
    BY <1>3 DEF Thread
  <2> HIDE DEF y
  <2>7. Rest(c, k) /\ x = y
    BY <2>5, SetRest
  <2>8. Does(x, "write", t.item, l, <<>>, t.got)
    BY <2>4, <2>6, <2>7, Zenon DEF Does
  <2> QED BY <2>1, <2>3, <2>7, <2>8, Zenon DEF LooksUp, l
<1>8. CASE SelectUnchanged(c, k)
  <2> DEFINE rows == Extends(c, k)
             hs == HashList(rows)
             l == Updates(rows, u.version, {})
             b == [t EXCEPT !.found = <<>>]
             y == [t EXCEPT !.pc = "write", !.todo = l, !.found = hs]
  <2>1. /\ u.phase = "files" /\ t.pc = "select" /\ projects' = projects /\ content' = content
        /\ acked' = acked /\ crashes' = crashes /\ up' = up /\ methods' = methods
    BY <1>8, Zenon DEF SelectUnchanged, tables, clients
  <2>2. PICK o : /\ Happens(o)
                 /\ o = "ok" => \/ rows = {} /\ Set(c, k, AfterAttempt(c, b, FALSE))
                                \/ rows # {} /\ Set(c, k, y)
    BY <1>8, Zenon DEF SelectUnchanged, Extends, HashList
  <2>3. faults = 0 /\ o = "ok" /\ t.pc # "write" /\ t.pc \in {"select", "write"}
    BY <1>1, <2>1, <2>2
  <2>4. t.todo = <<>> /\ t.found = <<>> /\ t.errno = FALSE
    BY <1>4, <2>3, Zenon DEF Calm
  <2> HIDE DEF rows, l, hs
  <2>5. CASE rows = {} /\ Set(c, k, AfterAttempt(c, b, FALSE))
    <3>1. Busy(u, b, content)
      <4> HIDE DEF u, t
      <4> QED BY <1>3, <2>3, FoundBusy
    <3>2. b.item = t.item /\ b.got = t.got /\ b.found = <<>>
      BY <1>3 DEF Thread
    <3> HIDE DEF b
    <3>3. b \in Thread(u.version, u.prev, ms, Entry(u))
      BY <3>1, Zenon DEF Busy
    <3>4. Does(AfterAttempt(c, b, FALSE), "take", b.item, <<>>, <<>>, b.got \o b.found)
      BY <3>3, AttemptGoes
    <3>5. Does(AfterAttempt(c, b, FALSE), "take", t.item, <<>>, <<>>, t.got)
      BY <1>5, <3>2, <3>4, Zenon
    <3>6. Rest(c, k) /\ x = AfterAttempt(c, b, FALSE)
      BY <2>5, SetRest
    <3> QED BY <2>1, <2>3, <2>5, <3>5, <3>6, Zenon DEF LooksUpAll, rows
  <2>6. CASE rows # {} /\ Set(c, k, y)
    <3>1. /\ y.pc = "write" /\ y.item = t.item /\ y.todo = l /\ y.found = hs
          /\ y.got = t.got /\ y.errno = t.errno
      BY <1>3 DEF Thread
    <3> HIDE DEF y
    <3>2. Rest(c, k) /\ x = y
      BY <2>6, SetRest
    <3>3. Does(x, "write", t.item, l, hs, t.got)
      BY <2>4, <3>1, <3>2, Zenon DEF Does
    <3> QED BY <2>1, <2>3, <2>6, <3>2, <3>3, Zenon DEF LooksUpAll, rows, l, hs
  <2> QED BY <2>2, <2>3, <2>5, <2>6
<1>9. CASE Execute(c, k)
  <2> DEFINE s == Head(t.todo)
             S == Statement(u.version, u.prev, ms)
  <2>1. /\ t.pc = "write" /\ up' = up /\ content' = content /\ acked' = acked /\ crashes' = crashes
    BY <1>9, Zenon DEF Execute, clients
  <2>2. PICK o : /\ Happens(o) /\ Write(s, o)
                 /\ Set(c, k, IF Len(t.todo) > 1 THEN [t EXCEPT !.todo = Tail(@), !.errno = Errno(s, t.errno, o)]
                              ELSE AfterAttempt(c, t, Errno(s, t.errno, o)))
    BY <1>9, Zenon DEF Execute
  <2>3. faults = 0 /\ o = "ok" /\ o # "fail"
    BY <1>1, <2>2
  <2>4. t.errno = FALSE
    BY <1>4, <2>3, Zenon DEF Calm
  <2>5. Errno(s, t.errno, o) = FALSE
    BY <2>3, <2>4, NoErrno
  <2>6. Len(t.todo) # 0 /\ t.todo \in Seq(S)
    <3>1. Len(t.todo) # 0
      BY <1>3, <2>1, Zenon DEF Busy
    <3> QED BY <1>3, <3>1 DEF Thread
  <2>7. Len(t.todo) \in Nat /\ s \in S
    <3> HIDE DEF S
    <3> QED BY <2>6
  <2>8. Len(t.todo) > 1 \/ Len(t.todo) = 1
    <3>1. \A n \in Nat : n # 0 => n > 1 \/ n = 1
      OBVIOUS
    <3> QED BY <2>6, <2>7, <3>1, Zenon
  <2> HIDE DEF s
  <2>9. (s.op = "author" /\ methods' = methods) \/ Inserted(s) \/ Updated(s)
    <3>1. s.op \in {"author", "insert", "update"}
      BY <2>7, StatementKinds
    <3>2. CASE s.op = "author"
      <4>1. s.op # "insert" /\ s.op # "update"
        BY <3>2
      <4> QED BY <2>2, <3>2, <4>1, Zenon DEF Write, createAuthorIfNotExists
    <3>3. CASE s.op = "insert"
      <4>1. s.op # "author" /\ s.op # "update"
        BY <3>3
      <4> QED BY <2>2, <2>3, <3>3, <4>1, Zenon DEF Write, createAuthorIfNotExists, Inserted, InsertRow
    <3>4. CASE s.op = "update"
      <4>1. s.op # "author" /\ s.op # "insert"
        BY <3>4
      <4> QED BY <2>2, <2>3, <3>4, <4>1, Zenon DEF Write, createAuthorIfNotExists, Updated, KeyOf
    <3> QED BY <3>1, <3>2, <3>3, <3>4
  <2>10. projects' = projects
    <3>1. s.op \in {"author", "insert", "update"}
      BY <2>7, StatementKinds
    <3>2. CASE s.op = "author"
      <4>1. s.op # "insert" /\ s.op # "update"
        BY <3>2
      <4> QED BY <2>2, <3>2, <4>1, Zenon DEF Write, createAuthorIfNotExists
    <3>3. CASE s.op = "insert"
      <4>1. s.op # "author" /\ s.op # "update"
        BY <3>3
      <4> QED BY <2>2, <3>3, <4>1, Zenon DEF Write, createAuthorIfNotExists
    <3>4. CASE s.op = "update"
      <4>1. s.op # "author" /\ s.op # "insert"
        BY <3>4
      <4> QED BY <2>2, <3>4, <4>1, Zenon DEF Write, createAuthorIfNotExists
    <3> QED BY <3>1, <3>2, <3>3, <3>4
  <2>11. CASE Len(t.todo) > 1
    <3> DEFINE y == [t EXCEPT !.todo = Tail(@), !.errno = FALSE]
    <3>1. Set(c, k, y)
      BY <2>2, <2>5, <2>11, Zenon
    <3>2. /\ y.pc = t.pc /\ y.item = t.item /\ y.todo = Tail(t.todo) /\ y.found = t.found
          /\ y.got = t.got /\ y.errno = FALSE
      BY <1>3 DEF Thread
    <3> HIDE DEF y
    <3>3. Rest(c, k) /\ x = y
      BY <3>1, SetRest
    <3>4. Does(x, "write", t.item, Tail(t.todo), t.found, t.got)
      BY <2>1, <3>2, <3>3, Zenon DEF Does
    <3> QED BY <2>1, <2>3, <2>9, <2>10, <2>11, <3>3, <3>4, Zenon DEF Sends, s
  <2>12. CASE Len(t.todo) = 1
    <3>1. ~(Len(t.todo) > 1)
      BY <2>12
    <3>2. Set(c, k, AfterAttempt(c, t, FALSE))
      BY <2>2, <2>5, <3>1, Zenon
    <3>3. Rest(c, k) /\ x = AfterAttempt(c, t, FALSE)
      BY <3>2, SetRest
    <3>4. Does(x, "take", t.item, <<>>, <<>>, t.got \o t.found)
      BY <1>3, <3>3, AttemptGoes, Zenon
    <3> QED BY <2>1, <2>3, <2>9, <2>10, <2>12, <3>3, <3>4, Zenon DEF Sends, s
  <2> QED BY <2>8, <2>11, <2>12
<1> QED BY <1>6, <1>7, <1>8, <1>9, Zenon DEF Work

(***************************************************************************)
(* The lists of statements, one by one                                      *)
(***************************************************************************)
\* A group of statements ends with the one that writes the row.
LEMMA GroupHas ==
  ASSUME NEW S, NEW m, NEW v, NEW as, IsFiniteSet(as), NEW write \in S,
         write.method = m, Named(write) \subseteq as,
         \A a \in as : AuthorStatement(a, m, v) \in S
  PROVE  Group(m, v, as, write) \in Grouped(S) /\ write \in Range(Group(m, v, as, write))
<1> DEFINE c == Cardinality(as)
           h == SetToSeq(as)
           x == [i \in 1..c |-> AuthorStatement(h[i], m, v)]
           z == x \o <<write>>
<1>1. Group(m, v, as, write) = z
  BY Zenon DEF Group, AuthorStatement
<1>2. c \in Nat /\ \A i \in 1..c : h[i] \in as
  BY SetToSeqLists, Zenon
<1> HIDE DEF h, c
<1>3. Group(m, v, as, write) \in Grouped(S)
  BY GroupGrouped
<1>4. x \in Seq(S) /\ <<write>> \in Seq(S) /\ Len(<<write>>) = 1 /\ <<write>>[1] = write
  <2> DEFINE e(i) == AuthorStatement(h[i], m, v)
  <2>1. \A i \in 1..c : e(i) \in S
    BY <1>2, Zenon
  <2> HIDE DEF e
  <2>2. [i \in 1..c |-> e(i)] \in Seq(S)
    BY <1>2, <2>1
  <2> QED BY <2>2, SingletonSeq DEF e
<1> HIDE DEF x
<1>5. z \in Seq(S) /\ Len(z) = Len(x) + 1 /\ z[Len(x) + 1] = write /\ Len(x) \in Nat
  <2>1. /\ z \in Seq(S) /\ Len(z) = Len(x) + Len(<<write>>)
        /\ \A i \in 1..Len(<<write>>) : z[Len(x) + i] = <<write>>[i]
    BY <1>4, ConcatSeq
  <2>2. 1 \in 1..1 /\ Len(x) \in Nat
    BY <1>4
  <2> QED BY <1>4, <2>1, <2>2, Zenon
<1> HIDE DEF z
<1>6. Len(x) + 1 \in DOMAIN z
  BY <1>5
<1> QED BY <1>1, <1>3, <1>5, <1>6, Zenon DEF Range

\* The statements of list l update rows, every one of them.
UpdatesOf(l, rows) ==
  /\ Len(l) \in Nat
  /\ \A i \in 1..Len(l) : l[i].op # "author" =>
       l[i].op = "update" /\ \E r \in rows : l[i].method = AsMethod(r) /\ KeyOf(l[i]) = Key(r)
  /\ \A r \in rows : \E i \in 1..Len(l) :
       l[i].op = "update" /\ l[i].method = AsMethod(r) /\ KeyOf(l[i]) = Key(r)

LEMMA UpdatesWrite ==
  ASSUME NEW rows, IsFiniteSet(rows), rows # {}, NEW v, NEW as, IsFiniteSet(as)
  PROVE  UpdatesOf(Updates(rows, v, as), rows)
<1> DEFINE U(r) == UpdateStatement(AsMethod(r), r.start, v, as)
           of(r) == {AuthorStatement(a, AsMethod(r), v) : a \in as}
           A == UNION {of(r) : r \in rows}
           W == {U(r) : r \in rows}
           S == A \cup W
           l == Updates(rows, v, as)
           n == Cardinality(rows)
           f == SetToSeq(rows)
           g(i) == updateMethod(AsMethod(f[i]), f[i].start, v, as)
           ss == [i \in 1..n |-> g(i)]
<1>0. \A r \in rows : \A a \in as : AuthorStatement(a, AsMethod(r), v) \in S
  <2>1. \A r \in rows : \A a \in as : AuthorStatement(a, AsMethod(r), v) \in of(r)
    BY Zenon
  <2>2. \A r \in rows : of(r) \subseteq A
    <3> HIDE DEF of
    <3> QED OBVIOUS
  <2> QED BY <2>1, <2>2, Zenon
<1>1. \A r \in rows : U(r).op = "update" /\ U(r).method = AsMethod(r) /\ KeyOf(U(r)) = Key(r)
  BY DEF UpdateStatement, KeyOf, Key, AsMethod
<1>2. \A s \in A : s.op = "author"
  <2>1. \A a, m : AuthorStatement(a, m, v).op = "author"
    BY DEF AuthorStatement
  <2> QED BY <2>1, Zenon
<1>3. \A s \in S : s.op # "author" =>
         s.op = "update" /\ \E r \in rows : s.method = AsMethod(r) /\ KeyOf(s) = Key(r)
  <2> HIDE DEF U, A
  <2> QED BY <1>1, <1>2, Zenon
<1>4. \A r \in rows : UpdateStatement(AsMethod(r), r.start, v, as) \in S
  BY Zenon
<1>6. /\ n \in Nat /\ (\A i \in 1..n : f[i] \in rows) /\ \A r \in rows : \E i \in 1..n : f[i] = r
  BY SetToSeqLists, Zenon
<1>7. l = FlattenSeq(ss)
  BY Zenon DEF Updates
<1>8. ASSUME NEW r \in rows
      PROVE  LET x == updateMethod(AsMethod(r), r.start, v, as)
             IN  x \in Grouped(S) /\ U(r) \in Range(x)
  <2> DEFINE write == U(r)
             m == AsMethod(r)
  <2>1. updateMethod(m, r.start, v, as) = Group(m, v, as, write)
    BY Zenon DEF updateMethod, UpdateStatement
  <2>2. write \in S /\ write.method = m /\ Named(write) \subseteq as
    <3>1. write.op = "update" /\ write.authors = as
      BY DEF UpdateStatement
    <3>2. write \in S /\ write.method = m
      BY <1>1, <1>4, Zenon
    <3>3. Named(write) \subseteq as
      <4>1. write.op # "author"
        BY <3>1
      <4> HIDE DEF U
      <4> QED BY <3>1, <4>1, Zenon DEF Named
    <3> QED BY <3>2, <3>3, Zenon
  <2> HIDE DEF U, A, S, m, of, write
  <2>3. \A a \in as : AuthorStatement(a, m, v) \in S
    BY <1>0, Zenon DEF m
  <2>4. Group(m, v, as, write) \in Grouped(S) /\ write \in Range(Group(m, v, as, write))
    BY <2>2, <2>3, GroupHas
  <2> QED BY <2>1, <2>4, Zenon DEF write, m
<1> HIDE DEF U, A, W, S, n, f, of
<1>9. l \in Grouped(S)
  BY <1>0, <1>4, UpdatesGrouped
<1>10. l \in Seq(S)
  BY <1>9, Zenon DEF Grouped
<1>11. \A i \in 1..n : g(i) \in Seq(S)
  BY <1>6, <1>8, Zenon DEF Grouped
<1>12. \A i \in 1..n : U(f[i]) \in Range(g(i))
  BY <1>6, <1>8, Zenon
<1> HIDE DEF g
<1> DEFINE D == Seq(S)
<1>13. \A i \in 1..n : g(i) \in D
  BY <1>11
<1> HIDE DEF D
<1>14. ss \in Seq(D) /\ Len(ss) = n /\ \A i \in 1..n : ss[i] = g(i)
  BY <1>6, <1>13
<1> HIDE DEF ss
<1>15. ss \in Seq(Seq(S))
  BY <1>14 DEF D
<1>16. ASSUME NEW r \in rows PROVE U(r) \in Range(l)
  <2>1. PICK i \in 1..n : f[i] = r
    BY <1>6
  <2>2. U(r) \in Range(ss[i])
    BY <1>12, <1>14, <2>1, Zenon
  <2>3. i \in 1..Len(ss)
    BY <1>14, <2>1
  <2>4. \A k \in 1..Len(ss) : \A x \in Range(ss[k]) : x \in Range(FlattenSeq(ss))
    BY <1>15, FlattenHas
  <2> QED BY <1>7, <2>2, <2>3, <2>4, Zenon
<1> HIDE DEF l
<1>5. \A i \in 1..Len(l) : l[i] \in S
  BY <1>10
<1>17. DOMAIN l = 1..Len(l) /\ Len(l) \in Nat
  BY <1>10
<1>19. ASSUME NEW r \in rows
       PROVE  \E i \in 1..Len(l) : l[i].op = "update" /\ l[i].method = AsMethod(r) /\ KeyOf(l[i]) = Key(r)
  <2>1. PICK i \in 1..Len(l) : l[i] = U(r)
    BY <1>16, <1>17, Zenon DEF Range
  <2> QED BY <1>1, <2>1, Zenon
<1>20. \A i \in 1..Len(l) : l[i].op # "author" =>
          l[i].op = "update" /\ \E r \in rows : l[i].method = AsMethod(r) /\ KeyOf(l[i]) = Key(r)
  BY <1>3, <1>5, Zenon
<1> QED BY <1>17, <1>19, <1>20, Zenon DEF l, UpdatesOf

\* The list of a worker that has looked method item up: it inserts its row, or it
\* updates those that end at the previous version.
MethodWrites(l, item, rows, v) ==
  /\ Len(l) \in Nat
  /\ \A i \in 1..Len(l) : l[i].op # "author" => l[i].method = item
  /\ \/ \A i \in 1..Len(l) : l[i].op # "author" => l[i].op = "insert" /\ l[i].version = v
     \/ \A i \in 1..Len(l) : l[i].op # "author" =>
          l[i].op = "update" /\ \E r \in rows : KeyOf(l[i]) = Key(r)
  /\ \E i \in 1..Len(l) : Writes(l[i], item)

LEMMA MethodListWrites ==
  ASSUME NEW u, NEW item \in Method, methods \subseteq Row, IsFiniteSet(methods), IsFiniteSet(u.as)
  PROVE  MethodWrites(MethodList(u, item, "ok"), item,
                      RowsToExtend({item.hash}, {item.file}, u.prev), u.version)
<1> DEFINE l == MethodList(u, item, "ok")
           rows == RowsToExtend({item.hash}, {item.file}, u.prev)
           v == u.version
           as == u.as
<1>1. CASE u.prev = 0 \/ rows = {}
  <2> DEFINE write == InsertStatement(item, v, as)
             A == {AuthorStatement(a, item, v) : a \in as}
             S == A \cup {write}
  <2>1. /\ write.op = "insert" /\ write.method = item /\ write.version = v /\ write.authors = as
        /\ write.op # "author"
    BY DEF InsertStatement
  <2>2. \A s \in A : s.op = "author"
    BY DEF AuthorStatement
  <2>3. l = Group(item, v, as, write)
    BY <1>1, Zenon DEF MethodList, addNewMethod, InsertStatement
  <2>4. write \in S /\ \A a \in as : AuthorStatement(a, item, v) \in S
    OBVIOUS
  <2>5. Named(write) \subseteq as
    BY <2>1, Zenon DEF Named
  <2> HIDE DEF write, A
  <2>6. \A s \in S : s.op = "author" \/ s = write
    BY <2>2, Zenon
  <2> HIDE DEF S, l, v, as
  <2>7. Group(item, v, as, write) \in Grouped(S) /\ write \in Range(Group(item, v, as, write))
    <3>1. IsFiniteSet(as)
      BY DEF as
    <3> QED BY <2>1, <2>4, <2>5, <3>1, GroupHas
  <2>8. l \in Seq(S) /\ write \in Range(l)
    BY <2>3, <2>7, Zenon DEF Grouped
  <2>9. Len(l) \in Nat /\ DOMAIN l = 1..Len(l) /\ \A i \in 1..Len(l) : l[i] \in S
    BY <2>8
  <2>10. \A i \in 1..Len(l) : l[i].op # "author" => l[i] = write
    BY <2>6, <2>9, Zenon
  <2>11. \E i \in 1..Len(l) : Writes(l[i], item)
    <3>1. PICK i \in 1..Len(l) : l[i] = write
      BY <2>8, <2>9, Zenon DEF Range
    <3> QED BY <2>1, <3>1, Zenon DEF Writes
  <2>12. \A i \in 1..Len(l) : l[i].op # "author" =>
            l[i].method = item /\ l[i].op = "insert" /\ l[i].version = v
    BY <2>1, <2>10, Zenon
  <2> QED BY <2>9, <2>11, <2>12, Zenon DEF l, v, MethodWrites
<1>2. CASE u.prev # 0 /\ rows # {}
  <2>1. l = Updates(rows, v, as)
    BY <1>2, Zenon DEF MethodList
  <2>2. \A r \in rows : AsMethod(r) = item
    <3> SUFFICES ASSUME NEW r \in rows PROVE AsMethod(r) = item
      OBVIOUS
    <3>1. r.hash = item.hash /\ r.file = item.file
      BY DEF RowsToExtend
    <3>2. item = [hash |-> item.hash, file |-> item.file]
      BY DEF Method
    <3> QED BY <3>1, <3>2, Zenon DEF AsMethod
  <2>3. rows \subseteq methods
    BY DEF RowsToExtend
  <2> HIDE DEF rows, l, v, as
  <2>4. IsFiniteSet(rows) /\ IsFiniteSet(as)
    <3>1. IsFiniteSet(rows)
      BY <2>3, FS_Subset
    <3> QED BY <3>1 DEF as
  <2>5. /\ Len(l) \in Nat
        /\ \A i \in 1..Len(l) : l[i].op # "author" =>
                l[i].op = "update" /\ \E r \in rows : l[i].method = AsMethod(r) /\ KeyOf(l[i]) = Key(r)
        /\ \A r \in rows : \E i \in 1..Len(l) :
                l[i].op = "update" /\ l[i].method = AsMethod(r) /\ KeyOf(l[i]) = Key(r)
    <3>1. UpdatesOf(Updates(rows, v, as), rows)
      BY <1>2, <2>4, UpdatesWrite
    <3> QED BY <2>1, <3>1, Zenon DEF UpdatesOf
  <2>6. \A i \in 1..Len(l) : l[i].op # "author" =>
           l[i].method = item /\ l[i].op = "update" /\ \E r \in rows : KeyOf(l[i]) = Key(r)
    BY <2>2, <2>5, Zenon
  <2>7. \E i \in 1..Len(l) : Writes(l[i], item)
    <3>1. PICK r \in rows : TRUE
      BY <1>2
    <3>2. PICK i \in 1..Len(l) : l[i].op = "update" /\ l[i].method = AsMethod(r)
      BY <2>5
    <3>3. l[i].op # "author"
      BY <3>2
    <3> QED BY <2>2, <3>2, <3>3, Zenon DEF Writes
  <2> QED BY <2>5, <2>6, <2>7, Zenon DEF l, rows, MethodWrites
<1> QED BY <1>1, <1>2, Zenon

\* The hashes updateUnchangedFiles returns are those of its rows.
LEMMA HashListHas ==
  ASSUME NEW rows, IsFiniteSet(rows)
  PROVE  Range(HashList(rows)) = {r.hash : r \in rows}
<1> DEFINE n == Cardinality(rows)
           f == SetToSeq(rows)
<1>1. /\ n \in Nat /\ (\A i \in 1..n : f[i] \in rows) /\ \A r \in rows : \E i \in 1..n : f[i] = r
  BY SetToSeqLists, Zenon
<1>2. HashList(rows) = [i \in 1..n |-> f[i].hash]
  BY Zenon DEF HashList
<1> HIDE DEF n, f
<1>3. DOMAIN HashList(rows) = 1..n /\ \A i \in 1..n : HashList(rows)[i] = f[i].hash
  BY <1>2
<1>4. \A h : h \in Range(HashList(rows)) <=> \E i \in 1..n : h = f[i].hash
  BY <1>3, Zenon DEF Range
<1>5. \A h : h \in {r.hash : r \in rows} <=> \E i \in 1..n : h = f[i].hash
  BY <1>1
<1> DEFINE A == Range(HashList(rows))
           B == {r.hash : r \in rows}
<1>6. \A h : h \in A <=> h \in B
  BY <1>4, <1>5, Zenon
<1> HIDE DEF A, B
<1>7. A = B
  BY <1>6
<1> QED BY <1>7 DEF A, B

(***************************************************************************)
(* The rows after a statement                                               *)
(***************************************************************************)
Keeps(ms, ms2) == \A r \in ms : \E q \in ms2 : Key(q) = Key(r)

\* Row q is the one statement s of an upload of version v wrote.
Wrote(q, s, v, ms) ==
  /\ s.op # "author" /\ Key(q) = Target(s) /\ AsMethod(q) = s.method /\ q.end = v
  /\ s.op = "insert" => q.start = v
  /\ s.op = "update" => \E r \in ms : /\ Key(r) = KeyOf(s) /\ AsMethod(r) = s.method
                                      /\ r.start = q.start /\ r.end <= v

\* The rows ms2 after statement s, of rows ms.
Writing(s, v, ms, ms2) ==
  /\ Keeps(ms, ms2)
  /\ \A q \in ms2 : q \in ms \/ Wrote(q, s, v, ms)
  /\ \A w \in Version : \A m : w <= v /\ Spanned(w, m, ms) => Spanned(w, m, ms2)
  /\ s.op = "insert" \/ (s.op = "update" /\ \E r \in ms : Key(r) = KeyOf(s)) => Spanned(v, s.method, ms2)

LEMMA KeyMethod ==
  ASSUME NEW m \in Method, NEW r, NEW st, Key(r) = <<m.hash, m.file, st>>
  PROVE  AsMethod(r) = m /\ r.hash = m.hash /\ r.file = m.file /\ r.start = st
<1>1. r.hash = m.hash /\ r.file = m.file /\ r.start = st
  BY DEF Key
<1>2. m = [hash |-> m.hash, file |-> m.file]
  BY DEF Method
<1> QED BY <1>1, <1>2, Zenon DEF AsMethod

LEMMA StatementWrites ==
  ASSUME UploadInv, NEW u, u.version \in Version, u.prev \in 0..MaxVersion, u.prev < u.version,
         NEW cs \in SUBSET Method, NEW s \in Statement(u.version, u.prev, cs), Fit(s, u, methods),
         (s.op = "author" /\ methods' = methods) \/ Inserted(s) \/ Updated(s)
  PROVE  Writing(s, u.version, methods, methods')
<1> DEFINE v == u.version
<1>1. /\ s.version = v /\ s.method \in cs
      /\ s.op = "update" => s.start \in 1..u.prev
  BY StatementKinds
<1>2. v \in Nat /\ v <= v /\ u.prev \in Nat /\ Version \subseteq Nat
  BY UploadBounds DEF Version
<1>3. methods \subseteq Row /\ \A r \in methods : r.start \in Nat /\ r.end \in Nat
  <2>1. methods \subseteq Row
    BY Parts, Zenon DEF Tables
  <2>2. \A r \in Row : r.start \in Version /\ r.end \in Version
    BY DEF Row
  <2> QED BY <1>2, <2>1, <2>2
<1>4. s.method \in Method
  BY <1>1
<1>5. CASE s.op = "author" /\ methods' = methods
  <2>1. s.op # "insert" /\ s.op # "update"
    BY <1>5
  <2> QED BY <1>5, <2>1, Zenon DEF Writing, Keeps
<1>6. CASE Inserted(s)
  <2> DEFINE row == InsertRow(s)
  <2>1. row.start = v /\ row.end = v /\ row.hash = s.method.hash /\ row.file = s.method.file
    BY <1>1 DEF InsertRow
  <2> HIDE DEF row
  <2>2. s.op = "insert" /\ s.op # "author" /\ s.op # "update"
    BY <1>6 DEF Inserted
  <2>3. methods' = {r \in methods : Key(r) # Key(row)} \cup {row}
    BY <1>6, Zenon DEF Inserted, Upsert, row
  <2>4. Key(row) = <<s.method.hash, s.method.file, v>>
    BY <2>1, Zenon DEF Key
  <2>5. AsMethod(row) = s.method
    BY <1>4, <2>4, KeyMethod
  <2>6. Target(s) = Key(row)
    BY <1>1, <2>2, <2>4, Zenon DEF Target
  <2>7. Wrote(row, s, v, methods)
    BY <2>1, <2>2, <2>5, <2>6, Zenon DEF Wrote
  <2>8. row \in methods' /\ \A r \in methods : r \in methods' \/ Key(r) = Key(row)
    BY <2>3, Zenon
  <2>9. Keeps(methods, methods')
    BY <2>8, Zenon DEF Keeps
  <2>10. \A q \in methods' : q \in methods \/ Wrote(q, s, v, methods)
    BY <2>3, <2>7, Zenon
  <2>11. ASSUME NEW w \in Version, NEW m, w <= v, Spanned(w, m, methods) PROVE Spanned(w, m, methods')
    <3>1. PICK r \in methods : AsMethod(r) = m /\ r.start <= w /\ w <= r.end
      BY <2>11, Zenon DEF Spanned
    <3>2. CASE r \in methods'
      BY <3>1, <3>2, Zenon DEF Spanned
    <3>3. CASE Key(r) = Key(row)
      <4>1. AsMethod(r) = s.method /\ r.start = v
        BY <1>4, <2>4, <3>3, KeyMethod
      <4>2. row.start <= w /\ w <= row.end
        BY <1>2, <2>1, <2>11, <3>1, <4>1
      <4> QED BY <2>5, <2>8, <3>1, <4>1, <4>2, Zenon DEF Spanned
    <3> QED BY <2>8, <3>2, <3>3, Zenon
  <2>12. Spanned(v, s.method, methods')
    BY <1>2, <2>1, <2>5, <2>8, Zenon DEF Spanned
  <2> QED BY <2>9, <2>10, <2>11, <2>12, Zenon DEF Writing
<1>7. CASE Updated(s)
  <2>1. s.op = "update" /\ methods' = Extended(KeyOf(s), v, s.authors)
    BY <1>1, <1>7, Zenon DEF Updated
  <2>2. s.op # "author" /\ s.op # "insert"
    BY <2>1
  <2>3. \A q \in methods' : \E r \in methods : Became(r, q, KeyOf(s), v, s.authors)
    BY <1>3, <2>1, ExtendedRow
  <2>4. \A r \in methods : \E q \in methods' : Became(r, q, KeyOf(s), v, s.authors)
    <3> SUFFICES ASSUME NEW r \in methods PROVE \E q \in methods' : Became(r, q, KeyOf(s), v, s.authors)
      OBVIOUS
    <3> DEFINE q == IF Key(r) = KeyOf(s) THEN Longer(r, v, s.authors) ELSE r
    <3>1. methods' = {IF Key(x) = KeyOf(s) THEN Longer(x, v, s.authors) ELSE x : x \in methods}
      BY <2>1, Zenon DEF Extended, Longer
    <3>2. q \in methods'
      BY <3>1
    <3>3. Longer(r, v, s.authors).hash = r.hash /\ Longer(r, v, s.authors).file = r.file
          /\ Longer(r, v, s.authors).start = r.start /\ Longer(r, v, s.authors).end = v
          /\ Longer(r, v, s.authors).authors = r.authors \cup s.authors
      <4>1. r \in Row
        BY <1>3
      <4> QED BY <4>1 DEF Row, Longer
    <3>4. q.hash = r.hash /\ q.file = r.file /\ q.start = r.start
          /\ (Key(r) = KeyOf(s) => q.end = v /\ q.authors = r.authors \cup s.authors)
      BY <3>3, Zenon
    <3>5. q = (IF Key(r) = KeyOf(s) THEN Longer(r, v, s.authors) ELSE r)
      OBVIOUS
    <3> HIDE DEF q
    <3>6. Key(q) = Key(r) /\ AsMethod(q) = AsMethod(r)
      BY <3>4, Zenon DEF Key, AsMethod
    <3> QED BY <3>2, <3>4, <3>5, <3>6, Zenon DEF Became
  <2>5. Target(s) = KeyOf(s)
    BY <2>2, Zenon DEF Target, KeyOf
  <2>6. \A r \in methods : Key(r) = KeyOf(s) => AsMethod(r) = s.method /\ r.start = s.start /\ r.end <= v
    <3> SUFFICES ASSUME NEW r \in methods, Key(r) = KeyOf(s)
                 PROVE  AsMethod(r) = s.method /\ r.start = s.start /\ r.end <= v
      OBVIOUS
    <3>1. Key(r) = <<s.method.hash, s.method.file, s.start>>
      BY Zenon DEF KeyOf
    <3>2. AsMethod(r) = s.method /\ r.start = s.start
      BY <1>4, <3>1, KeyMethod
    <3> QED BY <2>1, <3>2, Zenon DEF Fit
  <2>7. Keeps(methods, methods')
    BY <2>4, Zenon DEF Keeps, Became
  <2>8. ASSUME NEW q \in methods' PROVE q \in methods \/ Wrote(q, s, v, methods)
    <3>1. PICK r \in methods : Became(r, q, KeyOf(s), v, s.authors)
      BY <2>3
    <3>2. CASE Key(r) = KeyOf(s)
      <4>1. /\ Key(q) = Target(s) /\ q.end = v /\ q.start = r.start /\ AsMethod(q) = s.method
            /\ AsMethod(r) = s.method /\ r.end <= v
        BY <2>5, <2>6, <3>1, <3>2, Zenon DEF Became
      <4> QED BY <2>2, <3>2, <4>1, Zenon DEF Wrote
    <3>3. CASE Key(r) # KeyOf(s)
      BY <3>1, <3>3, Zenon DEF Became
    <3> QED BY <3>2, <3>3
  <2>9. ASSUME NEW w \in Version, NEW m, w <= v, Spanned(w, m, methods) PROVE Spanned(w, m, methods')
    <3>1. PICK r \in methods : AsMethod(r) = m /\ r.start <= w /\ w <= r.end
      BY <2>9, Zenon DEF Spanned
    <3>2. PICK q \in methods' : Became(r, q, KeyOf(s), v, s.authors)
      BY <2>4
    <3>3. q.end = r.end \/ q.end = v
      BY <3>2, Zenon DEF Became
    <3>4. q.start = r.start /\ AsMethod(q) = AsMethod(r)
      BY <3>2, Zenon DEF Became
    <3> QED BY <2>9, <3>1, <3>3, <3>4, Zenon DEF Spanned
  <2>10. ASSUME NEW r \in methods, Key(r) = KeyOf(s) PROVE Spanned(v, s.method, methods')
    <3>1. PICK q \in methods' : Became(r, q, KeyOf(s), v, s.authors)
      BY <2>4
    <3>2. q.end = v /\ q.start = r.start /\ AsMethod(q) = s.method /\ r.start = s.start
      BY <2>6, <2>10, <3>1, Zenon DEF Became
    <3>3. s.start <= v
      BY <1>1, <1>2, <2>1
    <3> QED BY <1>2, <3>2, <3>3, Zenon DEF Spanned
  <2> QED BY <2>2, <2>7, <2>8, <2>9, <2>10, Zenon DEF Writing
<1> QED BY <1>5, <1>6, <1>7, Zenon

(***************************************************************************)
(* No statement failed                                                      *)
(***************************************************************************)
Taking == [NoWorker EXCEPT !.pc = "take"]

LEMMA CalmFresh ==
  ASSUME NEW u, NEW ms, NEW t, t = NoWorker \/ t = Taking
  PROVE  Calm(u, t, ms) /\ ~Active(t)
<1>1. /\ t.errno = FALSE /\ t.pc \in {"idle", "take"} /\ t.todo = <<>> /\ t.found = <<>>
  BY DEF NoWorker, Taking
<1>2. t.pc # "ended" /\ t.pc \notin {"select", "write"}
  BY <1>1
<1>3. 1..Len(t.todo) = {}
  BY <1>1
<1> QED BY <1>1, <1>2, <1>3, Zenon DEF Calm, Active

LEMMA NotParsed == ~Parsed(Idle)
BY DEF Parsed, Idle

\* An upload the handler goes on with while it has no workers.
LEMMA SplitMoves ==
  ASSUME NEW u, NEW x, NEW ts, NEW ts2, NEW ms, Split(u, ts, ms), Kept(x, u),
         x.phase # "methods", u.phase \in {"files", "unchanged"} => x.phase = "unchanged"
  PROVE  Split(x, ts2, ms)
<1>1. x.version = u.version /\ x.files = u.files /\ x.sent = u.sent
  BY Zenon DEF Kept
<1>2. x.phase = "unchanged" => x.phase # "files" /\ x.phase \in {"files", "unchanged"}
  OBVIOUS
<1> SUFFICES ASSUME NEW r \in ms, r.file \in u.files
             PROVE  /\ r.start # u.version
                    /\ r.end = u.version => /\ x.phase \in {"files", "unchanged"}
                                            /\ x.phase = "files" => Collected(ts2, r.hash)
  BY <1>1, Zenon DEF Split
<1> QED BY <1>2, Zenon DEF Split

LEMMA CalmReceive ==
  ASSUME OneUploader, Orderly, UploadInv, CalmInv, NEW c \in Conn, Receive(c)
  PROVE  CalmInv'
<1>1. PICK v, bad, p, as, now, files, x : Choice(c, v, bad, p, as, now, files, x)
  BY ReceiveChoice
<1>2. /\ v \in Version /\ v \in Sendable /\ x.version = v /\ x.files = files
      /\ x.phase \in {"check", "search", "parse"} /\ x.errno = FALSE
      /\ Posted(x.sent, now, files) /\ up' = [up EXCEPT ![c] = x]
  BY <1>1, Zenon DEF Choice
<1>3. methods' = methods /\ worker' = worker /\ up[c].phase = "idle"
  BY Zenon DEF Receive, tables
<1>4. content[v] = None
  BY <1>2, Zenon DEF Sendable, Orderly
<1>5. up'[c] = x
  <2>1. up = [d \in Conn |-> up[d]]
    BY Parts
  <2> QED BY <1>2, <2>1
<1>6. x.phase \notin {"methods", "files", "unchanged"} /\ x.phase # "methods"
  BY <1>2
<1>7. Split(x, worker[c], methods)
  <2>1. \A r \in methods : r.start # v /\ r.end # v
    BY <1>4, Parts, Zenon DEF Rows, RowTrue
  <2> QED BY <1>2, <1>6, <2>1, Zenon DEF Split, Posted
<1>8. \A w \in Worker : Calm(x, worker[c][w], methods)
  <2>1. up[c].phase \notin {"methods", "files"}
    BY <1>3
  <2>2. \A w \in Worker : worker[c][w] = NoWorker
    BY <2>1, NoWorkers
  <2>3. Calm(x, NoWorker, methods)
    BY CalmFresh
  <2> QED BY <2>2, <2>3, Zenon
<1>9. \A d \in Conn : d = c
  BY Zenon DEF OneUploader
<1> QED BY <1>2, <1>3, <1>5, <1>7, <1>8, <1>9, Zenon DEF CalmInv

LEMMA CalmHandle ==
  ASSUME OneUploader, UploadInv, CalmInv, NEW c \in Conn, Handle(c)
  PROVE  CalmInv'
<1> DEFINE u == up[c]
           x == up'[c]
           ts == worker'[c]
<1> SUFFICES ASSUME faults' = 0
             PROVE  /\ x.errno = FALSE
                    /\ \A w \in Worker : Calm(x, ts[w], methods')
                    /\ Parsed(x) => Split(x, ts, methods')
  BY Zenon DEF CalmInv, OneUploader
<1>1. /\ faults = 0 /\ methods' = methods
      /\ Refused(c) \/ ReadOn(c) \/ Stores(c) \/ Adds(c) \/ Starts(c) \/ Joins(c)
  BY HandleGoes
<1>2. Parsed(u) => Split(u, worker[c], methods)
  BY <1>1, Zenon DEF CalmInv
<1>3. ASSUME x = Idle, \A w \in Worker : ts[w] = NoWorker
      PROVE  x.errno = FALSE /\ (\A w \in Worker : Calm(x, ts[w], methods')) /\ ~Parsed(x)
  <2>1. Idle.errno = FALSE
    BY DEF Idle
  <2>2. Calm(x, NoWorker, methods')
    BY CalmFresh
  <2> QED BY <1>3, <2>1, <2>2, NotParsed, Zenon
<1>4. ASSUME NEW ph, NEW hs, NEW ps, NEW q, NEW i, Goes(x, u, ph, hs, ps, q, i),
             u.phase # "idle", ph # "methods", u.phase \in {"files", "unchanged"} => ph = "unchanged",
             \A w \in Worker : ts[w] = NoWorker
      PROVE  x.errno = FALSE /\ (\A w \in Worker : Calm(x, ts[w], methods'))
             /\ (Parsed(x) => Split(x, ts, methods'))
  <2>1. Kept(x, u) /\ x.phase = ph /\ x.errno = FALSE
    BY <1>4, Zenon DEF Goes
  <2>2. Calm(x, NoWorker, methods')
    BY CalmFresh
  <2>3. Parsed(x) => Parsed(u)
    BY <1>4, <2>1, Zenon DEF Parsed, Kept
  <2> HIDE DEF x, u
  <2>4. Split(u, worker[c], methods) => Split(x, ts, methods)
    BY <1>4, <2>1, SplitMoves
  <2> QED BY <1>1, <1>2, <1>4, <2>1, <2>2, <2>3, <2>4, Zenon
<1>5. CASE Refused(c)
  BY <1>3, <1>5, Zenon DEF Refused
<1>6. CASE ReadOn(c)
  <2>1. /\ \A w \in Worker : ts[w] = NoWorker
        /\ \E ph, hs, ps, q, i : /\ Goes(x, u, ph, hs, ps, q, i)
                                 /\ u.phase \in {"check", "search", "parse"}
                                 /\ ph \in {FirstPhase(u.prev), "parse", "insert"}
    BY <1>6 DEF ReadOn
  <2>2. PICK ph, hs, ps, q, i : /\ Goes(x, u, ph, hs, ps, q, i)
                                /\ u.phase \in {"check", "search", "parse"}
                                /\ ph \in {FirstPhase(u.prev), "parse", "insert"}
    BY <2>1
  <2>3. ph # "methods" /\ u.phase # "idle" /\ u.phase \notin {"files", "unchanged"}
    BY <2>2 DEF FirstPhase
  <2> QED BY <1>4, <2>1, <2>2, <2>3, Zenon
<1>7. CASE Stores(c)
  <2>1. u.phase # "idle" /\ u.phase \notin {"files", "unchanged"}
    BY <1>7 DEF Stores
  <2>2. "extend" # "methods" /\ "start" # "methods"
    OBVIOUS
  <2> QED BY <1>4, <1>7, <2>1, <2>2, Zenon DEF Stores
<1>8. CASE Adds(c)
  <2>1. u.phase \in {"extend", "unchanged"} /\ u.phase # "idle" /\ u.phase # "methods"
        /\ (u.phase = "extend" => u.phase \notin {"files", "unchanged"})
        /\ (u.phase \in {"files", "unchanged"} => u.phase = "unchanged")
    BY <1>8 DEF Adds
  <2>2. "extend" # "methods" /\ "start" # "methods"
    OBVIOUS
  <2> QED BY <1>3, <1>4, <1>8, <2>1, <2>2, Zenon DEF Adds
<1>9. CASE Starts(c)
  <2>1. /\ Goes(x, u, "methods", u.hashes, u.prevHashes, u.sent, u.index)
        /\ u.phase = "start" /\ \A w \in Worker : ts[w] = Taking
    BY <1>9, Zenon DEF Starts, Taking
  <2>2. Calm(x, Taking, methods') /\ ~Active(Taking)
    BY CalmFresh
  <2>3. /\ Kept(x, u) /\ x.errno = FALSE /\ x.phase = "methods" /\ x.queue = u.sent
        /\ x.version = u.version /\ x.files = u.files /\ x.sent = u.sent
    BY <2>1, Zenon DEF Goes, Kept
  <2>4. Parsed(x) => Parsed(u)
    <3>1. u.phase # "idle"
      BY <2>1
    <3> QED BY <2>3, <3>1, Zenon DEF Parsed, Kept
  <2>5. u.phase \notin {"files", "unchanged"}
    BY <2>1
  <2>6. Split(u, worker[c], methods) => Split(x, ts, methods)
    BY <2>1, <2>2, <2>3, <2>5, Zenon DEF Split
  <2> QED BY <1>1, <1>2, <2>1, <2>2, <2>3, <2>4, <2>6, Zenon
<1>10. CASE Joins(c)
  <2>1. CASE u.phase = "methods" /\ u.prev = 0 /\ x = Idle /\ \A w \in Worker : ts[w] = NoWorker
    BY <1>3, <2>1, Zenon
  <2>2. CASE /\ u.phase = "methods"
             /\ Goes(x, u, "files", u.hashes, u.prevHashes, HashFileQueue(u.prevHashes, u.files), u.index)
             /\ \A w \in Worker : ts[w] = Taking
    <3>1. Calm(x, Taking, methods')
      BY CalmFresh
    <3>2. Kept(x, u) /\ x.errno = FALSE /\ x.phase = "files"
      BY <2>2, Zenon DEF Goes
    <3>3. Parsed(x) => Parsed(u)
      <4>1. u.phase # "idle"
        BY <2>2
      <4> QED BY <3>2, <4>1, Zenon DEF Parsed, Kept
    <3>4. x.phase # "methods" /\ u.phase \notin {"files", "unchanged"}
      BY <2>2, <3>2
    <3> HIDE DEF x, u
    <3>5. Split(u, worker[c], methods) => Split(x, ts, methods)
      BY <3>2, <3>4, SplitMoves
    <3> QED BY <1>1, <1>2, <2>2, <3>1, <3>2, <3>3, <3>5, Zenon
  <2>3. CASE /\ u.phase = "files" /\ \A w \in Worker : ts[w] = NoWorker
             /\ Goes(x, u, "unchanged", FlattenSeq([w \in Worker |-> worker[c][w].got]), u.prevHashes, u.queue, 0)
    <3>1. u.phase # "idle" /\ "unchanged" # "methods"
      BY <2>3
    <3> QED BY <1>4, <2>3, <3>1, Zenon
  <2> QED BY <1>10, <2>1, <2>2, <2>3, Zenon DEF Joins, Taking
<1> QED BY <1>1, <1>5, <1>6, <1>7, <1>8, <1>9, <1>10, Zenon

(***************************************************************************)
(* The steps of a worker                                                    *)
(***************************************************************************)
\* The first element of a sequence and the others.
LEMMA TailAt ==
  ASSUME NEW S, NEW s \in Seq(S), s # <<>>
  PROVE  /\ Len(s) \in Nat /\ Len(s) # 0 /\ Head(s) = s[1] /\ Head(s) \in S /\ 1 \in 1..Len(s)
         /\ Tail(s) \in Seq(S) /\ Len(Tail(s)) \in Nat
         /\ \A i \in 1..Len(Tail(s)) : Tail(s)[i] = s[i + 1] /\ i + 1 \in 1..Len(s) /\ i + 1 # 1
         /\ \A j \in 1..Len(s) : j = 1 \/ \E i \in 1..Len(Tail(s)) : j = i + 1
<1>1. Len(s) \in Nat /\ Len(s) # 0 /\ Head(s) = s[1] /\ 1 \in 1..Len(s) /\ Head(s) \in S
  OBVIOUS
<1>2. Tail(s) \in Seq(S) /\ Len(Tail(s)) = Len(s) - 1 /\ \A i \in 1..Len(Tail(s)) : Tail(s)[i] = s[i + 1]
  OBVIOUS
<1>3. ASSUME NEW j \in 1..Len(s), j # 1 PROVE \E i \in 1..Len(Tail(s)) : j = i + 1
  <2>1. j - 1 \in 1..Len(Tail(s)) /\ j = (j - 1) + 1
    BY <1>1, <1>2, <1>3
  <2> QED BY <2>1
<1> QED BY <1>1, <1>2, <1>3

LEMMA RangeConcat ==
  ASSUME NEW S, NEW a \in Seq(S), NEW b \in Seq(S)
  PROVE  \A x : x \in Range(a \o b) <=> x \in Range(a) \/ x \in Range(b)
<1>1. a \o b \in Seq(S) /\ Len(a \o b) = Len(a) + Len(b) /\ Len(a) \in Nat /\ Len(b) \in Nat
  OBVIOUS
<1>2. DOMAIN a = 1..Len(a) /\ DOMAIN b = 1..Len(b) /\ DOMAIN (a \o b) = 1..(Len(a) + Len(b))
  BY <1>1
<1>3. /\ \A i \in 1..Len(a) : (a \o b)[i] = a[i] /\ i \in 1..(Len(a) + Len(b))
      /\ \A i \in 1..Len(b) : (a \o b)[Len(a) + i] = b[i] /\ Len(a) + i \in 1..(Len(a) + Len(b))
      /\ \A i \in 1..(Len(a) + Len(b)) : i \in 1..Len(a) \/ \E j \in 1..Len(b) : i = Len(a) + j
  <2>1. \A i \in 1..(Len(a) + Len(b)) : i \in 1..Len(a) \/ \E j \in 1..Len(b) : i = Len(a) + j
    <3> SUFFICES ASSUME NEW i \in 1..(Len(a) + Len(b)), i \notin 1..Len(a)
                 PROVE  \E j \in 1..Len(b) : i = Len(a) + j
      OBVIOUS
    <3>1. i - Len(a) \in 1..Len(b) /\ i = Len(a) + (i - Len(a))
      BY <1>1
    <3> QED BY <3>1
  <2>2. \A i \in 1..Len(a) : (a \o b)[i] = a[i] /\ i \in 1..(Len(a) + Len(b))
    OBVIOUS
  <2>3. \A i \in 1..Len(b) : (a \o b)[Len(a) + i] = b[i] /\ Len(a) + i \in 1..(Len(a) + Len(b))
    OBVIOUS
  <2> QED BY <2>1, <2>2, <2>3
<1>4. /\ \A x : x \in Range(a) <=> \E i \in 1..Len(a) : x = a[i]
      /\ \A x : x \in Range(b) <=> \E i \in 1..Len(b) : x = b[i]
      /\ \A x : x \in Range(a \o b) <=> \E i \in 1..(Len(a) + Len(b)) : x = (a \o b)[i]
  BY <1>2 DEF Range
<1> DEFINE z == a \o b
           n == Len(a)
           e == Len(a) + Len(b)
<1> SUFFICES ASSUME NEW x PROVE x \in Range(z) <=> x \in Range(a) \/ x \in Range(b)
  OBVIOUS
<1>5. /\ \A i \in 1..n : z[i] = a[i] /\ i \in 1..e
      /\ \A i \in 1..Len(b) : z[n + i] = b[i] /\ n + i \in 1..e
      /\ \A i \in 1..e : i \in 1..n \/ \E j \in 1..Len(b) : i = n + j
      /\ x \in Range(a) <=> \E i \in 1..n : x = a[i]
      /\ x \in Range(b) <=> \E i \in 1..Len(b) : x = b[i]
      /\ x \in Range(z) <=> \E i \in 1..e : x = z[i]
  BY <1>3, <1>4
<1> HIDE DEF z, n, e
<1>6. ASSUME NEW i \in 1..e, x = z[i] PROVE x \in Range(a) \/ x \in Range(b)
  <2>1. CASE i \in 1..n
    BY <1>5, <1>6, <2>1
  <2>2. CASE i \notin 1..n
    <3>1. PICK j \in 1..Len(b) : i = n + j
      BY <1>5, <2>2
    <3> QED BY <1>5, <1>6, <3>1
  <2> QED BY <2>1, <2>2
<1>7. ASSUME NEW i \in 1..n, x = a[i] PROVE x \in Range(z)
  BY <1>5, <1>7
<1>8. ASSUME NEW i \in 1..Len(b), x = b[i] PROVE x \in Range(z)
  BY <1>5, <1>8
<1> QED BY <1>5, <1>6, <1>7, <1>8, Zenon

\* What every step of worker k of c leaves to the handler.
LEMMA WorkKeeps ==
  ASSUME NEW c, NEW k,
         Ends(c, k) \/ Takes(c, k) \/ LooksUp(c, k) \/ LooksUpAll(c, k) \/ Sends(c, k)
  PROVE  /\ Kept(up'[c], up[c]) /\ up'[c].phase = up[c].phase
         /\ up'[c].hashes = up[c].hashes /\ up'[c].prevHashes = up[c].prevHashes
         /\ up'[c].index = up[c].index /\ up'[c].errno \in {up[c].errno, FALSE}
         /\ up'[c] = up[c] \/ (Takes(c, k) /\ up[c].queue # <<>> /\ up'[c].queue = Tail(up[c].queue))
<1>1. CASE up'[c] = up[c]
  <2>1. Kept(up[c], up[c])
    BY Zenon DEF Kept
  <2>2. Kept(up'[c], up[c])
    BY <1>1, <2>1, Zenon
  <2> QED BY <1>1, <2>2
<1>2. CASE Takes(c, k)
  BY <1>2, Zenon DEF Takes, Goes
<1> QED BY <1>1, <1>2, Zenon DEF Ends, LooksUp, LooksUpAll, Sends

\* The statement worker k of c sends, and those that are left.
LEMMA SendsWrites ==
  ASSUME UploadInv, ListInv, NEW c \in Conn, NEW k \in Worker, Sends(c, k)
  PROVE  LET u == up[c]
             l == worker[c][k].todo
         IN  /\ l \in Seq(Statement(u.version, u.prev, content[u.version])) /\ l # <<>>
             /\ Head(l) = l[1] /\ Head(l) \in Statement(u.version, u.prev, content[u.version])
             /\ Fit(Head(l), u, methods) /\ Writing(Head(l), u.version, methods, methods')
<1> DEFINE t == worker[c][k]
           u == up[c]
           S == Statement(u.version, u.prev, content[u.version])
           s == Head(t.todo)
<1>1. t.pc = "write" /\ ((s.op = "author" /\ methods' = methods) \/ Inserted(s) \/ Updated(s))
  BY Zenon DEF Sends
<1>2. t.pc # "idle"
  BY <1>1
<1>3. /\ Busy(u, t, content) /\ t \in Thread(u.version, u.prev, content[u.version], Entry(u))
      /\ u.version \in Version /\ u.prev \in 0..MaxVersion /\ u.prev < u.version
      /\ content[u.version] \in SUBSET Method
  BY <1>2, WorkerAt, Zenon
<1>4. Len(t.todo) # 0 /\ t.todo \in Seq(S)
  <2>1. Len(t.todo) # 0
    BY <1>1, <1>3, Zenon DEF Busy
  <2> QED BY <1>3, <2>1 DEF Thread
<1> HIDE DEF S, s
<1>5. t.todo # <<>>
  BY <1>4
<1>6. Head(t.todo) = t.todo[1] /\ Head(t.todo) \in S /\ 1 \in 1..Len(t.todo)
  BY <1>4, <1>5, TailAt, Zenon
<1>7. Fit(s, u, methods)
  <2>1. Ready(t.todo, u, methods, byAuthor, faults)
    BY Zenon DEF ListInv, Lists
  <2> QED BY <1>6, <2>1, Zenon DEF Ready, s
<1>8. Writing(s, u.version, methods, methods')
  <2>1. s \in Statement(u.version, u.prev, content[u.version])
    BY <1>6 DEF s, S
  <2> QED BY <1>1, <1>3, <1>7, <2>1, StatementWrites
<1> QED BY <1>4, <1>5, <1>6, <1>7, <1>8, Zenon DEF S, s

(***************************************************************************)
(* A worker leaves the others calm                                          *)
(***************************************************************************)
LEMMA KeepsAll == ASSUME NEW ms PROVE Keeps(ms, ms)
BY Zenon DEF Keeps

LEMMA PreparedStays ==
  ASSUME NEW s, NEW u, NEW x, NEW t, NEW y, NEW ms, NEW ms2, Prepared(s, u, t, ms), Keeps(ms, ms2),
         x.phase = u.phase, x.files = u.files, y.item = t.item, y.found = t.found
  PROVE  Prepared(s, x, y, ms2)
<1>1. (\E r \in ms : Key(r) = KeyOf(s)) => \E r \in ms2 : Key(r) = KeyOf(s)
  BY Zenon DEF Keeps
<1> QED BY <1>1, Zenon DEF Prepared

LEMMA CalmStays ==
  ASSUME NEW u, NEW x, NEW t, NEW ms, NEW ms2, Calm(u, t, ms), Keeps(ms, ms2),
         x.phase = u.phase, x.files = u.files, u.queue = <<>> => x.queue = <<>>
  PROVE  Calm(x, t, ms2)
<1>1. ASSUME NEW i \in 1..Len(t.todo) PROVE Prepared(t.todo[i], x, t, ms2)
  BY PreparedStays, Zenon DEF Calm
<1> QED BY <1>1, Zenon DEF Calm

\* The statements that are left after the first one are as good as before.
LEMMA CalmSends ==
  ASSUME NEW c, NEW k, NEW S, worker[c][k].todo \in Seq(S), worker[c][k].todo # <<>>,
         worker[c][k].pc = "write", Calm(up[c], worker[c][k], methods), Keeps(methods, methods'),
         Sends(c, k)
  PROVE  Calm(up'[c], worker'[c][k], methods')
<1> DEFINE t == worker[c][k]
           y == worker'[c][k]
           u == up[c]
<1>1. up'[c] = u /\ (\/ Len(t.todo) > 1 /\ Does(y, "write", t.item, Tail(t.todo), t.found, t.got)
                     \/ Len(t.todo) = 1 /\ Does(y, "take", t.item, <<>>, <<>>, t.got \o t.found))
  BY Zenon DEF Sends
<1>2. CASE Does(y, "take", t.item, <<>>, <<>>, t.got \o t.found)
  <2>1. y.pc # "ended" /\ y.errno = FALSE /\ y.todo = <<>> /\ y.found = <<>>
    <3>1. y.pc = "take" /\ y.errno = FALSE /\ y.todo = <<>> /\ y.found = <<>>
      BY <1>2, Zenon DEF Does
    <3> QED BY <3>1
  <2>2. 1..Len(y.todo) = {}
    BY <2>1
  <2> QED BY <1>1, <2>1, <2>2, Zenon DEF Calm
<1>3. CASE Does(y, "write", t.item, Tail(t.todo), t.found, t.got)
  <2>1. y.pc = "write" /\ y.item = t.item /\ y.todo = Tail(t.todo) /\ y.found = t.found /\ y.errno = FALSE
    BY <1>3, Zenon DEF Does
  <2>2. \A i \in 1..Len(y.todo) : y.todo[i] = t.todo[i + 1] /\ i + 1 \in 1..Len(t.todo)
    BY <2>1, TailAt
  <2>3. ASSUME NEW i \in 1..Len(y.todo) PROVE Prepared(y.todo[i], up'[c], y, methods')
    <3>1. Prepared(t.todo[i + 1], u, t, methods)
      BY <2>2, Zenon DEF Calm
    <3>2. Prepared(t.todo[i + 1], u, y, methods')
      BY <2>1, <3>1, PreparedStays, Zenon
    <3> QED BY <1>1, <2>2, <3>2, Zenon
  <2>4. y.pc # "ended"
    BY <2>1
  <2> QED BY <2>1, <2>3, <2>4, Zenon DEF Calm
<1> QED BY <1>1, <1>2, <1>3, Zenon

\* A worker that has looked up what to write.
LEMMA CalmLooksUp ==
  ASSUME UploadInv, NEW c \in Conn, NEW k \in Worker, LooksUp(c, k) \/ LooksUpAll(c, k)
  PROVE  Calm(up'[c], worker'[c][k], methods')
<1> DEFINE t == worker[c][k]
           y == worker'[c][k]
           u == up[c]
<1>1. /\ t.pc = "select" /\ up'[c] = u /\ methods' = methods
  BY Zenon DEF LooksUp, LooksUpAll
<1>2. t.pc # "idle" /\ t.pc \in {"select", "write"}
  BY <1>1
<1>3. Busy(u, t, content) /\ IsFiniteSet(u.as) /\ content[u.version] \in SUBSET Method
  BY <1>2, WorkerAt, Zenon
<1>4. methods \subseteq Row /\ IsFiniteSet(methods)
  BY Parts, Zenon DEF Tables
<1>5. ASSUME Does(y, "take", t.item, <<>>, <<>>, t.got) PROVE Calm(u, y, methods)
  <2>1. y.pc # "ended" /\ y.errno = FALSE /\ y.todo = <<>> /\ y.found = <<>>
    <3>1. y.pc = "take" /\ y.errno = FALSE /\ y.todo = <<>> /\ y.found = <<>>
      BY <1>5, Zenon DEF Does
    <3> QED BY <3>1
  <2>2. 1..Len(y.todo) = {}
    BY <2>1
  <2> QED BY <2>1, <2>2, Zenon DEF Calm
<1>6. CASE LooksUp(c, k)
  <2> DEFINE l == MethodList(u, t.item, "ok")
             rows == RowsToExtend({t.item.hash}, {t.item.file}, u.prev)
  <2>1. u.phase = "methods" /\ Does(y, "write", t.item, l, <<>>, t.got)
    BY <1>6, Zenon DEF LooksUp
  <2>2. y.pc = "write" /\ y.item = t.item /\ y.todo = l /\ y.errno = FALSE
    BY <2>1, Zenon DEF Does
  <2>3. t.item \in Method
    BY <1>2, <1>3, <2>1, Zenon DEF Busy
  <2>4. MethodWrites(l, t.item, rows, u.version)
    BY <1>3, <1>4, <2>3, MethodListWrites
  <2>5. rows \subseteq methods
    BY DEF RowsToExtend
  <2> HIDE DEF l, rows
  <2>6. ASSUME NEW i \in 1..Len(l) PROVE Prepared(l[i], u, y, methods)
    <3>1. l[i].op = "update" => l[i].op # "insert"
      OBVIOUS
    <3>2. u.phase # "files"
      BY <2>1
    <3>3. l[i].op # "author" /\ l[i].op = "update" => \E r \in methods : Key(r) = KeyOf(l[i])
      BY <2>4, <2>5, <3>1, Zenon DEF MethodWrites
    <3> QED BY <2>2, <2>4, <3>2, <3>3, Zenon DEF MethodWrites, Prepared
  <2>7. y.pc # "ended"
    BY <2>2
  <2> QED BY <1>1, <2>2, <2>6, <2>7, Zenon DEF Calm
<1>7. CASE LooksUpAll(c, k)
  <2> DEFINE rows == Extends(c, k)
             l == Updates(rows, u.version, {})
             hs == HashList(rows)
  <2>1. /\ u.phase = "files"
        /\ \/ rows = {} /\ Does(y, "take", t.item, <<>>, <<>>, t.got)
           \/ rows # {} /\ Does(y, "write", t.item, l, hs, t.got)
    BY <1>7, Zenon DEF LooksUpAll
  <2>2. CASE rows # {} /\ Does(y, "write", t.item, l, hs, t.got)
    <3>1. y.pc = "write" /\ y.item = t.item /\ y.todo = l /\ y.found = hs /\ y.errno = FALSE
      BY <2>2, Zenon DEF Does
    <3>2. t.item \in Seq(Hash) \X Seq(u.files)
      <4>1. t.item \in Entry(u) /\ u.phase \in {"files", "unchanged"}
        BY <1>2, <1>3, <2>1, Zenon DEF Busy
      <4> QED BY <4>1, Zenon DEF Entry
    <3>3. rows \subseteq methods /\ \A r \in rows : r.file \in u.files
      <4>1. Range(t.item[2]) \subseteq u.files
        <5>1. t.item[2] \in Seq(u.files)
          BY <3>2
        <5> DEFINE q == t.item[2]
        <5>2. q \in Seq(u.files)
          BY <5>1
        <5> HIDE DEF q
        <5>3. Range(q) \subseteq u.files
          BY <5>2 DEF Range
        <5> QED BY <5>3 DEF q
      <4>2. rows \subseteq methods /\ \A r \in rows : r.file \in Range(t.item[2])
        BY DEF Extends, RowsToExtend
      <4> QED BY <4>1, <4>2, Zenon
    <3> HIDE DEF rows
    <3>4. IsFiniteSet(rows) /\ IsFiniteSet({})
      BY <1>4, <3>3, FS_Subset, FS_EmptySet
    <3>5. UpdatesOf(l, rows)
      BY <2>2, <3>4, UpdatesWrite
    <3>6. Range(hs) = {r.hash : r \in rows}
      BY <3>4, HashListHas
    <3>7. \A r \in rows : r.hash \in Range(hs)
      BY <3>6
    <3> HIDE DEF l, hs
    <3>8. ASSUME NEW i \in 1..Len(l) PROVE Prepared(l[i], u, y, methods)
      <4> SUFFICES ASSUME l[i].op # "author" PROVE Prepared(l[i], u, y, methods)
        BY Zenon DEF Prepared
      <4>1. l[i].op = "update" /\ \E r \in rows : l[i].method = AsMethod(r) /\ KeyOf(l[i]) = Key(r)
        BY <3>5, Zenon DEF UpdatesOf
      <4>2. PICK r \in rows : l[i].method = AsMethod(r) /\ KeyOf(l[i]) = Key(r)
        BY <4>1
      <4>3. l[i].method.file = r.file /\ l[i].method.hash = r.hash
        BY <4>2 DEF AsMethod
      <4>4. u.phase # "methods"
        BY <2>1
      <4> QED BY <3>1, <3>3, <3>7, <4>1, <4>2, <4>3, <4>4, Zenon DEF Prepared
    <3>9. y.pc # "ended"
      BY <3>1
    <3> QED BY <1>1, <3>1, <3>8, <3>9, Zenon DEF Calm
  <2> QED BY <1>1, <1>5, <2>1, <2>2, Zenon
<1> QED BY <1>6, <1>7

Worked(c, k) == Ends(c, k) \/ Takes(c, k) \/ LooksUp(c, k) \/ LooksUpAll(c, k) \/ Sends(c, k)

\* The hashes a worker found stay.
LEMMA CollectedStays ==
  ASSUME UploadInv, NEW c \in Conn, NEW k \in Worker, worker[c][k].pc # "idle",
         Calm(up[c], worker[c][k], methods), Rest(c, k), Worked(c, k)
  PROVE  \A h : Collected(worker[c], h) => Collected(worker'[c], h)
<1> DEFINE t == worker[c][k]
           y == worker'[c][k]
           H == HashesOf(content[up[c].version])
<1>1. t.got \in Seq(H) /\ t.found \in Seq(H)
  <2>1. t \in Thread(up[c].version, up[c].prev, content[up[c].version], Entry(up[c]))
    BY WorkerAt
  <2> QED BY <2>1 DEF Thread
<1>2. Range(<<>>) = {}
  BY DEF Range
<1>3. \A h : h \in Range(t.got) \/ h \in Range(t.found) => h \in Range(y.got) \/ h \in Range(y.found)
  <2>1. CASE Ends(c, k) \/ Takes(c, k) \/ LooksUp(c, k) \/ LooksUpAll(c, k)
    <3>1. t.pc \in {"take", "select"}
      BY <2>1, Zenon DEF Ends, Takes, LooksUp, LooksUpAll
    <3>2. t.pc # "write"
      BY <3>1
    <3>3. t.found = <<>>
      BY <3>2, Zenon DEF Calm
    <3>4. y.got = t.got
      BY <2>1, Zenon DEF Ends, Takes, LooksUp, LooksUpAll, Does
    <3> QED BY <1>2, <3>3, <3>4, Zenon
  <2>2. CASE Sends(c, k)
    <3>1. \/ y.found = t.found /\ y.got = t.got
          \/ y.got = t.got \o t.found
      BY <2>2, Zenon DEF Sends, Does
    <3> HIDE DEF H
    <3>2. \A h : h \in Range(t.got \o t.found) <=> h \in Range(t.got) \/ h \in Range(t.found)
      BY <1>1, RangeConcat
    <3> QED BY <3>1, <3>2, Zenon
  <2> QED BY <2>1, <2>2, Zenon DEF Worked
<1> SUFFICES ASSUME NEW h, NEW w \in Worker, h \in Range(worker[c][w].got) \/ h \in Range(worker[c][w].found)
             PROVE  \E z \in Worker : h \in Range(worker'[c][z].got) \/ h \in Range(worker'[c][z].found)
  BY Zenon DEF Collected
<1>4. CASE w = k
  BY <1>3, <1>4, Zenon
<1>5. CASE w # k
  BY <1>5, Zenon DEF Rest
<1> QED BY <1>4, <1>5

\* Where the entry a worker has in hand comes from.
LEMMA ActiveItem ==
  ASSUME NEW c, NEW k \in Worker, Rest(c, k), Worked(c, k), NEW w \in Worker, Active(worker'[c][w])
  PROVE  \/ Active(worker[c][w]) /\ worker'[c][w].item = worker[c][w].item
         \/ w = k /\ Takes(c, k) /\ worker'[c][w].item = Head(up[c].queue)
<1> DEFINE t == worker[c][k]
           y == worker'[c][k]
<1>1. CASE w # k
  BY <1>1, Zenon DEF Rest
<1>2. CASE w = k /\ Ends(c, k)
  <2>1. y.pc = "ended"
    BY <1>2, Zenon DEF Ends, Does
  <2>2. y.pc \notin {"select", "write"}
    BY <2>1
  <2> QED BY <1>2, <2>2, Zenon DEF Active
<1>3. CASE w = k /\ Takes(c, k)
  BY <1>3, Zenon DEF Takes, Does
<1>4. CASE w = k /\ (LooksUp(c, k) \/ LooksUpAll(c, k) \/ Sends(c, k))
  <2>1. (t.pc = "select" \/ t.pc = "write") /\ y.item = t.item
    BY <1>4, Zenon DEF LooksUp, LooksUpAll, Sends, Does
  <2>2. t.pc \in {"select", "write"}
    BY <2>1
  <2> QED BY <1>4, <2>1, <2>2, Zenon DEF Active
<1> QED BY <1>1, <1>2, <1>3, <1>4, Zenon DEF Worked

\* A row a worker wrote is about the method it has in hand, or, in the second
\* round, about a row it found.
LEMMA SplitWork ==
  ASSUME UploadInv, ListInv, NEW c \in Conn, NEW k \in Worker, worker[c][k].pc # "idle",
         Calm(up[c], worker[c][k], methods), Rest(c, k), Worked(c, k),
         Split(up[c], worker[c], methods)
  PROVE  Split(up'[c], worker'[c], methods')
<1> DEFINE u == up[c]
           x == up'[c]
           t == worker[c][k]
           ts == worker'[c]
<1>1. /\ x.version = u.version /\ x.files = u.files /\ x.sent = u.sent /\ x.phase = u.phase
      /\ x = u \/ (Takes(c, k) /\ u.queue # <<>> /\ x.queue = Tail(u.queue))
  BY WorkKeeps, Zenon DEF Worked, Kept
<1>2. u.queue \in Seq(Entry(u))
  <2>1. u \in Upload(Entry(u))
    BY WorkerAt
  <2> QED BY <2>1 DEF Upload
<1> HIDE DEF u, x, t, ts
<1>3. u.queue # <<>> =>
        /\ Head(u.queue) = u.queue[1] /\ 1 \in 1..Len(u.queue)
        /\ \A i \in 1..Len(Tail(u.queue)) : Tail(u.queue)[i] = u.queue[i + 1] /\ i + 1 \in 1..Len(u.queue)
  <2> SUFFICES ASSUME u.queue # <<>>
               PROVE  /\ Head(u.queue) = u.queue[1] /\ 1 \in 1..Len(u.queue)
                      /\ \A i \in 1..Len(Tail(u.queue)) :
                           Tail(u.queue)[i] = u.queue[i + 1] /\ i + 1 \in 1..Len(u.queue)
    OBVIOUS
  <2> QED BY <1>2, TailAt
<1>4. u.phase = "methods" => \A i \in 1..Len(u.queue) : u.queue[i].file \notin u.files
  BY Zenon DEF Split, u
<1>5. x.phase = "methods" => \A i \in 1..Len(x.queue) : x.queue[i].file \notin x.files
  BY <1>1, <1>3, <1>4, Zenon
<1>6. ASSUME x.phase = "methods", NEW w \in Worker, Active(ts[w]) PROVE ts[w].item.file \notin x.files
  <2>1. \/ Active(worker[c][w]) /\ ts[w].item = worker[c][w].item
        \/ w = k /\ Takes(c, k) /\ ts[w].item = Head(u.queue)
    BY <1>6, ActiveItem, Zenon DEF ts, u
  <2>2. CASE Active(worker[c][w]) /\ ts[w].item = worker[c][w].item
    BY <1>1, <1>6, <2>2, Zenon DEF Split, u
  <2>3. CASE Takes(c, k) /\ ts[w].item = Head(u.queue)
    <3>1. u.queue # <<>>
      BY <2>3, Zenon DEF Takes, u
    <3> QED BY <1>1, <1>3, <1>4, <1>6, <2>3, <3>1, Zenon
  <2> QED BY <2>1, <2>2, <2>3
<1>7. \A h : Collected(worker[c], h) => Collected(ts, h)
  BY CollectedStays, Zenon DEF ts
<1>8. ASSUME NEW r \in methods, r.file \in u.files
      PROVE  /\ r.start # u.version
             /\ r.end = u.version => /\ x.phase \in {"files", "unchanged"}
                                     /\ x.phase = "files" => Collected(ts, r.hash)
  BY <1>1, <1>7, <1>8, Zenon DEF Split, u
<1>9. ASSUME NEW q \in methods', q \notin methods, q.file \in u.files
      PROVE  /\ q.start # u.version
             /\ x.phase = "files" /\ Collected(ts, q.hash)
  <2>1. CASE Sends(c, k)
    <3> DEFINE s == t.todo[1]
               v == u.version
    <3>1. /\ t.todo \in Seq(Statement(u.version, u.prev, content[u.version])) /\ t.todo # <<>>
          /\ Head(t.todo) = s /\ Writing(s, v, methods, methods')
      BY <2>1, SendsWrites, Zenon DEF u, t
    <3>2. Wrote(q, s, v, methods) /\ s.op # "author"
      BY <1>9, <3>1, Zenon DEF Writing, Wrote
    <3>3. 1 \in 1..Len(t.todo)
      BY <3>1, TailAt
    <3>4. Prepared(s, u, t, methods)
      BY <3>3, Zenon DEF Calm, u, t
    <3>5. AsMethod(q) = s.method
      BY <3>2, Zenon DEF Wrote
    <3>6. q.file = s.method.file /\ q.hash = s.method.hash
      BY <3>5 DEF AsMethod
    <3>7. t.pc = "write" /\ t.pc \in {"select", "write"}
      <4>1. t.pc = "write"
        BY <2>1, Zenon DEF Sends, t
      <4> QED BY <4>1
    <3>8. u.phase \in {"methods", "files"}
      BY WorkerAt, Zenon DEF u
    <3>9. u.phase # "methods"
      <4> SUFFICES ASSUME u.phase = "methods" PROVE FALSE
        OBVIOUS
      <4>1. s.method = t.item
        BY <3>2, <3>4, Zenon DEF Prepared
      <4>2. t.item.file \notin u.files
        BY <3>7, Zenon DEF Split, Active, u, t
      <4> QED BY <1>9, <3>6, <4>1, <4>2, Zenon
    <3>10. u.phase = "files"
      BY <3>8, <3>9
    <3>11. s.op = "update" /\ s.method.hash \in Range(t.found)
      BY <3>2, <3>4, <3>10, Zenon DEF Prepared
    <3>12. PICK r \in methods : AsMethod(r) = s.method /\ r.start = q.start
      BY <3>2, <3>11, Zenon DEF Wrote
    <3>13. r.file = s.method.file
      BY <3>12 DEF AsMethod
    <3>14. q.start # u.version
      BY <1>8, <1>9, <3>6, <3>12, <3>13, Zenon
    <3>15. Collected(worker[c], q.hash)
      BY <3>6, <3>11, Zenon DEF Collected, t
    <3> QED BY <1>1, <1>7, <3>10, <3>14, <3>15, Zenon
  <2>2. CASE methods' = methods
    BY <1>9, <2>2
  <2> QED BY <2>1, <2>2, Zenon DEF Worked, Ends, Takes, LooksUp, LooksUpAll
<1>10. x.phase = "files" => x.phase \in {"files", "unchanged"}
  OBVIOUS
<1>11. ASSUME NEW r \in methods', r.file \in x.files
       PROVE  /\ r.start # x.version
              /\ r.end = x.version => /\ x.phase \in {"files", "unchanged"}
                                      /\ x.phase = "files" => Collected(ts, r.hash)
  BY <1>1, <1>8, <1>9, <1>10, <1>11, Zenon
<1>12. \A i \in 1..Len(x.sent) : x.sent[i].file \notin x.files
  BY <1>1, Zenon DEF Split, u
<1>13. Split(x, ts, methods')
  BY <1>5, <1>6, <1>11, <1>12, Zenon DEF Split
<1> QED BY <1>13 DEF x, ts

LEMMA CalmWork ==
  ASSUME OneUploader, UploadInv, ListInv, CalmInv, NEW c \in Conn, NEW k \in Worker, Work(c, k)
  PROVE  CalmInv'
<1> DEFINE u == up[c]
           x == up'[c]
           t == worker[c][k]
           ts == worker'[c]
<1> SUFFICES ASSUME faults' = 0
             PROVE  /\ x.errno = FALSE
                    /\ \A w \in Worker : Calm(x, ts[w], methods')
                    /\ Parsed(x) => Split(x, ts, methods')
  BY Zenon DEF CalmInv, OneUploader
<1>1. faults = 0 /\ Rest(c, k) /\ Worked(c, k)
  BY WorkGoes, Zenon DEF Worked
<1>2. /\ u.errno = FALSE /\ (\A w \in Worker : Calm(u, worker[c][w], methods))
      /\ Parsed(u) => Split(u, worker[c], methods)
  BY <1>1, Zenon DEF CalmInv
<1>3. t.pc # "idle"
  BY Zenon DEF Work, TakeItem, SelectMethod, SelectUnchanged, Execute
<1>4. /\ Kept(x, u) /\ x.phase = u.phase /\ x.errno \in {u.errno, FALSE}
      /\ x = u \/ u.queue # <<>>
  BY <1>1, WorkKeeps, Zenon DEF Worked
<1>5. x.errno = FALSE /\ x.files = u.files /\ (Parsed(x) => Parsed(u))
  BY <1>2, <1>4 DEF Kept, Parsed
<1>6. Keeps(methods, methods')
  <2>1. CASE Sends(c, k)
    BY <2>1, SendsWrites, Zenon DEF Writing
  <2>2. CASE methods' = methods
    BY <2>2, KeepsAll, Zenon
  <2> QED BY <1>1, <2>1, <2>2, Zenon DEF Worked, Ends, Takes, LooksUp, LooksUpAll
<1>7. ASSUME NEW w \in Worker, w # k PROVE Calm(x, ts[w], methods')
  <2>1. ts[w] = worker[c][w]
    BY <1>1, <1>7, Zenon DEF Rest
  <2>2. Calm(u, worker[c][w], methods)
    BY <1>2
  <2>3. u.queue = <<>> => x.queue = <<>>
    BY <1>4
  <2> HIDE DEF x, u
  <2>4. Calm(x, worker[c][w], methods')
    BY <1>4, <1>5, <1>6, <2>2, <2>3, CalmStays
  <2> QED BY <2>1, <2>4, Zenon
<1>8. Calm(x, ts[k], methods')
  <2>1. CASE Ends(c, k)
    <3>1. ts[k].pc = "ended" /\ ts[k].errno = FALSE /\ ts[k].todo = <<>> /\ ts[k].found = <<>> /\ x.queue = <<>>
      BY <2>1, Zenon DEF Ends, Does
    <3>2. 1..Len(ts[k].todo) = {}
      BY <3>1
    <3> QED BY <3>1, <3>2, Zenon DEF Calm
  <2>2. CASE Takes(c, k)
    <3>1. ts[k].pc = "select" /\ ts[k].errno = FALSE /\ ts[k].todo = <<>> /\ ts[k].found = <<>>
      BY <2>2, Zenon DEF Takes, Does
    <3>2. 1..Len(ts[k].todo) = {} /\ ts[k].pc # "ended"
      BY <3>1
    <3> QED BY <3>1, <3>2, Zenon DEF Calm
  <2>3. CASE LooksUp(c, k) \/ LooksUpAll(c, k)
    BY <2>3, CalmLooksUp
  <2>4. CASE Sends(c, k)
    <3> DEFINE S == Statement(u.version, u.prev, content[u.version])
    <3>1. t.todo \in Seq(S) /\ t.todo # <<>> /\ t.pc = "write"
      BY <2>4, SendsWrites, Zenon DEF Sends
    <3> HIDE DEF S
    <3>2. Calm(up[c], worker[c][k], methods)
      BY <1>2
    <3> QED BY <1>6, <2>4, <3>1, <3>2, CalmSends
  <2> QED BY <1>1, <2>1, <2>2, <2>3, <2>4, Zenon DEF Worked
<1>9. Parsed(u) => Split(x, ts, methods')
  BY <1>1, <1>2, <1>3, SplitWork
<1> QED BY <1>5, <1>7, <1>8, <1>9, Zenon

\* What the end of the process and its start leave.
LEMMA CrashGoes ==
  ASSUME Crash
  PROVE  /\ \A c \in Conn : up'[c] = Idle /\ \A w \in Worker : worker'[c][w] = NoWorker
         /\ methods' = methods /\ projects' = projects /\ content' = content /\ acked' = acked
         /\ faults' = faults
<1>1. /\ up' = [c \in Conn |-> Idle]
      /\ worker' = [c \in Conn |-> [w \in Worker |-> NoWorker]]
      /\ methods' = methods /\ projects' = projects /\ content' = content /\ acked' = acked
      /\ faults' = faults
  BY Zenon DEF Crash, Stop, tables, clients
<1> QED BY <1>1

LEMMA CalmIdle ==
  ASSUME NEW u, u = Idle, NEW ts, \A w \in Worker : ts[w] = NoWorker, NEW ms
  PROVE  u.errno = FALSE /\ (\A w \in Worker : Calm(u, ts[w], ms)) /\ ~Parsed(u)
<1>1. Idle.errno = FALSE
  BY DEF Idle
<1>2. Calm(u, NoWorker, ms)
  BY CalmFresh
<1> QED BY <1>1, <1>2, NotParsed, Zenon

LEMMA CalmStep ==
  ASSUME OneUploader, Orderly, UploadInv, ListInv, CalmInv, [Next]_vars
  PROVE  CalmInv'
<1>1. ASSUME NEW c \in Conn, Receive(c) PROVE CalmInv'
  BY <1>1, CalmReceive
<1>2. ASSUME NEW c \in Conn, Handle(c) PROVE CalmInv'
  BY <1>2, CalmHandle
<1>3. ASSUME NEW c \in Conn, NEW w \in Worker, Work(c, w) PROVE CalmInv'
  BY <1>3, CalmWork
<1>4. CASE Crash
  BY <1>4, CrashGoes, CalmIdle, Zenon DEF CalmInv
<1>5. CASE Restart \/ UNCHANGED vars
  BY <1>5, Zenon DEF Restart, vars, tables, clients, CalmInv
<1> QED BY <1>1, <1>2, <1>3, <1>4, <1>5, Zenon DEF Next

LEMMA InitGoes ==
  ASSUME Init
  PROVE  /\ \A c \in Conn : up[c] = Idle /\ \A w \in Worker : worker[c][w] = NoWorker
         /\ methods = {} /\ acked = {} /\ \A v \in Version : projects[v] = None
<1>1. /\ up = [c \in Conn |-> Idle]
      /\ worker = [c \in Conn |-> [w \in Worker |-> NoWorker]]
      /\ methods = {} /\ acked = {} /\ projects = [v \in Version |-> None]
  BY Zenon DEF Init
<1> QED BY <1>1

LEMMA CalmInvariant ==
  ASSUME OneUploader, Orderly PROVE Spec => []CalmInv
<1>1. Init => CalmInv
  BY InitGoes, CalmIdle, Zenon DEF CalmInv
<1>2. UploadInv /\ ListInv /\ CalmInv /\ [Next]_vars => CalmInv'
  BY CalmStep
<1> QED BY <1>1, <1>2, UploadInvariant, ListInvariant, PTL DEF Spec

LEMMA OrderInvariant ==
  ASSUME OneUploader, Orderly PROVE Spec => []OrderInv
<1>1. Init => OrderInv
  BY OrderInit
<1>2. UploadInv /\ ListInv /\ OrderInv /\ [Next]_vars => OrderInv'
  BY OrderStep
<1> QED BY <1>1, <1>2, UploadInvariant, ListInvariant, PTL DEF Spec

(***************************************************************************)
(* No two rows of a method span the same version                            *)
(***************************************************************************)
Disjoint(ms) ==
  \A r, q \in ms : AsMethod(r) = AsMethod(q) /\ r.start <= q.start /\ q.start <= r.end => r.start = q.start

\* A row starts and ends at versions that were stored before upload u, or at its own.
Bounded(r, u) ==
  /\ r.start \in Nat /\ r.end \in Nat /\ r.start <= r.end /\ r.end <= u.version
  /\ u.prev # 0 => (r.start <= u.prev \/ r.start = u.version) /\ (r.end <= u.prev \/ r.end = u.version)

LEMMA RowBounds ==
  ASSUME UploadInv, OrderInv, NEW c \in Conn, up[c].phase # "idle", up[c].bad = FALSE
  PROVE  \A r \in methods : Bounded(r, up[c])
<1> SUFFICES ASSUME NEW r \in methods PROVE Bounded(r, up[c])
  OBVIOUS
<1>1. RowTrue(r, content, projects) /\ r \in Row
  BY Parts, Zenon DEF Rows, Tables
<1>2. r.start \in Version /\ r.end \in Version
  BY <1>1 DEF Row
<1>3. Newest(up[c], content, projects)
  BY Zenon DEF OrderInv
<1>4. r.start \in Nat /\ r.end \in Nat
  BY <1>2, UploadBounds DEF Version
<1> QED BY <1>1, <1>2, <1>3, <1>4, Zenon DEF Newest, RowTrue, Bounded

\* A row that statement s wrote and one it left alone.
LEMMA WroteApart ==
  ASSUME NEW s, NEW u, NEW ms, NEW q, NEW r \in ms, Wrote(q, s, u.version, ms),
         AsMethod(r) = AsMethod(q), Disjoint(ms), Fit(s, u, ms),
         u.version \in Nat, u.prev \in Nat, u.prev < u.version,
         s.op = "update" => u.prev # 0,
         s.op = "insert" \/ s.op = "update", q.start \in Nat,
         \A z \in ms : Bounded(z, u),
         s.op = "insert" /\ r.end = u.version => Key(r) = Target(s),
         s.op = "update" /\ r.end = u.version /\ r.start = u.version => Key(r) = Target(s)
  PROVE  /\ r.start <= q.start /\ q.start <= r.end => r.start = q.start
         /\ q.start <= r.start /\ r.start <= q.end => r.start = q.start
<1> DEFINE v == u.version
<1>1. Bounded(r, u) /\ q.end = v /\ Key(q) = Target(s)
  BY Zenon DEF Wrote
<1>2. /\ r.start \in Nat /\ r.end \in Nat /\ r.start <= r.end /\ r.end <= v
      /\ u.prev # 0 => (r.start <= u.prev \/ r.start = v) /\ (r.end <= u.prev \/ r.end = v)
  BY <1>1, Zenon DEF Bounded
<1>3. Key(r) = Target(s) => r.start = q.start
  BY <1>1 DEF Key
<1>4. CASE s.op = "insert"
  <2>1. q.start = v
    BY <1>4, Zenon DEF Wrote
  <2>2. r.end = v => r.start = q.start
    BY <1>3, <1>4, Zenon
  <2> QED BY <1>1, <1>2, <2>1, <2>2
<1>5. CASE s.op = "update"
  <2>1. PICK z \in ms : Key(z) = KeyOf(s) /\ AsMethod(z) = s.method /\ z.start = q.start /\ z.end <= v
    BY <1>5, Zenon DEF Wrote
  <2>2. u.prev <= z.end
    BY <1>5, <2>1, Zenon DEF Fit
  <2>3. AsMethod(z) = AsMethod(r)
    BY <2>1, Zenon DEF Wrote
  <2>4. z.start \in Nat /\ z.end \in Nat
    BY Zenon DEF Bounded
  <2>5. r.start <= z.start /\ z.start <= r.end => r.start = z.start
    BY <2>3, Zenon DEF Disjoint
  <2>6. z.start <= r.start /\ r.start <= z.end => z.start = r.start
    BY <2>3, Zenon DEF Disjoint
  <2>7. r.end = v /\ r.start = v => r.start = q.start
    BY <1>3, <1>5, Zenon
  <2>8. u.prev # 0
    BY <1>5
  <2>9. (r.start <= u.prev \/ r.start = v) /\ (r.end <= u.prev \/ r.end = v)
    BY <1>2, <2>8, Zenon
  <2>10. ASSUME q.start <= r.start PROVE r.start = q.start
    <3>1. CASE r.start <= z.end
      BY <2>1, <2>6, <2>10, <3>1
    <3>2. CASE ~(r.start <= z.end)
      <4>1. r.start > u.prev
        BY <1>2, <2>2, <2>4, <3>2
      <4>2. r.start = v /\ r.end = v
        BY <1>2, <2>9, <4>1
      <4> QED BY <2>7, <4>2
    <3> QED BY <3>1, <3>2
  <2> QED BY <2>1, <2>5, <2>10
<1> QED BY <1>4, <1>5

\* A statement leaves the rows of a method disjoint.
LEMMA DisjointSends ==
  ASSUME UploadInv, ListInv, OrderInv, NEW c \in Conn, NEW k \in Worker, Sends(c, k),
         Calm(up[c], worker[c][k], methods), Split(up[c], worker[c], methods),
         up[c].phase = "methods" => Apart(up[c], worker[c], methods), Disjoint(methods)
  PROVE  Disjoint(methods')
<1> DEFINE u == up[c]
           t == worker[c][k]
           v == u.version
           s == Head(t.todo)
           S == Statement(u.version, u.prev, content[u.version])
<1>1. /\ t.todo \in Seq(S) /\ t.todo # <<>>
      /\ s = t.todo[1] /\ s \in S
      /\ Fit(s, u, methods) /\ Writing(s, v, methods, methods')
  BY SendsWrites, Zenon
<1>2. t.pc = "write"
  BY Zenon DEF Sends
<1>3. t.pc \in {"select", "write"} /\ t.pc # "idle"
  BY <1>2
<1>4. /\ u.phase \in {"methods", "files"} /\ v \in Version /\ u.prev \in 0..MaxVersion /\ u.prev < v
      /\ Request(u, content, projects)
  BY <1>3, WorkerAt, Zenon
<1>5. u.phase # "idle" /\ u.bad = FALSE
  <2>1. u.phase \notin {"check", "search", "parse"} /\ u.phase # "idle"
    BY <1>4
  <2> QED BY <1>4, <2>1, Zenon DEF Request
<1>6. \A r \in methods : Bounded(r, u)
  BY <1>5, RowBounds
<1>7. v \in Nat /\ u.prev \in Nat
  BY <1>4, UploadBounds DEF Version
<1>8. 1 \in 1..Len(t.todo)
  <2> HIDE DEF S
  <2> QED BY <1>1, TailAt
<1> HIDE DEF s
<1>9. /\ s.op \in {"author", "insert", "update"} /\ s.method \in content[v]
      /\ s.op = "update" => s.start \in 1..u.prev
  BY <1>1, StatementKinds
<1> HIDE DEF S
<1>10. Prepared(s, u, t, methods)
  BY <1>1, <1>8, Zenon DEF Calm
<1>11. s.op = "update" => u.prev # 0
  BY <1>7, <1>9
<1>12. ASSUME NEW q, Wrote(q, s, v, methods), NEW r \in methods, AsMethod(r) = AsMethod(q)
       PROVE  /\ r.start <= q.start /\ q.start <= r.end => r.start = q.start
              /\ q.start <= r.start /\ r.start <= q.end => r.start = q.start
  <2>1. s.op # "author" /\ AsMethod(r) = s.method
    BY <1>12, Zenon DEF Wrote
  <2>2. s.op = "insert" \/ s.op = "update"
    BY <1>9, <2>1
  <2>3. q.start \in Nat
    <3>1. CASE s.op = "insert"
      BY <1>7, <1>12, <3>1, Zenon DEF Wrote
    <3>2. CASE s.op = "update"
      <4>1. PICK z \in methods : z.start = q.start
        BY <1>12, <3>2, Zenon DEF Wrote
      <4> QED BY <1>6, <4>1, Zenon DEF Bounded
    <3> QED BY <2>2, <3>1, <3>2
  <2>4. ASSUME r.end = v, s.op = "insert" \/ r.start = v PROVE Key(r) = Target(s)
    <3>1. CASE u.phase = "methods"
      <4>1. s.method = t.item
        BY <1>10, <2>1, <3>1, Zenon DEF Prepared
      <4>2. Active(t) /\ t.item = AsMethod(r)
        BY <1>3, <2>1, <4>1, Zenon DEF Active
      <4>3. Target(s) = Key(r)
        BY <1>1, <1>8, <2>1, <2>4, <3>1, <4>2, Zenon DEF Apart
      <4> QED BY <4>3
    <3>2. CASE u.phase = "files"
      <4>1. s.op = "update" /\ s.method.file \in u.files
        BY <1>10, <2>1, <3>2, Zenon DEF Prepared
      <4>2. s.op # "insert"
        BY <4>1
      <4>3. r.file = s.method.file
        BY <2>1 DEF AsMethod
      <4>4. r.start # v
        BY <4>1, <4>3, Zenon DEF Split
      <4> QED BY <2>4, <4>2, <4>4
    <3> QED BY <1>4, <3>1, <3>2
  <2> HIDE DEF u
  <2> QED BY <1>1, <1>4, <1>6, <1>7, <1>11, <1>12, <2>2, <2>3, <2>4, WroteApart
<1>13. ASSUME NEW q, NEW r, Wrote(q, s, v, methods), Wrote(r, s, v, methods) PROVE q.start = r.start
  <2>1. Key(q) = Key(r)
    BY <1>13, Zenon DEF Wrote
  <2> QED BY <2>1 DEF Key
<1> SUFFICES ASSUME NEW r \in methods', NEW q \in methods', AsMethod(r) = AsMethod(q),
                    r.start <= q.start, q.start <= r.end
             PROVE  r.start = q.start
  BY Zenon DEF Disjoint
<1>14. r \in methods \/ Wrote(r, s, v, methods)
  BY <1>1, Zenon DEF Writing
<1>15. q \in methods \/ Wrote(q, s, v, methods)
  BY <1>1, Zenon DEF Writing
<1>16. CASE r \in methods /\ q \in methods
  BY <1>16, Zenon DEF Disjoint
<1>17. CASE r \in methods /\ Wrote(q, s, v, methods)
  BY <1>12, <1>17, Zenon
<1>18. CASE Wrote(r, s, v, methods) /\ q \in methods
  <2>1. AsMethod(q) = AsMethod(r)
    OBVIOUS
  <2>2. q.start = r.start
    BY <1>12, <1>18, <2>1, Zenon
  <2> QED BY <2>2
<1>19. CASE Wrote(r, s, v, methods) /\ Wrote(q, s, v, methods)
  BY <1>13, <1>19
<1> QED BY <1>14, <1>15, <1>16, <1>17, <1>18, <1>19

\* All rows the list of a worker writes have the same key.
OneTarget(l) == \A i, j \in 1..Len(l) : l[i].op # "author" /\ l[j].op # "author" => Target(l[i]) = Target(l[j])

LEMMA MethodListTarget ==
  ASSUME UploadInv, NEW u, NEW item \in Method, IsFiniteSet(u.as), Disjoint(methods)
  PROVE  OneTarget(MethodList(u, item, "ok"))
<1> DEFINE l == MethodList(u, item, "ok")
           rows == RowsToExtend({item.hash}, {item.file}, u.prev)
<1>1. methods \subseteq Row /\ IsFiniteSet(methods)
  BY Parts, Zenon DEF Tables
<1>2. MethodWrites(l, item, rows, u.version)
  BY <1>1, MethodListWrites
<1>3. \A r \in methods : r.start \in Nat /\ r.end \in Nat /\ r.start <= r.end
  <2>1. \A r \in methods : RowTrue(r, content, projects)
    BY Parts, Zenon DEF Rows
  <2>2. \A r \in Row : r.start \in Nat /\ r.end \in Nat
    BY UploadBounds DEF Row, Version
  <2> QED BY <1>1, <2>1, <2>2, Zenon DEF RowTrue
<1>4. \A r \in rows : r \in methods /\ r.hash = item.hash /\ r.file = item.file /\ r.end = u.prev
  BY DEF RowsToExtend
<1> HIDE DEF l, rows
<1>5. ASSUME NEW r \in rows, NEW q \in rows PROVE Key(r) = Key(q)
  <2>1. AsMethod(r) = AsMethod(q)
    BY <1>4, Zenon DEF AsMethod
  <2>2. r.start \in Nat /\ q.start \in Nat /\ r.start <= r.end /\ q.start <= q.end /\ r.end = q.end
        /\ r \in methods /\ q \in methods
    BY <1>3, <1>4
  <2>3. r.start <= q.start \/ q.start <= r.start
    BY <2>2
  <2>4. r.start = q.start
    <3>1. r.start <= q.start => r.start = q.start
      BY <2>1, <2>2, Zenon DEF Disjoint
    <3>2. q.start <= r.start => q.start = r.start
      BY <2>1, <2>2, Zenon DEF Disjoint
    <3> QED BY <2>3, <3>1, <3>2
  <2> QED BY <1>4, <2>4, Zenon DEF Key
<1>6. ASSUME NEW i \in 1..Len(l), NEW j \in 1..Len(l), l[i].op # "author", l[j].op # "author"
      PROVE  Target(l[i]) = Target(l[j])
  <2>1. l[i].method = item /\ l[j].method = item
    BY <1>2, <1>6, Zenon DEF MethodWrites
  <2>2. CASE /\ l[i].op = "insert" /\ l[i].version = u.version
             /\ l[j].op = "insert" /\ l[j].version = u.version
    BY <2>1, <2>2, Zenon DEF Target
  <2>3. CASE /\ l[i].op = "update" /\ (\E r \in rows : KeyOf(l[i]) = Key(r))
             /\ l[j].op = "update" /\ (\E r \in rows : KeyOf(l[j]) = Key(r))
    <3>1. l[i].op # "insert" /\ l[j].op # "insert"
      BY <2>3
    <3>2. Target(l[i]) = KeyOf(l[i]) /\ Target(l[j]) = KeyOf(l[j])
      BY <3>1, Zenon DEF Target, KeyOf
    <3> QED BY <1>5, <2>3, <3>2, Zenon
  <2>4. \/ /\ l[i].op = "insert" /\ l[i].version = u.version
           /\ l[j].op = "insert" /\ l[j].version = u.version
        \/ /\ l[i].op = "update" /\ (\E r \in rows : KeyOf(l[i]) = Key(r))
           /\ l[j].op = "update" /\ (\E r \in rows : KeyOf(l[j]) = Key(r))
    BY <1>2, <1>6, Zenon DEF MethodWrites
  <2> QED BY <2>2, <2>3, <2>4
<1> QED BY <1>6, Zenon DEF OneTarget, l

\* Apart, worker by worker.
Hands(u, ts, ms) ==
  \A w \in Worker : Active(ts[w]) =>
    /\ \A i \in 1..Len(u.queue) : u.queue[i] # ts[w].item
    /\ \A x \in Worker : Active(ts[x]) /\ ts[x].item = ts[w].item => x = w
    /\ OneTarget(ts[w].todo)

InHand(u, ts, r) ==
  \A w \in Worker : Active(ts[w]) /\ ts[w].item = AsMethod(r) =>
    /\ ts[w].pc = "write"
    /\ \A i \in 1..Len(ts[w].todo) : ts[w].todo[i].op # "author" => Target(ts[w].todo[i]) = Key(r)

LEMMA ApartIs ==
  ASSUME NEW u, NEW ts, NEW ms
  PROVE  Apart(u, ts, ms) <=>
           /\ \A i, j \in 1..Len(u.queue) : u.queue[i] = u.queue[j] => i = j
           /\ Hands(u, ts, ms)
           /\ \A r \in ms : r.end = u.version =>
                (\A i \in 1..Len(u.queue) : u.queue[i] # AsMethod(r)) /\ InHand(u, ts, r)
BY Zenon DEF Apart, Hands, InHand, OneTarget

LEMMA ApartTakes ==
  ASSUME NEW c \in Conn, NEW k \in Worker, Takes(c, k), Rest(c, k), Apart(up[c], worker[c], methods),
         NEW E, up[c].queue \in Seq(E)
  PROVE  Apart(up'[c], worker'[c], methods')
<1> DEFINE u == up[c]
           x == up'[c]
           ts == worker[c]
           ts2 == worker'[c]
           y == worker'[c][k]
<1>1. /\ methods' = methods /\ u.queue # <<>> /\ x.queue = Tail(u.queue) /\ x.version = u.version
      /\ y.pc = "select" /\ y.item = Head(u.queue) /\ y.todo = <<>>
  BY Zenon DEF Takes, Goes, Kept, Does
<1>2. \A w \in Worker : w # k => ts2[w] = ts[w]
  BY Zenon DEF Rest
<1>3. /\ Head(u.queue) = u.queue[1] /\ 1 \in 1..Len(u.queue)
      /\ \A i \in 1..Len(Tail(u.queue)) : Tail(u.queue)[i] = u.queue[i + 1] /\ i + 1 \in 1..Len(u.queue) /\ i + 1 # 1
      /\ Len(Tail(u.queue)) \in Nat
  BY <1>1, TailAt
<1>4. /\ \A i, j \in 1..Len(u.queue) : u.queue[i] = u.queue[j] => i = j
      /\ Hands(u, ts, methods)
      /\ \A r \in methods : r.end = u.version =>
           (\A i \in 1..Len(u.queue) : u.queue[i] # AsMethod(r)) /\ InHand(u, ts, r)
  BY ApartIs
<1>5. ts2[k] = y /\ x = up'[c]
  OBVIOUS
<1>6. OneTarget(y.todo) /\ y.pc # "write"
  <2>1. 1..Len(y.todo) = {}
    BY <1>1
  <2> QED BY <1>1, <2>1 DEF OneTarget
<1> HIDE DEF u, x, ts, ts2, y
<1>7. \A i \in 1..Len(x.queue) : x.queue[i] = u.queue[i + 1] /\ i + 1 \in 1..Len(u.queue) /\ i + 1 # 1
  BY <1>1, <1>3
<1>8. ASSUME NEW i \in 1..Len(x.queue), NEW j \in 1..Len(x.queue), x.queue[i] = x.queue[j] PROVE i = j
  <2>1. i + 1 = j + 1
    BY <1>4, <1>7, <1>8, Zenon
  <2> QED BY <2>1
<1>9. ASSUME NEW w \in Worker, Active(ts2[w])
      PROVE  /\ \A i \in 1..Len(x.queue) : x.queue[i] # ts2[w].item
             /\ \A z \in Worker : Active(ts2[z]) /\ ts2[z].item = ts2[w].item => z = w
             /\ OneTarget(ts2[w].todo)
  <2>1. CASE w = k
    <3>1. ts2[w].item = u.queue[1] /\ OneTarget(ts2[w].todo)
      BY <1>1, <1>3, <1>5, <1>6, <2>1, Zenon
    <3>2. \A i \in 1..Len(x.queue) : x.queue[i] # u.queue[1]
      BY <1>3, <1>4, <1>7, Zenon
    <3>3. ASSUME NEW z \in Worker, z # k, Active(ts2[z]) PROVE ts2[z].item # u.queue[1]
      <4>1. ts2[z] = ts[z]
        BY <1>2, <3>3
      <4>2. Active(ts[z])
        BY <3>3, <4>1, Zenon
      <4>3. u.queue[1] # ts[z].item
        BY <1>3, <1>4, <4>2, Zenon DEF Hands
      <4> QED BY <4>1, <4>3
    <3> QED BY <2>1, <3>1, <3>2, <3>3, Zenon
  <2>2. CASE w # k
    <3>1. ts2[w] = ts[w]
      BY <1>2, <2>2
    <3>2. /\ \A i \in 1..Len(u.queue) : u.queue[i] # ts[w].item
          /\ \A z \in Worker : Active(ts[z]) /\ ts[z].item = ts[w].item => z = w
          /\ OneTarget(ts[w].todo)
      BY <1>4, <1>9, <3>1, Zenon DEF Hands
    <3>3. ts2[k].item # ts[w].item
      BY <1>1, <1>3, <1>5, <3>2, Zenon
    <3> QED BY <1>2, <1>7, <3>1, <3>2, <3>3, Zenon
  <2> QED BY <2>1, <2>2
<1>10. ASSUME NEW r \in methods, r.end = x.version
       PROVE  (\A i \in 1..Len(x.queue) : x.queue[i] # AsMethod(r)) /\ InHand(x, ts2, r)
  <2>1. (\A i \in 1..Len(u.queue) : u.queue[i] # AsMethod(r)) /\ InHand(u, ts, r)
    BY <1>1, <1>4, <1>10, Zenon
  <2>2. y.item # AsMethod(r)
    BY <1>1, <1>3, <2>1, Zenon
  <2>3. ASSUME NEW w \in Worker, Active(ts2[w]), ts2[w].item = AsMethod(r)
        PROVE  /\ ts2[w].pc = "write"
               /\ \A i \in 1..Len(ts2[w].todo) : ts2[w].todo[i].op # "author" => Target(ts2[w].todo[i]) = Key(r)
    <3>1. w # k
      BY <1>5, <2>2, <2>3
    <3>2. ts2[w] = ts[w]
      BY <1>2, <3>1
    <3>3. Active(ts[w]) /\ ts[w].item = AsMethod(r)
      BY <2>3, <3>2, Zenon
    <3> QED BY <2>1, <3>2, <3>3, Zenon DEF InHand
  <2>4. InHand(x, ts2, r)
    BY <2>3, Zenon DEF InHand
  <2> QED BY <1>7, <2>1, <2>4, Zenon
<1>11. Apart(x, ts2, methods)
  <2>1. Hands(x, ts2, methods)
    BY <1>9, Zenon DEF Hands
  <2> QED BY <1>8, <1>10, <2>1, ApartIs
<1> QED BY <1>1, <1>11, Zenon DEF x, ts2

\* A worker that ends, has looked its method up or has sent a statement.
HandsOn(t, y) ==
  Active(y) => /\ Active(t) /\ y.item = t.item /\ OneTarget(y.todo)
               /\ t.pc = "write" => /\ y.pc = "write"
                                    /\ \A i \in 1..Len(y.todo) : \E j \in 1..Len(t.todo) : y.todo[i] = t.todo[j]

\* Its new rows are those it had in hand.
WrittenBy(t, ms, ms2) ==
  \A q \in ms2 : q \in ms \/ /\ Active(t) /\ AsMethod(q) = t.item /\ t.pc = "write"
                             /\ \E j \in 1..Len(t.todo) : t.todo[j].op # "author" /\ Target(t.todo[j]) = Key(q)

LEMMA ApartHolds ==
  ASSUME NEW u, NEW ts, NEW ts2, NEW k \in Worker, NEW ms, NEW ms2, Apart(u, ts, ms),
         \A w \in Worker : w # k => ts2[w] = ts[w],
         HandsOn(ts[k], ts2[k]), WrittenBy(ts[k], ms, ms2)
  PROVE  Apart(u, ts2, ms2)
<1> USE DEF HandsOn, WrittenBy
<1>1. /\ \A i, j \in 1..Len(u.queue) : u.queue[i] = u.queue[j] => i = j
      /\ Hands(u, ts, ms)
      /\ \A r \in ms : r.end = u.version =>
           (\A i \in 1..Len(u.queue) : u.queue[i] # AsMethod(r)) /\ InHand(u, ts, r)
  BY ApartIs
<1>2. ASSUME NEW w \in Worker, Active(ts2[w]) PROVE Active(ts[w]) /\ ts2[w].item = ts[w].item
  BY <1>2, Zenon
<1>3. ASSUME NEW w \in Worker, Active(ts2[w])
      PROVE  /\ \A i \in 1..Len(u.queue) : u.queue[i] # ts2[w].item
             /\ \A z \in Worker : Active(ts2[z]) /\ ts2[z].item = ts2[w].item => z = w
             /\ OneTarget(ts2[w].todo)
  <2>1. Active(ts[w]) /\ ts2[w].item = ts[w].item
    BY <1>2, <1>3
  <2>2. /\ \A i \in 1..Len(u.queue) : u.queue[i] # ts[w].item
        /\ \A z \in Worker : Active(ts[z]) /\ ts[z].item = ts[w].item => z = w
        /\ OneTarget(ts[w].todo)
    BY <1>1, <2>1, Zenon DEF Hands
  <2>3. OneTarget(ts2[w].todo)
    <3>1. CASE w = k
      BY <1>3, <3>1, Zenon
    <3>2. CASE w # k
      <4>1. ts2[w] = ts[w]
        BY <3>2
      <4> QED BY <2>2, <4>1, Zenon
    <3> QED BY <3>1, <3>2
  <2>4. ASSUME NEW z \in Worker, Active(ts2[z]), ts2[z].item = ts2[w].item PROVE z = w
    BY <1>2, <2>1, <2>2, <2>4, Zenon
  <2> QED BY <2>1, <2>2, <2>3, <2>4, Zenon
<1>4. ASSUME NEW r \in ms, NEW w \in Worker, r.end = u.version, Active(ts2[w]), ts2[w].item = AsMethod(r)
      PROVE  /\ ts2[w].pc = "write"
             /\ \A i \in 1..Len(ts2[w].todo) : ts2[w].todo[i].op # "author" => Target(ts2[w].todo[i]) = Key(r)
  <2>1. Active(ts[w]) /\ ts[w].item = AsMethod(r)
    BY <1>2, <1>4
  <2>2. /\ ts[w].pc = "write"
        /\ \A i \in 1..Len(ts[w].todo) : ts[w].todo[i].op # "author" => Target(ts[w].todo[i]) = Key(r)
    BY <1>1, <1>4, <2>1, Zenon DEF InHand
  <2>3. CASE w = k
    <3>1. ts2[w].pc = "write"
      BY <1>4, <2>2, <2>3, Zenon
    <3>2. \A i \in 1..Len(ts2[w].todo) : \E j \in 1..Len(ts[w].todo) : ts2[w].todo[i] = ts[w].todo[j]
      BY <1>4, <2>2, <2>3, Zenon
    <3> QED BY <2>2, <3>1, <3>2, Zenon
  <2>4. CASE w # k
    <3>1. ts2[w] = ts[w]
      BY <2>4
    <3> QED BY <2>2, <3>1, Zenon
  <2> QED BY <2>3, <2>4
<1>5. ASSUME NEW q \in ms2, q \notin ms
      PROVE  (\A i \in 1..Len(u.queue) : u.queue[i] # AsMethod(q)) /\ InHand(u, ts2, q)
  <2>1. /\ Active(ts[k]) /\ AsMethod(q) = ts[k].item /\ ts[k].pc = "write"
        /\ \E j \in 1..Len(ts[k].todo) : ts[k].todo[j].op # "author" /\ Target(ts[k].todo[j]) = Key(q)
    BY <1>5, Zenon
  <2>2. /\ \A i \in 1..Len(u.queue) : u.queue[i] # ts[k].item
        /\ \A z \in Worker : Active(ts[z]) /\ ts[z].item = ts[k].item => z = k
        /\ OneTarget(ts[k].todo)
    BY <1>1, <2>1, Zenon DEF Hands
  <2>3. \A i \in 1..Len(ts[k].todo) : ts[k].todo[i].op # "author" => Target(ts[k].todo[i]) = Key(q)
    BY <2>1, <2>2, Zenon DEF OneTarget
  <2>4. ASSUME NEW w \in Worker, Active(ts2[w]), ts2[w].item = AsMethod(q)
        PROVE  /\ ts2[w].pc = "write"
               /\ \A i \in 1..Len(ts2[w].todo) : ts2[w].todo[i].op # "author" => Target(ts2[w].todo[i]) = Key(q)
    <3>1. Active(ts[w]) /\ ts[w].item = ts[k].item
      BY <1>2, <2>1, <2>4
    <3>2. w = k
      BY <2>2, <3>1, Zenon
    <3>3. ts2[w].pc = "write"
      BY <2>1, <2>4, <3>2, Zenon
    <3>4. \A i \in 1..Len(ts2[k].todo) : \E j \in 1..Len(ts[k].todo) : ts2[k].todo[i] = ts[k].todo[j]
      BY <2>1, <2>4, <3>2, Zenon
    <3>5. \A i \in 1..Len(ts2[k].todo) : ts2[k].todo[i].op # "author" => Target(ts2[k].todo[i]) = Key(q)
      BY <2>3, <3>4, Zenon
    <3> QED BY <3>2, <3>3, <3>5, Zenon
  <2>5. InHand(u, ts2, q)
    BY <2>4, Zenon DEF InHand
  <2> QED BY <2>1, <2>2, <2>5, Zenon
<1>6. Hands(u, ts2, ms2)
  BY <1>3, Zenon DEF Hands
<1>7. ASSUME NEW r \in ms2, r.end = u.version
      PROVE  (\A i \in 1..Len(u.queue) : u.queue[i] # AsMethod(r)) /\ InHand(u, ts2, r)
  <2>1. CASE r \in ms
    <3>1. InHand(u, ts2, r)
      BY <1>4, <1>7, <2>1, Zenon DEF InHand
    <3> QED BY <1>1, <1>7, <2>1, <3>1, Zenon
  <2>2. CASE r \notin ms
    BY <1>5, <2>2
  <2> QED BY <2>1, <2>2
<1> QED BY <1>1, <1>6, <1>7, ApartIs

LEMMA ApartWork ==
  ASSUME UploadInv, ListInv, NEW c \in Conn, NEW k \in Worker, worker[c][k].pc # "idle",
         up[c].phase = "methods", Calm(up[c], worker[c][k], methods), Disjoint(methods),
         Rest(c, k), Worked(c, k), Apart(up[c], worker[c], methods)
  PROVE  Apart(up'[c], worker'[c], methods')
<1> DEFINE u == up[c]
           t == worker[c][k]
           ts == worker[c]
           ts2 == worker'[c]
           y == worker'[c][k]
<1>1. u \in Upload(Entry(u)) /\ Busy(u, t, content) /\ IsFiniteSet(u.as)
  BY WorkerAt
<1>2. u.queue \in Seq(Entry(u))
  BY <1>1 DEF Upload
<1>3. \A w \in Worker : w # k => ts2[w] = ts[w]
  BY Zenon DEF Rest
<1>4. CASE Takes(c, k)
  <2> DEFINE E == Entry(u)
  <2>1. up[c].queue \in Seq(E)
    BY <1>2
  <2> HIDE DEF E
  <2> QED BY <1>4, <2>1, ApartTakes
<1>5. ASSUME up'[c] = u, HandsOn(t, y), WrittenBy(t, methods, methods')
      PROVE  Apart(up'[c], ts2, methods')
  <2> DEFINE ms2 == methods'
  <2>1. WrittenBy(ts[k], methods, ms2) /\ HandsOn(ts[k], ts2[k]) /\ Apart(u, ts, methods)
    BY <1>5
  <2> HIDE DEF u, ts, ts2, ms2
  <2>2. Apart(u, ts2, ms2)
    BY <1>3, <2>1, ApartHolds
  <2> QED BY <1>5, <2>2, Zenon DEF u, ms2
<1>6. CASE Ends(c, k)
  <2>1. y.pc = "ended" /\ up'[c] = u /\ methods' = methods
    BY <1>6, Zenon DEF Ends, Does
  <2>2. ~Active(y)
    BY <2>1 DEF Active
  <2> QED BY <1>5, <2>1, <2>2, Zenon DEF HandsOn, WrittenBy
<1>7. CASE LooksUp(c, k)
  <2> DEFINE l == MethodList(u, t.item, "ok")
  <2>1. /\ t.pc = "select" /\ up'[c] = u /\ methods' = methods
        /\ y.item = t.item /\ y.todo = l
    BY <1>7, Zenon DEF LooksUp, Does
  <2>2. t.pc # "write" /\ Active(t) /\ t.pc \in {"select", "write"}
    BY <2>1 DEF Active
  <2>3. t.item \in Method
    <3>1. t.item \in content[u.version] /\ content[u.version] \in SUBSET Method
      BY <1>1, <2>2, WorkerAt, Zenon DEF Busy
    <3> QED BY <3>1
  <2> HIDE DEF u
  <2>4. OneTarget(l)
    BY <1>1, <2>3, MethodListTarget
  <2> HIDE DEF l
  <2> QED BY <1>5, <2>1, <2>2, <2>4, Zenon DEF u, HandsOn, WrittenBy
<1>8. CASE LooksUpAll(c, k)
  <2>1. u.phase = "files"
    BY <1>8, Zenon DEF LooksUpAll
  <2> QED BY <2>1
<1>9. CASE Sends(c, k)
  <2> DEFINE s == t.todo[1]
             S == Statement(u.version, u.prev, content[u.version])
  <2>1. /\ t.todo \in Seq(S) /\ t.todo # <<>> /\ Head(t.todo) = s
        /\ Writing(s, u.version, methods, methods')
    BY <1>9, SendsWrites, Zenon
  <2>2. /\ t.pc = "write" /\ up'[c] = u
        /\ \/ y.pc = "write" /\ y.item = t.item /\ y.todo = Tail(t.todo)
           \/ y.pc = "take"
    BY <1>9, Zenon DEF Sends, Does
  <2>3. Active(t)
    BY <2>2 DEF Active
  <2> HIDE DEF S
  <2>4. /\ 1 \in 1..Len(t.todo)
        /\ \A i \in 1..Len(Tail(t.todo)) : Tail(t.todo)[i] = t.todo[i + 1] /\ i + 1 \in 1..Len(t.todo)
    BY <2>1, TailAt
  <2>5. OneTarget(t.todo)
    <3>1. Hands(u, ts, methods)
      BY ApartIs
    <3> QED BY <2>3, <3>1, Zenon DEF Hands
  <2>6. Prepared(s, u, t, methods)
    BY <2>4, Zenon DEF Calm
  <2>7. ASSUME NEW q \in methods', q \notin methods
        PROVE  AsMethod(q) = t.item /\ s.op # "author" /\ Target(s) = Key(q)
    <3>1. Wrote(q, s, u.version, methods)
      BY <2>1, <2>7, Zenon DEF Writing
    <3> QED BY <2>6, <3>1, Zenon DEF Wrote, Prepared
  <2>8. Active(y) => y.pc = "write" /\ y.item = t.item /\ y.todo = Tail(t.todo)
    <3>1. "take" \notin {"select", "write"}
      OBVIOUS
    <3> QED BY <2>2, <3>1, Zenon DEF Active
  <2>9. ASSUME Active(y), NEW i \in 1..Len(y.todo) PROVE \E j \in 1..Len(t.todo) : y.todo[i] = t.todo[j]
    BY <2>4, <2>8, <2>9, Zenon
  <2>10. ASSUME Active(y) PROVE OneTarget(y.todo)
    <3> SUFFICES ASSUME NEW i \in 1..Len(y.todo), NEW j \in 1..Len(y.todo),
                        y.todo[i].op # "author", y.todo[j].op # "author"
                 PROVE  Target(y.todo[i]) = Target(y.todo[j])
      BY Zenon DEF OneTarget
    <3>1. PICK m \in 1..Len(t.todo) : y.todo[i] = t.todo[m]
      BY <2>9, <2>10
    <3>2. PICK n \in 1..Len(t.todo) : y.todo[j] = t.todo[n]
      BY <2>9, <2>10
    <3> QED BY <2>5, <3>1, <3>2, Zenon DEF OneTarget
  <2>11. WrittenBy(t, methods, methods')
    BY <2>2, <2>3, <2>4, <2>7, Zenon DEF WrittenBy
  <2>12. HandsOn(t, y)
    BY <2>3, <2>8, <2>9, <2>10, Zenon DEF HandsOn
  <2> HIDE DEF u, t, y
  <2> QED BY <1>5, <2>2, <2>11, <2>12, Zenon
<1> QED BY <1>4, <1>6, <1>7, <1>8, <1>9, Zenon DEF Worked

LEMMA RangeReceive ==
  ASSUME OneUploader, Orderly, UploadInv, RangeInv, NEW c \in Conn, Receive(c)
  PROVE  RangeInv'
<1>1. PICK v, bad, p, as, now, files, x : Choice(c, v, bad, p, as, now, files, x)
  BY ReceiveChoice
<1>2. /\ v \in Version /\ v \in Sendable /\ x.version = v
      /\ x.phase \in {"check", "search", "parse"} /\ Posted(x.sent, now, files)
      /\ up' = [up EXCEPT ![c] = x]
  BY <1>1, Zenon DEF Choice
<1>3. methods' = methods /\ faults' = faults
  BY Zenon DEF Receive, tables
<1>4. content[v] = None
  BY <1>2, Zenon DEF Sendable, Orderly
<1>5. up'[c] = x
  <2>1. up = [d \in Conn |-> up[d]]
    BY Parts
  <2> QED BY <1>2, <2>1
<1>6. \A r \in methods : r.end # v
  BY <1>4, Parts, Zenon DEF Rows, RowTrue
<1>7. x.phase # "methods"
  BY <1>2
<1>8. "twins" \notin Clients => Separate(x, worker'[c], methods)
  BY <1>2, <1>6, <1>7, Zenon DEF Separate, Posted
<1> QED BY <1>3, <1>5, <1>8, Zenon DEF RangeInv, RangesDisjoint, OneUploader

LEMMA RangeHandle ==
  ASSUME OneUploader, UploadInv, CalmInv, RangeInv, NEW c \in Conn, Handle(c)
  PROVE  RangeInv'
<1> DEFINE u == up[c]
           x == up'[c]
           ts == worker'[c]
<1> SUFFICES ASSUME faults' = 0, "twins" \notin Clients
             PROVE  RangesDisjoint' /\ (Parsed(x) => Separate(x, ts, methods'))
  BY Zenon DEF RangeInv, OneUploader
<1>1. /\ faults = 0 /\ methods' = methods
      /\ Refused(c) \/ ReadOn(c) \/ Stores(c) \/ Adds(c) \/ Starts(c) \/ Joins(c)
  BY HandleGoes
<1>2. RangesDisjoint' /\ (Parsed(u) => Separate(u, worker[c], methods))
  BY <1>1, Zenon DEF RangeInv, RangesDisjoint
<1>3. x = Idle => ~Parsed(x)
  BY NotParsed
\* It has written nothing, or the first round is over.
<1>4. ASSUME NEW ph, NEW hs, NEW ps, NEW q, NEW i, Goes(x, u, ph, hs, ps, q, i), u.phase # "idle",
             u.phase \notin {"methods", "files", "unchanged"} \/ ph \in {"files", "unchanged"},
             ph # "methods"
      PROVE  Parsed(x) => Separate(x, ts, methods')
  <2>1. /\ x.sent = u.sent /\ x.version = u.version /\ x.phase = ph /\ x.bad = u.bad
    BY <1>4, Zenon DEF Goes, Kept
  <2>2. Parsed(x) => Separate(u, worker[c], methods)
    BY <1>2, <1>4, <2>1, Zenon DEF Parsed
  <2>3. ph \in {"files", "unchanged"} => ph \in {"methods", "files", "unchanged"}
    OBVIOUS
  <2> HIDE DEF x, u, ts
  <2> QED BY <1>1, <1>4, <2>1, <2>2, <2>3, Zenon DEF Separate
<1>5. CASE Refused(c)
  BY <1>2, <1>3, <1>5, Zenon DEF Refused
<1>6. CASE ReadOn(c)
  <2>1. \E ph, hs, ps, q, i : /\ Goes(x, u, ph, hs, ps, q, i)
                              /\ u.phase \in {"check", "search", "parse"}
                              /\ ph \in {FirstPhase(u.prev), "parse", "insert"}
    BY <1>6 DEF ReadOn
  <2>2. PICK ph, hs, ps, q, i : /\ Goes(x, u, ph, hs, ps, q, i)
                                /\ u.phase \in {"check", "search", "parse"}
                                /\ ph \in {FirstPhase(u.prev), "parse", "insert"}
    BY <2>1
  <2>3. ph # "methods" /\ u.phase # "idle" /\ u.phase \notin {"methods", "files", "unchanged"}
    BY <2>2 DEF FirstPhase
  <2> QED BY <1>2, <1>4, <2>2, <2>3, Zenon
<1>7. CASE Stores(c)
  <2>1. u.phase # "idle" /\ u.phase \notin {"methods", "files", "unchanged"}
        /\ "extend" # "methods" /\ "start" # "methods"
    BY <1>7 DEF Stores
  <2> QED BY <1>2, <1>4, <1>7, <2>1, Zenon DEF Stores
<1>8. CASE Adds(c)
  <2>1. u.phase \in {"extend", "unchanged"} /\ u.phase # "idle" /\ u.phase # "methods"
        /\ (u.phase = "extend" => u.phase \notin {"methods", "files", "unchanged"})
        /\ (u.phase \notin {"methods", "files", "unchanged"} \/ u.phase \in {"files", "unchanged"})
        /\ "start" # "methods"
    BY <1>8 DEF Adds
  <2> QED BY <1>2, <1>3, <1>4, <1>8, <2>1, Zenon DEF Adds
<1>9. CASE Starts(c)
  <2>1. /\ Goes(x, u, "methods", u.hashes, u.prevHashes, u.sent, u.index)
        /\ u.phase = "start" /\ \A w \in Worker : ts[w] = Taking
    BY <1>9, Zenon DEF Starts, Taking
  <2>2. ~Active(Taking)
    BY CalmFresh
  <2>3. /\ x.phase = "methods" /\ x.queue = u.sent /\ x.version = u.version /\ x.sent = u.sent /\ x.bad = u.bad
    BY <2>1, Zenon DEF Goes, Kept
  <2>4. Parsed(x) => Separate(u, worker[c], methods)
    <3>1. u.phase # "idle"
      BY <2>1
    <3> QED BY <1>2, <2>3, <3>1, Zenon DEF Parsed
  <2>5. u.phase \notin {"methods", "files", "unchanged"} /\ x.phase \in {"methods", "files", "unchanged"}
    BY <2>1, <2>3
  <2> HIDE DEF x, u, ts
  <2>6. ASSUME Separate(u, worker[c], methods) PROVE Separate(x, ts, methods)
    <3>1. \A r \in methods : r.end # u.version
      BY <2>5, <2>6, Zenon DEF Separate
    <3>2. \A i, j \in 1..Len(u.sent) : u.sent[i] = u.sent[j] => i = j
      BY <2>6, Zenon DEF Separate
    <3>3. Apart(x, ts, methods)
      BY <2>1, <2>2, <2>3, <3>1, <3>2, Zenon DEF Apart
    <3> QED BY <2>3, <2>5, <3>2, <3>3, Zenon DEF Separate
  <2> QED BY <1>1, <1>2, <2>4, <2>6, Zenon
<1>10. CASE Joins(c)
  <2>1. CASE x = Idle
    BY <1>2, <1>3, <2>1, Zenon
  <2>2. CASE /\ u.phase = "methods"
             /\ Goes(x, u, "files", u.hashes, u.prevHashes, HashFileQueue(u.prevHashes, u.files), u.index)
    <3>1. u.phase # "idle" /\ "files" \in {"files", "unchanged"} /\ "files" # "methods"
      BY <2>2
    <3> QED BY <1>2, <1>4, <2>2, <3>1, Zenon
  <2>3. CASE /\ u.phase = "files"
             /\ Goes(x, u, "unchanged", FlattenSeq([w \in Worker |-> worker[c][w].got]), u.prevHashes, u.queue, 0)
    <3>1. u.phase # "idle" /\ "unchanged" \in {"files", "unchanged"} /\ "unchanged" # "methods"
      BY <2>3
    <3> QED BY <1>2, <1>4, <2>3, <3>1, Zenon
  <2> QED BY <1>10, <2>1, <2>2, <2>3, Zenon DEF Joins
<1> QED BY <1>1, <1>5, <1>6, <1>7, <1>8, <1>9, <1>10, Zenon

LEMMA WorkPhase ==
  ASSUME UploadInv, NEW c \in Conn, NEW k \in Worker, worker[c][k].pc # "idle"
  PROVE  /\ up[c].phase \in {"methods", "files"} /\ up[c].bad = FALSE /\ up[c].phase # "idle"
         /\ Parsed(up[c])
<1>1. up[c].phase \in {"methods", "files"} /\ Request(up[c], content, projects)
  BY WorkerAt
<1>2. up[c].phase \notin {"check", "search", "parse"} /\ up[c].phase # "idle"
  BY <1>1
<1> QED BY <1>1, <1>2, Zenon DEF Request, Parsed

LEMMA WorkBusy ==
  ASSUME NEW c, NEW k, Work(c, k) PROVE worker[c][k].pc # "idle"
BY Zenon DEF Work, TakeItem, SelectMethod, SelectUnchanged, Execute

LEMMA RangeWork ==
  ASSUME OneUploader, UploadInv, ListInv, OrderInv, CalmInv, RangeInv, NEW c \in Conn, NEW k \in Worker, Work(c, k)
  PROVE  RangeInv'
<1> DEFINE u == up[c]
           x == up'[c]
<1> SUFFICES ASSUME faults' = 0, "twins" \notin Clients
             PROVE  RangesDisjoint' /\ Separate(x, worker'[c], methods')
  BY Zenon DEF RangeInv, OneUploader
<1>1. faults = 0 /\ Rest(c, k) /\ Worked(c, k)
  BY WorkGoes, Zenon DEF Worked
<1>2. worker[c][k].pc # "idle"
  BY WorkBusy
<1>3. u.phase \in {"methods", "files"} /\ Parsed(u)
  BY <1>2, WorkPhase
<1>4. /\ Calm(u, worker[c][k], methods) /\ Split(u, worker[c], methods)
      /\ Separate(u, worker[c], methods) /\ Disjoint(methods)
  BY <1>1, <1>3, Zenon DEF CalmInv, RangeInv, RangesDisjoint, Disjoint
<1>5. Kept(x, u) /\ x.phase = u.phase
  BY <1>1, WorkKeeps, Zenon DEF Worked
<1>6. u.phase = "methods" => Apart(u, worker[c], methods)
  BY <1>4, Zenon DEF Separate
<1>7. Disjoint(methods')
  <2>1. CASE Sends(c, k)
    BY <1>4, <1>6, <2>1, DisjointSends
  <2>2. CASE methods' = methods
    BY <1>4, <2>2, Zenon DEF Disjoint
  <2> QED BY <1>1, <2>1, <2>2, Zenon DEF Worked, Ends, Takes, LooksUp, LooksUpAll
<1>8. u.phase = "methods" => Apart(x, worker'[c], methods')
  BY <1>1, <1>2, <1>4, <1>6, ApartWork
<1>9. \A i, j \in 1..Len(u.sent) : u.sent[i] = u.sent[j] => i = j
  BY <1>4, Zenon DEF Separate
<1>10. x.sent = u.sent /\ x.phase \in {"methods", "files", "unchanged"}
  BY <1>3, <1>5 DEF Kept
<1>11. Separate(x, worker'[c], methods')
  BY <1>5, <1>8, <1>9, <1>10, Zenon DEF Separate
<1> QED BY <1>7, <1>11, Zenon DEF RangesDisjoint, Disjoint

LEMMA RangeStep ==
  ASSUME OneUploader, Orderly, UploadInv, ListInv, OrderInv, CalmInv, RangeInv, [Next]_vars
  PROVE  RangeInv'
<1>1. ASSUME NEW c \in Conn, Receive(c) PROVE RangeInv'
  BY <1>1, RangeReceive
<1>2. ASSUME NEW c \in Conn, Handle(c) PROVE RangeInv'
  BY <1>2, RangeHandle
<1>3. ASSUME NEW c \in Conn, NEW w \in Worker, Work(c, w) PROVE RangeInv'
  BY <1>3, RangeWork
<1>4. CASE Crash
  BY <1>4, CrashGoes, NotParsed, Zenon DEF RangeInv, RangesDisjoint
<1>5. CASE Restart \/ UNCHANGED vars
  BY <1>5, Zenon DEF Restart, vars, tables, clients, RangeInv, RangesDisjoint
<1> QED BY <1>1, <1>2, <1>3, <1>4, <1>5, Zenon DEF Next

\* One uploader at a time, each version sent once, built on the latest one and with
\* no method twice, no failed statement: a method of a file is in at most one row
\* for any version.  addMethod extends the row that ends at the previous version or
\* inserts one, and the second round extends only rows of the files the first left
\* alone; the end of the process between two statements does not break it.
THEOREM RangesAlwaysDisjoint ==
  ASSUME OneUploader, Orderly, "twins" \notin Clients PROVE Spec => []RangesDisjoint
<1>1. Init => RangeInv
  BY InitGoes, NotParsed, Zenon DEF RangeInv, RangesDisjoint
<1>2. UploadInv /\ ListInv /\ OrderInv /\ CalmInv /\ RangeInv /\ [Next]_vars => RangeInv'
  BY RangeStep
<1>3. RangeInv => RangesDisjoint
  BY Zenon DEF RangeInv, RangesDisjoint
<1> QED BY <1>1, <1>2, <1>3, UploadInvariant, ListInvariant, OrderInvariant, CalmInvariant, PTL DEF Spec

(***************************************************************************)
(* An upload that was replied to with success is complete                   *)
(***************************************************************************)
\* What CompleteInv says of the one upload there is.
LEMMA CompleteParts ==
  ASSUME CompleteInv, Undisturbed, NEW c \in Conn, OneUploader
  PROVE  /\ \A v \in Version : projects[v] # None => v \in acked \/ (up[c].phase \in Stored /\ up[c].version = v)
         /\ \A v \in acked : Complete(v, content, projects, methods)
         /\ Parsed(up[c]) => /\ Steady(up[c], content, acked) /\ Hashed(up[c], projects)
                             /\ Spread(up[c], worker[c], content, projects, methods)
BY Zenon DEF CompleteInv, OneUploader

LEMMA SpreadEarly ==
  ASSUME NEW u, u.phase \notin {"methods", "files", "unchanged"}, NEW ts, NEW ct, NEW pj, NEW ms
  PROVE  Spread(u, ts, ct, pj, ms)
<1>1. u.phase # "methods" /\ u.phase # "files" /\ u.phase # "unchanged" /\ u.phase \notin {"files", "unchanged"}
  OBVIOUS
<1> QED BY <1>1, Zenon DEF Spread

LEMMA HashedEarly ==
  ASSUME NEW u, u.phase \in {"check", "search", "parse"}, ~(u.phase = "parse" /\ u.prev # 0), NEW pj
  PROVE  Hashed(u, pj)
<1>1. /\ u.phase \notin {"insert", "extend"} /\ u.phase # "extend"
      /\ u.phase \notin {"start", "methods", "files", "unchanged"}
      /\ ~(u.phase \notin {"check", "search"} /\ u.prev # 0)
  OBVIOUS
<1> QED BY <1>1, Zenon DEF Hashed

\* A client builds on the latest version.
LEMMA BuildsOnStored ==
  ASSUME Orderly, NEW p \in Previous, p # 0
  PROVE  p \in Version /\ projects[p] # None
<1> DEFINE stored == {v \in Version : projects[v] # None}
<1>1. p = Latest
  BY Zenon DEF Previous, Orderly
<1>2. stored # {}
  BY <1>1, Zenon DEF Latest
<1>3. PICK v \in Version : projects[v] # None
  BY <1>2
<1> QED BY <1>1, <1>3, LatestIsNewest

LEMMA CompleteReceive ==
  ASSUME OneUploader, Orderly, UploadInv, OrderInv, CompleteInv, NEW c \in Conn, Receive(c)
  PROVE  CompleteInv'
<1>1. PICK v, bad, p, as, now, files, x : Choice(c, v, bad, p, as, now, files, x)
  BY ReceiveChoice
<1>2. /\ v \in Version /\ v \in Sendable /\ x.version = v /\ x.prev = p /\ x.files = files /\ x.bad = bad
      /\ p \in Previous /\ x.phase \in {"check", "search", "parse"} /\ Posted(x.sent, now, files)
      /\ x.phase = "parse" => p = 0
  BY <1>1, Zenon DEF Choice
<1>3. /\ up' = [up EXCEPT ![c] = x] /\ bad \in BOOLEAN
      /\ content' = (IF bad THEN content ELSE [content EXCEPT ![v] = now])
      /\ acked' = (IF bad THEN acked ELSE acked \ {v})
  BY <1>1, Zenon DEF Choice
<1>4. methods' = methods /\ projects' = projects /\ faults' = faults /\ crashes' = crashes /\ up[c].phase = "idle"
  BY Zenon DEF Receive, tables
<1>5. content[v] = None
  BY <1>2, Zenon DEF Sendable, Orderly
<1>6. projects[v] = None
  BY <1>2, <1>5, Parts, Zenon DEF HashesHonest
<1>7. v \notin acked /\ acked \subseteq Version
  BY <1>6, Parts, Zenon DEF OrderInv
<1>8. acked' = acked
  BY <1>3, <1>7
<1>9. content = [w \in Version |-> content[w]]
  BY Parts
<1>10. /\ \A w \in Version : w # v => content'[w] = content[w]
       /\ bad = FALSE => content'[v] = now
  BY <1>2, <1>3, <1>9
<1>11. up'[c] = x
  <2>1. up = [d \in Conn |-> up[d]]
    BY Parts
  <2> QED BY <1>3, <2>1
<1>12. up[c].phase \notin Stored
  BY <1>4 DEF Stored
<1> SUFFICES ASSUME Undisturbed'
             PROVE  /\ \A w \in Version : projects'[w] # None => w \in acked'
                    /\ \A w \in acked' : Complete(w, content', projects', methods')
                    /\ Parsed(x) => /\ Steady(x, content', acked') /\ Hashed(x, projects')
                                    /\ Spread(x, worker'[c], content', projects', methods')
  BY <1>11, Zenon DEF CompleteInv, OneUploader
<1>13. Undisturbed
  BY <1>4, Zenon DEF Undisturbed
<1>14. /\ \A w \in Version : projects[w] # None => w \in acked
       /\ \A w \in acked : Complete(w, content, projects, methods)
  BY <1>12, <1>13, CompleteParts, Zenon
<1>15. ASSUME NEW w \in acked PROVE Complete(w, content', projects', methods')
  <2>1. content'[w] = content[w]
    BY <1>7, <1>10, <1>15, Zenon
  <2> QED BY <1>4, <1>14, <2>1, Zenon DEF Complete
<1>16. ASSUME Parsed(x) PROVE Steady(x, content', acked')
  <2>1. bad = FALSE
    BY <1>2, <1>16, Zenon DEF Parsed
  <2>2. content'[x.version] = now
    BY <1>2, <1>10, <2>1, Zenon
  <2>3. p # 0 => p \in acked
    BY <1>2, <1>14, BuildsOnStored, Zenon
  <2> QED BY <1>2, <1>7, <1>8, <2>2, <2>3, Zenon DEF Steady, Posted
<1>17. Hashed(x, projects')
  <2>1. ~(x.phase = "parse" /\ x.prev # 0)
    BY <1>2, Zenon
  <2> QED BY <1>2, <2>1, HashedEarly
<1>18. Spread(x, worker'[c], content', projects', methods')
  <2>1. x.phase \notin {"methods", "files", "unchanged"}
    BY <1>2
  <2> QED BY <2>1, SpreadEarly
<1> QED BY <1>4, <1>8, <1>14, <1>15, <1>16, <1>17, <1>18, Zenon

LEMMA SteadyStays ==
  ASSUME NEW u, NEW x, Kept(x, u), NEW ct, NEW ak, Steady(u, ct, ak)
  PROVE  Steady(x, ct, ak)
BY Zenon DEF Steady, Kept

\* What is known of an upload that goes on undisturbed.
LEMMA UploadAt ==
  ASSUME OneUploader, UploadInv, CompleteInv, Undisturbed, NEW c \in Conn, Parsed(up[c])
  PROVE  LET u == up[c]
         IN  /\ Steady(u, content, acked) /\ Hashed(u, projects)
             /\ Spread(u, worker[c], content, projects, methods)
             /\ Truthful(u, content, projects) /\ u \in Upload(Entry(u)) /\ u.bad = FALSE /\ u.phase # "idle"
             /\ u.version \in Version /\ u.prev \in 0..MaxVersion /\ u.prev < u.version
             /\ content[u.version] \in SUBSET Method /\ u.version \notin acked
             /\ u.prev # 0 => u.prev \in Version /\ u.prev \in acked
                              /\ Complete(u.prev, content, projects, methods)
<1> DEFINE u == up[c]
<1>1. u.phase # "idle" /\ u.bad = FALSE
  BY Zenon DEF Parsed
<1>2. Request(u, content, projects)
  BY <1>1, Parts, Zenon
<1>3. TRUE # FALSE
  OBVIOUS
<1>4. Truthful(u, content, projects) /\ u \in Upload(Entry(u)) /\ u.prev < u.version
  BY <1>1, <1>2, <1>3, Zenon DEF Request
<1>5. u.version \in Version /\ u.prev \in 0..MaxVersion
  BY <1>4 DEF Upload
<1>6. content[u.version] \in SUBSET Method
  <2>1. content[u.version] # None /\ content \in [Version -> (SUBSET Method) \cup {None}]
    BY <1>4, Parts, Zenon DEF Truthful
  <2> QED BY <1>5, <2>1, Holds
<1>7. /\ Steady(u, content, acked) /\ Hashed(u, projects)
      /\ Spread(u, worker[c], content, projects, methods)
      /\ \A v \in acked : Complete(v, content, projects, methods)
  BY CompleteParts, Zenon
<1>8. u.version \notin acked /\ (u.prev # 0 => u.prev \in acked)
  BY <1>7, Zenon DEF Steady
<1>9. u.prev # 0 => u.prev \in Version
  BY <1>5 DEF Version
<1> QED BY <1>1, <1>4, <1>5, <1>6, <1>7, <1>8, <1>9, Zenon

\* The handler of c goes on; what it knows after its step it has to show.
LEMMA CompleteFrom ==
  ASSUME OneUploader, UploadInv, CompleteInv, NEW c \in Conn, Handle(c), Undisturbed,
         methods' = methods, content' = content,
         \/ /\ acked' = acked
            /\ up'[c].phase \in Stored /\ up'[c].version = up[c].version
            /\ Parsed(up'[c]) => /\ Steady(up'[c], content, acked) /\ Hashed(up'[c], projects')
                                 /\ Spread(up'[c], worker'[c], content, projects', methods)
         \/ /\ acked' = acked /\ projects' = projects /\ up[c].phase \notin Stored
            /\ Parsed(up'[c]) => /\ Steady(up'[c], content, acked) /\ Hashed(up'[c], projects')
                                 /\ Spread(up'[c], worker'[c], content, projects', methods)
         \/ /\ acked' = acked \cup {up[c].version} /\ up'[c] = Idle
            /\ Complete(up[c].version, content, projects', methods)
  PROVE  CompleteInv'
<1> DEFINE u == up[c]
           x == up'[c]
           Fine == Parsed(x) => /\ Steady(x, content, acked) /\ Hashed(x, projects')
                                /\ Spread(x, worker'[c], content, projects', methods)
<1>1. Moved(c)
  BY HandleMoves
<1>2. /\ \A w \in Version : w # u.version => projects'[w] = projects[w]
      /\ u.bad = FALSE \/ projects' = projects
      /\ u.phase # "idle"
  BY <1>1, Zenon DEF Moved
<1>3. /\ \A v \in Version : projects[v] # None => v \in acked \/ (u.phase \in Stored /\ u.version = v)
      /\ \A v \in acked : Complete(v, content, projects, methods)
  BY CompleteParts, Zenon
<1>4. acked \subseteq Version
  BY Parts
<1>5. u.bad = FALSE => u.version \notin acked
  <2>1. u.bad = FALSE => Steady(u, content, acked)
    BY <1>2, CompleteParts, Zenon DEF Parsed
  <2> QED BY <2>1, Zenon DEF Steady
<1>6. ASSUME NEW w \in acked PROVE Complete(w, content, projects', methods)
  <2>1. projects'[w] = projects[w]
    BY <1>2, <1>4, <1>5, <1>6, Zenon
  <2> QED BY <1>3, <2>1, Zenon DEF Complete
<1>7. ASSUME NEW w \in Version, projects'[w] # None PROVE w \in acked \/ w = u.version
  BY <1>2, <1>3, <1>7, Zenon
<1>8. x = Idle => ~Parsed(x)
  BY NotParsed
<1> SUFFICES /\ \A w \in Version : projects'[w] # None => w \in acked' \/ (x.phase \in Stored /\ x.version = w)
             /\ \A w \in acked' : Complete(w, content, projects', methods)
             /\ Parsed(x) => /\ Steady(x, content, acked') /\ Hashed(x, projects')
                             /\ Spread(x, worker'[c], content, projects', methods)
  BY Zenon DEF CompleteInv, OneUploader
<1>9. CASE acked' = acked /\ x.phase \in Stored /\ x.version = u.version /\ Fine
  <2> HIDE DEF x, u
  <2> QED BY <1>6, <1>7, <1>9, Zenon
<1>10. CASE acked' = acked /\ projects' = projects /\ u.phase \notin Stored /\ Fine
  <2> HIDE DEF x, u
  <2> QED BY <1>3, <1>6, <1>10, Zenon
<1>11. CASE acked' = acked \cup {u.version} /\ x = Idle /\ Complete(u.version, content, projects', methods)
  <2>1. \A w : w \in acked' <=> w \in acked \/ w = u.version
    BY <1>11
  <2> QED BY <1>6, <1>7, <1>8, <1>11, <2>1, Zenon
<1> QED BY <1>9, <1>10, <1>11, Zenon

\* A chunk has the hashes from its first one on, the last chunk all of them.
LEMMA ChunkHas ==
  ASSUME NEW c, NEW H, up[c].hashes \in Seq(H), NEW i \in Nat
  PROVE  \A j \in 1..Len(up[c].hashes) :
           i < j /\ (j <= i + HASHES_INSERT_MAX \/ ~MoreHashes(c, i)) => up[c].hashes[j] \in HashChunk(c, i)
<1> DEFINE hs == up[c].hashes
           N == Len(hs)
<1> SUFFICES ASSUME NEW j \in 1..N, i < j, j <= i + HASHES_INSERT_MAX \/ ~MoreHashes(c, i)
             PROVE  hs[j] \in HashChunk(c, i)
  OBVIOUS
<1>1. N \in Nat /\ HASHES_INSERT_MAX \in Nat /\ j \in Nat
  BY UploadBounds
<1>2. j <= i + HASHES_INSERT_MAX
  BY <1>1 DEF MoreHashes
<1>3. j \in (i + 1)..LeastOf(i + HASHES_INSERT_MAX, N)
  BY <1>1, <1>2 DEF LeastOf
<1> QED BY <1>3, Zenon DEF HashChunk

\* The project row after addHashToProject.
LEMMA RowHas ==
  ASSUME UploadInv, NEW v \in Version, projects[v] # None, NEW hs, projects' = WithHashes(v, hs)
  PROVE  projects'[v] = projects[v] \cup hs /\ \A w \in Version : w # v => projects'[w] = projects[w]
<1>1. projects \in [Version -> (SUBSET Hash) \cup {None}]
  BY Parts, Zenon DEF Tables
<1>2. projects' = [projects EXCEPT ![v] = projects[v] \cup hs]
  BY <1>1 DEF WithHashes
<1> QED BY <1>1, <1>2

LEMMA CompleteReadOn ==
  ASSUME OneUploader, UploadInv, CompleteInv, NEW c \in Conn, Undisturbed, Parsed(up[c]), ReadOn(c)
  PROVE  Hashed(up'[c], projects') /\ Spread(up'[c], worker'[c], content, projects', methods)
<1> DEFINE u == up[c]
           x == up'[c]
<1>1. Hashed(u, projects) /\ Truthful(u, content, projects)
  BY UploadAt, Zenon
<1>2. projects' = projects
  BY Zenon DEF ReadOn
<1>3. CASE u.phase = "check" /\ Goes(x, u, FirstPhase(u.prev), u.hashes, u.prevHashes, u.queue, u.index)
  <2>1. x.phase = FirstPhase(u.prev) /\ x.prev = u.prev
    BY <1>3, Zenon DEF Goes, Kept
  <2> HIDE DEF x, u
  <2>2. x.phase \in {"check", "search", "parse"} /\ ~(x.phase = "parse" /\ x.prev # 0)
        /\ x.phase \notin {"methods", "files", "unchanged"}
    BY <2>1 DEF FirstPhase
  <2> QED BY <2>2, HashedEarly, SpreadEarly DEF x
<1>4. CASE u.phase = "search" /\ Goes(x, u, "parse", u.hashes, projects[u.prev], u.queue, u.index)
  <2>1. x.phase = "parse" /\ x.prev = u.prev /\ x.prevHashes = projects[u.prev]
    BY <1>4, Zenon DEF Goes, Kept
  <2>2. /\ x.phase \notin {"insert", "extend"} /\ x.phase # "extend"
        /\ x.phase \notin {"start", "methods", "files", "unchanged"}
        /\ x.phase \notin {"methods", "files", "unchanged"}
    BY <2>1
  <2>3. Hashed(x, projects')
    BY <1>2, <2>1, <2>2, Zenon DEF Hashed
  <2> QED BY <2>2, <2>3, SpreadEarly
<1>5. CASE /\ u.phase = "parse"
           /\ Goes(x, u, "insert", [i \in DOMAIN u.sent |-> u.sent[i].hash], u.prevHashes, u.queue, u.index)
  <2>1. /\ x.phase = "insert" /\ x.prev = u.prev /\ x.prevHashes = u.prevHashes /\ x.sent = u.sent
        /\ x.hashes = [i \in DOMAIN u.sent |-> u.sent[i].hash]
    BY <1>5, Zenon DEF Goes, Kept
  <2>2. /\ x.phase # "extend"
        /\ x.phase \notin {"start", "methods", "files", "unchanged"}
        /\ x.phase \notin {"methods", "files", "unchanged"} /\ u.phase \notin {"check", "search"}
    BY <1>5, <2>1
  <2>3. Hashed(x, projects')
    BY <1>1, <1>2, <2>1, <2>2, Zenon DEF Hashed
  <2> QED BY <2>2, <2>3, SpreadEarly
<1> QED BY <1>3, <1>4, <1>5, Zenon DEF ReadOn

\* The hashes of the project are those of the methods sent, in their order.
LEMMA SentHashes ==
  ASSUME NEW u, NEW M, u.sent \in Seq(M), u.hashes = [i \in DOMAIN u.sent |-> u.sent[i].hash]
  PROVE  Len(u.hashes) = Len(u.sent) /\ \A i \in 1..Len(u.sent) : u.hashes[i] = u.sent[i].hash
<1>1. DOMAIN u.sent = 1..Len(u.sent) /\ Len(u.sent) \in Nat
  OBVIOUS
<1> QED BY <1>1

LEMMA CompleteStores ==
  ASSUME OneUploader, UploadInv, CompleteInv, NEW c \in Conn, Undisturbed, Parsed(up[c]), Stores(c)
  PROVE  Hashed(up'[c], projects') /\ Spread(up'[c], worker'[c], content, projects', methods)
<1> DEFINE u == up[c]
           x == up'[c]
           v == u.version
           N == Len(u.hashes)
           C == content[v]
           H == HashesOf(C)
<1>1. /\ Hashed(u, projects) /\ Truthful(u, content, projects) /\ u.version \in Version
      /\ u.prev # 0 => u.prev \in Version
      /\ u.prev < u.version /\ u.prev \in 0..MaxVersion
  BY UploadAt, Zenon
<1>2. u.prev # v /\ HASHES_INSERT_MAX \in Nat /\ u.phase = "insert"
  <2>1. u.prev \in Nat /\ v \in Nat
    BY <1>1, UploadBounds DEF Version
  <2> QED BY <1>1, <2>1, UploadBounds DEF Stores
<1>3. projects' = [projects EXCEPT ![v] = HashChunk(c, 0)]
  BY Zenon DEF Stores
<1>4. projects'[v] = HashChunk(c, 0) /\ (u.prev # 0 => projects'[u.prev] = projects[u.prev])
  <2>1. projects \in [Version -> (SUBSET Hash) \cup {None}]
    BY Parts, Zenon DEF Tables
  <2> QED BY <1>1, <1>2, <1>3, <2>1
<1>5. u.hashes \in Seq(H) /\ u.sent \in Seq(C)
  BY <1>1, Zenon DEF Truthful
<1>6. u.phase \notin {"check", "search"} /\ u.phase \in {"insert", "extend"}
  BY <1>2
<1>7. /\ u.hashes = [i \in DOMAIN u.sent |-> u.sent[i].hash]
      /\ u.prev # 0 => u.prevHashes = projects[u.prev]
  BY <1>1, <1>6, Zenon DEF Hashed
<1> HIDE DEF C, H
<1>8. N = Len(u.sent) /\ \A i \in 1..N : u.hashes[i] = u.sent[i].hash
  <2> HIDE DEF u
  <2> QED BY <1>5, <1>7, SentHashes
<1>9. N \in Nat
  BY <1>5
<1>10. \A j \in 1..N : j <= HASHES_INSERT_MAX \/ ~MoreHashes(c, 0) => u.hashes[j] \in HashChunk(c, 0)
  <2>1. \A j \in 1..N : 0 < j /\ (j <= 0 + HASHES_INSERT_MAX \/ ~MoreHashes(c, 0)) => u.hashes[j] \in HashChunk(c, 0)
    BY <1>5, ChunkHas
  <2> SUFFICES ASSUME NEW j \in 1..N, j <= HASHES_INSERT_MAX \/ ~MoreHashes(c, 0)
               PROVE  u.hashes[j] \in HashChunk(c, 0)
    OBVIOUS
  <2>2. 0 < j /\ j <= HASHES_INSERT_MAX => j <= 0 + HASHES_INSERT_MAX
    BY <1>2, <1>9
  <2>3. 0 < j
    BY <1>9
  <2> QED BY <2>1, <2>2, <2>3, Zenon
<1>11. ASSUME NEW ph \in {"extend", "start"}, NEW n, Goes(x, u, ph, u.hashes, u.prevHashes, u.queue, n),
              ph = "extend" => n = HASHES_INSERT_MAX, ph = "start" => ~MoreHashes(c, 0)
       PROVE  Hashed(x, projects') /\ Spread(x, worker'[c], content, projects', methods)
  <2>1. /\ x.phase = ph /\ x.prev = u.prev /\ x.prevHashes = u.prevHashes /\ x.sent = u.sent
        /\ x.hashes = u.hashes /\ x.index = n /\ x.version = v
    BY <1>11, Zenon DEF Goes, Kept
  <2>2. x.phase \notin {"methods", "files", "unchanged"} /\ x.phase \in {"extend", "start"}
    BY <1>11, <2>1
  <2>3. x.phase = "extend" => \A i \in 1..Len(x.hashes) : i <= x.index => x.hashes[i] \in projects'[x.version]
    BY <1>4, <1>10, <1>11, <2>1, Zenon
  <2>4. x.phase \in {"start", "methods", "files", "unchanged"} => x.phase = "start"
    BY <2>2
  <2>5. x.phase \in {"start", "methods", "files", "unchanged"} =>
          \A i \in 1..Len(x.sent) : x.sent[i].hash \in projects'[x.version]
    <3>1. ph = "start" => \A i \in 1..Len(u.sent) : u.sent[i].hash \in projects'[v]
      BY <1>4, <1>8, <1>10, <1>11
    <3> HIDE DEF x, u, v
    <3> QED BY <2>1, <2>4, <3>1, Zenon
  <2>6. Hashed(x, projects')
    BY <1>4, <1>7, <2>1, <2>3, <2>5, Zenon DEF Hashed
  <2> QED BY <2>2, <2>6, SpreadEarly
<1>12. /\ "extend" \in {"extend", "start"} /\ "start" \in {"extend", "start"} /\ "start" # "extend"
  OBVIOUS
<1> QED BY <1>11, <1>12, Zenon DEF Stores

\* What a call of addHashToProject leaves in the project row.
LEMMA AddsTo ==
  ASSUME OneUploader, UploadInv, CompleteInv, NEW c \in Conn, Undisturbed, Parsed(up[c]), Adds(c)
  PROVE  LET u == up[c]
             v == u.version
             G == HashChunk(c, u.index)
         IN  /\ projects'[v] = projects[v] \cup G /\ (u.prev # 0 => projects'[u.prev] = projects[u.prev])
             /\ G \subseteq HashesOf(content[v]) /\ projects[v] \subseteq HashesOf(content[v])
             /\ u.index \in Nat /\ Len(u.hashes) \in Nat
             /\ \A j \in 1..Len(u.hashes) :
                  u.index < j /\ (j <= u.index + HASHES_INSERT_MAX \/ ~MoreHashes(c, u.index)) => u.hashes[j] \in G
<1> DEFINE u == up[c]
           v == u.version
           C == content[v]
           H == HashesOf(C)
           G == HashChunk(c, u.index)
<1>1. /\ Truthful(u, content, projects) /\ u.version \in Version /\ u \in Upload(Entry(u))
      /\ u.prev # 0 => u.prev \in Version
      /\ u.prev < u.version /\ u.prev \in 0..MaxVersion
  BY UploadAt, Zenon
<1>2. u.prev # v /\ u.phase \in {"extend", "unchanged"}
  <2>1. u.prev \in Nat /\ v \in Nat
    BY <1>1, UploadBounds DEF Version
  <2> QED BY <1>1, <2>1, UploadBounds DEF Adds
<1>3. u.phase \in Stored /\ u.phase \in {"insert", "extend", "start", "methods", "files", "unchanged"}
  BY <1>2 DEF Stored
<1>4. projects[v] # None /\ u.hashes \in Seq(H)
  BY <1>1, <1>3, Zenon DEF Truthful
<1>5. u.index \in Nat
  BY <1>1 DEF Upload
<1>6. projects' = WithHashes(v, G)
  BY Zenon DEF Adds
<1> HIDE DEF G
<1>7. projects'[v] = projects[v] \cup G /\ \A w \in Version : w # v => projects'[w] = projects[w]
  BY <1>1, <1>4, <1>6, RowHas
<1>8. G \subseteq H
  BY <1>3, <1>5, HashChunkType, Zenon DEF G
<1>9. projects[v] \subseteq H
  BY <1>1, <1>4, Parts, Zenon DEF HashesHonest
<1> HIDE DEF H, C
<1>10. \A j \in 1..Len(u.hashes) :
         u.index < j /\ (j <= u.index + HASHES_INSERT_MAX \/ ~MoreHashes(c, u.index)) => u.hashes[j] \in G
  BY <1>4, <1>5, ChunkHas DEF G
<1>11. Len(u.hashes) \in Nat
  BY <1>4
<1> QED BY <1>1, <1>2, <1>5, <1>7, <1>8, <1>9, <1>10, <1>11, Zenon DEF G, H, C

\* Its first hashes are in the row, up to index n.
LEMMA AddsUpTo ==
  ASSUME OneUploader, UploadInv, CompleteInv, NEW c \in Conn, Undisturbed, Parsed(up[c]), Adds(c),
         up[c].phase = "extend"
  PROVE  \A j \in 1..Len(up[c].hashes) :
           j <= up[c].index + HASHES_INSERT_MAX \/ ~MoreHashes(c, up[c].index) =>
             up[c].hashes[j] \in projects'[up[c].version]
<1> DEFINE u == up[c]
           v == u.version
           G == HashChunk(c, u.index)
<1>1. /\ projects'[v] = projects[v] \cup G /\ u.index \in Nat /\ Len(u.hashes) \in Nat
      /\ \A j \in 1..Len(u.hashes) :
           u.index < j /\ (j <= u.index + HASHES_INSERT_MAX \/ ~MoreHashes(c, u.index)) => u.hashes[j] \in G
  BY AddsTo, Zenon
<1>2. Hashed(u, projects)
  BY UploadAt, Zenon
<1>3. \A j \in 1..Len(u.hashes) : j <= u.index => u.hashes[j] \in projects[v]
  BY <1>2, Zenon DEF Hashed
<1> HIDE DEF G
<1>4. ASSUME NEW j \in 1..Len(u.hashes), j <= u.index + HASHES_INSERT_MAX \/ ~MoreHashes(c, u.index)
      PROVE  u.hashes[j] \in projects'[v]
  <2>1. CASE j <= u.index
    BY <1>1, <1>3, <2>1
  <2>2. CASE ~(j <= u.index)
    <3>1. u.index < j
      BY <1>1, <2>2
    <3>2. u.hashes[j] \in G
      BY <1>1, <1>4, <3>1, Zenon
    <3> QED BY <1>1, <3>2
  <2> QED BY <2>1, <2>2
<1> QED BY <1>4

LEMMA CompleteExtends ==
  ASSUME OneUploader, UploadInv, CompleteInv, NEW c \in Conn, Undisturbed, Parsed(up[c]), Adds(c),
         up[c].phase = "extend"
  PROVE  Hashed(up'[c], projects') /\ Spread(up'[c], worker'[c], content, projects', methods)
<1> DEFINE u == up[c]
           x == up'[c]
           v == u.version
           N == Len(u.hashes)
           C == content[v]
<1>1. Hashed(u, projects) /\ Truthful(u, content, projects)
  BY UploadAt, Zenon
<1>2. u.prev # 0 => projects'[u.prev] = projects[u.prev]
  BY AddsTo, Zenon
<1>3. u.phase \notin {"check", "search"} /\ u.phase \in {"insert", "extend"} /\ u.phase # "unchanged"
  OBVIOUS
<1>4. /\ u.hashes = [i \in DOMAIN u.sent |-> u.sent[i].hash]
      /\ u.prev # 0 => u.prevHashes = projects[u.prev]
  BY <1>1, <1>3, Zenon DEF Hashed
<1>5. u.sent \in Seq(C)
  BY <1>1, Zenon DEF Truthful
<1> HIDE DEF C
<1>6. N = Len(u.sent) /\ \A i \in 1..N : u.hashes[i] = u.sent[i].hash
  <2> HIDE DEF u
  <2> QED BY <1>4, <1>5, SentHashes
<1>7. \A j \in 1..N : j <= u.index + HASHES_INSERT_MAX \/ ~MoreHashes(c, u.index) => u.hashes[j] \in projects'[v]
  BY AddsUpTo
<1>8. CASE Goes(x, u, u.phase, u.hashes, u.prevHashes, u.queue, u.index + HASHES_INSERT_MAX)
  <2>1. /\ x.phase = "extend" /\ x.prev = u.prev /\ x.prevHashes = u.prevHashes /\ x.sent = u.sent
        /\ x.hashes = u.hashes /\ x.index = u.index + HASHES_INSERT_MAX /\ x.version = v
    BY <1>8, Zenon DEF Goes, Kept
  <2>2. x.phase \notin {"methods", "files", "unchanged"} /\ x.phase \notin {"start", "methods", "files", "unchanged"}
    BY <2>1
  <2>3. \A i \in 1..Len(x.hashes) : i <= x.index => x.hashes[i] \in projects'[x.version]
    BY <1>7, <2>1, Zenon
  <2>4. Hashed(x, projects')
    BY <1>2, <1>4, <2>1, <2>2, <2>3, Zenon DEF Hashed
  <2> QED BY <2>2, <2>4, SpreadEarly
<1>9. CASE ~MoreHashes(c, u.index) /\ Goes(x, u, "start", u.hashes, u.prevHashes, u.queue, u.index)
  <2>1. /\ x.phase = "start" /\ x.prev = u.prev /\ x.prevHashes = u.prevHashes /\ x.sent = u.sent
        /\ x.hashes = u.hashes /\ x.version = v
    BY <1>9, Zenon DEF Goes, Kept
  <2>2. x.phase \notin {"methods", "files", "unchanged"} /\ x.phase \notin {"insert", "extend"} /\ x.phase # "extend"
    BY <2>1
  <2>3. \A i \in 1..Len(x.sent) : x.sent[i].hash \in projects'[x.version]
    <3>1. \A i \in 1..Len(u.sent) : u.sent[i].hash \in projects'[v]
      BY <1>6, <1>7, <1>9
    <3> QED BY <2>1, <3>1, Zenon
  <2>4. Hashed(x, projects')
    BY <1>2, <1>4, <2>1, <2>2, <2>3, Zenon DEF Hashed
  <2> QED BY <2>2, <2>4, SpreadEarly
<1> QED BY <1>3, <1>8, <1>9, Zenon DEF Adds

LEMMA CompleteUnchanged ==
  ASSUME OneUploader, UploadInv, CompleteInv, NEW c \in Conn, Undisturbed, Parsed(up[c]), Adds(c),
         up[c].phase = "unchanged"
  PROVE  \/ /\ acked' = acked /\ up'[c].phase \in Stored /\ up'[c].version = up[c].version
            /\ Hashed(up'[c], projects') /\ Spread(up'[c], worker'[c], content, projects', methods)
         \/ /\ acked' = acked \cup {up[c].version} /\ up'[c] = Idle
            /\ Complete(up[c].version, content, projects', methods)
<1> DEFINE u == up[c]
           x == up'[c]
           v == u.version
           G == HashChunk(c, u.index)
<1>1. /\ Hashed(u, projects) /\ Spread(u, worker[c], content, projects, methods)
      /\ Steady(u, content, acked)
  BY UploadAt, Zenon
<1>2. /\ projects'[v] = projects[v] \cup G /\ (u.prev # 0 => projects'[u.prev] = projects[u.prev])
      /\ G \subseteq HashesOf(content[v]) /\ projects[v] \subseteq HashesOf(content[v])
      /\ u.index \in Nat /\ Len(u.hashes) \in Nat
      /\ \A j \in 1..Len(u.hashes) :
           u.index < j /\ (j <= u.index + HASHES_INSERT_MAX \/ ~MoreHashes(c, u.index)) => u.hashes[j] \in G
  BY AddsTo, Zenon
<1>3. /\ u.phase \notin {"check", "search"} /\ u.phase \in {"start", "methods", "files", "unchanged"}
      /\ u.phase \in {"files", "unchanged"} /\ u.phase # "extend"
  OBVIOUS
<1>4. /\ u.prev # 0 => u.prevHashes = projects[u.prev]
      /\ \A i \in 1..Len(u.sent) : u.sent[i].hash \in projects[v]
  BY <1>1, <1>3, Zenon DEF Hashed
<1>5. /\ \A i \in 1..Len(u.sent) : Spanned(v, u.sent[i], methods)
      /\ \A m \in content[v] : m.file \in u.files =>
           Spanned(v, m, methods) /\ (m.hash \in projects[v] \/ Waits(u, m.hash))
  BY <1>1, <1>3, Zenon DEF Spread
<1> HIDE DEF G
<1>6. \A h : h \in projects[v] \/ h \in G => h \in projects'[v]
  BY <1>2
<1>7. \A i \in 1..Len(u.sent) : u.sent[i].hash \in projects'[v]
  BY <1>4, <1>6, Zenon
<1>8. CASE /\ acked' = acked
           /\ Goes(x, u, u.phase, u.hashes, u.prevHashes, u.queue, u.index + HASHES_INSERT_MAX)
  <2>1. /\ x.phase = "unchanged" /\ x.prev = u.prev /\ x.prevHashes = u.prevHashes /\ x.sent = u.sent
        /\ x.hashes = u.hashes /\ x.index = u.index + HASHES_INSERT_MAX /\ x.version = v /\ x.files = u.files
    BY <1>8, Zenon DEF Goes, Kept
  <2>2. /\ x.phase \notin {"insert", "extend"} /\ x.phase # "extend" /\ x.phase # "methods"
        /\ x.phase # "files"
    BY <2>1
  <2>3. ASSUME NEW h, Waits(u, h) PROVE h \in projects'[v] \/ Waits(x, h)
    <3>1. PICK j \in 1..Len(u.hashes) : u.index < j /\ u.hashes[j] = h
      BY <2>3, Zenon DEF Waits
    <3>2. CASE j <= u.index + HASHES_INSERT_MAX
      BY <1>2, <1>6, <3>1, <3>2, Zenon
    <3>3. CASE ~(j <= u.index + HASHES_INSERT_MAX)
      <4>1. u.index + HASHES_INSERT_MAX < j
        BY <1>2, <3>3, UploadBounds
      <4> QED BY <2>1, <3>1, <4>1, Zenon DEF Waits
    <3> QED BY <3>2, <3>3
  <2>4. \A m \in content[v] : m.file \in u.files =>
           Spanned(v, m, methods) /\ (m.hash \in projects'[v] \/ Waits(x, m.hash))
    BY <1>5, <1>6, <2>3, Zenon
  <2>5. Hashed(x, projects')
    BY <1>2, <1>4, <1>7, <2>1, <2>2, Zenon DEF Hashed
  <2>6. Spread(x, worker'[c], content, projects', methods)
    <3> HIDE DEF x
    <3> QED BY <1>5, <2>1, <2>2, <2>4, Zenon DEF Spread
  <2>7. x.phase \in Stored
    BY <2>1 DEF Stored
  <2> QED BY <1>8, <2>1, <2>5, <2>6, <2>7, Zenon
<1>9. CASE ~MoreHashes(c, u.index) /\ acked' = acked \cup {v} /\ x = Idle
  <2>1. ASSUME NEW h, Waits(u, h) PROVE h \in projects'[v]
    <3>1. PICK j \in 1..Len(u.hashes) : u.index < j /\ u.hashes[j] = h
      BY <2>1, Zenon DEF Waits
    <3> QED BY <1>2, <1>6, <1>9, <3>1, Zenon
  <2>2. \A m \in content[v] : m.hash \in projects'[v]
    BY <1>1, <1>5, <1>6, <1>7, <2>1, Zenon DEF Steady
  <2>3. projects'[v] = HashesOf(content[v])
    <3>1. HashesOf(content[v]) \subseteq projects'[v]
      BY <2>2 DEF HashesOf
    <3> QED BY <1>2, <3>1
  <2>4. \A m \in content[v] : Spanned(v, m, methods)
    BY <1>1, <1>5, Zenon DEF Steady
  <2> QED BY <1>9, <2>3, <2>4, Zenon DEF Complete
<1> QED BY <1>3, <1>8, <1>9, Zenon DEF Adds

LEMMA CompleteStarts ==
  ASSUME OneUploader, UploadInv, CompleteInv, NEW c \in Conn, Undisturbed, Parsed(up[c]), Starts(c)
  PROVE  Hashed(up'[c], projects') /\ Spread(up'[c], worker'[c], content, projects', methods)
<1> DEFINE u == up[c]
           x == up'[c]
           v == u.version
<1>1. Hashed(u, projects)
  BY UploadAt, Zenon
<1>2. /\ u.phase = "start" /\ projects' = projects
      /\ Goes(x, u, "methods", u.hashes, u.prevHashes, u.sent, u.index)
  BY Zenon DEF Starts
<1>3. u.phase \notin {"check", "search"} /\ u.phase \in {"start", "methods", "files", "unchanged"}
  BY <1>2
<1>4. /\ x.phase = "methods" /\ x.prev = u.prev /\ x.prevHashes = u.prevHashes /\ x.sent = u.sent
      /\ x.queue = u.sent /\ x.version = v
  BY <1>2, Zenon DEF Goes, Kept
<1>5. /\ x.phase \notin {"insert", "extend"} /\ x.phase # "extend" /\ x.phase # "files"
      /\ x.phase # "unchanged" /\ x.phase \notin {"files", "unchanged"}
  BY <1>4
<1>6. Hashed(x, projects')
  BY <1>1, <1>2, <1>3, <1>4, <1>5, Zenon DEF Hashed
<1>7. \A i \in 1..Len(x.sent) : Pending(x, worker'[c], x.sent[i])
  BY <1>4, <1>5, Zenon DEF Pending, Covers
<1> HIDE DEF x
<1>8. Spread(x, worker'[c], content, projects', methods)
  BY <1>5, <1>7, Zenon DEF Spread
<1> QED BY <1>6, <1>8 DEF x

\* When all workers have ended no method waits, and every hash found is returned.
LEMMA AllDone ==
  ASSUME NEW c \in Conn, AllEnded(c), \A w \in Worker : Calm(up[c], worker[c][w], methods)
  PROVE  /\ \A m : ~Pending(up[c], worker[c], m)
         /\ \A h : Collected(worker[c], h) => \E w \in Worker : h \in Range(worker[c][w].got)
<1> DEFINE u == up[c]
           ts == worker[c]
<1>1. 1 \in Worker
  BY UploadBounds DEF Worker
<1>2. \A w \in Worker : ts[w].pc = "ended"
  BY Zenon DEF AllEnded
<1>3. \A w \in Worker : ts[w].pc # "select" /\ ts[w].pc # "write"
  BY <1>2
<1>4. u.queue = <<>>
  BY <1>1, <1>2, Zenon DEF Calm
<1>5. 1..Len(u.queue) = {}
  BY <1>4
<1>6. \A w \in Worker : ts[w].found = <<>>
  BY <1>3, Zenon DEF Calm
<1>7. \A h : h \notin Range(<<>>)
  BY DEF Range
<1>8. \A m : ~Pending(u, ts, m)
  <2> SUFFICES ASSUME NEW m, Pending(u, ts, m) PROVE FALSE
    OBVIOUS
  <2> QED BY <1>3, <1>5, Zenon DEF Pending, Holding
<1>9. ASSUME NEW h, Collected(ts, h) PROVE \E w \in Worker : h \in Range(ts[w].got)
  <2>1. PICK w \in Worker : h \in Range(ts[w].got) \/ h \in Range(ts[w].found)
    BY <1>9, Zenon DEF Collected
  <2>2. h \notin Range(ts[w].found)
    BY <1>6, <1>7, Zenon
  <2> QED BY <2>1, <2>2, Zenon
<1> QED BY <1>8, <1>9, Zenon

LEMMA CompleteJoinsNew ==
  ASSUME OneUploader, UploadInv, CalmInv, CompleteInv, NEW c \in Conn, Undisturbed, Parsed(up[c]),
         AllEnded(c), up[c].phase = "methods", up[c].prev = 0, projects' = projects
  PROVE  Complete(up[c].version, content, projects', methods)
<1> DEFINE u == up[c]
           v == u.version
<1>1. /\ Hashed(u, projects) /\ Spread(u, worker[c], content, projects, methods)
      /\ Steady(u, content, acked) /\ Truthful(u, content, projects) /\ v \in Version
  BY UploadAt, Zenon
<1>2. u.phase \in {"start", "methods", "files", "unchanged"} /\ u.phase \in Stored
  BY DEF Stored
<1>3. \A i \in 1..Len(u.sent) : u.sent[i].hash \in projects[v]
  BY <1>1, <1>2, Zenon DEF Hashed
<1>4. \A w \in Worker : Calm(u, worker[c][w], methods)
  BY Zenon DEF CalmInv, Undisturbed
<1>5. \A i \in 1..Len(u.sent) : Spanned(v, u.sent[i], methods)
  BY <1>1, <1>4, AllDone, Zenon DEF Spread
<1>6. \A f : f \notin u.files
  <2>1. u.prev \notin Version
    BY DEF Version
  <2>2. \A f \in u.files : u.prev \in Version
    BY <1>1, Zenon DEF Truthful
  <2> QED BY <2>1, <2>2
<1>7. \A m \in content[v] : m.hash \in projects[v] /\ Spanned(v, m, methods)
  BY <1>1, <1>3, <1>5, <1>6, Zenon DEF Steady
<1>8. projects[v] \subseteq HashesOf(content[v])
  BY <1>1, <1>2, Parts, Zenon DEF HashesHonest, Truthful
<1>9. HashesOf(content[v]) \subseteq projects[v]
  BY <1>7 DEF HashesOf
<1>10. projects[v] = HashesOf(content[v])
  BY <1>8, <1>9
<1> QED BY <1>7, <1>10, Zenon DEF Complete

LEMMA CompleteJoinsFiles ==
  ASSUME OneUploader, UploadInv, CalmInv, CompleteInv, NEW c \in Conn, Undisturbed, Parsed(up[c]),
         AllEnded(c), up[c].phase = "methods", up[c].prev # 0, projects' = projects,
         Goes(up'[c], up[c], "files", up[c].hashes, up[c].prevHashes,
              HashFileQueue(up[c].prevHashes, up[c].files), up[c].index)
  PROVE  Hashed(up'[c], projects') /\ Spread(up'[c], worker'[c], content, projects', methods)
<1> DEFINE u == up[c]
           x == up'[c]
           v == u.version
           q == HashFileQueue(u.prevHashes, u.files)
<1>1. /\ Hashed(u, projects) /\ Spread(u, worker[c], content, projects, methods)
      /\ Truthful(u, content, projects) /\ u \in Upload(Entry(u))
      /\ Complete(u.prev, content, projects, methods) /\ content[v] \in SUBSET Method
  BY UploadAt, Zenon
<1>2. u.phase \in {"start", "methods", "files", "unchanged"} /\ u.phase \notin {"check", "search"}
  OBVIOUS
<1>3. /\ \A i \in 1..Len(u.sent) : u.sent[i].hash \in projects[v]
      /\ u.prevHashes = projects[u.prev]
  BY <1>1, <1>2, Zenon DEF Hashed
<1>4. \A w \in Worker : Calm(u, worker[c][w], methods)
  BY Zenon DEF CalmInv, Undisturbed
<1>5. \A i \in 1..Len(u.sent) : Spanned(v, u.sent[i], methods)
  BY <1>1, <1>4, AllDone, Zenon DEF Spread
<1>6. /\ x.phase = "files" /\ x.prev = u.prev /\ x.prevHashes = u.prevHashes /\ x.sent = u.sent
      /\ x.version = v /\ x.files = u.files /\ x.queue = q
  BY Zenon DEF Goes, Kept
<1> HIDE DEF q
<1>7. /\ x.phase \notin {"insert", "extend"} /\ x.phase # "extend" /\ x.phase # "methods"
      /\ x.phase # "unchanged"
  BY <1>6
<1>8. Hashed(x, projects')
  BY <1>3, <1>6, <1>7, Zenon DEF Hashed
<1>9. ASSUME NEW m \in content[v], m.file \in u.files PROVE Pending(x, worker'[c], m)
  <2>1. At(content[v], m.file) = At(content[u.prev], m.file)
    BY <1>1, <1>9, Zenon DEF Truthful
  <2>2. m \in content[u.prev]
    BY <1>9, <2>1 DEF At
  <2>3. m.hash \in u.prevHashes
    <3>1. m.hash \in HashesOf(content[u.prev])
      BY <2>2 DEF HashesOf
    <3> QED BY <1>1, <1>3, <3>1, Zenon DEF Complete
  <2>4. u.prevHashes \in SUBSET Hash /\ u.files \in SUBSET File
    BY <1>1 DEF Upload
  <2>5. \E k \in 1..Len(q) : m.hash \in Range(q[k][1]) /\ m.file \in Range(q[k][2])
    BY <1>9, <2>3, <2>4, HashFileQueueCovers, Zenon DEF q
  <2> QED BY <1>6, <2>5, Zenon DEF Pending, Covers
<1> HIDE DEF x
<1>10. Spread(x, worker'[c], content, projects', methods)
  BY <1>5, <1>6, <1>7, <1>9, Zenon DEF Spread
<1> QED BY <1>8, <1>10 DEF x

\* Every hash a worker returns is in the list handleUpdateUnchangedFilesThreads adds.
LEMMA GotJoined ==
  ASSUME UploadInv, NEW c \in Conn, AllEnded(c), NEW w \in Worker, NEW h \in Range(worker[c][w].got)
  PROVE  LET l == FlattenSeq([k \in Worker |-> worker[c][k].got])
         IN  \E j \in 1..Len(l) : 0 < j /\ l[j] = h
<1> DEFINE H == HashesOf(content[up[c].version])
           B == Seq(H)
           g == [k \in Worker |-> worker[c][k].got]
           l == FlattenSeq(g)
<1>1. ASSUME NEW k \in Worker PROVE worker[c][k].got \in B
  <2>1. worker[c][k].pc # "idle"
    <3>1. worker[c][k].pc = "ended"
      BY Zenon DEF AllEnded
    <3> QED BY <3>1
  <2>2. worker[c][k] \in Thread(up[c].version, up[c].prev, content[up[c].version], Entry(up[c]))
    BY <2>1, WorkerAt
  <2> QED BY <2>2 DEF Thread
<1> HIDE DEF H, B
<1>2. g \in Seq(B) /\ Len(g) = MAX_THREADS /\ w \in 1..Len(g) /\ g[w] = worker[c][w].got
  BY <1>1, UploadBounds DEF Worker
<1> HIDE DEF g
<1>3. g \in Seq(Seq(H))
  BY <1>2 DEF B
<1>4. h \in Range(g[w])
  BY <1>2
<1>5. h \in Range(l)
  BY <1>2, <1>3, <1>4, FlattenHas
<1>6. l \in Seq(H)
  BY <1>3, FlattenType
<1> HIDE DEF l
<1>7. DOMAIN l = 1..Len(l)
  BY <1>6
<1>8. PICK j \in 1..Len(l) : l[j] = h
  BY <1>5, <1>7, Zenon DEF Range
<1>9. Len(l) \in Nat
  BY <1>6
<1>10. 0 < j
  BY <1>9
<1> QED BY <1>8, <1>10, Zenon DEF l, g

LEMMA CompleteJoinsUnchanged ==
  ASSUME OneUploader, UploadInv, CalmInv, CompleteInv, NEW c \in Conn, Undisturbed, Parsed(up[c]),
         AllEnded(c), up[c].phase = "files", projects' = projects,
         Goes(up'[c], up[c], "unchanged", FlattenSeq([w \in Worker |-> worker[c][w].got]),
              up[c].prevHashes, up[c].queue, 0)
  PROVE  Hashed(up'[c], projects') /\ Spread(up'[c], worker'[c], content, projects', methods)
<1> DEFINE u == up[c]
           x == up'[c]
           v == u.version
           l == FlattenSeq([w \in Worker |-> worker[c][w].got])
<1>1. Hashed(u, projects) /\ Spread(u, worker[c], content, projects, methods)
  BY UploadAt, Zenon
<1>2. /\ u.phase \in {"start", "methods", "files", "unchanged"} /\ u.phase \notin {"check", "search"}
      /\ u.phase \in {"files", "unchanged"}
  OBVIOUS
<1>3. /\ \A i \in 1..Len(u.sent) : u.sent[i].hash \in projects[v]
      /\ u.prev # 0 => u.prevHashes = projects[u.prev]
  BY <1>1, <1>2, Zenon DEF Hashed
<1>4. \A w \in Worker : Calm(u, worker[c][w], methods)
  BY Zenon DEF CalmInv, Undisturbed
<1>5. \A i \in 1..Len(u.sent) : Spanned(v, u.sent[i], methods)
  BY <1>1, <1>2, Zenon DEF Spread
<1>6. \A m \in content[v] : m.file \in u.files =>
        Spanned(v, m, methods) /\ \E w \in Worker : m.hash \in Range(worker[c][w].got)
  BY <1>1, <1>4, AllDone, Zenon DEF Spread
<1>7. /\ x.phase = "unchanged" /\ x.prev = u.prev /\ x.prevHashes = u.prevHashes /\ x.sent = u.sent
      /\ x.version = v /\ x.files = u.files /\ x.hashes = l /\ x.index = 0
  BY Zenon DEF Goes, Kept
<1>8. /\ x.phase \notin {"insert", "extend"} /\ x.phase # "extend" /\ x.phase # "methods"
      /\ x.phase # "files"
  BY <1>7
<1>9. Hashed(x, projects')
  BY <1>3, <1>7, <1>8, Zenon DEF Hashed
<1>10. ASSUME NEW w \in Worker, NEW h \in Range(worker[c][w].got) PROVE Waits(x, h)
  <2>1. \E j \in 1..Len(l) : 0 < j /\ l[j] = h
    BY <1>10, GotJoined
  <2> HIDE DEF l, x
  <2> QED BY <1>7, <2>1, Zenon DEF Waits
<1>11. \A m \in content[v] : m.file \in u.files => Spanned(v, m, methods) /\ Waits(x, m.hash)
  BY <1>6, <1>10, Zenon
<1> HIDE DEF x, l
<1>12. Spread(x, worker'[c], content, projects', methods)
  BY <1>5, <1>7, <1>8, <1>11, Zenon DEF Spread
<1> QED BY <1>9, <1>12 DEF x

LEMMA CompleteHandle ==
  ASSUME OneUploader, UploadInv, CalmInv, CompleteInv, NEW c \in Conn, Handle(c)
  PROVE  CompleteInv'
<1> DEFINE u == up[c]
           x == up'[c]
           Fine == /\ Steady(x, content, acked) /\ Hashed(x, projects')
                   /\ Spread(x, worker'[c], content, projects', methods)
<1> SUFFICES ASSUME Undisturbed' PROVE CompleteInv'
  BY Zenon DEF CompleteInv
<1>1. /\ faults = 0 /\ methods' = methods /\ content' = content /\ crashes' = crashes
      /\ Refused(c) \/ ReadOn(c) \/ Stores(c) \/ Adds(c) \/ Starts(c) \/ Joins(c)
  BY HandleGoes, Zenon DEF Undisturbed
<1>2. Undisturbed
  BY <1>1, Zenon DEF Undisturbed
<1>3. u.phase # "idle"
  BY HandleMoves, Zenon DEF Moved
<1>4. ASSUME NEW ph, NEW hs, NEW ps, NEW q, NEW i, Goes(x, u, ph, hs, ps, q, i), Parsed(x)
      PROVE  Parsed(u) /\ Steady(x, content, acked)
  <2>1. Kept(x, u)
    BY <1>4, Zenon DEF Goes
  <2>2. Parsed(u)
    BY <1>3, <1>4, <2>1, Zenon DEF Parsed, Kept
  <2>3. Steady(u, content, acked)
    BY <1>2, <2>2, UploadAt, Zenon
  <2> HIDE DEF x, u
  <2>4. Steady(x, content, acked)
    BY <2>1, <2>3, SteadyStays
  <2> QED BY <2>2, <2>4
<1>5. ASSUME NEW ph \in Stored, NEW hs, NEW ps, NEW q, NEW i, Goes(x, u, ph, hs, ps, q, i), acked' = acked,
             Parsed(u) => Hashed(x, projects') /\ Spread(x, worker'[c], content, projects', methods)
      PROVE  CompleteInv'
  <2>1. x.phase \in Stored /\ x.version = u.version
    BY <1>5, Zenon DEF Goes, Kept
  <2>2. Parsed(x) => Fine
    BY <1>4, <1>5, Zenon
  <2> QED BY <1>1, <1>2, <1>5, <2>1, <2>2, CompleteFrom
<1>6. CASE Refused(c)
  <2>1. acked' = acked /\ projects' = projects /\ u.phase \notin Stored /\ ~Parsed(x)
    BY <1>6, NotParsed DEF Refused, Stored
  <2> QED BY <1>1, <1>2, <2>1, CompleteFrom
<1>7. CASE ReadOn(c)
  <2>1. acked' = acked /\ projects' = projects /\ u.phase \notin Stored
    BY <1>7 DEF ReadOn, Stored
  <2>2. Parsed(x) => Fine
    BY <1>2, <1>4, <1>7, CompleteReadOn, Zenon DEF ReadOn
  <2> QED BY <1>1, <1>2, <2>1, <2>2, CompleteFrom
<1>8. CASE Stores(c)
  <2>1. "extend" \in Stored /\ "start" \in Stored
    BY DEF Stored
  <2>2. Parsed(u) => Hashed(x, projects') /\ Spread(x, worker'[c], content, projects', methods)
    BY <1>2, <1>8, CompleteStores
  <2> QED BY <1>5, <1>8, <2>1, <2>2, Zenon DEF Stores
<1>9. CASE Adds(c)
  <2>1. u.phase \in {"extend", "unchanged"} /\ "extend" \in Stored /\ "start" \in Stored /\ u.phase \in Stored
        /\ (u.phase = "extend" => u.phase # "unchanged")
    BY <1>9 DEF Adds, Stored
  <2>2. u.bad = FALSE
    <3>1. u.phase \in {"insert", "extend", "start", "methods", "files", "unchanged"}
      BY <2>1
    <3>2. u = Idle \/ Request(u, content, projects)
      BY Parts, Zenon
    <3> HIDE DEF u
    <3> QED BY <3>1, <3>2, Working
  <2>3. Parsed(u)
    BY <1>3, <2>2, Zenon DEF Parsed
  <2>4. CASE u.phase = "extend"
    <3>1. Hashed(x, projects') /\ Spread(x, worker'[c], content, projects', methods)
      BY <1>2, <1>9, <2>3, <2>4, CompleteExtends
    <3> QED BY <1>5, <1>9, <2>1, <2>4, <3>1, Zenon DEF Adds
  <2>5. CASE u.phase = "unchanged"
    <3>1. \/ /\ acked' = acked /\ x.phase \in Stored /\ x.version = u.version
             /\ Hashed(x, projects') /\ Spread(x, worker'[c], content, projects', methods)
          \/ /\ acked' = acked \cup {u.version} /\ x = Idle
             /\ Complete(u.version, content, projects', methods)
      BY <1>2, <1>9, <2>3, <2>5, CompleteUnchanged
    <3>2. x = Idle => ~Parsed(x)
      BY NotParsed
    <3>3. Parsed(x) => Steady(x, content, acked)
      BY <1>4, <1>9, <3>2, Zenon DEF Adds
    <3> QED BY <1>1, <1>2, <3>1, <3>3, CompleteFrom
  <2> QED BY <2>1, <2>4, <2>5
<1>10. CASE Starts(c)
  <2>1. "methods" \in Stored
    BY DEF Stored
  <2>2. Parsed(u) => Hashed(x, projects') /\ Spread(x, worker'[c], content, projects', methods)
    BY <1>2, <1>10, CompleteStarts
  <2> QED BY <1>5, <1>10, <2>1, <2>2, Zenon DEF Starts
<1>11. CASE Joins(c)
  <2>1. "files" \in Stored /\ "unchanged" \in Stored
    BY DEF Stored
  <2>2. AllEnded(c) /\ projects' = projects
    BY <1>11, Zenon DEF Joins
  <2>3. u.phase \in {"methods", "files"} => Parsed(u)
    <3>1. ASSUME u.phase \in {"methods", "files"} PROVE u.bad = FALSE
      <4>1. u.phase \in {"insert", "extend", "start", "methods", "files", "unchanged"}
        BY <3>1
      <4>2. u = Idle \/ Request(u, content, projects)
        BY Parts, Zenon
      <4> HIDE DEF u
      <4> QED BY <4>1, <4>2, Working
    <3> QED BY <1>3, <3>1, Zenon DEF Parsed
  <2>4. CASE u.phase = "methods" /\ u.prev = 0 /\ x = Idle /\ acked' = acked \cup {u.version}
    <3>1. Parsed(u)
      BY <2>3, <2>4
    <3>2. Complete(u.version, content, projects', methods)
      BY <1>2, <2>2, <2>4, <3>1, CompleteJoinsNew
    <3> QED BY <1>1, <1>2, <2>4, <3>2, CompleteFrom
  <2>5. CASE /\ u.phase = "methods" /\ u.prev # 0 /\ acked' = acked
             /\ Goes(x, u, "files", u.hashes, u.prevHashes, HashFileQueue(u.prevHashes, u.files), u.index)
    <3>1. Parsed(u)
      BY <2>3, <2>5
    <3>2. Hashed(x, projects') /\ Spread(x, worker'[c], content, projects', methods)
      BY <1>2, <2>2, <2>5, <3>1, CompleteJoinsFiles
    <3> QED BY <1>5, <2>1, <2>5, <3>2, Zenon
  <2>6. CASE /\ u.phase = "files" /\ acked' = acked
             /\ Goes(x, u, "unchanged", FlattenSeq([w \in Worker |-> worker[c][w].got]), u.prevHashes, u.queue, 0)
    <3>1. Parsed(u)
      BY <2>3, <2>6
    <3>2. Hashed(x, projects') /\ Spread(x, worker'[c], content, projects', methods)
      BY <1>2, <2>2, <2>6, <3>1, CompleteJoinsUnchanged
    <3> QED BY <1>5, <2>1, <2>6, <3>2, Zenon
  <2> QED BY <1>11, <2>4, <2>5, <2>6, Zenon DEF Joins
<1> QED BY <1>1, <1>6, <1>7, <1>8, <1>9, <1>10, <1>11, Zenon

\* A step of a worker leaves the rows that span a version up to the one it writes for.
LEMMA SpannedStays ==
  ASSUME UploadInv, ListInv, NEW c \in Conn, NEW k \in Worker, Worked(c, k)
  PROVE  \A w \in Version : \A m : w <= up[c].version /\ Spanned(w, m, methods) => Spanned(w, m, methods')
<1>1. CASE Sends(c, k)
  BY <1>1, SendsWrites, Zenon DEF Writing
<1>2. CASE methods' = methods
  BY <1>2, Zenon
<1> QED BY <1>1, <1>2, Zenon DEF Worked, Ends, Takes, LooksUp, LooksUpAll

\* A method is written, in the second round with its hash returned.
Served(u, ts, m, ms) == Spanned(u.version, m, ms) /\ (u.phase = "files" => Collected(ts, m.hash))

LEMMA HeldLooksUp ==
  ASSUME UploadInv, NEW c \in Conn, NEW k \in Worker, LooksUp(c, k), NEW m, Holding(up[c], worker[c][k], m)
  PROVE  Holding(up'[c], worker'[c][k], m)
<1> DEFINE u == up[c]
           t == worker[c][k]
           y == worker'[c][k]
           l == MethodList(u, t.item, "ok")
           rows == RowsToExtend({t.item.hash}, {t.item.file}, u.prev)
<1>1. /\ u.phase = "methods" /\ t.pc = "select" /\ Does(y, "write", t.item, l, <<>>, t.got)
  BY Zenon DEF LooksUp
<1>2. t.pc # "idle" /\ t.pc # "write" /\ u.phase # "files" /\ t.pc \in {"select", "write"}
  BY <1>1
<1>3. /\ Busy(u, t, content) /\ content[u.version] \in SUBSET Method /\ IsFiniteSet(u.as)
  BY <1>2, WorkerAt, Zenon
<1>4. t.item \in content[u.version]
  BY <1>1, <1>2, <1>3, Zenon DEF Busy
<1>5. t.item \in Method
  BY <1>3, <1>4
<1>6. methods \subseteq Row /\ IsFiniteSet(methods)
  BY Parts, Zenon DEF Tables
<1>7. m = t.item
  BY <1>1, <1>2, Zenon DEF Holding, Covers
<1>8. MethodWrites(l, t.item, rows, u.version)
  <2> HIDE DEF t, u
  <2> QED BY <1>3, <1>5, <1>6, MethodListWrites DEF l, rows
<1> HIDE DEF l, rows
<1>9. \E i \in 1..Len(l) : Writes(l[i], m)
  BY <1>7, <1>8, Zenon DEF MethodWrites
<1> QED BY <1>1, <1>9, Zenon DEF Does, Holding

LEMMA HeldLooksUpAll ==
  ASSUME OneUploader, UploadInv, OrderInv, CompleteInv, Undisturbed, NEW c \in Conn, NEW k \in Worker,
         LooksUpAll(c, k), Split(up[c], worker[c], methods),
         NEW m \in content[up[c].version], m.file \in up[c].files, Holding(up[c], worker[c][k], m)
  PROVE  \/ Holding(up'[c], worker'[c][k], m)
         \/ Spanned(up[c].version, m, methods) /\ Collected(worker[c], m.hash)
<1> DEFINE u == up[c]
           v == u.version
           t == worker[c][k]
           y == worker'[c][k]
           rows == Extends(c, k)
           l == Updates(rows, v, {})
<1>1. u.phase = "files" /\ t.pc = "select"
  BY Zenon DEF LooksUpAll
<1>2. t.pc # "idle" /\ t.pc # "write"
  BY <1>1
<1>3. Parsed(u)
  BY <1>2, WorkPhase
<1>4. /\ Truthful(u, content, projects) /\ u.bad = FALSE /\ u.phase # "idle"
      /\ u.version \in Version /\ u.prev \in 0..MaxVersion /\ u.prev < u.version
      /\ u.prev # 0 => u.prev \in Version /\ Complete(u.prev, content, projects, methods)
  BY <1>3, UploadAt, Zenon
<1>5. u.prev \in Version
  BY <1>1, <1>4, Zenon DEF Truthful
<1>6. u.prev # 0
  BY <1>5 DEF Version
<1>7. m \in content[u.prev]
  <2>1. At(content[v], m.file) = At(content[u.prev], m.file)
    BY <1>4, Zenon DEF Truthful
  <2> QED BY <2>1 DEF At
<1>8. PICK r \in methods : AsMethod(r) = m /\ r.start <= u.prev /\ u.prev <= r.end
  BY <1>4, <1>6, <1>7, Zenon DEF Complete, Spanned
<1>9. r.hash = m.hash /\ r.file = m.file
  BY <1>8 DEF AsMethod
<1>10. Bounded(r, u)
  BY <1>4, RowBounds
<1>11. /\ r.start \in Nat /\ r.end \in Nat /\ r.end <= v /\ (r.end <= u.prev \/ r.end = v)
  BY <1>6, <1>10, Zenon DEF Bounded
<1>12. u.prev \in Nat /\ v \in Nat
  BY <1>4, UploadBounds DEF Version
<1>13. CASE r.end = v
  <2>1. r.start <= v /\ v <= r.end
    BY <1>4, <1>8, <1>11, <1>12, <1>13
  <2>2. Spanned(v, m, methods)
    BY <1>8, <2>1, Zenon DEF Spanned
  <2>3. Collected(worker[c], r.hash)
    BY <1>1, <1>9, <1>13, Zenon DEF Split
  <2> QED BY <1>9, <2>2, <2>3, Zenon
<1>14. CASE r.end = u.prev
  <2>1. m.hash \in Range(t.item[1]) /\ m.file \in Range(t.item[2])
    BY <1>1, <1>2, Zenon DEF Holding, Covers
  <2>2. r \in rows
    BY <1>9, <1>14, <2>1, Zenon DEF Extends, RowsToExtend
  <2>3. IsFiniteSet(rows)
    <3>1. IsFiniteSet(methods) /\ rows \subseteq methods
      BY Parts, Zenon DEF Tables, Extends, RowsToExtend
    <3> QED BY <3>1, FS_Subset
  <2>4. IsFiniteSet({})
    BY FS_EmptySet
  <2> HIDE DEF rows
  <2>5. rows # {}
    BY <2>2
  <2>6. UpdatesOf(l, rows)
    BY <2>3, <2>4, <2>5, UpdatesWrite
  <2>7. Does(y, "write", t.item, l, HashList(rows), t.got)
    BY <2>5, Zenon DEF LooksUpAll, rows
  <2> HIDE DEF l
  <2>8. PICK i \in 1..Len(l) : l[i].op = "update" /\ l[i].method = AsMethod(r)
    BY <2>2, <2>6, Zenon DEF UpdatesOf
  <2>9. Writes(l[i], m)
    <3>1. l[i].op # "author"
      BY <2>8
    <3> QED BY <1>8, <2>8, <3>1, Zenon DEF Writes
  <2> QED BY <2>7, <2>9, Zenon DEF Does, Holding
<1> QED BY <1>4, <1>8, <1>11, <1>12, <1>13, <1>14

LEMMA HeldSends ==
  ASSUME UploadInv, ListInv, NEW c \in Conn, NEW k \in Worker, Sends(c, k),
         Calm(up[c], worker[c][k], methods), NEW m, Holding(up[c], worker[c][k], m)
  PROVE  \/ Holding(up'[c], worker'[c][k], m)
         \/ /\ Spanned(up[c].version, m, methods')
            /\ up[c].phase = "files" => Collected(worker[c], m.hash)
<1> DEFINE u == up[c]
           v == u.version
           t == worker[c][k]
           y == worker'[c][k]
           S == Statement(v, u.prev, content[v])
           s == t.todo[1]
<1>1. /\ t.todo \in Seq(S) /\ t.todo # <<>> /\ Head(t.todo) = s /\ s \in S
      /\ Writing(s, v, methods, methods')
  BY SendsWrites, Zenon
<1>2. t.pc = "write" /\ t.pc # "select"
  <2>1. t.pc = "write"
    BY Zenon DEF Sends
  <2> QED BY <2>1
<1>3. PICK i \in 1..Len(t.todo) : Writes(t.todo[i], m)
  BY <1>2, Zenon DEF Holding
<1>4. s.op \in {"author", "insert", "update"}
  BY <1>1, StatementKinds
<1> HIDE DEF S
<1>5. /\ 1 \in 1..Len(t.todo) /\ Len(t.todo) \in Nat
      /\ i = 1 \/ \E j \in 1..Len(Tail(t.todo)) : i = j + 1
      /\ \A j \in 1..Len(Tail(t.todo)) : Tail(t.todo)[j] = t.todo[j + 1]
  BY <1>1, TailAt
<1>6. CASE i = 1
  <2>1. s.op # "author" /\ s.method = m
    BY <1>3, <1>6, Zenon DEF Writes
  <2>2. Prepared(s, u, t, methods)
    BY <1>5, Zenon DEF Calm
  <2>3. s.op = "update" => \E r \in methods : Key(r) = KeyOf(s)
    BY <2>1, <2>2, Zenon DEF Prepared
  <2>4. s.op = "insert" \/ s.op = "update"
    BY <1>4, <2>1
  <2>5. Spanned(v, m, methods')
    BY <1>1, <2>1, <2>3, <2>4, Zenon DEF Writing
  <2>6. u.phase = "files" => m.hash \in Range(t.found)
    BY <2>1, <2>2, Zenon DEF Prepared
  <2> QED BY <2>5, <2>6, Zenon DEF Collected
<1>7. ASSUME NEW j \in 1..Len(Tail(t.todo)), i = j + 1 PROVE Holding(up'[c], y, m)
  <2>1. Len(t.todo) > 1 /\ Len(t.todo) # 1
    <3>1. i \in 1..Len(t.todo) /\ j \in Nat /\ j # 0
      OBVIOUS
    <3> QED BY <1>5, <1>7, <3>1
  <2>2. Does(y, "write", t.item, Tail(t.todo), t.found, t.got)
    BY <2>1, Zenon DEF Sends
  <2>3. Writes(Tail(t.todo)[j], m)
    BY <1>3, <1>5, <1>7, Zenon
  <2> QED BY <2>2, <2>3, Zenon DEF Does, Holding
<1> QED BY <1>5, <1>6, <1>7, Zenon

\* A method that waits for a worker still does after a step of one, or is written.
LEMMA PendingGoes ==
  ASSUME OneUploader, UploadInv, ListInv, OrderInv, CompleteInv, Undisturbed,
         NEW c \in Conn, NEW k \in Worker, worker[c][k].pc # "idle",
         Rest(c, k), Worked(c, k), Calm(up[c], worker[c][k], methods), Split(up[c], worker[c], methods),
         NEW m \in content[up[c].version], up[c].phase = "files" => m.file \in up[c].files,
         Pending(up[c], worker[c], m)
  PROVE  Pending(up'[c], worker'[c], m) \/ Served(up[c], worker'[c], m, methods')
<1> DEFINE u == up[c]
           x == up'[c]
           v == u.version
           t == worker[c][k]
           ts == worker'[c]
<1>1. /\ x.phase = u.phase /\ x.version = v
      /\ x = u \/ (Takes(c, k) /\ u.queue # <<>> /\ x.queue = Tail(u.queue))
  BY WorkKeeps, Zenon DEF Worked, Kept
<1>2. u.queue \in Seq(Entry(u)) /\ v \in Version
  <2>1. u \in Upload(Entry(u)) /\ v \in Version
    BY WorkerAt, Zenon
  <2> QED BY <2>1 DEF Upload
<1>3. \A e : Covers(u, e, m) => Covers(x, e, m)
  BY <1>1, Zenon DEF Covers
<1>4. \A y : Holding(u, y, m) => Holding(x, y, m)
  BY <1>3, Zenon DEF Holding
<1>5. \A h : Collected(worker[c], h) => Collected(ts, h)
  BY CollectedStays, Zenon
<1>6. \A w \in Worker : w # k => ts[w] = worker[c][w]
  BY Zenon DEF Rest
<1>7. \A w \in Version : w <= v /\ Spanned(w, m, methods) => Spanned(w, m, methods')
  BY SpannedStays, Zenon
<1>8. v <= v
  BY <1>2 DEF Version
<1>9. CASE \E i \in 1..Len(u.queue) : Covers(u, u.queue[i], m)
  <2>1. PICK i \in 1..Len(u.queue) : Covers(u, u.queue[i], m)
    BY <1>9
  <2>2. CASE x = u
    BY <2>1, <2>2, Zenon DEF Pending
  <2>3. CASE Takes(c, k) /\ u.queue # <<>> /\ x.queue = Tail(u.queue)
    <3> DEFINE E == Entry(u)
               q == u.queue
    <3>1. q \in Seq(E) /\ q # <<>>
      BY <1>2, <2>3
    <3> HIDE DEF E, q
    <3>2. /\ Head(q) = q[1]
          /\ \A j \in 1..Len(Tail(q)) : Tail(q)[j] = q[j + 1]
          /\ \A j \in 1..Len(q) : j = 1 \/ \E n \in 1..Len(Tail(q)) : j = n + 1
      BY <3>1, TailAt
    <3>3. i = 1 \/ \E n \in 1..Len(Tail(q)) : i = n + 1
      BY <2>1, <3>2, Zenon DEF q
    <3>4. CASE i = 1
      <4>1. ts[k].pc = "select" /\ ts[k].item = Head(q)
        BY <2>3, Zenon DEF Takes, Does, q
      <4>2. Covers(x, ts[k].item, m)
        BY <1>3, <2>1, <3>2, <3>4, <4>1, Zenon DEF q
      <4> QED BY <4>1, <4>2, Zenon DEF Holding, Pending
    <3>5. CASE \E n \in 1..Len(Tail(q)) : i = n + 1
      <4>1. PICK n \in 1..Len(Tail(q)) : i = n + 1
        BY <3>5
      <4>2. Covers(x, Tail(q)[n], m)
        BY <1>3, <2>1, <3>2, <4>1, Zenon DEF q
      <4> QED BY <2>3, <4>2, Zenon DEF Pending, q
    <3> QED BY <3>3, <3>4, <3>5
  <2> QED BY <1>1, <2>2, <2>3, Zenon
<1>10. CASE \E w \in Worker : Holding(u, worker[c][w], m)
  <2>1. PICK w \in Worker : Holding(u, worker[c][w], m)
    BY <1>10
  <2>2. CASE w # k
    BY <1>4, <1>6, <2>1, <2>2, Zenon DEF Pending
  <2>3. CASE w = k
    <3>1. Holding(up[c], worker[c][k], m)
      BY <2>1, <2>3, Zenon
    <3>2. CASE Ends(c, k) \/ Takes(c, k)
      <4>1. t.pc = "take"
        BY <3>2, Zenon DEF Ends, Takes
      <4>2. t.pc # "select" /\ t.pc # "write"
        BY <4>1
      <4> QED BY <3>1, <4>2, Zenon DEF Holding
    <3>3. CASE LooksUp(c, k)
      <4>1. Holding(x, ts[k], m)
        BY <3>1, <3>3, HeldLooksUp
      <4> QED BY <4>1, Zenon DEF Pending
    <3>4. CASE LooksUpAll(c, k)
      <4>1. m.file \in u.files
        BY <3>4, Zenon DEF LooksUpAll
      <4>2. Holding(x, ts[k], m) \/ (Spanned(v, m, methods) /\ Collected(worker[c], m.hash))
        BY <3>1, <3>4, <4>1, HeldLooksUpAll
      <4> QED BY <1>2, <1>5, <1>7, <1>8, <4>2, Zenon DEF Pending, Served
    <3>5. CASE Sends(c, k)
      <4>1. \/ Holding(x, ts[k], m)
            \/ Spanned(v, m, methods') /\ (u.phase = "files" => Collected(worker[c], m.hash))
        BY <3>1, <3>5, HeldSends
      <4> QED BY <1>5, <4>1, Zenon DEF Pending, Served
    <3> QED BY <3>2, <3>3, <3>4, <3>5, Zenon DEF Worked
  <2> QED BY <2>2, <2>3
<1> QED BY <1>9, <1>10, Zenon DEF Pending

LEMMA SpreadWork ==
  ASSUME OneUploader, UploadInv, ListInv, OrderInv, CompleteInv, Undisturbed,
         NEW c \in Conn, NEW k \in Worker, worker[c][k].pc # "idle",
         Rest(c, k), Worked(c, k), Calm(up[c], worker[c][k], methods), Split(up[c], worker[c], methods)
  PROVE  Spread(up'[c], worker'[c], content, projects, methods')
<1> DEFINE u == up[c]
           x == up'[c]
           v == u.version
           ts == worker'[c]
<1>1. /\ Parsed(u) /\ u.phase \in {"methods", "files"}
  BY WorkPhase
<1>2. /\ Truthful(u, content, projects) /\ v \in Version /\ u.bad = FALSE
      /\ Spread(u, worker[c], content, projects, methods)
  BY <1>1, UploadAt, Zenon
<1>3. /\ x.phase = u.phase /\ x.version = v /\ x.sent = u.sent /\ x.files = u.files
  BY WorkKeeps, Zenon DEF Worked, Kept
<1>4. x.phase # "unchanged" /\ u.phase \in {"methods", "files", "unchanged"} /\ u.phase # "unchanged"
      /\ (u.phase = "files" => u.phase # "methods")
  BY <1>1, <1>3
<1>5. \A m : Spanned(v, m, methods) => Spanned(v, m, methods')
  <2>1. v <= v
    BY <1>2 DEF Version
  <2> QED BY <1>2, <2>1, SpannedStays, Zenon
<1>6. \A i \in 1..Len(u.sent) : u.sent[i] \in content[v]
  <2> DEFINE C == content[v]
  <2>1. u.sent \in Seq(C)
    BY <1>2, Zenon DEF Truthful
  <2> HIDE DEF C
  <2>2. \A i \in 1..Len(u.sent) : u.sent[i] \in C
    BY <2>1
  <2> QED BY <2>2 DEF C
<1>7. CASE u.phase = "methods"
  <2>1. ASSUME NEW i \in 1..Len(u.sent) PROVE Pending(x, ts, u.sent[i]) \/ Spanned(v, u.sent[i], methods')
    <3>1. Pending(u, worker[c], u.sent[i]) \/ Spanned(v, u.sent[i], methods)
      BY <1>2, <1>7, Zenon DEF Spread
    <3>2. CASE Pending(u, worker[c], u.sent[i])
      <4> DEFINE m == u.sent[i]
      <4>1. m \in content[u.version] /\ (u.phase = "files" => m.file \in u.files)
        BY <1>6, <1>7
      <4>2. Pending(u, worker[c], m)
        BY <3>2
      <4> HIDE DEF m
      <4>3. Pending(x, ts, m) \/ Served(u, ts, m, methods')
        BY <4>1, <4>2, PendingGoes
      <4> QED BY <4>3, Zenon DEF Served, m
    <3> QED BY <1>5, <3>1, <3>2
  <2>2. x.phase # "files" /\ x.phase \notin {"files", "unchanged"}
    BY <1>3, <1>7
  <2> HIDE DEF x, ts, u
  <2>3. Spread(x, ts, content, projects, methods')
    BY <1>3, <1>4, <2>1, <2>2, Zenon DEF Spread, v
  <2> QED BY <2>3 DEF x, ts
<1>8. CASE u.phase = "files"
  <2>1. u.phase \in {"files", "unchanged"}
    BY <1>8
  <2>2. \A i \in 1..Len(u.sent) : Spanned(v, u.sent[i], methods')
    BY <1>2, <1>5, <2>1, Zenon DEF Spread
  <2>3. ASSUME NEW m \in content[v], m.file \in u.files
        PROVE  Pending(x, ts, m) \/ (Spanned(v, m, methods') /\ Collected(ts, m.hash))
    <3>1. Pending(u, worker[c], m) \/ (Spanned(v, m, methods) /\ Collected(worker[c], m.hash))
      BY <1>2, <1>8, <2>3, Zenon DEF Spread
    <3>2. CASE Pending(u, worker[c], m)
      <4>1. Pending(x, ts, m) \/ Served(u, ts, m, methods')
        BY <2>3, <3>2, PendingGoes
      <4> QED BY <1>8, <4>1, Zenon DEF Served
    <3>3. CASE Spanned(v, m, methods) /\ Collected(worker[c], m.hash)
      BY <1>5, <3>3, CollectedStays, Zenon
    <3> QED BY <3>1, <3>2, <3>3
  <2>4. x.phase # "methods"
    BY <1>3, <1>8
  <2> HIDE DEF x, ts, u
  <2>5. Spread(x, ts, content, projects, methods')
    BY <1>3, <1>4, <2>2, <2>3, <2>4, Zenon DEF Spread, v
  <2> QED BY <2>5 DEF x, ts
<1> QED BY <1>1, <1>7, <1>8

LEMMA CompleteWork ==
  ASSUME OneUploader, UploadInv, ListInv, OrderInv, CalmInv, CompleteInv,
         NEW c \in Conn, NEW k \in Worker, Work(c, k)
  PROVE  CompleteInv'
<1> DEFINE u == up[c]
           x == up'[c]
           v == u.version
<1> SUFFICES ASSUME Undisturbed'
             PROVE  /\ \A w \in Version : projects'[w] # None => w \in acked' \/ (x.phase \in Stored /\ x.version = w)
                    /\ \A w \in acked' : Complete(w, content', projects', methods')
                    /\ /\ Steady(x, content', acked') /\ Hashed(x, projects')
                       /\ Spread(x, worker'[c], content', projects', methods')
  BY Zenon DEF CompleteInv, OneUploader
<1>1. /\ faults = 0 /\ projects' = projects /\ content' = content /\ acked' = acked /\ crashes' = crashes
      /\ Rest(c, k) /\ Worked(c, k)
  BY WorkGoes, Zenon DEF Undisturbed, Worked
<1>2. Undisturbed /\ worker[c][k].pc # "idle"
  BY <1>1, WorkBusy, Zenon DEF Undisturbed
<1>3. Parsed(u) /\ u.phase # "idle" /\ u.bad = FALSE
  BY <1>2, WorkPhase
<1>4. /\ Steady(u, content, acked) /\ Hashed(u, projects) /\ v \in Version
  BY <1>2, <1>3, UploadAt, Zenon
<1>5. /\ \A w \in Version : projects[w] # None => w \in acked \/ (u.phase \in Stored /\ u.version = w)
      /\ \A w \in acked : Complete(w, content, projects, methods)
  BY <1>2, CompleteParts, Zenon
<1>6. /\ Kept(x, u) /\ x.phase = u.phase /\ x.hashes = u.hashes /\ x.prevHashes = u.prevHashes
      /\ x.index = u.index
  BY <1>1, WorkKeeps, Zenon DEF Worked
<1>7. x.version = v /\ x.prev = u.prev /\ x.sent = u.sent
  BY <1>6, Zenon DEF Kept
<1>8. Calm(u, worker[c][k], methods) /\ Split(u, worker[c], methods)
  BY <1>1, <1>3, Zenon DEF CalmInv
<1>9. ASSUME NEW w \in acked PROVE Complete(w, content, projects, methods')
  <2>1. w \in Version /\ projects[w] # None
    BY Parts, Zenon DEF OrderInv
  <2>2. content[w] # None
    BY <2>1, Parts, Zenon DEF HashesHonest
  <2>3. w <= v
    BY <1>3, <2>1, <2>2, Zenon DEF OrderInv, Newest
  <2>4. \A m : Spanned(w, m, methods) => Spanned(w, m, methods')
    BY <1>1, <2>1, <2>3, SpannedStays, Zenon
  <2> QED BY <1>5, <2>4, Zenon DEF Complete
<1>10. Steady(x, content, acked)
  <2> HIDE DEF x, u
  <2> QED BY <1>4, <1>6, SteadyStays
<1>11. Hashed(x, projects)
  <2> HIDE DEF x, u
  <2> QED BY <1>4, <1>6, <1>7, Zenon DEF Hashed, v
<1>12. Spread(x, worker'[c], content, projects, methods')
  BY <1>1, <1>2, <1>8, SpreadWork
<1>13. \A w \in Version : projects[w] # None => w \in acked \/ (x.phase \in Stored /\ x.version = w)
  BY <1>5, <1>6, <1>7, Zenon
<1> QED BY <1>1, <1>9, <1>10, <1>11, <1>12, <1>13, Zenon

LEMMA CompleteStep ==
  ASSUME OneUploader, Orderly, UploadInv, ListInv, OrderInv, CalmInv, CompleteInv, [Next]_vars
  PROVE  CompleteInv'
<1>1. ASSUME NEW c \in Conn, Receive(c) PROVE CompleteInv'
  BY <1>1, CompleteReceive
<1>2. ASSUME NEW c \in Conn, Handle(c) PROVE CompleteInv'
  BY <1>2, CompleteHandle
<1>3. ASSUME NEW c \in Conn, NEW w \in Worker, Work(c, w) PROVE CompleteInv'
  BY <1>3, CompleteWork
<1>4. CASE Crash
  <2>1. crashes \in Nat
    <3>1. crashes \in 0..MaxCrashes
      BY Parts, Zenon
    <3> QED BY <3>1, UploadBounds
  <2>2. crashes' # 0
    BY <1>4, <2>1 DEF Crash
  <2> QED BY <2>2, Zenon DEF CompleteInv, Undisturbed
<1>5. CASE Restart \/ UNCHANGED vars
  BY <1>5, Zenon DEF Restart, vars, tables, clients, CompleteInv, Undisturbed
<1> QED BY <1>1, <1>2, <1>3, <1>4, <1>5, Zenon DEF Next

\* What the methods table has for a version that is complete.
LEMMA CompleteMethods ==
  ASSUME UploadInv, OrderInv, NEW v \in acked, Complete(v, content, projects, methods)
  PROVE  MethodsOf(v) = content[v]
<1>1. v \in Version /\ projects[v] # None
  BY Parts, Zenon DEF OrderInv
<1>2. content[v] \in SUBSET Method
  <2>1. content[v] # None
    BY <1>1, Parts, Zenon DEF HashesHonest
  <2> QED BY <1>1, <2>1, Parts, Holds
<1>3. ASSUME NEW m \in content[v] PROVE m \in MethodsOf(v)
  <2>1. PICK r \in methods : AsMethod(r) = m /\ r.start <= v /\ v <= r.end
    BY <1>3, Zenon DEF Complete, Spanned
  <2> QED BY <2>1 DEF MethodsOf
<1>4. ASSUME NEW m \in MethodsOf(v) PROVE m \in content[v]
  <2>1. PICK r \in methods : AsMethod(r) = m /\ r.start <= v /\ v <= r.end
    BY <1>4 DEF MethodsOf
  <2>2. Spans(r, content, projects)
    BY Zenon DEF OrderInv
  <2> QED BY <1>1, <2>1, <2>2, Zenon DEF Spans
<1> QED BY <1>3, <1>4

\* One uploader at a time, each version sent once and built on the latest one, no
\* failed statement and no end of the process: once an upload is replied to with
\* success the methods table has exactly the methods its version holds and the
\* project row exactly their hashes, whatever the versions hold, whichever files
\* are unchanged and however the workers interleave over the chunks.
THEOREM UploadsAlwaysComplete ==
  ASSUME OneUploader, Orderly PROVE Spec => []CompleteIfUndisturbed
<1>1. Init => CompleteInv
  BY InitGoes, NotParsed, Zenon DEF CompleteInv
<1>2. UploadInv /\ ListInv /\ OrderInv /\ CalmInv /\ CompleteInv /\ [Next]_vars => CompleteInv'
  BY CompleteStep
<1>3. UploadInv /\ OrderInv /\ CompleteInv => CompleteIfUndisturbed
  <2> SUFFICES ASSUME UploadInv, OrderInv, CompleteInv, Undisturbed, NEW v \in acked
               PROVE  MethodsOf(v) = content[v] /\ projects[v] = HashesOf(content[v])
    BY Zenon DEF CompleteIfUndisturbed, UploadComplete
  <2>1. Complete(v, content, projects, methods)
    BY Zenon DEF CompleteInv
  <2>2. MethodsOf(v) = content[v]
    BY <2>1, CompleteMethods
  <2> QED BY <2>1, <2>2, Zenon DEF Complete
<1> QED BY <1>1, <1>2, <1>3, UploadInvariant, ListInvariant, OrderInvariant, CalmInvariant, PTL DEF Spec
=============================================================================
