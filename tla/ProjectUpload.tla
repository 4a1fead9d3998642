---------------------------- MODULE ProjectUpload ----------------------------
(***************************************************************************)
(* The upload of a version of one project ("upld", "chup"): the handler     *)
(* stores the project row, MAX_THREADS workers store the methods of the     *)
(* changed files, then MAX_THREADS workers extend the methods of the        *)
(* unchanged files, and the handler adds their hashes to the project row.   *)
(*                                                                          *)
(* Every action is at most one statement of the database.  A statement may  *)
(* succeed, fail ("fail") or be carried out although an error is reported   *)
(* ("late").  errno belongs to a thread: the handler's is up[c].errno, a    *)
(* worker's worker[c][w].errno.                                             *)
(***************************************************************************)
EXTENDS Integers, Sequences, FiniteSets, SequencesExt, Chunks

CONSTANTS
  Conn,                     \* connections that upload
  Hash, File, Author,
  MAX_THREADS, MAX_RETRIES,
  HASHES_INSERT_MAX, HASHES_MAX_SIZE, FILES_MAX_SIZE,
  None,
  Clients,                  \* what the clients of this instance do, see Habits
  MaxVersion, MaxFaults, MaxCrashes                 \* bounds of the instance

\* A client may send a version again, name a previous version that is no longer
\* the latest, send a method that a file holds twice, send data that does not
\* parse, have authors for its methods, ask for a check first.
Habits == {"repeat", "stale", "twins", "bad", "authors", "check"}

Worker  == 1..MAX_THREADS
Version == 1..MaxVersion
Method  == [hash : Hash, file : File]

ASSUME UploadSets   == /\ \A s \in SUBSET Method : s # None
                       /\ \A s \in SUBSET Hash : s # None
                       /\ IsFiniteSet(Conn) /\ IsFiniteSet(Author)
                       /\ IsFiniteSet(Hash) /\ IsFiniteSet(File)
                       /\ Clients \subseteq Habits
ASSUME UploadBounds == /\ MAX_THREADS \in Nat \ {0} /\ MAX_RETRIES \in Nat
                       /\ HASHES_INSERT_MAX \in Nat \ {0}
                       /\ HASHES_MAX_SIZE \in Nat \ {0} /\ FILES_MAX_SIZE \in Nat \ {0}
                       /\ MaxVersion \in Nat /\ MaxFaults \in Nat /\ MaxCrashes \in Nat

VARIABLES
  methods,      \* table methods: rows [hash, file, start, end, authors]
  projects,     \* table projects: per version its set of hashes, or None
  byAuthor,     \* table method_by_author: <<author, hash, file, start>>
  authors,      \* table author_by_id
  up,           \* per connection: the upload it handles
  worker,       \* per connection and thread number: a worker thread
  content,      \* what each version of the project really holds, or None
  acked,        \* versions whose last upload was replied to with success
  alive,        \* the process runs
  faults, crashes

tables  == <<methods, projects, byAuthor, authors>>
clients == <<content, acked>>
vars    == <<tables, up, worker, clients, alive, faults, crashes>>

(***************************************************************************)
(* Statements                                                               *)
(***************************************************************************)
Outcome == {"ok", "fail", "late"}

Happens(o) == /\ o # "ok" => faults < MaxFaults
              /\ faults' = IF o = "ok" THEN faults ELSE faults + 1

Key(row) == <<row.hash, row.file, row.start>>

\* INSERT of a method row, an upsert by key.
Upsert(row) == {r \in methods : Key(r) # Key(row)} \cup {row}

\* UPDATE of endVersionTime and authors of the row with this key.
Extended(key, v, as) ==
  {IF Key(r) = key THEN [r EXCEPT !.end = v, !.authors = @ \cup as] ELSE r : r \in methods}

\* MUTANT of Group: the row is written before the authors are related to it.
RowFirst(m, v, as, write) ==
  <<write>> \o
  [i \in 1..Cardinality(as) |->
     [op |-> "author", author |-> SetToSeq(as)[i], method |-> m, version |-> v]]

\* What addNewMethod and updateMethod send: per author createAuthorIfNotExists
\* and addMethodByAuthor, with the new version as startversiontime, then the row.
Group(m, v, as, write) ==
  [i \in 1..Cardinality(as) |->
     [op |-> "author", author |-> SetToSeq(as)[i], method |-> m, version |-> v]]
  \o <<write>>

addNewMethod(m, v, as) ==
  Group(m, v, as, [op |-> "insert", method |-> m, version |-> v, authors |-> as])

updateMethod(m, start, v, as) ==
  Group(m, v, as, [op |-> "update", method |-> m, version |-> v, start |-> start, authors |-> as])

\* errno after a statement: addMethodByAuthor resets it, so only the last
\* author's error survives until the row is written.
Errno(s, before, o) == o # "ok" \/ (s.op # "author" /\ s.authors # {} /\ before)

(***************************************************************************)
(* Chunks                                                                   *)
(***************************************************************************)
\* The queue of handleUpdateUnchangedFilesThreads.
HashFileQueue(hashes, files) ==
  Pairs(ToChunks(SetToSeq(hashes), HASHES_MAX_SIZE), ToChunks(SetToSeq(files), FILES_MAX_SIZE))

(***************************************************************************)
(* Requests                                                                 *)
(***************************************************************************)
At(c, f) == {m \in c : m.file = f}

Latest == LET stored == {v \in Version : projects[v] # None}
          IN  IF stored = {} THEN 0 ELSE CHOOSE v \in stored : \A u \in stored : u <= v

Previous == {0, Latest} \cup IF "stale" \in Clients THEN {v \in Version : projects[v] # None} ELSE {}

\* A version never sent before comes after the others.
Sendable == {v \in Version : IF content[v] = None
                               THEN \A u \in Version : content[u] # None => u < v
                               ELSE "repeat" \in Clients}

Flag(habit) == IF habit \in Clients THEN BOOLEAN ELSE {FALSE}

\* The files a client may call unchanged: all of the methods are the same.
Same(c, p) == IF p = 0 \/ content[p] = None THEN {} ELSE {f \in File : At(c, f) = At(content[p], f)}

Idle == [phase |-> "idle", version |-> 0, prev |-> 0, files |-> {}, bad |-> FALSE, as |-> {},
         sent |-> <<>>, hashes |-> <<>>, prevHashes |-> {}, queue |-> <<>>,
         index |-> 0, tries |-> 0, errno |-> FALSE]

NoWorker == [pc |-> "idle", item |-> None, todo |-> <<>>, tries |-> 0, errno |-> FALSE,
             found |-> <<>>, got |-> <<>>]

\* The phase handleUploadRequest starts in.
FirstPhase(prev) == IF prev = 0 THEN "parse" ELSE "search"

\* A request arrives.  One that will not parse leaves content alone: the client
\* has no such version in the database to speak of.
Receive(c) ==
  /\ alive /\ up[c].phase = "idle"
  /\ \E v \in Sendable, check \in Flag("check"), bad \in Flag("bad"), twice \in Flag("twins") :
     \E p \in {q \in Previous : q < v}, as \in IF "authors" \in Clients THEN SUBSET Author ELSE {{}} :
     \E now \in IF content[v] = None THEN SUBSET Method ELSE {content[v]} :
     \E files \in SUBSET Same(now, p) :
       LET ms == SetToSeq({m \in now : m.file \notin files})
       IN  /\ up' = [up EXCEPT ![c] = [Idle EXCEPT
                !.phase = IF check THEN "check" ELSE FirstPhase(p),
                !.version = v, !.prev = p, !.files = files, !.bad = bad, !.as = as,
                !.sent = IF twice THEN ms \o ms ELSE ms]]
           /\ content' = IF bad THEN content ELSE [content EXCEPT ![v] = now]
           /\ acked' = IF bad THEN acked ELSE acked \ {v}
  /\ UNCHANGED <<tables, worker, alive, faults, crashes>>

Reply(c, code) ==
  /\ up' = [up EXCEPT ![c] = Idle]
  /\ acked' = IF code = "success" THEN acked \cup {up[c].version} ELSE acked
  /\ UNCHANGED content

\* handleCheckUploadRequest looks the hashes up first, which changes nothing and
\* whose reply is a success also when queries fail (see QueryPool).
Check(c) ==
  /\ up[c].phase = "check"
  /\ IF up[c].bad
       THEN Reply(c, "client")
       ELSE /\ up' = [up EXCEPT ![c].phase = FirstPhase(up[c].prev)]
            /\ UNCHANGED clients
  /\ UNCHANGED <<tables, worker, alive, faults, crashes>>

\* searchForProject, which is not retried here.
SearchPrevious(c) ==
  /\ up[c].phase = "search"
  /\ \E o \in {"ok", "fail"} :
       /\ Happens(o)
       /\ IF o = "ok" /\ projects[up[c].prev] # None
            THEN /\ up' = [up EXCEPT ![c].phase = "parse", ![c].prevHashes = projects[up[c].prev]]
                 /\ UNCHANGED clients
            ELSE Reply(c, "server")
  /\ UNCHANGED <<tables, worker, alive, crashes>>

\* dataEntryToMethod of all entries.
ParseMethods(c) ==
  /\ up[c].phase = "parse"
  /\ IF up[c].bad
       THEN Reply(c, "client")
       ELSE /\ up' = [up EXCEPT ![c].phase = "insert",
                                ![c].hashes = [i \in DOMAIN up[c].sent |-> up[c].sent[i].hash]]
            /\ UNCHANGED clients
  /\ UNCHANGED <<tables, worker, alive, faults, crashes>>

(***************************************************************************)
(* The project row                                                          *)
(***************************************************************************)
\* The hashes of project c from position i on that go into one statement.
HashChunk(c, i) ==
  {up[c].hashes[j] : j \in (i + 1)..LeastOf(i + HASHES_INSERT_MAX, Len(up[c].hashes))}

MoreHashes(c, i) == Len(up[c].hashes) > i + HASHES_INSERT_MAX

\* MUTANT of AfterAddProject: the result of the last attempt is not looked at.
GoesOnAnyway(c, e, stored) ==
  LET n == up[c].tries + 1
  IN  IF e /\ n <= MAX_RETRIES
        THEN up' = [up EXCEPT ![c].phase = "insert", ![c].tries = n] /\ UNCHANGED clients
        ELSE up' = [up EXCEPT ![c].phase = "start", ![c].errno = FALSE] /\ UNCHANGED clients

\* queryWithRetry around addProject: what follows an attempt that left errno e.
AfterAddProject(c, e, stored) ==
  LET n == up[c].tries + 1
  IN  IF ~e THEN up' = [up EXCEPT ![c].phase = "start", ![c].errno = FALSE] /\ UNCHANGED clients
      ELSE IF n <= MAX_RETRIES
        THEN up' = [up EXCEPT ![c].phase = "insert", ![c].tries = n] /\ UNCHANGED clients
      ELSE IF stored
        THEN up' = [up EXCEPT ![c].phase = "start", ![c].errno = TRUE] /\ UNCHANGED clients
        ELSE Reply(c, "server")

\* addProject: the INSERT replaces the set of hashes.
AddProject(c) ==
  /\ up[c].phase = "insert"
  /\ \E o \in Outcome :
       /\ Happens(o)
       /\ projects' = IF o = "fail" THEN projects
                      ELSE [projects EXCEPT ![up[c].version] = HashChunk(c, 0)]
       /\ IF o = "ok" /\ MoreHashes(c, 0)
            THEN /\ up' = [up EXCEPT ![c].phase = "extend", ![c].index = HASHES_INSERT_MAX]
                 /\ UNCHANGED clients
            ELSE AfterAddProject(c, o # "ok", FALSE)
  /\ UNCHANGED <<methods, byAuthor, authors, worker, alive, crashes>>

\* UPDATE ... SET hashes = hashes + ?, which creates the row if there is none.
WithHashes(v, hs) ==
  [projects EXCEPT ![v] = IF @ = None /\ hs # {} THEN hs ELSE IF @ = None THEN None ELSE @ \cup hs]

\* addHashToProject, one call of the recursion: every call resets errno, so the
\* outcome of the last one stands for all.
AddHashes(c) ==
  /\ up[c].phase \in {"extend", "unchanged"}
  /\ \E o \in Outcome :
       /\ Happens(o)
       /\ projects' = IF o = "fail" THEN projects
                      ELSE WithHashes(up[c].version, HashChunk(c, up[c].index))
       /\ IF MoreHashes(c, up[c].index)
            THEN up' = [up EXCEPT ![c].index = @ + HASHES_INSERT_MAX] /\ UNCHANGED clients
          ELSE IF up[c].phase = "extend"
            THEN AfterAddProject(c, o # "ok", TRUE)
            ELSE Reply(c, IF o = "ok" THEN "success" ELSE "server")
  /\ UNCHANGED <<methods, byAuthor, authors, worker, alive, crashes>>

(***************************************************************************)
(* The handler and its threads                                              *)
(***************************************************************************)
\* The end of the process: what the database holds stays.
Stop ==
  /\ alive' = FALSE
  /\ up' = [c \in Conn |-> Idle]
  /\ worker' = [c \in Conn |-> [w \in Worker |-> NoWorker]]
  /\ UNCHANGED <<tables, clients, faults>>

\* handleUploadThreads: with errno set it returns while the first thread is
\* joinable, and the destructor of that std::thread calls std::terminate.
StartUpload(c) ==
  /\ up[c].phase = "start"
  /\ IF up[c].errno
       THEN Stop
       ELSE /\ up' = [up EXCEPT ![c].phase = "methods", ![c].queue = up[c].sent]
            /\ worker' = [worker EXCEPT ![c] = [w \in Worker |-> [NoWorker EXCEPT !.pc = "take"]]]
            /\ UNCHANGED <<tables, clients, alive, faults>>
  /\ UNCHANGED crashes

AllEnded(c) == \A w \in Worker : worker[c][w].pc = "ended"

\* MUTANT of JoinUpload: the unchanged files are forgotten.
SkipsUnchanged(c) ==
  /\ up[c].phase = "methods" /\ AllEnded(c)
  /\ Reply(c, "success")
  /\ worker' = [worker EXCEPT ![c] = [w \in Worker |-> NoWorker]]
  /\ UNCHANGED <<tables, alive, faults, crashes>>

\* The joins of handleUploadThreads, and the second round unless the project is new.
JoinUpload(c) ==
  /\ up[c].phase = "methods" /\ AllEnded(c)
  /\ IF up[c].prev = 0
       THEN /\ Reply(c, "success")
            /\ worker' = [worker EXCEPT ![c] = [w \in Worker |-> NoWorker]]
       ELSE /\ up' = [up EXCEPT ![c].phase = "files",
                                ![c].queue = HashFileQueue(up[c].prevHashes, up[c].files)]
            /\ worker' = [worker EXCEPT ![c] = [w \in Worker |-> [NoWorker EXCEPT !.pc = "take"]]]
            /\ UNCHANGED clients
  /\ UNCHANGED <<tables, alive, faults, crashes>>

\* MUTANT of JoinUnchanged: all hashes of the previous version are taken over.
KeepsAllHashes(c) ==
  /\ up[c].phase = "files" /\ AllEnded(c)
  /\ up' = [up EXCEPT ![c].phase = "unchanged", ![c].index = 0,
                      ![c].hashes = SetToSeq(up[c].prevHashes)]
  /\ worker' = [worker EXCEPT ![c] = [w \in Worker |-> NoWorker]]
  /\ UNCHANGED <<tables, clients, alive, faults, crashes>>

\* handleUpdateUnchangedFilesThreads after the joins: addHashToProject from 0.
JoinUnchanged(c) ==
  /\ up[c].phase = "files" /\ AllEnded(c)
  /\ up' = [up EXCEPT ![c].phase = "unchanged", ![c].index = 0,
                      ![c].hashes = FlattenSeq([w \in Worker |-> worker[c][w].got])]
  /\ worker' = [worker EXCEPT ![c] = [w \in Worker |-> NoWorker]]
  /\ UNCHANGED <<tables, clients, alive, faults, crashes>>

(***************************************************************************)
(* A worker                                                                 *)
(***************************************************************************)
Set(c, w, r) == worker' = [worker EXCEPT ![c][w] = r]

\* MUTANT of TakeItem: a worker that finds the queue empty looks again.
WaitsForItem(c, w) ==
  LET me == worker[c][w]
  IN  /\ me.pc = "take"
      /\ up[c].queue # <<>>
      /\ Set(c, w, [me EXCEPT !.pc = "select", !.item = Head(up[c].queue), !.tries = 0, !.errno = FALSE])
      /\ up' = [up EXCEPT ![c].queue = Tail(@)]
      /\ UNCHANGED <<tables, clients, alive, faults, crashes>>

\* The next method or chunk, under queueLock.
TakeItem(c, w) ==
  LET me == worker[c][w]
  IN  /\ me.pc = "take"
      /\ IF up[c].queue = <<>>
           THEN Set(c, w, [me EXCEPT !.pc = "ended"]) /\ UNCHANGED up
           ELSE /\ Set(c, w, [me EXCEPT !.pc = "select", !.item = Head(up[c].queue),
                                         !.tries = 0, !.errno = FALSE])
                /\ up' = [up EXCEPT ![c].queue = Tail(@)]
      /\ UNCHANGED <<tables, clients, alive, faults, crashes>>

\* MUTANT of RowsToExtend: the file of a row is not compared.
AnyFile(hs, fs, prev) == {r \in methods : r.hash \in hs /\ r.end = prev}

\* The rows of these hashes and files that end at the previous version.
RowsToExtend(hs, fs, prev) == {r \in methods : r.hash \in hs /\ r.file \in fs /\ r.end = prev}

AsMethod(row) == [hash |-> row.hash, file |-> row.file]

Updates(rows, v, as) ==
  FlattenSeq([i \in 1..Cardinality(rows) |->
                LET r == SetToSeq(rows)[i] IN updateMethod(AsMethod(r), r.start, v, as)])

\* MUTANT of SelectMethod: newMethod stays true when a row was found.
ExtendsAndInserts(c, w) ==
  LET me   == worker[c][w]
      v    == up[c].version
      rows == RowsToExtend({me.item.hash}, {me.item.file}, up[c].prev)
  IN  /\ up[c].phase = "methods" /\ me.pc = "select"
      /\ \E o \in IF up[c].prev = 0 THEN {"ok"} ELSE {"ok", "fail"} :
           /\ Happens(o)
           /\ Set(c, w, [me EXCEPT !.pc = "write", !.todo =
                           Updates(rows, v, up[c].as) \o addNewMethod(me.item, v, up[c].as)])
      /\ UNCHANGED <<tables, up, clients, alive, crashes>>

\* addMethod up to its first write: when the SELECT fails or finds no row that
\* ends at the previous version the method is a new one.
SelectMethod(c, w) ==
  LET me   == worker[c][w]
      v    == up[c].version
      rows == RowsToExtend({me.item.hash}, {me.item.file}, up[c].prev)
  IN  /\ up[c].phase = "methods" /\ me.pc = "select"
      /\ \E o \in IF up[c].prev = 0 THEN {"ok"} ELSE {"ok", "fail"} :
           /\ Happens(o)
           /\ Set(c, w, [me EXCEPT !.pc = "write", !.todo =
                           IF o = "fail" \/ up[c].prev = 0 \/ rows = {}
                             THEN addNewMethod(me.item, v, up[c].as)
                             ELSE Updates(rows, v, up[c].as)])
      /\ UNCHANGED <<tables, up, clients, alive, crashes>>

\* MUTANT of AfterAttempt: one retry too many.
OneMoreAttempt(c, me, e) ==
  LET n == me.tries + 1
  IN  IF e /\ n <= MAX_RETRIES + 1 THEN [me EXCEPT !.pc = "select", !.todo = <<>>, !.tries = n, !.errno = e]
      ELSE [me EXCEPT !.pc = "take", !.todo = <<>>, !.errno = e, !.got = @ \o me.found, !.found = <<>>]

\* queryWithRetry after an attempt that left errno e: again, or on to the next
\* item.  A worker of the unchanged files that gives up returns no hashes.
AfterAttempt(c, me, e) ==
  LET n == me.tries + 1
  IN  IF e /\ n <= MAX_RETRIES THEN [me EXCEPT !.pc = "select", !.todo = <<>>, !.tries = n, !.errno = e]
      ELSE IF e /\ up[c].phase = "files"
        THEN [me EXCEPT !.pc = "ended", !.todo = <<>>, !.errno = e, !.got = <<>>]
        ELSE [me EXCEPT !.pc = "take", !.todo = <<>>, !.errno = e, !.got = @ \o me.found, !.found = <<>>]

\* updateUnchangedFiles up to its first write; rows updated by an earlier
\* attempt no longer end at the previous version.
SelectUnchanged(c, w) ==
  LET me   == worker[c][w]
      rows == RowsToExtend(Range(me.item[1]), Range(me.item[2]), up[c].prev)
      hs   == [i \in 1..Cardinality(rows) |-> SetToSeq(rows)[i].hash]
  IN  /\ up[c].phase = "files" /\ me.pc = "select"
      /\ \E o \in {"ok", "fail"} :
           /\ Happens(o)
           /\ Set(c, w,
                IF o = "fail" THEN AfterAttempt(c, [me EXCEPT !.found = <<>>], TRUE)
                ELSE IF rows = {} THEN AfterAttempt(c, [me EXCEPT !.found = <<>>], FALSE)
                ELSE [me EXCEPT !.pc = "write", !.todo = Updates(rows, up[c].version, {}), !.found = hs])
      /\ UNCHANGED <<tables, up, clients, alive, crashes>>

\* The tables of authors that the INSERT of a's row may leave.  It is not waited for: where
\* statements can fail the row may be lost and nobody notices.
createAuthorIfNotExists(a) ==
  {authors \cup {a}} \cup IF MaxFaults = 0 THEN {} ELSE {authors}

\* The tables after statement s with outcome o.
Write(s, o) ==
  CASE s.op = "author" ->
         /\ byAuthor' = IF o = "fail" THEN byAuthor
                        ELSE byAuthor \cup {<<s.author, s.method.hash, s.method.file, s.version>>}
         /\ authors' \in createAuthorIfNotExists(s.author)
         /\ UNCHANGED <<methods, projects>>
    [] s.op = "insert" ->
         /\ methods' = IF o = "fail" THEN methods
                       ELSE Upsert([hash |-> s.method.hash, file |-> s.method.file, start |-> s.version,
                                    end |-> s.version, authors |-> s.authors])
         /\ UNCHANGED <<projects, byAuthor, authors>>
    [] s.op = "update" ->
         /\ methods' = IF o = "fail" THEN methods
                       ELSE Extended(<<s.method.hash, s.method.file, s.start>>, s.version, s.authors)
         /\ UNCHANGED <<projects, byAuthor, authors>>

\* The next statement of addNewMethod or updateMethod.
Execute(c, w) ==
  LET me == worker[c][w]
      s  == Head(me.todo)
  IN  /\ me.pc = "write"
      /\ \E o \in Outcome :
           LET e == Errno(s, me.errno, o)
           IN  /\ Happens(o)
               /\ Write(s, o)
               /\ Set(c, w, IF Len(me.todo) > 1 THEN [me EXCEPT !.todo = Tail(@), !.errno = e]
                            ELSE AfterAttempt(c, me, e))
      /\ UNCHANGED <<up, clients, alive, crashes>>

(***************************************************************************)
(* The specification                                                        *)
(***************************************************************************)
\* The process ends at any moment; docker starts it again.
Crash ==
  /\ alive /\ crashes < MaxCrashes
  /\ crashes' = crashes + 1
  /\ Stop

Restart ==
  /\ ~alive /\ alive' = TRUE
  /\ UNCHANGED <<tables, up, worker, clients, faults, crashes>>

Init ==
  /\ methods = {} /\ byAuthor = {} /\ authors = {}
  /\ projects = [v \in Version |-> None]
  /\ content = [v \in Version |-> None]
  /\ up = [c \in Conn |-> Idle]
  /\ worker = [c \in Conn |-> [w \in Worker |-> NoWorker]]
  /\ acked = {} /\ alive = TRUE /\ faults = 0 /\ crashes = 0

Handle(c) == \/ Check(c) \/ SearchPrevious(c) \/ ParseMethods(c)
             \/ AddProject(c) \/ AddHashes(c)
             \/ StartUpload(c) \/ JoinUpload(c) \/ JoinUnchanged(c)

Work(c, w) == TakeItem(c, w) \/ SelectMethod(c, w) \/ SelectUnchanged(c, w) \/ Execute(c, w)

Next == \/ \E c \in Conn : Receive(c) \/ Handle(c)
        \/ \E c \in Conn, w \in Worker : Work(c, w)
        \/ Crash \/ Restart

Spec == Init /\ [][Next]_vars

\* Threads are scheduled and statements end; requests come as they like.
FairSpec == /\ Spec
            /\ \A c \in Conn : WF_vars(Handle(c))
            /\ \A c \in Conn, w \in Worker : WF_vars(Work(c, w))
=============================================================================
