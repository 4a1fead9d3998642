-------------------------- MODULE UploadProperties --------------------------
(***************************************************************************)
(* What the tables of the projects have to say after uploads.               *)
(***************************************************************************)
EXTENDS ProjectUpload

Row == [hash : Hash, file : File, start : Version, end : Version, authors : SUBSET Author]

\* The types of the tables and locals; queryWithRetry counts no more than
\* MAX_RETRIES failed attempts before the one that gives up.
TypeOK ==
  /\ methods \subseteq Row
  /\ projects \in [Version -> (SUBSET Hash) \cup {None}]
  /\ byAuthor \subseteq Author \X Hash \X File \X Version
  /\ authors \subseteq Author
  /\ content \in [Version -> (SUBSET Method) \cup {None}]
  /\ acked \subseteq Version
  /\ alive \in BOOLEAN /\ faults \in 0..MaxFaults /\ crashes \in 0..MaxCrashes
  /\ \A c \in Conn :
       /\ up[c].phase \in {"idle", "check", "search", "parse", "insert", "extend", "start",
                           "methods", "files", "unchanged"}
       /\ up[c].tries \in 0..MAX_RETRIES
       /\ \A w \in Worker : /\ worker[c][w].pc \in {"idle", "take", "select", "write", "ended"}
                            /\ worker[c][w].tries \in 0..MAX_RETRIES

\* The methods the table has for version v.
MethodsOf(v) == {AsMethod(r) : r \in {q \in methods : q.start <= v /\ v <= q.end}}

HashesOf(c) == {m.hash : m \in c}

\* A version whose upload was replied to with "Your project has been successfully
\* added to the database." (DatabaseRequestHandlerProject.cpp:134) is in the
\* database: its methods are exactly the ones it holds, and its project row has
\* exactly their hashes.
UploadComplete ==
  \A v \in acked : MethodsOf(v) = content[v] /\ projects[v] = HashesOf(content[v])

Undisturbed == faults = 0 /\ crashes = 0

\* ... which it is when no statement fails and the process lives, whatever the
\* versions hold, whichever files are unchanged and however the workers interleave.
CompleteIfUndisturbed == Undisturbed => UploadComplete

\* A method of a file is in at most one row for any version as long as no statement
\* fails: addMethod extends the row that ends at the previous version or makes a new
\* one, never both (DatabaseHandlerSet.cpp:166-171, 188-192).
RangesDisjoint ==
  faults = 0 =>
    \A r, q \in methods :
      AsMethod(r) = AsMethod(q) /\ r.start <= q.start /\ q.start <= r.end => r.start = q.start

\* Whatever fails, is retried or is cut off by the end of the process, a row
\* never speaks of a version that does not hold the method: its first and its
\* last version do, and so does every version in between that was uploaded.
RowsHonest ==
  \A r \in methods :
    /\ r.start <= r.end
    /\ \A v \in {r.start, r.end} \cup (acked \cap r.start..r.end) :
         content[v] # None /\ AsMethod(r) \in content[v]

\* A project row never has a hash its version does not hold, and a request that
\* did not parse leaves no row ("Only upload if project and all methods are valid
\* to prevent partial uploads.", DatabaseRequestHandlerProject.cpp:123).
HashesHonest ==
  \A v \in Version : projects[v] # None =>
    content[v] # None /\ projects[v] \subseteq HashesOf(content[v])

\* The project row a method row ends at exists, whatever failed: getMethod looks
\* its license up there, and a row without one makes a check request lose all
\* methods its worker found (DatabaseHandlerGet.cpp:301, DatabaseRequestHandlerMethod.cpp:223).
RowsHaveProject == \A r \in methods : projects[r.start] # None /\ projects[r.end] # None

\* As long as no statement fails, the end of the process included, an author of a
\* method is related to it in method_by_author before the row names the author
\* (addNewMethod and updateMethod).
AuthorsIndexed ==
  faults = 0 =>
    \A r \in methods : \A a \in r.authors :
      \E e \in byAuthor :
        e[1] = a /\ e[2] = r.hash /\ e[3] = r.file /\ r.start <= e[4] /\ e[4] <= r.end

\* The handler is about to leave handleUploadThreads with errno set and joinable
\* threads, whose destructor ends the process (DatabaseRequestHandlerProject.cpp:155-158).
Terminating(c) == up[c].phase = "start" /\ up[c].errno

\* Every upload is replied to by the process that received it, the workers drain their
\* queue and are joined, unless that process ends.  It ends in two ways, and no other:
\* by a crash, or by std::terminate in a handler whose statements kept failing.  The end
\* of the process is no reply.
RepliedUnlessProcessEnds ==
  \A c \in Conn :
    up[c].phase # "idle" ~> \/ alive /\ up[c].phase = "idle"
                            \/ ~alive /\ crashes > 0
                            \/ \E d \in Conn : Terminating(d)
=============================================================================
