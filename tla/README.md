# SearchSECO Database API: a TLA+ verification project

The Database API is a C++ server in front of a Cassandra database. Clients (spiders, crawlers,
uploaders) send it requests over TCP; several nodes form a network in which one leader distributes
the jobs and the others forward job requests to it. This directory holds TLA+ models of the server,
TLC configurations that check them on small instances, and TLAPS proofs that hold for every instance.

Paths below are relative to `src/SearchSECODatabaseAPI/`.

## Inventory

| Component | State | Operations | Interacts with | What makes it correct |
|---|---|---|---|---|
| Job requests (`JobDistribution/JobRequestHandler.cpp`) | `jobmtx`, `timeLastCrawl`, `crawlID` | get, update, finish, upload job; crawl data | job database, consensus, statistics | no job handed out twice, lost, or retried for ever; a lease is only ended by its holder; one crawler at a time |
| Job database (`JobDistribution/DatabaseConnection.cpp`) | tables `jobsqueue`, `currentjobs`, `failedjobs`, `variables`; `numberOfJobs`, `timeLastRecount` | one function per query; `updateCurrentJobs` sweeps overdue leases in a thread of its own | Cassandra | the count agrees with the table; overdue leases return to the queue |
| Retries (`Utility::queryWithRetry`) | attempts | repeat a function until it reports no error | every query | repeating what already happened does no harm |
| Consensus (`JobDistribution/RAFTConsensus.cpp`, `Networking.cpp`) | `leader`, `others`, `nonLeaderNodes`, `nodeConnectionChange` | connect, redirect, heartbeat, drop, forward a request | all nodes | one leader; a node that starts ends up serving; followers know each other and nobody else; a forwarded request is answered as long as its process lives |
| TCP server (`General/ConnectionHandler.cpp`) and dispatch (`General/RequestHandler.cpp`) | sockets | read one framed request, dispatch, reply | all handlers; one detached thread per connection | a request is handled once, with exactly its own data, and answered |
| Project, method and author requests (`Database-API/DatabaseRequestHandler*.cpp`) | a queue of work per request, shared by up to 16 threads | upload, check, extract | project database | an upload reported as successful is complete; queries return an answer for every item |
| Project database (`Database-API/DatabaseHandler*.cpp`) | tables of projects, methods, authors | inserts and selects | Cassandra | rows speak only of versions that hold the method; version ranges do not overlap |
| Statistics (`General/Statistics.cpp`) | counters, recent lists, flag `newRequest` | add, synchronise to file | all handlers | the file is never ahead of the counters; a change is eventually written; recent lists show the latest entries |
| Parsing and formatting (`General/Utility.cpp`, `HTTPStatus.cpp`) | none | pure functions | all | what is put together comes apart again; nothing is left out at a border |

Hard to test here: every connection has its own thread and the only lock in the job distribution is
`jobmtx` in one handler; each function consists of several queries that are not a transaction; a query that
reports an error may have taken effect; the process is restarted by Docker in the middle of anything;
the sweep works on rows it read earlier; error codes travel in the thread-local `errno`. `PROJECT.json`
lists these hazards one by one with the properties that address them.

## Modules

| Module | Content |
|---|---|
| `JobQueue` | the job distribution of the leader: state, one action per query, `Spec` and `FairSpec` |
| `JobQueueProperties` | its type invariant, safety, action and liveness properties |
| `RaftMembership` | how nodes find a leader, register, exchange heartbeats, drop connections, forward requests, crash and restart |
| `RaftProperties` | its properties |
| `TwoLeaders` | composition: two instances of `JobQueue`, each with its own memory, on the same tables |
| `ProjectUpload` | `upld` and `chup`: project row, methods by workers, unchanged files by workers, statement by statement |
| `UploadProperties` | its properties |
| `ParallelLookup` | abstract specification of a request that looks up a list of keys |
| `QueryPool` | `chck`, `extp`, `gppr`, `idau` and `aume` with their workers and retries; implements `ParallelLookup` |
| `RequestFraming` | one TCP connection: header, data in pieces, dispatch, reply |
| `StatisticsSync` | the counters, the flag `newRequest`, the thread that writes the file, crashes and restarts |
| `RecentLists` | the queues of recent projects and vulnerabilities over the gauges of Prometheus |
| `TextFormat` | the pure functions of `Utility`, `HTTPStatus` and the chunking of uploads, against reference definitions |
| `Chunks` | what `toChunks` and `cartesianProductQueue` return, as `ProjectUpload` uses it |
| `MCJobQueue`, `MCRaft`, `MCUpload`, `MCTwoLeaders`, `MCParts` | instances for TLC; the `.cfg` files give the constants |
| `JobQueueProofs` | types of the job distribution, lemmas about its operators, and the crawl time-out with one connection |
| `JobFlowProofs` | a job on its way through the tables: handed out once, kept unless overtaken, a bounded number of retries, each with a record |
| `TwoLeadersProofs` | what two leaders on the same tables keep of a job, and that they bound its retries |
| `RaftProofs` | types of the consensus, that there is one leader, and what followers are told |
| `UploadProofs` | what uploads may put into the tables, and that nothing is left out |
| `QueryPoolProofs` | `QueryPool` implements `ParallelLookup` |
| `PartsProofs` | the other parts: framing, statistics, recent lists, texts, and the types of all five |
| `SequenceLemmas` | facts about sequences that the provers do not know |

### How JobQueue corresponds to the code

*Processes.* A member of `Thread` is a connection thread (`TcpServer::handleAccept`), which serves requests
one after the other; a member of `Sweeper` is the thread of `updateCurrentJobs`. A step is one Cassandra query together
with the code up to the next query, or a stretch of code that touches memory other threads touch. `pc[t]` names
what comes next:

| Code | Places of `pc` |
|---|---|
| `handleGetJobRequest` | `lock`, `countFree` or `countBusy`, `countAgain` (the second call of `getNumberOfJobs`) |
| `getTopJob` | `top` (SELECT), `addCur` (INSERT), `delTop` (DELETE) |
| `handleUpdateJobRequest` | `time`, `getCur`, `delCur`, `putCur` |
| `handleFinishJobRequest` | `time`, `getCur`, `delCur`, `addFail`, `upload` |
| `handleUploadJobRequest` | `next`, `upload` |
| `uploadJob` | `upload`, then INSERT and `numberOfJobs++` in either order (`insert`, `bump`, `bumpErr`) |
| `handleCrawlDataRequest` | `check`, `setCrawl` (`timeLastCrawl`), `newCrawl` (`crawlID`), `storeCrawl`, `next`, `upload` |
| `updateCurrentJobs` | `sleep`, `clock`, `sweep`, `swDel`, `upload` |

*Tables.* Sets of records, with the primary keys of the schema: `jobsqueue` by priority and job id,
`currentjobs` by job id, `failedjobs` by job id and time. URLs, reasons' texts and the statistics calls are left
out.

*Failures.* A query ends `"ok"`, `"lost"` (error, no effect) or `"late"` (error, but it took effect).
`AfterQuery` is `queryWithRetry`: a failed attempt starts the wrapped function over, with the rows that an
earlier attempt wrote. Where the code does not check `errno` the model goes on as the code does.

*Undefined values.* A default-constructed `Job` has uninitialised integers, and `numberOfJobs` has no
initial value; both are any member of `JunkInts`. An empty job id bound as a uuid is any uuid. `numberOfJobs` is
changed by several threads without a lock: `AddToNumberOfJobs` may lose an update when another thread is
about to change it. `getTopJob` on an empty table reads columns of a null row: the process dies
(`SelectFromEmptyQueue`) and is restarted.

*Crashes.* `Restart` keeps the tables and resets the rest, as the constructor of `JobRequestHandler` does,
including the case that its queries fail.

*History variables.* `used`, `finished`, `credit`, `overtaken`, `crashed` and `undef` are never read by an action; they serve the
properties. `overtaken` has the jobs that were put back in the queue while a `getTopJob` had copied them to `currentjobs` and was about to
delete them (`Leaving`); `finished` has the jobs that succeeded or were given up with no retry left (`Over`). `leases`, `issued` and `crawlers` are what clients know: a client may send any lease or crawl
identifier it was ever told, late or twice, never one it made up.

*Abstractions.* One clock stands for seconds and milliseconds. The COUNT of `getNumberOfJobs` and its assignment are
one step. Cassandra is one consistent store: a read with `LOCAL_ONE` that misses a write is not modelled.
`connectWithRetry` is assumed to succeed in the end. Requests that fail to parse change nothing and are left out,
except crawl data whose job lines are malformed, because the crawl is closed before they are looked at.

### How RaftMembership corresponds to the code

A node is a process of the server. `role` is `"starting"` inside `connectToLeader`, else what `isLeader()` says.
`startListen` opens the port before `start` runs, so a node accepts connections while it is starting and answers
them later (`backlog`, `Listening`).

| Code | Actions |
|---|---|
| `connectToLeader`, `tryConnectingWithIp`, `handleInitialData` | `Dial`, `Refused`, `ReadReply` (joined, redirected, or told to repeat), `AssumeLeadership` |
| `connectNewNode` | `Register` (under `mtx`) or `Redirect`, then `WriteReply` |
| `heartbeatSender`, `getHeartbeat`, `dropConnection` | `TakeHeartbeat` and `BeginSend` (two stretches under `mtx`), `SendNext` per connection |
| `listenForHeartbeat`, `handleHeartbeat`, `receiveData` | `ReadHeartbeat`, `ReadPastEnd`, `ReadEof` |
| `passRequestToLeader` | `PassRequest`, `PassAnswer`, `PassEof` |
| `updateCrawlID` | `CrawlDone` |

Messages are sequences of fields. With `MaxRead = 2` one read may return two messages glued together, as `receiveData`
does when the second arrives before the first was read. `ReadEof`: when the leader's connection is closed `receiveData` catches
its own exception and indexes an empty vector, and the process ends. Hence the branch of `listenForHeartbeat` that takes over
is not reachable, and not modelled. `forward` of a node is `"answered"` once `passRequestToLeader` returned, with the answer or, when the connection was refused or
closed while the process lives, with nothing; the end of the process is no answer.

### How ProjectUpload corresponds to the code

One project with versions `1..MaxVersion`. `content[v]` is what version `v` really holds; the tables are what the server
stored. Every action is at most one statement, whose outcome is `"ok"`, `"fail"` or `"late"`.

| Code | Actions |
|---|---|
| `handleUploadRequest`, `handleCheckUploadRequest` | `Receive`, `Check`, `SearchPrevious`, `ParseMethods` |
| `addProject`, `addHashToProject`, `tryUploadProjectWithRetry` | `AddProject`, `AddHashes`, `AfterAddProject` |
| `handleUploadThreads`, `singleUploadThread` | `StartUpload`, `TakeItem`, `SelectMethod`, `Execute`, `JoinUpload` |
| `handleUpdateUnchangedFilesThreads` and its worker | `TakeItem`, `SelectUnchanged`, `Execute`, `JoinUnchanged` |
| `addMethod`, `addNewMethod`, `updateMethod`, `addMethodByAuthor` | `SelectMethod` and the lists of statements `Group` makes for `Execute` |

`errno` belongs to a thread, so the handler never sees a worker's. `Clients` says what the clients of an instance do beyond sending
correct versions in order: send malformed data (`"bad"`), check first (`"check"`), have authors (`"authors"`), send a version
again (`"repeat"`), name an outdated previous version (`"stale"`), send a method twice (`"twins"`).

### How the other modules correspond to the code

* `QueryPool`: `Receive` parses the keys and starts the workers, `TakeItem` is the stretch under `queueLock`, `Query` one attempt inside
  `queryWithRetry`, `Join` the joined vectors and the reply. The handlers differ in what a worker does after a
  failure (`Ends`, `Collected`), and `singlePrevProjectThread` looks at one item only.
* `TwoLeaders`: `RaftMembership` shows under which `SEEDS` two nodes lead at once. Each then has its own `jobmtx`, count, crawl and
  sweeper (`memoryA`, `memoryB`), and `A!Next` and `B!Next` share the tables. The instances are taken of `JobFlowProofs`, which extends `JobQueue`,
  so that its lemmas hold of each leader.
* `RequestFraming`: bytes are numbers, so that their order is visible. `ReadHeader` is `read_until` with the data that came along,
  `ReadSome` one turn of `readExpectedData`, whose buffer keeps its first size.
* `StatisticsSync`: `Collect` reads one family at a time while connections go on counting, `Open` empties the file, `WriteLine` fills it,
  `Clear` resets the flag. When the file cannot be opened `writeToFile` returns and the flag is cleared all the same (`"unopened"`). Two families stand for all: the one that every request counts in, and one that some do.
* `RecentLists`: the queues hold addresses of gauges, which a family owns and may reuse for other labels, the one just removed included (`Free`). `Others` is the loop that
  builds `newQueue` from the old one.
* `TextFormat`: characters are one-letter strings; a behaviour picks an input and computes. The loops of `splitStringOn` and `toChunks` are recursive functions
  (`Getlines`, `Chunked`) of what is read so far; nested loops that only append are a `FlattenSeq`.

## Runs

| Run | Module | Instance | Shows |
|---|---|---|---|
| `race` | `MCJobQueue` | 2 threads, sweeper, get/update/finish; 4 requests without faults, 3 with up to 2 (lost or late queries, restarts) | `TypeOK`, `NoJobVanishes`, `HandoutsPaidFor`, `RetriesBounded`, `RetryHasFailureRecord` |
| `live` | `MCJobQueue` | 2 threads, sweeper, get/update, 2 requests, 2 faults, fairness | `JobmtxReleased`, `ExpiredLeaseSwept` |
| `sequential` | `MCJobQueue` | 1 thread, no sweeper, all five requests, 3 jobs, 5 requests | `TopJobProvidable`, `CountMatchesQueue`, `CrawlIDStored`, `CrawlOnlyWhenNoneWorking` |
| `mesh` | `MCRaft` | 3 nodes that name each other, 1 crash, 1 restart, glued reads | `TypeOK`, `AtMostOneLeader` |
| `join` | `MCRaft` | 3 nodes that name the earlier ones, 1 crash, 1 restart, 1 heartbeat, 1 forwarded request, fairness | `NoLiveNodeForgotten`, `NoGhostNodes`, `StartCompletes`, `PassEndsOrDies` |
| `versions` | `MCUpload` | 3 versions of up to 4 methods, 2 workers, one hash per statement | `CompleteIfUndisturbed`, `RangesDisjoint` |
| `failures` | `MCUpload` | 2 versions, 2 workers, an author, 2 faults, a crash, malformed requests, checks, fairness | `TypeOK`, `RowsHonest`, `HashesHonest`, `RowsHaveProject`, `AuthorsIndexed`, `RepliedUnlessProcessEnds` |
| `parts` | `MCParts` | each of the five parts without shared state by itself, fairness of its own | see below |
| `keep` | `MCTwoLeaders` | two leaders with a thread and a sweeper each on one job | `NoJobLost`, `RetriesStillBounded` |
| `topjob` | `MCJobQueue` | 2 threads | `TopJobProvidable` is violated |
| `leaderlost` | `MCRaft` | 2 nodes, 1 crash | `LeaderLossSurvived` is violated |
| `partial` | `MCUpload` | 1 method, 2 faults | `UploadComplete` is violated |

`parts` is the sum of five specifications: `part` chooses one, and the variables of the others stay as they are, so the run has as many
states as five runs would. It checks `PartsTypeOK`; of `QueryPool` `ImplementsLookup` (the refinement of `ParallelLookup`) and
`EveryRequestReplied`; of `RequestFraming` `DataAsSent` and `EveryRequestAnswered`; of `StatisticsSync` `FileNeverAhead` and
`FlaggedIsWritten`; of `RecentLists` `GaugesTracked` and `VulnsAreLatest`; of `TextFormat` `SplitIsPieces`, `ChunksAndPairs` and `RoundTrips`.

What the violations show:

* `topjob`: `uploadJob` increments `numberOfJobs` when the INSERT is sent. A hand-out that comes before the row sees a
  job that is not there, and `getTopJob` dereferences the row of an empty result.
* `leaderlost`: the leader ends, its follower reads nothing from the closed connection, and the follower's process ends too,
  before the code that would choose a new leader.
* `partial`: a worker's last attempt fails, its `errno` is not the handler's, and the upload is answered with success.

The properties of `sequential` hold when nothing runs concurrently and no query fails. They are about sequences of requests: the count beside the table over uploads,
retries and hand-outs, the crawl that times out and whose data comes late. They say nothing of races: with a second connection `TopJobProvidable` is violated (`topjob`), and
`CountMatchesQueue` and `CrawlOnlyWhenNoneWorking` as well (next section).

What the conditions in the properties leave out, because the code does not give it:

* `NoJobVanishes`, `NoJobLost`: `used \ overtaken` and `used \ (overtaken \cup crossed)`. A job put back in the queue between the INSERT and the DELETE of a `getTopJob` that hands it out is lost
  (next section). A record in `failedjobs` does not count as keeping a job: a job is kept by a row, by whoever will put it back, or is `finished`.
* `PassEndsOrDies`, `RepliedUnlessProcessEnds`: a client whose server process ends is not answered, by `leaderlost` or by `std::terminate` (`Terminating`). The properties name the end of the process as a case of its own.
* `FlaggedIsWritten`: a count that its pass has already collected past (`YetToCollect`), and a file that cannot be opened.

### Further disagreements

These were met while the models were built, by checking a property without the condition it now has, or under other
constants. They are limits of the passing properties; a reader can see each again by the change in brackets.

* Job distribution: `getTopJob` loses a retry [`NoJobVanishes` over `used` instead of `used \ overtaken`]. TLC's trace has one leader, no failed query and no crash: a connection selects
  the row of a job and copies it to `currentjobs`; the sweep, whose clock has moved on, reads that lease as overdue, records the failure, deletes the lease and puts the job back in
  `jobsqueue` for its retry, under the same priority and id; the connection's `deleteTopJob` deletes that row. The job is in neither table, and nobody will put it back. The clock need not have moved on so far: a sweep that read an
  earlier, overdue lease of the job deletes the new one by its id just as well. No comment of the code promises the contrary, so no run is kept for it.
* With two threads `numberOfJobs` parts from the table [`CountMatchesQueue`]. A finish request takes a lease that was given out after its time was checked. Crawl data of an old crawl clears `timeLastCrawl` of the crawl handed out meanwhile [`CrawlOnlyWhenNoneWorking` with two
  threads]. The sweep deletes by job id a lease that was renewed after the sweep read it. After a DELETE in `getCurrentJob` that took effect but
  reported an error, an update stores an uninitialised `Job` and tells the worker a time its job does not have.
* Consensus: two nodes that name each other and start together wait for each other's answer [`StartCompletes` with `Mesh`]. With
  `SEEDS` that do not name every node a crashed leader comes back beside its successor [`AtMostOneLeader` with `Chain` and a restart]. A node that joins
  again before the leader noticed its end is erased from all lists [`NoLiveNodeForgotten` without `restarts = 0`]. A reply and a heartbeat read
  together put an address into the lists that is none [`NoLiveNodeForgotten` with `MaxRead = 2`]. After a swap in `dropConnection` followers have the list in different orders.
* Two leaders hand out the same row of `jobsqueue`, since each locks its own mutex, and the one loses what the other put back as above [`NoJobLost` over `used \ overtaken`].
* Lookups: with more projects than `MAX_THREADS` a `gppr` request leaves projects out, since each of its workers looks at one item. `ParallelLookup` promises all answers only to
  requests that are `Whole` [`ImplementsLookup` with `Whole` true of every request]. A failed query in a worker is answered with 200 and the remaining results;
  `ParallelLookup` allows it.
* Uploads [`UploadComplete`, `RangesDisjoint` with the `Clients` or faults named]: a version sent again loses the hashes of its unchanged files (`"repeat"`); with an
  outdated previous version, or two overlapping uploads, methods of unchanged files are not found (`"stale"`, two members of `Conn`); a method twice in a file, or an UPDATE
  that took effect and is retried, gives two rows for one version (`"twins"`, a fault). Extending a row relates its author to a start version no row has. The INSERT
  of an author is never looked at. When a statement with further hashes fails for good, `handleUploadThreads` returns past a joinable thread and the process ends (`StartUpload`, `Stop`):
  its client is never replied to [`RepliedUnlessProcessEnds` without `Terminating`].
* Statistics: the flag set during a write is cleared after it, so that the counts wait for the next request, and so is the flag of a pass whose file could not be opened; a crash between
  opening and writing the file loses the counts; a project received twice is in the queue twice and leaves the display early; after a restart the
  queue has the order of the file [`VulnsAreLatest` without `restarts = 0`].
* Framing: a request whose last read holds more than declared is answered with an error and then handled, with a second answer.

### Bounds

Two threads and a sweeper are enough for every pair of places to meet, and the races need at most two handlers and
the sweep. One job in the queue makes every thread fight over the same job. Four requests allow a hand-out, an update, a finish and a
second hand-out; `FewFaults` leaves the fourth to behaviours without faults. Time up to 1 or 2 with timeout 0 allows a lease to
expire and be swept. `MAX_RETRIES` is 1 where faults occur (3 in the code; each retry is alike), so two faults make an
operation give up, as `live` needs for the way out of `handleGetJobRequest` where `getTopJob` failed for good. `MIN_AMOUNT_JOBS` is 1 or 2 (500 in the code) so that both sides of the test occur. Uploads draw from `Uuid`, so a finite `Uuid` also ends uploads.

Three nodes give a leader, a follower and one that joins, and a redirect through a follower. `FewHeartbeats` allows the second heartbeat,
which only a glued read needs, while two nodes are up; `PlainRestarts` leaves restarts out of behaviours with a forwarded request or a
crawl, on which the lists do not depend. Three versions are needed for a row to be extended twice or to end before the previous version;
`HASHES_INSERT_MAX = 1` makes every further hash a statement of its own. In `parts` a request has up to three keys for two workers, so that workers come back for more and a
`gppr` leaves a project out; a body up to
five bytes against a length up to four is cut in every way, and lists of up to two entries (`RecentMax = 1`) meet three labels and five addresses.

Deadlock is not checked where the system may stop because its bounds are used up: no more requests, versions, restarts or inputs.

### Fairness

`FairSpec` assumes weak fairness of each handler, worker and background thread: the operating system runs every thread that can
run, and a query comes back with some outcome. In `RaftMembership` it is per thread of a node that is up; nodes start and crash as they
like. In `RequestFraming` a client sends what it has but need not close. Clients are not assumed to send anything else and the clock need not
advance. `jobmtx` needs no strong fairness for these properties: they are about the holder, not about who waits.

## Proofs

Every theorem holds for all sets of jobs, threads, sweepers, nodes, connections, workers, methods and labels, for any number of faults, retries, crashes,
restarts and requests, and for any value of the limits, under the named assumptions of the modules and the hypotheses given below. TLC evaluates
the named assumptions in every run. They say that the members of different kinds differ (`IdAssumption`, `ThreadAssumption`, `NodeAssumption`,
`LeadersAssumption`, `UploadSets`, `NoneAssumption`, `ConnectionAssumption`), that limits and bounds are naturals (`LimitAssumption`, `BoundAssumption`, `UploadBounds`, `RaftBounds`,
`PoolBounds`, `PartsAssumption`) and that `Uuid`, `Worker`, `Conn`, `Label`, `Hash`, `File` and `Author` are finite where rows are counted or a set is listed as a
sequence. `EachAssumption` states the assumptions of `JobQueue` for each of the two leaders.

| Theorem | States | Hypotheses |
|---|---|---|
| `TypeCorrect` | `TypeOK` of `JobQueue` | |
| `HandoutsOnce` | `HandoutsPaidFor` | |
| `JobsNeverVanish` | `NoJobVanishes` | |
| `RetriesAlwaysBounded` | `RetriesBounded` | |
| `RetriesAlwaysRecorded` | `RetryHasFailureRecord` | |
| `JobsKeptByTwo`, `RetriesBoundedForTwo` | `NoJobLost`, `RetriesStillBounded` of `TwoLeaders` | |
| `NoCrawlWhileCrawling` | `CrawlOnlyWhenNoneWorking`, an action property | `OneAtATime` |
| `RaftTypes` | `TypeOK` of `RaftMembership` | |
| `OneLeader` | `AtMostOneLeader` | `CompleteSeeds` |
| `NoGhosts`, `NobodyForgotten` | `NoGhostNodes`, `NoLiveNodeForgotten` | `MaxRead = 1` |
| `UploadTypes`, `ProjectRowsHonest`, `RowsAlwaysHaveProject` | `TypeOK` of `ProjectUpload`, `HashesHonest`, `RowsHaveProject` | |
| `AuthorsAlwaysIndexed` | `AuthorsIndexed` | `OneUploader` |
| `RowsAlwaysHonest` | `RowsHonest` | `OneUploader`, `Orderly` |
| `UploadsAlwaysComplete` | `CompleteIfUndisturbed` | `OneUploader`, `Orderly` |
| `RangesAlwaysDisjoint` | `RangesDisjoint` | `OneUploader`, `Orderly`, `"twins" \notin Clients` |
| `PoolTypeCorrect` | `TypeOK` of `QueryPool` | |
| `PoolImplementsLookup` | `ImplementsLookup`: `QueryPool` implements `ParallelLookup` | |
| `DataAlwaysAsSent` | `DataAsSent` | |
| `FileAlwaysBehind` | `FileNeverAhead` | |
| `GaugesAlwaysTracked`, `VulnsAlwaysLatest` | `GaugesTracked`, `VulnsAreLatest` | |
| `SplitsIntoPieces` | `SplitIsPieces` | |
| `LoopsAreChunksAndPairs` | `ChunksAndPairs` | |
| `EverythingRoundTrips` | `RoundTrips` | |
| `PartsAlwaysTyped` | `PartsTypeOK` of the sum of the five parts | |

Several of these properties are conditional themselves: no job vanishes *while the database answers and the process lives*, *unless it was overtaken*, and so on. The conditions are
part of the property that the runs check, and the table adds none to them.

### Why the hypotheses are there

* `OneAtATime`: one connection thread at most, and no sweep. With a second connection crawl data of an old crawl is compared before and clears `timeLastCrawl` after the next crawl was handed out
  [`CrawlOnlyWhenNoneWorking` with two threads]. Failed and late queries and restarts are in.
* `CompleteSeeds`: `SEEDS` of a node names every other node. Without it two leaders are possible, which is what `TwoLeaders` starts from. The crashed leader that comes back beside its successor is an instance.
* `OneUploader`: one connection uploads to the project at a time; its workers still interleave. Of two uploads that extend the same row the later UPDATE may set the older
  version, so that the row ends before the version its author is related by [`AuthorsIndexed`], and an upload of version 3 whose previous version is 1 spans version 2, uploaded meanwhile without the
  method [`RowsHonest`; both with two members of `Conn` and three versions].
* `Orderly`: no client sends a version twice or names an outdated previous version. Such a client ends a row at a version that lacks the method, and with an outdated previous version
  the methods of unchanged files are not found [`CompleteIfUndisturbed`, `RangesDisjoint`, with the `Clients` named under *Further disagreements*].
* `"twins" \notin Clients`: no version has a method twice in a file. Otherwise one worker extends the row, and the other no longer finds it and inserts a second one.
* `MaxRead = 1`: every call of `receiveData` returns one message. Of two messages read as one, the field between them is an address that no node has, and the changes behind it are read out
  of step, so that a list keeps or loses a node for good. No other hypothesis on the network is needed: crashes, restarts, redirects and dropped connections are all in.

### The invariants

*Job distribution.* `TypeInv` is `TypeOK` and `LocalsOK`, which says where the job id in a thread's hands is a real one; elsewhere it may be the empty id of
an uninitialised `Job`.

* `HandoutInv`: a hand-out is paid for by the row it deletes, so the row must be there when `deleteTopJob` runs. `Exclusive` (a thread between lock and unlock holds `jobmtx`)
  and `Held` (the row it selected is still in the queue) say so.
* `LossInv(H, X)` says of every thread about to delete a row where else the job is: `HandoutKept` (before the DELETE from `jobsqueue` the job is in `currentjobs`, finished, or in the hands of whoever took it
  from there), `TakenIsAsked` (the row a handler deletes from `currentjobs` is that of the job it was asked about). A job that is put back in that place leaves what kept it, and is overtaken: `LossInsert` shows that this is the only way
  `HandoutKept` ends. `H` are the jobs that somebody outside this process has in hand, `X` those he put back while this process was about to delete them: none for `JobsNeverVanish`, the other leader's and `crossed` for `JobsKeptByTwo`.
  `Saved` is what a step owes to the other process: it takes a job from where it is kept only to keep it elsewhere or to put it back. `NewIsNobody`: a job uploaded for the first time has no id before its INSERT, so what is put back is never mistaken for it.
* `RetryInv` bounds the retries of every copy of a job: in the tables, in the threads' hands, in the rows a sweep has read. `RecordInv` says of the same copies that
  a job on a retry has a record in `failedjobs`, also the copy whose row another thread deletes meanwhile.
* `LeadersInv`: the invariants of both leaders, each counting what the other has in its hands. `TwoLeaders` takes `JobQueue` through its proofs (`A == INSTANCE JobFlowProofs WITH ...`),
  so that every lemma about a step holds of each leader; what is new is that a step of one disturbs nothing the other's invariant says (`memoryB` stays, `Saved`).
* `CrawlerInv`: a crawler at work was told to crawl at `timeLastCrawl`, or its time-out has passed; with one connection this stays true until the next hand-out.

*Consensus.* `RaftInv` rests on one idea: a node becomes leader only after every seed is in `ruledOut`, and two nodes that lead or may yet lead have not ruled out each other (`Exclusive`), because
whoever is up has opened its port before it dials. This would break if a node took something else for the address of a leader and went on from there: so the invariant also
says that nothing a waiting node may read looks like an address. Two heartbeats without changes that are read as one do, hence `Unmistakable`
and `NewsFirst`: whoever waits on a leader's list reads at most one such heartbeat before one with changes, since registering it is a change. `Search`, `Places` (a connection is in one backlog or on one
list), `Dialled` and `Beats` support these.

`GhostInv` is about what followers are told. A node on a leader's list has a *script* (`Script`): the list it starts from (its own, or that of the reply in its inbox, or of the reply not yet written) and the
messages in its inbox, to which the heartbeat being sent (`Unsent`) and the changes for the next one (`ToTell`) are added. An address stays on the list in the end (`Stays`) if the last change that names it adds it, or none
names it and it is there. `Ghostless`: only addresses the leader has a connection to stay. `Unforgetting`: all addresses of connections to running nodes do. By themselves these are not inductive, because of nodes that register later: their
reply has the leader's present list, but the heartbeat being sent and the changes reach them too; so both also say that what is to be told (`Gains`, `Remains`) agrees with the leader's list. `LinkInv` says that scripts are well-defined: a connection
is on one leader's list and gets one reply (`OneList`, `OneReply`), changes come in threes after a crawl ID (`Ids`), and no leader's message is an address (`Plain`). `FirstRun`: until a
node starts again, a connection a leader knows is open as long as its node runs, so that the connection `dropConnection` drops is never that of a running node. `networkhandler` is deleted only for an address, which is where `Plain` comes in.

*Uploads.* `UploadInv` (`Tables`, `Requests`, `Threads`, `Rows`, `HashesHonest`) says of every statement a worker has still to execute which method and version it is about, and that the
version's project row is written before any worker starts. `ListInv` adds that a statement list writes `method_by_author` before it names an author in a row, and that an update finds a row as
it was selected. `OrderInv`: the uploaded version is the newest, and none was stored since its previous one.

`RangesDisjoint` and `CompleteIfUndisturbed` need to know which rows a worker will find. `CalmInv`: while no statement failed, the statements a worker holds are what the
tables ask for (`Calm`, `Prepared`: an update has its row), and the methods of unchanged files are kept apart from those sent, with rows that reach the version only in the second round (`Split`).
`RangeInv` adds that no method is in two hands at once (`Separate`, `Apart`): what is sent differs, no row ends at the version before the workers start, and afterwards a method is in
the queue, in one worker's hands, or in a row. `CompleteInv` adds where each method of a version is while it is uploaded: sent or in an unchanged file (`Steady`), and from then on pending in
the queue or in a worker's hands, or spanned by a row (`Spread`); and how far the project row has got with the file hashes that the second round looks for (`Hashed`).

*Lookups.* `PoolInv`: each position of a request is in one place, in the queue, in one worker's hands, or answered (`OnePlace`); it belongs to the request (`OfRequest`); before a query failed for
good none is lost (`NothingLost`), and a worker ends only at an empty queue (`Drained`). `Receive`, `Join` and a final failure are the steps of `ParallelLookup`; all others are stutters.

*Other parts.* `FrameInv`: what is taken, what has arrived and what is still unsent are consecutive pieces of the body. `CountInv`: what was collected is not ahead of
the counters, and a process that is down holds nothing (`DownIsEmpty`). `GaugeInv`: the queue of a list holds the address of each gauge once. `VulnInv`: until a restart it has them in the order in which
they were received. `PartsInv` is the conjunction for the composition.

*Texts.* `TextInv` says no more than that a result is what `Compute` gives for the input; the work is in lemmas about the functions, which hold for any text, delimiter, list and chunk
size, not only for the inputs of the run. `SplitPieces` follows `getline`: after `i` characters the words read so far, each with a delimiter, and the word being read are the first `i` characters. `WordsUnique`
says that there is only one way to write a text as words without the delimiter, each followed by one, so that `SplitIsPieces` determines what `splitStringOn` returns, and taking apart what `appendBy` joined (`SplitJoined`) or
the code of a reply (`FirstPiece`) can give nothing else. `LoopIsChunks` and `ProductIsPairs` identify the loops of the uploads with the definitions in `Chunks` that `ProjectUpload` uses.

### How far the prover reaches

Facts about sequences that need an induction (`FlattenSeq`, `ToChunks`, the loop `Others`) are proved by least counterexample, in `SequenceLemmas` and next to their use: the set of positions where the claim fails has a
least element. This works where the recursive function is concrete. That a recursive function on `0..k` exists at all, as `Applied`, `Without` and `View` need, is itself shown by
least counterexample (`Recursion`), and what it computes by `LastChange`: whether an element is there after `k` changes depends on the last change that names it.
The induction theorems of the library take a predicate, which the provers cannot instantiate; `Upward` (over the naturals) and `SeqUpward` (over sequences, by appending) take a set instead, and a proof
gives them the set of what the claim holds for.

Only model-checked are the liveness properties `JobmtxReleased`, `ExpiredLeaseSwept`, `StartCompletes`, `PassEndsOrDies`, `RepliedUnlessProcessEnds`, `EveryRequestReplied`, `EveryRequestAnswered`, `FlaggedIsWritten`: they need fairness, which is out of
reach of the prover. `TopJobProvidable`, `CountMatchesQueue` and `CrawlIDStored` are only model-checked too: under the hypotheses they need, one connection and no failure, a proof would say no more
of the code than the run does. Every other property of the passing runs has a theorem.

## Plan

Worth adding: the replies of `gtip`, which show the order of a leader's connections and are not modelled.

## Not modelled

* `md5`: third-party code. `DatabaseUtility`, preparing statements and the start of the program: they only pass values on; their failures are the
  outcomes of queries, and what a start restores is part of `Restart`.
* The takeover branch of `listenForHeartbeat`: not reachable, since no exception reaches it. `getCurrentIPs` (`gtip`) and `listenForRequests`: they change no state the models have; the former
  reads `others` without `mtx`, the latter keeps a thread busy after its connection was closed.
* Data races on containers (the recent queues, `others` in `getCurrentIPs`): what they leave behind has no bounded set of outcomes. The race on the integer `numberOfJobs` is modelled.
* Reads with `LOCAL_ONE` that miss a write made with `QUORUM`: the tables are one copy; a model of replicas would be one of Cassandra.
* The INSERT of a project's owner, licences, and the texts of replies: no property tells them apart. `getExtension` and the clocks of `Utility`.

`PROJECT.json` gives the status of every component.
