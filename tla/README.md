# A TLA+ model of rso_voting

rso_voting is a distributed voting system. Votes are POSTed to a client service,
stored redundantly on several MongoDB hosts by a two-phase commit, counted
periodically by an aggregator that writes statistics into PostgreSQL, and shown
as charts by a web2py application. This directory holds the TLA+ model of the
system's own logic, the TLC configurations that check it on small instances, and
TLAPS proofs of what matters most for every instance.

## Inventory

| Component | State | Operations | Talks to |
|---|---|---|---|
| **rso-client** (`src/rso-2pc/rso-client`, Scala/Akka): `MainServlet`, `TwoPhaseCommitActor`, `CommitActor` | per POST: the pool of hosts not drawn yet, the actors that voted yes, the futures of the asks; per actor: connection, `listener`, mailbox | POST, draw hosts, vote, commit, roll back, answer | rso-server by TCP (JSON commands), its sender by HTTP |
| **rso-server** (`src/rso-2pc/rso-server`, Scala/Akka): `TcpServer`, `DbAgentActor` | per connection: `documentsToSave`, `txId`; the collection `votes` of the mongod beside it | accept, VOTE, COMMIT, ROLLBACK, the end of the connection | rso-client, mongod (asynchronous driver) |
| **common** `Messages2PC` | none | the command names | |
| **rso-aggregator** (`src/rso-aggregator`, Java): `RsoAggregator`, `MongoHandler`, `Statistics`, `PostgresHandler` | dictionaries and six statistics maps (in memory for the life of the process), connections | every 10 s: connect, read dictionaries, read all mongods, remove duplicates, count, upsert | every mongod, every PostgreSQL instance; a slave pings the master |
| **results web app** (`src/rso-web2py/applications/RSO`, Python/JS): `default.py`, `rso.js` | none on the server; in the page: what is displayed, `window.currentChart`, the lists of buttons, the spinner and its queue of animations | one query for each chart or list; clicks, ajax answers | PostgreSQL |
| **rocket** (`src/rso-web2py/gluon/rocket.py`), the HTTPS server web2py starts for it | `active_queue`, `monitor_queue`, the monitor's set of connections, each thread's connection | accept and handshake, read and answer, give back, watch, kill stale ones, stop | browsers; the application as a WSGI callable |
| **rso-voting-dns** (`DnsController.java`) | none | returns a client address | browser |
| **DataGenerator** (C#) | none | makes random votes and POSTs them | rso-client |
| database scripts, docker files | the schema of the results database | | |
| vendored: the rest of web2py and gluon, NuGet packages, `ConnectionHandler.java` (started by nothing but commented-out code) | | | |

What is hard in it:

* the two-phase commit: asks that time out while their answer is under way,
  several voting rounds, a rollback racing the insert it is to undo, one
  `listener` for the answers to different asks, TCP reads that are not messages,
  hosts and clients that die, transactions that share a collection;
* the aggregator: hosts that are down in one cycle and up in the next, votes read
  before their rollback, state that outlives a cycle, rows refused by the
  database, two aggregators writing the same tables;
* the web application: ajax answers out of order, two canvases and one
  `currentChart`, animations that are queued, reads between two upserts, labels and
  numbers collected separately;
* the web server: connections handed from thread to thread through two queues, a
  set and a queue that two threads look at and then take from, timeouts in the middle
  of a request, a stop that must end threads which wait for each other.

`PROJECT.json` ("hazards") lists these at their lines with the properties that cover
them.

## Modules

| Module | Models |
|---|---|
| `Messages2PC` | the commands, and the TCP connection between a `CommitActor` and its `DbAgentActor`: a FIFO each way, open, its client's end gone, or down |
| `DbAgent` | rso-server and mongod on every host: `DbAgentActor`, its `documentsToSave`, the running `insertMany` / `deleteMany`, the collection |
| `CommitActor` | the commit actors: creation, connection, mailbox, the future of the ask they serve |
| `TwoPhaseCommitActor` | the servlet and the coordinator's `Future`: one phase per `Await.result` |
| `TwoPhaseCommit` | the composition of the four, the ask timeouts, the faults, fairness, the properties and the refinement mapping |
| `RedundantStore` | the abstract promise: settle once on a set of hosts; documents come only there; once accepted, complete and for good |
| `TwoPhaseCommitInv` | the inductive invariant `IndInv`; on top of it the order of commands (`CommandOrder`) and the stages of a transaction where only votes fail (`NoRollback`) |
| `Statistics` | the six statistics maps of `Statistics.java`, the dictionaries, the keys a vote counts under, the foreign keys of the tables |
| `Aggregator` | the cycle of a master or slave: log file, connections, dictionaries, reading, counting, upserts; the outages |
| `VotingSystem` | `RedundantStore` and the aggregators together: from the POST to the tables of the results |
| `ResultTables` | the abstract promise of one PostgreSQL instance to its readers: rows the schema allows come and change, and never go |
| `ResultsView` | the handlers of `default.py`: from rows to slices, columns and labels |
| `ResultsPage` | one browser on the results page: clicks, requests, answers, charts, lists, spinner; it EXTENDS the two above |
| `Rocket` | the web server: listener, workers, monitor, the main thread that stops them, and their clients |
| `MCTwoPhaseCommit`, `MCVotingSystem`, `MCResultsPage`, `MCRocket` | symmetry sets, dictionaries, vote documents, small tables for TLC |
| `PeselAge` | `calcAgeFromPesel`: the age of a PESEL on a day, beside the age of its owner |
| `TwoPhaseCommitInv_proofs` | proofs: types and `IndInv` of the protocol; the next two rest on it |
| `TwoPhaseCommitStore_proofs`, `TwoPhaseCommitOrder_proofs` | proofs: what is stored, and the refinement; the order of commands, and that nothing is rolled back where only votes fail |
| `VotingSystem_proofs`, `Rocket_proofs`, `ResultsPage_proofs` | proofs about `VotingSystem`, `Rocket` and `ResultsPage` |
| `ResultsView_proofs`, `PeselAge_proofs` | proofs about the functions: slices and columns of any tables, the age of any PESEL |

### How the 2PC state corresponds to the code

* `http[t]`, `phase[t]`, `result[t]`: the POST as its sender sees it, the point
  the coordinator's `Future` has reached, and what it returned. The phases are the
  stretches between two `Await.result`s: everything the code does without waiting
  is one action.
* `pool[t]` is `potentialDbsIndicies`, `committing[t]` is `commitingActors`,
  `asked[t]` the hosts of the current round. A `CommitActor` is named by its
  transaction and host; `RoundInv` (below) shows that the code never makes two for
  one pair.
* `actor`, `mailbox`, `reply`: a `CommitActor`, the asks it has not handled, and
  the future of the latest ask. `listener` is not a variable: it is the ask handled
  last, so it belongs to the latest ask exactly when no ask waits in the mailbox.
* `agent`, `toSave`: a `DbAgentActor`, and whether `documentsToSave` is defined.
  `ins`, `inserted`, `del` are the asynchronous driver operations; `votes[h]` is
  the collection, a document being the pair of its `txId` and its index.
* `Connect` is one step on both sides. `Finish` is the `finally` branch: the actors
  stop and with them their connections; what was written before can still be read, and
  then the agent gets `ErrorClosed` (below).

### How the two halves meet

`TwoPhaseCommit` implements `RedundantStore` (run `partial`, theorem `Refinement`).
`VotingSystem` takes the store from `RedundantStore` alone, and an aggregator only
reads the collections. So the store of `VotingSystem` has every behaviour the
protocol can produce, faults included, and more (a document may be taken back and
come again, for instance), and what holds of `VotingSystem` holds of the whole.

The results side is joined in the same way: `VotingSystem` implements
`ResultTables` for each PostgreSQL instance (run `published`, theorem
`TablesImplemented`), and `ResultsPage` takes the tables it reads from
`ResultTables` alone. `Rocket` carries requests it does not look into; the page
takes any order of answers and any failure.

### How the aggregator's state corresponds to the code

* `pc[a]`: the point its one thread has reached in `init`, `prepareDB`, `process`.
  `logs[a]` counts the `FileHandler`s of the process; `MaxLogs` stands for the files
  the operating system lets it open.
* `known[a]`: which dictionaries have been downloaded; they and `stats[a]` (the six
  maps, one function from `<<table, key>>` to numbers, 0 for no entry) live as long
  as the process. `unread[a]` and `mapAllData[a]` belong to one `MongoHandler`, that
  is, to one cycle. Rows are known by their rowId, so `putAll` is a union.
* `conn[a]`: the PostgreSQL instances whose connection works. It is made once per
  cycle; `PostgresDown` breaks it. `todo[a]`, `left[a]`: the tables still to open and
  the rows of the open table still to write, one upsert and commit per step.
* `res[p]`: the `res_...` tables of instance `p`.
* `before`, `missed` are history: the votes accepted when the cycle began, and the
  instances it got nothing from.

Abstractions. A document has the age its PESEL gives, not a PESEL; `PeselAge` says how
that age comes about. A collection is
read in one step: an accepted document is there throughout, and only documents of
POSTs not accepted could be seen by halves. Connecting to all instances is one step
which may miss any of those up. `MONGO_HOSTS` are taken in any order. The other
dictionaries (sex, education, areas) are complete. Mongo clients and sockets are no
part of the state. `Tables` lets an instance of the model follow some of the six
tables only: the six `insertRes...` methods differ in name and key.

### How the page's state corresponds to the code

* A view `<<function, argument>>` is a function of `rso.js` and the id it is asked
  for. `reqs` holds the ajax requests under way with the answer each will bring
  (`Kinds`: data, nothing, a null dictionary, an error); the handler reads the tables
  at one moment (`Serve`), the page applies the answer at a later one (`Answer`).
* `charts`, `candidates`, `panel`, `canvases`: which elements are displayed;
  `drawn`, `live`: what each canvas shows and how many Chart objects are alive on it;
  `current`, `destroyed`: `window.currentChart`, which is never reset.
* `spinner`, `fx`: jQuery's `show` and `hide` act at once, `fadeIn` and `fadeOut`
  join its queue of effects; a `fadeOut` of something hidden does nothing.
* `asked`, `outcome`, `calm`, `hasty` are history: what the last click asked for, what
  the last answer brought, and whether the user waits for the page to come to rest.
* The four places where a handler turns rows into numbers are `Shares`,
  `RoundedShares`, `Labels` and `Columns`; `ORDER BY` is `Sorted`, the enumeration of a
  set that an order allows. Names, colours and texts are left out, as is
  the second number of `getFrequency` (500, the electorate, less the votes).

### How the web server's state corresponds to the code

* `job[w]`, `conn[w]`: whether a worker waits on `active_queue.get()`, serves
  `self.conn`, or has returned. `run_app` from the first byte read to the last sent is
  one step (`Answer`), since nobody else touches that connection meanwhile; what the
  application does is left out.
* An answer that the client does not take in time ends like a request that does not
  come: `_handleError` hands the connection to the monitor (`Yield`), the request read.
* `monitor` is the place `Monitor.run` has reached. Looking and taking are two steps
  wherever another thread takes from the same place: `empty` and `get` of the queue
  (`Drain`, `DrainGet`; `Collecting`, `Collect`), put back and `remove` (`Restore`,
  `RemoveRestored`). A `KeyError` there ends the monitor's thread, whichever branch of
  its `except` is taken; so does a `select` that raises while the server runs
  (`SelectRaises`), and then `start` calls `stop`, a second later (`MonitorDied`).
* `main` is the place `Rocket.stop` has reached, with the same two steps for the set
  (`FlushConnections`, `PopConnection`) and the queue (`FlushQueue`, `GetQueued`). If the
  monitor removes the last connection in between, `pop` raises a `KeyError` out of
  `stop` (`PopFails`); `start`, whose sleep the signal has interrupted, logs it, waits for
  the end of the monitor and calls `stop` again (`StopAgain`). If the monitor takes the
  last one from the queue, `get` waits, for ever when nobody is left to put one
  (`Stuck`): `stop` never returns, nor do the idle workers.
* The signal finds the main thread in `start`, and comes once. When its `stop` has
  succeeded `start` calls `stop` once more, on threads that have all ended; that is left
  out. That `close` in `Monitor.stop` raises is not modelled.
* `hello`, `wire`, `sent`, `rest`, `gone` are the client: what it said in the
  handshake, the request waiting to be read (whole, malformed, or its first part), and
  whether it has left. A client that pipelines requests is not modelled.
* The pool has the `min_threads` it starts with: web2py passes `max_threads` 0, with
  which `grow` adds nothing and `dynamic_resize` shrinks nothing. `stop` is the only
  caller of `shrink`.
* A connection that nobody refers to is closed by Python when its last reference goes;
  until then it is open and `Forgotten`.

### Abstractions of the 2PC model

* A document is its transaction and index; JSON is not modelled. A POST has
  `NDocs >= 1` documents (an empty POST makes `insertMany` fail).
* Every command is written whole. What TCP does to it is the fault `chunking`: a
  VOTE, the only long command, split in two, or COMMIT and ROLLBACK read together.
  `JSON.parseFull` then gives nothing, or not a command, and the agent drops it.
  An answer that comes in pieces (it has under 30 bytes) is not modelled; it would
  restart the `CommitActor`.
* No actor sends `Tcp.Close`. When the handler of a connection stops, Akka's
  connection actor stops too and aborts it (RST), on either side. The other side
  reads what has arrived, as Linux hands it over before the error, and then gets
  `ErrorClosed`. `DbAgentActor` has no case for that: `case _` logs it
  (`DbAgentActor.scala:94`), and the agent lives on with its documents. The same
  abort in the other direction is the end of an agent, for which `CommitActor` has no
  case either. `PeerClosed` (line 92) comes only from the operating system, when the
  process of the client has died, and then only if nothing was left unread there; so
  after `clientCrash` an agent gets `PeerClosed` or `ErrorClosed`.
* An abort, or the network, may also lose what was written; that is the fault `reset`.
* The fault `http` is the five-second ask of the servlet itself (`MainServlet.scala:27`):
  the sender is answered "error" while the transaction goes on.
* `docker` and the operating system appear as `serverCrash`, `clientCrash`.

## Runs

Every run of the protocol checks for deadlock; the system may rest only when every
POST is dealt with (`AllDone`). All faults means `connect, chunking, reset, mongo, serverCrash,
clientCrash, slow, http`.

| Run | Instance | Shows |
|---|---|---|
| `rounds` | 1 POST, 3 hosts, REDUNDANCY 2, all faults | types; documents only where the coordinator chose; no COMMIT without documents; no Rollback overtakes a Commit, no insert starts after a rollback |
| `partial` | 1 POST of 2 votes, 2 hosts, REDUNDANCY 2, all faults, only the client is fair | "ok" means two complete copies whatever fails; the protocol implements `RedundantStore`; the invariant of the proofs, `IndInv`, holds; every coordinator comes to an end |
| `vote_phase` | 2 POSTs, 3 hosts, REDUNDANCY 2, only votes can fail | every Commit is acknowledged and nothing rolled back; "error" leaves nothing stored |
| `late_ack` | 1 POST, 2 hosts, late answers | **violation**: "error", and the documents stay |
| `released` | 2 POSTs, 1 host, the faults `connect`, `mongo`, `slow`, fair hosts | a rollback takes only its own documents; an agent that has been sent COMMIT or ROLLBACK stops, any other stops or is left behind (`LeftBehind`: no connection, nothing running), as nothing handles `ErrorClosed` |
| `healthy` | 2 POSTs, 2 hosts, no fault, fair | both are answered "ok" |

The system as a whole (`VotingSystem`); there an outage is always possible, so that
the check for deadlock says nothing and `EveryCycleEnds` takes its place:

| Run | Instance | Shows |
|---|---|---|
| `counted` | 2 POSTs, one of them unreadable, 3 mongods that fail, 2 copies, 1 cycle | a cycle misses no vote accepted before it, unless as many instances gave nothing as there are copies; no vote counts twice though each is read twice |
| `second_cycle` | 1 POST, 2 cycles, nothing fails | **violation**: all votes are added again |
| `published` | 2 PostgreSQL instances that fail, an unknown candidate, 2 cycles | the tables of every connected instance show what was counted; each instance implements `ResultTables` for its readers, refused rows included; the age of a PESEL is right up to a year or two (`AgesFit`) |
| `cycles` | a slave, 1 mongod and 2 PostgreSQL instances that fail, lost pings, crashes, a fair thread | every cycle ends |

The results (`ResultsPage`, `Rocket`); a user may stop clicking and a server stays
stopped, so neither run checks for deadlock:

| Run | Instance | Shows |
|---|---|---|
| `page` | 2 parties, 1 sex, the menu entries of each kind, 2 requests and 2 animations at a time, rows written meanwhile, requests that fail | a user who waits sees what was asked for and nothing else (`ShownIsAsked`), each list once (`ListOnce`), a spinner only after a failure (`SpinnerOnlyAfterFailure`, `EveryClickAnswered`); slices add up but for rounding and grow with the votes (`PercentagesFit`), columns are over their labels as far as the code can promise (`AlignedWhenFull`) |
| `rocket` | 2 clients (one asks and may leave, one only connects), 2 workers, a backlog of 1, SIGTERM at any time | each connection has one owner (`OneOwner`) and is not closed behind it (`NotClosedWhileServed`); only bad requests, broken handshakes and the start of the monitor leave one behind (`OnlyBadForgotten`); requests are answered (`RequestsAnswered`); `stop` ends with what was queued served (`StopServesQueued`), or is stuck in the one way that `StopEnds` names |

Bounds of the results. `PercentagesFit` and `AlignedWhenFull` speak of a chart that is
displayed, and of any tables it may have been drawn from: all tables of
three candidates in two parties with up to five votes each, or of two parties and two
sexes, and all column charts of two parties and three labels: enough for a gap at each
place. `ResultsView_proofs` proves the same of any tables. Two requests under way are
what it takes for answers to come in the wrong order; three Chart objects are one more
than a patient user can have. In `rocket`, two connections can be in the same queue
or with two threads; the second one sends no request, and its client does not leave (`Leaver`), because the
checks of liveness would not end in time otherwise. The safety properties are proved for
any number of either (`Rocket_proofs`); for `StopEnds` the second connection is the one
that the monitor and `stop` both see in their queue.

`AgesFit` speaks of votes that have been counted, and looks at births from 1900 to 2020, six days of every month, on four days, one
of them in 2040, when those born after 1999 vote; `PeselAge_proofs` has the other dates.

Bounds of `VotingSystem`. `MaxLogs` bounds the cycles of a process: one, or two where
it matters what a cycle leaves to the next; after a crash a process starts again from
nothing. Three mongods with two copies give a vote a host without it, and the second
POST makes one of its two hosts useless; two PostgreSQL instances can differ. The
documents of `MCInfo`, `MCInfoOdd`, `MCInfoBroken` are the ordinary one, one that the
dictionaries do not know and one that cannot be read. `second_cycle` follows all
the tables but that of the sexes, the other runs one or two (the tables `published` follows are those whose
foreign keys can refuse a row).

Bounds of the protocol. Nothing in the model counts without limit, so there are no state
constraints: the bounds are the sizes of `Tx`, `Host`, `NDocs`. Two hosts are
needed for a commit that succeeds on one and fails on the other, a third for a
second voting round in which a late voter of the first is still alive; a second
document for an insert that stops half way. Transactions meet only in the
collections, so two are enough for any interference between them.

Fairness. `ClientFairness`: Akka dispatchers run every actor that has a message,
and the scheduler fires every ask timeout, so the steps of the client are weakly
fair. `FairSpec` of `VotingSystem` is the same for the one thread of an aggregator;
that some instance of either kind stays up in the end is a premise of
`EveryCycleEnds`, since the code retries for ever until one answers. `ServerFairness` (hosts accept connections, agents read, mongod works) is
assumed only where the property is about hosts that are up. Nobody has to POST.
`FairSpec` of `ResultsPage`: the browser's event loop gets to each animation and
answer, and each request is answered or breaks. `FairSpec` of `Rocket`: each thread
runs (Python's interpreter lock is handed on, socket timeouts fire), and the loop of
`start` sees that the monitor has died. SIGTERM need not come. That no client
stays silent in its TLS handshake for ever is not fairness of the code; it is the
premise `HandshakesEnd` of `RequestsAnswered` and `StopEnds`, without which both fail.

## Findings

`late_ack`: `DbAgentActor` stops itself after a successful insert
(`DbAgentActor.scala:65`). If its ACK comes after the coordinator's two-second ask
timeout, the coordinator rolls back (`TwoPhaseCommitActor.scala:51`, "commit error,
rolling back") by writing to a connection nobody serves any more, and
`CommitActor.scala:110` reports success. The POST is answered "error" and its
documents stay, to be counted by the aggregator; a sender who tries again votes twice.

`second_cycle`: the statistics are made once per process (`RsoAggregator.java:56`) and
never cleared; each cycle reads all votes and adds them again. From the second cycle on
every `votes_sum` is too large, by different factors for votes of different age.

Further limits are plain from the code and in the model without a run: one failed
ping of the master's machine (`RsoAggregator.java:79`) starts the slave while the
master may be running, against the documentation ("on one node only"); and every
cycle adds a log file handler that is never closed (`RsoAggregator.java:134`) until
`System.exit(4)`. In the page, two clicks before an answer can leave two charts or a
list twice (what `hasty` excludes), and a party without a row for a label has its later
columns over wrong labels (what `AlignedWhenFull` excludes). In the web server, a
client that connects and stays silent stops all accepts and `stop` (`rocket.py:590`),
`stop` and the monitor can take the same connection from their queue, so that `stop`
waits for ever (`rocket.py:991`, `Stuck`), and a connection with a bad request stays
open (`rocket.py:1277`). An agent whose vote was not counted is never released
(`DbAgentActor.scala:94`, `LeftBehind`). `calcAgeFromPesel` takes the
month of those born after 1999 for a later one, so that voters of 18 and 19 count as
over 100. No document, comment
or test of the repository says otherwise of these, so they are premises of the
properties and not findings.

## Proofs

TLAPS proves, for any set of transactions, any finite set of hosts, any
redundancy, any number of documents and any set of faults (the assumptions
`HostAssumption`, `FaultsAssumption`, `MinDbsAssumption`, `NDocsAssumption`):

* `TypeCorrect`: `Spec => []TypeOK`;
* `Invariance`: `Spec => []IndInv`;
* `Replication`, `Placement`, `NoneGet`: the three safety invariants;
* `OnlyOwnRollback`: the action property `RollbackOnlyRemovesOwn`;
* `CommandsInOrder`, `NoLateInsert`: `CommandOrder` and, from it, the action property
  `InsertNeverStartsAfterRollback`;
* `Refinement`: `Spec => ImplementsStore`;
* `NeverRolledBack`, `ErrorLeavesNothing`: `Spec => []NoRollback` and, from it,
  `Spec => []ErrorMeansNothingStored`, provided that `Faults` is within `connect` and
  `chunking` (`VotesOnlyFail`).

The argument. "ok" needs every reply to be `Ack` (`AllAck`). A reply is `Ack` in the
phase "committing" only because of an ACK read from the connection, and an ACK is
written after a finished `insertMany` or `deleteMany` (`AckInv`); a `deleteMany` can
only have been started by a ROLLBACK, and none has been sent while the transaction
is committing (`RollbackInv`). So every chosen host has finished its insert, and
what it inserted is all there until a delete (`StorageInv`), which can no longer come
because the result is "Ok". `CommitInv` and `RoundInv` say that a COMMIT goes only to
the final set of exactly REDUNDANCY hosts, `VoteInv` that those hosts hold the
documents, `LifeInv` that a host is connected to once. None of the safety properties
is inductive without these: they speak of messages under way.

`CommandOrder` says of mailbox and connection that Commit comes before Rollback, and that
none waits behind a Rollback already passed on. Every step moves the two queues in one
of seven ways (`Moves`), each of which keeps it; that Commit is not asked for after
Rollback is `RollbackInv`. Where hosts can only fail to vote, `NoRollback` follows each
host through the stages from absent to acknowledged: an answer is always coming for
a chosen host, so no ask Commit times out, and "error" means too few votes, when no
COMMIT was ever sent (`CommitInv`).

About `VotingSystem`, for any votes, machines, aggregators and outages (assumptions
`StoreAssumption`, `RowsAssumption`, `MaxLogsAssumption` and those on the roles):

* `TypeCorrect`: `Spec => []TypeOK`;
* `CountInvariance`, `NoAcceptedVoteMissed`: no cycle misses an accepted vote;
* `NoneCountedTwice`: `VotesSumCountsVotes`, provided that no process makes a second
  cycle (`MaxLogs <= 1`; with two the run `second_cycle` refutes it);
* `PublishInvariance`, `Publication`: what is counted is what the connected instances
  show;
* `TablesImplemented`: each instance implements `ResultTables`. It rests on
  `RowsCounted`: a row still to write has a positive number that its table may hold.

`AcceptedAreCounted` speaks of the end of a cycle; `CountInv` says of every point of
it that each copy of a vote accepted before is still to be read, was missed or has
been read. A store step keeps it since accepted copies stay (`StoreKeeps`: a
rollback takes only its own documents); at the end nothing is unread, and the
`Copies` hosts of a vote do not fit in a smaller set of missed ones. `PublishInv`
says the same of the tables: a number is in a table still to open, in a row still to
write, or written. `NoneCountedTwice` rests on
`CountedOnce`: the statistics are empty until the only cycle of a process is
counted, and then they count the rows of its reading, a set in which the copies of a
vote are one, so that the rows counted for a key are no more than its votes.

About `Rocket`, for any finite sets of connections and workers, any backlog and any
number of requests:

* `TypeCorrect`: `Spec => []TypeOK`;
* `Ownership`: `Spec => []OneOwner`;
* `NeverClosedBehind`: the action property `NotClosedWhileServed`;
* `NoneForgotten`: the action property `OnlyBadForgotten`;
* `ServedAtStop`: `Spec => []StopServesQueued`;
* `StuckForEver`: `Spec => [](Stuck => []Stuck)`, which the second outcome of `StopEnds`
  rests on.

`OneOwner` says that six places (backlog, handshake, active queue, workers, monitor's
queue, monitor's set) are disjoint and none holds a connection twice. That is not
inductive: a client could connect anew with a connection that is somewhere already,
a worker that waits could have kept one, and `select` could return a connection
twice. `OwnerInv` adds that whoever is nowhere yet has not said anything, that idle
workers have nothing, and that `readable` has no duplicates and lies in the set until
`stop` pops from it. Each action then moves one connection from one place to another.
`NeverClosedBehind` follows: a thread closes only what its own place held, and that is
not with a worker, but for the window of `RemoveRestored` while `stop` flushes.
`NoneForgotten` is shown step by step: an action moves a connection from one place to
another, closes it, or is one of the exceptions the property names; that a
connection in no place is not lost needs that only a listener in its handshake has one
(`Resting`). `ServedAtStop` rests on `StopInv`: once `stop` has put its `None`s, the end
of the active queue holds as many of them as workers are alive, so the last worker
leaves an empty queue. It needs at least one worker (`WorkerAssumption`): ten are the
default minimum (rocket.py:26), though an argument can set it.

About `ResultsPage`, for any tables, dictionaries, menu and bounds, and whether or not
requests fail (`MenuAssumption`, `BoundsAssumption`, `EntryAssumption`):

* `TypeCorrect`: `Spec => []TypeOK`;
* `PatientSees`, `ListsOnce`, `SpinnerOff`: `ShownIsAsked`, `ListOnce` and
  `SpinnerOnlyAfterFailure` always hold.

`PageInv` is inductive; it was checked with TLC on the instance of `page` before it was
proved. `AskedOnce`: after a click at rest one request at most is under way, for what was
asked for last, and the charts are displayed unless that is the candidates panel.
`OneChart`: as long as every click was at rest one Chart at most is alive, the current
one, and none while the next is fetched, so a new one is not drawn beside an old one.
`OneList` is the same for buttons; that a button belongs to the only list displayed needs
that no view has a button in both. `SpinnerEnds` names the queues of animations that a
click at rest and its answer can leave. `TypeOK` needs `CurrentAlive`: the Chart that
`window.currentChart` names has not been destroyed, however often it is asked to be.

About the numbers on the page (`ResultsView_proofs`), for any tables and dictionaries:

* `ServedPercentages`: `Spec => []SlicesFit(tab)`, for any finite set of rows;
* `ServedColumns`: `Spec => []ColumnsFit(tab, s)` for each of the three column charts, if
  the rows of its table have a party and a key, both integers;
* `Percentages`, `Aligned`: the two invariants of the run `page`, from the same lemmas.

A sum over a set of rows is a fold, and what it is for every set needs induction over
the set. `SubsetInduction` gives it without an operator as parameter: a set of subsets that
has the empty set, and with a set each set of one element more, has them all, since
otherwise there is a least one missing (a strict order on finite sets is well-founded). From it come
the equations of `Total`, and with them the loss of less than one a slice (`SharesAreFit`) and of
at most a half (`RoundedSharesAreFit`). `SortedIsSorted` shows in the same way that each
finite set has the ordered enumeration `Sorted` chooses; `SamePrefix`, that two ordered
enumerations agree as long as one has what the other has, by which the columns of a party are over its
labels up to its first gap.

About the age of a PESEL (`PeselAge_proofs`):

* `AgeAlwaysFits`: `AgeFits` for every date of birth and every day of the years 80 to 2080
  (`ParsedDay` looks 80 years back);
* `CountedAges`: the invariant `AgesFit` of the run `published`.

The day number is 365 a year, the leap days, and the days of the year (`DayOfMonth`).
Between two years at most one in four is a leap year and one more (`LeapsBetween`), so the
days of up to 117 years are 365 each and no more than 395 besides (`Elapsed`): one year too
many at most. The two digits give the year of birth or one a century later
(`Parsed`); then the days count backwards, to a hundred years less (`AgeACenturyLater`), which
needs that the date does not fall on a birthday or that the rest is small. Month 21 is
607 to 612 days later than month 1 (`TwentyMonthsLater`), between one and two years with
the leap days. From 2081 on it is false: the
digits of those born in 2000 are then read as 2100, which makes them about a year older
than the others of their kind.

Only model-checked: what needs fairness (`EveryTransactionEnds`, `AgentsReleased`,
`HealthyPostSucceeds`, `EveryCycleEnds`, `EveryClickAnswered`, `RequestsAnswered`,
`StopEnds`), as liveness is out of the prover's reach. Every invariant, action property
and refinement of a passing run is also a theorem.

## Not modelled

* The rest of web2py. RSO's handlers use none of its sessions, cache, cron, scheduler or
  forms; they open a database, make one SELECT and return a dictionary. What remains
  between `Rocket` and `default.py` (routing, templates, `wsgibase`) is vendored code that
  holds no state of this system. It is by far the largest part of the Python in the
  repository, so that the modelled share of all lines stays small although the system's own
  code is nearly all there.
* In `rocket.py`: `restart`, futures, Jython and macOS branches, the file system worker.
* The DNS service and the data generator (stateless); `ConnectionHandler.java` (dead
  code); JSON, log texts, configuration, labels and colours.

## Plan

Of what the model covers only liveness is not proved. What could be added: theorems
about `RedundantStore` alone, for a reader who wants its promises without the protocol;
larger instances of `partial` and `published` by simulation; and, should
`RsoAggregator` be changed to start each cycle with empty statistics,
`VotesSumCountsVotes` for any number of cycles.
