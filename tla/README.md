# Ramsey's bane: TLA+ models, model checking and proofs

The program looks for counter examples to Ramsey numbers: colourings of the
edges of a complete graph on *n* nodes without a monochromatic clique of ten
nodes. Seven coordinators (`service/`) share a database that holds, for each
number of nodes, the best graph known and how many cliques it has. Solvers
(`distributed_sys_flip/`, earlier `algorithms/`) search with several threads,
send what they find and get back the best graph known and one of its edges to
work on. This directory holds models of these parts, the runs that check them
on small instances, and theorems about them that TLAPS has checked.

All line numbers refer to the repository's files below `src/`.

## 1. The system

| part | source | state it keeps | operations | talks to |
| --- | --- | --- | --- | --- |
| Read-write lock | `service/read_write_lock.py` | `rwlock`, `writers_waiting`, a monitor and its two condition queues | `acquire_read`, `acquire_write`, `release` | every worker thread of a coordinator |
| Coordinator server | `service/ramsey_server.py` | per process: counter number, best clique count, best graph, queue of edge indexes | receive a graph, decide, `updateState`, publish, refresh from the table, deal an index, reply; restart | solvers by messages, other coordinators through the table only |
| Database access | `service/db_store.py` | one autocommit connection; the table `ramsey` | `SELECT`, `INSERT`, `UPDATE`, each a statement of its own | external SQL database |
| Connections of a coordinator | `ramsey_server.py:393-438` | queue of accepted sockets, thread pool | accept, read a message in chunks, hand it on | solvers |
| Solver threads | `distributed_sys_flip/thread.c`, `greedyGraphPermute.c` | per thread: graph, node count, clique count, phase, last reply; shared: `bestNodeCount`, `bestCliqueCount` under a `pthread_rwlock_t` | explore, embed, send, adopt, search, tell a counter example | coordinator, other threads of the process |
| Replace search | `distributed_sys_flip/heuristicsearch.c` | the graph once per colour, the cliques and their count of each | flip the pair in most cliques, keep or undo, tell, bail out | coordinator |
| Client protocol | `distributed_sys_flip/client_protocol/client.c` | one socket per exchange, `coordinator_return` | connect, write, read until close, parse | coordinator |
| Matrix and clique helpers | `distributed_sys_flip/matrix.c`, `clique-count.c`, `distributed_flip.c` | none | random edge, last column, copy, count cliques | solver threads |
| Clique search library | `cliquer.c`, `graph.c`, `reorder.c`, `set.h` in `distributed_sys_flip/` | a graph of bit sets, an order, what the first phase learned of each vertex | build, resize, read, write and reorder graphs; find one clique or all | replace search, `cl.c` |
| First solver | `algorithms/` | shared: number found; per thread: number, graph, best graph, counters; one file per number | flip cells, swap cells of a row, count, announce, send, write a file | its threads, coordinators |
| Statistics server | `service/stats_server.py` | a running sum and a file | add, append | solvers |

Which behaviours are hard:

* **Coordinator.** Requests are handled by many workers at a time. The tests
  that decide what to do with a graph are made without the lock, one memory
  access after the other (`ramsey_server.py:316-339`); the update itself runs
  under the write lock but changes memory field by field and the table last;
  a statement that raises leaves the lock taken (there is no `finally`). The
  process may be killed anywhere and has only the table to come back with.
  *Correct* means: no client is told something torn or something that a
  restart forgets; the queue deals edges of the graph that is best; an edge is
  not dealt by two servers; a number in memory is one of the table; what one server
  stores reaches the others; progress is undone by a forced update at most.
* **Lock.** A hand-written monitor: wake-ups happen after the monitor was let
  go, by a decision taken before. *Correct* means: exclusion, no lost wake-up,
  and writers do get in although readers overlap.
* **Solver.** Threads share two integers that are written under a *read* lock;
  a thread holds this lock through a whole exchange of messages and takes it
  again inside; replies are lost and what the previous reply left behind is used
  instead. *Correct* means: what a solver claims of a graph is true; counter
  examples reach the coordinator; nobody waits for ever.
* **Searches.** Each flips cells of a graph in place and undoes what did not help,
  by hand: two graphs, two lists of cliques and six counters in `replaceMe`, two
  moving cells per row in the first solver. *Correct* means: what is kept has fewer
  cliques, what is told is counted, rows are tried as far as their loops say, and calls
  end.
* **Clique library.** Bit sets whose last word is cut, walked and renamed in pieces;
  a search in two phases in which the second prunes by what the first learned, which
  may have stopped early. *Correct* means: the answers are those of the definition.
* **First solver.** The number found is updated under a mutex and read without it;
  it is raised before the example was sent; a file is looked for, opened and
  written in three steps. *Correct* means: no number is passed over that nobody
  solved, an example is lost while files are written only where two threads write one
  file or it cannot be opened, files end up whole.

## 2. Modules

| module | what it is |
| --- | --- |
| `ReadersWriter` | abstract readers-writer lock: who is inside |
| `RWLock` | the monitor of `read_write_lock.py`, one action per stretch between two points where the monitor is held or let go |
| `RWLockProofs` | its theorems |
| `IndexShares` | which of a graph's edges falls to which server (`fillIndexQueue`, 223-230) |
| `RamseyServer` | the coordinators of one system: any number of servers, workers, one table |
| `RamseyServerProofs` | the theorems of these two, and that one server with one worker implements `Coordinator` |
| `Coordinator` | abstract coordinator: a request and its reply are one step |
| `ServerConnections` | how requests reach a coordinator: accept queue, pool, chunks (`ramsey_server.py:393-438`) |
| `ServerConnectionsProofs` | that no connection is lost and no part of a message handled, for any peers and pool |
| `ServerAsCoordinator` | the refinement mapping from `RamseyServer` to `Coordinator` |
| `ClientThreads` | the threads of one solver process, talking to a `Coordinator` |
| `ClientThreadsProofs` | its theorems |
| `CliquerGraph` | sets and graphs of the clique library, their files, reordering, and what a caller does with a graph |
| `VertexOrders` | the orders of `reorder.c`; extends `CliquerGraph` |
| `CliquerGraphProofs` | the theorems of these two: graphs stay whole, files and reordering keep them |
| `CliqueSearch` | the two phases of the four searches of `cliquer.c`; extends `VertexOrders` |
| `CliqueSearchProofs` | its theorems: what the first phase learns is exact, and every call answers right |
| `FirstSolver` | the threads of `algorithms/thread.c`, the number they share and the files |
| `FirstSolverProofs` | its theorems |
| `LocalSearch` | what the local searches share: a graph, a best graph, counts of cliques |
| `ReplaceSearch` | `replaceMe` of `heuristicsearch.c`; extends `LocalSearch` |
| `RowSearches` | `threadedGreedyIndexPermute` and `systematic_50_50_flip`; extends `LocalSearch` |
| `PhaseSearches` | what `findCounterExample` does to a graph before it sends it: random flips, or two more nodes (`thread.c:95-208`, `matrix.c`); extends `LocalSearch` |
| `LocalSearches` | any of these on any graph, with the properties of all of them |
| `LocalSearchProofs` | its theorems, for any number of nodes |
| `MC...` | small instances for TLC, one per run's module |

`Coordinator` is the joint between the two halves: `ClientThreads` uses its
`Handle` as the other end of an exchange, and `ServerAsCoordinator` shows where
the real server keeps this promise (one worker, no failures). Where it does not
(two workers, several servers) section 6 says what happens.

### `RWLock`

A thread's place (`pc`) tells where in `acquire_read`, `acquire_write` or
`release` it is. `waiting` of the conditions are kept as the code's wait
queues do: a thread that waits lets go of the monitor, a notified thread has to
get it back. `release` decides whom to wake while it holds the monitor and
notifies afterwards, having taken the monitor again; threads that come in
between are part of the model.

### `RamseyServer`

A worker's place names the statement that comes next, and each access to the
memory that other workers share is a step: `SameNumber`, `Zero`, `Newer`,
`Improves`, `Drained`, `Differs`, `StillOpen`, `DrainedToo`, `DiffersToo` are
the tests of `handleNewCounterExample` in the order of the source, with the
values read when they are made; `Acquire` to `Release` are `updateState` and
`insertIntoDB`; `ReadMaxNumFromDB` to `Send` are `replyToClient`. `path` tells
from which of the four places `updateState` was called, `job` is its argument,
`Forget` is the end of a request (the locals of a worker are gone). `DbFails` is
an exception of a statement, before or after it took effect; `Restart` kills a
process and reads its memory from the table. `Init` takes any finite table, since
with an endless one there is no largest number to read. `written` is a history of the rows
ever stored, `published` the files of `counter_examples/`, `overtaken` the workers into whose
refresh a forced update got between the row and the reply.

The lock is an abstract one here (`free`, a worker, or `leaked` by an
exception): that the monitor behaves like it is what `RWLock` refines. A reader
section of the server is one memory access, so readers are not kept as holders.

A graph is a value; `Ones` gives the set of its edges with value 1. Which
fields are compared how is the code's; the text of a matrix is not modelled.

### `ServerConnections`

A connection is in the queue, with a worker, or over. Of a message only its
length is kept, in three steps: a part of the header, the header, all of it;
`Recv` reads any piece of what has arrived, and `Then` is where the code goes
after it: `split` wants the four fields in the first chunk, the loop wants the
whole length. A peer may stop, close or reset at any time. If it closes in the
middle, the loop of line 405 goes on for ever; the state does not change, so in
the model that is a worker whose step is a stutter (`Stuck`). An exception of the
first `recv` is outside the `try`: the worker thread ends, and the pool, which is
external, starts another (`Repopulate`). What `handleNewCounterExample` does is
`RamseyServer`; here handling ends, with or without an exception, so a lock that
was left behind (section 5) is not part of this model.

### `ClientThreads`

A graph is a value with a number of nodes and of cliques; a search takes a
thread to *some* graph it could reach: no flip that is kept makes a graph
worse, and adding nodes does not remove cliques. `ReadAs` is what an array
becomes when it is read with another row length than it was written with:
any graph of that size, because the cells are then those of another graph. This
happens at `thread.c:257`, which sets `permute_embedded` without raising
`nodeCount`, and at line 85, which raises `nodeCount` and leaves the graph.

`Exchange` is one call of `sendCounterExampleToCoordinator`. It may fail before
the coordinator saw the message, or after. `Last` is what the caller then finds
in `coordinator_return`: the reply, or what was there before. `OtherClient` is a
step of the coordinator on behalf of another process; its claims are true.
The read of a reply has no timeout (`client.c:132`), so `Hang` keeps a thread in its
exchange for ever, with the locks it has, whether its message was handled or not (`hung`).

`Coordinator` only goes forward, and the servers do not: the one that the load balancer
asks next may not have heard of the newest number, and a forced update takes a server
back (`server_stale_reply`). With other processes about (`OTHERS`) and `BEHIND` the coordinator may
therefore fall back at any time to any graph of a number that was reached
(`ServerBehind`), and a forced update of another client may take effect between the
acceptance of a claim and the reply, which then names a smaller number (the third
case of `Exchange`). `furthest` is the largest number the coordinator came to.

The rwlock is glibc's default one, which prefers readers
(`pthread_rwlock_init(&bestCliqueCountMutex, NULL)`, `thread.c:285`). Who reads
follows from the places (`Reading`), and the one writer section
(`greedyGraphPermute.c:229-233`) is a single step.

### `CliquerGraph`, `VertexOrders`, `CliqueSearch`

A set is its largest size and the bits of the words *allocated* for it, so that a bit
that was not cut off stays behind and reappears when the set grows; `ELEMENTSIZE`
and `BYTE` are small, so that a few vertices fill a word or a byte. A graph is what
a caller makes of it: built, changed, resized, cropped, reordered, or read line by
line from a file whose lines come in any order. `Call` begins a search of it, and
one action is one turn of a loop of `unweighted_clique_search_single`,
`weighted_clique_search_single` and their `_all` forms; the recursion below such a
loop (`sub_unweighted_single` and the others) is a function on the places the loop has
still to go (`SingleLoop`, `AllLoop`, `WeightedLoop`), with its prunings in
the order of the source. A table is the set of its places in the order, because every
table keeps the order of the one it was taken from. The arrays that the library reuses between calls are not
kept apart, since no search is started from inside another.

### `FirstSolver`

A graph is known by its number only. A thread's place follows `ThreadSolve`: poll,
test the found number without the mutex, flip, test again, announce, send, write.
`Exchange` may fail to connect - also when it did connect, because `i` at
`client.c:241` is then what the stack held -, get through without an answer, or
never end: the first read has no timeout, before the coordinators took the message or
after, and the one for the rest of a reply does not stop at the end of the connection.
The thread is then at `stuckPolling` or `stuckSending`, which nothing leaves. `solved`
remembers which numbers some thread had a counter example of. A file is empty after
`fopen`, gets its first part from the buffer of one thread and its last from
`fclose`, in whatever order two threads do this; `contested` remembers of which numbers
two threads had the file open at once. A file that cannot be opened kills the process
(`OpenFails`), because `writeToFile` prints to NULL.

### `LocalSearches`

`ones` is the graph that is flipped, `best` the one the caller will have. In
`ReplaceSearch` each colour's graph, count and list of cliques are variables of
their own, assigned where the code assigns them. The coordinator's answer is left
open. In `RowSearches` a search that runs off its array ends in `astray`, and
`ReplaceSearch` ends in `crashed` where the code follows a NULL pointer: both are
reachable, see section 5. Which random cell is drawn is open; a draw that hits
`RAND_MAX`, for which `getRandomIndex` leaves its triangle, is left out.

In `PhaseSearches` `best` is the array `graph` and `ones` the array `temp`, which has two
uses. `matrix.c` finds a cell of the last column as the one before a row's first cell,
so for row 0 it is the word before the array (`outside`): an edge put there counts
as placed. What that word holds at first is open. `bzero` of a fourth of an array
leaves nothing behind that is looked at, because `copyMatrix` and `copyGraph` write all
cells of the nodes in use.

## 3. Runs

| run | instance | shows |
| --- | --- | --- |
| `rwlock` | four threads | exclusion, counts, no lost wake-up, writers not starved by readers, refinement of `ReadersWriter` |
| `server_concurrent` | one server, two workers, failures and restarts | replies are stored, whole and survive restarts; the queue fits the graph; only a forced update makes a reply fall behind the row read for it |
| `server_shared` | two servers with one table | a number in memory is one of the table, colliding inserts included; what one server stored reaches the other |
| `server_alone` | one server, one worker | the server implements `Coordinator` |
| `server_connections` | three peers, two workers | messages are handled whole; no connection is forgotten; a bad peer costs one worker at most |
| `server_stale_reply` | one server, two workers | *violation*, section 6 |
| `client_alone` | one thread, no other process, messages lost, exchanges that hang | claims are true, counter examples are real and arrive |
| `client_pair` | two threads and other processes; messages lost, exchanges that hang, servers behind or set back | no reply is used before it came; claims count their graph; the shared number was reached; no thread falls back; threads come back unless they hang or wait to write |
| `client_false_example` | as `client_pair`, with a graph more and no server behind | *violation* |
| `clique_search` | graphs of up to five vertices, every kind of call | graphs pass the library's own test however they came about; resizing, cropping, walking, reordering and files keep them; what the first phase learns is exact; one clique or all cliques are found, whatever the bounds |
| `first_solver` | two threads, other processes, exchanges that fail or never end, files that cannot be opened | numbers that go around have a counter example behind them; announced examples are kept in whole files unless two threads had one open; files end whole; the shared number never falls; nobody who does not hang goes on with a number that was found |
| `local_searches` | triangles in every graph of five nodes (four for random flips), cliques of four in one of eight | both colours' books agree; what is offered was counted, and an embedded example is in it with half a column per new node; rows are tried out; only changes for fewer cliques are kept; calls end |

Type invariants are not among the runs' properties: those of the lock, the coordinator and
both solvers are theorems.

What is checked of the coordinator is checked where the race in question can happen: two
workers of one server for what is decided or read without its lock, two servers for the
table. What those races do break is not checked with fewer: section 5 names it.

**Bounds, and why they are enough.**

* `rwlock` has four threads, each a reader or a writer as it likes: two holders,
  one that waits, and one that barges in between a decision and its
  notification. The theorems about it hold for any number.
* The server's graphs are three grades for one number of nodes (two cliques,
  one, none), a second graph of the same grade, and one graph of the next
  number: one value for each outcome of each comparison. Graphs have one or two
  edges to deal, so that a queue is full, half empty and empty. One worker
  cannot interleave and two can; a third repeats what the second does. The
  offers of each run are those its property needs (`Narrow`, `ForcedAndZero`, `OfferAll`
  in `MCRamseyServer`): with `ForcedAndZero` one graph is forced upon a server and
  a counter example ends a number, with servers that insert the same number at once.
* Two workers and three peers for the connections: one peer can take a worker for good,
  one be served, one wait in the queue; with two bad peers the whole pool is taken, which
  `ServedUnlessAllStuck` names as its exception.
* The clique library has words of three bits and bytes of two, so sets of up to five
  vertices end in the middle of a word, at its end and beyond it, and the rows of a
  binary file take one to three bytes. With five vertices the greedy orders have ties
  to break and a maximal clique can be heavier than the bound it was found for; two
  weights that do not divide each other make bounds in weights and in vertices differ.
  `SomeCalls` has each kind of call with no, one and both bounds, maximal or not,
  with and without a cap.
* The first solver counts from 1 to 3 (130 to 1000): a thread can be behind, level
  and ahead of the number found, and stop. The theorems hold for any range.
* The local searches take every graph of five nodes with triangles for cliques (ten
  nodes in the code): the smallest where pairs of nodes are in several cliques and one
  colouring has none. No graph of that size makes `replaceMe` follow a NULL pointer,
  so one of eight nodes that does is added. `POLL_EVERY` is 3 (20), so
  that phases end with and without a question to the coordinator; no property depends on it.
* The solver starts at 2 nodes (150 in the code) and ends at 4 (1000), so that it
  searches, finds, embeds two nodes and stops. It makes up to two flips per row and
  polls at every one (20 or more, and every tenth, in the code), so that a poll
  lies between two flips. A graph has one index to deal in both
  runs, so that a request gets it or finds none, and `ServerBehind` may bring one back. The pair
  of threads has three graphs (`Fewest`): a counter example and one with a clique for the
  first number, one with a clique for the next; the coordinator can be level, ahead and set
  back. `client_alone` has ten, two or more of each number.

**Fairness.** Threads that can run do run: weak fairness of every worker's and
every thread's own steps (`FairSpec`), which the schedulers of Python and of the
kernel give; an exchange is a step that may be the last one (`Hang`), since a read without a
timeout is not promised to return. Peers of a connection may stop anywhere. In `RWLock` the monitor (a `threading.Condition` with its lock) is
given to a thread that keeps asking. Nothing forces a client to send a request
or a thread to call the lock; only `NewsSpreads` is about servers that are asked again and
again (`AskedSpec`), since a server looks at the table when it replies. A thread of the first solver takes its steps
(`WF` of `ThreadSolve`) unless it is at one of the places where a read never returns; which flip it makes, and whether it ever finds an example, is
open. A local search is one sequential program, `WF` of its `Next`. `DeliverySpec` of the solver adds that of the
exchanges that a thread can end again and again one succeeds, and nothing of one that hangs; only `CounterExamplesArrive`
in `client_alone` uses it, and it is what the code relies on, since it retries
without end (`thread.c:239-241`).

**Deadlock.** Not checked in the coordinator's runs, where an exception inside
`updateState` leaves the lock taken for good and all later requests wait, and not in the
solvers', whose threads end or hang, nor for the connections, whose peers come only once, nor
for the local searches, which return. It is checked for the lock and the clique library.

## 4. Theorems

* `RWLockProofs`: `TypeCorrect`, `CountersExact`, `NoLostWakeups` and `Refinement`, for any finite set of threads. The
  invariants the runs check are not inductive: the proof needs that a thread
  stands at most once in a queue and nowhere else (`QueuedOnce`), without which
  one notification could serve two entries of one thread.
* `RamseyServerProofs`: `TypeCorrect`, `LockIsExclusive`, `StoredReplies`,
  `SurvivingReplies`, for any servers, workers, graphs, edges and offers, with
  failures and restarts. The argument: while the lock is free, number, count
  and graph in memory are a row that was stored, or nothing. A worker that holds
  the lock has copied its job piece by piece as far as its place says, and
  releases only after the row is in the table; an exception does not release. A
  reply is read while the lock is free, so it is such a row. The table never
  loses its largest number, because a row is replaced only by one with the same
  number. The strengthening is the conjunction `IInv` of these parts.
  `QueueFits` adds that the queue was filled for the graph in memory whenever the lock
  is free, and for the job of the holder as soon as it has filled it (`QueueInv`).
  `SharesAreDisjoint` and `SharesCoverTheOnes` are about `IndexShares`: no edge falls to two
  servers, and each falls to one.

  `OnlyForced` and `StoredNumbers` are about what is decided without the lock, for any
  servers and workers, with restarts. `OnlyForced`: whatever `handleNewCounterExample` and
  `updateStateFromDB` found out may be out of date when the lock is taken, but all they
  can do then, unless they force, is raise the number (`Raises`). From the comparison with
  the row on, a worker's server is as far as the row, and then its reply is (`Ahead`),
  except if a forced update got in between; one that is about to change the number has been
  noted by all it gets into (`Noted`). The run `server_stale_reply` shows that the exception
  happens. `StoredNumbers`: a lock is left behind at an `INSERT` only, when memory is all
  the job and the row that collides has its number (`LeakInv`). That needs that no
  statement fails for another reason, which the theorem states as its hypothesis.

  `Refinement`: with one worker, no failures and no restarts, for any graphs, offers and
  indexes, each step of the server is a request of `Coordinator` or nothing. Beyond the
  above it takes `RefInv`: the table's newest row is what is in memory except while the
  lock is held (`TableInv`); at each place of the chain of tests the tests passed so far
  still hold, so that the outcome is the one `Coordinator!Accepts` decides in one go
  (`TestsInv`); and the path by which `updateState` was called tells whether an index is
  due (`CallInv`). That indexes count as dealt when the request is decided, long before
  `getAndSetNextIndex`, is in `Left` and needs the queue to be finite
  (`LeftAssumption`).

* `ClientThreadsProofs`: `TypeCorrect`, `SharedNumberReached`, `ReplyThere`, `ClaimsCount`,
  `NumberKept`, for any threads, graphs, bounds, other processes, lost messages, and servers
  that are behind or set back. The number the threads share, the numbers they work on and
  the numbers of the replies they hold are at most `furthest`, but may be more than the
  coordinator's present one; a thread adopts a reply's number only after it has compared it
  with its own, which no other thread changes; a reply that was never read
  is `NoReply`, and the places where a reply is used are reached only after the first
  exchange that worked. `ClaimsCount` needs to know at which places a thread's count and
  graph belong together.
  `SoleClaimsTrue` and `SoleExamplesReal` are for a process with one thread that is alone
  with its coordinator; with other processes the statement is false (section 6). Their
  invariant is that such a coordinator is never ahead of the thread, so that the graph a
  thread holds when it sends is of the number it names; other processes move the
  coordinator ahead, and line 85 then names a number the graph is not of.

* `FirstSolverProofs`: `TypeCorrect`, `NothingIsMadeUp`, `FoundOnlyGrows`, for any
  threads and any range of numbers. The argument: every number in circulation - the
  number found, a reply, the number below the one a thread works on, and from
  certain places on that number itself - is at most one that the coordinators or a
  thread have an example for (`Backed`), and those are only added to (`BackedStays`).
  `NumbersHaveExamples` alone is not inductive: a reply becomes a number two steps
  after it was read, and a number becomes the number found after the test that
  allowed it, so `Inv` says of each place what is backed there.
  `AnnouncedIsKept` is by `KeepInv`: every number up to the number found is one the
  coordinators have, has a file of its own or of a larger number, or is in the hands of a
  thread on its way from the announcement to the file; that such a file is of one
  graph when no thread has it open is `FilesInv`; and a thread at `heard`, which opens
  no file, has a number the coordinators have. `WholeFiles` has
  `FilesInv`: of a file that exists, a part is missing only while a thread that has it open
  is going to write that part, so a second thread that truncates it owes both parts itself; and while a file is
  not contested, one thread at most has it open, to which the parts that are there belong.

* `LocalSearchProofs`: `BooksStayRight`, `RowsTried`, `OffersCounted`, `ChangesAreGood`, for
  any number of nodes, any size of cliques and any graphs to start from. One list of
  lemmas is about cliques: `FindCliqueCount` and `CliqueCount` without its cap count the
  same sets of pairs, a clique is known by its nodes, so the lengths of the lists of
  `replaceMe` are the counts (`CliquesCounted`, `FullCount`), and a flip changes only the
  cliques it lies in. Then each search has its own part of `SearchInv`:
  - `ReplaceInv`: both colours' counts and lists are those of the graph that is kept
    (`Books`). A pair that is tried lies in a clique of its colour (`TriesAre`), therefore
    in the graph, so taking it out and putting it back gives the counted graph again.
  - `RowInv`: two hand-moved counters go through the pairs of a one and a zero in
    lexicographic order, so that all pairs before the present one were tried and none was
    better. The search for an index takes the zeros in order, all before `col0` tried.
  - `PhaseInv`: `best` is counted when it is offered; filling a column from the node's own
    row upwards never touches the nodes before it (`Built`), and `HalfColumn` counts what
    it put there, the cell before the array included.

* `ServerConnectionsProofs`: `WholeMessages`, `OwnedByOne`, for any peers and any
  pool. `OneOwner` counts the places a connection is at; the proof does without the
  count: by `Owned` those places are all different, a worker has a connection exactly
  while it is neither waiting nor dead, and a connection is at one place exactly while
  it has begun and not ended. That a set with one element counts one comes at the end.

* `CliquerGraphProofs`: `GraphsAreWhole`, `RenamedIsSame` and `CopiesSame`, for words and bytes of any length, any
  number of vertices and any weights. It is about `GraphSpec` of `CliquerGraph`, in which a graph is changed by its
  caller, read line by line, renamed by any bijection, or left alone by a search; every step
  of `CliqueSearch` is one of these (`SearchesKeepGraph` below). The invariant (`GraphInv`, `Whole`) says
  that a set holds nothing beyond its largest element *within the words that are
  counted* (`IsSet`): behind them a bit may stay, when a set shrinks to a multiple of the
  word length, and `ResizedSet` shows that growing again never brings it back. Symmetry is
  what `GraphCrop` rests on: the last vertex with a neighbour is itself a neighbour of one
  before it. That a bijection is onto is the pigeonhole theorem of the library.
  `CopiesSame` has three parts beside that:
  - every order of `reorder.c` visits each vertex once (`OrdersAreBijections`): each loop
    appends a vertex that is not placed yet as long as one is left (`Visits`). In
    the greedy colouring without weights that one can always be chosen is the point: a
    degree that sinks below zero marks a vertex as placed, so the proof keeps for each
    vertex that its degree is the number of its neighbours that are still left.
  - a file gives back its graph (`AsciiGivesBack`, `BinaryGivesBack`): what the reader has
    after the first lines the writer wrote is the graph with its first weights (`Weighed`)
    and then with the edges of its first pairs (`Drawn`); different pairs of a row are
    different bits, all within the row's bytes (`BitsAre`).
  - the degrees add up to twice the edges (`EdgesAreCounted`), by turning each pair around.

  That the graph read is never NULL needs that its size is within what a caller may ask for
  (`SmallInv`).

* `CliqueSearchProofs`: `SizesExact`, `AnswersRight`, `SearchesKeepGraph`, `SearchedGraphsAreWhole`,
  `SearchedCopiesAreSame`, for any graph, weights, calls and bounds. First a lemma for
  each of the three recursions, by induction over the places of the table, on
  what its loop does when the sizes it prunes by bound the cliques of their prefixes
  (`UpperBounds`, `Prunes`): `SubSingleHits` (a clique of the size is found exactly when there is one),
  `SubAllLists` (each clique between the bounds is stored once, until the callback stops
  it), `SubWeightedSearched` (the same by weight, and the weight to beat ends at the
  heaviest clique met, or one less than the bound, or -1 when stopped). Then the inductive invariant
  `SearchInv`, one part for each phase:
  - `FirstInv`: every entry so far is `Exact`: the heaviest clique of its prefix, or one
    less than the bound; no clique reached the bound yet, unless it is too heavy (`NotYet`);
    the best clique so far is kept.
  - `JudgeInv`: the clique of the first phase reaches the bound, and the place where the
    first phase stopped is remembered (`StoppedAt`). Entries behind that place mean
    nothing, and `StartAfterBound` is that the second phase needs none of them: it starts at the
    first place whose entry reaches the bound, or says nothing.
  - `SecondInv`: what is stored is what is wanted of the prefix, each once, and the entries
    of the prefix may be pruned by, although they are overwritten with the bound.

  `SizesAreExact` alone is not inductive: it says nothing of the cliques that were
  passed over. That bounds in weights become bounds in vertices when all
  vertices weigh the same (`Scaled`, `Dividing`), that a maximalised clique is maximal
  (`MaximalizeIs`), and that weights stay below `INT_MAX` (`OwnIs`) come in where a call
  begins and where its first phase is judged.

Induction over data is done here without the library's induction theorems for operators: a
recursive function is shown to exist by giving the states of its loop, and properties of them are shown with
`Induction`, whose predicate is a set. That needs recursion to be written as
functions over explicit domains, which `CliqueSearch`, `VertexOrders` and the files of
`CliquerGraph` do.

Assumptions are those named `...Assumption` in the modules: finite threads, each
worker has a server, offers have a positive number and a known graph, nobody is
not a peer, solvers start at a positive number of nodes and their bound for a count is
positive (`MAX_CLIQUE_CNT`), `NoReply` is no reply, `None` no thread of the first solver and
`Null` no number, the graphs a local search starts from have the nodes they should, a graph has finitely many edges
and a server at most `MAX_LEFT` of them, words and bytes have bits, weights are positive, the
bound on a graph's weight is less than `INT_MAX`, NULL is no graph (`NoGraphAssumption`), and calls keep to the
assertions on their bounds (`SearchAssumption`). `Refinement` of the server (one worker, no failures), `StoredNumbers` (no statement fails
but for a primary key) and the `Sole...` theorems (one thread, no other process) state their case
as a hypothesis.

Only model-checked: liveness, that is `WritersNotStarvedByReaders`, `ReadersServedOnceWritersRest`,
`NewsSpreads`, `ServedUnlessAllStuck`, `CounterExamplesArrive`, `NobodyStaysBehind`, `ThreadsComeBack`
and `CallsEnd`: fairness and `ENABLED` are beyond the prover. Every
invariant and every action property of the passing runs is stated by a theorem, some under a
hypothesis named above.

## 5. What the properties do not say

* One writer of `RWLock` may be overtaken by other writers for ever; writers as a
  class are not starved.
* An exception inside `updateState`, by a failing statement or by an `INSERT` that collides
  with another server's (`ramsey_server.py:180`), leaves the write lock behind, and the
  server answers nobody until it is restarted. `NewsSpreads` has to except such a server.
* With two workers a reply may pair an index with a graph it was not dealt for
  (`ramsey_server.py:287`), and a published file may hold the graph of another number or one
  that is no counter example (`:364`): both read memory twice without the lock. With one worker per
  server neither happens, but every server has 3000, so nothing is stated about either.
* A solver thread that reads a reply that never comes, for instance of a server that lost
  its lock, hangs with the read lock it may hold (`client.c:132`, `thread.c:256`).
* A solver thread that waits for the write lock may wait for ever
  (`ThreadsComeBack` excepts it): readers overlap, each over a message exchange.
* A solver with one thread (`replaceMe`, `heuristicsearch.c:131`) may stay in a local
  minimum until a coordinator knows better. It asks after twenty failures on one level, and
  nothing guarantees that a level has as many: were it seven, there already are graphs
  of five nodes whose search never asks anybody. Nothing is promised of it.
* `NobodyStaysBehind` excepts a thread of the first solver that waits for its reply, or
  for the rest of it, for ever (`client.c:49`, `:71`); the other threads go on.
* `ExamplesAreKept` excepts a number whose file two threads had open at once: both may have failed to
  reach a coordinator, and the file may have its first part of one graph and the rest of the
  other (`algorithms/thread.c:111-114`). The example a hanging thread holds, and all that
  are in hands when a file cannot be opened, are lost with them.
* `RowsAreTriedOut` leaves out the last zero of a row, as the code does where it follows
  another (`greedyGraphPermute.c:187`).
* `CallsEnd` counts leaving the array (`astray`) and following NULL (`crashed`) as an end.
  `greedyGraphPermute.c:44` and `algorithms.c:96` look for the last zero (or one) of a row
  that may have none; the last row but one has a single cell, always one after
  `initialize_50_50`, and its index is dealt like any other. `heuristicsearch.c:201` walks
  over a set that is NULL when the nodes that share cliques with the worst one are in
  different numbers of them.
* That a counter example found by `systematic_50_50_flip` is announced is not promised:
  the loop flips one more cell before it counts (`algorithms/thread.c:94`).

## 6. Findings

* **`server_stale_reply`** `ramsey_server.py:336`. A forced update is decided on
  unlocked comparisons, and `forceUpdate` skips the comparison of numbers under
  the lock. Two workers: one decides to force, the other moves to the next number,
  the first sets it back.
* **`client_false_example`** `thread.c:85`. After a counter example for *n* was sent
  and the coordinator is at *m > n* already, `nodeCount` becomes *m* while
  count and graph stay; if the coordinator's count for *m* is not zero, the next
  round sends count 0 for *m*.

What the models show without a run of its own, because no text of the repository
promises otherwise or a hazard in `PROJECT.json` says it:

* `ramsey_server.py:191`: a server that still has a number open overwrites the row in which
  another stored a counter example for it. `:180`: two servers find no row and both
  insert; the second raises and keeps its lock. `:328`: with an empty queue a new graph with
  as many cliques as the best is taken by the caller (`<=`) and refused by `updateState`
  (`<`). The queue of indexes is gone after a restart (`:85`); a graph with fewer
  cliques is ignored while indexes are left (`:328`); `send` may send a part (`:294`).
* `matrix.c:41`: an edge in the word before the array leaves the new node with one less.
* `thread.c:172`: of two nodes embedded in a row, an example met after the first is
  dropped; `:258`: `permute_embedded` is set without raising `nodeCount`; `:134`: `bzero` gets
  a number of cells, not of bytes. `greedyGraphPermute.c:230`: the test before the shared
  count is set is the wrong way round. `client.c:132`: a failed read adds -1 to the length.
* `greedyGraphPermute.c:187`: the last zero of a row is not tried when it follows another.
* `algorithms/algorithms.c:159`: attempts are never set back for a new number, so only the
  first number is explored; the copy in `distributed_flip.c` counts in its `else` branch only.
* `read_write_lock.py:34`: a writer that just arrived may overtake one that was notified.

## 7. Not modelled, and why

* Digits and cells of messages, and replies of which only a part is sent or read: the
  solver's model loses messages whole.
* Of `algorithms/`: the two algorithms of the switch that `main.c` does not select, and the
  text of messages.
* Of `greedyGraphPermute.c`: the four searches nothing calls; of `matrix.c`: draws that hit
  `RAND_MAX`.
* Of the clique library: printing, the algebra of sets and the searches for a weight alone,
  which nothing here calls; an abort by the time function, since `clique_print_time` never
  asks for one; a search started from inside a search.
* `stats_server.py`, `ramsey_client.py` (a toy from before the solver),
  `cl.c` and `test.c` (programs of their own), `getcpuclockspeed.c` and
  `sendCPUCycles` (statistics): no state that a property here is about.
* `setup/`, `scripts/`, `makefile`, `counter_examples/`, `ramseys-bane.pdf`: deployment,
  data and slides.

## 8. Plan

*System*: one server and one solver process composed, without the abstract
coordinator; the graph that is adopted against the better one just found.
