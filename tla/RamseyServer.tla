---------------------------- MODULE RamseyServer ----------------------------
(***************************************************************************)
(* The coordinators of service/ramsey_server.py: several servers, each     *)
(* with its own memory and its pool of worker threads, over one database.  *)
(*                                                                         *)
(* A worker reads and writes its server's memory one attribute at a time,  *)
(* as the getters and setters do, and each such access is an action.  The  *)
(* lock self.rwl is the abstract one of ReadersWriter, which RWLock is     *)
(* proved to implement; the read-side section of replyToClient has no      *)
(* effect on the others and is one action.  The database (CockroachDB, in  *)
(* autocommit) executes one statement at a time.                           *)
(***************************************************************************)
EXTENDS IndexShares

CONSTANTS
    Workers,        \* worker threads of all the servers
    Host,           \* the server each of them belongs to
    Graphs,         \* the graphs clients send; only identity and Ones matter
    NoGraph,        \* the empty string
    Ones,           \* the positions of '1' in a graph
    Offers,         \* [num, count, graph] that clients send
    MAX_CLIQUE_CNT, \* clique count of a server that knows no graph
    DbMayFail,      \* statements may raise
    MayCrash        \* servers may be killed and started again

Entries == [num : Nat, count : Nat, graph : Graphs \cup {NoGraph}]

ASSUME ServerAssumption ==
    /\ Host \in [Workers -> Servers]
    /\ NoGraph \notin Graphs
    /\ Ones \in [Graphs \cup {NoGraph} -> SUBSET Nat]
    /\ Offers \subseteq [num : Nat \ {0}, count : Nat, graph : Graphs]
    /\ MAX_CLIQUE_CNT \in Nat
    /\ DbMayFail \in BOOLEAN
    /\ MayCrash \in BOOLEAN
    /\ \A w \in Workers : w \notin {"free", "leaked"}

VARIABLES
    num, best, graph, queue,  \* currCounterNum, bestCliqueCount, bestGraph, indexQueue
    lock,                     \* the writer in self.rwl, "free", or "leaked"
    db,                       \* rows of counter_examples
    pc, path,                 \* where a worker is, and which branch took it there
    job,                      \* the (num, count, graph) updateState is called with
    wants,                    \* the client asked for an index
    fileNum,                  \* currNum, local to postOnSlack
    index, reply,             \* nextIdx, and what goes out on the socket
    written,                  \* history: every row the table ever held
    overtaken,                \* history: workers with a forced update in their refresh
    published                 \* files written by createExampleFile

memory == <<num, best, graph, queue>>
store == <<db, written>>
request == <<path, job, wants, overtaken>>
answer == <<fileNum, index, reply>>
vars == <<memory, lock, store, pc, request, answer, published>>

Entry(s) == [num |-> num[s], count |-> best[s], graph |-> graph[s]]
Blank == [num |-> 0, count |-> MAX_CLIQUE_CNT, graph |-> NoGraph]

(* SELECT ... WHERE counterNum = (SELECT MAX(counterNum) ...): one row if  *)
(* the table is not empty.                                                 *)
MaxRows == {r \in db : \A q \in db : q.num <= r.num}
MaxRow == CHOOSE r \in MaxRows : TRUE
Loaded == IF MaxRows = {} THEN Blank ELSE MaxRow

IndexesForAnyCount(entry, s) == Share(Ones[entry.graph], s)
IndexesFor(entry, s) ==
    IF entry.count # 0 THEN Share(Ones[entry.graph], s) ELSE {}

PrimaryKey(rows) == \A r, q \in rows : r.num = q.num => r = q

(* The table holds what clients have sent, one row for a number; being     *)
(* finite, it has a row of the largest number unless it is empty.          *)

Init ==
    /\ db \in {rows \in SUBSET Offers : PrimaryKey(rows)}
    /\ db # {} => MaxRows # {}
    /\ written = db
    /\ num = [s \in Servers |-> Loaded.num]
    /\ best = [s \in Servers |-> Loaded.count]
    /\ graph = [s \in Servers |-> Loaded.graph]
    /\ queue = [s \in Servers |-> IndexesFor(Loaded, s)]
    /\ lock = [s \in Servers |-> "free"]
    /\ pc = [w \in Workers |-> "idle"]
    /\ path = [w \in Workers |-> "offer"]
    /\ job = [w \in Workers |-> Blank]
    /\ wants = [w \in Workers |-> FALSE]
    /\ fileNum = [w \in Workers |-> 0]
    /\ index = [w \in Workers |-> -1]
    /\ reply = [w \in Workers |-> Blank]
    /\ overtaken = {}
    /\ published = {}

-----------------------------------------------------------------------------
(* handleNewCounterExample: a chain of conditions, each reading attributes *)
(* of the server without the lock and in the order of the source.          *)
Goto(w, place) == pc' = [pc EXCEPT ![w] = place]

(* Those workers are done with their request: their locals are gone.       *)
Forget(ws) ==
    /\ pc' = [w \in Workers |-> IF w \in ws THEN "idle" ELSE pc[w]]
    /\ path' = [w \in Workers |-> IF w \in ws THEN "offer" ELSE path[w]]
    /\ job' = [w \in Workers |-> IF w \in ws THEN Blank ELSE job[w]]
    /\ wants' = [w \in Workers |-> IF w \in ws THEN FALSE ELSE wants[w]]
    /\ fileNum' = [w \in Workers |-> IF w \in ws THEN 0 ELSE fileNum[w]]
    /\ index' = [w \in Workers |-> IF w \in ws THEN -1 ELSE index[w]]
    /\ reply' = [w \in Workers |-> IF w \in ws THEN Blank ELSE reply[w]]
    /\ overtaken' = overtaken \ ws

Branch(w, here, test, yes, no) ==
    /\ pc[w] = here
    /\ Goto(w, IF test THEN yes ELSE no)
    /\ UNCHANGED <<memory, lock, store, request, answer, published>>

CallUpdateState(w, here, test, branch, no) ==
    /\ pc[w] = here
    /\ Goto(w, IF test THEN "acquire" ELSE no)
    /\ path' = [path EXCEPT ![w] = IF test THEN branch ELSE @]
    /\ UNCHANGED <<memory, lock, store, job, wants, overtaken, answer, published>>

Receive(w) ==
    /\ pc[w] = "idle"
    /\ \E offer \in Offers, asks \in BOOLEAN :
          /\ job' = [job EXCEPT ![w] = offer]
          /\ wants' = [wants EXCEPT ![w] = asks]
    /\ Goto(w, "same")
    /\ UNCHANGED <<memory, lock, store, path, overtaken, answer, published>>

SameNumber(w) ==
    Branch(w, "same", job[w].num = num[Host[w]],
           IF job[w].count = 0 THEN "zero" ELSE "improves", "newer")
Zero(w) == CallUpdateState(w, "zero", TRUE, "found", "refresh")
Newer(w) == CallUpdateState(w, "newer", job[w].num > num[Host[w]], "offer", "refresh")
Improves(w) ==
    Branch(w, "improves", job[w].count <= best[Host[w]], "drained", "open")
DrainedOrNot(w) == Branch(w, "drained", TRUE, "differs", "open")
Drained(w) == Branch(w, "drained", queue[Host[w]] = {}, "differs", "open")
Differs(w) ==
    CallUpdateState(w, "differs", job[w].graph # graph[Host[w]], "offer", "open")
StillOpen(w) == Branch(w, "open", best[Host[w]] # 0, "drainedToo", "refresh")
DrainedToo(w) == Branch(w, "drainedToo", queue[Host[w]] = {}, "differsToo", "refresh")
DiffersToo(w) ==
    CallUpdateState(w, "differsToo", job[w].graph # graph[Host[w]], "forced", "refresh")

Decide(w) == \/ SameNumber(w) \/ Zero(w) \/ Newer(w) \/ Improves(w) \/ Drained(w)
             \/ Differs(w) \/ StillOpen(w) \/ DrainedToo(w) \/ DiffersToo(w)

-----------------------------------------------------------------------------
(* updateState, entered from four places told apart by path.  An exception *)
(* leaves it without releasing the lock.  Slip: what was decided without   *)
(* the lock is not decided again under it.                                 *)
Supersedes(entry, s) ==
    \/ entry.num > num[s]
    \/ entry.num = num[s] /\ entry.count < best[s]

Return == [found |-> "postOnSlack", offer |-> "refresh",
           forced |-> "refresh", dbRow |-> "takeIndex"]

Accepted(w) == Supersedes(job[w], Host[w]) \/ path[w] = "forced"
Enter(w, accepted) ==
    /\ pc[w] = "acquire"
    /\ lock[Host[w]] = "free"
    /\ lock' = [lock EXCEPT ![Host[w]] = IF accepted THEN w ELSE @]
    /\ Goto(w, IF accepted THEN "setNum" ELSE Return[path[w]])
    /\ overtaken' = overtaken \cup
          {v \in Workers : path[w] = "forced" /\ Host[v] = Host[w] /\ v # w}
    /\ UNCHANGED <<memory, store, path, job, wants, answer, published>>

AcquireUnchecked(w) == Enter(w, TRUE)
Acquire(w) == Enter(w, Accepted(w))

Set(w, here, there) ==
    pc[w] = here /\ Goto(w, there) /\ UNCHANGED <<lock, store, request, answer, published>>

SetNum(w) ==
    /\ Set(w, "setNum", "setBest")
    /\ num' = [num EXCEPT ![Host[w]] = job[w].num]
    /\ UNCHANGED <<best, graph, queue>>
SetBest(w) ==
    /\ Set(w, "setBest", "setGraph")
    /\ best' = [best EXCEPT ![Host[w]] = job[w].count]
    /\ UNCHANGED <<num, graph, queue>>
SetGraph(w) ==
    /\ Set(w, "setGraph", "fillQueue")
    /\ graph' = [graph EXCEPT ![Host[w]] = job[w].graph]
    /\ UNCHANGED <<num, best, queue>>
(* Slip: nothing is written to the database.                               *)
FillUnwritten(w) ==
    /\ Set(w, "fillQueue", "release")
    /\ queue' = [queue EXCEPT ![Host[w]] = IndexesFor(Entry(Host[w]), Host[w])]
    /\ UNCHANGED <<num, best, graph>>
FillIndexQueue(w) ==
    /\ Set(w, "fillQueue", IF path[w] = "dbRow" THEN "release" ELSE "dbRead")
    /\ queue' = [queue EXCEPT ![Host[w]] = IndexesFor(Entry(Host[w]), Host[w])]
    /\ UNCHANGED <<num, best, graph>>

(* insertIntoDB: look for the row, then UPDATE or INSERT it.  Slip: an     *)
(* exception would release the lock on its way out.                        *)
RaiseAfterRelease(w) ==
    /\ lock' = [lock EXCEPT ![Host[w]] = IF @ = w THEN "free" ELSE @]
    /\ Forget({w})
    /\ UNCHANGED <<memory, published>>
Raise(w) ==
    /\ lock' = [lock EXCEPT ![Host[w]] = IF @ = w THEN "leaked" ELSE @]
    /\ Forget({w})
    /\ UNCHANGED <<memory, published>>

DbRead(w) ==
    Branch(w, "dbRead", \E r \in db : r.num = job[w].num, "update", "insert")

Put(entry) ==
    /\ db' = {r \in db : r.num # entry.num} \cup {entry}
    /\ written' = written \cup {entry}

Write(w) ==
    /\ Put(job[w])
    /\ Goto(w, "release")
    /\ UNCHANGED <<memory, lock, request, answer, published>>

Update(w) == pc[w] = "update" /\ Write(w)

Collides(w) == \E r \in db : r.num = job[w].num

Insert(w) ==
    /\ pc[w] = "insert"
    /\ \/ ~Collides(w) /\ Write(w)
       \/ Collides(w) /\ Raise(w) /\ UNCHANGED store

Release(w) ==
    /\ pc[w] = "release"
    /\ lock' = [lock EXCEPT ![Host[w]] = "free"]
    /\ Goto(w, Return[path[w]])
    /\ UNCHANGED <<memory, store, request, answer, published>>

UpdateState(w) == \/ Acquire(w) \/ SetNum(w) \/ SetBest(w) \/ SetGraph(w)
                  \/ FillIndexQueue(w) \/ DbRead(w) \/ Update(w) \/ Insert(w) \/ Release(w)

(* postOnSlack and createExampleFile: two unlocked reads, then the file. *)
PostOnSlack(w) ==
    /\ pc[w] = "postOnSlack"
    /\ fileNum' = [fileNum EXCEPT ![w] = num[Host[w]]]
    /\ Goto(w, "createFile")
    /\ UNCHANGED <<memory, lock, store, request, index, reply, published>>

CreateExampleFile(w) ==
    /\ pc[w] = "createFile"
    /\ published' = {f \in published : f.num # fileNum[w]}
                       \cup {[num |-> fileNum[w], graph |-> graph[Host[w]]]}
    /\ Goto(w, "refresh")
    /\ UNCHANGED <<memory, lock, store, request, answer>>

-----------------------------------------------------------------------------
(* replyToClient: updateStateFromDB, getAndSetNextIndex, then the reply.   *)
ForcedInside(s) ==
    \E v \in Workers : Host[v] = s /\ lock[s] = v /\ path[v] = "forced"

ReadMaxNumFromDB(w) ==
    /\ pc[w] = "refresh"
    /\ IF MaxRows = {} THEN Raise(w) /\ UNCHANGED store
       ELSE /\ job' = [job EXCEPT ![w] = MaxRow]
            /\ path' = [path EXCEPT ![w] = "dbRow"]
            /\ Goto(w, "rowNewer")
            /\ overtaken' = IF ForcedInside(Host[w]) THEN overtaken \cup {w}
                            ELSE overtaken \ {w}
            /\ UNCHANGED <<memory, lock, store, wants, answer, published>>

RowOlder(w) == Branch(w, "rowNewer", job[w].num < num[Host[w]], "acquire", "rowBetter")
RowNewer(w) == Branch(w, "rowNewer", job[w].num > num[Host[w]], "acquire", "rowBetter")
RowBetter(w) == Branch(w, "rowBetter", job[w].count < best[Host[w]], "rowSame", "takeIndex")
RowSame(w) == Branch(w, "rowSame", job[w].num = num[Host[w]], "acquire", "takeIndex")

GetAndSetNextIndex(w) ==
    /\ pc[w] = "takeIndex"
    /\ \/ /\ ~wants[w] \/ (lock[Host[w]] = "free" /\ queue[Host[w]] = {})
          /\ index' = [index EXCEPT ![w] = -1]
          /\ UNCHANGED queue
       \/ /\ wants[w] /\ lock[Host[w]] = "free"
          /\ \E i \in queue[Host[w]] :
                /\ index' = [index EXCEPT ![w] = i]
                /\ queue' = [queue EXCEPT ![Host[w]] = @ \ {i}]
    /\ Goto(w, "snapshot")
    /\ UNCHANGED <<num, best, graph, lock, store, request, fileNum, reply, published>>

SnapshotUnlocked(w) ==
    /\ pc[w] = "snapshot"
    /\ reply' = [reply EXCEPT ![w] = Entry(Host[w])]
    /\ Goto(w, "send")
    /\ UNCHANGED <<memory, lock, store, request, fileNum, index, published>>
Snapshot(w) ==
    /\ pc[w] = "snapshot"
    /\ lock[Host[w]] = "free"
    /\ reply' = [reply EXCEPT ![w] = Entry(Host[w])]
    /\ Goto(w, "send")
    /\ UNCHANGED <<memory, lock, store, request, fileNum, index, published>>

Send(w) ==
    /\ pc[w] = "send"
    /\ Forget({w})
    /\ UNCHANGED <<memory, lock, store, published>>

ReplyToClient(w) ==
    \/ ReadMaxNumFromDB(w) \/ RowNewer(w) \/ RowBetter(w) \/ RowSame(w)
    \/ GetAndSetNextIndex(w) \/ Snapshot(w) \/ Send(w)

-----------------------------------------------------------------------------
(* A statement raises in psycopg2: it was never executed, or it was and    *)
(* the connection broke before the answer came.                            *)
DbFails(w) ==
    /\ DbMayFail
    /\ \/ pc[w] \in {"dbRead", "update", "insert", "refresh"} /\ UNCHANGED store
       \/ pc[w] = "update" /\ Put(job[w])
       \/ pc[w] = "insert" /\ ~Collides(w) /\ Put(job[w])
    /\ Raise(w)

(* The process dies and comes back, with nothing but the database.  Being  *)
(* down for a while is the same as its workers not moving for a while.     *)
Restart(s) ==
    /\ MayCrash
    /\ num' = [num EXCEPT ![s] = Loaded.num]
    /\ best' = [best EXCEPT ![s] = Loaded.count]
    /\ graph' = [graph EXCEPT ![s] = Loaded.graph]
    /\ queue' = [queue EXCEPT ![s] = IndexesFor(Loaded, s)]
    /\ lock' = [lock EXCEPT ![s] = "free"]
    /\ Forget({w \in Workers : Host[w] = s})
    /\ UNCHANGED <<store, published>>

Proceed(w) == \/ Decide(w) \/ UpdateState(w) \/ ReplyToClient(w)
              \/ PostOnSlack(w) \/ CreateExampleFile(w)

Next ==
    \/ \E w \in Workers : Receive(w) \/ Proceed(w) \/ DbFails(w)
    \/ \E s \in Servers : Restart(s)

Spec == Init /\ [][Next]_vars

(* Threads that can run do run; clients need not send anything.            *)
FairSpec == Spec /\ \A w \in Workers : WF_vars(Proceed(w))

(* Clients at work ask again and again: their loops send after every       *)
(* search.                                                                 *)
AskedSpec == FairSpec /\ \A w \in Workers : WF_vars(Receive(w))

-----------------------------------------------------------------------------
Places == {"idle", "same", "zero", "newer", "improves", "drained", "differs",
           "open", "drainedToo", "differsToo", "acquire", "setNum", "setBest",
           "setGraph", "fillQueue", "dbRead", "update", "insert", "release",
           "postOnSlack", "createFile", "refresh", "rowNewer", "rowBetter",
           "rowSame", "takeIndex", "snapshot", "send"}
Inside == {"setNum", "setBest", "setGraph", "fillQueue", "dbRead", "update",
           "insert", "release"}

TypeOK ==
    /\ num \in [Servers -> Nat] /\ best \in [Servers -> Nat]
    /\ graph \in [Servers -> Graphs \cup {NoGraph}]
    /\ queue \in [Servers -> SUBSET Nat]
    /\ lock \in [Servers -> Workers \cup {"free", "leaked"}]
    /\ db \subseteq Entries /\ written \subseteq Entries
    /\ pc \in [Workers -> Places]
    /\ path \in [Workers -> {"offer", "found", "forced", "dbRow"}]
    /\ job \in [Workers -> Entries] /\ wants \in [Workers -> BOOLEAN]
    /\ overtaken \subseteq Workers
    /\ fileNum \in [Workers -> Nat]
    /\ index \in [Workers -> Int] /\ reply \in [Workers -> Entries]
    /\ published \subseteq [num : Nat, graph : Graphs \cup {NoGraph}]

(* A reply is never torn and never ahead of the database: the counter      *)
(* number, the clique count and the graph a client is sent were a row of   *)
(* the table together, whatever statement failed or server died, although  *)
(* updateState changes the memory first and the table afterwards.          *)
RepliesWereStored ==
    \A w \in Workers : pc[w] = "send" => reply[w] \in written \cup {Blank}

(* Nothing a client was told is forgotten: the table holds a row at least  *)
(* as far as any reply, so a restarted server does not fall behind it.     *)
RepliesSurviveRestart ==
    \A w \in Workers :
       pc[w] = "send" => reply[w].num = 0 \/ \E r \in db : r.num >= reply[w].num

(* The edges left in the queue belong to the graph in memory and to this   *)
(* server's share of it, and none is left once the count is zero.          *)
QueueFitsGraph ==
    \A s \in Servers :
       lock[s] = "free" => /\ queue[s] \subseteq Share(Ones[graph[s]], s)
                           /\ best[s] = 0 => queue[s] = {}

(* The counter number of a reply is not behind the row read for it:        *)
(* "Making sure that always the latest counter example value is sent to    *)
(* the client".                                                            *)
RepliesReachLatestNumber ==
    \A w \in Workers : pc[w] = "send" => reply[w].num >= job[w].num

(* It can be behind in one way only: a forced update, which is not tested  *)
(* again under the lock, got in between the row and the reply.  Everything *)
(* else that was decided without the lock, by whichever worker and however *)
(* long ago, comes too late to take the number back.                       *)
OnlyForcedSetsBack ==
    \A w \in Workers :
       pc[w] = "send" => reply[w].num >= job[w].num \/ w \in overtaken

(* As long as statements only fail for a primary key that another server   *)
(* has just inserted, no server is left with a counter number that the     *)
(* table does not know, also not the one that lost its lock by it.         *)
NumbersAreStored ==
    \A s \in Servers :
       lock[s] \notin Workers => num[s] = 0 \/ \E r \in db : r.num = num[s]

(* What one server has stored gets to every other that is asked again and  *)
(* again, over the table alone, unless it has lost its lock.               *)
NewsSpreads ==
    \A s \in Servers, offer \in Offers :
       (\E r \in db : r.num = offer.num) ~> (num[s] >= offer.num \/ lock[s] = "leaked")
=============================================================================
