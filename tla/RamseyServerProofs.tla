------------------------- MODULE RamseyServerProofs -------------------------
(***************************************************************************)
(* What the coordinators keep for any number of servers, workers and       *)
(* graphs, with statements failing and servers restarting at any moment.   *)
(*                                                                         *)
(* The argument: the lock of a server is in the hands of the worker inside *)
(* updateState, if any; that worker writes its job into the memory piece   *)
(* by piece and lets the lock go only when the job is in the table, or     *)
(* never; so whoever finds the lock free finds in memory a row that was in *)
(* the table, and rows are replaced but never deleted.                     *)
(*                                                                         *)
(* A decision made without the lock is tested again under it, except in a  *)
(* forced update, so a number only falls behind a row that was read by the *)
(* hand of one of those.  A lock that is left behind by an INSERT leaves a *)
(* number in memory that the table holds too.                              *)
(*                                                                         *)
(* Last, one worker alone does what Coordinator says: it finds each of its *)
(* conditions still true when it acts upon it.                             *)
(* Only the refinement at the end uses the assumption on MAX_LEFT.         *)
(***************************************************************************)
EXTENDS RamseyServer, ServerAsCoordinator, FiniteSetTheorems, TLAPS

(* The lock and the workers' places agree. *)
LockInv == \A w \in Workers : pc[w] \in Inside <=> lock[Host[w]] = w

(* The places from which no move of OutsideStep needs more than that. *)
Outer == Inside \cup {"idle", "send"}

(* How much of its job the worker inside has written into the memory. *)
NumIsSet == {"setBest", "setGraph", "fillQueue", "dbRead", "update", "insert", "release"}
BestIsSet == NumIsSet \ {"setBest"}
GraphIsSet == BestIsSet \ {"setGraph"}

ProgressInv ==
    \A w \in Workers :
       /\ pc[w] \in NumIsSet => num[Host[w]] = job[w].num
       /\ pc[w] \in BestIsSet => best[Host[w]] = job[w].count
       /\ pc[w] \in GraphIsSet => graph[Host[w]] = job[w].graph

(* What was in the table: rows of the table, jobs read from it, jobs just  *)
(* written to it, the memory under a free lock, and replies.               *)
StoredInv ==
    /\ db \subseteq written
    /\ \A e \in written : \E r \in db : r.num = e.num
    /\ \A w \in Workers : pc[w] = "idle" => path[w] = "offer"
    /\ \A w \in Workers : path[w] = "dbRow" => job[w] \in written
    /\ \A w \in Workers : pc[w] = "release" => job[w] \in written
    /\ \A s \in Servers : lock[s] = "free" => Entry(s) \in written \cup {Blank}
    /\ RepliesWereStored

IInv == TypeOK /\ LockInv /\ ProgressInv /\ StoredInv

-----------------------------------------------------------------------------
LEMMA ShareOfNat ==
    ASSUME NEW g \in Graphs \cup {NoGraph}, NEW s
    PROVE  Share(Ones[g], s) \subseteq Nat
  BY ServerAssumption DEF Share

LEMMA IndexesAreNat ==
    ASSUME NEW e \in Entries, NEW s
    PROVE  IndexesFor(e, s) \subseteq Nat
  BY ShareOfNat DEF IndexesFor, Entries

LEMMA HostIsServer == ASSUME NEW w \in Workers PROVE Host[w] \in Servers
  BY ServerAssumption

LEMMA BlankIsEntry == Blank \in Entries
  BY ServerAssumption DEF Blank, Entries

LEMMA OffersAreEntries == Offers \subseteq Entries
  BY ServerAssumption DEF Entries

LEMMA LoadedIsStored ==
    ASSUME TypeOK, db \subseteq written
    PROVE  /\ Loaded \in Entries /\ Loaded \in written \cup {Blank}
           /\ MaxRows # {} => MaxRow \in db /\ MaxRow \in Entries
<1>1. MaxRows \subseteq db  BY DEF MaxRows
<1>2. MaxRows # {} => MaxRow \in MaxRows  BY DEF MaxRow
<1> QED  BY <1>1, <1>2, BlankIsEntry DEF Loaded, TypeOK

(* An entry is the record of its three fields. *)
LEMMA EntryIs ==
    ASSUME NEW e \in Entries, NEW s, num[s] = e.num, best[s] = e.count, graph[s] = e.graph
    PROVE  Entry(s) = e
  BY DEF Entries, Entry

(* Servers start from a row of the table, or blank. *)
LEMMA InitIInv == Init => IInv
<1> SUFFICES ASSUME Init PROVE IInv
  OBVIOUS
<1>1. db \subseteq Entries
  BY OffersAreEntries DEF Init
<1>2. Loaded \in Entries /\ Loaded \in db \cup {Blank}
  <2>1. MaxRows \subseteq db  BY DEF MaxRows
  <2>2. MaxRows # {} => MaxRow \in MaxRows  BY DEF MaxRow
  <2> QED  BY <1>1, <2>1, <2>2, BlankIsEntry DEF Loaded
<1>3. Loaded.num \in Nat /\ Loaded.count \in Nat /\ Loaded.graph \in Graphs \cup {NoGraph}
  BY <1>2 DEF Entries
<1>4. TypeOK
  <2>1. queue \in [Servers -> SUBSET Nat]
    BY <1>2, IndexesAreNat DEF Init
  <2> QED  BY <1>1, <1>3, <2>1, BlankIsEntry DEF Init, TypeOK, Places
<1>5. LockInv
  BY ServerAssumption DEF Init, LockInv, Inside
<1>6. ProgressInv
  BY DEF Init, ProgressInv, NumIsSet, BestIsSet, GraphIsSet
<1>7. StoredInv
  <2>1. \A s \in Servers : Entry(s) = Loaded
    <3>1. \A s \in Servers : num[s] = Loaded.num /\ best[s] = Loaded.count /\ graph[s] = Loaded.graph
      BY DEF Init
    <3> QED  BY <1>2, <3>1, EntryIs
  <2> QED  BY <1>2, <2>1 DEF Init, StoredInv, RepliesWereStored
<1> QED  BY <1>4, <1>5, <1>6, <1>7 DEF IInv

-----------------------------------------------------------------------------
(* At most one worker of a server is inside. *)
LEMMA Alone ==
    ASSUME LockInv, NEW w \in Workers, NEW u \in Workers,
           pc[w] \in Inside, pc[u] \in Inside, Host[u] = Host[w]
    PROVE  u = w
  BY DEF LockInv

(* What Goto does to the places. *)
LEMMA GotoPlaces ==
    ASSUME TypeOK, NEW w \in Workers, NEW q \in Places, Goto(w, q)
    PROVE  /\ pc' \in [Workers -> Places]
           /\ pc'[w] = q
           /\ \A u \in Workers : u # w => pc'[u] = pc[u]
  BY DEF TypeOK, Goto

(* A worker outside moves to another place outside: whatever it does to    *)
(* the queue and to its own locals, the invariant does not depend on it.   *)
LEMMA OutsideStep ==
    ASSUME IInv, TypeOK', NEW w \in Workers, NEW q \in Places \ Outer,
           pc[w] \notin Inside, Goto(w, q),
           UNCHANGED <<num, best, graph, lock, db, written, reply>>,
           \A u \in Workers : u # w => path'[u] = path[u] /\ job'[u] = job[u],
           path'[w] = "dbRow" => job'[w] \in written
    PROVE  IInv'
<1> USE DEF IInv
<1>1. pc'[w] = q /\ \A u \in Workers : u # w => pc'[u] = pc[u]
  BY GotoPlaces
<1>2. LockInv'  BY <1>1 DEF LockInv, Outer
<1>3. ProgressInv'
  BY <1>1 DEF ProgressInv, NumIsSet, BestIsSet, GraphIsSet, Inside, Outer
<1>4. StoredInv'
  BY <1>1 DEF StoredInv, RepliesWereStored, Entry, Inside, Outer
<1> QED  BY <1>2, <1>3, <1>4

(* A worker forgets its locals, having left the lock to no other worker. *)
LEMMA ForgetStep ==
    ASSUME IInv, NEW ws \in SUBSET Workers, Forget(ws),
           \A u \in Workers \ ws : lock'[Host[u]] = u <=> lock[Host[u]] = u,
           \A u \in ws : lock'[Host[u]] # u
    PROVE  /\ LockInv'
           /\ pc' \in [Workers -> Places]
           /\ path' \in [Workers -> {"offer", "found", "forced", "dbRow"}]
           /\ job' \in [Workers -> Entries] /\ wants' \in [Workers -> BOOLEAN]
           /\ fileNum' \in [Workers -> Nat]
           /\ index' \in [Workers -> Int] /\ reply' \in [Workers -> Entries]
           /\ overtaken' \subseteq Workers
           /\ \A u \in ws : pc'[u] = "idle" /\ path'[u] = "offer"
           /\ \A u \in Workers \ ws : /\ pc'[u] = pc[u] /\ path'[u] = path[u]
                                      /\ job'[u] = job[u] /\ reply'[u] = reply[u]
<1> USE DEF IInv
<1>1. /\ pc' \in [Workers -> Places]
      /\ \A u \in ws : pc'[u] = "idle" /\ path'[u] = "offer"
      /\ \A u \in Workers \ ws : /\ pc'[u] = pc[u] /\ path'[u] = path[u]
                                 /\ job'[u] = job[u] /\ reply'[u] = reply[u]
  BY DEF Forget, TypeOK, Places
<1>2. /\ path' \in [Workers -> {"offer", "found", "forced", "dbRow"}]
      /\ job' \in [Workers -> Entries] /\ wants' \in [Workers -> BOOLEAN]
      /\ fileNum' \in [Workers -> Nat]
      /\ index' \in [Workers -> Int] /\ reply' \in [Workers -> Entries]
  <2>1. job' \in [Workers -> Entries]  BY BlankIsEntry DEF Forget, TypeOK
  <2>2. reply' \in [Workers -> Entries]  BY BlankIsEntry DEF Forget, TypeOK
  <2>3. path' \in [Workers -> {"offer", "found", "forced", "dbRow"}]
    BY DEF Forget, TypeOK
  <2>4. wants' \in [Workers -> BOOLEAN]  BY DEF Forget, TypeOK
  <2>5. fileNum' \in [Workers -> Nat]  BY DEF Forget, TypeOK
  <2>6. index' \in [Workers -> Int]  BY DEF Forget, TypeOK
  <2> QED  BY <2>1, <2>2, <2>3, <2>4, <2>5, <2>6
<1>3. LockInv'  BY <1>1 DEF LockInv, Inside
<1>4. overtaken' \subseteq Workers  BY DEF Forget, TypeOK
<1> QED  BY <1>1, <1>2, <1>3, <1>4

-----------------------------------------------------------------------------
(* The conditions of handleNewCounterExample and updateStateFromDB. *)
LEMMA BranchStep ==
    ASSUME IInv, NEW w \in Workers, NEW here \in Places \ Inside, NEW test,
           NEW yes \in Places \ Outer,
           NEW no \in Places \ Outer,
           Branch(w, here, test, yes, no)
    PROVE  IInv'
<1> DEFINE q == IF test THEN yes ELSE no
<1>1. q \in Places \ Outer /\ Goto(w, q)  BY DEF Branch
<1> HIDE DEF q
<1>2. TypeOK'
  <2>1. TypeOK  BY DEF IInv
  <2>2. pc' \in [Workers -> Places]  BY <1>1, <2>1, GotoPlaces
  <2> QED
    BY <2>1, <2>2 DEF Branch, TypeOK, memory, store, request, answer
<1>3. path[w] = "dbRow" => job[w] \in written  BY DEF IInv, StoredInv
<1>4. /\ UNCHANGED <<num, best, graph, lock, db, written, reply>>
      /\ path' = path /\ job' = job /\ pc[w] \notin Inside
  BY DEF Branch, memory, store, request, answer
<1> QED  BY <1>1, <1>2, <1>3, <1>4, OutsideStep

LEMMA CallStep ==
    ASSUME IInv, NEW w \in Workers, NEW here \in Places \ Inside, NEW test,
           NEW branch \in {"offer", "found", "forced"},
           NEW no \in Places \ Outer,
           CallUpdateState(w, here, test, branch, no)
    PROVE  IInv'
<1> DEFINE q == IF test THEN "acquire" ELSE no
<1>1. q \in Places \ Outer /\ Goto(w, q)
  BY DEF CallUpdateState, Places, Inside, Outer
<1> HIDE DEF q
<1>2. TypeOK  BY DEF IInv
<1>3. /\ path' \in [Workers -> {"offer", "found", "forced", "dbRow"}]
      /\ \A u \in Workers : u # w => path'[u] = path[u]
      /\ path'[w] = "dbRow" => path[w] = "dbRow"
  BY <1>2 DEF CallUpdateState, TypeOK
<1>4. TypeOK'
  <2>1. pc' \in [Workers -> Places]  BY <1>1, <1>2, GotoPlaces
  <2> QED
    BY <1>2, <1>3, <2>1 DEF CallUpdateState, TypeOK, memory, store, answer
<1>5. path'[w] = "dbRow" => job'[w] \in written
  BY <1>3 DEF IInv, StoredInv, CallUpdateState
<1> QED
  BY <1>1, <1>3, <1>4, <1>5, OutsideStep
     DEF CallUpdateState, memory, store, answer

LEMMA DecideStep ==
    ASSUME IInv, NEW w \in Workers, Decide(w)
    PROVE  IInv'
<1> USE DEF Places, Inside, Outer
<1>1. CASE SameNumber(w)
  <2> DEFINE yes == IF job[w].count = 0 THEN "zero" ELSE "improves"
  <2>1. yes \in Places \ Outer  OBVIOUS
  <2>2. Branch(w, "same", job[w].num = num[Host[w]], yes, "newer")
    BY <1>1 DEF SameNumber
  <2> HIDE DEF yes
  <2> QED  BY <2>1, <2>2, BranchStep
<1>2. CASE Zero(w)  BY <1>2, CallStep DEF Zero
<1>3. CASE Newer(w)  BY <1>3, CallStep DEF Newer
<1>4. CASE Improves(w)  BY <1>4, BranchStep DEF Improves
<1>5. CASE Drained(w)  BY <1>5, BranchStep DEF Drained
<1>6. CASE Differs(w)  BY <1>6, CallStep DEF Differs
<1>7. CASE StillOpen(w)  BY <1>7, BranchStep DEF StillOpen
<1>8. CASE DrainedToo(w)  BY <1>8, BranchStep DEF DrainedToo
<1>9. CASE DiffersToo(w)  BY <1>9, CallStep DEF DiffersToo
<1> QED
  BY <1>1, <1>2, <1>3, <1>4, <1>5, <1>6, <1>7, <1>8, <1>9 DEF Decide

LEMMA ReceiveStep ==
    ASSUME IInv, NEW w \in Workers, Receive(w)
    PROVE  IInv'
<1>1. TypeOK /\ pc[w] = "idle" /\ Goto(w, "same")  BY DEF IInv, Receive
<1>2. PICK offer \in Offers, asks \in BOOLEAN :
         job' = [job EXCEPT ![w] = offer] /\ wants' = [wants EXCEPT ![w] = asks]
  BY DEF Receive
<1>3. offer \in Entries  BY OffersAreEntries
<1>4. TypeOK'
  <2>1. pc' \in [Workers -> Places]  BY <1>1, GotoPlaces DEF Places
  <2> QED
    BY <1>1, <1>2, <1>3, <2>1 DEF Receive, TypeOK, memory, store, answer
<1>5. /\ UNCHANGED <<num, best, graph, lock, db, written, reply>>
      /\ path' = path /\ path[w] = "offer"
      /\ \A u \in Workers : u # w => job'[u] = job[u]
  BY <1>1, <1>2 DEF Receive, memory, store, answer, IInv, StoredInv, TypeOK
<1> QED  BY <1>1, <1>4, <1>5, OutsideStep DEF Places, Inside, Outer

-----------------------------------------------------------------------------
(* updateState: a worker inside moves one place further.  The other        *)
(* workers of its server are outside, and no other server is touched.      *)
LEMMA InsideStep ==
    ASSUME IInv, TypeOK', NEW w \in Workers, NEW q \in Inside,
           pc[w] \in Inside, Goto(w, q),
           UNCHANGED <<lock, path, job, reply>>,
           \A s \in Servers : s # Host[w] =>
              num'[s] = num[s] /\ best'[s] = best[s] /\ graph'[s] = graph[s],
           q \in NumIsSet => num'[Host[w]] = job[w].num,
           q \in BestIsSet => best'[Host[w]] = job[w].count,
           q \in GraphIsSet => graph'[Host[w]] = job[w].graph,
           db' \subseteq written', written \subseteq written',
           \A e \in written' : \E r \in db' : r.num = e.num,
           q = "release" => job[w] \in written'
    PROVE  IInv'
<1> USE DEF IInv
<1>0. q \in Places  BY DEF Inside, Places
<1>1. pc'[w] = q /\ \A u \in Workers : u # w => pc'[u] = pc[u]
  BY <1>0, GotoPlaces
<1>2. LockInv'  BY <1>1 DEF LockInv
<1>3. \A u \in Workers : u # w /\ pc[u] \in Inside => Host[u] # Host[w]
  BY Alone
<1>4. ASSUME NEW u \in Workers
      PROVE  /\ pc'[u] \in NumIsSet => num'[Host[u]] = job'[u].num
             /\ pc'[u] \in BestIsSet => best'[Host[u]] = job'[u].count
             /\ pc'[u] \in GraphIsSet => graph'[Host[u]] = job'[u].graph
  <2>1. CASE u = w  BY <1>1, <2>1
  <2>2. CASE u # w
    <3>1. pc'[u] \in NumIsSet => pc[u] \in Inside
      BY <1>1, <2>2 DEF Inside, NumIsSet
    <3>2. BestIsSet \subseteq NumIsSet /\ GraphIsSet \subseteq NumIsSet
      BY DEF BestIsSet, GraphIsSet
    <3> QED  BY <1>1, <1>3, <2>2, <3>1, <3>2, HostIsServer DEF ProgressInv
  <2> QED  BY <2>1, <2>2
<1>5. ASSUME NEW s \in Servers, lock'[s] = "free"
      PROVE  Entry(s)' \in written' \cup {Blank}
  <2>1. lock[s] = "free" /\ s # Host[w]
    <3>1. lock[Host[w]] = w  BY DEF LockInv
    <3> QED  BY <1>5, <3>1, ServerAssumption
  <2>2. Entry(s)' = Entry(s)  BY <2>1 DEF Entry
  <2> QED  BY <2>1, <2>2 DEF StoredInv
<1>6. \A u \in Workers : pc'[u] = "send" => pc[u] = "send"
  BY <1>1 DEF Inside
<1>7. \A u \in Workers : /\ pc'[u] = "idle" => path'[u] = "offer"
                         /\ path'[u] = "dbRow" => job'[u] \in written'
                         /\ pc'[u] = "release" => job'[u] \in written'
                         /\ pc'[u] = "send" => reply'[u] \in written' \cup {Blank}
  BY <1>1, <1>6 DEF StoredInv, RepliesWereStored, Inside
<1>8. StoredInv'  BY <1>5, <1>7 DEF StoredInv, RepliesWereStored
<1> QED  BY <1>2, <1>4, <1>8 DEF ProgressInv

LEMMA AcquireStep ==
    ASSUME IInv, NEW w \in Workers, Acquire(w)
    PROVE  IInv'
<1> USE DEF IInv
<1>0. TypeOK /\ lock[Host[w]] = "free" /\ pc[w] = "acquire" /\ Host[w] \in Servers
  BY HostIsServer DEF Acquire, Enter, Accepted
<1>1. /\ UNCHANGED <<num, best, graph, queue, db, written, path, job, wants, fileNum, index,
                     reply, published>>
      /\ overtaken' \subseteq Workers
  BY <1>0 DEF Acquire, Enter, TypeOK, memory, store, answer
<1>2. CASE Goto(w, Return[path[w]]) /\ lock' = lock
  <2>1. Return[path[w]] \in Places \ Outer
    BY <1>0 DEF TypeOK, Return, Places, Outer, Inside
  <2>2. TypeOK'
    <3>1. pc' \in [Workers -> Places]  BY <1>0, <1>2, <2>1, GotoPlaces
    <3> QED  BY <1>0, <1>1, <1>2, <3>1 DEF TypeOK
  <2>3. path[w] = "dbRow" => job[w] \in written  BY DEF StoredInv
  <2> QED  BY <1>0, <1>1, <1>2, <2>1, <2>2, <2>3, OutsideStep DEF Inside
<1>3. CASE Goto(w, "setNum") /\ lock' = [lock EXCEPT ![Host[w]] = w]
  <2>1. /\ pc' \in [Workers -> Places] /\ pc'[w] = "setNum"
        /\ \A u \in Workers : u # w => pc'[u] = pc[u]
    BY <1>0, <1>3, GotoPlaces DEF Places
  <2>2. /\ lock' \in [Servers -> Workers \cup {"free", "leaked"}]
        /\ lock'[Host[w]] = w
        /\ \A s \in Servers : s # Host[w] => lock'[s] = lock[s]
    BY <1>0, <1>3 DEF TypeOK
  <2>3. TypeOK'  BY <1>0, <1>1, <2>1, <2>2 DEF TypeOK
  <2>4. LockInv'
    <3>1. ASSUME NEW u \in Workers PROVE pc'[u] \in Inside <=> lock'[Host[u]] = u
      <4>1. CASE u = w  BY <2>1, <2>2, <4>1 DEF Inside
      <4>2. CASE u # w /\ Host[u] = Host[w]
        <5>1. pc[u] \notin Inside  BY <1>0, <4>2, ServerAssumption DEF LockInv
        <5> QED  BY <2>1, <2>2, <4>2, <5>1
      <4>3. CASE u # w /\ Host[u] # Host[w]
        BY <2>1, <2>2, <4>3, HostIsServer DEF LockInv
      <4> QED  BY <4>1, <4>2, <4>3
    <3> QED  BY <3>1 DEF LockInv
  <2>5. ProgressInv'
    BY <1>1, <2>1 DEF ProgressInv, NumIsSet, BestIsSet, GraphIsSet
  <2>6. StoredInv'
    <3>1. \A s \in Servers : lock'[s] = "free" => lock[s] = "free"
      BY <1>0, <2>2
    <3> QED
      BY <1>1, <2>1, <3>1 DEF StoredInv, RepliesWereStored, Entry
  <2> QED  BY <2>3, <2>4, <2>5, <2>6
<1> QED
  <2> DEFINE accepted == Supersedes(job[w], Host[w]) \/ path[w] = "forced"
  <2>1. CASE accepted  BY <2>1, <1>3 DEF Acquire, Enter, Accepted
  <2>2. CASE ~accepted
    <3>1. lock' = lock  BY <1>0, <2>2 DEF Acquire, Enter, Accepted, TypeOK
    <3> QED  BY <2>2, <3>1, <1>2 DEF Acquire, Enter, Accepted
  <2> QED  BY <2>1, <2>2

(* The table under Put: the entry replaces the row of its number, if any. *)
LEMMA PutStep ==
    ASSUME IInv, NEW e \in Entries, Put(e)
    PROVE  /\ db' \subseteq Entries /\ written' \subseteq Entries
           /\ db' \subseteq written' /\ written \subseteq written'
           /\ e \in written'
           /\ \A f \in written' : \E r \in db' : r.num = f.num
<1> USE DEF IInv
<1>1. /\ db' \subseteq Entries /\ written' \subseteq Entries
      /\ db' \subseteq written' /\ written \subseteq written'
      /\ e \in written'
  BY DEF Put, TypeOK, StoredInv
<1>2. ASSUME NEW f \in written'
      PROVE  \E r \in db' : r.num = f.num
  <2>0. e \in db'  BY DEF Put
  <2>1. CASE f.num = e.num  BY <2>0, <2>1
  <2>2. CASE f.num # e.num
    <3>1. f \in written  BY <2>2 DEF Put
    <3>2. PICK r \in db : r.num = f.num  BY <3>1 DEF StoredInv
    <3>3. r \in db'  BY <3>2, <2>2 DEF Put
    <3> QED  BY <3>2, <3>3
  <2> QED  BY <2>1, <2>2
<1> QED  BY <1>1, <1>2

LEMMA SetStep ==
    ASSUME IInv, NEW w \in Workers,
           SetNum(w) \/ SetBest(w) \/ SetGraph(w) \/ FillIndexQueue(w)
    PROVE  IInv'
<1> USE DEF IInv
<1>0. TypeOK /\ Host[w] \in Servers /\ job[w] \in Entries
  BY HostIsServer DEF TypeOK
<1>1. /\ job[w].num \in Nat /\ job[w].count \in Nat
      /\ job[w].graph \in Graphs \cup {NoGraph}
  BY <1>0 DEF Entries
<1>2. db \subseteq written /\ \A e \in written : \E r \in db : r.num = e.num
  BY DEF StoredInv
<1>3. /\ pc[w] \in NumIsSet => num[Host[w]] = job[w].num
      /\ pc[w] \in BestIsSet => best[Host[w]] = job[w].count
      /\ pc[w] \in GraphIsSet => graph[Host[w]] = job[w].graph
  BY DEF ProgressInv
<1>4. /\ UNCHANGED <<lock, path, job, wants, overtaken, reply, fileNum, index, db, written, published>>
  BY DEF SetNum, SetBest, SetGraph, FillIndexQueue, Set, store, request, answer
<1> USE DEF NumIsSet, BestIsSet, GraphIsSet
<1>5. CASE SetNum(w)
  <2>1. Goto(w, "setBest") /\ pc[w] = "setNum"  BY <1>5 DEF SetNum, Set
  <2>2. /\ num' \in [Servers -> Nat] /\ num'[Host[w]] = job[w].num
        /\ \A s \in Servers : s # Host[w] => num'[s] = num[s]
        /\ UNCHANGED <<best, graph, queue>>
    BY <1>0, <1>1, <1>5 DEF SetNum, TypeOK
  <2>3. pc' \in [Workers -> Places]  BY <1>0, <2>1, GotoPlaces DEF Places
  <2>4. TypeOK'  BY <1>0, <1>4, <2>2, <2>3 DEF TypeOK
  <2> QED  BY <1>2, <1>4, <2>1, <2>2, <2>4, InsideStep DEF Inside
<1>6. CASE SetBest(w)
  <2>1. Goto(w, "setGraph") /\ pc[w] = "setBest"  BY <1>6 DEF SetBest, Set
  <2>2. /\ best' \in [Servers -> Nat] /\ best'[Host[w]] = job[w].count
        /\ \A s \in Servers : s # Host[w] => best'[s] = best[s]
        /\ UNCHANGED <<num, graph, queue>>
    BY <1>0, <1>1, <1>6 DEF SetBest, TypeOK
  <2>3. pc' \in [Workers -> Places]  BY <1>0, <2>1, GotoPlaces DEF Places
  <2>4. TypeOK'  BY <1>0, <1>4, <2>2, <2>3 DEF TypeOK
  <2> QED  BY <1>2, <1>3, <1>4, <2>1, <2>2, <2>4, InsideStep DEF Inside
<1>7. CASE SetGraph(w)
  <2>1. Goto(w, "fillQueue") /\ pc[w] = "setGraph"  BY <1>7 DEF SetGraph, Set
  <2>2. /\ graph' \in [Servers -> Graphs \cup {NoGraph}]
        /\ graph'[Host[w]] = job[w].graph
        /\ \A s \in Servers : s # Host[w] => graph'[s] = graph[s]
        /\ UNCHANGED <<num, best, queue>>
    BY <1>0, <1>1, <1>7 DEF SetGraph, TypeOK
  <2>3. pc' \in [Workers -> Places]  BY <1>0, <2>1, GotoPlaces DEF Places
  <2>4. TypeOK'  BY <1>0, <1>4, <2>2, <2>3 DEF TypeOK
  <2> QED  BY <1>2, <1>3, <1>4, <2>1, <2>2, <2>4, InsideStep DEF Inside
<1>8. CASE FillIndexQueue(w)
  <2> DEFINE q == IF path[w] = "dbRow" THEN "release" ELSE "dbRead"
  <2>1. Goto(w, q) /\ pc[w] = "fillQueue"  BY <1>8 DEF FillIndexQueue, Set
  <2>2. q \in {"release", "dbRead"} /\ (q = "release" => job[w] \in written)
    BY DEF StoredInv
  <2> HIDE DEF q
  <2>3. Entry(Host[w]) \in Entries
    BY <1>0 DEF TypeOK, Entry, Entries
  <2>4. queue' \in [Servers -> SUBSET Nat] /\ UNCHANGED <<num, best, graph>>
    BY <1>0, <1>8, <2>3, IndexesAreNat DEF FillIndexQueue, TypeOK
  <2>5. pc' \in [Workers -> Places]  BY <1>0, <2>1, <2>2, GotoPlaces DEF Places
  <2>6. TypeOK'  BY <1>0, <1>4, <2>4, <2>5 DEF TypeOK
  <2> QED  BY <1>2, <1>3, <1>4, <2>1, <2>2, <2>4, <2>6, InsideStep DEF Inside
<1> QED  BY <1>5, <1>6, <1>7, <1>8

LEMMA DbReadStep ==
    ASSUME IInv, NEW w \in Workers, DbRead(w)
    PROVE  IInv'
<1> USE DEF IInv, NumIsSet, BestIsSet, GraphIsSet
<1> DEFINE q == IF \E r \in db : r.num = job[w].num THEN "update" ELSE "insert"
<1>1. Goto(w, q) /\ pc[w] = "dbRead" /\ q \in {"update", "insert"}
  BY DEF DbRead, Branch
<1> HIDE DEF q
<1>2. UNCHANGED <<num, best, graph, queue, lock, db, written, path, job, wants, overtaken,
                  fileNum, index, reply, published>>
  BY DEF DbRead, Branch, memory, store, request, answer
<1>3. pc' \in [Workers -> Places]  BY <1>1, GotoPlaces DEF Places
<1>4. TypeOK'  BY <1>2, <1>3 DEF TypeOK
<1>5. db \subseteq written /\ \A e \in written : \E r \in db : r.num = e.num
  BY DEF StoredInv
<1>6. /\ num[Host[w]] = job[w].num /\ best[Host[w]] = job[w].count
      /\ graph[Host[w]] = job[w].graph
  BY <1>1 DEF ProgressInv
<1> QED  BY <1>1, <1>2, <1>4, <1>5, <1>6, InsideStep DEF Inside

LEMMA WriteStep ==
    ASSUME IInv, NEW w \in Workers, pc[w] \in {"update", "insert"}, Write(w)
    PROVE  IInv'
<1> USE DEF IInv, NumIsSet, BestIsSet, GraphIsSet
<1>1. Goto(w, "release") /\ Put(job[w]) /\ job[w] \in Entries
  BY DEF Write, TypeOK
<1>2. UNCHANGED <<num, best, graph, queue, lock, path, job, wants, overtaken,
                  fileNum, index, reply, published>>
  BY DEF Write, memory, request, answer
<1>3. pc' \in [Workers -> Places]  BY <1>1, GotoPlaces DEF Places
<1>4. /\ db' \subseteq Entries /\ written' \subseteq Entries
      /\ db' \subseteq written' /\ written \subseteq written'
      /\ job[w] \in written'
      /\ \A f \in written' : \E r \in db' : r.num = f.num
  BY <1>1, PutStep
<1>5. TypeOK'  BY <1>2, <1>3, <1>4 DEF TypeOK
<1>6. /\ num[Host[w]] = job[w].num /\ best[Host[w]] = job[w].count
      /\ graph[Host[w]] = job[w].graph
  BY DEF ProgressInv
<1> QED  BY <1>1, <1>2, <1>4, <1>5, <1>6, InsideStep DEF Inside

(* The lock is let go with the job in the memory and in the table. *)
LEMMA ReleaseStep ==
    ASSUME IInv, NEW w \in Workers, Release(w)
    PROVE  IInv'
<1> USE DEF IInv
<1>0. TypeOK /\ pc[w] = "release" /\ Host[w] \in Servers /\ job[w] \in Entries
  BY HostIsServer DEF Release, TypeOK
<1>1. UNCHANGED <<num, best, graph, queue, db, written, path, job, wants, overtaken,
                  fileNum, index, reply, published>>
  BY DEF Release, memory, store, request, answer
<1>2. Return[path[w]] \in Places \ Outer /\ Goto(w, Return[path[w]])
  BY <1>0 DEF TypeOK, Return, Places, Outer, Inside, Release
<1>3. /\ pc' \in [Workers -> Places] /\ pc'[w] \notin Outer
      /\ \A u \in Workers : u # w => pc'[u] = pc[u]
  BY <1>0, <1>2, GotoPlaces
<1>4. /\ lock' \in [Servers -> Workers \cup {"free", "leaked"}]
      /\ lock'[Host[w]] = "free"
      /\ \A s \in Servers : s # Host[w] => lock'[s] = lock[s]
  BY <1>0 DEF Release, TypeOK
<1>5. TypeOK'  BY <1>0, <1>1, <1>3, <1>4 DEF TypeOK
<1>6. LockInv'
  <2>1. ASSUME NEW u \in Workers PROVE pc'[u] \in Inside <=> lock'[Host[u]] = u
    <3>1. CASE u = w  BY <1>3, <1>4, <3>1, ServerAssumption DEF Outer
    <3>2. CASE u # w /\ Host[u] = Host[w]
      <4>1. lock[Host[w]] = w  BY <1>0 DEF LockInv, Inside
      <4>2. pc[u] \notin Inside  BY <3>2, <4>1 DEF LockInv
      <4> QED  BY <1>3, <1>4, <3>2, <4>2, ServerAssumption
    <3>3. CASE u # w /\ Host[u] # Host[w]
      BY <1>3, <1>4, <3>3, HostIsServer DEF LockInv
    <3> QED  BY <3>1, <3>2, <3>3
  <2> QED  BY <2>1 DEF LockInv
<1>7. ProgressInv'
  BY <1>1, <1>3 DEF ProgressInv, NumIsSet, BestIsSet, GraphIsSet, Outer, Inside
<1>8. StoredInv'
  <2>1. Entry(Host[w]) = job[w]
    BY <1>0, EntryIs DEF ProgressInv, NumIsSet, BestIsSet, GraphIsSet
  <2>2. job[w] \in written  BY <1>0 DEF StoredInv
  <2>3. \A s \in Servers : lock'[s] = "free" => Entry(s) \in written \cup {Blank}
    BY <1>4, <2>1, <2>2 DEF StoredInv
  <2>4. \A u \in Workers : pc'[u] \in {"idle", "release", "send"} => pc[u] = pc'[u]
    BY <1>3 DEF Outer, Inside
  <2>5. /\ \A s \in Servers : Entry(s)' = Entry(s)
        /\ Blank' = Blank
    BY <1>1 DEF Entry, Blank
  <2> QED
    BY <1>1, <2>3, <2>4, <2>5 DEF StoredInv, RepliesWereStored
<1> QED  BY <1>5, <1>6, <1>7, <1>8

-----------------------------------------------------------------------------
(* An exception: the lock of a worker inside is left for ever, so nobody   *)
(* will look at the memory it leaves half persisted.                       *)
LEMMA RaiseStep ==
    ASSUME IInv, NEW w \in Workers, Raise(w),
           db' \subseteq Entries, written' \subseteq Entries,
           db' \subseteq written', written \subseteq written',
           \A f \in written' : \E r \in db' : r.num = f.num
    PROVE  IInv'
<1> USE DEF IInv
<1>0. TypeOK /\ Host[w] \in Servers /\ Forget({w})
  BY HostIsServer DEF Raise
<1>1. UNCHANGED <<num, best, graph, queue, published>>
  BY DEF Raise, memory
<1>2. /\ lock' \in [Servers -> Workers \cup {"free", "leaked"}]
      /\ lock'[Host[w]] = IF lock[Host[w]] = w THEN "leaked" ELSE lock[Host[w]]
      /\ \A s \in Servers : s # Host[w] => lock'[s] = lock[s]
  BY <1>0 DEF Raise, TypeOK
<1>3. \A u \in Workers \ {w} : lock'[Host[u]] = u <=> lock[Host[u]] = u
  <2>1. ASSUME NEW u \in Workers \ {w}
        PROVE  lock'[Host[u]] = u <=> lock[Host[u]] = u
    <3>1. CASE Host[u] = Host[w]  BY <1>2, <3>1, ServerAssumption
    <3>2. CASE Host[u] # Host[w]  BY <1>2, <3>2, HostIsServer
    <3> QED  BY <3>1, <3>2
  <2> QED  BY <2>1
<1>4. lock'[Host[w]] # w  BY <1>2, ServerAssumption
<1>5. /\ LockInv'
      /\ pc' \in [Workers -> Places]
      /\ path' \in [Workers -> {"offer", "found", "forced", "dbRow"}]
      /\ job' \in [Workers -> Entries] /\ wants' \in [Workers -> BOOLEAN]
      /\ fileNum' \in [Workers -> Nat]
      /\ index' \in [Workers -> Int] /\ reply' \in [Workers -> Entries]
      /\ overtaken' \subseteq Workers
      /\ pc'[w] = "idle" /\ path'[w] = "offer"
      /\ \A u \in Workers \ {w} : /\ pc'[u] = pc[u] /\ path'[u] = path[u]
                                  /\ job'[u] = job[u] /\ reply'[u] = reply[u]
  BY <1>0, <1>3, <1>4, ForgetStep
<1>6. TypeOK'  BY <1>0, <1>1, <1>2, <1>5 DEF TypeOK
<1>7. ProgressInv'
  BY <1>1, <1>5 DEF ProgressInv, NumIsSet, BestIsSet, GraphIsSet
<1>8. StoredInv'
  <2>1. \A s \in Servers : lock'[s] = "free" => lock[s] = "free"
    BY <1>2
  <2>2. /\ \A s \in Servers : Entry(s)' = Entry(s)
        /\ Blank' = Blank
    BY <1>1 DEF Entry, Blank
  <2>3. \A u \in Workers : pc'[u] \in {"release", "send"} => u # w
    BY <1>5
  <2> QED  BY <1>5, <2>1, <2>2, <2>3 DEF StoredInv, RepliesWereStored
<1> QED  BY <1>5, <1>6, <1>7, <1>8

LEMMA TableKept ==
    ASSUME IInv, UNCHANGED store
    PROVE  /\ db' \subseteq Entries /\ written' \subseteq Entries
           /\ db' \subseteq written' /\ written \subseteq written'
           /\ \A f \in written' : \E r \in db' : r.num = f.num
  BY DEF IInv, TypeOK, StoredInv, store

LEMMA DbFailsStep ==
    ASSUME IInv, NEW w \in Workers, DbFails(w)
    PROVE  IInv'
<1>1. Raise(w)  BY DEF DbFails
<1>2. CASE UNCHANGED store  BY <1>1, <1>2, TableKept, RaiseStep
<1>3. CASE Put(job[w])
  <2>1. job[w] \in Entries  BY DEF IInv, TypeOK
  <2> QED  BY <1>1, <1>3, <2>1, PutStep, RaiseStep
<1> QED  BY <1>2, <1>3 DEF DbFails

LEMMA UpdateStateStep ==
    ASSUME IInv, NEW w \in Workers, UpdateState(w)
    PROVE  IInv'
<1>1. CASE Acquire(w)  BY <1>1, AcquireStep
<1>2. CASE SetNum(w) \/ SetBest(w) \/ SetGraph(w) \/ FillIndexQueue(w)
  BY <1>2, SetStep
<1>3. CASE DbRead(w)  BY <1>3, DbReadStep
<1>4. CASE Update(w)  BY <1>4, WriteStep DEF Update
<1>5. CASE Insert(w)
  <2>1. CASE Write(w)  BY <1>5, <2>1, WriteStep DEF Insert
  <2>2. CASE Raise(w) /\ UNCHANGED store  BY <2>2, TableKept, RaiseStep
  <2> QED  BY <1>5, <2>1, <2>2 DEF Insert
<1>6. CASE Release(w)  BY <1>6, ReleaseStep
<1> QED  BY <1>1, <1>2, <1>3, <1>4, <1>5, <1>6 DEF UpdateState

-----------------------------------------------------------------------------
(* replyToClient: the row just read was in the table; the snapshot is the  *)
(* memory under a free lock.                                               *)
LEMMA ReadMaxStep ==
    ASSUME IInv, NEW w \in Workers, ReadMaxNumFromDB(w)
    PROVE  IInv'
<1>1. CASE MaxRows = {}
  BY <1>1, TableKept, RaiseStep DEF ReadMaxNumFromDB
<1>2. CASE MaxRows # {}
  <2>0. TypeOK /\ pc[w] = "refresh" /\ db \subseteq written
    BY DEF IInv, StoredInv, ReadMaxNumFromDB
  <2>1. MaxRow \in written /\ MaxRow \in Entries
    BY <1>2, <2>0, LoadedIsStored
  <2>2. /\ Goto(w, "rowNewer")
        /\ job' = [job EXCEPT ![w] = MaxRow] /\ path' = [path EXCEPT ![w] = "dbRow"]
        /\ UNCHANGED <<num, best, graph, queue, lock, db, written, wants,
                       fileNum, index, reply, published>>
        /\ overtaken' \subseteq Workers
    BY <1>2, <2>0 DEF TypeOK, ReadMaxNumFromDB, memory, store, answer
  <2>3. pc' \in [Workers -> Places]  BY <2>0, <2>2, GotoPlaces DEF Places
  <2>4. TypeOK'  BY <2>0, <2>1, <2>2, <2>3 DEF TypeOK
  <2>5. /\ job'[w] = MaxRow
        /\ \A u \in Workers : u # w => path'[u] = path[u] /\ job'[u] = job[u]
    BY <2>0, <2>2 DEF TypeOK
  <2>6. "rowNewer" \in Places \ Outer /\ pc[w] \notin Inside
    BY <2>0 DEF Places, Outer, Inside
  <2> QED  BY <2>1, <2>2, <2>4, <2>5, <2>6, OutsideStep
<1> QED  BY <1>1, <1>2

LEMMA TakeIndexStep ==
    ASSUME IInv, NEW w \in Workers, GetAndSetNextIndex(w)
    PROVE  IInv'
<1>0. TypeOK /\ pc[w] = "takeIndex" /\ Goto(w, "snapshot") /\ Host[w] \in Servers
  BY HostIsServer DEF IInv, GetAndSetNextIndex
<1>1. UNCHANGED <<num, best, graph, lock, db, written, path, job, wants, overtaken,
                  fileNum, reply, published>>
  BY DEF GetAndSetNextIndex, store, request
<1>2. queue' \in [Servers -> SUBSET Nat] /\ index' \in [Workers -> Int]
  <2>1. CASE index' = [index EXCEPT ![w] = -1] /\ UNCHANGED queue
    BY <1>0, <2>1 DEF TypeOK
  <2>2. CASE \E i \in queue[Host[w]] :
                /\ index' = [index EXCEPT ![w] = i]
                /\ queue' = [queue EXCEPT ![Host[w]] = @ \ {i}]
    <3>1. PICK i \in queue[Host[w]] :
                /\ index' = [index EXCEPT ![w] = i]
                /\ queue' = [queue EXCEPT ![Host[w]] = @ \ {i}]
      BY <2>2
    <3>2. i \in Int /\ queue[Host[w]] \ {i} \subseteq Nat  BY <1>0 DEF TypeOK
    <3> QED  BY <1>0, <3>1, <3>2 DEF TypeOK
  <2> QED  BY <2>1, <2>2 DEF GetAndSetNextIndex
<1>3. pc' \in [Workers -> Places]  BY <1>0, GotoPlaces DEF Places
<1>4. TypeOK'  BY <1>0, <1>1, <1>2, <1>3 DEF TypeOK
<1>5. path[w] = "dbRow" => job[w] \in written  BY DEF IInv, StoredInv
<1>6. "snapshot" \in Places \ Outer /\ pc[w] \notin Inside
  BY <1>0 DEF Places, Outer, Inside
<1> QED  BY <1>0, <1>1, <1>4, <1>5, <1>6, OutsideStep

LEMMA SnapshotStep ==
    ASSUME IInv, NEW w \in Workers, Snapshot(w)
    PROVE  IInv'
<1> USE DEF IInv
<1>0. /\ TypeOK /\ pc[w] = "snapshot" /\ lock[Host[w]] = "free" /\ Host[w] \in Servers
      /\ reply' = [reply EXCEPT ![w] = Entry(Host[w])]
  BY HostIsServer DEF Snapshot
<1>1. UNCHANGED <<num, best, graph, queue, lock, db, written, path, job, wants, overtaken,
                  fileNum, index, published>>
  BY DEF Snapshot, memory, store, request
<1>2. /\ pc' \in [Workers -> Places] /\ pc'[w] = "send"
      /\ \A u \in Workers : u # w => pc'[u] = pc[u]
  BY <1>0, GotoPlaces DEF Snapshot, Places
<1>3. Entry(Host[w]) \in Entries /\ Entry(Host[w]) \in written \cup {Blank}
  BY <1>0 DEF TypeOK, Entry, Entries, StoredInv
<1>4. /\ reply' \in [Workers -> Entries]
      /\ reply'[w] = Entry(Host[w])
      /\ \A u \in Workers : u # w => reply'[u] = reply[u]
  BY <1>0, <1>3 DEF TypeOK
<1>5. TypeOK'  BY <1>0, <1>1, <1>2, <1>4 DEF TypeOK
<1>6. LockInv'  BY <1>0, <1>1, <1>2 DEF LockInv, Inside
<1>7. ProgressInv'
  BY <1>1, <1>2 DEF ProgressInv, NumIsSet, BestIsSet, GraphIsSet
<1>8. StoredInv'
  <2>1. RepliesWereStored'
    BY <1>1, <1>2, <1>3, <1>4 DEF StoredInv, RepliesWereStored, Blank
  <2>2. \A s \in Servers : Entry(s)' = Entry(s)  BY <1>1 DEF Entry
  <2>3. Blank' = Blank  BY DEF Blank
  <2> QED  BY <1>1, <1>2, <2>1, <2>2, <2>3 DEF StoredInv
<1> QED  BY <1>5, <1>6, <1>7, <1>8

LEMMA SendStep ==
    ASSUME IInv, NEW w \in Workers, Send(w)
    PROVE  IInv'
<1> USE DEF IInv
<1>0. TypeOK /\ Forget({w}) /\ pc[w] = "send"  BY DEF Send
<1>1. UNCHANGED <<num, best, graph, queue, lock, db, written, published>>
  BY DEF Send, memory, store
<1>2. lock'[Host[w]] # w  BY <1>0, <1>1 DEF LockInv, Inside
<1>3. /\ LockInv'
      /\ pc' \in [Workers -> Places]
      /\ path' \in [Workers -> {"offer", "found", "forced", "dbRow"}]
      /\ job' \in [Workers -> Entries] /\ wants' \in [Workers -> BOOLEAN]
      /\ fileNum' \in [Workers -> Nat]
      /\ index' \in [Workers -> Int] /\ reply' \in [Workers -> Entries]
      /\ overtaken' \subseteq Workers
      /\ pc'[w] = "idle" /\ path'[w] = "offer"
      /\ \A u \in Workers \ {w} : /\ pc'[u] = pc[u] /\ path'[u] = path[u]
                                  /\ job'[u] = job[u] /\ reply'[u] = reply[u]
  BY <1>0, <1>1, <1>2, ForgetStep
<1>4. TypeOK'  BY <1>0, <1>1, <1>3 DEF TypeOK
<1>5. ProgressInv'
  BY <1>1, <1>3 DEF ProgressInv, NumIsSet, BestIsSet, GraphIsSet
<1>6. StoredInv'
  <2>1. \A s \in Servers : Entry(s)' = Entry(s)  BY <1>1 DEF Entry
  <2>2. Blank' = Blank  BY DEF Blank
  <2>3. \A u \in Workers : pc'[u] \in {"release", "send"} => u # w  BY <1>3
  <2> QED  BY <1>1, <1>3, <2>1, <2>2, <2>3 DEF StoredInv, RepliesWereStored
<1> QED  BY <1>3, <1>4, <1>5, <1>6

LEMMA ReplyStep ==
    ASSUME IInv, NEW w \in Workers, ReplyToClient(w)
    PROVE  IInv'
<1>1. CASE ReadMaxNumFromDB(w)  BY <1>1, ReadMaxStep
<1>2. CASE RowNewer(w)  BY <1>2, BranchStep DEF RowNewer, Places, Inside, Outer
<1>3. CASE RowBetter(w)  BY <1>3, BranchStep DEF RowBetter, Places, Inside, Outer
<1>4. CASE RowSame(w)  BY <1>4, BranchStep DEF RowSame, Places, Inside, Outer
<1>5. CASE GetAndSetNextIndex(w)  BY <1>5, TakeIndexStep
<1>6. CASE Snapshot(w)  BY <1>6, SnapshotStep
<1>7. CASE Send(w)  BY <1>7, SendStep
<1> QED  BY <1>1, <1>2, <1>3, <1>4, <1>5, <1>6, <1>7 DEF ReplyToClient

-----------------------------------------------------------------------------
(* postOnSlack touches a local and the file system. *)
LEMMA PostOnSlackStep ==
    ASSUME IInv, NEW w \in Workers, PostOnSlack(w)
    PROVE  IInv'
<1>0. TypeOK /\ pc[w] = "postOnSlack" /\ Goto(w, "createFile") /\ Host[w] \in Servers
  BY HostIsServer DEF IInv, PostOnSlack
<1>1. /\ fileNum' = [fileNum EXCEPT ![w] = num[Host[w]]]
      /\ UNCHANGED <<num, best, graph, queue, lock, db, written, path, job, wants, overtaken,
                     index, reply, published>>
  BY DEF PostOnSlack, memory, store, request
<1>2. pc' \in [Workers -> Places]  BY <1>0, GotoPlaces DEF Places
<1>3. fileNum' \in [Workers -> Nat]  BY <1>0, <1>1 DEF TypeOK
<1>4. TypeOK'  BY <1>0, <1>1, <1>2, <1>3 DEF TypeOK
<1>5. path[w] = "dbRow" => job[w] \in written  BY DEF IInv, StoredInv
<1>6. "createFile" \in Places \ Outer /\ pc[w] \notin Inside
  BY <1>0 DEF Places, Outer, Inside
<1> QED  BY <1>0, <1>1, <1>4, <1>5, <1>6, OutsideStep

LEMMA CreateExampleFileStep ==
    ASSUME IInv, NEW w \in Workers, CreateExampleFile(w)
    PROVE  IInv'
<1>0. TypeOK /\ pc[w] = "createFile" /\ Goto(w, "refresh") /\ Host[w] \in Servers
  BY HostIsServer DEF IInv, CreateExampleFile
<1>1. UNCHANGED <<num, best, graph, queue, lock, db, written, path, job, wants, overtaken,
                  fileNum, index, reply>>
  BY DEF CreateExampleFile, memory, store, request, answer
<1>2. pc' \in [Workers -> Places]  BY <1>0, GotoPlaces DEF Places
<1>3. published' \subseteq [num : Nat, graph : Graphs \cup {NoGraph}]
  BY <1>0 DEF TypeOK, CreateExampleFile
<1>4. TypeOK'  BY <1>0, <1>1, <1>2, <1>3 DEF TypeOK
<1>5. path[w] = "dbRow" => job[w] \in written  BY DEF IInv, StoredInv
<1>6. "refresh" \in Places \ Outer /\ pc[w] \notin Inside
  BY <1>0 DEF Places, Outer, Inside
<1> QED  BY <1>0, <1>1, <1>4, <1>5, <1>6, OutsideStep

LEMMA ProceedStep ==
    ASSUME IInv, NEW w \in Workers, Proceed(w)
    PROVE  IInv'
<1>1. CASE Decide(w)  BY <1>1, DecideStep
<1>2. CASE UpdateState(w)  BY <1>2, UpdateStateStep
<1>3. CASE ReplyToClient(w)  BY <1>3, ReplyStep
<1>4. CASE PostOnSlack(w)  BY <1>4, PostOnSlackStep
<1>5. CASE CreateExampleFile(w)  BY <1>5, CreateExampleFileStep
<1> QED  BY <1>1, <1>2, <1>3, <1>4, <1>5 DEF Proceed

(* A server comes back with a row of the table, and none of its workers    *)
(* has anything left to do.                                                *)
LEMMA RestartStep ==
    ASSUME IInv, NEW s \in Servers, Restart(s)
    PROVE  IInv'
<1> USE DEF IInv
<1> DEFINE ws == {w \in Workers : Host[w] = s}
<1>0. TypeOK /\ db \subseteq written /\ Forget(ws)  BY DEF StoredInv, Restart
<1>1. /\ Loaded \in Entries /\ Loaded \in written \cup {Blank}
      /\ IndexesFor(Loaded, s) \subseteq Nat
  BY <1>0, LoadedIsStored, IndexesAreNat
<1>2. UNCHANGED <<db, written, published>>  BY DEF Restart, store
<1>3. /\ lock' \in [Servers -> Workers \cup {"free", "leaked"}]
      /\ lock'[s] = "free"
      /\ \A t \in Servers : t # s => lock'[t] = lock[t]
  BY <1>0 DEF Restart, TypeOK
<1>4. /\ num' \in [Servers -> Nat] /\ best' \in [Servers -> Nat]
      /\ graph' \in [Servers -> Graphs \cup {NoGraph}]
      /\ queue' \in [Servers -> SUBSET Nat]
  <2>1. /\ Loaded.num \in Nat /\ Loaded.count \in Nat
        /\ Loaded.graph \in Graphs \cup {NoGraph}
    BY <1>1 DEF Entries
  <2>2. queue' = [queue EXCEPT ![s] = IndexesFor(Loaded, s)]  BY DEF Restart
  <2> HIDE DEF IInv
  <2> QED  BY <1>0, <1>1, <2>1, <2>2 DEF Restart, TypeOK
<1>5. /\ num'[s] = Loaded.num /\ best'[s] = Loaded.count /\ graph'[s] = Loaded.graph
      /\ \A t \in Servers : t # s =>
            num'[t] = num[t] /\ best'[t] = best[t] /\ graph'[t] = graph[t]
  BY <1>0 DEF Restart, TypeOK
<1>6. ws \in SUBSET Workers
  OBVIOUS
<1>7. \A u \in ws : lock'[Host[u]] # u
  BY <1>3, ServerAssumption
<1>8. \A u \in Workers \ ws : lock'[Host[u]] = u <=> lock[Host[u]] = u
  BY <1>3, HostIsServer
<1>9. /\ LockInv'
      /\ pc' \in [Workers -> Places]
      /\ path' \in [Workers -> {"offer", "found", "forced", "dbRow"}]
      /\ job' \in [Workers -> Entries] /\ wants' \in [Workers -> BOOLEAN]
      /\ fileNum' \in [Workers -> Nat]
      /\ index' \in [Workers -> Int] /\ reply' \in [Workers -> Entries]
      /\ overtaken' \subseteq Workers
      /\ \A u \in ws : pc'[u] = "idle" /\ path'[u] = "offer"
      /\ \A u \in Workers \ ws : /\ pc'[u] = pc[u] /\ path'[u] = path[u]
                                 /\ job'[u] = job[u] /\ reply'[u] = reply[u]
                                 /\ Host[u] \in Servers /\ Host[u] # s
  <2> HIDE DEF ws
  <2>1. \A u \in Workers \ ws : Host[u] \in Servers /\ Host[u] # s
    BY HostIsServer DEF ws
  <2> QED  BY <1>0, <1>6, <1>7, <1>8, <2>1, ForgetStep
<1> HIDE DEF ws
<1>10. TypeOK'  BY <1>0, <1>2, <1>3, <1>4, <1>9 DEF TypeOK
<1>11. ProgressInv'
  BY <1>5, <1>9 DEF ProgressInv, NumIsSet, BestIsSet, GraphIsSet
<1>12. StoredInv'
  <2>1. Entry(s)' = Loaded
    BY <1>1, <1>5 DEF Entry, Entries
  <2>2. \A t \in Servers : t # s => Entry(t)' = Entry(t)
    BY <1>5 DEF Entry
  <2>3. Blank' = Blank  BY DEF Blank
  <2>4. \A t \in Servers : lock'[t] = "free" => Entry(t)' \in written \cup {Blank}
    BY <1>1, <1>3, <2>1, <2>2 DEF StoredInv
  <2>5. \A u \in Workers : pc'[u] \in {"release", "send"} => u \notin ws
    BY <1>9
  <2> QED  BY <1>2, <1>9, <2>3, <2>4, <2>5 DEF StoredInv, RepliesWereStored
<1> QED  BY <1>9, <1>10, <1>11, <1>12

-----------------------------------------------------------------------------
LEMMA Invariance == IInv /\ [Next]_vars => IInv'
<1> SUFFICES ASSUME IInv, [Next]_vars PROVE IInv'
  OBVIOUS
<1>1. ASSUME NEW w \in Workers, Receive(w) PROVE IInv'  BY <1>1, ReceiveStep
<1>2. ASSUME NEW w \in Workers, Proceed(w) PROVE IInv'  BY <1>2, ProceedStep
<1>3. ASSUME NEW w \in Workers, DbFails(w) PROVE IInv'  BY <1>3, DbFailsStep
<1>4. ASSUME NEW s \in Servers, Restart(s) PROVE IInv'  BY <1>4, RestartStep
<1>5. CASE UNCHANGED vars
  <2>1. UNCHANGED <<num, best, graph, queue, lock, db, written, pc, path, job, wants, overtaken,
                    fileNum, index, reply, published>>
    BY <1>5 DEF vars, memory, store, request, answer
  <2>2. TypeOK'  BY <2>1 DEF IInv, TypeOK
  <2>3. LockInv' /\ ProgressInv'  BY <2>1 DEF IInv, LockInv, ProgressInv
  <2>4. StoredInv'
    BY <2>1 DEF IInv, StoredInv, RepliesWereStored, Entry, Blank
  <2> QED  BY <2>2, <2>3, <2>4 DEF IInv
<1> QED  BY <1>1, <1>2, <1>3, <1>4, <1>5 DEF Next

LEMMA AlwaysIInv == Spec => []IInv
  BY InitIInv, Invariance, PTL DEF Spec

(* Every attribute and local keeps its type. *)
THEOREM TypeCorrect == Spec => []TypeOK
  BY AlwaysIInv, PTL DEF IInv

(* A worker is inside updateState exactly while it holds its server's      *)
(* lock, so two workers of a server are never inside together.             *)
THEOREM LockIsExclusive == Spec => []LockInv
  BY AlwaysIInv, PTL DEF IInv

(* The row a client is sent was in the table, whatever fails or restarts.  *)
THEOREM StoredReplies == Spec => []RepliesWereStored
<1>1. IInv => RepliesWereStored  BY DEF IInv, StoredInv
<1> QED  BY <1>1, AlwaysIInv, PTL

(* The table never falls behind what a client was told.                    *)
THEOREM SurvivingReplies == Spec => []RepliesSurviveRestart
<1>1. IInv => RepliesSurviveRestart
  <2> SUFFICES ASSUME IInv, NEW w \in Workers, pc[w] = "send", reply[w].num # 0
               PROVE  \E r \in db : r.num >= reply[w].num
    BY DEF RepliesSurviveRestart
  <2>1. reply[w] \in written /\ reply[w].num \in Nat
    BY DEF IInv, StoredInv, RepliesWereStored, Blank, TypeOK, Entries
  <2>2. PICK r \in db : r.num = reply[w].num  BY <2>1 DEF IInv, StoredInv
  <2> QED  BY <2>1, <2>2
<1> QED  BY <1>1, AlwaysIInv, PTL

-----------------------------------------------------------------------------
(* The index queue fits what the memory says of the graph.                 *)
Fits(s) == /\ queue[s] \subseteq Share(Ones[graph[s]], s)
           /\ best[s] = 0 => queue[s] = {}

(* The places inside from which on the queue is filled.                    *)
QueueIsFilled == {"dbRead", "update", "insert", "release"}

QueueInv ==
    /\ \A s \in Servers : lock[s] = "free" => Fits(s)
    /\ \A w \in Workers : pc[w] \in QueueIsFilled => Fits(Host[w])

LEMMA InitQueueInv == Init => QueueInv
<1> SUFFICES ASSUME Init PROVE QueueInv
  OBVIOUS
<1>1. \A s \in Servers : Fits(s)
  BY DEF Init, Fits, IndexesFor
<1> QED  BY <1>1 DEF Init, QueueInv, QueueIsFilled

(* A step that leaves the memory alone, frees a lock only from the end of  *)
(* updateState, and takes no worker to where the queue has to be filled.   *)
LEMMA QueueUntouched ==
    ASSUME QueueInv, UNCHANGED memory,
           \A s \in Servers : lock'[s] = "free" =>
              \/ lock[s] = "free"
              \/ \E w \in Workers : Host[w] = s /\ pc[w] \in QueueIsFilled,
           \A w \in Workers : pc'[w] \in QueueIsFilled => pc[w] \in QueueIsFilled
    PROVE  QueueInv'
<1>1. \A s : Fits(s)' <=> Fits(s)
  BY DEF Fits, memory
<1> QED  BY <1>1 DEF QueueInv

LEMMA QueueSteps ==
    ASSUME IInv, QueueInv, [Next]_vars
    PROVE  QueueInv'
<1> USE DEF IInv
<1>1. ASSUME NEW w \in Workers, SetNum(w) \/ SetBest(w) \/ SetGraph(w) \/ FillIndexQueue(w)
      PROVE  QueueInv'
  <2>0. /\ lock' = lock /\ pc[w] \in Inside /\ Host[w] \in Servers /\ lock[Host[w]] = w
        /\ \A s \in Servers : s # Host[w] => Fits(s)' = Fits(s)
    BY <1>1, HostIsServer
       DEF SetNum, SetBest, SetGraph, FillIndexQueue, Set, Inside, LockInv, Fits, TypeOK
  <2>1. \A u \in Workers : u # w /\ pc[u] \in QueueIsFilled =>
                              Host[u] # Host[w] /\ Host[u] \in Servers
    BY <2>0, Alone, HostIsServer DEF QueueIsFilled, Inside
  <2>2. \A u \in Workers : u # w => pc'[u] = pc[u]
    BY <1>1 DEF SetNum, SetBest, SetGraph, FillIndexQueue, Set, Goto, TypeOK
  <2>3. w # "free"
    BY ServerAssumption
  <2>4. pc'[w] \in QueueIsFilled => Fits(Host[w])'
    <3>1. CASE FillIndexQueue(w)
      <4>1. queue'[Host[w]] = IndexesFor(Entry(Host[w]), Host[w])
        BY <2>0, <3>1 DEF FillIndexQueue, TypeOK
      <4>2. UNCHANGED <<best, graph>>
        BY <3>1 DEF FillIndexQueue
      <4> QED  BY <4>1, <4>2 DEF Fits, IndexesFor, Entry
    <3>2. CASE SetNum(w) \/ SetBest(w) \/ SetGraph(w)
      BY <3>2 DEF SetNum, SetBest, SetGraph, Set, Goto, TypeOK, QueueIsFilled
    <3> QED  BY <1>1, <3>1, <3>2
  <2> QED
    BY <2>0, <2>1, <2>2, <2>3, <2>4 DEF QueueInv
<1>2. ASSUME NEW w \in Workers, GetAndSetNextIndex(w)
      PROVE  QueueInv'
  <2>1. /\ UNCHANGED <<best, graph, lock>> /\ pc' = [pc EXCEPT ![w] = "snapshot"]
        /\ \A s \in Servers : queue'[s] \subseteq queue[s]
    BY <1>2, HostIsServer DEF GetAndSetNextIndex, Goto, TypeOK
  <2>2. \A s \in Servers : Fits(s) => Fits(s)'
    BY <2>1 DEF Fits
  <2> QED  BY <2>1, <2>2, HostIsServer DEF QueueInv, QueueIsFilled, TypeOK
<1>3. ASSUME NEW s \in Servers, Restart(s)
      PROVE  QueueInv'
  <2>1. Fits(s)'
    <3>1. /\ queue'[s] = IndexesFor(Loaded, s) /\ graph'[s] = Loaded.graph
          /\ best'[s] = Loaded.count
      BY <1>3 DEF Restart, TypeOK
    <3> QED  BY <3>1 DEF Fits, IndexesFor
  <2>2. \A r \in Servers : r # s => (Fits(r)' <=> Fits(r)) /\ lock'[r] = lock[r]
    BY <1>3 DEF Restart, TypeOK, Fits
  <2>3. \A u \in Workers : pc'[u] \in QueueIsFilled => pc[u] \in QueueIsFilled
    BY <1>3 DEF Restart, Forget, QueueIsFilled
  <2> QED  BY <2>1, <2>2, <2>3, HostIsServer DEF QueueInv
<1>4. ASSUME NEW w \in Workers, Release(w)
      PROVE  QueueInv'
  <2>1. /\ UNCHANGED memory /\ pc[w] = "release" /\ lock' = [lock EXCEPT ![Host[w]] = "free"]
        /\ pc' = [pc EXCEPT ![w] = Return[path[w]]]
        /\ Return[path[w]] \notin QueueIsFilled
    BY <1>4 DEF Release, Goto, Return, TypeOK, QueueIsFilled
  <2> QED  BY <2>1, QueueUntouched DEF TypeOK, QueueIsFilled
<1>5. ASSUME NEW w \in Workers, Raise(w)
      PROVE  QueueInv'
  <2>1. /\ UNCHANGED memory
        /\ \A s \in Servers : lock'[s] = "free" => lock[s] = "free"
        /\ \A u \in Workers : pc'[u] \in QueueIsFilled => pc[u] \in QueueIsFilled
    BY <1>5 DEF Raise, Forget, QueueIsFilled, TypeOK
  <2> QED  BY <2>1, QueueUntouched
<1>6. ASSUME NEW w \in Workers, Acquire(w)
      PROVE  QueueInv'
  <2>1. /\ UNCHANGED memory
        /\ \A s \in Servers : lock'[s] = "free" => lock[s] = "free"
        /\ \E q : q \notin QueueIsFilled /\ pc' = [pc EXCEPT ![w] = q]
    <3>1. UNCHANGED memory /\ lock' \in {lock, [lock EXCEPT ![Host[w]] = w]}
      <4>1. \/ lock' = [lock EXCEPT ![Host[w]] = w]
            \/ lock' = [lock EXCEPT ![Host[w]] = lock[Host[w]]]
        BY <1>6 DEF Acquire, Enter, Accepted
      <4> QED  BY <1>6, <4>1 DEF Acquire, Enter, Accepted, TypeOK
    <3>2. \A s \in Servers : lock'[s] = "free" => lock[s] = "free"
      BY <3>1, ServerAssumption DEF TypeOK
    <3>3. \E q \in {"setNum", Return[path[w]]} : pc' = [pc EXCEPT ![w] = q]
      BY <1>6 DEF Acquire, Enter, Accepted, Goto
    <3>4. Return[path[w]] \notin QueueIsFilled
      BY DEF Return, QueueIsFilled, TypeOK
    <3> QED  BY <3>1, <3>2, <3>3, <3>4 DEF QueueIsFilled
  <2> QED  BY <2>1, QueueUntouched DEF TypeOK
<1>7. ASSUME NEW w \in Workers, UNCHANGED <<memory, lock>>,
             \/ \E q : q \notin QueueIsFilled /\ pc' = [pc EXCEPT ![w] = q]
             \/ pc[w] \in QueueIsFilled /\ \E q : pc' = [pc EXCEPT ![w] = q]
             \/ Forget({w})
      PROVE  QueueInv'
  <2>1. \A u \in Workers : pc'[u] \in QueueIsFilled => pc[u] \in QueueIsFilled
    BY <1>7 DEF TypeOK, Forget, QueueIsFilled
  <2> QED  BY <1>7, <2>1, QueueUntouched
<1>8. ASSUME NEW w \in Workers, Receive(w) \/ Proceed(w) \/ DbFails(w)
      PROVE  QueueInv'
  <2> USE DEF Goto, QueueIsFilled
  <2>1. CASE Receive(w)
    BY <1>7, <2>1 DEF Receive
  <2>2. CASE Decide(w)
    BY <1>7, <2>2 DEF Decide, SameNumber, Zero, Newer, Improves, Drained, Differs, StillOpen,
                      DrainedToo, DiffersToo, Branch, CallUpdateState
  <2>3. CASE UpdateState(w)
    BY <1>1, <1>4, <1>5, <1>6, <1>7, <2>3
       DEF UpdateState, DbRead, Branch, Update, Insert, Write
  <2>4. CASE ReplyToClient(w)
    BY <1>2, <1>5, <1>7, <2>4
       DEF ReplyToClient, ReadMaxNumFromDB, RowNewer, RowBetter, RowSame, Branch, Snapshot, Send
  <2>5. CASE PostOnSlack(w) \/ CreateExampleFile(w)
    BY <1>7, <2>5 DEF PostOnSlack, CreateExampleFile
  <2>6. CASE DbFails(w)
    BY <1>5, <2>6 DEF DbFails
  <2> QED  BY <1>8, <2>1, <2>2, <2>3, <2>4, <2>5, <2>6 DEF Proceed
<1>9. CASE UNCHANGED vars
  BY <1>9, QueueUntouched DEF vars
<1> QED  BY <1>3, <1>8, <1>9 DEF Next

LEMMA AlwaysQueueInv == Spec => []QueueInv
  BY InitQueueInv, QueueSteps, AlwaysIInv, PTL DEF Spec

(* Whoever finds the lock free finds in the queue only edges of the graph  *)
(* in memory that fall to this server, and none of a counter example,      *)
(* however the updates of the memory were interrupted.                     *)
THEOREM QueueFits == Spec => []QueueFitsGraph
<1>1. QueueInv => QueueFitsGraph  BY DEF QueueInv, Fits, QueueFitsGraph
<1> QED  BY <1>1, AlwaysQueueInv, PTL

-----------------------------------------------------------------------------
InsertsDoNotCollide == \A w \in Workers : pc[w] = "insert" => ~Collides(w)

(* When all workers belong to one server, nobody inserts a row between the *)
(* moment a worker has looked for it and the INSERT: whoever writes is     *)
(* inside, and so is the worker that is about to insert.                   *)
LEMMA InsertSteps ==
    ASSUME \A v, w \in Workers : Host[v] = Host[w]
    PROVE  IInv /\ InsertsDoNotCollide /\ [Next]_vars => InsertsDoNotCollide'
<1> SUFFICES ASSUME IInv, InsertsDoNotCollide, [Next]_vars,
                    NEW u \in Workers, pc'[u] = "insert"
             PROVE  ~Collides(u)'
  BY DEF InsertsDoNotCollide
<1> USE DEF IInv
<1>1. ASSUME NEW w \in Workers, Forget({w})
      PROVE  u # w /\ pc[u] = "insert" /\ job'[u] = job[u]
  BY <1>1 DEF Forget
<1>2. CASE UNCHANGED db
  <2>1. ASSUME NEW w \in Workers, DbRead(w) PROVE ~Collides(u)'
    BY <2>1, <1>2 DEF DbRead, Branch, Goto, TypeOK, request, InsertsDoNotCollide, Collides
  <2>2. CASE pc[u] = "insert" /\ job'[u] = job[u]
    BY <1>2, <2>2 DEF InsertsDoNotCollide, Collides
  <2>3. \/ pc[u] = "insert" /\ job'[u] = job[u]
        \/ \E w \in Workers : DbRead(w)
    <3>1. ASSUME NEW w \in Workers, Receive(w) \/ Proceed(w) \/ DbFails(w), ~DbRead(w)
          PROVE  pc[u] = "insert" /\ job'[u] = job[u]
      <4> USE DEF Goto, TypeOK, request
      <4>1. CASE Receive(w)
        BY <4>1 DEF Receive
      <4>2. CASE Decide(w)
        BY <4>2 DEF Decide, SameNumber, Zero, Newer, Improves, Drained, Differs, StillOpen,
                    DrainedToo, DiffersToo, Branch, CallUpdateState
      <4>3. CASE UpdateState(w)
        BY <1>1, <3>1, <4>3
           DEF UpdateState, Acquire, Enter, Accepted, SetNum, SetBest, SetGraph, FillIndexQueue, Set, Update,
               Insert, Write, Raise, Release, Return
      <4>4. CASE ReplyToClient(w)
        BY <1>1, <4>4 DEF ReplyToClient, ReadMaxNumFromDB, RowNewer, RowBetter, RowSame, Branch,
                          GetAndSetNextIndex, Snapshot, Send, Raise
      <4>5. CASE PostOnSlack(w) \/ CreateExampleFile(w)
        BY <4>5 DEF PostOnSlack, CreateExampleFile
      <4>6. CASE DbFails(w)
        BY <1>1, <4>6 DEF DbFails, Raise
      <4> QED  BY <3>1, <4>1, <4>2, <4>3, <4>4, <4>5, <4>6 DEF Proceed
    <3>2. ASSUME NEW s \in Servers, Restart(s)
          PROVE  pc[u] = "insert" /\ job'[u] = job[u]
      BY <3>2 DEF Restart, Forget
    <3>3. CASE UNCHANGED vars
      BY <3>3 DEF vars, request
    <3> QED  BY <3>1, <3>2, <3>3 DEF Next
  <2> QED  BY <2>1, <2>2, <2>3
<1>3. ASSUME NEW w \in Workers, Put(job[w]), pc[w] \in {"update", "insert"},
             Write(w) \/ Raise(w)
      PROVE  FALSE
  <2>1. u # w /\ pc[u] = "insert"
    <3>1. CASE Write(w)
      BY <3>1 DEF Write, Goto, TypeOK
    <3>2. CASE Raise(w)
      BY <1>1, <3>2 DEF Raise
    <3> QED  BY <1>3, <3>1, <3>2
  <2> QED  BY <1>3, <2>1, Alone DEF Inside
<1>4. UNCHANGED db \/ \E w \in Workers : /\ Put(job[w]) /\ pc[w] \in {"update", "insert"}
                                         /\ Write(w) \/ Raise(w)
  <2> USE DEF store
  <2>1. ASSUME NEW w \in Workers, Receive(w) \/ Proceed(w) \/ DbFails(w)
        PROVE  UNCHANGED db \/ /\ Put(job[w]) /\ pc[w] \in {"update", "insert"}
                               /\ Write(w) \/ Raise(w)
    <3>1. CASE UpdateState(w)
      BY <3>1 DEF UpdateState, Acquire, Enter, Accepted, SetNum, SetBest, SetGraph, FillIndexQueue, Set, DbRead,
                  Branch, Update, Insert, Write, Release
    <3>2. CASE ReplyToClient(w)
      BY <3>2 DEF ReplyToClient, ReadMaxNumFromDB, RowNewer, RowBetter, RowSame, Branch,
                  GetAndSetNextIndex, Snapshot, Send
    <3>3. CASE Decide(w)
      BY <3>3 DEF Decide, SameNumber, Zero, Newer, Improves, Drained, Differs, StillOpen,
                  DrainedToo, DiffersToo, Branch, CallUpdateState
    <3>4. CASE Receive(w) \/ PostOnSlack(w) \/ CreateExampleFile(w)
      BY <3>4 DEF Receive, PostOnSlack, CreateExampleFile
    <3>5. CASE DbFails(w)
      BY <3>5 DEF DbFails
    <3> QED  BY <2>1, <3>1, <3>2, <3>3, <3>4, <3>5 DEF Proceed
  <2>2. ASSUME NEW s \in Servers, Restart(s) PROVE UNCHANGED db
    BY <2>2 DEF Restart
  <2>3. CASE UNCHANGED vars
    BY <2>3 DEF vars
  <2> QED  BY <2>1, <2>2, <2>3 DEF Next
<1> QED  BY <1>2, <1>3, <1>4

-----------------------------------------------------------------------------
(* The deal of fillIndexQueue gives every edge of value 1 to exactly one   *)
(* server, for any number of servers and any finite graph.                 *)

LEMMA RankIsNat ==
    ASSUME NEW ones, IsFiniteSet(ones), NEW i
    PROVE  Rank(ones, i) \in Nat
<1>1. {j \in ones : j <= i} \in SUBSET ones  OBVIOUS
<1> QED  BY <1>1, FS_Subset, FS_CardinalityType DEF Rank

LEMMA Remainder ==
    ASSUME NEW r \in Nat
    PROVE  r % NO_OF_SERVERS \in 0..NO_OF_SERVERS - 1
  BY ServersAssumption

(* Two servers that hold the same graph never queue the same edge, so no   *)
(* two clients are given the same flip to try.                             *)
THEOREM SharesAreDisjoint ==
    ASSUME NEW ones, NEW s \in Servers, NEW t \in Servers, s # t
    PROVE  Share(ones, s) \cap Share(ones, t) = {}
<1>1. s \in Int /\ t \in Int  BY ServersAssumption DEF Servers
<1>2. s - 1 # t - 1  BY <1>1
<1> QED  BY <1>2 DEF Share

(* The shares of all the servers are the whole graph: no edge of value 1   *)
(* is left out of the search.                                              *)
THEOREM SharesCoverTheOnes ==
    ASSUME NEW ones, IsFiniteSet(ones)
    PROVE  UNION {Share(ones, s) : s \in Servers} = ones
<1>1. ASSUME NEW i \in ones
      PROVE  \E s \in Servers : i \in Share(ones, s)
  <2> DEFINE k == Rank(ones, i) % NO_OF_SERVERS
  <2>1. k \in 0..NO_OF_SERVERS - 1  BY RankIsNat, Remainder
  <2> HIDE DEF k
  <2>2. k + 1 \in Servers /\ k = (k + 1) - 1
    BY <2>1, ServersAssumption DEF Servers
  <2>3. i \in Share(ones, k + 1)  BY <2>2 DEF Share, k
  <2> QED  BY <2>2, <2>3
<1>2. \A s : Share(ones, s) \subseteq ones  BY DEF Share
<1> QED  BY <1>1, <1>2

-----------------------------------------------------------------------------
(* Nothing but what clients have offered gets into the table.              *)
OfferedInv ==
    /\ written \subseteq Offers
    /\ \A w \in Workers : pc[w] # "idle" => job[w] \in Offers

-----------------------------------------------------------------------------
(* A step of worker w: the locals of the others and the memory of other    *)
(* servers stay.                                                           *)
Alike(u) == /\ pc'[u] = pc[u] /\ path'[u] = path[u] /\ job'[u] = job[u]
            /\ fileNum'[u] = fileNum[u] /\ index'[u] = index[u] /\ reply'[u] = reply[u]
SameMemory(s) == num'[s] = num[s] /\ best'[s] = best[s] /\ graph'[s] = graph[s]

OnlyOwn(w) == /\ \A u \in Workers \ {w} : Alike(u)
              /\ \A s \in Servers \ {Host[w]} : SameMemory(s)

LEMMA ForgetIsOwn ==
    ASSUME TypeOK, NEW w \in Workers, Forget({w}), UNCHANGED memory
    PROVE  /\ OnlyOwn(w) /\ pc'[w] = "idle" /\ SameMemory(Host[w])
           /\ pc' \in [Workers -> Places]
<1>1. \A u \in Workers \ {w} : Alike(u)
  BY DEF Forget, Alike
<1> QED  BY <1>1 DEF Forget, OnlyOwn, SameMemory, memory, TypeOK, Places

LEMMA OwnStep ==
    ASSUME TypeOK, NEW w \in Workers, Receive(w) \/ Proceed(w) \/ DbFails(w)
    PROVE  OnlyOwn(w)
<1> USE DEF OnlyOwn, Alike, SameMemory, Goto, memory, request, answer
<1>1. CASE Receive(w)
  BY <1>1 DEF Receive, TypeOK
<1>2. CASE Decide(w)
  BY <1>2 DEF Decide, SameNumber, Zero, Newer, Improves, Drained, Differs, StillOpen,
              DrainedToo, DiffersToo, Branch, CallUpdateState, TypeOK
<1>3. CASE UpdateState(w)
  <2>1. CASE Acquire(w) \/ DbRead(w) \/ Update(w) \/ Release(w)
    BY <2>1 DEF Acquire, Enter, Accepted, DbRead, Branch, Update, Write, Release, TypeOK
  <2>2. CASE SetNum(w) \/ SetBest(w) \/ SetGraph(w) \/ FillIndexQueue(w)
    BY <2>2, HostIsServer DEF SetNum, SetBest, SetGraph, FillIndexQueue, Set, TypeOK
  <2>3. CASE Insert(w)
    BY <2>3, ForgetIsOwn DEF Insert, Write, Raise, TypeOK
  <2> QED  BY <1>3, <2>1, <2>2, <2>3 DEF UpdateState
<1>4. CASE ReplyToClient(w)
  <2>1. CASE Send(w) \/ Raise(w)
    BY <2>1, ForgetIsOwn DEF Send, Raise
  <2> QED
    BY <1>4, <2>1 DEF ReplyToClient, ReadMaxNumFromDB, RowNewer, RowBetter, RowSame, Branch,
                      GetAndSetNextIndex, Snapshot, TypeOK
<1>5. CASE PostOnSlack(w) \/ CreateExampleFile(w)
  BY <1>5 DEF PostOnSlack, CreateExampleFile, TypeOK
<1>6. CASE DbFails(w)
  BY <1>6, ForgetIsOwn DEF DbFails, Raise
<1> QED  BY <1>1, <1>2, <1>3, <1>4, <1>5, <1>6 DEF Proceed

-----------------------------------------------------------------------------
(* Rows are what clients have sent.                                        *)
LEMMA OfferedStep ==
    ASSUME IInv, OfferedInv, [Next]_vars
    PROVE  OfferedInv'
<1> USE DEF IInv, OfferedInv
<1>1. ASSUME NEW w \in Workers, Receive(w) \/ Proceed(w) \/ DbFails(w)
      PROVE  OfferedInv'
  <2>1. written' \subseteq Offers
    <3>1. written' = written \/ (pc[w] # "idle" /\ Put(job[w]))
      BY <1>1 DEF Receive, Proceed, DbFails, Decide, SameNumber, Zero, Newer, Improves, Drained,
                  Differs, StillOpen, DrainedToo, DiffersToo, Branch, CallUpdateState,
                  UpdateState, Acquire, Enter, Accepted, SetNum, SetBest, SetGraph, FillIndexQueue, Set, DbRead,
                  Update, Insert, Write, Release, ReplyToClient, ReadMaxNumFromDB, RowNewer,
                  RowBetter, RowSame, GetAndSetNextIndex, Snapshot, Send, PostOnSlack,
                  CreateExampleFile, store
    <3> QED  BY <3>1 DEF Put
  <2>2. pc'[w] # "idle" => job'[w] \in Offers
    <3>1. CASE Receive(w)
      BY <3>1 DEF Receive, TypeOK
    <3>2. CASE Forget({w})
      BY <3>2 DEF Forget
    <3>3. CASE ReadMaxNumFromDB(w) /\ MaxRows # {}
      <4>1. MaxRow \in Offers
        BY <3>3, LoadedIsStored DEF StoredInv
      <4> QED  BY <3>3, <4>1 DEF ReadMaxNumFromDB, TypeOK
    <3>4. \/ Receive(w) \/ Forget({w}) \/ (ReadMaxNumFromDB(w) /\ MaxRows # {})
          \/ pc[w] # "idle" /\ job' = job
      <4> USE DEF request
      <4>1. CASE Decide(w)
        BY <4>1 DEF Decide, SameNumber, Zero, Newer, Improves, Drained, Differs, StillOpen,
                    DrainedToo, DiffersToo, Branch, CallUpdateState
      <4>2. CASE UpdateState(w)
        BY <4>2 DEF UpdateState, Acquire, Enter, Accepted, SetNum, SetBest, SetGraph, FillIndexQueue, Set,
                    DbRead, Branch, Update, Insert, Write, Raise, Release
      <4>3. CASE ReplyToClient(w)
        BY <4>3 DEF ReplyToClient, ReadMaxNumFromDB, RowNewer, RowBetter, RowSame, Branch,
                    GetAndSetNextIndex, Snapshot, Send, Raise
      <4>4. CASE PostOnSlack(w) \/ CreateExampleFile(w) \/ DbFails(w)
        BY <4>4 DEF PostOnSlack, CreateExampleFile, DbFails, Raise
      <4> QED  BY <1>1, <4>1, <4>2, <4>3, <4>4 DEF Proceed
    <3> QED  BY <3>1, <3>2, <3>3, <3>4
  <2>3. \A u \in Workers \ {w} : pc'[u] = pc[u] /\ job'[u] = job[u]
    BY <1>1, OwnStep DEF OnlyOwn, Alike
  <2> QED  BY <2>1, <2>2, <2>3
<1>2. ASSUME NEW s \in Servers, Restart(s)
      PROVE  OfferedInv'
  BY <1>2 DEF Restart, Forget, store
<1>3. CASE UNCHANGED vars
  BY <1>3 DEF vars, store, request
<1> QED  BY <1>1, <1>2, <1>3 DEF Next

LEMMA AlwaysOfferedInv == Spec => []OfferedInv
<1>1. Init => OfferedInv  BY DEF Init, OfferedInv
<1> QED  BY <1>1, OfferedStep, AlwaysIInv, PTL DEF Spec

-----------------------------------------------------------------------------
(* Statements only fail for a primary key.  Then a lock is only left       *)
(* behind by the INSERT of a number that the table holds already, with     *)
(* that number in the memory.                                              *)
LeakInv ==
    \A s \in Servers :
       lock[s] = "leaked" => num[s] = 0 \/ \E e \in written : e.num = num[s]

(* What was in the table was kept in it, under its number.                 *)
LEMMA WrittenGrows ==
    ASSUME IInv, [Next]_vars
    PROVE  written \subseteq written'
<1>1. ASSUME NEW w \in Workers, Receive(w) \/ Proceed(w) \/ DbFails(w)
      PROVE  written' = written \/ Put(job[w])
  BY <1>1 DEF Receive, Proceed, DbFails, Decide, SameNumber, Zero, Newer, Improves, Drained,
              Differs, StillOpen, DrainedToo, DiffersToo, Branch, CallUpdateState,
              UpdateState, Acquire, Enter, SetNum, SetBest, SetGraph, FillIndexQueue, Set,
              DbRead, Update, Insert, Write, Release, ReplyToClient, ReadMaxNumFromDB,
              RowNewer, RowBetter, RowSame, GetAndSetNextIndex, Snapshot, Send, PostOnSlack,
              CreateExampleFile, store
<1>2. ASSUME NEW s \in Servers, Restart(s) PROVE written' = written
  BY <1>2 DEF Restart, store
<1>3. CASE UNCHANGED vars  BY <1>3 DEF vars, store
<1> QED  BY <1>1, <1>2, <1>3 DEF Next, Put

LEMMA LeakStep ==
    ASSUME ~DbMayFail
    PROVE  IInv /\ LeakInv /\ [Next]_vars => LeakInv'
<1> SUFFICES ASSUME IInv, LeakInv, [Next]_vars,
                    NEW s \in Servers, lock'[s] = "leaked"
             PROVE  num'[s] = 0 \/ \E e \in written' : e.num = num'[s]
  BY DEF LeakInv
<1>0. TypeOK /\ written \subseteq written'  BY WrittenGrows DEF IInv
<1>1. CASE lock[s] = "leaked" /\ num'[s] = num[s]
  BY <1>0, <1>1 DEF LeakInv
<1>2. ASSUME NEW w \in Workers, Insert(w), Collides(w), lock[s] # "leaked"
      PROVE  num'[s] = num[s] /\ \E e \in written : e.num = num[s]
  <2>1. Raise(w) /\ pc[w] = "insert" /\ UNCHANGED num
    BY <1>2 DEF Insert, Raise, memory
  <2>2. s = Host[w]
    BY <1>0, <1>2, <2>1, HostIsServer DEF Raise, TypeOK
  <2>3. num[s] = job[w].num
    BY <2>1, <2>2 DEF IInv, ProgressInv, NumIsSet
  <2>4. PICK r \in db : r.num = job[w].num  BY <1>2 DEF Collides
  <2> QED  BY <2>1, <2>3, <2>4 DEF IInv, StoredInv
<1>3. ASSUME NEW w \in Workers, Receive(w) \/ Proceed(w), ~(Insert(w) /\ Collides(w))
      PROVE  lock[s] = "leaked" /\ num'[s] = num[s]
  <2>1. CASE Receive(w)
    BY <2>1 DEF Receive, memory
  <2>2. CASE Decide(w)
    BY <2>2 DEF Decide, SameNumber, Zero, Newer, Improves, Drained, Differs, StillOpen,
                DrainedToo, DiffersToo, Branch, CallUpdateState, memory
  <2>3. CASE Acquire(w)
    <3>1. UNCHANGED num /\ lock[Host[w]] = "free" /\ w # "leaked"
      BY <2>3, ServerAssumption DEF Acquire, Enter, memory
    <3>2. \E x \in {w, "free"} : lock' = [lock EXCEPT ![Host[w]] = x]
      BY <2>3, <3>1 DEF Acquire, Enter
    <3> QED  BY <1>0, <3>1, <3>2 DEF TypeOK
  <2>4. CASE SetNum(w) \/ SetBest(w) \/ SetGraph(w) \/ FillIndexQueue(w)
    <3>1. lock' = lock /\ lock[Host[w]] = w /\ w # "leaked"
      BY <2>4, ServerAssumption
         DEF SetNum, SetBest, SetGraph, FillIndexQueue, Set, IInv, LockInv, Inside
    <3>2. \A t \in Servers \ {Host[w]} : num'[t] = num[t]
      BY <1>0, <2>4 DEF SetNum, SetBest, SetGraph, FillIndexQueue, Set, TypeOK
    <3> QED  BY <3>1, <3>2
  <2>5. CASE DbRead(w) \/ Update(w) \/ (Insert(w) /\ Write(w))
    BY <2>5 DEF DbRead, Branch, Update, Insert, Write, memory
  <2>6. CASE Release(w)
    BY <1>0, <2>6, HostIsServer DEF Release, memory, TypeOK
  <2>7. CASE ReadMaxNumFromDB(w)
    <3>1. lock[Host[w]] # w
      BY <2>7 DEF ReadMaxNumFromDB, IInv, LockInv, Inside
    <3> QED  BY <1>0, <2>7, <3>1, HostIsServer DEF ReadMaxNumFromDB, Raise, memory, TypeOK
  <2>8. CASE RowNewer(w) \/ RowBetter(w) \/ RowSame(w) \/ GetAndSetNextIndex(w) \/ Snapshot(w)
    BY <2>8 DEF RowNewer, RowBetter, RowSame, Branch, GetAndSetNextIndex, Snapshot, memory
  <2>9. CASE Send(w) \/ PostOnSlack(w) \/ CreateExampleFile(w)
    BY <2>9 DEF Send, PostOnSlack, CreateExampleFile, memory
  <2> QED
    BY <1>3, <2>1, <2>2, <2>3, <2>4, <2>5, <2>6, <2>7, <2>8, <2>9
       DEF Proceed, UpdateState, ReplyToClient, Insert
<1>4. ASSUME NEW t \in Servers, Restart(t)
      PROVE  lock[s] = "leaked" /\ num'[s] = num[s]
  BY <1>0, <1>4 DEF Restart, TypeOK
<1>5. CASE UNCHANGED vars
  BY <1>1, <1>5 DEF vars, memory
<1>6. \A w \in Workers : ~DbFails(w)
  BY DEF DbFails
<1> QED
  <2>1. ASSUME NEW w \in Workers, Proceed(w), Insert(w), Collides(w)
        PROVE  \/ lock[s] = "leaked" /\ num'[s] = num[s]
               \/ num'[s] = num[s] /\ \E e \in written : e.num = num[s]
    <3>1. UNCHANGED num
      <4>1. Raise(w)  BY <2>1 DEF Insert
      <4> QED  BY <4>1 DEF Raise, memory
    <3> QED  BY <1>2, <2>1, <3>1
  <2> QED
    BY <1>0, <1>1, <1>3, <1>4, <1>5, <1>6, <2>1 DEF Next, Proceed, UpdateState

(* Whatever servers there are and whenever they restart, the number in a   *)
(* memory that nobody is changing is one of the table: also where an       *)
(* INSERT has met the row of another server and taken the lock with it.    *)
THEOREM StoredNumbers == ASSUME ~DbMayFail PROVE Spec => []NumbersAreStored
<1>1. Init => LeakInv
  BY DEF Init, LeakInv
<1>2. IInv /\ LeakInv => NumbersAreStored
  <2> SUFFICES ASSUME IInv, LeakInv, NEW s \in Servers, lock[s] \notin Workers, num[s] # 0
               PROVE  \E r \in db : r.num = num[s]
    BY DEF NumbersAreStored
  <2>1. \E e \in written : e.num = num[s]
    <3>1. CASE lock[s] = "leaked"  BY <3>1 DEF LeakInv
    <3>2. CASE lock[s] = "free"
      <4>1. Entry(s).num = num[s]  BY DEF Entry
      <4>2. Blank.num = 0  BY DEF Blank
      <4> QED  BY <3>2, <4>1, <4>2 DEF IInv, StoredInv
    <3> QED  BY <3>1, <3>2 DEF IInv, TypeOK
  <2> QED  BY <2>1 DEF IInv, StoredInv
<1> QED  BY <1>1, <1>2, LeakStep, AlwaysIInv, PTL DEF Spec

-----------------------------------------------------------------------------
(* How far the number of a server can fall behind the row a worker read.   *)

(* A worker has read a row, and has not taken the reply yet.               *)
Refreshing(u) ==
    \/ pc[u] \in {"rowNewer", "rowBetter", "rowSame", "takeIndex", "snapshot"}
    \/ pc[u] = "acquire" /\ path[u] = "dbRow"

(* Once it has compared the row, the memory has got as far.                *)
Ahead(u) ==
    u \notin overtaken =>
       /\ pc[u] \in {"rowBetter", "rowSame", "takeIndex", "snapshot"} =>
             num[Host[u]] >= job[u].num
       /\ pc[u] = "send" => reply[u].num >= job[u].num

(* What is tested again under the lock does not take the number back.      *)
Raises(u) ==
    pc[u] = "setNum" /\ path[u] # "forced" => job[u].num >= num[Host[u]]

(* A forced update is about to change the number of its server.            *)
Forces(v) == pc[v] = "setNum" /\ path[v] = "forced"

(* Those whose refresh it gets into are noted.                             *)
Noted(v, u) ==
    (Forces(v) /\ Refreshing(u) /\ Host[u] = Host[v] /\ u # v) => u \in overtaken

ForcedInv == \A u \in Workers : Ahead(u) /\ Raises(u) /\ \A v \in Workers : Noted(v, u)

(* A step of w that leaves its server's number alone and forces nothing.   *)
LEMMA NumberStays ==
    ASSUME IInv, ForcedInv, NEW w \in Workers, OnlyOwn(w), UNCHANGED num,
           \A u \in Workers \ {w} : u \in overtaken' <=> u \in overtaken,
           Ahead(w)', Raises(w)', ~Forces(w)',
           Refreshing(w)' /\ w \notin overtaken' =>
              \A v \in Workers \ {w} : Host[v] = Host[w] => ~Forces(v)
    PROVE  ForcedInv'
<1>1. ASSUME NEW u \in Workers \ {w}
      PROVE  /\ Ahead(u)' /\ Raises(u)'
             /\ Forces(u)' <=> Forces(u)
             /\ Refreshing(u)' <=> Refreshing(u)
  BY DEF OnlyOwn, Alike, ForcedInv, Ahead, Raises, Forces, Refreshing
<1>2. ASSUME NEW u \in Workers, NEW v \in Workers
      PROVE  Noted(v, u)'
  <2>1. CASE v = w
    BY <2>1 DEF Noted
  <2>2. CASE v # w /\ u = w
    BY <1>1, <2>2 DEF Noted
  <2>3. CASE v # w /\ u # w
    <3>1. Noted(v, u)  BY DEF ForcedInv
    <3> QED  BY <1>1, <2>3, <3>1 DEF Noted
  <2> QED  BY <2>1, <2>2, <2>3
<1> QED  BY <1>1, <1>2 DEF ForcedInv

(* The same, where w was refreshing already or has nothing to refresh.     *)
LEMMA NothingForced ==
    ASSUME IInv, ForcedInv, NEW w \in Workers, OnlyOwn(w), UNCHANGED num,
           \A u \in Workers : u \in overtaken' <=> u \in overtaken,
           Ahead(w)', Raises(w)', ~Forces(w)',
           Refreshing(w)' => Refreshing(w)
    PROVE  ForcedInv'
<1>1. Refreshing(w)' /\ w \notin overtaken' =>
         \A v \in Workers \ {w} : Host[v] = Host[w] => ~Forces(v)
  BY DEF ForcedInv, Noted
<1> QED  BY <1>1, NumberStays

(* While w is inside, nobody else forces anything on its server.           *)
LEMMA InsideAlone ==
    ASSUME IInv, NEW w \in Workers, pc[w] \in Inside
    PROVE  \A v \in Workers \ {w} : Host[v] = Host[w] => ~Forces(v)
  BY Alone DEF IInv, Forces, Inside

LEMMA DecideForces ==
    ASSUME IInv, ForcedInv, NEW w \in Workers, Receive(w) \/ Decide(w)
    PROVE  ForcedInv'
<1>1. OnlyOwn(w)  BY OwnStep DEF IInv, Proceed
<1>2. UNCHANGED <<num, overtaken>>
  BY DEF Receive, Decide, SameNumber, Zero, Newer, Improves, Drained, Differs, StillOpen,
         DrainedToo, DiffersToo, Branch, CallUpdateState, memory, request
<1>3. /\ pc'[w] \in {"same", "zero", "newer", "improves", "drained", "differs", "open",
                     "drainedToo", "differsToo", "acquire", "refresh"}
      /\ pc'[w] = "acquire" => path'[w] # "dbRow"
  BY DEF Receive, Decide, SameNumber, Zero, Newer, Improves, Drained, Differs, StillOpen,
         DrainedToo, DiffersToo, Branch, CallUpdateState, Goto, IInv, TypeOK
<1>4. Ahead(w)' /\ Raises(w)' /\ ~Forces(w)' /\ ~Refreshing(w)'
  BY <1>3 DEF Ahead, Raises, Forces, Refreshing
<1> QED  BY <1>1, <1>2, <1>4, NothingForced

(* A worker that forgets its request.                                      *)
LEMMA ForgetForces ==
    ASSUME IInv, ForcedInv, NEW w \in Workers, Forget({w}), UNCHANGED memory
    PROVE  ForcedInv'
<1>1. OnlyOwn(w) /\ pc'[w] = "idle"  BY ForgetIsOwn DEF IInv
<1>2. \A u \in Workers \ {w} : u \in overtaken' <=> u \in overtaken
  BY DEF Forget
<1>3. Ahead(w)' /\ Raises(w)' /\ ~Forces(w)' /\ ~Refreshing(w)'
  BY <1>1 DEF Ahead, Raises, Forces, Refreshing
<1> QED  BY <1>1, <1>2, <1>3, NumberStays DEF memory

LEMMA AcquireForces ==
    ASSUME IInv, ForcedInv, NEW w \in Workers, Acquire(w)
    PROVE  ForcedInv'
<1>0. /\ TypeOK /\ OnlyOwn(w) /\ Host[w] \in Servers /\ pc[w] = "acquire"
      /\ lock[Host[w]] = "free"
      /\ UNCHANGED <<num, path, job, reply>>
  BY OwnStep, HostIsServer DEF IInv, Proceed, UpdateState, Acquire, Enter, memory, answer
<1>1. \A v \in Workers : Host[v] = Host[w] => ~Forces(v)
  BY <1>0, ServerAssumption DEF IInv, LockInv, Inside, Forces
<1>2. num[Host[w]] \in Nat /\ job[w].num \in Nat
  BY <1>0 DEF TypeOK, Entries
<1>3. CASE path[w] = "forced"
  <2>1. /\ pc'[w] = "setNum"
        /\ \A u \in Workers : u \in overtaken' <=> u \in overtaken \/ (Host[u] = Host[w] /\ u # w)
    BY <1>0, <1>3 DEF Acquire, Enter, Accepted, Goto, TypeOK
  <2>2. ASSUME NEW u \in Workers \ {w}
        PROVE  /\ Ahead(u)' /\ Raises(u)'
               /\ Forces(u)' <=> Forces(u)
               /\ Refreshing(u)' <=> Refreshing(u)
    <3>1. Ahead(u) /\ Raises(u) /\ Alike(u)  BY <1>0 DEF ForcedInv, OnlyOwn
    <3> QED  BY <1>0, <2>1, <3>1 DEF Alike, Ahead, Raises, Forces, Refreshing
  <2>3. Ahead(w)' /\ Raises(w)'
    BY <1>0, <1>3, <2>1 DEF Ahead, Raises
  <2>4. ASSUME NEW u \in Workers, NEW v \in Workers
        PROVE  Noted(v, u)'
    <3>1. CASE v = w  BY <2>1, <3>1 DEF Noted
    <3>2. CASE v # w
      <4>1. CASE u = w  BY <1>1, <2>2, <3>2, <4>1 DEF Noted
      <4>2. CASE u # w
        <5>1. Noted(v, u)  BY DEF ForcedInv
        <5> QED  BY <2>1, <2>2, <3>2, <4>2, <5>1 DEF Noted
      <4> QED  BY <4>1, <4>2
    <3> QED  BY <3>1, <3>2
  <2> QED  BY <2>2, <2>3, <2>4 DEF ForcedInv
<1>4. CASE path[w] # "forced"
  <2>1. \A u \in Workers : u \in overtaken' <=> u \in overtaken
    BY <1>4 DEF Acquire, Enter
  <2>2. CASE Supersedes(job[w], Host[w])
    <3>1. pc'[w] = "setNum"
      BY <1>0, <2>2 DEF Acquire, Enter, Accepted, Goto, TypeOK
    <3>2. job[w].num >= num[Host[w]]  BY <1>2, <2>2 DEF Supersedes
    <3>3. Ahead(w)' /\ Raises(w)' /\ ~Forces(w)' /\ ~Refreshing(w)'
      BY <1>0, <1>4, <3>1, <3>2 DEF Ahead, Raises, Forces, Refreshing
    <3> QED  BY <1>0, <2>1, <3>3, NothingForced
  <2>3. CASE ~Supersedes(job[w], Host[w])
    <3>1. pc'[w] = Return[path[w]]
      BY <1>0, <1>4, <2>3 DEF Acquire, Enter, Accepted, Goto, TypeOK
    <3>2. pc'[w] \in {"postOnSlack", "refresh"} \/ (pc'[w] = "takeIndex" /\ path[w] = "dbRow")
      BY <1>0, <1>4, <3>1 DEF Return, TypeOK
    <3>3. num[Host[w]] >= job[w].num  BY <1>2, <2>3 DEF Supersedes
    <3>4. Ahead(w)' /\ Raises(w)' /\ ~Forces(w)' /\ (Refreshing(w)' => Refreshing(w))
      BY <1>0, <3>2, <3>3 DEF Ahead, Raises, Forces, Refreshing
    <3> QED  BY <1>0, <2>1, <3>4, NothingForced
  <2> QED  BY <2>2, <2>3
<1> QED  BY <1>3, <1>4

(* The number changes in the hands of the one worker inside.               *)
LEMMA SetNumForces ==
    ASSUME IInv, ForcedInv, NEW w \in Workers, SetNum(w)
    PROVE  ForcedInv'
<1>0. /\ TypeOK /\ OnlyOwn(w) /\ Host[w] \in Servers /\ pc[w] = "setNum"
      /\ pc'[w] = "setBest" /\ num'[Host[w]] = job[w].num
      /\ UNCHANGED <<path, job, reply, overtaken>>
      /\ num[Host[w]] \in Nat /\ job[w].num \in Nat
  BY OwnStep, HostIsServer
     DEF IInv, Proceed, UpdateState, SetNum, Set, Goto, TypeOK, Entries, request, answer
<1>1. \A v \in Workers \ {w} : Host[v] = Host[w] => pc[v] # "setNum"
  BY <1>0, Alone DEF IInv, Inside
<1>2. ASSUME NEW u \in Workers \ {w}
      PROVE  /\ Ahead(u)' /\ Raises(u)'
             /\ Forces(u)' <=> Forces(u)
             /\ Refreshing(u)' <=> Refreshing(u)
  <2>0. Ahead(u) /\ Raises(u) /\ Noted(w, u) /\ Alike(u) /\ Host[u] \in Servers
    BY <1>0, HostIsServer DEF ForcedInv, OnlyOwn
  <2>1. Raises(u)' /\ (Forces(u)' <=> Forces(u)) /\ (Refreshing(u)' <=> Refreshing(u))
    <3>1. Host[u] # Host[w] => num'[Host[u]] = num[Host[u]]
      BY <1>0, <2>0 DEF OnlyOwn, SameMemory
    <3> QED  BY <1>0, <1>1, <2>0, <3>1 DEF Alike, Raises, Forces, Refreshing
  <2>2. CASE Host[u] # Host[w]
    <3>1. num'[Host[u]] = num[Host[u]]
      BY <1>0, <2>0, <2>2 DEF OnlyOwn, SameMemory
    <3> QED  BY <1>0, <2>0, <2>1, <3>1 DEF Alike, Ahead
  <2>3. CASE Host[u] = Host[w] /\ path[w] = "forced"
    <3>1. Refreshing(u) => u \in overtaken
      BY <1>0, <2>0, <2>3 DEF Noted, Forces
    <3> QED  BY <1>0, <2>0, <2>1, <3>1 DEF Alike, Ahead, Refreshing
  <2>4. CASE Host[u] = Host[w] /\ path[w] # "forced"
    <3>1. num'[Host[u]] >= num[Host[u]]
      BY <1>0, <2>4 DEF ForcedInv, Raises
    <3>2. num[Host[u]] \in Nat /\ num'[Host[u]] \in Nat /\ job[u].num \in Nat
      BY <1>0, <2>4 DEF TypeOK, Entries
    <3>3. num[Host[u]] >= job[u].num => num'[Host[u]] >= job[u].num
      BY <3>1, <3>2
    <3> QED  BY <1>0, <2>0, <2>1, <3>3 DEF Alike, Ahead
  <2> QED  BY <2>1, <2>2, <2>3, <2>4
<1>3. Ahead(w)' /\ Raises(w)' /\ ~Forces(w)' /\ ~Refreshing(w)'
  BY <1>0 DEF Ahead, Raises, Forces, Refreshing
<1>4. ASSUME NEW u \in Workers, NEW v \in Workers
      PROVE  Noted(v, u)'
  <2>1. CASE u = w \/ v = w  BY <1>3, <2>1 DEF Noted
  <2>2. CASE u # w /\ v # w
    <3>1. Noted(v, u)  BY DEF ForcedInv
    <3> QED  BY <1>0, <1>2, <2>2, <3>1 DEF Noted
  <2> QED  BY <2>1, <2>2
<1> QED  BY <1>2, <1>3, <1>4 DEF ForcedInv

LEMMA InsideForces ==
    ASSUME IInv, ForcedInv, NEW w \in Workers, UpdateState(w), ~Acquire(w), ~SetNum(w)
    PROVE  ForcedInv'
<1>0. TypeOK /\ OnlyOwn(w) /\ Host[w] \in Servers
  BY OwnStep, HostIsServer DEF IInv, Proceed
<1>1. CASE Release(w)
  <2>1. /\ pc[w] = "release" /\ pc'[w] = Return[path[w]]
        /\ UNCHANGED <<num, path, job, overtaken>>
    BY <1>0, <1>1 DEF Release, Goto, TypeOK, memory, request
  <2>2. num[Host[w]] = job[w].num /\ num[Host[w]] \in Nat
    BY <1>0, <2>1 DEF IInv, ProgressInv, NumIsSet, TypeOK
  <2>3. pc'[w] \in {"postOnSlack", "refresh", "takeIndex"}
    BY <1>0, <2>1 DEF Return, TypeOK
  <2>4. Ahead(w)' /\ Raises(w)' /\ ~Forces(w)'
    BY <2>1, <2>2, <2>3 DEF Ahead, Raises, Forces
  <2>5. \A v \in Workers \ {w} : Host[v] = Host[w] => ~Forces(v)
    BY <2>1, InsideAlone DEF Inside
  <2> QED  BY <1>0, <2>1, <2>4, <2>5, NumberStays
<1>2. CASE Insert(w) /\ Raise(w)
  BY <1>2, ForgetForces DEF Raise
<1>3. CASE ~Release(w) /\ ~(Insert(w) /\ Raise(w))
  <2>1. pc'[w] \in Inside \ {"setNum"} /\ UNCHANGED <<num, overtaken>>
    BY <1>0, <1>3
       DEF UpdateState, SetBest, SetGraph, FillIndexQueue, Set, DbRead, Branch, Update,
           Insert, Write, Goto, Inside, TypeOK, memory, request
  <2>2. Ahead(w)' /\ Raises(w)' /\ ~Forces(w)' /\ ~Refreshing(w)'
    BY <2>1 DEF Ahead, Raises, Forces, Refreshing, Inside
  <2> QED  BY <1>0, <2>1, <2>2, NothingForced
<1> QED  BY <1>1, <1>2, <1>3

LEMMA ReplyForces ==
    ASSUME IInv, ForcedInv, NEW w \in Workers, ReplyToClient(w)
    PROVE  ForcedInv'
<1>0. TypeOK /\ OnlyOwn(w) /\ Host[w] \in Servers /\ num[Host[w]] \in Nat /\ job[w].num \in Nat
  BY OwnStep, HostIsServer DEF IInv, Proceed, TypeOK, Entries
<1>a. Ahead(w)  BY DEF ForcedInv
<1>1. CASE ReadMaxNumFromDB(w) /\ MaxRows # {}
  <2>1. /\ pc'[w] = "rowNewer" /\ UNCHANGED num
        /\ overtaken' = IF ForcedInside(Host[w]) THEN overtaken \cup {w}
                        ELSE overtaken \ {w}
    BY <1>0, <1>1 DEF ReadMaxNumFromDB, Goto, TypeOK, memory
  <2>2. w \notin overtaken' => \A v \in Workers \ {w} : Host[v] = Host[w] => ~Forces(v)
    <3>1. ASSUME NEW v \in Workers, Host[v] = Host[w], Forces(v)
          PROVE  ForcedInside(Host[w])
      BY <3>1 DEF ForcedInside, Forces, IInv, LockInv, Inside
    <3> QED  BY <2>1, <3>1
  <2>3. Ahead(w)' /\ Raises(w)' /\ ~Forces(w)'
    BY <2>1 DEF Ahead, Raises, Forces
  <2> QED  BY <1>0, <2>1, <2>2, <2>3, NumberStays
<1>2. CASE (ReadMaxNumFromDB(w) /\ MaxRows = {}) \/ Send(w)
  BY <1>2, ForgetForces DEF ReadMaxNumFromDB, Raise, Send
<1>3. CASE RowNewer(w) \/ RowBetter(w) \/ RowSame(w)
  <2>1. /\ UNCHANGED <<num, path, job, overtaken>> /\ Refreshing(w)
        /\ \/ pc'[w] = "acquire"
           \/ pc'[w] \in {"rowBetter", "rowSame", "takeIndex"}
              /\ (pc[w] = "rowNewer" => num[Host[w]] >= job[w].num)
              /\ pc[w] \in {"rowNewer", "rowBetter", "rowSame"}
    BY <1>0, <1>3 DEF RowNewer, RowBetter, RowSame, Branch, Goto, TypeOK, memory, request,
                      Refreshing
  <2>2. Ahead(w)' /\ Raises(w)' /\ ~Forces(w)'
    BY <1>a, <2>1 DEF Ahead, Raises, Forces
  <2> QED  BY <1>0, <2>1, <2>2, NothingForced
<1>4. CASE GetAndSetNextIndex(w)
  <2>1. /\ UNCHANGED <<num, path, job, overtaken>> /\ pc[w] = "takeIndex"
        /\ pc'[w] = "snapshot"
    BY <1>0, <1>4 DEF GetAndSetNextIndex, Goto, TypeOK, request
  <2>2. Ahead(w)' /\ Raises(w)' /\ ~Forces(w)' /\ Refreshing(w)
    BY <1>a, <2>1 DEF Ahead, Raises, Forces, Refreshing
  <2> QED  BY <1>0, <2>1, <2>2, NothingForced
<1>5. CASE Snapshot(w)
  <2>1. /\ UNCHANGED <<num, path, job, overtaken>> /\ pc[w] = "snapshot"
        /\ pc'[w] = "send" /\ reply'[w] = Entry(Host[w])
    BY <1>0, <1>5 DEF Snapshot, Goto, TypeOK, memory, request
  <2>2. Entry(Host[w]).num = num[Host[w]]  BY DEF Entry
  <2>3. Ahead(w)' /\ Raises(w)' /\ ~Forces(w)' /\ ~Refreshing(w)'
    BY <1>a, <2>1, <2>2 DEF Ahead, Raises, Forces, Refreshing
  <2> QED  BY <1>0, <2>1, <2>3, NothingForced
<1> QED  BY <1>1, <1>2, <1>3, <1>4, <1>5 DEF ReplyToClient

LEMMA ForcedStep ==
    ASSUME IInv, ForcedInv, [Next]_vars
    PROVE  ForcedInv'
<1>1. ASSUME NEW w \in Workers, PostOnSlack(w) \/ CreateExampleFile(w)
      PROVE  ForcedInv'
  <2>0. OnlyOwn(w)  BY <1>1, OwnStep DEF IInv, Proceed
  <2>1. UNCHANGED <<num, overtaken>> /\ pc'[w] \in {"createFile", "refresh"}
    BY <1>1 DEF PostOnSlack, CreateExampleFile, Goto, IInv, TypeOK, memory, request
  <2>2. Ahead(w)' /\ Raises(w)' /\ ~Forces(w)' /\ ~Refreshing(w)'
    BY <2>1 DEF Ahead, Raises, Forces, Refreshing
  <2> QED  BY <2>0, <2>1, <2>2, NothingForced
<1>2. ASSUME NEW w \in Workers, DbFails(w)
      PROVE  ForcedInv'
  BY <1>2, ForgetForces DEF DbFails, Raise
<1>3. ASSUME NEW w \in Workers, Receive(w) \/ Proceed(w)
      PROVE  ForcedInv'
  BY <1>1, <1>3, DecideForces, AcquireForces, SetNumForces, InsideForces, ReplyForces
     DEF Proceed
<1>4. ASSUME NEW s \in Servers, Restart(s)
      PROVE  ForcedInv'
  <2>1. ASSUME NEW u \in Workers, Host[u] = s
        PROVE  Ahead(u)' /\ Raises(u)' /\ ~Forces(u)' /\ ~Refreshing(u)'
    BY <1>4, <2>1 DEF Restart, Forget, Ahead, Raises, Forces, Refreshing
  <2>2. ASSUME NEW u \in Workers, Host[u] # s
        PROVE  /\ Ahead(u)' /\ Raises(u)' /\ (u \in overtaken' <=> u \in overtaken)
               /\ Forces(u)' <=> Forces(u)
               /\ Refreshing(u)' <=> Refreshing(u)
    <3>1. /\ UNCHANGED <<pc[u], path[u], job[u], reply[u], num[Host[u]]>>
          /\ u \in overtaken' <=> u \in overtaken
      BY <1>4, <2>2, HostIsServer DEF Restart, Forget, IInv, TypeOK
    <3>2. Ahead(u) /\ Raises(u)  BY DEF ForcedInv
    <3> QED  BY <3>1, <3>2 DEF Ahead, Raises, Forces, Refreshing
  <2>3. ASSUME NEW u \in Workers, NEW v \in Workers
        PROVE  Noted(v, u)'
    <3>1. CASE Host[u] = s \/ Host[v] = s  BY <2>1, <3>1 DEF Noted
    <3>2. CASE Host[u] # s /\ Host[v] # s
      <4>1. Noted(v, u)  BY DEF ForcedInv
      <4> QED  BY <2>2, <3>2, <4>1 DEF Noted
    <3> QED  BY <3>1, <3>2
  <2> QED  BY <2>1, <2>2, <2>3 DEF ForcedInv
<1>5. CASE UNCHANGED vars
  <2>1. UNCHANGED <<num, pc, path, job, reply, overtaken>>
    BY <1>5 DEF vars, memory, request, answer
  <2> QED  BY <2>1 DEF ForcedInv, Ahead, Raises, Noted, Forces, Refreshing
<1> QED  BY <1>2, <1>3, <1>4, <1>5 DEF Next

(* The decisions of handleNewCounterExample and updateStateFromDB are made *)
(* without the lock and may be out of date when it is taken.  For any      *)
(* number of workers and servers, whatever fails and restarts, a reply     *)
(* falls behind the row that was read for it only if a forced update was   *)
(* carried out on the server in between.                                   *)
THEOREM OnlyForced == Spec => []OnlyForcedSetsBack
<1>1. Init => ForcedInv
  BY DEF Init, ForcedInv, Ahead, Raises, Noted, Forces, Refreshing
<1>2. ForcedInv => OnlyForcedSetsBack
  BY DEF ForcedInv, Ahead, OnlyForcedSetsBack
<1> QED  BY <1>1, <1>2, ForcedStep, AlwaysIInv, PTL DEF Spec

-----------------------------------------------------------------------------
(* One worker, whose statements do not fail and who is not restarted.      *)
OneWorkerOnly == /\ \E w : Workers = {w}
                 /\ ~DbMayFail /\ ~MayCrash

(* The memory is the row of the largest number, unless the worker is about *)
(* to write that.                                                          *)
TableInv ==
    /\ PrimaryKey(db)
    /\ \A r \in db : r.num <= Best.num
    /\ pc[Worker] \notin Inside =>
          IF db = {} THEN Entry(Server) = Blank ELSE Entry(Server) \in db
    /\ pc[Worker] = "release" => job[Worker] \in db
    /\ IsFiniteSet(queue[Server])

(* What the conditions of handleNewCounterExample have established.        *)
TestsInv ==
    /\ pc[Worker] = "zero" => job[Worker].num = num[Server] /\ job[Worker].count = 0
    /\ pc[Worker] = "newer" => job[Worker].num # num[Server]
    /\ pc[Worker] \in {"improves", "drained", "differs", "open", "drainedToo", "differsToo"} =>
          job[Worker].num = num[Server] /\ job[Worker].count # 0
    /\ pc[Worker] \in {"drained", "differs"} => job[Worker].count <= best[Server]
    /\ pc[Worker] \in {"differs", "differsToo"} => queue[Server] = {}
    /\ pc[Worker] \in {"drainedToo", "differsToo"} => best[Server] # 0
    /\ pc[Worker] \in {"open", "drainedToo", "differsToo"} =>
          \/ job[Worker].count > best[Server] \/ queue[Server] # {}
          \/ job[Worker].graph = graph[Server]

(* What makes a coordinator take an offer.                                 *)
Welcome ==
    \/ job[Worker].num > num[Server]
    \/ /\ job[Worker].num = num[Server] /\ best[Server] # 0
       /\ \/ job[Worker].count = 0
          \/ /\ queue[Server] = {} /\ job[Worker].graph # graph[Server]
             /\ job[Worker].count # best[Server]

(* The test under the lock agrees with that.  The row read for the reply   *)
(* is the one in memory, which no row supersedes.                          *)
CallInv ==
    /\ pc[Worker] = "acquire" =>
          Supersedes(job[Worker], Server) \/ path[Worker] = "forced" <=> Welcome
    /\ pc[Worker] \in Inside \cup {"acquire"} => path[Worker] # "dbRow"
    /\ pc[Worker] \in {"postOnSlack", "createFile", "refresh", "rowNewer", "rowBetter"} =>
          num[Server] # 0
    /\ pc[Worker] \in {"rowNewer", "rowBetter"} => job[Worker] = Entry(Server)
    /\ pc[Worker] # "rowSame"

RefInv == TableInv /\ TestsInv /\ CallInv

-----------------------------------------------------------------------------
LEMMA SizeIsNat ==
    ASSUME NEW Q, IsFiniteSet(Q)
    PROVE  Cardinality(Q) \in Nat /\ (Cardinality(Q) = 0 <=> Q = {})
BY FS_CardinalityType, FS_EmptySet

LEMMA IndexesAreFew ==
    ASSUME NEW e \in Entries, NEW s \in Servers
    PROVE  /\ IsFiniteSet(IndexesFor(e, s))
           /\ Cardinality(IndexesFor(e, s)) \in 0..MAX_LEFT
           /\ e.count = 0 => IndexesFor(e, s) = {}
<1>1. e.graph \in Graphs \cup {NoGraph}
  BY DEF Entries
<1>2. Share(Ones[e.graph], s) \subseteq Ones[e.graph]
  BY DEF Share
<1>3. IsFiniteSet(Share(Ones[e.graph], s))
  BY <1>1, <1>2, LeftAssumption, FS_Subset
<1>4. Cardinality(Share(Ones[e.graph], s)) \in 0..MAX_LEFT
  BY <1>1, <1>3, LeftAssumption, SizeIsNat
<1>5. IsFiniteSet({}) /\ Cardinality({}) \in 0..MAX_LEFT
  BY LeftAssumption, FS_EmptySet
<1> QED
  BY <1>3, <1>4, <1>5 DEF IndexesFor

LEMMA OnlyWorker ==
    ASSUME OneWorkerOnly
    PROVE  /\ Worker \in Workers /\ Server \in Servers
           /\ \A w \in Workers : w = Worker
           /\ \A v, w \in Workers : Host[v] = Host[w]
           /\ Worker' = Worker /\ Server' = Server
<1>1. Worker \in Workers /\ \A w \in Workers : w = Worker
  BY DEF OneWorkerOnly, Worker
<1>2. Worker' = Worker
  BY DEF Worker
<1>3. Server' = Server
  BY DEF Server, Worker
<1> QED
  BY <1>1, <1>2, <1>3, HostIsServer DEF Server

(* All that is known of the one worker, its server and the table.          *)
AllInv == IInv /\ QueueInv /\ OfferedInv /\ InsertsDoNotCollide

LEMMA AlwaysAllInv == ASSUME OneWorkerOnly PROVE Spec => []AllInv
<1>1. \A v, w \in Workers : Host[v] = Host[w]
  BY OnlyWorker
<1>2. Init => InsertsDoNotCollide
  BY DEF Init, InsertsDoNotCollide
<1>3. Spec => []InsertsDoNotCollide
  BY <1>1, <1>2, InsertSteps, AlwaysIInv, PTL DEF Spec
<1> QED
  BY <1>3, AlwaysIInv, AlwaysQueueInv, AlwaysOfferedInv, PTL DEF AllInv

(* What the types say of the worker and its server.                        *)
LEMMA OwnTypes ==
    ASSUME OneWorkerOnly, AllInv
    PROVE  /\ num[Server] \in Nat /\ best[Server] \in Nat
           /\ graph[Server] \in Graphs \cup {NoGraph}
           /\ job[Worker] \in Entries /\ job[Worker].num \in Nat /\ job[Worker].count \in Nat
           /\ Entry(Server).num = num[Server] /\ Entry(Server).count = best[Server]
           /\ Entry(Server).graph = graph[Server] /\ Entry(Server) \in Entries
           /\ pc[Worker] # "idle" => job[Worker] \in Offers /\ job[Worker].num # 0
<1>1. Worker \in Workers /\ Server \in Servers
  BY OnlyWorker
<1> QED
  BY <1>1, ServerAssumption DEF AllInv, IInv, TypeOK, OfferedInv, Entries, Entry

LEMMA InitRefInv == ASSUME OneWorkerOnly PROVE Init => RefInv
<1> SUFFICES ASSUME Init PROVE RefInv
  OBVIOUS
<1>1. Worker \in Workers /\ Server \in Servers
  BY OnlyWorker
<1>2. pc[Worker] = "idle"
  BY <1>1 DEF Init
<1>3. Loaded \in Entries /\ (db # {} => Loaded \in db /\ \A r \in db : r.num <= Loaded.num)
      /\ (db = {} => Loaded = Blank)
  <2>1. db \subseteq Entries
    BY OffersAreEntries DEF Init
  <2>2. MaxRows # {} => MaxRow \in MaxRows
    BY DEF MaxRow
  <2> QED
    BY <2>1, <2>2, BlankIsEntry DEF Init, MaxRows, Loaded
<1>4. Entry(Server) = Loaded
  BY <1>1, <1>3, EntryIs DEF Init
<1>5. queue[Server] = IndexesFor(Loaded, Server)
  BY <1>1 DEF Init
<1>6. TableInv
  BY <1>1, <1>2, <1>3, <1>4, <1>5, IndexesAreFew DEF Init, TableInv, Best, Inside
<1> QED
  BY <1>2, <1>6 DEF RefInv, TestsInv, CallInv, Inside

-----------------------------------------------------------------------------
(* How a step of the worker looks to those who see only the coordinator.   *)
CStep == C!CoordinatorNext \/ UNCHANGED <<Best, Left>>

Deciding == {"idle", "same", "zero", "newer", "improves", "drained", "differs", "open",
             "drainedToo", "differsToo", "acquire"}
Dealing == {"postOnSlack", "createFile", "refresh", "rowNewer", "rowBetter", "rowSame",
            "takeIndex"}

(* Before the request is decided nothing is set aside for it; then an      *)
(* index is, if one is wanted and left.                                    *)
LEMMA LeftIs ==
    ASSUME OneWorkerOnly, AllInv, RefInv
    PROVE  /\ pc[Worker] \notin Inside => Best = Entry(Server) /\ Dealable = queue[Server]
           /\ pc[Worker] \in Inside => Best = job[Worker]
           /\ pc[Worker] \in Deciding =>
                 Left = Cardinality(queue[Server]) /\ (Left = 0 <=> queue[Server] = {})
           /\ Cardinality(queue[Server]) \in Nat
           /\ pc[Worker] \in Dealing \cup Inside =>
                 Left = IF wants[Worker] /\ Dealable # {} THEN Cardinality(Dealable) - 1
                        ELSE Cardinality(Dealable)
<1>1. /\ Cardinality(queue[Server]) \in Nat
      /\ Cardinality(queue[Server]) = 0 <=> queue[Server] = {}
  BY SizeIsNat DEF RefInv, TableInv
<1>2. Dealable = queue[Server] \/ Dealable = IndexesFor(job[Worker], Server)
  BY DEF Dealable
<1>3. Cardinality(Dealable) \in Nat
  BY <1>1, <1>2, IndexesAreFew, SizeIsNat, OnlyWorker, OwnTypes
<1>4. pc[Worker] \in Deciding => ~AboutToDeal
  BY DEF AboutToDeal, Deciding, Inside
<1>5. pc[Worker] \in Dealing \cup Inside => AboutToDeal <=> wants[Worker] /\ Dealable # {}
  BY DEF AboutToDeal, Dealing, Inside
<1>6. pc[Worker] \in Deciding => Dealable = queue[Server]
  BY DEF Dealable, Deciding
<1>7. Left = Cardinality(Dealable) - (IF AboutToDeal THEN 1 ELSE 0)
  BY DEF Left
<1>8. pc[Worker] \in Deciding => Left = Cardinality(queue[Server])
  BY <1>3, <1>4, <1>6, <1>7
<1>9. pc[Worker] \in Dealing \cup Inside =>
         Left = IF wants[Worker] /\ Dealable # {} THEN Cardinality(Dealable) - 1
                ELSE Cardinality(Dealable)
  BY <1>3, <1>5, <1>7
<1>10. pc[Worker] \notin Inside => Best = Entry(Server) /\ Dealable = queue[Server]
  BY DEF Best, Dealable, Inside
<1>11. pc[Worker] \in Inside => Best = job[Worker]
  BY DEF Best
<1> QED
  BY <1>1, <1>8, <1>9, <1>10, <1>11

LEMMA WelcomeIsAccepted ==
    ASSUME OneWorkerOnly, AllInv, RefInv, pc[Worker] \in Deciding
    PROVE  C!Accepts(job[Worker]) <=> Welcome
<1>1. pc[Worker] \notin Inside
  BY DEF Deciding, Inside
<1>2. /\ Best.num = num[Server] /\ Best.count = best[Server] /\ Best.graph = graph[Server]
      /\ Left = 0 <=> queue[Server] = {}
  BY <1>1, LeftIs, OwnTypes
<1> QED
  BY <1>2 DEF C!Accepts, Welcome

(* A request that is turned down.                                          *)
LEMMA TurnedDown ==
    ASSUME OneWorkerOnly, AllInv, AllInv', RefInv, RefInv', ~Welcome,
           pc[Worker] \in Deciding \ {"idle"}, pc'[Worker] \in Dealing,
           UNCHANGED <<memory, wants>>
    PROVE  C!CoordinatorNext
<1> DEFINE offer == job[Worker]
           deals == wants[Worker] /\ Left > 0
           reply0 == [entry |-> Best, index |-> IF deals THEN 0 ELSE -1]
<1>1. Worker' = Worker /\ Server' = Server /\ Worker \in Workers /\ Server \in Servers
  BY OnlyWorker
<1>2. offer \in Offers /\ ~C!Accepts(offer)
  BY WelcomeIsAccepted, OwnTypes
<1>3. Best' = Best
  <2>1. Best = Entry(Server) /\ Best' = Entry(Server)'
    BY <1>1 DEF Best, Deciding, Dealing, Inside
  <2> QED
    BY <1>1, <2>1 DEF memory, Entry
<1>4. Left' = IF deals THEN Left - 1 ELSE Left
  <2>1. Left = Cardinality(queue[Server]) /\ Left \in Nat /\ (Left = 0 <=> queue[Server] = {})
    BY LeftIs
  <2>2. Dealable' = queue[Server] /\ wants'[Worker] = wants[Worker]
    BY <1>1 DEF memory, Dealable, Dealing
  <2>3. AboutToDeal' <=> wants[Worker] /\ queue[Server] # {}
    BY <1>1, <2>2 DEF AboutToDeal, Dealing
  <2>4. Left' = Cardinality(queue[Server]) - (IF wants[Worker] /\ queue[Server] # {} THEN 1 ELSE 0)
    BY <2>2, <2>3 DEF Left
  <2> QED
    BY <2>1, <2>4
<1>5. C!After(offer) = Best /\ C!LeftAfter(offer) = {Left}
  BY <1>2 DEF C!After, C!LeftAfter
<1>6. wants[Worker] \in BOOLEAN
  BY <1>1 DEF AllInv, IInv, TypeOK
<1>7. C!Handle(offer, wants[Worker], reply0)
  BY <1>3, <1>4, <1>5 DEF C!Handle
<1> HIDE DEF offer
<1> QED
  BY <1>2, <1>5, <1>6, <1>7 DEF C!CoordinatorNext

(* A request that is accepted.                                             *)
LEMMA TakenOn ==
    ASSUME OneWorkerOnly, AllInv, AllInv', RefInv, RefInv', Welcome,
           pc[Worker] = "acquire", pc'[Worker] = "setNum", UNCHANGED <<job, wants>>
    PROVE  C!CoordinatorNext
<1> DEFINE offer == job[Worker]
           n == Cardinality(IndexesFor(offer, Server))
           deals == wants[Worker] /\ n > 0
           reply0 == [entry |-> offer, index |-> IF deals THEN 0 ELSE -1]
<1>1. Worker' = Worker /\ Server' = Server /\ Worker \in Workers /\ Server \in Servers
  BY OnlyWorker
<1>2. offer \in Offers /\ offer \in Entries /\ C!Accepts(offer)
  BY WelcomeIsAccepted, OwnTypes DEF Deciding
<1>3. Best' = offer
  BY <1>1 DEF Best, Inside
<1>4. n \in 0..MAX_LEFT /\ (n = 0 <=> IndexesFor(offer, Server) = {})
      /\ (offer.count = 0 => n = 0)
  BY <1>1, <1>2, IndexesAreFew, SizeIsNat
<1>5. Left' = IF deals THEN n - 1 ELSE n
  <2>1. Dealable' = IndexesFor(offer, Server) /\ wants'[Worker] = wants[Worker]
    <3>1. Dealable' = IndexesFor(job[Worker], Server)'
      BY <1>1 DEF Dealable
    <3> QED
      BY <1>1, <3>1 DEF IndexesFor, Share, Rank
  <2>2. AboutToDeal' <=> wants[Worker] /\ IndexesFor(offer, Server) # {}
    BY <1>1, <2>1 DEF AboutToDeal, Inside
  <2>3. Left' = n - (IF wants[Worker] /\ IndexesFor(offer, Server) # {} THEN 1 ELSE 0)
    BY <2>1, <2>2 DEF Left
  <2> QED
    BY <1>4, <2>3
<1>6. C!After(offer) = offer /\ n \in C!LeftAfter(offer)
  BY <1>2, <1>4 DEF C!After, C!LeftAfter
<1>7. wants[Worker] \in BOOLEAN
  BY <1>1 DEF AllInv, IInv, TypeOK
<1> HIDE DEF n, offer
<1>8. C!Handle(offer, wants[Worker], reply0)
  BY <1>3, <1>5, <1>6 DEF C!Handle
<1> QED
  BY <1>2, <1>6, <1>7, <1>8 DEF C!CoordinatorNext

(* Moves that decide nothing: before, and after, and inside updateState.   *)
LEMMA Quiet ==
    ASSUME OneWorkerOnly, pc[Worker] \notin Inside, pc'[Worker] \notin Inside,
           UNCHANGED memory,
           \/ pc[Worker] \in Deciding /\ pc'[Worker] \in Deciding
           \/ pc[Worker] \in Dealing /\ pc'[Worker] \in Dealing /\ UNCHANGED wants
    PROVE  UNCHANGED <<Best, Left>>
<1>1. Worker' = Worker /\ Server' = Server
  BY OnlyWorker
<1>2. UNCHANGED Best
  <2>1. Best = Entry(Server) /\ Best' = Entry(Server)'
    BY <1>1 DEF Best
  <2> QED
    BY <1>1, <2>1 DEF memory, Entry
<1>3. UNCHANGED Dealable
  BY <1>1 DEF Dealable, memory, Inside
<1>4. AboutToDeal' <=> AboutToDeal
  BY <1>1, <1>3 DEF AboutToDeal, Deciding, Dealing, Inside
<1> QED
  BY <1>2, <1>3, <1>4 DEF Left

LEMMA TableStays ==
    ASSUME OneWorkerOnly, TableInv, UNCHANGED <<memory, db>>,
           pc[Worker] \notin Inside, pc'[Worker] \notin Inside
    PROVE  TableInv'
<1>1. Worker' = Worker /\ Server' = Server /\ Blank' = Blank
  BY OnlyWorker DEF Blank
<1>2. Entry(Server)' = Entry(Server)
  BY <1>1 DEF memory, Entry
<1>3. Best = Entry(Server) /\ Best' = Entry(Server)
  BY <1>1, <1>2 DEF Best
<1>4. pc'[Worker] # "release"
  BY DEF Inside
<1> QED
  BY <1>1, <1>2, <1>3, <1>4 DEF TableInv, PrimaryKey, memory

(* handleNewCounterExample: what each condition adds to what is known, and *)
(* why a request that it turns down would be turned down by a coordinator. *)
LEMMA DecideRefines ==
    ASSUME OneWorkerOnly, AllInv, AllInv', RefInv, Receive(Worker) \/ Decide(Worker)
    PROVE  RefInv' /\ CStep
<1>0. /\ Worker' = Worker /\ Server' = Server /\ Worker \in Workers
      /\ Host[Worker] = Server /\ TypeOK
  BY OnlyWorker DEF Server, AllInv, IInv
<1>1. /\ UNCHANGED <<num, best, graph, queue, db>> /\ UNCHANGED memory
      /\ pc[Worker] \in Deciding
      /\ Decide(Worker) => UNCHANGED <<job, wants>> /\ pc[Worker] # "idle"
  BY DEF Receive, Decide, SameNumber, Zero, Newer, Improves, Drained, Differs, StillOpen,
         DrainedToo, DiffersToo, Branch, CallUpdateState, memory, store, request, Deciding
<1>2. /\ num[Server] \in Nat /\ best[Server] \in Nat
      /\ job[Worker].num \in Nat /\ job[Worker].count \in Nat
      /\ pc[Worker] # "idle" => job[Worker].num # 0
  BY OwnTypes
<1>3. /\ num'[Server] = num[Server] /\ best'[Server] = best[Server]
      /\ graph'[Server] = graph[Server] /\ queue'[Server] = queue[Server]
      /\ Decide(Worker) => job'[Worker] = job[Worker]
  BY <1>1
<1> USE <1>0, <1>1, <1>2, <1>3 DEF RefInv, TestsInv, CallInv, Goto, Inside
<1>4. /\ TestsInv' /\ CallInv' /\ pc'[Worker] \in Deciding \cup {"refresh"}
      /\ pc'[Worker] = "refresh" => ~Welcome /\ Decide(Worker)
  <2>1. CASE Receive(Worker)
    BY <2>1 DEF Receive, Deciding, TypeOK
  <2>2. CASE SameNumber(Worker)
    <3>1. \/ /\ pc'[Worker] = "zero" /\ job[Worker].num = num[Server]
             /\ job[Worker].count = 0
          \/ /\ pc'[Worker] = "improves" /\ job[Worker].num = num[Server]
             /\ job[Worker].count # 0
          \/ pc'[Worker] = "newer" /\ job[Worker].num # num[Server]
      BY <2>2 DEF SameNumber, Branch, TypeOK
    <3> QED
      BY <2>2, <3>1 DEF Deciding, Decide
  <2>3. CASE Zero(Worker)
    <3>1. job[Worker].num = num[Server] /\ job[Worker].count = 0
      BY <2>3 DEF Zero, CallUpdateState
    <3>2. pc'[Worker] = "acquire" /\ path'[Worker] = "found"
      BY <2>3 DEF Zero, CallUpdateState, TypeOK
    <3>3. Supersedes(job[Worker], Server)' <=> Welcome'
      BY <3>1, <2>3 DEF Supersedes, Welcome, Decide
    <3> QED
      BY <3>2, <3>3 DEF Deciding
  <2>4. CASE Newer(Worker)
    <3>1. /\ \/ /\ pc'[Worker] = "acquire" /\ path'[Worker] = "offer"
                /\ job[Worker].num > num[Server]
             \/ /\ pc'[Worker] = "refresh" /\ ~(job[Worker].num > num[Server])
          /\ job[Worker].num # num[Server]
      BY <2>4 DEF Newer, CallUpdateState, TypeOK
    <3>2. job[Worker].num > num[Server] => Supersedes(job[Worker], Server)' /\ Welcome'
      BY <2>4 DEF Supersedes, Welcome, Decide
    <3>3. ~(job[Worker].num > num[Server]) => ~Welcome /\ num[Server] # 0
      BY <2>4, <3>1 DEF Welcome, Newer, CallUpdateState
    <3> QED
      BY <2>4, <3>1, <3>2, <3>3 DEF Deciding, Decide
  <2>5. CASE Improves(Worker) \/ Drained(Worker)
    BY <2>5 DEF Improves, Drained, Branch, Deciding, TypeOK, Decide
  <2>6. CASE Differs(Worker)
    <3>1. /\ job[Worker].num = num[Server] /\ job[Worker].count # 0 /\ queue[Server] = {}
          /\ job[Worker].count <= best[Server]
          /\ \/ /\ pc'[Worker] = "acquire" /\ path'[Worker] = "offer"
                /\ job[Worker].graph # graph[Server]
             \/ pc'[Worker] = "open" /\ job[Worker].graph = graph[Server]
      BY <2>6 DEF Differs, CallUpdateState, TypeOK
    <3>2. job[Worker].graph # graph[Server] =>
             (Supersedes(job[Worker], Server)' <=> Welcome')
      BY <2>6, <3>1 DEF Supersedes, Welcome, Decide
    <3> QED
      BY <2>6, <3>1, <3>2 DEF Deciding, Decide
  <2>7. CASE StillOpen(Worker)
    BY <2>7 DEF StillOpen, Branch, Deciding, TypeOK, Decide, Welcome
  <2>8. CASE DrainedToo(Worker)
    BY <2>8 DEF DrainedToo, Branch, Deciding, TypeOK, Decide, Welcome
  <2>9. CASE DiffersToo(Worker)
    <3>1. /\ job[Worker].num = num[Server] /\ job[Worker].count # 0 /\ queue[Server] = {}
          /\ best[Server] # 0
          /\ job[Worker].count > best[Server] \/ job[Worker].graph = graph[Server]
          /\ \/ /\ pc'[Worker] = "acquire" /\ path'[Worker] = "forced"
                /\ job[Worker].graph # graph[Server]
             \/ pc'[Worker] = "refresh" /\ job[Worker].graph = graph[Server]
      BY <2>9 DEF DiffersToo, CallUpdateState, TypeOK
    <3>2. job[Worker].graph # graph[Server] => Welcome'
      BY <2>9, <3>1 DEF Welcome, Decide
    <3>3. job[Worker].graph = graph[Server] => ~Welcome
      BY <3>1 DEF Welcome
    <3> QED
      BY <2>9, <3>1, <3>2, <3>3 DEF Deciding, Decide
  <2> QED
    BY <2>1, <2>2, <2>3, <2>4, <2>5, <2>6, <2>7, <2>8, <2>9 DEF Decide
<1>5. pc[Worker] \notin Inside /\ pc'[Worker] \notin Inside
  BY <1>4 DEF Deciding
<1>6. RefInv'
  BY <1>4, <1>5, TableStays
<1>7. CASE pc'[Worker] = "refresh"
  BY <1>4, <1>6, <1>7, TurnedDown DEF CStep, Dealing
<1>8. CASE pc'[Worker] # "refresh"
  BY <1>4, <1>5, <1>6, <1>8, Quiet DEF CStep
<1> QED
  BY <1>6, <1>7, <1>8

(* updateState decides under the lock.                                     *)
LEMMA AcquireRefines ==
    ASSUME OneWorkerOnly, AllInv, AllInv', RefInv, Acquire(Worker)
    PROVE  RefInv' /\ CStep
<1>0. /\ Worker' = Worker /\ Server' = Server /\ Worker \in Workers
      /\ Host[Worker] = Server /\ TypeOK /\ pc[Worker] = "acquire"
      /\ UNCHANGED <<num, best, graph, queue, db, path, job, wants>> /\ UNCHANGED memory
  BY OnlyWorker DEF Server, AllInv, IInv, Acquire, Enter, Accepted, memory, store, request
<1>1. /\ path[Worker] \in {"offer", "found", "forced"}
      /\ Supersedes(job[Worker], Server) \/ path[Worker] = "forced" <=> Welcome
  BY <1>0 DEF RefInv, CallInv, TypeOK
<1>2. /\ num[Server] \in Nat /\ job[Worker].num \in Nat \ {0} /\ Entry(Server).num = num[Server]
  BY <1>0, OwnTypes
<1>3. CASE Welcome
  <2>1. pc'[Worker] = "setNum"
    BY <1>0, <1>1, <1>3 DEF Acquire, Enter, Accepted, Goto, TypeOK
  <2>2. Best = Entry(Server) /\ Best' = job[Worker]
    BY <1>0, <2>1 DEF Best, Inside
  <2>3. num[Server] <= job[Worker].num
    BY <1>2, <1>3 DEF Welcome
  <2>4. \A r \in db : r.num <= job[Worker].num
    <3>1. \A r \in db : r.num \in Nat /\ r.num <= num[Server]
      BY <1>0, <1>2, <2>2 DEF RefInv, TableInv, TypeOK, Entries
    <3> QED
      BY <1>2, <2>3, <3>1
  <2>5. RefInv'
    BY <1>0, <1>1, <2>1, <2>2, <2>4 DEF RefInv, TableInv, TestsInv, CallInv, PrimaryKey, Inside
  <2> QED
    BY <1>0, <1>3, <2>1, <2>5, TakenOn DEF CStep
<1>4. CASE ~Welcome
  <2>1. pc'[Worker] \in {"refresh", "postOnSlack"}
    BY <1>0, <1>1, <1>4 DEF Acquire, Enter, Accepted, Goto, TypeOK, Return
  <2>2. num[Server] # 0
    BY <1>2, <1>4 DEF Welcome
  <2>3. RefInv'
    BY <1>0, <2>1, <2>2, TableStays DEF RefInv, TestsInv, CallInv, Inside
  <2> QED
    BY <1>0, <1>4, <2>1, <2>3, TurnedDown DEF CStep, Deciding, Dealing
<1> QED
  BY <1>3, <1>4

(* The update itself, piece by piece, is not seen.                         *)
LEMMA InsideRefines ==
    ASSUME OneWorkerOnly, AllInv, AllInv', RefInv, UpdateState(Worker), ~Acquire(Worker)
    PROVE  RefInv' /\ CStep
<1>0. /\ Worker' = Worker /\ Server' = Server /\ Worker \in Workers /\ Server \in Servers
      /\ Host[Worker] = Server /\ TypeOK /\ TypeOK'
  BY OnlyWorker DEF Server, AllInv, IInv
<1>1. /\ UNCHANGED <<path, job, wants>> /\ pc[Worker] \in Inside
      /\ pc'[Worker] \in Inside \/ Release(Worker)
  <2>1. ~(Insert(Worker) /\ Raise(Worker) /\ Collides(Worker))
    BY <1>0 DEF AllInv, InsertsDoNotCollide, Insert
  <2> QED
    BY <1>0, <2>1 DEF UpdateState, SetNum, SetBest, SetGraph, FillIndexQueue, Set, DbRead,
                      Branch, Update, Insert, Write, Release, Goto, Inside, request, TypeOK
<1>2. /\ path[Worker] # "dbRow" /\ job[Worker] \in Entries /\ job[Worker].num \in Nat \ {0}
      /\ Best = job[Worker]
  BY <1>1, OwnTypes DEF RefInv, CallInv, Inside, Best
<1>3. CASE Release(Worker)
  <2>1. /\ UNCHANGED <<num, best, graph, queue, db>> /\ UNCHANGED memory
        /\ pc'[Worker] \in {"refresh", "postOnSlack"}
        /\ pc[Worker] = "release"
    BY <1>0, <1>2, <1>3 DEF Release, memory, store, Goto, Return, TypeOK
  <2>2. Entry(Server) = job[Worker] /\ Entry(Server)' = Entry(Server)
    <3>1. /\ num[Server] = job[Worker].num /\ best[Server] = job[Worker].count
          /\ graph[Server] = job[Worker].graph
      BY <1>0, <2>1 DEF AllInv, IInv, ProgressInv, NumIsSet, BestIsSet, GraphIsSet
    <3> QED
      BY <1>0, <1>2, <2>1, <3>1, EntryIs DEF Entry
  <2>3. num[Server] # 0
    BY <1>2, <2>2 DEF Entry
  <2>4. UNCHANGED Best
    BY <1>0, <1>2, <2>1, <2>2 DEF Best, Inside
  <2>5. RefInv'
    BY <1>0, <2>1, <2>2, <2>3, <2>4 DEF RefInv, TableInv, TestsInv, CallInv, PrimaryKey, Inside
  <2>6. UNCHANGED Dealable
    BY <1>0, <2>1 DEF Dealable
  <2>7. AboutToDeal' <=> AboutToDeal
    BY <1>0, <1>1, <2>1, <2>6 DEF AboutToDeal, Inside
  <2> QED
    BY <2>4, <2>5, <2>6, <2>7 DEF CStep, Left
<1>4. CASE pc'[Worker] \in Inside
  <2>1. UNCHANGED Best
    BY <1>0, <1>1, <1>4 DEF Best
  <2>2. IndexesFor(job[Worker], Server)' = IndexesFor(job[Worker], Server)
    BY <1>0, <1>1 DEF IndexesFor, Share, Rank
  <2>3. UNCHANGED Dealable /\ IsFiniteSet(queue'[Server])
    <3>1. CASE FillIndexQueue(Worker)
      <4>1. Entry(Server) = job[Worker]
        <5>1. /\ num[Server] = job[Worker].num /\ best[Server] = job[Worker].count
              /\ graph[Server] = job[Worker].graph
          BY <1>0, <3>1
             DEF FillIndexQueue, Set, AllInv, IInv, ProgressInv, NumIsSet, BestIsSet, GraphIsSet
        <5> QED
          BY <1>0, <1>2, <5>1, EntryIs
      <4>2. /\ queue'[Server] = IndexesFor(job[Worker], Server)
            /\ pc[Worker] = "fillQueue" /\ pc'[Worker] \in {"release", "dbRead"}
        BY <1>0, <3>1, <4>1 DEF FillIndexQueue, Set, Goto, TypeOK
      <4> QED
        BY <1>0, <1>2, <4>2, IndexesAreFew DEF Dealable
    <3>2. CASE ~FillIndexQueue(Worker)
      <4>1. /\ UNCHANGED queue
            /\ pc[Worker] \in {"setNum", "setBest", "setGraph", "fillQueue"} <=>
                  pc'[Worker] \in {"setNum", "setBest", "setGraph", "fillQueue"}
        <5>1. CASE SetNum(Worker) \/ SetBest(Worker) \/ SetGraph(Worker)
          BY <1>0, <5>1 DEF SetNum, SetBest, SetGraph, Set, Goto, TypeOK
        <5>2. CASE DbRead(Worker) \/ Update(Worker) \/ (Insert(Worker) /\ Write(Worker))
          BY <1>0, <5>2 DEF DbRead, Branch, Update, Insert, Write, Goto, memory, TypeOK
        <5>3. ~Raise(Worker) /\ ~Release(Worker)
          <6>1. Raise(Worker) => pc'[Worker] = "idle"
            BY <1>0 DEF Raise, Forget
          <6>2. Release(Worker) => pc'[Worker] = Return[path[Worker]]
            BY <1>0 DEF Release, Goto, TypeOK
          <6>3. Return[path[Worker]] \notin Inside
            BY <1>0 DEF Return, Inside, TypeOK
          <6> QED
            BY <1>4, <6>1, <6>2, <6>3 DEF Inside
        <5> QED
          BY <3>2, <5>1, <5>2, <5>3 DEF UpdateState, Insert
      <4> QED
        BY <1>0, <2>2, <4>1 DEF Dealable, RefInv, TableInv
    <3> QED
      BY <3>1, <3>2
  <2>4. AboutToDeal' <=> AboutToDeal
    BY <1>0, <1>1, <1>4, <2>3 DEF AboutToDeal
  <2>5. CASE UNCHANGED db /\ pc'[Worker] # "release"
    BY <1>0, <1>1, <1>2, <1>4, <2>1, <2>3, <2>4, <2>5
       DEF RefInv, TableInv, TestsInv, CallInv, PrimaryKey, Inside, CStep, Left
  <2>6. CASE Put(job[Worker]) /\ pc'[Worker] = "release"
    <3>1. db' = {r \in db : r.num # job[Worker].num} \cup {job[Worker]}
      BY <2>6 DEF Put
    <3>2. PrimaryKey(db)' /\ job[Worker] \in db'
      BY <3>1 DEF RefInv, TableInv, PrimaryKey
    <3>3. \A r \in db' : r.num <= job[Worker].num
      BY <1>2, <3>1 DEF RefInv, TableInv
    <3> QED
      BY <1>0, <1>1, <1>2, <1>4, <2>1, <2>3, <2>4, <2>6, <3>2, <3>3
         DEF RefInv, TableInv, TestsInv, CallInv, Inside, CStep, Left
  <2>7. \/ UNCHANGED db /\ pc'[Worker] # "release"
        \/ Put(job[Worker]) /\ pc'[Worker] = "release"
    <3>1. ~(Insert(Worker) /\ Collides(Worker))
      BY <1>0 DEF AllInv, InsertsDoNotCollide, Insert
    <3> QED
      BY <1>0, <1>2, <1>4, <3>1
         DEF UpdateState, SetNum, SetBest, SetGraph, FillIndexQueue, Set, DbRead, Branch, Update,
             Insert, Write, Release, Goto, Inside, store, TypeOK, Return
  <2> QED
    BY <2>5, <2>6, <2>7
<1> QED
  BY <1>1, <1>3, <1>4

(* From there to the reply: the row read is the one in memory, and the     *)
(* index that was set aside is taken out of the queue.                     *)
LEMMA ReplyRefines ==
    ASSUME OneWorkerOnly, AllInv, AllInv', RefInv,
           \/ ReplyToClient(Worker) \/ PostOnSlack(Worker) \/ CreateExampleFile(Worker)
    PROVE  RefInv' /\ CStep
<1>0. /\ Worker' = Worker /\ Server' = Server /\ Worker \in Workers /\ Server \in Servers
      /\ Host[Worker] = Server /\ TypeOK /\ pc[Worker] \notin Inside
  BY OnlyWorker
     DEF Server, AllInv, IInv, ReplyToClient, ReadMaxNumFromDB, RowNewer, RowBetter, RowSame,
         Branch, GetAndSetNextIndex, Snapshot, Send, PostOnSlack, CreateExampleFile, Inside
<1>1. Entry(Server)' = Entry(Server)
  BY <1>0 DEF ReplyToClient, ReadMaxNumFromDB, RowNewer, RowBetter, RowSame, Raise,
              Branch, GetAndSetNextIndex, Snapshot, Send, PostOnSlack, CreateExampleFile,
              Entry, memory
<1>2. /\ num[Server] \in Nat /\ best[Server] \in Nat
      /\ Entry(Server).num = num[Server] /\ Entry(Server).count = best[Server]
  BY OwnTypes
<1>3. CASE ReadMaxNumFromDB(Worker)
  <2>1. num[Server] # 0
    BY <1>0, <1>3 DEF RefInv, CallInv, ReadMaxNumFromDB
  <2>2. db # {} /\ Entry(Server) \in db /\ \A r \in db : r.num <= num[Server]
    BY <1>0, <1>2, <2>1 DEF RefInv, TableInv, Best, Blank
  <2>3. Entry(Server) \in MaxRows
    BY <1>2, <2>2 DEF MaxRows
  <2>4. MaxRow = Entry(Server)
    <3>1. MaxRow \in MaxRows
      BY <2>3 DEF MaxRow
    <3>2. MaxRow \in db /\ MaxRow.num \in Nat /\ MaxRow.num <= num[Server]
          /\ num[Server] <= MaxRow.num
      BY <1>0, <1>2, <2>2, <3>1 DEF MaxRows, TypeOK, Entries
    <3> QED
      BY <1>2, <2>2, <3>2 DEF RefInv, TableInv, PrimaryKey
  <2>5. /\ pc'[Worker] = "rowNewer" /\ job'[Worker] = Entry(Server) /\ pc[Worker] = "refresh"
        /\ UNCHANGED <<memory, wants, db, num>>
    BY <1>0, <1>3, <2>3, <2>4 DEF ReadMaxNumFromDB, Goto, TypeOK, store, memory
  <2>6. TableInv'
    BY <1>0, <2>5, TableStays DEF RefInv, Inside
  <2>7. RefInv'
    BY <1>0, <1>1, <2>1, <2>5, <2>6 DEF RefInv, TestsInv, CallInv, Inside
  <2> QED
    BY <1>0, <2>5, <2>7, Quiet DEF CStep, Dealing, Inside
<1>4. CASE RowNewer(Worker) \/ RowBetter(Worker) \/ RowSame(Worker)
  <2>1. /\ job[Worker] = Entry(Server) /\ num[Server] # 0
        /\ UNCHANGED <<memory, wants, db, num, job>>
        /\ pc[Worker] \in {"rowNewer", "rowBetter"}
    BY <1>0, <1>4 DEF RowNewer, RowBetter, RowSame, Branch, memory, store, request, RefInv, CallInv
  <2>2. pc'[Worker] \in {"rowBetter", "takeIndex"}
    BY <1>0, <1>2, <1>4, <2>1 DEF RowNewer, RowBetter, RowSame, Branch, Goto, TypeOK
  <2>3. RefInv'
    BY <1>0, <1>1, <2>1, <2>2, TableStays DEF RefInv, TestsInv, CallInv, Inside
  <2> QED
    BY <1>0, <2>1, <2>2, <2>3, Quiet DEF CStep, Dealing, Inside
<1>5. CASE PostOnSlack(Worker) \/ CreateExampleFile(Worker)
  <2>1. /\ UNCHANGED <<memory, wants, db, num, job>> /\ num[Server] # 0
        /\ pc[Worker] \in {"postOnSlack", "createFile"}
        /\ pc'[Worker] \in {"createFile", "refresh"}
    BY <1>0, <1>5
       DEF PostOnSlack, CreateExampleFile, memory, store, request, RefInv, CallInv, Goto, TypeOK
  <2>2. RefInv'
    BY <1>0, <2>1, TableStays DEF RefInv, TestsInv, CallInv, Inside
  <2> QED
    BY <1>0, <2>1, <2>2, Quiet DEF CStep, Dealing, Inside
<1>6. CASE GetAndSetNextIndex(Worker)
  <2>1. /\ pc[Worker] = "takeIndex" /\ pc'[Worker] = "snapshot"
        /\ UNCHANGED <<num, best, graph, db, job, wants>>
        /\ \/ (~wants[Worker] \/ queue[Server] = {}) /\ queue'[Server] = queue[Server]
           \/ /\ wants[Worker]
              /\ \E i \in queue[Server] : queue'[Server] = queue[Server] \ {i}
    BY <1>0, <1>6 DEF GetAndSetNextIndex, Goto, store, request, TypeOK
  <2>2. /\ IsFiniteSet(queue[Server]) /\ IsFiniteSet(queue'[Server])
        /\ wants[Worker] /\ queue[Server] # {} =>
              Cardinality(queue'[Server]) = Cardinality(queue[Server]) - 1
        /\ ~(wants[Worker] /\ queue[Server] # {}) => queue'[Server] = queue[Server]
    BY <2>1, FS_RemoveElement DEF RefInv, TableInv
  <2>3. Best = Entry(Server) /\ Best' = Entry(Server)
    BY <1>0, <1>1, <2>1 DEF Best, Inside
  <2>4. Left' = Left
    <3>1. Dealable = queue[Server] /\ Dealable' = queue'[Server]
      BY <1>0, <2>1 DEF Dealable
    <3>2. AboutToDeal <=> wants[Worker] /\ queue[Server] # {}
      BY <2>1, <3>1 DEF AboutToDeal
    <3>3. ~AboutToDeal'
      BY <1>0, <2>1 DEF AboutToDeal, Inside
    <3>4. Cardinality(queue[Server]) \in Nat
      BY <2>2, SizeIsNat
    <3> QED
      BY <2>2, <3>1, <3>2, <3>3, <3>4 DEF Left
  <2>5. RefInv'
    <3>1. Blank' = Blank
      BY DEF Blank
    <3> QED
      BY <1>0, <1>1, <2>1, <2>2, <2>3, <3>1
         DEF RefInv, TableInv, TestsInv, CallInv, PrimaryKey, Inside
  <2> QED
    BY <2>3, <2>4, <2>5 DEF CStep
<1>7. CASE Snapshot(Worker) \/ Send(Worker)
  <2>1. /\ UNCHANGED <<memory, db>> /\ pc[Worker] \in {"snapshot", "send"}
        /\ pc'[Worker] \in {"send", "idle"}
    BY <1>0, <1>7 DEF Snapshot, Send, memory, store, Goto, Forget, TypeOK
  <2>2. RefInv'
    BY <1>0, <2>1, TableStays DEF RefInv, TestsInv, CallInv, Inside
  <2>3. ~AboutToDeal /\ ~AboutToDeal'
    BY <1>0, <2>1 DEF AboutToDeal, Inside
  <2>4. UNCHANGED Dealable
    BY <1>0, <2>1 DEF Dealable, memory
  <2>5. UNCHANGED Best
    BY <1>0, <1>1, <2>1 DEF Best, Inside
  <2> QED
    BY <2>2, <2>3, <2>4, <2>5 DEF CStep, Left
<1> QED
  BY <1>3, <1>4, <1>5, <1>6, <1>7 DEF ReplyToClient

-----------------------------------------------------------------------------
LEMMA RefStep ==
    ASSUME OneWorkerOnly
    PROVE  AllInv /\ AllInv' /\ RefInv /\ [Next]_vars => RefInv' /\ CStep
<1> SUFFICES ASSUME AllInv, AllInv', RefInv, [Next]_vars PROVE RefInv' /\ CStep
  OBVIOUS
<1>1. /\ \A w \in Workers : ~DbFails(w)
      /\ \A s \in Servers : ~Restart(s)
  BY DEF OneWorkerOnly, DbFails, Restart
<1>2. CASE \E w \in Workers : Receive(w) \/ Proceed(w)
  <2>1. Receive(Worker) \/ Proceed(Worker)
    BY <1>2, OnlyWorker
  <2> QED
    BY <2>1, DecideRefines, AcquireRefines, InsideRefines, ReplyRefines DEF Proceed
<1>3. CASE UNCHANGED vars
  <2>1. /\ UNCHANGED <<num, best, graph, queue, db, pc, path, job, wants>>
        /\ Worker' = Worker /\ Server' = Server /\ Blank' = Blank
    BY <1>3, OnlyWorker DEF vars, memory, store, request, Blank
  <2>2. Entry(Server)' = Entry(Server)
    BY <2>1 DEF Entry
  <2>3. IndexesFor(job[Worker], Server)' = IndexesFor(job[Worker], Server)
    BY <2>1 DEF IndexesFor, Share, Rank
  <2>4. UNCHANGED <<Best, Dealable>>
    BY <2>1, <2>2, <2>3 DEF Best, Dealable
  <2>5. AboutToDeal' <=> AboutToDeal
    BY <2>1, <2>4 DEF AboutToDeal
  <2>6. CStep
    BY <2>4, <2>5 DEF CStep, Left
  <2>7. TableInv'
    BY <2>1, <2>2, <2>4 DEF RefInv, TableInv, PrimaryKey
  <2>8. TestsInv' /\ CallInv'
    BY <2>1, <2>2 DEF RefInv, TestsInv, CallInv, Supersedes, Welcome
  <2> QED
    BY <2>6, <2>7, <2>8 DEF RefInv
<1> QED
  BY <1>1, <1>2, <1>3 DEF Next

(* A server starts as a coordinator does: blank, or with what the table    *)
(* holds.                                                                  *)
LEMMA InitRefines == ASSUME OneWorkerOnly PROVE Init => C!CoordinatorInit
<1> SUFFICES ASSUME Init PROVE C!CoordinatorInit
  OBVIOUS
<1>1. Worker \in Workers /\ Server \in Servers
  BY OnlyWorker
<1>2. pc[Worker] = "idle"
  BY <1>1 DEF Init
<1>3. Loaded \in {Blank} \cup Offers /\ Loaded \in Entries
  <2>1. db \subseteq Offers /\ MaxRows \subseteq db
    BY DEF Init, MaxRows
  <2>2. MaxRows # {} => MaxRow \in MaxRows
    BY DEF MaxRow
  <2> QED
    BY <2>1, <2>2, BlankIsEntry, OffersAreEntries DEF Loaded
<1>4. Best = Loaded
  <2>1. Entry(Server) = Loaded
    BY <1>1, <1>3, EntryIs DEF Init
  <2> QED
    BY <1>2, <2>1 DEF Best, Inside
<1>5. Left \in 0..MAX_LEFT
  <2>1. Dealable = IndexesFor(Loaded, Server) /\ ~AboutToDeal
    BY <1>1, <1>2 DEF Init, Dealable, AboutToDeal, Inside
  <2> QED
    BY <1>1, <1>3, <2>1, IndexesAreFew, LeftAssumption DEF Left
<1> QED
  BY <1>3, <1>4, <1>5 DEF C!CoordinatorInit, C!Blank, Blank

(* A server with one worker that is not interrupted does what the clients' *)
(* model of a coordinator says, for any graphs and offers: the chain of    *)
(* tests outside the lock, the test under it, the memory and the table     *)
(* that are changed one after the other, the row that is read back and the *)
(* index taken are together one step of it.                                *)
THEOREM Refinement == ASSUME OneWorkerOnly PROVE Spec => ImplementsCoordinator
<1>1. AllInv /\ AllInv' /\ RefInv /\ [Next]_vars => [C!CoordinatorNext]_<<Best, Left>>
  BY RefStep DEF CStep
<1> QED
  BY <1>1, InitRefInv, InitRefines, RefStep, AlwaysAllInv, PTL
     DEF Spec, ImplementsCoordinator, C!CoordinatorSpec
=============================================================================
