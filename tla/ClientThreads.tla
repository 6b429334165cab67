---------------------------- MODULE ClientThreads ----------------------------
(***************************************************************************)
(* The solver of distributed_sys_flip: the threads of one process, which   *)
(* search on graphs of their own, share the best numbers heard of, and     *)
(* talk to a coordinator that other clients talk to as well.               *)
(*                                                                         *)
(* A graph is a value with a number of nodes and of monochromatic cliques; *)
(* a search takes a thread to some graph that the search can reach.  The   *)
(* rwlock prefers readers, as pthread_rwlock_init without attributes does, *)
(* and its one writer section touches it in a single step, so who holds it *)
(* can be read off the threads' places.                                    *)
(***************************************************************************)
EXTENDS Coordinator, FiniteSets

CONSTANTS
    Threads,
    Poller,      \* the thread with id 0
    Nodes,       \* of each graph
    Cliques,     \* of each graph, of either colour
    START,       \* node count of the first graph: 150
    LIMIT,       \* node count at which threads stop: 1000
    MAX_FLIPS,   \* zeros in the row of an index
    POLL_EVERY,  \* flipThreshold
    INT_MAX,
    OTHERS,      \* whether other processes are at work
    BEHIND,      \* whether servers may fall behind what was reached
    NoReply      \* the exchange failed: coordinator number -1

ASSUME ClientAssumption ==
    /\ Poller \in Threads
    /\ Nodes \in [Graphs -> Nat] /\ Cliques \in [Graphs -> Nat]
    /\ START \in Nat \ {0} /\ LIMIT \in Nat /\ START < LIMIT
    /\ MAX_FLIPS \in Nat /\ POLL_EVERY \in Nat \ {0}
    /\ OTHERS \in BOOLEAN /\ BEHIND \in BOOLEAN
    /\ Offers = {[num |-> Nodes[g], count |-> Cliques[g], graph |-> g] : g \in Graphs}
    /\ INT_MAX \in Nat /\ \A g \in Graphs : Cliques[g] < INT_MAX
    /\ NoReply \notin [entry : Entries, index : {-1, 0}]

VARIABLES
    pc,
    nodeCount, cliqueCount, graph,  \* locals of findCounterExample
    phase,                          \* random_explore_phase, permute_embedded, or none
    coordinator_return,             \* the last reply that could be read, if any
    answer,                         \* the reply on the wire, or NoReply
    flips,                          \* of threadedGreedyIndexPermute, 0 outside it
    bestNodeCount, bestCliqueCount, \* shared by the threads
    hung,                           \* threads that read a socket for ever
    furthest                        \* history: largest number the coordinator had

locals == <<nodeCount, cliqueCount, graph, phase>>
shared == <<bestNodeCount, bestCliqueCount>>
coordinator == <<coord, left, furthest>>
wire == <<coordinator_return, answer, hung>>
vars == <<pc, locals, wire, flips, shared, coordinator>>

OfNodes(n) == {g \in Graphs : Nodes[g] = n}

(* What the first n * n cells of the array that holds g are as a matrix:   *)
(* g itself, or whatever another row length makes of it.                   *)
ReadAs(g, n) == IF g \in OfNodes(n) THEN {g} ELSE OfNodes(n)

Init ==
    /\ coord = Blank /\ left = 0 /\ furthest = 0 /\ hung = {}
    /\ graph \in [Threads -> OfNodes(START)]
    /\ nodeCount = [t \in Threads |-> START]
    /\ cliqueCount = [t \in Threads |-> Cliques[graph[t]]]
    /\ phase = [t \in Threads |-> "none"]
    /\ pc = [t \in Threads |-> "top"]
    /\ coordinator_return = [t \in Threads |-> NoReply]
    /\ answer = [t \in Threads |-> NoReply]
    /\ flips = [t \in Threads |-> 0]
    /\ bestNodeCount = 0 /\ bestCliqueCount = INT_MAX

Goto(t, here, there) == pc[t] = here /\ pc' = [pc EXCEPT ![t] = there]

(* A reader waits only for a writer, and no writer stays inside.  Slip: a  *)
(* lock that lets waiting writers go first.                                *)
ReadGrantedAfterWriters(t) == \A u \in Threads \ {t} : pc[u] # "wrlock"
ReadGranted(t) == TRUE

Reading == {"publishCount", "checkCount", "counting", "zero", "zeroAnswer",
            "zeroLock", "zeroCount"}
WriteGranted(t) == \A u \in Threads : pc[u] \notin Reading

-----------------------------------------------------------------------------
(* Behind the load balancer are several servers.  One that missed the news *)
(* may be the next to answer, and a forced update that was decided when    *)
(* its number was the current one sets a server back.                      *)
Furthest(num) == IF num > furthest THEN num ELSE furthest
FallsBack(e) ==
    /\ OTHERS /\ BEHIND /\ e.num <= furthest
    /\ coord' = e /\ left' \in 0..MAX_LEFT

(* sendCounterExampleToCoordinator: connecting may fail, and the reply may *)
(* be lost after the coordinator has handled the request.  A forced update *)
(* of another client may take effect between the two, and is the reply.    *)
Claim(t, count, g) == [num |-> nodeCount[t], count |-> count, graph |-> g]

Exchange(t, here, there, count, wants) ==
    /\ t \notin hung
    /\ Goto(t, here, there)
    /\ \E g \in ReadAs(graph[t], nodeCount[t]), i \in {-1, 0} :
          LET offer == Claim(t, count, g)
              reply == [entry |-> After(offer), index |-> i]
          IN \/ /\ Handle(offer, wants, reply) /\ furthest' = Furthest(After(offer).num)
                /\ \E got \in {reply, NoReply} : answer' = [answer EXCEPT ![t] = got]
             \/ /\ furthest' = Furthest(offer.num)
                /\ \E e \in Offers :
                      /\ e.count # 0 /\ FallsBack(e)
                      /\ answer' = [answer EXCEPT ![t] =
                            [entry |-> e, index |-> IF wants THEN i ELSE -1]]
             \/ answer' = [answer EXCEPT ![t] = NoReply] /\ UNCHANGED coordinator
    /\ UNCHANGED <<locals, coordinator_return, flips, shared, hung>>

Sending == {"send", "poll", "tell", "zero"}
Claimed(t) == IF pc[t] = "tell" THEN Cliques[graph[t]] ELSE cliqueCount[t]

(* The reply is read until the server closes the connection, and read has  *)
(* no timeout: a thread may stay there, with whatever lock it holds, and   *)
(* whether the request was handled or not.                                 *)
Hang(t) ==
    /\ pc[t] \in Sending /\ t \notin hung
    /\ hung' = hung \cup {t}
    /\ \/ \E g \in ReadAs(graph[t], nodeCount[t]), i \in {-1, 0} :
             LET offer == Claim(t, Claimed(t), g) IN
             /\ Handle(offer, pc[t] = "send", [entry |-> After(offer), index |-> i])
             /\ furthest' = Furthest(After(offer).num)
       \/ UNCHANGED coordinator
    /\ UNCHANGED <<pc, locals, coordinator_return, answer, flips, shared>>

(* readCoordinatorMessage leaves coordinator_return as it was when nothing *)
(* could be read.  Last is what the caller finds there.                    *)
Last(t) == IF answer[t] = NoReply THEN coordinator_return[t] ELSE answer[t]
Read(t) ==
    /\ coordinator_return' = [coordinator_return EXCEPT ![t] = Last(t)]
    /\ answer' = [answer EXCEPT ![t] = NoReply]
    /\ UNCHANGED hung

(* Other processes improve on the best graph and take indexes; what they   *)
(* claim is true.                                                          *)
OtherClient ==
    /\ OTHERS
    /\ CoordinatorNext
    /\ furthest' = Furthest(coord'.num)
    /\ UNCHANGED <<pc, locals, wire, flips, shared>>

ServerBehind ==
    /\ \E e \in Offers : FallsBack(e)
    /\ UNCHANGED <<pc, locals, wire, flips, shared, furthest>>

-----------------------------------------------------------------------------
(* findCounterExample, from the head of its loop to the exchange.  Explore *)
(* keeps no flip that makes the graph worse; Embed adds two nodes, one     *)
(* after the other, with whatever edges it likes best.  Slips: the new     *)
(* graph is not counted.                                                   *)
Finish(t) ==
    /\ nodeCount[t] >= LIMIT
    /\ Goto(t, "top", "done")
    /\ UNCHANGED <<locals, wire, flips, shared, coordinator>>

Offer(t) ==
    /\ nodeCount[t] < LIMIT /\ phase[t] = "none"
    /\ Goto(t, "top", "send")
    /\ UNCHANGED <<locals, wire, flips, shared, coordinator>>

Prepared(t, h) ==
    /\ nodeCount[t] < LIMIT
    /\ Goto(t, "top", "send")
    /\ graph' = [graph EXCEPT ![t] = h]
    /\ phase' = [phase EXCEPT ![t] = "none"]
    /\ UNCHANGED <<wire, flips, shared, coordinator>>

ExploreUncounted(t) ==
    /\ phase[t] = "explore"
    /\ \E g \in ReadAs(coordinator_return[t].entry.graph, nodeCount[t]) :
       \E h \in OfNodes(nodeCount[t]) :
          /\ Cliques[h] <= Cliques[g]
          /\ Prepared(t, h)
          /\ UNCHANGED <<nodeCount, cliqueCount>>
Explore(t) ==
    /\ phase[t] = "explore"
    /\ \E g \in ReadAs(coordinator_return[t].entry.graph, nodeCount[t]) :
       \E h \in OfNodes(nodeCount[t]) :
          /\ Cliques[h] <= Cliques[g]
          /\ Prepared(t, h)
          /\ cliqueCount' = [cliqueCount EXCEPT ![t] = Cliques[h]]
          /\ UNCHANGED nodeCount

EmbedUncounted(t) ==
    /\ phase[t] = "embed"
    /\ \E h \in OfNodes(nodeCount[t] + 1) : Prepared(t, h)
    /\ nodeCount' = [nodeCount EXCEPT ![t] = @ + 1]
    /\ UNCHANGED cliqueCount
Embed(t) ==
    /\ phase[t] = "embed"
    /\ \E g \in ReadAs(coordinator_return[t].entry.graph, nodeCount[t] - 1) :
       \E h \in OfNodes(nodeCount[t] + 1) :
          /\ Cliques[h] >= Cliques[g]
          /\ Prepared(t, h)
          /\ cliqueCount' = [cliqueCount EXCEPT ![t] = Cliques[h]]
          /\ nodeCount' = [nodeCount EXCEPT ![t] = @ + 1]

Send(t) == Exchange(t, "send", "judge", cliqueCount[t], TRUE)

(* A reply for a smaller number, or none, is ignored.  Slips: any reply    *)
(* will do, or the thread goes on without one.                             *)
AnyReply(t) == answer[t] # NoReply
Usable(t) == answer[t] # NoReply /\ answer[t].entry.num >= nodeCount[t]

IgnoreAndGoOn(t) ==
    /\ ~Usable(t)
    /\ Goto(t, "judge", "publish")
    /\ Read(t)
    /\ UNCHANGED <<locals, flips, shared, coordinator>>
Ignore(t) ==
    /\ ~Usable(t)
    /\ Goto(t, "judge", "top")
    /\ Read(t)
    /\ UNCHANGED <<locals, flips, shared, coordinator>>

Adopt(t) ==
    /\ Usable(t)
    /\ Goto(t, "judge", "publish")
    /\ nodeCount' = [nodeCount EXCEPT ![t] = answer[t].entry.num]
    /\ cliqueCount' = [cliqueCount EXCEPT ![t] = answer[t].entry.count]
    /\ Read(t)
    /\ UNCHANGED <<graph, phase, flips, shared, coordinator>>

(* The shared numbers are written one by one, and under the read lock.     *)
(* Slip: the number about to be embedded is published.                     *)
PublishNextNumber(t) ==
    /\ ReadGranted(t)
    /\ Goto(t, "publish", "publishCount")
    /\ bestNodeCount' = IF cliqueCount[t] = 0 THEN nodeCount[t] + 1 ELSE nodeCount[t]
    /\ UNCHANGED <<locals, wire, flips, bestCliqueCount, coordinator>>
PublishNumber(t) ==
    /\ ReadGranted(t)
    /\ Goto(t, "publish", "publishCount")
    /\ bestNodeCount' = nodeCount[t]
    /\ UNCHANGED <<locals, wire, flips, bestCliqueCount, coordinator>>

PublishCount(t, there) ==
    /\ Goto(t, "publishCount", there)
    /\ bestCliqueCount' = cliqueCount[t]
    /\ UNCHANGED <<wire, flips, bestNodeCount, coordinator>>

StartEmbedding(t) ==
    /\ PublishCount(t, "top")
    /\ cliqueCount[t] = 0
    /\ nodeCount' = [nodeCount EXCEPT ![t] = @ + 1]
    /\ phase' = [phase EXCEPT ![t] = "embed"]
    /\ UNCHANGED <<cliqueCount, graph>>

StartExploring(t) ==
    /\ PublishCount(t, "top")
    /\ cliqueCount[t] # 0 /\ coordinator_return[t].index = -1
    /\ cliqueCount' = [cliqueCount EXCEPT ![t] = INT_MAX]
    /\ phase' = [phase EXCEPT ![t] = "explore"]
    /\ UNCHANGED <<nodeCount, graph>>

(* Slip: the search starts from the thread's own graph.                    *)
StartSearchingInPlace(t) ==
    /\ PublishCount(t, IF Cardinality(Threads) = 1 THEN "replace" ELSE "greedy")
    /\ cliqueCount[t] # 0 /\ coordinator_return[t].index # -1
    /\ UNCHANGED locals
StartSearching(t) ==
    /\ PublishCount(t, IF Cardinality(Threads) = 1 THEN "replace" ELSE "greedy")
    /\ cliqueCount[t] # 0 /\ coordinator_return[t].index # -1
    /\ \E g \in ReadAs(coordinator_return[t].entry.graph, nodeCount[t]) :
          graph' = [graph EXCEPT ![t] = g]
    /\ UNCHANGED <<nodeCount, cliqueCount, phase>>

Converse(t) == \/ Finish(t) \/ Offer(t) \/ Explore(t) \/ Embed(t) \/ Send(t)
               \/ Ignore(t) \/ Adopt(t) \/ PublishNumber(t)
               \/ StartEmbedding(t) \/ StartExploring(t) \/ StartSearching(t)

-----------------------------------------------------------------------------
(* threadedGreedyIndexPermute: the edge given may not fit the graph, and   *)
(* the loop over the zeros of its row ends after any number of them.       *)
quiet == <<locals, wire, coordinator>>

Refuse(t) ==
    /\ Goto(t, "greedy", "recount")
    /\ UNCHANGED <<quiet, flips, shared>>

Begin(t) ==
    /\ ReadGranted(t)
    /\ Goto(t, "greedy", "check")
    /\ UNCHANGED <<quiet, flips, shared>>

RowEnds(t) ==
    /\ Goto(t, "check", "recount")
    /\ UNCHANGED <<quiet, flips, shared>>

CheckNumber(t) ==
    /\ flips[t] < MAX_FLIPS /\ ReadGranted(t)
    /\ Goto(t, "check", IF bestNodeCount > nodeCount[t] THEN "recount" ELSE "checkCount")
    /\ UNCHANGED <<quiet, flips, shared>>

PollIsDue(t) == t = Poller /\ flips[t] # 0 /\ flips[t] % POLL_EVERY = 0

CheckCount(t) ==
    /\ Goto(t, "checkCount", IF bestCliqueCount < cliqueCount[t] THEN "recount"
                             ELSE IF PollIsDue(t) THEN "poll" ELSE "flip")
    /\ UNCHANGED <<quiet, flips, shared>>

Poll(t) == Exchange(t, "poll", "pollAnswer", cliqueCount[t], FALSE)

PollAnswer(t) ==
    LET last == Last(t).entry IN
    /\ Goto(t, "pollAnswer", IF last.count < cliqueCount[t] THEN "tellCount"
                             ELSE IF last.num > nodeCount[t] THEN "tellNumber" ELSE "flip")
    /\ Read(t)
    /\ UNCHANGED <<locals, flips, shared, coordinator>>

TellCount(t) ==
    /\ ReadGranted(t)
    /\ Goto(t, "tellCount", "recount")
    /\ bestCliqueCount' = coordinator_return[t].entry.count
    /\ UNCHANGED <<quiet, flips, bestNodeCount>>

TellNumber(t) ==
    /\ ReadGranted(t)
    /\ Goto(t, "tellNumber", "recount")
    /\ bestNodeCount' = coordinator_return[t].entry.num
    /\ UNCHANGED <<quiet, flips, bestCliqueCount>>

Better(t) == {h \in OfNodes(nodeCount[t]) : Cliques[h] < cliqueCount[t]}

FlipBack(t) ==
    /\ Goto(t, "flip", "check")
    /\ flips' = [flips EXCEPT ![t] = @ + 1]
    /\ UNCHANGED <<quiet, shared>>

FlipStays(t) ==
    /\ Better(t) # {}
    /\ Goto(t, "flip", "wrlock")
    /\ UNCHANGED <<quiet, flips, shared>>

WriteBack(t) ==
    /\ WriteGranted(t)
    /\ Goto(t, "wrlock", "recount")
    /\ \E h \in Better(t) :
          /\ graph' = [graph EXCEPT ![t] = h]
          /\ bestCliqueCount' = IF bestCliqueCount < Cliques[h] THEN Cliques[h]
                                ELSE bestCliqueCount
    /\ UNCHANGED <<nodeCount, cliqueCount, phase, wire, flips, bestNodeCount, coordinator>>

Greedy(t) == \/ Refuse(t) \/ Begin(t) \/ RowEnds(t) \/ CheckNumber(t) \/ CheckCount(t)
             \/ Poll(t) \/ PollAnswer(t) \/ TellCount(t) \/ TellNumber(t)
             \/ FlipBack(t) \/ FlipStays(t) \/ WriteBack(t)

-----------------------------------------------------------------------------
(* replaceMe, the search of a process with one thread: flips that help are *)
(* kept and told, flips that do not are told now and then.                 *)
ReplaceFlip(t) ==
    /\ Cliques[graph[t]] > 0
    /\ Goto(t, "replace", "tell")
    /\ \E h \in OfNodes(nodeCount[t]) :
          /\ h = graph[t] \/ Cliques[h] < Cliques[graph[t]]
          /\ graph' = [graph EXCEPT ![t] = h]
    /\ UNCHANGED <<nodeCount, cliqueCount, phase, wire, flips, shared, coordinator>>

ReplaceDone(t) ==
    /\ Cliques[graph[t]] = 0
    /\ Goto(t, "replace", "recount")
    /\ UNCHANGED <<quiet, flips, shared>>

SendGraph(t) == Exchange(t, "tell", "tellAnswer", Cliques[graph[t]], FALSE)

Bail(t) ==
    LET last == Last(t).entry IN
    /\ Goto(t, "tellAnswer",
            IF last.num > nodeCount[t] \/ last.count < Cliques[graph[t]]
            THEN "recount" ELSE "replace")
    /\ Read(t)
    /\ UNCHANGED <<locals, flips, shared, coordinator>>

ReplaceMe(t) == ReplaceFlip(t) \/ ReplaceDone(t) \/ SendGraph(t) \/ Bail(t)

-----------------------------------------------------------------------------
(* The end of the loop: the graph is counted, and a counter example sent,  *)
(* all under the read lock, which sendCliqueZero takes once more.          *)
Recount(t) ==
    /\ ReadGranted(t)
    /\ Goto(t, "recount", "counting")
    /\ cliqueCount' = [cliqueCount EXCEPT ![t] = Cliques[graph[t]]]
    /\ flips' = [flips EXCEPT ![t] = 0]
    /\ UNCHANGED <<nodeCount, graph, phase, wire, shared, coordinator>>

Counted(t) ==
    /\ Goto(t, "counting", IF cliqueCount[t] = 0 THEN "zero" ELSE "top")
    /\ UNCHANGED <<quiet, flips, shared>>

SendCliqueZero(t) == Exchange(t, "zero", "zeroAnswer", 0, FALSE)

ZeroAnswer(t) ==
    /\ Goto(t, "zeroAnswer", "zeroLock")
    /\ nodeCount' = [nodeCount EXCEPT
          ![t] = IF answer[t] # NoReply /\ answer[t].entry.num > @
                 THEN answer[t].entry.num ELSE @]
    /\ Read(t)
    /\ UNCHANGED <<cliqueCount, graph, phase, flips, shared, coordinator>>

ZeroNumber(t) ==
    /\ ReadGranted(t)
    /\ Goto(t, "zeroLock", "zeroCount")
    /\ bestNodeCount' = nodeCount[t]
    /\ UNCHANGED <<quiet, flips, bestCliqueCount>>

(* Slip: a counter example that is not confirmed is given up.              *)
ZeroCountOrExplore(t) ==
    LET count == coordinator_return[t].entry.count IN
    /\ Goto(t, "zeroCount", "top")
    /\ bestCliqueCount' = count
    /\ phase' = [phase EXCEPT ![t] = IF count = 0 THEN "embed" ELSE "explore"]
    /\ UNCHANGED <<nodeCount, cliqueCount, graph, wire, flips, bestNodeCount, coordinator>>
ZeroCount(t) ==
    LET count == coordinator_return[t].entry.count IN
    /\ Goto(t, "zeroCount", "top")
    /\ bestCliqueCount' = count
    /\ phase' = [phase EXCEPT ![t] = IF count = 0 THEN "embed" ELSE @]
    /\ UNCHANGED <<nodeCount, cliqueCount, graph, wire, flips, bestNodeCount, coordinator>>

Conclude(t) == \/ Recount(t) \/ Counted(t) \/ SendCliqueZero(t) \/ ZeroAnswer(t)
               \/ ZeroNumber(t) \/ ZeroCount(t)

Step(t) == Converse(t) \/ Greedy(t) \/ ReplaceMe(t) \/ Conclude(t) \/ Hang(t)

Next == OtherClient \/ ServerBehind \/ \E t \in Threads : Step(t)

Spec == Init /\ [][Next]_vars

(* Threads that can run do run; an exchange ends, or hangs.                *)
FairSpec == Spec /\ \A t \in Threads : WF_vars(Step(t))

(* Of the exchanges a thread can end again and again, one succeeds.        *)
Delivered(t) == Step(t) /\ answer'[t] # NoReply
DeliverySpec == FairSpec /\ \A t \in Threads : SF_vars(Delivered(t))

-----------------------------------------------------------------------------
(* What a thread sends is true: a graph of that many nodes with that many  *)
(* cliques, also when its last message or the reply to it was lost.        *)
ClaimsAreTrue ==
    \A t \in Threads :
       pc[t] \in Sending => /\ Nodes[graph[t]] = nodeCount[t]
                            /\ Cliques[graph[t]] = Claimed(t)

(* Whatever others do, a claim counts the graph it comes from, and only a  *)
(* claim of a counter example can be for another number of nodes.          *)
ClaimsCountTheirGraph ==
    \A t \in Threads :
       pc[t] \in Sending => /\ Cliques[graph[t]] = Claimed(t)
                            /\ Nodes[graph[t]] # nodeCount[t] => Claimed(t) = 0

(* "Found Counter Example": what the coordinator calls a counter example   *)
(* is one.                                                                 *)
CounterExamplesAreReal == coord.count = 0 => Cliques[coord.graph] = 0

(* A thread never goes back to fewer nodes than it has worked on, whatever *)
(* reply it gets, or none: also when the server that accepted its graph    *)
(* was set back before it replied.                                         *)
NumberNeverFallsBack == [][\A t \in Threads : nodeCount'[t] >= nodeCount[t]]_vars

(* coordinator_return is allocated and not initialised: nothing of it is   *)
(* used before a reply was read into it.                                   *)
ReplyIsThereWhenUsed ==
    \A t \in Threads :
       \/ phase[t] # "none"
       \/ pc[t] \in {"publish", "publishCount", "greedy", "replace", "check", "zero"}
       => coordinator_return[t] # NoReply

(* The shared number is one the coordinator has reached, so that a thread  *)
(* is never sent away for a number nobody has worked on.                   *)
SharedNumberIsReached == bestNodeCount <= furthest

(* A counter example that was found gets to the coordinator, unless that   *)
(* is further already, however many messages are lost, or the thread hangs *)
(* in an exchange.  (At the last node count the loop ends, and a counter   *)
(* example whose message is lost then stays unsent.)                       *)
CounterExamplesArrive ==
    \A t \in Threads, n \in START..LIMIT - 1 :
       pc[t] = "zero" /\ nodeCount[t] = n
          ~> \/ coord.num > n \/ (coord.num = n /\ coord.count = 0)
             \/ t \in hung

(* A thread comes back to the head of its loop again and again, unless it  *)
(* hangs in an exchange of its own or waits for the write lock for ever.   *)
(* The second read lock that sendCliqueZero takes inside the first is      *)
(* never waited for, and a thread that hangs there, with the read lock,    *)
(* holds up none but those that write a flip back.  (A process with one    *)
(* thread has no such promise: replaceMe stays in a local minimum until    *)
(* the coordinator knows better.)                                          *)
ThreadsComeBack ==
    \A t \in Threads :
       []<>(pc[t] \in {"top", "done"} \/ t \in hung) \/ <>[](pc[t] = "wrlock")
==============================================================================
