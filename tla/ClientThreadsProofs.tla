------------------------- MODULE ClientThreadsProofs -------------------------
(***************************************************************************)
(* What holds of the later solver for any threads, graphs and bounds,      *)
(* whatever messages are lost and whatever other processes do; and what    *)
(* holds of a process with one thread that is alone with its coordinator.  *)
(***************************************************************************)
EXTENDS ClientThreads, TLAPS

Replies == [entry : Entries, index : {-1, 0}]

(* The places with a graph that the search started from the coordinator's, *)
(* those at which it has not changed, and those after it was counted.      *)
Greedily == {"greedy", "check", "checkCount", "poll", "pollAnswer", "tellCount",
             "tellNumber", "flip", "wrlock"}
Searching == Greedily \cup {"replace", "tell", "tellAnswer", "recount", "counting", "zero"}
Zero == {"zero", "zeroAnswer", "zeroLock", "zeroCount"}
Engaged == Searching \cup Zero \cup {"publish", "publishCount"}
Places == Engaged \cup {"top", "send", "judge", "done"}

TypeOK ==
    /\ pc \in [Threads -> Places]
    /\ nodeCount \in [Threads -> Nat \ {0}] /\ cliqueCount \in [Threads -> Nat]
    /\ graph \in [Threads -> Graphs]
    /\ phase \in [Threads -> {"none", "explore", "embed"}]
    /\ coordinator_return \in [Threads -> Replies \cup {NoReply}]
    /\ answer \in [Threads -> Replies \cup {NoReply}]
    /\ flips \in [Threads -> Nat]
    /\ bestNodeCount \in Nat /\ bestCliqueCount \in Nat
    /\ coord \in Entries \cup {Blank}
    /\ hung \in SUBSET Threads /\ furthest \in Nat

(* An entry that counts its graph's nodes, and its cliques unless it says  *)
(* that there are none.                                                    *)
Sound(e) == Nodes[e.graph] = e.num /\ (e.count # 0 => Cliques[e.graph] = e.count)
CoordInv == (coord # Blank => Sound(coord)) /\ coord.num <= furthest

(* A reply is such an entry, and of a number that the coordinator reached. *)
Good(reply) == reply # NoReply => Sound(reply.entry) /\ reply.entry.num <= furthest

(* The graph of thread t has the cliques that t has counted, and the nodes *)
(* too, unless it is a counter example.                                    *)
Counts(t) == /\ Cliques[graph[t]] = cliqueCount[t]
             /\ Nodes[graph[t]] # nodeCount[t] => cliqueCount[t] = 0

(* What thread t may rely on at each of its places.                        *)
ThreadInv(t) ==
    /\ Good(answer[t]) /\ Good(coordinator_return[t])
    /\ pc[t] \in Engaged => coordinator_return[t] # NoReply /\ nodeCount[t] <= furthest
    /\ phase[t] # "none" => coordinator_return[t] # NoReply /\ pc[t] \in {"top", "done"}
    /\ pc[t] \in {"publish", "publishCount"} =>
          /\ coordinator_return[t].entry.num = nodeCount[t]
          /\ coordinator_return[t].entry.count = cliqueCount[t]
    /\ pc[t] \in Searching => Nodes[graph[t]] = nodeCount[t]
    /\ pc[t] \in Greedily \cup Zero \cup {"counting"} => Cliques[graph[t]] = cliqueCount[t]
    /\ pc[t] \in Zero => cliqueCount[t] = 0
    /\ pc[t] \in {"send", "judge"} => Counts(t)
    /\ pc[t] = "top" /\ phase[t] = "none" => Counts(t)

Inv == /\ TypeOK /\ CoordInv /\ SharedNumberIsReached
       /\ \A t \in Threads : ThreadInv(t)

-----------------------------------------------------------------------------
(* A reading of a graph as one of n nodes has n nodes, and is the graph    *)
(* itself if that has.                                                     *)
LEMMA ReadingOf ==
    ASSUME NEW g \in Graphs, NEW n, NEW h \in ReadAs(g, n)
    PROVE  h \in Graphs /\ Nodes[h] = n /\ (Nodes[g] = n => h = g)
BY DEF ReadAs, OfNodes

(* Blank is no entry that a client could have sent.                        *)
LEMMA BlankIsNone == Blank \notin Entries /\ Blank.num = 0 /\ Blank.count # 0
BY CoordinatorAssumption DEF Blank, Entries

(* One request: the best entry stays sound, is at least as far as the      *)
(* offer, and is remembered.                                               *)
LEMMA RequestStep ==
    ASSUME coord \in Entries \cup {Blank}, furthest \in Nat, CoordInv,
           NEW offer \in Entries, Sound(offer), coord' = After(offer),
           furthest' = Furthest(After(offer).num)
    PROVE  /\ coord' \in Entries \cup {Blank} /\ CoordInv'
           /\ furthest' \in Nat /\ furthest <= furthest'
           /\ offer.num # 0 => coord' \in Entries /\ Sound(After(offer))
<1>1. coord.num \in Nat /\ offer.num \in Nat /\ Blank' = Blank
  BY BlankIsNone DEF Entries, Blank
<1>2. offer # Blank
  BY BlankIsNone
<1>3. furthest' \in Nat /\ furthest <= furthest' /\ coord'.num <= furthest'
  BY <1>1 DEF Furthest, After
<1> QED
  BY <1>1, <1>2, <1>3, BlankIsNone DEF After, Accepts, CoordInv, Sound

(* A server that falls back is still sound.                                *)
LEMMA FallStep ==
    ASSUME furthest \in Nat, NEW e \in Offers, FallsBack(e),
           furthest' \in Nat, furthest <= furthest'
    PROVE  /\ e \in Entries /\ Sound(e) /\ e.num <= furthest'
           /\ coord' = e /\ CoordInv'
<1>1. e \in Entries /\ Sound(e) /\ e.num \in Nat
  BY ClientAssumption, CoordinatorAssumption DEF Sound, Entries
<1>2. coord' = e /\ e.num <= furthest'
  BY <1>1 DEF FallsBack
<1> QED
  BY <1>1, <1>2 DEF CoordInv, Sound

(* A step of another thread leaves a thread what it relied on.             *)
LEMMA Others ==
    ASSUME TypeOK, NEW u \in Threads, ThreadInv(u),
           furthest' \in Nat, furthest <= furthest',
           pc'[u] = pc[u], nodeCount'[u] = nodeCount[u], cliqueCount'[u] = cliqueCount[u],
           graph'[u] = graph[u], phase'[u] = phase[u], answer'[u] = answer[u],
           coordinator_return'[u] = coordinator_return[u]
    PROVE  ThreadInv(u)'
<1>1. furthest \in Nat /\ furthest' \in Nat /\ nodeCount[u] \in Nat
  BY DEF TypeOK
<1>2. /\ answer[u] # NoReply => answer[u].entry.num \in Nat
      /\ coordinator_return[u] # NoReply => coordinator_return[u].entry.num \in Nat
  BY DEF TypeOK, Replies, Entries
<1>3. Good(answer[u])' /\ Good(coordinator_return[u])'
  BY <1>1, <1>2 DEF ThreadInv, Good, Sound
<1>4. pc[u] \in Engaged => nodeCount[u] <= furthest'
  BY <1>1 DEF ThreadInv
<1> QED
  BY <1>3, <1>4 DEF ThreadInv, Counts

(* What one step of thread t leaves behind.                                *)
Own(t) ==
    /\ TypeOK' /\ CoordInv' /\ SharedNumberIsReached' /\ ThreadInv(t)'
    /\ furthest <= furthest'
    /\ \A u \in Threads \ {t} :
          /\ pc'[u] = pc[u] /\ nodeCount'[u] = nodeCount[u]
          /\ cliqueCount'[u] = cliqueCount[u] /\ graph'[u] = graph[u]
          /\ phase'[u] = phase[u] /\ answer'[u] = answer[u]
          /\ coordinator_return'[u] = coordinator_return[u]

LEMMA OwnKeepsInv ==
    ASSUME Inv, NEW t \in Threads, Own(t)
    PROVE  Inv'
<1>1. \A u \in Threads \ {t} : ThreadInv(u)'
  BY Others DEF Inv, Own, TypeOK
<1> QED
  BY <1>1 DEF Inv, Own

(* All types are kept by a step that moves a thread and not its reply.     *)
LEMMA Numbers ==
    ASSUME Inv
    PROVE  /\ coord.num \in Nat /\ furthest \in Nat
           /\ \A t \in Threads : nodeCount[t] \in Nat \ {0} /\ cliqueCount[t] \in Nat
           /\ \A t \in Threads : answer[t] # NoReply =>
                 answer[t].entry.num \in Nat /\ answer[t].entry.count \in Nat
           /\ \A t \in Threads : coordinator_return[t] # NoReply =>
                 /\ coordinator_return[t].entry.num \in Nat
                 /\ coordinator_return[t].entry.count \in Nat
                 /\ coordinator_return[t].entry.graph \in Graphs
BY BlankIsNone DEF Inv, TypeOK, Replies, Entries

(* What is sent for a graph that was counted is sound.                     *)
LEMMA ClaimIsSound ==
    ASSUME Inv, NEW t \in Threads, NEW count \in Nat,
           Cliques[graph[t]] = count, Nodes[graph[t]] # nodeCount[t] => count = 0,
           NEW g \in ReadAs(graph[t], nodeCount[t])
    PROVE  /\ Claim(t, count, g) \in Entries /\ Sound(Claim(t, count, g))
           /\ Claim(t, count, g).num = nodeCount[t]
<1>1. g \in Graphs /\ Nodes[g] = nodeCount[t] /\ (count # 0 => g = graph[t])
  BY ReadingOf DEF Inv, TypeOK
<1> QED
  BY <1>1, Numbers DEF Claim, Entries, Sound

(* An exchange with the coordinator, of a claim that counts its graph.     *)
LEMMA ExchangeStep ==
    ASSUME Inv, NEW t \in Threads, NEW count \in Nat, NEW wants,
           NEW here, NEW there,
           \/ here = "send" /\ there = "judge"
           \/ here = "poll" /\ there = "pollAnswer"
           \/ here = "tell" /\ there = "tellAnswer"
           \/ here = "zero" /\ there = "zeroAnswer",
           Cliques[graph[t]] = count, Nodes[graph[t]] # nodeCount[t] => count = 0,
           Exchange(t, here, there, count, wants)
    PROVE  Own(t)
<1> USE DEF Inv
<1>1. /\ pc[t] = here /\ pc' = [pc EXCEPT ![t] = there]
      /\ UNCHANGED <<nodeCount, cliqueCount, graph, phase, coordinator_return, flips,
                     bestNodeCount, bestCliqueCount, hung>>
  BY DEF Exchange, Goto, locals, shared
<1>2. PICK g \in ReadAs(graph[t], nodeCount[t]), i \in {-1, 0} :
          LET offer == Claim(t, count, g)
              reply == [entry |-> After(offer), index |-> i]
          IN \/ /\ Handle(offer, wants, reply) /\ furthest' = Furthest(After(offer).num)
                /\ \E got \in {reply, NoReply} : answer' = [answer EXCEPT ![t] = got]
             \/ /\ furthest' = Furthest(offer.num)
                /\ \E e \in Offers :
                      /\ e.count # 0 /\ FallsBack(e)
                      /\ answer' = [answer EXCEPT ![t] =
                            [entry |-> e, index |-> IF wants THEN i ELSE -1]]
             \/ answer' = [answer EXCEPT ![t] = NoReply] /\ UNCHANGED coordinator
  BY DEF Exchange
<1> DEFINE offer == Claim(t, count, g)
           reply == [entry |-> After(offer), index |-> i]
<1>3. /\ offer \in Entries /\ Sound(offer) /\ offer.num = nodeCount[t]
      /\ offer.num \in Nat /\ offer.num # 0
  BY ClaimIsSound, Numbers
<1> HIDE DEF offer
<1>5. PICK got \in Replies \cup {NoReply} :
        /\ answer' = [answer EXCEPT ![t] = got]
        /\ coord' \in Entries \cup {Blank} /\ CoordInv'
        /\ furthest' \in Nat /\ furthest <= furthest'
        /\ got # NoReply => Sound(got.entry) /\ got.entry.num <= furthest'
  <2>1. CASE UNCHANGED coordinator /\ answer' = [answer EXCEPT ![t] = NoReply]
    <3>1. UNCHANGED <<coord, furthest>> /\ Blank' = Blank
      BY <2>1 DEF coordinator, Blank
    <3>2. CoordInv' /\ furthest' \in Nat /\ furthest <= furthest'
      BY <3>1, Numbers DEF CoordInv, Sound
    <3> QED
      BY <2>1, <3>1, <3>2 DEF TypeOK
  <2>2. CASE /\ coord' = After(offer) /\ furthest' = Furthest(After(offer).num)
             /\ \E got \in {reply, NoReply} : answer' = [answer EXCEPT ![t] = got]
    <3>1. /\ coord' \in Entries \cup {Blank} /\ CoordInv'
          /\ furthest' \in Nat /\ furthest <= furthest'
          /\ coord' \in Entries /\ Sound(After(offer))
      BY <1>3, <2>2, RequestStep DEF TypeOK
    <3>2. reply \in Replies /\ reply.entry = coord'
      BY <2>2, <3>1 DEF Replies
    <3>3. coord'.num <= furthest'
      BY <3>1 DEF CoordInv
    <3> QED
      BY <2>2, <3>1, <3>2, <3>3
  <2>3. ASSUME NEW e \in Offers, FallsBack(e), furthest' = Furthest(offer.num),
               NEW n \in {-1, 0},
               answer' = [answer EXCEPT ![t] = [entry |-> e, index |-> n]]
        PROVE  \E got \in Replies \cup {NoReply} :
                  /\ answer' = [answer EXCEPT ![t] = got]
                  /\ coord' \in Entries \cup {Blank} /\ CoordInv'
                  /\ furthest' \in Nat /\ furthest <= furthest'
                  /\ got # NoReply => Sound(got.entry) /\ got.entry.num <= furthest'
    <3>1. furthest \in Nat /\ furthest' \in Nat /\ furthest <= furthest'
      BY <1>3, <2>3, Numbers DEF Furthest
    <3>2. e \in Entries /\ Sound(e) /\ e.num <= furthest' /\ coord' = e /\ CoordInv'
      BY <2>3, <3>1, FallStep
    <3> DEFINE back == [entry |-> e, index |-> n]
    <3>3. /\ back \in Replies /\ back.entry = e
          /\ answer' = [answer EXCEPT ![t] = back]
      BY <2>3, <3>2 DEF Replies
    <3> HIDE DEF back
    <3> QED
      BY <3>1, <3>2, <3>3
  <2>4. ASSUME NEW e \in Offers, FallsBack(e), furthest' = Furthest(offer.num),
               answer' = [answer EXCEPT ![t] = [entry |-> e, index |-> IF wants THEN i ELSE -1]]
        PROVE  \E n \in {-1, 0} : answer' = [answer EXCEPT ![t] = [entry |-> e, index |-> n]]
    <3>1. CASE wants
      BY <2>4, <3>1
    <3>2. CASE ~wants
      BY <2>4, <3>2
    <3> QED
      BY <3>1, <3>2
  <2>5. \/ UNCHANGED coordinator /\ answer' = [answer EXCEPT ![t] = NoReply]
        \/ /\ coord' = After(offer) /\ furthest' = Furthest(After(offer).num)
           /\ \E got \in {reply, NoReply} : answer' = [answer EXCEPT ![t] = got]
        \/ /\ furthest' = Furthest(offer.num)
           /\ \E e \in Offers :
                 /\ e.count # 0 /\ FallsBack(e)
                 /\ answer' = [answer EXCEPT ![t] =
                       [entry |-> e, index |-> IF wants THEN i ELSE -1]]
    BY <1>2 DEF Handle, offer
  <2>6. \/ UNCHANGED coordinator /\ answer' = [answer EXCEPT ![t] = NoReply]
        \/ /\ coord' = After(offer) /\ furthest' = Furthest(After(offer).num)
           /\ \E got \in {reply, NoReply} : answer' = [answer EXCEPT ![t] = got]
        \/ /\ furthest' = Furthest(offer.num)
           /\ \E e \in Offers, n \in {-1, 0} :
                 /\ FallsBack(e)
                 /\ answer' = [answer EXCEPT ![t] = [entry |-> e, index |-> n]]
    BY <2>4, <2>5
  <2> HIDE DEF reply
  <2> QED
    BY <2>1, <2>2, <2>3, <2>6
<1>6. /\ answer'[t] = got /\ pc'[t] = there
      /\ \A u \in Threads \ {t} : answer'[u] = answer[u] /\ pc'[u] = pc[u]
  BY <1>1, <1>5 DEF TypeOK
<1>7. TypeOK'
  <2>1. pc' \in [Threads -> Places]
    BY <1>1 DEF TypeOK, Places, Engaged, Searching, Greedily, Zero
  <2>2. answer' \in [Threads -> Replies \cup {NoReply}]
    BY <1>5 DEF TypeOK
  <2>3. Blank' = Blank
    BY DEF Blank
  <2> QED
    BY <1>1, <1>5, <2>1, <2>2, <2>3 DEF TypeOK
<1>9. SharedNumberIsReached'
  BY <1>1, <1>5, Numbers DEF SharedNumberIsReached, TypeOK
<1>10. Good(answer[t])' /\ Good(coordinator_return[t])'
  BY <1>1, <1>5, <1>6, Numbers DEF Good, ThreadInv, Sound
<1>11. ThreadInv(t)'
  <2>1. pc[t] \in Engaged => nodeCount[t] <= furthest'
    BY <1>5, Numbers DEF ThreadInv
  <2> QED
    BY <1>1, <1>6, <1>10, <2>1
       DEF ThreadInv, Engaged, Searching, Greedily, Zero, Counts
<1> QED
  BY <1>1, <1>5, <1>6, <1>7, <1>9, <1>11 DEF Own

(* A step that leaves the coordinator alone.                               *)
LEMMA LocalStep ==
    ASSUME Inv, NEW t \in Threads, TypeOK', UNCHANGED coordinator, ThreadInv(t)',
           bestNodeCount' \in {bestNodeCount} \cup {n \in Nat : n <= furthest},
           \A u \in Threads \ {t} :
              /\ pc'[u] = pc[u] /\ nodeCount'[u] = nodeCount[u]
              /\ cliqueCount'[u] = cliqueCount[u] /\ graph'[u] = graph[u]
              /\ phase'[u] = phase[u] /\ answer'[u] = answer[u]
              /\ coordinator_return'[u] = coordinator_return[u]
    PROVE  Own(t)
<1>1. /\ coord' = coord /\ furthest' = furthest /\ Blank' = Blank
      /\ coord.num \in Nat /\ furthest \in Nat
  BY Numbers DEF coordinator, Blank
<1> QED
  BY <1>1 DEF Own, Inv, CoordInv, SharedNumberIsReached, Sound

(* Reading a reply keeps the last good one.                                *)
LEMMA ReadStep ==
    ASSUME Inv, NEW t \in Threads, Read(t), UNCHANGED coordinator
    PROVE  /\ UNCHANGED hung
           /\ coordinator_return' \in [Threads -> Replies \cup {NoReply}]
           /\ answer' \in [Threads -> Replies \cup {NoReply}]
           /\ coordinator_return'[t] = Last(t) /\ answer'[t] = NoReply
           /\ Good(answer[t])' /\ Good(coordinator_return[t])'
           /\ coordinator_return[t] # NoReply => Last(t) # NoReply
           /\ \A u \in Threads \ {t} : /\ coordinator_return'[u] = coordinator_return[u]
                                       /\ answer'[u] = answer[u]
BY DEF Inv, TypeOK, Read, Last, ThreadInv, Good, Sound, coordinator

-----------------------------------------------------------------------------
(* From the head of the loop to the exchange.                              *)
LEMMA HeadStep ==
    ASSUME Inv, NEW t \in Threads, Finish(t) \/ Offer(t)
    PROVE  Own(t)
<1>1. /\ UNCHANGED <<nodeCount, cliqueCount, graph, phase, coordinator_return, answer, flips,
                     bestNodeCount, bestCliqueCount, coord, left, furthest, hung>>
      /\ pc[t] = "top" /\ pc' \in [Threads -> Places]
      /\ \/ pc'[t] = "done"
         \/ pc'[t] = "send" /\ phase[t] = "none"
      /\ \A u \in Threads \ {t} : pc'[u] = pc[u]
  BY DEF Finish, Offer, Goto, locals, wire, shared, coordinator, Inv, TypeOK, Places
<1>2. TypeOK'
  BY <1>1 DEF Inv, TypeOK, Blank
<1>3. ThreadInv(t)'
  BY <1>1 DEF Inv, ThreadInv, Counts, Good, Sound, Engaged, Searching, Greedily, Zero
<1> QED
  BY <1>1, <1>2, <1>3, LocalStep DEF coordinator, Inv, TypeOK

LEMMA PrepareStep ==
    ASSUME Inv, NEW t \in Threads, Explore(t) \/ Embed(t)
    PROVE  Own(t)
<1>1. PICK h \in Graphs, n \in Nat \ {0} :
        /\ Nodes[h] = n /\ graph' = [graph EXCEPT ![t] = h]
        /\ cliqueCount' = [cliqueCount EXCEPT ![t] = Cliques[h]]
        /\ nodeCount' = [nodeCount EXCEPT ![t] = n]
        /\ Prepared(t, h)
  <2>1. CASE Explore(t)
    <3>1. PICK h \in OfNodes(nodeCount[t]) :
             /\ Prepared(t, h)
             /\ cliqueCount' = [cliqueCount EXCEPT ![t] = Cliques[h]]
             /\ UNCHANGED nodeCount
      BY <2>1 DEF Explore
    <3> QED
      BY <3>1, Numbers DEF OfNodes, Prepared, Inv, TypeOK
  <2>2. CASE Embed(t)
    <3>1. PICK h \in OfNodes(nodeCount[t] + 1) :
             /\ Prepared(t, h)
             /\ cliqueCount' = [cliqueCount EXCEPT ![t] = Cliques[h]]
             /\ nodeCount' = [nodeCount EXCEPT ![t] = @ + 1]
      BY <2>2 DEF Embed
    <3>2. nodeCount[t] + 1 \in Nat \ {0} /\ h \in Graphs /\ Nodes[h] = nodeCount[t] + 1
      BY <3>1, Numbers DEF OfNodes
    <3> QED
      BY <3>1, <3>2 DEF Prepared
  <2> QED
    BY <2>1, <2>2
<1>2. /\ phase' = [phase EXCEPT ![t] = "none"] /\ pc' = [pc EXCEPT ![t] = "send"]
      /\ UNCHANGED <<coordinator_return, answer, flips, bestNodeCount, bestCliqueCount,
                     coord, left, furthest, hung>>
  BY <1>1 DEF Prepared, Goto, wire, shared, coordinator
<1>3. Cliques[h] \in Nat
  BY ClientAssumption
<1>4. TypeOK'
  BY <1>1, <1>2, <1>3 DEF Inv, TypeOK, Blank, Places
<1>5. ThreadInv(t)'
  BY <1>1, <1>2 DEF Inv, TypeOK, ThreadInv, Counts, Good, Sound, Engaged, Searching, Greedily, Zero
<1> QED
  BY <1>1, <1>2, <1>4, <1>5, LocalStep DEF coordinator, Inv, TypeOK

(* A reply that is of use is adopted, number and count.                    *)
LEMMA JudgeStep ==
    ASSUME Inv, NEW t \in Threads, Ignore(t) \/ Adopt(t)
    PROVE  Own(t)
<1>1. Read(t) /\ UNCHANGED coordinator
  BY DEF Ignore, Adopt
<1>2. CASE Ignore(t)
  <2>1. /\ UNCHANGED <<nodeCount, cliqueCount, graph, phase, flips, bestNodeCount,
                       bestCliqueCount, coord, furthest, hung>>
        /\ pc[t] = "judge" /\ pc' = [pc EXCEPT ![t] = "top"]
    BY <1>1, <1>2 DEF Ignore, Goto, Read, locals, shared, coordinator
  <2>2. TypeOK'
    BY <1>1, <2>1, ReadStep DEF Inv, TypeOK, Blank, Places
  <2>3. ThreadInv(t)'
    BY <1>1, <2>1, ReadStep
       DEF Inv, TypeOK, ThreadInv, Counts, Engaged, Searching, Greedily, Zero
  <2> QED
    BY <1>1, <2>1, <2>2, <2>3, ReadStep, LocalStep DEF Inv, TypeOK
<1>3. CASE Adopt(t)
  <2>1. /\ UNCHANGED <<graph, phase, flips, bestNodeCount, bestCliqueCount, coord, furthest, hung>>
        /\ pc[t] = "judge" /\ pc' = [pc EXCEPT ![t] = "publish"]
        /\ nodeCount' = [nodeCount EXCEPT ![t] = answer[t].entry.num]
        /\ cliqueCount' = [cliqueCount EXCEPT ![t] = answer[t].entry.count]
        /\ answer[t] # NoReply /\ Last(t) = answer[t]
    BY <1>1, <1>3 DEF Adopt, Usable, Last, Goto, Read, shared, coordinator
  <2>2. TypeOK'
    <3>1. answer[t].entry.num \in Nat \ {0} /\ answer[t].entry.count \in Nat
      BY <1>3, <2>1, Numbers DEF Adopt, Usable
    <3> QED
      BY <1>1, <2>1, <3>1, ReadStep DEF Inv, TypeOK, Blank, Places, Engaged
  <2>3. nodeCount'[t] <= furthest'
    BY <2>1 DEF Inv, TypeOK, ThreadInv, Good
  <2>4. ThreadInv(t)'
    BY <1>1, <2>1, <2>3, ReadStep
       DEF Inv, TypeOK, ThreadInv, Counts, Engaged, Searching, Greedily, Zero
  <2> QED
    BY <1>1, <2>1, <2>2, <2>4, ReadStep, LocalStep DEF Inv, TypeOK
<1> QED
  BY <1>2, <1>3

(* What is published is the number of the reply adopted; the graph the     *)
(* search starts from is the reply's, whose count was adopted, too.        *)
LEMMA PublishStep ==
    ASSUME Inv, NEW t \in Threads, PublishNumber(t)
    PROVE  Own(t)
<1>1. /\ UNCHANGED <<nodeCount, cliqueCount, graph, phase, coordinator_return, answer,
                     flips, bestCliqueCount, coord, left, furthest, hung>>
      /\ pc[t] = "publish" /\ pc' = [pc EXCEPT ![t] = "publishCount"]
      /\ bestNodeCount' = nodeCount[t]
  BY DEF PublishNumber, Goto, locals, wire, coordinator
<1>2. nodeCount[t] <= furthest
  BY <1>1 DEF Inv, ThreadInv, Engaged
<1>3. TypeOK'
  BY <1>1, Numbers DEF Inv, TypeOK, Blank, Places, Engaged
<1>4. ThreadInv(t)'
  BY <1>1, <1>2 DEF Inv, TypeOK, ThreadInv, Counts, Good, Sound, Engaged, Searching, Greedily, Zero
<1> QED
  BY <1>1, <1>2, <1>3, <1>4, Numbers, LocalStep DEF coordinator, Inv, TypeOK

LEMMA StartStep ==
    ASSUME Inv, NEW t \in Threads, StartEmbedding(t) \/ StartExploring(t)
    PROVE  Own(t)
<1>1. /\ UNCHANGED <<graph, coordinator_return, answer, flips, bestNodeCount, coord, left, furthest, hung>>
      /\ pc[t] = "publishCount" /\ pc' = [pc EXCEPT ![t] = "top"]
      /\ bestCliqueCount' = cliqueCount[t]
      /\ nodeCount' \in {nodeCount, [nodeCount EXCEPT ![t] = nodeCount[t] + 1]}
      /\ cliqueCount' \in {cliqueCount, [cliqueCount EXCEPT ![t] = INT_MAX]}
      /\ \E p \in {"embed", "explore"} : phase' = [phase EXCEPT ![t] = p]
  BY DEF StartEmbedding, StartExploring, PublishCount, Goto, wire, coordinator
<1>2. /\ nodeCount' \in [Threads -> Nat \ {0}] /\ cliqueCount' \in [Threads -> Nat]
      /\ \A u \in Threads \ {t} : nodeCount'[u] = nodeCount[u] /\ cliqueCount'[u] = cliqueCount[u]
  BY <1>1, ClientAssumption DEF Inv, TypeOK
<1>3. phase'[t] # "none" /\ phase' \in [Threads -> {"none", "explore", "embed"}]
      /\ \A u \in Threads \ {t} : phase'[u] = phase[u]
  BY <1>1 DEF Inv, TypeOK
<1>4. TypeOK'
  BY <1>1, <1>2, <1>3, Numbers DEF Inv, TypeOK, Blank, Places
<1>5. ThreadInv(t)'
  BY <1>1, <1>3 DEF Inv, TypeOK, ThreadInv, Counts, Good, Sound, Engaged, Searching, Greedily, Zero
<1> QED
  BY <1>1, <1>2, <1>3, <1>4, <1>5, LocalStep DEF coordinator, Inv, TypeOK

LEMMA SearchStep ==
    ASSUME Inv, NEW t \in Threads, StartSearching(t)
    PROVE  Own(t)
<1>1. /\ UNCHANGED <<nodeCount, cliqueCount, phase, coordinator_return, answer, flips,
                     bestNodeCount, coord, left, furthest, hung>>
      /\ pc[t] = "publishCount"
      /\ \E p \in {"replace", "greedy"} : pc' = [pc EXCEPT ![t] = p]
      /\ bestCliqueCount' = cliqueCount[t] /\ cliqueCount[t] # 0
  BY DEF StartSearching, PublishCount, Goto, wire, coordinator
<1>2. PICK g \in ReadAs(coordinator_return[t].entry.graph, nodeCount[t]) :
         graph' = [graph EXCEPT ![t] = g]
  BY DEF StartSearching
<1>3. /\ coordinator_return[t] # NoReply /\ nodeCount[t] <= furthest
      /\ Good(coordinator_return[t])
      /\ coordinator_return[t].entry.num = nodeCount[t]
      /\ coordinator_return[t].entry.count = cliqueCount[t]
  BY <1>1 DEF Inv, ThreadInv, Engaged
<1>4. g \in Graphs /\ Nodes[g] = nodeCount[t] /\ Cliques[g] = cliqueCount[t]
  BY <1>1, <1>3, ReadingOf, Numbers DEF Good, Sound
<1>5. pc' \in [Threads -> Places] /\ pc'[t] \in {"replace", "greedy"}
      /\ \A u \in Threads \ {t} : pc'[u] = pc[u]
  BY <1>1 DEF Inv, TypeOK, Places, Engaged, Searching, Greedily
<1>6. TypeOK'
  BY <1>1, <1>2, <1>4, <1>5, Numbers DEF Inv, TypeOK, Blank
<1>7. ThreadInv(t)'
  BY <1>1, <1>2, <1>3, <1>4, <1>5
     DEF Inv, TypeOK, ThreadInv, Counts, Good, Sound, Engaged, Searching, Greedily, Zero
<1> QED
  BY <1>1, <1>2, <1>5, <1>6, <1>7, LocalStep DEF coordinator, Inv, TypeOK

LEMMA ConverseStep ==
    ASSUME Inv, NEW t \in Threads, Converse(t)
    PROVE  Own(t)
<1>1. CASE Send(t)
  <2>1. Counts(t) /\ cliqueCount[t] \in Nat
    BY <1>1, Numbers DEF Inv, ThreadInv, Send, Exchange, Goto
  <2>2. Exchange(t, "send", "judge", cliqueCount[t], TRUE)
    BY <1>1 DEF Send
  <2> QED
    BY <2>1, <2>2, ExchangeStep DEF Counts
<1> QED
  BY <1>1, HeadStep, PrepareStep, JudgeStep, PublishStep, StartStep, SearchStep DEF Converse

-----------------------------------------------------------------------------
(* The steps that move nothing but the place of a thread, and what they    *)
(* may assume and must leave.                                              *)
LEMMA MoveStep ==
    ASSUME Inv, NEW t \in Threads, NEW there \in Searching,
           pc[t] \in Greedily \cup {"counting", "replace"},
           pc' = [pc EXCEPT ![t] = there],
           there \in Greedily => pc[t] \in Greedily,
           there = "zero" => pc[t] = "counting" /\ cliqueCount[t] = 0,
           there # "counting",
           UNCHANGED <<locals, wire, coordinator>>,
           flips' \in [Threads -> Nat], bestCliqueCount' \in Nat,
           bestNodeCount' \in {bestNodeCount} \cup {n \in Nat : n <= furthest}
    PROVE  Own(t)
<1>1. TypeOK'
  BY DEF Inv, TypeOK, Places, Engaged, locals, wire, coordinator, Blank
<1>2. UNCHANGED <<nodeCount, cliqueCount, graph, phase, coordinator_return, answer, coord, furthest, hung>>
  BY DEF locals, wire, coordinator
<1>3. pc'[t] = there /\ \A u \in Threads \ {t} : pc'[u] = pc[u]
  BY DEF Inv, TypeOK
<1>4. ThreadInv(t)'
  BY <1>2, <1>3
     DEF Inv, ThreadInv, Counts, Good, Sound, Engaged, Searching, Greedily, Zero
<1> QED
  BY <1>1, <1>2, <1>3, <1>4, LocalStep

(* The places of threadedGreedyIndexPermute without an exchange.           *)
LEMMA GreedyMoves ==
    ASSUME Inv, NEW t \in Threads,
           \/ Refuse(t) \/ Begin(t) \/ RowEnds(t) \/ CheckNumber(t) \/ CheckCount(t)
           \/ TellCount(t) \/ TellNumber(t) \/ FlipBack(t) \/ FlipStays(t)
    PROVE  Own(t)
<1> DEFINE Move(there) ==
             /\ pc[t] \in Greedily /\ pc' = [pc EXCEPT ![t] = there]
             /\ UNCHANGED <<locals, wire, coordinator>>
             /\ flips' \in [Threads -> Nat] /\ bestCliqueCount' \in Nat
             /\ bestNodeCount' \in {bestNodeCount} \cup {n \in Nat : n <= furthest}
<1>1. ASSUME NEW there \in Greedily \cup {"recount"}, Move(there)
      PROVE  Own(t)
  BY <1>1, MoveStep DEF Searching, Greedily
<1>2. flips \in [Threads -> Nat] /\ bestCliqueCount \in Nat
  BY DEF Inv, TypeOK
<1> USE DEF Goto, quiet, shared, Greedily
<1>3. CASE Refuse(t)
  BY <1>1, <1>2, <1>3 DEF Refuse
<1>4. CASE Begin(t)
  BY <1>1, <1>2, <1>4 DEF Begin
<1>5. CASE RowEnds(t)
  BY <1>1, <1>2, <1>5 DEF RowEnds
<1>6. CASE CheckNumber(t)
  BY <1>1, <1>2, <1>6 DEF CheckNumber
<1>7. CASE CheckCount(t)
  BY <1>1, <1>2, <1>7 DEF CheckCount
<1>8. CASE TellCount(t)
  <2>1. coordinator_return[t].entry.count \in Nat
    BY <1>8, Numbers DEF TellCount, Inv, ThreadInv, Engaged, Searching
  <2> QED
    BY <1>1, <1>2, <1>8, <2>1 DEF TellCount
<1>9. CASE TellNumber(t)
  <2>1. /\ coordinator_return[t].entry.num \in Nat
        /\ coordinator_return[t].entry.num <= furthest
    BY <1>9, Numbers DEF TellNumber, Inv, ThreadInv, Good, Engaged, Searching
  <2> QED
    BY <1>1, <1>2, <1>9, <2>1 DEF TellNumber
<1>10. CASE FlipBack(t)
  <2>1. flips' \in [Threads -> Nat]
    BY <1>2, <1>10 DEF FlipBack
  <2> QED
    BY <1>1, <1>2, <1>10, <2>1 DEF FlipBack
<1>11. CASE FlipStays(t)
  BY <1>1, <1>2, <1>11 DEF FlipStays
<1> QED
  BY <1>3, <1>4, <1>5, <1>6, <1>7, <1>8, <1>9, <1>10, <1>11

(* The answers to a poll of either search.                                 *)
LEMMA AnswerStep ==
    ASSUME Inv, NEW t \in Threads, PollAnswer(t) \/ Bail(t)
    PROVE  Own(t)
<1>1. PICK there \in {"tellCount", "tellNumber", "flip", "recount", "replace"} :
        /\ pc' = [pc EXCEPT ![t] = there] /\ Read(t)
        /\ there \in Greedily => pc[t] = "pollAnswer"
        /\ pc[t] \in {"pollAnswer", "tellAnswer"}
        /\ UNCHANGED <<locals, flips, shared, coordinator>>
  BY DEF PollAnswer, Bail, Goto, Greedily
<1>2. /\ UNCHANGED <<nodeCount, cliqueCount, graph, phase, flips, bestNodeCount,
                     bestCliqueCount, coord, furthest, hung>>
      /\ pc'[t] = there /\ \A u \in Threads \ {t} : pc'[u] = pc[u]
      /\ pc' \in [Threads -> Places]
  BY <1>1 DEF Read, locals, shared, coordinator, Inv, TypeOK, Places, Engaged, Searching,
              Greedily
<1>3. TypeOK'
  BY <1>1, <1>2, ReadStep DEF Inv, TypeOK, Blank
<1>4. ThreadInv(t)'
  BY <1>1, <1>2, ReadStep DEF Inv, ThreadInv, Counts, Engaged, Searching, Greedily, Zero
<1> QED
  BY <1>1, <1>2, <1>3, <1>4, ReadStep, LocalStep DEF Inv, TypeOK

(* A flip that stays, in either search, has as many nodes as before.       *)
LEMMA FlipStep ==
    ASSUME Inv, NEW t \in Threads, WriteBack(t) \/ ReplaceFlip(t)
    PROVE  Own(t)
<1>1. PICK h \in OfNodes(nodeCount[t]), there \in {"recount", "tell"} :
        /\ graph' = [graph EXCEPT ![t] = h]
        /\ pc' = [pc EXCEPT ![t] = there] /\ pc[t] \in {"wrlock", "replace"}
        /\ bestCliqueCount' \in {bestCliqueCount, Cliques[h]}
        /\ UNCHANGED <<nodeCount, cliqueCount, phase, wire, flips, bestNodeCount, coordinator>>
  <2>1. CASE WriteBack(t)
    BY <2>1 DEF WriteBack, Better, Goto
  <2>2. CASE ReplaceFlip(t)
    BY <2>2 DEF ReplaceFlip, Goto, shared
  <2> QED
    BY <2>1, <2>2
<1>2. h \in Graphs /\ Nodes[h] = nodeCount[t] /\ Cliques[h] \in Nat
  BY ClientAssumption DEF OfNodes
<1>3. TypeOK'
  BY <1>1, <1>2 DEF Inv, TypeOK, Places, Engaged, Searching, wire, coordinator, Blank
<1>4. ThreadInv(t)'
  BY <1>1, <1>2 DEF Inv, TypeOK, ThreadInv, Counts, Good, Sound, Engaged, Searching,
                    Greedily, Zero, wire, coordinator
<1> QED
  BY <1>1, <1>3, <1>4, LocalStep DEF Inv, TypeOK, wire

LEMMA GreedyStep ==
    ASSUME Inv, NEW t \in Threads, Greedy(t)
    PROVE  Own(t)
<1>1. CASE Poll(t)
  <2>1. Counts(t) /\ cliqueCount[t] \in Nat
    BY <1>1, Numbers
       DEF Inv, ThreadInv, Counts, Poll, Exchange, Goto, Searching, Greedily
  <2>2. Exchange(t, "poll", "pollAnswer", cliqueCount[t], FALSE)
    BY <1>1 DEF Poll
  <2> QED
    BY <2>1, <2>2, ExchangeStep DEF Counts
<1> QED
  BY <1>1, GreedyMoves, AnswerStep, FlipStep DEF Greedy

LEMMA ReplaceMeStep ==
    ASSUME Inv, NEW t \in Threads, ReplaceMe(t)
    PROVE  Own(t)
<1>1. CASE SendGraph(t)
  <2>1. Nodes[graph[t]] = nodeCount[t] /\ Cliques[graph[t]] \in Nat
    BY <1>1, ClientAssumption
       DEF Inv, TypeOK, ThreadInv, SendGraph, Exchange, Goto, Searching
  <2>2. Exchange(t, "tell", "tellAnswer", Cliques[graph[t]], FALSE)
    BY <1>1 DEF SendGraph
  <2> QED
    BY <2>1, <2>2, ExchangeStep
<1>2. CASE ReplaceDone(t)
  BY <1>2, MoveStep DEF ReplaceDone, Goto, quiet, shared, Searching, Greedily, Inv, TypeOK
<1> QED
  BY <1>1, <1>2, AnswerStep, FlipStep DEF ReplaceMe

-----------------------------------------------------------------------------
(* The end of the loop.                                                    *)
LEMMA RecountStep ==
    ASSUME Inv, NEW t \in Threads, Recount(t)
    PROVE  Own(t)
<1>1. /\ pc' = [pc EXCEPT ![t] = "counting"] /\ pc[t] = "recount"
      /\ cliqueCount' = [cliqueCount EXCEPT ![t] = Cliques[graph[t]]]
      /\ flips' = [flips EXCEPT ![t] = 0]
      /\ UNCHANGED <<nodeCount, graph, phase, coordinator_return, answer, bestNodeCount,
                     bestCliqueCount, coord, left, furthest, hung>>
  BY DEF Recount, Goto, wire, shared, coordinator
<1>2. TypeOK'
  BY <1>1, ClientAssumption DEF Inv, TypeOK, Places, Engaged, Searching, Blank
<1>3. ThreadInv(t)'
  BY <1>1 DEF Inv, TypeOK, ThreadInv, Counts, Good, Sound, Engaged, Searching, Greedily, Zero
<1> QED
  BY <1>1, <1>2, <1>3, LocalStep DEF Inv, TypeOK, coordinator

LEMMA CountedStep ==
    ASSUME Inv, NEW t \in Threads, Counted(t)
    PROVE  Own(t)
<1>1. CASE cliqueCount[t] = 0
  BY <1>1, MoveStep DEF Counted, Goto, quiet, shared, Searching, Greedily, Inv, TypeOK
<1>2. CASE cliqueCount[t] # 0
  <2>1. /\ pc' = [pc EXCEPT ![t] = "top"] /\ pc[t] = "counting"
        /\ UNCHANGED <<nodeCount, cliqueCount, graph, phase, coordinator_return, answer, flips,
                       bestNodeCount, bestCliqueCount, coord, left, furthest, hung>>
    BY <1>2 DEF Counted, Goto, quiet, locals, wire, shared, coordinator
  <2>2. TypeOK'
    BY <2>1 DEF Inv, TypeOK, Places, Blank
  <2>3. ThreadInv(t)'
    BY <2>1 DEF Inv, TypeOK, ThreadInv, Counts, Good, Sound, Engaged, Searching, Greedily, Zero
  <2> QED
    BY <2>1, <2>2, <2>3, LocalStep DEF Inv, TypeOK, coordinator
<1> QED
  BY <1>1, <1>2

(* sendCliqueZero: only here may a thread go on with a number that is not  *)
(* its graph's, and its graph has no cliques.                              *)
LEMMA ZeroStep ==
    ASSUME Inv, NEW t \in Threads, ZeroAnswer(t) \/ ZeroNumber(t) \/ ZeroCount(t)
    PROVE  Own(t)
<1>1. CASE ZeroAnswer(t)
  <2>1. PICK n \in Nat \ {0} :
          /\ n <= furthest /\ nodeCount' = [nodeCount EXCEPT ![t] = n]
          /\ pc' = [pc EXCEPT ![t] = "zeroLock"] /\ pc[t] = "zeroAnswer" /\ Read(t)
          /\ UNCHANGED <<cliqueCount, graph, phase, flips, bestNodeCount, bestCliqueCount,
                         coord, left, furthest, hung>>
    <3>1. nodeCount[t] <= furthest /\ Good(answer[t])
      BY <1>1 DEF ZeroAnswer, Goto, Inv, ThreadInv, Engaged, Zero
    <3>2. CASE answer[t] # NoReply /\ answer[t].entry.num > nodeCount[t]
      <4>1. /\ answer[t].entry.num \in Nat \ {0} /\ answer[t].entry.num <= furthest
            /\ nodeCount' = [nodeCount EXCEPT ![t] = answer[t].entry.num]
        BY <1>1, <3>1, <3>2, Numbers DEF ZeroAnswer, Good
      <4> QED
        BY <1>1, <4>1 DEF ZeroAnswer, Goto, Read, shared, coordinator
    <3>3. CASE ~(answer[t] # NoReply /\ answer[t].entry.num > nodeCount[t])
      BY <1>1, <3>1, <3>3, Numbers DEF ZeroAnswer, Goto, Good, Read, shared, coordinator
    <3> QED
      BY <3>2, <3>3
  <2>2. UNCHANGED coordinator
    BY <2>1 DEF coordinator
  <2>3. TypeOK'
    BY <2>1, <2>2, ReadStep DEF Inv, TypeOK, Places, Engaged, Zero, Blank
  <2>4. ThreadInv(t)'
    BY <2>1, <2>2, ReadStep
       DEF Inv, TypeOK, ThreadInv, Counts, Engaged, Searching, Greedily, Zero
  <2> QED
    BY <2>1, <2>2, <2>3, <2>4, ReadStep, LocalStep DEF Inv, TypeOK
<1>2. CASE ZeroNumber(t)
  <2>1. /\ pc' = [pc EXCEPT ![t] = "zeroCount"] /\ pc[t] = "zeroLock"
        /\ bestNodeCount' = nodeCount[t]
        /\ UNCHANGED <<nodeCount, cliqueCount, graph, phase, coordinator_return, answer, flips,
                       bestCliqueCount, coord, left, furthest, hung>>
    BY <1>2 DEF ZeroNumber, Goto, quiet, locals, wire, coordinator
  <2>2. TypeOK' /\ nodeCount[t] <= furthest
    BY <2>1, Numbers DEF Inv, TypeOK, ThreadInv, Places, Engaged, Zero, Blank
  <2>3. ThreadInv(t)'
    BY <2>1 DEF Inv, TypeOK, ThreadInv, Counts, Good, Sound, Engaged, Searching, Greedily, Zero
  <2> QED
    BY <2>1, <2>2, <2>3, Numbers, LocalStep DEF Inv, TypeOK, coordinator
<1>3. CASE ZeroCount(t)
  <2>1. /\ pc' = [pc EXCEPT ![t] = "top"] /\ pc[t] = "zeroCount"
        /\ bestCliqueCount' = coordinator_return[t].entry.count
        /\ \E p \in {"embed", phase[t]} : phase' = [phase EXCEPT ![t] = p]
        /\ UNCHANGED <<nodeCount, cliqueCount, graph, coordinator_return, answer, flips,
                       bestNodeCount, coord, left, furthest, hung>>
    BY <1>3 DEF ZeroCount, Goto, wire, coordinator
  <2>2. coordinator_return[t] # NoReply /\ phase[t] = "none"
    BY <2>1 DEF Inv, ThreadInv, Engaged, Zero
  <2>3. TypeOK'
    BY <2>1, <2>2, Numbers DEF Inv, TypeOK, Places, Blank
  <2>4. ThreadInv(t)'
    BY <2>1, <2>2
       DEF Inv, TypeOK, ThreadInv, Counts, Good, Sound, Engaged, Searching, Greedily, Zero
  <2> QED
    BY <2>1, <2>3, <2>4, LocalStep DEF Inv, TypeOK, coordinator
<1> QED
  BY <1>1, <1>2, <1>3

LEMMA ConcludeStep ==
    ASSUME Inv, NEW t \in Threads, Conclude(t)
    PROVE  Own(t)
<1>1. CASE SendCliqueZero(t)
  <2>1. Cliques[graph[t]] = 0 /\ 0 \in Nat
    BY <1>1 DEF Inv, ThreadInv, SendCliqueZero, Exchange, Goto, Zero
  <2>2. Exchange(t, "zero", "zeroAnswer", 0, FALSE)
    BY <1>1 DEF SendCliqueZero
  <2> QED
    BY <2>1, <2>2, ExchangeStep
<1> QED
  BY <1>1, RecountStep, CountedStep, ZeroStep DEF Conclude

-----------------------------------------------------------------------------
LEMMA InitInv == Init => Inv
<1> SUFFICES ASSUME Init PROVE Inv
  OBVIOUS
<1>1. \A t \in Threads : /\ graph[t] \in Graphs /\ Nodes[graph[t]] = START
                         /\ Cliques[graph[t]] \in Nat
  BY ClientAssumption DEF Init, OfNodes
<1>2. TypeOK
  BY <1>1, ClientAssumption DEF Init, TypeOK, Places, OfNodes
<1>3. CoordInv /\ SharedNumberIsReached
  BY BlankIsNone DEF Init, CoordInv, SharedNumberIsReached
<1>4. \A t \in Threads : ThreadInv(t)
  BY <1>1 DEF Init, ThreadInv, Counts, Good, Engaged, Searching, Greedily, Zero
<1> QED
  BY <1>2, <1>3, <1>4 DEF Inv

(* A thread that hangs leaves no more behind than its request.             *)
LEMMA HangStep ==
    ASSUME Inv, NEW t \in Threads, Hang(t)
    PROVE  Own(t)
<1>1. /\ pc[t] \in Sending /\ hung' \in SUBSET Threads
      /\ UNCHANGED <<pc, nodeCount, cliqueCount, graph, phase, coordinator_return, answer,
                     flips, bestNodeCount, bestCliqueCount>>
  BY DEF Hang, locals, shared, Inv, TypeOK
<1>2. /\ Claimed(t) \in Nat /\ Cliques[graph[t]] = Claimed(t)
      /\ Nodes[graph[t]] # nodeCount[t] => Claimed(t) = 0
  BY <1>1, Numbers, ClientAssumption
     DEF Inv, TypeOK, ThreadInv, Counts, Claimed, Sending, Searching, Greedily, Zero
<1>3. /\ coord' \in Entries \cup {Blank} /\ CoordInv'
      /\ furthest' \in Nat /\ furthest <= furthest'
  <2>1. CASE UNCHANGED coordinator
    BY <2>1, Numbers DEF Inv, TypeOK, CoordInv, Sound, Blank, coordinator
  <2>2. ASSUME NEW g \in ReadAs(graph[t], nodeCount[t]),
               coord' = After(Claim(t, Claimed(t), g)),
               furthest' = Furthest(After(Claim(t, Claimed(t), g)).num)
        PROVE  /\ coord' \in Entries \cup {Blank} /\ CoordInv'
               /\ furthest' \in Nat /\ furthest <= furthest'
    <3>1. Claim(t, Claimed(t), g) \in Entries /\ Sound(Claim(t, Claimed(t), g))
      BY <1>2, ClaimIsSound
    <3> QED
      BY <2>2, <3>1, RequestStep DEF Inv, TypeOK
  <2> QED
    BY <2>1, <2>2 DEF Hang, Handle
<1>4. TypeOK'
  BY <1>1, <1>3 DEF Inv, TypeOK, Blank
<1>5. SharedNumberIsReached'
  BY <1>1, <1>3, Numbers DEF Inv, TypeOK, SharedNumberIsReached
<1>6. ThreadInv(t)'
  BY <1>1, <1>3, Others DEF Inv
<1> QED
  BY <1>1, <1>3, <1>4, <1>5, <1>6 DEF Own

-----------------------------------------------------------------------------
(* What other processes send is true, and so is what a server falls back   *)
(* to: the best entry stays sound, and what was reached is remembered.     *)
LEMMA OtherStep ==
    ASSUME Inv, OtherClient \/ ServerBehind
    PROVE  Inv'
<1>1. UNCHANGED <<pc, nodeCount, cliqueCount, graph, phase, coordinator_return, answer, flips,
                  bestNodeCount, bestCliqueCount, hung>>
  BY DEF OtherClient, ServerBehind, locals, wire, shared
<1>2. /\ coord' \in Entries \cup {Blank} /\ CoordInv'
      /\ furthest' \in Nat /\ furthest <= furthest'
  <2>1. CASE OtherClient
    <3>1. PICK offer \in Offers : coord' = After(offer)
      BY <2>1 DEF OtherClient, CoordinatorNext, Handle
    <3>2. offer \in Entries /\ Sound(offer) /\ coord \in Entries \cup {Blank}
      BY ClientAssumption, CoordinatorAssumption DEF Sound, Inv, TypeOK
    <3>3. furthest' = Furthest(After(offer).num)
      BY <2>1, <3>1 DEF OtherClient
    <3> QED
      BY <3>1, <3>2, <3>3, RequestStep DEF Inv, TypeOK
  <2>2. CASE ServerBehind
    <3>1. furthest' = furthest /\ furthest \in Nat /\ \E e \in Offers : FallsBack(e)
      BY <2>2, Numbers DEF ServerBehind
    <3> QED
      BY <3>1, FallStep
  <2> QED
    BY <2>1, <2>2
<1>3. TypeOK'
  BY <1>1, <1>2 DEF Inv, TypeOK, Blank
<1>4. SharedNumberIsReached'
  BY <1>1, <1>2, Numbers DEF Inv, TypeOK, SharedNumberIsReached
<1>5. \A u \in Threads : ThreadInv(u)'
  BY <1>1, <1>2, Others DEF Inv
<1> QED
  BY <1>2, <1>3, <1>4, <1>5 DEF Inv

LEMMA StutterStep == Inv /\ UNCHANGED vars => Inv'
<1> SUFFICES ASSUME Inv, UNCHANGED vars PROVE Inv'
  OBVIOUS
<1>1. UNCHANGED <<pc, nodeCount, cliqueCount, graph, phase, coordinator_return, answer, flips,
                  bestNodeCount, bestCliqueCount, coord, left, furthest, hung>>
  BY DEF vars, locals, wire, shared, coordinator
<1> QED
  BY <1>1 DEF Inv, TypeOK, CoordInv, SharedNumberIsReached, ThreadInv, Counts, Good, Sound, Blank

LEMMA StepKeepsInv == Inv /\ [Next]_vars => Inv'
<1>1. ASSUME Inv, NEW t \in Threads, Step(t) PROVE Inv'
  BY <1>1, ConverseStep, GreedyStep, ReplaceMeStep, ConcludeStep, HangStep, OwnKeepsInv
     DEF Step
<1> QED
  BY <1>1, OtherStep, StutterStep DEF Next

THEOREM Invariance == Spec => []Inv
BY InitInv, StepKeepsInv, PTL DEF Spec

(* Type correctness, for any threads: what the C code keeps in its locals, *)
(* the numbers its threads share and the replies that it reads.            *)
THEOREM TypeCorrect == Spec => []TypeOK
<1>1. Inv => TypeOK
  BY DEF Inv
<1> QED
  BY <1>1, Invariance, PTL

(* bestNodeCount, which threads write one after the other from what they   *)
(* know of the coordinator, is never ahead of what that has reached.       *)
THEOREM SharedNumberReached == Spec => []SharedNumberIsReached
<1>1. Inv => SharedNumberIsReached
  BY DEF Inv
<1> QED
  BY <1>1, Invariance, PTL

(* coordinator_return, which calloc and malloc leave with any contents, is *)
(* used only once a reply was read into it, whatever exchanges fail.       *)
THEOREM ReplyThere == Spec => []ReplyIsThereWhenUsed
<1>1. Inv => ReplyIsThereWhenUsed
  BY DEF Inv, ThreadInv, ReplyIsThereWhenUsed, Engaged, Searching, Greedily, Zero
<1> QED
  BY <1>1, Invariance, PTL

(* The count a thread sends is the count of its graph, for any threads and *)
(* other processes, and for another number of nodes only when it is zero.  *)
THEOREM ClaimsCount == Spec => []ClaimsCountTheirGraph
<1>1. Inv => ClaimsCountTheirGraph
  <2> SUFFICES ASSUME Inv, NEW t \in Threads, pc[t] \in Sending
               PROVE  /\ Cliques[graph[t]] = Claimed(t)
                      /\ Nodes[graph[t]] # nodeCount[t] => Claimed(t) = 0
    BY DEF ClaimsCountTheirGraph
  <2> QED
    BY DEF Inv, ThreadInv, Counts, Claimed, Sending, Searching, Greedily, Zero
<1> QED
  BY <1>1, Invariance, PTL

(* No step takes a thread back to fewer nodes.                             *)
LEMMA NumberStep ==
    ASSUME Inv, NEW t \in Threads, Step(t), NEW u \in Threads
    PROVE  nodeCount'[u] \in Nat \ {0} /\ nodeCount'[u] >= nodeCount[u]
<1>1. \A n \in Nat \ {0} : n >= n /\ n + 1 >= n /\ n + 1 \in Nat \ {0}
  OBVIOUS
<1>2. nodeCount[u] \in Nat \ {0} /\ nodeCount \in [Threads -> Nat \ {0}]
  BY Numbers DEF Inv, TypeOK
<1>3. \/ UNCHANGED nodeCount
      \/ nodeCount' = [nodeCount EXCEPT ![t] = nodeCount[t] + 1]
      \/ Adopt(t) \/ ZeroAnswer(t)
  <2> USE DEF locals, quiet
  <2>1. CASE Converse(t)
    BY <2>1 DEF Converse, Finish, Offer, Explore, Embed, Send, Exchange, Ignore,
                PublishNumber, StartEmbedding, StartExploring, StartSearching
  <2>2. CASE Greedy(t)
    BY <2>2 DEF Greedy, Refuse, Begin, RowEnds, CheckNumber, CheckCount, Poll, Exchange,
                PollAnswer, TellCount, TellNumber, FlipBack, FlipStays, WriteBack
  <2>3. CASE ReplaceMe(t)
    BY <2>3 DEF ReplaceMe, ReplaceFlip, ReplaceDone, SendGraph, Exchange, Bail
  <2>4. CASE Conclude(t)
    BY <2>4 DEF Conclude, Recount, Counted, SendCliqueZero, Exchange, ZeroNumber, ZeroCount
  <2>5. CASE Hang(t)
    BY <2>5 DEF Hang
  <2> QED
    BY <2>1, <2>2, <2>3, <2>4, <2>5 DEF Step
<1>4. CASE UNCHANGED nodeCount \/ nodeCount' = [nodeCount EXCEPT ![t] = nodeCount[t] + 1]
  BY <1>1, <1>2, <1>4
<1>5. CASE Adopt(t) \/ ZeroAnswer(t)
  <2>1. \/ UNCHANGED nodeCount
        \/ /\ answer[t] # NoReply /\ answer[t].entry.num >= nodeCount[t]
           /\ nodeCount' = [nodeCount EXCEPT ![t] = answer[t].entry.num]
    BY <1>2, <1>5, Numbers DEF Adopt, Usable, ZeroAnswer
  <2> QED
    BY <1>1, <1>2, <2>1, Numbers
<1> QED
  BY <1>3, <1>4, <1>5

(* The number of nodes a thread works on grows by what it finds and by     *)
(* what it hears, and never falls back behind what it has reached, though  *)
(* the coordinator may, and may then answer with a smaller number.         *)
THEOREM NumberKept == Spec => NumberNeverFallsBack
<1>1. Inv /\ [Next]_vars => [\A t \in Threads : nodeCount'[t] >= nodeCount[t]]_vars
  <2>1. ASSUME Inv, OtherClient \/ ServerBehind, NEW u \in Threads
        PROVE  nodeCount'[u] >= nodeCount[u]
    BY <2>1, Numbers DEF OtherClient, ServerBehind, locals
  <2> QED
    BY <2>1, NumberStep DEF Next
<1> QED
  BY <1>1, Invariance, PTL DEF Spec, NumberNeverFallsBack

-----------------------------------------------------------------------------
(* A process with one thread, alone with its coordinator: the coordinator  *)
(* is never ahead of it, so that what it keeps, and what it sends, are a   *)
(* graph's own numbers, and the coordinator's best entry is true.          *)
Sole ==
    /\ Inv
    /\ coord # Blank => Cliques[coord.graph] = coord.count
    /\ \A t \in Threads :
          /\ furthest <= nodeCount[t]
          /\ \/ pc[t] \in {"send", "judge"} \cup Zero
             \/ pc[t] = "top" /\ phase[t] = "none"
             => Nodes[graph[t]] = nodeCount[t]

LEMMA SoleRequest ==
    ASSUME Sole, ~OTHERS, NEW t \in Threads, \A u \in Threads : u = t,
           UNCHANGED <<nodeCount, graph>>, Inv',
           NEW count \in Nat, Cliques[graph[t]] = count, Nodes[graph[t]] = nodeCount[t],
           \/ UNCHANGED <<coord, furthest>>
           \/ \E g \in ReadAs(graph[t], nodeCount[t]) :
                 /\ coord' = After(Claim(t, count, g))
                 /\ furthest' = Furthest(After(Claim(t, count, g)).num)
    PROVE  /\ coord' # Blank' => Cliques[coord'.graph] = coord'.count
           /\ furthest' <= nodeCount'[t]
<1>1. \A g \in ReadAs(graph[t], nodeCount[t]) : g = graph[t]
  BY ReadingOf DEF Sole, Inv, TypeOK
<1>2. coord' \in {coord, Claim(t, count, graph[t])}
  BY <1>1 DEF After
<1>3. coord' # Blank' => Cliques[coord'.graph] = coord'.count
  BY <1>2 DEF Sole, Claim, Blank
<1>4. furthest' \in {furthest, coord.num, nodeCount[t]} /\ coord.num <= furthest
  BY <1>1 DEF After, Claim, Furthest, Sole, Inv, CoordInv
<1>5. furthest' <= nodeCount'[t]
  BY <1>4, Numbers DEF Sole
<1> QED
  BY <1>3, <1>5

LEMMA SoleExchange ==
    ASSUME Sole, ~OTHERS, NEW t \in Threads, \A u \in Threads : u = t,
           NEW count, NEW wants, NEW here, NEW there,
           there \in {"judge"} \cup Searching \cup Zero,
           Cliques[graph[t]] = count, count \in Nat, Nodes[graph[t]] = nodeCount[t],
           Exchange(t, here, there, count, wants), Inv'
    PROVE  Sole'
<1>1. UNCHANGED <<nodeCount, graph>> /\ pc' = [pc EXCEPT ![t] = there]
  BY DEF Exchange, Goto, locals
<1>2. \/ UNCHANGED <<coord, furthest>>
      \/ \E g \in ReadAs(graph[t], nodeCount[t]) :
            /\ coord' = After(Claim(t, count, g))
            /\ furthest' = Furthest(After(Claim(t, count, g)).num)
  BY DEF Exchange, Handle, FallsBack, coordinator
<1>3. /\ coord' # Blank' => Cliques[coord'.graph] = coord'.count
      /\ furthest' <= nodeCount'[t]
  BY <1>1, <1>2, SoleRequest
<1> QED
  BY <1>1, <1>3 DEF Sole

LEMMA SoleHang ==
    ASSUME Sole, ~OTHERS, NEW t \in Threads, \A u \in Threads : u = t,
           Cliques[graph[t]] = Claimed(t), Claimed(t) \in Nat,
           Nodes[graph[t]] = nodeCount[t], Hang(t), Inv'
    PROVE  Sole'
<1>1. UNCHANGED <<pc, nodeCount, graph, phase>>
  BY DEF Hang, locals
<1>2. \/ UNCHANGED <<coord, furthest>>
      \/ \E g \in ReadAs(graph[t], nodeCount[t]) :
            /\ coord' = After(Claim(t, Claimed(t), g))
            /\ furthest' = Furthest(After(Claim(t, Claimed(t), g)).num)
  BY DEF Hang, Handle, coordinator
<1>3. /\ coord' # Blank' => Cliques[coord'.graph] = coord'.count
      /\ furthest' <= nodeCount'[t]
  BY <1>1, <1>2, SoleRequest
<1> QED
  BY <1>1, <1>3 DEF Sole

(* Every step but an exchange leaves the coordinator alone.                *)
LEMMA SoleLocal ==
    ASSUME Sole, NEW t \in Threads, \A u \in Threads : u = t, Step(t), Inv',
           ~Send(t), ~Poll(t), ~SendGraph(t), ~SendCliqueZero(t), ~Hang(t)
    PROVE  Sole'
<1> DEFINE Plain == \/ pc[t] \in {"send", "judge"} \cup Zero
                    \/ pc[t] = "top" /\ phase[t] = "none"
<1>1. UNCHANGED <<coord, furthest>> /\ Blank' = Blank
  BY DEF Step, Converse, Finish, Offer, Explore, Embed, Prepared, Ignore, Adopt,
         PublishNumber, PublishCount, StartEmbedding, StartExploring, StartSearching,
         Greedy, Refuse, Begin, RowEnds, CheckNumber, CheckCount, PollAnswer, TellCount,
         TellNumber, FlipBack, FlipStays, WriteBack, ReplaceMe, ReplaceFlip, ReplaceDone,
         Bail, Conclude, Recount, Counted, ZeroAnswer, ZeroNumber, ZeroCount,
         quiet, coordinator, Blank
<1>2. furthest' <= nodeCount'[t]
  BY <1>1, NumberStep, Numbers DEF Sole
<1>3. Plain' => Nodes[graph'[t]] = nodeCount'[t]
  <2> USE DEF Inv, TypeOK, Zero, Goto, locals, quiet
  <2>1. CASE Offer(t) \/ Ignore(t) \/ Counted(t) \/ ZeroNumber(t) \/ ZeroCount(t)
    BY <2>1 DEF Sole, Offer, Ignore, Counted, ZeroNumber, ZeroCount, ThreadInv, Searching
  <2>2. CASE Explore(t) \/ Embed(t)
    BY <2>2 DEF Explore, Embed, Prepared, OfNodes, Sole
  <2>3. CASE ZeroAnswer(t)
    <3>1. nodeCount' = nodeCount
      <4>1. answer[t] # NoReply => ~(answer[t].entry.num > nodeCount[t])
        BY Numbers DEF Sole, ThreadInv, Good
      <4> QED
        BY <2>3, <4>1 DEF ZeroAnswer, Sole
    <3> QED
      BY <2>3, <3>1 DEF ZeroAnswer, Sole
  <2>4. CASE pc'[t] \notin {"top", "send", "judge"} \cup Zero
    BY <2>4
  <2>5. CASE phase'[t] # "none" /\ pc'[t] = "top"
    BY <2>5
  <2>6. \/ Offer(t) \/ Ignore(t) \/ Counted(t) \/ ZeroNumber(t) \/ ZeroCount(t)
        \/ Explore(t) \/ Embed(t) \/ ZeroAnswer(t)
        \/ pc'[t] \notin {"top", "send", "judge"} \cup Zero
        \/ phase'[t] # "none" /\ pc'[t] = "top"
    <3> USE DEF Sole
    <3>1. CASE Converse(t)
      BY <3>1 DEF Converse, Finish, Adopt, PublishNumber, PublishCount, StartEmbedding,
                  StartExploring, StartSearching
    <3>2. CASE Greedy(t)
      BY <3>2 DEF Greedy, Refuse, Begin, RowEnds, CheckNumber, CheckCount, PollAnswer,
                  TellCount, TellNumber, FlipBack, FlipStays, WriteBack
    <3>3. CASE ReplaceMe(t)
      BY <3>3 DEF ReplaceMe, ReplaceFlip, ReplaceDone, Bail
    <3>4. CASE Conclude(t)
      BY <3>4 DEF Conclude, Recount
    <3> QED
      BY <3>1, <3>2, <3>3, <3>4 DEF Step
  <2> QED
    BY <2>1, <2>2, <2>3, <2>4, <2>5, <2>6
<1> QED
  BY <1>1, <1>2, <1>3 DEF Sole

LEMMA SoleStep ==
    ASSUME Threads = {Poller}, ~OTHERS
    PROVE  Sole /\ [Next]_vars => Sole'
<1> SUFFICES ASSUME Sole, [Next]_vars PROVE Sole'
  OBVIOUS
<1>1. Inv' /\ Poller \in Threads
  BY StepKeepsInv, ClientAssumption DEF Sole
<1>2. CASE UNCHANGED vars
  BY <1>1, <1>2 DEF Sole, vars, locals, coordinator, Blank
<1>3. CASE Step(Poller)
  <2> DEFINE t == Poller
  <2>0. t \in Threads /\ \A u \in Threads : u = t
    BY <1>1
  <2> HIDE DEF t
  <2>1. ASSUME Send(t) \/ Poll(t) \/ SendGraph(t) \/ SendCliqueZero(t) \/ Hang(t)
        PROVE  Sole'
    <3>1. /\ pc[t] \in Sending /\ Nodes[graph[t]] = nodeCount[t]
          /\ Cliques[graph[t]] = Claimed(t) /\ Claimed(t) \in Nat
      BY <2>0, <2>1, Numbers, ClientAssumption
         DEF Sole, Inv, ThreadInv, Counts, Send, Poll, SendGraph, SendCliqueZero, Hang,
             Exchange, Goto, Sending, Claimed, Searching, Greedily, Zero, TypeOK
    <3>2. CASE Send(t)
      <4>1. Exchange(t, "send", "judge", Claimed(t), TRUE)
        BY <3>2 DEF Send, Exchange, Goto, Claimed
      <4> QED
        BY <1>1, <2>0, <3>1, <4>1, SoleExchange DEF Sending
    <3>3. CASE Poll(t)
      <4>1. Exchange(t, "poll", "pollAnswer", Claimed(t), FALSE)
        BY <3>3 DEF Poll, Exchange, Goto, Claimed
      <4> QED
        BY <1>1, <2>0, <3>1, <4>1, SoleExchange DEF Sending, Searching, Greedily
    <3>4. CASE SendGraph(t)
      <4>1. Exchange(t, "tell", "tellAnswer", Claimed(t), FALSE)
        BY <3>4 DEF SendGraph, Exchange, Goto, Claimed
      <4> QED
        BY <1>1, <2>0, <3>1, <4>1, SoleExchange DEF Sending, Searching
    <3>5. CASE SendCliqueZero(t)
      <4>1. Claimed(t) = 0
        BY <2>0, <3>5
           DEF Sole, Inv, ThreadInv, SendCliqueZero, Exchange, Goto, Claimed, Zero
      <4>2. Exchange(t, "zero", "zeroAnswer", Claimed(t), FALSE)
        BY <3>5, <4>1 DEF SendCliqueZero
      <4> QED
        BY <1>1, <2>0, <3>1, <4>2, SoleExchange DEF Sending, Zero
    <3>6. CASE Hang(t)
      BY <1>1, <2>0, <3>1, <3>6, SoleHang
    <3> QED
      BY <2>1, <3>2, <3>3, <3>4, <3>5, <3>6
  <2> QED
    BY <1>1, <1>3, <2>0, <2>1, SoleLocal DEF t
<1> QED
  BY <1>2, <1>3 DEF Next, OtherClient, ServerBehind, FallsBack

LEMMA SoleInit ==
    ASSUME Threads = {Poller}
    PROVE  Init => Sole
<1> SUFFICES ASSUME Init PROVE Sole
  OBVIOUS
<1>1. Blank.num = 0 /\ 0 <= START
  BY BlankIsNone, ClientAssumption
<1> QED
  BY <1>1, InitInv, ClientAssumption DEF Init, Sole, OfNodes

(* What a process with one thread sends, when no other talks to its        *)
(* coordinator, is true: a graph of that many nodes with that many         *)
(* cliques, whatever messages are lost.                                    *)
THEOREM SoleClaimsTrue ==
    ASSUME Threads = {Poller}, ~OTHERS
    PROVE  Spec => []ClaimsAreTrue
<1>1. Sole => ClaimsAreTrue
  <2> SUFFICES ASSUME Sole, NEW t \in Threads, pc[t] \in Sending
               PROVE  Nodes[graph[t]] = nodeCount[t] /\ Cliques[graph[t]] = Claimed(t)
    BY DEF ClaimsAreTrue
  <2> QED
    BY DEF Sole, Inv, ThreadInv, Counts, Claimed, Sending, Searching, Greedily, Zero
<1> QED
  BY <1>1, SoleInit, SoleStep, PTL DEF Spec

(* And what its coordinator calls a counter example is one.                *)
THEOREM SoleExamplesReal ==
    ASSUME Threads = {Poller}, ~OTHERS
    PROVE  Spec => []CounterExamplesAreReal
<1>1. Sole => CounterExamplesAreReal
  BY BlankIsNone DEF Sole, CounterExamplesAreReal
<1> QED
  BY <1>1, SoleInit, SoleStep, PTL DEF Spec
=============================================================================
