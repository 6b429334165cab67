----------------------- MODULE ServerConnectionsProofs -----------------------
(***************************************************************************)
(* Connections are neither lost nor served twice, and no message is        *)
(* handled before it was read to its end, for any peers and any pool.      *)
(***************************************************************************)
EXTENDS ServerConnections, FiniteSetTheorems, TLAPS

Lives == {"away", "open", "closed", "reset", "over"}
Free == {"get", "dead"}
Busy == {"recv", "more", "raise", "handle"}

TypeOK ==
    /\ peer \in [Peers -> Lives]
    /\ sent \in [Peers -> 0 .. Whole]
    /\ q \in Seq(Peers)
    /\ pc \in [Workers -> Free \union Busy]
    /\ conn \in [Workers -> Peers \union {Nobody}]
    /\ data \in [Workers -> 0 .. Whole]

InQueue(p) == \E i \in DOMAIN q : q[i] = p
WithWorker(p) == \E w \in Workers : conn[w] = p

(* OneOwner without counting: the places a connection can be at are all    *)
(* different, and it is at one exactly while it has begun and not ended.   *)
Owned ==
    /\ \A w \in Workers : conn[w] = Nobody <=> pc[w] \in Free
    /\ \A i, j \in DOMAIN q : q[i] = q[j] => i = j
    /\ \A u, w \in Workers : conn[u] = conn[w] /\ conn[u] # Nobody => u = w
    /\ \A p \in Peers : ~(InQueue(p) /\ WithWorker(p))
    /\ \A p \in Peers : peer[p] \in {"away", "over"} <=> ~InQueue(p) /\ ~WithWorker(p)

IInv == TypeOK /\ Owned /\ OnlyWholeMessagesHandled

-----------------------------------------------------------------------------
(* Nobody is connected at first.                                           *)
LEMMA InitIInv == Init => IInv
BY ConnectionsAssumption
   DEF Init, IInv, TypeOK, Owned, OnlyWholeMessagesHandled, InQueue, WithWorker,
       Lives, Free, Busy, Whole

(* A new connection goes to the end of the queue.                          *)
LEMMA AcceptStep ==
    ASSUME IInv, NEW p \in Peers, Accept(p)
    PROVE  IInv'
<1>1. /\ peer' = [peer EXCEPT ![p] = "open"] /\ peer[p] = "away"
      /\ q' = Append(q, p) /\ UNCHANGED <<sent, pc, conn, data>>
  BY DEF Accept
<1>2. q \in Seq(Peers) /\ ~InQueue(p) /\ ~WithWorker(p)
  BY <1>1 DEF IInv, TypeOK, Owned
<1>3. /\ Len(q') = Len(q) + 1 /\ q' \in Seq(Peers)
      /\ DOMAIN q' = 1 .. Len(q) + 1 /\ DOMAIN q = 1 .. Len(q) /\ Len(q) \in Nat
      /\ \A i \in 1 .. Len(q) : q'[i] = q[i]
      /\ q'[Len(q) + 1] = p
  BY <1>1, <1>2
<1>4. \A r \in Peers : InQueue(r)' <=> InQueue(r) \/ r = p
  BY <1>3 DEF InQueue
<1>5. \A r \in Peers : WithWorker(r)' <=> WithWorker(r)
  BY <1>1 DEF WithWorker
<1>6. TypeOK' /\ OnlyWholeMessagesHandled'
  BY <1>1, <1>3 DEF IInv, TypeOK, OnlyWholeMessagesHandled, Lives
<1>7. \A i, j \in DOMAIN q' : q'[i] = q'[j] => i = j
  <2>1. \A i \in 1 .. Len(q) : q[i] # p
    BY <1>2, <1>3 DEF InQueue
  <2> QED
    BY <1>3, <2>1 DEF IInv, Owned
<1>8. Owned'
  BY <1>1, <1>2, <1>4, <1>5, <1>7 DEF IInv, Owned, TypeOK
<1> QED
  BY <1>6, <1>8 DEF IInv

(* A step that leaves connections where they are, if they live on.         *)
LEMMA StayStep ==
    ASSUME IInv, TypeOK', UNCHANGED <<q, conn>>,
           \A w \in Workers : pc'[w] \in Free <=> pc[w] \in Free,
           \A p \in Peers : peer'[p] \in {"away", "over"} <=> peer[p] \in {"away", "over"}
    PROVE  Owned'
<1>1. \A p \in Peers : /\ InQueue(p)' <=> InQueue(p)
                       /\ WithWorker(p)' <=> WithWorker(p)
  BY DEF InQueue, WithWorker
<1> QED
  BY <1>1 DEF IInv, Owned

(* What a peer does to its open connection.                                *)
LEMMA PeerStep ==
    ASSUME IInv, NEW p \in Peers, Sends(p) \/ GoesAway(p)
    PROVE  IInv'
<1>1. TypeOK'
  BY DEF IInv, TypeOK, Sends, GoesAway, Lives, Whole
<1>2. /\ UNCHANGED <<q, pc, conn, data>>
      /\ \A r \in Peers : peer'[r] \in {"away", "over"} <=> peer[r] \in {"away", "over"}
  BY DEF IInv, TypeOK, Sends, GoesAway
<1>3. Owned'
  BY <1>1, <1>2, StayStep
<1>4. OnlyWholeMessagesHandled'
  BY <1>2 DEF IInv, OnlyWholeMessagesHandled
<1> QED
  BY <1>1, <1>3, <1>4 DEF IInv

(* The head of the queue goes to the worker that asked for it.             *)
LEMMA GetStep ==
    ASSUME IInv, NEW w \in Workers, Get(w)
    PROVE  IInv'
<1>1. /\ q # <<>> /\ pc[w] = "get" /\ pc' = [pc EXCEPT ![w] = "recv"]
      /\ conn' = [conn EXCEPT ![w] = Head(q)] /\ q' = Tail(q)
      /\ UNCHANGED <<peer, sent, data>>
  BY DEF Get, client
<1>2. /\ q \in Seq(Peers) /\ Len(q) \in Nat \ {0} /\ Head(q) = q[1]
      /\ DOMAIN q = 1 .. Len(q) /\ DOMAIN q' = 1 .. Len(q) - 1 /\ q' \in Seq(Peers)
      /\ \A i \in 1 .. Len(q) - 1 : q'[i] = q[i + 1]
  BY <1>1 DEF IInv, TypeOK
<1>3. q[1] \in Peers /\ q[1] # Nobody /\ conn[w] = Nobody
  BY <1>1, <1>2, ConnectionsAssumption DEF IInv, Owned, TypeOK, Free
<1>4. TypeOK' /\ OnlyWholeMessagesHandled'
  BY <1>1, <1>2, <1>3 DEF IInv, TypeOK, OnlyWholeMessagesHandled, Busy
<1>5. \A r \in Peers : InQueue(r)' <=> InQueue(r) /\ r # q[1]
  <2>1. \A i \in DOMAIN q : i # 1 => q[i] # q[1]
    BY <1>2 DEF IInv, Owned
  <2>2. ASSUME NEW r \in Peers, InQueue(r)'
        PROVE  InQueue(r) /\ r # q[1]
    <3>1. PICK i \in 1 .. Len(q) - 1 : q'[i] = r
      BY <1>2, <2>2 DEF InQueue
    <3>2. i + 1 \in DOMAIN q /\ i + 1 # 1 /\ q[i + 1] = r
      BY <1>2, <3>1
    <3> QED
      BY <2>1, <3>2 DEF InQueue
  <2>3. ASSUME NEW r \in Peers, InQueue(r), r # q[1]
        PROVE  InQueue(r)'
    <3>1. PICK i \in 1 .. Len(q) : q[i] = r
      BY <1>2, <2>3 DEF InQueue
    <3>2. i - 1 \in 1 .. Len(q) - 1 /\ q'[i - 1] = q[(i - 1) + 1] /\ (i - 1) + 1 = i
      BY <1>2, <2>3, <3>1
    <3> QED
      BY <1>2, <3>1, <3>2 DEF InQueue
  <2> QED
    BY <2>2, <2>3
<1>6. InQueue(q[1]) /\ ~WithWorker(q[1])
  BY <1>2, <1>3 DEF InQueue, IInv, Owned
<1>7. \A r \in Peers : WithWorker(r)' <=> WithWorker(r) \/ r = q[1]
  <2>1. conn'[w] = q[1] /\ \A u \in Workers \ {w} : conn'[u] = conn[u]
    BY <1>1, <1>2 DEF IInv, TypeOK
  <2>2. \A r \in Peers : conn[w] # r
    BY <1>3, ConnectionsAssumption
  <2> QED
    BY <2>1, <2>2 DEF WithWorker
<1>8. \A i, j \in DOMAIN q' : q'[i] = q'[j] => i = j
  <2>1. \A i \in DOMAIN q' : i \in Int /\ i + 1 \in DOMAIN q /\ q'[i] = q[i + 1]
    BY <1>2
  <2>2. \A i, j \in DOMAIN q : q[i] = q[j] => i = j
    BY DEF IInv, Owned
  <2> QED
    BY <2>1, <2>2
<1>9. \A u, v \in Workers : conn'[u] = conn'[v] /\ conn'[u] # Nobody => u = v
  <2>1. conn'[w] = q[1] /\ \A u \in Workers \ {w} : conn'[u] = conn[u] /\ conn[u] # q[1]
    BY <1>1, <1>2, <1>6 DEF IInv, TypeOK, WithWorker
  <2> QED
    BY <2>1 DEF IInv, Owned
<1>10. \A u \in Workers : conn'[u] = Nobody <=> pc'[u] \in Free
  BY <1>1, <1>2, <1>3 DEF IInv, TypeOK, Owned, Free
<1>11. Owned'
  BY <1>1, <1>5, <1>6, <1>7, <1>8, <1>9, <1>10 DEF IInv, Owned
<1> QED
  BY <1>4, <1>11 DEF IInv

(* A chunk: the message is handled only when all of it was read.           *)
LEMMA RecvStep ==
    ASSUME IInv, NEW w \in Workers, Recv(w)
    PROVE  IInv'
<1>1. PICK n \in data[w] .. sent[conn[w]] :
        /\ data' = [data EXCEPT ![w] = n]
        /\ pc' = [pc EXCEPT ![w] = Then(n)]
  BY DEF Recv
<1>2. pc[w] \in {"recv", "more"} /\ UNCHANGED <<peer, sent, q, conn>>
  BY DEF Recv, client
<1>3. conn[w] \in Peers
  BY <1>2, ConnectionsAssumption DEF IInv, TypeOK, Owned, Free
<1>4. n \in 0 .. Whole
  BY <1>1, <1>3 DEF IInv, TypeOK, Whole
<1>5. Then(n) \in Busy /\ (Then(n) = "handle" => n = Whole)
  BY <1>4 DEF Then, Busy, Whole, Header
<1>6. TypeOK' /\ OnlyWholeMessagesHandled'
  BY <1>1, <1>2, <1>4, <1>5 DEF IInv, TypeOK, OnlyWholeMessagesHandled
<1>7. \A u \in Workers : pc'[u] \in Free <=> pc[u] \in Free
  BY <1>1, <1>2, <1>5 DEF IInv, TypeOK, Free, Busy
<1>8. Owned'
  BY <1>2, <1>6, <1>7, StayStep
<1> QED
  BY <1>6, <1>8 DEF IInv

(* Every exit of a worker closes its connection and lets go of it.         *)
LEMMA EndStep ==
    ASSUME IInv, NEW w \in Workers, NEW there \in Free, pc[w] \in Busy, End(w, there)
    PROVE  IInv'
<1>1. /\ pc' = [pc EXCEPT ![w] = there]
      /\ peer' = [peer EXCEPT ![conn[w]] = "over"]
      /\ sent' = [sent EXCEPT ![conn[w]] = 0]
      /\ conn' = [conn EXCEPT ![w] = Nobody]
      /\ data' = [data EXCEPT ![w] = 0] /\ q' = q
  BY DEF End
<1>2. conn[w] \in Peers
  BY ConnectionsAssumption DEF IInv, TypeOK, Owned, Free, Busy
<1>3. TypeOK'
  BY <1>1, <1>2 DEF IInv, TypeOK, Lives, Whole
<1>4. OnlyWholeMessagesHandled'
  BY <1>1 DEF IInv, TypeOK, OnlyWholeMessagesHandled, Free
<1>5. \A r \in Peers : InQueue(r)' <=> InQueue(r)
  BY <1>1 DEF InQueue
<1>6. /\ conn'[w] = Nobody
      /\ \A u \in Workers \ {w} : conn'[u] = conn[u] /\ conn[u] # conn[w]
  BY <1>1, <1>2, ConnectionsAssumption DEF IInv, TypeOK, Owned
<1>7. \A r \in Peers : WithWorker(r)' <=> WithWorker(r) /\ r # conn[w]
  BY <1>2, <1>6, ConnectionsAssumption DEF WithWorker
<1>8. /\ peer'[conn[w]] = "over"
      /\ \A r \in Peers : r # conn[w] => peer'[r] = peer[r]
  BY <1>1, <1>2 DEF IInv, TypeOK
<1>9. ~InQueue(conn[w])
  BY <1>2 DEF IInv, Owned, WithWorker
<1>10. \A u \in Workers : conn'[u] = Nobody <=> pc'[u] \in Free
  BY <1>1, <1>6 DEF IInv, TypeOK, Owned
<1>11. \A u, v \in Workers : conn'[u] = conn'[v] /\ conn'[u] # Nobody => u = v
  BY <1>6 DEF IInv, Owned
<1>12. \A p \in Peers : peer'[p] \in {"away", "over"} <=> ~InQueue(p)' /\ ~WithWorker(p)'
  BY <1>2, <1>5, <1>7, <1>8, <1>9 DEF IInv, Owned
<1>13. Owned'
  BY <1>1, <1>5, <1>7, <1>10, <1>11, <1>12 DEF IInv, Owned
<1> QED
  BY <1>3, <1>4, <1>13 DEF IInv

(* The pool starts another worker.                                         *)
LEMMA RepopulateStep ==
    ASSUME IInv, NEW w \in Workers, Repopulate(w)
    PROVE  IInv'
<1>1. TypeOK' /\ OnlyWholeMessagesHandled'
  BY DEF IInv, TypeOK, OnlyWholeMessagesHandled, Repopulate, client, Free
<1>2. Owned'
  BY <1>1, StayStep DEF Repopulate, client, IInv, TypeOK, Free
<1> QED
  BY <1>1, <1>2 DEF IInv

(* One case per action.                                                    *)
LEMMA NextIInv == IInv /\ [Next]_vars => IInv'
<1> SUFFICES ASSUME IInv, [Next]_vars PROVE IInv'
  OBVIOUS
<1>1. ASSUME NEW p \in Peers, Accept(p) \/ Sends(p) \/ GoesAway(p)
      PROVE  IInv'
  BY <1>1, AcceptStep, PeerStep
<1>2. ASSUME NEW w \in Workers, Proceed(w)
      PROVE  IInv'
  <2>1. CASE Get(w)
    BY <2>1, GetStep
  <2>2. CASE Recv(w)
    BY <2>2, RecvStep
  <2>3. CASE Repopulate(w)
    BY <2>3, RepopulateStep
  <2>4. CASE FirstRecvRaises(w)
    BY <2>4, EndStep DEF FirstRecvRaises, Free, Busy
  <2>5. CASE Handle(w)
    BY <2>5, EndStep DEF Handle, Free, Busy
  <2>6. CASE Except(w)
    BY <2>6, EndStep DEF Except, Raises, Free, Busy
  <2> QED
    BY <1>2, <2>1, <2>2, <2>3, <2>4, <2>5, <2>6 DEF Proceed
<1>3. CASE UNCHANGED vars
  BY <1>3 DEF vars, client, IInv, TypeOK, Owned, OnlyWholeMessagesHandled, InQueue, WithWorker
<1> QED
  BY <1>1, <1>2, <1>3 DEF Next

(* The invariant holds from the start and is kept.                         *)
LEMMA Invariance == Spec => []IInv
BY InitIInv, NextIInv, PTL DEF Spec

-----------------------------------------------------------------------------
(* No message is handled that was not read to its end, for any pool.       *)
THEOREM WholeMessages == Spec => []OnlyWholeMessagesHandled
<1>1. IInv => OnlyWholeMessagesHandled
  BY DEF IInv
<1> QED
  BY Invariance, <1>1, PTL

(* A set with exactly one way in counts one, and none counts nothing.      *)
LEMMA CountOne ==
    ASSUME NEW S, NEW x \in S, \A y \in S : y = x
    PROVE  Cardinality(S) = 1
<1>1. S = {x}
  OBVIOUS
<1> QED
  BY <1>1, FS_Singleton

(* Owned says what OneOwner counts.                                        *)
LEMMA OwnedIsOneOwner == IInv => OneOwner
<1> SUFFICES ASSUME IInv, NEW p \in Peers
             PROVE  Queued(p) + Served(p) = IF peer[p] \in {"away", "over"} THEN 0 ELSE 1
  BY DEF OneOwner
<1>1. InQueue(p) => Queued(p) = 1
  <2> SUFFICES ASSUME InQueue(p) PROVE Queued(p) = 1
    OBVIOUS
  <2>1. PICK i \in DOMAIN q : q[i] = p
    BY DEF InQueue
  <2>2. \A j \in {j \in DOMAIN q : q[j] = p} : j = i
    BY <2>1 DEF IInv, Owned
  <2> QED
    BY <2>1, <2>2, CountOne DEF Queued
<1>2. WithWorker(p) => Served(p) = 1
  <2> SUFFICES ASSUME WithWorker(p) PROVE Served(p) = 1
    OBVIOUS
  <2>1. PICK w \in Workers : conn[w] = p
    BY DEF WithWorker
  <2>2. \A u \in {u \in Workers : conn[u] = p} : u = w
    BY <2>1, ConnectionsAssumption DEF IInv, Owned
  <2> QED
    BY <2>1, <2>2, CountOne DEF Served
<1>3. ~InQueue(p) => Queued(p) = 0
  <2> SUFFICES ASSUME ~InQueue(p) PROVE Queued(p) = 0
    OBVIOUS
  <2>1. {i \in DOMAIN q : q[i] = p} = {}
    BY DEF InQueue
  <2> QED
    BY <2>1, FS_EmptySet DEF Queued
<1>4. ~WithWorker(p) => Served(p) = 0
  <2> SUFFICES ASSUME ~WithWorker(p) PROVE Served(p) = 0
    OBVIOUS
  <2>1. {w \in Workers : conn[w] = p} = {}
    BY DEF WithWorker
  <2> QED
    BY <2>1, FS_EmptySet DEF Served
<1> QED
  BY <1>1, <1>2, <1>3, <1>4 DEF IInv, Owned

(* An accepted connection has one owner until it has ended, whatever the   *)
(* peers do and however a worker leaves its loop.                          *)
THEOREM OwnedByOne == Spec => []OneOwner
BY Invariance, OwnedIsOneOwner, PTL
=============================================================================
