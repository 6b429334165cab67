-------------------------- MODULE ServerConnections --------------------------
(***************************************************************************)
(* How requests reach a coordinator (ramsey_server.py, startServer and     *)
(* runNewClientConn): connections are accepted into a queue, and the       *)
(* workers of a pool read one message from each.                           *)
(*                                                                         *)
(* A message arrives in chunks.  Of its length only this is kept: nothing, *)
(* a part of the header, the header, all of it.  What is done with a       *)
(* message is RamseyServer's matter; here handling it ends.                *)
(***************************************************************************)
EXTENDS Naturals, Sequences, FiniteSets

CONSTANTS
    Peers,    \* each connects once
    Workers,  \* NUM_OF_THREADS
    Nobody

ASSUME ConnectionsAssumption == Nobody \notin Peers

VARIABLES
    peer,     \* of each connection: away, open, closed or reset by the peer, over
    sent,     \* how much of its message the peer sent, until it is over
    q,        \* accepted connections
    pc, conn,
    data      \* how much of the message the worker has read

client == <<peer, sent>>
vars == <<client, q, pc, conn, data>>

Header == 2
Whole == 3

Init ==
    /\ peer = [p \in Peers |-> "away"] /\ sent = [p \in Peers |-> 0]
    /\ q = <<>>
    /\ pc = [w \in Workers |-> "get"]
    /\ conn = [w \in Workers |-> Nobody] /\ data = [w \in Workers |-> 0]

-----------------------------------------------------------------------------
(* A peer connects, sends piece by piece, and may stop, close or reset.    *)
Accept(p) ==
    /\ peer[p] = "away"
    /\ peer' = [peer EXCEPT ![p] = "open"]
    /\ q' = Append(q, p)
    /\ UNCHANGED <<sent, pc, conn, data>>

Sends(p) ==
    /\ peer[p] = "open"
    /\ \E n \in sent[p] + 1..Whole : sent' = [sent EXCEPT ![p] = n]
    /\ UNCHANGED <<peer, q, pc, conn, data>>

GoesAway(p) ==
    /\ peer[p] = "open"
    /\ \E how \in {"closed", "reset"} : peer' = [peer EXCEPT ![p] = how]
    /\ UNCHANGED <<sent, q, pc, conn, data>>

-----------------------------------------------------------------------------
Get(w) ==
    /\ pc[w] = "get" /\ q # <<>>
    /\ pc' = [pc EXCEPT ![w] = "recv"]
    /\ conn' = [conn EXCEPT ![w] = Head(q)]
    /\ q' = Tail(q)
    /\ UNCHANGED <<client, data>>

(* Four fields must come out of the first chunk; the loop then reads until *)
(* the length in the header is reached.  Slip: one chunk is enough.        *)
ThenOneChunk(n) == IF n < Header THEN "raise" ELSE "handle"
Then(n) == IF n < Header THEN "raise" ELSE IF n < Whole THEN "more" ELSE "handle"

(* recv: a chunk of what was sent, or nothing if the peer closed.  In the  *)
(* loop that is the same state again.                                      *)
Recv(w) ==
    /\ pc[w] \in {"recv", "more"} /\ peer[conn[w]] # "reset"
    /\ \E n \in data[w]..sent[conn[w]] :
          /\ n = data[w] => n = sent[conn[w]] /\ peer[conn[w]] = "closed"
          /\ data' = [data EXCEPT ![w] = n]
          /\ pc' = [pc EXCEPT ![w] = Then(n)]
    /\ UNCHANGED <<client, q, conn>>

(* The worker closes its connection and lets go of it.                     *)
End(w, there) ==
    /\ pc' = [pc EXCEPT ![w] = there]
    /\ peer' = [peer EXCEPT ![conn[w]] = "over"]
    /\ sent' = [sent EXCEPT ![conn[w]] = 0]
    /\ conn' = [conn EXCEPT ![w] = Nobody]
    /\ data' = [data EXCEPT ![w] = 0]
    /\ UNCHANGED q

(* The first recv is not inside the try: the worker ends, its connection   *)
(* with it, and the pool starts another.  Slip: the connection stays open. *)
FirstRecvForgets(w) ==
    /\ pc[w] = "recv" /\ peer[conn[w]] = "reset"
    /\ pc' = [pc EXCEPT ![w] = "dead"]
    /\ conn' = [conn EXCEPT ![w] = Nobody]
    /\ UNCHANGED <<client, q, data>>
FirstRecvRaises(w) == pc[w] = "recv" /\ peer[conn[w]] = "reset" /\ End(w, "dead")

Repopulate(w) ==
    /\ pc[w] = "dead"
    /\ pc' = [pc EXCEPT ![w] = "get"]
    /\ UNCHANGED <<client, q, conn, data>>

(* handleNewCounterExample closes the connection behind its reply, and the *)
(* handler of exceptions closes it too.  Slip: that one stops the worker.  *)
Handle(w) == pc[w] = "handle" /\ End(w, "get")

Raises(w) == \/ pc[w] \in {"raise", "handle"}
             \/ pc[w] = "more" /\ peer[conn[w]] = "reset"
ExceptAndStop(w) == Raises(w) /\ End(w, "stopped")
Except(w) == Raises(w) /\ End(w, "get")

Proceed(w) == \/ Get(w) \/ Recv(w) \/ FirstRecvRaises(w) \/ Repopulate(w)
              \/ Handle(w) \/ Except(w)

Next == \/ \E p \in Peers : Accept(p) \/ Sends(p) \/ GoesAway(p)
        \/ \E w \in Workers : Proceed(w)

Spec == Init /\ [][Next]_vars

(* Workers that can run do run; peers may stop anywhere.                   *)
FairSpec == Spec /\ \A w \in Workers : WF_vars(Proceed(w))

-----------------------------------------------------------------------------
(* The server handles no message it has not read to its end, however it    *)
(* was cut, or whose header came in two pieces.                            *)
OnlyWholeMessagesHandled ==
    \A w \in Workers : pc[w] = "handle" => data[w] = Whole

Queued(p) == Cardinality({i \in DOMAIN q : q[i] = p})
Served(p) == Cardinality({w \in Workers : conn[w] = p})

(* An accepted connection that has not ended is in the queue or with one   *)
(* worker, and none is answered that has ended: no exit from the worker's  *)
(* loop leaves a connection open that nobody will look at again.           *)
OneOwner ==
    \A p \in Peers :
       Queued(p) + Served(p) = IF peer[p] \in {"away", "over"} THEN 0 ELSE 1

(* Waiting for a peer that sends no more, or spinning for one that closed. *)
Stuck(w) ==
    \/ pc[w] = "recv" /\ peer[conn[w]] = "open" /\ sent[conn[w]] = 0
    \/ pc[w] = "more" /\ peer[conn[w]] # "reset" /\ data[w] = sent[conn[w]]
                      /\ sent[conn[w]] < Whole

(* A peer that stalls, breaks off or resets costs the pool one worker at   *)
(* most: as long as not all of them are taken in this way for ever, every  *)
(* connection whose message was sent comes to its end.                     *)
ServedUnlessAllStuck ==
    \/ \A p \in Peers : (sent[p] = Whole) ~> (peer[p] = "over")
    \/ <>[](\A w \in Workers : Stuck(w))
==============================================================================
