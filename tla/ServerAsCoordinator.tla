------------------------- MODULE ServerAsCoordinator -------------------------
(***************************************************************************)
(* One server with one worker, whose statements do not fail, does what     *)
(* Coordinator says.  A request takes effect when updateState decides to   *)
(* accept it, before the memory is changed, or when handleNewCounterExample*)
(* turns it down; the index it is given counts as dealt from then on.      *)
(***************************************************************************)
EXTENDS RamseyServer

CONSTANT MAX_LEFT  \* edges of value 1 that one server may get of a graph

ASSUME LeftAssumption ==
    /\ MAX_LEFT \in Nat
    /\ \A g \in Graphs \cup {NoGraph}, s \in Servers :
          /\ IsFiniteSet(Ones[g])
          /\ Cardinality(Share(Ones[g], s)) <= MAX_LEFT

Worker == CHOOSE w \in Workers : TRUE
Server == Host[Worker]

Best == IF pc[Worker] \in Inside THEN job[Worker] ELSE Entry(Server)

(* The index queue as it is, or as it will be filled. *)
Dealable ==
    IF pc[Worker] \in {"setNum", "setBest", "setGraph", "fillQueue"}
    THEN IndexesFor(job[Worker], Server) ELSE queue[Server]

AboutToDeal ==
    /\ wants[Worker] /\ Dealable # {}
    /\ pc[Worker] \in Inside \cup {"postOnSlack", "createFile", "refresh", "rowNewer",
                                   "rowBetter", "rowSame", "takeIndex"}

Left == Cardinality(Dealable) - (IF AboutToDeal THEN 1 ELSE 0)

C == INSTANCE Coordinator WITH coord <- Best, left <- Left

(* One server that serves one request at a time implements the coordinator *)
(* that clients rely on: its chain of unlocked tests, the test under the   *)
(* lock, the piecewise update and the reply amount to one atomic step.     *)
ImplementsCoordinator == C!CoordinatorSpec
==============================================================================
