--------------------------- MODULE MCRamseyServer ---------------------------
(***************************************************************************)
(* Small instances of the coordinators.  The graphs: "a" and "c" have two  *)
(* cliques, "b" has one, "z" is a counter example for the same number of   *)
(* nodes, and "n" and "y" have one node more, "y" a counter example too.   *)
(* In ForcedAndZero a graph is forced upon a server with one that is as    *)
(* many nodes large, and a counter example takes it to the next number.    *)
(***************************************************************************)
EXTENDS ServerAsCoordinator, TLC

CONSTANTS w1, w2, none

OneWorker == {w1}
TwoWorkers == {w1, w2}
OnServer1 == [w \in Workers |-> 1]
OnBoth == w1 :> 1 @@ w2 :> 2

AllGraphs == {"a", "b", "c", "n", "y", "z"}

Offer(g, n, c) == [num |-> n, count |-> c, graph |-> g]
Narrow == {Offer("b", 1, 1), Offer("a", 1, 2), Offer("n", 2, 2)}
ForcedAndZero == {Offer("b", 1, 1), Offer("c", 1, 2), Offer("y", 2, 0)}
OfferAll == Narrow \cup {Offer("c", 1, 2), Offer("z", 1, 0)}

(* Two edges of value 1 in "a" and "n", one in the others. *)
OnesOf == [g \in AllGraphs |-> IF g \in {"a", "n"} THEN {1, 4} ELSE {2}] @@ none :> {}
=============================================================================
