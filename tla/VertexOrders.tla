---------------------------- MODULE VertexOrders ----------------------------
(***************************************************************************)
(* The vertex orders of reorder.c.  The searches read an order as the      *)
(* sequence of vertices to visit, reorder_graph as the new name of each    *)
(* vertex.                                                                 *)
(***************************************************************************)
EXTENDS CliquerGraph

CONSTANT RANDOM_N    \* bound on the vertices of a graph that is reordered at random

Ident(n) == [i \in 0 .. n - 1 |-> i]
ByReverse(h) == [i \in Vertices(h) |-> h.n - i - 1]

Neighbours(h, v) == {u \in Vertices(h) : IsEdge(h, v, u)}

-----------------------------------------------------------------------------
(* One colour at a time, the vertex of largest degree among those not yet  *)
(* coloured first, the last such vertex on a tie.  degree is -1 or less    *)
(* for a vertex that has its place.                                        *)
AsOrder(seq) == [i \in 0 .. Len(seq) - 1 |-> seq[i + 1]]
Placed(degree, v) == [degree EXCEPT ![v] = -1]
Degrees(h) == [v \in Vertices(h) |-> Cardinality(Neighbours(h, v))]
LargestLast(degree, S) == Max({v \in S : \A u \in S : degree[u] <= degree[v]})

ByUnweightedGreedyColoring(h) ==
    LET Placing[k \in Nat] ==
          IF k = 0 THEN [order |-> <<>>, degree |-> Degrees(h), used |-> {}]
          ELSE LET r == Placing[k - 1]
                   left == {v \in Vertices(h) : r.degree[v] >= 0}
                   used == IF left \subseteq r.used THEN {} ELSE r.used    \* the next colour
                   v == LargestLast(r.degree, left \ used)
               IN IF left = {} THEN r
                  ELSE [order |-> Append(r.order, v), used |-> used \union Neighbours(h, v),
                        degree |-> [u \in Vertices(h) |->
                                      Placed(r.degree, v)[u] - (IF IsEdge(h, v, u) THEN 1 ELSE 0)]]
    IN AsOrder(Placing[h.n].order)

(* The lightest vertex left, among these the one with the heaviest         *)
(* surroundings left, the last on a tie.                                   *)
Lightest(h, left) ==
    LET around(v) == SubgraphWeight(h, Neighbours(h, v) \intersect left)
        light == {v \in left : \A u \in left : h.weights[v] <= h.weights[u]}
    IN Max({v \in light : \A u \in light : around(u) <= around(v)})
ByWeightedGreedyColoring(h) ==
    LET Placing[k \in Nat] ==
          IF k = 0 THEN <<>>
          ELSE LET order == Placing[k - 1]
                   left == Vertices(h) \ ToSet(order)
               IN IF left = {} THEN order ELSE Append(order, Lightest(h, left))
    IN AsOrder(Placing[h.n])

ByDegree(h) ==
    LET Placing[k \in Nat] ==
          IF k = 0 THEN [order |-> <<>>, degree |-> Degrees(h)]
          ELSE LET r == Placing[k - 1]
                   left == {v \in Vertices(h) : r.degree[v] >= 0}
                   v == LargestLast(r.degree, left)
               IN IF left = {} THEN r
                  ELSE [order |-> Append(r.order, v), degree |-> Placed(r.degree, v)]
    IN AsOrder(Placing[h.n].order)

ByGreedyColoring(h, weighted) ==
    IF weighted THEN ByWeightedGreedyColoring(h) ELSE ByUnweightedGreedyColoring(h)

(* reorder_by_random draws until it meets a vertex not drawn before.       *)
RandomOrders(n) == {order \in [0 .. n - 1 -> 0 .. n - 1] : IsBijection(order, n)}

Orders(h) == {Ident(h.n), ByReverse(h), ByDegree(h), ByGreedyColoring(h, TRUE),
              ByGreedyColoring(h, FALSE)}

Reorder ==
    /\ At("idle")
    /\ \E order \in Orders(g) \union (IF g.n <= RANDOM_N THEN RandomOrders(g.n) ELSE {}) :
          Rename(order)

-----------------------------------------------------------------------------
(* A graph that is read back from a file of either format is the graph     *)
(* that was written, and one that is reordered by any of the orders is the *)
(* same graph under other names: every order visits each vertex once.      *)
CopiesAreSame == At("idle") => FilesGiveBack /\ \A order \in Orders(g) : OrderRenames(order)
=============================================================================
