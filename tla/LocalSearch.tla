----------------------------- MODULE LocalSearch -----------------------------
(***************************************************************************)
(* What the searches of both solvers share: a graph that is changed, the   *)
(* number of its cliques in either colour, and the best graph so far.  A   *)
(* graph is the set of the pairs <<i, j>>, i < j, with value 1: the cells  *)
(* right of the diagonal.                                                  *)
(***************************************************************************)
EXTENDS Integers, FiniteSetsExt

CONSTANTS
    Dims,   \* pairs <<nodes, clique size>>: <<130 and more, 10>>
    Null

ASSUME SearchAssumption ==
    /\ \A d \in Dims : d[1] \in Nat \ {0, 1, 2} /\ d[2] \in Nat \ {0, 1}
    /\ Null \notin Int

VARIABLES
    dim,     \* counter_number or nodeCount, and the size of the cliques
    search,  \* the search that runs
    pc,
    ones,    \* typeOneGraph, graphCopy, matrix: the graph that is changed
    best,    \* g, graph, bestGraph: what the caller gets
    count    \* the cliques to beat: both colours' counts, cliqueCount, bestCount

PairsOf == [d \in Dims |-> {p \in (0 .. d[1] - 1) \X (0 .. d[1] - 1) : p[1] < p[2]}]
Pairs == PairsOf[dim]
Nodes == 0 .. dim[1] - 1

(* A bundle: the pairs inside a set of nodes of the size of a clique.      *)
BundlesOf ==
    [d \in Dims |-> {{p \in PairsOf[d] : p[1] \in S /\ p[2] \in S} :
                        S \in kSubset(d[2], 0 .. d[1] - 1)}]
Bundles == BundlesOf[dim]
NodesOf(B) == UNION {{p[1], p[2]} : p \in B}

(* clique_find_all with one size for minimum and maximum.                  *)
Cliques(edges) == {NodesOf(B) : B \in {C \in Bundles : C \subseteq edges}}

(* FindCliqueCount: nodes in increasing order whose cells all have the     *)
(* value of the first.                                                     *)
FindCliqueCount(h) == Cardinality({B \in Bundles : B \subseteq h \/ B \cap h = {}})

(* CliqueCount of distributed_sys_flip, for the first n nodes: one list    *)
(* length serves both colours, and counting stops one above the count to   *)
(* beat.                                                                   *)
Among(n) == {p \in Pairs : p[2] < n}
CliqueCount(h, n, currentClique) ==
    LET typeOneCount == Min({Cardinality(Cliques(h)), currentClique + 1})
    IN IF typeOneCount > currentClique THEN typeOneCount
       ELSE Min({typeOneCount + Cardinality(Cliques(Among(n) \ h)), currentClique + 1})

Goto(here, there) == pc = here /\ pc' = there

=============================================================================
