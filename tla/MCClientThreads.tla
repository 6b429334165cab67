--------------------------- MODULE MCClientThreads ---------------------------
(***************************************************************************)
(* Small instances of the solver.  A graph <<n, c, i>> has n nodes and c   *)
(* cliques; i tells two such graphs apart.                                 *)
(***************************************************************************)
EXTENDS ClientThreads

CONSTANTS t0, t1

OneThread == {t0}
TwoThreads == {t0, t1}

Fewest == {<<2, 0, 1>>, <<2, 1, 1>>, <<3, 1, 1>>}
Few == {<<2, 0, 1>>, <<2, 1, 1>>, <<3, 1, 1>>, <<4, 1, 1>>}
Many == Few \cup {<<1, 0, 1>>, <<2, 1, 2>>, <<2, 2, 1>>, <<3, 0, 1>>, <<3, 2, 1>>, <<4, 0, 1>>}

NodesOf == [g \in Graphs |-> g[1]]
OffersOf == {[num |-> g[1], count |-> g[2], graph |-> g] : g \in Graphs}
CliquesOf == [g \in Graphs |-> g[2]]
==============================================================================
