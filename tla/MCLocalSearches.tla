--------------------------- MODULE MCLocalSearches ---------------------------
(***************************************************************************)
(* Triangles in all graphs of five nodes, of four where cells are flipped  *)
(* at random, and cliques of four in one graph of eight: node 7 is in most *)
(* cliques of zeros, and of the nodes it meets there no two are in equally *)
(* many.                                                                   *)
(***************************************************************************)
EXTENDS LocalSearches

Four == <<4, 3>>
Five == <<5, 3>>
Eight == <<8, 4>>
SmallDims == {Four, Five, Eight}
NoSeconds == {<<1, 3>>, <<2, 5>>, <<3, 6>>, <<4, 5>>, <<4, 6>>, <<5, 6>>}
SmallStarts ==
    [d \in SmallDims, s \in Searches |->
       IF (d = Five /\ s # "explore") \/ (d = Four /\ s = "explore") THEN SUBSET PairsOf[d]
       ELSE IF d = Eight /\ s # "explore" THEN {NoSeconds} ELSE {}]
=============================================================================
