---------------------------- MODULE PhaseSearches ----------------------------
(***************************************************************************)
(* What findCounterExample does to the coordinator's graph before it sends *)
(* one.  "explore": cells of it are flipped at random.  "embed": it is a   *)
(* counter example and gets two more nodes, one after the other; the last  *)
(* column is filled at random, several times over, and the best is kept.   *)
(*                                                                         *)
(* best is the array graph and ones the array temp, which has the cells    *)
(* that were flipped in it, or the graph whose last column is filled.      *)
(***************************************************************************)
EXTENDS LocalSearch

CONSTANT TURNS   \* a tenth of the nodes
ASSUME PhaseAssumption == TURNS \in Nat

VARIABLES
    source,   \* out_matrix
    nodes,    \* nodeCount
    turn, embeds,
    outside   \* the arrays with a value in the word before them
phaseVars == <<source, nodes, turn, embeds, outside>>

Resting == source = {} /\ nodes = 0 /\ turn = 0 /\ embeds = 0 /\ outside = {}

INT_MAX == Cardinality(Bundles)   \* no graph has more cliques

-----------------------------------------------------------------------------
ExploreInit ==
    /\ search = "explore" /\ pc = "explore"
    /\ source = ones /\ best = ones
    /\ nodes = dim[1] /\ count = CliqueCount(ones, nodes, INT_MAX)
    /\ turn = 0 /\ embeds = 0 /\ outside = {}

Toggled(h, p) == IF p \in h THEN h \ {p} ELSE h \union {p}

(* randomFlip draws until it meets a cell it has not had; the array temp   *)
(* is empty at first.                                                      *)
randomFlip(flipped) ==
    \E p \in Pairs \ flipped :
       LET h == Toggled(best, p)
           newCount == CliqueCount(h, nodes, count)
           keep == newCount <= count
       IN /\ best' = IF keep THEN h ELSE best
          /\ count' = IF keep THEN newCount ELSE count
          /\ ones' = flipped \union {p}

RandomExplore ==
    /\ Goto("explore", "explore")
    /\ turn < nodes /\ (turn = 0 \/ count # 0)
    /\ randomFlip(IF turn = 0 THEN {} ELSE ones)
    /\ turn' = turn + 1
    /\ UNCHANGED <<source, nodes, embeds, outside>>

-----------------------------------------------------------------------------
EmbedInit ==
    /\ search = "embed" /\ pc = "embed"
    /\ nodes = dim[1] - 1
    /\ ones \subseteq Among(nodes - 1) /\ CliqueCount(ones, nodes - 1, INT_MAX) = 0
    /\ source = ones /\ best = ones /\ count = 0
    /\ turn = 0 /\ embeds = 0 /\ outside \in SUBSET {"graph", "temp"}

(* The cells of the last column are found from the first one of the next   *)
(* row, and the word before the array from the first row.                  *)
LastColumn(n) == {<<r, n - 1>> : r \in 0 .. n - 2}
Half(n) == (n - 1) \div 2
permuteLastColumn(h, n, array) ==
    LET free == (LastColumn(n) \ h) \union (IF array \in outside THEN {} ELSE {Null})
    IN kSubset(Half(n), free)
With(h, K) == h \union (K \ {Null})
Marked(K, array) == IF Null \in K THEN outside \union {array} ELSE outside

(* Slip: the loop over the rows ends one early.                            *)
wipeLastColumnShort(h, n) == h \ {<<r - 1, n - 1>> : r \in 1 .. n - 2}
wipeLastColumn(h, n) == h \ {<<r - 1, n - 1>> : r \in 1 .. n - 1}

(* graph and temp get the graph so far and an empty column.                *)
Embed ==
    /\ Goto("embed", "fill")
    /\ \E K \in permuteLastColumn(ones, nodes, "graph") :
          best' = With(ones, K) /\ outside' = Marked(K, "graph")
    /\ count' = CliqueCount(best', nodes, INT_MAX)
    /\ turn' = 0
    /\ UNCHANGED <<ones, source, nodes, embeds>>

(* A filling without cliques ends the loop before temp is wiped.           *)
Fill ==
    /\ Goto("fill", "fill")
    /\ turn < TURNS
    /\ \E K \in permuteLastColumn(ones, nodes, "temp") :
          LET h == With(ones, K)
              try_permute_clique == CliqueCount(h, nodes, count)
              better == try_permute_clique < count
          IN /\ best' = IF better THEN h ELSE best
             /\ count' = IF better THEN try_permute_clique ELSE count
             /\ \/ /\ count' = 0
                   /\ ones' = h /\ outside' = Marked(K, "temp") /\ turn' = TURNS
                \/ /\ count' # 0
                   /\ ones' = wipeLastColumn(h, nodes)
                   /\ outside' = outside \ {"temp"} /\ turn' = turn + 1
    /\ UNCHANGED <<source, nodes, embeds>>

Embedded ==
    /\ Goto("fill", IF embeds = 1 THEN "offer" ELSE "embed")
    /\ turn = TURNS
    /\ embeds' = embeds + 1
    /\ nodes' = IF embeds = 1 THEN nodes ELSE nodes + 1
    /\ ones' = best
    /\ UNCHANGED <<best, count, source, turn, outside>>

ExploreEnds == turn = nodes \/ (turn > 0 /\ count = 0)
Offer ==
    /\ \/ Goto("explore", "done") /\ ExploreEnds
       \/ Goto("offer", "done")
    /\ UNCHANGED <<ones, best, count, phaseVars>>

Phases == RandomExplore \/ Embed \/ Fill \/ Embedded \/ Offer

-----------------------------------------------------------------------------
(* What is offered is what was counted: the claim is the graph's number of *)
(* cliques, though it was counted under a cap, in two arrays that are      *)
(* copied to and fro.  An explored graph has no more of them than it came  *)
(* with; an embedded one has the counter example in it, and each new node  *)
(* is joined to half of the others, or to one less where the word before   *)
(* the array took an edge.                                                 *)
OffersAreCounted ==
    /\ search \in {"explore", "embed"} /\ pc # "embed" =>
          count = CliqueCount(best, nodes, INT_MAX)
    /\ search = "explore" => count <= CliqueCount(source, nodes, INT_MAX)
    /\ search = "embed" =>
          /\ best \intersect Among(dim[1] - 2) = source
          /\ \A n \in dim[1] - 1 .. (IF pc = "embed" THEN nodes - 1 ELSE nodes) :
                Cardinality(best \intersect LastColumn(n)) \in {Half(n) - 1, Half(n)}
=============================================================================
