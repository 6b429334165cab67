---------------------------- MODULE CliquerGraph ----------------------------
(***************************************************************************)
(* The sets and graphs of the clique library (set.h, graph.h, graph.c): a  *)
(* set is a largest size and the bits of the words allocated for it, so    *)
(* that a bit beyond the size can stay behind in the last word; a graph    *)
(* has one such set per vertex.  The variable is the graph a caller works  *)
(* on, NoGraph where a function returned NULL.                             *)
(***************************************************************************)
EXTENDS Integers, FiniteSetsExt, SequencesExt

CONSTANTS
    ELEMENTSIZE,  \* bits of a word, 64 in the build
    BYTE,         \* bits of a byte in a binary file, 8
    MAX_N,        \* bound on the vertices of a graph
    WEIGHTS,      \* of vertices
    MAX_WEIGHT,   \* bound on the weight of a graph
    NoGraph

INT_MAX == 2147483647

ASSUME CliquerAssumption ==
    /\ ELEMENTSIZE \in Nat \ {0} /\ BYTE \in Nat \ {0} /\ MAX_N \in Nat \ {0}
    /\ 1 \in WEIGHTS /\ WEIGHTS \subseteq Nat \ {0}
    /\ MAX_WEIGHT \in Nat /\ MAX_WEIGHT < INT_MAX

(* NULL is no graph. *)
ASSUME NoGraphAssumption ==
    \A n \in 0 .. MAX_N :
       NoGraph \notin [n : {n}, edges : [0 .. n - 1 -> [max : Nat, bits : SUBSET Nat]],
                      weights : [0 .. n - 1 -> Nat]]

VARIABLES g, mode    \* mode: "reading" inside graph_read_dimacs_ascii

(* Sets.  The memory of a set of size max is the words up to max / size.   *)
ArrayLength(s) == (s.max + ELEMENTSIZE - 1) \div ELEMENTSIZE
InWords(s, n) == {b \in s.bits : b < n * ELEMENTSIZE}

SetNew(size) == [max |-> size, bits |-> {}]
SetContains(s, v) == v < s.max /\ v \in s.bits
SetAdd(s, v) == [s EXCEPT !.bits = @ \union {v}]
SetDel(s, v) == [s EXCEPT !.bits = @ \ {v}]
SetSize(s) == Cardinality(InWords(s, ArrayLength(s)))
Members(s) == {v \in 0 .. s.max - 1 : SetContains(s, v)}

(* A shift by a whole word shifts by nothing on the machines built for, so *)
(* a size that is a multiple of the word's keeps its last word as it is.   *)
(* Slip: the last word is not cut.                                         *)
SetResizeUncut(s, size) ==
    [max |-> size, bits |-> InWords(s, size \div ELEMENTSIZE + 1)]
SetResize(s, size) ==
    LET n == size \div ELEMENTSIZE + 1
        allocated == InWords(s, n)
        zeroed == IF n > ArrayLength(s) THEN InWords(s, ArrayLength(s)) ELSE allocated
        last == (size - 1) \div ELEMENTSIZE
        shift == (ELEMENTSIZE - (size % ELEMENTSIZE)) % ELEMENTSIZE
        cut == {b \in zeroed : \/ b \div ELEMENTSIZE # last
                               \/ b % ELEMENTSIZE < ELEMENTSIZE - shift}
    IN [max |-> size, bits |-> IF size < s.max THEN cut ELSE zeroed]

(* The smallest member above n, or -1: bit by bit to the end of a word,    *)
(* word by word over empty words, bit by bit again.                        *)
FirstOf(S) == IF S = {} THEN -1 ELSE Min(S)
SetReturnNext(s, n) ==
    LET first == IF n < 0 THEN 0 ELSE n + 1
        boundary == ((first + ELEMENTSIZE - 1) \div ELEMENTSIZE) * ELEMENTSIZE
        near == {v \in first .. boundary - 1 : SetContains(s, v)}
        word == FirstOf({w \in boundary .. s.max - 1 :
                           w % ELEMENTSIZE = 0 /\ s.bits \intersect (w .. w + ELEMENTSIZE - 1) # {}})
        far == {v \in word .. s.max - 1 : SetContains(s, v)}
    IN IF near # {} THEN Min(near)
       ELSE IF boundary >= s.max \/ word = -1 THEN -1
       ELSE FirstOf(far)

-----------------------------------------------------------------------------
(* Graphs. *)
Vertices(h) == 0 .. h.n - 1
GraphNew(n) == [n |-> n, edges |-> [i \in 0 .. n - 1 |-> SetNew(n)],
                weights |-> [i \in 0 .. n - 1 |-> 1]]
IsEdge(h, i, j) == i < h.n /\ SetContains(h.edges[i], j)
AddEdge(h, i, j) ==
    LET once == [h EXCEPT !.edges[i] = SetAdd(@, j)]
    IN [once EXCEPT !.edges[j] = SetAdd(@, i)]
DelEdge(h, i, j) ==
    LET once == [h EXCEPT !.edges[i] = SetDel(@, j)]
    IN [once EXCEPT !.edges[j] = SetDel(@, i)]

GraphResize(h, size) ==
    IF h.n = size THEN h
    ELSE [n |-> size,
          edges |-> [i \in 0 .. size - 1 |-> IF i < h.n THEN SetResize(h.edges[i], size)
                                             ELSE SetNew(size)],
          weights |-> [i \in 0 .. size - 1 |-> IF i < h.n THEN h.weights[i] ELSE 1]]

WithEdges(h) == {v \in 1 .. h.n - 1 : SetSize(h.edges[v]) > 0}
GraphCrop(h) == GraphResize(h, Max({0} \union WithEdges(h)) + 1)

GraphWeighted(h) == \E i \in Vertices(h) : h.weights[i] # h.weights[0]
EdgeCount(h) ==
    LET degree == [i \in Vertices(h) |-> SetSize(h.edges[i])]
    IN MapThenSumSet(LAMBDA i : degree[i], Vertices(h)) \div 2
SubgraphWeight(h, S) == MapThenSumSet(LAMBDA i : h.weights[i], S)

GraphTest(h) ==
    /\ h # NoGraph
    /\ \A i \in Vertices(h) :
          /\ h.edges[i].max >= h.n
          /\ \A j \in Vertices(h) \intersect h.edges[i].bits :
                i # j /\ i \in h.edges[j].bits
          /\ \A j \in InWords(h.edges[i], ArrayLength(h.edges[i])) : j < h.n
          /\ h.weights[i] > 0
    /\ SubgraphWeight(h, Vertices(h)) < INT_MAX

-----------------------------------------------------------------------------
(* Reordering.  An order is a function on 0 .. n - 1. *)
IsBijection(order, n) ==
    /\ \A i \in 0 .. n - 1 : order[i] \in 0 .. n - 1
    /\ \A i, j \in 0 .. n - 1 : order[i] = order[j] => i = j

Invert(order, n) == [v \in 0 .. n - 1 |-> CHOOSE i \in 0 .. n - 1 : order[i] = v]
ReverseOrder(order, n) == [i \in 0 .. n - 1 |-> n - 1 - order[i]]

(* Words below the last are renamed whole and the last up to the size; the *)
(* copy back leaves alone what lies behind the words of the set.  Slip:    *)
(* the last, partial word is left out.                                     *)
ReorderSetWhole(s, order) ==
    [s EXCEPT !.bits = {order[b] : b \in InWords(s, s.max \div ELEMENTSIZE)}
                       \union (@ \ InWords(s, ArrayLength(s)))]
ReorderSet(s, order) ==
    [s EXCEPT !.bits = {order[b] : b \in Members(s)} \union (@ \ InWords(s, ArrayLength(s)))]
ReorderGraph(h, order) ==
    LET old == Invert(order, h.n)
    IN [n |-> h.n,
        edges |-> [v \in Vertices(h) |-> ReorderSet(h.edges[old[v]], order)],
        weights |-> [v \in Vertices(h) |-> h.weights[old[v]]]]

-----------------------------------------------------------------------------
(* Files.  A line is its one-letter field with its numbers; a line that    *)
(* has another shape is bad, and every other field is passed over.         *)
Other == [field |-> "other"]
Bad == [field |-> "bad"]
Problem(n) == [field |-> "p", n |-> n]
Node(i, w) == [field |-> "n", i |-> i, w |-> w]
Edge(i, j) == [field |-> "e", i |-> i, j |-> j]

Blank == [n |-> 0, edges |-> <<>>, weights |-> <<>>]

(* Slip: an edge of a vertex to itself is added like any other.            *)
EdgeLineReflexive(h, i, j) ==
    IF i \in 1 .. h.n /\ j \in 1 .. h.n THEN AddEdge(h, i - 1, j - 1) ELSE NoGraph
EdgeLine(h, i, j) ==
    IF i \notin 1 .. h.n \/ j \notin 1 .. h.n THEN NoGraph
    ELSE IF i = j THEN h
    ELSE AddEdge(h, i - 1, j - 1)

ParseInput(h, line) ==
    IF h = NoGraph THEN NoGraph
    ELSE CASE line.field = "bad" -> NoGraph
           [] line.field = "other" -> h
           [] line.field = "p" -> IF h.n # 0 \/ line.n <= 0 THEN NoGraph ELSE GraphNew(line.n)
           [] line.field = "n" -> IF line.i \notin 1 .. h.n \/ line.w <= 0 THEN NoGraph
                                  ELSE [h EXCEPT !.weights[line.i - 1] = line.w]
           [] line.field = "e" -> EdgeLine(h, line.i, line.j)

ReadLines(lines) ==
    LET Read[k \in 0 .. Len(lines)] ==
          IF k = 0 THEN Blank ELSE ParseInput(Read[k - 1], lines[k])
    IN Read[Len(lines)]
ReadEnd(h) == IF h.n <= 0 THEN NoGraph ELSE h
ReadAscii(lines) == LET h == ReadLines(lines) IN IF h = NoGraph THEN h ELSE ReadEnd(h)

Header(h) ==
    LET Written[k \in 0 .. h.n] ==
          IF k = 0 THEN <<Problem(h.n)>>
          ELSE IF h.weights[k - 1] = 1 THEN Written[k - 1]
          ELSE Append(Written[k - 1], Node(k, h.weights[k - 1]))
    IN Written[h.n]

(* The pairs of vertices row by row, those with the second below the first *)
(* are written and read.                                                   *)
Row(n, k) == (k - 1) \div n
Column(n, k) == (k - 1) % n
WriteAscii(h) ==
    LET Written[k \in 0 .. h.n * h.n] ==
          IF k = 0 THEN Header(h)
          ELSE LET i == Row(h.n, k)
                   j == Column(h.n, k)
               IN IF j < i /\ IsEdge(h, i, j) THEN Append(Written[k - 1], Edge(i + 1, j + 1))
                  ELSE Written[k - 1]
    IN Written[h.n * h.n]

(* Row i of a binary file has i / 8 + 1 bytes, the first vertex in the     *)
(* highest bit.                                                            *)
RowBytes(i) == i \div BYTE + 1
BitOf(j) == (j \div BYTE) * BYTE + (BYTE - 1 - (j % BYTE))
WriteBinary(h) ==
    [preamble |-> Header(h),
     rows |-> [i \in Vertices(h) |->
                 {b \in 0 .. RowBytes(i) * BYTE - 1 :
                    \E j \in 0 .. i - 1 : IsEdge(h, i, j) /\ b = BitOf(j)}]]
ReadBinary(file) ==
    LET h == ReadAscii(file.preamble)
        Read[k \in 0 .. h.n * h.n] ==
          IF k = 0 THEN h
          ELSE LET i == Row(h.n, k)
                   j == Column(h.n, k)
               IN IF j < i /\ BitOf(j) \in file.rows[i] THEN AddEdge(Read[k - 1], i, j)
                  ELSE Read[k - 1]
    IN IF h = NoGraph \/ DOMAIN file.rows # Vertices(h) THEN NoGraph ELSE Read[h.n * h.n]

-----------------------------------------------------------------------------
(* What a caller does with a graph between searches. *)
GraphInit == g = NoGraph /\ mode = "idle"

Bounded(h) == h # NoGraph => SubgraphWeight(h, Vertices(h)) \in 0 .. MAX_WEIGHT
New(n) ==
    /\ mode = "idle" /\ g = NoGraph /\ Bounded(GraphNew(n))
    /\ g' = GraphNew(n) /\ UNCHANGED mode
Edit(h) == mode = "idle" /\ g # NoGraph /\ Bounded(h) /\ g' = h /\ UNCHANGED mode
Change ==
    /\ g # NoGraph
    /\ \/ \E i, j \in Vertices(g) : i # j /\ Edit(AddEdge(g, i, j))
       \/ \E i, j \in Vertices(g) : i # j /\ Edit(DelEdge(g, i, j))
       \/ \E i \in Vertices(g), w \in WEIGHTS : Edit([g EXCEPT !.weights[i] = w])
Resize == \E size \in 1 .. MAX_N : Edit(GraphResize(g, size))
Rename(order) ==    \* the guard is reorder_graph's assertion
    /\ g # NoGraph /\ IsBijection(order, g.n)
    /\ Edit(ReorderGraph(g, order))
Crop == g # NoGraph /\ Edit(GraphCrop(g))

StartReading == mode = "idle" /\ mode' = "reading" /\ g' = Blank
Lines == {Other, Bad} \union {Problem(n) : n \in 0 .. MAX_N}
         \union {Node(i, w) : i \in 0 .. MAX_N + 1, w \in WEIGHTS \union {0}}
         \union {Edge(i, j) : i, j \in 0 .. MAX_N + 1}
ReadLine(line) ==
    /\ mode = "reading"
    /\ Bounded(ParseInput(g, line)) /\ g' = ParseInput(g, line)
    /\ mode' = IF g' = NoGraph THEN "idle" ELSE "reading"
EndOfFile == mode = "reading" /\ mode' = "idle" /\ g' = ReadEnd(g)

GraphNext ==
    \/ \E n \in 1 .. MAX_N : New(n)
    \/ Change \/ Resize \/ Crop
    \/ StartReading \/ EndOfFile
    \/ \E line \in Lines : ReadLine(line)

-----------------------------------------------------------------------------
(* All that may happen to a graph: a search leaves it as it is.            *)
Searching == mode # "reading" /\ mode' # "reading" /\ UNCHANGED g
GraphSpec ==
    GraphInit /\ [][GraphNext \/ Searching \/ \E order : Rename(order)]_<<g, mode>>

At(place) == mode = place /\ g # NoGraph

(* A graph that was built, resized, cropped, reordered or read in any      *)
(* order passes graph_test: symmetric, without loops, with no bit left     *)
(* behind beyond its vertices where the words of its sets are counted.     *)
(* Resizing it keeps exactly the edges and weights among the vertices that *)
(* stay, cropping takes away isolated vertices only and all that are last, *)
(* and walking the set of a vertex meets each neighbour once and in order, *)
(* wherever the words end (graph_resize, graph_crop, set_return_next).     *)
Same(h, k, n) ==
    \A i \in 0 .. n - 1 :
       /\ h.weights[i] = k.weights[i]
       /\ \A j \in 0 .. n - 1 : IsEdge(h, i, j) = IsEdge(k, i, j)
Resized(h, size) ==
    /\ h.n = size /\ Same(g, h, Min({size, g.n}))
    /\ \A i \in g.n .. size - 1 : Members(h.edges[i]) = {}
Cropped(h) ==
    /\ Same(g, h, h.n)
    /\ \A i \in h.n .. g.n - 1 : Members(g.edges[i]) = {}
    /\ h.n > 1 => Members(h.edges[h.n - 1]) # {}
GraphsStayWhole ==
    /\ (At("idle") \/ (mode = "reading" /\ g.n > 0)) => GraphTest(g)
    /\ At("idle") =>
         /\ \A size \in 1 .. MAX_N : Resized(GraphResize(g, size), size)
         /\ Cropped(GraphCrop(g))
         /\ \A i \in Vertices(g), n \in -1 .. MAX_N - 1 :
               SetReturnNext(g.edges[i], n) = FirstOf({v \in Members(g.edges[i]) : v > n})

(* A graph that is renamed by an order that visits each vertex once (the   *)
(* assertion of the searches and of reorder_graph) is the same graph under *)
(* other names, and inverting the order takes its names back.              *)
OrderRenames(order) ==
    /\ IsBijection(order, g.n)
    /\ IsBijection(ReverseOrder(order, g.n), g.n)
    /\ LET h == ReorderGraph(g, order)
       IN /\ \A i \in Vertices(g) : /\ h.weights[order[i]] = g.weights[i]
                                    /\ {order[j] : j \in Members(g.edges[i])}
                                         = Members(h.edges[order[i]])
          /\ Same(g, ReorderGraph(h, Invert(order, g.n)), g.n)

Below(h) == {p \in Vertices(h) \X Vertices(h) : p[2] < p[1]}

(* Both formats give back the graph that was written (the readers and      *)
(* writers of graph.c), whose edges are counted as there are.              *)
FilesGiveBack ==
    /\ EdgeCount(g) = Cardinality({p \in Below(g) : IsEdge(g, p[1], p[2])})
    /\ \A h \in {ReadAscii(WriteAscii(g)), ReadBinary(WriteBinary(g))} :
          h # NoGraph /\ h.n = g.n /\ Same(g, h, g.n)
=============================================================================
