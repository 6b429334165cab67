-------------------------- MODULE LocalSearchProofs --------------------------
(***************************************************************************)
(* What holds of the local searches for any number of nodes, any size of   *)
(* cliques and any graphs to start from.                                   *)
(***************************************************************************)
EXTENDS LocalSearches, FiniteSetTheorems, FunctionTheorems, TLAPS

-----------------------------------------------------------------------------
(* Least elements, without which First, Min and Max pick nothing.          *)

(* A finite set has a least element by any transitive and irreflexive      *)
(* relation: one below which there are fewest.                             *)
LEMMA LeastExists ==
    ASSUME NEW T, IsFiniteSet(T), T # {}, NEW R,
           \A x \in T : <<x, x>> \notin R,
           \A x, y, z \in T : <<x, y>> \in R /\ <<y, z>> \in R => <<x, z>> \in R
    PROVE  \E x \in T : \A y \in T : <<y, x>> \notin R
<1> DEFINE Below(x) == {y \in T : <<y, x>> \in R}
           K == {Below(x) : x \in T}
<1>1. K \subseteq FiniteSubsetsOf(T)
  BY FS_Subset DEF FiniteSubsetsOf
<1>2. K # {}
  <2>1. \A x \in T : Below(x) \in K
    OBVIOUS
  <2> HIDE DEF Below, K
  <2> QED  BY <2>1
<1>3. PICK b \in K : \A c \in K : <<c, b>> \notin StrictSubsetOrdering(T)
  <2> HIDE DEF K
  <2> QED  BY <1>1, <1>2, FS_StrictSubsetOrderingWellFounded, WFMin
<1>4. PICK x \in T : b = Below(x)
  BY <1>3
<1>5. ASSUME NEW y \in T, <<y, x>> \in R PROVE FALSE
  <2>1. Below(y) \subseteq Below(x) /\ y \in Below(x) /\ y \notin Below(y)
    BY <1>5
  <2>2. <<Below(y), Below(x)>> \in StrictSubsetOrdering(T)
    BY <2>1 DEF StrictSubsetOrdering
  <2> QED  BY <1>3, <1>4, <2>2
<1> QED  BY <1>5

(* Min and Max of finite sets of numbers.                                  *)
LEMMA MinIs ==
    ASSUME NEW T, IsFiniteSet(T), T # {}, T \subseteq Int
    PROVE  Min(T) \in T /\ \A y \in T : Min(T) <= y
<1> DEFINE R == {p \in T \X T : p[1] < p[2]}
<1>1. PICK x \in T : \A y \in T : <<y, x>> \notin R
  <2>1. \A a \in T : <<a, a>> \notin R
    OBVIOUS
  <2>2. \A a, b, c \in T : <<a, b>> \in R /\ <<b, c>> \in R => <<a, c>> \in R
    OBVIOUS
  <2> HIDE DEF R
  <2> QED  BY <2>1, <2>2, LeastExists
<1>2. ASSUME NEW y \in T PROVE x <= y
  <2>1. <<y, x>> \in T \X T /\ <<y, x>> \notin R
    BY <1>1, <1>2
  <2>2. ~(y < x)
    BY <2>1
  <2> QED  BY <2>2
<1> QED  BY <1>2 DEF Min

LEMMA MaxIs ==
    ASSUME NEW T, IsFiniteSet(T), T # {}, T \subseteq Int
    PROVE  Max(T) \in T /\ \A y \in T : Max(T) >= y
<1> DEFINE R == {p \in T \X T : p[1] > p[2]}
<1>1. PICK x \in T : \A y \in T : <<y, x>> \notin R
  <2>1. \A a \in T : <<a, a>> \notin R
    OBVIOUS
  <2>2. \A a, b, c \in T : <<a, b>> \in R /\ <<b, c>> \in R => <<a, c>> \in R
    OBVIOUS
  <2> HIDE DEF R
  <2> QED  BY <2>1, <2>2, LeastExists
<1>2. ASSUME NEW y \in T PROVE x >= y
  <2>1. <<y, x>> \in T \X T /\ <<y, x>> \notin R
    BY <1>1, <1>2
  <2>2. ~(y > x)
    BY <2>1
  <2> QED  BY <2>2
<1> QED  BY <1>2 DEF Max

LEMMA MinOfTwo ==
    ASSUME NEW a \in Int, NEW b \in Int
    PROVE  Min({a, b}) = IF a <= b THEN a ELSE b
BY DEF Min

-----------------------------------------------------------------------------
(* Cliques.  A bundle is known by its nodes, so that listing node sets and *)
(* counting bundles come to the same.                                      *)
LEMMA FiniteDims ==
    ASSUME dim \in Dims
    PROVE  /\ dim[1] \in Nat \ {0, 1, 2} /\ dim[2] \in Nat \ {0, 1}
           /\ IsFiniteSet(Nodes)
           /\ Pairs = {p \in Nodes \X Nodes : p[1] < p[2]} /\ IsFiniteSet(Pairs)
           /\ IsFiniteSet(Bundles) /\ Bundles \subseteq SUBSET Pairs
<1>1. dim[1] \in Nat \ {0, 1, 2} /\ dim[2] \in Nat \ {0, 1}
  BY SearchAssumption
<1>2. IsFiniteSet(Nodes)
  BY <1>1, FS_Interval DEF Nodes
<1>3. Pairs = {p \in Nodes \X Nodes : p[1] < p[2]}
  BY DEF Pairs, PairsOf, Nodes
<1>4. IsFiniteSet(Nodes \X Nodes)
  BY <1>2, FS_Product
<1>5. IsFiniteSet(Pairs)
  BY <1>3, <1>4, FS_Subset
<1>6. Bundles \subseteq SUBSET Pairs
  BY DEF Bundles, BundlesOf, Pairs
<1>7. IsFiniteSet(Bundles)
  BY <1>5, <1>6, FS_SUBSET, FS_Subset
<1> QED  BY <1>1, <1>2, <1>3, <1>5, <1>6, <1>7

(* The pairs inside a set of two nodes or more meet all of its nodes.      *)
PairsIn(S) == {p \in Pairs : p[1] \in S /\ p[2] \in S}
LEMMA NodesOfPairs ==
    ASSUME dim \in Dims, NEW S \in kSubset(dim[2], Nodes)
    PROVE  NodesOf(PairsIn(S)) = S
<1>1. S \subseteq Nodes /\ IsFiniteSet(S) /\ Cardinality(S) >= 2
  BY FiniteDims, FS_Subset DEF kSubset
<1>2. ASSUME NEW v \in S PROVE v \in NodesOf(PairsIn(S))
  <2>1. S # {v}
    BY <1>1, FS_Singleton
  <2>2. PICK u \in S : u # v
    BY <2>1
  <2>3. v \in Int /\ u \in Int
    BY <1>1, FiniteDims DEF Nodes
  <2>4. CASE u < v
    <3>1. <<u, v>> \in PairsIn(S)
      BY <1>1, <2>4, FiniteDims DEF PairsIn
    <3> QED  BY <3>1 DEF NodesOf
  <2>5. CASE v < u
    <3>1. <<v, u>> \in PairsIn(S)
      BY <1>1, <2>5, FiniteDims DEF PairsIn
    <3> QED  BY <3>1 DEF NodesOf
  <2> QED  BY <2>2, <2>3, <2>4, <2>5
<1>3. NodesOf(PairsIn(S)) \subseteq S
  BY DEF NodesOf, PairsIn
<1> QED  BY <1>2, <1>3

LEMMA BundleOf ==
    ASSUME dim \in Dims, NEW B \in Bundles
    PROVE  /\ NodesOf(B) \in kSubset(dim[2], Nodes)
           /\ B = PairsIn(NodesOf(B))
           /\ B # {}
<1>1. PICK S \in kSubset(dim[2], Nodes) : B = PairsIn(S)
  BY DEF Bundles, BundlesOf, PairsIn, Pairs, Nodes
<1>2. NodesOf(B) = S
  BY <1>1, NodesOfPairs
<1>3. S # {}
  BY FiniteDims, FS_EmptySet DEF kSubset
<1>4. B # {}
  BY <1>2, <1>3 DEF NodesOf
<1> QED  BY <1>1, <1>2, <1>4

Inside(edges) == {B \in Bundles : B \subseteq edges}

LEMMA CliquesCounted ==
    ASSUME dim \in Dims, NEW edges
    PROVE  /\ Cliques(edges) = {NodesOf(B) : B \in Inside(edges)}
           /\ IsFiniteSet(Inside(edges)) /\ IsFiniteSet(Cliques(edges))
           /\ Cardinality(Cliques(edges)) = Cardinality(Inside(edges))
           /\ Cardinality(Cliques(edges)) \in Nat
<1> DEFINE f == [B \in Inside(edges) |-> NodesOf(B)]
<1>1. Cliques(edges) = {NodesOf(B) : B \in Inside(edges)}
  BY DEF Cliques, Inside
<1>2. IsFiniteSet(Inside(edges))
  BY FiniteDims, FS_Subset DEF Inside
<1>3. f \in Bijection(Inside(edges), Cliques(edges))
  <2>1. f \in [Inside(edges) -> Cliques(edges)]
    BY <1>1
  <2>2. \A B, C \in Inside(edges) : f[B] = f[C] => B = C
    <3>1. \A B, C \in Inside(edges) : NodesOf(B) = NodesOf(C) => B = C
      BY BundleOf DEF Inside
    <3> QED  BY <3>1
  <2>3. \A S \in Cliques(edges) : \E B \in Inside(edges) : f[B] = S
    BY <1>1
  <2> HIDE DEF f
  <2> QED  BY <2>1, <2>2, <2>3, Fun_IsBij
<1>4. ExistsBijection(Inside(edges), Cliques(edges))
  BY <1>3 DEF ExistsBijection
<1> QED  BY <1>1, <1>2, <1>4, FS_Bijection, FS_CardinalityType

(* What a graph has of either colour among its first n nodes.              *)
Real(h, n) == Cardinality(Cliques(h)) + Cardinality(Cliques(Among(n) \ h))
Mono(h, n) == Inside(h) \union Inside(Among(n) \ h)

LEMMA RealCounts ==
    ASSUME dim \in Dims, NEW h, NEW n
    PROVE  /\ Real(h, n) = Cardinality(Mono(h, n))
           /\ Real(h, n) \in Nat /\ INT_MAX \in Nat /\ Real(h, n) <= INT_MAX
<1> DEFINE X == Inside(h)
           Y == Inside(Among(n) \ h)
<1>1. X \cap Y = {}
  BY BundleOf DEF Inside
<1>2. IsFiniteSet(X) /\ IsFiniteSet(Y)
  BY CliquesCounted
<1>3. Cardinality(X \cup Y) = Cardinality(X) + Cardinality(Y)
  <2> HIDE DEF X, Y
  <2>1. Cardinality(X \cup Y) = Cardinality(X) + Cardinality(Y) - Cardinality(X \cap Y)
    BY <1>2, FS_Union
  <2>2. Cardinality(X \cap Y) = 0
    BY <1>1, FS_EmptySet
  <2>3. Cardinality(X) \in Nat /\ Cardinality(Y) \in Nat
    BY <1>2, FS_CardinalityType
  <2> QED  BY <2>1, <2>2, <2>3
<1>4. Mono(h, n) \subseteq Bundles
  BY DEF Mono, Inside
<1>5. IsFiniteSet(Bundles)
  BY FiniteDims
<1>6. Cardinality(Mono(h, n)) <= INT_MAX /\ INT_MAX \in Nat
  BY <1>4, <1>5, FS_Subset, FS_CardinalityType DEF INT_MAX
<1> QED  BY <1>3, <1>6, CliquesCounted DEF Real, Mono

(* FindCliqueCount counts both colours.                                    *)
LEMMA FindIsReal ==
    ASSUME dim \in Dims, NEW h
    PROVE  FindCliqueCount(h) = Real(h, dim[1])
<1>1. Among(dim[1]) = Pairs
  BY FiniteDims DEF Among, Nodes
<1>2. {B \in Bundles : B \subseteq h \/ B \cap h = {}} = Mono(h, dim[1])
  BY <1>1, FiniteDims DEF Mono, Inside
<1> QED  BY <1>2, RealCounts DEF FindCliqueCount

(* The capped count is the count itself as far as its cap, and one above   *)
(* the cap beyond it.                                                      *)
LEMMA CappedCount ==
    ASSUME dim \in Dims, NEW h, NEW n, NEW c \in Nat
    PROVE  CliqueCount(h, n, c) = IF Real(h, n) <= c THEN Real(h, n) ELSE c + 1
<1> DEFINE a == Cardinality(Cliques(h))
           b == Cardinality(Cliques(Among(n) \ h))
<1>1. a \in Nat /\ b \in Nat
  BY CliquesCounted
<1>2. CliqueCount(h, n, c) =
         LET typeOneCount == Min({a, c + 1})
         IN IF typeOneCount > c THEN typeOneCount
            ELSE Min({typeOneCount + b, c + 1})
  BY DEF CliqueCount
<1>3. Real(h, n) = a + b
  BY DEF Real
<1> HIDE DEF a, b
<1>4. CASE a <= c
  <2>1. Min({a, c + 1}) = a
    BY <1>1, <1>4, MinOfTwo
  <2>2. Min({a + b, c + 1}) = IF a + b <= c + 1 THEN a + b ELSE c + 1
    BY <1>1, MinOfTwo
  <2> QED  BY <1>1, <1>2, <1>3, <1>4, <2>1, <2>2
<1>5. CASE a > c
  <2>1. Min({a, c + 1}) = c + 1
    BY <1>1, <1>5, MinOfTwo
  <2> QED  BY <1>1, <1>2, <1>3, <1>5, <2>1
<1> QED  BY <1>1, <1>4, <1>5

LEMMA FullCount ==
    ASSUME dim \in Dims, NEW h, NEW n
    PROVE  CliqueCount(h, n, INT_MAX) = Real(h, n)
BY CappedCount, RealCounts

-----------------------------------------------------------------------------
(* The searches of a row.  The graph to beat is the one that was counted,  *)
(* and is back in place when the next pair is tried; of the pairs of the   *)
(* row those before the two counters, in the order of the loops, would not *)
(* help.                                                                   *)
TriedOut(r) == \A c1 \in OnesIn(r), c0 \in ZerosIn(r) : NoGain(r, c1, c0)

PermuteInv ==
    /\ pc \in {"index", "row", "compare", "done", "astray"}
    /\ count = FindCliqueCount(best)
    /\ pc = "index" => index \in Pairs
    /\ pc \in {"index", "row"} => ones = best
    /\ pc \in {"row", "compare"} =>
          /\ row \in Nat /\ index = <<row, index[2]>>
          /\ ZerosIn(row) # {} /\ col0 \in Int
          /\ \A c \in ZerosIn(row) : c < col0 => NoGain(row, index[2], c)
    /\ pc = "compare" => /\ col0 \in ZerosIn(row)
                         /\ ones = Switch(best, index, <<row, col0>>)

SystematicInv ==
    /\ pc \in {"loop", "count", "flip", "nextRow", "row", "compare", "done", "astray"}
    /\ count = FindCliqueCount(best)
    /\ pc \in {"nextRow", "row", "compare"} =>
          row \in Nat /\ \A r \in 0 .. row - 1 : TriedOut(r)
    /\ pc \in {"nextRow", "row"} => ones = best
    /\ pc \in {"row", "compare"} =>
          /\ OnesIn(row) # {} /\ ZerosIn(row) # {}
          /\ col1 \in Int /\ col1 <= Max(OnesIn(row))
          /\ col0 \in Int /\ col0 <= Max(ZerosIn(row)) + 1
          /\ col0 = Max(ZerosIn(row)) + 1 => col1 = Max(OnesIn(row))
          /\ \A c1 \in OnesIn(row), c0 \in ZerosIn(row) :
                c1 < col1 \/ (c1 = col1 /\ c0 < col0) => NoGain(row, c1, c0)
    /\ pc = "row" => col1 \in OnesIn(row) \/ col0 = row + 1
    /\ pc = "compare" => /\ col1 \in OnesIn(row) /\ col0 \in ZerosIn(row)
                         /\ ones = Switch(best, <<row, col1>>, <<row, col0>>)

RowInv == /\ search = "permute" => PermuteInv
          /\ search = "systematic" => SystematicInv

LEMMA SwitchTwice == \A h, a, b : Switch(Switch(h, a, b), a, b) = h
BY DEF Switch

LEMMA RowIsFinite ==
    ASSUME dim \in Dims, NEW r \in Nat
    PROVE  /\ IsFiniteSet(OnesIn(r)) /\ IsFiniteSet(ZerosIn(r))
           /\ \A c \in OnesIn(r) \cup ZerosIn(r) : c \in Nat /\ r + 1 <= c
<1>1. IsFiniteSet(Columns(r)) /\ \A c \in Columns(r) : c \in Nat /\ r + 1 <= c
  BY FiniteDims, FS_Interval DEF Columns
<1>2. OnesIn(r) \subseteq Columns(r) /\ ZerosIn(r) \subseteq Columns(r)
  BY DEF OnesIn, ZerosIn
<1> QED  BY <1>1, <1>2, FS_Subset

LEMMA NextIs ==
    ASSUME NEW T, IsFiniteSet(T), T \subseteq Int, NEW c \in Int, NEW m \in T, c <= m
    PROVE  /\ NextIn(T, c) \in T /\ c <= NextIn(T, c)
           /\ \A d \in T : d >= c => NextIn(T, c) <= d
<1> DEFINE U == {d \in T : d >= c}
<1>1. m \in U /\ U \subseteq T /\ IsFiniteSet(U) /\ U \subseteq Int
  BY FS_Subset
<1>2. Min(U) \in U /\ \A d \in U : Min(U) <= d
  BY <1>1, MinIs
<1> QED  BY <1>2 DEF NextIn

(* A step that leaves the graph to beat alone.                             *)
LEMMA RowsSame ==
    ASSUME UNCHANGED <<dim, best, count>>
    PROVE  /\ \A r : OnesIn(r)' = OnesIn(r) /\ ZerosIn(r)' = ZerosIn(r)
           /\ \A r, c1, c0 : NoGain(r, c1, c0)' <=> NoGain(r, c1, c0)
           /\ \A r : TriedOut(r)' <=> TriedOut(r)
           /\ \A h : FindCliqueCount(h)' = FindCliqueCount(h)
           /\ Pairs' = Pairs
<1>1. \A r : OnesIn(r)' = OnesIn(r) /\ ZerosIn(r)' = ZerosIn(r)
  BY DEF OnesIn, ZerosIn, Columns
<1>2. Bundles' = Bundles /\ Pairs' = Pairs
  BY DEF Bundles, Pairs
<1>3. \A h : FindCliqueCount(h)' = FindCliqueCount(h)
  BY <1>2 DEF FindCliqueCount
<1>4. \A r, c1, c0 : NoGain(r, c1, c0)' <=> NoGain(r, c1, c0)
  BY <1>3 DEF NoGain
<1> QED  BY <1>1, <1>2, <1>3, <1>4 DEF TriedOut

(* What a step hands on has fewer cliques, and they are counted.           *)
Improved ==
    best' = best \/ (/\ FindCliqueCount(best') < FindCliqueCount(best)
                     /\ FindCliqueCount(best') = count')

LEMMA FindIsNat ==
    ASSUME dim \in Dims, NEW h
    PROVE  FindCliqueCount(h) \in Nat
BY FindIsReal, RealCounts

LEMMA PermuteStep ==
    ASSUME dim \in Dims, UNCHANGED <<dim, search>>, search = "permute", PermuteInv, Permute
    PROVE  PermuteInv' /\ Improved
<1>1. CASE Begin
  <2>1. /\ UNCHANGED <<dim, best, count, ones, index>> /\ pc = "index"
        /\ row' = index[1] /\ col0' = index[1] + 1
        /\ pc' = (IF ZerosIn(index[1]) = {} THEN "astray" ELSE "row")
    BY <1>1 DEF Begin, Goto
  <2>2. index[1] \in Nat /\ index = <<index[1], index[2]>>
    BY <2>1, FiniteDims DEF PermuteInv, Nodes
  <2>3. \A c \in ZerosIn(index[1]) : ~(c < index[1] + 1)
    BY <2>2, RowIsFinite
  <2> QED  BY <2>1, <2>2, <2>3, RowsSame DEF PermuteInv, Improved
<1>2. CASE Leave \/ Refuse
  BY <1>2, RowsSame DEF Leave, Refuse, rowVars, Goto, PermuteInv, Improved
<1>3. CASE TryZero
  <2>1. /\ UNCHANGED <<dim, best, count, index, row>> /\ pc = "row" /\ pc' = "compare"
        /\ col0 < Max(ZerosIn(row)) /\ col0' = NextIn(ZerosIn(row), col0)
        /\ ones' = Switch(ones, index, <<row, col0'>>)
    BY <1>3 DEF TryZero, Goto, MoreZeros, rowVars
  <2>2. IsFiniteSet(ZerosIn(row)) /\ ZerosIn(row) \subseteq Int /\ ZerosIn(row) # {}
    BY <2>1, RowIsFinite DEF PermuteInv
  <2>3. Max(ZerosIn(row)) \in ZerosIn(row)
    BY <2>2, MaxIs
  <2>4. /\ col0' \in ZerosIn(row) /\ col0' \in Int
        /\ \A d \in ZerosIn(row) : d < col0' => d < col0
    <3>1. /\ NextIn(ZerosIn(row), col0) \in ZerosIn(row)
          /\ \A d \in ZerosIn(row) : d >= col0 => NextIn(ZerosIn(row), col0) <= d
      <4>1. col0 \in Int /\ col0 <= Max(ZerosIn(row))
        BY <2>1, <2>2, <2>3 DEF PermuteInv
      <4> QED  BY <2>2, <2>3, <4>1, NextIs
    <3> QED  BY <2>1, <2>2, <3>1 DEF PermuteInv
  <2> QED  BY <2>1, <2>2, <2>4, RowsSame DEF PermuteInv, Improved
<1>4. CASE Better
  <2>1. /\ best' = ones /\ count' = NewCount /\ NewCount < count /\ pc' = "done"
    BY <1>4 DEF Better, Goto
  <2>2. count \in Nat /\ count = FindCliqueCount(best)
    BY FindIsNat DEF PermuteInv
  <2>3. NewCount = FindCliqueCount(ones)
    BY <2>1, <2>2, FindIsReal, CappedCount, RealCounts DEF NewCount
  <2>4. FindCliqueCount(best)' = FindCliqueCount(ones)
    BY <2>1 DEF FindCliqueCount, Bundles
  <2> QED  BY <2>1, <2>2, <2>3, <2>4 DEF PermuteInv, Improved
<1>5. CASE NoBetter
  <2>1. /\ UNCHANGED <<dim, best, count, index, row>> /\ pc = "compare" /\ pc' = "row"
        /\ col0' = col0 + 1 /\ NewCount >= count
        /\ ones' = Switch(ones, index, <<row, col0>>)
    BY <1>5 DEF NoBetter, Goto
  <2>2. ones' = best
    BY <2>1, SwitchTwice DEF PermuteInv
  <2>3. count \in Nat /\ count = FindCliqueCount(best)
    BY FindIsNat DEF PermuteInv
  <2>4. FindCliqueCount(ones) >= count
    BY <2>1, <2>3, FindIsReal, CappedCount, RealCounts DEF NewCount
  <2>5. NoGain(row, index[2], col0)
    BY <2>1, <2>4 DEF PermuteInv, NoGain
  <2>6. \A c \in ZerosIn(row) : c < col0 + 1 => NoGain(row, index[2], c)
    BY <2>1, <2>5, RowIsFinite DEF PermuteInv
  <2> QED  BY <2>1, <2>2, <2>6, RowsSame DEF PermuteInv, Improved
<1> QED  BY <1>1, <1>2, <1>3, <1>4, <1>5 DEF Permute

LEMMA SystematicStep ==
    ASSUME dim \in Dims, UNCHANGED <<dim, search>>, search = "systematic", SystematicInv,
           Systematic
    PROVE  SystematicInv' /\ Improved
<1>1. CASE FlipOne \/ Solved \/ Explore \/ flip_50_50
  <2>1. UNCHANGED <<dim, best, count>> /\ pc' \in {"count", "done", "flip"}
    BY <1>1 DEF FlipOne, Solved, Explore, flip_50_50, Goto
  <2> QED  BY <2>1, RowsSame DEF SystematicInv, Improved
<1>2. CASE Explored
  <2>1. pc' = "loop" /\ (\/ UNCHANGED <<best, count>>
                         \/ /\ FindCliqueCount(ones) < count
                            /\ best' = ones /\ count' = FindCliqueCount(ones))
    BY <1>2 DEF Explored, Goto, IsLess
  <2>2. CASE UNCHANGED <<best, count>>
    BY <2>1, <2>2, RowsSame DEF SystematicInv, Improved
  <2>3. CASE /\ FindCliqueCount(ones) < count
             /\ best' = ones /\ count' = FindCliqueCount(ones)
    <3>1. FindCliqueCount(best)' = FindCliqueCount(ones)
      BY <2>3 DEF FindCliqueCount, Bundles
    <3> QED  BY <2>1, <2>3, <3>1 DEF SystematicInv, Improved
  <2> QED  BY <2>1, <2>2, <2>3
<1>3. CASE StartOver
  <2>1. /\ UNCHANGED <<dim, best, count>> /\ pc' = "nextRow" /\ ones' = best /\ row' = 0
    BY <1>3 DEF StartOver, Goto
  <2> QED  BY <2>1, RowsSame DEF SystematicInv, Improved
<1>4. CASE StartRow
  <2>1. /\ UNCHANGED <<dim, best, count, ones, row>> /\ pc = "nextRow"
        /\ pc' = (IF OnesIn(row) = {} \/ ZerosIn(row) = {} THEN "astray" ELSE "row")
        /\ col1' = row + 1 /\ col0' = row + 1 /\ row \in Nat
    BY <1>4 DEF StartRow, Goto, SystematicInv
  <2>2. CASE OnesIn(row) = {} \/ ZerosIn(row) = {}
    BY <2>1, <2>2, RowsSame DEF SystematicInv, Improved
  <2>3. CASE OnesIn(row) # {} /\ ZerosIn(row) # {}
    <3>1. /\ OnesIn(row) \subseteq Int /\ ZerosIn(row) \subseteq Int
          /\ \A c \in OnesIn(row) \cup ZerosIn(row) : c \in Int /\ row + 1 <= c
      BY <2>1, RowIsFinite
    <3>2. /\ Max(OnesIn(row)) \in OnesIn(row) /\ Max(ZerosIn(row)) \in ZerosIn(row)
      BY <2>1, <2>3, <3>1, RowIsFinite, MaxIs
    <3>3. /\ row + 1 <= Max(OnesIn(row)) /\ row + 1 <= Max(ZerosIn(row))
          /\ row + 1 # Max(ZerosIn(row)) + 1
      BY <2>1, <3>1, <3>2
    <3>4. \A c1 \in OnesIn(row), c0 \in ZerosIn(row) :
             ~(c1 < row + 1 \/ (c1 = row + 1 /\ c0 < row + 1))
      BY <2>1, <3>1
    <3> QED  BY <2>1, <2>3, <3>1, <3>2, <3>3, <3>4, RowsSame DEF SystematicInv, Improved
  <2> QED  BY <2>2, <2>3
<1>5. CASE TrySwap
  <2>1. /\ UNCHANGED <<dim, best, count, row>> /\ pc = "row" /\ pc' = "compare"
        /\ col1 # Max(OnesIn(row)) + 1 /\ col0 # Max(ZerosIn(row)) + 1
        /\ col1' = NextIn(OnesIn(row), col1) /\ col0' = NextIn(ZerosIn(row), col0)
        /\ ones' = Switch(ones, <<row, col1'>>, <<row, col0'>>) /\ row \in Nat
    BY <1>5 DEF TrySwap, Goto, MorePairs, RowSwap, SystematicInv
  <2>2. /\ IsFiniteSet(OnesIn(row)) /\ IsFiniteSet(ZerosIn(row))
        /\ OnesIn(row) \subseteq Int /\ ZerosIn(row) \subseteq Int
        /\ OnesIn(row) # {} /\ ZerosIn(row) # {}
        /\ \A c \in OnesIn(row) \cup ZerosIn(row) : row + 1 <= c
    BY <2>1, RowIsFinite DEF SystematicInv
  <2>3. /\ Max(OnesIn(row)) \in OnesIn(row) /\ \A d \in OnesIn(row) : Max(OnesIn(row)) >= d
        /\ Max(ZerosIn(row)) \in ZerosIn(row) /\ \A d \in ZerosIn(row) : Max(ZerosIn(row)) >= d
    BY <2>2, MaxIs
  <2>4. /\ col1' \in OnesIn(row) /\ col1 <= col1'
        /\ \A d \in OnesIn(row) : d >= col1 => col1' <= d
    BY <2>1, <2>2, <2>3, NextIs DEF SystematicInv
  <2>5. /\ col0' \in ZerosIn(row) /\ col0 <= col0'
        /\ \A d \in ZerosIn(row) : d >= col0 => col0' <= d
    <3>1. col0 <= Max(ZerosIn(row)) /\ col0 \in Int
      BY <2>1, <2>2, <2>3 DEF SystematicInv
    <3> QED  BY <2>1, <2>2, <2>3, <3>1, NextIs
  <2>6. ASSUME NEW c1 \in OnesIn(row), NEW c0 \in ZerosIn(row),
               c1 < col1' \/ (c1 = col1' /\ c0 < col0')
        PROVE  NoGain(row, c1, c0)
    <3>1. c1 < col1 \/ (c1 = col1 /\ c0 < col0)
      <4>1. CASE col1 \in OnesIn(row)
        <5>1. col1' = col1
          BY <2>2, <2>4, <4>1
        <5> QED  BY <2>1, <2>2, <2>5, <2>6, <5>1 DEF SystematicInv
      <4>2. CASE col0 = row + 1
        <5>1. \A d \in ZerosIn(row) : d >= col0' /\ d \in Int
          BY <2>1, <2>2, <2>5, <4>2
        <5>2. c1 < col1' /\ c1 \in Int /\ col1 \in Int /\ col1' \in Int
          BY <2>1, <2>2, <2>4, <2>5, <2>6, <5>1 DEF SystematicInv
        <5> QED  BY <2>4, <5>2
      <4> QED  BY <2>1, <4>1, <4>2 DEF SystematicInv
    <3> QED  BY <2>1, <3>1 DEF SystematicInv
  <2>7. /\ col1' \in Int /\ col1' <= Max(OnesIn(row))
        /\ col0' \in Int /\ col0' <= Max(ZerosIn(row)) + 1 /\ col0' # Max(ZerosIn(row)) + 1
    BY <2>2, <2>3, <2>4, <2>5
  <2>8. ones' = Switch(best, <<row, col1'>>, <<row, col0'>>)
    BY <2>1 DEF SystematicInv
  <2>9. \A c1 \in OnesIn(row), c0 \in ZerosIn(row) :
            c1 < col1' \/ (c1 = col1' /\ c0 < col0') => NoGain(row, c1, c0)
    BY <2>6
  <2>10. \A r \in 0 .. row - 1 : TriedOut(r)
    BY <2>1 DEF SystematicInv
  <2> HIDE DEF TriedOut
  <2> QED  BY <2>1, <2>2, <2>4, <2>5, <2>7, <2>8, <2>9, <2>10, RowsSame DEF SystematicInv, Improved
<1>6. CASE NewBest
  <2>1. /\ pc' = "loop" /\ FindCliqueCount(ones) < count
        /\ best' = ones /\ count' = FindCliqueCount(ones)
    BY <1>6 DEF NewBest, Goto, IsLess
  <2>2. FindCliqueCount(best)' = FindCliqueCount(ones)
    BY <2>1 DEF FindCliqueCount, Bundles
  <2> QED  BY <2>1, <2>2 DEF SystematicInv, Improved
<1>7. CASE NotBest
  <2>1. /\ UNCHANGED <<dim, best, count, row>> /\ pc = "compare" /\ pc' = "row"
        /\ FindCliqueCount(ones) >= count
        /\ ones' = Switch(ones, <<row, col1>>, <<row, col0>>) /\ Advance /\ row \in Nat
    BY <1>7, FindIsNat DEF NotBest, Goto, RowSwap, SystematicInv, IsLess
  <2>2. ones' = best /\ NoGain(row, col1, col0)
    BY <2>1, SwitchTwice DEF SystematicInv, NoGain
  <2>3. /\ IsFiniteSet(OnesIn(row)) /\ IsFiniteSet(ZerosIn(row))
        /\ OnesIn(row) \subseteq Int /\ ZerosIn(row) \subseteq Int
        /\ OnesIn(row) # {} /\ ZerosIn(row) # {}
        /\ col1 \in OnesIn(row) /\ col0 \in ZerosIn(row)
        /\ \A c \in OnesIn(row) \cup ZerosIn(row) : row + 1 <= c
    BY <2>1, RowIsFinite DEF SystematicInv
  <2>4. /\ Max(OnesIn(row)) \in OnesIn(row) /\ \A d \in OnesIn(row) : Max(OnesIn(row)) >= d
        /\ Max(ZerosIn(row)) \in ZerosIn(row) /\ \A d \in ZerosIn(row) : Max(ZerosIn(row)) >= d
    BY <2>3, MaxIs
  <2>5. \A c1 \in OnesIn(row), c0 \in ZerosIn(row) :
           c1 < col1 \/ (c1 = col1 /\ c0 < col0 + 1) => NoGain(row, c1, c0)
    BY <2>1, <2>2, <2>3 DEF SystematicInv
  <2>6. CASE col0 = Max(ZerosIn(row)) /\ col1 # Max(OnesIn(row))
    <3>1. col1' = col1 + 1 /\ col0' = row + 1
      BY <2>1, <2>6 DEF Advance
    <3>2. \A c1 \in OnesIn(row), c0 \in ZerosIn(row) :
             c1 < col1' \/ (c1 = col1' /\ c0 < col0') => NoGain(row, c1, c0)
      BY <2>1, <2>3, <2>4, <2>5, <2>6, <3>1
    <3>3. /\ col1' \in Int /\ col1' <= Max(OnesIn(row))
          /\ col0' \in Int /\ col0' <= Max(ZerosIn(row)) + 1 /\ col0' # Max(ZerosIn(row)) + 1
      BY <2>1, <2>3, <2>4, <2>6, <3>1
    <3> QED  BY <2>1, <2>2, <2>3, <3>1, <3>2, <3>3, RowsSame DEF SystematicInv, Improved
  <2>7. CASE ~(col0 = Max(ZerosIn(row)) /\ col1 # Max(OnesIn(row)))
    <3>1. col1' = col1 /\ col0' = col0 + 1
      BY <2>1, <2>7 DEF Advance
    <3>2. /\ col1' \in Int /\ col1' <= Max(OnesIn(row))
          /\ col0' \in Int /\ col0' <= Max(ZerosIn(row)) + 1
          /\ col0' = Max(ZerosIn(row)) + 1 => col1' = Max(OnesIn(row))
      BY <2>1, <2>3, <2>4, <2>7, <3>1
    <3> QED  BY <2>1, <2>2, <2>3, <2>5, <3>1, <3>2, RowsSame DEF SystematicInv, Improved
  <2> QED  BY <2>6, <2>7
<1>8. CASE RowTried
  <2>1. /\ UNCHANGED <<dim, best, count, ones>> /\ pc = "row" /\ pc' = "nextRow"
        /\ ~MorePairs /\ row' = row + 1 /\ row \in Nat
    BY <1>8 DEF RowTried, Goto, SystematicInv
  <2>2. /\ IsFiniteSet(OnesIn(row)) /\ IsFiniteSet(ZerosIn(row))
        /\ OnesIn(row) \subseteq Int /\ ZerosIn(row) \subseteq Int
        /\ OnesIn(row) # {} /\ ZerosIn(row) # {}
    BY <2>1, RowIsFinite DEF SystematicInv
  <2>3. /\ Max(OnesIn(row)) \in OnesIn(row) /\ \A d \in OnesIn(row) : Max(OnesIn(row)) >= d
        /\ Max(ZerosIn(row)) \in ZerosIn(row) /\ \A d \in ZerosIn(row) : Max(ZerosIn(row)) >= d
    BY <2>2, MaxIs
  <2>4. col0 = Max(ZerosIn(row)) + 1 /\ col1 = Max(OnesIn(row))
    BY <2>1, <2>2, <2>3 DEF MorePairs, SystematicInv
  <2>5. \A c1 \in OnesIn(row), c0 \in ZerosIn(row) : c1 < col1 \/ (c1 = col1 /\ c0 < col0)
    BY <2>2, <2>3, <2>4
  <2>6. TriedOut(row)
    BY <2>1, <2>5 DEF SystematicInv, TriedOut
  <2>7. \A r \in 0 .. row' - 1 : TriedOut(r)
    BY <2>1, <2>6 DEF SystematicInv
  <2> QED  BY <2>1, <2>7, RowsSame DEF SystematicInv, Improved
<1>9. CASE CallEnds
  <2>1. UNCHANGED <<dim, best, count>> /\ pc' = "loop"
    BY <1>9 DEF CallEnds, Goto
  <2> QED  BY <2>1, RowsSame DEF SystematicInv, Improved
<1> QED  BY <1>1, <1>2, <1>3, <1>4, <1>5, <1>6, <1>7, <1>8, <1>9 DEF Systematic

-----------------------------------------------------------------------------
(* What is done to a graph before it is sent.  An embedded graph has the   *)
(* counter example in it, and of each column that was added half a column  *)
(* or one edge less; its array for trials is the graph without its last    *)
(* column, until a trial has no cliques.                                   *)
Built(g, n) ==
    /\ g \subseteq Among(n)
    /\ g \cap Among(dim[1] - 2) = source
    /\ \A m \in dim[1] - 1 .. n : Cardinality(g \cap LastColumn(m)) \in {Half(m) - 1, Half(m)}

ExploreInv ==
    /\ pc \in {"explore", "done"}
    /\ nodes = dim[1] /\ count = Real(best, nodes) /\ count <= Real(source, nodes)

EmbedInv ==
    /\ pc \in {"embed", "fill", "offer", "done"}
    /\ pc \in {"embed", "fill"} =>
          \/ embeds = 0 /\ nodes = dim[1] - 1
          \/ embeds = 1 /\ nodes = dim[1]
    /\ pc \in {"offer", "done"} => nodes = dim[1]
    /\ pc # "embed" => count = Real(best, nodes)
    /\ pc = "embed" => ones = best /\ Built(best, nodes - 1)
    /\ pc # "embed" => Built(best, nodes)
    /\ pc = "fill" /\ turn # TURNS => Built(ones, nodes - 1)

PhaseInv == /\ search = "explore" => ExploreInv
            /\ search = "embed" => EmbedInv

LEMMA DimSame ==
    ASSUME UNCHANGED dim
    PROVE  /\ \A h, n : Real(h, n)' = Real(h, n)
           /\ \A h, n, c : CliqueCount(h, n, c)' = CliqueCount(h, n, c)
           /\ \A h : FindCliqueCount(h)' = FindCliqueCount(h)
           /\ INT_MAX' = INT_MAX /\ Pairs' = Pairs
           /\ \A n : Among(n)' = Among(n)
           /\ source' = source => \A g, n : Built(g, n)' <=> Built(g, n)
<1>1. Bundles' = Bundles /\ Pairs' = Pairs
  BY DEF Bundles, Pairs
<1>2. \A n : Among(n)' = Among(n)
  BY <1>1 DEF Among
<1>3. \A e : Cliques(e)' = Cliques(e)
  BY <1>1 DEF Cliques
<1>4. \A h, n : Real(h, n)' = Real(h, n)
  BY <1>2, <1>3 DEF Real
<1>5. \A h, n, c : CliqueCount(h, n, c)' = CliqueCount(h, n, c)
  BY <1>2, <1>3 DEF CliqueCount
<1>6. \A h : FindCliqueCount(h)' = FindCliqueCount(h)
  BY <1>1 DEF FindCliqueCount
<1>7. INT_MAX' = INT_MAX
  BY <1>1 DEF INT_MAX
<1>8. source' = source => \A g, n : Built(g, n)' <=> Built(g, n)
  BY <1>2 DEF Built
<1> QED  BY <1>1, <1>2, <1>4, <1>5, <1>6, <1>7, <1>8

LEMMA HalfColumn ==
    ASSUME NEW F, IsFiniteSet(F), NEW k \in Int, NEW K \in kSubset(k, F)
    PROVE  Cardinality(K \ {Null}) \in {k - 1, k}
<1>1. IsFiniteSet(K) /\ Cardinality(K) = k
  BY FS_Subset DEF kSubset
<1> QED  BY <1>1, FS_RemoveElement

(* A column more.                                                          *)
LEMMA ColumnAdded ==
    ASSUME dim \in Dims, NEW n \in {dim[1] - 1, dim[1]}, NEW g, Built(g, n - 1), NEW array,
           NEW K \in permuteLastColumn(g, n, array)
    PROVE  Built(With(g, K), n) /\ wipeLastColumn(With(g, K), n) = g
<1> DEFINE New == K \ {Null}
<1>1. dim[1] \in Nat \ {0, 1, 2} /\ n \in Nat /\ n >= 2
  BY FiniteDims
<1>2. LastColumn(n) \subseteq Among(n) /\ IsFiniteSet(LastColumn(n))
  <2>1. \A r \in 0 .. n - 2 : <<r, n - 1>> \in Pairs
    BY <1>1, FiniteDims DEF Nodes
  <2>2. LastColumn(n) \subseteq Among(n)
    BY <1>1, <2>1 DEF LastColumn, Among
  <2> QED  BY <2>2, FiniteDims, FS_Subset DEF Among
<1>3. g \cap LastColumn(n) = {}
  BY <1>1 DEF Built, Among, LastColumn
<1>4. New \subseteq LastColumn(n) \ g
  BY DEF permuteLastColumn, kSubset
<1>5. Cardinality(New) \in {Half(n) - 1, Half(n)}
  <2> DEFINE free == (LastColumn(n) \ g) \union (IF array \in outside THEN {} ELSE {Null})
  <2>1. IsFiniteSet(LastColumn(n) \ g)
    BY <1>2, FS_Subset
  <2>2. IsFiniteSet(free)
    BY <2>1, FS_AddElement
  <2>3. Half(n) \in Int
    BY <1>1 DEF Half
  <2>4. K \in kSubset(Half(n), free)
    BY DEF permuteLastColumn
  <2> HIDE DEF free
  <2> QED  BY <2>2, <2>3, <2>4, HalfColumn
<1>6. With(g, K) = g \cup New
  BY DEF With
<1>7. wipeLastColumn(With(g, K), n) = g
  <2>1. LastColumn(n) = {<<r - 1, n - 1>> : r \in 1 .. n - 1}
    <3>1. \A r \in 0 .. n - 2 : r + 1 \in 1 .. n - 1 /\ r = (r + 1) - 1
      BY <1>1
    <3>2. \A r \in 1 .. n - 1 : r - 1 \in 0 .. n - 2
      BY <1>1
    <3> QED  BY <3>1, <3>2 DEF LastColumn
  <2> QED  BY <1>3, <1>4, <1>6, <2>1 DEF wipeLastColumn
<1>8. g \cup New \subseteq Among(n)
  <2>1. \A p \in Pairs : p[2] \in Int
    BY FiniteDims DEF Nodes
  <2>2. Among(n - 1) \subseteq Among(n)
    BY <1>1, <2>1 DEF Among
  <2>3. g \subseteq Among(n - 1)
    BY DEF Built
  <2> QED  BY <1>2, <1>4, <2>2, <2>3
<1>9. (g \cup New) \cap Among(dim[1] - 2) = source
  BY <1>1, <1>4 DEF Built, Among, LastColumn
<1>10. ASSUME NEW m \in dim[1] - 1 .. n
       PROVE  Cardinality((g \cup New) \cap LastColumn(m)) \in {Half(m) - 1, Half(m)}
  <2>1. CASE m = n
    <3>1. (g \cup New) \cap LastColumn(m) = New
      BY <1>3, <1>4, <2>1
    <3> HIDE DEF New
    <3> QED  BY <1>5, <2>1, <3>1
  <2>2. CASE m # n
    <3>1. m \in dim[1] - 1 .. n - 1
      BY <1>1, <2>2
    <3>2. (g \cup New) \cap LastColumn(m) = g \cap LastColumn(m)
      BY <1>1, <1>4, <2>2 DEF LastColumn
    <3> HIDE DEF New
    <3> QED  BY <3>1, <3>2 DEF Built
  <2> QED  BY <2>1, <2>2
<1> HIDE DEF New
<1> QED  BY <1>6, <1>7, <1>8, <1>9, <1>10 DEF Built

LEMMA PhaseStep ==
    ASSUME dim \in Dims, UNCHANGED <<dim, search>>, search \in {"explore", "embed"}, PhaseInv,
           Phases
    PROVE  /\ PhaseInv'
           /\ \/ pc \in {"explore", "embed"} \/ best' = best
              \/ Real(best', nodes) < Real(best, nodes) /\ Real(best', nodes) = count'
<1>1. CASE RandomExplore
  <2>1. /\ search = "explore" /\ pc = "explore" /\ pc' = "explore" /\ UNCHANGED <<source, nodes>>
    BY <1>1 DEF RandomExplore, Goto, PhaseInv, EmbedInv
  <2>2. PICK p \in Pairs :
           LET h == Toggled(best, p)
               newCount == CliqueCount(h, nodes, count)
               keep == newCount <= count
           IN /\ best' = IF keep THEN h ELSE best
              /\ count' = IF keep THEN newCount ELSE count
    BY <1>1 DEF RandomExplore, randomFlip
  <2> DEFINE h == Toggled(best, p)
  <2>3. count \in Nat /\ count = Real(best, nodes) /\ Real(h, nodes) \in Nat
        /\ Real(source, nodes) \in Nat /\ count <= Real(source, nodes)
    BY <2>1, RealCounts DEF PhaseInv, ExploreInv
  <2>4. CliqueCount(h, nodes, count) = IF Real(h, nodes) <= count THEN Real(h, nodes) ELSE count + 1
    BY <2>3, CappedCount
  <2>5. /\ best' = IF CliqueCount(h, nodes, count) <= count THEN h ELSE best
        /\ count' = IF CliqueCount(h, nodes, count) <= count THEN CliqueCount(h, nodes, count)
                                                             ELSE count
    BY <2>2
  <2> HIDE DEF h
  <2>6. count' = Real(best', nodes) /\ count' <= Real(source, nodes)
    <3>1. CASE Real(h, nodes) <= count
      BY <2>3, <2>4, <2>5, <3>1
    <3>2. CASE ~(Real(h, nodes) <= count)
      BY <2>3, <2>4, <2>5, <3>2
    <3> QED  BY <3>1, <3>2
  <2> QED  BY <2>1, <2>6, DimSame DEF PhaseInv, ExploreInv
<1>2. CASE Embed
  <2>1. /\ search = "embed" /\ pc = "embed" /\ pc' = "fill"
        /\ UNCHANGED <<ones, source, nodes, embeds>>
        /\ count' = CliqueCount(best', nodes, INT_MAX)
    BY <1>2 DEF Embed, Goto, PhaseInv, ExploreInv
  <2>2. PICK K \in permuteLastColumn(ones, nodes, "graph") : best' = With(ones, K)
    BY <1>2 DEF Embed
  <2>3. nodes \in {dim[1] - 1, dim[1]} /\ Built(ones, nodes - 1)
    BY <2>1 DEF PhaseInv, EmbedInv
  <2>4. Built(best', nodes)
    BY <2>2, <2>3, ColumnAdded
  <2>5. count' = Real(best', nodes)
    BY <2>1, FullCount
  <2> QED  BY <2>1, <2>3, <2>4, <2>5, DimSame DEF PhaseInv, EmbedInv
<1>3. CASE Fill
  <2>1. /\ search = "embed" /\ pc = "fill" /\ pc' = "fill" /\ UNCHANGED <<source, nodes, embeds>>
        /\ turn < TURNS
    BY <1>3 DEF Fill, Goto, PhaseInv, ExploreInv
  <2>2. PICK K \in permuteLastColumn(ones, nodes, "temp") :
          LET h == With(ones, K)
              try_permute_clique == CliqueCount(h, nodes, count)
              better == try_permute_clique < count
          IN /\ best' = IF better THEN h ELSE best
             /\ count' = IF better THEN try_permute_clique ELSE count
             /\ \/ /\ count' = 0
                   /\ ones' = h /\ outside' = Marked(K, "temp") /\ turn' = TURNS
                \/ /\ count' # 0
                   /\ ones' = wipeLastColumn(h, nodes)
                   /\ outside' = outside \ {"temp"} /\ turn' = turn + 1
    BY <1>3 DEF Fill
  <2> DEFINE h == With(ones, K)
  <2>3. nodes \in {dim[1] - 1, dim[1]} /\ Built(best, nodes)
        /\ (turn # TURNS => Built(ones, nodes - 1))
        /\ count = Real(best, nodes)
    BY <2>1 DEF PhaseInv, EmbedInv
  <2>4. Built(ones, nodes - 1)
    BY <2>1, <2>3, PhaseAssumption
  <2>5. Built(h, nodes) /\ wipeLastColumn(h, nodes) = ones
    BY <2>3, <2>4, ColumnAdded
  <2>6. /\ best' = IF CliqueCount(h, nodes, count) < count THEN h ELSE best
        /\ count' = IF CliqueCount(h, nodes, count) < count THEN CliqueCount(h, nodes, count)
                                                            ELSE count
        /\ turn' = TURNS \/ ones' = wipeLastColumn(h, nodes)
    BY <2>2
  <2>7. count \in Nat /\ Real(h, nodes) \in Nat
    BY <2>3, RealCounts
  <2>8. CliqueCount(h, nodes, count) = IF Real(h, nodes) <= count THEN Real(h, nodes) ELSE count + 1
    BY <2>7, CappedCount
  <2> HIDE DEF h
  <2>9. /\ Built(best', nodes) /\ count' = Real(best', nodes)
        /\ best' = best \/ Real(best', nodes) < Real(best, nodes)
    <3>1. CASE Real(h, nodes) < count
      BY <2>3, <2>5, <2>6, <2>7, <2>8, <3>1
    <3>2. CASE ~(Real(h, nodes) < count)
      <4>1. ~(CliqueCount(h, nodes, count) < count)
        BY <2>7, <2>8, <3>2
      <4> QED  BY <2>3, <2>6, <4>1
    <3> QED  BY <3>1, <3>2
  <2>10. turn' # TURNS => Built(ones', nodes - 1)
    BY <2>4, <2>5, <2>6
  <2> QED  BY <2>1, <2>3, <2>9, <2>10, DimSame DEF PhaseInv, EmbedInv
<1>4. CASE Embedded
  <2>1. /\ search = "embed" /\ pc = "fill" /\ pc' = (IF embeds = 1 THEN "offer" ELSE "embed")
        /\ embeds' = embeds + 1 /\ nodes' = (IF embeds = 1 THEN nodes ELSE nodes + 1)
        /\ ones' = best /\ UNCHANGED <<best, count, source>>
    BY <1>4 DEF Embedded, Goto, PhaseInv, ExploreInv
  <2>2. dim[1] \in Nat
    BY FiniteDims
  <2>3. CASE embeds = 1 /\ nodes = dim[1]
    BY <2>1, <2>2, <2>3, DimSame DEF PhaseInv, EmbedInv
  <2>4. CASE embeds = 0 /\ nodes = dim[1] - 1
    <3>1. nodes' = dim[1] /\ embeds' = 1 /\ pc' = "embed" /\ nodes' - 1 = nodes
      BY <2>1, <2>2, <2>4
    <3> QED  BY <2>1, <3>1, DimSame DEF PhaseInv, EmbedInv
  <2> QED  BY <2>1, <2>3, <2>4 DEF PhaseInv, EmbedInv
<1>5. CASE Offer
  <2>1. UNCHANGED <<ones, best, count, source, nodes, turn, embeds>>
        /\ pc \in {"explore", "offer"} /\ pc' = "done"
    BY <1>5 DEF Offer, Goto, phaseVars
  <2> QED  BY <2>1, DimSame DEF PhaseInv, ExploreInv, EmbedInv
<1> QED  BY <1>1, <1>2, <1>3, <1>4, <1>5 DEF Phases

-----------------------------------------------------------------------------
(* replaceMe.  What a phase tries are pairs inside the cliques of its      *)
(* list, so the pair is there to be flipped and undoing the flip brings    *)
(* back the graph; of finitely many tries there is a first.                *)
LEMMA CliqueNodes ==
    ASSUME dim \in Dims, NEW e, NEW S \in Cliques(e)
    PROVE  /\ S \subseteq Nodes
           /\ \A v, w \in S : v # w => Pair(v, w) \in e \cap Pairs
<1>1. PICK B \in Inside(e) : S = NodesOf(B)
  BY CliquesCounted
<1>2. B \in Bundles /\ B \subseteq e
  BY DEF Inside
<1>3. S \in kSubset(dim[2], Nodes) /\ B = PairsIn(S)
  BY <1>1, <1>2, BundleOf
<1>4. S \subseteq Nodes
  BY <1>3 DEF kSubset
<1>5. ASSUME NEW v \in S, NEW w \in S, v # w PROVE Pair(v, w) \in e \cap Pairs
  <2>1. v \in Nodes /\ w \in Nodes /\ v \in Int /\ w \in Int
    BY <1>4, FiniteDims DEF Nodes
  <2>2. CASE v < w
    <3>1. Pair(v, w) = <<v, w>> /\ <<v, w>> \in PairsIn(S)
      BY <2>1, <2>2, FiniteDims DEF Pair, PairsIn
    <3> QED  BY <1>2, <1>3, <3>1 DEF PairsIn
  <2>3. CASE w < v
    <3>1. Pair(v, w) = <<w, v>> /\ <<w, v>> \in PairsIn(S)
      BY <2>1, <2>3, FiniteDims DEF Pair, PairsIn
    <3> QED  BY <1>2, <1>3, <3>1 DEF PairsIn
  <2> QED  BY <1>5, <2>1, <2>2, <2>3
<1> QED  BY <1>4, <1>5

LEMMA TriesAre ==
    ASSUME dim \in Dims, NEW e, lists[phase] = Cliques(e), NEW t \in Tries
    PROVE  /\ t = <<t[1], t[2], t[3]>>
           /\ t[1] = Level(lists[phase], t[2]) /\ t[1] \in 0 .. Cardinality(lists[phase])
           /\ t[2] \in Nodes /\ t[3] \in Seconds(lists[phase], t[2])
           /\ t[3] \in Nodes \/ (t[3] = Null /\ Seconds(lists[phase], t[2]) = {Null})
           /\ t[3] \in Nodes => /\ t[2] # t[3]
                               /\ \E S \in lists[phase] : t[2] \in S /\ t[3] \in S
<1> DEFINE L == lists[phase]
<1>1. PICK w \in UNION L : \E s \in Seconds(L, w) : t = <<Level(L, w), w, s>>
  BY DEF Tries
<1>2. PICK s \in Seconds(L, w) : t = <<Level(L, w), w, s>>
  BY <1>1
<1>3. t[1] = Level(L, w) /\ t[2] = w /\ t[3] = s /\ t = <<t[1], t[2], t[3]>>
  BY <1>2
<1>4. IsFiniteSet(L) /\ \A S \in L : S \subseteq Nodes
  BY CliquesCounted, CliqueNodes
<1>5. w \in Nodes
  BY <1>4
<1>6. Level(L, w) \in 0 .. Cardinality(L)
  <2>1. Cardinality({S \in L : w \in S}) <= Cardinality(L) /\ IsFiniteSet({S \in L : w \in S})
    BY <1>4, FS_Subset
  <2> QED  BY <1>4, <2>1, FS_CardinalityType DEF Level
<1> DEFINE M == CliquesWithNode(L, w)
           shared == {k \in {Level(M, v) : v \in UNION M} : Cardinality(OnLevel(M, k)) > 1}
<1>7. Seconds(L, w) = IF shared = {} THEN {Null} ELSE OnLevel(M, Max(shared)) \ {w}
  BY DEF Seconds, WithoutWorst
<1>8. ASSUME shared # {}
      PROVE  s \in Nodes /\ s # w /\ \E S \in L : w \in S /\ s \in S
  <2>1. s \in OnLevel(M, Max(shared)) \ {w}
    BY <1>7, <1>8
  <2>2. s \in UNION M /\ s # w
    BY <2>1 DEF OnLevel
  <2>3. PICK S \in M : s \in S
    BY <2>2
  <2>4. S \in L /\ w \in S
    BY DEF CliquesWithNode
  <2> QED  BY <1>4, <2>2, <2>3, <2>4
<1>9. CASE shared = {}
  <2>1. s = Null /\ Seconds(L, w) = {Null}
    BY <1>7, <1>9
  <2>2. Null \notin Nodes
    BY SearchAssumption, FiniteDims DEF Nodes
  <2> QED  BY <1>3, <1>5, <1>6, <2>1, <2>2
<1>10. CASE shared # {}
  <2> HIDE DEF shared, M
  <2> QED  BY <1>3, <1>5, <1>6, <1>8, <1>10
<1> QED  BY <1>9, <1>10

LEMMA FirstIsThere ==
    ASSUME dim \in Dims, NEW e, lists[phase] = Cliques(e), Ahead # {}
    PROVE  First(Ahead) \in Tries
<1> DEFINE R == {p \in Ahead \X Ahead : p[1] # p[2] /\ Before(p[1], p[2])}
<1>1. Ahead \subseteq Tries
  BY DEF Ahead
<1>2. \A t \in Ahead : /\ t = <<t[1], t[2], t[3]>> /\ t[1] \in Int /\ t[2] \in Int
                       /\ t[3] \in Int \/ t[3] = Null
  BY <1>1, TriesAre, CliquesCounted, FiniteDims DEF Nodes
<1>3. ASSUME NEW t \in Ahead, NEW u \in Ahead, t # u, t[1] = u[1], t[2] = u[2]
      PROVE  t[3] \in Int /\ u[3] \in Int /\ t[3] # u[3]
  <2>1. t[3] # u[3]
    BY <1>2, <1>3
  <2>2. Seconds(lists[phase], t[2]) # {Null}
    BY <1>1, <1>3, <2>1, TriesAre
  <2>3. t[3] \in Nodes /\ u[3] \in Nodes
    BY <1>1, <1>3, <2>2, TriesAre
  <2> QED  BY <2>1, <2>3, FiniteDims DEF Nodes
<1>4. IsFiniteSet(Ahead)
  <2> DEFINE V == (0 .. Cardinality(lists[phase])) \X Nodes
  <2>1. IsFiniteSet(0 .. Cardinality(lists[phase])) /\ IsFiniteSet(Nodes)
    <3>1. Cardinality(lists[phase]) \in Int
      BY CliquesCounted
    <3> QED  BY <3>1, FiniteDims, FS_Interval
  <2>2. IsFiniteSet(Nodes \cup {Null})
    BY <2>1, FS_AddElement
  <2>3. IsFiniteSet(V \X (Nodes \cup {Null}))
    <3>1. IsFiniteSet(V)
      BY <2>1, FS_Product
    <3> HIDE DEF V
    <3> QED  BY <2>2, <3>1, FS_Product
  <2>4. \A t \in Ahead : <<<<t[1], t[2]>>, t[3]>> \in V \X (Nodes \cup {Null})
    BY <1>1, TriesAre
  <2> DEFINE f == [t \in Ahead |-> <<<<t[1], t[2]>>, t[3]>>]
  <2>5. f \in Injection(Ahead, V \X (Nodes \cup {Null}))
    <3>1. f \in [Ahead -> V \X (Nodes \cup {Null})]
      BY <2>4
    <3>2. \A t, u \in Ahead : f[t] = f[u] => t = u
      BY <1>2
    <3> HIDE DEF f, V
    <3> QED  BY <3>1, <3>2, Fun_IsInj
  <2> HIDE DEF f, V
  <2> QED  BY <2>3, <2>5, FS_Injection
<1>5. \A x \in Ahead : <<x, x>> \notin R
  OBVIOUS
<1>6. ASSUME NEW x \in Ahead, NEW y \in Ahead, NEW z \in Ahead, <<x, y>> \in R, <<y, z>> \in R
      PROVE  <<x, z>> \in R
  <2>1. x # y /\ y # z /\ Before(x, y) /\ Before(y, z)
    BY <1>6
  <2>2. x # z /\ Before(x, z)
    BY <1>2, <1>3, <2>1 DEF Before
  <2> QED  BY <2>2
<1>7. PICK x \in Ahead : \A y \in Ahead : <<y, x>> \notin R
  <2> HIDE DEF R
  <2> QED  BY <1>4, <1>5, <1>6, LeastExists
<1>8. ASSUME NEW y \in Ahead \ {x} PROVE Before(x, y)
  <2>1. <<y, x>> \in Ahead \X Ahead /\ <<y, x>> \notin R
    BY <1>7
  <2>2. ~Before(y, x)
    BY <1>8, <2>1
  <2> QED  BY <1>2, <1>3, <1>8, <2>2 DEF Before
<1> HIDE DEF R
<1>9. First(Ahead) \in Ahead
  BY <1>8 DEF First
<1> QED  BY <1>1, <1>9

(* The graph that counts and lists are of: while a flipped pair is being   *)
(* judged, the one without the flip.                                       *)
Flip == Pair(at[2], at[3])
Kept == IF pc # "compare" THEN ones
        ELSE IF phase = "one" THEN ones \cup {Flip} ELSE ones \ {Flip}

ReplaceTypes ==
    /\ pc \in {"head", "try", "compare", "tell", "crashed", "done"}
    /\ phase \in {"zero", "one"} /\ foundBest \in BOOLEAN /\ ones \subseteq Pairs
Books ==
    /\ zeros = Pairs \ ones
    /\ counts = CliqueCounts(Kept, Pairs \ Kept) /\ count = Total(counts)
    /\ best = Kept \/ count < FindCliqueCount(best)
    /\ pc \in {"head", "compare"} => ~foundBest
    /\ ~foundBest => lists = CliqueLists(Kept, Pairs \ Kept)
    /\ pc # "head" => count < size /\ Cardinality(lists[phase]) < size /\ size \in Nat
    /\ pc = "compare" =>
          /\ Flip \in Pairs /\ (Flip \in ones <=> phase = "zero")
          /\ temp = CliqueCounts(ones, zeros)
          /\ \E S \in lists[phase] : {at[2], at[3]} \in SUBSET S /\ at[2] # at[3]
ReplaceInv ==
    search = "replace" => /\ ReplaceTypes
                          /\ pc \in {"head", "try", "compare", "tell"} => Books

LEMMA TotalIs ==
    ASSUME dim \in Dims, NEW h
    PROVE  /\ Total(CliqueCounts(h, Pairs \ h)) = FindCliqueCount(h)
           /\ FindCliqueCount(h) \in Nat
           /\ Cardinality(Cliques(h)) <= FindCliqueCount(h)
           /\ Cardinality(Cliques(Pairs \ h)) <= FindCliqueCount(h)
<1>1. Among(dim[1]) = Pairs
  BY FiniteDims DEF Among, Nodes
<1>2. FindCliqueCount(h) = Cardinality(Cliques(h)) + Cardinality(Cliques(Pairs \ h))
  BY <1>1, FindIsReal DEF Real
<1> QED  BY <1>2, CliquesCounted DEF Total, CliqueCounts

LEMMA BooksSame ==
    ASSUME UNCHANGED dim
    PROVE  /\ \A h, z : CliqueLists(h, z)' = CliqueLists(h, z)
           /\ \A h, z : CliqueCounts(h, z)' = CliqueCounts(h, z)
           /\ \A h : FindCliqueCount(h)' = FindCliqueCount(h)
           /\ Pairs' = Pairs
<1>1. Bundles' = Bundles /\ Pairs' = Pairs
  BY DEF Bundles, Pairs
<1>2. \A e : Cliques(e)' = Cliques(e)
  BY <1>1 DEF Cliques
<1> QED  BY <1>1, <1>2 DEF CliqueLists, CliqueCounts, FindCliqueCount

LEMMA TryStep ==
    ASSUME dim \in Dims, UNCHANGED <<dim, search>>, ReplaceTypes, Books, TryPair
    PROVE  ReplaceTypes' /\ (pc' # "crashed" => Books')
<1> DEFINE t == First(Ahead)
<1>1. /\ pc = "try" /\ ~foundBest /\ Ahead # {} /\ at' = t
      /\ UNCHANGED <<best, count, counts, lists, size, phase, foundBest>>
      /\ \/ /\ t[3] = Null /\ pc' = "crashed" /\ UNCHANGED ones
         \/ /\ t[3] # Null /\ pc' = "compare" /\ Flipped(Pair(t[2], t[3]))
            /\ temp' = CliqueCounts(ones', zeros')
  BY DEF TryPair, Goto
<1>2. Kept = ones /\ lists = CliqueLists(ones, zeros) /\ zeros = Pairs \ ones
  BY <1>1 DEF Books, Kept
<1> DEFINE e == IF phase = "one" THEN ones ELSE zeros
<1>3. lists[phase] = Cliques(e)
  BY <1>2 DEF CliqueLists, ReplaceTypes
<1>4. t \in Tries
  <2> HIDE DEF t, e
  <2> QED  BY <1>1, <1>3, FirstIsThere DEF t
<1> HIDE DEF t
<1>5. CASE t[3] = Null
  BY <1>1, <1>5, BooksSame DEF ReplaceTypes
<1>6. CASE t[3] # Null
  <2> DEFINE p == Pair(t[2], t[3])
  <2>1. pc' = "compare" /\ Flipped(p) /\ temp' = CliqueCounts(ones', zeros')
    BY <1>1, <1>6
  <2>2. PICK S \in lists[phase] : t[2] \in S /\ t[3] \in S /\ t[2] # t[3]
    <3> HIDE DEF e
    <3> QED  BY <1>3, <1>4, <1>6, TriesAre
  <2>3. p \in e \cap Pairs
    <3> HIDE DEF e
    <3> QED  BY <1>3, <2>2, CliqueNodes
  <2>4. Flip' = p
    BY <1>1 DEF Flip
  <2> HIDE DEF p
  <2>5. /\ zeros' = Pairs \ ones' /\ ones' \subseteq Pairs /\ p \in Pairs
        /\ p \in ones' <=> phase = "zero"
        /\ Kept' = ones
    <3>1. CASE phase = "one"
      BY <1>1, <1>2, <2>1, <2>3, <2>4, <3>1 DEF Flipped, Kept, ReplaceTypes
    <3>2. CASE phase = "zero"
      BY <1>1, <1>2, <2>1, <2>3, <2>4, <3>2 DEF Flipped, Kept, ReplaceTypes
    <3> QED  BY <3>1, <3>2 DEF ReplaceTypes
  <2>6. ReplaceTypes'
    BY <1>1, <2>1, <2>5, BooksSame DEF ReplaceTypes
  <2>7. Books'
    BY <1>1, <1>2, <2>1, <2>2, <2>4, <2>5, BooksSame DEF Books
  <2> QED  BY <2>6, <2>7
<1> QED  BY <1>5, <1>6

LEMMA UndoStep ==
    ASSUME dim \in Dims, UNCHANGED <<dim, search>>, ReplaceTypes, Books, Undo
    PROVE  ReplaceTypes' /\ Books' /\ best' = best
<1>1. /\ pc = "compare" /\ pc' \in {"tell", "try"} /\ Undone(Flip)
      /\ UNCHANGED <<best, count, counts, temp, lists, size, phase, at, foundBest>>
  BY DEF Undo, Goto, Flip
<1>2. ones' = Kept /\ zeros' = Pairs \ ones' /\ ones' \subseteq Pairs
  <2>1. CASE phase = "one"
    BY <1>1, <2>1 DEF Undone, Kept, Books, ReplaceTypes
  <2>2. CASE phase = "zero"
    BY <1>1, <2>2 DEF Undone, Kept, Books, ReplaceTypes
  <2> QED  BY <2>1, <2>2 DEF ReplaceTypes
<1>3. Kept' = Kept
  BY <1>1, <1>2 DEF Kept
<1> QED  BY <1>1, <1>2, <1>3, BooksSame DEF Books, ReplaceTypes

LEMMA ReplaceStep ==
    ASSUME dim \in Dims, UNCHANGED <<dim, search>>, search = "replace", ReplaceInv, ReplaceMe
    PROVE  ReplaceInv' /\ Improved
<1>0. ReplaceTypes /\ (pc \in {"head", "try", "compare", "tell"} => Books)
  BY DEF ReplaceInv
<1>1. CASE Round
  <2>1. /\ pc = "head" /\ pc' = "try" /\ size' = count + 1 /\ phase' = "zero" /\ Books
        /\ UNCHANGED <<ones, best, count, zeros, counts, temp, lists, at, foundBest>>
    BY <1>0, <1>1 DEF Round, Goto
  <2>2. Kept = ones /\ Kept' = ones /\ ~foundBest
    BY <2>1 DEF Kept, Books
  <2>3. count = FindCliqueCount(ones) /\ count \in Nat
    BY <2>1, <2>2, TotalIs DEF Books
  <2>4. lists' ["zero"] = Cliques(Pairs \ ones)
    BY <2>1, <2>2 DEF Books, CliqueLists
  <2>5. Cardinality(lists' [phase']) < size' /\ count' < size' /\ size' \in Nat
    BY <2>1, <2>3, <2>4, TotalIs, CliquesCounted
  <2> QED  BY <1>0, <2>1, <2>2, <2>5, BooksSame DEF Books, ReplaceTypes, ReplaceInv, Improved
<1>2. CASE CounterExample \/ Bail
  <2>1. /\ pc \in {"head", "tell"} /\ pc' = "done" /\ best' = ones /\ Books
        /\ UNCHANGED <<ones, count, phase, foundBest>>
    BY <1>0, <1>2 DEF CounterExample, Bail, Return, Goto, replaceVars
  <2>2. Kept = ones /\ count = FindCliqueCount(ones)
    BY <2>1, TotalIs DEF Kept, Books
  <2>3. Improved
    BY <2>1, <2>2, TotalIs DEF Improved, Books
  <2> QED  BY <1>0, <2>1, <2>3, BooksSame DEF ReplaceInv, ReplaceTypes
<1>3. CASE TryPair
  <2>1. pc = "try" /\ best' = best
    BY <1>3 DEF TryPair
  <2> QED  BY <1>0, <1>3, <2>1, TryStep DEF ReplaceInv, Improved
<1>4. CASE Keep
  <2>1. /\ pc = "compare" /\ pc' = "tell" /\ Total(temp) < Total(counts) /\ Books
        /\ counts' = temp /\ count' = Total(temp) /\ foundBest' = TRUE
        /\ UNCHANGED <<ones, best, zeros, temp, lists, size, phase, at>>
    BY <1>0, <1>4 DEF Keep, Goto, Helps
  <2>2. Kept' = ones /\ temp = CliqueCounts(ones, Pairs \ ones)
    BY <2>1 DEF Kept, Books
  <2>3. count' = FindCliqueCount(ones) /\ count' \in Nat
    BY <2>1, <2>2, TotalIs
  <2>4. count = FindCliqueCount(Kept) /\ count \in Nat /\ count' < count
    BY <2>1, TotalIs DEF Books
  <2>5. count' < FindCliqueCount(best) /\ count' < size
    <3>1. FindCliqueCount(best) \in Nat /\ size \in Nat /\ count < size
      BY <2>1, TotalIs DEF Books
    <3> QED  BY <2>1, <2>3, <2>4, <3>1 DEF Books
  <2> QED  BY <1>0, <2>1, <2>2, <2>5, BooksSame DEF Books, ReplaceTypes, ReplaceInv, Improved
<1>5. CASE Undo
  <2>1. pc = "compare"
    BY <1>5 DEF Undo, Goto
  <2> QED  BY <1>0, <1>5, <2>1, UndoStep DEF ReplaceInv, Improved
<1>6. CASE GoOn
  <2>1. /\ pc = "tell" /\ pc' = "try" /\ Books
        /\ UNCHANGED <<ones, best, count, zeros, counts, temp, lists, size, phase, at, foundBest>>
    BY <1>0, <1>6 DEF GoOn, Goto, replaceVars
  <2>2. Kept = ones /\ Kept' = ones
    BY <2>1 DEF Kept
  <2> QED  BY <1>0, <2>1, <2>2, BooksSame DEF Books, ReplaceTypes, ReplaceInv, Improved
<1>7. CASE EndPhase
  <2>1. /\ pc = "try" /\ pc' \in {"try", "head"} /\ Books
        /\ phase' = "one" /\ lists' = CliqueLists(ones, zeros) /\ foundBest' = FALSE
        /\ UNCHANGED <<ones, best, count, zeros, counts, temp, size>>
    BY <1>0, <1>7 DEF EndPhase, Goto, Refilled
  <2>2. Kept = ones /\ Kept' = ones /\ zeros = Pairs \ ones
    BY <2>1 DEF Kept, Books
  <2>3. count = FindCliqueCount(ones) /\ count \in Nat /\ count < size /\ size \in Nat
    BY <2>1, <2>2, TotalIs DEF Books
  <2>4. lists' [phase'] = Cliques(ones)
    BY <2>1 DEF CliqueLists
  <2>5. Cardinality(lists' [phase']) < size
    <3>1. Cardinality(Cliques(ones)) \in Nat /\ Cardinality(Cliques(ones)) <= count
      BY <2>3, TotalIs, CliquesCounted
    <3> QED  BY <2>3, <2>4, <3>1
  <2> QED  BY <1>0, <2>1, <2>2, <2>3, <2>5, BooksSame
           DEF Books, ReplaceTypes, ReplaceInv, Improved
<1> QED  BY <1>1, <1>2, <1>3, <1>4, <1>5, <1>6, <1>7 DEF ReplaceMe

-----------------------------------------------------------------------------
(* All searches together.                                                  *)
SearchInv == /\ dim \in Dims /\ search \in Searches
             /\ ReplaceInv /\ RowInv /\ PhaseInv

LEMMA InitSearch == Init => SearchInv
<1> SUFFICES ASSUME Init PROVE SearchInv
  OBVIOUS
<1>1. dim \in Dims /\ search \in Searches /\ ones \subseteq Pairs
  BY StartsAssumption DEF Init, Pairs
<1>2. CASE ReplaceInit
  <2>1. /\ search = "replace" /\ pc = "head" /\ best = ones /\ zeros = Pairs \ ones
        /\ lists = CliqueLists(ones, zeros) /\ counts = CliqueCounts(ones, zeros)
        /\ count = Total(counts) /\ phase = "zero" /\ foundBest = FALSE
    BY <1>2 DEF ReplaceInit
  <2>2. Kept = ones
    BY <2>1 DEF Kept
  <2>3. ReplaceInv
    BY <1>1, <2>1, <2>2 DEF ReplaceInv, ReplaceTypes, Books
  <2> QED  BY <1>1, <2>1, <2>3 DEF SearchInv, RowInv, PhaseInv
<1>3. CASE PermuteInit
  BY <1>1, <1>3 DEF PermuteInit, SearchInv, ReplaceInv, RowInv, PermuteInv, PhaseInv
<1>4. CASE SystematicInit
  BY <1>1, <1>4 DEF SystematicInit, SearchInv, ReplaceInv, RowInv, SystematicInv, PhaseInv
<1>5. CASE ExploreInit
  <2>1. count = Real(best, nodes) /\ source = best /\ count \in Nat
    BY <1>1, <1>5, FullCount, RealCounts DEF ExploreInit
  <2> QED  BY <1>1, <1>5, <2>1
           DEF ExploreInit, SearchInv, ReplaceInv, RowInv, PhaseInv, ExploreInv
<1>6. CASE EmbedInit
  <2>1. /\ search = "embed" /\ pc = "embed" /\ nodes = dim[1] - 1 /\ embeds = 0
        /\ ones \subseteq Among(nodes - 1) /\ source = ones /\ best = ones
    BY <1>6 DEF EmbedInit
  <2>2. dim[1] \in Nat /\ nodes - 1 = dim[1] - 2
    BY <1>1, <2>1, FiniteDims
  <2>3. Built(best, nodes - 1)
    <3>1. \A m \in dim[1] - 1 .. nodes - 1 : FALSE
      BY <2>2
    <3>2. best \cap Among(dim[1] - 2) = source
      BY <2>1, <2>2
    <3> QED  BY <2>1, <3>1, <3>2 DEF Built
  <2> QED  BY <1>1, <2>1, <2>3 DEF SearchInv, ReplaceInv, RowInv, PhaseInv, EmbedInv
<1> QED  BY <1>2, <1>3, <1>4, <1>5, <1>6 DEF Init

(* Each step keeps its own search's part, and a graph that is handed on    *)
(* is an improvement.                                                      *)
LEMMA SearchStep ==
    ASSUME SearchInv, [Next]_vars
    PROVE  SearchInv' /\ [best' # best /\ pc \notin {"explore", "embed"} =>
                             Counted(best') < Counted(best) /\ Counted(best') = count']_vars
<1>1. CASE UNCHANGED vars
  <2>1. UNCHANGED <<dim, search, pc, ones, best, count, replaceVars, rowVars, phaseVars>>
    BY <1>1 DEF vars
  <2>2. ReplaceInv'
    BY <2>1, BooksSame DEF SearchInv, ReplaceInv, ReplaceTypes, Books, Kept, Flip, replaceVars
  <2>3. RowInv'
    BY <2>1, RowsSame DEF SearchInv, RowInv, PermuteInv, SystematicInv, rowVars
  <2>4. PhaseInv'
    BY <2>1, DimSame DEF SearchInv, PhaseInv, ExploreInv, EmbedInv, phaseVars
  <2> QED  BY <1>1, <2>1, <2>2, <2>3, <2>4 DEF SearchInv
<1>2. CASE Next
  <2>1. UNCHANGED <<dim, search>> /\ dim \in Dims /\ search \in Searches
    BY <1>2 DEF Next, SearchInv
  <2>2. CASE search \in {"replace", "permute", "systematic"}
    <3>1. SearchInv' /\ Improved
      <4>1. CASE search = "replace" /\ ReplaceMe
        BY <2>1, <4>1, ReplaceStep DEF SearchInv, RowInv, PhaseInv
      <4>2. CASE search = "permute" /\ Permute
        BY <2>1, <4>2, PermuteStep DEF SearchInv, ReplaceInv, RowInv, PhaseInv
      <4>3. CASE search = "systematic" /\ Systematic
        BY <2>1, <4>3, SystematicStep DEF SearchInv, ReplaceInv, RowInv, PhaseInv
      <4>4. Permute => search = "permute"
        BY DEF Permute, Refuse, Begin, Leave, TryZero, Better, NoBetter
      <4>5. Systematic => search = "systematic"
        BY DEF Systematic, FlipOne, Solved, Explore, flip_50_50, Explored, StartOver, StartRow,
               TrySwap, NewBest, NotBest, RowTried, CallEnds
      <4>6. ~Phases
        BY <2>2 DEF Phases, RandomExplore, Embed, Fill, Embedded, Offer, Goto, SearchInv,
                    ReplaceInv, ReplaceTypes, RowInv, PermuteInv, SystematicInv
      <4> QED  BY <1>2, <4>1, <4>2, <4>3, <4>4, <4>5, <4>6 DEF Next
    <3>2. \A h : Counted(h) = FindCliqueCount(h)
      BY <2>1, <2>2, FullCount, FindIsReal DEF Counted
    <3>3. Counted(best') = FindCliqueCount(best') /\ Counted(best) = FindCliqueCount(best)
      BY <3>2
    <3> QED  BY <3>1, <3>3 DEF Improved
  <2>3. CASE search \in {"explore", "embed"}
    <3>1. Phases
      BY <1>2, <2>3 DEF Next, Permute, Refuse, Begin, Leave, TryZero, Better, NoBetter, Systematic, FlipOne,
                        Solved, Explore, flip_50_50, Explored, StartOver, StartRow, TrySwap,
                        NewBest, NotBest, RowTried, CallEnds
    <3>2. PhaseInv
      BY DEF SearchInv
    <3>3. /\ PhaseInv'
          /\ \/ pc \in {"explore", "embed"} \/ best' = best
             \/ Real(best', nodes) < Real(best, nodes) /\ Real(best', nodes) = count'
      BY <2>1, <2>3, <3>1, <3>2, PhaseStep
    <3>4. \/ pc \in {"explore", "embed"} \/ best' = best
          \/ Counted(best') < Counted(best) /\ Counted(best') = count'
      <4>1. CASE search = "embed"
        <5>1. \A h : Counted(h) = Real(h, nodes)
          BY <2>1, <4>1, FullCount DEF Counted
        <5>2. Counted(best') = Real(best', nodes) /\ Counted(best) = Real(best, nodes)
          BY <5>1
        <5> QED  BY <3>3, <5>2
      <4>2. CASE search = "explore"
        <5>1. best' = best \/ pc = "explore"
          BY <3>1, <3>2, <4>2 DEF PhaseInv, ExploreInv, Phases, RandomExplore, Embed, Fill,
                                  Embedded, Offer, Goto
        <5> QED  BY <5>1
      <4> QED  BY <2>3, <4>1, <4>2
    <3> QED  BY <2>1, <2>3, <3>3, <3>4 DEF SearchInv, ReplaceInv, RowInv
  <2> QED  BY <2>1, <2>2, <2>3 DEF Searches
<1> QED  BY <1>1, <1>2

LEMMA AlwaysSearchInv == Spec => []SearchInv
<1>1. SearchInv /\ [Next]_vars => SearchInv'
  BY SearchStep
<1> QED  BY <1>1, InitSearch, PTL DEF Spec

(* Both colours' graphs, counts and lists of replaceMe agree where they    *)
(* are used, for any number of nodes and any size of cliques: a pair that  *)
(* is tried lies in a clique of its colour, so undoing its flip brings     *)
(* back the graph that was counted (heuristicsearch.c).                    *)
THEOREM BooksStayRight == Spec => []BooksAgree
<1>1. SearchInv => BooksAgree
  <2> SUFFICES ASSUME SearchInv, search = "replace" PROVE BooksAgree
    BY DEF BooksAgree
  <2>1. pc \in {"head", "try", "compare", "tell"} => Books
    BY DEF SearchInv, ReplaceInv
  <2>2. CASE pc \in {"head", "try", "tell"}
    <3>1. Kept = ones /\ Books
      BY <2>1, <2>2 DEF Kept
    <3>2. count = FindCliqueCount(ones)
      BY <3>1, TotalIs DEF SearchInv, Books
    <3> QED  BY <2>2, <3>1, <3>2 DEF BooksAgree, Books
  <2>3. CASE pc = "compare"
    BY <2>1, <2>3 DEF BooksAgree, Books
  <2>4. CASE pc \notin {"head", "try", "tell", "compare"}
    BY <2>4 DEF BooksAgree
  <2> QED  BY <2>2, <2>3, <2>4
<1> QED  BY <1>1, AlwaysSearchInv, PTL

(* The two counters of the systematic search meet every swap of a row, and *)
(* the search for an index every zero but the last, whatever the graph and *)
(* its size (algorithms/algorithms.c, greedyGraphPermute.c).               *)
THEOREM RowsTried == Spec => []RowsAreTriedOut
<1>1. SearchInv => RowsAreTriedOut
  <2> SUFFICES ASSUME SearchInv PROVE RowsAreTriedOut
    OBVIOUS
  <2>1. search = "systematic" /\ pc \in {"nextRow", "row", "compare"} =>
           \A r \in 0 .. row - 1 : \A c1 \in OnesIn(r), c0 \in ZerosIn(r) : NoGain(r, c1, c0)
    BY DEF SearchInv, RowInv, SystematicInv, TriedOut
  <2>2. ASSUME search = "permute", pc = "row", ~MoreZeros,
               NEW c \in ZerosIn(row) \ {Max(ZerosIn(row))}
        PROVE  NoGain(row, index[2], c)
    <3>1. /\ row \in Nat /\ ZerosIn(row) # {} /\ col0 \in Int
          /\ \A d \in ZerosIn(row) : d < col0 => NoGain(row, index[2], d)
      BY <2>2 DEF SearchInv, RowInv, PermuteInv
    <3>2. IsFiniteSet(ZerosIn(row)) /\ ZerosIn(row) \subseteq Int
      BY <3>1, RowIsFinite DEF SearchInv
    <3>3. Max(ZerosIn(row)) \in ZerosIn(row) /\ \A d \in ZerosIn(row) : Max(ZerosIn(row)) >= d
      BY <3>1, <3>2, MaxIs
    <3>4. c < col0
      BY <2>2, <3>1, <3>2, <3>3 DEF MoreZeros
    <3> QED  BY <3>1, <3>4
  <2> QED  BY <2>1, <2>2 DEF RowsAreTriedOut
<1> QED  BY <1>1, AlwaysSearchInv, PTL

(* What is offered was counted, exploring makes no graph worse, and an     *)
(* embedded graph has the counter example in it, each new node joined to   *)
(* half of the others or to one less (thread.c:95-208, matrix.c).          *)
THEOREM OffersCounted == Spec => []OffersAreCounted
<1>1. SearchInv => OffersAreCounted
  <2> SUFFICES ASSUME SearchInv PROVE OffersAreCounted
    OBVIOUS
  <2>1. dim \in Dims /\ PhaseInv
    BY DEF SearchInv
  <2>2. \A h, n : CliqueCount(h, n, INT_MAX) = Real(h, n)
    BY <2>1, FullCount
  <2>3. CASE search = "explore"
    BY <2>1, <2>2, <2>3 DEF PhaseInv, ExploreInv, OffersAreCounted
  <2>4. CASE search = "embed"
    BY <2>1, <2>2, <2>4 DEF PhaseInv, EmbedInv, Built, OffersAreCounted
  <2> QED  BY <2>3, <2>4 DEF OffersAreCounted
<1> QED  BY <1>1, AlwaysSearchInv, PTL

(* A search exchanges the graph it hands on only for one with fewer        *)
(* cliques, and its count is that graph's, for all searches, whatever was  *)
(* flipped on the way.                                                     *)
THEOREM ChangesAreGood == Spec => OnlyGoodChanges
BY SearchStep, AlwaysSearchInv, PTL DEF Spec, OnlyGoodChanges
=============================================================================
