------------------------- MODULE CliqueSearchProofs -------------------------
(***************************************************************************)
(* The searches of the clique library learn exact bounds in their first    *)
(* pass and answer right, for any graph, any order that visits each vertex *)
(* once, and any calls.                                                    *)
(*                                                                         *)
(* Each recursion has a lemma on its loop, by induction over the places of *)
(* the table: what it finds, stores or passes over is what a search of all *)
(* the cliques below would.  The inductive invariant SearchInv says, phase *)
(* by phase, what has been learned (Exact: an entry is the most its prefix *)
(* can hold, or one less than the bound; NotYet: no clique reached the     *)
(* bound so far) and what has been listed (Lists), and each turn of a loop *)
(* keeps it.                                                               *)
(***************************************************************************)
EXTENDS CliqueSearch, CliquerGraphProofs

-----------------------------------------------------------------------------
(* Tables, and the search for one clique of a given size.                  *)

(* Sets of vertices of which any two are joined: the cliques and the empty *)
(* set.                                                                    *)
Joined(h, S) == S \subseteq Vertices(h) /\ \A u, v \in S : u # v => IsEdge(h, u, v)
Images(t, T) == {t[k] : k \in T}
TableOf(h, t) ==
    /\ \A k \in 1 .. h.n : t[k] \in Vertices(h)
    /\ \A k, l \in 1 .. h.n : t[k] = t[l] => k = l
Ready == Whole(g) /\ TableOf(g, table) /\ g.n \in Nat \ {0}

(* The number of members of a set of vertices.                             *)
LEMMA Sizes ==
    ASSUME NEW h, Whole(h), NEW S, S \subseteq Vertices(h)
    PROVE  /\ IsFiniteSet(S) /\ Cardinality(S) \in Nat /\ Cardinality(S) <= h.n
           /\ \A v \in S : Cardinality(S \ {v}) = Cardinality(S) - 1
           /\ \A v \in Vertices(h) \ S : Cardinality(S \cup {v}) = Cardinality(S) + 1
           /\ S = {} <=> Cardinality(S) = 0
           /\ \A R : R \subseteq S => Cardinality(R) \in Nat /\ Cardinality(R) <= Cardinality(S)
<1>1. IsFiniteSet(Vertices(h)) /\ Cardinality(Vertices(h)) = h.n
  BY DegreesAre
<1>2. IsFiniteSet(S) /\ Cardinality(S) \in Nat /\ Cardinality(S) <= h.n
  BY <1>1, FS_Subset, FS_CardinalityType
<1>3. \A v \in S : Cardinality(S \ {v}) = Cardinality(S) - 1
  BY <1>2, FS_RemoveElement
<1>4. \A v \in Vertices(h) \ S : Cardinality(S \cup {v}) = Cardinality(S) + 1
  BY <1>2, FS_AddElement
<1>5. S = {} <=> Cardinality(S) = 0
  BY <1>2, FS_EmptySet
<1>6. \A R : R \subseteq S => Cardinality(R) \in Nat /\ Cardinality(R) <= Cardinality(S)
  BY <1>2, FS_Subset, FS_CardinalityType
<1> QED  BY <1>2, <1>3, <1>4, <1>5, <1>6

(* The vertices at some places.                                            *)
LEMMA PlacesAre ==
    ASSUME Ready, NEW T, T \subseteq Places
    PROVE  /\ VerticesAt(T) = Images(table, T) /\ VerticesAt(T) \subseteq Vertices(g)
           /\ IsFiniteSet(T) /\ Cardinality(T) \in Nat
           /\ \A S : S \subseteq VerticesAt(T) => Cardinality(S) <= Cardinality(T)
<1>1. VerticesAt(T) = Images(table, T) /\ VerticesAt(T) \subseteq Vertices(g)
  BY DEF VerticesAt, Images, Ready, TableOf, Places
<1>2. IsFiniteSet(Places)
  BY FS_Interval DEF Places, Ready
<1>3. IsFiniteSet(T) /\ Cardinality(T) \in Nat
  BY <1>2, FS_Subset, FS_CardinalityType
<1> DEFINE f == [k \in T |-> table[k]]
<1>4. f \in Surjection(T, VerticesAt(T))
  <2>1. f \in [T -> VerticesAt(T)] /\ \A v \in VerticesAt(T) : \E k \in T : f[k] = v
    BY DEF VerticesAt
  <2> HIDE DEF f
  <2> QED  BY <2>1 DEF Surjection
<1>5. IsFiniteSet(VerticesAt(T)) /\ Cardinality(VerticesAt(T)) <= Cardinality(T)
  <2> HIDE DEF f
  <2> QED  BY <1>3, <1>4, FS_Surjection
<1>6. ASSUME NEW S, S \subseteq VerticesAt(T) PROVE Cardinality(S) <= Cardinality(T)
  <2>1. Cardinality(S) <= Cardinality(VerticesAt(T)) /\ Cardinality(S) \in Nat
    BY <1>5, <1>6, FS_Subset, FS_CardinalityType
  <2>2. Cardinality(VerticesAt(T)) \in Nat
    BY <1>5, FS_CardinalityType
  <2> QED  BY <1>3, <1>5, <2>1, <2>2
<1> QED  BY <1>1, <1>3, <1>6

(* The last place of a table, and the table below it.                      *)
LEMMA LastPlace ==
    ASSUME Ready, NEW T, T \subseteq Places, NEW k \in Nat \ {0}
    PROVE  /\ UpTo(T, k) \subseteq Places /\ UpTo(T, k - 1) \subseteq Places
           /\ NewTable(T, k) \subseteq UpTo(T, k - 1)
           /\ k \notin T => UpTo(T, k) = UpTo(T, k - 1)
           /\ k \in T => /\ VerticesAt(UpTo(T, k)) = VerticesAt(UpTo(T, k - 1)) \cup {table[k]}
                         /\ table[k] \in Vertices(g) \ VerticesAt(UpTo(T, k - 1))
                         /\ \A v : v \in VerticesAt(NewTable(T, k))
                                   <=> v \in VerticesAt(UpTo(T, k - 1)) /\ IsEdge(g, table[k], v)
<1>1. T \subseteq Nat /\ \A l \in T : l <= k - 1 <=> l < k
  BY DEF Places
<1>2. UpTo(T, k - 1) = {l \in T : l < k}
  BY <1>1 DEF UpTo
<1>3. \A l \in T : l <= k <=> l < k \/ l = k
  BY <1>1
<1>4. UpTo(T, k) \subseteq Places /\ UpTo(T, k - 1) \subseteq Places
  BY DEF UpTo
<1>5. NewTable(T, k) = {l \in UpTo(T, k - 1) : IsEdge(g, table[k], table[l])}
  BY <1>2 DEF NewTable
<1>6. k \notin T => UpTo(T, k) = UpTo(T, k - 1)
  BY <1>2, <1>3 DEF UpTo
<1>7. ASSUME k \in T
      PROVE  /\ VerticesAt(UpTo(T, k)) = VerticesAt(UpTo(T, k - 1)) \cup {table[k]}
             /\ table[k] \in Vertices(g) \ VerticesAt(UpTo(T, k - 1))
             /\ \A v : v \in VerticesAt(NewTable(T, k))
                       <=> v \in VerticesAt(UpTo(T, k - 1)) /\ IsEdge(g, table[k], v)
  <2>1. UpTo(T, k) = UpTo(T, k - 1) \cup {k}
    BY <1>2, <1>3, <1>7 DEF UpTo
  <2>2. VerticesAt(UpTo(T, k)) = VerticesAt(UpTo(T, k - 1)) \cup {table[k]}
    BY <2>1 DEF VerticesAt
  <2>3. table[k] \in Vertices(g)
    BY <1>7 DEF Ready, TableOf, Places
  <2>4. \A l \in UpTo(T, k - 1) : l \in 1 .. g.n /\ k \in 1 .. g.n /\ l # k
    <3> SUFFICES ASSUME NEW l \in UpTo(T, k - 1)
                 PROVE  l \in 1 .. g.n /\ k \in 1 .. g.n /\ l # k
      OBVIOUS
    <3>1. l \in T /\ l < k
      BY <1>2
    <3>2. l \in 1 .. g.n /\ k \in 1 .. g.n
      BY <1>7, <3>1 DEF Places
    <3>3. l # k
      BY <1>1, <3>1
    <3> QED  BY <3>2, <3>3
  <2>5. table[k] \notin VerticesAt(UpTo(T, k - 1))
    BY <2>4 DEF VerticesAt, Ready, TableOf
  <2>6. ASSUME NEW v
        PROVE  v \in VerticesAt(NewTable(T, k))
               <=> v \in VerticesAt(UpTo(T, k - 1)) /\ IsEdge(g, table[k], v)
    BY <1>5 DEF VerticesAt
  <2> QED  BY <2>2, <2>3, <2>5, <2>6
<1> QED  BY <1>4, <1>5, <1>6, <1>7

(* A joined set up to a place of the table lies below it, or is its vertex *)
(* and a joined set among its neighbours below.                            *)
LEMMA SplitAtLast ==
    ASSUME Ready, NEW T, T \subseteq Places, NEW k \in T, NEW C, Joined(g, C),
           C \subseteq VerticesAt(UpTo(T, k)), ~(C \subseteq VerticesAt(UpTo(T, k - 1)))
    PROVE  /\ table[k] \in C /\ Joined(g, C \ {table[k]})
           /\ C \ {table[k]} \subseteq VerticesAt(NewTable(T, k))
<1>1. k \in Nat \ {0}
  BY DEF Places
<1>2. /\ VerticesAt(UpTo(T, k)) = VerticesAt(UpTo(T, k - 1)) \cup {table[k]}
      /\ \A v : v \in VerticesAt(NewTable(T, k))
                <=> v \in VerticesAt(UpTo(T, k - 1)) /\ IsEdge(g, table[k], v)
  BY <1>1, LastPlace
<1> QED  BY <1>2 DEF Joined

(* A clique among the neighbours of a vertex, and the vertex, is a clique. *)
LEMMA JoinLast ==
    ASSUME Ready, NEW T, T \subseteq Places, NEW k \in T, NEW C, Joined(g, C),
           C \subseteq VerticesAt(NewTable(T, k))
    PROVE  /\ Joined(g, C \cup {table[k]}) /\ table[k] \notin C
           /\ C \cup {table[k]} \subseteq VerticesAt(UpTo(T, k))
<1>1. k \in Nat \ {0}
  BY DEF Places
<1>2. /\ VerticesAt(UpTo(T, k)) = VerticesAt(UpTo(T, k - 1)) \cup {table[k]}
      /\ table[k] \in Vertices(g) \ VerticesAt(UpTo(T, k - 1))
      /\ \A v : v \in VerticesAt(NewTable(T, k))
                <=> v \in VerticesAt(UpTo(T, k - 1)) /\ IsEdge(g, table[k], v)
  BY <1>1, LastPlace
<1>3. \A v \in C : IsEdge(g, table[k], v) /\ IsEdge(g, v, table[k])
  BY <1>2, EdgesAre DEF Joined, Ready
<1> QED  BY <1>2, <1>3 DEF Joined

SingleTurn(k, f, T, m) ==
    IF k = 0 THEN NoClique
    ELSE IF k \notin T THEN f[T][m]
    ELSE IF sizes[table[k]] < m \/ Cardinality(UpTo(T, k)) < m THEN NoClique
    ELSE LET rest == NewTable(T, k)
             none == Cardinality(rest) < m - 1 \/ sizes[table[Max(rest)]] < m - 1
             hit == IF none THEN NoClique ELSE SingleHead(f, rest, m - 1)
         IN IF hit # NoClique THEN hit \union {table[k]} ELSE f[T][m]

(* The loop of sub_unweighted_single, one turn at a time.                  *)
LEMMA SingleLoopIs ==
    ASSUME Ready, NEW k \in Nat, NEW T \in SUBSET Places, NEW m \in Nat
    PROVE  /\ SingleLoop[0][T][m] = NoClique
           /\ SingleLoop[k + 1][T][m] = SingleTurn(k + 1, SingleLoop[k], T, m)
<1> DEFINE A == SUBSET Places
           X == [A -> [Nat -> MaybeClique]]
           body(j, f) == [R \in A |-> [l \in Nat |-> SingleTurn(j, f, R, l)]]
           init == [R \in A |-> [l \in Nat |-> NoClique]]
           step == [j \in Nat |-> [f \in X |-> body(j, f)]]
           F(f) == [j \in Nat |-> body(j, f[j - 1])]
<1>1. SingleLoop = CHOOSE f : f = F(f)
  BY DEF SingleLoop, SingleTurn
<1>n. NoClique \in MaybeClique /\ \A C : C \subseteq Vertices(g) => C \in MaybeClique
  BY DEF MaybeClique
<1>2. init \in X
  BY <1>n
<1>3. ASSUME NEW j \in Nat, NEW f \in X, NEW R \in A, NEW l \in Nat
      PROVE  SingleTurn(j, f, R, l) \in MaybeClique
  <2>1. f[R][l] \in MaybeClique
    OBVIOUS
  <2>2. j \in R => table[j] \in Vertices(g) /\ NewTable(R, j) \in A
    BY DEF Ready, TableOf, Places, NewTable
  <2>3. ASSUME j \in R, l - 1 \in Nat
        PROVE  SingleHead(f, NewTable(R, j), l - 1) \in MaybeClique
    <3>1. f[NewTable(R, j)][l - 1] \in MaybeClique
      BY <2>2, <2>3
    <3>2. NewTable(R, j) # {} => table[Min(NewTable(R, j))] \in Vertices(g)
      <4>1. NewTable(R, j) \subseteq 1 .. g.n /\ NewTable(R, j) \subseteq Nat
        BY <2>2, <2>3 DEF Places
      <4>2. NewTable(R, j) # {} => Min(NewTable(R, j)) \in 1 .. g.n
        BY <4>1, LeastOf
      <4> QED  BY <4>2 DEF Ready, TableOf
    <3>3. NewTable(R, j) # {} => {table[Min(NewTable(R, j))]} \in MaybeClique
      BY <1>n, <3>2
    <3>4. {} \in MaybeClique
      BY <1>n
    <3> QED  BY <1>n, <3>1, <3>3, <3>4 DEF SingleHead
  <2>4. ASSUME j \in R, ~(l - 1 \in Nat)
        PROVE  SingleHead(f, NewTable(R, j), l - 1) \in MaybeClique
    <3>1. l = 0
      BY <2>4
    <3>2. 0 - 1 # 1 /\ 0 - 1 # 0 /\ 0 - 1 <= 1
      OBVIOUS
    <3> QED  BY <1>n, <3>1, <3>2 DEF SingleHead
  <2>5. ASSUME j \in R PROVE SingleHead(f, NewTable(R, j), l - 1) \in MaybeClique
    BY <2>3, <2>4, <2>5
  <2>6. \A C \in MaybeClique : j \in R /\ C # NoClique => C \cup {table[j]} \in MaybeClique
    BY <2>2 DEF MaybeClique
  <2> HIDE DEF X, A
  <2> QED  BY <1>n, <2>1, <2>5, <2>6 DEF SingleTurn
<1>4. \A j \in Nat, f \in X : body(j, f) \in X
  BY <1>3
<1>5. PICK f : AreRounds(f, X, init, step)
  <2>1. step \in [Nat -> [X -> X]]
    <3> HIDE DEF X, body
    <3> QED  BY <1>4
  <2> HIDE DEF X, step, init
  <2> QED  BY <1>2, <2>1, Rounds
<1>6. f = F(f)
  <2>1. \A h : body(0, h) = init
    BY DEF SingleTurn
  <2> HIDE DEF X, body, init
  <2> QED  BY <1>5, <2>1 DEF AreRounds
<1>7. SingleLoop = F(SingleLoop)
  <2> HIDE DEF F
  <2> QED  BY <1>1, <1>6
<1>8. SingleLoop[0] = body(0, SingleLoop[0 - 1]) /\ SingleLoop[k + 1] = body(k + 1, SingleLoop[k])
  <2>1. k + 1 \in Nat /\ k + 1 - 1 = k
    OBVIOUS
  <2>2. \A j \in Nat : SingleLoop[j] = body(j, SingleLoop[j - 1])
    <3> HIDE DEF body
    <3> QED  BY <1>7
  <2> HIDE DEF body
  <2> QED  BY <2>1, <2>2
<1>9. SingleTurn(0, SingleLoop[0 - 1], T, m) = NoClique
  BY DEF SingleTurn
<1> QED  BY <1>8, <1>9

(* What is known of the prefixes of the order up to top.                   *)
UpperBounds(h, t, s, top) ==
    \A k \in 1 .. top : /\ s[t[k]] \in Nat
                        /\ \A C : Joined(h, C) /\ C \subseteq Images(t, 1 .. k)
                                  => Cardinality(C) <= s[t[k]]

(* A joined set of m vertices among A, or NoClique where there is none.    *)
Hits(R, A, m) ==
    IF R = NoClique THEN \A C : Joined(g, C) /\ C \subseteq A => Cardinality(C) < m
    ELSE Joined(g, R) /\ R \subseteq A /\ Cardinality(R) = m

(* No set of vertices is the mark for no clique.                           *)
LEMMA CliqueOrNone == \A S : S \subseteq Vertices(g) /\ Whole(g) => S # NoClique
<1> SUFFICES ASSUME NEW S, S \subseteq Vertices(g), Whole(g) PROVE S # NoClique
  OBVIOUS
<1>1. S \subseteq Nat /\ -1 \notin Nat
  BY DEF Vertices, Whole
<1> QED  BY <1>1 DEF NoClique

(* One call finds a clique of the size if its loop does.                   *)
LEMMA SingleHeadHits ==
    ASSUME Ready, NEW T, T \subseteq Places, NEW m \in Nat, NEW f,
           m >= 2 => Hits(f[T][m], VerticesAt(T), m)
    PROVE  Hits(SingleHead(f, T, m), VerticesAt(T), m)
<1>1. CASE m >= 2
  BY <1>1 DEF SingleHead
<1>2. CASE m = 0
  <2>1. Joined(g, {}) /\ Cardinality({}) = 0 /\ {} # NoClique
    BY CliqueOrNone, FS_EmptySet DEF Joined, Ready
  <2> QED  BY <1>2, <2>1 DEF SingleHead, Hits
<1>3. CASE m = 1 /\ T # {}
  <2>1. Min(T) \in T
    <3>1. T \subseteq Nat
      BY DEF Places
    <3> QED  BY <1>3, <3>1, LeastOf
  <2> DEFINE v == table[Min(T)]
  <2>2. v \in VerticesAt(T) /\ v \in Vertices(g)
    BY <2>1, PlacesAre DEF VerticesAt
  <2> HIDE DEF v
  <2>3. Joined(g, {v}) /\ {v} # NoClique /\ {v} \subseteq VerticesAt(T)
    BY <2>2, CliqueOrNone DEF Joined, Ready
  <2>4. Cardinality({v}) = 1
    BY FS_Singleton
  <2> QED  BY <1>3, <2>3, <2>4 DEF SingleHead, Hits, v
<1>4. CASE m = 1 /\ T = {}
  <2>1. VerticesAt(T) = {}
    BY <1>4 DEF VerticesAt
  <2>2. \A C : C \subseteq VerticesAt(T) => Cardinality(C) < m
    BY <1>4, <2>1, FS_EmptySet
  <2>3. SingleHead(f, T, m) = NoClique
    BY <1>4 DEF SingleHead
  <2> QED  BY <2>2, <2>3 DEF Hits
<1> QED  BY <1>1, <1>2, <1>3, <1>4

(* The loop finds a clique of the size exactly when there is one.          *)
LEMMA SingleLoopHits ==
    ASSUME Ready, NEW top \in Nat, top <= g.n, UpperBounds(g, table, sizes, top), NEW n \in Nat
    PROVE  \A T \in SUBSET (1 .. top), m \in Nat :
              m >= 2 => Hits(SingleLoop[n][T][m], VerticesAt(UpTo(T, n)), m)
<1> DEFINE Good(k) == \A T \in SUBSET (1 .. top), m \in Nat :
                         m >= 2 => Hits(SingleLoop[k][T][m], VerticesAt(UpTo(T, k)), m)
           S == {k \in Nat : Good(k)}
<1>p. \A T : T \subseteq 1 .. top => T \subseteq Places /\ T \in SUBSET Places
  BY DEF Places, Ready
<1>1. 0 \in S
  <2> SUFFICES ASSUME NEW T \in SUBSET (1 .. top), NEW m \in Nat, m >= 2
               PROVE  Hits(SingleLoop[0][T][m], VerticesAt(UpTo(T, 0)), m)
    OBVIOUS
  <2>1. SingleLoop[0][T][m] = NoClique
    BY <1>p, SingleLoopIs
  <2>2. VerticesAt(UpTo(T, 0)) = {}
    BY DEF VerticesAt, UpTo
  <2>3. \A C : C \subseteq VerticesAt(UpTo(T, 0)) => Cardinality(C) < m
    BY <2>2, FS_EmptySet
  <2> QED  BY <2>1, <2>3 DEF Hits
<1>2. ASSUME NEW k \in Nat, k \in S PROVE k + 1 \in S
  <2> SUFFICES ASSUME NEW T \in SUBSET (1 .. top), NEW m \in Nat, m >= 2
               PROVE  Hits(SingleLoop[k + 1][T][m], VerticesAt(UpTo(T, k + 1)), m)
    OBVIOUS
  <2> DEFINE l == k + 1
             f == SingleLoop[k]
             A == VerticesAt(UpTo(T, l))
             B == VerticesAt(UpTo(T, l - 1))
             v == table[l]
             rest == NewTable(T, l)
             R == SingleLoop[l][T][m]
  <2>1. T \subseteq Places /\ T \in SUBSET Places /\ l \in Nat \ {0} /\ l - 1 = k
    <3>1. T \subseteq 1 .. top
      OBVIOUS
    <3>2. l \in Nat \ {0} /\ l - 1 = k
      OBVIOUS
    <3> QED  BY <1>p, <3>1, <3>2
  <2>2. R = SingleTurn(l, f, T, m)
    BY <2>1, SingleLoopIs
  <2>3. Hits(f[T][m], B, m)
    BY <1>2, <2>1
  <2>4. CASE l \notin T
    <3>1. R = f[T][m] /\ A = B
      BY <2>1, <2>2, <2>4, LastPlace DEF SingleTurn
    <3> QED  BY <2>3, <3>1
  <2>5. CASE l \in T /\ (sizes[v] < m \/ Cardinality(UpTo(T, l)) < m)
    <3>1. R = NoClique
      BY <2>2, <2>5 DEF SingleTurn
    <3>2. ASSUME NEW C, Joined(g, C), C \subseteq A PROVE Cardinality(C) < m
      <4>1. Cardinality(C) \in Nat
        BY <3>2, Sizes DEF Joined, Ready
      <4>2. CASE Cardinality(UpTo(T, l)) < m
        <5>1. UpTo(T, l) \subseteq Places
          BY <2>1, LastPlace
        <5>2. Cardinality(C) <= Cardinality(UpTo(T, l)) /\ Cardinality(UpTo(T, l)) \in Nat
          BY <3>2, <5>1, PlacesAre
        <5> QED  BY <4>1, <4>2, <5>2
      <4>3. CASE sizes[v] < m
        <5>1. UpTo(T, l) \subseteq 1 .. l /\ l \in 1 .. top
          <6>1. \A x \in UpTo(T, l) : x \in 1 .. top /\ x <= l
            BY DEF UpTo
          <6>2. l \in 1 .. top
            BY <2>5
          <6> HIDE DEF l
          <6> QED  BY <6>1, <6>2
        <5>2. A \subseteq Images(table, 1 .. l)
          BY <5>1 DEF VerticesAt, Images
        <5>3. Cardinality(C) <= sizes[v] /\ sizes[v] \in Nat
          BY <3>2, <5>1, <5>2 DEF UpperBounds
        <5> QED  BY <4>1, <4>3, <5>3
      <4> QED  BY <2>5, <4>2, <4>3
    <3> QED  BY <3>1, <3>2 DEF Hits
  <2>6. CASE l \in T /\ ~(sizes[v] < m) /\ ~(Cardinality(UpTo(T, l)) < m)
    <3> DEFINE none == Cardinality(rest) < m - 1 \/ sizes[table[Max(rest)]] < m - 1
               hit == IF none THEN NoClique ELSE SingleHead(f, rest, m - 1)
    <3>1. R = IF hit # NoClique THEN hit \union {v} ELSE f[T][m]
      BY <2>2, <2>6 DEF SingleTurn
    <3>2. /\ rest \subseteq UpTo(T, k) /\ rest \subseteq T /\ rest \subseteq 1 .. top
          /\ UpTo(rest, k) = rest /\ rest \subseteq Places
      <4>1. rest \subseteq UpTo(T, k) /\ UpTo(T, k) \subseteq T
        <5>1. rest \subseteq UpTo(T, l - 1) /\ l - 1 = k
          BY <2>1, LastPlace
        <5> HIDE DEF rest, l
        <5> QED  BY <5>1 DEF UpTo
      <4> HIDE DEF rest
      <4>2. UpTo(rest, k) = rest
        BY <4>1 DEF UpTo
      <4> QED  BY <2>1, <4>1, <4>2
    <3> HIDE DEF rest
    <3>3. Hits(hit, VerticesAt(rest), m - 1)
      <4>0. m - 1 \in Nat /\ m - 1 >= 1
        OBVIOUS
      <4>1. CASE none
        <5> SUFFICES ASSUME NEW C, Joined(g, C), C \subseteq VerticesAt(rest)
                     PROVE  Cardinality(C) < m - 1
          BY <4>1 DEF Hits
        <5>1. Cardinality(C) \in Nat
          BY Sizes DEF Joined, Ready
        <5>2. CASE Cardinality(rest) < m - 1
          <6>1. Cardinality(C) <= Cardinality(rest) /\ Cardinality(rest) \in Nat
            BY <3>2, PlacesAre
          <6> QED  BY <5>1, <5>2, <6>1
        <5>3. CASE ~(Cardinality(rest) < m - 1) /\ sizes[table[Max(rest)]] < m - 1
          <6>1. rest # {}
            BY <4>0, <5>3, FS_EmptySet
          <6>2. Max(rest) \in rest /\ \A y \in rest : Max(rest) >= y
            <7>1. rest \subseteq 0 .. top
              BY <3>2
            <7> QED  BY <6>1, <7>1, GreatestOf
          <6>3. Max(rest) \in 1 .. top /\ rest \subseteq 1 .. Max(rest)
            <7> DEFINE M == Max(rest)
            <7>1. M \in 1 .. top /\ \A y \in rest : M >= y /\ y \in 1 .. top
              BY <3>2, <6>2
            <7> HIDE DEF M
            <7>2. M \in 1 .. top /\ rest \subseteq 1 .. M
              BY <7>1
            <7> QED  BY <7>2 DEF M
          <6>4. C \subseteq Images(table, 1 .. Max(rest))
            BY <6>3 DEF VerticesAt, Images
          <6>5. Cardinality(C) <= sizes[table[Max(rest)]] /\ sizes[table[Max(rest)]] \in Nat
            BY <6>3, <6>4 DEF UpperBounds
          <6> QED  BY <5>1, <5>3, <6>5
        <5> QED  BY <4>1, <5>2, <5>3
      <4>2. CASE ~none
        <5>1. m - 1 >= 2 => Hits(f[rest][m - 1], VerticesAt(rest), m - 1)
          <6>1. Good(k) /\ rest \in SUBSET (1 .. top)
            BY <1>2, <3>2
          <6>2. m - 1 >= 2 => Hits(f[rest][m - 1], VerticesAt(UpTo(rest, k)), m - 1)
            BY <4>0, <6>1
          <6> QED  BY <3>2, <6>2
        <5> HIDE DEF f
        <5>2. Hits(SingleHead(f, rest, m - 1), VerticesAt(rest), m - 1)
          BY <3>2, <4>0, <5>1, SingleHeadHits
        <5> QED  BY <4>2, <5>2
      <4> QED  BY <4>1, <4>2
    <3> HIDE DEF hit, f, none
    <3>4. CASE hit # NoClique
      <4>1. Joined(g, hit) /\ hit \subseteq VerticesAt(rest) /\ Cardinality(hit) = m - 1
        BY <3>3, <3>4 DEF Hits
      <4>2. Joined(g, hit \cup {v}) /\ v \notin hit /\ hit \cup {v} \subseteq A
        BY <2>1, <2>6, <4>1, JoinLast DEF rest
      <4>3. Cardinality(hit \cup {v}) = m
        <5>1. Cardinality(hit \cup {v}) = Cardinality(hit) + 1
          BY <4>1, <4>2, Sizes DEF Joined, Ready
        <5> QED  BY <4>1, <5>1
      <4>4. hit \cup {v} # NoClique
        BY <4>2, CliqueOrNone DEF Joined, Ready
      <4> QED  BY <3>1, <3>4, <4>2, <4>3, <4>4 DEF Hits
    <3>5. CASE hit = NoClique
      <4>1. R = f[T][m]
        BY <3>1, <3>5
      <4>2. CASE f[T][m] # NoClique
        <5>1. B \subseteq A
          <6>1. A = B \cup {v}
            <7> HIDE DEF l
            <7> QED  BY <2>1, <2>6, LastPlace
          <6> HIDE DEF A, B
          <6> QED  BY <6>1
        <5> QED  BY <2>3, <4>1, <4>2, <5>1 DEF Hits
      <4>3. CASE f[T][m] = NoClique
        <5> SUFFICES ASSUME NEW C, Joined(g, C), C \subseteq A PROVE Cardinality(C) < m
          BY <4>1, <4>3 DEF Hits
        <5>1. CASE C \subseteq B
          BY <2>3, <4>3, <5>1 DEF Hits
        <5>2. CASE ~(C \subseteq B)
          <6>1. v \in C /\ Joined(g, C \ {v}) /\ C \ {v} \subseteq VerticesAt(rest)
            BY <2>1, <2>6, <5>2, SplitAtLast DEF rest
          <6>2. Cardinality(C \ {v}) < m - 1
            BY <3>3, <3>5, <6>1 DEF Hits
          <6>3. Cardinality(C \ {v}) = Cardinality(C) - 1 /\ Cardinality(C) \in Nat
            BY <6>1, Sizes DEF Joined, Ready
          <6> QED  BY <6>2, <6>3
        <5> QED  BY <5>1, <5>2
      <4> QED  BY <4>2, <4>3
    <3> QED  BY <3>4, <3>5
  <2> QED  BY <2>4, <2>5, <2>6
<1> HIDE DEF S, Good
<1>3. n \in S
  BY <1>1, <1>2, Induction
<1> QED  BY <1>3 DEF S, Good

(* A clique of size m among the places searched is found whenever there is *)
(* one that large (sub_unweighted_single).                                 *)
LEMMA SubSingleHits ==
    ASSUME Ready, NEW top \in Nat, top <= g.n, UpperBounds(g, table, sizes, top),
           NEW T, T \subseteq 1 .. top, NEW m \in Nat
    PROVE  Hits(SubSingle(T, m), VerticesAt(T), m)
<1>1. g.n \in Nat /\ T \subseteq Places /\ T \in SUBSET (1 .. top)
  BY DEF Ready, Places
<1>2. UpTo(T, g.n) = T
  <2>1. \A k \in T : k \in 1 .. g.n
    BY <1>1 DEF Places
  <2>2. \A k \in T : k <= g.n
    BY <1>1, <2>1
  <2> QED  BY <2>2 DEF UpTo
<1>3. m >= 2 => Hits(SingleLoop[g.n][T][m], VerticesAt(T), m)
  BY <1>1, <1>2, SingleLoopHits
<1> QED  BY <1>1, <1>3, SingleHeadHits DEF SubSingle

-----------------------------------------------------------------------------
(* Listing the cliques of a range of sizes.                                *)

(* Weights over disjoint sets add up; a vertex weighs at least one.        *)
LEMMA WeightOfUnion ==
    ASSUME NEW h, Whole(h), NEW R, R \subseteq Vertices(h), NEW S, S \subseteq Vertices(h),
           R \cap S = {}
    PROVE  /\ SubgraphWeight(h, R \cup S) = SubgraphWeight(h, R) + SubgraphWeight(h, S)
           /\ SubgraphWeight(h, R) \in Nat /\ SubgraphWeight(h, S) \in Nat
           /\ Cardinality(S) <= SubgraphWeight(h, S)
<1> DEFINE V == Vertices(h)
           w(T) == SubgraphWeight(h, T)
           Good(T) == w(R \cup T) = w(R) + w(T) /\ Cardinality(T) <= w(T)
           A == {k \in Nat : \A T : T \subseteq V /\ R \cap T = {} /\ Cardinality(T) = k => Good(T)}
<1>1. /\ w({}) = 0 /\ \A T : T \subseteq V => w(T) \in Nat
      /\ \A T, v : T \subseteq V /\ v \in V \ T => w(T \cup {v}) = w(T) + h.weights[v]
  BY WeightAdds
<1>2. \A v \in V : h.weights[v] \in Nat /\ h.weights[v] >= 1
  BY DEF Whole, Vertices
<1>3. 0 \in A
  <2> SUFFICES ASSUME NEW T, T \subseteq V, Cardinality(T) = 0 PROVE Good(T)
    OBVIOUS
  <2>1. T = {} /\ R \cup T = R
    BY Sizes
  <2>2. w(R) \in Nat
    BY <1>1
  <2> QED  BY <1>1, <2>1, <2>2
<1>4. ASSUME NEW k \in Nat, k \in A PROVE k + 1 \in A
  <2> SUFFICES ASSUME NEW T, T \subseteq V, R \cap T = {}, Cardinality(T) = k + 1 PROVE Good(T)
    OBVIOUS
  <2>1. T # {}
    BY Sizes
  <2>2. PICK v \in T : TRUE
    BY <2>1
  <2> DEFINE U == T \ {v}
  <2>3. U \subseteq V /\ R \cap U = {} /\ U \cup {v} = T /\ v \in V \ U
        /\ R \cup U \subseteq V /\ (R \cup U) \cup {v} = R \cup T /\ v \in V \ (R \cup U)
    BY <2>2
  <2>4. Cardinality(U) = k
    <3>1. Cardinality(U) = Cardinality(T) - 1
      BY <2>2, Sizes
    <3> QED  BY <3>1
  <2> HIDE DEF U
  <2>5. w(R \cup U) = w(R) + w(U) /\ Cardinality(U) <= w(U)
    BY <1>4, <2>3, <2>4
  <2>6. w(T) = w(U) + h.weights[v] /\ w(R \cup T) = w(R \cup U) + h.weights[v]
    BY <1>1, <2>3
  <2>7. w(R) \in Nat /\ w(U) \in Nat /\ h.weights[v] \in Nat /\ h.weights[v] >= 1
    BY <1>1, <1>2, <2>3
  <2> HIDE DEF w
  <2> QED  BY <2>4, <2>5, <2>6, <2>7
<1> HIDE DEF A
<1>5. Cardinality(S) \in Nat /\ Cardinality(S) \in A
  BY <1>3, <1>4, Sizes, Induction
<1>6. Good(S)
  BY <1>5 DEF A
<1> QED  BY <1>1, <1>6

(* What a set of vertices counts for in a search: its size or its weight.  *)
Value(h, uw, S) == IF uw THEN Cardinality(S) ELSE SubgraphWeight(h, S)

(* What a search counts of a clique: its members, or their weight.         *)
LEMMA Values ==
    ASSUME NEW h, Whole(h), NEW uw, NEW S, S \subseteq Vertices(h)
    PROVE  /\ Value(h, uw, S) \in Nat /\ (S = {} <=> Value(h, uw, S) = 0)
           /\ \A R : R \subseteq S =>
                /\ Value(h, uw, R) \in Nat /\ Value(h, uw, R) <= Value(h, uw, S)
                /\ R # S => Value(h, uw, R) < Value(h, uw, S)
           /\ \A R : R \subseteq Vertices(h) /\ R \cap S = {} =>
                /\ Value(h, uw, R \cup S) = Value(h, uw, R) + Value(h, uw, S)
           /\ Cardinality(S) <= SubgraphWeight(h, S)
<1> DEFINE w(T) == Value(h, uw, T)
<1>1. ASSUME NEW R, R \subseteq Vertices(h), NEW T, T \subseteq Vertices(h), R \cap T = {}
      PROVE  w(R \cup T) = w(R) + w(T) /\ w(R) \in Nat /\ w(T) \in Nat /\ Cardinality(T) <= w(T)
  <2>1. CASE uw
    <3>1. IsFiniteSet(R) /\ IsFiniteSet(T) /\ Cardinality(R) \in Nat /\ Cardinality(T) \in Nat
      BY <1>1, Sizes
    <3>2. Cardinality(R \cup T) = Cardinality(R) + Cardinality(T) - Cardinality(R \cap T)
      BY <3>1, FS_Union
    <3>3. Cardinality(R \cap T) = 0
      BY <1>1, FS_EmptySet
    <3> QED  BY <2>1, <3>1, <3>2, <3>3 DEF Value
  <2>2. CASE ~uw
    BY <1>1, <2>2, WeightOfUnion DEF Value
  <2> QED  BY <2>1, <2>2
<1> HIDE DEF w
<1>2. ASSUME NEW T, T \subseteq Vertices(h) PROVE w(T) \in Nat /\ (T = {} <=> w(T) = 0)
  <2>1. w({} \cup T) = w({}) + w(T) /\ w({}) \in Nat /\ w(T) \in Nat /\ Cardinality(T) <= w(T)
    BY <1>1, <1>2
  <2>2. {} \cup T = T
    OBVIOUS
  <2>3. T = {} <=> Cardinality(T) = 0
    BY <1>2, Sizes
  <2>4. Cardinality(T) \in Nat
    BY <1>2, Sizes
  <2>5. w({}) = 0
    BY <2>1, <2>2
  <2> QED  BY <2>1, <2>3, <2>4, <2>5
<1>3. ASSUME NEW R, R \subseteq S
      PROVE  /\ w(R) \in Nat /\ w(R) <= w(S)
             /\ R # S => w(R) < w(S)
  <2>1. /\ R \subseteq Vertices(h) /\ S \ R \subseteq Vertices(h) /\ R \cap (S \ R) = {}
        /\ R \cup (S \ R) = S /\ (R # S => S \ R # {})
    BY <1>3
  <2>2. w(S) = w(R) + w(S \ R)
    BY <1>1, <2>1
  <2>3. w(R) \in Nat /\ w(S \ R) \in Nat /\ (R # S => w(S \ R) # 0)
    BY <1>2, <2>1
  <2> QED  BY <2>2, <2>3
<1>4. Cardinality(S) <= SubgraphWeight(h, S)
  <2>1. {} \cap S = {} /\ {} \subseteq Vertices(h)
    OBVIOUS
  <2> QED  BY <2>1, WeightOfUnion
<1> QED  BY <1>1, <1>2, <1>3, <1>4 DEF w

AllTurn(k, f, T, S, stored) ==
    LET least == p.min - Cardinality(S)
        rest == NewTable(T, k)
        after == IF Cardinality(rest) < least - 1 THEN stored
                 ELSE AllHead(f, rest, S \union {table[k]}, stored)
    IN IF k = 0 THEN stored
       ELSE IF k \notin T THEN f[T][S][stored]
       ELSE IF sizes[table[k]] < least \/ Cardinality(UpTo(T, k)) < least THEN stored
       ELSE IF Stopped(p, after) THEN after ELSE f[T][S][after]

(* The loop of sub_unweighted_all, one turn at a time.                     *)
LEMMA AllLoopIs ==
    ASSUME Ready, NEW k \in Nat, NEW T \in SUBSET Places, NEW S \in SUBSET Vertices(g),
           NEW stored \in Seq(SUBSET Vertices(g))
    PROVE  /\ AllLoop[0][T][S][stored] = stored
           /\ AllLoop[k + 1][T][S][stored] = AllTurn(k + 1, AllLoop[k], T, S, stored)
<1> DEFINE A == SUBSET Places
           B == SUBSET Vertices(g)
           Q == Seq(B)
           X == [A -> [B -> [Q -> Q]]]
           body(j, f) == [R \in A |-> [C \in B |-> [q \in Q |-> AllTurn(j, f, R, C, q)]]]
           init == [R \in A |-> [C \in B |-> [q \in Q |-> q]]]
           step == [j \in Nat |-> [f \in X |-> body(j, f)]]
           F(f) == [j \in Nat |-> body(j, f[j - 1])]
<1>1. AllLoop = CHOOSE f : f = F(f)
  BY DEF AllLoop, AllTurn
<1>2. init \in X
  <2> HIDE DEF Q, A, B
  <2> QED  OBVIOUS
<1>3. ASSUME NEW j \in Nat, NEW f \in X, NEW R \in A, NEW C \in B, NEW q \in Q
      PROVE  AllTurn(j, f, R, C, q) \in Q
  <2>1. \A U \in A, D \in B, x \in Q : f[U][D][x] \in Q
    <3> HIDE DEF Q, A, B
    <3> QED  OBVIOUS
  <2>2. j \in R => C \cup {table[j]} \in B /\ NewTable(R, j) \in A
    BY DEF Ready, TableOf, Places, NewTable
  <2>3. \A D \in B, x \in Q : Append(x, D) \in Q
    OBVIOUS
  <2> HIDE DEF Q, A, B, X
  <2>4. \A U \in A, D \in B, x \in Q : AllHead(f, U, D, x) \in Q
    <3> SUFFICES ASSUME NEW U \in A, NEW D \in B, NEW x \in Q PROVE AllHead(f, U, D, x) \in Q
      OBVIOUS
    <3>1. Append(x, D) \in Q /\ f[U][D][x] \in Q /\ f[U][D][Append(x, D)] \in Q
      BY <2>1, <2>3
    <3> QED  BY <3>1 DEF AllHead
  <2>5. j \in R => AllHead(f, NewTable(R, j), C \cup {table[j]}, q) \in Q
    BY <2>2, <2>4
  <2>6. \A x \in Q : f[R][C][x] \in Q
    BY <2>1
  <2> QED  BY <2>5, <2>6 DEF AllTurn
<1>4. \A j \in Nat, f \in X : body(j, f) \in X
  <2> HIDE DEF Q, A, B
  <2> QED  BY <1>3
<1>5. PICK f : AreRounds(f, X, init, step)
  <2>1. step \in [Nat -> [X -> X]]
    <3> HIDE DEF X, body
    <3> QED  BY <1>4
  <2> HIDE DEF X, step, init
  <2> QED  BY <1>2, <2>1, Rounds
<1>6. f = F(f)
  <2>1. \A h : body(0, h) = init
    BY DEF AllTurn
  <2> HIDE DEF X, body, init
  <2> QED  BY <1>5, <2>1 DEF AreRounds
<1>7. AllLoop = F(AllLoop)
  <2> HIDE DEF F
  <2> QED  BY <1>1, <1>6
<1>8. AllLoop[0] = body(0, AllLoop[0 - 1]) /\ AllLoop[k + 1] = body(k + 1, AllLoop[k])
  <2>1. k + 1 \in Nat /\ k + 1 - 1 = k
    OBVIOUS
  <2>2. \A j \in Nat : AllLoop[j] = body(j, AllLoop[j - 1])
    <3> HIDE DEF body
    <3> QED  BY <1>7
  <2> HIDE DEF body
  <2> QED  BY <2>1, <2>2
<1>9. AllTurn(0, AllLoop[0 - 1], T, S, stored) = stored
  BY DEF AllTurn
<1> HIDE DEF A, B, Q
<1>10. T \in A /\ S \in B /\ stored \in Q
  BY DEF A, B, Q
<1> QED  BY <1>8, <1>9, <1>10

-----------------------------------------------------------------------------
(* A list that goes on from stored with sets of W, each once, and with all *)
(* of them unless it has grown beyond the cap.                             *)
Once(R) == \A m, n \in 1 .. Len(R) : R[m] = R[n] => m = n
Storing(stored, cap) ==
    stored \in Seq(SUBSET Vertices(g)) /\ Once(stored) /\ Len(stored) <= cap
Lists(R, stored, W, cap) ==
    /\ R \in Seq(SUBSET Vertices(g)) /\ Once(R) /\ Len(R) <= cap + 1
    /\ ToSet(stored) \subseteq ToSet(R) /\ ToSet(R) \subseteq ToSet(stored) \cup W
    /\ Len(R) <= cap => ToSet(R) = ToSet(stored) \cup W

(* Storing nothing lists no clique.                                        *)
LEMMA ListsNothing ==
    ASSUME NEW cap \in Nat, NEW stored, Storing(stored, cap)
    PROVE  Lists(stored, stored, {}, cap)
BY DEF Lists, Storing

(* Storing one clique lists it.                                            *)
LEMMA ListsOne ==
    ASSUME NEW cap \in Nat, NEW stored, Storing(stored, cap),
           NEW S, S \in SUBSET Vertices(g), S \notin ToSet(stored)
    PROVE  Lists(Append(stored, S), stored, {S}, cap)
<1> DEFINE B == SUBSET Vertices(g)
           R == Append(stored, S)
           n == Len(stored)
<1>1. stored \in Seq(B) /\ n \in Nat /\ n <= cap /\ \A j \in 1 .. n : stored[j] \in ToSet(stored)
  BY DEF Storing, ToSet
<1>2. S \in B
  OBVIOUS
<1> HIDE DEF B
<1>3. /\ R \in Seq(B) /\ Len(R) = n + 1 /\ R[n + 1] = S
      /\ \A j \in 1 .. n : R[j] = stored[j]
  BY <1>1, <1>2
<1> HIDE DEF R, n
<1>4. \A j \in 1 .. n + 1 : j \in 1 .. n \/ j = n + 1
  BY <1>1
<1>5. Once(R)
  BY <1>1, <1>3, <1>4 DEF Once, Storing, n
<1>6. ToSet(R) = ToSet(stored) \cup {S}
  <2>1. DOMAIN R = 1 .. n + 1 /\ DOMAIN stored = 1 .. n /\ n + 1 \in 1 .. n + 1
        /\ 1 .. n \subseteq 1 .. n + 1
    BY <1>1, <1>3 DEF n
  <2> QED  BY <1>3, <1>4, <2>1 DEF ToSet
<1>7. Len(R) <= cap + 1
  BY <1>1, <1>3
<1> QED  BY <1>3, <1>5, <1>6, <1>7 DEF Lists, R, B

(* Listing some cliques and then others lists both.                        *)
LEMMA ListsMore ==
    ASSUME NEW cap \in Nat, NEW stored, NEW R, NEW W1, Lists(R, stored, W1, cap), Len(R) <= cap,
           NEW W2, NEW U, Lists(U, R, W2, cap)
    PROVE  Lists(U, stored, W1 \cup W2, cap)
<1>1. ToSet(R) = ToSet(stored) \cup W1
  BY DEF Lists
<1> QED  BY <1>1 DEF Lists

(* A callback that stopped the search has stopped it for all that would    *)
(* follow.                                                                 *)
LEMMA ListsStopped ==
    ASSUME NEW cap \in Nat, NEW stored, NEW R, NEW W1, Lists(R, stored, W1, cap), ~(Len(R) <= cap),
           NEW W, W1 \subseteq W
    PROVE  Lists(R, stored, W, cap)
BY DEF Lists

(* A search that was not stopped has stored all it listed.                 *)
LEMMA ListsStores ==
    ASSUME NEW cap \in Nat, NEW stored, NEW R, NEW W, Lists(R, stored, W, cap), Len(R) <= cap
    PROVE  Storing(R, cap) /\ ToSet(R) = ToSet(stored) \cup W
BY DEF Lists, Storing

-----------------------------------------------------------------------------
(* A clique that a search under the limits q is to list; the cliques in    *)
(* the branch of S over a table.                                           *)
MaximalIn(h, S) == \A v \in Vertices(h) : \E u \in S : ~IsEdge(h, v, u)
Fit(h, uw, q, S) ==
    /\ Joined(h, S) /\ S # {}
    /\ Value(h, uw, S) >= q.min /\ Value(h, uw, S) <= q.max
    /\ q.maximal => MaximalIn(h, S)
Cands(S, T) ==
    {D \in SUBSET Vertices(g) : Joined(g, D) /\ S \subseteq D /\ D \ S \subseteq VerticesAt(T)}
Rooted(S, T) ==
    /\ Joined(g, S) /\ S # {} /\ T \subseteq Places
    /\ \A u \in S, v \in VerticesAt(T) : IsEdge(g, u, v) /\ IsEdge(g, v, u)

(* The branch of a node splits at the last place of its table.             *)
LEMMA NodeBelow ==
    ASSUME Ready, NEW S, NEW T, Rooted(S, T), NEW k \in T
    PROVE  /\ Rooted(S \cup {table[k]}, NewTable(T, k)) /\ table[k] \in Vertices(g) \ S
           /\ Rooted(S, UpTo(T, k - 1))
           /\ \A D : D \in Cands(S \cup {table[k]}, NewTable(T, k))
                    <=> D \in Cands(S, UpTo(T, k)) /\ table[k] \in D
           /\ \A D : D \in Cands(S, UpTo(T, k - 1))
                    <=> D \in Cands(S, UpTo(T, k)) /\ table[k] \notin D
<1> DEFINE v == table[k]
           below == VerticesAt(UpTo(T, k - 1))
           upto == VerticesAt(UpTo(T, k))
           rest == VerticesAt(NewTable(T, k))
<1>1. k \in Nat \ {0} /\ T \subseteq Places
  BY DEF Rooted, Places
<1>2. /\ UpTo(T, k - 1) \subseteq T /\ NewTable(T, k) \subseteq UpTo(T, k - 1)
      /\ upto = below \cup {v} /\ v \in Vertices(g) \ below
      /\ \A u : u \in rest <=> u \in below /\ IsEdge(g, v, u)
  <2>1. UpTo(T, k - 1) \subseteq T
    BY DEF UpTo
  <2> QED  BY <1>1, <2>1, LastPlace
<1>3. v \in VerticesAt(T) /\ below \subseteq VerticesAt(T)
  BY <1>2 DEF VerticesAt
<1>4. \A x, y \in Vertices(g) : (IsEdge(g, x, y) <=> IsEdge(g, y, x)) /\ ~IsEdge(g, x, x)
  BY EdgesAre DEF Ready
<1>5. \A u \in S : u \in Vertices(g) /\ IsEdge(g, u, v) /\ IsEdge(g, v, u)
  BY <1>3 DEF Rooted, Joined
<1>6. v \notin S
  BY <1>2, <1>4, <1>5
<1>7. rest \subseteq VerticesAt(T) /\ below \subseteq Vertices(g)
  BY <1>1, <1>2, <1>3, PlacesAre
<1> HIDE DEF v, below, upto, rest
<1>8. Rooted(S \cup {v}, NewTable(T, k))
  <2>1. Joined(g, S \cup {v}) /\ S \cup {v} # {} /\ NewTable(T, k) \subseteq Places
    BY <1>1, <1>2, <1>5 DEF Rooted, Joined
  <2>2. ASSUME NEW u \in S \cup {v}, NEW x \in rest PROVE IsEdge(g, u, x) /\ IsEdge(g, x, u)
    <3>1. x \in Vertices(g) /\ IsEdge(g, v, x) /\ IsEdge(g, x, v)
      BY <1>2, <1>4, <1>7
    <3>2. u \in S => IsEdge(g, u, x) /\ IsEdge(g, x, u)
      BY <1>7 DEF Rooted
    <3> QED  BY <3>1, <3>2
  <2> QED  BY <2>1, <2>2 DEF Rooted, rest
<1>9. Rooted(S, UpTo(T, k - 1))
  BY <1>1, <1>2, <1>3 DEF Rooted, below
<1>10. /\ \A D : D \in Cands(S \cup {v}, NewTable(T, k)) <=> D \in Cands(S, UpTo(T, k)) /\ v \in D
       /\ \A D : D \in Cands(S, UpTo(T, k - 1)) <=> D \in Cands(S, UpTo(T, k)) /\ v \notin D
  <2>1. ASSUME NEW D, Joined(g, D), v \in D, S \subseteq D
        PROVE  D \ (S \cup {v}) \subseteq rest <=> D \ S \subseteq upto
    BY <1>2, <2>1 DEF Joined
  <2>2. ASSUME NEW D
        PROVE  D \ S \subseteq below <=> D \ S \subseteq upto /\ v \notin D
    BY <1>2, <1>6
  <2>3. \A D : D \in Cands(S \cup {v}, NewTable(T, k)) <=> D \in Cands(S, UpTo(T, k)) /\ v \in D
    BY <2>1 DEF Cands, rest, upto
  <2>4. \A D : D \in Cands(S, UpTo(T, k - 1)) <=> D \in Cands(S, UpTo(T, k)) /\ v \notin D
    BY <2>2 DEF Cands, below, upto
  <2> QED  BY <2>3, <2>4
<1> QED  BY <1>2, <1>6, <1>8, <1>9, <1>10 DEF v, below

(* The value of a clique is that of a part and of the rest.                *)
LEMMA ValueRest ==
    ASSUME NEW h, Whole(h), NEW uw, NEW D, D \subseteq Vertices(h), NEW S, S \subseteq D
    PROVE  /\ Value(h, uw, D) = Value(h, uw, S) + Value(h, uw, D \ S)
           /\ Value(h, uw, D) \in Nat /\ Value(h, uw, S) \in Nat /\ Value(h, uw, D \ S) \in Nat
<1> DEFINE E == D \ S
<1>1. S \subseteq Vertices(h) /\ E \subseteq Vertices(h) /\ S \cap E = {} /\ S \cup E = D
  OBVIOUS
<1> HIDE DEF E
<1>2. /\ Value(h, uw, S \cup E) = Value(h, uw, S) + Value(h, uw, E)
      /\ Value(h, uw, S) \in Nat /\ Value(h, uw, E) \in Nat /\ Value(h, uw, D) \in Nat
  BY <1>1, Values
<1> QED  BY <1>1, <1>2 DEF E

(* Limits of an unweighted second phase.                                   *)
Sensible(q) ==
    /\ q.min \in Nat /\ q.max \in Nat /\ q.cap \in Nat /\ q.maximal \in BOOLEAN
    /\ q.min >= 1 /\ q.min <= q.max

Here(S, T) == {D \in Cands(S, T) : Fit(g, TRUE, p, D)}

(* The cliques that grow in a subtree, by the last place they take.        *)
LEMMA HereBelow ==
    ASSUME Ready, NEW S, NEW T, Rooted(S, T), NEW k \in Nat, k \in T
    PROVE  /\ Rooted(S \cup {table[k]}, NewTable(T, k)) /\ table[k] \in Vertices(g) \ S
           /\ Rooted(S, UpTo(T, k - 1))
           /\ \A D : D \in Here(S \cup {table[k]}, NewTable(T, k))
                    <=> D \in Here(S, UpTo(T, k)) /\ table[k] \in D
           /\ \A D : D \in Here(S, UpTo(T, k - 1)) <=> D \in Here(S, UpTo(T, k)) /\ table[k] \notin D
BY NodeBelow DEF Here

(* A set in the branch is no larger than what it can be made of.           *)
LEMMA HereCounts ==
    ASSUME Ready, NEW S, S \subseteq Vertices(g), NEW T, T \subseteq Places, NEW D \in Here(S, T)
    PROVE  /\ Cardinality(D) \in Nat /\ Cardinality(S) \in Nat /\ Cardinality(T) \in Nat
           /\ Cardinality(D) <= Cardinality(S) + Cardinality(T)
           /\ D # S => Cardinality(D) > Cardinality(S)
           /\ Cardinality(D) >= p.min /\ Cardinality(D) <= p.max
<1>1. /\ D \subseteq Vertices(g) /\ S \subseteq D /\ D \ S \subseteq VerticesAt(T)
      /\ Cardinality(D) >= p.min /\ Cardinality(D) <= p.max
  BY DEF Here, Cands, Fit, Value
<1>2. Cardinality(D \ S) <= Cardinality(T) /\ Cardinality(T) \in Nat
  BY <1>1, PlacesAre
<1>3. Cardinality(D) = Cardinality(S) + Cardinality(D \ S) /\ Cardinality(D \ S) \in Nat
      /\ Cardinality(S) \in Nat /\ Cardinality(D) \in Nat
  <2>1. \A uw : /\ Value(g, uw, D) = Value(g, uw, S) + Value(g, uw, D \ S)
                /\ Value(g, uw, D) \in Nat /\ Value(g, uw, S) \in Nat /\ Value(g, uw, D \ S) \in Nat
    BY <1>1, ValueRest DEF Ready
  <2>2. /\ Value(g, TRUE, D) = Value(g, TRUE, S) + Value(g, TRUE, D \ S)
        /\ Value(g, TRUE, D) \in Nat /\ Value(g, TRUE, S) \in Nat /\ Value(g, TRUE, D \ S) \in Nat
    BY <2>1, Zenon
  <2> QED  BY <2>2 DEF Value
<1>4. D # S => Cardinality(D \ S) # 0
  BY <1>1, Sizes DEF Ready
<1> QED  BY <1>1, <1>2, <1>3, <1>4

(* A call stores its own clique or those of its loop, each once.           *)
LEMMA AllHeadLists ==
    ASSUME Ready, Sensible(p), NEW S, NEW T, Rooted(S, T), Cardinality(S) <= p.max,
           NEW stored, Storing(stored, p.cap), ToSet(stored) \cap Here(S, T) = {},
           NEW f,
           Cardinality(S) < p.max =>
               \A st : Storing(st, p.cap) /\ ToSet(st) \cap (Here(S, T) \ {S}) = {}
                       => Lists(f[T][S][st], st, Here(S, T) \ {S}, p.cap)
    PROVE  Lists(AllHead(f, T, S, stored), stored, Here(S, T), p.cap)
<1> DEFINE n == Cardinality(S)
           W == Here(S, T)
           fits == n >= p.min /\ (~p.maximal \/ IsMaximal(S))
           kept == IF fits THEN Append(stored, S) ELSE stored
           R == AllHead(f, T, S, stored)
<1>1. /\ S \subseteq Vertices(g) /\ S # {} /\ Joined(g, S) /\ T \subseteq Places
      /\ n \in Nat /\ n >= 1
      /\ \A D : D \subseteq Vertices(g) => Cardinality(D) \in Nat
      /\ p.min \in Nat /\ p.max \in Nat /\ p.cap \in Nat
  <2>1. S \subseteq Vertices(g) /\ S # {} /\ Joined(g, S) /\ T \subseteq Places
    BY DEF Rooted, Joined
  <2>2. n \in Nat /\ n # 0 /\ \A D : D \subseteq Vertices(g) => Cardinality(D) \in Nat
    BY <2>1, Sizes DEF Ready
  <2> QED  BY <2>1, <2>2 DEF Sensible
<1>2. fits <=> S \in W
  <2>1. IsMaximal(S) <=> MaximalIn(g, S)
    BY DEF IsMaximal, MaximalIn
  <2>2. Fit(g, TRUE, p, S) <=> fits
    BY <1>1, <2>1 DEF Fit, Value, Sensible
  <2> QED  BY <1>1, <2>2 DEF Here, Cands
<1>3. \A D \in W : /\ D \subseteq Vertices(g) /\ S \subseteq D /\ D \ S \subseteq VerticesAt(T)
                   /\ Cardinality(D) >= p.min /\ Cardinality(D) <= p.max
  BY DEF Here, Cands, Fit, Value
<1>4. ASSUME NEW D \in W
      PROVE  /\ Cardinality(D) \in Nat /\ Cardinality(T) \in Nat
             /\ Cardinality(D) <= n + Cardinality(T) /\ (D # S => Cardinality(D) > n)
  BY <1>1, HereCounts
<1>5. Lists(kept, stored, IF fits THEN {S} ELSE {}, p.cap)
  <2>1. CASE fits
    <3>1. S \notin ToSet(stored) /\ S \in SUBSET Vertices(g)
      BY <1>1, <1>2, <2>1
    <3> QED  BY <1>1, <2>1, <3>1, ListsOne
  <2>2. CASE ~fits
    BY <1>1, <2>2, ListsNothing
  <2> QED  BY <2>1, <2>2
<1>6. Len(kept) \in Nat
  BY <1>5 DEF Lists
<1>7. R = IF Stopped(p, kept) \/ (p.min - n <= 0 /\ p.max - n <= 0) \/ Cardinality(T) < p.min - n
          THEN kept ELSE f[T][S][kept]
  <2>1. p.min - n <= 0 <=> n >= p.min
    BY <1>1
  <2> QED  BY <2>1 DEF AllHead
<1>8. Cardinality(T) \in Nat
  BY <1>1, PlacesAre
<1> HIDE DEF n, W, fits, kept, R
<1>9. CASE Stopped(p, kept)
  <2>1. R = kept /\ ~(Len(kept) <= p.cap)
    BY <1>1, <1>6, <1>7, <1>9 DEF Stopped
  <2>2. (IF fits THEN {S} ELSE {}) \subseteq W
    BY <1>2
  <2> QED  BY <1>1, <1>5, <2>1, <2>2, ListsStopped DEF W, R
<1>10. CASE ~Stopped(p, kept)
  <2>1. Len(kept) <= p.cap
    BY <1>1, <1>6, <1>10 DEF Stopped
  <2>2. CASE W \subseteq {S} /\ R = kept
    <3>1. W = IF fits THEN {S} ELSE {}
      BY <1>2, <2>2
    <3> QED  BY <1>5, <2>2, <3>1 DEF W, R
  <2>3. CASE p.min - n <= 0 /\ p.max - n <= 0
    <3>1. R = kept
      BY <1>7, <2>3
    <3>2. \A D \in W : D = S
      BY <1>1, <1>3, <1>4, <2>3
    <3> QED  BY <2>2, <3>1, <3>2
  <2>4. CASE Cardinality(T) < p.min - n
    <3>1. R = kept
      BY <1>7, <2>4
    <3>2. \A D \in W : FALSE
      BY <1>1, <1>3, <1>4, <1>8, <2>4
    <3> QED  BY <2>2, <3>1, <3>2
  <2>5. CASE ~(p.min - n <= 0 /\ p.max - n <= 0) /\ ~(Cardinality(T) < p.min - n)
    <3>1. R = f[T][S][kept]
      BY <1>7, <1>10, <2>5
    <3>2. n < p.max
      BY <1>1, <2>5 DEF Sensible, n
    <3>3. Storing(kept, p.cap) /\ ToSet(kept) = ToSet(stored) \cup (IF fits THEN {S} ELSE {})
      BY <1>1, <1>5, <2>1, ListsStores
    <3>4. ToSet(kept) \cap (W \ {S}) = {}
      BY <3>3 DEF W
    <3>5. Lists(R, kept, W \ {S}, p.cap)
      BY <3>1, <3>2, <3>3, <3>4 DEF W, n
    <3>6. Lists(R, stored, (IF fits THEN {S} ELSE {}) \cup (W \ {S}), p.cap)
      BY <1>1, <1>5, <2>1, <3>5, ListsMore
    <3>7. (IF fits THEN {S} ELSE {}) \cup (W \ {S}) = W
      BY <1>2
    <3> QED  BY <3>6, <3>7 DEF W, R
  <2> QED  BY <2>3, <2>4, <2>5
<1> QED  BY <1>9, <1>10

(* What the searches below a place may prune by.                           *)
Prunes(h, uw, least, t, s, top) ==
    \A k \in 1 .. top :
        /\ s[t[k]] \in Nat
        /\ \A C : Joined(h, C) /\ C \subseteq Images(t, 1 .. k)
                  => Value(h, uw, C) <= s[t[k]] \/ s[t[k]] >= least

(* The loop of sub_unweighted_all stores each clique asked for once.       *)
LEMMA AllLoopLists ==
    ASSUME Ready, Sensible(p), NEW top \in Nat, top <= g.n,
           Prunes(g, TRUE, p.min, table, sizes, top), NEW n \in Nat
    PROVE  \A T, S, stored :
              /\ T \subseteq 1 .. top /\ Rooted(S, T) /\ Cardinality(S) < p.max
              /\ Storing(stored, p.cap) /\ ToSet(stored) \cap (Here(S, UpTo(T, n)) \ {S}) = {}
              => Lists(AllLoop[n][T][S][stored], stored, Here(S, UpTo(T, n)) \ {S}, p.cap)
<1> DEFINE Asked(k, T, S, stored) ==
               /\ T \subseteq 1 .. top /\ Rooted(S, T) /\ Cardinality(S) < p.max
               /\ Storing(stored, p.cap) /\ ToSet(stored) \cap (Here(S, UpTo(T, k)) \ {S}) = {}
           Done(k, T, S, stored) ==
               Lists(AllLoop[k][T][S][stored], stored, Here(S, UpTo(T, k)) \ {S}, p.cap)
           Good(k) == \A T, S, stored : Asked(k, T, S, stored) => Done(k, T, S, stored)
           A == {k \in Nat : Good(k)}
<1>p. \A T, S, stored, k : Asked(k, T, S, stored)
          => /\ T \subseteq Places /\ T \in SUBSET Places /\ S \in SUBSET Vertices(g)
             /\ stored \in Seq(SUBSET Vertices(g)) /\ p.cap \in Nat
  BY DEF Rooted, Joined, Storing, Sensible
<1>1. 0 \in A
  <2> SUFFICES ASSUME NEW T, NEW S, NEW stored, Asked(0, T, S, stored) PROVE Done(0, T, S, stored)
    OBVIOUS
  <2>1. T \subseteq Places /\ T \in SUBSET Places /\ S \in SUBSET Vertices(g)
        /\ stored \in Seq(SUBSET Vertices(g)) /\ p.cap \in Nat
    BY <1>p
  <2>2. AllLoop[0][T][S][stored] = stored
    BY <2>1, AllLoopIs
  <2>3. UpTo(T, 0) = {}
    <3>1. \A x \in T : x \in 1 .. g.n
      BY <2>1 DEF Places
    <3>2. g.n \in Nat
      BY DEF Ready
    <3>3. \A x \in T : ~(x <= 0)
      BY <3>1, <3>2
    <3> QED  BY <3>3 DEF UpTo
  <2>4. VerticesAt({}) = {}
    BY DEF VerticesAt
  <2>5. Here(S, {}) \ {S} = {}
    BY <2>4 DEF Here, Cands
  <2>6. Lists(stored, stored, {}, p.cap)
    BY <2>1, ListsNothing
  <2> QED  BY <2>2, <2>3, <2>5, <2>6
<1>2. ASSUME NEW k \in Nat, k \in A PROVE k + 1 \in A
  <2> DEFINE l == k + 1
  <2>0. l \in Nat \ {0} /\ l - 1 = k
    OBVIOUS
  <2>g. \A T, S, stored : Asked(k, T, S, stored) => Done(k, T, S, stored)
    <3> HIDE DEF Asked, Done
    <3> QED  BY <1>2
  <2> SUFFICES ASSUME NEW T, NEW S, NEW stored, Asked(l, T, S, stored) PROVE Done(l, T, S, stored)
    <3> HIDE DEF Asked, Done
    <3> QED  OBVIOUS
  <2> DEFINE v == table[l]
             rest == NewTable(T, l)
             m == Cardinality(S)
             least == p.min - m
             f == AllLoop[k]
             W == Here(S, UpTo(T, l)) \ {S}
             W2 == Here(S, UpTo(T, k)) \ {S}
             R == AllLoop[l][T][S][stored]
  <2>1. /\ T \subseteq Places /\ T \in SUBSET Places /\ S \in SUBSET Vertices(g)
        /\ stored \in Seq(SUBSET Vertices(g)) /\ p.cap \in Nat /\ p.min \in Nat /\ p.max \in Nat
        /\ Storing(stored, p.cap) /\ Rooted(S, T) /\ T \subseteq 1 .. top
        /\ ToSet(stored) \cap W = {} /\ m < p.max
    BY <1>p DEF Sensible
  <2>2. R = AllTurn(l, f, T, S, stored)
    BY <2>1, AllLoopIs
  <2>3. m \in Nat /\ m >= 1 /\ \A D : D \subseteq Vertices(g) => Cardinality(D) \in Nat
    <3>1. S # {}
      BY <2>1 DEF Rooted
    <3> QED  BY <2>1, <3>1, Sizes DEF Ready
  <2> HIDE DEF l
  <2>4. CASE l \notin T
    <3>1. UpTo(T, l) = UpTo(T, k)
      BY <2>0, <2>1, <2>4, LastPlace
    <3>2. R = f[T][S][stored]
      BY <2>0, <2>2, <2>4 DEF AllTurn
    <3>3. Done(k, T, S, stored)
      <4>1. Asked(k, T, S, stored)
        BY <2>1, <3>1
      <4> HIDE DEF Asked, Done
      <4> QED  BY <2>g, <4>1
    <3> QED  BY <3>1, <3>2, <3>3
  <2>5. ASSUME NEW D \in W
        PROVE  /\ D \subseteq Vertices(g) /\ S \subseteq D /\ Joined(g, D \ S)
               /\ D \ S \subseteq VerticesAt(UpTo(T, l))
               /\ Cardinality(D) = m + Cardinality(D \ S) /\ Cardinality(D \ S) \in Nat
               /\ Cardinality(D) >= p.min /\ Cardinality(D) \in Nat
    <3>1. /\ D \subseteq Vertices(g) /\ S \subseteq D /\ D \ S \subseteq VerticesAt(UpTo(T, l))
          /\ Joined(g, D) /\ Cardinality(D) >= p.min
      BY DEF Here, Cands, Fit, Value
    <3>3. Cardinality(D) = m + Cardinality(D \ S) /\ Cardinality(D \ S) \in Nat
      BY <3>1, ValueRest DEF Value, Ready
    <3>4. Joined(g, D \ S)
      BY <3>1 DEF Joined
    <3> QED  BY <2>3, <3>1, <3>3, <3>4
  <2>6. CASE l \in T /\ (sizes[v] < least \/ Cardinality(UpTo(T, l)) < least)
    <3>1. R = stored
      BY <2>0, <2>2, <2>6 DEF AllTurn
    <3>2. UpTo(T, l) \subseteq Places
      BY <2>0, <2>1, LastPlace
    <3>3. W = {}
      <4> SUFFICES ASSUME NEW D \in W PROVE FALSE
        OBVIOUS
      <4> DEFINE c == Cardinality(D \ S)
                 d == Cardinality(D)
      <4>0. d = m + c /\ c \in Nat /\ d >= p.min /\ d \in Nat /\ p.min \in Nat /\ m \in Nat
        BY <2>1, <2>3, <2>5
      <4>1. c >= least /\ c \in Nat
        <5> HIDE DEF c, d, m
        <5> QED  BY <4>0
      <4>2. CASE Cardinality(UpTo(T, l)) < least
        <5>1. Cardinality(D \ S) <= Cardinality(UpTo(T, l)) /\ Cardinality(UpTo(T, l)) \in Nat
          BY <2>5, <3>2, PlacesAre
        <5> QED  BY <2>1, <2>3, <4>1, <4>2, <5>1
      <4>3. CASE sizes[v] < least
        <5>1. l \in 1 .. top /\ UpTo(T, l) \subseteq 1 .. l
          <6>1. \A x \in UpTo(T, l) : x \in 1 .. top /\ x <= l
            BY <2>1 DEF UpTo
          <6>2. l \in 1 .. top
            BY <2>1, <2>6
          <6> QED  BY <6>1, <6>2
        <5>2. D \ S \subseteq Images(table, 1 .. l)
          BY <2>5, <5>1 DEF VerticesAt, Images
        <5>3. sizes[v] \in Nat
          BY <5>1 DEF Prunes
        <5>4. Value(g, TRUE, D \ S) <= sizes[v] \/ sizes[v] >= p.min
          BY <2>5, <5>1, <5>2 DEF Prunes
        <5> QED  BY <2>1, <2>3, <4>1, <4>3, <5>3, <5>4 DEF Value
      <4> QED  BY <2>6, <4>2, <4>3
    <3>4. Lists(stored, stored, {}, p.cap)
      BY <2>1, ListsNothing
    <3> QED  BY <3>1, <3>3, <3>4
  <2>7. CASE l \in T /\ ~(sizes[v] < least) /\ ~(Cardinality(UpTo(T, l)) < least)
    <3> DEFINE after == IF Cardinality(rest) < least - 1 THEN stored
                        ELSE AllHead(f, rest, S \union {v}, stored)
               W1 == Here(S \cup {v}, rest)
    <3>1. R = IF Stopped(p, after) THEN after ELSE f[T][S][after]
      BY <2>0, <2>2, <2>7 DEF AllTurn
    <3>2. /\ Rooted(S \cup {v}, rest) /\ v \in Vertices(g) \ S /\ Rooted(S, UpTo(T, k))
          /\ \A D : D \in W1 <=> D \in Here(S, UpTo(T, l)) /\ v \in D
          /\ \A D : D \in Here(S, UpTo(T, k)) <=> D \in Here(S, UpTo(T, l)) /\ v \notin D
      <4>1. Rooted(S, T) /\ l \in T /\ l \in Nat
        BY <2>0, <2>1, <2>7
      <4> HIDE DEF Asked, Done, W, W2, R, f, m, after
      <4>2. /\ Rooted(S \cup {table[l]}, NewTable(T, l)) /\ table[l] \in Vertices(g) \ S
            /\ Rooted(S, UpTo(T, l - 1))
            /\ \A D : D \in Here(S \cup {table[l]}, NewTable(T, l))
                     <=> D \in Here(S, UpTo(T, l)) /\ table[l] \in D
            /\ \A D : D \in Here(S, UpTo(T, l - 1)) <=> D \in Here(S, UpTo(T, l)) /\ table[l] \notin D
        <5> HIDE DEF W1, v, rest
        <5> QED  BY <4>1, HereBelow
      <4> QED  BY <2>0, <4>2
    <3>3. W1 \cup W2 = W /\ W1 \cap W2 = {} /\ W1 \subseteq W /\ W2 \subseteq W
      <4> HIDE DEF W1
      <4> QED  BY <3>2
    <3>4. /\ rest \subseteq UpTo(T, k) /\ rest \subseteq 1 .. top /\ UpTo(rest, k) = rest
          /\ rest \subseteq Places
      <4>1. rest \subseteq UpTo(T, k) /\ UpTo(T, k) \subseteq T
        <5>1. UpTo(T, k) \subseteq T
          BY DEF UpTo
        <5> QED  BY <2>0, <2>1, <5>1, LastPlace
      <4> HIDE DEF rest
      <4>2. UpTo(rest, k) = rest
        BY <4>1 DEF UpTo
      <4> QED  BY <2>1, <4>1, <4>2
    <3>5. Cardinality(S \cup {v}) = m + 1
      BY <2>1, <3>2, Sizes DEF Ready
    <3>6. Lists(after, stored, W1, p.cap)
      <4>1. CASE Cardinality(rest) < least - 1
        <5>1. W1 = {}
          <6> SUFFICES ASSUME NEW D \in W1 PROVE FALSE
            OBVIOUS
          <6> DEFINE U == S \cup {v}
                     d == Cardinality(D)
          <6>1. U \subseteq Vertices(g) /\ D \in Here(U, rest)
            BY <2>1, <3>2
          <6> HIDE DEF U, W1, rest
          <6>2. /\ d \in Nat /\ Cardinality(U) \in Nat /\ Cardinality(rest) \in Nat
                /\ d <= Cardinality(U) + Cardinality(rest) /\ d >= p.min
            BY <3>4, <6>1, HereCounts
          <6>3. Cardinality(U) = m + 1
            BY <3>5 DEF U
          <6> HIDE DEF d, m
          <6> QED  BY <2>1, <2>3, <4>1, <6>2, <6>3
        <5>2. Lists(stored, stored, {}, p.cap)
          BY <2>1, ListsNothing
        <5> QED  BY <4>1, <5>1, <5>2
      <4>2. CASE ~(Cardinality(rest) < least - 1)
        <5> DEFINE U == S \cup {v}
        <5>1. Cardinality(U) <= p.max
          BY <2>1, <2>3, <3>5
        <5>2. ToSet(stored) \cap Here(U, rest) = {}
          BY <2>1, <3>3
        <5>3. ASSUME Cardinality(U) < p.max, NEW st, Storing(st, p.cap),
                     ToSet(st) \cap (Here(U, rest) \ {U}) = {}
              PROVE  Lists(f[rest][U][st], st, Here(U, rest) \ {U}, p.cap)
          <6>1. Asked(k, rest, U, st)
            BY <3>2, <3>4, <5>3
          <6>2. Done(k, rest, U, st)
            <7> HIDE DEF Asked, Done
            <7> QED  BY <2>g, <6>1
          <6> QED  BY <3>4, <6>2
        <5> HIDE DEF U, f, rest
        <5>4. Lists(AllHead(f, rest, U, stored), stored, Here(U, rest), p.cap)
          BY <2>1, <3>2, <5>1, <5>2, <5>3, AllHeadLists DEF U
        <5> QED  BY <4>2, <5>4 DEF U
      <4> QED  BY <4>1, <4>2
    <3> HIDE DEF after, W1
    <3>7. Len(after) \in Nat
      BY <3>6 DEF Lists
    <3>8. CASE Stopped(p, after)
      <4>1. R = after /\ ~(Len(after) <= p.cap)
        BY <2>1, <3>1, <3>7, <3>8 DEF Stopped
      <4>2. Lists(after, stored, W, p.cap)
        <5> HIDE DEF W
        <5> QED  BY <2>1, <3>3, <3>6, <4>1, ListsStopped
      <4> QED  BY <4>1, <4>2
    <3>9. CASE ~Stopped(p, after)
      <4>1. R = f[T][S][after] /\ Len(after) <= p.cap
        BY <2>1, <3>1, <3>7, <3>9 DEF Stopped
      <4>2. Storing(after, p.cap) /\ ToSet(after) = ToSet(stored) \cup W1
        BY <2>1, <3>6, <4>1, ListsStores
      <4>3. Asked(k, T, S, after)
        <5>1. ToSet(after) \cap W2 = {}
          <6> HIDE DEF W, W2
          <6> QED  BY <2>1, <3>3, <4>2
        <5> QED  BY <2>1, <4>2, <5>1
      <4>4. Lists(f[T][S][after], after, W2, p.cap)
        <5>1. Done(k, T, S, after)
          <6> HIDE DEF Asked, Done
          <6> QED  BY <2>g, <4>3
        <5> QED  BY <5>1
      <4>5. Lists(R, stored, W1 \cup W2, p.cap)
        <5> HIDE DEF W2, R, f
        <5> QED  BY <2>1, <3>6, <4>1, <4>4, ListsMore
      <4> QED  BY <3>3, <4>5
    <3> QED  BY <3>8, <3>9
  <2> QED  BY <2>4, <2>6, <2>7
<1> HIDE DEF A
<1>3. n \in A
  BY <1>1, <1>2, Induction
<1> QED  BY <1>3 DEF A

(* A turn of the unweighted second phase lists the wanted cliques whose    *)
(* last place it is (sub_unweighted_all).                                  *)
LEMMA SubAllLists ==
    ASSUME Ready, Sensible(p), NEW top \in Nat, top <= g.n,
           Prunes(g, TRUE, p.min, table, sizes, top),
           NEW T, T \subseteq 1 .. top, NEW S, Rooted(S, T), Cardinality(S) <= p.max,
           NEW stored, Storing(stored, p.cap), ToSet(stored) \cap Here(S, T) = {}
    PROVE  Lists(SubAll(T, S, stored), stored, Here(S, T), p.cap)
<1>1. g.n \in Nat /\ T \subseteq Places
  BY DEF Ready, Rooted
<1>2. UpTo(T, g.n) = T
  <2>1. \A k \in T : k \in 1 .. g.n
    BY <1>1 DEF Places
  <2>2. \A k \in T : k <= g.n
    BY <1>1, <2>1
  <2> QED  BY <2>2 DEF UpTo
<1>3. Cardinality(S) < p.max =>
          \A st : Storing(st, p.cap) /\ ToSet(st) \cap (Here(S, T) \ {S}) = {}
                  => Lists(AllLoop[g.n][T][S][st], st, Here(S, T) \ {S}, p.cap)
  BY <1>1, <1>2, AllLoopLists
<1> QED  BY <1>3, AllHeadLists DEF SubAll

-----------------------------------------------------------------------------
(* Searching by weight.                                                    *)

WeightedTurn(k, f, q, T, S, st) ==
    LET w == Weight(S)
        rest == NewTable(T, k)
        more == S \union {table[k]}
        enter == Weight(more) + TableWeight(rest) > st.low
        after == IF enter THEN WeightedHead(f, q, rest, more, st) ELSE st
    IN IF k = 0 THEN st
       ELSE IF k \notin T THEN f[q][T][S][st]
       ELSE IF w + sizes[table[k]] <= st.low \/ w + TableWeight(UpTo(T, k)) <= st.low THEN st
       ELSE IF enter /\ (after.low < 0 \/ after.low >= q.high) THEN after
       ELSE f[q][T][S][after]

(* What a weighted search hands from turn to turn.                         *)
LEMMA OutcomeParts ==
    ASSUME NEW st \in Outcomes
    PROVE  /\ st.low \in Int /\ st.best \in MaybeClique /\ st.found \in Seq(SUBSET Vertices(g))
           /\ \A l, b, x : l \in Int /\ b \in MaybeClique /\ x \in Seq(SUBSET Vertices(g))
                           => [low |-> l, best |-> b, found |-> x] \in Outcomes
           /\ \A l \in Int : [st EXCEPT !.low = l] = [low |-> l, best |-> st.best, found |-> st.found]
                               /\ [st EXCEPT !.low = l] \in Outcomes
           /\ \A S \in SUBSET Vertices(g) : S \in MaybeClique /\ Append(st.found, S) \in Seq(SUBSET Vertices(g))
<1>1. st.low \in Int /\ st.best \in MaybeClique /\ st.found \in Seq(SUBSET Vertices(g))
  BY DEF Outcomes
<1>2. \A S \in SUBSET Vertices(g) : S \in MaybeClique /\ Append(st.found, S) \in Seq(SUBSET Vertices(g))
  BY <1>1 DEF MaybeClique
<1>3. \A l, b, x : l \in Int /\ b \in MaybeClique /\ x \in Seq(SUBSET Vertices(g))
                   => [low |-> l, best |-> b, found |-> x] \in Outcomes
  BY DEF Outcomes
<1>4. \A l : [st EXCEPT !.low = l] = [low |-> l, best |-> st.best, found |-> st.found]
  BY DEF Outcomes
<1> QED  BY <1>1, <1>2, <1>3, <1>4

(* A call of sub_weighted_all hands back such an outcome.                  *)
LEMMA WeightedHeadType ==
    ASSUME NEW st \in Outcomes, NEW S \in SUBSET Vertices(g), NEW q \in Limits, NEW T, NEW f, Whole(g),
           \A x \in Outcomes : f[q][T][S][x] \in Outcomes
    PROVE  WeightedHead(f, q, T, S, st) \in Outcomes
<1> DEFINE w == Weight(S)
           fits == w >= q.min /\ w <= q.max /\ (~q.maximal \/ IsMaximal(S))
           more == [low |-> st.low, best |-> IF q.keep THEN S ELSE st.best,
                    found |-> Append(st.found, S)]
           kept == IF fits THEN more ELSE st
           low == IF w < q.min THEN w ELSE q.min - 1
<1>1. w \in Nat /\ q.min \in Nat
  BY WeightAdds DEF Weight, Limits
<1>2. (IF q.keep THEN S ELSE st.best) \in MaybeClique
  BY OutcomeParts
<1>3. more \in Outcomes
  BY <1>2, OutcomeParts
<1>4. kept \in Outcomes
  BY <1>3
<1>5. [more EXCEPT !.low = -1] \in Outcomes /\ [kept EXCEPT !.low = q.min - 1] \in Outcomes
  <2> HIDE DEF kept, more
  <2>1. \A x \in Outcomes, l \in Int : [x EXCEPT !.low = l] \in Outcomes
    BY OutcomeParts
  <2>2. -1 \in Int /\ q.min - 1 \in Int
    BY <1>1
  <2> QED  BY <1>3, <1>4, <2>1, <2>2, Zenon
<1>6. [low |-> low, best |-> S, found |-> kept.found] \in Outcomes
  <2>1. low \in Int
    <3> HIDE DEF w
    <3> QED  BY <1>1
  <2> HIDE DEF kept, low
  <2> QED  BY <1>4, <2>1, OutcomeParts
<1>7. f[q][T][S][kept] \in Outcomes
  BY <1>4
<1> HIDE DEF kept, more, fits, w, low
<1> QED  BY <1>3, <1>4, <1>5, <1>6, <1>7 DEF WeightedHead, TooHeavy, kept, more, fits, w, low

(* The loop of sub_weighted_all, one turn at a time.                       *)
LEMMA WeightedLoopIs ==
    ASSUME Ready, NEW k \in Nat, NEW q \in Limits, NEW T \in SUBSET Places, NEW S \in SUBSET Vertices(g),
           NEW st \in Outcomes
    PROVE  /\ WeightedLoop[0][q][T][S][st] = st
           /\ WeightedLoop[k + 1][q][T][S][st] = WeightedTurn(k + 1, WeightedLoop[k], q, T, S, st)
<1> DEFINE A == SUBSET Places
           B == SUBSET Vertices(g)
           Q == Outcomes
           X == [Limits -> [A -> [B -> [Q -> Q]]]]
           body(j, f) == [x \in Limits |-> [R \in A |-> [C \in B |-> [y \in Q |->
                             WeightedTurn(j, f, x, R, C, y)]]]]
           init == [x \in Limits |-> [R \in A |-> [C \in B |-> [y \in Q |-> y]]]]
           step == [j \in Nat |-> [f \in X |-> body(j, f)]]
           F(f) == [j \in Nat |-> body(j, f[j - 1])]
<1>1. WeightedLoop = CHOOSE f : f = F(f)
  BY DEF WeightedLoop, WeightedTurn
<1>2. init \in X
  <2> HIDE DEF Q, A, B
  <2> QED  OBVIOUS
<1>3. ASSUME NEW j \in Nat, NEW f \in X, NEW x \in Limits, NEW R \in A, NEW C \in B, NEW y \in Q
      PROVE  WeightedTurn(j, f, x, R, C, y) \in Q
  <2>1. \A U \in A, D \in B, z \in Q : f[x][U][D][z] \in Q
    <3> HIDE DEF Q, A, B
    <3> QED  OBVIOUS
  <2>2. j \in R => C \cup {table[j]} \in B /\ NewTable(R, j) \in A
    BY DEF Ready, TableOf, Places, NewTable
  <2>3. ASSUME NEW U \in A, NEW D \in B, NEW z \in Q PROVE WeightedHead(f, x, U, D, z) \in Q
    <3>1. Whole(g)
      BY DEF Ready
    <3>2. \A o \in Q : f[x][U][D][o] \in Q
      BY <2>1
    <3> HIDE DEF X, A
    <3> QED  BY <3>1, <3>2, WeightedHeadType
  <2> HIDE DEF Q, A, B, X
  <2>5. j \in R => WeightedHead(f, x, NewTable(R, j), C \cup {table[j]}, y) \in Q
    BY <2>2, <2>3
  <2>6. \A z \in Q : f[x][R][C][z] \in Q
    BY <2>1
  <2> QED  BY <2>5, <2>6 DEF WeightedTurn
<1>4. \A j \in Nat, f \in X : body(j, f) \in X
  <2> HIDE DEF Q, A, B
  <2> QED  BY <1>3
<1>5. PICK f : AreRounds(f, X, init, step)
  <2>1. step \in [Nat -> [X -> X]]
    <3> HIDE DEF X, body
    <3> QED  BY <1>4
  <2> HIDE DEF X, step, init
  <2> QED  BY <1>2, <2>1, Rounds
<1>6. f = F(f)
  <2>1. \A h : body(0, h) = init
    BY DEF WeightedTurn
  <2> HIDE DEF X, body, init
  <2> QED  BY <1>5, <2>1 DEF AreRounds
<1>7. WeightedLoop = F(WeightedLoop)
  <2> HIDE DEF F
  <2> QED  BY <1>1, <1>6
<1>8. WeightedLoop[0] = body(0, WeightedLoop[0 - 1]) /\ WeightedLoop[k + 1] = body(k + 1, WeightedLoop[k])
  <2>1. k + 1 \in Nat /\ k + 1 - 1 = k
    OBVIOUS
  <2>2. \A j \in Nat : WeightedLoop[j] = body(j, WeightedLoop[j - 1])
    <3> HIDE DEF body
    <3> QED  BY <1>7
  <2> HIDE DEF body
  <2> QED  BY <2>1, <2>2
<1>9. WeightedTurn(0, WeightedLoop[0 - 1], q, T, S, st) = st
  BY DEF WeightedTurn
<1> HIDE DEF A, B, Q
<1>10. T \in A /\ S \in B /\ st \in Q
  BY DEF A, B, Q
<1> QED  BY <1>8, <1>9, <1>10

(* Those of the cliques C that a search is to list, and what a search may  *)
(* make of the outcome st when it goes through C.                          *)
Fits(q, C) == {D \in C : Fit(g, FALSE, q, D)}
Start(q, st) ==
    /\ q \in Limits /\ q.min >= 1 /\ st \in Outcomes /\ Storing(st.found, q.cap)
    /\ 0 <= st.low /\ st.low <= q.min - 1
Learned(q, st, r, C) ==
    /\ st.low <= r.low /\ r.low <= q.min - 1
    /\ \A D \in C : Weight(D) <= r.low \/ r.low = q.min - 1
    /\ r.low = st.low \/ \E D \in C : r.low <= Weight(D)
    /\ (\A D \in C : Weight(D) < q.min) => \/ r.low = st.low /\ r.best = st.best
                                           \/ r.best \in C /\ r.low = Weight(r.best)
Searched(q, st, r, C) ==
    /\ r \in Outcomes
    /\ Lists(r.found, st.found, Fits(q, C), q.cap)
    /\ IF Len(r.found) <= q.cap THEN Learned(q, st, r, C)
       ELSE r.low = -1 /\ (q.keep => r.best \in Fits(q, C))

(* A clique that fits is between the limits.                               *)
LEMMA FitWeighs ==
    ASSUME NEW q, NEW D, Fit(g, FALSE, q, D)
    PROVE  Joined(g, D) /\ Weight(D) >= q.min /\ Weight(D) <= q.max
BY DEF Fit, Value, Weight

(* The weights of the cliques in a subtree.                                *)
LEMMA CandsWeigh ==
    ASSUME Ready, NEW S, S \subseteq Vertices(g), NEW T, T \subseteq Places, NEW D \in Cands(S, T)
    PROVE  /\ Weight(D) \in Nat /\ Weight(S) \in Nat /\ Weight(D \ S) \in Nat /\ TableWeight(T) \in Nat
           /\ Weight(D) = Weight(S) + Weight(D \ S) /\ Weight(D \ S) <= TableWeight(T)
           /\ D # S => Weight(D) > Weight(S)
           /\ D \subseteq Vertices(g) /\ Joined(g, D) /\ Joined(g, D \ S)
           /\ D \ S \subseteq VerticesAt(T)
<1>1. /\ D \subseteq Vertices(g) /\ S \subseteq D /\ D \ S \subseteq VerticesAt(T) /\ Joined(g, D)
      /\ Joined(g, D \ S) /\ Whole(g)
  BY DEF Cands, Joined, Ready
<1>2. VerticesAt(T) \subseteq Vertices(g)
  BY PlacesAre
<1> DEFINE W(X) == Value(g, FALSE, X)
<1>3. /\ W(D) = W(S) + W(D \ S) /\ W(D) \in Nat /\ W(S) \in Nat /\ W(D \ S) \in Nat
  <2>1. \A uw : /\ Value(g, uw, D) = Value(g, uw, S) + Value(g, uw, D \ S)
                /\ Value(g, uw, D) \in Nat /\ Value(g, uw, S) \in Nat /\ Value(g, uw, D \ S) \in Nat
    <3>1. S \subseteq D
      BY DEF Cands
    <3> QED  BY <1>1, <3>1, ValueRest
  <2> QED  BY <2>1, Zenon
<1>4. W(VerticesAt(T)) \in Nat /\ W(D \ S) <= W(VerticesAt(T))
  BY <1>1, <1>2, Values
<1>5. D # S => W(S) < W(D)
  BY <1>1, Values
<1>6. \A X : W(X) = Weight(X)
  BY DEF Value, Weight
<1> HIDE DEF W
<1> QED  BY <1>1, <1>3, <1>4, <1>5, <1>6 DEF TableWeight

(* Passing over cliques that are too light searches them.                  *)
LEMMA SearchedNone ==
    ASSUME NEW q, NEW st, Start(q, st), NEW C,
           \A D \in C : Weight(D) \in Nat /\ Weight(D) <= st.low
    PROVE  Searched(q, st, st, C)
<1>1. q.cap \in Nat /\ q.min \in Nat /\ st.low \in Int
  BY DEF Start, Limits, Outcomes
<1>2. Fits(q, C) = {}
  <2> SUFFICES ASSUME NEW D \in C, Fit(g, FALSE, q, D) PROVE FALSE
    BY DEF Fits
  <2>1. Weight(D) >= q.min /\ Weight(D) \in Nat /\ Weight(D) <= st.low /\ st.low <= q.min - 1
    BY FitWeighs DEF Start
  <2> QED  BY <1>1, <2>1
<1>3. Lists(st.found, st.found, Fits(q, C), q.cap) /\ Len(st.found) <= q.cap
  BY <1>1, <1>2, ListsNothing DEF Start, Storing
<1>4. Learned(q, st, st, C)
  BY <1>1 DEF Learned, Start
<1> QED  BY <1>3, <1>4 DEF Searched, Start

(* A search that was not stopped can go on.                                *)
LEMMA SearchedStart ==
    ASSUME NEW q, NEW st, Start(q, st), NEW r, NEW C, Searched(q, st, r, C), Len(r.found) <= q.cap
    PROVE  Start(q, r) /\ ToSet(r.found) = ToSet(st.found) \cup Fits(q, C)
<1>1. q.cap \in Nat /\ q.min \in Nat /\ st.low \in Int /\ r.low \in Int
  BY DEF Start, Limits, Outcomes, Searched
<1>2. Storing(r.found, q.cap) /\ ToSet(r.found) = ToSet(st.found) \cup Fits(q, C)
  BY <1>1, ListsStores DEF Searched
<1>3. 0 <= r.low /\ r.low <= q.min - 1 /\ r \in Outcomes
  BY <1>1 DEF Searched, Learned, Start
<1> QED  BY <1>2, <1>3 DEF Start

(* One that was stopped has searched as much as it will.                   *)
LEMMA SearchedStop ==
    ASSUME NEW q, NEW st, Start(q, st), NEW r, NEW C, Searched(q, st, r, C), ~(Len(r.found) <= q.cap),
           NEW B, C \subseteq B
    PROVE  Searched(q, st, r, B) /\ r.low = -1
<1>1. q.cap \in Nat
  BY DEF Start, Limits
<1>2. Fits(q, C) \subseteq Fits(q, B)
  BY DEF Fits
<1>3. Lists(r.found, st.found, Fits(q, B), q.cap)
  BY <1>1, <1>2, ListsStopped DEF Searched
<1> QED  BY <1>2, <1>3 DEF Searched

(* Searching some cliques and then others searches both.                   *)
LEMMA SearchedMore ==
    ASSUME NEW q, NEW st, Start(q, st), NEW r, NEW B, Searched(q, st, r, B), Len(r.found) <= q.cap,
           NEW u, NEW C, Searched(q, r, u, C), \A D \in B : Weight(D) \in Nat
    PROVE  Searched(q, st, u, B \cup C)
<1>1. q.cap \in Nat /\ q.min \in Nat /\ st.low \in Int /\ r.low \in Int /\ u.low \in Int
  BY DEF Start, Limits, Outcomes, Searched
<1>2. Fits(q, B \cup C) = Fits(q, B) \cup Fits(q, C)
  BY DEF Fits
<1>3. Lists(u.found, st.found, Fits(q, B \cup C), q.cap)
  <2>1. Lists(r.found, st.found, Fits(q, B), q.cap) /\ Lists(u.found, r.found, Fits(q, C), q.cap)
    BY DEF Searched
  <2>2. Lists(u.found, st.found, Fits(q, B) \cup Fits(q, C), q.cap)
    BY <1>1, <2>1, ListsMore
  <2> QED  BY <1>2, <2>2
<1>4. ASSUME Len(u.found) <= q.cap PROVE Learned(q, st, u, B \cup C)
  <2>1. Learned(q, st, r, B) /\ Learned(q, r, u, C)
    BY <1>4 DEF Searched
  <2>2. st.low <= r.low /\ r.low <= u.low /\ u.low <= q.min - 1
    BY <2>1 DEF Learned
  <2>3. \A D \in B \cup C : Weight(D) <= u.low \/ u.low = q.min - 1
    <3>1. ASSUME NEW D \in B PROVE Weight(D) <= u.low \/ u.low = q.min - 1
      <4>1. Weight(D) <= r.low \/ r.low = q.min - 1
        BY <2>1 DEF Learned
      <4>2. Weight(D) \in Nat
        OBVIOUS
      <4> QED  BY <1>1, <2>2, <4>1, <4>2
    <3>2. \A D \in C : Weight(D) <= u.low \/ u.low = q.min - 1
      BY <2>1 DEF Learned
    <3> QED  BY <3>1, <3>2
  <2>4. u.low = st.low \/ \E D \in B \cup C : u.low <= Weight(D)
    <3>1. u.low = r.low \/ \E D \in C : u.low <= Weight(D)
      BY <2>1 DEF Learned
    <3>2. r.low = st.low \/ \E D \in B : r.low <= Weight(D)
      BY <2>1 DEF Learned
    <3> QED  BY <3>1, <3>2
  <2>5. (\A D \in B \cup C : Weight(D) < q.min)
           => (u.low = st.low /\ u.best = st.best) \/ (u.best \in B \cup C /\ u.low = Weight(u.best))
    <3>1. (\A D \in C : Weight(D) < q.min)
             => (u.low = r.low /\ u.best = r.best) \/ (u.best \in C /\ u.low = Weight(u.best))
      BY <2>1 DEF Learned
    <3>2. (\A D \in B : Weight(D) < q.min)
             => (r.low = st.low /\ r.best = st.best) \/ (r.best \in B /\ r.low = Weight(r.best))
      BY <2>1 DEF Learned
    <3> QED  BY <3>1, <3>2
  <2>6. st.low <= u.low
    BY <1>1, <2>2
  <2> QED  BY <2>2, <2>3, <2>4, <2>5, <2>6 DEF Learned
<1>5. ASSUME ~(Len(u.found) <= q.cap) PROVE u.low = -1 /\ (q.keep => u.best \in Fits(q, B \cup C))
  BY <1>2, <1>5 DEF Searched
<1> QED  BY <1>3, <1>4, <1>5 DEF Searched

(* A call of sub_weighted_all searches its clique and those of its loop.   *)
LEMMA WeightedHeadSearched ==
    ASSUME Ready, NEW S, NEW T, Rooted(S, T), NEW q, NEW st, Start(q, st), NEW f,
           ToSet(st.found) \cap Fits(q, Cands(S, T)) = {},
           T # {} => \A x : Start(q, x) /\ ToSet(x.found) \cap Fits(q, Cands(S, T) \ {S}) = {}
                            => Searched(q, x, f[q][T][S][x], Cands(S, T) \ {S})
    PROVE  Searched(q, st, WeightedHead(f, q, T, S, st), Cands(S, T))
<1> DEFINE w == Weight(S)
           C == Cands(S, T)
           fits == w >= q.min /\ w <= q.max /\ (~q.maximal \/ IsMaximal(S))
           more == [low |-> st.low, best |-> IF q.keep THEN S ELSE st.best,
                    found |-> Append(st.found, S)]
           kept == IF fits THEN more ELSE st
           R == WeightedHead(f, q, T, S, st)
<1>1. /\ S \subseteq Vertices(g) /\ S # {} /\ Joined(g, S) /\ T \subseteq Places
      /\ q \in Limits /\ q.min \in Nat /\ q.max \in Nat /\ q.cap \in Nat /\ q.min >= 1
      /\ st \in Outcomes /\ st.low \in Int /\ 0 <= st.low /\ st.low <= q.min - 1
      /\ Storing(st.found, q.cap)
  BY DEF Rooted, Joined, Start, Limits, Outcomes
<1>2. S \in C /\ w \in Nat /\ \A D \in C : Weight(D) \in Nat /\ (D # S => Weight(D) > w)
  <2>1. S \in C
    BY <1>1 DEF Cands
  <2> QED  BY <1>1, <2>1, CandsWeigh
<1>3. fits <=> S \in Fits(q, C)
  <2>1. IsMaximal(S) <=> MaximalIn(g, S)
    BY DEF IsMaximal, MaximalIn
  <2>2. Fit(g, FALSE, q, S) <=> fits
    BY <1>1, <2>1 DEF Fit, Value, Weight, Limits
  <2> QED  BY <1>2, <2>2 DEF Fits
<1>4. more \in Outcomes
  <2>1. (IF q.keep THEN S ELSE st.best) \in MaybeClique
    BY <1>1, OutcomeParts
  <2> QED  BY <1>1, <2>1, OutcomeParts
<1>5. kept \in Outcomes /\ kept.low = st.low
  BY <1>1, <1>4
<1> DEFINE own == IF fits THEN {S} ELSE {}
<1>6. Lists(kept.found, st.found, own, q.cap)
  <2>1. CASE fits
    <3>1. S \notin ToSet(st.found) /\ S \in SUBSET Vertices(g)
      BY <1>1, <1>3, <2>1
    <3>2. Lists(Append(st.found, S), st.found, {S}, q.cap)
      BY <1>1, <3>1, ListsOne
    <3> QED  BY <2>1, <3>2
  <2>2. CASE ~fits
    <3>1. Lists(st.found, st.found, {}, q.cap)
      BY <1>1, ListsNothing
    <3> QED  BY <2>2, <3>1
  <2> QED  BY <2>1, <2>2
<1>7. Len(kept.found) \in Nat
  BY <1>5 DEF Outcomes
<1>8. own \subseteq Fits(q, C) /\ own \subseteq {S}
  BY <1>3
<1>9. R = IF fits /\ Stopped(q, more.found) THEN [more EXCEPT !.low = -1]
          ELSE IF w >= q.min /\ w >= q.max THEN [kept EXCEPT !.low = q.min - 1]
          ELSE IF T # {} THEN f[q][T][S][kept]
          ELSE IF w > kept.low
               THEN [low |-> IF w < q.min THEN w ELSE q.min - 1, best |-> S, found |-> kept.found]
          ELSE kept
  BY DEF WeightedHead, TooHeavy
<1>10. fits => more = kept /\ more.best = (IF q.keep THEN S ELSE st.best)
  OBVIOUS
<1>11. ~fits => kept = st
  OBVIOUS
<1>12. fits => w >= q.min /\ w <= q.max
  OBVIOUS
<1>13. \A D \in C : Fit(g, FALSE, q, D) => Weight(D) >= q.min /\ Weight(D) <= q.max
  BY FitWeighs
<1> HIDE DEF w, C, fits, more, kept, own, R
<1>14. CASE fits /\ Stopped(q, more.found)
  <2> DEFINE r == [more EXCEPT !.low = -1]
  <2>1. r = [low |-> -1, best |-> more.best, found |-> more.found] /\ r \in Outcomes
    <3>1. -1 \in Int
      OBVIOUS
    <3>2. \A l \in Int : [more EXCEPT !.low = l] = [low |-> l, best |-> more.best, found |-> more.found]
                        /\ [more EXCEPT !.low = l] \in Outcomes
      BY <1>4, OutcomeParts
    <3> QED  BY <3>1, <3>2, Zenon
  <2>2. ~(Len(more.found) <= q.cap)
    BY <1>1, <1>7, <1>10, <1>14 DEF Stopped
  <2>3. Lists(more.found, st.found, Fits(q, C), q.cap)
    <3>1. Lists(more.found, st.found, own, q.cap)
      BY <1>6, <1>10, <1>14
    <3> QED  BY <1>1, <1>8, <2>2, <3>1, ListsStopped
  <2>4. q.keep => more.best \in Fits(q, C)
    BY <1>3, <1>10, <1>14
  <2>5. r.low = -1 /\ r.best = more.best /\ r.found = more.found
    BY <2>1
  <2>6. R = r
    BY <1>9, <1>14
  <2> HIDE DEF r
  <2> QED  BY <2>1, <2>2, <2>3, <2>4, <2>5, <2>6 DEF Searched, R, C
<1>15. CASE ~(fits /\ Stopped(q, more.found))
  <2>1. Len(kept.found) <= q.cap
    <3>1. CASE fits
      BY <1>1, <1>7, <1>10, <1>15, <3>1 DEF Stopped
    <3>2. CASE ~fits
      BY <1>1, <1>11, <3>2 DEF Storing
    <3> QED  BY <3>1, <3>2
  <2>2. Storing(kept.found, q.cap) /\ ToSet(kept.found) = ToSet(st.found) \cup own
    BY <1>1, <1>6, <2>1, ListsStores
  (* The outcome has the cliques of kept, and S is all there is to list. *)
  <2>3. ASSUME NEW r, r \in Outcomes, r.found = kept.found, \A D \in Fits(q, C) : D = S,
               Learned(q, st, r, C)
        PROVE  Searched(q, st, r, C)
    <3>1. Fits(q, C) = own
      BY <1>3, <2>3 DEF own
    <3> QED  BY <1>6, <2>1, <2>3, <3>1 DEF Searched
  <2>4. CASE w >= q.min /\ w >= q.max
    <3> DEFINE r == [kept EXCEPT !.low = q.min - 1]
    <3>1. r = [low |-> q.min - 1, best |-> kept.best, found |-> kept.found] /\ r \in Outcomes
      <4>1. q.min - 1 \in Int
        BY <1>1
      <4>2. \A l \in Int : [kept EXCEPT !.low = l] = [low |-> l, best |-> kept.best, found |-> kept.found]
                          /\ [kept EXCEPT !.low = l] \in Outcomes
        BY <1>5, OutcomeParts
      <4> QED  BY <4>1, <4>2, Zenon
    <3>2. r.low = q.min - 1 /\ r.found = kept.found
      BY <3>1
    <3>3. R = r
      BY <1>9, <1>15, <2>4
    <3> HIDE DEF r
    <3>4. \A D \in Fits(q, C) : D = S
      <4> SUFFICES ASSUME NEW D \in C, Weight(D) >= q.min, Weight(D) <= q.max PROVE D = S
        BY <1>13 DEF Fits
      <4>1. Weight(D) \in Nat /\ (D # S => Weight(D) > w)
        BY <1>2
      <4> QED  BY <1>1, <1>2, <2>4, <4>1
    <3>5. Learned(q, st, r, C)
      <4>1. r.low <= Weight(S)
        BY <1>1, <1>2, <2>4, <3>2 DEF w
      <4>2. ~(\A D \in C : Weight(D) < q.min)
        BY <1>1, <1>2, <2>4 DEF w
      <4> QED  BY <1>1, <1>2, <3>2, <4>1, <4>2 DEF Learned
    <3> QED  BY <2>3, <3>1, <3>2, <3>3, <3>4, <3>5 DEF R, C
  <2>5. CASE ~(w >= q.min /\ w >= q.max) /\ T # {}
    <3> DEFINE x == f[q][T][S][kept]
               B == C \ {S}
    <3>1. R = x
      BY <1>9, <1>15, <2>5
    <3>2. Start(q, kept)
      BY <1>1, <1>5, <2>2 DEF Start
    <3>3. ToSet(kept.found) \cap Fits(q, B) = {}
      BY <1>8, <2>2 DEF Fits, C
    <3>4. Searched(q, kept, x, B)
      <4> HIDE DEF x, B
      <4> QED  BY <2>5, <3>2, <3>3 DEF x, B, C
    <3>5. PICK D0 \in B : TRUE
      <4>1. PICK k \in T : TRUE
        BY <2>5
      <4> DEFINE D0 == S \cup {table[k]}
      <4>2. Rooted(D0, NewTable(T, k)) /\ table[k] \in Vertices(g) \ S
        BY NodeBelow
      <4>3. Joined(g, D0) /\ D0 \subseteq Vertices(g) /\ D0 # S
        BY <1>1, <4>2 DEF Rooted
      <4>4. D0 \ S \subseteq VerticesAt(T)
        BY DEF VerticesAt
      <4>5. D0 \in C
        BY <4>3, <4>4 DEF Cands, C
      <4> QED  BY <4>3, <4>5
    <3>6. Weight(D0) \in Nat /\ Weight(D0) > w
      BY <1>2, <3>5
    <3> HIDE DEF x, B
    <3>7. \A D \in B : D \in C /\ D # S
      BY DEF B
    <3>8. Fits(q, C) = own \cup Fits(q, B)
      BY <1>3, <1>8 DEF Fits, B, own
    <3>9. Lists(x.found, st.found, Fits(q, C), q.cap) /\ x \in Outcomes
      <4>1. Lists(x.found, kept.found, Fits(q, B), q.cap) /\ x \in Outcomes
        BY <3>4 DEF Searched
      <4>2. Lists(x.found, st.found, own \cup Fits(q, B), q.cap)
        BY <1>1, <1>6, <2>1, <4>1, ListsMore
      <4> QED  BY <3>8, <4>1, <4>2
    <3>10. ASSUME Len(x.found) <= q.cap PROVE Learned(q, st, x, C)
      <4>1. Learned(q, kept, x, B) /\ x.low \in Int
        BY <3>4, <3>9, <3>10 DEF Searched, Outcomes
      <4>2. st.low <= x.low /\ x.low <= q.min - 1
        BY <1>5, <4>1 DEF Learned
      <4>3. Weight(D0) <= x.low \/ x.low = q.min - 1
        BY <3>5, <4>1 DEF Learned
      <4>4. \A D \in C : Weight(D) <= x.low \/ x.low = q.min - 1
        <5>1. Weight(S) <= x.low \/ x.low = q.min - 1
          BY <1>2, <3>6, <4>1, <4>3 DEF w
        <5>2. \A D \in C : D = S \/ D \in B
          BY DEF B
        <5>3. \A D \in B : Weight(D) <= x.low \/ x.low = q.min - 1
          BY <4>1 DEF Learned
        <5> QED  BY <5>1, <5>2, <5>3
      <4>5. x.low = st.low \/ \E D \in C : x.low <= Weight(D)
        BY <1>5, <3>7, <4>1 DEF Learned
      <4>6. (\A D \in C : Weight(D) < q.min)
               => (x.low = st.low /\ x.best = st.best) \/ (x.best \in C /\ x.low = Weight(x.best))
        <5>1. (\A D \in C : Weight(D) < q.min) => ~fits
          BY <1>1, <1>2, <1>12 DEF w
        <5>2. (\A D \in C : Weight(D) < q.min) => \A D \in B : Weight(D) < q.min
          BY <3>7
        <5>3. (\A D \in B : Weight(D) < q.min)
                 => (x.low = kept.low /\ x.best = kept.best) \/ (x.best \in B /\ x.low = Weight(x.best))
          BY <4>1 DEF Learned
        <5> QED  BY <1>11, <3>7, <5>1, <5>2, <5>3
      <4> QED  BY <4>2, <4>4, <4>5, <4>6 DEF Learned
    <3>11. ASSUME ~(Len(x.found) <= q.cap) PROVE x.low = -1 /\ (q.keep => x.best \in Fits(q, C))
      BY <3>4, <3>8, <3>11 DEF Searched
    <3>12. Searched(q, st, x, C)
      BY <3>9, <3>10, <3>11 DEF Searched
    <3> QED  BY <3>1, <3>12 DEF R, C
  <2>6. CASE ~(w >= q.min /\ w >= q.max) /\ T = {}
    <3>1. C = {S}
      <4>1. VerticesAt(T) = {}
        BY <2>6 DEF VerticesAt
      <4>2. \A D \in C : D = S
        BY <4>1 DEF C, Cands
      <4> QED  BY <1>2, <4>2
    <3>2. \A D \in Fits(q, C) : D = S
      BY <3>1 DEF Fits
    <3>3. CASE w > st.low
      <4> DEFINE l == IF w < q.min THEN w ELSE q.min - 1
                 r == [low |-> l, best |-> S, found |-> kept.found]
      <4>1. R = r
        BY <1>5, <1>9, <1>15, <2>6, <3>3
      <4>2. l \in Int /\ st.low <= l /\ l <= q.min - 1 /\ l <= w /\ (l < q.min - 1 => l = w)
            /\ (w <= l \/ l = q.min - 1) /\ (w < q.min => l = w)
        BY <1>1, <1>2, <3>3
      <4>3. r.low = l /\ r.best = S /\ r.found = kept.found
        OBVIOUS
      <4> HIDE DEF l
      <4>4. r \in Outcomes
        <5>1. kept.found \in Seq(SUBSET Vertices(g)) /\ S \in MaybeClique
          BY <1>1, <1>5 DEF Outcomes, MaybeClique
        <5> QED  BY <4>2, <5>1 DEF Outcomes
      <4> HIDE DEF r
      <4>5. Learned(q, st, r, C)
        BY <1>2, <3>1, <4>2, <4>3 DEF Learned, w
      <4> QED  BY <2>3, <3>2, <4>1, <4>3, <4>4, <4>5 DEF R, C
    <3>4. CASE ~(w > st.low)
      <4>1. ~fits
        BY <1>1, <1>2, <1>12, <3>4
      <4>2. R = st
        BY <1>5, <1>9, <1>11, <1>15, <2>6, <3>4, <4>1
      <4>3. \A D \in C : Weight(D) \in Nat /\ Weight(D) <= st.low
        BY <1>1, <1>2, <3>1, <3>4 DEF w
      <4>4. Searched(q, st, st, C)
        BY <4>3, SearchedNone
      <4> QED  BY <4>2, <4>4 DEF R, C
    <3> QED  BY <3>3, <3>4
  <2> QED  BY <2>4, <2>5, <2>6
<1> QED  BY <1>14, <1>15

-----------------------------------------------------------------------------
(* The loop of sub_weighted_all searches every clique of its subtree.      *)
LEMMA WeightedLoopSearched ==
    ASSUME Ready, NEW top \in Nat, top <= g.n, NEW q, q \in Limits, q.min >= 1,
           Prunes(g, FALSE, q.min - 1, table, sizes, top), NEW n \in Nat
    PROVE  \A T, S, st :
              /\ T \subseteq 1 .. top /\ Rooted(S, T) /\ Start(q, st)
              /\ q.high >= q.min \/ \A D \in Cands(S, T) : Weight(D) <= q.high
              /\ ToSet(st.found) \cap Fits(q, Cands(S, UpTo(T, n)) \ {S}) = {}
              => Searched(q, st, WeightedLoop[n][q][T][S][st], Cands(S, UpTo(T, n)) \ {S})
<1> DEFINE Asked(k, T, S, st) ==
               /\ T \subseteq 1 .. top /\ Rooted(S, T) /\ Start(q, st)
               /\ q.high >= q.min \/ \A D \in Cands(S, T) : Weight(D) <= q.high
               /\ ToSet(st.found) \cap Fits(q, Cands(S, UpTo(T, k)) \ {S}) = {}
           Done(k, T, S, st) ==
               Searched(q, st, WeightedLoop[k][q][T][S][st], Cands(S, UpTo(T, k)) \ {S})
           Good(k) == \A T, S, st : Asked(k, T, S, st) => Done(k, T, S, st)
           A == {k \in Nat : Good(k)}
<1>p. \A T, S, st, k : Asked(k, T, S, st)
          => /\ T \subseteq Places /\ T \in SUBSET Places /\ S \in SUBSET Vertices(g)
             /\ st \in Outcomes /\ S \subseteq Vertices(g)
  BY DEF Rooted, Joined, Start
<1>q. /\ q.min \in Nat /\ q.max \in Nat /\ q.cap \in Nat /\ q.high \in Nat /\ q.min >= 1
      /\ \A st \in Outcomes : st.low \in Int
  BY DEF Limits, Outcomes
<1>r. ASSUME NEW k \in Nat, NEW T \in SUBSET Places, NEW S \in SUBSET Vertices(g), NEW st \in Outcomes
      PROVE  WeightedLoop[k + 1][q][T][S][st] = WeightedTurn(k + 1, WeightedLoop[k], q, T, S, st)
  <2> HIDE DEF Asked, Done, Good, A
  <2> QED  BY WeightedLoopIs
<1>1. 0 \in A
  <2> SUFFICES ASSUME NEW T, NEW S, NEW st, Asked(0, T, S, st) PROVE Done(0, T, S, st)
    OBVIOUS
  <2>1. T \subseteq Places /\ T \in SUBSET Places /\ S \in SUBSET Vertices(g) /\ st \in Outcomes
        /\ Start(q, st)
    BY <1>p
  <2>2. WeightedLoop[0][q][T][S][st] = st
    BY <2>1, WeightedLoopIs
  <2>3. UpTo(T, 0) = {}
    <3>1. \A x \in T : x \in 1 .. g.n
      BY <2>1 DEF Places
    <3>2. g.n \in Nat
      BY DEF Ready
    <3>3. \A x \in T : ~(x <= 0)
      BY <3>1, <3>2
    <3> QED  BY <3>3 DEF UpTo
  <2>4. VerticesAt({}) = {}
    BY DEF VerticesAt
  <2>5. Cands(S, {}) \ {S} = {}
    BY <2>4 DEF Cands
  <2>6. Searched(q, st, st, {})
    BY <2>1, SearchedNone
  <2> QED  BY <2>2, <2>3, <2>5, <2>6
<1>2. ASSUME NEW k \in Nat, k \in A PROVE k + 1 \in A
  <2> DEFINE l == k + 1
  <2>0. l \in Nat \ {0} /\ l - 1 = k
    OBVIOUS
  <2>g. \A T, S, st : Asked(k, T, S, st) => Done(k, T, S, st)
    <3> HIDE DEF Asked, Done
    <3> QED  BY <1>2
  <2> SUFFICES ASSUME NEW T, NEW S, NEW st, Asked(l, T, S, st) PROVE Done(l, T, S, st)
    <3> HIDE DEF Asked, Done
    <3> QED  OBVIOUS
  <2> DEFINE v == table[l]
             rest == NewTable(T, l)
             w == Weight(S)
             more == S \cup {v}
             f == WeightedLoop[k]
             C == Cands(S, UpTo(T, l)) \ {S}
             C1 == Cands(more, rest)
             C2 == Cands(S, UpTo(T, k)) \ {S}
             R == WeightedLoop[l][q][T][S][st]
             enter == Weight(more) + TableWeight(rest) > st.low
             after == IF enter THEN WeightedHead(f, q, rest, more, st) ELSE st
  <2>1. /\ T \subseteq Places /\ T \in SUBSET Places /\ S \in SUBSET Vertices(g) /\ st \in Outcomes
        /\ Start(q, st) /\ Rooted(S, T) /\ T \subseteq 1 .. top /\ S \subseteq Vertices(g)
        /\ ToSet(st.found) \cap Fits(q, C) = {}
        /\ q.high >= q.min \/ \A D \in Cands(S, T) : Weight(D) <= q.high
    BY <1>p
  <2>2. R = WeightedTurn(l, f, q, T, S, st)
    BY <1>r, <2>1, Zenon
  <2>3. st.low \in Int /\ 0 <= st.low /\ st.low <= q.min - 1
    BY <1>q, <2>1 DEF Start
  <2>4. Weight(S) \in Nat /\ Weight(S) >= 1
    <3>1. \A uw : Value(g, uw, S) \in Nat /\ (S = {} <=> Value(g, uw, S) = 0)
      BY <2>1, Values DEF Ready
    <3>2. Value(g, FALSE, S) \in Nat /\ (S = {} <=> Value(g, FALSE, S) = 0)
      BY <3>1, Zenon
    <3>3. Value(g, FALSE, S) = Weight(S) /\ S # {}
      BY <2>1 DEF Value, Weight, Rooted
    <3>4. Weight(S) \in Nat /\ Weight(S) # 0
      BY <3>2, <3>3, Zenon
    <3> HIDE DEF Asked, Done, C, C1, C2, R, after, enter, w
    <3> QED  BY <3>4
  <2> HIDE DEF l
  <2>5. CASE l \notin T
    <3>1. UpTo(T, l) = UpTo(T, k)
      BY <2>0, <2>1, <2>5, LastPlace
    <3>2. R = f[q][T][S][st]
      BY <2>0, <2>2, <2>5 DEF WeightedTurn
    <3>3. Done(k, T, S, st)
      <4>1. Asked(k, T, S, st)
        BY <2>1, <3>1
      <4> HIDE DEF Asked, Done
      <4> QED  BY <2>g, <4>1
    <3> QED  BY <3>1, <3>2, <3>3
  <2>6. UpTo(T, l) \subseteq Places /\ UpTo(T, k) \subseteq T
    <3>1. UpTo(T, k) \subseteq T
      BY DEF UpTo
    <3> QED  BY <2>0, <2>1, <3>1, LastPlace
  <2>7. \A D \in C : /\ Weight(D) \in Nat /\ Weight(D \ S) \in Nat
                     /\ Weight(D) = w + Weight(D \ S) /\ Weight(D \ S) <= TableWeight(UpTo(T, l))
                     /\ TableWeight(UpTo(T, l)) \in Nat
                     /\ Joined(g, D \ S) /\ D \ S \subseteq VerticesAt(UpTo(T, l))
    BY <2>1, <2>6, CandsWeigh
  <2> HIDE DEF w, more, f, C, C1, C2, R, enter, after, v, rest, Asked, Done
  <2>8. CASE l \in T /\ (w + sizes[v] <= st.low \/ w + TableWeight(UpTo(T, l)) <= st.low)
    <3>1. R = st
      BY <2>0, <2>2, <2>8 DEF WeightedTurn, w, v
    <3>2. ASSUME NEW D \in C PROVE Weight(D) \in Nat /\ Weight(D) <= st.low
      <4> DEFINE e == Weight(D \ S)
      <4>1. Weight(D) \in Nat /\ e \in Nat /\ Weight(D) = w + e /\ w \in Nat /\ w >= 1
        BY <2>4, <2>7 DEF w
      <4>2. CASE w + TableWeight(UpTo(T, l)) <= st.low
        <5>1. e <= TableWeight(UpTo(T, l)) /\ TableWeight(UpTo(T, l)) \in Nat
          BY <2>7
        <5> HIDE DEF e
        <5> QED  BY <2>3, <4>1, <4>2, <5>1
      <4>3. CASE w + sizes[v] <= st.low
        <5>1. l \in 1 .. top /\ UpTo(T, l) \subseteq 1 .. l
          <6>1. \A x \in UpTo(T, l) : x \in 1 .. top /\ x <= l
            BY <2>1 DEF UpTo
          <6>2. l \in 1 .. top
            BY <2>1, <2>8
          <6> QED  BY <6>1, <6>2
        <5>2. D \ S \subseteq Images(table, 1 .. l) /\ Joined(g, D \ S)
          BY <2>7, <5>1 DEF VerticesAt, Images
        <5>3. sizes[v] \in Nat
          BY <5>1 DEF Prunes, v
        <5>4. Value(g, FALSE, D \ S) <= sizes[v] \/ sizes[v] >= q.min - 1
          BY <5>1, <5>2 DEF Prunes, v
        <5>5. e <= sizes[v] \/ sizes[v] >= q.min - 1
          BY <5>4 DEF Value, Weight
        <5> HIDE DEF e
        <5> QED  BY <1>q, <2>3, <4>1, <4>3, <5>3, <5>5
      <4> QED  BY <2>8, <4>2, <4>3
    <3>3. Searched(q, st, st, C)
      BY <2>1, <3>2, SearchedNone
    <3> QED  BY <3>1, <3>3 DEF Done, R, C
  <2>9. CASE l \in T /\ ~(w + sizes[v] <= st.low) /\ ~(w + TableWeight(UpTo(T, l)) <= st.low)
    <3>1. R = IF enter /\ (after.low < 0 \/ after.low >= q.high) THEN after ELSE f[q][T][S][after]
      BY <2>0, <2>2, <2>9 DEF WeightedTurn, w, v, enter, after, more, rest
    <3>2. /\ Rooted(more, rest) /\ v \in Vertices(g) \ S /\ Rooted(S, UpTo(T, k))
          /\ \A D : D \in C1 <=> D \in Cands(S, UpTo(T, l)) /\ v \in D
          /\ \A D : D \in Cands(S, UpTo(T, k)) <=> D \in Cands(S, UpTo(T, l)) /\ v \notin D
      BY <2>0, <2>1, <2>9, NodeBelow DEF more, rest, v, C1
    <3>3. C1 \cup C2 = C /\ C1 \cap C2 = {} /\ C1 \subseteq C /\ C2 \subseteq C
      BY <3>2 DEF C, C2
    <3>4. /\ rest \subseteq UpTo(T, k) /\ rest \subseteq 1 .. top /\ UpTo(rest, k) = rest
          /\ rest \subseteq Places
      <4>1. rest \subseteq UpTo(T, k)
        BY <2>0, <2>1, LastPlace DEF rest
      <4>2. UpTo(rest, k) = rest
        BY <4>1 DEF UpTo
      <4> QED  BY <2>1, <2>6, <4>1, <4>2
    <3>5. \A D \in C : D \in Cands(S, T)
      BY <2>1 DEF C, Cands, VerticesAt, UpTo
    <3>6. Searched(q, st, after, C1)
      <4>1. CASE enter
        <5>1. ToSet(st.found) \cap Fits(q, C1) = {}
          BY <2>1, <3>3 DEF Fits
        <5>2. ASSUME NEW x, Start(q, x), ToSet(x.found) \cap Fits(q, C1 \ {more}) = {}
              PROVE  Searched(q, x, f[q][rest][more][x], C1 \ {more})
          <6>1. Asked(k, rest, more, x)
            <7>1. q.high >= q.min \/ \A D \in Cands(more, rest) : Weight(D) <= q.high
              BY <2>1, <3>3, <3>5 DEF C1
            <7> QED  BY <3>2, <3>4, <5>2, <7>1 DEF Asked, C1
          <6>2. Done(k, rest, more, x)
            BY <2>g, <6>1
          <6> QED  BY <3>4, <6>2 DEF Done, C1, f
        <5>3. Searched(q, st, WeightedHead(f, q, rest, more, st), C1)
          BY <2>1, <3>2, <5>1, <5>2, WeightedHeadSearched DEF C1
        <5> QED  BY <4>1, <5>3 DEF after
      <4>2. CASE ~enter
        <5>1. ASSUME NEW D \in C1 PROVE Weight(D) \in Nat /\ Weight(D) <= st.low
          <6>1. more \subseteq Vertices(g)
            BY <3>2 DEF Rooted, Joined
          <6>2. /\ Weight(D) \in Nat /\ Weight(more) \in Nat /\ Weight(D \ more) \in Nat
                /\ TableWeight(rest) \in Nat
                /\ Weight(D) = Weight(more) + Weight(D \ more) /\ Weight(D \ more) <= TableWeight(rest)
            BY <3>4, <6>1, CandsWeigh DEF C1
          <6>3. ~(Weight(more) + TableWeight(rest) > st.low)
            BY <4>2 DEF enter
          <6> QED  BY <2>3, <6>2, <6>3
        <5>2. Searched(q, st, st, C1)
          BY <2>1, <5>1, SearchedNone
        <5> QED  BY <4>2, <5>2 DEF after
      <4> QED  BY <4>1, <4>2
    <3>7. after \in Outcomes /\ after.low \in Int /\ Len(after.found) \in Nat
      BY <3>6 DEF Searched, Outcomes
    <3>8. CASE ~(Len(after.found) <= q.cap)
      <4>1. Searched(q, st, after, C) /\ after.low = -1
        BY <2>1, <3>3, <3>6, <3>8, SearchedStop
      <4>2. enter
        <5> SUFFICES ASSUME ~enter PROVE FALSE
          OBVIOUS
        <5> QED  BY <2>3, <4>1 DEF after
      <4>3. R = after
        BY <3>1, <4>1, <4>2
      <4> QED  BY <4>1, <4>3 DEF Done, R, C
    <3>9. CASE Len(after.found) <= q.cap
      <4>1. Start(q, after) /\ ToSet(after.found) = ToSet(st.found) \cup Fits(q, C1)
        BY <2>1, <3>6, <3>9, SearchedStart
      <4>2. 0 <= after.low /\ after.low <= q.min - 1
        BY <4>1 DEF Start
      <4>3. \A D \in C1 : Weight(D) \in Nat
        BY <2>7, <3>3
      <4>4. ASSUME NEW u, Searched(q, after, u, C2) PROVE Searched(q, st, u, C)
        BY <2>1, <3>3, <3>6, <3>9, <4>3, <4>4, SearchedMore
      <4>5. CASE R = f[q][T][S][after]
        <5>1. ToSet(after.found) \cap Fits(q, C2) = {}
          BY <2>1, <3>3, <4>1 DEF Fits
        <5>2. Asked(k, T, S, after)
          BY <2>1, <4>1, <5>1 DEF Asked, C2
        <5>3. Done(k, T, S, after)
          BY <2>g, <5>2
        <5>4. Searched(q, after, f[q][T][S][after], C2)
          BY <5>3 DEF Done, C2, f
        <5>5. Searched(q, st, R, C)
          BY <4>4, <4>5, <5>4
        <5> QED  BY <5>5 DEF Done, R, C
      <4>6. CASE R # f[q][T][S][after]
        <5>1. R = after /\ after.low >= q.high
          BY <3>1, <3>7, <4>2, <4>6
        <5>2. ASSUME NEW D \in C2 PROVE Weight(D) \in Nat /\ Weight(D) <= after.low
          <6>1. Weight(D) \in Nat /\ D \in Cands(S, T)
            BY <2>7, <3>3, <3>5
          <6>2. Weight(D) <= q.high
            BY <1>q, <2>1, <3>7, <4>2, <5>1, <6>1
          <6> QED  BY <1>q, <3>7, <5>1, <6>1, <6>2
        <5>3. Searched(q, after, after, C2)
          BY <4>1, <5>2, SearchedNone
        <5>4. Searched(q, st, R, C)
          BY <4>4, <5>1, <5>3
        <5> QED  BY <5>4 DEF Done, R, C
      <4> QED  BY <4>5, <4>6
    <3> QED  BY <3>8, <3>9
  <2> QED  BY <2>5, <2>8, <2>9
<1> HIDE DEF A
<1>3. n \in A
  BY <1>1, <1>2, Induction
<1> QED  BY <1>3 DEF A

(* A turn of either weighted search goes through the cliques whose last    *)
(* place it is (sub_weighted_all).                                         *)
LEMMA SubWeightedSearched ==
    ASSUME Ready, NEW top \in Nat, top <= g.n, NEW q, NEW st, Start(q, st),
           Prunes(g, FALSE, q.min - 1, table, sizes, top),
           NEW T, T \subseteq 1 .. top, NEW S, Rooted(S, T),
           q.high >= q.min \/ \A D \in Cands(S, T) : Weight(D) <= q.high,
           ToSet(st.found) \cap Fits(q, Cands(S, T)) = {}
    PROVE  Searched(q, st, SubWeighted(q, T, S, st), Cands(S, T))
<1>1. g.n \in Nat /\ T \subseteq Places /\ q \in Limits /\ q.min >= 1
  BY DEF Ready, Rooted, Start
<1>2. UpTo(T, g.n) = T
  <2>1. \A k \in T : k \in 1 .. g.n
    BY <1>1 DEF Places
  <2>2. \A k \in T : k <= g.n
    BY <1>1, <2>1
  <2> QED  BY <2>2 DEF UpTo
<1>3. \A x : Start(q, x) /\ ToSet(x.found) \cap Fits(q, Cands(S, T) \ {S}) = {}
             => Searched(q, x, WeightedLoop[g.n][q][T][S][x], Cands(S, T) \ {S})
  BY <1>1, <1>2, WeightedLoopSearched
<1> QED  BY <1>3, WeightedHeadSearched DEF SubWeighted

-----------------------------------------------------------------------------
(* Maximal cliques, and what a call asks for.                              *)

(* The places of a table are all the vertices.                             *)
LEMMA TableOnto ==
    ASSUME Ready
    PROVE  /\ Images(table, 1 .. g.n) = Vertices(g)
           /\ \A k \in 0 .. g.n : /\ Images(table, 1 .. k) \subseteq Vertices(g)
                                  /\ VerticesAt(1 .. k) = Images(table, 1 .. k)
<1> DEFINE order == [j \in 0 .. g.n - 1 |-> table[j + 1]]
<1>1. g.n \in Nat \ {0} /\ TableOf(g, table) /\ Vertices(g) = 0 .. g.n - 1
  BY DEF Ready, Vertices
<1>2. \A j \in 0 .. g.n - 1 : j + 1 \in 1 .. g.n /\ order[j] = table[j + 1]
  BY <1>1
<1>3. IsBijection(order, g.n)
  <2>1. \A j \in 0 .. g.n - 1 : order[j] \in 0 .. g.n - 1
    BY <1>1, <1>2 DEF TableOf
  <2>2. ASSUME NEW j \in 0 .. g.n - 1, NEW k \in 0 .. g.n - 1, order[j] = order[k] PROVE j = k
    <3>1. j + 1 = k + 1
      BY <1>1, <1>2, <2>2 DEF TableOf
    <3> QED  BY <1>1, <3>1
  <2> QED  BY <2>1, <2>2 DEF IsBijection
<1> HIDE DEF order
<1>4. \A v \in 0 .. g.n - 1 : \E j \in 0 .. g.n - 1 : order[j] = v
  <2>1. g.n \in Nat
    BY <1>1
  <2> QED  BY <1>3, <2>1, BijectionIsOnto
<1>5. Vertices(g) \subseteq Images(table, 1 .. g.n)
  <2> SUFFICES ASSUME NEW v \in 0 .. g.n - 1 PROVE \E l \in 1 .. g.n : table[l] = v
    BY <1>1 DEF Images
  <2> QED  BY <1>2, <1>4
<1>6. \A k \in 0 .. g.n : \A l \in 1 .. k : table[l] \in Vertices(g)
  <2> SUFFICES ASSUME NEW k \in 0 .. g.n, NEW l \in 1 .. k PROVE table[l] \in Vertices(g)
    OBVIOUS
  <2>1. l \in 1 .. g.n
    BY <1>1
  <2> QED  BY <1>1, <2>1 DEF TableOf
<1>7. g.n \in 0 .. g.n
  BY <1>1
<1> QED  BY <1>5, <1>6, <1>7 DEF Images, VerticesAt

(* A set of joined vertices that is not maximal can be extended.           *)
LEMMA MaximalMeans ==
    ASSUME Ready, NEW S \in Cliques
    PROVE  MaximalIn(g, S) <=> \A T \in Cliques : S \subseteq T => S = T
<1>1. S \subseteq Vertices(g) /\ S # {} /\ \A u, v \in S : u # v => IsEdge(g, u, v)
  BY DEF Cliques, IsClique
<1>2. \A x, y \in Vertices(g) : (IsEdge(g, x, y) <=> IsEdge(g, y, x)) /\ ~IsEdge(g, x, x)
  BY EdgesAre DEF Ready
<1>3. ASSUME MaximalIn(g, S), NEW T \in Cliques, S \subseteq T PROVE S = T
  <2> SUFFICES ASSUME NEW v \in T, v \notin S PROVE FALSE
    BY <1>3
  <2>1. v \in Vertices(g) /\ \A u \in S : IsEdge(g, v, u)
    BY <1>3 DEF Cliques, IsClique
  <2> QED  BY <1>3, <2>1 DEF MaximalIn
<1>4. ASSUME ~MaximalIn(g, S) PROVE \E T \in Cliques : S \subseteq T /\ S # T
  <2>1. PICK v \in Vertices(g) : \A u \in S : IsEdge(g, v, u)
    BY <1>4 DEF MaximalIn
  <2>2. v \notin S
    BY <1>2, <2>1
  <2>3. \A u \in S : IsEdge(g, u, v)
    BY <1>1, <1>2, <2>1
  <2>4. S \cup {v} \in Cliques
    BY <1>1, <2>1, <2>3 DEF Cliques, IsClique
  <2> QED  BY <2>2, <2>4
<1> QED  BY <1>3, <1>4

(* Adding every vertex that is joined to all makes a clique maximal        *)
(* (maximalize_clique).                                                    *)
MaximalizeTurn(k, C) ==
    IF k <= g.n /\ \A u \in C : IsEdge(g, k - 1, u) THEN C \union {k - 1} ELSE C
Grows(f, S) == f[0] = S /\ \A k \in Nat : f[k + 1] = MaximalizeTurn(k + 1, f[k])

(* maximalize_clique adds vertices one at a time.                          *)
LEMMA MaximalizeGrows ==
    ASSUME Ready, NEW S, S \subseteq Vertices(g)
    PROVE  \E f : Grows(f, S) /\ Maximalize(S) = f[g.n]
<1> DEFINE X == SUBSET Vertices(g)
           F(f) == [k \in Nat |-> IF k = 0 THEN S ELSE MaximalizeTurn(k, f[k - 1])]
           step == [k \in Nat |-> [C \in X |-> IF k = 0 THEN C ELSE MaximalizeTurn(k, C)]]
           Grown == CHOOSE f : f = F(f)
<1>1. Maximalize(S) = Grown[g.n]
  BY DEF Maximalize, MaximalizeTurn
<1>2. g.n \in Nat /\ Vertices(g) = 0 .. g.n - 1
  BY DEF Ready, Vertices
<1>3. step \in [Nat -> [X -> X]]
  <2> SUFFICES ASSUME NEW k \in Nat, NEW C \in X, k # 0 PROVE MaximalizeTurn(k, C) \in X
    OBVIOUS
  <2>1. k <= g.n => k - 1 \in Vertices(g)
    BY <1>2
  <2> QED  BY <2>1 DEF MaximalizeTurn
<1>4. S \in X
  OBVIOUS
<1>5. PICK f : AreRounds(f, X, S, step)
  <2> HIDE DEF X, step
  <2> QED  BY <1>3, <1>4, Rounds
<1>6. f \in [Nat -> X] /\ f = [k \in Nat |-> IF k = 0 THEN S ELSE step[k][f[k - 1]]]
  BY <1>5 DEF AreRounds
<1>7. f = F(f)
  <2>1. ASSUME NEW k \in Nat, k # 0 PROVE step[k][f[k - 1]] = MaximalizeTurn(k, f[k - 1])
    <3>1. k - 1 \in Nat
      BY <2>1
    <3>2. f[k - 1] \in X
      BY <1>6, <3>1
    <3> HIDE DEF X
    <3> QED  BY <2>1, <3>2
  <2> HIDE DEF step, X
  <2> QED  BY <1>6, <2>1
<1>8. Grown = F(Grown)
  <2> HIDE DEF F
  <2> QED  BY <1>7
<1> HIDE DEF Grown
<1>9. Grows(Grown, S)
  <2>1. \A k \in Nat : Grown[k] = IF k = 0 THEN S ELSE MaximalizeTurn(k, Grown[k - 1])
    BY <1>8
  <2>2. \A k \in Nat : k + 1 \in Nat /\ k + 1 # 0 /\ k + 1 - 1 = k
    OBVIOUS
  <2> HIDE DEF F
  <2> QED  BY <2>1, <2>2 DEF Grows
<1> QED  BY <1>1, <1>9

(* It makes a maximal clique that contains the given one.                  *)
LEMMA MaximalizeIs ==
    ASSUME Ready, NEW S, Joined(g, S), S # {}
    PROVE  /\ S \subseteq Maximalize(S) /\ Joined(g, Maximalize(S)) /\ Maximalize(S) # {}
           /\ MaximalIn(g, Maximalize(S))
<1>1. PICK f : Grows(f, S) /\ Maximalize(S) = f[g.n]
  BY MaximalizeGrows DEF Joined
<1>2. g.n \in Nat /\ Vertices(g) = 0 .. g.n - 1
  BY DEF Ready, Vertices
<1>3. \A x, y \in Vertices(g) : (IsEdge(g, x, y) <=> IsEdge(g, y, x)) /\ ~IsEdge(g, x, x)
  BY EdgesAre DEF Ready
<1> DEFINE Good(k) == /\ S \subseteq f[k] /\ Joined(g, f[k])
                      /\ \A v \in Vertices(g) : v < k => \E u \in f[k] : ~IsEdge(g, v, u)
           A == {k \in Nat : Good(k)}
<1>4. 0 \in A
  BY <1>1, <1>2 DEF Grows
<1>5. ASSUME NEW k \in Nat, k \in A PROVE k + 1 \in A
  <2>1. f[k + 1] = IF k + 1 <= g.n /\ \A u \in f[k] : IsEdge(g, k, u) THEN f[k] \union {k} ELSE f[k]
    <3>1. f[k + 1] = MaximalizeTurn(k + 1, f[k])
      BY <1>1 DEF Grows
    <3>2. k + 1 - 1 = k
      OBVIOUS
    <3> QED  BY <3>1, <3>2 DEF MaximalizeTurn
  <2>2. k + 1 <= g.n <=> k \in Vertices(g)
    BY <1>2
  <2>3. \A v \in Vertices(g) : v < k + 1 => v < k \/ v = k
    BY <1>2
  <2>4. Good(k)
    BY <1>5
  <2>5. f[k] \subseteq Vertices(g) /\ S \subseteq f[k]
    BY <2>4 DEF Joined
  <2>6. CASE k \in Vertices(g) /\ \A u \in f[k] : IsEdge(g, k, u)
    <3>1. f[k + 1] = f[k] \cup {k}
      BY <2>1, <2>2, <2>6
    <3>2. Joined(g, f[k + 1])
      BY <1>3, <2>4, <2>5, <2>6, <3>1 DEF Joined
    <3>3. ASSUME NEW v \in Vertices(g), v < k + 1 PROVE \E u \in f[k + 1] : ~IsEdge(g, v, u)
      BY <1>3, <2>3, <2>4, <3>1, <3>3
    <3>4. S \subseteq f[k + 1]
      BY <2>5, <3>1
    <3> QED  BY <3>2, <3>3, <3>4
  <2>7. CASE ~(k \in Vertices(g) /\ \A u \in f[k] : IsEdge(g, k, u))
    <3>1. f[k + 1] = f[k]
      BY <2>1, <2>2, <2>7
    <3>2. ASSUME NEW v \in Vertices(g), v < k + 1 PROVE \E u \in f[k + 1] : ~IsEdge(g, v, u)
      BY <2>3, <2>4, <2>7, <3>1, <3>2
    <3> QED  BY <2>4, <3>1, <3>2
  <2> QED  BY <2>6, <2>7
<1> HIDE DEF A
<1>6. g.n \in A
  BY <1>2, <1>4, <1>5, Induction
<1>7. Good(g.n)
  BY <1>6 DEF A
<1>8. \A v \in Vertices(g) : v < g.n
  BY <1>2
<1>9. MaximalIn(g, f[g.n])
  BY <1>7, <1>8 DEF MaximalIn
<1> QED  BY <1>1, <1>7, <1>9

Own(S) == Value(g, Unweighted(call), S)

(* Bounds in weights and bounds in vertices of one weight.                 *)
LEMMA Dividing ==
    ASSUME NEW d \in Nat, NEW s \in Nat \ {0}
    PROVE  /\ DivUp(d, s) \in Nat /\ d \div s \in Nat
           /\ \A n \in Nat : (n >= DivUp(d, s) <=> s * n >= d) /\ (n <= d \div s <=> s * n <= d)
           /\ DivUp(d, s) = 0 <=> d = 0
<1> DEFINE m == d \div s
           r == d % s
           u == (d + s - 1) \div s
           x == (d + s - 1) % s
<1>1. m \in Int /\ r \in 0 .. s - 1 /\ d = m * s + r
  OBVIOUS
<1>2. u \in Int /\ x \in 0 .. s - 1 /\ d + s - 1 = u * s + x
  <2> DEFINE y == d + s - 1
  <2>1. y \in Int
    OBVIOUS
  <2> HIDE DEF y
  <2>2. y \div s \in Int /\ y % s \in 0 .. s - 1 /\ y = (y \div s) * s + (y % s)
    BY <2>1
  <2> QED  BY <2>2 DEF y
<1>3. DivUp(d, s) = u
  BY DEF DivUp
<1> HIDE DEF m, r, u, x
<1>4. \A a, b \in Int : a < b => a * s + s <= b * s
  OBVIOUS
<1>5. m >= 0
  <2>1. m < 0 => m * s + s <= 0 * s
    BY <1>1, <1>4
  <2>2. m * s \in Int
    BY <1>1
  <2> QED  BY <1>1, <2>1, <2>2
<1>6. u >= 0
  <2>1. u < 0 => u * s + s <= 0 * s
    BY <1>2, <1>4
  <2>2. u * s \in Int
    BY <1>2
  <2> QED  BY <1>2, <2>1, <2>2
<1>7. ASSUME NEW n \in Nat PROVE (n >= u <=> s * n >= d) /\ (n <= m <=> s * n <= d)
  <2> DEFINE ns == n * s
             ms == m * s
             us == u * s
  <2>1. ns \in Int /\ ms \in Int /\ us \in Int /\ s * n = ns
    BY <1>1, <1>2
  <2>2. /\ n < u => ns + s <= us
        /\ u < n => us + s <= ns
        /\ m < n => ms + s <= ns
        /\ n < m => ns + s <= ms
    BY <1>1, <1>2, <1>4
  <2>3. (n = u => ns = us) /\ (n = m => ns = ms)
    OBVIOUS
  <2> HIDE DEF ns, ms, us
  <2>4. d = ms + r /\ d + s - 1 = us + x
    BY <1>1, <1>2 DEF ms, us
  <2>5. n >= u <=> ns >= d
    BY <1>2, <2>1, <2>2, <2>3, <2>4
  <2>6. n <= m <=> ns <= d
    BY <1>1, <2>1, <2>2, <2>3, <2>4
  <2> QED  BY <2>1, <2>5, <2>6
<1>8. u = 0 <=> d = 0
  <2>1. 0 >= u <=> s * 0 >= d
    BY <1>7
  <2> QED  BY <1>2, <1>6, <2>1
<1> QED  BY <1>1, <1>2, <1>3, <1>5, <1>6, <1>7, <1>8 DEF m

(* In a graph whose vertices weigh the same a set weighs its size times.   *)
LEMMA EqualWeights ==
    ASSUME NEW h, Whole(h), h.n # 0, ~GraphWeighted(h), NEW S, S \subseteq Vertices(h)
    PROVE  SubgraphWeight(h, S) = h.weights[0] * Cardinality(S) /\ h.weights[0] \in Nat \ {0}
<1> DEFINE V == Vertices(h)
           s == h.weights[0]
           Good(T) == SubgraphWeight(h, T) = s * Cardinality(T)
           A == {k \in Nat : \A T : T \subseteq V /\ Cardinality(T) = k => Good(T)}
<1>1. V = 0 .. h.n - 1 /\ h.n \in Nat /\ 0 \in V /\ \A v \in V : h.weights[v] \in Nat \ {0}
  BY DEF Whole, Vertices
<1>2. \A v \in V : h.weights[v] = s
  BY DEF GraphWeighted
<1>3. /\ SubgraphWeight(h, {}) = 0
      /\ \A T \in SUBSET V : /\ SubgraphWeight(h, T) \in Nat
                             /\ \A v \in V \ T : SubgraphWeight(h, T \cup {v}) = SubgraphWeight(h, T) + h.weights[v]
  BY WeightAdds
<1>4. s \in Nat \ {0}
  BY <1>1
<1> HIDE DEF V, s
<1>5. 0 \in A
  <2> SUFFICES ASSUME NEW T, T \subseteq V, Cardinality(T) = 0 PROVE Good(T)
    OBVIOUS
  <2>1. T = {}
    BY Sizes DEF V
  <2> QED  BY <1>3, <1>4, <2>1
<1>6. ASSUME NEW k \in Nat, k \in A PROVE k + 1 \in A
  <2> SUFFICES ASSUME NEW T, T \subseteq V, Cardinality(T) = k + 1 PROVE Good(T)
    OBVIOUS
  <2>1. T # {}
    BY Sizes DEF V
  <2>2. PICK v \in T : TRUE
    BY <2>1
  <2> DEFINE R == T \ {v}
  <2>3. R \subseteq V /\ v \in V \ R /\ R \cup {v} = T
    BY <2>2
  <2>4. Cardinality(R) = k
    <3>1. Cardinality(T \ {v}) = Cardinality(T) - 1
      BY <2>2, Sizes DEF V
    <3> QED  BY <3>1
  <2> HIDE DEF R
  <2>5. SubgraphWeight(h, R) = s * k
    BY <1>6, <2>3, <2>4
  <2>6. SubgraphWeight(h, T) = SubgraphWeight(h, R) + s
    BY <1>2, <1>3, <2>3
  <2>7. s * k + s = s * (k + 1)
    BY <1>4
  <2> QED  BY <2>5, <2>6, <2>7
<1>7. Cardinality(S) \in Nat
  BY Sizes
<1> HIDE DEF A
<1>8. Cardinality(S) \in A
  BY <1>5, <1>6, <1>7, Induction
<1> QED  BY <1>4, <1>8 DEF A, V, s

(* What a call is about: Light is the bound on the weight of a graph.      *)
Light == SubgraphWeight(g, Vertices(g)) \in 0 .. MAX_WEIGHT
(* The weight a caller sees, below INT_MAX.                                *)
LEMMA OwnIs ==
    ASSUME Ready, Light, NEW S, S \subseteq Vertices(g)
    PROVE  /\ Own(S) \in Nat /\ Own(S) < INT_MAX /\ (S = {} <=> Own(S) = 0)
           /\ \A R : R \subseteq S => /\ Own(R) \in Nat /\ Own(R) <= Own(S)
                                      /\ R # S => Own(R) < Own(S)
<1>1. \A uw : /\ Value(g, uw, S) \in Nat /\ (S = {} <=> Value(g, uw, S) = 0)
              /\ \A R : R \subseteq S => /\ Value(g, uw, R) \in Nat /\ Value(g, uw, R) <= Value(g, uw, S)
                                         /\ R # S => Value(g, uw, R) < Value(g, uw, S)
  BY Values DEF Ready
<1>2. Cardinality(S) <= Weight(S) /\ Weight(S) \in Nat /\ Cardinality(S) \in Nat
  BY Values, WeightAdds, Sizes DEF Ready, Weight
<1>3. Weight(S) <= Weight(Vertices(g)) /\ Weight(Vertices(g)) \in Nat
  <2>1. \A uw : /\ Value(g, uw, Vertices(g)) \in Nat
                /\ \A R : R \subseteq Vertices(g) => Value(g, uw, R) <= Value(g, uw, Vertices(g))
    BY Values DEF Ready
  <2>2. /\ Value(g, FALSE, Vertices(g)) \in Nat
        /\ Value(g, FALSE, S) <= Value(g, FALSE, Vertices(g))
    BY <2>1, Zenon
  <2> QED  BY <2>2 DEF Value, Weight
<1>4. Weight(S) < INT_MAX /\ Cardinality(S) < INT_MAX
  <2>1. Weight(Vertices(g)) <= MAX_WEIGHT /\ MAX_WEIGHT \in Nat /\ MAX_WEIGHT < INT_MAX /\ INT_MAX \in Nat
    BY CliquerAssumption DEF Light, Weight, INT_MAX
  <2> QED  BY <1>2, <1>3, <2>1
<1>5. Own(S) < INT_MAX
  BY <1>4 DEF Own, Value, Weight
<1> QED  BY <1>1, <1>5 DEF Own

(* Weights that are all equal scale the size of a clique.                  *)
LEMMA Scaled ==
    ASSUME Ready, call \in CALLS
    PROVE  /\ Scale(call) \in Nat \ {0}
           /\ \A S : S \subseteq Vertices(g) => Heaviness(S) = Scale(call) * Own(S)
<1>0. call.weighted \in BOOLEAN /\ Whole(g) /\ g.n # 0
  BY SearchAssumption DEF Ready
<1>1. CASE call.weighted /\ Unweighted(call)
  <2>1. ~GraphWeighted(g) /\ Scale(call) = g.weights[0]
    BY <1>1 DEF Unweighted, Scale
  <2>2. {} \subseteq Vertices(g)
    OBVIOUS
  <2>3. Scale(call) \in Nat \ {0}
    BY <1>0, <2>1, <2>2, EqualWeights
  <2>4. ASSUME NEW S, S \subseteq Vertices(g) PROVE Heaviness(S) = Scale(call) * Own(S)
    <3>1. Weight(S) = Scale(call) * Cardinality(S)
      BY <1>0, <2>1, <2>4, EqualWeights DEF Weight
    <3> QED  BY <1>1, <3>1 DEF Heaviness, Own, Value
  <2> QED  BY <2>3, <2>4
<1>2. CASE ~(call.weighted /\ Unweighted(call))
  <2>1. Scale(call) = 1
    BY <1>2 DEF Scale
  <2>2. ASSUME NEW S, S \subseteq Vertices(g) PROVE Heaviness(S) = Own(S) /\ Own(S) \in Nat
    <3>1. Heaviness(S) = Own(S)
      BY <1>2 DEF Heaviness, Own, Value, Weight, Unweighted
    <3>2. \A uw : Value(g, uw, S) \in Nat
      BY <2>2, Values DEF Ready
    <3> QED  BY <3>1, <3>2 DEF Own
  <2> QED  BY <2>1, <2>2
<1> QED  BY <1>1, <1>2

(* The limits a call starts with.                                          *)
Given(c) ==
    [min |-> Unit(c).min, max |-> IF Unit(c).max = 0 THEN INT_MAX ELSE Unit(c).max,
     maximal |-> c.maximal, cap |-> c.cap, keep |-> FALSE, high |-> INT_MAX]
Nothing(c) == c.max > 0 /\ Unit(c).max < Unit(c).min

(* INT_MAX is a number: a lemma of its own keeps the numeral out of larger *)
(* goals.                                                                  *)
LEMMA IntMax == INT_MAX \in Nat
BY SMT DEF INT_MAX

(* The cliques the answers are compared with are the joined sets of        *)
(* vertices.                                                               *)
LEMMA CliquesAre ==
    ASSUME NEW S
    PROVE  S \in Cliques <=> Joined(g, S) /\ S # {}
BY DEF Cliques, IsClique, Joined

(* What a call asks for, in the units the search counts in.                *)
LEMMA CallIs ==
    ASSUME Ready, call \in CALLS
    PROVE  /\ call.min \in Nat /\ call.max \in Nat /\ call.maximal \in BOOLEAN /\ call.cap \in Nat
           /\ call.kind \in {"single", "all"} /\ call.min <= INT_MAX /\ call.max <= INT_MAX
           /\ (call.max = 0 \/ (call.min >= 1 /\ call.min <= call.max))
           /\ Unit(call).min \in Nat /\ Unit(call).max \in Nat
           /\ Unit(call).min = 0 <=> call.min = 0
           /\ \A n \in Nat : /\ n >= Unit(call).min <=> Scale(call) * n >= call.min
                             /\ n <= Unit(call).max <=> Scale(call) * n <= call.max
<1>1. /\ call.min \in 0 .. INT_MAX /\ call.max \in 0 .. INT_MAX /\ call.maximal \in BOOLEAN
      /\ call.cap \in Nat /\ call.kind \in {"single", "all"}
      /\ (call.max = 0 \/ call.min \in 1 .. call.max)
  BY SearchAssumption
<1>2. /\ call.min \in Nat /\ call.max \in Nat /\ call.min <= INT_MAX /\ call.max <= INT_MAX
      /\ (call.max = 0 \/ (call.min >= 1 /\ call.min <= call.max))
  BY <1>1, IntMax
<1>3. Scale(call) \in Nat \ {0}
  BY Scaled
<1>4. Unit(call).min = DivUp(call.min, Scale(call)) /\ Unit(call).max = call.max \div Scale(call)
  BY DEF Unit
<1>5. /\ DivUp(call.min, Scale(call)) \in Nat /\ call.max \div Scale(call) \in Nat
      /\ \A n \in Nat : /\ n >= DivUp(call.min, Scale(call)) <=> Scale(call) * n >= call.min
                        /\ n <= call.max \div Scale(call) <=> Scale(call) * n <= call.max
      /\ DivUp(call.min, Scale(call)) = 0 <=> call.min = 0
  BY <1>2, <1>3, Dividing
<1> QED  BY <1>1, <1>2, <1>4, <1>5

(* What is wanted, in terms of those limits.                               *)
LEMMA WantedIs ==
    ASSUME Ready, Light, call \in CALLS
    PROVE  /\ Nothing(call) => Wanted = {}
           /\ ~Nothing(call) =>
                /\ Given(call) \in Limits /\ Given(call).min <= Given(call).max
                /\ Given(call).max <= INT_MAX
                /\ Given(call).min = 0 <=> call.min = 0
                /\ call.min > 0 => \A S : S \in Wanted <=> Fit(g, Unweighted(call), Given(call), S)
           /\ call.min = 0 => \A S : S \in Wanted <=>
                                 S \in Cliques /\ \A T \in Cliques : Own(T) <= Own(S)
<1> DEFINE s == Scale(call)
           lo == Unit(call).min
           hi == Unit(call).max
<1>1. /\ call.min \in Nat /\ call.max \in Nat /\ call.maximal \in BOOLEAN /\ call.cap \in Nat
      /\ call.min <= INT_MAX /\ call.max <= INT_MAX /\ INT_MAX \in Nat
      /\ (call.max = 0 \/ (call.min >= 1 /\ call.min <= call.max))
      /\ lo \in Nat /\ hi \in Nat /\ (lo = 0 <=> call.min = 0)
      /\ \A n \in Nat : (n >= lo <=> s * n >= call.min) /\ (n <= hi <=> s * n <= call.max)
  BY CallIs, IntMax
<1>2. s \in Nat \ {0} /\ \A S : S \subseteq Vertices(g) => Heaviness(S) = s * Own(S)
  BY Scaled
<1>3. \A S \in Cliques : /\ S \subseteq Vertices(g) /\ S # {} /\ Own(S) \in Nat /\ Own(S) < INT_MAX
                         /\ Own(S) # 0 /\ Heaviness(S) = s * Own(S)
  <2>1. \A S \in Cliques : S \subseteq Vertices(g) /\ S # {}
    BY DEF Cliques, IsClique
  <2> QED  BY <1>2, <2>1, OwnIs
<1> HIDE DEF s, lo, hi
<1>4. \A S \in Cliques : /\ Heaviness(S) >= call.min <=> Own(S) >= lo
                         /\ Heaviness(S) <= call.max <=> Own(S) <= hi
  BY <1>1, <1>3
<1>5. \A S \in Cliques : MaximalIn(g, S) <=> \A T \in Cliques : S \subseteq T => S = T
  BY MaximalMeans
<1>6. lo <= INT_MAX
  <2>1. s * INT_MAX >= INT_MAX
    <3> DEFINE M == INT_MAX
    <3>1. M \in Nat
      BY <1>1
    <3> HIDE DEF M
    <3>2. s * M >= M
      <4>1. \A a \in Nat, b \in Nat : a >= 1 => a * b >= b
        OBVIOUS
      <4> QED  BY <1>2, <3>1, <4>1
    <3> QED  BY <3>2 DEF M
  <2>2. INT_MAX >= lo <=> s * INT_MAX >= call.min
    BY <1>1
  <2>3. s * INT_MAX \in Nat
    BY <1>1, <1>2
  <2> QED  BY <1>1, <2>1, <2>2, <2>3
<1>7. hi <= INT_MAX
  <2>1. hi <= hi <=> s * hi <= call.max
    BY <1>1
  <2>2. s * hi >= hi /\ s * hi \in Nat
    BY <1>1, <1>2
  <2> QED  BY <1>1, <2>1, <2>2
<1>8. Nothing(call) <=> call.max > 0 /\ hi < lo
  BY DEF Nothing, lo, hi
<1>9. call.min > 0 => \A S : S \in Wanted <=>
            /\ S \in Cliques /\ Own(S) >= lo
            /\ (call.max = 0 \/ Own(S) <= hi)
            /\ (call.maximal => MaximalIn(g, S))
  <2> SUFFICES ASSUME call.min > 0, NEW S
               PROVE  S \in Wanted <=> /\ S \in Cliques /\ Own(S) >= lo
                                       /\ (call.max = 0 \/ Own(S) <= hi)
                                       /\ (call.maximal => MaximalIn(g, S))
    OBVIOUS
  <2>1. S \in Wanted <=> /\ S \in Cliques /\ Heaviness(S) >= call.min
                         /\ (call.max = 0 \/ Heaviness(S) <= call.max)
                         /\ (call.maximal => \A T \in Cliques : S \subseteq T => S = T)
    BY <1>1 DEF Wanted
  <2> QED  BY <1>4, <1>5, <2>1
<1>10. Nothing(call) => Wanted = {}
  <2> SUFFICES ASSUME Nothing(call), NEW S \in Wanted PROVE FALSE
    OBVIOUS
  <2>1. call.max > 0 /\ hi < lo /\ call.min > 0
    BY <1>1, <1>8
  <2>2. S \in Cliques /\ Own(S) >= lo /\ Own(S) <= hi
    BY <1>1, <1>9, <2>1
  <2> QED  BY <1>1, <1>3, <2>1, <2>2
<1> DEFINE q == Given(call)
<1>11. /\ q.min = lo /\ q.max = (IF hi = 0 THEN INT_MAX ELSE hi) /\ q.maximal = call.maximal
       /\ q.cap = call.cap /\ q.keep = FALSE /\ q.high = INT_MAX
       /\ q = [min |-> lo, max |-> IF hi = 0 THEN INT_MAX ELSE hi, maximal |-> call.maximal,
               cap |-> call.cap, keep |-> FALSE, high |-> INT_MAX]
  BY DEF Given, lo, hi
<1> HIDE DEF q
<1>12. q \in Limits
  <2>1. (IF hi = 0 THEN INT_MAX ELSE hi) \in Nat
    BY <1>1
  <2> QED  BY <1>1, <1>11, <2>1 DEF Limits
<1>13. ASSUME ~Nothing(call)
       PROVE  /\ q.min <= q.max /\ q.max <= INT_MAX /\ (q.min = 0 <=> call.min = 0)
              /\ \A n \in Nat : n < INT_MAX => (n <= q.max <=> call.max = 0 \/ n <= hi)
  <2>1. hi = 0 <=> call.max = 0
    <3>1. call.max = 0 => hi = 0
      <4>1. call.max = 0 => s * hi <= 0
        BY <1>1
      <4>2. hi > 0 => s * hi >= hi
        BY <1>1, <1>2
      <4>3. s * hi \in Nat
        BY <1>1, <1>2
      <4> QED  BY <1>1, <4>1, <4>2, <4>3
    <3>2. call.max > 0 => hi > 0
      BY <1>1, <1>8, <1>13
    <3> QED  BY <1>1, <3>1, <3>2
  <2>2. q.min <= q.max /\ q.max <= INT_MAX
    BY <1>1, <1>6, <1>7, <1>8, <1>11, <1>13, <2>1
  <2>3. \A n \in Nat : n < INT_MAX => (n <= q.max <=> call.max = 0 \/ n <= hi)
    BY <1>1, <1>11, <2>1
  <2> QED  BY <1>1, <1>11, <2>2, <2>3
<1>14. ASSUME ~Nothing(call), call.min > 0, NEW S
       PROVE  S \in Wanted <=> Fit(g, Unweighted(call), q, S)
  <2>1. Fit(g, Unweighted(call), q, S) <=> /\ S \in Cliques /\ Own(S) >= lo /\ Own(S) <= q.max
                                           /\ (call.maximal => MaximalIn(g, S))
    BY <1>11, CliquesAre DEF Fit, Own
  <2>2. S \in Cliques => (Own(S) <= q.max <=> call.max = 0 \/ Own(S) <= hi)
    BY <1>3, <1>13, <1>14
  <2> QED  BY <1>9, <1>14, <2>1, <2>2
<1>15. call.min = 0 => \A S : S \in Wanted <=> S \in Cliques /\ \A T \in Cliques : Own(T) <= Own(S)
  <2>1. \A m, n \in Nat : s * m <= s * n <=> m <= n
    <3> SUFFICES ASSUME NEW m \in Nat, NEW n \in Nat PROVE s * m <= s * n <=> m <= n
      OBVIOUS
    <3>1. n < m => s * n + s <= s * m
      BY <1>2
    <3>2. m <= n => s * m <= s * n
      BY <1>2
    <3>3. s * m \in Nat /\ s * n \in Nat
      BY <1>2
    <3> QED  BY <1>2, <3>1, <3>2, <3>3
  <2>2. \A S, T \in Cliques : Heaviness(T) <= Heaviness(S) <=> Own(T) <= Own(S)
    BY <1>3, <2>1
  <2> QED  BY <2>2 DEF Wanted
<1> QED  BY <1>10, <1>12, <1>13, <1>14, <1>15 DEF q

-----------------------------------------------------------------------------
(* The invariant.                                                          *)

(* What the first phase has learned of the prefix of k places: the value   *)
(* of the best clique in it, or one less than the least asked for where    *)
(* weights are searched.                                                   *)
Inside(h, t, k, C) == Joined(h, C) /\ C \subseteq Images(t, 1 .. k)
Exact(h, uw, least, t, s, k) ==
    /\ s[t[k]] \in Nat \ {0}
    /\ \A C : Inside(h, t, k, C) =>
                 Value(h, uw, C) <= s[t[k]] \/ (~uw /\ least > 0 /\ s[t[k]] = least - 1)
    /\ ~uw /\ least > 0 => s[t[k]] <= least - 1
    /\ \E C : Inside(h, t, k, C) /\ C # {} /\ s[t[k]] <= Value(h, uw, C)
Best(h, uw, t, s, k, C) == Inside(h, t, k, C) /\ C # {} /\ Value(h, uw, C) = s[t[k]]

(* No clique that the first phase may stop at.                             *)
NotYet(h, uw, least, most, t, k) ==
    \A C : Inside(h, t, k, C) => Value(h, uw, C) < least \/ Value(h, uw, C) > most
Most(c, uw, q) == IF uw \/ c.kind = "all" THEN INT_MAX ELSE q.max

Phases == {"first", "judge", "fail", "second", "done"}
Busy ==
    /\ g # NoGraph /\ Ready /\ Light /\ call \in CALLS
    /\ sizes \in [Vertices(g) -> Nat] /\ clique \in MaybeClique

Begun == p = Given(call) /\ ~Nothing(call) /\ found = <<>>
FirstInv ==
    /\ Begun
    /\ \/ i = 0 /\ \A v \in Vertices(g) : sizes[v] = 0
       \/ LET uw == Unweighted(call)
          IN /\ i \in 2 .. g.n
             /\ \A k \in 1 .. i - 1 : Exact(g, uw, p.min, table, sizes, k)
             /\ \A k \in i .. g.n : sizes[table[k]] = 0
             /\ p.min > 0 => NotYet(g, uw, p.min, Most(call, uw, p), table, i - 1)
             /\ uw \/ p.min = 0 => Best(g, uw, table, sizes, i - 1, clique)

(* The place where the first phase has stopped.                            *)
StoppedAt(h, uw, least, most, t, s, j) ==
    /\ \A k \in 1 .. j - 1 : Exact(h, uw, least, t, s, k)
    /\ NotYet(h, uw, least, most, t, j - 1)
    /\ s[t[j]] = IF uw THEN least ELSE 0
JudgeInv ==
    LET uw == Unweighted(call)
        most == Most(call, uw, p)
    IN /\ Begun
       /\ p.min = 0 => /\ \A k \in 1 .. g.n : Exact(g, uw, p.min, table, sizes, k)
                       /\ Best(g, uw, table, sizes, g.n, clique)
       /\ p.min > 0 => /\ Joined(g, clique) /\ clique # {} /\ Value(g, uw, clique) >= p.min
                       /\ Value(g, uw, clique) <= IF uw THEN p.min ELSE most
                       /\ \E j \in 1 .. g.n : StoppedAt(g, uw, p.min, most, table, sizes, j)
FailInv ==
    LET uw == Unweighted(call)
    IN Begun /\ p.min > 0 /\ NotYet(g, uw, p.min, Most(call, uw, p), table, g.n)

WantedInside(t, k, W) == {S \in W : S \subseteq Images(t, 1 .. k)}
SecondInv ==
    LET uw == Unweighted(call)
    IN /\ p \in Limits /\ p.min >= 1 /\ p.min <= p.max /\ p.min <= INT_MAX /\ p.high = INT_MAX
       /\ p.cap = IF call.kind = "single" THEN 0 ELSE call.cap
       /\ p.keep <=> call.kind = "single"
       /\ \A S : S \in Wanted <=> Fit(g, uw, p, S)
       /\ i \in 1 .. g.n
       /\ Prunes(g, uw, IF uw THEN p.min ELSE p.min - 1, table, sizes, i - 1)
       /\ Lists(found, <<>>, WantedInside(table, i - 1, Wanted), p.cap) /\ Len(found) <= p.cap
DoneInv ==
    /\ call.kind = "all" => Lists(found, <<>>, Wanted, call.cap)
    /\ call.kind = "single" => IF Wanted = {} THEN clique = NoClique ELSE clique \in Wanted

SearchInv ==
    /\ GraphInv
    /\ mode \in Phases \cup {"idle", "reading"}
    /\ mode \in Phases => Busy
    /\ mode = "first" => FirstInv
    /\ mode = "judge" => JudgeInv
    /\ mode = "fail" => FailInv
    /\ mode = "second" => SecondInv
    /\ mode = "done" => DoneInv

(* What a step leaves as it is when the graph, the call and the order stay.*)
LEMMA Stays ==
    ASSUME UNCHANGED <<g, call, table>>
    PROVE  /\ Unweighted(call)' = Unweighted(call) /\ Given(call)' = Given(call)
           /\ Nothing(call)' = Nothing(call) /\ Wanted' = Wanted /\ Ready' = Ready
           /\ Light' = Light /\ MaybeClique' = MaybeClique
<1>1. Unweighted(call)' = Unweighted(call)
  BY DEF Unweighted
<1>2. Scale(call)' = Scale(call)
  BY <1>1 DEF Scale
<1>3. Unit(call)' = Unit(call)
  BY <1>2 DEF Unit
<1>4. Given(call)' = Given(call) /\ Nothing(call)' = Nothing(call)
  BY <1>3 DEF Given, Nothing
<1>5. Wanted' = Wanted
  BY DEF Wanted, Cliques, IsClique, Heaviness, Weight
<1>6. Ready' = Ready /\ Light' = Light /\ MaybeClique' = MaybeClique
  BY DEF Ready, Light, MaybeClique
<1> QED  BY <1>1, <1>4, <1>5, <1>6

(* The cliques of the turn for place k.                                    *)
LEMMA TurnIs ==
    ASSUME Ready, NEW k \in 1 .. g.n
    PROVE  /\ NewTable(1 .. k - 1, k) \subseteq 1 .. k - 1
           /\ Rooted({table[k]}, NewTable(1 .. k - 1, k))
           /\ table[k] \in Vertices(g) /\ table[k] \notin Images(table, 1 .. k - 1)
           /\ Images(table, 1 .. k) = Images(table, 1 .. k - 1) \cup {table[k]}
           /\ \A D : D \in Cands({table[k]}, NewTable(1 .. k - 1, k))
                     <=> Inside(g, table, k, D) /\ table[k] \in D
<1> DEFINE v == table[k]
           T == NewTable(1 .. k - 1, k)
<1>1. g.n \in Nat /\ k \in Nat /\ k >= 1 /\ k <= g.n
  BY DEF Ready
<1>2. T \subseteq 1 .. k - 1 /\ \A l \in 1 .. k - 1 : l \in T <=> IsEdge(g, v, table[l])
  BY <1>1 DEF NewTable
<1>3. \A l \in 1 .. k - 1 : l \in 1 .. g.n /\ l # k /\ l \in Places
  BY <1>1 DEF Places
<1>4. v \in Vertices(g) /\ v \notin Images(table, 1 .. k - 1)
  BY <1>3 DEF Ready, TableOf, Images
<1>5. Images(table, 1 .. k) = Images(table, 1 .. k - 1) \cup {v}
  <2>1. 1 .. k = 1 .. k - 1 \cup {k}
    BY <1>1
  <2> QED  BY <2>1 DEF Images
<1>6. \A x, y \in Vertices(g) : (IsEdge(g, x, y) <=> IsEdge(g, y, x)) /\ ~IsEdge(g, x, x)
  BY EdgesAre DEF Ready
<1>7. T \subseteq Places /\ VerticesAt(T) \subseteq Vertices(g)
  BY <1>2, <1>3, PlacesAre
<1>8. \A u : u \in VerticesAt(T) <=> u \in Images(table, 1 .. k - 1) /\ IsEdge(g, v, u)
  BY <1>2 DEF VerticesAt, Images
<1> HIDE DEF v, T
<1>9. Rooted({v}, T)
  BY <1>4, <1>6, <1>7, <1>8 DEF Rooted, Joined
<1>10. ASSUME NEW D
       PROVE  D \in Cands({v}, T) <=> Inside(g, table, k, D) /\ v \in D
  <2>1. ASSUME D \in Cands({v}, T) PROVE Inside(g, table, k, D) /\ v \in D
    <3>1. Joined(g, D) /\ v \in D /\ D \ {v} \subseteq VerticesAt(T)
      BY <2>1 DEF Cands
    <3> QED  BY <1>5, <1>8, <3>1 DEF Inside
  <2>2. ASSUME Inside(g, table, k, D), v \in D PROVE D \in Cands({v}, T)
    <3>1. Joined(g, D) /\ D \subseteq Vertices(g)
      BY <2>2 DEF Inside, Joined
    <3>2. \A u \in D \ {v} : IsEdge(g, v, u)
      BY <2>2, <3>1 DEF Joined
    <3>3. D \ {v} \subseteq VerticesAt(T)
      BY <1>5, <1>8, <2>2, <3>2 DEF Inside
    <3> QED  BY <2>2, <3>1, <3>3 DEF Cands
  <2> QED  BY <2>1, <2>2
<1> QED  BY <1>2, <1>4, <1>5, <1>9, <1>10 DEF v, T

(* A step of a search keeps the invariant of graphs.                       *)
LEMMA SearchKeepsGraph ==
    ASSUME GraphInv, mode # "reading", mode' # "reading", UNCHANGED g
    PROVE  GraphInv'
BY GraphStep DEF Searching

(* A step of a call leaves the graph, the call and the order as they are.  *)
LEMMA BusyStays ==
    ASSUME Busy, UNCHANGED <<g, call, table>>, sizes' \in [Vertices(g) -> Nat], clique' \in MaybeClique
    PROVE  Busy'
BY Stays DEF Busy

(* Nothing is wanted, or nothing can be: an answer is not looked for.      *)
LEMMA NothingWanted ==
    ASSUME Wanted' = {}, found' = <<>>, clique' = NoClique, call' \in CALLS
    PROVE  DoneInv'
<1>1. ToSet(<<>>) = {} /\ Len(<<>>) = 0 /\ <<>> \in Seq(SUBSET Vertices(g')) /\ Once(<<>>)
  BY DEF ToSet, Once
<1>2. call'.cap \in Nat
  BY SearchAssumption
<1>3. Lists(<<>>, <<>>, {}, call.cap)'
  BY <1>1, <1>2 DEF Lists
<1> QED  BY <1>3 DEF DoneInv

(* A call that asks for what cannot be wants no clique.                    *)
LEMMA NothingNext == (Ready /\ Light /\ call \in CALLS /\ Nothing(call))' => (Wanted = {})'
<1>1. Ready /\ Light /\ call \in CALLS /\ Nothing(call) => Wanted = {}
  BY WantedIs
<1> QED  BY <1>1, PTL

(* The invariant of searches holds at the start.                           *)
LEMMA InitHolds == ASSUME Init PROVE SearchInv
<1>1. GraphInv
  BY DEF Init, GraphInit, GraphInv
<1> QED  BY <1>1 DEF Init, GraphInit, SearchInv, Phases

(* Editing the graph between searches keeps it.                            *)
LEMMA GraphStepHolds ==
    ASSUME SearchInv, (GraphNext \/ Reorder) /\ UNCHANGED search
    PROVE  SearchInv'
<1>1. GraphInv'
  <2>1. GraphInv
    BY DEF SearchInv
  <2>2. GraphNext \/ \E order : Rename(order)
    BY DEF Reorder
  <2> QED  BY <2>1, <2>2, GraphStep
<1>2. mode \in {"idle", "reading"} /\ mode' \in {"idle", "reading"}
  BY DEF GraphNext, Reorder, New, Change, Resize, Rename, Crop, Edit, StartReading, EndOfFile, ReadLine, At
<1> QED  BY <1>1, <1>2 DEF SearchInv, Phases

(* So does returning from a call,                                          *)
LEMMA ReturnHolds == ASSUME SearchInv, Return PROVE SearchInv'
<1>1. GraphInv /\ mode = "done" /\ mode' = "idle" /\ UNCHANGED g
  BY DEF SearchInv, Return, At
<1>2. GraphInv'
  BY <1>1, SearchKeepsGraph
<1> QED  BY <1>1, <1>2 DEF SearchInv, Phases

(* giving up after the first pass,                                         *)
LEMMA FailHolds == ASSUME SearchInv, Fail PROVE SearchInv'
<1>1. GraphInv /\ mode = "fail" /\ mode' = "done" /\ Busy /\ FailInv
  BY DEF SearchInv, Fail, At, Phases
<1>2. UNCHANGED <<g, call, p, table, sizes, found>> /\ clique' = NoClique
  BY DEF Fail
<1>3. GraphInv'
  BY <1>1, <1>2, SearchKeepsGraph
<1>4. clique' \in MaybeClique /\ sizes' \in [Vertices(g) -> Nat]
  BY <1>1, <1>2 DEF MaybeClique, Busy
<1>5. Busy'
  BY <1>1, <1>2, <1>4, BusyStays
<1>6. Wanted = {}
  <2> DEFINE uw == Unweighted(call)
             q == Given(call)
             most == Most(call, uw, p)
  <2>1. /\ Ready /\ Light /\ call \in CALLS
        /\ p = q /\ ~Nothing(call) /\ p.min > 0 /\ NotYet(g, uw, p.min, most, table, g.n)
    BY <1>1 DEF Busy, FailInv, Begun
  <2>2. /\ q \in Limits /\ q.min <= q.max /\ q.max <= INT_MAX /\ call.min > 0
        /\ \A S : S \in Wanted <=> Fit(g, uw, q, S)
    <3>1. call.min \in Nat
      BY <2>1, CallIs
    <3> QED  BY <2>1, <3>1, WantedIs
  <2>3. most \in Nat /\ q.max <= most
    BY <2>1, <2>2, IntMax DEF Most, Limits
  <2> HIDE DEF uw, q, most
  <2> SUFFICES ASSUME NEW S \in Wanted PROVE FALSE
    OBVIOUS
  <2>4. Joined(g, S) /\ Value(g, uw, S) >= q.min /\ Value(g, uw, S) <= q.max
    BY <2>2 DEF Fit
  <2>5. Inside(g, table, g.n, S) /\ Value(g, uw, S) \in Nat
    <3>1. S \subseteq Images(table, 1 .. g.n) /\ S \subseteq Vertices(g) /\ Whole(g)
      BY <2>1, <2>4, TableOnto DEF Joined, Ready
    <3> QED  BY <2>4, <3>1, Values DEF Inside
  <2>6. Value(g, uw, S) < q.min \/ Value(g, uw, S) > most
    BY <2>1, <2>5 DEF NotYet
  <2> QED  BY <2>2, <2>3, <2>4, <2>5, <2>6 DEF Limits
<1>7. Wanted' = {} /\ found' = <<>> /\ call' \in CALLS
  BY <1>1, <1>2, <1>6, Stays DEF FailInv, Begun, Busy
<1>8. DoneInv'
  BY <1>2, <1>7, NothingWanted
<1> QED  BY <1>1, <1>3, <1>5, <1>8 DEF SearchInv, Phases

(* and starting a call: the table visits each vertex once.                 *)
LEMMA CallHolds == ASSUME SearchInv, NEW c \in CALLS, Call(c) PROVE SearchInv'
<1> DEFINE order == OrderOf(c)
           t == [k \in 1 .. g.n |-> order[k - 1]]
<1>1. GraphInv /\ mode = "idle" /\ g # NoGraph /\ UNCHANGED g
  BY DEF SearchInv, Call, At
<1>2. Whole(g) /\ g.n \in Nat \ {0} /\ Light
  BY <1>1 DEF GraphInv, Whole, Light
<1>3. /\ IsBijection(order, g.n) /\ call' = c /\ table' = t /\ i' = 0 /\ p' = Given(c)
      /\ sizes' = [v \in Vertices(g) |-> 0] /\ clique' = NoClique /\ found' = <<>>
      /\ mode' = IF Nothing(c) THEN "done" ELSE "first"
  BY DEF Call, SearchIs, Idle, Given, Nothing
<1>4. TableOf(g, t)
  <2>1. \A k \in 1 .. g.n : k - 1 \in 0 .. g.n - 1 /\ t[k] = order[k - 1]
    BY <1>2
  <2>2. \A k, l \in 1 .. g.n : k - 1 = l - 1 => k = l
    BY <1>2
  <2> HIDE DEF t, order
  <2> QED  BY <1>3, <2>1, <2>2 DEF TableOf, IsBijection, Vertices
<1> HIDE DEF t, order
<1>5. mode' # "reading"
  BY <1>3
<1>6. GraphInv'
  BY <1>1, <1>5, SearchKeepsGraph
<1>7. sizes' \in [Vertices(g) -> Nat] /\ clique' \in MaybeClique
  BY <1>3 DEF MaybeClique
<1>8. Busy'
  <2>1. Ready'
    BY <1>1, <1>2, <1>3, <1>4 DEF Ready
  <2>2. Light'
    BY <1>1, <1>2 DEF Light
  <2>3. MaybeClique' = MaybeClique
    BY <1>1 DEF MaybeClique
  <2> QED  BY <1>1, <1>3, <1>7, <2>1, <2>2, <2>3 DEF Busy
<1>9. Given(c)' = Given(c) /\ Nothing(c)' = Nothing(c)
  <2>1. Unweighted(c)' = Unweighted(c)
    BY <1>1 DEF Unweighted
  <2>2. Scale(c)' = Scale(c)
    BY <1>1, <2>1 DEF Scale
  <2>3. Unit(c)' = Unit(c)
    BY <2>2 DEF Unit
  <2> QED  BY <2>3 DEF Given, Nothing
<1>10. Given(call)' = Given(c) /\ Nothing(call)' = Nothing(c)
  BY <1>3, <1>9 DEF Given, Nothing, Unit, Scale, Unweighted
<1>11. CASE Nothing(c)
  <2>2. Wanted' = {}
    BY <1>8, <1>10, <1>11, NothingNext DEF Busy
  <2>3. DoneInv'
    BY <1>3, <2>2, NothingWanted
  <2> QED  BY <1>3, <1>6, <1>8, <1>11, <2>3 DEF SearchInv, Phases
<1>12. CASE ~Nothing(c)
  <2>1. Begun'
    BY <1>3, <1>10, <1>12 DEF Begun
  <2>2. FirstInv'
    BY <1>1, <1>3, <2>1 DEF FirstInv
  <2> QED  BY <1>3, <1>6, <1>8, <1>12, <2>2 DEF SearchInv, Phases
<1> QED  BY <1>11, <1>12

-----------------------------------------------------------------------------
(* The first pass, without weights.                                        *)

(* A set of vertices is a possible answer.                                 *)
LEMMA CliqueIsSet ==
    ASSUME Whole(g), NEW S, S \subseteq Vertices(g)
    PROVE  S \in MaybeClique /\ S # NoClique
BY CliqueOrNone DEF MaybeClique

(* What is inside a prefix is inside the next one.                         *)
LEMMA InsideGrows ==
    ASSUME Ready, NEW k \in 1 .. g.n
    PROVE  /\ \A C : Inside(g, table, k - 1, C) => Inside(g, table, k, C)
           /\ \A C : Inside(g, table, k, C) => \/ Inside(g, table, k - 1, C)
                                               \/ C \in Cands({table[k]}, NewTable(1 .. k - 1, k))
           /\ \A C : C \in Cands({table[k]}, NewTable(1 .. k - 1, k)) => Inside(g, table, k, C)
<1> DEFINE v == table[k]
           A == Images(table, 1 .. k - 1)
           B == Images(table, 1 .. k)
           X == Cands({v}, NewTable(1 .. k - 1, k))
<1>1. B = A \cup {v} /\ \A D : D \in X <=> Inside(g, table, k, D) /\ v \in D
  BY TurnIs
<1>2. \A C : Inside(g, table, k, C) <=> Joined(g, C) /\ C \subseteq B
  BY DEF Inside
<1>3. \A C : Inside(g, table, k - 1, C) <=> Joined(g, C) /\ C \subseteq A
  BY DEF Inside
<1> HIDE DEF v, A, B, X
<1>4. \A C : Inside(g, table, k - 1, C) => Inside(g, table, k, C)
  BY <1>1, <1>2, <1>3
<1>5. \A C : Inside(g, table, k, C) => Inside(g, table, k - 1, C) \/ C \in X
  <2> SUFFICES ASSUME NEW C, Inside(g, table, k, C), v \notin C PROVE Inside(g, table, k - 1, C)
    BY <1>1
  <2>1. C \subseteq A
    BY <1>1, <1>2
  <2> QED  BY <1>2, <1>3, <2>1
<1> QED  BY <1>1, <1>4, <1>5 DEF v, X

(* Only the size of the turn's own vertex changes.                         *)
LEMMA OtherSizes ==
    ASSUME Ready, sizes \in [Vertices(g) -> Nat], NEW k \in 1 .. g.n, NEW x \in Nat,
           NEW s, s = [sizes EXCEPT ![table[k]] = x]
    PROVE  /\ s \in [Vertices(g) -> Nat] /\ s[table[k]] = x
           /\ \A l \in 1 .. g.n : l # k => s[table[l]] = sizes[table[l]]
<1>1. \A l \in 1 .. g.n : table[l] \in Vertices(g) /\ (l # k => table[l] # table[k])
  BY DEF Ready, TableOf
<1>2. s \in [Vertices(g) -> Nat] /\ s[table[k]] = x
  BY <1>1
<1>3. \A l \in 1 .. g.n : l # k => s[table[l]] = sizes[table[l]]
  BY <1>1
<1> QED  BY <1>2, <1>3

(* A size is exact whatever the other entries are.                         *)
LEMMA OtherExact ==
    ASSUME NEW s, NEW l, s[table[l]] = sizes[table[l]], NEW uw, NEW least,
           Exact(g, uw, least, table, sizes, l)
    PROVE  Exact(g, uw, least, table, s, l)
BY DEF Exact

(* Exact sizes bound the cliques of their vertices.                        *)
LEMMA ExactBounds ==
    ASSUME Ready, NEW uw, uw, NEW least, NEW s, NEW top \in Nat, top <= g.n,
           \A k \in 1 .. top : Exact(g, uw, least, table, s, k)
    PROVE  UpperBounds(g, table, s, top)
BY DEF UpperBounds, Exact, Inside, Value

(* So the second pass may skip what they rule out.                         *)
LEMMA ExactPrunes ==
    ASSUME Ready, NEW uw, NEW least \in Nat, NEW s, NEW top \in Nat, top <= g.n,
           \A k \in 1 .. top : Exact(g, uw, least, table, s, k),
           NEW bound \in Nat, least > 0 => bound <= least - 1 \/ uw
    PROVE  Prunes(g, uw, bound, table, s, top)
<1> SUFFICES ASSUME NEW k \in 1 .. top
             PROVE  /\ s[table[k]] \in Nat
                    /\ \A C : Joined(g, C) /\ C \subseteq Images(table, 1 .. k)
                              => Value(g, uw, C) <= s[table[k]] \/ s[table[k]] >= bound
  BY DEF Prunes
<1>1. /\ s[table[k]] \in Nat
      /\ \A C : Inside(g, table, k, C) =>
                   Value(g, uw, C) <= s[table[k]] \/ (~uw /\ least > 0 /\ s[table[k]] = least - 1)
  BY DEF Exact
<1> QED  BY <1>1 DEF Inside

(* What the turn of the unweighted search for place k finds.               *)
TurnFinds(uw, k, known, S, size) ==
    /\ known \in Nat \ {0} /\ size \in Nat \ {0}
    /\ \A C : Inside(g, table, k, C) => Value(g, uw, C) <= size
    /\ S # NoClique => /\ Inside(g, table, k, S \cup {table[k]})
                       /\ Value(g, uw, S \cup {table[k]}) = size
(* One turn of unweighted_clique_search_single finds what its vertex adds. *)
LEMMA UnweightedTurn ==
    ASSUME Ready, NEW uw, uw, NEW least \in Nat, NEW k \in 2 .. g.n,
           \A l \in 1 .. k - 1 : Exact(g, uw, least, table, sizes, l),
           NEW known, known = sizes[table[k - 1]],
           NEW S, S = SubSingle(NewTable(1 .. k - 1, k), known),
           NEW size, size = IF S = NoClique THEN known ELSE known + 1
    PROVE  TurnFinds(uw, k, known, S, size)
<1> DEFINE v == table[k]
           T == NewTable(1 .. k - 1, k)
<1>0. k \in 1 .. g.n /\ k - 1 \in 1 .. k - 1 /\ k - 1 \in Nat /\ k - 1 <= g.n
  BY DEF Ready
<1>1. Exact(g, uw, least, table, sizes, k - 1) /\ UpperBounds(g, table, sizes, k - 1)
  BY <1>0, ExactBounds
<1>2. known \in Nat \ {0} /\ \A C : Inside(g, table, k - 1, C) => Value(g, uw, C) <= known
  BY <1>1 DEF Exact
<1>3. size \in Nat \ {0}
  BY <1>2
<1>4. T \subseteq 1 .. k - 1 /\ Rooted({v}, T) /\ v \in Vertices(g) /\ Whole(g)
  BY <1>0, TurnIs DEF Ready
<1>5. Hits(S, VerticesAt(T), known)
  BY <1>0, <1>1, <1>2, <1>4, SubSingleHits
<1>6. /\ \A C : Inside(g, table, k, C) => \/ Inside(g, table, k - 1, C) \/ C \in Cands({v}, T)
      /\ \A C : C \in Cands({v}, T) => Inside(g, table, k, C)
  BY <1>0, InsideGrows
<1>7. \A C : C \subseteq Vertices(g) => /\ Cardinality(C) \in Nat
                                        /\ \A x \in C : Cardinality(C \ {x}) = Cardinality(C) - 1
                                        /\ \A x \in Vertices(g) \ C : Cardinality(C \cup {x}) = Cardinality(C) + 1
  BY <1>4, Sizes
<1> HIDE DEF v, T
<1>8. ASSUME NEW C \in Cands({v}, T)
      PROVE  Joined(g, C \ {v}) /\ C \ {v} \subseteq VerticesAt(T) /\ Cardinality(C) = Cardinality(C \ {v}) + 1
             /\ Cardinality(C) \in Nat /\ Cardinality(C \ {v}) \in Nat /\ C \subseteq Vertices(g)
  <2>1. Joined(g, C) /\ v \in C /\ C \ {v} \subseteq VerticesAt(T)
    BY DEF Cands
  <2>2. Joined(g, C \ {v}) /\ C \subseteq Vertices(g) /\ C \ {v} \subseteq Vertices(g)
    BY <2>1 DEF Joined
  <2>3. /\ Cardinality(C) \in Nat /\ Cardinality(C \ {v}) = Cardinality(C) - 1
        /\ Cardinality(C \ {v}) \in Nat
    BY <1>7, <2>1, <2>2
  <2> QED  BY <2>1, <2>2, <2>3
<1>9. CASE S = NoClique
  <2>1. size = known /\ \A C : Joined(g, C) /\ C \subseteq VerticesAt(T) => Cardinality(C) < known
    BY <1>5, <1>9 DEF Hits
  <2>2. ASSUME NEW C, Inside(g, table, k, C) PROVE Value(g, uw, C) <= size
    <3>1. CASE Inside(g, table, k - 1, C)
      BY <1>2, <2>1, <3>1
    <3>2. CASE C \in Cands({v}, T)
      <4>1. /\ Cardinality(C \ {v}) < known /\ Cardinality(C) = Cardinality(C \ {v}) + 1
            /\ Cardinality(C) \in Nat /\ Cardinality(C \ {v}) \in Nat
        BY <1>8, <2>1, <3>2
      <4>2. Cardinality(C) <= known
        BY <1>2, <4>1
      <4> QED  BY <2>1, <4>2 DEF Value
    <3> QED  BY <1>6, <2>2, <3>1, <3>2
  <2> QED  BY <1>2, <1>3, <1>9, <2>2 DEF TurnFinds
<1>10. CASE S # NoClique
  <2>1. size = known + 1 /\ Joined(g, S) /\ S \subseteq VerticesAt(T) /\ Cardinality(S) = known
    BY <1>5, <1>10 DEF Hits
  <2>2. /\ \A C : Joined(g, C) /\ C \subseteq VerticesAt(T) => C \subseteq Images(table, 1 .. k - 1)
        /\ VerticesAt(T) \subseteq Vertices(g) /\ v \notin VerticesAt(T)
    <3>1. VerticesAt(T) \subseteq Images(table, 1 .. k - 1)
      BY <1>4 DEF VerticesAt, Images
    <3>2. v \notin Images(table, 1 .. k - 1)
      BY <1>0, TurnIs DEF v
    <3>3. VerticesAt(T) \subseteq Vertices(g)
      BY <1>4, PlacesAre DEF Rooted
    <3> QED  BY <3>1, <3>2, <3>3
  <2>3. ASSUME NEW C, Inside(g, table, k, C) PROVE Value(g, uw, C) <= size
    <3>1. CASE Inside(g, table, k - 1, C)
      <4>1. Value(g, uw, C) <= known /\ Value(g, uw, C) \in Nat
        <5>1. C \subseteq Vertices(g)
          BY <2>3 DEF Inside, Joined
        <5>2. Value(g, uw, C) \in Nat
          BY <1>7, <5>1 DEF Value
        <5> QED  BY <1>2, <3>1, <5>2
      <4>2. known \in Nat /\ size = known + 1
        BY <1>2, <2>1
      <4> DEFINE val == Value(g, uw, C)
      <4>3. val <= known /\ val \in Nat
        BY <4>1
      <4> HIDE DEF val
      <4>4. val <= size
        BY <4>2, <4>3
      <4> QED  BY <4>4 DEF val
    <3>2. CASE C \in Cands({v}, T)
      <4>1. /\ Inside(g, table, k - 1, C \ {v}) /\ Cardinality(C) = Cardinality(C \ {v}) + 1
            /\ Cardinality(C) \in Nat /\ Cardinality(C \ {v}) \in Nat
        BY <1>8, <2>2, <3>2 DEF Inside
      <4>2. Cardinality(C \ {v}) <= known
        BY <1>2, <4>1 DEF Value
      <4>3. Cardinality(C) <= known + 1
        BY <1>2, <4>1, <4>2
      <4> QED  BY <2>1, <4>3 DEF Value
    <3> QED  BY <1>6, <2>3, <3>1, <3>2
  <2>4. S \cup {v} \in Cands({v}, T)
    <3>1. \A u \in S : IsEdge(g, v, u) /\ IsEdge(g, u, v)
      BY <1>4, <2>1 DEF Rooted
    <3>2. Joined(g, S \cup {v}) /\ S \cup {v} \subseteq Vertices(g)
      BY <1>4, <2>1, <3>1 DEF Joined
    <3> QED  BY <2>1, <3>2 DEF Cands
  <2>5. Cardinality(S \cup {v}) = known + 1
    BY <1>4, <1>7, <2>1, <2>2
  <2> QED  BY <1>2, <1>3, <1>6, <2>1, <2>3, <2>4, <2>5 DEF Value, v, TurnFinds
<1> QED  BY <1>9, <1>10

(* A step within a call keeps the invariant when it keeps that of its      *)
(* phase.                                                                  *)
LEMMA PhaseKeeps ==
    ASSUME SearchInv, mode \in Phases, UNCHANGED <<g, call, table>>, mode' \in Phases,
           sizes' \in [Vertices(g) -> Nat], clique' \in MaybeClique,
           /\ mode' = "first" => FirstInv'
           /\ mode' = "judge" => JudgeInv'
           /\ mode' = "fail" => FailInv'
           /\ mode' = "second" => SecondInv'
           /\ mode' = "done" => DoneInv'
    PROVE  SearchInv'
<1>1. GraphInv /\ Busy /\ mode # "reading" /\ mode' # "reading"
  BY DEF SearchInv, Phases
<1>2. GraphInv' /\ Busy'
  BY <1>1, BusyStays, SearchKeepsGraph
<1> QED  BY <1>2 DEF SearchInv

(* What a call began with stays.                                           *)
LEMMA BegunStays ==
    ASSUME Begun, UNCHANGED <<g, call, p, table, found>>
    PROVE  Begun' /\ Unweighted(call)' = Unweighted(call)
           /\ Most(call, Unweighted(call), p)' = Most(call, Unweighted(call), p)
BY Stays DEF Begun, Most

(* One more turn of the first pass.                                        *)
LEMMA FirstAgain ==
    ASSUME Begun, UNCHANGED <<g, call, p, table, found>>, g.n \in Nat, NEW k \in 1 .. g.n, k < g.n,
           i' = k + 1,
           \A l \in 1 .. k : Exact(g, Unweighted(call), p.min, table, sizes', l),
           \A l \in k + 1 .. g.n : sizes'[table[l]] = 0,
           p.min > 0 => NotYet(g, Unweighted(call), p.min, Most(call, Unweighted(call), p), table, k),
           Unweighted(call) \/ p.min = 0 => Best(g, Unweighted(call), table, sizes', k, clique')
    PROVE  FirstInv'
<1>1. i' \in 2 .. g.n /\ i' - 1 = k
  OBVIOUS
<1> QED  BY <1>1, BegunStays DEF FirstInv

(* The first pass without a bound ends with the heaviest clique,           *)
LEMMA JudgeWithout ==
    ASSUME Begun, UNCHANGED <<g, call, p, table, found>>, p.min = 0,
           \A l \in 1 .. g.n : Exact(g, Unweighted(call), p.min, table, sizes', l),
           Best(g, Unweighted(call), table, sizes', g.n, clique')
    PROVE  JudgeInv'
BY BegunStays DEF JudgeInv

(* with a bound at a clique that reaches it,                               *)
LEMMA JudgeWith ==
    ASSUME Begun, UNCHANGED <<g, call, p, table, found>>, p.min \in Nat \ {0},
           Joined(g, clique'), clique' # {},
           Value(g, Unweighted(call), clique') >= p.min,
           Value(g, Unweighted(call), clique')
               <= IF Unweighted(call) THEN p.min ELSE Most(call, Unweighted(call), p),
           NEW k \in 1 .. g.n,
           StoppedAt(g, Unweighted(call), p.min, Most(call, Unweighted(call), p), table, sizes', k)
    PROVE  JudgeInv'
BY BegunStays DEF JudgeInv

(* or with none that does.                                                 *)
LEMMA FailNow ==
    ASSUME Begun, UNCHANGED <<g, call, p, table, found>>, p.min \in Nat \ {0},
           NotYet(g, Unweighted(call), p.min, Most(call, Unweighted(call), p), table, g.n)
    PROVE  FailInv'
BY BegunStays DEF FailInv

(* The limits of a call under way.                                         *)
LEMMA Limited ==
    ASSUME Busy, Begun
    PROVE  /\ p \in Limits /\ p.min <= p.max /\ p.max <= INT_MAX /\ p.cap = call.cap
           /\ p.keep = FALSE /\ p.high = INT_MAX /\ p.maximal = call.maximal
           /\ p.min = 0 <=> call.min = 0
           /\ p.min \in Nat /\ p.max \in Nat /\ call.cap \in Nat /\ call.maximal \in BOOLEAN
           /\ call.kind \in {"single", "all"}
           /\ p.min > 0 => \A S : S \in Wanted <=> Fit(g, Unweighted(call), p, S)
           /\ p.min = 0 => \A S : S \in Wanted <=>
                                 S \in Cliques /\ \A T \in Cliques : Own(T) <= Own(S)
<1>1. Ready /\ Light /\ call \in CALLS /\ p = Given(call) /\ ~Nothing(call)
  BY DEF Busy, Begun
<1>2. p \in Limits /\ p.min <= p.max /\ p.max <= INT_MAX /\ (p.min = 0 <=> call.min = 0)
  BY <1>1, WantedIs
<1>3. p.min \in Nat /\ p.max \in Nat
  BY <1>2 DEF Limits
<1>4. call.cap \in Nat /\ call.maximal \in BOOLEAN /\ call.min \in Nat /\ call.kind \in {"single", "all"}
  BY <1>1, CallIs
<1>5. p.cap = call.cap /\ p.keep = FALSE /\ p.high = INT_MAX /\ p.maximal = call.maximal
  BY <1>1 DEF Given
<1> QED  BY <1>1, <1>2, <1>3, <1>4, <1>5, WantedIs

(* No clique is as heavy as INT_MAX.                                       *)
LEMMA ValuesBelow ==
    ASSUME Ready, Light, NEW S, Joined(g, S)
    PROVE  /\ Value(g, Unweighted(call), S) \in Nat /\ Value(g, Unweighted(call), S) < INT_MAX
           /\ (S = {} <=> Value(g, Unweighted(call), S) = 0)
<1>1. S \subseteq Vertices(g)
  BY DEF Joined
<1> QED  BY <1>1, OwnIs DEF Own

(* Before the first turn no clique was reached.                            *)
LEMMA NoneBefore ==
    ASSUME Ready, NEW uw, NEW least \in Nat \ {0}, NEW most
    PROVE  NotYet(g, uw, least, most, table, 0)
<1> SUFFICES ASSUME NEW C, Inside(g, table, 0, C) PROVE Value(g, uw, C) < least
  BY DEF NotYet
<1>1. C = {}
  BY DEF Inside, Images
<1>2. Value(g, uw, C) = 0
  <2>1. Whole(g) /\ C \subseteq Vertices(g)
    BY <1>1 DEF Ready
  <2> QED  BY <1>1, <2>1, Values
<1> DEFINE val == Value(g, uw, C)
<1>3. val = 0
  BY <1>2
<1> HIDE DEF val
<1>4. val < least
  BY <1>3
<1> QED  BY <1>4 DEF val

(* A prefix of one place.                                                  *)
LEMMA FirstPlace ==
    ASSUME Ready, NEW uw, NEW C, Inside(g, table, 1, C)
    PROVE  C = {} \/ C = {table[1]}
BY DEF Inside, Images

(* A vertex is a clique.                                                   *)
LEMMA OneVertex ==
    ASSUME Ready, NEW k \in 1 .. g.n
    PROVE  /\ Joined(g, {table[k]}) /\ Inside(g, table, k, {table[k]}) /\ {table[k]} \in MaybeClique
           /\ Cardinality({table[k]}) = 1 /\ Weight({table[k]}) = g.weights[table[k]]
           /\ g.weights[table[k]] \in Nat \ {0}
<1>1. table[k] \in Vertices(g) /\ Whole(g) /\ table[k] \in Images(table, 1 .. k) /\ g.n \in Nat
  BY DEF Ready, TableOf, Images
<1>2. Joined(g, {table[k]}) /\ Inside(g, table, k, {table[k]}) /\ {table[k]} \in MaybeClique
  BY <1>1 DEF Joined, Inside, MaybeClique
<1>3. Cardinality({table[k]}) = 1
  BY FS_Singleton
<1>4. SubgraphWeight(g, {} \cup {table[k]}) = SubgraphWeight(g, {}) + g.weights[table[k]]
      /\ SubgraphWeight(g, {}) = 0
  BY <1>1, WeightAdds
<1>5. g.weights[table[k]] \in Nat \ {0}
  BY <1>1 DEF Whole, Vertices
<1>6. {} \cup {table[k]} = {table[k]}
  OBVIOUS
<1>7. Weight({table[k]}) = g.weights[table[k]]
  BY <1>4, <1>5, <1>6 DEF Weight
<1> QED  BY <1>2, <1>3, <1>5, <1>7

(* The search cannot reach the least size any more: a prefix holds at most *)
(* size of a clique and the rest no more than its places.                  *)
LEMMA TooFewLeft ==
    ASSUME Ready, NEW uw, uw, NEW k \in 1 .. g.n, NEW size \in Nat, NEW least \in Nat, NEW most,
           \A C : Inside(g, table, k, C) => Value(g, uw, C) <= size,
           size + g.n - k < least
    PROVE  NotYet(g, uw, least, most, table, g.n)
<1> SUFFICES ASSUME NEW C, Inside(g, table, g.n, C) PROVE Value(g, uw, C) < least
  BY DEF NotYet
<1> DEFINE A == C \cap Images(table, 1 .. k)
           R == C \ A
           T == k + 1 .. g.n
<1>1. g.n \in Nat /\ k \in Nat /\ k <= g.n /\ Whole(g)
  BY DEF Ready
<1>2. T \subseteq Places /\ Cardinality(T) = g.n - k
  <2>1. T \subseteq Places
    BY <1>1 DEF Places
  <2>2. k + 1 \in Int /\ g.n \in Int
    BY <1>1
  <2>3. Cardinality(T) = IF k + 1 > g.n THEN 0 ELSE g.n - (k + 1) + 1
    BY <2>2, FS_Interval
  <2> QED  BY <1>1, <2>1, <2>3
<1>3. Joined(g, C) /\ C \subseteq Images(table, 1 .. g.n) /\ C \subseteq Vertices(g)
  BY DEF Inside, Joined
<1>4. R \subseteq VerticesAt(T)
  <2> SUFFICES ASSUME NEW v \in R PROVE v \in VerticesAt(T)
    OBVIOUS
  <2>1. v \in Images(table, 1 .. g.n) /\ v \notin Images(table, 1 .. k)
    BY <1>3
  <2>2. PICK l \in 1 .. g.n : v = table[l]
    BY <2>1 DEF Images
  <2>3. l \notin 1 .. k
    BY <2>1, <2>2 DEF Images
  <2>4. l \in T
    BY <1>1, <2>3
  <2> QED  BY <2>2, <2>4 DEF VerticesAt
<1>5. Cardinality(R) <= g.n - k
  BY <1>2, <1>4, PlacesAre
<1>6. Inside(g, table, k, A)
  BY <1>3 DEF Inside, Joined
<1>7. /\ Value(g, uw, C) = Value(g, uw, A) + Value(g, uw, R)
      /\ Value(g, uw, C) \in Nat /\ Value(g, uw, A) \in Nat /\ Value(g, uw, R) \in Nat
  <2>1. A \subseteq C
    OBVIOUS
  <2> HIDE DEF A
  <2>2. \A b : /\ Value(g, b, C) = Value(g, b, A) + Value(g, b, C \ A)
               /\ Value(g, b, C) \in Nat /\ Value(g, b, A) \in Nat /\ Value(g, b, C \ A) \in Nat
    BY <1>1, <1>3, <2>1, ValueRest
  <2> QED  BY <2>2, Zenon
<1>8. Value(g, uw, A) <= size
  BY <1>6
<1>9. Value(g, uw, R) = Cardinality(R)
  BY DEF Value
<1> DEFINE c == Value(g, uw, C)
           a == Value(g, uw, A)
           r == Value(g, uw, R)
<1>10. c = a + r /\ c \in Nat /\ a \in Nat /\ r \in Nat /\ a <= size /\ r <= g.n - k
  BY <1>5, <1>7, <1>8, <1>9
<1> HIDE DEF c, a, r
<1>11. c < least
  BY <1>1, <1>10
<1> QED  BY <1>11 DEF c

(* A prefix whose cliques are all too small.                               *)
LEMMA AllSmall ==
    ASSUME Ready, NEW uw, NEW k \in 0 .. g.n, NEW size \in Nat, NEW least \in Nat, NEW most,
           \A C : Inside(g, table, k, C) => Value(g, uw, C) <= size,
           size < least
    PROVE  NotYet(g, uw, least, most, table, k)
<1> SUFFICES ASSUME NEW C, Inside(g, table, k, C) PROVE Value(g, uw, C) < least
  BY DEF NotYet
<1> DEFINE val == Value(g, uw, C)
<1>1. val <= size /\ val \in Nat
  <2>1. C \subseteq Vertices(g) /\ Whole(g)
    BY DEF Inside, Joined, Ready
  <2> QED  BY <2>1, Values
<1> HIDE DEF val
<1>2. val < least
  BY <1>1
<1> QED  BY <1>2 DEF val

(* The first turn of the unweighted first pass keeps the invariant,        *)
LEMMA UnweightedFirstHolds ==
    ASSUME SearchInv, mode = "first", Unweighted(call), UnweightedFirst
    PROVE  SearchInv'
<1> DEFINE uw == Unweighted(call)
           most == Most(call, uw, p)
           v == table[1]
<1>1. /\ Busy /\ FirstInv /\ i = 0 /\ UNCHANGED <<g, call, p, table, found>>
      /\ sizes' = [sizes EXCEPT ![v] = 1] /\ clique' = {v} /\ i' = 2
      /\ mode' = IF p.min = 1 THEN "judge"
                 ELSE IF g.n > 1 THEN "first" ELSE IF p.min = 0 THEN "judge" ELSE "fail"
  BY DEF SearchInv, UnweightedFirst, Phases
<1>2. /\ Ready /\ Light /\ Begun /\ g.n \in Nat /\ g.n >= 1 /\ sizes \in [Vertices(g) -> Nat]
      /\ \A l \in Vertices(g) : sizes[l] = 0
      /\ 1 \in 1 .. g.n /\ p.min \in Nat /\ Whole(g)
  <2>1. Busy /\ Begun /\ i = 0 /\ \A l \in Vertices(g) : sizes[l] = 0
    BY <1>1 DEF FirstInv
  <2>2. Ready /\ Light /\ sizes \in [Vertices(g) -> Nat] /\ Whole(g) /\ g.n \in Nat \ {0}
    BY <2>1 DEF Busy, Ready
  <2>3. p.min \in Nat
    BY <2>1, Limited
  <2>4. g.n \in Nat /\ g.n >= 1 /\ 1 \in 1 .. g.n
    BY <2>2
  <2> QED  BY <2>1, <2>2, <2>3, <2>4
<1>3. /\ sizes' \in [Vertices(g) -> Nat] /\ sizes'[v] = 1
      /\ \A l \in 1 .. g.n : l # 1 => sizes'[table[l]] = sizes[table[l]]
  <2>1. 1 \in Nat /\ 1 \in 1 .. g.n /\ Ready /\ sizes \in [Vertices(g) -> Nat]
    BY <1>2
  <2>2. sizes' = [sizes EXCEPT ![table[1]] = 1]
    BY <1>1
  <2> HIDE DEF v
  <2>3. /\ sizes' \in [Vertices(g) -> Nat] /\ sizes'[table[1]] = 1
        /\ \A l \in 1 .. g.n : l # 1 => sizes'[table[l]] = sizes[table[l]]
    BY <2>1, <2>2, OtherSizes
  <2> QED  BY <2>3 DEF v
<1>4. \A l \in 2 .. g.n : sizes'[table[l]] = 0
  <2>1. \A l \in 2 .. g.n : l \in 1 .. g.n /\ l # 1 /\ table[l] \in Vertices(g)
    BY <1>2 DEF Ready, TableOf
  <2> QED  BY <1>2, <1>3, <2>1
<1>5. Joined(g, {v}) /\ Inside(g, table, 1, {v}) /\ {v} \in MaybeClique /\ Cardinality({v}) = 1
  BY <1>2, OneVertex
<1>6. Value(g, uw, {v}) = 1 /\ Value(g, uw, {}) = 0
  <2>1. Value(g, uw, {}) = 0
    BY <1>2, Values
  <2> QED  BY <1>5, <2>1 DEF Value
<1> HIDE DEF uw, most, v
<1>7. \A C : Inside(g, table, 1, C) => Value(g, uw, C) <= 1
  <2>1. \A C : Inside(g, table, 1, C) => C = {} \/ C = {v}
    BY <1>2, FirstPlace DEF v
  <2> QED  BY <1>6, <2>1
<1>8. Exact(g, uw, p.min, table, sizes', 1) /\ Best(g, uw, table, sizes', 1, {v})
  <2>1. uw /\ {v} # {}
    BY DEF uw
  <2>2. sizes'[table[1]] = 1
    BY <1>3 DEF v
  <2>3. Exact(g, uw, p.min, table, sizes', 1)
    <3>1. sizes'[table[1]] \in Nat \ {0}
      BY <2>2
    <3>2. \A C : Inside(g, table, 1, C) => Value(g, uw, C) <= sizes'[table[1]]
      BY <1>7, <2>2
    <3>3. Inside(g, table, 1, {v}) /\ {v} # {} /\ sizes'[table[1]] <= Value(g, uw, {v})
      BY <1>5, <1>6, <2>2
    <3> QED  BY <2>1, <3>1, <3>2, <3>3 DEF Exact
  <2>4. Best(g, uw, table, sizes', 1, {v})
    BY <1>5, <1>6, <2>2 DEF Best
  <2> QED  BY <2>3, <2>4
<1>9. CASE p.min = 1
  <2>1. NotYet(g, uw, p.min, most, table, 0)
    BY <1>2, <1>9, NoneBefore
  <2>2. StoppedAt(g, uw, p.min, most, table, sizes', 1)
    <3>1. 1 - 1 = 0 /\ \A l \in 1 .. 1 - 1 : Exact(g, uw, p.min, table, sizes', l)
      OBVIOUS
    <3>2. sizes'[table[1]] = p.min /\ uw
      BY <1>2, <1>3, <1>9 DEF v, uw
    <3> QED  BY <2>1, <3>1, <3>2 DEF StoppedAt
  <2>3. JudgeInv'
    <3>1. /\ Joined(g, clique') /\ clique' # {} /\ p.min \in Nat \ {0} /\ 1 \in 1 .. g.n
          /\ Begun /\ UNCHANGED <<g, call, p, table, found>>
          /\ Value(g, uw, clique') >= p.min /\ Value(g, uw, clique') <= p.min
      BY <1>1, <1>2, <1>5, <1>6, <1>9
    <3>2. uw
      BY DEF uw
    <3> QED  BY <2>2, <3>1, <3>2, JudgeWith DEF uw, most
  <2>4. mode' = "judge"
    BY <1>1, <1>9
  <2> QED  BY <1>1, <1>3, <1>5, <2>3, <2>4, PhaseKeeps DEF Phases
<1>10. CASE p.min # 1 /\ g.n > 1
  <2>1. p.min > 0 => NotYet(g, uw, p.min, most, table, 1)
    BY <1>2, <1>7, <1>10, AllSmall
  <2>2. FirstInv'
    <3>1. \A l \in 1 .. 1 : Exact(g, uw, p.min, table, sizes', l)
      BY <1>8
    <3>2. i' = 1 + 1 /\ 1 < g.n /\ \A l \in 1 + 1 .. g.n : sizes'[table[l]] = 0
      BY <1>1, <1>4, <1>10
    <3>3. Best(g, uw, table, sizes', 1, clique')
      BY <1>1, <1>8
    <3> QED  BY <1>1, <1>2, <2>1, <3>1, <3>2, <3>3, FirstAgain DEF uw, most
  <2>3. mode' = "first"
    BY <1>1, <1>10
  <2> QED  BY <1>1, <1>3, <1>5, <2>2, <2>3, PhaseKeeps DEF Phases
<1>11. CASE p.min # 1 /\ ~(g.n > 1)
  <2>1. g.n = 1
    BY <1>2, <1>11
  <2>2. CASE p.min = 0
    <3>1. \A l \in 1 .. g.n : Exact(g, uw, p.min, table, sizes', l)
      BY <1>8, <2>1
    <3>2. Best(g, uw, table, sizes', g.n, clique')
      BY <1>1, <1>8, <2>1
    <3>3. JudgeInv'
      BY <1>1, <1>2, <2>2, <3>1, <3>2, JudgeWithout DEF uw
    <3>4. mode' = "judge"
      BY <1>1, <1>11, <2>2
    <3> QED  BY <1>1, <1>3, <1>5, <3>3, <3>4, PhaseKeeps DEF Phases
  <2>3. CASE p.min # 0
    <3>1. NotYet(g, uw, p.min, most, table, g.n)
      BY <1>2, <1>7, <1>11, <2>1, <2>3, AllSmall
    <3>2. FailInv'
      BY <1>1, <1>2, <2>3, <3>1, FailNow DEF uw, most
    <3>3. mode' = "fail"
      BY <1>1, <1>11, <2>3
    <3> QED  BY <1>1, <1>3, <1>5, <3>2, <3>3, PhaseKeeps DEF Phases
  <2> QED  BY <2>2, <2>3
<1> QED  BY <1>9, <1>10, <1>11

(* An exact size below the bound: nothing in the prefix has reached it.    *)
LEMMA ExactBelow ==
    ASSUME Ready, Light, NEW s, NEW k \in 1 .. g.n, NEW least \in Nat \ {0}, NEW kind, NEW q,
           Unweighted(call), Exact(g, Unweighted(call), least, table, s, k),
           NotYet(g, Unweighted(call), least, Most(kind, Unweighted(call), q), table, k)
    PROVE  s[table[k]] < least
<1> DEFINE uw == Unweighted(call)
           most == Most(kind, uw, q)
<1>1. PICK C : Inside(g, table, k, C) /\ C # {} /\ s[table[k]] <= Value(g, uw, C)
  BY DEF Exact
<1>2. Value(g, uw, C) < least \/ Value(g, uw, C) > most
  BY <1>1 DEF NotYet
<1>3. Joined(g, C)
  BY <1>1 DEF Inside
<1>4. Value(g, uw, C) \in Nat /\ Value(g, uw, C) < INT_MAX
  BY <1>3, ValuesBelow
<1>5. most = INT_MAX /\ s[table[k]] \in Nat
  BY DEF Most, Exact
<1> DEFINE val == Value(g, uw, C)
           M == INT_MAX
           x == s[table[k]]
<1>6. x <= val /\ (val < least \/ val > M) /\ val \in Nat /\ val < M /\ x \in Nat /\ M \in Nat
  BY <1>1, <1>2, <1>4, <1>5, IntMax
<1> HIDE DEF val, M, x
<1>7. x < least
  BY <1>6
<1> QED  BY <1>7 DEF x

(* and so does every later one.                                            *)
LEMMA UnweightedNextHolds ==
    ASSUME SearchInv, mode = "first", Unweighted(call), UnweightedNext
    PROVE  SearchInv'
<1> DEFINE uw == Unweighted(call)
           most == Most(call, uw, p)
           v == table[i]
           known == sizes[table[i - 1]]
           S == SubSingle(NewTable(1 .. i - 1, i), known)
           size == IF S = NoClique THEN known ELSE known + 1
<1>1. /\ Busy /\ FirstInv /\ i \in 2 .. g.n /\ UNCHANGED <<g, call, p, table, found>> /\ i' = i + 1
      /\ sizes' = [sizes EXCEPT ![v] = size] /\ clique' = IF S = NoClique THEN clique ELSE S \cup {v}
      /\ mode' = IF p.min > 0 /\ size >= p.min THEN "judge"
                 ELSE IF p.min > 0 /\ size + g.n - i < p.min THEN "fail"
                 ELSE IF i < g.n THEN "first" ELSE "judge"
  BY DEF SearchInv, UnweightedNext, Phases
<1> HIDE DEF uw, most, v, known, S, size
<1>2. /\ Ready /\ Light /\ Begun /\ Whole(g) /\ sizes \in [Vertices(g) -> Nat] /\ clique \in MaybeClique
      /\ g.n \in Nat /\ i \in 1 .. g.n /\ i - 1 \in 1 .. g.n /\ i \in Nat /\ p.min \in Nat
      /\ i - 1 \in 1 .. i - 1
  <2>1. Busy /\ Begun /\ Ready /\ Light /\ Whole(g)
    BY <1>1 DEF FirstInv, Busy, Ready
  <2>2. p.min \in Nat
    BY <2>1, Limited
  <2>3. g.n \in Nat /\ sizes \in [Vertices(g) -> Nat] /\ clique \in MaybeClique
    BY <2>1 DEF Busy, Ready
  <2>4. i \in 1 .. g.n /\ i - 1 \in 1 .. g.n /\ i \in Nat /\ i - 1 \in 1 .. i - 1
    BY <1>1, <2>3
  <2> QED  BY <2>1, <2>2, <2>3, <2>4
<1>0. uw
  BY DEF uw
<1>3. /\ \A l \in 1 .. i - 1 : Exact(g, uw, p.min, table, sizes, l)
      /\ \A l \in i .. g.n : sizes[table[l]] = 0
      /\ p.min > 0 => NotYet(g, uw, p.min, most, table, i - 1)
      /\ Best(g, uw, table, sizes, i - 1, clique)
  <2>1. i # 0 /\ Unweighted(call)
    BY <1>1, <1>2 DEF uw
  <2> QED  BY <1>1, <2>1 DEF FirstInv, uw, most
<1>4. /\ known \in Nat \ {0} /\ size \in Nat \ {0}
      /\ \A C : Inside(g, table, i, C) => Value(g, uw, C) <= size
      /\ S # NoClique => /\ Inside(g, table, i, S \cup {v})
                         /\ Value(g, uw, S \cup {v}) = size
  <2>1. known = sizes[table[i - 1]] /\ S = SubSingle(NewTable(1 .. i - 1, i), known)
    BY DEF known, S
  <2>2. size = IF S = NoClique THEN known ELSE known + 1
    BY DEF size
  <2>3. TurnFinds(uw, i, known, S, size)
    BY <1>0, <1>1, <1>2, <1>3, <2>1, <2>2, UnweightedTurn
  <2> QED  BY <2>3 DEF v, TurnFinds
<1>5. /\ sizes' \in [Vertices(g) -> Nat] /\ sizes'[table[i]] = size
      /\ \A l \in 1 .. g.n : l # i => sizes'[table[l]] = sizes[table[l]]
  <2>1. size \in Nat /\ sizes' = [sizes EXCEPT ![table[i]] = size]
    BY <1>1, <1>4 DEF v
  <2> QED  BY <1>2, <2>1, OtherSizes
<1>6. Inside(g, table, i, clique') /\ clique' # {} /\ Value(g, uw, clique') = size
  <2>1. CASE S = NoClique
    <3>1. clique' = clique /\ size = known
      BY <1>1, <2>1 DEF size
    <3>2. Inside(g, table, i - 1, clique) /\ clique # {} /\ Value(g, uw, clique) = known
      BY <1>3 DEF Best, known
    <3>3. Inside(g, table, i, clique)
      BY <1>2, <3>2, InsideGrows
    <3> QED  BY <3>1, <3>2, <3>3
  <2>2. CASE S # NoClique
    <3>1. clique' = S \cup {v} /\ S \cup {v} # {}
      BY <1>1, <2>2
    <3> QED  BY <1>4, <2>2, <3>1
  <2> QED  BY <2>1, <2>2
<1>7. clique' \in MaybeClique /\ Joined(g, clique')
  <2>1. Joined(g, clique') /\ clique' \subseteq Vertices(g)
    BY <1>6 DEF Inside, Joined
  <2> QED  BY <1>2, <2>1, CliqueIsSet
<1>8. Best(g, uw, table, sizes', i, clique')
  BY <1>5, <1>6 DEF Best
<1>9. \A l \in 1 .. i : Exact(g, uw, p.min, table, sizes', l)
  <2>1. Exact(g, uw, p.min, table, sizes', i)
    <3>1. sizes'[table[i]] \in Nat \ {0}
      BY <1>4, <1>5
    <3>2. \A C : Inside(g, table, i, C) => Value(g, uw, C) <= sizes'[table[i]]
      BY <1>4, <1>5
    <3>3. sizes'[table[i]] <= Value(g, uw, clique')
      <4> DEFINE val == Value(g, uw, clique')
      <4>1. val = size /\ size \in Nat
        BY <1>4, <1>6
      <4> HIDE DEF val
      <4>2. size <= val
        BY <4>1
      <4> QED  BY <1>5, <4>2 DEF val
    <3> QED  BY <1>0, <1>2, <1>6, <3>1, <3>2, <3>3 DEF Exact
  <2>2. ASSUME NEW l \in 1 .. i, l # i PROVE Exact(g, uw, p.min, table, sizes', l)
    <3>1. l \in 1 .. i - 1 /\ l \in 1 .. g.n
      BY <1>2, <2>2
    <3> QED  BY <1>3, <1>5, <2>2, <3>1, OtherExact
  <2> QED  BY <2>1, <2>2
<1>10. CASE p.min > 0 /\ size >= p.min
  <2>1. known < p.min
    <3>1. Exact(g, uw, p.min, table, sizes, i - 1) /\ NotYet(g, uw, p.min, most, table, i - 1)
      BY <1>2, <1>3, <1>10
    <3>2. p.min \in Nat \ {0}
      BY <1>2, <1>10
    <3>3. sizes[table[i - 1]] < p.min
      BY <1>2, <3>1, <3>2, ExactBelow DEF uw, most
    <3> QED  BY <3>3 DEF known
  <2>2. size = p.min
    <3>1. size <= known + 1
      BY <1>4 DEF size
    <3> QED  BY <1>2, <1>4, <1>10, <2>1, <3>1
  <2>3. StoppedAt(g, uw, p.min, most, table, sizes', i)
    <3>1. \A l \in 1 .. i - 1 : Exact(g, uw, p.min, table, sizes', l)
      BY <1>2, <1>9
    <3> QED  BY <1>0, <1>2, <1>3, <1>5, <1>10, <2>2, <3>1 DEF StoppedAt
  <2>4. /\ Joined(g, clique') /\ clique' # {} /\ p.min \in Nat \ {0}
        /\ Value(g, uw, clique') >= p.min /\ Value(g, uw, clique') <= p.min
    BY <1>2, <1>6, <1>7, <1>10, <2>2
  <2>5. JudgeInv'
    BY <1>0, <1>1, <1>2, <2>3, <2>4, JudgeWith DEF uw, most
  <2>6. mode' = "judge"
    BY <1>1, <1>10
  <2> QED  BY <1>1, <1>5, <1>7, <2>5, <2>6, PhaseKeeps DEF Phases
<1>11. CASE p.min > 0 /\ ~(size >= p.min) /\ size + g.n - i < p.min
  <2>1. NotYet(g, uw, p.min, most, table, g.n)
    BY <1>0, <1>2, <1>4, <1>11, TooFewLeft
  <2>2. FailInv'
    BY <1>1, <1>2, <1>11, <2>1, FailNow DEF uw, most
  <2>3. mode' = "fail"
    BY <1>1, <1>11
  <2> QED  BY <1>1, <1>5, <1>7, <2>2, <2>3, PhaseKeeps DEF Phases
<1>12. CASE /\ ~(p.min > 0 /\ size >= p.min) /\ ~(p.min > 0 /\ size + g.n - i < p.min) /\ i < g.n
  <2>1. p.min > 0 => NotYet(g, uw, p.min, most, table, i)
    BY <1>2, <1>4, <1>12, AllSmall
  <2>2. \A l \in i + 1 .. g.n : sizes'[table[l]] = 0
    <3>1. \A l \in i + 1 .. g.n : l \in i .. g.n /\ l \in 1 .. g.n /\ l # i
      BY <1>2
    <3> QED  BY <1>3, <1>5, <3>1
  <2>3. FirstInv'
    BY <1>1, <1>2, <1>8, <1>9, <1>12, <2>1, <2>2, FirstAgain DEF uw, most
  <2>4. mode' = "first"
    BY <1>1, <1>12
  <2> QED  BY <1>1, <1>5, <1>7, <2>3, <2>4, PhaseKeeps DEF Phases
<1>13. CASE /\ ~(p.min > 0 /\ size >= p.min) /\ ~(p.min > 0 /\ size + g.n - i < p.min) /\ ~(i < g.n)
  <2>1. i = g.n /\ p.min = 0
    BY <1>2, <1>4, <1>13
  <2>2. JudgeInv'
    <3>1. \A l \in 1 .. g.n : Exact(g, uw, p.min, table, sizes', l)
      BY <1>9, <2>1
    <3>2. Best(g, uw, table, sizes', g.n, clique')
      BY <1>8, <2>1
    <3> QED  BY <1>1, <1>2, <2>1, <3>1, <3>2, JudgeWithout DEF uw
  <2>3. mode' = "judge"
    BY <1>1, <1>13
  <2> QED  BY <1>1, <1>5, <1>7, <2>2, <2>3, PhaseKeeps DEF Phases
<1> QED  BY <1>10, <1>11, <1>12, <1>13

-----------------------------------------------------------------------------
(* The first pass, by weight.                                              *)

(* The limit the weighted first pass searches under.                       *)
LEMMA FirstMaxIs ==
    ASSUME Busy, Begun, ~Unweighted(call)
    PROVE  FirstMax = Most(call, Unweighted(call), p) /\ FirstMax \in Nat
<1>1. p.max \in Nat
  BY Limited
<1> QED  BY <1>1, IntMax DEF FirstMax, Most

(* Whatever holds a vertex that is too heavy is too heavy.                 *)
LEMMA TooHeavyAll ==
    ASSUME Ready, NEW uw, ~uw, NEW most \in Nat,
           \A k \in 1 .. g.n : g.weights[table[k]] > most
    PROVE  NotYet(g, uw, 1, most, table, g.n)
<1> SUFFICES ASSUME NEW C, Inside(g, table, g.n, C), C # {} PROVE Value(g, uw, C) > most
  <2>1. Value(g, uw, {}) = 0
    BY Values DEF Ready
  <2> QED  BY <2>1 DEF NotYet
<1>1. C \subseteq Images(table, 1 .. g.n) /\ C \subseteq Vertices(g) /\ Whole(g)
  BY DEF Inside, Joined, Ready
<1>2. PICK k \in 1 .. g.n : table[k] \in C
  BY <1>1 DEF Images
<1>3. Weight({table[k]}) = g.weights[table[k]] /\ g.weights[table[k]] \in Nat
  BY OneVertex
<1>4. {table[k]} \subseteq C
  BY <1>2
<1> DEFINE val == Value(g, uw, C)
           one == Value(g, uw, {table[k]})
<1>5. val \in Nat /\ one <= val
  BY <1>1, <1>4, Values
<1>6. one = g.weights[table[k]]
  BY <1>3 DEF Value, Weight
<1> HIDE DEF val, one
<1>7. val > most
  BY <1>3, <1>5, <1>6
<1> QED  BY <1>7 DEF val

(* The shortcut of the weighted first pass keeps the invariant: a search   *)
(* for any clique takes one vertex,                                        *)
LEMMA WeightedOneHolds ==
    ASSUME SearchInv, mode = "first", ~Unweighted(call), WeightedOne
    PROVE  SearchInv'
<1> DEFINE uw == Unweighted(call)
           most == Most(call, uw, p)
           light == {k \in 1 .. g.n : g.weights[table[k]] <= FirstMax}
<1>1. /\ Busy /\ FirstInv /\ i = 0 /\ p.min = 1 /\ UNCHANGED <<g, call, p, table, found, sizes>>
      /\ light = {} => mode' = "fail" /\ clique' = clique
      /\ light # {} => mode' = "judge" /\ clique' = {table[Min(light)]}
  BY DEF SearchInv, WeightedOne, Phases
<1>2. /\ Ready /\ Light /\ Begun /\ g.n \in Nat /\ g.n >= 1 /\ sizes \in [Vertices(g) -> Nat]
      /\ \A l \in Vertices(g) : sizes[l] = 0
      /\ clique \in MaybeClique /\ 1 \in 1 .. g.n
  <2>1. Busy /\ Begun /\ i = 0 /\ \A l \in Vertices(g) : sizes[l] = 0
    BY <1>1 DEF FirstInv
  <2>2. Ready /\ Light /\ sizes \in [Vertices(g) -> Nat] /\ g.n \in Nat \ {0} /\ clique \in MaybeClique
    BY <2>1 DEF Busy, Ready
  <2>3. g.n \in Nat /\ g.n >= 1 /\ 1 \in 1 .. g.n
    BY <2>2
  <2> QED  BY <2>1, <2>2, <2>3
<1>3. FirstMax = most /\ FirstMax \in Nat
  BY <1>1, <1>2, FirstMaxIs
<1>4. ~uw
  OBVIOUS
<1>5. light \subseteq 1 .. g.n /\ \A k \in 1 .. g.n : k \in light <=> g.weights[table[k]] <= FirstMax
  OBVIOUS
<1>6. \A k \in 1 .. g.n : g.weights[table[k]] \in Nat \ {0}
  BY <1>2, OneVertex
<1> HIDE DEF uw, most, light
<1>7. CASE light = {}
  <2>1. \A k \in 1 .. g.n : g.weights[table[k]] > FirstMax
    BY <1>3, <1>5, <1>6, <1>7
  <2>2. NotYet(g, uw, p.min, most, table, g.n)
    BY <1>1, <1>2, <1>3, <1>4, <2>1, TooHeavyAll
  <2>3. FailInv'
    BY <1>1, <1>2, <2>2, FailNow DEF uw, most
  <2> QED  BY <1>1, <1>2, <1>7, <2>3, PhaseKeeps DEF Phases
<1>8. CASE light # {}
  <2> DEFINE k == Min(light)
  <2>1. k \in light /\ k \in 1 .. g.n
    <3>1. light \subseteq Nat
      BY <1>2, <1>5
    <3> QED  BY <1>5, <1>8, <3>1, LeastOf
  <2>2. clique' = {table[k]} /\ mode' = "judge"
    BY <1>1, <1>8
  <2> HIDE DEF k
  <2>3. /\ Joined(g, {table[k]}) /\ {table[k]} \in MaybeClique /\ {table[k]} # {}
        /\ Weight({table[k]}) = g.weights[table[k]] /\ g.weights[table[k]] \in Nat \ {0}
    BY <1>2, <2>1, OneVertex
  <2>4. Value(g, uw, {table[k]}) = g.weights[table[k]]
    BY <1>4, <2>3 DEF Value, Weight
  <2>5. Value(g, uw, clique') >= p.min /\ Value(g, uw, clique') <= most
    BY <1>1, <1>3, <1>5, <2>1, <2>2, <2>3, <2>4
  <2>6. StoppedAt(g, uw, p.min, most, table, sizes', 1)
    <3>1. 1 - 1 = 0 /\ \A l \in 1 .. 1 - 1 : Exact(g, uw, p.min, table, sizes', l)
      OBVIOUS
    <3>2. sizes'[table[1]] = 0
      <4>1. table[1] \in Vertices(g)
        BY <1>2 DEF Ready, TableOf
      <4> QED  BY <1>1, <1>2, <4>1
    <3>3. NotYet(g, uw, p.min, most, table, 0)
      BY <1>1, <1>2, NoneBefore
    <3> QED  BY <1>4, <3>1, <3>2, <3>3 DEF StoppedAt
  <2>7. p.min \in Nat \ {0}
    BY <1>1
  <2>8. JudgeInv'
    BY <1>1, <1>2, <1>4, <2>2, <2>3, <2>5, <2>6, <2>7, JudgeWith DEF uw, most
  <2> QED  BY <1>1, <1>2, <2>2, <2>3, <2>8, PhaseKeeps DEF Phases
<1> QED  BY <1>7, <1>8

(* the first turn keeps it,                                                *)
LEMMA WeightedFirstHolds ==
    ASSUME SearchInv, mode = "first", ~Unweighted(call), WeightedFirst
    PROVE  SearchInv'
<1> DEFINE uw == Unweighted(call)
           most == Most(call, uw, p)
           v == table[1]
           w == g.weights[v]
           heavy == p.min > 0 /\ w >= p.min
           x == IF heavy THEN p.min - 1 ELSE w
<1>1. /\ Busy /\ FirstInv /\ i = 0 /\ p.min # 1 /\ UNCHANGED <<g, call, p, table, found>>
      /\ clique' = {v} /\ i' = 2
      /\ heavy /\ w <= FirstMax => mode' = "judge" /\ sizes' = sizes
      /\ ~(heavy /\ w <= FirstMax) => mode' = "first" /\ sizes' = [sizes EXCEPT ![v] = x]
  BY DEF SearchInv, WeightedFirst, Phases
<1>2. /\ Ready /\ Light /\ Begun /\ g.n \in Nat /\ g.n > 1 /\ sizes \in [Vertices(g) -> Nat]
      /\ \A l \in Vertices(g) : sizes[l] = 0
      /\ 1 \in 1 .. g.n /\ p.min \in Nat
  <2>1. Busy /\ Begun /\ i = 0 /\ \A l \in Vertices(g) : sizes[l] = 0
    BY <1>1 DEF FirstInv
  <2>2. Ready /\ Light /\ sizes \in [Vertices(g) -> Nat] /\ g.n \in Nat \ {0}
    BY <2>1 DEF Busy, Ready
  <2>3. g.n > 1
    <3>1. PICK l \in Vertices(g) : g.weights[l] # g.weights[0]
      BY DEF Unweighted, GraphWeighted
    <3>2. l \in 0 .. g.n - 1 /\ l # 0
      BY <3>1 DEF Vertices
    <3> QED  BY <2>2, <3>2
  <2>4. g.n \in Nat /\ 1 \in 1 .. g.n
    BY <2>2, <2>3
  <2>5. p.min \in Nat
    BY <2>1, Limited
  <2> QED  BY <2>1, <2>2, <2>3, <2>4, <2>5
<1>3. FirstMax = most /\ FirstMax \in Nat
  BY <1>1, <1>2, FirstMaxIs
<1>4. ~uw
  OBVIOUS
<1>5. /\ Joined(g, {v}) /\ Inside(g, table, 1, {v}) /\ {v} \in MaybeClique /\ {v} # {}
      /\ Weight({v}) = w /\ w \in Nat \ {0}
  BY <1>2, OneVertex
<1>6. heavy <=> p.min > 0 /\ w >= p.min
  OBVIOUS
<1>7. x = IF heavy THEN p.min - 1 ELSE w
  OBVIOUS
<1>8. \A l \in 1 .. g.n : sizes[table[l]] = 0
  BY <1>2 DEF Ready, TableOf
<1> HIDE DEF uw, most, w, heavy, x
<1>9. Value(g, uw, {v}) = w /\ Value(g, uw, {}) = 0
  <2>1. Value(g, uw, {}) = 0
    BY <1>2, Values DEF Ready
  <2> QED  BY <1>4, <1>5, <2>1 DEF Value, Weight
<1>10. \A C : Inside(g, table, 1, C) => C = {} \/ C = {v}
  BY <1>2, FirstPlace
<1>11. CASE heavy /\ w <= FirstMax
  <2>1. p.min \in Nat \ {0}
    BY <1>2, <1>6, <1>11
  <2>2. StoppedAt(g, uw, p.min, most, table, sizes', 1)
    <3>1. 1 - 1 = 0 /\ \A l \in 1 .. 1 - 1 : Exact(g, uw, p.min, table, sizes', l)
      OBVIOUS
    <3>2. sizes'[table[1]] = 0
      BY <1>1, <1>2, <1>8, <1>11
    <3>3. NotYet(g, uw, p.min, most, table, 0)
      BY <1>2, <2>1, NoneBefore
    <3> QED  BY <1>4, <3>1, <3>2, <3>3 DEF StoppedAt
  <2>3. Value(g, uw, clique') >= p.min /\ Value(g, uw, clique') <= most
    BY <1>1, <1>3, <1>6, <1>9, <1>11
  <2>4. JudgeInv'
    BY <1>1, <1>2, <1>4, <1>5, <2>1, <2>2, <2>3, JudgeWith DEF uw, most
  <2>5. mode' = "judge" /\ sizes' = sizes /\ clique' \in MaybeClique
    BY <1>1, <1>5, <1>11
  <2> QED  BY <1>1, <1>2, <2>4, <2>5, PhaseKeeps DEF Phases
<1>12. CASE ~(heavy /\ w <= FirstMax)
  <2>1. mode' = "first" /\ sizes' = [sizes EXCEPT ![table[1]] = x]
    BY <1>1, <1>12
  <2>2. x \in Nat \ {0} /\ x <= w /\ (w <= x \/ (p.min > 0 /\ x = p.min - 1)) /\ (p.min > 0 => x <= p.min - 1)
        /\ (p.min = 0 => x = w)
    BY <1>1, <1>2, <1>5, <1>6, <1>7
  <2>3. /\ sizes' \in [Vertices(g) -> Nat] /\ sizes'[table[1]] = x
        /\ \A l \in 1 .. g.n : l # 1 => sizes'[table[l]] = sizes[table[l]]
    <3>1. x \in Nat
      BY <2>2
    <3> QED  BY <1>2, <2>1, <3>1, OtherSizes
  <2>4. Exact(g, uw, p.min, table, sizes', 1)
    <3>1. sizes'[table[1]] \in Nat \ {0}
      BY <2>2, <2>3
    <3>2. ASSUME NEW C, Inside(g, table, 1, C)
          PROVE  Value(g, uw, C) <= sizes'[table[1]] \/ (p.min > 0 /\ sizes'[table[1]] = p.min - 1)
      <4>1. C = {} \/ C = {v}
        BY <1>10, <3>2
      <4> QED  BY <1>9, <2>2, <2>3, <4>1
    <3>3. p.min > 0 => sizes'[table[1]] <= p.min - 1
      BY <2>2, <2>3
    <3>4. Inside(g, table, 1, {v}) /\ {v} # {} /\ sizes'[table[1]] <= Value(g, uw, {v})
      BY <1>5, <1>9, <2>2, <2>3
    <3> QED  BY <1>4, <3>1, <3>2, <3>3, <3>4 DEF Exact
  <2>5. p.min > 0 => NotYet(g, uw, p.min, most, table, 1)
    <3> SUFFICES ASSUME p.min > 0, NEW C, Inside(g, table, 1, C)
                 PROVE  Value(g, uw, C) < p.min \/ Value(g, uw, C) > most
      BY DEF NotYet
    <3>1. C = {} \/ C = {v}
      BY <1>10
    <3> QED  BY <1>2, <1>3, <1>5, <1>6, <1>9, <1>12, <3>1
  <2>6. p.min = 0 => Best(g, uw, table, sizes', 1, clique')
    BY <1>1, <1>5, <1>9, <2>2, <2>3 DEF Best
  <2>7. \A l \in 1 .. 1 : Exact(g, uw, p.min, table, sizes', l)
    BY <2>4
  <2>8. i' = 1 + 1 /\ 1 < g.n /\ \A l \in 1 + 1 .. g.n : sizes'[table[l]] = 0
    <3>1. \A l \in 1 + 1 .. g.n : l \in 1 .. g.n /\ l # 1
      BY <1>2
    <3> QED  BY <1>1, <1>2, <1>8, <2>3, <3>1
  <2>9. FirstInv'
    BY <1>1, <1>2, <1>4, <2>5, <2>6, <2>7, <2>8, FirstAgain DEF uw, most
  <2>10. clique' \in MaybeClique
    BY <1>1, <1>5
  <2> QED  BY <1>1, <2>1, <2>3, <2>9, <2>10, PhaseKeeps DEF Phases
<1> QED  BY <1>11, <1>12

(* Exact weights bound the cliques of their vertices.                      *)
LEMMA ExactPrunesWeights ==
    ASSUME Ready, NEW uw, ~uw, NEW least, NEW s, NEW top \in Nat, top <= g.n,
           \A k \in 1 .. top : Exact(g, uw, least, table, s, k),
           NEW bound \in Int, least > 0 => bound = least - 1
    PROVE  Prunes(g, FALSE, bound, table, s, top)
<1>1. ASSUME NEW k \in 1 .. top, NEW C, Joined(g, C), C \subseteq Images(table, 1 .. k)
      PROVE  SubgraphWeight(g, C) <= s[table[k]] \/ s[table[k]] >= bound
  <2>1. s[table[k]] \in Nat /\ Inside(g, table, k, C)
    BY <1>1 DEF Exact, Inside
  <2>2. Value(g, uw, C) <= s[table[k]] \/ (least > 0 /\ s[table[k]] = least - 1)
    BY <1>1, <2>1 DEF Exact
  <2> QED  BY <2>1, <2>2 DEF Value
<1>2. \A k \in 1 .. top : s[table[k]] \in Nat
  BY DEF Exact
<1> QED  BY <1>1, <1>2 DEF Prunes, Value

(* One turn of weighted_clique_search_single searches the cliques of its   *)
(* vertex.                                                                 *)
LEMMA WeightedTurnSearched ==
    ASSUME Busy, Begun, ~Unweighted(call), NEW k \in 2 .. g.n,
           \A l \in 1 .. k - 1 : Exact(g, Unweighted(call), p.min, table, sizes, l),
           NEW known, known = sizes[table[k - 1]],
           NEW q, q = [min |-> IF p.min = 0 THEN INT_MAX ELSE p.min, max |-> FirstMax,
                       maximal |-> FALSE, cap |-> 0, keep |-> TRUE,
                       high |-> known + g.weights[table[k]]],
           NEW st, st = [low |-> known, best |-> clique, found |-> <<>>]
    PROVE  /\ Start(q, st)
           /\ Searched(q, st, SubWeighted(q, NewTable(1 .. k - 1, k), {table[k]}, st),
                       Cands({table[k]}, NewTable(1 .. k - 1, k)))
<1> DEFINE uw == Unweighted(call)
           v == table[k]
           T == NewTable(1 .. k - 1, k)
           X == Cands({v}, T)
           w == g.weights[v]
<1>1. /\ Ready /\ Light /\ Whole(g) /\ g.n \in Nat /\ clique \in MaybeClique
      /\ k \in 1 .. g.n /\ k - 1 \in 1 .. g.n /\ k - 1 \in 1 .. k - 1 /\ k - 1 \in Nat /\ k - 1 <= g.n
  <2>1. Ready /\ Light /\ Whole(g) /\ g.n \in Nat /\ clique \in MaybeClique
    BY DEF Busy, Ready
  <2> QED  BY <2>1
<1>2. p.min \in Nat /\ p.min <= INT_MAX /\ FirstMax \in Nat /\ INT_MAX \in Nat
  BY Limited, FirstMaxIs, IntMax
<1>3. ~uw
  OBVIOUS
<1>4. /\ T \subseteq 1 .. k - 1 /\ Rooted({v}, T) /\ v \in Vertices(g)
      /\ v \notin Images(table, 1 .. k - 1)
      /\ \A D : D \in X <=> Inside(g, table, k, D) /\ v \in D
  BY <1>1, TurnIs
<1>5. w \in Nat \ {0} /\ Weight({v}) = w
  BY <1>1, OneVertex
<1>6. Exact(g, uw, p.min, table, sizes, k - 1)
  BY <1>1
<1> HIDE DEF uw, v, T, X, w
<1>7. /\ known \in Nat \ {0}
      /\ p.min > 0 => known <= p.min - 1
      /\ \A C : Inside(g, table, k - 1, C) => Weight(C) <= known \/ (p.min > 0 /\ known = p.min - 1)
      /\ \E C : Inside(g, table, k - 1, C) /\ known <= Weight(C)
  BY <1>3, <1>6 DEF Exact, Value, Weight
<1>8. \A C : Joined(g, C) => Weight(C) \in Nat /\ Weight(C) < INT_MAX
  <2> SUFFICES ASSUME NEW C, Joined(g, C) PROVE Weight(C) \in Nat /\ Weight(C) < INT_MAX
    OBVIOUS
  <2>1. Value(g, Unweighted(call), C) = Weight(C)
    BY DEF Value, Weight
  <2> QED  BY <1>1, <2>1, ValuesBelow
<1>9. known < INT_MAX
  <2>1. PICK C : Inside(g, table, k - 1, C) /\ known <= Weight(C)
    BY <1>7
  <2>2. Weight(C) \in Nat /\ Weight(C) < INT_MAX
    BY <1>8, <2>1 DEF Inside
  <2> QED  BY <1>2, <1>7, <2>1, <2>2
<1>10. /\ q.min = IF p.min = 0 THEN INT_MAX ELSE p.min
       /\ q.max = FirstMax /\ q.cap = 0 /\ q.high = known + w /\ q \in Limits
       /\ st.low = known /\ st.best = clique /\ st.found = <<>> /\ st \in Outcomes
  <2>1. /\ q.min = IF p.min = 0 THEN INT_MAX ELSE p.min
        /\ q.max = FirstMax /\ q.cap = 0 /\ q.high = known + w
        /\ q = [min |-> IF p.min = 0 THEN INT_MAX ELSE p.min, max |-> FirstMax,
                maximal |-> FALSE, cap |-> 0, keep |-> TRUE, high |-> known + w]
    BY DEF w, v
  <2>2. (IF p.min = 0 THEN INT_MAX ELSE p.min) \in Nat /\ known + w \in Nat
    BY <1>2, <1>5, <1>7
  <2>3. q \in Limits
    BY <1>2, <2>1, <2>2 DEF Limits
  <2>4. <<>> \in Seq(SUBSET Vertices(g)) /\ known \in Int
    BY <1>7
  <2>5. st \in Outcomes
    BY <1>1, <2>4 DEF Outcomes
  <2> QED  BY <2>1, <2>3, <2>5
<1>11. q.min \in Nat /\ q.min >= 1 /\ known <= q.min - 1
  BY <1>2, <1>7, <1>9, <1>10
<1>12. Start(q, st)
  <2>1. Storing(<<>>, 0)
    BY DEF Storing, Once
  <2> QED  BY <1>7, <1>10, <1>11, <2>1 DEF Start
<1>13. Prunes(g, FALSE, q.min - 1, table, sizes, k - 1)
  <2>1. p.min > 0 => q.min - 1 = p.min - 1
    BY <1>2, <1>10
  <2>2. q.min - 1 \in Int
    BY <1>11
  <2> QED  BY <1>1, <1>3, <2>1, <2>2, ExactPrunesWeights DEF uw
<1>14. q.high >= q.min \/ \A D \in X : Weight(D) <= q.high
  <2>1. CASE p.min > 0 /\ known = p.min - 1
    BY <1>2, <1>5, <1>10, <2>1
  <2>2. CASE ~(p.min > 0 /\ known = p.min - 1)
    <3> SUFFICES ASSUME NEW D \in X PROVE Weight(D) <= q.high
      OBVIOUS
    <3>1. Joined(g, D) /\ D \subseteq Vertices(g) /\ v \in D /\ Inside(g, table, k, D)
      BY <1>4 DEF Inside, Joined
    <3>2. Inside(g, table, k - 1, D \ {v})
      <4>1. Images(table, 1 .. k) = Images(table, 1 .. k - 1) \cup {v}
        BY <1>1, TurnIs DEF v
      <4> QED  BY <3>1, <4>1 DEF Inside, Joined
    <3>3. Weight(D \ {v}) <= known
      BY <1>7, <2>2, <3>2
    <3>4. Weight(D) = Weight({v}) + Weight(D \ {v}) /\ Weight(D \ {v}) \in Nat
      <4>1. {v} \cap (D \ {v}) = {} /\ {v} \cup (D \ {v}) = D /\ {v} \subseteq Vertices(g)
            /\ D \ {v} \subseteq Vertices(g)
        BY <3>1
      <4>2. SubgraphWeight(g, {v} \cup (D \ {v})) = SubgraphWeight(g, {v}) + SubgraphWeight(g, D \ {v})
            /\ SubgraphWeight(g, D \ {v}) \in Nat
        BY <1>1, <4>1, WeightOfUnion
      <4> QED  BY <4>1, <4>2 DEF Weight
    <3> QED  BY <1>5, <1>7, <1>10, <3>3, <3>4
  <2> QED  BY <2>1, <2>2
<1>15. ToSet(st.found) \cap Fits(q, X) = {}
  BY <1>10 DEF ToSet
<1>16. Searched(q, st, SubWeighted(q, T, {v}, st), X)
  BY <1>1, <1>4, <1>12, <1>13, <1>14, <1>15, SubWeightedSearched DEF X
<1> QED  BY <1>12, <1>16 DEF X, T, v

(* What the turn of the weighted search for place k finds: a clique to     *)
(* stop at, or that there is none, and how heavy the prefix may be.        *)
WeightFinds(k, known, r) ==
    /\ r \in Outcomes
    /\ r.low < 0 => /\ p.min > 0 /\ Joined(g, r.best) /\ r.best # {}
                    /\ Weight(r.best) >= p.min /\ Weight(r.best) <= FirstMax
    /\ ~(r.low < 0) =>
         /\ r.low \in Nat \ {0}
         /\ p.min > 0 => r.low <= p.min - 1
         /\ \A C : Inside(g, table, k, C) => Weight(C) <= r.low \/ (p.min > 0 /\ r.low = p.min - 1)
         /\ \E C : Inside(g, table, k, C) /\ C # {} /\ r.low <= Weight(C)
         /\ p.min > 0 => \A C : Inside(g, table, k, C) =>
                                   \/ Inside(g, table, k - 1, C)
                                   \/ Weight(C) < p.min \/ Weight(C) > FirstMax
         /\ \/ r.low = known /\ r.best = clique
            \/ p.min > 0
            \/ Inside(g, table, k, r.best) /\ r.best # {} /\ Weight(r.best) = r.low

(* It finds what its vertex adds.                                          *)
LEMMA WeightedTurnFinds ==
    ASSUME Busy, Begun, ~Unweighted(call), NEW k \in 2 .. g.n,
           \A l \in 1 .. k - 1 : Exact(g, Unweighted(call), p.min, table, sizes, l),
           NEW known, known = sizes[table[k - 1]],
           NEW q, q = [min |-> IF p.min = 0 THEN INT_MAX ELSE p.min, max |-> FirstMax,
                       maximal |-> FALSE, cap |-> 0, keep |-> TRUE,
                       high |-> known + g.weights[table[k]]],
           NEW r, r = SubWeighted(q, NewTable(1 .. k - 1, k), {table[k]},
                                  [low |-> known, best |-> clique, found |-> <<>>])
    PROVE  WeightFinds(k, known, r)
<1> DEFINE uw == Unweighted(call)
           X == Cands({table[k]}, NewTable(1 .. k - 1, k))
           st == [low |-> known, best |-> clique, found |-> <<>>]
<1>1. Start(q, st) /\ Searched(q, st, r, X)
  BY WeightedTurnSearched
<1>2. /\ Ready /\ Light /\ Whole(g) /\ g.n \in Nat
      /\ k \in 1 .. g.n /\ k - 1 \in 1 .. k - 1
  <2>1. Ready /\ Light /\ Whole(g) /\ g.n \in Nat
    BY DEF Busy, Ready
  <2> QED  BY <2>1
<1>3. p.min \in Nat /\ p.min <= INT_MAX /\ FirstMax \in Nat /\ INT_MAX \in Nat
  BY Limited, FirstMaxIs, IntMax
<1>4. ~uw
  OBVIOUS
<1>5. Exact(g, uw, p.min, table, sizes, k - 1)
  BY <1>2
<1>6. /\ q.min = IF p.min = 0 THEN INT_MAX ELSE p.min
      /\ q.max = FirstMax /\ q.cap = 0 /\ q.maximal = FALSE /\ q.keep = TRUE
      /\ st.low = known /\ st.best = clique /\ st.found = <<>>
  OBVIOUS
<1>7. /\ \A C : Inside(g, table, k - 1, C) => Inside(g, table, k, C)
      /\ \A C : Inside(g, table, k, C) => Inside(g, table, k - 1, C) \/ C \in X
      /\ \A C : C \in X => Inside(g, table, k, C)
  BY <1>2, InsideGrows
<1>8. \A D \in X : Joined(g, D) /\ D # {}
  BY DEF Cands
<1> HIDE DEF uw, X, st
<1>9. /\ known \in Nat \ {0}
      /\ p.min > 0 => known <= p.min - 1
      /\ \A C : Inside(g, table, k - 1, C) => Weight(C) <= known \/ (p.min > 0 /\ known = p.min - 1)
      /\ \E C : Inside(g, table, k - 1, C) /\ C # {} /\ known <= Weight(C)
  BY <1>4, <1>5 DEF Exact, Value, Weight
<1>10. \A C : Joined(g, C) => Weight(C) \in Nat /\ Weight(C) < INT_MAX
  <2> SUFFICES ASSUME NEW C, Joined(g, C) PROVE Weight(C) \in Nat /\ Weight(C) < INT_MAX
    OBVIOUS
  <2>1. Value(g, Unweighted(call), C) = Weight(C)
    BY DEF Value, Weight
  <2> QED  BY <1>2, <2>1, ValuesBelow
<1>11. /\ r \in Outcomes /\ r.low \in Int /\ Lists(r.found, <<>>, Fits(q, X), 0)
       /\ Len(r.found) <= 0 => Learned(q, st, r, X)
       /\ ~(Len(r.found) <= 0) => r.low = -1 /\ r.best \in Fits(q, X)
  <2>1. r \in Outcomes
    BY <1>1 DEF Searched
  <2> QED  BY <1>1, <1>6, <2>1, OutcomeParts DEF Searched
<1>12. CASE r.low < 0
  <2>1. ~(Len(r.found) <= 0)
    <3> SUFFICES ASSUME Learned(q, st, r, X) PROVE FALSE
      BY <1>11
    <3>1. known <= r.low
      BY <1>6 DEF Learned
    <3> QED  BY <1>9, <1>11, <1>12, <3>1
  <2>2. r.best \in X /\ Fit(g, FALSE, q, r.best)
    BY <1>11, <2>1 DEF Fits
  <2>3. Joined(g, r.best) /\ r.best # {} /\ Weight(r.best) >= q.min /\ Weight(r.best) <= FirstMax
    BY <1>6, <1>8, <2>2, FitWeighs
  <2>4. p.min > 0
    <3> SUFFICES ASSUME p.min = 0 PROVE FALSE
      BY <1>3
    <3>1. Weight(r.best) >= INT_MAX
      BY <1>6, <2>3
    <3> QED  BY <1>3, <1>10, <2>3, <3>1
  <2>5. Weight(r.best) >= p.min
    BY <1>6, <2>3, <2>4
  <2> QED  BY <1>11, <1>12, <2>3, <2>4, <2>5 DEF WeightFinds
<1>13. CASE ~(r.low < 0)
  <2>1. Len(r.found) <= 0 /\ Learned(q, st, r, X)
    BY <1>11, <1>13
  <2>2. /\ known <= r.low /\ r.low <= q.min - 1
        /\ \A D \in X : Weight(D) <= r.low \/ r.low = q.min - 1
        /\ r.low = known \/ \E D \in X : r.low <= Weight(D)
        /\ (\A D \in X : Weight(D) < q.min) => \/ r.low = known /\ r.best = clique
                                               \/ r.best \in X /\ r.low = Weight(r.best)
    BY <1>6, <2>1 DEF Learned
  <2>3. r.low \in Nat \ {0}
    BY <1>9, <1>11, <1>13, <2>2
  <2>4. p.min > 0 => r.low <= p.min - 1
    BY <1>3, <1>6, <2>2
  <2>5. ASSUME NEW C, Inside(g, table, k, C)
        PROVE  Weight(C) <= r.low \/ (p.min > 0 /\ r.low = p.min - 1)
    <3>1. Weight(C) \in Nat /\ Weight(C) < INT_MAX
      BY <1>10, <2>5 DEF Inside
    <3>2. CASE Inside(g, table, k - 1, C)
      <4>1. Weight(C) <= known \/ (p.min > 0 /\ known = p.min - 1)
        BY <1>9, <3>2
      <4>2. \A a, b, c, m \in Int :
               (c <= a \/ (m > 0 /\ a = m - 1)) /\ a <= b /\ (m > 0 => b <= m - 1)
               => c <= b \/ (m > 0 /\ b = m - 1)
        OBVIOUS
      <4>3. known \in Int /\ r.low \in Int /\ Weight(C) \in Int /\ p.min \in Int
        BY <1>3, <1>9, <2>3, <3>1
      <4> QED  BY <2>2, <2>4, <4>1, <4>2, <4>3
    <3>3. CASE C \in X
      <4>1. Weight(C) <= r.low \/ r.low = q.min - 1
        BY <2>2, <3>3
      <4>2. CASE p.min = 0
        BY <1>3, <1>6, <2>3, <3>1, <4>1, <4>2
      <4>3. CASE p.min > 0
        BY <1>6, <4>1, <4>3
      <4> QED  BY <1>3, <4>2, <4>3
    <3> QED  BY <1>7, <2>5, <3>2, <3>3
  <2>6. \E C : Inside(g, table, k, C) /\ C # {} /\ r.low <= Weight(C)
    <3>1. CASE r.low = known
      BY <1>7, <1>9, <3>1
    <3>2. CASE \E D \in X : r.low <= Weight(D)
      BY <1>7, <1>8, <3>2
    <3> QED  BY <2>2, <3>1, <3>2
  <2>7. ASSUME p.min > 0, NEW C, Inside(g, table, k, C), ~Inside(g, table, k - 1, C)
        PROVE  Weight(C) < p.min \/ Weight(C) > FirstMax
    <3>1. C \in X /\ Joined(g, C) /\ C # {}
      BY <1>7, <1>8, <2>7
    <3>2. Fits(q, X) = {}
      <4>1. ToSet(r.found) = ToSet(<<>>) \cup Fits(q, X)
        BY <1>11, <2>1 DEF Lists
      <4>2. r.found \in Seq(SUBSET Vertices(g))
        BY <1>11 DEF Lists
      <4>3. ToSet(r.found) = {}
        BY <2>1, <4>2 DEF ToSet
      <4> QED  BY <4>1, <4>3
    <3>3. ~Fit(g, FALSE, q, C)
      BY <3>1, <3>2 DEF Fits
    <3>4. ~(Weight(C) >= q.min /\ Weight(C) <= q.max)
      BY <1>6, <3>1, <3>3 DEF Fit, Value, Weight
    <3>5. Weight(C) \in Nat
      BY <1>10, <3>1
    <3> QED  BY <1>3, <1>6, <2>7, <3>4, <3>5
  <2>8. p.min = 0 => \/ r.low = known /\ r.best = clique
                     \/ Inside(g, table, k, r.best) /\ r.best # {} /\ Weight(r.best) = r.low
    <3> SUFFICES ASSUME p.min = 0 PROVE \A D \in X : Weight(D) < q.min
      BY <1>7, <1>8, <2>2
    <3> QED  BY <1>6, <1>8, <1>10
  <2>9. p.min > 0 => \A C : Inside(g, table, k, C) =>
                                   \/ Inside(g, table, k - 1, C)
                                   \/ Weight(C) < p.min \/ Weight(C) > FirstMax
    BY <2>7
  <2>10. p.min = 0 \/ p.min > 0
    BY <1>3
  <2> QED  BY <1>11, <1>13, <2>3, <2>4, <2>5, <2>6, <2>8, <2>9, <2>10 DEF WeightFinds
<1> QED  BY <1>12, <1>13

(* Every later turn of the weighted first pass keeps the invariant.        *)
LEMMA WeightedNextHolds ==
    ASSUME SearchInv, mode = "first", ~Unweighted(call), WeightedNext
    PROVE  SearchInv'
<1> DEFINE uw == Unweighted(call)
           most == Most(call, uw, p)
           v == table[i]
           known == sizes[table[i - 1]]
           q == [min |-> IF p.min = 0 THEN INT_MAX ELSE p.min, max |-> FirstMax,
                 maximal |-> FALSE, cap |-> 0, keep |-> TRUE, high |-> known + g.weights[v]]
           r == SubWeighted(q, NewTable(1 .. i - 1, i), {v},
                            [low |-> known, best |-> clique, found |-> <<>>])
<1>1. /\ Busy /\ FirstInv /\ i \in 2 .. g.n /\ UNCHANGED <<g, call, p, table, found>> /\ i' = i + 1
      /\ clique' = r.best
      /\ r.low < 0 => mode' = "judge" /\ sizes' = sizes
      /\ ~(r.low < 0) => /\ sizes' = [sizes EXCEPT ![v] = r.low]
                         /\ mode' = IF i < g.n THEN "first" ELSE IF p.min = 0 THEN "judge" ELSE "fail"
  BY DEF SearchInv, WeightedNext, Phases
<1> HIDE DEF r, q, uw, most, v, known
<1>0. ~uw
  BY DEF uw
<1>2. /\ Ready /\ Light /\ Begun /\ Whole(g) /\ sizes \in [Vertices(g) -> Nat] /\ clique \in MaybeClique
      /\ g.n \in Nat /\ i \in 1 .. g.n /\ i - 1 \in 1 .. g.n /\ i \in Nat /\ p.min \in Nat
      /\ i - 1 \in 1 .. i - 1
  <2>1. Busy /\ Begun /\ Ready /\ Light /\ Whole(g)
    BY <1>1 DEF FirstInv, Busy, Ready
  <2>2. p.min \in Nat
    BY <2>1, Limited
  <2>3. g.n \in Nat /\ sizes \in [Vertices(g) -> Nat] /\ clique \in MaybeClique
    BY <2>1 DEF Busy, Ready
  <2>4. i \in 1 .. g.n /\ i - 1 \in 1 .. g.n /\ i \in Nat /\ i - 1 \in 1 .. i - 1
    BY <1>1, <2>3
  <2> QED  BY <2>1, <2>2, <2>3, <2>4
<1>3. /\ \A l \in 1 .. i - 1 : Exact(g, uw, p.min, table, sizes, l)
      /\ \A l \in i .. g.n : sizes[table[l]] = 0
      /\ p.min > 0 => NotYet(g, uw, p.min, most, table, i - 1)
      /\ p.min = 0 => Best(g, uw, table, sizes, i - 1, clique)
  <2>1. i # 0
    BY <1>1, <1>2
  <2> QED  BY <1>1, <2>1 DEF FirstInv, uw, most
<1>4. FirstMax = most /\ FirstMax \in Nat
  BY <1>1, <1>2, FirstMaxIs DEF uw, most
<1>5. WeightFinds(i, known, r)
  <2>1. /\ known = sizes[table[i - 1]]
        /\ q = [min |-> IF p.min = 0 THEN INT_MAX ELSE p.min, max |-> FirstMax,
                maximal |-> FALSE, cap |-> 0, keep |-> TRUE, high |-> known + g.weights[table[i]]]
        /\ r = SubWeighted(q, NewTable(1 .. i - 1, i), {table[i]},
                            [low |-> known, best |-> clique, found |-> <<>>])
    BY DEF known, q, r, v
  <2> QED  BY <1>1, <1>2, <1>3, <2>1, WeightedTurnFinds DEF uw
<1>6. clique' \in MaybeClique
  BY <1>1, <1>5, OutcomeParts DEF WeightFinds
<1>7. \A C : Value(g, uw, C) = Weight(C)
  BY <1>0 DEF Value, Weight
<1>8. CASE r.low < 0
  <2>1. /\ p.min > 0 /\ Joined(g, clique') /\ clique' # {} /\ Weight(clique') >= p.min
        /\ Weight(clique') <= most
    BY <1>1, <1>4, <1>5, <1>8 DEF WeightFinds
  <2>2. p.min \in Nat \ {0} /\ Value(g, uw, clique') >= p.min /\ Value(g, uw, clique') <= most
    BY <1>2, <1>7, <2>1
  <2>3. mode' = "judge" /\ sizes' = sizes
    BY <1>1, <1>8
  <2>4. StoppedAt(g, uw, p.min, most, table, sizes', i)
    <3>1. sizes'[table[i]] = 0
      BY <1>2, <1>3, <2>3
    <3> QED  BY <1>0, <1>3, <2>1, <2>3, <3>1 DEF StoppedAt
  <2>5. JudgeInv'
    BY <1>0, <1>1, <1>2, <2>1, <2>2, <2>4, JudgeWith DEF uw, most
  <2> QED  BY <1>1, <1>2, <1>6, <2>3, <2>5, PhaseKeeps DEF Phases
<1>9. CASE ~(r.low < 0)
  <2> DEFINE x == r.low
  <2>1. /\ x \in Nat \ {0}
        /\ p.min > 0 => x <= p.min - 1
        /\ \A C : Inside(g, table, i, C) => Weight(C) <= x \/ (p.min > 0 /\ x = p.min - 1)
        /\ \E C : Inside(g, table, i, C) /\ C # {} /\ x <= Weight(C)
        /\ p.min > 0 => \A C : Inside(g, table, i, C) =>
                                   \/ Inside(g, table, i - 1, C)
                                   \/ Weight(C) < p.min \/ Weight(C) > FirstMax
        /\ \/ x = known /\ clique' = clique
           \/ p.min > 0
           \/ Inside(g, table, i, clique') /\ clique' # {} /\ Weight(clique') = x
    BY <1>1, <1>5, <1>9 DEF WeightFinds
  <2>2. sizes' = [sizes EXCEPT ![table[i]] = x]
        /\ mode' = IF i < g.n THEN "first" ELSE IF p.min = 0 THEN "judge" ELSE "fail"
    BY <1>1, <1>9 DEF v
  <2> HIDE DEF x
  <2>3. /\ sizes' \in [Vertices(g) -> Nat] /\ sizes'[table[i]] = x
        /\ \A l \in 1 .. g.n : l # i => sizes'[table[l]] = sizes[table[l]]
    <3>1. x \in Nat
      BY <2>1
    <3> QED  BY <1>2, <2>2, <3>1, OtherSizes
  <2>4. \A l \in 1 .. i : Exact(g, uw, p.min, table, sizes', l)
    <3>1. Exact(g, uw, p.min, table, sizes', i)
      <4>1. sizes'[table[i]] \in Nat \ {0} /\ (p.min > 0 => sizes'[table[i]] <= p.min - 1)
        BY <2>1, <2>3
      <4>2. \A C : Inside(g, table, i, C) =>
                Value(g, uw, C) <= sizes'[table[i]] \/ (p.min > 0 /\ sizes'[table[i]] = p.min - 1)
        BY <1>7, <2>1, <2>3
      <4>3. \E C : Inside(g, table, i, C) /\ C # {} /\ sizes'[table[i]] <= Value(g, uw, C)
        BY <1>7, <2>1, <2>3
      <4> QED  BY <1>0, <4>1, <4>2, <4>3 DEF Exact
    <3>2. ASSUME NEW l \in 1 .. i, l # i PROVE Exact(g, uw, p.min, table, sizes', l)
      <4>1. l \in 1 .. i - 1 /\ l \in 1 .. g.n
        BY <1>2, <3>2
      <4> QED  BY <1>3, <2>3, <3>2, <4>1, OtherExact
    <3> QED  BY <3>1, <3>2
  <2>5. p.min > 0 => NotYet(g, uw, p.min, most, table, i)
    <3> SUFFICES ASSUME p.min > 0, NEW C, Inside(g, table, i, C)
                 PROVE  Weight(C) < p.min \/ Weight(C) > most
      BY <1>7 DEF NotYet
    <3>1. CASE Inside(g, table, i - 1, C)
      BY <1>3, <1>7, <3>1 DEF NotYet
    <3>2. CASE ~Inside(g, table, i - 1, C)
      BY <1>4, <2>1, <3>2
    <3> QED  BY <3>1, <3>2
  <2>6. p.min = 0 => Best(g, uw, table, sizes', i, clique')
    <3> SUFFICES ASSUME p.min = 0 PROVE Best(g, uw, table, sizes', i, clique')
      OBVIOUS
    <3>1. ~(p.min > 0)
      OBVIOUS
    <3>2. CASE x = known /\ clique' = clique
      <4>1. Inside(g, table, i - 1, clique) /\ clique # {} /\ Value(g, uw, clique) = known
        BY <1>3 DEF Best, known
      <4>2. Inside(g, table, i, clique)
        BY <1>2, <4>1, InsideGrows
      <4> QED  BY <2>3, <3>2, <4>1, <4>2 DEF Best
    <3>3. CASE Inside(g, table, i, clique') /\ clique' # {} /\ Weight(clique') = x
      BY <1>7, <2>3, <3>3 DEF Best
    <3> QED  BY <2>1, <3>1, <3>2, <3>3
  <2>7. CASE i < g.n
    <3>1. \A l \in i + 1 .. g.n : sizes'[table[l]] = 0
      <4>1. \A l \in i + 1 .. g.n : l \in i .. g.n /\ l \in 1 .. g.n /\ l # i
        BY <1>2
      <4> QED  BY <1>3, <2>3, <4>1
    <3>2. FirstInv'
      BY <1>0, <1>1, <1>2, <2>4, <2>5, <2>6, <2>7, <3>1, FirstAgain DEF uw, most
    <3>3. mode' = "first"
      BY <2>2, <2>7
    <3> QED  BY <1>1, <1>6, <2>3, <3>2, <3>3, PhaseKeeps DEF Phases
  <2>8. CASE ~(i < g.n) /\ p.min = 0
    <3>1. i = g.n
      BY <1>2, <2>8
    <3>2. (\A l \in 1 .. g.n : Exact(g, uw, p.min, table, sizes', l)) /\ Best(g, uw, table, sizes', g.n, clique')
      BY <2>4, <2>6, <2>8, <3>1
    <3>3. JudgeInv'
      BY <1>1, <1>2, <2>8, <3>2, JudgeWithout DEF uw
    <3>4. mode' = "judge"
      BY <2>2, <2>8
    <3> QED  BY <1>1, <1>6, <2>3, <3>3, <3>4, PhaseKeeps DEF Phases
  <2>9. CASE ~(i < g.n) /\ p.min # 0
    <3>1. i = g.n /\ p.min > 0 /\ p.min \in Nat \ {0}
      BY <1>2, <2>9
    <3>2. NotYet(g, uw, p.min, most, table, g.n)
      BY <2>5, <3>1
    <3>3. FailInv'
      BY <1>1, <1>2, <3>1, <3>2, FailNow DEF uw, most
    <3>4. mode' = "fail"
      BY <2>2, <2>9
    <3> QED  BY <1>1, <1>6, <2>3, <3>3, <3>4, PhaseKeeps DEF Phases
  <2> QED  BY <2>7, <2>8, <2>9
<1> QED  BY <1>8, <1>9

(* The first pass keeps the invariant.                                     *)
LEMMA FirstHolds == ASSUME SearchInv, First PROVE SearchInv'
<1>1. mode = "first"
  BY DEF First, At
<1>2. CASE Unweighted(call)
  BY <1>1, <1>2, UnweightedFirstHolds, UnweightedNextHolds DEF First
<1>3. CASE ~Unweighted(call)
  BY <1>1, <1>3, WeightedOneHolds, WeightedFirstHolds, WeightedNextHolds DEF First
<1> QED  BY <1>2, <1>3

-----------------------------------------------------------------------------
(* Between the passes, and the second pass.                                *)

(* The second pass starts at the first vertex whose entry reaches the      *)
(* bound.                                                                  *)
LEMMA StartIs ==
    ASSUME Ready, sizes \in [Vertices(g) -> Nat], NEW min \in Nat, NEW start, start = StartIndex(min)
    PROVE  /\ start \in 1 .. g.n
           /\ \A k \in 1 .. start - 1 : /\ sizes[table[k]] < min
                                        /\ ~Unweighted(call) => sizes[table[k]] # 0
<1> DEFINE T == {k \in 1 .. g.n : \/ sizes[table[k]] >= min
                                  \/ ~Unweighted(call) /\ sizes[table[k]] = 0}
<1>1. g.n \in Nat /\ g.n >= 1 /\ \A k \in 1 .. g.n : sizes[table[k]] \in Nat
  BY DEF Ready, TableOf
<1>2. {g.n} \cup T \subseteq Nat /\ {g.n} \cup T # {} /\ {g.n} \cup T \subseteq 1 .. g.n
  BY <1>1
<1>3. start = Min({g.n} \cup T)
  BY DEF StartIndex
<1>4. start \in {g.n} \cup T /\ \A y \in {g.n} \cup T : start <= y
  BY <1>2, <1>3, LeastOf
<1>5. start \in 1 .. g.n /\ start \in Nat
  BY <1>2, <1>4
<1>6. \A k \in 1 .. start - 1 : k \in 1 .. g.n /\ ~(start <= k)
  BY <1>1, <1>5
<1>7. \A k \in 1 .. start - 1 : k \in 1 .. g.n /\ k \notin T
  BY <1>4, <1>6
<1>8. \A k \in 1 .. g.n : k \in T <=> (sizes[table[k]] >= min \/ (~Unweighted(call) /\ sizes[table[k]] = 0))
  OBVIOUS
<1> HIDE DEF T
<1>9. ASSUME NEW k \in 1 .. start - 1
      PROVE  sizes[table[k]] < min /\ (~Unweighted(call) => sizes[table[k]] # 0)
  <2>1. k \in 1 .. g.n /\ ~(sizes[table[k]] >= min) /\ ~(~Unweighted(call) /\ sizes[table[k]] = 0)
    BY <1>7, <1>8
  <2> QED  BY <1>1, <2>1
<1> QED  BY <1>5, <1>9

(* What the second phase starts from: below its first place nothing is     *)
(* wanted, and what the first phase has learned there is safe to prune by. *)
SafeStart(min, start) ==
    /\ start \in 1 .. g.n
    /\ Prunes(g, Unweighted(call), IF Unweighted(call) THEN min ELSE min - 1, table, sizes, start - 1)
    /\ WantedInside(table, start - 1, Wanted) = {}

(* That is a safe place to start when the first pass had a bound,          *)
LEMMA StartAfterBound ==
    ASSUME Busy, JudgeInv, p.min > 0
    PROVE  SafeStart(p.min, StartIndex(p.min))
<1> DEFINE uw == Unweighted(call)
           most == Most(call, uw, p)
           start == StartIndex(p.min)
<1>1. /\ Ready /\ Begun /\ sizes \in [Vertices(g) -> Nat] /\ p.min \in Nat /\ g.n \in Nat
      /\ p.max \in Nat /\ p.max <= INT_MAX /\ INT_MAX \in Nat
      /\ \A S : S \in Wanted <=> Fit(g, uw, p, S)
  <2>1. Ready /\ Begun /\ sizes \in [Vertices(g) -> Nat] /\ g.n \in Nat
    BY DEF Busy, JudgeInv, Ready
  <2> QED  BY <2>1, Limited, IntMax
<1>2. PICK j \in 1 .. g.n : StoppedAt(g, uw, p.min, most, table, sizes, j)
  BY DEF JudgeInv
<1>3. /\ start \in 1 .. g.n
      /\ \A k \in 1 .. start - 1 : /\ sizes[table[k]] < p.min /\ (~uw => sizes[table[k]] # 0)
  BY <1>1, StartIs
<1>4. p.max <= most
  BY <1>1 DEF Most
<1>5. \A k \in 1 .. g.n : sizes[table[k]] \in Nat
  BY <1>1 DEF Ready, TableOf
<1>6. /\ \A k \in 1 .. j - 1 : Exact(g, uw, p.min, table, sizes, k)
      /\ NotYet(g, uw, p.min, most, table, j - 1)
      /\ sizes[table[j]] = IF uw THEN p.min ELSE 0
  BY <1>2 DEF StoppedAt
<1> HIDE DEF uw, most, start
<1>7. start <= j
  <2>1. start \in Nat /\ j \in Nat /\ (~(start <= j) => j \in 1 .. start - 1)
    BY <1>1, <1>3
  <2>2. j \notin 1 .. start - 1
    BY <1>1, <1>3, <1>6
  <2> QED  BY <2>1, <2>2
<1>8. start - 1 \in Nat /\ start - 1 <= g.n /\ \A k \in 1 .. start - 1 : k \in 1 .. j - 1
  BY <1>1, <1>3, <1>7
<1>9. \A k \in 1 .. start - 1 : Exact(g, uw, p.min, table, sizes, k)
  BY <1>6, <1>8
<1>10. Prunes(g, uw, IF uw THEN p.min ELSE p.min - 1, table, sizes, start - 1)
  <2> DEFINE bound == IF uw THEN p.min ELSE p.min - 1
  <2>1. bound \in Nat /\ (p.min > 0 => bound <= p.min - 1 \/ uw)
    BY <1>1
  <2> HIDE DEF bound
  <2>2. Prunes(g, uw, bound, table, sizes, start - 1)
    BY <1>1, <1>8, <1>9, <2>1, ExactPrunes
  <2> QED  BY <2>2 DEF bound
<1>11. WantedInside(table, start - 1, Wanted) = {}
  <2> SUFFICES ASSUME NEW S \in Wanted, S \subseteq Images(table, 1 .. start - 1) PROVE FALSE
    BY DEF WantedInside
  <2>1. Joined(g, S) /\ Value(g, uw, S) >= p.min /\ Value(g, uw, S) <= p.max
    BY <1>1 DEF Fit
  <2>2. S \subseteq Images(table, 1 .. j - 1)
    BY <1>8 DEF Images
  <2>3. Value(g, uw, S) < p.min \/ Value(g, uw, S) > most
    BY <1>6, <2>1, <2>2 DEF NotYet, Inside
  <2> DEFINE val == Value(g, uw, S)
  <2>4. val \in Nat
    BY <1>1, <2>1, Values DEF Joined, Ready
  <2>5. most \in Nat
    BY <1>1 DEF most, Most
  <2>6. val >= p.min /\ val <= p.max /\ (val < p.min \/ val > most)
    BY <2>1, <2>3
  <2> HIDE DEF val
  <2> QED  BY <1>1, <1>4, <2>4, <2>5, <2>6
<1> QED  BY <1>3, <1>10, <1>11 DEF SafeStart, uw, start

(* and when it looked for the heaviest clique.                             *)
LEMMA StartAfterHeaviest ==
    ASSUME Busy, JudgeInv, p.min = 0, NEW most, most = sizes[table[g.n]]
    PROVE  /\ SafeStart(most, StartIndex(most)) /\ most \in Nat \ {0} /\ most < INT_MAX
           /\ \A S : S \in Wanted <=> Joined(g, S) /\ S # {} /\ Value(g, Unweighted(call), S) = most
           /\ clique \in Wanted
<1> DEFINE uw == Unweighted(call)
           start == StartIndex(most)
<1>1. /\ Ready /\ Light /\ Begun /\ sizes \in [Vertices(g) -> Nat] /\ g.n \in Nat
      /\ g.n \in 1 .. g.n
  <2>1. Ready /\ Light /\ Begun /\ sizes \in [Vertices(g) -> Nat] /\ g.n \in Nat
    BY DEF Busy, JudgeInv, Ready
  <2>2. g.n \in 1 .. g.n
    BY <2>1 DEF Ready
  <2> QED  BY <2>1, <2>2
<1>2. /\ \A k \in 1 .. g.n : Exact(g, uw, p.min, table, sizes, k)
      /\ Best(g, uw, table, sizes, g.n, clique)
  BY DEF JudgeInv
<1> HIDE DEF uw
<1>3. most \in Nat \ {0} /\ \A C : Inside(g, table, g.n, C) => Value(g, uw, C) <= most
  <2>1. Exact(g, uw, p.min, table, sizes, g.n) /\ ~(p.min > 0)
    BY <1>1, <1>2
  <2> QED  BY <2>1 DEF Exact
<1>4. Inside(g, table, g.n, clique) /\ clique # {} /\ Value(g, uw, clique) = most /\ Joined(g, clique)
  BY <1>2 DEF Best, Inside
<1>5. \A C : Joined(g, C) => Inside(g, table, g.n, C)
  BY <1>1, TableOnto DEF Inside, Joined
<1>6. \A S : Joined(g, S) => Value(g, uw, S) \in Nat /\ Value(g, uw, S) < INT_MAX
  BY <1>1, ValuesBelow DEF uw
<1>7. most < INT_MAX
  BY <1>4, <1>6
<1>8. \A S : S \in Wanted <=> Joined(g, S) /\ S # {} /\ Value(g, uw, S) = most
  <2>1. \A S : S \in Wanted <=> S \in Cliques /\ \A T \in Cliques : Own(T) <= Own(S)
    BY <1>1, Limited
  <2>2. \A S : S \in Cliques <=> Joined(g, S) /\ S # {}
    BY CliquesAre
  <2>3. \A S : Own(S) = Value(g, uw, S)
    BY DEF Own, uw
  <2>4. \A S \in Cliques : Own(S) \in Nat /\ Own(S) <= most
    BY <1>3, <1>5, <1>6, <2>2, <2>3
  <2>5. clique \in Cliques /\ Own(clique) = most
    BY <1>4, <2>2, <2>3
  <2>6. ASSUME NEW S PROVE S \in Wanted <=> S \in Cliques /\ Own(S) = most
    <3>1. ASSUME S \in Wanted PROVE S \in Cliques /\ Own(S) = most
      <4>1. S \in Cliques /\ Own(clique) <= Own(S)
        BY <2>1, <2>5, <3>1
      <4> QED  BY <1>3, <2>4, <2>5, <4>1
    <3>2. ASSUME S \in Cliques, Own(S) = most PROVE S \in Wanted
      BY <2>1, <2>4, <3>2
    <3> QED  BY <3>1, <3>2
  <2> QED  BY <2>2, <2>3, <2>6
<1>9. clique \in Wanted
  BY <1>4, <1>8
<1>10. /\ start \in 1 .. g.n
       /\ \A k \in 1 .. start - 1 : /\ sizes[table[k]] < most /\ (~uw => sizes[table[k]] # 0)
  BY <1>1, <1>3, StartIs DEF uw
<1> HIDE DEF start
<1>11. start - 1 \in Nat /\ start - 1 <= g.n /\ \A k \in 1 .. start - 1 : k \in 1 .. g.n
  BY <1>1, <1>10
<1>12. Prunes(g, uw, IF uw THEN most ELSE most - 1, table, sizes, start - 1)
  <2> DEFINE bound == IF uw THEN most ELSE most - 1
  <2>1. bound \in Nat /\ p.min \in Nat /\ ~(p.min > 0)
    BY <1>3
  <2> HIDE DEF bound
  <2>2. \A k \in 1 .. start - 1 : Exact(g, uw, p.min, table, sizes, k)
    BY <1>2, <1>11
  <2>3. Prunes(g, uw, bound, table, sizes, start - 1)
    BY <1>1, <1>11, <2>1, <2>2, ExactPrunes
  <2> QED  BY <2>3 DEF bound
<1>13. WantedInside(table, start - 1, Wanted) = {}
  <2> SUFFICES ASSUME NEW S \in Wanted, S \subseteq Images(table, 1 .. start - 1) PROVE FALSE
    BY DEF WantedInside
  <2>1. Joined(g, S) /\ S # {} /\ Value(g, uw, S) = most
    BY <1>8
  <2>2. start - 1 # 0
    <3>1. 1 .. start - 1 # {}
      BY <2>1 DEF Images
    <3> QED  BY <1>11, <3>1
  <2>3. start - 1 \in 1 .. start - 1 /\ start - 1 \in 1 .. g.n
    BY <1>1, <1>10, <2>2
  <2>4. Exact(g, uw, p.min, table, sizes, start - 1) /\ ~(p.min > 0)
    BY <1>2, <2>3
  <2>5. Value(g, uw, S) <= sizes[table[start - 1]] /\ sizes[table[start - 1]] \in Nat
    BY <2>1, <2>4 DEF Exact, Inside
  <2>6. sizes[table[start - 1]] < most
    BY <1>10, <2>3
  <2> QED  BY <1>3, <2>1, <2>5, <2>6
<1>14. SafeStart(most, start)
  BY <1>10, <1>12, <1>13 DEF SafeStart, uw
<1> QED  BY <1>3, <1>7, <1>8, <1>9, <1>14 DEF uw, start

(* A second pass begins with nothing stored.                               *)
LEMMA SecondBegins ==
    ASSUME Busy, Begun, UNCHANGED <<g, call, table, sizes, found>>, NEW q, p' = q, q \in Limits,
           q.min >= 1, q.min <= q.max, q.min <= INT_MAX, q.high = INT_MAX,
           q.cap = IF call.kind = "single" THEN 0 ELSE call.cap,
           q.keep <=> call.kind = "single",
           \A S : S \in Wanted <=> Fit(g, Unweighted(call), q, S),
           i' = StartIndex(q.min), SafeStart(q.min, StartIndex(q.min))
    PROVE  SecondInv'
<1>1. found = <<>> /\ call.cap \in Nat /\ q.cap \in Nat
  BY Limited DEF Begun, Limits
<1>2. Unweighted(call)' = Unweighted(call) /\ Wanted' = Wanted
  BY Stays
<1>3. ToSet(<<>>) = {} /\ Len(<<>>) = 0 /\ <<>> \in Seq(SUBSET Vertices(g)) /\ Once(<<>>)
  BY DEF ToSet, Once
<1>4. Lists(<<>>, <<>>, {}, q.cap) /\ Len(<<>>) <= q.cap
  BY <1>1, <1>3 DEF Lists
<1>5. WantedInside(table, i' - 1, Wanted) = {} /\ i' \in 1 .. g.n
      /\ Prunes(g, Unweighted(call), IF Unweighted(call) THEN q.min ELSE q.min - 1, table, sizes, i' - 1)
  BY DEF SafeStart
<1>6. Lists(found, <<>>, WantedInside(table, i' - 1, Wanted), q.cap) /\ Len(found) <= q.cap
  BY <1>1, <1>4, <1>5
<1>7. found' = found /\ g' = g /\ table' = table /\ call' = call /\ sizes' = sizes
  OBVIOUS
<1> HIDE DEF SafeStart
<1>8. Lists(found, <<>>, WantedInside(table, i - 1, Wanted), p.cap)'
  <2>1. WantedInside(table, i - 1, Wanted)' = WantedInside(table, i' - 1, Wanted)
    BY <1>2, <1>7 DEF WantedInside
  <2> QED  BY <1>6, <1>7, <2>1 DEF Lists
<1>9. (\A S : S \in Wanted <=> Fit(g, Unweighted(call), p, S))'
  BY <1>2, <1>7
<1>10. Prunes(g, Unweighted(call), IF Unweighted(call) THEN p.min ELSE p.min - 1, table, sizes, i - 1)'
  BY <1>2, <1>5, <1>7
<1>11. p' \in Limits /\ Limits' = Limits
  BY DEF Limits
<1> QED  BY <1>2, <1>5, <1>6, <1>7, <1>8, <1>9, <1>10, <1>11 DEF SecondInv

(* A call for one clique is done when it has one, or there is none.        *)
LEMMA DoneSingle ==
    ASSUME UNCHANGED <<g, call, table>>, call.kind = "single",
           IF Wanted = {} THEN clique' = NoClique ELSE clique' \in Wanted
    PROVE  DoneInv'
<1>1. Wanted' = Wanted /\ call'.kind = "single"
  BY Stays
<1> QED  BY <1>1 DEF DoneInv

(* Going on to list all cliques keeps the invariant.                       *)
LEMMA ListHolds ==
    ASSUME SearchInv, mode = "judge", List, UNCHANGED <<g, call, table, sizes, found>>
    PROVE  SearchInv'
<1> DEFINE uw == Unweighted(call)
<1>1. /\ Busy /\ JudgeInv /\ Begun /\ call.kind = "all" /\ mode' = "second" /\ clique' = clique
      /\ p' = Bounds(sizes[table[g.n]]) /\ i' = StartIndex(p'.min)
      /\ sizes' \in [Vertices(g) -> Nat] /\ clique \in MaybeClique
  BY DEF SearchInv, List, JudgeInv, Busy, Phases
<1>2. /\ p \in Limits /\ p.min <= p.max /\ p.max <= INT_MAX /\ p.cap = call.cap /\ p.keep = FALSE
      /\ p.high = INT_MAX /\ p.min \in Nat /\ p.max \in Nat /\ call.cap \in Nat
  BY <1>1, Limited
<1>3. SecondInv'
  <2>1. CASE p.min = 0
    <3> DEFINE most == sizes[table[g.n]]
               q == [p EXCEPT !.min = most, !.max = most, !.maximal = FALSE]
    <3>1. /\ SafeStart(most, StartIndex(most)) /\ most \in Nat \ {0} /\ most < INT_MAX
          /\ \A S : S \in Wanted <=> Joined(g, S) /\ S # {} /\ Value(g, uw, S) = most
      BY <1>1, <2>1, StartAfterHeaviest
    <3>2. p' = q
      BY <1>1, <2>1 DEF Bounds
    <3> HIDE DEF uw, most
    <3>3. /\ q.min = most /\ q.max = most /\ q.maximal = FALSE /\ q.cap = p.cap /\ q.keep = p.keep
          /\ q.high = p.high /\ q \in Limits
      BY <1>2, <3>1 DEF Limits
    <3> HIDE DEF q
    <3>4. \A S : S \in Wanted <=> Fit(g, uw, q, S)
      <4> SUFFICES ASSUME NEW S PROVE S \in Wanted <=> Fit(g, uw, q, S)
        OBVIOUS
      <4>1. S \in Wanted <=> Joined(g, S) /\ S # {} /\ Value(g, uw, S) = most
        BY <3>1
      <4>2. Joined(g, S) => Value(g, uw, S) \in Nat
        BY <1>1, ValuesBelow DEF Busy, uw
      <4>3. Joined(g, S) => (Value(g, uw, S) = most <=> Value(g, uw, S) >= most /\ Value(g, uw, S) <= most)
        BY <3>1, <4>2
      <4> QED  BY <3>3, <4>1, <4>3 DEF Fit
    <3>5. /\ q.min >= 1 /\ q.min <= q.max /\ q.min <= INT_MAX /\ q.high = INT_MAX
          /\ q.cap = IF call.kind = "single" THEN 0 ELSE call.cap
          /\ q.keep <=> call.kind = "single"
      BY <1>1, <1>2, <3>1, <3>3, IntMax
    <3>6. i' = StartIndex(q.min) /\ SafeStart(q.min, StartIndex(q.min))
      BY <1>1, <3>1, <3>2, <3>3
    <3> QED  BY <1>1, <3>2, <3>3, <3>4, <3>5, <3>6, SecondBegins DEF uw
  <2>2. CASE p.min # 0
    <3>1. p' = p /\ p.min > 0 /\ p.min >= 1
      BY <1>1, <1>2, <2>2 DEF Bounds
    <3>2. SafeStart(p.min, StartIndex(p.min))
      BY <1>1, <3>1, StartAfterBound
    <3>3. \A S : S \in Wanted <=> Fit(g, Unweighted(call), p, S)
      BY <1>1, <3>1, Limited
    <3>4. /\ p.min <= INT_MAX
          /\ p.cap = IF call.kind = "single" THEN 0 ELSE call.cap
          /\ p.keep <=> call.kind = "single"
      BY <1>1, <1>2, IntMax
    <3>5. i' = StartIndex(p.min)
      BY <1>1, <3>1
    <3> QED  BY <1>1, <1>2, <3>1, <3>2, <3>3, <3>4, <3>5, SecondBegins
  <2> QED  BY <2>1, <2>2
<1> QED  BY <1>1, <1>3, PhaseKeeps DEF Phases

(* So does taking the clique of the first pass, if it fits.                *)
LEMMA AcceptHolds ==
    ASSUME SearchInv, mode = "judge", NEW weight,
           weight = Value(g, Unweighted(call), Kept), Accept(Kept, weight),
           UNCHANGED <<g, call, table, sizes, found>>
    PROVE  SearchInv'
<1> DEFINE uw == Unweighted(call)
           K == Kept
<1>1. /\ Busy /\ JudgeInv /\ Begun /\ call.kind = "single" /\ clique' = K
      /\ IF p.maximal /\ p.min > 0 /\ weight > p.max
         THEN /\ mode' = "second" /\ i' = StartIndex(p.min)
              /\ p' = [p EXCEPT !.cap = 0, !.keep = TRUE]
         ELSE mode' = "done" /\ UNCHANGED <<i, p>>
      /\ sizes' \in [Vertices(g) -> Nat]
      /\ K = IF p.maximal /\ p.min > 0 THEN Maximalize(clique) ELSE clique
      /\ weight = Value(g, uw, K)
  BY DEF SearchInv, JudgeInv, Busy, Accept, Kept, Phases
<1> HIDE DEF uw, K
<1>2. /\ Ready /\ Light /\ Whole(g) /\ p \in Limits /\ p.min <= p.max /\ p.max <= INT_MAX /\ p.cap = call.cap
      /\ p.high = INT_MAX /\ p.min \in Nat /\ p.max \in Nat /\ p.keep = FALSE
  BY <1>1, Limited DEF Busy, Ready
<1>3. CASE p.min = 0
  <2>1. K = clique /\ mode' = "done"
    BY <1>1, <1>3
  <2>2. clique \in Wanted
    BY <1>1, <1>3, StartAfterHeaviest
  <2>3. clique' \in Wanted /\ Wanted # {}
    BY <1>1, <2>1, <2>2
  <2>4. DoneInv'
    BY <1>1, <2>3, DoneSingle
  <2>5. clique' \in MaybeClique
    BY <1>1, <2>1 DEF Busy
  <2> QED  BY <1>1, <2>1, <2>4, <2>5, PhaseKeeps DEF Phases
<1>4. CASE p.min > 0
  <2>1. /\ Joined(g, clique) /\ clique # {} /\ Value(g, uw, clique) >= p.min
        /\ Value(g, uw, clique) <= p.max
    <3>1. /\ Joined(g, clique) /\ clique # {} /\ Value(g, uw, clique) >= p.min
          /\ Value(g, uw, clique) <= IF uw THEN p.min ELSE Most(call, uw, p)
      BY <1>1, <1>4 DEF JudgeInv, uw
    <3>2. ~uw => Most(call, uw, p) = p.max
      BY <1>1 DEF Most
    <3>3. Value(g, uw, clique) \in Nat
      BY <1>2, <3>1, ValuesBelow DEF uw
    <3> QED  BY <1>2, <3>1, <3>2, <3>3
  <2>2. /\ Joined(g, K) /\ K # {} /\ clique \subseteq K /\ (p.maximal => MaximalIn(g, K))
    <3>1. CASE p.maximal
      BY <1>1, <1>2, <1>4, <2>1, <3>1, MaximalizeIs
    <3>2. CASE ~p.maximal
      BY <1>1, <2>1, <3>2
    <3> QED  BY <3>1, <3>2
  <2>3. Value(g, uw, K) >= p.min /\ Value(g, uw, K) \in Nat
    <3>1. Value(g, uw, clique) <= Value(g, uw, K) /\ Value(g, uw, clique) \in Nat /\ Value(g, uw, K) \in Nat
      <4>1. K \subseteq Vertices(g)
        BY <2>2 DEF Joined
      <4>2. \A b : /\ Value(g, b, K) \in Nat
                   /\ \A R : R \subseteq K => Value(g, b, R) \in Nat /\ Value(g, b, R) <= Value(g, b, K)
        BY <1>2, <4>1, Values
      <4> QED  BY <2>2, <4>2
    <3> QED  BY <1>2, <2>1, <3>1
  <2>4. \A S : S \in Wanted <=> Fit(g, uw, p, S)
    BY <1>1, <1>4, Limited DEF uw
  <2>5. clique' \in MaybeClique
    <3>1. K \subseteq Vertices(g)
      BY <2>2 DEF Joined
    <3> QED  BY <1>1, <1>2, <3>1, CliqueIsSet
  <2>6. CASE p.maximal /\ weight > p.max
    <3> DEFINE q == [p EXCEPT !.cap = 0, !.keep = TRUE]
    <3>1. mode' = "second" /\ i' = StartIndex(p.min) /\ p' = q
      BY <1>1, <1>4, <2>6
    <3>2. /\ q.min = p.min /\ q.max = p.max /\ q.maximal = p.maximal /\ q.cap = 0 /\ q.keep = TRUE
          /\ q.high = p.high /\ q \in Limits
      BY <1>2 DEF Limits
    <3> HIDE DEF q
    <3>3. \A S : S \in Wanted <=> Fit(g, uw, q, S)
      BY <2>4, <3>2 DEF Fit
    <3>4. SafeStart(q.min, StartIndex(q.min))
      BY <1>1, <1>4, <3>2, StartAfterBound
    <3>5. /\ q.min >= 1 /\ q.min <= q.max /\ q.min <= INT_MAX /\ q.high = INT_MAX
          /\ q.cap = IF call.kind = "single" THEN 0 ELSE call.cap
          /\ q.keep <=> call.kind = "single"
      BY <1>1, <1>2, <1>4, <3>2, IntMax
    <3>6. i' = StartIndex(q.min)
      BY <3>1, <3>2
    <3>7. SecondInv'
      BY <1>1, <3>1, <3>2, <3>3, <3>4, <3>5, <3>6, SecondBegins DEF uw
    <3> QED  BY <1>1, <2>5, <3>1, <3>7, PhaseKeeps DEF Phases
  <2>7. CASE ~(p.maximal /\ weight > p.max)
    <3>1. mode' = "done"
      BY <1>1, <2>7
    <3>2. Value(g, uw, K) <= p.max
      <4>1. CASE p.maximal
        BY <1>1, <1>2, <2>3, <2>7, <4>1
      <4>2. CASE ~p.maximal
        BY <1>1, <2>1, <4>2
      <4> QED  BY <4>1, <4>2
    <3>3. Fit(g, uw, p, K)
      BY <2>2, <2>3, <3>2 DEF Fit
    <3>4. clique' \in Wanted /\ Wanted # {}
      BY <1>1, <2>4, <3>3
    <3>5. DoneInv'
      BY <1>1, <3>4, DoneSingle
    <3> QED  BY <1>1, <2>5, <3>1, <3>5, PhaseKeeps DEF Phases
  <2> QED  BY <2>6, <2>7
<1> QED  BY <1>2, <1>3, <1>4

(* So does whatever is made of the first pass.                             *)
LEMMA JudgeHolds == ASSUME SearchInv, Judge PROVE SearchInv'
<1>1. mode = "judge" /\ UNCHANGED <<g, call, table, sizes, found>>
  BY DEF Judge, At
<1>2. CASE AcceptUnweighted
  <2>1. Unweighted(call) /\ Accept(Kept, Cardinality(Kept))
    BY <1>2 DEF AcceptUnweighted
  <2>2. Cardinality(Kept) = Value(g, Unweighted(call), Kept)
    BY <2>1 DEF Value
  <2> QED  BY <1>1, <2>1, <2>2, AcceptHolds
<1>3. CASE AcceptWeighted
  <2>1. ~Unweighted(call) /\ Accept(Kept, Weight(Kept))
    BY <1>3 DEF AcceptWeighted
  <2>2. Weight(Kept) = Value(g, Unweighted(call), Kept)
    BY <2>1 DEF Value, Weight
  <2> QED  BY <1>1, <2>1, <2>2, AcceptHolds
<1>4. CASE List
  BY <1>1, <1>4, ListHolds
<1> QED  BY <1>2, <1>3, <1>4 DEF Judge

(* The turn for place k lists what is wanted of the cliques that it ends.  *)
WantedAt(k) == {D \in Wanted : D \subseteq Images(table, 1 .. k) /\ table[k] \in D}

(* The cliques asked for, by the last place they take.                     *)
LEMMA WantedSplits ==
    ASSUME Ready, NEW k \in 1 .. g.n, \A S : S \in Wanted <=> Fit(g, Unweighted(call), p, S)
    PROVE  /\ WantedInside(table, k, Wanted) = WantedInside(table, k - 1, Wanted) \cup WantedAt(k)
           /\ WantedInside(table, k - 1, Wanted) \cap WantedAt(k) = {}
           /\ \A D : D \in WantedAt(k) <=>
                       /\ D \in Cands({table[k]}, NewTable(1 .. k - 1, k))
                       /\ Fit(g, Unweighted(call), p, D)
<1> DEFINE v == table[k]
           A == Images(table, 1 .. k - 1)
           B == Images(table, 1 .. k)
           X == Cands({v}, NewTable(1 .. k - 1, k))
<1>1. B = A \cup {v} /\ v \notin A /\ \A D : D \in X <=> Inside(g, table, k, D) /\ v \in D
  BY TurnIs
<1>2. \A D : Inside(g, table, k, D) <=> Joined(g, D) /\ D \subseteq B
  BY DEF Inside
<1>3. \A D : D \in WantedAt(k) <=> D \in Wanted /\ D \subseteq B /\ v \in D
  BY DEF WantedAt
<1>4. \A D : D \in Wanted => Joined(g, D)
  BY DEF Fit
<1>5. /\ \A D : D \in WantedInside(table, k, Wanted) <=> D \in Wanted /\ D \subseteq B
      /\ \A D : D \in WantedInside(table, k - 1, Wanted) <=> D \in Wanted /\ D \subseteq A
  BY DEF WantedInside
<1> HIDE DEF v, A, B, X
<1>6. \A D : D \subseteq B <=> (D \subseteq A \/ (D \subseteq B /\ v \in D))
  BY <1>1
<1>7. WantedInside(table, k, Wanted) = WantedInside(table, k - 1, Wanted) \cup WantedAt(k)
  <2>1. \A D : D \in WantedInside(table, k, Wanted)
                 <=> D \in WantedInside(table, k - 1, Wanted) \/ D \in WantedAt(k)
    BY <1>3, <1>5, <1>6
  <2> QED  BY <2>1
<1>8. WantedInside(table, k - 1, Wanted) \cap WantedAt(k) = {}
  BY <1>1, <1>3, <1>5
<1>9. \A D : D \in WantedAt(k) <=> D \in X /\ Fit(g, Unweighted(call), p, D)
  BY <1>1, <1>2, <1>3, <1>4
<1> QED  BY <1>7, <1>8, <1>9 DEF X, v

(* One turn of unweighted_clique_search_all lists the cliques of its       *)
(* vertex,                                                                 *)
LEMMA UnweightedTurnLists ==
    ASSUME Ready, Unweighted(call), Sensible(p), NEW k \in 1 .. g.n,
           \A S : S \in Wanted <=> Fit(g, Unweighted(call), p, S),
           Prunes(g, Unweighted(call), p.min, table, sizes, k - 1),
           Storing(found, p.cap), ToSet(found) \cap WantedAt(k) = {}
    PROVE  Lists(SubAll(NewTable(1 .. k - 1, k), {table[k]}, found), found, WantedAt(k), p.cap)
<1> DEFINE v == table[k]
           T == NewTable(1 .. k - 1, k)
<1>1. T \subseteq 1 .. k - 1 /\ Rooted({v}, T) /\ k - 1 \in Nat /\ k - 1 <= g.n
  <2>1. T \subseteq 1 .. k - 1 /\ Rooted({v}, T)
    BY TurnIs
  <2>2. k - 1 \in Nat /\ k - 1 <= g.n
    BY DEF Ready
  <2> QED  BY <2>1, <2>2
<1>2. Cardinality({v}) = 1
  BY OneVertex
<1>3. Cardinality({v}) <= p.max
  BY <1>2 DEF Sensible
<1>4. Prunes(g, TRUE, p.min, table, sizes, k - 1)
  BY DEF Prunes, Value
<1>5. Here({v}, T) = WantedAt(k)
  <2>1. \A D : D \in WantedAt(k) <=> D \in Cands({v}, T) /\ Fit(g, Unweighted(call), p, D)
    BY WantedSplits
  <2>2. \A D : Fit(g, Unweighted(call), p, D) <=> Fit(g, TRUE, p, D)
    BY DEF Fit, Value
  <2>3. \A D : D \in Here({v}, T) <=> D \in Cands({v}, T) /\ Fit(g, TRUE, p, D)
    BY DEF Here
  <2> HIDE DEF v, T
  <2>4. \A D : D \in Here({v}, T) <=> D \in WantedAt(k)
    BY <2>1, <2>2, <2>3, Zenon
  <2> QED  BY <2>4
<1>6. ToSet(found) \cap Here({v}, T) = {}
  BY <1>5
<1> HIDE DEF v, T
<1>7. Lists(SubAll(T, {v}, found), found, Here({v}, T), p.cap)
  BY <1>1, <1>3, <1>4, <1>6, SubAllLists
<1> QED  BY <1>5, <1>7 DEF v, T

(* and one turn of weighted_clique_search_all does.                        *)
LEMMA WeightedTurnLists ==
    ASSUME Ready, ~Unweighted(call), p \in Limits, p.min >= 1, p.min <= p.high, NEW k \in 1 .. g.n,
           \A S : S \in Wanted <=> Fit(g, Unweighted(call), p, S),
           Prunes(g, Unweighted(call), p.min - 1, table, sizes, k - 1), clique \in MaybeClique,
           Storing(found, p.cap), ToSet(found) \cap WantedAt(k) = {},
           NEW st, st = [low |-> p.min - 1, best |-> clique, found |-> found]
    PROVE  Lists(SubWeighted(p, NewTable(1 .. k - 1, k), {table[k]}, st).found, found, WantedAt(k), p.cap)
<1> DEFINE v == table[k]
           T == NewTable(1 .. k - 1, k)
           X == Cands({v}, T)
<1>1. T \subseteq 1 .. k - 1 /\ Rooted({v}, T) /\ k - 1 \in Nat /\ k - 1 <= g.n
  <2>1. T \subseteq 1 .. k - 1 /\ Rooted({v}, T)
    BY TurnIs
  <2>2. k - 1 \in Nat /\ k - 1 <= g.n
    BY DEF Ready
  <2> QED  BY <2>1, <2>2
<1>2. p.min \in Nat /\ p.cap \in Nat /\ p.high \in Nat
  BY DEF Limits
<1>3. st.low = p.min - 1 /\ st.found = found /\ st \in Outcomes
  <2>1. p.min - 1 \in Int
    BY <1>2
  <2> QED  BY <2>1 DEF Outcomes, Storing
<1>4. Start(p, st)
  BY <1>2, <1>3 DEF Start
<1>5. Prunes(g, FALSE, p.min - 1, table, sizes, k - 1)
  BY DEF Prunes, Value
<1>6. Fits(p, X) = WantedAt(k)
  <2>1. \A D : D \in WantedAt(k) <=> D \in X /\ Fit(g, Unweighted(call), p, D)
    BY WantedSplits
  <2>2. \A D : Fit(g, Unweighted(call), p, D) <=> Fit(g, FALSE, p, D)
    BY DEF Fit, Value
  <2>3. \A D : D \in Fits(p, X) <=> D \in X /\ Fit(g, FALSE, p, D)
    BY DEF Fits
  <2> HIDE DEF v, T, X
  <2>4. \A D : D \in Fits(p, X) <=> D \in WantedAt(k)
    BY <2>1, <2>2, <2>3, Zenon
  <2> QED  BY <2>4
<1>7. p.high >= p.min
  BY <1>2
<1>8. ToSet(st.found) \cap Fits(p, X) = {}
  BY <1>3, <1>6
<1> HIDE DEF v, T
<1>9. Searched(p, st, SubWeighted(p, T, {v}, st), X)
  BY <1>1, <1>4, <1>5, <1>7, <1>8, SubWeightedSearched
<1>10. Lists(SubWeighted(p, T, {v}, st).found, found, Fits(p, X), p.cap)
  BY <1>3, <1>9 DEF Searched
<1> QED  BY <1>6, <1>10 DEF v, T

(* A turn of the second pass lists all up to its vertex.                   *)
LEMMA SecondTurnLists ==
    ASSUME Busy, SecondInv, NEW R,
           R = IF Unweighted(call) THEN UnweightedStored(table[i]) ELSE WeightedStored(table[i])
    PROVE  Lists(R, <<>>, WantedInside(table, i, Wanted), p.cap)
<1> DEFINE uw == Unweighted(call)
           W == WantedInside(table, i - 1, Wanted)
<1>1. /\ Ready /\ clique \in MaybeClique /\ p \in Limits /\ p.min >= 1 /\ p.min <= p.max
      /\ p.min <= INT_MAX /\ p.high = INT_MAX /\ i \in 1 .. g.n
      /\ \A S : S \in Wanted <=> Fit(g, uw, p, S)
      /\ Prunes(g, uw, IF uw THEN p.min ELSE p.min - 1, table, sizes, i - 1)
      /\ Lists(found, <<>>, W, p.cap) /\ Len(found) <= p.cap
  BY DEF Busy, SecondInv
<1>2. /\ p.min \in Nat /\ p.max \in Nat /\ p.cap \in Nat /\ p.maximal \in BOOLEAN
  BY <1>1 DEF Limits
<1> HIDE DEF uw, W
<1>3. /\ WantedInside(table, i, Wanted) = W \cup WantedAt(i)
      /\ W \cap WantedAt(i) = {}
  BY <1>1, WantedSplits DEF uw, W
<1>4. Storing(found, p.cap) /\ ToSet(found) = ToSet(<<>>) \cup W
  BY <1>1, <1>2, ListsStores
<1>5. ToSet(found) \cap WantedAt(i) = {}
  <2>1. ToSet(<<>>) = {}
    BY DEF ToSet
  <2> QED  BY <1>3, <1>4, <2>1
<1>6. Lists(R, found, WantedAt(i), p.cap)
  <2>1. CASE uw
    <3>1. R = SubAll(NewTable(1 .. i - 1, i), {table[i]}, found)
      BY <2>1 DEF uw, UnweightedStored
    <3>2. Sensible(p)
      BY <1>1, <1>2 DEF Sensible
    <3>3. Prunes(g, uw, p.min, table, sizes, i - 1)
      BY <1>1, <2>1
    <3> QED  BY <1>1, <1>4, <1>5, <2>1, <3>1, <3>2, <3>3, UnweightedTurnLists DEF uw
  <2>2. CASE ~uw
    <3> DEFINE st == [low |-> p.min - 1, best |-> clique, found |-> found]
    <3>1. R = SubWeighted(p, NewTable(1 .. i - 1, i), {table[i]}, st).found
      BY <2>2 DEF uw, WeightedStored
    <3>2. Prunes(g, uw, p.min - 1, table, sizes, i - 1)
      BY <1>1, <2>2
    <3>3. p.min <= p.high
      BY <1>1
    <3> HIDE DEF st
    <3>4. st = [low |-> p.min - 1, best |-> clique, found |-> found]
      BY DEF st
    <3> QED  BY <1>1, <1>4, <1>5, <2>2, <3>1, <3>2, <3>3, <3>4, WeightedTurnLists DEF uw
  <2> QED  BY <2>1, <2>2
<1>7. Lists(R, <<>>, W \cup WantedAt(i), p.cap)
  BY <1>1, <1>2, <1>6, ListsMore
<1> QED  BY <1>3, <1>7

(* The second pass keeps the invariant.                                    *)
LEMMA SecondHolds == ASSUME SearchInv, Second PROVE SearchInv'
<1> DEFINE uw == Unweighted(call)
           bound == IF uw THEN p.min ELSE p.min - 1
           W == WantedInside(table, i, Wanted)
           stop == ~(Len(found') <= p.cap)
<1>1. /\ Busy /\ SecondInv /\ mode = "second" /\ UNCHANGED <<g, call, p, table>> /\ i' = i + 1
      /\ sizes' = [sizes EXCEPT ![table[i]] = p.min]
      /\ found' = IF uw THEN UnweightedStored(table[i]) ELSE WeightedStored(table[i])
      /\ mode' = IF i = g.n \/ Stopped(p, found') THEN "done" ELSE "second"
      /\ clique' = IF ~p.keep THEN clique
                   ELSE IF found' # <<>> THEN found'[1]
                   ELSE IF mode' = "done" THEN NoClique ELSE clique
  BY DEF SearchInv, Second, At, Phases
<1>2. /\ Ready /\ clique \in MaybeClique /\ p \in Limits /\ p.min >= 1 /\ p.min <= p.max
      /\ p.min <= INT_MAX /\ p.high = INT_MAX /\ i \in 1 .. g.n
      /\ p.cap = IF call.kind = "single" THEN 0 ELSE call.cap
      /\ p.keep <=> call.kind = "single"
      /\ \A S : S \in Wanted <=> Fit(g, uw, p, S)
      /\ Prunes(g, uw, bound, table, sizes, i - 1)
      /\ sizes \in [Vertices(g) -> Nat] /\ g.n \in Nat /\ call.kind \in {"single", "all"}
  <2>1. Ready /\ call \in CALLS
    BY <1>1 DEF Busy
  <2>2. call.kind \in {"single", "all"} /\ g.n \in Nat
    BY <2>1, CallIs DEF Ready
  <2> QED  BY <1>1, <2>1, <2>2 DEF Busy, SecondInv
<1>3. p.min \in Nat /\ p.cap \in Nat /\ p.keep \in BOOLEAN
  BY <1>2 DEF Limits
<1>4. Lists(found', <<>>, W, p.cap)
  BY <1>1, SecondTurnLists
<1>5. W \subseteq Wanted /\ (i = g.n => W = Wanted)
  <2>1. W \subseteq Wanted
    BY DEF WantedInside
  <2>2. ASSUME i = g.n, NEW S \in Wanted PROVE S \in W
    <3>1. S \subseteq Vertices(g)
      BY <1>2 DEF Fit, Joined
    <3>2. S \subseteq Images(table, 1 .. i)
      BY <1>2, <2>2, <3>1, TableOnto
    <3> QED  BY <3>2 DEF WantedInside
  <2> QED  BY <2>1, <2>2
<1> HIDE DEF uw, W, bound
<1>6. /\ Len(found') \in Nat /\ found' \in Seq(SUBSET Vertices(g))
      /\ ToSet(found') \subseteq W /\ (~stop => ToSet(found') = W)
      /\ (Stopped(p, found') <=> stop)
  <2>1. ToSet(<<>>) = {}
    BY DEF ToSet
  <2>2. /\ found' \in Seq(SUBSET Vertices(g)) /\ ToSet(found') \subseteq ToSet(<<>>) \cup W
        /\ Len(found') <= p.cap => ToSet(found') = ToSet(<<>>) \cup W
    BY <1>4 DEF Lists
  <2>3. Len(found') \in Nat
    BY <2>2
  <2>4. Stopped(p, found') <=> ~(Len(found') <= p.cap)
    BY <1>3, <2>3 DEF Stopped
  <2> QED  BY <2>1, <2>2, <2>3, <2>4
<1>7. found' # <<>> => found'[1] \in ToSet(found') /\ found'[1] \in SUBSET Vertices(g)
  <2> SUFFICES ASSUME found' # <<>>
               PROVE  found'[1] \in ToSet(found') /\ found'[1] \in SUBSET Vertices(g)
    OBVIOUS
  <2>1. 1 \in 1 .. Len(found')
    BY <1>6
  <2> QED  BY <1>6, <2>1 DEF ToSet
<1>8. clique' \in MaybeClique
  BY <1>1, <1>2, <1>7 DEF MaybeClique
<1>9. /\ sizes' \in [Vertices(g) -> Nat] /\ sizes'[table[i]] = p.min
      /\ \A l \in 1 .. g.n : l # i => sizes'[table[l]] = sizes[table[l]]
  <2>1. Ready /\ sizes \in [Vertices(g) -> Nat] /\ i \in 1 .. g.n /\ p.min \in Nat
    BY <1>2, <1>3
  <2>2. sizes' = [sizes EXCEPT ![table[i]] = p.min]
    BY <1>1
  <2> QED  BY <2>1, <2>2, OtherSizes
<1>10. CASE i # g.n /\ ~stop
  <2>1. mode' = "second" /\ i' \in 1 .. g.n /\ i' - 1 = i
    BY <1>1, <1>2, <1>6, <1>10
  <2>2. Prunes(g, uw, bound, table, sizes', i)
    <3> SUFFICES ASSUME NEW k \in 1 .. i
                 PROVE  /\ sizes'[table[k]] \in Nat
                        /\ \A C : Joined(g, C) /\ C \subseteq Images(table, 1 .. k)
                                  => Value(g, uw, C) <= sizes'[table[k]] \/ sizes'[table[k]] >= bound
      BY DEF Prunes
    <3>1. CASE k = i
      <4>1. p.min >= bound
        BY <1>3 DEF bound
      <4> QED  BY <1>3, <1>9, <3>1, <4>1
    <3>2. CASE k # i
      <4>1. k \in 1 .. i - 1 /\ k \in 1 .. g.n
        BY <1>2, <3>2
      <4>2. sizes'[table[k]] = sizes[table[k]]
        BY <1>9, <3>2, <4>1
      <4> QED  BY <1>2, <4>1, <4>2 DEF Prunes
    <3> QED  BY <3>1, <3>2
  <2>3. SecondInv'
    <3>1. Unweighted(call)' = uw /\ Wanted' = Wanted
      BY <1>1, Stays DEF uw
    <3>2. (\A S : S \in Wanted <=> Fit(g, Unweighted(call), p, S))'
      BY <1>1, <1>2, <3>1
    <3>3. Prunes(g, Unweighted(call), IF Unweighted(call) THEN p.min ELSE p.min - 1, table, sizes, i - 1)'
      BY <1>1, <2>1, <2>2, <3>1 DEF bound
    <3>4. Lists(found, <<>>, WantedInside(table, i - 1, Wanted), p.cap)'
      <4>1. WantedInside(table, i - 1, Wanted)' = W
        BY <1>1, <2>1, <3>1 DEF WantedInside, W
      <4> QED  BY <1>1, <1>4, <4>1 DEF Lists
    <3>5. p' \in Limits /\ Limits' = Limits
      BY <1>1, <1>2 DEF Limits
    <3> QED  BY <1>1, <1>2, <1>10, <2>1, <3>2, <3>3, <3>4, <3>5 DEF SecondInv
  <2> QED  BY <1>1, <1>8, <1>9, <2>1, <2>3, PhaseKeeps DEF Phases
<1>11. CASE i = g.n \/ stop
  <2>1. mode' = "done"
    BY <1>1, <1>6, <1>11
  <2>2. DoneInv'
    <3>1. CASE call.kind = "all"
      <4>1. p.cap = call.cap
        BY <1>2, <3>1
      <4>2. Lists(found', <<>>, Wanted, p.cap)
        <5>1. CASE stop
          BY <1>3, <1>4, <1>5, <5>1, ListsStopped
        <5>2. CASE ~stop
          BY <1>4, <1>5, <1>11, <5>2
        <5> QED  BY <5>1, <5>2
      <4>3. Wanted' = Wanted /\ call'.kind # "single"
        BY <1>1, <3>1, Stays
      <4>4. Lists(found, <<>>, Wanted, call.cap)'
        BY <1>1, <4>1, <4>2, <4>3 DEF Lists
      <4> QED  BY <4>3, <4>4 DEF DoneInv
    <3>2. CASE call.kind = "single"
      <4>1. p.cap = 0 /\ p.keep
        BY <1>2, <3>2
      <4>2. CASE found' # <<>>
        <5>1. clique' = found'[1] /\ found'[1] \in Wanted
          BY <1>1, <1>5, <1>6, <1>7, <4>1, <4>2
        <5> QED  BY <1>1, <3>2, <5>1, DoneSingle
      <4>3. CASE found' = <<>>
        <5>1. clique' = NoClique
          BY <1>1, <2>1, <4>1, <4>3
        <5>2. ~stop
          BY <4>1, <4>3
        <5>3. Wanted = {}
          <6>1. ToSet(<<>>) = {}
            BY DEF ToSet
          <6> QED  BY <1>5, <1>6, <1>11, <4>3, <5>2, <6>1
        <5> QED  BY <1>1, <3>2, <5>1, <5>3, DoneSingle
      <4> QED  BY <4>2, <4>3
    <3> QED  BY <1>2, <3>1, <3>2
  <2> QED  BY <1>1, <1>8, <1>9, <2>1, <2>2, PhaseKeeps DEF Phases
<1> QED  BY <1>10, <1>11

-----------------------------------------------------------------------------
(* What follows.                                                           *)

(* The search invariant is kept by every step, one that changes nothing    *)
(* included.                                                               *)
LEMMA NothingChanges == ASSUME SearchInv, UNCHANGED vars PROVE SearchInv'
<1>1. UNCHANGED <<g, mode, call, p, table, i, sizes, clique, found>>
  BY DEF vars, search
<1>2. Busy' = Busy /\ FirstInv' = FirstInv /\ JudgeInv' = JudgeInv /\ FailInv' = FailInv
      /\ SecondInv' = SecondInv /\ DoneInv' = DoneInv /\ GraphInv' = GraphInv
  <2>1. /\ Unweighted(call)' = Unweighted(call) /\ Given(call)' = Given(call)
        /\ Nothing(call)' = Nothing(call) /\ Wanted' = Wanted /\ Ready' = Ready
        /\ Light' = Light /\ MaybeClique' = MaybeClique
    BY <1>1, Stays
  <2>2. Busy' = Busy
    BY <1>1, <2>1 DEF Busy
  <2>3. Begun' = Begun
    BY <1>1, <2>1 DEF Begun
  <2>4. FirstInv' = FirstInv
    BY <1>1, <2>1, <2>3 DEF FirstInv
  <2>5. JudgeInv' = JudgeInv
    BY <1>1, <2>1, <2>3 DEF JudgeInv
  <2>6. FailInv' = FailInv
    BY <1>1, <2>1, <2>3 DEF FailInv
  <2>7. SecondInv' = SecondInv
    BY <1>1, <2>1 DEF SecondInv, Lists
  <2>8. DoneInv' = DoneInv
    BY <1>1, <2>1 DEF DoneInv, Lists
  <2>9. GraphInv' = GraphInv
    BY <1>1 DEF GraphInv
  <2> QED  BY <2>2, <2>4, <2>5, <2>6, <2>7, <2>8, <2>9
<1> QED  BY <1>1, <1>2 DEF SearchInv

(* So the invariant always holds.                                          *)
LEMMA AlwaysSearchInv == Spec => []SearchInv
<1>1. Init => SearchInv
  BY InitHolds
<1>2. SearchInv /\ [Next]_vars => SearchInv'
  <2> SUFFICES ASSUME SearchInv, [Next]_vars PROVE SearchInv'
    OBVIOUS
  <2>1. CASE (GraphNext \/ Reorder) /\ UNCHANGED search
    BY <2>1, GraphStepHolds
  <2>2. CASE \E c \in CALLS : Call(c)
    BY <2>2, CallHolds
  <2>3. CASE First
    BY <2>3, FirstHolds
  <2>4. CASE Judge
    BY <2>4, JudgeHolds
  <2>5. CASE Fail
    BY <2>5, FailHolds
  <2>6. CASE Second
    BY <2>6, SecondHolds
  <2>7. CASE Return
    BY <2>7, ReturnHolds
  <2>8. CASE UNCHANGED vars
    BY <2>8, NothingChanges
  <2> QED  BY <2>1, <2>2, <2>3, <2>4, <2>5, <2>6, <2>7, <2>8 DEF Next
<1> QED  BY <1>1, <1>2, PTL DEF Spec

(* A call never changes the graph it searches: every step is one of the    *)
(* graph's own or a step of a search, which leaves it as it is.            *)
THEOREM SearchesKeepGraph == Spec => GraphSpec
<1>1. Init => GraphInit
  BY DEF Init
<1>2. [Next]_vars => [GraphNext \/ Searching \/ \E order : Rename(order)]_<<g, mode>>
  <2> SUFFICES ASSUME [Next]_vars
               PROVE  GraphNext \/ Searching \/ (\E order : Rename(order)) \/ UNCHANGED <<g, mode>>
    OBVIOUS
  <2>1. CASE (GraphNext \/ Reorder) /\ UNCHANGED search
    BY <2>1 DEF Reorder
  <2>2. CASE \E c \in CALLS : Call(c)
    BY <2>2 DEF Call, At, Searching
  <2>3. CASE First
    BY <2>3 DEF First, UnweightedFirst, UnweightedNext, WeightedOne, WeightedFirst, WeightedNext, At, Searching
  <2>4. CASE Judge
    BY <2>4 DEF Judge, AcceptUnweighted, AcceptWeighted, Accept, List, At, Searching
  <2>5. CASE Fail
    BY <2>5 DEF Fail, At, Searching
  <2>6. CASE Second
    BY <2>6 DEF Second, At, Searching
  <2>7. CASE Return
    BY <2>7 DEF Return, At, Searching
  <2>8. CASE UNCHANGED vars
    BY <2>8 DEF vars
  <2> QED  BY <2>1, <2>2, <2>3, <2>4, <2>5, <2>6, <2>7, <2>8 DEF Next
<1> QED  BY <1>1, <1>2, PTL DEF Spec, GraphSpec

(* The cliques among the first vertices of the table.                      *)
LEMMA InsideIs ==
    ASSUME Ready, NEW k \in 1 .. g.n
    PROVE  \A S : S \in {C \in Cliques : C \subseteq VerticesAt(1 .. k)}
                  <=> Inside(g, table, k, S) /\ S # {}
<1>1. VerticesAt(1 .. k) = Images(table, 1 .. k)
  BY DEF VerticesAt, Images
<1>2. \A S : S \in Cliques <=> Joined(g, S) /\ S # {}
  BY DEF Cliques, IsClique, Joined
<1> QED  BY <1>1, <1>2 DEF Inside

(* An exact entry is the heaviest of them, cut at the bound.               *)
LEMMA HeaviestInside ==
    ASSUME Ready, Light, NEW k \in 1 .. g.n, NEW least \in Nat, NEW H, NEW s,
           Exact(g, Unweighted(call), least, table, s, k),
           \A x : x \in H <=> \E S : Inside(g, table, k, S) /\ S # {}
                                     /\ x = Value(g, Unweighted(call), S)
    PROVE  s[table[k]] = IF least > 0 /\ ~Unweighted(call) THEN Min({Max(H), least - 1}) ELSE Max(H)
<1> DEFINE uw == Unweighted(call)
           x == s[table[k]]
           most == Max(H)
<1>1. \A S : Inside(g, table, k, S) =>
        Value(g, uw, S) \in Nat /\ Value(g, uw, S) < INT_MAX
  BY ValuesBelow DEF Inside
<1>2. H \subseteq 0 .. INT_MAX /\ INT_MAX \in Nat
  BY <1>1, IntMax
<1>3. /\ x \in Nat \ {0}
      /\ \A C : Inside(g, table, k, C) => Value(g, uw, C) <= x \/ (~uw /\ least > 0 /\ x = least - 1)
      /\ ~uw /\ least > 0 => x <= least - 1
      /\ \E C : Inside(g, table, k, C) /\ C # {} /\ x <= Value(g, uw, C)
  BY DEF Exact
<1>4. \E y \in H : x <= y
  BY <1>3
<1>5. \A y \in H : y <= x \/ (~uw /\ least > 0 /\ x = least - 1)
  BY <1>3
<1> HIDE DEF most
<1>6. most \in H /\ \A y \in H : most >= y
  BY <1>2, <1>4, GreatestOf DEF most
<1> HIDE DEF uw, x
<1>7. most \in Nat /\ x <= most
  BY <1>2, <1>3, <1>4, <1>6
<1>8. CASE least > 0 /\ ~uw
  <2> DEFINE P == {most, least - 1}
  <2>1. P \subseteq Nat /\ P # {}
    BY <1>7, <1>8
  <2>2. Min(P) \in P /\ \A y \in P : Min(P) <= y
    BY <2>1, LeastOf
  <2>3. x <= least - 1 /\ (most <= x \/ x = least - 1)
    BY <1>3, <1>5, <1>6, <1>8
  <2>4. Min(P) = most \/ Min(P) = least - 1
    BY <2>2
  <2>5. Min(P) <= most /\ Min(P) <= least - 1
    BY <2>2
  <2> HIDE DEF P
  <2>6. x = Min(P)
    BY <1>3, <1>7, <1>8, <2>3, <2>4, <2>5
  <2> QED  BY <1>8, <2>6 DEF P, uw, x, most
<1>9. CASE ~(least > 0 /\ ~uw)
  <2>1. most <= x
    BY <1>5, <1>6, <1>9
  <2>2. x = most
    BY <1>3, <1>7, <2>1
  <2> QED  BY <1>9, <2>2 DEF uw, x, most
<1> QED  BY <1>8, <1>9

(* The sizes of the first pass are exact.                                  *)
LEMMA SizesFollow == SearchInv => SizesAreExact
<1> SUFFICES ASSUME SearchInv, At("first"), i > 1 PROVE SizesAreExact
  BY DEF SizesAreExact
<1> DEFINE uw == Unweighted(call)
           inside(k) == {S \in Cliques : S \subseteq VerticesAt(1 .. k)}
           own(S) == IF Unweighted(call) THEN Cardinality(S) ELSE Weight(S)
           H(k) == {own(S) : S \in inside(k)}
<1>1. /\ Busy /\ Begun /\ i \in 2 .. g.n
      /\ \A k \in 1 .. i - 1 : Exact(g, uw, p.min, table, sizes, k)
      /\ uw \/ p.min = 0 => Best(g, uw, table, sizes, i - 1, clique)
  BY DEF SearchInv, At, Phases, FirstInv
<1>2. Ready /\ Light /\ g.n \in Nat /\ p.min \in Nat
  BY <1>1, Limited DEF Busy, Ready, Limits
<1>3. \A S : own(S) = Value(g, uw, S)
  BY DEF Value, Weight
<1>4. ASSUME NEW k \in 1 .. i - 1
      PROVE  /\ sizes[table[k]] = IF p.min > 0 /\ ~uw THEN Min({Max(H(k)), p.min - 1}) ELSE Max(H(k))
             /\ k = i - 1 /\ p.min = 0 => clique \in inside(k) /\ own(clique) = Max(H(k))
  <2>1. k \in 1 .. g.n /\ Exact(g, uw, p.min, table, sizes, k)
    BY <1>1, <1>2
  <2>2. \A S : S \in inside(k) <=> Inside(g, table, k, S) /\ S # {}
    BY <1>2, <2>1, InsideIs
  <2>3. \A x : x \in H(k) <=> \E S : Inside(g, table, k, S) /\ S # {} /\ x = Value(g, uw, S)
    BY <1>3, <2>2
  <2> DEFINE K == H(k)
  <2> HIDE DEF K, H, inside, own
  <2>4. sizes[table[k]] = IF p.min > 0 /\ ~uw THEN Min({Max(K), p.min - 1}) ELSE Max(K)
    BY <1>2, <2>1, <2>3, HeaviestInside DEF K
  <2>5. ASSUME k = i - 1, p.min = 0 PROVE clique \in inside(k) /\ own(clique) = Max(K)
    <3>1. Inside(g, table, k, clique) /\ clique # {} /\ Value(g, uw, clique) = sizes[table[k]]
      BY <1>1, <2>5 DEF Best
    <3>2. sizes[table[k]] = Max(K)
      BY <2>4, <2>5
    <3> QED  BY <1>3, <2>2, <3>1, <3>2
  <2> QED  BY <2>4, <2>5 DEF K
<1> QED  BY <1>4 DEF SizesAreExact

(* What the first phase has learned of every prefix is exact.              *)
THEOREM SizesExact == Spec => []SizesAreExact
BY AlwaysSearchInv, SizesFollow, PTL

(* A list without repetition has as many entries as values.                *)
LEMMA OnceCounts ==
    ASSUME NEW B, NEW R \in Seq(B), Once(R)
    PROVE  /\ IsFiniteSet(ToSet(R)) /\ Len(R) = Cardinality(ToSet(R)) /\ Len(R) \in Nat
<1> DEFINE n == Len(R)
           I == 1 .. n
<1>1. n \in Nat /\ DOMAIN R = I
  OBVIOUS
<1>2. IsFiniteSet(I) /\ Cardinality(I) = n
  <2>1. IsFiniteSet(I) /\ Cardinality(I) = IF 1 > n THEN 0 ELSE n - 1 + 1
    BY <1>1, FS_Interval
  <2> QED  BY <1>1, <2>1
<1>3. R \in [I -> ToSet(R)] /\ R = [k \in I |-> R[k]]
  BY <1>1 DEF ToSet
<1>4. R \in Surjection(I, ToSet(R))
  BY <1>1, <1>3 DEF Surjection, ToSet
<1>5. R \in Injection(I, ToSet(R))
  BY <1>1, <1>3 DEF Injection, IsInjective, Once
<1> HIDE DEF n, I
<1>6. IsFiniteSet(ToSet(R)) /\ Cardinality(ToSet(R)) = Cardinality(I)
  BY <1>2, <1>4, <1>5, FS_Surjection
<1> QED  BY <1>1, <1>2, <1>6 DEF n

(* The answers are right.                                                  *)
LEMMA AnswersFollow == SearchInv => AnswersAreRight
<1> SUFFICES ASSUME SearchInv, At("done") PROVE AnswersAreRight
  BY DEF AnswersAreRight
<1>1. Busy /\ DoneInv
  BY DEF SearchInv, At, Phases
<1>2. Whole(g) /\ call.cap \in Nat
  BY <1>1, CallIs, SearchAssumption DEF Busy, Ready
<1>3. ASSUME call.kind = "all"
      PROVE  /\ Len(found) = Cardinality(ToSet(found)) /\ ToSet(found) \subseteq Wanted
             /\ Len(found) = Min({Cardinality(Wanted), call.cap + 1})
  <2> DEFINE n == Len(found)
             m == Cardinality(Wanted)
             P == {m, call.cap + 1}
  <2>1. /\ found \in Seq(SUBSET Vertices(g)) /\ Once(found) /\ n <= call.cap + 1
        /\ ToSet(found) \subseteq Wanted
        /\ n <= call.cap => ToSet(found) = Wanted
    <3>1. ToSet(<<>>) = {}
      BY DEF ToSet
    <3> QED  BY <1>1, <1>3, <3>1 DEF DoneInv, Lists
  <2>2. IsFiniteSet(ToSet(found)) /\ n = Cardinality(ToSet(found)) /\ n \in Nat
    BY <2>1, OnceCounts
  <2>3. IsFiniteSet(Wanted) /\ m \in Nat
    <3>1. IsFiniteSet(Vertices(g))
      BY <1>2, Sizes
    <3>2. IsFiniteSet(SUBSET Vertices(g))
      BY <3>1, FS_SUBSET
    <3>3. Wanted \in SUBSET (SUBSET Vertices(g))
      BY DEF Wanted, Cliques
    <3> QED  BY <3>2, <3>3, FS_Subset, FS_CardinalityType
  <2>4. n <= m
    BY <2>1, <2>2, <2>3, FS_Subset
  <2>5. n <= call.cap => n = m
    BY <2>1, <2>2
  <2>6. P \subseteq Nat /\ P # {}
    BY <1>2, <2>3
  <2>7. Min(P) \in P /\ \A y \in P : Min(P) <= y
    BY <2>6, LeastOf
  <2>8. (Min(P) = m \/ Min(P) = call.cap + 1) /\ Min(P) <= m /\ Min(P) <= call.cap + 1
    BY <2>7
  <2> HIDE DEF P, m, n
  <2>9. n = Min(P)
    BY <1>2, <2>1, <2>2, <2>3, <2>4, <2>5, <2>8
  <2> QED  BY <2>1, <2>2, <2>9 DEF P, m, n
<1>4. call.kind = "single" => IF Wanted = {} THEN clique = NoClique ELSE clique \in Wanted
  BY <1>1 DEF DoneInv
<1> QED  BY <1>3, <1>4 DEF AnswersAreRight

(* Every call answers as if it had looked at all cliques: a single clique  *)
(* is one of those asked for or there is none, the number of cliques found *)
(* is that of the cliques asked for, up to what the callback or the list   *)
(* stops at, and none is met twice (cliquer.c).                            *)
THEOREM AnswersRight == Spec => []AnswersAreRight
BY AlwaysSearchInv, AnswersFollow, PTL

(* What is shown of graphs holds while searches run between the edits: a   *)
(* search hands back the graph it was given (cliquer.c).                   *)
THEOREM SearchedGraphsAreWhole == Spec => []GraphsStayWhole
BY SearchesKeepGraph, GraphsAreWhole, PTL

(* And so are its copies, by file or by reordering, the graph it was.      *)
THEOREM SearchedCopiesAreSame == Spec => []CopiesAreSame
BY SearchesKeepGraph, CopiesSame, PTL
=============================================================================
