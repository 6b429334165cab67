------------------------- MODULE CliquerGraphProofs -------------------------
(***************************************************************************)
(* The graphs of the clique library stay whole, for any length of the      *)
(* words their sets are kept in and any number of vertices; every order    *)
(* the library reorders by is one, and a graph written to a file is read   *)
(* back as it was.                                                         *)
(*                                                                         *)
(* A recursive function is proved about in two parts: that it exists, by   *)
(* giving the states of its loop, and that its states have a property, by  *)
(* induction over a set of numbers.                                        *)
(***************************************************************************)
EXTENDS VertexOrders, FiniteSetTheorems, WellFoundedInduction, TLAPS

-----------------------------------------------------------------------------
(* Words.  Word and place of a bit, and the end of the last word.          *)
LEMMA Times ==
    ASSUME NEW a \in Int, NEW b \in Int, a < b
    PROVE  a * ELEMENTSIZE + ELEMENTSIZE <= b * ELEMENTSIZE
BY CliquerAssumption

(* Where a bit lies: its word, and its place in the word.                  *)
LEMMA Place ==
    ASSUME NEW a \in Int
    PROVE  /\ a \div ELEMENTSIZE \in Int /\ a % ELEMENTSIZE \in 0 .. ELEMENTSIZE - 1
           /\ a = (a \div ELEMENTSIZE) * ELEMENTSIZE + (a % ELEMENTSIZE)
BY CliquerAssumption

(* A bit has one such place only.                                          *)
LEMMA PlaceIs ==
    ASSUME NEW a \in Int, NEW w \in Int, NEW r \in 0 .. ELEMENTSIZE - 1, a = w * ELEMENTSIZE + r
    PROVE  a \div ELEMENTSIZE = w /\ a % ELEMENTSIZE = r
<1> USE CliquerAssumption
<1>1. /\ a \div ELEMENTSIZE \in Int /\ a % ELEMENTSIZE \in 0 .. ELEMENTSIZE - 1
      /\ a = (a \div ELEMENTSIZE) * ELEMENTSIZE + (a % ELEMENTSIZE)
  BY Place
<1>2. ~(w < a \div ELEMENTSIZE)
  BY <1>1, Times
<1>3. ~(a \div ELEMENTSIZE < w)
  BY <1>1, Times
<1> QED  BY <1>1, <1>2, <1>3

(* The end of the last word of a set of n elements lies at n or beyond it, *)
(* by less than a word.                                                    *)
LEMMA Ceiling ==
    ASSUME NEW n \in Nat
    PROVE  LET words == (n + ELEMENTSIZE - 1) \div ELEMENTSIZE
           IN /\ words \in Nat
              /\ words * ELEMENTSIZE \in n .. n + ELEMENTSIZE - 1
              /\ words = (n - 1) \div ELEMENTSIZE + 1
<1> USE CliquerAssumption
<1> DEFINE up == n + ELEMENTSIZE - 1
           w == up \div ELEMENTSIZE
           r == up % ELEMENTSIZE
<1>1. /\ w \in Int /\ r \in 0 .. ELEMENTSIZE - 1
      /\ up = w * ELEMENTSIZE + r
  <2>1. up \in Int
    OBVIOUS
  <2> HIDE DEF up
  <2> QED  BY <2>1, Place
<1>2. w * ELEMENTSIZE \in n .. n + ELEMENTSIZE - 1
  <2> HIDE DEF w, r
  <2>1. w * ELEMENTSIZE \in Int
    BY <1>1
  <2> QED  BY <1>1, <2>1
<1>3. w \in Nat
  <2> HIDE DEF w, r
  <2>1. ~(w < 0)
    BY <1>1, <1>2, Times
  <2> QED  BY <1>1, <2>1
<1>4. (n - 1) \div ELEMENTSIZE = w - 1
  <2>1. n - 1 = (w - 1) * ELEMENTSIZE + r
    <3> HIDE DEF w, r
    <3> QED  BY <1>1
  <2> HIDE DEF w, r
  <2> QED  BY <1>1, <2>1, PlaceIs
<1> QED  BY <1>2, <1>3, <1>4

(* A set of n elements whose words hold nothing beyond them.  What lies    *)
(* behind its words is left open.                                          *)
IsSet(s, n) ==
    /\ s \in [max : Nat, bits : SUBSET Nat] /\ s.max = n
    /\ \A b \in InWords(s, ArrayLength(s)) : b < n

(* The words allocated for a set hold its members and nothing behind them. *)
LEMMA Words ==
    ASSUME NEW n \in Nat, NEW s, IsSet(s, n)
    PROVE  /\ ArrayLength(s) \in Nat
           /\ ArrayLength(s) * ELEMENTSIZE \in n .. n + ELEMENTSIZE - 1
           /\ InWords(s, ArrayLength(s)) = {b \in s.bits : b < n}
           /\ Members(s) = {b \in s.bits : b < n}
<1>1. /\ ArrayLength(s) \in Nat
      /\ ArrayLength(s) * ELEMENTSIZE \in n .. n + ELEMENTSIZE - 1
  BY Ceiling DEF IsSet, ArrayLength
<1>2. /\ s.bits \subseteq Nat /\ s.max = n
      /\ \A b \in InWords(s, ArrayLength(s)) : b < n
  BY DEF IsSet
<1>3. InWords(s, ArrayLength(s)) = {b \in s.bits : b < n}
  <2>1. \A b \in s.bits : b < n => b < ArrayLength(s) * ELEMENTSIZE
    BY <1>1, <1>2
  <2> QED  BY <1>2, <2>1 DEF InWords
<1>4. Members(s) = {b \in s.bits : b < n}
  BY <1>2 DEF Members, SetContains
<1> QED  BY <1>1, <1>3, <1>4

(* set_new gives an empty set.                                             *)
LEMMA NewSet ==
    ASSUME NEW n \in Nat
    PROVE  IsSet(SetNew(n), n) /\ SetNew(n).bits = {}
BY DEF IsSet, SetNew, InWords

(* SET_ADD_ELEMENT and SET_DEL_ELEMENT change one member.                  *)
LEMMA AddToSet ==
    ASSUME NEW n \in Nat, NEW s, IsSet(s, n), NEW v \in 0 .. n - 1
    PROVE  /\ IsSet(SetAdd(s, v), n) /\ SetAdd(s, v).bits = s.bits \cup {v}
           /\ IsSet(SetDel(s, v), n) /\ SetDel(s, v).bits = s.bits \ {v}
BY DEF IsSet, SetAdd, SetDel, InWords, ArrayLength

(* Resizing: whatever is left behind in the words, the elements that stay  *)
(* are the same and the new ones are not in the set.                       *)
LEMMA ResizedSet ==
    ASSUME NEW m \in Nat, NEW s, IsSet(s, m), NEW size \in Nat \ {0}
    PROVE  /\ IsSet(SetResize(s, size), size)
           /\ \A b \in 0 .. size - 1 :
                 b \in SetResize(s, size).bits <=> b < m /\ b \in s.bits
<1> USE CliquerAssumption
<1> DEFINE t == SetResize(s, size)
           n == size \div ELEMENTSIZE + 1
           allocated == InWords(s, n)
           zeroed == IF n > ArrayLength(s) THEN InWords(s, ArrayLength(s)) ELSE allocated
           last == (size - 1) \div ELEMENTSIZE
           shift == (ELEMENTSIZE - (size % ELEMENTSIZE)) % ELEMENTSIZE
           cut == {b \in zeroed : \/ b \div ELEMENTSIZE # last
                                  \/ b % ELEMENTSIZE < ELEMENTSIZE - shift}
<1>1. t = [max |-> size, bits |-> IF size < m THEN cut ELSE zeroed]
  BY DEF SetResize, IsSet
<1>2. s.bits \subseteq Nat /\ zeroed \subseteq s.bits
  BY DEF IsSet, InWords
<1>3. ArrayLength(s) \in Nat /\ ArrayLength(s) * ELEMENTSIZE \in m .. m + ELEMENTSIZE - 1
      /\ InWords(s, ArrayLength(s)) = {b \in s.bits : b < m}
  BY Words
<1>4. n \in Int /\ size < n * ELEMENTSIZE
  <2>1. /\ size \div ELEMENTSIZE \in Int /\ size % ELEMENTSIZE \in 0 .. ELEMENTSIZE - 1
        /\ size = (size \div ELEMENTSIZE) * ELEMENTSIZE + (size % ELEMENTSIZE)
    BY Place
  <2> QED  BY <2>1
<1>5. last \in Int /\ last + 1 = ArrayLength(t)
  <2>1. ArrayLength(t) = (size + ELEMENTSIZE - 1) \div ELEMENTSIZE
    BY <1>1 DEF ArrayLength
  <2>2. (size + ELEMENTSIZE - 1) \div ELEMENTSIZE = last + 1
    BY Ceiling
  <2>3. last \in Int
    <3> DEFINE top == size - 1
    <3>1. top \in Int
      OBVIOUS
    <3> HIDE DEF top
    <3>2. top \div ELEMENTSIZE \in Int
      BY <3>1, Place
    <3> QED  BY <3>2 DEF top
  <2> QED  BY <2>1, <2>2, <2>3
<1>6. ELEMENTSIZE - shift = ((size - 1) % ELEMENTSIZE) + 1
  <2> DEFINE w == (size - 1) \div ELEMENTSIZE
             r == (size - 1) % ELEMENTSIZE
  <2>1. w \in Int /\ r \in 0 .. ELEMENTSIZE - 1 /\ size - 1 = w * ELEMENTSIZE + r
    BY Place
  <2> HIDE DEF w, r
  <2>2. CASE r = ELEMENTSIZE - 1
    <3>1. size = (w + 1) * ELEMENTSIZE + 0 /\ w + 1 \in Int /\ 0 \in 0 .. ELEMENTSIZE - 1
      BY <2>1, <2>2
    <3>2. size % ELEMENTSIZE = 0
      <4> DEFINE next == w + 1
      <4>1. size = next * ELEMENTSIZE + 0 /\ next \in Int /\ 0 \in 0 .. ELEMENTSIZE - 1
        BY <3>1
      <4> HIDE DEF next
      <4> QED  BY <4>1, PlaceIs
    <3>3. ELEMENTSIZE = 1 * ELEMENTSIZE + 0
      BY CliquerAssumption
    <3>4. ELEMENTSIZE % ELEMENTSIZE = 0
      BY <3>1, <3>3, PlaceIs
    <3> QED  BY <2>2, <3>2, <3>4 DEF r
  <2>3. CASE r # ELEMENTSIZE - 1
    <3>1. size = w * ELEMENTSIZE + (r + 1) /\ r + 1 \in 0 .. ELEMENTSIZE - 1
      BY <2>1, <2>3
    <3>2. size % ELEMENTSIZE = r + 1
      BY <2>1, <3>1, PlaceIs
    <3>3. ELEMENTSIZE - (r + 1) = 0 * ELEMENTSIZE + (ELEMENTSIZE - (r + 1))
          /\ ELEMENTSIZE - (r + 1) \in 0 .. ELEMENTSIZE - 1
      BY <2>1, <2>3
    <3>4. (ELEMENTSIZE - (r + 1)) % ELEMENTSIZE = ELEMENTSIZE - (r + 1)
      BY <3>3, PlaceIs
    <3> QED  BY <2>1, <3>2, <3>4 DEF r
  <2> QED  BY <2>2, <2>3
<1>7. \A b \in s.bits : b < m /\ b < size => b \in zeroed
  BY <1>2, <1>3, <1>4 DEF InWords
<1>8. ASSUME NEW b \in Nat
      PROVE  b <= size - 1 <=> \/ b \div ELEMENTSIZE < last
                               \/ b \div ELEMENTSIZE = last /\ b % ELEMENTSIZE < ELEMENTSIZE - shift
  <2> DEFINE w == b \div ELEMENTSIZE
             r == b % ELEMENTSIZE
             k == (size - 1) % ELEMENTSIZE
  <2>1. /\ w \in Int /\ r \in 0 .. ELEMENTSIZE - 1 /\ b = w * ELEMENTSIZE + r
        /\ k \in 0 .. ELEMENTSIZE - 1 /\ size - 1 = last * ELEMENTSIZE + k
    BY Place
  <2> HIDE DEF w, r, k, last, shift
  <2>2. /\ w < last => w * ELEMENTSIZE + ELEMENTSIZE <= last * ELEMENTSIZE
        /\ last < w => last * ELEMENTSIZE + ELEMENTSIZE <= w * ELEMENTSIZE
    BY <1>5, <2>1, Times
  <2>3. w * ELEMENTSIZE \in Int /\ last * ELEMENTSIZE \in Int
    BY <1>5, <2>1
  <2>4. CASE w = last
    BY <1>6, <2>1, <2>3, <2>4 DEF w, r, k
  <2>5. CASE w # last
    BY <1>5, <2>1, <2>2, <2>3, <2>5 DEF w
  <2> QED  BY <2>4, <2>5
<1>9. CASE size < m
  <2>1. t.bits = cut /\ t.max = size
    BY <1>1, <1>9
  <2>2. \A b \in 0 .. size - 1 : b \in cut <=> b \in zeroed
    <3> HIDE DEF zeroed, last, shift
    <3> QED  BY <1>5, <1>8
  <2>3. ASSUME NEW b \in cut, b < ArrayLength(t) * ELEMENTSIZE PROVE b < size
    <3>1. b \in Nat /\ b \div ELEMENTSIZE \in Int
      BY <1>2, Place
    <3>2. b = (b \div ELEMENTSIZE) * ELEMENTSIZE + (b % ELEMENTSIZE)
          /\ b % ELEMENTSIZE \in 0 .. ELEMENTSIZE - 1
      BY <3>1, Place
    <3>3. ~(last + 1 <= b \div ELEMENTSIZE)
      <4> HIDE DEF last
      <4>1. last < b \div ELEMENTSIZE =>
              last * ELEMENTSIZE + ELEMENTSIZE <= (b \div ELEMENTSIZE) * ELEMENTSIZE
        BY <1>5, <3>1, Times
      <4>2. (last + 1) * ELEMENTSIZE = last * ELEMENTSIZE + ELEMENTSIZE
        BY <1>5
      <4>3. (b \div ELEMENTSIZE) * ELEMENTSIZE \in Int /\ last * ELEMENTSIZE \in Int
        BY <1>5, <3>1
      <4> QED  BY <1>5, <2>3, <3>1, <3>2, <4>1, <4>2, <4>3
    <3>4. b \div ELEMENTSIZE # last \/ b % ELEMENTSIZE < ELEMENTSIZE - shift
      BY <2>3
    <3> HIDE DEF last, shift
    <3> QED  BY <1>5, <1>8, <3>1, <3>3, <3>4
  <2> HIDE DEF cut, zeroed, t
  <2>4. cut \subseteq zeroed
    BY DEF cut
  <2>5. IsSet(t, size)
    BY <1>1, <1>2, <1>9, <2>1, <2>3, <2>4 DEF IsSet, InWords
  <2>6. \A b \in 0 .. size - 1 : b \in zeroed <=> b < m /\ b \in s.bits
    BY <1>2, <1>7, <1>9
  <2> QED  BY <2>1, <2>2, <2>5, <2>6 DEF t
<1>10. CASE ~(size < m)
  <2>1. t = [max |-> size, bits |-> zeroed]
    BY <1>1, <1>10
  <2>2. \A b \in zeroed : b < m
    <3>1. CASE n > ArrayLength(s)
      BY <1>3, <3>1
    <3>2. CASE ~(n > ArrayLength(s))
      <4> HIDE DEF n
      <4>1. n <= ArrayLength(s)
        BY <1>3, <1>4, <3>2
      <4>2. n * ELEMENTSIZE <= ArrayLength(s) * ELEMENTSIZE
        BY <1>3, <1>4, <4>1, Times
      <4>3. n * ELEMENTSIZE \in Int /\ ArrayLength(s) * ELEMENTSIZE \in Int
        BY <1>3, <1>4
      <4>4. zeroed \subseteq InWords(s, ArrayLength(s))
        BY <1>2, <3>2, <4>2, <4>3 DEF InWords
      <4> QED  BY <1>3, <4>4
    <3> QED  BY <3>1, <3>2
  <2> HIDE DEF zeroed, t
  <2>3. IsSet(t, size)
    BY <1>2, <1>10, <2>1, <2>2 DEF IsSet, InWords
  <2> QED  BY <1>2, <1>7, <1>10, <2>1, <2>2, <2>3 DEF t
<1> QED  BY <1>9, <1>10
-----------------------------------------------------------------------------
(* Least and greatest elements: Nat's order is well-founded.               *)
LEMMA LeastOf ==
    ASSUME NEW T, T \subseteq Nat, T # {}
    PROVE  Min(T) \in T /\ \A y \in T : Min(T) <= y
<1>1. PICK x \in T : \A y \in T : <<y, x>> \notin OpToRel(<, Nat)
  BY NatLessThanWellFounded, WFMin
<1>2. \A y, z \in Nat : y < z => <<y, z>> \in OpToRel(<, Nat)
  BY DEF OpToRel
<1>3. \A y \in T : x <= y
  <2>1. \A y \in T : ~(y < x)
    BY <1>1, <1>2
  <2> QED  BY <2>1
<1> QED  BY <1>3 DEF Min

(* A set of numbers up to n has a greatest.                                *)
LEMMA GreatestOf ==
    ASSUME NEW n \in Nat, NEW T, T \subseteq 0 .. n, T # {}
    PROVE  Max(T) \in T /\ \A y \in T : Max(T) >= y
<1> DEFINE Bounds == {k \in Nat : \A y \in T : y <= k}
<1>1. Bounds \subseteq Nat /\ n \in Bounds
  OBVIOUS
<1>2. PICK k \in Bounds : \A l \in Bounds : k <= l
  BY <1>1, LeastOf
<1>3. k \in T
  <2> SUFFICES ASSUME k \notin T PROVE FALSE
    OBVIOUS
  <2>1. \A y \in T : y \in Nat /\ y <= k /\ y # k
    BY <1>2
  <2>2. k - 1 \in Bounds
    <3>1. PICK y \in T : TRUE
      OBVIOUS
    <3>2. k \in Nat /\ y \in Nat /\ y < k
      BY <2>1, <3>1
    <3> QED  BY <2>1, <3>2
  <2> QED  BY <1>2, <2>2
<1> QED  BY <1>2, <1>3 DEF Max

-----------------------------------------------------------------------------
(* A walk: bit by bit to the end of the word, over empty words, bit by bit *)
(* again meets the next element of the set, wherever it is.                *)
LEMMA WalkMeetsNext ==
    ASSUME NEW m \in Nat, NEW s, IsSet(s, m), NEW n \in Int, n >= -1
    PROVE  SetReturnNext(s, n) = FirstOf({v \in Members(s) : v > n})
<1> USE CliquerAssumption
<1> DEFINE first == IF n < 0 THEN 0 ELSE n + 1
           words == (first + ELEMENTSIZE - 1) \div ELEMENTSIZE
           boundary == words * ELEMENTSIZE
           near == {v \in first .. boundary - 1 : SetContains(s, v)}
           Starts == {w \in boundary .. s.max - 1 :
                        w % ELEMENTSIZE = 0 /\ s.bits \intersect (w .. w + ELEMENTSIZE - 1) # {}}
           word == FirstOf(Starts)
           far == {v \in word .. s.max - 1 : SetContains(s, v)}
           After == {v \in Members(s) : v > n}
<1>1. s.max = m /\ Members(s) = {b \in s.bits : b < m} /\ s.bits \subseteq Nat
      /\ \A v \in Int : SetContains(s, v) <=> v \in Members(s)
  BY Words DEF IsSet, SetContains
<1>2. first = n + 1 /\ first \in Nat
  OBVIOUS
<1>3. words \in Nat /\ boundary \in Nat /\ first <= boundary
  <2> HIDE DEF first
  <2>1. words \in Nat /\ words * ELEMENTSIZE \in first .. first + ELEMENTSIZE - 1
    BY <1>2, Ceiling
  <2> HIDE DEF words
  <2> QED  BY <1>2, <2>1
<1>4. SetReturnNext(s, n) = IF near # {} THEN Min(near)
                            ELSE IF boundary >= s.max \/ word = -1 THEN -1 ELSE FirstOf(far)
  BY DEF SetReturnNext
<1> HIDE DEF words, first
<1>5. After \subseteq Nat /\ \A v \in After : v >= first
  BY <1>1, <1>2
<1>6. near = {v \in After : v < boundary}
  BY <1>1, <1>2, <1>3
<1>7. CASE near # {}
  <2>1. near \subseteq Nat /\ After # {}
    BY <1>5, <1>6, <1>7
  <2>2. Min(near) \in near /\ \A y \in near : Min(near) <= y
    BY <1>7, <2>1, LeastOf
  <2>3. Min(After) \in After /\ \A y \in After : Min(After) <= y
    BY <1>5, <2>1, LeastOf
  <2> HIDE DEF near, After, boundary
  <2>4. Min(near) = Min(After)
    <3> DEFINE a == Min(near)
               b == Min(After)
    <3>1. a \in After /\ a < boundary /\ a \in Nat /\ b \in After /\ b \in Nat /\ b <= a
      BY <1>5, <1>6, <2>2, <2>3
    <3> HIDE DEF a, b
    <3>2. b \in near
      BY <1>3, <1>6, <3>1
    <3>3. a <= b
      BY <2>2, <3>2 DEF a
    <3>4. a = b
      BY <3>1, <3>3
    <3> QED  BY <3>4 DEF a, b
  <2> QED  BY <1>4, <1>7, <2>1, <2>4 DEF FirstOf, After
<1>8. CASE near = {}
  <2>1. \A v \in After : v >= boundary /\ v < m
    BY <1>1, <1>3, <1>5, <1>6, <1>8
  <2>2. ASSUME NEW v \in After
        PROVE  (v \div ELEMENTSIZE) * ELEMENTSIZE \in Starts
               /\ (v \div ELEMENTSIZE) * ELEMENTSIZE <= v
    <3> DEFINE d == v \div ELEMENTSIZE
               r == v % ELEMENTSIZE
               w == d * ELEMENTSIZE
    <3>1. v \in Nat /\ v \in s.bits /\ boundary <= v /\ v < m
      BY <1>1, <2>1
    <3>2. d \in Int /\ r \in 0 .. ELEMENTSIZE - 1 /\ v = d * ELEMENTSIZE + r
      BY <3>1, Place
    <3> HIDE DEF d, r
    <3>3. w \in Int /\ w <= v /\ v <= w + ELEMENTSIZE - 1
      BY <3>2
    <3>4. ~(d < words)
      BY <1>3, <3>1, <3>2, <3>3, Times
    <3>5. words = d \/ words < d
      BY <1>3, <3>2, <3>4
    <3>6. boundary <= w
      <4>1. CASE words = d
        BY <3>3, <4>1
      <4>2. CASE words < d
        <5>1. words * ELEMENTSIZE + ELEMENTSIZE <= d * ELEMENTSIZE
          BY <1>3, <3>2, <4>2, Times
        <5> QED  BY <1>3, <3>3, <5>1
      <4> QED  BY <3>5, <4>1, <4>2
    <3>7. w % ELEMENTSIZE = 0
      <4>1. w = d * ELEMENTSIZE + 0 /\ 0 \in 0 .. ELEMENTSIZE - 1
        BY <3>2
      <4> HIDE DEF w
      <4> QED  BY <3>2, <3>3, <4>1, PlaceIs
    <3>8. v \in s.bits \intersect (w .. w + ELEMENTSIZE - 1)
      BY <3>1, <3>3
    <3> HIDE DEF w, boundary
    <3>9. w \in Starts
      BY <1>1, <1>3, <3>1, <3>3, <3>6, <3>7, <3>8
    <3> QED  BY <3>3, <3>9 DEF w, d
  <2> HIDE DEF boundary
  <2>3. Starts \subseteq Nat
    BY <1>1, <1>3
  <2>4. CASE Starts = {}
    <3>1. After = {}
      BY <2>2, <2>4
    <3> QED  BY <1>4, <1>8, <2>4, <3>1 DEF FirstOf
  <2>5. CASE Starts # {}
    <3>1. word \in Starts /\ \A w \in Starts : word <= w
      BY <2>3, <2>5, LeastOf DEF FirstOf
    <3>2. ~(boundary >= s.max) /\ word # -1 /\ word \in Nat /\ boundary <= word
      BY <1>1, <1>3, <3>1
    <3>3. SetReturnNext(s, n) = FirstOf(far)
      BY <1>4, <1>8, <3>2
    <3>4. \A v \in After : word <= v
      <4> SUFFICES ASSUME NEW v \in After PROVE word <= v
        OBVIOUS
      <4> DEFINE w == (v \div ELEMENTSIZE) * ELEMENTSIZE
      <4>1. w \in Starts /\ w <= v
        BY <2>2
      <4> HIDE DEF w, word, Starts, After
      <4>2. w \in Nat /\ word <= w /\ v \in Nat
        BY <1>5, <2>3, <3>1, <4>1
      <4> QED  BY <3>2, <4>1, <4>2
    <3>5. far = After
      <4> HIDE DEF word
      <4>1. \A v : v \in far => v \in After
        BY <1>1, <1>2, <1>3, <3>2
      <4>2. \A v : v \in After => v \in far
        BY <1>1, <1>5, <2>1, <3>2, <3>4
      <4> QED  BY <4>1, <4>2
    <3> QED  BY <3>3, <3>5
  <2> QED  BY <2>4, <2>5
<1> QED  BY <1>7, <1>8

-----------------------------------------------------------------------------
(* Graphs.  Whole: one set per vertex, symmetric and without loops.        *)
Sets == [max : Nat, bits : SUBSET Nat]
Whole(h) ==
    /\ h \in [n : Nat, edges : [0 .. h.n - 1 -> Sets], weights : [0 .. h.n - 1 -> Nat \ {0}]]
    /\ \A i \in 0 .. h.n - 1 : IsSet(h.edges[i], h.n)
    /\ \A i, j \in 0 .. h.n - 1 : j \in h.edges[i].bits => i # j /\ i \in h.edges[j].bits

(* An edge between two vertices is a bit, whatever the size of the set     *)
(* says.                                                                   *)
LEMMA EdgeIs ==
    ASSUME NEW h, Whole(h), NEW i \in 0 .. h.n - 1, NEW j \in 0 .. h.n - 1
    PROVE  IsEdge(h, i, j) <=> j \in h.edges[i].bits
BY DEF IsEdge, SetContains, Whole, IsSet

(* graph_new gives a whole graph.                                          *)
LEMMA NewIsWhole ==
    ASSUME NEW n \in Nat
    PROVE  Whole(GraphNew(n)) /\ GraphNew(n).n = n
<1>1. SetNew(n) \in Sets /\ IsSet(SetNew(n), n) /\ SetNew(n).bits = {}
  BY NewSet DEF Sets, SetNew
<1>2. /\ GraphNew(n).n = n
      /\ GraphNew(n).edges = [i \in 0 .. n - 1 |-> SetNew(n)]
      /\ GraphNew(n) \in [n : Nat, edges : [0 .. n - 1 -> Sets], weights : [0 .. n - 1 -> Nat \ {0}]]
  BY <1>1 DEF GraphNew
<1> QED  BY <1>1, <1>2 DEF Whole

(* h with another set for one vertex.                                      *)
With(h, i, s) == [h EXCEPT !.edges[i] = s]

(* Replacing the set of one vertex.                                        *)
LEMMA WithSet ==
    ASSUME NEW V, NEW h \in [n : Nat, edges : [V -> Sets], weights : [V -> Nat \ {0}]],
           NEW i \in V, NEW s \in Sets
    PROVE  /\ With(h, i, s) \in [n : Nat, edges : [V -> Sets], weights : [V -> Nat \ {0}]]
           /\ With(h, i, s).n = h.n
           /\ \A v \in V : With(h, i, s).edges[v] = IF v = i THEN s ELSE h.edges[v]
<1> DEFINE k == With(h, i, s)
<1>1. k.n = h.n /\ k.weights = h.weights /\ k.edges = [h.edges EXCEPT ![i] = s]
      /\ k = [n |-> k.n, edges |-> k.edges, weights |-> k.weights]
  BY DEF With
<1>2. h.edges \in [V -> Sets]
  OBVIOUS
<1> HIDE DEF k
<1>3. /\ k.edges \in [V -> Sets]
      /\ \A v \in V : k.edges[v] = IF v = i THEN s ELSE h.edges[v]
  BY <1>1, <1>2
<1> QED  BY <1>1, <1>3 DEF k

(* A new pair in both sets, or in neither.                                 *)
LEMMA BothSets ==
    ASSUME NEW h, Whole(h), NEW i \in 0 .. h.n - 1, NEW j \in 0 .. h.n - 1, i # j,
           NEW s, NEW t, IsSet(s, h.n), IsSet(t, h.n),
           \/ s.bits = h.edges[i].bits \cup {j} /\ t.bits = h.edges[j].bits \cup {i}
           \/ s.bits = h.edges[i].bits \ {j} /\ t.bits = h.edges[j].bits \ {i}
    PROVE  Whole(With(With(h, i, s), j, t)) /\ With(With(h, i, s), j, t).n = h.n
<1> DEFINE V == 0 .. h.n - 1
           once == With(h, i, s)
           k == With(once, j, t)
<1>1. /\ h \in [n : Nat, edges : [V -> Sets], weights : [V -> Nat \ {0}]]
      /\ \A v \in V : IsSet(h.edges[v], h.n)
      /\ \A v, w \in V : w \in h.edges[v].bits => v # w /\ v \in h.edges[w].bits
  BY DEF Whole
<1>2. s \in Sets /\ t \in Sets
  BY DEF IsSet, Sets
<1>3. /\ once \in [n : Nat, edges : [V -> Sets], weights : [V -> Nat \ {0}]]
      /\ once.n = h.n
      /\ \A v \in V : once.edges[v] = IF v = i THEN s ELSE h.edges[v]
  <2>1. i \in V
    OBVIOUS
  <2> HIDE DEF V
  <2> QED  BY <1>1, <1>2, <2>1, WithSet
<1> HIDE DEF once
<1>4. /\ k \in [n : Nat, edges : [V -> Sets], weights : [V -> Nat \ {0}]]
      /\ k.n = h.n
      /\ \A v \in V : k.edges[v] = IF v = j THEN t ELSE once.edges[v]
  <2>1. j \in V
    OBVIOUS
  <2> HIDE DEF V
  <2> QED  BY <1>2, <1>3, <2>1, WithSet
<1> HIDE DEF k
<1>5. \A v \in V : k.edges[v] = IF v = i THEN s ELSE IF v = j THEN t ELSE h.edges[v]
  BY <1>3, <1>4
<1>6. \A v \in V : IsSet(k.edges[v], k.n)
  BY <1>1, <1>4, <1>5
<1>7. \A v, w \in V : w \in k.edges[v].bits => v # w /\ v \in k.edges[w].bits
  <2> SUFFICES ASSUME NEW v \in V, NEW w \in V, w \in k.edges[v].bits
               PROVE  v # w /\ v \in k.edges[w].bits
    OBVIOUS
  <2>1. \A x \in V : k.edges[x].bits = IF x = i THEN s.bits ELSE IF x = j THEN t.bits
                                       ELSE h.edges[x].bits
    BY <1>5
  <2>2. w \in h.edges[v].bits => v # w /\ v \in h.edges[w].bits
    BY <1>1
  <2>3. CASE s.bits = h.edges[i].bits \cup {j} /\ t.bits = h.edges[j].bits \cup {i}
    BY <2>1, <2>2, <2>3
  <2>4. CASE s.bits = h.edges[i].bits \ {j} /\ t.bits = h.edges[j].bits \ {i}
    BY <2>1, <2>2, <2>4
  <2> QED  BY <2>3, <2>4
<1>8. Whole(k)
  BY <1>4, <1>6, <1>7 DEF Whole
<1> QED  BY <1>4, <1>8 DEF k, once

(* Adding or deleting an edge in both its sets keeps a graph whole.        *)
LEMMA EditsAreWhole ==
    ASSUME NEW h, Whole(h), NEW i \in 0 .. h.n - 1, NEW j \in 0 .. h.n - 1, i # j
    PROVE  /\ Whole(AddEdge(h, i, j)) /\ AddEdge(h, i, j).n = h.n
           /\ Whole(DelEdge(h, i, j)) /\ DelEdge(h, i, j).n = h.n
<1> DEFINE V == 0 .. h.n - 1
<1>1. /\ h \in [n : Nat, edges : [V -> Sets], weights : [V -> Nat \ {0}]]
      /\ \A v \in V : IsSet(h.edges[v], h.n)
  BY DEF Whole
<1>2. \A v \in V, w \in V :
         /\ IsSet(SetAdd(h.edges[v], w), h.n) /\ SetAdd(h.edges[v], w).bits = h.edges[v].bits \cup {w}
         /\ IsSet(SetDel(h.edges[v], w), h.n) /\ SetDel(h.edges[v], w).bits = h.edges[v].bits \ {w}
  BY <1>1, AddToSet
<1>3. \A s : IsSet(s, h.n) => s \in Sets
  BY DEF IsSet, Sets
<1>4. \A s \in Sets : With(h, i, s).edges[j] = h.edges[j]
  <2>1. i \in V /\ j \in V
    OBVIOUS
  <2> HIDE DEF V
  <2> QED  BY <1>1, <2>1, WithSet
<1>5. AddEdge(h, i, j) = With(With(h, i, SetAdd(h.edges[i], j)), j, SetAdd(h.edges[j], i))
  BY <1>2, <1>3, <1>4 DEF AddEdge, With
<1>6. DelEdge(h, i, j) = With(With(h, i, SetDel(h.edges[i], j)), j, SetDel(h.edges[j], i))
  BY <1>2, <1>3, <1>4 DEF DelEdge, With
<1>7. Whole(AddEdge(h, i, j)) /\ AddEdge(h, i, j).n = h.n
  <2> DEFINE s == SetAdd(h.edges[i], j)
             t == SetAdd(h.edges[j], i)
  <2>1. /\ IsSet(s, h.n) /\ s.bits = h.edges[i].bits \cup {j}
        /\ IsSet(t, h.n) /\ t.bits = h.edges[j].bits \cup {i}
    BY <1>2
  <2>2. AddEdge(h, i, j) = With(With(h, i, s), j, t)
    BY <1>5
  <2> HIDE DEF s, t
  <2> QED  BY <2>1, <2>2, BothSets
<1>8. Whole(DelEdge(h, i, j)) /\ DelEdge(h, i, j).n = h.n
  <2> DEFINE s == SetDel(h.edges[i], j)
             t == SetDel(h.edges[j], i)
  <2>1. /\ IsSet(s, h.n) /\ s.bits = h.edges[i].bits \ {j}
        /\ IsSet(t, h.n) /\ t.bits = h.edges[j].bits \ {i}
    BY <1>2
  <2>2. DelEdge(h, i, j) = With(With(h, i, s), j, t)
    BY <1>6
  <2> HIDE DEF s, t
  <2> QED  BY <2>1, <2>2, BothSets
<1> QED  BY <1>7, <1>8

(* So does a new weight above zero.                                        *)
LEMMA WeightKeepsWhole ==
    ASSUME NEW h, Whole(h), NEW i \in 0 .. h.n - 1, NEW w \in Nat \ {0}
    PROVE  LET k == [h EXCEPT !.weights[i] = w] IN Whole(k) /\ k.n = h.n
<1> DEFINE k == [h EXCEPT !.weights[i] = w]
<1>1. /\ k.n = h.n /\ k.edges = h.edges
      /\ k \in [n : Nat, edges : [0 .. h.n - 1 -> Sets], weights : [0 .. h.n - 1 -> Nat \ {0}]]
  BY DEF Whole
<1> HIDE DEF k
<1>2. Whole(k)
  BY <1>1 DEF Whole
<1> QED  BY <1>1, <1>2 DEF k

-----------------------------------------------------------------------------
(* Resizing and cropping.                                                  *)
LEMMA ResizeIs ==
    ASSUME NEW h, Whole(h), NEW size \in Nat \ {0}
    PROVE  LET k == GraphResize(h, size) IN
           /\ Whole(k) /\ k.n = size
           /\ \A i, j \in 0 .. size - 1 :
                 j \in k.edges[i].bits <=> i < h.n /\ j < h.n /\ j \in h.edges[i].bits
           /\ \A i \in 0 .. size - 1 : i < h.n => k.weights[i] = h.weights[i]
<1> DEFINE k == GraphResize(h, size)
           V == 0 .. size - 1
<1>1. CASE h.n = size
  BY <1>1 DEF GraphResize, Whole
<1>2. CASE h.n # size
  <2>1. h.n \in Nat /\ h.edges \in [0 .. h.n - 1 -> Sets] /\ h.weights \in [0 .. h.n - 1 -> Nat \ {0}]
    BY DEF Whole
  <2>2. \A i \in V : i < h.n =>
           /\ IsSet(SetResize(h.edges[i], size), size)
           /\ \A b \in V : b \in SetResize(h.edges[i], size).bits <=> b < h.n /\ b \in h.edges[i].bits
    <3>1. ASSUME NEW i \in V, i < h.n
          PROVE  IsSet(h.edges[i], h.n) /\ size \in Nat \ {0}
      BY <2>1, <3>1 DEF Whole
    <3> QED  BY <2>1, <3>1, ResizedSet
  <2>3. IsSet(SetNew(size), size) /\ SetNew(size).bits = {}
    BY NewSet
  <2>4. \A s : IsSet(s, size) => s \in Sets
    BY DEF IsSet, Sets
  <2>5. /\ k.n = size
        /\ k.edges = [i \in V |-> IF i < h.n THEN SetResize(h.edges[i], size) ELSE SetNew(size)]
        /\ k.weights = [i \in V |-> IF i < h.n THEN h.weights[i] ELSE 1]
        /\ k = [n |-> k.n, edges |-> k.edges, weights |-> k.weights]
    BY <1>2 DEF GraphResize
  <2> HIDE DEF k
  <2>6. \A i \in V : /\ IsSet(k.edges[i], size)
                     /\ \A b \in V : b \in k.edges[i].bits <=> i < h.n /\ b < h.n /\ b \in h.edges[i].bits
    BY <2>2, <2>3, <2>5
  <2>7. k.edges \in [V -> Sets]
    BY <2>2, <2>3, <2>4, <2>5
  <2>8. /\ k.weights \in [V -> Nat \ {0}]
        /\ \A i \in V : i < h.n => k.weights[i] = h.weights[i]
    BY <2>1, <2>5
  <2>9. \A i, j \in V : j \in k.edges[i].bits => i # j /\ i \in k.edges[j].bits
    <3>1. \A i, j \in 0 .. h.n - 1 : j \in h.edges[i].bits => i # j /\ i \in h.edges[j].bits
      BY DEF Whole
    <3> QED  BY <2>1, <2>6, <3>1
  <2>10. Whole(k)
    BY <2>5, <2>6, <2>7, <2>8, <2>9 DEF Whole
  <2> QED  BY <2>5, <2>6, <2>8, <2>10 DEF k
<1> QED  BY <1>1, <1>2

(* Cropping takes isolated vertices only, and all that are last: a vertex  *)
(* with a neighbour is itself one of its neighbour's.                      *)
LEMMA CropIs ==
    ASSUME NEW h, Whole(h), h.n > 0
    PROVE  \E size \in 1 .. h.n :
              /\ GraphCrop(h) = GraphResize(h, size)
              /\ \A i \in size .. h.n - 1 : Members(h.edges[i]) = {}
              /\ size > 1 => \E j \in 0 .. size - 1 : j \in h.edges[size - 1].bits
<1> DEFINE T == {0} \union WithEdges(h)
           top == Max(T)
<1>1. h.n \in Nat /\ \A i \in 0 .. h.n - 1 : IsSet(h.edges[i], h.n)
  BY DEF Whole
<1>2. \A i \in 0 .. h.n - 1 : SetSize(h.edges[i]) > 0 <=> Members(h.edges[i]) # {}
  <2> SUFFICES ASSUME NEW i \in 0 .. h.n - 1
               PROVE  SetSize(h.edges[i]) > 0 <=> Members(h.edges[i]) # {}
    OBVIOUS
  <2> DEFINE S == Members(h.edges[i])
  <2>1. SetSize(h.edges[i]) = Cardinality(S)
    BY <1>1, Words DEF SetSize
  <2>2. IsFiniteSet(S)
    <3>1. S \subseteq 0 .. h.n - 1
      BY <1>1 DEF Members, IsSet
    <3>2. IsFiniteSet(0 .. h.n - 1)
      BY <1>1, FS_Interval
    <3> HIDE DEF S
    <3> QED  BY <3>1, <3>2, FS_Subset
  <2> HIDE DEF S
  <2>3. Cardinality(S) \in Nat /\ (Cardinality(S) = 0 <=> S = {})
    BY <2>2, FS_CardinalityType, FS_EmptySet
  <2> QED  BY <2>1, <2>3 DEF S
<1>3. T \subseteq 0 .. h.n - 1 /\ 0 \in T
  BY <1>1 DEF WithEdges
<1>4. top \in T /\ \A y \in T : top >= y
  <2>1. h.n - 1 \in Nat
    BY <1>1
  <2> HIDE DEF T
  <2> QED  BY <1>3, <2>1, GreatestOf
<1>5. top + 1 \in 1 .. h.n /\ GraphCrop(h) = GraphResize(h, top + 1)
  <2> HIDE DEF top
  <2>1. top \in 0 .. h.n - 1
    BY <1>3, <1>4
  <2> QED  BY <1>1, <2>1 DEF GraphCrop, top
<1>6. \A i \in 1 .. h.n - 1 : Members(h.edges[i]) # {} => i <= top
  BY <1>1, <1>2, <1>4 DEF WithEdges
<1>7. \A i \in top + 1 .. h.n - 1 : Members(h.edges[i]) = {}
  <2> HIDE DEF top, T
  <2>1. top \in 0 .. h.n - 1
    BY <1>3, <1>4
  <2> QED  BY <1>1, <1>6, <2>1
<1>8. ASSUME top # 0 PROVE \E j \in 0 .. top : j \in h.edges[top].bits
  <2>1. top \in 1 .. h.n - 1 /\ Members(h.edges[top]) # {}
    <3>1. top \in WithEdges(h)
      BY <1>4, <1>8
    <3> HIDE DEF top
    <3> QED  BY <1>1, <1>2, <3>1 DEF WithEdges
  <2> HIDE DEF top, T
  <2>2. PICK j \in 0 .. h.n - 1 : j \in h.edges[top].bits
    BY <1>1, <2>1, Words DEF IsSet
  <2>3. top \in h.edges[j].bits
    BY <2>1, <2>2 DEF Whole
  <2>4. Members(h.edges[j]) # {}
    <3>1. IsSet(h.edges[j], h.n)
      BY <1>1
    <3> QED  BY <1>1, <2>1, <2>3, <3>1, Words
  <2>5. j <= top
    <3>1. CASE j = 0
      BY <2>1, <3>1
    <3>2. CASE j # 0
      BY <1>1, <1>6, <2>4, <3>2
    <3> QED  BY <3>1, <3>2
  <2> QED  BY <2>2, <2>5
<1>9. top \in Int /\ (top + 1) - 1 = top /\ (top + 1 > 1 => top # 0)
  <2> HIDE DEF top, T
  <2>1. top \in 0 .. h.n - 1
    BY <1>3, <1>4
  <2> QED  BY <2>1
<1> HIDE DEF top
<1> QED  BY <1>5, <1>7, <1>8, <1>9

-----------------------------------------------------------------------------
(* Reordering.                                                             *)
LEMMA BijectionIsOnto ==
    ASSUME NEW n \in Nat, NEW order, IsBijection(order, n)
    PROVE  \A v \in 0 .. n - 1 : /\ Invert(order, n)[v] \in 0 .. n - 1
                                 /\ order[Invert(order, n)[v]] = v
<1> DEFINE V == 0 .. n - 1
           f == [i \in V |-> order[i]]
<1>1. f \in [V -> V] /\ \A i, j \in V : f[i] = f[j] => i = j
  BY DEF IsBijection
<1>2. IsFiniteSet(V)
  BY FS_Interval
<1>3. f \in Surjection(V, V)
  <2> HIDE DEF V, f
  <2>1. f \in Injection(V, V)
    BY <1>1 DEF Injection, IsInjective
  <2> QED  BY <1>2, <2>1, FS_Injection
<1>4. \A v \in V : \E i \in V : order[i] = v
  BY <1>3 DEF Surjection
<1> QED  BY <1>4 DEF Invert

(* reorder_graph gives a whole graph with the edges and weights renamed.   *)
LEMMA RenamedIsWhole ==
    ASSUME NEW h, Whole(h), NEW order, IsBijection(order, h.n)
    PROVE  LET k == ReorderGraph(h, order)
               old == Invert(order, h.n)
           IN /\ Whole(k) /\ k.n = h.n
              /\ \A u, v \in 0 .. h.n - 1 :
                    u \in k.edges[v].bits <=> old[u] \in h.edges[old[v]].bits
              /\ \A v \in 0 .. h.n - 1 : k.weights[v] = h.weights[old[v]]
<1> DEFINE V == 0 .. h.n - 1
           old == Invert(order, h.n)
           k == ReorderGraph(h, order)
<1>1. /\ h.n \in Nat /\ h.edges \in [V -> Sets] /\ h.weights \in [V -> Nat \ {0}]
      /\ \A i \in V : IsSet(h.edges[i], h.n)
      /\ \A i, j \in V : j \in h.edges[i].bits => i # j /\ i \in h.edges[j].bits
  BY DEF Whole
<1>2. \A v \in V : old[v] \in V /\ order[old[v]] = v
  BY <1>1, BijectionIsOnto
<1>3. \A i, j \in V : order[i] \in V /\ (order[i] = order[j] => i = j)
  BY DEF IsBijection
<1>4. /\ k.n = h.n /\ k.edges = [v \in V |-> ReorderSet(h.edges[old[v]], order)]
      /\ k.weights = [v \in V |-> h.weights[old[v]]]
      /\ k = [n |-> k.n, edges |-> k.edges, weights |-> k.weights]
  BY DEF ReorderGraph, Vertices
<1> HIDE DEF old, k
<1>5. ASSUME NEW i \in V
      PROVE  LET s == ReorderSet(h.edges[i], order)
             IN /\ IsSet(s, h.n)
                /\ \A b \in V : b \in s.bits <=> \E c \in V : c \in h.edges[i].bits /\ b = order[c]
  <2> DEFINE t == h.edges[i]
             s == ReorderSet(t, order)
  <2>1. IsSet(t, h.n)
    BY <1>1
  <2> HIDE DEF t
  <2>2. /\ t \in Sets /\ t.max = h.n
        /\ ArrayLength(t) \in Nat /\ ArrayLength(t) * ELEMENTSIZE \in h.n .. h.n + ELEMENTSIZE - 1
        /\ InWords(t, ArrayLength(t)) = {b \in t.bits : b < h.n}
        /\ Members(t) = {b \in t.bits : b < h.n}
    BY <1>1, <2>1, Words DEF IsSet, Sets
  <2>3. /\ s.max = h.n /\ s = [max |-> s.max, bits |-> s.bits]
        /\ s.bits = {order[b] : b \in Members(t)} \union (t.bits \ InWords(t, ArrayLength(t)))
    <3> DEFINE more == {order[b] : b \in Members(t)} \union (t.bits \ InWords(t, ArrayLength(t)))
    <3>1. s = [t EXCEPT !.bits = more]
      BY DEF ReorderSet
    <3> HIDE DEF s, more
    <3>2. s.max = t.max /\ s.bits = more /\ s = [max |-> s.max, bits |-> s.bits]
      BY <2>2, <3>1 DEF Sets
    <3> QED  BY <2>2, <3>2 DEF more
  <2> HIDE DEF s
  <2>4. t.bits \subseteq Nat
    BY <2>2 DEF Sets
  <2>5. \A b \in Members(t) : b \in V /\ order[b] \in V
    BY <1>1, <1>3, <2>2, <2>4
  <2>6. ArrayLength(s) = ArrayLength(t)
    BY <2>2, <2>3 DEF ArrayLength
  <2>7. \A b \in t.bits \ InWords(t, ArrayLength(t)) : b >= ArrayLength(t) * ELEMENTSIZE /\ b >= h.n
    BY <1>1, <2>2, <2>4 DEF InWords
  <2>8. IsSet(s, h.n)
    <3>1. s.bits \subseteq Nat
      BY <1>1, <2>3, <2>4, <2>5
    <3>2. \A b \in InWords(s, ArrayLength(s)) : b < h.n
      <4> SUFFICES ASSUME NEW b \in s.bits, b < ArrayLength(t) * ELEMENTSIZE PROVE b < h.n
        BY <2>6 DEF InWords
      <4>1. CASE b \in {order[c] : c \in Members(t)}
        BY <1>1, <2>5, <4>1
      <4>2. CASE b \in t.bits \ InWords(t, ArrayLength(t))
        <5>1. b \in Nat /\ b >= ArrayLength(t) * ELEMENTSIZE /\ ArrayLength(t) * ELEMENTSIZE \in Int
          BY <1>1, <2>2, <2>4, <2>7, <4>2, CliquerAssumption
        <5> QED  BY <5>1
      <4> QED  BY <2>3, <4>1, <4>2
    <3> QED  BY <1>1, <2>3, <3>1, <3>2 DEF IsSet
  <2>9. \A b \in V : b \in s.bits <=> \E c \in V : c \in t.bits /\ b = order[c]
    <3>1. \A b \in V : b \notin t.bits \ InWords(t, ArrayLength(t))
      BY <1>1, <2>4, <2>7
    <3>2. Members(t) = V \cap t.bits
      BY <1>1, <2>2, <2>4
    <3> QED  BY <2>3, <3>1, <3>2
  <2> QED  BY <2>8, <2>9 DEF s, t
<1>6. \A v \in V : IsSet(k.edges[v], h.n)
  BY <1>2, <1>4, <1>5
<1>7. \A u, v \in V : u \in k.edges[v].bits <=> old[u] \in h.edges[old[v]].bits
  <2> SUFFICES ASSUME NEW u \in V, NEW v \in V
               PROVE  u \in k.edges[v].bits <=> old[u] \in h.edges[old[v]].bits
    OBVIOUS
  <2>1. k.edges[v] = ReorderSet(h.edges[old[v]], order) /\ old[v] \in V
    BY <1>2, <1>4
  <2>2. u \in k.edges[v].bits <=> \E c \in V : c \in h.edges[old[v]].bits /\ u = order[c]
    BY <1>5, <2>1
  <2>3. \A c \in V : u = order[c] <=> c = old[u]
    BY <1>2, <1>3
  <2> QED  BY <1>2, <2>2, <2>3
<1>8. \A u, v \in V : u \in k.edges[v].bits => u # v /\ v \in k.edges[u].bits
  BY <1>1, <1>2, <1>7
<1>9. k.edges \in [V -> Sets] /\ k.weights \in [V -> Nat \ {0}]
  <2>1. \A v \in V : k.edges[v] \in Sets
    BY <1>6 DEF IsSet, Sets
  <2>2. \A v \in V : h.weights[old[v]] \in Nat \ {0}
    BY <1>1, <1>2
  <2> HIDE DEF V
  <2>3. \A v \in V : ReorderSet(h.edges[old[v]], order) \in Sets
    BY <1>4, <2>1
  <2> QED  BY <1>4, <2>2, <2>3
<1>10. Whole(k)
  BY <1>1, <1>4, <1>6, <1>8, <1>9 DEF Whole
<1>11. \A v \in V : k.weights[v] = h.weights[old[v]]
  BY <1>4
<1> QED  BY <1>4, <1>7, <1>10, <1>11 DEF k, old

(* The inverse of a bijection is one, and its inverse is the bijection.    *)
LEMMA InverseOfInverse ==
    ASSUME NEW n \in Nat, NEW order, IsBijection(order, n)
    PROVE  LET inv == Invert(order, n)
           IN /\ IsBijection(inv, n)
              /\ \A i \in 0 .. n - 1 : inv[order[i]] = i /\ Invert(inv, n)[i] = order[i]
<1> DEFINE V == 0 .. n - 1
           inv == Invert(order, n)
<1>1. /\ \A i \in V : order[i] \in V
      /\ \A i, j \in V : order[i] = order[j] => i = j
  BY DEF IsBijection
<1>2. \A v \in V : inv[v] \in V /\ order[inv[v]] = v
  BY BijectionIsOnto
<1> HIDE DEF inv
<1>3. \A i \in V : inv[order[i]] = i
  BY <1>1, <1>2
<1>4. \A i, j \in V : inv[i] = inv[j] => i = j
  BY <1>2
<1>5. IsBijection(inv, n)
  BY <1>2, <1>4 DEF IsBijection
<1>6. \A v \in V : Invert(inv, n)[v] \in V /\ inv[Invert(inv, n)[v]] = v
  BY <1>5, BijectionIsOnto
<1>7. \A i \in V : Invert(inv, n)[i] = order[i]
  BY <1>1, <1>3, <1>4, <1>6
<1> QED  BY <1>3, <1>5, <1>7 DEF inv

-----------------------------------------------------------------------------
(* Reading.  After any line the graph is whole or given up.                *)
LEMMA BlankIsWhole == Whole(Blank) /\ Blank.n = 0
<1>1. \A S : <<>> \in [0 .. 0 - 1 -> S]
  OBVIOUS
<1>2. Blank.n = 0 /\ Blank \in [n : Nat, edges : [0 .. 0 - 1 -> Sets], weights : [0 .. 0 - 1 -> Nat \ {0}]]
  BY <1>1 DEF Blank
<1> HIDE DEF Blank
<1> QED  BY <1>2 DEF Whole

(* A line the reader understands makes a whole graph of a whole one.       *)
LEMMA LineKeepsWhole ==
    ASSUME NEW h, h # NoGraph => Whole(h), NEW line \in Lines
    PROVE  ParseInput(h, line) # NoGraph => Whole(ParseInput(h, line))
<1>0. h = NoGraph => ParseInput(h, line) = NoGraph
  BY DEF ParseInput
<1> SUFFICES ASSUME h # NoGraph, ParseInput(h, line) # NoGraph
             PROVE  Whole(ParseInput(h, line))
  BY <1>0
<1>1. Whole(h) /\ h.n \in Nat
  BY DEF Whole
<1>2. CASE line = Other
  BY <1>1, <1>2 DEF ParseInput, Other
<1>3. CASE line = Bad
  BY <1>3 DEF ParseInput, Bad
<1>4. ASSUME NEW n \in 0 .. MAX_N, line = Problem(n)
      PROVE  Whole(ParseInput(h, line))
  <2>1. line.field = "p" /\ line.n = n
    BY <1>4 DEF Problem
  <2>2. ParseInput(h, line) = GraphNew(n)
    BY <2>1 DEF ParseInput
  <2>3. n \in Nat
    BY CliquerAssumption
  <2> QED  BY <2>2, <2>3, NewIsWhole
<1>5. ASSUME NEW i \in 0 .. MAX_N + 1, NEW w \in WEIGHTS \union {0}, line = Node(i, w)
      PROVE  Whole(ParseInput(h, line))
  <2>1. line.field = "n" /\ line.i = i /\ line.w = w
    BY <1>5 DEF Node
  <2>2. i \in 1 .. h.n /\ ~(w <= 0) /\ ParseInput(h, line) = [h EXCEPT !.weights[i - 1] = w]
    BY <2>1 DEF ParseInput
  <2>3. w \in Nat \ {0} /\ i - 1 \in 0 .. h.n - 1
    BY <1>1, <2>2, CliquerAssumption
  <2> QED  BY <1>1, <2>2, <2>3, WeightKeepsWhole
<1>6. ASSUME NEW i \in 0 .. MAX_N + 1, NEW j \in 0 .. MAX_N + 1, line = Edge(i, j)
      PROVE  Whole(ParseInput(h, line))
  <2>1. line.field = "e" /\ line.i = i /\ line.j = j
    BY <1>6 DEF Edge
  <2>2. ParseInput(h, line) = EdgeLine(h, i, j)
    BY <2>1 DEF ParseInput
  <2>3. i \in 1 .. h.n /\ j \in 1 .. h.n /\ ParseInput(h, line) \in {h, AddEdge(h, i - 1, j - 1)}
        /\ (i = j => ParseInput(h, line) = h)
    BY <2>2 DEF EdgeLine
  <2>4. i - 1 \in 0 .. h.n - 1 /\ j - 1 \in 0 .. h.n - 1 /\ (i # j => i - 1 # j - 1)
    BY <1>1, <2>3
  <2>5. i # j => Whole(AddEdge(h, i - 1, j - 1))
    BY <1>1, <2>4, EditsAreWhole
  <2> QED  BY <1>1, <2>3, <2>5
<1> QED  BY <1>2, <1>3, <1>4, <1>5, <1>6 DEF Lines

-----------------------------------------------------------------------------
(* The graph a caller has is whole, and has vertices unless it is being    *)
(* read.                                                                   *)
GraphInv ==
    /\ g # NoGraph => Whole(g)
    /\ mode = "reading" /\ g = NoGraph => g = Blank
    /\ mode # "reading" /\ g # NoGraph => g.n > 0
    /\ g # NoGraph /\ g.n > 0 => SubgraphWeight(g, Vertices(g)) \in 0 .. MAX_WEIGHT

(* A caller that puts a whole graph with vertices in place keeps the       *)
(* invariant.                                                              *)
LEMMA EditKeepsInv ==
    ASSUME NEW h, Edit(h), Whole(h), h.n > 0
    PROVE  GraphInv'
BY DEF Edit, GraphInv, Bounded, Vertices

(* The invariant is inductive.                                             *)
LEMMA GraphStep ==
    ASSUME GraphInv, [GraphNext \/ Searching \/ \E order : Rename(order)]_<<g, mode>>
    PROVE  GraphInv'
<1>1. CASE UNCHANGED <<g, mode>> \/ Searching
  BY <1>1 DEF GraphInv, Searching, Vertices
<1>2. ASSUME NEW n \in 1 .. MAX_N, New(n) PROVE GraphInv'
  <2>1. n \in Nat /\ n > 0
    BY CliquerAssumption
  <2> QED  BY <1>2, <2>1, NewIsWhole DEF New, Bounded, GraphInv
<1>3. ASSUME mode = "idle", g # NoGraph, NEW h, Edit(h),
             \/ \E i, j \in Vertices(g) : i # j /\ h \in {AddEdge(g, i, j), DelEdge(g, i, j)}
             \/ \E i \in Vertices(g), w \in WEIGHTS : h = [g EXCEPT !.weights[i] = w]
             \/ \E size \in Nat \ {0} : h = GraphResize(g, size)
             \/ h = GraphCrop(g)
             \/ \E order : IsBijection(order, g.n) /\ h = ReorderGraph(g, order)
      PROVE  GraphInv'
  <2>1. Whole(g) /\ g.n > 0 /\ g.n \in Nat
    BY <1>3 DEF GraphInv, Whole
  <2>2. CASE \E i, j \in Vertices(g) : i # j /\ h \in {AddEdge(g, i, j), DelEdge(g, i, j)}
    BY <1>3, <2>1, <2>2, EditsAreWhole, EditKeepsInv DEF Vertices
  <2>3. CASE \E i \in Vertices(g), w \in WEIGHTS : h = [g EXCEPT !.weights[i] = w]
    <3>1. PICK i \in 0 .. g.n - 1, w \in WEIGHTS : h = [g EXCEPT !.weights[i] = w]
      BY <2>3 DEF Vertices
    <3>2. w \in Nat \ {0}
      BY CliquerAssumption
    <3>3. Whole([g EXCEPT !.weights[i] = w]) /\ [g EXCEPT !.weights[i] = w].n = g.n
      BY <2>1, <3>2, WeightKeepsWhole
    <3> QED  BY <1>3, <2>1, <3>1, <3>3, EditKeepsInv
  <2>4. CASE \E size \in Nat \ {0} : h = GraphResize(g, size)
    BY <1>3, <2>1, <2>4, ResizeIs, EditKeepsInv
  <2>5. CASE h = GraphCrop(g)
    <3>1. \E size \in Nat \ {0} : h = GraphResize(g, size)
      BY <2>1, <2>5, CropIs
    <3> QED  BY <2>4, <3>1
  <2>6. CASE \E order : IsBijection(order, g.n) /\ h = ReorderGraph(g, order)
    BY <1>3, <2>1, <2>6, RenamedIsWhole, EditKeepsInv
  <2> QED  BY <1>3, <2>2, <2>3, <2>4, <2>5, <2>6
<1>4. CASE Change
  BY <1>3, <1>4 DEF Change, Edit
<1>5. CASE Resize
  <2>1. PICK size \in 1 .. MAX_N : Edit(GraphResize(g, size))
    BY <1>5 DEF Resize
  <2>2. size \in Nat \ {0}
    BY CliquerAssumption
  <2> QED  BY <1>3, <2>1, <2>2 DEF Edit
<1>6. CASE Crop
  BY <1>3, <1>6 DEF Crop, Edit
<1>7. CASE \E order : Rename(order)
  BY <1>3, <1>7 DEF Rename, Edit
<1>8. CASE StartReading
  BY <1>8, BlankIsWhole DEF StartReading, GraphInv
<1>9. CASE EndOfFile
  <2>1. g # NoGraph => Whole(g) /\ g.n \in Nat
    BY DEF GraphInv, Whole
  <2>2. g' \in {g, NoGraph} /\ (g' # NoGraph => g.n > 0) /\ mode' = "idle"
    BY <1>9, <2>1, BlankIsWhole DEF EndOfFile, ReadEnd, GraphInv
  <2>3. CASE g' = NoGraph
    BY <2>2, <2>3 DEF GraphInv
  <2>4. CASE g' # NoGraph
    <3>1. g' = g
      BY <2>2, <2>4
    <3> QED  BY <2>2, <2>4, <3>1 DEF GraphInv, Vertices
  <2> QED  BY <2>3, <2>4
<1>10. ASSUME NEW line \in Lines, ReadLine(line) PROVE GraphInv'
  <2>1. /\ g' = ParseInput(g, line) /\ Bounded(g')
        /\ mode' = IF g' = NoGraph THEN "idle" ELSE "reading"
    BY <1>10 DEF ReadLine
  <2>2. g' # NoGraph => Whole(g')
    BY <2>1, LineKeepsWhole DEF GraphInv
  <2> QED  BY <2>1, <2>2 DEF GraphInv, Bounded
<1> QED  BY <1>1, <1>2, <1>4, <1>5, <1>6, <1>7, <1>8, <1>9, <1>10 DEF GraphNext

(* So it always holds.                                                     *)
LEMMA AlwaysGraphInv == GraphSpec => []GraphInv
<1>1. GraphInit => GraphInv
  BY DEF GraphInit, GraphInv
<1> QED  BY <1>1, GraphStep, PTL DEF GraphSpec

-----------------------------------------------------------------------------
(* What is asked of a whole graph.                                         *)
LEMMA WholePassesTest ==
    ASSUME NEW h, h # NoGraph, Whole(h), SubgraphWeight(h, Vertices(h)) \in 0 .. MAX_WEIGHT
    PROVE  GraphTest(h)
<1>1. SubgraphWeight(h, Vertices(h)) < INT_MAX
  BY CliquerAssumption DEF INT_MAX
<1>2. ASSUME NEW i \in 0 .. h.n - 1
      PROVE  /\ h.edges[i].max >= h.n /\ h.weights[i] > 0
             /\ \A j \in InWords(h.edges[i], ArrayLength(h.edges[i])) : j < h.n
  BY DEF Whole, IsSet
<1>3. \A i, j \in 0 .. h.n - 1 : j \in h.edges[i].bits => i # j /\ i \in h.edges[j].bits
  BY DEF Whole
<1> QED  BY <1>1, <1>2, <1>3 DEF GraphTest, Vertices

(* The members of the set of a vertex are its neighbours.                  *)
LEMMA MembersOf ==
    ASSUME NEW h, Whole(h), NEW i \in 0 .. h.n - 1
    PROVE  Members(h.edges[i]) = {j \in 0 .. h.n - 1 : j \in h.edges[i].bits}
<1>1. IsSet(h.edges[i], h.n) /\ h.n \in Nat
  BY DEF Whole
<1>2. Members(h.edges[i]) = {j \in h.edges[i].bits : j < h.n} /\ h.edges[i].bits \subseteq Nat
  BY <1>1, Words DEF IsSet
<1> QED  BY <1>1, <1>2

(* graph_resize keeps the edges and weights of the vertices that stay.     *)
LEMMA ResizeKeeps ==
    ASSUME Whole(g), NEW size \in Nat \ {0}
    PROVE  Resized(GraphResize(g, size), size)
<1> DEFINE h == GraphResize(g, size)
           both == Min({size, g.n})
<1>1. /\ Whole(h) /\ h.n = size
      /\ \A i, j \in 0 .. size - 1 :
            j \in h.edges[i].bits <=> i < g.n /\ j < g.n /\ j \in g.edges[i].bits
      /\ \A i \in 0 .. size - 1 : i < g.n => h.weights[i] = g.weights[i]
  BY ResizeIs
<1>2. g.n \in Nat
  BY DEF Whole
<1>3. both \in Int /\ both <= size /\ both <= g.n
  <2> DEFINE T == {size, g.n}
  <2>1. T \subseteq Nat /\ T # {} /\ size \in T /\ g.n \in T
    BY <1>2
  <2> HIDE DEF T
  <2>2. Min(T) \in T /\ \A y \in T : Min(T) <= y
    BY <2>1, LeastOf
  <2>3. Min(T) \in Int /\ Min(T) <= size /\ Min(T) <= g.n
    <3> DEFINE m == Min(T)
    <3>1. m \in T /\ \A y \in T : m <= y
      BY <2>2
    <3> HIDE DEF m
    <3>2. m \in Nat
      BY <2>1, <3>1
    <3>3. m <= size /\ m <= g.n
      BY <2>1, <3>1
    <3> QED  BY <3>2, <3>3 DEF m
  <2> QED  BY <2>3 DEF T
<1> HIDE DEF h, both
<1>4. ASSUME NEW i \in 0 .. both - 1, NEW j \in 0 .. both - 1
      PROVE  IsEdge(g, i, j) = IsEdge(h, i, j) /\ g.weights[i] = h.weights[i]
  <2>1. /\ i \in 0 .. size - 1 /\ j \in 0 .. size - 1
        /\ i \in 0 .. g.n - 1 /\ j \in 0 .. g.n - 1 /\ i < g.n /\ j < g.n
    BY <1>2, <1>3
  <2>2. IsEdge(g, i, j) <=> j \in g.edges[i].bits
    BY <2>1, EdgeIs
  <2>3. IsEdge(h, i, j) <=> j \in h.edges[i].bits
    BY <1>1, <2>1, EdgeIs
  <2>4. IsEdge(g, i, j) <=> IsEdge(h, i, j)
    BY <1>1, <2>1, <2>2, <2>3
  <2> QED  BY <1>1, <2>1, <2>4 DEF IsEdge, SetContains
<1>5. \A i \in g.n .. size - 1 : Members(h.edges[i]) = {}
  BY <1>1, <1>2, MembersOf
<1>6. Same(g, h, both)
  <2>1. \A i \in 0 .. both - 1 : g.weights[i] = h.weights[i]
    BY <1>4
  <2> QED  BY <1>4, <2>1 DEF Same
<1> QED  BY <1>1, <1>5, <1>6 DEF Resized, h, both

(* graph_crop takes away last, isolated vertices only, and all of them.    *)
LEMMA CropKeeps ==
    ASSUME Whole(g), g.n > 0
    PROVE  Cropped(GraphCrop(g))
<1>1. PICK size \in 1 .. g.n :
         /\ GraphCrop(g) = GraphResize(g, size)
         /\ \A i \in size .. g.n - 1 : Members(g.edges[i]) = {}
         /\ size > 1 => \E j \in 0 .. size - 1 : j \in g.edges[size - 1].bits
  BY CropIs
<1> DEFINE h == GraphCrop(g)
<1>2. g.n \in Nat /\ size \in Nat \ {0} /\ size <= g.n
  BY DEF Whole
<1>3. /\ Whole(h) /\ h.n = size
      /\ \A i, j \in 0 .. size - 1 :
            j \in h.edges[i].bits <=> i < g.n /\ j < g.n /\ j \in g.edges[i].bits
      /\ \A i \in 0 .. size - 1 : i < g.n => h.weights[i] = g.weights[i]
  BY <1>1, <1>2, ResizeIs
<1> HIDE DEF h
<1>4. ASSUME NEW i \in 0 .. size - 1, NEW j \in 0 .. size - 1
      PROVE  IsEdge(g, i, j) = IsEdge(h, i, j) /\ g.weights[i] = h.weights[i]
  <2>1. i \in 0 .. g.n - 1 /\ j \in 0 .. g.n - 1 /\ i < g.n /\ j < g.n
    BY <1>2
  <2>2. IsEdge(g, i, j) <=> j \in g.edges[i].bits
    BY <2>1, EdgeIs
  <2>3. IsEdge(h, i, j) <=> j \in h.edges[i].bits
    BY <1>3, EdgeIs
  <2>4. IsEdge(g, i, j) <=> IsEdge(h, i, j)
    BY <1>3, <2>1, <2>2, <2>3
  <2> QED  BY <1>3, <2>1, <2>4 DEF IsEdge, SetContains
<1>5. Same(g, h, h.n)
  <2>1. \A i \in 0 .. size - 1 : g.weights[i] = h.weights[i]
    BY <1>4
  <2> QED  BY <1>3, <1>4, <2>1 DEF Same
<1>6. h.n > 1 => Members(h.edges[h.n - 1]) # {}
  <2> SUFFICES ASSUME size > 1 PROVE Members(h.edges[size - 1]) # {}
    BY <1>3
  <2>1. PICK j \in 0 .. size - 1 : j \in g.edges[size - 1].bits
    BY <1>1
  <2>2. size - 1 \in 0 .. size - 1 /\ size - 1 < g.n /\ j < g.n
    BY <1>2
  <2>3. j \in h.edges[size - 1].bits
    BY <1>3, <2>1, <2>2
  <2> QED  BY <1>3, <2>2, <2>3, MembersOf
<1> QED  BY <1>1, <1>3, <1>5, <1>6 DEF Cropped, h

(* Whatever a caller and the files it reads do to a graph, it passes the   *)
(* library's own test, resizing and cropping it keep what they should, and *)
(* walks meet each neighbour, for words of any length (set.h, graph.c).    *)
THEOREM GraphsAreWhole == GraphSpec => []GraphsStayWhole
<1>1. GraphInv => GraphsStayWhole
  <2> SUFFICES ASSUME GraphInv PROVE GraphsStayWhole
    OBVIOUS
  <2>1. (At("idle") \/ (mode = "reading" /\ g.n > 0)) => GraphTest(g)
    <3>1. At("idle") => g # NoGraph /\ g.n > 0
      BY DEF At, GraphInv
    <3>2. mode = "reading" /\ g.n > 0 => g # NoGraph
      BY BlankIsWhole DEF GraphInv
    <3> QED  BY <3>1, <3>2, WholePassesTest DEF GraphInv
  <2>2. ASSUME At("idle")
        PROVE  /\ \A size \in 1 .. MAX_N : Resized(GraphResize(g, size), size)
               /\ Cropped(GraphCrop(g))
               /\ \A i \in Vertices(g), n \in -1 .. MAX_N - 1 :
                     SetReturnNext(g.edges[i], n) = FirstOf({v \in Members(g.edges[i]) : v > n})
    <3>1. Whole(g) /\ g.n > 0 /\ g.n \in Nat
      BY <2>2 DEF At, GraphInv, Whole
    <3>2. \A size \in 1 .. MAX_N : size \in Nat \ {0}
      BY CliquerAssumption
    <3>3. \A i \in Vertices(g) : IsSet(g.edges[i], g.n)
      BY <3>1 DEF Whole, Vertices
    <3>4. \A n \in -1 .. MAX_N - 1 : n \in Int /\ n >= -1
      BY CliquerAssumption
    <3> QED  BY <3>1, <3>2, <3>3, <3>4, ResizeKeeps, CropKeeps, WalkMeetsNext
  <2> QED  BY <2>1, <2>2 DEF GraphsStayWhole
<1> QED  BY <1>1, AlwaysGraphInv, PTL

(* reorder_graph by a bijection renames, and the inverted order takes it   *)
(* back.                                                                   *)
LEMMA OrdersRename ==
    ASSUME Whole(g), NEW order, IsBijection(order, g.n)
    PROVE  OrderRenames(order)
<1> DEFINE V == 0 .. g.n - 1
           inv == Invert(order, g.n)
           back == Invert(inv, g.n)
           h == ReorderGraph(g, order)
           k == ReorderGraph(h, inv)
<1>1. g.n \in Nat
  BY DEF Whole
<1>2. /\ \A i \in V : order[i] \in V
      /\ \A i, j \in V : order[i] = order[j] => i = j
  BY DEF IsBijection
<1>3. /\ IsBijection(inv, g.n)
      /\ \A i \in V : inv[order[i]] = i /\ back[i] = order[i]
  BY <1>1, InverseOfInverse
<1>4. \A v \in V : inv[v] \in V /\ order[inv[v]] = v
  BY <1>1, BijectionIsOnto
<1>5. /\ Whole(h) /\ h.n = g.n
      /\ \A u, v \in V : u \in h.edges[v].bits <=> inv[u] \in g.edges[inv[v]].bits
      /\ \A v \in V : h.weights[v] = g.weights[inv[v]]
  BY RenamedIsWhole
<1> HIDE DEF inv, h
<1>6. /\ Whole(k) /\ k.n = g.n
      /\ \A u, v \in V : u \in k.edges[v].bits <=> back[u] \in h.edges[back[v]].bits
      /\ \A v \in V : k.weights[v] = h.weights[back[v]]
  BY <1>3, <1>5, RenamedIsWhole
<1> HIDE DEF back, k
<1>7. IsBijection(ReverseOrder(order, g.n), g.n)
  <2>1. \A i \in V : /\ ReverseOrder(order, g.n)[i] = g.n - 1 - order[i]
                     /\ order[i] \in V
    BY <1>2 DEF ReverseOrder
  <2>2. \A i \in V : ReverseOrder(order, g.n)[i] \in V
    BY <1>1, <2>1
  <2>3. \A i, j \in V : ReverseOrder(order, g.n)[i] = ReverseOrder(order, g.n)[j] => i = j
    BY <1>1, <1>2, <2>1
  <2> QED  BY <2>2, <2>3 DEF IsBijection
<1>8. \A i \in V : h.weights[order[i]] = g.weights[i]
  BY <1>2, <1>3, <1>5
<1>9. ASSUME NEW i \in V
      PROVE  {order[j] : j \in Members(g.edges[i])} = Members(h.edges[order[i]])
  <2>1. Members(g.edges[i]) = {j \in V : j \in g.edges[i].bits}
    BY MembersOf
  <2>2. Members(h.edges[order[i]]) = {u \in V : u \in h.edges[order[i]].bits}
    BY <1>2, <1>5, MembersOf
  <2>3. \A u \in V : u \in h.edges[order[i]].bits <=> inv[u] \in g.edges[i].bits
    BY <1>2, <1>3, <1>5
  <2>4. \A j \in V : order[j] \in h.edges[order[i]].bits <=> j \in g.edges[i].bits
    BY <1>2, <1>3, <2>3
  <2> HIDE DEF V
  <2> QED  BY <1>2, <1>4, <2>1, <2>2, <2>3, <2>4
<1>10. Same(g, k, g.n)
  <2>1. \A i \in V : g.weights[i] = k.weights[i]
    BY <1>2, <1>3, <1>6, <1>8
  <2>2. ASSUME NEW i \in V, NEW j \in V
        PROVE  IsEdge(g, i, j) = IsEdge(k, i, j)
    <3>1. j \in k.edges[i].bits <=> order[j] \in h.edges[order[i]].bits
      BY <1>3, <1>6
    <3>2. order[j] \in h.edges[order[i]].bits <=> j \in g.edges[i].bits
      BY <1>2, <1>3, <1>5
    <3>3. IsEdge(g, i, j) <=> j \in g.edges[i].bits
      BY EdgeIs
    <3>4. IsEdge(k, i, j) <=> j \in k.edges[i].bits
      BY <1>6, EdgeIs
    <3>5. IsEdge(g, i, j) <=> IsEdge(k, i, j)
      BY <3>1, <3>2, <3>3, <3>4
    <3> QED  BY <3>5 DEF IsEdge, SetContains
  <2> QED  BY <2>1, <2>2 DEF Same
<1> QED  BY <1>7, <1>8, <1>9, <1>10 DEF OrderRenames, Vertices, inv, h, k

(* A graph renamed by any bijection is the same under other names, and the *)
(* inverse takes the names back, for words of any length (reorder.c).      *)
THEOREM RenamedIsSame ==
    GraphSpec => [](At("idle") => \A order : IsBijection(order, g.n) => OrderRenames(order))
<1>1. GraphInv => (At("idle") => \A order : IsBijection(order, g.n) => OrderRenames(order))
  BY OrdersRename DEF GraphInv, At
<1> QED  BY <1>1, AlwaysGraphInv, PTL

-----------------------------------------------------------------------------
(* Loops, and totals over sets of vertices.                                *)

(* Induction over the natural numbers, with a set for the predicate.       *)
LEMMA Induction ==
    ASSUME NEW S, 0 \in S, \A k \in Nat : k \in S => k + 1 \in S
    PROVE  Nat \subseteq S
<1> SUFFICES ASSUME Nat \ S # {} PROVE FALSE
  OBVIOUS
<1>1. PICK x \in Nat \ S : \A y \in Nat \ S : <<y, x>> \notin OpToRel(<, Nat)
  BY NatLessThanWellFounded, WFMin
<1>2. \A y, z \in Nat : y < z => <<y, z>> \in OpToRel(<, Nat)
  BY DEF OpToRel
<1>3. x - 1 \in Nat /\ x - 1 < x /\ x - 1 + 1 = x
  OBVIOUS
<1>4. x - 1 \in S
  BY <1>1, <1>2, <1>3
<1> QED  BY <1>3, <1>4

(* The rounds of a loop: a recursive function on the naturals.             *)
AreRounds(f, X, a, step) ==
    /\ f \in [Nat -> X] /\ f[0] = a
    /\ \A k \in Nat : f[k + 1] = step[k + 1][f[k]]
    /\ f = [k \in Nat |-> IF k = 0 THEN a ELSE step[k][f[k - 1]]]

(* A loop with a turn for each number: its states exist.                   *)
LEMMA Rounds ==
    ASSUME NEW X, NEW a \in X, NEW step \in [Nat -> [X -> X]]
    PROVE  \E f : AreRounds(f, X, a, step)
<1> DEFINE Upto(n, f) == /\ f \in [0 .. n -> X] /\ f[0] = a
                         /\ \A k \in 1 .. n : f[k] = step[k][f[k - 1]]
           P == {n \in Nat : \E f : Upto(n, f)}
<1>1. Nat \subseteq P
  <2>1. 0 \in P
    <3>1. Upto(0, [k \in 0 .. 0 |-> a])
      OBVIOUS
    <3> QED  BY <3>1
  <2>2. ASSUME NEW n \in Nat, n \in P PROVE n + 1 \in P
    <3>1. PICK f : Upto(n, f)
      BY <2>2
    <3> DEFINE h == [k \in 0 .. n + 1 |-> IF k = n + 1 THEN step[n + 1][f[n]] ELSE f[k]]
    <3>2. Upto(n + 1, h)
      <4>1. f[n] \in X
        BY <3>1
      <4>2. h \in [0 .. n + 1 -> X]
        BY <3>1, <4>1
      <4>3. h[0] = a
        BY <3>1
      <4>4. ASSUME NEW k \in 1 .. n + 1 PROVE h[k] = step[k][h[k - 1]]
        <5>1. k - 1 \in 0 .. n /\ k - 1 # n + 1 /\ (k = n + 1 => k - 1 = n)
          OBVIOUS
        <5>2. h[k - 1] = f[k - 1]
          BY <5>1
        <5>3. h[k] = IF k = n + 1 THEN step[n + 1][f[n]] ELSE f[k]
          OBVIOUS
        <5> HIDE DEF h
        <5>4. CASE k = n + 1
          BY <5>1, <5>2, <5>3, <5>4
        <5>5. CASE k # n + 1
          <6>1. k \in 1 .. n
            BY <5>5
          <6> QED  BY <3>1, <5>2, <5>3, <5>5, <6>1
        <5> QED  BY <5>4, <5>5
      <4> QED  BY <4>2, <4>3, <4>4
    <3> HIDE DEF h, Upto
    <3> QED  BY <3>2
  <2> HIDE DEF P
  <2> QED  BY <2>1, <2>2, Induction
<1> DEFINE F == [n \in Nat |-> CHOOSE f : Upto(n, f)]
           g1 == [n \in Nat |-> F[n][n]]
<1>2. \A n \in Nat : Upto(n, F[n])
  <2>1. \A n \in Nat : \E f : Upto(n, f)
    BY <1>1
  <2> HIDE DEF Upto
  <2> QED  BY <2>1
<1>3. ASSUME NEW n \in Nat PROVE F[n + 1][n] = F[n][n]
  <2> DEFINE A == {k \in Nat : k <= n => F[n + 1][k] = F[n][k]}
  <2>1. Nat \subseteq A
    <3> HIDE DEF F
    <3>1. 0 \in A
      BY <1>2
    <3>2. ASSUME NEW k \in Nat, k \in A PROVE k + 1 \in A
      <4> SUFFICES ASSUME k + 1 <= n PROVE F[n + 1][k + 1] = F[n][k + 1]
        OBVIOUS
      <4>1. F[n + 1][k] = F[n][k]
        BY <3>2
      <4>2. F[n][k + 1] = step[k + 1][F[n][k]]
        BY <1>2
      <4>3. F[n + 1][k + 1] = step[k + 1][F[n + 1][k]]
        BY <1>2
      <4> QED  BY <4>1, <4>2, <4>3
    <3> HIDE DEF A
    <3> QED  BY <3>1, <3>2, Induction
  <2> HIDE DEF F
  <2> QED  BY <2>1
<1>4. g1 \in [Nat -> X] /\ g1[0] = a
  <2> HIDE DEF F
  <2>1. \A n \in Nat : F[n][n] \in X
    BY <1>2
  <2> QED  BY <1>2, <2>1
<1>5. ASSUME NEW k \in Nat \ {0} PROVE g1[k] = step[k][g1[k - 1]]
  <2> HIDE DEF F
  <2>1. F[k][k] = step[k][F[k][k - 1]]
    BY <1>2
  <2>2. k - 1 \in Nat /\ k - 1 + 1 = k
    OBVIOUS
  <2>3. F[k][k - 1] = F[k - 1][k - 1]
    BY <1>3, <2>2
  <2> QED  BY <2>1, <2>2, <2>3
<1> HIDE DEF g1
<1>6. g1 = [k \in Nat |-> IF k = 0 THEN a ELSE step[k][g1[k - 1]]]
  BY <1>4, <1>5
<1>7. \A k \in Nat : g1[k + 1] = step[k + 1][g1[k]]
  BY <1>5
<1> QED  BY <1>4, <1>6, <1>7 DEF AreRounds

(* A total that each element adds to once, whatever the order.             *)
IsTotal(W, V, w) ==
    /\ w \in [V -> Nat] /\ W \in [SUBSET V -> Nat] /\ W[{}] = 0
    /\ \A T \in SUBSET V : \A x \in V \ T : W[T \cup {x}] = W[T] + w[x]

(* There is a total for every subset of 0 .. n - 1.                        *)
LEMMA TotalExists ==
    ASSUME NEW n \in Nat, NEW w \in [0 .. n - 1 -> Nat]
    PROVE  \E W : IsTotal(W, 0 .. n - 1, w)
<1> DEFINE V == 0 .. n - 1
           X == [SUBSET V -> Nat]
           part(k, T) == IF k \in T THEN w[k] ELSE 0
           step == [k \in Nat |-> [x \in X |-> [T \in SUBSET V |-> x[T] + part(k - 1, T)]]]
           a == [T \in SUBSET V |-> 0]
<1>1. a \in X
  OBVIOUS
<1>2. \A k \in Nat, T \in SUBSET V : part(k, T) \in Nat /\ part(k - 1, T) \in Nat
  OBVIOUS
<1>3. step \in [Nat -> [X -> X]]
  <2>1. ASSUME NEW k \in Nat, NEW x \in X
        PROVE  [T \in SUBSET V |-> x[T] + part(k - 1, T)] \in X
    <3>1. \A T \in SUBSET V : x[T] \in Nat /\ part(k - 1, T) \in Nat
      BY <1>2
    <3> HIDE DEF part, V
    <3> QED  BY <3>1
  <2> HIDE DEF part, V, X
  <2> QED  BY <2>1
<1>4. PICK f : AreRounds(f, X, a, step)
  <2> HIDE DEF X, a, step, V, part
  <2> QED  BY <1>1, <1>3, Rounds
<1>5. ASSUME NEW k \in Nat, NEW T \in SUBSET V
      PROVE  /\ f[k][T] \in Nat /\ f[0][T] = 0
             /\ f[k + 1][T] = f[k][T] + part(k, T)
  <2>1. f[k] \in X /\ f[0] = a
    BY <1>4 DEF AreRounds
  <2>2. f[k + 1] = [R \in SUBSET V |-> f[k][R] + part(k, R)]
    <3>1. step[k + 1] = [x \in X |-> [R \in SUBSET V |-> x[R] + part(k, R)]]
      <4>1. k + 1 \in Nat /\ k + 1 - 1 = k
        OBVIOUS
      <4> HIDE DEF part, X, V
      <4> QED  BY <4>1
    <3> HIDE DEF part, X, V, step
    <3> QED  BY <1>4, <2>1, <3>1 DEF AreRounds
  <2> HIDE DEF V, part
  <2> QED  BY <2>1, <2>2
<1>6. \A k \in Nat : f[k] \in X
  BY <1>4 DEF AreRounds
<1> DEFINE E == {k \in Nat : f[k][{}] = 0}
<1>7. n \in E
  <2>1. 0 \in E
    BY <1>5
  <2>2. \A k \in Nat : k \in E => k + 1 \in E
    <3>1. \A k \in Nat : part(k, {}) = 0 /\ {} \in SUBSET V
      OBVIOUS
    <3>2. \A k \in Nat : f[k + 1][{}] = f[k][{}] + part(k, {})
      BY <1>5, <3>1
    <3> HIDE DEF part
    <3> QED  BY <3>1, <3>2
  <2> HIDE DEF E
  <2> QED  BY <2>1, <2>2, Induction
<1>8. ASSUME NEW T \in SUBSET V, NEW x \in V \ T
      PROVE  f[n][T \cup {x}] = f[n][T] + w[x]
  <2> DEFINE R == T \cup {x}
             S == {k \in Nat : f[k][R] = f[k][T] + IF x < k THEN w[x] ELSE 0}
  <2>0. R \in SUBSET V /\ w[x] \in Nat /\ x \in Nat /\ x < n
    OBVIOUS
  <2>1. \A k \in Nat : /\ f[k][R] \in Nat /\ f[k][T] \in Nat /\ f[0][R] = 0 /\ f[0][T] = 0
                       /\ f[k + 1][R] = f[k][R] + part(k, R)
                       /\ f[k + 1][T] = f[k][T] + part(k, T)
    BY <1>5, <2>0
  <2>2. \A k \in Nat : /\ part(k, R) = part(k, T) + IF k = x THEN w[x] ELSE 0
                       /\ part(k, T) \in Nat
    BY <1>2, <2>0
  <2> HIDE DEF part, R
  <2>3. 0 \in S
    <3>1. f[0][R] = 0 /\ f[0][T] = 0
      BY <1>5, <2>0
    <3>2. ~(x < 0)
      BY <2>0
    <3> QED  BY <3>1, <3>2
  <2>4. ASSUME NEW k \in Nat, k \in S PROVE k + 1 \in S
    <3>1. x < k + 1 <=> x < k \/ k = x
      BY <2>0
    <3>2. /\ f[k + 1][R] = f[k][R] + part(k, R) /\ f[k + 1][T] = f[k][T] + part(k, T)
          /\ part(k, R) = part(k, T) + IF k = x THEN w[x] ELSE 0
          /\ f[k][R] \in Nat /\ f[k][T] \in Nat /\ part(k, T) \in Nat
      BY <2>1, <2>2
    <3>3. f[k][R] = f[k][T] + IF x < k THEN w[x] ELSE 0
      BY <2>4
    <3>4. k + 1 \in Nat /\ (k = x => ~(x < k))
      BY <2>0
    <3>5. f[k + 1][R] = f[k + 1][T] + IF x < k + 1 THEN w[x] ELSE 0
      <4>1. CASE k = x
        BY <2>0, <3>1, <3>2, <3>3, <3>4, <4>1
      <4>2. CASE k # x
        BY <2>0, <3>1, <3>2, <3>3, <3>4, <4>2
      <4> QED  BY <4>1, <4>2
    <3> QED  BY <3>4, <3>5
  <2>5. n \in S
    <3> HIDE DEF S
    <3> QED  BY <2>3, <2>4, Induction
  <2> QED  BY <2>0, <2>5 DEF R
<1>9. IsTotal(f[n], V, w)
  BY <1>6, <1>7, <1>8 DEF IsTotal
<1> QED  BY <1>9

SumOf(w, S) == MapThenSumSet(LAMBDA x : w[x], S)

(* Any such total is the sum the model computes.                           *)
LEMMA SumIsTotal ==
    ASSUME NEW V, NEW w, NEW W, IsTotal(W, V, w), NEW S, S \subseteq V, IsFiniteSet(S)
    PROVE  SumOf(w, S) = W[S]
<1> DEFINE pick(s) == CHOOSE x \in s : TRUE
           F(f) == [s \in SUBSET S |-> IF s = {} THEN 0 ELSE w[pick(s)] + f[s \ {pick(s)}]]
           iter == CHOOSE f : f = F(f)
           R == [s \in SUBSET S |-> W[s]]
<1>1. SumOf(w, S) = iter[S]
  BY DEF SumOf, MapThenSumSet, MapThenFoldSet
<1>2. \A s \in SUBSET S : s # {} => /\ pick(s) \in s /\ s \ {pick(s)} \in SUBSET S
                                    /\ W[s] = w[pick(s)] + W[s \ {pick(s)}]
  <2> SUFFICES ASSUME NEW s \in SUBSET S, s # {}
               PROVE  /\ pick(s) \in s /\ s \ {pick(s)} \in SUBSET S
                      /\ W[s] = w[pick(s)] + W[s \ {pick(s)}]
    OBVIOUS
  <2>1. pick(s) \in s
    OBVIOUS
  <2> HIDE DEF pick
  <2> DEFINE r == s \ {pick(s)}
  <2>2. r \in SUBSET V /\ pick(s) \in V \ r /\ r \cup {pick(s)} = s /\ w[pick(s)] \in Nat
    BY <2>1 DEF IsTotal
  <2>3. W[s] = W[r] + w[pick(s)] /\ W[s] \in Nat /\ W[r] \in Nat
    BY <2>2 DEF IsTotal
  <2> QED  BY <2>1, <2>2, <2>3
<1> HIDE DEF pick
<1>3. R = F(R)
  <2>1. \A s \in SUBSET S : R[s] = IF s = {} THEN 0 ELSE w[pick(s)] + R[s \ {pick(s)}]
    BY <1>2 DEF IsTotal
  <2> QED  BY <2>1
<1>4. iter = F(iter)
  <2> HIDE DEF F, R
  <2> QED  BY <1>3
<1> HIDE DEF iter
<1> DEFINE A == {k \in Nat : \A s \in SUBSET S : Cardinality(s) = k => iter[s] = W[s]}
<1>5. \A s \in SUBSET S : IsFiniteSet(s) /\ Cardinality(s) \in Nat
  BY FS_Subset, FS_CardinalityType
<1>6. \A s \in SUBSET S : iter[s] = IF s = {} THEN 0 ELSE w[pick(s)] + iter[s \ {pick(s)}]
  BY <1>4
<1>7. 0 \in A
  <2>1. \A s \in SUBSET S : Cardinality(s) = 0 => s = {}
    BY <1>5, FS_EmptySet
  <2> QED  BY <1>6, <2>1 DEF IsTotal
<1>8. ASSUME NEW k \in Nat, k \in A PROVE k + 1 \in A
  <2> SUFFICES ASSUME NEW s \in SUBSET S, Cardinality(s) = k + 1
               PROVE  iter[s] = W[s]
    OBVIOUS
  <2>1. s # {}
    BY FS_EmptySet
  <2>2. pick(s) \in s /\ s \ {pick(s)} \in SUBSET S
        /\ W[s] = w[pick(s)] + W[s \ {pick(s)}]
    BY <1>2, <2>1
  <2>3. Cardinality(s \ {pick(s)}) = k
    <3>1. Cardinality(s \ {pick(s)}) = Cardinality(s) - 1
      BY <1>5, <2>2, FS_RemoveElement
    <3> QED  BY <3>1
  <2>4. iter[s \ {pick(s)}] = W[s \ {pick(s)}]
    BY <1>8, <2>2, <2>3
  <2> QED  BY <1>6, <2>1, <2>2, <2>4
<1> HIDE DEF A
<1>9. Cardinality(S) \in A
  BY <1>5, <1>7, <1>8, Induction
<1> QED  BY <1>1, <1>9 DEF A

(* The weight of a subgraph: each vertex adds its own.                     *)
LEMMA SubgraphSum ==
    ASSUME NEW V, NEW h, NEW W, IsTotal(W, V, h.weights), IsFiniteSet(V)
    PROVE  \A S \in SUBSET V : SubgraphWeight(h, S) = W[S]
<1>1. ASSUME NEW S, S \subseteq V PROVE SubgraphWeight(h, S) = W[S]
  <2>1. IsFiniteSet(S)
    BY <1>1, FS_Subset
  <2>2. SumOf(h.weights, S) = W[S]
    BY <1>1, <2>1, SumIsTotal
  <2> QED  BY <2>2 DEF SubgraphWeight, SumOf
<1> QED  BY <1>1

(* The weight of a subgraph is a total of the weights.                     *)
LEMMA WeightIsTotal ==
    ASSUME NEW h, Whole(h)
    PROVE  \E W : /\ IsTotal(W, Vertices(h), h.weights)
                  /\ \A S \in SUBSET Vertices(h) : SubgraphWeight(h, S) = W[S]
<1> DEFINE V == 0 .. h.n - 1
<1>1. h.n \in Nat /\ h.weights \in [V -> Nat] /\ V = Vertices(h)
  BY DEF Whole, Vertices
<1>2. PICK W : IsTotal(W, V, h.weights)
  BY <1>1, TotalExists
<1>3. IsFiniteSet(V)
  BY <1>1, FS_Interval
<1> HIDE DEF V
<1>4. \A S \in SUBSET V : SubgraphWeight(h, S) = W[S]
  BY <1>2, <1>3, SubgraphSum
<1> QED  BY <1>1, <1>2, <1>4

(* It grows with each vertex by the weight of the vertex.                  *)
LEMMA WeightAdds ==
    ASSUME NEW h, Whole(h)
    PROVE  /\ SubgraphWeight(h, {}) = 0
           /\ \A S \in SUBSET Vertices(h) :
                 /\ SubgraphWeight(h, S) \in Nat
                 /\ \A v \in Vertices(h) \ S :
                       SubgraphWeight(h, S \cup {v}) = SubgraphWeight(h, S) + h.weights[v]
<1>1. PICK W : /\ IsTotal(W, Vertices(h), h.weights)
               /\ \A S \in SUBSET Vertices(h) : SubgraphWeight(h, S) = W[S]
  BY WeightIsTotal
<1>2. \A S \in SUBSET Vertices(h), v \in Vertices(h) : S \cup {v} \in SUBSET Vertices(h)
  OBVIOUS
<1> QED  BY <1>1, <1>2 DEF IsTotal

-----------------------------------------------------------------------------
(* The orders of reorder.c.                                                *)

(* An extreme element, by a value each has.                                *)
LEMMA ExtremeOf ==
    ASSUME NEW n \in Nat, NEW S, S \subseteq 0 .. n - 1, S # {}, NEW d, \A u \in S : d[u] \in Int
    PROVE  \E v \in S : \A u \in S : d[u] <= d[v]
<1> DEFINE Good(R) == \E v \in R : \A u \in R : d[u] <= d[v]
           A == {k \in Nat : \A R \in SUBSET S : R # {} /\ R \subseteq 0 .. k - 1 => Good(R)}
<1>1. 0 \in A
  <2>1. 0 .. 0 - 1 = {}
    OBVIOUS
  <2>2. \A R : R \subseteq {} => R = {}
    OBVIOUS
  <2> HIDE DEF Good
  <2> QED  BY <2>1, <2>2
<1>2. ASSUME NEW k \in Nat, k \in A PROVE k + 1 \in A
  <2> SUFFICES ASSUME NEW R \in SUBSET S, R # {}, R \subseteq 0 .. k PROVE Good(R)
    OBVIOUS
  <2>1. CASE k \notin R
    <3>1. R \subseteq 0 .. k - 1
      BY <2>1
    <3> QED  BY <1>2, <3>1
  <2>2. CASE R = {k}
    <3>1. d[k] \in Int
      BY <2>2
    <3> QED  BY <2>2, <3>1
  <2>3. CASE k \in R /\ R # {k}
    <3>1. R \ {k} \subseteq 0 .. k - 1 /\ R \ {k} # {} /\ R \ {k} \in SUBSET S
      BY <2>3
    <3>2. PICK v \in R \ {k} : \A u \in R \ {k} : d[u] <= d[v]
      BY <1>2, <3>1
    <3>3. d[v] \in Int /\ d[k] \in Int
      BY <2>3
    <3>4. CASE d[k] <= d[v]
      BY <3>2, <3>4
    <3>5. CASE ~(d[k] <= d[v])
      <4>1. ASSUME NEW u \in R PROVE d[u] <= d[k]
        <5>1. d[u] \in Int
          OBVIOUS
        <5>2. u # k => d[u] <= d[v]
          BY <3>2
        <5> QED  BY <3>3, <3>5, <5>1, <5>2
      <4> QED  BY <2>3, <4>1
    <3> QED  BY <3>4, <3>5
  <2> QED  BY <2>1, <2>2, <2>3
<1> HIDE DEF A
<1>3. n \in A
  BY <1>1, <1>2, Induction
<1> QED  BY <1>3 DEF A

(* The vertex of largest degree is one of those it is chosen from.         *)
LEMMA LargestLastIsIn ==
    ASSUME NEW n \in Nat, NEW S, S \subseteq 0 .. n - 1, S # {}, NEW d, \A u \in S : d[u] \in Int
    PROVE  LargestLast(d, S) \in S
<1> DEFINE T == {v \in S : \A u \in S : d[u] <= d[v]}
<1>1. T # {} /\ T \subseteq S /\ T \subseteq 0 .. n
  <2>1. \E v \in S : \A u \in S : d[u] <= d[v]
    BY ExtremeOf
  <2>2. T # {} /\ T \subseteq S
    BY <2>1
  <2>3. 0 .. n - 1 \subseteq 0 .. n
    OBVIOUS
  <2> HIDE DEF T
  <2> QED  BY <2>2, <2>3
<1> HIDE DEF T
<1>2. Max(T) \in T
  BY <1>1, GreatestOf
<1> QED  BY <1>1, <1>2 DEF LargestLast, T

-----------------------------------------------------------------------------
(* A sequence that has visited k elements of V, none of them twice.        *)
Visits(order, V, k) ==
    /\ order \in Seq(V) /\ Len(order) = k
    /\ \A i, j \in 1 .. k : order[i] = order[j] => i = j
    /\ Cardinality(V \ ToSet(order)) + k = Cardinality(V)

(* The empty order visits no vertex.                                       *)
LEMMA VisitsNone == \A V : IsFiniteSet(V) => Visits(<<>>, V, 0)
<1> SUFFICES ASSUME NEW V, IsFiniteSet(V) PROVE Visits(<<>>, V, 0)
  OBVIOUS
<1> DEFINE left == V \ ToSet(<<>>)
<1>1. left = V
  BY DEF ToSet
<1>2. Cardinality(V) \in Nat
  BY FS_CardinalityType
<1>3. <<>> \in Seq(V) /\ Len(<<>>) = 0 /\ 1 .. 0 = {}
  OBVIOUS
<1>4. Cardinality(left) + 0 = Cardinality(V)
  <2> HIDE DEF left
  <2> QED  BY <1>1, <1>2
<1>5. \A i, j \in 1 .. 0 : <<>>[i] = <<>>[j] => i = j
  BY <1>3
<1> QED  BY <1>3, <1>4, <1>5 DEF Visits

(* Appending a vertex that was not visited visits one more.                *)
LEMMA VisitsOneMore ==
    ASSUME NEW V, IsFiniteSet(V), NEW k \in Nat, NEW order, Visits(order, V, k),
           NEW v \in V \ ToSet(order)
    PROVE  /\ Visits(Append(order, v), V, k + 1)
           /\ ToSet(Append(order, v)) = ToSet(order) \cup {v}
<1> DEFINE more == Append(order, v)
<1>1. /\ order \in Seq(V) /\ Len(order) = k
      /\ \A i, j \in 1 .. k : order[i] = order[j] => i = j
  BY DEF Visits
<1>2. /\ more \in Seq(V) /\ Len(more) = k + 1 /\ more[k + 1] = v
      /\ \A i \in 1 .. k : more[i] = order[i]
  BY <1>1
<1>3. \A i \in 1 .. k : order[i] \in ToSet(order)
  BY <1>1 DEF ToSet
<1>4. ToSet(more) = ToSet(order) \cup {v}
  <2>1. DOMAIN more = 1 .. k + 1 /\ DOMAIN order = 1 .. k
    BY <1>1, <1>2
  <2>2. 1 .. k + 1 = (1 .. k) \cup {k + 1}
    OBVIOUS
  <2> HIDE DEF more
  <2> QED  BY <1>2, <2>1, <2>2 DEF ToSet
<1>5. \A i, j \in 1 .. k + 1 : more[i] = more[j] => i = j
  <2>1. \A i \in 1 .. k + 1 : i \in 1 .. k \/ i = k + 1
    OBVIOUS
  <2> HIDE DEF more
  <2> QED  BY <1>1, <1>2, <1>3, <2>1
<1>6. Cardinality(V \ ToSet(more)) + (k + 1) = Cardinality(V)
  <2>1. V \ ToSet(more) = (V \ ToSet(order)) \ {v}
    BY <1>4
  <2>2. IsFiniteSet(V \ ToSet(order))
    BY FS_Subset
  <2>3. Cardinality((V \ ToSet(order)) \ {v}) = Cardinality(V \ ToSet(order)) - 1
    BY <2>2, FS_RemoveElement
  <2>4. Cardinality(V \ ToSet(order)) \in Nat /\ Cardinality(V) \in Nat
    BY <2>2, FS_CardinalityType
  <2>5. Cardinality(V \ ToSet(order)) + k = Cardinality(V)
    BY DEF Visits
  <2> HIDE DEF more
  <2> QED  BY <2>1, <2>3, <2>4, <2>5
<1> HIDE DEF more
<1>7. Visits(more, V, k + 1)
  BY <1>2, <1>5, <1>6 DEF Visits
<1> QED  BY <1>4, <1>7 DEF more

(* Before all are visited there is one left.                               *)
LEMMA SomeAreLeft ==
    ASSUME NEW V, IsFiniteSet(V), NEW k \in Nat, NEW order, Visits(order, V, k), k < Cardinality(V)
    PROVE  V \ ToSet(order) # {}
<1>1. Cardinality({}) = 0
  BY FS_EmptySet
<1>2. Cardinality(V \ ToSet(order)) + k = Cardinality(V)
  BY DEF Visits
<1>3. Cardinality(V) \in Nat
  BY FS_CardinalityType
<1> QED  BY <1>1, <1>2, <1>3

(* A sequence that visited all of n vertices is an order of them.          *)
LEMMA VisitsAreOrders ==
    ASSUME NEW n \in Nat, NEW order, Visits(order, 0 .. n - 1, n)
    PROVE  IsBijection(AsOrder(order), n)
<1>1. /\ order \in Seq(0 .. n - 1) /\ Len(order) = n
      /\ \A i, j \in 1 .. n : order[i] = order[j] => i = j
  BY DEF Visits
<1>2. \A i \in 0 .. n - 1 : AsOrder(order)[i] = order[i + 1] /\ i + 1 \in 1 .. n
  BY <1>1 DEF AsOrder
<1> QED  BY <1>1, <1>2 DEF IsBijection

(* Every order that needs no loop.                                         *)
LEMMA PlainOrders ==
    ASSUME NEW h, Whole(h)
    PROVE  IsBijection(Ident(h.n), h.n) /\ IsBijection(ByReverse(h), h.n)
<1>1. h.n \in Nat
  BY DEF Whole
<1> QED  BY <1>1 DEF IsBijection, Ident, ByReverse, Vertices

(* The degrees reorder_by_degree starts from.                              *)
LEMMA DegreesAre ==
    ASSUME NEW h, Whole(h)
    PROVE  /\ IsFiniteSet(Vertices(h)) /\ Cardinality(Vertices(h)) = h.n
           /\ \A v \in Vertices(h) : Degrees(h)[v] \in Nat
           /\ Degrees(h) \in [Vertices(h) -> Int]
<1>1. h.n \in Nat
  BY DEF Whole
<1>2. IsFiniteSet(0 .. h.n - 1) /\ Cardinality(0 .. h.n - 1) = h.n
  BY <1>1, FS_Interval
<1>3. IsFiniteSet(Vertices(h)) /\ Cardinality(Vertices(h)) = h.n
  BY <1>2 DEF Vertices
<1>4. ASSUME NEW v \in Vertices(h) PROVE Cardinality(Neighbours(h, v)) \in Nat
  <2>1. Neighbours(h, v) \subseteq Vertices(h)
    BY DEF Neighbours
  <2> QED  BY <1>3, <2>1, FS_Subset, FS_CardinalityType
<1> QED  BY <1>3, <1>4 DEF Degrees

(* reorder_by_degree visits every vertex once.                             *)
LEMMA ByDegreeIsOrder ==
    ASSUME NEW h, Whole(h)
    PROVE  IsBijection(ByDegree(h), h.n)
<1> DEFINE V == Vertices(h)
           X == [order : Seq(V), degree : [V -> Int]]
           init == [order |-> <<>>, degree |-> Degrees(h)]
           left(r) == {v \in V : r.degree[v] >= 0}
           next(r) == LargestLast(r.degree, left(r))
           body(r) == IF left(r) = {} THEN r
                      ELSE [order |-> Append(r.order, next(r)), degree |-> Placed(r.degree, next(r))]
           step == [k \in Nat |-> [r \in X |-> body(r)]]
           F(f) == [k \in Nat |-> IF k = 0 THEN init ELSE body(f[k - 1])]
           L == CHOOSE f : f = F(f)
<1>1. ByDegree(h) = AsOrder(L[h.n].order)
  BY DEF ByDegree
<1>2. h.n \in Nat /\ IsFiniteSet(V) /\ Cardinality(V) = h.n /\ V = 0 .. h.n - 1
      /\ Degrees(h) \in [V -> Int] /\ \A v \in V : Degrees(h)[v] >= 0
  BY DegreesAre DEF Whole, Vertices
<1> HIDE DEF V
<1>3. init \in X
  BY <1>2
<1>4. ASSUME NEW r \in X, left(r) # {} PROVE next(r) \in left(r)
  BY <1>2, <1>4, LargestLastIsIn
<1> HIDE DEF next
<1>5. \A r \in X : body(r) \in X
  BY <1>4 DEF Placed
<1>6. PICK f : AreRounds(f, X, init, step)
  <2>1. step \in [Nat -> [X -> X]]
    <3> HIDE DEF X, body
    <3> QED  BY <1>5
  <2> HIDE DEF X, step, init
  <2> QED  BY <1>3, <2>1, Rounds
<1>7. f = F(f) /\ \A k \in Nat : f[k] \in X
  <2> HIDE DEF X, body, init
  <2> QED  BY <1>6 DEF AreRounds
<1>8. L = F(L)
  <2> HIDE DEF F
  <2> QED  BY <1>7
<1> HIDE DEF L
<1>9. L[0] = init /\ \A k \in Nat : L[k + 1] = body(L[k])
  <2> HIDE DEF body, init
  <2> QED  BY <1>8
<1> DEFINE Inv(k, r) == /\ Visits(r.order, V, k) /\ r \in X
                        /\ \A v \in V : r.degree[v] >= 0 <=> v \notin ToSet(r.order)
           S == {k \in Nat : k <= h.n => Inv(k, L[k])}
<1>10. 0 \in S
  <2>1. Visits(<<>>, V, 0) /\ ToSet(<<>>) = {}
    BY <1>2, VisitsNone DEF ToSet
  <2>2. Inv(0, init)
    BY <1>2, <1>3, <2>1
  <2> HIDE DEF Inv, init
  <2> QED  BY <1>9, <2>2
<1>11. ASSUME NEW k \in Nat, k \in S PROVE k + 1 \in S
  <2> DEFINE r == L[k]
  <2> SUFFICES ASSUME k + 1 <= h.n PROVE Inv(k + 1, body(r))
    <3> HIDE DEF body, Inv
    <3> QED  BY <1>9
  <2>1. Inv(k, r) /\ k < h.n
    BY <1>2, <1>11
  <2> HIDE DEF r
  <2>2. left(r) = V \ ToSet(r.order)
    BY <2>1
  <2>3. left(r) # {}
    <3>1. Visits(r.order, V, k) /\ k < Cardinality(V)
      BY <1>2, <2>1
    <3>2. V \ ToSet(r.order) # {}
      BY <1>2, <3>1, SomeAreLeft
    <3> HIDE DEF left
    <3> QED  BY <2>2, <3>2
  <2>4. next(r) \in V \ ToSet(r.order)
    BY <1>4, <2>1, <2>2, <2>3
  <2>5. /\ Visits(Append(r.order, next(r)), V, k + 1)
        /\ ToSet(Append(r.order, next(r))) = ToSet(r.order) \cup {next(r)}
    BY <1>2, <2>1, <2>4, VisitsOneMore
  <2>6. body(r) = [order |-> Append(r.order, next(r)), degree |-> Placed(r.degree, next(r))]
    BY <2>3
  <2>7. \A v \in V : Placed(r.degree, next(r))[v] = IF v = next(r) THEN -1 ELSE r.degree[v]
    BY <2>1, <2>4 DEF Placed
  <2>8. body(r) \in X
    BY <1>5, <2>1
  <2> HIDE DEF body, X, left
  <2> QED  BY <2>1, <2>4, <2>5, <2>6, <2>7, <2>8
<1> HIDE DEF S
<1>12. h.n \in S
  BY <1>2, <1>10, <1>11, Induction
<1>13. Visits(L[h.n].order, 0 .. h.n - 1, h.n)
  BY <1>2, <1>12 DEF S
<1> QED  BY <1>1, <1>2, <1>13, VisitsAreOrders

(* Edges have no direction, and there are no loops.                        *)
LEMMA EdgesAre ==
    ASSUME NEW h, Whole(h), NEW u \in Vertices(h), NEW v \in Vertices(h)
    PROVE  /\ IsEdge(h, u, v) \in BOOLEAN
           /\ IsEdge(h, u, v) <=> IsEdge(h, v, u)
           /\ ~IsEdge(h, u, u)
<1>1. u \in 0 .. h.n - 1 /\ v \in 0 .. h.n - 1
  BY DEF Vertices
<1>2. IsEdge(h, u, v) \in BOOLEAN
  BY DEF IsEdge, SetContains
<1>3. /\ IsEdge(h, u, v) <=> v \in h.edges[u].bits
      /\ IsEdge(h, v, u) <=> u \in h.edges[v].bits
      /\ IsEdge(h, u, u) <=> u \in h.edges[u].bits
  BY <1>1, EdgeIs
<1>4. /\ v \in h.edges[u].bits <=> u \in h.edges[v].bits
      /\ u \notin h.edges[u].bits
  BY <1>1 DEF Whole
<1> QED  BY <1>2, <1>3, <1>4

(* The colouring that keeps the degrees among the vertices left.           *)
LEMMA UnweightedIsOrder ==
    ASSUME NEW h, Whole(h)
    PROVE  IsBijection(ByUnweightedGreedyColoring(h), h.n)
<1> DEFINE V == Vertices(h)
           X == [order : Seq(V), degree : [V -> Int], used : SUBSET V]
           init == [order |-> <<>>, degree |-> Degrees(h), used |-> {}]
           left(r) == {v \in V : r.degree[v] >= 0}
           used(r) == IF left(r) \subseteq r.used THEN {} ELSE r.used
           next(r) == LargestLast(r.degree, left(r) \ used(r))
           deg(r) == [u \in V |-> Placed(r.degree, next(r))[u] - (IF IsEdge(h, next(r), u) THEN 1 ELSE 0)]
           body(r) == IF left(r) = {} THEN r
                      ELSE [order |-> Append(r.order, next(r)),
                            used |-> used(r) \union Neighbours(h, next(r)),
                            degree |-> deg(r)]
           step == [k \in Nat |-> [r \in X |-> body(r)]]
           F(f) == [k \in Nat |-> IF k = 0 THEN init ELSE body(f[k - 1])]
           L == CHOOSE f : f = F(f)
<1>1. ByUnweightedGreedyColoring(h) = AsOrder(L[h.n].order)
  BY DEF ByUnweightedGreedyColoring
<1>2. h.n \in Nat /\ IsFiniteSet(V) /\ Cardinality(V) = h.n /\ V = 0 .. h.n - 1
      /\ Degrees(h) \in [V -> Int] /\ \A v \in V : Degrees(h)[v] >= 0
  BY DegreesAre DEF Whole, Vertices
<1>e. \A u, v \in V : (IsEdge(h, u, v) <=> IsEdge(h, v, u)) /\ ~IsEdge(h, u, u)
  BY EdgesAre
<1>n. \A v \in V : Neighbours(h, v) = {u \in V : IsEdge(h, v, u)}
  BY DEF Neighbours
<1> HIDE DEF V
<1>3. init \in X
  BY <1>2
<1>4. ASSUME NEW r \in X, left(r) # {} PROVE next(r) \in left(r)
  <2>1. left(r) \ used(r) # {} /\ left(r) \ used(r) \subseteq left(r)
    BY <1>4
  <2>2. \A u \in left(r) \ used(r) : r.degree[u] \in Int
    OBVIOUS
  <2>3. left(r) \ used(r) \subseteq 0 .. h.n - 1
    BY <1>2
  <2> HIDE DEF left, used
  <2>4. next(r) \in left(r) \ used(r)
    BY <1>2, <2>1, <2>2, <2>3, LargestLastIsIn
  <2> HIDE DEF next
  <2> QED  BY <2>4
<1> HIDE DEF next
<1>5. ASSUME NEW r \in X PROVE body(r) \in X
  <2>1. CASE left(r) = {}
    BY <2>1
  <2>2. CASE left(r) # {}
    <3>1. next(r) \in V
      BY <1>4, <2>2
    <3>2. Append(r.order, next(r)) \in Seq(V)
      BY <3>1
    <3>3. used(r) \union Neighbours(h, next(r)) \in SUBSET V
      BY <1>n, <3>1
    <3>4. deg(r) \in [V -> Int]
      <4>1. \A u \in V : Placed(r.degree, next(r))[u] \in Int
        BY <3>1 DEF Placed
      <4> QED  BY <4>1
    <3> HIDE DEF used, deg
    <3> QED  BY <2>2, <3>2, <3>3, <3>4
  <2> QED  BY <2>1, <2>2
<1>6. PICK f : AreRounds(f, X, init, step)
  <2>1. step \in [Nat -> [X -> X]]
    <3> HIDE DEF X, body
    <3> QED  BY <1>5
  <2> HIDE DEF X, step, init
  <2> QED  BY <1>3, <2>1, Rounds
<1>7. f = F(f) /\ \A k \in Nat : f[k] \in X
  <2> HIDE DEF X, body, init
  <2> QED  BY <1>6 DEF AreRounds
<1>8. L = F(L)
  <2> HIDE DEF F
  <2> QED  BY <1>7
<1> HIDE DEF L
<1>9. L[0] = init /\ \A k \in Nat : L[k + 1] = body(L[k])
  <2> HIDE DEF body, init
  <2> QED  BY <1>8
<1> DEFINE near(r, v) == {u \in V \ ToSet(r.order) : IsEdge(h, v, u)}
           Inv(k, r) == /\ Visits(r.order, V, k) /\ r \in X
                        /\ \A v \in V : IF v \in ToSet(r.order) THEN r.degree[v] < 0
                                        ELSE r.degree[v] = Cardinality(near(r, v))
           S == {k \in Nat : k <= h.n => Inv(k, L[k])}
<1>10. 0 \in S
  <2>1. Visits(<<>>, V, 0) /\ ToSet(<<>>) = {}
    BY <1>2, VisitsNone DEF ToSet
  <2>2. ASSUME NEW v \in V PROVE Degrees(h)[v] = Cardinality(near(init, v))
    <3>1. Degrees(h)[v] = Cardinality(Neighbours(h, v))
      BY DEF Degrees, V
    <3>2. near(init, v) = Neighbours(h, v)
      BY <1>n, <2>1
    <3> HIDE DEF near
    <3> QED  BY <3>1, <3>2
  <2>3. Inv(0, init)
    <3> HIDE DEF near, X
    <3> QED  BY <1>3, <2>1, <2>2
  <2> HIDE DEF Inv, init
  <2> QED  BY <1>9, <2>3
<1>11. ASSUME NEW k \in Nat, k \in S PROVE k + 1 \in S
  <2> DEFINE r == L[k]
             v == next(r)
  <2> SUFFICES ASSUME k + 1 <= h.n PROVE Inv(k + 1, body(r))
    <3> HIDE DEF body, Inv
    <3> QED  BY <1>9
  <2>1. Inv(k, r) /\ k < h.n
    <3> HIDE DEF Inv
    <3> QED  BY <1>2, <1>11
  <2> HIDE DEF r
  <2>c. \A u \in V : IsFiniteSet(near(r, u)) /\ Cardinality(near(r, u)) \in Nat
    <3> SUFFICES ASSUME NEW u \in V PROVE IsFiniteSet(near(r, u)) /\ Cardinality(near(r, u)) \in Nat
      OBVIOUS
    <3>1. near(r, u) \subseteq V
      OBVIOUS
    <3> HIDE DEF near
    <3> QED  BY <1>2, <3>1, FS_Subset, FS_CardinalityType
  <2>2. left(r) = V \ ToSet(r.order)
    <3>1. ASSUME NEW u \in V PROVE r.degree[u] >= 0 <=> u \notin ToSet(r.order)
      <4>1. r.degree[u] \in Int
        BY <2>1
      <4>2. IF u \in ToSet(r.order) THEN r.degree[u] < 0 ELSE r.degree[u] = Cardinality(near(r, u))
        BY <2>1
      <4> HIDE DEF near
      <4> QED  BY <2>c, <4>1, <4>2
    <3> QED  BY <3>1
  <2>3. left(r) # {}
    <3>1. Visits(r.order, V, k) /\ k < Cardinality(V)
      BY <1>2, <2>1
    <3>2. V \ ToSet(r.order) # {}
      BY <1>2, <3>1, SomeAreLeft
    <3> HIDE DEF left
    <3> QED  BY <2>2, <3>2
  <2>4. v \in V \ ToSet(r.order)
    BY <1>4, <2>1, <2>2, <2>3
  <2>5. /\ Visits(Append(r.order, v), V, k + 1)
        /\ ToSet(Append(r.order, v)) = ToSet(r.order) \cup {v}
    <3> HIDE DEF near, X
    <3> QED  BY <1>2, <2>1, <2>4, VisitsOneMore
  <2>6. /\ body(r).order = Append(r.order, v) /\ body(r).degree = deg(r)
        /\ body(r) \in X
    <3>1. body(r) \in X
      BY <1>5, <2>1
    <3> HIDE DEF deg, used
    <3> QED  BY <2>3, <3>1
  <2>7. ASSUME NEW u \in V
        PROVE  IF u \in ToSet(r.order) \cup {v} THEN deg(r)[u] < 0
               ELSE deg(r)[u] = Cardinality({x \in V \ (ToSet(r.order) \cup {v}) : IsEdge(h, u, x)})
    <3> DEFINE after == {x \in V \ (ToSet(r.order) \cup {v}) : IsEdge(h, u, x)}
    <3>1. deg(r)[u] = (IF u = v THEN -1 ELSE r.degree[u]) - (IF IsEdge(h, v, u) THEN 1 ELSE 0)
      BY <2>1, <2>4 DEF Placed
    <3>2. r.degree[u] \in Int
      BY <2>1
    <3>3. CASE u \in ToSet(r.order) \cup {v}
      <4>1. u # v => r.degree[u] < 0
        BY <2>1, <3>3
      <4> HIDE DEF deg
      <4> QED  BY <3>1, <3>2, <3>3, <4>1
    <3>4. CASE u \notin ToSet(r.order) \cup {v}
      <4>1. r.degree[u] = Cardinality(near(r, u))
        BY <2>1, <3>4
      <4>2. after = near(r, u) \ {v} /\ (v \in near(r, u) <=> IsEdge(h, v, u))
        BY <1>e, <2>4
      <4>3. Cardinality(near(r, u) \ {v}) = IF v \in near(r, u) THEN Cardinality(near(r, u)) - 1
                                            ELSE Cardinality(near(r, u))
        <5> HIDE DEF near
        <5> QED  BY <2>c, FS_RemoveElement
      <4> HIDE DEF deg, near, after, v
      <4>4. deg(r)[u] = Cardinality(after)
        BY <2>c, <3>1, <3>2, <3>4, <4>1, <4>2, <4>3
      <4> QED  BY <3>4, <4>4 DEF after
    <3> QED  BY <3>3, <3>4
  <2> HIDE DEF body, X, left, deg, v
  <2> QED  BY <2>5, <2>6, <2>7
<1> HIDE DEF S
<1>12. h.n \in S
  BY <1>2, <1>10, <1>11, Induction
<1>13. Visits(L[h.n].order, 0 .. h.n - 1, h.n)
  BY <1>2, <1>12 DEF S
<1> QED  BY <1>1, <1>2, <1>13, VisitsAreOrders

(* The vertex chosen next is one of those left.                            *)
LEMMA LightestIsLeft ==
    ASSUME NEW h, Whole(h), NEW left, left \subseteq Vertices(h), left # {}
    PROVE  Lightest(h, left) \in left
<1> DEFINE V == Vertices(h)
           around(v) == SubgraphWeight(h, Neighbours(h, v) \intersect left)
           d == [v \in V |-> around(v)]
           up == [v \in V |-> 0 - h.weights[v]]
           light == {v \in left : \A u \in left : h.weights[v] <= h.weights[u]}
           best == {v \in light : \A u \in light : around(u) <= around(v)}
<1>1. h.n \in Nat /\ V = 0 .. h.n - 1 /\ \A v \in V : h.weights[v] \in Nat
  BY DEF Whole, Vertices
<1>2. \A v \in V : around(v) \in Nat
  <2> SUFFICES ASSUME NEW v \in V PROVE around(v) \in Nat
    OBVIOUS
  <2>1. Neighbours(h, v) \intersect left \in SUBSET V
    OBVIOUS
  <2> QED  BY <2>1, WeightAdds
<1> HIDE DEF V, around
<1>3. light # {} /\ light \subseteq left
  <2>1. left \subseteq 0 .. h.n - 1 /\ \A u \in left : up[u] \in Int /\ up[u] = 0 - h.weights[u]
    BY <1>1 DEF V
  <2> HIDE DEF up
  <2>2. PICK v \in left : \A u \in left : up[u] <= up[v]
    BY <1>1, <2>1, ExtremeOf
  <2>3. ASSUME NEW u \in left PROVE h.weights[v] <= h.weights[u]
    <3>1. h.weights[v] \in Nat /\ h.weights[u] \in Nat
      BY <1>1 DEF V
    <3>2. 0 - h.weights[u] <= 0 - h.weights[v]
      BY <2>1, <2>2
    <3> QED  BY <3>1, <3>2
  <2> QED  BY <2>3
<1>4. best # {} /\ best \subseteq light
  <2>1. light \subseteq 0 .. h.n - 1 /\ \A u \in light : d[u] \in Int /\ d[u] = around(u)
    BY <1>1, <1>2, <1>3 DEF V
  <2> HIDE DEF d, light
  <2>2. PICK v \in light : \A u \in light : d[u] <= d[v]
    BY <1>1, <1>3, <2>1, ExtremeOf
  <2> QED  BY <2>1, <2>2
<1> HIDE DEF light
<1>5. best \subseteq 0 .. h.n
  <2>1. \A v \in best : v \in 0 .. h.n - 1
    BY <1>1, <1>3, <1>4 DEF V
  <2> HIDE DEF best
  <2> QED  BY <1>1, <2>1
<1> HIDE DEF best
<1>6. Max(best) \in best
  BY <1>1, <1>4, <1>5, GreatestOf
<1>7. Lightest(h, left) = Max(best)
  BY DEF Lightest, best, light, around
<1> QED  BY <1>3, <1>4, <1>6, <1>7

(* reorder_by_weighted_greedy_coloring visits every vertex once.           *)
LEMMA WeightedIsOrder ==
    ASSUME NEW h, Whole(h)
    PROVE  IsBijection(ByWeightedGreedyColoring(h), h.n)
<1> DEFINE V == Vertices(h)
           X == Seq(V)
           left(order) == V \ ToSet(order)
           body(order) == IF left(order) = {} THEN order ELSE Append(order, Lightest(h, left(order)))
           step == [k \in Nat |-> [order \in X |-> body(order)]]
           F(f) == [k \in Nat |-> IF k = 0 THEN <<>> ELSE body(f[k - 1])]
           L == CHOOSE f : f = F(f)
<1>1. ByWeightedGreedyColoring(h) = AsOrder(L[h.n])
  BY DEF ByWeightedGreedyColoring
<1>2. h.n \in Nat /\ IsFiniteSet(V) /\ Cardinality(V) = h.n /\ V = 0 .. h.n - 1
  BY DegreesAre DEF Whole, Vertices
<1>3. \A order : left(order) # {} => Lightest(h, left(order)) \in left(order)
  BY LightestIsLeft
<1> HIDE DEF V
<1>4. <<>> \in X
  OBVIOUS
<1>5. \A order \in X : body(order) \in X
  BY <1>3
<1>6. PICK f : AreRounds(f, X, <<>>, step)
  <2>1. step \in [Nat -> [X -> X]]
    <3> HIDE DEF X, body
    <3> QED  BY <1>5
  <2> HIDE DEF X, step
  <2> QED  BY <1>4, <2>1, Rounds
<1>7. f = F(f)
  <2> HIDE DEF X, body
  <2> QED  BY <1>6 DEF AreRounds
<1>8. L = F(L)
  <2> HIDE DEF F
  <2> QED  BY <1>7
<1> HIDE DEF L
<1>9. L[0] = <<>> /\ \A k \in Nat : L[k + 1] = body(L[k])
  <2> HIDE DEF body
  <2> QED  BY <1>8
<1> DEFINE S == {k \in Nat : k <= h.n => Visits(L[k], V, k)}
<1>10. 0 \in S
  BY <1>2, <1>9, VisitsNone
<1>11. ASSUME NEW k \in Nat, k \in S PROVE k + 1 \in S
  <2> DEFINE order == L[k]
  <2> SUFFICES ASSUME k + 1 <= h.n PROVE Visits(body(order), V, k + 1)
    <3> HIDE DEF body
    <3> QED  BY <1>9
  <2>1. Visits(order, V, k) /\ k < Cardinality(V)
    BY <1>2, <1>11
  <2> HIDE DEF order
  <2>2. left(order) # {}
    BY <1>2, <2>1, SomeAreLeft
  <2>3. Lightest(h, left(order)) \in V \ ToSet(order)
    BY <1>3, <2>2
  <2> QED  BY <1>2, <2>1, <2>2, <2>3, VisitsOneMore
<1> HIDE DEF S
<1>12. h.n \in S
  BY <1>2, <1>10, <1>11, Induction
<1>13. Visits(L[h.n], 0 .. h.n - 1, h.n)
  BY <1>2, <1>12 DEF S
<1> QED  BY <1>1, <1>2, <1>13, VisitsAreOrders

(* Every order of reorder.c visits each vertex once.                       *)
LEMMA OrdersAreBijections ==
    ASSUME NEW h, Whole(h), NEW order \in Orders(h)
    PROVE  IsBijection(order, h.n)
<1>1. order \in {Ident(h.n), ByReverse(h), ByDegree(h), ByWeightedGreedyColoring(h),
                 ByUnweightedGreedyColoring(h)}
  BY DEF Orders, ByGreedyColoring
<1> QED  BY <1>1, PlainOrders, ByDegreeIsOrder, WeightedIsOrder, UnweightedIsOrder

-----------------------------------------------------------------------------
(* Files.  A loop of n rounds: a recursive function on 0 .. n.             *)
AreFirst(f, n, X, a, step) ==
    /\ f \in [0 .. n -> X]
    /\ f = [k \in 0 .. n |-> IF k = 0 THEN a ELSE step[k][f[k - 1]]]

(* The states of a loop of n rounds exist.                                 *)
LEMMA FirstRounds ==
    ASSUME NEW n \in Nat, NEW X, NEW a \in X, NEW step \in [1 .. n -> [X -> X]]
    PROVE  \E f : AreFirst(f, n, X, a, step)
<1> DEFINE on == [k \in Nat |-> IF k \in 1 .. n THEN step[k] ELSE [x \in X |-> x]]
<1>1. on \in [Nat -> [X -> X]]
  OBVIOUS
<1>2. \A k \in 1 .. n : on[k] = step[k]
  OBVIOUS
<1> HIDE DEF on
<1>3. PICK f : AreRounds(f, X, a, on)
  BY <1>1, Rounds
<1> DEFINE h == [k \in 0 .. n |-> f[k]]
<1>4. /\ f \in [Nat -> X] /\ f[0] = a
      /\ \A k \in Nat : f[k + 1] = on[k + 1][f[k]]
  BY <1>3 DEF AreRounds
<1>5. h \in [0 .. n -> X]
  BY <1>4
<1>6. ASSUME NEW k \in 0 .. n PROVE h[k] = IF k = 0 THEN a ELSE step[k][h[k - 1]]
  <2>1. h[k] = f[k]
    OBVIOUS
  <2>2. CASE k = 0
    BY <1>4, <2>1, <2>2
  <2>3. CASE k # 0
    <3>1. k \in 1 .. n /\ k - 1 \in Nat /\ k - 1 \in 0 .. n /\ k - 1 + 1 = k
      BY <2>3
    <3>2. h[k - 1] = f[k - 1]
      BY <3>1
    <3>3. f[k] = on[k][f[k - 1]]
      BY <1>4, <3>1
    <3> QED  BY <1>2, <2>1, <2>3, <3>1, <3>2, <3>3
  <2> QED  BY <2>2, <2>3
<1>7. h = [k \in 0 .. n |-> IF k = 0 THEN a ELSE step[k][h[k - 1]]]
  <2> DEFINE k0 == [k \in 0 .. n |-> IF k = 0 THEN a ELSE step[k][h[k - 1]]]
  <2>1. h = [k \in 0 .. n |-> h[k]]
    BY <1>5
  <2> HIDE DEF h
  <2> QED  BY <1>6, <2>1
<1> QED  BY <1>5, <1>7 DEF AreFirst

-----------------------------------------------------------------------------
(* The lines a writer writes and a reader understands, and the graphs, as  *)
(* sets.                                                                   *)
GoodLines == {Problem(n) : n \in Nat \ {0}} \cup {Node(i, w) : i \in Nat, w \in Nat \ {0}}
             \cup {Edge(i, j) : i, j \in Nat}
Graphs(n) == {h \in [n : {n}, edges : [0 .. n - 1 -> Sets], weights : [0 .. n - 1 -> Nat \ {0}]] :
                 Whole(h)}
AnyGraph == (UNION {Graphs(n) : n \in Nat}) \cup {NoGraph}

(* The members of that set are the whole graphs, and NULL.                 *)
LEMMA GraphsAre == \A h : h \in AnyGraph <=> Whole(h) \/ h = NoGraph
<1>1. \A n : \A h \in Graphs(n) : Whole(h)
  BY DEF Graphs
<1>2. \A h : h \in AnyGraph <=> h = NoGraph \/ \E n \in Nat : h \in Graphs(n)
  <2> DEFINE U == {Graphs(n) : n \in Nat}
  <2>1. AnyGraph = (UNION U) \cup {NoGraph}
    BY DEF AnyGraph
  <2>2. (\A x \in U : \E n \in Nat : x = Graphs(n)) /\ \A n \in Nat : Graphs(n) \in U
    OBVIOUS
  <2> HIDE DEF U
  <2>3. \A h : h \in AnyGraph <=> h = NoGraph \/ \E x \in U : h \in x
    <3>1. \A h : h \in AnyGraph <=> h = NoGraph \/ h \in UNION U
      BY <2>1
    <3>2. \A h : h \in UNION U <=> \E x \in U : h \in x
      BY Zenon
    <3> QED  BY <3>1, <3>2
  <2>4. ASSUME NEW h PROVE (\E x \in U : h \in x) <=> \E n \in Nat : h \in Graphs(n)
    <3>1. ASSUME NEW x \in U, h \in x PROVE \E n \in Nat : h \in Graphs(n)
      BY <2>2, <3>1
    <3>2. ASSUME NEW n \in Nat, h \in Graphs(n) PROVE \E x \in U : h \in x
      BY <2>2, <3>2
    <3> QED  BY <3>1, <3>2
  <2> QED  BY <2>3, <2>4
<1> SUFFICES ASSUME NEW h, Whole(h) PROVE h \in Graphs(h.n) /\ h.n \in Nat
  BY <1>1, <1>2
<1>3. /\ h \in [n : Nat, edges : [0 .. h.n - 1 -> Sets], weights : [0 .. h.n - 1 -> Nat \ {0}]]
      /\ h.n \in Nat
  BY DEF Whole
<1>4. h \in [n : {h.n}, edges : [0 .. h.n - 1 -> Sets], weights : [0 .. h.n - 1 -> Nat \ {0}]]
  BY <1>3
<1> QED  BY <1>3, <1>4 DEF Graphs

(* A reader makes a graph of any of them, or gives up.                     *)
LEMMA GoodLineReads ==
    ASSUME NEW h \in AnyGraph, NEW line \in GoodLines
    PROVE  ParseInput(h, line) \in AnyGraph
<1>0. h = NoGraph => ParseInput(h, line) = NoGraph
  BY DEF ParseInput
<1> SUFFICES ASSUME h # NoGraph, ParseInput(h, line) # NoGraph
             PROVE  Whole(ParseInput(h, line))
  BY <1>0, GraphsAre
<1>1. Whole(h) /\ h.n \in Nat
  BY GraphsAre DEF Whole
<1>4. ASSUME NEW n \in Nat \ {0}, line = Problem(n)
      PROVE  Whole(ParseInput(h, line))
  <2>1. line.field = "p" /\ line.n = n
    BY <1>4 DEF Problem
  <2>2. ParseInput(h, line) = GraphNew(n)
    BY <2>1 DEF ParseInput
  <2> QED  BY <2>2, NewIsWhole
<1>5. ASSUME NEW i \in Nat, NEW w \in Nat \ {0}, line = Node(i, w)
      PROVE  Whole(ParseInput(h, line))
  <2>1. line.field = "n" /\ line.i = i /\ line.w = w
    BY <1>5 DEF Node
  <2>2. i \in 1 .. h.n /\ ParseInput(h, line) = [h EXCEPT !.weights[i - 1] = w]
    BY <2>1 DEF ParseInput
  <2>3. i - 1 \in 0 .. h.n - 1
    BY <1>1, <2>2
  <2> QED  BY <1>1, <2>2, <2>3, WeightKeepsWhole
<1>6. ASSUME NEW i \in Nat, NEW j \in Nat, line = Edge(i, j)
      PROVE  Whole(ParseInput(h, line))
  <2>1. line.field = "e" /\ line.i = i /\ line.j = j
    BY <1>6 DEF Edge
  <2>2. ParseInput(h, line) = EdgeLine(h, i, j)
    BY <2>1 DEF ParseInput
  <2>3. i \in 1 .. h.n /\ j \in 1 .. h.n /\ ParseInput(h, line) \in {h, AddEdge(h, i - 1, j - 1)}
        /\ (i = j => ParseInput(h, line) = h)
    BY <2>2 DEF EdgeLine
  <2>4. i - 1 \in 0 .. h.n - 1 /\ j - 1 \in 0 .. h.n - 1 /\ (i # j => i - 1 # j - 1)
    BY <1>1, <2>3
  <2>5. i # j => Whole(AddEdge(h, i - 1, j - 1))
    BY <1>1, <2>4, EditsAreWhole
  <2> QED  BY <1>1, <2>3, <2>5
<1> QED  BY <1>4, <1>5, <1>6 DEF GoodLines

(* The reader's loop over the first lines.                                 *)
IsReading(f, lines) ==
    /\ f \in [0 .. Len(lines) -> AnyGraph] /\ f[0] = Blank
    /\ \A k \in 1 .. Len(lines) : f[k] = ParseInput(f[k - 1], lines[k])
    /\ ReadLines(lines) = f[Len(lines)]
(* The states of the reader, line after line, exist.                       *)
LEMMA ReadingExists ==
    ASSUME NEW lines \in Seq(GoodLines)
    PROVE  \E f : IsReading(f, lines)
<1> DEFINE n == Len(lines)
           step == [k \in 1 .. n |-> [x \in AnyGraph |-> ParseInput(x, lines[k])]]
           F(f) == [k \in 0 .. n |-> IF k = 0 THEN Blank ELSE ParseInput(f[k - 1], lines[k])]
           L == CHOOSE f : f = F(f)
<1>1. ReadLines(lines) = L[n] /\ n \in Nat /\ \A k \in 1 .. n : lines[k] \in GoodLines
  BY DEF ReadLines
<1>2. Blank \in AnyGraph
  BY BlankIsWhole, GraphsAre
<1>3. step \in [1 .. n -> [AnyGraph -> AnyGraph]]
  BY <1>1, GoodLineReads
<1>4. PICK f : AreFirst(f, n, AnyGraph, Blank, step)
  <2> HIDE DEF step, n
  <2> QED  BY <1>1, <1>2, <1>3, FirstRounds
<1>5. f \in [0 .. n -> AnyGraph]
  BY <1>4 DEF AreFirst
<1>6. f = F(f)
  <2>1. \A k \in 0 .. n : f[k] = IF k = 0 THEN Blank ELSE step[k][f[k - 1]]
    <3> HIDE DEF step, n
    <3> QED  BY <1>4 DEF AreFirst
  <2>2. ASSUME NEW k \in 0 .. n
        PROVE  f[k] = IF k = 0 THEN Blank ELSE ParseInput(f[k - 1], lines[k])
    <3>1. k # 0 => k \in 1 .. n /\ k - 1 \in 0 .. n
      BY <1>1
    <3>2. k # 0 => step[k][f[k - 1]] = ParseInput(f[k - 1], lines[k])
      BY <1>5, <3>1
    <3> HIDE DEF step
    <3> QED  BY <2>1, <3>2
  <2>3. f = [k \in 0 .. n |-> f[k]]
    BY <1>5
  <2> QED  BY <2>2, <2>3
<1>7. L = F(L)
  <2> HIDE DEF F
  <2> QED  BY <1>6
<1> HIDE DEF L
<1>8. L[0] = Blank /\ \A k \in 1 .. n : L[k] = ParseInput(L[k - 1], lines[k])
  <2>1. \A k \in 0 .. n : L[k] = IF k = 0 THEN Blank ELSE ParseInput(L[k - 1], lines[k])
    BY <1>7
  <2>2. 0 \in 0 .. n /\ \A k \in 1 .. n : k \in 0 .. n /\ k # 0
    BY <1>1
  <2> QED  BY <2>1, <2>2
<1> DEFINE S == {k \in Nat : k <= n => L[k] \in AnyGraph}
<1>9. 0 \in S
  BY <1>2, <1>8
<1>10. ASSUME NEW k \in Nat, k \in S PROVE k + 1 \in S
  <2> SUFFICES ASSUME k + 1 <= n PROVE L[k + 1] \in AnyGraph
    OBVIOUS
  <2>1. k + 1 \in 1 .. n /\ k + 1 - 1 = k /\ L[k] \in AnyGraph
    BY <1>1, <1>10
  <2>2. L[k + 1] = ParseInput(L[k], lines[k + 1])
    BY <1>8, <2>1
  <2> QED  BY <1>1, <2>1, <2>2, GoodLineReads
<1>11. Nat \subseteq S
  <2> HIDE DEF S
  <2> QED  BY <1>9, <1>10, Induction
<1>12. L = [k \in 0 .. n |-> L[k]]
  BY <1>7
<1>13. \A k \in 0 .. n : L[k] \in AnyGraph
  BY <1>1, <1>11
<1>14. L \in [0 .. n -> AnyGraph]
  BY <1>12, <1>13
<1> QED  BY <1>1, <1>8, <1>14 DEF IsReading

(* One more line is read after all the others.                             *)
LEMMA ReadsOneMore ==
    ASSUME NEW lines \in Seq(GoodLines), NEW line \in GoodLines
    PROVE  /\ ReadLines(Append(lines, line)) = ParseInput(ReadLines(lines), line)
           /\ Append(lines, line) \in Seq(GoodLines) /\ ReadLines(lines) \in AnyGraph
<1> DEFINE n == Len(lines)
           more == Append(lines, line)
<1>1. /\ n \in Nat /\ more \in Seq(GoodLines) /\ Len(more) = n + 1 /\ more[n + 1] = line
      /\ \A k \in 1 .. n : more[k] = lines[k]
  OBVIOUS
<1> HIDE DEF more
<1>2. PICK f : IsReading(f, lines)
  BY ReadingExists
<1>3. PICK h : IsReading(h, more)
  BY <1>1, ReadingExists
<1>4. /\ f[0] = Blank /\ ReadLines(lines) = f[n] /\ f[n] \in AnyGraph
      /\ \A k \in 1 .. n : f[k] = ParseInput(f[k - 1], lines[k])
  <2>1. n \in 0 .. n
    BY <1>1
  <2> QED  BY <1>2, <2>1 DEF IsReading
<1>5. /\ h[0] = Blank /\ ReadLines(more) = h[n + 1]
      /\ \A k \in 1 .. n + 1 : h[k] = ParseInput(h[k - 1], more[k])
  BY <1>1, <1>3 DEF IsReading
<1> DEFINE S == {k \in Nat : k <= n => h[k] = f[k]}
<1>6. 0 \in S
  BY <1>4, <1>5
<1>7. ASSUME NEW k \in Nat, k \in S PROVE k + 1 \in S
  <2> SUFFICES ASSUME k + 1 <= n PROVE h[k + 1] = f[k + 1]
    OBVIOUS
  <2>1. k + 1 \in 1 .. n /\ k + 1 \in 1 .. n + 1 /\ k + 1 - 1 = k /\ h[k] = f[k]
    BY <1>1, <1>7
  <2> QED  BY <1>1, <1>4, <1>5, <2>1
<1>8. h[n] = f[n]
  <2>1. Nat \subseteq S
    <3> HIDE DEF S
    <3> QED  BY <1>6, <1>7, Induction
  <2> QED  BY <1>1, <2>1
<1>9. h[n + 1] = ParseInput(h[n], line)
  <2>1. n + 1 \in 1 .. n + 1 /\ n + 1 - 1 = n
    BY <1>1
  <2> QED  BY <1>1, <1>5, <2>1
<1> QED  BY <1>1, <1>4, <1>5, <1>8, <1>9 DEF more

(* The first line of a file gives an empty graph of the size it says.      *)
LEMMA ReadsFirst ==
    ASSUME NEW n \in Nat \ {0}
    PROVE  <<Problem(n)>> \in Seq(GoodLines) /\ ReadLines(<<Problem(n)>>) = GraphNew(n)
<1> DEFINE line == Problem(n)
<1>1. line \in GoodLines /\ <<>> \in Seq(GoodLines) /\ <<line>> = Append(<<>>, line)
  BY DEF GoodLines
<1>2. ReadLines(<<>>) = Blank
  <2>1. PICK f : IsReading(f, <<>>)
    BY <1>1, ReadingExists
  <2>2. Len(<<>>) = 0
    OBVIOUS
  <2> QED  BY <2>1, <2>2 DEF IsReading
<1>3. line.field = "p" /\ line.n = n
  BY DEF Problem
<1>4. Blank # NoGraph
  <2>1. 0 \in 0 .. MAX_N /\ Blank.n = 0
    BY CliquerAssumption DEF Blank
  <2>2. \A S : <<>> \in [0 .. 0 - 1 -> S]
    OBVIOUS
  <2>3. Blank \in [n : {0}, edges : [0 .. 0 - 1 -> [max : Nat, bits : SUBSET Nat]],
                   weights : [0 .. 0 - 1 -> Nat]]
    BY <2>2 DEF Blank
  <2> QED  BY <2>1, <2>3, NoGraphAssumption
<1>5. ParseInput(Blank, line) = GraphNew(n)
  <2>1. Blank.n = 0 /\ ~(n <= 0)
    BY DEF Blank
  <2> HIDE DEF line
  <2> QED  BY <1>3, <1>4, <2>1 DEF ParseInput
<1> QED  BY <1>1, <1>2, <1>5, ReadsOneMore

(* No graph of a size within the bound is NoGraph.                         *)
LEMMA GraphsAreNotNull ==
    ASSUME NEW h, Whole(h), h.n <= MAX_N
    PROVE  h # NoGraph
<1>1. /\ h \in [n : Nat, edges : [0 .. h.n - 1 -> Sets], weights : [0 .. h.n - 1 -> Nat \ {0}]]
      /\ h.n \in Nat
  BY DEF Whole
<1> DEFINE m == h.n
<1>2. m \in 0 .. MAX_N
  BY <1>1, CliquerAssumption
<1>3. h.edges \in [0 .. m - 1 -> [max : Nat, bits : SUBSET Nat]] /\ h.weights \in [0 .. m - 1 -> Nat]
  BY <1>1 DEF Sets
<1>4. h = [n |-> m, edges |-> h.edges, weights |-> h.weights]
  BY <1>1
<1>5. h \in [n : {m}, edges : [0 .. m - 1 -> [max : Nat, bits : SUBSET Nat]], weights : [0 .. m - 1 -> Nat]]
  BY <1>3, <1>4
<1> HIDE DEF m
<1> QED  BY <1>2, <1>5, NoGraphAssumption

-----------------------------------------------------------------------------
(* What the first part of a file leaves: the weights of the graph, and no  *)
(* edge yet.                                                               *)
Weighed(h, k, r) ==
    /\ Whole(r) /\ r.n = h.n
    /\ \A u, v \in 0 .. h.n - 1 : u \notin r.edges[v].bits
    /\ \A v \in 0 .. h.n - 1 : r.weights[v] = IF v < k THEN h.weights[v] ELSE 1

(* A new graph has the weights of no vertex yet.                           *)
LEMMA NewIsWeighed ==
    ASSUME NEW h, Whole(h), h.n > 0
    PROVE  Weighed(h, 0, GraphNew(h.n))
<1>1. h.n \in Nat \ {0}
  BY DEF Whole
<1>2. Whole(GraphNew(h.n)) /\ GraphNew(h.n).n = h.n
  BY <1>1, NewIsWhole
<1>3. \A v \in 0 .. h.n - 1 : /\ GraphNew(h.n).edges[v].bits = {} /\ GraphNew(h.n).weights[v] = 1
                              /\ ~(v < 0)
  BY <1>1 DEF GraphNew, SetNew
<1> QED  BY <1>2, <1>3 DEF Weighed

(* The line of a vertex gives it its weight; without one it has weight 1.  *)
LEMMA NodeIsRead ==
    ASSUME NEW h, Whole(h), h.n <= MAX_N, NEW k \in 1 .. h.n, NEW r, Weighed(h, k - 1, r)
    PROVE  /\ h.weights[k - 1] # 1 => /\ Node(k, h.weights[k - 1]) \in GoodLines
                                      /\ Weighed(h, k, ParseInput(r, Node(k, h.weights[k - 1])))
           /\ h.weights[k - 1] = 1 => Weighed(h, k, r)
<1> DEFINE w == h.weights[k - 1]
           line == Node(k, w)
           V == 0 .. h.n - 1
           s == [r EXCEPT !.weights[k - 1] = w]
<1>1. h.n \in Nat /\ k - 1 \in V /\ w \in Nat \ {0}
  BY DEF Whole
<1>2. /\ Whole(r) /\ r.n = h.n /\ \A u, v \in V : u \notin r.edges[v].bits
      /\ \A v \in V : r.weights[v] = IF v < k - 1 THEN h.weights[v] ELSE 1
  BY DEF Weighed
<1>3. \A v \in V : v < k <=> v < k - 1 \/ v = k - 1
  BY <1>1
<1>4. w = 1 => Weighed(h, k, r)
  BY <1>1, <1>2, <1>3 DEF Weighed
<1>5. line \in GoodLines
  BY <1>1 DEF GoodLines
<1>6. r # NoGraph
  BY <1>2, GraphsAreNotNull
<1>7. ParseInput(r, line) = s
  <2>1. line.field = "n" /\ line.i = k /\ line.w = w /\ ~(w <= 0) /\ k \in 1 .. r.n
    BY <1>1, <1>2 DEF Node
  <2> HIDE DEF line, w
  <2> QED  BY <1>6, <2>1 DEF ParseInput
<1>8. Whole(s) /\ s.n = r.n
  BY <1>1, <1>2, WeightKeepsWhole
<1>9. s.edges = r.edges /\ \A v \in V : s.weights[v] = IF v = k - 1 THEN w ELSE r.weights[v]
  BY <1>1, <1>2 DEF Whole
<1> HIDE DEF s, line
<1>10. Weighed(h, k, s)
  BY <1>1, <1>2, <1>3, <1>8, <1>9 DEF Weighed
<1> QED  BY <1>4, <1>5, <1>7, <1>10 DEF line

(* The loop over the weights: a line for each that is not 1.               *)
LEMMA HeaderReads ==
    ASSUME NEW h, Whole(h), h.n > 0, h.n <= MAX_N
    PROVE  Header(h) \in Seq(GoodLines) /\ Weighed(h, h.n, ReadLines(Header(h)))
<1> DEFINE n == h.n
           X == Seq(GoodLines)
           init == <<Problem(n)>>
           w(k) == h.weights[k - 1]
           body(k, x) == IF w(k) = 1 THEN x ELSE Append(x, Node(k, w(k)))
           step == [k \in 1 .. n |-> [x \in X |-> body(k, x)]]
           F(f) == [k \in 0 .. n |-> IF k = 0 THEN init ELSE body(k, f[k - 1])]
           L == CHOOSE f : f = F(f)
<1>1. Header(h) = L[n]
  BY DEF Header
<1>2. n \in Nat \ {0} /\ \A k \in 1 .. n : w(k) \in Nat \ {0} /\ k \in Nat
  BY DEF Whole
<1>3. init \in X /\ ReadLines(init) = GraphNew(n)
  BY <1>2, ReadsFirst
<1>4. \A k \in 1 .. n, x \in X : body(k, x) \in X
  BY <1>2 DEF GoodLines
<1> HIDE DEF X
<1>5. PICK f : AreFirst(f, n, X, init, step)
  <2>1. step \in [1 .. n -> [X -> X]]
    <3> HIDE DEF body
    <3> QED  BY <1>4
  <2> HIDE DEF step, init, n
  <2> QED  BY <1>2, <1>3, <2>1, FirstRounds
<1>6. f \in [0 .. n -> X]
  BY <1>5 DEF AreFirst
<1>7. f = F(f)
  <2>1. \A k \in 0 .. n : f[k] = IF k = 0 THEN init ELSE step[k][f[k - 1]]
    <3> HIDE DEF step, n, init
    <3> QED  BY <1>5 DEF AreFirst
  <2>2. ASSUME NEW k \in 0 .. n PROVE f[k] = IF k = 0 THEN init ELSE body(k, f[k - 1])
    <3>1. k # 0 => k \in 1 .. n /\ k - 1 \in 0 .. n
      BY <1>2
    <3>2. k # 0 => step[k][f[k - 1]] = body(k, f[k - 1])
      <4> HIDE DEF body
      <4> QED  BY <1>6, <3>1
    <3> HIDE DEF step, body, init
    <3> QED  BY <2>1, <3>2
  <2>3. f = [k \in 0 .. n |-> f[k]]
    BY <1>6
  <2> HIDE DEF body, init
  <2> QED  BY <2>2, <2>3
<1>8. L = F(L)
  <2> HIDE DEF F
  <2> QED  BY <1>7
<1> HIDE DEF L
<1>9. L[0] = init /\ \A k \in 1 .. n : L[k] = body(k, L[k - 1])
  <2>1. \A k \in 0 .. n : L[k] = IF k = 0 THEN init ELSE body(k, L[k - 1])
    <3> HIDE DEF body, init
    <3> QED  BY <1>8
  <2>2. 0 \in 0 .. n /\ \A k \in 1 .. n : k \in 0 .. n /\ k # 0
    BY <1>2
  <2> HIDE DEF body, init
  <2> QED  BY <2>1, <2>2
<1> DEFINE Inv(k) == L[k] \in X /\ Weighed(h, k, ReadLines(L[k]))
           S == {k \in Nat : k <= n => Inv(k)}
<1>10. 0 \in S
  <2>1. Inv(0)
    BY <1>3, <1>9, NewIsWeighed
  <2> QED  BY <2>1
<1>11. ASSUME NEW k \in Nat, k \in S PROVE k + 1 \in S
  <2> SUFFICES ASSUME k + 1 <= n PROVE Inv(k + 1)
    OBVIOUS
  <2> DEFINE l == k + 1
             x == L[k]
             r == ReadLines(x)
             line == Node(l, w(l))
  <2>1. l \in 1 .. n /\ l - 1 = k /\ Inv(k)
    BY <1>2, <1>11
  <2>2. L[l] = body(l, x)
    BY <1>9, <2>1
  <2>3. /\ w(l) # 1 => line \in GoodLines /\ Weighed(h, l, ParseInput(r, line))
        /\ w(l) = 1 => Weighed(h, l, r)
    BY <2>1, NodeIsRead
  <2>4. line \in GoodLines => /\ Append(x, line) \in X
                              /\ ReadLines(Append(x, line)) = ParseInput(r, line)
    BY <2>1, ReadsOneMore DEF X
  <2> HIDE DEF w, line, r, x
  <2>5. CASE w(l) = 1
    BY <2>1, <2>2, <2>3, <2>5 DEF r, x
  <2>6. CASE w(l) # 1
    BY <2>2, <2>3, <2>4, <2>6 DEF line
  <2> QED  BY <2>5, <2>6
<1>12. Inv(n)
  <2>1. Nat \subseteq S
    <3> HIDE DEF S
    <3> QED  BY <1>10, <1>11, Induction
  <2> HIDE DEF Inv
  <2> QED  BY <1>2, <2>1
<1> QED  BY <1>1, <1>12 DEF X

-----------------------------------------------------------------------------
(* The pairs of vertices row by row: the place of a pair.                  *)
PairOf(n, i, j) == i * n + j + 1

(* The pairs of vertices are numbered row by row.                          *)
LEMMA PairsAre ==
    ASSUME NEW n \in Nat \ {0}
    PROVE  /\ n * n \in Nat
           /\ \A i, j \in 0 .. n - 1 : PairOf(n, i, j) \in 1 .. n * n
           /\ \A k \in 1 .. n * n :
                 /\ Row(n, k) \in 0 .. n - 1 /\ Column(n, k) \in 0 .. n - 1
                 /\ \A i, j \in 0 .. n - 1 : PairOf(n, i, j) = k <=> i = Row(n, k) /\ j = Column(n, k)
<1>1. \A a, b \in Int : a < b => a * n + n <= b * n
  OBVIOUS
<1>2. n * n \in Nat
  OBVIOUS
<1>3. ASSUME NEW i \in 0 .. n - 1, NEW j \in 0 .. n - 1
      PROVE  PairOf(n, i, j) \in 1 .. n * n
  <2>1. i * n + n <= n * n /\ i * n \in Nat
    BY <1>1
  <2> QED  BY <1>2, <2>1 DEF PairOf
<1>4. ASSUME NEW k \in 1 .. n * n
      PROVE  /\ Row(n, k) \in 0 .. n - 1 /\ Column(n, k) \in 0 .. n - 1
             /\ \A i, j \in 0 .. n - 1 : PairOf(n, i, j) = k <=> i = Row(n, k) /\ j = Column(n, k)
  <2> DEFINE m == k - 1
             a == m \div n
             b == m % n
  <2>1. m \in Nat /\ m < n * n /\ m + 1 = k
    BY <1>2
  <2> HIDE DEF m
  <2>2. a \in Int /\ b \in 0 .. n - 1 /\ m = a * n + b
    BY <2>1
  <2>3. Row(n, k) = a /\ Column(n, k) = b
    BY DEF Row, Column, m
  <2> HIDE DEF a, b
  <2>4. a * n \in Int
    BY <2>2
  <2>5. a >= 0
    <3> SUFFICES ASSUME a < 0 PROVE FALSE
      BY <2>2
    <3>1. a * n + n <= 0 * n
      BY <1>1, <2>2
    <3> QED  BY <2>1, <2>2, <2>4, <3>1
  <2>6. a < n
    <3> SUFFICES ASSUME n <= a PROVE FALSE
      BY <2>2
    <3>1. n * n <= a * n
      <4>1. n < a => n * n + n <= a * n
        BY <1>1, <2>2
      <4>2. n = a => n * n = a * n
        OBVIOUS
      <4> QED  BY <1>2, <2>2, <2>4, <4>1, <4>2
    <3> QED  BY <1>2, <2>1, <2>2, <2>4, <3>1
  <2>7. ASSUME NEW i \in 0 .. n - 1, NEW j \in 0 .. n - 1
        PROVE  PairOf(n, i, j) = k <=> i = a /\ j = b
    <3>1. i * n \in Int /\ i \in Int /\ a \in Int
      BY <2>2
    <3>2. i < a => i * n + n <= a * n
      BY <1>1, <3>1
    <3>3. a < i => a * n + n <= i * n
      BY <1>1, <3>1
    <3>4. i = a => i * n = a * n
      OBVIOUS
    <3>5. PairOf(n, i, j) = k <=> i * n + j = a * n + b
      BY <2>1, <2>2, <2>4, <3>1 DEF PairOf
    <3> QED  BY <2>2, <2>4, <3>1, <3>2, <3>3, <3>4, <3>5
  <2>8. a \in 0 .. n - 1
    BY <2>2, <2>5, <2>6
  <2> QED  BY <2>2, <2>3, <2>7, <2>8
<1> QED  BY <1>2, <1>3, <1>4

(* An edge added is in both sets and nothing else is changed.              *)
LEMMA AddedIs ==
    ASSUME NEW h, Whole(h), NEW i \in 0 .. h.n - 1, NEW j \in 0 .. h.n - 1, i # j
    PROVE  /\ Whole(AddEdge(h, i, j)) /\ AddEdge(h, i, j).n = h.n
           /\ AddEdge(h, i, j).weights = h.weights
           /\ \A u, v \in 0 .. h.n - 1 : u \in AddEdge(h, i, j).edges[v].bits
                 <=> u \in h.edges[v].bits \/ (v = i /\ u = j) \/ (v = j /\ u = i)
<1> DEFINE V == 0 .. h.n - 1
           k == AddEdge(h, i, j)
           once == [h.edges EXCEPT ![i] = SetAdd(h.edges[i], j)]
<1>1. Whole(k) /\ k.n = h.n
  BY EditsAreWhole
<1>2. h.edges \in [V -> Sets] /\ i \in V /\ j \in V
  BY DEF Whole
<1>3. k.weights = h.weights /\ k.edges = [once EXCEPT ![j] = SetAdd(once[j], i)]
  BY DEF AddEdge
<1> HIDE DEF V, k
<1>4. \A v \in V : k.edges[v] = IF v = j THEN SetAdd(h.edges[j], i)
                                ELSE IF v = i THEN SetAdd(h.edges[i], j) ELSE h.edges[v]
  BY <1>2, <1>3
<1>5. \A v \in V : \A x : SetAdd(h.edges[v], x).bits = h.edges[v].bits \cup {x}
  BY <1>2 DEF SetAdd, Sets
<1>6. \A u, v \in V : u \in k.edges[v].bits
                         <=> u \in h.edges[v].bits \/ (v = i /\ u = j) \/ (v = j /\ u = i)
  <2>1. \A v \in V : k.edges[v].bits = IF v = j THEN h.edges[j].bits \cup {i}
                                      ELSE IF v = i THEN h.edges[i].bits \cup {j} ELSE h.edges[v].bits
    BY <1>2, <1>4, <1>5
  <2> QED  BY <2>1
<1> QED  BY <1>1, <1>3, <1>6 DEF V, k

-----------------------------------------------------------------------------
(* The graph a reader has made of the first pairs.                         *)
Before(n, k, u, v) == (u < v /\ PairOf(n, v, u) <= k) \/ (v < u /\ PairOf(n, u, v) <= k)
Drawn(h, k, r) ==
    /\ Whole(r) /\ r.n = h.n
    /\ \A v \in 0 .. h.n - 1 : r.weights[v] = h.weights[v]
    /\ \A u, v \in 0 .. h.n - 1 :
          u \in r.edges[v].bits <=> u \in h.edges[v].bits /\ Before(h.n, k, u, v)

(* A graph with all its weights has the edges of no pair yet.              *)
LEMMA WeighedIsDrawn ==
    ASSUME NEW h, Whole(h), h.n > 0, NEW r, Weighed(h, h.n, r)
    PROVE  Drawn(h, 0, r)
<1>1. h.n \in Nat \ {0}
  BY DEF Whole
<1>2. \A u, v \in 0 .. h.n - 1 : ~Before(h.n, 0, u, v)
  <2>1. \A i, j \in 0 .. h.n - 1 : PairOf(h.n, i, j) \in 1 .. h.n * h.n
    BY <1>1, PairsAre
  <2>2. h.n * h.n \in Nat
    BY <1>1, PairsAre
  <2>3. \A i, j \in 0 .. h.n - 1 : ~(PairOf(h.n, i, j) <= 0)
    BY <2>1, <2>2
  <2> QED  BY <2>3 DEF Before
<1>3. \A v \in 0 .. h.n - 1 : v < h.n
  BY <1>1
<1> QED  BY <1>2, <1>3 DEF Weighed, Drawn

(* One with the edges of every pair is the same graph.                     *)
LEMMA DrawnIsSame ==
    ASSUME NEW h, Whole(h), h.n > 0, NEW r, Drawn(h, h.n * h.n, r)
    PROVE  r.n = h.n /\ Same(h, r, h.n)
<1> DEFINE V == 0 .. h.n - 1
<1>1. h.n \in Nat \ {0}
  BY DEF Whole
<1>2. \A i, j \in V : PairOf(h.n, i, j) <= h.n * h.n
  <2>1. \A i, j \in V : PairOf(h.n, i, j) \in 1 .. h.n * h.n
    BY <1>1, PairsAre
  <2>2. h.n * h.n \in Nat
    BY <1>1, PairsAre
  <2> QED  BY <2>1, <2>2
<1>3. \A u, v \in V : u # v => Before(h.n, h.n * h.n, u, v)
  <2>1. \A u, v \in V : u # v => u < v \/ v < u
    BY <1>1
  <2> QED  BY <1>2, <2>1 DEF Before
<1>4. \A u, v \in V : u \in h.edges[v].bits => u # v
  BY DEF Whole
<1>5. /\ Whole(r) /\ r.n = h.n /\ \A v \in V : r.weights[v] = h.weights[v]
      /\ \A u, v \in V : u \in r.edges[v].bits <=> u \in h.edges[v].bits
  BY <1>3, <1>4 DEF Drawn
<1>6. ASSUME NEW i \in V, NEW j \in V PROVE IsEdge(h, i, j) = IsEdge(r, i, j)
  <2>1. IsEdge(h, i, j) <=> j \in h.edges[i].bits
    BY EdgeIs
  <2>2. IsEdge(r, i, j) <=> j \in r.edges[i].bits
    BY <1>5, EdgeIs
  <2>3. IsEdge(h, i, j) <=> IsEdge(r, i, j)
    BY <1>5, <2>1, <2>2
  <2> QED  BY <2>3 DEF IsEdge, SetContains
<1> QED  BY <1>5, <1>6 DEF Same

(* The edge of the next pair is added exactly when it was written.         *)
LEMMA OnePairMore ==
    ASSUME NEW h, Whole(h), h.n > 0, NEW k \in 1 .. h.n * h.n, NEW r, Drawn(h, k - 1, r),
           NEW i, NEW j, i = Row(h.n, k), j = Column(h.n, k)
    PROVE  /\ i \in 0 .. h.n - 1 /\ j \in 0 .. h.n - 1
           /\ j < i /\ IsEdge(h, i, j) => Drawn(h, k, AddEdge(r, i, j))
           /\ ~(j < i /\ IsEdge(h, i, j)) => Drawn(h, k, r)
<1> DEFINE V == 0 .. h.n - 1
           n == h.n
<1>1. n \in Nat \ {0} /\ n * n \in Nat /\ k \in Nat \ {0}
  <2>1. n \in Nat \ {0}
    BY DEF Whole
  <2>2. n * n \in Nat
    BY <2>1, PairsAre
  <2> QED  BY <2>1, <2>2
<1>2. /\ i \in V /\ j \in V /\ \A u, v \in V : PairOf(n, u, v) = k <=> u = i /\ v = j
      /\ \A u, v \in V : PairOf(n, u, v) \in 1 .. n * n
  BY <1>1, PairsAre
<1>3. \A u, v \in V : PairOf(n, u, v) <= k <=> PairOf(n, u, v) <= k - 1 \/ (u = i /\ v = j)
  BY <1>1, <1>2
<1>4. \A u, v \in V : Before(n, k, u, v)
         <=> Before(n, k - 1, u, v) \/ (j < i /\ ((v = i /\ u = j) \/ (v = j /\ u = i)))
  BY <1>3 DEF Before
<1>5. /\ Whole(r) /\ r.n = n /\ \A v \in V : r.weights[v] = h.weights[v]
      /\ \A u, v \in V : u \in r.edges[v].bits <=> u \in h.edges[v].bits /\ Before(n, k - 1, u, v)
  BY DEF Drawn
<1>6. \A u, v \in V : u \in h.edges[v].bits <=> v \in h.edges[u].bits
  BY DEF Whole
<1>7. IsEdge(h, i, j) <=> j \in h.edges[i].bits
  BY <1>2, EdgeIs
<1>8. ASSUME j < i, IsEdge(h, i, j) PROVE Drawn(h, k, AddEdge(r, i, j))
  <2> DEFINE s == AddEdge(r, i, j)
  <2>1. i # j
    BY <1>1, <1>2, <1>8
  <2>2. /\ Whole(s) /\ s.n = n /\ s.weights = r.weights
        /\ \A u, v \in V : u \in s.edges[v].bits
                 <=> u \in r.edges[v].bits \/ (v = i /\ u = j) \/ (v = j /\ u = i)
    BY <1>2, <1>5, <2>1, AddedIs
  <2> HIDE DEF s, V
  <2>3. \A u, v \in V : u \in s.edges[v].bits <=> u \in h.edges[v].bits /\ Before(n, k, u, v)
    BY <1>2, <1>4, <1>5, <1>6, <1>7, <1>8, <2>2
  <2> QED  BY <1>5, <2>2, <2>3 DEF Drawn, s, V
<1>9. ASSUME ~(j < i /\ IsEdge(h, i, j)) PROVE Drawn(h, k, r)
  <2> HIDE DEF V
  <2>1. \A u, v \in V : u \in r.edges[v].bits <=> u \in h.edges[v].bits /\ Before(n, k, u, v)
    BY <1>2, <1>4, <1>5, <1>6, <1>7, <1>9
  <2> QED  BY <1>5, <2>1 DEF Drawn, V
<1> QED  BY <1>2, <1>8, <1>9

(* The line of an edge adds it.                                            *)
LEMMA EdgeIsRead ==
    ASSUME NEW r, Whole(r), r.n <= MAX_N, NEW i \in 0 .. r.n - 1, NEW j \in 0 .. r.n - 1, i # j
    PROVE  Edge(i + 1, j + 1) \in GoodLines /\ ParseInput(r, Edge(i + 1, j + 1)) = AddEdge(r, i, j)
<1> DEFINE line == Edge(i + 1, j + 1)
<1>1. r.n \in Nat
  BY DEF Whole
<1>2. i + 1 \in Nat /\ j + 1 \in Nat /\ i + 1 \in 1 .. r.n /\ j + 1 \in 1 .. r.n /\ i + 1 # j + 1
      /\ i + 1 - 1 = i /\ j + 1 - 1 = j
  BY <1>1
<1>3. line \in GoodLines
  BY <1>2 DEF GoodLines
<1>4. line.field = "e" /\ line.i = i + 1 /\ line.j = j + 1
  BY DEF Edge
<1>5. r # NoGraph
  BY GraphsAreNotNull
<1> HIDE DEF line
<1>6. ParseInput(r, line) = EdgeLine(r, i + 1, j + 1)
  BY <1>4, <1>5 DEF ParseInput
<1>7. EdgeLine(r, i + 1, j + 1) = AddEdge(r, i, j)
  BY <1>2 DEF EdgeLine
<1> QED  BY <1>3, <1>6, <1>7 DEF line

(* The loop over the pairs: a line for each edge.                          *)
LEMMA AsciiReads ==
    ASSUME NEW h, Whole(h), h.n > 0, h.n <= MAX_N
    PROVE  Drawn(h, h.n * h.n, ReadLines(WriteAscii(h)))
<1> DEFINE n == h.n
           m == n * n
           X == Seq(GoodLines)
           init == Header(h)
           i(k) == Row(n, k)
           j(k) == Column(n, k)
           yes(k) == j(k) < i(k) /\ IsEdge(h, i(k), j(k))
           body(k, x) == IF yes(k) THEN Append(x, Edge(i(k) + 1, j(k) + 1)) ELSE x
           step == [k \in 1 .. m |-> [x \in X |-> body(k, x)]]
           F(f) == [k \in 0 .. m |-> IF k = 0 THEN init ELSE body(k, f[k - 1])]
           L == CHOOSE f : f = F(f)
<1>1. WriteAscii(h) = L[m]
  BY DEF WriteAscii
<1>2. n \in Nat \ {0} /\ m \in Nat /\ \A k \in 1 .. m : i(k) \in 0 .. n - 1 /\ j(k) \in 0 .. n - 1
  <2>1. n \in Nat \ {0}
    BY DEF Whole
  <2> QED  BY <2>1, PairsAre
<1> HIDE DEF n, m, i, j
<1>3. init \in X /\ Weighed(h, h.n, ReadLines(init))
  BY HeaderReads
<1>4. \A k \in 1 .. m, x \in X : body(k, x) \in X
  <2>1. \A k \in 1 .. m : i(k) + 1 \in Nat /\ j(k) + 1 \in Nat
    BY <1>2
  <2>2. \A k \in 1 .. m : Edge(i(k) + 1, j(k) + 1) \in GoodLines
    BY <2>1 DEF GoodLines
  <2> QED  BY <2>2
<1> HIDE DEF X, init, yes
<1>5. PICK f : AreFirst(f, m, X, init, step)
  <2>1. step \in [1 .. m -> [X -> X]]
    <3> HIDE DEF body
    <3> QED  BY <1>4
  <2> HIDE DEF step
  <2> QED  BY <1>2, <1>3, <2>1, FirstRounds
<1>6. f \in [0 .. m -> X]
  BY <1>5 DEF AreFirst
<1>7. f = F(f)
  <2>1. \A k \in 0 .. m : f[k] = IF k = 0 THEN init ELSE step[k][f[k - 1]]
    <3> HIDE DEF step
    <3> QED  BY <1>5 DEF AreFirst
  <2>2. ASSUME NEW k \in 0 .. m PROVE f[k] = IF k = 0 THEN init ELSE body(k, f[k - 1])
    <3>1. k # 0 => k \in 1 .. m /\ k - 1 \in 0 .. m
      BY <1>2
    <3>2. k # 0 => step[k][f[k - 1]] = body(k, f[k - 1])
      <4> HIDE DEF body
      <4> QED  BY <1>6, <3>1
    <3> HIDE DEF step, body
    <3> QED  BY <2>1, <3>2
  <2>3. f = [k \in 0 .. m |-> f[k]]
    BY <1>6
  <2> HIDE DEF body
  <2> QED  BY <2>2, <2>3
<1>8. L = F(L)
  <2> HIDE DEF F
  <2> QED  BY <1>7
<1> HIDE DEF L
<1>9. L[0] = init /\ \A k \in 1 .. m : L[k] = body(k, L[k - 1])
  <2>1. \A k \in 0 .. m : L[k] = IF k = 0 THEN init ELSE body(k, L[k - 1])
    <3> HIDE DEF body
    <3> QED  BY <1>8
  <2>2. 0 \in 0 .. m /\ \A k \in 1 .. m : k \in 0 .. m /\ k # 0
    BY <1>2
  <2> HIDE DEF body
  <2> QED  BY <2>1, <2>2
<1> DEFINE Inv(k) == L[k] \in X /\ Drawn(h, k, ReadLines(L[k]))
           S == {k \in Nat : k <= m => Inv(k)}
<1>10. 0 \in S
  <2>1. Inv(0)
    BY <1>3, <1>9, WeighedIsDrawn
  <2> QED  BY <2>1
<1>11. ASSUME NEW k \in Nat, k \in S PROVE k + 1 \in S
  <2> SUFFICES ASSUME k + 1 <= m PROVE Inv(k + 1)
    OBVIOUS
  <2> DEFINE l == k + 1
             x == L[k]
             r == ReadLines(x)
             a == i(l)
             b == j(l)
             line == Edge(a + 1, b + 1)
  <2>1. l \in 1 .. m /\ l - 1 = k /\ Inv(k)
    BY <1>2, <1>11
  <2>2. L[l] = body(l, x)
    BY <1>9, <2>1
  <2>3. a = Row(h.n, l) /\ b = Column(h.n, l) /\ l \in 1 .. h.n * h.n /\ Drawn(h, l - 1, r)
    BY <2>1 DEF i, j, n, m
  <2> HIDE DEF a, b, r, x, l
  <2>4. /\ a \in 0 .. h.n - 1 /\ b \in 0 .. h.n - 1
        /\ b < a /\ IsEdge(h, a, b) => Drawn(h, l, AddEdge(r, a, b))
        /\ ~(b < a /\ IsEdge(h, a, b)) => Drawn(h, l, r)
    BY <2>3, OnePairMore
  <2>5. yes(l) <=> b < a /\ IsEdge(h, a, b)
    BY DEF yes, a, b
  <2>6. Whole(r) /\ r.n = h.n /\ r.n <= MAX_N
    BY <2>3 DEF Drawn
  <2>7. CASE yes(l)
    <3>1. a # b
      BY <2>4, <2>5, <2>7
    <3>2. line \in GoodLines /\ ParseInput(r, line) = AddEdge(r, a, b)
      BY <2>4, <2>6, <3>1, EdgeIsRead
    <3> HIDE DEF line
    <3>3. x \in X /\ Append(x, line) \in X /\ ReadLines(Append(x, line)) = ParseInput(r, line)
      BY <2>1, <3>2, ReadsOneMore DEF X, r, x
    <3>4. L[l] = Append(x, line)
      BY <2>2, <2>7 DEF line, a, b
    <3> QED  BY <2>4, <2>5, <2>7, <3>2, <3>3, <3>4 DEF l
  <2>8. CASE ~yes(l)
    <3>1. L[l] = x
      BY <2>2, <2>8
    <3> QED  BY <2>1, <2>4, <2>5, <2>8, <3>1 DEF l, x, r
  <2> QED  BY <2>7, <2>8
<1>12. Inv(m)
  <2>1. Nat \subseteq S
    <3> HIDE DEF S
    <3> QED  BY <1>10, <1>11, Induction
  <2> HIDE DEF Inv
  <2> QED  BY <1>2, <2>1
<1> QED  BY <1>1, <1>12 DEF m, n

(* A file that was written in this format is read as the same graph.       *)
LEMMA AsciiGivesBack ==
    ASSUME NEW h, Whole(h), h.n > 0, h.n <= MAX_N, NEW r, r = ReadAscii(WriteAscii(h))
    PROVE  r # NoGraph /\ r.n = h.n /\ Same(h, r, h.n)
<1> DEFINE k == ReadLines(WriteAscii(h))
<1>1. Drawn(h, h.n * h.n, k)
  BY AsciiReads
<1> HIDE DEF k
<1>2. k # NoGraph /\ k.n = h.n /\ Same(h, k, h.n)
  <2>1. Whole(k) /\ k.n <= MAX_N
    BY <1>1 DEF Drawn
  <2> QED  BY <1>1, <2>1, DrawnIsSame, GraphsAreNotNull
<1>3. r = k
  <2>1. ~(k.n <= 0)
    BY <1>2 DEF Whole
  <2> QED  BY <1>2, <2>1 DEF ReadAscii, ReadEnd, k
<1> QED  BY <1>2, <1>3

(* Different vertices have different bits, and a row has one for each      *)
(* vertex below its own.                                                   *)
LEMMA BitsAre ==
    ASSUME NEW i \in Nat, NEW j \in Nat, NEW k \in Nat
    PROVE  /\ j < i => BitOf(j) \in 0 .. RowBytes(i) * BYTE - 1
           /\ BitOf(j) = BitOf(k) => j = k
<1>1. BYTE \in Nat \ {0}
  BY CliquerAssumption
<1>2. \A a, b \in Int : a < b => a * BYTE + BYTE <= b * BYTE
  BY <1>1
<1>3. \A x \in Nat : /\ x \div BYTE \in Int /\ x % BYTE \in 0 .. BYTE - 1
                     /\ x = (x \div BYTE) * BYTE + (x % BYTE)
                     /\ (x \div BYTE) * BYTE \in Int
  BY <1>1
<1> DEFINE q(x) == x \div BYTE
           z(x) == x % BYTE
<1>4. \A x \in Nat : BitOf(x) = q(x) * BYTE + (BYTE - 1 - z(x))
  BY DEF BitOf
<1>5. \A x \in Nat : q(x) \in Int /\ z(x) \in 0 .. BYTE - 1 /\ x = q(x) * BYTE + z(x) /\ q(x) * BYTE \in Int
  BY <1>3
<1>6. RowBytes(i) = q(i) + 1
  BY DEF RowBytes
<1> HIDE DEF q, z
<1>7. ASSUME j < i PROVE BitOf(j) \in 0 .. RowBytes(i) * BYTE - 1
  <2>1. q(j) <= q(i)
    <3> SUFFICES ASSUME q(i) < q(j) PROVE FALSE
      BY <1>5
    <3>1. q(i) * BYTE + BYTE <= q(j) * BYTE
      BY <1>2, <1>5
    <3> QED  BY <1>1, <1>5, <1>7, <3>1
  <2>2. q(j) * BYTE + BYTE <= (q(i) + 1) * BYTE
    <3>1. q(j) < q(i) + 1 /\ q(i) + 1 \in Int
      BY <1>5, <2>1
    <3> QED  BY <1>2, <1>5, <3>1
  <2>3. q(j) * BYTE >= 0
    <3>1. q(j) >= 0
      <4> SUFFICES ASSUME q(j) < 0 PROVE FALSE
        BY <1>5
      <4>1. q(j) * BYTE + BYTE <= 0 * BYTE
        BY <1>2, <1>5
      <4> QED  BY <1>1, <1>5, <4>1
    <3> QED  BY <1>1, <1>5, <3>1
  <2>4. (q(i) + 1) * BYTE \in Int
    BY <1>1, <1>5
  <2> DEFINE P == q(j) * BYTE
             Q == (q(i) + 1) * BYTE
             Z == z(j)
  <2>5. /\ BitOf(j) = P + (BYTE - 1 - Z) /\ RowBytes(i) * BYTE = Q
        /\ P \in Int /\ Q \in Int /\ Z \in 0 .. BYTE - 1 /\ P + BYTE <= Q /\ P >= 0
    BY <1>4, <1>5, <1>6, <2>2, <2>3, <2>4
  <2> HIDE DEF P, Q, Z
  <2>6. P + (BYTE - 1 - Z) \in 0 .. Q - 1
    BY <1>1, <2>5
  <2> QED  BY <2>5, <2>6
<1>8. ASSUME BitOf(j) = BitOf(k) PROVE j = k
  <2>1. q(j) * BYTE + (BYTE - 1 - z(j)) = q(k) * BYTE + (BYTE - 1 - z(k))
    BY <1>4, <1>8
  <2>2. q(j) < q(k) => q(j) * BYTE + BYTE <= q(k) * BYTE
    BY <1>2, <1>5
  <2>3. q(k) < q(j) => q(k) * BYTE + BYTE <= q(j) * BYTE
    BY <1>2, <1>5
  <2>4. q(j) = q(k)
    <3> DEFINE P == q(j) * BYTE
               Q == q(k) * BYTE
               Y == z(j)
               Z == z(k)
    <3>1. /\ P + (BYTE - 1 - Y) = Q + (BYTE - 1 - Z) /\ P \in Int /\ Q \in Int
          /\ Y \in 0 .. BYTE - 1 /\ Z \in 0 .. BYTE - 1
      BY <1>5, <2>1
    <3> HIDE DEF P, Q, Y, Z
    <3>4. ~(P + BYTE <= Q) /\ ~(Q + BYTE <= P)
      BY <1>1, <3>1
    <3>2. ~(q(j) * BYTE + BYTE <= q(k) * BYTE) /\ ~(q(k) * BYTE + BYTE <= q(j) * BYTE)
      BY <3>4 DEF P, Q
    <3>3. ~(q(j) < q(k)) /\ ~(q(k) < q(j))
      BY <2>2, <2>3, <3>2
    <3> QED  BY <1>5, <3>3
  <2>5. z(j) = z(k)
    BY <1>1, <1>5, <2>1, <2>4
  <2> QED  BY <1>5, <2>4, <2>5
<1> QED  BY <1>7, <1>8

(* The whole graphs with n vertices.                                       *)
LEMMA GraphsOf == \A n \in Nat : \A h : h \in Graphs(n) <=> Whole(h) /\ h.n = n
<1> SUFFICES ASSUME NEW n \in Nat, NEW h PROVE h \in Graphs(n) <=> Whole(h) /\ h.n = n
  OBVIOUS
<1>1. h \in Graphs(n) => Whole(h) /\ h.n = n
  BY DEF Graphs
<1>2. ASSUME Whole(h), h.n = n PROVE h \in Graphs(n)
  <2>1. h \in [n : Nat, edges : [0 .. n - 1 -> Sets], weights : [0 .. n - 1 -> Nat \ {0}]]
    BY <1>2 DEF Whole
  <2>2. h \in [n : {n}, edges : [0 .. n - 1 -> Sets], weights : [0 .. n - 1 -> Nat \ {0}]]
    BY <1>2, <2>1
  <2> QED  BY <1>2, <2>2 DEF Graphs
<1> QED  BY <1>1, <1>2

(* The loop over the bits of the rows.                                     *)
LEMMA BinaryGivesBack ==
    ASSUME NEW h, Whole(h), h.n > 0, h.n <= MAX_N, NEW r, r = ReadBinary(WriteBinary(h))
    PROVE  r # NoGraph /\ r.n = h.n /\ Same(h, r, h.n)
<1> DEFINE n == h.n
           m == n * n
           file == WriteBinary(h)
           init == ReadAscii(file.preamble)
           X == Graphs(n)
           i(k) == Row(n, k)
           j(k) == Column(n, k)
           yes(k) == j(k) < i(k) /\ BitOf(j(k)) \in file.rows[i(k)]
           body(k, x) == IF yes(k) THEN AddEdge(x, i(k), j(k)) ELSE x
           step == [k \in 1 .. m |-> [x \in X |-> body(k, x)]]
           F(f) == [k \in 0 .. m |-> IF k = 0 THEN init ELSE body(k, f[k - 1])]
           L == CHOOSE f : f = F(f)
<1>1. n \in Nat \ {0} /\ m \in Nat /\ \A k \in 1 .. m : i(k) \in 0 .. n - 1 /\ j(k) \in 0 .. n - 1
  <2>1. n \in Nat \ {0}
    BY DEF Whole
  <2> QED  BY <2>1, PairsAre
<1>2. init # NoGraph /\ Weighed(h, n, init) /\ init.n = n
  <2> DEFINE k == ReadLines(Header(h))
  <2>1. Weighed(h, n, k)
    BY HeaderReads
  <2>2. Whole(k) /\ k.n = n
    BY <2>1 DEF Weighed
  <2> HIDE DEF k
  <2>3. k # NoGraph
    BY <2>2, GraphsAreNotNull
  <2>4. init = k
    <3>1. file.preamble = Header(h)
      BY DEF WriteBinary
    <3>2. ~(k.n <= 0)
      BY <1>1, <2>2
    <3> QED  BY <2>3, <3>1, <3>2 DEF ReadAscii, ReadEnd, k
  <2> QED  BY <2>1, <2>2, <2>3, <2>4
<1>3. DOMAIN file.rows = Vertices(h) /\ Vertices(init) = Vertices(h)
  BY <1>2 DEF WriteBinary, Vertices
<1>4. r = L[m]
  <2> DEFINE head == ReadAscii(file.preamble)
             G(f) == [k \in 0 .. head.n * head.n |-> IF k = 0 THEN head
                        ELSE IF Column(head.n, k) < Row(head.n, k)
                                /\ BitOf(Column(head.n, k)) \in file.rows[Row(head.n, k)]
                             THEN AddEdge(f[k - 1], Row(head.n, k), Column(head.n, k)) ELSE f[k - 1]]
             M == CHOOSE f : f = G(f)
  <2>1. r = IF head = NoGraph \/ DOMAIN file.rows # Vertices(head) THEN NoGraph ELSE M[head.n * head.n]
    BY DEF ReadBinary
  <2>2. head.n = n /\ head = init
    BY <1>2
  <2>3. \A f : G(f) = F(f)
    <3> HIDE DEF file
    <3> QED  BY <2>2
  <2>4. M = L
    <3> HIDE DEF G, F
    <3> QED  BY <2>3
  <2> HIDE DEF M, L
  <2> QED  BY <1>2, <1>3, <2>1, <2>2, <2>4
<1>5. \A k \in 1 .. m : yes(k) <=> j(k) < i(k) /\ IsEdge(h, i(k), j(k))
  <2> SUFFICES ASSUME NEW k \in 1 .. m, j(k) < i(k)
               PROVE  BitOf(j(k)) \in file.rows[i(k)] <=> IsEdge(h, i(k), j(k))
    OBVIOUS
  <2> DEFINE a == i(k)
             b == j(k)
  <2>1. a \in 0 .. n - 1 /\ b \in 0 .. n - 1 /\ b < a
    BY <1>1
  <2> HIDE DEF a, b, n
  <2>2. file.rows[a] = {x \in 0 .. RowBytes(a) * BYTE - 1 : \E l \in 0 .. a - 1 : IsEdge(h, a, l) /\ x = BitOf(l)}
    BY <2>1 DEF WriteBinary, Vertices, n
  <2>3. /\ BitOf(b) \in 0 .. RowBytes(a) * BYTE - 1 /\ b \in 0 .. a - 1
        /\ \A l \in 0 .. a - 1 : BitOf(b) = BitOf(l) => b = l
    <3>1. a \in Nat /\ b \in Nat /\ b \in 0 .. a - 1 /\ \A l \in 0 .. a - 1 : l \in Nat
      BY <1>1, <2>1
    <3> QED  BY <2>1, <3>1, BitsAre
  <2>4. BitOf(b) \in file.rows[a] <=> IsEdge(h, a, b)
    <3> HIDE DEF file
    <3> QED  BY <2>2, <2>3
  <2> QED  BY <2>4 DEF a, b
<1> HIDE DEF n, m, i, j, init, file, yes, X
<1>6. \A k \in 1 .. m, x \in X : body(k, x) \in X
  <2> SUFFICES ASSUME NEW k \in 1 .. m, NEW x \in X, yes(k) PROVE AddEdge(x, i(k), j(k)) \in X
    OBVIOUS
  <2>1. Whole(x) /\ x.n = n
    BY <1>1, GraphsOf DEF X
  <2>2. i(k) \in 0 .. x.n - 1 /\ j(k) \in 0 .. x.n - 1 /\ i(k) # j(k)
    BY <1>1, <1>5, <2>1
  <2>3. Whole(AddEdge(x, i(k), j(k))) /\ AddEdge(x, i(k), j(k)).n = x.n
    BY <2>1, <2>2, AddedIs
  <2> QED  BY <1>1, <2>1, <2>3, GraphsOf DEF X
<1>7. init \in X
  BY <1>1, <1>2, GraphsOf DEF Weighed, X
<1>8. PICK f : AreFirst(f, m, X, init, step)
  <2>1. step \in [1 .. m -> [X -> X]]
    <3> HIDE DEF body
    <3> QED  BY <1>6
  <2> HIDE DEF step
  <2> QED  BY <1>1, <1>7, <2>1, FirstRounds
<1>9. f \in [0 .. m -> X]
  BY <1>8 DEF AreFirst
<1>10. f = F(f)
  <2>1. \A k \in 0 .. m : f[k] = IF k = 0 THEN init ELSE step[k][f[k - 1]]
    <3> HIDE DEF step
    <3> QED  BY <1>8 DEF AreFirst
  <2>2. ASSUME NEW k \in 0 .. m PROVE f[k] = IF k = 0 THEN init ELSE body(k, f[k - 1])
    <3>1. k # 0 => k \in 1 .. m /\ k - 1 \in 0 .. m
      BY <1>1
    <3>2. k # 0 => step[k][f[k - 1]] = body(k, f[k - 1])
      <4> HIDE DEF body
      <4> QED  BY <1>9, <3>1
    <3> HIDE DEF step, body
    <3> QED  BY <2>1, <3>2
  <2>3. f = [k \in 0 .. m |-> f[k]]
    BY <1>9
  <2> HIDE DEF body
  <2> QED  BY <2>2, <2>3
<1>11. L = F(L)
  <2> HIDE DEF F
  <2> QED  BY <1>10
<1> HIDE DEF L
<1>12. L[0] = init /\ \A k \in 1 .. m : L[k] = body(k, L[k - 1])
  <2>1. \A k \in 0 .. m : L[k] = IF k = 0 THEN init ELSE body(k, L[k - 1])
    <3> HIDE DEF body
    <3> QED  BY <1>11
  <2>2. 0 \in 0 .. m /\ \A k \in 1 .. m : k \in 0 .. m /\ k # 0
    BY <1>1
  <2> HIDE DEF body
  <2> QED  BY <2>1, <2>2
<1> DEFINE S == {k \in Nat : k <= m => Drawn(h, k, L[k])}
<1>13. 0 \in S
  <2>1. Drawn(h, 0, init)
    BY <1>2, WeighedIsDrawn DEF n
  <2> QED  BY <1>12, <2>1
<1>14. ASSUME NEW k \in Nat, k \in S PROVE k + 1 \in S
  <2> SUFFICES ASSUME k + 1 <= m PROVE Drawn(h, k + 1, L[k + 1])
    OBVIOUS
  <2> DEFINE l == k + 1
  <2>1. l \in 1 .. m /\ l - 1 = k /\ Drawn(h, k, L[k])
    BY <1>1, <1>14
  <2>2. L[l] = body(l, L[k])
    BY <1>12, <2>1
  <2>3. i(l) = Row(h.n, l) /\ j(l) = Column(h.n, l) /\ l \in 1 .. h.n * h.n /\ Drawn(h, l - 1, L[k])
    BY <2>1 DEF i, j, n, m
  <2>4. yes(l) <=> j(l) < i(l) /\ IsEdge(h, i(l), j(l))
    BY <1>5, <2>1
  <2> HIDE DEF l
  <2>5. /\ j(l) < i(l) /\ IsEdge(h, i(l), j(l)) => Drawn(h, l, AddEdge(L[k], i(l), j(l)))
        /\ ~(j(l) < i(l) /\ IsEdge(h, i(l), j(l))) => Drawn(h, l, L[k])
    BY <2>3, OnePairMore
  <2>6. Drawn(h, l, L[l])
    BY <2>2, <2>4, <2>5
  <2> QED  BY <2>6 DEF l
<1>15. Drawn(h, m, L[m])
  <2>1. Nat \subseteq S
    <3> HIDE DEF S
    <3> QED  BY <1>13, <1>14, Induction
  <2> QED  BY <1>1, <2>1
<1>16. Drawn(h, h.n * h.n, r)
  BY <1>4, <1>15 DEF m, n
<1>17. Whole(r) /\ r.n <= MAX_N
  BY <1>16 DEF Drawn
<1> QED  BY <1>16, <1>17, DrawnIsSame, GraphsAreNotNull

-----------------------------------------------------------------------------
(* Counting edges, and the file formats together.                          *)

(* Sets of equal size, and disjoint ones.                                  *)
LEMMA OneToOne ==
    ASSUME NEW S, IsFiniteSet(S), NEW T, NEW f \in [S -> T],
           \A x, y \in S : f[x] = f[y] => x = y, \A y \in T : \E x \in S : f[x] = y
    PROVE  IsFiniteSet(T) /\ Cardinality(T) = Cardinality(S)
<1>1. f \in Surjection(S, T)
  BY DEF Surjection
<1>2. f \in Injection(S, T)
  BY DEF Injection, IsInjective
<1> QED  BY <1>1, <1>2, FS_Surjection

(* The size of a union of disjoint sets.                                   *)
LEMMA DisjointUnion ==
    ASSUME NEW S, IsFiniteSet(S), NEW T, IsFiniteSet(T), S \cap T = {}
    PROVE  IsFiniteSet(S \cup T) /\ Cardinality(S \cup T) = Cardinality(S) + Cardinality(T)
<1>1. Cardinality(S \cap T) = 0
  BY FS_EmptySet
<1>2. Cardinality(S) \in Nat /\ Cardinality(T) \in Nat
  BY FS_CardinalityType
<1>3. IsFiniteSet(S \cup T) /\ Cardinality(S \cup T) = Cardinality(S) + Cardinality(T) - Cardinality(S \cap T)
  BY FS_Union
<1> QED  BY <1>1, <1>2, <1>3

(* The pairs whose first is below k and that are joined, in both orders,   *)
(* are as many as the degrees of these vertices together.                  *)
Around(h, v) == {u \in 0 .. h.n - 1 : u \in h.edges[v].bits}
Ends(h, k) == {p \in (0 .. h.n - 1) \X (0 .. h.n - 1) : p[1] < k /\ p[2] \in h.edges[p[1]].bits}
EndsAt(h, k) == {p \in (0 .. h.n - 1) \X (0 .. h.n - 1) : p[1] = k /\ p[2] \in h.edges[p[1]].bits}

(* set_size of the set of a vertex counts its neighbours.                  *)
LEMMA AroundIs ==
    ASSUME NEW h, Whole(h), NEW v \in 0 .. h.n - 1
    PROVE  /\ SetSize(h.edges[v]) = Cardinality(Around(h, v)) /\ SetSize(h.edges[v]) \in Nat
           /\ IsFiniteSet(EndsAt(h, v)) /\ Cardinality(EndsAt(h, v)) = SetSize(h.edges[v])
<1> DEFINE V == 0 .. h.n - 1
           A == Around(h, v)
           f == [u \in A |-> <<v, u>>]
<1>1. h.n \in Nat /\ IsSet(h.edges[v], h.n) /\ h.edges[v].bits \subseteq Nat
  BY DEF Whole, IsSet
<1>2. InWords(h.edges[v], ArrayLength(h.edges[v])) = A
  BY <1>1, Words DEF Around
<1>3. IsFiniteSet(A) /\ Cardinality(A) \in Nat
  <2>1. IsFiniteSet(V)
    <3>1. 0 \in Int /\ h.n - 1 \in Int
      BY <1>1
    <3> QED  BY <3>1, FS_Interval
  <2>3. A \in SUBSET V
    BY DEF Around
  <2>2. IsFiniteSet(A)
    BY <2>1, <2>3, FS_Subset
  <2> QED  BY <2>2, FS_CardinalityType
<1>4. f \in [A -> EndsAt(h, v)] /\ (\A x, y \in A : f[x] = f[y] => x = y)
      /\ \A y \in EndsAt(h, v) : \E x \in A : f[x] = y
  <2>1. \A u \in A : <<v, u>> \in EndsAt(h, v)
    BY DEF EndsAt, Around
  <2>2. \A y \in EndsAt(h, v) : y = <<v, y[2]>> /\ y[2] \in A
    BY DEF EndsAt, Around
  <2>3. \A x, y \in A : f[x] = f[y] => x = y
    <3>1. \A x \in A : f[x] = <<v, x>>
      OBVIOUS
    <3> HIDE DEF f, A
    <3> QED  BY <3>1
  <2> HIDE DEF A
  <2> QED  BY <2>1, <2>2, <2>3
<1> HIDE DEF f, A
<1>5. IsFiniteSet(EndsAt(h, v)) /\ Cardinality(EndsAt(h, v)) = Cardinality(A)
  BY <1>3, <1>4, OneToOne
<1> QED  BY <1>2, <1>3, <1>5 DEF SetSize, A

(* The ends of edges at the first k vertices are as many as their degrees. *)
LEMMA DegreesAddUp ==
    ASSUME NEW h, Whole(h), NEW degree, degree = [v \in Vertices(h) |-> SetSize(h.edges[v])],
           NEW W, IsTotal(W, Vertices(h), degree), NEW k \in 0 .. h.n
    PROVE  IsFiniteSet(Ends(h, k)) /\ Cardinality(Ends(h, k)) = W[0 .. k - 1]
<1> DEFINE V == 0 .. h.n - 1
           Inv(l) == IsFiniteSet(Ends(h, l)) /\ Cardinality(Ends(h, l)) = W[0 .. l - 1]
           S == {l \in Nat : l <= h.n => Inv(l)}
<1>1. h.n \in Nat /\ Vertices(h) = V
  BY DEF Whole, Vertices
<1>2. /\ W[{}] = 0 /\ \A T \in SUBSET V : \A x \in V \ T : W[T \cup {x}] = W[T] + degree[x]
      /\ \A v \in V : degree[v] = SetSize(h.edges[v])
  <2>1. IsTotal(W, V, degree) /\ degree = [v \in V |-> SetSize(h.edges[v])]
    BY <1>1
  <2> HIDE DEF V
  <2> QED  BY <2>1 DEF IsTotal
<1>3. 0 \in S
  <2>1. Ends(h, 0) = {}
    BY <1>1 DEF Ends
  <2>2. 0 .. 0 - 1 = {}
    OBVIOUS
  <2> QED  BY <1>2, <2>1, <2>2, FS_EmptySet
<1>4. ASSUME NEW l \in Nat, l \in S PROVE l + 1 \in S
  <2> SUFFICES ASSUME l + 1 <= h.n PROVE Inv(l + 1)
    OBVIOUS
  <2>1. Inv(l) /\ l \in V
    BY <1>1, <1>4
  <2>2. IsFiniteSet(EndsAt(h, l)) /\ Cardinality(EndsAt(h, l)) = degree[l]
    BY <1>2, <2>1, AroundIs
  <2>3. Ends(h, l + 1) = Ends(h, l) \cup EndsAt(h, l) /\ Ends(h, l) \cap EndsAt(h, l) = {}
    <3>1. \A a \in V : (a < l + 1 <=> a < l \/ a = l) /\ ~(a < l /\ a = l)
      BY <1>1
    <3>2. \A p \in V \X V : p[1] \in V
      OBVIOUS
    <3> HIDE DEF V
    <3> QED  BY <3>1, <3>2 DEF Ends, EndsAt, V
  <2>4. /\ IsFiniteSet(Ends(h, l + 1))
        /\ Cardinality(Ends(h, l + 1)) = Cardinality(Ends(h, l)) + Cardinality(EndsAt(h, l))
    BY <2>1, <2>2, <2>3, DisjointUnion
  <2>5. W[0 .. l + 1 - 1] = W[0 .. l - 1] + degree[l]
    <3>1. 0 .. l + 1 - 1 = (0 .. l - 1) \cup {l} /\ l \notin 0 .. l - 1 /\ 0 .. l - 1 \subseteq V
      BY <1>1, <2>1
    <3> HIDE DEF V
    <3>2. 0 .. l - 1 \in SUBSET V /\ l \in V \ (0 .. l - 1)
      BY <2>1, <3>1
    <3>3. W[(0 .. l - 1) \cup {l}] = W[0 .. l - 1] + degree[l]
      BY <1>2, <3>2
    <3> QED  BY <3>1, <3>3
  <2> QED  BY <2>1, <2>2, <2>4, <2>5
<1>5. Nat \subseteq S
  <2> HIDE DEF S
  <2> QED  BY <1>3, <1>4, Induction
<1> QED  BY <1>1, <1>5

(* Every edge has two ends, so the degrees add up to twice the edges.      *)
LEMMA EdgesAreCounted ==
    ASSUME NEW h, Whole(h)
    PROVE  EdgeCount(h) = Cardinality({p \in Below(h) : IsEdge(h, p[1], p[2])})
<1> DEFINE V == 0 .. h.n - 1
           low == {p \in V \X V : p[2] < p[1] /\ p[2] \in h.edges[p[1]].bits}
           high == {p \in V \X V : p[1] < p[2] /\ p[2] \in h.edges[p[1]].bits}
           degree == [v \in Vertices(h) |-> SetSize(h.edges[v])]
           f == [p \in low |-> <<p[2], p[1]>>]
<1>1. h.n \in Nat /\ Vertices(h) = V
  BY DEF Whole, Vertices
<1>2. \A u, v \in V : u \in h.edges[v].bits => u # v /\ v \in h.edges[u].bits
  BY DEF Whole
<1>3. {p \in Below(h) : IsEdge(h, p[1], p[2])} = low
  <2>1. \A i, j \in V : IsEdge(h, i, j) <=> j \in h.edges[i].bits
    BY EdgeIs
  <2>2. \A p \in V \X V : p[1] \in V /\ p[2] \in V
    OBVIOUS
  <2>3. \A p : p \in {q \in Below(h) : IsEdge(h, q[1], q[2])} <=> p \in low
    <3> HIDE DEF V
    <3> QED  BY <1>1, <2>1, <2>2 DEF Below
  <2> HIDE DEF low
  <2> QED  BY <2>3
<1>4. Ends(h, h.n) = low \cup high /\ low \cap high = {}
  <2>1. \A a, b \in V : a < h.n /\ (a # b <=> a < b \/ b < a) /\ ~(a < b /\ b < a)
    BY <1>1
  <2>2. \A p \in V \X V : p[1] \in V /\ p[2] \in V
    OBVIOUS
  <2> HIDE DEF V
  <2> QED  BY <1>2, <2>1, <2>2 DEF Ends, V
<1>5. degree \in [V -> Nat] /\ IsFiniteSet(V)
  <2>1. \A v \in V : SetSize(h.edges[v]) \in Nat
    BY AroundIs
  <2>2. degree \in [V -> Nat]
    BY <1>1, <2>1
  <2>3. 0 \in Int /\ h.n - 1 \in Int
    BY <1>1
  <2>4. IsFiniteSet(V)
    BY <2>3, FS_Interval
  <2> QED  BY <2>2, <2>4
<1> HIDE DEF degree
<1>6. PICK W : IsTotal(W, V, degree)
  BY <1>1, <1>5, TotalExists
<1>7. IsFiniteSet(Ends(h, h.n)) /\ Cardinality(Ends(h, h.n)) = W[V]
  <2>1. h.n \in 0 .. h.n /\ degree = [v \in Vertices(h) |-> SetSize(h.edges[v])]
    BY <1>1 DEF degree
  <2> QED  BY <1>1, <1>6, <2>1, DegreesAddUp
<1>8. IsFiniteSet(low) /\ IsFiniteSet(high)
  <2>1. low \in SUBSET Ends(h, h.n) /\ high \in SUBSET Ends(h, h.n)
    <3> HIDE DEF low, high
    <3> QED  BY <1>4
  <2> HIDE DEF low, high
  <2> QED  BY <1>7, <2>1, FS_Subset
<1>9. Cardinality(high) = Cardinality(low)
  <2>1. \A p \in low : /\ p[1] \in V /\ p[2] \in V /\ p = <<p[1], p[2]>> /\ p[2] < p[1]
                       /\ p[2] \in h.edges[p[1]].bits
    OBVIOUS
  <2>2. \A p \in high : /\ p[1] \in V /\ p[2] \in V /\ p = <<p[1], p[2]>> /\ p[1] < p[2]
                        /\ p[2] \in h.edges[p[1]].bits
    OBVIOUS
  <2>3. \A a, b \in V : /\ b < a /\ b \in h.edges[a].bits => <<b, a>> \in high
                        /\ a < b /\ b \in h.edges[a].bits => <<b, a>> \in low
    <3>1. \A a, b \in V : <<b, a>> \in V \X V
      OBVIOUS
    <3> HIDE DEF V
    <3> QED  BY <1>2, <3>1
  <2> HIDE DEF low, high, V
  <2>4. f \in [low -> high]
    BY <2>1, <2>3
  <2>5. \A p \in low : f[p] = <<p[2], p[1]>>
    OBVIOUS
  <2> HIDE DEF f
  <2>6. \A x, y \in low : f[x] = f[y] => x = y
    <3> SUFFICES ASSUME NEW x \in low, NEW y \in low, f[x] = f[y] PROVE x = y
      OBVIOUS
    <3>1. <<x[2], x[1]>> = <<y[2], y[1]>>
      BY <2>5
    <3>2. x[2] = y[2] /\ x[1] = y[1]
      BY <3>1
    <3> QED  BY <2>1, <3>2
  <2>7. \A y \in high : \E x \in low : f[x] = y
    <3> SUFFICES ASSUME NEW y \in high PROVE \E x \in low : f[x] = y
      OBVIOUS
    <3> DEFINE x == <<y[2], y[1]>>
    <3>1. x \in low
      BY <2>2, <2>3
    <3>2. f[x] = <<y[1], y[2]>>
      BY <2>5, <3>1
    <3> QED  BY <2>2, <3>1, <3>2
  <2> QED  BY <1>8, <2>4, <2>6, <2>7, OneToOne
<1>10. Cardinality(low) \in Nat /\ W[V] = Cardinality(low) + Cardinality(low)
  <2> HIDE DEF low, high
  <2>1. Cardinality(Ends(h, h.n)) = Cardinality(low) + Cardinality(high)
    BY <1>4, <1>8, DisjointUnion
  <2> QED  BY <1>7, <1>8, <1>9, <2>1, FS_CardinalityType
<1>11. EdgeCount(h) = W[V] \div 2
  <2>1. SumOf(degree, V) = W[V]
    BY <1>5, <1>6, SumIsTotal
  <2>2. EdgeCount(h) = SumOf(degree, V) \div 2
    BY <1>1 DEF EdgeCount, SumOf, degree
  <2> QED  BY <2>1, <2>2
<1>12. \A c \in Nat : (c + c) \div 2 = c
  OBVIOUS
<1> HIDE DEF low
<1> QED  BY <1>3, <1>10, <1>11, <1>12

-----------------------------------------------------------------------------
(* A graph is no larger than the sizes a caller asks for.                  *)
SmallInv == g # NoGraph => g.n <= MAX_N

(* A line of a file gives a graph no larger than it may be.                *)
LEMMA LineKeepsSmall ==
    ASSUME GraphInv, SmallInv, mode = "reading", NEW line \in Lines
    PROVE  ParseInput(g, line) # NoGraph => ParseInput(g, line).n <= MAX_N
<1> SUFFICES ASSUME g # NoGraph, ParseInput(g, line) # NoGraph
             PROVE  ParseInput(g, line).n <= MAX_N
  BY DEF ParseInput
<1>1. Whole(g) /\ g.n \in Nat /\ g.n <= MAX_N
  BY DEF GraphInv, SmallInv, Whole
<1>2. CASE line \in {Other, Bad}
  <2>1. line.field = "other" \/ line.field = "bad"
    BY <1>2 DEF Other, Bad
  <2>2. ParseInput(g, line) \in {g, NoGraph}
    BY <2>1 DEF ParseInput
  <2> QED  BY <1>1, <2>2
<1>3. ASSUME NEW n \in 0 .. MAX_N, line = Problem(n) PROVE ParseInput(g, line).n <= MAX_N
  <2>1. line.field = "p" /\ line.n = n
    BY <1>3 DEF Problem
  <2>2. ParseInput(g, line) = GraphNew(n)
    BY <2>1 DEF ParseInput
  <2>3. GraphNew(n).n = n /\ n <= MAX_N
    BY CliquerAssumption DEF GraphNew
  <2> QED  BY <2>2, <2>3
<1>4. ASSUME NEW i \in 0 .. MAX_N + 1, NEW w, line = Node(i, w)
      PROVE  ParseInput(g, line).n <= MAX_N
  <2>1. line.field = "n" /\ line.i = i /\ line.w = w
    BY <1>4 DEF Node
  <2>2. i \in 1 .. g.n /\ ParseInput(g, line) = [g EXCEPT !.weights[i - 1] = w]
    BY <2>1 DEF ParseInput
  <2>3. g \in [n : Nat, edges : [0 .. g.n - 1 -> Sets], weights : [0 .. g.n - 1 -> Nat \ {0}]]
    BY <1>1 DEF Whole
  <2>4. [g EXCEPT !.weights[i - 1] = w].n = g.n
    BY <2>3
  <2> QED  BY <1>1, <2>2, <2>4
<1>5. ASSUME NEW i \in 0 .. MAX_N + 1, NEW j \in 0 .. MAX_N + 1, line = Edge(i, j)
      PROVE  ParseInput(g, line).n <= MAX_N
  <2>1. line.field = "e" /\ line.i = i /\ line.j = j /\ i \in Int /\ j \in Int
    BY <1>5 DEF Edge
  <2>2. ParseInput(g, line) = EdgeLine(g, i, j)
    BY <2>1 DEF ParseInput
  <2>3. i \in 1 .. g.n /\ j \in 1 .. g.n /\ ParseInput(g, line) \in {g, AddEdge(g, i - 1, j - 1)}
        /\ (i = j => ParseInput(g, line) = g)
    BY <2>2 DEF EdgeLine
  <2>4. i - 1 \in 0 .. g.n - 1 /\ j - 1 \in 0 .. g.n - 1 /\ (i # j => i - 1 # j - 1)
    BY <1>1, <2>3
  <2>5. i # j => AddEdge(g, i - 1, j - 1).n = g.n
    BY <1>1, <2>4, EditsAreWhole
  <2> QED  BY <1>1, <2>3, <2>5
<1>6. \/ line \in {Other, Bad} \/ \E n \in 0 .. MAX_N : line = Problem(n)
      \/ \E i \in 0 .. MAX_N + 1, w \in WEIGHTS \cup {0} : line = Node(i, w)
      \/ \E i, j \in 0 .. MAX_N + 1 : line = Edge(i, j)
  BY DEF Lines
<1> QED  BY <1>2, <1>3, <1>4, <1>5, <1>6

(* No step makes a larger graph than was asked for.                        *)
LEMMA SmallStep ==
    ASSUME GraphInv, SmallInv, [GraphNext \/ Searching \/ \E order : Rename(order)]_<<g, mode>>
    PROVE  SmallInv'
<1>1. MAX_N \in Nat /\ MAX_N >= 1
  BY CliquerAssumption
<1>2. CASE UNCHANGED <<g, mode>> \/ Searching
  BY <1>2 DEF SmallInv, Searching
<1>3. ASSUME NEW n \in 1 .. MAX_N, New(n) PROVE SmallInv'
  <2>1. g'.n = n /\ n <= MAX_N
    BY <1>1, <1>3 DEF New, GraphNew
  <2> QED  BY <2>1 DEF SmallInv
<1>4. ASSUME g # NoGraph, mode = "idle", NEW h, Edit(h), h.n <= g.n \/ h.n <= MAX_N, h.n \in Nat
      PROVE SmallInv'
  <2>1. g' = h /\ g.n <= MAX_N /\ g.n \in Nat
    BY <1>4 DEF Edit, SmallInv, GraphInv, Whole
  <2> QED  BY <1>1, <1>4, <2>1 DEF SmallInv
<1>5. g # NoGraph => Whole(g) /\ g.n \in Nat
  BY DEF GraphInv, Whole
<1>6. CASE Change
  <2>1. g # NoGraph /\ mode = "idle"
    BY <1>6 DEF Change, Edit
  <2>2. \A i, j \in Vertices(g) : i # j => AddEdge(g, i, j).n = g.n /\ DelEdge(g, i, j).n = g.n
    BY <1>5, <2>1, EditsAreWhole DEF Vertices
  <2>3. g \in [n : Nat, edges : [0 .. g.n - 1 -> Sets], weights : [0 .. g.n - 1 -> Nat \ {0}]]
    BY <1>5, <2>1 DEF Whole
  <2>4. \A i, w : [g EXCEPT !.weights[i] = w].n = g.n
    BY <2>3
  <2>5. g.n <= g.n
    BY <1>5, <2>1
  <2> QED  BY <1>4, <1>5, <1>6, <2>1, <2>2, <2>4, <2>5 DEF Change
<1>7. CASE Resize
  <2>1. PICK size \in 1 .. MAX_N : Edit(GraphResize(g, size))
    BY <1>7 DEF Resize
  <2>2. size \in Nat \ {0} /\ size <= MAX_N /\ g # NoGraph /\ mode = "idle"
    BY <1>1, <2>1 DEF Edit
  <2>3. GraphResize(g, size).n = size
    BY <1>5, <2>2, ResizeIs
  <2> QED  BY <1>4, <2>1, <2>2, <2>3
<1>8. CASE Crop
  <2>1. g # NoGraph /\ mode = "idle" /\ Edit(GraphCrop(g)) /\ Whole(g) /\ g.n \in Nat /\ g.n > 0
    BY <1>5, <1>8 DEF Crop, Edit, GraphInv
  <2>2. PICK size \in 1 .. g.n : GraphCrop(g) = GraphResize(g, size)
    BY <2>1, CropIs
  <2>3. size \in Nat \ {0} /\ size <= g.n
    BY <2>1
  <2>4. GraphCrop(g).n = size
    BY <2>1, <2>2, <2>3, ResizeIs
  <2> QED  BY <1>4, <2>1, <2>3, <2>4
<1>9. CASE \E order : Rename(order)
  <2>1. PICK order : Rename(order)
    BY <1>9
  <2>2. /\ g # NoGraph /\ mode = "idle" /\ Edit(ReorderGraph(g, order)) /\ Whole(g) /\ g.n \in Nat
        /\ IsBijection(order, g.n)
    BY <1>5, <2>1 DEF Rename, Edit
  <2>3. ReorderGraph(g, order).n = g.n
    BY DEF ReorderGraph
  <2>4. g.n <= g.n
    BY <2>2
  <2> QED  BY <1>4, <2>2, <2>3, <2>4
<1>10. CASE StartReading
  <2>1. g'.n = 0
    BY <1>10 DEF StartReading, Blank
  <2> QED  BY <1>1, <2>1 DEF SmallInv
<1>11. CASE EndOfFile
  <2>1. g' \in {g, NoGraph} /\ mode = "reading"
    BY <1>11 DEF EndOfFile, ReadEnd
  <2> QED  BY <2>1 DEF SmallInv
<1>12. ASSUME NEW line \in Lines, ReadLine(line) PROVE SmallInv'
  <2>1. mode = "reading" /\ g' = ParseInput(g, line)
    BY <1>12 DEF ReadLine
  <2> QED  BY <2>1, LineKeepsSmall DEF SmallInv
<1> QED  BY <1>2, <1>3, <1>6, <1>7, <1>8, <1>9, <1>10, <1>11, <1>12 DEF GraphNext

(* Whatever is done to graphs, the one a caller has is whole and small.    *)
LEMMA AlwaysSmall == GraphSpec => [](GraphInv /\ SmallInv)
<1>1. GraphInit => GraphInv /\ SmallInv
  BY DEF GraphInit, GraphInv, SmallInv
<1>2. GraphInv /\ SmallInv /\ [GraphNext \/ Searching \/ \E order : Rename(order)]_<<g, mode>>
      => (GraphInv /\ SmallInv)'
  BY GraphStep, SmallStep
<1> QED  BY <1>1, <1>2, PTL DEF GraphSpec

(* Both formats give back the graph that was written.                      *)
LEMMA FilesAreSame ==
    ASSUME GraphInv, SmallInv, At("idle")
    PROVE  FilesGiveBack
<1>1. Whole(g) /\ g.n > 0 /\ g.n <= MAX_N
  BY DEF GraphInv, SmallInv, At
<1>2. EdgeCount(g) = Cardinality({p \in Below(g) : IsEdge(g, p[1], p[2])})
  BY <1>1, EdgesAreCounted
<1> DEFINE good(r) == r # NoGraph /\ r.n = g.n /\ Same(g, r, g.n)
<1>3. good(ReadAscii(WriteAscii(g)))
  BY <1>1, AsciiGivesBack
<1>4. good(ReadBinary(WriteBinary(g)))
  BY <1>1, BinaryGivesBack
<1> QED  BY <1>2, <1>3, <1>4 DEF FilesGiveBack

(* Whatever a caller did to a graph, writing it to a file of either format *)
(* and reading the file gives the same graph back, its edges are counted   *)
(* right, and every order the library reorders by visits each vertex once  *)
(* and renames the graph without changing it (graph.c, reorder.c).         *)
THEOREM CopiesSame == GraphSpec => []CopiesAreSame
<1>1. GraphInv /\ SmallInv => CopiesAreSame
  <2> SUFFICES ASSUME GraphInv, SmallInv, At("idle")
               PROVE  FilesGiveBack /\ \A order \in Orders(g) : OrderRenames(order)
    BY DEF CopiesAreSame
  <2>1. Whole(g)
    BY DEF GraphInv, At
  <2>2. \A order \in Orders(g) : OrderRenames(order)
    BY <2>1, OrdersAreBijections, OrdersRename
  <2> QED  BY <2>2, FilesAreSame
<1> QED  BY <1>1, AlwaysSmall, PTL
=============================================================================
