---------------------------- MODULE CliqueSearch ----------------------------
(***************************************************************************)
(* The searches of the clique library (cliquer.c).  A call runs a first    *)
(* phase that learns, vertex by vertex, how heavy a clique the vertices so *)
(* far can hold, and stops at the first clique that is heavy enough; then, *)
(* if all cliques are wanted or the one found does not fit, a second phase *)
(* lists them, pruning by what the first has learned.  One action is one   *)
(* turn of a base-level loop; the recursion below it is an operator.       *)
(*                                                                         *)
(* The caller's time_function never asks for an abort (clique_print_time), *)
(* its user_function does after cap cliques (validateCount).               *)
(***************************************************************************)
EXTENDS VertexOrders

CONSTANT CALLS    \* records: kind ("single", "all"), weighted, min, max, maximal, cap, order

NoClique == {-1}    \* NULL, no set of vertices

(* The assertions of the four functions on the bounds they are given.      *)
ASSUME SearchAssumption ==
    \A c \in CALLS :
       /\ c \in [kind : {"single", "all"}, weighted : BOOLEAN, min : 0 .. INT_MAX,
                max : 0 .. INT_MAX, maximal : BOOLEAN, cap : Nat,
                order : {"default", "none", "reverse"}]
       /\ c.max = 0 \/ c.min \in 1 .. c.max

VARIABLES
    call,     \* what the caller asked for
    p,        \* the bounds in force: min, max, maximal, cap
    table,    \* the order of the vertices
    i,        \* the next index of the loop, from 1
    sizes,    \* clique_size
    clique,   \* current_clique of the unweighted, best_clique of the weighted search
    found     \* the cliques stored so far, in order
search == <<call, p, table, i, sizes, clique, found>>
vars == <<g, mode, search>>

Weight(S) == SubgraphWeight(g, S)

(* A table is the set of its vertices' places in the order.                *)
Places == 1 .. g.n
VerticesAt(T) == {table[k] : k \in T}
NewTable(T, k) == {l \in T : l < k /\ IsEdge(g, table[k], table[l])}
UpTo(T, k) == {l \in T : l <= k}
TableWeight(T) == Weight(VerticesAt(T))

IsMaximal(S) == \A v \in Vertices(g) : \E u \in S : ~IsEdge(g, v, u)
Maximalize(S) ==
    LET Grown[k \in Nat] ==
          IF k = 0 THEN S
          ELSE LET C == Grown[k - 1]
               IN IF k <= g.n /\ \A u \in C : IsEdge(g, k - 1, u) THEN C \union {k - 1} ELSE C
    IN Grown[g.n]

(* store_clique: user_function says no when the count is above the cap.    *)
Stopped(q, stored) == Len(stored) > q.cap

-----------------------------------------------------------------------------
(* The recursions.  A loop goes down the places of its table, here from k, *)
(* and every call from it is for places below k; a head is what comes      *)
(* before the loop.                                                        *)
MaybeClique == (SUBSET Vertices(g)) \union {NoClique}

(* sub_unweighted_single: a clique of size m in the table, or NoClique.    *)
SingleHead(loop, T, m) ==
    IF m = 1 /\ T # {} THEN {table[Min(T)]}
    ELSE IF m = 0 THEN {}
    ELSE IF m <= 1 THEN NoClique
    ELSE loop[T][m]
SingleLoop[k \in Nat] == [T \in SUBSET Places |-> [m \in Nat |->
    IF k = 0 THEN NoClique
    ELSE IF k \notin T THEN SingleLoop[k - 1][T][m]
    ELSE IF sizes[table[k]] < m \/ Cardinality(UpTo(T, k)) < m THEN NoClique
    ELSE LET rest == NewTable(T, k)
             none == Cardinality(rest) < m - 1 \/ sizes[table[Max(rest)]] < m - 1
             hit == IF none THEN NoClique ELSE SingleHead(SingleLoop[k - 1], rest, m - 1)
         IN IF hit # NoClique THEN hit \union {table[k]} ELSE SingleLoop[k - 1][T][m]]]
SubSingle(T, m) == SingleHead(SingleLoop[g.n], T, m)

(* sub_unweighted_all: the cliques stored when the table is exhausted or   *)
(* the search is stopped, S being current_clique.  Every vertex in it      *)
(* lowers both bounds by one.                                              *)
AllHead(loop, T, S, stored) ==
    LET least == p.min - Cardinality(S)
        most == p.max - Cardinality(S)
        kept == IF least <= 0 /\ (~p.maximal \/ IsMaximal(S)) THEN Append(stored, S) ELSE stored
    IN IF Stopped(p, kept) \/ (least <= 0 /\ most <= 0) \/ Cardinality(T) < least THEN kept
       ELSE loop[T][S][kept]
AllLoop[k \in Nat] ==
  [T \in SUBSET Places |-> [S \in SUBSET Vertices(g) |-> [stored \in Seq(SUBSET Vertices(g)) |->
    LET least == p.min - Cardinality(S)
        rest == NewTable(T, k)
        after == IF Cardinality(rest) < least - 1 THEN stored
                 ELSE AllHead(AllLoop[k - 1], rest, S \union {table[k]}, stored)
    IN IF k = 0 THEN stored
       ELSE IF k \notin T THEN AllLoop[k - 1][T][S][stored]
       ELSE IF sizes[table[k]] < least \/ Cardinality(UpTo(T, k)) < least THEN stored
       ELSE IF Stopped(p, after) THEN after ELSE AllLoop[k - 1][T][S][after]]]]
SubAll(T, S, stored) == AllHead(AllLoop[g.n], T, S, stored)

(* sub_weighted_all under the bounds q, one of them prune_high.  It carries*)
(* st: the weight to beat, low, -1 when stopped, the heaviest clique met   *)
(* and those stored.  Slip: a clique above the upper bound does not end    *)
(* its branch with the bound's own weight.                                 *)
Limits == [min : Nat, max : Nat, maximal : BOOLEAN, cap : Nat, keep : BOOLEAN, high : Nat]
Outcomes == [low : Int, best : MaybeClique, found : Seq(SUBSET Vertices(g))]

TooHeavyLow(q, st) == st
TooHeavy(q, st) == [st EXCEPT !.low = q.min - 1]
WeightedHead(loop, q, T, S, st) ==
    LET w == Weight(S)
        fits == w >= q.min /\ w <= q.max /\ (~q.maximal \/ IsMaximal(S))
        more == [low |-> st.low, best |-> IF q.keep THEN S ELSE st.best,
                 found |-> Append(st.found, S)]
        kept == IF fits THEN more ELSE st
    IN IF fits /\ Stopped(q, more.found) THEN [more EXCEPT !.low = -1]
       ELSE IF w >= q.min /\ w >= q.max THEN TooHeavy(q, kept)
       ELSE IF T # {} THEN loop[q][T][S][kept]
       ELSE IF w > kept.low
            THEN [low |-> IF w < q.min THEN w ELSE q.min - 1, best |-> S, found |-> kept.found]
       ELSE kept
WeightedLoop[k \in Nat] ==
  [q \in Limits |-> [T \in SUBSET Places |-> [S \in SUBSET Vertices(g) |-> [st \in Outcomes |->
    LET w == Weight(S)
        rest == NewTable(T, k)
        more == S \union {table[k]}
        enter == Weight(more) + TableWeight(rest) > st.low
        after == IF enter THEN WeightedHead(WeightedLoop[k - 1], q, rest, more, st) ELSE st
    IN IF k = 0 THEN st
       ELSE IF k \notin T THEN WeightedLoop[k - 1][q][T][S][st]
       ELSE IF w + sizes[table[k]] <= st.low \/ w + TableWeight(UpTo(T, k)) <= st.low THEN st
       ELSE IF enter /\ (after.low < 0 \/ after.low >= q.high) THEN after
       ELSE WeightedLoop[k - 1][q][T][S][after]]]]]
SubWeighted(q, T, S, st) == WeightedHead(WeightedLoop[g.n], q, T, S, st)

-----------------------------------------------------------------------------
(* Calling.  The bounds in weights become bounds in vertices when all      *)
(* vertices weigh the same.                                                *)
DivUp(d, q) == (d + q - 1) \div q
Unweighted(c) == ~c.weighted \/ ~GraphWeighted(g)
Scale(c) == IF c.weighted /\ Unweighted(c) THEN g.weights[0] ELSE 1
Unit(c) == [min |-> DivUp(c.min, Scale(c)), max |-> c.max \div Scale(c)]
OrderOf(c) ==
    CASE c.order = "default" -> ByGreedyColoring(g, ~Unweighted(c))
      [] c.order = "none" -> Ident(g.n)
      [] c.order = "reverse" -> ByReverse(g)

Idle == [call |-> <<>>, p |-> <<>>, table |-> <<>>, i |-> 0, sizes |-> <<>>,
         clique |-> NoClique, found |-> <<>>]
SearchIs(r) ==
    /\ call' = r.call /\ p' = r.p /\ table' = r.table /\ i' = r.i
    /\ sizes' = r.sizes /\ clique' = r.clique /\ found' = r.found

(* clique_find_single, clique_find_all and their unweighted forms up to    *)
(* the first phase; the bounds may leave nothing to search for.            *)
Call(c) ==
    /\ At("idle")
    /\ LET order == OrderOf(c)
           u == Unit(c)
           t == [k \in 1 .. g.n |-> order[k - 1]]
           q == [min |-> u.min, max |-> IF u.max = 0 THEN INT_MAX ELSE u.max,
                 maximal |-> c.maximal, cap |-> c.cap, keep |-> FALSE,
                 high |-> INT_MAX]
           nothing == c.max > 0 /\ u.max < u.min
       IN /\ IsBijection(order, g.n)     \* the assertion of all four functions
          /\ SearchIs([Idle EXCEPT !.call = c, !.p = q, !.table = t,
                                   !.sizes = [v \in Vertices(g) |-> 0]])
          /\ mode' = IF nothing THEN "done" ELSE "first"
    /\ UNCHANGED g

(* unweighted_clique_search_single. *)
UnweightedFirst ==
    /\ i = 0
    /\ sizes' = [sizes EXCEPT ![table[1]] = 1]
    /\ clique' = {table[1]}
    /\ i' = 2
    /\ mode' = IF p.min = 1 THEN "judge"
               ELSE IF g.n > 1 THEN "first" ELSE IF p.min = 0 THEN "judge" ELSE "fail"
    /\ UNCHANGED <<g, call, p, table, found>>
UnweightedNext ==
    /\ i \in 2 .. g.n
    /\ LET v == table[i]
           known == sizes[table[i - 1]]
           S == SubSingle(NewTable(1 .. i - 1, i), known)
           size == IF S = NoClique THEN known ELSE known + 1
       IN /\ clique' = IF S = NoClique THEN clique ELSE S \union {v}
          /\ sizes' = [sizes EXCEPT ![v] = size]
          /\ mode' = IF p.min > 0 /\ size >= p.min THEN "judge"
                     ELSE IF p.min > 0 /\ size + g.n - i < p.min THEN "fail"
                     ELSE IF i < g.n THEN "first" ELSE "judge"
    /\ i' = i + 1
    /\ UNCHANGED <<g, call, p, table, found>>

(* weighted_clique_search_single.  Listing all cliques passes it no upper  *)
(* bound.                                                                  *)
FirstMax == IF call.kind = "all" THEN INT_MAX ELSE p.max
WeightedOne ==
    /\ i = 0 /\ p.min = 1
    /\ LET light == {k \in 1 .. g.n : g.weights[table[k]] <= FirstMax}
       IN IF light = {} THEN mode' = "fail" /\ UNCHANGED clique
          ELSE mode' = "judge" /\ clique' = {table[Min(light)]}
    /\ i' = 1
    /\ UNCHANGED <<g, call, p, table, sizes, found>>
WeightedFirst ==
    /\ i = 0 /\ p.min # 1
    /\ LET w == g.weights[table[1]]
           heavy == p.min > 0 /\ w >= p.min
       IN /\ clique' = {table[1]}
          /\ IF heavy /\ w <= FirstMax THEN mode' = "judge" /\ UNCHANGED sizes
             ELSE /\ sizes' = [sizes EXCEPT ![table[1]] = IF heavy THEN p.min - 1 ELSE w]
                  /\ mode' = "first"     \* a weighted graph has more vertices
    /\ i' = 2
    /\ UNCHANGED <<g, call, p, table, found>>
WeightedNext ==
    /\ i \in 2 .. g.n
    /\ LET v == table[i]
           known == sizes[table[i - 1]]
           q == [min |-> IF p.min = 0 THEN INT_MAX ELSE p.min, max |-> FirstMax,
                 maximal |-> FALSE, cap |-> 0, keep |-> TRUE, high |-> known + g.weights[v]]
           st == SubWeighted(q, NewTable(1 .. i - 1, i), {v},
                             [low |-> known, best |-> clique, found |-> <<>>])
       IN /\ clique' = st.best
          /\ IF st.low < 0 THEN mode' = "judge" /\ UNCHANGED sizes
             ELSE /\ sizes' = [sizes EXCEPT ![v] = st.low]
                  /\ mode' = IF i < g.n THEN "first" ELSE IF p.min = 0 THEN "judge" ELSE "fail"
    /\ i' = i + 1
    /\ UNCHANGED <<g, call, p, table, found>>

First ==
    /\ At("first")
    /\ IF Unweighted(call) THEN UnweightedFirst \/ UnweightedNext
       ELSE WeightedOne \/ WeightedFirst \/ WeightedNext

-----------------------------------------------------------------------------
(* Between the phases.  The second one starts where the first phase first  *)
(* saw a heavy enough clique or, weighted, where it learned nothing.       *)
(* There is such a vertex whenever a second phase is run.  Slip: it waits  *)
(* for more than the least weight.                                         *)
StartIndexAbove(min) ==
    Min({g.n} \union {k \in 1 .. g.n : \/ sizes[table[k]] > min
                                       \/ ~Unweighted(call) /\ sizes[table[k]] = 0})
StartIndex(min) ==
    Min({g.n} \union {k \in 1 .. g.n : \/ sizes[table[k]] >= min
                                       \/ ~Unweighted(call) /\ sizes[table[k]] = 0})

Kept == IF p.maximal /\ p.min > 0 THEN Maximalize(clique) ELSE clique
Accept(S, weight) ==
    /\ call.kind = "single" /\ clique' = S
    /\ IF p.maximal /\ p.min > 0 /\ weight > p.max
       THEN /\ mode' = "second" /\ i' = StartIndex(p.min)
            /\ p' = [p EXCEPT !.cap = 0, !.keep = TRUE]
       ELSE mode' = "done" /\ UNCHANGED <<i, p>>
AcceptUnweighted == Unweighted(call) /\ Accept(Kept, Cardinality(Kept))
AcceptWeighted == ~Unweighted(call) /\ Accept(Kept, Weight(Kept))

(* With no lower bound the heaviest are listed, which are maximal. *)
Bounds(most) ==
    IF p.min = 0 THEN [p EXCEPT !.min = most, !.max = most, !.maximal = FALSE] ELSE p
List ==
    /\ call.kind = "all" /\ mode' = "second"
    /\ p' = Bounds(sizes[table[g.n]]) /\ i' = StartIndex(p'.min)
    /\ UNCHANGED clique
Judge ==
    /\ At("judge")
    /\ AcceptUnweighted \/ AcceptWeighted \/ List
    /\ UNCHANGED <<g, call, table, sizes, found>>

Fail ==
    /\ At("fail")
    /\ mode' = "done" /\ clique' = NoClique
    /\ UNCHANGED <<g, call, p, table, i, sizes, found>>

(* A turn of unweighted_clique_search_all or weighted_clique_search_all.   *)
UnweightedStored(v) == SubAll(NewTable(1 .. i - 1, i), {v}, found)
WeightedStored(v) ==
    SubWeighted(p, NewTable(1 .. i - 1, i), {v},
                [low |-> p.min - 1, best |-> clique, found |-> found]).found
Second ==
    /\ At("second") /\ i <= g.n
    /\ sizes' = [sizes EXCEPT ![table[i]] = p.min]     \* do not prune here
    /\ found' = IF Unweighted(call) THEN UnweightedStored(table[i]) ELSE WeightedStored(table[i])
    /\ i' = i + 1
    /\ mode' = IF i = g.n \/ Stopped(p, found') THEN "done" ELSE "second"
    /\ clique' = IF ~p.keep THEN clique
                 ELSE IF found' # <<>> THEN found'[1]
                 ELSE IF mode' = "done" THEN NoClique ELSE clique
    /\ UNCHANGED <<g, call, p, table>>

Return == At("done") /\ mode' = "idle" /\ SearchIs(Idle) /\ UNCHANGED g

Init == GraphInit /\ call = Idle.call /\ p = Idle.p /\ table = Idle.table /\ i = Idle.i
        /\ sizes = Idle.sizes /\ clique = Idle.clique /\ found = Idle.found
Next ==
    \/ (GraphNext \/ Reorder) /\ UNCHANGED search
    \/ \E c \in CALLS : Call(c)
    \/ First \/ Judge \/ Fail \/ Second \/ Return
Spec == Init /\ [][Next]_vars

-----------------------------------------------------------------------------
(* What is promised, from the graph alone. *)
IsClique(S) == S # {} /\ \A u, v \in S : u # v => IsEdge(g, u, v)
Cliques == {S \in SUBSET Vertices(g) : IsClique(S)}
Heaviness(S) == IF call.weighted THEN Weight(S) ELSE Cardinality(S)
Wanted ==
    IF call.min = 0
    THEN {S \in Cliques : \A T \in Cliques : Heaviness(T) <= Heaviness(S)}
    ELSE {S \in Cliques : /\ Heaviness(S) >= call.min
                          /\ call.max = 0 \/ Heaviness(S) <= call.max
                          /\ call.maximal => \A T \in Cliques : S \subseteq T => S = T}

(* What the first phase has learned of each prefix of the order is exact:  *)
(* the heaviest clique in it, or one less than the bound where the search  *)
(* is weighted and the prefix holds only cliques beyond the upper bound.   *)
(* The clique kept aside has the last of these weights.                    *)
SizesAreExact ==
    (At("first") /\ i > 1) =>
        \A k \in 1 .. i - 1 :
            LET inside == {S \in Cliques : S \subseteq VerticesAt(1 .. k)}
                own(S) == IF Unweighted(call) THEN Cardinality(S) ELSE Weight(S)
                heaviest == Max({own(S) : S \in inside})
                capped == p.min > 0 /\ ~Unweighted(call)
            IN /\ sizes[table[k]] = IF capped THEN Min({heaviest, p.min - 1}) ELSE heaviest
               /\ k = i - 1 /\ p.min = 0 => clique \in inside /\ own(clique) = heaviest

(* clique_find_all lists exactly the cliques asked for, each once, or, when*)
(* user_function stopped it, one more than the cap of them.                *)
(* clique_find_single returns one of the cliques asked for whenever there  *)
(* is one, and NULL otherwise.                                             *)
AnswersAreRight ==
    /\ (At("done") /\ call.kind = "all") =>
          /\ Len(found) = Cardinality(ToSet(found))
          /\ ToSet(found) \subseteq Wanted
          /\ Len(found) = Min({Cardinality(Wanted), call.cap + 1})
    /\ (At("done") /\ call.kind = "single") =>
          IF Wanted = {} THEN clique = NoClique ELSE clique \in Wanted
=============================================================================
