---------------------------- MODULE ReplaceSearch ----------------------------
(***************************************************************************)
(* replaceMe (heuristicsearch.c): the graph is kept as two, one for each   *)
(* colour, with a list of the cliques of each.  Rounds of two phases try   *)
(* to flip pairs of nodes that meet in many cliques, first those of value  *)
(* zero, then those of value one; a flip that helps is kept, told to the   *)
(* coordinator and ends the phase, the others are undone.                  *)
(***************************************************************************)
EXTENDS LocalSearch

CONSTANT POLL_EVERY   \* flipThreshold: 20
ASSUME PollAssumption == POLL_EVERY \in Nat \ {0}

VARIABLES
    zeros,    \* edges of typeZeroGraph
    counts,   \* typeOneCliqueCount, typeZeroCliqueCount
    temp,     \* tempOneCount, tempZeroCount
    lists,    \* typeOneCliqueSets, typeZeroCliqueSets
    size,     \* worstTypeArraySize
    phase,    \* the colour whose pairs are tried
    at,       \* <<j, worstNode, secondWorstNode>>, Null before the first
    foundBest
replaceVars == <<zeros, counts, temp, lists, size, phase, at, foundBest>>

Idle == /\ zeros = {} /\ lists = Null /\ counts = Null /\ temp = Null
        /\ size = 0 /\ phase = Null /\ at = Null /\ foundBest = FALSE

CliqueLists(h, z) == [one |-> Cliques(h), zero |-> Cliques(z)]
CliqueCounts(h, z) == [one |-> Cardinality(Cliques(h)), zero |-> Cardinality(Cliques(z))]
Total(n) == n.one + n.zero

(* getMaxCliqueParticipatingNode puts a node on the level of the number of *)
(* cliques it is in.                                                       *)
Level(L, v) == Cardinality({S \in L : v \in S})
OnLevel(L, k) == {v \in UNION L : Level(L, v) = k}

(* Of the cliques with w, the nodes of the highest level that holds more   *)
(* than one.  There may be no such level, and the pointer is then NULL.    *)
CliquesWithNode(L, w) == {S \in L : w \in S}
WithoutWorst(S, w) == S \ {w}
Seconds(L, w) ==
    LET M == CliquesWithNode(L, w)
        shared == {k \in {Level(M, v) : v \in UNION M} : Cardinality(OnLevel(M, k)) > 1}
    IN IF shared = {} THEN {Null} ELSE WithoutWorst(OnLevel(M, Max(shared)), w)

(* What a phase tries, in the order of its loops: levels from the top,     *)
(* nodes of a level and their seconds from the lowest.                     *)
Tries == LET L == lists[phase] IN
         UNION {{<<Level(L, w), w, s>> : s \in Seconds(L, w)} : w \in UNION L}
Before(a, b) == \/ a[1] > b[1]
                \/ a[1] = b[1] /\ a[2] < b[2]
                \/ a[1] = b[1] /\ a[2] = b[2] /\ a[3] < b[3]
Pair(v, w) == IF v < w THEN <<v, w>> ELSE <<w, v>>
Ahead == IF at = Null THEN Tries ELSE {t \in Tries : Before(at, t)}
First(T) == CHOOSE t \in T : \A u \in T \ {t} : Before(t, u)

-----------------------------------------------------------------------------
ReplaceInit ==
    /\ search = "replace" /\ pc = "head"
    /\ best = ones /\ zeros = Pairs \ ones
    /\ lists = CliqueLists(ones, zeros)
    /\ counts = CliqueCounts(ones, zeros) /\ temp = counts
    /\ count = Total(counts)
    /\ size = 0 /\ phase = "zero" /\ at = Null /\ foundBest = FALSE

Round ==
    /\ count > 0
    /\ Goto("head", "try")
    /\ size' = count + 1 /\ phase' = "zero"
    /\ UNCHANGED <<ones, best, count, zeros, counts, temp, lists, at, foundBest>>

(* constructGraph writes the caller's graph from the ones.                 *)
Return(here) ==
    /\ Goto(here, "done")
    /\ best' = ones
    /\ UNCHANGED <<ones, count, replaceVars>>
CounterExample == count = 0 /\ Return("head")

Flipped(p) ==
    IF phase = "one" THEN ones' = ones \ {p} /\ zeros' = zeros \union {p}
    ELSE zeros' = zeros \ {p} /\ ones' = ones \union {p}
UndoneOne(p) ==
    IF phase = "one" THEN ones' = ones \union {p} /\ UNCHANGED zeros
    ELSE ones' = ones \ {p} /\ zeros' = zeros \union {p}
Undone(p) ==
    IF phase = "one" THEN ones' = ones \union {p} /\ zeros' = zeros \ {p}
    ELSE zeros' = zeros \union {p} /\ ones' = ones \ {p}

TryPair ==
    /\ pc = "try" /\ ~foundBest /\ Ahead # {}
    /\ LET t == First(Ahead) IN
          /\ at' = t
          /\ \/ /\ t[3] = Null          \* set_return_next of a NULL pointer
                /\ Goto("try", "crashed")
                /\ UNCHANGED <<ones, zeros, temp>>
             \/ /\ t[3] # Null
                /\ Goto("try", "compare")
                /\ Flipped(Pair(t[2], t[3]))
                /\ temp' = CliqueCounts(ones', zeros')
    /\ UNCHANGED <<best, count, counts, lists, size, phase, foundBest>>

Helps == Total(temp) < Total(counts)
Keep ==
    /\ Goto("compare", "tell")
    /\ Helps
    /\ counts' = temp /\ count' = Total(temp)
    /\ foundBest' = TRUE
    /\ UNCHANGED <<ones, best, zeros, temp, lists, size, phase, at>>

(* failures starts from 0 on every level, and the coordinator is asked     *)
(* after each POLL_EVERY of them.                                          *)
Failures == Cardinality({t \in Tries : t[1] = at[1] /\ ~Before(at, t)})
Undo ==
    /\ Goto("compare", IF Failures % POLL_EVERY = 0 THEN "tell" ELSE "try")
    /\ ~Helps
    /\ Undone(Pair(at[2], at[3]))
    /\ UNCHANGED <<best, count, counts, temp, lists, size, phase, at, foundBest>>

(* sendGraphToCoordinator, and an answer that is better or not.            *)
Bail == Return("tell")
GoOn == Goto("tell", "try") /\ UNCHANGED <<ones, best, count, replaceVars>>

Refilled == CliqueLists(ones, zeros)
EndPhase ==
    /\ Goto("try", IF phase = "zero" THEN "try" ELSE "head")
    /\ foundBest \/ Ahead = {}
    /\ phase' = "one"
    /\ lists' = Refilled
    /\ at' = Null /\ foundBest' = FALSE
    /\ UNCHANGED <<ones, best, count, zeros, counts, temp, size>>

ReplaceMe == Round \/ CounterExample \/ TryPair \/ Keep \/ Undo \/ Bail \/ GoOn \/ EndPhase

-----------------------------------------------------------------------------
(* Both colours' graphs, their counts and their lists are moved by hand,   *)
(* and agree when they are used.  Whatever the coordinator is told, after  *)
(* a flip that helped or after many that did not, the graph has as many    *)
(* cliques as the message says; a pair to flip is picked from the cliques  *)
(* the graphs have, not from those they had before the last flip, is in    *)
(* one of them, and the array they are put in is large enough.             *)
BooksAgree ==
    search = "replace" =>
       /\ pc \in {"head", "tell"} => zeros = Pairs \ ones /\ count = FindCliqueCount(ones)
       /\ pc = "try" /\ ~foundBest => lists = CliqueLists(ones, zeros)
       /\ pc = "try" => Cardinality(lists[phase]) < size
       /\ pc = "compare" => \E S \in lists[phase] : {at[2], at[3]} \in SUBSET S /\ at[2] # at[3]
=============================================================================
