---------------------------- MODULE LocalSearches ----------------------------
(***************************************************************************)
(* Any of the searches on any graph: findCounterExample explores or embeds *)
(* and calls replaceMe or threadedGreedyIndexPermute, by the number of     *)
(* threads, and ThreadSolve of the first solver systematic_50_50_flip.     *)
(***************************************************************************)
EXTENDS ReplaceSearch, RowSearches, PhaseSearches

CONSTANT StartsOf   \* for a pair of Dims and a search the graphs to start from
Searches == {"replace", "permute", "systematic", "explore", "embed"}

ASSUME StartsAssumption ==
    \A d \in Dims, s \in Searches : StartsOf[d, s] \subseteq SUBSET PairsOf[d]

vars == <<dim, search, pc, ones, best, count, replaceVars, rowVars, phaseVars>>

Init ==
    /\ dim \in Dims
    /\ search \in Searches
    /\ ones \in StartsOf[dim, search]
    /\ \/ ReplaceInit /\ Still /\ Resting
       \/ PermuteInit /\ Idle /\ Resting
       \/ SystematicInit /\ Idle /\ Resting
       \/ ExploreInit /\ Idle /\ Still
       \/ EmbedInit /\ Idle /\ Still

Next ==
    /\ \/ search = "replace" /\ ReplaceMe /\ UNCHANGED <<rowVars, phaseVars>>
       \/ Permute /\ UNCHANGED <<replaceVars, phaseVars>>
       \/ Systematic /\ UNCHANGED <<replaceVars, phaseVars>>
       \/ Phases /\ UNCHANGED <<replaceVars, rowVars>>
    /\ UNCHANGED <<dim, search>>

Spec == Init /\ [][Next]_vars

(* A search is a sequential program.                                       *)
FairSpec == Spec /\ WF_vars(Next)

-----------------------------------------------------------------------------
(* "If a chosen change to the relationship matrix produces a smaller       *)
(* clique count than a previous matrix held, that change will be           *)
(* considered a good change" (README.md): the graph a search hands on is   *)
(* exchanged only for one with fewer cliques, whatever was flipped on the  *)
(* way and not undone, and the count it has to beat is its own.  What is   *)
(* explored may also change sideways, and what is embedded grows.          *)
Counted(h) == CliqueCount(h, IF search = "embed" THEN nodes ELSE dim[1], INT_MAX)
OnlyGoodChanges ==
    [][best' # best /\ pc \notin {"explore", "embed"} =>
          Counted(best') < Counted(best) /\ Counted(best') = count']_vars

(* No call goes round for ever: a phase of replaceMe, the row of an index  *)
(* and a call of systematic_50_50_flip end.                                *)
InCall == pc \in {"try", "compare", "tell", "index", "row", "flip", "nextRow",
                  "explore", "embed", "fill", "offer"}
CallsEnd == InCall ~> ~InCall
=============================================================================
