----------------------------- MODULE Coordinator -----------------------------
(***************************************************************************)
(* What service/ramsey_server.py promises its clients: requests are        *)
(* handled one at a time, each against the best graph known and the edges  *)
(* still to be dealt for it.  Of the queue of indexes only the length is   *)
(* kept; how many edges a new graph puts into it is left open.             *)
(***************************************************************************)
EXTENDS Integers

CONSTANTS
    Graphs,         \* matrices that travel, each with the nodes it is sent for
    NoGraph,        \* the empty string of a server that knows none
    Offers,         \* [num, count, graph] that may be offered
    MAX_CLIQUE_CNT, \* the count of a server that knows no graph
    MAX_LEFT        \* bound on the indexes of one graph

Entries == [num : Nat, count : Nat, graph : Graphs]

ASSUME CoordinatorAssumption ==
    /\ NoGraph \notin Graphs /\ Offers \subseteq Entries
    /\ MAX_CLIQUE_CNT \in Nat \ {0} /\ MAX_LEFT \in Nat

VARIABLES
    coord,  \* best entry [num, count, graph]
    left    \* indexes of it not dealt yet

Blank == [num |-> 0, count |-> MAX_CLIQUE_CNT, graph |-> NoGraph]

(* It starts with what the table holds, if anything. *)
CoordinatorInit ==
    /\ coord \in {Blank} \cup Offers
    /\ left \in 0..MAX_LEFT

(* A larger number always; for the current number a counter example, or,   *)
(* with no index left to deal, any other graph that is not just as good.   *)
Accepts(offer) ==
    \/ offer.num > coord.num
    \/ /\ offer.num = coord.num
       /\ coord.count # 0
       /\ \/ offer.count = 0
          \/ left = 0 /\ offer.graph # coord.graph /\ offer.count # coord.count

(* The graph that is best after the offer, and what may be left to deal.   *)
After(offer) == IF Accepts(offer) THEN offer ELSE coord
LeftAfter(offer) ==
    IF ~Accepts(offer) THEN {left}
    ELSE IF offer.count = 0 THEN {0} ELSE 0..MAX_LEFT

(* One request and its reply, with an index if one is wanted and left.     *)
Handle(offer, wants, reply) ==
    /\ coord' = After(offer)
    /\ \E n \in LeftAfter(offer) :
          LET deals == wants /\ n > 0 IN
          /\ left' = IF deals THEN n - 1 ELSE n
          /\ reply = [entry |-> After(offer), index |-> IF deals THEN 0 ELSE -1]

CoordinatorNext ==
    \E offer \in Offers, wants \in BOOLEAN, i \in {-1, 0} :
       Handle(offer, wants, [entry |-> After(offer), index |-> i])

CoordinatorSpec == CoordinatorInit /\ [][CoordinatorNext]_<<coord, left>>
==============================================================================
