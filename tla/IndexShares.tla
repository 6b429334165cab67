---------------------------- MODULE IndexShares ----------------------------
(***************************************************************************)
(* How fillIndexQueue of service/ramsey_server.py deals the edges of value *)
(* 1 to the servers: server svrNum queues the edges whose rank among the   *)
(* ones is svrNum - 1 modulo NO_OF_SERVERS.  No variables here.            *)
(***************************************************************************)
EXTENDS Integers, FiniteSets

CONSTANT NO_OF_SERVERS

ASSUME ServersAssumption == NO_OF_SERVERS \in Nat \ {0}

Servers == 1..NO_OF_SERVERS

(* The counter cnt of the loop when it meets index i. *)
Rank(ones, i) == Cardinality({j \in ones : j <= i})

(* Slip: the rank is compared with the server's number as it stands. *)
ShareOffByOne(ones, svrNum) ==
    {i \in ones : Rank(ones, i) % NO_OF_SERVERS = svrNum}
Share(ones, svrNum) ==
    {i \in ones : Rank(ones, i) % NO_OF_SERVERS = svrNum - 1}
=============================================================================
