---------------------------- MODULE MCBrokerSync ----------------------------
(* A small instance of BrokerSync for TLC.  Broker account n1 has two      *)
(* operations and a position; the trade of the second falls outside the    *)
(* short interval its order is in.  The accounts and the requests are      *)
(* interchangeable.                                                        *)
EXTENDS BrokerSync, TLC

CONSTANTS r1, r2, q1, n1

MCRows == {r1, r2}
MCNumberOf == [o \in {r1, r2, q1} |-> n1]
MCOrderDate == (r1 :> 2) @@ (r2 :> 1)
MCTradeDate == (r1 :> 2) @@ (r2 :> 3)
MCIntervals == {[from |-> 1, to |-> 1], [from |-> 1, to |-> 3]}

Symmetry == Permutations(Accounts) \cup Permutations(Requests)
=============================================================================
