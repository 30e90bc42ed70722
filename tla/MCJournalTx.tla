----------------------------- MODULE MCJournalTx -----------------------------
(* Two processes, two owners, retries of one key and of one source          *)
(* operation, an operation printed under two accounts, a foreign leg.       *)
EXTENDS JournalTx, TLC
CONSTANTS c1, c2, o1, o2, a1, a2, b1, s1, op1, k1, d1

MCAccountOwner == a1 :> o1 @@ a2 :> o1 @@ b1 :> o2

Fact(i, o, a, op, k, legs) ==
  [id |-> i, owner |-> o, account |-> a, source |-> s1, op |-> op, key |-> k,
   day |-> d1, legs |-> legs]

MCCandidates ==
  { Fact(1, o1, a1, op1, NONE, {a1}),
    Fact(2, o1, a2, op1, k1, {a2}),
    Fact(3, o1, a1, NONE, k1, {a1, a2}),
    Fact(4, o1, a1, NONE, NONE, {a1, b1}) }

Processes == Permutations(Connections)
=============================================================================
