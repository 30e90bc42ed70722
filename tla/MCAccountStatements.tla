------------------------ MODULE MCAccountStatements -------------------------
(* A small instance of AccountStatements for TLC: an owner, and an agent    *)
(* that created every account, so that accounts are interchangeable.        *)
EXTENDS AccountStatements, TLC

CONSTANTS agent

MCDeclaredBy == [a \in Accounts |-> agent]
Symmetry == Permutations(Accounts)
=============================================================================
