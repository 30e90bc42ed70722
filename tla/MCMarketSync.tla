---------------------------- MODULE MCMarketSync ----------------------------
(* Small instances of MarketSync for TLC.  The two processes are            *)
(* interchangeable, which the safety run makes use of.                      *)
EXTENDS MarketSync, TLC

Symmetry == Permutations(Procs)
=============================================================================
