--------------------------- MODULE MCOutboundTally ---------------------------
(* Two methods with a budget of one send each, a ceiling of three a day, and *)
(* up to two faults anywhere: every order of the time limits is kept.        *)
EXTENDS OutboundTally
CONSTANTS operations, portfolio
Methods == Permutations(Keys)
=============================================================================
