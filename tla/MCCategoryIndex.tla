---------------------------- MODULE MCCategoryIndex ----------------------------
(* Two facts and four rules: two description rules of different length that  *)
(* overlap, one exact source category, one exact row.                        *)
EXTENDS CategoryIndex

MCEvents == {"coffee", "fuel"}

MCDrafts ==
  { [class |-> "Description", len |-> 3, matches |-> {"coffee", "fuel"}, category |-> "other"],
    [class |-> "Description", len |-> 6, matches |-> {"coffee"}, category |-> "food"],
    [class |-> "SourceCategory", len |-> 4, matches |-> {"fuel"}, category |-> "car"],
    [class |-> "Row", len |-> 2, matches |-> {"fuel"}, category |-> "work"] }
=============================================================================
