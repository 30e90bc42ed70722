--------------------------- MODULE MCImportSession ---------------------------
(* Small imports: statements of one or two rows, observed or concluded, under *)
(* a caller's key, under the source's identifier, or under none; and so many  *)
(* calls of each operation as the workload allows.                            *)
EXTENDS ImportSession, TLC

CONSTANTS shop, k1, k2, l1, march, bank, channel

Observed(key, line) == [key |-> key, line |-> line, subject |-> shop, form |-> "observed"]
Concluded(key, form) == [key |-> key, line |-> NONE, subject |-> shop, form |-> form]

MCOrigin == [d \in {march, NONE} |-> IF d = NONE THEN channel ELSE bank]

Calls(open, add, answer, rule, retired, withdrawn, figures, commit, abandon) ==
  [ op \in Operations |->
      CASE op = "open" -> open [] op = "add" -> add [] op = "answer" -> answer
        [] op = "rule" -> rule [] op = "retire" -> retired [] op = "withdraw" -> withdrawn
        [] op = "figures" -> figures [] op = "commit" -> commit [] op = "abandon" -> abandon ]

\* Opening, feeding and closing: rows fed twice, commits that meet each other, a
\* feed or an abandonment, or are repeated; in two sessions, or in one for which
\* control figures are stated.
WithStops(calls, batch) == [calls |-> calls, batches |-> {batch}, faults |-> TRUE]
Rows == <<Observed(k1, NONE), Observed(NONE, NONE)>>
Closing == { WithStops(Calls(2, 2, 0, 1, 0, 0, 0, 2, 1), Rows),
             WithStops(Calls(1, 2, 0, 1, 0, 0, 1, 2, 1), Rows),
             WithStops(Calls(2, 2, 0, 1, 0, 0, 0, 2, 0), <<Observed(NONE, l1), Concluded(k1, "concluded")>>) }
\* Rows no event comes of, in two sessions that state the same figures.
Refusing == WithStops(Calls(2, 2, 0, 0, 0, 0, 2, 2, 0),
                      <<Concluded(k1, "malformed"), Concluded(NONE, "unreadable")>>)
\* Answering: two rows alike, two answers that meet, a withdrawal, a commit.
Answering == [calls |-> Calls(1, 1, 2, 0, 1, 1, 0, 1, 0),
              batches |-> {<<Observed(k1, NONE), Observed(k2, NONE)>>}, faults |-> FALSE]

MCWorkloads == Closing \cup {Refusing, Answering}
Symmetric == Permutations(Requests) \cup Permutations(Sessions) \cup Permutations(Answers)
=============================================================================
