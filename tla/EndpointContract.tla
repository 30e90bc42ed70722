-------------------------- MODULE EndpointContract --------------------------
(***************************************************************************)
(* What a broker's endpoint may see of this program, whatever happens to   *)
(* the processes, the machine and the records of the sender: departures    *)
(* spaced apart, at most a budget of them per method and a ceiling of them *)
(* per day, and silence for a while after the broker says "too many" or    *)
(* says nothing at all.                                                    *)
(* Time is the wall's: it runs on through crashes and restarts.            *)
(***************************************************************************)
EXTENDS Integers, Sequences, FiniteSets

CONSTANTS
  Keys,              \* the methods with a budget of their own
  Spacing, Pause, Day, DailyCeiling, BudgetLimit, BudgetWindow

VARIABLES now, seen, told

NoTime == -1

\* The departures the endpoint saw less than d ago.
Within(d) == { i \in DOMAIN seen : seen[i].at > now - d }

Unanswered == seen # <<>> /\ ~seen[Len(seen)].answered

MayDepart(k) ==
  /\ Within(Spacing) = {}
  /\ Unanswered => Within(Pause) = {}
  /\ Cardinality(Within(Day)) < DailyCeiling
  /\ Cardinality({ i \in Within(BudgetWindow) : seen[i].key = k }) < BudgetLimit
  /\ told = NoTime \/ now >= told + Pause

Init ==
  /\ now = 0
  /\ seen = <<>>
  /\ told = NoTime

Depart ==
  \E k \in Keys :
    /\ MayDepart(k)
    /\ seen' = Append(seen, [at |-> now, key |-> k, answered |-> FALSE])
    /\ UNCHANGED <<now, told>>

\* The endpoint's answer is received; it may be a 429.
Reply ==
  /\ Unanswered
  /\ seen' = [seen EXCEPT ![Len(seen)].answered = TRUE]
  /\ told' \in {told, now}
  /\ UNCHANGED now

Pass == now' = now + 1 /\ UNCHANGED <<seen, told>>

Next == Depart \/ Reply \/ Pass

Spec == Init /\ [][Next]_<<now, seen, told>>
=============================================================================
