----------------------------- MODULE BrokerSync -----------------------------
(***************************************************************************)
(* A broker synchronisation (sync_broker in scenarios/sync.rs): ask the    *)
(* broker, then write the binding of the account, the operations one by    *)
(* one, the coverage gap, the portfolio's assertions and the questions the *)
(* refused rows raise.  Every call of the store or of the broker is a      *)
(* step; the sync ends in an error at any of them, and what it wrote       *)
(* before stays.  Accounts of one owner and one broker; other requests     *)
(* bind accounts and record statements in between.                         *)
(*                                                                         *)
(* A row is an operation or a portfolio position of one broker account.    *)
(* What the broker says of it may change from sync to sync.                *)
(***************************************************************************)
EXTENDS Integers, FiniteSets

CONSTANTS
  Accounts, Numbers,   \* our accounts; the broker's own account numbers
  Requests,            \* syncs that may be under way together
  Rows, Positions,     \* the operations and the positions a broker reports
  NumberOf,            \* NumberOf[r]: the broker account r belongs to
  OrderDate,           \* OrderDate[r]: the date the broker filters by
  TradeDate,           \* TradeDate[r]: the date the fact is recorded under
  Named,               \* the rows that carry a source operation id
  Intervals,           \* the ranges a sync may be asked for, [from, to]
  MaxCalls, MaxFaults,
  MaxTurns,            \* bounds of the model: syncs, failures, and turns of others
  NONE

Reported == Rows \cup Positions

ASSUME SyncAssumption ==
  /\ Rows \cap Positions = {} /\ IsFiniteSet(Reported)
  /\ MaxCalls \in Nat /\ MaxFaults \in Nat /\ MaxTurns \in Nat
  /\ NumberOf \in [Reported -> Numbers]
  /\ OrderDate \in [Rows -> Nat] /\ TradeDate \in [Rows -> Nat]
  /\ Named \subseteq Rows
  /\ Intervals \subseteq [from : Nat, to : Nat]
  /\ NONE \notin Numbers

VARIABLES
  binding,    \* broker_account_bindings: the number of each account, or NONE
  journal,    \* journal[a][r][source]: how often a source recorded r under a
  assertions, \* control assertions: account, interval, and the rows they rest on
  gaps,       \* coverage gaps: account, interval, and how many rows were refused
  questions,  \* sync_refusals: one record for each account and row refused
  running,    \* RunningSyncs: the accounts a sync is running for
  sync,       \* sync[s]: the request s is serving, and where it is
  trouble,    \* what the broker's answer does to each row at present
  moved,      \* history: numbers the owner took from an account
  left        \* calls, faults and turns of others still to come

store == <<binding, journal, assertions, gaps, questions>>
vars == <<store, running, sync, trouble, moved, left>>

Sources == {"sync", "import"}
Idle == [pc |-> "idle"]
NoQuestion == [raised |-> 0]
Within(d, i) == i.from <= d /\ d <= i.to
Covers(i, j) == i.from <= j.from /\ j.to <= i.to

\* A row is good, rejected by the normaliser or set aside by the parser; a
\* position is never normalised.
Troubles == {t \in [Reported -> {"none", "rejected", "quarantined"}] :
               \A q \in Positions : t[q] # "rejected"}

Init ==
  /\ binding = [a \in Accounts |-> NONE]
  /\ journal = [a \in Accounts |-> [r \in Rows |-> [c \in Sources |-> 0]]]
  /\ assertions = {} /\ gaps = {}
  /\ questions = [a \in Accounts |-> [r \in Reported |-> NoQuestion]]
  /\ running = {}
  /\ sync = [s \in Requests |-> Idle]
  /\ trouble \in Troubles /\ Cardinality({r \in Reported : trouble[r] # "none"}) <= 1
  /\ moved = {}
  /\ left = [calls |-> MaxCalls, faults |-> MaxFaults, turns |-> MaxTurns]

Spends(what) == left[what] > 0 /\ left' = [left EXCEPT ![what] = @ - 1]

\* Rows of an account that are in the journal, whoever recorded them.
Recorded(a) == {r \in Rows : \E c \in Sources : journal[a][r][c] > 0}

\* Request s goes on with registers r.
Goes(s, r) == sync' = [sync EXCEPT ![s] = r] /\ UNCHANGED running
GoesTo(s, pc) == Goes(s, [sync[s] EXCEPT !.pc = pc])
\* Mutant: the claim outlives the sync.
Returns_KeepsClaim(s) == sync' = [sync EXCEPT ![s] = Idle] /\ UNCHANGED running

\* The sync returns, and dropping its claim releases the account.
Returns(s) ==
  /\ sync' = [sync EXCEPT ![s] = Idle]
  /\ running' = running \ {sync[s].account}
Asks == UNCHANGED <<store, trouble, moved, left>>

----------------------------------------------------------------------------
(* Before the first write.                                                 *)

\* claim: the account is taken, or the call is refused with a conflict.
claim(a) == a \notin running /\ running' = running \cup {a}

\* The call number stands for the moment of the sync in the histories below.
call(s, a, i) ==
  /\ sync[s] = Idle /\ Spends("calls")
  /\ claim(a)
  /\ sync' = [sync EXCEPT ![s] =
       [pc |-> "bound", account |-> a, interval |-> i, call |-> MaxCalls - left.calls + 1,
        number |-> NONE, pending |-> FALSE, todo |-> {}, good |-> {}, refused |-> {}, claims |-> {},
        read |-> {}, known |-> {}, snapshot |-> "none"]]
  /\ UNCHANGED <<store, trouble, moved>>

broker_account_binding(s) ==
  LET r == sync[s] IN
  /\ r.pc = "bound"
  /\ IF binding[r.account] = NONE
     THEN GoesTo(s, "discover")
     ELSE Goes(s, [r EXCEPT !.pc = "operations", !.number = binding[r.account]])
  /\ Asks

\* Exactly one number is taken and held for the binding; none or several end it.
fetch_account_numbers(s) ==
  LET r == sync[s] IN
  /\ r.pc = "discover"
  /\ \E number \in Numbers :
       Goes(s, [r EXCEPT !.pc = "operations", !.number = number, !.pending = TRUE])
  /\ Asks

Answered(r) == {o \in Rows : NumberOf[o] = r.number /\ Within(OrderDate[o], r.interval)}
Refused(rows) == {o \in rows : trouble[o] # "none"}

\* The broker's operations, parsed: a row is good, refused by the normaliser, or
\* set aside by the parser already.
fetch_operations(s) ==
  LET r == sync[s]
      rows == Answered(r)
      outside == \E o \in rows : trouble[o] # "quarantined" /\ ~Within(TradeDate[o], r.interval)
  IN /\ r.pc = "operations"
     /\ Goes(s, [r EXCEPT !.pc = "load", !.good = rows \ Refused(rows), !.refused = Refused(rows),
                          !.todo = rows \ Refused(rows),
                          !.snapshot = IF outside THEN "withheld" ELSE "asked"])
     /\ Asks

\* Mutant: the journal is not read, only what the sync itself records is known.
known_records_OwnOnly(a, to) == {}

\* known_records of load_events_through: what the dedup compares with.
known_records(a, to) == {o \in Recorded(a) : TradeDate[o] <= to}

\* The first write is the binding, where the sync discovered the number itself.
Writing(r) == IF r.pending THEN "bind" ELSE "append"

load_events_through(s) ==
  LET r == sync[s] IN
  /\ r.pc = "load"
  /\ Goes(s, [r EXCEPT !.pc = IF r.snapshot = "asked" THEN "portfolio" ELSE Writing(r),
                       !.known = known_records(r.account, r.interval.to),
                       !.read = Recorded(r.account)])
  /\ Asks

\* The portfolio answers for the day asked, or for another one, with its own refusals.
fetch_portfolio(s) ==
  LET r == sync[s]
      rows == {q \in Positions : NumberOf[q] = r.number}
  IN /\ r.pc = "portfolio"
     /\ \E as_of \in {"requested", "another day"} :
          Goes(s, [r EXCEPT !.pc = Writing(r), !.snapshot = as_of,
                            !.claims = rows \ Refused(rows), !.refused = @ \cup Refused(rows)])
     /\ Asks

\* A broker that is down, refuses or cannot be read, and an access that sees no
\* account of the owner or several, end the sync before it wrote anything.
broker_error(s) ==
  /\ sync[s].pc \in {"discover", "operations", "portfolio"}
  /\ Returns(s) /\ Asks

----------------------------------------------------------------------------
(* The writes.                                                             *)

\* Mutant: no unique index on the broker's number.
NumberIsFree_Anywhere(a, number) == TRUE

\* The unique index of broker_account_bindings.
NumberIsFree(a, number) == \A b \in Accounts \ {a} : binding[b] # number

\* An upsert: it replaces whatever number stood before.
record_broker_account_binding(s) ==
  LET r == sync[s] IN
  /\ r.pc = "bind"
  /\ \/ /\ NumberIsFree(r.account, r.number)
        /\ binding' = [binding EXCEPT ![r.account] = r.number]
        /\ GoesTo(s, "append")
     \/ /\ ~NumberIsFree(r.account, r.number)
        /\ UNCHANGED binding
        /\ Returns(s)
  /\ UNCHANGED <<journal, assertions, gaps, questions, trouble, moved, left>>

\* The store answers an operation id it holds from this source with the fact.
HeldByStore(a, o) == o \in Named /\ journal[a][o]["sync"] > 0

\* choose_key and assess: a known operation id is a duplicate; a row without
\* one matches by its fingerprint at most, which is only a hint.
assess(known, o) == IF o \in Named \cap known THEN "duplicate" ELSE "fresh"

append_operation(s) ==
  LET r == sync[s] IN
  /\ r.pc = "append"
  /\ \E o \in r.todo :
       /\ Goes(s, [r EXCEPT !.todo = @ \ {o}, !.known = @ \cup {o}])
       /\ journal' = IF assess(r.known, o) = "duplicate" \/ HeldByStore(r.account, o)
                     THEN journal
                     ELSE [journal EXCEPT ![r.account][o]["sync"] = @ + 1]
  /\ UNCHANGED <<binding, assertions, gaps, questions, trouble, moved, left>>

\* The gap is known by its interval and by how many rows were refused.
CoverageGap(r) ==
  [account |-> r.account, interval |-> r.interval, rows |-> Cardinality(r.refused)]

GapThenPortfolio(s) ==
  LET r == sync[s] IN
  /\ gaps' = IF r.refused = {} THEN gaps ELSE gaps \cup {CoverageGap(r)}
  /\ IF r.snapshot = "requested"
     THEN Goes(s, [r EXCEPT !.pc = "assert", !.todo = r.claims])
     ELSE Goes(s, [r EXCEPT !.pc = "keep", !.todo = r.refused])
  /\ UNCHANGED <<binding, journal, assertions, questions, trouble, moved, left>>

\* Mutant: a duplicate ends the loop over the operations.
record_coverage_gap_Early(s) ==
  /\ sync[s].pc = "append"
  /\ sync[s].todo = {} \/ sync[s].todo \cap sync[s].known # {}
  /\ GapThenPortfolio(s)

record_coverage_gap(s) ==
  /\ sync[s].pc = "append" /\ sync[s].todo = {}
  /\ GapThenPortfolio(s)

\* An assertion is keyed by its interval and what it claims.
Asserts(f, r, q) == f.account = r.account /\ f.interval = r.interval /\ f.position = q

append_assertion(s) ==
  LET r == sync[s] IN
  /\ r.pc = "assert"
  /\ \/ \E q \in r.todo :
          /\ Goes(s, [r EXCEPT !.todo = @ \ {q}])
          /\ assertions' = IF \E f \in assertions : Asserts(f, r, q) THEN assertions
               ELSE assertions \cup {[account |-> r.account, interval |-> r.interval,
                                      position |-> q, rows |-> r.good]}
     \/ /\ r.todo = {}
        /\ Goes(s, [r EXCEPT !.pc = "keep", !.todo = r.refused])
        /\ UNCHANGED assertions
  /\ UNCHANGED <<binding, journal, gaps, questions, trouble, moved, left>>

\* A row refused again reopens its record under the interval of this sync.
upsert_sync_refusal(s) ==
  LET r == sync[s] IN
  /\ r.pc = "keep"
  /\ \E o \in r.todo :
       /\ questions' = [questions EXCEPT ![r.account][o] =
            [raised |-> r.call, open |-> TRUE, interval |-> r.interval, rows |-> r.good,
             by |-> NONE]]
       /\ Goes(s, [r EXCEPT !.todo = @ \ {o}])
  /\ UNCHANGED <<binding, journal, assertions, gaps, trouble, moved, left>>

\* Mutant: an interval that overlaps is taken for one that covers.
Settles_Overlap(r, q, o) ==
  /\ q # NoQuestion /\ q.open
  /\ r.interval.from <= q.interval.to /\ q.interval.from <= r.interval.to
  /\ o \notin r.refused

\* An open record the sync's interval contains and the sync no longer refuses.
Settles(r, q, o) ==
  q # NoQuestion /\ q.open /\ Covers(r.interval, q.interval) /\ o \notin r.refused

\* Only the sync whose portfolio was affirmed settles what it no longer refuses.
settle_sync_refusals_besides(s) ==
  LET r == sync[s] IN
  /\ r.pc = "keep" /\ r.todo = {}
  /\ questions' = IF r.snapshot # "requested" THEN questions
       ELSE [questions EXCEPT ![r.account] = [o \in Reported |->
              LET q == questions[r.account][o]
              IN IF Settles(r, q, o)
                 THEN [q EXCEPT !.open = FALSE,
                                 !.by = [call |-> r.call, interval |-> r.interval, number |-> r.number]]
                 ELSE q]]
  /\ Returns(s)
  /\ UNCHANGED <<binding, journal, assertions, gaps, trouble, moved, left>>

----------------------------------------------------------------------------
(* Failures, and what happens around a sync.                               *)

\* A store call fails, the caller hangs up, or the process stops.
stop(s) ==
  /\ sync[s] # Idle /\ Spends("faults")
  /\ Returns(s)
  /\ UNCHANGED <<store, trouble, moved>>

\* The owner binds an account to a number no other account of his holds.
bind_account(a, number) ==
  /\ Spends("turns")
  /\ NumberIsFree(a, number)
  /\ binding' = [binding EXCEPT ![a] = number]
  /\ moved' = moved \cup ({binding[a]} \ {NONE, number})
  /\ UNCHANGED <<journal, assertions, gaps, questions, running, sync, trouble>>

\* A statement that names the operation is imported under the account.
import_statement(a, o) ==
  /\ Spends("turns")
  /\ o \in Named \ Recorded(a)
  /\ journal' = [journal EXCEPT ![a][o]["import"] = 1]
  /\ UNCHANGED <<binding, assertions, gaps, questions, running, sync, trouble, moved>>

\* The broker repairs a row, or spoils it.
row_changes(o, how) ==
  /\ Spends("turns")
  /\ how # trouble[o]
  /\ trouble' = [trouble EXCEPT ![o] = how] /\ trouble' \in Troubles
  /\ UNCHANGED <<store, running, sync, moved>>

step(s) ==
  \/ broker_account_binding(s) \/ fetch_account_numbers(s) \/ fetch_operations(s)
  \/ load_events_through(s) \/ fetch_portfolio(s) \/ broker_error(s)
  \/ record_broker_account_binding(s) \/ append_operation(s) \/ record_coverage_gap(s)
  \/ append_assertion(s) \/ upsert_sync_refusal(s) \/ settle_sync_refusals_besides(s)

Next ==
  \/ \E s \in Requests : step(s) \/ stop(s)
  \/ \E s \in Requests, a \in Accounts, i \in Intervals : call(s, a, i)
  \/ \E a \in Accounts, number \in Numbers : bind_account(a, number)
  \/ \E a \in Accounts, o \in Rows : import_statement(a, o)
  \/ \E o \in Reported, how \in {"none", "rejected", "quarantined"} : row_changes(o, how)

Spec == Init /\ [][Next]_vars

----------------------------------------------------------------------------

Registers ==
  [pc : {"bound", "discover", "operations", "load", "portfolio", "bind", "append",
         "assert", "keep"},
   account : Accounts, interval : Intervals, call : 1..MaxCalls,
   number : Numbers \cup {NONE}, pending : BOOLEAN, todo : SUBSET Reported,
   good : SUBSET Rows, refused : SUBSET Reported, claims : SUBSET Positions,
   read : SUBSET Rows, known : SUBSET Rows,
   snapshot : {"none", "withheld", "asked", "requested", "another day"}]

\* Every variable keeps its shape, and an account is claimed exactly while one
\* sync runs for it, however the sync before it ended (SyncClaim's Drop).
TypeOK ==
  /\ binding \in [Accounts -> Numbers \cup {NONE}]
  /\ \A a \in Accounts, r \in Rows, c \in Sources : journal[a][r][c] \in Nat
  /\ \A g \in gaps : g.account \in Accounts /\ g.interval \in Intervals /\ g.rows \in Nat \ {0}
  /\ sync \in [Requests -> Registers \cup {Idle}]
  /\ running = {sync[s].account : s \in {t \in Requests : sync[t] # Idle}}
  /\ moved \subseteq Numbers
  /\ \A s, t \in Requests :
       sync[s] # Idle /\ sync[t] # Idle /\ sync[s].account = sync[t].account => s = t

\* An operation with an identifier is recorded once by the channel, however often
\* a sync is retried after failing part way, and not at all where the journal
\* the sync read already holds it from another source (dedup::assess; the facts
\* dated after the interval are not compared).
RecordedOnce ==
  [][\A a \in Accounts, o \in Named :
       journal'[a][o]["sync"] > journal[a][o]["sync"] =>
         /\ journal[a][o]["sync"] = 0
         /\ \A s \in Requests : sync'[s] # sync[s] =>
              o \notin sync[s].read \/ TradeDate[o] > sync[s].interval.to]_vars

\* Nothing stands on half a sync: an assertion, or a question to the owner, is
\* kept only by a sync all of whose accepted operations are in the journal,
\* whichever call failed (keep_refusal_questions' comment: "a failed attempt
\* cannot mint a question its failure should not").
StandsOnItsRows ==
  /\ \A f \in assertions : f.rows \subseteq Recorded(f.account)
  /\ \A a \in Accounts, o \in Reported :
       questions[a][o] # NoQuestion => questions[a][o].rows \subseteq Recorded(a)

\* A sync asks for row o: of its number, and an operation of a day in its interval.
Rereads(by, o) ==
  by.number = NumberOf[o] /\ (o \in Rows => Within(OrderDate[o], by.interval))

Closed(a, o) == questions[a][o] # NoQuestion /\ ~questions[a][o].open

\* A question is closed only by a sync called after the one that raised it, and
\* only by one that asked the broker for the row again, unless the owner took the
\* row's number from an account: never on the silence of a sync of other days, nor
\* of one under way when it was raised (settle_sync_refusals_besides, RunningSyncs).
SettledWasReread ==
  \A a \in Accounts, o \in Reported : Closed(a, o) =>
    /\ questions[a][o].by.call > questions[a][o].raised
    /\ Rereads(questions[a][o].by, o) \/ NumberOf[o] \in moved

\* The same without the exception, which the store's comment does not make: "a
\* sync that covers the whole record has re-read the row".  A sync after the owner
\* bound the account to another number covers the record and asks for other rows.
CoveringIsRereading ==
  \A a \in Accounts, o \in Reported : Closed(a, o) => Rereads(questions[a][o].by, o)

\* The operations of one broker account are filed on one account of the owner,
\* although two syncs may discover the same number at once; only the owner's own
\* rebinding moves it (record_broker_account_binding's comment).
FiledOnOneAccount ==
  \A a, b \in Accounts, o \in Rows :
    journal[a][o]["sync"] > 0 /\ journal[b][o]["sync"] > 0 => a = b \/ NumberOf[o] \in moved
=============================================================================
