------------------------- MODULE AccountStatements --------------------------
(***************************************************************************)
(* What is said of an account, and the reports that read it: a retirement  *)
(* (the product ceased on a date, scenarios/retirement.rs), a retraction   *)
(* (the row should never have existed, scenarios/retraction.rs), the asset *)
(* snapshot (scenarios/reports.rs).  A handler is a sequence of store      *)
(* calls with an await between any two: it reads, asks the rule of         *)
(* iaam-core, and writes; a report reads four tables one after the other   *)
(* while other clients write.                                              *)
(*                                                                         *)
(* One owner, whose contour covers every account.  An amount or a quantity *)
(* is one unit, of one currency or one instrument; the rows an import      *)
(* session still holds are not part of a report here, nor is the index row *)
(* a handler leaves of the decision after its write.                       *)
(***************************************************************************)
EXTENDS Integers, Sequences, FiniteSets

CONSTANTS
  Accounts,
  Clients, Owner,     \* credentials; Owner is the one that administers
  declared_by,        \* declared_by[a]: the credential that created a, or NONE
  Days, Today,        \* dates, and services.clock.today()
  MaxFacts,           \* bounds of the model: journal facts,
  MaxRetirements,     \* and retirements declared
  NONE

ASSUME StatementsAssumption ==
  /\ Owner \in Clients
  /\ declared_by \in [Accounts -> Clients \cup {NONE}]
  /\ Days \subseteq Nat /\ Today \in Days
  /\ MaxFacts \in Nat /\ MaxRetirements \in Nat
  /\ NONE \notin Accounts \cup Clients \cup Nat /\ NONE # "asset_snapshot"

VARIABLES
  events,       \* the journal, in the order it was written
  retirements,  \* account_retirements: the row of revision i is the i-th
  retractions,  \* account_retractions
  request       \* request[c]: what c is being served, and what it has read

store == <<events, retirements, retractions>>
vars == <<store, request>>

-----------------------------------------------------------------------------
(* The journal, as far as these handlers read it. *)

\* Facts of these kinds are no business facts (activity_recorded_against).
NoBusiness == {"control_assertion"}
Kinds == {"deposit", "cash_transfer", "buy", "sell", "stated_securities_value"}
           \cup NoBusiness

\* What a correction leaves standing: neither a reversal nor what it reverses.
resolve(facts) ==
  {i \in DOMAIN facts : facts[i].target = NONE
                        /\ \A j \in DOMAIN facts : facts[j].target # i}

Touches(fact, a) == a \in {fact.account, fact.to}

\* Accounts with a business fact, both ends of a transfer counted.
list_account_activity(facts) ==
  {a \in Accounts : \E i \in DOMAIN facts :
     facts[i].kind \notin NoBusiness /\ Touches(facts[i], a)}

\* Balances::apply: the cash and the quantity the legs in force leave on an
\* account.
Count(facts, kinds, end, a) ==
  Cardinality({i \in resolve(facts) : facts[i].kind \in kinds /\ facts[i][end] = a})
cash(facts, a) ==
  Count(facts, {"deposit", "sell"}, "account", a) + Count(facts, {"cash_transfer"}, "to", a)
    - Count(facts, {"buy", "cash_transfer"}, "account", a)
quantity(facts, a) ==
  Count(facts, {"buy"}, "account", a) - Count(facts, {"sell"}, "account", a)

\* A position stays listed when its quantity is back to zero.
positions(facts, a) == Count(facts, {"buy", "sell"}, "account", a) # 0
\* The owner's word for what the securities are worth; a later one replaces it.
stated_securities(facts, a) == Count(facts, {"stated_securities_value"}, "account", a) # 0

\* The figures of an account that fold_cash and fold_positions count: a stated
\* value only where the journal knows of no position.
Figures(facts, a) ==
  {f \in {"cash", "position", "stated"} :
     \/ f = "cash" /\ cash(facts, a) # 0
     \/ f = "position" /\ quantity(facts, a) # 0
     \/ f = "stated" /\ stated_securities(facts, a) /\ ~positions(facts, a)}

-----------------------------------------------------------------------------
(* Retirements: an append-only history of revisions. *)

LastRow(history, a) ==
  CHOOSE i \in DOMAIN history :
    history[i].account = a /\ \A j \in (i + 1)..Len(history) : history[j].account # a

Spoken(history, a) == \E i \in DOMAIN history : history[i].account = a

\* The statements in force; the revision they are in force at is the length.
list_account_retirements(history) ==
  [a \in Accounts |->
     IF Spoken(history, a) THEN history[LastRow(history, a)].effective_on ELSE NONE]

accept_retirement(current, effective_on, day) ==
  IF current # NONE THEN "already_retired"
  ELSE IF effective_on > day THEN "not_yet_ceased"
  ELSE "accepted"

accept_withdrawal(current) == IF current = NONE THEN "not_retired" ELSE "accepted"

accept_retraction(currently_retracted, has_business_fact) ==
  IF currently_retracted THEN "already_retracted"
  ELSE IF has_business_fact THEN "account_not_empty"
  ELSE "accepted"

accept_retraction_withdrawal(currently_retracted) ==
  IF currently_retracted THEN "accepted" ELSE "not_retracted"

\* The owner always, an agent what it declared itself.
may_retract(c, a) == c = Owner \/ declared_by[a] = c

-----------------------------------------------------------------------------
(* The handlers. *)

Statements == {"retire", "unretire", "retract", "unretract"}

\* Mutant: the asset snapshot reads the journal last.
Script_JournalLast ==
  [retire    |-> <<"list_account_retirements", "write">>,
   unretire  |-> <<"list_account_retirements", "write">>,
   retract   |-> <<"list_account_retractions", "list_account_activity", "write">>,
   unretract |-> <<"list_account_retractions", "write">>,
   asset_snapshot |-> <<"list_account_retractions", "list_account_activity",
                        "list_account_retirements", "load_events_through">>]

\* The store calls of each handler, in their order.
Script ==
  [retire    |-> <<"list_account_retirements", "write">>,
   unretire  |-> <<"list_account_retirements", "write">>,
   retract   |-> <<"list_account_retractions", "list_account_activity", "write">>,
   unretract |-> <<"list_account_retractions", "write">>,
   asset_snapshot |-> <<"load_events_through", "list_account_retractions",
                        "list_account_activity", "list_account_retirements">>]

NothingRead == [facts |-> 0, retracted |-> {}, active |-> {},
                retired |-> list_account_retirements(<<>>)]
Idle == [op |-> NONE, todo |-> <<>>]

Init ==
  /\ events = <<>> /\ retirements = <<>> /\ retractions = {}
  /\ request = [c \in Clients |-> Idle]

\* A request is about an account and a date: the date of a retirement, or the
\* date a report is taken at.
Asks(c, op, a, d) ==
  /\ request[c] = Idle
  /\ request' = [request EXCEPT ![c] =
       [op |-> op, account |-> a, date |-> d, todo |-> Script[op], read |-> NothingRead]]
  /\ UNCHANGED store

\* Declarations made or under way; what is withdrawn was declared before.
Declared == Cardinality({i \in DOMAIN retirements : retirements[i].effective_on # NONE})
            + Cardinality({c \in Clients : request[c].op = "retire"})
Retire(c) == Declared < MaxRetirements
             /\ \E a \in Accounts, d \in Days : Asks(c, "retire", a, d)
Unretire(c) == \E a \in Accounts : Asks(c, "unretire", a, 0)
Retract(c) == \E op \in {"retract", "unretract"}, a \in Accounts :
  may_retract(c, a) /\ Asks(c, op, a, 0)
Report(c) == Asks(c, "asset_snapshot", NONE, Today)

At(c, call) == request[c].todo # <<>> /\ Head(request[c].todo) = call

Done(c) == request' = [request EXCEPT ![c] = Idle]

\* The rule's verdict on what c has read lets the handler go on to its write or
\* ends it with a refusal.
Assessed(c, verdict) ==
  \/ /\ verdict = "accepted"
     /\ request' = [request EXCEPT ![c].read = NothingRead, ![c].todo = Tail(@)]
     /\ UNCHANGED store
  \/ verdict # "accepted" /\ Done(c) /\ UNCHANGED store

AssessRetirement(c) ==
  LET current == list_account_retirements(retirements)[request[c].account]
  IN  /\ At(c, "list_account_retirements") /\ request[c].op \in Statements
      /\ Assessed(c, IF request[c].op = "retire"
                     THEN accept_retirement(current, request[c].date, Today)
                     ELSE accept_withdrawal(current))

AssessRetraction(c) ==
  LET a == request[c].account
  IN  /\ At(c, "list_account_activity") /\ request[c].op = "retract"
      /\ Assessed(c, accept_retraction(a \in request[c].read.retracted,
                                       a \in list_account_activity(events)))

AssessRetractionWithdrawal(c) ==
  /\ At(c, "list_account_retractions") /\ request[c].op = "unretract"
  /\ Assessed(c, accept_retraction_withdrawal(request[c].account \in retractions))

\* c keeps what it has read.
Learns(c, field, value) ==
  /\ request' = [request EXCEPT ![c].read[field] = value, ![c].todo = Tail(@)]
  /\ UNCHANGED store

ReadRetractions(c) ==
  /\ At(c, "list_account_retractions") /\ request[c].op # "unretract"
  /\ Learns(c, "retracted", retractions)

ReadActivity(c) ==
  /\ At(c, "list_account_activity") /\ request[c].op = "asset_snapshot"
  /\ Learns(c, "active", list_account_activity(events))

ReadRetirements(c) ==
  /\ At(c, "list_account_retirements") /\ request[c].op = "asset_snapshot"
  /\ Learns(c, "retired", list_account_retirements(retirements))

\* The journal is append-only: how much of it was loaded is its length.
LoadEvents(c) ==
  /\ At(c, "load_events_through")
  /\ Learns(c, "facts", Len(events))

append_retirement(a, effective_on) ==
  retirements' = Append(retirements, [account |-> a, effective_on |-> effective_on])

WriteRetirement(c) ==
  /\ At(c, "write") /\ request[c].op \in {"retire", "unretire"}
  /\ append_retirement(request[c].account,
                       IF request[c].op = "retire" THEN request[c].date ELSE NONE)
  /\ Done(c) /\ UNCHANGED <<events, retractions>>

\* An upsert and a delete of one row.
WriteRetraction(c) ==
  /\ At(c, "write") /\ request[c].op \in {"retract", "unretract"}
  /\ retractions' = IF request[c].op = "retract" THEN retractions \cup {request[c].account}
                    ELSE retractions \ {request[c].account}
  /\ Done(c) /\ UNCHANGED <<events, retirements>>

\* The store fails, or the client goes away: what was written stays.
Fail(c) == request[c].todo # <<>> /\ Done(c) /\ UNCHANGED store

\* The answer of a report leaves the server.
Answer(c) ==
  /\ request[c] # Idle /\ request[c].todo = <<>>
  /\ Done(c) /\ UNCHANGED store

-----------------------------------------------------------------------------
(* Everything else that writes the journal. *)

Writes(fact) ==
  /\ Len(events) < MaxFacts
  /\ events' = Append(events, fact)
  /\ UNCHANGED <<retirements, retractions, request>>

RecordFact == \E kind \in Kinds, a \in Accounts, b \in Accounts \cup {NONE} :
  /\ kind = "cash_transfer" <=> b # NONE
  /\ a # b
  /\ Writes([kind |-> kind, account |-> a, to |-> b, target |-> NONE])

\* A reversal has the kind, the account and the legs of what it reverses.
reversal_for(original, i) == [original EXCEPT !.target = i]
Reverse == \E i \in resolve(events) : Writes(reversal_for(events[i], i))

Serve(c) == \/ Retire(c) \/ Unretire(c) \/ Retract(c) \/ Report(c)
            \/ AssessRetirement(c) \/ AssessRetraction(c) \/ AssessRetractionWithdrawal(c)
            \/ ReadRetractions(c) \/ ReadActivity(c) \/ ReadRetirements(c) \/ LoadEvents(c)
            \/ WriteRetirement(c) \/ WriteRetraction(c) \/ Fail(c) \/ Answer(c)
Next == (\E c \in Clients : Serve(c)) \/ RecordFact \/ Reverse
Spec == Init /\ [][Next]_vars

-----------------------------------------------------------------------------
(* What a report answers, from what it read. *)

Answered(c) == request[c].op = "asset_snapshot" /\ request[c].todo = <<>>
Loaded(c) == SubSeq(events, 1, request[c].read.facts)

retractions_that_hold(retracted, active) == retracted \ active

report_population(r) == Accounts \ retractions_that_hold(r.read.retracted, r.read.active)

retired_by(r, a) == r.read.retired[a] # NONE /\ r.read.retired[a] <= r.date

\* The product ceased, and neither cash nor a position is on the account.
retired_and_empty(c, a) ==
  /\ retired_by(request[c], a)
  /\ cash(Loaded(c), a) = 0
  /\ quantity(Loaded(c), a) = 0

\* The accounts that have a row in the snapshot; its figures are folded from them.
asset_snapshot(c) == {a \in report_population(request[c]) : ~retired_and_empty(c, a)}

-----------------------------------------------------------------------------
(* Properties. *)

\* An account a report leaves out as retracted has no figure in the journal that
\* report folded, neither cash nor a position nor a stated value: a retraction
\* that outlived its premise takes nothing out, whatever was written between the
\* four reads of the report.
UncoveredAccountsAreEmpty ==
  \A c \in Clients : Answered(c) =>
    \A a \in Accounts \ report_population(request[c]) : Figures(Loaded(c), a) = {}

\* Every figure an asset snapshot could count is in one of its rows: a retirement
\* removes a line and never moves a number.  The code leaves out the row of a
\* retired account that has nothing but a stated value.
NoMoneyIsHidden ==
  \A c \in Clients : Answered(c) =>
    \A a \in Accounts : Figures(Loaded(c), a) # {} => a \in asset_snapshot(c)

\* A product that ceased does not cease again before the statement is withdrawn,
\* and a withdrawal has a statement to withdraw.  Two requests that read the same
\* statements before either writes are both accepted.
RetirementsAlternate ==
  \A i \in DOMAIN retirements :
    LET before == list_account_retirements(SubSeq(retirements, 1, i - 1))
    IN (before[retirements[i].account] = NONE) # (retirements[i].effective_on = NONE)
=============================================================================
