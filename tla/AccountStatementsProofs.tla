----------------------- MODULE AccountStatementsProofs ------------------------
(***************************************************************************)
(* For any accounts, clients and dates, and whatever is written between    *)
(* the reads of a report: an account it leaves out as retracted has no     *)
(* figure in the journal it folded.                                        *)
(***************************************************************************)
EXTENDS AccountStatements, FiniteSetTheorems, SequenceTheorems, TLAPS

Facts == [kind : Kinds, account : Accounts, to : Accounts \cup {NONE}, target : Nat \cup {NONE}]
Ops == Statements \cup {"asset_snapshot"}

\* What the snapshot has still to read.
Whole == <<"load_events_through", "list_account_retractions",
           "list_account_activity", "list_account_retirements">>
Loading == <<"list_account_retractions", "list_account_activity", "list_account_retirements">>
Retracting == <<"list_account_activity", "list_account_retirements">>
Retiring == <<"list_account_retirements">>

\* A request under way has the fields it was begun with.
Shaped(r) ==
  /\ r.op \in Ops
  /\ r = [op |-> r.op, account |-> r.account, date |-> r.date, todo |-> r.todo, read |-> r.read]
  /\ r.read = [facts |-> r.read.facts, retracted |-> r.read.retracted,
               active |-> r.read.active, retired |-> r.read.retired]

\* Accounts with a business fact among the first n of the journal.
Active(n) == {a \in Accounts : \E i \in 1..n :
                events[i].kind \notin NoBusiness /\ Touches(events[i], a)}

\* A snapshot has folded a prefix of the journal, and once it has read the
\* activity it knows every account that prefix touches.
SnapshotOK(r) ==
  r.op = "asset_snapshot" =>
    /\ r.todo \in {Whole, Loading, Retracting, Retiring, <<>>}
    /\ r.read.facts \in 0..Len(events)
    /\ r.todo \in {Retiring, <<>>} => Active(r.read.facts) \subseteq r.read.active

IInv ==
  /\ events \in Seq(Facts)
  /\ request = [c \in Clients |-> request[c]]
  /\ \A c \in Clients : request[c] = Idle \/ (Shaped(request[c]) /\ SnapshotOK(request[c]))

-----------------------------------------------------------------------------
\* The snapshot's calls come one after the other.
LEMMA ScriptOrder ==
  /\ Script["asset_snapshot"] = Whole
  /\ Tail(Whole) = Loading /\ Tail(Loading) = Retracting /\ Tail(Retracting) = Retiring
  /\ Tail(Retiring) = <<>>
  /\ Head(Whole) = "load_events_through" /\ Head(Loading) = "list_account_retractions"
  /\ Head(Retracting) = "list_account_activity" /\ Head(Retiring) = "list_account_retirements"
<1>1. Script["asset_snapshot"] = Whole
  BY DEF Script, Whole
<1>2. Tail(Whole) = Loading /\ Tail(Loading) = Retracting
  BY DEF Whole, Loading, Retracting
<1>3. Tail(Retracting) = Retiring /\ Tail(Retiring) = <<>>
  BY DEF Retracting, Retiring
<1>4. /\ Head(Whole) = "load_events_through" /\ Head(Loading) = "list_account_retractions"
      /\ Head(Retracting) = "list_account_activity" /\ Head(Retiring) = "list_account_retirements"
  BY DEF Whole, Loading, Retracting, Retiring
<1> QED BY <1>1, <1>2, <1>3, <1>4

\* What a snapshot has still to read tells how far it is.
LEMMA TodosDiffer ==
  /\ Whole # <<>> /\ Loading # <<>> /\ Retracting # <<>> /\ Retiring # <<>>
  /\ Whole \notin {Retiring, <<>>} /\ Loading \notin {Retiring, <<>>} /\ Retracting # Retiring
BY ScriptOrder DEF Whole, Loading, Retracting, Retiring

\* An account no business fact touches has nothing on it.
LEMMA UntouchedIsEmpty ==
  ASSUME IInv, NEW n \in 0..Len(events), NEW a \in Accounts, a \notin Active(n)
  PROVE  Figures(SubSeq(events, 1, n), a) = {}
<1> DEFINE facts == SubSeq(events, 1, n)
           live == resolve(facts)
<1>1. Len(events) \in Nat /\ n \in Nat /\ events \in Seq(Facts)
  BY LenProperties DEF IInv
<1>2. DOMAIN facts = 1..n /\ \A i \in 1..n : facts[i] = events[i]
  <2>1. \A i \in 1..n : events[i] \in Facts
    BY <1>1, ElementOfSeq
  <2>2. facts \in Seq(Facts) /\ Len(facts) = n /\ \A i \in 1..n : facts[i] = events[1 + i - 1]
    BY <1>1, <2>1, SubSeqProperties
  <2>3. DOMAIN facts = 1..n
    BY <2>2, LenProperties
  <2> QED BY <1>1, <2>2, <2>3
<1>3. live \subseteq 1..n
  BY <1>2 DEF resolve
<1> HIDE DEF facts, live
<1>4. \A i \in 1..n : events[i].kind \notin NoBusiness => ~Touches(events[i], a)
  BY DEF Active
<1>5. ASSUME NEW kinds, kinds \cap NoBusiness = {}, NEW end \in {"account", "to"}
      PROVE  Count(facts, kinds, end, a) = 0
  <2>1. \A i \in live : facts[i].kind \in kinds => facts[i][end] # a
    BY <1>2, <1>3, <1>4, <1>5 DEF Touches
  <2>2. {i \in live : facts[i].kind \in kinds /\ facts[i][end] = a} = {}
    BY <2>1
  <2> QED BY <2>2, FS_EmptySet DEF Count, live
<1>6. /\ Count(facts, {"deposit", "sell"}, "account", a) = 0
      /\ Count(facts, {"cash_transfer"}, "to", a) = 0
      /\ Count(facts, {"buy", "cash_transfer"}, "account", a) = 0
      /\ Count(facts, {"buy"}, "account", a) = 0 /\ Count(facts, {"sell"}, "account", a) = 0
      /\ Count(facts, {"stated_securities_value"}, "account", a) = 0
  BY <1>5 DEF NoBusiness
<1>7. cash(facts, a) = 0 /\ quantity(facts, a) = 0 /\ ~stated_securities(facts, a)
  BY <1>6 DEF cash, quantity, stated_securities
<1>8. Figures(facts, a) = {}
  BY <1>7 DEF Figures
<1> QED BY <1>8 DEF facts

\* What a client reads is about its own request.
LEMMA OneRequestMoves ==
  ASSUME IInv, UNCHANGED events, NEW c \in Clients, NEW R, request' = [request EXCEPT ![c] = R],
         R = Idle \/ (Shaped(R) /\ SnapshotOK(R))
  PROVE  IInv'
<1>1. /\ request' = [e \in Clients |-> request'[e]] /\ request'[c] = R
      /\ \A e \in Clients \ {c} : request'[e] = request[e]
  BY DEF IInv
<1>2. ASSUME NEW e \in Clients
      PROVE  (request[e] = Idle \/ (Shaped(request[e]) /\ SnapshotOK(request[e])))'
  <2>1. CASE e = c
    BY <1>1, <2>1 DEF Shaped, SnapshotOK, Active
  <2>2. CASE e # c
    BY <1>1, <2>2 DEF IInv, Shaped, SnapshotOK, Active
  <2> QED BY <2>1, <2>2
<1> QED BY <1>1, <1>2 DEF IInv

\* A request as it is begun has read nothing.
LEMMA AsksStep ==
  ASSUME IInv, NEW c \in Clients, NEW op \in Ops, NEW a, NEW d, Asks(c, op, a, d)
  PROVE  IInv'
<1> DEFINE R == [op |-> op, account |-> a, date |-> d, todo |-> Script[op], read |-> NothingRead]
<1>1. request' = [request EXCEPT ![c] = R] /\ UNCHANGED events
  BY DEF Asks, store
<1>2. R.read = NothingRead /\ R.op = op /\ R.todo = Script[op]
  OBVIOUS
<1>3. Shaped(R)
  BY <1>2 DEF Shaped, NothingRead
<1>4. SnapshotOK(R)
  <2>1. Len(events) \in Nat
    BY LenProperties DEF IInv
  <2>2. R.read.facts \in 0..Len(events)
    BY <1>2, <2>1 DEF NothingRead
  <2>3. op = "asset_snapshot" => R.todo = Whole
    BY <1>2, ScriptOrder
  <2> HIDE DEF R
  <2> QED BY <1>2, <2>2, <2>3, TodosDiffer DEF SnapshotOK
<1> HIDE DEF R
<1> QED BY <1>1, <1>3, <1>4, OneRequestMoves

\* A request that ends leaves its client idle.
LEMMA DoneStep ==
  ASSUME IInv, NEW c \in Clients, Done(c), UNCHANGED events
  PROVE  IInv'
BY OneRequestMoves DEF Done

\* A request that moves on keeps its operation, account and date.
LEMMA MovesOn ==
  ASSUME NEW r, Shaped(r), NEW k, NEW t
  PROVE  [r EXCEPT !.read = k, !.todo = t]
           = [op |-> r.op, account |-> r.account, date |-> r.date, todo |-> t, read |-> k]
<1> DEFINE F == {"op", "account", "date", "todo", "read"}
           Q == [r EXCEPT !.read = k, !.todo = t]
<1>1. DOMAIN r = F
  <2>1. r = [op |-> r.op, account |-> r.account, date |-> r.date, todo |-> r.todo, read |-> r.read]
    BY DEF Shaped
  <2> QED BY <2>1
<1>2. /\ Q.op = r.op /\ Q.account = r.account /\ Q.date = r.date /\ Q.todo = t /\ Q.read = k
      /\ DOMAIN Q = F /\ Q = [f \in DOMAIN Q |-> Q[f]]
  BY <1>1
<1> HIDE DEF Q
<1>3. Q = [f \in F |-> Q[f]]
  BY <1>2
<1>4. Q = [op |-> Q.op, account |-> Q.account, date |-> Q.date, todo |-> Q.todo, read |-> Q.read]
  BY <1>3
<1> QED BY <1>2, <1>4 DEF Q

\* A verdict moves a request about a statement, never a snapshot.
LEMMA AssessedStep ==
  ASSUME IInv, NEW c \in Clients, request[c].op \in Statements, request[c] # Idle,
         NEW v, Assessed(c, v)
  PROVE  IInv'
<1> DEFINE r == request[c]
           R == [op |-> r.op, account |-> r.account, date |-> r.date, todo |-> Tail(r.todo),
                 read |-> NothingRead]
<1>0. UNCHANGED events
  BY DEF Assessed, store
<1>1. CASE Done(c)
  BY <1>0, <1>1, DoneStep
<1>2. CASE request' = [request EXCEPT ![c].read = NothingRead, ![c].todo = Tail(@)]
  <2>1. Shaped(r) /\ r.op \in Statements
    BY DEF IInv
  <2>2. request' = [request EXCEPT ![c] = R]
    <3>1. request' = [request EXCEPT ![c] = [r EXCEPT !.read = NothingRead, !.todo = Tail(r.todo)]]
      BY <1>2
    <3>2. [r EXCEPT !.read = NothingRead, !.todo = Tail(r.todo)] = R
      BY <2>1, MovesOn
    <3> QED BY <3>1, <3>2
  <2>3. R.op \in Statements /\ R.read = NothingRead
    BY <2>1
  <2>4. Shaped(R)
    BY <2>3 DEF Shaped, NothingRead, Ops
  <2>5. SnapshotOK(R)
    BY <2>3 DEF SnapshotOK, Statements
  <2> HIDE DEF R
  <2> QED BY <1>0, <2>2, <2>4, <2>5, OneRequestMoves
<1> QED BY <1>1, <1>2 DEF Assessed

\* What a read adds to a request, and that nothing else of it changes.
LEMMA LearnsShape ==
  ASSUME IInv, NEW c \in Clients, request[c] # Idle, NEW value,
         NEW field \in {"facts", "retracted", "active", "retired"}, Learns(c, field, value)
  PROVE  \E R : /\ request' = [request EXCEPT ![c] = R] /\ UNCHANGED events
                /\ Shaped(R) /\ R.op = request[c].op /\ R.todo = Tail(request[c].todo)
                /\ R.read[field] = value
                /\ field # "facts" => R.read.facts = request[c].read.facts
                /\ field # "active" => R.read.active = request[c].read.active
<1> DEFINE r == request[c]
           K == [r.read EXCEPT ![field] = value]
           R == [op |-> r.op, account |-> r.account, date |-> r.date, todo |-> Tail(r.todo),
                 read |-> K]
<1>1. Shaped(r)
  BY DEF IInv
<1>2. request' = [request EXCEPT ![c] = [r EXCEPT !.read = K, !.todo = Tail(r.todo)]]
  BY DEF Learns
<1>3. [r EXCEPT !.read = K, !.todo = Tail(r.todo)] = R
  BY <1>1, MovesOn
<1>4. K = [facts |-> K.facts, retracted |-> K.retracted, active |-> K.active,
           retired |-> K.retired] /\ K[field] = value
  <2> DEFINE k == r.read
  <2>1. k = [facts |-> k.facts, retracted |-> k.retracted, active |-> k.active,
             retired |-> k.retired]
    BY <1>1 DEF Shaped
  <2>2. DOMAIN k = {"facts", "retracted", "active", "retired"}
    BY <2>1
  <2> HIDE DEF k
  <2>3. DOMAIN [k EXCEPT ![field] = value] = {"facts", "retracted", "active", "retired"}
    BY <2>2
  <2>4. K = [k EXCEPT ![field] = value]
    BY DEF k
  <2> HIDE DEF K
  <2>5. K = [f \in {"facts", "retracted", "active", "retired"} |-> K[f]]
    BY <2>2, <2>3, <2>4
  <2>6. K[field] = value
    BY <2>2, <2>4
  <2> QED BY <2>5, <2>6
<1>5. (field # "facts" => K.facts = r.read.facts) /\ (field # "active" => K.active = r.read.active)
  BY <1>1 DEF Shaped
<1> HIDE DEF K
<1>6. R.read = K /\ R.op = r.op /\ R.todo = Tail(r.todo)
  OBVIOUS
<1>7. Shaped(R)
  BY <1>1, <1>4, <1>6 DEF Shaped
<1>8. UNCHANGED events
  BY DEF Learns, store
<1> HIDE DEF R
<1> QED BY <1>2, <1>3, <1>4, <1>5, <1>6, <1>7, <1>8

\* The journal is loaded first, and as it is then.
LEMMA LoadStep ==
  ASSUME IInv, NEW c \in Clients, LoadEvents(c)
  PROVE  IInv'
<1>1. request[c] # Idle /\ Head(request[c].todo) = "load_events_through"
  BY DEF LoadEvents, At, Idle
<1>2. PICK R : /\ request' = [request EXCEPT ![c] = R] /\ UNCHANGED events
               /\ Shaped(R) /\ R.op = request[c].op /\ R.todo = Tail(request[c].todo)
               /\ R.read["facts"] = Len(events)
  BY <1>1, LearnsShape DEF LoadEvents
<1>3. SnapshotOK(R)
  <2>1. SUFFICES ASSUME R.op = "asset_snapshot" PROVE SnapshotOK(R)
    BY DEF SnapshotOK
  <2>2. request[c].todo = Whole
    BY <1>1, <1>2, <2>1, ScriptOrder DEF IInv, SnapshotOK, LoadEvents, At
  <2>3. R.todo = Loading
    BY <1>2, <2>2, ScriptOrder
  <2>4. R.read.facts \in 0..Len(events)
    BY <1>2, LenProperties DEF IInv
  <2> QED BY <2>3, <2>4, TodosDiffer DEF SnapshotOK
<1> QED BY <1>2, <1>3, OneRequestMoves

\* The retractions are read.
LEMMA RetractionsStep ==
  ASSUME IInv, NEW c \in Clients, ReadRetractions(c)
  PROVE  IInv'
<1>1. request[c] # Idle /\ Head(request[c].todo) = "list_account_retractions"
  BY DEF ReadRetractions, At, Idle
<1>2. PICK R : /\ request' = [request EXCEPT ![c] = R] /\ UNCHANGED events
               /\ Shaped(R) /\ R.op = request[c].op /\ R.todo = Tail(request[c].todo)
               /\ R.read.facts = request[c].read.facts
  BY <1>1, LearnsShape DEF ReadRetractions
<1>3. SnapshotOK(R)
  <2>1. SUFFICES ASSUME R.op = "asset_snapshot" PROVE SnapshotOK(R)
    BY DEF SnapshotOK
  <2>2. request[c].todo = Loading /\ request[c].read.facts \in 0..Len(events)
    BY <1>1, <1>2, <2>1, ScriptOrder DEF IInv, SnapshotOK, ReadRetractions, At
  <2>3. R.todo = Retracting
    BY <1>2, <2>2, ScriptOrder
  <2> QED BY <1>2, <2>2, <2>3, TodosDiffer DEF SnapshotOK
<1> QED BY <1>2, <1>3, OneRequestMoves

\* The activity is read after the journal, so it knows of more facts.
LEMMA ActivityStep ==
  ASSUME IInv, NEW c \in Clients, ReadActivity(c)
  PROVE  IInv'
<1>1. request[c] # Idle /\ Head(request[c].todo) = "list_account_activity"
  BY DEF ReadActivity, At, Idle
<1>2. PICK R : /\ request' = [request EXCEPT ![c] = R] /\ UNCHANGED events
               /\ Shaped(R) /\ R.op = request[c].op /\ R.todo = Tail(request[c].todo)
               /\ R.read["active"] = list_account_activity(events)
               /\ R.read.facts = request[c].read.facts
  BY <1>1, LearnsShape DEF ReadActivity
<1>3. request[c].todo = Retracting /\ request[c].read.facts \in 0..Len(events)
  BY <1>1, ScriptOrder DEF IInv, SnapshotOK, ReadActivity, At
<1>4. R.todo = Retiring
  BY <1>2, <1>3, ScriptOrder
<1>5. Active(R.read.facts) \subseteq R.read.active
  <2>1. DOMAIN events = 1..Len(events) /\ Len(events) \in Nat
    BY LenProperties DEF IInv
  <2>2. 1..(R.read.facts) \subseteq DOMAIN events
    BY <1>2, <1>3, <2>1
  <2>3. Active(R.read.facts) \subseteq list_account_activity(events)
    BY <2>2 DEF Active, list_account_activity
  <2> QED BY <1>2, <2>3
<1>6. SnapshotOK(R)
  BY <1>2, <1>3, <1>4, <1>5 DEF SnapshotOK
<1> QED BY <1>2, <1>6, OneRequestMoves

\* The retirements are read, and the snapshot is whole.
LEMMA RetirementsStep ==
  ASSUME IInv, NEW c \in Clients, ReadRetirements(c)
  PROVE  IInv'
<1>1. request[c] # Idle /\ Head(request[c].todo) = "list_account_retirements"
  BY DEF ReadRetirements, At, Idle
<1>2. PICK R : /\ request' = [request EXCEPT ![c] = R] /\ UNCHANGED events
               /\ Shaped(R) /\ R.op = request[c].op /\ R.todo = Tail(request[c].todo)
               /\ R.read.facts = request[c].read.facts
               /\ R.read.active = request[c].read.active
  BY <1>1, LearnsShape DEF ReadRetirements
<1>3. /\ request[c].todo = Retiring /\ request[c].read.facts \in 0..Len(events)
      /\ Active(request[c].read.facts) \subseteq request[c].read.active
  BY <1>1, ScriptOrder DEF IInv, SnapshotOK, ReadRetirements, At
<1>4. R.todo = <<>>
  BY <1>2, <1>3, ScriptOrder
<1>5. SnapshotOK(R)
  BY <1>2, <1>3, <1>4 DEF SnapshotOK
<1> QED BY <1>2, <1>5, OneRequestMoves

\* What is written to the journal changes no prefix of it that was loaded.
LEMMA WritesStep ==
  ASSUME IInv, NEW fact \in Facts, Writes(fact)
  PROVE  IInv'
<1>1. /\ events' = Append(events, fact) /\ UNCHANGED request
      /\ events \in Seq(Facts) /\ Len(events) \in Nat
  BY LenProperties DEF IInv, Writes
<1>2. /\ events' \in Seq(Facts) /\ Len(events') = Len(events) + 1
      /\ \A i \in 1..Len(events) : events'[i] = events[i]
  BY <1>1, AppendProperties
<1>3. ASSUME NEW c \in Clients
      PROVE  (request[c] = Idle \/ (Shaped(request[c]) /\ SnapshotOK(request[c])))'
  <2>1. CASE request[c] = Idle
    BY <1>1, <2>1 DEF Idle
  <2>2. CASE Shaped(request[c]) /\ SnapshotOK(request[c])
    <3>1. Shaped(request[c])'
      BY <1>1, <2>2 DEF Shaped
    <3>2. SUFFICES ASSUME request[c].op = "asset_snapshot" PROVE SnapshotOK(request[c])'
      BY <1>1, <3>1 DEF SnapshotOK
    <3> DEFINE n == request[c].read.facts
    <3>3. n \in 0..Len(events) /\ n \in 0..Len(events')
      BY <1>1, <1>2, <2>2, <3>2 DEF SnapshotOK
    <3>4. \A i \in 1..n : events'[i] = events[i]
      BY <1>1, <1>2, <3>3
    <3>5. {a \in Accounts : \E i \in 1..n :
              events'[i].kind \notin NoBusiness /\ Touches(events'[i], a)} = Active(n)
      BY <3>4 DEF Active
    <3> QED BY <1>1, <2>2, <3>2, <3>3, <3>5 DEF SnapshotOK, Active
  <2> QED BY <2>1, <2>2 DEF IInv
<1> QED BY <1>1, <1>2, <1>3 DEF IInv

-----------------------------------------------------------------------------
\* No event and no request at first.
LEMMA InitIInv == Init => IInv
BY DEF Init, IInv

\* Every step keeps the invariant.
LEMMA NextIInv == IInv /\ [Next]_vars => IInv'
<1> SUFFICES ASSUME IInv, [Next]_vars PROVE IInv'
  OBVIOUS
<1>1. ASSUME NEW c \in Clients, Serve(c) PROVE IInv'
  <2>1. CASE Retire(c)
    BY <2>1, AsksStep DEF Retire, Ops, Statements
  <2>2. CASE Unretire(c)
    BY <2>2, AsksStep DEF Unretire, Ops, Statements
  <2>3. CASE Retract(c)
    BY <2>3, AsksStep DEF Retract, Ops, Statements
  <2>4. CASE Report(c)
    BY <2>4, AsksStep DEF Report, Ops
  <2>5. CASE AssessRetirement(c)
    BY <2>5, AssessedStep DEF AssessRetirement, At, Idle
  <2>6. CASE AssessRetraction(c)
    BY <2>6, AssessedStep DEF AssessRetraction, At, Idle, Statements
  <2>7. CASE AssessRetractionWithdrawal(c)
    BY <2>7, AssessedStep DEF AssessRetractionWithdrawal, At, Idle, Statements
  <2>8. CASE ReadRetractions(c) \/ ReadActivity(c) \/ ReadRetirements(c) \/ LoadEvents(c)
    BY <2>8, RetractionsStep, ActivityStep, RetirementsStep, LoadStep
  <2>9. CASE WriteRetirement(c) \/ WriteRetraction(c)
    BY <2>9, DoneStep DEF WriteRetirement, WriteRetraction
  <2>10. CASE Fail(c) \/ Answer(c)
    BY <2>10, DoneStep DEF Fail, Answer, store
  <2> QED BY <1>1, <2>1, <2>2, <2>3, <2>4, <2>5, <2>6, <2>7, <2>8, <2>9, <2>10 DEF Serve
<1>2. CASE RecordFact
  <2>1. PICK kind \in Kinds, a \in Accounts, b \in Accounts \cup {NONE} :
          Writes([kind |-> kind, account |-> a, to |-> b, target |-> NONE])
    BY <1>2 DEF RecordFact
  <2>2. [kind |-> kind, account |-> a, to |-> b, target |-> NONE] \in Facts
    BY DEF Facts
  <2> QED BY <2>1, <2>2, WritesStep
<1>3. CASE Reverse
  <2>1. PICK i \in resolve(events) : Writes(reversal_for(events[i], i))
    BY <1>3 DEF Reverse
  <2>2. i \in 1..Len(events) /\ events[i] \in Facts
    BY LenProperties, ElementOfSeq DEF IInv, resolve
  <2>3. i \in Nat
    BY <2>2, LenProperties DEF IInv
  <2>4. reversal_for(events[i], i) \in Facts
    BY <2>2, <2>3 DEF reversal_for, Facts
  <2> QED BY <2>1, <2>4, WritesStep
<1>4. CASE UNCHANGED vars
  BY <1>4 DEF vars, store, IInv, Shaped, SnapshotOK, Active
<1> QED BY <1>1, <1>2, <1>3, <1>4 DEF Next

\* An account a report leaves out as retracted has no figure in the journal that
\* report folded, whatever was written between its reads (report_population and
\* retractions_that_hold of the reports, with the retraction's own rule).
THEOREM RetractionsHideNothing == Spec => []UncoveredAccountsAreEmpty
<1>1. ASSUME IInv, NEW c \in Clients, Answered(c),
             NEW a \in Accounts \ report_population(request[c])
      PROVE  Figures(Loaded(c), a) = {}
  <2> DEFINE r == request[c]
  <2>1. r.op = "asset_snapshot" /\ r.todo = <<>>
    BY <1>1 DEF Answered
  <2>2. r # Idle
    BY <2>1, StatementsAssumption DEF Idle
  <2>3. r.read.facts \in 0..Len(events) /\ Active(r.read.facts) \subseteq r.read.active
    BY <1>1, <2>1, <2>2 DEF IInv, SnapshotOK
  <2>4. a \notin Active(r.read.facts)
    BY <1>1, <2>3 DEF report_population, retractions_that_hold
  <2> QED BY <1>1, <2>3, <2>4, UntouchedIsEmpty DEF Loaded
<1>2. IInv => UncoveredAccountsAreEmpty
  BY <1>1 DEF UncoveredAccountsAreEmpty
<1> QED BY InitIInv, NextIInv, <1>2, PTL DEF Spec
=============================================================================
