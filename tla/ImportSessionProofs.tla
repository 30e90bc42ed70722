------------------------- MODULE ImportSessionProofs --------------------------
(***************************************************************************)
(* For any sessions, sources, rows, keys, answers, requests in flight and  *)
(* workloads, and with requests that stop between any two store calls: the *)
(* store and the journal are well formed, a row with an identity becomes a *)
(* fact once, a row answers as its question does, a control assertion      *)
(* stands on rows that are written, and a closed session stays as it was.  *)
(***************************************************************************)
EXTENDS ImportSession, SequenceTheorems, FiniteSetTheorems, WellFoundedInduction, TLAPS

\* The bags of names a gap may list.
Names == {declined_row(x) : x \in Intake}
NameBags == UNION {[N -> Nat] : N \in SUBSET Names}

\* What the journal may hold.
Entries ==
  [ kind: {"fact"}, session: Sessions, row: RowNumbers, source: Sources, line: Lines \cup {NONE},
    key: Keys \cup {NONE}, answer: Answers \cup {NONE}, rule: RuleIds \cup {NONE} ]
  \cup [ kind: {"assertion"}, session: Sessions, source: Sources, line: {NONE},
         key: [claim: Sections], read: SUBSET RowNumbers, settled: SUBSET RowNumbers ]
  \cup [ kind: {"gap"}, source: Sources, line: {NONE},
         key: [gap: Sections, source: Sources, rows: NameBags] ]

\* The store: its type, and what its tables say of each other.
SessionRecord ==
  [state: States, decl: Declarations \cup {NONE}, figures: Sections \cup {NONE}]
SessionsTyped == session \in [Sessions -> SessionRecord]
RowsTyped ==
  /\ observations \in [Sessions -> Seq(Observation)]
  /\ \A s \in Sessions : Len(observations[s]) <= MaxRows
  /\ \A s \in Sessions : session[s].state = "unopened" => observations[s] = <<>>
QuestionsTyped ==
  /\ questions \in [Sessions -> [RowNumbers -> Question \cup {NONE}]]
  /\ \A s \in Sessions, i \in RowNumbers : Asked(s, i) => i \in RowsOf(s)
RulesTyped == rules \in Seq(Rule) /\ Len(rules) <= MaxRules
\* A row answers as its question does, and a question that names a rule is answered.
RowsFollow ==
  \A s \in Sessions : \A i \in RowsOf(s) :
    /\ observations[s][i].answer # NONE =>
         Asked(s, i) /\ questions[s][i].answer = observations[s][i].answer
    /\ observations[s][i].rule # NONE => observations[s][i].answer # NONE
    /\ Asked(s, i) /\ questions[s][i].rule # NONE => Answered(s, i)
StoreInv == /\ SessionsTyped /\ RowsTyped /\ QuestionsTyped /\ RulesTyped
            /\ RowsFollow

\* The source each session's facts are written under.
origins == [s \in Sessions |-> session_origin(s)]

\* Rows are added and never renumbered; what was sent, and the source it was sent
\* from, never change.
RowsKept(src, obs, src2, obs2) ==
  \A s \in Sessions : \A i \in DOMAIN obs[s] :
    i \in DOMAIN obs2[s] /\ obs2[s][i].intake = obs[s][i].intake /\ src2[s] = src[s]

\* The journal only grows.
Grows(log, new) == \A n \in DOMAIN log : n \in DOMAIN new /\ new[n] = log[n]

FactsOf(log) == {n \in DOMAIN log : log[n].kind = "fact"}

SameIdentity(d, e) == SameLine(d, e) \/ (e.key # NONE /\ d.key = e.key)

\* Row i of s was dealt with: it is written, or its event is one the structural
\* validation refuses.
Disposed(s, i, src, obs, log) ==
  \/ obs[s][i].intake.form = "malformed"
  \/ \E n \in DOMAIN log :
       \/ log[n].kind = "fact" /\ log[n].session = s /\ log[n].row = i
       \/ obs[s][i].intake.line # NONE /\ log[n].line = obs[s][i].intake.line /\ log[n].source = src[s]
       \/ obs[s][i].intake.key # NONE /\ log[n].key = obs[s][i].intake.key

\* The journal: what it holds came from rows, once, and its assertions stand.
FactOK(f, obs) ==
  /\ f.row \in DOMAIN obs[f.session]
  /\ f.answer = NONE => obs[f.session][f.row].intake.form = "concluded"
Asserted(e, src, obs, log) ==
  e.kind = "assertion" =>
    \A i \in e.settled : i \in DOMAIN obs[e.session] /\ Disposed(e.session, i, src, obs, log)
WrittenOnce(log) == \A m, n \in FactsOf(log) : SameIdentity(log[m], log[n]) => m = n
JournalInv(src, obs, log) ==
  /\ log \in Seq(Entries)
  /\ \A n \in FactsOf(log) : FactOK(log[n], obs)
  /\ WrittenOnce(log)
  /\ \A n \in DOMAIN log : Asserted(log[n], src, obs, log)

\* What a request carries, by the call it serves.
Opening(r) == r.pc = "open" /\ r.decl \in Declarations \cup {NONE}

Feeding(r, obs) ==
  /\ r.pc \in {"add_row", "ask"}
  /\ DOMAIN r = {"pc", "s", "batch", "book", "row"}
  /\ r.s \in Sessions /\ r.batch \in Seq(Intake) /\ r.batch # <<>>
  /\ r.pc = "ask" => r.row \in DOMAIN obs[r.s]

Registers ==
  { "pc", "op", "s", "state", "rows", "asked", "figures", "row", "answer", "reach", "mints",
    "targets", "todo", "rule", "plan", "declined", "next" }
Reads == {"list_rows", "list_questions", "decide"}

\* The rows it has read are rows of the session, as they were sent.
HasRead(r, obs) ==
  /\ DOMAIN r = Registers
  /\ r.s \in Sessions
  /\ r.rows \in Seq(Observation)
  /\ r.figures \in Sections \cup {NONE}
  /\ \A i \in DOMAIN r.rows : i \in DOMAIN obs[r.s] /\ r.rows[i].intake = obs[r.s][i].intake

AnswerOK(r) ==
  /\ r.op = "answer" /\ r.pc \in Reads \cup {"answer_like", "mint", "name_rule", "stamp_rule"}
  /\ r.row \in RowNumbers /\ r.answer \in Answers
  /\ r.pc \notin Reads => /\ r.row \in DOMAIN r.rows
                          /\ r.targets \subseteq DOMAIN r.rows /\ r.todo \subseteq DOMAIN r.rows
  /\ r.pc \in {"name_rule", "stamp_rule"} => r.rule \in RuleIds

WithdrawOK(r) == /\ r.op = "withdraw" /\ r.pc \in Reads \cup {"withdraw"}
                 /\ r.row \in RowNumbers

\* A commit has settled the rows of its plan, and dealt with those before next.
PlannedOK(f, i, r, src) ==
  /\ f \in Entries /\ f.kind = "fact" /\ f.session = r.s /\ f.row = i
  /\ f.key = r.rows[i].intake.key /\ f.line = r.rows[i].intake.line /\ f.source = src[r.s]
  /\ f.answer = NONE => r.rows[i].intake.form \in {"concluded", "malformed"}
PlanOK(r, src) ==
  /\ r.declined \subseteq DOMAIN r.rows /\ DOMAIN r.plan \subseteq DOMAIN r.rows
  /\ \A i \in DOMAIN r.plan : PlannedOK(r.plan[i], i, r, src)
CommitOK(r, src, obs, log) ==
  /\ r.op = "commit" /\ r.pc \in Reads \cup {"submit", "close"}
  /\ r.pc \in Reads => r.next = 1
  /\ r.pc = "submit" => /\ PlanOK(r, src) /\ r.next \in Nat \ {0}
                        /\ \A i \in DOMAIN r.plan : i < r.next => Disposed(r.s, i, src, obs, log)

RequestOK(r, src, obs, log) ==
  \/ r = Idle
  \/ Opening(r)
  \/ Feeding(r, obs)
  \/ HasRead(r, obs) /\ (AnswerOK(r) \/ WithdrawOK(r) \/ CommitOK(r, src, obs, log))

BatchesOK == "batches" \in DOMAIN left /\ left.batches \subseteq Seq(Intake) \ {<<>>}

IInv ==
  /\ StoreInv
  /\ JournalInv(origins, observations, journal)
  /\ BatchesOK
  /\ req = [p \in Requests |-> req[p]]
  /\ \A p \in Requests : RequestOK(req[p], origins, observations, journal)

-----------------------------------------------------------------------------
(* Least and greatest numbers.                                             *)

\* The first of the rows an answer reaches exists.
LEMMA Smallest ==
  ASSUME NEW T \in SUBSET Nat, T # {}
  PROVE  \E m \in T : \A n \in T : m <= n
<1> DEFINE R == OpToRel(<, Nat)
<1>1. IsWellFoundedOn(R, Nat)
  BY NatLessThanWellFounded
<1>2. \A x, y \in Nat : <<x, y>> \in R <=> x < y
  BY DEF OpToRel
<1> HIDE DEF R
<1>3. PICK m \in T : \A n \in T : ~(<<n, m>> \in R)
  BY <1>1, WFMin
<1>4. \A n \in T : ~(n < m)
  BY <1>2, <1>3
<1>5. \A n \in T : m <= n
  BY <1>4
<1> QED BY <1>5

\* Of the rules that match, one is the latest.
LEMMA Largest ==
  ASSUME NEW k \in Nat, NEW T \in SUBSET (1..k), T # {}
  PROVE  \E m \in T : \A n \in T : n <= m
<1> DEFINE U == {u \in Nat : \A n \in T : n <= u}
<1>1. k \in U
  OBVIOUS
<1>2. PICK m \in U : \A n \in U : m <= n
  BY <1>1, Smallest
<1>3. m \in T
  <2>1. SUFFICES ASSUME m \notin T PROVE FALSE
    OBVIOUS
  <2>2. PICK t \in T : TRUE
    OBVIOUS
  <2>3. m \in Nat /\ m # 0
    BY <2>2
  <2>4. m - 1 \in Nat /\ \A n \in T : n <= m - 1
    BY <2>1, <2>3
  <2>5. m - 1 \in U
    BY <2>4
  <2> QED BY <1>2, <2>3, <2>5
<1> QED BY <1>2, <1>3

\* What settles an observed row is an answer, under a rule that was given out or
\* none; a conclusion needs none.
LEMMA ResolutionIsTyped ==
  ASSUME StoreAssumption, NEW row \in Observation, NEW book \in Seq(Rule), Len(book) <= MaxRules,
         Settled(row, book)
  PROVE  /\ resolution_of(row, book).answer \in Answers \cup {NONE}
         /\ resolution_of(row, book).rule \in RuleIds \cup {NONE}
         /\ resolution_of(row, book).answer = NONE => row.intake.form \in {"concluded", "malformed"}
<1>0. CASE row.intake.form # "observed"
  <2>1. row.intake.form \in {"concluded", "malformed"}
    BY <1>0 DEF Settled
  <2>2. resolution_of(row, book) = [answer |-> NONE, rule |-> NONE]
    BY <1>0 DEF resolution_of
  <2> QED BY <2>1, <2>2
<1>1. CASE row.intake.form = "observed" /\ row.answer # NONE
  <2>1. row.answer \in Answers /\ row.rule \in RuleIds \cup {NONE}
    BY <1>1 DEF Observation
  <2>2. resolution_of(row, book) = [answer |-> row.answer, rule |-> row.rule]
    BY <1>1 DEF resolution_of
  <2> QED BY <2>1, <2>2, StoreAssumption
<1>2. CASE row.intake.form = "observed" /\ row.answer = NONE
  <2> DEFINE rs == Matching(row.intake.subject, book)
             r == CHOOSE r \in DOMAIN book : IsLatest(r, rs)
  <2>1. DOMAIN book = 1..Len(book) /\ Len(book) \in Nat /\ rs # {}
    BY <1>2, LenProperties DEF Settled
  <2>2. rs \subseteq 1..Len(book)
    BY <2>1 DEF Matching
  <2> HIDE DEF rs
  <2>3. \E m \in rs : \A n \in rs : n <= m
    BY <2>1, <2>2, Largest
  <2>4. \E m \in DOMAIN book : IsLatest(m, rs)
    BY <2>1, <2>2, <2>3 DEF IsLatest
  <2>5. r \in DOMAIN book
    BY <2>4
  <2> HIDE DEF r
  <2>6. book[r] \in Rule
    BY <2>1, <2>5, ElementOfSeq
  <2>7. r \in RuleIds
    BY <2>1, <2>5, StoreAssumption DEF RuleIds
  <2>8. resolution_of(row, book) = [answer |-> book[r].answer, rule |-> r]
    BY <1>2 DEF resolution_of, r, rs
  <2> QED BY <2>6, <2>7, <2>8, StoreAssumption DEF Rule
<1> QED BY <1>0, <1>1, <1>2

-----------------------------------------------------------------------------
(* The calls of the store.  Each keeps the store's tables in order, keeps  *)
(* the rows and their keys, and leaves a closed session alone.             *)

StaysClosed ==
  \A s \in Sessions : session[s].state \in {"committed", "abandoned"} =>
    /\ session'[s] = session[s]
    /\ observations'[s] = observations[s]
    /\ questions'[s] = questions[s]

\* The question of row i of s has answer a and rule r, and no other has changed.
QuestionSet(s, i, a, r) ==
  /\ Asked(s, i)' /\ questions'[s][i].answer = a /\ questions'[s][i].rule = r
  /\ \A t \in Sessions, j \in RowNumbers :
       <<t, j>> # <<s, i>> => questions'[t][j] = questions[t][j]
RowsStay == \A t \in Sessions : RowsOf(t)' = RowsOf(t)

\* What each call that answers, names, stamps or withdraws does to the tables.
AnswerEffect(s, i, a) ==
  /\ Asked(s, i) /\ ~Answered(s, i) /\ QuestionSet(s, i, a, questions[s][i].rule) /\ RowsStay
  /\ \A t \in Sessions : \A j \in RowsOf(t) :
       /\ observations'[t][j].rule = observations[t][j].rule
       /\ observations'[t][j].answer =
            IF t = s /\ j = i THEN a ELSE observations[t][j].answer
StampEffect(s, is, r) ==
  /\ RowsStay
  /\ \A t \in Sessions : \A j \in RowsOf(t) :
       /\ observations'[t][j].answer = observations[t][j].answer
       /\ observations'[t][j].rule = IF t = s /\ j \in is THEN r ELSE observations[t][j].rule
WithdrawEffect(s, i) ==
  /\ Answered(s, i) /\ questions[s][i].rule # NONE /\ QuestionSet(s, i, NONE, NONE) /\ RowsStay
  /\ \A t \in Sessions : \A j \in RowsOf(t) :
       \/ observations'[t][j] = observations[t][j] /\ ~(t = s /\ j = i)
       \/ /\ t = s /\ (j = i \/ observations[s][j].rule = questions[s][i].rule)
          /\ observations'[t][j].answer = NONE /\ observations'[t][j].rule = NONE

\* A step that answers, names, stamps and withdraws nothing.
Calm ==
  /\ \A t \in Sessions : \A j \in RowsOf(t)' :
       \/ j \in RowsOf(t) /\ observations'[t][j] = observations[t][j]
       \/ ~Asked(t, j)' /\ observations'[t][j].rule = NONE
  /\ \A t \in Sessions, j \in RowNumbers :
       \/ questions'[t][j] = questions[t][j]
       \/ ~Asked(t, j) /\ questions'[t][j].rule = NONE
  /\ \A t \in Sessions : RowsOf(t) \subseteq RowsOf(t)'
  /\ Len(rules) <= Len(rules')

StoreStep == StoreInv' /\ RowsKept(origins, observations, origins', observations') /\ StaysClosed

\* A call that only reads keeps the store.
LEMMA StoreUnchanged == ASSUME StoreInv, UNCHANGED store PROVE StoreStep /\ origins' = origins
BY DEF origins, session_origin, StoreStep, store, StoreInv, SessionsTyped, RowsTyped, QuestionsTyped, RulesTyped,
       RowsFollow, Asked, Answered, RowsOf, RowsKept, StaysClosed

\* Nor does a step that only adds rules.
LEMMA NothingIsCalm ==
  ASSUME StoreInv, UNCHANGED <<observations, questions>>,
         UNCHANGED rules \/ Len(rules) <= Len(rules')
  PROVE  Calm
<1>1. Len(rules) <= Len(rules')
  BY LenProperties DEF StoreInv, RulesTyped
<1> QED BY <1>1 DEF Calm, RowsOf, Asked

\* A call that writes the session's own row, of a session that is not closed.
LEMMA SessionWritten ==
  ASSUME StoreInv, NEW s \in Sessions, session[s].state \in {"unopened", "open"},
         NEW x \in SessionRecord,
         x.state # "unopened", session[s].state = "open" => x.decl = session[s].decl,
         session' = [session EXCEPT ![s] = x], UNCHANGED <<observations, questions, rules>>
  PROVE  StoreStep
<1>1. SessionsTyped' /\ session'[s] = x /\ \A t \in Sessions \ {s} : session'[t] = session[t]
  BY DEF StoreInv, SessionsTyped
<1>2. StaysClosed
  BY DEF StoreInv, SessionsTyped, StaysClosed
<1>3. RowsTyped'
  BY <1>1 DEF StoreInv, RowsTyped
<1>4. RowsKept(origins, observations, origins', observations')
  <2>1. ASSUME NEW t \in Sessions, NEW i \in DOMAIN observations[t] PROVE origins'[t] = origins[t]
    <3>1. session[t].state # "unopened"
      BY <2>1 DEF StoreInv, RowsTyped
    <3>2. session'[t].decl = session[t].decl
      BY <1>1, <3>1
    <3> QED BY <3>2 DEF origins, session_origin
  <2> QED BY <2>1 DEF RowsKept
<1> QED BY <1>1, <1>2, <1>3, <1>4 DEF StoreStep, StoreInv, QuestionsTyped, RulesTyped,
           RowsFollow, Asked, Answered, RowsOf

\* open_import_session opens a session or returns the open one.
LEMMA OpenStep ==
  ASSUME StoreInv, NEW s \in Sessions, NEW d \in Declarations \cup {NONE}, open_import_session(d, s)
  PROVE  StoreStep
<1>1. CASE UNCHANGED session
  BY <1>1, StoreUnchanged DEF open_import_session, store
<1>2. CASE session[s].state = "unopened"
           /\ session' = [session EXCEPT ![s] = [@ EXCEPT !.state = "open", !.decl = d]]
  <2> DEFINE x == [session[s] EXCEPT !.state = "open", !.decl = d]
  <2>1. session' = [session EXCEPT ![s] = x]
    BY <1>2
  <2>2. x \in SessionRecord /\ x.state = "open"
    BY DEF StoreInv, SessionsTyped, SessionRecord, States
  <2> HIDE DEF x
  <2> QED BY <1>2, <2>1, <2>2, SessionWritten DEF open_import_session
<1> QED BY <1>1, <1>2 DEF open_import_session

\* Closing changes the state of an open session alone.
LEMMA CloseStep ==
  ASSUME StoreInv, NEW s \in Sessions, NEW st \in States \ {"unopened"}, close_import_session(s, st)
  PROVE  StoreStep
<1> DEFINE x == [session[s] EXCEPT !.state = st]
<1>1. session' = [session EXCEPT ![s] = x]
  BY DEF close_import_session
<1>2. x \in SessionRecord /\ x.state = st /\ x.decl = session[s].decl
  BY DEF StoreInv, SessionsTyped, SessionRecord
<1> HIDE DEF x
<1> QED BY <1>1, <1>2, SessionWritten DEF close_import_session, require_open

\* Stating control figures changes an open session alone.
LEMMA FiguresStep ==
  ASSUME StoreInv, NEW s \in Sessions,
         NEW f \in Sections, state_import_control_figures(s, f)
  PROVE  StoreStep
<1> DEFINE x == [session[s] EXCEPT !.figures = f]
<1>1. session' = [session EXCEPT ![s] = x]
  BY DEF state_import_control_figures
<1>2. x \in SessionRecord /\ x.state = "open" /\ x.decl = session[s].decl
  BY DEF StoreInv, SessionsTyped, SessionRecord, state_import_control_figures, require_open
<1> HIDE DEF x
<1> QED BY <1>1, <1>2, SessionWritten DEF state_import_control_figures, require_open

\* The rules stand beside the sessions.
LEMMA RulesWritten ==
  ASSUME StoreInv, rules' \in Seq(Rule), Len(rules') <= MaxRules,
         UNCHANGED <<session, observations, questions>>
  PROVE  StoreStep
BY DEF origins, session_origin, StoreStep, store, StoreInv, SessionsTyped, RowsTyped, QuestionsTyped, RulesTyped,
       RowsFollow, Asked, Answered, RowsOf, RowsKept, StaysClosed

\* A rule is added behind the others.
LEMMA InsertRuleStep ==
  ASSUME StoreInv, NEW x \in Subjects, NEW a \in Answers, insert_rule(x, a)
  PROVE  StoreStep /\ Len(rules) + 1 \in RuleIds
<1> DEFINE rule == [subject |-> x, answer |-> a, active |-> TRUE]
<1>1. /\ rules' = Append(rules, rule) /\ Len(rules) < MaxRules /\ rules \in Seq(Rule)
      /\ UNCHANGED <<session, observations, questions>>
  BY DEF insert_rule, StoreInv, RulesTyped
<1>2. rule \in Rule
  BY DEF Rule
<1> HIDE DEF rule
<1>3. Len(rules) \in Nat /\ rules' \in Seq(Rule) /\ Len(rules') = Len(rules) + 1
  BY <1>1, <1>2, AppendProperties, LenProperties
<1> QED BY <1>1, <1>3, RulesWritten, StoreAssumption DEF RuleIds

\* A rule is retired in its place.
LEMMA RetireRuleStep ==
  ASSUME StoreInv, NEW r \in DOMAIN rules, retire_rule(r)
  PROVE  StoreStep
<1>1. /\ rules' = [rules EXCEPT ![r] = [rules[r] EXCEPT !.active = FALSE]]
      /\ rules \in Seq(Rule) /\ Len(rules) <= MaxRules
      /\ UNCHANGED <<session, observations, questions>>
  BY DEF retire_rule, StoreInv, RulesTyped
<1>2. r \in 1..Len(rules) /\ rules[r] \in Rule
  BY <1>1, LenProperties, ElementOfSeq
<1>3. [rules[r] EXCEPT !.active = FALSE] \in Rule
  BY <1>2 DEF Rule
<1>4. rules' \in Seq(Rule) /\ Len(rules') = Len(rules)
  BY <1>1, <1>2, <1>3, ExceptSeq
<1> QED BY <1>1, <1>4, RulesWritten

-----------------------------------------------------------------------------
\* How the rows of one session are written: those of s become o.
LEMMA RowsWritten ==
  ASSUME StoreInv, NEW s \in Sessions, require_open(s), NEW o \in Seq(Observation),
         Len(o) <= MaxRows, UNCHANGED session, observations' = [observations EXCEPT ![s] = o],
         \A i \in RowsOf(s) : i \in DOMAIN o /\ o[i].intake = observations[s][i].intake
  PROVE  /\ RowsTyped' /\ RowsKept(origins, observations, origins', observations') /\ observations'[s] = o
         /\ \A t \in Sessions \ {s} : observations'[t] = observations[t]
         /\ \A t \in Sessions : session[t].state \in {"committed", "abandoned"} =>
              observations'[t] = observations[t]
<1>1. observations'[s] = o /\ \A t \in Sessions \ {s} : observations'[t] = observations[t]
  BY DEF StoreInv, RowsTyped
<1>2. RowsTyped'
  <2>1. session'[s].state # "unopened"
    BY DEF require_open
  <2> QED BY <1>1, <2>1 DEF StoreInv, RowsTyped
<1>3. RowsKept(origins, observations, origins', observations')
  BY <1>1 DEF RowsKept, RowsOf, origins, session_origin
<1> QED BY <1>1, <1>2, <1>3 DEF require_open

\* A row is added behind the others of an open session.
LEMMA AddRowStep ==
  ASSUME StoreInv, NEW s \in Sessions, NEW row \in Intake, NEW n,
         add_import_observation(s, row, n)
  PROVE  StoreStep /\ n \in RowsOf(s)' /\ Calm
<1> USE StoreAssumption
<1>1. CASE UNCHANGED observations /\ n \in observation_by_key(s, row_key(row))
  <2>1. StoreStep
    BY <1>1, StoreUnchanged DEF add_import_observation, store
  <2>2. Calm
    BY <1>1, NothingIsCalm DEF add_import_observation
  <2> QED BY <1>1, <2>1, <2>2 DEF observation_by_key, RowsOf
<1>2. CASE observation_by_key(s, row_key(row)) = {}
  <2> DEFINE new == [intake |-> row, answer |-> NONE, rule |-> NONE]
             old == observations[s]
             o == Append(old, new)
  <2>1. /\ require_open(s) /\ n = Len(old) + 1 /\ n <= MaxRows
        /\ observations' = [observations EXCEPT ![s] = o]
        /\ UNCHANGED <<session, questions, rules>>
    BY <1>2 DEF add_import_observation
  <2>2. new \in Observation /\ new.answer = NONE /\ new.rule = NONE
    BY DEF Observation
  <2>3. old \in Seq(Observation)
    BY DEF StoreInv, RowsTyped
  <2> HIDE DEF new, old
  <2>4. /\ o \in Seq(Observation) /\ Len(o) = Len(old) + 1 /\ Len(old) \in Nat
        /\ \A i \in 1..Len(old) : o[i] = old[i] /\ o[n] = new
    BY <2>1, <2>2, <2>3, AppendProperties, LenProperties
  <2>5. o[n] = new /\ DOMAIN o = 1..n /\ DOMAIN old = 1..Len(old)
    BY <2>1, <2>2, <2>3, <2>4, AppendProperties, LenProperties
  <2> HIDE DEF o
  <2>6. \A i \in RowsOf(s) : i \in DOMAIN o /\ o[i] = observations[s][i]
    BY <2>1, <2>4, <2>5 DEF RowsOf, old
  <2>7. /\ RowsTyped' /\ RowsKept(origins, observations, origins', observations') /\ observations'[s] = o
        /\ \A t \in Sessions \ {s} : observations'[t] = observations[t]
        /\ \A t \in Sessions : session[t].state \in {"committed", "abandoned"} =>
              observations'[t] = observations[t]
    <3>1. Len(o) <= MaxRows /\ \A i \in RowsOf(s) : i \in DOMAIN o /\ o[i].intake = observations[s][i].intake
      BY <2>1, <2>4, <2>6
    <3> QED BY <2>1, <2>4, <3>1, RowsWritten
  <2>8. n \in RowNumbers /\ n \notin RowsOf(s) /\ n \in DOMAIN o
    BY <2>1, <2>4, <2>5 DEF RowNumbers, RowsOf, old
  <2>9. QuestionsTyped'
    BY <2>1, <2>6, <2>7 DEF StoreInv, QuestionsTyped, Asked, RowsOf
  <2>10. ~Asked(s, n)
    BY <2>8 DEF StoreInv, QuestionsTyped
  <2>11. ASSUME NEW t \in Sessions, NEW i \in DOMAIN observations'[t]
         PROVE  \/ i \in RowsOf(t) /\ observations'[t][i] = observations[t][i]
                \/ t = s /\ i = n /\ observations'[t][i] = new
    BY <2>1, <2>4, <2>5, <2>6, <2>7 DEF RowsOf, old
  <2>12. RowsFollow'
    BY <2>1, <2>2, <2>10, <2>11 DEF StoreInv, RowsFollow, Asked, Answered, RowsOf
  <2>13. Calm
    <3>1. \A t \in Sessions : RowsOf(t) \subseteq RowsOf(t)'
      BY <2>6, <2>7 DEF RowsOf
    <3>2. \A t \in Sessions : \A j \in RowsOf(t)' :
            \/ j \in RowsOf(t) /\ observations'[t][j] = observations[t][j]
            \/ ~Asked(t, j)' /\ observations'[t][j].rule = NONE
      BY <2>1, <2>2, <2>10, <2>11 DEF RowsOf, Asked
    <3>3. Len(rules) <= Len(rules')
      BY <2>1, LenProperties DEF StoreInv, RulesTyped
    <3> QED BY <2>1, <3>1, <3>2, <3>3 DEF Calm
  <2> QED BY <2>1, <2>5, <2>7, <2>8, <2>9, <2>12, <2>13
             DEF StoreStep, StoreInv, SessionsTyped, RulesTyped, StaysClosed, RowsOf
<1> QED BY <1>1, <1>2 DEF add_import_observation

\* How a question is written: that of row i of s becomes x.
LEMMA QuestionWritten ==
  ASSUME StoreInv, NEW s \in Sessions, require_open(s), NEW i \in RowNumbers, NEW x \in Question,
         questions' = [questions EXCEPT ![s][i] = x]
  PROVE  /\ questions' \in [Sessions -> [RowNumbers -> Question \cup {NONE}]]
         /\ questions'[s][i] = x
         /\ \A t \in Sessions, j \in RowNumbers :
              <<t, j>> # <<s, i>> => questions'[t][j] = questions[t][j]
         /\ \A t \in Sessions : session[t].state \in {"committed", "abandoned"} =>
              questions'[t] = questions[t]
<1>1. questions \in [Sessions -> [RowNumbers -> Question \cup {NONE}]]
  BY DEF StoreInv, QuestionsTyped
<1>2. questions'[s][i] = x /\ \A t \in Sessions \ {s} : questions'[t] = questions[t]
  BY <1>1
<1>3. \A j \in RowNumbers \ {i} : questions'[s][j] = questions[s][j]
  BY <1>1
<1>4. \A t \in Sessions, j \in RowNumbers :
        <<t, j>> # <<s, i>> => questions'[t][j] = questions[t][j]
  BY <1>2, <1>3
<1>5. questions' \in [Sessions -> [RowNumbers -> Question \cup {NONE}]]
  BY <1>1
<1> QED BY <1>2, <1>4, <1>5 DEF require_open

\* The model's identifiers are told apart from NONE.
LEMMA QuestionIsSomething == \A x \in Question : x # NONE
BY StoreAssumption DEF Question, RuleIds

\* A question is asked of a row that has none.
LEMMA AskStep ==
  ASSUME StoreInv, NEW s \in Sessions, NEW i \in RowsOf(s), record_import_question(s, i)
  PROVE  StoreStep /\ Calm
<1> DEFINE x == [answer |-> NONE, rule |-> NONE]
<1>1. CASE questions' = questions
  BY <1>1, StoreUnchanged, NothingIsCalm DEF record_import_question, store
<1>2. CASE questions[s][i] = NONE /\ questions' = [questions EXCEPT ![s][i] = x]
  <2>1. require_open(s) /\ UNCHANGED <<session, observations, rules>>
    BY DEF record_import_question
  <2>2. i \in RowNumbers
    BY LenProperties, StoreAssumption DEF StoreInv, RowsTyped, RowsOf, RowNumbers
  <2>3. x \in Question /\ x.answer = NONE /\ x.rule = NONE
    BY DEF Question
  <2> HIDE DEF x
  <2>4. /\ questions' \in [Sessions -> [RowNumbers -> Question \cup {NONE}]]
        /\ questions'[s][i] = x
        /\ \A t \in Sessions, j \in RowNumbers :
             <<t, j>> # <<s, i>> => questions'[t][j] = questions[t][j]
        /\ \A t \in Sessions : session[t].state \in {"committed", "abandoned"} =>
             questions'[t] = questions[t]
    BY <1>2, <2>1, <2>2, <2>3, QuestionWritten
  <2>5. QuestionsTyped'
    BY <2>1, <2>4 DEF StoreInv, QuestionsTyped, Asked, RowsOf
  <2>6. \A t \in Sessions : RowsOf(t) \subseteq RowNumbers
    BY LenProperties, StoreAssumption DEF StoreInv, RowsTyped, RowsOf, RowNumbers
  <2>7. RowsFollow'
    BY <1>2, <2>1, <2>3, <2>4, <2>6 DEF StoreInv, RowsFollow, Asked, Answered, RowsOf
  <2>8. Calm
    <3>1. Len(rules) <= Len(rules')
      BY <2>1, LenProperties DEF StoreInv, RulesTyped
    <3>2. \A t \in Sessions, j \in RowNumbers :
            \/ questions'[t][j] = questions[t][j]
            \/ ~Asked(t, j) /\ questions'[t][j].rule = NONE
      BY <1>2, <2>3, <2>4 DEF Asked
    <3> QED BY <2>1, <3>1, <3>2 DEF Calm, RowsOf
  <2> QED BY <2>1, <2>4, <2>5, <2>7, <2>8
             DEF StoreStep, StoreInv, SessionsTyped, RowsTyped, RulesTyped, StaysClosed, RowsKept, origins,
               session_origin
<1> QED BY <1>1, <1>2 DEF record_import_question

\* An answer is written to the question and to its row together.
LEMMA AnswerStep ==
  ASSUME StoreInv, NEW s \in Sessions, NEW i \in RowNumbers, NEW a \in Answers,
         answer_import_question(s, i, a)
  PROVE  StoreStep /\ AnswerEffect(s, i, a)
<1> DEFINE q == questions[s][i]
           x == [q EXCEPT !.answer = a]
           old == observations[s]
           y == [old[i] EXCEPT !.answer = a]
           o == [old EXCEPT ![i] = y]
<1>1. /\ require_open(s) /\ Asked(s, i) /\ ~Answered(s, i)
      /\ questions' = [questions EXCEPT ![s][i] = x]
      /\ observations' = [observations EXCEPT ![s] = o]
      /\ UNCHANGED <<session, rules>>
  BY DEF answer_import_question, MayAnswer
<1>2. q \in Question /\ i \in RowsOf(s) /\ a # NONE
  BY <1>1, StoreAssumption DEF StoreInv, QuestionsTyped, Asked
<1>3. x \in Question /\ x.answer = a /\ x.rule = q.rule
  BY <1>2 DEF Question
<1>4. old \in Seq(Observation) /\ DOMAIN old = 1..Len(old) /\ i \in 1..Len(old) /\ Len(old) <= MaxRows
  BY <1>2, LenProperties DEF StoreInv, RowsTyped, RowsOf
<1>5. old[i] \in Observation
  BY <1>4, ElementOfSeq
<1>6. y \in Observation /\ y.answer = a /\ y.rule = old[i].rule /\ y.intake = old[i].intake
  BY <1>5 DEF Observation
<1> HIDE DEF x, y, q
<1>7. /\ o \in Seq(Observation) /\ Len(o) = Len(old) /\ DOMAIN o = DOMAIN old
      /\ \A j \in DOMAIN old : o[j] = IF j = i THEN y ELSE old[j]
  BY <1>4, <1>6, ExceptSeq
<1> HIDE DEF o
<1>8. /\ RowsTyped' /\ RowsKept(origins, observations, origins', observations') /\ observations'[s] = o
      /\ \A t \in Sessions \ {s} : observations'[t] = observations[t]
      /\ \A t \in Sessions : session[t].state \in {"committed", "abandoned"} =>
           observations'[t] = observations[t]
  <2>1. \A j \in RowsOf(s) : j \in DOMAIN o /\ o[j].intake = observations[s][j].intake
    BY <1>6, <1>7 DEF RowsOf
  <2> QED BY <1>1, <1>4, <1>7, <2>1, RowsWritten
<1>9. /\ questions' \in [Sessions -> [RowNumbers -> Question \cup {NONE}]]
      /\ questions'[s][i] = x
      /\ \A t \in Sessions, j \in RowNumbers :
           <<t, j>> # <<s, i>> => questions'[t][j] = questions[t][j]
      /\ \A t \in Sessions : session[t].state \in {"committed", "abandoned"} =>
           questions'[t] = questions[t]
  BY <1>1, <1>3, QuestionWritten
<1>10. \A t \in Sessions : RowsOf(t)' = RowsOf(t) /\ RowsOf(t) \subseteq RowNumbers
  <2>1. \A t \in Sessions : RowsOf(t)' = RowsOf(t)
    BY <1>7, <1>8 DEF RowsOf
  <2> QED BY <2>1, LenProperties, StoreAssumption DEF StoreInv, RowsTyped, RowsOf, RowNumbers
<1>11. QuestionsTyped'
  <2>1. \A t \in Sessions, j \in RowNumbers : Asked(t, j)' => Asked(t, j)
    BY <1>1, <1>9 DEF Asked
  <2> QED BY <1>9, <1>10, <2>1 DEF StoreInv, QuestionsTyped
<1>12. ASSUME NEW t \in Sessions, NEW j \in RowsOf(t)
       PROVE  /\ observations'[t][j].answer # NONE =>
                   Asked(t, j)' /\ questions'[t][j].answer = observations'[t][j].answer
              /\ observations'[t][j].rule # NONE => observations'[t][j].answer # NONE
              /\ Asked(t, j)' /\ questions'[t][j].rule # NONE => Answered(t, j)'
  <2>1. CASE t = s /\ j = i
    BY <1>2, <1>3, <1>6, <1>7, <1>8, <1>9, <2>1, QuestionIsSomething DEF Asked, Answered, RowsOf
  <2>2. CASE ~(t = s /\ j = i)
    <3>1. observations'[t][j] = observations[t][j] /\ questions'[t][j] = questions[t][j]
      BY <1>7, <1>8, <1>9, <1>10, <2>2 DEF RowsOf
    <3> QED BY <3>1 DEF StoreInv, RowsFollow, Asked, Answered
  <2> QED BY <2>1, <2>2
<1>13. RowsFollow'
  BY <1>10, <1>12 DEF RowsFollow
<1>14. AnswerEffect(s, i, a)
  <2>1. QuestionSet(s, i, a, questions[s][i].rule)
    BY <1>3, <1>9, QuestionIsSomething DEF QuestionSet, Asked, q
  <2>2. ASSUME NEW t \in Sessions, NEW j \in RowsOf(t)
        PROVE  /\ observations'[t][j].rule = observations[t][j].rule
               /\ observations'[t][j].answer =
                    IF t = s /\ j = i THEN a ELSE observations[t][j].answer
    BY <1>6, <1>7, <1>8 DEF RowsOf
  <2> QED BY <1>1, <1>10, <2>1, <2>2 DEF AnswerEffect, RowsStay
<1> QED BY <1>1, <1>8, <1>9, <1>11, <1>13, <1>14
           DEF StoreStep, StoreInv, SessionsTyped, RulesTyped, StaysClosed

\* The rule is named on the question and on its row together.
LEMMA NameRuleStep ==
  ASSUME StoreInv, NEW s \in Sessions, NEW i \in RowNumbers, NEW r \in RuleIds,
         attach_import_question_rule(s, i, r)
  PROVE  StoreStep /\ QuestionSet(s, i, questions[s][i].answer, r)
<1> DEFINE q == questions[s][i]
           x == [q EXCEPT !.rule = r]
<1>1. /\ require_open(s) /\ Answered(s, i)
      /\ questions' = [questions EXCEPT ![s][i] = x]
      /\ UNCHANGED <<session, observations, rules>>
  BY DEF attach_import_question_rule, MayName
<1>2. q \in Question /\ i \in RowsOf(s) /\ q.answer # NONE
  BY <1>1 DEF StoreInv, QuestionsTyped, Asked, Answered
<1>3. x \in Question /\ x.answer = q.answer /\ x.rule = r
  BY <1>2 DEF Question
<1> HIDE DEF x
<1>4. /\ questions' \in [Sessions -> [RowNumbers -> Question \cup {NONE}]]
      /\ questions'[s][i] = x
      /\ \A t \in Sessions, j \in RowNumbers :
           <<t, j>> # <<s, i>> => questions'[t][j] = questions[t][j]
      /\ \A t \in Sessions : session[t].state \in {"committed", "abandoned"} =>
           questions'[t] = questions[t]
  BY <1>1, <1>3, QuestionWritten
<1>5. \A t \in Sessions : RowsOf(t)' = RowsOf(t) /\ RowsOf(t) \subseteq RowNumbers
  BY <1>1, LenProperties, StoreAssumption DEF StoreInv, RowsTyped, RowsOf, RowNumbers
<1>6. QuestionsTyped'
  BY <1>1, <1>2, <1>4 DEF StoreInv, QuestionsTyped, Asked, RowsOf
<1>7. ASSUME NEW t \in Sessions, NEW j \in RowsOf(t)
      PROVE  /\ observations'[t][j].answer # NONE =>
                  Asked(t, j)' /\ questions'[t][j].answer = observations'[t][j].answer
             /\ observations'[t][j].rule # NONE => observations'[t][j].answer # NONE
             /\ Asked(t, j)' /\ questions'[t][j].rule # NONE => Answered(t, j)'
  <2>1. CASE t = s /\ j = i
    BY <1>1, <1>2, <1>3, <1>4, <2>1, QuestionIsSomething
       DEF StoreInv, RowsFollow, Asked, Answered
  <2>2. CASE ~(t = s /\ j = i)
    <3>1. observations'[t][j] = observations[t][j] /\ questions'[t][j] = questions[t][j]
      BY <1>1, <1>4, <1>5, <2>2
    <3> QED BY <3>1 DEF StoreInv, RowsFollow, Asked, Answered
  <2> QED BY <2>1, <2>2
<1>8. RowsFollow'
  BY <1>5, <1>7 DEF RowsFollow
<1>9. QuestionSet(s, i, questions[s][i].answer, r)
  BY <1>3, <1>4, QuestionIsSomething DEF QuestionSet, Asked
<1> QED BY <1>1, <1>4, <1>6, <1>8, <1>9
           DEF StoreStep, StoreInv, SessionsTyped, RowsTyped, RulesTyped, StaysClosed, RowsKept, origins,
               session_origin

\* How the rows of a session are rewritten where they stand.
LEMMA RowsRewritten ==
  ASSUME StoreInv, NEW s \in Sessions, require_open(s), UNCHANGED session,
         NEW o \in [RowsOf(s) -> Observation],
         \A i \in RowsOf(s) : o[i].intake = observations[s][i].intake,
         observations' = [observations EXCEPT ![s] = o]
  PROVE  /\ RowsTyped' /\ RowsKept(origins, observations, origins', observations') /\ observations'[s] = o
         /\ \A t \in Sessions \ {s} : observations'[t] = observations[t]
         /\ \A t \in Sessions : session[t].state \in {"committed", "abandoned"} =>
              observations'[t] = observations[t]
         /\ \A t \in Sessions : RowsOf(t)' = RowsOf(t) /\ RowsOf(t) \subseteq RowNumbers
<1>1. /\ observations[s] \in Seq(Observation) /\ Len(observations[s]) <= MaxRows
      /\ Len(observations[s]) \in Nat /\ RowsOf(s) = 1..Len(observations[s])
  BY LenProperties DEF StoreInv, RowsTyped, RowsOf
<1>2. o \in Seq(Observation)
  <2>1. o \in [1..Len(observations[s]) -> Observation]
    BY <1>1
  <2> QED BY <1>1, <2>1
<1>3. DOMAIN o = RowsOf(s)
  OBVIOUS
<1>4. DOMAIN o = 1..Len(o) /\ Len(o) \in Nat
  BY <1>2, LenProperties
<1>5. Len(o) <= MaxRows
  BY <1>1, <1>3, <1>4, StoreAssumption
<1>6. /\ RowsTyped' /\ RowsKept(origins, observations, origins', observations') /\ observations'[s] = o
      /\ \A t \in Sessions \ {s} : observations'[t] = observations[t]
      /\ \A t \in Sessions : session[t].state \in {"committed", "abandoned"} =>
           observations'[t] = observations[t]
  BY <1>2, <1>3, <1>5, RowsWritten
<1>7. \A t \in Sessions : RowsOf(t) \subseteq RowNumbers
  BY LenProperties, StoreAssumption DEF StoreInv, RowsTyped, RowsOf, RowNumbers
<1>8. \A t \in Sessions : RowsOf(t)' = RowsOf(t)
  BY <1>3, <1>6 DEF RowsOf
<1> QED BY <1>6, <1>7, <1>8

\* attach_import_answer_rule stamps the rule on rows and leaves their answers.
LEMMA StampStep ==
  ASSUME StoreInv, NEW s \in Sessions, NEW is \in SUBSET RowsOf(s), NEW r \in RuleIds,
         attach_import_answer_rule(s, is, r)
  PROVE  StoreStep /\ StampEffect(s, is, r)
<1> DEFINE old == observations[s]
           o == [i \in DOMAIN old |-> IF i \in is THEN [old[i] EXCEPT !.rule = r] ELSE old[i]]
<1>1. /\ require_open(s) /\ \A i \in is : old[i].answer # NONE
      /\ observations' = [observations EXCEPT ![s] = o]
      /\ UNCHANGED <<session, questions, rules>>
  BY DEF attach_import_answer_rule, MayStamp
<1>2. old \in Seq(Observation) /\ \A i \in RowsOf(s) : old[i] \in Observation
  BY LenProperties, ElementOfSeq DEF StoreInv, RowsTyped, RowsOf
<1>3. \A i \in RowsOf(s) :
        /\ o[i] \in Observation /\ o[i].intake = old[i].intake /\ o[i].answer = old[i].answer
        /\ i \notin is => o[i] = old[i]
        /\ i \in is => o[i].rule = r
  BY <1>2 DEF RowsOf, Observation
<1>4. o \in [RowsOf(s) -> Observation]
  BY <1>3 DEF RowsOf
<1> HIDE DEF o
<1>5. /\ RowsTyped' /\ RowsKept(origins, observations, origins', observations') /\ observations'[s] = o
      /\ \A t \in Sessions \ {s} : observations'[t] = observations[t]
      /\ \A t \in Sessions : session[t].state \in {"committed", "abandoned"} =>
           observations'[t] = observations[t]
      /\ \A t \in Sessions : RowsOf(t)' = RowsOf(t) /\ RowsOf(t) \subseteq RowNumbers
  <2>1. \A j \in RowsOf(s) : o[j] \in Observation /\ o[j].intake = observations[s][j].intake
    BY <1>3
  <2> HIDE DEF old
  <2> QED BY <1>1, <1>4, <2>1, RowsRewritten
<1>6. QuestionsTyped'
  BY <1>1, <1>5 DEF StoreInv, QuestionsTyped, Asked
<1>7. ASSUME NEW t \in Sessions, NEW j \in RowsOf(t)
      PROVE  /\ observations'[t][j].answer = observations[t][j].answer
             /\ observations'[t][j].rule # NONE => observations[t][j].answer # NONE
  <2>1. CASE t = s /\ j \in is
    BY <1>1, <1>3, <1>5, <2>1
  <2>2. CASE ~(t = s /\ j \in is)
    <3>1. observations'[t][j] = observations[t][j]
      BY <1>3, <1>5, <2>2
    <3> QED BY <3>1 DEF StoreInv, RowsFollow
  <2> QED BY <2>1, <2>2
<1>8. RowsFollow'
  BY <1>1, <1>5, <1>7 DEF StoreInv, RowsFollow, Asked, Answered
<1>9. StampEffect(s, is, r)
  <2>1. ASSUME NEW t \in Sessions, NEW j \in RowsOf(t)
        PROVE  observations'[t][j].rule = IF t = s /\ j \in is THEN r ELSE observations[t][j].rule
    BY <1>3, <1>5
  <2> QED BY <1>5, <1>7, <2>1 DEF StampEffect, RowsStay
<1> QED BY <1>1, <1>5, <1>6, <1>8, <1>9
           DEF StoreStep, StoreInv, SessionsTyped, RulesTyped, StaysClosed

\* A withdrawal clears the question, its row and the rows that share its rule.
LEMMA WithdrawnStep ==
  ASSUME StoreInv, NEW s \in Sessions, NEW i \in RowNumbers, withdraw_import_answer(s, i)
  PROVE  StoreStep /\ WithdrawEffect(s, i)
<1> DEFINE old == observations[s]
           gone(j) == j = i \/ old[j].rule = questions[s][i].rule
           o == [j \in DOMAIN old |->
                   IF gone(j) THEN [old[j] EXCEPT !.answer = NONE, !.rule = NONE] ELSE old[j]]
           x == [answer |-> NONE, rule |-> NONE]
<1>1. /\ require_open(s) /\ Asked(s, i) /\ Answered(s, i) /\ questions[s][i].rule # NONE
      /\ questions' = [questions EXCEPT ![s][i] = x]
      /\ observations' = [observations EXCEPT ![s] = o]
      /\ UNCHANGED <<session, rules>>
  BY DEF withdraw_import_answer, MayWithdraw, Answered
<1>2. old \in Seq(Observation) /\ \A j \in RowsOf(s) : old[j] \in Observation
  BY LenProperties, ElementOfSeq DEF StoreInv, RowsTyped, RowsOf
<1>3. \A j \in RowsOf(s) :
        /\ o[j] \in Observation /\ o[j].intake = old[j].intake
        /\ gone(j) => o[j].answer = NONE /\ o[j].rule = NONE
        /\ ~gone(j) => o[j] = old[j]
  BY <1>2 DEF RowsOf, Observation
<1>4. o \in [RowsOf(s) -> Observation]
  BY <1>3 DEF RowsOf
<1>5. x \in Question /\ x.answer = NONE /\ x.rule = NONE
  BY DEF Question
<1>6. gone(i)
  OBVIOUS
<1> HIDE DEF o, x, gone
<1>7. /\ RowsTyped' /\ RowsKept(origins, observations, origins', observations') /\ observations'[s] = o
      /\ \A t \in Sessions \ {s} : observations'[t] = observations[t]
      /\ \A t \in Sessions : session[t].state \in {"committed", "abandoned"} =>
           observations'[t] = observations[t]
      /\ \A t \in Sessions : RowsOf(t)' = RowsOf(t) /\ RowsOf(t) \subseteq RowNumbers
  <2>1. \A j \in RowsOf(s) : o[j] \in Observation /\ o[j].intake = observations[s][j].intake
    BY <1>3
  <2> HIDE DEF old
  <2> QED BY <1>1, <1>4, <2>1, RowsRewritten
<1>8. /\ questions' \in [Sessions -> [RowNumbers -> Question \cup {NONE}]]
      /\ questions'[s][i] = x
      /\ \A t \in Sessions, j \in RowNumbers :
           <<t, j>> # <<s, i>> => questions'[t][j] = questions[t][j]
      /\ \A t \in Sessions : session[t].state \in {"committed", "abandoned"} =>
           questions'[t] = questions[t]
  BY <1>1, <1>5, QuestionWritten
<1>9. QuestionsTyped'
  <2>1. \A t \in Sessions, j \in RowNumbers : Asked(t, j)' => Asked(t, j)
    BY <1>1, <1>8 DEF Asked
  <2> QED BY <1>7, <1>8, <2>1 DEF StoreInv, QuestionsTyped
<1>10. ASSUME NEW t \in Sessions, NEW j \in RowsOf(t)
       PROVE  /\ observations'[t][j].answer # NONE =>
                   Asked(t, j)' /\ questions'[t][j].answer = observations'[t][j].answer
              /\ observations'[t][j].rule # NONE => observations'[t][j].answer # NONE
              /\ Asked(t, j)' /\ questions'[t][j].rule # NONE => Answered(t, j)'
  <2>1. CASE t = s /\ j = i
    BY <1>3, <1>5, <1>6, <1>7, <1>8, <2>1
  <2>2. CASE ~(t = s /\ j = i)
    <3>1. questions'[t][j] = questions[t][j]
      BY <1>7, <1>8, <2>2
    <3>2. \/ observations'[t][j] = observations[t][j]
          \/ observations'[t][j].answer = NONE /\ observations'[t][j].rule = NONE
      BY <1>3, <1>7
    <3> QED BY <3>1, <3>2 DEF StoreInv, RowsFollow, Asked, Answered
  <2> QED BY <2>1, <2>2
<1>11. RowsFollow'
  BY <1>7, <1>10 DEF RowsFollow
<1>12. WithdrawEffect(s, i)
  <2>1. QuestionSet(s, i, NONE, NONE)
    BY <1>5, <1>8, QuestionIsSomething DEF QuestionSet, Asked
  <2>2. ASSUME NEW t \in Sessions, NEW j \in RowsOf(t)
        PROVE  \/ observations'[t][j] = observations[t][j] /\ ~(t = s /\ j = i)
               \/ /\ t = s /\ (j = i \/ observations[s][j].rule = questions[s][i].rule)
                  /\ observations'[t][j].answer = NONE /\ observations'[t][j].rule = NONE
    <3>1. CASE t = s /\ gone(j)
      BY <1>3, <1>7, <3>1 DEF gone
    <3>2. CASE ~(t = s /\ gone(j))
      BY <1>3, <1>6, <1>7, <3>2
    <3> QED BY <3>1, <3>2
  <2> QED BY <1>1, <1>7, <2>1, <2>2 DEF WithdrawEffect, RowsStay
<1> QED BY <1>1, <1>7, <1>8, <1>9, <1>11, <1>12
           DEF StoreStep, StoreInv, SessionsTyped, RulesTyped, StaysClosed

-----------------------------------------------------------------------------
(* What the journal and the requests rest on is kept by every step.        *)

\* A row that is written stays written.
LEMMA DisposedIsKept ==
  ASSUME NEW src, NEW obs, NEW log, NEW src2, NEW obs2, NEW log2, RowsKept(src, obs, src2, obs2), Grows(log, log2),
         NEW s \in Sessions, NEW i \in DOMAIN obs[s], Disposed(s, i, src, obs, log)
  PROVE  Disposed(s, i, src2, obs2, log2)
<1>1. obs2[s][i].intake = obs[s][i].intake /\ src2[s] = src[s]
  BY DEF RowsKept
<1>2. CASE obs[s][i].intake.form = "malformed"
  BY <1>1, <1>2 DEF Disposed
<1>3. CASE obs[s][i].intake.form # "malformed"
  <2>1. PICK n \in DOMAIN log :
          \/ log[n].kind = "fact" /\ log[n].session = s /\ log[n].row = i
          \/ /\ obs[s][i].intake.line # NONE /\ log[n].line = obs[s][i].intake.line
             /\ log[n].source = src[s]
          \/ obs[s][i].intake.key # NONE /\ log[n].key = obs[s][i].intake.key
    BY <1>3 DEF Disposed
  <2>2. n \in DOMAIN log2 /\ log2[n] = log[n]
    BY DEF Grows
  <2> QED BY <1>1, <2>1, <2>2 DEF Disposed
<1> QED BY <1>2, <1>3

\* Rows added and a journal grown leave a waiting request in order.
LEMMA RequestIsKept ==
  ASSUME NEW src, NEW obs, NEW log, NEW src2, NEW obs2, NEW log2, RowsKept(src, obs, src2, obs2), Grows(log, log2),
         NEW r, RequestOK(r, src, obs, log)
  PROVE  RequestOK(r, src2, obs2, log2)
<1>1. CASE r = Idle \/ Opening(r)
  BY <1>1 DEF RequestOK
<1>2. CASE Feeding(r, obs)
  <2>1. Feeding(r, obs2)
    BY <1>2 DEF Feeding, RowsKept
  <2> QED BY <2>1 DEF RequestOK
<1>3. CASE HasRead(r, obs)
  <2>1. HasRead(r, obs2)
    BY <1>3 DEF HasRead, RowsKept
  <2>2. CASE CommitOK(r, src, obs, log)
    <3>1. ASSUME r.pc = "submit", NEW i \in DOMAIN r.plan
          PROVE  PlannedOK(r.plan[i], i, r, src2) /\ (i < r.next => Disposed(r.s, i, src2, obs2, log2))
      <4>1. i \in DOMAIN obs[r.s] /\ r.s \in Sessions /\ PlannedOK(r.plan[i], i, r, src)
        BY <1>3, <2>2, <3>1 DEF CommitOK, PlanOK, HasRead
      <4>2. src2[r.s] = src[r.s]
        BY <4>1 DEF RowsKept
      <4>3. PlannedOK(r.plan[i], i, r, src2)
        BY <4>1, <4>2 DEF PlannedOK
      <4>4. i < r.next => Disposed(r.s, i, src, obs, log)
        BY <2>2, <3>1 DEF CommitOK
      <4> QED BY <4>1, <4>3, <4>4, DisposedIsKept
    <3>2. CommitOK(r, src2, obs2, log2)
      BY <2>2, <3>1 DEF CommitOK, PlanOK
    <3> QED BY <2>1, <3>2 DEF RequestOK
  <2>3. CASE AnswerOK(r) \/ WithdrawOK(r)
    BY <2>1, <2>3 DEF RequestOK
  <2>4. CASE r = Idle \/ Opening(r) \/ Feeding(r, obs)
    BY <1>1, <1>2, <2>4
  <2> QED BY <2>2, <2>3, <2>4 DEF RequestOK
<1> QED BY <1>1, <1>2, <1>3 DEF RequestOK

\* The journal stands on the rows it was written from as more are added.
LEMMA JournalIsKept ==
  ASSUME NEW src, NEW obs, NEW src2, NEW obs2, NEW log, JournalInv(src, obs, log), RowsKept(src, obs, src2, obs2)
  PROVE  JournalInv(src2, obs2, log)
<1>1. \A n \in DOMAIN log : log[n] \in Entries
  BY LenProperties, ElementOfSeq DEF JournalInv
<1>2. ASSUME NEW n \in FactsOf(log) PROVE FactOK(log[n], obs2)
  <2>1. log[n].session \in Sessions
    BY <1>1 DEF FactsOf, Entries
  <2>2. FactOK(log[n], obs)
    BY DEF JournalInv
  <2> QED BY <2>1, <2>2 DEF FactOK, RowsKept
<1>3. ASSUME NEW n \in DOMAIN log PROVE Asserted(log[n], src2, obs2, log)
  <2>1. SUFFICES ASSUME log[n].kind = "assertion", NEW i \in log[n].settled
                 PROVE  /\ i \in DOMAIN obs2[log[n].session]
                        /\ Disposed(log[n].session, i, src2, obs2, log)
    BY DEF Asserted
  <2>2. log[n].session \in Sessions
    BY <1>1, <2>1 DEF Entries
  <2>3. i \in DOMAIN obs[log[n].session] /\ Disposed(log[n].session, i, src, obs, log)
    BY <2>1 DEF JournalInv, Asserted
  <2>4. Grows(log, log)
    BY DEF Grows
  <2>5. Disposed(log[n].session, i, src2, obs2, log)
    BY <2>2, <2>3, <2>4, DisposedIsKept
  <2> QED BY <2>2, <2>3, <2>5 DEF RowsKept
<1> QED BY <1>2, <1>3 DEF JournalInv

\* One request moves on to R while the store and the journal are kept.
LEMMA RequestMoves ==
  ASSUME IInv, StoreStep, JournalInv(origins', observations', journal'), Grows(journal, journal'),
         BatchesOK', NEW p \in Requests, NEW R, req' = [req EXCEPT ![p] = R],
         RequestOK(R, origins', observations', journal')
  PROVE  IInv' /\ StaysClosed
<1>1. StoreInv' /\ StaysClosed /\ RowsKept(origins, observations, origins', observations')
  BY DEF StoreStep
<1>2. /\ req' = [q \in Requests |-> req'[q]] /\ req'[p] = R
      /\ \A q \in Requests \ {p} : req'[q] = req[q]
  BY DEF IInv
<1>3. \A q \in Requests : RequestOK(req'[q], origins', observations', journal')
  <2>1. TAKE q \in Requests
  <2>2. CASE q = p
    BY <1>2, <2>2
  <2>3. CASE q # p
    <3>1. RequestOK(req[q], origins, observations, journal)
      BY DEF IInv
    <3> QED BY <1>1, <1>2, <2>3, <3>1, RequestIsKept
  <2> QED BY <2>2, <2>3
<1> QED BY <1>1, <1>2, <1>3 DEF IInv

\* The same for a step that leaves the journal alone.
LEMMA StoreRequestMoves ==
  ASSUME IInv, StoreStep, UNCHANGED journal, BatchesOK', NEW p \in Requests, NEW R,
         req' = [req EXCEPT ![p] = R], RequestOK(R, origins', observations', journal)
  PROVE  IInv' /\ StaysClosed
<1>1. RowsKept(origins, observations, origins', observations') /\ JournalInv(origins, observations, journal)
  BY DEF StoreStep, IInv
<1>2. JournalInv(origins', observations', journal') /\ Grows(journal, journal')
  BY <1>1, JournalIsKept DEF Grows
<1> QED BY <1>2, RequestMoves

\* A request that answers leaves the store and the journal as they are.
LEMMA BecomesMoves ==
  ASSUME IInv, StoreStep, UNCHANGED journal, NEW p \in Requests, NEW R, Becomes(p, R),
         RequestOK(R, origins', observations', journal)
  PROVE  IInv' /\ StaysClosed
<1>1. BatchesOK'
  BY DEF IInv, BatchesOK, Becomes
<1> QED BY <1>1, StoreRequestMoves DEF Becomes

\* A request that returns is idle and the others are as they were.
LEMMA ReturnsMoves ==
  ASSUME IInv, StoreStep, UNCHANGED journal, NEW p \in Requests, Returns(p)
  PROVE  IInv' /\ StaysClosed
BY BecomesMoves DEF Returns, RequestOK

\* A refused request is idle, and nothing was written.
LEMMA RefusedMoves ==
  ASSUME IInv, NEW p \in Requests, Refused(p)
  PROVE  IInv' /\ StaysClosed
BY ReturnsMoves, StoreUnchanged DEF Refused, IInv

\* A call that begins.
LEMMA CallMoves ==
  ASSUME IInv, StoreStep, UNCHANGED journal, NEW p \in Requests, NEW op, NEW R, Call(p, op, R),
         RequestOK(R, origins', observations', journal)
  PROVE  IInv' /\ StaysClosed
<1>1. BatchesOK'
  BY DEF IInv, BatchesOK, Call
<1> QED BY <1>1, StoreRequestMoves DEF Call

-----------------------------------------------------------------------------
\* Where a request is tells which call it serves.
LEMMA WhereItIs ==
  ASSUME IInv, NEW p \in Requests
  PROVE  LET r == req[p] IN
         /\ r.pc = "open" => Opening(r)
         /\ r.pc \in {"add_row", "ask"} => Feeding(r, observations)
         /\ r.pc \in Reads => /\ HasRead(r, observations)
                              /\ AnswerOK(r) \/ WithdrawOK(r) \/ CommitOK(r, origins, observations, journal)
         /\ r.pc \in {"answer_like", "mint", "name_rule", "stamp_rule"}
              => HasRead(r, observations) /\ AnswerOK(r)
         /\ r.pc = "withdraw" => HasRead(r, observations) /\ WithdrawOK(r)
         /\ r.pc \in {"submit", "close"}
              => HasRead(r, observations) /\ CommitOK(r, origins, observations, journal)
<1> DEFINE r == req[p]
<1>1. RequestOK(r, origins, observations, journal)
  BY DEF IInv
<1> HIDE DEF r
<1>2. CASE r = Idle
  BY <1>2 DEF Idle, Reads, r
<1>3. CASE Opening(r)
  BY <1>3 DEF Opening, Reads, r
<1>4. CASE Feeding(r, observations)
  BY <1>4 DEF Feeding, Reads, r
<1>5. CASE HasRead(r, observations) /\ AnswerOK(r)
  BY <1>5 DEF AnswerOK, Reads, r
<1>6. CASE HasRead(r, observations) /\ WithdrawOK(r)
  BY <1>6 DEF WithdrawOK, Reads, r
<1>7. CASE HasRead(r, observations) /\ CommitOK(r, origins, observations, journal)
  BY <1>7 DEF CommitOK, Reads, r
<1> QED BY <1>1, <1>2, <1>3, <1>4, <1>5, <1>6, <1>7 DEF RequestOK

\* The call to open a session begins.
LEMMA OpenSessionStep ==
  ASSUME IInv, NEW p \in Requests, open_session(p)
  PROVE  IInv' /\ StaysClosed
<1>1. PICK d \in Declarations \cup {NONE} : Call(p, "open", [pc |-> "open", decl |-> d])
  BY DEF open_session
<1>2. UNCHANGED <<store, journal>>
  BY DEF open_session
<1>3. StoreStep
  BY <1>2, StoreUnchanged DEF IInv
<1>4. RequestOK([pc |-> "open", decl |-> d], origins', observations', journal)
  BY DEF RequestOK, Opening
<1> QED BY <1>1, <1>2, <1>3, <1>4, CallMoves

\* The session is inserted and the call returns.
LEMMA OpenInsertStep ==
  ASSUME IInv, NEW p \in Requests, open_session_insert(p)
  PROVE  IInv' /\ StaysClosed
<1>1. CASE Refused(p)
  BY <1>1, RefusedMoves
<1>2. ASSUME NEW s \in Sessions, open_import_session(req[p].decl, s), UNCHANGED journal, Returns(p)
      PROVE  IInv' /\ StaysClosed
  <2>1. req[p].decl \in Declarations \cup {NONE}
    BY WhereItIs DEF open_session_insert, Opening
  <2>2. StoreStep
    BY <1>2, <2>1, OpenStep DEF IInv
  <2> QED BY <1>2, <2>2, ReturnsMoves
<1> QED BY <1>1, <1>2 DEF open_session_insert

\* The call that feeds a batch of rows begins.
LEMMA AddRowsStep ==
  ASSUME IInv, NEW p \in Requests, add_rows(p)
  PROVE  IInv' /\ StaysClosed
<1>1. PICK s \in Sessions, b \in left.batches :
        Call(p, "add", [pc |-> "add_row", s |-> s, batch |-> b, book |-> rules, row |-> 0])
  BY DEF add_rows
<1> DEFINE R == [pc |-> "add_row", s |-> s, batch |-> b, book |-> rules, row |-> 0]
<1>2. UNCHANGED <<store, journal>>
  BY DEF add_rows
<1>3. StoreStep
  BY <1>2, StoreUnchanged DEF IInv
<1>4. b \in Seq(Intake) /\ b # <<>>
  BY DEF IInv, BatchesOK
<1>5. Feeding(R, observations')
  BY <1>4 DEF Feeding
<1> HIDE DEF R
<1>6. Call(p, "add", R)
  BY <1>1 DEF R
<1>7. RequestOK(R, origins', observations', journal)
  BY <1>5 DEF RequestOK
<1> QED BY <1>2, <1>3, <1>6, <1>7, CallMoves

\* After a row the request has more rows to feed, or is done.
LEMMA NextRowMoves ==
  ASSUME IInv, StoreStep, UNCHANGED journal, NEW p \in Requests,
         req[p].pc \in {"add_row", "ask"}, NextRow(p)
  PROVE  IInv' /\ StaysClosed
<1> DEFINE r == req[p]
           R == [r EXCEPT !.pc = "add_row", !.batch = Tail(r.batch)]
<1>1. Feeding(r, observations)
  BY WhereItIs
<1>2. CASE Returns(p)
  BY <1>2, ReturnsMoves
<1>3. CASE Tail(r.batch) # <<>> /\ Becomes(p, R)
  <2>1. Tail(r.batch) \in Seq(Intake)
    BY <1>1, HeadTailProperties DEF Feeding
  <2>2. Feeding(R, observations')
    BY <1>1, <1>3, <2>1 DEF Feeding
  <2> HIDE DEF R
  <2>3. RequestOK(R, origins', observations', journal)
    BY <2>2 DEF RequestOK
  <2> QED BY <1>3, <2>3, BecomesMoves
<1> QED BY <1>2, <1>3 DEF NextRow

\* One row of the batch is stored; the request goes on to its question.
LEMMA AddRowMoves ==
  ASSUME IInv, NEW p \in Requests, add_row(p)
  PROVE  IInv' /\ StaysClosed
<1> DEFINE r == req[p]
           row == Head(r.batch)
<1>1. r.pc = "add_row" /\ Feeding(r, observations)
  BY WhereItIs DEF add_row
<1>2. row \in Intake /\ r.s \in Sessions
  BY <1>1, HeadTailProperties DEF Feeding
<1>3. CASE Refused(p)
  BY <1>3, RefusedMoves
<1>4. ASSUME NEW n, add_import_observation(r.s, row, n), UNCHANGED journal,
             NextRow(p) \/ Becomes(p, [r EXCEPT !.pc = "ask", !.row = n])
      PROVE  IInv' /\ StaysClosed
  <2> DEFINE R == [r EXCEPT !.pc = "ask", !.row = n]
  <2>1. StoreStep /\ n \in DOMAIN observations'[r.s]
    <3> HIDE DEF row
    <3>1. ASSUME NEW t \in Sessions, NEW m, add_import_observation(t, row, m)
          PROVE  StoreStep /\ m \in DOMAIN observations'[t]
      BY <1>2, <3>1, AddRowStep DEF IInv, RowsOf
    <3> QED BY <1>2, <1>4, <3>1
  <2>2. CASE NextRow(p)
    BY <1>1, <1>4, <2>1, <2>2, NextRowMoves
  <2>3. CASE Becomes(p, R)
    <3>1. Feeding(R, observations')
      BY <1>1, <2>1 DEF Feeding
    <3> HIDE DEF R
    <3>2. RequestOK(R, origins', observations', journal)
      BY <3>1 DEF RequestOK
    <3> QED BY <1>4, <2>1, <2>3, <3>2, BecomesMoves
  <2> QED BY <1>4, <2>2, <2>3
<1> QED BY <1>3, <1>4 DEF add_row

\* The question of the stored row is asked, or needs no asking.
LEMMA AskMoves ==
  ASSUME IInv, NEW p \in Requests, ask(p)
  PROVE  IInv' /\ StaysClosed
<1>1. req[p].pc = "ask" /\ req[p].s \in Sessions /\ req[p].row \in RowsOf(req[p].s)
  BY WhereItIs DEF ask, Feeding, RowsOf
<1>2. CASE Refused(p)
  BY <1>2, RefusedMoves
<1>3. CASE record_import_question(req[p].s, req[p].row) /\ NextRow(p) /\ UNCHANGED journal
  <2>1. StoreStep
    BY <1>1, <1>3, AskStep DEF IInv
  <2> QED BY <1>1, <1>3, <2>1, NextRowMoves
<1> QED BY <1>2, <1>3 DEF ask

\* The calls that are one store call.
LEMMA OneCallMoves ==
  ASSUME IInv, NEW p \in Requests,
         \/ state_control_figures(p) \/ create_rule(p) \/ retire(p) \/ abandon_session(p)
  PROVE  IInv' /\ StaysClosed
<1>1. RequestOK(Idle, origins', observations', journal)
  BY DEF RequestOK
<1>2. StoreInv
  BY DEF IInv
<1>3. CASE state_control_figures(p)
  BY <1>1, <1>2, <1>3, FiguresStep, CallMoves DEF state_control_figures
<1>4. CASE create_rule(p)
  BY <1>1, <1>2, <1>4, InsertRuleStep, CallMoves DEF create_rule
<1>5. CASE retire(p)
  BY <1>1, <1>2, <1>5, RetireRuleStep, CallMoves DEF retire
<1>6. CASE abandon_session(p)
  BY <1>1, <1>2, <1>6, CloseStep, CallMoves DEF abandon_session, States
<1> QED BY <1>3, <1>4, <1>5, <1>6

-----------------------------------------------------------------------------
(* Reading, answering and withdrawing.                                     *)

\* The request keeps the rows it read.
LEMMA ListRowsMoves ==
  ASSUME IInv, NEW p \in Requests, list_rows(p)
  PROVE  IInv' /\ StaysClosed
<1> DEFINE r == req[p]
           o == observations[r.s]
           R == [r EXCEPT !.pc = "list_questions", !.rows = o]
<1>1. /\ r.pc = "list_rows" /\ HasRead(r, observations)
      /\ AnswerOK(r) \/ WithdrawOK(r) \/ CommitOK(r, origins, observations, journal)
  BY WhereItIs DEF list_rows, Reads
<1>2. /\ R.s = r.s /\ R.op = r.op /\ R.rows = o /\ R.pc = "list_questions" /\ R.row = r.row
      /\ R.figures = r.figures
      /\ R.answer = r.answer /\ R.next = r.next /\ DOMAIN R = Registers
  BY <1>1 DEF HasRead, Registers
<1>3. Becomes(p, R) /\ UNCHANGED <<store, journal>>
  BY DEF list_rows
<1>4. o \in Seq(Observation)
  BY <1>1 DEF IInv, StoreInv, RowsTyped, HasRead
<1> HIDE DEF R
<1>5. StoreStep /\ observations' = observations
  BY <1>3, StoreUnchanged DEF IInv, store
<1>6. HasRead(R, observations')
  BY <1>1, <1>2, <1>4, <1>5 DEF HasRead
<1>7. AnswerOK(R) \/ WithdrawOK(R) \/ CommitOK(R, origins', observations', journal)
  BY <1>1, <1>2 DEF AnswerOK, WithdrawOK, CommitOK, Reads
<1>8. RequestOK(R, origins', observations', journal)
  BY <1>6, <1>7 DEF RequestOK
<1> QED BY <1>3, <1>5, <1>8, BecomesMoves

\* The request keeps the questions it read.
LEMMA ListQuestionsMoves ==
  ASSUME IInv, NEW p \in Requests, list_questions(p)
  PROVE  IInv' /\ StaysClosed
<1> DEFINE r == req[p]
           R == [r EXCEPT !.pc = "decide", !.asked = questions[r.s],
                          !.figures = session[r.s].figures]
<1>1. /\ r.pc = "list_questions" /\ HasRead(r, observations)
      /\ AnswerOK(r) \/ WithdrawOK(r) \/ CommitOK(r, origins, observations, journal)
  BY WhereItIs DEF list_questions, Reads
<1>2. /\ R.s = r.s /\ R.op = r.op /\ R.rows = r.rows /\ R.pc = "decide" /\ R.row = r.row
      /\ R.figures = session[r.s].figures
      /\ R.answer = r.answer /\ R.next = r.next /\ DOMAIN R = Registers
  BY <1>1 DEF HasRead, Registers
<1>3. Becomes(p, R) /\ UNCHANGED <<store, journal>>
  BY DEF list_questions
<1>4. session[r.s].figures \in Sections \cup {NONE}
  BY <1>1 DEF HasRead, IInv, StoreInv, SessionsTyped, SessionRecord
<1> HIDE DEF R
<1>5. StoreStep /\ observations' = observations
  BY <1>3, StoreUnchanged DEF IInv, store
<1>6. HasRead(R, observations')
  BY <1>1, <1>2, <1>4, <1>5 DEF HasRead
<1>7. AnswerOK(R) \/ WithdrawOK(R) \/ CommitOK(R, origins', observations', journal)
  BY <1>1, <1>2 DEF AnswerOK, WithdrawOK, CommitOK, Reads
<1>8. RequestOK(R, origins', observations', journal)
  BY <1>6, <1>7 DEF RequestOK
<1> QED BY <1>3, <1>5, <1>8, BecomesMoves

\* The calls that begin by reading a session.
LEMMA ReadingMoves ==
  ASSUME IInv, NEW p \in Requests, answer_question(p) \/ withdraw_answer(p) \/ commit_session(p)
  PROVE  IInv' /\ StaysClosed
<1>1. UNCHANGED <<store, journal>>
  BY DEF answer_question, withdraw_answer, commit_session
<1>2. StoreStep
  BY <1>1, StoreUnchanged DEF IInv
<1>3. ASSUME NEW R, NEW op, Call(p, op, R), DOMAIN R = Registers, R.s \in Sessions, R.rows = <<>>,
             R.figures = NONE, R.pc = "list_rows", AnswerOK(R) \/ WithdrawOK(R) \/ CommitOK(R, origins', observations', journal)
      PROVE  IInv' /\ StaysClosed
  <2>1. HasRead(R, observations')
    BY <1>3 DEF HasRead
  <2>2. RequestOK(R, origins', observations', journal)
    BY <1>3, <2>1 DEF RequestOK
  <2> QED BY <1>1, <1>2, <1>3, <2>2, CallMoves
<1>4. CASE answer_question(p)
  <2>1. PICK s \in Sessions, i \in RowNumbers, a \in Answers, reach \in BOOLEAN, mints \in BOOLEAN :
          Call(p, "answer", [Reading("answer", s) EXCEPT !.row = i, !.answer = a,
                                                         !.reach = reach, !.mints = mints])
    BY <1>4 DEF answer_question
  <2> DEFINE R == [Reading("answer", s) EXCEPT !.row = i, !.answer = a,
                                               !.reach = reach, !.mints = mints]
  <2>2. /\ DOMAIN R = Registers /\ R.s = s /\ R.rows = <<>> /\ R.pc = "list_rows" /\ R.figures = NONE
        /\ R.op = "answer" /\ R.row = i /\ R.answer = a
    BY DEF Reading, Registers
  <2> HIDE DEF R
  <2>3. AnswerOK(R)
    BY <2>2 DEF AnswerOK, Reads
  <2>4. Call(p, "answer", R)
    BY <2>1 DEF R
  <2> QED BY <1>3, <2>2, <2>3, <2>4
<1>5. CASE withdraw_answer(p)
  <2>1. PICK s \in Sessions, i \in RowNumbers :
          Call(p, "withdraw", [Reading("withdraw", s) EXCEPT !.row = i])
    BY <1>5 DEF withdraw_answer
  <2> DEFINE R == [Reading("withdraw", s) EXCEPT !.row = i]
  <2>2. /\ DOMAIN R = Registers /\ R.s = s /\ R.rows = <<>> /\ R.pc = "list_rows" /\ R.figures = NONE
        /\ R.op = "withdraw" /\ R.row = i
    BY DEF Reading, Registers
  <2> HIDE DEF R
  <2>3. WithdrawOK(R)
    BY <2>2 DEF WithdrawOK, Reads
  <2>4. Call(p, "withdraw", R)
    BY <2>1 DEF R
  <2> QED BY <1>3, <2>2, <2>3, <2>4
<1>6. CASE commit_session(p)
  <2>1. PICK s \in Sessions : Call(p, "commit", Reading("commit", s))
    BY <1>6 DEF commit_session
  <2> DEFINE R == Reading("commit", s)
  <2>2. /\ DOMAIN R = Registers /\ R.s = s /\ R.rows = <<>> /\ R.pc = "list_rows" /\ R.figures = NONE
        /\ R.op = "commit" /\ R.next = 1
    BY DEF Reading, Registers
  <2> HIDE DEF R
  <2>3. CommitOK(R, origins', observations', journal)
    BY <2>2 DEF CommitOK, Reads
  <2>4. Call(p, "commit", R)
    BY <2>1 DEF R
  <2> QED BY <1>3, <2>2, <2>3, <2>4
<1> QED BY <1>4, <1>5, <1>6

\* The rows a request has read are still rows of its session.
LEMMA ReadRowsAreRows ==
  ASSUME IInv, NEW r, HasRead(r, observations)
  PROVE  /\ DOMAIN r.rows \subseteq RowsOf(r.s) /\ RowsOf(r.s) \subseteq RowNumbers
         /\ DOMAIN r.rows = 1..Len(r.rows) /\ Len(r.rows) \in Nat
         /\ \A i \in DOMAIN r.rows : r.rows[i] \in Observation
<1>1. DOMAIN r.rows \subseteq RowsOf(r.s)
  BY DEF HasRead, RowsOf
<1>2. RowsOf(r.s) \subseteq RowNumbers
  BY LenProperties, StoreAssumption
     DEF HasRead, IInv, StoreInv, RowsTyped, RowsOf, RowNumbers
<1>3. DOMAIN r.rows = 1..Len(r.rows) /\ Len(r.rows) \in Nat
  BY LenProperties DEF HasRead
<1>4. \A i \in DOMAIN r.rows : r.rows[i] \in Observation
  BY <1>3, ElementOfSeq DEF HasRead
<1> QED BY <1>1, <1>2, <1>3, <1>4

\* An answer moves on to R, which keeps what it has read and what it says.
LEMMA AnswerMoves ==
  ASSUME IInv, StoreStep, UNCHANGED journal, NEW p \in Requests,
         HasRead(req[p], observations), AnswerOK(req[p]), NEW R, Becomes(p, R),
         DOMAIN R = Registers, R.s = req[p].s, R.rows = req[p].rows, R.op = req[p].op,
         R.row = req[p].row, R.answer = req[p].answer, R.figures = req[p].figures, AnswerOK(R)
  PROVE  IInv' /\ StaysClosed
<1>1. HasRead(R, observations')
  BY DEF HasRead, StoreStep, RowsKept
<1>2. RequestOK(R, origins', observations', journal)
  BY <1>1 DEF RequestOK
<1> QED BY <1>2, BecomesMoves

\* An answer is decided on the rows and questions that were read.
LEMMA AnswerDecideMoves ==
  ASSUME IInv, NEW p \in Requests, answer_decide(p)
  PROVE  IInv' /\ StaysClosed
<1> DEFINE r == req[p]
           ts == targets_of(p)
           R == [r EXCEPT !.pc = "answer_like", !.targets = ts, !.todo = ts]
<1>1. CASE Refused(p)
  BY <1>1, RefusedMoves
<1>2. CASE r.row \in DOMAIN r.rows /\ Becomes(p, R) /\ UNCHANGED <<store, journal>>
  <2>1. HasRead(r, observations) /\ AnswerOK(r)
    BY WhereItIs DEF answer_decide, Reads, WithdrawOK, CommitOK
  <2>2. ts \subseteq DOMAIN r.rows
    BY DEF targets_of
  <2> HIDE DEF ts
  <2>3. /\ R.s = r.s /\ R.op = r.op /\ R.rows = r.rows /\ R.pc = "answer_like" /\ R.row = r.row
        /\ R.answer = r.answer /\ R.targets = ts /\ R.todo = ts /\ DOMAIN R = Registers
        /\ R.figures = r.figures
    BY <2>1 DEF HasRead, Registers
  <2> HIDE DEF R
  <2>4. AnswerOK(R)
    BY <1>2, <2>1, <2>2, <2>3 DEF AnswerOK, Reads
  <2>5. StoreStep
    BY <1>2, StoreUnchanged DEF IInv
  <2> QED BY <1>2, <2>1, <2>3, <2>4, <2>5, AnswerMoves
<1> QED BY <1>1, <1>2 DEF answer_decide, observed_row

\* The answer is written to one of its targets after the other.
LEMMA AnswerLikeMoves ==
  ASSUME IInv, NEW p \in Requests, answer_like(p)
  PROVE  IInv' /\ StaysClosed
<1> DEFINE r == req[p]
           first == IF r.todo = {} THEN r.row
                    ELSE CHOOSE i \in r.todo : \A j \in r.todo : i <= j
           R == [r EXCEPT !.todo = r.todo \ {first}]
           M == [r EXCEPT !.pc = "mint"]
<1>1. r.pc = "answer_like" /\ HasRead(r, observations) /\ AnswerOK(r)
  BY WhereItIs DEF answer_like
<1>2. CASE Refused(p)
  BY <1>2, RefusedMoves
<1>3. CASE /\ answer_import_question(r.s, first, r.answer) /\ UNCHANGED journal
           /\ IF r.todo # {} THEN Becomes(p, R)
              ELSE IF r.mints THEN Becomes(p, M) ELSE Returns(p)
  <2>1. first \in RowNumbers
    <3>1. r.todo \subseteq RowNumbers /\ r.row \in RowNumbers
      BY <1>1, ReadRowsAreRows DEF AnswerOK, Reads
    <3>2. CASE r.todo = {}
      BY <3>1, <3>2
    <3>3. CASE r.todo # {}
      <4>1. r.todo \in SUBSET Nat
        BY <3>1, StoreAssumption DEF RowNumbers
      <4>2. \E i \in r.todo : \A j \in r.todo : i <= j
        BY <3>3, <4>1, Smallest
      <4>3. (CHOOSE i \in r.todo : \A j \in r.todo : i <= j) \in r.todo
        BY <4>2
      <4> QED BY <3>1, <3>3, <4>3
    <3> QED BY <3>2, <3>3
  <2>2. r.s \in Sessions /\ r.answer \in Answers
    BY <1>1 DEF HasRead, AnswerOK
  <2> HIDE DEF first
  <2>3. StoreStep
    BY <1>3, <2>1, <2>2, AnswerStep DEF IInv
  <2>4. CASE Returns(p)
    BY <1>3, <2>3, <2>4, ReturnsMoves
  <2>5. CASE Becomes(p, R)
    <3>1. /\ R.s = r.s /\ R.op = r.op /\ R.rows = r.rows /\ R.pc = r.pc /\ R.row = r.row
          /\ R.answer = r.answer /\ R.targets = r.targets /\ R.todo = r.todo \ {first}
          /\ R.rule = r.rule /\ DOMAIN R = Registers
          /\ R.figures = r.figures
      BY <1>1 DEF HasRead, Registers
    <3> HIDE DEF R
    <3>2. AnswerOK(R)
      BY <1>1, <3>1 DEF AnswerOK, Reads
    <3> QED BY <1>1, <1>3, <2>3, <2>5, <3>1, <3>2, AnswerMoves
  <2>6. CASE Becomes(p, M)
    <3>1. /\ M.s = r.s /\ M.op = r.op /\ M.rows = r.rows /\ M.pc = "mint" /\ M.row = r.row
          /\ M.answer = r.answer /\ M.targets = r.targets /\ M.todo = r.todo
          /\ DOMAIN M = Registers
          /\ M.figures = r.figures
      BY <1>1 DEF HasRead, Registers
    <3> HIDE DEF M
    <3>2. AnswerOK(M)
      BY <1>1, <3>1 DEF AnswerOK, Reads
    <3> QED BY <1>1, <1>3, <2>3, <2>6, <3>1, <3>2, AnswerMoves
  <2> QED BY <1>3, <2>4, <2>5, <2>6
<1> QED BY <1>2, <1>3 DEF answer_like, GoesTo

\* The rule an answer generalises to is created.
LEMMA MintMoves ==
  ASSUME IInv, NEW p \in Requests, mint(p)
  PROVE  IInv' /\ StaysClosed
<1> DEFINE r == req[p]
           n == Len(rules) + 1
           R == [r EXCEPT !.pc = "name_rule", !.rule = n]
<1>1. r.pc = "mint" /\ HasRead(r, observations) /\ AnswerOK(r)
  BY WhereItIs DEF mint
<1>2. CASE Refused(p)
  BY <1>2, RefusedMoves
<1>3. CASE insert_rule(r.rows[r.row].intake.subject, r.answer) /\ Becomes(p, R) /\ UNCHANGED journal
  <2>1. r.rows[r.row] \in Observation /\ r.answer \in Answers
    BY <1>1, ReadRowsAreRows DEF AnswerOK, Reads
  <2>2. r.rows[r.row].intake.subject \in Subjects
    BY <2>1 DEF Observation, Intake
  <2>3. StoreStep /\ n \in RuleIds
    BY <1>3, <2>1, <2>2, InsertRuleStep DEF IInv
  <2> HIDE DEF n
  <2>4. /\ R.s = r.s /\ R.op = r.op /\ R.rows = r.rows /\ R.pc = "name_rule" /\ R.row = r.row
        /\ R.answer = r.answer /\ R.targets = r.targets /\ R.todo = r.todo
        /\ R.rule = n /\ DOMAIN R = Registers
        /\ R.figures = r.figures
    BY <1>1 DEF HasRead, Registers
  <2> HIDE DEF R
  <2>5. AnswerOK(R)
    BY <1>1, <2>3, <2>4 DEF AnswerOK, Reads
  <2> QED BY <1>1, <1>3, <2>3, <2>4, <2>5, AnswerMoves
<1> QED BY <1>2, <1>3 DEF mint

\* The rule is named on the question it came from.
LEMMA NameRuleMoves ==
  ASSUME IInv, NEW p \in Requests, name_rule(p)
  PROVE  IInv' /\ StaysClosed
<1> DEFINE r == req[p]
           R == [r EXCEPT !.pc = "stamp_rule"]
<1>1. r.pc = "name_rule" /\ HasRead(r, observations) /\ AnswerOK(r)
  BY WhereItIs DEF name_rule
<1>2. CASE Refused(p)
  BY <1>2, RefusedMoves
<1>3. CASE attach_import_question_rule(r.s, r.row, r.rule) /\ Becomes(p, R) /\ UNCHANGED journal
  <2>1. r.s \in Sessions /\ r.row \in RowNumbers /\ r.rule \in RuleIds
    BY <1>1 DEF HasRead, AnswerOK
  <2>2. StoreStep
    BY <1>3, <2>1, NameRuleStep DEF IInv
  <2>3. /\ R.s = r.s /\ R.op = r.op /\ R.rows = r.rows /\ R.pc = "stamp_rule" /\ R.row = r.row
        /\ R.answer = r.answer /\ R.targets = r.targets /\ R.todo = r.todo
        /\ R.rule = r.rule /\ DOMAIN R = Registers
        /\ R.figures = r.figures
    BY <1>1 DEF HasRead, Registers
  <2> HIDE DEF R
  <2>4. AnswerOK(R)
    BY <1>1, <2>1, <2>3 DEF AnswerOK, Reads
  <2> QED BY <1>1, <1>3, <2>2, <2>3, <2>4, AnswerMoves
<1> QED BY <1>2, <1>3 DEF name_rule, GoesTo

\* The rule is stamped on one of the rows the answer reached.
LEMMA StampRuleMoves ==
  ASSUME IInv, NEW p \in Requests, stamp_rule(p)
  PROVE  IInv' /\ StaysClosed
<1> DEFINE r == req[p]
<1>1. r.pc = "stamp_rule" /\ HasRead(r, observations) /\ AnswerOK(r)
  BY WhereItIs DEF stamp_rule
<1>2. CASE Refused(p)
  BY <1>2, RefusedMoves
<1>3. CASE attach_import_answer_rule(r.s, Stamped(p), r.rule) /\ Returns(p) /\ UNCHANGED journal
  <2>1. r.s \in Sessions /\ r.rule \in RuleIds
    BY <1>1 DEF HasRead, AnswerOK
  <2>2. Stamped(p) \in SUBSET RowsOf(r.s)
    BY <1>1, ReadRowsAreRows DEF AnswerOK, Reads, Stamped
  <2>3. StoreStep
    BY <1>3, <2>1, <2>2, StampStep DEF IInv
  <2> QED BY <1>3, <2>3, ReturnsMoves
<1> QED BY <1>2, <1>3 DEF stamp_rule

\* The answer is withdrawn and the call returns.
LEMMA WithdrawMoves ==
  ASSUME IInv, NEW p \in Requests, withdraw_decide(p) \/ withdraw(p)
  PROVE  IInv' /\ StaysClosed
<1> DEFINE r == req[p]
           R == [r EXCEPT !.pc = "withdraw"]
<1>1. CASE Refused(p)
  BY <1>1, RefusedMoves
<1>2. CASE withdraw_decide(p) /\ Becomes(p, R) /\ UNCHANGED <<store, journal>>
  <2>1. HasRead(r, observations) /\ WithdrawOK(r)
    BY <1>2, WhereItIs DEF withdraw_decide, Reads, AnswerOK, CommitOK
  <2>2. /\ R.s = r.s /\ R.op = r.op /\ R.rows = r.rows /\ R.pc = "withdraw" /\ R.row = r.row
        /\ DOMAIN R = Registers
        /\ R.figures = r.figures
    BY <2>1 DEF HasRead, Registers
  <2> HIDE DEF R
  <2>3. StoreStep /\ observations' = observations
    BY <1>2, StoreUnchanged DEF IInv, store
  <2>4. HasRead(R, observations') /\ WithdrawOK(R)
    BY <2>1, <2>2, <2>3 DEF HasRead, WithdrawOK
  <2>5. RequestOK(R, origins', observations', journal)
    BY <2>4 DEF RequestOK
  <2> QED BY <1>2, <2>3, <2>5, BecomesMoves
<1>3. CASE withdraw(p) /\ withdraw_import_answer(r.s, r.row) /\ Returns(p) /\ UNCHANGED journal
  <2>1. r.s \in Sessions /\ r.row \in RowNumbers
    BY <1>3, WhereItIs DEF withdraw, HasRead, WithdrawOK
  <2>2. StoreStep
    BY <1>3, <2>1, WithdrawnStep DEF IInv
  <2> QED BY <1>3, <2>2, ReturnsMoves
<1> QED BY <1>1, <1>2, <1>3 DEF withdraw_decide, withdraw, GoesTo

-----------------------------------------------------------------------------
(* Committing.                                                             *)

\* A session writes under a source.
LEMMA OriginIsSource ==
  ASSUME IInv, NEW s \in Sessions
  PROVE  session_origin(s) \in Sources /\ origins[s] = session_origin(s)
<1>1. session[s].decl \in Declarations \cup {NONE}
  BY DEF IInv, StoreInv, SessionsTyped, SessionRecord
<1> QED BY <1>1, SessionAssumption DEF session_origin, origins

\* The plan of a commit: one typed fact for each row it read as settled.
LEMMA CandidatesAreTyped ==
  ASSUME IInv, NEW p \in Requests, HasRead(req[p], observations)
  PROVE  LET r == req[p]
             c == Candidates(p)
         IN /\ DOMAIN c \subseteq DOMAIN r.rows
            /\ \A i \in DOMAIN c : PlannedOK(c[i], i, r, origins)
<1> DEFINE r == req[p]
           c == Candidates(p)
<1>1. /\ DOMAIN c \subseteq DOMAIN r.rows
      /\ \A i \in DOMAIN c :
           /\ Settled(r.rows[i], rules)
           /\ c[i] = [ kind |-> "fact", session |-> r.s, row |-> i,
                       source |-> session_origin(r.s), line |-> r.rows[i].intake.line,
                       key |-> r.rows[i].intake.key,
                       answer |-> resolution_of(r.rows[i], rules).answer,
                       rule |-> resolution_of(r.rows[i], rules).rule ]
  BY DEF Candidates
<1> HIDE DEF c
<1>2. ASSUME NEW i \in DOMAIN c PROVE PlannedOK(c[i], i, r, origins)
  <2> DEFINE v == resolution_of(r.rows[i], rules)
  <2>1. r.rows[i] \in Observation /\ i \in RowNumbers /\ r.s \in Sessions
    BY <1>1, ReadRowsAreRows DEF HasRead
  <2>2. /\ v.answer \in Answers \cup {NONE} /\ v.rule \in RuleIds \cup {NONE}
        /\ v.answer = NONE => r.rows[i].intake.form \in {"concluded", "malformed"}
    BY <1>1, <2>1, ResolutionIsTyped, StoreAssumption DEF IInv, StoreInv, RulesTyped
  <2> HIDE DEF v
  <2>3. r.rows[i].intake.key \in Keys \cup {NONE} /\ r.rows[i].intake.line \in Lines \cup {NONE}
    BY <2>1 DEF Observation, Intake
  <2>4. session_origin(r.s) \in Sources /\ origins[r.s] = session_origin(r.s)
    BY <2>1, OriginIsSource
  <2>5. c[i] = [ kind |-> "fact", session |-> r.s, row |-> i,
                 source |-> session_origin(r.s), line |-> r.rows[i].intake.line,
                 key |-> r.rows[i].intake.key, answer |-> v.answer, rule |-> v.rule ]
    BY <1>1 DEF v
  <2>6. c[i] \in Entries
    BY <2>1, <2>2, <2>3, <2>4, <2>5 DEF Entries
  <2> QED BY <2>2, <2>4, <2>5, <2>6 DEF PlannedOK
<1> QED BY <1>1, <1>2 DEF c

\* A commit moves on to R, which keeps what it has read.
LEMMA CommitMoves ==
  ASSUME IInv, UNCHANGED store, JournalInv(origins, observations, journal'), Grows(journal, journal'),
         NEW p \in Requests, HasRead(req[p], observations), NEW R, Becomes(p, R),
         DOMAIN R = Registers, R.s = req[p].s, R.rows = req[p].rows, R.figures = req[p].figures,
         CommitOK(R, origins, observations, journal')
  PROVE  IInv' /\ StaysClosed
<1>1. StoreStep /\ observations' = observations /\ origins' = origins
  BY StoreUnchanged DEF IInv, store
<1>2. HasRead(R, observations')
  BY <1>1 DEF HasRead
<1>3. RequestOK(R, origins', observations', journal')
  BY <1>1, <1>2 DEF RequestOK
<1>4. BatchesOK'
  BY DEF IInv, BatchesOK, Becomes
<1> QED BY <1>1, <1>3, <1>4, RequestMoves DEF Becomes

\* A commit plans a fact for each settled row it read.
LEMMA CommitDecideMoves ==
  ASSUME IInv, NEW p \in Requests, commit_decide(p)
  PROVE  IInv' /\ StaysClosed
<1> DEFINE r == req[p]
           c == Candidates(p)
           R == [r EXCEPT !.pc = "submit", !.plan = c, !.declined = DOMAIN r.rows \ DOMAIN c]
<1>1. CASE Refused(p)
  BY <1>1, RefusedMoves
<1>2. CASE Becomes(p, R) /\ UNCHANGED <<store, journal>>
  <2>1. HasRead(r, observations) /\ CommitOK(r, origins, observations, journal) /\ r.next = 1
    BY WhereItIs DEF commit_decide, Reads, AnswerOK, WithdrawOK, CommitOK
  <2>2. /\ DOMAIN c \subseteq DOMAIN r.rows
        /\ \A i \in DOMAIN c : PlannedOK(c[i], i, r, origins)
    BY <2>1, CandidatesAreTyped
  <2> HIDE DEF c
  <2>3. /\ R.s = r.s /\ R.op = r.op /\ R.rows = r.rows /\ R.pc = "submit" /\ R.plan = c
        /\ R.declined = DOMAIN r.rows \ DOMAIN c /\ R.next = 1 /\ DOMAIN R = Registers
        /\ R.figures = r.figures
    BY <2>1 DEF HasRead, Registers
  <2> HIDE DEF R
  <2>4. PlanOK(R, origins)
    BY <2>2, <2>3 DEF PlanOK, PlannedOK
  <2>5. \A i \in DOMAIN R.plan : ~(i < R.next)
    BY <2>1, <2>2, <2>3, ReadRowsAreRows
  <2>6. CommitOK(R, origins, observations, journal')
    BY <2>1, <2>3, <2>4, <2>5 DEF CommitOK, Reads
  <2>7. JournalInv(origins, observations, journal') /\ Grows(journal, journal')
    BY <1>2 DEF IInv, Grows
  <2> QED BY <1>2, <2>1, <2>3, <2>6, <2>7, CommitMoves
<1> QED BY <1>1, <1>2 DEF commit_decide

\* A fact of the plan is appended unless the journal holds one of its identities.
LEMMA FactAppended ==
  ASSUME IInv, NEW f \in Entries, f.kind = "fact", FactOK(f, observations), ~find_duplicate(f),
         journal' = Append(journal, f)
  PROVE  /\ JournalInv(origins, observations, journal') /\ Grows(journal, journal')
         /\ Disposed(f.session, f.row, origins, observations, journal')
<1> DEFINE N == Len(journal) + 1
<1>1. journal \in Seq(Entries) /\ Len(journal) \in Nat /\ DOMAIN journal = 1..Len(journal)
  BY LenProperties DEF IInv, JournalInv
<1>2. /\ journal' \in Seq(Entries) /\ Len(journal') = N /\ journal'[N] = f
      /\ \A n \in 1..Len(journal) : journal'[n] = journal[n]
  BY <1>1, AppendProperties
<1>3. DOMAIN journal' = 1..N
  BY <1>2, LenProperties
<1>4. /\ DOMAIN journal' = DOMAIN journal \cup {N} /\ N \notin DOMAIN journal
      /\ \A n \in DOMAIN journal : journal'[n] = journal[n]
  BY <1>1, <1>2, <1>3
<1> HIDE DEF N
<1>5. Grows(journal, journal') /\ FactsOf(journal') = FactsOf(journal) \cup {N}
  BY <1>2, <1>4 DEF Grows, FactsOf
<1>6. Disposed(f.session, f.row, origins, observations, journal')
  BY <1>2, <1>4 DEF Disposed
<1>7. \A n \in FactsOf(journal') : FactOK(journal'[n], observations)
  <2>1. \A n \in FactsOf(journal) : FactOK(journal[n], observations) /\ n \in DOMAIN journal
    BY DEF IInv, JournalInv, FactsOf
  <2> QED BY <1>2, <1>4, <1>5, <2>1
<1>8. \A n \in FactsOf(journal) : ~SameIdentity(journal[n], f) /\ ~SameIdentity(f, journal[n])
  BY DEF find_duplicate, FactsOf, SameIdentity, SameLine
<1>9. WrittenOnce(journal')
  <2>1. \A n \in FactsOf(journal) : n \in DOMAIN journal
    BY DEF FactsOf
  <2>2. \A m, n \in FactsOf(journal) : SameIdentity(journal[m], journal[n]) => m = n
    BY DEF IInv, JournalInv, WrittenOnce
  <2>3. ASSUME NEW m \in FactsOf(journal'), NEW n \in FactsOf(journal'),
               SameIdentity(journal'[m], journal'[n])
        PROVE  m = n
    BY <1>2, <1>4, <1>5, <1>8, <2>1, <2>2, <2>3
  <2> QED BY <2>3 DEF WrittenOnce
<1>10. ASSUME NEW n \in DOMAIN journal' PROVE Asserted(journal'[n], origins, observations, journal')
  <2>1. SUFFICES ASSUME journal'[n].kind = "assertion", NEW i \in journal'[n].settled
                 PROVE  /\ i \in DOMAIN observations[journal'[n].session]
                        /\ Disposed(journal'[n].session, i, origins, observations, journal')
    BY DEF Asserted
  <2>2. n \in DOMAIN journal /\ journal'[n] = journal[n]
    BY <1>2, <1>4, <2>1
  <2>3. journal[n] \in Entries
    BY <1>1, <2>2, ElementOfSeq
  <2>4. journal[n].session \in Sessions
    BY <2>1, <2>2, <2>3 DEF Entries
  <2>5. /\ i \in DOMAIN observations[journal[n].session]
        /\ Disposed(journal[n].session, i, origins, observations, journal)
    BY <2>1, <2>2 DEF IInv, JournalInv, Asserted
  <2>6. RowsKept(origins, observations, origins, observations)
    BY DEF RowsKept
  <2> QED BY <1>5, <2>2, <2>4, <2>5, <2>6, DisposedIsKept
<1> QED BY <1>2, <1>5, <1>6, <1>7, <1>9, <1>10 DEF JournalInv

\* The next fact of the plan is written, found to be held, or refused.
LEMMA RecordCandidateMoves ==
  ASSUME IInv, NEW p \in Requests, record_candidate(p)
  PROVE  IInv' /\ StaysClosed
<1> DEFINE r == req[p]
           n == r.next
           R == [r EXCEPT !.next = n + 1]
<1>1. /\ r.pc = "submit" /\ HasRead(r, observations) /\ CommitOK(r, origins, observations, journal)
      /\ n \in DOMAIN r.rows /\ UNCHANGED store /\ Becomes(p, R)
  BY WhereItIs DEF record_candidate
<1>2. /\ PlanOK(r, origins) /\ n \in Nat \ {0}
      /\ \A i \in DOMAIN r.plan : i < n => Disposed(r.s, i, origins, observations, journal)
  BY <1>1 DEF CommitOK
<1>3. /\ DOMAIN r.rows \subseteq RowsOf(r.s) /\ DOMAIN r.plan \subseteq DOMAIN r.rows
      /\ DOMAIN r.rows = 1..Len(r.rows) /\ Len(r.rows) \in Nat
  BY <1>1, <1>2, ReadRowsAreRows DEF PlanOK
<1>4. /\ JournalInv(origins, observations, journal') /\ Grows(journal, journal')
      /\ n \in DOMAIN r.plan => Disposed(r.s, n, origins, observations, journal')
  <2> DEFINE f == r.plan[n]
  <2>1. n \in DOMAIN r.plan => PlannedOK(f, n, r, origins)
    BY <1>2 DEF PlanOK
  <2>2. r.rows[n].intake = observations[r.s][n].intake /\ n \in DOMAIN observations[r.s]
    BY <1>1 DEF HasRead
  <2>3. journal' = IF n \in DOMAIN r.plan /\ ~structural_rejection(p, n) /\ ~find_duplicate(f)
                   THEN Append(journal, f) ELSE journal
    BY DEF record_candidate
  <2> HIDE DEF f
  <2>4. CASE n \in DOMAIN r.plan /\ ~structural_rejection(p, n) /\ ~find_duplicate(f)
    <3>1. f \in Entries /\ f.kind = "fact" /\ f.session = r.s /\ f.row = n
      BY <2>1, <2>4 DEF PlannedOK
    <3>2. FactOK(f, observations)
      BY <2>1, <2>2, <2>4, <3>1 DEF PlannedOK, structural_rejection, FactOK
    <3> QED BY <2>3, <2>4, <3>1, <3>2, FactAppended
  <2>5. CASE ~(n \in DOMAIN r.plan /\ ~structural_rejection(p, n) /\ ~find_duplicate(f))
    <3>1. journal' = journal
      BY <2>3, <2>5
    <3>2. JournalInv(origins, observations, journal') /\ Grows(journal, journal')
      BY <3>1 DEF IInv, Grows
    <3>3. ASSUME n \in DOMAIN r.plan PROVE Disposed(r.s, n, origins, observations, journal)
      <4>1. CASE structural_rejection(p, n)
        BY <2>2, <4>1 DEF structural_rejection, Disposed
      <4>2. CASE find_duplicate(f)
        BY <2>1, <2>2, <3>3, <4>2 DEF PlannedOK, find_duplicate, SameLine, Disposed
      <4> QED BY <2>5, <3>3, <4>1, <4>2
    <3> QED BY <3>1, <3>2, <3>3
  <2> QED BY <2>4, <2>5
<1>5. /\ R.s = r.s /\ R.op = r.op /\ R.rows = r.rows /\ R.pc = "submit" /\ R.plan = r.plan
      /\ R.declined = r.declined /\ R.next = n + 1 /\ DOMAIN R = Registers
      /\ R.figures = r.figures
  BY <1>1 DEF HasRead, Registers
<1> HIDE DEF R
<1>6. ASSUME NEW i \in DOMAIN r.plan, i < n + 1
      PROVE  Disposed(r.s, i, origins, observations, journal')
  <2>1. i \in Nat
    BY <1>3
  <2>2. CASE i = n
    BY <1>4, <2>2
  <2>3. CASE i < n
    <3>1. Disposed(r.s, i, origins, observations, journal)
      BY <1>2, <2>3
    <3>2. i \in DOMAIN observations[r.s] /\ r.s \in Sessions
      BY <1>1, <1>3 DEF HasRead
    <3>3. RowsKept(origins, observations, origins, observations)
      BY DEF RowsKept
    <3> QED BY <1>4, <3>1, <3>2, <3>3, DisposedIsKept
  <2> QED BY <1>2, <1>6, <2>1, <2>2, <2>3
<1>7. PlanOK(R, origins)
  BY <1>2, <1>5 DEF PlanOK, PlannedOK
<1>8. CommitOK(R, origins, observations, journal')
  BY <1>1, <1>2, <1>5, <1>6, <1>7 DEF CommitOK, Reads
<1> QED BY <1>1, <1>4, <1>5, <1>8, CommitMoves

\* What a commit states about its source, over rows that were dealt with.
Stands(e) ==
  /\ e \in Entries /\ e.kind \in {"assertion", "gap"}
  /\ Asserted(e, origins, observations, journal)

\* Assertions and gaps appended after the rows stand on them.
LEMMA ControlAppended ==
  ASSUME IInv, NEW new \in Seq(Entries), \A k \in 1..Len(new) : Stands(new[k]),
         journal' = journal \o new
  PROVE  JournalInv(origins, observations, journal') /\ Grows(journal, journal')
<1>1. journal \in Seq(Entries) /\ Len(journal) \in Nat /\ DOMAIN journal = 1..Len(journal)
  BY LenProperties DEF IInv, JournalInv
<1>2. Len(new) \in Nat
  BY LenProperties
<1>3. /\ journal' \in Seq(Entries) /\ Len(journal') = Len(journal) + Len(new)
      /\ \A n \in 1..(Len(journal) + Len(new)) :
           journal'[n] = IF n <= Len(journal) THEN journal[n] ELSE new[n - Len(journal)]
  BY <1>1, ConcatProperties
<1>4. DOMAIN journal' = 1..(Len(journal) + Len(new))
  BY <1>3, LenProperties
<1>5. \A n \in DOMAIN journal : n \in DOMAIN journal' /\ journal'[n] = journal[n]
  BY <1>1, <1>2, <1>3, <1>4
<1>6. \A n \in DOMAIN journal' \ DOMAIN journal : Stands(journal'[n])
  <2>1. TAKE n \in DOMAIN journal' \ DOMAIN journal
  <2>2. n - Len(journal) \in 1..Len(new) /\ journal'[n] = new[n - Len(journal)]
    BY <1>1, <1>2, <1>3, <1>4
  <2> QED BY <2>2
<1>7. Grows(journal, journal')
  BY <1>5 DEF Grows
<1>8. FactsOf(journal') = FactsOf(journal) /\ \A n \in FactsOf(journal) : journal'[n] = journal[n]
  BY <1>5, <1>6 DEF FactsOf, Stands
<1>9. (\A n \in FactsOf(journal') : FactOK(journal'[n], observations)) /\ WrittenOnce(journal')
  <2>1. \A n \in FactsOf(journal) : FactOK(journal[n], observations)
    BY DEF IInv, JournalInv
  <2>2. \A m, n \in FactsOf(journal) : SameIdentity(journal[m], journal[n]) => m = n
    BY DEF IInv, JournalInv, WrittenOnce
  <2>3. ASSUME NEW n \in FactsOf(journal') PROVE FactOK(journal'[n], observations)
    BY <1>8, <2>1
  <2>4. ASSUME NEW m \in FactsOf(journal'), NEW n \in FactsOf(journal'),
               SameIdentity(journal'[m], journal'[n])
        PROVE  m = n
    BY <1>8, <2>2, <2>4
  <2> QED BY <2>3, <2>4 DEF WrittenOnce
<1>10. ASSUME NEW n \in DOMAIN journal' PROVE Asserted(journal'[n], origins, observations, journal')
  <2>1. Asserted(journal'[n], origins, observations, journal)
    <3>1. CASE n \in DOMAIN journal
      BY <1>5, <3>1 DEF IInv, JournalInv
    <3>2. CASE n \notin DOMAIN journal
      BY <1>6, <3>2 DEF Stands
    <3> QED BY <3>1, <3>2
  <2>2. SUFFICES ASSUME journal'[n].kind = "assertion", NEW i \in journal'[n].settled
                 PROVE  /\ i \in DOMAIN observations[journal'[n].session]
                        /\ Disposed(journal'[n].session, i, origins, observations, journal')
    BY DEF Asserted
  <2>3. journal'[n] \in Entries
    BY <1>3, <1>4, ElementOfSeq
  <2>4. journal'[n].session \in Sessions
    BY <2>2, <2>3 DEF Entries
  <2>5. /\ i \in DOMAIN observations[journal'[n].session]
        /\ Disposed(journal'[n].session, i, origins, observations, journal)
    BY <2>1, <2>2 DEF Asserted
  <2>6. RowsKept(origins, observations, origins, observations)
    BY DEF RowsKept
  <2> QED BY <1>7, <2>4, <2>5, <2>6, DisposedIsKept
<1> QED BY <1>3, <1>7, <1>9, <1>10 DEF JournalInv

\* The declined rows make a bag of names.
LEMMA DeclinedNamesAreTyped ==
  ASSUME NEW p, NEW k \in Nat, req[p].declined \subseteq 1..k,
         \A i \in req[p].declined : req[p].rows[i].intake \in Intake
  PROVE  DeclinedNames(p) \in NameBags
<1> DEFINE D == req[p].declined
           name(i) == declined_row(req[p].rows[i].intake)
           N == {name(i) : i \in D}
           count(d) == Cardinality({i \in D : name(i) = d})
<1>1. N \in SUBSET Names
  BY DEF Names
<1>2. ASSUME NEW d \in N PROVE count(d) \in Nat
  <2>1. IsFiniteSet(1..k)
    BY FS_Interval
  <2>2. IsFiniteSet({i \in D : name(i) = d})
    <3>1. {i \in D : name(i) = d} \subseteq 1..k
      OBVIOUS
    <3> QED BY <2>1, <3>1, FS_Subset
  <2> QED BY <2>2, FS_CardinalityType
<1>3. DeclinedNames(p) = [d \in N |-> count(d)]
  BY DEF DeclinedNames
<1> HIDE DEF N, count
<1>4. DeclinedNames(p) \in [N -> Nat]
  BY <1>2, <1>3
<1> QED BY <1>1, <1>4 DEF NameBags

\* Once every row was answered the events of a commit stand, each of them.
LEMMA ControlEventsStand ==
  ASSUME IInv, NEW p \in Requests, req[p].pc = "submit", Submitted(p)
  PROVE  /\ control_events(p) \in Seq(Entries)
         /\ \A k \in 1..Len(control_events(p)) : Stands(control_events(p)[k])
<1> DEFINE r == req[p]
           a == control_assertion(p)
           g == coverage_gap(p)
<1>1. /\ HasRead(r, observations) /\ CommitOK(r, origins, observations, journal)
      /\ r.s \in Sessions /\ r.figures \in Sections \cup {NONE}
  BY WhereItIs DEF HasRead
<1>2. /\ PlanOK(r, origins) /\ r.next \in Nat \ {0}
      /\ \A i \in DOMAIN r.plan : i < r.next => Disposed(r.s, i, origins, observations, journal)
  BY <1>1 DEF CommitOK
<1>3. /\ DOMAIN r.rows \subseteq RowsOf(r.s) /\ RowsOf(r.s) \subseteq RowNumbers
      /\ DOMAIN r.rows = 1..Len(r.rows) /\ Len(r.rows) \in Nat
      /\ DOMAIN r.plan \subseteq DOMAIN r.rows /\ r.declined \subseteq DOMAIN r.rows
      /\ \A i \in DOMAIN r.rows : r.rows[i] \in Observation
  BY <1>1, <1>2, ReadRowsAreRows DEF PlanOK
<1>4. \A i \in DOMAIN r.plan :
        i \in RowsOf(r.s) /\ Disposed(r.s, i, origins, observations, journal)
  <2>1. r.next > Len(r.rows)
    BY <1>2, <1>3 DEF Submitted
  <2>2. \A i \in DOMAIN r.rows : i < r.next
    BY <1>2, <1>3, <2>1
  <2> QED BY <1>2, <1>3, <2>2
<1>5. session_origin(r.s) \in Sources
  BY <1>1, OriginIsSource
<1>6. DeclinedNames(p) \in NameBags
  <2>1. \A i \in r.declined : r.rows[i].intake \in Intake
    BY <1>3 DEF Observation
  <2> QED BY <1>3, <2>1, DeclinedNamesAreTyped
<1>7. ASSUME r.figures # NONE
      PROVE  a \in Entries /\ a.kind = "assertion" /\ a.session = r.s /\ a.settled = DOMAIN r.plan
  <2>1. r.figures \in Sections /\ DOMAIN r.plan \in SUBSET RowNumbers /\ DOMAIN r.rows \in SUBSET RowNumbers
    BY <1>1, <1>3, <1>7
  <2> QED BY <1>1, <1>5, <2>1 DEF control_assertion, Entries
<1>8. ASSUME r.figures # NONE PROVE g \in Entries /\ g.kind = "gap"
  <2>1. r.figures \in Sections
    BY <1>1, <1>8
  <2> QED BY <1>5, <1>6, <2>1 DEF coverage_gap, Entries
<1>9. r.figures # NONE => Stands(a) /\ Stands(g)
  <2> HIDE DEF a, g
  <2> QED BY <1>4, <1>7, <1>8 DEF Stands, Asserted, RowsOf
<1> DEFINE stated == r.figures # NONE
           U == Unheld(stated, a)
           V == Unheld(stated /\ r.declined # {}, g)
<1>10. control_events(p) = U \o V
  BY DEF control_events
<1>11. /\ U = <<>> \/ (U = <<a>> /\ r.figures # NONE)
       /\ V = <<>> \/ (V = <<g>> /\ r.figures # NONE)
  BY DEF Unheld
<1> HIDE DEF a, g, stated, U, V
<1>12. ASSUME NEW e, NEW w, w = <<>> \/ (w = <<e>> /\ r.figures # NONE), r.figures # NONE => Stands(e)
       PROVE  w \in Seq(Entries) /\ Len(w) \in Nat /\ \A k \in 1..Len(w) : Stands(w[k])
  <2>1. CASE w = <<>>
    BY <2>1
  <2>2. CASE w = <<e>> /\ r.figures # NONE
    <3>1. Stands(e) /\ e \in Entries
      BY <1>12, <2>2 DEF Stands
    <3>2. w \in Seq(Entries) /\ Len(w) = 1 /\ w[1] = e
      BY <2>2, <3>1
    <3>3. \A k \in 1..1 : k = 1
      OBVIOUS
    <3> QED BY <3>1, <3>2, <3>3
  <2> QED BY <1>12, <2>1, <2>2
<1>13. /\ U \in Seq(Entries) /\ V \in Seq(Entries) /\ Len(U) \in Nat /\ Len(V) \in Nat
       /\ \A k \in 1..Len(U) : Stands(U[k])
       /\ \A k \in 1..Len(V) : Stands(V[k])
  BY <1>9, <1>11, <1>12
<1>14. /\ U \o V \in Seq(Entries) /\ Len(U \o V) = Len(U) + Len(V)
       /\ \A k \in 1..(Len(U) + Len(V)) : (U \o V)[k] = IF k <= Len(U) THEN U[k] ELSE V[k - Len(U)]
  BY <1>13, ConcatProperties
<1>15. \A k \in 1..(Len(U) + Len(V)) : Stands((U \o V)[k])
  <2>1. TAKE k \in 1..(Len(U) + Len(V))
  <2>2. CASE k <= Len(U)
    <3>1. k \in 1..Len(U) /\ (U \o V)[k] = U[k]
      BY <1>13, <1>14, <2>2
    <3> QED BY <1>13, <3>1
  <2>3. CASE ~(k <= Len(U))
    <3>1. k - Len(U) \in 1..Len(V) /\ (U \o V)[k] = V[k - Len(U)]
      BY <1>13, <1>14, <2>3
    <3> QED BY <1>13, <3>1
  <2> QED BY <2>2, <2>3
<1> QED BY <1>10, <1>14, <1>15

\* The commit writes its assertions and gaps, or a first part of them.
LEMMA RecordAssertionsMoves ==
  ASSUME IInv, NEW p \in Requests, record_assertions(p)
  PROVE  IInv' /\ StaysClosed
<1> DEFINE r == req[p]
           new == control_events(p)
           R == [r EXCEPT !.pc = "close"]
<1>1. /\ r.pc = "submit" /\ HasRead(r, observations) /\ CommitOK(r, origins, observations, journal)
      /\ UNCHANGED store
  BY WhereItIs DEF record_assertions
<1>2. new \in Seq(Entries) /\ \A k \in 1..Len(new) : Stands(new[k])
  BY <1>1, ControlEventsStand DEF record_assertions
<1> HIDE DEF new
<1>3. CASE journal' = journal \o new /\ Becomes(p, R)
  <2>1. JournalInv(origins, observations, journal') /\ Grows(journal, journal')
    BY <1>2, <1>3, ControlAppended
  <2>2. /\ R.s = r.s /\ R.op = r.op /\ R.rows = r.rows /\ R.pc = "close" /\ DOMAIN R = Registers
        /\ R.figures = r.figures
    BY <1>1 DEF HasRead, Registers
  <2> HIDE DEF R
  <2>3. CommitOK(R, origins, observations, journal')
    BY <1>1, <2>2 DEF CommitOK, Reads
  <2> QED BY <1>1, <1>3, <2>1, <2>2, <2>3, CommitMoves
<1>4. ASSUME NEW n \in 1..(Len(new) - 1), journal' = journal \o SubSeq(new, 1, n), Returns(p)
      PROVE  IInv' /\ StaysClosed
  <2> DEFINE part == SubSeq(new, 1, n)
  <2>1. Len(new) \in Nat /\ n \in 1..Len(new)
    BY <1>2, LenProperties
  <2>2. \A i \in 1..n : new[i] \in Entries /\ i \in 1..Len(new)
    BY <1>2, <2>1, ElementOfSeq
  <2>3. part \in Seq(Entries) /\ Len(part) = n /\ \A i \in 1..n : part[i] = new[1 + i - 1]
    BY <2>1, <2>2, SubSeqProperties
  <2>4. \A i \in 1..Len(part) : part[i] = new[i] /\ i \in 1..Len(new)
    BY <2>1, <2>2, <2>3
  <2> HIDE DEF part
  <2>5. \A i \in 1..Len(part) : Stands(part[i])
    BY <1>2, <2>4
  <2>6. JournalInv(origins, observations, journal') /\ Grows(journal, journal')
    BY <1>4, <2>3, <2>5, ControlAppended DEF part
  <2>7. StoreStep /\ observations' = observations /\ origins' = origins
    BY <1>1, StoreUnchanged DEF IInv, store
  <2>8. BatchesOK' /\ req' = [req EXCEPT ![p] = Idle]
    BY <1>4 DEF Returns, Becomes, IInv, BatchesOK
  <2>9. RequestOK(Idle, origins', observations', journal')
    BY DEF RequestOK
  <2> QED BY <2>6, <2>7, <2>8, <2>9, RequestMoves
<1> QED BY <1>3, <1>4 DEF record_assertions, GoesTo, new

\* The session is closed and the commit returns.
LEMMA CloseCommittedMoves ==
  ASSUME IInv, NEW p \in Requests, close_committed(p)
  PROVE  IInv' /\ StaysClosed
<1>1. CASE Refused(p)
  BY <1>1, RefusedMoves
<1>2. CASE close_import_session(req[p].s, "committed") /\ Returns(p) /\ UNCHANGED journal
  <2>1. req[p].s \in Sessions
    BY WhereItIs DEF close_committed, HasRead
  <2>2. StoreStep
    BY <1>2, <2>1, CloseStep DEF IInv, States
  <2> QED BY <1>2, <2>2, ReturnsMoves
<1> QED BY <1>1, <1>2 DEF close_committed

-----------------------------------------------------------------------------
\* No session, row, question, rule or fact at first.
LEMMA InitIInv == Init => IInv
<1> SUFFICES ASSUME Init PROVE IInv
  OBVIOUS
<1>1. SessionsTyped
  BY DEF Init, StoreInit, SessionsTyped, SessionRecord, States
<1>2. RowsTyped
  BY StoreAssumption DEF Init, StoreInit, RowsTyped
<1>3. QuestionsTyped
  BY DEF Init, StoreInit, QuestionsTyped, Asked
<1>4. RulesTyped
  BY StoreAssumption DEF Init, StoreInit, RulesTyped
<1>5. RowsFollow
  BY DEF Init, StoreInit, RowsFollow, RowsOf
<1>6. JournalInv(origins, observations, journal)
  BY DEF Init, JournalInv, FactsOf, WrittenOnce
<1>7. BatchesOK
  <2>1. left \in [calls: [Operations -> Nat], batches: SUBSET (Seq(Intake) \ {<<>>}),
                  faults: BOOLEAN]
    BY SessionAssumption DEF Init
  <2> QED BY <2>1 DEF BatchesOK
<1>8. req = [p \in Requests |-> req[p]] /\ \A p \in Requests : RequestOK(req[p], origins, observations, journal)
  BY DEF Init, RequestOK
<1> QED BY <1>1, <1>2, <1>3, <1>4, <1>5, <1>6, <1>7, <1>8 DEF IInv, StoreInv

\* Every step keeps the invariant and leaves closed sessions alone.
LEMMA NextIInv == IInv /\ [Next]_vars => IInv' /\ StaysClosed
<1> SUFFICES ASSUME IInv, [Next]_vars PROVE IInv' /\ StaysClosed
  OBVIOUS
<1>1. ASSUME NEW p \in Requests, stop(p) PROVE IInv' /\ StaysClosed
  BY <1>1, RefusedMoves DEF stop
<1>2. CASE UNCHANGED vars
  <2>1. UNCHANGED store /\ UNCHANGED <<journal, req, left>> /\ observations' = observations
    BY <1>2 DEF vars, store
  <2>2. StoreStep /\ origins' = origins
    BY <2>1, StoreUnchanged DEF IInv
  <2> QED BY <2>1, <2>2 DEF IInv, StoreStep, BatchesOK
<1>3. CASE Next
  <2>1. PICK p \in Requests :
          \/ open_session(p) \/ open_session_insert(p)
          \/ add_rows(p) \/ add_row(p) \/ ask(p) \/ state_control_figures(p)
          \/ create_rule(p) \/ retire(p)
          \/ list_rows(p) \/ list_questions(p)
          \/ answer_question(p) \/ answer_decide(p) \/ answer_like(p)
          \/ mint(p) \/ name_rule(p) \/ stamp_rule(p)
          \/ withdraw_answer(p) \/ withdraw_decide(p) \/ withdraw(p)
          \/ commit_session(p) \/ commit_decide(p) \/ record_candidate(p)
          \/ record_assertions(p) \/ close_committed(p) \/ abandon_session(p)
          \/ stop(p)
    BY <1>3 DEF Next
  <2> QED BY <1>1, <2>1, OpenSessionStep, OpenInsertStep, AddRowsStep, AddRowMoves, AskMoves,
             OneCallMoves, ListRowsMoves, ListQuestionsMoves, ReadingMoves, AnswerDecideMoves,
             AnswerLikeMoves, MintMoves, NameRuleMoves, StampRuleMoves, WithdrawMoves,
             CommitDecideMoves, RecordCandidateMoves, RecordAssertionsMoves, CloseCommittedMoves
<1> QED BY <1>2, <1>3

-----------------------------------------------------------------------------
(* Whose answer a row has.  A question that names a rule shows the answer  *)
(* its row has because a withdrawal clears, of other rows, only those an   *)
(* answer reached, and the question of a row that was reached never names  *)
(* a rule: it was answered without one, only the request that answered a   *)
(* question of its own names a rule on it, and an answered question is not *)
(* answered again.                                                         *)

Responding == {"answer_like", "mint", "name_rule", "stamp_rule"}
\* A request that has answered its own question and may still name a rule on it.
Owning == {"mint", "name_rule"}
Owns(r, s, j) == r.pc \in Owning /\ r.s = s /\ r.row = j
\* A request with a rule of its own making.
Holding == {"name_rule", "stamp_rule"}

\* The question is answered for good: it names no rule, and nobody will name one.
Plain(s, j) ==
  /\ Answered(s, j) /\ questions[s][j].rule = NONE
  /\ \A q \in Requests : ~Owns(req[q], s, j)

NamedRowsAnswer ==
  \A s \in Sessions : \A j \in RowsOf(s) :
    Asked(s, j) /\ questions[s][j].rule # NONE => observations[s][j].answer = questions[s][j].answer

OwnersHold ==
  \A p \in Requests, s \in Sessions, j \in RowNumbers : Owns(req[p], s, j) =>
    /\ Answered(s, j) /\ questions[s][j].rule = NONE
    /\ observations[s][j].answer = questions[s][j].answer
    /\ \A q \in Requests : Owns(req[q], s, j) => q = p

TargetsArePlain ==
  \A p \in Requests : req[p].pc \in Responding =>
    /\ req[p].row \notin req[p].targets
    /\ req[p].pc # "answer_like" => req[p].todo = {}
    /\ \A j \in req[p].targets \ req[p].todo : Plain(req[p].s, j)

StampsArePlain ==
  \A s \in Sessions : \A j \in RowsOf(s) : \A k \in RowNumbers \ {j} :
    Asked(s, k) /\ observations[s][j].rule # NONE /\ questions[s][k].rule = observations[s][j].rule
      => Plain(s, j)

RulesAreGiven ==
  \A s \in Sessions :
    /\ \A j \in RowsOf(s) : observations[s][j].rule # NONE => observations[s][j].rule <= Len(rules)
    /\ \A k \in RowNumbers :
         Asked(s, k) /\ questions[s][k].rule # NONE => questions[s][k].rule <= Len(rules)

\* The rule a request made is its own: no row has it yet, and at most its question.
RulesAreOwn ==
  \A p \in Requests : req[p].pc \in Holding =>
    /\ req[p].rule <= Len(rules)
    /\ \A q \in Requests : req[q].pc \in Holding /\ req[q].rule = req[p].rule => q = p
    /\ \A s \in Sessions : \A j \in RowsOf(s) : observations[s][j].rule # req[p].rule
    /\ \A s \in Sessions, k \in RowNumbers :
         Asked(s, k) /\ questions[s][k].rule = req[p].rule =>
           req[p].pc = "stamp_rule" /\ s = req[p].s /\ k = req[p].row

OwnInv ==
  /\ NamedRowsAnswer /\ OwnersHold /\ TargetsArePlain /\ StampsArePlain
  /\ RulesAreGiven /\ RulesAreOwn

\* A question answered for good stays so while it is left alone.
LEMMA PlainIsKept ==
  ASSUME NEW s, NEW j, Plain(s, j), questions'[s][j] = questions[s][j],
         \A q \in Requests : Owns(req'[q], s, j) => Owns(req[q], s, j)
  PROVE  Plain(s, j)'
BY DEF Plain, Answered, Asked

\* What the types say of rows, of rules and of a request that answers.
LEMMA Typed ==
  ASSUME IInv
  PROVE  /\ \A s \in Sessions : RowsOf(s) \subseteq RowNumbers
         /\ Len(rules) \in Nat /\ NONE \notin Answers /\ RuleIds \subseteq Nat
         /\ \A s \in Sessions : \A j \in RowsOf(s) : observations[s][j].rule \in RuleIds \cup {NONE}
         /\ \A s \in Sessions, k \in RowNumbers :
              Asked(s, k) => k \in RowsOf(s) /\ questions[s][k].rule \in RuleIds \cup {NONE}
         /\ \A p \in Requests : req[p].pc \in Responding =>
              /\ req[p].s \in Sessions /\ req[p].row \in RowsOf(req[p].s)
              /\ req[p].targets \subseteq RowsOf(req[p].s) /\ req[p].todo \subseteq RowsOf(req[p].s)
         /\ \A p \in Requests : req[p].pc \in Holding => req[p].rule \in RuleIds
<1>1. \A s \in Sessions : RowsOf(s) \subseteq RowNumbers
  <2>1. \A s \in Sessions : observations[s] \in Seq(Observation) /\ Len(observations[s]) <= MaxRows
    BY DEF IInv, StoreInv, RowsTyped
  <2>2. \A s \in Sessions : RowsOf(s) = 1..Len(observations[s]) /\ Len(observations[s]) \in Nat
    BY <2>1, LenProperties DEF RowsOf
  <2>3. MaxRows \in Nat
    BY StoreAssumption
  <2>4. ASSUME NEW s \in Sessions, NEW j \in RowsOf(s) PROVE j \in RowNumbers
    BY <2>1, <2>2, <2>3 DEF RowNumbers
  <2> QED BY <2>4
<1>2. Len(rules) \in Nat /\ NONE \notin Answers /\ RuleIds \subseteq Nat
  BY LenProperties, StoreAssumption DEF IInv, StoreInv, RulesTyped, RuleIds
<1>3. \A s \in Sessions : \A j \in RowsOf(s) : observations[s][j].rule \in RuleIds \cup {NONE}
  <2>1. \A s \in Sessions : \A j \in RowsOf(s) : observations[s][j] \in Observation
    BY LenProperties, ElementOfSeq DEF IInv, StoreInv, RowsTyped, RowsOf
  <2> QED BY <2>1 DEF Observation
<1>4. \A s \in Sessions, k \in RowNumbers :
        Asked(s, k) => k \in RowsOf(s) /\ questions[s][k].rule \in RuleIds \cup {NONE}
  BY DEF IInv, StoreInv, QuestionsTyped, Asked, Question
<1>5. ASSUME NEW p \in Requests, req[p].pc \in Responding
      PROVE  /\ req[p].s \in Sessions /\ req[p].row \in RowsOf(req[p].s)
             /\ req[p].targets \subseteq RowsOf(req[p].s) /\ req[p].todo \subseteq RowsOf(req[p].s)
             /\ req[p].pc \in Holding => req[p].rule \in RuleIds
  <2>1. HasRead(req[p], observations) /\ AnswerOK(req[p])
    BY <1>5, WhereItIs DEF Responding
  <2> QED BY <1>5, <2>1, ReadRowsAreRows DEF HasRead, AnswerOK, Reads, Responding, Holding
<1> QED BY <1>1, <1>2, <1>3, <1>4, <1>5 DEF Holding, Responding

\* A step that answers, names, stamps and withdraws nothing keeps the invariant.
LEMMA CalmKeeps ==
  ASSUME IInv, OwnInv, IInv', Calm, NEW p \in Requests, NEW R, req' = [req EXCEPT ![p] = R],
         R.pc \in Responding =>
           R.pc = "answer_like" /\ R.row \notin R.targets /\ R.todo = R.targets
  PROVE  OwnInv'
<1>1. req'[p] = R /\ \A q \in Requests \ {p} : req'[q] = req[q]
  BY DEF IInv
<1>2. \A q \in Requests : req'[q].pc \in Owning \cup Holding => q # p /\ req'[q] = req[q]
  BY <1>1 DEF Owning, Holding, Responding
<1>3. \A q \in Requests, s \in Sessions, j \in RowNumbers :
        Owns(req'[q], s, j) => q # p /\ req'[q] = req[q] /\ Owns(req[q], s, j)
  BY <1>2 DEF Owns
<1>4. \A s \in Sessions, j \in RowNumbers : Asked(s, j) => questions'[s][j] = questions[s][j]
  BY DEF Calm
<1>5. ASSUME NEW s \in Sessions, NEW j \in RowNumbers, Plain(s, j) PROVE Plain(s, j)'
  BY <1>3, <1>4, <1>5, PlainIsKept DEF Plain, Answered
<1>6. \A s \in Sessions : RowsOf(s)' \subseteq RowNumbers
  <2>1. \A s \in Sessions : observations'[s] \in Seq(Observation) /\ Len(observations'[s]) <= MaxRows
    BY DEF IInv, StoreInv, RowsTyped
  <2> QED BY <2>1, LenProperties, StoreAssumption DEF RowsOf, RowNumbers
<1>7. NamedRowsAnswer'
  BY <1>6 DEF OwnInv, NamedRowsAnswer, Calm, Asked
<1>8. OwnersHold'
  <2>1. SUFFICES ASSUME NEW q \in Requests, NEW s \in Sessions, NEW j \in RowNumbers,
                        Owns(req'[q], s, j)
                 PROVE  /\ Answered(s, j)' /\ questions'[s][j].rule = NONE
                        /\ observations'[s][j].answer = questions'[s][j].answer
                        /\ \A u \in Requests : Owns(req'[u], s, j) => u = q
    BY DEF OwnersHold
  <2>2. Owns(req[q], s, j)
    BY <1>3, <2>1
  <2>3. /\ Answered(s, j) /\ questions[s][j].rule = NONE
        /\ observations[s][j].answer = questions[s][j].answer
        /\ \A u \in Requests : Owns(req[u], s, j) => u = q
    BY <2>2 DEF OwnInv, OwnersHold
  <2>4. j \in RowsOf(s) /\ questions'[s][j] = questions[s][j]
    BY <1>4, <2>3, Typed DEF Answered
  <2>5. observations'[s][j] = observations[s][j]
    BY <2>3, <2>4 DEF Calm, Answered, Asked
  <2> QED BY <1>3, <2>3, <2>4, <2>5 DEF Answered, Asked
<1>9. TargetsArePlain'
  <2>1. SUFFICES ASSUME NEW q \in Requests, req'[q].pc \in Responding
                 PROVE  /\ req'[q].row \notin req'[q].targets
                        /\ req'[q].pc # "answer_like" => req'[q].todo = {}
                        /\ (\A j \in req[q].targets \ req[q].todo : Plain(req[q].s, j))'
    BY DEF TargetsArePlain
  <2>2. CASE q = p
    BY <1>1, <2>1, <2>2
  <2>3. CASE q # p
    BY <1>1, <1>5, <2>1, <2>3, Typed DEF OwnInv, TargetsArePlain
  <2> QED BY <2>2, <2>3
<1>10. StampsArePlain'
  <2>1. SUFFICES ASSUME NEW s \in Sessions, NEW j \in RowsOf(s)', NEW k \in RowNumbers \ {j},
                        Asked(s, k)', observations'[s][j].rule # NONE,
                        questions'[s][k].rule = observations'[s][j].rule
                 PROVE  Plain(s, j)'
    BY DEF StampsArePlain
  <2>2. j \in RowsOf(s) /\ observations'[s][j] = observations[s][j]
    BY <2>1 DEF Calm
  <2>3. Asked(s, k) /\ questions'[s][k] = questions[s][k]
    BY <2>1 DEF Calm, Asked
  <2> QED BY <1>5, <2>1, <2>2, <2>3, Typed DEF OwnInv, StampsArePlain
<1>11. Len(rules) \in Nat /\ Len(rules') \in Nat /\ Len(rules) <= Len(rules')
  BY LenProperties DEF Calm, IInv, StoreInv, RulesTyped
<1>12. RulesAreGiven'
  <2>1. ASSUME NEW s \in Sessions, NEW j \in RowsOf(s)', observations'[s][j].rule # NONE
        PROVE  observations'[s][j].rule <= Len(rules')
    <3>1. j \in RowsOf(s) /\ observations'[s][j] = observations[s][j]
      BY <2>1 DEF Calm
    <3>2. observations[s][j].rule <= Len(rules) /\ observations[s][j].rule \in Nat
      BY <2>1, <3>1, Typed DEF OwnInv, RulesAreGiven
    <3> QED BY <1>11, <3>1, <3>2
  <2>2. ASSUME NEW s \in Sessions, NEW k \in RowNumbers, Asked(s, k)', questions'[s][k].rule # NONE
        PROVE  questions'[s][k].rule <= Len(rules')
    <3>1. Asked(s, k) /\ questions'[s][k] = questions[s][k]
      BY <2>2 DEF Calm, Asked
    <3>2. questions[s][k].rule <= Len(rules) /\ questions[s][k].rule \in Nat
      BY <2>2, <3>1, Typed DEF OwnInv, RulesAreGiven
    <3> QED BY <1>11, <3>1, <3>2
  <2> QED BY <2>1, <2>2 DEF RulesAreGiven
<1>13. RulesAreOwn'
  <2>1. SUFFICES ASSUME NEW q \in Requests, req'[q].pc \in Holding
                 PROVE  /\ req'[q].rule <= Len(rules')
                        /\ \A u \in Requests :
                             req'[u].pc \in Holding /\ req'[u].rule = req'[q].rule => u = q
                        /\ \A s \in Sessions : \A j \in RowsOf(s)' :
                             observations'[s][j].rule # req'[q].rule
                        /\ \A s \in Sessions, k \in RowNumbers :
                             Asked(s, k)' /\ questions'[s][k].rule = req'[q].rule =>
                               req'[q].pc = "stamp_rule" /\ s = req'[q].s /\ k = req'[q].row
    BY DEF RulesAreOwn
  <2>2. q # p /\ req'[q] = req[q] /\ req[q].pc \in Holding
    BY <1>2, <2>1
  <2>3. /\ req[q].rule <= Len(rules) /\ req[q].rule \in Nat /\ req[q].rule # NONE
        /\ \A u \in Requests : req[u].pc \in Holding /\ req[u].rule = req[q].rule => u = q
        /\ \A s \in Sessions : \A j \in RowsOf(s) : observations[s][j].rule # req[q].rule
        /\ \A s \in Sessions, k \in RowNumbers :
             Asked(s, k) /\ questions[s][k].rule = req[q].rule =>
               req[q].pc = "stamp_rule" /\ s = req[q].s /\ k = req[q].row
    BY <2>2, Typed, StoreAssumption DEF OwnInv, RuleIds, RulesAreOwn
  <2>4. req'[q].rule <= Len(rules')
    BY <1>11, <2>2, <2>3
  <2>5. \A u \in Requests : req'[u].pc \in Holding /\ req'[u].rule = req'[q].rule => u = q
    BY <1>2, <2>2, <2>3
  <2>6. \A s \in Sessions : \A j \in RowsOf(s)' : observations'[s][j].rule # req'[q].rule
    BY <2>2, <2>3 DEF Calm
  <2>7. \A s \in Sessions, k \in RowNumbers :
          Asked(s, k)' /\ questions'[s][k].rule = req'[q].rule =>
            req'[q].pc = "stamp_rule" /\ s = req'[q].s /\ k = req'[q].row
    BY <2>2, <2>3 DEF Calm, Asked
  <2> QED BY <2>4, <2>5, <2>6, <2>7
<1> QED BY <1>7, <1>8, <1>9, <1>10, <1>12, <1>13 DEF OwnInv

\* A refused request is idle, and nothing was written.
LEMMA RefusedKeeps ==
  ASSUME IInv, OwnInv, IInv', NEW p \in Requests, Refused(p)
  PROVE  OwnInv'
<1>1. Calm
  BY NothingIsCalm DEF Refused, store, IInv
<1>2. req' = [req EXCEPT ![p] = Idle] /\ Idle.pc \notin Responding
  BY DEF Refused, Returns, Becomes, Idle, Responding
<1> QED BY <1>1, <1>2, CalmKeeps

\* An answer to a row leaves every other row's answer, and its owner, as they were.
LEMMA AnswerLikeKeeps ==
  ASSUME IInv, OwnInv, IInv', NEW p \in Requests, answer_like(p)
  PROVE  OwnInv'
<1> DEFINE r == req[p]
<1>0. PICK s, f : /\ s = r.s
                  /\ f = IF r.todo = {} THEN r.row
                         ELSE CHOOSE i \in r.todo : \A j \in r.todo : i <= j
  OBVIOUS
<1> DEFINE R == [r EXCEPT !.todo = r.todo \ {f}]
           M == [r EXCEPT !.pc = "mint"]
<1>1. r.pc = "answer_like" /\ HasRead(r, observations) /\ AnswerOK(r)
  BY WhereItIs DEF answer_like
<1>2. CASE Refused(p)
  BY <1>2, RefusedKeeps
<1>3. CASE /\ answer_import_question(s, f, r.answer)
           /\ IF r.todo # {} THEN Becomes(p, R)
              ELSE IF r.mints THEN Becomes(p, M) ELSE Becomes(p, Idle)
  <2>1. s \in Sessions /\ r.row \in RowsOf(s) /\ r.targets \subseteq RowsOf(s) /\ r.todo \subseteq RowsOf(s)
    BY <1>0, <1>1, Typed DEF Responding
  <2>2. f \in RowNumbers /\ r.answer \in Answers /\ (r.todo = {} => f = r.row)
    <3>1. r.todo \subseteq RowNumbers /\ r.row \in RowNumbers /\ r.answer \in Answers
      BY <1>1, <2>1, Typed DEF AnswerOK
    <3>2. CASE r.todo # {}
      <4>1. r.todo \in SUBSET Nat
        BY <3>1, StoreAssumption DEF RowNumbers
      <4>2. \E i \in r.todo : \A j \in r.todo : i <= j
        BY <3>2, <4>1, Smallest
      <4>3. f \in r.todo
        BY <1>0, <3>2, <4>2
      <4> QED BY <3>1, <3>2, <4>3
    <3> QED BY <1>0, <3>1, <3>2
  <2>3. /\ R.pc = "answer_like" /\ R.s = s /\ R.row = r.row /\ R.targets = r.targets
        /\ R.todo = r.todo \ {f}
        /\ M.pc = "mint" /\ M.s = s /\ M.row = r.row /\ M.targets = r.targets /\ M.todo = r.todo
    BY <1>0, <1>1 DEF HasRead, Registers
  <2> HIDE DEF R, M
  <2>4. AnswerEffect(s, f, r.answer) /\ rules' = rules
    BY <1>3, <2>1, <2>2, AnswerStep DEF IInv, answer_import_question
  <2>5. /\ Asked(s, f) /\ ~Answered(s, f) /\ questions[s][f].rule = NONE /\ f \in RowsOf(s)
        /\ \A q \in Requests : ~Owns(req[q], s, f)
    <3>1. Asked(s, f) /\ ~Answered(s, f) /\ f \in RowsOf(s)
      BY <2>1, <2>2, <2>4, Typed DEF AnswerEffect
    <3>2. questions[s][f].rule = NONE
      BY <2>1, <3>1 DEF IInv, StoreInv, RowsFollow
    <3> QED BY <2>1, <2>2, <3>1, <3>2 DEF OwnInv, OwnersHold
  <2>6. /\ Answered(s, f)' /\ questions'[s][f].answer = r.answer /\ questions'[s][f].rule = NONE
        /\ \A t \in Sessions, j \in RowNumbers :
             <<t, j>> # <<s, f>> => questions'[t][j] = questions[t][j]
        /\ \A t \in Sessions : RowsOf(t)' = RowsOf(t) /\ RowsOf(t) \subseteq RowNumbers
        /\ \A t \in Sessions : \A j \in RowsOf(t) :
             /\ observations'[t][j].rule = observations[t][j].rule
             /\ observations'[t][j].answer =
                  IF t = s /\ j = f THEN r.answer ELSE observations[t][j].answer
    BY <2>2, <2>4, <2>5, Typed DEF AnswerEffect, QuestionSet, RowsStay, Answered, Asked
  <2>7. /\ \A q \in Requests \ {p} : req'[q] = req[q]
        /\ req'[p] \in {R, M, Idle}
        /\ req'[p] = R => r.todo # {}
        /\ req'[p] = M => r.todo = {} /\ f = r.row
    <3>1. CASE r.todo # {}
      BY <1>3, <2>3, <3>1 DEF IInv, Becomes
    <3>2. CASE r.todo = {}
      BY <1>3, <2>2, <2>3, <3>2 DEF IInv, Becomes, Idle
    <3> QED BY <3>1, <3>2
  <2>8. \A q \in Requests, t \in Sessions, j \in RowNumbers : Owns(req'[q], t, j) =>
          \/ q # p /\ Owns(req[q], t, j) /\ ~(t = s /\ j = f)
          \/ q = p /\ t = s /\ j = f /\ req'[p] = M
    BY <2>3, <2>5, <2>7 DEF Owns, Owning, Idle
  <2>9. ASSUME NEW t \in Sessions, NEW j \in RowNumbers, Plain(t, j)
        PROVE  Plain(t, j)' /\ ~(t = s /\ j = f)
    <3>1. ~(t = s /\ j = f)
      BY <2>5, <2>9 DEF Plain
    <3>2. questions'[t][j] = questions[t][j]
      BY <2>6, <3>1
    <3> QED BY <2>8, <2>9, <3>1, <3>2, PlainIsKept
  <2>10. NamedRowsAnswer'
    BY <2>6 DEF OwnInv, NamedRowsAnswer, Asked
  <2>11. OwnersHold'
    <3>1. SUFFICES ASSUME NEW q \in Requests, NEW t \in Sessions, NEW j \in RowNumbers,
                          Owns(req'[q], t, j)
                   PROVE  /\ Answered(t, j)' /\ questions'[t][j].rule = NONE
                          /\ observations'[t][j].answer = questions'[t][j].answer
                          /\ \A u \in Requests : Owns(req'[u], t, j) => u = q
      BY DEF OwnersHold
    <3>2. CASE t = s /\ j = f
      BY <2>1, <2>5, <2>6, <2>8, <3>1, <3>2
    <3>3. CASE ~(t = s /\ j = f)
      <4>1. /\ Owns(req[q], t, j) /\ Answered(t, j) /\ questions[t][j].rule = NONE
            /\ observations[t][j].answer = questions[t][j].answer
            /\ \A u \in Requests : Owns(req[u], t, j) => u = q
        BY <2>8, <3>1, <3>3 DEF OwnInv, OwnersHold
      <4>2. j \in RowsOf(t) /\ questions'[t][j] = questions[t][j]
        BY <2>6, <3>3, <4>1, Typed DEF Answered
      <4> QED BY <2>6, <2>8, <3>3, <4>1, <4>2 DEF Answered, Asked
    <3> QED BY <3>2, <3>3
  <2>12. TargetsArePlain'
    <3>1. SUFFICES ASSUME NEW q \in Requests, req'[q].pc \in Responding
                   PROVE  /\ req'[q].row \notin req'[q].targets
                          /\ req'[q].pc # "answer_like" => req'[q].todo = {}
                          /\ (\A j \in req[q].targets \ req[q].todo : Plain(req[q].s, j))'
      BY DEF TargetsArePlain
    <3>2. CASE q # p
      BY <2>7, <2>9, <3>1, <3>2, Typed DEF OwnInv, TargetsArePlain
    <3>3. CASE q = p
      <4>1. r.row \notin r.targets /\ \A j \in r.targets \ r.todo : Plain(s, j)' /\ ~(j = f)
        BY <1>0, <1>1, <2>1, <2>6, <2>9 DEF OwnInv, TargetsArePlain, Responding
      <4>2. CASE req'[p] = M
        BY <2>3, <2>7, <3>3, <4>1, <4>2
      <4>3. CASE req'[p] = R
        <5>1. Plain(s, f)'
          <6>1. \A u \in Requests : ~Owns(req'[u], s, f)
            BY <2>1, <2>2, <2>3, <2>8, <4>3
          <6> QED BY <2>6, <6>1 DEF Plain
        <5> QED BY <2>3, <3>3, <4>1, <4>3, <5>1
      <4> QED BY <2>7, <3>1, <3>3, <4>2, <4>3 DEF Idle, Responding
    <3> QED BY <3>2, <3>3
  <2>13. \A t \in Sessions, k \in RowNumbers :
           Asked(t, k)' => Asked(t, k) /\ questions'[t][k].rule = questions[t][k].rule
    BY <2>5, <2>6 DEF Asked
  <2>14. StampsArePlain'
    <3>1. SUFFICES ASSUME NEW t \in Sessions, NEW j \in RowsOf(t)', NEW k \in RowNumbers \ {j},
                          Asked(t, k)', observations'[t][j].rule # NONE,
                          questions'[t][k].rule = observations'[t][j].rule
                   PROVE  Plain(t, j)'
      BY DEF StampsArePlain
    <3> QED BY <2>6, <2>9, <2>13, <3>1 DEF OwnInv, StampsArePlain
  <2>15. RulesAreGiven'
    BY <2>4, <2>6, <2>13 DEF OwnInv, RulesAreGiven
  <2>16. \A q \in Requests : req'[q].pc \in Holding => q # p /\ req'[q] = req[q]
    BY <2>3, <2>7 DEF Holding, Idle
  <2>17. RulesAreOwn'
    BY <2>4, <2>6, <2>13, <2>16 DEF OwnInv, RulesAreOwn
  <2> QED BY <2>10, <2>11, <2>12, <2>14, <2>15, <2>17 DEF OwnInv
<1> QED BY <1>0, <1>2, <1>3 DEF answer_like, GoesTo, Returns

\* A rule that is made is new to every row and question.
LEMMA MintKeeps ==
  ASSUME IInv, OwnInv, IInv', NEW p \in Requests, mint(p)
  PROVE  OwnInv'
<1> DEFINE r == req[p]
           n == Len(rules) + 1
           R == [r EXCEPT !.pc = "name_rule", !.rule = n]
<1>1. r.pc = "mint" /\ HasRead(r, observations) /\ AnswerOK(r)
  BY WhereItIs DEF mint
<1>2. CASE Refused(p)
  BY <1>2, RefusedKeeps
<1>3. CASE insert_rule(r.rows[r.row].intake.subject, r.answer) /\ Becomes(p, R)
  <2>1. /\ R.pc = "name_rule" /\ R.s = r.s /\ R.row = r.row /\ R.targets = r.targets
        /\ R.todo = r.todo /\ R.rule = n
    BY <1>1 DEF HasRead, Registers
  <2>2. req'[p] = R /\ \A q \in Requests \ {p} : req'[q] = req[q]
    BY <1>3 DEF IInv, Becomes
  <2>3. UNCHANGED <<observations, questions>> /\ Len(rules') = n /\ Len(rules) \in Nat
    BY <1>3, AppendProperties, LenProperties DEF insert_rule, IInv, StoreInv, RulesTyped
  <2> HIDE DEF R
  <2>4. \A q \in Requests, t \in Sessions, j \in RowNumbers : Owns(req'[q], t, j) <=> Owns(req[q], t, j)
    BY <1>1, <2>1, <2>2 DEF Owns, Owning
  <2>5. ASSUME NEW t \in Sessions, NEW j \in RowNumbers, Plain(t, j) PROVE Plain(t, j)'
    BY <2>3, <2>4, <2>5, PlainIsKept
  <2>6. NamedRowsAnswer'
    BY <2>3 DEF OwnInv, NamedRowsAnswer, Asked, RowsOf
  <2>7. OwnersHold'
    BY <2>3, <2>4 DEF OwnInv, OwnersHold, Answered, Asked
  <2>8. TargetsArePlain'
    <3>1. SUFFICES ASSUME NEW q \in Requests, req'[q].pc \in Responding
                   PROVE  /\ req'[q].row \notin req'[q].targets
                          /\ req'[q].pc # "answer_like" => req'[q].todo = {}
                          /\ (\A j \in req[q].targets \ req[q].todo : Plain(req[q].s, j))'
      BY DEF TargetsArePlain
    <3>2. /\ req[q].pc \in Responding /\ req'[q].row = req[q].row /\ req'[q].targets = req[q].targets
          /\ req'[q].todo = req[q].todo /\ req'[q].s = req[q].s
          /\ req'[q].pc # "answer_like" => req[q].pc # "answer_like"
      BY <1>1, <2>1, <2>2, <3>1 DEF Responding
    <3>3. /\ req[q].row \notin req[q].targets
          /\ req[q].pc # "answer_like" => req[q].todo = {}
          /\ \A j \in req[q].targets \ req[q].todo : j \in RowNumbers /\ Plain(req[q].s, j)
          /\ req[q].s \in Sessions
      BY <3>2, Typed DEF OwnInv, TargetsArePlain
    <3> QED BY <2>5, <3>2, <3>3
  <2>9. StampsArePlain'
    <3>1. SUFFICES ASSUME NEW t \in Sessions, NEW j \in RowsOf(t)', NEW k \in RowNumbers \ {j},
                          Asked(t, k)', observations'[t][j].rule # NONE,
                          questions'[t][k].rule = observations'[t][j].rule
                   PROVE  Plain(t, j)'
      BY DEF StampsArePlain
    <3>2. j \in RowsOf(t) /\ Asked(t, k) /\ j \in RowNumbers
      BY <2>3, <3>1, Typed DEF RowsOf, Asked
    <3> QED BY <2>3, <2>5, <3>1, <3>2 DEF OwnInv, StampsArePlain
  <2>10. /\ \A t \in Sessions : \A j \in RowsOf(t) :
              observations[t][j].rule # NONE => observations[t][j].rule <= Len(rules)
         /\ \A t \in Sessions, k \in RowNumbers :
              Asked(t, k) /\ questions[t][k].rule # NONE => questions[t][k].rule <= Len(rules)
    BY DEF OwnInv, RulesAreGiven
  <2>11. RulesAreGiven'
    <3>1. ASSUME NEW t \in Sessions, NEW j \in RowsOf(t), observations[t][j].rule # NONE
          PROVE  observations[t][j].rule <= n
      BY <2>3, <2>10, <3>1, Typed
    <3>2. ASSUME NEW t \in Sessions, NEW k \in RowNumbers, Asked(t, k), questions[t][k].rule # NONE
          PROVE  questions[t][k].rule <= n
      BY <2>3, <2>10, <3>2, Typed
    <3> QED BY <2>3, <3>1, <3>2 DEF RulesAreGiven, RowsOf, Asked
  <2>12. n \notin RuleIds \/ n # NONE
    BY StoreAssumption DEF RuleIds
  <2>13. /\ \A t \in Sessions : \A j \in RowsOf(t) : observations[t][j].rule # n
         /\ \A t \in Sessions, k \in RowNumbers : Asked(t, k) => questions[t][k].rule # n
         /\ \A q \in Requests : req[q].pc \in Holding => req[q].rule # n /\ req[q].rule <= n
    <3>1. n # NONE
      <4>1. n \in RuleIds
        BY <1>3, <2>3, StoreAssumption DEF insert_rule, RuleIds
      <4> QED BY <2>12, <4>1
    <3>2. ASSUME NEW t \in Sessions, NEW j \in RowsOf(t) PROVE observations[t][j].rule # n
      BY <2>3, <2>10, <3>1, Typed
    <3>3. ASSUME NEW t \in Sessions, NEW k \in RowNumbers, Asked(t, k) PROVE questions[t][k].rule # n
      BY <2>3, <2>10, <3>1, <3>3, Typed
    <3>4. ASSUME NEW q \in Requests, req[q].pc \in Holding PROVE req[q].rule # n /\ req[q].rule <= n
      <4>1. req[q].rule <= Len(rules) /\ req[q].rule \in Nat
        BY <3>4, Typed DEF OwnInv, RulesAreOwn
      <4> QED BY <2>3, <4>1
    <3> QED BY <3>2, <3>3, <3>4
  <2>14. RulesAreOwn'
    <3>1. SUFFICES ASSUME NEW q \in Requests, req'[q].pc \in Holding
                   PROVE  /\ req'[q].rule <= Len(rules')
                          /\ \A u \in Requests :
                               req'[u].pc \in Holding /\ req'[u].rule = req'[q].rule => u = q
                          /\ \A t \in Sessions : \A j \in RowsOf(t)' :
                               observations'[t][j].rule # req'[q].rule
                          /\ \A t \in Sessions, k \in RowNumbers :
                               Asked(t, k)' /\ questions'[t][k].rule = req'[q].rule =>
                                 req'[q].pc = "stamp_rule" /\ t = req'[q].s /\ k = req'[q].row
      BY DEF RulesAreOwn
    <3>2. CASE q = p
      BY <2>1, <2>2, <2>3, <2>13, <3>1, <3>2 DEF RowsOf, Asked
    <3>3. CASE q # p
      <4>1. req'[q] = req[q] /\ req[q].pc \in Holding
        BY <2>2, <3>1, <3>3
      <4>2. req'[q].rule <= Len(rules')
        BY <2>3, <2>13, <4>1
      <4>3. \A u \in Requests : req'[u].pc \in Holding /\ req'[u].rule = req'[q].rule => u = q
        BY <2>1, <2>2, <2>13, <4>1 DEF OwnInv, RulesAreOwn
      <4> QED BY <2>3, <4>1, <4>2, <4>3 DEF OwnInv, RulesAreOwn, RowsOf, Asked
    <3> QED BY <3>2, <3>3
  <2> QED BY <2>6, <2>7, <2>8, <2>9, <2>11, <2>14 DEF OwnInv
<1> QED BY <1>2, <1>3 DEF mint

\* The rule is named on the question its own request answered.
LEMMA NameRuleKeeps ==
  ASSUME IInv, OwnInv, IInv', NEW p \in Requests, name_rule(p)
  PROVE  OwnInv'
<1> DEFINE r == req[p]
           R == [r EXCEPT !.pc = "stamp_rule"]
<1>0. PICK s, i : s = r.s /\ i = r.row
  OBVIOUS
<1>1. r.pc = "name_rule" /\ HasRead(r, observations) /\ AnswerOK(r)
  BY WhereItIs DEF name_rule
<1>2. CASE Refused(p)
  BY <1>2, RefusedKeeps
<1>3. CASE attach_import_question_rule(s, i, r.rule) /\ Becomes(p, R)
  <2>1. s \in Sessions /\ i \in RowNumbers /\ r.rule \in RuleIds
    BY <1>0, <1>1 DEF HasRead, AnswerOK
  <2>2. /\ R.pc = "stamp_rule" /\ R.s = s /\ R.row = i /\ R.targets = r.targets
        /\ R.todo = r.todo /\ R.rule = r.rule
    BY <1>0, <1>1 DEF HasRead, Registers
  <2>3. req'[p] = R /\ \A q \in Requests \ {p} : req'[q] = req[q]
    BY <1>3 DEF IInv, Becomes
  <2> HIDE DEF R
  <2>4. /\ UNCHANGED <<observations, rules>>
        /\ Asked(s, i)' /\ questions'[s][i].answer = questions[s][i].answer
        /\ questions'[s][i].rule = r.rule
        /\ \A t \in Sessions, j \in RowNumbers :
             <<t, j>> # <<s, i>> => questions'[t][j] = questions[t][j]
    BY <1>3, <2>1, NameRuleStep DEF IInv, attach_import_question_rule, QuestionSet
  <2>5. Owns(r, s, i)
    BY <1>0, <1>1 DEF Owns, Owning
  <2>6. \A q \in Requests, t \in Sessions, j \in RowNumbers :
          Owns(req'[q], t, j) => q # p /\ Owns(req[q], t, j) /\ ~(t = s /\ j = i)
    BY <2>1, <2>2, <2>3, <2>5 DEF Owns, Owning, OwnInv, OwnersHold
  <2>7. ASSUME NEW t \in Sessions, NEW j \in RowNumbers, Plain(t, j)
        PROVE  Plain(t, j)' /\ ~(t = s /\ j = i)
    <3>1. ~(t = s /\ j = i)
      BY <2>5, <2>7 DEF Plain
    <3>2. questions'[t][j] = questions[t][j]
      BY <2>4, <3>1
    <3> QED BY <2>6, <2>7, <3>1, <3>2, PlainIsKept
  <2>8. NamedRowsAnswer'
    <3>1. observations[s][i].answer = questions[s][i].answer
      BY <2>1, <2>5 DEF OwnInv, OwnersHold
    <3>2. \A t \in Sessions : RowsOf(t)' = RowsOf(t) /\ RowsOf(t) \subseteq RowNumbers
      BY <2>4, Typed DEF RowsOf
    <3> QED BY <2>4, <3>1, <3>2 DEF OwnInv, NamedRowsAnswer, Asked
  <2>9. OwnersHold'
    <3>1. SUFFICES ASSUME NEW q \in Requests, NEW t \in Sessions, NEW j \in RowNumbers,
                          Owns(req'[q], t, j)
                   PROVE  /\ Answered(t, j)' /\ questions'[t][j].rule = NONE
                          /\ observations'[t][j].answer = questions'[t][j].answer
                          /\ \A u \in Requests : Owns(req'[u], t, j) => u = q
      BY DEF OwnersHold
    <3>2. Owns(req[q], t, j) /\ questions'[t][j] = questions[t][j]
      BY <2>4, <2>6, <3>1
    <3> QED BY <2>4, <2>6, <3>2 DEF OwnInv, OwnersHold, Answered, Asked
  <2>10. TargetsArePlain'
    <3>1. SUFFICES ASSUME NEW q \in Requests, req'[q].pc \in Responding
                   PROVE  /\ req'[q].row \notin req'[q].targets
                          /\ req'[q].pc # "answer_like" => req'[q].todo = {}
                          /\ (\A j \in req[q].targets \ req[q].todo : Plain(req[q].s, j))'
      BY DEF TargetsArePlain
    <3>2. /\ req[q].pc \in Responding /\ req'[q].row = req[q].row /\ req'[q].targets = req[q].targets
          /\ req'[q].todo = req[q].todo /\ req'[q].s = req[q].s
          /\ req'[q].pc # "answer_like" => req[q].pc # "answer_like"
      BY <1>0, <1>1, <2>2, <2>3, <3>1 DEF Responding
    <3>3. /\ req[q].row \notin req[q].targets
          /\ req[q].pc # "answer_like" => req[q].todo = {}
          /\ \A j \in req[q].targets \ req[q].todo : j \in RowNumbers /\ Plain(req[q].s, j)
          /\ req[q].s \in Sessions
      BY <3>2, Typed DEF OwnInv, TargetsArePlain
    <3> QED BY <2>7, <3>2, <3>3
  <2>11. /\ r.rule <= Len(rules) /\ r.rule # NONE
         /\ \A t \in Sessions : \A j \in RowsOf(t) : observations[t][j].rule # r.rule
         /\ \A t \in Sessions, k \in RowNumbers : Asked(t, k) => questions[t][k].rule # r.rule
         /\ \A q \in Requests \ {p} : req[q].pc \in Holding => req[q].rule # r.rule
    BY <1>1, <2>1, StoreAssumption DEF OwnInv, RulesAreOwn, Holding, RuleIds
  <2>12. StampsArePlain'
    <3>1. SUFFICES ASSUME NEW t \in Sessions, NEW j \in RowsOf(t)', NEW k \in RowNumbers \ {j},
                          Asked(t, k)', observations'[t][j].rule # NONE,
                          questions'[t][k].rule = observations'[t][j].rule
                   PROVE  Plain(t, j)'
      BY DEF StampsArePlain
    <3>2. j \in RowsOf(t) /\ j \in RowNumbers
      BY <2>4, <3>1, Typed DEF RowsOf
    <3>3. ~(t = s /\ k = i)
      BY <2>4, <2>11, <3>1, <3>2
    <3>4. Asked(t, k) /\ questions'[t][k] = questions[t][k]
      BY <2>4, <3>1, <3>3 DEF Asked
    <3> QED BY <2>4, <2>7, <3>1, <3>2, <3>4 DEF OwnInv, StampsArePlain
  <2>13. RulesAreGiven'
    BY <2>1, <2>4, <2>11 DEF OwnInv, RulesAreGiven, RowsOf, Asked
  <2>14. RulesAreOwn'
    <3>1. SUFFICES ASSUME NEW q \in Requests, req'[q].pc \in Holding
                   PROVE  /\ req'[q].rule <= Len(rules')
                          /\ \A u \in Requests :
                               req'[u].pc \in Holding /\ req'[u].rule = req'[q].rule => u = q
                          /\ \A t \in Sessions : \A j \in RowsOf(t)' :
                               observations'[t][j].rule # req'[q].rule
                          /\ \A t \in Sessions, k \in RowNumbers :
                               Asked(t, k)' /\ questions'[t][k].rule = req'[q].rule =>
                                 req'[q].pc = "stamp_rule" /\ t = req'[q].s /\ k = req'[q].row
      BY DEF RulesAreOwn
    <3>2. CASE q = p
      <4>1. \A t \in Sessions, k \in RowNumbers :
              Asked(t, k)' /\ questions'[t][k].rule = r.rule => t = s /\ k = i
        BY <2>4, <2>11 DEF Asked
      <4> QED BY <2>2, <2>3, <2>4, <2>11, <3>1, <3>2, <4>1 DEF RowsOf
    <3>3. CASE q # p
      <4>1. req'[q] = req[q] /\ req[q].pc \in Holding
        BY <2>3, <3>1, <3>3
      <4>2. \A u \in Requests : req'[u].pc \in Holding /\ req'[u].rule = req'[q].rule => u = q
        BY <2>2, <2>3, <2>11, <3>3, <4>1 DEF OwnInv, RulesAreOwn
      <4>3. \A t \in Sessions, k \in RowNumbers :
              Asked(t, k)' /\ questions'[t][k].rule = req[q].rule =>
                Asked(t, k) /\ questions[t][k].rule = req[q].rule
        BY <2>4, <2>11, <3>3, <4>1 DEF Asked
      <4> QED BY <2>4, <4>1, <4>2, <4>3 DEF OwnInv, RulesAreOwn, RowsOf
    <3> QED BY <3>2, <3>3
  <2> QED BY <2>8, <2>9, <2>10, <2>12, <2>13, <2>14 DEF OwnInv
<1> QED BY <1>0, <1>2, <1>3 DEF name_rule, GoesTo

\* The rule is stamped on the question's row and on rows that were reached.
LEMMA StampRuleKeeps ==
  ASSUME IInv, OwnInv, IInv', NEW p \in Requests, stamp_rule(p)
  PROVE  OwnInv'
<1> DEFINE r == req[p]
<1>0. PICK s, is, n : s = r.s /\ is = Stamped(p) /\ n = r.rule
  OBVIOUS
<1>1. r.pc = "stamp_rule" /\ HasRead(r, observations) /\ AnswerOK(r)
  BY WhereItIs DEF stamp_rule
<1>2. CASE Refused(p)
  BY <1>2, RefusedKeeps
<1>3. CASE attach_import_answer_rule(s, is, n) /\ Returns(p)
  <2>1. s \in Sessions /\ n \in RuleIds /\ is \in SUBSET RowsOf(s) /\ is = r.targets \cup {r.row}
    BY <1>0, <1>1, Typed DEF Stamped, Responding, Holding
  <2>2. req'[p] = Idle /\ \A q \in Requests \ {p} : req'[q] = req[q]
    BY <1>3 DEF IInv, Returns, Becomes
  <2>3. /\ UNCHANGED <<questions, rules>>
        /\ \A t \in Sessions : RowsOf(t)' = RowsOf(t)
        /\ \A t \in Sessions : \A j \in RowsOf(t) :
             /\ observations'[t][j].answer = observations[t][j].answer
             /\ observations'[t][j].rule = IF t = s /\ j \in is THEN n ELSE observations[t][j].rule
    <3>1. StampEffect(s, is, n)
      BY <1>3, <2>1, StampStep DEF IInv
    <3> QED BY <1>3, <3>1 DEF attach_import_answer_rule, StampEffect, RowsStay
  <2>4. \A q \in Requests : req'[q].pc \in Responding => q # p /\ req'[q] = req[q]
    BY <2>2 DEF Idle, Responding
  <2>5. \A q \in Requests, t \in Sessions, j \in RowNumbers :
          Owns(req'[q], t, j) => q # p /\ Owns(req[q], t, j)
    BY <2>4 DEF Owns, Owning, Responding
  <2>6. ASSUME NEW t \in Sessions, NEW j \in RowNumbers, Plain(t, j) PROVE Plain(t, j)'
    BY <2>3, <2>5, <2>6, PlainIsKept
  <2>7. NamedRowsAnswer'
    BY <2>3 DEF OwnInv, NamedRowsAnswer, Asked
  <2>8. OwnersHold'
    <3>1. SUFFICES ASSUME NEW q \in Requests, NEW t \in Sessions, NEW j \in RowNumbers,
                          Owns(req'[q], t, j)
                   PROVE  /\ Answered(t, j)' /\ questions'[t][j].rule = NONE
                          /\ observations'[t][j].answer = questions'[t][j].answer
                          /\ \A u \in Requests : Owns(req'[u], t, j) => u = q
      BY DEF OwnersHold
    <3>2. /\ Answered(t, j) /\ questions[t][j].rule = NONE
          /\ observations[t][j].answer = questions[t][j].answer
          /\ \A u \in Requests : Owns(req[u], t, j) => u = q
      BY <2>5, <3>1 DEF OwnInv, OwnersHold
    <3>3. j \in RowsOf(t)
      BY <3>2, Typed DEF Answered
    <3> QED BY <2>3, <2>5, <3>2, <3>3 DEF Answered, Asked
  <2>9. TargetsArePlain'
    <3>1. SUFFICES ASSUME NEW q \in Requests, req'[q].pc \in Responding
                   PROVE  /\ req'[q].row \notin req'[q].targets
                          /\ req'[q].pc # "answer_like" => req'[q].todo = {}
                          /\ (\A j \in req[q].targets \ req[q].todo : Plain(req[q].s, j))'
      BY DEF TargetsArePlain
    <3> QED BY <2>4, <2>6, <3>1, Typed DEF OwnInv, TargetsArePlain
  <2>10. StampsArePlain'
    <3>1. SUFFICES ASSUME NEW t \in Sessions, NEW j \in RowsOf(t)', NEW k \in RowNumbers \ {j},
                          Asked(t, k)', observations'[t][j].rule # NONE,
                          questions'[t][k].rule = observations'[t][j].rule
                   PROVE  Plain(t, j)'
      BY DEF StampsArePlain
    <3>2. j \in RowsOf(t) /\ j \in RowNumbers /\ Asked(t, k) /\ questions'[t][k] = questions[t][k]
      BY <2>3, <3>1, Typed DEF Asked
    <3>3. CASE t = s /\ j \in is
      <4>1. questions[s][k].rule = n
        BY <2>3, <3>1, <3>2, <3>3
      <4>2. k = r.row
        BY <1>0, <1>1, <2>1, <3>2, <3>3, <4>1 DEF OwnInv, RulesAreOwn, Holding
      <4>3. j \in r.targets /\ r.todo = {}
        BY <1>1, <2>1, <3>1, <3>3, <4>2 DEF OwnInv, TargetsArePlain, Responding
      <4>4. Plain(s, j)
        BY <1>0, <1>1, <4>3 DEF OwnInv, TargetsArePlain, Responding
      <4> QED BY <2>6, <3>2, <3>3, <4>4
    <3>4. CASE ~(t = s /\ j \in is)
      BY <2>3, <2>6, <3>1, <3>2, <3>4 DEF OwnInv, StampsArePlain
    <3> QED BY <3>3, <3>4
  <2>11. n <= Len(rules) /\ \A q \in Requests \ {p} : req[q].pc \in Holding => req[q].rule # n
    BY <1>0, <1>1 DEF OwnInv, RulesAreOwn, Holding
  <2>12. RulesAreGiven'
    BY <2>3, <2>11 DEF OwnInv, RulesAreGiven, Asked
  <2>13. RulesAreOwn'
    <3>1. SUFFICES ASSUME NEW q \in Requests, req'[q].pc \in Holding
                   PROVE  /\ req'[q].rule <= Len(rules')
                          /\ \A u \in Requests :
                               req'[u].pc \in Holding /\ req'[u].rule = req'[q].rule => u = q
                          /\ \A t \in Sessions : \A j \in RowsOf(t)' :
                               observations'[t][j].rule # req'[q].rule
                          /\ \A t \in Sessions, k \in RowNumbers :
                               Asked(t, k)' /\ questions'[t][k].rule = req'[q].rule =>
                                 req'[q].pc = "stamp_rule" /\ t = req'[q].s /\ k = req'[q].row
      BY DEF RulesAreOwn
    <3>2. \A u \in Requests : req'[u].pc \in Holding => u # p /\ req'[u] = req[u]
      BY <2>4 DEF Holding, Responding
    <3>3. \A t \in Sessions : \A j \in RowsOf(t)' : observations'[t][j].rule # req'[q].rule
      BY <2>3, <2>11, <3>1, <3>2 DEF OwnInv, RulesAreOwn
    <3> QED BY <2>3, <3>1, <3>2, <3>3 DEF OwnInv, RulesAreOwn, Asked
  <2> QED BY <2>7, <2>8, <2>9, <2>10, <2>12, <2>13 DEF OwnInv
<1> QED BY <1>0, <1>2, <1>3 DEF stamp_rule

\* A withdrawal clears, of other rows, only those whose question names no rule.
LEMMA WithdrawKeeps ==
  ASSUME IInv, OwnInv, IInv', NEW p \in Requests, withdraw(p)
  PROVE  OwnInv'
<1> DEFINE r == req[p]
<1>0. PICK s, i : s = r.s /\ i = r.row
  OBVIOUS
<1>1. r.pc = "withdraw" /\ HasRead(r, observations) /\ WithdrawOK(r)
  BY WhereItIs DEF withdraw
<1>2. CASE Refused(p)
  BY <1>2, RefusedKeeps
<1>3. CASE withdraw_import_answer(s, i) /\ Returns(p)
  <2>1. s \in Sessions /\ i \in RowNumbers
    BY <1>0, <1>1 DEF HasRead, WithdrawOK
  <2>2. req'[p] = Idle /\ \A q \in Requests \ {p} : req'[q] = req[q]
    BY <1>3 DEF IInv, Returns, Becomes
  <2>3. WithdrawEffect(s, i) /\ rules' = rules
    BY <1>3, <2>1, WithdrawnStep DEF IInv, withdraw_import_answer
  <2>4. /\ Answered(s, i) /\ questions[s][i].rule # NONE
        /\ questions'[s][i].rule = NONE
        /\ \A t \in Sessions, j \in RowNumbers :
             <<t, j>> # <<s, i>> => questions'[t][j] = questions[t][j]
        /\ \A t \in Sessions : RowsOf(t)' = RowsOf(t) /\ RowsOf(t) \subseteq RowNumbers
        /\ \A t \in Sessions : \A j \in RowsOf(t) :
             \/ observations'[t][j] = observations[t][j] /\ ~(t = s /\ j = i)
             \/ /\ t = s /\ (j = i \/ observations[s][j].rule = questions[s][i].rule)
                /\ observations'[t][j].answer = NONE /\ observations'[t][j].rule = NONE
    BY <2>3, Typed DEF WithdrawEffect, QuestionSet, RowsStay
  <2>5. \A q \in Requests : req'[q].pc \in Responding => q # p /\ req'[q] = req[q]
    BY <2>2 DEF Idle, Responding
  <2>6. \A q \in Requests, t \in Sessions, j \in RowNumbers :
          Owns(req'[q], t, j) => q # p /\ Owns(req[q], t, j)
    BY <2>5 DEF Owns, Owning, Responding
  <2>7. ASSUME NEW t \in Sessions, NEW j \in RowNumbers, Plain(t, j) PROVE Plain(t, j)'
    <3>1. ~(t = s /\ j = i)
      BY <2>4, <2>7 DEF Plain
    <3>2. questions'[t][j] = questions[t][j]
      BY <2>4, <3>1
    <3> QED BY <2>6, <2>7, <3>2, PlainIsKept
  <2>8. ASSUME NEW t \in Sessions, NEW j \in RowsOf(t), ~(t = s /\ j = i), ~Plain(t, j)
        PROVE  observations'[t][j] = observations[t][j]
    <3>1. SUFFICES ASSUME t = s, observations[s][j].rule = questions[s][i].rule PROVE FALSE
      BY <2>4, <2>8
    <3>2. i \in RowNumbers \ {j} /\ Asked(s, i)
      BY <2>1, <2>4, <2>8, <3>1 DEF Answered
    <3> QED BY <2>1, <2>4, <2>8, <3>1, <3>2 DEF OwnInv, StampsArePlain
  <2>9. NamedRowsAnswer'
    <3>1. SUFFICES ASSUME NEW t \in Sessions, NEW j \in RowsOf(t), Asked(t, j)',
                          questions'[t][j].rule # NONE
                   PROVE  observations'[t][j].answer = questions'[t][j].answer
      BY <2>4 DEF NamedRowsAnswer
    <3>2. ~(t = s /\ j = i) /\ questions'[t][j] = questions[t][j] /\ Asked(t, j)
      BY <2>4, <3>1 DEF Asked
    <3>3. ~Plain(t, j)
      BY <3>1, <3>2 DEF Plain
    <3> QED BY <2>8, <3>1, <3>2, <3>3 DEF OwnInv, NamedRowsAnswer
  <2>10. OwnersHold'
    <3>1. SUFFICES ASSUME NEW q \in Requests, NEW t \in Sessions, NEW j \in RowNumbers,
                          Owns(req'[q], t, j)
                   PROVE  /\ Answered(t, j)' /\ questions'[t][j].rule = NONE
                          /\ observations'[t][j].answer = questions'[t][j].answer
                          /\ \A u \in Requests : Owns(req'[u], t, j) => u = q
      BY DEF OwnersHold
    <3>2. /\ Answered(t, j) /\ questions[t][j].rule = NONE /\ Owns(req[q], t, j)
          /\ observations[t][j].answer = questions[t][j].answer
          /\ \A u \in Requests : Owns(req[u], t, j) => u = q
      BY <2>6, <3>1 DEF OwnInv, OwnersHold
    <3>3. j \in RowsOf(t) /\ ~(t = s /\ j = i) /\ ~Plain(t, j)
      BY <2>4, <3>2, Typed DEF Answered, Plain
    <3>4. questions'[t][j] = questions[t][j] /\ observations'[t][j] = observations[t][j]
      BY <2>4, <2>8, <3>3
    <3> QED BY <2>6, <3>2, <3>4 DEF Answered, Asked
  <2>11. TargetsArePlain'
    <3>1. SUFFICES ASSUME NEW q \in Requests, req'[q].pc \in Responding
                   PROVE  /\ req'[q].row \notin req'[q].targets
                          /\ req'[q].pc # "answer_like" => req'[q].todo = {}
                          /\ (\A j \in req[q].targets \ req[q].todo : Plain(req[q].s, j))'
      BY DEF TargetsArePlain
    <3> QED BY <2>5, <2>7, <3>1, Typed DEF OwnInv, TargetsArePlain
  <2>12. \A t \in Sessions, k \in RowNumbers : Asked(t, k)' /\ questions'[t][k].rule # NONE =>
           Asked(t, k) /\ questions'[t][k].rule = questions[t][k].rule
    BY <2>4 DEF Asked
  <2>13. \A t \in Sessions : \A j \in RowsOf(t) : observations'[t][j].rule # NONE =>
           observations'[t][j].rule = observations[t][j].rule
    BY <2>4
  <2>14. StampsArePlain'
    <3>1. SUFFICES ASSUME NEW t \in Sessions, NEW j \in RowsOf(t)', NEW k \in RowNumbers \ {j},
                          Asked(t, k)', observations'[t][j].rule # NONE,
                          questions'[t][k].rule = observations'[t][j].rule
                   PROVE  Plain(t, j)'
      BY DEF StampsArePlain
    <3>2. /\ j \in RowsOf(t) /\ j \in RowNumbers /\ Asked(t, k) /\ observations[t][j].rule # NONE
          /\ questions[t][k].rule = observations[t][j].rule
      BY <2>4, <2>12, <2>13, <3>1
    <3> QED BY <2>7, <3>1, <3>2 DEF OwnInv, StampsArePlain
  <2>15. RulesAreGiven'
    BY <2>3, <2>4, <2>12, <2>13 DEF OwnInv, RulesAreGiven
  <2>16. RulesAreOwn'
    <3>1. SUFFICES ASSUME NEW q \in Requests, req'[q].pc \in Holding
                   PROVE  /\ req'[q].rule <= Len(rules')
                          /\ \A u \in Requests :
                               req'[u].pc \in Holding /\ req'[u].rule = req'[q].rule => u = q
                          /\ \A t \in Sessions : \A j \in RowsOf(t)' :
                               observations'[t][j].rule # req'[q].rule
                          /\ \A t \in Sessions, k \in RowNumbers :
                               Asked(t, k)' /\ questions'[t][k].rule = req'[q].rule =>
                                 req'[q].pc = "stamp_rule" /\ t = req'[q].s /\ k = req'[q].row
      BY DEF RulesAreOwn
    <3>2. \A u \in Requests : req'[u].pc \in Holding => u # p /\ req'[u] = req[u]
      BY <2>5 DEF Holding, Responding
    <3>3. req[q].pc \in Holding /\ req'[q] = req[q] /\ req[q].rule # NONE
      BY <3>1, <3>2, Typed, StoreAssumption DEF RuleIds
    <3>4. \A t \in Sessions : \A j \in RowsOf(t)' : observations'[t][j].rule # req'[q].rule
      BY <2>4, <2>13, <3>3 DEF OwnInv, RulesAreOwn
    <3>5. \A t \in Sessions, k \in RowNumbers :
            Asked(t, k)' /\ questions'[t][k].rule = req'[q].rule =>
              req'[q].pc = "stamp_rule" /\ t = req'[q].s /\ k = req'[q].row
      BY <2>12, <3>3 DEF OwnInv, RulesAreOwn
    <3> QED BY <2>3, <3>2, <3>3, <3>4, <3>5 DEF OwnInv, RulesAreOwn
  <2> QED BY <2>9, <2>10, <2>11, <2>14, <2>15, <2>16 DEF OwnInv
<1> QED BY <1>0, <1>2, <1>3 DEF withdraw

\* The steps that answer, name, stamp and withdraw nothing.
LEMMA OtherStepsKeep ==
  ASSUME IInv, OwnInv, IInv', NEW p \in Requests,
         \/ open_session(p) \/ open_session_insert(p)
         \/ add_rows(p) \/ add_row(p) \/ ask(p) \/ state_control_figures(p)
         \/ create_rule(p) \/ retire(p)
         \/ list_rows(p) \/ list_questions(p)
         \/ answer_question(p) \/ answer_decide(p)
         \/ withdraw_answer(p) \/ withdraw_decide(p)
         \/ commit_session(p) \/ commit_decide(p) \/ record_candidate(p)
         \/ record_assertions(p) \/ close_committed(p) \/ abandon_session(p)
         \/ stop(p)
  PROVE  OwnInv'
<1> DEFINE r == req[p]
<1>1. StoreInv
  BY DEF IInv
<1>2. UNCHANGED store => Calm
  BY <1>1, NothingIsCalm DEF store
<1>3. ASSUME NEW R, req' = [req EXCEPT ![p] = R], R.pc \notin Responding, Calm
      PROVE  OwnInv'
  BY <1>3, CalmKeeps
<1>4. Returns(p) /\ Calm => OwnInv'
  BY <1>3 DEF Returns, Becomes, Idle, Responding
<1>5. Refused(p) => OwnInv'
  BY <1>2, <1>4 DEF Refused
<1>6. CASE \/ open_session(p) \/ add_rows(p) \/ answer_question(p) \/ withdraw_answer(p)
           \/ commit_session(p)
  <2>1. Calm
    BY <1>2, <1>6 DEF open_session, add_rows, answer_question, withdraw_answer, commit_session
  <2>2. CASE open_session(p)
    <3>1. PICK d : req' = [req EXCEPT ![p] = [pc |-> "open", decl |-> d]]
      BY <2>2 DEF open_session, Call
    <3> QED BY <1>3, <2>1, <3>1 DEF Responding
  <2>3. CASE add_rows(p)
    <3>1. PICK s, b : req' = [req EXCEPT ![p] = [pc |-> "add_row", s |-> s, batch |-> b,
                                                book |-> rules, row |-> 0]]
      BY <2>3 DEF add_rows, Call
    <3> QED BY <1>3, <2>1, <3>1 DEF Responding
  <2>4. CASE answer_question(p)
    <3>1. PICK s \in Sessions, i \in RowNumbers, c \in Answers,
                reach \in BOOLEAN, mints \in BOOLEAN :
            Call(p, "answer", [Reading("answer", s) EXCEPT !.row = i, !.answer = c,
                                                !.reach = reach, !.mints = mints])
      BY <2>4 DEF answer_question
    <3>2. [Reading("answer", s) EXCEPT !.row = i, !.answer = c, !.reach = reach,
                                       !.mints = mints].pc = "list_rows"
      BY DEF Reading
    <3> QED BY <1>3, <2>1, <3>1, <3>2 DEF Call, Responding
  <2>5. CASE withdraw_answer(p)
    <3>1. PICK s, i : req' = [req EXCEPT ![p] = [Reading("withdraw", s) EXCEPT !.row = i]]
      BY <2>5 DEF withdraw_answer, Call
    <3>2. [Reading("withdraw", s) EXCEPT !.row = i].pc = "list_rows"
      BY DEF Reading
    <3> QED BY <1>3, <2>1, <3>1, <3>2 DEF Responding
  <2>6. CASE commit_session(p)
    <3>1. PICK s : req' = [req EXCEPT ![p] = Reading("commit", s)]
      BY <2>6 DEF commit_session, Call
    <3>2. Reading("commit", s).pc = "list_rows"
      BY DEF Reading
    <3> QED BY <1>3, <2>1, <3>1, <3>2 DEF Responding
  <2> QED BY <1>6, <2>2, <2>3, <2>4, <2>5, <2>6
<1>7. CASE open_session_insert(p)
  <2>1. ASSUME NEW s \in Sessions, open_import_session(r.decl, s), Returns(p) PROVE OwnInv'
    <3>1. Calm
      BY <1>1, <2>1, NothingIsCalm DEF open_import_session
    <3> QED BY <1>4, <2>1, <3>1
  <2> QED BY <1>5, <1>7, <2>1 DEF open_session_insert
<1>8. ASSUME r.pc \in {"add_row", "ask"}, NextRow(p), Calm PROVE OwnInv'
  <2>1. Feeding(r, observations)
    BY <1>8, WhereItIs
  <2>2. CASE Returns(p)
    BY <1>4, <1>8, <2>2
  <2>3. CASE Becomes(p, [r EXCEPT !.pc = "add_row", !.batch = Tail(r.batch)])
    <3>1. [r EXCEPT !.pc = "add_row", !.batch = Tail(r.batch)].pc = "add_row"
      BY <2>1 DEF Feeding
    <3> QED BY <1>3, <1>8, <2>3, <3>1 DEF Becomes, Responding
  <2> QED BY <1>8, <2>2, <2>3 DEF NextRow
<1>9. CASE add_row(p)
  <2>1. r.pc = "add_row" /\ Feeding(r, observations)
    BY <1>9, WhereItIs DEF add_row
  <2>2. PICK x, s : x = Head(r.batch) /\ s = r.s
    OBVIOUS
  <2>3. x \in Intake /\ s \in Sessions
    BY <2>1, <2>2, HeadTailProperties DEF Feeding
  <2>4. ASSUME NEW n, add_import_observation(s, x, n),
               NextRow(p) \/ Becomes(p, [r EXCEPT !.pc = "ask", !.row = n])
        PROVE  OwnInv'
    <3>1. Calm
      BY <1>1, <2>3, <2>4, AddRowStep
    <3>2. [r EXCEPT !.pc = "ask", !.row = n].pc = "ask"
      BY <2>1 DEF Feeding
    <3>3. CASE NextRow(p)
      BY <1>8, <2>1, <3>1, <3>3
    <3>4. CASE Becomes(p, [r EXCEPT !.pc = "ask", !.row = n])
      BY <1>3, <3>1, <3>2, <3>4 DEF Becomes, Responding
    <3> QED BY <2>4, <3>3, <3>4
  <2> QED BY <1>5, <1>9, <2>2, <2>4 DEF add_row
<1>10. CASE ask(p)
  <2>1. PICK s, i : s = r.s /\ i = r.row
    OBVIOUS
  <2>2. r.pc = "ask" /\ s \in Sessions /\ i \in RowsOf(s)
    BY <1>10, <2>1, WhereItIs DEF ask, Feeding, RowsOf
  <2>3. CASE record_import_question(s, i) /\ NextRow(p)
    <3>1. Calm
      BY <1>1, <2>2, <2>3, AskStep
    <3> QED BY <1>8, <2>2, <2>3, <3>1
  <2> QED BY <1>5, <1>10, <2>1, <2>3 DEF ask
<1>11. CASE state_control_figures(p) \/ create_rule(p) \/ retire(p) \/ abandon_session(p)
  <2>1. req' = [req EXCEPT ![p] = Idle]
    BY <1>11 DEF state_control_figures, create_rule, retire, abandon_session, Call
  <2>2. Calm
    <3>1. CASE state_control_figures(p) \/ abandon_session(p)
      BY <1>1, <3>1, NothingIsCalm
         DEF state_control_figures, abandon_session, state_import_control_figures, close_import_session
    <3>2. CASE create_rule(p)
      <4>1. PICK x \in Subjects, a \in Answers : insert_rule(x, a)
        BY <3>2 DEF create_rule
      <4>2. [subject |-> x, answer |-> a, active |-> TRUE] \in Rule
        BY DEF Rule
      <4>3. Len(rules) <= Len(rules')
        BY <1>1, <4>1, <4>2, AppendProperties, LenProperties DEF insert_rule, StoreInv, RulesTyped
      <4> QED BY <1>1, <4>1, <4>3, NothingIsCalm DEF insert_rule
    <3>3. CASE retire(p)
      <4>1. PICK n \in DOMAIN rules : retire_rule(n)
        BY <3>3 DEF retire
      <4>2. /\ rules' = [rules EXCEPT ![n] = [rules[n] EXCEPT !.active = FALSE]]
            /\ rules \in Seq(Rule) /\ n \in 1..Len(rules) /\ Len(rules) \in Nat
        BY <1>1, <4>1, LenProperties DEF retire_rule, StoreInv, RulesTyped
      <4>3. [rules[n] EXCEPT !.active = FALSE] \in Rule
        <5>1. rules[n] \in Rule
          BY <4>2, ElementOfSeq
        <5> QED BY <5>1 DEF Rule
      <4>4. Len(rules) <= Len(rules')
        BY <4>2, <4>3, ExceptSeq
      <4> QED BY <1>1, <4>1, <4>4, NothingIsCalm DEF retire_rule
    <3> QED BY <1>11, <3>1, <3>2, <3>3
  <2> QED BY <1>3, <2>1, <2>2 DEF Idle, Responding
<1>12. ASSUME r.pc \in Reads \cup {"submit"}
       PROVE  DOMAIN r = Registers
  BY <1>12, WhereItIs DEF HasRead
<1>13. CASE list_rows(p) \/ list_questions(p)
  <2>1. Calm /\ r.pc \in Reads
    BY <1>2, <1>13 DEF list_rows, list_questions, Reads
  <2>2. CASE list_rows(p)
    <3> DEFINE R == [r EXCEPT !.pc = "list_questions", !.rows = observations[r.s]]
    <3>1. req' = [req EXCEPT ![p] = R]
      BY <2>2 DEF list_rows, Becomes
    <3>2. R.pc = "list_questions"
      BY <1>12, <2>1 DEF Registers
    <3> HIDE DEF R
    <3> QED BY <1>3, <2>1, <3>1, <3>2 DEF Responding
  <2>3. CASE list_questions(p)
    <3> DEFINE R == [r EXCEPT !.pc = "decide", !.asked = questions[r.s],
                              !.figures = session[r.s].figures]
    <3>1. req' = [req EXCEPT ![p] = R]
      BY <2>3 DEF list_questions, Becomes
    <3>2. R.pc = "decide"
      BY <1>12, <2>1 DEF Registers
    <3> HIDE DEF R
    <3> QED BY <1>3, <2>1, <3>1, <3>2 DEF Responding
  <2> QED BY <1>13, <2>2, <2>3
<1>14. CASE withdraw_decide(p) \/ commit_decide(p) \/ answer_decide(p)
  <2>1. Refused(p) \/ (UNCHANGED store /\ r.pc \in Reads)
    BY <1>14 DEF withdraw_decide, commit_decide, answer_decide, Reads
  <2>2. CASE UNCHANGED store /\ r.pc \in Reads /\ withdraw_decide(p)
    <3>1. Refused(p) \/ req' = [req EXCEPT ![p] = [r EXCEPT !.pc = "withdraw"]]
      BY <2>2 DEF withdraw_decide, GoesTo, Becomes
    <3>2. [r EXCEPT !.pc = "withdraw"].pc = "withdraw"
      BY <1>12, <2>2 DEF Registers
    <3> QED BY <1>2, <1>3, <1>5, <2>2, <3>1, <3>2 DEF Responding
  <2>3. CASE UNCHANGED store /\ r.pc \in Reads /\ commit_decide(p)
    <3> DEFINE c == Candidates(p)
               D == DOMAIN r.rows \ DOMAIN c
               R == [r EXCEPT !.pc = "submit", !.plan = c, !.declined = D]
    <3>1. Refused(p) \/ req' = [req EXCEPT ![p] = R]
      BY <2>3 DEF commit_decide, Becomes
    <3> HIDE DEF D, c
    <3>2. R.pc = "submit"
      BY <1>12, <2>3 DEF Registers
    <3> HIDE DEF R
    <3> QED BY <1>2, <1>3, <1>5, <2>3, <3>1, <3>2 DEF Responding
  <2>4. CASE UNCHANGED store /\ r.pc \in Reads /\ answer_decide(p)
    <3> DEFINE ts == targets_of(p)
               R == [r EXCEPT !.pc = "answer_like", !.targets = ts, !.todo = ts]
    <3>1. Refused(p) \/ Becomes(p, R)
      BY <2>4 DEF answer_decide
    <3>2. r.row \notin ts
      BY DEF targets_of
    <3> HIDE DEF ts
    <3>3. R.pc = "answer_like" /\ R.row = r.row /\ R.targets = ts /\ R.todo = ts
      BY <1>12, <2>4 DEF Registers
    <3> HIDE DEF R
    <3>4. CASE Becomes(p, R)
      BY <1>2, <2>4, <3>2, <3>3, <3>4, CalmKeeps DEF Becomes
    <3> QED BY <1>5, <3>1, <3>4
  <2> QED BY <1>5, <1>14, <2>1, <2>2, <2>3, <2>4
<1>15. CASE record_candidate(p) \/ record_assertions(p)
  <2>1. Calm /\ r.pc = "submit"
    BY <1>2, <1>15 DEF record_candidate, record_assertions
  <2>2. CASE Returns(p)
    BY <1>4, <2>1, <2>2
  <2>3. CASE Becomes(p, [r EXCEPT !.next = @ + 1]) \/ Becomes(p, [r EXCEPT !.pc = "close"])
    <3>1. \E R : req' = [req EXCEPT ![p] = R] /\ R.pc \in {"submit", "close"}
      BY <1>12, <2>1, <2>3 DEF Becomes, Registers
    <3> QED BY <1>3, <2>1, <3>1 DEF Responding
  <2> QED BY <1>15, <2>2, <2>3 DEF record_candidate, record_assertions, GoesTo
<1>16. CASE close_committed(p)
  <2>1. CASE close_import_session(r.s, "committed") /\ Returns(p)
    <3>1. Calm
      BY <1>1, <2>1, NothingIsCalm DEF close_import_session
    <3> QED BY <1>4, <2>1, <3>1
  <2> QED BY <1>5, <1>16, <2>1 DEF close_committed
<1>17. CASE stop(p)
  BY <1>5, <1>17 DEF stop
<1> QED BY <1>6, <1>7, <1>9, <1>10, <1>11, <1>13, <1>14, <1>15, <1>16, <1>17

\* No request owns a question at first, and every step keeps whose answer is whose.
LEMMA InitOwnInv == Init => OwnInv
<1> SUFFICES ASSUME Init PROVE OwnInv
  OBVIOUS
<1>1. \A p \in Requests : req[p].pc = "idle"
  BY DEF Init, Idle
<1>2. \A s \in Sessions : RowsOf(s) = {}
  <2>1. ASSUME NEW s \in Sessions PROVE observations[s] = << >>
    BY DEF Init, StoreInit
  <2>2. DOMAIN << >> = {}
    BY EmptySeq, LenProperties
  <2> QED BY <2>1, <2>2 DEF RowsOf
<1>3. \A s \in Sessions, j \in RowNumbers : ~Asked(s, j)
  BY DEF Init, StoreInit, Asked
<1> QED BY <1>1, <1>2, <1>3 DEF OwnInv, NamedRowsAnswer, OwnersHold, Owns, Owning, TargetsArePlain,
           Responding, StampsArePlain, RulesAreGiven, RulesAreOwn, Holding

LEMMA NextOwnInv == IInv /\ OwnInv /\ [Next]_vars => OwnInv'
<1> SUFFICES ASSUME IInv, OwnInv, [Next]_vars PROVE OwnInv'
  OBVIOUS
<1>1. IInv'
  BY NextIInv
<1>2. CASE UNCHANGED vars
  BY <1>2 DEF vars, OwnInv, NamedRowsAnswer, OwnersHold, Owns, TargetsArePlain, Plain,
              StampsArePlain, RulesAreGiven, RulesAreOwn, RowsOf, Asked, Answered
<1>3. CASE Next
  <2>1. PICK p \in Requests :
          \/ open_session(p) \/ open_session_insert(p)
          \/ add_rows(p) \/ add_row(p) \/ ask(p) \/ state_control_figures(p)
          \/ create_rule(p) \/ retire(p)
          \/ list_rows(p) \/ list_questions(p)
          \/ answer_question(p) \/ answer_decide(p) \/ answer_like(p)
          \/ mint(p) \/ name_rule(p) \/ stamp_rule(p)
          \/ withdraw_answer(p) \/ withdraw_decide(p) \/ withdraw(p)
          \/ commit_session(p) \/ commit_decide(p) \/ record_candidate(p)
          \/ record_assertions(p) \/ close_committed(p) \/ abandon_session(p)
          \/ stop(p)
    BY <1>3 DEF Next
  <2> QED BY <1>1, <2>1, AnswerLikeKeeps, MintKeeps, NameRuleKeeps, StampRuleKeeps,
             WithdrawKeeps, OtherStepsKeep
<1> QED BY <1>2, <1>3

-----------------------------------------------------------------------------
\* The store keeps its shape and every fact names a row of its session, whatever
\* requests meet and wherever they stop.
THEOREM ImportsAreTyped == Spec => []TypeOK
<1>1. ASSUME IInv PROVE TypeOK
  <2>1. StoreTypeOK
    <3>1. \A s \in Sessions : \A i \in RowsOf(s) : observations[s][i] \in Observation
      BY <1>1, LenProperties, ElementOfSeq DEF IInv, StoreInv, RowsTyped, RowsOf
    <3>2. \A r \in DOMAIN rules : rules[r] \in Rule
      BY <1>1, LenProperties, ElementOfSeq DEF IInv, StoreInv, RulesTyped
    <3> QED BY <1>1, <3>1, <3>2
            DEF IInv, StoreInv, StoreTypeOK, SessionsTyped, SessionRecord, RowsTyped, QuestionsTyped,
                RulesTyped
  <2>2. ASSUME NEW n \in Facts
        PROVE  /\ journal[n].row \in RowsOf(journal[n].session)
               /\ journal[n].answer \in Answers \cup {NONE}
               /\ journal[n].rule \in RuleIds \cup {NONE}
               /\ journal[n].answer = NONE =>
                    observations[journal[n].session][journal[n].row].intake.form = "concluded"
    <3>1. journal[n] \in Entries /\ journal[n].kind = "fact" /\ n \in FactsOf(journal)
      BY <1>1, LenProperties, ElementOfSeq DEF IInv, JournalInv, Facts, FactsOf
    <3>2. FactOK(journal[n], observations)
      BY <1>1, <3>1 DEF IInv, JournalInv
    <3> QED BY <3>1, <3>2 DEF Entries, FactOK, RowsOf
  <2> QED BY <2>1, <2>2 DEF TypeOK
<1>2. IInv => TypeOK
  BY <1>1
<1> QED BY <1>2, InitIInv, NextIInv, PTL DEF Spec

\* A row with a key, or with an identifier of its source, becomes a fact once,
\* however often and by however many requests its session is committed, or the row
\* fed to another (find_duplicate at the append).
THEOREM AKeyedRowIsWrittenOnce == Spec => []KeyedRowsAreWrittenOnce
<1>1. IInv => KeyedRowsAreWrittenOnce
  BY DEF IInv, JournalInv, WrittenOnce, SameIdentity, KeyedRowsAreWrittenOnce, Facts, FactsOf
<1> QED BY <1>1, InitIInv, NextIInv, PTL DEF Spec

\* What a commit reads off a row is what the owner sees on its question, and a
\* question that names a rule shows the answer its row has, through answers that
\* reach other rows, late stamps, withdrawals and requests that stop half way.
THEOREM RowsAndQuestionsAgree == Spec => []RowsAnswerAsTheirQuestions
<1>1. IInv /\ OwnInv => RowsAnswerAsTheirQuestions
  BY DEF IInv, StoreInv, RowsFollow, OwnInv, NamedRowsAnswer, RowsAnswerAsTheirQuestions
<1> QED BY <1>1, InitIInv, NextIInv, InitOwnInv, NextOwnInv, PTL DEF Spec

\* An assertion is in the journal only over rows that are written, but for those
\* whose event the structural validation refuses: the commit submits every row
\* before it states anything about the source.
THEOREM NoAssertionBeforeItsRows == Spec => []AssertionsStandOnRows
<1>1. ASSUME IInv PROVE AssertionsStandOnRows
  <2>1. SUFFICES ASSUME NEW n \in Assertions, NEW i \in journal[n].settled
                 PROVE  \/ Written(journal[n].session, i)
                        \/ observations[journal[n].session][i].intake.form = "malformed"
    BY DEF AssertionsStandOnRows
  <2>2. n \in DOMAIN journal /\ journal[n].kind = "assertion"
    BY DEF Assertions
  <2>3. journal[n].session \in Sessions
    BY <1>1, <2>2, LenProperties, ElementOfSeq DEF IInv, JournalInv, Entries
  <2>4. Disposed(journal[n].session, i, origins, observations, journal)
    BY <1>1, <2>1, <2>2 DEF IInv, JournalInv, Asserted
  <2> QED BY <1>1, <2>3, <2>4, OriginIsSource DEF Disposed, Written
<1> QED BY <1>1, InitIInv, NextIInv, PTL DEF Spec

\* A closed session is left as it is by every request, also by those that were
\* under way when it closed (require_open in every write of the store).
THEOREM AClosedSessionIsFinal == Spec => ClosedIsFinal
<1>1. IInv /\ [Next]_vars => StaysClosed
  BY NextIInv
<1>2. IInv /\ [Next]_vars =>
        [\A s \in Sessions : session[s].state \in {"committed", "abandoned"} =>
           /\ session'[s] = session[s]
           /\ observations'[s] = observations[s]
           /\ questions'[s] = questions[s]]_vars
  BY <1>1 DEF StaysClosed
<1> QED BY <1>2, InitIInv, NextIInv, PTL DEF Spec, ClosedIsFinal
=============================================================================
