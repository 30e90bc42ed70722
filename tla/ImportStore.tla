------------------------------ MODULE ImportStore ------------------------------
(***************************************************************************)
(* The store of import sessions: the rows an import holds before anything  *)
(* is written to the journal, the questions those rows raise, the owner's  *)
(* answers, and the standing rules an answer was generalised into.         *)
(*                                                                         *)
(* Every operation below is one store call: an Immediate transaction under *)
(* the store's mutex, so it is one step.  What spans several calls belongs *)
(* to the scenarios, in ImportSession.                                     *)
(***************************************************************************)
EXTENDS Naturals, Sequences

CONSTANTS
  Sessions,      \* session identifiers
  Declarations,  \* what a caller may declare an import to be
  Keys,          \* idempotency keys callers give to rows
  Lines,         \* identifiers a source gives to rows within its statement
  Sections,      \* the intervals a source's control figures are stated for
  Subjects,      \* what a question is about; rows alike share a subject
  Answers,       \* what the owner may answer, which is also what a rule says
  MaxRows, MaxRules,
  NONE

ASSUME StoreAssumption ==
  /\ NONE \notin Declarations \cup Keys \cup Lines \cup Sections \cup Answers
  /\ MaxRows \in Nat /\ MaxRules \in Nat /\ NONE \notin 1..MaxRules
  /\ NONE \notin [answer: Answers \cup {NONE}, rule: (1..MaxRules) \cup {NONE}]

VARIABLES
  session,       \* session[s]: its state, declaration, section of control figures
  observations,  \* observations[s]: the rows, in submission order
  questions,     \* questions[s][i]: the question row i raised, or NONE
  rules          \* the classification rules; a rule's version is its place

store == <<session, observations, questions, rules>>

States == {"unopened", "open", "committed", "abandoned"}
RowNumbers == 1..MaxRows
RuleIds == 1..MaxRules
\* A submitted line.  The caller reports what the source said, or has concluded
\* what it is; of conclusions, some do not normalise, and some normalise into an
\* event whose structure the journal refuses (a trade of no quantity).
Forms == {"observed", "concluded", "unreadable", "malformed"}
Intake == [ key: Keys \cup {NONE}, line: Lines \cup {NONE}, subject: Subjects, form: Forms ]
Observation == [intake: Intake, answer: Answers \cup {NONE}, rule: RuleIds \cup {NONE}]
Question == [answer: Answers \cup {NONE}, rule: RuleIds \cup {NONE}]
Rule == [subject: Subjects, answer: Answers, active: BOOLEAN]

StoreInit ==
  /\ session = [s \in Sessions |-> [state |-> "unopened", decl |-> NONE, figures |-> NONE]]
  /\ observations = [s \in Sessions |-> <<>>]
  /\ questions = [s \in Sessions |-> [i \in RowNumbers |-> NONE]]
  /\ rules = <<>>

-----------------------------------------------------------------------------
(* Sessions.                                                               *)

require_open(s) == session[s].state = "open"

\* The open session a declaration already has.  A declaration naming an import
\* is looked up by it, one naming only a source by that; nothing finds a session
\* for a caller that declares nothing.
standing_session(d) ==
  {s \in Sessions : d # NONE /\ session[s].state = "open" /\ session[s].decl = d}

\* Lookup and insert share the transaction: s is the session handed back.
open_import_session(d, s) ==
  /\ IF standing_session(d) # {}
     THEN /\ s \in standing_session(d)
          /\ UNCHANGED session
     ELSE /\ session[s].state = "unopened"
          /\ session' = [session EXCEPT ![s] = [@ EXCEPT !.state = "open", !.decl = d]]
  /\ UNCHANGED <<observations, questions, rules>>

\* Only an open session closes, and the test is part of the update.
close_import_session(s, state) ==
  /\ require_open(s)
  /\ session' = [session EXCEPT ![s].state = state]
  /\ UNCHANGED <<observations, questions, rules>>

\* What the source printed about itself, in place of what it printed before.
state_import_control_figures(s, f) ==
  /\ require_open(s)
  /\ session' = [session EXCEPT ![s].figures = f]
  /\ UNCHANGED <<observations, questions, rules>>

-----------------------------------------------------------------------------
(* Rows and their questions.                                               *)

RowsOf(s) == DOMAIN observations[s]

\* The stable key of a line: the caller's own, else, where nothing was concluded,
\* the one the source's identifier makes.
row_key(x) ==
  IF x.key # NONE THEN <<"idempotency", x.key>>
  ELSE IF x.form = "observed" /\ x.line # NONE THEN <<"row", x.line>>
  ELSE NONE

observation_by_key(s, key) ==
  {i \in RowsOf(s) : key # NONE /\ row_key(observations[s][i].intake) = key}

\* n is the number of the row: the one its key already has, or the next.
add_import_observation(s, x, n) ==
  /\ require_open(s)
  /\ IF observation_by_key(s, row_key(x)) # {}
     THEN /\ n \in observation_by_key(s, row_key(x))
          /\ UNCHANGED observations
     ELSE /\ n = Len(observations[s]) + 1
          /\ n <= MaxRows
          /\ observations' = [observations EXCEPT ![s] =
               Append(@, [intake |-> x, answer |-> NONE, rule |-> NONE])]
  /\ UNCHANGED <<session, questions, rules>>

\* Mutant: the question is filed one row late.
record_import_question_NextRow(s, i) ==
  /\ require_open(s)
  /\ questions' = [questions EXCEPT ![s][i + 1] = [answer |-> NONE, rule |-> NONE]]
  /\ UNCHANGED <<session, observations, rules>>

\* One question per row: asking again returns the one that stands.
record_import_question(s, i) ==
  /\ require_open(s)
  /\ questions' = IF questions[s][i] # NONE THEN questions
                  ELSE [questions EXCEPT ![s][i] = [answer |-> NONE, rule |-> NONE]]
  /\ UNCHANGED <<session, observations, rules>>

-----------------------------------------------------------------------------
(* Answers, and the rules they are generalised into.                       *)

Asked(s, i) == questions[s][i] # NONE
Answered(s, i) == Asked(s, i) /\ questions[s][i].answer # NONE

MayAnswer(s, i) == require_open(s) /\ Asked(s, i) /\ ~Answered(s, i)

\* The question and the row it is about, in one transaction.
answer_import_question(s, i, a) ==
  /\ MayAnswer(s, i)
  /\ questions' = [questions EXCEPT ![s][i].answer = a]
  /\ observations' = [observations EXCEPT ![s][i].answer = a]
  /\ UNCHANGED <<session, rules>>

\* Name the rule on the question: answered, and naming none yet.
MayName(s, i) == require_open(s) /\ Answered(s, i) /\ questions[s][i].rule = NONE
attach_import_question_rule(s, i, r) ==
  /\ MayName(s, i)
  /\ questions' = [questions EXCEPT ![s][i].rule = r]
  /\ UNCHANGED <<session, observations, rules>>

\* Mutant: the stamp does not ask whether the session is open.
MayStamp_Closed(s, is) ==
  \A i \in is : observations[s][i].answer # NONE /\ observations[s][i].rule = NONE

\* Stamp the rule on every row the answer settled, or on none of them.
MayStamp(s, is) ==
  /\ require_open(s)
  /\ \A i \in is : observations[s][i].answer # NONE /\ observations[s][i].rule = NONE

attach_import_answer_rule(s, is, r) ==
  /\ MayStamp(s, is)
  /\ observations' = [observations EXCEPT ![s] =
       [i \in DOMAIN @ |-> IF i \in is THEN [@[i] EXCEPT !.rule = r] ELSE @[i]]]
  /\ UNCHANGED <<session, questions, rules>>

\* Clear the question, its row, and every row its rule is stamped on; refused
\* while another question of the session names the rule.
MayWithdraw(s, i) ==
  /\ require_open(s)
  /\ Answered(s, i)
  /\ questions[s][i].rule # NONE
  /\ \A j \in RowNumbers \ {i} : Asked(s, j) => questions[s][j].rule # questions[s][i].rule
\* Mutant: the rows keep the withdrawn answer.
withdraw_import_answer_QuestionOnly(s, i) ==
  /\ MayWithdraw(s, i)
  /\ questions' = [questions EXCEPT ![s][i] = [answer |-> NONE, rule |-> NONE]]
  /\ UNCHANGED <<session, observations, rules>>

withdraw_import_answer(s, i) ==
  /\ MayWithdraw(s, i)
  /\ questions' = [questions EXCEPT ![s][i] = [answer |-> NONE, rule |-> NONE]]
  /\ observations' = [observations EXCEPT ![s] =
       [j \in DOMAIN @ |-> IF j = i \/ @[j].rule = questions[s][i].rule
                           THEN [@[j] EXCEPT !.answer = NONE, !.rule = NONE]
                           ELSE @[j]]]
  /\ UNCHANGED <<session, rules>>

\* A rule keeps the version it is written under, the next one free.
insert_rule(subject, a) ==
  /\ Len(rules) < MaxRules
  /\ rules' = Append(rules, [subject |-> subject, answer |-> a, active |-> TRUE])
  /\ UNCHANGED <<session, observations, questions>>

retire_rule(r) ==
  /\ rules[r].active
  /\ rules' = [rules EXCEPT ![r].active = FALSE]
  /\ UNCHANGED <<session, observations, questions>>

-----------------------------------------------------------------------------
\* A question is about a row the session holds, and every identifier stored is
\* one that was given out (import_session.rs, rules.rs).
StoreTypeOK ==
  /\ session \in [Sessions -> [ state: States, decl: Declarations \cup {NONE},
                              figures: Sections \cup {NONE} ]]
  /\ DOMAIN observations = Sessions
  /\ \A s \in Sessions : /\ Len(observations[s]) <= MaxRows
                         /\ \A i \in RowsOf(s) : observations[s][i] \in Observation
  /\ questions \in [Sessions -> [RowNumbers -> Question \cup {NONE}]]
  /\ \A s \in Sessions, i \in RowNumbers : Asked(s, i) => i \in RowsOf(s)
  /\ Len(rules) <= MaxRules
  /\ \A r \in DOMAIN rules : rules[r] \in Rule
=============================================================================
