----------------------------- MODULE ImportSession -----------------------------
(***************************************************************************)
(* The scenarios of an import session: open it, feed it rows, answer what  *)
(* they ask, withdraw an answer, commit it to the journal or abandon it.   *)
(*                                                                         *)
(* A scenario is a sequence of store calls with nothing held between them. *)
(* Any call of another request comes in between two of them, and a request *)
(* may stop after any of them, its earlier calls standing.                 *)
(***************************************************************************)
EXTENDS ImportStore, FiniteSets

CONSTANTS
  Sources,    \* what a fact's provenance names as its source
  Origin,     \* the source of a declaration; of none, the sessions' own channel
  Requests,   \* requests in flight together
  Workloads   \* what the callers of one behaviour do: how often each operation
              \* is called, the batches of rows fed, and whether a request may
              \* stop between two store calls

Operations == { "open", "add", "answer", "rule", "retire", "withdraw",
                "figures", "commit", "abandon" }

ASSUME SessionAssumption ==
  /\ Origin \in [Declarations \cup {NONE} -> Sources]
  /\ Workloads \subseteq [ calls: [Operations -> Nat],
                          batches: SUBSET (Seq(Intake) \ {<<>>}),
                          faults: BOOLEAN ]

VARIABLES
  journal,  \* what commits wrote, in order: facts, assertions, coverage gaps
  req,      \* req[p]: the call request p is serving and where it is
  left      \* what is left of the workload: left.calls[op] calls of op

vars == <<session, observations, questions, rules, journal, req, left>>

Idle == [pc |-> "idle"]

Init ==
  /\ StoreInit
  /\ journal = <<>>
  /\ req = [p \in Requests |-> Idle]
  /\ left \in Workloads

\* A call of op begins; the request's registers are set to r.
Call(p, op, r) ==
  /\ req[p] = Idle
  /\ left.calls[op] > 0
  /\ left' = [left EXCEPT !.calls[op] = @ - 1]
  /\ req' = [req EXCEPT ![p] = r]
\* Request p goes on with registers r, or answers and is idle again.
Becomes(p, r) == req' = [req EXCEPT ![p] = r] /\ UNCHANGED left
GoesTo(p, pc) == Becomes(p, [req[p] EXCEPT !.pc = pc])
Returns(p) == Becomes(p, Idle)
\* The store refuses the call, and the scenario returns its error.
Refused(p) == Returns(p) /\ UNCHANGED <<store, journal>>

-----------------------------------------------------------------------------
(* Reading.                                                                *)

\* What the standing rules say of a row: of those that match, the latest.
Matching(subject, book) == {r \in DOMAIN book : book[r].active /\ book[r].subject = subject}
IsLatest(r, rs) == r \in rs /\ \A o \in rs : o <= r
\* resolution_of: a conclusion that normalises is a fact as it stands.  Else an
\* answer settles the row, under the rule stamped on it; else a standing rule
\* does; else nothing does.
Settled(row, book) ==
  \/ row.intake.form \in {"concluded", "malformed"}
  \/ /\ row.intake.form = "observed"
     /\ row.answer # NONE \/ Matching(row.intake.subject, book) # {}
resolution_of(row, book) ==
  IF row.intake.form # "observed" THEN [answer |-> NONE, rule |-> NONE]
  ELSE IF row.answer # NONE THEN [answer |-> row.answer, rule |-> row.rule]
  ELSE LET r == CHOOSE r \in DOMAIN book : IsLatest(r, Matching(row.intake.subject, book))
       IN [answer |-> book[r].answer, rule |-> r]

\* read_session is a call for the session, one for the rows and one for the
\* questions; the figures are read with the questions.  The rules follow.
list_rows(p) ==
  /\ req[p].pc = "list_rows"
  /\ Becomes(p, [req[p] EXCEPT !.pc = "list_questions", !.rows = observations[req[p].s]])
  /\ UNCHANGED <<store, journal>>

list_questions(p) ==
  /\ req[p].pc = "list_questions"
  /\ Becomes(p, [req[p] EXCEPT !.pc = "decide", !.asked = questions[req[p].s],
                               !.figures = session[req[p].s].figures])
  /\ UNCHANGED <<store, journal>>

\* The registers of a call that begins by reading session s: what it reads, then
\* those of an answer or a withdrawal, then those of a commit.
Reading(op, s) ==
  [ pc |-> "list_rows", op |-> op, s |-> s, state |-> session[s].state,
    rows |-> <<>>, asked |-> <<>>, figures |-> NONE,
    row |-> NONE, answer |-> NONE, reach |-> FALSE, mints |-> FALSE,
    targets |-> {}, todo |-> {}, rule |-> NONE,
    plan |-> <<>>, declined |-> {}, next |-> 1 ]

\* The questions p read that are still the owner's to answer: open, about a row
\* nothing settles.  A question about a row p did not read is one too.
awaits_answer(p, i) ==
  /\ req[p].asked[i] # NONE
  /\ req[p].asked[i].answer = NONE
  /\ i \in DOMAIN req[p].rows => ~Settled(req[p].rows[i], rules)

-----------------------------------------------------------------------------
(* Opening a session and feeding it.                                       *)

\* A standing session that holds rows is a statement half imported: refused.
open_session(p) ==
  /\ \E d \in Declarations \cup {NONE} :
       /\ \A s \in standing_session(d) : observations[s] = <<>>
       /\ Call(p, "open", [pc |-> "open", decl |-> d])
  /\ UNCHANGED <<store, journal>>

open_session_insert(p) ==
  /\ req[p].pc = "open"
  /\ \/ /\ \E s \in Sessions : open_import_session(req[p].decl, s)
        /\ UNCHANGED journal
        /\ Returns(p)
     \/ \* every identifier of the bounded set is used
        /\ \A s \in Sessions : session[s].state # "unopened"
        /\ standing_session(req[p].decl) = {}
        /\ Refused(p)

\* The rules are read once, before the first row is written.  A row for another
\* account than the declared one refuses the whole call here.
add_rows(p) ==
  /\ \E s \in Sessions, b \in left.batches :
       /\ session[s].state # "unopened"
       /\ Call(p, "add", [pc |-> "add_row", s |-> s, batch |-> b, book |-> rules, row |-> 0])
  /\ UNCHANGED <<store, journal>>

\* After a row: the next row of the batch, or the answer.
NextRow(p) ==
  IF Tail(req[p].batch) = <<>> THEN Returns(p)
  ELSE Becomes(p, [req[p] EXCEPT !.pc = "add_row", !.batch = Tail(@)])

\* An observed row nothing settles raises a question in a call of its own.
Ambiguous(x, book) == x.form = "observed" /\ Matching(x.subject, book) = {}
add_row(p) ==
  /\ req[p].pc = "add_row"
  /\ LET x == Head(req[p].batch) IN
     \/ /\ \E n \in RowNumbers :
             /\ add_import_observation(req[p].s, x, n)
             /\ IF ~Ambiguous(x, req[p].book) THEN NextRow(p)
                ELSE Becomes(p, [req[p] EXCEPT !.pc = "ask", !.row = n])
        /\ UNCHANGED journal
     \/ /\ \/ ~require_open(req[p].s)
           \/ /\ Len(observations[req[p].s]) = MaxRows
              /\ observation_by_key(req[p].s, row_key(x)) = {}
        /\ Refused(p)

ask(p) ==
  /\ req[p].pc = "ask"
  /\ \/ record_import_question(req[p].s, req[p].row) /\ NextRow(p) /\ UNCHANGED journal
     \/ ~require_open(req[p].s) /\ Refused(p)

state_control_figures(p) ==
  /\ \E s \in Sessions, f \in Sections : /\ Call(p, "figures", Idle)
                                         /\ state_import_control_figures(s, f)
  /\ UNCHANGED journal

\* The owner's own standing decisions.
create_rule(p) ==
  /\ \E subject \in Subjects, a \in Answers : /\ Call(p, "rule", Idle)
                                              /\ insert_rule(subject, a)
  /\ UNCHANGED journal

retire(p) ==
  /\ \E r \in DOMAIN rules : Call(p, "retire", Idle) /\ retire_rule(r)
  /\ UNCHANGED journal

-----------------------------------------------------------------------------
(* Answering.                                                              *)

\* The answer to the question of row i: reach says whether every question alike
\* is settled with it, mints whether a standing rule is made of it.
answer_question(p) ==
  /\ \E s \in Sessions, i \in RowNumbers, a \in Answers, reach, mints \in BOOLEAN :
       /\ session[s].state # "unopened"
       /\ Call(p, "answer", [Reading("answer", s) EXCEPT !.row = i, !.answer = a,
                                                         !.reach = reach, !.mints = mints])
  /\ UNCHANGED <<store, journal>>

\* The row is one p read, and the caller concluded nothing about it.
observed_row(p, i) == i \in DOMAIN req[p].rows /\ req[p].rows[i].intake.form = "observed"

\* The other rows the answer reaches, chosen before anything is written.
targets_of(p) ==
  IF ~req[p].reach THEN {}
  ELSE {i \in DOMAIN req[p].rows \ {req[p].row} :
          /\ awaits_answer(p, i)
          /\ observed_row(p, i)
          /\ req[p].rows[i].intake.subject = req[p].rows[req[p].row].intake.subject}

answer_decide(p) ==
  /\ req[p].pc = "decide" /\ req[p].op = "answer"
  /\ \/ /\ req[p].asked[req[p].row] # NONE
        /\ observed_row(p, req[p].row)
        /\ Becomes(p, [req[p] EXCEPT !.pc = "answer_like", !.targets = targets_of(p),
                                     !.todo = targets_of(p)])
        /\ UNCHANGED <<store, journal>>
     \/ /\ req[p].asked[req[p].row] = NONE \/ ~observed_row(p, req[p].row)
        /\ Refused(p)

\* The rows alike are answered first, in row order, and the row asked about last.
answer_like(p) ==
  /\ req[p].pc = "answer_like"
  /\ LET first == IF req[p].todo = {} THEN req[p].row
                  ELSE CHOOSE i \in req[p].todo : \A j \in req[p].todo : i <= j
     IN \/ /\ answer_import_question(req[p].s, first, req[p].answer)
           /\ IF req[p].todo # {}
              THEN Becomes(p, [req[p] EXCEPT !.todo = @ \ {first}])
              ELSE IF req[p].mints THEN GoesTo(p, "mint") ELSE Returns(p)
           /\ UNCHANGED journal
        \/ ~MayAnswer(req[p].s, first) /\ Refused(p)

\* The rule is derived from the answer and written after it.
mint(p) ==
  /\ req[p].pc = "mint"
  /\ \/ /\ insert_rule(req[p].rows[req[p].row].intake.subject, req[p].answer)
        /\ Becomes(p, [req[p] EXCEPT !.pc = "name_rule", !.rule = Len(rules) + 1])
        /\ UNCHANGED journal
     \/ Len(rules) = MaxRules /\ Refused(p)

name_rule(p) ==
  /\ req[p].pc = "name_rule"
  /\ \/ /\ attach_import_question_rule(req[p].s, req[p].row, req[p].rule)
        /\ GoesTo(p, "stamp_rule")
        /\ UNCHANGED journal
     \/ ~MayName(req[p].s, req[p].row) /\ Refused(p)

Stamped(p) == req[p].targets \cup {req[p].row}
stamp_rule(p) ==
  /\ req[p].pc = "stamp_rule"
  /\ \/ /\ attach_import_answer_rule(req[p].s, Stamped(p), req[p].rule)
        /\ Returns(p)
        /\ UNCHANGED journal
     \/ ~MayStamp(req[p].s, Stamped(p)) /\ Refused(p)

withdraw_answer(p) ==
  /\ \E s \in Sessions, i \in RowNumbers :
       /\ session[s].state # "unopened"
       /\ Call(p, "withdraw", [Reading("withdraw", s) EXCEPT !.row = i])
  /\ UNCHANGED <<store, journal>>

\* The rule the question names has to be retired first; a rule is never revived.
MayBeWithdrawn(q) == q # NONE /\ q.rule # NONE /\ ~rules[q.rule].active
withdraw_decide(p) ==
  /\ req[p].pc = "decide" /\ req[p].op = "withdraw"
  /\ IF MayBeWithdrawn(req[p].asked[req[p].row])
     THEN GoesTo(p, "withdraw") /\ UNCHANGED <<store, journal>>
     ELSE Refused(p)

withdraw(p) ==
  /\ req[p].pc = "withdraw"
  /\ \/ withdraw_import_answer(req[p].s, req[p].row) /\ Returns(p) /\ UNCHANGED journal
     \/ ~MayWithdraw(req[p].s, req[p].row) /\ Refused(p)

-----------------------------------------------------------------------------
(* Committing and abandoning.                                              *)

commit_session(p) ==
  /\ \E s \in Sessions :
       /\ session[s].state # "unopened"
       /\ Call(p, "commit", Reading("commit", s))
  /\ UNCHANGED <<store, journal>>

\* The source of what session s writes.
session_origin(s) == Origin[session[s].decl]

\* One candidate per row the reading settles; the rest are declined.
Candidates(p) ==
  LET rows == req[p].rows
      good == {i \in DOMAIN rows : Settled(rows[i], rules)}
      says(i) == resolution_of(rows[i], rules)
  IN [i \in good |-> [ kind |-> "fact", session |-> req[p].s, row |-> i,
                       source |-> session_origin(req[p].s), line |-> rows[i].intake.line,
                       key |-> rows[i].intake.key,
                       answer |-> says(i).answer, rule |-> says(i).rule ]]

\* commit_session decides on what it read: an open session, no question waiting.
\* A revision the caller states, and a section the rows disagree with, may refuse.
commit_decide(p) ==
  /\ req[p].pc = "decide" /\ req[p].op = "commit"
  /\ \/ /\ req[p].state = "open"
        /\ \A i \in RowNumbers : ~awaits_answer(p, i)
        /\ LET c == Candidates(p) IN
           Becomes(p, [req[p] EXCEPT !.pc = "submit", !.plan = c,
                                     !.declined = DOMAIN req[p].rows \ DOMAIN c])
        /\ UNCHANGED <<store, journal>>
     \/ Refused(p)

\* find_duplicate: the journal holds the event, by the source's identifier within
\* the source, or by its idempotency key.
SameLine(d, e) == e.line # NONE /\ d.line = e.line /\ d.source = e.source
\* Mutant: only the strongest identity is searched.
find_duplicate_LineOnly(e) == \E n \in DOMAIN journal : SameLine(journal[n], e)

find_duplicate(e) ==
  \E n \in DOMAIN journal : \/ SameLine(journal[n], e)
                            \/ e.key # NONE /\ journal[n].key = e.key

\* A candidate whose event the structural validation refuses is answered so, and
\* the loop goes on.
structural_rejection(p, i) == req[p].rows[i].intake.form = "malformed"

\* submit_candidates: fact by fact, each in a transaction of its own.  A fact
\* whose identity the journal holds is answered as a duplicate.
record_candidate(p) ==
  /\ req[p].pc = "submit"
  /\ req[p].next \in DOMAIN req[p].rows
  /\ LET i == req[p].next IN
     IF i \in DOMAIN req[p].plan /\ ~structural_rejection(p, i) /\ ~find_duplicate(req[p].plan[i])
     THEN journal' = Append(journal, req[p].plan[i])
     ELSE UNCHANGED journal
  /\ Becomes(p, [req[p] EXCEPT !.next = @ + 1])
  /\ UNCHANGED store

\* Mutant: the assertions do not wait for the rows.
Submitted_First(p) == TRUE

Submitted(p) == req[p].next \notin DOMAIN req[p].rows

\* What the source printed about itself: the same fact for whichever session
\* states it.  Two fields are a history: the rows the commit read, and those of
\* them it read as settled.
control_assertion(p) ==
  [ kind |-> "assertion", session |-> req[p].s, source |-> session_origin(req[p].s),
    line |-> NONE, key |-> [claim |-> req[p].figures],
    read |-> DOMAIN req[p].rows, settled |-> DOMAIN req[p].plan ]

\* How a gap names a declined row: by its key, or by a fingerprint of what was sent.
declined_row(x) ==
  [given |-> row_key(x), fingerprint |-> IF row_key(x) = NONE THEN x ELSE NONE]
\* The names of the declined rows, each as often as it occurs.
DeclinedNames(p) ==
  LET name(i) == declined_row(req[p].rows[i].intake)
  IN [d \in {name(i) : i \in req[p].declined} |->
        Cardinality({i \in req[p].declined : name(i) = d})]
coverage_gap(p) ==
  [ kind |-> "gap", source |-> session_origin(req[p].s), line |-> NONE,
    key |-> [gap |-> req[p].figures, source |-> session_origin(req[p].s),
             rows |-> DeclinedNames(p)] ]

\* An event the journal holds is answered as a duplicate.
Unheld(stated, e) == IF stated /\ ~find_duplicate(e) THEN <<e>> ELSE <<>>
control_events(p) ==
  LET stated == req[p].figures # NONE
  IN Unheld(stated, control_assertion(p))
       \o Unheld(stated /\ req[p].declined # {}, coverage_gap(p))

\* The assertions and the gaps, in one call after the rows.  The call appends
\* event by event, each in a transaction of its own; when one fails, those
\* before it stand and the commit returns the error.
record_assertions(p) ==
  /\ req[p].pc = "submit"
  /\ Submitted(p)
  /\ LET new == control_events(p) IN
     \/ journal' = journal \o new /\ GoesTo(p, "close")
     \/ /\ left.faults
        /\ \E n \in 1..(Len(new) - 1) : journal' = journal \o SubSeq(new, 1, n)
        /\ Returns(p)
  /\ UNCHANGED store

close_committed(p) ==
  /\ req[p].pc = "close"
  /\ \/ close_import_session(req[p].s, "committed") /\ Returns(p) /\ UNCHANGED journal
     \/ ~require_open(req[p].s) /\ Refused(p)

abandon_session(p) ==
  /\ \E s \in Sessions : /\ Call(p, "abandon", Idle)
                         /\ close_import_session(s, "abandoned")
  /\ UNCHANGED journal

\* A request stops where it is: an error of a store call, a stop of the process.
stop(p) == left.faults /\ req[p] # Idle /\ Refused(p)

Next ==
  \E p \in Requests :
    \/ open_session(p) \/ open_session_insert(p)
    \/ add_rows(p) \/ add_row(p) \/ ask(p) \/ state_control_figures(p)
    \/ create_rule(p) \/ retire(p)
    \/ list_rows(p) \/ list_questions(p)
    \/ answer_question(p) \/ answer_decide(p) \/ answer_like(p)
    \/ mint(p) \/ name_rule(p) \/ stamp_rule(p)
    \/ withdraw_answer(p) \/ withdraw_decide(p) \/ withdraw(p)
    \/ commit_session(p) \/ commit_decide(p) \/ record_candidate(p)
    \/ record_assertions(p) \/ close_committed(p) \/ abandon_session(p)
    \/ stop(p)

Spec == Init /\ [][Next]_vars

-----------------------------------------------------------------------------
(* Properties.                                                             *)

Facts == {n \in DOMAIN journal : journal[n].kind = "fact"}
Assertions == {n \in DOMAIN journal : journal[n].kind = "assertion"}
\* Row i of session s is in the journal: written from there, or held under one of
\* its identities.
Written(s, i) ==
  LET x == observations[s][i].intake IN
  \E n \in DOMAIN journal :
    \/ journal[n].kind = "fact" /\ journal[n].session = s /\ journal[n].row = i
    \/ x.line # NONE /\ journal[n].line = x.line /\ journal[n].source = session_origin(s)
    \/ x.key # NONE /\ journal[n].key = x.key

\* The store is well formed, and what the journal holds came from a row of the
\* session it names, settled unless its caller concluded it.
TypeOK ==
  /\ StoreTypeOK
  /\ \A n \in Facts :
       /\ journal[n].row \in RowsOf(journal[n].session)
       /\ journal[n].answer \in Answers \cup {NONE}
       /\ journal[n].rule \in RuleIds \cup {NONE}
       /\ journal[n].answer = NONE =>
            observations[journal[n].session][journal[n].row].intake.form = "concluded"

\* A row with an identity becomes a fact once, however often its session is
\* committed after a failure, by several requests, or its row is fed to another
\* session: the caller's key names one fact, and so does the source's identifier
\* within the source (find_duplicate at the append).
KeyedRowsAreWrittenOnce ==
  \A m, n \in Facts :
    \/ SameLine(journal[m], journal[n])
    \/ journal[m].key # NONE /\ journal[m].key = journal[n].key
    => m = n

\* What commit reads off a row is what the owner is shown: a row's answer is that
\* of its question, and a question that names a rule shows the answer its row
\* still has.  The other way round, a question that names none may show an answer
\* its row has lost (answer_import_question, withdraw_import_answer).
RowsAnswerAsTheirQuestions ==
  \A s \in Sessions : \A i \in RowsOf(s) :
    /\ observations[s][i].answer # NONE =>
         Asked(s, i) /\ questions[s][i].answer = observations[s][i].answer
    /\ observations[s][i].rule # NONE => observations[s][i].answer # NONE
    /\ Asked(s, i) /\ questions[s][i].rule # NONE =>
         Answered(s, i) /\ observations[s][i].answer = questions[s][i].answer

\* What answer_import_question says its one transaction rules out: a question
\* answered while its row is not, in a session that looks settled.  False after the
\* withdrawal of an answer that reached other rows: see the README.
AnsweredQuestionsHoldTheirRow ==
  \A s \in Sessions : \A i \in RowsOf(s) :
    Answered(s, i) => observations[s][i].answer = questions[s][i].answer

\* What attach_import_answer_rule says it stamps: the rule one answer minted, on
\* the rows that answer settled.  False when the stamp arrives after its answer was
\* withdrawn and another given: see the README.
StampedRowsFollowTheirRule ==
  \A s \in Sessions : \A i \in RowsOf(s) :
    observations[s][i].rule # NONE => rules[observations[s][i].rule].answer = observations[s][i].answer

\* A control assertion is in the journal only after the rows its commit settled:
\* each is there, whoever wrote it, but for those whose event the structural
\* validation refused (commit_session).
AssertionsStandOnRows ==
  \A n \in Assertions : \A i \in journal[n].settled :
    \/ Written(journal[n].session, i)
    \/ observations[journal[n].session][i].intake.form = "malformed"

\* What commit_session says the gaps are written with the assertions for: once the
\* session is committed, its figures do not stand alone over a journal that is
\* short of a row the commit read.  False of a row whose event the structural
\* validation refuses: see the README.
MissingRowsAreGapped ==
  \A n \in Assertions : session[journal[n].session].state = "committed" =>
    \A i \in journal[n].read :
      \/ Written(journal[n].session, i)
      \/ \E g \in DOMAIN journal :
           /\ journal[g].kind = "gap" /\ journal[g].key.gap = journal[n].key.claim
           /\ declined_row(observations[journal[n].session][i].intake) \in DOMAIN journal[g].key.rows

\* A closed session is closed for good: no request under way when it closed
\* changes its state, its rows or its questions (require_open).
ClosedIsFinal ==
  [][\A s \in Sessions : session[s].state \in {"committed", "abandoned"} =>
       /\ session'[s] = session[s]
       /\ observations'[s] = observations[s]
       /\ questions'[s] = questions[s]]_vars
=============================================================================
