----------------------------- MODULE CategoryIndex -----------------------------
(***************************************************************************)
(* Category rules and the projection event_category_assignments.           *)
(* A rule change and the rebuild it calls for are two separate store       *)
(* calls of one request, so appends, reads and other requests may fall     *)
(* between them, and the request may end (an error, a dropped connection,  *)
(* a restart) with the rebuild never made.  A filtered read looks for      *)
(* signs of that (is_stale) and repairs the projection first.              *)
(***************************************************************************)
EXTENDS Integers, FiniteSets

CONSTANTS
  Events,      \* the facts the journal may come to hold
  Drafts,      \* the rules the owner may create
  MaxVersion,  \* bound: rules ever created
  MaxOwed,     \* bound: requests between a rule change and its rebuild
  NONE

\* CategoryRule as written by a caller: the matcher's class and text length, the
\* events it covers and matches, and the category it assigns.
Draft ==
  [ class: {"Row", "SourceCategory", "Description"}, len: Nat \ {0},
    matches: SUBSET Events, category: STRING ]

\* The two exact matchers compare whole values, so two that match one event
\* carry the same text and with it the same length.
ASSUME DraftsAssumption ==
  /\ Drafts \subseteq Draft
  /\ \A d, f \in Drafts :
       /\ d.class = f.class /\ d.class # "Description"
       /\ d.matches \cap f.matches # {}
       => d.len = f.len
  /\ MaxVersion \in Nat \ {0}
  /\ MaxOwed \in Nat \ {0}

VARIABLES
  rules,     \* the rows of category_rules, retired ones included
  journal,   \* the events in the journal
  index,     \* the rows of event_category_assignments
  owed,      \* requests that changed a rule and have not rebuilt yet
  lost       \* history: a request ended without its rebuild since the last one

vars == <<rules, journal, index, owed, lost>>

Rule == [version: 1..MaxVersion, draft: Drafts, retired: BOOLEAN, replaces: 0..MaxVersion]

active_rules(rs) == {r \in rs : ~r.retired}

-----------------------------------------------------------------------------
(* iaam_core::category: the priority ladder.                               *)

ClassRank(c) == CASE c = "Row" -> 3 [] c = "SourceCategory" -> 2 [] OTHER -> 1

\* The class first, then rule_priority: the longest text, then the version.
\* Versions are unique within an owner, so the rule id never decides.
Outranks(r, s) ==
  \/ ClassRank(r.draft.class) > ClassRank(s.draft.class)
  \/ /\ r.draft.class = s.draft.class
     /\ \/ r.draft.len > s.draft.len
        \/ r.draft.len = s.draft.len /\ r.version > s.version

\* The winning rule, as a set; empty is NotDecomposed.
assign(e, rs) ==
  LET matching == {r \in rs : e \in r.draft.matches}
  IN  {r \in matching : \A s \in matching \ {r} : Outranks(r, s)}

\* Mutant: a proposed source-category rule shadows a row rule.
assign_with_proposed_OverRow(e, rs, d) ==
  LET current == {r.draft : r \in assign(e, rs)}
  IN  IF \/ e \notin d.matches
         \/ d.class = "Description" /\ \E c \in current : c.class # "Description"
      THEN current ELSE {d}

\* assign_with_proposed: the draft that decides if d were the newest rule of
\* its class; the text length of d is not compared.
assign_with_proposed(e, rs, d) ==
  LET current == {r.draft : r \in assign(e, rs)}
  IN  IF \/ e \notin d.matches
         \/ \E c \in current : ClassRank(c.class) > ClassRank(d.class)
      THEN current ELSE {d}

-----------------------------------------------------------------------------
(* journal/category_index.rs                                               *)

highest_version(rs) ==
  IF rs = {} THEN 0
  ELSE CHOOSE n \in {r.version : r \in rs} : \A r \in rs : r.version <= n

\* The rows the projection holds for the events es computed under the rules rs.
\* A rule's category and basis never change, so its version stands for them.
Project(es, rs) ==
  UNION {[event: {e}, rule: {r.version : r \in assign(e, rs)},
          revision: {highest_version(rs)}] : e \in es}

\* Mutant: repopulate without deleting first.
rebuild_NoDelete(es, rs) ==
  {row \in index : assign(row.event, rs) = {}} \cup Project(es, rs)

\* rebuild deletes every row and repopulates.
rebuild(es, rs) == Project(es, rs)

\* assign_for touches the row of the one event it is given.
assign_for(e, rs) == {row \in index : row.event # e} \cup Project({e}, rs)

\* Some row carries another revision, or there are rules and no row at all.
is_stale ==
  LET current == highest_version(active_rules(rules))
  IN  \/ \E row \in index : row.revision # current
      \/ current # 0 /\ index = {}

-----------------------------------------------------------------------------
(* categories.rs: the rule book.  Each operation is one transaction.       *)

Init ==
  /\ rules = {}
  /\ journal = {}
  /\ index = {}
  /\ owed = 0
  /\ lost = FALSE

\* Mutant: the first rule numbered zero.
IsNextVersion_FromZero(n) ==
  \/ rules = {} /\ n = 0
  \/ \E top \in rules :
       /\ \A r \in rules : r.version <= top.version
       /\ n = top.version + 1

\* MAX(version) + 1 over every rule, retired ones included.
IsNextVersion(n) ==
  \/ rules = {} /\ n = 1
  \/ \E top \in rules :
       /\ \A r \in rules : r.version <= top.version
       /\ n = top.version + 1

\* write_category_rule onto the rules that stand once the caller retired old.
write_category_rule(rs, d, old) ==
  \E n \in 0..MaxVersion :
    /\ IsNextVersion(n)
    /\ rules' = rs \cup {[version |-> n, draft |-> d, retired |-> FALSE, replaces |-> old]}

\* Mutant: the update's WHERE clause without "retired_at IS NULL".
IsActive_Any(r) == TRUE

IsActive(r) == ~r.retired

\* retire_category_rule_row: NotFound, so no step, unless the rule is active.
retired(r) == (rules \ {r}) \cup {[r EXCEPT !.retired = TRUE]}

\* A rule change is committed; the request that made it now owes a rebuild.
Owe ==
  /\ owed < MaxOwed
  /\ owed' = owed + 1
  /\ UNCHANGED <<journal, index, lost>>

insert_category_rule(d) ==
  /\ write_category_rule(rules, d, 0)
  /\ Owe

\* Retire and create in one transaction.
amend_category_rule(r, d) ==
  /\ IsActive(r)
  /\ write_category_rule(retired(r), d, r.version)
  /\ Owe

retire_category_rule(r) ==
  /\ IsActive(r)
  /\ rules' = retired(r)
  /\ Owe

\* The second call of a create, amend or retire request.
rebuild_category_index ==
  /\ owed > 0
  /\ index' = rebuild(journal, active_rules(rules))
  /\ owed' = owed - 1
  /\ lost' = FALSE
  /\ UNCHANGED <<rules, journal>>

\* The request ends between its two calls: the rebuild fails (busy), the client
\* hangs up and the handler is dropped, or the process stops.
request_ends_early ==
  /\ owed > 0
  /\ owed' = owed - 1
  /\ lost' = TRUE
  /\ UNCHANGED <<rules, journal, index>>

\* insert_event_in ends with assign_for, in the append's own transaction.
insert_event(e) ==
  /\ e \notin journal
  /\ journal' = journal \cup {e}
  /\ index' = assign_for(e, active_rules(rules))
  /\ UNCHANGED <<rules, owed, lost>>

\* A page filtered by category, or by its absence: repaired first if stale.
list_journal_events ==
  /\ index' = IF is_stale THEN rebuild(journal, active_rules(rules)) ELSE index
  /\ lost' = (lost /\ ~is_stale)
  /\ UNCHANGED <<rules, journal, owed>>

Next ==
  \/ \E d \in Drafts :
       \/ insert_category_rule(d)
       \/ \E r \in rules : amend_category_rule(r, d)
  \/ \E r \in rules : retire_category_rule(r)
  \/ rebuild_category_index
  \/ request_ends_early
  \/ \E e \in Events : insert_event(e)
  \/ list_journal_events

Spec == Init /\ [][Next]_vars

-----------------------------------------------------------------------------
\* Rules, categories and the index hold what the code may store: versions count
\* from one, and an index row names a fact and a rule that exist.
TypeOK ==
  /\ rules \subseteq Rule
  /\ journal \subseteq Events
  /\ index \subseteq [event: journal, rule: {r.version : r \in rules}, revision: 0..MaxVersion]
  /\ owed \in 0..MaxOwed
  /\ lost \in BOOLEAN

\* Once no request owes a rebuild and none was lost since the last one, every
\* row of the projection is what the ladder says under the active rules and no
\* row is missing, however rule changes, rebuilds and appends interleaved.
QuietIndexIsCurrent ==
  owed = 0 /\ ~lost =>
    {[event |-> row.event, rule |-> row.rule] : row \in index}
      = UNION {[event: {e}, rule: {r.version : r \in assign(e, active_rules(rules))}]
                 : e \in journal}

\* A rule's number is never reused, not even after retirement: it is a
\* decision's identity in the projection's rows (write_category_rule's comment).
VersionsAreUnique == \A r, s \in rules : r.version = s.version => r = s

\* Two edits of one rule never fork it: a rule has at most one successor, and
\* once it has one it is retired (amend_category_rule's comment: never both).
EditsNeverFork ==
  \A r, s \in rules :
    /\ r.replaces = s.replaces /\ r.replaces # 0 => r = s
    /\ r.replaces = s.version => s.retired

\* What creating d would make of event e: the draft that decides afterwards.
Outcome(e, d) ==
  LET top == highest_version(rules)
      new == [version |-> top + 1, draft |-> d, retired |-> FALSE, replaces |-> 0]
  IN  {r.draft : r \in assign(e, active_rules(rules) \cup {new})}

\* For the two exact matchers the preview shows what creating the rule does.
ExactPreviewIsTheOutcome ==
  \A d \in Drafts, e \in journal :
    d.class # "Description"
      => assign_with_proposed(e, active_rules(rules), d) = Outcome(e, d)
=============================================================================
