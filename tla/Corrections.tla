------------------------------ MODULE Corrections ------------------------------
(***************************************************************************)
(* Corrections of the append-only journal: reversal, replacement,          *)
(* reclassification, confirmation of a transfer pairing, and retraction of *)
(* a whole import, by the owner or by an agent's token.                    *)
(*                                                                         *)
(* A request loads the journal, decides on what it read, and only then     *)
(* writes.  The store is behind one mutex held for a store call, never     *)
(* between two of them, so other requests come in between the load and the *)
(* write.  The write is one call that appends fact by fact, each fact in a *)
(* transaction of its own: an error or a stop leaves a prefix.             *)
(***************************************************************************)
EXTENDS Integers, FiniteSets

CONSTANTS
  Ids,        \* event identifiers; their number bounds the journal
  Accounts, Imports, Keys, Sources, Operations,
  Agents,     \* tokens with the agent scope; every other principal administers
  Principals,
  Rows,       \* the facts callers may submit
  Requests,   \* correction requests that may be in flight together
  Acts,       \* which kinds of correction are asked for
  Faults,     \* may a request fail part way?
  NONE

\* A submitted fact.  "out" and "in" are cash legs a pairing may relate; an
\* "assertion" is a control assertion about its account.
Row == [ kind: {"out", "in", "assertion"}, account: Accounts,
         import: Imports \cup {NONE}, by: Principals, key: Keys \cup {NONE},
         source: Sources, op: Operations \cup {NONE} ]

\* SourceId::declared(owner, account, CORRECTION_CHANNEL), of every correction.
correction_source(account) == [correction |-> account]
CorrectionSources == {correction_source(a) : a \in Accounts}

AllActs == {"reversal", "replacement", "reclassification", "pairing", "retraction"}

\* The keys the code derives from the identifiers it corrects.
DerivedKeys ==
  [by: {"reversal", "reclassification"}, of: Ids] \cup [by: {"pairing"}, of: Ids, with: Ids]

ASSUME CorrectionsAssumption ==
  /\ Rows \subseteq Row
  /\ Agents \subseteq Principals
  /\ Acts \subseteq AllActs
  /\ Faults \in BOOLEAN
  /\ NONE \notin Ids \cup Imports \cup Keys \cup Operations \cup Requests \cup DerivedKeys

VARIABLES
  journal,    \* the facts written
  mutex,      \* the request whose store call is running, or NONE
  req         \* req[p]: what request p is doing

vars == <<journal, mutex, req>>

Kinds == {"out", "in", "assertion", "transfer", "other"}
Fact == [ id: Ids, kind: Kinds, account: Accounts, import: Imports \cup {NONE},
          by: Principals, key: Keys \cup DerivedKeys \cup {NONE},
          source: Sources \cup CorrectionSources, op: Operations \cup {NONE},
          rel: {"none", "reversal", "replacement"}, target: Ids \cup {NONE} ]

\* A candidate has no place in the journal yet: nth is its place in the batch.
Candidate == [ id: {NONE}, nth: {1, 2}, kind: Kinds, account: Accounts, import: {NONE},
               by: Principals, key: Keys \cup DerivedKeys \cup {NONE},
               source: CorrectionSources, op: Operations \cup {NONE},
               rel: {"reversal", "replacement"}, target: Ids ]

-----------------------------------------------------------------------------
(* iaam_core::event::correction: what a set of facts resolves to.          *)

\* resolve_supersession: every target is held and no event is replaced twice.
resolves(facts) ==
  /\ \A f \in facts : f.rel # "none" => \E g \in facts : g.id = f.target
  /\ \A f, g \in facts :
       f.rel = "replacement" /\ g.rel = "replacement" /\ f.target = g.target => f = g

\* Mutant: a reversal that was itself replaced no longer counts.
Removed_Chained(facts, f) ==
  \E c \in facts : /\ c.rel # "none" /\ c.target = f.id
                   /\ ~\E d \in facts : d.rel # "none" /\ d.target = c.id

\* removal_disposition: some correction names the event.
Removed(facts, f) == \E c \in facts : c.rel # "none" /\ c.target = f.id

stands(facts, f) == f.rel # "reversal" /\ ~Removed(facts, f)

effective(facts) == {f \in facts : stands(facts, f)}

-----------------------------------------------------------------------------
(* What a request may ask for, and the candidates it turns into.           *)

Want ==
  [act: {"reversal", "reclassification"}, by: Principals, target: Ids]
  \cup [act: {"replacement"}, by: Principals, target: Ids, key: Keys \cup {NONE},
        op: Operations \cup {NONE}]
  \cup [act: {"pairing"}, by: Principals, target: Ids, with: Ids]
  \cup [act: {"retraction"}, by: Principals, import: Imports]

\* Mutant: the reversal keeps the import of what it reverses.
reversal_for_SameImport(f, by, n) ==
  [ id |-> NONE, nth |-> n, kind |-> f.kind, account |-> f.account, import |-> f.import,
    by |-> by, key |-> [by |-> "reversal", of |-> f.id],
    source |-> correction_source(f.account), op |-> NONE, rel |-> "reversal", target |-> f.id ]

\* Mutant: a reversal submitted without a derived key.
reversal_for_NoKey(f, by, n) ==
  [ id |-> NONE, nth |-> n, kind |-> f.kind, account |-> f.account, import |-> NONE,
    by |-> by, key |-> NONE,
    source |-> correction_source(f.account), op |-> NONE, rel |-> "reversal", target |-> f.id ]

reversal_for(f, by, n) ==
  [ id |-> NONE, nth |-> n, kind |-> f.kind, account |-> f.account, import |-> NONE,
    by |-> by, key |-> [by |-> "reversal", of |-> f.id],
    source |-> correction_source(f.account), op |-> NONE, rel |-> "reversal", target |-> f.id ]

\* Key and operation id are those of the operation the caller submits.
replacement_for(f, by, key, op) ==
  [ id |-> NONE, nth |-> 1, kind |-> f.kind, account |-> f.account, import |-> NONE,
    by |-> by, key |-> key,
    source |-> correction_source(f.account), op |-> op, rel |-> "replacement", target |-> f.id ]

\* Mutant: the reclassification keeps no key of its own.
reclassification_for_NoKey(f, by) ==
  [ id |-> NONE, nth |-> 2, kind |-> "other", account |-> f.account, import |-> NONE,
    by |-> by, key |-> NONE,
    source |-> correction_source(f.account), op |-> f.op, rel |-> "replacement", target |-> f.id ]

\* Mutant: one key for both facts of a reclassification.
reclassification_for_SameKey(f, by) ==
  [ id |-> NONE, nth |-> 2, kind |-> "other", account |-> f.account, import |-> NONE,
    by |-> by, key |-> [by |-> "reversal", of |-> f.id],
    source |-> correction_source(f.account), op |-> f.op, rel |-> "replacement", target |-> f.id ]

\* The row read back from the fact (observed_for) keeps its operation id, which
\* the new fact carries under the correction's source.
reclassification_for(f, by) ==
  [ id |-> NONE, nth |-> 2, kind |-> "other", account |-> f.account, import |-> NONE,
    by |-> by, key |-> [by |-> "reclassification", of |-> f.id],
    source |-> correction_source(f.account), op |-> f.op, rel |-> "replacement", target |-> f.id ]

\* Mutant: the transfer written after the reversal of the incoming leg.
transfer_for_Last(out, in, by) ==
  [ id |-> NONE, nth |-> 2, kind |-> "transfer", account |-> out.account, import |-> NONE,
    by |-> by, key |-> [by |-> "pairing", of |-> out.id, with |-> in.id],
    source |-> correction_source(out.account), op |-> NONE,
    rel |-> "replacement", target |-> out.id ]

transfer_for(out, in, by) ==
  [ id |-> NONE, nth |-> 1, kind |-> "transfer", account |-> out.account, import |-> NONE,
    by |-> by, key |-> [by |-> "pairing", of |-> out.id, with |-> in.id],
    source |-> correction_source(out.account), op |-> NONE,
    rel |-> "replacement", target |-> out.id ]

covers(import, f) == f.import = import

Covered(facts, import) == {f \in facts : covers(import, f)}

\* The four conditions on an agent's retraction: a named import, every row of
\* it this token's own, every row effective, no standing assertion over it.
undoes_only_its_own_declaration(facts, w) ==
  /\ \A f \in Covered(facts, w.import) : f.by = w.by /\ stands(facts, f)
  /\ ~\E a \in effective(facts) :
       /\ a.kind = "assertion" /\ ~covers(w.import, a)
       /\ \E f \in Covered(facts, w.import) : f.account = a.account

\* candidate_for, and correct_import's reversal of each effective target.
candidates(facts, w) ==
  CASE w.act = "reversal" ->
         {reversal_for(f, w.by, 1) : f \in {g \in facts : g.id = w.target}}
    [] w.act = "replacement" ->
         {replacement_for(f, w.by, w.key, w.op) : f \in {g \in facts : g.id = w.target}}
    [] w.act = "reclassification" ->
         UNION {{reversal_for(f, w.by, 1), reclassification_for(f, w.by)}
                  : f \in {g \in facts : g.id = w.target}}
    [] w.act = "pairing" ->
         {transfer_for(f, g, w.by) : f \in {h \in facts : h.id = w.target},
                                     g \in {h \in facts : h.id = w.with}}
         \cup {reversal_for(g, w.by, 2) : g \in {h \in facts : h.id = w.with}}
    [] OTHER ->
         {reversal_for(f, w.by, 1) : f \in Covered(facts, w.import) \cap effective(facts)}

\* unknown_target, the refusal to reverse a reversal, and observed_for.
Correctable(facts, w) ==
  CASE w.act = "replacement" -> \E f \in facts : f.id = w.target
    [] w.act = "reversal" -> \E f \in facts : f.id = w.target /\ f.rel # "reversal"
    [] w.act = "reclassification" ->
         \E f \in facts : f.id = w.target /\ f.rel # "reversal" /\ f.kind # "assertion"
    [] w.act = "pairing" -> \E f \in facts : f.id = w.with /\ f.rel # "reversal"
    [] OTHER -> w.by \in Agents => undoes_only_its_own_declaration(facts, w)

\* An occupied key is fine when its holder is this very correction and counts.
refuse_occupied_keys(facts, cs) ==
  \E c \in cs, f \in facts :
    /\ c.key # NONE /\ f.key = c.key
    /\ Removed(facts, f) \/ f.rel # c.rel \/ f.target # c.target

checked_against_resolve(facts, cs) ==
  resolves(facts \cup cs) /\ ~refuse_occupied_keys(facts, cs)

\* What correct_events and correct_import decide on the journal they loaded.
Accepted(facts, w) ==
  Correctable(facts, w) /\ checked_against_resolve(facts, candidates(facts, w))

\* propose over the effective set: an outgoing and an incoming leg of two
\* accounts.  Amount, currency and date are equal throughout this model.
propose_journal_pairings(facts, out, in) ==
  /\ resolves(facts)
  /\ \E f, g \in effective(facts) :
       /\ f.id = out /\ f.kind = "out"
       /\ g.id = in /\ g.kind = "in"
       /\ f.account # g.account

-----------------------------------------------------------------------------
Idle == [pc |-> "idle"]

Init ==
  /\ journal = {}
  /\ mutex = NONE
  /\ req = [p \in Requests |-> Idle]

SameOperation(f, c) == c.op # NONE /\ f.source = c.source /\ f.op = c.op
SameKey(f, c) == c.key # NONE /\ f.key = c.key

\* Mutant: only facts that still count hold their identities.
find_duplicate_Effective(c) == {f \in effective(journal) : SameOperation(f, c) \/ SameKey(f, c)}

\* IdentityScope::Source: the operation within its source, then the key; an
\* identifier drawn for the occasion is never found.  Every call answers with a
\* fact of this set, the operation's before the key's.
find_duplicate(c) == {f \in journal : SameOperation(f, c) \/ SameKey(f, c)}

FreshIds == Ids \ {f.id : f \in journal}

\* append_event_in_order: answered as a duplicate, or written.
append(c) ==
  \/ find_duplicate(c) # {} /\ UNCHANGED journal
  \/ /\ find_duplicate(c) = {}
     /\ \E i \in FreshIds :
          journal' = journal \cup
            {[ id |-> i, kind |-> c.kind, account |-> c.account, import |-> c.import,
               by |-> c.by, key |-> c.key, source |-> c.source, op |-> c.op,
               rel |-> c.rel, target |-> c.target ]}

\* One row of an import, a manual entry or a control assertion: one store call.
record_candidate(r) ==
  /\ mutex = NONE
  /\ append([ id |-> NONE, nth |-> 1, kind |-> r.kind, account |-> r.account,
              import |-> r.import, by |-> r.by, key |-> r.key,
              source |-> r.source, op |-> r.op, rel |-> "none", target |-> NONE ])
  /\ UNCHANGED <<mutex, req>>

\* A request arrives.  confirm_journal_pairing first reads the proposals.
start(p, w) ==
  /\ req[p] = Idle
  /\ w.act \in Acts
  /\ w.act = "pairing" => mutex = NONE /\ propose_journal_pairings(journal, w.target, w.with)
  /\ req' = [req EXCEPT ![p] = [pc |-> "started", want |-> w]]
  /\ UNCHANGED <<journal, mutex>>

load_journal(p) ==
  /\ req[p].pc = "started"
  /\ mutex = NONE
  /\ req' = [req EXCEPT ![p] = [pc |-> "loaded", want |-> req[p].want, seen |-> journal]]
  /\ UNCHANGED <<journal, mutex>>

refuse(p) ==
  /\ req[p].pc = "loaded"
  /\ ~Accepted(req[p].seen, req[p].want)
  /\ req' = [req EXCEPT ![p] = Idle]
  /\ UNCHANGED <<journal, mutex>>

\* append_checked reaches the store: the batch begins.
append_events(p) ==
  /\ req[p].pc = "loaded"
  /\ Accepted(req[p].seen, req[p].want)
  /\ mutex = NONE
  /\ mutex' = p
  /\ req' = [req EXCEPT ![p] = [pc |-> "writing", want |-> req[p].want, seen |-> req[p].seen,
                                todo |-> candidates(req[p].seen, req[p].want)]]
  /\ UNCHANGED journal

append_next(p) ==
  /\ req[p].pc = "writing"
  /\ \E c \in req[p].todo :
       /\ \A d \in req[p].todo : c.nth <= d.nth
       /\ append(c)
       /\ req' = [req EXCEPT ![p] = [pc |-> "writing", want |-> req[p].want,
                                     seen |-> req[p].seen, todo |-> req[p].todo \ {c}]]
  /\ UNCHANGED mutex

\* Every candidate was answered: the outcome goes back to the caller.
complete(p) ==
  /\ req[p].pc = "writing" /\ req[p].todo = {}
  /\ req' = [req EXCEPT ![p] = Idle]
  /\ mutex' = NONE
  /\ UNCHANGED journal

\* A store error or a stop at any point, or the caller gone before the write:
\* what was appended stays.
fail(p) ==
  /\ Faults
  /\ req[p] # Idle
  /\ req' = [req EXCEPT ![p] = Idle]
  /\ mutex' = IF mutex = p THEN NONE ELSE mutex
  /\ UNCHANGED journal

Next ==
  \/ \E r \in Rows : record_candidate(r)
  \/ \E p \in Requests :
       \/ \E w \in Want : start(p, w)
       \/ load_journal(p)
       \/ refuse(p)
       \/ append_events(p)
       \/ append_next(p)
       \/ complete(p)
       \/ fail(p)

Spec == Init /\ [][Next]_vars

-----------------------------------------------------------------------------
\* Facts, requests and candidates are well formed: a request decides on facts the
\* journal really holds, and a correction never carries an import of its own.
TypeOK ==
  /\ journal \subseteq Fact
  /\ mutex \in Requests \cup {NONE}
  /\ \A p \in Requests :
       \/ req[p] = Idle
       \/ /\ req[p].pc \in {"started", "loaded", "writing"}
          /\ req[p].want \in Want
          /\ req[p].pc # "started" => req[p].seen \subseteq journal
          /\ req[p].pc = "writing" => req[p].todo \subseteq Candidate

\* An event is reversed at most once, whoever asks, however often and however
\* the requests interleave: the key is derived from the target (reversal_for).
OneReversalPerEvent ==
  \A f, g \in journal :
    f.rel = "reversal" /\ g.rel = "reversal" /\ f.target = g.target => f = g

\* Re-submitting the same row does not bring a retracted fact back: nothing
\* that counts carries the key of a fact that was removed (acknowledged's text).
NoResurrection ==
  \A f, g \in journal :
    f.key # NONE /\ f.key = g.key /\ (\E c \in journal : c.rel # "none" /\ c.target = f.id)
      => ~stands(journal, g)

\* A candidate without an operation id that was answered, written or reported as
\* a duplicate, is in force: the journal holds a fact with its relation and its
\* target, so that the fact named as a duplicate is that very correction
\* (refuse_occupied_keys's purpose, against a journal that moved on since).
AnsweredMeansApplied ==
  \A p \in Requests : req[p].pc = "writing" =>
    \A c \in candidates(req[p].seen, req[p].want) \ req[p].todo :
      c.op = NONE => \E f \in journal : f.rel = c.rel /\ f.target = c.target

\* A reclassification that was answered whole has written its replacement
\* (correct_events: "Reclassification writes a reversal plus a replacement.  The
\* replacement is the fact that now stands").  False where the replaced fact has an
\* operation id, which the replacement keeps: see the README.
ReplacementIsWritten ==
  \A p \in Requests :
    req[p].pc = "writing" /\ req[p].todo = {} /\ req[p].want.act = "reclassification"
      => \E f \in journal : f.rel = "replacement" /\ f.target = req[p].want.target

\* The journal can always be read (the module comment: a correction that does
\* not resolve "would fail every later read of the journal").
JournalResolves == resolves(journal)

\* What stopped counting never counts again, not even when the correction that
\* stopped it is itself corrected.
NothingComesBack == [][effective(journal') \cap journal \subseteq effective(journal)]_vars

\* A pairing never makes money vanish: the incoming leg is reversed only once
\* the transfer that states it is written, wherever the batch stops.
PairingNeverLosesMoney ==
  \A f \in journal : f.rel = "reversal" =>
    \E t \in journal : t.kind = "transfer" /\ t.key.with = f.target

\* A recorded leg is related once: no two transfers that count state the arrival
\* of the same incoming leg (the module comment "One transfer, seen twice, related
\* once", and confirm_journal_pairing: "Refused unless the two are a pair this
\* build would propose").  False when both pairings were proposed before either was
\* written: see the README.
LegsAreRelatedOnce ==
  \A t, u \in effective(journal) :
    t.kind = "transfer" /\ u.kind = "transfer" /\ t.key.with = u.key.with => t = u
=============================================================================
