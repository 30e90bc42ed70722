------------------------------- MODULE Journal -------------------------------
(***************************************************************************)
(* The owner's journal as the store publishes it (iaam-store, journal/):   *)
(* an append-only set of facts and the answers its callers get.  An append *)
(* either answers with the fact that already holds one of the candidate's  *)
(* identities, or stamps the candidate with the next number of its day and *)
(* adds it; anything else is an error that leaves no row behind.  Every    *)
(* append is one step here, and its answer is true of the journal of that  *)
(* step.  JournalTx refines this module down to SQLite transactions.       *)
(***************************************************************************)
EXTENDS Integers, FiniteSets

CONSTANTS
  Owners, Accounts, Sources, Operations, Keys, Days, Ids,
  AccountOwner,   \* whose account it is: the accounts table
  Candidates,     \* the facts callers may hand to the store
  MaxSequence,    \* the largest order number, u32::MAX in the code
  NONE            \* an absent optional identity

\* Event without its order: what a caller normalised, before the store stamps it.
Candidate ==
  [ id: Ids, owner: Owners, account: Accounts, source: Sources,
    op: Operations \cup {NONE}, key: Keys \cup {NONE}, day: Days,
    legs: SUBSET Accounts ]

\* IdentityScope: is a source operation unique within its source, or within
\* one account of that source?
IdentityScope == {"Source", "Account"}

ASSUME JournalAssumption ==
  /\ MaxSequence \in Nat \ {0}
  /\ AccountOwner \in [Accounts -> Owners]
  /\ Candidates \subseteq Candidate
  /\ NONE \notin Operations \cup Keys

VARIABLES
  events,   \* the rows of the events table
  answer    \* what the call that ended last returned, until another begins

journal == <<events, answer>>

\* Mutant: days numbered from zero.
Stamped_FromZero(e, n) == [e |-> e, seq |-> n - 1]

Stamped(e, n) == [e |-> e, seq |-> n]
Event == [e: Candidate, seq: 1..MaxSequence]

\* Result<Appended, StoreError>, with the call it answers: append_event_in_order
\* is ordered, append_event is not.  row is the row written or the existing one.
Inserted(ordered, e, scope, row) ==
  [ordered |-> ordered, e |-> e, scope |-> scope, appended |-> "Inserted", row |-> row]
Duplicate(ordered, e, scope, row) ==
  [ordered |-> ordered, e |-> e, scope |-> scope, appended |-> "Duplicate", row |-> row]
Refused(ordered, e, scope) ==
  [ordered |-> ordered, e |-> e, scope |-> scope, appended |-> "StoreError", row |-> NONE]
Answer ==
  [ ordered: BOOLEAN, e: Candidates, scope: IdentityScope,
    appended: {"Inserted", "Duplicate", "StoreError"}, row: Event \cup {NONE} ]

-----------------------------------------------------------------------------
(* The duplicate search: source operation, then idempotency key, then id.  *)

SameOperation(r, e, scope) ==
  /\ e.op # NONE
  /\ r.e.owner = e.owner /\ r.e.source = e.source /\ r.e.op = e.op
  /\ scope = "Account" => r.e.account = e.account

\* Mutant: the key searched per account instead of per owner.
SameKey_PerAccount(r, e) ==
  e.key # NONE /\ r.e.account = e.account /\ r.e.key = e.key

SameKey(r, e) == e.key # NONE /\ r.e.owner = e.owner /\ r.e.key = e.key

SameId(r, e) == r.e.id = e.id

\* The rows the first of the three queries that finds anything may return;
\* empty when the candidate is new.
find_duplicate(rows, e, scope) ==
  LET byOperation == {r \in rows : SameOperation(r, e, scope)}
      byKey       == {r \in rows : SameKey(r, e)}
  IN  IF byOperation # {} THEN byOperation
      ELSE IF byKey # {} THEN byKey
      ELSE {r \in rows : SameId(r, e)}

-----------------------------------------------------------------------------
(* The insert primitive.                                                   *)

OfDay(rows, e) == {r \in rows : r.e.owner = e.owner /\ r.e.day = e.day}

\* n is MAX(sequence) + 1 of the owner's day, saturating; 1 on an empty day.
IsNextSequence(rows, e, n) ==
  \/ OfDay(rows, e) = {} /\ n = 1
  \/ \E top \in OfDay(rows, e) :
       /\ \A r \in OfDay(rows, e) : r.seq <= top.seq
       /\ n = IF top.seq = MaxSequence THEN MaxSequence ELSE top.seq + 1

\* ensure_accounts_and_custodies_are_owned, and the header's foreign key.
Owned(e) == \A a \in e.legs \cup {e.account} : AccountOwner[a] = e.owner

\* Mutant: no unique index on the order.
FitsIndexes_NoOrder(rows, e, n) ==
  \A r \in rows : ~SameId(r, e) /\ ~SameKey(r, e) /\ ~SameOperation(r, e, "Account")

\* The unique indexes of the events table: id, order, key, source operation.
FitsIndexes(rows, e, n) ==
  \A r \in rows :
    /\ ~SameId(r, e)
    /\ ~(r.e.owner = e.owner /\ r.e.day = e.day /\ r.seq = n)
    /\ ~SameKey(r, e)
    /\ ~SameOperation(r, e, "Account")

insert_event_in(e, n) ==
  /\ Owned(e)
  /\ FitsIndexes(events, e, n)
  /\ events' = events \cup {Stamped(e, n)}

-----------------------------------------------------------------------------
Init == events = {} /\ answer = NONE

\* A fact whose number the store assigns in the same transaction: the caller
\* learns of the existing fact that the strongest identity finds, or the fact
\* takes the next place of its day; it is refused only for an account that is
\* not its owner's, or on a day whose numbers have run out.
append_event_in_order(e, scope) ==
  \/ \E r \in find_duplicate(events, e, scope) :
       /\ answer' = Duplicate(TRUE, e, scope, r)
       /\ UNCHANGED events
  \/ /\ find_duplicate(events, e, scope) = {}
     /\ \E n \in 1..MaxSequence :
          /\ IsNextSequence(events, e, n)
          /\ \/ /\ insert_event_in(e, n)
                /\ answer' = Inserted(TRUE, e, scope, Stamped(e, n))
             \/ /\ ~Owned(e) \/ (n = MaxSequence /\ ~FitsIndexes(events, e, n))
                /\ answer' = Refused(TRUE, e, scope)
                /\ UNCHANGED events

\* A fact that brings its number along (restore from an archive).  Its
\* transaction is deferred: the existing fact it answers with holds one of the
\* candidate's identities, maybe no longer the strongest, and a call that other
\* writers overtook may be refused whatever the journal holds.
append_event(e, n, scope) ==
  \/ \E r \in events :
       /\ SameOperation(r, e, scope) \/ SameKey(r, e) \/ SameId(r, e)
       /\ answer' = Duplicate(FALSE, e, scope, r)
       /\ UNCHANGED events
  \/ /\ find_duplicate(events, e, scope) = {}
     /\ insert_event_in(e, n)
     /\ answer' = Inserted(FALSE, e, scope, Stamped(e, n))
  \/ /\ answer' = Refused(FALSE, e, scope)
     /\ UNCHANGED events

\* Some caller calls; what the call before it returned is forgotten.
call == answer' = NONE /\ UNCHANGED events

Next ==
  \/ call
  \/ \E e \in Candidates, scope \in IdentityScope :
       \/ append_event_in_order(e, scope)
       \/ \E n \in 1..MaxSequence : append_event(e, n, scope)

Spec == Init /\ [][Next]_journal

-----------------------------------------------------------------------------
\* Every fact written is a well-formed one with a place from one in its day
\* (append_event_in_order).
TypeOK == events \subseteq Event

\* The order of a day is total: no two facts of one owner share a day and a
\* number, so a replay never falls back on a random identifier (the unique
\* index events_by_order and append_event_in_order's doc comment).
OrderIsTotal ==
  \A r, s \in events :
    r.e.owner = s.e.owner /\ r.e.day = s.e.day /\ r.seq = s.seq => r = s

\* One identity, one fact: an idempotency key names one fact of its owner, a
\* source operation one fact of an account, an identifier one fact of the file,
\* whatever order submissions and retries arrive in and whichever scope the
\* duplicate search ran with (Appended: a retry is answered, not written).
IdentitiesAreHeldOnce ==
  \A r, s \in events :
    \/ r.e.id = s.e.id
    \/ /\ r.e.owner = s.e.owner
       /\ \/ r.e.key = s.e.key /\ r.e.key # NONE
          \/ /\ r.e.op = s.e.op /\ r.e.op # NONE
             /\ r.e.source = s.e.source /\ r.e.account = s.e.account
    => r = s

\* No fact moves money through an account of somebody else, although the leg
\* rows carry no owner column for the schema to check.
NoForeignLegs == \A r \in events : \A a \in r.e.legs : AccountOwner[a] = r.e.owner
=============================================================================
