------------------------------ MODULE JournalTx ------------------------------
(***************************************************************************)
(* The journal's two append operations as the SQLite transactions they     *)
(* are.  Several connections (the server and a command-line process) work  *)
(* on one WAL file.  A connection takes a transaction, looks for a         *)
(* duplicate, reads the day's last number, inserts, commits; it may fail   *)
(* or die between any two of those.  append_event_in_order opens with      *)
(* BEGIN IMMEDIATE, append_event with the deferred BEGIN.                  *)
(***************************************************************************)
EXTENDS Journal

CONSTANT Connections
ASSUME NoneIsNoConnection == NONE \notin Connections

VARIABLES
  lock,     \* the connection that holds SQLite's one write lock, or NONE
  tx,       \* tx[c]: the transaction connection c has open
  refused   \* history: ordered appends that lost their place, see LostPlace

vars == <<events, answer, lock, tx, refused>>

\* snap is the committed state the transaction reads; seq the number it holds.
Idle == [pc |-> "idle"]
Tx == [ pc: {"begun", "checked", "stamped"}, e: Candidates, scope: IdentityScope,
        ordered: BOOLEAN, seq: 0..MaxSequence, snap: SUBSET Event ]

TxInit ==
  /\ Init
  /\ lock = NONE
  /\ tx = [c \in Connections |-> Idle]
  /\ refused = {}

\* A failed statement, an early return and a dropped Transaction all roll back.
Rollback(c) ==
  /\ tx' = [tx EXCEPT ![c] = Idle]
  /\ lock' = IF lock = c THEN NONE ELSE lock
  /\ UNCHANGED events

\* Mutant: the ordered append opened with the deferred BEGIN.
begin_immediate_Deferred(c, e, scope) ==
  /\ tx[c] = Idle
  /\ tx' = [tx EXCEPT ![c] = [pc |-> "begun", e |-> e, scope |-> scope,
                              ordered |-> TRUE, seq |-> 0, snap |-> events]]
  /\ call
  /\ UNCHANGED <<lock, refused>>

\* BEGIN IMMEDIATE waits for the write lock before anything is read.
begin_immediate(c, e, scope) ==
  /\ tx[c] = Idle
  /\ lock = NONE
  /\ lock' = c
  /\ tx' = [tx EXCEPT ![c] = [pc |-> "begun", e |-> e, scope |-> scope,
                              ordered |-> TRUE, seq |-> 0, snap |-> events]]
  /\ call
  /\ UNCHANGED refused

\* The deferred BEGIN takes no lock; its first read fixes what it sees.
begin_deferred(c, e, n, scope) ==
  /\ tx[c] = Idle
  /\ tx' = [tx EXCEPT ![c] = [pc |-> "begun", e |-> e, scope |-> scope,
                              ordered |-> FALSE, seq |-> n, snap |-> events]]
  /\ call
  /\ UNCHANGED <<lock, refused>>

\* find_duplicate found a fact: answer Duplicate, write nothing.
answer_duplicate(c) ==
  /\ tx[c].pc = "begun"
  /\ \E r \in find_duplicate(tx[c].snap, tx[c].e, tx[c].scope) :
       answer' = Duplicate(tx[c].ordered, tx[c].e, tx[c].scope, r)
  /\ Rollback(c)
  /\ UNCHANGED refused

\* Mutant: the search is made per account whatever scope the caller asked for.
check_duplicate_PerAccount(c) ==
  /\ tx[c].pc = "begun"
  /\ find_duplicate(tx[c].snap, tx[c].e, "Account") = {}
  /\ tx' = [tx EXCEPT ![c].pc = IF tx[c].ordered THEN "checked" ELSE "stamped"]
  /\ UNCHANGED <<events, answer, lock, refused>>

check_duplicate(c) ==
  /\ tx[c].pc = "begun"
  /\ find_duplicate(tx[c].snap, tx[c].e, tx[c].scope) = {}
  /\ tx' = [tx EXCEPT ![c].pc = IF tx[c].ordered THEN "checked" ELSE "stamped"]
  /\ UNCHANGED <<events, answer, lock, refused>>

stamp(c) ==
  /\ tx[c].pc = "checked"
  /\ \E n \in 1..MaxSequence :
       /\ IsNextSequence(tx[c].snap, tx[c].e, n)
       /\ tx' = [tx EXCEPT ![c] = [@ EXCEPT !.pc = "stamped", !.seq = n]]
  /\ UNCHANGED <<events, answer, lock, refused>>

\* A write needs the lock, and a deferred transaction may take it only while
\* what it read is still the latest commit (SQLITE_BUSY_SNAPSHOT otherwise).
MayWrite(c) == lock = c \/ (lock = NONE /\ tx[c].snap = events)

\* insert_event_in and the commit: all rows or none.
insert_and_commit(c) ==
  /\ tx[c].pc = "stamped"
  /\ MayWrite(c)
  /\ insert_event_in(tx[c].e, tx[c].seq)
  /\ answer' = Inserted(tx[c].ordered, tx[c].e, tx[c].scope, Stamped(tx[c].e, tx[c].seq))
  /\ tx' = [tx EXCEPT ![c] = Idle]
  /\ lock' = IF lock = c THEN NONE ELSE lock
  /\ UNCHANGED refused

\* The day's number was taken by somebody else, or the file was busy.
LostPlace(t, mayWrite) ==
  t.ordered /\ (~mayWrite \/ (t.seq < MaxSequence /\ \E r \in OfDay(events, t.e) : r.seq = t.seq))

\* The insert is refused: busy, a foreign leg, or a unique index.
insert_refused(c) ==
  /\ tx[c].pc = "stamped"
  /\ ~MayWrite(c) \/ ~Owned(tx[c].e) \/ ~FitsIndexes(events, tx[c].e, tx[c].seq)
  /\ refused' = IF LostPlace(tx[c], MayWrite(c)) THEN refused \cup {tx[c].e} ELSE refused
  /\ answer' = Refused(tx[c].ordered, tx[c].e, tx[c].scope)
  /\ Rollback(c)

\* The process dies or an I/O error drops the transaction; nothing survives.
lose(c) ==
  /\ tx[c] # Idle
  /\ Rollback(c)
  /\ UNCHANGED <<answer, refused>>

TxNext ==
  \E c \in Connections :
    \/ \E e \in Candidates, scope \in IdentityScope :
         \/ begin_immediate(c, e, scope)
         \/ \E n \in 1..MaxSequence : begin_deferred(c, e, n, scope)
    \/ answer_duplicate(c)
    \/ check_duplicate(c)
    \/ stamp(c)
    \/ insert_and_commit(c)
    \/ insert_refused(c)
    \/ lose(c)

TxSpec == TxInit /\ [][TxNext]_vars

-----------------------------------------------------------------------------
\* The file, every connection's snapshot and every event in flight are well
\* formed, whatever the connections' transactions do between each other.
TxTypeOK ==
  /\ TypeOK
  /\ answer \in Answer \cup {NONE}
  /\ lock \in Connections \cup {NONE}
  /\ tx \in [Connections -> Tx \cup {Idle}]
  /\ refused \subseteq Candidates

\* Assigning the number inside the transaction that inserts it closes the race
\* between processes: below the largest number, an ordered append is never
\* refused because somebody else took its place in the day, or because another
\* commit overtook what it read (append_event_in_order's comment).
NoLostPlace == refused = {}

\* Whoever holds the write lock still sees the last commit: its duplicate check
\* and its day number are as good at the insert as when they were read.
WriterSeesTheLatest ==
  \A c \in Connections : lock = c => tx[c] # Idle /\ tx[c].snap = events

\* What an open transaction has established about its own snapshot: an ordered
\* one holds the lock, the duplicate check is behind every later step, and a
\* stamped number is the next one of the day it was read from.
TxKnows ==
  \A c \in Connections : tx[c] # Idle =>
    /\ tx[c].ordered => lock = c
    /\ tx[c].pc # "begun" => find_duplicate(tx[c].snap, tx[c].e, tx[c].scope) = {}
    /\ tx[c].pc = "stamped" /\ tx[c].ordered
         => IsNextSequence(tx[c].snap, tx[c].e, tx[c].seq)
    /\ tx[c].pc = "stamped" \/ ~tx[c].ordered => tx[c].seq \in 1..MaxSequence

\* Every call is answered as if it had been alone in the file at one moment: an
\* ordered fact is inserted as the next of its day in the journal it is added
\* to, with no fact of its identities there, in the scope asked for, and is
\* called a duplicate of the strongest identity's fact of that same journal; it
\* is refused for nothing another writer did.  A restored fact's Inserted is as
\* good, its Duplicate names a fact that holds one of its identities
\* (append_event_in_order and append_event, against transactions that search and
\* number on snapshots of their own).
AtomicJournal == Spec
=============================================================================
