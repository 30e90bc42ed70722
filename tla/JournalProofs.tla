---------------------------- MODULE JournalProofs ----------------------------
(***************************************************************************)
(* The journal's promises for any number of owners, accounts, facts and    *)
(* connections: the transactions implement the atomic journal, the order   *)
(* of a day is total, an identity is held once, and no ordered append      *)
(* loses its place.                                                        *)
(***************************************************************************)
EXTENDS JournalTx, TLAPS

\* A committed write keeps the facts of a transaction's insert well typed.
LEMMA InsertKeepsType ==
  ASSUME TypeOK, NEW e \in Candidates, NEW n \in 1..MaxSequence,
         insert_event_in(e, n)
  PROVE  TypeOK'
BY JournalAssumption DEF TypeOK, insert_event_in, Event, Stamped

\* The inductive invariant of the transactions.
TxInv == TxTypeOK /\ WriterSeesTheLatest /\ TxKnows /\ NoLostPlace

LEMMA TxInitInv == TxInit => TxInv
BY JournalAssumption, NoneIsNoConnection
   DEF TxInit, Init, TxInv, TxTypeOK, TypeOK, WriterSeesTheLatest, TxKnows,
       NoLostPlace, Idle, Event

\* Rolling a transaction back forgets it and frees the lock it may hold.
LEMMA RollbackInv ==
  ASSUME TxInv, NEW c \in Connections, Rollback(c), UNCHANGED refused,
         answer' \in Answer \cup {NONE}
  PROVE  TxInv'
<1> USE DEF TxInv, Rollback
<1>1. TxTypeOK'
  BY DEF TxTypeOK, TypeOK
<1>2. WriterSeesTheLatest'
  BY NoneIsNoConnection DEF WriterSeesTheLatest, TxTypeOK
<1>3. TxKnows'
  <2> SUFFICES ASSUME NEW d \in Connections, tx'[d] # Idle
               PROVE  /\ d # c
                      /\ tx'[d] = tx[d]
                      /\ tx[d].ordered => lock' = d
    BY DEF TxKnows
  <2>1. d # c /\ tx'[d] = tx[d]
    BY DEF TxTypeOK
  <2>2. tx[d].ordered => lock = d
    BY <2>1 DEF TxKnows
  <2> QED BY <2>1, <2>2
<1>4. NoLostPlace'
  BY DEF NoLostPlace
<1> QED BY <1>1, <1>2, <1>3, <1>4

LEMMA StampKeepsType ==
  ASSUME NEW t \in Tx, NEW n \in 1..MaxSequence
  PROVE  [t EXCEPT !.pc = "stamped", !.seq = n] \in Tx
<1>1. n \in 0..MaxSequence
  BY JournalAssumption
<1> QED BY <1>1 DEF Tx

\* Every step of the transactions keeps the invariant.
LEMMA TxNextInv == TxInv /\ [TxNext]_vars => TxInv'
<1> SUFFICES ASSUME TxInv, [TxNext]_vars PROVE TxInv'
  OBVIOUS
<1> USE JournalAssumption, NoneIsNoConnection DEF TxInv
<1>1. CASE UNCHANGED vars
  BY <1>1 DEF vars, TxTypeOK, TypeOK, WriterSeesTheLatest, TxKnows, NoLostPlace
<1>2. ASSUME NEW c \in Connections, NEW e \in Candidates, NEW scope \in IdentityScope,
             begin_immediate(c, e, scope)
      PROVE  TxInv'
  <2> USE <1>2 DEF begin_immediate, call
  <2>1. TxTypeOK'
    BY DEF TxTypeOK, TypeOK, Tx
  <2>2. WriterSeesTheLatest'
    BY DEF WriterSeesTheLatest, TxTypeOK, Idle
  <2>3. TxKnows'
    BY DEF TxKnows, TxTypeOK
  <2> QED BY <2>1, <2>2, <2>3 DEF NoLostPlace
<1>3. ASSUME NEW c \in Connections, NEW e \in Candidates, NEW scope \in IdentityScope,
             NEW n \in 1..MaxSequence, begin_deferred(c, e, n, scope)
      PROVE  TxInv'
  <2> USE <1>3 DEF begin_deferred, call
  <2>1. TxTypeOK'
    BY DEF TxTypeOK, TypeOK, Tx
  <2>2. WriterSeesTheLatest'
    BY DEF WriterSeesTheLatest, TxTypeOK, Idle
  <2>3. TxKnows'
    BY DEF TxKnows, TxTypeOK
  <2> QED BY <2>1, <2>2, <2>3 DEF NoLostPlace
<1>4. ASSUME NEW c \in Connections, answer_duplicate(c)
      PROVE  TxInv'
  <2>0. tx[c] \in Tx
    BY <1>4 DEF TxTypeOK, Idle, answer_duplicate
  <2> PICK r \in find_duplicate(tx[c].snap, tx[c].e, tx[c].scope) :
        answer' = Duplicate(tx[c].ordered, tx[c].e, tx[c].scope, r)
    BY <1>4 DEF answer_duplicate
  <2>1. r \in Event
    BY <2>0 DEF find_duplicate, Tx
  <2>2. answer' \in Answer
    BY <2>0, <2>1 DEF Duplicate, Answer, Tx
  <2> QED BY <1>4, <2>2, RollbackInv DEF answer_duplicate
<1>5. ASSUME NEW c \in Connections, check_duplicate(c)
      PROVE  TxInv'
  <2> USE <1>5 DEF check_duplicate
  <2>0. tx[c] \in Tx
    BY DEF TxTypeOK, Idle
  <2>1. TxTypeOK'
    BY <2>0 DEF TxTypeOK, TypeOK, Tx
  <2>2. WriterSeesTheLatest'
    BY <2>0 DEF WriterSeesTheLatest, TxTypeOK, Idle, Tx
  <2>3. TxKnows'
    BY <2>0 DEF TxKnows, TxTypeOK, Tx, Idle
  <2> QED BY <2>1, <2>2, <2>3 DEF NoLostPlace
<1>6. ASSUME NEW c \in Connections, stamp(c)
      PROVE  TxInv'
  <2> PICK n \in 1..MaxSequence :
        /\ IsNextSequence(tx[c].snap, tx[c].e, n)
        /\ tx' = [tx EXCEPT ![c] = [@ EXCEPT !.pc = "stamped", !.seq = n]]
    BY <1>6 DEF stamp
  <2> USE <1>6 DEF stamp
  <2>0. tx[c] \in Tx
    BY DEF TxTypeOK, Idle
  <2>1. [tx[c] EXCEPT !.pc = "stamped", !.seq = n] \in Tx
    BY <2>0, StampKeepsType
  <2>2. TxTypeOK'
    BY <2>1 DEF TxTypeOK, TypeOK
  <2>3. WriterSeesTheLatest'
    BY <2>0, <2>1 DEF WriterSeesTheLatest, TxTypeOK, Idle, Tx
  <2>4. TxKnows'
    <3> SUFFICES ASSUME NEW d \in Connections, tx'[d] # Idle
                 PROVE  /\ tx'[d].ordered => lock' = d
                        /\ tx'[d].pc # "begun"
                             => find_duplicate(tx'[d].snap, tx'[d].e, tx'[d].scope) = {}
                        /\ tx'[d].pc = "stamped" /\ tx'[d].ordered
                             => IsNextSequence(tx'[d].snap, tx'[d].e, tx'[d].seq)
                        /\ tx'[d].pc = "stamped" \/ ~tx'[d].ordered
                             => tx'[d].seq \in 1..MaxSequence
      BY DEF TxKnows
    <3>1. CASE d = c
      BY <2>0, <3>1 DEF TxKnows, TxTypeOK, Tx, Idle
    <3>2. CASE d # c
      BY <3>2 DEF TxKnows, TxTypeOK
    <3> QED BY <3>1, <3>2
  <2> QED BY <2>2, <2>3, <2>4 DEF NoLostPlace
<1>7. ASSUME NEW c \in Connections, insert_and_commit(c)
      PROVE  TxInv'
  <2> USE <1>7 DEF insert_and_commit
  <2>0. tx[c] \in Tx /\ tx[c] # Idle
    BY DEF TxTypeOK, Idle
  <2>1. tx[c].seq \in 1..MaxSequence /\ tx[c].e \in Candidates
    BY <2>0 DEF TxKnows, Tx
  <2>2. TypeOK'
    BY <2>1, InsertKeepsType DEF TxTypeOK
  <2>3. lock # NONE => lock = c
    BY DEF MayWrite
  <2>7. Stamped(tx[c].e, tx[c].seq) \in Event
    BY <2>1 DEF Stamped, Event
  <2>8. answer' \in Answer
    BY <2>0, <2>7 DEF Inserted, Answer, Tx
  <2>4. TxTypeOK'
    BY <2>2, <2>8 DEF TxTypeOK
  <2>5. WriterSeesTheLatest'
    BY <2>3 DEF WriterSeesTheLatest
  <2>6. TxKnows'
    BY <2>3 DEF TxKnows, TxTypeOK
  <2> QED BY <2>4, <2>5, <2>6 DEF NoLostPlace
<1>8. ASSUME NEW c \in Connections, insert_refused(c)
      PROVE  TxInv'
  <2> USE <1>8
  <2>0. tx[c] \in Tx /\ tx[c] # Idle
    BY DEF TxTypeOK, Idle, insert_refused
  <2>1. ASSUME tx[c].ordered, MayWrite(c), tx[c].seq < MaxSequence,
               NEW r \in OfDay(events, tx[c].e), r.seq = tx[c].seq
        PROVE  FALSE
    <3>1. lock = c /\ tx[c].snap = events
      BY <2>0, <2>1 DEF TxKnows, WriterSeesTheLatest
    <3>2. IsNextSequence(events, tx[c].e, tx[c].seq)
      BY <2>0, <2>1, <3>1 DEF TxKnows, insert_refused
    <3>3. \A s \in OfDay(events, tx[c].e) : s.seq \in 1..MaxSequence
      BY DEF TxTypeOK, TypeOK, Event, OfDay
    <3> QED BY <2>1, <3>2, <3>3 DEF IsNextSequence
  <2>2. tx[c].ordered => MayWrite(c)
    BY <2>0 DEF TxKnows, MayWrite
  <2>3. UNCHANGED refused
    BY <2>1, <2>2 DEF insert_refused, LostPlace
  <2>4. answer' \in Answer
    BY <2>0 DEF insert_refused, Refused, Answer, Tx
  <2> QED BY <2>3, <2>4, RollbackInv DEF insert_refused
<1>9. ASSUME NEW c \in Connections, lose(c)
      PROVE  TxInv'
  BY <1>9, RollbackInv DEF lose, TxTypeOK
<1> QED BY <1>1, <1>2, <1>3, <1>4, <1>5, <1>6, <1>7, <1>8, <1>9 DEF TxNext

\* The file, every snapshot and every event in flight are well formed, for any
\* number of processes and wherever their transactions are lost.
THEOREM TransactionsAreTyped == TxSpec => []TxTypeOK
<1>1. TxInv => TxTypeOK
  BY DEF TxInv
<1> QED BY <1>1, TxInitInv, TxNextInv, PTL DEF TxSpec

\* For any number of processes and any facts, the holder of the write lock sees
\* the last commit, and no ordered append below the largest number is refused
\* because its place in the day was taken.
THEOREM TransactionsAreSafe == TxSpec => [](WriterSeesTheLatest /\ NoLostPlace)
<1>1. TxInv => WriterSeesTheLatest /\ NoLostPlace
  BY DEF TxInv
<1> QED BY <1>1, TxInitInv, TxNextInv, PTL DEF TxSpec

-----------------------------------------------------------------------------
\* A transaction that may write sees the journal as it is.
LEMMA WriterIsCurrent ==
  ASSUME TxInv, NEW c \in Connections, MayWrite(c)
  PROVE  tx[c].snap = events
BY DEF TxInv, WriterSeesTheLatest, MayWrite

\* What a search of a smaller journal found holds an identity of the candidate.
LEMMA FoundIsTheSame ==
  ASSUME NEW rows, NEW e, NEW scope, NEW r \in find_duplicate(rows, e, scope)
  PROVE  r \in rows /\ (SameOperation(r, e, scope) \/ SameKey(r, e) \/ SameId(r, e))
BY DEF find_duplicate

\* Where no identity is held, the order index alone can refuse a row.
LEMMA OnlyTheOrderRefuses ==
  ASSUME NEW e, NEW scope \in IdentityScope, NEW n, TypeOK,
         find_duplicate(events, e, scope) = {}, ~FitsIndexes(events, e, n)
  PROVE  \E r \in OfDay(events, e) : r.seq = n
<1>1. \A r \in events : ~SameId(r, e) /\ ~SameKey(r, e) /\ ~SameOperation(r, e, scope)
  BY DEF find_duplicate
<1>2. \A r : SameOperation(r, e, "Account") => SameOperation(r, e, scope)
  BY DEF SameOperation, IdentityScope
<1> QED BY <1>1, <1>2 DEF FitsIndexes, OfDay

\* A snapshot holds only rows the journal still has.
Snapshots == \A c \in Connections : tx[c] # Idle => tx[c].snap \subseteq events

LEMMA SnapshotsStand == TxInv /\ Snapshots /\ [TxNext]_vars => Snapshots'
<1> SUFFICES ASSUME TxInv, Snapshots, [TxNext]_vars, NEW d \in Connections, tx'[d] # Idle
             PROVE  tx'[d].snap \subseteq events'
  BY DEF Snapshots
<1>1. events \subseteq events'
  BY DEF TxNext, begin_immediate, begin_deferred, answer_duplicate, check_duplicate, stamp,
         insert_and_commit, insert_refused, lose, Rollback, insert_event_in, call, vars
<1>2. tx \in [Connections -> Tx \cup {Idle}]
  BY DEF TxInv, TxTypeOK
<1>3. tx'[d] = tx[d] \/ tx'[d].snap = events \/ (tx[d] \in Tx /\ tx'[d].snap = tx[d].snap)
  <2>1. CASE UNCHANGED vars
    BY <2>1 DEF vars
  <2>2. ASSUME NEW c \in Connections, NEW e \in Candidates, NEW scope \in IdentityScope,
               \/ begin_immediate(c, e, scope)
               \/ \E n \in 1..MaxSequence : begin_deferred(c, e, n, scope)
        PROVE  tx'[d] = tx[d] \/ tx'[d].snap = events
    BY <1>2, <2>2 DEF begin_immediate, begin_deferred
  <2>3. ASSUME NEW c \in Connections,
               \/ answer_duplicate(c) \/ insert_refused(c) \/ lose(c) \/ insert_and_commit(c)
        PROVE  tx'[d] = tx[d]
    BY <1>2, <2>3 DEF answer_duplicate, insert_refused, lose, insert_and_commit, Rollback
  <2>4. ASSUME NEW c \in Connections, check_duplicate(c)
        PROVE  tx'[d] = tx[d] \/ (tx[d] \in Tx /\ tx'[d].snap = tx[d].snap)
    BY <1>2, <2>4 DEF check_duplicate, Idle, Tx
  <2>5. ASSUME NEW c \in Connections, stamp(c)
        PROVE  tx'[d] = tx[d] \/ (tx[d] \in Tx /\ tx'[d].snap = tx[d].snap)
    <3>1. PICK n \in 1..MaxSequence : tx' = [tx EXCEPT ![c] = [@ EXCEPT !.pc = "stamped", !.seq = n]]
      BY <2>5 DEF stamp
    <3>2. CASE d = c
      <4>1. tx[c] \in Tx
        BY <1>2, <2>5 DEF stamp, Idle
      <4>2. [tx[c] EXCEPT !.pc = "stamped", !.seq = n].snap = tx[c].snap
        BY <4>1 DEF Tx
      <4> QED BY <1>2, <3>1, <3>2, <4>1, <4>2
    <3>3. CASE d # c
      BY <1>2, <3>1, <3>3
    <3> QED BY <3>2, <3>3
  <2> QED BY <2>1, <2>2, <2>3, <2>4, <2>5 DEF TxNext
<1>4. tx[d] \in Tx => tx[d] # Idle
  BY DEF Tx, Idle
<1> QED BY <1>1, <1>3, <1>4 DEF Snapshots

\* The transactions implement the atomic journal: a call's end is one append made
\* against the journal as it stands, with an answer that is true of it; every
\* other step leaves the journal and the answers alone.
THEOREM TransactionsImplementJournal == TxSpec => AtomicJournal
<1>1. TxInit => Init /\ Snapshots
  BY DEF TxInit, Snapshots
<1>2. TxInv /\ Snapshots /\ [TxNext]_vars => [Next]_journal
  <2> SUFFICES ASSUME TxInv, Snapshots, [TxNext]_vars PROVE [Next]_journal
    OBVIOUS
  <2> USE DEF TxInv
  <2>1. ASSUME NEW c \in Connections, tx[c] # Idle
        PROVE  /\ tx[c] \in Tx /\ tx[c].e \in Candidates /\ tx[c].scope \in IdentityScope
               /\ tx[c].ordered \in BOOLEAN
               /\ tx[c].ordered => tx[c].snap = events
               /\ tx[c].snap \subseteq events
    BY <2>1 DEF TxTypeOK, Tx, TxKnows, WriterSeesTheLatest, Snapshots
  <2>2. ASSUME NEW c \in Connections, insert_and_commit(c)
        PROVE  Next
    <3> DEFINE e == tx[c].e
               n == tx[c].seq
               scope == tx[c].scope
    <3>0. tx[c] # Idle
      BY <2>2 DEF insert_and_commit, Idle
    <3>1. tx[c].snap = events
      BY <2>2, WriterIsCurrent DEF insert_and_commit
    <3>2. find_duplicate(events, e, scope) = {} /\ n \in 1..MaxSequence
      BY <2>2, <3>0, <3>1 DEF insert_and_commit, TxKnows
    <3>3. insert_event_in(e, n) /\ answer' = Inserted(tx[c].ordered, e, scope, Stamped(e, n))
      BY <2>2 DEF insert_and_commit
    <3>4. e \in Candidates /\ scope \in IdentityScope /\ tx[c].ordered \in BOOLEAN
      BY <2>1, <3>0
    <3>5. CASE tx[c].ordered = TRUE
      <4>1. IsNextSequence(events, e, n)
        BY <2>2, <3>0, <3>1, <3>5 DEF insert_and_commit, TxKnows
      <4>2. append_event_in_order(e, scope)
        BY <3>2, <3>3, <3>5, <4>1 DEF append_event_in_order
      <4> QED BY <3>4, <4>2 DEF Next
    <3>6. CASE tx[c].ordered = FALSE
      <4>1. append_event(e, n, scope)
        BY <3>2, <3>3, <3>6 DEF append_event
      <4> QED BY <3>2, <3>4, <4>1 DEF Next
    <3> QED BY <3>4, <3>5, <3>6
  <2>3. ASSUME NEW c \in Connections, answer_duplicate(c)
        PROVE  Next
    <3> DEFINE e == tx[c].e
               scope == tx[c].scope
    <3>0. tx[c] # Idle /\ UNCHANGED events
      BY <2>3 DEF answer_duplicate, Idle, Rollback
    <3>1. PICK r \in find_duplicate(tx[c].snap, e, scope) :
            answer' = Duplicate(tx[c].ordered, e, scope, r)
      BY <2>3 DEF answer_duplicate
    <3>2. e \in Candidates /\ scope \in IdentityScope /\ tx[c].ordered \in BOOLEAN
      BY <2>1, <3>0
    <3>3. CASE tx[c].ordered = TRUE
      <4>1. r \in find_duplicate(events, e, scope)
        BY <2>1, <3>0, <3>1, <3>3
      <4>2. append_event_in_order(e, scope)
        BY <3>0, <3>1, <3>3, <4>1 DEF append_event_in_order
      <4> QED BY <3>2, <4>2 DEF Next
    <3>4. CASE tx[c].ordered = FALSE
      <4>1. r \in events /\ (SameOperation(r, e, scope) \/ SameKey(r, e) \/ SameId(r, e))
        BY <2>1, <3>0, <3>1, FoundIsTheSame
      <4>2. 1 \in 1..MaxSequence
        BY JournalAssumption
      <4>3. append_event(e, 1, scope)
        BY <3>0, <3>1, <3>4, <4>1 DEF append_event
      <4> QED BY <3>2, <4>2, <4>3 DEF Next
    <3> QED BY <3>2, <3>3, <3>4
  <2>4. ASSUME NEW c \in Connections, insert_refused(c)
        PROVE  Next
    <3> DEFINE e == tx[c].e
               n == tx[c].seq
               scope == tx[c].scope
    <3>0. tx[c] # Idle /\ UNCHANGED events /\ answer' = Refused(tx[c].ordered, e, scope)
      BY <2>4 DEF insert_refused, Idle, Rollback
    <3>1. e \in Candidates /\ scope \in IdentityScope /\ tx[c].ordered \in BOOLEAN
      BY <2>1, <3>0
    <3>2. CASE tx[c].ordered = TRUE
      <4>1. /\ tx[c].snap = events /\ lock = c
            /\ IsNextSequence(events, e, n) /\ n \in 1..MaxSequence
            /\ find_duplicate(events, e, scope) = {}
        BY <2>1, <2>4, <3>0, <3>2 DEF insert_refused, TxKnows
      <4>2. CASE Owned(e)
        <5>1. ~FitsIndexes(events, e, n)
          BY <2>4, <4>1, <4>2 DEF insert_refused, MayWrite
        <5>2. PICK r \in OfDay(events, e) : r.seq = n
          BY <3>1, <4>1, <5>1, OnlyTheOrderRefuses DEF TxTypeOK
        <5>3. \A s \in OfDay(events, e) : s.seq \in 1..MaxSequence
          BY DEF TxTypeOK, TypeOK, Event, OfDay
        <5>4. n = MaxSequence
          BY <4>1, <5>2, <5>3, JournalAssumption DEF IsNextSequence
        <5>5. append_event_in_order(e, scope)
          BY <3>0, <3>2, <4>1, <5>1, <5>4 DEF append_event_in_order
        <5> QED BY <3>1, <5>5 DEF Next
      <4>3. CASE ~Owned(e)
        <5>1. append_event_in_order(e, scope)
          BY <3>0, <3>2, <4>1, <4>3 DEF append_event_in_order
        <5> QED BY <3>1, <5>1 DEF Next
      <4> QED BY <4>2, <4>3
    <3>3. CASE tx[c].ordered = FALSE
      <4>1. 1 \in 1..MaxSequence
        BY JournalAssumption
      <4>2. append_event(e, 1, scope)
        BY <3>0, <3>3 DEF append_event
      <4> QED BY <3>1, <4>1, <4>2 DEF Next
    <3> QED BY <3>1, <3>2, <3>3
  <2>5. ASSUME NEW c \in Connections, check_duplicate(c) \/ stamp(c) \/ lose(c)
        PROVE  UNCHANGED journal
    BY <2>5 DEF check_duplicate, stamp, lose, Rollback, journal
  <2>6. ASSUME NEW c \in Connections, NEW e \in Candidates, NEW scope \in IdentityScope,
               \/ begin_immediate(c, e, scope)
               \/ \E n \in 1..MaxSequence : begin_deferred(c, e, n, scope)
        PROVE  Next
    BY <2>6 DEF begin_immediate, begin_deferred, Next
  <2>7. CASE UNCHANGED vars
    BY <2>7 DEF vars, journal
  <2> QED BY <2>2, <2>3, <2>4, <2>5, <2>6, <2>7 DEF TxNext
<1> QED BY <1>1, <1>2, TxInitInv, TxNextInv, SnapshotsStand, PTL DEF TxSpec, Spec, AtomicJournal

-----------------------------------------------------------------------------
JournalInv == TypeOK /\ OrderIsTotal /\ IdentitiesAreHeldOnce /\ NoForeignLegs

\* The journal's safety, for every set of owners, accounts and facts: the order
\* of a day is total, an identity is held once, no leg is foreign.
THEOREM JournalIsSafe ==
  Spec => [](TypeOK /\ OrderIsTotal /\ IdentitiesAreHeldOnce /\ NoForeignLegs)
<1>1. Init => JournalInv
  BY DEF Init, JournalInv, TypeOK, OrderIsTotal, IdentitiesAreHeldOnce, NoForeignLegs
<1>2. JournalInv /\ [Next]_journal => JournalInv'
  <2> SUFFICES ASSUME JournalInv, NEW e \in Candidates, NEW n \in 1..MaxSequence,
                      insert_event_in(e, n)
               PROVE  JournalInv'
    <3>1. ASSUME [Next]_journal
          PROVE  \/ UNCHANGED events
                 \/ \E e \in Candidates, n \in 1..MaxSequence : insert_event_in(e, n)
      BY <3>1 DEF Next, call, append_event, append_event_in_order, journal
    <3>2. ASSUME JournalInv, UNCHANGED events
          PROVE  JournalInv'
      BY <3>2 DEF JournalInv, TypeOK, OrderIsTotal, IdentitiesAreHeldOnce, NoForeignLegs
    <3> QED BY <3>1, <3>2
  <2> DEFINE new == Stamped(e, n)
  <2>0. events' = events \cup {new} /\ new.e = e /\ new.seq = n
    BY DEF insert_event_in, Stamped
  <2>1. TypeOK'
    BY InsertKeepsType DEF JournalInv
  <2>2. OrderIsTotal'
    BY <2>0 DEF JournalInv, OrderIsTotal, insert_event_in, FitsIndexes
  <2>3. IdentitiesAreHeldOnce'
    <3>1. \A r \in events : ~SameId(r, e) /\ ~SameKey(r, e) /\ ~SameOperation(r, e, "Account")
      BY DEF insert_event_in, FitsIndexes
    <3>2. \A r \in events :
            ~SameId(new, r.e) /\ ~SameKey(new, r.e) /\ ~SameOperation(new, r.e, "Account")
      BY <2>0, <3>1 DEF SameId, SameKey, SameOperation
    <3> QED BY <2>0, <3>1, <3>2 DEF JournalInv, IdentitiesAreHeldOnce, SameId, SameKey, SameOperation
  <2>4. NoForeignLegs'
    BY <2>0 DEF JournalInv, NoForeignLegs, insert_event_in, Owned
  <2> QED BY <2>1, <2>2, <2>3, <2>4 DEF JournalInv
<1> QED BY <1>1, <1>2, PTL DEF Spec, JournalInv

\* What the two processes leave in the file has the journal's safety.
THEOREM FileIsSafe ==
  TxSpec => [](OrderIsTotal /\ IdentitiesAreHeldOnce /\ NoForeignLegs)
BY TransactionsImplementJournal, JournalIsSafe, PTL DEF AtomicJournal
=============================================================================
