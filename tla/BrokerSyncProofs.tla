--------------------------- MODULE BrokerSyncProofs ---------------------------
(***************************************************************************)
(* For any accounts, numbers, rows and syncs, with failures at any call:   *)
(* what a sync keeps stands on rows that are in the journal, a question is *)
(* settled only by a later sync that asked for its row again, a broker     *)
(* account is filed on one account, both unless the owner moved a number,  *)
(* and an operation with an identifier is recorded once.                   *)
(***************************************************************************)
EXTENDS BrokerSync, FiniteSetTheorems, TLAPS

Calls == MaxCalls - left.calls
Asked == [raised : 1..MaxCalls, open : {TRUE}, interval : Intervals, rows : SUBSET Rows, by : {NONE}]
Settled == [raised : 1..MaxCalls, open : {FALSE}, interval : Intervals, rows : SUBSET Rows,
            by : [call : 1..MaxCalls, interval : Intervals, number : Numbers]]

\* What TypeOK leaves open: the shapes the steps update.
Shapes ==
  /\ journal \in [Accounts -> [Rows -> [Sources -> Nat]]]
  /\ questions \in [Accounts -> [Reported -> Asked \cup Settled \cup {NoQuestion}]]
  /\ assertions \subseteq [account : Accounts, interval : Intervals, position : Reported,
                           rows : SUBSET Rows]
  /\ left \in [{"calls", "faults", "turns"} -> Int] /\ left.calls \in 0..MaxCalls

\* The rows a sync has read and written are in the journal: all it counted as
\* known, and of those it accepted all it no longer has to append.
RowsOK(r) ==
  /\ r.known \subseteq Recorded(r.account)
  /\ \A o \in r.read : TradeDate[o] <= r.interval.to => o \in r.known
  /\ r.pc \in {"load", "portfolio", "bind", "append"} => r.todo \subseteq r.good
  /\ r.pc \in {"load", "portfolio", "bind"} => r.good \subseteq r.todo
  /\ r.pc = "append" => r.good \ r.todo \subseteq Recorded(r.account)
  /\ r.pc \in {"assert", "keep"} => r.good \subseteq Recorded(r.account)

\* A sync that still has to write the number it discovered runs for an account
\* the channel never wrote to; one that may write rows holds the account's
\* number, unless the owner took it away meanwhile, and so the account's
\* questions are about rows of that number or of one the owner took before.
Reading == {"operations", "load", "portfolio", "bind"}
Writes == {"append", "assert", "keep"}
Discovering(r) == r.pc = "discover" \/ (r.pending /\ r.pc \in Reading)
Filing(r) == r.pc \in Writes \/ (~r.pending /\ r.pc \in Reading)
Own(r, o) == NumberOf[o] = r.number /\ (o \in Rows => Within(OrderDate[o], r.interval))
NumberOK(r) ==
  /\ r.pc \in {"load", "portfolio", "bind", "append"} => \A o \in r.good : NumberOf[o] = r.number
  /\ r.pc \notin {"bound", "discover", "operations"} => \A o \in r.refused : Own(r, o)
  /\ r.pc \notin {"bound", "discover"} => r.number \in Numbers
  /\ r.pc = "bound" => ~r.pending
  /\ r.pc = "bind" => r.pending
  /\ Discovering(r) => /\ \A o \in Rows : journal[r.account][o]["sync"] = 0
                       /\ \A o \in Reported : questions[r.account][o] = NoQuestion
  /\ Filing(r) => /\ binding[r.account] # NONE
                  /\ binding[r.account] = r.number \/ r.number \in moved
                  /\ \A o \in Reported : questions[r.account][o] # NoQuestion =>
                       NumberOf[o] = r.number \/ NumberOf[o] \in moved

\* The questions of an account under synchronisation are older than the sync,
\* but for the ones it raised itself, and those it refuses.
QuestionsOK(r) ==
  /\ r.call <= Calls
  /\ r.pc = "keep" => r.todo \subseteq r.refused
  /\ r.pc = "assert" => r.todo \subseteq Positions
  /\ \A o \in Reported : questions[r.account][o] # NoQuestion =>
       questions[r.account][o].raised < r.call \/ (r.pc = "keep" /\ o \in r.refused)

\* Facts and questions of the channel stand under the account's number or one that
\* was moved, and an account without a number has none.  A question's interval
\* contains the day its row is asked by.
FiledOK ==
  /\ \A a \in Accounts, o \in Reported : questions[a][o] # NoQuestion =>
       /\ binding[a] # NONE
       /\ binding[a] = NumberOf[o] \/ NumberOf[o] \in moved
       /\ o \in Rows => Within(OrderDate[o], questions[a][o].interval)
  /\ \A a \in Accounts, o \in Rows : journal[a][o]["sync"] > 0 =>
       binding[a] # NONE /\ (binding[a] = NumberOf[o] \/ NumberOf[o] \in moved)
  /\ \A a, b \in Accounts : binding[a] # NONE /\ binding[a] = binding[b] => a = b

RaisedOK ==
  \A a \in Accounts, o \in Reported :
    questions[a][o] # NoQuestion => questions[a][o].raised <= Calls

SyncOK(s) ==
  sync[s] # Idle => RowsOK(sync[s]) /\ NumberOK(sync[s]) /\ QuestionsOK(sync[s])

StoreOK == StandsOnItsRows /\ SettledWasReread /\ FiledOK /\ RaisedOK

IInv == TypeOK /\ Shapes /\ StoreOK /\ \A s \in Requests : SyncOK(s)

\* The part of TypeOK about the claims.
Claims ==
  /\ sync \in [Requests -> Registers \cup {Idle}]
  /\ running = {sync[s].account : s \in {t \in Requests : sync[t] # Idle}}
  /\ \A s, t \in Requests :
       sync[s] # Idle /\ sync[t] # Idle /\ sync[s].account = sync[t].account => s = t

-----------------------------------------------------------------------------
(* Lemmas about the registers and the claims.                              *)

\* A sync under way is never taken for one that is not.
LEMMA RegistersAreNotIdle == \A r \in Registers : r # Idle
<1>1. \A r \in Registers : r.pc # "idle"
  BY DEF Registers
<1>2. Idle.pc = "idle"
  BY DEF Idle
<1> QED BY <1>1, <1>2

\* A sync that goes on keeps its account, and so every claim stays as it was.
LEMMA GoesKeepsClaims ==
  ASSUME Claims, NEW s \in Requests, sync[s] # Idle,
         NEW R \in Registers, R.account = sync[s].account, Goes(s, R)
  PROVE  /\ Claims'
         /\ sync'[s] = R
         /\ \A t \in Requests \ {s} :
              sync'[t] = sync[t] /\ (sync[t] # Idle => sync[t].account # sync[s].account)
<1>1. R # Idle
  BY RegistersAreNotIdle
<1>2. sync' \in [Requests -> Registers \cup {Idle}] /\ sync'[s] = R /\ running' = running
      /\ \A t \in Requests \ {s} : sync'[t] = sync[t]
  BY DEF Claims, Goes
<1>3. \A t \in Requests : /\ sync'[t] # Idle <=> sync[t] # Idle
                          /\ sync[t] # Idle => sync'[t].account = sync[t].account
  BY <1>1, <1>2
<1>4. {sync[t].account : t \in {u \in Requests : sync[u] # Idle}}
        = {sync'[t].account : t \in {u \in Requests : sync'[u] # Idle}}
  BY <1>3
<1> QED BY <1>2, <1>3, <1>4 DEF Claims

\* A sync that returns gives up its own claim and no other.
LEMMA ReturnsKeepsClaims ==
  ASSUME Claims, NEW s \in Requests, sync[s] # Idle, Returns(s)
  PROVE  /\ Claims'
         /\ sync'[s] = Idle
         /\ \A t \in Requests \ {s} :
              sync'[t] = sync[t] /\ (sync[t] # Idle => sync[t].account # sync[s].account)
<1>1. sync' \in [Requests -> Registers \cup {Idle}] /\ sync'[s] = Idle
      /\ \A t \in Requests \ {s} : sync'[t] = sync[t]
  BY DEF Claims, Returns
<1>2. \A t \in Requests \ {s} : sync[t] # Idle => sync[t].account # sync[s].account
  BY DEF Claims
<1>3. running' = {sync'[t].account : t \in {u \in Requests : sync'[u] # Idle}}
  BY <1>1, <1>2 DEF Claims, Returns
<1> QED BY <1>1, <1>2, <1>3 DEF Claims

\* What a budget's spending leaves.
LEMMA SpendsLeaves ==
  ASSUME Shapes, NEW w \in {"calls", "faults", "turns"}, Spends(w)
  PROVE  /\ left' \in [{"calls", "faults", "turns"} -> Int] /\ left'.calls \in 0..MaxCalls
         /\ left'.calls = IF w = "calls" THEN left.calls - 1 ELSE left.calls
         /\ w = "calls" => left.calls > 0
<1>1. CASE w = "calls"
  BY <1>1, SyncAssumption DEF Shapes, Spends
<1>2. CASE w # "calls"
  <2>1. left' \in [{"calls", "faults", "turns"} -> Int]
    BY DEF Shapes, Spends
  <2>2. left'["calls"] = left["calls"]
    BY <1>2 DEF Shapes, Spends
  <2> QED BY <1>2, <2>1, <2>2 DEF Shapes
<1> QED BY <1>1, <1>2

-----------------------------------------------------------------------------
(* What a step leaves alone.                                               *)

\* TypeOK, but for the claims, of a step that writes neither binding nor gap.
LEMMA TypeOKParts ==
  TypeOK <=> /\ Claims
             /\ binding \in [Accounts -> Numbers \cup {NONE}]
             /\ \A a \in Accounts, r \in Rows, c \in Sources : journal[a][r][c] \in Nat
             /\ \A g \in gaps : g.account \in Accounts /\ g.interval \in Intervals /\ g.rows \in Nat \ {0}
             /\ moved \subseteq Numbers
BY DEF TypeOK, Claims

\* A sync that does not move keeps its invariant while the journal grows by
\* other channels and the account's number is at most taken away by its owner.
LEMMA UnmovedSync ==
  ASSUME Shapes, Shapes', TypeOK, NEW t \in Requests, SyncOK(t), sync'[t] = sync[t],
         moved \subseteq moved', left'.calls <= left.calls,
         sync[t] # Idle =>
           /\ \A o \in Rows, c \in Sources :
                journal'[sync[t].account][o][c] >= journal[sync[t].account][o][c]
           /\ \A o \in Rows :
                journal'[sync[t].account][o]["sync"] = journal[sync[t].account][o]["sync"]
           /\ binding[sync[t].account] = NONE
              \/ /\ binding'[sync[t].account] # NONE
                 /\ binding[sync[t].account] \in {binding'[sync[t].account]} \cup moved'
           /\ questions'[sync[t].account] = questions[sync[t].account]
  PROVE  SyncOK(t)'
<1> SUFFICES ASSUME sync[t] # Idle
             PROVE  RowsOK(sync[t])' /\ NumberOK(sync[t])' /\ QuestionsOK(sync[t])'
  BY DEF SyncOK
<1> DEFINE r == sync[t]
<1>1. r \in Registers /\ r.account \in Accounts
  BY DEF TypeOK, Registers
<1>2. Recorded(r.account) \subseteq {o \in Rows : \E c \in Sources : journal'[r.account][o][c] > 0}
  BY <1>1 DEF Recorded, Shapes
<1>3. RowsOK(r) /\ NumberOK(r) /\ QuestionsOK(r)
  BY DEF SyncOK
<1>4. RowsOK(sync[t])'
  BY <1>2, <1>3 DEF RowsOK, Recorded
<1>5. NumberOK(sync[t])'
  <2>1. r.pc \in Reading \cup Writes => r.number # NONE
    BY <1>3, SyncAssumption DEF NumberOK, Reading, Writes
  <2>2. Filing(r) => r.pc \in Reading \cup Writes
    BY DEF Filing
  <2> QED BY <1>3, <2>1, <2>2 DEF NumberOK, Own, Filing, Discovering
<1>6. QuestionsOK(sync[t])'
  <2> r.call \in 1..MaxCalls
    BY <1>1 DEF Registers
  <2> left.calls \in Int /\ left'.calls \in Int
    BY DEF Shapes
  <2>1. r.call <= MaxCalls - left.calls
    BY <1>3 DEF QuestionsOK, Calls
  <2>2. r.call <= MaxCalls - left'.calls
    BY <2>1, SyncAssumption
  <2> QED BY <1>3, <2>2 DEF QuestionsOK, Calls
<1> QED BY <1>4, <1>5, <1>6

\* The store keeps its invariant where nothing but gaps is written.
LEMMA UnwrittenStore ==
  ASSUME Shapes, Shapes', StoreOK, left'.calls <= left.calls,
         UNCHANGED <<binding, journal, assertions, questions, moved>>
  PROVE  StoreOK'
<1>1. StandsOnItsRows' /\ SettledWasReread' /\ FiledOK'
  BY DEF StoreOK, StandsOnItsRows, Recorded, SettledWasReread, Closed, FiledOK
<1>2. ASSUME NEW a \in Accounts, NEW o \in Reported, questions[a][o] # NoQuestion
      PROVE  questions[a][o].raised <= MaxCalls - left'.calls
  <2>1. questions[a][o] \in Asked \cup Settled
    BY <1>2 DEF Shapes
  <2>2. questions[a][o].raised \in 1..MaxCalls
    BY <2>1 DEF Asked, Settled
  <2>3. questions[a][o].raised <= MaxCalls - left.calls
    BY <1>2 DEF StoreOK, RaisedOK, Calls
  <2> QED BY <2>2, <2>3, SyncAssumption DEF Shapes
<1>3. RaisedOK'
  BY <1>2 DEF RaisedOK, Calls
<1> QED BY <1>1, <1>3 DEF StoreOK

\* Together: a step of one sync that writes nothing but gaps.
LEMMA QuietStep ==
  ASSUME IInv, NEW s \in Requests,
         UNCHANGED <<binding, journal, assertions, questions, moved>>,
         Claims', Shapes', left'.calls <= left.calls,
         \A t \in Requests \ {s} : sync'[t] = sync[t],
         SyncOK(s)',
         \A g \in gaps' : g.account \in Accounts /\ g.interval \in Intervals /\ g.rows \in Nat \ {0}
  PROVE  IInv'
<1>1. TypeOK'
  BY DEF TypeOK, Claims, IInv
<1>2. StoreOK'
  BY UnwrittenStore DEF IInv
<1>3. ASSUME NEW t \in Requests \ {s} PROVE SyncOK(t)'
  <2>1. sync[t] # Idle => sync[t].account \in Accounts
    BY DEF IInv, TypeOK, Registers
  <2>2. sync[t] # Idle => \A o \in Rows, c \in Sources :
          journal'[sync[t].account][o][c] >= journal[sync[t].account][o][c]
    BY <2>1 DEF IInv, Shapes
  <2> QED BY <2>2, UnmovedSync DEF IInv
<1> QED BY <1>1, <1>2, <1>3 DEF IInv

\* A sync that is anywhere but idle has its registers, and they fit the store.
LEMMA AtWork ==
  ASSUME IInv, NEW s \in Requests, sync[s] # Idle \/ sync[s].pc # "idle"
  PROVE  /\ sync[s] # Idle /\ sync[s] \in Registers /\ sync[s].account \in Accounts
         /\ RowsOK(sync[s]) /\ NumberOK(sync[s]) /\ QuestionsOK(sync[s])
<1>1. sync[s] # Idle /\ sync[s] \in Registers
  BY DEF IInv, TypeOK, Idle
<1> QED BY <1>1 DEF IInv, SyncOK, Registers

\* A sync that goes on with registers that fit the store as it stands.
LEMMA QuietGo ==
  ASSUME IInv, NEW s \in Requests, sync[s] # Idle,
         NEW R \in Registers, R.account = sync[s].account, Goes(s, R),
         RowsOK(R), NumberOK(R), QuestionsOK(R),
         UNCHANGED <<binding, journal, assertions, questions, moved, left>>,
         \A g \in gaps' : g.account \in Accounts /\ g.interval \in Intervals /\ g.rows \in Nat \ {0}
  PROVE  IInv'
<1>1. Claims' /\ sync'[s] = R /\ \A t \in Requests \ {s} : sync'[t] = sync[t]
  BY GoesKeepsClaims, TypeOKParts DEF IInv
<1>2. Shapes' /\ left'.calls <= left.calls
  BY DEF IInv, Shapes
<1>3. SyncOK(s)'
  <2>1. RowsOK(sync[s])'
    BY <1>1 DEF RowsOK, Recorded
  <2>2. NumberOK(sync[s])'
    BY <1>1 DEF NumberOK, Own, Filing, Discovering
  <2>3. QuestionsOK(sync[s])'
    BY <1>1 DEF QuestionsOK, Calls
  <2> QED BY <2>1, <2>2, <2>3 DEF SyncOK
<1> QED BY <1>1, <1>2, <1>3, QuietStep

\* The same for a step that only asks.
LEMMA AskGo ==
  ASSUME IInv, NEW s \in Requests, sync[s] # Idle, Asks,
         NEW R \in Registers, R.account = sync[s].account, Goes(s, R),
         RowsOK(R), NumberOK(R), QuestionsOK(R)
  PROVE  IInv'
<1>1. UNCHANGED <<store, moved, left>>
  BY DEF Asks
<1>2. \A g \in gaps' : g.account \in Accounts /\ g.interval \in Intervals /\ g.rows \in Nat \ {0}
  BY <1>1 DEF IInv, TypeOK, store
<1> QED BY <1>1, <1>2, QuietGo DEF store

\* A sync that ends without a write.
LEMMA QuietReturn ==
  ASSUME IInv, NEW s \in Requests, sync[s] # Idle, Returns(s), Shapes', left'.calls <= left.calls,
         UNCHANGED <<store, moved>>
  PROVE  IInv'
<1>1. Claims' /\ sync'[s] = Idle /\ \A t \in Requests \ {s} : sync'[t] = sync[t]
  BY ReturnsKeepsClaims, TypeOKParts DEF IInv
<1>2. SyncOK(s)'
  BY <1>1 DEF SyncOK
<1> QED BY <1>1, <1>2, QuietStep DEF store, IInv, TypeOK

-----------------------------------------------------------------------------
(* The steps before the first write.                                       *)

\* broker_account_binding: the number of the account, if it has one, is read.
LEMMA BindingStep ==
  ASSUME IInv, NEW s \in Requests, broker_account_binding(s)
  PROVE  IInv'
<1> DEFINE r == sync[s]
           D == [r EXCEPT !.pc = "discover"]
           O == [r EXCEPT !.pc = "operations", !.number = binding[r.account]]
<1>1. r.pc = "bound" /\ Asks
  BY DEF broker_account_binding
<1>2. r # Idle /\ r \in Registers /\ r.account \in Accounts
      /\ RowsOK(r) /\ NumberOK(r) /\ QuestionsOK(r)
  BY <1>1, AtWork
<1>3. binding[r.account] \in Numbers \cup {NONE}
  BY <1>2 DEF IInv, TypeOK
<1>4. CASE binding[r.account] = NONE
  <2>1. D \in Registers /\ D.account = r.account
    BY <1>2 DEF Registers
  <2>2. /\ \A o \in Rows : journal[r.account][o]["sync"] = 0
        /\ \A o \in Reported : questions[r.account][o] = NoQuestion
    BY <1>2, <1>4 DEF IInv, StoreOK, FiledOK, Shapes, Sources
  <2>3. RowsOK(D) /\ QuestionsOK(D)
    BY <1>1, <1>2 DEF RowsOK, QuestionsOK, Registers
  <2>4. NumberOK(D)
    BY <1>1, <1>2, <2>2 DEF NumberOK, Own, Registers, Discovering, Filing, Reading, Writes
  <2>5. Goes(s, D)
    BY <1>4 DEF broker_account_binding, GoesTo
  <2> QED BY <1>1, <1>2, <2>1, <2>3, <2>4, <2>5, AskGo
<1>5. CASE binding[r.account] # NONE
  <2>1. O \in Registers /\ O.account = r.account
    BY <1>2, <1>3 DEF Registers
  <2>2. RowsOK(O) /\ QuestionsOK(O)
    BY <1>1, <1>2 DEF RowsOK, QuestionsOK, Registers
  <2>3. NumberOK(O)
    <3>1. \A o \in Reported : questions[r.account][o] # NoQuestion =>
            NumberOf[o] = binding[r.account] \/ NumberOf[o] \in moved
      BY <1>2 DEF IInv, StoreOK, FiledOK
    <3> QED BY <1>1, <1>2, <1>3, <1>5, <3>1 DEF NumberOK, Own, Registers, Discovering, Filing, Reading, Writes
  <2>4. Goes(s, O)
    BY <1>5 DEF broker_account_binding
  <2> QED BY <1>1, <1>2, <2>1, <2>2, <2>3, <2>4, AskGo
<1> QED BY <1>4, <1>5

\* The broker names the number of an account that has none.
LEMMA DiscoverStep ==
  ASSUME IInv, NEW s \in Requests, fetch_account_numbers(s)
  PROVE  IInv'
<1> DEFINE r == sync[s]
           R(n) == [r EXCEPT !.pc = "operations", !.number = n, !.pending = TRUE]
<1>1. r.pc = "discover" /\ Asks
  BY DEF fetch_account_numbers
<1>2. r # Idle /\ r \in Registers /\ r.account \in Accounts
      /\ RowsOK(r) /\ NumberOK(r) /\ QuestionsOK(r)
  BY <1>1, AtWork
<1>3. PICK n \in Numbers : Goes(s, R(n))
  BY DEF fetch_account_numbers
<1>4. R(n) \in Registers /\ R(n).account = r.account
  BY <1>2 DEF Registers
<1>5. RowsOK(R(n)) /\ QuestionsOK(R(n))
  BY <1>1, <1>2 DEF RowsOK, QuestionsOK, Registers
<1>6. NumberOK(R(n))
  BY <1>1, <1>2 DEF NumberOK, Own, Registers, Discovering, Filing, Reading, Writes
<1> QED BY <1>1, <1>2, <1>3, <1>4, <1>5, <1>6, AskGo

\* The operations arrive, sorted into accepted and refused rows.
LEMMA OperationsStep ==
  ASSUME IInv, NEW s \in Requests, fetch_operations(s)
  PROVE  IInv'
<1> DEFINE r == sync[s]
           rows == Answered(r)
           R(x) == [r EXCEPT !.pc = "load", !.good = rows \ Refused(rows), !.refused = Refused(rows),
                             !.todo = rows \ Refused(rows), !.snapshot = x]
<1>1. r.pc = "operations" /\ Asks
  BY DEF fetch_operations
<1>2. r # Idle /\ r \in Registers /\ r.account \in Accounts
      /\ RowsOK(r) /\ NumberOK(r) /\ QuestionsOK(r)
  BY <1>1, AtWork
<1>3. PICK x \in {"withheld", "asked"} : Goes(s, R(x))
  BY DEF fetch_operations
<1>4. rows \subseteq Rows /\ Refused(rows) \subseteq rows /\ Rows \subseteq Reported
      /\ \A o \in rows : NumberOf[o] = r.number /\ Within(OrderDate[o], r.interval)
  BY DEF Answered, Refused, Reported
<1> HIDE DEF rows
<1>5. R(x) \in Registers /\ R(x).account = r.account
  BY <1>2, <1>4 DEF Registers
<1>6. RowsOK(R(x)) /\ QuestionsOK(R(x))
  BY <1>1, <1>2 DEF RowsOK, QuestionsOK, Registers
<1>7. NumberOK(R(x))
  BY <1>1, <1>2, <1>4 DEF NumberOK, Own, Registers, Discovering, Filing, Reading, Writes
<1> QED BY <1>1, <1>2, <1>3, <1>5, <1>6, <1>7, AskGo

\* The journal is read once, for what is known already.
LEMMA LoadStep ==
  ASSUME IInv, NEW s \in Requests, load_events_through(s)
  PROVE  IInv'
<1> DEFINE r == sync[s]
           read == Recorded(r.account)
           known == known_records(r.account, r.interval.to)
           R(pc) == [r EXCEPT !.pc = pc, !.known = known, !.read = read]
<1>1. r.pc = "load" /\ Asks
  BY DEF load_events_through
<1>2. r # Idle /\ r \in Registers /\ r.account \in Accounts
      /\ RowsOK(r) /\ NumberOK(r) /\ QuestionsOK(r)
  BY <1>1, AtWork
<1>3. PICK pc \in {"portfolio", "bind", "append"} :
        Goes(s, R(pc)) /\ (pc = "bind" => r.pending) /\ (pc = "append" => ~r.pending)
  BY DEF load_events_through, Writing
<1>4. read \subseteq Rows /\ known \subseteq read
      /\ \A o \in read : TradeDate[o] <= r.interval.to => o \in known
  BY DEF Recorded, known_records
<1> HIDE DEF known
<1>5. R(pc) \in Registers /\ R(pc).account = r.account
  BY <1>2, <1>4 DEF Registers
<1>6. RowsOK(R(pc)) /\ QuestionsOK(R(pc))
  BY <1>1, <1>2, <1>4 DEF RowsOK, QuestionsOK, Registers
<1>7. NumberOK(R(pc))
  BY <1>1, <1>2, <1>3 DEF NumberOK, Own, Registers, Discovering, Filing, Reading, Writes
<1> QED BY <1>1, <1>2, <1>3, <1>5, <1>6, <1>7, AskGo

\* The positions arrive; the sync goes on to bind, or to append.
LEMMA PortfolioStep ==
  ASSUME IInv, NEW s \in Requests, fetch_portfolio(s)
  PROVE  IInv'
<1> DEFINE r == sync[s]
           rows == {q \in Positions : NumberOf[q] = r.number}
           R(pc, x) == [r EXCEPT !.pc = pc, !.snapshot = x, !.claims = rows \ Refused(rows),
                                 !.refused = @ \cup Refused(rows)]
<1>1. r.pc = "portfolio" /\ Asks
  BY DEF fetch_portfolio
<1>2. r # Idle /\ r \in Registers /\ r.account \in Accounts
      /\ RowsOK(r) /\ NumberOK(r) /\ QuestionsOK(r)
  BY <1>1, AtWork
<1>3. PICK pc \in {"bind", "append"}, x \in {"requested", "another day"} :
        Goes(s, R(pc, x)) /\ (pc = "bind" => r.pending) /\ (pc = "append" => ~r.pending)
  BY DEF fetch_portfolio, Writing
<1>4. rows \subseteq Positions /\ Refused(rows) \subseteq rows /\ Positions \subseteq Reported
      /\ \A o \in rows : NumberOf[o] = r.number /\ o \notin Rows
  BY SyncAssumption DEF Refused, Reported
<1> HIDE DEF rows
<1>5. R(pc, x) \in Registers /\ R(pc, x).account = r.account
  BY <1>2, <1>4 DEF Registers
<1>6. RowsOK(R(pc, x)) /\ QuestionsOK(R(pc, x))
  BY <1>1, <1>2 DEF RowsOK, QuestionsOK, Registers
<1>7. NumberOK(R(pc, x))
  BY <1>1, <1>2, <1>3, <1>4 DEF NumberOK, Own, Registers, Discovering, Filing, Reading, Writes
<1> QED BY <1>1, <1>2, <1>3, <1>5, <1>6, <1>7, AskGo

\* A broker that fails ends the sync, which gives up its claim.
LEMMA ErrorStep ==
  ASSUME IInv, NEW s \in Requests, broker_error(s)
  PROVE  IInv'
<1>1. sync[s] # Idle
  BY DEF broker_error, Idle
<1> QED BY <1>1, QuietReturn DEF broker_error, Asks, IInv, Shapes, store

-----------------------------------------------------------------------------
(* The writes.  A write touches the account of its own sync only.          *)

\* A step of one sync that writes to the store of its own account.
LEMMA WriteStep ==
  ASSUME IInv, NEW s \in Requests, sync[s] # Idle, Claims', Shapes', StoreOK', SyncOK(s)',
         \A t \in Requests \ {s} :
           sync'[t] = sync[t] /\ (sync[t] # Idle => sync[t].account # sync[s].account),
         binding' \in [Accounts -> Numbers \cup {NONE}],
         \A a \in Accounts \ {sync[s].account} :
           binding'[a] = binding[a] /\ journal'[a] = journal[a] /\ questions'[a] = questions[a],
         UNCHANGED <<gaps, moved, left>>
  PROVE  IInv'
<1>1. TypeOK'
  <2>1. \A a \in Accounts, r \in Rows, c \in Sources : journal'[a][r][c] \in Nat
    BY DEF Shapes
  <2> QED BY <2>1 DEF TypeOK, Claims, IInv
<1>2. ASSUME NEW t \in Requests \ {s} PROVE SyncOK(t)'
  <2>1. sync[t] # Idle => sync[t].account \in Accounts \ {sync[s].account}
    BY DEF IInv, TypeOK, Registers
  <2>2. sync[t] # Idle => \A o \in Rows, c \in Sources :
          journal'[sync[t].account][o][c] >= journal[sync[t].account][o][c]
    BY <2>1 DEF IInv, Shapes
  <2>3. left'.calls <= left.calls
    BY DEF IInv, Shapes
  <2> QED BY <2>1, <2>2, <2>3, UnmovedSync DEF IInv
<1> QED BY <1>1, <1>2 DEF IInv

\* The discovered number is written for an account with no facts of the channel.
LEMMA BindStep ==
  ASSUME IInv, NEW s \in Requests, record_broker_account_binding(s)
  PROVE  IInv'
<1> DEFINE r == sync[s]
           R == [r EXCEPT !.pc = "append"]
<1>1. r.pc = "bind" /\ UNCHANGED <<journal, assertions, gaps, questions, moved, left>>
  BY DEF record_broker_account_binding
<1>2. r # Idle /\ r \in Registers /\ r.account \in Accounts
      /\ RowsOK(r) /\ NumberOK(r) /\ QuestionsOK(r)
  BY <1>1, AtWork
<1>3. Shapes' /\ left'.calls <= left.calls
  BY <1>1 DEF IInv, Shapes
<1>4. CASE UNCHANGED binding /\ Returns(s)
  BY <1>1, <1>2, <1>3, <1>4, QuietReturn DEF store
<1>5. CASE /\ NumberIsFree(r.account, r.number)
           /\ binding' = [binding EXCEPT ![r.account] = r.number]
           /\ Goes(s, R)
  <2>1. R \in Registers /\ R.account = r.account /\ R.pc = "append"
    BY <1>2 DEF Registers
  <2>2. /\ Claims' /\ sync'[s] = R
        /\ \A t \in Requests \ {s} :
             sync'[t] = sync[t] /\ (sync[t] # Idle => sync[t].account # sync[s].account)
    BY <1>2, <1>5, <2>1, GoesKeepsClaims, TypeOKParts DEF IInv
  <2>3. /\ r.number \in Numbers /\ \A o \in Rows : journal[r.account][o]["sync"] = 0
        /\ \A o \in Reported : questions[r.account][o] = NoQuestion
    BY <1>1, <1>2 DEF NumberOK, Discovering, Reading
  <2>4. /\ binding' \in [Accounts -> Numbers \cup {NONE}]
        /\ binding'[r.account] = r.number
        /\ \A a \in Accounts \ {r.account} : binding'[a] = binding[a] /\ binding[a] # r.number
    BY <1>2, <1>5, <2>3 DEF IInv, TypeOK, NumberIsFree
  <2>5. StoreOK'
    <3>1. StandsOnItsRows' /\ SettledWasReread' /\ RaisedOK'
      BY <1>1 DEF IInv, StoreOK, StandsOnItsRows, Recorded, SettledWasReread, Closed, RaisedOK, Calls
    <3>2. FiledOK'
      BY <1>1, <1>2, <2>3, <2>4 DEF IInv, StoreOK, FiledOK
    <3> QED BY <3>1, <3>2 DEF StoreOK
  <2>6. SyncOK(s)'
    <3>1. RowsOK(sync[s])'
      BY <1>1, <1>2, <2>2 DEF RowsOK, Recorded, Registers
    <3>2. NumberOK(sync[s])'
      <4>1. /\ R.good = r.good /\ R.number = r.number
            /\ \A o \in R.good : NumberOf[o] = R.number
            /\ \A o \in R.refused : Own(R, o)
        BY <1>1, <1>2 DEF NumberOK, Own, Registers
      <4>2. ~Discovering(R)
        BY <2>1 DEF Discovering, Reading
      <4>3. binding'[R.account] = R.number /\ R.number # NONE
        BY <2>1, <2>3, <2>4, <4>1, SyncAssumption
      <4> HIDE DEF R
      <4> QED BY <1>1, <2>1, <2>2, <2>3, <4>1, <4>2, <4>3 DEF NumberOK, Own, Discovering, Filing, Writes
    <3>3. QuestionsOK(sync[s])'
      BY <1>1, <1>2, <2>2 DEF QuestionsOK, Calls, Registers
    <3> QED BY <3>1, <3>2, <3>3 DEF SyncOK
  <2> QED BY <1>1, <1>2, <1>3, <2>2, <2>4, <2>5, <2>6, WriteStep
<1> QED BY <1>4, <1>5 DEF record_broker_account_binding, GoesTo

\* Appending: whatever the dedup and the store answer, the row is recorded.
LEMMA AppendStep ==
  ASSUME IInv, NEW s \in Requests, append_operation(s)
  PROVE  IInv'
<1> DEFINE r == sync[s]
           R(o) == [r EXCEPT !.todo = @ \ {o}, !.known = @ \cup {o}]
<1>1. r.pc = "append" /\ UNCHANGED <<binding, assertions, gaps, questions, moved, left>>
  BY DEF append_operation
<1>2. r # Idle /\ r \in Registers /\ r.account \in Accounts
      /\ RowsOK(r) /\ NumberOK(r) /\ QuestionsOK(r)
  BY <1>1, AtWork
<1>3. PICK o \in r.todo :
        /\ Goes(s, R(o))
        /\ journal' = IF assess(r.known, o) = "duplicate" \/ HeldByStore(r.account, o)
                      THEN journal
                      ELSE [journal EXCEPT ![r.account][o]["sync"] = @ + 1]
  BY DEF append_operation
<1>4. o \in r.good /\ o \in Rows /\ NumberOf[o] = r.number /\ r.number \in Numbers
  BY <1>1, <1>2 DEF RowsOK, NumberOK, Registers
<1>5. R(o) \in Registers /\ R(o).account = r.account
  BY <1>2, <1>4 DEF Registers
<1>6. /\ Claims' /\ sync'[s] = R(o)
      /\ \A t \in Requests \ {s} :
           sync'[t] = sync[t] /\ (sync[t] # Idle => sync[t].account # sync[s].account)
  BY <1>2, <1>3, <1>5, GoesKeepsClaims, TypeOKParts DEF IInv
<1>7. journal' \in [Accounts -> [Rows -> [Sources -> Nat]]]
  BY <1>2, <1>3, <1>4 DEF IInv, Shapes, Sources
<1>8. \A a \in Accounts \ {r.account} : journal'[a] = journal[a]
  BY <1>2, <1>3, <1>4 DEF IInv, Shapes, Sources
<1>9. /\ \A p \in Rows \ {o}, c \in Sources : journal'[r.account][p][c] = journal[r.account][p][c]
      /\ \A c \in Sources : journal'[r.account][o][c] >= journal[r.account][o][c]
  <2>1. journal \in [Accounts -> [Rows -> [Sources -> Nat]]]
    BY DEF IInv, Shapes
  <2>2. CASE journal' = journal
    BY <1>2, <1>4, <2>1, <2>2
  <2>3. CASE journal' = [journal EXCEPT ![r.account][o]["sync"] = @ + 1]
    <3>1. \A p \in Rows \ {o} : journal'[r.account][p] = journal[r.account][p]
      BY <1>2, <1>4, <2>1, <2>3
    <3>2. journal'[r.account][o] = [journal[r.account][o] EXCEPT !["sync"] = @ + 1]
      BY <1>2, <1>4, <2>1, <2>3
    <3>3. journal[r.account][o] \in [Sources -> Nat]
      BY <1>2, <1>4, <2>1
    <3> QED BY <3>1, <3>2, <3>3
  <2> QED BY <1>3, <2>2, <2>3
<1>10. \E c \in Sources : journal'[r.account][o][c] > 0
  <2>1. CASE assess(r.known, o) = "duplicate"
    <3>1. o \in Recorded(r.account)
      BY <1>2, <2>1 DEF assess, RowsOK
    <3> QED BY <1>3, <2>1, <3>1 DEF Recorded
  <2>2. CASE HeldByStore(r.account, o)
    BY <1>3, <2>2 DEF HeldByStore, Sources
  <2>3. CASE ~(assess(r.known, o) = "duplicate" \/ HeldByStore(r.account, o))
    <3>1. journal[r.account][o]["sync"] \in Nat
      BY <1>2, <1>4 DEF IInv, Shapes, Sources
    <3>2. journal'[r.account][o]["sync"] = journal[r.account][o]["sync"] + 1
      BY <1>2, <1>3, <1>4, <2>3 DEF IInv, Shapes, Sources
    <3> QED BY <3>1, <3>2 DEF Sources
  <2> QED BY <2>1, <2>2, <2>3
<1> DEFINE Now(a) == {p \in Rows : \E c \in Sources : journal'[a][p][c] > 0}
<1>11. \A a \in Accounts : Recorded(a) \subseteq Now(a)
  <2>1. \A a \in Accounts, p \in Rows, c \in Sources :
          journal[a][p][c] \in Nat /\ journal'[a][p][c] \in Nat
    BY <1>7 DEF IInv, Shapes
  <2>2. \A p \in Rows, c \in Sources : journal[r.account][p][c] > 0 => journal'[r.account][p][c] > 0
    BY <1>2, <1>4, <1>9, <2>1
  <2> QED BY <1>8, <2>2 DEF Recorded
<1>12. o \in Now(r.account)
  BY <1>4, <1>10
<1> HIDE DEF Now
<1>13. Shapes'
  BY <1>1, <1>7 DEF IInv, Shapes
<1>14. StoreOK'
  <2>1. \A a \in Accounts : Recorded(a)' = Now(a)
    BY DEF Recorded, Now
  <2>2. StandsOnItsRows'
    <3>1. \A f \in assertions : f.account \in Accounts /\ f.rows \subseteq Recorded(f.account)
      BY DEF IInv, Shapes, StoreOK, StandsOnItsRows
    <3>2. \A f \in assertions' : f.rows \subseteq Now(f.account)
      BY <1>1, <1>11, <3>1
    <3>3. \A a \in Accounts, p \in Reported :
            questions'[a][p] # NoQuestion => questions'[a][p].rows \subseteq Now(a)
      BY <1>1, <1>11 DEF IInv, StoreOK, StandsOnItsRows
    <3> QED BY <3>2, <3>3 DEF StandsOnItsRows, Recorded, Now
  <2>3. SettledWasReread' /\ RaisedOK'
    BY <1>1 DEF IInv, StoreOK, SettledWasReread, Closed, RaisedOK, Calls
  <2>4. binding[r.account] # NONE /\ (binding[r.account] = NumberOf[o] \/ NumberOf[o] \in moved)
    BY <1>1, <1>2, <1>4 DEF NumberOK, Filing, Writes
  <2>5. FiledOK'
    BY <1>1, <1>2, <1>4, <1>8, <1>9, <2>4 DEF IInv, StoreOK, FiledOK, Sources
  <2> QED BY <2>2, <2>3, <2>5 DEF StoreOK
<1>15. SyncOK(s)'
  <2>1. RowsOK(sync[s])'
    <3>1. R(o).known \subseteq Now(r.account) /\ R(o).good \ R(o).todo \subseteq Now(r.account)
      BY <1>1, <1>2, <1>11, <1>12 DEF RowsOK, Registers
    <3>2. /\ R(o).pc = "append" /\ R(o).todo \subseteq R(o).good /\ R(o).interval = r.interval
          /\ \A p \in R(o).read : TradeDate[p] <= r.interval.to => p \in R(o).known
      BY <1>1, <1>2 DEF RowsOK, Registers
    <3> HIDE DEF R
    <3> QED BY <1>5, <1>6, <3>1, <3>2 DEF RowsOK, Recorded, Now
  <2>2. NumberOK(sync[s])'
    <3>1. /\ R(o).pc = "append" /\ R(o).account = r.account /\ R(o).number = r.number
          /\ R(o).interval = r.interval /\ R(o).pending = r.pending
          /\ R(o).good = r.good /\ R(o).refused = r.refused
      BY <1>1, <1>2 DEF Registers
    <3> HIDE DEF R
    <3> QED BY <1>1, <1>2, <1>6, <3>1
            DEF NumberOK, Own, Discovering, Filing, Reading, Writes
  <2>3. QuestionsOK(sync[s])'
    BY <1>1, <1>2, <1>6 DEF QuestionsOK, Calls, Registers
  <2> QED BY <2>1, <2>2, <2>3 DEF SyncOK
<1>16. binding' \in [Accounts -> Numbers \cup {NONE}]
  BY <1>1 DEF IInv, TypeOK
<1> QED BY <1>1, <1>2, <1>6, <1>8, <1>13, <1>14, <1>15, <1>16, WriteStep

\* The loop over the operations is over, so every accepted row is recorded.
LEMMA GapStep ==
  ASSUME IInv, NEW s \in Requests, record_coverage_gap(s)
  PROVE  IInv'
<1> DEFINE r == sync[s]
           A == [r EXCEPT !.pc = "assert", !.todo = r.claims]
           K == [r EXCEPT !.pc = "keep", !.todo = r.refused]
<1>1. r.pc = "append" /\ r.todo = {} /\ UNCHANGED <<binding, journal, assertions, questions, moved, left>>
  BY DEF record_coverage_gap, GapThenPortfolio
<1>2. r # Idle /\ r \in Registers /\ r.account \in Accounts
      /\ RowsOK(r) /\ NumberOK(r) /\ QuestionsOK(r)
  BY <1>1, AtWork
<1>3. \A g \in gaps' : g.account \in Accounts /\ g.interval \in Intervals /\ g.rows \in Nat \ {0}
  <2>1. r.refused \subseteq Reported /\ r.interval \in Intervals
    BY <1>2 DEF Registers
  <2>2. IsFiniteSet(r.refused)
    BY <2>1, FS_Subset, SyncAssumption
  <2>3. r.refused # {} => Cardinality(r.refused) \in Nat \ {0}
    BY <2>2, FS_CardinalityType, FS_EmptySet
  <2>4. r.refused # {} =>
          /\ CoverageGap(r).account \in Accounts /\ CoverageGap(r).interval \in Intervals
          /\ CoverageGap(r).rows \in Nat \ {0}
    BY <1>2, <2>1, <2>3 DEF CoverageGap
  <2>5. gaps' = IF r.refused = {} THEN gaps ELSE gaps \cup {CoverageGap(r)}
    BY DEF record_coverage_gap, GapThenPortfolio
  <2> HIDE DEF r
  <2> QED BY <2>4, <2>5 DEF IInv, TypeOK
<1>4. CASE Goes(s, A)
  <2>1. A \in Registers /\ A.account = r.account
    BY <1>2 DEF Registers, Reported
  <2>2. RowsOK(A) /\ QuestionsOK(A) /\ NumberOK(A)
    BY <1>1, <1>2 DEF RowsOK, QuestionsOK, NumberOK, Own, Registers, Discovering, Filing, Reading, Writes
  <2> QED BY <1>1, <1>2, <1>3, <1>4, <2>1, <2>2, QuietGo
<1>5. CASE Goes(s, K)
  <2>1. K \in Registers /\ K.account = r.account
    BY <1>2 DEF Registers
  <2>2. RowsOK(K) /\ QuestionsOK(K) /\ NumberOK(K)
    BY <1>1, <1>2 DEF RowsOK, QuestionsOK, NumberOK, Own, Registers, Discovering, Filing, Reading, Writes
  <2> QED BY <1>1, <1>2, <1>3, <1>5, <2>1, <2>2, QuietGo
<1> QED BY <1>4, <1>5 DEF record_coverage_gap, GapThenPortfolio

\* An assertion is kept for a position, over rows that are all recorded.
LEMMA AssertStep ==
  ASSUME IInv, NEW s \in Requests, append_assertion(s)
  PROVE  IInv'
<1> DEFINE r == sync[s]
           K == [r EXCEPT !.pc = "keep", !.todo = r.refused]
           R(q) == [r EXCEPT !.todo = @ \ {q}]
           new(q) == [account |-> r.account, interval |-> r.interval, position |-> q, rows |-> r.good]
<1>1. r.pc = "assert" /\ UNCHANGED <<binding, journal, gaps, questions, moved, left>>
  BY DEF append_assertion
<1>2. r # Idle /\ r \in Registers /\ r.account \in Accounts
      /\ RowsOK(r) /\ NumberOK(r) /\ QuestionsOK(r)
  BY <1>1, AtWork
<1>3. CASE Goes(s, K) /\ UNCHANGED assertions
  <2>1. K \in Registers /\ K.account = r.account
    BY <1>2 DEF Registers
  <2>2. RowsOK(K) /\ QuestionsOK(K) /\ NumberOK(K)
    BY <1>1, <1>2 DEF RowsOK, QuestionsOK, NumberOK, Own, Registers, Discovering, Filing, Reading, Writes
  <2>3. \A g \in gaps' : g.account \in Accounts /\ g.interval \in Intervals /\ g.rows \in Nat \ {0}
    BY <1>1 DEF IInv, TypeOK
  <2> QED BY <1>1, <1>2, <1>3, <2>1, <2>2, <2>3, QuietGo
<1>4. ASSUME NEW q \in r.todo, Goes(s, R(q)),
             assertions' = assertions \/ assertions' = assertions \cup {new(q)}
      PROVE  IInv'
  <2>1. R(q) \in Registers /\ R(q).account = r.account
    BY <1>2 DEF Registers
  <2>2. /\ Claims' /\ sync'[s] = R(q)
        /\ \A t \in Requests \ {s} :
             sync'[t] = sync[t] /\ (sync[t] # Idle => sync[t].account # sync[s].account)
    BY <1>2, <1>4, <2>1, GoesKeepsClaims, TypeOKParts DEF IInv
  <2>3. new(q) \in [account : Accounts, interval : Intervals, position : Reported, rows : SUBSET Rows]
    BY <1>2 DEF Registers
  <2>4. Shapes'
    BY <1>1, <1>4, <2>3 DEF IInv, Shapes
  <2>5. new(q).rows \subseteq Recorded(new(q).account)
    BY <1>1, <1>2 DEF RowsOK
  <2> HIDE DEF new
  <2>6. StoreOK'
    <3>1. \A f \in assertions' : f.rows \subseteq Recorded(f.account)
      BY <1>4, <2>5 DEF IInv, StoreOK, StandsOnItsRows
    <3>2. StandsOnItsRows'
      BY <1>1, <3>1 DEF IInv, StoreOK, StandsOnItsRows, Recorded
    <3>3. SettledWasReread' /\ FiledOK' /\ RaisedOK'
      BY <1>1 DEF IInv, StoreOK, SettledWasReread, Closed, FiledOK, RaisedOK, Calls
    <3> QED BY <3>2, <3>3 DEF StoreOK
  <2>7. SyncOK(s)'
    <3>1. RowsOK(R(q)) /\ QuestionsOK(R(q)) /\ NumberOK(R(q))
      BY <1>1, <1>2 DEF RowsOK, QuestionsOK, NumberOK, Own, Registers, Discovering, Filing, Reading, Writes
    <3> HIDE DEF R
    <3>2. RowsOK(sync[s])'
      BY <1>1, <2>2, <3>1 DEF RowsOK, Recorded
    <3>3. NumberOK(sync[s])'
      BY <1>1, <2>2, <3>1 DEF NumberOK, Own, Filing, Discovering
    <3>4. QuestionsOK(sync[s])'
      BY <1>1, <2>2, <3>1 DEF QuestionsOK, Calls
    <3> QED BY <3>2, <3>3, <3>4 DEF SyncOK
  <2>8. binding' \in [Accounts -> Numbers \cup {NONE}]
    BY <1>1 DEF IInv, TypeOK
  <2> QED BY <1>1, <1>2, <2>2, <2>4, <2>6, <2>7, <2>8, WriteStep
<1>5. \/ Goes(s, K) /\ UNCHANGED assertions
      \/ \E q \in r.todo : Goes(s, R(q)) /\ (assertions' = assertions \/ assertions' = assertions \cup {new(q)})
  BY DEF append_assertion
<1> QED BY <1>3, <1>4, <1>5

\* A question raised now is younger than every sync of the account but this one.
LEMMA RaiseStep ==
  ASSUME IInv, NEW s \in Requests, upsert_sync_refusal(s)
  PROVE  IInv'
<1> DEFINE r == sync[s]
           R(o) == [r EXCEPT !.todo = @ \ {o}]
           new == [raised |-> r.call, open |-> TRUE, interval |-> r.interval, rows |-> r.good,
                   by |-> NONE]
<1>1. r.pc = "keep" /\ UNCHANGED <<binding, journal, assertions, gaps, moved, left>>
  BY DEF upsert_sync_refusal
<1>2. r # Idle /\ r \in Registers /\ r.account \in Accounts
      /\ RowsOK(r) /\ NumberOK(r) /\ QuestionsOK(r)
  BY <1>1, AtWork
<1>3. PICK o \in r.todo : questions' = [questions EXCEPT ![r.account][o] = new] /\ Goes(s, R(o))
  BY DEF upsert_sync_refusal
<1>4. o \in Reported /\ o \in r.refused
  BY <1>1, <1>2 DEF Registers, QuestionsOK
<1>5. R(o) \in Registers /\ R(o).account = r.account
  BY <1>2 DEF Registers
<1>6. /\ Claims' /\ sync'[s] = R(o)
      /\ \A t \in Requests \ {s} :
           sync'[t] = sync[t] /\ (sync[t] # Idle => sync[t].account # sync[s].account)
  BY <1>2, <1>3, <1>5, GoesKeepsClaims, TypeOKParts DEF IInv
<1>7. /\ new \in Asked /\ new.open /\ new.raised = r.call /\ new.rows = r.good
      /\ new.interval = r.interval
  BY <1>2 DEF Registers, Asked
<1> HIDE DEF new
<1>8. /\ questions' \in [Accounts -> [Reported -> Asked \cup Settled \cup {NoQuestion}]]
      /\ questions'[r.account][o] = new
      /\ \A a \in Accounts, p \in Reported :
           <<a, p>> # <<r.account, o>> => questions'[a][p] = questions[a][p]
  BY <1>2, <1>3, <1>4, <1>7 DEF IInv, Shapes
<1>9. Shapes'
  BY <1>1, <1>8 DEF IInv, Shapes
<1>10. StoreOK'
  <2>1. \A a \in Accounts, p \in Reported :
          questions'[a][p] # NoQuestion => questions'[a][p].rows \subseteq Recorded(a)
    BY <1>1, <1>2, <1>7, <1>8 DEF IInv, StoreOK, StandsOnItsRows, RowsOK
  <2>2. StandsOnItsRows'
    BY <1>1, <2>1 DEF IInv, StoreOK, StandsOnItsRows, Recorded
  <2>3. SettledWasReread'
    <3> SUFFICES ASSUME NEW a \in Accounts, NEW p \in Reported,
                        questions'[a][p] # NoQuestion, ~questions'[a][p].open
                 PROVE  /\ questions'[a][p].by.call > questions'[a][p].raised
                        /\ Rereads(questions'[a][p].by, p) \/ NumberOf[p] \in moved'
      BY DEF SettledWasReread, Closed, Rereads
    <3>1. questions'[a][p] = questions[a][p]
      BY <1>7, <1>8
    <3> QED BY <1>1, <3>1 DEF IInv, StoreOK, SettledWasReread, Closed
  <2>4. RaisedOK'
    BY <1>1, <1>2, <1>7, <1>8 DEF IInv, StoreOK, RaisedOK, Calls, QuestionsOK
  <2>5. FiledOK'
    <3>1. /\ binding[r.account] # NONE
          /\ binding[r.account] = NumberOf[o] \/ NumberOf[o] \in moved
          /\ o \in Rows => Within(OrderDate[o], new.interval)
      BY <1>1, <1>2, <1>4, <1>7 DEF NumberOK, Own, Filing, Writes
    <3>2. ASSUME NEW a \in Accounts, NEW p \in Reported, questions'[a][p] # NoQuestion
          PROVE  /\ binding[a] # NONE
                 /\ binding[a] = NumberOf[p] \/ NumberOf[p] \in moved
                 /\ p \in Rows => Within(OrderDate[p], questions'[a][p].interval)
      <4>1. CASE a = r.account /\ p = o
        BY <1>8, <3>1, <4>1
      <4>2. CASE ~(a = r.account /\ p = o)
        <5>1. questions'[a][p] = questions[a][p]
          BY <1>8, <4>2
        <5> QED BY <3>2, <5>1 DEF IInv, StoreOK, FiledOK
      <4> QED BY <4>1, <4>2
    <3>3. /\ \A a \in Accounts, p \in Rows : journal[a][p]["sync"] > 0 =>
               binding[a] # NONE /\ (binding[a] = NumberOf[p] \/ NumberOf[p] \in moved)
          /\ \A a, b \in Accounts : binding[a] # NONE /\ binding[a] = binding[b] => a = b
      BY DEF IInv, StoreOK, FiledOK
    <3> QED BY <1>1, <3>2, <3>3 DEF FiledOK, Within
  <2> QED BY <2>2, <2>3, <2>4, <2>5 DEF StoreOK
<1>11. SyncOK(s)'
  <2>1. RowsOK(R(o)) /\ NumberOK(R(o))
    BY <1>1, <1>2 DEF RowsOK, NumberOK, Own, Registers, Discovering, Filing, Reading, Writes
  <2>2. R(o).call = r.call /\ R(o).refused = r.refused /\ R(o).pc = "keep" /\ R(o).todo \subseteq r.refused
    BY <1>1, <1>2 DEF QuestionsOK, Registers
  <2> HIDE DEF R
  <2>3. RowsOK(sync[s])'
    BY <1>1, <1>6, <2>1 DEF RowsOK, Recorded
  <2>4. NumberOK(sync[s])'
    <3>1. NumberOf[o] = r.number /\ Filing(r)
      BY <1>1, <1>2, <1>4 DEF NumberOK, Own, Filing, Writes
    <3>2. \A p \in Reported : questions'[r.account][p] # NoQuestion =>
            NumberOf[p] = r.number \/ NumberOf[p] \in moved
      BY <1>2, <1>8, <3>1 DEF NumberOK
    <3>3. R(o).account = r.account /\ R(o).number = r.number /\ ~Discovering(R(o))
      BY <1>2, <2>2, <1>5 DEF Registers, Discovering, Reading, R
    <3> QED BY <1>1, <1>6, <2>1, <2>2, <3>2, <3>3 DEF NumberOK, Own, Filing, Discovering
  <2>5. \A p \in Reported : questions'[r.account][p] # NoQuestion =>
          questions'[r.account][p].raised < r.call \/ p \in r.refused
    BY <1>2, <1>4, <1>8 DEF QuestionsOK
  <2>6. QuestionsOK(sync[s])'
    BY <1>1, <1>2, <1>5, <1>6, <2>2, <2>5 DEF QuestionsOK, Calls
  <2> QED BY <2>3, <2>4, <2>6 DEF SyncOK
<1>12. binding' \in [Accounts -> Numbers \cup {NONE}]
  BY <1>1 DEF IInv, TypeOK
<1>13. \A a \in Accounts \ {r.account} : questions'[a] = questions[a]
  BY <1>2, <1>3, <1>4 DEF IInv, Shapes
<1> QED BY <1>1, <1>2, <1>6, <1>9, <1>10, <1>11, <1>12, <1>13, WriteStep

\* What a sync settles was raised before it: it refuses what it raised itself.
LEMMA SettleStep ==
  ASSUME IInv, NEW s \in Requests, settle_sync_refusals_besides(s)
  PROVE  IInv'
<1> DEFINE r == sync[s]
           now(o) == LET q == questions[r.account][o]
                     IN IF Settles(r, q, o)
                        THEN [q EXCEPT !.open = FALSE,
                                        !.by = [call |-> r.call, interval |-> r.interval,
                                                number |-> r.number]]
                        ELSE q
<1>1. r.pc = "keep" /\ r.todo = {} /\ UNCHANGED <<binding, journal, assertions, gaps, moved, left>> /\ Returns(s)
  BY DEF settle_sync_refusals_besides
<1>2. r # Idle /\ r \in Registers /\ r.account \in Accounts
      /\ RowsOK(r) /\ NumberOK(r) /\ QuestionsOK(r)
  BY <1>1, AtWork
<1>3. Shapes
  BY DEF IInv
<1>4. CASE UNCHANGED questions
  BY <1>1, <1>2, <1>3, <1>4, QuietReturn DEF store, Shapes
<1>5. CASE questions' = [questions EXCEPT ![r.account] = [o \in Reported |-> now(o)]]
  <2>1. /\ Claims' /\ sync'[s] = Idle
        /\ \A t \in Requests \ {s} :
             sync'[t] = sync[t] /\ (sync[t] # Idle => sync[t].account # sync[s].account)
    BY <1>1, <1>2, ReturnsKeepsClaims, TypeOKParts DEF IInv
  <2>2. \A a \in Accounts \ {r.account} : questions'[a] = questions[a]
    BY <1>2, <1>3, <1>5 DEF Shapes
  <2>3. \A o \in Reported : questions'[r.account][o] = now(o)
    BY <1>2, <1>3, <1>5 DEF Shapes
  <2>4. ASSUME NEW o \in Reported, Settles(r, questions[r.account][o], o)
        PROVE  /\ now(o) \in Settled
               /\ now(o).raised = questions[r.account][o].raised
               /\ now(o).rows = questions[r.account][o].rows
               /\ now(o).interval = questions[r.account][o].interval
               /\ now(o).by.call > now(o).raised
               /\ Rereads(now(o).by, o) \/ NumberOf[o] \in moved
               /\ questions[r.account][o] # NoQuestion
    <3> DEFINE q == questions[r.account][o]
               b == [call |-> r.call, interval |-> r.interval, number |-> r.number]
    <3>1. q # NoQuestion /\ q.open /\ Covers(r.interval, q.interval) /\ o \notin r.refused
      BY <2>4 DEF Settles
    <3>2. q \in Asked
      <4>1. q \in Asked \cup Settled
        BY <1>2, <1>3, <3>1 DEF Shapes
      <4> QED BY <3>1, <4>1 DEF Settled
    <3>3. q.raised < r.call
      BY <1>2, <3>1 DEF QuestionsOK
    <3>4. /\ b \in [call : 1..MaxCalls, interval : Intervals, number : Numbers]
          /\ b.call = r.call /\ b.interval = r.interval /\ b.number = r.number
      BY <1>1, <1>2 DEF Registers, NumberOK
    <3>5. now(o) = [q EXCEPT !.open = FALSE, !.by = b]
      BY <2>4
    <3> HIDE DEF b, q, now
    <3>6. /\ now(o) \in Settled /\ now(o).raised = q.raised /\ now(o).rows = q.rows
          /\ now(o).by = b /\ now(o).interval = q.interval
      BY <3>2, <3>4, <3>5 DEF Asked, Settled
    <3>7. r.call \in 1..MaxCalls /\ q.raised \in 1..MaxCalls
      BY <1>2, <3>2 DEF Registers, Asked
    <3>8. now(o).by.call > now(o).raised
      BY <3>3, <3>4, <3>6, <3>7
    <3>9. NumberOf[o] = r.number \/ NumberOf[o] \in moved
      BY <1>1, <1>2, <3>1 DEF NumberOK, Filing, Writes, q
    <3>10. o \in Rows => Within(OrderDate[o], r.interval)
      <4>1. o \in Rows => Within(OrderDate[o], q.interval)
        BY <1>2, <3>1 DEF IInv, StoreOK, FiledOK, q
      <4>2. /\ q.interval.from \in Nat /\ q.interval.to \in Nat
            /\ r.interval.from \in Nat /\ r.interval.to \in Nat
            /\ o \in Rows => OrderDate[o] \in Nat
        <5>1. q.interval \in Intervals /\ r.interval \in Intervals
          BY <1>2, <3>2 DEF Registers, Asked
        <5> QED BY <5>1, SyncAssumption
      <4> QED BY <3>1, <4>1, <4>2 DEF Within, Covers
    <3>11. Rereads(now(o).by, o) \/ NumberOf[o] \in moved
      BY <3>4, <3>6, <3>9, <3>10 DEF Rereads
    <3> QED BY <3>1, <3>6, <3>8, <3>11 DEF q
  <2>5. \A o \in Reported : ~Settles(r, questions[r.account][o], o) => now(o) = questions[r.account][o]
    OBVIOUS
  <2> HIDE DEF now
  <2>6. \A o \in Reported : now(o) \in Asked \cup Settled \cup {NoQuestion}
    BY <1>2, <1>3, <2>4, <2>5 DEF Shapes
  <2>7. questions' \in [Accounts -> [Reported -> Asked \cup Settled \cup {NoQuestion}]]
    BY <1>2, <1>3, <1>5, <2>6 DEF Shapes
  <2>8. Shapes'
    BY <1>1, <1>3, <2>7 DEF Shapes
  <2>9. StoreOK'
    <3>1. \A a \in Accounts, o \in Reported :
            questions'[a][o] # NoQuestion => questions'[a][o].rows \subseteq Recorded(a)
      BY <1>2, <2>2, <2>3, <2>4, <2>5 DEF IInv, StoreOK, StandsOnItsRows
    <3>2. StandsOnItsRows'
      BY <1>1, <3>1 DEF IInv, StoreOK, StandsOnItsRows, Recorded
    <3>3. SettledWasReread'
      <4> SUFFICES ASSUME NEW a \in Accounts, NEW o \in Reported,
                          questions'[a][o] # NoQuestion, ~questions'[a][o].open
                   PROVE  /\ questions'[a][o].by.call > questions'[a][o].raised
                          /\ Rereads(questions'[a][o].by, o) \/ NumberOf[o] \in moved'
        BY DEF SettledWasReread, Closed, Rereads
      <4>1. CASE questions'[a][o] = questions[a][o]
        BY <1>1, <4>1 DEF IInv, StoreOK, SettledWasReread, Closed
      <4>2. CASE a = r.account /\ Settles(r, questions[r.account][o], o)
        BY <1>1, <2>3, <2>4, <4>2
      <4> QED BY <2>2, <2>3, <2>5, <4>1, <4>2
    <3>4. RaisedOK'
      BY <1>1, <1>2, <2>2, <2>3, <2>4, <2>5 DEF IInv, StoreOK, RaisedOK, Calls
    <3>5. FiledOK'
      <4>1. ASSUME NEW a \in Accounts, NEW o \in Reported, questions'[a][o] # NoQuestion
            PROVE  /\ questions[a][o] # NoQuestion
                   /\ questions'[a][o].interval = questions[a][o].interval
        BY <1>2, <2>2, <2>3, <2>4, <2>5, <4>1
      <4>2. ASSUME NEW a \in Accounts, NEW o \in Reported, questions'[a][o] # NoQuestion
            PROVE  /\ binding[a] # NONE
                   /\ binding[a] = NumberOf[o] \/ NumberOf[o] \in moved
                   /\ o \in Rows => Within(OrderDate[o], questions'[a][o].interval)
        BY <4>1, <4>2 DEF IInv, StoreOK, FiledOK
      <4>3. /\ \A a \in Accounts, p \in Rows : journal[a][p]["sync"] > 0 =>
                 binding[a] # NONE /\ (binding[a] = NumberOf[p] \/ NumberOf[p] \in moved)
            /\ \A a, c \in Accounts : binding[a] # NONE /\ binding[a] = binding[c] => a = c
        BY DEF IInv, StoreOK, FiledOK
      <4> QED BY <1>1, <4>2, <4>3 DEF FiledOK, Within
    <3> QED BY <3>2, <3>3, <3>4, <3>5 DEF StoreOK
  <2>10. SyncOK(s)'
    BY <2>1 DEF SyncOK
  <2>11. binding' \in [Accounts -> Numbers \cup {NONE}]
    BY <1>1 DEF IInv, TypeOK
  <2> QED BY <1>1, <1>2, <2>1, <2>2, <2>8, <2>9, <2>10, <2>11, WriteStep
<1> QED BY <1>4, <1>5 DEF settle_sync_refusals_besides

-----------------------------------------------------------------------------
(* Failures, new syncs and the owner.                                      *)

\* A sync that ends, wherever it is, leaves the store as it was.
LEMMA StopStep ==
  ASSUME IInv, NEW s \in Requests, stop(s)
  PROVE  IInv'
<1>1. sync[s] # Idle /\ Spends("faults") /\ Returns(s) /\ UNCHANGED <<store, moved>>
  BY DEF stop
<1>2. Shapes' /\ left'.calls <= left.calls
  BY <1>1, SpendsLeaves DEF IInv, Shapes, store
<1> QED BY <1>1, <1>2, QuietReturn

\* A new sync is numbered after every sync before it.
LEMMA CallStep ==
  ASSUME IInv, NEW s \in Requests, NEW a \in Accounts, NEW i \in Intervals, call(s, a, i)
  PROVE  IInv'
<1> DEFINE R == [pc |-> "bound", account |-> a, interval |-> i, call |-> MaxCalls - left.calls + 1,
                 number |-> NONE, pending |-> FALSE, todo |-> {}, good |-> {}, refused |-> {},
                 claims |-> {}, read |-> {}, known |-> {}, snapshot |-> "none"]
<1>1. /\ sync[s] = Idle /\ Spends("calls") /\ a \notin running /\ running' = running \cup {a}
      /\ sync' = [sync EXCEPT ![s] = R] /\ UNCHANGED <<store, moved>>
  BY DEF call, claim
<1>2. /\ left' \in [{"calls", "faults", "turns"} -> Int] /\ left'.calls \in 0..MaxCalls
      /\ left'.calls = left.calls - 1 /\ left.calls \in 0..MaxCalls /\ left.calls > 0
  BY <1>1, SpendsLeaves DEF IInv, Shapes
<1>3. Shapes' /\ left'.calls <= left.calls
  BY <1>1, <1>2 DEF IInv, Shapes, store
<1>4. R \in Registers /\ R.account = a /\ R # Idle
  <2>1. MaxCalls - left.calls + 1 \in 1..MaxCalls
    BY <1>2, SyncAssumption
  <2>2. R \in Registers
    BY <2>1 DEF Registers
  <2> QED BY <2>2, RegistersAreNotIdle
<1>5. /\ sync' \in [Requests -> Registers \cup {Idle}] /\ sync'[s] = R
      /\ \A t \in Requests \ {s} : sync'[t] = sync[t]
  BY <1>1, <1>4 DEF IInv, TypeOK
<1>6. \A t \in Requests : sync[t] # Idle => sync[t].account # a
  BY <1>1 DEF IInv, TypeOK
<1>7. Claims'
  <2>1. \A t \in Requests : sync'[t] # Idle <=> (t = s \/ sync[t] # Idle)
    BY <1>1, <1>4, <1>5
  <2>2. \A x : x \in running' <=> x \in {sync'[t].account : t \in {u \in Requests : sync'[u] # Idle}}
    BY <1>1, <1>4, <1>5, <2>1 DEF IInv, TypeOK
  <2>3. running' = {sync'[t].account : t \in {u \in Requests : sync'[u] # Idle}}
    BY <2>2
  <2>4. \A t, u \in Requests :
          sync'[t] # Idle /\ sync'[u] # Idle /\ sync'[t].account = sync'[u].account => t = u
    BY <1>4, <1>5, <1>6, <2>1 DEF IInv, TypeOK
  <2> QED BY <1>5, <2>3, <2>4 DEF Claims
<1>8. SyncOK(s)'
  <2>1. RowsOK(sync[s])'
    BY <1>5 DEF RowsOK
  <2>2. NumberOK(sync[s])'
    BY <1>5 DEF NumberOK, Own, Discovering, Filing, Reading, Writes
  <2>3. R.call = MaxCalls - left.calls + 1 /\ R.pc = "bound"
    OBVIOUS
  <2> HIDE DEF R
  <2>4. ASSUME NEW o \in Reported, questions[a][o] # NoQuestion
        PROVE  questions[a][o].raised < R.call
    <3>1. questions[a][o].raised <= MaxCalls - left.calls
      BY <2>4 DEF IInv, StoreOK, RaisedOK, Calls
    <3>2. questions[a][o] \in Asked \cup Settled
      BY <2>4 DEF IInv, Shapes
    <3>3. questions[a][o].raised \in 1..MaxCalls
      BY <3>2 DEF Asked, Settled
    <3> QED BY <1>2, <2>3, <3>1, <3>3, SyncAssumption
  <2>5. R.call <= MaxCalls - left'.calls
    BY <1>2, <2>3, SyncAssumption
  <2>6. QuestionsOK(sync[s])'
    BY <1>1, <1>4, <1>5, <2>3, <2>4, <2>5 DEF QuestionsOK, Calls, store
  <2> QED BY <2>1, <2>2, <2>6 DEF SyncOK
<1> QED BY <1>1, <1>3, <1>5, <1>7, <1>8, QuietStep DEF store, IInv, TypeOK

\* The owner takes a number from the account of a sync under way: what that
\* sync still files is filed under a moved number.
LEMMA OwnerBindsStep ==
  ASSUME IInv, NEW a \in Accounts, NEW n \in Numbers, bind_account(a, n)
  PROVE  IInv'
<1>1. /\ NumberIsFree(a, n) /\ Spends("turns")
      /\ binding' = [binding EXCEPT ![a] = n]
      /\ moved' = moved \cup ({binding[a]} \ {NONE, n})
      /\ UNCHANGED <<journal, assertions, gaps, questions, running, sync>>
  BY DEF bind_account
<1>2. /\ binding \in [Accounts -> Numbers \cup {NONE}]
      /\ binding' \in [Accounts -> Numbers \cup {NONE}] /\ binding'[a] = n /\ n # NONE
      /\ \A b \in Accounts \ {a} : binding'[b] = binding[b] /\ binding[b] # n
  BY <1>1, SyncAssumption DEF IInv, TypeOK, NumberIsFree
<1>3. \A b \in Accounts : \/ binding[b] = NONE
                          \/ binding'[b] # NONE /\ binding[b] \in {binding'[b]} \cup moved'
  <2>1. binding[a] = NONE \/ binding[a] = n \/ binding[a] \in moved'
    BY <1>1
  <2>2. ASSUME NEW b \in Accounts, binding[b] # NONE
        PROVE  binding'[b] # NONE /\ binding[b] \in {binding'[b]} \cup moved'
    <3>1. CASE b = a
      BY <1>2, <2>1, <2>2, <3>1
    <3>2. CASE b # a
      BY <1>2, <2>2, <3>2
    <3> QED BY <3>1, <3>2
  <2> QED BY <2>2
<1>4. moved \subseteq moved' /\ moved' \subseteq Numbers
  BY <1>1, <1>2 DEF IInv, TypeOK
<1>5. Shapes' /\ left'.calls = left.calls
  BY <1>1, SpendsLeaves DEF IInv, Shapes
<1>6. TypeOK'
  BY <1>1, <1>2, <1>4 DEF IInv, TypeOK
<1>7. StoreOK'
  <2>1. StandsOnItsRows' /\ SettledWasReread' /\ RaisedOK'
    BY <1>1, <1>5 DEF IInv, StoreOK, StandsOnItsRows, Recorded, SettledWasReread, Closed, RaisedOK, Calls
  <2>2. FiledOK'
    <3>1. \A b \in Accounts, o \in Rows : journal[b][o]["sync"] > 0 =>
            binding'[b] # NONE /\ (binding'[b] = NumberOf[o] \/ NumberOf[o] \in moved')
      BY <1>3, <1>4 DEF IInv, StoreOK, FiledOK
    <3>2. \A b, c \in Accounts : binding'[b] # NONE /\ binding'[b] = binding'[c] => b = c
      BY <1>2 DEF IInv, StoreOK, FiledOK
    <3>3. \A b \in Accounts, o \in Reported : questions[b][o] # NoQuestion =>
            /\ binding'[b] # NONE
            /\ binding'[b] = NumberOf[o] \/ NumberOf[o] \in moved'
            /\ o \in Rows => Within(OrderDate[o], questions[b][o].interval)
      BY <1>3, <1>4 DEF IInv, StoreOK, FiledOK
    <3> QED BY <1>1, <3>1, <3>2, <3>3 DEF FiledOK
  <2> QED BY <2>1, <2>2 DEF StoreOK
<1>8. ASSUME NEW t \in Requests PROVE SyncOK(t)'
  <2>1. sync[t] # Idle => sync[t].account \in Accounts
    BY DEF IInv, TypeOK, Registers
  <2>2. sync[t] # Idle => \A o \in Rows, c \in Sources :
          journal'[sync[t].account][o][c] >= journal[sync[t].account][o][c]
    BY <1>1, <2>1 DEF IInv, Shapes
  <2>3. left'.calls <= left.calls
    BY <1>5 DEF IInv, Shapes
  <2> QED BY <1>1, <1>3, <1>4, <1>5, <2>1, <2>2, <2>3, UnmovedSync DEF IInv
<1> QED BY <1>5, <1>6, <1>7, <1>8 DEF IInv

\* A statement of another source adds facts that are not of the channel.
LEMMA ImportStep ==
  ASSUME IInv, NEW a \in Accounts, NEW o \in Rows, import_statement(a, o)
  PROVE  IInv'
<1>1. /\ Spends("turns") /\ o \notin Recorded(a)
      /\ journal' = [journal EXCEPT ![a][o]["import"] = 1]
      /\ UNCHANGED <<binding, assertions, gaps, questions, running, sync, moved>>
  BY DEF import_statement
<1>2. journal' \in [Accounts -> [Rows -> [Sources -> Nat]]]
  BY <1>1 DEF IInv, Shapes, Sources
<1>3. \A b \in Accounts, p \in Rows : journal'[b][p]["sync"] = journal[b][p]["sync"]
  BY <1>1 DEF IInv, Shapes, Sources
<1>4. \A b \in Accounts, p \in Rows, c \in Sources :
        /\ journal'[b][p][c] >= journal[b][p][c]
        /\ journal[b][p][c] \in Nat /\ journal'[b][p][c] \in Nat
  <2>1. journal[a][o]["import"] \in Nat /\ ~(journal[a][o]["import"] > 0)
    BY <1>1 DEF IInv, Shapes, Sources, Recorded
  <2>2. \A b \in Accounts, p \in Rows, c \in Sources :
          journal'[b][p][c] = IF b = a /\ p = o /\ c = "import" THEN 1 ELSE journal[b][p][c]
    <3>1. journal \in [Accounts -> [Rows -> [Sources -> Nat]]]
      BY DEF IInv, Shapes
    <3> TAKE b \in Accounts, p \in Rows, c \in Sources
    <3>2. journal'[b] = IF b = a THEN [journal[a] EXCEPT ![o]["import"] = 1] ELSE journal[b]
      BY <1>1, <3>1
    <3>3. CASE b = a /\ p = o
      <4>1. journal'[b][p] = [journal[b][p] EXCEPT !["import"] = 1]
        BY <3>1, <3>2, <3>3
      <4>2. journal[b][p] \in [Sources -> Nat]
        BY <3>1
      <4> QED BY <3>3, <4>1, <4>2
    <3>4. CASE ~(b = a /\ p = o)
      BY <3>1, <3>2, <3>4
    <3> QED BY <3>3, <3>4
  <2>3. \A b \in Accounts, p \in Rows, c \in Sources :
          journal[b][p][c] \in Nat /\ journal'[b][p][c] \in Nat
    BY <1>2 DEF IInv, Shapes
  <2> TAKE b \in Accounts, p \in Rows, c \in Sources
  <2>4. CASE b = a /\ p = o /\ c = "import"
    BY <2>1, <2>2, <2>3, <2>4
  <2>5. CASE ~(b = a /\ p = o /\ c = "import")
    <3>1. journal'[b][p][c] = journal[b][p][c]
      BY <2>2, <2>5
    <3> QED BY <2>3, <3>1
  <2> QED BY <2>4, <2>5
<1>5. \A b \in Accounts, p \in Rows : p \in Recorded(b) => \E c \in Sources : journal'[b][p][c] > 0
  BY <1>4 DEF Recorded
<1>6. Shapes' /\ left'.calls = left.calls
  BY <1>1, <1>2, SpendsLeaves DEF IInv, Shapes
<1>7. TypeOK'
  BY <1>1, <1>4 DEF IInv, TypeOK
<1>8. StoreOK'
  <2>1. StandsOnItsRows'
    <3>1. \A f \in assertions : f.account \in Accounts /\ f.rows \subseteq Recorded(f.account)
      BY DEF IInv, Shapes, StoreOK, StandsOnItsRows
    <3>2. \A b \in Accounts, p \in Reported :
            questions[b][p] # NoQuestion => questions[b][p].rows \subseteq Recorded(b)
      BY DEF IInv, StoreOK, StandsOnItsRows
    <3>3. \A b \in Accounts : Recorded(b) \subseteq {p \in Rows : \E c \in Sources : journal'[b][p][c] > 0}
      BY <1>5 DEF Recorded
    <3> QED BY <1>1, <3>1, <3>2, <3>3 DEF StandsOnItsRows, Recorded
  <2>2. SettledWasReread' /\ RaisedOK' /\ FiledOK'
    BY <1>1, <1>3, <1>6 DEF IInv, StoreOK, SettledWasReread, Closed, RaisedOK, Calls, FiledOK
  <2> QED BY <2>1, <2>2 DEF StoreOK
<1>9. ASSUME NEW t \in Requests PROVE SyncOK(t)'
  <2>1. sync[t] # Idle => sync[t].account \in Accounts
    BY DEF IInv, TypeOK, Registers
  <2>2. left'.calls <= left.calls
    BY <1>6 DEF IInv, Shapes
  <2> QED BY <1>1, <1>3, <1>4, <1>6, <2>1, <2>2, UnmovedSync DEF IInv
<1> QED BY <1>6, <1>7, <1>8, <1>9 DEF IInv

\* Nothing but the broker's answers, or a budget, changes.
LEMMA OtherStep ==
  ASSUME IInv, UNCHANGED <<store, running, sync, moved>>,
         left' = left \/ Spends("turns")
  PROVE  IInv'
<1>1. Shapes' /\ left'.calls = left.calls
  BY SpendsLeaves DEF IInv, Shapes, store
<1>2. TypeOK'
  BY DEF IInv, TypeOK, store
<1>3. StoreOK'
  BY <1>1 DEF IInv, StoreOK, StandsOnItsRows, Recorded, SettledWasReread, Closed, RaisedOK, Calls, FiledOK, store
<1>4. ASSUME NEW t \in Requests PROVE SyncOK(t)'
  BY <1>1 DEF IInv, SyncOK, RowsOK, Recorded, NumberOK, Filing, Discovering, QuestionsOK, Calls, store
<1> QED BY <1>1, <1>2, <1>3, <1>4 DEF IInv

-----------------------------------------------------------------------------
(* The theorems.                                                           *)

\* Nothing is recorded, asked or claimed at first.
LEMMA InitIInv == Init => IInv
<1> SUFFICES ASSUME Init PROVE IInv
  OBVIOUS
<1>1. Shapes
  <2>1. left \in [{"calls", "faults", "turns"} -> Int] /\ left.calls \in 0..MaxCalls
    BY SyncAssumption DEF Init
  <2> QED BY <2>1 DEF Init, Shapes
<1>2. \A s \in Requests : sync[s] = Idle
  BY DEF Init
<1>3. TypeOK
  BY <1>2 DEF Init, TypeOK, Sources
<1>4. StoreOK
  BY DEF Init, StoreOK, StandsOnItsRows, SettledWasReread, Closed, RaisedOK, FiledOK, Sources
<1> QED BY <1>1, <1>2, <1>3, <1>4 DEF IInv, SyncOK

\* Every step keeps the invariant.
LEMMA NextIInv == IInv /\ [Next]_vars => IInv'
<1> SUFFICES ASSUME IInv, [Next]_vars PROVE IInv'
  OBVIOUS
<1>1. ASSUME NEW s \in Requests, step(s) PROVE IInv'
  BY <1>1, BindingStep, DiscoverStep, OperationsStep, LoadStep, PortfolioStep, ErrorStep, BindStep,
     AppendStep, GapStep, AssertStep, RaiseStep, SettleStep DEF step
<1>2. ASSUME NEW o \in Reported, NEW how, row_changes(o, how) PROVE IInv'
  BY <1>2, OtherStep DEF row_changes
<1>3. CASE UNCHANGED vars
  BY <1>3, OtherStep DEF vars
<1> QED BY <1>1, <1>2, <1>3, StopStep, CallStep, OwnerBindsStep, ImportStep DEF Next

\* Every variable keeps its shape, and an account is claimed exactly while one
\* sync runs for it, however the sync before it ended.
THEOREM SyncsAreTyped == Spec => []TypeOK
<1>1. IInv => TypeOK
  BY DEF IInv
<1> QED BY <1>1, InitIInv, NextIInv, PTL DEF Spec

\* However a sync ends, an assertion or a question of the store rests on rows
\* that are all in the journal: the loop over the operations comes first, every
\* way through it leaves the row recorded, and the journal never shrinks.
THEOREM NothingStandsOnHalfASync == Spec => []StandsOnItsRows
<1>1. IInv => StandsOnItsRows
  BY DEF IInv, StoreOK
<1> QED BY <1>1, InitIInv, NextIInv, PTL DEF Spec

\* A question is closed only by a later sync that asked for its row again, unless
\* the owner took the row's number from an account: one sync runs for an account
\* at a time, so every question it finds is older than the sync or one of its own
\* refusals, and about the number the account had when the sync read it.
THEOREM OnlyALaterSyncSettles == Spec => []SettledWasReread
<1>1. IInv => SettledWasReread
  BY DEF IInv, StoreOK
<1> QED BY <1>1, InitIInv, NextIInv, PTL DEF Spec

\* The rows of a broker account are filed on one account, however many syncs
\* discover its number at once: a discovering sync runs for an account the
\* channel has not written to yet, and the index lets one account have the number.
THEOREM ABrokerAccountIsFiledOnce == Spec => []FiledOnOneAccount
<1>1. IInv => FiledOnOneAccount
  <2> SUFFICES ASSUME IInv, NEW a \in Accounts, NEW b \in Accounts, NEW o \in Rows,
                      journal[a][o]["sync"] > 0, journal[b][o]["sync"] > 0, NumberOf[o] \notin moved
               PROVE  a = b
    BY DEF FiledOnOneAccount
  <2> QED BY DEF IInv, StoreOK, FiledOK
<1> QED BY <1>1, InitIInv, NextIInv, PTL DEF Spec

\* An operation with an identifier is appended by the channel once, and never
\* where the journal the sync read holds it already.
THEOREM AnOperationIsRecordedOnce == Spec => RecordedOnce
<1> DEFINE Once ==
       \A a \in Accounts, o \in Named :
         journal'[a][o]["sync"] > journal[a][o]["sync"] =>
           /\ journal[a][o]["sync"] = 0
           /\ \A s \in Requests : sync'[s] # sync[s] =>
                o \notin sync[s].read \/ TradeDate[o] > sync[s].interval.to
<1>1. IInv /\ [Next]_vars => [Once]_vars
  <2> SUFFICES ASSUME IInv, [Next]_vars, NEW a \in Accounts, NEW o \in Named,
                      journal'[a][o]["sync"] > journal[a][o]["sync"]
               PROVE  /\ journal[a][o]["sync"] = 0
                      /\ \A s \in Requests : sync'[s] # sync[s] =>
                           o \notin sync[s].read \/ TradeDate[o] > sync[s].interval.to
    OBVIOUS
  <2>1. o \in Rows /\ journal \in [Accounts -> [Rows -> [Sources -> Nat]]]
    BY SyncAssumption DEF IInv, Shapes
  <2>2. journal' # journal
    BY <2>1 DEF Sources
  <2>3. ASSUME NEW b \in Accounts, NEW p \in Rows, import_statement(b, p) PROVE FALSE
    BY <2>1, <2>3 DEF import_statement, Sources
  <2>4. PICK s \in Requests : append_operation(s)
    BY <2>2, <2>3 DEF Next, step, vars, store, broker_account_binding, fetch_account_numbers,
       fetch_operations, load_events_through, fetch_portfolio, broker_error, Asks,
       record_broker_account_binding, record_coverage_gap, GapThenPortfolio, append_assertion,
       upsert_sync_refusal, settle_sync_refusals_besides, stop, call, bind_account, row_changes
  <2> DEFINE r == sync[s]
  <2>5. r.pc = "append" /\ r \in Registers /\ r.account \in Accounts /\ RowsOK(r)
    BY <2>4, AtWork DEF append_operation
  <2>6. PICK p \in r.todo :
          /\ Goes(s, [r EXCEPT !.todo = @ \ {p}, !.known = @ \cup {p}])
          /\ journal' = IF assess(r.known, p) = "duplicate" \/ HeldByStore(r.account, p)
                        THEN journal
                        ELSE [journal EXCEPT ![r.account][p]["sync"] = @ + 1]
    BY <2>4 DEF append_operation
  <2>7. a = r.account /\ o = p
    BY <2>1, <2>5, <2>6 DEF Sources
  <2>8. o \notin r.known /\ journal[a][o]["sync"] = 0
    BY <2>1, <2>2, <2>6, <2>7 DEF assess, HeldByStore, Sources
  <2>9. o \notin r.read \/ TradeDate[o] > r.interval.to
    <3>1. r.interval \in Intervals
      BY <2>5 DEF Registers
    <3>2. TradeDate[o] \in Nat /\ r.interval.to \in Nat
      BY <2>1, <3>1, SyncAssumption
    <3> QED BY <2>5, <2>8, <3>2 DEF RowsOK
  <2>10. \A t \in Requests : sync'[t] # sync[t] => t = s
    BY <2>6 DEF Goes, IInv, TypeOK
  <2> QED BY <2>8, <2>9, <2>10
<1>2. Spec => []IInv
  BY InitIInv, NextIInv, PTL DEF Spec
<1> QED BY <1>1, <1>2, PTL DEF Spec, RecordedOnce
=============================================================================
