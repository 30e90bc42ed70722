# Verification of iaam

iaam keeps one person's money as an append-only journal of facts in SQLite. A
server and a command-line tool work on the same file; imports, agents and
broker channels feed it; everything else (projections, returns, reports) is
computed from it. This directory holds TLA+ models of the parts where the order
of events decides whether the journal is right, the TLC runs that check them on
small instances, and proofs, checked by TLAPS, of what holds for every size.

## 1. Inventory

| Part | State | Operations | What makes it hard |
|---|---|---|---|
| Journal appends (`iaam-store/journal`) | the `events` table and its children, one write lock per file | `append_event`, `append_event_in_order` | several processes; deferred and immediate transactions; retries under three identities; stops between statements |
| Category rules and projection (`categories.rs`, `category_index.rs`, core `category.rs`) | rule book with versions, `event_category_assignments` with a revision per row | create, amend, retire, preview, rebuild, incremental assignment, filtered read | the rule change and its rebuild are two store calls; staleness is guessed from revisions |
| Corrections (`scenarios/correction.rs`, core `event/correction.rs`) | correction facts in the journal; the effective set is derived | reverse, replace, reclassify, retract an import, for an owner or an agent | load, decide, write with nothing held in between; append-only, so a bad fact stays |
| Transfer pairing (`scenarios/transfer_pairing.rs`) | none of its own | propose, confirm | a confirmation is a proposal, a second load, and two facts in two transactions |
| Import sessions (`import_session.rs` in store and app) | sessions, observations, questions, control figures | open, feed, ask, answer, generalise, withdraw, state figures, plan, commit, abandon | every scenario is a sequence of store calls; rows, questions and rules are changed by different ones |
| Classification rules (`rules.rs`) | rules with versions, retired ones kept | create, amend, retire, classify, recompute | read once and used later; named by answers |
| Fact intake (`scenarios/ingest.rs`) | none | record a candidate, submit many | one transaction per fact |
| Outbound gateway (`iaam-http`: `tally.rs`, broker path of `gateway.rs`) | a tally file and its generation record, an owner lock and a lane per endpoint | acquire and adopt, decide and record, hand off, observe, time out, settle a latch | crash between recording and sending; half-made writes; restarts that void every timestamp; lost answers; ceilings |
| Broker synchronisation (`scenarios/sync.rs`, `sync_refusals.rs`, bindings in `reference.rs`) | claims in memory, bindings, refusal questions, facts, gaps and assertions in the journal | sync, settle refusals, bind | a dozen calls in a row, any of which may be the last; two syncs and the owner at once |
| Market data (`jobs.rs`, `sync_market`, `market.rs`) | last run and activity in memory; runs, leases, pages and the completeness boundary in the store | tick, run if due, run now, begin, record pages, finish | what spends the day; leases running out under a slow source; two processes; a run half written |
| Bundle archive (`bundle.rs`) | none | export, import | one transaction over many appends |
| Retirement and retraction of accounts (`retirement.rs`, `retraction.rs` of core and app, `reference.rs`) | an append-only history of retirements with revisions; a table of retractions | declare, withdraw; every report reads them | read, decide, write in separate calls; a report is four reads of a moving store |
| Contours, goals, perimeter, reconciliation, projections, valuation, returns (`iaam-core`) | none: functions of the journal | folds | decimal arithmetic, ordering of facts, lot disposal |
| Formats (`iaam-ingest`, `iaam-broker`, `iaam-market`) | none | parse | data rather than control |
| Rate limiter (`rate_limit.rs`) | a window and a count per presented token, in a bounded map | allow | requests overtake each other between the clock and the mutex; the map at capacity |
| Server, tokens, bootstrap | tokens | authenticate, route, provision | nothing across calls |

How they meet: a route handler calls one scenario; a scenario is an `async fn`
that makes several calls on the `Store` port; the SQLite adapter serves each
call on a blocking thread behind one mutex. So **one store call is one step, and
anything may happen between two of them**: another request's call, an error, the
caller hanging up, the process stopping. Between processes the unit is the
SQLite transaction. Every module below is built on that reading.

Properties per part: the journal's order is total and each identity is held
once; the projection says what the rules say; the journal always resolves, a
correction is idempotent, nothing counted twice or lost; a session's rows reach
the journal once or are reported, its answers and its rows agree, and a closed
session is closed; the broker's endpoint never sees more than its limits allow,
whatever happens to the sender; a synchronisation asserts only over rows it
recorded; readers of market data see whole runs, and every day is asked for
once; no statement about an account moves a figure of a report, and statements
alternate; the limiter
counts no token past its limit. `PROJECT.json` lists the hazards with their lines.

## 2. Modules

| Module | Models | Built on |
|---|---|---|
| `Journal` | the journal as atomic appends: the specification | |
| `JournalTx` | the same appends as SQLite transactions of several connections | extends `Journal` |
| `JournalProofs` | invariant, refinement and safety proofs | both |
| `CategoryIndex` | rule book, ladder, preview, projection, filtered read | |
| `CategoryIndexProofs` | its proofs | |
| `Corrections` | correction requests over an append-only journal | |
| `CorrectionsProofs` | its proofs | |
| `ImportStore` | the store's tables of sessions, rows, questions, rules; one operator per store call | |
| `ImportSession` | the scenarios that string those calls together, and the journal they write | extends `ImportStore` |
| `ImportSessionProofs` | its proofs, store call by store call and then step by step | |
| `EndpointContract` | what a broker's endpoint may see of the program: the abstract specification | |
| `OutboundTally` | the durable tally, the lane that sends through it, and what breaks around them | instances `EndpointContract` |
| `MarketSync` | one market series: schedule, runs, leases, boundary, two processes | |
| `MarketSyncProofs` | its proofs | |
| `BrokerSync` | broker synchronisations of several accounts, with owner, statements and broker beside them | |
| `BrokerSyncProofs` | its proofs | |
| `AccountStatements` | retirements and retractions of accounts, and the reports that read them | |
| `AccountStatementsProofs` | its proofs | |
| `RateLimiter` | the server's request limiter | |
| `LimitsProofs` | proofs about the limits on what is sent and on what is served | `OutboundTally`, `RateLimiter` |
| `MC...` | constants and symmetry for TLC | |

Definitions keep the names of the functions they translate; `PROJECT.json`
"map" gives each its lines.

### Journal and JournalTx

`events` is the table: a row is the caller's candidate and its number in the
day. `find_duplicate` searches the three identities in the code's order
(operation in its scope, key, identifier). `IsNextSequence` is
`MAX(sequence) + 1`, saturating at `MaxSequence` (u32::MAX in the code, 3 in the
run, so that saturation and the unique index behind it are reached). `Owned` is
the check of the legs' accounts; custody places are checked by the same routine
and are not told apart. The read-back comparison of `insert_event_in` is part of
the insert: a mismatch is one more refusal that rolls back.

`JournalTx` splits an append at each statement that reads or writes shared
state: begin, duplicate check, stamp, insert with commit. `snap` is what a
transaction reads, `lock` SQLite's one write lock. `MayWrite` and `Rollback` are
SQLite's own rules, not under `src/`, modelled from how the store uses them: WAL
snapshots, a deferred transaction refused when its snapshot was overtaken, a
dropped transaction rolled back. Waiting for the lock is `lock = NONE` in the
guard; a wait longer than `BUSY_TIMEOUT` has the effect of not starting.

`answer` is what the call that ended last returned, with the call it answers:
`Inserted`, `Duplicate` of a row, or an error. It belongs to the interface, so
the atomic journal says of each append what its caller learns, and `JournalTx`
has to give the same answers from searches and numbers made on snapshots.
`AtomicJournal` is `Journal`'s specification, checked as a property of
`JournalTx`: `events` and `answer` map to themselves; the steps that answer map
to an append on the journal as it is at that step, the begin of a transaction to
`call`, the rest to stuttering. An ordered append is specified to the letter:
the fact of the strongest identity, or the next number of the day with no fact
of its identities there in the scope asked for, and no refusal for what another
writer did. A restored fact's transaction is deferred, and the specification
says what that costs: its `Duplicate` names a fact with one of the candidate's
identities, not necessarily the strongest by then, and it may be refused because
others overtook it.

### CategoryIndex

A rule is its version, its draft and whether it is retired. A draft is a matcher
class, a text length and the set of facts it matches, which is all the ladder
reads. `owed` counts requests between the rule's transaction and their rebuild;
`request_ends_early` loses a rebuild and sets the history variable `lost`, which
any rebuild of the whole projection clears. An index row carries the revision it
was computed under, because `is_stale` reads it. The interval of a rule is part
of which facts it matches.

### Corrections

A fact is its identifier, kind, account, import, declaring principal, key,
source, operation id, relation and target. `find_duplicate` is the store's, for
`IdentityScope::Source`: the operation within its source, then the key. Every
correction is written under the correction channel's source of its account; a
reversal and a transfer carry no operation id, a replacement the one the caller
submits, a reclassification's replacement that of the fact it replaces. A request is started, loaded (it keeps the journal it saw),
and either refused or writing; `mutex` is the adapter's mutex, held for the
whole of `append_events` and only for it, while `append_next` writes one fact in
its own transaction. `Accepted` is everything `correct_events` and
`correct_import` check on the loaded copy: unknown target, reversal of a
reversal, agent conditions, `resolve` over journal and candidates, occupied
keys. Derived keys are records of what they are derived from (a hash in the
code, taken to be injective). The owner's assertions land
between the steps of a request like any other fact. A reclassification that
files the replacement of an incoming leg on the sending account is left out.

### ImportStore and ImportSession

`ImportStore` has one operator per store call that changes a table, with its
guard under a name of its own (`MayAnswer`, `MayStamp`, `MayWithdraw`) so that a
scenario's refusal is the negation of the guard. `ImportSession` gives each
request a program counter and the registers the scenario keeps across awaits:
the rows and questions it read, the rule book it loaded, the targets of an
answer, the plan of a commit. A rule's identifier is its place in `rules`. A row
has a key of the caller's or none, an identifier of its source (`line`) or none,
a subject, and a form: observed (to be settled by an answer or a rule), concluded
by its caller, concluded and `unreadable` (it does not normalise, and is
declined), or concluded and `malformed` (it normalises into an event that
`structural_rejection` refuses, a trade of no quantity, say: it is planned and
not written, and the commit goes on). Rows of equal subject are those an answer
or a rule reaches together. `find_duplicate` at the append searches the line
within the session's source, then the key. An assertion's key is its claim and a
gap's is its source, its interval and the names of the declined rows; the session
is in neither, as in the code. The fields `read` and `settled` of an assertion
are a history the properties use. Whether an answer generalises (scope of
the principal, shape of the answer, one ground) is the caller's `mints`.
Answers that a question does not admit are refused before anything is written
and are not submitted here. A commit may be refused by a stated revision or a
control mismatch at any time, which is the second disjunct of `commit_decide`.
Documents within a source, mirrored rows and rows settled without a fact are not
modelled; nor is the check of a row against the declared account, which refuses
before any write.

### EndpointContract and OutboundTally

`OutboundTally` is the broker path of the gateway for one endpoint. `tally` is
the durable record (`HostState` and the boot it was written under), and each
transition of `State` is an operator from record to record: `prepare_boot`,
`prune`, `move_pending_to`, `rollback_pending`, and the operations composed of
them. `transact` is `Commits` or `Fails`; a failure leaves the file unchanged,
renames the generation record only (`torn`: every later read fails until the
pair is restored), or is reported although both renames were made. `lane` is the
process that holds the endpoint's lock: deciding, handing off, sent, with an
unrecorded outcome latched or a dead task's mark. Around it the process stops,
the machine restarts, the pair is restored or emptied during a stop, answers are
lost. Time is the boot clock; `boot.at` ties it to the wall, which only the
contract reads. Generation numbers and the clock's high-water mark appear as
`torn` alone. `retain` stands for `Vec::retain` in `prune`: on times in the
order they were pushed, with the pending one last, what it keeps is a tail, and
the lemma `RetainIsATail` proves that this tail exists for every record the
program reaches. The in-memory breaker, waits the server names beyond the tally,
allowance, cache and retries are not in it: they only make fewer requests leave.

The initial record is the zeroed pair `connect` mints when egress is first
enabled, or an empty pair, which counts as a lost one.

`EndpointContract` is the promise, stated over what the endpoint sees (`seen`,
`told`) and the wall's time: spacing between departures, a budget per method, a
ceiling per day, and silence for the pause after a 429 and after a departure
nobody saw the answer of. `KeepsTheContract` is its specification under the
identity on those three variables; `tally`, `lane`, `torn` and `boot` are hidden.

A remark the model makes visible: when the directory's sync fails after both
renames of a recorded refusal, the outcome is on disk and the lane keeps it
latched; recording it again is refused because nothing is pending any more, so
only a restart of the process clears the latch. The endpoint sees nothing of it.

### MarketSync

`proc[p]` is a process: the job's `ScheduleState` and two tasks, the scheduler's
tick and one manual call, which the process's `market_store` mutex keeps from
overlapping. A task goes through `sync_market` one call at a time. `runs` is
`sync_runs` with the number of pages each run wrote, `lease` when its lease was
taken and `Never` once it ran out. Time is half days, before and after
`close_time`. The answer of the source is a page, a source error (unreachable or
refusing) or an answer of no use (another error, a bad status, an unreadable
body), which are the three ways the code goes on. The series is a MOEX one, with
two pages; the other series write one. `knocks` is history: scheduled requests
per day, less those a failure of ours or a restart undid.

`register_market_job` has no caller outside tests at this commit: the schedule
is modelled as written.

### BrokerSync

`sync[s]` holds the registers of one `sync_broker`: number, rows accepted and
refused, known records, the portfolio's answer. Rows carry the date the broker
filters by and the trade date, which may differ; `Named` rows have an operation
id. The channel's identity scope is the account, as the one production adapter
says. A refused row is a question keyed by account and row. `trouble` is what is
wrong with a row at present and changes between syncs; the owner binds accounts
and a statement of another source is imported in between. A store call whose
caller went away is taken to finish before the next call of the store. A gap
whose refusals taint nothing is not told apart from one that does; its key is by
interval and number of rows, as in the code, whose comment names the
consequence. Rows without an operation id are written again by every sync, as
possible duplicates, by design. `moved` is history: the numbers the owner took
from an account. So is a question's `by`: the call that settled it, with the
number and the interval it asked the broker for.

### AccountStatements

`Script` lists the store calls of each handler in their order; a request works
its script off one call at a time (`request[c].todo`) and keeps what it read
(`request[c].read`). The rules of `iaam-core` are operators that return the
refusal's name; `Assessed` ends a refused handler. `retirements` is the history:
the revision of a row is its place. `list_account_activity` counts what the query
counts, which is every event whose kind is not a control fact, corrected or not,
and both ends of a transfer. The journal is append-only, so what a report loaded
is a prefix, kept as its length. A report reads the events before the
population. An account has cash and a quantity, from deposits, transfers and
trades, and perhaps a stated securities value, which `fold_positions` counts
where the journal lists no position; `Figures` are those that are not zero.
`retired_and_empty` reads cash and quantity, as the code does. Amounts are one
unit of one currency and one instrument, accounts are all covered by one contour,
facts bear no date and the report is taken today; today is fixed, since the
handlers compare it with the date of a retirement only. Not modelled: the rows an
import session still holds, which a report may fold on request
(`list_account_activity` does not count them, so `UncoveredAccountsAreEmpty` says
nothing of a held row on a retracted account); contour membership and scope
exclusions; the outstanding-work queue; the decision index, which none of these
handlers reads.

### RateLimiter

`allow` reads the clock and waits; `admit` is the critical section of
`allow_at`, with the older stamp. `retained`, `Opened`, `HasNoRoom` and
`IsSpent` are its four tests in their order, and `allow_at` returns both the map
it leaves and the verdict, so that `RetryAfterIsExact` can ask what a caller
that returns at a later instant would be told. Poisoning of the mutex is
ignored by the code and here. Limit, window and capacity are taken to be
positive: the configuration also accepts a limit or a window of zero, with which
every request is refused and none is counted for longer than its instant.

## 3. Runs

| Run | Shows |
|---|---|
| `journal_tx` | two processes at every statement: order, identities, no lost place; every call answered as by one atomic append (`Journal`) |
| `category_index` | projection equals ladder when quiet; edits; exact previews |
| `corrections_derived` | reversals, reclassifications, retractions with two requests in flight and failures: readable, idempotent, and applied when answered, but for replacements with an operation id |
| `corrections_pairing` | pairings and replacements with failures between their facts: no money lost, nothing returns |
| `sessions` | under closing workloads with stops, a row with a key or a line is written once and a control assertion never precedes the rows its commit settled; under an answering workload a row's answer is its question's, and a question that names a rule has its row; closed is final |
| `tally` | the tally and its lane implement `EndpointContract` through stops, restarts, lost answers and failed writes; every departure is counted; the pending attempt is the latest |
| `market` | one run of a series at a time; succeeded runs are whole and the boundary is theirs; a closed run takes nothing more; one knock a day |
| `market_day` | liveness: the day is spent by every process that stays up |
| `broker_sync` | assertions stand on rows; a question is settled only by a later sync that asked for its row again, unless the owner moved its number; a number is filed under one account; a named operation is recorded once |
| `accounts` | an account an asset snapshot leaves out as retracted has no figure in the journal it folded, whatever is declared, withdrawn, recorded or reversed between its reads |
| `rate_limit` | counts and map bounded, no window rewound by a late stamp, exact waits |

One run is an expected violation: `corrections_conflict`. Two replacements of one
event, both checked against journals without the other, make the journal
unreadable, where the module's comment (quoted in `PROJECT.json` "findings") says
that the check is what prevents it. It is the complement of
`DerivedKeysKeepTheJournalReadable`.

### Further disagreements

Eight properties state what a comment or a document says and are false of the
code. Each is defined in its module; adding it as an `INVARIANT` to the named cfg
makes TLC print the trace. Where a passing property has an exception (an operation
id, a refused event, a moved number), one of these is what the exception is for.

| Property, cfg | The code says | The trace |
|---|---|---|
| `ReplacementIsWritten`, `MCCorrections_derived` | `scenarios/correction.rs:399-401`: "The replacement is the fact that now stands" | a replacement keeps the operation id of what it replaces (`:1076`) and is looked up by it first (`journal/mod.rs:76-102`): reclassify a fact that a reclassification wrote, and it is reversed while the new replacement is answered as its duplicate |
| `LegsAreRelatedOnce`, `MCCorrections_pairing` with `Rows <- Legs`, `k2` among the keys and six identifiers | `scenarios/transfer_pairing.rs:1`: "One transfer, seen twice, related once" | two pairings of two outgoing legs with one incoming leg, both proposed before either is written (`:360`): two transfers count for one arrival |
| `MissingRowsAreGapped`, `MCImportSession` | `scenarios/import_session.rs:2167-2171`: an assertion "recorded without the gap that qualifies it is the one intermediate state that misleads" | a concluded trade of no quantity is planned, its event is refused (`ingest.rs:296`), the row is neither written nor declined, and the session closes with its assertion and no gap |
| `AnsweredQuestionsHoldTheirRow`, `MCImportSession` | store `import_session.rs:556-558`: "a question answered without its observation updated would be a session that looks settled and commits nothing" | withdrawing an answer that reached another row clears that row (`:626`) and leaves its question answered, so that it cannot be answered again |
| `StampedRowsFollowTheirRule`, `MCImportSession` | store `import_session.rs:756`: "Stamp the rule one answer minted onto every row that answer settled" | a stamp still to come when its answer is withdrawn and another given puts the retired rule on the row of the new answer (`:785` asks for an answer, not for which) |
| `CoveringIsRereading`, `MCBrokerSync` | `sync_refusals.rs:175-177`: "a sync that covers the whole record has re-read the row" | questions are settled by owner, account, source and interval (`:202`): after the owner binds the account to another number, a sync of that one settles them |
| `NoMoneyIsHidden`, `MCAccountStatements` | `docs/api/conventions.md:956-957`: "If a client sees a total change after a retirement, that is a defect" | `retired_and_empty` (`report/assets.rs:441`) reads cash and positions, `fold_total` adds stated values too: retiring an account that holds only one takes it out of the total |
| `RetirementsAlternate`, `MCAccountStatements` | `docs/api/conventions.md:1012-1016` refuses "a second retirement over one that stands" and "a withdrawal when nothing stands" | the statements are read by one store call and appended to by another that checks nothing (`scenarios/retirement.rs:60`): two withdrawals, or two retirements, on one reading are both accepted |

The others were met while modelling and confirmed by a TLC trace or by reading:

* A category rebuild that was lost can escape both signs `is_stale` looks for
  (retiring a rule that is not the newest; a rule that newly matches facts
  without rows), and a filtered page answers from the old rules, against
  `journal/query.rs:120`.
* An assertion the owner records between an agent's read and its reversals is
  not seen by the fourth agent condition, which `scenarios/correction.rs:699`
  says its placement rules out.
* A row added between a commit's reading and its closing write sits in a
  committed session unwritten, against `import_session.rs:371` of the store.
* A sync that found no binding writes the number it discovered over one the
  owner bound meanwhile, which `reference.rs:1293` calls the owner's word.
* An operation of another source's statement, imported between a sync's read of
  the journal and its append, or dated after the interval, is recorded again:
  the comparison across sources is made on that one read, up to `to`.
* A first market run the source did not answer is remembered as a run; the next
  one asks for the correction window only, and its success moves
  `complete_through` over dates nothing ever asked for, where `jobs.rs:308` says
  tomorrow's run covers the missed day.
* An account whose only fact was corrected is still refused a retraction, because
  the activity query (`journal/reads.rs:150`) counts corrected facts and
  corrections, where the refusal (`scenarios/retraction.rs:180`) names the
  correction as the remedy.
* A money flow or a returns report reads its population before the events: a fact
  recorded in between on a retracted account is folded and the account not named,
  against `iaam-core/src/retirement.rs:28`. The asset snapshot reads the events
  first, and `accounts` shows that this is enough.
* The market boundary also over-claims after a manual request for an older or a
  future range, and after a position was closed for longer than the correction
  window; and `ensure_page_is_whole` accepts the first page of several while
  `sync_market` asks for the first page only.

What these have in common is the shape of the design: one store call is one
transaction, a scenario is several, and the guarantees that hold (the passing
runs) are those the store enforces inside a single call or by a key.

### Fairness

Only `MarketSync` states fairness, and only `market_day` uses it. Weak fairness
of each process's tick is the scheduler's loop over a one-minute interval; weak
fairness of a process's tasks is the executor polling what can run; weak
fairness of a lease's end is the clock. Restarting a stopped process is not
assumed, nor that the position stays open: `DayIsSpent` speaks of processes that
stay up while it does. Faults are finitely many (`MaxFaults`): a store that
fails for ever is retried for ever. Elsewhere no progress is promised: a request
may always be dropped by its caller.

### Bounds, and why they are enough

* `journal_tx`: two connections; four candidates that share a key, share an
  operation across accounts, and one with a foreign leg; one day; numbers up to
  3. Every pairwise conflict of identities, numbers and locks occurs, and the
  day overflows.
* `category_index`: two facts, four rule drafts of every class with overlaps,
  three versions, two rebuilds owed at once. A race needs two rule changes and a
  fact between them.
* `corrections_*`: two requests, up to four facts, rows with a key and with an operation id, the kinds of correction
  named in the cfg. The races are between one load and one write, so two requests
  reach them; identifiers and requests are symmetric because the code draws
  identifiers at random and never orders them.
* `sessions`: a behaviour draws one of five workloads (closing over two sessions,
  closing one with stated figures, closing two over a row named by its source and
  a concluded one, closing two that state the same figures over rows no event
  comes of, answering), which say how often each operation is called, so the state
  space is finite; when it is spent nothing more can happen, which is why the run
  does not check deadlock. Two requests are in flight; two rows tell a keyed row
  from a keyless one, two rows of equal subject suffice for reach, two answers
  for a disagreement, two rules for a renaming.
* `tally`: times in small multiples that keep the order of the real ones (the
  `ASSUME` states it), so that pauses, closures and days end within `MaxTime`;
  two methods with a budget of one, a daily ceiling small enough to be met, and
  enough faults for a stop to follow a failed write. Nothing can happen once time
  and faults are spent, so deadlock is not checked.
* `market`: two processes, two faults, one manual call; one day with both its
  halves. Leases are held, run out, are swept and woken after. `market_day`: two
  days, one fault, so that a process stops with the lease and the other waits for
  it.
* `broker_sync`: two accounts, two numbers, two syncs at a time and three in all,
  one fault and one turn of somebody else: a sync that fails, one that repeats
  it, and one beside them.
* `accounts`: an owner and an agent, two accounts of the agent's, two facts (one
  and its reversal, a trade, a transfer, a stated value), one retirement with its
  withdrawals, today's date and a later one. A torn report needs one write
  between two of its reads.
* `rate_limit`: three tokens for two places, two threads, a limit of two in a
  window of three over nine instants: windows run out twice, the map is full of
  running and of ended windows, and a late stamp meets a newer window.
* `Faults`, or the workload's `faults`, switches stops on where the question is
  about them and off where it is about interleaving alone.

### Mutants

Each property of a passing run names a mutant of the code it guards: a dropped
unique index, a missing derived key, reads in another order, a guard without
`retired_at IS NULL`. The mutated operators stand next to the
originals, marked "Mutant"; no specification uses them. TLC finds the property
violated under the same cfg once the original is replaced.

## 4. Proofs

Every safety and action property of a passing run, and each of the two
refinements, is a theorem for every value of the constants.

| Theorem | Statement |
|---|---|
| **JournalProofs** | |
| `TransactionsAreTyped` | `TxSpec => []TxTypeOK` |
| `TransactionsAreSafe` | `TxSpec => [](WriterSeesTheLatest /\ NoLostPlace)` |
| `TransactionsImplementJournal` | `TxSpec => AtomicJournal` |
| `JournalIsSafe` | `Spec => [](TypeOK /\ OrderIsTotal /\ IdentitiesAreHeldOnce /\ NoForeignLegs)` |
| `FileIsSafe` | the same three of the file, from the two above |
| **CategoryIndexProofs** | |
| `CategoriesAreTyped` | `Spec => []TypeOK` |
| `EagerIndexIsCurrent` | `Spec => []QuietIndexIsCurrent` |
| `RuleBookIsSound` | `Spec => [](VersionsAreUnique /\ EditsNeverFork)` |
| `ExactPreviewsAreExact` | `Spec => []ExactPreviewIsTheOutcome` |
| **CorrectionsProofs** | |
| `CorrectionsAreTyped` | `Spec => []TypeOK` |
| `AnEventIsReversedOnce` | `Spec => []OneReversalPerEvent` |
| `ARetractedRowStaysOut` | `Spec => []NoResurrection` |
| `WhatWasRemovedStaysRemoved` | `Spec => NothingComesBack` |
| `AnAnswerIsTrue` | `NoChosenKeys => (Spec => []AnsweredMeansApplied)` |
| `APairingKeepsTheMoney` | `OnlyPairingsReverse => (Spec => []PairingNeverLosesMoney)` |
| `DerivedKeysKeepTheJournalReadable` | `OnlyDerivedKeys => (Spec => []JournalResolves)` |
| **ImportSessionProofs** | |
| `ImportsAreTyped` | `Spec => []TypeOK` |
| `AKeyedRowIsWrittenOnce` | `Spec => []KeyedRowsAreWrittenOnce` |
| `RowsAndQuestionsAgree` | `Spec => []RowsAnswerAsTheirQuestions` |
| `NoAssertionBeforeItsRows` | `Spec => []AssertionsStandOnRows` |
| `AClosedSessionIsFinal` | `Spec => ClosedIsFinal` |
| **MarketSyncProofs** | |
| `MarketIsTyped` | `Spec => []TypeOK` |
| `OneRunIsRunning` | `Spec => []OneRunAtATime` |
| `PublishedRunsAreWhole` | `Spec => []PublishedIsWhole` |
| `ADayHasOneKnock` | `Spec => []OneKnockADay` |
| `AClosedRunIsFinal` | `Spec => ClosedRunsStayClosed` |
| **BrokerSyncProofs** | |
| `SyncsAreTyped` | `Spec => []TypeOK` |
| `NothingStandsOnHalfASync` | `Spec => []StandsOnItsRows` |
| `OnlyALaterSyncSettles` | `Spec => []SettledWasReread` |
| `ABrokerAccountIsFiledOnce` | `Spec => []FiledOnOneAccount` |
| `AnOperationIsRecordedOnce` | `Spec => RecordedOnce` |
| **AccountStatementsProofs** | |
| `RetractionsHideNothing` | `Spec => []UncoveredAccountsAreEmpty` |
| **LimitsProofs** | |
| `TallyTypeOK` | `Spec => []TypeOK` |
| `PendingStaysTheLatest` | `Spec => []PendingIsTheLatest` |
| `DeparturesStayCounted` | `Spec => []DeparturesAreCounted` |
| `TheContractIsKept` | `Spec => KeepsTheContract` |
| `LimiterKeepsItsBounds` | `LimiterSpec => []BoundsHold` |
| `NoRewind` | `LimiterSpec => WindowsNeverRewind` |
| `TheWaitIsExact` | `LimiterSpec => []RetryAfterIsExact` |

### Assumptions

They are the named `ASSUME`s of the modules, which TLC evaluates in every run:
types of the constants and of the bounds; `NONE` outside the sets it marks the
absence in; a finite
number of reportable rows and positions (`BrokerSync`); drafts of one exact class
that match a common fact have equal length, since such a matcher names the
fact's own text (`CategoryIndex`); a positive limit, window and capacity
(`RateLimiter`); the order of the durations, from the spacing of departures to
the day, the delay a response may name being at most a day, and a name for "no
method" that is no method (`OutboundTally`). `MarketSync` counts its days from an origin, and
`CorrectionWindow <= FirstDay` says that the origin lies far enough back for the
first window to begin on a counted day.

Three theorems of `Corrections` have a hypothesis on which corrections are asked
for. They are not conveniences: without them the statement is false of the code.
`NoChosenKeys` (for `AnAnswerIsTrue`): a replacement whose key the caller chose
may be answered as a duplicate of a fact that took the key after it was checked
and does something else; and a caller may submit a row under a key in the form
the code derives, since nothing sets that form apart (`Unclaimed` rules it out).
`OnlyDerivedKeys` (for `DerivedKeysKeepTheJournalReadable`): two replacements
under chosen keys may replace one event (`corrections_conflict`).
`OnlyPairingsReverse` (for `APairingKeepsTheMoney`): a reversal the owner asks for
takes money out on purpose, so that only where pairings alone write reversals
does a reversed leg without its transfer mean a loss. `AnsweredMeansApplied`
speaks of candidates without an operation id: `ReplacementIsWritten` is false of
the others. The
cfgs of `corrections_derived` and `corrections_pairing` satisfy the hypotheses.

### Arguments

Each module defines an inductive invariant (`IInv`; `TxInv` and `JournalInv` in
`JournalProofs`, `TallyInv` and `LimiterInv` in `LimitsProofs`), shows that `Init` has it and that each action keeps it, one
lemma per action, and reads the properties off it.

**Journal.** `NoLostPlace` alone is not inductive: that the stamped number is
free at the insert depends on what the transaction read still being the last
commit. `TxInv` adds `WriterSeesTheLatest` (the lock holder's snapshot is the
file) and `TxKnows` (what each program counter has established about the
snapshot). The refinement then has a case for each answer. The search and the
number were made against the snapshot; for a holder of the lock the snapshot is
the file, and a deferred transaction may write only while it is (`MayWrite`). So
an insert is the next of its day and new in the scope asked for, an ordered
duplicate is what the file itself would answer, and an ordered refusal can only
be a foreign leg or a day that is full (`OnlyTheOrderRefuses`: a number that is
next, of a candidate without a duplicate, meets no index below the largest
number). For a deferred duplicate `Snapshots` is enough: what was read is still
there, since rows are never removed.
`JournalInv` is inductive by the unique indexes alone: the duplicate search is
what turns an error into an answer, not what keeps the file right.

**CategoryIndex.** `QuietIndexIsCurrent` compares rows without their revision.
`RowsAreCurrent` strengthens it to whole rows, which is what `rebuild` writes
and what makes the repairing read harmless; `RuleBook` adds that a replaced rule
exists and that versions are unique, without which retiring one rule could
retire another's edit. `ExactPreviewIsTheOutcome` is about the ladder: the rule
to be written takes the highest number, and exact rules of one class that match
one event have texts of one length, so that it wins unless a higher class decides
already. It rests on `ThereIsAWinner`: the ladder's order is strict,
transitive and total among rules of different numbers, and any set of rules that
match has a least one. Without induction over sets this is shown by a least
counterexample: the least number up to which the rules would have no winner.

**Corrections.** `FactsInv` says that every key is held by one fact and that a
derived key of a correction tells its relation and its target (`KeyStatesIt`), so that
two reversals of one event share a key and are one, and a fact found under a
derived key does what the candidate would have done. `RequestOK` carries this
over the stale copy a request decided on: the journal only grows, so its targets
are still held; what it no longer has to write is `Applied`; and each reversal
of a pairing is `Secured`, its transfer being written or ahead of it in the
batch. With replacements whose key the caller chooses, the last step fails, and
`corrections_conflict` is the counterexample: `OnlyDerivedKeys` is exactly the
hypothesis the code does not guarantee.

**ImportSession.** The proof has three layers. Each store call keeps `StoreInv`
(tables typed, questions asked of rows that exist, a row's answer its
question's), never renumbers rows or changes what was sent, and leaves closed
sessions alone. Over that, `JournalInv` says that facts came from rows, that keys
and lines are held once and that assertions stand on settled rows; `RequestOK`
says what each program counter carries. The one that matters is `CommitOK`: a
commit that submits has written, found held, or seen refused every planned row
before `next`, so that when it comes to its assertions all the rows under them
are disposed of, although other requests ran between any two of its calls.

The third layer, `OwnInv`, is for the half of `RowsAnswerAsTheirQuestions` that
speaks of questions: a question that names a rule still has its row. A withdrawal
clears rows by the rule stamped on them, so it has to be shown that no other
question that names a rule loses its row by it. `RulesAreOwn`: a rule minted and
not yet stamped is known to one request only. `StampsArePlain`: a row stamped with
the rule another question names has itself a question that names none, and nobody
is about to name one. This rests on the requests: `OwnersHold` (who is to name a
rule on a question has answered it, alone) and `TargetsArePlain` (the questions
an answer reached stay without a rule). The full converse is false, which
`AnsweredQuestionsHoldTheirRow` states and TLC refutes.

**MarketSync.** `OneRunAtATime` rests on the lease and needs no more, but
`PublishedIsWhole` needs to know who writes a run: `RunsAreOwnedOnce` (no two
tasks, of one process or of two, name the same run) and `TaskOK` (a task whose
run is still open has written exactly the pages before its step; one whose run
was swept is refused by the guards). `PublishedOK` states the boundary as a bound
that is attained, which avoids a maximum over the runs. `OneKnockADay` needs
`KnocksOK`: a day knocked for is in `last_run`, or the task that knocked is still
under way and will put it there before the next tick may begin.

**BrokerSync.** `StoreOK` has the properties and `FiledOK`: facts of the channel
stand under the account's number, or one the owner moved. For a sync in flight,
`RowsOK` says the known rows are recorded and, of the accepted ones, all it no
longer has to append; `NumberOK` that a sync which still has to write its number
serves an account the channel never wrote to, and one that appends holds the
account's number unless it was moved, the questions of its account being about
rows of that number within their interval; `QuestionsOK` that the questions of an
account under synchronisation are older than the sync or its own. One sync per
account (`Claims`, part of `TypeOK`) makes these stable under the steps of the
others. `RecordedOnce` is an action property: a named operation in `good` and not
in `known` is appended by a key that is not there yet.

**AccountStatements.** A snapshot folded a prefix of the journal, and once it
has read the activity it knows every account that prefix touches: the activity
is read later, from a longer journal. An account no business fact touches has no
cash, no quantity and no stated value, so a figure folded is on an account the
snapshot knows as active, and those it never leaves out as retracted. With the
reads in another order the invariant fails, which is the mutant. The retirement
has no such theorem: `NoMoneyIsHidden` is false of it.

**OutboundTally.** `TallyInv` (in `LimitsProofs`) relates the record to what the
endpoint saw. Its parts:

* `Rec`, the shape of a record: times ordered and not after the present, at most
  a ceiling of them, the pending attempt's time the last of its method and its
  day. Every operator on records preserves it; `PendingIsTheLatest` is a part
  of it.
* `Sound`, the count. The departure that is `Rank`-th from the end is backed by
  the time that is `Rank`-th from the end of the day's times, and it is not
  earlier than the departure; likewise among its method's. Two numbers adjust
  this to the attempt in hand: `Off` is 1 while the pending attempt has not left,
  so that the last time belongs to no departure yet, and `Slack` is 1 once it
  may have left, since its time is that of the hand-off and the departure may be
  later. A method's own times may be missing only when the whole day is `Full`
  with times as late: that is the record that replaces a lost one.
* `Quiet`, the silence: until the pause after a 429, or after a departure without
  an answer, is over, the record is closed, paused, waiting after a boot or full.
* `Older`: a record of another boot, or an emptied one, whose times mean nothing
  and which still has one for every departure of the day (`Stale`). It is enough
  because `prepare_boot` makes every time the present and holds the first send.
* `LaneOK`: a lane that decided or handed off still satisfies the contract's
  guard; it can only wait, so the guard stays true as time passes.

The lemmas go operator by operator (`PruneSound`, `MoveSound`, `RollbackSound`,
`SentSound`, `PrepareKept`, `PrepareLost`, ...), then operation by operation
(`DecideLemma`, `ResponseLemma`, `UnknownOutcomeLemma`, ...), then one `Inv...`
per action. `SendIsAllowed` is the heart of the refinement: when `Answer` says
"send", the counts that `Sound` provides bound the departures of the budget
window and of the day, and `Quiet` gives the silence. `TheContractIsKept` then
maps `depart` to `Depart`, `observe` to `Reply`, `tick` to `Pass` and everything
else to a stutter. The invariant was checked by TLC on the run's instance and
on a larger one before it was proved.

**RateLimiter.** `BoundsHold` is the types (counts within the limit, windows and
stamps not ahead of the clock) and the bound of the map. `LimiterInv` adds that
`counters` is a function on its domain, which an update of it needs. The bound of the map
rests on `retained` never growing it and on `HasNoRoom` failing for a new key only
below capacity; `NoRewind` on `duration_since` saturating at zero, so that a
stamp older than a window finds it running. It needs `window > 0`.
`TheWaitIsExact` has two cases. A key whose count is spent waits for its own
window. A key the map has no room for waits for the least time any window has
left: before it, `retained` keeps every window and the map stays full; at it,
at least one window goes, and the cardinality strictly drops.

### Only model-checked

* `DayIsSpent`: liveness under fairness.
* That the bounds of the cfgs are large enough is argued in section 3; for the
  theorems it does not matter.

## 5. Not modelled

Text and spreadsheet formats, broker and market wire formats, DTOs, OpenAPI and
routing (data without control); decimal arithmetic of valuation and returns
(XIRR is real-valued root finding); configuration and provisioning (I/O);
tables read and written by single transactions with no protocol across calls
(documents, profiles, snapshots, decisions, reference data). The reasons stand
per component in `PROJECT.json`.

## 6. Plan

In this order; each step is a module with its runs, then its proofs.

1. The response cache and the retry policy composed with the tally.
2. `Classification`: amendment and recomputation of recorded facts; the later
   adoption of an offered rule; categories and groups.
3. `BundleImport` over `Journal`: one transaction across many appends, restored
   numbers beside assigned ones.
4. Pure algorithms as operators against reference definitions: lot disposal
   (with `iaam-oracle` as the reference), allocation of a remainder, mirrored
   rows, contour classification, reconciliation intervals.
