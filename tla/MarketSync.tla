----------------------------- MODULE MarketSync -----------------------------
(***************************************************************************)
(* One market series: its daily schedule (iaam-app jobs.rs), the run that  *)
(* asks the source and records what it answers (sync_market in scenarios/  *)
(* sync.rs) and the lease, the runs and the completeness boundary the      *)
(* store keeps for it (iaam-store market.rs).  Two processes may work on   *)
(* one database; each serialises its own runs with the market_store mutex, *)
(* and the lease keeps them apart.  A process may stop anywhere, a store   *)
(* call may fail, and a lease may run out while the source is slow.        *)
(*                                                                         *)
(* Time is counted in half days: the even half of a day is before          *)
(* close_time and the odd half after it.  A date is a number.  The series  *)
(* is a MOEX one, whose answer is stored in two pages.                     *)
(***************************************************************************)
EXTENDS Integers, Sequences, FiniteSets, FiniteSetsExt

CONSTANTS
  Procs,
  FirstEvent, FirstDay,   \* the oldest event's date, and the day it all starts
  CorrectionWindow,       \* CORRECTION_WINDOW_DAYS
  InitialPadding,         \* INITIAL_PADDING_DAYS
  MaxDay, MaxFaults, MaxManual   \* bounds of the model

ASSUME DaysAreOrdered ==
  /\ {FirstEvent, FirstDay, CorrectionWindow, InitialPadding, MaxDay} \subseteq Nat
  /\ InitialPadding < FirstEvent /\ FirstEvent <= FirstDay /\ FirstDay <= MaxDay
  /\ CorrectionWindow <= FirstDay

VARIABLES
  half,           \* the clock, in half days
  held,           \* the journal holds an open position in the instrument
  runs,           \* sync_runs, oldest first, with the pages each one wrote
  complete,       \* series_completeness.complete_through
  proc,           \* proc[p]: a process's job and its running tasks
  knocks,         \* history: requests the schedule sent for each day, but for the
                  \* ones a failure of ours or a restart has since undone
  faults, manual  \* how many faults and manual runs there were

clock == <<half, held>>
history == <<knocks, faults, manual>>
vars == <<clock, runs, complete, proc, history>>

Never == 0                 \* last_run: None; complete_through: NULL; no lease
Pages == 2                 \* prices, and accrued interest
Days == FirstDay..MaxDay
Callers == {"scheduler", "manual"}

DayOf(h) == h \div 2
day == DayOf(half)
closed == half % 2 = 1

Idle == [step |-> "none"]
Started == [up |-> TRUE, active |-> TRUE, last_run |-> Never,
            task |-> [c \in Callers |-> Idle]]

Init ==
  /\ half = 2 * FirstDay
  /\ held = TRUE
  /\ runs = <<>>
  /\ complete = Never
  /\ proc = [p \in Procs |-> Started]
  /\ knocks = [p \in Procs |-> [d \in Days |-> 0]]
  /\ faults = 0 /\ manual = 0

Fault == faults < MaxFaults /\ faults' = faults + 1
NoFault == UNCHANGED faults

----------------------------------------------------------------------------
(* MarketSchedule: when to run, and over which dates.                      *)

should_run(job) == job.active /\ closed /\ job.last_run # day

window(job) ==
  LET from == IF job.last_run = Never THEN FirstEvent - InitialPadding
                                      ELSE day - CorrectionWindow
  IN [from |-> Min({from, day}), to |-> day]

\* Mutant: only a run that returned Ok counts as the day's attempt.
spends_the_day_OnlyOk(result) == result = "ok"

\* A source that is down or says no has answered for today: Err is "source".
spends_the_day(result) == result \in {"ok", "source"}

\* What was asked for, by whom and when; the run it became and its answer.
Asked(kind, w) ==
  [step |-> "wait", kind |-> kind, from |-> w.from, to |-> w.to, at |-> half,
   run |-> 0, answer |-> "none"]

Refreshed(p) == [proc[p] EXCEPT !.active = held]
Ticks(p) == proc[p].up /\ proc[p].task["scheduler"] = Idle

\* MarketScheduler::tick refreshes the job from the journal and runs it if due.
tick(p) ==
  /\ Ticks(p)
  /\ proc' = [proc EXCEPT ![p] =
       LET job == Refreshed(p)
       IN IF should_run(job)
          THEN [job EXCEPT !.task["scheduler"] = Asked("due", window(job))]
          ELSE job]
  /\ UNCHANGED <<clock, runs, complete, history>>

\* run_now asks for the schedule's window at any hour.
run_now(p) ==
  /\ proc[p].up /\ proc[p].active /\ manual < MaxManual
  /\ proc[p].task["manual"] = Idle
  /\ proc' = [proc EXCEPT ![p].task["manual"] = Asked("now", window(proc[p]))]
  /\ manual' = manual + 1
  /\ UNCHANGED <<clock, runs, complete, knocks, faults>>

\* sync_market_with_services: a request names its own dates.
request_sync(p) ==
  /\ proc[p].up /\ manual < MaxManual
  /\ proc[p].task["manual"] = Idle
  /\ \E to \in {day - 1, day} :
       /\ FirstEvent <= to
       /\ proc' = [proc EXCEPT ![p].task["manual"] =
                     Asked("request", [from |-> FirstEvent, to |-> to])]
  /\ manual' = manual + 1
  /\ UNCHANGED <<clock, runs, complete, knocks, faults>>

----------------------------------------------------------------------------
(* The store: sync_runs and series_completeness.                           *)

Running(i) == runs[i].status = "running"

\* Mutant: the status is not looked at, only the lease the run was given.
ensure_run_AnyStatus(i) == TRUE

\* The handle's run is still running and its lease has not expired.
ensure_run(i) == Running(i) /\ runs[i].lease # Never

\* Mutant: an expired run is left for its own process to close.
Expired_Left(r) == FALSE

Expired(r) == r.status = "running" /\ r.lease = Never
Swept == [i \in DOMAIN runs |->
            IF Expired(runs[i]) THEN [runs[i] EXCEPT !.status = "failed"] ELSE runs[i]]

\* Mutant: the transaction does not look for a running run of the series.
LeaseHeld_Ignored == FALSE

LeaseHeld == \E i \in DOMAIN runs : Running(i) /\ ~Expired(runs[i])

Wrote(i) == [runs EXCEPT ![i].pages = @ + 1]

\* Mutant: the lease columns are not cleared.
Finished_KeepsLease(i, status) == [runs EXCEPT ![i].status = status]

Finished(i, status) == [runs EXCEPT ![i].status = status, ![i].lease = Never]

\* The upsert of series_completeness keeps the later date.
Advanced(to) == Max({complete, to})

----------------------------------------------------------------------------
(* sync_market, one step per call of the store or the transport.           *)

At(p, c, step) == proc[p].up /\ proc[p].task[c].step = step
Mutex(p) == \A c \in Callers : proc[p].task[c].step \in {"none", "wait", "end"}

\* The task moves on, and in the end knows only what run returned.
Goes(p, c, step, answer) ==
  proc' = [proc EXCEPT ![p].task[c].step = step, ![p].task[c].answer = answer]
Ends(p, c, result) ==
  proc' = [proc EXCEPT ![p].task[c] =
             [@ EXCEPT !.step = "end", !.answer = result, !.from = day, !.to = day, !.run = 0]]
Keeps == UNCHANGED <<clock, knocks, manual>>

\* begin_run sweeps expired runs, then takes the lease or is told it is held.
begin_run(p, c) ==
  /\ At(p, c, "wait") /\ Mutex(p)
  /\ Keeps /\ UNCHANGED complete
  /\ LET task == proc[p].task[c] IN
     \/ /\ LeaseHeld
        /\ Ends(p, c, "unasked")
        /\ NoFault /\ UNCHANGED runs
     \/ /\ ~LeaseHeld
        /\ runs' = Append(Swept, [from |-> task.from, to |-> task.to,
                                  status |-> "running", lease |-> half, pages |-> 0])
        /\ proc' = [proc EXCEPT ![p].task[c].step = "ask",
                                ![p].task[c].run = Len(runs) + 1]
        /\ NoFault
     \/ /\ Fault
        /\ Ends(p, c, "unasked")
        /\ UNCHANGED runs

\* transport.send: a page, a source that is down or refuses, or an answer of no use.
send(p, c) ==
  /\ At(p, c, "ask")
  /\ \E answer \in {"page", "source", "useless"} : Goes(p, c, "heard", answer)
  /\ LET task == proc[p].task[c]
     IN knocks' = IF task.kind = "due"
                  THEN [knocks EXCEPT ![p][DayOf(task.at)] = @ + 1] ELSE knocks
  /\ UNCHANGED <<clock, runs, complete, faults, manual>>

\* A store call on the task's run goes through only while its lease does.
Through(i) == ensure_run(i) /\ NoFault
Refused(i) == \/ ~ensure_run(i) /\ NoFault
              \/ ensure_run(i) /\ Fault

\* partial closes the run; the source's own error is what the caller is told.
close_partial(p, c) ==
  LET task == proc[p].task[c] IN
  /\ At(p, c, "heard") /\ task.answer # "page"
  /\ \/ /\ Through(task.run)
        /\ runs' = Finished(task.run, "partial")
        /\ Ends(p, c, IF task.answer = "source" THEN "source" ELSE "ok")
     \/ /\ Refused(task.run)
        /\ Ends(p, c, "ours")
        /\ UNCHANGED runs
  /\ Keeps /\ UNCHANGED complete

\* fail_run tries to close the run and reports the error that brought it here.
fail_run(p, c, i) ==
  /\ \/ ensure_run(i) /\ runs' = Finished(i, "failed")
     \/ UNCHANGED runs
  /\ Ends(p, c, "ours")

\* record_prices and record_accrued_interest: a page each, in this order.
record_page(p, c, step, next) ==
  LET task == proc[p].task[c] IN
  /\ At(p, c, step) /\ task.answer = "page"
  /\ \/ /\ Through(task.run)
        /\ runs' = Wrote(task.run)
        /\ Goes(p, c, next, "page")
     \/ /\ Refused(task.run)
        /\ fail_run(p, c, task.run)
  /\ Keeps /\ UNCHANGED complete

record_prices(p, c) == record_page(p, c, "heard", "accrued")

\* Mutant: an error of the second page is taken for an empty page.
record_accrued_interest_Lenient(p, c) ==
  \/ record_page(p, c, "accrued", "finish")
  \/ /\ At(p, c, "accrued") /\ Fault
     /\ Goes(p, c, "finish", "page")
     /\ Keeps /\ UNCHANGED <<runs, complete>>

record_accrued_interest(p, c) == record_page(p, c, "accrued", "finish")

\* finish_run closes the run and moves the boundary in one transaction.
finish_run(p, c) ==
  LET task == proc[p].task[c] IN
  /\ At(p, c, "finish")
  /\ \/ /\ Through(task.run)
        /\ runs' = Finished(task.run, "succeeded")
        /\ complete' = Advanced(task.to)
        /\ Ends(p, c, "ok")
     \/ /\ Refused(task.run)
        /\ Ends(p, c, "ours")
        /\ UNCHANGED <<runs, complete>>
  /\ Keeps

\* What run_if_due and run_now remember once the run has returned.
Remembers(task) ==
  \/ task.kind = "due" /\ spends_the_day(task.answer)
  \/ task.kind = "now" /\ task.answer = "ok"

\* The mutex is free again before the day is remembered.
return_run(p, c) ==
  LET task == proc[p].task[c] IN
  /\ At(p, c, "end")
  /\ proc' = [proc EXCEPT ![p].task[c] = Idle,
                          ![p].last_run = IF Remembers(task) THEN DayOf(task.at) ELSE @]
  /\ knocks' = IF task.kind = "due" /\ task.answer = "ours"
               THEN [knocks EXCEPT ![p][DayOf(task.at)] = @ - 1] ELSE knocks
  /\ UNCHANGED <<clock, runs, complete, faults, manual>>

step(p, c) ==
  \/ begin_run(p, c) \/ send(p, c) \/ close_partial(p, c) \/ record_prices(p, c)
  \/ record_accrued_interest(p, c) \/ finish_run(p, c) \/ return_run(p, c)

----------------------------------------------------------------------------
(* The world around them.                                                  *)

Owned(i) == \E p \in Procs, c \in Callers :
              proc[p].task[c].step \notin {"none", "wait", "end"} /\ proc[p].task[c].run = i

\* A lease whose run nobody works on any more runs out in time.
lease_runs_out(i) ==
  /\ i \in DOMAIN runs /\ Running(i) /\ runs[i].lease # Never /\ ~Owned(i)
  /\ runs' = [runs EXCEPT ![i].lease = Never]
  /\ UNCHANGED <<clock, complete, proc, history>>

\* A source slow enough to outlast the lease is a fault.
source_outlasts_lease(i) ==
  /\ i \in DOMAIN runs /\ Running(i) /\ runs[i].lease # Never /\ Owned(i)
  /\ Fault
  /\ runs' = [runs EXCEPT ![i].lease = Never]
  /\ UNCHANGED <<clock, complete, proc, knocks, manual>>

\* The process stops, and with it the schedule's memory.
crash(p) ==
  /\ proc[p].up
  /\ Fault
  /\ proc' = [proc EXCEPT ![p] = [Started EXCEPT !.up = FALSE]]
  /\ knocks' = [knocks EXCEPT ![p] = [d \in Days |-> 0]]
  /\ UNCHANGED <<clock, runs, complete, manual>>

start(p) ==
  /\ ~proc[p].up
  /\ proc' = [proc EXCEPT ![p] = Started]
  /\ UNCHANGED <<clock, runs, complete, history>>

\* No call and no lease of ten minutes lasts into the half day after the next.
pass_time ==
  /\ half < 2 * MaxDay + 1
  /\ \A i \in DOMAIN runs : Running(i) => runs[i].lease \in {Never, half}
  /\ \A p \in Procs, c \in Callers :
       proc[p].task[c] # Idle => proc[p].task[c].at = half
  /\ half' = half + 1
  /\ UNCHANGED <<held, runs, complete, proc, history>>

\* The position the job was registered for is closed.
sell ==
  /\ held /\ held' = FALSE
  /\ UNCHANGED <<half, runs, complete, proc, history>>

Next ==
  \/ \E p \in Procs : tick(p) \/ run_now(p) \/ request_sync(p) \/ crash(p) \/ start(p)
  \/ \E p \in Procs, c \in Callers : step(p, c)
  \/ \E i \in DOMAIN runs : lease_runs_out(i) \/ source_outlasts_lease(i)
  \/ pass_time \/ sell

\* The scheduler's interval keeps ticking, the executor polls every task it
\* can, and a lease runs out by the clock.  Nobody has to restart a process.
Fairness ==
  /\ \A p \in Procs : WF_vars(tick(p))
  /\ \A p \in Procs : WF_vars(\E c \in Callers : step(p, c))
  /\ WF_vars(\E i \in DOMAIN runs : lease_runs_out(i))

Spec == Init /\ [][Next]_vars /\ Fairness

----------------------------------------------------------------------------

RunState == [from : 0..MaxDay, to : Days \cup {FirstDay - 1},
             status : {"running", "partial", "failed", "succeeded"},
             lease : {Never} \cup 2 * FirstDay .. 2 * MaxDay + 1, pages : 0..Pages]
TaskState == {Idle} \cup
  [step : {"wait", "ask", "heard", "accrued", "finish", "end"},
   kind : {"due", "now", "request"}, from : 0..MaxDay, to : Days \cup {FirstDay - 1},
   at : 2 * FirstDay .. 2 * MaxDay + 1, run : Nat,
   answer : {"none", "page", "source", "useless", "ok", "ours", "unasked"}]

\* Every variable keeps its shape; a task past begin_run names a run of the
\* table, and only a running run has a lease.
TypeOK ==
  /\ half \in 2 * FirstDay .. 2 * MaxDay + 1 /\ held \in BOOLEAN
  /\ \A i \in DOMAIN runs : runs[i] \in RunState /\ (~Running(i) => runs[i].lease = Never)
  /\ complete \in {Never} \cup (FirstDay - 1)..MaxDay
  /\ \A p \in Procs :
       /\ proc[p].up \in BOOLEAN /\ proc[p].active \in BOOLEAN
       /\ proc[p].last_run \in {Never} \cup Days
       /\ \A c \in Callers :
            /\ proc[p].task[c] \in TaskState
            /\ proc[p].task[c].step \in {"ask", "heard", "accrued", "finish"} =>
                 proc[p].task[c].run \in DOMAIN runs

\* At most one run of the series is running, whichever process began it, so two
\* processes never write pages of the series at the same time (begin_run).
OneRunAtATime ==
  \A i, j \in DOMAIN runs : Running(i) /\ Running(j) => i = j

\* Readers see rows of succeeded runs only and read complete_through beside
\* them: a succeeded run wrote every page, and the boundary is the latest date
\* a succeeded run asked for, across failures, expiries and restarts.
PublishedIsWhole ==
  LET published == {runs[i] : i \in {j \in DOMAIN runs : runs[j].status = "succeeded"}}
  IN /\ \A r \in published : r.pages = Pages
     /\ complete = Max({Never} \cup {r.to : r \in published})

\* A run that was closed, by its own task or by another process's sweep, is
\* never reopened and takes no further page: a task that wakes after its lease
\* ran out writes nothing (ensure_run).
ClosedRunsStayClosed ==
  [][\A i \in DOMAIN runs : ~Running(i) => runs'[i] = runs[i]]_vars

\* For each day the schedule knocks on the source once, and again only after a
\* failure of ours or a restart: a source that is down or refuses is not asked
\* every minute until midnight (spends_the_day).
OneKnockADay ==
  \A p \in Procs : \A d \in Days : knocks[p][d] <= 1

\* A process that stays up while the position is open remembers the day's run
\* in the end, whatever failed, expired or was held by another on the way.
DayIsSpent ==
  \A p \in Procs :
    (half = 2 * MaxDay + 1 /\ held /\ proc[p].up)
      ~> (~held \/ ~proc[p].up \/ proc[p].last_run = MaxDay)
=============================================================================
