--------------------------- MODULE MarketSyncProofs ---------------------------
(***************************************************************************)
(* For any number of processes and days, with crashes, failing store calls *)
(* and leases that run out at any point: one run of the series is running  *)
(* at a time, a closed run is never written again, what readers are shown  *)
(* is whole, and the schedule knocks on the source once a day.             *)
(***************************************************************************)
EXTENDS MarketSync, SequenceTheorems, TLAPS

Working == {"ask", "heard", "accrued", "finish"}
Halves == 2 * FirstDay .. 2 * MaxDay + 1
ProcState == [up : BOOLEAN, active : BOOLEAN, last_run : {Never} \cup Days,
              task : [Callers -> TaskState]]

\* The shapes the steps update.
Shapes ==
  /\ half \in Halves /\ held \in BOOLEAN
  /\ runs \in Seq(RunState)
  /\ complete \in {Never} \cup (FirstDay - 1)..MaxDay
  /\ proc \in [Procs -> ProcState]
  /\ knocks \in [Procs -> [Days -> {0, 1}]]

\* A task past begin_run names a run with its own boundary, and while that run
\* is open it has written the pages before the task's step.
TaskOK(t) ==
  t.step \in Working =>
    /\ t.run \in DOMAIN runs /\ runs[t.run].to = t.to
    /\ Running(t.run) => /\ t.step \in {"ask", "heard"} => runs[t.run].pages = 0
                         /\ t.step = "accrued" => runs[t.run].pages = 1
                         /\ t.step = "finish" => runs[t.run].pages = 2

\* No two tasks, of one process or of two, work on the same run.
RunsAreOwnedOnce ==
  \A p, q \in Procs, c, e \in Callers :
    /\ proc[p].task[c].step \in Working /\ proc[q].task[e].step \in Working
    /\ proc[p].task[c].run = proc[q].task[e].run
    => p = q /\ c = e

LeasesOK == \A i \in DOMAIN runs : ~Running(i) => runs[i].lease = Never

\* The boundary without a maximum: a bound that is attained.
Succeeded(i) == runs[i].status = "succeeded"
PublishedOK ==
  /\ \A i \in DOMAIN runs : Succeeded(i) => runs[i].pages = Pages /\ runs[i].to <= complete
  /\ complete = Never \/ \E i \in DOMAIN runs : Succeeded(i) /\ runs[i].to = complete

RunsInv ==
  /\ \A p \in Procs, c \in Callers : TaskOK(proc[p].task[c])
  /\ RunsAreOwnedOnce /\ LeasesOK /\ OneRunAtATime /\ PublishedOK

\* The scheduler's task has knocked for its day, or has not yet.
Sent(t) == t.step \in {"heard", "accrued", "finish"} \/ (t.step = "end" /\ t.answer # "unasked")

\* A task is at most one half day old, and a due one was asked after the close.
Fresh(t) == t # Idle => t.at <= half /\ half <= t.at + 1

\* A day that was knocked for is remembered, or the task that knocked is still
\* under way; a task that has not knocked yet finds its day without a knock.
KnocksOK(p) ==
  LET t == proc[p].task["scheduler"]
      m == proc[p].task["manual"]
  IN /\ Fresh(t) /\ Fresh(m)
     /\ t # Idle => t.kind = "due" /\ t.at % 2 = 1
     /\ m # Idle => m.kind # "due"
     /\ t # Idle => knocks[p][DayOf(t.at)] = IF Sent(t) THEN 1 ELSE 0
     /\ t # Idle /\ t.step = "end" => t.answer \in {"ok", "source", "ours", "unasked"}
     /\ \A d \in Days : knocks[p][d] = 1 =>
          /\ proc[p].up /\ 2 * d + 1 <= half
          /\ d = day => proc[p].last_run = day \/ (t # Idle /\ Sent(t) /\ DayOf(t.at) = day)

IInv == Shapes /\ RunsInv /\ \A p \in Procs : KnocksOK(p)

-----------------------------------------------------------------------------
(* Lemmas about numbers, runs and tasks.                                   *)

\* The least of two numbers.
LEMMA MinOfTwo ==
  ASSUME NEW a \in Int, NEW b \in Int
  PROVE  Min({a, b}) = IF a <= b THEN a ELSE b
<1> DEFINE m == IF a <= b THEN a ELSE b
<1>1. m \in {a, b} /\ \A y \in {a, b} : m =< y
  OBVIOUS
<1>2. \A x \in {a, b} : (\A y \in {a, b} : x =< y) => x = m
  OBVIOUS
<1> HIDE DEF m
<1>3. Min({a, b}) = m
  BY <1>1, <1>2 DEF Min
<1> QED BY <1>3 DEF m

\* A member that bounds the set is its maximum.
LEMMA MaxIsTheBound ==
  ASSUME NEW S \in SUBSET Int, NEW m \in S, \A y \in S : y <= m
  PROVE  Max(S) = m
<1>1. \A y \in S : m >= y
  OBVIOUS
<1>2. \A x \in S : (\A y \in S : x >= y) => x = m
  OBVIOUS
<1> QED BY <1>1, <1>2 DEF Max

\* The bounds of the model are in order.
LEMMA Dates ==
  /\ FirstDay \in Nat /\ MaxDay \in Nat /\ FirstEvent \in Nat /\ CorrectionWindow \in Nat
  /\ InitialPadding \in Nat /\ InitialPadding < FirstEvent /\ FirstEvent <= FirstDay
  /\ FirstDay <= MaxDay /\ CorrectionWindow <= FirstDay
BY DaysAreOrdered

\* Today is a day of the model.
LEMMA TodayIsADay ==
  ASSUME half \in Halves
  PROVE  /\ half \in Int /\ day \in Days /\ day \in Int /\ 2 * day <= half /\ half <= 2 * day + 1
         /\ closed => half = 2 * day + 1
<1>1. half \in Int /\ 2 * FirstDay <= half /\ half <= 2 * MaxDay + 1
  BY Dates DEF Halves
<1>2. FirstDay \in Int /\ MaxDay \in Int
  BY Dates
<1> QED BY <1>1, <1>2 DEF day, DayOf, Days, closed

\* The record of a task under way.
LiveTask ==
  [step : {"wait", "ask", "heard", "accrued", "finish", "end"},
   kind : {"due", "now", "request"}, from : 0..MaxDay, to : Days \cup {FirstDay - 1},
   at : Halves, run : Nat,
   answer : {"none", "page", "source", "useless", "ok", "ours", "unasked"}]

\* A task is idle, or has the fields of one under way.
LEMMA TasksAreIdleOrLive ==
  /\ TaskState = {Idle} \cup LiveTask
  /\ Idle.step = "none" /\ \A t \in LiveTask : t.step # "none" /\ t # Idle
<1>1. TaskState = {Idle} \cup LiveTask
  BY DEF TaskState, LiveTask, Halves
<1>2. Idle.step = "none"
  BY DEF Idle
<1>3. \A t \in LiveTask : t.step # "none"
  BY DEF LiveTask
<1> QED BY <1>1, <1>2, <1>3

\* One task moves to T; every other task, and what the processes remember, stays.
Moved(p, c, T) ==
  /\ proc' \in [Procs -> ProcState]
  /\ proc'[p].task[c] = T
  /\ \A q \in Procs, e \in Callers : q # p \/ e # c => proc'[q].task[e] = proc[q].task[e]
  /\ \A q \in Procs : proc'[q].last_run = proc[q].last_run /\ proc'[q].up = proc[q].up

\* An update of one task leaves the others and the job alone.
LEMMA OneTaskMoves ==
  ASSUME Shapes, NEW p \in Procs, NEW c \in Callers, NEW T \in TaskState,
         proc' = [proc EXCEPT ![p].task[c] = T]
  PROVE  Moved(p, c, T)
<1>1. proc[p] \in ProcState /\ proc[p].task \in [Callers -> TaskState]
  BY DEF Shapes, ProcState
<1>2. proc' = [proc EXCEPT ![p] = [proc[p] EXCEPT !.task = [proc[p].task EXCEPT ![c] = T]]]
  OBVIOUS
<1> DEFINE tasks == [proc[p].task EXCEPT ![c] = T]
           P == [proc[p] EXCEPT !.task = tasks]
<1>3. /\ tasks \in [Callers -> TaskState] /\ tasks[c] = T
      /\ \A e \in Callers \ {c} : tasks[e] = proc[p].task[e]
  BY <1>1
<1> HIDE DEF tasks
<1>4. P \in ProcState /\ P.task = tasks /\ P.last_run = proc[p].last_run /\ P.up = proc[p].up
  BY <1>1, <1>3 DEF ProcState
<1>5. proc' = [proc EXCEPT ![p] = P]
  BY <1>2 DEF tasks
<1> HIDE DEF P
<1>6. proc' \in [Procs -> ProcState] /\ proc'[p] = P /\ \A q \in Procs \ {p} : proc'[q] = proc[q]
  BY <1>4, <1>5 DEF Shapes
<1> QED BY <1>3, <1>4, <1>6 DEF Moved

\* A task at a step is under way.
LEMMA AtIsLive ==
  ASSUME Shapes, NEW p \in Procs, NEW c \in Callers, proc[p].task[c].step # "none"
  PROVE  proc[p].task[c] \in LiveTask
BY TasksAreIdleOrLive DEF Shapes, ProcState

\* Goes moves one task and nothing else of the processes.
LEMMA GoesMoves ==
  ASSUME Shapes, NEW p \in Procs, NEW c \in Callers, proc[p].task[c] \in LiveTask,
         NEW st \in {"heard", "accrued", "finish"}, NEW answer \in {"page", "source", "useless"},
         Goes(p, c, st, answer)
  PROVE  /\ Moved(p, c, [proc[p].task[c] EXCEPT !.step = st, !.answer = answer])
         /\ [proc[p].task[c] EXCEPT !.step = st, !.answer = answer] \in LiveTask
<1> DEFINE t == proc[p].task[c]
           T == [t EXCEPT !.step = st, !.answer = answer]
<1>1. T \in LiveTask
  BY DEF LiveTask
<1>2. proc' = [proc EXCEPT ![p].task[c] = T]
  BY DEF Goes, Shapes, ProcState
<1> QED BY <1>1, <1>2, OneTaskMoves, TasksAreIdleOrLive

\* A task that ends forgets its run.
Ended(t, result) ==
  [t EXCEPT !.step = "end", !.answer = result, !.from = day, !.to = day, !.run = 0]

\* Ends brings one task to its end and moves nothing else of the processes.
LEMMA EndsMoves ==
  ASSUME Shapes, NEW p \in Procs, NEW c \in Callers, proc[p].task[c] \in LiveTask,
         NEW result \in {"ok", "source", "ours", "unasked"}, Ends(p, c, result)
  PROVE  /\ Moved(p, c, Ended(proc[p].task[c], result))
         /\ Ended(proc[p].task[c], result) \in LiveTask
         /\ Ended(proc[p].task[c], result).step = "end"
         /\ Ended(proc[p].task[c], result).answer = result
         /\ Ended(proc[p].task[c], result).kind = proc[p].task[c].kind
         /\ Ended(proc[p].task[c], result).at = proc[p].task[c].at
<1> DEFINE t == proc[p].task[c]
           T == Ended(t, result)
<1>1. day \in 0..MaxDay /\ day \in Days
  BY TodayIsADay, Dates DEF Shapes, Days
<1>2. T \in LiveTask /\ T.step = "end" /\ T.answer = result /\ T.kind = t.kind /\ T.at = t.at
  BY <1>1 DEF LiveTask, Ended
<1>3. proc' = [proc EXCEPT ![p].task[c] = T]
  BY DEF Ends, Ended
<1> HIDE DEF T
<1>4. Moved(p, c, T)
  BY <1>2, <1>3, OneTaskMoves, TasksAreIdleOrLive
<1> QED BY <1>2, <1>4 DEF T

-----------------------------------------------------------------------------
(* What a task's move does to the knocks and to the runs.                  *)

\* A process whose tasks, memory and knocks stay keeps its invariant.
LEMMA KnocksElsewhere ==
  ASSUME NEW q \in Procs, KnocksOK(q), UNCHANGED half,
         \A e \in Callers : proc'[q].task[e] = proc[q].task[e],
         proc'[q].last_run = proc[q].last_run, proc'[q].up = proc[q].up, knocks'[q] = knocks[q]
  PROVE  KnocksOK(q)'
BY DEF KnocksOK, Fresh, day, Callers

\* A move that neither knocks nor changes when and why the task was asked for.
LEMMA KnocksMove ==
  ASSUME IInv, NEW p \in Procs, NEW c \in Callers, NEW T, Moved(p, c, T),
         UNCHANGED <<half, knocks>>, proc[p].task[c] # Idle, T # Idle,
         T.kind = proc[p].task[c].kind, T.at = proc[p].task[c].at,
         c = "scheduler" => /\ Sent(T) <=> Sent(proc[p].task[c])
                            /\ T.step = "end" => T.answer \in {"ok", "source", "ours", "unasked"}
  PROVE  \A q \in Procs : KnocksOK(q)'
<1>1. ASSUME NEW q \in Procs \ {p} PROVE KnocksOK(q)'
  BY KnocksElsewhere DEF Moved, IInv
<1>2. KnocksOK(p)'
  <2>1. CASE c = "manual"
    <3>1. proc'[p].task["scheduler"] = proc[p].task["scheduler"] /\ proc'[p].task["manual"] = T
      BY <2>1 DEF Moved, Callers
    <3> QED BY <2>1, <3>1 DEF KnocksOK, Fresh, day, Moved, IInv
  <2>2. CASE c = "scheduler"
    <3>1. proc'[p].task["manual"] = proc[p].task["manual"] /\ proc'[p].task["scheduler"] = T
      BY <2>2 DEF Moved, Callers
    <3>2. KnocksOK(p)
      BY DEF IInv
    <3>3. Sent(T) <=> Sent(proc[p].task["scheduler"])
      BY <2>2
    <3>4. T.kind = proc[p].task["scheduler"].kind /\ T.at = proc[p].task["scheduler"].at
          /\ proc[p].task["scheduler"] # Idle
          /\ (T.step = "end" => T.answer \in {"ok", "source", "ours", "unasked"})
      BY <2>2
    <3> QED BY <3>1, <3>2, <3>3, <3>4 DEF KnocksOK, Fresh, day, Moved
  <2> QED BY <2>1, <2>2 DEF Callers
<1> QED BY <1>1, <1>2

\* A task that works on no run disturbs none.
LEMMA RunsKept ==
  ASSUME IInv, NEW p \in Procs, NEW c \in Callers, NEW T, Moved(p, c, T),
         UNCHANGED <<runs, complete>>,
         T.step \notin Working
         \/ /\ T.step \in {"ask", "heard"} /\ proc[p].task[c].step \in {"ask", "heard"}
            /\ T.run = proc[p].task[c].run /\ T.to = proc[p].task[c].to
  PROVE  RunsInv'
<1>1. LeasesOK' /\ OneRunAtATime' /\ PublishedOK'
  BY DEF IInv, RunsInv, LeasesOK, OneRunAtATime, PublishedOK, Running, Succeeded
<1>2. TaskOK(proc[p].task[c])'
  BY DEF IInv, RunsInv, TaskOK, Moved, Running, Working
<1>3. ASSUME NEW q \in Procs, NEW e \in Callers, q # p \/ e # c PROVE TaskOK(proc[q].task[e])'
  BY <1>3 DEF IInv, RunsInv, TaskOK, Moved, Running
<1>4. RunsAreOwnedOnce'
  BY DEF IInv, RunsInv, RunsAreOwnedOnce, Moved, Working
<1> QED BY <1>1, <1>2, <1>3, <1>4 DEF RunsInv

\* The fields of a run after one of the store's updates.
LEMMA WroteFields ==
  ASSUME Shapes, NEW i \in DOMAIN runs, runs[i].pages \in {0, 1}, runs' = Wrote(i)
  PROVE  /\ runs' \in Seq(RunState) /\ DOMAIN runs' = DOMAIN runs
         /\ \A j \in DOMAIN runs \ {i} : runs'[j] = runs[j]
         /\ runs'[i].to = runs[i].to /\ runs'[i].status = runs[i].status
         /\ runs'[i].lease = runs[i].lease /\ runs'[i].pages = runs[i].pages + 1
<1> DEFINE r == [runs[i] EXCEPT !.pages = @ + 1]
<1>1. DOMAIN runs = 1..Len(runs) /\ runs[i] \in RunState
  BY LenProperties, ElementOfSeq DEF Shapes
<1>2. r \in RunState /\ r.to = runs[i].to /\ r.status = runs[i].status /\ r.lease = runs[i].lease
      /\ r.pages = runs[i].pages + 1
  BY <1>1 DEF RunState, Pages
<1>3. runs' = [runs EXCEPT ![i] = r]
  BY DEF Wrote
<1> HIDE DEF r
<1>4. runs' \in Seq(RunState) /\ DOMAIN runs' = DOMAIN runs /\ runs'[i] = r
      /\ \A j \in DOMAIN runs \ {i} : runs'[j] = runs[j]
  BY <1>1, <1>2, <1>3, ExceptSeq DEF Shapes
<1> QED BY <1>2, <1>4

\* finish_run closes the one run it names.
LEMMA FinishedFields ==
  ASSUME Shapes, NEW i \in DOMAIN runs, NEW status \in {"partial", "failed", "succeeded"},
         runs' = Finished(i, status)
  PROVE  /\ runs' \in Seq(RunState) /\ DOMAIN runs' = DOMAIN runs
         /\ \A j \in DOMAIN runs \ {i} : runs'[j] = runs[j]
         /\ runs'[i].to = runs[i].to /\ runs'[i].pages = runs[i].pages
         /\ runs'[i].status = status /\ runs'[i].lease = Never
<1> DEFINE r == [runs[i] EXCEPT !.status = status, !.lease = Never]
<1>1. DOMAIN runs = 1..Len(runs) /\ runs[i] \in RunState
  BY LenProperties, ElementOfSeq DEF Shapes
<1>2. r \in RunState /\ r.to = runs[i].to /\ r.status = status /\ r.lease = Never
      /\ r.pages = runs[i].pages
  BY <1>1 DEF RunState
<1>3. runs' = [runs EXCEPT ![i] = r]
  BY <1>1 DEF Finished, RunState, Shapes
<1> HIDE DEF r
<1>4. runs' \in Seq(RunState) /\ DOMAIN runs' = DOMAIN runs /\ runs'[i] = r
      /\ \A j \in DOMAIN runs \ {i} : runs'[j] = runs[j]
  BY <1>1, <1>2, <1>3, ExceptSeq DEF Shapes
<1> QED BY <1>2, <1>4

\* A lease that runs out changes nothing else of its run, and no other run.
LEMMA ExpiredFields ==
  ASSUME Shapes, NEW i \in DOMAIN runs, runs' = [runs EXCEPT ![i].lease = Never]
  PROVE  /\ runs' \in Seq(RunState) /\ DOMAIN runs' = DOMAIN runs
         /\ \A j \in DOMAIN runs \ {i} : runs'[j] = runs[j]
         /\ runs'[i].to = runs[i].to /\ runs'[i].pages = runs[i].pages
         /\ runs'[i].status = runs[i].status /\ runs'[i].lease = Never
<1> DEFINE r == [runs[i] EXCEPT !.lease = Never]
<1>1. DOMAIN runs = 1..Len(runs) /\ runs[i] \in RunState
  BY LenProperties, ElementOfSeq DEF Shapes
<1>2. r \in RunState /\ r.to = runs[i].to /\ r.status = runs[i].status /\ r.lease = Never
      /\ r.pages = runs[i].pages
  BY <1>1 DEF RunState
<1>3. runs' = [runs EXCEPT ![i] = r]
  OBVIOUS
<1> HIDE DEF r
<1>4. runs' \in Seq(RunState) /\ DOMAIN runs' = DOMAIN runs /\ runs'[i] = r
      /\ \A j \in DOMAIN runs \ {i} : runs'[j] = runs[j]
  BY <1>1, <1>2, <1>3, ExceptSeq DEF Shapes
<1> QED BY <1>2, <1>4

\* A task that closes its run and ends; the boundary moves with a success only.
LEMMA RunsFinished ==
  ASSUME IInv, NEW p \in Procs, NEW c \in Callers, NEW T, Moved(p, c, T), T.step \notin Working,
         NEW i \in DOMAIN runs, Running(i), NEW status \in {"partial", "failed", "succeeded"},
         runs' = Finished(i, status),
         IF status = "succeeded" THEN runs[i].pages = Pages /\ complete' = Advanced(runs[i].to)
                                 ELSE UNCHANGED complete
  PROVE  RunsInv' /\ runs' \in Seq(RunState) /\ complete' \in {Never} \cup (FirstDay - 1)..MaxDay
<1>1. /\ runs' \in Seq(RunState) /\ DOMAIN runs' = DOMAIN runs
      /\ \A j \in DOMAIN runs \ {i} : runs'[j] = runs[j]
      /\ runs'[i].to = runs[i].to /\ runs'[i].pages = runs[i].pages
      /\ runs'[i].status = status /\ runs'[i].lease = Never
  BY FinishedFields DEF IInv
<1>2. /\ complete \in Nat /\ runs[i].to \in Nat
      /\ runs[i].to \in (FirstDay - 1)..MaxDay
      /\ complete \in {Never} \cup (FirstDay - 1)..MaxDay
  <2>1. runs[i] \in RunState
    BY ElementOfSeq, LenProperties DEF IInv, Shapes
  <2>2. runs[i].to \in Days \cup {FirstDay - 1}
    BY <2>1 DEF RunState
  <2> QED BY <2>2, Dates DEF IInv, Shapes, Days, Never
<1>3. status = "succeeded" =>
        /\ complete' = IF runs[i].to <= complete THEN complete ELSE runs[i].to
  <2> DEFINE m == IF runs[i].to <= complete THEN complete ELSE runs[i].to
             S == {complete, runs[i].to}
  <2>1. S \in SUBSET Int /\ m \in S /\ \A y \in S : y <= m
    BY <1>2
  <2>2. Max(S) = m
    BY <2>1, MaxIsTheBound
  <2> QED BY <2>2 DEF Advanced
<1>4. complete' \in {Never} \cup (FirstDay - 1)..MaxDay
  BY <1>2, <1>3
<1>5. LeasesOK' /\ OneRunAtATime'
  BY <1>1 DEF IInv, RunsInv, LeasesOK, OneRunAtATime, Running
<1>6. \A q \in Procs, e \in Callers : TaskOK(proc[q].task[e])'
  <2>1. TaskOK(proc[p].task[c])'
    BY DEF TaskOK, Moved
  <2>2. ASSUME NEW q \in Procs, NEW e \in Callers, q # p \/ e # c PROVE TaskOK(proc[q].task[e])'
    <3>1. TaskOK(proc[q].task[e]) /\ proc'[q].task[e] = proc[q].task[e]
      BY <2>2 DEF IInv, RunsInv, Moved
    <3> QED BY <1>1, <3>1 DEF TaskOK, Running
  <2> QED BY <2>1, <2>2
<1>7. RunsAreOwnedOnce'
  BY DEF IInv, RunsInv, RunsAreOwnedOnce, Moved
<1>8. PublishedOK'
  <2>1. \A j \in DOMAIN runs : runs[j].to \in Int
    <3>1. \A j \in DOMAIN runs : runs[j] \in RunState
      BY ElementOfSeq, LenProperties DEF IInv, Shapes
    <3> QED BY <3>1, Dates DEF RunState, Days
  <2>2. complete' \in Int /\ complete <= complete'
    BY <1>2, <1>3
  <2>3. \A j \in DOMAIN runs' : Succeeded(j)' => runs'[j].pages = Pages /\ runs'[j].to <= complete'
    <3>1. ASSUME NEW j \in DOMAIN runs \ {i}, runs'[j].status = "succeeded"
          PROVE  runs'[j].pages = Pages /\ runs'[j].to <= complete'
      <4>1. runs[j].pages = Pages /\ runs[j].to <= complete
        BY <1>1, <3>1 DEF IInv, RunsInv, PublishedOK, Succeeded
      <4> QED BY <1>1, <1>2, <2>1, <2>2, <4>1
    <3>2. runs'[i].status = "succeeded" => runs'[i].pages = Pages /\ runs'[i].to <= complete'
      BY <1>1, <1>2, <1>3
    <3> QED BY <1>1, <3>1, <3>2 DEF Succeeded
  <2>4. complete' = Never \/ \E j \in DOMAIN runs' : Succeeded(j)' /\ runs'[j].to = complete'
    <3>1. CASE complete' = complete
      <4>1. ASSUME NEW j \in DOMAIN runs, Succeeded(j), runs[j].to = complete
            PROVE  runs'[j].status = "succeeded" /\ runs'[j].to = complete'
        <5>1. j # i
          BY <4>1 DEF Succeeded, Running
        <5> QED BY <1>1, <3>1, <4>1, <5>1 DEF Succeeded
      <4> QED BY <1>1, <3>1, <4>1 DEF IInv, RunsInv, PublishedOK, Succeeded
    <3>2. CASE complete' # complete
      BY <1>1, <1>3, <3>2 DEF Succeeded
    <3> QED BY <3>1, <3>2
  <2> QED BY <2>3, <2>4 DEF PublishedOK
<1> QED BY <1>1, <1>4, <1>5, <1>6, <1>7, <1>8 DEF RunsInv

\* A task that writes its page goes on to the next one.
LEMMA RunsWrote ==
  ASSUME IInv, NEW p \in Procs, NEW c \in Callers, NEW T, Moved(p, c, T), UNCHANGED complete,
         proc[p].task[c].step \in {"heard", "accrued"},
         T.step = IF proc[p].task[c].step = "heard" THEN "accrued" ELSE "finish",
         T.run = proc[p].task[c].run, T.to = proc[p].task[c].to,
         Running(T.run), runs' = Wrote(T.run)
  PROVE  RunsInv' /\ runs' \in Seq(RunState)
<1> DEFINE t == proc[p].task[c]
           i == T.run
<1>1. TaskOK(t) /\ t.step \in Working /\ T.step \in Working
  BY DEF IInv, RunsInv, Working
<1>2. i \in DOMAIN runs /\ runs[i].pages = (IF t.step = "heard" THEN 0 ELSE 1) /\ runs[i].to = T.to
  BY <1>1 DEF TaskOK
<1>3. /\ runs' \in Seq(RunState) /\ DOMAIN runs' = DOMAIN runs
      /\ \A j \in DOMAIN runs \ {i} : runs'[j] = runs[j]
      /\ runs'[i].to = runs[i].to /\ runs'[i].status = runs[i].status
      /\ runs'[i].lease = runs[i].lease /\ runs'[i].pages = runs[i].pages + 1
  BY <1>2, WroteFields DEF IInv
<1>4. LeasesOK' /\ OneRunAtATime'
  <2>1. \A j \in DOMAIN runs : runs'[j].status = runs[j].status /\ runs'[j].lease = runs[j].lease
    BY <1>3
  <2>2. ASSUME NEW j \in DOMAIN runs PROVE Running(j)' <=> Running(j)
    BY <2>1 DEF Running
  <2>3. LeasesOK /\ OneRunAtATime
    BY DEF IInv, RunsInv
  <2>4. LeasesOK'
    BY <1>3, <2>1, <2>2, <2>3 DEF LeasesOK
  <2>5. OneRunAtATime'
    BY <1>3, <2>2, <2>3 DEF OneRunAtATime
  <2> QED BY <2>4, <2>5
<1>5. PublishedOK'
  <2>1. \A j \in DOMAIN runs : Succeeded(j) <=> Succeeded(j)'
    BY <1>2, <1>3 DEF Succeeded
  <2>2. \A j \in DOMAIN runs : Succeeded(j) => j # i
    BY DEF Succeeded, Running
  <2> QED BY <1>2, <1>3, <2>1, <2>2 DEF IInv, RunsInv, PublishedOK
<1>6. \A q \in Procs, e \in Callers : TaskOK(proc[q].task[e])'
  <2>1. TaskOK(proc[p].task[c])'
    <3>1. proc'[p].task[c] = T
      BY DEF Moved
    <3>2. runs'[i].pages = IF T.step = "accrued" THEN 1 ELSE 2
      <4>1. runs'[i].pages = (IF t.step = "heard" THEN 0 ELSE 1) + 1
        BY <1>2, <1>3
      <4>2. t.step \in {"heard", "accrued"} /\ T.step = IF t.step = "heard" THEN "accrued" ELSE "finish"
        OBVIOUS
      <4> HIDE DEF t, i
      <4> QED BY <4>1, <4>2
    <3> QED BY <1>2, <1>3, <3>1, <3>2 DEF TaskOK
  <2>2. ASSUME NEW q \in Procs, NEW e \in Callers, q # p \/ e # c PROVE TaskOK(proc[q].task[e])'
    <3>1. TaskOK(proc[q].task[e]) /\ proc'[q].task[e] = proc[q].task[e]
      BY <2>2 DEF IInv, RunsInv, Moved
    <3>2. proc[q].task[e].step \in Working => proc[q].task[e].run # i
      BY <1>1, <2>2 DEF IInv, RunsInv, RunsAreOwnedOnce
    <3>3. CASE proc[q].task[e].step \notin Working
      BY <3>1, <3>3 DEF TaskOK
    <3>4. CASE proc[q].task[e].step \in Working
      <4> DEFINE k == proc[q].task[e].run
      <4>1. k \in DOMAIN runs' /\ runs'[k] = runs[k]
        BY <1>3, <3>1, <3>2, <3>4 DEF TaskOK
      <4> QED BY <3>1, <4>1 DEF TaskOK, Running
    <3> QED BY <3>3, <3>4
  <2> QED BY <2>1, <2>2
<1>7. RunsAreOwnedOnce'
  BY <1>1 DEF IInv, RunsInv, RunsAreOwnedOnce, Moved
<1> QED BY <1>3, <1>4, <1>5, <1>6, <1>7 DEF RunsInv

-----------------------------------------------------------------------------
(* The steps of sync_market.                                               *)

\* Together: a task that moves without a knock.
LEMMA TaskStep ==
  ASSUME IInv, NEW p \in Procs, NEW c \in Callers, NEW T \in LiveTask, Moved(p, c, T),
         proc[p].task[c] \in LiveTask, RunsInv', runs' \in Seq(RunState),
         complete' \in {Never} \cup (FirstDay - 1)..MaxDay, UNCHANGED <<half, held, knocks>>,
         T.kind = proc[p].task[c].kind, T.at = proc[p].task[c].at,
         Sent(T) <=> Sent(proc[p].task[c]),
         T.step = "end" => T.answer \in {"ok", "source", "ours", "unasked"}
  PROVE  IInv'
<1>1. Shapes'
  BY DEF IInv, Shapes, Moved
<1>2. T # Idle /\ proc[p].task[c] # Idle
  BY TasksAreIdleOrLive
<1> QED BY <1>1, <1>2, KnocksMove DEF IInv

\* An end without a write, after a failure or a refusal of ours.
LEMMA QuietEnd ==
  ASSUME IInv, NEW p \in Procs, NEW c \in Callers, NEW result \in {"ours", "unasked"},
         Ends(p, c, result), UNCHANGED <<half, held, knocks, runs, complete>>,
         proc[p].task[c] \in LiveTask,
         Sent(proc[p].task[c]) <=> result # "unasked"
  PROVE  IInv'
<1> DEFINE T == Ended(proc[p].task[c], result)
<1>1. /\ Moved(p, c, T) /\ T \in LiveTask /\ T.step = "end" /\ T.answer = result
      /\ T.kind = proc[p].task[c].kind /\ T.at = proc[p].task[c].at
  BY EndsMoves DEF IInv
<1> HIDE DEF T
<1>2. RunsInv'
  BY <1>1, RunsKept DEF Working
<1>3. runs' \in Seq(RunState) /\ complete' \in {Never} \cup (FirstDay - 1)..MaxDay
  BY DEF IInv, Shapes
<1>4. Sent(T) <=> Sent(proc[p].task[c])
  BY <1>1 DEF Sent
<1> QED BY <1>1, <1>2, <1>3, <1>4, TaskStep

\* begin_run: nothing unexpired is running, the sweep closes the rest, so the
\* new run is the only one running, and no task knows its number yet.
LEMMA BeginStep ==
  ASSUME IInv, NEW p \in Procs, NEW c \in Callers, begin_run(p, c)
  PROVE  IInv'
<1> DEFINE t == proc[p].task[c]
<1>1. t.step = "wait" /\ UNCHANGED <<half, held, knocks, complete>>
  BY DEF begin_run, At, Keeps, clock
<1>2. t \in LiveTask /\ Shapes
  BY <1>1, AtIsLive DEF IInv
<1>3. ~Sent(t)
  BY <1>1 DEF Sent
<1>4. CASE Ends(p, c, "unasked") /\ UNCHANGED runs
  BY <1>1, <1>2, <1>3, <1>4, QuietEnd
<1>5. CASE /\ ~LeaseHeld
           /\ runs' = Append(Swept, [from |-> t.from, to |-> t.to,
                                     status |-> "running", lease |-> half, pages |-> 0])
           /\ proc' = [proc EXCEPT ![p].task[c].step = "ask", ![p].task[c].run = Len(runs) + 1]
  <2> DEFINE new == [from |-> t.from, to |-> t.to, status |-> "running", lease |-> half, pages |-> 0]
             n == Len(runs)
             T == [t EXCEPT !.step = "ask", !.run = n + 1]
  <2>1. n \in Nat /\ DOMAIN runs = 1..n /\ \A j \in 1..n : runs[j] \in RunState
    BY <1>2, LenProperties, ElementOfSeq DEF Shapes
  <2>2. new \in RunState /\ new.to = t.to /\ new.status = "running" /\ new.pages = 0
    BY <1>2 DEF RunState, LiveTask, Shapes, Halves, Pages
  <2> HIDE DEF new
  <2>3. /\ Swept \in [1..n -> RunState]
        /\ \A j \in 1..n : /\ Swept[j].to = runs[j].to /\ Swept[j].pages = runs[j].pages
                           /\ Swept[j].lease = runs[j].lease
                           /\ Swept[j].status =
                                IF Expired(runs[j]) THEN "failed" ELSE runs[j].status
    <3>1. \A j \in 1..n : [runs[j] EXCEPT !.status = "failed"] \in RunState
      BY <2>1 DEF RunState
    <3>2. \A j \in 1..n :
            Swept[j] = IF Expired(runs[j]) THEN [runs[j] EXCEPT !.status = "failed"] ELSE runs[j]
      BY <2>1 DEF Swept
    <3>3. Swept \in [1..n -> RunState]
      BY <2>1, <3>1 DEF Swept
    <3> QED BY <2>1, <3>2, <3>3 DEF RunState
  <2>4. Swept \in Seq(RunState) /\ Len(Swept) = n
    BY <2>1, <2>3, SeqDef
  <2>5. /\ runs' \in Seq(RunState) /\ DOMAIN runs' = 1..(n + 1)
        /\ runs'[n + 1] = new /\ \A j \in 1..n : runs'[j] = Swept[j]
    BY <1>5, <2>1, <2>2, <2>3, <2>4 DEF new
  <2>6. \A j \in 1..n : Swept[j].status # "running"
    <3>1. \A j \in 1..n : runs[j].status = "running" => Expired(runs[j])
      BY <1>5, <2>1 DEF LeaseHeld, Running
    <3> QED BY <2>3, <3>1
  <2>7. T \in LiveTask /\ T.step = "ask" /\ T.run = n + 1 /\ T.to = t.to
        /\ T.kind = t.kind /\ T.at = t.at
    <3> HIDE DEF n, t
    <3>1. n + 1 \in Nat
      BY <2>1
    <3> QED BY <1>2, <3>1 DEF LiveTask
  <2>8. Moved(p, c, T)
    <3>1. proc' = [proc EXCEPT ![p].task[c] = T]
      BY <1>2, <1>5 DEF Shapes, ProcState
    <3> HIDE DEF T
    <3> QED BY <1>2, <2>7, <3>1, OneTaskMoves, TasksAreIdleOrLive
  <2> HIDE DEF T, n
  <2>9. RunsInv'
    <3>1. LeasesOK'
      <4>1. \A j \in 1..n : runs'[j].lease = Never
        BY <2>1, <2>3, <2>5, <2>6 DEF IInv, RunsInv, LeasesOK, Running, Expired
      <4> QED BY <2>1, <2>2, <2>5, <4>1 DEF LeasesOK, Running
    <3>2. OneRunAtATime'
      BY <2>1, <2>5, <2>6 DEF OneRunAtATime, Running
    <3>3. PublishedOK'
      <4>1. \A j \in 1..n : runs'[j].status = "succeeded" <=> runs[j].status = "succeeded"
        BY <2>3, <2>5 DEF Expired
      <4>2. \A j \in 1..n : runs'[j].pages = runs[j].pages /\ runs'[j].to = runs[j].to
        BY <2>3, <2>5
      <4>3. runs'[n + 1].status # "succeeded"
        BY <2>2, <2>5
      <4> QED BY <1>1, <2>1, <2>5, <4>1, <4>2, <4>3 DEF IInv, RunsInv, PublishedOK, Succeeded
    <3>4. TaskOK(proc[p].task[c])'
      BY <2>1, <2>2, <2>5, <2>7, <2>8 DEF TaskOK, Moved
    <3>5. ASSUME NEW q \in Procs, NEW e \in Callers, q # p \/ e # c
          PROVE  /\ TaskOK(proc[q].task[e])'
                 /\ proc'[q].task[e].step \in Working => proc'[q].task[e].run \in 1..n
      <4>1. TaskOK(proc[q].task[e]) /\ proc'[q].task[e] = proc[q].task[e]
        BY <2>8, <3>5 DEF IInv, RunsInv, Moved
      <4>2. CASE proc[q].task[e].step \notin Working
        BY <4>1, <4>2 DEF TaskOK
      <4>3. CASE proc[q].task[e].step \in Working
        <5> DEFINE k == proc[q].task[e].run
        <5>1. k \in 1..n /\ runs[k].to = proc[q].task[e].to
          BY <2>1, <4>1, <4>3 DEF TaskOK
        <5>2. \A j \in 1..n : /\ j \in DOMAIN runs' /\ runs'[j].to = runs[j].to
                              /\ runs'[j].status # "running"
          BY <2>1, <2>3, <2>5, <2>6
        <5>3. k \in DOMAIN runs' /\ runs'[k].to = runs[k].to /\ runs'[k].status # "running"
          <6> HIDE DEF k
          <6> QED BY <5>1, <5>2
        <5>4. ~Running(k)'
          BY <4>1, <5>3 DEF Running
        <5> QED BY <4>1, <5>1, <5>3, <5>4 DEF TaskOK
      <4> QED BY <4>2, <4>3
    <3>6. RunsAreOwnedOnce'
      <4> SUFFICES ASSUME NEW q1 \in Procs, NEW q2 \in Procs, NEW e1 \in Callers, NEW e2 \in Callers,
                          proc'[q1].task[e1].step \in Working, proc'[q2].task[e2].step \in Working,
                          proc'[q1].task[e1].run = proc'[q2].task[e2].run
                   PROVE  q1 = q2 /\ e1 = e2
        BY DEF RunsAreOwnedOnce
      <4>1. proc'[p].task[c].run = n + 1
        BY <2>7, <2>8 DEF Moved
      <4>2. CASE q1 = p /\ e1 = c
        BY <2>1, <3>5, <4>1, <4>2
      <4>3. CASE q2 = p /\ e2 = c
        BY <2>1, <3>5, <4>1, <4>3
      <4>4. CASE (q1 # p \/ e1 # c) /\ (q2 # p \/ e2 # c)
        BY <2>8, <4>4 DEF IInv, RunsInv, RunsAreOwnedOnce, Moved
      <4> QED BY <4>2, <4>3, <4>4
    <3> QED BY <3>1, <3>2, <3>3, <3>4, <3>5, <3>6 DEF RunsInv
  <2>10. ~Sent(T)
    BY <2>7 DEF Sent
  <2>11. complete' \in {Never} \cup (FirstDay - 1)..MaxDay
    BY <1>1, <1>2 DEF Shapes
  <2> QED BY <1>1, <1>2, <1>3, <2>5, <2>7, <2>8, <2>9, <2>10, <2>11, TaskStep
<1> QED BY <1>4, <1>5 DEF begin_run

\* The knock of a due task: it was asked on a day without one.
LEMMA SendStep ==
  ASSUME IInv, NEW p \in Procs, NEW c \in Callers, send(p, c)
  PROVE  IInv'
<1> DEFINE t == proc[p].task[c]
           d == DayOf(t.at)
<1>1. /\ t.step = "ask" /\ proc[p].up /\ UNCHANGED <<half, held, runs, complete>>
      /\ knocks' = IF t.kind = "due" THEN [knocks EXCEPT ![p][d] = @ + 1] ELSE knocks
  BY DEF send, At, clock
<1>2. t \in LiveTask /\ t # Idle /\ Shapes
  BY <1>1, AtIsLive, TasksAreIdleOrLive DEF IInv
<1>3. PICK answer \in {"page", "source", "useless"} : Goes(p, c, "heard", answer)
  BY DEF send
<1> DEFINE T == [t EXCEPT !.step = "heard", !.answer = answer]
<1>4. Moved(p, c, T) /\ T \in LiveTask
  BY <1>2, <1>3, GoesMoves
<1>5. T.step = "heard" /\ T.run = t.run /\ T.to = t.to /\ T.kind = t.kind /\ T.at = t.at /\ T # Idle
  BY <1>2, <1>4, TasksAreIdleOrLive DEF LiveTask
<1> HIDE DEF T
<1>6. RunsInv'
  BY <1>1, <1>4, <1>5, RunsKept
<1>7. CASE c = "manual"
  <2>1. t.kind # "due"
    BY <1>2, <1>7 DEF IInv, KnocksOK
  <2>2. UNCHANGED knocks
    BY <1>1, <2>1
  <2>3. Shapes'
    BY <1>1, <1>2, <1>4, <2>2 DEF Shapes, Moved
  <2> QED BY <1>1, <1>2, <1>4, <1>5, <1>6, <1>7, <2>2, <2>3, KnocksMove DEF IInv
<1>8. CASE c = "scheduler"
  <2>1. t.kind = "due" /\ ~Sent(t) /\ KnocksOK(p)
    BY <1>1, <1>2, <1>8 DEF IInv, KnocksOK, Sent
  <2>2. knocks[p][d] = 0 /\ Fresh(t) /\ t.at % 2 = 1
    BY <1>2, <1>8, <2>1 DEF KnocksOK
  <2>3. d \in Days /\ 2 * d + 1 = t.at
    <3>1. t.at \in Halves
      BY <1>2 DEF LiveTask
    <3> QED BY <2>2, <3>1, Dates DEF DayOf, Days, Halves
  <2> HIDE DEF d
  <2>4. /\ knocks' \in [Procs -> [Days -> {0, 1}]] /\ knocks'[p][d] = 1
        /\ \A q \in Procs \ {p} : knocks'[q] = knocks[q]
        /\ \A x \in Days \ {d} : knocks'[p][x] = knocks[p][x]
    BY <1>1, <1>2, <2>1, <2>2, <2>3 DEF Shapes
  <2>5. Shapes'
    BY <1>1, <1>2, <1>4, <2>4 DEF Shapes, Moved
  <2>6. ASSUME NEW q \in Procs \ {p} PROVE KnocksOK(q)'
    BY <1>1, <1>4, <2>4, KnocksElsewhere DEF Moved, IInv
  <2>7. KnocksOK(p)'
    <3>1. /\ proc'[p].task["manual"] = proc[p].task["manual"] /\ proc'[p].task["scheduler"] = T
          /\ proc'[p].last_run = proc[p].last_run /\ proc'[p].up
      BY <1>1, <1>4, <1>8 DEF Moved, Callers
    <3>2. Sent(T) /\ ~(T.step = "end")
      BY <1>5 DEF Sent
    <3>3. DayOf(T.at) = d /\ Fresh(T)
      BY <1>2, <1>5, <2>2 DEF d, Fresh
    <3>4. \A x \in Days : knocks'[p][x] = 1 => 2 * x + 1 <= half
      BY <1>2, <2>1, <2>2, <2>3, <2>4 DEF KnocksOK, Fresh
    <3>5. knocks[p][day] = 1 /\ day \in Days => proc[p].last_run = day
      BY <1>2, <1>8, <2>1 DEF KnocksOK
    <3> QED BY <1>1, <1>2, <1>5, <1>8, <2>1, <2>2, <2>4, <3>1, <3>2, <3>3, <3>4, <3>5
            DEF KnocksOK, Fresh, day
  <2> QED BY <1>6, <2>5, <2>6, <2>7 DEF IInv
<1> QED BY <1>7, <1>8 DEF Callers

\* A task at its work has a run of the table, and it has knocked.
LEMMA AtWork ==
  ASSUME IInv, NEW p \in Procs, NEW c \in Callers,
         proc[p].task[c].step \in {"heard", "accrued", "finish"}
  PROVE  /\ proc[p].task[c] \in LiveTask /\ Sent(proc[p].task[c])
         /\ proc[p].task[c].run \in DOMAIN runs
         /\ runs[proc[p].task[c].run].to = proc[p].task[c].to
         /\ TaskOK(proc[p].task[c])
<1>1. proc[p].task[c] \in LiveTask /\ Sent(proc[p].task[c])
  BY AtIsLive DEF IInv, Sent
<1> QED BY <1>1 DEF IInv, RunsInv, TaskOK, Working

\* An end that closes the run.
LEMMA ClosingEnd ==
  ASSUME IInv, NEW p \in Procs, NEW c \in Callers,
         proc[p].task[c].step \in {"heard", "accrued", "finish"},
         NEW result \in {"ok", "source", "ours"}, Ends(p, c, result),
         NEW status \in {"partial", "failed", "succeeded"},
         Running(proc[p].task[c].run), runs' = Finished(proc[p].task[c].run, status),
         IF status = "succeeded" THEN /\ proc[p].task[c].step = "finish"
                                      /\ complete' = Advanced(proc[p].task[c].to)
                                 ELSE UNCHANGED complete,
         UNCHANGED <<half, held, knocks>>
  PROVE  IInv'
<1> DEFINE t == proc[p].task[c]
           T == Ended(t, result)
<1>1. t \in LiveTask /\ Sent(t) /\ t.run \in DOMAIN runs /\ runs[t.run].to = t.to /\ TaskOK(t)
  BY AtWork
<1>2. /\ Moved(p, c, T) /\ T \in LiveTask /\ T.step = "end" /\ T.answer = result
      /\ T.kind = t.kind /\ T.at = t.at
  <2>1. Shapes /\ result \in {"ok", "source", "ours", "unasked"}
    BY DEF IInv
  <2>2. t \in LiveTask
    BY <1>1
  <2> HIDE DEF t
  <2> QED BY <2>1, <2>2, EndsMoves DEF t
<1> HIDE DEF T
<1>3. status = "succeeded" => runs[t.run].pages = Pages
  BY <1>1 DEF TaskOK, Working, Pages
<1>4. RunsInv' /\ runs' \in Seq(RunState) /\ complete' \in {Never} \cup (FirstDay - 1)..MaxDay
  BY <1>1, <1>2, <1>3, RunsFinished DEF Working
<1>5. Sent(T) <=> Sent(t)
  BY <1>1, <1>2 DEF Sent
<1> QED BY <1>1, <1>2, <1>4, <1>5, TaskStep

\* close_partial: the task closes its run as partial, or fails to, and ends.
LEMMA PartialStep ==
  ASSUME IInv, NEW p \in Procs, NEW c \in Callers, close_partial(p, c)
  PROVE  IInv'
<1> DEFINE t == proc[p].task[c]
<1>1. t.step = "heard" /\ UNCHANGED <<half, held, knocks, complete>>
  BY DEF close_partial, At, Keeps, clock
<1>2. t \in LiveTask /\ Sent(t)
  BY <1>1, AtWork
<1>3. CASE Ends(p, c, "ours") /\ UNCHANGED runs
  BY <1>1, <1>2, <1>3, QuietEnd
<1>4. ASSUME NEW result \in {"ok", "source"}, Ends(p, c, result), Through(t.run),
             runs' = Finished(t.run, "partial")
      PROVE  IInv'
  BY <1>1, <1>4, ClosingEnd DEF Through, ensure_run
<1> QED BY <1>3, <1>4 DEF close_partial

\* A page is written to the open run of the task.
LEMMA PageStep ==
  ASSUME IInv, NEW p \in Procs, NEW c \in Callers, NEW st \in {"heard", "accrued"},
         record_page(p, c, st, IF st = "heard" THEN "accrued" ELSE "finish")
  PROVE  IInv'
<1> DEFINE t == proc[p].task[c]
           next == IF st = "heard" THEN "accrued" ELSE "finish"
           T == [t EXCEPT !.step = next, !.answer = "page"]
<1>1. t.step = st /\ UNCHANGED <<half, held, knocks, complete>>
  BY DEF record_page, At, Keeps, clock
<1>2. t \in LiveTask /\ Sent(t) /\ Shapes
  BY <1>1, AtWork DEF IInv
<1>3. CASE fail_run(p, c, t.run)
  <2>1. CASE UNCHANGED runs
    BY <1>1, <1>2, <1>3, <2>1, QuietEnd DEF fail_run
  <2>2. CASE ensure_run(t.run) /\ runs' = Finished(t.run, "failed")
    BY <1>1, <1>3, <2>2, ClosingEnd DEF fail_run, ensure_run
  <2> QED BY <1>3, <2>1, <2>2 DEF fail_run
<1>4. CASE Through(t.run) /\ runs' = Wrote(t.run) /\ Goes(p, c, next, "page")
  <2>1. Moved(p, c, T) /\ T \in LiveTask
    BY <1>2, <1>4, GoesMoves
  <2>2. T.step = next /\ T.run = t.run /\ T.to = t.to /\ T.kind = t.kind /\ T.at = t.at
    BY <1>2 DEF LiveTask
  <2> HIDE DEF T
  <2>3. RunsInv' /\ runs' \in Seq(RunState)
    BY <1>1, <1>4, <2>1, <2>2, RunsWrote DEF Through, ensure_run
  <2>4. Sent(T) /\ T.step # "end"
    BY <2>2 DEF Sent
  <2>5. complete' \in {Never} \cup (FirstDay - 1)..MaxDay
    BY <1>1, <1>2 DEF Shapes
  <2> QED BY <1>1, <1>2, <2>1, <2>2, <2>3, <2>4, <2>5, TaskStep
<1> QED BY <1>3, <1>4 DEF record_page

\* The run succeeds with all its pages, and the boundary takes its date.
LEMMA FinishStep ==
  ASSUME IInv, NEW p \in Procs, NEW c \in Callers, finish_run(p, c)
  PROVE  IInv'
<1> DEFINE t == proc[p].task[c]
<1>1. t.step = "finish" /\ UNCHANGED <<half, held, knocks>>
  BY DEF finish_run, At, Keeps, clock
<1>2. t \in LiveTask /\ Sent(t)
  BY <1>1, AtWork
<1>3. CASE Ends(p, c, "ours") /\ UNCHANGED <<runs, complete>>
  BY <1>1, <1>2, <1>3, QuietEnd
<1>4. CASE /\ Through(t.run) /\ runs' = Finished(t.run, "succeeded")
           /\ complete' = Advanced(t.to) /\ Ends(p, c, "ok")
  BY <1>1, <1>4, ClosingEnd DEF Through, ensure_run
<1> QED BY <1>3, <1>4 DEF finish_run

\* After the close every task under way was asked today, so what a run that
\* returns remembers is today.
LEMMA ClosedMeansToday ==
  ASSUME IInv, NEW p \in Procs, NEW c \in Callers, proc[p].task[c] \in LiveTask, half = 2 * day + 1
  PROVE  DayOf(proc[p].task[c].at) = day
<1>1. Fresh(proc[p].task[c])
  BY DEF IInv, KnocksOK, Callers
<1>2. proc[p].task[c].at <= half /\ half <= proc[p].task[c].at + 1
  BY <1>1, TasksAreIdleOrLive DEF Fresh
<1>3. proc[p].task[c].at \in Int /\ half \in Int /\ day \in Int
  BY TodayIsADay, Dates DEF LiveTask, Halves, IInv, Shapes
<1> QED BY <1>2, <1>3 DEF DayOf

\* The task returns; the schedule remembers the day if it is spent.
LEMMA ReturnStep ==
  ASSUME IInv, NEW p \in Procs, NEW c \in Callers, return_run(p, c)
  PROVE  IInv'
<1> DEFINE t == proc[p].task[c]
           d == DayOf(t.at)
           last == IF Remembers(t) THEN d ELSE proc[p].last_run
           P == [proc[p] EXCEPT !.task = [@ EXCEPT ![c] = Idle], !.last_run = last]
<1>1. /\ t.step = "end" /\ proc[p].up /\ UNCHANGED <<half, held, runs, complete>>
      /\ proc' = [proc EXCEPT ![p].task[c] = Idle, ![p].last_run = last]
      /\ knocks' = IF t.kind = "due" /\ t.answer = "ours"
                   THEN [knocks EXCEPT ![p][d] = @ - 1] ELSE knocks
  BY DEF return_run, At, clock
<1>2. t \in LiveTask /\ t # Idle /\ Shapes
  BY <1>1, AtIsLive, TasksAreIdleOrLive DEF IInv
<1>3. d \in Days
  <2>1. t.at \in Halves
    BY <1>2 DEF LiveTask
  <2> QED BY <2>1, Dates DEF DayOf, Days, Halves
<1>4. proc[p] \in ProcState /\ last \in {Never} \cup Days
  BY <1>2, <1>3 DEF Shapes, ProcState
<1>5. proc' = [proc EXCEPT ![p] = P]
  BY <1>1
<1> HIDE DEF last, d
<1>6. /\ P \in ProcState /\ P.task[c] = Idle /\ P.last_run = last /\ P.up
      /\ \A e \in Callers \ {c} : P.task[e] = proc[p].task[e]
  <2>1. [proc[p].task EXCEPT ![c] = Idle] \in [Callers -> TaskState]
    BY <1>4, TasksAreIdleOrLive DEF ProcState
  <2> QED BY <1>1, <1>4, <2>1 DEF ProcState
<1> HIDE DEF P
<1>7. /\ proc' \in [Procs -> ProcState] /\ proc'[p] = P
      /\ \A q \in Procs \ {p} : proc'[q] = proc[q]
  BY <1>2, <1>5, <1>6 DEF Shapes
<1>8. RunsInv'
  <2>1. proc'[p].task[c].step = "none"
        /\ \A q \in Procs, e \in Callers : q # p \/ e # c => proc'[q].task[e] = proc[q].task[e]
    BY <1>6, <1>7, TasksAreIdleOrLive
  <2>2. LeasesOK' /\ OneRunAtATime' /\ PublishedOK'
    BY <1>1 DEF IInv, RunsInv, LeasesOK, OneRunAtATime, PublishedOK, Running, Succeeded
  <2>3. TaskOK(proc[p].task[c])'
    BY <2>1 DEF TaskOK, Working
  <2>4. ASSUME NEW q \in Procs, NEW e \in Callers, q # p \/ e # c PROVE TaskOK(proc[q].task[e])'
    <3>1. TaskOK(proc[q].task[e]) /\ proc'[q].task[e] = proc[q].task[e]
      BY <2>1, <2>4 DEF IInv, RunsInv
    <3> QED BY <1>1, <3>1 DEF TaskOK, Running
  <2>5. RunsAreOwnedOnce'
    <3>1. RunsAreOwnedOnce
      BY DEF IInv, RunsInv
    <3>2. \A q \in Procs, e \in Callers :
            proc'[q].task[e].step \in Working => proc'[q].task[e] = proc[q].task[e]
      BY <2>1 DEF Working
    <3> SUFFICES ASSUME NEW q \in Procs, NEW x \in Procs, NEW e \in Callers, NEW f \in Callers,
                        proc'[q].task[e].step \in Working, proc'[x].task[f].step \in Working,
                        proc'[q].task[e].run = proc'[x].task[f].run
                 PROVE  q = x /\ e = f
      BY DEF RunsAreOwnedOnce
    <3>3. proc'[q].task[e] = proc[q].task[e] /\ proc'[x].task[f] = proc[x].task[f]
      BY <3>2
    <3> QED BY <3>1, <3>3 DEF RunsAreOwnedOnce
  <2> QED BY <2>2, <2>3, <2>4, <2>5 DEF RunsInv
<1>9. KnocksOK(p)
  BY DEF IInv
<1>10. c = "manual" => UNCHANGED knocks
  BY <1>1, <1>2, <1>9 DEF KnocksOK
<1>11. c = "scheduler" => /\ t.kind = "due" /\ t.answer \in {"ok", "source", "ours", "unasked"}
                          /\ knocks[p][d] = IF t.answer = "unasked" THEN 0 ELSE 1
                          /\ t.answer \in {"ok", "source"} => last = d
  BY <1>1, <1>2, <1>9 DEF KnocksOK, Sent, d, last, Remembers, spends_the_day
<1>12. /\ knocks' \in [Procs -> [Days -> {0, 1}]]
       /\ \A q \in Procs \ {p} : knocks'[q] = knocks[q]
       /\ \A x \in Days : knocks'[p][x] =
            IF c = "scheduler" /\ t.answer = "ours" /\ x = d THEN 0 ELSE knocks[p][x]
  <2>1. CASE c = "scheduler" /\ t.answer = "ours"
    BY <1>1, <1>2, <1>3, <1>11, <2>1 DEF Shapes
  <2>2. CASE ~(c = "scheduler" /\ t.answer = "ours")
    BY <1>1, <1>2, <1>10, <2>2 DEF Shapes, Callers
  <2> QED BY <2>1, <2>2
<1>13. Shapes'
  BY <1>1, <1>2, <1>7, <1>12 DEF Shapes
<1>14. ASSUME NEW q \in Procs \ {p} PROVE KnocksOK(q)'
  BY <1>1, <1>7, <1>12, KnocksElsewhere DEF IInv
<1>15. half = 2 * day + 1 => d = day
  BY <1>2, ClosedMeansToday DEF d
<1>16. \A x \in Days : knocks'[p][x] = 1 => 2 * x + 1 <= half
  BY <1>9, <1>12 DEF KnocksOK
<1>17. day \in Days /\ (knocks'[p][day] = 1 => half = 2 * day + 1)
  <2>1. half \in Int /\ day \in Int /\ day \in Days /\ half <= 2 * day + 1
    BY <1>2, TodayIsADay DEF Shapes
  <2>2. knocks'[p][day] = 1 => 2 * day + 1 <= half
    BY <1>16, <2>1
  <2> HIDE DEF day
  <2> QED BY <2>1, <2>2
<1>18. CASE c = "manual"
  <2>1. /\ proc'[p].task["scheduler"] = proc[p].task["scheduler"]
        /\ proc'[p].task["manual"] = Idle /\ proc'[p].last_run = last /\ proc'[p].up
    BY <1>6, <1>7, <1>18 DEF Callers
  <2>2. knocks'[p][day] = 1 /\ proc[p].last_run = day => last = day
    BY <1>15, <1>17 DEF last
  <2>3. KnocksOK(p)'
    BY <1>1, <1>9, <1>10, <1>18, <2>1, <2>2 DEF KnocksOK, Fresh, day
  <2> QED BY <1>8, <1>13, <1>14, <2>3 DEF IInv
<1>19. CASE c = "scheduler"
  <2>1. /\ proc'[p].task["manual"] = proc[p].task["manual"]
        /\ proc'[p].task["scheduler"] = Idle /\ proc'[p].last_run = last /\ proc'[p].up
    BY <1>6, <1>7, <1>19 DEF Callers
  <2>2. knocks'[p][day] = 1 => last = day
    <3> SUFFICES ASSUME knocks'[p][day] = 1 PROVE last = day
      OBVIOUS
    <3>1. d = day
      BY <1>15, <1>17
    <3>2. t.answer # "ours" /\ knocks[p][d] = 1
      BY <1>12, <1>17, <1>19, <3>1
    <3> QED BY <1>11, <1>19, <3>1, <3>2
  <2>3. KnocksOK(p)'
    BY <1>1, <1>9, <1>16, <1>17, <1>19, <2>1, <2>2 DEF KnocksOK, Fresh, day
  <2> QED BY <1>8, <1>13, <1>14, <2>3 DEF IInv
<1> QED BY <1>18, <1>19 DEF Callers

-----------------------------------------------------------------------------
(* New tasks, and the world around them.                                   *)

\* A request for the window of the day, or for dates of its own.
LEMMA AskedIsLive ==
  ASSUME Shapes, NEW kind \in {"due", "now", "request"}, NEW w,
         w.from \in 0..MaxDay, w.to \in Days \cup {FirstDay - 1}
  PROVE  /\ Asked(kind, w) \in LiveTask /\ Asked(kind, w).step = "wait"
         /\ Asked(kind, w).kind = kind /\ Asked(kind, w).at = half
BY DEF Asked, LiveTask, Shapes

\* The range a task asks for ends on a day of the model.
LEMMA WindowIsDated ==
  ASSUME Shapes, NEW job
  PROVE  window(job).from \in 0..MaxDay /\ window(job).to \in Days
<1>1. day \in Days /\ day \in Int
  BY TodayIsADay DEF Shapes
<1> HIDE DEF day
<1>2. FirstDay <= day /\ day <= MaxDay
  BY <1>1, Dates DEF Days
<1> DEFINE from == IF job.last_run = Never THEN FirstEvent - InitialPadding
                                           ELSE day - CorrectionWindow
<1>3. from \in Int /\ 0 <= from
  BY <1>1, <1>2, Dates
<1> HIDE DEF from
<1>4. Min({from, day}) = IF from <= day THEN from ELSE day
  BY <1>1, <1>3, MinOfTwo
<1>5. Min({from, day}) \in 0..MaxDay
  BY <1>1, <1>2, <1>3, <1>4, Dates
<1> QED BY <1>1, <1>5 DEF window, from

\* A manual task is begun.
LEMMA ManualStep ==
  ASSUME IInv, NEW p \in Procs, NEW T \in LiveTask, T.step = "wait", T.kind # "due", T.at = half,
         proc' = [proc EXCEPT ![p].task["manual"] = T],
         UNCHANGED <<half, held, runs, complete, knocks>>
  PROVE  IInv'
<1>1. Moved(p, "manual", T)
  BY OneTaskMoves, TasksAreIdleOrLive DEF IInv, Callers
<1>2. RunsInv'
  BY <1>1, RunsKept DEF Working, Callers
<1>3. Shapes'
  BY <1>1 DEF IInv, Shapes, Moved
<1>4. ASSUME NEW q \in Procs \ {p} PROVE KnocksOK(q)'
  BY <1>1, KnocksElsewhere DEF Moved, IInv
<1>5. KnocksOK(p)'
  <2>1. /\ proc'[p].task["scheduler"] = proc[p].task["scheduler"]
        /\ proc'[p].task["manual"] = T /\ proc'[p].last_run = proc[p].last_run
        /\ proc'[p].up = proc[p].up
    BY <1>1 DEF Moved, Callers
  <2>2. Fresh(T)'
    BY TodayIsADay DEF IInv, Shapes, Fresh
  <2> QED BY <2>1, <2>2 DEF KnocksOK, Fresh, day, IInv
<1> QED BY <1>2, <1>3, <1>4, <1>5 DEF IInv

\* The schedule asks after the close, on a day it does not remember: no knock of
\* that day stands.
LEMMA TickStep ==
  ASSUME IInv, NEW p \in Procs, tick(p)
  PROVE  IInv'
<1> DEFINE job == Refreshed(p)
           T == Asked("due", window(job))
           P == IF should_run(job) THEN [job EXCEPT !.task["scheduler"] = T] ELSE job
<1>1. /\ proc[p].task["scheduler"] = Idle /\ proc' = [proc EXCEPT ![p] = P]
      /\ UNCHANGED <<half, held, runs, complete, knocks>>
  BY DEF tick, Ticks, clock, history
<1>2. Shapes /\ proc[p] \in ProcState /\ KnocksOK(p)
  BY DEF IInv, Shapes
<1>3. /\ job \in ProcState /\ job.task = proc[p].task /\ job.last_run = proc[p].last_run
      /\ job.up = proc[p].up
  BY <1>2 DEF Refreshed, ProcState, Shapes
<1>4. T \in LiveTask /\ T.step = "wait" /\ T.kind = "due" /\ T.at = half /\ T \in TaskState /\ T # Idle
  BY <1>2, WindowIsDated, AskedIsLive, TasksAreIdleOrLive
<1> HIDE DEF T, job
<1>5. /\ P \in ProcState /\ P.last_run = proc[p].last_run /\ P.up = proc[p].up
      /\ P.task["manual"] = proc[p].task["manual"]
      /\ P.task["scheduler"] = IF should_run(job) THEN T ELSE Idle
  <2>1. CASE should_run(job)
    <3>1. P = [job EXCEPT !.task = [job.task EXCEPT !["scheduler"] = T]]
      BY <2>1
    <3>2. [job.task EXCEPT !["scheduler"] = T] \in [Callers -> TaskState]
      BY <1>3, <1>4 DEF ProcState
    <3> QED BY <1>3, <2>1, <3>1, <3>2 DEF ProcState, Callers
  <2>2. CASE ~should_run(job)
    BY <1>1, <1>3, <2>2
  <2> QED BY <2>1, <2>2
<1> HIDE DEF P
<1>6. /\ proc' \in [Procs -> ProcState] /\ proc'[p] = P
      /\ \A q \in Procs \ {p} : proc'[q] = proc[q]
  BY <1>1, <1>2, <1>5 DEF Shapes
<1>7. Moved(p, "scheduler", P.task["scheduler"])
  BY <1>5, <1>6 DEF Moved, Callers
<1>8. P.task["scheduler"].step \notin Working
  BY <1>4, <1>5, TasksAreIdleOrLive DEF Working
<1>9. RunsInv'
  BY <1>1, <1>7, <1>8, RunsKept DEF Callers
<1>10. Shapes'
  BY <1>1, <1>2, <1>6 DEF Shapes
<1>11. ASSUME NEW q \in Procs \ {p} PROVE KnocksOK(q)'
  BY <1>1, <1>6, KnocksElsewhere DEF IInv
<1>12. KnocksOK(p)'
  <2>1. CASE ~should_run(job)
    <3>1. \A e \in Callers : proc'[p].task[e] = proc[p].task[e]
      BY <1>1, <1>5, <1>6, <2>1 DEF Callers
    <3> QED BY <1>1, <1>2, <1>5, <1>6, <3>1, KnocksElsewhere
  <2>2. CASE should_run(job)
    <3>1. half \in Int /\ day \in Days /\ half = 2 * day + 1 /\ proc[p].last_run # day
      BY <1>2, <1>3, <2>2, TodayIsADay DEF should_run, Shapes
    <3>2. knocks[p][day] # 1 /\ knocks[p] \in [Days -> {0, 1}]
      BY <1>1, <1>2, <3>1 DEF KnocksOK, Shapes
    <3>3. knocks[p][day] = 0
      BY <3>1, <3>2
    <3>4. ~Sent(T) /\ T.step # "end" /\ DayOf(T.at) = day /\ T.at % 2 = 1
      BY <1>4, <3>1, <2>2 DEF Sent, day, should_run, closed
    <3>5. T.at <= half' /\ half' <= T.at + 1
      BY <1>1, <1>4, <3>1
    <3>6. /\ proc'[p].task["scheduler"] = T /\ proc'[p].task["manual"] = proc[p].task["manual"]
          /\ proc'[p].last_run = proc[p].last_run /\ proc'[p].up = proc[p].up
      BY <1>5, <1>6, <2>2
    <3>7. DayOf(half)' = day
      BY <1>1 DEF day, DayOf
    <3> QED BY <1>1, <1>2, <1>4, <3>3, <3>4, <3>5, <3>6, <3>7 DEF KnocksOK, Fresh, day
  <2> QED BY <2>1, <2>2
<1> QED BY <1>9, <1>10, <1>11, <1>12 DEF IInv

\* A manual call begins; it changes no knock of the schedule.
LEMMA ManualSteps ==
  ASSUME IInv, NEW p \in Procs, run_now(p) \/ request_sync(p)
  PROVE  IInv'
<1>1. Shapes
  BY DEF IInv
<1>2. CASE run_now(p)
  <2> DEFINE T == Asked("now", window(proc[p]))
  <2>1. T \in LiveTask /\ T.step = "wait" /\ T.kind = "now" /\ T.at = half
    BY <1>1, WindowIsDated, AskedIsLive
  <2>2. proc' = [proc EXCEPT ![p].task["manual"] = T] /\ UNCHANGED <<half, held, runs, complete, knocks>>
    BY <1>2 DEF run_now, clock
  <2> QED BY <2>1, <2>2, ManualStep
<1>3. CASE request_sync(p)
  <2>1. PICK to \in {day - 1, day} :
          proc' = [proc EXCEPT ![p].task["manual"] = Asked("request", [from |-> FirstEvent, to |-> to])]
    BY <1>3 DEF request_sync
  <2> DEFINE w == [from |-> FirstEvent, to |-> to]
             T == Asked("request", w)
  <2>2. FirstEvent \in 0..MaxDay /\ to \in Days \cup {FirstDay - 1}
    <3>1. day \in Days /\ day \in Int
      BY <1>1, TodayIsADay DEF Shapes
    <3> QED BY <3>1, Dates DEF Days
  <2>3. w.from \in 0..MaxDay /\ w.to \in Days \cup {FirstDay - 1}
    BY <2>2
  <2> HIDE DEF w
  <2>4. T \in LiveTask /\ T.step = "wait" /\ T.kind = "request" /\ T.at = half
    BY <1>1, <2>3, AskedIsLive
  <2>5. proc' = [proc EXCEPT ![p].task["manual"] = T] /\ UNCHANGED <<half, held, runs, complete, knocks>>
    BY <1>3, <2>1 DEF request_sync, clock, w
  <2> QED BY <2>4, <2>5, ManualStep
<1> QED BY <1>2, <1>3

\* A process that stops or starts has no tasks, and no knock is counted
\* while it is down.
LEMMA RestartStep ==
  ASSUME IInv, NEW p \in Procs, crash(p) \/ start(p)
  PROVE  IInv'
<1>1. PICK up \in BOOLEAN : proc' = [proc EXCEPT ![p] = [Started EXCEPT !.up = up]]
  BY DEF crash, start, Started
<1>2. UNCHANGED <<half, held, runs, complete>>
  BY DEF crash, start, clock
<1>3. Shapes
  BY DEF IInv
<1> DEFINE P == [Started EXCEPT !.up = up]
<1>4. P \in ProcState /\ P.last_run = Never /\ \A c \in Callers : P.task[c] = Idle
  BY TasksAreIdleOrLive DEF ProcState, Started
<1> HIDE DEF P
<1>5. /\ proc' \in [Procs -> ProcState] /\ proc'[p] = P
      /\ \A q \in Procs \ {p} : proc'[q] = proc[q]
  BY <1>1, <1>3, <1>4 DEF Shapes, P
<1>6. RunsInv'
  <2>1. LeasesOK' /\ OneRunAtATime' /\ PublishedOK'
    BY <1>2 DEF IInv, RunsInv, LeasesOK, OneRunAtATime, PublishedOK, Running, Succeeded
  <2>2. \A c \in Callers : proc'[p].task[c].step \notin Working
    BY <1>4, <1>5, TasksAreIdleOrLive DEF Working
  <2>3. ASSUME NEW q \in Procs, NEW c \in Callers PROVE TaskOK(proc[q].task[c])'
    <3>1. CASE q = p
      BY <2>2, <3>1 DEF TaskOK
    <3>2. CASE q # p
      BY <1>2, <1>5, <3>2 DEF IInv, RunsInv, TaskOK, Running
    <3> QED BY <3>1, <3>2
  <2>4. RunsAreOwnedOnce'
    BY <1>5, <2>2 DEF IInv, RunsInv, RunsAreOwnedOnce
  <2> QED BY <2>1, <2>3, <2>4 DEF RunsInv
<1>7. /\ knocks' \in [Procs -> [Days -> {0, 1}]]
      /\ \A q \in Procs \ {p} : knocks'[q] = knocks[q]
      /\ \A x \in Days : knocks'[p][x] = 0
  <2>1. CASE crash(p)
    BY <1>3, <2>1 DEF crash, Shapes
  <2>2. CASE start(p)
    <3>1. UNCHANGED knocks /\ ~proc[p].up
      BY <2>2 DEF start, history
    <3>2. \A x \in Days : knocks[p][x] # 1 /\ knocks[p][x] \in {0, 1}
      BY <1>3, <3>1 DEF IInv, KnocksOK, Shapes
    <3> QED BY <1>3, <3>1, <3>2 DEF Shapes
  <2> QED BY <2>1, <2>2
<1>8. Shapes'
  BY <1>2, <1>3, <1>5, <1>7 DEF Shapes
<1>9. ASSUME NEW q \in Procs \ {p} PROVE KnocksOK(q)'
  BY <1>2, <1>5, <1>7, KnocksElsewhere DEF IInv
<1>10. KnocksOK(p)'
  BY <1>4, <1>5, <1>7 DEF KnocksOK, Fresh, Callers
<1> QED BY <1>6, <1>8, <1>9, <1>10 DEF IInv

\* A lease that runs out takes nothing from the run but the right to be written.
LEMMA LeaseStep ==
  ASSUME IInv, NEW i \in DOMAIN runs, lease_runs_out(i) \/ source_outlasts_lease(i)
  PROVE  IInv'
<1>1. /\ Running(i) /\ runs' = [runs EXCEPT ![i].lease = Never]
      /\ UNCHANGED <<half, held, complete, proc, knocks>>
  BY DEF lease_runs_out, source_outlasts_lease, clock, history
<1>2. /\ runs' \in Seq(RunState) /\ DOMAIN runs' = DOMAIN runs
      /\ \A j \in DOMAIN runs \ {i} : runs'[j] = runs[j]
      /\ runs'[i].to = runs[i].to /\ runs'[i].pages = runs[i].pages
      /\ runs'[i].status = runs[i].status /\ runs'[i].lease = Never
  BY <1>1, ExpiredFields DEF IInv
<1>3. \A j \in DOMAIN runs : /\ runs'[j].to = runs[j].to /\ runs'[j].pages = runs[j].pages
                             /\ runs'[j].status = runs[j].status
                             /\ runs'[j].lease \in {Never, runs[j].lease}
  BY <1>2
<1>4. LeasesOK' /\ OneRunAtATime' /\ PublishedOK'
  <2>1. LeasesOK'
    BY <1>2, <1>3 DEF IInv, RunsInv, LeasesOK, Running
  <2>2. OneRunAtATime'
    BY <1>2, <1>3 DEF IInv, RunsInv, OneRunAtATime, Running
  <2>3. PublishedOK'
    BY <1>1, <1>2, <1>3 DEF IInv, RunsInv, PublishedOK, Succeeded
  <2> QED BY <2>1, <2>2, <2>3
<1>5. ASSUME NEW q \in Procs, NEW c \in Callers PROVE TaskOK(proc[q].task[c])'
  <2>1. TaskOK(proc[q].task[c])
    BY DEF IInv, RunsInv
  <2> QED BY <1>1, <1>2, <1>3, <2>1 DEF TaskOK, Running
<1>6. RunsAreOwnedOnce'
  BY <1>1 DEF IInv, RunsInv, RunsAreOwnedOnce
<1>7. RunsInv'
  BY <1>4, <1>5, <1>6 DEF RunsInv
<1>8. Shapes'
  BY <1>1, <1>2 DEF IInv, Shapes
<1>9. ASSUME NEW q \in Procs PROVE KnocksOK(q)'
  BY <1>1, KnocksElsewhere DEF IInv
<1> QED BY <1>7, <1>8, <1>9 DEF IInv

\* The store and the tasks stay as they are.
LEMMA RunsUnmoved ==
  ASSUME IInv, UNCHANGED <<runs, complete, proc>>
  PROVE  RunsInv'
<1>1. LeasesOK' /\ OneRunAtATime' /\ PublishedOK' /\ RunsAreOwnedOnce'
  BY DEF IInv, RunsInv, LeasesOK, OneRunAtATime, PublishedOK, RunsAreOwnedOnce, Running, Succeeded
<1>2. ASSUME NEW q \in Procs, NEW c \in Callers PROVE TaskOK(proc[q].task[c])'
  BY DEF IInv, RunsInv, TaskOK, Running
<1> QED BY <1>1, <1>2 DEF RunsInv

\* No task lives through a whole half day, so a task's day is over at most one
\* half day after it was asked.
LEMMA TimeStep ==
  ASSUME IInv, pass_time
  PROVE  IInv'
<1>1. /\ half < 2 * MaxDay + 1 /\ half' = half + 1 /\ UNCHANGED <<held, runs, complete, proc, knocks>>
      /\ \A p \in Procs, c \in Callers : proc[p].task[c] # Idle => proc[p].task[c].at = half
  BY DEF pass_time, history
<1>2. Shapes'
  <2>1. half \in Int /\ 2 * FirstDay <= half
    BY Dates DEF IInv, Shapes, Halves
  <2>2. half' \in Halves
    BY <1>1, <2>1, Dates DEF Halves
  <2> QED BY <1>1, <2>2 DEF IInv, Shapes
<1>3. RunsInv'
  BY <1>1, RunsUnmoved
<1>4. ASSUME NEW p \in Procs PROVE KnocksOK(p)'
  <2> DEFINE t == proc[p].task["scheduler"]
             m == proc[p].task["manual"]
  <2>1. KnocksOK(p) /\ half \in Int /\ half' \in Int /\ (t # Idle => t.at = half) /\ (m # Idle => m.at = half)
    BY <1>1, TodayIsADay DEF IInv, Shapes, Callers
  <2>2. (t # Idle => t.at <= half' /\ half' <= t.at + 1) /\ (m # Idle => m.at <= half' /\ half' <= m.at + 1)
    BY <1>1, <2>1
  <2>3. ASSUME NEW d \in Days, knocks[p][d] = 1
        PROVE  /\ proc[p].up /\ 2 * d + 1 <= half'
               /\ d = DayOf(half') => proc[p].last_run = d \/ (t # Idle /\ Sent(t) /\ DayOf(t.at) = d)
    <3>1. proc[p].up /\ 2 * d + 1 <= half
          /\ (d = day => proc[p].last_run = day \/ (t # Idle /\ Sent(t) /\ DayOf(t.at) = day))
      BY <2>1, <2>3 DEF KnocksOK
    <3>2. d \in Int
      BY Dates DEF Days
    <3>3. 2 * d + 1 <= half' /\ d # DayOf(half')
      BY <1>1, <2>1, <3>1, <3>2 DEF DayOf
    <3> QED BY <3>1, <3>3
  <2> QED BY <1>1, <2>1, <2>2, <2>3 DEF KnocksOK, Fresh, day
<1> QED BY <1>2, <1>3, <1>4 DEF IInv

\* A position opened or closed changes nothing else.
LEMMA QuietStep ==
  ASSUME IInv, UNCHANGED <<half, runs, complete, proc, knocks>>, held' \in BOOLEAN
  PROVE  IInv'
<1>1. Shapes'
  BY DEF IInv, Shapes
<1>2. ASSUME NEW q \in Procs PROVE KnocksOK(q)'
  BY KnocksElsewhere DEF IInv
<1> QED BY <1>1, <1>2, RunsUnmoved DEF IInv

-----------------------------------------------------------------------------
(* The theorems.                                                           *)

\* No run, no boundary and no knock at first.
LEMMA InitIInv == Init => IInv
<1> SUFFICES ASSUME Init PROVE IInv
  OBVIOUS
<1>1. Started \in ProcState
  BY TasksAreIdleOrLive DEF Started, ProcState
<1>2. \A p \in Procs : proc[p] = Started /\ \A c \in Callers : proc[p].task[c] = Idle
  BY DEF Init, Started
<1>3. Shapes
  <2>1. half \in Halves
    BY Dates DEF Init, Halves
  <2>2. runs \in Seq(RunState)
    BY EmptySeq DEF Init
  <2>3. proc \in [Procs -> ProcState] /\ knocks \in [Procs -> [Days -> {0, 1}]]
    BY <1>1 DEF Init
  <2> QED BY <2>1, <2>2, <2>3 DEF Init, Shapes
<1>4. RunsInv
  <2>1. DOMAIN runs = {}
    BY DEF Init
  <2>2. \A p \in Procs, c \in Callers : proc[p].task[c].step \notin Working
    BY <1>2, TasksAreIdleOrLive DEF Working
  <2>3. PublishedOK
    BY <2>1 DEF Init, PublishedOK
  <2>4. RunsAreOwnedOnce
    BY <2>2 DEF RunsAreOwnedOnce
  <2> QED BY <2>1, <2>2, <2>3, <2>4 DEF RunsInv, TaskOK, LeasesOK, OneRunAtATime
<1>5. ASSUME NEW p \in Procs PROVE KnocksOK(p)
  <2>1. \A d \in Days : knocks[p][d] = 0
    BY DEF Init
  <2> QED BY <1>2, <2>1 DEF KnocksOK, Fresh, Callers
<1> QED BY <1>3, <1>4, <1>5 DEF IInv

\* Every step keeps the invariant.
LEMMA NextIInv == IInv /\ [Next]_vars => IInv'
<1> SUFFICES ASSUME IInv, [Next]_vars PROVE IInv'
  OBVIOUS
<1>1. ASSUME NEW p \in Procs, NEW c \in Callers, step(p, c) PROVE IInv'
  <2>1. CASE record_prices(p, c)
    BY <2>1, PageStep DEF record_prices
  <2>2. CASE record_accrued_interest(p, c)
    BY <2>2, PageStep DEF record_accrued_interest
  <2> QED BY <1>1, <2>1, <2>2, BeginStep, SendStep, PartialStep, FinishStep, ReturnStep DEF step
<1>2. CASE sell
  BY <1>2, QuietStep DEF sell, history
<1>3. CASE UNCHANGED vars
  BY <1>3, QuietStep DEF vars, clock, history, IInv, Shapes
<1> QED BY <1>1, <1>2, <1>3, TickStep, ManualSteps, RestartStep, LeaseStep, TimeStep DEF Next

\* Every variable keeps its shape, a task past begin_run names a run of the
\* table, and only a running run has a lease.
THEOREM MarketIsTyped == Spec => []TypeOK
<1>1. IInv => TypeOK
  <2> SUFFICES ASSUME IInv PROVE TypeOK
    OBVIOUS
  <2>1. \A i \in DOMAIN runs : runs[i] \in RunState
    BY ElementOfSeq, LenProperties DEF IInv, Shapes
  <2>2. \A i \in DOMAIN runs : ~Running(i) => runs[i].lease = Never
    BY DEF IInv, RunsInv, LeasesOK
  <2>3. \A p \in Procs : /\ proc[p].up \in BOOLEAN /\ proc[p].active \in BOOLEAN
                         /\ proc[p].last_run \in {Never} \cup Days
                         /\ \A c \in Callers : proc[p].task[c] \in TaskState
    BY DEF IInv, Shapes, ProcState
  <2>4. \A p \in Procs, c \in Callers :
          proc[p].task[c].step \in {"ask", "heard", "accrued", "finish"} =>
            proc[p].task[c].run \in DOMAIN runs
    BY DEF IInv, RunsInv, TaskOK, Working
  <2>5. half \in 2 * FirstDay .. 2 * MaxDay + 1 /\ held \in BOOLEAN
        /\ complete \in {Never} \cup (FirstDay - 1)..MaxDay
    BY DEF IInv, Shapes, Halves
  <2> QED BY <2>1, <2>2, <2>3, <2>4, <2>5 DEF TypeOK
<1> QED BY <1>1, InitIInv, NextIInv, PTL DEF Spec

\* One run of the series is running at a time, whichever process began it and
\* whatever became of its lease: begin_run closes every expired run in the
\* transaction that opens its own.
THEOREM OneRunIsRunning == Spec => []OneRunAtATime
<1>1. IInv => OneRunAtATime
  BY DEF IInv, RunsInv
<1> QED BY <1>1, InitIInv, NextIInv, PTL DEF Spec

\* What readers are shown is whole: a succeeded run has all its pages, because
\* its one owner wrote them in order while it was open, and complete_through is
\* the latest date a succeeded run asked for.
THEOREM PublishedRunsAreWhole == Spec => []PublishedIsWhole
<1>1. IInv => PublishedIsWhole
  <2> SUFFICES ASSUME IInv PROVE PublishedIsWhole
    OBVIOUS
  <2> DEFINE ok == {j \in DOMAIN runs : runs[j].status = "succeeded"}
             published == {runs[i] : i \in ok}
             S == {Never} \cup {r.to : r \in published}
  <2>1. \A i \in DOMAIN runs : runs[i].to \in Int
    <3>1. \A i \in DOMAIN runs : runs[i] \in RunState
      BY ElementOfSeq, LenProperties DEF IInv, Shapes
    <3> QED BY <3>1, Dates DEF RunState, Days
  <2>2. \A i \in ok : runs[i].pages = Pages /\ runs[i].to <= complete
    BY DEF IInv, RunsInv, PublishedOK, Succeeded
  <2>3. complete \in Int /\ Never <= complete
    BY Dates DEF IInv, Shapes, Never
  <2>4. complete \in S
    BY DEF IInv, RunsInv, PublishedOK, Succeeded
  <2>5. S \in SUBSET Int /\ \A y \in S : y <= complete
    BY <2>1, <2>2, <2>3 DEF Never
  <2>6. Max(S) = complete
    BY <2>4, <2>5, MaxIsTheBound
  <2>7. \A r \in published : r.pages = Pages
    BY <2>2
  <2> QED BY <2>6, <2>7 DEF PublishedIsWhole
<1> QED BY <1>1, InitIInv, NextIInv, PTL DEF Spec

\* The schedule knocks on the source once for a day, and again only after a
\* failure of ours or a restart.
THEOREM ADayHasOneKnock == Spec => []OneKnockADay
<1>1. IInv => OneKnockADay
  BY DEF IInv, Shapes, OneKnockADay
<1> QED BY <1>1, InitIInv, NextIInv, PTL DEF Spec

\* A closed run is never written again, by its own task or by another process.
THEOREM AClosedRunIsFinal == Spec => ClosedRunsStayClosed
<1> DEFINE Final == \A i \in DOMAIN runs : ~Running(i) => runs'[i] = runs[i]
<1>1. ASSUME IInv, NEW p \in Procs, NEW c \in Callers, step(p, c), runs' # runs PROVE Final
  <2> DEFINE k == proc[p].task[c].run
  <2>1. CASE begin_run(p, c)
    <3>1. PICK new \in RunState : runs' = Append(Swept, new)
      <4>1. proc[p].task[c] \in LiveTask /\ half \in Halves
        BY <1>1, <2>1, AtIsLive DEF begin_run, At, IInv, Shapes
      <4> DEFINE n == [from |-> proc[p].task[c].from, to |-> proc[p].task[c].to,
                       status |-> "running", lease |-> half, pages |-> 0]
      <4>2. n \in RunState
        BY <4>1 DEF RunState, LiveTask, Halves, Pages
      <4> QED BY <1>1, <2>1, <4>2 DEF begin_run
    <3>2. /\ Len(runs) \in Nat /\ DOMAIN runs = 1..Len(runs)
          /\ \A i \in DOMAIN runs : runs[i] \in RunState
      BY <1>1, LenProperties, ElementOfSeq DEF IInv, Shapes
    <3>3. Swept \in [1..Len(runs) -> RunState]
      <4>1. \A j \in DOMAIN runs : [runs[j] EXCEPT !.status = "failed"] \in RunState
        BY <3>2 DEF RunState
      <4> QED BY <3>2, <4>1 DEF Swept
    <3>4. Swept \in Seq(RunState) /\ Len(Swept) = Len(runs)
      BY <3>2, <3>3, SeqDef
    <3>5. \A i \in DOMAIN runs : runs'[i] = Swept[i]
      BY <3>1, <3>2, <3>4
    <3> QED BY <3>2, <3>5 DEF Swept, Expired, Running
  <2>2. CASE Running(k) /\ runs' = Wrote(k)
    BY <2>2 DEF Wrote, Running
  <2>3. CASE \E status \in {"partial", "failed", "succeeded"} : Running(k) /\ runs' = Finished(k, status)
    BY <2>3 DEF Finished, Running
  <2> QED BY <1>1, <2>1, <2>2, <2>3
          DEF step, send, close_partial, record_prices, record_accrued_interest, record_page,
              finish_run, return_run, fail_run, Through, ensure_run
<1>2. IInv /\ [Next]_vars => [Final]_vars
  <2> SUFFICES ASSUME IInv, [Next]_vars PROVE Final
    OBVIOUS
  <2>1. CASE UNCHANGED runs
    BY <2>1
  <2>2. ASSUME NEW i \in DOMAIN runs, lease_runs_out(i) \/ source_outlasts_lease(i) PROVE Final
    BY <2>2 DEF lease_runs_out, source_outlasts_lease, Running
  <2> QED BY <1>1, <2>1, <2>2
          DEF Next, tick, run_now, request_sync, crash, start, pass_time, sell, vars
<1>3. Spec => []IInv
  BY InitIInv, NextIInv, PTL DEF Spec
<1> QED BY <1>2, <1>3, PTL DEF Spec, ClosedRunsStayClosed
=============================================================================
