---------------------------- MODULE OutboundTally ----------------------------
(***************************************************************************)
(* The outbound tally of one broker endpoint and the lane that sends       *)
(* through it (crates/iaam-http: tally.rs and the broker path of           *)
(* gateway.rs).  Every departure is recorded durably before it leaves, and *)
(* every outcome after it comes back; in between the process may stop, the *)
(* machine restart, a write fail before, between or after its two renames, *)
(* an answer be lost, and the records be emptied during a controlled stop. *)
(*                                                                         *)
(* A time is what the boot clock reads, Elapsed; NoTime stands for None.   *)
(***************************************************************************)
EXTENDS Integers, Sequences, FiniteSets, SequencesExt

CONSTANTS
  Keys,
  Spacing,            \* DEPARTURE_SPACING
  Pause,              \* RATE_LIMIT_PAUSE
  FirstSendWait,      \* FIRST_SEND_WAIT
  UnresolvedAttempt,  \* REQUEST_TIMEOUT + RATE_LIMIT_PAUSE
  RefusalWindow, Closure, UnresolvedClosure, Day, DailyCeiling,
  BudgetLimit, BudgetWindow,
  RetryAfter,         \* the delays a response may name
  MaxTime, MaxFaults  \* bounds of the model

ASSUME TimesAreOrdered ==
  /\ {Spacing, Pause, FirstSendWait, UnresolvedAttempt, RefusalWindow, Closure,
      UnresolvedClosure, Day, DailyCeiling, BudgetLimit, BudgetWindow} \subseteq Nat \ {0}
  /\ Spacing <= Pause /\ Pause = FirstSendWait /\ Pause < UnresolvedAttempt
  /\ UnresolvedAttempt <= RefusalWindow /\ RefusalWindow <= Closure
  /\ Closure <= UnresolvedClosure /\ UnresolvedClosure < Day
  /\ BudgetWindow <= Day
  /\ RetryAfter \subseteq 1..Day
  /\ MaxTime \in Nat /\ MaxFaults \in Nat

VARIABLES
  now,      \* the wall's time, which the program never reads
  boot,     \* which boot this is, and the wall's time it began at
  tally,    \* the durable record of the endpoint
  torn,     \* the generation record was renamed and the tally was not
  lane,     \* the owning process's lane, or NoLane while nobody owns it
  seen,     \* what reached the endpoint: departures in order
  told,     \* when the endpoint last answered 429
  faults    \* how many failures happened, bounded by MaxFaults

vars == <<now, boot, tally, torn, lane, seen, told, faults>>

NoTime == -1
NoKey == "none"
ASSUME NoKeyIsNoMethod == NoKey \notin Keys
NoLane == [step |-> "none"]
Elapsed == now - boot.at

Larger(x, y) == IF x >= y THEN x ELSE y

\* A response as the tally tells them apart: its class and the named delay.
Statuses == {"ok", "refused", "limited", "failed"}
Responses == [status: Statuses, after: RetryAfter \union {NoTime}]
NoLatch == [status |-> "none", after |-> NoTime]
Unknown == [status |-> "unknown", after |-> NoTime]

\* initialize_fresh_pair: every endpoint stands at zero.
ZeroTally ==
  [ empty |-> FALSE, boot |-> 1, last_send |-> NoTime, daily |-> <<>>,
    closed |-> NoTime, reason |-> "none", paused |-> NoTime, paused_for |-> NoTime,
    refusals |-> <<>>, rate_limits |-> <<>>, boot_wait |-> NoTime,
    pending |-> NoTime, key |-> NoKey, sends |-> [k \in Keys |-> <<>>] ]

\* Both records empty: parse leaves no boot and no host.
EmptyTally == [ZeroTally EXCEPT !.empty = TRUE, !.boot = 0]

Filled(s) == [i \in DOMAIN s |-> Elapsed]

\* Vec::retain of the times from t on and of the pending attempt's.  Times are
\* pushed in order and the pending one is the last, so what stays is a tail.
retain(s, t, pending) ==
  LET from == CHOOSE n \in 1..(Len(s) + 1) :
                \A i \in DOMAIN s : i >= n <=> s[i] >= t \/ s[i] = pending
  IN SubSeq(s, from, Len(s))

----------------------------------------------------------------------------
(* The transitions of the record.                                           *)

\* A closure outlives a restart at the full length of its reason.
AfterBoot(reason) == IF reason = "unresolved" THEN UnresolvedClosure ELSE Closure

\* Mutant: the pending attempt keeps the time the old boot gave it.
prepare_boot_OldPending(t) ==
  IF t.boot = boot.id THEN t
  ELSE [t EXCEPT !.boot = boot.id, !.daily = Filled(@),
                 !.sends = [k \in Keys |-> Filled(@[k])],
                 !.boot_wait = Elapsed + FirstSendWait]

\* The times of another boot mean nothing now: each becomes the present.
\* A pair found empty is taken for lost, with a whole day's sends.
prepare_boot(t) ==
  IF t.boot = boot.id THEN t
  ELSE IF t.empty
  THEN [ZeroTally EXCEPT !.boot = boot.id, !.last_send = Elapsed,
                         !.daily = [i \in 1..DailyCeiling |-> Elapsed]]
  ELSE [t EXCEPT
    !.boot = boot.id,
    !.last_send = IF @ = NoTime THEN NoTime ELSE Elapsed,
    !.daily = Filled(@),
    !.closed = IF @ = NoTime THEN NoTime ELSE Elapsed + AfterBoot(t.reason),
    !.paused = IF @ = NoTime THEN NoTime ELSE Elapsed + t.paused_for,
    !.refusals = Filled(@),
    !.rate_limits = Filled(@),
    !.boot_wait = Elapsed + FirstSendWait,
    !.pending = IF @ = NoTime THEN NoTime ELSE Elapsed,
    !.sends = [k \in Keys |-> Filled(@[k])]]

\* Mutant: an expired closure leaves its reason behind.
prune_KeepsReason(t) ==
  [t EXCEPT !.closed = IF @ <= Elapsed THEN NoTime ELSE @]

prune(t) ==
  [t EXCEPT
    !.sends = [k \in Keys |->
                 retain(@[k], Elapsed - Day + 1, IF k = t.key THEN t.pending ELSE NoTime)],
    !.daily = retain(@, Elapsed - Day + 1, t.pending),
    !.refusals = retain(@, Elapsed - RefusalWindow + 1, NoTime),
    !.rate_limits = retain(@, Elapsed - RefusalWindow, NoTime),
    !.closed = IF @ <= Elapsed THEN NoTime ELSE @,
    !.reason = IF t.closed <= Elapsed THEN "none" ELSE @,
    !.paused = IF @ <= Elapsed THEN NoTime ELSE @,
    !.paused_for = IF t.paused <= Elapsed THEN NoTime ELSE @,
    !.boot_wait = IF @ <= Elapsed THEN NoTime ELSE @]

MovedLast(s, at) == IF s = <<>> THEN <<at>> ELSE [s EXCEPT ![Len(s)] = at]

\* Mutant: the times an attempt is counted under stay those of the decision.
move_pending_to_Stays(t) ==
  IF t.pending = NoTime THEN t
  ELSE [t EXCEPT !.last_send = Larger(@, t.pending)]

\* The attempt counts from the last moment it may have left.
move_pending_to(t) ==
  LET at == Larger(t.pending, Elapsed)
  IN IF t.pending = NoTime THEN t
     ELSE [t EXCEPT !.sends[t.key] = MovedLast(@, at),
                    !.daily = MovedLast(@, at),
                    !.last_send = Larger(@, at),
                    !.pending = at]

\* move_pending_to refuses a pending attempt that is not the latest send.
PendingIsLatest(t) ==
  t.pending # NoTime =>
    /\ t.key \in Keys
    /\ t.daily = <<>> \/ Last(t.daily) = t.pending
    /\ t.sends[t.key] = <<>> \/ Last(t.sends[t.key]) = t.pending

WithoutLast(s, at) == IF s # <<>> /\ Last(s) = at THEN Front(s) ELSE s

rollback_pending(t) ==
  IF t.pending = NoTime THEN t
  ELSE [t EXCEPT !.daily = WithoutLast(@, t.pending),
                 !.sends[t.key] = WithoutLast(@, t.pending),
                 !.pending = NoTime, !.key = NoKey]

Resolved(t) == [t EXCEPT !.pending = NoTime, !.key = NoKey]

Closed(t, until, reason) ==
  [t EXCEPT !.closed = Larger(@, until), !.reason = reason]

Paused(t, pause) ==
  IF Elapsed + pause >= t.paused
  THEN [t EXCEPT !.paused = Elapsed + pause, !.paused_for = pause]
  ELSE t

----------------------------------------------------------------------------
(* The operations on the record, each one transaction.                      *)

adopt_pending(t0) ==
  LET t == prepare_boot(t0)
  IN IF t.pending = NoTime THEN prune(t)
     ELSE Closed(Resolved(prune(move_pending_to(t))), Elapsed + UnresolvedClosure, "unresolved")

record_join_failure(t0) ==
  Closed(Resolved(prune(move_pending_to(prepare_boot(t0)))),
         Elapsed + UnresolvedClosure, "unresolved")

acknowledge_handoff(t0) == prune(move_pending_to(prepare_boot(t0)))

record_not_handed_off(t0) == rollback_pending(prune(prepare_boot(t0)))

\* A refusal that names its delay pauses the endpoint for it; 429 pauses it
\* in any case, and the second 429 or the third refusal in the window closes it.
record_response(t0, r) ==
  LET t1 == Resolved(prune(move_pending_to(prepare_boot(t0))))
      t2 == IF r.status # "ok" /\ r.after # NoTime THEN Paused(t1, r.after) ELSE t1
      limited == Paused([t2 EXCEPT !.rate_limits = Append(@, Elapsed)],
                        Larger(r.after, Pause))
      refused == [t2 EXCEPT !.refusals = Append(@, Elapsed)]
  IN CASE r.status = "limited" ->
            IF Len(limited.rate_limits) >= 2
            THEN Closed(limited, Elapsed + Closure, "rate_limits") ELSE limited
       [] r.status = "refused" ->
            IF Len(refused.refusals) >= 3
            THEN Closed(refused, Elapsed + Closure, "refusals") ELSE refused
       [] OTHER -> t2

record_unknown_outcome(t0) ==
  LET t1 == prune(move_pending_to(prepare_boot(t0)))
      since == IF t1.pending = NoTime THEN Elapsed ELSE t1.pending
  IN IF t1.rate_limits = <<>>
     THEN Closed(Resolved(t1), Larger(since + UnresolvedAttempt, Elapsed + Pause), "unresolved")
     ELSE Closed(Resolved(t1), Elapsed + Closure, "rate_limits")

\* A pending attempt nobody resolved in time counts as sent; its closure is
\* assigned, where the others take the later of the two.
ExpirePending(t) ==
  LET moved == Resolved(move_pending_to(t))
  IN IF t.pending = NoTime THEN t
     ELSE IF moved.rate_limits = <<>> THEN moved
     ELSE [moved EXCEPT !.closed = Elapsed + Closure, !.reason = "rate_limits"]

\* What the record answers to a request of method k, once it is expired.
Answer(t, k) ==
  LET sent == t.sends[k]
      spaced == t.last_send = NoTime \/ t.last_send + Spacing <= Elapsed
      budget == \/ Len(sent) < BudgetLimit
                \/ sent[Len(sent) - BudgetLimit + 1] + BudgetWindow <= Elapsed
  IN CASE t.closed > Elapsed -> "closed"
       [] t.paused > Elapsed -> "paused"
       [] t.boot_wait > Elapsed -> "wait"
       [] Len(t.daily) >= DailyCeiling -> "ceiling"
       [] ~(spaced /\ budget) -> "wait"
       [] OTHER -> "send"

Sent(t, k) ==
  [t EXCEPT !.sends[k] = Append(@, Elapsed), !.daily = Append(@, Elapsed),
            !.boot_wait = NoTime, !.pending = Elapsed, !.key = k]

\* decide: the record it leaves and what it says.
decide(t0, k) ==
  LET t1 == prune(prepare_boot(t0))
      t2 == ExpirePending(t1)
  IN IF t1.pending # NoTime /\ t1.pending + UnresolvedAttempt > Elapsed
     THEN [tally |-> t1, says |-> "closed"]
     ELSE IF Answer(t2, k) = "send" THEN [tally |-> Sent(t2, k), says |-> "send"]
     ELSE [tally |-> t2, says |-> Answer(t2, k)]

----------------------------------------------------------------------------
(* transact: the record is read, changed and persisted under a file lock.   *)
(* A failure leaves it as it was, or renames the generation only, or is     *)
(* reported although both renames were made.  A torn pair fails every read. *)

Fault == faults < MaxFaults /\ faults' = faults + 1

Commits(new) ==
  /\ ~torn
  /\ tally' = new
  /\ UNCHANGED <<torn, faults>>

Fails(new) ==
  \/ torn /\ UNCHANGED <<tally, torn, faults>>
  \/ ~torn /\ Fault /\ UNCHANGED <<tally, torn>>
  \/ ~torn /\ Fault /\ torn' = TRUE /\ UNCHANGED tally
  \/ ~torn /\ Fault /\ tally' = new /\ UNCHANGED torn

IdleLane == [step |-> "idle", key |-> NoKey, latch |-> NoLatch, failed |-> FALSE]
Idle(latch) == [IdleLane EXCEPT !.latch = latch]

outside == <<now, boot, seen, told>>

Init ==
  /\ now = 0
  /\ boot = [id |-> 1, at |-> 0]
  /\ tally \in {ZeroTally, EmptyTally}
  /\ torn = FALSE
  /\ lane = NoLane
  /\ seen = <<>>
  /\ told = NoTime
  /\ faults = 0

\* A process takes the endpoint's lock and adopts what it finds pending.
acquire ==
  /\ lane = NoLane
  /\ \/ Commits(adopt_pending(tally)) /\ lane' = IdleLane
     \/ Fails(adopt_pending(tally)) /\ UNCHANGED lane
  /\ UNCHANGED outside

\* The send's first duties: a task that died, then an outcome not yet written.
settle_failed_attempt ==
  /\ lane.step = "idle" /\ lane.failed
  /\ \/ Commits(record_join_failure(tally)) /\ lane' = [lane EXCEPT !.failed = FALSE]
     \/ Fails(record_join_failure(tally)) /\ UNCHANGED lane
  /\ UNCHANGED outside

\* A latched response can be recorded only while its attempt is pending.
LatchedRecord ==
  IF lane.latch = Unknown THEN record_unknown_outcome(tally)
  ELSE record_response(tally, lane.latch)

settle_latch ==
  /\ lane.step = "idle" /\ ~lane.failed /\ lane.latch # NoLatch
  /\ lane.latch = Unknown \/ tally.pending # NoTime
  /\ \/ Commits(LatchedRecord) /\ lane' = IdleLane
     \/ Fails(LatchedRecord) /\ UNCHANGED lane
  /\ UNCHANGED outside

decide_and_record(k) ==
  /\ lane = IdleLane
  /\ \/ /\ Commits(decide(tally, k).tally)
        /\ lane' = IF decide(tally, k).says = "send"
                   THEN [IdleLane EXCEPT !.step = "decided", !.key = k] ELSE lane
     \/ Fails(decide(tally, k).tally) /\ UNCHANGED lane
  /\ UNCHANGED outside

\* The request could not be built: the attempt never left.
not_built ==
  /\ lane.step = "decided"
  /\ \/ Commits(record_not_handed_off(tally)) /\ lane' = IdleLane
     \/ Fails(record_not_handed_off(tally)) /\ lane' = Idle(Unknown)
  /\ UNCHANGED outside

\* The transport is about to send; unless the record says so, it does not.
hand_off ==
  /\ lane.step = "decided"
  /\ \/ Commits(acknowledge_handoff(tally)) /\ lane' = [lane EXCEPT !.step = "handed"]
     \/ Fails(acknowledge_handoff(tally)) /\ lane' = Idle(Unknown)
  /\ UNCHANGED outside

\* The request reaches the endpoint, some time after the hand-off.
depart ==
  /\ lane.step = "handed"
  /\ lane' = [lane EXCEPT !.step = "sent"]
  /\ seen' = Append(seen, [at |-> now, key |-> lane.key, answered |-> FALSE])
  /\ UNCHANGED <<now, boot, tally, torn, told, faults>>

\* The status line is recorded before the body is read; what could not be
\* recorded stays latched in the lane.
observe(r) ==
  /\ lane.step = "sent"
  /\ told' = IF r.status = "limited" THEN now ELSE told
  /\ seen' = [seen EXCEPT ![Len(seen)].answered = TRUE]
  /\ \/ Commits(record_response(tally, r)) /\ lane' = IdleLane
     \/ /\ Fails(record_response(tally, r))
        /\ lane' = Idle(IF r.status = "ok" THEN Unknown ELSE r)
  /\ UNCHANGED <<now, boot>>

\* Mutant: a timeout is taken for a request that was never sent.
time_out_RollsBack ==
  /\ lane.step \in {"handed", "sent"}
  /\ Commits(record_not_handed_off(tally)) /\ lane' = IdleLane
  /\ UNCHANGED outside

\* No status came: the request may or may not have arrived.
time_out ==
  /\ lane.step \in {"handed", "sent"}
  /\ \/ Commits(record_unknown_outcome(tally)) /\ lane' = IdleLane
     \/ Fails(record_unknown_outcome(tally)) /\ lane' = Idle(Unknown)
  /\ UNCHANGED outside

\* The detached attempt's guard is dropped without its completion.
task_dies ==
  /\ lane.step \in {"decided", "handed", "sent"}
  /\ lane' = [IdleLane EXCEPT !.failed = TRUE]
  /\ Fault
  /\ UNCHANGED <<tally, torn, outside>>

----------------------------------------------------------------------------
(* The world around the program.                                            *)

\* The process stops; the kernel releases the endpoint's lock.
crash ==
  /\ lane # NoLane
  /\ lane' = NoLane
  /\ Fault
  /\ UNCHANGED <<tally, torn, outside>>

reboot ==
  /\ Fault
  /\ boot' = [id |-> boot.id + 1, at |-> now]
  /\ lane' = NoLane
  /\ UNCHANGED <<now, tally, torn, seen, told>>

\* The repairs the refusals name, both during a controlled stop: the current
\* pair restored, or both records emptied together.
restore_pair ==
  /\ lane = NoLane /\ torn
  /\ torn' = FALSE
  /\ UNCHANGED <<tally, lane, faults, outside>>

empty_pair ==
  /\ lane = NoLane
  /\ tally' = EmptyTally
  /\ torn' = FALSE
  /\ Fault
  /\ UNCHANGED <<lane, outside>>

tick ==
  /\ now < MaxTime
  /\ now' = now + 1
  /\ UNCHANGED <<boot, tally, torn, lane, seen, told, faults>>

Next ==
  \/ acquire \/ settle_failed_attempt \/ settle_latch
  \/ \E k \in Keys : decide_and_record(k)
  \/ not_built \/ hand_off \/ depart
  \/ \E r \in Responses : observe(r)
  \/ time_out \/ task_dies
  \/ crash \/ reboot \/ restore_pair \/ empty_pair \/ tick

Spec == Init /\ [][Next]_vars

----------------------------------------------------------------------------
(* Properties.                                                              *)

Times == NoTime..(MaxTime + Day)
Lanes ==
  { NoLane } \union
  [ step: {"idle", "decided", "handed", "sent"}, key: Keys \union {NoKey},
    latch: Responses \union {NoLatch, Unknown}, failed: BOOLEAN ]

\* Every variable keeps its shape; a key is named exactly while an attempt is
\* pending, and a reason exactly while the endpoint is closed.
TypeOK ==
  /\ now \in 0..MaxTime
  /\ boot \in [id: 1..(MaxFaults + 1), at: 0..MaxTime]
  /\ {tally.last_send, tally.closed, tally.paused, tally.paused_for,
      tally.boot_wait, tally.pending} \subseteq Times
  /\ tally.key \in Keys \union {NoKey}
  /\ tally.key = NoKey <=> tally.pending = NoTime
  /\ tally.reason = "none" <=> tally.closed = NoTime
  /\ torn \in BOOLEAN
  /\ lane \in Lanes

\* What the endpoint sees keeps to the contract of EndpointContract: through
\* stops and restarts between the decision, the departure and the record of
\* its outcome (tally.rs:504-746), failed writes and emptied records.
Contract == INSTANCE EndpointContract WITH now <- now, seen <- seen, told <- told
KeepsTheContract == Contract!Spec

\* The pending attempt is the last one counted for its method and its day, so
\* move_pending_to and with it the record of an outcome never fails as corrupt
\* (tally.rs:1205-1230), whatever was pruned or rewritten after a restart.
PendingIsTheLatest ==
  PendingIsLatest(prepare_boot(tally)) /\ PendingIsLatest(prune(prepare_boot(tally)))

\* Every departure of the last day is still counted against the ceilings
\* unless its record was lost: pruning (tally.rs:1349), the rewrite of a new
\* boot (1280) and the roll-back of an attempt (1250) never forget one.
Departed == { i \in DOMAIN seen : seen[i].at > now - Day }
DeparturesAreCounted ==
  tally.empty \/ Len(tally.daily) >= Cardinality(Departed)
=============================================================================
