---------------------------- MODULE LimitsProofs ----------------------------
(***************************************************************************)
(* Proofs about the two limits the program keeps: on the requests it sends *)
(* to a broker's endpoint (OutboundTally) and on the requests its server   *)
(* serves (RateLimiter), for any number of methods, departures, failures,  *)
(* tokens, threads and instants.                                           *)
(*                                                                         *)
(* OutboundTally: TallyInv is inductive, and from it follow the types, the *)
(* place of the pending attempt, the count of the departures and the       *)
(* refinement of EndpointContract.  RateLimiter: LimiterInv is inductive,  *)
(* and from it follow the bounds, the windows' order and the exact wait.   *)
(***************************************************************************)
EXTENDS RateLimiter, OutboundTally, FiniteSetTheorems, SequenceTheorems,
        WellFoundedInduction, TLAPS

(***************************************************************************)
(* The inductive invariant.  Its parts take the record, the time n, the    *)
(* start a of the boot and what the endpoint saw, s, as parameters.         *)
(***************************************************************************)

Fields ==
  {"empty", "boot", "last_send", "daily", "closed", "reason", "paused", "paused_for",
   "refusals", "rate_limits", "boot_wait", "pending", "key", "sends"}

Sorted(s) == \A i, j \in 1..Len(s) : i <= j => s[i] <= s[j]

\* Times in the order they were pushed, none after e.
TimesOK(s, e) == s \in Seq(Nat) /\ Sorted(s) /\ \A i \in 1..Len(s) : s[i] <= e

EndsWith(s, x) == s # <<>> /\ s[Len(s)] = x

\* The shape of a record whose times were all read before e.
Rec(t, e) ==
  /\ DOMAIN t = Fields
  /\ t.empty = FALSE
  /\ TimesOK(t.daily, e) /\ Len(t.daily) <= DailyCeiling
  /\ DOMAIN t.sends = Keys
  /\ \A k \in Keys : TimesOK(t.sends[k], e)
  /\ TimesOK(t.refusals, e) /\ TimesOK(t.rate_limits, e)
  /\ t.last_send \in {NoTime} \union 0..e
  /\ t.pending \in {NoTime} \union 0..e
  /\ {t.closed, t.paused, t.boot_wait} \subseteq {NoTime} \union 0..(e + Day)
  /\ t.paused_for \in {NoTime} \union 1..Day
  /\ t.paused # NoTime => t.paused_for # NoTime
  /\ t.reason = "none" <=> t.closed = NoTime
  /\ t.key \in Keys \union {NoKey}
  /\ t.key = NoKey <=> t.pending = NoTime
  /\ t.pending # NoTime => EndsWith(t.daily, t.pending) /\ EndsWith(t.sends[t.key], t.pending)

Departure == [at: Nat, key: Keys, answered: BOOLEAN]

\* What the endpoint saw by the time n.
SeenOK(s, n) ==
  /\ s \in Seq(Departure)
  /\ \A i \in 1..Len(s) : s[i].at <= n /\ s[i].at <= s[Len(s)].at

\* How many departures there were from the i-th on, and of its method.
Rank(s, i) == Len(s) - i + 1
OfKeyFrom(s, i) == { j \in 1..Len(s) : j >= i /\ s[j].key = s[i].key }
RankOfKey(s, i) == Cardinality(OfKeyFrom(s, i))

\* The r-th time from the end is there and is not before x, unless it is among
\* the last w.
Backed(times, r, a, x, w) ==
  /\ r <= Len(times)
  /\ \/ times[Len(times) - r + 1] + a >= x
     \/ r <= w

\* The day is full with times not before x.
Full(t, a, x) == Len(t.daily) = DailyCeiling /\ t.daily[1] + a >= x

\* Every departure of the last day is backed by a time of its own: off of the
\* last times belong to an attempt that has not left.
DayBacked(t, off, w, n, a, s) ==
  \A i \in 1..Len(s) : s[i].at > n - Day =>
    Backed(t.daily, Rank(s, i) + off, a, s[i].at, w)

KeyBacked(t, off, w, n, a, s) ==
  \A i \in 1..Len(s) : s[i].at > n - Day =>
    \/ off = 0 /\ Full(t, a, s[i].at)
    \/ /\ s[i].key = t.key
       /\ Backed(t.sends[s[i].key], RankOfKey(s, i) + off, a, s[i].at, w)
    \/ /\ s[i].key # t.key
       /\ Backed(t.sends[s[i].key], RankOfKey(s, i), a, s[i].at, 0)

LastBacked(t, a, s) ==
  \A i \in 1..Len(s) : t.last_send # NoTime /\ t.last_send + a >= s[i].at

Sound(t, off, w, n, a, s) ==
  /\ DayBacked(t, off, w, n, a, s)
  /\ KeyBacked(t, off, w, n, a, s)
  /\ w = 0 => LastBacked(t, a, s)

\* The record answers no before x.
Held(t, n, a, x) ==
  \/ x <= n
  \/ t.closed + a >= x
  \/ t.paused + a >= x
  \/ t.boot_wait + a >= x
  \/ Len(t.daily) >= DailyCeiling /\ t.daily[1] + a + Day >= x

Silent(s) == s # <<>> /\ ~s[Len(s)].answered

Quiet(t, n, a, s, td) ==
  /\ td # NoTime => Held(t, n, a, td + Pause)
  /\ Silent(s) => Held(t, n, a, s[Len(s)].at + Pause)

\* A record of an earlier boot, or an emptied one: its times mean nothing, and
\* it still has one for every departure of the last day.
Stale(t, n, s) ==
  /\ \A i \in 1..Len(s) : s[i].at > n - Day =>
       /\ Rank(s, i) <= (IF t.empty THEN DailyCeiling ELSE Len(t.daily))
       /\ \/ t.empty
          \/ Len(t.daily) = DailyCeiling
          \/ RankOfKey(s, i) <= Len(t.sends[s[i].key])
  /\ ~t.empty /\ t.pending = NoTime /\ s # <<>> => t.last_send # NoTime

\* The contract's MayDepart.
MayGo(k, n, s, td) ==
  /\ \A i \in 1..Len(s) : s[i].at <= n - Spacing
  /\ Silent(s) => \A i \in 1..Len(s) : s[i].at <= n - Pause
  /\ Cardinality({ i \in 1..Len(s) : s[i].at > n - Day }) < DailyCeiling
  /\ Cardinality({ i \in 1..Len(s) : s[i].at > n - BudgetWindow /\ s[i].key = k }) < BudgetLimit
  /\ td = NoTime \/ n >= td + Pause

\* The attempt pending in t has not left, as the lane l knows.
NotLeft(t, l) == t.pending # NoTime /\ (l.step \in {"decided", "handed"} \/ l = IdleLane)
Off(t, l) == IF NotLeft(t, l) THEN 1 ELSE 0
Slack(t, l) == IF t.pending # NoTime /\ ~NotLeft(t, l) THEN 1 ELSE 0

Current(t, l, n, b, s, td) ==
  /\ t.boot = b.id
  /\ Rec(t, n - b.at)
  /\ Sound(t, Off(t, l), Slack(t, l), n, b.at, s)
  /\ Slack(t, l) = 0 => Quiet(t, n, b.at, s, td)

Older(t, l, n, b, s) ==
  /\ l = NoLane
  /\ t.boot \in 0..(b.id - 1)
  /\ t = EmptyTally \/ Rec(t, MaxTime)
  /\ Stale(t, n, s)

World(n, b, s, td, f) ==
  /\ n \in 0..MaxTime
  /\ DOMAIN b = {"id", "at"}
  /\ b = [id |-> b.id, at |-> b.at]
  /\ b.at \in 0..n
  /\ b.id \in 1..(f + 1)
  /\ f \in 0..MaxFaults
  /\ SeenOK(s, n)
  /\ td \in {NoTime} \union 0..n

Passed(td, n) == td = NoTime \/ td + Pause <= n

\* What the lane knows of the pending attempt and of the endpoint's answer.
LaneOK(t, l, n, s, td) ==
  /\ l \in Lanes
  /\ l # NoLane /\ l.step # "idle" =>
       t.pending # NoTime /\ t.key = l.key /\ l.latch = NoLatch /\ l.failed = FALSE
  /\ l.step \in {"decided", "handed"} => MayGo(l.key, n, s, td)
  /\ l.step = "sent" => Silent(s) /\ Passed(td, n)
  /\ l # NoLane /\ l.step = "idle" /\ l.latch \in Responses =>
       /\ l.latch.status # "ok" /\ ~Silent(s)
       /\ l.latch.status # "limited" => Passed(td, n)

TallyInv ==
  /\ World(now, boot, seen, told, faults)
  /\ torn \in BOOLEAN
  /\ LaneOK(tally, lane, now, seen, told)
  /\ \/ Current(tally, lane, now, boot, seen, told)
     \/ Older(tally, lane, now, boot, seen)

-----------------------------------------------------------------------------
(* Sequences of times.                                                      *)

\* Every non-empty set of numbers has a least one.
LEMMA LeastNumber ==
  ASSUME NEW T \in SUBSET Nat, T # {}
  PROVE  \E m \in T : \A n \in T : m <= n
<1> DEFINE R == OpToRel(<, Nat)
<1>1. IsWellFoundedOn(R, Nat)
  BY NatLessThanWellFounded
<1>2. \A x, y \in Nat : <<x, y>> \in R <=> x < y
  BY DEF OpToRel
<1> HIDE DEF R
<1>3. PICK m \in T : \A n \in T : ~(<<n, m>> \in R)
  BY <1>1, WFMin
<1>4. \A n \in T : ~(n < m)
  BY <1>2, <1>3
<1> QED BY <1>4

\* What retain keeps of ordered times is a tail: the times from t on, and with
\* them the pending one, which is the last.
LEMMA RetainIsATail ==
  ASSUME NEW s, NEW e, TimesOK(s, e), NEW t \in Int, NEW p \in Int,
         p # NoTime => EndsWith(s, p)
  PROVE  \E n \in 1..(Len(s) + 1) :
           /\ retain(s, t, p) = SubSeq(s, n, Len(s))
           /\ \A i \in 1..Len(s) : i >= n <=> s[i] >= t \/ s[i] = p
<1> DEFINE Kept(i) == s[i] >= t \/ s[i] = p
<1> DEFINE Good(n) == \A i \in 1..Len(s) : i >= n <=> Kept(i)
<1>1. s \in Seq(Nat) /\ DOMAIN s = 1..Len(s) /\ Len(s) \in Nat
  BY DEF TimesOK
<1>2. \A i, j \in 1..Len(s) : i <= j /\ Kept(i) => Kept(j)
  <2> SUFFICES ASSUME NEW i \in 1..Len(s), NEW j \in 1..Len(s), i <= j, Kept(i)
               PROVE  Kept(j)
    OBVIOUS
  <2>1. s[i] \in Nat /\ s[j] \in Nat /\ s[Len(s)] \in Nat /\ s[i] <= s[j] /\ s[j] <= s[Len(s)]
    BY <1>1 DEF TimesOK, Sorted
  <2>2. CASE s[i] >= t
    BY <2>1, <2>2
  <2>3. CASE s[i] = p
    BY <2>1, <2>3 DEF EndsWith, NoTime
  <2> QED BY <2>2, <2>3
<1>3. \E n \in 1..(Len(s) + 1) : Good(n)
  <2> DEFINE T == { i \in 1..Len(s) : Kept(i) }
  <2>1. CASE T = {}
    <3>1. Good(Len(s) + 1)
      BY <2>1, <1>1, SMTT(20)
    <3> QED BY <3>1, <1>1
  <2>2. CASE T # {}
    <3>0. T \in SUBSET Nat
      BY <1>1
    <3>1. PICK m \in T : \A n \in T : m <= n
      <4> HIDE DEF T
      <4> QED BY <2>2, LeastNumber, <3>0
    <3>2. Good(m)
      BY <3>1, <1>2, <1>1
    <3> QED BY <3>1, <3>2, <1>1
  <2> QED BY <2>1, <2>2
<1> DEFINE from == CHOOSE n \in 1..(Len(s) + 1) : \A i \in DOMAIN s : i >= n <=> s[i] >= t \/ s[i] = p
<1>4. from \in 1..(Len(s) + 1) /\ \A i \in DOMAIN s : i >= from <=> s[i] >= t \/ s[i] = p
  BY <1>1, <1>3
<1>5. retain(s, t, p) = SubSeq(s, from, Len(s))
  BY DEF retain
<1> QED BY <1>1, <1>4, <1>5

\* The parts of a record the proofs rely on stay as they are: the kept times
\* are ordered, and a time that is kept keeps its place from the end.
LEMMA RetainLemma ==
  ASSUME NEW s, NEW e, TimesOK(s, e), NEW t \in Int, NEW p \in Int,
         p # NoTime => EndsWith(s, p)
  PROVE  /\ TimesOK(retain(s, t, p), e)
         /\ Len(retain(s, t, p)) <= Len(s)
         /\ p # NoTime => EndsWith(retain(s, t, p), p)
         /\ \A r \in 1..Len(s) : s[Len(s) - r + 1] >= t \/ s[Len(s) - r + 1] = p =>
              /\ r <= Len(retain(s, t, p))
              /\ retain(s, t, p)[Len(retain(s, t, p)) - r + 1] = s[Len(s) - r + 1]
         /\ s # <<>> /\ s[1] >= t => retain(s, t, p) = s
<1>1. s \in Seq(Nat) /\ DOMAIN s = 1..Len(s) /\ Len(s) \in Nat /\ \A i \in 1..Len(s) : s[i] \in Nat
  BY DEF TimesOK
<1>2. PICK n \in 1..(Len(s) + 1) :
        /\ retain(s, t, p) = SubSeq(s, n, Len(s))
        /\ \A i \in 1..Len(s) : i >= n <=> s[i] >= t \/ s[i] = p
  BY RetainIsATail
<1> DEFINE q == SubSeq(s, n, Len(s))
<1>3. q \in Seq(Nat) /\ Len(q) = Len(s) - n + 1 /\ \A i \in 1..Len(q) : q[i] = s[n + i - 1]
  <2>1. n \in Int /\ Len(s) \in Int /\ \A i \in n..Len(s) : s[i] \in Nat
    BY <1>1
  <2>2. /\ q \in Seq(Nat)
        /\ Len(q) = IF n <= Len(s) THEN Len(s) - n + 1 ELSE 0
        /\ \A i \in 1..(Len(s) - n + 1) : q[i] = s[n + i - 1]
    BY <2>1, SubSeqProperties
  <2> QED BY <2>2, <1>1
<1> HIDE DEF q
<1>4. TimesOK(q, e)
  <2>1. \A i \in 1..Len(q) : n + i - 1 \in 1..Len(s)
    BY <1>1, <1>3
  <2>2. Sorted(q)
    <3> SUFFICES ASSUME NEW i \in 1..Len(q), NEW j \in 1..Len(q), i <= j
                 PROVE  q[i] <= q[j]
      BY DEF Sorted
    <3>1. n + i - 1 \in 1..Len(s) /\ n + j - 1 \in 1..Len(s) /\ n + i - 1 <= n + j - 1
      BY <2>1, <1>3
    <3>2. s[n + i - 1] <= s[n + j - 1]
      BY <3>1 DEF TimesOK, Sorted
    <3> QED BY <3>2, <1>3
  <2>3. \A i \in 1..Len(q) : q[i] <= e
    BY <1>3, <2>1 DEF TimesOK
  <2> QED BY <1>3, <2>2, <2>3 DEF TimesOK
<1>5. p # NoTime => EndsWith(q, p)
  <2> SUFFICES ASSUME p # NoTime PROVE EndsWith(q, p)
    OBVIOUS
  <2>1. Len(s) >= 1 /\ s[Len(s)] = p
    BY <1>1 DEF EndsWith
  <2>2. Len(s) >= n
    BY <2>1, <1>1, <1>2
  <2>3. Len(q) >= 1 /\ Len(q) \in 1..Len(q) /\ n + Len(q) - 1 = Len(s)
    BY <2>1, <2>2, <1>1, <1>3
  <2>4. q[Len(q)] = p
    BY <2>1, <2>3, <1>3
  <2> QED BY <2>3, <2>4, <1>3 DEF EndsWith
<1>6. \A r \in 1..Len(s) : s[Len(s) - r + 1] >= t \/ s[Len(s) - r + 1] = p =>
        r <= Len(q) /\ q[Len(q) - r + 1] = s[Len(s) - r + 1]
  <2> SUFFICES ASSUME NEW r \in 1..Len(s), s[Len(s) - r + 1] >= t \/ s[Len(s) - r + 1] = p
               PROVE  r <= Len(q) /\ q[Len(q) - r + 1] = s[Len(s) - r + 1]
    OBVIOUS
  <2>1. Len(s) - r + 1 \in 1..Len(s)
    BY <1>1
  <2>2. Len(s) - r + 1 >= n
    BY <2>1, <1>2
  <2>3. r <= Len(q)
    BY <2>2, <1>1, <1>3
  <2>4. Len(q) - r + 1 \in 1..Len(q) /\ n + (Len(q) - r + 1) - 1 = Len(s) - r + 1
    BY <2>3, <1>1, <1>3, SMTT(20)
  <2> QED BY <2>3, <2>4, <1>3
<1>7. s # <<>> /\ s[1] >= t => q = s
  <2> SUFFICES ASSUME s # <<>>, s[1] >= t PROVE q = s
    OBVIOUS
  <2>1. Len(s) >= 1
    BY <1>1
  <2>2. 1 >= n
    BY <2>1, <1>1, <1>2
  <2>3. n = 1
    BY <2>2
  <2> QED BY <2>3, <1>1, SubSeqFull DEF q
<1>8. Len(q) <= Len(s)
  BY <1>1, <1>3
<1>9. retain(s, t, p) = q
  BY <1>2 DEF q
<1> QED BY <1>4, <1>5, <1>6, <1>7, <1>8, <1>9

\* Moving the last time on to the present.
LEMMA MovedLastLemma ==
  ASSUME NEW s, NEW e \in Nat, TimesOK(s, e), s # <<>>
  PROVE  /\ TimesOK(MovedLast(s, e), e)
         /\ Len(MovedLast(s, e)) = Len(s)
         /\ EndsWith(MovedLast(s, e), e)
         /\ \A i \in 1..Len(s) : MovedLast(s, e)[i] >= s[i]
<1> DEFINE q == [s EXCEPT ![Len(s)] = e]
<1>1. s \in Seq(Nat) /\ Len(s) \in Nat /\ Len(s) >= 1 /\ \A i \in 1..Len(s) : s[i] \in Nat
  BY DEF TimesOK
<1>2. MovedLast(s, e) = q
  BY DEF MovedLast
<1>3. q \in Seq(Nat) /\ Len(q) = Len(s)
  BY <1>1
<1>4. \A i \in 1..Len(s) : q[i] = IF i = Len(s) THEN e ELSE s[i]
  BY <1>1
<1> HIDE DEF q
<1>5. \A i \in 1..Len(s) : s[i] <= e
  BY DEF TimesOK
<1>6. Sorted(q)
  BY <1>1, <1>3, <1>4, <1>5 DEF Sorted, TimesOK
<1>7. TimesOK(q, e)
  BY <1>1, <1>3, <1>4, <1>5, <1>6 DEF TimesOK
<1>8. EndsWith(q, e)
  BY <1>1, <1>3, <1>4 DEF EndsWith
<1>9. \A i \in 1..Len(s) : q[i] >= s[i]
  BY <1>1, <1>4, <1>5
<1> QED BY <1>2, <1>3, <1>7, <1>8, <1>9

\* Taking the last time back.
LEMMA WithoutLastLemma ==
  ASSUME NEW s, NEW e, TimesOK(s, e), NEW p, EndsWith(s, p)
  PROVE  /\ TimesOK(WithoutLast(s, p), e)
         /\ Len(WithoutLast(s, p)) = Len(s) - 1
         /\ \A i \in 1..(Len(s) - 1) : WithoutLast(s, p)[i] = s[i]
<1>1. s \in Seq(Nat) /\ Len(s) \in Nat /\ Len(s) >= 1 /\ \A i \in 1..Len(s) : s[i] \in Nat
  BY DEF TimesOK, EndsWith
<1> DEFINE q == SubSeq(s, 1, Len(s) - 1)
<1>2. WithoutLast(s, p) = q
  BY DEF WithoutLast, EndsWith, Last, Front
<1>3. q \in Seq(Nat) /\ Len(q) = Len(s) - 1 /\ \A i \in 1..(Len(s) - 1) : q[i] = s[i]
  <2>1. \A i \in 1..(Len(s) - 1) : s[i] \in Nat
    BY <1>1
  <2>2. /\ q \in Seq(Nat)
        /\ Len(q) = IF 1 <= Len(s) - 1 THEN Len(s) - 1 - 1 + 1 ELSE 0
        /\ \A i \in 1..(Len(s) - 1 - 1 + 1) : q[i] = s[1 + i - 1]
    BY <2>1, <1>1, SubSeqProperties
  <2>3. \A i \in 1..(Len(s) - 1) : 1 + i - 1 = i /\ i \in 1..(Len(s) - 1 - 1 + 1)
    BY <1>1
  <2>4. \A i \in 1..(Len(s) - 1) : q[i] = s[i]
    <3> HIDE DEF q
    <3> QED BY <2>2, <2>3
  <2>5. Len(q) = Len(s) - 1
    <3>1. CASE ~(1 <= Len(s) - 1)
      <4>1. Len(s) \in Nat /\ Len(s) >= 1
        BY <1>1
      <4>2. \A n \in Nat : n >= 1 /\ ~(1 <= n - 1) => n - 1 = 0
        OBVIOUS
      <4>3. Len(s) - 1 = 0
        BY <4>1, <4>2, <3>1
      <4> HIDE DEF q
      <4> QED BY <2>2, <3>1, <4>3
    <3>2. CASE 1 <= Len(s) - 1
      <4>1. 1 <= Len(s) - 1 /\ Len(s) - 1 - 1 + 1 = Len(s) - 1
        BY <3>2, <1>1
      <4> HIDE DEF q
      <4> QED BY <2>2, <4>1
    <3> QED BY <3>1, <3>2
  <2> QED BY <2>2, <2>4, <2>5
<1> HIDE DEF q
<1>4. TimesOK(q, e)
  <2>1. \A i \in 1..Len(q) : i \in 1..Len(s) /\ q[i] = s[i]
    BY <1>1, <1>3
  <2>2. Sorted(q)
    BY <2>1 DEF TimesOK, Sorted
  <2>3. \A i \in 1..Len(q) : q[i] <= e
    BY <2>1 DEF TimesOK
  <2> QED BY <1>3, <2>2, <2>3 DEF TimesOK
<1> QED BY <1>2, <1>3, <1>4

\* Counting one more.
LEMMA AppendLemma ==
  ASSUME NEW s, NEW e \in Nat, TimesOK(s, e)
  PROVE  /\ TimesOK(Append(s, e), e)
         /\ Len(Append(s, e)) = Len(s) + 1
         /\ EndsWith(Append(s, e), e)
         /\ \A i \in 1..Len(s) : Append(s, e)[i] = s[i]
<1>1. s \in Seq(Nat) /\ Len(s) \in Nat /\ \A i \in 1..Len(s) : s[i] \in Nat
  BY DEF TimesOK
<1> DEFINE q == Append(s, e)
<1>2. q \in Seq(Nat) /\ Len(q) = Len(s) + 1 /\ q[Len(s) + 1] = e /\ \A i \in 1..Len(s) : q[i] = s[i]
  BY <1>1
<1> HIDE DEF q
<1>3. \A i \in 1..Len(s) : s[i] <= e
  BY DEF TimesOK
<1>4. TimesOK(q, e)
  BY <1>1, <1>2, <1>3, SMTT(20) DEF TimesOK, Sorted
<1>5. EndsWith(q, e)
  BY <1>1, <1>2 DEF EndsWith
<1> QED BY <1>2, <1>4, <1>5 DEF q

\* After a restart every time is the present.
LEMMA FilledLemma ==
  ASSUME NEW s \in Seq(Nat), Elapsed \in Nat
  PROVE  /\ TimesOK(Filled(s), Elapsed)
         /\ Len(Filled(s)) = Len(s)
         /\ \A i \in 1..Len(s) : Filled(s)[i] = Elapsed
         /\ s # <<>> => EndsWith(Filled(s), Elapsed)
<1>1. DOMAIN s = 1..Len(s) /\ Len(s) \in Nat
  OBVIOUS
<1>2. Filled(s) = [i \in 1..Len(s) |-> Elapsed]
  BY <1>1 DEF Filled
<1>3. Filled(s) \in Seq(Nat) /\ Len(Filled(s)) = Len(s) /\ \A i \in 1..Len(s) : Filled(s)[i] = Elapsed
  BY <1>1, <1>2
<1>4. TimesOK(Filled(s), Elapsed)
  BY <1>3, <1>1 DEF TimesOK, Sorted
<1>5. s # <<>> => EndsWith(Filled(s), Elapsed)
  BY <1>1, <1>3 DEF EndsWith
<1> QED BY <1>3, <1>4, <1>5

\* Times not after d are not after a later e.
LEMMA TimesLater ==
  ASSUME NEW s, NEW d \in Int, NEW e \in Int, d <= e, TimesOK(s, d)
  PROVE  TimesOK(s, e)
<1>1. \A i \in 1..Len(s) : s[i] \in Nat
  BY DEF TimesOK
<1> QED BY <1>1 DEF TimesOK

-----------------------------------------------------------------------------
(* The fields each transition of the record leaves.                         *)

\* The fields prune leaves, one by one.
LEMMA PruneFields ==
  ASSUME NEW t, DOMAIN t = Fields
  PROVE  /\ DOMAIN prune(t) = Fields
         /\ prune(t).empty = t.empty /\ prune(t).boot = t.boot
         /\ prune(t).last_send = t.last_send /\ prune(t).pending = t.pending
         /\ prune(t).key = t.key
         /\ prune(t).sends = [k \in Keys |-> retain(t.sends[k], Elapsed - Day + 1,
                                                    IF k = t.key THEN t.pending ELSE NoTime)]
         /\ prune(t).daily = retain(t.daily, Elapsed - Day + 1, t.pending)
         /\ prune(t).refusals = retain(t.refusals, Elapsed - RefusalWindow + 1, NoTime)
         /\ prune(t).rate_limits = retain(t.rate_limits, Elapsed - RefusalWindow, NoTime)
         /\ prune(t).closed = IF t.closed <= Elapsed THEN NoTime ELSE t.closed
         /\ prune(t).reason = IF t.closed <= Elapsed THEN "none" ELSE t.reason
         /\ prune(t).paused = IF t.paused <= Elapsed THEN NoTime ELSE t.paused
         /\ prune(t).paused_for = IF t.paused <= Elapsed THEN NoTime ELSE t.paused_for
         /\ prune(t).boot_wait = IF t.boot_wait <= Elapsed THEN NoTime ELSE t.boot_wait
BY DEF prune, Fields

\* The fields move_pending_to leaves.
LEMMA MoveFields ==
  ASSUME NEW t, DOMAIN t = Fields, DOMAIN t.sends = Keys, t.key \in Keys, t.pending # NoTime,
         t.pending <= Elapsed, t.pending \in Int, Elapsed \in Int
  PROVE  /\ DOMAIN move_pending_to(t) = Fields
         /\ move_pending_to(t).empty = t.empty /\ move_pending_to(t).boot = t.boot
         /\ move_pending_to(t).closed = t.closed /\ move_pending_to(t).reason = t.reason
         /\ move_pending_to(t).paused = t.paused
         /\ move_pending_to(t).paused_for = t.paused_for
         /\ move_pending_to(t).refusals = t.refusals
         /\ move_pending_to(t).rate_limits = t.rate_limits
         /\ move_pending_to(t).boot_wait = t.boot_wait /\ move_pending_to(t).key = t.key
         /\ move_pending_to(t).sends =
              [t.sends EXCEPT ![t.key] = MovedLast(t.sends[t.key], Elapsed)]
         /\ move_pending_to(t).daily = MovedLast(t.daily, Elapsed)
         /\ move_pending_to(t).last_send = Larger(t.last_send, Elapsed)
         /\ move_pending_to(t).pending = Elapsed
<1>1. Larger(t.pending, Elapsed) = Elapsed
  BY DEF Larger
<1> QED BY <1>1 DEF move_pending_to, Fields

\* The fields rollback_pending leaves.
LEMMA RollbackFields ==
  ASSUME NEW t, DOMAIN t = Fields, DOMAIN t.sends = Keys, t.key \in Keys, t.pending # NoTime
  PROVE  /\ DOMAIN rollback_pending(t) = Fields
         /\ rollback_pending(t).empty = t.empty /\ rollback_pending(t).boot = t.boot
         /\ rollback_pending(t).last_send = t.last_send
         /\ rollback_pending(t).closed = t.closed
         /\ rollback_pending(t).reason = t.reason
         /\ rollback_pending(t).paused = t.paused
         /\ rollback_pending(t).paused_for = t.paused_for
         /\ rollback_pending(t).refusals = t.refusals
         /\ rollback_pending(t).rate_limits = t.rate_limits
         /\ rollback_pending(t).boot_wait = t.boot_wait
         /\ rollback_pending(t).sends =
              [t.sends EXCEPT ![t.key] = WithoutLast(t.sends[t.key], t.pending)]
         /\ rollback_pending(t).daily = WithoutLast(t.daily, t.pending)
         /\ rollback_pending(t).pending = NoTime
         /\ rollback_pending(t).key = NoKey
BY DEF rollback_pending, Fields

\* The fields of a record whose attempt is resolved.
LEMMA ResolvedFields ==
  ASSUME NEW t, DOMAIN t = Fields
  PROVE  /\ DOMAIN Resolved(t) = Fields
         /\ Resolved(t).empty = t.empty /\ Resolved(t).boot = t.boot
         /\ Resolved(t).last_send = t.last_send /\ Resolved(t).daily = t.daily
         /\ Resolved(t).closed = t.closed /\ Resolved(t).reason = t.reason
         /\ Resolved(t).paused = t.paused /\ Resolved(t).paused_for = t.paused_for
         /\ Resolved(t).refusals = t.refusals /\ Resolved(t).rate_limits = t.rate_limits
         /\ Resolved(t).boot_wait = t.boot_wait /\ Resolved(t).sends = t.sends
         /\ Resolved(t).pending = NoTime
         /\ Resolved(t).key = NoKey
BY DEF Resolved, Fields

\* The fields of a record that is closed.
LEMMA ClosedFields ==
  ASSUME NEW t, DOMAIN t = Fields, NEW until, NEW reason
  PROVE  /\ DOMAIN Closed(t, until, reason) = Fields
         /\ Closed(t, until, reason).empty = t.empty
         /\ Closed(t, until, reason).boot = t.boot
         /\ Closed(t, until, reason).last_send = t.last_send
         /\ Closed(t, until, reason).daily = t.daily
         /\ Closed(t, until, reason).paused = t.paused
         /\ Closed(t, until, reason).paused_for = t.paused_for
         /\ Closed(t, until, reason).refusals = t.refusals
         /\ Closed(t, until, reason).rate_limits = t.rate_limits
         /\ Closed(t, until, reason).boot_wait = t.boot_wait
         /\ Closed(t, until, reason).pending = t.pending
         /\ Closed(t, until, reason).key = t.key
         /\ Closed(t, until, reason).sends = t.sends
         /\ Closed(t, until, reason).closed = Larger(t.closed, until)
         /\ Closed(t, until, reason).reason = reason
BY DEF Closed, Fields

\* The fields of a record a send is counted in.
LEMMA SentFields ==
  ASSUME NEW t, DOMAIN t = Fields, NEW k \in Keys, DOMAIN t.sends = Keys
  PROVE  /\ DOMAIN Sent(t, k) = Fields
         /\ Sent(t, k).empty = t.empty /\ Sent(t, k).boot = t.boot
         /\ Sent(t, k).last_send = t.last_send /\ Sent(t, k).closed = t.closed
         /\ Sent(t, k).reason = t.reason /\ Sent(t, k).paused = t.paused
         /\ Sent(t, k).paused_for = t.paused_for /\ Sent(t, k).refusals = t.refusals
         /\ Sent(t, k).rate_limits = t.rate_limits
         /\ Sent(t, k).sends = [t.sends EXCEPT ![k] = Append(t.sends[k], Elapsed)]
         /\ Sent(t, k).daily = Append(t.daily, Elapsed)
         /\ Sent(t, k).boot_wait = NoTime
         /\ Sent(t, k).pending = Elapsed
         /\ Sent(t, k).key = k
BY DEF Sent, Fields

-----------------------------------------------------------------------------
(* How the backing of a departure survives the changes of a sequence.       *)

\* Pruning forgets no time that backs a departure of the last day.
LEMMA BackedRetain ==
  ASSUME NEW s, NEW e, TimesOK(s, e), NEW p \in Int, p # NoTime => EndsWith(s, p),
         NEW r \in Nat \ {0}, NEW a \in Int, NEW x \in Int, NEW w \in {0, 1}, NEW t \in Int,
         w = 1 => p # NoTime, x >= t + a, Backed(s, r, a, x, w)
  PROVE  Backed(retain(s, t, p), r, a, x, w)
<1>1. s \in Seq(Nat) /\ Len(s) \in Nat /\ \A i \in 1..Len(s) : s[i] \in Nat
  BY DEF TimesOK
<1>2. r \in 1..Len(s) /\ Len(s) - r + 1 \in 1..Len(s)
  BY <1>1 DEF Backed
<1>3. s[Len(s) - r + 1] \in Nat
  BY <1>1, <1>2
<1>4. s[Len(s) - r + 1] >= t \/ s[Len(s) - r + 1] = p
  <2>1. CASE s[Len(s) - r + 1] + a >= x
    BY <2>1, <1>3
  <2>2. CASE r <= w
    <3>1. Len(s) - r + 1 = Len(s)
      BY <2>2, <1>1
    <3> QED BY <2>2, <3>1 DEF EndsWith
  <2> QED BY <2>1, <2>2 DEF Backed
<1>5. /\ r <= Len(retain(s, t, p))
      /\ retain(s, t, p)[Len(retain(s, t, p)) - r + 1] = s[Len(s) - r + 1]
  BY <1>2, <1>4, RetainLemma
<1> QED BY <1>5 DEF Backed

\* Once the last time is the present it backs any departure so far.
LEMMA BackedMoved ==
  ASSUME NEW s, NEW e \in Nat, TimesOK(s, e), s # <<>>,
         NEW r \in Nat \ {0}, NEW a \in Int, NEW x \in Int, NEW w \in {0, 1},
         x <= e + a, Backed(s, r, a, x, w)
  PROVE  Backed(MovedLast(s, e), r, a, x, 0)
<1> DEFINE q == MovedLast(s, e)
<1>1. s \in Seq(Nat) /\ Len(s) \in Nat /\ \A i \in 1..Len(s) : s[i] \in Nat
  BY DEF TimesOK
<1>2. Len(s) - r + 1 \in 1..Len(s)
  BY <1>1 DEF Backed
<1>3. Len(q) = Len(s) /\ q \in Seq(Nat) /\ q[Len(s)] = e /\ \A i \in 1..Len(s) : q[i] >= s[i]
  BY MovedLastLemma DEF TimesOK, EndsWith
<1> HIDE DEF q
<1>4. q[Len(s) - r + 1] \in Nat
  BY <1>1, <1>2, <1>3, SMTT(20)
<1>5. q[Len(s) - r + 1] + a >= x
  <2>1. CASE s[Len(s) - r + 1] + a >= x
    <3>1. q[Len(s) - r + 1] >= s[Len(s) - r + 1] /\ s[Len(s) - r + 1] \in Nat
      BY <1>1, <1>2, <1>3
    <3> QED BY <2>1, <3>1, <1>4
  <2>2. CASE r <= w
    <3>1. Len(s) - r + 1 = Len(s)
      BY <2>2, <1>1
    <3> QED BY <3>1, <1>3
  <2> QED BY <2>1, <2>2 DEF Backed
<1>6. r <= Len(q) /\ q[Len(q) - r + 1] + a >= x
  BY <1>3, <1>5 DEF Backed
<1> QED BY <1>6 DEF Backed, q

\* The time after one that backs a departure backs it as well.
LEMMA BackedLess ==
  ASSUME NEW s, NEW e, TimesOK(s, e), NEW r \in Nat \ {0}, NEW a \in Int, NEW x \in Int,
         Backed(s, r + 1, a, x, 0)
  PROVE  Backed(s, r, a, x, 0)
<1>1. s \in Seq(Nat) /\ Len(s) \in Nat /\ \A i \in 1..Len(s) : s[i] \in Nat
  BY DEF TimesOK
<1>2. /\ r + 1 <= Len(s) /\ s[Len(s) - (r + 1) + 1] + a >= x
  BY DEF Backed
<1>3. Len(s) - (r + 1) + 1 \in 1..Len(s) /\ Len(s) - r + 1 \in 1..Len(s)
      /\ Len(s) - (r + 1) + 1 <= Len(s) - r + 1
  BY <1>1, <1>2
<1>4. s[Len(s) - (r + 1) + 1] <= s[Len(s) - r + 1]
  BY <1>3 DEF TimesOK, Sorted
<1>5. s[Len(s) - (r + 1) + 1] \in Nat /\ s[Len(s) - r + 1] \in Nat
  BY <1>1, <1>3
<1>6. s[Len(s) - r + 1] + a >= x
  BY <1>2, <1>4, <1>5
<1>7. r <= Len(s)
  BY <1>1, <1>2
<1> QED BY <1>6, <1>7 DEF Backed

\* A departure keeps its time when an attempt that never left is taken back.
LEMMA BackedWithoutLast ==
  ASSUME NEW s, NEW e, TimesOK(s, e), NEW p, EndsWith(s, p),
         NEW r \in Nat \ {0}, NEW a \in Int, NEW x \in Int, Backed(s, r + 1, a, x, 0)
  PROVE  Backed(WithoutLast(s, p), r, a, x, 0)
<1> DEFINE q == WithoutLast(s, p)
<1>1. s \in Seq(Nat) /\ Len(s) \in Nat
  BY DEF TimesOK
<1>2. Len(q) = Len(s) - 1 /\ \A i \in 1..(Len(s) - 1) : q[i] = s[i]
  BY WithoutLastLemma
<1> HIDE DEF q
<1>3. r + 1 <= Len(s) /\ s[Len(s) - (r + 1) + 1] + a >= x
  BY DEF Backed
<1>4. /\ r <= Len(q) /\ Len(q) - r + 1 \in 1..(Len(s) - 1)
      /\ Len(q) - r + 1 = Len(s) - (r + 1) + 1
  BY <1>1, <1>2, <1>3
<1>5. q[Len(q) - r + 1] = s[Len(s) - (r + 1) + 1]
  BY <1>2, <1>4
<1> QED BY <1>3, <1>4, <1>5 DEF Backed, q

\* A departure keeps its time when one more attempt is counted.
LEMMA BackedAppend ==
  ASSUME NEW s, NEW e \in Nat, TimesOK(s, e),
         NEW r \in Nat \ {0}, NEW a \in Int, NEW x \in Int, Backed(s, r, a, x, 0)
  PROVE  Backed(Append(s, e), r + 1, a, x, 0)
<1> DEFINE q == Append(s, e)
<1>1. s \in Seq(Nat) /\ Len(s) \in Nat
  BY DEF TimesOK
<1>2. Len(q) = Len(s) + 1 /\ \A i \in 1..Len(s) : q[i] = s[i]
  BY AppendLemma
<1> HIDE DEF q
<1>3. r <= Len(s) /\ s[Len(s) - r + 1] + a >= x
  BY DEF Backed
<1>4. /\ r + 1 <= Len(q) /\ Len(q) - (r + 1) + 1 \in 1..Len(s)
      /\ Len(q) - (r + 1) + 1 = Len(s) - r + 1
  BY <1>1, <1>2, <1>3
<1>5. q[Len(q) - (r + 1) + 1] = s[Len(s) - r + 1]
  BY <1>2, <1>4
<1> QED BY <1>3, <1>4, <1>5 DEF Backed, q

\* Times that are all the present back every departure there is one for.
LEMMA BackedFilled ==
  ASSUME NEW s \in Seq(Nat), Elapsed \in Nat, NEW r \in Nat \ {0}, NEW a \in Int, NEW x \in Int,
         r <= Len(s), x <= Elapsed + a
  PROVE  Backed(Filled(s), r, a, x, 0)
<1> DEFINE q == Filled(s)
<1>1. Len(s) \in Nat
  OBVIOUS
<1>2. Len(q) = Len(s) /\ \A i \in 1..Len(s) : q[i] = Elapsed
  BY FilledLemma
<1> HIDE DEF q
<1>3. r <= Len(q) /\ Len(q) - r + 1 \in 1..Len(s)
  BY <1>1, <1>2
<1>4. q[Len(q) - r + 1] + a >= x
  BY <1>2, <1>3
<1> QED BY <1>3, <1>4 DEF Backed, q

\* There is at least one departure from the i-th on, and of its method.
LEMMA RankType ==
  ASSUME NEW s, NEW n, SeenOK(s, n), NEW i \in 1..Len(s)
  PROVE  /\ Rank(s, i) \in Nat \ {0}
         /\ RankOfKey(s, i) \in Nat \ {0}
         /\ IsFiniteSet(OfKeyFrom(s, i))
<1>1. s \in Seq(Departure) /\ Len(s) \in Nat
  BY DEF SeenOK
<1>2. Rank(s, i) \in Nat \ {0}
  BY <1>1 DEF Rank
<1>3. IsFiniteSet(1..Len(s))
  BY <1>1, FS_Interval
<1>4. OfKeyFrom(s, i) \in SUBSET (1..Len(s)) /\ i \in OfKeyFrom(s, i)
  BY <1>1 DEF OfKeyFrom
<1>5. IsFiniteSet(OfKeyFrom(s, i))
  BY <1>3, <1>4, FS_Subset
<1>6. Cardinality(OfKeyFrom(s, i)) \in Nat
  BY <1>5, FS_CardinalityType
<1>7. Cardinality(OfKeyFrom(s, i)) # 0
  BY <1>4, <1>5, FS_EmptySet
<1> QED BY <1>2, <1>5, <1>6, <1>7 DEF RankOfKey

-----------------------------------------------------------------------------
(* The transitions of the record, in the present setting.                   *)

Setting == World(now, boot, seen, told, faults)

Core(t, off, w) ==
  /\ Rec(t, Elapsed)
  /\ Sound(t, off, w, now, boot.at, seen)
  /\ off \in {0, 1} /\ w \in {0, 1}
  /\ w = 1 => off = 0 /\ t.pending # NoTime
  /\ off = 1 => t.pending # NoTime

Calm(t) == Quiet(t, now, boot.at, seen, told)

\* What TimesAreOrdered says of each constant.
LEMMA Constants ==
  /\ Spacing \in Nat \ {0} /\ Pause \in Nat \ {0} /\ FirstSendWait \in Nat \ {0}
  /\ UnresolvedAttempt \in Nat \ {0} /\ RefusalWindow \in Nat \ {0}
  /\ Closure \in Nat \ {0} /\ UnresolvedClosure \in Nat \ {0} /\ Day \in Nat \ {0}
  /\ DailyCeiling \in Nat \ {0} /\ BudgetLimit \in Nat \ {0} /\ BudgetWindow \in Nat \ {0}
  /\ Pause = FirstSendWait /\ Pause < UnresolvedAttempt /\ UnresolvedAttempt <= Closure
  /\ Closure <= UnresolvedClosure /\ UnresolvedClosure < Day /\ UnresolvedAttempt < Day
  /\ Pause < Day /\ Closure < Day /\ Pause <= Closure /\ Pause <= UnresolvedClosure
  /\ Spacing <= Pause /\ BudgetWindow <= Day
  /\ MaxTime \in Nat /\ MaxFaults \in Nat
<1>1. /\ Spacing \in Nat \ {0} /\ Pause \in Nat \ {0} /\ FirstSendWait \in Nat \ {0}
      /\ UnresolvedAttempt \in Nat \ {0} /\ RefusalWindow \in Nat \ {0}
      /\ Closure \in Nat \ {0} /\ UnresolvedClosure \in Nat \ {0} /\ Day \in Nat \ {0}
      /\ DailyCeiling \in Nat \ {0} /\ BudgetLimit \in Nat \ {0} /\ BudgetWindow \in Nat \ {0}
  BY TimesAreOrdered
<1> QED BY <1>1, TimesAreOrdered

\* What the time, the boot and the departures are, from the invariant's World.
LEMMA SettingFacts ==
  ASSUME Setting
  PROVE  /\ now \in Nat /\ now <= MaxTime /\ boot.at \in Nat
         /\ Elapsed \in Nat /\ Elapsed <= MaxTime
         /\ Elapsed = now - boot.at /\ now = Elapsed + boot.at
         /\ SeenOK(seen, now) /\ seen \in Seq(Departure) /\ Len(seen) \in Nat
         /\ \A i \in 1..Len(seen) : seen[i].at \in Nat /\ seen[i].at <= now
                                    /\ seen[i].key \in Keys /\ seen[i].key # NoKey
<1>1. now \in Nat /\ now <= MaxTime /\ boot.at \in 0..now /\ SeenOK(seen, now)
  BY Constants DEF Setting, World
<1>2. seen \in Seq(Departure) /\ Len(seen) \in Nat
  BY <1>1 DEF SeenOK
<1>3. \A i \in 1..Len(seen) : seen[i] \in Departure /\ seen[i].at <= now
  BY <1>1, <1>2 DEF SeenOK
<1>4. \A i \in 1..Len(seen) : seen[i].at \in Nat /\ seen[i].key \in Keys /\ seen[i].key # NoKey
  BY <1>3, NoKeyIsNoMethod DEF Departure
<1>5. Elapsed \in Nat /\ Elapsed <= MaxTime /\ Elapsed = now - boot.at /\ now = Elapsed + boot.at
  BY <1>1, Constants DEF Elapsed
<1> QED BY <1>1, <1>2, <1>3, <1>4, <1>5

\* A pruned record is a record, with the same attempt pending.
LEMMA PruneRec ==
  ASSUME Setting, NEW t, Rec(t, Elapsed)
  PROVE  /\ Rec(prune(t), Elapsed)
         /\ prune(t).pending = t.pending /\ prune(t).key = t.key /\ prune(t).boot = t.boot
         /\ prune(t).last_send = t.last_send
<1> DEFINE u == prune(t)
<1>1. Elapsed \in Nat /\ Day \in Nat /\ RefusalWindow \in Nat
  BY SettingFacts, Constants
<1>2. DOMAIN t = Fields
  BY DEF Rec
<1>3. /\ DOMAIN u = Fields /\ u.empty = t.empty /\ u.boot = t.boot
      /\ u.last_send = t.last_send /\ u.pending = t.pending /\ u.key = t.key
  BY <1>2, PruneFields
<1>4. t.pending \in Int /\ (t.pending # NoTime => EndsWith(t.daily, t.pending))
  BY <1>1 DEF Rec, NoTime
<1>5. /\ TimesOK(u.daily, Elapsed) /\ Len(u.daily) <= DailyCeiling
      /\ t.pending # NoTime => EndsWith(u.daily, t.pending)
  <2>1. u.daily = retain(t.daily, Elapsed - Day + 1, t.pending)
    BY <1>2, PruneFields
  <2>2. /\ TimesOK(u.daily, Elapsed) /\ Len(u.daily) <= Len(t.daily)
        /\ t.pending # NoTime => EndsWith(u.daily, t.pending)
    BY <2>1, <1>1, <1>4, RetainLemma DEF Rec
  <2>3. Len(u.daily) \in Nat /\ Len(t.daily) \in Nat /\ Len(t.daily) <= DailyCeiling
    BY <2>2 DEF TimesOK, Rec
  <2> QED BY <2>2, <2>3, Constants
<1>6. /\ DOMAIN u.sends = Keys
      /\ \A k \in Keys : /\ TimesOK(u.sends[k], Elapsed)
                         /\ k = t.key /\ t.pending # NoTime => EndsWith(u.sends[k], t.pending)
  <2>1. u.sends = [k \in Keys |-> retain(t.sends[k], Elapsed - Day + 1,
                                         IF k = t.key THEN t.pending ELSE NoTime)]
    BY <1>2, PruneFields
  <2> SUFFICES ASSUME NEW k \in Keys
               PROVE  /\ TimesOK(u.sends[k], Elapsed)
                      /\ k = t.key /\ t.pending # NoTime => EndsWith(u.sends[k], t.pending)
    BY <2>1
  <2> DEFINE p == IF k = t.key THEN t.pending ELSE NoTime
  <2>2. u.sends[k] = retain(t.sends[k], Elapsed - Day + 1, p)
    BY <2>1
  <2>3. TimesOK(t.sends[k], Elapsed) /\ p \in Int /\ (p # NoTime => EndsWith(t.sends[k], p))
    BY <1>4 DEF Rec, NoTime
  <2>4. k = t.key => p = t.pending
    OBVIOUS
  <2> DEFINE c == Elapsed - Day + 1
  <2>41. c \in Int /\ u.sends[k] = retain(t.sends[k], c, p)
    BY <1>1, <2>2
  <2> HIDE DEF p, c, u
  <2>5. TimesOK(u.sends[k], Elapsed) /\ (p # NoTime => EndsWith(u.sends[k], p))
    BY <2>3, <2>41, RetainLemma
  <2> QED BY <2>4, <2>5
<1>7. TimesOK(u.refusals, Elapsed) /\ TimesOK(u.rate_limits, Elapsed)
  <2>1. /\ u.refusals = retain(t.refusals, Elapsed - RefusalWindow + 1, NoTime)
        /\ u.rate_limits = retain(t.rate_limits, Elapsed - RefusalWindow, NoTime)
    BY <1>2, PruneFields
  <2> QED BY <2>1, <1>1, RetainLemma DEF Rec, NoTime
<1>8. /\ {u.closed, u.paused, u.boot_wait} \subseteq {NoTime} \union 0..(Elapsed + Day)
      /\ u.paused_for \in {NoTime} \union 1..Day
      /\ u.paused # NoTime => u.paused_for # NoTime
      /\ u.reason = "none" <=> u.closed = NoTime
  <2>1. /\ u.closed = IF t.closed <= Elapsed THEN NoTime ELSE t.closed
        /\ u.reason = IF t.closed <= Elapsed THEN "none" ELSE t.reason
        /\ u.paused = IF t.paused <= Elapsed THEN NoTime ELSE t.paused
        /\ u.paused_for = IF t.paused <= Elapsed THEN NoTime ELSE t.paused_for
        /\ u.boot_wait = IF t.boot_wait <= Elapsed THEN NoTime ELSE t.boot_wait
    BY <1>2, PruneFields
  <2> HIDE DEF u
  <2> QED BY <2>1 DEF Rec
<1> HIDE DEF u
<1>9. u.pending # NoTime => EndsWith(u.sends[u.key], u.pending)
  BY <1>3, <1>6 DEF Rec
<1>10. Rec(u, Elapsed)
  BY <1>3, <1>5, <1>6, <1>7, <1>8, <1>9 DEF Rec
<1> QED BY <1>3, <1>10 DEF u

\* Times that keep a whole day full are not pruned.
LEMMA PruneFull ==
  ASSUME Setting, NEW t, Rec(t, Elapsed), NEW x \in Int, x > now - Day, Full(t, boot.at, x)
  PROVE  prune(t).daily = t.daily
<1>1. /\ Elapsed \in Nat /\ Day \in Nat /\ boot.at \in Nat /\ now = Elapsed + boot.at
      /\ DailyCeiling \in Nat \ {0}
  BY SettingFacts, Constants
<1>2. prune(t).daily = retain(t.daily, Elapsed - Day + 1, t.pending)
  BY PruneFields DEF Rec
<1>3. TimesOK(t.daily, Elapsed) /\ t.pending \in Int /\ (t.pending # NoTime => EndsWith(t.daily, t.pending))
  BY <1>1 DEF Rec, NoTime
<1>4. Len(t.daily) \in Nat \ {0} /\ t.daily \in Seq(Nat)
  BY <1>1, <1>3 DEF Full, TimesOK
<1>5. t.daily # <<>> /\ t.daily[1] \in Nat
  BY <1>4
<1>6. t.daily[1] >= Elapsed - Day + 1
  BY <1>1, <1>5 DEF Full
<1> DEFINE c == Elapsed - Day + 1
           s == t.daily
<1>7. c \in Int
  BY <1>1
<1>8. prune(t).daily = retain(s, c, t.pending) /\ s # <<>> /\ s[1] >= c
  BY <1>2, <1>5, <1>6
<1>9. TimesOK(s, Elapsed) /\ t.pending \in Int /\ (t.pending # NoTime => EndsWith(s, t.pending))
  BY <1>3
<1> HIDE DEF c, s
<1>10. retain(s, c, t.pending) = s
  BY <1>7, <1>8, <1>9, RetainLemma
<1> QED BY <1>8, <1>10 DEF s

\* prune forgets no departure of the last day.
LEMMA PruneSound ==
  ASSUME Setting, NEW t, NEW off, NEW w, Core(t, off, w)
  PROVE  Core(prune(t), off, w)
<1> DEFINE u == prune(t)
           a == boot.at
<1>1. /\ Elapsed \in Nat /\ Day \in Nat /\ a \in Nat /\ now = Elapsed + a
      /\ Elapsed - Day + 1 \in Int
  BY SettingFacts, Constants
<1>2. Rec(t, Elapsed) /\ off \in {0, 1} /\ w \in {0, 1} /\ (w = 1 => t.pending # NoTime) /\ (w = 1 => off = 0)
  BY DEF Core
<1>3. /\ Rec(u, Elapsed) /\ u.pending = t.pending /\ u.key = t.key
      /\ u.last_send = t.last_send
  BY <1>2, PruneRec
<1>4. /\ u.daily = retain(t.daily, Elapsed - Day + 1, t.pending)
      /\ u.sends = [k \in Keys |-> retain(t.sends[k], Elapsed - Day + 1,
                                         IF k = t.key THEN t.pending ELSE NoTime)]
  BY <1>2, PruneFields DEF Rec
<1> HIDE DEF u, a
<1>5. /\ TimesOK(t.daily, Elapsed) /\ t.pending \in Int
      /\ t.pending # NoTime => EndsWith(t.daily, t.pending)
      /\ \A k \in Keys : TimesOK(t.sends[k], Elapsed)
      /\ t.pending # NoTime => EndsWith(t.sends[t.key], t.pending)
  BY <1>1, <1>2 DEF Rec, NoTime
<1>6. ASSUME NEW i \in 1..Len(seen), seen[i].at > now - Day
      PROVE  /\ Backed(u.daily, Rank(seen, i) + off, a, seen[i].at, w)
             /\ \/ off = 0 /\ Full(u, a, seen[i].at)
                \/ /\ seen[i].key = u.key
                   /\ Backed(u.sends[seen[i].key], RankOfKey(seen, i) + off, a, seen[i].at, w)
                \/ /\ seen[i].key # u.key
                   /\ Backed(u.sends[seen[i].key], RankOfKey(seen, i), a, seen[i].at, 0)
  <2> DEFINE x == seen[i].at
             k == seen[i].key
  <2>0. x \in Nat /\ k \in Keys
    BY SettingFacts
  <2>1. x \in Nat /\ k \in Keys /\ x >= Elapsed - Day + 1 + a
    <3>1. x > now - Day
      BY <1>6
    <3> HIDE DEF x, k
    <3> QED BY <1>1, <2>0, <3>1
  <2>2. Rank(seen, i) \in Nat \ {0} /\ RankOfKey(seen, i) \in Nat \ {0}
    BY SettingFacts, RankType
  <2>3. Rank(seen, i) + off \in Nat \ {0} /\ RankOfKey(seen, i) + off \in Nat \ {0}
    BY <2>2, <1>2
  <2>4. /\ Backed(t.daily, Rank(seen, i) + off, a, x, w)
        /\ \/ off = 0 /\ Full(t, a, x)
           \/ k = t.key /\ Backed(t.sends[k], RankOfKey(seen, i) + off, a, x, w)
           \/ k # t.key /\ Backed(t.sends[k], RankOfKey(seen, i), a, x, 0)
    BY <1>6 DEF Core, Sound, DayBacked, KeyBacked, a
  <2> HIDE DEF x, k
  <2>5. Backed(u.daily, Rank(seen, i) + off, a, x, w)
    BY <1>1, <1>2, <1>4, <1>5, <2>1, <2>3, <2>4, BackedRetain
  <2>6. CASE off = 0 /\ Full(t, a, x)
    <3>1. u.daily = t.daily
      BY <2>6, <2>1, <1>1, <1>2, PruneFull DEF u, a
    <3> QED BY <2>6, <2>5, <3>1 DEF Full, x, k
  <2>7. CASE k = t.key /\ Backed(t.sends[k], RankOfKey(seen, i) + off, a, x, w)
    <3>1. u.sends[k] = retain(t.sends[k], Elapsed - Day + 1, t.pending)
      BY <1>4, <2>1, <2>7
    <3>2. Backed(u.sends[k], RankOfKey(seen, i) + off, a, x, w)
      BY <3>1, <1>1, <1>2, <1>5, <2>1, <2>3, <2>7, BackedRetain
    <3> QED BY <3>2, <2>5, <2>7, <1>3 DEF x, k
  <2>8. CASE k # t.key /\ Backed(t.sends[k], RankOfKey(seen, i), a, x, 0)
    <3>1. u.sends[k] = retain(t.sends[k], Elapsed - Day + 1, NoTime) /\ NoTime \in Int
      BY <1>4, <2>1, <2>8 DEF NoTime
    <3>2. Backed(u.sends[k], RankOfKey(seen, i), a, x, 0)
      BY <3>1, <1>1, <1>5, <2>1, <2>2, <2>8, BackedRetain
    <3> QED BY <3>2, <2>5, <2>8, <1>3 DEF x, k
  <2> QED BY <2>4, <2>6, <2>7, <2>8
<1>7. w = 0 => LastBacked(u, a, seen)
  BY <1>3 DEF Core, Sound, LastBacked, a
<1>8. Sound(u, off, w, now, a, seen)
  BY <1>6, <1>7 DEF Sound, DayBacked, KeyBacked
<1> QED BY <1>2, <1>3, <1>8 DEF Core, u, a

\* prune does not shorten what the record holds back.
LEMMA PruneHeld ==
  ASSUME Setting, NEW t, Rec(t, Elapsed), NEW x \in Int, Held(t, now, boot.at, x)
  PROVE  Held(prune(t), now, boot.at, x)
<1> DEFINE u == prune(t)
<1>1. /\ Elapsed \in Nat /\ Day \in Nat /\ boot.at \in Nat /\ now = Elapsed + boot.at /\ now \in Nat
      /\ DailyCeiling \in Nat \ {0}
  BY SettingFacts, Constants
<1>2. /\ u.closed = IF t.closed <= Elapsed THEN NoTime ELSE t.closed
      /\ u.paused = IF t.paused <= Elapsed THEN NoTime ELSE t.paused
      /\ u.boot_wait = IF t.boot_wait <= Elapsed THEN NoTime ELSE t.boot_wait
      /\ u.daily = retain(t.daily, Elapsed - Day + 1, t.pending)
  <2>1. DOMAIN t = Fields
    BY DEF Rec
  <2> QED BY <2>1, PruneFields
<1> HIDE DEF u
<1>3. t.closed \in Int /\ t.paused \in Int /\ t.boot_wait \in Int
  BY <1>1 DEF Rec, NoTime
<1>4. CASE x <= now
  BY <1>4 DEF Held, u
<1>5. CASE t.closed + boot.at >= x
  BY <1>1, <1>2, <1>3, <1>5 DEF Held, u
<1>6. CASE t.paused + boot.at >= x
  BY <1>1, <1>2, <1>3, <1>6 DEF Held, u
<1>7. CASE t.boot_wait + boot.at >= x
  BY <1>1, <1>2, <1>3, <1>7 DEF Held, u
<1>8. CASE Len(t.daily) >= DailyCeiling /\ t.daily[1] + boot.at + Day >= x /\ ~(x <= now)
  <2>1. TimesOK(t.daily, Elapsed) /\ t.pending \in Int /\ (t.pending # NoTime => EndsWith(t.daily, t.pending))
    BY <1>1 DEF Rec, NoTime
  <2>2. t.daily # <<>> /\ t.daily[1] \in Nat
    BY <1>1, <1>8, <2>1, SMTT(20) DEF TimesOK
  <2>3. t.daily[1] >= Elapsed - Day + 1
    BY <1>1, <1>8, <2>2
  <2>4. u.daily = t.daily
    BY <1>1, <1>2, <2>1, <2>2, <2>3, RetainLemma
  <2> QED BY <1>8, <2>4 DEF Held, u
<1> QED BY <1>4, <1>5, <1>6, <1>7, <1>8 DEF Held

\* What is held back stays held back by any record that holds all it did.
LEMMA CalmFrom ==
  ASSUME Setting, NEW t, NEW u, Calm(t),
         \A x \in Int : Held(t, now, boot.at, x) => Held(u, now, boot.at, x)
  PROVE  Calm(u)
<1>1. told \in Int /\ Pause \in Int
  BY SettingFacts, Constants, SMTT(20) DEF Setting, World, NoTime
<1>2. Silent(seen) => seen[Len(seen)].at \in Int
  BY SettingFacts DEF Silent
<1> QED BY <1>1, <1>2 DEF Calm, Quiet

\* A silence the record keeps is kept once it is pruned.
LEMMA PruneCalm ==
  ASSUME Setting, NEW t, Rec(t, Elapsed), Calm(t)
  PROVE  Calm(prune(t))
BY PruneHeld, CalmFrom

\* An attempt that was pending counts from now on: what was waived is backed.
LEMMA MoveRec ==
  ASSUME Setting, NEW t, Rec(t, Elapsed), t.pending # NoTime
  PROVE  /\ Rec(move_pending_to(t), Elapsed)
         /\ t.key \in Keys
         /\ move_pending_to(t).last_send = Elapsed /\ move_pending_to(t).pending = Elapsed
<1> DEFINE u == move_pending_to(t)
<1>1. Elapsed \in Nat /\ NoTime = -1
  BY SettingFacts DEF NoTime
<1>2. /\ DOMAIN t = Fields /\ DOMAIN t.sends = Keys /\ t.key \in Keys /\ t.key # NoKey
      /\ t.pending \in 0..Elapsed
  BY NoKeyIsNoMethod DEF Rec
<1>3. t.pending <= Elapsed /\ t.pending \in Int
  BY <1>1, <1>2
<1>4. /\ DOMAIN u = Fields /\ u.empty = t.empty /\ u.boot = t.boot
      /\ u.closed = t.closed /\ u.reason = t.reason /\ u.paused = t.paused
      /\ u.paused_for = t.paused_for /\ u.refusals = t.refusals
      /\ u.rate_limits = t.rate_limits /\ u.boot_wait = t.boot_wait /\ u.key = t.key
      /\ u.sends = [t.sends EXCEPT ![t.key] = MovedLast(t.sends[t.key], Elapsed)]
      /\ u.daily = MovedLast(t.daily, Elapsed)
      /\ u.last_send = Larger(t.last_send, Elapsed)
      /\ u.pending = Elapsed
  BY <1>1, <1>2, <1>3, MoveFields
<1> HIDE DEF u
<1>5. u.last_send = Elapsed
  BY <1>1, <1>4 DEF Rec, Larger
<1>6. /\ TimesOK(u.daily, Elapsed) /\ Len(u.daily) <= DailyCeiling /\ EndsWith(u.daily, Elapsed)
  <2>1. TimesOK(t.daily, Elapsed) /\ t.daily # <<>> /\ Len(t.daily) <= DailyCeiling
    BY DEF Rec, EndsWith
  <2> QED BY <2>1, <1>1, <1>4, MovedLastLemma
<1>7. DOMAIN u.sends = Keys /\ u.sends[t.key] = MovedLast(t.sends[t.key], Elapsed)
  BY <1>2, <1>4
<1>8. /\ \A k \in Keys : TimesOK(u.sends[k], Elapsed)
      /\ EndsWith(u.sends[t.key], Elapsed)
  <2>1. TimesOK(t.sends[t.key], Elapsed) /\ t.sends[t.key] # <<>>
    BY <1>2 DEF Rec, EndsWith
  <2>2. TimesOK(u.sends[t.key], Elapsed) /\ EndsWith(u.sends[t.key], Elapsed)
    BY <2>1, <1>1, <1>7, MovedLastLemma
  <2>3. \A k \in Keys : k # t.key => u.sends[k] = t.sends[k]
    BY <1>2, <1>4
  <2> QED BY <2>2, <2>3 DEF Rec
<1>9. /\ u.empty = FALSE /\ TimesOK(u.refusals, Elapsed) /\ TimesOK(u.rate_limits, Elapsed)
      /\ {u.closed, u.paused, u.boot_wait} \subseteq {NoTime} \union 0..(Elapsed + Day)
      /\ u.paused_for \in {NoTime} \union 1..Day
      /\ u.paused # NoTime => u.paused_for # NoTime
      /\ u.reason = "none" <=> u.closed = NoTime
  BY <1>4 DEF Rec
<1>10. u.last_send \in {NoTime} \union 0..Elapsed /\ u.pending \in {NoTime} \union 0..Elapsed
       /\ u.pending # NoTime
  BY <1>1, <1>4, <1>5
<1>11. Rec(u, Elapsed)
  BY <1>2, <1>4, <1>6, <1>7, <1>8, <1>9, <1>10 DEF Rec
<1> QED BY <1>2, <1>4, <1>5, <1>11 DEF u

\* Once the attempt is moved to the present no time is in doubt.
LEMMA MoveSound ==
  ASSUME Setting, NEW t, NEW off, NEW w, Core(t, off, w), t.pending # NoTime
  PROVE  Core(move_pending_to(t), off, 0)
<1> DEFINE u == move_pending_to(t)
           a == boot.at
<1>1. Elapsed \in Nat /\ a \in Nat /\ now = Elapsed + a /\ DailyCeiling \in Nat \ {0}
  BY SettingFacts, Constants
<1>2. Rec(t, Elapsed) /\ off \in {0, 1} /\ w \in {0, 1}
  BY DEF Core
<1>3. /\ Rec(u, Elapsed) /\ t.key \in Keys /\ u.last_send = Elapsed /\ u.pending = Elapsed
  BY <1>2, MoveRec
<1>4. /\ u.key = t.key
      /\ u.sends = [t.sends EXCEPT ![t.key] = MovedLast(t.sends[t.key], Elapsed)]
      /\ u.daily = MovedLast(t.daily, Elapsed)
  <2>1. t.pending <= Elapsed /\ t.pending \in Int /\ DOMAIN t = Fields /\ DOMAIN t.sends = Keys
    BY <1>1, <1>2 DEF Rec
  <2> QED BY <2>1, <1>1, <1>3, MoveFields
<1> HIDE DEF u, a
<1>5. /\ TimesOK(t.daily, Elapsed) /\ t.daily # <<>>
      /\ TimesOK(t.sends[t.key], Elapsed) /\ t.sends[t.key] # <<>>
  BY <1>2, <1>3 DEF Rec, EndsWith
<1>6. \A k \in Keys : u.sends[k] = IF k = t.key THEN MovedLast(t.sends[t.key], Elapsed) ELSE t.sends[k]
  BY <1>2, <1>4 DEF Rec
<1>7. ASSUME NEW i \in 1..Len(seen), seen[i].at > now - Day
      PROVE  /\ Backed(u.daily, Rank(seen, i) + off, a, seen[i].at, 0)
             /\ \/ off = 0 /\ Full(u, a, seen[i].at)
                \/ /\ seen[i].key = u.key
                   /\ Backed(u.sends[seen[i].key], RankOfKey(seen, i) + off, a, seen[i].at, 0)
                \/ /\ seen[i].key # u.key
                   /\ Backed(u.sends[seen[i].key], RankOfKey(seen, i), a, seen[i].at, 0)
  <2> DEFINE x == seen[i].at
             k == seen[i].key
  <2>0. x \in Nat /\ k \in Keys /\ x <= now
    BY SettingFacts
  <2>2. Rank(seen, i) \in Nat \ {0} /\ RankOfKey(seen, i) \in Nat \ {0}
    BY SettingFacts, RankType
  <2>3. Rank(seen, i) + off \in Nat \ {0} /\ RankOfKey(seen, i) + off \in Nat \ {0}
    BY <2>2, <1>2
  <2>4. /\ Backed(t.daily, Rank(seen, i) + off, a, x, w)
        /\ \/ off = 0 /\ Full(t, a, x)
           \/ k = t.key /\ Backed(t.sends[k], RankOfKey(seen, i) + off, a, x, w)
           \/ k # t.key /\ Backed(t.sends[k], RankOfKey(seen, i), a, x, 0)
    BY <1>7 DEF Core, Sound, DayBacked, KeyBacked, a
  <2> HIDE DEF x, k
  <2>1. x <= Elapsed + a
    BY <2>0, <1>1
  <2>5. Backed(u.daily, Rank(seen, i) + off, a, x, 0)
    BY <1>1, <1>2, <1>4, <1>5, <2>0, <2>1, <2>3, <2>4, BackedMoved
  <2>6. CASE off = 0 /\ Full(t, a, x)
    <3>1. Len(t.daily) \in Nat \ {0} /\ t.daily \in Seq(Nat) /\ t.daily[1] \in Nat
      BY <1>1, <1>5, <2>6 DEF Full, TimesOK
    <3>2. Len(u.daily) = Len(t.daily) /\ u.daily[1] >= t.daily[1] /\ u.daily \in Seq(Nat)
      BY <1>1, <1>4, <1>5, <3>1, MovedLastLemma, SMTT(20) DEF TimesOK
    <3>3. u.daily[1] \in Nat
      BY <3>1, <3>2
    <3>4. Full(u, a, x)
      BY <1>1, <2>0, <2>6, <3>1, <3>2, <3>3, SMTT(20) DEF Full
    <3> QED BY <2>6, <2>5, <3>4 DEF x, k
  <2>7. CASE k = t.key /\ Backed(t.sends[k], RankOfKey(seen, i) + off, a, x, w)
    <3>1. u.sends[k] = MovedLast(t.sends[k], Elapsed)
      BY <1>6, <2>0, <2>7
    <3>2. Backed(u.sends[k], RankOfKey(seen, i) + off, a, x, 0)
      BY <3>1, <1>1, <1>2, <1>5, <2>0, <2>1, <2>3, <2>7, BackedMoved
    <3> QED BY <3>2, <2>5, <2>7, <1>4 DEF x, k
  <2>8. CASE k # t.key /\ Backed(t.sends[k], RankOfKey(seen, i), a, x, 0)
    <3>1. u.sends[k] = t.sends[k]
      BY <1>6, <2>0, <2>8
    <3> QED BY <3>1, <2>5, <2>8, <1>4 DEF x, k
  <2> QED BY <2>4, <2>6, <2>7, <2>8
<1>8. LastBacked(u, a, seen)
  <2>1. \A i \in 1..Len(seen) : seen[i].at \in Nat /\ seen[i].at <= now
    BY SettingFacts
  <2> QED BY <2>1, <1>1, <1>3 DEF LastBacked, NoTime
<1>9. Sound(u, off, 0, now, a, seen)
  BY <1>7, <1>8 DEF Sound, DayBacked, KeyBacked
<1>10. u.pending # NoTime
  BY <1>1, <1>3 DEF NoTime
<1> QED BY <1>2, <1>3, <1>9, <1>10 DEF Core, u, a

\* move_pending_to does not shorten a silence.
LEMMA MoveCalm ==
  ASSUME Setting, NEW t, Rec(t, Elapsed), Calm(t), t.pending # NoTime
  PROVE  Calm(move_pending_to(t))
<1> DEFINE u == move_pending_to(t)
<1>1. Elapsed \in Nat /\ boot.at \in Nat /\ Day \in Nat /\ DailyCeiling \in Nat \ {0}
  BY SettingFacts, Constants
<1>2. /\ u.closed = t.closed /\ u.paused = t.paused /\ u.boot_wait = t.boot_wait
      /\ u.daily = MovedLast(t.daily, Elapsed)
  <2>1. t.pending <= Elapsed /\ t.pending \in Int /\ DOMAIN t = Fields /\ DOMAIN t.sends = Keys
    BY <1>1 DEF Rec
  <2>2. t.key \in Keys /\ Elapsed \in Int
    BY MoveRec, <1>1
  <2>3. /\ move_pending_to(t).closed = t.closed /\ move_pending_to(t).paused = t.paused
        /\ move_pending_to(t).boot_wait = t.boot_wait
        /\ move_pending_to(t).daily = MovedLast(t.daily, Elapsed)
    BY <2>1, <2>2, MoveFields
  <2> QED BY <2>3
<1> HIDE DEF u
<1>3. TimesOK(t.daily, Elapsed) /\ t.daily # <<>>
  BY DEF Rec, EndsWith
<1>4. Len(t.daily) \in Nat \ {0} /\ t.daily[1] \in Nat
  BY <1>3 DEF TimesOK
<1>5. Len(u.daily) = Len(t.daily) /\ u.daily[1] >= t.daily[1] /\ u.daily \in Seq(Nat)
  BY <1>1, <1>2, <1>3, <1>4, MovedLastLemma DEF TimesOK
<1>6. u.daily[1] \in Nat
  BY <1>4, <1>5
<1>7. \A x \in Int : Held(t, now, boot.at, x) => Held(u, now, boot.at, x)
  BY <1>1, <1>2, <1>4, <1>5, <1>6 DEF Held
<1> QED BY <1>7, CalmFrom DEF u

\* Nothing is pending any more: the attempt's times stay counted.
LEMMA ResolvedSound ==
  ASSUME Setting, NEW t, NEW off, Core(t, off, 0)
  PROVE  /\ Core(Resolved(t), 0, 0)
         /\ Resolved(t).pending = NoTime
         /\ Calm(t) => Calm(Resolved(t))
<1> DEFINE u == Resolved(t)
           a == boot.at
<1>1. Rec(t, Elapsed) /\ off \in {0, 1} /\ DOMAIN t = Fields /\ a \in Nat
  BY SettingFacts DEF Core, Rec
<1>2. /\ DOMAIN u = Fields /\ u.empty = t.empty /\ u.boot = t.boot /\ u.last_send = t.last_send
      /\ u.daily = t.daily /\ u.closed = t.closed /\ u.reason = t.reason /\ u.paused = t.paused
      /\ u.paused_for = t.paused_for /\ u.refusals = t.refusals /\ u.rate_limits = t.rate_limits
      /\ u.boot_wait = t.boot_wait /\ u.sends = t.sends
      /\ u.pending = NoTime /\ u.key = NoKey
  BY <1>1, ResolvedFields
<1> HIDE DEF u, a
<1>3. Rec(u, Elapsed)
  BY <1>1, <1>2 DEF Rec
<1>4. ASSUME NEW i \in 1..Len(seen), seen[i].at > now - Day
      PROVE  /\ Backed(u.daily, Rank(seen, i) + 0, a, seen[i].at, 0)
             /\ \/ Full(u, a, seen[i].at)
                \/ /\ seen[i].key # u.key
                   /\ Backed(u.sends[seen[i].key], RankOfKey(seen, i), a, seen[i].at, 0)
  <2> DEFINE x == seen[i].at
             k == seen[i].key
  <2>1. x \in Nat /\ k \in Keys /\ k # NoKey
    BY SettingFacts
  <2>2. Rank(seen, i) \in Nat \ {0} /\ RankOfKey(seen, i) \in Nat \ {0}
    BY SettingFacts, RankType
  <2>3. /\ Backed(t.daily, Rank(seen, i) + off, a, x, 0)
        /\ \/ off = 0 /\ Full(t, a, x)
           \/ k = t.key /\ Backed(t.sends[k], RankOfKey(seen, i) + off, a, x, 0)
           \/ k # t.key /\ Backed(t.sends[k], RankOfKey(seen, i), a, x, 0)
    BY <1>4 DEF Core, Sound, DayBacked, KeyBacked, a
  <2> HIDE DEF x, k
  <2>4. /\ Rank(seen, i) + 0 = Rank(seen, i) /\ RankOfKey(seen, i) + 0 = RankOfKey(seen, i)
        /\ off = 0 \/ off = 1
    BY <1>1, <2>2
  <2>5. TimesOK(t.daily, Elapsed) /\ TimesOK(t.sends[k], Elapsed)
    BY <1>1, <2>1 DEF Rec
  <2>6. Backed(u.daily, Rank(seen, i) + 0, a, x, 0)
    <3>1. CASE off = 0
      BY <3>1, <2>3, <1>2
    <3>2. CASE off = 1
      BY <3>2, <2>1, <2>2, <2>3, <2>4, <2>5, <1>1, <1>2, BackedLess
    <3> QED BY <3>1, <3>2, <2>4
  <2>7. Full(u, a, x) \/ Backed(u.sends[k], RankOfKey(seen, i), a, x, 0)
    <3>1. CASE off = 0
      BY <3>1, <2>3, <2>4, <1>2 DEF Full
    <3>2. CASE off = 1
      <4>1. CASE k = t.key
        <5>1. Backed(t.sends[k], RankOfKey(seen, i) + 1, a, x, 0)
          BY <3>2, <4>1, <2>3
        <5> QED BY <5>1, <2>1, <2>2, <2>5, <1>1, <1>2, BackedLess
      <4>2. CASE k # t.key
        BY <3>2, <4>2, <2>3, <1>2
      <4> QED BY <4>1, <4>2
    <3> QED BY <3>1, <3>2, <2>4
  <2> QED BY <2>1, <2>6, <2>7, <1>2 DEF x, k
<1>5. LastBacked(u, a, seen)
  BY <1>2 DEF Core, Sound, LastBacked, a
<1>6. Sound(u, 0, 0, now, a, seen)
  BY <1>4, <1>5 DEF Sound, DayBacked, KeyBacked
<1>7. Calm(t) => Calm(u)
  BY <1>2 DEF Calm, Quiet, Held
<1> QED BY <1>2, <1>3, <1>6, <1>7 DEF Core, u, a

\* The attempt that never left is taken back, and no other time.
LEMMA RollbackSound ==
  ASSUME Setting, NEW t, Core(t, 1, 0)
  PROVE  Core(rollback_pending(t), 0, 0) /\ rollback_pending(t).pending = NoTime
         /\ rollback_pending(t).boot = t.boot
<1> DEFINE u == rollback_pending(t)
           a == boot.at
<1>1. /\ Rec(t, Elapsed) /\ DOMAIN t = Fields /\ a \in Nat /\ t.pending # NoTime
      /\ DOMAIN t.sends = Keys /\ t.key \in Keys /\ DailyCeiling \in Nat
  BY SettingFacts, Constants DEF Core, Rec
<1>2. /\ DOMAIN u = Fields /\ u.empty = t.empty /\ u.boot = t.boot /\ u.last_send = t.last_send
      /\ u.closed = t.closed /\ u.reason = t.reason /\ u.paused = t.paused
      /\ u.paused_for = t.paused_for /\ u.refusals = t.refusals /\ u.rate_limits = t.rate_limits
      /\ u.boot_wait = t.boot_wait
      /\ u.sends = [t.sends EXCEPT ![t.key] = WithoutLast(t.sends[t.key], t.pending)]
      /\ u.daily = WithoutLast(t.daily, t.pending)
      /\ u.pending = NoTime /\ u.key = NoKey
  BY <1>1, RollbackFields
<1> HIDE DEF u, a
<1>3. /\ TimesOK(t.daily, Elapsed) /\ EndsWith(t.daily, t.pending) /\ Len(t.daily) <= DailyCeiling
      /\ TimesOK(t.sends[t.key], Elapsed) /\ EndsWith(t.sends[t.key], t.pending)
  BY <1>1 DEF Rec
<1>4. TimesOK(u.daily, Elapsed) /\ Len(u.daily) <= DailyCeiling
  <2>1. Len(t.daily) \in Nat
    BY <1>3 DEF TimesOK
  <2>2. TimesOK(u.daily, Elapsed) /\ Len(u.daily) = Len(t.daily) - 1
    BY <1>2, <1>3, WithoutLastLemma
  <2> QED BY <2>1, <2>2, <1>1, <1>3
<1>5. DOMAIN u.sends = Keys /\ \A k \in Keys : u.sends[k] =
        IF k = t.key THEN WithoutLast(t.sends[t.key], t.pending) ELSE t.sends[k]
  BY <1>1, <1>2
<1>6. \A k \in Keys : TimesOK(u.sends[k], Elapsed)
  <2>1. TimesOK(u.sends[t.key], Elapsed)
    BY <1>1, <1>3, <1>5, WithoutLastLemma
  <2> QED BY <2>1, <1>1, <1>5 DEF Rec
<1>7. Rec(u, Elapsed)
  BY <1>1, <1>2, <1>4, <1>5, <1>6 DEF Rec
<1>8. ASSUME NEW i \in 1..Len(seen), seen[i].at > now - Day
      PROVE  /\ Backed(u.daily, Rank(seen, i) + 0, a, seen[i].at, 0)
             /\ seen[i].key # u.key
             /\ Backed(u.sends[seen[i].key], RankOfKey(seen, i), a, seen[i].at, 0)
  <2> DEFINE x == seen[i].at
             k == seen[i].key
  <2>1. x \in Nat /\ k \in Keys /\ k # NoKey
    BY SettingFacts
  <2>2. Rank(seen, i) \in Nat \ {0} /\ RankOfKey(seen, i) \in Nat \ {0}
    BY SettingFacts, RankType
  <2>3. /\ Backed(t.daily, Rank(seen, i) + 1, a, x, 0)
        /\ \/ k = t.key /\ Backed(t.sends[k], RankOfKey(seen, i) + 1, a, x, 0)
           \/ k # t.key /\ Backed(t.sends[k], RankOfKey(seen, i), a, x, 0)
    BY <1>8 DEF Core, Sound, DayBacked, KeyBacked, a
  <2> HIDE DEF x, k
  <2>4. Rank(seen, i) + 0 = Rank(seen, i)
    BY <2>2
  <2>5. Backed(u.daily, Rank(seen, i), a, x, 0)
    <3>1. a \in Int /\ x \in Int
      BY <1>1, <2>1
    <3>2. Backed(WithoutLast(t.daily, t.pending), Rank(seen, i), a, x, 0)
      BY <3>1, <2>2, <2>3, <1>3, BackedWithoutLast
    <3> QED BY <3>2, <1>2
  <2>6. Backed(u.sends[k], RankOfKey(seen, i), a, x, 0)
    <3>1. CASE k = t.key /\ Backed(t.sends[k], RankOfKey(seen, i) + 1, a, x, 0)
      <4>1. u.sends[k] = WithoutLast(t.sends[t.key], t.pending)
        BY <3>1, <2>1, <1>5
      <4>2. a \in Int /\ x \in Int /\ Backed(t.sends[t.key], RankOfKey(seen, i) + 1, a, x, 0)
        BY <1>1, <2>1, <3>1
      <4>3. Backed(WithoutLast(t.sends[t.key], t.pending), RankOfKey(seen, i), a, x, 0)
        BY <4>2, <2>2, <1>3, BackedWithoutLast
      <4> QED BY <4>1, <4>3
    <3>2. CASE k # t.key /\ Backed(t.sends[k], RankOfKey(seen, i), a, x, 0)
      BY <3>2, <2>1, <1>5
    <3> QED BY <3>1, <3>2, <2>3
  <2> QED BY <2>1, <2>4, <2>5, <2>6, <1>2 DEF x, k
<1>9. LastBacked(u, a, seen)
  BY <1>2 DEF Core, Sound, LastBacked, a
<1>10. Sound(u, 0, 0, now, a, seen)
  BY <1>8, <1>9 DEF Sound, DayBacked, KeyBacked
<1> QED BY <1>2, <1>7, <1>10 DEF Core, u, a

\* A change of the other fields leaves the backing as it is.
LEMMA SoundSame ==
  ASSUME NEW t, NEW u, NEW off, NEW w, Core(t, off, w), Rec(u, Elapsed),
         u.daily = t.daily, u.sends = t.sends, u.key = t.key, u.last_send = t.last_send,
         u.pending = t.pending
  PROVE  Core(u, off, w)
BY DEF Core, Sound, DayBacked, KeyBacked, LastBacked, Full

\* The record says no for at least a pause from now.
Shut(t) ==
  \/ t.closed >= Elapsed + Pause
  \/ t.paused >= Elapsed + Pause
  \/ t.boot_wait >= Elapsed + Pause
  \/ Len(t.daily) >= DailyCeiling /\ t.daily[1] + Day >= Elapsed + Pause

\* The times of a record are numbers.
LEMMA RecFacts ==
  ASSUME Setting, NEW t, Rec(t, Elapsed)
  PROVE  /\ t.closed \in Int /\ t.paused \in Int /\ t.boot_wait \in Int
         /\ t.pending \in Int /\ t.last_send \in Int
         /\ t.daily \in Seq(Nat) /\ Len(t.daily) \in Nat
         /\ Len(t.daily) >= DailyCeiling => t.daily[1] \in Nat
<1>1. Elapsed \in Nat /\ Day \in Nat /\ DailyCeiling \in Nat \ {0} /\ NoTime = -1
  BY SettingFacts, Constants DEF NoTime
<1>2. t.daily \in Seq(Nat) /\ Len(t.daily) \in Nat
  BY DEF Rec, TimesOK
<1>3. Len(t.daily) >= DailyCeiling => t.daily[1] \in Nat
  BY <1>1, <1>2
<1> QED BY <1>1, <1>2, <1>3 DEF Rec

\* That is silence enough for whatever the endpoint saw and said until now.
LEMMA ShutIsQuiet ==
  ASSUME Setting, NEW t, Rec(t, Elapsed), Shut(t),
         NEW s, SeenOK(s, now), NEW td \in {NoTime} \union 0..now
  PROVE  Quiet(t, now, boot.at, s, td)
<1>1. /\ now \in Nat /\ Pause \in Nat /\ boot.at \in Nat /\ Day \in Nat
      /\ Elapsed \in Nat /\ now = Elapsed + boot.at /\ DailyCeiling \in Nat
  BY SettingFacts, Constants
<1>2. \A y \in Int : y <= now + Pause => Held(t, now, boot.at, y)
  <2> SUFFICES ASSUME NEW y \in Int, y <= now + Pause
               PROVE  Held(t, now, boot.at, y)
    OBVIOUS
  <2>1. t.closed \in Int /\ t.paused \in Int /\ t.boot_wait \in Int
    BY RecFacts
  <2>2. CASE t.closed >= Elapsed + Pause
    BY <2>1, <2>2, <1>1, SMTT(20) DEF Held
  <2>3. CASE t.paused >= Elapsed + Pause
    BY <2>1, <2>3, <1>1 DEF Held
  <2>4. CASE t.boot_wait >= Elapsed + Pause
    BY <2>1, <2>4, <1>1 DEF Held
  <2>5. CASE Len(t.daily) >= DailyCeiling /\ t.daily[1] + Day >= Elapsed + Pause
    <3>1. t.daily[1] \in Nat
      BY <2>5, RecFacts
    <3>0. \A d \in Nat : d + Day >= Elapsed + Pause => d + boot.at + Day >= y
      BY <1>1
    <3>2. t.daily[1] + boot.at + Day >= y
      BY <2>5, <3>0, <3>1
    <3> QED BY <2>5, <3>2 DEF Held
  <2> QED BY <2>2, <2>3, <2>4, <2>5 DEF Shut
<1>3. td # NoTime => td \in Nat /\ td <= now
  BY <1>1
<1>4. Silent(s) => s[Len(s)].at \in Nat /\ s[Len(s)].at <= now
  <2>1. s \in Seq(Departure)
    BY DEF SeenOK
  <2>2. Silent(s) => Len(s) \in 1..Len(s) /\ s[Len(s)] \in Departure
    BY <2>1 DEF Silent
  <2> QED BY <2>2 DEF SeenOK, Departure
<1>5. td # NoTime => Held(t, now, boot.at, td + Pause)
  BY <1>1, <1>2, <1>3
<1>6. Silent(s) => Held(t, now, boot.at, s[Len(s)].at + Pause)
  BY <1>1, <1>2, <1>4
<1> QED BY <1>5, <1>6 DEF Quiet

\* Neither is any silence asked for when the last answer came and allows more.
LEMMA NothingToHold ==
  ASSUME Setting, NEW t, NEW s, ~Silent(s), NEW td \in {NoTime} \union 0..now, Passed(td, now)
  PROVE  Quiet(t, now, boot.at, s, td)
BY DEF Quiet, Held, Passed

\* Closing the endpoint changes no count.
LEMMA ClosedSound ==
  ASSUME Setting, NEW t, NEW off, NEW w, Core(t, off, w),
         NEW until \in 0..(Elapsed + Day), NEW reason, reason # "none"
  PROVE  /\ Core(Closed(t, until, reason), off, w)
         /\ Closed(t, until, reason).pending = t.pending
         /\ Closed(t, until, reason).boot = t.boot
         /\ until >= Elapsed + Pause => Shut(Closed(t, until, reason))
<1> DEFINE u == Closed(t, until, reason)
<1>1. /\ Rec(t, Elapsed) /\ DOMAIN t = Fields /\ Elapsed \in Nat /\ Day \in Nat
      /\ boot.at \in Nat /\ now = Elapsed + boot.at /\ Pause \in Nat /\ DailyCeiling \in Nat \ {0}
  BY SettingFacts, Constants DEF Core, Rec
<1>2. /\ DOMAIN u = Fields /\ u.empty = t.empty /\ u.boot = t.boot /\ u.last_send = t.last_send
      /\ u.daily = t.daily /\ u.paused = t.paused
      /\ u.paused_for = t.paused_for /\ u.refusals = t.refusals /\ u.rate_limits = t.rate_limits
      /\ u.boot_wait = t.boot_wait /\ u.sends = t.sends
      /\ u.pending = t.pending /\ u.key = t.key
      /\ u.closed = Larger(t.closed, until) /\ u.reason = reason
  BY <1>1, ClosedFields
<1> HIDE DEF u
<1>3. t.closed \in {NoTime} \union 0..(Elapsed + Day) /\ NoTime = -1
  BY <1>1 DEF Rec, NoTime
<1>4. u.closed \in 0..(Elapsed + Day) /\ u.closed >= until
  BY <1>1, <1>2, <1>3 DEF Larger
<1>5. Rec(u, Elapsed)
  <2>1. u.reason = "none" <=> u.closed = NoTime
    BY <1>1, <1>2, <1>3, <1>4
  <2>2. {u.closed, u.paused, u.boot_wait} \subseteq {NoTime} \union 0..(Elapsed + Day)
    BY <1>1, <1>2, <1>4 DEF Rec
  <2> QED BY <1>1, <1>2, <2>1, <2>2 DEF Rec
<1>6. Core(u, off, w)
  BY <1>2, <1>5, SoundSame
<1>7. until >= Elapsed + Pause => u.closed >= Elapsed + Pause
  BY <1>1, <1>4
<1> QED BY <1>2, <1>6, <1>7 DEF u, Shut

\* Pausing the endpoint changes no count, and holds it for the pause at least.
LEMMA PausedSound ==
  ASSUME Setting, NEW t, NEW off, NEW w, Core(t, off, w), NEW pause \in 1..Day
  PROVE  /\ Core(Paused(t, pause), off, w)
         /\ Paused(t, pause).pending = t.pending
         /\ Paused(t, pause).boot = t.boot
         /\ Paused(t, pause).rate_limits = t.rate_limits
         /\ Paused(t, pause).refusals = t.refusals
         /\ pause >= Pause => Shut(Paused(t, pause))
<1> DEFINE u == Paused(t, pause)
           v == [t EXCEPT !.paused = Elapsed + pause, !.paused_for = pause]
<1>1. /\ Rec(t, Elapsed) /\ DOMAIN t = Fields /\ Elapsed \in Nat /\ Day \in Nat /\ Pause \in Nat
      /\ pause \in Nat
  BY SettingFacts, Constants DEF Core, Rec
<1>2. CASE Elapsed + pause >= t.paused
  <2>1. u = v
    BY <1>2 DEF Paused
  <2>2. /\ DOMAIN v = Fields /\ v.empty = t.empty /\ v.boot = t.boot /\ v.last_send = t.last_send
        /\ v.daily = t.daily /\ v.closed = t.closed /\ v.reason = t.reason
        /\ v.refusals = t.refusals /\ v.rate_limits = t.rate_limits
        /\ v.boot_wait = t.boot_wait /\ v.sends = t.sends
        /\ v.pending = t.pending /\ v.key = t.key
        /\ v.paused = Elapsed + pause /\ v.paused_for = pause
    BY <1>1 DEF Fields
  <2> HIDE DEF u, v
  <2>3. Rec(v, Elapsed)
    <3>1. v.paused \in 0..(Elapsed + Day) /\ v.paused_for \in 1..Day /\ v.paused_for # NoTime
      BY <2>2, <1>1 DEF NoTime
    <3>2. {v.closed, v.paused, v.boot_wait} \subseteq {NoTime} \union 0..(Elapsed + Day)
      BY <1>1, <2>2, <3>1 DEF Rec
    <3> QED BY <1>1, <2>2, <3>1, <3>2 DEF Rec
  <2>4. Core(v, off, w)
    BY <2>2, <2>3, SoundSame
  <2>5. pause >= Pause => Shut(v)
    BY <2>2, <1>1 DEF Shut
  <2> QED BY <2>1, <2>2, <2>4, <2>5 DEF u
<1>3. CASE ~(Elapsed + pause >= t.paused)
  <2>1. u = t
    BY <1>3 DEF Paused
  <2>2. t.paused >= Elapsed + pause
    BY <1>1, <1>3, RecFacts
  <2>3. pause >= Pause => Shut(t)
    BY <2>2, <1>1, RecFacts DEF Shut
  <2> QED BY <2>1, <2>3
<1> QED BY <1>2, <1>3

\* One more 429, or one more refusal, remembered.
LEMMA RememberedSound ==
  ASSUME Setting, NEW t, NEW off, NEW w, Core(t, off, w)
  PROVE  /\ Core([t EXCEPT !.rate_limits = Append(@, Elapsed)], off, w)
         /\ Core([t EXCEPT !.refusals = Append(@, Elapsed)], off, w)
         /\ [t EXCEPT !.rate_limits = Append(@, Elapsed)].pending = t.pending
         /\ [t EXCEPT !.refusals = Append(@, Elapsed)].pending = t.pending
         /\ [t EXCEPT !.rate_limits = Append(@, Elapsed)].boot = t.boot
         /\ [t EXCEPT !.refusals = Append(@, Elapsed)].boot = t.boot
<1> DEFINE u == [t EXCEPT !.rate_limits = Append(@, Elapsed)]
           v == [t EXCEPT !.refusals = Append(@, Elapsed)]
<1>1. Rec(t, Elapsed) /\ DOMAIN t = Fields /\ Elapsed \in Nat
  BY SettingFacts DEF Core, Rec
<1>2. /\ DOMAIN u = Fields /\ u.empty = t.empty /\ u.boot = t.boot /\ u.last_send = t.last_send
      /\ u.daily = t.daily /\ u.closed = t.closed /\ u.reason = t.reason /\ u.paused = t.paused
      /\ u.paused_for = t.paused_for /\ u.refusals = t.refusals
      /\ u.boot_wait = t.boot_wait /\ u.sends = t.sends
      /\ u.pending = t.pending /\ u.key = t.key
      /\ u.rate_limits = Append(t.rate_limits, Elapsed)
  BY <1>1 DEF Fields
<1>3. /\ DOMAIN v = Fields /\ v.empty = t.empty /\ v.boot = t.boot /\ v.last_send = t.last_send
      /\ v.daily = t.daily /\ v.closed = t.closed /\ v.reason = t.reason /\ v.paused = t.paused
      /\ v.paused_for = t.paused_for /\ v.rate_limits = t.rate_limits
      /\ v.boot_wait = t.boot_wait /\ v.sends = t.sends
      /\ v.pending = t.pending /\ v.key = t.key
      /\ v.refusals = Append(t.refusals, Elapsed)
  BY <1>1 DEF Fields
<1> HIDE DEF u, v
<1>4. TimesOK(Append(t.rate_limits, Elapsed), Elapsed) /\ TimesOK(Append(t.refusals, Elapsed), Elapsed)
  BY <1>1, AppendLemma DEF Rec
<1>5. Rec(u, Elapsed)
  BY <1>1, <1>2, <1>4 DEF Rec
<1>6. Rec(v, Elapsed)
  BY <1>1, <1>3, <1>4 DEF Rec
<1>7. Core(u, off, w)
  BY <1>2, <1>5, SoundSame
<1>8. Core(v, off, w)
  BY <1>3, <1>6, SoundSame
<1> QED BY <1>2, <1>3, <1>7, <1>8 DEF u, v

\* A departure is recorded before it leaves: every earlier one keeps its place.
LEMMA SentSound ==
  ASSUME Setting, NEW t, Core(t, 0, 0), t.pending = NoTime, NEW k \in Keys,
         Len(t.daily) < DailyCeiling
  PROVE  Core(Sent(t, k), 1, 0) /\ Sent(t, k).pending # NoTime /\ Sent(t, k).key = k
         /\ Sent(t, k).boot = t.boot
<1> DEFINE u == Sent(t, k)
           a == boot.at
<1>1. /\ Rec(t, Elapsed) /\ DOMAIN t = Fields /\ a \in Nat /\ DOMAIN t.sends = Keys
      /\ DailyCeiling \in Nat /\ Elapsed \in Nat /\ NoTime = -1 /\ k # NoKey
      /\ t.key = NoKey
  BY SettingFacts, Constants, NoKeyIsNoMethod DEF Core, Rec, NoTime
<1>2. /\ DOMAIN u = Fields /\ u.empty = t.empty /\ u.boot = t.boot /\ u.last_send = t.last_send
      /\ u.closed = t.closed /\ u.reason = t.reason /\ u.paused = t.paused
      /\ u.paused_for = t.paused_for /\ u.refusals = t.refusals /\ u.rate_limits = t.rate_limits
      /\ u.sends = [t.sends EXCEPT ![k] = Append(t.sends[k], Elapsed)]
      /\ u.daily = Append(t.daily, Elapsed)
      /\ u.boot_wait = NoTime /\ u.pending = Elapsed /\ u.key = k
  BY <1>1, SentFields, SMTT(20)
<1> HIDE DEF u, a
<1>3. TimesOK(t.daily, Elapsed) /\ \A j \in Keys : TimesOK(t.sends[j], Elapsed)
  BY <1>1 DEF Rec
<1>4. TimesOK(u.daily, Elapsed) /\ Len(u.daily) <= DailyCeiling /\ EndsWith(u.daily, Elapsed)
  <2>1. Len(t.daily) \in Nat
    BY <1>3 DEF TimesOK
  <2>2. TimesOK(u.daily, Elapsed) /\ Len(u.daily) = Len(t.daily) + 1 /\ EndsWith(u.daily, Elapsed)
    BY <1>1, <1>2, <1>3, AppendLemma
  <2> QED BY <2>1, <2>2, <1>1
<1>5. DOMAIN u.sends = Keys /\ \A j \in Keys : u.sends[j] =
        IF j = k THEN Append(t.sends[k], Elapsed) ELSE t.sends[j]
  BY <1>1, <1>2
<1>6. (\A j \in Keys : TimesOK(u.sends[j], Elapsed)) /\ EndsWith(u.sends[k], Elapsed)
  <2>1. TimesOK(u.sends[k], Elapsed) /\ EndsWith(u.sends[k], Elapsed)
    BY <1>1, <1>3, <1>5, AppendLemma
  <2> QED BY <2>1, <1>3, <1>5
<1>7. /\ u.pending \in 0..Elapsed /\ u.pending # NoTime /\ u.key \in Keys /\ u.key # NoKey
      /\ {u.closed, u.paused, u.boot_wait} \subseteq {NoTime} \union 0..(Elapsed + Day)
  BY <1>1, <1>2 DEF Rec
<1>8. Rec(u, Elapsed)
  BY <1>1, <1>2, <1>4, <1>5, <1>6, <1>7 DEF Rec
<1>9. ASSUME NEW i \in 1..Len(seen), seen[i].at > now - Day
      PROVE  /\ Backed(u.daily, Rank(seen, i) + 1, a, seen[i].at, 0)
             /\ \/ /\ seen[i].key = u.key
                   /\ Backed(u.sends[seen[i].key], RankOfKey(seen, i) + 1, a, seen[i].at, 0)
                \/ /\ seen[i].key # u.key
                   /\ Backed(u.sends[seen[i].key], RankOfKey(seen, i), a, seen[i].at, 0)
  <2> DEFINE x == seen[i].at
             j == seen[i].key
  <2>1. x \in Nat /\ j \in Keys /\ j # NoKey
    BY SettingFacts
  <2>2. Rank(seen, i) \in Nat \ {0} /\ RankOfKey(seen, i) \in Nat \ {0}
    BY SettingFacts, RankType
  <2>3. /\ Backed(t.daily, Rank(seen, i) + 0, a, x, 0)
        /\ \/ Full(t, a, x)
           \/ j = t.key /\ Backed(t.sends[j], RankOfKey(seen, i) + 0, a, x, 0)
           \/ j # t.key /\ Backed(t.sends[j], RankOfKey(seen, i), a, x, 0)
    BY <1>9 DEF Core, Sound, DayBacked, KeyBacked, a
  <2> HIDE DEF x, j
  <2>4. Backed(t.daily, Rank(seen, i), a, x, 0)
    BY <2>2, <2>3
  <2>5. Backed(t.sends[j], RankOfKey(seen, i), a, x, 0)
    <3>1. Len(t.daily) \in Nat
      BY <1>3 DEF TimesOK
    <3>2. ~Full(t, a, x)
      BY <3>1, <1>1 DEF Full
    <3> QED BY <3>2, <2>1, <2>3, <1>1
  <2>6. Backed(u.daily, Rank(seen, i) + 1, a, x, 0)
    <3>1. a \in Int /\ x \in Int
      BY <1>1, <2>1
    <3>2. Backed(Append(t.daily, Elapsed), Rank(seen, i) + 1, a, x, 0)
      BY <3>1, <2>2, <2>4, <1>1, <1>3, BackedAppend
    <3> QED BY <3>2, <1>2
  <2>7. CASE j = k
    <3>1. a \in Int /\ x \in Int
      BY <1>1, <2>1
    <3>2. Backed(Append(t.sends[j], Elapsed), RankOfKey(seen, i) + 1, a, x, 0)
      BY <3>1, <2>1, <2>2, <2>5, <1>1, <1>3, BackedAppend
    <3> QED BY <3>2, <2>1, <2>6, <2>7, <1>2, <1>5 DEF x, j
  <2>8. CASE j # k
    BY <2>1, <2>5, <2>6, <2>8, <1>2, <1>5 DEF x, j
  <2> QED BY <2>7, <2>8
<1>10. LastBacked(u, a, seen)
  BY <1>2 DEF Core, Sound, LastBacked, a
<1>11. Sound(u, 1, 0, now, a, seen)
  BY <1>9, <1>10 DEF Sound, DayBacked, KeyBacked
<1> QED BY <1>2, <1>7, <1>8, <1>11 DEF Core, u, a

-----------------------------------------------------------------------------
(* What a new boot makes of an older record.                                *)

\* An emptied pair becomes a record of a full day, which sends nothing yet.
LEMMA PrepareLost ==
  ASSUME Setting, Older(EmptyTally, NoLane, now, boot, seen)
  PROVE  LET u == prepare_boot(EmptyTally) IN
         Core(u, 0, 0) /\ u.boot = boot.id /\ u.pending = NoTime /\ Shut(u)
<1> DEFINE u == prepare_boot(EmptyTally)
           a == boot.at
           day == [i \in 1..DailyCeiling |-> Elapsed]
<1>1. /\ Elapsed \in Nat /\ a \in Nat /\ Day \in Nat /\ DailyCeiling \in Nat \ {0} /\ Pause \in Nat
      /\ now = Elapsed + a /\ NoTime = -1 /\ NoKey \notin Keys /\ Pause < Day
  BY SettingFacts, Constants, NoKeyIsNoMethod DEF NoTime
<1>2. EmptyTally.boot = 0 /\ EmptyTally.empty = TRUE /\ boot.id # 0
  BY DEF EmptyTally, ZeroTally, Setting, World
<1>3. u = [ZeroTally EXCEPT !.boot = boot.id, !.last_send = Elapsed, !.daily = day]
  BY <1>2 DEF prepare_boot
<1> HIDE DEF day
<1>4. /\ DOMAIN u = Fields /\ u.empty = FALSE /\ u.boot = boot.id /\ u.last_send = Elapsed
      /\ u.daily = day /\ u.closed = NoTime /\ u.reason = "none" /\ u.paused = NoTime
      /\ u.paused_for = NoTime /\ u.refusals = <<>> /\ u.rate_limits = <<>>
      /\ u.boot_wait = NoTime /\ u.pending = NoTime /\ u.key = NoKey
      /\ u.sends = [k \in Keys |-> <<>>]
  BY <1>3 DEF ZeroTally, Fields
<1> HIDE DEF u, a
<1>5. /\ day \in Seq(Nat) /\ Len(day) = DailyCeiling
      /\ \A i \in 1..DailyCeiling : day[i] = Elapsed
  BY <1>1 DEF day
<1>6. TimesOK(day, Elapsed)
  BY <1>1, <1>5 DEF TimesOK, Sorted
<1>7. TimesOK(<<>>, Elapsed)
  BY DEF TimesOK, Sorted
<1>8. Rec(u, Elapsed)
  BY <1>1, <1>4, <1>5, <1>6, <1>7 DEF Rec
<1>9. ASSUME NEW i \in 1..Len(seen), seen[i].at > now - Day
      PROVE  Backed(u.daily, Rank(seen, i) + 0, a, seen[i].at, 0) /\ Full(u, a, seen[i].at)
  <2>1. seen[i].at \in Nat /\ seen[i].at <= now
    BY SettingFacts
  <2>2. Rank(seen, i) \in Nat \ {0}
    BY SettingFacts, RankType
  <2>3. Rank(seen, i) <= DailyCeiling
    BY <1>2, <1>9 DEF Older, Stale
  <2>4. /\ Rank(seen, i) + 0 = Rank(seen, i)
        /\ Len(day) - Rank(seen, i) + 1 \in 1..DailyCeiling /\ 1 \in 1..DailyCeiling
    BY <1>1, <1>5, <2>2, <2>3
  <2>5. day[Len(day) - Rank(seen, i) + 1] = Elapsed /\ day[1] = Elapsed
    BY <1>5, <2>4
  <2>6. Elapsed + a >= seen[i].at
    BY <1>1, <2>1
  <2> QED BY <1>4, <1>5, <2>3, <2>4, <2>5, <2>6 DEF Backed, Full
<1>10. LastBacked(u, a, seen)
  <2>1. \A i \in 1..Len(seen) : seen[i].at \in Nat /\ seen[i].at <= now
    BY SettingFacts
  <2> QED BY <2>1, <1>1, <1>4 DEF LastBacked
<1>11. Sound(u, 0, 0, now, a, seen)
  BY <1>9, <1>10 DEF Sound, DayBacked, KeyBacked
<1>12. Shut(u)
  <2>1. 1 \in 1..DailyCeiling
    BY <1>1
  <2>2. u.daily[1] = Elapsed /\ Len(u.daily) = DailyCeiling
    BY <1>4, <1>5, <2>1
  <2> QED BY <2>2, <1>1 DEF Shut
<1> QED BY <1>4, <1>8, <1>11, <1>12 DEF Core, u, a

\* A record of an earlier boot counts every departure as of the present, and waits.
LEMMA PrepareKept ==
  ASSUME Setting, NEW t, Older(t, NoLane, now, boot, seen), t # EmptyTally
  PROVE  LET u == prepare_boot(t)
             w == IF t.pending = NoTime THEN 0 ELSE 1
         IN  /\ Core(u, 0, w) /\ u.boot = boot.id /\ Shut(u)
             /\ u.pending = NoTime <=> t.pending = NoTime
<1> DEFINE u == prepare_boot(t)
           w == IF t.pending = NoTime THEN 0 ELSE 1
           a == boot.at
<1>1. /\ Elapsed \in Nat /\ a \in Nat /\ Day \in Nat /\ DailyCeiling \in Nat \ {0} /\ Pause \in Nat
      /\ now = Elapsed + a /\ NoTime = -1 /\ NoKey \notin Keys /\ Pause = FirstSendWait
      /\ Pause < Day /\ Closure \in Nat /\ Closure < Day
      /\ UnresolvedClosure \in Nat /\ UnresolvedClosure < Day
  BY SettingFacts, Constants, NoKeyIsNoMethod DEF NoTime
<1>2. Rec(t, MaxTime) /\ Stale(t, now, seen) /\ t.boot # boot.id /\ t.empty = FALSE
      /\ MaxTime \in Nat
  <2>1. Rec(t, MaxTime) /\ Stale(t, now, seen) /\ t.boot \in 0..(boot.id - 1)
    BY DEF Older
  <2>2. MaxTime \in Nat /\ MaxFaults \in Nat
    BY Constants
  <2>3. faults \in Nat
    BY <2>2 DEF Setting, World
  <2>4. boot.id \in Nat
    BY <2>3 DEF Setting, World
  <2>5. t.boot # boot.id
    BY <2>1, <2>4
  <2> QED BY <2>1, <2>2, <2>5 DEF Rec
<1>3. /\ DOMAIN u = Fields /\ u.empty = t.empty /\ u.boot = boot.id
      /\ u.last_send = IF t.last_send = NoTime THEN NoTime ELSE Elapsed
      /\ u.daily = Filled(t.daily)
      /\ u.closed = IF t.closed = NoTime THEN NoTime ELSE Elapsed + AfterBoot(t.reason)
      /\ u.reason = t.reason
      /\ u.paused = IF t.paused = NoTime THEN NoTime ELSE Elapsed + t.paused_for
      /\ u.paused_for = t.paused_for /\ u.refusals = Filled(t.refusals)
      /\ u.rate_limits = Filled(t.rate_limits)
      /\ u.boot_wait = Elapsed + FirstSendWait
      /\ u.pending = IF t.pending = NoTime THEN NoTime ELSE Elapsed
      /\ u.key = t.key
      /\ u.sends = [k \in Keys |-> Filled(t.sends[k])]
  BY <1>2 DEF prepare_boot, Rec, Fields
<1>4. AfterBoot(t.reason) \in Nat /\ AfterBoot(t.reason) < Day
  BY <1>1 DEF AfterBoot
<1> HIDE DEF u, a
<1>5. /\ t.daily \in Seq(Nat) /\ t.refusals \in Seq(Nat) /\ t.rate_limits \in Seq(Nat)
      /\ \A k \in Keys : t.sends[k] \in Seq(Nat)
  BY <1>2 DEF Rec, TimesOK
<1>6. /\ TimesOK(u.daily, Elapsed) /\ Len(u.daily) = Len(t.daily)
      /\ TimesOK(u.refusals, Elapsed) /\ TimesOK(u.rate_limits, Elapsed)
      /\ \A k \in Keys : TimesOK(u.sends[k], Elapsed) /\ u.sends[k] = Filled(t.sends[k])
  BY <1>1, <1>3, <1>5, FilledLemma
<1>7. u.pending # NoTime => EndsWith(u.daily, u.pending) /\ EndsWith(u.sends[u.key], u.pending)
  <2> SUFFICES ASSUME u.pending # NoTime
               PROVE  EndsWith(u.daily, Elapsed) /\ EndsWith(u.sends[t.key], Elapsed)
    BY <1>3
  <2>1. t.pending # NoTime /\ t.key \in Keys
    BY <1>2, <1>3 DEF Rec
  <2>2. t.daily # <<>> /\ t.sends[t.key] # <<>>
    BY <1>2, <2>1 DEF Rec, EndsWith
  <2> QED BY <2>1, <2>2, <1>1, <1>3, <1>5, <1>6, FilledLemma
<1>8. Rec(u, Elapsed)
  <2>1. /\ u.last_send \in {NoTime} \union 0..Elapsed
        /\ u.pending \in {NoTime} \union 0..Elapsed
        /\ u.key = NoKey <=> u.pending = NoTime
    BY <1>1, <1>2, <1>3 DEF Rec
  <2>2. /\ u.closed \in {NoTime} \union 0..(Elapsed + Day)
        /\ u.reason = "none" <=> u.closed = NoTime
    BY <1>1, <1>2, <1>3, <1>4 DEF Rec
  <2>3. /\ u.paused \in {NoTime} \union 0..(Elapsed + Day)
        /\ u.paused_for \in {NoTime} \union 1..Day
        /\ u.paused # NoTime => u.paused_for # NoTime
    BY <1>1, <1>2, <1>3, SMTT(20) DEF Rec
  <2>4. u.boot_wait \in {NoTime} \union 0..(Elapsed + Day)
    BY <1>1, <1>3
  <2>5. /\ DOMAIN u.sends = Keys /\ u.key \in Keys \union {NoKey} /\ u.empty = FALSE
        /\ Len(u.daily) <= DailyCeiling
    BY <1>2, <1>3, <1>6 DEF Rec
  <2> QED BY <1>3, <1>6, <1>7, <2>1, <2>2, <2>3, <2>4, <2>5 DEF Rec
<1>9. ASSUME NEW i \in 1..Len(seen), seen[i].at > now - Day
      PROVE  /\ Backed(u.daily, Rank(seen, i) + 0, a, seen[i].at, 0)
             /\ \/ Full(u, a, seen[i].at)
                \/ Backed(u.sends[seen[i].key], RankOfKey(seen, i) + 0, a, seen[i].at, 0)
  <2> DEFINE x == seen[i].at
             k == seen[i].key
  <2>1. x \in Nat /\ k \in Keys /\ x <= now
    BY SettingFacts
  <2>2. Rank(seen, i) \in Nat \ {0} /\ RankOfKey(seen, i) \in Nat \ {0}
    BY SettingFacts, RankType
  <2>3. /\ Rank(seen, i) <= Len(t.daily)
        /\ Len(t.daily) = DailyCeiling \/ RankOfKey(seen, i) <= Len(t.sends[k])
    BY <1>2, <1>9 DEF Stale
  <2> HIDE DEF x, k
  <2>4. Rank(seen, i) + 0 = Rank(seen, i) /\ RankOfKey(seen, i) + 0 = RankOfKey(seen, i)
    BY <2>2
  <2>5. x <= Elapsed + a /\ a \in Int /\ x \in Int
    BY <1>1, <2>1
  <2>6. Backed(u.daily, Rank(seen, i), a, x, 0)
    BY <1>1, <1>3, <1>5, <2>2, <2>3, <2>5, BackedFilled
  <2>7. CASE Len(t.daily) = DailyCeiling
    <3>1. 1 \in 1..Len(t.daily)
      BY <1>1, <2>7
    <3>2. u.daily[1] = Elapsed /\ Len(u.daily) = DailyCeiling
      BY <1>1, <1>3, <1>5, <1>6, <2>7, <3>1, FilledLemma
    <3>3. Full(u, a, x)
      BY <3>2, <1>1, <2>5 DEF Full
    <3> QED BY <2>4, <2>6, <3>3 DEF x, k
  <2>8. CASE RankOfKey(seen, i) <= Len(t.sends[k])
    <3>1. Backed(Filled(t.sends[k]), RankOfKey(seen, i), a, x, 0)
      BY <1>1, <1>5, <2>1, <2>2, <2>5, <2>8, BackedFilled
    <3>2. Backed(u.sends[k], RankOfKey(seen, i), a, x, 0)
      BY <3>1, <1>6, <2>1
    <3> QED BY <3>2, <2>4, <2>6 DEF x, k
  <2> QED BY <2>3, <2>7, <2>8
<1>10. w = 0 => LastBacked(u, a, seen)
  <2> SUFFICES ASSUME t.pending = NoTime
               PROVE  LastBacked(u, a, seen)
    OBVIOUS
  <2> SUFFICES ASSUME NEW i \in 1..Len(seen)
               PROVE  u.last_send # NoTime /\ u.last_send + a >= seen[i].at
    BY DEF LastBacked
  <2>1. seen[i].at \in Nat /\ seen[i].at <= now /\ Len(seen) \in Nat
    BY SettingFacts
  <2>2. seen # <<>>
    BY <2>1
  <2>3. u.last_send = Elapsed
    BY <2>2, <1>2, <1>3 DEF Stale
  <2> QED BY <2>1, <2>3, <1>1
<1>11. w \in {0, 1} /\ (w = 1 <=> u.pending # NoTime) /\ (w = 1 <=> t.pending # NoTime)
  BY <1>1, <1>3
<1> HIDE DEF w
<1>12. Sound(u, 0, w, now, a, seen)
  <2>2. ASSUME NEW i \in 1..Len(seen), seen[i].at > now - Day
        PROVE  /\ Backed(u.daily, Rank(seen, i) + 0, a, seen[i].at, w)
               /\ \/ Full(u, a, seen[i].at)
                  \/ /\ seen[i].key = u.key
                     /\ Backed(u.sends[seen[i].key], RankOfKey(seen, i) + 0, a, seen[i].at, w)
                  \/ /\ seen[i].key # u.key
                     /\ Backed(u.sends[seen[i].key], RankOfKey(seen, i), a, seen[i].at, 0)
    <3>1. Rank(seen, i) \in Nat \ {0} /\ RankOfKey(seen, i) \in Nat \ {0}
      BY SettingFacts, RankType
    <3>2. RankOfKey(seen, i) + 0 = RankOfKey(seen, i) /\ ~(Rank(seen, i) + 0 <= 0)
          /\ ~(RankOfKey(seen, i) + 0 <= 0)
      BY <3>1
    <3> QED BY <1>9, <2>2, <3>2 DEF Backed
  <2> QED BY <1>10, <2>2 DEF Sound, DayBacked, KeyBacked
<1>13. Shut(u)
  BY <1>1, <1>3 DEF Shut
<1>14. Core(u, 0, w)
  BY <1>8, <1>11, <1>12 DEF Core, a
<1> QED BY <1>3, <1>11, <1>13, <1>14 DEF u, w

-----------------------------------------------------------------------------
(* The operations, on a record of this boot.                                *)

\* A record of this boot is read as it is.
LEMMA PrepareSame ==
  ASSUME NEW t, t.boot = boot.id
  PROVE  prepare_boot(t) = t
BY DEF prepare_boot

\* The common beginning of the operations that learn what became of an attempt.
LEMMA CountedLemma ==
  ASSUME Setting, NEW t, NEW off, NEW w, Core(t, off, w), t.boot = boot.id
  PROVE  LET m == prune(move_pending_to(t)) IN
         /\ Core(m, off, 0) /\ m.boot = boot.id /\ m.key = t.key
         /\ t.pending = NoTime => m.pending = NoTime
         /\ t.pending # NoTime => m.pending = Elapsed /\ m.last_send = Elapsed
         /\ Calm(t) => Calm(m)
<1> DEFINE v == move_pending_to(t)
           m == prune(v)
<1>0. Rec(t, Elapsed)
  BY DEF Core
<1>1. CASE t.pending = NoTime
  <2>1. v = t
    BY <1>1 DEF move_pending_to
  <2>2. w = 0
    BY <1>1 DEF Core
  <2>3. Core(prune(t), off, 0)
    BY <2>2, PruneSound
  <2>4. prune(t).boot = t.boot /\ prune(t).key = t.key /\ prune(t).pending = t.pending
    BY <1>0, PruneRec
  <2>5. Calm(t) => Calm(prune(t))
    BY <1>0, PruneCalm
  <2> QED BY <1>1, <2>1, <2>3, <2>4, <2>5
<1>2. CASE t.pending # NoTime
  <2>1. Core(v, off, 0)
    BY <1>2, MoveSound
  <2>2. Rec(v, Elapsed) /\ t.key \in Keys /\ v.last_send = Elapsed /\ v.pending = Elapsed
    BY <1>0, <1>2, MoveRec
  <2>3. v.boot = t.boot /\ v.key = t.key
    <3>1. t.pending <= Elapsed /\ t.pending \in Int /\ Elapsed \in Int
      BY <1>0, <1>2, SettingFacts DEF Rec
    <3>2. DOMAIN t = Fields /\ DOMAIN t.sends = Keys
      BY <1>0 DEF Rec
    <3> QED BY <1>2, <2>2, <3>1, <3>2, MoveFields
  <2> HIDE DEF v
  <2>4. Core(m, off, 0)
    BY <2>1, PruneSound
  <2>5. m.boot = v.boot /\ m.key = v.key /\ m.pending = v.pending /\ m.last_send = v.last_send
    BY <2>2, PruneRec
  <2>6. Calm(t) => Calm(v)
    BY <1>0, <1>2, MoveCalm DEF v
  <2>7. Calm(v) => Calm(m)
    BY <2>2, PruneCalm
  <2> HIDE DEF m
  <2> QED BY <1>2, <2>2, <2>3, <2>4, <2>5, <2>6, <2>7 DEF m, v
<1> QED BY <1>1, <1>2

\* The record after an outcome was written: nothing is pending in it.
Settled(u) == Core(u, 0, 0) /\ u.boot = boot.id /\ u.pending = NoTime

\* An attempt that is counted and resolved leaves a record without doubt.
LEMMA SettledLemma ==
  ASSUME Setting, NEW t, NEW off, NEW w, Core(t, off, w), t.boot = boot.id
  PROVE  Settled(Resolved(prune(move_pending_to(t))))
<1> DEFINE m == prune(move_pending_to(t))
<1>1. Core(m, off, 0) /\ m.boot = boot.id
  BY CountedLemma
<1> HIDE DEF m
<1>2. Core(Resolved(m), 0, 0) /\ Resolved(m).pending = NoTime
  BY <1>1, ResolvedSound
<1>3. DOMAIN m = Fields
  BY <1>1 DEF Core, Rec
<1>4. Resolved(m).boot = boot.id
  BY <1>1, <1>3, ResolvedFields
<1> QED BY <1>2, <1>4 DEF Settled, m

\* The same when the record is closed with it.
LEMMA ClosedSettled ==
  ASSUME Setting, NEW t, Settled(t), NEW d \in Nat, d <= Day, d >= Pause,
         NEW reason, reason # "none"
  PROVE  Settled(Closed(t, Elapsed + d, reason)) /\ Shut(Closed(t, Elapsed + d, reason))
<1>1. Elapsed \in Nat /\ Day \in Nat /\ Pause \in Nat
  BY SettingFacts, Constants
<1>2. Elapsed + d \in 0..(Elapsed + Day) /\ Elapsed + d >= Elapsed + Pause
  BY <1>1
<1>3. Core(t, 0, 0) /\ t.boot = boot.id /\ t.pending = NoTime
  BY DEF Settled
<1> DEFINE until == Elapsed + d
<1> HIDE DEF until
<1>4. until \in 0..(Elapsed + Day) /\ until >= Elapsed + Pause
  BY <1>2 DEF until
<1>5. /\ Core(Closed(t, until, reason), 0, 0)
      /\ Closed(t, until, reason).pending = t.pending
      /\ Closed(t, until, reason).boot = t.boot
      /\ Shut(Closed(t, until, reason))
  BY <1>3, <1>4, ClosedSound
<1> QED BY <1>3, <1>5 DEF Settled, until

\* record_join_failure settles the attempt and closes the endpoint past the pause.
LEMMA JoinFailureLemma ==
  ASSUME Setting, NEW t, NEW off, NEW w, Core(t, off, w), t.boot = boot.id
  PROVE  Settled(record_join_failure(t)) /\ Shut(record_join_failure(t))
<1>1. prepare_boot(t) = t
  BY PrepareSame
<1>2. Settled(Resolved(prune(move_pending_to(t))))
  BY SettledLemma
<1>3. UnresolvedClosure \in Nat /\ UnresolvedClosure <= Day /\ UnresolvedClosure >= Pause
  BY Constants
<1> QED BY <1>1, <1>2, <1>3, ClosedSettled DEF record_join_failure

\* record_unknown_outcome settles the attempt and closes the endpoint past the pause.
LEMMA UnknownOutcomeLemma ==
  ASSUME Setting, NEW t, NEW off, NEW w, Core(t, off, w), t.boot = boot.id
  PROVE  Settled(record_unknown_outcome(t)) /\ Shut(record_unknown_outcome(t))
<1> DEFINE m == prune(move_pending_to(t))
           since == IF m.pending = NoTime THEN Elapsed ELSE m.pending
<1>1. prepare_boot(t) = t
  BY PrepareSame
<1>2. Settled(Resolved(m))
  BY SettledLemma
<1>3. since = Elapsed
  BY CountedLemma
<1>4. Elapsed \in Nat /\ Pause \in Nat /\ UnresolvedAttempt \in Nat /\ UnresolvedAttempt <= Day
      /\ UnresolvedAttempt >= Pause /\ Closure \in Nat /\ Closure <= Day /\ Closure >= Pause
  BY SettingFacts, Constants
<1>5. Larger(since + UnresolvedAttempt, Elapsed + Pause) = Elapsed + UnresolvedAttempt
  BY <1>3, <1>4 DEF Larger
<1>6. record_unknown_outcome(t) = IF m.rate_limits = <<>>
        THEN Closed(Resolved(m), Larger(since + UnresolvedAttempt, Elapsed + Pause), "unresolved")
        ELSE Closed(Resolved(m), Elapsed + Closure, "rate_limits")
  BY <1>1 DEF record_unknown_outcome
<1> HIDE DEF m, since
<1>7. CASE m.rate_limits = <<>>
  BY <1>2, <1>4, <1>5, <1>6, <1>7, ClosedSettled
<1>8. CASE m.rate_limits # <<>>
  BY <1>2, <1>4, <1>6, <1>8, ClosedSettled
<1> QED BY <1>7, <1>8

\* A settled record stays settled when the endpoint is paused.
LEMMA PausedSettled ==
  ASSUME Setting, NEW t, Settled(t), NEW pause \in 1..Day
  PROVE  Settled(Paused(t, pause)) /\ (pause >= Pause => Shut(Paused(t, pause)))
BY PausedSound DEF Settled

\* record_response settles the attempt, and after a 429 holds the endpoint for the pause.
LEMMA ResponseLemma ==
  ASSUME Setting, NEW t, NEW off, NEW w, Core(t, off, w), t.boot = boot.id, NEW r \in Responses
  PROVE  /\ Settled(record_response(t, r))
         /\ r.status = "limited" => Shut(record_response(t, r))
<1> DEFINE t1 == Resolved(prune(move_pending_to(t)))
           t2 == IF r.status # "ok" /\ r.after # NoTime THEN Paused(t1, r.after) ELSE t1
           remembered == [t2 EXCEPT !.rate_limits = Append(@, Elapsed)]
           limited == Paused(remembered, Larger(r.after, Pause))
           refused == [t2 EXCEPT !.refusals = Append(@, Elapsed)]
<1>1. prepare_boot(t) = t
  BY PrepareSame
<1>2. Settled(t1)
  BY SettledLemma
<1>3. r.after \in {NoTime} \union 1..Day /\ Day \in Nat /\ Pause \in 1..Day /\ NoTime = -1
      /\ Closure \in Nat /\ Closure <= Day /\ Closure >= Pause
  <2>1. r.after \in RetryAfter \union {NoTime}
    BY DEF Responses
  <2>2. RetryAfter \subseteq 1..Day
    BY TimesAreOrdered
  <2>3. Pause \in 1..Day /\ Day \in Nat /\ Closure \in Nat /\ Closure <= Day /\ Closure >= Pause
    BY Constants
  <2> QED BY <2>1, <2>2, <2>3 DEF NoTime
<1>4. record_response(t, r) =
        CASE r.status = "limited" ->
               IF Len(limited.rate_limits) >= 2
               THEN Closed(limited, Elapsed + Closure, "rate_limits") ELSE limited
          [] r.status = "refused" ->
               IF Len(refused.refusals) >= 3
               THEN Closed(refused, Elapsed + Closure, "refusals") ELSE refused
          [] OTHER -> t2
  BY <1>1 DEF record_response
<1> HIDE DEF t1
<1>5. Settled(t2)
  <2>1. CASE r.status # "ok" /\ r.after # NoTime
    <3>1. r.after \in 1..Day
      BY <2>1, <1>3
    <3> QED BY <3>1, <2>1, <1>2, PausedSettled
  <2>2. CASE ~(r.status # "ok" /\ r.after # NoTime)
    BY <2>2, <1>2
  <2> QED BY <2>1, <2>2
<1> HIDE DEF t2
<1>6. Settled(remembered) /\ Settled(refused)
  BY <1>5, RememberedSound DEF Settled
<1> HIDE DEF remembered, refused
<1>7. Larger(r.after, Pause) \in 1..Day /\ Larger(r.after, Pause) >= Pause
  BY <1>3 DEF Larger
<1>8. Settled(limited) /\ Shut(limited)
  BY <1>6, <1>7, PausedSettled
<1> HIDE DEF limited
<1>9. /\ Settled(Closed(limited, Elapsed + Closure, "rate_limits"))
      /\ Shut(Closed(limited, Elapsed + Closure, "rate_limits"))
      /\ Settled(Closed(refused, Elapsed + Closure, "refusals"))
  BY <1>3, <1>6, <1>8, ClosedSettled
<1>10. CASE r.status = "limited"
  BY <1>10, <1>4, <1>8, <1>9
<1>11. CASE r.status = "refused"
  BY <1>11, <1>4, <1>6, <1>9
<1>12. CASE r.status # "limited" /\ r.status # "refused"
  BY <1>12, <1>4, <1>5
<1> QED BY <1>10, <1>11, <1>12

\* record_not_handed_off takes the attempt back and nothing else.
LEMMA NotHandedOffLemma ==
  ASSUME Setting, NEW t, Core(t, 1, 0), t.boot = boot.id
  PROVE  Settled(record_not_handed_off(t))
<1> DEFINE u == prune(t)
<1>1. prepare_boot(t) = t
  BY PrepareSame
<1>2. Core(u, 1, 0)
  BY PruneSound
<1>3. u.boot = boot.id
  BY PruneRec DEF Core
<1> HIDE DEF u
<1>4. Settled(rollback_pending(u))
  BY <1>2, <1>3, RollbackSound DEF Settled
<1> QED BY <1>1, <1>4 DEF record_not_handed_off, u

-----------------------------------------------------------------------------
(* The decision to send.                                                    *)

\* The departures of the last day are no more than the times of the day.
LEMMA DayCount ==
  ASSUME NEW s, NEW n \in Nat, SeenOK(s, n), NEW c \in Nat,
         \A i \in 1..Len(s) : s[i].at > n - Day => Rank(s, i) <= c
  PROVE  Cardinality({ i \in 1..Len(s) : s[i].at > n - Day }) <= c
<1> DEFINE W == { i \in 1..Len(s) : s[i].at > n - Day }
<1>1. Len(s) \in Nat
  BY DEF SeenOK
<1>2. CASE W = {}
  <2>1. Cardinality(W) = 0
    <3> HIDE DEF W
    <3> QED BY <1>2, FS_EmptySet
  <2> QED BY <2>1
<1>3. CASE W # {}
  <2>1. W \in SUBSET Nat
    BY <1>1
  <2>2. PICK m \in W : \A i \in W : m <= i
    <3> HIDE DEF W
    <3> QED BY <1>3, <2>1, LeastNumber
  <2>3. m \in 1..Len(s) /\ Rank(s, m) <= c
    BY <2>2
  <2>4. W \in SUBSET (m..Len(s))
    BY <1>1, <2>2
  <2>5. IsFiniteSet(m..Len(s)) /\ Cardinality(m..Len(s)) = Len(s) - m + 1
    BY <1>1, <2>3, FS_Interval
  <2>6. IsFiniteSet(W) /\ Cardinality(W) <= Cardinality(m..Len(s))
    BY <2>4, <2>5, FS_Subset
  <2>7. Cardinality(W) \in Nat
    BY <2>6, FS_CardinalityType
  <2> HIDE DEF W
  <2>8. Cardinality(W) <= c
    BY <1>1, <2>3, <2>5, <2>6, <2>7 DEF Rank
  <2> QED BY <2>8 DEF W
<1> QED BY <1>2, <1>3

\* When the record says send, the contract allows the departure.
LEMMA SendIsAllowed ==
  ASSUME Setting, NEW t, Core(t, 0, 0), t.pending = NoTime, Calm(t), NEW k \in Keys,
         Answer(t, k) = "send"
  PROVE  MayGo(k, now, seen, told) /\ Len(t.daily) < DailyCeiling
<1> DEFINE a == boot.at
           sent == t.sends[k]
<1>1. /\ Elapsed \in Nat /\ a \in Nat /\ now = Elapsed + a /\ now \in Nat
      /\ Spacing \in Nat \ {0} /\ Pause \in Nat \ {0} /\ Day \in Nat \ {0}
      /\ DailyCeiling \in Nat \ {0} /\ BudgetLimit \in Nat \ {0} /\ BudgetWindow \in Nat \ {0}
      /\ BudgetWindow <= Day
  BY SettingFacts, Constants
<1>2. Rec(t, Elapsed) /\ Sound(t, 0, 0, now, a, seen)
  BY DEF Core
<1>3. /\ ~(t.closed > Elapsed) /\ ~(t.paused > Elapsed) /\ ~(t.boot_wait > Elapsed)
      /\ ~(Len(t.daily) >= DailyCeiling)
      /\ t.last_send = NoTime \/ t.last_send + Spacing <= Elapsed
      /\ Len(sent) < BudgetLimit \/ sent[Len(sent) - BudgetLimit + 1] + BudgetWindow <= Elapsed
  BY DEF Answer
<1>4. /\ t.closed \in Int /\ t.paused \in Int /\ t.boot_wait \in Int /\ t.last_send \in Int
      /\ Len(t.daily) \in Nat
  BY <1>2, RecFacts
<1>5. Len(t.daily) < DailyCeiling
  BY <1>1, <1>3, <1>4
<1>6. \A i \in 1..Len(seen) : seen[i].at \in Nat /\ seen[i].at <= now /\ seen[i].key \in Keys
                              /\ seen[i].at <= seen[Len(seen)].at
  BY SettingFacts DEF SeenOK
<1>7. Len(seen) \in Nat /\ seen \in Seq(Departure) /\ SeenOK(seen, now)
  BY SettingFacts
<1> HIDE DEF a, sent
<1>8. \A x \in Int : Held(t, now, a, x) => x <= now
  BY <1>1, <1>3, <1>4 DEF Held
<1>9. told = NoTime \/ now >= told + Pause
  <2>1. told # NoTime => told \in Nat /\ Held(t, now, a, told + Pause)
    BY <1>1 DEF Setting, World, Calm, Quiet, a
  <2> QED BY <2>1, <1>1, <1>8
<1>10. Silent(seen) => \A i \in 1..Len(seen) : seen[i].at <= now - Pause
  <2> SUFFICES ASSUME Silent(seen), NEW i \in 1..Len(seen)
               PROVE  seen[i].at <= now - Pause
    OBVIOUS
  <2>1. Len(seen) \in 1..Len(seen)
    BY <1>7
  <2>2. Held(t, now, a, seen[Len(seen)].at + Pause)
    BY DEF Calm, Quiet, a
  <2>3. seen[Len(seen)].at + Pause <= now
    BY <2>1, <2>2, <1>1, <1>6, <1>8
  <2>4. \A x, y \in Nat : x <= y /\ y + Pause <= now => x <= now - Pause
    BY <1>1
  <2>5. seen[i].at \in Nat /\ seen[Len(seen)].at \in Nat /\ seen[i].at <= seen[Len(seen)].at
    BY <2>1, <1>6
  <2> QED BY <2>3, <2>4, <2>5
<1>11. \A i \in 1..Len(seen) : seen[i].at <= now - Spacing
  <2> SUFFICES ASSUME NEW i \in 1..Len(seen)
               PROVE  seen[i].at <= now - Spacing
    OBVIOUS
  <2>1. t.last_send # NoTime /\ t.last_send + a >= seen[i].at
    BY <1>2 DEF Sound, LastBacked
  <2>2. t.last_send + Spacing <= Elapsed
    BY <2>1, <1>3
  <2>3. seen[i].at \in Nat
    BY <1>6
  <2>4. \A x \in Nat, l \in Int : l + a >= x /\ l + Spacing <= Elapsed => x <= now - Spacing
    BY <1>1
  <2> QED BY <2>1, <2>2, <2>3, <2>4, <1>4
<1>12. Cardinality({ i \in 1..Len(seen) : seen[i].at > now - Day }) < DailyCeiling
  <2> DEFINE W == { i \in 1..Len(seen) : seen[i].at > now - Day }
  <2>1. \A i \in 1..Len(seen) : seen[i].at > now - Day => Rank(seen, i) <= Len(t.daily)
    <3> SUFFICES ASSUME NEW i \in 1..Len(seen), seen[i].at > now - Day
                 PROVE  Rank(seen, i) <= Len(t.daily)
      OBVIOUS
    <3>1. Rank(seen, i) + 0 <= Len(t.daily)
      BY <1>2 DEF Sound, DayBacked, Backed
    <3>2. Rank(seen, i) \in Nat
      BY <1>7, RankType
    <3> QED BY <3>1, <3>2
  <2>2. Cardinality(W) <= Len(t.daily)
    BY <2>1, <1>1, <1>4, <1>7, DayCount
  <2>3. IsFiniteSet(1..Len(seen)) /\ W \in SUBSET (1..Len(seen))
    BY <1>7, FS_Interval
  <2>4. Cardinality(W) \in Nat
    BY <2>3, FS_Subset, FS_CardinalityType
  <2> HIDE DEF W
  <2>5. Cardinality(W) < DailyCeiling
    BY <2>2, <2>4, <1>1, <1>4, <1>5
  <2> QED BY <2>5 DEF W
<1>13. Cardinality({ i \in 1..Len(seen) : seen[i].at > now - BudgetWindow /\ seen[i].key = k })
         < BudgetLimit
  <2> DEFINE B == { i \in 1..Len(seen) : seen[i].at > now - BudgetWindow /\ seen[i].key = k }
  <2>1. CASE B = {}
    <3>1. Cardinality(B) = 0
      <4> HIDE DEF B
      <4> QED BY <2>1, FS_EmptySet
    <3> QED BY <3>1, <1>1
  <2>2. CASE B # {}
    <3>1. B \in SUBSET Nat
      BY <1>7
    <3>2. PICK m \in B : \A i \in B : m <= i
      <4> HIDE DEF B
      <4> QED BY <2>2, <3>1, LeastNumber
    <3>3. m \in 1..Len(seen) /\ seen[m].at > now - BudgetWindow /\ seen[m].key = k
      BY <3>2
    <3>4. B \in SUBSET OfKeyFrom(seen, m)
      BY <3>2, <3>3, <1>7 DEF OfKeyFrom
    <3>5. RankOfKey(seen, m) \in Nat \ {0} /\ IsFiniteSet(OfKeyFrom(seen, m))
      BY <3>3, <1>7, RankType
    <3>6. IsFiniteSet(B) /\ Cardinality(B) <= RankOfKey(seen, m)
      BY <3>4, <3>5, FS_Subset DEF RankOfKey
    <3>7. Cardinality(B) \in Nat
      BY <3>6, FS_CardinalityType
    <3> HIDE DEF B
    <3>8. seen[m].at > now - Day
      BY <3>3, <1>1, <1>6
    <3> DEFINE r == RankOfKey(seen, m)
    <3>9. Backed(sent, r, a, seen[m].at, 0)
      <4>1. /\ t.key = NoKey /\ seen[m].key # NoKey
        BY <1>2, <3>3, NoKeyIsNoMethod DEF Rec
      <4>2. ~Full(t, a, seen[m].at)
        BY <1>1, <1>4, <1>5 DEF Full
      <4> QED BY <4>1, <4>2, <3>3, <3>8, <1>2 DEF Sound, KeyBacked, sent
    <3> HIDE DEF r
    <3>10. sent \in Seq(Nat) /\ Len(sent) \in Nat /\ Sorted(sent) /\ \A i \in 1..Len(sent) : sent[i] \in Nat
      BY <1>2, SMTT(20) DEF Rec, TimesOK, sent
    <3>11. r \in Nat \ {0} /\ r <= Len(sent) /\ sent[Len(sent) - r + 1] + a >= seen[m].at
      BY <3>5, <3>9 DEF Backed, r
    <3>12. ASSUME Cardinality(B) >= BudgetLimit
           PROVE  FALSE
      <4>1. r >= BudgetLimit
        BY <3>5, <3>6, <3>7, <3>12, <1>1 DEF r
      <4>2. /\ Len(sent) - r + 1 \in 1..Len(sent) /\ Len(sent) - BudgetLimit + 1 \in 1..Len(sent)
            /\ Len(sent) - r + 1 <= Len(sent) - BudgetLimit + 1 /\ Len(sent) >= BudgetLimit
        BY <4>1, <3>10, <3>11, <1>1
      <4>3. sent[Len(sent) - r + 1] <= sent[Len(sent) - BudgetLimit + 1]
        BY <4>2, <3>10 DEF Sorted
      <4>4. sent[Len(sent) - r + 1] \in Nat /\ sent[Len(sent) - BudgetLimit + 1] \in Nat
        BY <4>2, <3>10
      <4>5. sent[Len(sent) - BudgetLimit + 1] + BudgetWindow <= Elapsed
        BY <4>2, <3>10, <1>1, <1>3
      <4>6. seen[m].at \in Nat
        BY <3>3, <1>6
      <4> QED BY <4>3, <4>4, <4>5, <4>6, <3>3, <3>11, <1>1, SMTT(20)
    <3>13. Cardinality(B) < BudgetLimit
      BY <3>7, <3>12, <1>1
    <3> QED BY <3>13 DEF B
  <2> QED BY <2>1, <2>2
<1> QED BY <1>5, <1>9, <1>10, <1>11, <1>12, <1>13 DEF MayGo

\* An attempt nobody resolved in time is counted as sent just now.
LEMMA ExpireLemma ==
  ASSUME Setting, NEW t, NEW off, Core(t, off, 0), t.boot = boot.id, t.pending # NoTime, Calm(t)
  PROVE  /\ Settled(ExpirePending(t)) /\ Calm(ExpirePending(t))
         /\ ExpirePending(t).last_send = Elapsed
<1> DEFINE v == move_pending_to(t)
           m == Resolved(v)
           c == [m EXCEPT !.closed = Elapsed + Closure, !.reason = "rate_limits"]
<1>1. /\ Elapsed \in Nat /\ Closure \in Nat /\ Closure < Day /\ Pause \in Nat /\ Pause <= Closure
      /\ Day \in Nat
  BY SettingFacts, Constants
<1>2. Rec(t, Elapsed)
  BY DEF Core
<1>3. Core(v, off, 0) /\ v.last_send = Elapsed /\ Calm(v) /\ t.key \in Keys
  BY <1>2, MoveSound, MoveRec, MoveCalm
<1>4. v.boot = boot.id
  <2>1. t.pending <= Elapsed /\ t.pending \in Int /\ Elapsed \in Int
    BY <1>2, SettingFacts DEF Rec
  <2>2. DOMAIN t = Fields /\ DOMAIN t.sends = Keys
    BY <1>2 DEF Rec
  <2>3. v.boot = t.boot
    BY <1>3, <2>1, <2>2, MoveFields
  <2> QED BY <2>3
<1> HIDE DEF v
<1>5. DOMAIN v = Fields
  BY <1>3 DEF Core, Rec
<1>6. Core(m, 0, 0) /\ m.pending = NoTime /\ Calm(m)
  BY <1>3, ResolvedSound
<1>7. m.boot = boot.id /\ m.last_send = Elapsed
  BY <1>3, <1>4, <1>5, ResolvedFields
<1> HIDE DEF m
<1>8. Rec(m, Elapsed) /\ DOMAIN m = Fields
  BY <1>6 DEF Core, Rec
<1>9. /\ DOMAIN c = Fields /\ c.empty = m.empty /\ c.boot = m.boot /\ c.last_send = m.last_send
      /\ c.daily = m.daily /\ c.paused = m.paused
      /\ c.paused_for = m.paused_for /\ c.refusals = m.refusals /\ c.rate_limits = m.rate_limits
      /\ c.boot_wait = m.boot_wait /\ c.sends = m.sends
      /\ c.pending = m.pending /\ c.key = m.key
      /\ c.closed = Elapsed + Closure /\ c.reason = "rate_limits"
  BY <1>8 DEF Fields
<1> HIDE DEF c
<1>10. Rec(c, Elapsed)
  <2>1. c.closed \in 0..(Elapsed + Day) /\ c.closed # NoTime
    BY <1>1, <1>9 DEF NoTime
  <2>2. {c.closed, c.paused, c.boot_wait} \subseteq {NoTime} \union 0..(Elapsed + Day)
    BY <2>1, <1>8, <1>9 DEF Rec
  <2> QED BY <2>1, <2>2, <1>8, <1>9 DEF Rec
<1>11. Core(c, 0, 0)
  BY <1>6, <1>9, <1>10, SoundSame
<1>12. Shut(c)
  BY <1>1, <1>9 DEF Shut
<1>13. Calm(c)
  BY <1>10, <1>12, ShutIsQuiet, SettingFacts DEF Calm, Setting, World
<1>14. ExpirePending(t) = IF m.rate_limits = <<>> THEN m ELSE c
  BY DEF ExpirePending, m, v, c
<1> QED BY <1>6, <1>7, <1>9, <1>11, <1>13, <1>14 DEF Settled

\* What a decision leaves: the record stays backed and calm, and when it says
\* send, the contract allows the departure it has recorded.
LEMMA DecideLemma ==
  ASSUME Setting, NEW t, NEW off, Core(t, off, 0), t.boot = boot.id, Calm(t),
         off = (IF t.pending = NoTime THEN 0 ELSE 1), NEW k \in Keys
  PROVE  LET d == decide(t, k) IN
         /\ Core(d.tally, IF d.tally.pending = NoTime THEN 0 ELSE 1, 0)
         /\ d.tally.boot = boot.id /\ Calm(d.tally)
         /\ d.says = "send" =>
              d.tally.pending # NoTime /\ d.tally.key = k /\ MayGo(k, now, seen, told)
<1> DEFINE t1 == prune(t)
           t2 == ExpirePending(t1)
           d == decide(t, k)
<1>1. prepare_boot(t) = t
  BY PrepareSame
<1>2. d = IF t1.pending # NoTime /\ t1.pending + UnresolvedAttempt > Elapsed
          THEN [tally |-> t1, says |-> "closed"]
          ELSE IF Answer(t2, k) = "send" THEN [tally |-> Sent(t2, k), says |-> "send"]
          ELSE [tally |-> t2, says |-> Answer(t2, k)]
  BY <1>1 DEF decide
<1>3. Core(t1, off, 0)
  BY PruneSound
<1>4. Rec(t, Elapsed)
  BY DEF Core
<1>5. t1.pending = t.pending /\ t1.boot = boot.id
  BY <1>4, PruneRec
<1>6. Calm(t1)
  BY <1>4, PruneCalm
<1> HIDE DEF d, t1
<1>7. CASE t1.pending # NoTime /\ t1.pending + UnresolvedAttempt > Elapsed
  <2>1. d.tally = t1 /\ d.says = "closed"
    BY <1>2, <1>7
  <2>2. Core(t1, IF t1.pending = NoTime THEN 0 ELSE 1, 0)
    BY <1>3, <1>5
  <2> QED BY <2>1, <2>2, <1>5, <1>6 DEF d
<1>8. CASE ~(t1.pending # NoTime /\ t1.pending + UnresolvedAttempt > Elapsed) /\ t1.pending # NoTime
  <2>1. Settled(t2) /\ Calm(t2) /\ t2.last_send = Elapsed
    BY <1>3, <1>5, <1>6, <1>8, ExpireLemma
  <2> HIDE DEF t2
  <2>2. Answer(t2, k) # "send"
    <3>1. Elapsed \in Nat /\ Spacing \in Nat \ {0} /\ Elapsed # NoTime
      BY SettingFacts, Constants DEF NoTime
    <3>2. ~(t2.last_send = NoTime \/ t2.last_send + Spacing <= Elapsed)
      BY <2>1, <3>1
    <3> QED BY <3>2 DEF Answer
  <2>3. d.tally = t2 /\ d.says # "send"
    BY <1>2, <1>8, <2>2
  <2>4. Core(t2, IF t2.pending = NoTime THEN 0 ELSE 1, 0)
    BY <2>1 DEF Settled
  <2> QED BY <2>1, <2>3, <2>4 DEF Settled, d
<1>9. CASE t1.pending = NoTime
  <2>1. t2 = t1
    BY <1>9 DEF ExpirePending
  <2>2. Core(t1, 0, 0)
    BY <1>3, <1>5, <1>9
  <2> HIDE DEF t2
  <2>3. CASE Answer(t2, k) = "send"
    <3>1. d.tally = Sent(t1, k) /\ d.says = "send"
      BY <1>2, <1>9, <2>1, <2>3
    <3>2. MayGo(k, now, seen, told) /\ Len(t1.daily) < DailyCeiling
      BY <1>6, <1>9, <2>1, <2>2, <2>3, SendIsAllowed
    <3>3. /\ Core(Sent(t1, k), 1, 0) /\ Sent(t1, k).pending # NoTime /\ Sent(t1, k).key = k
          /\ Sent(t1, k).boot = t1.boot
      BY <1>9, <2>2, <3>2, SentSound
    <3>4. Core(Sent(t1, k), IF Sent(t1, k).pending = NoTime THEN 0 ELSE 1, 0)
      BY <3>3
    <3>5. Calm(Sent(t1, k))
      <4>1. Pause \in Nat /\ now \in Nat
        BY SettingFacts, Constants
      <4>2. told # NoTime => told + Pause <= now
        BY <3>2, <4>1 DEF MayGo, Setting, World
      <4>3. Silent(seen) => seen[Len(seen)].at + Pause <= now
        <5> SUFFICES ASSUME Silent(seen) PROVE seen[Len(seen)].at + Pause <= now
          OBVIOUS
        <5>1. Len(seen) \in 1..Len(seen) /\ seen[Len(seen)].at \in Nat
          BY SettingFacts DEF Silent
        <5>2. seen[Len(seen)].at <= now - Pause
          BY <3>2, <5>1 DEF MayGo
        <5> QED BY <4>1, <5>1, <5>2
      <4> QED BY <4>2, <4>3 DEF Calm, Quiet, Held
    <3> QED BY <3>1, <3>2, <3>3, <3>4, <3>5, <1>5 DEF d
  <2>4. CASE Answer(t2, k) # "send"
    <3>1. d.tally = t1 /\ d.says # "send"
      BY <1>2, <1>9, <2>1, <2>4
    <3>2. Core(t1, IF t1.pending = NoTime THEN 0 ELSE 1, 0)
      BY <2>2, <1>9
    <3> QED BY <3>1, <3>2, <1>5, <1>6 DEF d
  <2> QED BY <2>3, <2>4
<1> QED BY <1>7, <1>8, <1>9

-----------------------------------------------------------------------------
(* From the record to the invariant and back.                               *)

\* Nobody knows any more whether the attempt left: it counts as the last one.
LEMMA Weaken ==
  ASSUME Setting, NEW t, NEW off, NEW w, Core(t, off, w), t.pending # NoTime
  PROVE  Core(t, 0, 1)
<1> DEFINE a == boot.at
<1>1. Rec(t, Elapsed) /\ off \in {0, 1} /\ w \in {0, 1} /\ (w = 1 => off = 0) /\ a \in Int
  BY SettingFacts DEF Core
<1>2. Sound(t, off, w, now, a, seen)
  BY DEF Core
<1> HIDE DEF a
<1>3. ASSUME NEW s, TimesOK(s, Elapsed), NEW r \in Nat \ {0}, NEW x \in Int,
             Backed(s, r + off, a, x, w)
      PROVE  Backed(s, r + 0, a, x, 1)
  <2>1. r + 0 = r
    OBVIOUS
  <2>2. CASE off = 0
    BY <1>1, <1>3, <2>1, <2>2 DEF Backed
  <2>3. CASE off = 1
    <3>1. Backed(s, r + 1, a, x, 0)
      BY <1>1, <1>3, <2>3
    <3>2. Backed(s, r, a, x, 0)
      BY <1>1, <1>3, <3>1, BackedLess
    <3>3. ~(r <= 0)
      OBVIOUS
    <3> QED BY <2>1, <3>2, <3>3 DEF Backed
  <2> QED BY <1>1, <2>2, <2>3
<1>4. ASSUME NEW i \in 1..Len(seen), seen[i].at > now - Day
      PROVE  /\ Backed(t.daily, Rank(seen, i) + 0, a, seen[i].at, 1)
             /\ \/ Full(t, a, seen[i].at)
                \/ /\ seen[i].key = t.key
                   /\ Backed(t.sends[seen[i].key], RankOfKey(seen, i) + 0, a, seen[i].at, 1)
                \/ /\ seen[i].key # t.key
                   /\ Backed(t.sends[seen[i].key], RankOfKey(seen, i), a, seen[i].at, 0)
  <2> DEFINE x == seen[i].at
             k == seen[i].key
  <2>1. x \in Int /\ k \in Keys
    BY SettingFacts
  <2>2. Rank(seen, i) \in Nat \ {0} /\ RankOfKey(seen, i) \in Nat \ {0}
    BY SettingFacts, RankType
  <2>3. /\ Backed(t.daily, Rank(seen, i) + off, a, x, w)
        /\ \/ off = 0 /\ Full(t, a, x)
           \/ k = t.key /\ Backed(t.sends[k], RankOfKey(seen, i) + off, a, x, w)
           \/ k # t.key /\ Backed(t.sends[k], RankOfKey(seen, i), a, x, 0)
    BY <1>2, <1>4 DEF Sound, DayBacked, KeyBacked
  <2>4. TimesOK(t.daily, Elapsed) /\ TimesOK(t.sends[k], Elapsed)
    BY <1>1, <2>1 DEF Rec
  <2> HIDE DEF x, k
  <2>5. Backed(t.daily, Rank(seen, i) + 0, a, x, 1)
    BY <1>3, <2>1, <2>2, <2>3, <2>4
  <2>6. Backed(t.sends[k], RankOfKey(seen, i) + off, a, x, w) =>
          Backed(t.sends[k], RankOfKey(seen, i) + 0, a, x, 1)
    BY <1>3, <2>1, <2>2, <2>4
  <2> QED BY <2>3, <2>5, <2>6 DEF x, k
<1>5. Sound(t, 0, 1, now, a, seen)
  BY <1>4 DEF Sound, DayBacked, KeyBacked
<1> QED BY <1>1, <1>5 DEF Core, a

\* The lanes the actions assign are lanes, and what every lane has.
LEMMA LaneTypes ==
  /\ NoLane \in Lanes /\ IdleLane \in Lanes /\ Idle(Unknown) \in Lanes
  /\ \A r \in Responses : Idle(r) \in Lanes
  /\ [IdleLane EXCEPT !.failed = TRUE] \in Lanes
  /\ \A k \in Keys : [IdleLane EXCEPT !.step = "decided", !.key = k] \in Lanes
  /\ NoLane.step = "none" /\ IdleLane.step = "idle"
  /\ NoLatch \notin Responses /\ Unknown \notin Responses
  /\ \A l \in Lanes : l # NoLane =>
       /\ l.step \in {"idle", "decided", "handed", "sent"}
       /\ l.latch \in Responses \union {NoLatch, Unknown}
       /\ l.key \in Keys \union {NoKey} /\ l.failed \in BOOLEAN
       /\ DOMAIN l = {"step", "key", "latch", "failed"}
       /\ l = [step |-> l.step, key |-> l.key, latch |-> l.latch, failed |-> l.failed]
  /\ \A l \in Lanes : l.step # "none" => l # NoLane
<1>1. NoLatch \notin Responses /\ Unknown \notin Responses
  BY DEF NoLatch, Unknown, Responses, Statuses
<1>2. \A l \in Lanes : l # NoLane =>
       /\ l.step \in {"idle", "decided", "handed", "sent"}
       /\ l.latch \in Responses \union {NoLatch, Unknown}
       /\ l.key \in Keys \union {NoKey} /\ l.failed \in BOOLEAN
       /\ DOMAIN l = {"step", "key", "latch", "failed"}
       /\ l = [step |-> l.step, key |-> l.key, latch |-> l.latch, failed |-> l.failed]
  BY DEF Lanes
<1>3. NoLane.step = "none" /\ IdleLane.step = "idle"
  BY DEF NoLane, IdleLane
<1>4. NoLane \in Lanes /\ IdleLane \in Lanes /\ Idle(Unknown) \in Lanes
  BY DEF Lanes, IdleLane, Idle
<1>5. \A r \in Responses : Idle(r) \in Lanes
  BY DEF Lanes, IdleLane, Idle
<1>6. /\ [IdleLane EXCEPT !.failed = TRUE] \in Lanes
      /\ \A k \in Keys : [IdleLane EXCEPT !.step = "decided", !.key = k] \in Lanes
  BY DEF Lanes, IdleLane
<1> QED BY <1>1, <1>2, <1>3, <1>4, <1>5, <1>6

\* A lane whose step or whose failure changes is a lane.
LEMMA LaneChanges ==
  ASSUME NEW l \in Lanes, l # NoLane
  PROVE  /\ [l EXCEPT !.failed = FALSE] \in Lanes
         /\ [l EXCEPT !.failed = FALSE].step = l.step
         /\ [l EXCEPT !.failed = FALSE].latch = l.latch
         /\ \A st \in {"handed", "sent"} :
              /\ [l EXCEPT !.step = st] \in Lanes /\ [l EXCEPT !.step = st] # NoLane
              /\ [l EXCEPT !.step = st].step = st
              /\ [l EXCEPT !.step = st].key = l.key
              /\ [l EXCEPT !.step = st].latch = l.latch
              /\ [l EXCEPT !.step = st].failed = l.failed
<1> DEFINE R == [ step: {"idle", "decided", "handed", "sent"}, key: Keys \union {NoKey},
                  latch: Responses \union {NoLatch, Unknown}, failed: BOOLEAN ]
<1>1. l \in R
  BY DEF Lanes
<1>2. \A x \in R : [x EXCEPT !.failed = FALSE] \in R
  OBVIOUS
<1>3. \A x \in R : \A st \in {"handed", "sent"} : [x EXCEPT !.step = st] \in R
  OBVIOUS
<1>4. \A x \in R : [x EXCEPT !.failed = FALSE].step = x.step /\ [x EXCEPT !.failed = FALSE].latch = x.latch
  OBVIOUS
<1>5. \A x \in R : \A st \in {"handed", "sent"} :
        /\ [x EXCEPT !.step = st].step = st
        /\ [x EXCEPT !.step = st].key = x.key
        /\ [x EXCEPT !.step = st].latch = x.latch
        /\ [x EXCEPT !.step = st].failed = x.failed
  OBVIOUS
<1>6. R \subseteq Lanes
  BY DEF Lanes
<1> HIDE DEF R
<1>7. NoLane.step = "none"
  BY DEF NoLane
<1>8. \A st \in {"handed", "sent"} : [l EXCEPT !.step = st] # NoLane
  <2> SUFFICES ASSUME NEW st \in {"handed", "sent"}, [l EXCEPT !.step = st] = NoLane PROVE FALSE
    OBVIOUS
  <2>1. [l EXCEPT !.step = st].step = st
    BY <1>1, <1>5
  <2> QED BY <2>1, <1>7
<1> QED BY <1>1, <1>2, <1>3, <1>4, <1>5, <1>6, <1>8

\* A lane is held only over a record of this boot.
LEMMA CurrentCore ==
  ASSUME TallyInv, lane # NoLane \/ tally.boot = boot.id
  PROVE  /\ Setting /\ tally.boot = boot.id
         /\ Core(tally, Off(tally, lane), Slack(tally, lane))
         /\ Slack(tally, lane) = 0 => Calm(tally)
<1>1. Setting
  BY DEF TallyInv, Setting
<1>2. Current(tally, lane, now, boot, seen, told)
  <2>1. boot.id \in Nat
    BY <1>1, Constants DEF Setting, World
  <2>2. ~Older(tally, lane, now, boot, seen)
    BY <2>1 DEF Older
  <2> QED BY <2>2 DEF TallyInv
<1>3. Core(tally, Off(tally, lane), Slack(tally, lane))
  BY <1>2 DEF Current, Core, Off, Slack, NotLeft, Elapsed
<1> QED BY <1>1, <1>2, <1>3 DEF Current, Calm

\* What makes a record of this boot.
LEMMA CurrentFrom ==
  ASSUME NEW t, NEW l, NEW off, NEW w, Core(t, off, w), t.boot = boot.id,
         off = Off(t, l), w = Slack(t, l), w = 0 => Calm(t)
  PROVE  Current(t, l, now, boot, seen, told)
BY DEF Current, Core, Calm, Elapsed

\* A settled record whose silence is kept is current under every lane.
LEMMA CurrentSettled ==
  ASSUME NEW t, NEW l, Settled(t), Calm(t)
  PROVE  Current(t, l, now, boot, seen, told)
<1>1. Off(t, l) = 0 /\ Slack(t, l) = 0
  BY DEF Off, Slack, NotLeft, Settled
<1> QED BY <1>1, CurrentFrom DEF Settled

\* A settled record that is shut keeps every silence.
LEMMA SettledShut ==
  ASSUME Setting, NEW t, Settled(t), Shut(t)
  PROVE  Calm(t)
<1>1. SeenOK(seen, now) /\ told \in {NoTime} \union 0..now
  BY SettingFacts DEF Setting, World
<1> QED BY <1>1, ShutIsQuiet DEF Settled, Core, Calm

\* The record kept while its attempt is given up without an outcome.
LEMMA CurrentWeak ==
  ASSUME Setting, NEW t, NEW off, NEW w, Core(t, off, w), t.boot = boot.id, t.pending # NoTime,
         NEW l, l.step \notin {"decided", "handed"}, l # IdleLane
  PROVE  Current(t, l, now, boot, seen, told)
<1>1. Off(t, l) = 0 /\ Slack(t, l) = 1
  BY DEF Off, Slack, NotLeft
<1>2. Core(t, 0, 1)
  BY Weaken
<1> QED BY <1>1, <1>2, CurrentFrom

\* The world's part of the invariant when only faults happen.
LEMMA WorldSame ==
  ASSUME TallyInv, UNCHANGED outside, faults' = faults \/ Fault
  PROVE  World(now, boot, seen, told, faults)'
<1>1. World(now, boot, seen, told, faults)
  BY DEF TallyInv
<1>2. faults \in 0..MaxFaults /\ MaxFaults \in Nat
  BY <1>1, Constants DEF World
<1>3. faults' \in 0..MaxFaults /\ faults' >= faults
  BY <1>2 DEF Fault
<1>4. boot.id \in 1..(faults + 1)
  BY <1>1 DEF World
<1>5. boot.id \in 1..(faults' + 1)
  BY <1>2, <1>3, <1>4
<1>6. now' = now /\ boot' = boot /\ seen' = seen /\ told' = told
  BY DEF outside
<1> QED BY <1>1, <1>3, <1>5, <1>6 DEF World

\* How the parts make the invariant of the next state when only the record,
\* the lane and the faults change.
LEMMA NextFrom ==
  ASSUME TallyInv, UNCHANGED outside, faults' = faults \/ Fault, torn' \in BOOLEAN,
         LaneOK(tally', lane', now, seen, told),
         \/ Current(tally', lane', now, boot, seen, told)
         \/ Older(tally', lane', now, boot, seen)
  PROVE  TallyInv'
<1>1. World(now, boot, seen, told, faults)'
  BY WorldSame
<1>2. now' = now /\ boot' = boot /\ seen' = seen /\ told' = told
  BY DEF outside
<1> QED BY <1>1, <1>2 DEF TallyInv

\* The lanes without an attempt ask nothing of the record.
LEMMA PlainLanes ==
  ASSUME NEW t, NEW n, NEW s, NEW td
  PROVE  /\ LaneOK(t, NoLane, n, s, td) /\ LaneOK(t, IdleLane, n, s, td)
         /\ LaneOK(t, Idle(Unknown), n, s, td)
         /\ LaneOK(t, [IdleLane EXCEPT !.failed = TRUE], n, s, td)
         /\ Idle(Unknown) # IdleLane /\ Idle(Unknown).step = "idle"
         /\ [IdleLane EXCEPT !.failed = TRUE] # IdleLane
         /\ [IdleLane EXCEPT !.failed = TRUE].step = "idle"
         /\ NoLane # IdleLane /\ NoLane.step = "none"
<1>1. LaneOK(t, NoLane, n, s, td) /\ NoLane # IdleLane /\ NoLane.step = "none"
  BY LaneTypes DEF LaneOK, NoLane, IdleLane
<1>2. IdleLane.step = "idle" /\ IdleLane.latch = NoLatch
  BY DEF IdleLane
<1>3. LaneOK(t, IdleLane, n, s, td)
  BY <1>2, LaneTypes DEF LaneOK
<1> DEFINE u == Idle(Unknown)
           f == [IdleLane EXCEPT !.failed = TRUE]
<1>4. u.step = "idle" /\ u.latch = Unknown /\ Unknown # NoLatch
  BY DEF Idle, IdleLane, Unknown, NoLatch
<1>5. f.step = "idle" /\ f.latch = NoLatch /\ f.failed = TRUE /\ IdleLane.failed = FALSE
  BY DEF IdleLane
<1> HIDE DEF u, f
<1>6. u \in Lanes /\ f \in Lanes
  BY LaneTypes DEF u, f
<1>7. LaneOK(t, u, n, s, td) /\ u # IdleLane
  BY <1>2, <1>4, <1>6, LaneTypes DEF LaneOK
<1>8. LaneOK(t, f, n, s, td) /\ f # IdleLane
  BY <1>2, <1>5, <1>6, LaneTypes DEF LaneOK
<1> QED BY <1>1, <1>3, <1>4, <1>5, <1>7, <1>8 DEF u, f

\* What the next process finds, and what it makes of it.
LEMMA Prepared ==
  ASSUME TallyInv, lane = NoLane
  PROVE  LET p == prepare_boot(tally) IN
         /\ Setting /\ p.boot = boot.id
         /\ Core(p, 0, IF p.pending = NoTime THEN 0 ELSE 1)
         /\ p.pending = NoTime => Calm(p)
<1> DEFINE p == prepare_boot(tally)
<1>1. Setting
  BY DEF TallyInv, Setting
<1>2. CASE Current(tally, lane, now, boot, seen, told)
  <2>1. tally.boot = boot.id
    BY <1>2 DEF Current
  <2>2. p = tally
    BY <2>1, PrepareSame
  <2>3. /\ Core(tally, Off(tally, lane), Slack(tally, lane))
        /\ Slack(tally, lane) = 0 => Calm(tally)
    BY <2>1, CurrentCore
  <2>4. Off(tally, lane) = 0 /\ Slack(tally, lane) = IF tally.pending = NoTime THEN 0 ELSE 1
    BY PlainLanes DEF Off, Slack, NotLeft
  <2> QED BY <1>1, <2>1, <2>2, <2>3, <2>4
<1>3. CASE Older(tally, lane, now, boot, seen)
  <2>1. Older(tally, NoLane, now, boot, seen)
    BY <1>3
  <2>2. /\ Core(p, 0, IF p.pending = NoTime THEN 0 ELSE 1)
        /\ p.boot = boot.id /\ Shut(p)
    <3>1. CASE tally = EmptyTally
      BY <1>1, <2>1, <3>1, PrepareLost
    <3>2. CASE tally # EmptyTally
      BY <1>1, <2>1, <3>2, PrepareKept
    <3> QED BY <3>1, <3>2
  <2> HIDE DEF p
  <2>3. p.pending = NoTime => Settled(p)
    BY <2>2 DEF Settled
  <2>4. p.pending = NoTime => Calm(p)
    BY <1>1, <2>2, <2>3, SettledShut
  <2> QED BY <1>1, <2>2, <2>4 DEF p
<1> QED BY <1>2, <1>3 DEF TallyInv

\* adopt_pending settles what the next process finds.
LEMMA AdoptLemma ==
  ASSUME TallyInv, lane = NoLane
  PROVE  Settled(adopt_pending(tally)) /\ Calm(adopt_pending(tally))
<1> DEFINE p == prepare_boot(tally)
           c == Resolved(prune(move_pending_to(p)))
<1>1. /\ Setting /\ p.boot = boot.id
      /\ Core(p, 0, IF p.pending = NoTime THEN 0 ELSE 1)
      /\ p.pending = NoTime => Calm(p)
  BY Prepared
<1>2. adopt_pending(tally) = IF p.pending = NoTime THEN prune(p)
        ELSE Closed(c, Elapsed + UnresolvedClosure, "unresolved")
  BY DEF adopt_pending
<1> HIDE DEF p
<1>3. CASE p.pending = NoTime
  <2>1. Core(p, 0, 0) /\ Rec(p, Elapsed)
    BY <1>1, <1>3 DEF Core
  <2>2. Core(prune(p), 0, 0) /\ prune(p).pending = NoTime /\ prune(p).boot = boot.id
    BY <1>1, <1>3, <2>1, PruneSound, PruneRec
  <2>3. Calm(prune(p))
    BY <1>1, <1>3, <2>1, PruneCalm
  <2> QED BY <1>2, <1>3, <2>2, <2>3 DEF Settled
<1>4. CASE p.pending # NoTime
  <2>1. Core(p, 0, 1)
    BY <1>1, <1>4
  <2>2. Settled(c)
    BY <1>1, <2>1, SettledLemma
  <2> HIDE DEF c
  <2>3. UnresolvedClosure \in Nat /\ UnresolvedClosure <= Day /\ UnresolvedClosure >= Pause
    BY Constants
  <2>4. /\ Settled(Closed(c, Elapsed + UnresolvedClosure, "unresolved"))
        /\ Shut(Closed(c, Elapsed + UnresolvedClosure, "unresolved"))
    BY <1>1, <2>2, <2>3, ClosedSettled
  <2> QED BY <1>1, <1>2, <1>4, <2>4, SettledShut
<1> QED BY <1>3, <1>4

\* The record after a transaction, and the variables it leaves alone.
LEMMA Transacted ==
  ASSUME TallyInv, NEW STATE new, Commits(new) \/ Fails(new)
  PROVE  /\ tally' = new \/ tally' = tally
         /\ torn' \in BOOLEAN
         /\ faults' = faults \/ Fault
BY DEF TallyInv, Commits, Fails

-----------------------------------------------------------------------------
(* Every action keeps the invariant.                                        *)

\* A process takes the endpoint over.
LEMMA InvAcquire == TallyInv /\ acquire => TallyInv'
<1> SUFFICES ASSUME TallyInv, acquire PROVE TallyInv'
  OBVIOUS
<1> DEFINE new == adopt_pending(tally)
<1>1. /\ lane = NoLane /\ UNCHANGED outside
      /\ \/ Commits(new) /\ lane' = IdleLane
         \/ Fails(new) /\ UNCHANGED lane
  BY DEF acquire
<1>2. Settled(new) /\ Calm(new)
  BY <1>1, AdoptLemma
<1> HIDE DEF new
<1>3. (tally' = new \/ tally' = tally) /\ torn' \in BOOLEAN /\ (faults' = faults \/ Fault)
  BY <1>1, Transacted
<1>4. LaneOK(tally', lane', now, seen, told)
  BY <1>1, PlainLanes
<1>5. CASE tally' = new
  BY <1>1, <1>2, <1>3, <1>4, <1>5, CurrentSettled, NextFrom
<1>6. CASE tally' = tally /\ lane' = lane
  BY <1>1, <1>3, <1>4, <1>6, NextFrom DEF TallyInv
<1> QED BY <1>1, <1>3, <1>5, <1>6 DEF Commits

\* A dead task's attempt is settled.
LEMMA InvSettleFailed == TallyInv /\ settle_failed_attempt => TallyInv'
<1> SUFFICES ASSUME TallyInv, settle_failed_attempt PROVE TallyInv'
  OBVIOUS
<1> DEFINE new == record_join_failure(tally)
<1>1. /\ lane.step = "idle" /\ lane.failed /\ UNCHANGED outside
      /\ \/ Commits(new) /\ lane' = [lane EXCEPT !.failed = FALSE]
         \/ Fails(new) /\ UNCHANGED lane
  BY DEF settle_failed_attempt
<1>2. lane \in Lanes /\ lane # NoLane /\ LaneOK(tally, lane, now, seen, told)
  BY <1>1, LaneTypes DEF TallyInv, LaneOK
<1>3. /\ Setting /\ tally.boot = boot.id
      /\ Core(tally, Off(tally, lane), Slack(tally, lane))
  BY <1>2, CurrentCore
<1>4. Settled(new) /\ Shut(new)
  BY <1>3, JoinFailureLemma
<1>5. Calm(new)
  BY <1>3, <1>4, SettledShut
<1> HIDE DEF new
<1>6. (tally' = new \/ tally' = tally) /\ torn' \in BOOLEAN /\ (faults' = faults \/ Fault)
  BY <1>1, Transacted
<1>7. \A t : LaneOK(t, lane, now, seen, told) /\ LaneOK(t, [lane EXCEPT !.failed = FALSE], now, seen, told)
  <2> DEFINE l == [lane EXCEPT !.failed = FALSE]
  <2>3. l \in Lanes /\ l.step = "idle" /\ l.latch = lane.latch
    BY <1>1, <1>2, LaneChanges
  <2> HIDE DEF l
  <2>4. \A t : LaneOK(t, lane, now, seen, told)
    BY <1>1, <1>2 DEF LaneOK
  <2>5. \A t : LaneOK(t, l, now, seen, told)
    BY <1>1, <1>2, <2>3 DEF LaneOK
  <2> QED BY <2>4, <2>5 DEF l
<1>8. LaneOK(tally', lane', now, seen, told)
  BY <1>1, <1>7
<1>9. CASE tally' = new
  BY <1>1, <1>4, <1>5, <1>6, <1>8, <1>9, CurrentSettled, NextFrom
<1>10. CASE tally' = tally /\ lane' = lane
  BY <1>1, <1>6, <1>8, <1>10, NextFrom DEF TallyInv
<1> QED BY <1>1, <1>6, <1>9, <1>10 DEF Commits

\* A latched outcome is recorded.
LEMMA InvSettleLatch == TallyInv /\ settle_latch => TallyInv'
<1> SUFFICES ASSUME TallyInv, settle_latch PROVE TallyInv'
  OBVIOUS
<1> DEFINE new == LatchedRecord
<1>1. /\ lane.step = "idle" /\ lane.latch # NoLatch /\ UNCHANGED outside
      /\ \/ Commits(new) /\ lane' = IdleLane
         \/ Fails(new) /\ UNCHANGED lane
  BY DEF settle_latch
<1>2. lane \in Lanes /\ lane # NoLane /\ LaneOK(tally, lane, now, seen, told)
  BY <1>1, LaneTypes DEF TallyInv, LaneOK
<1>3. /\ Setting /\ tally.boot = boot.id
      /\ Core(tally, Off(tally, lane), Slack(tally, lane))
  BY <1>2, CurrentCore
<1>4. Settled(new) /\ Calm(new)
  <2>1. CASE lane.latch = Unknown
    <3>1. new = record_unknown_outcome(tally)
      BY <2>1 DEF LatchedRecord
    <3>2. Settled(new) /\ Shut(new)
      BY <1>3, <3>1, UnknownOutcomeLemma
    <3> HIDE DEF new
    <3> QED BY <1>3, <3>2, SettledShut
  <2>2. CASE lane.latch # Unknown
    <3>1. lane.latch \in Responses
      BY <1>1, <1>2, <2>2, LaneTypes
    <3>2. new = record_response(tally, lane.latch)
      BY <2>2 DEF LatchedRecord
    <3>3. Settled(new) /\ (lane.latch.status = "limited" => Shut(new))
      BY <1>3, <3>1, <3>2, ResponseLemma
    <3>4. ~Silent(seen) /\ (lane.latch.status # "limited" => Passed(told, now))
      BY <1>1, <1>2, <3>1 DEF LaneOK
    <3> HIDE DEF new
    <3>5. told \in {NoTime} \union 0..now
      BY <1>3 DEF Setting, World
    <3>6. CASE lane.latch.status = "limited"
      BY <1>3, <3>3, <3>6, SettledShut
    <3>7. CASE lane.latch.status # "limited"
      BY <1>3, <3>3, <3>4, <3>5, <3>7, NothingToHold DEF Calm
    <3> QED BY <3>6, <3>7, <3>3
  <2> QED BY <2>1, <2>2
<1> HIDE DEF new
<1>6. (tally' = new \/ tally' = tally) /\ torn' \in BOOLEAN /\ (faults' = faults \/ Fault)
  BY <1>1, Transacted
<1>7. LaneOK(tally', lane', now, seen, told)
  <2>1. \A t : LaneOK(t, lane, now, seen, told)
    BY <1>1, <1>2 DEF LaneOK
  <2> QED BY <1>1, <2>1, PlainLanes
<1>8. CASE tally' = new
  BY <1>1, <1>4, <1>6, <1>7, <1>8, CurrentSettled, NextFrom
<1>9. CASE tally' = tally /\ lane' = lane
  BY <1>1, <1>6, <1>7, <1>9, NextFrom DEF TallyInv
<1> QED BY <1>1, <1>6, <1>8, <1>9 DEF Commits

\* A request is decided on and recorded.
LEMMA InvDecide ==
  ASSUME TallyInv, NEW k \in Keys, decide_and_record(k)
  PROVE  TallyInv'
<1> DEFINE d == decide(tally, k)
           chosen == [IdleLane EXCEPT !.step = "decided", !.key = k]
<1>1. /\ lane = IdleLane /\ UNCHANGED outside
      /\ \/ Commits(d.tally) /\ lane' = IF d.says = "send" THEN chosen ELSE lane
         \/ Fails(d.tally) /\ UNCHANGED lane
  BY DEF decide_and_record
<1>2. lane # NoLane
  BY <1>1, PlainLanes
<1>3. /\ Setting /\ tally.boot = boot.id
      /\ Core(tally, Off(tally, lane), Slack(tally, lane))
      /\ Slack(tally, lane) = 0 => Calm(tally)
  BY <1>2, CurrentCore
<1>4. \A t : Off(t, IdleLane) = (IF t.pending = NoTime THEN 0 ELSE 1) /\ Slack(t, IdleLane) = 0
  BY DEF Off, Slack, NotLeft
<1>5. /\ Core(d.tally, IF d.tally.pending = NoTime THEN 0 ELSE 1, 0)
      /\ d.tally.boot = boot.id /\ Calm(d.tally)
      /\ d.says = "send" =>
           d.tally.pending # NoTime /\ d.tally.key = k /\ MayGo(k, now, seen, told)
  <2>1. Core(tally, IF tally.pending = NoTime THEN 0 ELSE 1, 0) /\ Calm(tally)
    BY <1>1, <1>3, <1>4
  <2> QED BY <2>1, <1>3, DecideLemma
<1>6. /\ chosen.step = "decided" /\ chosen.key = k /\ chosen.latch = NoLatch
      /\ chosen.failed = FALSE /\ chosen \in Lanes /\ chosen # NoLane
  BY LaneTypes DEF IdleLane, NoLane
<1> HIDE DEF d, chosen
<1>7. (tally' = d.tally \/ tally' = tally) /\ torn' \in BOOLEAN /\ (faults' = faults \/ Fault)
  BY <1>1, Transacted
<1>8. CASE tally' = d.tally /\ lane' = IdleLane
  <2>1. Current(d.tally, IdleLane, now, boot, seen, told)
    BY <1>4, <1>5, CurrentFrom
  <2> QED BY <2>1, <1>1, <1>7, <1>8, PlainLanes, NextFrom
<1>9. CASE tally' = tally /\ lane' = lane
  BY <1>1, <1>7, <1>9, NextFrom DEF TallyInv
<1>10. CASE tally' = d.tally /\ lane' = chosen /\ d.says = "send"
  <2>1. Off(d.tally, chosen) = 1 /\ Slack(d.tally, chosen) = 0
    BY <1>5, <1>6, <1>10 DEF Off, Slack, NotLeft
  <2>2. Core(d.tally, 1, 0)
    BY <1>5, <1>10
  <2>3. Current(d.tally, chosen, now, boot, seen, told)
    BY <1>5, <2>1, <2>2, CurrentFrom
  <2>4. LaneOK(d.tally, chosen, now, seen, told)
    BY <1>5, <1>6, <1>10 DEF LaneOK
  <2> QED BY <2>3, <2>4, <1>1, <1>7, <1>10, NextFrom
<1> QED BY <1>1, <1>7, <1>8, <1>9, <1>10 DEF Commits

\* What is known of the record while an attempt is under way.
LEMMA UnderWay ==
  ASSUME TallyInv, lane.step \in {"decided", "handed", "sent"}
  PROVE  /\ Setting /\ tally.boot = boot.id /\ lane \in Lanes /\ lane # NoLane
         /\ tally.pending # NoTime /\ tally.key = lane.key
         /\ LaneOK(tally, lane, now, seen, told)
         /\ lane.step # "sent" => /\ Core(tally, 1, 0) /\ Calm(tally)
                                  /\ MayGo(lane.key, now, seen, told)
         /\ lane.step = "sent" => Core(tally, 0, 1) /\ Silent(seen) /\ Passed(told, now)
<1>1. lane \in Lanes /\ lane # NoLane /\ LaneOK(tally, lane, now, seen, told)
  BY LaneTypes DEF TallyInv, LaneOK
<1>2. /\ Setting /\ tally.boot = boot.id
      /\ Core(tally, Off(tally, lane), Slack(tally, lane))
      /\ Slack(tally, lane) = 0 => Calm(tally)
  BY <1>1, CurrentCore
<1>3. tally.pending # NoTime /\ tally.key = lane.key
  BY <1>1 DEF LaneOK
<1>4. lane.step # "sent" => Off(tally, lane) = 1 /\ Slack(tally, lane) = 0
  BY <1>3 DEF Off, Slack, NotLeft
<1>5. lane.step = "sent" => Off(tally, lane) = 0 /\ Slack(tally, lane) = 1
  BY <1>3 DEF Off, Slack, NotLeft, IdleLane
<1> QED BY <1>1, <1>2, <1>3, <1>4, <1>5 DEF LaneOK

\* A transaction whose failure leaves the outcome unknown.
LEMMA UnknownAfter ==
  ASSUME TallyInv, lane.step \in {"decided", "handed", "sent"}, UNCHANGED outside,
         torn' \in BOOLEAN, faults' = faults \/ Fault, tally' = tally,
         lane' = Idle(Unknown)
  PROVE  TallyInv'
<1>1. Setting /\ tally.boot = boot.id /\ tally.pending # NoTime
  BY UnderWay
<1>2. Core(tally, 1, 0) \/ Core(tally, 0, 1)
  BY UnderWay
<1>3. Current(tally, Idle(Unknown), now, boot, seen, told)
  BY <1>1, <1>2, CurrentWeak, PlainLanes
<1> QED BY <1>3, PlainLanes, NextFrom

\* A request that could not be built is taken back.
LEMMA InvNotBuilt == TallyInv /\ not_built => TallyInv'
<1> SUFFICES ASSUME TallyInv, not_built PROVE TallyInv'
  OBVIOUS
<1> DEFINE new == record_not_handed_off(tally)
<1>1. /\ lane.step = "decided" /\ UNCHANGED outside
      /\ \/ Commits(new) /\ lane' = IdleLane
         \/ Fails(new) /\ lane' = Idle(Unknown)
  BY DEF not_built
<1>2. /\ Setting /\ tally.boot = boot.id /\ Core(tally, 1, 0) /\ MayGo(lane.key, now, seen, told)
  BY <1>1, UnderWay
<1>3. Settled(new)
  BY <1>2, NotHandedOffLemma
<1> HIDE DEF new
<1>4. Calm(new)
  <2>1. Pause \in Nat /\ now \in Nat
    BY <1>2, SettingFacts, Constants
  <2>2. told # NoTime => told + Pause <= now
    BY <1>2, <2>1 DEF MayGo, Setting, World
  <2>3. Silent(seen) => seen[Len(seen)].at + Pause <= now
    <3> SUFFICES ASSUME Silent(seen) PROVE seen[Len(seen)].at + Pause <= now
      OBVIOUS
    <3>1. Len(seen) \in 1..Len(seen) /\ seen[Len(seen)].at \in Nat
      BY <1>2, SettingFacts DEF Silent
    <3>2. seen[Len(seen)].at <= now - Pause
      BY <1>2, <3>1 DEF MayGo
    <3> QED BY <2>1, <3>1, <3>2
  <2> QED BY <2>2, <2>3 DEF Calm, Quiet, Held
<1>5. (tally' = new \/ tally' = tally) /\ torn' \in BOOLEAN /\ (faults' = faults \/ Fault)
  BY <1>1, Transacted
<1>6. LaneOK(tally', lane', now, seen, told)
  BY <1>1, PlainLanes
<1>7. CASE tally' = new
  BY <1>1, <1>3, <1>4, <1>5, <1>6, <1>7, CurrentSettled, NextFrom
<1>8. CASE tally' = tally /\ lane' = Idle(Unknown)
  BY <1>1, <1>5, <1>8, UnknownAfter
<1> QED BY <1>1, <1>5, <1>7, <1>8 DEF Commits

\* The attempt is handed to the transport.
LEMMA InvHandOff == TallyInv /\ hand_off => TallyInv'
<1> SUFFICES ASSUME TallyInv, hand_off PROVE TallyInv'
  OBVIOUS
<1> DEFINE new == acknowledge_handoff(tally)
           handed == [lane EXCEPT !.step = "handed"]
<1>1. /\ lane.step = "decided" /\ UNCHANGED outside
      /\ \/ Commits(new) /\ lane' = handed
         \/ Fails(new) /\ lane' = Idle(Unknown)
  BY DEF hand_off
<1>2. /\ Setting /\ tally.boot = boot.id /\ Core(tally, 1, 0) /\ MayGo(lane.key, now, seen, told)
      /\ tally.pending # NoTime /\ tally.key = lane.key /\ Calm(tally)
      /\ lane \in Lanes /\ lane # NoLane /\ LaneOK(tally, lane, now, seen, told)
  BY <1>1, UnderWay
<1>3. new = prune(move_pending_to(tally))
  BY <1>2, PrepareSame DEF acknowledge_handoff
<1>4. /\ Core(new, 1, 0) /\ new.boot = boot.id /\ new.key = tally.key
      /\ new.pending = Elapsed /\ Calm(new)
  BY <1>2, <1>3, CountedLemma
<1>5. new.pending # NoTime
  BY <1>2, <1>4, SettingFacts DEF NoTime
<1> HIDE DEF new
<1>6. /\ handed \in Lanes /\ handed # NoLane /\ handed.step = "handed"
      /\ handed.key = lane.key /\ handed.latch = NoLatch /\ handed.failed = FALSE
  <2>1. lane.latch = NoLatch /\ lane.failed = FALSE
    BY <1>1, <1>2 DEF LaneOK
  <2> QED BY <1>2, <2>1, LaneChanges
<1> HIDE DEF handed
<1>7. (tally' = new \/ tally' = tally) /\ torn' \in BOOLEAN /\ (faults' = faults \/ Fault)
  BY <1>1, Transacted
<1>8. CASE tally' = new /\ lane' = handed
  <2>1. Off(new, handed) = 1 /\ Slack(new, handed) = 0
    BY <1>5, <1>6 DEF Off, Slack, NotLeft
  <2>2. Current(new, handed, now, boot, seen, told)
    BY <1>4, <2>1, CurrentFrom
  <2>3. LaneOK(new, handed, now, seen, told)
    BY <1>2, <1>4, <1>5, <1>6 DEF LaneOK
  <2> QED BY <2>2, <2>3, <1>1, <1>7, <1>8, NextFrom
<1>9. CASE tally' = new /\ lane' = Idle(Unknown)
  <2>1. Current(new, Idle(Unknown), now, boot, seen, told)
    BY <1>2, <1>4, <1>5, CurrentWeak, PlainLanes
  <2> QED BY <2>1, <1>1, <1>7, <1>9, PlainLanes, NextFrom
<1>10. CASE tally' = tally /\ lane' = Idle(Unknown)
  BY <1>1, <1>7, <1>10, UnknownAfter
<1> QED BY <1>1, <1>7, <1>8, <1>9, <1>10 DEF Commits

\* No answer came.
LEMMA InvTimeOut == TallyInv /\ time_out => TallyInv'
<1> SUFFICES ASSUME TallyInv, time_out PROVE TallyInv'
  OBVIOUS
<1> DEFINE new == record_unknown_outcome(tally)
<1>1. /\ lane.step \in {"handed", "sent"} /\ UNCHANGED outside
      /\ \/ Commits(new) /\ lane' = IdleLane
         \/ Fails(new) /\ lane' = Idle(Unknown)
  BY DEF time_out
<1>2. Setting /\ tally.boot = boot.id /\ (Core(tally, 1, 0) \/ Core(tally, 0, 1))
  BY <1>1, UnderWay
<1>3. Settled(new) /\ Shut(new)
  BY <1>2, UnknownOutcomeLemma
<1> HIDE DEF new
<1>4. Calm(new)
  BY <1>2, <1>3, SettledShut
<1>5. (tally' = new \/ tally' = tally) /\ torn' \in BOOLEAN /\ (faults' = faults \/ Fault)
  BY <1>1, Transacted
<1>6. LaneOK(tally', lane', now, seen, told)
  BY <1>1, PlainLanes
<1>7. CASE tally' = new
  BY <1>1, <1>3, <1>4, <1>5, <1>6, <1>7, CurrentSettled, NextFrom
<1>8. CASE tally' = tally /\ lane' = Idle(Unknown)
  BY <1>1, <1>5, <1>8, UnknownAfter
<1> QED BY <1>1, <1>5, <1>7, <1>8 DEF Commits

\* The attempt's task dies.
LEMMA InvTaskDies == TallyInv /\ task_dies => TallyInv'
<1> SUFFICES ASSUME TallyInv, task_dies PROVE TallyInv'
  OBVIOUS
<1> DEFINE l == [IdleLane EXCEPT !.failed = TRUE]
<1>1. /\ lane.step \in {"decided", "handed", "sent"} /\ lane' = l /\ Fault
      /\ tally' = tally /\ torn' = torn /\ UNCHANGED outside
  BY DEF task_dies
<1>2. Setting /\ tally.boot = boot.id /\ tally.pending # NoTime /\ (Core(tally, 1, 0) \/ Core(tally, 0, 1))
  BY <1>1, UnderWay
<1>3. l # IdleLane /\ l.step = "idle" /\ LaneOK(tally, l, now, seen, told)
  BY PlainLanes
<1> HIDE DEF l
<1>4. Current(tally, l, now, boot, seen, told)
  BY <1>2, <1>3, CurrentWeak
<1>5. torn' \in BOOLEAN
  BY <1>1 DEF TallyInv
<1> QED BY <1>1, <1>3, <1>4, <1>5, NextFrom

\* The process stops.
LEMMA InvCrash == TallyInv /\ crash => TallyInv'
<1> SUFFICES ASSUME TallyInv, crash PROVE TallyInv'
  OBVIOUS
<1>1. /\ lane # NoLane /\ lane' = NoLane /\ Fault
      /\ tally' = tally /\ torn' = torn /\ UNCHANGED outside
  BY DEF crash
<1>2. /\ Setting /\ tally.boot = boot.id
      /\ Core(tally, Off(tally, lane), Slack(tally, lane))
      /\ Slack(tally, lane) = 0 => Calm(tally)
  BY <1>1, CurrentCore
<1>3. NoLane # IdleLane /\ NoLane.step = "none" /\ LaneOK(tally, NoLane, now, seen, told)
  BY PlainLanes
<1>4. Current(tally, NoLane, now, boot, seen, told)
  <2>1. CASE tally.pending = NoTime
    <3>1. Off(tally, lane) = 0 /\ Slack(tally, lane) = 0
      BY <2>1 DEF Off, Slack, NotLeft
    <3>2. Settled(tally) /\ Calm(tally)
      BY <2>1, <3>1, <1>2 DEF Settled
    <3> QED BY <3>2, CurrentSettled
  <2>2. CASE tally.pending # NoTime
    BY <2>2, <1>2, <1>3, CurrentWeak
  <2> QED BY <2>1, <2>2
<1>5. torn' \in BOOLEAN
  BY <1>1 DEF TallyInv
<1> QED BY <1>1, <1>3, <1>4, <1>5, NextFrom

\* A torn pair is restored.
LEMMA InvRestore == TallyInv /\ restore_pair => TallyInv'
<1> SUFFICES ASSUME TallyInv, restore_pair PROVE TallyInv'
  OBVIOUS
<1>1. torn' = FALSE /\ tally' = tally /\ lane' = lane /\ faults' = faults /\ UNCHANGED outside
  BY DEF restore_pair
<1> QED BY <1>1, NextFrom DEF TallyInv

-----------------------------------------------------------------------------
(* The endpoint sees a departure and answers it.                            *)

\* One more departure: every earlier one moves one place from the end, and
\* among those of its own method only.
LEMMA DepartedLemma ==
  ASSUME NEW s, NEW n \in Nat, SeenOK(s, n), NEW k \in Keys
  PROVE  LET q == Append(s, [at |-> n, key |-> k, answered |-> FALSE]) IN
         /\ SeenOK(q, n) /\ Silent(q) /\ Len(q) = Len(s) + 1
         /\ \A i \in 1..Len(s) :
              /\ q[i] = s[i] /\ Rank(q, i) = Rank(s, i) + 1
              /\ s[i].key = k => RankOfKey(q, i) = RankOfKey(s, i) + 1
              /\ s[i].key # k => RankOfKey(q, i) = RankOfKey(s, i)
         /\ q[Len(q)].at = n /\ q[Len(q)].key = k
         /\ Rank(q, Len(q)) = 1 /\ RankOfKey(q, Len(q)) = 1
<1> DEFINE e == [at |-> n, key |-> k, answered |-> FALSE]
           q == Append(s, e)
<1>1. e \in Departure /\ e.at = n /\ e.key = k /\ e.answered = FALSE
  BY DEF Departure
<1>2. s \in Seq(Departure) /\ Len(s) \in Nat /\ \A i \in 1..Len(s) : s[i].at <= n
  BY DEF SeenOK
<1> HIDE DEF e
<1>3. /\ q \in Seq(Departure) /\ Len(q) = Len(s) + 1 /\ q[Len(s) + 1] = e
      /\ \A i \in 1..Len(s) : q[i] = s[i]
  BY <1>1, <1>2
<1> HIDE DEF q
<1>4. \A i \in 1..Len(q) : i \in 1..Len(s) \/ i = Len(s) + 1
  BY <1>2, <1>3
<1>5. SeenOK(q, n)
  <2>1. n <= n
    OBVIOUS
  <2>2. \A i \in 1..Len(q) : q[i].at <= n
    BY <1>1, <1>2, <1>3, <1>4, <2>1
  <2>3. q[Len(q)].at = n
    BY <1>1, <1>3
  <2> QED BY <1>3, <2>2, <2>3 DEF SeenOK
<1>6. Silent(q)
  <2>1. q # <<>>
    <3>1. Len(q) # 0
      BY <1>2, <1>3
    <3> QED BY <3>1
  <2> QED BY <1>1, <1>3, <2>1 DEF Silent
<1>7. ASSUME NEW i \in 1..Len(s)
      PROVE  /\ Rank(q, i) = Rank(s, i) + 1
             /\ s[i].key = k => RankOfKey(q, i) = RankOfKey(s, i) + 1
             /\ s[i].key # k => RankOfKey(q, i) = RankOfKey(s, i)
  <2>1. Rank(q, i) = Rank(s, i) + 1
    BY <1>2, <1>3 DEF Rank
  <2>2. IsFiniteSet(OfKeyFrom(s, i))
    BY RankType
  <2>3. \A j : j \in OfKeyFrom(q, i) <=>
          \/ j \in OfKeyFrom(s, i)
          \/ j = Len(s) + 1 /\ s[i].key = k
    <3>1. q[i] = s[i]
      BY <1>3
    <3>2. Len(s) + 1 \in 1..Len(q) /\ Len(s) + 1 >= i /\ q[Len(s) + 1].key = k
      BY <1>1, <1>2, <1>3
    <3>3. \A j \in 1..Len(s) : j \in 1..Len(q) /\ q[j] = s[j]
      BY <1>2, <1>3
    <3>4. ASSUME NEW j, j \in OfKeyFrom(q, i)
          PROVE  j \in OfKeyFrom(s, i) \/ (j = Len(s) + 1 /\ s[i].key = k)
      <4>1. j \in 1..Len(q) /\ j >= i /\ q[j].key = s[i].key
        BY <3>1, <3>4 DEF OfKeyFrom
      <4>2. CASE j \in 1..Len(s)
        BY <4>1, <4>2, <3>3 DEF OfKeyFrom
      <4>3. CASE j = Len(s) + 1
        BY <4>1, <4>3, <3>2
      <4> QED BY <4>1, <4>2, <4>3, <1>4
    <3>5. ASSUME NEW j, j \in OfKeyFrom(s, i) PROVE j \in OfKeyFrom(q, i)
      BY <3>1, <3>3, <3>5 DEF OfKeyFrom
    <3>6. s[i].key = k => Len(s) + 1 \in OfKeyFrom(q, i)
      BY <3>1, <3>2 DEF OfKeyFrom
    <3> QED BY <3>4, <3>5, <3>6
  <2>4. Len(s) + 1 \notin OfKeyFrom(s, i)
    BY <1>2 DEF OfKeyFrom
  <2>5. CASE s[i].key = k
    <3>1. OfKeyFrom(q, i) = OfKeyFrom(s, i) \union {Len(s) + 1}
      BY <2>3, <2>5
    <3> QED BY <2>1, <2>2, <2>4, <2>5, <3>1, FS_AddElement DEF RankOfKey
  <2>6. CASE s[i].key # k
    <3>1. OfKeyFrom(q, i) = OfKeyFrom(s, i)
      BY <2>3, <2>6
    <3> QED BY <2>1, <2>6, <3>1 DEF RankOfKey
  <2> QED BY <2>5, <2>6
<1>8. Rank(q, Len(q)) = 1 /\ RankOfKey(q, Len(q)) = 1
  <2>1. OfKeyFrom(q, Len(q)) = {Len(q)}
    BY <1>2, <1>3 DEF OfKeyFrom
  <2>2. Cardinality({Len(q)}) = 1
    BY FS_Singleton
  <2>3. Rank(q, Len(q)) = 1
    BY <1>2, <1>3 DEF Rank
  <2> QED BY <2>1, <2>2, <2>3 DEF RankOfKey
<1> QED BY <1>1, <1>3, <1>5, <1>6, <1>7, <1>8 DEF q, e

\* The time kept for the attempt becomes the departure's own.
LEMMA DepartedSound ==
  ASSUME Setting, NEW t, Core(t, 1, 0), t.pending # NoTime, NEW k \in Keys, t.key = k
  PROVE  LET q == Append(seen, [at |-> now, key |-> k, answered |-> FALSE]) IN
         Sound(t, 0, 1, now, boot.at, q)
<1> DEFINE q == Append(seen, [at |-> now, key |-> k, answered |-> FALSE])
           a == boot.at
<1>1. now \in Nat /\ SeenOK(seen, now) /\ Len(seen) \in Nat
  BY SettingFacts
<1>2. /\ Len(q) = Len(seen) + 1
      /\ \A i \in 1..Len(seen) :
              /\ q[i] = seen[i] /\ Rank(q, i) = Rank(seen, i) + 1
              /\ seen[i].key = k => RankOfKey(q, i) = RankOfKey(seen, i) + 1
              /\ seen[i].key # k => RankOfKey(q, i) = RankOfKey(seen, i)
      /\ q[Len(q)].at = now /\ q[Len(q)].key = k
      /\ Rank(q, Len(q)) = 1 /\ RankOfKey(q, Len(q)) = 1
  BY <1>1, DepartedLemma
<1> HIDE DEF q, a
<1>3. Sound(t, 1, 0, now, a, seen) /\ Rec(t, Elapsed)
  BY DEF Core, a
<1>4. Len(t.daily) \in Nat /\ Len(t.daily) >= 1 /\ Len(t.sends[k]) \in Nat /\ Len(t.sends[k]) >= 1
  <2>1. TimesOK(t.daily, Elapsed) /\ TimesOK(t.sends[k], Elapsed)
    BY <1>3 DEF Rec
  <2>2. EndsWith(t.daily, t.pending) /\ EndsWith(t.sends[k], t.pending)
    BY <1>3 DEF Rec
  <2>3. \A x \in Seq(Nat) : x # <<>> => Len(x) \in Nat /\ Len(x) >= 1
    OBVIOUS
  <2> QED BY <2>1, <2>2, <2>3 DEF TimesOK, EndsWith
<1>5. \A x, r, y : Backed(x, r, a, y, 0) /\ r \in Nat => Backed(x, r, a, y, 1)
  BY DEF Backed
<1>6. ASSUME NEW i \in 1..Len(seen), seen[i].at > now - Day
      PROVE  /\ Backed(t.daily, Rank(q, i) + 0, a, q[i].at, 1)
             /\ \/ /\ q[i].key = t.key
                   /\ Backed(t.sends[q[i].key], RankOfKey(q, i) + 0, a, q[i].at, 1)
                \/ /\ q[i].key # t.key
                   /\ Backed(t.sends[q[i].key], RankOfKey(q, i), a, q[i].at, 0)
  <2> DEFINE x == seen[i].at
             m == seen[i].key
             r == Rank(seen, i)
             o == RankOfKey(seen, i)
  <2>1. r \in Nat /\ o \in Nat
    BY <1>1, RankType
  <2>2. /\ Backed(t.daily, r + 1, a, x, 0)
        /\ \/ m = k /\ Backed(t.sends[m], o + 1, a, x, 0)
           \/ m # k /\ Backed(t.sends[m], o, a, x, 0)
    BY <1>3, <1>6 DEF Sound, DayBacked, KeyBacked
  <2>3. /\ q[i].at = x /\ q[i].key = m /\ Rank(q, i) = r + 1
        /\ m = k => RankOfKey(q, i) = o + 1
        /\ m # k => RankOfKey(q, i) = o
    BY <1>2
  <2> HIDE DEF x, m, r, o
  <2>4. r + 1 \in Nat /\ o + 1 \in Nat /\ (r + 1) + 0 = r + 1 /\ (o + 1) + 0 = o + 1
    BY <2>1
  <2>5. Backed(t.daily, r + 1, a, x, 1)
    BY <1>5, <2>2, <2>4
  <2>6. m = k => Backed(t.sends[m], o + 1, a, x, 1)
    BY <1>5, <2>2, <2>4
  <2> QED BY <2>2, <2>3, <2>4, <2>5, <2>6
<1>7. /\ Backed(t.daily, Rank(q, Len(q)) + 0, a, q[Len(q)].at, 1)
      /\ q[Len(q)].key = t.key
      /\ Backed(t.sends[q[Len(q)].key], RankOfKey(q, Len(q)) + 0, a, q[Len(q)].at, 1)
  <2>1. \A y \in Nat : Backed(t.daily, 1, a, y, 1) /\ Backed(t.sends[k], 1, a, y, 1)
    BY <1>4 DEF Backed
  <2>2. 1 + 0 = 1
    OBVIOUS
  <2> QED BY <1>1, <1>2, <2>1, <2>2
<1>8. \A i \in 1..Len(q) : i = Len(q) \/ (i \in 1..Len(seen) /\ q[i] = seen[i])
  BY <1>1, <1>2
<1>9. DayBacked(t, 0, 1, now, a, q)
  BY <1>6, <1>7, <1>8 DEF DayBacked
<1>10. KeyBacked(t, 0, 1, now, a, q)
  BY <1>6, <1>7, <1>8 DEF KeyBacked
<1> QED BY <1>9, <1>10 DEF Sound, q, a

\* The request reaches the endpoint.
LEMMA InvDepart == TallyInv /\ depart => TallyInv'
<1> SUFFICES ASSUME TallyInv, depart PROVE TallyInv'
  OBVIOUS
<1> DEFINE q == Append(seen, [at |-> now, key |-> lane.key, answered |-> FALSE])
           l == [lane EXCEPT !.step = "sent"]
<1>1. /\ lane.step = "handed" /\ lane' = l /\ seen' = q
      /\ UNCHANGED <<now, boot, tally, torn, told, faults>>
  BY DEF depart
<1>2. /\ Setting /\ tally.boot = boot.id /\ Core(tally, 1, 0) /\ MayGo(lane.key, now, seen, told)
      /\ tally.pending # NoTime /\ tally.key = lane.key
      /\ lane \in Lanes /\ lane # NoLane /\ LaneOK(tally, lane, now, seen, told)
  BY <1>1, UnderWay
<1>3. lane.key \in Keys
  <2>1. Rec(tally, Elapsed)
    BY <1>2 DEF Core
  <2> QED BY <1>2, <2>1 DEF Rec
<1>4. SeenOK(q, now) /\ Silent(q)
  BY <1>2, <1>3, SettingFacts, DepartedLemma
<1>5. Sound(tally, 0, 1, now, boot.at, q)
  BY <1>2, <1>3, DepartedSound
<1>6. /\ l \in Lanes /\ l # NoLane /\ l.step = "sent" /\ l.key = lane.key
      /\ l.latch = NoLatch /\ l.failed = FALSE
  <2>1. lane.latch = NoLatch /\ lane.failed = FALSE
    BY <1>1, <1>2 DEF LaneOK
  <2> QED BY <1>2, <2>1, LaneChanges
<1> HIDE DEF q, l
<1>7. Passed(told, now)
  <2>1. Pause \in Nat /\ now \in Nat /\ told \in {NoTime} \union 0..now
    BY <1>2, Constants, SettingFacts DEF Setting, World
  <2> QED BY <1>2, <2>1 DEF MayGo, Passed
<1>8. World(now, boot, q, told, faults)
  BY <1>2, <1>4 DEF Setting, World
<1>9. LaneOK(tally, l, now, q, told)
  BY <1>2, <1>4, <1>6, <1>7 DEF LaneOK
<1>10. Off(tally, l) = 0 /\ Slack(tally, l) = 1
  BY <1>2, <1>6, PlainLanes, LaneTypes DEF Off, Slack, NotLeft
<1>11. Rec(tally, now - boot.at)
  BY <1>2 DEF Core, Elapsed
<1>12. Current(tally, l, now, boot, q, told)
  BY <1>2, <1>5, <1>10, <1>11 DEF Current
<1> QED BY <1>1, <1>8, <1>9, <1>12 DEF TallyInv

\* An answer changes neither when nor of which method the departures were.
LEMMA AnsweredLemma ==
  ASSUME NEW s, NEW n, SeenOK(s, n), s # <<>>
  PROVE  LET q == [s EXCEPT ![Len(s)].answered = TRUE] IN
         /\ SeenOK(q, n) /\ ~Silent(q) /\ Len(q) = Len(s)
         /\ \A i \in 1..Len(s) :
              /\ q[i].at = s[i].at /\ q[i].key = s[i].key
              /\ Rank(q, i) = Rank(s, i) /\ RankOfKey(q, i) = RankOfKey(s, i)
<1> DEFINE q == [s EXCEPT ![Len(s)].answered = TRUE]
<1>1. s \in Seq(Departure) /\ Len(s) \in Nat /\ Len(s) \in 1..Len(s)
  BY DEF SeenOK
<1>2. \A i \in 1..Len(s) : s[i] \in Departure
  BY <1>1
<1>3. \A d \in Departure : /\ [d EXCEPT !.answered = TRUE] \in Departure
                           /\ [d EXCEPT !.answered = TRUE].at = d.at
                           /\ [d EXCEPT !.answered = TRUE].key = d.key
                           /\ [d EXCEPT !.answered = TRUE].answered = TRUE
  BY DEF Departure
<1> DEFINE d == [s[Len(s)] EXCEPT !.answered = TRUE]
<1>4. q = [s EXCEPT ![Len(s)] = d]
  OBVIOUS
<1>41. /\ d \in Departure /\ d.at = s[Len(s)].at
       /\ d.key = s[Len(s)].key /\ d.answered = TRUE
  BY <1>1, <1>2, <1>3
<1> HIDE DEF q, d
<1>42. DOMAIN s = 1..Len(s)
  BY <1>1
<1>43. \A i \in 1..Len(s) : q[i] = IF i = Len(s) THEN d ELSE s[i]
  BY <1>4, <1>42
<1>5. \A i \in 1..Len(s) : q[i] \in Departure /\ q[i].at = s[i].at /\ q[i].key = s[i].key
  BY <1>2, <1>41, <1>43
<1>6. q \in Seq(Departure) /\ Len(q) = Len(s)
  <2>1. q = [i \in 1..Len(s) |-> q[i]]
    BY <1>4, <1>42
  <2>2. [i \in 1..Len(s) |-> q[i]] \in Seq(Departure) /\ Len([i \in 1..Len(s) |-> q[i]]) = Len(s)
    BY <1>1, <1>5
  <2> QED BY <2>1, <2>2
<1>7. q[Len(q)].answered
  BY <1>1, <1>41, <1>43, <1>6
<1>8. SeenOK(q, n)
  BY <1>1, <1>5, <1>6 DEF SeenOK
<1>9. \A i \in 1..Len(s) : Rank(q, i) = Rank(s, i)
  BY <1>6 DEF Rank
<1>10. \A i \in 1..Len(s) : OfKeyFrom(q, i) = OfKeyFrom(s, i)
  BY <1>5, <1>6 DEF OfKeyFrom
<1> QED BY <1>5, <1>6, <1>7, <1>8, <1>9, <1>10 DEF q, RankOfKey, Silent

\* An answer changes no count.
LEMMA AnsweredSound ==
  ASSUME NEW s, NEW n, SeenOK(s, n), s # <<>>, NEW t, NEW off, NEW w, NEW a,
         Sound(t, off, w, n, a, s)
  PROVE  Sound(t, off, w, n, a, [s EXCEPT ![Len(s)].answered = TRUE])
<1> DEFINE q == [s EXCEPT ![Len(s)].answered = TRUE]
<1>1. /\ Len(q) = Len(s)
      /\ \A i \in 1..Len(s) :
              /\ q[i].at = s[i].at /\ q[i].key = s[i].key
              /\ Rank(q, i) = Rank(s, i) /\ RankOfKey(q, i) = RankOfKey(s, i)
  BY AnsweredLemma
<1> HIDE DEF q
<1>2. DayBacked(t, off, w, n, a, q)
  BY <1>1 DEF Sound, DayBacked
<1>3. KeyBacked(t, off, w, n, a, q)
  BY <1>1 DEF Sound, KeyBacked
<1>4. w = 0 => LastBacked(t, a, q)
  BY <1>1 DEF Sound, LastBacked
<1> QED BY <1>2, <1>3, <1>4 DEF Sound, q

\* The status line is observed, and recorded or latched.
LEMMA InvObserve ==
  ASSUME TallyInv, NEW r \in Responses, observe(r)
  PROVE  TallyInv'
<1> DEFINE new == record_response(tally, r)
           q == [seen EXCEPT ![Len(seen)].answered = TRUE]
           td == IF r.status = "limited" THEN now ELSE told
           latch == IF r.status = "ok" THEN Unknown ELSE r
<1>1. /\ lane.step = "sent" /\ told' = td /\ seen' = q /\ now' = now /\ boot' = boot
      /\ \/ Commits(new) /\ lane' = IdleLane
         \/ Fails(new) /\ lane' = Idle(latch)
  BY DEF observe
<1>2. /\ Setting /\ tally.boot = boot.id /\ tally.pending # NoTime
      /\ Core(tally, 0, 1) /\ Silent(seen) /\ Passed(told, now)
  BY <1>1, UnderWay
<1>3. Settled(new) /\ (r.status = "limited" => Shut(new))
  BY <1>2, ResponseLemma
<1>4. SeenOK(seen, now) /\ seen # <<>> /\ now \in Nat /\ told \in {NoTime} \union 0..now
  BY <1>2, SettingFacts DEF Silent, Setting, World
<1>5. SeenOK(q, now) /\ ~Silent(q)
  BY <1>4, AnsweredLemma
<1>6. Sound(new, 0, 0, now, boot.at, q)
  BY <1>3, <1>4, AnsweredSound DEF Settled, Core
<1>7. Sound(tally, 0, 1, now, boot.at, q)
  BY <1>2, <1>4, AnsweredSound DEF Core
<1>8. td \in {NoTime} \union 0..now /\ (r.status # "limited" => Passed(td, now))
  BY <1>2, <1>4
<1> HIDE DEF new, q, td
<1>9. (tally' = new \/ tally' = tally) /\ torn' \in BOOLEAN /\ (faults' = faults \/ Fault)
  BY <1>1, Transacted
<1>10. World(now, boot, q, td, faults')
  <2>1. faults \in 0..MaxFaults /\ MaxFaults \in Nat /\ boot.id \in 1..(faults + 1)
    BY <1>2, Constants DEF Setting, World
  <2>2. faults' \in 0..MaxFaults /\ boot.id \in 1..(faults' + 1)
    BY <2>1, <1>9 DEF Fault
  <2> QED BY <1>2, <1>5, <1>8, <2>2 DEF Setting, World
<1>11. Quiet(new, now, boot.at, q, td)
  <2>1. Rec(new, Elapsed)
    BY <1>3 DEF Settled, Core
  <2>2. CASE r.status = "limited"
    BY <1>2, <1>3, <1>5, <1>8, <2>1, <2>2, ShutIsQuiet
  <2>3. CASE r.status # "limited"
    BY <1>2, <1>5, <1>8, <2>3, NothingToHold
  <2> QED BY <2>2, <2>3
<1>12. \A l : Current(new, l, now, boot, q, td)
  <2>1. \A l : Off(new, l) = 0 /\ Slack(new, l) = 0
    BY <1>3 DEF Off, Slack, NotLeft, Settled
  <2>2. Rec(new, now - boot.at) /\ new.boot = boot.id
    BY <1>3 DEF Settled, Core, Elapsed
  <2> QED BY <1>6, <1>11, <2>1, <2>2 DEF Current
<1>13. /\ Idle(latch).step = "idle" /\ Idle(latch) # IdleLane
       /\ \A t : LaneOK(t, Idle(latch), now, q, td)
  <2>1. CASE r.status = "ok"
    BY <2>1, PlainLanes
  <2>2. CASE r.status # "ok"
    <3>1. Idle(r).step = "idle" /\ Idle(r).latch = r /\ Idle(r) \in Lanes
      BY LaneTypes DEF Idle, IdleLane
    <3>2. IdleLane.latch = NoLatch /\ NoLatch \notin Responses
      BY LaneTypes DEF IdleLane
    <3>3. Idle(r) # IdleLane
      BY <3>1, <3>2
    <3>4. \A t : LaneOK(t, Idle(r), now, q, td)
      BY <3>1, <1>5, <1>8, <2>2 DEF LaneOK
    <3> QED BY <2>2, <3>1, <3>3, <3>4
  <2> QED BY <2>1, <2>2
<1> HIDE DEF latch
<1>14. LaneOK(tally', lane', now, q, td)
  BY <1>1, <1>13, PlainLanes
<1>15. CASE tally' = new
  BY <1>1, <1>9, <1>10, <1>12, <1>14, <1>15 DEF TallyInv
<1>16. CASE tally' = tally /\ lane' = Idle(latch)
  <2>1. Off(tally, Idle(latch)) = 0 /\ Slack(tally, Idle(latch)) = 1
    BY <1>2, <1>13 DEF Off, Slack, NotLeft
  <2>2. Rec(tally, now - boot.at)
    BY <1>2 DEF Core, Elapsed
  <2>3. Current(tally, Idle(latch), now, boot, q, td)
    BY <1>2, <1>7, <2>1, <2>2 DEF Current
  <2> QED BY <1>1, <1>9, <1>10, <1>14, <1>16, <2>3 DEF TallyInv
<1> QED BY <1>1, <1>9, <1>15, <1>16 DEF Commits

-----------------------------------------------------------------------------
(* Restarts, emptied records and time.                                      *)

\* A record stays one as time passes.
LEMMA RecLater ==
  ASSUME NEW t, NEW d \in Nat, NEW e \in Nat, d <= e, Rec(t, d)
  PROVE  Rec(t, e)
<1>1. \A s : TimesOK(s, d) => TimesOK(s, e)
  BY TimesLater
<1>2. Day \in Nat
  BY Constants
<1>3. \A x : x \in {NoTime} \union 0..d => x \in {NoTime} \union 0..e
  OBVIOUS
<1>4. \A x : x \in {NoTime} \union 0..(d + Day) => x \in {NoTime} \union 0..(e + Day)
  BY <1>2
<1>5. {t.closed, t.paused, t.boot_wait} \subseteq {NoTime} \union 0..(e + Day)
  <2>1. \A x \in {t.closed, t.paused, t.boot_wait} : x \in {NoTime} \union 0..(d + Day)
    BY DEF Rec
  <2> QED BY <1>4, <2>1
<1>6. /\ t.last_send \in {NoTime} \union 0..e
      /\ t.pending \in {NoTime} \union 0..e
  BY <1>3 DEF Rec
<1> QED BY <1>1, <1>5, <1>6 DEF Rec

\* Whatever the record says of times, it has one for every departure of the day.
LEMMA EveryRecord ==
  ASSUME TallyInv
  PROVE  /\ Stale(tally, now, seen)
         /\ tally = EmptyTally \/ Rec(tally, MaxTime)
<1>1. CASE Older(tally, lane, now, boot, seen)
  BY <1>1 DEF Older
<1>2. CASE Current(tally, lane, now, boot, seen, told)
  <2> DEFINE off == Off(tally, lane)
             w == Slack(tally, lane)
             a == boot.at
  <2>1. Setting
    BY DEF TallyInv, Setting
  <2>2. Rec(tally, Elapsed) /\ Sound(tally, off, w, now, a, seen)
    BY <1>2 DEF Current, Elapsed
  <2>3. off \in {0, 1} /\ (tally.pending = NoTime => w = 0)
    BY DEF Off, Slack
  <2> HIDE DEF off, w, a
  <2>4. Rec(tally, MaxTime)
    BY <2>1, <2>2, Constants, SettingFacts, RecLater
  <2>5. tally.empty = FALSE
    BY <2>2 DEF Rec
  <2>6. Len(tally.daily) \in Nat /\ \A k \in Keys : Len(tally.sends[k]) \in Nat
    BY <2>2 DEF Rec, TimesOK
  <2>7. ASSUME NEW i \in 1..Len(seen), seen[i].at > now - Day
        PROVE  /\ Rank(seen, i) <= Len(tally.daily)
               /\ \/ Len(tally.daily) = DailyCeiling
                  \/ RankOfKey(seen, i) <= Len(tally.sends[seen[i].key])
    <3>1. Rank(seen, i) \in Nat /\ RankOfKey(seen, i) \in Nat /\ seen[i].key \in Keys
      BY <2>1, SettingFacts, RankType
    <3>2. Rank(seen, i) + off <= Len(tally.daily)
      BY <2>2, <2>7 DEF Sound, DayBacked, Backed
    <3>3. \/ Len(tally.daily) = DailyCeiling
          \/ RankOfKey(seen, i) + off <= Len(tally.sends[seen[i].key])
          \/ RankOfKey(seen, i) <= Len(tally.sends[seen[i].key])
      BY <2>2, <2>7 DEF Sound, KeyBacked, Backed, Full
    <3>4. \A m, n \in Nat : m + off <= n => m <= n
      BY <2>3
    <3> QED BY <3>1, <3>2, <3>3, <3>4, <2>6
  <2>8. tally.pending = NoTime /\ seen # <<>> => tally.last_send # NoTime
    <3> SUFFICES ASSUME tally.pending = NoTime, seen # <<>> PROVE tally.last_send # NoTime
      OBVIOUS
    <3>1. LastBacked(tally, a, seen)
      BY <2>2, <2>3 DEF Sound
    <3>2. Len(seen) \in 1..Len(seen)
      BY <2>1, SettingFacts
    <3> QED BY <3>1, <3>2 DEF LastBacked
  <2> QED BY <2>4, <2>5, <2>7, <2>8 DEF Stale
<1> QED BY <1>1, <1>2 DEF TallyInv

\* The machine restarts.
LEMMA InvReboot == TallyInv /\ reboot => TallyInv'
<1> SUFFICES ASSUME TallyInv, reboot PROVE TallyInv'
  OBVIOUS
<1> DEFINE b == [id |-> boot.id + 1, at |-> now]
<1>1. /\ Fault /\ boot' = b /\ lane' = NoLane
      /\ UNCHANGED <<now, tally, torn, seen, told>>
  BY DEF reboot
<1>2. World(now, boot, seen, told, faults)
  BY DEF TallyInv
<1>3. /\ now \in 0..MaxTime /\ boot.id \in 1..(faults + 1) /\ faults \in 0..MaxFaults
      /\ MaxTime \in Nat /\ MaxFaults \in Nat
  BY <1>2, Constants DEF World
<1>4. /\ b.id = boot.id + 1 /\ b.at = now /\ DOMAIN b = {"id", "at"} /\ b = [id |-> b.id, at |-> b.at]
  OBVIOUS
<1> HIDE DEF b
<1>5. World(now, b, seen, told, faults')
  <2>1. faults' \in 0..MaxFaults /\ b.id \in 1..(faults' + 1) /\ b.at \in 0..now
    BY <1>1, <1>3, <1>4 DEF Fault
  <2> QED BY <1>2, <1>4, <2>1 DEF World
<1>6. tally.boot \in 0..(b.id - 1)
  <2>1. tally.boot = boot.id \/ tally.boot \in 0..(boot.id - 1)
    BY DEF TallyInv, Current, Older
  <2> QED BY <2>1, <1>3, <1>4
<1>7. Older(tally, NoLane, now, b, seen)
  BY <1>6, EveryRecord DEF Older
<1>8. LaneOK(tally, NoLane, now, seen, told)
  BY PlainLanes
<1> QED BY <1>1, <1>5, <1>7, <1>8 DEF TallyInv

\* Both records are emptied during a stop.
LEMMA InvEmptyPair == TallyInv /\ empty_pair => TallyInv'
<1> SUFFICES ASSUME TallyInv, empty_pair PROVE TallyInv'
  OBVIOUS
<1>1. lane' = NoLane /\ tally' = EmptyTally /\ torn' = FALSE /\ Fault /\ UNCHANGED outside
  BY DEF empty_pair
<1>2. EmptyTally.empty = TRUE /\ EmptyTally.boot = 0
  BY DEF EmptyTally, ZeroTally
<1>3. Setting
  BY DEF TallyInv, Setting
<1>4. ASSUME NEW i \in 1..Len(seen), seen[i].at > now - Day
      PROVE  Rank(seen, i) <= DailyCeiling
  <2>1. Rank(seen, i) \in Nat /\ DailyCeiling \in Nat
    BY <1>3, SettingFacts, RankType, Constants
  <2>2. Rank(seen, i) <= (IF tally.empty THEN DailyCeiling ELSE Len(tally.daily))
    BY <1>4, EveryRecord DEF Stale
  <2>3. tally.empty \/ (Len(tally.daily) \in Nat /\ Len(tally.daily) <= DailyCeiling)
    <3>1. tally = EmptyTally \/ Rec(tally, MaxTime)
      BY EveryRecord
    <3> QED BY <1>2, <3>1 DEF Rec, TimesOK
  <2> QED BY <2>1, <2>2, <2>3
<1>5. Stale(EmptyTally, now, seen)
  BY <1>2, <1>4 DEF Stale
<1>6. boot.id \in Nat /\ boot.id >= 1
  BY <1>3, Constants DEF Setting, World
<1>7. Older(EmptyTally, NoLane, now, boot, seen)
  BY <1>2, <1>5, <1>6 DEF Older
<1>8. LaneOK(EmptyTally, NoLane, now, seen, told)
  BY PlainLanes
<1> QED BY <1>1, <1>7, <1>8, NextFrom

\* Time passes: fewer departures count, and a guard that held still holds.
LEMMA InvTick == TallyInv /\ tick => TallyInv'
<1> SUFFICES ASSUME TallyInv, tick PROVE TallyInv'
  OBVIOUS
<1> DEFINE n == now + 1
<1>1. /\ now < MaxTime /\ now' = n
      /\ UNCHANGED <<boot, tally, torn, lane, seen, told, faults>>
  BY DEF tick
<1>2. Setting
  BY DEF TallyInv, Setting
<1>3. /\ now \in Nat /\ MaxTime \in Nat /\ n \in 0..MaxTime /\ n \in Nat /\ now <= n
      /\ boot.at \in 0..now /\ boot.at \in 0..n
      /\ told \in {NoTime} \union 0..now /\ told \in {NoTime} \union 0..n
      /\ n - boot.at \in Nat /\ now - boot.at \in Nat /\ now - boot.at <= n - boot.at
  BY <1>1, <1>2, Constants DEF Setting, World
<1>4. /\ seen \in Seq(Departure) /\ Len(seen) \in Nat
      /\ \A i \in 1..Len(seen) : seen[i].at \in Nat /\ seen[i].at <= now
  BY <1>2, SettingFacts
<1>5. /\ Day \in Nat /\ Pause \in Nat /\ Spacing \in Nat /\ BudgetWindow \in Nat
      /\ DailyCeiling \in Nat /\ BudgetLimit \in Nat
  BY Constants
<1>6. \A x \in Int : x <= now => x <= n
  BY <1>3
<1>7. \A d \in Nat : \A x \in Nat : x > n - d => x > now - d
  BY <1>3
<1>8. \A d \in Nat : \A x \in Nat : x <= now - d => x <= n - d
  BY <1>3
<1> HIDE DEF n
<1>9. World(n, boot, seen, told, faults)
  <2>1. SeenOK(seen, n)
    BY <1>2, <1>4, <1>6 DEF Setting, World, SeenOK
  <2> QED BY <1>2, <1>3, <2>1 DEF Setting, World
<1>10. Passed(told, now) => Passed(told, n)
  <2>1. told + Pause \in Int
    BY <1>3, <1>5 DEF NoTime
  <2> QED BY <1>6, <2>1 DEF Passed
<1>11. \A k : MayGo(k, now, seen, told) => MayGo(k, n, seen, told)
  <2> SUFFICES ASSUME NEW k, MayGo(k, now, seen, told) PROVE MayGo(k, n, seen, told)
    OBVIOUS
  <2> DEFINE D(m) == { i \in 1..Len(seen) : seen[i].at > m - Day }
             W(m) == { i \in 1..Len(seen) : seen[i].at > m - BudgetWindow /\ seen[i].key = k }
  <2>1. D(n) \subseteq D(now) /\ W(n) \subseteq W(now)
    BY <1>4, <1>5, <1>7
  <2>2. IsFiniteSet(D(now)) /\ IsFiniteSet(W(now))
    <3>1. IsFiniteSet(1..Len(seen))
      <4>1. Len(seen) \in Int /\ 1 \in Int
        BY <1>4
      <4> QED BY ONLY <4>1, FS_Interval
    <3>2. D(now) \subseteq 1..Len(seen) /\ W(now) \subseteq 1..Len(seen)
      OBVIOUS
    <3> QED BY <3>1, <3>2, FS_Subset
  <2>3. Cardinality(D(now)) < DailyCeiling /\ Cardinality(W(now)) < BudgetLimit
    BY DEF MayGo
  <2> HIDE DEF D, W
  <2>4. /\ Cardinality(D(n)) <= Cardinality(D(now)) /\ Cardinality(D(n)) \in Nat
        /\ Cardinality(W(n)) <= Cardinality(W(now)) /\ Cardinality(W(n)) \in Nat
        /\ Cardinality(D(now)) \in Nat /\ Cardinality(W(now)) \in Nat
    BY <2>1, <2>2, FS_Subset, FS_CardinalityType
  <2>5. Cardinality(D(n)) < DailyCeiling /\ Cardinality(W(n)) < BudgetLimit
    BY <2>3, <2>4, <1>5
  <2>6. \A i \in 1..Len(seen) : seen[i].at <= n - Spacing
    BY <1>4, <1>5, <1>8 DEF MayGo
  <2>7. Silent(seen) => \A i \in 1..Len(seen) : seen[i].at <= n - Pause
    BY <1>4, <1>5, <1>8 DEF MayGo
  <2>8. told = NoTime \/ n >= told + Pause
    <3>1. told + Pause \in Int /\ now \in Int /\ n \in Int
      BY <1>3, <1>5 DEF NoTime
    <3>2. \A x \in Int : now >= x => n >= x
      BY <1>3
    <3> QED BY <3>1, <3>2 DEF MayGo
  <2> QED BY <2>5, <2>6, <2>7, <2>8 DEF MayGo, D, W
<1>12. LaneOK(tally, lane, n, seen, told)
  <2>1. LaneOK(tally, lane, now, seen, told)
    BY DEF TallyInv
  <2> QED BY <1>10, <1>11, <2>1 DEF LaneOK
<1>13. ASSUME Current(tally, lane, now, boot, seen, told)
       PROVE  Current(tally, lane, n, boot, seen, told)
  <2> DEFINE off == Off(tally, lane)
             w == Slack(tally, lane)
             a == boot.at
  <2>1. /\ Rec(tally, now - boot.at) /\ Sound(tally, off, w, now, a, seen)
        /\ tally.boot = boot.id /\ (w = 0 => Quiet(tally, now, a, seen, told))
    BY <1>13 DEF Current
  <2>2. Rec(tally, n - boot.at)
    BY <1>3, <2>1, RecLater
  <2> HIDE DEF off, w, a
  <2>3. Sound(tally, off, w, n, a, seen)
    <3>1. DayBacked(tally, off, w, n, a, seen)
      BY <1>4, <1>5, <1>7, <2>1 DEF Sound, DayBacked
    <3>2. KeyBacked(tally, off, w, n, a, seen)
      BY <1>4, <1>5, <1>7, <2>1 DEF Sound, KeyBacked
    <3> QED BY <2>1, <3>1, <3>2 DEF Sound
  <2>4. Quiet(tally, now, a, seen, told) => Quiet(tally, n, a, seen, told)
    <3> SUFFICES ASSUME Quiet(tally, now, a, seen, told) PROVE Quiet(tally, n, a, seen, told)
      OBVIOUS
    <3>1. \A x \in Int : Held(tally, now, a, x) => Held(tally, n, a, x)
      BY <1>6 DEF Held
    <3>2. told + Pause \in Int
      BY <1>3, <1>5 DEF NoTime
    <3>3. Silent(seen) => seen[Len(seen)].at + Pause \in Int
      <4> SUFFICES ASSUME Silent(seen) PROVE seen[Len(seen)].at + Pause \in Int
        OBVIOUS
      <4>1. Len(seen) \in 1..Len(seen)
        BY <1>4 DEF Silent
      <4>2. seen[Len(seen)].at \in Nat
        BY <1>4, <4>1
      <4> QED BY <1>5, <4>2
    <3> QED BY <3>1, <3>2, <3>3 DEF Quiet
  <2> QED BY <2>1, <2>2, <2>3, <2>4 DEF Current, off, w, a
<1>14. ASSUME Older(tally, lane, now, boot, seen)
       PROVE  Older(tally, lane, n, boot, seen)
  <2>1. Stale(tally, n, seen)
    BY <1>4, <1>5, <1>7, <1>14 DEF Older, Stale
  <2> QED BY <1>14, <2>1 DEF Older
<1> QED BY <1>1, <1>9, <1>12, <1>13, <1>14 DEF TallyInv

-----------------------------------------------------------------------------
(* The invariant holds.                                                     *)

\* The zeroed and the empty pair satisfy the invariant.
LEMMA InitTallyInv == Init => TallyInv
<1> SUFFICES ASSUME Init PROVE TallyInv
  OBVIOUS
<1>1. /\ now = 0 /\ boot = [id |-> 1, at |-> 0] /\ tally \in {ZeroTally, EmptyTally}
      /\ torn = FALSE /\ lane = NoLane /\ seen = <<>> /\ told = NoTime /\ faults = 0
  BY DEF Init
<1>2. World(now, boot, seen, told, faults)
  <2>1. SeenOK(seen, now)
    BY <1>1 DEF SeenOK
  <2>2. MaxTime \in Nat /\ MaxFaults \in Nat
    BY Constants
  <2> QED BY <1>1, <2>1, <2>2 DEF World
<1>3. LaneOK(tally, lane, now, seen, told)
  BY <1>1, PlainLanes
<1>4. CASE tally = EmptyTally
  <2>1. EmptyTally.boot = 0 /\ EmptyTally.empty = TRUE
    BY DEF EmptyTally, ZeroTally
  <2>2. Stale(tally, now, seen)
    BY <1>1, <1>4, <2>1 DEF Stale
  <2>3. Older(tally, lane, now, boot, seen)
    BY <1>1, <1>4, <2>1, <2>2 DEF Older
  <2> QED BY <1>1, <1>2, <1>3, <2>3 DEF TallyInv
<1>5. CASE tally = ZeroTally
  <2>1. /\ tally.boot = 1 /\ tally.empty = FALSE /\ tally.daily = <<>> /\ tally.refusals = <<>>
        /\ tally.rate_limits = <<>> /\ tally.sends = [k \in Keys |-> <<>>]
        /\ tally.last_send = NoTime /\ tally.closed = NoTime /\ tally.paused = NoTime
        /\ tally.paused_for = NoTime /\ tally.boot_wait = NoTime /\ tally.pending = NoTime
        /\ tally.reason = "none" /\ tally.key = NoKey
    BY <1>5 DEF ZeroTally
  <2>2. DOMAIN tally = Fields
    BY <1>5 DEF ZeroTally, Fields
  <2>3. TimesOK(<<>>, 0) /\ Len(<<>>) = 0
    BY DEF TimesOK, Sorted
  <2>4. Rec(tally, 0)
    <3>1. DailyCeiling \in Nat
      BY Constants
    <3>2. DOMAIN tally.sends = Keys /\ \A k \in Keys : TimesOK(tally.sends[k], 0)
      BY <2>1, <2>3
    <3>3. TimesOK(tally.daily, 0) /\ Len(tally.daily) <= DailyCeiling
      BY <2>1, <2>3, <3>1
    <3> QED BY <2>1, <2>2, <2>3, <3>2, <3>3 DEF Rec
  <2>5. Off(tally, lane) = 0 /\ Slack(tally, lane) = 0
    BY <2>1 DEF Off, Slack, NotLeft
  <2>6. boot.id = 1 /\ boot.at = 0 /\ now - boot.at = 0
    BY <1>1
  <2>7. Sound(tally, 0, 0, now, boot.at, seen)
    BY <1>1 DEF Sound, DayBacked, KeyBacked, LastBacked
  <2>8. Quiet(tally, now, boot.at, seen, told)
    BY <1>1 DEF Quiet, Silent
  <2>9. Current(tally, lane, now, boot, seen, told)
    BY <2>1, <2>4, <2>5, <2>6, <2>7, <2>8 DEF Current
  <2> QED BY <1>1, <1>2, <1>3, <2>9 DEF TallyInv
<1> QED BY <1>1, <1>4, <1>5

\* Every step keeps the invariant.
LEMMA NextTallyInv == TallyInv /\ [Next]_vars => TallyInv'
<1> SUFFICES ASSUME TallyInv, [Next]_vars PROVE TallyInv'
  OBVIOUS
<1>1. CASE UNCHANGED vars
  BY <1>1 DEF vars, TallyInv
<1>2. CASE acquire
  BY <1>2, InvAcquire
<1>3. CASE settle_failed_attempt
  BY <1>3, InvSettleFailed
<1>4. CASE settle_latch
  BY <1>4, InvSettleLatch
<1>5. CASE \E k \in Keys : decide_and_record(k)
  BY <1>5, InvDecide
<1>6. CASE not_built
  BY <1>6, InvNotBuilt
<1>7. CASE hand_off
  BY <1>7, InvHandOff
<1>8. CASE depart
  BY <1>8, InvDepart
<1>9. CASE \E r \in Responses : observe(r)
  BY <1>9, InvObserve
<1>10. CASE time_out
  BY <1>10, InvTimeOut
<1>11. CASE task_dies
  BY <1>11, InvTaskDies
<1>12. CASE crash
  BY <1>12, InvCrash
<1>13. CASE reboot
  BY <1>13, InvReboot
<1>14. CASE restore_pair
  BY <1>14, InvRestore
<1>15. CASE empty_pair
  BY <1>15, InvEmptyPair
<1>16. CASE tick
  BY <1>16, InvTick
<1> QED BY <1>1, <1>2, <1>3, <1>4, <1>5, <1>6, <1>7, <1>8, <1>9, <1>10, <1>11, <1>12,
           <1>13, <1>14, <1>15, <1>16 DEF Next

\* TallyInv holds in every state the lane and the world around it can reach.
THEOREM TallyInvHolds == Spec => []TallyInv
<1>1. Init => TallyInv
  BY InitTallyInv
<1>2. TallyInv /\ [Next]_vars => TallyInv'
  BY NextTallyInv
<1> QED BY <1>1, <1>2, PTL DEF Spec

\* The invariant implies the types.
LEMMA TallyInvTypeOK == TallyInv => TypeOK
<1> SUFFICES ASSUME TallyInv PROVE TypeOK
  OBVIOUS
<1>1. World(now, boot, seen, told, faults) /\ torn \in BOOLEAN /\ lane \in Lanes
  BY DEF TallyInv, LaneOK
<1>2. MaxTime \in Nat /\ MaxFaults \in Nat /\ Day \in Nat \ {0}
  BY Constants
<1>3. now \in 0..MaxTime
  BY <1>1 DEF World
<1>4. boot \in [id: 1..(MaxFaults + 1), at: 0..MaxTime]
  <2>1. boot.id \in 1..(MaxFaults + 1) /\ boot.at \in 0..MaxTime
    BY <1>1, <1>2 DEF World
  <2>2. boot = [id |-> boot.id, at |-> boot.at]
    BY <1>1 DEF World
  <2> QED BY <2>1, <2>2
<1>5. CASE tally = EmptyTally
  <2>1. /\ tally.last_send = NoTime /\ tally.closed = NoTime /\ tally.paused = NoTime
        /\ tally.paused_for = NoTime /\ tally.boot_wait = NoTime /\ tally.pending = NoTime
        /\ tally.reason = "none" /\ tally.key = NoKey
    BY <1>5 DEF EmptyTally, ZeroTally
  <2>2. NoTime \in Times
    BY <1>2 DEF Times, NoTime
  <2> QED BY <1>1, <1>3, <1>4, <2>1, <2>2 DEF TypeOK
<1>6. CASE Rec(tally, MaxTime)
  <2>1. \A x : x \in {NoTime} \union 0..(MaxTime + Day) => x \in Times
    BY <1>2 DEF Times, NoTime
  <2>2. \A x : x \in {NoTime} \union 0..MaxTime => x \in Times
    BY <1>2 DEF Times, NoTime
  <2>3. \A x : x \in {NoTime} \union 1..Day => x \in Times
    BY <1>2 DEF Times, NoTime
  <2>4. tally.last_send \in Times /\ tally.pending \in Times /\ tally.paused_for \in Times
    BY <1>6, <2>2, <2>3 DEF Rec
  <2>5. tally.closed \in Times /\ tally.paused \in Times /\ tally.boot_wait \in Times
    BY <1>6, <2>1 DEF Rec
  <2>6. /\ tally.key \in Keys \union {NoKey}
        /\ tally.key = NoKey <=> tally.pending = NoTime
        /\ tally.reason = "none" <=> tally.closed = NoTime
    BY <1>6 DEF Rec
  <2> QED BY <1>1, <1>3, <1>4, <2>4, <2>5, <2>6 DEF TypeOK
<1> QED BY <1>5, <1>6, EveryRecord

\* Every variable keeps its shape: no record, written or left behind by any
\* failure, holds a time past the day after the last one read, names a method
\* without a pending attempt or a reason without a closure.
THEOREM TallyTypeOK == Spec => []TypeOK
<1>1. TallyInv => TypeOK
  BY TallyInvTypeOK
<1> QED BY <1>1, TallyInvHolds, PTL

\* A record's pending attempt is the latest.
LEMMA RecPending ==
  ASSUME NEW t, NEW e, Rec(t, e)
  PROVE  PendingIsLatest(t)
<1> SUFFICES ASSUME t.pending # NoTime PROVE /\ t.key \in Keys
                                             /\ Last(t.daily) = t.pending
                                             /\ Last(t.sends[t.key]) = t.pending
  BY DEF PendingIsLatest
<1>1. t.key \in Keys /\ EndsWith(t.daily, t.pending) /\ EndsWith(t.sends[t.key], t.pending)
  BY DEF Rec
<1> QED BY <1>1 DEF EndsWith, Last

\* The pending attempt is the last one counted for its method and its day, as
\* read by this boot and once pruned, so move_pending_to never refuses it.
THEOREM PendingStaysTheLatest == Spec => []PendingIsTheLatest
<1>1. TallyInv => PendingIsTheLatest
  <2> SUFFICES ASSUME TallyInv PROVE PendingIsTheLatest
    OBVIOUS
  <2> DEFINE p == prepare_boot(tally)
  <2>1. Setting /\ Rec(p, Elapsed)
    <3>1. CASE lane = NoLane
      BY <3>1, Prepared DEF Core
    <3>2. CASE lane # NoLane
      <4>1. Setting /\ tally.boot = boot.id /\ Rec(tally, Elapsed)
        BY <3>2, CurrentCore DEF Core
      <4> QED BY <4>1, PrepareSame
    <3> QED BY <3>1, <3>2
  <2> HIDE DEF p
  <2>2. Rec(prune(p), Elapsed)
    BY <2>1, PruneRec
  <2>3. PendingIsLatest(p) /\ PendingIsLatest(prune(p))
    BY <2>1, <2>2, RecPending
  <2> QED BY <2>3 DEF PendingIsTheLatest, p
<1> QED BY <1>1, TallyInvHolds, PTL

\* Every departure of the last day is counted by the record, unless the record
\* was lost: pruning, the rewrite of a new boot and the roll-back of an attempt
\* that never left forget none of them.
THEOREM DeparturesStayCounted == Spec => []DeparturesAreCounted
<1>1. TallyInv => DeparturesAreCounted
  <2> SUFFICES ASSUME TallyInv, ~tally.empty PROVE Len(tally.daily) >= Cardinality(Departed)
    BY DEF DeparturesAreCounted
  <2>1. Setting
    BY DEF TallyInv, Setting
  <2>2. now \in Nat /\ SeenOK(seen, now) /\ seen \in Seq(Departure)
    BY <2>1, SettingFacts
  <2>3. tally.empty = FALSE /\ Len(tally.daily) \in Nat
    <3>1. EmptyTally.empty = TRUE
      BY DEF EmptyTally, ZeroTally
    <3> QED BY <3>1, EveryRecord DEF Rec, TimesOK
  <2>4. \A i \in 1..Len(seen) : seen[i].at > now - Day => Rank(seen, i) <= Len(tally.daily)
    BY <2>3, EveryRecord DEF Stale
  <2> DEFINE W == { i \in 1..Len(seen) : seen[i].at > now - Day }
  <2>5. Cardinality(W) <= Len(tally.daily)
    BY <2>2, <2>3, <2>4, DayCount
  <2>6. Departed = W
    <3>1. DOMAIN seen = 1..Len(seen)
      BY <2>2
    <3> QED BY <3>1 DEF Departed
  <2>7. IsFiniteSet(1..Len(seen)) /\ W \subseteq 1..Len(seen)
    <3>1. Len(seen) \in Int /\ 1 \in Int
      BY <2>2
    <3> QED BY <3>1, FS_Interval
  <2>8. Cardinality(W) \in Nat
    BY <2>7, FS_Subset, FS_CardinalityType
  <2> HIDE DEF W
  <2> QED BY <2>3, <2>5, <2>6, <2>8
<1> QED BY <1>1, TallyInvHolds, PTL

-----------------------------------------------------------------------------
(* The lane implements the endpoint's contract.                             *)

\* What the lane knows when it hands an attempt off is what the contract asks.
LEMMA GoesByTheContract ==
  ASSUME Setting, NEW k \in Keys, MayGo(k, now, seen, told)
  PROVE  Contract!MayDepart(k)
<1>1. /\ now \in Nat /\ seen \in Seq(Departure) /\ DOMAIN seen = 1..Len(seen)
      /\ \A i \in 1..Len(seen) : seen[i].at \in Nat
  BY SettingFacts
<1>2. Spacing \in Nat /\ Pause \in Nat
  BY Constants
<1>3. \A d \in Nat : \A x \in Nat : x <= now - d => ~(x > now - d)
  BY <1>1
<1>4. Contract!Within(Spacing) = {}
  BY <1>1, <1>2, <1>3 DEF MayGo, Contract!Within
<1>5. Contract!Unanswered => Contract!Within(Pause) = {}
  BY <1>1, <1>2, <1>3 DEF MayGo, Silent, Contract!Within, Contract!Unanswered
<1>6. Contract!Within(Day) = { i \in 1..Len(seen) : seen[i].at > now - Day }
  BY <1>1 DEF Contract!Within
<1>7. { i \in Contract!Within(BudgetWindow) : seen[i].key = k }
        = { i \in 1..Len(seen) : seen[i].at > now - BudgetWindow /\ seen[i].key = k }
  BY <1>1 DEF Contract!Within
<1>8. \A S : Contract!Cardinality(S) = Cardinality(S)
  BY DEF Cardinality, Contract!Cardinality
<1> QED BY <1>4, <1>5, <1>6, <1>7, <1>8 DEF MayGo, Contract!MayDepart, Contract!NoTime, NoTime

\* Every step of the lane, of its failures and of the world is a step of the
\* contract or changes nothing the endpoint sees.
LEMMA StepKeepsTheContract ==
  ASSUME TallyInv, [Next]_vars
  PROVE  [Contract!Next]_<<now, seen, told>>
<1>1. ASSUME UNCHANGED outside PROVE UNCHANGED <<now, seen, told>>
  BY <1>1 DEF outside
<1>2. CASE depart
  <2>1. lane.step = "handed"
    BY <1>2 DEF depart
  <2>2. /\ Setting /\ Core(tally, 1, 0) /\ tally.pending # NoTime /\ tally.key = lane.key
        /\ MayGo(lane.key, now, seen, told)
    BY <2>1, UnderWay
  <2>3. lane.key \in Keys
    BY <2>2 DEF Core, Rec
  <2>4. Contract!MayDepart(lane.key)
    BY <2>2, <2>3, GoesByTheContract
  <2>5. Contract!Depart
    BY <1>2, <2>3, <2>4 DEF depart, Contract!Depart
  <2> QED BY <2>5 DEF Contract!Next
<1>3. CASE \E r \in Responses : observe(r)
  <2>1. PICK r \in Responses : observe(r)
    BY <1>3
  <2>2. Silent(seen)
    BY <2>1, UnderWay DEF observe
  <2>3. Contract!Reply
    BY <2>1, <2>2 DEF observe, Silent, Contract!Unanswered, Contract!Reply
  <2> QED BY <2>3 DEF Contract!Next
<1>4. CASE tick
  BY <1>4 DEF tick, Contract!Pass, Contract!Next
<1>5. CASE reboot
  BY <1>5 DEF reboot
<1>6. CASE UNCHANGED vars
  BY <1>6 DEF vars
<1>7. CASE acquire \/ settle_failed_attempt \/ settle_latch
  BY <1>1, <1>7 DEF acquire, settle_failed_attempt, settle_latch
<1>8. CASE \E k \in Keys : decide_and_record(k)
  BY <1>1, <1>8 DEF decide_and_record
<1>9. CASE not_built \/ hand_off \/ time_out \/ task_dies
  BY <1>1, <1>9 DEF not_built, hand_off, time_out, task_dies
<1>10. CASE crash \/ restore_pair \/ empty_pair
  BY <1>1, <1>10 DEF crash, restore_pair, empty_pair
<1> QED BY <1>2, <1>3, <1>4, <1>5, <1>6, <1>7, <1>8, <1>9, <1>10 DEF Next

\* What the endpoint sees keeps to the contract - spacing, silence after a 429
\* or no answer at all, each method's budget and the day's ceiling - through
\* every stop, restart, failed or torn write, lost answer and emptied record.
THEOREM TheContractIsKept == Spec => KeepsTheContract
<1>1. Init => Contract!Init
  BY DEF Init, Contract!Init, Contract!NoTime, NoTime
<1>2. TallyInv /\ [Next]_vars => [Contract!Next]_<<now, seen, told>>
  BY StepKeepsTheContract
<1> QED BY <1>1, <1>2, TallyInvHolds, PTL DEF Spec, KeepsTheContract, Contract!Spec

-----------------------------------------------------------------------------
(* The limiter of the server.                                               *)

\* What a map of windows is, whatever the clock says of it.
IsMap(map) ==
  /\ DOMAIN map \subseteq Tokens
  /\ \A k \in DOMAIN map : map[k] \in Entry
  /\ map = [k \in DOMAIN map |-> map[k]]
  /\ IsFiniteSet(DOMAIN map) /\ Cardinality(DOMAIN map) <= capacity

\* Removing the expired windows leaves a map, and every window it keeps.
LEMMA RetainedLemma ==
  ASSUME NEW map, IsMap(map), NEW at \in Nat
  PROVE  /\ IsMap(retained(map, at))
         /\ DOMAIN retained(map, at) \subseteq DOMAIN map
         /\ \A k \in DOMAIN retained(map, at) : retained(map, at)[k] = map[k]
<1> DEFINE kept == {j \in DOMAIN map : duration_since(at, map[j].started) < window}
<1>1. CASE Cardinality(DOMAIN map) < capacity
  BY <1>1 DEF retained
<1>2. CASE ~(Cardinality(DOMAIN map) < capacity)
  <2>1. retained(map, at) = [k \in kept |-> map[k]]
    BY <1>2 DEF retained
  <2>2. kept \in SUBSET DOMAIN map
    OBVIOUS
  <2>3. IsFiniteSet(kept) /\ Cardinality(kept) <= Cardinality(DOMAIN map)
    BY <2>2, FS_Subset DEF IsMap
  <2>4. Cardinality(kept) \in Nat /\ Cardinality(DOMAIN map) \in Nat
    BY <2>3, FS_CardinalityType DEF IsMap
  <2>5. Cardinality(kept) <= capacity
    BY <2>3, <2>4, LimiterAssumption DEF IsMap
  <2> HIDE DEF kept
  <2> QED BY <2>1, <2>2, <2>3, <2>5 DEF IsMap
<1> QED BY <1>1, <1>2

\* An entry put in for a key that is tracked, or that there is room for,
\* leaves a map.
LEMMA WithLemma ==
  ASSUME NEW map, IsMap(map), NEW key \in Tokens, NEW entry \in Entry,
         ~HasNoRoom(map, key)
  PROVE  IsMap(With(map, key, entry))
<1>1. DOMAIN With(map, key, entry) = DOMAIN map \cup {key}
  BY DEF With
<1>2. /\ IsFiniteSet(DOMAIN map \cup {key})
      /\ Cardinality(DOMAIN map \cup {key}) =
           IF key \in DOMAIN map THEN Cardinality(DOMAIN map) ELSE Cardinality(DOMAIN map) + 1
  BY FS_AddElement DEF IsMap
<1>3. Cardinality(DOMAIN map) \in Nat
  BY FS_CardinalityType DEF IsMap
<1>4. Cardinality(DOMAIN map \cup {key}) <= capacity
  BY <1>2, <1>3, LimiterAssumption DEF HasNoRoom, IsMap
<1>5. \A k \in DOMAIN map \cup {key} : With(map, key, entry)[k] \in Entry
  BY DEF With, IsMap
<1>6. With(map, key, entry) = [k \in DOMAIN map \cup {key} |-> With(map, key, entry)[k]]
  BY DEF With
<1> QED BY <1>1, <1>2, <1>4, <1>5, <1>6 DEF IsMap

\* The entry a request is counted in.
LEMMA OpenedLemma ==
  ASSUME NEW map, IsMap(map), NEW key \in Tokens, NEW at \in Nat
  PROVE  /\ Opened(map, key, at) \in Entry
         /\ ~IsSpent(Opened(map, key, at)) =>
              [Opened(map, key, at) EXCEPT !.count = @ + 1] \in Entry
<1>1. Opened(map, key, at) \in Entry
  BY LimiterAssumption DEF Opened, IsMap, Entry
<1>2. ASSUME NEW e \in Entry, ~IsSpent(e)
      PROVE  [e EXCEPT !.count = @ + 1] \in Entry
  BY <1>2, LimiterAssumption DEF IsSpent, Entry
<1> QED BY <1>1, <1>2

\* How a decision moves the window of one key: it runs on, or it begins at the
\* stamp of the request, which then is past the end of the one before it.
Moves(map, k, at, entry) ==
  \/ /\ k \in DOMAIN map /\ entry.started = map[k].started
     /\ entry.count >= map[k].count
  \/ /\ entry.started = at
     /\ k \in DOMAIN map => at >= map[k].started + window

\* The decision leaves a map, and moves every window in it in one of these ways.
LEMMA AllowAtLemma ==
  ASSUME NEW map, IsMap(map), NEW key \in Tokens, NEW at \in Nat
  PROVE  LET left == allow_at(map, key, at).counters
         IN  IsMap(left) /\ \A k \in DOMAIN left : Moves(map, k, at, left[k])
<1> DEFINE held == retained(map, at)
           entry == Opened(held, key, at)
           counted == [entry EXCEPT !.count = @ + 1]
           left == allow_at(map, key, at).counters
<1>1. /\ IsMap(held) /\ DOMAIN held \subseteq DOMAIN map
      /\ \A k \in DOMAIN held : held[k] = map[k]
  BY RetainedLemma
<1>2. entry \in Entry /\ (~IsSpent(entry) => counted \in Entry)
  BY <1>1, OpenedLemma
<1>3. \A k \in DOMAIN map : map[k].started \in Nat /\ map[k].count \in Nat
  BY LimiterAssumption DEF IsMap, Entry
<1>4. \A k \in DOMAIN held : Moves(map, k, at, held[k])
  BY <1>1, <1>3 DEF Moves
<1>5. Moves(map, key, at, entry)
  <2>1. CASE key \in DOMAIN held /\ duration_since(at, held[key].started) < window
    <3>1. entry = held[key]
      BY <2>1 DEF Opened
    <3> QED BY <3>1, <2>1, <1>4
  <2>2. CASE key \in DOMAIN held /\ ~(duration_since(at, held[key].started) < window)
    <3>1. entry = [started |-> at, count |-> 0]
      BY <2>2 DEF Opened
    <3>2. at >= map[key].started + window
      BY <2>2, <1>1, <1>3, LimiterAssumption DEF duration_since
    <3> QED BY <3>1, <3>2 DEF Moves
  <2>3. CASE key \notin DOMAIN held
    <3>1. entry = [started |-> at, count |-> 0]
      BY <2>3 DEF Opened
    <3>2. key \in DOMAIN map => at >= map[key].started + window
      BY <2>3, <1>3, LimiterAssumption DEF retained, duration_since
    <3> QED BY <3>1, <3>2 DEF Moves
  <2> QED BY <2>1, <2>2, <2>3
<1>6. ~IsSpent(entry) => Moves(map, key, at, counted)
  <2>1. counted.started = entry.started /\ counted.count = entry.count + 1
    BY <1>2 DEF Entry
  <2>2. entry.count \in Nat
    BY <1>2, LimiterAssumption DEF Entry
  <2> HIDE DEF counted, entry
  <2> QED BY <2>1, <2>2, <1>5, <1>3 DEF Moves
<1>7. CASE HasNoRoom(held, key)
  <2>1. left = held
    BY <1>7 DEF allow_at
  <2> QED BY <2>1, <1>1, <1>4
<1>8. ASSUME ~HasNoRoom(held, key), NEW e \in Entry, Moves(map, key, at, e),
             left = With(held, key, e)
      PROVE  IsMap(left) /\ \A k \in DOMAIN left : Moves(map, k, at, left[k])
  <2>1. IsMap(left)
    BY <1>1, <1>8, WithLemma
  <2>2. DOMAIN left = DOMAIN held \cup {key}
    BY <1>8 DEF With
  <2>3. \A k \in DOMAIN left : left[k] = IF k = key THEN e ELSE held[k]
    BY <1>8, <2>2 DEF With
  <2> HIDE DEF left, held
  <2> QED BY <2>1, <2>2, <2>3, <1>4, <1>8
<1>9. CASE ~HasNoRoom(held, key) /\ IsSpent(entry)
  <2>1. left = With(held, key, entry)
    BY <1>9 DEF allow_at
  <2> QED BY <2>1, <1>2, <1>5, <1>8, <1>9
<1>10. CASE ~HasNoRoom(held, key) /\ ~IsSpent(entry)
  <2>1. left = With(held, key, counted)
    BY <1>10 DEF allow_at
  <2> QED BY <2>1, <1>2, <1>6, <1>8, <1>10
<1> QED BY <1>7, <1>9, <1>10

\* The inductive invariant: the types, and a map that keeps to its capacity.
LimiterInv == LimiterTypeOK /\ IsMap(counters)

\* An empty map satisfies the limiter's invariant.
LEMMA InitLimiterInv == LimiterInit => LimiterInv
<1> SUFFICES ASSUME LimiterInit PROVE LimiterInv
  OBVIOUS
<1>1. DOMAIN counters = {} /\ counters = [k \in DOMAIN counters |-> counters[k]]
  BY DEF LimiterInit
<1>2. IsFiniteSet(DOMAIN counters) /\ Cardinality(DOMAIN counters) <= capacity
  BY <1>1, FS_EmptySet, LimiterAssumption
<1>3. IsMap(counters)
  BY <1>1, <1>2 DEF IsMap
<1>4. LimiterTypeOK
  BY <1>1 DEF LimiterInit, LimiterTypeOK, Outside
<1> QED BY <1>3, <1>4 DEF LimiterInv

\* One step: the invariant holds after it, and windows have only moved on.
LEMMA StepLimiterInv ==
  ASSUME LimiterInv, [LimiterNext]_limiter_vars
  PROVE  /\ LimiterInv'
         /\ \A k \in DOMAIN counters \cap DOMAIN counters' :
              \/ /\ counters'[k].started = counters[k].started
                 /\ counters'[k].count >= counters[k].count
              \/ counters'[k].started >= counters[k].started + window
<1> USE DEF LimiterInv
<1>0. \A k \in DOMAIN counters : counters[k].started \in Nat /\ counters[k].count \in Nat
  BY LimiterAssumption DEF IsMap, Entry
<1>1. ASSUME NEW t \in Threads, allow(t) PROVE LimiterInv' /\ counters' = counters
  <2>1. PICK key \in Tokens :
          /\ entering' = [entering EXCEPT ![t] = [key |-> key, at |-> clock]]
          /\ clock' = clock /\ counters' = counters
    BY <1>1 DEF allow
  <2>2. LimiterTypeOK'
    BY <2>1 DEF LimiterTypeOK
  <2> QED BY <2>1, <2>2 DEF IsMap
<1>2. ASSUME NEW t \in Threads, admit(t)
      PROVE  LimiterInv' /\ \A k \in DOMAIN counters' : Moves(counters, k, entering[t].at, counters'[k])
  <2> DEFINE at == entering[t].at
             key == entering[t].key
  <2>1. key \in Tokens /\ at \in Nat /\ at <= clock
    BY <1>2 DEF admit, LimiterTypeOK
  <2>2. IsMap(counters') /\ \A k \in DOMAIN counters' : Moves(counters, k, at, counters'[k])
    <3>1. counters' = allow_at(counters, key, at).counters
      BY <1>2 DEF admit
    <3> HIDE DEF at, key
    <3> QED BY <3>1, <2>1, AllowAtLemma
  <2>3. entering' = [entering EXCEPT ![t] = Outside] /\ clock' = clock
    BY <1>2 DEF admit
  <2>4. \A k \in DOMAIN counters' : counters'[k].started <= clock'
    BY <2>1, <2>2, <2>3, <1>0 DEF Moves, LimiterTypeOK
  <2>5. LimiterTypeOK'
    BY <2>2, <2>3, <2>4 DEF LimiterTypeOK, IsMap, Outside
  <2> QED BY <2>2, <2>5 DEF IsMap
<1>3. ASSUME Tick PROVE LimiterInv' /\ counters' = counters
  <2>1. clock' = clock + 1 /\ counters' = counters /\ entering' = entering
    BY <1>3 DEF Tick
  <2>2. LimiterTypeOK'
    BY <2>1, <1>0 DEF LimiterTypeOK
  <2> QED BY <2>1, <2>2 DEF IsMap
<1>4. ASSUME UNCHANGED limiter_vars PROVE LimiterInv' /\ counters' = counters
  BY <1>4 DEF limiter_vars, LimiterTypeOK, IsMap
<1>5. ASSUME counters' = counters
      PROVE  \A k \in DOMAIN counters \cap DOMAIN counters' :
               counters'[k].started = counters[k].started
               /\ counters'[k].count >= counters[k].count
  BY <1>5, <1>0
<1>6. CASE \E t \in Threads : admit(t)
  BY <1>2, <1>6 DEF Moves
<1> QED BY <1>1, <1>3, <1>4, <1>5, <1>6 DEF LimiterNext

\* No count passes the limit, nothing is stamped ahead of the clock and the map
\* never holds more keys than its capacity: for every limit, window, capacity,
\* however many tokens are presented by however many requests at once.
THEOREM LimiterKeepsItsBounds == LimiterSpec => []BoundsHold
<1>1. LimiterInit => LimiterInv
  BY InitLimiterInv
<1>2. LimiterInv /\ [LimiterNext]_limiter_vars => LimiterInv'
  BY StepLimiterInv
<1>3. LimiterInv => BoundsHold
  BY DEF LimiterInv, IsMap, TheMapIsBounded, BoundsHold
<1> QED BY <1>1, <1>2, <1>3, PTL DEF LimiterSpec

\* A late stamp never rewinds the window of a tracked key.
THEOREM NoRewind == LimiterSpec => WindowsNeverRewind
<1>1. LimiterInit => LimiterInv
  BY InitLimiterInv
<1>2. LimiterInv /\ [LimiterNext]_limiter_vars => LimiterInv'
  BY StepLimiterInv
<1>3. LimiterInv /\ [LimiterNext]_limiter_vars =>
        [\A k \in DOMAIN counters \cap DOMAIN counters' :
           \/ /\ counters'[k].started = counters[k].started
              /\ counters'[k].count >= counters[k].count
           \/ counters'[k].started >= counters[k].started + window]_limiter_vars
  BY StepLimiterInv
<1> QED BY <1>1, <1>2, <1>3, PTL DEF LimiterSpec, WindowsNeverRewind

-----------------------------------------------------------------------------
(* The wait a refusal names.                                               *)

\* Min is the least number of a non-empty set.
LEMMA MinLemma ==
  ASSUME NEW T \in SUBSET Nat, T # {}
  PROVE  Min(T) \in T /\ \A n \in T : Min(T) <= n
BY LeastNumber DEF Min

\* A window that runs at clock has all of 1..window left of it, and runs on for
\* exactly that long.
LEMMA RemainingLemma ==
  ASSUME NEW started \in Nat, NEW instant \in Nat, started <= instant,
         duration_since(instant, started) < window
  PROVE  /\ Remaining(started, instant) \in 1..window
         /\ \A d \in Nat : duration_since(instant + d, started) < window <=> d < Remaining(started, instant)
BY LimiterAssumption DEF Remaining, duration_since

\* allow_at, one case at a time.
LEMMA AllowCases ==
  ASSUME NEW map, NEW k, NEW at
  PROVE  LET held == retained(map, at)
             v == allow_at(map, k, at)
         IN  /\ HasNoRoom(held, k) =>
                  /\ ~v.allowed /\ v.counters = held
                  /\ v.retry_after = Min({Remaining(held[j].started, at) : j \in DOMAIN held})
             /\ ~HasNoRoom(held, k) /\ IsSpent(Opened(held, k, at)) =>
                  /\ ~v.allowed /\ v.counters = With(held, k, Opened(held, k, at))
                  /\ v.retry_after = Remaining(Opened(held, k, at).started, at)
             /\ ~HasNoRoom(held, k) /\ ~IsSpent(Opened(held, k, at)) => v.allowed
BY DEF allow_at

\* What is kept of a full map, and of one that is not full.
LEMMA RetainedCases ==
  ASSUME NEW map, IsMap(map), NEW at
  PROVE  /\ Cardinality(DOMAIN map) < capacity => retained(map, at) = map
         /\ ~(Cardinality(DOMAIN map) < capacity) =>
              /\ DOMAIN retained(map, at)
                   = {j \in DOMAIN map : duration_since(at, map[j].started) < window}
              /\ \A j \in DOMAIN retained(map, at) : retained(map, at)[j] = map[j]
BY DEF retained

\* A full map that loses a key has room.
LEMMA LosingMakesRoom ==
  ASSUME NEW map, IsMap(map), NEW S \in SUBSET DOMAIN map, NEW j \in DOMAIN map, j \notin S
  PROVE  Cardinality(S) < capacity
<1>1. IsFiniteSet(DOMAIN map) /\ Cardinality(DOMAIN map) <= capacity
  BY DEF IsMap
<1>2. IsFiniteSet(S) /\ Cardinality(S) <= Cardinality(DOMAIN map)
      /\ (Cardinality(S) = Cardinality(DOMAIN map) => S = DOMAIN map)
  BY <1>1, FS_Subset
<1>3. Cardinality(S) \in Nat /\ Cardinality(DOMAIN map) \in Nat
  BY <1>1, <1>2, FS_CardinalityType
<1> QED BY <1>1, <1>2, <1>3, LimiterAssumption

\* A fresh window is never spent.
LEMMA FreshIsNotSpent ==
  ASSUME NEW map, NEW k, NEW at, ~(k \in DOMAIN map /\ duration_since(at, map[k].started) < window)
  PROVE  ~IsSpent(Opened(map, k, at))
<1>1. Opened(map, k, at) = [started |-> at, count |-> 0]
  BY DEF Opened
<1>2. [started |-> at, count |-> 0].count = 0
  OBVIOUS
<1>3. Opened(map, k, at).count = 0
  BY <1>1, <1>2
<1> QED BY <1>3, LimiterAssumption DEF IsSpent

\* A key the map has no room for waits for the first window to run out.
LEMMA NoRoomWait ==
  ASSUME NEW held, IsMap(held), NEW instant \in Nat, NEW k \in Tokens, HasNoRoom(held, k),
         \A j \in DOMAIN held :
           held[j].started <= instant /\ duration_since(instant, held[j].started) < window,
         NEW wait, wait = Min({Remaining(held[j].started, instant) : j \in DOMAIN held})
  PROVE  /\ wait \in 1..window
         /\ allow_at(held, k, instant + wait).allowed
         /\ \A d \in 0..(wait - 1) : ~allow_at(held, k, instant + d).allowed
<1> DEFINE T == {Remaining(held[j].started, instant) : j \in DOMAIN held}
           S(d) == {j \in DOMAIN held : duration_since(instant + d, held[j].started) < window}
<1>1. \A j \in DOMAIN held : held[j].started \in Nat
  BY DEF IsMap, Entry
<1>2. \A j \in DOMAIN held : /\ Remaining(held[j].started, instant) \in 1..window
                             /\ \A d \in Nat : j \in S(d) <=> d < Remaining(held[j].started, instant)
  BY <1>1, RemainingLemma
<1>3. ~(Cardinality(DOMAIN held) < capacity) /\ k \notin DOMAIN held
  <2>1. Cardinality(DOMAIN held) \in Nat
    BY FS_CardinalityType DEF IsMap
  <2> QED BY <2>1, LimiterAssumption DEF HasNoRoom
<1>4. DOMAIN held # {}
  <2> SUFFICES ASSUME DOMAIN held = {} PROVE FALSE
    OBVIOUS
  <2>1. Cardinality(DOMAIN held) = 0
    BY FS_EmptySet
  <2> QED BY <1>3, <2>1, LimiterAssumption
<1>5. T \in SUBSET Nat /\ T # {}
  BY <1>2, <1>4, LimiterAssumption
<1>6. wait \in T /\ \A n \in T : wait <= n
  BY <1>5, MinLemma
<1>7. wait \in 1..window
  BY <1>2, <1>6
<1>8. wait \in Nat /\ instant + wait \in Nat
  BY <1>7, LimiterAssumption
<1>9. \A at : /\ DOMAIN retained(held, at) =
                   {j \in DOMAIN held : duration_since(at, held[j].started) < window}
              /\ \A j \in DOMAIN retained(held, at) : retained(held, at)[j] = held[j]
  BY <1>3, RetainedCases
<1>10. allow_at(held, k, instant + wait).allowed
  <2> DEFINE left == retained(held, instant + wait)
  <2>1. DOMAIN left = S(wait)
    BY <1>9
  <2>2. PICK j \in DOMAIN held : wait = Remaining(held[j].started, instant)
    BY <1>6
  <2>3. j \notin S(wait)
    BY <1>2, <1>8, <2>2
  <2>4. Cardinality(S(wait)) < capacity
    BY <2>2, <2>3, LosingMakesRoom
  <2> HIDE DEF S
  <2>5. ~HasNoRoom(left, k)
    <3>1. DOMAIN left \subseteq DOMAIN held
      BY <1>9
    <3>2. IsFiniteSet(DOMAIN left)
      BY <3>1, FS_Subset DEF IsMap
    <3>3. Cardinality(DOMAIN left) \in Nat
      BY <3>2, FS_CardinalityType
    <3> HIDE DEF left
    <3> QED BY <2>1, <2>4, <3>3, LimiterAssumption DEF HasNoRoom
  <2>6. k \notin DOMAIN left
    BY <1>3, <1>9
  <2>7. ~IsSpent(Opened(left, k, instant + wait))
    BY <2>6, FreshIsNotSpent
  <2> QED BY <2>5, <2>7, AllowCases
<1>11. ASSUME NEW d \in 0..(wait - 1) PROVE ~allow_at(held, k, instant + d).allowed
  <2>1. d \in Nat /\ d < wait
    BY <1>8
  <2>2. ASSUME NEW j \in DOMAIN held PROVE j \in S(d)
    <3>1. Remaining(held[j].started, instant) \in T /\ Remaining(held[j].started, instant) \in Nat
      BY <1>5
    <3>2. d < Remaining(held[j].started, instant)
      BY <1>6, <1>8, <2>1, <3>1
    <3> QED BY <1>2, <2>1, <3>2
  <2>3. DOMAIN retained(held, instant + d) = DOMAIN held
    BY <1>9, <2>2
  <2>4. HasNoRoom(retained(held, instant + d), k)
    BY <2>3 DEF HasNoRoom
  <2> QED BY <2>4, AllowCases
<1> QED BY <1>7, <1>10, <1>11

\* A key over its limit waits for its own window to run out.
LEMMA SpentWait ==
  ASSUME NEW held, IsMap(held), NEW instant \in Nat, NEW k \in DOMAIN held, IsSpent(held[k]),
         held[k].started <= instant, duration_since(instant, held[k].started) < window,
         NEW wait, wait = Remaining(held[k].started, instant)
  PROVE  /\ wait \in 1..window
         /\ allow_at(held, k, instant + wait).allowed
         /\ \A d \in 0..(wait - 1) : ~allow_at(held, k, instant + d).allowed
<1>1. held[k].started \in Nat
  BY DEF IsMap, Entry
<1>2. /\ wait \in 1..window
      /\ \A d \in Nat : duration_since(instant + d, held[k].started) < window <=> d < wait
  BY <1>1, RemainingLemma
<1>3. wait \in Nat
  BY <1>2, LimiterAssumption
<1>4. allow_at(held, k, instant + wait).allowed
  <2> DEFINE left == retained(held, instant + wait)
  <2>1. ~(duration_since(instant + wait, held[k].started) < window)
    BY <1>2, <1>3
  <2>2. CASE Cardinality(DOMAIN held) < capacity
    <3>1. left = held
      BY <2>2, RetainedCases
    <3>2. ~HasNoRoom(left, k) /\ ~IsSpent(Opened(left, k, instant + wait))
      BY <2>1, <3>1, FreshIsNotSpent DEF HasNoRoom
    <3> QED BY <3>2, AllowCases
  <2>3. CASE ~(Cardinality(DOMAIN held) < capacity)
    <3>1. DOMAIN left = {j \in DOMAIN held : duration_since(instant + wait, held[j].started) < window}
      BY <2>3, RetainedCases
    <3>2. DOMAIN left \in SUBSET DOMAIN held /\ k \notin DOMAIN left
      BY <2>1, <3>1
    <3> HIDE DEF left
    <3>3. Cardinality(DOMAIN left) < capacity
      BY <3>2, LosingMakesRoom
    <3>4. Cardinality(DOMAIN left) \in Nat
      BY <3>2, FS_Subset, FS_CardinalityType DEF IsMap
    <3>5. ~HasNoRoom(left, k) /\ ~IsSpent(Opened(left, k, instant + wait))
      BY <3>2, <3>3, <3>4, FreshIsNotSpent, LimiterAssumption DEF HasNoRoom
    <3> QED BY <3>5, AllowCases DEF left
  <2> QED BY <2>2, <2>3
<1>5. ASSUME NEW d \in 0..(wait - 1) PROVE ~allow_at(held, k, instant + d).allowed
  <2> DEFINE left == retained(held, instant + d)
  <2>1. duration_since(instant + d, held[k].started) < window
    BY <1>2, <1>3
  <2>2. k \in DOMAIN left /\ left[k] = held[k]
    BY <2>1, RetainedCases
  <2> HIDE DEF left
  <2>3. Opened(left, k, instant + d) = held[k] /\ ~HasNoRoom(left, k)
    BY <2>1, <2>2 DEF Opened, HasNoRoom
  <2> QED BY <2>3, AllowCases DEF left
<1> QED BY <1>2, <1>4, <1>5

\* The wait a refusal names is exact, for a key over its limit and for one the
\* map has no room for: no earlier retry is served and that one is.
THEOREM TheWaitIsExact == LimiterSpec => []RetryAfterIsExact
<1>1. LimiterInv => RetryAfterIsExact
  <2> SUFFICES ASSUME LimiterInv, NEW k \in Tokens, ~allow_at(counters, k, clock).allowed
               PROVE  LET verdict == allow_at(counters, k, clock)
                          Later(d) == allow_at(verdict.counters, k, clock + d).allowed
                      IN  /\ verdict.retry_after \in 1..window
                          /\ Later(verdict.retry_after)
                          /\ \A d \in 0..(verdict.retry_after - 1) : ~Later(d)
    BY DEF RetryAfterIsExact
  <2> DEFINE verdict == allow_at(counters, k, clock)
             held == retained(counters, clock)
  <2>1. clock \in Nat /\ IsMap(counters) /\ \A j \in DOMAIN counters : counters[j].started <= clock
    BY DEF LimiterInv, LimiterTypeOK
  <2>2. /\ IsMap(held) /\ DOMAIN held \subseteq DOMAIN counters
        /\ \A j \in DOMAIN held : held[j] = counters[j]
    BY <2>1, RetainedLemma
  <2>3. CASE HasNoRoom(held, k)
    <3>1. ~(Cardinality(DOMAIN counters) < capacity)
      <4> SUFFICES ASSUME Cardinality(DOMAIN counters) < capacity PROVE FALSE
        OBVIOUS
      <4>1. held = counters
        BY <2>1, RetainedCases
      <4>2. Cardinality(DOMAIN counters) \in Nat
        BY <2>1, FS_CardinalityType DEF IsMap
      <4> QED BY <2>3, <4>1, <4>2, LimiterAssumption DEF HasNoRoom
    <3>2. \A j \in DOMAIN held :
            held[j].started <= clock /\ duration_since(clock, held[j].started) < window
      <4>1. DOMAIN held = {j \in DOMAIN counters : duration_since(clock, counters[j].started) < window}
        BY <2>1, <3>1, RetainedCases
      <4> HIDE DEF held
      <4>2. ASSUME NEW j \in DOMAIN held
            PROVE  held[j].started <= clock /\ duration_since(clock, held[j].started) < window
        BY <2>1, <2>2, <4>1
      <4> QED BY <4>2
    <3>3. /\ verdict.counters = held
          /\ verdict.retry_after = Min({Remaining(held[j].started, clock) : j \in DOMAIN held})
      BY <2>3, AllowCases
    <3> HIDE DEF held, verdict
    <3>4. /\ verdict.retry_after \in 1..window
          /\ allow_at(held, k, clock + verdict.retry_after).allowed
          /\ \A d \in 0..(verdict.retry_after - 1) : ~allow_at(held, k, clock + d).allowed
      BY <2>1, <2>2, <2>3, <3>2, <3>3, NoRoomWait
    <3> QED BY <3>3, <3>4 DEF verdict
  <2>4. CASE ~HasNoRoom(held, k)
    <3>1. /\ IsSpent(Opened(held, k, clock))
          /\ verdict.counters = With(held, k, Opened(held, k, clock))
          /\ verdict.retry_after = Remaining(Opened(held, k, clock).started, clock)
      BY <2>4, AllowCases
    <3>2. k \in DOMAIN held /\ duration_since(clock, held[k].started) < window
      BY <3>1, FreshIsNotSpent
    <3>3. Opened(held, k, clock) = held[k]
      BY <3>2 DEF Opened
    <3>4. With(held, k, held[k]) = held
      <4>1. DOMAIN held \cup {k} = DOMAIN held
        BY <3>2
      <4>2. held = [j \in DOMAIN held |-> held[j]]
        BY <2>2 DEF IsMap
      <4> HIDE DEF held
      <4>3. With(held, k, held[k]) = [j \in DOMAIN held |-> IF j = k THEN held[k] ELSE held[j]]
        BY <4>1 DEF With
      <4>4. [j \in DOMAIN held |-> IF j = k THEN held[k] ELSE held[j]] = [j \in DOMAIN held |-> held[j]]
        OBVIOUS
      <4> QED BY <4>2, <4>3, <4>4
    <3>5. IsSpent(held[k]) /\ held[k].started <= clock
      BY <2>1, <2>2, <3>1, <3>2, <3>3
    <3>6. verdict.counters = held /\ verdict.retry_after = Remaining(held[k].started, clock)
      BY <3>1, <3>3, <3>4
    <3> HIDE DEF held, verdict
    <3>7. /\ verdict.retry_after \in 1..window
          /\ allow_at(held, k, clock + verdict.retry_after).allowed
          /\ \A d \in 0..(verdict.retry_after - 1) : ~allow_at(held, k, clock + d).allowed
      BY <2>1, <2>2, <3>2, <3>5, <3>6, SpentWait
    <3> QED BY <3>6, <3>7 DEF verdict
  <2> QED BY <2>3, <2>4
<1> QED BY <1>1, InitLimiterInv, StepLimiterInv, PTL DEF LimiterSpec
=============================================================================
