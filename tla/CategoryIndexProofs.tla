-------------------------- MODULE CategoryIndexProofs --------------------------
(***************************************************************************)
(* For every set of facts, rules and bounds: the eager path keeps the      *)
(* projection current, the rule book's numbering is sound, the ladder      *)
(* always has a winner, and the preview of an exact rule is what creating  *)
(* it does.                                                                *)
(***************************************************************************)
EXTENDS CategoryIndex, WellFoundedInduction, TLAPS

\* A rule that replaces another names a rule of the book.
ReplacesExist ==
  \A r \in rules : r.replaces = 0 \/ \E s \in rules : s.version = r.replaces

\* The rule book: its types, its numbering and its chains of edits.
RuleBook ==
  /\ rules \subseteq Rule
  /\ VersionsAreUnique
  /\ ReplacesExist
  /\ EditsNeverFork

\* The whole rows, revision included, which is what rebuild writes.
RowsAreCurrent == owed = 0 /\ ~lost => index = Project(journal, active_rules(rules))

\* The rows an index may hold for a journal and a rule book.
Rows(es, rs) == [event: es, rule: {r.version : r \in rs}, revision: 0..MaxVersion]

\* Everything but the rule book has its type.
Typed ==
  /\ journal \subseteq Events
  /\ index \subseteq Rows(journal, rules)
  /\ owed \in 0..MaxOwed
  /\ lost \in BOOLEAN

IInv == RuleBook /\ owed \in Nat /\ RowsAreCurrent

-----------------------------------------------------------------------------
(* The ladder.                                                             *)

\* Every non-empty set of numbers has a least one.
LEMMA LeastNumber ==
  ASSUME NEW T \in SUBSET Nat, T # {}
  PROVE  \E m \in T : \A n \in T : m <= n
<1> DEFINE R == OpToRel(<, Nat)
<1>1. IsWellFoundedOn(R, Nat)
  BY NatLessThanWellFounded
<1>2. \A x, y \in Nat : <<x, y>> \in R <=> x < y
  BY DEF OpToRel
<1> HIDE DEF R
<1>3. PICK m \in T : \A n \in T : ~(<<n, m>> \in R)
  BY <1>1, WFMin
<1>4. \A n \in T : ~(n < m)
  BY <1>2, <1>3
<1>5. \A n \in T : m <= n
  BY <1>4
<1> QED BY <1>5

\* The highest version is held by a rule, and by none above it.
LEMMA HighestVersion ==
  ASSUME NEW rs \in SUBSET Rule
  PROVE  highest_version(rs) \in 0..MaxVersion /\ \A r \in rs : r.version <= highest_version(rs)
<1>1. CASE rs = {}
  BY <1>1, DraftsAssumption DEF highest_version
<1>2. CASE rs # {}
  <2> DEFINE V == {r.version : r \in rs}
             U == {n \in Nat : \A r \in rs : r.version <= n}
             top == CHOOSE n \in V : \A r \in rs : r.version <= n
  <2>1. \A r \in rs : r.version \in 1..MaxVersion
    BY DEF Rule
  <2>2. MaxVersion \in U
    BY <2>1, DraftsAssumption
  <2>3. PICK m \in U : \A n \in U : m <= n
    BY <2>2, LeastNumber
  <2>4. m \in V
    <3> SUFFICES ASSUME \A r \in rs : r.version # m PROVE FALSE
      OBVIOUS
    <3>1. m \in Nat /\ \A r \in rs : r.version \in Nat /\ r.version <= m - 1
      BY <2>1, DraftsAssumption
    <3>2. m - 1 \in Nat
      BY <1>2, <2>1, <3>1, DraftsAssumption
    <3>3. m - 1 \in U
      BY <3>1, <3>2
    <3> QED BY <2>3, <3>1, <3>3
  <2>5. top \in V /\ \A r \in rs : r.version <= top
    BY <2>4
  <2>6. highest_version(rs) = top
    BY <1>2 DEF highest_version
  <2>7. V \subseteq 1..MaxVersion
    BY <2>1
  <2> HIDE DEF V, top
  <2>8. top \in 0..MaxVersion
    BY <2>5, <2>7, DraftsAssumption
  <2> QED BY <2>5, <2>6, <2>8
<1> QED BY <1>1, <1>2

\* A rule of the book, or one about to be written to it.
Ranked == [version: Nat, draft: Drafts, retired: BOOLEAN, replaces: Nat]

LEMMA RankedFields ==
  ASSUME NEW r \in Ranked
  PROVE  /\ r.version \in Nat /\ r.draft \in Drafts /\ r.draft.len \in Nat
         /\ r.draft.class \in {"Row", "SourceCategory", "Description"}
         /\ ClassRank(r.draft.class) \in Nat
BY DraftsAssumption DEF Ranked, Draft, ClassRank

LEMMA RulesAreRanked == Rule \subseteq Ranked
BY DraftsAssumption DEF Rule, Ranked

\* The ranks of two classes are equal only when the classes are.
LEMMA RankOfClass ==
  \A c, d \in {"Row", "SourceCategory", "Description"} : ClassRank(c) = ClassRank(d) => c = d
BY DEF ClassRank

\* The ladder is a strict order, total on rules with different numbers.
LEMMA LadderIsStrict ==
  ASSUME NEW r \in Ranked, NEW s \in Ranked, Outranks(r, s) PROVE ~Outranks(s, r)
BY RankedFields DEF Outranks

LEMMA LadderIsTransitive ==
  ASSUME NEW r \in Ranked, NEW s \in Ranked, NEW t \in Ranked, Outranks(r, s), Outranks(s, t)
  PROVE  Outranks(r, t)
BY RankedFields DEF Outranks

LEMMA LadderIsTotal ==
  ASSUME NEW r \in Ranked, NEW s \in Ranked, r.version # s.version
  PROVE  Outranks(r, s) \/ Outranks(s, r)
<1>1. CASE ClassRank(r.draft.class) = ClassRank(s.draft.class)
  <2>1. r.draft.class = s.draft.class
    BY <1>1, RankedFields, RankOfClass
  <2> QED BY <2>1, RankedFields DEF Outranks
<1>2. CASE ClassRank(r.draft.class) # ClassRank(s.draft.class)
  BY <1>2, RankedFields DEF Outranks
<1> QED BY <1>1, <1>2

\* Among rules with different numbers one outranks all the others: by the
\* least number up to which the rules had none.
LEMMA ThereIsAWinner ==
  ASSUME NEW M \in SUBSET Rule, M # {}, \A r, s \in M : r.version = s.version => r = s
  PROVE  \E r \in M : \A s \in M \ {r} : Outranks(r, s)
<1> DEFINE UpTo(n) == {r \in M : r.version <= n}
           Won(n) == \E r \in UpTo(n) : \A s \in UpTo(n) \ {r} : Outranks(r, s)
           T == {n \in Nat : UpTo(n) # {} /\ ~Won(n)}
<1>0. \A r \in M : r \in Ranked /\ r.version \in 1..MaxVersion /\ r.version \in Nat
  BY RulesAreRanked, DraftsAssumption DEF Rule
<1>1. T = {}
  <2> SUFFICES ASSUME T # {} PROVE FALSE
    OBVIOUS
  <2>1. PICK n \in T : \A k \in T : n <= k
    BY LeastNumber
  <2>2. n \in Nat /\ UpTo(n) # {} /\ ~Won(n)
    OBVIOUS
  <2>3. n # 0
    BY <1>0, <2>2
  <2>4. n - 1 \in Nat /\ n - 1 \notin T
    BY <2>1, <2>2, <2>3
  <2>5. UpTo(n - 1) = {} \/ Won(n - 1)
    BY <2>4
  <2>6. \A k \in Nat : k <= n <=> k <= n - 1 \/ k = n
    <3>1. n \in Nat
      OBVIOUS
    <3> HIDE DEF T
    <3> QED BY <3>1
  <2>7. \A r \in M : r.version <= n <=> r.version <= n - 1 \/ r.version = n
    BY <1>0, <2>6, Zenon
  <2>8. PICK x \in M : x.version = n
    <3>1. SUFFICES ASSUME \A r \in M : r.version # n PROVE FALSE
      OBVIOUS
    <3>2. \A r \in M : r.version <= n <=> r.version <= n - 1
      BY <2>7, <3>1
    <3>3. UpTo(n) = UpTo(n - 1)
      BY <3>2
    <3> QED BY <2>2, <2>5, <3>3
  <2>9. UpTo(n) = UpTo(n - 1) \cup {x}
    <3>1. \A r \in M : r.version = n <=> r = x
      BY <2>8
    <3> QED BY <2>7, <3>1
  <2>10. x \notin UpTo(n - 1) /\ \A r \in UpTo(n - 1) : r \in M /\ r.version # x.version
    BY <1>0, <2>2, <2>8
  <2> HIDE DEF T, UpTo
  <2>11. CASE UpTo(n - 1) = {}
    BY <2>2, <2>9, <2>11
  <2>12. CASE Won(n - 1)
    <3>1. PICK r \in UpTo(n - 1) : \A s \in UpTo(n - 1) \ {r} : Outranks(r, s)
      BY <2>12
    <3>2. x \in Ranked /\ \A s \in UpTo(n - 1) : s \in Ranked
      BY <1>0, <2>10
    <3>3. CASE Outranks(r, x)
      BY <2>2, <2>9, <3>1, <3>3
    <3>4. CASE Outranks(x, r)
      <4>1. \A s \in UpTo(n - 1) : Outranks(x, s)
        BY <3>1, <3>2, <3>4, LadderIsTransitive
      <4> QED BY <2>2, <2>9, <4>1
    <3> QED BY <2>10, <3>2, <3>3, <3>4, LadderIsTotal
  <2> QED BY <2>5, <2>11, <2>12
<1>2. UpTo(MaxVersion) = M
  BY <1>0
<1>3. MaxVersion \notin T /\ MaxVersion \in Nat
  BY <1>1, DraftsAssumption
<1> QED BY <1>2, <1>3

\* Creating the rule d on a book rs under the next number n, for an event e that
\* an exact matcher of it matches: d decides unless a higher class already does.
LEMMA ExactPreview ==
  ASSUME NEW rs \in SUBSET Rule, \A r, s \in rs : r.version = s.version => r = s,
         NEW d \in Drafts, d.class # "Description", NEW e, NEW n \in Nat,
         \A r \in rs : r.version < n
  PROVE  assign_with_proposed(e, rs, d) =
           {r.draft : r \in assign(e, rs \cup {
              [version |-> n, draft |-> d, retired |-> FALSE, replaces |-> 0]})}
<1> DEFINE new == [version |-> n, draft |-> d, retired |-> FALSE, replaces |-> 0]
           M == {r \in rs : e \in r.draft.matches}
           N == {r \in rs \cup {new} : e \in r.draft.matches}
           Best(S) == {r \in S : \A s \in S \ {r} : Outranks(r, s)}
           current == {r.draft : r \in assign(e, rs)}
           higher == \E c \in current : ClassRank(c.class) > ClassRank(d.class)
<1>1. assign(e, rs) = Best(M) /\ assign(e, rs \cup {new}) = Best(N)
  BY DEF assign
<1>2. /\ new \in Ranked /\ new.version = n /\ new.draft = d
      /\ \A r \in rs : r \in Rule /\ r \in Ranked /\ r.version \in Nat /\ r.version # n
  BY RulesAreRanked, DraftsAssumption DEF Ranked, Rule
<1> SUFFICES assign_with_proposed(e, rs, d) = {r.draft : r \in assign(e, rs \cup {new})}
  OBVIOUS
<1> HIDE DEF new
<1>3. assign_with_proposed(e, rs, d) = IF e \notin d.matches \/ higher THEN current ELSE {d}
  BY DEF assign_with_proposed
<1>4. new \notin rs
  BY <1>2
<1>5. CASE e \notin d.matches
  <2>1. N = M
    BY <1>2, <1>5
  <2> QED BY <1>1, <1>3, <1>5, <2>1
<1>6. CASE e \in d.matches /\ higher
  <2>1. N = M \cup {new} /\ M \subseteq rs
    BY <1>2, <1>6
  <2>2. PICK w \in Best(M) : ClassRank(w.draft.class) > ClassRank(d.class)
    BY <1>1, <1>6
  <2>3. w \in M /\ w \in Ranked /\ \A s \in M \ {w} : Outranks(w, s)
    BY <1>2, <2>1, <2>2
  <2>4. Outranks(w, new)
    BY <1>2, <2>2 DEF Outranks
  <2>5. ~Outranks(new, w)
    BY <1>2, <2>3, <2>4, LadderIsStrict
  <2>6. \A s \in M \ {w} : ~Outranks(s, w)
    BY <1>2, <2>1, <2>3, LadderIsStrict
  <2> HIDE DEF M, N, current, higher
  <2>7. Best(M) = {w}
    BY <2>3, <2>6
  <2>8. Best(N) = {w}
    <3>1. w \in Best(N)
      BY <2>1, <2>3, <2>4
    <3>2. ASSUME NEW x \in Best(N), x # w PROVE FALSE
      <4>1. Outranks(x, w) /\ (x = new \/ x \in M)
        BY <2>1, <2>3, <3>2
      <4> QED BY <2>5, <2>6, <3>2, <4>1
    <3> QED BY <3>1, <3>2
  <2> QED BY <1>1, <1>3, <1>6, <2>7, <2>8 DEF current
<1>7. CASE e \in d.matches /\ ~higher
  <2>1. N = M \cup {new} /\ M \subseteq rs
    BY <1>2, <1>7
  <2>2. ASSUME NEW s \in M PROVE Outranks(new, s)
    <3>0. M \in SUBSET Rule /\ M # {} /\ \A p, q \in M : p.version = q.version => p = q
      BY <2>2
    <3>1. PICK w \in M : \A t \in M \ {w} : Outranks(w, t)
      <4> HIDE DEF M
      <4> QED BY <3>0, ThereIsAWinner
    <3>2. w.draft \in current
      BY <1>1, <3>1
    <3>3. ~(ClassRank(w.draft.class) > ClassRank(d.class))
      BY <1>7, <3>2
    <3>4. w \in Ranked /\ s \in Ranked /\ s \in rs /\ e \in s.draft.matches
      BY <1>2, <2>1
    <3>5. ~(ClassRank(s.draft.class) > ClassRank(w.draft.class))
      <4>1. CASE s = w
        BY <3>4, <4>1, RankedFields
      <4>2. CASE s # w
        BY <3>1, <3>4, <4>2, RankedFields DEF Outranks
      <4> QED BY <4>1, <4>2
    <3>6. ~(ClassRank(s.draft.class) > ClassRank(d.class))
      BY <1>2, <3>3, <3>4, <3>5, RankedFields
    <3>7. CASE ClassRank(s.draft.class) = ClassRank(d.class)
      <4>1. s.draft.class = d.class
        BY <1>2, <3>4, <3>7, RankedFields, RankOfClass
      <4>2. s.draft.len = d.len
        BY <1>2, <1>7, <3>4, <4>1, RankedFields, DraftsAssumption
      <4>3. n > s.version
        BY <1>2, <3>4
      <4> QED BY <1>2, <4>1, <4>2, <4>3 DEF Outranks
    <3>8. CASE ClassRank(s.draft.class) # ClassRank(d.class)
      BY <1>2, <3>4, <3>6, <3>8, RankedFields DEF Outranks
    <3> QED BY <3>7, <3>8
  <2>3. \A s \in M : ~Outranks(s, new)
    BY <1>2, <2>1, <2>2, LadderIsStrict
  <2>4. new \notin M
    BY <1>4, <2>1
  <2> HIDE DEF M, N, current, higher
  <2>5. Best(N) = {new}
    <3>1. new \in Best(N)
      BY <2>1, <2>2
    <3>2. ASSUME NEW x \in Best(N), x # new PROVE FALSE
      <4>1. Outranks(x, new) /\ x \in M
        BY <2>1, <3>2
      <4> QED BY <2>3, <4>1
    <3> QED BY <3>1, <3>2
  <2>6. {r.draft : r \in {new}} = {d}
    BY <1>2
  <2>7. assign_with_proposed(e, rs, d) = {d}
    BY <1>3, <1>7
  <2> QED BY <1>1, <2>5, <2>6, <2>7
<1> QED BY <1>5, <1>6, <1>7

-----------------------------------------------------------------------------
(* What a projection holds.                                                *)

\* Every row of a projection is about one of the projected facts.
LEMMA ProjectedEvents ==
  ASSUME NEW es, NEW rs, NEW row \in Project(es, rs)
  PROVE  row.event \in es
<1>1. PICK e \in es : row \in [event: {e}, rule: {r.version : r \in assign(e, rs)},
                               revision: {highest_version(rs)}]
  BY DEF Project
<1> QED BY <1>1

\* Stripped of the revision, a projection is the ladder's verdict on each fact.
LEMMA ProjectStripped ==
  ASSUME NEW es, NEW rs
  PROVE  {[event |-> row.event, rule |-> row.rule] : row \in Project(es, rs)}
           = UNION {[event: {e}, rule: {r.version : r \in assign(e, rs)}] : e \in es}
<1> DEFINE Winners(e) == {r.version : r \in assign(e, rs)}
<1> DEFINE Full(e) == [event: {e}, rule: Winners(e), revision: {highest_version(rs)}]
<1> DEFINE Bare(e) == [event: {e}, rule: Winners(e)]
<1>1. Project(es, rs) = UNION {Full(e) : e \in es}
  BY DEF Project
<1> SUFFICES {[event |-> row.event, rule |-> row.rule] : row \in UNION {Full(e) : e \in es}}
               = UNION {Bare(e) : e \in es}
  BY <1>1
<1> HIDE DEF Winners
<1>2. ASSUME NEW e \in es, NEW row \in Full(e)
      PROVE  [event |-> row.event, rule |-> row.rule] \in Bare(e)
  OBVIOUS
<1>3. ASSUME NEW e \in es, NEW b \in Bare(e)
      PROVE  \E row \in Full(e) : b = [event |-> row.event, rule |-> row.rule]
  <2>1. [event |-> b.event, rule |-> b.rule, revision |-> highest_version(rs)] \in Full(e)
    OBVIOUS
  <2>2. b = [event |-> b.event, rule |-> b.rule]
    OBVIOUS
  <2> QED BY <2>1, <2>2
<1> HIDE DEF Full, Bare
<1> QED BY <1>2, <1>3

\* A projection is made of rows an index may hold.
LEMMA ProjectIsTyped ==
  ASSUME NEW es, NEW rs \in SUBSET Rule
  PROVE  Project(es, rs) \subseteq Rows(es, rs)
<1>1. ASSUME NEW row \in Project(es, rs) PROVE row \in Rows(es, rs)
  <2>1. PICK e \in es : row \in [event: {e}, rule: {r.version : r \in assign(e, rs)},
                                 revision: {highest_version(rs)}]
    BY DEF Project
  <2>2. {r.version : r \in assign(e, rs)} \subseteq {r.version : r \in rs}
    BY DEF assign
  <2>3. highest_version(rs) \in 0..MaxVersion
    BY HighestVersion
  <2> QED BY <2>1, <2>2, <2>3 DEF Rows
<1> QED BY <1>1

\* Rows stay rows when facts and rule numbers are added.
LEMMA RowsGrow ==
  ASSUME NEW es, NEW fs, es \subseteq fs, NEW rs, NEW qs,
         \A r \in rs : \E q \in qs : r.version = q.version
  PROVE  Rows(es, rs) \subseteq Rows(fs, qs)
<1>1. {r.version : r \in rs} \subseteq {q.version : q \in qs}
  OBVIOUS
<1> QED BY <1>1 DEF Rows

-----------------------------------------------------------------------------
(* The rule book.                                                          *)

\* A fresh number is above every number of the book.
LEMMA NextVersionIsFresh ==
  ASSUME rules \subseteq Rule, NEW n \in 0..MaxVersion, IsNextVersion(n)
  PROVE  n \in 1..MaxVersion /\ \A r \in rules : r.version < n
BY DraftsAssumption DEF IsNextVersion, Rule

\* Retiring an active rule keeps the book in order.
LEMMA RetiredBook ==
  ASSUME RuleBook, NEW r \in rules, IsActive(r)
  PROVE  /\ retired(r) \subseteq Rule
         /\ \A p, q \in retired(r) : p.version = q.version => p = q
         /\ \A p \in retired(r) : p.replaces = 0 \/ \E q \in retired(r) : q.version = p.replaces
         /\ \A p, q \in retired(r) :
              /\ p.replaces = q.replaces /\ p.replaces # 0 => p = q
              /\ p.replaces = q.version => q.retired
         /\ \A p \in retired(r) : p.replaces # r.version
         /\ \A p \in retired(r) : \E q \in rules : p.version = q.version
         /\ \A p \in retired(r) : p.version = r.version => p.retired
         /\ \E p \in retired(r) : p.version = r.version
<1> DEFINE new == [r EXCEPT !.retired = TRUE]
<1>1. /\ r \in Rule
      /\ new \in Rule /\ new.version = r.version /\ new.replaces = r.replaces /\ new.retired
  BY DEF RuleBook, Rule
<1>2. retired(r) = (rules \ {r}) \cup {new}
  BY DEF retired
<1>3. \A p \in rules : p.replaces # r.version
  BY DEF RuleBook, EditsNeverFork, IsActive
<1> HIDE DEF new
<1> QED BY <1>1, <1>2, <1>3 DEF RuleBook, VersionsAreUnique, ReplacesExist, EditsNeverFork

\* Writing a rule onto an ordered book keeps it in order.
LEMMA WrittenBook ==
  ASSUME NEW rs, NEW d \in Drafts, NEW old \in 0..MaxVersion, rules \subseteq Rule,
         write_category_rule(rs, d, old),
         rs \subseteq Rule,
         \A p, q \in rs : p.version = q.version => p = q,
         \A p \in rs : p.replaces = 0 \/ \E q \in rs : q.version = p.replaces,
         \A p, q \in rs :
              /\ p.replaces = q.replaces /\ p.replaces # 0 => p = q
              /\ p.replaces = q.version => q.retired,
         \A p \in rs : \E q \in rules : p.version = q.version,
         old = 0 \/ /\ \A p \in rs : p.replaces # old
                    /\ \A p \in rs : p.version = old => p.retired
                    /\ \E p \in rs : p.version = old
  PROVE  RuleBook'
<1>1. PICK n \in 0..MaxVersion :
        /\ IsNextVersion(n)
        /\ rules' = rs \cup {[version |-> n, draft |-> d, retired |-> FALSE, replaces |-> old]}
  BY DEF write_category_rule
<1> DEFINE new == [version |-> n, draft |-> d, retired |-> FALSE, replaces |-> old]
<1>2. n \in 1..MaxVersion /\ \A r \in rules : r.version < n
  BY <1>1, NextVersionIsFresh
<1>3. /\ new \in Rule /\ new.version = n /\ new.replaces = old /\ ~new.retired
  BY <1>2 DEF Rule
<1>4. \A p \in rs : p.version \in Nat \ {0} /\ p.version < n /\ p.replaces \in Nat
  BY <1>2, DraftsAssumption DEF Rule
<1>5. \A p \in rs : p.replaces # n
  <2> SUFFICES ASSUME NEW p \in rs, p.replaces = n PROVE FALSE
    OBVIOUS
  <2> QED BY <1>2, <1>4
<1>6. old # n
  BY <1>2, <1>4
<1>7. rules' = rs \cup {new}
  BY <1>1
<1> HIDE DEF new
<1> QED
  <2>1. (rules \subseteq Rule)'
    BY <1>3, <1>7
  <2>2. VersionsAreUnique'
    BY <1>3, <1>4, <1>7 DEF VersionsAreUnique
  <2>3. ReplacesExist'
    BY <1>3, <1>7 DEF ReplacesExist
  <2>4. EditsNeverFork'
    BY <1>2, <1>3, <1>4, <1>5, <1>6, <1>7 DEF EditsNeverFork
  <2> QED BY <2>1, <2>2, <2>3, <2>4 DEF RuleBook

-----------------------------------------------------------------------------
LEMMA InitIInv == Init => IInv
BY DEF Init, IInv, RuleBook, VersionsAreUnique, ReplacesExist, EditsNeverFork, Rule,
       RowsAreCurrent, Project

LEMMA NextIInv == IInv /\ [Next]_vars => IInv'
<1> SUFFICES ASSUME IInv, [Next]_vars PROVE IInv'
  OBVIOUS
<1> USE DEF IInv
<1>1. ASSUME NEW d \in Drafts, insert_category_rule(d) PROVE IInv'
  <2>1. RuleBook'
    <3>1. 0 \in 0..MaxVersion /\ write_category_rule(rules, d, 0)
      BY <1>1, DraftsAssumption DEF insert_category_rule
    <3> QED BY <3>1, WrittenBook DEF RuleBook, VersionsAreUnique, ReplacesExist, EditsNeverFork
  <2>2. (owed \in Nat /\ owed # 0)'
    BY <1>1 DEF insert_category_rule, Owe
  <2> QED BY <2>1, <2>2 DEF RowsAreCurrent
<1>2. ASSUME NEW d \in Drafts, NEW r \in rules, amend_category_rule(r, d) PROVE IInv'
  <2>1. r.version \in 0..MaxVersion
    BY DEF RuleBook, Rule
  <2>2. RuleBook'
    <3>1. IsActive(r) /\ write_category_rule(retired(r), d, r.version) /\ rules \subseteq Rule
      BY <1>2 DEF amend_category_rule, RuleBook
    <3> HIDE DEF IInv
    <3> QED BY <2>1, <3>1, RetiredBook, WrittenBook DEF IInv
  <2>3. (owed \in Nat /\ owed # 0)'
    BY <1>2 DEF amend_category_rule, Owe
  <2> QED BY <2>2, <2>3 DEF RowsAreCurrent
<1>3. ASSUME NEW r \in rules, retire_category_rule(r) PROVE IInv'
  <2>1. rules' = retired(r) /\ IsActive(r)
    BY <1>3 DEF retire_category_rule
  <2>2. RuleBook'
    BY <2>1, RetiredBook DEF RuleBook, VersionsAreUnique, ReplacesExist, EditsNeverFork
  <2>3. (owed \in Nat /\ owed # 0)'
    BY <1>3 DEF retire_category_rule, Owe
  <2> QED BY <2>2, <2>3 DEF RowsAreCurrent
<1>4. ASSUME UNCHANGED rules PROVE RuleBook'
  BY <1>4 DEF RuleBook, VersionsAreUnique, ReplacesExist, EditsNeverFork
<1>5. CASE rebuild_category_index
  BY <1>4, <1>5 DEF rebuild_category_index, rebuild, RowsAreCurrent, active_rules
<1>6. CASE request_ends_early
  BY <1>4, <1>6 DEF request_ends_early, RowsAreCurrent
<1>7. ASSUME NEW e \in Events, insert_event(e) PROVE IInv'
  <2>1. RuleBook' /\ (owed \in Nat)'
    BY <1>4, <1>7 DEF insert_event
  <2>2. RowsAreCurrent'
    <3> SUFFICES ASSUME owed = 0, ~lost
                 PROVE  index' = Project(journal \cup {e}, active_rules(rules))
      BY <1>7 DEF insert_event, RowsAreCurrent, active_rules
    <3>1. index = Project(journal, active_rules(rules))
      BY DEF RowsAreCurrent
    <3>2. \A row \in index : row.event # e
      BY <1>7, <3>1, ProjectedEvents DEF insert_event
    <3>3. index' = index \cup Project({e}, active_rules(rules))
      BY <1>7, <3>2 DEF insert_event, assign_for
    <3>4. Project(journal \cup {e}, active_rules(rules))
            = Project(journal, active_rules(rules)) \cup Project({e}, active_rules(rules))
      BY Zenon DEF Project
    <3> QED BY <3>1, <3>3, <3>4
  <2> QED BY <2>1, <2>2
<1>8. CASE list_journal_events
  <2>1. RuleBook' /\ (owed \in Nat)'
    BY <1>4, <1>8 DEF list_journal_events
  <2>2. CASE is_stale
    BY <1>8, <2>1, <2>2 DEF list_journal_events, rebuild, RowsAreCurrent, active_rules
  <2>3. CASE ~is_stale
    <3>1. index' = index /\ (~lost' => ~lost) /\ UNCHANGED <<rules, journal, owed>>
      BY Zenon, <1>8, <2>3 DEF list_journal_events
    <3> QED BY <2>1, <3>1 DEF RowsAreCurrent, active_rules
  <2> QED BY <2>2, <2>3
<1>9. CASE UNCHANGED vars
  BY <1>4, <1>9 DEF vars, RowsAreCurrent, active_rules
<1> QED BY <1>1, <1>2, <1>3, <1>5, <1>6, <1>7, <1>8, <1>9 DEF Next

\* The projection is right whenever no request is between a rule change and
\* its rebuild and none was lost there: creates, edits, retirements, rebuilds,
\* appends and repairing reads may interleave in any way.
THEOREM EagerIndexIsCurrent == Spec => []QuietIndexIsCurrent
<1>1. IInv => QuietIndexIsCurrent
  BY ProjectStripped DEF IInv, RowsAreCurrent, QuietIndexIsCurrent
<1> QED BY <1>1, InitIInv, NextIInv, PTL DEF Spec

\* Numbers are never reused and edits never fork a rule.
THEOREM RuleBookIsSound == Spec => [](VersionsAreUnique /\ EditsNeverFork)
<1>1. IInv => VersionsAreUnique /\ EditsNeverFork
  BY DEF IInv, RuleBook
<1> QED BY <1>1, InitIInv, NextIInv, PTL DEF Spec

\* Rules and rows have their types: an index row names a fact of the journal and
\* a rule of the book, whatever fell between a rule change and its rebuild.
THEOREM CategoriesAreTyped == Spec => []TypeOK
<1>1. Init => Typed
  <2>1. 0 \in 0..MaxOwed
    BY DraftsAssumption
  <2> QED BY <2>1 DEF Init, Typed
<1>2. IInv /\ Typed /\ [Next]_vars => Typed'
  <2> SUFFICES ASSUME IInv, Typed, [Next]_vars PROVE Typed'
    OBVIOUS
  <2> DEFINE act == active_rules(rules)
  <2>1. rules \subseteq Rule /\ act \subseteq rules /\ act \in SUBSET Rule
    BY DEF IInv, RuleBook, active_rules
  <2>2. Project(journal, act) \subseteq Rows(journal, rules)
    BY <2>1, ProjectIsTyped, RowsGrow
  <2> HIDE DEF act
  <2>3. ASSUME Owe, \A r \in rules : \E q \in rules' : r.version = q.version PROVE Typed'
    <3>1. owed' \in 0..MaxOwed /\ UNCHANGED <<journal, index, lost>>
      BY <2>3, DraftsAssumption DEF Owe, Typed
    <3>2. Rows(journal, rules) \subseteq Rows(journal, rules')
      BY <2>3, RowsGrow
    <3> QED BY <3>1, <3>2 DEF Typed
  <2>4. ASSUME NEW r \in rules PROVE \A p \in rules : \E q \in retired(r) : p.version = q.version
    <3>1. [r EXCEPT !.retired = TRUE].version = r.version
      BY <2>1 DEF Rule
    <3> QED BY <3>1 DEF retired
  <2>5. ASSUME NEW d \in Drafts, insert_category_rule(d) PROVE Typed'
    <3>1. rules \subseteq rules' /\ Owe
      BY <2>5 DEF insert_category_rule, write_category_rule
    <3> QED BY <2>3, <3>1
  <2>6. ASSUME NEW d \in Drafts, NEW r \in rules, amend_category_rule(r, d) PROVE Typed'
    <3>1. retired(r) \subseteq rules' /\ Owe
      BY <2>6 DEF amend_category_rule, write_category_rule
    <3> QED BY <2>3, <2>4, <3>1
  <2>7. ASSUME NEW r \in rules, retire_category_rule(r) PROVE Typed'
    <3>1. rules' = retired(r) /\ Owe
      BY <2>7 DEF retire_category_rule
    <3> QED BY <2>3, <2>4, <3>1
  <2>8. CASE rebuild_category_index
    <3>1. index' = Project(journal, act) /\ UNCHANGED <<rules, journal>> /\ lost' = FALSE
      BY <2>8 DEF rebuild_category_index, rebuild, act
    <3>2. owed' \in 0..MaxOwed
      BY <2>8, DraftsAssumption DEF rebuild_category_index, Typed
    <3> QED BY <2>2, <3>1, <3>2 DEF Typed
  <2>9. CASE request_ends_early
    <3>1. owed' \in 0..MaxOwed
      BY <2>9, DraftsAssumption DEF request_ends_early, Typed
    <3> QED BY <2>9, <3>1 DEF request_ends_early, Typed
  <2>10. ASSUME NEW e \in Events, insert_event(e) PROVE Typed'
    <3>1. /\ journal' = journal \cup {e} /\ UNCHANGED <<rules, owed, lost>>
          /\ index' = assign_for(e, act)
      BY <2>10 DEF insert_event, act
    <3>2. Rows(journal, rules) \subseteq Rows(journal', rules)
      BY <3>1, RowsGrow
    <3>3. Project({e}, act) \subseteq Rows(journal', rules)
      BY <2>1, <3>1, ProjectIsTyped, RowsGrow
    <3>4. index' \subseteq index \cup Project({e}, act)
      BY <3>1 DEF assign_for
    <3> QED BY <3>1, <3>2, <3>3, <3>4 DEF Typed
  <2>11. CASE list_journal_events
    <3>1. index' = Project(journal, act) \/ index' = index
      BY <2>11 DEF list_journal_events, rebuild, act
    <3>2. lost' \in BOOLEAN /\ UNCHANGED <<rules, journal, owed>>
      BY <2>11 DEF list_journal_events
    <3> QED BY <2>2, <3>1, <3>2 DEF Typed
  <2>12. CASE UNCHANGED vars
    BY <2>12 DEF vars, Typed
  <2> QED BY <2>5, <2>6, <2>7, <2>8, <2>9, <2>10, <2>11, <2>12 DEF Next
<1>3. IInv /\ Typed => TypeOK
  BY DEF IInv, RuleBook, Typed, Rows, TypeOK
<1> QED BY <1>1, <1>2, <1>3, InitIInv, NextIInv, PTL DEF Spec

\* The preview of an exact rule shows what creating it will do, whatever rules
\* stand: assign_with_proposed agrees with the ladder after the write.
THEOREM ExactPreviewsAreExact == Spec => []ExactPreviewIsTheOutcome
<1>1. IInv => ExactPreviewIsTheOutcome
  <2> SUFFICES ASSUME IInv, NEW d \in Drafts, NEW e \in journal, d.class # "Description"
               PROVE  assign_with_proposed(e, active_rules(rules), d) = Outcome(e, d)
    BY DEF ExactPreviewIsTheOutcome
  <2> DEFINE top == highest_version(rules)
             new == [version |-> top + 1, draft |-> d, retired |-> FALSE, replaces |-> 0]
             act == active_rules(rules)
  <2>1. /\ rules \in SUBSET Rule /\ act \in SUBSET Rule /\ act \subseteq rules
        /\ \A r, s \in act : r.version = s.version => r = s
    BY DEF IInv, RuleBook, VersionsAreUnique, active_rules
  <2>2. top \in Nat /\ \A r \in act : r.version <= top
    BY <2>1, HighestVersion, DraftsAssumption
  <2> DEFINE n == top + 1
  <2>3. n \in Nat /\ \A r \in act : r.version < n
    BY <2>1, <2>2, DraftsAssumption DEF Rule
  <2>4. Outcome(e, d) = {r.draft : r \in assign(e, act \cup {new})}
    BY DEF Outcome
  <2> HIDE DEF top, act
  <2> HIDE DEF n
  <2>5. assign_with_proposed(e, act, d) =
          {r.draft : r \in assign(e, act \cup {
             [version |-> n, draft |-> d, retired |-> FALSE, replaces |-> 0]})}
    BY <2>1, <2>3, ExactPreview
  <2> QED BY <2>4, <2>5 DEF act, n
<1> QED BY <1>1, InitIInv, NextIInv, PTL DEF Spec
=============================================================================
