--------------------------- MODULE CorrectionsProofs ---------------------------
(***************************************************************************)
(* For any number of identifiers, requests, rows and principals, with      *)
(* failures at any point: keys are held once and tell what a correction    *)
(* does to which event.  So an event is reversed at most once, a retracted *)
(* row never comes back, a correction answered as a duplicate is in force  *)
(* (if it has no operation id and no caller claims a derived key),         *)
(* a pairing never reverses a leg before its transfer is written, and as   *)
(* long as every replacement's key is derived from its target the journal  *)
(* resolves.                                                               *)
(***************************************************************************)
EXTENDS Corrections, TLAPS

\* No request brings a key of its own choice to a replacement.
OnlyDerivedKeys == Acts \cap {"replacement", "pairing"} = {}

\* No caller submits under a key in the form the code derives for its corrections,
\* which it could: nothing sets that form apart.
Unclaimed == Keys \cap DerivedKeys = {}

\* Reversals are only ever written by the confirmation of a pairing.
OnlyPairingsReverse == Unclaimed /\ Acts \subseteq {"pairing", "replacement"}

\* No correction comes under a key of the caller's choice, nor a row under a derived one.
NoChosenKeys == Unclaimed /\ "replacement" \notin Acts

\* The key tells what a correction does to which event, unless the caller chose it.
KeyStatesIt(c) ==
  \/ c.rel = "none" /\ c.key \in Keys \cup {NONE}
  \/ c.rel = "reversal" /\ c.key = [by |-> "reversal", of |-> c.target]
  \/ c.rel = "replacement" /\ "replacement" \in Acts /\ c.key \in Keys \cup {NONE}
  \/ /\ c.rel = "replacement" /\ "reclassification" \in Acts
     /\ c.key = [by |-> "reclassification", of |-> c.target]
  \/ /\ c.rel = "replacement" /\ "pairing" \in Acts /\ c.kind = "transfer"
     /\ \E i \in Ids : c.key = [by |-> "pairing", of |-> c.target, with |-> i]

Held(facts, c) == c.rel # "none" => \E g \in facts : g.id = c.target

Transfers(t, c) == t.kind = "transfer" /\ t.key = [by |-> "pairing", of |-> t.target, with |-> c.target]

\* The transfer that states a reversed leg is written, or comes first in the batch.
Secured(facts, todo, c) ==
  c.rel = "reversal" =>
    \/ \E t \in facts : Transfers(t, c)
    \/ \E t \in todo : t.nth < c.nth /\ t.rel = "replacement" /\ t.op = NONE /\ Transfers(t, c)

KeysAreHeldOnce(facts) == \A f, g \in facts : f.key # NONE /\ f.key = g.key => f = g

FactsInv(facts) ==
  /\ facts \subseteq Fact
  /\ KeysAreHeldOnce(facts)
  /\ \A f \in facts : KeyStatesIt(f) /\ Held(facts, f)
  /\ OnlyPairingsReverse => \A f \in facts : Secured(facts, {}, f)

Applied(facts, c) == \E f \in facts : f.rel = c.rel /\ f.target = c.target

\* What a request in flight carries is about the journal as it stands.
WantOK(facts, w) ==
  w \in Want /\ w.act \in Acts /\ (w.act = "pairing" => \E f \in facts : f.id = w.target)

RequestOK(facts, r) ==
  \/ r = Idle
  \/ /\ r.pc \in {"started", "loaded", "writing"}
     /\ WantOK(facts, r.want)
     /\ r.pc # "started" => r.seen \subseteq facts /\ WantOK(r.seen, r.want)
     /\ r.pc = "writing" =>
          /\ r.todo \subseteq candidates(r.seen, r.want)
          /\ r.todo \subseteq Candidate
          /\ \A c \in r.todo : KeyStatesIt(c) /\ Held(facts, c)
          /\ NoChosenKeys =>
               \A c \in candidates(r.seen, r.want) \ r.todo : c.op = NONE => Applied(facts, c)
          /\ OnlyPairingsReverse => \A c \in r.todo : Secured(facts, r.todo, c)

IInv ==
  /\ FactsInv(journal)
  /\ mutex \in Requests \cup {NONE}
  /\ req = [p \in Requests |-> req[p]]
  /\ \A p \in Requests : RequestOK(journal, req[p])

-----------------------------------------------------------------------------
\* A derived key is a key, and where none is claimed no caller chose it.
LEMMA DerivedKeysAreDerived ==
  ASSUME NEW i \in Ids
  PROVE  /\ [by |-> "reversal", of |-> i] \in DerivedKeys
         /\ [by |-> "reclassification", of |-> i] \in DerivedKeys
         /\ \A j \in Ids : [by |-> "pairing", of |-> i, with |-> j] \in DerivedKeys
BY DEF DerivedKeys

LEMMA DerivedIsAKey == \A k \in DerivedKeys : k # NONE
BY CorrectionsAssumption

LEMMA DerivedIsNotChosen == Unclaimed => \A k \in DerivedKeys : k \notin Keys \cup {NONE}
BY CorrectionsAssumption DEF Unclaimed

\* A fact and a correction with one derived key do the same to the same event,
\* and the holder of a pairing's key is its transfer.
LEMMA SameKeySameCorrection ==
  ASSUME NEW f, NEW c, KeyStatesIt(f), KeyStatesIt(c), f.key = c.key,
         c.key \notin Keys \cup {NONE}
  PROVE  /\ f.rel = c.rel /\ f.target = c.target
         /\ (\E i : c.key = [by |-> "pairing", of |-> c.target, with |-> i]) => f.kind = "transfer"
<1> DEFINE Rev(x) == x.rel = "reversal" /\ x.key = [by |-> "reversal", of |-> x.target]
           Cla(x) == x.rel = "replacement" /\ x.key = [by |-> "reclassification", of |-> x.target]
           Pai(x) == /\ x.rel = "replacement" /\ x.kind = "transfer"
                     /\ \E i : x.key = [by |-> "pairing", of |-> x.target, with |-> i]
<1>1. (Rev(f) \/ Cla(f) \/ Pai(f)) /\ (Rev(c) \/ Cla(c) \/ Pai(c))
  BY DEF KeyStatesIt
<1>2. ASSUME NEW x
      PROVE  /\ Rev(x) => x.key.by = "reversal" /\ x.key.of = x.target
             /\ Cla(x) => x.key.by = "reclassification" /\ x.key.of = x.target
             /\ Pai(x) => x.key.by = "pairing" /\ x.key.of = x.target
  <2>1. ASSUME Rev(x) PROVE x.key.by = "reversal" /\ x.key.of = x.target
    BY <2>1
  <2>2. ASSUME Cla(x) PROVE x.key.by = "reclassification" /\ x.key.of = x.target
    BY <2>2
  <2>3. ASSUME Pai(x) PROVE x.key.by = "pairing" /\ x.key.of = x.target
    <3>1. PICK i : x.key = [by |-> "pairing", of |-> x.target, with |-> i]
      BY <2>3
    <3> QED BY <3>1
  <2> QED BY <2>1, <2>2, <2>3
<1>3. ASSUME NEW i, c.key = [by |-> "pairing", of |-> c.target, with |-> i]
      PROVE  c.key.by = "pairing"
  BY <1>3
<1>4. /\ Rev(f) => f.rel = "reversal"
      /\ Cla(f) => f.rel = "replacement"
      /\ Pai(f) => f.rel = "replacement" /\ f.kind = "transfer"
      /\ Rev(c) => c.rel = "reversal"
      /\ Cla(c) => c.rel = "replacement"
      /\ Pai(c) => c.rel = "replacement"
  OBVIOUS
<1> HIDE DEF Rev, Cla, Pai
<1>5. f.target = c.target /\ f.rel = c.rel
  BY <1>1, <1>2, <1>4
<1>6. c.key.by = "pairing" => f.kind = "transfer"
  BY <1>1, <1>2, <1>4
<1> QED BY <1>3, <1>5, <1>6

\* The key of a correction is derived, unless it is a replacement the caller keyed.
LEMMA CorrectionsHaveDerivedKeys ==
  ASSUME Unclaimed, NEW c, KeyStatesIt(c), c.target \in Ids, c.rel # "none",
         c.rel = "replacement" => "replacement" \notin Acts
  PROVE  c.key \notin Keys \cup {NONE}
<1>1. CASE c.key = [by |-> "reversal", of |-> c.target]
  BY <1>1, DerivedKeysAreDerived, DerivedIsNotChosen
<1>2. CASE c.key = [by |-> "reclassification", of |-> c.target]
  BY <1>2, DerivedKeysAreDerived, DerivedIsNotChosen
<1>3. CASE \E i \in Ids : c.key = [by |-> "pairing", of |-> c.target, with |-> i]
  BY <1>3, DerivedKeysAreDerived, DerivedIsNotChosen
<1> QED BY <1>1, <1>2, <1>3 DEF KeyStatesIt

\* reversal_for: a reversal states its target, under the key made from it.
LEMMA ReversalsAreSound ==
  ASSUME NEW facts \in SUBSET Fact, NEW f \in facts, NEW by \in Principals, NEW n \in {1, 2}
  PROVE  LET c == reversal_for(f, by, n)
         IN  c \in Candidate /\ c.nth = n /\ c.rel = "reversal" /\ c.target = f.id
             /\ KeyStatesIt(c) /\ Held(facts, c)
<1> DEFINE c == reversal_for(f, by, n)
<1>1. f \in Fact
  OBVIOUS
<1>2. c.key \in DerivedKeys
  BY <1>1, DerivedKeysAreDerived DEF reversal_for, Fact
<1>3. c \in Candidate
  BY <1>1, <1>2 DEF reversal_for, Candidate, Fact, CorrectionSources
<1>4. c.nth = n /\ c.rel = "reversal" /\ c.target = f.id /\ c.key = [by |-> "reversal", of |-> f.id]
  BY DEF reversal_for
<1> HIDE DEF c
<1>5. KeyStatesIt(c) /\ Held(facts, c)
  BY <1>4 DEF KeyStatesIt, Held
<1> QED BY <1>3, <1>4, <1>5 DEF c

\* Every candidate names an event of the facts it was made from, its key says
\* so, and a pairing's transfer comes before the reversal it replaces.
LEMMA CandidatesAreSound ==
  ASSUME NEW facts \in SUBSET Fact, NEW w, WantOK(facts, w)
  PROVE  /\ candidates(facts, w) \subseteq Candidate
         /\ \A c \in candidates(facts, w) : KeyStatesIt(c) /\ Held(facts, c)
         /\ OnlyPairingsReverse =>
              \A c \in candidates(facts, w) : Secured(facts, candidates(facts, w), c)
<1>1. w.by \in Principals /\ w.act \in Acts
  BY DEF WantOK, Want
<1>2. CASE w.act = "reversal"
  <2>1. candidates(facts, w) = {reversal_for(f, w.by, 1) : f \in {g \in facts : g.id = w.target}}
    BY <1>2 DEF candidates
  <2>2. ~OnlyPairingsReverse
    BY <1>1, <1>2 DEF OnlyPairingsReverse
  <2> QED BY <1>1, <2>1, <2>2, ReversalsAreSound
<1>3. CASE w.act = "replacement"
  <2>1. candidates(facts, w) = {replacement_for(f, w.by, w.key, w.op) : f \in {g \in facts : g.id = w.target}}
    BY <1>3 DEF candidates
  <2>2. w.key \in Keys \cup {NONE} /\ w.op \in Operations \cup {NONE}
    BY <1>3 DEF WantOK, Want
  <2>3. ASSUME NEW f \in facts
        PROVE  LET c == replacement_for(f, w.by, w.key, w.op)
               IN  c \in Candidate /\ c.rel = "replacement" /\ KeyStatesIt(c) /\ Held(facts, c)
    <3> DEFINE c == replacement_for(f, w.by, w.key, w.op)
    <3>1. f \in Fact
      OBVIOUS
    <3>2. c \in Candidate
      BY <1>1, <2>2, <3>1 DEF replacement_for, Candidate, Fact, CorrectionSources
    <3>3. c.rel = "replacement" /\ c.target = f.id /\ c.key = w.key
      BY DEF replacement_for
    <3> HIDE DEF c
    <3>4. KeyStatesIt(c) /\ Held(facts, c)
      BY <1>1, <1>3, <2>2, <3>3 DEF KeyStatesIt, Held
    <3> QED BY <3>2, <3>3, <3>4 DEF c
  <2> QED BY <2>1, <2>3 DEF Secured
<1>4. CASE w.act = "reclassification"
  <2>1. candidates(facts, w) = UNION {{reversal_for(f, w.by, 1), reclassification_for(f, w.by)}
                                        : f \in {g \in facts : g.id = w.target}}
    BY <1>4 DEF candidates
  <2>2. ~OnlyPairingsReverse
    BY <1>1, <1>4 DEF OnlyPairingsReverse
  <2>3. ASSUME NEW f \in facts
        PROVE  LET c == reclassification_for(f, w.by)
               IN  c \in Candidate /\ KeyStatesIt(c) /\ Held(facts, c)
    <3> DEFINE c == reclassification_for(f, w.by)
    <3>1. f \in Fact
      OBVIOUS
    <3>2. c.key \in DerivedKeys
      BY <3>1, DerivedKeysAreDerived DEF reclassification_for, Fact
    <3>3. c \in Candidate
      BY <1>1, <3>1, <3>2 DEF reclassification_for, Candidate, Fact, Kinds, CorrectionSources
    <3>4. /\ c.rel = "replacement" /\ c.target = f.id
          /\ c.key = [by |-> "reclassification", of |-> f.id]
      BY DEF reclassification_for
    <3> HIDE DEF c
    <3>5. KeyStatesIt(c) /\ Held(facts, c)
      BY <1>1, <1>4, <3>4 DEF KeyStatesIt, Held
    <3> QED BY <3>3, <3>5 DEF c
  <2>4. ASSUME NEW c \in candidates(facts, w)
        PROVE  c \in Candidate /\ KeyStatesIt(c) /\ Held(facts, c)
    <3>1. PICK f \in facts : c \in {reversal_for(f, w.by, 1), reclassification_for(f, w.by)}
      BY <2>1
    <3> QED BY <1>1, <2>3, <3>1, ReversalsAreSound
  <2> QED BY <2>2, <2>4
<1>5. CASE w.act = "pairing"
  <2>1. candidates(facts, w) =
          {transfer_for(f, g, w.by) : f \in {h \in facts : h.id = w.target},
                                      g \in {h \in facts : h.id = w.with}}
          \cup {reversal_for(g, w.by, 2) : g \in {h \in facts : h.id = w.with}}
    BY <1>5 DEF candidates
  <2>2. PICK e \in facts : e.id = w.target
    BY <1>5 DEF WantOK
  <2>3. ASSUME NEW f \in facts, NEW g \in facts
        PROVE  LET c == transfer_for(f, g, w.by)
               IN  /\ c \in Candidate /\ KeyStatesIt(c) /\ Held(facts, c)
                   /\ c.nth = 1 /\ c.rel = "replacement" /\ c.kind = "transfer" /\ c.op = NONE
                   /\ c.key = [by |-> "pairing", of |-> c.target, with |-> g.id]
    <3> DEFINE c == transfer_for(f, g, w.by)
    <3>1. f \in Fact /\ g \in Fact
      OBVIOUS
    <3>2. c.key \in DerivedKeys
      BY <3>1, DerivedKeysAreDerived DEF transfer_for, Fact
    <3>3. c \in Candidate
      BY <1>1, <3>1, <3>2 DEF transfer_for, Candidate, Fact, Kinds, CorrectionSources
    <3>4. /\ c.rel = "replacement" /\ c.target = f.id /\ c.nth = 1 /\ c.kind = "transfer"
          /\ c.op = NONE
          /\ c.key = [by |-> "pairing", of |-> f.id, with |-> g.id]
      BY DEF transfer_for
    <3>5. g.id \in Ids
      BY <3>1 DEF Fact
    <3> HIDE DEF c
    <3>6. KeyStatesIt(c) /\ Held(facts, c)
      BY <1>1, <1>5, <3>4, <3>5 DEF KeyStatesIt, Held
    <3> QED BY <3>3, <3>4, <3>6 DEF c
  <2>4. ASSUME NEW c \in candidates(facts, w)
        PROVE  c \in Candidate /\ KeyStatesIt(c) /\ Held(facts, c) /\ Secured(facts, candidates(facts, w), c)
    <3>1. CASE \E f \in facts, g \in facts : c = transfer_for(f, g, w.by)
      BY <2>3, <3>1 DEF Secured
    <3>2. CASE \E g \in facts : g.id = w.with /\ c = reversal_for(g, w.by, 2)
      <4>1. PICK g \in facts : g.id = w.with /\ c = reversal_for(g, w.by, 2)
        BY <3>2
      <4>2. c \in Candidate /\ c.nth = 2 /\ c.rel = "reversal" /\ c.target = g.id
            /\ KeyStatesIt(c) /\ Held(facts, c)
        BY <1>1, <4>1, ReversalsAreSound
      <4> DEFINE t == transfer_for(e, g, w.by)
      <4>3. t \in candidates(facts, w)
        BY <2>1, <2>2, <4>1
      <4>4. t.nth = 1 /\ t.rel = "replacement" /\ t.op = NONE /\ Transfers(t, c)
        BY <2>3, <4>2 DEF Transfers
      <4> HIDE DEF t
      <4> QED BY <4>2, <4>3, <4>4 DEF Secured
    <3> QED BY <2>1, <3>1, <3>2
  <2> QED BY <2>4
<1>6. CASE w.act = "retraction"
  <2>1. candidates(facts, w) =
          {reversal_for(f, w.by, 1) : f \in Covered(facts, w.import) \cap effective(facts)}
    BY <1>6 DEF candidates
  <2>2. ~OnlyPairingsReverse
    BY <1>1, <1>6 DEF OnlyPairingsReverse
  <2>3. Covered(facts, w.import) \subseteq facts
    BY DEF Covered
  <2> QED BY <1>1, <2>1, <2>2, <2>3, ReversalsAreSound
<1> QED BY <1>2, <1>3, <1>4, <1>5, <1>6 DEF WantOK, Want

\* The fields of a candidate are those of a fact.
Storable(c) ==
  /\ c.kind \in Kinds /\ c.account \in Accounts /\ c.import \in Imports \cup {NONE}
  /\ c.by \in Principals /\ c.key \in Keys \cup DerivedKeys \cup {NONE}
  /\ c.source \in Sources \cup CorrectionSources /\ c.op \in Operations \cup {NONE}
  /\ c.rel \in {"none", "reversal", "replacement"} /\ c.target \in Ids \cup {NONE}

\* An append keeps the facts in order, never removes one, and leaves a fact
\* that is the candidate or, if it has no operation id, holds its key.
LEMMA AppendKeepsFacts ==
  ASSUME FactsInv(journal), NEW c, append(c), Storable(c), KeyStatesIt(c), Held(journal, c),
         OnlyPairingsReverse => Secured(journal, {}, c)
  PROVE  /\ FactsInv(journal') /\ journal \subseteq journal'
         /\ c.op = NONE => \E f \in journal' : f.key = c.key
<1>1. CASE find_duplicate(c) # {} /\ UNCHANGED journal
  BY <1>1 DEF find_duplicate, SameOperation, SameKey
<1>2. CASE find_duplicate(c) = {} /\ ~UNCHANGED journal
  <2>1. PICK i \in FreshIds :
          journal' = journal \cup
            {[ id |-> i, kind |-> c.kind, account |-> c.account, import |-> c.import,
               by |-> c.by, key |-> c.key, source |-> c.source, op |-> c.op,
               rel |-> c.rel, target |-> c.target ]}
    BY <1>2 DEF append
  <2> DEFINE new == [ id |-> i, kind |-> c.kind, account |-> c.account, import |-> c.import,
                      by |-> c.by, key |-> c.key, source |-> c.source, op |-> c.op,
                      rel |-> c.rel, target |-> c.target ]
  <2>2. /\ new.key = c.key /\ new.rel = c.rel /\ new.target = c.target /\ new.kind = c.kind
        /\ new \in Fact
    BY DEF FreshIds, Storable, Fact
  <2>3. journal' = journal \cup {new}
    BY <2>1
  <2> HIDE DEF new
  <2>4. KeysAreHeldOnce(journal')
    BY <1>2, <2>2, <2>3 DEF FactsInv, KeysAreHeldOnce, find_duplicate, SameKey
  <2>5. KeyStatesIt(new) /\ Held(journal', new) /\ (OnlyPairingsReverse => Secured(journal', {}, new))
    <3>1. KeyStatesIt(new)
      BY <2>2 DEF KeyStatesIt
    <3>2. Held(journal', new)
      BY <2>2, <2>3 DEF Held
    <3>3. OnlyPairingsReverse => Secured(journal', {}, new)
      BY <2>2, <2>3 DEF Secured, Transfers
    <3> QED BY <3>1, <3>2, <3>3
  <2>6. \A f \in journal : /\ KeyStatesIt(f) /\ Held(journal', f)
                           /\ OnlyPairingsReverse => Secured(journal', {}, f)
    BY <2>3 DEF FactsInv, Held, Secured
  <2>7. FactsInv(journal')
    BY <2>2, <2>3, <2>4, <2>5, <2>6 DEF FactsInv
  <2> QED BY <2>2, <2>3, <2>7
<1>3. CASE find_duplicate(c) = {} /\ UNCHANGED journal
  <2>1. PICK i \in FreshIds :
          journal' = journal \cup
            {[ id |-> i, kind |-> c.kind, account |-> c.account, import |-> c.import,
               by |-> c.by, key |-> c.key, source |-> c.source, op |-> c.op,
               rel |-> c.rel, target |-> c.target ]}
    BY <1>3 DEF append
  <2> DEFINE new == [ id |-> i, kind |-> c.kind, account |-> c.account, import |-> c.import,
                      by |-> c.by, key |-> c.key, source |-> c.source, op |-> c.op,
                      rel |-> c.rel, target |-> c.target ]
  <2>2. new.key = c.key /\ new.rel = c.rel /\ new.target = c.target /\ new.kind = c.kind
    OBVIOUS
  <2>3. new \in journal
    BY <1>3, <2>1
  <2> HIDE DEF new
  <2> QED BY <1>3, <2>2, <2>3
<1> QED BY <1>1, <1>2, <1>3 DEF append

\* A request is unharmed when the journal grows.
LEMMA GrowthKeepsRequests ==
  ASSUME NEW facts, NEW more, facts \subseteq more, NEW r, RequestOK(facts, r)
  PROVE  RequestOK(more, r)
<1>1. ASSUME NEW w, WantOK(facts, w) PROVE WantOK(more, w)
  BY <1>1 DEF WantOK
<1>2. ASSUME NEW c PROVE /\ Held(facts, c) => Held(more, c)
                         /\ Applied(facts, c) => Applied(more, c)
                         /\ \A todo : Secured(facts, todo, c) => Secured(more, todo, c)
  BY DEF Held, Applied, Secured
<1> QED BY <1>1, <1>2 DEF RequestOK

LEMMA InitIInv == Init => IInv
BY DEF Init, IInv, FactsInv, KeysAreHeldOnce, RequestOK

\* append_next: the answered candidate is in force, and what is left of the
\* batch is still secured.
LEMMA AppendNextKeeps ==
  ASSUME IInv, NEW p \in Requests, append_next(p) PROVE IInv'
<1> DEFINE r == req[p]
<1>1. PICK c \in r.todo :
        /\ \A d \in r.todo : c.nth <= d.nth
        /\ append(c)
        /\ req' = [req EXCEPT ![p] = [pc |-> "writing", want |-> r.want,
                                      seen |-> r.seen, todo |-> r.todo \ {c}]]
  BY DEF append_next
<1>2. r.pc = "writing" /\ mutex' = mutex
  BY DEF append_next
<1>3. /\ WantOK(journal, r.want) /\ r.seen \subseteq journal /\ WantOK(r.seen, r.want)
      /\ r.todo \subseteq candidates(r.seen, r.want) /\ r.todo \subseteq Candidate
      /\ \A d \in r.todo : KeyStatesIt(d) /\ Held(journal, d)
      /\ NoChosenKeys =>
           \A d \in candidates(r.seen, r.want) \ r.todo : d.op = NONE => Applied(journal, d)
      /\ OnlyPairingsReverse => \A d \in r.todo : Secured(journal, r.todo, d)
  BY <1>2 DEF IInv, RequestOK, Idle
<1>4. c \in Candidate /\ Storable(c)
  BY <1>3 DEF Storable, Candidate
<1>5. OnlyPairingsReverse => Secured(journal, {}, c)
  <2>1. ASSUME NEW t \in r.todo PROVE ~(t.nth < c.nth)
    BY <1>1, <1>3, <1>4, t \in Candidate DEF Candidate
  <2> QED BY <1>3, <2>1 DEF Secured
<1>6. /\ FactsInv(journal') /\ journal \subseteq journal'
      /\ c.op = NONE => \E f \in journal' : f.key = c.key
  BY <1>1, <1>3, <1>4, <1>5, AppendKeepsFacts DEF IInv
<1> DEFINE Done == [pc |-> "writing", want |-> r.want, seen |-> r.seen, todo |-> r.todo \ {c}]
<1>7. NoChosenKeys /\ c.op = NONE => Applied(journal', c)
  <2> SUFFICES ASSUME NoChosenKeys, c.op = NONE PROVE Applied(journal', c)
    OBVIOUS
  <2>1. c.key \notin Keys \cup {NONE}
    BY <1>3, <1>4, CorrectionsHaveDerivedKeys DEF Candidate, NoChosenKeys
  <2>2. PICK f \in journal' : f.key = c.key
    BY <1>6
  <2>3. KeyStatesIt(f) /\ KeyStatesIt(c)
    BY <1>3, <1>6 DEF FactsInv
  <2> QED BY <2>1, <2>2, <2>3, SameKeySameCorrection DEF Applied
<1>8. ASSUME OnlyPairingsReverse, NEW d \in r.todo \ {c} PROVE Secured(journal', r.todo \ {c}, d)
  <2> SUFFICES ASSUME d.rel = "reversal", ~\E t \in r.todo \ {c} :
                        t.nth < d.nth /\ t.rel = "replacement" /\ t.op = NONE /\ Transfers(t, d)
               PROVE  \E t \in journal' : Transfers(t, d)
    BY DEF Secured
  <2>1. CASE \E t \in journal : Transfers(t, d)
    BY <1>6, <2>1
  <2>2. CASE c.rel = "replacement" /\ c.op = NONE /\ Transfers(c, d)
    <3>1. c.key = [by |-> "pairing", of |-> c.target, with |-> d.target] /\ c.kind = "transfer"
      BY <2>2 DEF Transfers
    <3>2. c.target \in Ids /\ d.target \in Ids
      BY <1>3, <1>4 DEF Candidate
    <3>3. c.key \notin Keys \cup {NONE}
      BY <1>8, <3>1, <3>2, DerivedKeysAreDerived, DerivedIsNotChosen DEF OnlyPairingsReverse
    <3>4. PICK f \in journal' : f.key = c.key
      BY <1>6, <2>2
    <3>5. KeyStatesIt(f) /\ KeyStatesIt(c)
      BY <1>3, <1>6 DEF FactsInv
    <3>6. f.target = c.target /\ f.kind = "transfer"
      BY <3>1, <3>3, <3>4, <3>5, SameKeySameCorrection
    <3> QED BY <3>1, <3>4, <3>6 DEF Transfers
  <2> QED BY <1>3, <1>8, <2>1, <2>2 DEF Secured
<1>9. RequestOK(journal', Done)
  <2>1. /\ Done.pc = "writing" /\ Done.want = r.want /\ Done.seen = r.seen
        /\ Done.todo = r.todo \ {c}
    OBVIOUS
  <2> HIDE DEF Done, r
  <2>2. WantOK(journal', r.want) /\ r.seen \subseteq journal'
    BY <1>3, <1>6 DEF WantOK
  <2>3. \A d \in r.todo \ {c} : KeyStatesIt(d) /\ Held(journal', d)
    BY <1>3, <1>6 DEF Held
  <2>4. NoChosenKeys =>
          \A d \in candidates(r.seen, r.want) \ (r.todo \ {c}) : d.op = NONE => Applied(journal', d)
    BY <1>3, <1>6, <1>7 DEF Applied
  <2> QED BY <1>3, <1>8, <2>1, <2>2, <2>3, <2>4 DEF RequestOK
<1>10. req' = [req EXCEPT ![p] = Done]
  BY <1>1
<1> HIDE DEF Done
<1> QED BY <1>2, <1>6, <1>9, <1>10, GrowthKeepsRequests DEF IInv

LEMMA NextIInv == IInv /\ [Next]_vars => IInv'
<1> SUFFICES ASSUME IInv, [Next]_vars PROVE IInv'
  OBVIOUS
<1>1. ASSUME NEW p \in Requests, NEW r, journal' = journal, req' = [req EXCEPT ![p] = r],
             RequestOK(journal, r), mutex' \in Requests \cup {NONE}
      PROVE  IInv'
  BY <1>1 DEF IInv
<1>2. ASSUME NEW r \in Rows, record_candidate(r) PROVE IInv'
  <2> DEFINE c == [ id |-> NONE, nth |-> 1, kind |-> r.kind, account |-> r.account,
                    import |-> r.import, by |-> r.by, key |-> r.key,
                    source |-> r.source, op |-> r.op, rel |-> "none", target |-> NONE ]
  <2>1. append(c) /\ UNCHANGED <<mutex, req>>
    BY <1>2 DEF record_candidate
  <2>2. Storable(c) /\ c.rel = "none" /\ c.key \in Keys \cup {NONE}
    <3>1. r \in Row
      BY CorrectionsAssumption
    <3> QED BY <3>1 DEF Storable, Row, Kinds
  <2> HIDE DEF c
  <2>3. KeyStatesIt(c) /\ Held(journal, c) /\ Secured(journal, {}, c)
    BY <2>2 DEF KeyStatesIt, Held, Secured
  <2>4. FactsInv(journal') /\ journal \subseteq journal'
    BY <2>1, <2>2, <2>3, AppendKeepsFacts DEF IInv
  <2> QED BY <2>1, <2>4, GrowthKeepsRequests DEF IInv
<1>3. ASSUME NEW p \in Requests, NEW w \in Want, start(p, w) PROVE IInv'
  <2>1. w.act \in Acts /\ (w.act = "pairing" => propose_journal_pairings(journal, w.target, w.with))
    BY <1>3 DEF start
  <2>2. WantOK(journal, w)
    BY <2>1 DEF WantOK, propose_journal_pairings, effective
  <2>3. RequestOK(journal, [pc |-> "started", want |-> w])
    BY <2>2 DEF RequestOK
  <2> QED BY <1>1, <1>3, <2>3 DEF start, IInv
<1>4. ASSUME NEW p \in Requests, load_journal(p) PROVE IInv'
  <2> DEFINE r == [pc |-> "loaded", want |-> req[p].want, seen |-> journal]
  <2>1. WantOK(journal, req[p].want)
    BY <1>4 DEF load_journal, IInv, RequestOK, Idle
  <2>2. r.pc = "loaded" /\ r.want = req[p].want /\ r.seen = journal
    OBVIOUS
  <2>3. req' = [req EXCEPT ![p] = r] /\ journal' = journal /\ mutex' = mutex
    BY <1>4 DEF load_journal
  <2> HIDE DEF r
  <2>4. RequestOK(journal, r)
    BY <2>1, <2>2 DEF RequestOK
  <2> QED BY <1>1, <2>3, <2>4 DEF IInv
<1>5. ASSUME NEW p \in Requests, refuse(p) \/ complete(p) \/ fail(p) PROVE IInv'
  <2>1. journal' = journal /\ req' = [req EXCEPT ![p] = Idle] /\ mutex' \in Requests \cup {NONE}
    BY <1>5 DEF refuse, complete, fail, IInv
  <2>2. RequestOK(journal, Idle)
    BY DEF RequestOK
  <2> QED BY <1>1, <2>1, <2>2
<1>6. ASSUME NEW p \in Requests, append_events(p) PROVE IInv'
  <2> DEFINE todo == candidates(req[p].seen, req[p].want)
             r == [pc |-> "writing", want |-> req[p].want, seen |-> req[p].seen, todo |-> todo]
  <2>1. req[p].pc = "loaded" /\ journal' = journal /\ req' = [req EXCEPT ![p] = r] /\ mutex' = p
    BY <1>6 DEF append_events
  <2>2. /\ WantOK(journal, req[p].want) /\ req[p].seen \subseteq journal
        /\ WantOK(req[p].seen, req[p].want)
    BY <2>1 DEF IInv, RequestOK, Idle
  <2>3. req[p].seen \in SUBSET Fact
    BY <2>2 DEF IInv, FactsInv
  <2> HIDE DEF todo
  <2>4. /\ todo \subseteq Candidate
        /\ \A c \in todo : KeyStatesIt(c) /\ Held(req[p].seen, c)
        /\ OnlyPairingsReverse => \A c \in todo : Secured(req[p].seen, todo, c)
    BY <2>2, <2>3, CandidatesAreSound DEF todo
  <2>5. /\ \A c \in todo : Held(journal, c)
        /\ OnlyPairingsReverse => \A c \in todo : Secured(journal, todo, c)
    BY <2>2, <2>4 DEF Held, Secured
  <2>6. r.pc = "writing" /\ r.want = req[p].want /\ r.seen = req[p].seen /\ r.todo = todo
    OBVIOUS
  <2>7. todo = candidates(req[p].seen, req[p].want)
    BY DEF todo
  <2> HIDE DEF r
  <2>8. RequestOK(journal, r)
    BY <2>2, <2>4, <2>5, <2>6, <2>7 DEF RequestOK
  <2> QED BY <1>1, <2>1, <2>8
<1>7. ASSUME NEW p \in Requests, append_next(p) PROVE IInv'
  BY <1>7, AppendNextKeeps
<1>8. CASE UNCHANGED vars
  BY <1>8 DEF vars, IInv
<1> QED BY <1>2, <1>3, <1>4, <1>5, <1>6, <1>7, <1>8 DEF Next

\* Facts, requests and candidates are well formed: what a request decided on is
\* in the journal, and its candidates carry derived or chosen keys only.
THEOREM CorrectionsAreTyped == Spec => []TypeOK
<1>1. IInv => TypeOK
  BY DEF IInv, FactsInv, RequestOK, WantOK, TypeOK
<1> QED BY <1>1, InitIInv, NextIInv, PTL DEF Spec

\* An event is reversed at most once, whatever is in flight and wherever it
\* fails: the key is made from the target and a key is held once.
THEOREM AnEventIsReversedOnce == Spec => []OneReversalPerEvent
<1>1. IInv => OneReversalPerEvent
  <2> SUFFICES ASSUME IInv, NEW f \in journal, NEW g \in journal,
                      f.rel = "reversal", g.rel = "reversal", f.target = g.target
               PROVE  f = g
    BY DEF OneReversalPerEvent
  <2>1. f.key = g.key /\ f.key = [by |-> "reversal", of |-> f.target]
    BY DEF IInv, FactsInv, KeyStatesIt
  <2>2. f.target \in Ids
    BY DEF IInv, FactsInv, Held, Fact
  <2>3. f.key # NONE
    BY <2>1, <2>2, DerivedKeysAreDerived, DerivedIsAKey
  <2> QED BY <2>1, <2>3 DEF IInv, FactsInv, KeysAreHeldOnce
<1> QED BY <1>1, InitIInv, NextIInv, PTL DEF Spec

\* Re-submitting a retracted row changes nothing: nothing that counts carries
\* the key of a fact that was removed.
THEOREM ARetractedRowStaysOut == Spec => []NoResurrection
<1>1. IInv => NoResurrection
  BY DEF IInv, FactsInv, KeysAreHeldOnce, NoResurrection, stands, Removed
<1> QED BY <1>1, InitIInv, NextIInv, PTL DEF Spec

\* What stopped counting never counts again: the journal only grows, and a
\* correction counts whether or not it was corrected itself.
THEOREM WhatWasRemovedStaysRemoved == Spec => NothingComesBack
<1>1. IInv /\ [Next]_vars => [effective(journal') \cap journal \subseteq effective(journal)]_vars
  <2> SUFFICES ASSUME [Next]_vars
               PROVE  effective(journal') \cap journal \subseteq effective(journal)
    OBVIOUS
  <2>1. journal \subseteq journal'
    BY DEF Next, vars, record_candidate, append, start, load_journal, refuse, append_events,
           append_next, complete, fail
  <2> QED BY <2>1 DEF effective, stands, Removed
<1> QED BY <1>1, InitIInv, NextIInv, PTL DEF Spec, NothingComesBack

\* A correction without an operation id that was answered is in force, written or
\* reported as a duplicate, although it was checked against an older journal, as
\* long as no caller chooses a correction's key.
THEOREM AnAnswerIsTrue == NoChosenKeys => (Spec => []AnsweredMeansApplied)
<1> SUFFICES ASSUME NoChosenKeys PROVE Spec => []AnsweredMeansApplied
  OBVIOUS
<1>1. IInv => AnsweredMeansApplied
  <2> SUFFICES ASSUME IInv, NEW p \in Requests, req[p].pc = "writing",
                      NEW c \in candidates(req[p].seen, req[p].want) \ req[p].todo, c.op = NONE
               PROVE  Applied(journal, c)
    BY DEF AnsweredMeansApplied, Applied
  <2> QED BY DEF IInv, RequestOK, Idle
<1> QED BY <1>1, InitIInv, NextIInv, PTL DEF Spec

\* Where only pairings write reversals, a leg is reversed only once the transfer
\* that states it is in the journal, wherever two confirmations fail.
THEOREM APairingKeepsTheMoney == OnlyPairingsReverse => (Spec => []PairingNeverLosesMoney)
<1> SUFFICES ASSUME OnlyPairingsReverse PROVE Spec => []PairingNeverLosesMoney
  OBVIOUS
<1>1. IInv => PairingNeverLosesMoney
  <2> SUFFICES ASSUME IInv, NEW f \in journal, f.rel = "reversal"
               PROVE  \E t \in journal : t.kind = "transfer" /\ t.key.with = f.target
    BY DEF PairingNeverLosesMoney
  <2>1. PICK t \in journal : Transfers(t, f)
    BY DEF IInv, FactsInv, Secured
  <2>2. t.key.with = f.target /\ t.kind = "transfer"
    BY <2>1 DEF Transfers
  <2> QED BY <2>2
<1> QED BY <1>1, InitIInv, NextIInv, PTL DEF Spec

\* As long as nobody brings a replacement with a key of its own, the journal
\* can be read after any interleaving of reversals, reclassifications, import
\* retractions and failures.
THEOREM DerivedKeysKeepTheJournalReadable == OnlyDerivedKeys => (Spec => []JournalResolves)
<1> SUFFICES ASSUME OnlyDerivedKeys PROVE Spec => []JournalResolves
  OBVIOUS
<1>1. IInv => JournalResolves
  <2> SUFFICES ASSUME IInv PROVE resolves(journal)
    BY DEF JournalResolves
  <2>1. \A f \in journal : f.rel # "none" => \E g \in journal : g.id = f.target
    BY DEF IInv, FactsInv, Held
  <2>2. ASSUME NEW f \in journal, NEW g \in journal,
               f.rel = "replacement", g.rel = "replacement", f.target = g.target
        PROVE  f = g
    <3>1. f.key = g.key /\ f.key = [by |-> "reclassification", of |-> f.target]
      BY <2>2 DEF IInv, FactsInv, KeyStatesIt, OnlyDerivedKeys
    <3>2. f.target \in Ids
      BY <2>2 DEF IInv, FactsInv, Held, Fact
    <3>3. f.key # NONE
      BY <3>1, <3>2, DerivedKeysAreDerived, DerivedIsAKey
    <3> QED BY <2>2, <3>1, <3>3 DEF IInv, FactsInv, KeysAreHeldOnce
  <2> QED BY <2>1, <2>2 DEF resolves
<1> QED BY <1>1, InitIInv, NextIInv, PTL DEF Spec
=============================================================================
