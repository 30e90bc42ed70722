---------------------------- MODULE MCCorrections ----------------------------
(* Small journals under concurrent corrections.  Identifiers are drawn at     *)
(* random by the code, so they are interchangeable.                           *)
EXTENDS Corrections, TLC

CONSTANTS agent, owner, a1, a2, march, k1, k2, k3, bank, o1

Entry(kind, account, import, by, key, op) ==
  [kind |-> kind, account |-> account, import |-> import, by |-> by, key |-> key,
   source |-> bank, op |-> op]

\* Two rows of the agent's import, one with a key and one with an operation id,
\* and the owner's assertion.
ImportRows ==
  { Entry("out", a1, march, agent, k1, NONE),
    Entry("out", a1, march, agent, NONE, o1),
    Entry("assertion", a1, NONE, owner, NONE, NONE) }

\* Two outgoing legs and the one incoming leg that either of them might be.
Legs ==
  { Entry("out", a1, NONE, owner, k1, NONE),
    Entry("out", a1, NONE, owner, k2, NONE),
    Entry("in", a2, NONE, owner, k3, NONE) }

\* One outgoing and one incoming leg.
OnePair == {r \in Legs : r.key # k2}

Symmetric == Permutations(Ids) \cup Permutations(Requests)
=============================================================================
