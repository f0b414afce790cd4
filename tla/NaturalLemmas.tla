---------------------------- MODULE NaturalLemmas ----------------------------
(***************************************************************************)
(* Induction over the natural numbers, stated of sets of numbers instead   *)
(* of predicates: a property that failed somewhere would fail at a least   *)
(* number first.                                                           *)
(***************************************************************************)
EXTENDS Integers, WellFoundedInduction, TLAPS

\* A set of natural numbers has a least one.
LEMMA LeastExists ==
  ASSUME NEW T \in SUBSET Nat, T # {}
  PROVE  \E m \in T : \A n \in T : m <= n
<1>1. PICK m \in T : \A n \in T : <<n, m>> \notin OpToRel(<, Nat)
  BY NatLessThanWellFounded, WFMin
<1>2. \A n \in T : ~(n < m)
  BY <1>1 DEF OpToRel
<1> QED
  BY <1>2

\* A set with the first number of an interval, and with the successor in the
\* interval of each number it has, has the whole interval.
LEMMA IntervalInduction ==
  ASSUME NEW from \in Nat, NEW to \in Nat, NEW S,
         from \in S,
         \A n \in from + 1 .. to : n - 1 \in S => n \in S
  PROVE  \A n \in from .. to : n \in S
<1> DEFINE T == {n \in from .. to : n \notin S}
<1> SUFFICES ASSUME T # {} PROVE FALSE
  OBVIOUS
<1>1. T \in SUBSET Nat
  OBVIOUS
<1>2. PICK m \in T : \A n \in T : m <= n
  BY <1>1, LeastExists
<1>3. m \in from .. to /\ m # from
  BY <1>2
<1>4. m - 1 \in from .. to /\ m - 1 \notin T
  BY <1>2, <1>3
<1> QED
  BY <1>2, <1>3, <1>4

=============================================================================
