----------------------------- MODULE LeastOfNats -----------------------------
(***************************************************************************)
(* The least of a set of numbers, on which every best rate rests: that of  *)
(* the service (SensorService) and that of the data thread (Dispatch).     *)
(***************************************************************************)
EXTENDS Integers, FiniteSetsExt, FiniteSetTheorems, WellFoundedInduction, TLAPS

\* Min of a non-empty set of naturals is a member below all the others.  The
\* initial segments 0 .. n, of which n is the greatest member, are ordered by
\* inclusion, and inclusion of finite sets is well founded.
LEMMA MinOfNats ==
    ASSUME NEW S \in SUBSET Nat, S # {}
    PROVE  Min(S) \in S /\ \A n \in S : Min(S) <= n
<1> DEFINE Below(n) == 0 .. n
<1>1. PICK m \in S : m \in Nat
  OBVIOUS
<1> DEFINE T == {Below(n) : n \in S \cap Below(m)}
<1>2. IsWellFoundedOn(StrictSubsetOrdering(Nat), FiniteSubsetsOf(Nat))
  BY FS_StrictSubsetOrderingWellFounded
<1>3. T \subseteq FiniteSubsetsOf(Nat) /\ T # {}
  <2>1. \A n \in Nat : Below(n) \in FiniteSubsetsOf(Nat)
    BY FS_Interval DEF FiniteSubsetsOf
  <2>2. m \in S \cap Below(m)
    BY <1>1
  <2> QED
    BY <2>1, <2>2
<1>4. PICK U \in T : \A V \in T : ~(<<V, U>> \in StrictSubsetOrdering(Nat))
  <2> HIDE DEF T
  <2> QED BY <1>2, <1>3, WFMin
<1>5. PICK x \in S \cap Below(m) : U = Below(x)
  BY <1>4
<1>6. \A y \in S \cap Below(m) : x <= y
  <2> SUFFICES ASSUME NEW y \in S \cap Below(m), y < x PROVE FALSE
    OBVIOUS
  <2>1. Below(y) \in T
    OBVIOUS
  <2>2. <<Below(y), Below(x)>> \in StrictSubsetOrdering(Nat)
    <3>1. Below(y) \subseteq Below(x)
      OBVIOUS
    <3>2. x \in Below(x) /\ x \notin Below(y)
      OBVIOUS
    <3> QED BY <3>1, <3>2 DEF StrictSubsetOrdering
  <2> QED BY <1>4, <1>5, <2>1, <2>2
<1>7. \A y \in S : x <= y
  BY <1>1, <1>6
<1> QED BY <1>7 DEF Min

=============================================================================
