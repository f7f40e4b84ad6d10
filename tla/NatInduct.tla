----------------------------- MODULE NatInduct -----------------------------
(***************************************************************************)
(* Induction over the naturals, with a set in place of a predicate.  The   *)
(* proofs about recursive functions (Kept of ArUpdate, Nth of ArMap) and   *)
(* about the blocks of a member rest on it.                                *)
(***************************************************************************)
EXTENDS Naturals, WellFoundedInduction, TLAPS

NatLess == {pr \in Nat \X Nat : pr[1] < pr[2]}

(* A set of naturals has a least element. *)
LEMMA LeastNat ==
  ASSUME NEW T, T \subseteq Nat, T # {}
  PROVE  \E least \in T : \A n \in T : least <= n
<1>1. IsWellFoundedOn(NatLess, Nat)
  BY NatLessThanWellFounded DEF OpToRel, NatLess
<1>2. PICK least \in T : \A n \in T : ~(<<n, least>> \in NatLess)
  BY <1>1, WFMin
<1>3. ASSUME NEW n \in T PROVE least <= n
  <2>1. least \in Nat /\ n \in Nat
    OBVIOUS
  <2>2. n < least => <<n, least>> \in NatLess
    BY <2>1 DEF NatLess
  <2> QED BY <1>2, <2>1, <2>2
<1> QED BY <1>3

(* A set of naturals with 0 that has with every number the next has all. *)
LEMMA SetInduction ==
  ASSUME NEW T, 0 \in T, \A n \in Nat : n \in T => n + 1 \in T
  PROVE  \A n \in Nat : n \in T
<1> DEFINE Rest == Nat \ T
<1> SUFFICES ASSUME Rest # {} PROVE FALSE
  OBVIOUS
<1>1. PICK least \in Rest : \A n \in Rest : least <= n
  BY LeastNat
<1>2. least \in Nat /\ least # 0 /\ least \notin T
  OBVIOUS
<1>3. least - 1 \in Nat /\ least - 1 \in T
  BY <1>1, <1>2
<1> QED BY <1>2, <1>3
=============================================================================
