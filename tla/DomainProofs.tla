--------------------------- MODULE DomainProofs ---------------------------
(* Facts about rule lookup, shared by the proofs of the components. *)
EXTENDS RatchetDomain, TLAPS, NaturalsInduction, WellFoundedInduction

(* Every non-empty set of naturals has a least element. *)
LEMMA LeastOf ==
    ASSUME NEW A \in SUBSET Nat, A # {}
    PROVE  \E i \in A : \A j \in A : i <= j
<1>1. IsWellFoundedOn(OpToRel(<, Nat), Nat)
    BY NatLessThanWellFounded
<1>2. PICK i \in A : \A j \in A : ~ (<<j, i>> \in OpToRel(<, Nat))
    BY <1>1, WFMin, Zenon
<1>3. \A j \in A : ~ (j < i)
    BY <1>2 DEF OpToRel
<1> QED BY <1>3

(* Every non-empty set of positions of a sequence has a greatest element. *)
LEMMA GreatestOf ==
    ASSUME NEW n \in Nat, NEW A \in SUBSET (1 .. n), A # {}
    PROVE  \E i \in A : \A j \in A : j <= i
<1> DEFINE B == {n - i : i \in A}
<1>0. PICK a \in A : TRUE
    OBVIOUS
<1>1. B \in SUBSET Nat /\ n - a \in B
    BY <1>0
<1>2. PICK k \in B : \A j \in B : k <= j
    BY <1>1, LeastOf
<1>3. PICK i \in A : k = n - i
    BY <1>2
<1>4. \A j \in A : n - i <= n - j
    BY <1>2, <1>3
<1> QED BY <1>3, <1>4

(* findRule finds a rule when there is one. *)
LEMMA FindRuleFinds ==
    ASSUME NEW rs \in Seq(Rule), NEW t
    PROVE  /\ findRule(rs, t) \in Nat
           /\ findRules(rs, t) # {} => findRule(rs, t) \in findRules(rs, t)
           /\ findRule(rs, t) # 0 => findRule(rs, t) \in findRules(rs, t)
<1>1. findRules(rs, t) \in SUBSET Nat
    BY DEF findRules
<1>2. CASE findRules(rs, t) = {}
    BY <1>2 DEF findRule
<1>3. CASE findRules(rs, t) # {}
  <2>1. \E i \in findRules(rs, t) : \A j \in findRules(rs, t) : i <= j
    BY <1>1, <1>3, LeastOf
  <2>2. findRule(rs, t) \in findRules(rs, t)
    BY <1>3, <2>1 DEF findRule
  <2> QED BY <1>1, <2>2
<1> QED BY <1>2, <1>3

(* NextRule finds the first rule after rule i, when there is one. *)
LEMMA NextRuleFinds ==
    ASSUME NEW rs \in Seq(Rule), NEW t, NEW i \in Nat, RulesAfter(rs, t, i) # {}
    PROVE  /\ NextRule(rs, t, i) \in findRules(rs, t)
           /\ NextRule(rs, t, i) \in Nat
           /\ NextRule(rs, t, i) > i
           /\ \A k \in findRules(rs, t) : k > i => NextRule(rs, t, i) <= k
<1>1. RulesAfter(rs, t, i) \in SUBSET Nat
    BY DEF RulesAfter, findRules
<1>2. \E j \in RulesAfter(rs, t, i) : \A k \in RulesAfter(rs, t, i) : j <= k
    BY <1>1, LeastOf
<1>3. /\ NextRule(rs, t, i) \in RulesAfter(rs, t, i)
      /\ \A k \in RulesAfter(rs, t, i) : NextRule(rs, t, i) <= k
    BY <1>2 DEF NextRule
<1> QED BY <1>1, <1>3 DEF RulesAfter
=============================================================================
