------------------------ MODULE BudgetedPaymentsProofs ------------------------
(***************************************************************************)
(* What BudgetedPayments promises, for every set of keys and every budget. *)
(*                                                                         *)
(* An exposed payment has the amount its key holds, because a key that     *)
(* exposed something is never withdrawn and never granted again.  So the   *)
(* exposed payments map one to one into the keys that hold a reservation,  *)
(* and their units into the units held, which Grant keeps within limits.   *)
(***************************************************************************)
EXTENDS BudgetedPayments, FiniteSetTheorems, TLAPS

GrantInv ==
    /\ Holders \subseteq used
    /\ Cardinality(Holders) <= MaxRequests
    /\ Cardinality(HeldUnits) <= MaxTotal

ExposureInv ==
    /\ \A t \in exposed : granted[t.key] = t.amount
    /\ OnePaymentPerKey

PromiseInv == TypeOK /\ GrantInv /\ ExposureInv

-----------------------------------------------------------------------------
LEMMA HeldFinite ==
    ASSUME Limits, TypeOK
    PROVE  /\ IsFiniteSet(Holders) /\ Cardinality(Holders) \in Nat
           /\ IsFiniteSet(HeldUnits) /\ Cardinality(HeldUnits) \in Nat
<1>1. Holders \in SUBSET Keys
  BY DEF Holders
<1>2. IsFiniteSet(1..MaxAmount)
  BY FS_Interval DEF Limits
<1>3. IsFiniteSet(Keys \X (1..MaxAmount))
  BY <1>2, FS_Product DEF Limits
<1>4. HeldUnits \in SUBSET (Keys \X (1..MaxAmount))
  BY DEF HeldUnits
<1>5. IsFiniteSet(Holders)
  BY <1>1, FS_Subset DEF Limits
<1>6. IsFiniteSet(HeldUnits)
  BY <1>3, <1>4, FS_Subset
<1> QED
  BY <1>5, <1>6, FS_CardinalityType

(* A grant of a units adds one holder and a units.                         *)
LEMMA GrantStep ==
    ASSUME Limits, TypeOK, GrantInv, NEW k \in Keys, NEW a \in 1..MaxAmount, Grant(k, a)
    PROVE  GrantInv'
<1>1. /\ granted' = [granted EXCEPT ![k] = a] /\ used' = used \cup {k}
      /\ k \notin used
      /\ Cardinality(Holders) < MaxRequests
      /\ Cardinality(HeldUnits) + a <= MaxTotal
  BY DEF Grant
<1>2. granted \in [Keys -> 0..MaxAmount] /\ a \in Nat /\ a > 0
      /\ MaxAmount \in Nat
  BY DEF TypeOK, Limits
<1>3. granted[k] = 0
  BY <1>1, <1>2 DEF GrantInv, Holders
<1>4. Holders' = Holders \cup {k}
  BY <1>1, <1>2 DEF Holders
<1>5. HeldUnits' = HeldUnits \cup ({k} \X (1..a))
  <2>1. ASSUME NEW j \in Keys, NEW i \in 1..MaxAmount
        PROVE  i <= granted'[j] <=>
               i <= granted[j] \/ (j = k /\ i \in 1..a)
    BY <1>1, <1>2, <1>3
  <2>2. 1..a \subseteq 1..MaxAmount
    BY <1>2
  <2> QED
    BY <2>1, <2>2 DEF HeldUnits
<1>6. Cardinality(Holders') <= Cardinality(Holders) + 1
  <2>1. Cardinality(Holders \cup {k}) =
          IF k \in Holders THEN Cardinality(Holders) ELSE Cardinality(Holders) + 1
    BY HeldFinite, FS_AddElement
  <2> QED
    BY <1>4, <2>1, HeldFinite
<1>7. Cardinality(HeldUnits') <= Cardinality(HeldUnits) + a
  <2>1. IsFiniteSet({k}) /\ Cardinality({k}) = 1
    BY FS_Singleton
  <2>2. IsFiniteSet(1..a) /\ Cardinality(1..a) = a
    BY <1>2, FS_Interval
  <2>3. /\ IsFiniteSet({k} \X (1..a))
        /\ Cardinality({k} \X (1..a)) = Cardinality({k}) * Cardinality(1..a)
    BY <2>1, <2>2, FS_Product
  <2>4. Cardinality({k} \X (1..a)) = 1 * a
    BY <2>1, <2>2, <2>3
  <2>5. Cardinality({k} \X (1..a)) = a
    BY <1>2, <2>4
  <2>6. HeldUnits \cap ({k} \X (1..a)) = {}
    BY <1>2, <1>3 DEF HeldUnits
  <2>7. Cardinality(HeldUnits \cap ({k} \X (1..a))) = 0
    BY <2>6, FS_EmptySet
  <2>8. Cardinality(HeldUnits \cup ({k} \X (1..a))) =
          Cardinality(HeldUnits) + Cardinality({k} \X (1..a))
            - Cardinality(HeldUnits \cap ({k} \X (1..a)))
    BY <2>3, HeldFinite, FS_Union
  <2> QED
    BY <1>2, <1>5, <2>5, <2>7, <2>8, HeldFinite
<1>8. Cardinality(Holders') \in Nat /\ Cardinality(HeldUnits') \in Nat
  <2>1. IsFiniteSet({k})
    BY FS_Singleton
  <2>2. IsFiniteSet({k} \X (1..a))
    <3>1. IsFiniteSet(1..a)
      BY <1>2, FS_Interval
    <3> QED
      BY <2>1, <3>1, FS_Product
  <2>3. IsFiniteSet(Holders \cup {k}) /\ IsFiniteSet(HeldUnits \cup ({k} \X (1..a)))
    BY <2>1, <2>2, HeldFinite, FS_Union
  <2> QED
    BY <1>4, <1>5, <2>3, FS_CardinalityType
<1>9. Holders' \subseteq used'
  BY <1>1, <1>4 DEF GrantInv
<1> QED
  BY <1>1, <1>2, <1>6, <1>7, <1>8, <1>9, HeldFinite
     DEF GrantInv, Limits

(* A withdrawal only frees.                                                *)
LEMMA WithdrawStep ==
    ASSUME Limits, TypeOK, GrantInv, NEW k \in Keys, Withdraw(k)
    PROVE  GrantInv'
<1>1. granted' = [granted EXCEPT ![k] = 0] /\ UNCHANGED <<used, exposed, confirmed>>
  BY DEF Withdraw
<1>2. granted \in [Keys -> 0..MaxAmount] /\ MaxAmount \in Nat
  BY DEF TypeOK, Limits
<1>3. Holders' \in SUBSET Holders
  BY <1>1, <1>2 DEF Holders
<1>4. HeldUnits' \in SUBSET HeldUnits
  <2>1. ASSUME NEW j \in Keys, NEW i \in 1..MaxAmount, i <= granted'[j]
        PROVE  i <= granted[j]
    BY <1>1, <1>2, <2>1
  <2> QED
    BY <2>1 DEF HeldUnits
<1>5. Cardinality(Holders') <= Cardinality(Holders)
  BY <1>3, HeldFinite, FS_Subset
<1>6. Cardinality(HeldUnits') <= Cardinality(HeldUnits)
  BY <1>4, HeldFinite, FS_Subset
<1>7. IsFiniteSet(Holders') /\ IsFiniteSet(HeldUnits')
  BY <1>3, <1>4, HeldFinite, FS_Subset
<1>8. Cardinality(Holders') \in Nat /\ Cardinality(HeldUnits') \in Nat
  BY <1>7, FS_CardinalityType
<1> QED
  BY <1>1, <1>3, <1>5, <1>6, <1>8, HeldFinite DEF GrantInv, Limits

LEMMA PromiseStep ==
    ASSUME Limits, PromiseInv, [Next]_promiseVars
    PROVE  PromiseInv'
<1> USE DEF PromiseInv
<1>1. /\ granted \in [Keys -> 0..MaxAmount] /\ MaxAmount \in Nat
      /\ exposed \subseteq [sig : Signatures, key : Keys, amount : 1..MaxAmount]
  BY DEF TypeOK, Limits
<1>2. CASE \E k \in Keys, a \in 1..MaxAmount : Grant(k, a)
  <2>1. PICK k \in Keys, a \in 1..MaxAmount : Grant(k, a)
    BY <1>2
  <2>2. TypeOK'
    BY <1>1, <2>1 DEF Grant, TypeOK
  <2>3. \A t \in exposed : t.key # k
    BY <1>1, <2>1 DEF Grant, GrantInv, ExposureInv, Holders
  <2>4. ExposureInv'
    BY <1>1, <2>1, <2>3 DEF Grant, ExposureInv, OnePaymentPerKey
  <2> QED
    BY <2>1, <2>2, <2>4, GrantStep
<1>3. CASE \E k \in Keys : Withdraw(k)
  <2>1. PICK k \in Keys : Withdraw(k)
    BY <1>3
  <2>2. TypeOK'
    BY <1>1, <2>1 DEF Withdraw, TypeOK
  <2>3. ExposureInv'
    BY <1>1, <2>1 DEF Withdraw, ExposureInv, OnePaymentPerKey
  <2> QED
    BY <2>1, <2>2, <2>3, WithdrawStep
<1>4. CASE \E k \in Keys, s \in Signatures : Expose(k, s)
  <2>1. PICK k \in Keys, s \in Signatures : Expose(k, s)
    BY <1>4
  <2>2. granted[k] \in 1..MaxAmount
    BY <1>1, <2>1 DEF Expose
  <2>3. TypeOK'
    BY <2>1, <2>2 DEF Expose, TypeOK
  <2>4. ExposureInv'
    BY <2>1 DEF Expose, ExposureInv, OnePaymentPerKey
  <2>5. GrantInv'
    BY <2>1 DEF Expose, GrantInv, Holders, HeldUnits
  <2> QED
    BY <2>3, <2>4, <2>5
<1>5. CASE (\E t \in exposed : Confirm(t)) \/ UNCHANGED promiseVars
  BY <1>5 DEF Confirm, promiseVars, TypeOK, GrantInv, Holders, HeldUnits,
     ExposureInv, OnePaymentPerKey
<1> QED
  BY <1>2, <1>3, <1>4, <1>5 DEF Next

LEMMA PromiseInit ==
    ASSUME Limits, Init
    PROVE  PromiseInv
<1>1. TypeOK
  BY DEF Init, TypeOK, Limits
<1>2. Holders = {} /\ HeldUnits = {}
  BY DEF Init, Holders, HeldUnits, Limits
<1>3. GrantInv
  BY <1>2, FS_EmptySet DEF GrantInv, Limits
<1> QED
  BY <1>1, <1>3 DEF PromiseInv, Init, ExposureInv, OnePaymentPerKey

THEOREM PromiseInvariant ==
    ASSUME Limits PROVE Spec => []PromiseInv
<1>1. PromiseInv /\ [Next]_promiseVars => PromiseInv'
  BY PromiseStep
<1> QED
  BY <1>1, PromiseInit, PTL DEF Spec

(* docs/application-payment-boundary.md, "State and idempotency": one      *)
(* payment for a key, one key for a payment.                               *)
THEOREM PromiseUnique ==
    ASSUME Limits PROVE Spec => []OnePaymentPerKey
<1>1. PromiseInv => OnePaymentPerKey
  BY DEF PromiseInv, ExposureInv
<1> QED
  BY <1>1, PromiseInvariant, PTL

(* docs/application-payment-boundary.md: reservations and payments in      *)
(* flight count against the budget, so what is exposed fits it.            *)
THEOREM PromiseWithinBudget ==
    ASSUME Limits PROVE Spec => []ExposedWithinBudget
<1>1. ASSUME PromiseInv PROVE ExposedWithinBudget
  <2> DEFINE Units == {u \in exposed \X (1..MaxAmount) : u[2] <= u[1].amount}
  <2>1. /\ TypeOK /\ MaxAmount \in Nat
        /\ \A t \in exposed : /\ t.key \in Keys /\ t.amount \in 1..MaxAmount
                              /\ granted[t.key] = t.amount
        /\ \A t, u \in exposed : t.key = u.key => t = u
    BY <1>1 DEF PromiseInv, TypeOK, ExposureInv, OnePaymentPerKey, Limits
  <2>2. /\ Cardinality(exposed) <= Cardinality(Holders)
        /\ IsFiniteSet(exposed)
    <3> DEFINE f == [t \in exposed |-> t.key]
    <3>1. f \in Injection(exposed, Holders)
      BY <2>1 DEF Holders, Injection, IsInjective
    <3> QED
      BY <2>1, <3>1, HeldFinite, FS_Injection DEF ExistsInjection
  <2>3. /\ Cardinality(Units) <= Cardinality(HeldUnits)
        /\ IsFiniteSet(Units)
    <3> DEFINE f == [u \in Units |-> <<u[1].key, u[2]>>]
    <3>1. f \in [Units -> HeldUnits]
      BY <2>1 DEF HeldUnits
    <3>2. \A u, v \in Units : f[u] = f[v] => u = v
      BY <2>1
    <3>3. f \in Injection(Units, HeldUnits)
      BY <3>1, <3>2 DEF Injection, IsInjective
    <3> QED
      BY <2>1, <3>3, HeldFinite, FS_Injection DEF ExistsInjection
  <2>4. Cardinality(exposed) \in Nat /\ Cardinality(Units) \in Nat
    BY <2>2, <2>3, FS_CardinalityType
  <2> QED
    BY <1>1, <2>1, <2>2, <2>3, <2>4, HeldFinite
       DEF PromiseInv, GrantInv, ExposedWithinBudget, Limits
<1> QED
  BY <1>1, PromiseInvariant, PTL
=============================================================================
