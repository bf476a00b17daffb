------------------------ MODULE PaymentJournalProofs ------------------------
(***************************************************************************)
(* Theorems about the payment journal under its most general client, for   *)
(* every set of keys and every budget.  The sidecar's theorems inherit     *)
(* them, because every step of the sidecar is a step of the journal.       *)
(***************************************************************************)
EXTENDS PaymentJournal, FiniteSetTheorems, TLAPS

(* What the log says about the stage a row has reached.                    *)
StageInv ==
    /\ \A k \in Keys :
           /\ Logged(k, "aborted") =>
                  rows[k].status \in {"aborted", "unknown", "reconciled_verified"}
           /\ Logged(k, "submitted") =>
                  rows[k].status \notin {"absent", "reserved", "aborted"}
           /\ rows[k].status = "aborted" => Logged(k, "aborted")
           /\ rows[k].status = "submitted" => Logged(k, "submitted")
    /\ ReleasedNeverSubmitted

(* The columns a row has at its stage.                                     *)
RowsFilled ==
    \A k \in Keys :
        /\ rows[k].status # "absent" =>
               rows[k].fp \in Fingerprints /\ rows[k].amount \in Amounts
        /\ rows[k].status = "settled_verified" =>
               rows[k].tx \in Signatures /\ rows[k].body \in Bodies

JournalInv ==
    /\ JournalTypeOK
    /\ RowsFilled
    /\ StageInv
    /\ LogExplainsRow
    /\ OneRowPerSignature
    /\ ReservedWithinBudget

-----------------------------------------------------------------------------
(* Every operation writes a well-formed row of one key and one event.      *)
LEMMA StepWritesRow ==
    ASSUME JournalTypeOK, JournalNext
    PROVE  \E k \in Keys, r \in Row, e \in EventTypes : Commit(k, r, e)
<1>1. PICK k \in Keys :
        \/ \E f \in Fingerprints, a \in Amounts : Reserve(k, f, a)
        \/ MarkSubmitted(k)
        \/ \E s \in Signatures, b \in Bodies : MarkSettled(k, s, b)
        \/ \E s \in Signatures \cup {None}, b \in Bodies \cup {None} :
               MarkUnknown(k, s, b)
        \/ Abort(k)
        \/ \E s \in Signatures : ReconcileUnknown(k, s)
        \/ \E from \in Statuses : Recover(k, from)
  BY DEF JournalNext
<1>2. rows[k] \in Row
  BY DEF JournalTypeOK
<1>3. CASE \E f \in Fingerprints, a \in Amounts : Reserve(k, f, a)
  <2>1. PICK f \in Fingerprints, a \in Amounts : Reserve(k, f, a)
    BY <1>3
  <2>2. a \in 0..MaxAmount
    BY BudgetAssumption DEF Amounts
  <2> QED
    BY <2>1, <2>2 DEF Reserve, Row, EventTypes, Statuses
<1>4. CASE MarkSubmitted(k)
  BY <1>2, <1>4 DEF MarkSubmitted, Updated, Row, EventTypes, Statuses
<1>5. CASE \E s \in Signatures, b \in Bodies : MarkSettled(k, s, b)
  BY <1>2, <1>5 DEF MarkSettled, Updated, Row, EventTypes, Statuses
<1>6. CASE \E s \in Signatures \cup {None}, b \in Bodies \cup {None} :
               MarkUnknown(k, s, b)
  BY <1>2, <1>6 DEF MarkUnknown, Updated, Row, EventTypes, Statuses
<1>7. CASE Abort(k)
  BY <1>2, <1>7 DEF Abort, Updated, Row, EventTypes, Statuses
<1>8. CASE \E s \in Signatures : ReconcileUnknown(k, s)
  BY <1>2, <1>8 DEF ReconcileUnknown, Updated, Row, EventTypes, Statuses
<1>9. CASE \E from \in Statuses : Recover(k, from)
  BY <1>2, <1>9 DEF Recover, Updated, Row, EventTypes, Statuses
<1> QED
  BY <1>1, <1>3, <1>4, <1>5, <1>6, <1>7, <1>8, <1>9

LEMMA JournalTypeStep ==
    ASSUME JournalTypeOK, JournalNext
    PROVE  JournalTypeOK'
  BY StepWritesRow DEF Commit, JournalTypeOK

-----------------------------------------------------------------------------
(* A row is never without the columns of its stage.                        *)
LEMMA FilledStep ==
    ASSUME JournalTypeOK, RowsFilled, JournalNext
    PROVE  RowsFilled'
<1> USE DEF RowsFilled, JournalTypeOK, Commit, Updated
<1>1. SUFFICES ASSUME NEW k \in Keys,
        \/ \E f \in Fingerprints, a \in Amounts : Reserve(k, f, a)
        \/ MarkSubmitted(k)
        \/ \E s \in Signatures, b \in Bodies : MarkSettled(k, s, b)
        \/ \E s \in Signatures \cup {None}, b \in Bodies \cup {None} :
               MarkUnknown(k, s, b)
        \/ Abort(k)
        \/ \E s \in Signatures : ReconcileUnknown(k, s)
        \/ \E from \in Statuses : Recover(k, from)
      PROVE RowsFilled'
  BY DEF JournalNext
<1>2. CASE \E f \in Fingerprints, a \in Amounts : Reserve(k, f, a)
  BY <1>2 DEF Reserve
<1>3. CASE MarkSubmitted(k)
  BY <1>3 DEF MarkSubmitted
<1>4. CASE \E s \in Signatures, b \in Bodies : MarkSettled(k, s, b)
  BY <1>4 DEF MarkSettled, CanSettle
<1>5. CASE \E s \in Signatures \cup {None}, b \in Bodies \cup {None} :
               MarkUnknown(k, s, b)
  BY <1>5 DEF MarkUnknown, CanMarkUnknown
<1>6. CASE Abort(k)
  BY <1>6 DEF Abort
<1>7. CASE \E s \in Signatures : ReconcileUnknown(k, s)
  BY <1>7 DEF ReconcileUnknown, CanReconcile
<1>8. CASE \E from \in Statuses : Recover(k, from)
  BY <1>8 DEF Recover, Statuses
<1> QED
  BY <1>1, <1>2, <1>3, <1>4, <1>5, <1>6, <1>7, <1>8

(* No operation deletes a row, rebinds it or forgets an event.             *)
LEMMA RowsKept ==
    ASSUME JournalTypeOK, JournalNext
    PROVE  /\ events \subseteq events'
           /\ \A k \in Keys : rows[k].status # "absent" =>
                  /\ rows'[k].status # "absent"
                  /\ rows'[k].fp = rows[k].fp
                  /\ rows'[k].amount = rows[k].amount
<1> USE DEF JournalTypeOK, Commit, Updated
<1>1. SUFFICES ASSUME NEW k \in Keys,
        \/ \E f \in Fingerprints, a \in Amounts : Reserve(k, f, a)
        \/ MarkSubmitted(k)
        \/ \E s \in Signatures, b \in Bodies : MarkSettled(k, s, b)
        \/ \E s \in Signatures \cup {None}, b \in Bodies \cup {None} :
               MarkUnknown(k, s, b)
        \/ Abort(k)
        \/ \E s \in Signatures : ReconcileUnknown(k, s)
        \/ \E from \in Statuses : Recover(k, from)
      PROVE  /\ events \subseteq events'
             /\ \A j \in Keys : rows[j].status # "absent" =>
                    /\ rows'[j].status # "absent"
                    /\ rows'[j].fp = rows[j].fp
                    /\ rows'[j].amount = rows[j].amount
  BY DEF JournalNext
<1>2. CASE \E f \in Fingerprints, a \in Amounts : Reserve(k, f, a)
  BY <1>2 DEF Reserve
<1>3. CASE MarkSubmitted(k) \/ Abort(k) \/ \E from \in Statuses : Recover(k, from)
  BY <1>3 DEF MarkSubmitted, Abort, Recover
<1>4. CASE \E s \in Signatures, b \in Bodies : MarkSettled(k, s, b)
  BY <1>4 DEF MarkSettled
<1>5. CASE \E s \in Signatures \cup {None}, b \in Bodies \cup {None} :
               MarkUnknown(k, s, b)
  BY <1>5 DEF MarkUnknown
<1>6. CASE \E s \in Signatures : ReconcileUnknown(k, s)
  BY <1>6 DEF ReconcileUnknown
<1> QED
  BY <1>1, <1>2, <1>3, <1>4, <1>5, <1>6

(* The row's stage and the log move together.                              *)
LEMMA StageStep ==
    ASSUME JournalTypeOK, StageInv, JournalNext
    PROVE  StageInv'
<1> USE DEF JournalTypeOK, StageInv, ReleasedNeverSubmitted, Logged, Commit,
            NoRow
<1>1. SUFFICES ASSUME NEW k \in Keys,
        \/ \E f \in Fingerprints, a \in Amounts : Reserve(k, f, a)
        \/ MarkSubmitted(k)
        \/ \E s \in Signatures, b \in Bodies : MarkSettled(k, s, b)
        \/ \E s \in Signatures \cup {None}, b \in Bodies \cup {None} :
               MarkUnknown(k, s, b)
        \/ Abort(k)
        \/ \E s \in Signatures : ReconcileUnknown(k, s)
        \/ \E from \in Statuses : Recover(k, from)
      PROVE StageInv'
  BY DEF JournalNext
<1>2. CASE \E f \in Fingerprints, a \in Amounts : Reserve(k, f, a)
  BY <1>2 DEF Reserve, Row
<1>3. CASE MarkSubmitted(k)
  BY <1>3 DEF MarkSubmitted, Updated, Row
<1>4. CASE \E s \in Signatures, b \in Bodies : MarkSettled(k, s, b)
  BY <1>4 DEF MarkSettled, Updated, CanSettle, Row
<1>5. CASE \E s \in Signatures \cup {None}, b \in Bodies \cup {None} :
               MarkUnknown(k, s, b)
  BY <1>5 DEF MarkUnknown, Updated, CanMarkUnknown, Row
<1>6. CASE Abort(k)
  BY <1>6 DEF Abort, Updated, Row
<1>7. CASE \E s \in Signatures : ReconcileUnknown(k, s)
  BY <1>7 DEF ReconcileUnknown, Updated, CanReconcile, Row
<1>8. CASE \E from \in Statuses : Recover(k, from)
  BY <1>8 DEF Recover, Updated, Row, Statuses
<1> QED
  BY <1>1, <1>2, <1>3, <1>4, <1>5, <1>6, <1>7, <1>8

(* What one commit does, key by key.                                       *)
LEMMA CommitEffect ==
    ASSUME JournalTypeOK, NEW k \in Keys, NEW r, NEW e, Commit(k, r, e)
    PROVE  /\ rows'[k] = r
           /\ \A j \in Keys \ {k} : rows'[j] = rows[j]
           /\ \A j, t : Logged(j, t)' <=> Logged(j, t) \/ (j = k /\ t = e)
  BY DEF JournalTypeOK, Commit, Logged

(* The log keeps explaining the row.                                       *)
LEMMA LogStep ==
    ASSUME JournalTypeOK, StageInv, LogExplainsRow, JournalNext
    PROVE  LogExplainsRow'
<1> USE DEF LogExplainsRow
<1>1. SUFFICES ASSUME NEW k \in Keys,
        \/ \E f \in Fingerprints, a \in Amounts : Reserve(k, f, a)
        \/ MarkSubmitted(k)
        \/ \E s \in Signatures, b \in Bodies : MarkSettled(k, s, b)
        \/ \E s \in Signatures \cup {None}, b \in Bodies \cup {None} :
               MarkUnknown(k, s, b)
        \/ Abort(k)
        \/ \E s \in Signatures : ReconcileUnknown(k, s)
        \/ \E from \in Statuses : Recover(k, from)
      PROVE LogExplainsRow'
  BY DEF JournalNext
<1>2. rows[k] \in Row
  BY DEF JournalTypeOK
<1>3. CASE \E f \in Fingerprints, a \in Amounts : Reserve(k, f, a)
  BY <1>3, CommitEffect DEF Reserve, EventTypes, Statuses
<1>4. CASE MarkSubmitted(k)
  BY <1>2, <1>4, CommitEffect DEF MarkSubmitted, Updated, Row, EventTypes, Statuses
<1>5. CASE \E s \in Signatures, b \in Bodies : MarkSettled(k, s, b)
  <2>1. PICK s \in Signatures, b \in Bodies : MarkSettled(k, s, b)
    BY <1>5
  <2>2. rows[k].status = "submitted" /\ Logged(k, "submitted")
    BY <2>1 DEF MarkSettled, CanSettle, StageInv
  <2>3. rows'[k].status = "settled_verified"
    BY <1>2, <2>1, CommitEffect DEF MarkSettled, Updated, Row
  <2>4. /\ \A j \in Keys \ {k} : rows'[j] = rows[j]
        /\ \A j, t : Logged(j, t)' <=>
               Logged(j, t) \/ (j = k /\ t = "settled_verified")
    BY <2>1, CommitEffect DEF MarkSettled
  <2> QED
    BY <2>2, <2>3, <2>4
<1>6. CASE \E s \in Signatures \cup {None}, b \in Bodies \cup {None} :
               MarkUnknown(k, s, b)
  <2>1. PICK s \in Signatures \cup {None}, b \in Bodies \cup {None} :
               MarkUnknown(k, s, b)
    BY <1>6
  <2>2. rows[k].status = "submitted"
    BY <2>1 DEF MarkUnknown, CanMarkUnknown
  <2>3. rows'[k].status = "unknown"
    BY <1>2, <2>1, CommitEffect DEF MarkUnknown, Updated, Row
  <2>4. /\ \A j \in Keys \ {k} : rows'[j] = rows[j]
        /\ \A j, t : Logged(j, t)' <=>
               Logged(j, t) \/ (j = k /\ t = "unknown")
    BY <2>1, CommitEffect DEF MarkUnknown
  <2> QED
    BY <2>2, <2>3, <2>4
<1>7. CASE Abort(k)
  BY <1>2, <1>7, CommitEffect DEF Abort, Updated, Row, EventTypes, Statuses
<1>8. CASE \E s \in Signatures : ReconcileUnknown(k, s)
  <2>1. PICK s \in Signatures : ReconcileUnknown(k, s)
    BY <1>8
  <2>2. rows[k].status = "unknown"
    BY <2>1 DEF ReconcileUnknown, CanReconcile
  <2>3. rows'[k].status = "reconciled_verified"
    BY <1>2, <2>1, CommitEffect DEF ReconcileUnknown, Updated, Row
  <2>4. /\ \A j \in Keys \ {k} : rows'[j] = rows[j]
        /\ \A j, t : Logged(j, t)' <=>
               Logged(j, t) \/ (j = k /\ t = "reconciled_verified")
    BY <2>1, CommitEffect DEF ReconcileUnknown
  <2> QED
    BY <2>2, <2>3, <2>4
<1>9. CASE \E from \in Statuses : Recover(k, from)
  BY <1>2, <1>9, CommitEffect DEF Recover, Updated, Row, EventTypes, Statuses
<1> QED
  BY <1>1, <1>3, <1>4, <1>5, <1>6, <1>7, <1>8, <1>9

(* The UNIQUE index on transaction_signature is never violated.            *)
LEMMA SignatureStep ==
    ASSUME JournalTypeOK, OneRowPerSignature, JournalNext
    PROVE  OneRowPerSignature'
<1> USE DEF JournalTypeOK, OneRowPerSignature, Commit, SignatureFree
<1>1. SUFFICES ASSUME NEW k \in Keys,
        \/ \E f \in Fingerprints, a \in Amounts : Reserve(k, f, a)
        \/ MarkSubmitted(k)
        \/ \E s \in Signatures, b \in Bodies : MarkSettled(k, s, b)
        \/ \E s \in Signatures \cup {None}, b \in Bodies \cup {None} :
               MarkUnknown(k, s, b)
        \/ Abort(k)
        \/ \E s \in Signatures : ReconcileUnknown(k, s)
        \/ \E from \in Statuses : Recover(k, from)
      PROVE OneRowPerSignature'
  BY DEF JournalNext
<1>2. CASE \E f \in Fingerprints, a \in Amounts : Reserve(k, f, a)
  BY <1>2 DEF Reserve, Row
<1>3. CASE MarkSubmitted(k)
  BY <1>3 DEF MarkSubmitted, Updated, Row
<1>4. CASE \E s \in Signatures, b \in Bodies : MarkSettled(k, s, b)
  BY <1>4 DEF MarkSettled, Updated, CanSettle, Row
<1>5. CASE \E s \in Signatures \cup {None}, b \in Bodies \cup {None} :
               MarkUnknown(k, s, b)
  BY <1>5 DEF MarkUnknown, Updated, CanMarkUnknown, Row
<1>6. CASE Abort(k)
  BY <1>6 DEF Abort, Updated, Row
<1>7. CASE \E s \in Signatures : ReconcileUnknown(k, s)
  BY <1>7 DEF ReconcileUnknown, Updated, CanReconcile, Row
<1>8. CASE \E from \in Statuses : Recover(k, from)
  BY <1>8 DEF Recover, Updated, Row
<1> QED
  BY <1>1, <1>2, <1>3, <1>4, <1>5, <1>6, <1>7, <1>8

-----------------------------------------------------------------------------
(* Sets of keys and of the units they hold are finite.                     *)
LEMMA BudgetFinite ==
    ASSUME NEW S \in SUBSET Keys
    PROVE  /\ IsFiniteSet(S) /\ Cardinality(S) \in Nat
           /\ IsFiniteSet(Units(S)) /\ Cardinality(Units(S)) \in Nat
<1>1. IsFiniteSet(S)
  BY BudgetAssumption, FS_Subset
<1>2. IsFiniteSet(Amounts)
  BY BudgetAssumption, FS_Interval DEF Amounts
<1>3. IsFiniteSet(S \X Amounts)
  BY <1>1, <1>2, FS_Product
<1>4. Units(S) \in SUBSET (S \X Amounts)
  BY DEF Units
<1>5. IsFiniteSet(Units(S))
  BY <1>3, <1>4, FS_Subset
<1> QED
  BY <1>1, <1>5, FS_CardinalityType

(* A block of a units of one key has a elements.                           *)
LEMMA BlockSize ==
    ASSUME NEW k, NEW a \in Nat
    PROVE  /\ IsFiniteSet({k} \X (1..a))
           /\ Cardinality({k} \X (1..a)) = a
<1>1. IsFiniteSet({k}) /\ Cardinality({k}) = 1
  BY FS_Singleton
<1>2. IsFiniteSet(1..a) /\ Cardinality(1..a) = a
  BY FS_Interval
<1>3. /\ IsFiniteSet({k} \X (1..a))
      /\ Cardinality({k} \X (1..a)) = Cardinality({k}) * Cardinality(1..a)
  BY <1>1, <1>2, FS_Product
<1>4. Cardinality({k} \X (1..a)) = 1 * a
  BY <1>1, <1>2, <1>3
<1> QED
  BY <1>3, <1>4

(* A reservation charges the key and exactly its amount.                   *)
LEMMA ReserveCharges ==
    ASSUME JournalTypeOK, StageInv, ReservedWithinBudget, NEW k \in Keys,
           NEW f \in Fingerprints, NEW a \in Amounts, Reserve(k, f, a)
    PROVE  ReservedWithinBudget'
<1>1. a \in Nat /\ a \in 1..MaxAmount
  BY BudgetAssumption DEF Amounts
<1>2. rows' = [rows EXCEPT ![k] = [status |-> "reserved", fp |-> f,
                                   amount |-> a, tx |-> None, body |-> None]]
  BY DEF Reserve, Commit
<1>3. \A j \in Keys : Logged(j, "aborted")' <=> Logged(j, "aborted")
  BY DEF Reserve, Commit, Logged
<1>4. rows[k].status = "absent" /\ ~Logged(k, "aborted")
  BY DEF Reserve, StageInv
<1>5. NeverReleased' = NeverReleased \cup {k}
  BY <1>2, <1>3, <1>4 DEF NeverReleased, Charged, JournalTypeOK
<1>6. Units(NeverReleased)' = Units(NeverReleased) \cup ({k} \X (1..a))
  <2>1. ASSUME NEW u
        PROVE  u \in Units(NeverReleased)' <=>
               u \in Units(NeverReleased) \cup ({k} \X (1..a))
    <3>1. u \in Units(NeverReleased)' <=>
            u \in (NeverReleased \cup {k}) \X Amounts /\ u[2] <= rows'[u[1]].amount
      BY <1>5 DEF Units, Amounts
    <3>2. k \notin NeverReleased /\ NeverReleased \subseteq Keys
      BY <1>4 DEF NeverReleased, Charged
    <3>3. CASE u \in {k} \X Amounts
      <4>1. rows'[u[1]].amount = a /\ u[1] = k
        BY <1>2, <3>3 DEF JournalTypeOK
      <4>2. u \in {k} \X (1..a) <=> u[2] <= a
        BY <1>1, <3>3 DEF Amounts
      <4>3. u \notin Units(NeverReleased)
        BY <3>2, <3>3 DEF Units
      <4> QED
        BY <3>1, <3>3, <4>1, <4>2, <4>3
    <3>4. CASE u \in NeverReleased \X Amounts
      <4>1. u[1] \in NeverReleased /\ u[1] # k
        BY <3>2, <3>4
      <4>2. rows'[u[1]] = rows[u[1]]
        BY <1>2, <3>2, <4>1 DEF JournalTypeOK
      <4>3. u \notin {k} \X (1..a)
        BY <4>1
      <4> QED
        BY <3>1, <3>4, <4>2, <4>3 DEF Units
    <3>5. CASE u \notin (NeverReleased \cup {k}) \X Amounts
      <4>1. 1..a \subseteq Amounts
        BY <1>1, BudgetAssumption DEF Amounts
      <4>2. u \notin {k} \X (1..a)
        BY <3>5, <4>1
      <4>3. u \notin Units(NeverReleased)
        BY <3>5 DEF Units
      <4> QED
        BY <3>1, <3>5, <4>2, <4>3
    <3> QED
      BY <3>3, <3>4, <3>5
  <2> QED
    BY <2>1
<1>7. NeverReleased \in SUBSET Charged /\ Charged \in SUBSET Keys
      /\ NeverReleased \in SUBSET Keys
  BY DEF NeverReleased, Charged
<1>8. Cardinality(NeverReleased) <= Cardinality(Charged)
  BY <1>7, BudgetFinite, FS_Subset
<1>9. Units(NeverReleased) \in SUBSET Units(Charged)
  BY <1>7 DEF Units
<1>10. Cardinality(Units(NeverReleased)) <= Cardinality(Units(Charged))
  BY <1>7, <1>9, BudgetFinite, FS_Subset
<1>11. Cardinality(NeverReleased') <= Cardinality(NeverReleased) + 1
  <2>1. IsFiniteSet(NeverReleased) /\ Cardinality(NeverReleased) \in Nat
    BY <1>7, BudgetFinite
  <2>2. Cardinality(NeverReleased \cup {k}) =
          IF k \in NeverReleased THEN Cardinality(NeverReleased)
          ELSE Cardinality(NeverReleased) + 1
    BY <2>1, FS_AddElement
  <2> QED
    BY <1>5, <2>1, <2>2
<1>12. Cardinality(Units(NeverReleased)') <= Cardinality(Units(NeverReleased)) + a
  <2>1. Units(NeverReleased) \cap ({k} \X (1..a)) = {}
    BY <1>4 DEF Units, NeverReleased, Charged
  <2>2. Cardinality(Units(NeverReleased) \cap ({k} \X (1..a))) = 0
    BY <2>1, FS_EmptySet
  <2>3. /\ IsFiniteSet(Units(NeverReleased))
        /\ Cardinality(Units(NeverReleased)) \in Nat
    BY <1>7, BudgetFinite
  <2>4. IsFiniteSet({k} \X (1..a)) /\ Cardinality({k} \X (1..a)) = a
    BY <1>1, BlockSize
  <2>5. Cardinality(Units(NeverReleased) \cup ({k} \X (1..a)))
        = Cardinality(Units(NeverReleased)) + Cardinality({k} \X (1..a))
          - Cardinality(Units(NeverReleased) \cap ({k} \X (1..a)))
    BY <2>3, <2>4, FS_Union
  <2> QED
    BY <1>1, <1>6, <2>2, <2>3, <2>4, <2>5
<1>13. BudgetAllows(a)
  BY DEF Reserve
<1>14. /\ Cardinality(NeverReleased) \in Nat /\ Cardinality(Charged) \in Nat
       /\ Cardinality(Units(NeverReleased)) \in Nat
       /\ Cardinality(Units(Charged)) \in Nat
  BY <1>7, BudgetFinite
<1>15. /\ NeverReleased' \in SUBSET Keys
       /\ Cardinality(NeverReleased') \in Nat
  BY <1>5, <1>7, BudgetFinite
<1>16. Cardinality(Units(NeverReleased)') \in Nat
  <2>1. IsFiniteSet(Units(NeverReleased) \cup ({k} \X (1..a)))
    BY <1>1, <1>7, BudgetFinite, BlockSize, FS_Union
  <2> QED
    BY <1>6, <2>1, FS_CardinalityType
<1> QED
  BY <1>1, <1>8, <1>10, <1>11, <1>12, <1>13, <1>14, <1>15, <1>16,
     BudgetAssumption DEF BudgetAllows, ReservedWithinBudget

(* Every other operation charges no key that was not charged before, and   *)
(* changes no amount: what is held can only shrink.                        *)
LEMMA OthersCharge ==
    ASSUME JournalTypeOK, StageInv, ReservedWithinBudget, NEW k \in Keys,
           NEW r, NEW e, Commit(k, r, e),
           rows[k].status # "absent", r.amount = rows[k].amount
    PROVE  ReservedWithinBudget'
<1>1. NeverReleased' \in SUBSET NeverReleased
  <2>1. SUFFICES ASSUME NEW j \in NeverReleased' PROVE j \in NeverReleased
    OBVIOUS
  <2>2. j \in Keys /\ rows'[j].status \notin {"absent", "aborted"}
        /\ ~Logged(j, "aborted")'
    BY DEF NeverReleased, Charged
  <2>3. ~Logged(j, "aborted")
    BY <2>2 DEF Commit, Logged
  <2>4. rows[j].status # "aborted"
    BY <2>2, <2>3 DEF StageInv
  <2>5. rows[j].status # "absent"
    BY <2>2, CommitEffect
  <2> QED
    BY <2>2, <2>3, <2>4, <2>5 DEF NeverReleased, Charged
<1>2. \A j \in Keys : rows'[j].amount = rows[j].amount
  BY CommitEffect
<1>3. NeverReleased \in SUBSET Keys
  BY DEF NeverReleased, Charged
<1>4. Units(NeverReleased)' \in SUBSET Units(NeverReleased)
  BY <1>1, <1>2, <1>3 DEF Units, Amounts
<1>5. /\ IsFiniteSet(NeverReleased) /\ Cardinality(NeverReleased) \in Nat
      /\ IsFiniteSet(Units(NeverReleased))
      /\ Cardinality(Units(NeverReleased)) \in Nat
  BY <1>3, BudgetFinite
<1>6. /\ IsFiniteSet(NeverReleased')
      /\ Cardinality(NeverReleased') <= Cardinality(NeverReleased)
  BY <1>1, <1>5, FS_Subset
<1>7. /\ IsFiniteSet(Units(NeverReleased)')
      /\ Cardinality(Units(NeverReleased)') <= Cardinality(Units(NeverReleased))
  BY <1>4, <1>5, FS_Subset
<1>8. Cardinality(NeverReleased') \in Nat /\ Cardinality(Units(NeverReleased)') \in Nat
  BY <1>6, <1>7, FS_CardinalityType
<1> QED
  BY <1>5, <1>6, <1>7, <1>8, BudgetAssumption DEF ReservedWithinBudget

LEMMA BudgetStep ==
    ASSUME JournalTypeOK, StageInv, ReservedWithinBudget, JournalNext
    PROVE  ReservedWithinBudget'
<1>1. PICK k \in Keys :
        \/ \E f \in Fingerprints, a \in Amounts : Reserve(k, f, a)
        \/ MarkSubmitted(k)
        \/ \E s \in Signatures, b \in Bodies : MarkSettled(k, s, b)
        \/ \E s \in Signatures \cup {None}, b \in Bodies \cup {None} :
               MarkUnknown(k, s, b)
        \/ Abort(k)
        \/ \E s \in Signatures : ReconcileUnknown(k, s)
        \/ \E from \in Statuses : Recover(k, from)
  BY DEF JournalNext
<1>2. CASE \E f \in Fingerprints, a \in Amounts : Reserve(k, f, a)
  BY <1>2, ReserveCharges
<1>3. CASE ~\E f \in Fingerprints, a \in Amounts : Reserve(k, f, a)
  <2>1. rows[k].status # "absent"
    BY <1>1, <1>3 DEF MarkSubmitted, MarkSettled, CanSettle, MarkUnknown,
                      CanMarkUnknown, Abort, ReconcileUnknown, CanReconcile,
                      Recover, Statuses
  <2>2. PICK status, s, b, e : Commit(k, Updated(k, status, s, b), e)
    BY <1>1, <1>3 DEF MarkSubmitted, MarkSettled, MarkUnknown, Abort,
                      ReconcileUnknown, Recover
  <2>3. Updated(k, status, s, b).amount = rows[k].amount
    BY DEF Updated
  <2> QED
    BY <2>1, <2>2, <2>3, OthersCharge
<1> QED
  BY <1>2, <1>3

-----------------------------------------------------------------------------
LEMMA JournalInvInit ==
    ASSUME JournalInit
    PROVE  JournalInv
<1>1. \A k \in Keys : rows[k] = NoRow
  BY DEF JournalInit
<1>2. JournalTypeOK
  BY BudgetAssumption DEF JournalInit, JournalTypeOK, NoRow, Row
<1>3. StageInv /\ LogExplainsRow /\ OneRowPerSignature /\ RowsFilled
  BY <1>1 DEF JournalInit, RowsFilled, StageInv, LogExplainsRow, OneRowPerSignature,
              ReleasedNeverSubmitted, Logged, NoRow
<1>4. NeverReleased = {} /\ Units(NeverReleased) = {}
  BY <1>1 DEF NeverReleased, Charged, Units, NoRow
<1>5. ReservedWithinBudget
  BY <1>4, FS_EmptySet, BudgetAssumption DEF ReservedWithinBudget
<1> QED
  BY <1>2, <1>3, <1>5 DEF JournalInv

LEMMA JournalInvStep ==
    ASSUME JournalInv, [JournalNext]_journalVars
    PROVE  JournalInv'
<1>1. CASE JournalNext
  BY <1>1, JournalTypeStep, FilledStep, StageStep, LogStep, SignatureStep, BudgetStep
     DEF JournalInv
<1>2. CASE UNCHANGED journalVars
  BY <1>2 DEF journalVars, JournalInv, JournalTypeOK, RowsFilled, StageInv, LogExplainsRow,
     OneRowPerSignature, ReservedWithinBudget, ReleasedNeverSubmitted,
     NeverReleased, Charged, Units, Logged
<1> QED
  BY <1>1, <1>2

(* The inductive invariant of the journal.                                 *)
THEOREM JournalInvariant == JournalSpec => []JournalInv
<1>1. JournalInit => JournalInv
  BY JournalInvInit
<1>2. JournalInv /\ [JournalNext]_journalVars => JournalInv'
  BY JournalInvStep
<1> QED
  BY <1>1, <1>2, PTL DEF JournalSpec

(* journal.ts reserve(): whatever order reservations, releases and late    *)
(* recoveries come in, the reservations that were never given back fit the *)
(* limits on requests and on the total amount.                             *)
THEOREM JournalWithinBudget == JournalSpec => []ReservedWithinBudget
<1>1. JournalInv => ReservedWithinBudget
  BY DEF JournalInv
<1> QED
  BY <1>1, JournalInvariant, PTL

(* journal.ts abort() and markSubmitted(): no key is both released and     *)
(* submitted, so giving its budget back is safe.                           *)
THEOREM JournalReleaseSafe == JournalSpec => []ReleasedNeverSubmitted
<1>1. JournalInv => ReleasedNeverSubmitted
  BY DEF JournalInv, StageInv
<1> QED
  BY <1>1, JournalInvariant, PTL

(* journal.ts, the UNIQUE index and the transitions that write the column: *)
(* one transaction vouches for one row.                                    *)
THEOREM JournalSignatureUnique == JournalSpec => []OneRowPerSignature
<1>1. JournalInv => OneRowPerSignature
  BY DEF JournalInv
<1> QED
  BY <1>1, JournalInvariant, PTL

(* journal.ts appendEvent(): the event log explains every row.             *)
THEOREM JournalLogExplains == JournalSpec => []LogExplainsRow
<1>1. JournalInv => LogExplainsRow
  BY DEF JournalInv
<1> QED
  BY <1>1, JournalInvariant, PTL
=============================================================================
