--------------------------- MODULE PaymentJournal ---------------------------
(***************************************************************************)
(* The durable payment journal of the application sidecar                  *)
(* (payment-canary/src/journal.ts): one SQLite row per (principal,         *)
(* idempotency key), changed only by guarded transitions, and an append-   *)
(* only event table written in the same transaction as the row.            *)
(*                                                                         *)
(* Each operation below is one action.  In the code an operation is a read *)
(* followed by a BEGIN IMMEDIATE transaction whose UPDATE repeats the      *)
(* status guard (or whose INSERT meets a UNIQUE index), so a writer that   *)
(* lost a race changes nothing: the transaction is the atomic step.        *)
(* The exception is recoverUnfinished, whose guard is whatever status it   *)
(* read last; its phases are separate actions of PaymentSidecar.           *)
(***************************************************************************)
EXTENDS Integers, FiniteSets

CONSTANTS
    Keys,          \* (principal_id, idempotency_key) pairs
    Fingerprints,  \* what a key is bound to: request, policy, Miner, endpoint
    Signatures,    \* Solana transaction signatures
    Bodies,        \* paid response bodies
    MaxAmount,     \* config.maxAmountMicroUsdc, the cap on one challenge
    MaxTotal,      \* config.maxTotalMicroUsdc
    MaxRequests,   \* config.maxRequests
    None           \* SQL NULL

ASSUME BudgetAssumption ==
    /\ IsFiniteSet(Keys)
    /\ MaxAmount \in Nat \ {0}
    /\ MaxTotal \in Nat \ {0}
    /\ MaxRequests \in Nat \ {0}

ASSUME NullAssumption ==
    None \notin Keys \cup Fingerprints \cup Signatures \cup Bodies

VARIABLES
    rows,    \* payment_attempts
    events   \* payment_attempt_events, as the set of (key, event type) logged

journalVars == <<rows, events>>

Amounts == 1..MaxAmount

Statuses == {"reserved", "submitted", "unknown", "settled_verified",
             "reconciled_verified", "aborted"}

EventTypes == Statuses \cup {"recovered_unknown"}

Row == [status : Statuses \cup {"absent"},
        fp     : Fingerprints \cup {None},
        amount : 0..MaxAmount,
        tx     : Signatures \cup {None},
        body   : Bodies \cup {None}]

NoRow == [status |-> "absent", fp |-> None, amount |-> 0,
          tx |-> None, body |-> None]

Verified == {"settled_verified", "reconciled_verified"}

Unfinished == {"reserved", "submitted"}

-----------------------------------------------------------------------------
(* The budget query of reserve(): every row that is not aborted counts.    *)
(* SUM(amount_micro_usdc) is the number of micro-USDC units those rows     *)
(* hold, each unit a pair of the row's key and its rank in the row.        *)

Charged == {k \in Keys : rows[k].status \notin {"absent", "aborted"}}

Units(S) == {u \in S \X Amounts : u[2] <= rows[u[1]].amount}

(* Mutant: the limit on requests is one too high.                          *)
BudgetOffByOne(a) ==
    /\ Cardinality(Charged) <= MaxRequests
    /\ Cardinality(Units(Charged)) + a <= MaxTotal

BudgetAllows(a) ==
    /\ Cardinality(Charged) < MaxRequests
    /\ Cardinality(Units(Charged)) + a <= MaxTotal

(* Mutant: the schema without the UNIQUE index.                            *)
SignatureUnchecked(k, s) == TRUE

(* The partial UNIQUE index on transaction_signature.                      *)
SignatureFree(k, s) == s = None \/ \A j \in Keys \ {k} : rows[j].tx # s

-----------------------------------------------------------------------------
(* A row update and its event commit together or not at all.               *)
Commit(k, row, type) ==
    /\ rows' = [rows EXCEPT ![k] = row]
    /\ events' = events \cup {<<k, type>>}

(* The row with its status and evidence columns replaced; the columns it   *)
(* was reserved with are in no UPDATE.                                     *)
Updated(k, status, s, b) ==
    [status |-> status, fp |-> rows[k].fp, amount |-> rows[k].amount,
     tx |-> s, body |-> b]

Reserve(k, f, a) ==
    /\ rows[k].status = "absent"
    /\ BudgetAllows(a)
    /\ Commit(k, [status |-> "reserved", fp |-> f, amount |-> a,
                  tx |-> None, body |-> None], "reserved")

MarkSubmitted(k) ==
    /\ rows[k].status = "reserved"
    /\ Commit(k, Updated(k, "submitted", rows[k].tx, rows[k].body), "submitted")

CanSettle(k, s) == rows[k].status = "submitted" /\ SignatureFree(k, s)

MarkSettled(k, s, b) ==
    /\ CanSettle(k, s)
    /\ Commit(k, Updated(k, "settled_verified", s, b), "settled_verified")

CanMarkUnknown(k, s) == rows[k].status = "submitted" /\ SignatureFree(k, s)

(* Mutant: the event is not written with the row.                          *)
MarkUnknownUnlogged(k, s, b) ==
    /\ CanMarkUnknown(k, s)
    /\ rows' = [rows EXCEPT ![k] = Updated(k, "unknown", s, b)]
    /\ UNCHANGED events

MarkUnknown(k, s, b) ==
    /\ CanMarkUnknown(k, s)
    /\ Commit(k, Updated(k, "unknown", s, b), "unknown")

Abort(k) ==
    /\ rows[k].status = "reserved"
    /\ Commit(k, Updated(k, "aborted", rows[k].tx, rows[k].body), "aborted")

CanReconcile(k, s) == rows[k].status = "unknown" /\ SignatureFree(k, s)

ReconcileUnknown(k, s) ==
    /\ CanReconcile(k, s)
    /\ Commit(k, Updated(k, "reconciled_verified", s, rows[k].body),
              "reconciled_verified")

(* One iteration of recoverUnfinished: the row is moved to unknown from    *)
(* the status the loop read, whichever status that was.                    *)
Recover(k, from) ==
    /\ rows[k].status = from
    /\ Commit(k, Updated(k, "unknown", rows[k].tx, rows[k].body),
              "recovered_unknown")

-----------------------------------------------------------------------------
(* The journal under its most general client: any operation, any time.     *)

JournalInit ==
    /\ rows = [k \in Keys |-> NoRow]
    /\ events = {}

JournalNext ==
    \E k \in Keys :
        \/ \E f \in Fingerprints, a \in Amounts : Reserve(k, f, a)
        \/ MarkSubmitted(k)
        \/ \E s \in Signatures, b \in Bodies : MarkSettled(k, s, b)
        \/ \E s \in Signatures \cup {None}, b \in Bodies \cup {None} :
               MarkUnknown(k, s, b)
        \/ Abort(k)
        \/ \E s \in Signatures : ReconcileUnknown(k, s)
        \/ \E from \in Statuses : Recover(k, from)

JournalSpec == JournalInit /\ [][JournalNext]_journalVars

-----------------------------------------------------------------------------
Logged(k, type) == <<k, type>> \in events

(* Rows that were never released.  A row that was aborted may be moved to  *)
(* unknown by a recovery that read it late, so the status alone does not   *)
(* tell whether its reservation was ever given back.                       *)
NeverReleased == {k \in Charged : ~Logged(k, "aborted")}

JournalTypeOK ==
    /\ rows \in [Keys -> Row]
    /\ events \subseteq Keys \X EventTypes

(* The reservations that were never given back stay within both limits of  *)
(* the budget, however reservations, releases and recoveries interleave.   *)
ReservedWithinBudget ==
    /\ Cardinality(NeverReleased) <= MaxRequests
    /\ Cardinality(Units(NeverReleased)) <= MaxTotal

(* abort() gives the reservation back to the budget: the log never shows   *)
(* one key both released and submitted for payment, in either order.       *)
ReleasedNeverSubmitted ==
    \A k \in Keys : ~(Logged(k, "aborted") /\ Logged(k, "submitted"))

(* One transaction on chain vouches for at most one row.                   *)
OneRowPerSignature ==
    \A j, k \in Keys : rows[j].tx # None /\ rows[j].tx = rows[k].tx => j = k

(* The event log explains the row: a verified row has the events of a      *)
(* whole path that leads to it, a row that is still unfinished or released *)
(* has no event of a later stage.                                          *)
LogExplainsRow ==
    \A k \in Keys :
        /\ rows[k].status = "absent" => \A t \in EventTypes : ~Logged(k, t)
        /\ rows[k].status # "absent" => Logged(k, "reserved")
        /\ rows[k].status = "settled_verified" =>
               Logged(k, "submitted") /\ Logged(k, "settled_verified")
        /\ rows[k].status = "reconciled_verified" =>
               Logged(k, "reconciled_verified")
        /\ rows[k].status \in {"unknown", "reconciled_verified"} =>
               Logged(k, "unknown") \/ Logged(k, "recovered_unknown")
        /\ rows[k].status \in {"reserved", "submitted", "aborted"} =>
               ~Logged(k, "unknown") /\ ~Logged(k, "recovered_unknown")
=============================================================================
