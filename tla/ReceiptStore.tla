---------------------------- MODULE ReceiptStore ----------------------------
(***************************************************************************)
(* The receipt database of the Miner (src/oathcast/receipts.py) and the    *)
(* two operator commands that read it: scripts/anchor_receipt_head.py      *)
(* publishes the head of the receipt hash chain and verifies it later,     *)
(* scripts/backup_receipts.py copies the file.  save() is one BEGIN        *)
(* IMMEDIATE transaction, so it is one step here.                          *)
(*                                                                         *)
(* SQLite's triggers reject UPDATE and DELETE; they do not reject an edit  *)
(* of the file.  The digest in a receipt and the published chain head      *)
(* exist for that case, so the edits an operator can make are actions.     *)
(***************************************************************************)
EXTENDS Integers, Sequences

CONSTANTS
    Events,         \* event ids
    Questions,      \* questions a receipt can be about; each has an event
    InitialTables,  \* what the file may hold when the service first opens it
    MaxRows,        \* max_rows; stands for the byte cap too
    None

ASSUME StoreAssumption ==
    /\ MaxRows \in Nat \ {0}
    /\ \A q \in Questions : q.event \in Events

VARIABLES
    table,      \* forecast_receipts in rowid order: [receipt, recorded]
    anchor,     \* the published anchor, None before
    counted,    \* row count a running backup has read, None when none runs
    copy,       \* the backup file, None before
    repaired    \* history: events whose row was forged or lost with the file

storeVars == <<table, anchor, counted, copy, repaired>>

-----------------------------------------------------------------------------
(* receipt_digest(): a hash of the receipt without its digest field.       *)
Digest(r) == <<"sha256", r>>

(* A row as save() writes it: the receipt with its own digest in it.       *)
Sealed(r) == [receipt |-> r, recorded |-> Digest(r)]

(* get(): a recorded digest that does not match is ReceiptTampering; a     *)
(* receipt older than the field has none and is served.                    *)
Tampered(row) == row.recorded \notin {None, Digest(row.receipt)}

EventOf(row) == row.receipt.q.event

Index(e) == {i \in 1..Len(table) : EventOf(table[i]) = e}

Stored(e) == Index(e) # {}

RowOf(e) == table[CHOOSE i \in Index(e) : TRUE]

(* capacity() and _assert_capacity_for_new_receipt().                      *)
Accepting == Len(table) < MaxRows

-----------------------------------------------------------------------------
(* save(): the first receipt of an event wins.                             *)

SaveStatus(r) ==
    IF Stored(r.q.event)
    THEN IF RowOf(r.q.event).receipt.q = r.q THEN "stored" ELSE "conflict"
    ELSE IF Accepting THEN "stored" ELSE "full"

(* The row that is stored afterwards, for the status "stored".             *)
SavedRow(r) == IF Stored(r.q.event) THEN RowOf(r.q.event) ELSE Sealed(r)

Save(r) ==
    /\ table' = IF ~Stored(r.q.event) /\ Accepting
                THEN Append(table, Sealed(r)) ELSE table
    /\ UNCHANGED <<anchor, counted, copy, repaired>>

-----------------------------------------------------------------------------
(* chain_head(limit): chain[0] is the domain, chain[i] hashes chain[i-1],  *)
(* the event and the digest recomputed from the stored bytes.              *)

(* Mutant: the chain trusts the digest field of the receipt.               *)
ChainOfRecorded(t, n) ==
    LET chain[i \in 0..n] ==
            IF i = 0 THEN <<"domain">>
            ELSE <<"sha256", chain[i - 1], EventOf(t[i]), t[i].recorded>>
    IN chain[n]

Chain(t, n) ==
    LET chain[i \in 0..n] ==
            IF i = 0 THEN <<"domain">>
            ELSE <<"sha256", chain[i - 1], EventOf(t[i]), Digest(t[i].receipt)>>
    IN chain[n]

Shorter(m, n) == IF m <= n THEN m ELSE n

(* build_anchor() and write_anchor(); an existing anchor is not replaced.  *)
(* rows is what the anchor commits to, kept for the property.              *)
Publish ==
    /\ anchor = None
    /\ anchor' = [count |-> Len(table), head |-> Chain(table, Len(table)),
                  rows |-> table]
    /\ UNCHANGED <<table, counted, copy, repaired>>

(* verify_anchor(): the first count receipts give the published head.      *)
VerifyAnchor(a) ==
    /\ Shorter(a.count, Len(table)) >= a.count
    /\ Chain(table, Shorter(a.count, Len(table))) = a.head

-----------------------------------------------------------------------------
(* backup_to() and backup_read_only(): the row count is read first, the    *)
(* online backup copies one snapshot later, and the copy is refused when a *)
(* writer added a row in between.  The file stays, and a file that exists  *)
(* is not overwritten.                                                     *)

BackupCount ==
    /\ counted = None /\ copy = None
    /\ counted' = Len(table)
    /\ UNCHANGED <<table, anchor, copy, repaired>>

BackupCopy ==
    /\ counted # None
    /\ copy' = [rows |-> table, verified |-> Len(table) = counted]
    /\ counted' = None
    /\ UNCHANGED <<table, anchor, repaired>>

-----------------------------------------------------------------------------
(* What happens to the file outside the service.                           *)

Rewritten(r) == [q |-> r.q, provider |-> "rewritten",
                 issued |-> r.issued, completed |-> r.completed]

(* Bound: the file suffers one accident.                                   *)
Untouched == repaired = {} /\ \A i \in 1..Len(table) : ~Tampered(table[i])

EventsOf(t) == {EventOf(t[i]) : i \in 1..Len(t)}

(* A receipt is edited; its digest field is left as it was.                *)
Edit(i) ==
    /\ Untouched
    /\ table' = [table EXCEPT ![i] =
                    [receipt |-> Rewritten(table[i].receipt),
                     recorded |-> table[i].recorded]]
    /\ repaired' = repaired \cup
           (IF table[i].recorded = None THEN {EventOf(table[i])} ELSE {})
    /\ UNCHANGED <<anchor, counted, copy>>

(* A receipt is edited together with its digest field.                     *)
Forge(i) ==
    /\ Untouched
    /\ table' = [table EXCEPT ![i] = Sealed(Rewritten(table[i].receipt))]
    /\ repaired' = repaired \cup {EventOf(table[i])}
    /\ UNCHANGED <<anchor, counted, copy>>

(* A verified backup is put in place of the file.                          *)
Restore ==
    /\ Untouched
    /\ copy # None /\ copy.verified
    /\ table # copy.rows
    /\ table' = copy.rows
    /\ repaired' = repaired \cup EventsOf(table) \cup EventsOf(copy.rows)
    /\ UNCHANGED <<anchor, counted, copy>>

OperatorStep ==
    \/ Publish
    \/ BackupCount
    \/ BackupCopy
    \/ Restore

StoreInit ==
    /\ table \in InitialTables
    /\ anchor = None
    /\ counted = None
    /\ copy = None
    /\ repaired = {}

-----------------------------------------------------------------------------
(* The published anchor verifies exactly as long as the receipts it        *)
(* commits to are the first ones of the store: later receipts never make   *)
(* it stale, and an edited, forged or lost receipt always breaks it.       *)
AnchorHolds ==
    anchor # None =>
        (VerifyAnchor(anchor) <=>
            /\ Len(table) >= anchor.count
            /\ \A i \in 1..anchor.count :
                   table[i].receipt = anchor.rows[i].receipt)
=============================================================================
