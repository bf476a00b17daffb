-------------------------- MODULE DispatcherClient --------------------------
(***************************************************************************)
(* The Python x402 client and its SQLite journal (TelegraphX402Client and  *)
(* SqlitePaymentJournal, src/oathcast/payment.py), configured to sign.     *)
(*                                                                         *)
(* A request checks the journal, asks without payment, validates the 402   *)
(* challenge, reserves, signs, marks the row submitted, asks again with    *)
(* the proof and verifies the settlement.  Clients are threads and         *)
(* processes on one journal file; every journal call is one transaction    *)
(* (BEGIN IMMEDIATE, or one UPDATE), everything between two calls may be   *)
(* interleaved, and a process may die anywhere.  The dispatcher, the       *)
(* signer, the verifier and the chain are external.                        *)
(***************************************************************************)
EXTENDS Integers, FiniteSets, Sequences

CONSTANTS
    Clients,         \* concurrent calls of request_miner
    URLs,            \* request URLs
    Approved,        \* those whose Miner id and endpoint are allowed
    Proofs,          \* identities of signed payment proofs
    Challenges,      \* Payment-Required headers the dispatcher may send
    ExpectedPayTo,   \* expected_pay_to
    MinAmount,       \* MINIMUM_USDC_MICROUNITS
    MaxPayment,      \* max_payment_micro_usdc
    MaxPaid,         \* max_paid_requests
    MaxTotal,        \* max_total_payment_micro_usdc
    RequireDeadline, \* require_challenge_deadline
    MaxTime,         \* bound on the clock
    None

(* The constructor refuses less than one request and a total below the     *)
(* smallest payment.                                                       *)
ASSUME ClientAssumption ==
    /\ IsFiniteSet(URLs)
    /\ Approved \subseteq URLs
    /\ {MinAmount, MaxPaid, MaxTotal} \subseteq Nat \ {0}
    /\ MaxTotal >= MinAmount
    /\ {MaxPayment, MaxTime} \subseteq Nat

VARIABLES
    now,       \* the clock
    rows,      \* payment_journal: status and amount of each URL
    cs,        \* the calls in work
    sent,      \* the proofs that left a client
    chain,     \* those that were settled
    answered   \* history: paid responses that request_miner returned

vars == <<now, rows, cs, sent, chain, answered>>

Statuses == {"absent", "RESERVED", "SUBMITTED", "SETTLED", "UNKNOWN", "ABORTED"}

(* PAYMENT_BLOCKING_STATES.                                                *)
Blocking == {"RESERVED", "SUBMITTED", "SETTLED", "UNKNOWN"}

-----------------------------------------------------------------------------
(* PaymentChallenge: an offer that is not exact USDC on Base Sepolia is    *)
(* passed over and the first other one decides; it is refused if its       *)
(* amount, recipient or resource is not approved, even when a later one    *)
(* would be.  A missing and an unreadable deadline are both None.          *)
Offered(c) == {i \in DOMAIN c.options : c.options[i].usdc}

FirstOffer(c) ==
    c.options[CHOOSE i \in Offered(c) : \A j \in Offered(c) : i <= j]

DeadlineMet(c) == IF c.deadline = None THEN ~RequireDeadline ELSE c.deadline > now

OfferApproved(o, url) ==
    /\ o.amount \in Nat
    /\ MinAmount <= o.amount /\ o.amount <= MaxPayment
    /\ o.payTo = ExpectedPayTo
    /\ o.resource \in {None, url}

(* validate_for_request.                                                   *)
ValidForRequest(c, url) ==
    /\ c.version = 2
    /\ MaxPayment >= MinAmount
    /\ DeadlineMet(c)
    /\ Offered(c) # {}
    /\ OfferApproved(FirstOffer(c), url)

-----------------------------------------------------------------------------
(* The rows that count against the budget and, unit by unit, their amount. *)
Charged == {u \in URLs : rows[u].status \in Blocking}

Units(S) == {x \in S \X (1..MaxPayment) : x[2] <= rows[x[1]].amount}

(* _assert_available_in_transaction: the URL, then the two budgets.        *)
Unblocked(url) == rows[url].status \notin Blocking

WithinBudget(amount) ==
    /\ Cardinality(Charged) < MaxPaid
    /\ Cardinality(Units(Charged)) + amount <= MaxTotal

(* _transition: one UPDATE of the row if it still has the status.          *)
Transition(url, from, to) ==
    rows' = IF rows[url].status = from
            THEN [rows EXCEPT ![url] = [status |-> to, amount |-> rows[url].amount]]
            ELSE rows

-----------------------------------------------------------------------------
EmptyJournal == [u \in URLs |-> [status |-> "absent", amount |-> 0]]

Idle == [pc |-> "idle"]

Calling(pc, url) == [pc |-> pc, url |-> url]

Paying(pc, url, amount, deadline, sig) ==
    [pc |-> pc, url |-> url, amount |-> amount, deadline |-> deadline, sig |-> sig]

Goto(c, pc) ==
    cs' = [cs EXCEPT ![c] = Paying(pc, cs[c].url, cs[c].amount, cs[c].deadline,
                                   cs[c].sig)]

Leave(c) == cs' = [cs EXCEPT ![c] = Idle]

(* request_miner: target and signing policy, then assert_available, which  *)
(* reads the row and the budgets in two statements and holds nothing.      *)
RequestMiner(c, url) ==
    /\ cs[c] = Idle
    /\ url \in Approved
    /\ Unblocked(url)
    /\ cs' = [cs EXCEPT ![c] = Calling("available", url)]
    /\ UNCHANGED <<now, rows, sent, chain, answered>>

AssertBudget(c) ==
    /\ cs[c].pc = "available"
    /\ IF WithinBudget(0) THEN cs' = [cs EXCEPT ![c] = Calling("unpaid", cs[c].url)]
       ELSE Leave(c)
    /\ UNCHANGED <<now, rows, sent, chain, answered>>

(* The unpaid request fails, is answered without payment, or brings a      *)
(* challenge that is not signed.                                           *)
UnpaidEnds(c) ==
    /\ cs[c].pc = "unpaid"
    /\ Leave(c)
    /\ UNCHANGED <<now, rows, sent, chain, answered>>

Challenged(c, challenge) ==
    /\ cs[c].pc = "unpaid"
    /\ ValidForRequest(challenge, cs[c].url)
    /\ cs' = [cs EXCEPT ![c] = Paying("reserve", cs[c].url,
                  FirstOffer(challenge).amount, challenge.deadline, None)]
    /\ UNCHANGED <<now, rows, sent, chain, answered>>

(* Mutant: reserve() relies on assert_available.                           *)
ReserveUnchecked(c) ==
    /\ cs[c].pc = "reserve"
    /\ Unblocked(cs[c].url)
    /\ rows' = [rows EXCEPT ![cs[c].url] =
                   [status |-> "RESERVED", amount |-> cs[c].amount]]
    /\ Goto(c, "sign")
    /\ UNCHANGED <<now, sent, chain, answered>>

(* reserve(): URL and budgets are checked again in the transaction that    *)
(* replaces an aborted row or inserts the first one.                       *)
Reserve(c) ==
    /\ cs[c].pc = "reserve"
    /\ IF Unblocked(cs[c].url) /\ WithinBudget(cs[c].amount)
       THEN /\ rows' = [rows EXCEPT ![cs[c].url] =
                           [status |-> "RESERVED", amount |-> cs[c].amount]]
            /\ Goto(c, "sign")
       ELSE UNCHANGED rows /\ Leave(c)
    /\ UNCHANGED <<now, sent, chain, answered>>

(* The signer (external) returns a proof it never returned before ...      *)
Sign(c, p) ==
    /\ cs[c].pc = "sign"
    /\ \A t \in sent : t.sig # p
    /\ \A d \in Clients : cs[d].pc \in {"submit", "send"} => cs[d].sig # p
    /\ cs' = [cs EXCEPT ![c] = Paying("submit", cs[c].url, cs[c].amount,
                                      cs[c].deadline, p)]
    /\ UNCHANGED <<now, rows, sent, chain, answered>>

(* ... or fails, and the reservation is aborted.                           *)
SignFails(c) ==
    /\ cs[c].pc = "sign"
    /\ Transition(cs[c].url, "RESERVED", "ABORTED")
    /\ Leave(c)
    /\ UNCHANGED <<now, sent, chain, answered>>

MarkSubmitted(c) ==
    /\ cs[c].pc = "submit"
    /\ IF rows[cs[c].url].status = "RESERVED" THEN Goto(c, "send") ELSE Leave(c)
    /\ Transition(cs[c].url, "RESERVED", "SUBMITTED")
    /\ UNCHANGED <<now, sent, chain, answered>>

(* The paid request leaves the client.                                     *)
SendProof(c) ==
    /\ cs[c].pc = "send"
    /\ sent' = sent \cup {[sig |-> cs[c].sig, url |-> cs[c].url, amount |-> cs[c].amount]}
    /\ Goto(c, "paid")
    /\ UNCHANGED <<now, rows, chain, answered>>

(* A transport error, a status that is not 2xx, a deadline that passed in  *)
(* the meantime or no settlement header: the outcome is unknown.           *)
PaidFails(c) ==
    /\ cs[c].pc = "paid"
    /\ Goto(c, "unknown")
    /\ UNCHANGED <<now, rows, sent, chain, answered>>

(* A 2xx response in time, with a settlement header.                       *)
PaidAnswers(c) ==
    /\ cs[c].pc = "paid"
    /\ cs[c].deadline # None => cs[c].deadline > now
    /\ Goto(c, "verify")
    /\ UNCHANGED <<now, rows, sent, chain, answered>>

(* The settlement verifier (external) confirms only what was settled; it   *)
(* may also deny or fail.                                                  *)
VerifierConfirms(c) ==
    /\ cs[c].pc = "verify"
    /\ cs[c].sig \in chain
    /\ Goto(c, "settled")
    /\ UNCHANGED <<now, rows, sent, chain, answered>>

(* Mutant: a verifier that fails is taken for one that confirms.           *)
VerifierFailsOpen(c) ==
    /\ cs[c].pc = "verify"
    /\ Goto(c, "settled")
    /\ UNCHANGED <<now, rows, sent, chain, answered>>

VerifierDenies(c) ==
    /\ cs[c].pc = "verify"
    /\ Goto(c, "unknown")
    /\ UNCHANGED <<now, rows, sent, chain, answered>>

MarkUnknown(c) ==
    /\ cs[c].pc = "unknown"
    /\ Transition(cs[c].url, "SUBMITTED", "UNKNOWN")
    /\ Leave(c)
    /\ UNCHANGED <<now, sent, chain, answered>>

(* The response is returned only after the settlement is in the journal.   *)
MarkSettled(c) ==
    /\ cs[c].pc = "settled"
    /\ Transition(cs[c].url, "SUBMITTED", "SETTLED")
    /\ answered' = IF rows[cs[c].url].status = "SUBMITTED"
                   THEN answered \cup {[sig |-> cs[c].sig, url |-> cs[c].url]}
                   ELSE answered
    /\ Leave(c)
    /\ UNCHANGED <<now, sent, chain>>

(* The process dies, or a journal call fails: the call ends with an        *)
(* exception and the row stays as it is.                                   *)
Crash(c) ==
    /\ cs[c] # Idle
    /\ Leave(c)
    /\ UNCHANGED <<now, rows, sent, chain, answered>>

(* The dispatcher settles a proof it was sent, or never does.              *)
Settle(t) ==
    /\ t.sig \notin chain
    /\ chain' = chain \cup {t.sig}
    /\ UNCHANGED <<now, rows, cs, sent, answered>>

Tick ==
    /\ now < MaxTime
    /\ now' = now + 1
    /\ UNCHANGED <<rows, cs, sent, chain, answered>>

ClientStep(c) ==
    \/ \E url \in URLs : RequestMiner(c, url)
    \/ AssertBudget(c)
    \/ UnpaidEnds(c)
    \/ \E challenge \in Challenges : Challenged(c, challenge)
    \/ Reserve(c)
    \/ \E p \in Proofs : Sign(c, p)
    \/ SignFails(c)
    \/ MarkSubmitted(c)
    \/ SendProof(c)
    \/ PaidFails(c)
    \/ PaidAnswers(c)
    \/ VerifierConfirms(c)
    \/ VerifierDenies(c)
    \/ MarkUnknown(c)
    \/ MarkSettled(c)
    \/ Crash(c)

Next ==
    \/ \E c \in Clients : ClientStep(c)
    \/ \E t \in sent : Settle(t)
    \/ Tick

Init ==
    /\ now = 0
    /\ rows = EmptyJournal
    /\ cs = [c \in Clients |-> Idle]
    /\ sent = {}
    /\ chain = {}
    /\ answered = {}

Spec == Init /\ [][Next]_vars

-----------------------------------------------------------------------------
(* The client keeps the promise of BudgetedPayments, read at the moment a  *)
(* row is marked submitted: proofs that left the clients are one per URL   *)
(* and within both budgets, whatever calls overlap between the first look  *)
(* at the journal and the reservation, and wherever a process dies.        *)
Promise == INSTANCE BudgetedPayments WITH
    Keys <- URLs,
    Signatures <- Proofs,
    MaxAmount <- MaxPayment,
    MaxTotal <- MaxTotal,
    MaxRequests <- MaxPaid,
    granted <- [u \in URLs |-> IF rows[u].status \in {"SUBMITTED", "SETTLED", "UNKNOWN"}
                               THEN rows[u].amount ELSE 0],
    used <- {u \in URLs : rows[u].status \in {"SUBMITTED", "SETTLED", "UNKNOWN"}},
    exposed <- {[sig |-> t.sig, key |-> t.url, amount |-> t.amount] : t \in sent},
    confirmed <- chain

ClientKeepsPromise == Promise!Spec

(* A paid response is handed out only for a payment that was settled and   *)
(* is in the journal as settled, and the row never leaves that state.      *)
AnsweredIsSettled ==
    \A a \in answered : a.sig \in chain /\ rows[a.url].status = "SETTLED"
=============================================================================
