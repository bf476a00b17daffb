--------------------------- MODULE PaymentSidecar ---------------------------
(***************************************************************************)
(* The application payment sidecar (payment-canary/src/                    *)
(* application-sidecar.ts), the x402 client it runs (canary.ts, runCanary  *)
(* and verifyPaymentOnChain) and, as environment, the Telegraph dispatcher *)
(* and the Solana chain.                                                   *)
(*                                                                         *)
(* Every handler of a sidecar process is a small state machine whose steps *)
(* are the stretches between two awaits.  Several handlers run in one      *)
(* process, and during a restart two processes may have the journal open.  *)
(* A process can crash between any two steps; what it had sent stays sent. *)
(***************************************************************************)
EXTENDS PaymentJournal

CONSTANTS
    Procs,            \* sidecar processes over time; one is the usual case
    Handlers,         \* concurrent handle() calls
    JournalMayFail,   \* a journal write can fail (disk full, locked)
    Misattribution    \* a settlement header, or the operator, can name the
                      \* signature of another call's payment

ASSUME SwitchAssumption ==
    /\ JournalMayFail \in BOOLEAN
    /\ Misattribution \in BOOLEAN
    /\ None \notin Procs \cup (Keys \X Statuses)

VARIABLES
    proc,       \* life cycle of each process
    listener,   \* the process whose socket is at config.socketPath
    todo,       \* recovery: the selected operations not yet visited
    seen,       \* recovery: <<key, status>> just read, or None
    hs,         \* local state of each handler
    sent,       \* signed payments transmitted to the dispatcher
    chain,      \* signatures confirmed on chain
    delivered   \* paid bodies handed to the application

procVars == <<proc, listener, todo, seen>>
vars == <<rows, events, proc, listener, todo, seen, hs, sent, chain, delivered>>

Phases == {"idle", "preflight", "challenge", "sending", "paid", "verifying",
           "reconciling"}

Handler == [pc : Phases, proc : Procs \cup {None}, key : Keys \cup {None},
            fp : Fingerprints \cup {None}, amount : 0..MaxAmount,
            tx : Signatures \cup {None}, body : Bodies \cup {None}]

Idle == [pc |-> "idle", proc |-> None, key |-> None, fp |-> None,
         amount |-> 0, tx |-> None, body |-> None]

Payment == [sig : Signatures, key : Keys, amount : Amounts]
Delivery == [key : Keys, fp : Fingerprints, tx : Signatures, body : Bodies]

Init ==
    /\ JournalInit
    /\ proc = [p \in Procs |-> "down"]
    /\ listener = None
    /\ todo = [p \in Procs |-> {}]
    /\ seen = [p \in Procs |-> None]
    /\ hs = [h \in Handlers |-> Idle]
    /\ sent = {}
    /\ chain = {}
    /\ delivered = {}

-----------------------------------------------------------------------------
(* Process life cycle: the constructor opens the journal and recovers, then*)
(* listen() takes over the socket path.                                    *)

(* Mutant: the SELECT forgets the rows that are only reserved.             *)
StartSelectsSubmitted(p) ==
    /\ proc[p] = "down"
    /\ proc' = [proc EXCEPT ![p] = "recovering"]
    /\ todo' = [todo EXCEPT ![p] = {k \in Keys : rows[k].status = "submitted"}]
    /\ UNCHANGED <<journalVars, listener, seen, hs, sent, chain, delivered>>

(* Mutant: a SELECT without its WHERE.                                     *)
StartSelectsAll(p) ==
    /\ proc[p] = "down"
    /\ proc' = [proc EXCEPT ![p] = "recovering"]
    /\ todo' = [todo EXCEPT ![p] = {k \in Keys : rows[k].status # "absent"}]
    /\ UNCHANGED <<journalVars, listener, seen, hs, sent, chain, delivered>>

(* recoverUnfinished, the SELECT.                                          *)
Start(p) ==
    /\ proc[p] = "down"
    /\ proc' = [proc EXCEPT ![p] = "recovering"]
    /\ todo' = [todo EXCEPT ![p] = {k \in Keys : rows[k].status \in Unfinished}]
    /\ UNCHANGED <<journalVars, listener, seen, hs, sent, chain, delivered>>

(* recoverUnfinished, rowByOperation on the next selected operation.       *)
RecoverRead(p) ==
    /\ proc[p] = "recovering"
    /\ seen[p] = None
    /\ \E k \in todo[p] :
           /\ seen' = [seen EXCEPT ![p] = <<k, rows[k].status>>]
           /\ todo' = [todo EXCEPT ![p] = @ \ {k}]
    /\ UNCHANGED <<journalVars, proc, listener, hs, sent, chain, delivered>>

(* recoverUnfinished, the UPDATE guarded by the status just read.          *)
RecoverWrite(p) ==
    /\ seen[p] # None
    /\ LET k == seen[p][1]  from == seen[p][2]
       IN \/ Recover(k, from)
          \/ rows[k].status # from /\ UNCHANGED journalVars
    /\ seen' = [seen EXCEPT ![p] = None]
    /\ UNCHANGED <<proc, listener, todo, hs, sent, chain, delivered>>

(* listen() unlinks the socket of an earlier process and binds its own.    *)
Listen(p) ==
    /\ proc[p] = "recovering"
    /\ todo[p] = {} /\ seen[p] = None
    /\ proc' = [proc EXCEPT ![p] = "up"]
    /\ listener' = p
    /\ UNCHANGED <<journalVars, todo, seen, hs, sent, chain, delivered>>

(* SIGTERM: the server stops accepting, calls in flight run on.            *)
Stop(p) ==
    /\ proc[p] = "up"
    /\ proc' = [proc EXCEPT ![p] = "closing"]
    /\ listener' = IF listener = p THEN None ELSE listener
    /\ UNCHANGED <<journalVars, todo, seen, hs, sent, chain, delivered>>

(* The last call is answered: close() unlinks whatever socket is at the    *)
(* path, its own or a successor's.                                         *)
Exit(p) ==
    /\ proc[p] = "closing"
    /\ \A h \in Handlers : hs[h].proc # p
    /\ proc' = [proc EXCEPT ![p] = "down"]
    /\ listener' = None
    /\ UNCHANGED <<journalVars, todo, seen, hs, sent, chain, delivered>>

Crash(p) ==
    /\ proc[p] # "down"
    /\ proc' = [proc EXCEPT ![p] = "down"]
    /\ listener' = IF listener = p THEN None ELSE listener
    /\ todo' = [todo EXCEPT ![p] = {}]
    /\ seen' = [seen EXCEPT ![p] = None]
    /\ hs' = [h \in Handlers |-> IF hs[h].proc = p THEN Idle ELSE hs[h]]
    /\ UNCHANGED <<journalVars, sent, chain, delivered>>

-----------------------------------------------------------------------------
(* handlePaidRequest.  A call that is refused without a change of state    *)
(* (conflict, in progress, outcome unknown, consumed, reconciled) is a     *)
(* stuttering step and has no action.                                      *)

AnswerWith(h) == hs' = [hs EXCEPT ![h] = Idle]

(* The same call in its next phase.                                        *)
Moved(h, pc, a, s, b) ==
    hs' = [hs EXCEPT ![h] =
               [pc |-> pc, proc |-> hs[h].proc, key |-> hs[h].key,
                fp |-> hs[h].fp, amount |-> a, tx |-> s, body |-> b]]

(* classifyExisting and the same tests in handlePaidRequest: a stored body *)
(* is replayed to the request the key is bound to, from settled rows only. *)
Replayable(k, f) ==
    rows[k].fp = f /\ rows[k].status = "settled_verified"

StoredReply(k) ==
    [key |-> k, fp |-> rows[k].fp, tx |-> rows[k].tx, body |-> rows[k].body]

(* A request whose key is new starts with an unpaid preflight.             *)
Accept(h, k, f) ==
    /\ hs[h].pc = "idle" /\ listener # None
    /\ rows[k].status = "absent"
    /\ hs' = [hs EXCEPT ![h] =
                  [pc |-> "preflight", proc |-> listener, key |-> k, fp |-> f,
                   amount |-> 0, tx |-> None, body |-> None]]
    /\ UNCHANGED <<journalVars, procVars, sent, chain, delivered>>

Replay(h, k, f) ==
    /\ hs[h].pc = "idle" /\ listener # None
    /\ Replayable(k, f)
    /\ delivered' = delivered \cup {StoredReply(k)}
    /\ UNCHANGED <<journalVars, procVars, hs, sent, chain>>

(* The preflight answered a valid challenge of amount a: reserve.          *)
ReserveFor(h, a) ==
    /\ hs[h].pc = "preflight"
    /\ Reserve(hs[h].key, hs[h].fp, a)
    /\ Moved(h, "challenge", a, None, None)
    /\ UNCHANGED <<procVars, sent, chain, delivered>>

(* Another call settled the key during the preflight: reserve() replays.   *)
ReserveReplays(h) ==
    /\ hs[h].pc = "preflight"
    /\ Replayable(hs[h].key, hs[h].fp)
    /\ delivered' = delivered \cup {StoredReply(hs[h].key)}
    /\ AnswerWith(h)
    /\ UNCHANGED <<journalVars, procVars, sent, chain>>

(* The preflight failed, the challenge exceeds the cap, or reserve() threw.*)
PreflightFails(h) ==
    /\ hs[h].pc = "preflight"
    /\ AnswerWith(h)
    /\ UNCHANGED <<journalVars, procVars, sent, chain, delivered>>

-----------------------------------------------------------------------------
(* The executing run of runCanary.                                         *)

(* Mutant: the second challenge is not compared with the first.            *)
ChallengeUnbound(h, a) == TRUE

(* The second challenge must have the digest reserved for.                 *)
ChallengeBound(h, a) == a = hs[h].amount

(* Mutant: the journal is not written before the payment leaves.           *)
SubmitUnlogged(h, a) ==
    /\ hs[h].pc = "challenge"
    /\ ChallengeBound(h, a)
    /\ Moved(h, "sending", a, None, None)
    /\ UNCHANGED <<journalVars, procVars, sent, chain, delivered>>

(* beforePaidRequest: the journal says submitted before anything is sent.  *)
Submit(h, a) ==
    /\ hs[h].pc = "challenge"
    /\ ChallengeBound(h, a)
    /\ MarkSubmitted(hs[h].key)
    /\ Moved(h, "sending", a, None, None)
    /\ UNCHANGED <<procVars, sent, chain, delivered>>

(* Mutant: a reservation that came to nothing is deleted.                  *)
AbandonByDelete(h) ==
    /\ hs[h].pc = "challenge"
    /\ rows[hs[h].key].status = "reserved"
    /\ rows' = [rows EXCEPT ![hs[h].key] = NoRow]
    /\ AnswerWith(h)
    /\ UNCHANGED <<events, procVars, sent, chain, delivered>>

(* The run failed before the payment was sent (no or another challenge,    *)
(* signer, payload, or markSubmitted threw): a row still reserved is       *)
(* aborted, any other row is left alone.                                   *)
AbandonUnpaid(h) ==
    /\ hs[h].pc = "challenge"
    /\ \/ Abort(hs[h].key)
       \/ /\ JournalMayFail \/ rows[hs[h].key].status # "reserved"
          /\ UNCHANGED journalVars
    /\ AnswerWith(h)
    /\ UNCHANGED <<procVars, sent, chain, delivered>>

(* Mutant: the paid fetch is tried again, with a new signature, when it    *)
(* fails.                                                                  *)
SendRetries(h) ==
    /\ hs[h].pc = "sending"
    /\ \E s \in Signatures :
           /\ \A t \in sent : t.sig # s
           /\ sent' = sent \cup {[sig |-> s, key |-> hs[h].key,
                                  amount |-> hs[h].amount]}
           /\ \/ Moved(h, "paid", hs[h].amount, s, None)
              \/ Moved(h, "sending", hs[h].amount, None, None)
    /\ UNCHANGED <<journalVars, procVars, chain, delivered>>

(* The paid fetch: a freshly signed payment leaves the process.            *)
Send(h) ==
    /\ hs[h].pc = "sending"
    /\ \E s \in Signatures :
           /\ \A t \in sent : t.sig # s
           /\ sent' = sent \cup {[sig |-> s, key |-> hs[h].key,
                                  amount |-> hs[h].amount]}
           /\ Moved(h, "paid", hs[h].amount, s, None)
    /\ UNCHANGED <<journalVars, procVars, chain, delivered>>

(* markUnknown inside try/catch: an error leaves the row submitted.        *)
MarkUnknownIfPossible(k, s, b) ==
    \/ MarkUnknown(k, s, b)
    \/ (JournalMayFail \/ ~CanMarkUnknown(k, s)) /\ UNCHANGED journalVars

(* Mutant: a lost answer leaves the row as it is.                          *)
PaidOutcomeIgnored(h) ==
    /\ hs[h].pc = "paid"
    /\ AnswerWith(h)
    /\ UNCHANGED <<journalVars, procVars, sent, chain, delivered>>

(* Mutant: a lost answer is taken for an unpaid request and released.      *)
PaidOutcomeReleased(h) ==
    /\ hs[h].pc = "paid"
    /\ rows[hs[h].key].status = "submitted"
    /\ Commit(hs[h].key, Updated(hs[h].key, "aborted", None, None), "aborted")
    /\ AnswerWith(h)
    /\ UNCHANGED <<procVars, sent, chain, delivered>>

(* No usable answer: fetch error, timeout, bad status or no valid header.  *)
PaidOutcomeLost(h) ==
    /\ hs[h].pc = "paid"
    /\ \E b \in Bodies \cup {None} : MarkUnknownIfPossible(hs[h].key, None, b)
    /\ AnswerWith(h)
    /\ UNCHANGED <<procVars, sent, chain, delivered>>

(* A paid body and a settlement header naming transaction s.               *)
PaidAnswer(h, s, b) ==
    /\ hs[h].pc = "paid"
    /\ Misattribution \/ s = hs[h].tx
    /\ Moved(h, "verifying", hs[h].amount, s, b)
    /\ UNCHANGED <<journalVars, procVars, sent, chain, delivered>>

(* verifyPaymentOnChain: the signature is confirmed and moved the amount.  *)
OnChain(s, a) == s \in chain /\ \E t \in sent : t.sig = s /\ t.amount = a

(* markSettled; if it throws, markUnknown is tried with the same signature.*)
Settle(h) ==
    LET k == hs[h].key  s == hs[h].tx  b == hs[h].body
    IN /\ hs[h].pc = "verifying"
       /\ OnChain(s, hs[h].amount)
       /\ \/ /\ MarkSettled(k, s, b)
             /\ delivered' = delivered \cup
                    {[key |-> k, fp |-> hs[h].fp, tx |-> s, body |-> b]}
          \/ /\ JournalMayFail \/ ~CanSettle(k, s)
             /\ MarkUnknownIfPossible(k, s, b)
             /\ UNCHANGED delivered
       /\ AnswerWith(h)
       /\ UNCHANGED <<procVars, sent, chain>>

(* The RPC query failed, or does not confirm the payment (yet).            *)
NotVerified(h) ==
    /\ hs[h].pc = "verifying"
    /\ MarkUnknownIfPossible(hs[h].key, hs[h].tx, hs[h].body)
    /\ AnswerWith(h)
    /\ UNCHANGED <<procVars, sent, chain, delivered>>

-----------------------------------------------------------------------------
(* handleReconcile: the operator names a transaction for an unknown row.   *)

ReconcileAccept(h, k, s) ==
    /\ hs[h].pc = "idle" /\ listener # None
    /\ rows[k].status = "unknown"
    /\ rows[k].tx \in {None, s}
    /\ Misattribution \/ \E t \in sent : t.sig = s /\ t.key = k
    /\ hs' = [hs EXCEPT ![h] =
                  [pc |-> "reconciling", proc |-> listener, key |-> k,
                   fp |-> None, amount |-> rows[k].amount, tx |-> s,
                   body |-> None]]
    /\ UNCHANGED <<journalVars, procVars, sent, chain, delivered>>

(* Mutant: the operator is believed without a look at the chain.           *)
ReconcileUnverified(h) ==
    /\ hs[h].pc = "reconciling"
    /\ ReconcileUnknown(hs[h].key, hs[h].tx)
    /\ AnswerWith(h)
    /\ UNCHANGED <<procVars, sent, chain, delivered>>

Reconcile(h) ==
    /\ hs[h].pc = "reconciling"
    /\ OnChain(hs[h].tx, hs[h].amount)
    /\ ReconcileUnknown(hs[h].key, hs[h].tx)
    /\ AnswerWith(h)
    /\ UNCHANGED <<procVars, sent, chain, delivered>>

ReconcileFails(h) ==
    /\ hs[h].pc = "reconciling"
    /\ AnswerWith(h)
    /\ UNCHANGED <<journalVars, procVars, sent, chain, delivered>>

-----------------------------------------------------------------------------
(* The facilitator may settle a signed payment it received, at any time,   *)
(* once: the signature identifies the transaction.                         *)
ChainSettles(t) ==
    /\ t \in sent
    /\ t.sig \notin chain
    /\ chain' = chain \cup {t.sig}
    /\ UNCHANGED <<journalVars, procVars, hs, sent, delivered>>

HandlerStep(h) ==
    \/ \E a \in Amounts : ReserveFor(h, a)
    \/ ReserveReplays(h)
    \/ PreflightFails(h)
    \/ \E a \in Amounts : Submit(h, a)
    \/ AbandonUnpaid(h)
    \/ Send(h)
    \/ PaidOutcomeLost(h)
    \/ \E s \in Signatures, b \in Bodies : PaidAnswer(h, s, b)
    \/ Settle(h)
    \/ NotVerified(h)
    \/ Reconcile(h)
    \/ ReconcileFails(h)

ClientStep(h) ==
    \E k \in Keys :
        \/ \E f \in Fingerprints : Accept(h, k, f) \/ Replay(h, k, f)
        \/ \E s \in Signatures : ReconcileAccept(h, k, s)

StartupStep(p) == Start(p) \/ RecoverRead(p) \/ RecoverWrite(p) \/ Listen(p)

Next ==
    \/ \E p \in Procs : StartupStep(p) \/ Stop(p) \/ Exit(p) \/ Crash(p)
    \/ \E h \in Handlers : ClientStep(h) \/ HandlerStep(h)
    \/ \E t \in sent : ChainSettles(t)

Spec == Init /\ [][Next]_vars

(* Every await of a handler has a timeout, so a handler always takes its   *)
(* next step.  Nothing is assumed of clients, of the operator, of whoever  *)
(* starts processes, or of the chain.                                      *)
Fairness == \A h \in Handlers : WF_vars(HandlerStep(h))

FairSpec == Spec /\ Fairness

-----------------------------------------------------------------------------
(* Safety.                                                                 *)

TypeOK ==
    /\ JournalTypeOK
    /\ proc \in [Procs -> {"down", "recovering", "up", "closing"}]
    /\ listener \in Procs \cup {None}
    /\ todo \in [Procs -> SUBSET Keys]
    /\ seen \in [Procs -> (Keys \X (Statuses \cup {"absent"})) \cup {None}]
    /\ hs \in [Handlers -> Handler]
    /\ sent \subseteq Payment
    /\ chain \subseteq Signatures
    /\ delivered \subseteq Delivery

(* No idempotency key is paid for twice: over crashes, restarts and        *)
(* concurrent calls at most one signed payment leaves for each key.        *)
PaysAtMostOnce ==
    \A t, u \in sent : t.key = u.key => t = u

(* "beforePaidRequest" writes ahead: whatever was sent had been logged as  *)
(* submitted, its reservation was never released, and its row is not in a  *)
(* state from which the key would be tried again.                          *)
SentIsWrittenAhead ==
    \A t \in sent :
        /\ Logged(t.key, "submitted")
        /\ ~Logged(t.key, "aborted")
        /\ rows[t.key].status \notin {"absent", "reserved", "aborted"}

(* What can be spent on chain, paid or still in flight, stays within the   *)
(* configured number of requests and total amount.                         *)
SpendWithinBudget ==
    /\ Cardinality(sent) <= MaxRequests
    /\ Cardinality({u \in sent \X Amounts : u[2] <= u[1].amount}) <= MaxTotal

(* A verified row names a payment that is on chain with the row's amount,  *)
(* and no other row names it.                                              *)
VerifiedIsPaid ==
    \A k \in Keys : rows[k].status \in Verified =>
        /\ OnChain(rows[k].tx, rows[k].amount)
        /\ \A j \in Keys \ {k} : rows[j].tx # rows[k].tx

(* Every paid body the application ever got for a key, first answer and    *)
(* replays, is the same body for the same request and the same payment,    *)
(* that payment is on chain, and two keys never share one.                 *)
DeliveredOncePaid ==
    \A d, e \in delivered :
        /\ d.key = e.key <=> d.tx = e.tx
        /\ d.key = e.key => d = e
        /\ d.tx \in chain

(* With one process: a call is working on every row that is unfinished     *)
(* while no recovery is due.  This needs journal writes that succeed and   *)
(* signatures that belong to the row: markSettled and markUnknown both     *)
(* fail on a signature another row holds, and the row is left submitted,   *)
(* where handleReconcile refuses it, until the next restart.               *)
UnfinishedIsOwned ==
    \A k \in Keys :
        rows[k].status \in Unfinished /\ (\E p \in Procs : proc[p] = "up") =>
            \E h \in Handlers :
                /\ hs[h].key = k
                /\ hs[h].pc \in (IF rows[k].status = "reserved"
                                 THEN {"challenge"}
                                 ELSE {"sending", "paid", "verifying"})

-----------------------------------------------------------------------------
(* Action properties.                                                      *)

(* "A process restart moves reserved and submitted rows to unknown": it    *)
(* moves no others.  (docs/application-payment-boundary.md)  This needs    *)
(* that one process at a time has the journal open.                        *)
RestartMovesOnlyUnfinished ==
    [][\A p \in Procs : RecoverWrite(p) =>
           \A k \in Keys : rows'[k] # rows[k] => rows[k].status \in Unfinished]_vars

(* And it moves all of them: whatever a crash left behind, and also a row  *)
(* left submitted because the write of its outcome failed or another row   *)
(* held its signature, is unknown (where a retry is refused and the        *)
(* operator can reconcile it) before the process takes the first call,     *)
(* even if it died several times while it recovered.                       *)
ServesOnlyRecovered ==
    [][\A p \in Procs : Listen(p) =>
           \A k \in Keys : rows[k].status \notin Unfinished]_vars

-----------------------------------------------------------------------------
(* The sidecar keeps the promise of BudgetedPayments: a key holds what its *)
(* row reserved until the reservation is released, a payment is exposed    *)
(* when it is sent, and confirmed when it is on chain.                     *)
Promise == INSTANCE BudgetedPayments WITH
    granted   <- [k \in Keys |->
                     IF k \in NeverReleased THEN rows[k].amount ELSE 0],
    used      <- {k \in Keys : rows[k].status # "absent"},
    exposed   <- sent,
    confirmed <- chain

KeepsPromise == Promise!Spec

(* To its callers, one sidecar process at a time is a PaymentService: the  *)
(* row of a key opens once, and no recovery or reconciliation takes back   *)
(* an outcome that a caller may have been told.                            *)
CallStatus(st) ==
    CASE st \in Unfinished -> "open"
      [] st = "settled_verified" -> "settled"
      [] st = "reconciled_verified" -> "reconciled"
      [] st = "aborted" -> "released"
      [] OTHER -> st

Service == INSTANCE PaymentService WITH
    PayKeys  <- Keys,
    Requests <- Fingerprints,
    calls    <- [k \in Keys |->
                    [status |-> CallStatus(rows[k].status),
                     fp     |-> rows[k].fp,
                     body   |-> IF rows[k].status = "settled_verified"
                                THEN rows[k].body ELSE None]]

ServesCalls == Service!ServiceSpec

-----------------------------------------------------------------------------
(* Liveness.                                                               *)

(* An unfinished row is classified in the end, if a sidecar is finally up  *)
(* and stays up: by its call, or by the recovery after a restart.          *)
UnfinishedIsResolved ==
    (\E p \in Procs : <>[](proc[p] = "up")) =>
        \A k \in Keys :
            (rows[k].status \in Unfinished) ~> (rows[k].status \notin Unfinished)
=============================================================================
