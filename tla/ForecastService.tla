-------------------------- MODULE ForecastService --------------------------
(***************************************************************************)
(* The Miner's forecast requests (ForecastService.forecast,                *)
(* forecast_window and forecast_temperature_window in                      *)
(* src/oathcast/service.py, reached from do_GET) on the receipt store.     *)
(*                                                                         *)
(* A request looks its event up, checks the clock, asks one provider after *)
(* another, checks the clock again and saves the receipt; only what save() *)
(* returns is answered.  Every one of these is a step of its own, so       *)
(* requests of many threads and processes, the clock, crashes and the      *)
(* operator's work on the file interleave between them.                    *)
(*                                                                         *)
(* A question is the part of a request (ForecastContract) a receipt holds: *)
(* its contract, what it asks, its cutoff and, for a window, the policy    *)
(* the cutoff was chosen by.                                               *)
(***************************************************************************)
EXTENDS ReceiptStore, ForecastContract

CONSTANTS
    Handlers,   \* request threads, in one process or several
    Orders,     \* sequences of providers a request may be sent to
    MaxTime     \* bound on the clock

ASSUME ClockAssumption == MaxTime \in Nat

(* What a receipt's question says: only a window has a cutoff policy.      *)
Subject(q) ==
    /\ q.contract \in Contracts
    /\ q.policy \in Policies
    /\ q.cutoff \in Int
    /\ q.policy # "none" => q.contract = "window"

(* A receipt was completed before the cutoff of its own question.          *)
Timely(r) ==
    /\ {r.issued, r.completed} \subseteq Int
    /\ r.q.contract # "temperature" =>
           /\ r.issued <= r.completed
           /\ r.completed < EffectiveCutoff(r.q)

(* A receipt has these fields and no other.                                *)
Receipt(r) ==
    /\ r = [q |-> r.q, provider |-> r.provider, issued |-> r.issued,
            completed |-> r.completed]
    /\ Subject(r.q)
    /\ Timely(r)

Receipts(t) ==
    /\ t \in Seq({t[i] : i \in DOMAIN t})
    /\ \A i \in DOMAIN t : Receipt(t[i].receipt)

(* A request for a window has a policy; a receipt of an older release may  *)
(* have none.  What the file holds at first was written by some release.   *)
ASSUME ServiceAssumption ==
    /\ \A q \in Questions :
           Subject(q) /\ (q.contract = "window" => q.policy # "none")
    /\ \A t \in InitialTables : Receipts(t)

VARIABLES
    now,        \* the clock
    hs,         \* the requests in work
    attended    \* bound: an operator publishes and backs up, and requests
                \* come one at a time, for the whole behaviour

serviceVars == <<now, hs, attended>>
vars == <<storeVars, serviceVars>>

(* forecast_temperature_window compares accepted_at with the hour after    *)
(* it, so it never refuses; the two other contracts refuse at the cutoff.  *)
CutoffPassed(q) == q.contract # "temperature" /\ now >= EffectiveCutoff(q)

(* What do_GET answers for a stored row: 500, 409 or 200.                  *)
Reading(row, q) ==
    IF Tampered(row) THEN "tampered"
    ELSE IF ~Binds(row.receipt.q, q) THEN "conflict"
    ELSE "ok"

-----------------------------------------------------------------------------
Idle == [pc |-> "idle"]

Working(pc, q, left, accepted, issued, receipt) ==
    [pc |-> pc, q |-> q, left |-> left, accepted |-> accepted,
     issued |-> issued, receipt |-> receipt]

(* The status do_GET sends; 200 carries the receipt.                       *)
Done(q, status, receipt) ==
    [pc |-> "done", q |-> q, status |-> status, receipt |-> receipt]

Answer(h, status, receipt) ==
    hs' = [hs EXCEPT ![h] = Done(hs[h].q, status, receipt)]

Move(h, pc, left, issued, receipt) ==
    hs' = [hs EXCEPT ![h] = Working(pc, hs[h].q, left, hs[h].accepted,
                                    issued, receipt)]

(* A request that passed authorization, rate limit and query parsing.      *)
Accept(h, q, order) ==
    /\ hs[h] = Idle
    /\ attended => \A g \in Handlers : hs[g] = Idle
    /\ hs' = [hs EXCEPT ![h] = Working("lookup", q, order,
           IF q.contract = "temperature" THEN now ELSE None, None, None)]
    /\ UNCHANGED <<storeVars, now, attended>>

(* receipt_store.get() and the rebuilt answer.                             *)
Lookup(h) ==
    /\ hs[h].pc = "lookup"
    /\ IF Stored(hs[h].q.event)
       THEN LET row == RowOf(hs[h].q.event)
                status == Reading(row, hs[h].q)
            IN Answer(h, status, IF status = "ok" THEN row.receipt ELSE None)
       ELSE Move(h, "check", hs[h].left, None, None)
    /\ UNCHANGED <<storeVars, now, attended>>

(* The clock is read: a new forecast is refused from its cutoff on.        *)
Check(h) ==
    /\ hs[h].pc = "check"
    /\ IF CutoffPassed(hs[h].q) THEN Answer(h, "cutoff", None)
       ELSE Move(h, "ask", hs[h].left, None, None)
    /\ UNCHANGED <<storeVars, now, attended>>

(* The next provider of the order; issued_at is read before the fetch, for *)
(* a temperature request it is the time the request was accepted.          *)
AskProvider(h) ==
    /\ hs[h].pc = "ask"
    /\ IF hs[h].left = <<>> THEN Answer(h, "provider_unavailable", None)
       ELSE Move(h, "waiting", hs[h].left,
                 IF hs[h].q.contract = "temperature" THEN hs[h].accepted ELSE now,
                 None)
    /\ UNCHANGED <<storeVars, now, attended>>

(* Fetch error, bad payload, unverified semantics: the next provider.      *)
ProviderFails(h) ==
    /\ hs[h].pc = "waiting"
    /\ Move(h, "ask", Tail(hs[h].left), None, None)
    /\ UNCHANGED <<storeVars, now, attended>>

ReceiptOf(h) == [q |-> hs[h].q, provider |-> Head(hs[h].left),
                 issued |-> hs[h].issued, completed |-> now]

(* The response is complete and parsed; the clock is read again.           *)
ProviderAnswers(h) ==
    /\ hs[h].pc = "waiting"
    /\ IF CutoffPassed(hs[h].q) THEN Answer(h, "cutoff", None)
       ELSE Move(h, "persist", hs[h].left, hs[h].issued, ReceiptOf(h))
    /\ UNCHANGED <<storeVars, now, attended>>

(* _persist_*: save(), then the answer is rebuilt from what is stored.     *)
AnswerSaved(h, saved) ==
    IF saved # "stored" THEN Answer(h, saved, None)
    ELSE LET row == SavedRow(hs[h].receipt)
             status == Reading(row, hs[h].q)
         IN Answer(h, status, IF status = "ok" THEN row.receipt ELSE None)

(* Mutant: the answer is what this request fetched, not what is stored.    *)
PersistAnswersOwn(h) ==
    /\ hs[h].pc = "persist"
    /\ Save(hs[h].receipt)
    /\ IF SaveStatus(hs[h].receipt) = "stored"
       THEN Answer(h, "ok", hs[h].receipt)
       ELSE Answer(h, SaveStatus(hs[h].receipt), None)
    /\ UNCHANGED <<now, attended>>

(* Mutant: the capacity is checked before the event is looked up.          *)
PersistNeedsRoom(h) ==
    /\ hs[h].pc = "persist"
    /\ Save(hs[h].receipt)
    /\ AnswerSaved(h, IF Accepting THEN SaveStatus(hs[h].receipt) ELSE "full")
    /\ UNCHANGED <<now, attended>>

Persist(h) ==
    /\ hs[h].pc = "persist"
    /\ Save(hs[h].receipt)
    /\ AnswerSaved(h, SaveStatus(hs[h].receipt))
    /\ UNCHANGED <<now, attended>>

(* A store that cannot be read or written ends the request with 503; no    *)
(* other provider is asked and nothing is stored.                          *)
StoreFails(h) ==
    /\ hs[h].pc \in {"lookup", "persist"}
    /\ Answer(h, "store_unavailable", None)
    /\ UNCHANGED <<storeVars, now, attended>>

Finish(h) ==
    /\ hs[h].pc = "done"
    /\ hs' = [hs EXCEPT ![h] = Idle]
    /\ UNCHANGED <<storeVars, now, attended>>

(* The process ends; the requests in work are lost.                        *)
Restart ==
    /\ hs # [h \in Handlers |-> Idle]
    /\ hs' = [h \in Handlers |-> Idle]
    /\ UNCHANGED <<storeVars, now, attended>>

Tick ==
    /\ now < MaxTime
    /\ now' = now + 1
    /\ UNCHANGED <<storeVars, hs, attended>>

(* Work on the file.  Edits happen to an unattended service too.           *)
FileStep ==
    /\ \/ attended /\ OperatorStep
       \/ \E i \in 1..Len(table) : Edit(i) \/ Forge(i)
    /\ UNCHANGED serviceVars

HandlerStep(h) ==
    \/ Lookup(h)
    \/ Check(h)
    \/ AskProvider(h)
    \/ ProviderFails(h)
    \/ ProviderAnswers(h)
    \/ Persist(h)
    \/ StoreFails(h)
    \/ Finish(h)

Next ==
    \/ \E h \in Handlers :
           \/ HandlerStep(h)
           \/ \E q \in Questions, order \in Orders : Accept(h, q, order)
    \/ Restart
    \/ Tick
    \/ FileStep

Init ==
    /\ StoreInit
    /\ now = 0
    /\ hs = [h \in Handlers |-> Idle]
    /\ attended \in BOOLEAN

Spec == Init /\ [][Next]_vars

-----------------------------------------------------------------------------
Answered(h) == hs[h].pc = "done" /\ hs[h].status = "ok"

(* All answers for an event are one receipt, the one in the store, for any *)
(* interleaving of lookups, fetches, saves and restarts: the receipt is    *)
(* durable before it is answered and a request that fetched another        *)
(* forecast in the meantime answers the stored one.  A file edit that      *)
(* leaves the digest alone is never answered; one that forges the digest   *)
(* or replaces the file is out of reach of the service (AnchorHolds).      *)
OneAnswerPerEvent ==
    \A h \in Handlers :
        Answered(h) /\ hs[h].q.event \notin repaired =>
            /\ Stored(hs[h].q.event)
            /\ \/ RowOf(hs[h].q.event).receipt = hs[h].receipt
               \/ Tampered(RowOf(hs[h].q.event))

(* A forecast is answered only if the provider's response was complete     *)
(* before the cutoff of the question that is answered, however late the    *)
(* answer is and under whichever policy the receipt was issued.            *)
AnsweredInTime ==
    \A h \in Handlers :
        /\ Answered(h)
        /\ hs[h].q.event \notin repaired
        /\ hs[h].q.contract # "temperature"
        => /\ hs[h].receipt.issued <= hs[h].receipt.completed
           /\ hs[h].receipt.completed < EffectiveCutoff(hs[h].q)

Answers(h, status) ==
    hs[h].pc \in {"lookup", "persist"} /\ hs'[h] = Done(hs[h].q, status, None)

(* Requests that race for the last rows of the store never pass max_rows   *)
(* (a file that was longer at first only does not grow), and a replay is   *)
(* never refused: 507 goes only to a request whose event is not stored     *)
(* while the store is full, and 409 only when the event is stored with     *)
(* another question, at the moment the refusal is decided.                 *)
RefusalsAreDue ==
    [][/\ Len(table') <= MaxRows \/ Len(table') <= Len(table)
       /\ \A h \in Handlers :
           /\ Answers(h, "full") => ~Stored(hs[h].q.event) /\ Len(table) >= MaxRows
           /\ Answers(h, "conflict") =>
                  /\ Stored(hs[h].q.event)
                  /\ RowOf(hs[h].q.event).receipt.q # hs[h].q]_vars

-----------------------------------------------------------------------------
(* A statement of the repository that the code does not meet.              *)

(* "New implicit/explicit policy mismatches are rejected by the receipt    *)
(* binding helper": a window is not answered from a receipt that was       *)
(* issued under the other policy.  Receipts of an older release, which     *)
(* name none, are exempt.  (src/oathcast/service.py, forecast_window)      *)
MismatchIsRejected ==
    \A h \in Handlers :
        Answered(h) /\ hs[h].q.event \notin repaired =>
            {hs[h].q.policy, hs[h].receipt.q.policy} # {"implicit", "explicit"}
=============================================================================
