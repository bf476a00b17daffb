-------------------------- MODULE ApplicationGateway --------------------------
(***************************************************************************)
(* The Application's decide path: the HTTP threads of                      *)
(* src/oathcast/application_gateway.py, the workflow and router they run   *)
(* (workflow.py, application.py), the demand ledger (demand.py), and the   *)
(* payment sidecar as the PaymentService behind a Unix socket.             *)
(*                                                                         *)
(* A thread binds its key, looks for a sealed decision, creates the case,  *)
(* asks the Miners in order, projects each paid reply to the demand ledger *)
(* and to the case, and seals.  Threads of one key interleave at every     *)
(* transaction and at every wait; the gateway may die anywhere and come    *)
(* back with another registry snapshot; midnight and the forecast cutoff   *)
(* may pass anywhere.  Errors are answered by going back to "idle".        *)
(* Resolution is a step of another process on the same case database.      *)
(***************************************************************************)
EXTENDS CaseStore

CONSTANTS
    Handlers,    \* HTTP server threads
    Place,       \* the coordinates of each request
    Usable,      \* bodies with a comparable probability
    Relative,    \* Miners asked for a number of days from today
    Opens,       \* the first time at which a Miner serves the horizon
    Midnight,    \* a UTC midnight
    Cutoff,      \* the forecast cutoff of the requests' hour
    MaxTime,     \* bound on the clock
    Snapshots    \* values of OATHCAST_APPLICATION_REGISTRY_SNAPSHOT_SHA256

Times == 0..MaxTime

Places == {Place[r] : r \in Requests}

(* What a payment is bound to besides its key: coordinates and days.       *)
Fingerprints == Places \X {0, 1}

PayKeys == AppKeys \X Miners

(* A demand event is identified by its payment attempt; these are the      *)
(* fields a replay must repeat, those inside the receipt hash included.    *)
Demand == [event : Events, body : Bodies, snapshot : Snapshots]

Handler == [pc    : {"idle", "bound", "asking", "waiting", "paid",
                     "replied", "deciding"},
            event : Events \cup {None},
            miner : Miners,
            fp    : Fingerprints \cup {None},
            body  : Bodies \cup {None},
            got   : [Miners -> Bodies \cup {None}]]

Answer == [event : Events, decision : Decision]

ASSUME GatewayAssumption ==
    /\ Handlers \subseteq Stamps
    /\ Usable \subseteq Bodies
    /\ Relative \subseteq Miners
    /\ Opens \in [Miners -> Nat]
    /\ Midnight \in Nat /\ Cutoff \in Nat /\ MaxTime \in Nat
    /\ None \notin Events \cup Fingerprints \cup Demand

VARIABLES
    calls,       \* the payment service's view of each payment key
    demand,      \* demand_events, by payment attempt
    clock,       \* datetime.now()
    registry,    \* the snapshot hash of the running gateway
    hs,          \* the HTTP threads
    answers      \* decisions answered with 200

vars == <<storeVars, calls, demand, clock, registry, hs, answers>>

Service == INSTANCE PaymentService WITH
    Requests <- Fingerprints

Idle == [pc |-> "idle", event |-> None, miner |-> 1, fp |-> None,
         body |-> None, got |-> [m \in Miners |-> None]]

TypeOK ==
    /\ StoreTypeOK
    /\ calls \in [PayKeys -> Service!Call]
    /\ demand \in [PayKeys -> Demand \cup {None}]
    /\ clock \in Times
    /\ registry \in Snapshots
    /\ hs \in [Handlers -> Handler]
    /\ answers \subseteq Answer

Init ==
    /\ StoreInit
    /\ Service!ServiceInit
    /\ demand = [k \in PayKeys |-> None]
    /\ clock = 0
    /\ registry \in Snapshots
    /\ hs = [h \in Handlers |-> Idle]
    /\ answers = {}

-----------------------------------------------------------------------------
(* _payment_idempotency_key: one payment key for each Miner of a request.  *)
PayKey(h) == <<hs[h].event[1], hs[h].miner>>

(* build_params: coordinates, and for some Miners the days from today.     *)
Params(m, r, t) ==
    <<Place[r], IF m \in Relative /\ t >= Midnight THEN 1 ELSE 0>>

(* The thread's record as it goes on with its current Miner.               *)
Moved(h, pc, fp, b) ==
    hs' = [hs EXCEPT ![h] = [pc |-> pc, event |-> hs[h].event,
                             miner |-> hs[h].miner, fp |-> fp, body |-> b,
                             got |-> hs[h].got]]

(* The thread answers with an error, or with a sealed decision.            *)
Finish(h) == hs' = [hs EXCEPT ![h] = Idle]

AnswerSealed(h) ==
    /\ answers' = answers \cup
           {[event |-> hs[h].event, decision |-> cases[hs[h].event].decision]}
    /\ Finish(h)

-----------------------------------------------------------------------------
(* decide: bind the key.  A key bound to another request is refused.       *)
Bind(h, a, r) ==
    /\ hs[h].pc = "idle"
    /\ BindRequest(a, r)
    /\ hs' = [hs EXCEPT ![h] = [pc |-> "bound", event |-> <<a, r>>,
                                miner |-> 1, fp |-> None, body |-> None,
                                got |-> [m \in Miners |-> None]]]
    /\ UNCHANGED <<calls, demand, clock, registry, answers>>

(* decide: a sealed decision is answered from the store.                   *)
AnswerStored(h) ==
    /\ hs[h].pc = "bound"
    /\ cases[hs[h].event].decision # None
    /\ AnswerSealed(h)
    /\ UNCHANGED <<storeVars, calls, demand, clock, registry>>

(* decide: 422 once the cutoff has passed.                                 *)
TooLate(h) ==
    /\ hs[h].pc = "bound"
    /\ cases[hs[h].event].decision = None
    /\ clock >= Cutoff
    /\ Finish(h)
    /\ UNCHANGED <<storeVars, calls, demand, clock, registry, answers>>

(* The cutoff check is passed; workflow.decide begins.                     *)
OpenCase(h) ==
    /\ hs[h].pc = "bound"
    /\ cases[hs[h].event].decision = None
    /\ clock < Cutoff
    /\ CreateCase(hs[h].event)
    /\ Moved(h, "asking", None, None)
    /\ UNCHANGED <<calls, demand, clock, registry, answers>>

(* workflow.decide looks once more before it asks the first Miner:         *)
(* CaseStateError, answered as stored.  A thread that looked just before   *)
(* the other one sealed goes on to ask.                                    *)
SealedMeanwhile(h) ==
    /\ hs[h].pc = "asking"
    /\ hs[h].miner = 1
    /\ cases[hs[h].event].decision # None
    /\ AnswerSealed(h)
    /\ UNCHANGED <<storeVars, calls, demand, clock, registry>>

-----------------------------------------------------------------------------
(* _reply: the next Miner is asked.  Every payment error ends decide().    *)

(* validate_question: the horizon is out of the Miner's reach.             *)
HorizonRejected(h) ==
    /\ hs[h].pc = "asking"
    /\ clock < Opens[hs[h].miner]
    /\ Moved(h, "replied", None, None)
    /\ UNCHANGED <<storeVars, calls, demand, clock, registry, answers>>

(* request_with_id: the request is fixed and sent to the sidecar.          *)
Ask(h) ==
    /\ hs[h].pc = "asking"
    /\ clock >= Opens[hs[h].miner]
    /\ Moved(h, "waiting", Params(hs[h].miner, hs[h].event[2], clock), None)
    /\ UNCHANGED <<storeVars, calls, demand, clock, registry, answers>>

(* The sidecar accepts the call and reserves a payment for it.             *)
PaymentOpens(h) ==
    /\ hs[h].pc = "waiting"
    /\ Service!Open(PayKey(h), hs[h].fp)
    /\ UNCHANGED <<storeVars, demand, clock, registry, hs, answers>>

(* The sidecar goes on with a payment, whether or not anybody waits.       *)
PaymentEnds(k) ==
    /\ Service!FinishCall(k)
    /\ UNCHANGED <<storeVars, demand, clock, registry, hs, answers>>

(* Mutant: the status of the sidecar's answer is not looked at.            *)
ReceiveUnchecked(h) ==
    /\ hs[h].pc = "waiting"
    /\ calls[PayKey(h)].status \in {"settled", "unknown", "released"}
    /\ Moved(h, "paid", hs[h].fp, calls[PayKey(h)].body)
    /\ UNCHANGED <<storeVars, calls, demand, clock, registry, answers>>

(* The paid body, as the answer of this call or as a replay.               *)
Receive(h) ==
    /\ hs[h].pc = "waiting"
    /\ Service!Serves(PayKey(h), hs[h].fp)
    /\ Moved(h, "paid", hs[h].fp, calls[PayKey(h)].body)
    /\ UNCHANGED <<storeVars, calls, demand, clock, registry, answers>>

(* No paid body: no connection, refused by the boundary or the sidecar,    *)
(* the payment failed or is unknown, or the answer was lost or timed out.  *)
PaymentError(h) ==
    /\ hs[h].pc = "waiting"
    /\ Finish(h)
    /\ UNCHANGED <<storeVars, calls, demand, clock, registry, answers>>

-----------------------------------------------------------------------------
(* DemandLedger.append: one event for a payment attempt; a replay must     *)
(* agree with it.                                                          *)

Projection(h) ==
    [event |-> hs[h].event, body |-> hs[h].body, snapshot |-> registry]

(* Mutant: the latest projection replaces the stored one.                  *)
RecordDemandLatest(h) ==
    /\ hs[h].pc = "paid"
    /\ demand' = [demand EXCEPT ![PayKey(h)] = Projection(h)]
    /\ Moved(h, "replied", hs[h].fp, hs[h].body)
    /\ UNCHANGED <<storeVars, calls, clock, registry, answers>>

RecordDemand(h) ==
    /\ hs[h].pc = "paid"
    /\ demand[PayKey(h)] \in {None, Projection(h)}
    /\ demand' = [demand EXCEPT ![PayKey(h)] = Projection(h)]
    /\ Moved(h, "replied", hs[h].fp, hs[h].body)
    /\ UNCHANGED <<storeVars, calls, clock, registry, answers>>

(* Mutant: the error is logged and the reply used all the same.            *)
DemandErrorIgnored(h) ==
    /\ hs[h].pc = "paid"
    /\ Moved(h, "replied", hs[h].fp, hs[h].body)
    /\ UNCHANGED <<storeVars, calls, demand, clock, registry, answers>>

(* ApplicationProjectionError: other evidence, or the ledger cannot write. *)
DemandError(h) ==
    /\ hs[h].pc = "paid"
    /\ Finish(h)
    /\ UNCHANGED <<storeVars, calls, demand, clock, registry, answers>>

(* _project_reply, then the next Miner.  A body the adapter cannot parse   *)
(* is recorded as a failed reply.                                          *)
ProjectReply(h) ==
    /\ hs[h].pc = "replied"
    /\ \E b \in (IF hs[h].body \in Usable THEN {hs[h].body}
                 ELSE {hs[h].body, None}) :
           /\ RecordReply(hs[h].event, hs[h].miner, b)
           /\ hs' = [hs EXCEPT ![h] =
                  [pc    |-> IF hs[h].miner = NMiners THEN "deciding" ELSE "asking",
                   event |-> hs[h].event,
                   miner |-> IF hs[h].miner = NMiners THEN NMiners
                             ELSE hs[h].miner + 1,
                   fp    |-> None,
                   body  |-> None,
                   got   |-> [hs[h].got EXCEPT ![hs[h].miner] = b]]]
    /\ UNCHANGED <<calls, demand, clock, registry, answers>>

(* ApplicationProjectionError: the case database cannot write.             *)
ReplyError(h) ==
    /\ hs[h].pc = "replied"
    /\ Finish(h)
    /\ UNCHANGED <<storeVars, calls, demand, clock, registry, answers>>

-----------------------------------------------------------------------------
(* CrossMinerRouter.decide after the last Miner, and seal_decision.        *)

HasUsable(got) == \E m \in Miners : got[m] \in Usable

(* decided_at and the latencies make two threads' decisions differ.        *)
DecisionOf(h) == [got |-> hs[h].got, stamp |-> h]

(* RoutingError: no usable reply.                                          *)
NoDecision(h) ==
    /\ hs[h].pc = "deciding"
    /\ ~HasUsable(hs[h].got)
    /\ Finish(h)
    /\ UNCHANGED <<storeVars, calls, demand, clock, registry, answers>>

Seal(h) ==
    /\ hs[h].pc = "deciding"
    /\ HasUsable(hs[h].got)
    /\ SealDecision(hs[h].event, DecisionOf(h))
    /\ answers' = answers \cup {[event |-> hs[h].event, decision |-> DecisionOf(h)]}
    /\ Finish(h)
    /\ UNCHANGED <<calls, demand, clock, registry>>

(* CaseConflict: another thread sealed first.  Answered with 409 and "the  *)
(* idempotency key is bound to a different request".                       *)
SealConflict(h) ==
    /\ hs[h].pc = "deciding"
    /\ HasUsable(hs[h].got)
    /\ SealRefused(hs[h].event, DecisionOf(h))
    /\ Finish(h)
    /\ UNCHANGED <<storeVars, calls, demand, clock, registry, answers>>

-----------------------------------------------------------------------------
(* "The live decision path and the later resolution path separately": what *)
(* has an observation source resolves cases, any number of times, in a     *)
(* process of its own on the same database.                                *)
ResolverStep ==
    /\ \E e \in Events :
           \/ \E o \in ObsIds, x \in Readings :
                  RecordObservation(e, o, x) \/ ResolveObserved(e, o, x)
           \/ ResolveMissing(e)
    /\ UNCHANGED <<calls, demand, clock, registry, hs, answers>>

Tick ==
    /\ clock < MaxTime
    /\ clock' = clock + 1
    /\ UNCHANGED <<storeVars, calls, demand, registry, hs, answers>>

(* The gateway dies and is started again, with the environment it has then.*)
Restart ==
    /\ hs' = [h \in Handlers |-> Idle]
    /\ registry' \in Snapshots
    /\ UNCHANGED <<storeVars, calls, demand, clock, answers>>

HandlerStep(h) ==
    \/ AnswerStored(h) \/ TooLate(h) \/ OpenCase(h) \/ SealedMeanwhile(h)
    \/ HorizonRejected(h) \/ Ask(h) \/ PaymentOpens(h) \/ Receive(h)
    \/ PaymentError(h) \/ RecordDemand(h) \/ DemandError(h)
    \/ ProjectReply(h) \/ ReplyError(h)
    \/ NoDecision(h) \/ Seal(h) \/ SealConflict(h)

Next ==
    \/ \E h \in Handlers :
           \/ \E a \in AppKeys, r \in Requests : Bind(h, a, r)
           \/ HandlerStep(h)
    \/ \E k \in PayKeys : PaymentEnds(k)
    \/ ResolverStep
    \/ Tick
    \/ Restart

Spec == Init /\ [][Next]_vars

-----------------------------------------------------------------------------
(* An idempotency key means one request: every case, every payment and     *)
(* every demand event of a key is for the request bound to it, whatever    *)
(* other requests arrive with the key.                                     *)
KeyHasOneMeaning ==
    /\ \A e \in Events : cases[e].created => binding[e[1]] = e[2]
    /\ \A k \in PayKeys :
           /\ calls[k].status # "absent" =>
                  /\ binding[k[1]] # None
                  /\ calls[k].fp[1] = Place[binding[k[1]]]
           /\ demand[k] # None => demand[k].event = <<k[1], binding[k[1]]>>

(* A sealed decision rests on at least one usable reply, and each reply it *)
(* contains was paid for: the payment settled with this very body, the     *)
(* demand ledger has its event and the reply table its row, whichever      *)
(* thread paid and whatever crashed in between.                            *)
DecisionIsPaid ==
    \A e \in Events : cases[e].decision # None =>
        /\ HasUsable(cases[e].decision.got)
        /\ \A m \in Miners :
               LET k == <<e[1], m>>  b == cases[e].decision.got[m]
               IN b # None =>
                      /\ calls[k].status = "settled" /\ calls[k].body = b
                      /\ demand[k] # None /\ demand[k].body = b
                      /\ [event |-> e, miner |-> m, body |-> b] \in replies

(* All answers to a key are the same decision, and it is the sealed one.   *)
AnswersAgree ==
    \A x, y \in answers :
        /\ x.event[1] = y.event[1] => x = y
        /\ x.decision = cases[x.event].decision

(* A payment's demand event is never replaced, its paid body neither, and  *)
(* nothing sealed or bound changes.                                        *)
EvidenceKept ==
    [][/\ \A k \in PayKeys :
              /\ demand[k] # None => demand'[k] = demand[k]
              /\ calls[k].status = "settled" => calls'[k] = calls[k]
       /\ \A e \in Events : cases[e].decision # None =>
              cases'[e].decision = cases[e].decision]_vars

-----------------------------------------------------------------------------
(* Two statements of the repository that the code does not meet.           *)

(* "the idempotency key is bound to a different request": what the gateway *)
(* says in every 409 idempotency_conflict, that of SealConflict included.  *)
(* (src/oathcast/application_gateway.py, do_POST)                          *)
ConflictMeansOtherRequest ==
    [][\A h \in Handlers :
           SealConflict(h) => binding[hs[h].event[1]] # hs[h].event[2]]_vars

(* "A duplicate settled request replays the bounded paid body from the     *)
(* journal without a new network request": a thread that repeats a request *)
(* whose payment settled is served.  (docs/application-payment-boundary.md)*)
SettledIsReplayed ==
    \A h \in Handlers :
        hs[h].pc = "waiting" /\ calls[PayKey(h)].status = "settled" =>
            Service!Serves(PayKey(h), hs[h].fp)
=============================================================================
