------------------------ MODULE PaymentSidecarProofs ------------------------
(***************************************************************************)
(* Theorems about the payment sidecar for every number of processes,       *)
(* handlers, keys and signatures and every budget, whether or not journal  *)
(* writes can fail and evidence can be misattributed: types first, then    *)
(* the safety invariant, the promise the sidecar keeps, and what one       *)
(* process owes to the rows it left unfinished.                            *)
(***************************************************************************)
EXTENDS PaymentSidecar, PaymentJournalProofs

(* What a handler carries at each phase.                                   *)
HandlerOK(h) ==
    /\ hs[h] \in Handler
    /\ hs[h].pc # "idle" => hs[h].key \in Keys
    /\ hs[h].pc \in {"preflight", "challenge", "sending", "paid", "verifying"} =>
           hs[h].fp \in Fingerprints
    /\ hs[h].pc \in {"challenge", "sending", "paid", "verifying"} =>
           hs[h].amount \in Amounts
    /\ hs[h].pc \in {"paid", "verifying", "reconciling"} =>
           hs[h].tx \in Signatures
    /\ hs[h].pc = "verifying" => hs[h].body \in Bodies

HandlersOK ==
    /\ hs \in [Handlers -> Handler]
    /\ \A h \in Handlers : HandlerOK(h)

(* Recovery visits existing rows only.                                     *)
RecoveryOK ==
    \A p \in Procs :
        /\ \A k \in todo[p] : rows[k].status # "absent"
        /\ seen[p] # None => seen[p] \in Keys \X Statuses

TypeInv ==
    /\ TypeOK
    /\ HandlersOK
    /\ RecoveryOK

-----------------------------------------------------------------------------
(* Every step of the sidecar is a step of the journal or leaves it alone.  *)
LEMMA StepIsTransition ==
    ASSUME TypeInv, Next
    PROVE  [JournalNext]_journalVars
<1> USE DEF TypeInv, HandlersOK
<1>1. CASE \E p \in Procs : StartupStep(p) \/ Stop(p) \/ Exit(p) \/ Crash(p)
  <2>1. PICK p \in Procs : StartupStep(p) \/ Stop(p) \/ Exit(p) \/ Crash(p)
    BY <1>1
  <2>2. CASE RecoverWrite(p)
    <3>1. seen[p][1] \in Keys /\ seen[p][2] \in Statuses
      BY <2>2 DEF RecoverWrite, RecoveryOK
    <3> QED
      BY <2>2, <3>1 DEF RecoverWrite, JournalNext
  <2>3. CASE ~RecoverWrite(p)
    BY <2>1, <2>3 DEF StartupStep, Start, RecoverRead, Listen, Stop, Exit, Crash
  <2> QED
    BY <2>2, <2>3
<1>2. CASE \E h \in Handlers : ClientStep(h)
  BY <1>2 DEF ClientStep, Accept, Replay, ReconcileAccept
<1>3. CASE \E h \in Handlers : HandlerStep(h)
  <2>1. PICK h \in Handlers : HandlerStep(h)
    BY <1>3
  <2>2. HandlerOK(h)
    OBVIOUS
  <2>3. CASE \E a \in Amounts : ReserveFor(h, a)
    BY <2>2, <2>3 DEF ReserveFor, HandlerOK, JournalNext
  <2>4. CASE \E a \in Amounts : Submit(h, a)
    BY <2>2, <2>4 DEF Submit, HandlerOK, JournalNext
  <2>5. CASE AbandonUnpaid(h)
    BY <2>2, <2>5 DEF AbandonUnpaid, HandlerOK, JournalNext
  <2>6. CASE PaidOutcomeLost(h)
    BY <2>2, <2>6 DEF PaidOutcomeLost, MarkUnknownIfPossible, HandlerOK,
                      JournalNext
  <2>7. CASE Settle(h)
    BY <2>2, <2>7 DEF Settle, MarkUnknownIfPossible, HandlerOK, JournalNext
  <2>8. CASE NotVerified(h)
    BY <2>2, <2>8 DEF NotVerified, MarkUnknownIfPossible, HandlerOK, JournalNext
  <2>9. CASE Reconcile(h)
    BY <2>2, <2>9 DEF Reconcile, HandlerOK, JournalNext
  <2>10. CASE \/ ReserveReplays(h) \/ PreflightFails(h) \/ Send(h)
              \/ \E s \in Signatures, b \in Bodies : PaidAnswer(h, s, b)
              \/ ReconcileFails(h)
    BY <2>10 DEF ReserveReplays, PreflightFails, Send, PaidAnswer, ReconcileFails
  <2> QED
    BY <2>1, <2>3, <2>4, <2>5, <2>6, <2>7, <2>8, <2>9, <2>10 DEF HandlerStep
<1>4. CASE \E t \in sent : ChainSettles(t)
  BY <1>4 DEF ChainSettles
<1> QED
  BY <1>1, <1>2, <1>3, <1>4 DEF Next

-----------------------------------------------------------------------------
(* Type correctness.                                                       *)

LEMMA TypeInit ==
    ASSUME Init
    PROVE  TypeInv
<1>1. JournalTypeOK
  BY JournalInvInit DEF Init, JournalInv
<1>2. Idle \in Handler
  BY BudgetAssumption DEF Idle, Handler, Phases
<1> QED
  BY <1>1, <1>2 DEF Init, TypeInv, TypeOK, HandlersOK, HandlerOK, RecoveryOK,
     Idle

(* The processes' variables keep their types.                              *)
LEMMA ProcessTypes ==
    ASSUME TypeInv, NEW p \in Procs,
           StartupStep(p) \/ Stop(p) \/ Exit(p) \/ Crash(p)
    PROVE  /\ proc' \in [Procs -> {"down", "recovering", "up", "closing"}]
           /\ listener' \in Procs \cup {None}
           /\ todo' \in [Procs -> SUBSET Keys]
           /\ seen' \in [Procs -> (Keys \X (Statuses \cup {"absent"})) \cup {None}]
           /\ UNCHANGED <<sent, chain, delivered>>
<1> USE DEF TypeInv, TypeOK
<1>1. CASE Start(p)
  BY <1>1 DEF Start
<1>2. CASE RecoverRead(p)
  <2>1. PICK k \in todo[p] :
          /\ seen' = [seen EXCEPT ![p] = <<k, rows[k].status>>]
          /\ todo' = [todo EXCEPT ![p] = @ \ {k}]
    BY <1>2 DEF RecoverRead
  <2>2. k \in Keys /\ rows[k].status \in Statuses \cup {"absent"}
    BY DEF JournalTypeOK, Row
  <2> QED
    BY <1>2, <2>1, <2>2 DEF RecoverRead
<1>3. CASE RecoverWrite(p)
  BY <1>3 DEF RecoverWrite
<1>4. CASE Listen(p)
  BY <1>4 DEF Listen
<1>5. CASE Stop(p)
  BY <1>5 DEF Stop
<1>6. CASE Exit(p)
  BY <1>6 DEF Exit
<1>7. CASE Crash(p)
  BY <1>7 DEF Crash
<1> QED
  BY <1>1, <1>2, <1>3, <1>4, <1>5, <1>6, <1>7 DEF StartupStep

(* Recovery keeps to existing rows.                                        *)
LEMMA RecoveryTypes ==
    ASSUME TypeInv, JournalInv, Next
    PROVE  RecoveryOK'
<1> USE DEF TypeInv, TypeOK, RecoveryOK
<1>1. \A k \in Keys : rows[k].status # "absent" => rows'[k].status # "absent"
  BY StepIsTransition, RowsKept DEF journalVars, JournalInv
<1>2. CASE \E p \in Procs : StartupStep(p) \/ Stop(p) \/ Exit(p) \/ Crash(p)
  <2>1. PICK p \in Procs : StartupStep(p) \/ Stop(p) \/ Exit(p) \/ Crash(p)
    BY <1>2
  <2>2. CASE Start(p)
    BY <2>2 DEF Start, journalVars, Unfinished
  <2>3. CASE RecoverRead(p)
    <3>1. PICK k \in todo[p] :
            /\ seen' = [seen EXCEPT ![p] = <<k, rows[k].status>>]
            /\ todo' = [todo EXCEPT ![p] = @ \ {k}]
      BY <2>3 DEF RecoverRead
    <3>2. k \in Keys /\ rows[k].status \in Statuses
      BY DEF JournalTypeOK, Row
    <3> QED
      BY <1>1, <2>3, <3>1, <3>2 DEF RecoverRead
  <2>4. CASE RecoverWrite(p)
    BY <1>1, <2>4 DEF RecoverWrite
  <2>5. CASE Listen(p) \/ Stop(p) \/ Exit(p)
    BY <1>1, <2>5 DEF Listen, Stop, Exit
  <2>6. CASE Crash(p)
    BY <1>1, <2>6 DEF Crash
  <2> QED
    BY <2>1, <2>2, <2>3, <2>4, <2>5, <2>6 DEF StartupStep
<1>3. CASE UNCHANGED <<todo, seen>>
  BY <1>1, <1>3
<1>4. CASE \E h \in Handlers : ClientStep(h) \/ HandlerStep(h)
  BY <1>3, <1>4 DEF procVars, ClientStep, Accept, Replay, ReconcileAccept,
     HandlerStep, ReserveFor, ReserveReplays, PreflightFails, Submit,
     AbandonUnpaid, Send, PaidOutcomeLost, PaidAnswer, Settle, NotVerified,
     Reconcile, ReconcileFails
<1>5. CASE \E t \in sent : ChainSettles(t)
  BY <1>3, <1>5 DEF procVars, ChainSettles
<1> QED
  BY <1>2, <1>4, <1>5 DEF Next

(* Every call carries what its phase needs.                                *)
LEMMA HandlerTypes ==
    ASSUME TypeInv, JournalInv, Next
    PROVE  HandlersOK'
<1> USE DEF TypeInv, TypeOK, HandlersOK
<1>2. Idle \in Handler
  BY BudgetAssumption DEF Idle, Handler, Phases
<1>3. CASE UNCHANGED hs
  BY <1>3 DEF HandlerOK
<1>4. ASSUME NEW h \in Handlers, hs' = [hs EXCEPT ![h] = Idle]
      PROVE  HandlersOK'
  BY <1>2, <1>4 DEF HandlerOK, Idle
<1>5. ASSUME NEW p \in Procs, StartupStep(p) \/ Stop(p) \/ Exit(p)
      PROVE  UNCHANGED hs
  BY <1>5 DEF StartupStep, Start, RecoverRead, RecoverWrite, Listen, Stop, Exit
<1>6. ASSUME NEW p \in Procs, Crash(p)
      PROVE  HandlersOK'
  BY <1>2, <1>6 DEF Crash, HandlerOK, Idle
<1>7. ASSUME NEW h \in Handlers, ClientStep(h)
      PROVE  HandlersOK'
  <2>1. PICK k \in Keys :
          \/ \E f \in Fingerprints : Accept(h, k, f) \/ Replay(h, k, f)
          \/ \E s \in Signatures : ReconcileAccept(h, k, s)
    BY <1>7 DEF ClientStep
  <2>2. listener # None => listener \in Procs
    OBVIOUS
  <2>3. CASE \E f \in Fingerprints : Accept(h, k, f)
    BY <2>2, <2>3, BudgetAssumption DEF Accept, HandlerOK, Handler, Phases
  <2>4. CASE \E f \in Fingerprints : Replay(h, k, f)
    BY <1>3, <2>4 DEF Replay
  <2>5. CASE \E s \in Signatures : ReconcileAccept(h, k, s)
    <3>1. PICK s \in Signatures : ReconcileAccept(h, k, s)
      BY <2>5
    <3>2. rows[k].amount \in 0..MaxAmount
      BY DEF JournalTypeOK, Row
    <3> QED
      BY <2>2, <3>1, <3>2 DEF ReconcileAccept, HandlerOK, Handler, Phases
  <2> QED
    BY <2>1, <2>3, <2>4, <2>5
<1>8. ASSUME NEW h \in Handlers, HandlerStep(h)
      PROVE  HandlersOK'
  <2>1. HandlerOK(h)
    OBVIOUS
  <2>2. \A a \in Amounts : a \in 0..MaxAmount
    BY BudgetAssumption DEF Amounts
  <2>3. CASE \E a \in Amounts : ReserveFor(h, a)
    BY <2>1, <2>2, <2>3 DEF ReserveFor, Moved, HandlerOK, Handler, Phases
  <2>4. CASE \E a \in Amounts : Submit(h, a)
    BY <2>1, <2>2, <2>4 DEF Submit, Moved, HandlerOK, Handler, Phases
  <2>5. CASE Send(h)
    BY <2>1, <2>5 DEF Send, Moved, HandlerOK, Handler, Phases
  <2>6. CASE \E s \in Signatures, b \in Bodies : PaidAnswer(h, s, b)
    BY <2>1, <2>6 DEF PaidAnswer, Moved, HandlerOK, Handler, Phases
  <2>7. CASE \/ ReserveReplays(h) \/ PreflightFails(h) \/ AbandonUnpaid(h)
             \/ PaidOutcomeLost(h) \/ Settle(h) \/ NotVerified(h)
             \/ Reconcile(h) \/ ReconcileFails(h)
    BY <1>4, <2>7 DEF ReserveReplays, PreflightFails, AbandonUnpaid,
       PaidOutcomeLost, Settle, NotVerified, Reconcile, ReconcileFails,
       AnswerWith
  <2> QED
    BY <1>8, <2>3, <2>4, <2>5, <2>6, <2>7 DEF HandlerStep
<1>9. CASE \E t \in sent : ChainSettles(t)
  BY <1>3, <1>9 DEF ChainSettles
<1> QED
  BY <1>3, <1>5, <1>6, <1>7, <1>8, <1>9 DEF Next

(* What left the process keeps its type.                                   *)
LEMMA OutputTypes ==
    ASSUME TypeInv, JournalInv, Next
    PROVE  sent' \subseteq Payment /\ chain' \subseteq Signatures
           /\ delivered' \subseteq Delivery
<1> USE DEF TypeInv, TypeOK, HandlersOK
<1>1. CASE UNCHANGED <<sent, chain, delivered>>
  BY <1>1
<1>2. CASE \E p \in Procs : StartupStep(p) \/ Stop(p) \/ Exit(p) \/ Crash(p)
  BY <1>1, <1>2, ProcessTypes
<1>3. ASSUME NEW k \in Keys, NEW f, Replayable(k, f)
      PROVE  StoredReply(k) \in Delivery
  BY <1>3 DEF Replayable, StoredReply, Delivery, JournalInv, RowsFilled
<1>4. ASSUME NEW h \in Handlers, ClientStep(h)
      PROVE  sent' \subseteq Payment /\ chain' \subseteq Signatures
             /\ delivered' \subseteq Delivery
  BY <1>3, <1>4 DEF ClientStep, Accept, Replay, ReconcileAccept
<1>5. ASSUME NEW h \in Handlers, HandlerStep(h)
      PROVE  sent' \subseteq Payment /\ chain' \subseteq Signatures
             /\ delivered' \subseteq Delivery
  <2>1. HandlerOK(h)
    OBVIOUS
  <2>2. CASE ReserveReplays(h)
    BY <1>3, <2>1, <2>2 DEF ReserveReplays, HandlerOK
  <2>3. CASE Send(h)
    BY <2>1, <2>3 DEF Send, HandlerOK, Payment
  <2>4. CASE Settle(h)
    BY <2>1, <2>4 DEF Settle, HandlerOK, Delivery
  <2>5. CASE \/ \E a \in Amounts : ReserveFor(h, a) \/ Submit(h, a)
             \/ PreflightFails(h) \/ AbandonUnpaid(h) \/ PaidOutcomeLost(h)
             \/ \E s \in Signatures, b \in Bodies : PaidAnswer(h, s, b)
             \/ NotVerified(h) \/ Reconcile(h) \/ ReconcileFails(h)
    BY <1>1, <2>5 DEF ReserveFor, Submit, PreflightFails, AbandonUnpaid,
       PaidOutcomeLost, PaidAnswer, NotVerified, Reconcile, ReconcileFails
  <2> QED
    BY <1>5, <2>2, <2>3, <2>4, <2>5 DEF HandlerStep
<1>6. CASE \E t \in sent : ChainSettles(t)
  BY <1>6 DEF ChainSettles, Payment
<1> QED
  BY <1>2, <1>4, <1>5, <1>6 DEF Next

LEMMA TypeStep ==
    ASSUME TypeInv, JournalInv, [Next]_vars
    PROVE  TypeInv' /\ JournalInv'
<1>1. CASE Next
  <2>1. JournalInv'
    BY <1>1, StepIsTransition, JournalInvStep
  <2>2. /\ proc' \in [Procs -> {"down", "recovering", "up", "closing"}]
        /\ listener' \in Procs \cup {None}
        /\ todo' \in [Procs -> SUBSET Keys]
        /\ seen' \in [Procs -> (Keys \X (Statuses \cup {"absent"})) \cup {None}]
    <3>1. CASE UNCHANGED procVars
      BY <3>1 DEF procVars, TypeInv, TypeOK
    <3>2. CASE ~UNCHANGED procVars
      BY <1>1, <3>2, ProcessTypes DEF procVars, Next, ClientStep, Accept, Replay,
         ReconcileAccept, HandlerStep, ReserveFor, ReserveReplays,
         PreflightFails, Submit, AbandonUnpaid, Send, PaidOutcomeLost,
         PaidAnswer, Settle, NotVerified, Reconcile, ReconcileFails,
         ChainSettles
    <3> QED
      BY <3>1, <3>2
  <2>3. HandlersOK'
    BY <1>1, HandlerTypes
  <2> QED
    BY <1>1, <2>1, <2>2, <2>3, OutputTypes, RecoveryTypes
       DEF TypeInv, TypeOK, HandlersOK, JournalInv
<1>2. CASE UNCHANGED vars
  <2>1. UNCHANGED journalVars
    BY <1>2 DEF vars, journalVars
  <2> QED
    BY <1>2, <2>1, JournalInvStep DEF vars, TypeInv, TypeOK, HandlersOK,
       HandlerOK, RecoveryOK, JournalTypeOK
<1> QED
  BY <1>1, <1>2

LEMMA TypeInvariant == Spec => [](TypeInv /\ JournalInv)
<1>1. Init => TypeInv /\ JournalInv
  BY TypeInit, JournalInvInit DEF Init
<1>2. TypeInv /\ JournalInv /\ [Next]_vars => (TypeInv /\ JournalInv)'
  BY TypeStep
<1> QED
  BY <1>1, <1>2, PTL DEF Spec

(* application-sidecar.ts: the variables of journal, processes, handlers   *)
(* and environment keep their types.                                       *)
THEOREM TypeCorrect == Spec => []TypeOK
<1>1. TypeInv => TypeOK
  BY DEF TypeInv
<1> QED
  BY <1>1, TypeInvariant, PTL

-----------------------------------------------------------------------------
(***************************************************************************)
(* The sidecar's safety: one payment for each key, written ahead, within   *)
(* the budget, with evidence that stays what it was.                       *)
(*                                                                         *)
(* The argument.  A row that exists keeps its binding, so a call that got  *)
(* past reserve() and the row it works on agree (BoundInv).  markSubmitted *)
(* succeeds once for a key, so a key has one sender at most, and a sender  *)
(* none who sent before it (SenderInv); what was sent is thereby unique    *)
(* (SentInv).  A row that was ever settled keeps its evidence, also when a *)
(* late recovery moves it to unknown, because a reconciliation must name   *)
(* the transaction that is recorded (SettledInv, ReconcilerInv).           *)
(***************************************************************************)
Executing == {"challenge", "sending", "paid", "verifying"}

BoundOK(h) ==
    /\ hs[h].pc \in Executing \cup {"reconciling"} =>
           /\ rows[hs[h].key].status # "absent"
           /\ rows[hs[h].key].amount = hs[h].amount
    /\ hs[h].pc \in Executing => rows[hs[h].key].fp = hs[h].fp

BoundInv == \A h \in Handlers : BoundOK(h)

Sending(h) == hs[h].pc = "sending"

SenderOK(h) ==
    Sending(h) =>
        /\ Logged(hs[h].key, "submitted")
        /\ \A t \in sent : t.key # hs[h].key
        /\ \A g \in Handlers \ {h} : Sending(g) => hs[g].key # hs[h].key

SenderInv == \A h \in Handlers : SenderOK(h)

SentInv ==
    /\ \A t \in sent : /\ Logged(t.key, "submitted")
                       /\ rows[t.key].amount = t.amount
    /\ \A t, u \in sent : t.key = u.key \/ t.sig = u.sig => t = u
    /\ \A s \in chain : \E t \in sent : t.sig = s

EverSettled(k) == Logged(k, "settled_verified")

SettledInv ==
    \A k \in Keys : EverSettled(k) =>
        /\ rows[k].status \in {"settled_verified", "unknown", "reconciled_verified"}
        /\ rows[k].tx \in Signatures

ReconcilerOK(h) ==
    hs[h].pc = "reconciling" =>
        /\ Logged(hs[h].key, "unknown") \/ Logged(hs[h].key, "recovered_unknown")
        /\ EverSettled(hs[h].key) => hs[h].tx = rows[hs[h].key].tx

ReconcilerInv == \A h \in Handlers : ReconcilerOK(h)

PaidInv ==
    \A d \in delivered :
        /\ EverSettled(d.key)
        /\ rows[d.key].fp = d.fp
        /\ rows[d.key].tx = d.tx
        /\ rows[d.key].body = d.body
        /\ d.tx \in chain

SafetyInv ==
    /\ TypeInv /\ JournalInv
    /\ BoundInv /\ SenderInv /\ SentInv
    /\ SettledInv /\ ReconcilerInv /\ VerifiedIsPaid /\ PaidInv

-----------------------------------------------------------------------------
(* What a step can do to one call.                                         *)
LEMMA HandlerMoves ==
    ASSUME TypeInv, Next, NEW h \in Handlers
    PROVE  \/ hs'[h] = hs[h]
           \/ hs'[h].pc \in {"idle", "preflight"}
           \/ \E a \in Amounts : ReserveFor(h, a) \/ Submit(h, a)
           \/ Send(h)
           \/ \E s \in Signatures, b \in Bodies : PaidAnswer(h, s, b)
           \/ \E k \in Keys, s \in Signatures : ReconcileAccept(h, k, s)
<1> USE DEF TypeInv, TypeOK, HandlersOK
<1>1. CASE UNCHANGED hs
  BY <1>1
<1>2. CASE \E p \in Procs : StartupStep(p) \/ Stop(p) \/ Exit(p)
  BY <1>1, <1>2 DEF StartupStep, Start, RecoverRead, RecoverWrite, Listen,
                    Stop, Exit
<1>3. CASE \E p \in Procs : Crash(p)
  BY <1>3 DEF Crash, Idle
<1>4. ASSUME NEW g \in Handlers, hs' = [hs EXCEPT ![g] = Idle]
      PROVE  hs'[h] = hs[h] \/ hs'[h].pc = "idle"
  BY <1>4 DEF Idle
<1>5. ASSUME NEW g \in Handlers, ClientStep(g)
      PROVE  \/ hs'[h] = hs[h] \/ hs'[h].pc = "preflight"
             \/ \E k \in Keys, s \in Signatures : ReconcileAccept(h, k, s)
  <2>1. CASE g = h
    BY <1>5, <2>1 DEF ClientStep, Accept, Replay
  <2>2. CASE g # h
    BY <1>5, <2>2 DEF ClientStep, Accept, Replay, ReconcileAccept
  <2> QED
    BY <2>1, <2>2
<1>6. ASSUME NEW g \in Handlers, HandlerStep(g)
      PROVE  \/ hs'[h] = hs[h] \/ hs'[h].pc = "idle"
             \/ \E a \in Amounts : ReserveFor(h, a) \/ Submit(h, a)
             \/ Send(h)
             \/ \E s \in Signatures, b \in Bodies : PaidAnswer(h, s, b)
  <2>1. CASE \/ ReserveReplays(g) \/ PreflightFails(g) \/ AbandonUnpaid(g)
             \/ PaidOutcomeLost(g) \/ Settle(g) \/ NotVerified(g)
             \/ Reconcile(g) \/ ReconcileFails(g)
    BY <1>4, <2>1 DEF ReserveReplays, PreflightFails, AbandonUnpaid,
       PaidOutcomeLost, Settle, NotVerified, Reconcile, ReconcileFails,
       AnswerWith
  <2>2. CASE g # h /\ (\/ \E a \in Amounts : ReserveFor(g, a) \/ Submit(g, a)
                       \/ Send(g)
                       \/ \E s \in Signatures, b \in Bodies : PaidAnswer(g, s, b))
    BY <2>2 DEF ReserveFor, Submit, Send, PaidAnswer, Moved
  <2> QED
    BY <1>6, <2>1, <2>2 DEF HandlerStep
<1>7. CASE \E t \in sent : ChainSettles(t)
  BY <1>1, <1>7 DEF ChainSettles
<1> QED
  BY <1>2, <1>3, <1>5, <1>6, <1>7 DEF Next

(* A journal step, or none, keeps rows and log.                            *)
LEMMA StepKeeps ==
    ASSUME TypeInv, Next
    PROVE  /\ events \subseteq events'
           /\ \A k \in Keys : rows[k].status # "absent" =>
                  /\ rows'[k].status # "absent"
                  /\ rows'[k].fp = rows[k].fp
                  /\ rows'[k].amount = rows[k].amount
<1>1. CASE JournalNext
  BY <1>1, RowsKept DEF TypeInv, TypeOK
<1>2. CASE UNCHANGED journalVars
  BY <1>2 DEF journalVars
<1> QED
  BY <1>1, <1>2, StepIsTransition

-----------------------------------------------------------------------------
(* A call past reserve() and its row agree.                                *)
LEMMA BoundStep ==
    ASSUME TypeInv, JournalInv, BoundInv, Next
    PROVE  BoundInv'
<1> SUFFICES ASSUME NEW h \in Handlers PROVE BoundOK(h)'
  BY DEF BoundInv
<1> USE DEF Executing
<1>1. HandlerOK(h) /\ BoundOK(h) /\ hs \in [Handlers -> Handler]
  BY DEF TypeInv, HandlersOK, BoundInv
<1>2. CASE hs'[h] = hs[h]
  BY <1>1, <1>2, StepKeeps DEF BoundOK, HandlerOK
<1>3. CASE hs'[h].pc \in {"idle", "preflight"}
  BY <1>3 DEF BoundOK
<1>4. CASE \E a \in Amounts : ReserveFor(h, a)
  <2>1. PICK a \in Amounts : ReserveFor(h, a)
    BY <1>4
  <2>2. hs[h].key \in Keys /\ hs'[h].key = hs[h].key /\ hs'[h].amount = a
        /\ hs'[h].fp = hs[h].fp /\ hs'[h].pc = "challenge"
    BY <1>1, <2>1 DEF ReserveFor, Moved, HandlerOK
  <2>3. rows'[hs[h].key] = [status |-> "reserved", fp |-> hs[h].fp,
                            amount |-> a, tx |-> None, body |-> None]
    BY <2>1, <2>2, CommitEffect DEF ReserveFor, Reserve, TypeInv, TypeOK
  <2> QED
    BY <2>2, <2>3 DEF BoundOK
<1>5. CASE \E a \in Amounts : Submit(h, a)
  <2>1. PICK a \in Amounts : Submit(h, a)
    BY <1>5
  <2>2. /\ hs[h].pc = "challenge" /\ hs[h].key \in Keys
        /\ hs'[h].key = hs[h].key /\ hs'[h].amount = hs[h].amount
        /\ hs'[h].fp = hs[h].fp
    BY <1>1, <2>1 DEF Submit, ChallengeBound, Moved, HandlerOK
  <2> QED
    BY <1>1, <2>2, StepKeeps DEF BoundOK
<1>6. CASE Send(h)
  BY <1>1, <1>6, StepKeeps DEF Send, Moved, BoundOK, HandlerOK
<1>7. CASE \E s \in Signatures, b \in Bodies : PaidAnswer(h, s, b)
  BY <1>1, <1>7, StepKeeps DEF PaidAnswer, Moved, BoundOK, HandlerOK
<1>8. CASE \E k \in Keys, s \in Signatures : ReconcileAccept(h, k, s)
  BY <1>1, <1>8, StepKeeps DEF ReconcileAccept, BoundOK
<1> QED
  BY <1>2, <1>3, <1>4, <1>5, <1>6, <1>7, <1>8, HandlerMoves

(* Nothing but Send adds a payment.                                        *)
LEMMA OnlySendSends ==
    ASSUME Next
    PROVE  UNCHANGED sent \/ \E h \in Handlers : Send(h)
  BY DEF Next, StartupStep, Start, RecoverRead, RecoverWrite, Listen, Stop,
     Exit, Crash, ClientStep, Accept, Replay, ReconcileAccept, HandlerStep,
     ReserveFor, ReserveReplays, PreflightFails, Submit, AbandonUnpaid,
     PaidOutcomeLost, PaidAnswer, Settle, NotVerified, Reconcile,
     ReconcileFails, ChainSettles

(* A key has one sender, before whom nothing was sent for it.              *)
LEMMA SenderStep ==
    ASSUME TypeInv, JournalInv, SenderInv, SentInv, Next
    PROVE  SenderInv'
<1>1. hs \in [Handlers -> Handler] /\ \A h \in Handlers : HandlerOK(h) /\ SenderOK(h)
  BY DEF TypeInv, HandlersOK, SenderInv
<1>2. events \subseteq events'
  BY StepKeeps
<1>3. CASE \E h \in Handlers, a \in Amounts : Submit(h, a)
  <2>1. PICK h \in Handlers, a \in Amounts : Submit(h, a)
    BY <1>3
  <2>2. hs[h].key \in Keys /\ rows[hs[h].key].status = "reserved"
    BY <1>1, <2>1 DEF Submit, MarkSubmitted, HandlerOK
  <2>3. ~Logged(hs[h].key, "submitted")
    BY <2>2 DEF JournalInv, StageInv
  <2>4. /\ \A t \in sent : t.key # hs[h].key
        /\ \A g \in Handlers : Sending(g) => hs[g].key # hs[h].key
    BY <1>1, <2>3 DEF SentInv, SenderOK
  <2>5. <<hs[h].key, "submitted">> \in events'
    BY <2>1 DEF Submit, MarkSubmitted, Commit
  <2>6. /\ hs'[h].key = hs[h].key
        /\ \A g \in Handlers \ {h} : hs'[g] = hs[g]
        /\ UNCHANGED sent
    BY <1>1, <2>1 DEF Submit, Moved
  <2>7. ASSUME NEW g \in Handlers \ {h} PROVE SenderOK(g)'
    BY <1>1, <1>2, <2>4, <2>6 DEF SenderOK, Sending, Logged
  <2>8. SenderOK(h)'
    BY <2>4, <2>5, <2>6 DEF SenderOK, Sending, Logged
  <2> QED
    BY <2>7, <2>8 DEF SenderInv
<1>4. CASE \E h \in Handlers : Send(h)
  <2>1. PICK h \in Handlers : Send(h)
    BY <1>4
  <2>2. PICK s \in Signatures :
          sent' = sent \cup {[sig |-> s, key |-> hs[h].key, amount |-> hs[h].amount]}
    BY <2>1 DEF Send
  <2>3. /\ Sending(h) /\ hs'[h].pc = "paid"
        /\ \A g \in Handlers \ {h} : hs'[g] = hs[g]
    BY <1>1, <2>1 DEF Send, Moved, Sending
  <2>4. ASSUME NEW g \in Handlers \ {h} PROVE SenderOK(g)'
    <3>1. Sending(g) => hs[g].key # hs[h].key
      BY <1>1, <2>3 DEF SenderOK
    <3> QED
      BY <1>1, <1>2, <2>2, <2>3, <3>1 DEF SenderOK, Sending, Logged
  <2>5. SenderOK(h)'
    BY <2>3 DEF SenderOK, Sending
  <2> QED
    BY <2>4, <2>5 DEF SenderInv
<1>5. CASE /\ ~\E h \in Handlers, a \in Amounts : Submit(h, a)
           /\ ~\E h \in Handlers : Send(h)
  <2>1. UNCHANGED sent
    BY <1>5, OnlySendSends
  <2>2. ASSUME NEW h \in Handlers PROVE Sending(h)' => hs'[h] = hs[h]
    BY <1>1, <1>5, HandlerMoves DEF Sending, ReserveFor, Moved, PaidAnswer,
       ReconcileAccept
  <2>3. ASSUME NEW h \in Handlers PROVE SenderOK(h)'
    BY <1>1, <1>2, <2>1, <2>2 DEF SenderOK, Sending, Logged
  <2> QED
    BY <2>3 DEF SenderInv
<1> QED
  BY <1>3, <1>4, <1>5

(* What is sent is unique for its key and has the amount reserved.         *)
LEMMA SentStep ==
    ASSUME TypeInv, JournalInv, BoundInv, SenderInv, SentInv, Next
    PROVE  SentInv'
<1>1. /\ sent \subseteq Payment
      /\ \A h \in Handlers : HandlerOK(h) /\ BoundOK(h) /\ SenderOK(h)
  BY DEF TypeInv, TypeOK, HandlersOK, BoundInv, SenderInv
<1>2. CASE \E h \in Handlers : Send(h)
  <2>1. PICK h \in Handlers : Send(h)
    BY <1>2
  <2>2. PICK s \in Signatures :
          /\ \A t \in sent : t.sig # s
          /\ sent' = sent \cup {[sig |-> s, key |-> hs[h].key, amount |-> hs[h].amount]}
    BY <2>1 DEF Send
  <2>3. UNCHANGED <<rows, events, chain>> /\ Sending(h)
    BY <2>1 DEF Send, Sending, journalVars
  <2>4. /\ Logged(hs[h].key, "submitted")
        /\ rows[hs[h].key].amount = hs[h].amount
        /\ \A t \in sent : t.key # hs[h].key
    BY <1>1, <2>3 DEF BoundOK, SenderOK, Executing, Sending
  <2> QED
    BY <2>2, <2>3, <2>4 DEF SentInv, Logged
<1>3. CASE ~\E h \in Handlers : Send(h)
  <2>1. UNCHANGED sent
    BY <1>3, OnlySendSends
  <2>2. \A t \in sent : t.key \in Keys /\ rows[t.key].status # "absent"
    BY <1>1 DEF Payment, SentInv, JournalInv, StageInv
  <2>3. \A t \in sent : Logged(t.key, "submitted")' /\ rows'[t.key].amount = t.amount
    BY <2>1, <2>2, StepKeeps DEF SentInv, Logged
  <2>4. CASE \E t \in sent : ChainSettles(t)
    BY <2>1, <2>3, <2>4 DEF SentInv, ChainSettles
  <2>5. CASE ~\E t \in sent : ChainSettles(t)
    <3>1. UNCHANGED chain
      BY <2>5 DEF Next, StartupStep, Start, RecoverRead, RecoverWrite, Listen,
         Stop, Exit, Crash, ClientStep, Accept, Replay, ReconcileAccept,
         HandlerStep, ReserveFor, ReserveReplays, PreflightFails, Submit,
         AbandonUnpaid, Send, PaidOutcomeLost, PaidAnswer, Settle,
         NotVerified, Reconcile, ReconcileFails
    <3> QED
      BY <2>1, <2>3, <3>1 DEF SentInv
  <2> QED
    BY <2>4, <2>5
<1> QED
  BY <1>2, <1>3

-----------------------------------------------------------------------------
(* The operations no evidence comes from.                                  *)
Unverified(k) ==
    \/ \E f \in Fingerprints, a \in Amounts : Reserve(k, f, a)
    \/ MarkSubmitted(k)
    \/ \E s \in Signatures \cup {None}, b \in Bodies \cup {None} :
           MarkUnknown(k, s, b)
    \/ Abort(k)
    \/ \E from \in Statuses : Recover(k, from)

(* The call h settles or reconciles its row.                               *)
Verifies(h) ==
    /\ OnChain(hs[h].tx, hs[h].amount)
    /\ \/ /\ hs[h].pc = "verifying"
          /\ MarkSettled(hs[h].key, hs[h].tx, hs[h].body)
       \/ /\ hs[h].pc = "reconciling"
          /\ ReconcileUnknown(hs[h].key, hs[h].tx)

LEMMA StepKinds ==
    ASSUME TypeInv, Next
    PROVE  \/ UNCHANGED journalVars
           \/ \E k \in Keys : Unverified(k)
           \/ \E h \in Handlers : Verifies(h)
<1> USE DEF TypeInv, HandlersOK
<1>1. CASE \E p \in Procs : StartupStep(p) \/ Stop(p) \/ Exit(p) \/ Crash(p)
  <2>1. PICK p \in Procs : StartupStep(p) \/ Stop(p) \/ Exit(p) \/ Crash(p)
    BY <1>1
  <2>2. CASE RecoverWrite(p)
    <3>1. seen[p][1] \in Keys /\ seen[p][2] \in Statuses
      BY <2>2 DEF RecoverWrite, RecoveryOK
    <3> QED
      BY <2>2, <3>1 DEF RecoverWrite, Unverified
  <2>3. CASE ~RecoverWrite(p)
    BY <2>1, <2>3 DEF StartupStep, Start, RecoverRead, Listen, Stop, Exit, Crash
  <2> QED
    BY <2>2, <2>3
<1>2. CASE \E h \in Handlers : ClientStep(h)
  BY <1>2 DEF ClientStep, Accept, Replay, ReconcileAccept
<1>3. CASE \E h \in Handlers : HandlerStep(h)
  <2>1. PICK h \in Handlers : HandlerStep(h)
    BY <1>3
  <2>2. HandlerOK(h)
    OBVIOUS
  <2>3. CASE \E a \in Amounts : ReserveFor(h, a)
    BY <2>2, <2>3 DEF ReserveFor, HandlerOK, Unverified
  <2>4. CASE \E a \in Amounts : Submit(h, a)
    BY <2>2, <2>4 DEF Submit, HandlerOK, Unverified
  <2>5. CASE AbandonUnpaid(h)
    BY <2>2, <2>5 DEF AbandonUnpaid, HandlerOK, Unverified
  <2>6. CASE PaidOutcomeLost(h)
    BY <2>2, <2>6 DEF PaidOutcomeLost, MarkUnknownIfPossible, HandlerOK,
                      Unverified
  <2>7. CASE Settle(h)
    BY <2>2, <2>7 DEF Settle, MarkUnknownIfPossible, HandlerOK, Unverified,
                      Verifies
  <2>8. CASE NotVerified(h)
    BY <2>2, <2>8 DEF NotVerified, MarkUnknownIfPossible, HandlerOK, Unverified
  <2>9. CASE Reconcile(h)
    BY <2>9 DEF Reconcile, Verifies
  <2>10. CASE \/ ReserveReplays(h) \/ PreflightFails(h) \/ Send(h)
              \/ \E s \in Signatures, b \in Bodies : PaidAnswer(h, s, b)
              \/ ReconcileFails(h)
    BY <2>10 DEF ReserveReplays, PreflightFails, Send, PaidAnswer, ReconcileFails
  <2> QED
    BY <2>1, <2>3, <2>4, <2>5, <2>6, <2>7, <2>8, <2>9, <2>10 DEF HandlerStep
<1>4. CASE \E t \in sent : ChainSettles(t)
  BY <1>4 DEF ChainSettles
<1> QED
  BY <1>1, <1>2, <1>3, <1>4 DEF Next

(* An operation without evidence verifies no row, settles none, and keeps  *)
(* the evidence of a row that was ever settled.                            *)
LEMMA UnverifiedEffect ==
    ASSUME JournalTypeOK, SettledInv, NEW k \in Keys, Unverified(k)
    PROVE  /\ rows'[k].status \notin Verified
           /\ \A j \in Keys \ {k} : rows'[j] = rows[j]
           /\ \A j \in Keys : <<j, "settled_verified">> \in events' => EverSettled(j)
           /\ EverSettled(k) => /\ rows'[k].tx = rows[k].tx
                                /\ rows'[k].body = rows[k].body
                                /\ rows'[k].status = "unknown"
<1> USE DEF Verified, EverSettled, SettledInv, Logged
<1>1. CASE \E f \in Fingerprints, a \in Amounts : Reserve(k, f, a)
  BY <1>1 DEF Reserve, Commit, JournalTypeOK
<1>2. CASE MarkSubmitted(k) \/ Abort(k)
  BY <1>2 DEF MarkSubmitted, Abort, Commit, Updated, JournalTypeOK
<1>3. CASE \E s \in Signatures \cup {None}, b \in Bodies \cup {None} :
               MarkUnknown(k, s, b)
  BY <1>3 DEF MarkUnknown, CanMarkUnknown, Commit, Updated, JournalTypeOK
<1>4. CASE \E from \in Statuses : Recover(k, from)
  BY <1>4 DEF Recover, Commit, Updated, JournalTypeOK
<1> QED
  BY <1>1, <1>2, <1>3, <1>4 DEF Unverified

(* What a verification writes.                                             *)
LEMMA VerifiesEffect ==
    ASSUME TypeInv, NEW h \in Handlers, Verifies(h)
    PROVE  /\ hs[h].key \in Keys /\ hs[h].tx \in Signatures
           /\ rows'[hs[h].key].tx = hs[h].tx
           /\ rows'[hs[h].key].amount = rows[hs[h].key].amount
           /\ rows'[hs[h].key].fp = rows[hs[h].key].fp
           /\ \A j \in Keys \ {hs[h].key} : rows'[j] = rows[j]
           /\ \/ /\ hs[h].pc = "verifying"
                 /\ rows[hs[h].key].status = "submitted"
                 /\ rows'[hs[h].key].status = "settled_verified"
                 /\ rows'[hs[h].key].body = hs[h].body
                 /\ events' = events \cup {<<hs[h].key, "settled_verified">>}
              \/ /\ hs[h].pc = "reconciling"
                 /\ rows[hs[h].key].status = "unknown"
                 /\ rows'[hs[h].key].status = "reconciled_verified"
                 /\ rows'[hs[h].key].body = rows[hs[h].key].body
                 /\ events' = events \cup {<<hs[h].key, "reconciled_verified">>}
<1>1. /\ hs[h].key \in Keys /\ hs[h].tx \in Signatures
      /\ rows \in [Keys -> Row]
  BY DEF Verifies, TypeInv, TypeOK, JournalTypeOK, HandlersOK, HandlerOK
<1>2. CASE hs[h].pc = "verifying"
  BY <1>1, <1>2 DEF Verifies, MarkSettled, CanSettle, Commit, Updated
<1>3. CASE hs[h].pc = "reconciling"
  BY <1>1, <1>3 DEF Verifies, ReconcileUnknown, CanReconcile, Commit, Updated
<1> QED
  BY <1>1, <1>2, <1>3 DEF Verifies

(* A row that was ever settled keeps its transaction and its body.         *)
LEMMA EvidenceKept ==
    ASSUME TypeInv, SettledInv, ReconcilerInv, Next
    PROVE  /\ SettledInv'
           /\ \A k \in Keys : EverSettled(k) =>
                  rows'[k].tx = rows[k].tx /\ rows'[k].body = rows[k].body
<1> USE DEF SettledInv
<1>1. JournalTypeOK
  BY DEF TypeInv, TypeOK
<1>2. CASE UNCHANGED journalVars
  BY <1>2 DEF journalVars, EverSettled, Logged
<1>3. CASE \E k \in Keys : Unverified(k)
  BY <1>1, <1>3, UnverifiedEffect DEF EverSettled, Logged
<1>4. CASE \E h \in Handlers : Verifies(h)
  <2>1. PICK h \in Handlers : Verifies(h)
    BY <1>4
  <2>2. CASE hs[h].pc = "verifying"
    BY <2>1, <2>2, VerifiesEffect DEF EverSettled, Logged
  <2>3. CASE hs[h].pc = "reconciling"
    <3>1. EverSettled(hs[h].key) => hs[h].tx = rows[hs[h].key].tx
      BY <2>3 DEF ReconcilerInv, ReconcilerOK
    <3> QED
      BY <2>1, <2>3, <3>1, VerifiesEffect DEF EverSettled, Logged
  <2> QED
    BY <2>1, <2>2, <2>3 DEF Verifies
<1> QED
  BY <1>2, <1>3, <1>4, StepKinds

(* A reconciliation names the transaction the row already records.         *)
LEMMA ReconcilerStep ==
    ASSUME TypeInv, JournalInv, SettledInv, ReconcilerInv, Next
    PROVE  ReconcilerInv'
<1> SUFFICES ASSUME NEW h \in Handlers, hs'[h].pc = "reconciling"
             PROVE  ReconcilerOK(h)'
  BY DEF ReconcilerInv, ReconcilerOK
<1>1. /\ hs \in [Handlers -> Handler] /\ HandlerOK(h) /\ ReconcilerOK(h)
      /\ JournalTypeOK
  BY DEF TypeInv, TypeOK, HandlersOK, ReconcilerInv
<1>2. events \subseteq events'
  BY StepKeeps
<1>3. CASE hs'[h] = hs[h]
  <2> DEFINE k == hs[h].key
  <2>1. hs[h].pc = "reconciling" /\ k \in Keys
    BY <1>1, <1>3 DEF HandlerOK
  <2>2. Logged(k, "unknown") \/ Logged(k, "recovered_unknown")
    BY <1>1, <2>1 DEF ReconcilerOK
  <2>3. rows[k].status # "submitted"
    BY <2>1, <2>2 DEF JournalInv, LogExplainsRow
  <2>4. <<k, "settled_verified">> \in events' => EverSettled(k)
    <3>1. CASE UNCHANGED journalVars
      BY <3>1 DEF journalVars, EverSettled, Logged
    <3>2. CASE \E j \in Keys : Unverified(j)
      BY <1>1, <2>1, <3>2, UnverifiedEffect
    <3>3. CASE \E g \in Handlers : Verifies(g)
      BY <2>1, <2>3, <3>3, VerifiesEffect DEF EverSettled, Logged
    <3> QED
      BY <3>1, <3>2, <3>3, StepKinds
  <2>5. EverSettled(k) => hs[h].tx = rows'[k].tx
    BY <1>1, <2>1, EvidenceKept DEF ReconcilerOK
  <2> QED
    BY <1>2, <1>3, <2>2, <2>4, <2>5 DEF ReconcilerOK, EverSettled, Logged
<1>4. CASE \E k \in Keys, s \in Signatures : ReconcileAccept(h, k, s)
  <2>1. PICK k \in Keys, s \in Signatures : ReconcileAccept(h, k, s)
    BY <1>4
  <2>2. /\ rows[k].status = "unknown" /\ rows[k].tx \in {None, s}
        /\ UNCHANGED <<rows, events>>
        /\ hs'[h].key = k /\ hs'[h].tx = s
    BY <1>1, <2>1 DEF ReconcileAccept, journalVars
  <2>3. Logged(k, "unknown") \/ Logged(k, "recovered_unknown")
    BY <2>2 DEF JournalInv, LogExplainsRow
  <2>4. EverSettled(k) => rows[k].tx = s
    BY <2>2, NullAssumption DEF SettledInv
  <2> QED
    BY <2>2, <2>3, <2>4 DEF ReconcilerOK, EverSettled, Logged
<1> QED
  BY <1>1, <1>3, <1>4, HandlerMoves DEF ReserveFor, Submit, Send, PaidAnswer, Moved

-----------------------------------------------------------------------------
(* What is sent stays sent, what is on chain stays there.                  *)
LEMMA ChainGrows ==
    ASSUME Next
    PROVE  sent \subseteq sent' /\ chain \subseteq chain'
  BY DEF Next, StartupStep, Start, RecoverRead, RecoverWrite, Listen, Stop,
     Exit, Crash, ClientStep, Accept, Replay, ReconcileAccept, HandlerStep,
     ReserveFor, ReserveReplays, PreflightFails, Submit, AbandonUnpaid, Send,
     PaidOutcomeLost, PaidAnswer, Settle, NotVerified, Reconcile,
     ReconcileFails, ChainSettles

(* A row becomes verified by a payment that is on chain.                   *)
LEMMA VerifiedStep ==
    ASSUME TypeInv, JournalInv, BoundInv, SettledInv, VerifiedIsPaid, Next,
           JournalInv'
    PROVE  VerifiedIsPaid'
<1>1. JournalTypeOK /\ rows \in [Keys -> Row]
  BY DEF TypeInv, TypeOK, JournalTypeOK
<1>2. ASSUME NEW s, NEW a, OnChain(s, a)
      PROVE  s \in chain' /\ \E t \in sent' : t.sig = s /\ t.amount = a
  BY <1>2, ChainGrows DEF OnChain
<1>3. ASSUME NEW k \in Keys, rows'[k].status \in Verified
      PROVE  rows'[k].tx \in chain'
             /\ \E t \in sent' : t.sig = rows'[k].tx /\ t.amount = rows'[k].amount
  <2>1. CASE rows'[k] = rows[k]
    BY <1>2, <1>3, <2>1 DEF VerifiedIsPaid
  <2>2. CASE \E j \in Keys : Unverified(j)
    BY <1>1, <1>3, <2>1, <2>2, UnverifiedEffect
  <2>3. CASE \E h \in Handlers : Verifies(h)
    <3>1. PICK h \in Handlers : Verifies(h)
      BY <2>3
    <3>2. rows[hs[h].key].amount = hs[h].amount
      BY <3>1 DEF Verifies, BoundInv, BoundOK, Executing
    <3>3. CASE k = hs[h].key
      <4>1. OnChain(hs[h].tx, hs[h].amount)
        BY <3>1 DEF Verifies
      <4>2. rows'[k].tx = hs[h].tx /\ rows'[k].amount = hs[h].amount
        BY <3>1, <3>2, <3>3, VerifiesEffect
      <4> QED
        BY <1>2, <4>1, <4>2
    <3>4. CASE k # hs[h].key
      BY <2>1, <3>1, <3>4, VerifiesEffect
    <3> QED
      BY <3>3, <3>4
  <2> QED
    BY <2>1, <2>2, <2>3, StepKinds DEF journalVars
<1>4. chain' \subseteq Signatures
  BY OutputTypes
<1>5. ASSUME NEW k \in Keys, rows'[k].status \in Verified, NEW j \in Keys \ {k}
      PROVE  rows'[j].tx # rows'[k].tx
  <2>1. rows'[k].tx # None
    BY <1>3, <1>4, <1>5, NullAssumption
  <2> QED
    BY <1>5, <2>1 DEF JournalInv, OneRowPerSignature
<1> QED
  BY <1>3, <1>5 DEF VerifiedIsPaid, OnChain

(* A delivered body is what its settled row keeps.                         *)
LEMMA PaidStep ==
    ASSUME TypeInv, JournalInv, BoundInv, SettledInv, ReconcilerInv,
           VerifiedIsPaid, PaidInv, Next
    PROVE  PaidInv'
<1>1. /\ delivered \subseteq Delivery
      /\ \A h \in Handlers : HandlerOK(h) /\ BoundOK(h)
      /\ rows \in [Keys -> Row] /\ JournalTypeOK
  BY DEF TypeInv, TypeOK, HandlersOK, BoundInv, JournalTypeOK
<1>2. ASSUME NEW d \in delivered
      PROVE  /\ <<d.key, "settled_verified">> \in events'
             /\ rows'[d.key].fp = d.fp /\ rows'[d.key].tx = d.tx
             /\ rows'[d.key].body = d.body /\ d.tx \in chain'
  <2>1. d.key \in Keys /\ EverSettled(d.key)
    BY <1>1 DEF Delivery, PaidInv
  <2>2. rows[d.key].status # "absent"
    BY <2>1 DEF SettledInv
  <2> QED
    BY <2>1, <2>2, EvidenceKept, StepKeeps, ChainGrows
       DEF PaidInv, EverSettled, Logged
<1>3. ASSUME NEW k \in Keys, NEW f, Replayable(k, f), UNCHANGED <<rows, events, chain>>,
             delivered' = delivered \cup {StoredReply(k)}
      PROVE  PaidInv'
  <2>1. EverSettled(k) /\ rows[k].tx \in chain
    BY <1>3 DEF Replayable, EverSettled, JournalInv, LogExplainsRow,
                VerifiedIsPaid, Verified, OnChain
  <2>2. LET d == StoredReply(k)
        IN /\ <<d.key, "settled_verified">> \in events'
           /\ rows'[d.key].fp = d.fp /\ rows'[d.key].tx = d.tx
           /\ rows'[d.key].body = d.body /\ d.tx \in chain'
    BY <1>3, <2>1 DEF StoredReply, EverSettled, Logged
  <2>3. \A d \in delivered' : d \in delivered \/ d = StoredReply(k)
    BY <1>3
  <2> QED
    BY <1>2, <2>2, <2>3 DEF PaidInv, EverSettled, Logged
<1>4. CASE UNCHANGED delivered
  BY <1>2, <1>4 DEF PaidInv, EverSettled, Logged
<1>5. ASSUME NEW h \in Handlers, ClientStep(h)
      PROVE  PaidInv'
  <2>1. CASE \E k \in Keys, f \in Fingerprints : Replay(h, k, f)
    BY <1>3, <2>1 DEF Replay, journalVars
  <2>2. CASE ~\E k \in Keys, f \in Fingerprints : Replay(h, k, f)
    BY <1>4, <1>5, <2>2 DEF ClientStep, Accept, ReconcileAccept
  <2> QED
    BY <2>1, <2>2
<1>6. ASSUME NEW h \in Handlers, HandlerStep(h)
      PROVE  PaidInv'
  <2>1. CASE ReserveReplays(h)
    BY <1>1, <1>3, <2>1 DEF ReserveReplays, HandlerOK, journalVars
  <2>2. CASE UNCHANGED delivered
    BY <1>4, <2>2
  <2>3. CASE Settle(h) /\ ~UNCHANGED delivered
    <3> DEFINE k == hs[h].key
    <3>1. /\ OnChain(hs[h].tx, hs[h].amount) /\ hs[h].pc = "verifying"
          /\ MarkSettled(k, hs[h].tx, hs[h].body)
          /\ delivered' = delivered \cup
                 {[key |-> k, fp |-> hs[h].fp, tx |-> hs[h].tx, body |-> hs[h].body]}
      BY <2>3 DEF Settle
    <3>2. Verifies(h)
      BY <3>1 DEF Verifies
    <3>3. /\ rows'[k].tx = hs[h].tx /\ rows'[k].body = hs[h].body
          /\ rows'[k].fp = hs[h].fp
          /\ <<k, "settled_verified">> \in events'
      BY <1>1, <3>1, <3>2, VerifiesEffect DEF BoundOK, Executing
    <3>4. hs[h].tx \in chain'
      BY <3>1, ChainGrows DEF OnChain
    <3> DEFINE new == [key |-> k, fp |-> hs[h].fp, tx |-> hs[h].tx, body |-> hs[h].body]
    <3>5. /\ <<new.key, "settled_verified">> \in events'
          /\ rows'[new.key].fp = new.fp /\ rows'[new.key].tx = new.tx
          /\ rows'[new.key].body = new.body /\ new.tx \in chain'
      BY <3>3, <3>4
    <3>6. \A d \in delivered' : d \in delivered \/ d = new
      BY <3>1
    <3> HIDE DEF new
    <3> QED
      BY <1>2, <3>5, <3>6 DEF PaidInv, EverSettled, Logged
  <2> QED
    BY <1>6, <2>1, <2>2, <2>3 DEF HandlerStep, ReserveFor, PreflightFails,
       Submit, AbandonUnpaid, Send, PaidOutcomeLost, PaidAnswer, NotVerified,
       Reconcile, ReconcileFails
<1>7. CASE \E p \in Procs : StartupStep(p) \/ Stop(p) \/ Exit(p) \/ Crash(p)
  BY <1>4, <1>7, ProcessTypes
<1>8. CASE \E t \in sent : ChainSettles(t)
  BY <1>4, <1>8 DEF ChainSettles
<1> QED
  BY <1>5, <1>6, <1>7, <1>8 DEF Next

-----------------------------------------------------------------------------
LEMMA SafetyInit ==
    ASSUME Init
    PROVE  SafetyInv
<1>1. TypeInv /\ JournalInv
  BY TypeInit, JournalInvInit DEF Init
<1>2. /\ sent = {} /\ chain = {} /\ delivered = {} /\ events = {}
      /\ \A h \in Handlers : hs[h].pc = "idle"
      /\ \A k \in Keys : rows[k].status = "absent"
  BY DEF Init, JournalInit, NoRow, Idle
<1> QED
  BY <1>1, <1>2 DEF SafetyInv, BoundInv, BoundOK, Executing, SenderInv,
     SenderOK, Sending, SentInv, SettledInv, EverSettled, Logged,
     ReconcilerInv, ReconcilerOK, VerifiedIsPaid, Verified, PaidInv

LEMMA SafetyStep ==
    ASSUME SafetyInv, [Next]_vars
    PROVE  SafetyInv'
<1> USE DEF SafetyInv
<1>1. TypeInv' /\ JournalInv'
  BY TypeStep
<1>2. CASE Next
  BY <1>1, <1>2, BoundStep, SenderStep, SentStep, EvidenceKept,
     ReconcilerStep, VerifiedStep, PaidStep
<1>3. CASE UNCHANGED vars
  BY <1>1, <1>3 DEF vars, BoundInv, BoundOK, Executing, SenderInv,
     SenderOK, Sending, SentInv, SettledInv, EverSettled, Logged,
     ReconcilerInv, ReconcilerOK, VerifiedIsPaid, Verified, PaidInv, OnChain
<1> QED
  BY <1>2, <1>3

(* The inductive invariant of the sidecar.                                 *)
THEOREM SafetyInvariant == Spec => []SafetyInv
<1>1. Init => SafetyInv
  BY SafetyInit
<1>2. SafetyInv /\ [Next]_vars => SafetyInv'
  BY SafetyStep
<1> QED
  BY <1>1, <1>2, PTL DEF Spec

(* application-sidecar.ts handlePaidRequest, canary.ts runCanary: whatever *)
(* crashes, restarts and concurrent calls do, a key is paid for once.      *)
THEOREM KeyPaidOnce == Spec => []PaysAtMostOnce
<1>1. SafetyInv => PaysAtMostOnce
  BY DEF SafetyInv, SentInv, PaysAtMostOnce
<1> QED
  BY <1>1, SafetyInvariant, PTL

(* canary.ts beforePaidRequest: the journal is written before the payment  *)
(* leaves, and what left is never released or tried again.                 *)
THEOREM WrittenAhead == Spec => []SentIsWrittenAhead
<1>1. ASSUME SafetyInv PROVE SentIsWrittenAhead
  <2>1. \A t \in sent : t.key \in Keys /\ Logged(t.key, "submitted")
    BY <1>1 DEF SafetyInv, SentInv, TypeInv, TypeOK, Payment
  <2> QED
    BY <1>1, <2>1 DEF SafetyInv, JournalInv, StageInv, ReleasedNeverSubmitted,
       SentIsWrittenAhead
<1> QED
  BY <1>1, SafetyInvariant, PTL

(* canary.ts verifyPaymentOnChain, journal.ts markSettled and              *)
(* reconcileUnknown: a verified row names a payment on chain of the row's  *)
(* amount, which no other row names.                                       *)
THEOREM VerifiedRowPaid == Spec => []VerifiedIsPaid
<1>1. SafetyInv => VerifiedIsPaid
  BY DEF SafetyInv
<1> QED
  BY <1>1, SafetyInvariant, PTL

(* application-sidecar.ts replayResponse: the application never gets two   *)
(* bodies for one key, or one payment for two keys.                        *)
THEOREM DeliveryConsistent == Spec => []DeliveredOncePaid
<1>1. ASSUME SafetyInv PROVE DeliveredOncePaid
  <2>1. \A d \in delivered : /\ d \in Delivery /\ d.key \in Keys
                            /\ d.tx \in Signatures
    BY <1>1 DEF SafetyInv, TypeInv, TypeOK, Delivery
  <2>2. ASSUME NEW d \in delivered, NEW e \in delivered, d.key = e.key
        PROVE  d = e
    BY <1>1, <2>1, <2>2 DEF SafetyInv, PaidInv, Delivery
  <2>3. ASSUME NEW d \in delivered, NEW e \in delivered, d.tx = e.tx
        PROVE  d.key = e.key
    BY <1>1, <2>1, <2>3, NullAssumption DEF SafetyInv, PaidInv, JournalInv,
       OneRowPerSignature
  <2> QED
    BY <1>1, <2>2, <2>3 DEF DeliveredOncePaid, SafetyInv, PaidInv
<1> QED
  BY <1>1, SafetyInvariant, PTL

-----------------------------------------------------------------------------
(***************************************************************************)
(* The sidecar implements BudgetedPayments: reserve() is Grant, abort() is *)
(* Withdraw, the paid fetch is Expose, settlement on chain is Confirm, and *)
(* every other step stutters.  The budget of what was sent follows from    *)
(* the budget of what BudgetedPayments exposes.                            *)
(***************************************************************************)
Held == [k \in Keys |-> IF k \in NeverReleased THEN rows[k].amount ELSE 0]

Used == {k \in Keys : rows[k].status # "absent"}

(* The instance counts with its own copy of Cardinality.                   *)
LEMMA SameCardinality == \A S : Promise!Cardinality(S) = Cardinality(S)
  BY DEF Promise!Cardinality, Cardinality

(* What the promise counts is what the journal never gave back.            *)
LEMMA HeldIsNeverReleased ==
    ASSUME JournalInv
    PROVE  /\ {k \in Keys : Held[k] > 0} = NeverReleased
           /\ {u \in Keys \X (1..MaxAmount) : u[2] <= Held[u[1]]}
                = Units(NeverReleased)
<1>1. NeverReleased \subseteq Keys
  BY DEF NeverReleased, Charged
<1>2. \A k \in NeverReleased : rows[k].amount \in 1..MaxAmount
  BY <1>1 DEF NeverReleased, Charged, JournalInv, RowsFilled, Amounts
<1>3. \A k \in Keys : Held[k] = IF k \in NeverReleased THEN rows[k].amount ELSE 0
  BY DEF Held
<1>4. {k \in Keys : Held[k] > 0} = NeverReleased
  BY <1>1, <1>2, <1>3
<1>5. ASSUME NEW k \in Keys, NEW i \in 1..MaxAmount
      PROVE  i <= Held[k] <=> k \in NeverReleased /\ i <= rows[k].amount
  BY <1>2, <1>3
<1>6. {u \in Keys \X (1..MaxAmount) : u[2] <= Held[u[1]]} = Units(NeverReleased)
  BY <1>1, <1>5 DEF Units, Amounts
<1> QED
  BY <1>4, <1>6

(* The charged rows include those never released.                          *)
LEMMA ChargedBounds ==
    /\ Cardinality(NeverReleased) <= Cardinality(Charged)
    /\ Cardinality(Units(NeverReleased)) <= Cardinality(Units(Charged))
    /\ Cardinality(NeverReleased) \in Nat /\ Cardinality(Charged) \in Nat
    /\ Cardinality(Units(NeverReleased)) \in Nat
    /\ Cardinality(Units(Charged)) \in Nat
<1>1. /\ NeverReleased \in SUBSET Charged /\ Charged \in SUBSET Keys
      /\ NeverReleased \in SUBSET Keys
  BY DEF NeverReleased, Charged
<1>2. Units(NeverReleased) \in SUBSET Units(Charged)
  BY <1>1 DEF Units
<1> QED
  BY <1>1, <1>2, BudgetFinite, FS_Subset

(* reserve() grants.                                                       *)
LEMMA ReserveGrants ==
    ASSUME JournalInv, NEW k \in Keys, NEW f, NEW a \in Amounts,
           Reserve(k, f, a), UNCHANGED <<sent, chain>>
    PROVE  Promise!Grant(k, a)
<1>1. rows[k].status = "absent" /\ BudgetAllows(a)
  BY DEF Reserve
<1>2. a \in Nat
  BY BudgetAssumption DEF Amounts
<1>3. /\ rows'[k].status = "reserved" /\ rows'[k].amount = a
      /\ \A j \in Keys \ {k} : rows'[j] = rows[j]
      /\ \A j \in Keys : <<j, "aborted">> \in events' <=> Logged(j, "aborted")
  BY DEF Reserve, Commit, JournalInv, JournalTypeOK, Logged
<1>4. ~Logged(k, "aborted")
  BY <1>1 DEF JournalInv, StageInv
<1>5. \A j \in Keys : j \in NeverReleased' <=> j \in NeverReleased \/ j = k
  BY <1>3, <1>4 DEF NeverReleased, Charged, Logged
<1>6. Held' = [Held EXCEPT ![k] = a]
  BY <1>3, <1>5 DEF Held
<1>7. Used' = Used \cup {k} /\ k \notin Used
  BY <1>1, <1>3 DEF Used
<1>8. /\ Promise!Holders = NeverReleased
      /\ Promise!HeldUnits = Units(NeverReleased)
  <2>1. /\ Promise!Holders = {j \in Keys : Held[j] > 0}
        /\ Promise!HeldUnits = {u \in Keys \X (1..MaxAmount) : u[2] <= Held[u[1]]}
    BY DEF Promise!Holders, Promise!HeldUnits, Held
  <2> QED
    BY <2>1, HeldIsNeverReleased
<1>9. /\ Promise!Cardinality(Promise!Holders) < MaxRequests
      /\ Promise!Cardinality(Promise!HeldUnits) + a <= MaxTotal
  BY <1>1, <1>2, <1>8, SameCardinality, ChargedBounds, BudgetAssumption DEF BudgetAllows
<1> QED
  BY <1>6, <1>7, <1>9 DEF Promise!Grant, Held, Used

(* abort() withdraws.                                                      *)
LEMMA AbortWithdraws ==
    ASSUME JournalInv, SentInv, NEW k \in Keys, Abort(k), UNCHANGED <<sent, chain>>
    PROVE  Promise!Withdraw(k)
<1>1. rows[k].status = "reserved"
  BY DEF Abort
<1>2. \A t \in sent : t.key # k
  BY <1>1 DEF SentInv, JournalInv, StageInv
<1>3. /\ rows'[k].status = "aborted"
      /\ \A j \in Keys \ {k} : rows'[j] = rows[j]
      /\ \A j \in Keys : <<j, "aborted">> \in events' <=>
                             Logged(j, "aborted") \/ j = k
  BY DEF Abort, Commit, Updated, JournalInv, JournalTypeOK, Logged
<1>4. \A j \in Keys : j \in NeverReleased' <=> j \in NeverReleased /\ j # k
  BY <1>3 DEF NeverReleased, Charged, Logged
<1>5. Held' = [Held EXCEPT ![k] = 0]
  BY <1>3, <1>4 DEF Held
<1>6. Used' = Used
  BY <1>1, <1>3 DEF Used
<1> QED
  BY <1>2, <1>5, <1>6 DEF Promise!Withdraw, Held, Used

(* Every other operation of the journal stutters.                          *)
LEMMA OthersStutter ==
    ASSUME JournalInv, JournalNext,
           ~\E k \in Keys, f \in Fingerprints, a \in Amounts : Reserve(k, f, a),
           ~\E k \in Keys : Abort(k)
    PROVE  Held' = Held /\ Used' = Used
<1>1. JournalTypeOK /\ rows \in [Keys -> Row]
  BY DEF JournalInv, JournalTypeOK
<1>2. PICK k \in Keys : \E st, s, b, e :
        /\ Commit(k, Updated(k, st, s, b), e)
        /\ rows[k].status # "absent" /\ st \notin {"absent", "aborted"}
        /\ e # "aborted"
  BY DEF JournalNext, MarkSubmitted, MarkSettled, CanSettle, MarkUnknown,
     CanMarkUnknown, ReconcileUnknown, CanReconcile, Recover, Statuses
<1>2b. PICK st, s, b, e :
        /\ Commit(k, Updated(k, st, s, b), e)
        /\ rows[k].status # "absent" /\ st \notin {"absent", "aborted"}
        /\ e # "aborted"
  BY <1>2
<1>3. /\ rows'[k].status = st /\ rows'[k].amount = rows[k].amount
      /\ \A j \in Keys \ {k} : rows'[j] = rows[j]
      /\ \A j \in Keys : <<j, "aborted">> \in events' <=> Logged(j, "aborted")
  BY <1>1, <1>2b DEF Commit, Updated, Logged
<1>4. rows[k].status = "aborted" => Logged(k, "aborted")
  BY DEF JournalInv, StageInv
<1>5. \A j \in Keys : j \in NeverReleased' <=> j \in NeverReleased
  BY <1>2b, <1>3, <1>4 DEF NeverReleased, Charged, Logged
<1>6. Held' = Held
  BY <1>3, <1>5 DEF Held
<1>7. Used' = Used
  BY <1>2b, <1>3 DEF Used
<1> QED
  BY <1>6, <1>7

(* Send exposes the payment its key holds.                                 *)
LEMMA SendExposes ==
    ASSUME SafetyInv, NEW h \in Handlers, Send(h)
    PROVE  \E k \in Keys, s \in Signatures : Promise!Expose(k, s)
<1> DEFINE k == hs[h].key
<1>1. k \in Keys /\ Sending(h) /\ hs[h].amount \in Amounts
  BY DEF SafetyInv, TypeInv, HandlersOK, HandlerOK, Send, Sending
<1>2. /\ Logged(k, "submitted") /\ \A t \in sent : t.key # k
      /\ rows[k].amount = hs[h].amount
  BY <1>1 DEF SafetyInv, SenderInv, SenderOK, BoundInv, BoundOK, Executing,
     Sending
<1>3. k \in NeverReleased
  BY <1>1, <1>2 DEF SafetyInv, JournalInv, StageInv, ReleasedNeverSubmitted,
     NeverReleased, Charged
<1>4. PICK s \in Signatures :
        /\ \A t \in sent : t.sig # s
        /\ sent' = sent \cup {[sig |-> s, key |-> k, amount |-> hs[h].amount]}
  BY DEF Send
<1>5. Held[k] = hs[h].amount /\ Held[k] > 0
  BY <1>1, <1>2, <1>3, BudgetAssumption DEF Held, Amounts
<1>6. UNCHANGED <<Held, Used, chain>>
  BY DEF Send, journalVars, Held, Used, NeverReleased, Charged, Logged
<1>7. Promise!Expose(k, s)
  BY <1>2, <1>4, <1>5, <1>6 DEF Promise!Expose, Held, Used
<1> QED
  BY <1>1, <1>7

LEMMA PromiseSimulation ==
    ASSUME SafetyInv, [Next]_vars
    PROVE  [Promise!Next]_(Promise!promiseVars)
<1>1. TypeInv /\ JournalInv /\ SentInv
  BY DEF SafetyInv
<1>2. ASSUME Held' = Held, Used' = Used, UNCHANGED <<sent, chain>>
      PROVE  UNCHANGED Promise!promiseVars
  BY <1>2 DEF Promise!promiseVars, Held, Used
<1>3. ASSUME UNCHANGED journalVars
      PROVE  Held' = Held /\ Used' = Used
  BY <1>3 DEF journalVars, Held, Used, NeverReleased, Charged, Logged
<1>4. CASE \E h \in Handlers : Send(h)
  BY <1>4, SendExposes DEF Promise!Next
<1>5. CASE \E t \in sent : ChainSettles(t)
  <2>1. PICK t \in sent : ChainSettles(t)
    BY <1>5
  <2>2. Promise!Confirm(t)
    BY <1>3, <2>1 DEF ChainSettles, Promise!Confirm, Held, Used
  <2> QED
    BY <2>1, <2>2 DEF Promise!Next
<1>6. CASE UNCHANGED <<sent, chain>>
  <2>1. [JournalNext]_journalVars
    BY <1>1, StepIsTransition DEF vars, journalVars
  <2>2. CASE \E k \in Keys, f \in Fingerprints, a \in Amounts : Reserve(k, f, a)
    BY <1>1, <1>6, <2>2, ReserveGrants DEF Promise!Next, Amounts
  <2>3. CASE \E k \in Keys : Abort(k)
    BY <1>1, <1>6, <2>3, AbortWithdraws DEF Promise!Next
  <2> QED
    BY <1>1, <1>2, <1>3, <1>6, <2>1, <2>2, <2>3, OthersStutter
<1>7. \/ UNCHANGED <<sent, chain>> \/ \E h \in Handlers : Send(h)
      \/ \E t \in sent : ChainSettles(t)
  BY DEF vars, Next, StartupStep, Start, RecoverRead, RecoverWrite, Listen,
     Stop, Exit, Crash, ClientStep, Accept, Replay, ReconcileAccept,
     HandlerStep, ReserveFor, ReserveReplays, PreflightFails, Submit,
     AbandonUnpaid, PaidOutcomeLost, PaidAnswer, Settle, NotVerified,
     Reconcile, ReconcileFails
<1> QED
  BY <1>4, <1>5, <1>6, <1>7

(* docs/application-payment-boundary.md, "State and idempotency": the      *)
(* sidecar, its crashes and its restarts implement the promise.            *)
THEOREM SidecarKeepsPromise == Spec => KeepsPromise
<1>1. Init => Promise!Init
  <2> SUFFICES ASSUME Init PROVE Promise!Init
    OBVIOUS
  <2>1. \A k \in Keys : rows[k].status = "absent"
    BY DEF Init, JournalInit, NoRow
  <2>2. NeverReleased = {}
    BY <2>1 DEF NeverReleased, Charged
  <2> QED
    BY <2>1, <2>2 DEF Init, Promise!Init
<1>2. SafetyInv /\ [Next]_vars => [Promise!Next]_(Promise!promiseVars)
  BY PromiseSimulation
<1> QED
  BY <1>1, <1>2, SafetyInvariant, PTL DEF Spec, KeepsPromise, Promise!Spec

-----------------------------------------------------------------------------
(* A payment sits on a reservation that was never given back: the payments *)
(* map one to one into those keys, and their units into the units held.    *)
LEMMA SentFitsReservations ==
    ASSUME SafetyInv
    PROVE  SpendWithinBudget
<1> DEFINE SentUnits == {u \in sent \X Amounts : u[2] <= u[1].amount}
<1>1. \A t \in sent : /\ t.key \in NeverReleased
                     /\ rows[t.key].amount = t.amount
  <2>1. \A t \in sent : /\ t.key \in Keys /\ Logged(t.key, "submitted")
                       /\ rows[t.key].amount = t.amount
    BY DEF SafetyInv, TypeInv, TypeOK, SentInv, Payment
  <2> QED
    BY <2>1 DEF SafetyInv, JournalInv, StageInv, ReleasedNeverSubmitted,
       NeverReleased, Charged
<1>2. \A t, u \in sent : t.key = u.key => t = u
  BY DEF SafetyInv, SentInv
<1>3. /\ IsFiniteSet(NeverReleased) /\ Cardinality(NeverReleased) \in Nat
      /\ IsFiniteSet(Units(NeverReleased))
      /\ Cardinality(Units(NeverReleased)) \in Nat
  <2>1. NeverReleased \in SUBSET Keys
    BY DEF NeverReleased, Charged
  <2> QED
    BY <2>1, BudgetFinite
<1>4. IsFiniteSet(sent) /\ Cardinality(sent) <= Cardinality(NeverReleased)
  <2> DEFINE f == [t \in sent |-> t.key]
  <2>1. f \in Injection(sent, NeverReleased)
    BY <1>1, <1>2 DEF Injection, IsInjective
  <2> QED
    BY <1>3, <2>1, FS_Injection
<1>5. /\ IsFiniteSet(SentUnits)
      /\ Cardinality(SentUnits) <= Cardinality(Units(NeverReleased))
  <2> DEFINE f == [u \in SentUnits |-> <<u[1].key, u[2]>>]
  <2>1. f \in [SentUnits -> Units(NeverReleased)]
    BY <1>1 DEF Units
  <2>2. \A u, v \in SentUnits : f[u] = f[v] => u = v
    BY <1>2
  <2>3. f \in Injection(SentUnits, Units(NeverReleased))
    BY <2>1, <2>2 DEF Injection, IsInjective
  <2> QED
    BY <1>3, <2>3, FS_Injection
<1>6. Cardinality(sent) \in Nat /\ Cardinality(SentUnits) \in Nat
  BY <1>4, <1>5, FS_CardinalityType
<1> QED
  BY <1>3, <1>4, <1>5, <1>6, BudgetAssumption
     DEF SafetyInv, JournalInv, ReservedWithinBudget, SpendWithinBudget

(* journal.ts reserve(), canary.ts: whatever was signed and sent, answered *)
(* or not, fits the configured number of requests and total amount.        *)
THEOREM SidecarSpendWithinBudget == Spec => []SpendWithinBudget
<1>1. SafetyInv => SpendWithinBudget
  BY SentFitsReservations
<1> QED
  BY <1>1, SafetyInvariant, PTL
-----------------------------------------------------------------------------
(***************************************************************************)
(* One process at a time.                                                  *)
(*                                                                         *)
(* The argument.  Calls run only while their process serves or drains, so  *)
(* with one process nothing moves a row during recovery but recovery       *)
(* itself (LifeInv): what it selected is unfinished when it is visited,    *)
(* and what is unfinished is still selected (RecoveryInv).  Hence no       *)
(* restart takes back an outcome, and the process is a PaymentService.     *)
(* When it serves again, an unfinished row has a call at work on it        *)
(* (OwnerInv).  That call gets to write an outcome, unless a write fails   *)
(* or another row holds its signature, which takes evidence that belongs   *)
(* to another call (EvidenceInv).                                          *)
(***************************************************************************)
OneProcess == \A p, q \in Procs : p = q

LifeInv ==
    /\ listener # None => proc[listener] = "up"
    /\ \A p \in Procs : proc[p] # "recovering" => todo[p] = {} /\ seen[p] = None
    /\ \A h \in Handlers : hs[h].pc # "idle" =>
           hs[h].proc \in Procs /\ proc[hs[h].proc] \in {"up", "closing"}

(* The row that recovery has read and not yet written.                     *)
Visiting(p, k) == seen[p] # None /\ seen[p][1] = k

RecoveryInv ==
    \A p \in Procs : proc[p] = "recovering" =>
        \A k \in Keys :
            /\ rows[k].status \in Unfinished <=> k \in todo[p] \/ Visiting(p, k)
            /\ Visiting(p, k) => seen[p][2] = rows[k].status /\ k \notin todo[p]

OneInv == TypeInv /\ LifeInv /\ RecoveryInv

(* The call at work on an unfinished row.                                  *)
Owns(h, k) ==
    /\ hs[h].key = k
    /\ hs[h].pc \in (IF rows[k].status = "reserved" THEN {"challenge"}
                     ELSE {"sending", "paid", "verifying"})

OwnerInv ==
    (\E p \in Procs : proc[p] \in {"up", "closing"}) =>
        \A k \in Keys : rows[k].status \in Unfinished =>
            \E h \in Handlers : Owns(h, k)

SentFor(s, k) == \E t \in sent : t.sig = s /\ t.key = k

EvidenceInv ==
    /\ \A h \in Handlers : hs[h].pc \in {"paid", "verifying", "reconciling"} =>
           SentFor(hs[h].tx, hs[h].key)
    /\ \A k \in Keys : rows[k].tx # None => SentFor(rows[k].tx, k)

-----------------------------------------------------------------------------
(* Calls run, and are taken, in processes that serve or drain.             *)
LEMMA StepsAreAlive ==
    ASSUME LifeInv, NEW h \in Handlers
    PROVE  /\ ClientStep(h) => listener # None /\ proc[listener] = "up"
           /\ HandlerStep(h) => /\ hs[h].proc \in Procs
                                /\ proc[hs[h].proc] \in {"up", "closing"}
<1>1. ClientStep(h) => listener # None
  BY DEF ClientStep, Accept, Replay, ReconcileAccept
<1>2. HandlerStep(h) => hs[h].pc # "idle"
  BY DEF HandlerStep, ReserveFor, ReserveReplays, PreflightFails, Submit,
     AbandonUnpaid, Send, PaidOutcomeLost, PaidAnswer, Settle, NotVerified,
     Reconcile, ReconcileFails
<1> QED
  BY <1>1, <1>2 DEF LifeInv

(* A step of a call is its own: other calls and the processes stay.        *)
LEMMA CallsAreLocal ==
    ASSUME HandlersOK, NEW g \in Handlers, HandlerStep(g) \/ ClientStep(g)
    PROVE  /\ UNCHANGED procVars
           /\ \A h \in Handlers \ {g} : hs'[h] = hs[h]
           /\ HandlerStep(g) => \/ hs'[g].pc = "idle"
                                \/ hs'[g].proc = hs[g].proc /\ hs'[g].key = hs[g].key
           /\ ClientStep(g) => hs'[g] = hs[g] \/ hs'[g].proc = listener
<1> USE DEF HandlersOK, Idle
<1>1. CASE ClientStep(g)
  <2>1. ~HandlerStep(g) \/ hs[g].pc # "idle"
    BY DEF HandlerStep, ReserveFor, ReserveReplays, PreflightFails, Submit,
       AbandonUnpaid, Send, PaidOutcomeLost, PaidAnswer, Settle, NotVerified,
       Reconcile, ReconcileFails
  <2>2. hs[g].pc = "idle"
    BY <1>1 DEF ClientStep, Accept, Replay, ReconcileAccept
  <2>3. PICK k \in Keys :
          \/ \E f \in Fingerprints : Accept(g, k, f) \/ Replay(g, k, f)
          \/ \E s \in Signatures : ReconcileAccept(g, k, s)
    BY <1>1 DEF ClientStep
  <2>4. CASE \E f \in Fingerprints : Accept(g, k, f)
    BY <2>1, <2>2, <2>4 DEF Accept
  <2>5. CASE \E f \in Fingerprints : Replay(g, k, f)
    BY <2>1, <2>2, <2>5 DEF Replay
  <2>6. CASE \E s \in Signatures : ReconcileAccept(g, k, s)
    BY <2>1, <2>2, <2>6 DEF ReconcileAccept
  <2> QED
    BY <2>3, <2>4, <2>5, <2>6
<1>2. CASE HandlerStep(g) /\ ~ClientStep(g)
  <2>1. CASE \/ ReserveReplays(g) \/ PreflightFails(g) \/ AbandonUnpaid(g)
             \/ PaidOutcomeLost(g) \/ Settle(g) \/ NotVerified(g)
             \/ Reconcile(g) \/ ReconcileFails(g)
    BY <1>2, <2>1 DEF ReserveReplays, PreflightFails, AbandonUnpaid,
       PaidOutcomeLost, Settle, NotVerified, Reconcile, ReconcileFails,
       AnswerWith
  <2>2. CASE \/ \E a \in Amounts : ReserveFor(g, a) \/ Submit(g, a)
             \/ Send(g)
             \/ \E s \in Signatures, b \in Bodies : PaidAnswer(g, s, b)
    BY <1>2, <2>2 DEF ReserveFor, Submit, Send, PaidAnswer, Moved
  <2> QED
    BY <1>2, <2>1, <2>2 DEF HandlerStep
<1> QED
  BY <1>1, <1>2

(* Life cycles of processes and calls agree, for any number of processes.  *)
LEMMA LifeStep ==
    ASSUME TypeInv, LifeInv, Next
    PROVE  LifeInv'
<1>1. /\ proc \in [Procs -> {"down", "recovering", "up", "closing"}]
      /\ todo \in [Procs -> SUBSET Keys]
      /\ DOMAIN seen = Procs /\ hs \in [Handlers -> Handler]
      /\ listener \in Procs \cup {None} /\ HandlersOK
  BY DEF TypeInv, TypeOK, HandlersOK
<1>2. ASSUME NEW p \in Procs, StartupStep(p) \/ Stop(p) \/ Exit(p)
      PROVE  LifeInv'
  <2>1. hs' = hs
    BY <1>2 DEF StartupStep, Start, RecoverRead, RecoverWrite, Listen, Stop, Exit
  <2>2. CASE Start(p)
    BY <1>1, <2>1, <2>2 DEF Start, LifeInv
  <2>3. CASE RecoverRead(p)
    BY <1>1, <2>1, <2>3 DEF RecoverRead, LifeInv
  <2>4. CASE RecoverWrite(p)
    BY <1>1, <2>1, <2>4 DEF RecoverWrite, LifeInv
  <2>5. CASE Listen(p)
    BY <1>1, <2>1, <2>5 DEF Listen, LifeInv
  <2>6. CASE Stop(p)
    BY <1>1, <2>1, <2>6 DEF Stop, LifeInv
  <2>7. CASE Exit(p)
    BY <1>1, <2>1, <2>7 DEF Exit, LifeInv
  <2> QED
    BY <1>2, <2>2, <2>3, <2>4, <2>5, <2>6, <2>7 DEF StartupStep
<1>3. ASSUME NEW p \in Procs, Crash(p)
      PROVE  LifeInv'
  <2>1. \A h \in Handlers : hs'[h] = IF hs[h].proc = p THEN Idle ELSE hs[h]
    BY <1>3 DEF Crash
  <2>2. \A h \in Handlers : hs'[h].pc # "idle" => hs'[h] = hs[h] /\ hs[h].proc # p
    BY <2>1 DEF Idle
  <2>3. \A q \in Procs \ {p} : proc'[q] = proc[q] /\ todo'[q] = todo[q]
                                /\ seen'[q] = seen[q]
    BY <1>1, <1>3 DEF Crash
  <2>4. todo'[p] = {} /\ seen'[p] = None
    BY <1>1, <1>3 DEF Crash
  <2>5. listener' = IF listener = p THEN None ELSE listener
    BY <1>3 DEF Crash
  <2> QED
    BY <1>1, <2>2, <2>3, <2>4, <2>5 DEF LifeInv
<1>4. ASSUME NEW g \in Handlers, HandlerStep(g) \/ ClientStep(g)
      PROVE  LifeInv'
  <2>1. UNCHANGED <<proc, listener, todo, seen>>
    BY <1>1, <1>4, CallsAreLocal DEF procVars
  <2>2. \A h \in Handlers : hs'[h].pc # "idle" =>
            \/ hs'[h] = hs[h]
            \/ HandlerStep(g) /\ h = g /\ hs'[h].proc = hs[h].proc
            \/ ClientStep(g) /\ hs'[h].proc = listener
    BY <1>1, <1>4, CallsAreLocal
  <2>3. /\ ClientStep(g) => listener # None /\ proc[listener] = "up"
        /\ HandlerStep(g) => /\ hs[g].proc \in Procs
                             /\ proc[hs[g].proc] \in {"up", "closing"}
    BY StepsAreAlive
  <2> QED
    BY <1>1, <2>1, <2>2, <2>3 DEF LifeInv
<1>5. CASE \E t \in sent : ChainSettles(t)
  BY <1>5 DEF ChainSettles, procVars, LifeInv
<1> QED
  BY <1>2, <1>3, <1>4, <1>5 DEF Next

-----------------------------------------------------------------------------
(* While the only process recovers, no call is taken and none runs.        *)
LEMMA RecoveryIsAlone ==
    ASSUME OneProcess, TypeInv, LifeInv,
           NEW p \in Procs, proc[p] = "recovering",
           NEW h \in Handlers
    PROVE  ~ClientStep(h) /\ ~HandlerStep(h)
<1>1. listener \in Procs \cup {None}
  BY DEF TypeInv, TypeOK
<1> QED
  BY <1>1, StepsAreAlive DEF OneProcess

(* What recovery selected stays unfinished until it is visited.            *)
LEMMA RecoveryStep ==
    ASSUME OneProcess, OneInv, Next
    PROVE  RecoveryInv'
<1>1. /\ TypeInv /\ LifeInv /\ RecoveryInv
      /\ DOMAIN proc = Procs /\ todo \in [Procs -> SUBSET Keys]
      /\ DOMAIN seen = Procs /\ JournalTypeOK /\ rows \in [Keys -> Row]
  BY DEF OneInv, TypeInv, TypeOK, JournalTypeOK
<1> SUFFICES ASSUME NEW p \in Procs, proc'[p] = "recovering", NEW k \in Keys
             PROVE  /\ rows'[k].status \in Unfinished
                           <=> k \in todo'[p] \/ Visiting(p, k)'
                    /\ Visiting(p, k)' => /\ seen'[p][2] = rows'[k].status
                                          /\ k \notin todo'[p]
  BY DEF RecoveryInv
<1>2. \A q \in Procs : q = p
  BY DEF OneProcess
<1>3. CASE Start(p)
  <2>1. UNCHANGED <<rows, seen>> /\ seen[p] = None
    BY <1>1, <1>3 DEF Start, journalVars, LifeInv
  <2>2. todo'[p] = {j \in Keys : rows[j].status \in Unfinished}
    BY <1>1, <1>3 DEF Start
  <2> QED
    BY <2>1, <2>2 DEF Visiting
<1>4. ASSUME proc[p] = "recovering"
      PROVE  \A j \in Keys :
               /\ rows[j].status \in Unfinished <=> j \in todo[p] \/ Visiting(p, j)
               /\ Visiting(p, j) => seen[p][2] = rows[j].status /\ j \notin todo[p]
  BY <1>1, <1>4 DEF RecoveryInv
<1>5. CASE RecoverRead(p)
  <2>1. PICK j \in todo[p] :
          /\ seen' = [seen EXCEPT ![p] = <<j, rows[j].status>>]
          /\ todo' = [todo EXCEPT ![p] = @ \ {j}]
    BY <1>5 DEF RecoverRead
  <2>2. UNCHANGED rows /\ seen[p] = None /\ proc[p] = "recovering"
    BY <1>5 DEF RecoverRead, journalVars
  <2>3. seen'[p] = <<j, rows[j].status>> /\ todo'[p] = todo[p] \ {j}
    BY <1>1, <2>1
  <2>4. seen'[p] # None
    <3>1. j \in Keys /\ rows[j].status \in Statuses
      BY <1>1, <2>1 DEF TypeInv, RecoveryOK, JournalTypeOK, Row
    <3> QED
      BY <2>3, <3>1, SwitchAssumption
  <2>5. Visiting(p, k)' <=> k = j
    BY <2>3, <2>4 DEF Visiting
  <2>6. ~Visiting(p, k)
    BY <2>2 DEF Visiting
  <2> QED
    BY <1>4, <2>2, <2>3, <2>5, <2>6
<1>6. CASE RecoverWrite(p)
  <2>1. proc[p] = "recovering" /\ seen[p] # None
    BY <1>1, <1>6 DEF RecoverWrite, LifeInv
  <2>2. PICK j : j = seen[p][1]
    OBVIOUS
  <2>3. j \in Keys /\ Visiting(p, j)
    BY <1>1, <2>1, <2>2 DEF TypeInv, RecoveryOK, Visiting
  <2>4. seen[p][2] = rows[j].status /\ rows[j].status \in Unfinished /\ j \notin todo[p]
    BY <1>4, <2>1, <2>3
  <2>5. Recover(j, seen[p][2])
    BY <1>6, <2>2, <2>4 DEF RecoverWrite
  <2>6. rows'[j].status = "unknown" /\ \A i \in Keys \ {j} : rows'[i] = rows[i]
    BY <1>1, <2>3, <2>5 DEF Recover, Commit, Updated
  <2>7. seen'[p] = None /\ todo'[p] = todo[p]
    BY <1>1, <1>6 DEF RecoverWrite
  <2>8. ~Visiting(p, k)' /\ (Visiting(p, k) <=> k = j)
    BY <2>1, <2>2, <2>7 DEF Visiting
  <2> QED
    BY <1>4, <2>1, <2>4, <2>6, <2>7, <2>8 DEF Unfinished
<1>7. CASE \E t \in sent : ChainSettles(t)
  <2>1. UNCHANGED <<rows, proc, todo, seen>>
    BY <1>7 DEF ChainSettles, journalVars, procVars
  <2> QED
    BY <1>4, <2>1 DEF Visiting
<1>8. CASE Listen(p) \/ Stop(p) \/ Exit(p) \/ Crash(p)
  BY <1>1, <1>8 DEF Listen, Stop, Exit, Crash
<1>9. CASE \E h \in Handlers : ClientStep(h) \/ HandlerStep(h)
  <2>1. proc[p] = "recovering"
    BY <1>1, <1>9, CallsAreLocal DEF procVars, TypeInv
  <2> QED
    BY <1>1, <1>9, <2>1, RecoveryIsAlone
<1> QED
  BY <1>2, <1>3, <1>5, <1>6, <1>7, <1>8, <1>9 DEF Next, StartupStep

(* Nothing is up, selected or running at first.                            *)
LEMMA OneInit == Init => OneInv
<1> SUFFICES ASSUME Init PROVE OneInv
  OBVIOUS
<1>1. TypeInv
  BY TypeInit DEF Init
<1>2. LifeInv /\ RecoveryInv
  BY DEF Init, Idle, LifeInv, RecoveryInv
<1> QED
  BY <1>1, <1>2 DEF OneInv

(* Types, life cycles and recovery, together.                              *)
LEMMA OneStep ==
    ASSUME OneProcess, OneInv, JournalInv, [Next]_vars
    PROVE  OneInv'
<1>1. TypeInv'
  BY TypeStep DEF OneInv
<1>2. CASE Next
  BY <1>1, <1>2, LifeStep, RecoveryStep DEF OneInv
<1>3. CASE UNCHANGED vars
  BY <1>1, <1>3 DEF vars, OneInv, LifeInv, RecoveryInv, Visiting
<1> QED
  BY <1>2, <1>3

(* The inductive invariant of one process at a time.                       *)
LEMMA OneInvariant ==
    ASSUME OneProcess
    PROVE  Spec => [](OneInv /\ JournalInv)
<1>1. Init => OneInv /\ JournalInv
  BY OneInit, JournalInvInit DEF Init
<1>2. OneInv /\ JournalInv /\ [Next]_vars => (OneInv /\ JournalInv)'
  BY OneStep, TypeStep DEF OneInv
<1> QED
  BY <1>1, <1>2, PTL DEF Spec

(* Recovery finds the row it visits as it read it, and unfinished.         *)
LEMMA RecoveryFindsUnfinished ==
    ASSUME OneInv, NEW p \in Procs, RecoverWrite(p)
    PROVE  \E k \in Keys : /\ rows[k].status \in Unfinished
                           /\ Recover(k, rows[k].status)
<1>1. proc[p] = "recovering" /\ seen[p] # None
  BY DEF RecoverWrite, OneInv, LifeInv
<1>2. PICK k : k = seen[p][1]
  OBVIOUS
<1>3. k \in Keys /\ Visiting(p, k)
  BY <1>1, <1>2 DEF OneInv, TypeInv, RecoveryOK, Visiting
<1>4. seen[p][2] = rows[k].status /\ rows[k].status \in Unfinished
  BY <1>1, <1>3 DEF OneInv, RecoveryInv
<1> QED
  BY <1>2, <1>3, <1>4 DEF RecoverWrite

(* application-sidecar.ts recoverUnfinished, docs/application-payment-     *)
(* boundary.md "A process restart moves reserved and submitted rows to     *)
(* unknown": it moves no others as long as one process has the journal     *)
(* open.  (With two it does: run sidecar_overlap.)                         *)
THEOREM OneProcessRestart ==
    ASSUME OneProcess
    PROVE  Spec => RestartMovesOnlyUnfinished
<1>1. ASSUME OneInv, NEW p \in Procs, RecoverWrite(p), NEW j \in Keys,
             rows'[j] # rows[j]
      PROVE  rows[j].status \in Unfinished
  <2>1. PICK k \in Keys : /\ rows[k].status \in Unfinished
                          /\ Recover(k, rows[k].status)
    BY <1>1, RecoveryFindsUnfinished
  <2>2. j = k
    BY <1>1, <2>1, CommitEffect DEF Recover, OneInv, TypeInv, TypeOK
  <2> QED
    BY <2>1, <2>2
<1>2. OneInv /\ [Next]_vars =>
          [\A p \in Procs : RecoverWrite(p) =>
               \A k \in Keys : rows'[k] # rows[k] => rows[k].status \in Unfinished]_vars
  BY <1>1
<1> QED
  BY <1>2, OneInvariant, PTL DEF Spec, RestartMovesOnlyUnfinished

(* application-sidecar.ts start-up, the same sentence: with one process at *)
(* a time a restart leaves no row reserved or submitted, whatever crashed, *)
(* whichever writes failed and whatever evidence was misattributed.        *)
THEOREM OneProcessRecovers ==
    ASSUME OneProcess
    PROVE  Spec => ServesOnlyRecovered
<1>1. ASSUME OneInv, NEW p \in Procs, Listen(p), NEW k \in Keys
      PROVE  rows[k].status \notin Unfinished
  <2>1. proc[p] = "recovering" /\ todo[p] = {} /\ ~Visiting(p, k)
    BY <1>1 DEF Listen, Visiting
  <2> QED
    BY <1>1, <2>1 DEF OneInv, RecoveryInv
<1>2. OneInv /\ [Next]_vars =>
          [\A p \in Procs : Listen(p) =>
               \A k \in Keys : rows[k].status \notin Unfinished]_vars
  BY <1>1
<1> QED
  BY <1>2, OneInvariant, PTL DEF Spec, ServesOnlyRecovered

-----------------------------------------------------------------------------
(* One process at a time implements PaymentService.                        *)

(* What a caller can know of a row.                                        *)
Told(row) == [status |-> CallStatus(row.status), fp |-> row.fp,
              body |-> IF row.status = "settled_verified" THEN row.body ELSE None]

Calls == [k \in Keys |-> Told(rows[k])]

(* The operations of the journal, recovery restricted to unfinished rows.  *)
ServiceOp(k) ==
    \/ \E f \in Fingerprints, a \in Amounts : Reserve(k, f, a)
    \/ MarkSubmitted(k)
    \/ \E s \in Signatures, b \in Bodies : MarkSettled(k, s, b)
    \/ \E s \in Signatures \cup {None}, b \in Bodies \cup {None} :
           MarkUnknown(k, s, b)
    \/ Abort(k)
    \/ \E s \in Signatures : ReconcileUnknown(k, s)
    \/ rows[k].status \in Unfinished /\ Recover(k, rows[k].status)

(* A call uses operations of the service.                                  *)
LEMMA CallsOperate ==
    ASSUME HandlersOK, NEW h \in Handlers, HandlerStep(h)
    PROVE  UNCHANGED journalVars \/ \E k \in Keys : ServiceOp(k)
<1>1. HandlerOK(h)
  BY DEF HandlersOK
<1>2. CASE \E a \in Amounts : ReserveFor(h, a)
  BY <1>1, <1>2 DEF ReserveFor, HandlerOK, ServiceOp
<1>3. CASE \E a \in Amounts : Submit(h, a)
  BY <1>1, <1>3 DEF Submit, HandlerOK, ServiceOp
<1>4. CASE AbandonUnpaid(h)
  BY <1>1, <1>4 DEF AbandonUnpaid, HandlerOK, ServiceOp
<1>5. ASSUME NEW s \in Signatures \cup {None}, NEW b \in Bodies \cup {None},
             hs[h].key \in Keys, MarkUnknownIfPossible(hs[h].key, s, b)
      PROVE  UNCHANGED journalVars \/ \E k \in Keys : ServiceOp(k)
  BY <1>5 DEF MarkUnknownIfPossible, ServiceOp
<1>6. CASE PaidOutcomeLost(h)
  BY <1>1, <1>5, <1>6 DEF PaidOutcomeLost, HandlerOK
<1>7. CASE NotVerified(h)
  BY <1>1, <1>5, <1>7 DEF NotVerified, HandlerOK
<1>8. CASE Settle(h)
  <2>1. hs[h].key \in Keys /\ hs[h].tx \in Signatures /\ hs[h].body \in Bodies
    BY <1>1, <1>8 DEF Settle, HandlerOK
  <2>2. CASE MarkSettled(hs[h].key, hs[h].tx, hs[h].body)
    BY <2>1, <2>2 DEF ServiceOp
  <2> QED
    BY <1>5, <1>8, <2>1, <2>2 DEF Settle
<1>9. CASE Reconcile(h)
  BY <1>1, <1>9 DEF Reconcile, HandlerOK, ServiceOp
<1>10. CASE \/ ReserveReplays(h) \/ PreflightFails(h) \/ Send(h)
            \/ \E s \in Signatures, b \in Bodies : PaidAnswer(h, s, b)
            \/ ReconcileFails(h)
  BY <1>10 DEF ReserveReplays, PreflightFails, Send, PaidAnswer, ReconcileFails
<1> QED
  BY <1>2, <1>3, <1>4, <1>6, <1>7, <1>8, <1>9, <1>10 DEF HandlerStep

(* With one process, recovery too.                                         *)
LEMMA OneProcessOperates ==
    ASSUME OneInv, Next
    PROVE  UNCHANGED journalVars \/ \E k \in Keys : ServiceOp(k)
<1>1. HandlersOK
  BY DEF OneInv, TypeInv
<1>2. CASE \E p \in Procs : RecoverWrite(p)
  BY <1>2, RecoveryFindsUnfinished DEF ServiceOp
<1>3. CASE \E h \in Handlers : HandlerStep(h)
  BY <1>1, <1>3, CallsOperate
<1>4. CASE \/ \E p \in Procs : ~RecoverWrite(p) /\ (\/ StartupStep(p) \/ Stop(p)
                                                   \/ Exit(p) \/ Crash(p))
           \/ \E h \in Handlers : ClientStep(h)
           \/ \E t \in sent : ChainSettles(t)
  BY <1>4 DEF StartupStep, Start, RecoverRead, Listen, Stop, Exit, Crash,
     ClientStep, Accept, Replay, ReconcileAccept, ChainSettles
<1> QED
  BY <1>2, <1>3, <1>4 DEF Next

(* The service seen through the refinement mapping.                        *)
LEMMA AdvanceMeans ==
    ASSUME NEW k \in Keys, NEW from, NEW to, NEW f, NEW b,
           CallStatus(rows[k].status) = from,
           Calls' = [Calls EXCEPT ![k] = [status |-> to, fp |-> f, body |-> b]]
    PROVE  Service!Advance(k, from, to, f, b)
  BY DEF Service!Advance, Calls, Told

(* Every operation advances its key, or tells callers nothing new.         *)
LEMMA OperationServes ==
    ASSUME JournalTypeOK, NEW k \in Keys, ServiceOp(k)
    PROVE  Service!ServiceNext \/ Calls' = Calls
<1>1. rows \in [Keys -> Row] /\ rows[k].fp = Calls[k].fp
  BY DEF JournalTypeOK, Calls, Told
<1>2. ASSUME NEW r, NEW e, Commit(k, r, e)
      PROVE  Calls' = [Calls EXCEPT ![k] = Told(r)]
  BY <1>1, <1>2 DEF Commit, Calls
<1> USE DEF CallStatus, Unfinished
<1>3. CASE \E f \in Fingerprints, a \in Amounts : Reserve(k, f, a)
  <2>1. PICK f \in Fingerprints, a \in Amounts : Reserve(k, f, a)
    BY <1>3
  <2>2. Calls' = [Calls EXCEPT ![k] = [status |-> "open", fp |-> f, body |-> None]]
    BY <1>2, <2>1 DEF Reserve, Told
  <2>3. Service!Open(k, f)
    BY <2>1, <2>2, AdvanceMeans DEF Reserve, Service!Open
  <2> QED
    BY <2>3 DEF Service!ServiceNext
<1>4. CASE MarkSubmitted(k)
  <2>1. Calls' = [Calls EXCEPT ![k] = [status |-> "open", fp |-> rows[k].fp, body |-> None]]
    BY <1>2, <1>4 DEF MarkSubmitted, Updated, Told
  <2>2. Calls[k] = [status |-> "open", fp |-> rows[k].fp, body |-> None]
    BY <1>4 DEF MarkSubmitted, Calls, Told
  <2> QED
    BY <2>1, <2>2 DEF Calls
<1>5. CASE \E s \in Signatures, b \in Bodies : MarkSettled(k, s, b)
  <2>1. PICK s \in Signatures, b \in Bodies : MarkSettled(k, s, b)
    BY <1>5
  <2>2. Calls' = [Calls EXCEPT ![k] =
                     [status |-> "settled", fp |-> rows[k].fp, body |-> b]]
    BY <1>2, <2>1 DEF MarkSettled, Updated, Told
  <2>3. Service!SettleCall(k, b)
    BY <1>1, <2>1, <2>2, AdvanceMeans
       DEF MarkSettled, CanSettle, Service!SettleCall, Calls, Told
  <2> QED
    BY <2>3 DEF Service!ServiceNext, Service!FinishCall
<1>6. CASE \/ \E s \in Signatures \cup {None}, b \in Bodies \cup {None} :
                  MarkUnknown(k, s, b)
           \/ rows[k].status \in Unfinished /\ Recover(k, rows[k].status)
  <2>1. PICK s, b, e : Commit(k, Updated(k, "unknown", s, b), e)
    BY <1>6 DEF MarkUnknown, Recover
  <2>2. Calls' = [Calls EXCEPT ![k] =
                     [status |-> "unknown", fp |-> rows[k].fp, body |-> None]]
    BY <1>2, <2>1 DEF Updated, Told
  <2>3. CallStatus(rows[k].status) = "open"
    BY <1>6 DEF MarkUnknown, CanMarkUnknown
  <2>4. Service!LoseCall(k)
    BY <2>2, <2>3, AdvanceMeans DEF Service!LoseCall, Calls, Told
  <2> QED
    BY <2>4 DEF Service!ServiceNext, Service!FinishCall
<1>7. CASE Abort(k)
  <2>1. Calls' = [Calls EXCEPT ![k] =
                     [status |-> "released", fp |-> rows[k].fp, body |-> None]]
    BY <1>2, <1>7 DEF Abort, Updated, Told
  <2>2. Service!ReleaseCall(k)
    BY <1>7, <2>1, AdvanceMeans DEF Abort, Service!ReleaseCall, Calls, Told
  <2> QED
    BY <2>2 DEF Service!ServiceNext, Service!FinishCall
<1>8. CASE \E s \in Signatures : ReconcileUnknown(k, s)
  <2>1. PICK s \in Signatures : ReconcileUnknown(k, s)
    BY <1>8
  <2>2. Calls' = [Calls EXCEPT ![k] =
                     [status |-> "reconciled", fp |-> rows[k].fp, body |-> None]]
    BY <1>2, <2>1 DEF ReconcileUnknown, Updated, Told
  <2>3. Service!ReconcileCall(k)
    BY <2>1, <2>2, AdvanceMeans
       DEF ReconcileUnknown, CanReconcile, Service!ReconcileCall, Calls, Told
  <2> QED
    BY <2>3 DEF Service!ServiceNext, Service!FinishCall
<1> QED
  BY <1>3, <1>4, <1>5, <1>6, <1>7, <1>8 DEF ServiceOp

(* PaymentService.tla, what application_payment.py relies on: calls that   *)
(* talk to one sidecar process at a time see every key open once and end   *)
(* once, whatever crashes and restarts do, journal writes that fail and    *)
(* evidence that belongs to another call included.                         *)
THEOREM OneProcessServes ==
    ASSUME OneProcess
    PROVE  Spec => ServesCalls
<1>1. Init => Service!ServiceInit
  BY DEF Init, JournalInit, NoRow, Service!ServiceInit, Service!NoCall,
         CallStatus, Unfinished
<1>2. ASSUME OneInv, [Next]_vars
      PROVE  Service!ServiceNext \/ Calls' = Calls
  <2>1. JournalTypeOK
    BY <1>2 DEF OneInv, TypeInv, TypeOK
  <2>2. CASE UNCHANGED journalVars
    BY <2>2 DEF journalVars, Calls
  <2>3. CASE \E k \in Keys : ServiceOp(k)
    BY <2>1, <2>3, OperationServes
  <2>4. CASE UNCHANGED vars
    BY <2>4 DEF vars, Calls
  <2> QED
    BY <1>2, <2>2, <2>3, <2>4, OneProcessOperates
<1>3. OneInv /\ [Next]_vars =>
          [Service!ServiceNext]_([k \in Keys |->
                    [status |-> CallStatus(rows[k].status),
                     fp     |-> rows[k].fp,
                     body   |-> IF rows[k].status = "settled_verified"
                                THEN rows[k].body ELSE None]])
  BY <1>2 DEF Calls, Told
<1> QED
  BY <1>1, <1>3, OneInvariant, PTL DEF Spec, ServesCalls, Service!ServiceSpec

-----------------------------------------------------------------------------
(* Evidence that belongs to its call, and who works on unfinished rows.    *)

(* A transaction gets into a row from a call that holds it.                *)
LEMMA RowEvidence ==
    ASSUME TypeInv, Next, NEW k \in Keys, rows'[k].tx \notin {rows[k].tx, None}
    PROVE  \E h \in Handlers : /\ hs[h].pc \in {"paid", "verifying", "reconciling"}
                               /\ hs[h].key = k /\ rows'[k].tx = hs[h].tx
<1>1. /\ JournalTypeOK /\ HandlersOK
      /\ \A p \in Procs : RecoverWrite(p) => seen[p][1] \in Keys
  BY DEF TypeInv, TypeOK, RecoveryOK, RecoverWrite
<1>2. ASSUME NEW j \in Keys, NEW r, NEW e, Commit(j, r, e)
      PROVE  j = k /\ rows'[k] = r
  BY <1>1, <1>2, CommitEffect
<1>3. ASSUME NEW j \in Keys, NEW t, NEW b, NEW st, NEW e,
             Commit(j, Updated(j, st, t, b), e)
      PROVE  j = k /\ rows'[k].tx = t
  BY <1>2, <1>3 DEF Updated
<1>3a. CASE \E p \in Procs : RecoverWrite(p)
  <2>1. PICK p \in Procs : RecoverWrite(p)
    BY <1>3a
  <2>2. PICK j \in Keys : j = seen[p][1]
    BY <1>1, <2>1
  <2>3. Recover(j, seen[p][2])
    BY <2>1, <2>2 DEF RecoverWrite, journalVars
  <2> QED
    BY <1>3, <2>3 DEF Recover
<1>4. CASE \E h \in Handlers : HandlerStep(h)
  <2>1. PICK h \in Handlers : HandlerStep(h)
    BY <1>4
  <2>2. HandlerOK(h)
    BY <1>1 DEF HandlersOK
  <2>3a. CASE \E a \in Amounts : ReserveFor(h, a)
    <3>1. PICK a \in Amounts : ReserveFor(h, a)
      BY <2>3a
    <3>2. hs[h].key \in Keys
      BY <2>2, <3>1 DEF ReserveFor, HandlerOK
    <3>3. PICK r, e : Commit(hs[h].key, r, e) /\ r.tx = None
      BY <3>1 DEF ReserveFor, Reserve
    <3> QED
      BY <1>2, <3>2, <3>3
  <2>3b. ASSUME hs[h].key \in Keys,
                \/ MarkSubmitted(hs[h].key) \/ Abort(hs[h].key)
                \/ UNCHANGED journalVars
         PROVE  FALSE
    BY <1>3, <2>3b DEF MarkSubmitted, Abort, journalVars
  <2>3c. CASE (\E a \in Amounts : Submit(h, a)) \/ AbandonUnpaid(h)
    BY <2>2, <2>3b, <2>3c DEF Submit, AbandonUnpaid, HandlerOK
  <2>4. ASSUME NEW s, NEW b, hs[h].key \in Keys,
               MarkUnknownIfPossible(hs[h].key, s, b)
        PROVE  hs[h].key = k /\ rows'[k].tx = s
    <3>1. MarkUnknown(hs[h].key, s, b)
      BY <2>4 DEF MarkUnknownIfPossible, journalVars
    <3> QED
      BY <1>2, <2>4, <3>1 DEF MarkUnknown, Updated
  <2>5. CASE PaidOutcomeLost(h)
    BY <2>2, <2>4, <2>5 DEF PaidOutcomeLost, HandlerOK
  <2>6. CASE NotVerified(h)
    BY <2>2, <2>4, <2>6 DEF NotVerified, HandlerOK
  <2>7. CASE Settle(h)
    <3>1. hs[h].key \in Keys /\ hs[h].pc = "verifying"
      BY <2>2, <2>7 DEF Settle, HandlerOK
    <3>2. CASE MarkSettled(hs[h].key, hs[h].tx, hs[h].body)
      BY <1>2, <3>1, <3>2 DEF MarkSettled, Updated
    <3> QED
      BY <2>4, <2>7, <3>1, <3>2 DEF Settle
  <2>8. CASE Reconcile(h)
    BY <1>2, <2>2, <2>8 DEF Reconcile, ReconcileUnknown, Updated, HandlerOK
  <2>9. CASE \/ ReserveReplays(h) \/ PreflightFails(h) \/ Send(h)
             \/ \E s \in Signatures, b \in Bodies : PaidAnswer(h, s, b)
             \/ ReconcileFails(h)
    BY <2>9 DEF ReserveReplays, PreflightFails, Send, PaidAnswer,
       ReconcileFails, journalVars
  <2> QED
    BY <2>1, <2>3a, <2>3c, <2>5, <2>6, <2>7, <2>8, <2>9 DEF HandlerStep
<1>5. CASE \/ \E p \in Procs : ~RecoverWrite(p) /\ (\/ StartupStep(p) \/ Stop(p)
                                                   \/ Exit(p) \/ Crash(p))
           \/ \E h \in Handlers : ClientStep(h)
           \/ \E t \in sent : ChainSettles(t)
  BY <1>5 DEF StartupStep, Start, RecoverRead, Listen, Stop, Exit, Crash,
     ClientStep, Accept, Replay, ReconcileAccept, ChainSettles, journalVars
<1> QED
  BY <1>3a, <1>4, <1>5 DEF Next

(* Without misattribution, evidence stays with the key it was sent for.    *)
LEMMA EvidenceStep ==
    ASSUME ~Misattribution, TypeInv, EvidenceInv, Next
    PROVE  EvidenceInv'
<1>1. ASSUME NEW s, NEW k, SentFor(s, k)
      PROVE  SentFor(s, k)'
  BY <1>1, ChainGrows DEF SentFor
<1>2. ASSUME NEW h \in Handlers, hs'[h].pc \in {"paid", "verifying", "reconciling"}
      PROVE  SentFor(hs[h].tx, hs[h].key)' 
  <2>1. hs \in [Handlers -> Handler]
    BY DEF TypeInv, HandlersOK
  <2>2. CASE hs'[h] = hs[h]
    BY <1>1, <1>2, <2>2 DEF EvidenceInv, SentFor
  <2>3. CASE Send(h)
    <3>1. PICK s \in Signatures :
            /\ sent' = sent \cup {[sig |-> s, key |-> hs[h].key,
                                   amount |-> hs[h].amount]}
            /\ Moved(h, "paid", hs[h].amount, s, None)
      BY <2>3 DEF Send
    <3>2. hs'[h].tx = s /\ hs'[h].key = hs[h].key
      BY <2>1, <3>1 DEF Moved
    <3>3. PICK t : t = [sig |-> s, key |-> hs[h].key, amount |-> hs[h].amount]
      OBVIOUS
    <3>4. t \in sent' /\ t.sig = s /\ t.key = hs[h].key
      BY <3>1, <3>3
    <3> QED
      BY <3>2, <3>4 DEF SentFor
  <2>4. CASE \E s \in Signatures, b \in Bodies : PaidAnswer(h, s, b)
    <3>1. /\ hs'[h].tx = hs[h].tx /\ hs'[h].key = hs[h].key
          /\ hs[h].pc = "paid"
      BY <2>1, <2>4 DEF PaidAnswer, Moved
    <3> QED
      BY <1>1, <3>1 DEF EvidenceInv, SentFor
  <2>5. CASE \E k \in Keys, s \in Signatures : ReconcileAccept(h, k, s)
    <3>1. PICK k \in Keys, s \in Signatures : ReconcileAccept(h, k, s)
      BY <2>5
    <3>2. hs'[h].tx = s /\ hs'[h].key = k /\ SentFor(s, k)
      BY <2>1, <3>1 DEF ReconcileAccept, SentFor
    <3> QED
      BY <1>1, <3>2 DEF SentFor
  <2>6. CASE \E a \in Amounts : ReserveFor(h, a) \/ Submit(h, a)
    BY <1>2, <2>1, <2>6 DEF ReserveFor, Submit, Moved
  <2> QED
    BY <1>2, <2>2, <2>3, <2>4, <2>5, <2>6, HandlerMoves
<1>3. ASSUME NEW k \in Keys, rows'[k].tx # None
      PROVE  SentFor(rows[k].tx, k)'
  <2>1. CASE rows'[k].tx = rows[k].tx
    BY <1>1, <1>3, <2>1 DEF EvidenceInv, SentFor
  <2>2. CASE rows'[k].tx # rows[k].tx
    <3>1. PICK h \in Handlers : /\ hs[h].pc \in {"paid", "verifying", "reconciling"}
                                /\ hs[h].key = k /\ rows'[k].tx = hs[h].tx
      BY <1>3, <2>2, RowEvidence
    <3> QED
      BY <1>1, <3>1 DEF EvidenceInv, SentFor
  <2> QED
    BY <2>1, <2>2
<1> QED
  BY <1>2, <1>3 DEF EvidenceInv

(* No other row holds the signature of a payment sent for this one.        *)
LEMMA OwnSignatureIsFree ==
    ASSUME EvidenceInv, SentInv, NEW k \in Keys, NEW s, SentFor(s, k)
    PROVE  SignatureFree(k, s)
  BY DEF EvidenceInv, SentInv, SentFor, SignatureFree

-----------------------------------------------------------------------------
(* A step of a call leaves no row unfinished that it worked on and left.   *)
LEMMA WorkPassesOn ==
    ASSUME ~JournalMayFail, JournalTypeOK, HandlersOK, EvidenceInv, SentInv,
           NEW g \in Handlers, HandlerStep(g),
           NEW k \in Keys, rows'[k].status \in Unfinished
    PROVE  \/ Owns(g, k)'
           \/ rows'[k].status = rows[k].status /\ ~Owns(g, k)
<1>1. HandlerOK(g) /\ hs \in [Handlers -> Handler]
  BY DEF HandlersOK
<1>2. ASSUME NEW r, NEW e, hs[g].key \in Keys, Commit(hs[g].key, r, e),
             hs[g].key # k
      PROVE  rows'[k].status = rows[k].status /\ ~Owns(g, k)
  BY <1>2, CommitEffect DEF Owns
<1>3. ASSUME NEW r, NEW e, hs[g].key \in Keys, Commit(hs[g].key, r, e),
             r.status \notin Unfinished
      PROVE  hs[g].key # k
  BY <1>3, CommitEffect
<1> USE DEF Unfinished
<1>4. CASE \E a \in Amounts : ReserveFor(g, a)
  <2>1. PICK a \in Amounts : ReserveFor(g, a)
    BY <1>4
  <2>2. /\ hs[g].key \in Keys /\ hs'[g].pc = "challenge" /\ hs'[g].key = hs[g].key
    BY <1>1, <2>1 DEF ReserveFor, HandlerOK, Moved
  <2>3. PICK r, e : Commit(hs[g].key, r, e) /\ r.status = "reserved"
    BY <2>1 DEF ReserveFor, Reserve
  <2> QED
    BY <1>2, <2>2, <2>3, CommitEffect DEF Owns
<1>5. CASE \E a \in Amounts : Submit(g, a)
  <2>1. PICK a \in Amounts : Submit(g, a)
    BY <1>5
  <2>2. /\ hs[g].key \in Keys /\ hs'[g].pc = "sending" /\ hs'[g].key = hs[g].key
    BY <1>1, <2>1 DEF Submit, HandlerOK, Moved
  <2>3. PICK r, e : Commit(hs[g].key, r, e) /\ r.status = "submitted"
    BY <2>1 DEF Submit, MarkSubmitted, Updated
  <2> QED
    BY <1>2, <2>2, <2>3, CommitEffect DEF Owns
<1>6. CASE AbandonUnpaid(g)
  <2>1. hs[g].key \in Keys /\ hs[g].pc = "challenge"
    BY <1>1, <1>6 DEF AbandonUnpaid, HandlerOK
  <2>2. CASE Abort(hs[g].key)
    BY <1>2, <1>3, <2>1, <2>2 DEF Abort, Updated
  <2>3. CASE rows[hs[g].key].status # "reserved" /\ UNCHANGED journalVars
    BY <2>1, <2>3 DEF Owns, journalVars
  <2> QED
    BY <1>6, <2>2, <2>3 DEF AbandonUnpaid
<1>7. ASSUME NEW s, NEW b, hs[g].key \in Keys,
             hs[g].pc \in {"paid", "verifying"},
             SignatureFree(hs[g].key, s), MarkUnknownIfPossible(hs[g].key, s, b)
      PROVE  rows'[k].status = rows[k].status /\ ~Owns(g, k)
  <2>1. CASE MarkUnknown(hs[g].key, s, b)
    BY <1>2, <1>3, <1>7, <2>1 DEF MarkUnknown, Updated
  <2>2. CASE ~CanMarkUnknown(hs[g].key, s) /\ UNCHANGED journalVars
    BY <1>7, <2>2 DEF Owns, CanMarkUnknown, journalVars
  <2> QED
    BY <1>7, <2>1, <2>2 DEF MarkUnknownIfPossible
<1>8. CASE PaidOutcomeLost(g)
  <2>1. hs[g].key \in Keys /\ hs[g].pc = "paid" /\ SignatureFree(hs[g].key, None)
    BY <1>1, <1>8 DEF PaidOutcomeLost, HandlerOK, SignatureFree
  <2> QED
    BY <1>7, <1>8, <2>1 DEF PaidOutcomeLost
<1>9. ASSUME hs[g].pc = "verifying"
      PROVE  hs[g].key \in Keys /\ SignatureFree(hs[g].key, hs[g].tx)
  BY <1>1, <1>9, OwnSignatureIsFree DEF HandlerOK, EvidenceInv
<1>10. CASE NotVerified(g)
  BY <1>7, <1>9, <1>10 DEF NotVerified
<1>11. CASE Settle(g)
  <2>1. hs[g].pc = "verifying"
    BY <1>11 DEF Settle
  <2>2. CASE MarkSettled(hs[g].key, hs[g].tx, hs[g].body)
    BY <1>2, <1>3, <1>9, <2>1, <2>2 DEF MarkSettled, Updated
  <2> QED
    BY <1>7, <1>9, <1>11, <2>1, <2>2 DEF Settle
<1>12. CASE Reconcile(g)
  <2>1. hs[g].key \in Keys
    BY <1>1, <1>12 DEF Reconcile, HandlerOK
  <2> QED
    BY <1>2, <1>3, <1>12, <2>1 DEF Reconcile, ReconcileUnknown, Updated
<1>13. CASE Send(g)
  <2>1. /\ UNCHANGED rows /\ hs[g].pc = "sending"
        /\ hs'[g].pc = "paid" /\ hs'[g].key = hs[g].key
    BY <1>1, <1>13 DEF Send, Moved, journalVars
  <2> QED
    BY <2>1 DEF Owns
<1>14. CASE \E s \in Signatures, b \in Bodies : PaidAnswer(g, s, b)
  <2>1. /\ UNCHANGED rows /\ hs[g].pc = "paid"
        /\ hs'[g].pc = "verifying" /\ hs'[g].key = hs[g].key
    BY <1>1, <1>14 DEF PaidAnswer, Moved, journalVars
  <2> QED
    BY <2>1 DEF Owns
<1>15. CASE ReserveReplays(g) \/ PreflightFails(g) \/ ReconcileFails(g)
  BY <1>15 DEF ReserveReplays, PreflightFails, ReconcileFails, Owns, journalVars
<1> QED
  BY <1>4, <1>5, <1>6, <1>8, <1>10, <1>11, <1>12, <1>13, <1>14, <1>15
     DEF HandlerStep

(* An unfinished row has its call, however the process came to serve.      *)
LEMMA OwnerStep ==
    ASSUME OneProcess, ~JournalMayFail, OneInv, EvidenceInv, SentInv, OwnerInv,
           Next
    PROVE  OwnerInv'
<1>1. /\ TypeInv /\ LifeInv /\ RecoveryInv /\ JournalTypeOK /\ HandlersOK
      /\ DOMAIN proc = Procs
  BY DEF OneInv, TypeInv, TypeOK
<1> SUFFICES ASSUME NEW p \in Procs, proc'[p] \in {"up", "closing"},
                    NEW k \in Keys, rows'[k].status \in Unfinished
             PROVE  \E h \in Handlers : Owns(h, k)'
  BY DEF OwnerInv
<1>2. \A q \in Procs : q = p
  BY DEF OneProcess
<1>3. ASSUME UNCHANGED <<rows, hs>>, proc[p] \in {"up", "closing"}
      PROVE  \E h \in Handlers : Owns(h, k)'
  BY <1>3 DEF OwnerInv, Owns
<1>4. CASE Listen(p)
  BY <1>1, <1>4 DEF Listen, RecoveryInv, Visiting, journalVars
<1>5. CASE Stop(p)
  BY <1>3, <1>5 DEF Stop, journalVars
<1>6. CASE Start(p) \/ RecoverRead(p) \/ RecoverWrite(p) \/ Exit(p) \/ Crash(p)
  BY <1>1, <1>6 DEF Start, RecoverRead, RecoverWrite, Exit, Crash, LifeInv
<1>7. CASE \E t \in sent : ChainSettles(t)
  BY <1>3, <1>7 DEF ChainSettles, procVars, journalVars
<1>8. ASSUME NEW g \in Handlers, ClientStep(g)
      PROVE  \E h \in Handlers : Owns(h, k)'
  <2>1. /\ UNCHANGED <<rows, proc>> /\ hs[g].pc = "idle"
    BY <1>8 DEF ClientStep, Accept, Replay, ReconcileAccept, journalVars, procVars
  <2>2. PICK h \in Handlers : Owns(h, k)
    BY <2>1 DEF OwnerInv
  <2>3. h # g
    BY <2>1, <2>2 DEF Owns
  <2>4. hs'[h] = hs[h]
    BY <1>1, <1>8, <2>3, CallsAreLocal
  <2> QED
    BY <2>1, <2>2, <2>4 DEF Owns
<1>9. ASSUME NEW g \in Handlers, HandlerStep(g)
      PROVE  \E h \in Handlers : Owns(h, k)'
  <2>1. UNCHANGED proc
    BY <1>1, <1>9, CallsAreLocal DEF procVars
  <2>2. CASE Owns(g, k)'
    BY <2>2
  <2>3. CASE rows'[k].status = rows[k].status /\ ~Owns(g, k)
    <3>1. PICK h \in Handlers : Owns(h, k)
      BY <2>1, <2>3 DEF OwnerInv
    <3>2. hs'[h] = hs[h]
      BY <1>1, <1>9, <2>3, <3>1, CallsAreLocal
    <3> QED
      BY <2>3, <3>1, <3>2 DEF Owns
  <2> QED
    BY <1>1, <1>9, <2>2, <2>3, WorkPassesOn
<1> QED
  BY <1>2, <1>4, <1>5, <1>6, <1>7, <1>8, <1>9 DEF Next, StartupStep

(* application-sidecar.ts handlePaidRequest and recoverUnfinished: while   *)
(* one process serves, a call is at work on every row that is unfinished,  *)
(* so none waits for a restart, provided that journal writes succeed and   *)
(* evidence names the call's own payment.                                  *)
THEOREM OneProcessOwns ==
    ASSUME OneProcess, ~JournalMayFail, ~Misattribution
    PROVE  Spec => []UnfinishedIsOwned
<1>1. Init => OwnerInv /\ EvidenceInv
  <2> SUFFICES ASSUME Init PROVE OwnerInv /\ EvidenceInv
    OBVIOUS
  <2>1. /\ \A p \in Procs : proc[p] = "down"
        /\ \A h \in Handlers : hs[h].pc = "idle"
        /\ \A k \in Keys : rows[k].tx = None
    BY DEF Init, JournalInit, NoRow, Idle
  <2> QED
    BY <2>1 DEF OwnerInv, EvidenceInv
<1>2. ASSUME OneInv, SafetyInv, OwnerInv, EvidenceInv, [Next]_vars
      PROVE  OwnerInv' /\ EvidenceInv'
  <2>1. CASE Next
    BY <1>2, <2>1, OwnerStep, EvidenceStep DEF OneInv, SafetyInv
  <2>2. CASE UNCHANGED vars
    BY <1>2, <2>2 DEF vars, OwnerInv, Owns, EvidenceInv, SentFor
  <2> QED
    BY <1>2, <2>1, <2>2
<1>3. OwnerInv => UnfinishedIsOwned
  BY DEF OwnerInv, Owns, UnfinishedIsOwned
<1> QED
  BY <1>1, <1>2, <1>3, OneInvariant, SafetyInvariant, PTL DEF Spec
=============================================================================
