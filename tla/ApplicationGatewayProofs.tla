----------------------- MODULE ApplicationGatewayProofs -----------------------
(***************************************************************************)
(* Proofs about the evidence database and the decide path, for any number  *)
(* of keys, requests, Miners, threads, restarts and clock readings.        *)
(*                                                                         *)
(* The argument: what is stored only grows (Grows), and a thread carries   *)
(* nothing but what is stored (ThreadOK).  So what a thread read before a  *)
(* wait is still there when it seals, whatever the other threads did.      *)
(***************************************************************************)
EXTENDS ApplicationGateway, TLAPS

-------------------------------------------------------------------------------
(* The evidence database, whoever calls it.  The type lemmas of its        *)
(* operations are used again for the gateway, whose threads call them.     *)

(* Each operation keeps the tables well typed.                             *)

(* bind_application_request.                                               *)
LEMMA BindTyped ==
    ASSUME StoreTypeOK, NEW a \in AppKeys, NEW r \in Requests, BindRequest(a, r)
    PROVE  StoreTypeOK'
BY DEF StoreTypeOK, BindRequest

(* create.                                                                 *)
LEMMA CreateTyped ==
    ASSUME StoreTypeOK, NEW e \in Events, CreateCase(e)
    PROVE  StoreTypeOK'
<1>1. cases[e] \in Case
    BY DEF StoreTypeOK
<1>2. [created |-> TRUE, decision |-> cases[e].decision,
       truth |-> cases[e].truth] \in Case
    BY <1>1 DEF Case
<1> QED  BY <1>2 DEF StoreTypeOK, CreateCase

(* record_reply.                                                           *)
LEMMA RecordReplyTyped ==
    ASSUME StoreTypeOK, NEW e \in Events, NEW m \in Miners,
           NEW b \in Bodies \cup {None}, RecordReply(e, m, b)
    PROVE  StoreTypeOK'
<1>1. [event |-> e, miner |-> m, body |-> b] \in Reply
    BY DEF Reply
<1> QED  BY <1>1 DEF StoreTypeOK, RecordReply

(* seal_decision.                                                          *)
LEMMA SealTyped ==
    ASSUME StoreTypeOK, NEW e \in Events, NEW d \in Decision, SealDecision(e, d)
    PROVE  StoreTypeOK'
<1>1. RepliesOf(e, d) \subseteq Reply
    BY DEF RepliesOf, Reply, Decision
<1>2. cases[e] \in Case
    BY DEF StoreTypeOK
<1>3. [created |-> TRUE, decision |-> d, truth |-> cases[e].truth] \in Case
    BY <1>2 DEF Case
<1>4. cases' \in [Events -> Case]
    BY <1>3 DEF StoreTypeOK, SealDecision, Sealed
<1> QED  BY <1>1, <1>4 DEF StoreTypeOK, SealDecision

(* _insert_observation_in_transaction.                                     *)
LEMMA InsertTyped ==
    ASSUME StoreTypeOK, NEW e \in Events, NEW o \in ObsIds, NEW x \in Readings,
           InsertObservation(e, o, x)
    PROVE  observations' \in [ObsIds -> Observation \cup {None}]
<1>1. [event |-> e, reading |-> x] \in Observation
    BY DEF Observation
<1> QED  BY <1>1 DEF StoreTypeOK, InsertObservation

(* resolve.                                                                *)
LEMMA ResolveTyped ==
    ASSUME StoreTypeOK, NEW e \in Events, NEW res \in Resolution, Resolve(e, res),
           observations' \in [ObsIds -> Observation \cup {None}]
    PROVE  StoreTypeOK'
<1>1. cases[e] \in Case
    BY DEF StoreTypeOK
<1>2. [created |-> TRUE, decision |-> cases[e].decision,
       truth |-> IF cases[e].truth = None THEN res ELSE cases[e].truth] \in Case
    BY <1>1 DEF Case
<1>3. cases' \in [Events -> Case]
    BY <1>2 DEF StoreTypeOK, Resolve
<1> QED  BY <1>3 DEF StoreTypeOK, Resolve

-----------------------------------------------------------------------------
(* The conjunction is inductive: the three statements need the types and   *)
(* nothing else.                                                           *)
StoreInv == StoreTypeOK /\ TruthIsTraced /\ DecisionHasReplies

(* The empty database satisfies it.                                        *)
LEMMA StoreInitInv ==
    ASSUME StoreInit
    PROVE  StoreInv
<1>1. NoCase \in Case
    BY DEF NoCase, Case
<1>2. StoreTypeOK
    BY <1>1 DEF StoreInit, StoreTypeOK
<1> QED  BY <1>2 DEF StoreInit, StoreInv, TruthIsTraced, DecisionHasReplies, NoCase

(* What every operation does to the tables: it keeps what was stored first *)
(* and loses no reply and no resolution.                                   *)
Keeps ==
    /\ \A a \in AppKeys : binding[a] # None => binding'[a] = binding[a]
    /\ \A e \in Events :
           /\ cases[e].decision # None => cases'[e].decision = cases[e].decision
           /\ cases[e].truth # None => cases'[e].truth = cases[e].truth
    /\ \A o \in ObsIds : observations[o] # None => observations'[o] = observations[o]
    /\ replies \subseteq replies'
    /\ resolutions \subseteq resolutions'

(* resolve, with or without an observation.                                *)
LEMMA ResolveKeeps ==
    ASSUME StoreInv, NEW e \in Events, NEW res \in Resolution, Resolve(e, res),
           res.event = e,
           observations' \in [ObsIds -> Observation \cup {None}],
           \A o \in ObsIds : observations[o] # None => observations'[o] = observations[o],
           res.obs # None =>
               observations'[res.obs] = [event |-> e, reading |-> res.reading]
    PROVE  StoreInv' /\ Keeps
<1> USE DEF StoreInv
<1>1. StoreTypeOK'
    BY ResolveTyped
<1>2. /\ cases'[e].decision = cases[e].decision
      /\ cases'[e].truth = IF cases[e].truth = None THEN res ELSE cases[e].truth
      /\ \A f \in Events \ {e} : cases'[f] = cases[f]
    BY DEF Resolve, StoreTypeOK
<1>3. Keeps
    BY <1>2 DEF Keeps, Resolve
<1>4. TruthIsTraced'
  <2>1. ASSUME NEW f \in Events, cases'[f].truth # None
        PROVE  cases'[f].truth \in resolutions'
    BY <1>2, <2>1 DEF Resolve, TruthIsTraced
  <2>2. ASSUME NEW q \in resolutions'
        PROVE  /\ cases'[q.event].decision # None
               /\ q.obs # None =>
                      observations'[q.obs] =
                          [event |-> q.event, reading |-> q.reading]
    <3>1. CASE q = res
      BY <1>2, <3>1 DEF Resolve
    <3>2. CASE q \in resolutions
      <4>1. q \in Resolution
        BY <3>2 DEF StoreTypeOK
      <4>2. q.obs # None =>
                /\ q.obs \in ObsIds
                /\ [event |-> q.event, reading |-> q.reading] \in Observation
        BY <4>1 DEF Resolution, Observation
      <4>3. q.event \in Events
        BY <4>1 DEF Resolution
      <4>4. cases'[q.event].decision # None
        <5>1. cases[q.event].decision # None
          BY <3>2 DEF TruthIsTraced
        <5>2. cases'[q.event].decision = cases[q.event].decision
          BY <1>2, <4>3
        <5> QED  BY <5>1, <5>2
      <4>5. ASSUME q.obs # None
            PROVE  observations'[q.obs] = [event |-> q.event, reading |-> q.reading]
        <5>1. observations[q.obs] = [event |-> q.event, reading |-> q.reading]
          BY <3>2, <4>5 DEF TruthIsTraced
        <5>2. observations[q.obs] # None
          BY <5>1, <4>2, <4>5, StoreAssumption
        <5> QED  BY <5>1, <5>2, <4>2, <4>5
      <4> QED  BY <4>4, <4>5
    <3> QED  BY <2>2, <3>1, <3>2 DEF Resolve
  <2> QED  BY <2>1, <2>2 DEF TruthIsTraced
<1>5. DecisionHasReplies'
    BY <1>2 DEF DecisionHasReplies, Resolve, RepliesOf
<1> QED  BY <1>1, <1>3, <1>4, <1>5

(* record_observation, and the first half of resolve.                      *)
LEMMA InsertKeeps ==
    ASSUME StoreTypeOK, NEW e \in Events, NEW o \in ObsIds, NEW x \in Readings,
           InsertObservation(e, o, x)
    PROVE  /\ \A p \in ObsIds :
                  observations[p] # None => observations'[p] = observations[p]
           /\ observations'[o] = [event |-> e, reading |-> x]
BY DEF InsertObservation, CanObserve, StoreTypeOK

(* Every operation of the store preserves the invariant and keeps what was *)
(* stored first.                                                           *)
LEMMA StoreStep ==
    ASSUME StoreInv, StoreNext
    PROVE  StoreInv' /\ Keeps
<1> USE DEF StoreInv
<1>1. ASSUME NEW a \in AppKeys, NEW r \in Requests, BindRequest(a, r)
      PROVE  StoreInv' /\ Keeps
  <2>1. StoreTypeOK'
    BY <1>1, BindTyped
  <2> QED  BY <1>1, <2>1 DEF BindRequest, Keeps, StoreTypeOK, TruthIsTraced,
                             DecisionHasReplies, RepliesOf
<1>2. ASSUME NEW e \in Events, CreateCase(e)
      PROVE  StoreInv' /\ Keeps
  <2>1. StoreTypeOK'
    BY <1>2, CreateTyped
  <2>2. \A f \in Events : cases'[f].decision = cases[f].decision
                         /\ cases'[f].truth = cases[f].truth
    BY <1>2 DEF CreateCase, StoreTypeOK
  <2>3. Keeps
    BY <1>2, <2>2 DEF CreateCase, Keeps
  <2>4. DecisionHasReplies'
    BY <1>2, <2>2 DEF CreateCase, DecisionHasReplies, RepliesOf
  <2>5. \A res \in resolutions : res.event \in Events
    BY DEF StoreTypeOK, Resolution
  <2>6. TruthIsTraced'
    BY <1>2, <2>2, <2>5 DEF CreateCase, TruthIsTraced
  <2> QED  BY <2>1, <2>3, <2>4, <2>6
<1>3. ASSUME NEW e \in Events, NEW m \in Miners, NEW b \in Bodies \cup {None},
             RecordReply(e, m, b)
      PROVE  StoreInv' /\ Keeps
  <2>1. StoreTypeOK'
    BY <1>3, RecordReplyTyped
  <2> QED  BY <1>3, <2>1 DEF RecordReply, Keeps, TruthIsTraced,
                             DecisionHasReplies, RepliesOf
<1>4. ASSUME NEW e \in Events, NEW d \in Decision, SealDecision(e, d)
      PROVE  StoreInv' /\ Keeps
  <2>1. StoreTypeOK'
    BY <1>4, SealTyped
  <2>2. /\ cases[e].decision = None
        /\ cases'[e].decision = d
        /\ cases'[e].truth = cases[e].truth
        /\ \A f \in Events \ {e} : cases'[f] = cases[f]
    BY <1>4 DEF SealDecision, Sealed, StoreTypeOK
  <2>3. Keeps
    BY <1>4, <2>2 DEF SealDecision, Keeps
  <2>4. DecisionHasReplies'
    BY <1>4, <2>2 DEF SealDecision, DecisionHasReplies, RepliesOf
  <2>5. \A res \in resolutions : res.event \in Events
    BY DEF StoreTypeOK, Resolution
  <2>6. d # None
    BY StoreAssumption
  <2>7. TruthIsTraced'
    BY <1>4, <2>2, <2>5, <2>6 DEF SealDecision, TruthIsTraced
  <2> QED  BY <2>1, <2>3, <2>4, <2>7
<1>5. ASSUME NEW e \in Events, NEW o \in ObsIds, NEW x \in Readings,
             RecordObservation(e, o, x)
      PROVE  StoreInv' /\ Keeps
  <2>1. InsertObservation(e, o, x)
    BY <1>5 DEF RecordObservation
  <2>2. StoreTypeOK'
    BY <1>5, <2>1, InsertTyped DEF RecordObservation, StoreTypeOK
  <2>3. \A p \in ObsIds : observations[p] # None => observations'[p] = observations[p]
    BY <2>1, InsertKeeps
  <2>4. Keeps
    BY <1>5, <2>3 DEF RecordObservation, Keeps
  <2>5. DecisionHasReplies'
    BY <1>5 DEF RecordObservation, DecisionHasReplies, RepliesOf
  <2>6. ASSUME NEW res \in resolutions, res.obs # None
        PROVE  observations'[res.obs] = [event |-> res.event, reading |-> res.reading]
    <3>1. res.obs \in ObsIds /\ [event |-> res.event, reading |-> res.reading] # None
      BY <2>6, StoreAssumption DEF StoreTypeOK, Resolution, Observation
    <3>2. observations[res.obs] = [event |-> res.event, reading |-> res.reading]
      BY <2>6 DEF TruthIsTraced
    <3> QED  BY <2>3, <3>1, <3>2
  <2>7. TruthIsTraced'
    BY <1>5, <2>6 DEF RecordObservation, TruthIsTraced
  <2> QED  BY <2>2, <2>4, <2>5, <2>7
<1>6. ASSUME NEW e \in Events, NEW o \in ObsIds, NEW x \in Readings,
             ResolveObserved(e, o, x)
      PROVE  StoreInv' /\ Keeps
  <2> DEFINE res == [event |-> e, obs |-> o, reading |-> x]
  <2>1. InsertObservation(e, o, x) /\ Resolve(e, res)
    BY <1>6 DEF ResolveObserved
  <2>2. res \in Resolution /\ res.event = e /\ res.obs = o /\ res.reading = x
    BY DEF Resolution
  <2>3. observations' \in [ObsIds -> Observation \cup {None}]
    BY <2>1, InsertTyped
  <2>4. /\ \A p \in ObsIds : observations[p] # None => observations'[p] = observations[p]
        /\ observations'[o] = [event |-> e, reading |-> x]
    BY <2>1, InsertKeeps
  <2> HIDE DEF res
  <2> QED  BY <2>1, <2>2, <2>3, <2>4, ResolveKeeps
<1>7. ASSUME NEW e \in Events, ResolveMissing(e)
      PROVE  StoreInv' /\ Keeps
  <2> DEFINE res == [event |-> e, obs |-> None, reading |-> None]
  <2>1. Resolve(e, res) /\ observations' = observations
    BY <1>7 DEF ResolveMissing
  <2>2. res \in Resolution /\ res.event = e /\ res.obs = None
    BY DEF Resolution
  <2>3. observations' \in [ObsIds -> Observation \cup {None}]
    BY <2>1 DEF StoreTypeOK
  <2> HIDE DEF res
  <2> QED  BY <2>1, <2>2, <2>3, ResolveKeeps
<1> QED  BY <1>1, <1>2, <1>3, <1>4, <1>5, <1>6, <1>7 DEF StoreNext

(* A step that changes no table.                                           *)
LEMMA StoreStutter ==
    ASSUME StoreInv, UNCHANGED storeVars
    PROVE  StoreInv' /\ Keeps
BY DEF StoreInv, storeVars, StoreTypeOK, TruthIsTraced, DecisionHasReplies,
       RepliesOf, Keeps

(* Types, traced ground truths and the replies of every decision, under    *)
(* any order of calls by any number of callers.                            *)
THEOREM StoreInvariant == StoreSpec => []StoreInv
<1>1. StoreInit => StoreInv
    BY StoreInitInv
<1>2. StoreInv /\ [StoreNext]_storeVars => StoreInv'
    BY StoreStep, StoreStutter
<1> QED  BY <1>1, <1>2, PTL DEF StoreSpec

(* Every ground truth is traced to the stored observation it came from.    *)
THEOREM StoreTruthTraced == StoreSpec => []TruthIsTraced
<1>1. StoreInv => TruthIsTraced
    BY DEF StoreInv
<1> QED  BY <1>1, StoreInvariant, PTL

(* Every sealed decision has its replies in the reply table.               *)
THEOREM StoreDecisionHasReplies == StoreSpec => []DecisionHasReplies
<1>1. StoreInv => DecisionHasReplies
    BY DEF StoreInv
<1> QED  BY <1>1, StoreInvariant, PTL

(* First binding, decision, ground truth and observation are final.        *)
THEOREM StoreFirstIsFinal == StoreSpec => FirstIsFinal
<1>1. StoreInv /\ [StoreNext]_storeVars => [Keeps]_storeVars
    BY StoreStep
<1> QED  BY <1>1, StoreInvariant, PTL DEF StoreSpec, FirstIsFinal, Keeps

-------------------------------------------------------------------------------
(* The decide path.                                                        *)

(* The payment of Miner m for event e settled with body b.                 *)
Settled(e, m, b) ==
    calls[<<e[1], m>>].status = "settled" /\ calls[<<e[1], m>>].body = b

InDemand(e, m, b) ==
    demand[<<e[1], m>>] # None /\ demand[<<e[1], m>>].body = b

InReplies(e, m, b) == [event |-> e, miner |-> m, body |-> b] \in replies

Backed(e, m, b) == Settled(e, m, b) /\ InDemand(e, m, b) /\ InReplies(e, m, b)

(* What a thread holds at each point of decide().                          *)
ThreadOK(h) ==
    /\ hs[h].pc # "idle" =>
           hs[h].event \in Events /\ binding[hs[h].event[1]] = hs[h].event[2]
    /\ hs[h].pc = "waiting" =>
           hs[h].fp \in Fingerprints /\ hs[h].fp[1] = Place[hs[h].event[2]]
    /\ hs[h].pc = "paid" =>
           hs[h].body \in Bodies /\ Settled(hs[h].event, hs[h].miner, hs[h].body)
    /\ hs[h].pc = "replied" /\ hs[h].body # None =>
           /\ Settled(hs[h].event, hs[h].miner, hs[h].body)
           /\ InDemand(hs[h].event, hs[h].miner, hs[h].body)
    /\ \A m \in Miners : hs[h].got[m] # None =>
           hs[h].pc # "idle" /\ Backed(hs[h].event, m, hs[h].got[m])

ThreadsOK == \A h \in Handlers : ThreadOK(h)

SettledHasBody ==
    \A k \in PayKeys : calls[k].status = "settled" => calls[k].body \in Bodies

SealedIsCreated ==
    \A e \in Events : cases[e].decision # None => cases[e].created

AnswersStored ==
    \A x \in answers : x.decision = cases[x.event].decision

(* The part of the invariant that speaks of no thread.                     *)
Stored ==
    /\ KeyHasOneMeaning
    /\ SettledHasBody
    /\ SealedIsCreated
    /\ DecisionIsPaid
    /\ AnswersStored

GatewayInv == TypeOK /\ Stored /\ ThreadsOK

(* Nothing stored is lost or replaced in a step.                           *)
Grows ==
    /\ \A a \in AppKeys : binding[a] # None => binding'[a] = binding[a]
    /\ \A k \in PayKeys :
           /\ demand[k] # None => demand'[k] = demand[k]
           /\ calls[k].status = "settled" => calls'[k] = calls[k]
    /\ \A e \in Events : cases[e].decision # None =>
           cases'[e].decision = cases[e].decision
    /\ replies \subseteq replies'

-----------------------------------------------------------------------------
(* A thread that does not move keeps what it holds.                        *)
LEMMA ThreadFrame ==
    ASSUME TypeOK, Grows, NEW h \in Handlers, ThreadOK(h), hs'[h] = hs[h]
    PROVE  ThreadOK(h)'
<1>1. hs[h] \in Handler
    BY DEF TypeOK
<1>2. hs[h].miner \in Miners
    BY <1>1 DEF Handler
<1>3. ASSUME NEW e \in Events, NEW m \in Miners
      PROVE  <<e[1], m>> \in PayKeys
    BY <1>3 DEF Events, PayKeys
<1>4. ASSUME NEW e \in Events, NEW m \in Miners, NEW b
      PROVE  /\ Settled(e, m, b) => Settled(e, m, b)'
             /\ InDemand(e, m, b) => InDemand(e, m, b)'
             /\ InReplies(e, m, b) => InReplies(e, m, b)'
    BY <1>3 DEF Grows, Settled, InDemand, InReplies
<1>5. hs[h].pc # "idle" =>
          /\ hs[h].event \in Events
          /\ binding[hs[h].event[1]] = hs[h].event[2]
          /\ binding'[hs[h].event[1]] = hs[h].event[2]
  <2>1. SUFFICES ASSUME hs[h].pc # "idle"
                 PROVE  binding'[hs[h].event[1]] = hs[h].event[2]
    BY DEF ThreadOK
  <2>2. /\ hs[h].event \in Events /\ binding[hs[h].event[1]] = hs[h].event[2]
        /\ hs[h].event[1] \in AppKeys /\ hs[h].event[2] \in Requests
    BY <2>1 DEF ThreadOK, Events
  <2>3. hs[h].event[2] # None
    BY <2>2, StoreAssumption
  <2> QED  BY <2>2, <2>3 DEF Grows
<1>6. (hs[h].pc = "paid" => hs[h].pc # "idle")
      /\ (hs[h].pc = "replied" => hs[h].pc # "idle")
    OBVIOUS
<1>7. (hs[h].pc = "paid" =>
           hs[h].body \in Bodies /\ Settled(hs[h].event, hs[h].miner, hs[h].body))'
    BY <1>2, <1>4, <1>5, <1>6 DEF ThreadOK, Settled
<1>8. (hs[h].pc = "replied" /\ hs[h].body # None =>
           /\ Settled(hs[h].event, hs[h].miner, hs[h].body)
           /\ InDemand(hs[h].event, hs[h].miner, hs[h].body))'
  <2>1. SUFFICES ASSUME hs[h].pc = "replied", hs[h].body # None
                 PROVE  /\ Settled(hs[h].event, hs[h].miner, hs[h].body)'
                        /\ InDemand(hs[h].event, hs[h].miner, hs[h].body)'
    OBVIOUS
  <2>2. PICK e, b : e = hs[h].event /\ b = hs[h].body
    OBVIOUS
  <2>3. PICK m \in Miners : m = hs[h].miner
    BY <1>2
  <2>4. e \in Events /\ Settled(e, m, b) /\ InDemand(e, m, b)
    BY <2>1, <2>2, <2>3, <1>5 DEF ThreadOK
  <2>5. Settled(e, m, b)' /\ InDemand(e, m, b)'
    BY <2>4, <1>4
  <2>6. e = hs'[h].event /\ b = hs'[h].body /\ m = hs'[h].miner
    BY <2>2, <2>3
  <2> QED  BY <2>5, <2>6
<1>9. (\A m \in Miners : hs[h].got[m] # None =>
           hs[h].pc # "idle" /\ Backed(hs[h].event, m, hs[h].got[m]))'
  <2>1. SUFFICES ASSUME NEW m \in Miners, hs'[h].got[m] # None
                 PROVE  hs'[h].pc # "idle" /\ Backed(hs[h].event, m, hs[h].got[m])'
    OBVIOUS
  <2>2. PICK e, b : e = hs[h].event /\ b = hs[h].got[m]
    OBVIOUS
  <2>3. hs[h].pc # "idle" /\ e \in Events /\ Backed(e, m, b)
    BY <2>1, <2>2, <1>5 DEF ThreadOK
  <2>4. Backed(e, m, b)'
    BY <2>3, <1>4 DEF Backed
  <2>5. e = hs'[h].event /\ b = hs'[h].got[m]
    BY <2>2
  <2> QED  BY <2>3, <2>4, <2>5
<1> QED  BY <1>5, <1>7, <1>8, <1>9 DEF ThreadOK

(* So a step preserves the invariant if its own thread keeps it.           *)
LEMMA ThreadStep ==
    ASSUME TypeOK, ThreadsOK, Grows, NEW h \in Handlers, NEW rec,
           hs' = [hs EXCEPT ![h] = rec], ThreadOK(h)'
    PROVE  ThreadsOK'
<1>1. \A g \in Handlers \ {h} : hs'[g] = hs[g]
    BY DEF TypeOK
<1>2. \A g \in Handlers \ {h} : ThreadOK(g)'
    BY <1>1, ThreadFrame DEF ThreadsOK
<1> QED  BY <1>2 DEF ThreadsOK

(* A step of the environment moves no thread.                              *)
LEMMA ThreadsFrame ==
    ASSUME TypeOK, ThreadsOK, Grows, hs' = hs
    PROVE  ThreadsOK'
BY ThreadFrame DEF ThreadsOK

-----------------------------------------------------------------------------
(* Steps that store nothing.                                               *)

(* Nothing stored changes, so nothing said of it does.                     *)
LEMMA StoredFrame ==
    ASSUME Stored, UNCHANGED <<storeVars, calls, demand, answers>>
    PROVE  Stored' /\ Grows
BY DEF Stored, storeVars, KeyHasOneMeaning, SettledHasBody, SealedIsCreated,
       DecisionIsPaid, AnswersStored, Grows, HasUsable

(* An idle thread is well typed and holds nothing.                         *)
LEMMA IdleOK ==
    /\ Idle \in Handler
    /\ Idle.pc = "idle"
    /\ \A m \in Miners : Idle.got[m] = None
<1>1. 1 \in Miners
    BY StoreAssumption DEF Miners
<1> QED  BY <1>1 DEF Idle, Handler

(* A thread that answers leaves the others as they are.                    *)
LEMMA FinishThread ==
    ASSUME TypeOK, ThreadsOK, Grows, NEW h \in Handlers, Finish(h)
    PROVE  ThreadsOK' /\ hs' \in [Handlers -> Handler]
<1>1. hs'[h] = Idle
    BY DEF Finish, TypeOK
<1>2. ThreadOK(h)'
    BY <1>1, IdleOK DEF ThreadOK
<1> QED  BY <1>2, IdleOK, ThreadStep DEF Finish, TypeOK

(* Every error answer, and a 422 after the cutoff.                         *)
LEMMA FinishStep ==
    ASSUME GatewayInv, NEW h \in Handlers, Finish(h),
           UNCHANGED <<storeVars, calls, demand, clock, registry, answers>>
    PROVE  GatewayInv' /\ Grows
<1>1. Stored' /\ Grows
    BY StoredFrame DEF GatewayInv
<1>2. ThreadsOK' /\ hs' \in [Handlers -> Handler]
    BY <1>1, FinishThread DEF GatewayInv
<1> QED  BY <1>1, <1>2 DEF GatewayInv, TypeOK, StoreTypeOK, storeVars

(* AnswerStored and SealedMeanwhile.                                       *)
LEMMA AnswerStep ==
    ASSUME GatewayInv, NEW h \in Handlers, hs[h].pc # "idle",
           cases[hs[h].event].decision # None, AnswerSealed(h),
           UNCHANGED <<storeVars, calls, demand, clock, registry>>
    PROVE  GatewayInv' /\ Grows
<1>1. hs[h].event \in Events
    BY DEF GatewayInv, ThreadsOK, ThreadOK
<1>2. cases[hs[h].event].decision \in Decision
    BY <1>1 DEF GatewayInv, TypeOK, StoreTypeOK, Case
<1>3. [event |-> hs[h].event, decision |-> cases[hs[h].event].decision] \in Answer
    BY <1>1, <1>2 DEF Answer
<1>4. Grows
    BY DEF Grows, storeVars
<1>5. ThreadsOK' /\ hs' \in [Handlers -> Handler]
    BY <1>4, FinishThread DEF GatewayInv, AnswerSealed
<1>6. TypeOK'
    BY <1>3, <1>5 DEF GatewayInv, TypeOK, StoreTypeOK, storeVars, AnswerSealed
<1>7. AnswersStored'
    BY DEF GatewayInv, Stored, AnswersStored, AnswerSealed, storeVars
<1>8. KeyHasOneMeaning' /\ SettledHasBody' /\ SealedIsCreated' /\ DecisionIsPaid'
    BY DEF GatewayInv, Stored, storeVars, KeyHasOneMeaning, SettledHasBody,
           SealedIsCreated, DecisionIsPaid, HasUsable
<1> QED  BY <1>4, <1>5, <1>6, <1>7, <1>8 DEF GatewayInv, Stored

(* A thread that goes on with its current Miner.                           *)
LEMMA MovedStep ==
    ASSUME GatewayInv, NEW h \in Handlers, NEW pc, NEW fp, NEW b, Moved(h, pc, fp, b),
           UNCHANGED <<storeVars, calls, demand, clock, registry, answers>>,
           hs'[h] \in Handler, ThreadOK(h)'
    PROVE  GatewayInv' /\ Grows
<1>1. Stored' /\ Grows
    BY StoredFrame DEF GatewayInv
<1>2. ThreadsOK'
    BY <1>1, ThreadStep DEF GatewayInv, Moved
<1>3. hs' \in [Handlers -> Handler]
    BY DEF GatewayInv, TypeOK, Moved
<1> QED  BY <1>1, <1>2, <1>3 DEF GatewayInv, TypeOK, StoreTypeOK, storeVars

(* What Moved leaves in the thread's record.                               *)
LEMMA MovedFields ==
    ASSUME TypeOK, NEW h \in Handlers, NEW pc, NEW fp, NEW b, Moved(h, pc, fp, b)
    PROVE  /\ hs'[h] = [pc |-> pc, event |-> hs[h].event, miner |-> hs[h].miner,
                        fp |-> fp, body |-> b, got |-> hs[h].got]
           /\ hs[h].event \in Events \cup {None} /\ hs[h].miner \in Miners
           /\ hs[h].got \in [Miners -> Bodies \cup {None}]
BY DEF TypeOK, Moved, Handler

(* The horizon is out of the Miner's reach.                                *)
LEMMA HorizonStep ==
    ASSUME GatewayInv, NEW h \in Handlers, HorizonRejected(h)
    PROVE  GatewayInv' /\ Grows
<1>1. Moved(h, "replied", None, None) /\ hs[h].pc = "asking"
    BY DEF HorizonRejected
<1>2. hs'[h] = [pc |-> "replied", event |-> hs[h].event, miner |-> hs[h].miner,
                fp |-> None, body |-> None, got |-> hs[h].got]
    BY <1>1, MovedFields DEF GatewayInv
<1>3. hs'[h] \in Handler
    BY <1>1, <1>2, MovedFields DEF GatewayInv, Handler
<1>4. ThreadOK(h)
    BY DEF GatewayInv, ThreadsOK
<1>5. ThreadOK(h)'
    BY <1>1, <1>2, <1>4 DEF HorizonRejected, ThreadOK, Backed, Settled, InDemand,
                            InReplies, storeVars
<1> QED  BY <1>1, <1>3, <1>5, MovedStep DEF HorizonRejected

(* The request is fixed and sent.                                          *)
LEMMA AskStep ==
    ASSUME GatewayInv, NEW h \in Handlers, Ask(h)
    PROVE  GatewayInv' /\ Grows
<1>1. PICK fp : fp = Params(hs[h].miner, hs[h].event[2], clock)
    OBVIOUS
<1>2. Moved(h, "waiting", fp, None) /\ hs[h].pc = "asking"
    BY <1>1 DEF Ask
<1>3. ThreadOK(h)
    BY DEF GatewayInv, ThreadsOK
<1>4. hs[h].event \in Events /\ hs[h].event[2] \in Requests
    BY <1>2, <1>3 DEF ThreadOK, Events
<1>5. fp \in Fingerprints /\ fp[1] = Place[hs[h].event[2]]
    BY <1>1, <1>4 DEF Params, Fingerprints, Places
<1>6. hs'[h] = [pc |-> "waiting", event |-> hs[h].event, miner |-> hs[h].miner,
                fp |-> fp, body |-> None, got |-> hs[h].got]
    BY <1>2, MovedFields DEF GatewayInv
<1>7. hs'[h] \in Handler
    BY <1>2, <1>5, <1>6, MovedFields DEF GatewayInv, Handler
<1>8. ThreadOK(h)'
    BY <1>2, <1>3, <1>5, <1>6 DEF Ask, ThreadOK, Backed, Settled, InDemand,
                                  InReplies, storeVars
<1> QED  BY <1>2, <1>7, <1>8, MovedStep DEF Ask

(* A paid body arrives.                                                    *)
LEMMA ReceiveStep ==
    ASSUME GatewayInv, NEW h \in Handlers, Receive(h)
    PROVE  GatewayInv' /\ Grows
<1>1. PICK fp, b : fp = hs[h].fp /\ b = calls[PayKey(h)].body
    OBVIOUS
<1>2. Moved(h, "paid", fp, b) /\ hs[h].pc = "waiting"
    BY <1>1 DEF Receive
<1>3. ThreadOK(h)
    BY DEF GatewayInv, ThreadsOK
<1>4. hs[h].event \in Events /\ PayKey(h) \in PayKeys
    BY <1>2, <1>3, MovedFields DEF GatewayInv, ThreadOK, Events, PayKey, PayKeys
<1>5. b \in Bodies /\ Settled(hs[h].event, hs[h].miner, b)
    BY <1>1, <1>4 DEF Receive, Service!Serves, GatewayInv, Stored, SettledHasBody,
                      Settled, PayKey
<1>6. hs'[h] = [pc |-> "paid", event |-> hs[h].event, miner |-> hs[h].miner,
                fp |-> fp, body |-> b, got |-> hs[h].got]
    BY <1>2, MovedFields DEF GatewayInv
<1>7. fp \in Fingerprints \cup {None}
    BY <1>1 DEF GatewayInv, TypeOK, Handler
<1>8. hs'[h] \in Handler
    BY <1>2, <1>5, <1>6, <1>7, MovedFields DEF GatewayInv, Handler
<1>9. ThreadOK(h)'
    BY <1>2, <1>3, <1>5, <1>6 DEF Receive, ThreadOK, Backed, Settled, InDemand,
                                  InReplies, storeVars
<1> QED  BY <1>2, <1>8, <1>9, MovedStep DEF Receive

-----------------------------------------------------------------------------
(* Steps that store something.                                             *)

(* A key gets its request.  A key without one has no case, payment or      *)
(* demand event yet.                                                       *)
LEMMA BindStep ==
    ASSUME GatewayInv, NEW h \in Handlers, NEW a \in AppKeys, NEW r \in Requests,
           Bind(h, a, r)
    PROVE  GatewayInv' /\ Grows
<1> DEFINE rec == [pc |-> "bound", event |-> <<a, r>>, miner |-> 1, fp |-> None,
                   body |-> None, got |-> [m \in Miners |-> None]]
<1>1. BindRequest(a, r) /\ hs' = [hs EXCEPT ![h] = rec]
    BY DEF Bind
<1>2. StoreTypeOK'
    BY <1>1, BindTyped DEF GatewayInv, TypeOK
<1>3. /\ binding[a] \in {None, r}
      /\ binding'[a] = r
      /\ \A c \in AppKeys \ {a} : binding'[c] = binding[c]
    BY <1>1 DEF BindRequest, GatewayInv, TypeOK, StoreTypeOK
<1>4. Grows
    BY <1>1, <1>3 DEF Grows, BindRequest, Bind
<1>5. rec \in Handler /\ hs'[h] = rec
    BY <1>1, IdleOK DEF Handler, Events, GatewayInv, TypeOK, Idle
<1>6. TypeOK'
    BY <1>1, <1>2, <1>5 DEF GatewayInv, TypeOK, Bind
<1>7. ThreadOK(h)'
    BY <1>3, <1>5 DEF ThreadOK, Events
<1> HIDE DEF rec
<1>8. ThreadsOK'
    BY <1>1, <1>4, <1>7, ThreadStep DEF GatewayInv
<1>9. KeyHasOneMeaning'
  <2>1. ASSUME NEW e \in Events, cases[e].created
        PROVE  binding'[e[1]] = e[2]
    <3>1. binding[e[1]] = e[2] /\ e[1] \in AppKeys /\ e[2] \in Requests
      BY <2>1 DEF GatewayInv, Stored, KeyHasOneMeaning, Events
    <3> QED  BY <1>3, <3>1, StoreAssumption
  <2>2. ASSUME NEW k \in PayKeys, calls[k].status # "absent"
        PROVE  binding'[k[1]] # None /\ calls[k].fp[1] = Place[binding'[k[1]]]
    <3>1. /\ binding[k[1]] # None /\ calls[k].fp[1] = Place[binding[k[1]]]
          /\ k[1] \in AppKeys
      BY <2>2 DEF GatewayInv, Stored, KeyHasOneMeaning, PayKeys
    <3> QED  BY <1>3, <3>1
  <2>3. ASSUME NEW k \in PayKeys, demand[k] # None
        PROVE  demand[k].event = <<k[1], binding'[k[1]]>>
    <3>1. demand[k].event = <<k[1], binding[k[1]]>> /\ k[1] \in AppKeys
      BY <2>3 DEF GatewayInv, Stored, KeyHasOneMeaning, PayKeys
    <3>2. demand[k].event \in Events
      BY <2>3 DEF GatewayInv, TypeOK, Demand
    <3>3. binding[k[1]] \in Requests
      BY <3>1, <3>2 DEF Events
    <3> QED  BY <1>3, <3>1, <3>3, StoreAssumption
  <2> QED  BY <1>1, <2>1, <2>2, <2>3 DEF KeyHasOneMeaning, Bind, BindRequest
<1>10. SettledHasBody' /\ SealedIsCreated' /\ DecisionIsPaid' /\ AnswersStored'
    BY <1>1 DEF GatewayInv, Stored, SettledHasBody, SealedIsCreated, DecisionIsPaid,
                HasUsable, AnswersStored, Bind, BindRequest
<1> QED  BY <1>4, <1>6, <1>8, <1>9, <1>10 DEF GatewayInv, Stored

(* The case of the bound request is created.                               *)
LEMMA OpenCaseStep ==
    ASSUME GatewayInv, NEW h \in Handlers, OpenCase(h)
    PROVE  GatewayInv' /\ Grows
<1>1. Moved(h, "asking", None, None) /\ hs[h].pc = "bound"
    BY DEF OpenCase
<1>2. ThreadOK(h)
    BY DEF GatewayInv, ThreadsOK
<1>3. PICK e \in Events : e = hs[h].event /\ binding[e[1]] = e[2]
    BY <1>1, <1>2 DEF ThreadOK
<1>4. CreateCase(e)
    BY <1>3 DEF OpenCase
<1>5. StoreTypeOK'
    BY <1>4, CreateTyped DEF GatewayInv, TypeOK
<1>6. /\ \A f \in Events : cases'[f].decision = cases[f].decision
      /\ \A f \in Events \ {e} : cases'[f] = cases[f]
      /\ cases'[e].created
    BY <1>4 DEF CreateCase, GatewayInv, TypeOK, StoreTypeOK
<1>7. Grows
    BY <1>4, <1>6 DEF Grows, CreateCase, OpenCase
<1>8. hs'[h] = [pc |-> "asking", event |-> hs[h].event, miner |-> hs[h].miner,
                fp |-> None, body |-> None, got |-> hs[h].got]
    BY <1>1, MovedFields DEF GatewayInv
<1>9. hs'[h] \in Handler
    BY <1>1, <1>8, MovedFields DEF GatewayInv, Handler
<1>10. ThreadOK(h)'
    BY <1>1, <1>2, <1>4, <1>8 DEF OpenCase, CreateCase, ThreadOK, Backed, Settled,
                                  InDemand, InReplies
<1>11. ThreadsOK'
    BY <1>1, <1>7, <1>10, ThreadStep DEF GatewayInv, Moved
<1>12. TypeOK'
    BY <1>1, <1>5, <1>9 DEF GatewayInv, TypeOK, OpenCase, Moved
<1>13. KeyHasOneMeaning'
    BY <1>3, <1>4, <1>6 DEF GatewayInv, Stored, KeyHasOneMeaning, OpenCase, CreateCase
<1>14. SealedIsCreated' /\ SettledHasBody'
    BY <1>4, <1>6 DEF GatewayInv, Stored, SealedIsCreated, SettledHasBody, OpenCase
<1>15. DecisionIsPaid'
    BY <1>4, <1>6 DEF GatewayInv, Stored, DecisionIsPaid, HasUsable, OpenCase, CreateCase
<1>16. \A x \in answers : x.event \in Events
    BY DEF GatewayInv, TypeOK, Answer
<1>17. AnswersStored'
    BY <1>6, <1>16 DEF GatewayInv, Stored, AnswersStored, OpenCase
<1> QED  BY <1>7, <1>11, <1>12, <1>13, <1>14, <1>15, <1>17 DEF GatewayInv, Stored

(* The payment service moves a key on: no settled call changes.            *)
LEMMA CallStep ==
    ASSUME GatewayInv, NEW k \in PayKeys, NEW c \in Service!Call,
           calls' = [calls EXCEPT ![k] = c],
           calls[k].status # "settled",
           c.status = "settled" => c.body \in Bodies,
           binding[k[1]] # None /\ c.fp[1] = Place[binding[k[1]]],
           UNCHANGED <<storeVars, demand, clock, registry, hs, answers>>
    PROVE  GatewayInv' /\ Grows
<1>1. calls'[k] = c /\ \A j \in PayKeys \ {k} : calls'[j] = calls[j]
    BY DEF GatewayInv, TypeOK
<1>2. Grows
    BY <1>1 DEF Grows, storeVars
<1>3. ThreadsOK'
    BY <1>2, ThreadsFrame DEF GatewayInv
<1>4. TypeOK'
    BY DEF GatewayInv, TypeOK, StoreTypeOK, storeVars
<1>5. KeyHasOneMeaning' /\ SettledHasBody' /\ SealedIsCreated' /\ AnswersStored'
    BY <1>1 DEF GatewayInv, Stored, KeyHasOneMeaning, SettledHasBody,
                SealedIsCreated, AnswersStored, storeVars
<1>6. \A e \in Events, m \in Miners : <<e[1], m>> \in PayKeys
    BY DEF Events, PayKeys
<1>7. DecisionIsPaid'
    BY <1>1, <1>6 DEF GatewayInv, Stored, DecisionIsPaid, HasUsable, storeVars
<1> QED  BY <1>2, <1>3, <1>4, <1>5, <1>7 DEF GatewayInv, Stored

(* The sidecar opens a payment for a waiting thread.                       *)
LEMMA PaymentOpensStep ==
    ASSUME GatewayInv, NEW h \in Handlers, PaymentOpens(h)
    PROVE  GatewayInv' /\ Grows
<1>1. ThreadOK(h) /\ hs[h].pc = "waiting" /\ hs[h].miner \in Miners
    BY DEF GatewayInv, ThreadsOK, PaymentOpens, TypeOK, Handler
<1>2. PICK c : c = [status |-> "open", fp |-> hs[h].fp, body |-> None]
    OBVIOUS
<1>3. PICK k : k = PayKey(h)
    OBVIOUS
<1>4. /\ calls' = [calls EXCEPT ![k] = c]
      /\ calls[k].status = "absent"
    BY <1>2, <1>3 DEF PaymentOpens, Service!Open, Service!Advance
<1>5. /\ hs[h].event \in Events /\ hs[h].event[2] \in Requests
      /\ binding[hs[h].event[1]] = hs[h].event[2]
      /\ hs[h].fp \in Fingerprints /\ hs[h].fp[1] = Place[hs[h].event[2]]
    BY <1>1 DEF ThreadOK, Events
<1>6. k \in PayKeys /\ k[1] = hs[h].event[1]
    BY <1>1, <1>3, <1>5 DEF PayKey, PayKeys, Events
<1>7. c \in Service!Call /\ c.status # "settled" /\ c.fp[1] = Place[binding[k[1]]]
    BY <1>2, <1>5, <1>6 DEF Service!Call, Service!Outcomes
<1>8. binding[k[1]] # None
    BY <1>5, <1>6, StoreAssumption
<1> QED  BY <1>4, <1>6, <1>7, <1>8, CallStep DEF PaymentOpens

(* The sidecar goes on with a payment that was opened.                     *)
LEMMA PaymentEndsStep ==
    ASSUME GatewayInv, NEW k \in PayKeys, PaymentEnds(k)
    PROVE  GatewayInv' /\ Grows
<1>1. calls[k] \in Service!Call
    BY DEF GatewayInv, TypeOK
<1>2. PICK c \in Service!Call :
          /\ calls' = [calls EXCEPT ![k] = c]
          /\ calls[k].status \in {"open", "unknown"}
          /\ c.fp = calls[k].fp
          /\ c.status = "settled" => c.body \in Bodies
  <2>1. ASSUME NEW b \in Bodies, Service!SettleCall(k, b)
        PROVE  \E c \in Service!Call :
                   /\ calls' = [calls EXCEPT ![k] = c]
                   /\ calls[k].status \in {"open", "unknown"}
                   /\ c.fp = calls[k].fp
                   /\ c.status = "settled" => c.body \in Bodies
    <3> DEFINE c == [status |-> "settled", fp |-> calls[k].fp, body |-> b]
    <3>1. c \in Service!Call /\ c.fp = calls[k].fp /\ c.body \in Bodies
      BY <1>1 DEF Service!Call, Service!Outcomes
    <3>2. calls' = [calls EXCEPT ![k] = c] /\ calls[k].status = "open"
      BY <2>1 DEF Service!SettleCall, Service!Advance
    <3> QED  BY <3>1, <3>2
  <2>2. ASSUME NEW to \in {"unknown", "released", "reconciled"},
               NEW from \in {"open", "unknown"},
               Service!Advance(k, from, to, calls[k].fp, None)
        PROVE  \E c \in Service!Call :
                   /\ calls' = [calls EXCEPT ![k] = c]
                   /\ calls[k].status \in {"open", "unknown"}
                   /\ c.fp = calls[k].fp
                   /\ c.status = "settled" => c.body \in Bodies
    <3> DEFINE c == [status |-> to, fp |-> calls[k].fp, body |-> None]
    <3>1. c \in Service!Call /\ c.fp = calls[k].fp /\ c.status # "settled"
      BY <1>1 DEF Service!Call, Service!Outcomes
    <3>2. calls' = [calls EXCEPT ![k] = c] /\ calls[k].status = from
      BY <2>2 DEF Service!Advance
    <3> QED  BY <3>1, <3>2
  <2> QED  BY <2>1, <2>2 DEF PaymentEnds, Service!FinishCall, Service!LoseCall,
                             Service!ReleaseCall, Service!ReconcileCall
<1>3. binding[k[1]] # None /\ c.fp[1] = Place[binding[k[1]]]
    BY <1>2 DEF GatewayInv, Stored, KeyHasOneMeaning
<1>4. calls[k].status # "settled"
    BY <1>2
<1> QED  BY <1>2, <1>3, <1>4, CallStep DEF PaymentEnds

(* The demand ledger takes the projection of a paid reply.                 *)
LEMMA RecordDemandStep ==
    ASSUME GatewayInv, NEW h \in Handlers, RecordDemand(h)
    PROVE  GatewayInv' /\ Grows
<1>1. ThreadOK(h) /\ hs[h].pc = "paid" /\ hs[h].miner \in Miners
    BY DEF GatewayInv, ThreadsOK, RecordDemand, TypeOK, Handler
<1>2. PICK fp, b : fp = hs[h].fp /\ b = hs[h].body
    OBVIOUS
<1>3. Moved(h, "replied", fp, b)
    BY <1>2 DEF RecordDemand
<1>4. PICK e \in Events : e = hs[h].event /\ binding[e[1]] = e[2]
    BY <1>1 DEF ThreadOK
<1>5. PICK k \in PayKeys : k = PayKey(h) /\ k = <<e[1], hs[h].miner>>
    BY <1>1, <1>4 DEF PayKey, PayKeys, Events
<1>6. PICK d : d = Projection(h)
    OBVIOUS
<1>7. b \in Bodies /\ Settled(e, hs[h].miner, b)
    BY <1>1, <1>2, <1>4 DEF ThreadOK
<1>8. d \in Demand /\ d.body = b /\ d.event = e /\ d # None
    BY <1>2, <1>4, <1>6, <1>7, GatewayAssumption
       DEF Projection, Demand, GatewayInv, TypeOK
<1>9. demand[k] \in {None, d} /\ demand' = [demand EXCEPT ![k] = d]
    BY <1>5, <1>6 DEF RecordDemand
<1>10. demand'[k] = d /\ \A j \in PayKeys \ {k} : demand'[j] = demand[j]
    BY <1>9 DEF GatewayInv, TypeOK
<1>11. Grows
    BY <1>9, <1>10 DEF Grows, RecordDemand, storeVars
<1>12. hs'[h] = [pc |-> "replied", event |-> hs[h].event, miner |-> hs[h].miner,
                 fp |-> fp, body |-> b, got |-> hs[h].got]
    BY <1>3, MovedFields DEF GatewayInv
<1>13. fp \in Fingerprints \cup {None}
    BY <1>2 DEF GatewayInv, TypeOK, Handler
<1>14. hs'[h] \in Handler
    BY <1>3, <1>7, <1>12, <1>13, MovedFields DEF GatewayInv, Handler
<1>15. InDemand(e, hs[h].miner, b)'
  <2>1. e[1] = k[1] /\ hs[h].miner = k[2] /\ hs'[h].miner = hs[h].miner
    BY <1>5, <1>12
  <2> QED  BY <1>5, <1>8, <1>10, <2>1 DEF InDemand
<1>16. ThreadOK(h)'
  <2>1. /\ hs'[h].pc = "replied" /\ hs'[h].event = e /\ hs'[h].body = b
        /\ hs'[h].miner = hs[h].miner /\ hs'[h].got = hs[h].got
    BY <1>4, <1>12
  <2>2. (hs[h].event \in Events /\ binding[hs[h].event[1]] = hs[h].event[2])'
    BY <1>4, <2>1 DEF RecordDemand, storeVars
  <2>3. Settled(hs[h].event, hs[h].miner, hs[h].body)'
    BY <1>7, <2>1 DEF Settled, RecordDemand
  <2>4. InDemand(hs[h].event, hs[h].miner, hs[h].body)'
    BY <1>15, <2>1
  <2>5. ASSUME NEW m \in Miners, hs'[h].got[m] # None
        PROVE  Backed(hs[h].event, m, hs[h].got[m])'
    <3>1. PICK x : x = hs[h].got[m]
      OBVIOUS
    <3>2. Backed(e, m, x)
      BY <1>1, <1>4, <2>1, <2>5, <3>1 DEF ThreadOK
    <3>3. <<e[1], m>> \in PayKeys
      BY DEF PayKeys, Events
    <3>4. Backed(e, m, x)'
      BY <1>11, <3>2, <3>3 DEF Backed, Settled, InDemand, InReplies, Grows
    <3> QED  BY <2>1, <3>1, <3>4
  <2> QED  BY <2>1, <2>2, <2>3, <2>4, <2>5 DEF ThreadOK
<1>17. ThreadsOK'
    BY <1>3, <1>11, <1>16, ThreadStep DEF GatewayInv, Moved
<1>18. TypeOK'
    BY <1>3, <1>8, <1>9, <1>14 DEF GatewayInv, TypeOK, StoreTypeOK, storeVars,
                                   RecordDemand, Moved
<1>19. KeyHasOneMeaning'
  <2>1. d.event = <<k[1], binding[k[1]]>>
    BY <1>4, <1>5, <1>8 DEF Events
  <2> QED  BY <1>10, <2>1 DEF GatewayInv, Stored, KeyHasOneMeaning, RecordDemand,
                              storeVars
<1>20. SettledHasBody' /\ SealedIsCreated' /\ AnswersStored'
    BY DEF GatewayInv, Stored, SettledHasBody, SealedIsCreated, AnswersStored,
           RecordDemand, storeVars
<1>21. \A f \in Events, m \in Miners : <<f[1], m>> \in PayKeys
    BY DEF Events, PayKeys
<1>22. DecisionIsPaid'
    BY <1>11, <1>21 DEF GatewayInv, Stored, DecisionIsPaid, HasUsable, Grows,
                        RecordDemand, storeVars
<1> QED  BY <1>11, <1>17, <1>18, <1>19, <1>20, <1>22 DEF GatewayInv, Stored

(* A reply is recorded with the case, and the thread remembers it.         *)
LEMMA ProjectReplyStep ==
    ASSUME GatewayInv, NEW h \in Handlers, ProjectReply(h)
    PROVE  GatewayInv' /\ Grows
<1>1. ThreadOK(h) /\ hs[h].pc = "replied" /\ hs[h] \in Handler
    BY DEF GatewayInv, ThreadsOK, ProjectReply, TypeOK
<1>2. PICK e \in Events : e = hs[h].event /\ binding[e[1]] = e[2]
    BY <1>1 DEF ThreadOK
<1>3. PICK n \in Miners : n = hs[h].miner
    BY <1>1 DEF Handler
<1> DEFINE nextMiner == IF n = NMiners THEN NMiners ELSE n + 1
           nextPc == IF n = NMiners THEN "deciding" ELSE "asking"
<1>4. PICK b \in {hs[h].body, None} :
          /\ RecordReply(e, n, b)
          /\ hs' = [hs EXCEPT ![h] =
                 [pc |-> nextPc, event |-> e, miner |-> nextMiner, fp |-> None,
                  body |-> None, got |-> [hs[h].got EXCEPT ![n] = b]]]
    BY <1>2, <1>3 DEF ProjectReply
<1>5. nextMiner \in Miners /\ nextPc \in {"asking", "deciding"}
    BY StoreAssumption DEF Miners
<1>6. b \in Bodies \cup {None} /\ hs[h].got \in [Miners -> Bodies \cup {None}]
    BY <1>1, <1>4 DEF Handler
<1>7. PICK got \in [Miners -> Bodies \cup {None}] :
          got = [hs[h].got EXCEPT ![n] = b]
    BY <1>6
<1>8. PICK pc, miner : pc = nextPc /\ miner = nextMiner
    OBVIOUS
<1> HIDE DEF nextPc, nextMiner
<1>9. hs'[h] = [pc |-> pc, event |-> e, miner |-> miner, fp |-> None,
                body |-> None, got |-> got]
    BY <1>4, <1>7, <1>8 DEF GatewayInv, TypeOK
<1>10. hs'[h] \in Handler
    BY <1>5, <1>7, <1>8, <1>9 DEF Handler
<1>11. StoreTypeOK'
    BY <1>4, <1>6, RecordReplyTyped DEF GatewayInv, TypeOK
<1>12. TypeOK'
    BY <1>4, <1>10, <1>11 DEF GatewayInv, TypeOK, ProjectReply
<1>13. Grows
    BY <1>4 DEF Grows, RecordReply, ProjectReply
<1>14. ASSUME NEW m \in Miners, got[m] # None
       PROVE  Backed(e, m, got[m])'
  <2>1. PICK x : x = got[m]
    OBVIOUS
  <2>2. CASE m = n
    <3>1. x = b /\ b = hs[h].body /\ b # None
      BY <1>4, <1>6, <1>7, <1>14, <2>1, <2>2
    <3>2. Settled(e, n, b) /\ InDemand(e, n, b)
      BY <1>1, <1>2, <1>3, <3>1 DEF ThreadOK
    <3>3. Settled(e, n, b)' /\ InDemand(e, n, b)' /\ InReplies(e, n, b)'
      BY <1>4, <3>2 DEF Settled, InDemand, InReplies, RecordReply, ProjectReply
    <3> QED  BY <2>1, <2>2, <3>1, <3>3 DEF Backed
  <2>3. CASE m # n
    <3>1. x = hs[h].got[m]
      BY <1>6, <1>7, <2>1, <2>3
    <3>2. Backed(e, m, x)
      BY <1>1, <1>2, <1>14, <2>1, <3>1 DEF ThreadOK
    <3>3. Backed(e, m, x)'
      BY <1>4, <3>2 DEF Backed, Settled, InDemand, InReplies, RecordReply, ProjectReply
    <3> QED  BY <2>1, <3>3
  <2> QED  BY <2>2, <2>3
<1>15. ThreadOK(h)'
  <2>1. /\ hs'[h].pc = pc /\ pc \in {"asking", "deciding"}
        /\ hs'[h].event = e /\ hs'[h].got = got
    BY <1>5, <1>8, <1>9
  <2>2. binding'[e[1]] = e[2]
    BY <1>2, <1>4 DEF RecordReply
  <2> QED  BY <1>14, <2>1, <2>2 DEF ThreadOK
<1>16. ThreadsOK'
    BY <1>4, <1>13, <1>15, ThreadStep DEF GatewayInv
<1>17. KeyHasOneMeaning' /\ SettledHasBody' /\ SealedIsCreated' /\ AnswersStored'
    BY <1>4 DEF GatewayInv, Stored, KeyHasOneMeaning, SettledHasBody,
                SealedIsCreated, AnswersStored, RecordReply, ProjectReply
<1>18. DecisionIsPaid'
    BY <1>4 DEF GatewayInv, Stored, DecisionIsPaid, HasUsable, RecordReply, ProjectReply
<1> QED  BY <1>12, <1>13, <1>16, <1>17, <1>18 DEF GatewayInv, Stored

(* The thread seals what it holds, and answers.                            *)
LEMMA SealStep ==
    ASSUME GatewayInv, NEW h \in Handlers, Seal(h)
    PROVE  GatewayInv' /\ Grows
<1>1. ThreadOK(h) /\ hs[h].pc = "deciding" /\ hs[h] \in Handler
    BY DEF GatewayInv, ThreadsOK, Seal, TypeOK
<1>2. PICK e \in Events : e = hs[h].event
    BY <1>1 DEF ThreadOK
<1>3. PICK d : d = DecisionOf(h)
    OBVIOUS
<1>4. d \in Decision /\ d.got = hs[h].got /\ d # None
    BY <1>1, <1>3, StoreAssumption, GatewayAssumption DEF DecisionOf, Decision, Handler
<1>5. SealDecision(e, d) /\ HasUsable(d.got) /\ Finish(h)
      /\ answers' = answers \cup {[event |-> e, decision |-> d]}
    BY <1>2, <1>3, <1>4 DEF Seal
<1>6. StoreTypeOK'
    BY <1>4, <1>5, SealTyped DEF GatewayInv, TypeOK
<1>7. /\ cases[e].created /\ cases[e].decision = None
      /\ cases'[e].decision = d /\ cases'[e].created
      /\ \A f \in Events \ {e} : cases'[f] = cases[f]
    BY <1>5 DEF SealDecision, Sealed, GatewayInv, TypeOK, StoreTypeOK
<1>8. Grows
    BY <1>5, <1>7 DEF Grows, SealDecision, Seal
<1>9. ThreadsOK' /\ hs' \in [Handlers -> Handler]
    BY <1>5, <1>8, FinishThread DEF GatewayInv
<1>10. [event |-> e, decision |-> d] \in Answer
    BY <1>4 DEF Answer
<1>11. TypeOK'
    BY <1>5, <1>6, <1>9, <1>10 DEF GatewayInv, TypeOK, Seal
<1>12. KeyHasOneMeaning' /\ SettledHasBody' /\ SealedIsCreated'
    BY <1>5, <1>7 DEF GatewayInv, Stored, KeyHasOneMeaning, SettledHasBody,
                      SealedIsCreated, SealDecision, Seal
<1>13. AnswersStored'
  <2>1. ASSUME NEW x \in answers
        PROVE  x.decision = cases'[x.event].decision
    <3>1. x.decision = cases[x.event].decision /\ x.decision # None /\ x.event \in Events
      BY StoreAssumption DEF GatewayInv, Stored, AnswersStored, TypeOK, Answer
    <3> QED  BY <1>7, <3>1
  <2> QED  BY <1>5, <1>7, <2>1 DEF AnswersStored
<1>14. DecisionIsPaid'
  <2>1. ASSUME NEW f \in Events, cases'[f].decision # None
        PROVE  /\ HasUsable(cases'[f].decision.got)
               /\ \A m \in Miners : cases'[f].decision.got[m] # None =>
                      Backed(f, m, cases'[f].decision.got[m])
    <3>1. CASE f = e
      BY <1>1, <1>2, <1>4, <1>5, <1>7, <3>1 DEF ThreadOK
    <3>2. CASE f # e
      <4>1. cases'[f] = cases[f]
        BY <1>7, <3>2
      <4> QED  BY <2>1, <4>1 DEF GatewayInv, Stored, DecisionIsPaid, Backed, Settled,
                                 InDemand, InReplies
    <3> QED  BY <3>1, <3>2
  <2>2. calls' = calls /\ demand' = demand /\ replies \subseteq replies'
    BY <1>5 DEF Seal, SealDecision
  <2> QED  BY <2>1, <2>2 DEF DecisionIsPaid, HasUsable, Backed, Settled, InDemand,
                             InReplies
<1> QED  BY <1>8, <1>9, <1>11, <1>12, <1>13, <1>14 DEF GatewayInv, Stored

-----------------------------------------------------------------------------
(* The resolver, on the same database.                                     *)

(* resolve leaves every case's decision, and whether it exists.            *)
LEMMA ResolveFrame ==
    ASSUME StoreTypeOK, SealedIsCreated, NEW e \in Events, NEW res \in Resolution,
           Resolve(e, res), observations' \in [ObsIds -> Observation \cup {None}]
    PROVE  /\ StoreTypeOK'
           /\ UNCHANGED <<binding, replies>>
           /\ \A f \in Events : /\ cases'[f].decision = cases[f].decision
                                /\ cases'[f].created <=> cases[f].created
<1>1. StoreTypeOK'
    BY ResolveTyped
<1>2. cases'[e].decision = cases[e].decision /\ cases'[e].created /\ cases[e].created
    BY DEF Resolve, StoreTypeOK, SealedIsCreated
<1>3. \A f \in Events \ {e} : cases'[f] = cases[f]
    BY DEF Resolve, StoreTypeOK
<1> QED  BY <1>1, <1>2, <1>3 DEF Resolve

(* A resolution touches no decision, reply, payment or thread.             *)
LEMMA ResolverInv ==
    ASSUME GatewayInv, ResolverStep
    PROVE  GatewayInv' /\ Grows
<1>1. StoreTypeOK /\ SealedIsCreated
    BY DEF GatewayInv, TypeOK, Stored
<1>2. /\ StoreTypeOK'
      /\ UNCHANGED <<binding, replies>>
      /\ \A f \in Events : /\ cases'[f].decision = cases[f].decision
                           /\ cases'[f].created <=> cases[f].created
  <2>1. ASSUME NEW e \in Events, NEW o \in ObsIds, NEW x \in Readings,
               RecordObservation(e, o, x)
        PROVE  <1>2!:
    BY <1>1, <2>1, InsertTyped DEF RecordObservation, StoreTypeOK
  <2>2. ASSUME NEW e \in Events, NEW o \in ObsIds, NEW x \in Readings,
               ResolveObserved(e, o, x)
        PROVE  <1>2!:
    <3>1. [event |-> e, obs |-> o, reading |-> x] \in Resolution
      BY DEF Resolution
    <3> QED  BY <1>1, <2>2, <3>1, InsertTyped, ResolveFrame DEF ResolveObserved
  <2>3. ASSUME NEW e \in Events, ResolveMissing(e)
        PROVE  <1>2!:
    <3>1. [event |-> e, obs |-> None, reading |-> None] \in Resolution
      BY DEF Resolution
    <3> QED  BY <1>1, <2>3, <3>1, ResolveFrame DEF ResolveMissing, StoreTypeOK
  <2> QED  BY <2>1, <2>2, <2>3 DEF ResolverStep
<1>3. UNCHANGED <<calls, demand, clock, registry, hs, answers>>
    BY DEF ResolverStep
<1>4. Grows
    BY <1>2, <1>3 DEF Grows
<1>5. ThreadsOK'
    BY <1>3, <1>4, ThreadsFrame DEF GatewayInv
<1>6. TypeOK'
    BY <1>2, <1>3 DEF GatewayInv, TypeOK
<1>7. KeyHasOneMeaning' /\ SettledHasBody' /\ SealedIsCreated'
    BY <1>2, <1>3 DEF GatewayInv, Stored, KeyHasOneMeaning, SettledHasBody,
                      SealedIsCreated
<1>8. \A x \in answers : x.event \in Events
    BY DEF GatewayInv, TypeOK, Answer
<1>9. AnswersStored'
    BY <1>2, <1>3, <1>8 DEF GatewayInv, Stored, AnswersStored
<1>10. DecisionIsPaid'
    BY <1>2, <1>3 DEF GatewayInv, Stored, DecisionIsPaid, HasUsable
<1> QED  BY <1>4, <1>5, <1>6, <1>7, <1>9, <1>10 DEF GatewayInv, Stored

-----------------------------------------------------------------------------
(* The clock, a restart, and a step that changes nothing.                  *)
LEMMA EnvironmentStep ==
    ASSUME GatewayInv, Tick \/ Restart \/ UNCHANGED vars
    PROVE  GatewayInv' /\ Grows
<1>1. UNCHANGED <<storeVars, calls, demand, answers>>
    BY DEF Tick, Restart, vars
<1>2. Stored' /\ Grows
    BY <1>1, StoredFrame DEF GatewayInv
<1>3. StoreTypeOK'
    BY <1>1 DEF GatewayInv, TypeOK, StoreTypeOK, storeVars
<1>4. CASE Tick \/ UNCHANGED vars
  <2>1. ThreadsOK'
    BY <1>2, <1>4, ThreadsFrame DEF GatewayInv, Tick, vars
  <2>2. clock' \in Times
    BY <1>4, GatewayAssumption DEF GatewayInv, TypeOK, Tick, Times, vars
  <2> QED  BY <1>1, <1>2, <1>3, <1>4, <2>1, <2>2 DEF GatewayInv, TypeOK, Tick, vars
<1>5. CASE Restart
  <2>1. \A h \in Handlers : hs'[h] = Idle
    BY <1>5 DEF Restart
  <2>2. ThreadsOK'
    BY <2>1, IdleOK DEF ThreadsOK, ThreadOK
  <2> QED  BY <1>1, <1>2, <1>3, <1>5, <2>2, IdleOK DEF GatewayInv, TypeOK, Restart
<1> QED  BY <1>4, <1>5

(* The empty databases.                                                    *)
LEMMA InitInv ==
    ASSUME Init
    PROVE  GatewayInv
<1>1. StoreTypeOK
    BY StoreInitInv DEF Init, StoreInv
<1>2. Service!NoCall \in Service!Call
    BY DEF Service!NoCall, Service!Call, Service!Outcomes
<1>3. TypeOK
    BY <1>1, <1>2, IdleOK, GatewayAssumption
       DEF Init, TypeOK, Service!ServiceInit, Times
<1>4. Stored
    BY DEF Init, StoreInit, Service!ServiceInit, Service!NoCall, NoCase, Stored,
           KeyHasOneMeaning, SettledHasBody, SealedIsCreated, DecisionIsPaid,
           AnswersStored
<1>5. ThreadsOK
    BY IdleOK DEF Init, ThreadsOK, ThreadOK
<1> QED  BY <1>3, <1>4, <1>5 DEF GatewayInv

(* Every step preserves the invariant and keeps what is stored.            *)
LEMMA NextInv ==
    ASSUME GatewayInv, [Next]_vars
    PROVE  GatewayInv' /\ Grows
<1>1. ASSUME NEW h \in Handlers, HandlerStep(h)
      PROVE  GatewayInv' /\ Grows
  <2>1. CASE AnswerStored(h) \/ SealedMeanwhile(h)
    BY <2>1, AnswerStep DEF AnswerStored, SealedMeanwhile
  <2>2. CASE TooLate(h) \/ PaymentError(h) \/ DemandError(h) \/ ReplyError(h)
             \/ NoDecision(h) \/ SealConflict(h)
    BY <2>2, FinishStep DEF TooLate, PaymentError, DemandError, ReplyError,
                            NoDecision, SealConflict
  <2> QED  BY <1>1, <2>1, <2>2, OpenCaseStep, HorizonStep, AskStep, PaymentOpensStep,
              ReceiveStep, RecordDemandStep, ProjectReplyStep, SealStep
           DEF HandlerStep
<1>2. ASSUME NEW h \in Handlers, NEW a \in AppKeys, NEW r \in Requests, Bind(h, a, r)
      PROVE  GatewayInv' /\ Grows
    BY <1>2, BindStep
<1> QED  BY <1>1, <1>2, PaymentEndsStep, ResolverInv, EnvironmentStep DEF Next

(* The inductive invariant of the decide path.                             *)
THEOREM GatewayInvariant == Spec => []GatewayInv
<1>1. Init => GatewayInv
    BY InitInv
<1>2. GatewayInv /\ [Next]_vars => GatewayInv'
    BY NextInv
<1> QED  BY <1>1, <1>2, PTL DEF Spec

(* Type correctness.                                                       *)
THEOREM GatewayTypeCorrect == Spec => []TypeOK
<1>1. GatewayInv => TypeOK
    BY DEF GatewayInv
<1> QED  BY <1>1, GatewayInvariant, PTL

(* "request and policy hashes prevent an idempotency key from changing     *)
(* meaning": cases, payments and demand events of a key are for the        *)
(* request bound to it.                                                    *)
THEOREM KeyMeaning == Spec => []KeyHasOneMeaning
<1>1. GatewayInv => KeyHasOneMeaning
    BY DEF GatewayInv, Stored
<1> QED  BY <1>1, GatewayInvariant, PTL

(* Every sealed decision rests on settled payments, with their demand      *)
(* events and replies, whichever thread paid and whatever crashed.         *)
THEOREM SealedDecisionPaid == Spec => []DecisionIsPaid
<1>1. GatewayInv => DecisionIsPaid
    BY DEF GatewayInv, Stored
<1> QED  BY <1>1, GatewayInvariant, PTL

(* All answers to a key are the same, sealed decision.                     *)
THEOREM OneAnswer == Spec => []AnswersAgree
<1>1. GatewayInv => AnswersAgree
  <2>1. SUFFICES ASSUME GatewayInv, NEW x \in answers, NEW y \in answers
                 PROVE  /\ x.event[1] = y.event[1] => x = y
                        /\ x.decision = cases[x.event].decision
    BY DEF AnswersAgree
  <2>2. ASSUME NEW z \in answers
        PROVE  /\ z.event \in Events
               /\ z = [event |-> z.event, decision |-> z.decision]
               /\ z.decision = cases[z.event].decision
               /\ binding[z.event[1]] = z.event[2]
    <3>1. z \in Answer /\ z.decision = cases[z.event].decision
      BY <2>1 DEF GatewayInv, TypeOK, Stored, AnswersStored
    <3>2. z.event \in Events /\ z.decision # None
      BY <3>1, StoreAssumption DEF Answer
    <3>3. cases[z.event].created
      BY <2>1, <3>1, <3>2 DEF GatewayInv, Stored, SealedIsCreated
    <3> QED  BY <2>1, <3>1, <3>2, <3>3 DEF GatewayInv, Stored, KeyHasOneMeaning, Answer
  <2>3. ASSUME x.event[1] = y.event[1]
        PROVE  x = y
    <3>1. x.event = y.event
      BY <2>2, <2>3 DEF Events
    <3> QED  BY <2>2, <3>1
  <2> QED  BY <2>2, <2>3
<1> QED  BY <1>1, GatewayInvariant, PTL

(* No demand event, settled payment or sealed decision is ever replaced.   *)
THEOREM GatewayEvidenceKept == Spec => EvidenceKept
<1>1. GatewayInv /\ [Next]_vars =>
          [/\ \A k \in PayKeys :
                  /\ demand[k] # None => demand'[k] = demand[k]
                  /\ calls[k].status = "settled" => calls'[k] = calls[k]
           /\ \A e \in Events : cases[e].decision # None =>
                  cases'[e].decision = cases[e].decision]_vars
    BY NextInv DEF Grows
<1> QED  BY <1>1, GatewayInvariant, PTL DEF Spec, EvidenceKept

-----------------------------------------------------------------------------
(* The threads and the resolver reach the database through its operations  *)
(* only, so what holds under any callers holds here.                       *)
LEMMA UsesTheStore ==
    ASSUME GatewayInv, [Next]_vars
    PROVE  [StoreNext]_storeVars
<1>1. ASSUME NEW h \in Handlers, HandlerStep(h)
      PROVE  [StoreNext]_storeVars
  <2>1. ThreadOK(h) /\ hs[h] \in Handler
    BY DEF GatewayInv, ThreadsOK, TypeOK
  <2>2. hs[h].pc # "idle" => hs[h].event \in Events
    BY <2>1 DEF ThreadOK
  <2>3. CASE OpenCase(h)
    BY <2>2, <2>3 DEF OpenCase, StoreNext
  <2>4. CASE ProjectReply(h)
    <3>1. hs[h].event \in Events /\ hs[h].miner \in Miners
      BY <2>1, <2>2, <2>4 DEF ProjectReply, Handler
    <3>2. PICK b \in {hs[h].body, None} : RecordReply(hs[h].event, hs[h].miner, b)
      BY <2>4 DEF ProjectReply
    <3>3. b \in Bodies \cup {None}
      BY <2>1, <3>2 DEF Handler
    <3> QED  BY <3>1, <3>2, <3>3 DEF StoreNext
  <2>5. CASE Seal(h)
    <3>1. DecisionOf(h) \in Decision
      BY <2>1, GatewayAssumption DEF DecisionOf, Decision, Handler
    <3>2. hs[h].event \in Events /\ SealDecision(hs[h].event, DecisionOf(h))
      BY <2>2, <2>5 DEF Seal
    <3> QED  BY <3>1, <3>2 DEF StoreNext
  <2> QED  BY <1>1, <2>3, <2>4, <2>5
           DEF HandlerStep, AnswerStored, TooLate, SealedMeanwhile, HorizonRejected,
               Ask, PaymentOpens, Receive, PaymentError, RecordDemand, DemandError,
               ReplyError, NoDecision, SealConflict, storeVars
<1>2. ASSUME NEW h \in Handlers, NEW a \in AppKeys, NEW r \in Requests, Bind(h, a, r)
      PROVE  [StoreNext]_storeVars
    BY <1>2 DEF Bind, StoreNext
<1>3. CASE ResolverStep
    BY <1>3 DEF ResolverStep, StoreNext
<1>4. CASE (\E k \in PayKeys : PaymentEnds(k)) \/ Tick \/ Restart \/ UNCHANGED vars
    BY <1>4 DEF PaymentEnds, Tick, Restart, vars, storeVars
<1> QED  BY <1>1, <1>2, <1>3, <1>4 DEF Next

THEOREM GatewayUsesTheStore == Spec => StoreSpec
<1>1. Init => StoreInit
    BY DEF Init
<1> QED  BY <1>1, UsesTheStore, GatewayInvariant, PTL DEF Spec, StoreSpec

(* Every ground truth is traced to the stored observation it came from,    *)
(* while threads decide and seal on the same database.                     *)
THEOREM GatewayTruthTraced == Spec => []TruthIsTraced
BY GatewayUsesTheStore, StoreTruthTraced, PTL

(* Nothing the threads or the resolver stored first is ever replaced.      *)
THEOREM GatewayFirstIsFinal == Spec => FirstIsFinal
BY GatewayUsesTheStore, StoreFirstIsFinal, PTL
=============================================================================
