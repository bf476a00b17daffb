------------------------------ MODULE CaseStore ------------------------------
(***************************************************************************)
(* The Application's evidence database (src/oathcast/cases.py): request    *)
(* bindings, cases, Miner replies, sealed decisions, observations and      *)
(* resolutions.  Every operation is one BEGIN IMMEDIATE transaction; one   *)
(* that raises rolls back and is a stuttering step.                        *)
(***************************************************************************)
EXTENDS Integers, FiniteSets

CONSTANTS
    AppKeys,       \* (principal, idempotency key) pairs
    Requests,      \* normalized decision inputs
    NMiners,       \* Miners are numbered in routing order
    Bodies,        \* Miner response bodies
    Stamps,        \* what tells two otherwise equal decisions apart:
                   \* decided_at, received_at and latency_ms
    ObsIds,        \* observation_id
    Readings,      \* the rest of an observation; it determines the outcome
    None           \* SQL NULL

VARIABLES
    binding,       \* application_request_bindings
    cases,         \* application_cases: the sealed decision and ground truth
    replies,       \* miner_replies
    observations,  \* observations, by observation_id
    resolutions    \* resolutions

storeVars == <<binding, cases, replies, observations, resolutions>>

Miners == 1..NMiners

(* event_id hashes the input together with the application key.            *)
Events == AppKeys \X Requests

(* reply_id hashes event, Miner and raw response; None is the reply        *)
(* recorded for a Miner that failed.                                       *)
Reply == [event : Events, miner : Miners, body : Bodies \cup {None}]

Decision == [got : [Miners -> Bodies \cup {None}], stamp : Stamps]

Observation == [event : Events, reading : Readings]

(* A ground truth; without an observation it says "missing".               *)
Resolution == [event : Events, obs : ObsIds, reading : Readings]
                  \cup [event : Events, obs : {None}, reading : {None}]

Case == [created : BOOLEAN, decision : Decision \cup {None},
         truth : Resolution \cup {None}]

NoCase == [created |-> FALSE, decision |-> None, truth |-> None]

ASSUME StoreAssumption ==
    /\ NMiners \in Nat \ {0}
    /\ None \notin Requests \cup Bodies \cup ObsIds \cup Readings
    /\ None \notin Decision \cup Resolution \cup Observation

StoreTypeOK ==
    /\ binding \in [AppKeys -> Requests \cup {None}]
    /\ cases \in [Events -> Case]
    /\ replies \subseteq Reply
    /\ observations \in [ObsIds -> Observation \cup {None}]
    /\ resolutions \subseteq Resolution

StoreInit ==
    /\ binding = [a \in AppKeys |-> None]
    /\ cases = [e \in Events |-> NoCase]
    /\ replies = {}
    /\ observations = [o \in ObsIds |-> None]
    /\ resolutions = {}

-----------------------------------------------------------------------------
(* Mutant: INSERT OR REPLACE, with no comparison.                          *)
BindLatest(a, r) ==
    /\ binding' = [binding EXCEPT ![a] = r]
    /\ UNCHANGED <<cases, replies, observations, resolutions>>

(* bind_application_request: the first request of a key stays bound to it. *)
BindRequest(a, r) ==
    /\ binding[a] \in {None, r}
    /\ binding' = [binding EXCEPT ![a] = r]
    /\ UNCHANGED <<cases, replies, observations, resolutions>>

(* create: INSERT OR IGNORE.  The event id determines the question, so the *)
(* comparison with the stored question never fails.                        *)
CreateCase(e) ==
    /\ cases' = [cases EXCEPT ![e] =
                     [created |-> TRUE, decision |-> cases[e].decision,
                      truth |-> cases[e].truth]]
    /\ UNCHANGED <<binding, replies, observations, resolutions>>

(* record_reply: needs the case, sealed or not.                            *)
RecordReply(e, m, b) ==
    /\ cases[e].created
    /\ replies' = replies \cup {[event |-> e, miner |-> m, body |-> b]}
    /\ UNCHANGED <<binding, cases, observations, resolutions>>

RepliesOf(e, d) == {[event |-> e, miner |-> m, body |-> d.got[m]] : m \in Miners}

Sealed(e, d) ==
    [cases EXCEPT ![e] = [created |-> TRUE, decision |-> d,
                          truth |-> cases[e].truth]]

(* Mutant: a later decision replaces the sealed one.                       *)
SealLatest(e, d) ==
    /\ cases[e].created
    /\ cases' = Sealed(e, d)
    /\ replies' = replies \cup RepliesOf(e, d)
    /\ UNCHANGED <<binding, observations, resolutions>>

(* seal_decision: the decision and the replies it rests on, once.  Sealing *)
(* an identical decision again changes nothing.                            *)
SealDecision(e, d) ==
    /\ cases[e].created
    /\ cases[e].decision = None
    /\ cases' = Sealed(e, d)
    /\ replies' = replies \cup RepliesOf(e, d)
    /\ UNCHANGED <<binding, observations, resolutions>>

(* seal_decision raises CaseConflict.                                      *)
SealRefused(e, d) == cases[e].decision \notin {None, d}

-----------------------------------------------------------------------------
(* Mutant: a stored observation is compared by its event alone.            *)
ObserveAnyReading(e, o, x) ==
    observations[o] \in {None} \cup [event : {e}, reading : Readings]

(* An observation_id is bound to the evidence first stored under it, its   *)
(* event included.                                                         *)
CanObserve(e, o, x) ==
    observations[o] \in {None, [event |-> e, reading |-> x]}

(* _insert_observation_in_transaction: INSERT OR IGNORE.                   *)
InsertObservation(e, o, x) ==
    /\ CanObserve(e, o, x)
    /\ observations' = [observations EXCEPT ![o] =
                            IF @ = None THEN [event |-> e, reading |-> x] ELSE @]

RecordObservation(e, o, x) ==
    /\ cases[e].created
    /\ InsertObservation(e, o, x)
    /\ UNCHANGED <<binding, cases, replies, resolutions>>

(* Mutant: the latest resolution becomes the ground truth.                 *)
ResolveLatest(e, res) ==
    /\ cases[e].decision # None
    /\ cases' = [cases EXCEPT ![e] =
                     [created |-> TRUE, decision |-> cases[e].decision,
                      truth |-> res]]
    /\ resolutions' = resolutions \cup {res}
    /\ UNCHANGED <<binding, replies>>

(* resolve: the first resolution becomes the case's ground truth; every    *)
(* one is kept.                                                            *)
Resolve(e, res) ==
    /\ cases[e].decision # None
    /\ cases' = [cases EXCEPT ![e] =
                     [created |-> TRUE, decision |-> cases[e].decision,
                      truth |-> IF cases[e].truth = None THEN res
                                ELSE cases[e].truth]]
    /\ resolutions' = resolutions \cup {res}
    /\ UNCHANGED <<binding, replies>>

(* workflow.resolve with an observation, valid or not for the question.    *)
ResolveObserved(e, o, x) ==
    /\ InsertObservation(e, o, x)
    /\ Resolve(e, [event |-> e, obs |-> o, reading |-> x])

(* workflow.resolve without an observation.                                *)
ResolveMissing(e) ==
    /\ Resolve(e, [event |-> e, obs |-> None, reading |-> None])
    /\ UNCHANGED observations

-----------------------------------------------------------------------------
(* Callers in any order.                                                   *)
StoreNext ==
    \/ \E a \in AppKeys, r \in Requests : BindRequest(a, r)
    \/ \E e \in Events :
           \/ CreateCase(e)
           \/ \E m \in Miners, b \in Bodies \cup {None} : RecordReply(e, m, b)
           \/ \E d \in Decision : SealDecision(e, d)
           \/ \E o \in ObsIds, x \in Readings :
                  RecordObservation(e, o, x) \/ ResolveObserved(e, o, x)
           \/ ResolveMissing(e)

StoreSpec == StoreInit /\ [][StoreNext]_storeVars

-----------------------------------------------------------------------------
(* A ground truth, and every later resolution kept beside it, is about a   *)
(* case with a sealed decision and is traced to a stored observation of    *)
(* the same event with the very reading it was resolved from.              *)
TruthIsTraced ==
    /\ \A e \in Events : cases[e].truth # None => cases[e].truth \in resolutions
    /\ \A res \in resolutions :
           /\ cases[res.event].decision # None
           /\ res.obs # None =>
                  observations[res.obs] =
                      [event |-> res.event, reading |-> res.reading]

(* A sealed decision rests on replies that are in the reply table.         *)
DecisionHasReplies ==
    \A e \in Events : cases[e].decision # None =>
        RepliesOf(e, cases[e].decision) \subseteq replies

(* What was stored first is final: the request of a key, the decision and  *)
(* the ground truth of a case, the content of an observation; and no       *)
(* reply or resolution is ever lost.                                       *)
FirstIsFinal ==
    [][/\ \A a \in AppKeys : binding[a] # None => binding'[a] = binding[a]
       /\ \A e \in Events :
              /\ cases[e].decision # None => cases'[e].decision = cases[e].decision
              /\ cases[e].truth # None => cases'[e].truth = cases[e].truth
       /\ \A o \in ObsIds :
              observations[o] # None => observations'[o] = observations[o]
       /\ replies \subseteq replies'
       /\ resolutions \subseteq resolutions']_storeVars
=============================================================================
