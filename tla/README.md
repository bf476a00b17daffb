# OathCast: a verification development

TLA+ models of OathCast, the TLC runs that check them on small instances, and
proofs checked by TLAPS that hold for every instance. Paths below are relative
to the repository root; `src/oathcast` is the Python package,
`payment-canary/src` the TypeScript payment code.

## 1. The system

OathCast sells and buys weather forecasts. As a *Miner* it serves forecasts
over HTTP and freezes each one in a receipt. As an *Application* it takes a
user's question, pays an independent Miner for a forecast through an x402
dispatcher on Solana, and turns the paid answers into a decision that it seals
together with its evidence.

| component | code | state | operations | what makes it correct |
|---|---|---|---|---|
| payment journal | `payment-canary/src/journal.ts` | one row per idempotency key, an append-only event log | reserve, markSubmitted, markSettled, markUnknown, abort, reconcileUnknown, recoverUnfinished | budget, one payment per key, a signature vouches for one row, the log explains the row |
| payment sidecar | `payment-canary/src/application-sidecar.ts` | the journal, calls in flight, a Unix socket | paid request, reconcile, startup recovery, listen, close | never pays twice, writes ahead, delivers one body per key |
| x402 client | `payment-canary/src/canary.ts` | none | preflight, execute, on-chain verification | pays only what was reserved for |
| application gateway | `src/oathcast/application_gateway.py`, `workflow.py` | threads in flight | decide | one decision per key, retries reach the paid answer |
| router and boundary client | `src/oathcast/application.py`, `application_payment.py`, `protocol.py` | none | ask each Miner in turn, classify errors, aggregate | an unknown payment is never reported as an ordinary failure |
| case store | `src/oathcast/cases.py` | bindings, cases, replies, decisions, observations, resolutions | bind, create, record_reply, seal_decision, record_observation, resolve | first binding, first decision and first resolution are final |
| demand ledger | `src/oathcast/demand.py` | append-only events | append | one event per payment, never replaced |
| receipt store | `src/oathcast/receipts.py`, `anchor_receipt_head.py`, `backup_receipts.py` | append-only receipts; an anchor and a copy outside | get, save, chain_head, publish, verify, back up, restore | first receipt wins, the cap holds, a published head stays a prefix |
| Miner service | `src/oathcast/service.py` | requests in work, two limiters, readiness cache | forecast, forecast_window, forecast_temperature_window, check, readiness | one answer per event, none completed after its cutoff; limits and Retry-After mean what they say |
| legacy x402 client | `src/oathcast/payment.py` | a journal keyed by URL | request_miner | as the payment journal |
| forecast contract | `forecast.py`, query functions of `service.py` | none | query to request, default id | the request is the one asked for; ids replay |
| provider adapters | `src/oathcast/adapters` | none | response to hours | every hour is the provider's own |
| ground truth, scores | `ground_truth.py`, `scoring.py` | none | observation to outcome, Brier score | outcomes are observed |
| provider evaluation | `backtest.py`, `collect_provider_pairs.py` | a dataset file | collect, resolve, merge, compare | nothing collected is lost; no hindsight |
| UI, pilot, tooling, scorer | see `PROJECT.json` | little or none | | not modelled |

How they interact. A user's request reaches an HTTP thread of the gateway. The
thread runs the workflow, which runs the router, which asks the Miners one
after the other. Each question goes over a Unix socket to the payment sidecar,
a separate process with its own SQLite journal; the sidecar runs the x402
client against the dispatcher and checks the settlement on Solana. The paid
body comes back over the socket, is projected to the demand ledger and to the
case store (two more SQLite files), and the decision over all replies is
sealed in the case store. Nothing but these files survives a crash.

The Miner is a separate program: a request passes the limiters, becomes a
forecast request, is looked up in the receipt store, or is sent to providers
whose response is read and saved as a receipt, which is what is answered. Its
forecasts are resolved later from observations and scored; `backtest.py`
compares providers over a file of such cases that `collect_provider_pairs.py`
keeps. The Python x402 client is the older way to pay a Miner and shares
nothing with the sidecar but the dispatcher.

What is hard:

- **Concurrency.** Threads of the gateway and calls of the sidecar interleave
  at every transaction and every `await`; two sidecar processes overlap when a
  restart does not wait for the old one to drain.
- **Failure.** Either process may die between any two steps while money is in
  flight; a journal write may fail after the payment left; an answer may be
  lost on the way to the gateway.
- **Retries.** The client retries with the same idempotency key. Whether it is
  served, refused or charged depends on rows, fingerprints, demand events and
  cases left behind by earlier attempts.
- **Time.** The forecast cutoff, UTC midnight (one adapter sends the number of
  days from today) and a payment that settles on chain late.
- **Limits.** The number of requests and the total amount, with reservations
  given back and charged again.

`PROJECT.json` lists these as hazards, each at its line with the properties
that would catch it.

## 2. Modules

| module | models | extends |
|---|---|---|
| `PaymentJournal` | `journal.ts` under its most general client | |
| `BudgetedPayments` | abstract: what is promised about spending | |
| `PaymentService` | abstract: what the sidecar is to its caller | |
| `PaymentSidecar` | `application-sidecar.ts`, `runCanary` and `verifyPaymentOnChain` of `canary.ts`; dispatcher and chain as environment | `PaymentJournal`; implements both abstract modules |
| `CaseStore` | `cases.py` under its most general client | |
| `ApplicationGateway` | `application_gateway.py` (decide), `workflow.py`, `application.py`, `application_payment.py`, `demand.py`, two rules of `miner_adapters.py` | `CaseStore`, composed with `PaymentService` |
| `ReceiptStore` | `receipts.py`, the anchor and backup commands, and what can happen to the file | |
| `ForecastContract` | the query functions of `service.py`, the request classes of `forecast.py` | |
| `ForecastService` | the three forecast requests of `service.py` | `ReceiptStore`, `ForecastContract` |
| `RequestGate` | caller identity, authorization, `RequestRateLimiter`, readiness with its cached probe | |
| `DispatcherClient` | `payment.py` | implements `BudgetedPayments` |
| `ProviderAdapters` | `adapters/*.py`, canonical forecasts | `ForecastContract` |
| `ForecastPipeline` | one forecast from query to outcome; `ground_truth.py` | `ProviderAdapters` |
| `Backtest` | `backtest.py`, `scoring.py` | |
| `PairCollection` | `collect_provider_pairs.py`, the atomic write of `artifacts.py` | `ForecastPipeline`, `Backtest` |
| `ForecastAlgorithms` | the three above, and what they promise | `PairCollection` |
| `MC...` | instances for TLC | |
| `...Proofs` | theorems | |

The two halves of the Application meet in `PaymentService`: the sidecar implements it
(`ServesCalls`) and the gateway is composed with it, so neither has to be
explored inside the other.

### Payment journal

`rows` is the table `payment_attempts`, a function from keys (principal and
idempotency key) to records; `events` is `payment_attempt_events` as the set of
pairs of key and event type. One operation is one action: in the code it is a
read followed by a `BEGIN IMMEDIATE` transaction whose `UPDATE` repeats the
status guard (or whose `INSERT` meets a unique index), so a writer that lost a
race changes nothing. `recoverUnfinished` is the exception; it takes whatever
status it re-reads as the one to move from, and `Recover(k, from)` is therefore
enabled for every status. The `SUM` of the budget query is the number of
micro-USDC units that charged rows hold, a cardinality, so that the budget can
be reasoned about without a sum over rows. A fingerprint stands for everything
`classifyExisting` compares: request, policy, Miner and endpoint.

### Payment sidecar

`proc`, `listener`, `todo` and `seen` are the process life cycle and its startup
recovery; `hs` holds the local state of each call in flight, `pc` naming the
`await` it is at; `sent`, `chain` and `delivered` are the outside world: signed
payments that left, signatures confirmed, paid bodies handed over.

| code | actions |
|---|---|
| constructor, `recoverUnfinished` | `Start` (SELECT), `RecoverRead`, `RecoverWrite` |
| `listen`, SIGTERM, `close` | `Listen`, `Stop`, `Exit` |
| `handlePaidRequest` up to `reserve` | `Accept`, `Replay`, `ReserveFor`, `ReserveReplays`, `PreflightFails` |
| `runCanary` before the payment | `Submit` (second challenge bound to the first, then `markSubmitted`), `AbandonUnpaid` |
| the paid fetch and what follows | `Send`, `PaidAnswer`, `PaidOutcomeLost`, `Settle`, `NotVerified` |
| `handleReconcile` | `ReconcileAccept`, `Reconcile`, `ReconcileFails` |
| environment | `Crash`, `ChainSettles` |

Calls refused without a change of state (conflict, in progress, unknown,
consumed, unauthorised, malformed) are stuttering steps. `JournalMayFail`
lets any journal write inside a `try` fail; `Misattribution` lets a settlement
header or the operator name another call's transaction. A reconciled row has
no body to replay (`replayResponse` is reached from settled rows only), so the
answer of a reconciliation is no delivery.

### Case store

One action per public method that writes; each is one transaction and one that
raises rolls back. Hash columns are identities: a reply is its event, Miner and
body (`_reply_id`), an event is its input and application key. A decision is
what each Miner replied plus a stamp for `decided_at`, `received_at` and the
latencies, which make two otherwise equal decisions different texts.

### Application gateway

`hs[h].pc` follows one thread through `decide()`:

| `pc` | where the thread is | actions from there |
|---|---|---|
| `idle` | no request | `Bind` |
| `bound` | `bind_application_request` done | `AnswerStored`, `TooLate`, `OpenCase` |
| `asking` | about to ask `miner` | `SealedMeanwhile`, `HorizonRejected`, `Ask` |
| `waiting` | the socket call is out, `fp` is fixed | `PaymentOpens`, `Receive`, `PaymentError` |
| `paid` | a verified paid body | `RecordDemand`, `DemandError` |
| `replied` | the reply, or none | `ProjectReply`, `ReplyError` |
| `deciding` | all Miners asked | `NoDecision`, `Seal`, `SealConflict` |

`PaymentEnds` moves the sidecar on, whether or not anybody waits;
`ResolverStep` is `workflow.resolve`, any number of times, from a process of its
own on the same case database, as the workflow keeps the two paths apart; `Tick` lets
time pass; `Restart` kills all threads and starts a gateway whose registry
snapshot may be another one. `demand` is the demand ledger by payment attempt,
with the fields a replayed event must repeat; `answers` collects what was
answered with 200.

Three code steps are one action: looking up a stored decision, checking the
cutoff, and creating the case (`AnswerStored`, `TooLate` and `OpenCase` are its
three ends). The look-up is repeated by `workflow.decide`, and a thread that
looked just before another sealed is the one that skips
`SealedMeanwhile`, so every order of look-up and seal still occurs. `event`
leaves out the consent flags, which are part of the bound request and of
nothing later. The live rollout pins one Miner; the router is written for a
list and the model allows `NMiners`.

### Receipt store and forecast service

`table` is the receipt table in the order it was written; a row is a receipt
and the digest recorded in it. A digest is the term `<<"sha256", receipt>>`, so
that equal hashes mean equal receipts and nothing else is known of them.
`save()` is one transaction and one step. SQLite's triggers forbid updates, but
not an edit of the file: `Edit` (the digest is left alone), `Forge` (it is
recomputed) and `Restore` (an older copy is put in place) are what the digest
and the published chain head exist for.

`hs[h].pc` follows a request through `forecast()` and its two siblings:
`lookup` (`Lookup`), `check` (`Check`: refused from the cutoff on), `ask`
(`AskProvider`), `waiting` (`ProviderFails`, `ProviderAnswers`, where the clock
is read again), `persist` (`Persist`: save, then rebuild the answer from what is
stored), `done`. Handlers are threads of one process or of several; nothing in
the code makes a difference between them. `attended` is a bound: the operator's
commands are explored with one request at a time, the races without operator.
`EffectiveCutoff` (with the grace of an implicit cutoff) and `Binds` (which
stored question answers which request) are shared with `ForecastContract`.

### Request gate

Time is in half seconds because Retry-After is in whole ones. `Arrive` reads the
clock, `Check` is the body of `check()` under its lock; another thread with a
later reading may run between them. The limiter's `OrderedDict` is a sequence of
callers, least recently seen first. The readiness cache has its lock
(`ProbeLocked`) and its reading from before the probe. The limiters and the
probe share nothing but threads and clock, so a behaviour is about one of them
(`watched`).

### Dispatcher client

`cs[c].pc` follows `request_miner`: `available` and `AssertBudget` (the row and
the budgets are read by two statements), `unpaid` (`Challenged`, `UnpaidEnds`),
`reserve`, `sign`, `submit`, `send`, `paid`, `verify`, then `MarkSettled` or
`MarkUnknown`. Unlike the sidecar's journal this one is keyed by URL, reserves
again over an aborted row, and recovers nothing after a crash. `granted` of the
promise is what `mark_submitted` committed, so a reservation that is aborted
never shows.

### Forecast algorithms

Time is in quarters of an hour, probabilities in hundredths, rain in tenths of
micrometres. A query is a function from parameter names to the values given,
because missing, repeated and blank parameters are cases of their own.
`RequestOf` is the request a query becomes. A provider's response is made from
a *sky* (what is true of each hour) by `NativeRow` with the provider's own
labels, and may be damaged in one of the ways `fault` lists; the adapters read
it back, and `HoursAreTheProviders` compares the result with the sky.
`PairCollection` has runs that read a dataset (`Collected`, `BeginResolve`,
`BeginImport`), compute in memory, and replace the file (`WriteDataset`) after
loading it as the comparison would. `Backtest` takes cases one by one
(`ReadCase`), as the file is loaded, and decides batch by batch (`DecideBatch`);
the summaries printed at the end decide nothing and are left out (`Report`).
The three parts share definitions and no state, so a behaviour of
`ForecastAlgorithms` is of one `part`.

## 3. Runs

| run | instance | question |
|---|---|---|
| `sidecar_one` | 1 process, 2 calls, 2 keys, 2 fingerprints, 3 signatures, 2 bodies, failing writes, misattribution | spending, payment behind every verified row and delivery, what a restart moves and that it moves all of it, refinement of `PaymentService` |
| `sidecar_two` | 2 processes, 2 calls, 2 keys, budget of one | one payment per key, write-ahead, budget, release rule and log under overlapping recovery, refinement of `BudgetedPayments` |
| `sidecar_live` | 1 process, 2 calls, no failing writes | every unfinished row has a call working on it and is classified in the end |
| `sidecar_overlap` | as `sidecar_two` | *violated*: a restart moves only reserved and submitted rows |
| `gateway` | 1 key, 2 requests, 2 Miners, 2 threads, 2 bodies, 2 snapshots, 4 clock readings; a resolver with 1 observation id and 2 readings | one meaning, one paid decision, one answer for a key; ground truths traced, what was stored first is final |
| `gateway_conflict` | 1 request, 2 threads | *violated*: a 409 means the key is bound to another request |
| `gateway_replay` | 1 request, 1 thread | *violated*: a settled request is replayed |
| `service` | 2 requests, 4 questions on 2 events, 2 rows, 3 clock readings, 2 providers | one answer per event, none after its cutoff, refusals only when due, an anchor that detects every accident |
| `service_policy` | as `service`, 1 request | *violated*: receipts of the other cutoff policy are refused |
| `edge` | 2 threads, a proxy and 2 callers, a table of 2, window of 3 and clock to 4 half seconds, 4 requests | what limiters and readiness promise when clock readings overtake each other |
| `legacy` | 2 calls, 3 URLs, 3 proofs, 7 challenges | refinement of `BudgetedPayments`, answers are settled |
| `algorithms` | 72 queries, 3 providers, 6 amounts; 2 files, 2 runs under way, 3 in all, 2 locations, 3 hours; fixtures of up to 3 cases | requests, ids, hours and outcomes against their definitions; a dataset that keeps what it has; a comparison without hindsight |

### Why the bounds are enough

Two keys are needed for two rows to compete for a signature or for the last of
the budget; amounts to 2 with a total of 3 make both limits bind separately. Two
calls are the smallest race, two processes the smallest overlap. Every
signature is used once, so three allow one more than there are keys. In the
gateway one key suffices because keys share nothing but the request sets; two
requests at different coordinates make a key conflict visible in the
fingerprint; two Miners with different horizons give a decision with a missing
first reply; midnight at 2 and the cutoff at 3 leave room before, between and
after. One observation id with two readings is an observation that comes back
changed, before or after the case was resolved, with or without one that was
missing in between; that it comes back for the case of another key needs a
second key, and there the theorems stand in for the run.

In `service` one event is asked under both cutoff policies and by the point
contract, the three ways a stored receipt may or may not answer; the store
starts with a receipt without digest or with one of an event that is over, so
that two events compete for the last row; the clock can stand before, at and
after the cutoff, and at the end of the grace. In `edge` a limit of one and of two, a table one smaller
than the set of callers and a window shorter than the behaviour make limit,
eviction and expiry all happen; the bound of `WindowLimit` depends on the number
of threads. In `legacy` there is one URL more than requests are allowed. In
`algorithms` times lie on, before and after the half hour, amounts at and around
the threshold, windows at, below and above the longest one; a case needs a prior
one that resolves before, at and after its issue time, which three cases give;
and a file needs a run that reads it before, and writes it after, another run.

The clocks, `MaxRequests` of the gate and `MaxRuns` of the collection, and the
sets of queries, bodies and signatures are the only bounds on otherwise
unbounded data; no counter is capped elsewhere. `attended`, `watched` and `part`
keep apart what shares no state or, for `attended`, what would multiply the
races without adding to them. The theorems below remove the bounds for
everything but what section 5 lists as only checked.

### Deadlock and fairness

Deadlock is checked in all runs but `algorithms`: a forecast is resolved or
refused, a comparison is reported and a bounded number of collecting runs ends,
and then there is nothing more to do. `sidecar_live` assumes weak fairness of each call's next
step, because every `await` in a handler has a timeout and Node runs every
ready callback. Nothing is assumed of clients, of the operator, of whoever
starts processes, or of the chain. Instead the property is conditional on a
process that is finally up and stays up: one that is restarted forever before
it listens resolves nothing.

## 4. Where documents and code differ

- **`sidecar_overlap`.** `docs/application-payment-boundary.md` says a restart
  moves `reserved` and `submitted` rows to `unknown`. `recoverUnfinished`
  selects those, then re-reads each and moves what it finds. With the previous
  process still draining, the row may be `aborted` or `settled_verified` by
  then. The budget stays safe (`ReservedWithinBudget` counts what was never
  given back) and the evidence of a settled row stays recorded, but its body is
  no longer replayed.
- **`gateway_conflict`.** Every `CaseConflict` is answered "the idempotency key
  is bound to a different request". Two threads with the same request reach it
  when both pass the second look-up; a retry is answered with the sealed
  decision.
- **`service_policy`.** A comment of `forecast_window` says new implicit/explicit
  policy mismatches are rejected by the receipt binding. The binding refuses a
  receipt of the implicit policy to a request with an explicit cutoff, and
  answers the other direction, although both sides name their policy. `Binds` is
  what the code does, `SameIdReplays` promises nothing of two requests
  of which exactly one set its cutoff, and `AnsweredInTime` holds all the same.
- **`gateway_replay`.** The document says a duplicate settled request replays
  the paid body. The WeatherAPI adapter sends the number of days from the
  current UTC date, the fingerprint covers it, and a retry after midnight is
  refused by the sidecar.

Seen while modelling, with no statement of the repository against them:

- A demand event repeats the registry snapshot hash inside its receipt. A
  payment projected under one snapshot and retried, before its decision was
  sealed, under another is refused by the ledger at every retry (`DemandError`).
- After the cutoff a retry is refused before the paid reply is looked up
  (`TooLate`), while a thread that asked before the cutoff may seal after it.
- A row whose signature another row holds is left `submitted` by both
  `markSettled` and `markUnknown`, where reconciliation refuses it, until the
  next restart moves it to `unknown`.
- The policy hash that a row is bound to contains the limits of the budget, so
  raising a limit makes settled keys answer `IDEMPOTENCY_CONFLICT`.
- The first answer calls a failed Miner "unavailable", a replayed one "unknown".
- A window request that fetched under one cutoff policy while another thread
  saved under the other gets 409, although its retry may be answered.
- A temperature request compares the time it was accepted with the hour after
  it, so it is never refused, and its completion is not checked: a slow provider
  makes a forecast that is complete after its first hour has begun.
  `AnsweredInTime` leaves it out. (The contract is modelled as enabled;
  `OATHCAST_ENABLE_TEMPERATURE_WINDOW` is off by default.)
- Open-Meteo's point adapter takes the time zone it asked for on trust
  (`TrustsTheZone`); the point adapters take the first of doubled labels, the
  series adapters refuse them.
- Two runs of `collect_provider_pairs` on one dataset lose each other's changes:
  nothing locks the file between reading and replacing it. `Serialised` states
  what systemd and the workflow's concurrency group provide; with FALSE,
  `CollectedIsKept` is violated.
- A case is issued at the hour in which its run began, before the providers were
  asked.
- A crash of the Python client leaves its row reserved or submitted for good:
  nothing recovers it, and the URL and its share of the budget stay blocked.
- An old process's `close()` unlinks the socket path, which may be its
  successor's by then (`Exit`).

## 5. Theorems

All proofs are checked by TLAPS and hold for every value of the constants that
satisfies the named assumptions: finite set of keys and positive limits
(`BudgetAssumption`, `LimitAssumption`), `None` outside the sets it is added to
(`NullAssumption`, `SwitchAssumption`, `StoreAssumption`, `GatewayAssumption`),
at least one Miner, threads among the stamps (two threads never produce the
same decision text), and for the Python client a finite set of URLs and positive
limits (`ClientAssumption`). The Miner's questions and the stores it starts
from are ones the code can have: a question names its subject and a window has a
policy, a stored receipt answers its question before the cutoff
(`ServiceAssumption`); the gate has finitely many threads and at least one, and
positive windows and table sizes (`GateAssumption`). An hour and the longest
windows are positive (`HourAssumption`); times and numbers in a query are integers,
a provider's forecast is about three hours or more that follow each other, with
probabilities from 0 to 100, and observed amounts are natural numbers
(`PipelineAssumption`); cases are issued at integer times (`BacktestAssumption`);
the list of locations is not empty and every case has an entry for its providers
(`CollectionAssumption`).
`BudgetedPayments` states its limits as a definition
(`Limits`) that its theorems assume, so that it can be instantiated twice.

**Journal** (`PaymentJournalProofs`). `JournalInv` adds to the stated
invariants which columns a status fills (`RowsFilled`) and which events a status
excludes (`StageInv`). The budget needs the most work: the query counts the rows
charged now, the claim is about reservations never given back. A step other
than `Reserve` never enlarges the set of never-released rows, and `Reserve`
adds one key and exactly `a` units (`ReserveCharges`, by a bijection).

**Sidecar** (`PaymentSidecarProofs`). The module is
written over the journal's actions, so the journal's invariant carries over. On top of it: a call past `reserve()` agrees
with its row (`BoundInv`); `markSubmitted` succeeds once per key, so a key has
one sender before whom nothing was sent (`SenderInv`), hence one payment
(`SentInv`); a row that was ever settled keeps its evidence, even when a late
recovery moves it to `unknown`, because a reconciliation must name the
transaction recorded (`SettledInv`, `ReconcilerInv`); a body delivered is what
that row keeps (`PaidInv`). This holds for any number of overlapping processes.

**Promise** (`BudgetedPaymentsProofs`, `PaymentSidecarProofs`). What the abstract
specification exposes fits the budget, by an injection of exposed payments into
reservations. The sidecar implements it: `granted` is the amount of rows never
released, `exposed` is `sent`, `confirmed` is `chain`. `SidecarSpendWithinBudget`
is the abstract bound read through the refinement.

**One process at a time** (`PaymentSidecarProofs`, last part). Four results
assume `OneProcess`. Calls run only while their process serves or drains
(`LifeInv`), so during recovery nothing but recovery moves a row: what it
selected is unfinished when it is visited, and what is unfinished is still
selected (`RecoveryInv`). Hence a restart moves only unfinished rows
(`OneProcessRestart`; with two processes `sidecar_overlap` refutes it), it has
moved all of them when the first call is taken (`OneProcessRecovers`), and the
sidecar implements `PaymentService` (`OneProcessServes`), which is what the
gateway's module takes it for. When the process serves again, each unfinished
row has a call at work on it (`OwnerInv`), and that call gets to write an
outcome, because the signature it carries was sent for its own row
(`EvidenceInv`) and no other row can hold it: `OneProcessOwns`, under the
hypotheses of run `sidecar_live`.

**Dispatcher client** (`DispatcherClientProofs`). A call past `reserve()` finds
its row as it left it (`OwnerInv`) because no other call owns that row
(`SingleInv`); so the status guards of the `UPDATE`s never fail for it, what was
sent belongs to a row that is never reserved again (`SentInv`) and a URL is sent
one proof. The transaction of `reserve()` keeps the charged rows within both
budgets (`BudgetInv`), whatever was read before it. What the promise counts is
part of what is charged, which makes `mark_submitted` a grant (`MarkGrants`) and
the paid request an exposure (`SendExposesProof`). Steps are classified once, by
what they do to a call and its row (`StepKinds`), and each invariant is shown
over these classes.

**Case store** (`ApplicationGatewayProofs`, first part). Types, traced truths and stored replies are
inductive as a conjunction; `FirstIsFinal` follows from the same step lemmas.
This is shown for any callers (`StoreSpec`).

**Gateway** (`ApplicationGatewayProofs`, second part). `DecisionIsPaid` alone is not
inductive: a thread seals what it received several transactions ago. Two facts
make it so. What is stored only grows (`Grows`: bindings, settled payments,
demand events, decisions and replies are never replaced), and a thread holds
only what is stored (`ThreadOK`: one clause per `pc`). What a thread read before
a wait is then still there when it seals, whatever the others did
(`ThreadFrame`). `KeyMeaning`, `SealedDecisionPaid`, `OneAnswer` and
`GatewayEvidenceKept` are corollaries. What a thread or the resolver hands to the
store is well typed, so each of their steps is one of its operations
(`GatewayUsesTheStore`) and the store's theorems hold here (`GatewayTruthTraced`,
`GatewayFirstIsFinal`).

**Miner service** (`ForecastServiceProofs`). `ServiceInv` says what a request
carries past its look-up (a receipt that answers its own question, complete
before the cutoff), that each answer given still stands in the file or in what a
restore discarded, and what the file, the copy and the published head have to do
with each other (`HandlersInv`, `AnswersInv`, `FileInv`). `OneAnswer`,
`AnswersInTime`, `AnchorIsBinding` and `RefusalsDue` are corollaries. That a
published head binds the receipts below it needs an induction over the chain:
`ChainTellsReceipts` makes it with the least number at which two chains differ
(`LeastNat`), since the library's induction theorems take an operator as a
parameter and cannot be used with the provers here.

**Request gate** (`RequestGateProofs`). The limiter's table is a sequence of
pairs that `Forget`, `Sweep` and eviction filter; the list comprehension of the
code is `Kept`, a recursive function over the table's length, because the
provers know nothing of `SelectSeq`. The table lemmas say what each operation
does to one caller's bucket. `LimitersInv` holds the account of every window
(`Accounted`): the bucket covers all that was granted in it, or the clock has
left it behind and each late thread that may still use an older clock reading
stands for one of the requests above the limit. With the promises given
(`Honoured`) this gives `WindowLimitHolds` and `RetryAfterHolds` for any number
of threads; `ForgetsOnlyFull` is an action property from the same lemmas, and
`ReadyHolds` follows from an invariant of its own (`ProbeInv`).

**Forecast algorithms** (`ForecastAlgorithmsProofs`). Five results, for every
length of an hour, query, sky, damage, amount and fixture. `RequestInv` says that
the request is the one made of an accepted query; `RequestsAreFaithful` is then
the arithmetic of rounding to whole hours (`NearestIsNearest`, `Division`), and
`SameIdsReplay` that the fields a default id is made of settle what is asked
(`SameQuestionAsks`); two requests of which exactly one set its cutoff are
excepted. `AnswersAreTheProviders` first says what a response can
contain: undamaged rows say what the sky says of the hour of their label
(`NativeIsFaithful`), most damage leaves every remaining row so (`LastingRows`),
and doubled and local labels are treated on their own (`DoubledPoint`,
`LocalPoint`). Then each parser: a point is read from the first row with its
label (`PointAnswer`), a window or series has the hours asked for, in order
(`Covers`), and its peak and extremes are those of its hours (`PeakLeads`,
`ExtremesLead`). `OutcomesAreObserved` adds which observation an outcome was
resolved from (`ResolutionInv`). `NothingLeaks` is the one with most to it: the
cases read are in order of issue (`Sorted`) and whole batches are decided
(`BatchEnds`), so the cases before a batch are those issued earlier, the history
available to it is the same in the file as of that time (`SamePrior`), and the
providers that only later cases name have too little history to be chosen. The
lists of *some* of the cases (available, resolved, compared) are functions on
their positions in the file, not shortened sequences: what is computed from them
counts and sums and does not depend on positions.

**Collection** (`ForecastAlgorithmsProofs`, last part). `CollectionInv`: every
dataset, and every list a run is about to write, is in the order of the loader
with distinct ids and well-formed cases (`InSeries`), hence accepted by it
(`SeriesLoads`), and has one lead time unless a run was allowed to change it. The
merge is the difficult step: `Chronological` puts a case after as many as come
before it, and `EveryRank` and `Sorting` show by counting that this is a sorted list of
exactly the merged set. `SeriesNeverStops` needs no serialisation.
`SerialisedRunsKeep` assumes `Serialised`: then runs at work are on different
files, so what a run read is still in the file when it writes (`AloneInv`).

Only model-checked: `UnfinishedIsResolved` (liveness under fairness, out of this
prover's reach) and the four violations.

## 6. Not modelled

See the notes in `PROJECT.json`. In short: the content checks on challenges,
headers, transactions and envelopes; the HTTP servers' framing and body limits,
and the gateway's own authentication; the HTML front end and pilot intake;
number formats, rendering and text extraction; registration and discovery;
summaries, release and evidence tooling; the WebAssembly scorer; deployment
files. Of the modelled modules: `preflight_miner` and `discover_integrations` of
the Python client, which pay nothing; start-up of the Miner from its
environment; the leaderboard and freshness reports.
`run()`'s catch branch in the sidecar for an exception out of the executing run
is unreachable for `runCanary`, which reports its failures in its result.
The live gateway is built with `NullObservationSource` and never resolves a case;
the resolver of the model is another process with an observation source, which
the repository has as `ApplicationWorkflow.resolve` and runs only in
`scripts/demo_application.py`.

## 7. Plan

Done: the payment journal, sidecar and promise; the case store; the gateway
composed with the payment service; the receipt store and forecast service; the
request gate; the Python client; the algorithms and the collection; theorems
about the payments (both clients), the case store, the gateway, the Miner's
service with its receipts, its request gate, the forecast algorithms from query
to outcome and to the comparison of providers, and the collection it reads. Every
safety invariant and action property that a passing run checks is a theorem, some
under the hypotheses named in section 5.

Next: the authentication and rate limit of the gateway's HTTP server.
