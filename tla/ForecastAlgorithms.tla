------------------------- MODULE ForecastAlgorithms -------------------------
(***************************************************************************)
(* What the forecasts are worth: the life of one forecast                  *)
(* (ForecastPipeline), the collection of paired forecasts                  *)
(* (PairCollection) and the comparison of providers over many resolved     *)
(* ones (Backtest).  They share definitions and, at most, a file between   *)
(* their runs, so that a behaviour is of one of them.                      *)
(***************************************************************************)
EXTENDS PairCollection

VARIABLE part   \* bound: what the behaviour is about

vars == <<pipelineVars, backtestVars, collectionVars, part>>

Init ==
    /\ PipelineInit
    /\ BacktestInit
    /\ CollectionInit
    /\ part \in {"forecast", "collection", "comparison"}

Next ==
    /\ UNCHANGED part
    /\ \/ /\ part = "forecast" /\ PipelineStep
          /\ UNCHANGED <<backtestVars, collectionVars>>
       \/ /\ part = "collection" /\ CollectionStep
          /\ UNCHANGED <<pipelineVars, backtestVars>>
       \/ /\ part = "comparison" /\ BacktestStep
          /\ UNCHANGED <<pipelineVars, collectionVars>>

Spec == Init /\ [][Next]_vars

-----------------------------------------------------------------------------
Distance(s, t) == IF s < t THEN t - s ELSE s - t

AskedStart == First(query, Start).at

(* A window keeps the length that was asked for and begins at the whole    *)
(* hour closest to the one asked for, the later one of two; a caller who   *)
(* sets no cutoff can still be served at the moment the window begins that *)
(* he asked for, although the window may have been moved back.  The hours  *)
(* of a temperature request begin within the hour after it was accepted.   *)
WindowIsFaithful ==
    /\ request.start % Hour = 0
    /\ request.end - request.start = Duration(query)
    /\ \A h \in 0..(AskedStart + Hour) :
           h % Hour = 0 /\ h # request.start =>
               \/ Distance(AskedStart, request.start) < Distance(AskedStart, h)
               \/ Distance(AskedStart, request.start) = Distance(AskedStart, h)
                  /\ h < request.start
    /\ request.policy = "implicit" => AskedStart < EffectiveCutoff(request)
    /\ request.cutoff <= request.start

RequestIsFaithful ==
    stage = "asked" =>
        CASE request.contract = "window" -> WindowIsFaithful
          [] request.contract = "point" ->
                 /\ request.start = AskedStart
                 /\ request.end = request.start + Hour
                 /\ EffectiveCutoff(request) < request.start
          [] request.contract = "temperature" ->
                 /\ request.start % Hour = 0
                 /\ acceptedAt < request.start /\ request.start <= acceptedAt + Hour
                 /\ request.end = request.start + request.asks.hours * Hour

(* Two queries that leave the event id to the service get the same id only *)
(* if a receipt for one answers the other, unless exactly one of them set  *)
(* its cutoff (whether those replay depends on their order); and they do   *)
(* get it if nothing but the spelling, the unrounded bounds or who set the *)
(* cutoff tells them apart.                                                *)
SameQuestion(q, r) ==
    /\ q.contract = r.contract /\ q.asks.place = r.asks.place
    /\ q.start = r.start /\ q.end = r.end /\ q.cutoff = r.cutoff

SameIdReplays ==
    stage = "asked" /\ ~Given(query, {"event_id"}) =>
        \A params \in Queries, t \in AcceptTimes :
            Accepted(params) /\ ~Given(params, {"event_id"}) =>
                LET other == RequestOf(params, t)
                IN /\ other.event = request.event =>
                          \/ Binds(other, request)
                          \/ {other.policy, request.policy} = {"implicit", "explicit"}
                   /\ SameQuestion(other, request) => other.event = request.event

(* Whatever labels a provider uses and however its response is damaged, a  *)
(* forecast covers exactly the hours of the request and reports for every  *)
(* one what the provider said about that same hour, and the figures it     *)
(* leads with are its own.  The point adapter of Open-Meteo takes the time *)
(* zone it asked for on trust, the others look at it.                      *)
TrustsTheZone ==
    /\ source.provider = "open_meteo" /\ request.contract = "point"
    /\ source.fault = "local"

LeadsWithItsHours(hours) ==
    IF request.contract = "temperature"
    THEN \A h \in DOMAIN hours :
             /\ MinimumTemperature(hours) <= hours[h].temperature
             /\ hours[h].temperature <= MaximumTemperature(hours)
    ELSE LET peak == PeakHour(hours)
         IN \A h \in DOMAIN hours :
                /\ hours[h].probability <= peak.probability
                /\ hours[h].start < peak.start =>
                       hours[h].probability < peak.probability

HoursAreTheProviders ==
    stage \in {"answered", "resolved"} /\ ~TrustsTheZone =>
        LET hours == forecast.hours
        IN /\ {hours[i].start : i \in DOMAIN hours}
                  = {t \in request.start..(request.end - 1) :
                         (t - request.start) % Hour = 0}
           /\ Len(hours) * Hour = request.end - request.start
           /\ \A i \in DOMAIN hours :
                  /\ request.contract # "temperature" =>
                         hours[i].probability = source.sky[hours[i].start].probability
                  /\ request.contract # "point" =>
                         hours[i].temperature = source.sky[hours[i].start].temperature
           /\ LeadsWithItsHours(hours)

(* An event gets an outcome only from an observation of the very hour the  *)
(* forecast was for, at its place, made after the hour; it is 1 only if    *)
(* more than the threshold fell and 0 only if no more than that, up to the *)
(* half micrometre that rounding may drop; and such an observation always  *)
(* resolves it.                                                            *)
Conclusive(o) ==
    /\ o # None
    /\ o.event = request.event
    /\ o.lat = request.asks.place.lat /\ o.lon = request.asks.place.lon
    /\ o.start = forecast.hours[1].start /\ o.end = forecast.hours[1].end
    /\ o.at >= request.end

OutcomeIsObserved ==
    stage = "resolved" =>
        /\ (truth.status = "resolved") = Conclusive(observation)
        /\ (truth.status = "resolved") = (truth.outcome # None)
        /\ truth.outcome = 1 => observation.amount > 10 * Threshold
        /\ truth.outcome = 0 => observation.amount <= 10 * Threshold + 5

(* What was collected is evidence: a case that is in a dataset stays there *)
(* with the forecasts it was written with, and keeps the outcome it got    *)
(* first, whatever the runs in the same hour collect, exports revise and   *)
(* merges bring; and no run dies leaving less than there was.              *)
CollectedIsKept ==
    [][\A f \in Files : \A i \in DOMAIN datasets[f] :
           \E j \in DOMAIN datasets'[f] :
               LET old == datasets[f][i]
                   new == datasets'[f][j]
               IN /\ new.id = old.id
                  /\ new.start = old.start /\ new.forecasts = old.forecasts
                  /\ old.outcome # Unknown =>
                         new.outcome = old.outcome /\ new.resolved = old.resolved]_vars

(* A series goes on: the loader never refuses what a run wants to write,   *)
(* which would stop the collection for good, and providers are compared at *)
(* one lead time unless a run was told that the lead may change.           *)
SeriesGoesOn ==
    /\ rejected = {}
    /\ \A f \in Files \ leadChanged : \A i, j \in DOMAIN datasets[f] :
           LeadTime(datasets[f][i]) = LeadTime(datasets[f][j])

(* The file as it was at a time: what was resolved later is undecided.     *)
Undecided(c) ==
    [f \in DOMAIN c |-> IF f \in {"outcome", "resolved"} THEN Unknown ELSE c[f]]

AsOf(t) ==
    [i \in {j \in DOMAIN cases : cases[j].issued <= t} |->
        IF cases[i].resolved # Unknown /\ cases[i].resolved <= t THEN cases[i]
        ELSE Undecided(cases[i])]

DecidedBefore(t) == Cardinality({i \in DOMAIN cases : cases[i].issued < t})

(* The comparison is one that could have been made at the time: what is    *)
(* selected for a case is what would be selected if the file ended with    *)
(* the batch of the case and no outcome were in it that was resolved after *)
(* the batch was issued.                                                   *)
NoLeakage ==
    \A i \in DOMAIN trace :
        trace[i] = Selection(AsOf(cases[i].issued), DecidedBefore(cases[i].issued))
=============================================================================
