-------------------------- MODULE ForecastPipeline --------------------------
(***************************************************************************)
(* One forecast from the query to its outcome: the query becomes a request *)
(* (ForecastContract), a provider is asked and its response read           *)
(* (ProviderAdapters), and an observation of the hour resolves the event   *)
(* (src/oathcast/ground_truth.py).                                         *)
(*                                                                         *)
(* What the provider forecasts is a sky: for every hour, named by its      *)
(* start, a probability and the temperature at its start.  Providers label *)
(* hours differently and their responses can be damaged, so the reported   *)
(* hours can be compared with the sky they came from.                      *)
(***************************************************************************)
EXTENDS ProviderAdapters

CONSTANTS
    Queries,        \* query parameters a caller may send
    AcceptTimes,    \* times a request may be accepted at
    Skies,          \* functions from hours to [probability, temperature]
    Amounts,        \* observed precipitation, tenths of micrometres
    Threshold       \* 0.1 mm, in micrometres

(* Times and numbers are integers, a sky is about three hours or more that *)
(* follow each other, and amounts are counted.                             *)
Readings(v) ==
    /\ v.kind = "time" => v.at \in Int
    /\ v.kind = "number" => v.is \in Int

Hours(sky) == DOMAIN sky

SkyOver(sky, first, n) ==
    /\ Hours(sky) = {first + i * Hour : i \in 0..n}
    /\ \A h \in Hours(sky) :
           sky[h].probability \in 0..100 /\ sky[h].temperature \in Int

ASSUME PipelineAssumption ==
    /\ \A params \in Queries : \A name \in DOMAIN params :
           /\ DOMAIN params[name] = 1..Len(params[name])
           /\ \A i \in DOMAIN params[name] : Readings(params[name][i])
    /\ AcceptTimes \subseteq Int
    /\ \A sky \in Skies :
           \E first \in Hours(sky), n \in 2..Cardinality(Hours(sky)) :
               first \in Int /\ SkyOver(sky, first, n)
    /\ IsFiniteSet(Amounts) /\ Amounts # {} /\ Amounts \subseteq Nat
    /\ Threshold \in Nat
    /\ None \notin Int

VARIABLES
    stage,          \* how far the forecast has come
    query,
    acceptedAt,     \* when the request was accepted
    request,
    source,         \* [provider, sky, fault] of the response
    forecast,
    observation,
    truth

pipelineVars == <<stage, query, acceptedAt, request, source, forecast, observation, truth>>

-----------------------------------------------------------------------------
(* forecast_request_from_query; the time a request is accepted is read for *)
(* a temperature query only.                                               *)
Ask(params, accepted) ==
    /\ stage = "new"
    /\ query' = params
    /\ acceptedAt' = IF TemperatureQuery(params) THEN accepted ELSE None
    /\ IF Accepted(params)
       THEN stage' = "asked" /\ request' = RequestOf(params, accepted)
       ELSE stage' = "rejected" /\ UNCHANGED request
    /\ UNCHANGED <<source, forecast, observation, truth>>

(* Responses of the providers.                                             *)
Row(at, epoch, probability, temperature) ==
    [at |-> at, epoch |-> epoch, probability |-> probability,
     temperature |-> temperature]

(* The row with label t, for t an hour after the first of the sky.         *)
NativeRow(provider, sky, t) ==
    CASE provider = "open_meteo" ->
             Row(t, FALSE, 100 * sky[t - Hour].probability, sky[t].temperature)
      [] provider = "weatherapi" ->
             Row(t, TRUE, 100 * sky[t].probability, sky[t].temperature)
      [] provider = "openweather_onecall" ->
             Row(t, TRUE, sky[t].probability, sky[t].temperature)

Labels(sky) == [i \in 1..(Cardinality(Hours(sky)) - 1) |-> Min(Hours(sky)) + i * Hour]

NativeRows(provider, sky) ==
    [i \in 1..Len(Labels(sky)) |-> NativeRow(provider, sky, Labels(sky)[i])]

Payload(offset, units, complete, rows) ==
    [offset |-> offset, units |-> units, complete |-> complete, rows |-> rows]

Faults == {"none", "undeclared", "units", "arrays", "local", "doubled",
           "gap", "undated", "null", "range"}

Replaced(rows, row) == [rows EXCEPT ![2] = row]

(* A response is complete, leaves zone and units out, is in other units,   *)
(* lacks an array, is in local time, repeats a label, or has a row that is *)
(* missing, undated, or without usable values.                             *)
Response(provider, sky, fault) ==
    LET rows == NativeRows(provider, sky)
        row == rows[2]
        With(rs) == Payload(0, "asked for", TRUE, rs)
    IN CASE fault = "none" -> With(rows)
         [] fault = "undeclared" -> Payload(None, "undeclared", TRUE, rows)
         [] fault = "units" -> Payload(0, "other", TRUE, rows)
         [] fault = "arrays" -> Payload(0, "asked for", FALSE, <<>>)
         [] fault = "local" ->
                Payload(Hour, "asked for", TRUE,
                        [i \in DOMAIN rows |->
                            Row(rows[i].at + Hour, FALSE, rows[i].probability,
                                rows[i].temperature)])
         [] fault = "doubled" ->
                With(rows \o <<Row(row.at, row.epoch, 0, row.temperature)>>)
         [] fault = "gap" -> With(<<rows[1]>> \o SubSeq(rows, 3, Len(rows)))
         [] fault = "undated" ->
                With(Replaced(rows, Row(None, FALSE, row.probability, row.temperature)))
         [] fault = "null" -> With(Replaced(rows, Row(row.at, row.epoch, None, None)))
         [] fault = "range" ->
                With(Replaced(rows, Row(row.at, row.epoch, 100 * 100 + 100,
                                        row.temperature)))

(* OpenWeather sends epochs only.                                          *)
Fetch(provider, sky, fault) ==
    /\ stage = "asked"
    /\ fault = "local" => provider # "openweather_onecall"
    /\ source' = [provider |-> provider, sky |-> sky, fault |-> fault]
    /\ forecast' = Parse(provider, Response(provider, sky, fault), request)
    /\ stage' = IF forecast'.answered THEN "answered" ELSE "unavailable"
    /\ UNCHANGED <<query, acceptedAt, request, observation, truth>>

-----------------------------------------------------------------------------
(* PrecipitationObservation: one hour at one place; coordinates closer     *)
(* than 0.0001 degrees are one coordinate here.                            *)
Observation(event, lat, lon, start, at, amount) ==
    [event |-> event, lat |-> lat, lon |-> lon, start |-> start,
     end |-> start + Hour, at |-> at, amount |-> amount]

(* Mutant: an event at the threshold counts.                               *)
ExceedsOrMeets(micrometres) == micrometres >= Threshold

Exceeds(micrometres) == micrometres > Threshold

(* int(round(mm * 1000)): half a micrometre goes to the even neighbour.    *)
Micrometres(tenths) ==
    LET whole == tenths \div 10
        rest == tenths % 10
    IN IF rest > 5 \/ (rest = 5 /\ whole % 2 = 1) THEN whole + 1 ELSE whole

(* resolve_precipitation, its checks in their order.                       *)
Issue(question, o) ==
    IF o.event # question.event THEN "event_id_mismatch"
    ELSE IF o.lat # question.asks.place.lat THEN "latitude_mismatch"
    ELSE IF o.lon # question.asks.place.lon THEN "longitude_mismatch"
    ELSE IF o.start # question.start THEN "window_start_mismatch"
    ELSE IF o.end # question.end THEN "window_end_mismatch"
    ELSE IF o.at < question.end THEN "observation_predates_event_end"
    ELSE "none"

Truth(status, issue, outcome) ==
    [status |-> status, issue |-> issue, outcome |-> outcome]

ResolvePrecipitation(question, o) ==
    IF o = None THEN Truth("missing", "observation_missing", None)
    ELSE IF Issue(question, o) # "none"
         THEN Truth("invalid", Issue(question, o), None)
    ELSE Truth("resolved", "none", IF Exceeds(Micrometres(o.amount)) THEN 1 ELSE 0)

(* FileObservationSource: an export with two observations of an event is   *)
(* rejected as a whole, so there is nothing to resolve with.               *)
Observe(export) ==
    /\ stage = "answered"
    /\ Len(export) <= 1
    /\ observation' = IF export = <<>> THEN None ELSE export[1]
    /\ truth' = ResolvePrecipitation(request, observation')
    /\ stage' = "resolved"
    /\ UNCHANGED <<query, acceptedAt, request, source, forecast>>

(* Exports with no, one or two observations that may be of another event,  *)
(* place or hour (off), or taken before the hour was over.                 *)
Off == {"event", "lat", "lon", "hour"}

NearbyObservation(off, at, amount) ==
    LET place == request.asks.place
    IN Observation(IF "event" \in off THEN [client |-> "another"] ELSE request.event,
                   IF "lat" \in off THEN place.lat + 1 ELSE place.lat,
                   IF "lon" \in off THEN place.lon + 1 ELSE place.lon,
                   IF "hour" \in off THEN request.start - Hour ELSE request.start,
                   at, amount)

Exports ==
    LET early == {NearbyObservation({}, request.end - 1, a) : a \in Amounts}
        timely == {NearbyObservation({}, request.end, a) : a \in Amounts}
        off == {NearbyObservation(o, request.end, Max(Amounts)) : o \in SUBSET Off}
        singles == early \cup timely \cup off
    IN {<<>>} \cup {<<o>> : o \in singles} \cup {<<o, o>> : o \in singles}

-----------------------------------------------------------------------------
PipelineStep ==
    \/ \E params \in Queries, t \in AcceptTimes : Ask(params, t)
    \/ \E p \in Providers, sky \in Skies, f \in Faults : Fetch(p, sky, f)
    \/ /\ stage = "answered" /\ request.contract = "point"
       /\ \E export \in Exports : Observe(export)

PipelineInit ==
    /\ stage = "new"
    /\ query = None /\ acceptedAt = None /\ request = None /\ source = None
    /\ forecast = Refused
    /\ observation = None /\ truth = None
=============================================================================
