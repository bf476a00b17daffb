-------------------------- MODULE ForecastContract --------------------------
(***************************************************************************)
(* From a Miner query to a forecast request (the query functions of        *)
(* src/oathcast/service.py and the request classes of                      *)
(* src/oathcast/forecast.py): which queries are accepted, under which      *)
(* contract, for which hours, until when, and under which event id.        *)
(*                                                                         *)
(* A query maps parameter names to the sequence of their values.  A value  *)
(* is a record with its kind: a time (with or without a time zone), a      *)
(* number, a text, or blank.  Time is counted in parts of an hour.         *)
(***************************************************************************)
EXTENDS Integers, Sequences, FiniteSets

CONSTANTS
    Hour,                \* clock units of an hour
    MaxWindowHours,      \* MAX_FORECAST_WINDOW_HOURS
    MaxTemperatureHours  \* the 24 hours of the 2t contract

ASSUME HourAssumption == {Hour, MaxWindowHours, MaxTemperatureHours} \subseteq Nat \ {0}

Contracts == {"point", "window", "temperature"}

(* A temperature request has no cutoff.                                    *)
NoCutoff == -1

(* ForecastWindowRequest.cutoff_policy; receipts of older releases and the *)
(* other contracts have none.                                              *)
Policies == {"none", "implicit", "explicit"}

-----------------------------------------------------------------------------
(* Parameter names, and the pairs of which a query may give only one.      *)
Aliases == {{"horizon_start", "start"}, {"horizon_end", "end"},
            {"forecast_cutoff", "cutoff"}, {"latitude", "lat"}, {"longitude", "lon"}}

TemperatureParameters == {"event_id", "location_name", "lat", "latitude", "lon",
                          "longitude", "provider", "forecast_hours", "hourly"}

KnownParameters ==
    TemperatureParameters \cup {"start", "horizon_start", "end", "horizon_end",
                                "cutoff", "forecast_cutoff", "threshold_mm", "operator"}

(* _validate_query_params and the ambiguity check of _first_query_value.   *)
WellFormed(params) ==
    /\ DOMAIN params \subseteq KnownParameters
    /\ \A n \in DOMAIN params : Len(params[n]) = 1 /\ params[n][1].kind # "blank"
    /\ \A pair \in Aliases : Cardinality(pair \cap DOMAIN params) <= 1

Given(params, names) == names \cap DOMAIN params # {}

First(params, names) == params[CHOOSE n \in names \cap DOMAIN params : TRUE][1]

(* A missing parameter is accepted if it has a default.                    *)
Optional(params, names, Fits(_)) ==
    Given(params, names) => Fits(First(params, names))

Required(params, names, Fits(_)) ==
    Given(params, names) /\ Fits(First(params, names))

IsText(v) == v.kind = "text"
IsTime(v) == v.kind = "time"                      \* naive times are UTC
IsZonedTime(v) == v.kind = "time" /\ v.zoned
IsLatitude(v) == v.kind = "number" /\ -90 <= v.is /\ v.is <= 90
IsLongitude(v) == v.kind = "number" /\ -180 <= v.is /\ v.is <= 180
IsThreshold(v) == v.kind = "number" /\ v.is = 100 \* micrometres
IsOperator(v) == v.kind = "text" /\ v.is = ">"

Start == {"horizon_start", "start"}
End == {"horizon_end", "end"}
Cutoff == {"forecast_cutoff", "cutoff"}

(* Place, event id and event definition, which all contracts share.        *)
Located(params) ==
    /\ Required(params, {"latitude", "lat"}, IsLatitude)
    /\ Required(params, {"longitude", "lon"}, IsLongitude)
    /\ Optional(params, {"location_name"}, IsText)
    /\ Optional(params, {"event_id"}, IsText)
    /\ Optional(params, {"threshold_mm"}, IsThreshold)
    /\ Optional(params, {"operator"}, IsOperator)

Place(params) ==
    [lat |-> First(params, {"latitude", "lat"}).is,
     lon |-> First(params, {"longitude", "lon"}).is,
     name |-> IF Given(params, {"location_name"})
              THEN First(params, {"location_name"}).is ELSE "requested location"]

-----------------------------------------------------------------------------
(* A request as the service works with it; asks is what the receipt's      *)
(* question says besides event, cutoff and policy.                         *)
Request(event, contract, asks, cutoff, policy, start, end) ==
    [event |-> event, contract |-> contract, asks |-> asks, cutoff |-> cutoff,
     policy |-> policy, start |-> start, end |-> end]

(* Mutant: the cutoff is left out of the identity.                         *)
DefaultIdNoCutoff(contract, place, start, end, cutoff) ==
    [contract |-> contract, place |-> place, start |-> start, end |-> end]

(* default_event_id and its two siblings: a digest of every field of the   *)
(* question but the id and a window's cutoff policy.  The temperature      *)
(* question has its reference hour (start) instead of a cutoff.            *)
DefaultId(contract, place, start, end, cutoff) ==
    [contract |-> contract, place |-> place, start |-> start, end |-> end,
     cutoff |-> cutoff]

EventId(params, default) ==
    IF Given(params, {"event_id"}) THEN [client |-> First(params, {"event_id"}).is]
    ELSE default

(* question_from_query and ForecastQuestion: one hour, and a cutoff before *)
(* it, which is an hour before it unless the caller sets one.              *)
PointCutoff(params) ==
    IF Given(params, Cutoff) THEN First(params, Cutoff).at
    ELSE First(params, Start).at - Hour

AcceptedPoint(params) ==
    /\ Optional(params, Cutoff, IsTime)
    /\ PointCutoff(params) < First(params, Start).at

PointRequest(params) ==
    LET start == First(params, Start).at
        end == First(params, End).at
        cutoff == PointCutoff(params)
    IN Request(EventId(params, DefaultId("point", Place(params), start, end, cutoff)),
               "point", [place |-> Place(params), start |-> start, end |-> end],
               cutoff, "none", start, end)

(* Mutant: always the hour that has begun.                                 *)
HourBegun(t) == (t \div Hour) * Hour

(* _nearest_utc_hour: half past goes forward.                              *)
NearestHour(t) ==
    LET h == (t \div Hour) * Hour
    IN IF 2 * (t - h) >= Hour THEN h + Hour ELSE h

(* _normalized_window_bounds, window_request_from_query and                *)
(* ForecastWindowRequest: whole hours, moved to the nearest full hour; no  *)
(* cutoff later than the moved start.                                      *)
Duration(params) == First(params, End).at - First(params, Start).at

WindowStart(params) == NearestHour(First(params, Start).at)

AcceptedWindow(params) ==
    /\ Required(params, Start, IsZonedTime) /\ Required(params, End, IsZonedTime)
    /\ Hour <= Duration(params) /\ Duration(params) <= MaxWindowHours * Hour
    /\ Duration(params) % Hour = 0
    /\ Optional(params, Cutoff, IsZonedTime)
    /\ Given(params, Cutoff) => First(params, Cutoff).at <= WindowStart(params)

WindowRequest(params) ==
    LET start == WindowStart(params)
        end == start + Duration(params)
        explicit == Given(params, Cutoff)
        cutoff == IF explicit THEN First(params, Cutoff).at ELSE start
    IN Request(EventId(params, DefaultId("window", Place(params), start, end, cutoff)),
               "window", [place |-> Place(params), start |-> start, end |-> end],
               cutoff, IF explicit THEN "explicit" ELSE "implicit", start, end)

(* telegraph_2t_window_request_from_query: the hours after the one in      *)
(* which the request was accepted; no other parameter may be mixed in.     *)
TemperatureQuery(params) == Given(params, {"forecast_hours", "hourly"})

IsHourCount(v) == v.kind = "number" /\ 1 <= v.is /\ v.is <= MaxTemperatureHours
Is2t(v) == v.kind = "text" /\ v.is = "2t"

AcceptedTemperature(params) ==
    /\ DOMAIN params \subseteq TemperatureParameters
    /\ Required(params, {"hourly"}, Is2t)
    /\ Required(params, {"forecast_hours"}, IsHourCount)

TemperatureRequest(params, accepted) ==
    LET start == HourBegun(accepted) + Hour
        hours == First(params, {"forecast_hours"}).is
        end == start + hours * Hour
    IN Request(EventId(params, DefaultId("temperature", Place(params), start, end, NoCutoff)),
               "temperature", [place |-> Place(params), hours |-> hours],
               NoCutoff, "none", start, end)

(* forecast_request_from_query, at the time the request is accepted.       *)
SpansAnHour(params) ==
    /\ Required(params, Start, IsTime) /\ Required(params, End, IsTime)
    /\ Duration(params) = Hour

Accepted(params) ==
    /\ WellFormed(params)
    /\ Located(params)
    /\ IF TemperatureQuery(params) THEN AcceptedTemperature(params)
       ELSE IF SpansAnHour(params) THEN AcceptedPoint(params)
       ELSE AcceptedWindow(params)

RequestOf(params, accepted) ==
    IF TemperatureQuery(params) THEN TemperatureRequest(params, accepted)
    ELSE IF SpansAnHour(params) THEN PointRequest(params)
    ELSE WindowRequest(params)

-----------------------------------------------------------------------------
(* effective_cutoff: an implicit cutoff is the start of the window and is  *)
(* extended by the first hour.                                             *)
EffectiveCutoff(q) == IF q.policy = "implicit" THEN q.cutoff + Hour ELSE q.cutoff

(* _service_*_from_receipt: does the stored receipt answer this question?  *)
(* A window is compared without its policy, but a receipt issued under the *)
(* implicit grace is not handed to a caller who set a cutoff.              *)
Identity(q) == [event |-> q.event, contract |-> q.contract,
                asks |-> q.asks, cutoff |-> q.cutoff]

(* Mutant: the policies are not compared at all.                           *)
BindsAnyPolicy(stored, q) == Identity(stored) = Identity(q)

Binds(stored, q) ==
    /\ ~(stored.policy = "implicit" /\ q.policy = "explicit")
    /\ Identity(stored) = Identity(q)
=============================================================================
