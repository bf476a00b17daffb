-------------------------- MODULE ProviderAdapters --------------------------
(***************************************************************************)
(* From a weather provider's response to a forecast (src/oathcast/adapters *)
(* and the canonical forecasts of src/oathcast/forecast.py).               *)
(*                                                                         *)
(* A response says what its time labels are in (offset: clock units from   *)
(* UTC, None when not declared), its units, whether its arrays are there   *)
(* and of one length, and its rows.  A row has a label, whether that is an *)
(* epoch (UTC by definition), a probability and a temperature; None is a   *)
(* value that is absent or not a number.  Raw numbers are in hundredths,   *)
(* so 40 % is 4000 and 0.4 is 40; probabilities are hundredths as well.    *)
(* The precipitation amount is read like the probability and the wind like *)
(* the temperature, so a row does not list them.                           *)
(***************************************************************************)
EXTENDS ForecastContract, FiniteSetsExt

CONSTANTS
    VerifiedProviders,  \* verified_providers of the service
    AllowUnverified,    \* allow_unverified_providers
    None

Refused == [answered |-> FALSE, hours |-> <<>>]
Forecast(hours) == [answered |-> TRUE, hours |-> hours]

ForecastHour(start, probability, temperature) ==
    [start |-> start, end |-> start + Hour, probability |-> probability,
     temperature |-> temperature]

(* probability_from_percent and probability_from_unit_interval.            *)
IsPercent(v) == v # None /\ 0 <= v /\ v <= 100 * 100
FromPercent(v) == v \div 100
IsUnitInterval(v) == v # None /\ 0 <= v /\ v <= 100

-----------------------------------------------------------------------------
(* The three point adapters.  Each turns every row into a point, fails on  *)
(* the first row it cannot read, and takes the point with the label it     *)
(* needs: never the nearest, and the first of several.                     *)
SelectExactPoint(points, label, question) ==
    LET found == {i \in 1..Len(points) : points[i].at = label}
    IN IF found = {} THEN Refused
       ELSE Forecast(<<ForecastHour(question.start,
                                    points[Min(found)].probability, None)>>)

Points(rows, At(_), Probability(_)) ==
    [i \in 1..Len(rows) |-> [at |-> At(rows[i]), probability |-> Probability(rows[i])]]

All(rows, Readable(_)) == \A i \in 1..Len(rows) : Readable(rows[i])

(* OpenMeteoAdapter: a label ends the hour it is about.                    *)
ParseOpenMeteo(payload, question) ==
    LET Readable(row) == row.at # None /\ IsPercent(row.probability)
        At(row) == row.at
        Probability(row) == FromPercent(row.probability)
    IN IF payload.complete /\ All(payload.rows, Readable)
       THEN SelectExactPoint(Points(payload.rows, At, Probability),
                             question.end, question)
       ELSE Refused

(* WeatherApiAdapter: an epoch, or a local time in the declared zone.      *)
ParseWeatherApi(payload, question) ==
    LET Readable(row) == /\ row.at # None
                         /\ row.epoch \/ payload.offset # None
                         /\ IsPercent(row.probability)
        At(row) == IF row.epoch THEN row.at ELSE row.at - payload.offset
        Probability(row) == FromPercent(row.probability)
    IN IF payload.complete /\ All(payload.rows, Readable)
       THEN SelectExactPoint(Points(payload.rows, At, Probability),
                             question.start, question)
       ELSE Refused

(* OpenWeatherAdapter: rows without a time are skipped, unread (they can   *)
(* have no label that is looked for).                                      *)
ParseOpenWeather(payload, question) ==
    LET Readable(row) == row.at # None => IsUnitInterval(row.probability)
        At(row) == row.at
        Probability(row) == row.probability
    IN IF payload.complete /\ All(payload.rows, Readable)
       THEN SelectExactPoint(Points(payload.rows, At, Probability),
                             question.start, question)
       ELSE Refused

-----------------------------------------------------------------------------
(* The two adapters for series of hours.                                   *)
HourStarts(request) ==
    [i \in 1..((request.end - request.start) \div Hour) |->
        request.start + (i - 1) * Hour]

Undoubled(rows) ==
    /\ \A i \in 1..Len(rows) : rows[i].at # None
    /\ \A i, j \in 1..Len(rows) : rows[i].at = rows[j].at => i = j

Covered(rows, t) == \E i \in 1..Len(rows) : rows[i].at = t

RowAt(rows, t) == rows[CHOOSE i \in 1..Len(rows) : rows[i].at = t]

(* CanonicalWindowForecast and CanonicalTemperatureWindowForecast accept   *)
(* only the hours of the request, each once and in order.                  *)
Complete(hours, request) ==
    /\ Len(hours) = (request.end - request.start) \div Hour
    /\ \A i \in 1..Len(hours) :
           /\ hours[i].start = request.start + (i - 1) * Hour
           /\ hours[i].end = hours[i].start + Hour

Canonical(hours, request) ==
    IF Complete(hours, request) THEN Forecast(hours) ELSE Refused

(* Mutant: the probability is taken from the row that starts the hour.     *)
WindowHourMislabelled(rows, start) ==
    ForecastHour(start, FromPercent(RowAt(rows, start).probability),
                 RowAt(rows, start).temperature)

(* An hour of a window: the temperature (and wind) of the row at its       *)
(* start, the probability (and amount) of the row at its end.              *)
WindowHour(rows, start) ==
    ForecastHour(start, FromPercent(RowAt(rows, start + Hour).probability),
                 RowAt(rows, start).temperature)

(* OpenMeteoWindowAdapter: UTC and the units asked for, or undeclared; only *)
(* the values it uses are read.                                            *)
ParseWindow(payload, request) ==
    LET rows == payload.rows
        starts == HourStarts(request)
    IN IF /\ payload.offset \in {None, 0}
          /\ payload.units \in {"undeclared", "asked for"}
          /\ payload.complete
          /\ Undoubled(rows)
          /\ \A i \in 1..Len(starts) :
                 /\ Covered(rows, starts[i]) /\ Covered(rows, starts[i] + Hour)
                 /\ RowAt(rows, starts[i]).temperature # None
                 /\ IsPercent(RowAt(rows, starts[i] + Hour).probability)
       THEN Canonical([i \in 1..Len(starts) |-> WindowHour(rows, starts[i])], request)
       ELSE Refused

(* An hour of a temperature request: the temperature at its start.         *)
TemperatureHour(rows, start) == ForecastHour(start, None, RowAt(rows, start).temperature)

(* OpenMeteoTemperatureWindowAdapter: zone and units must be declared.     *)
ParseTemperature(payload, request) ==
    LET rows == payload.rows
        starts == HourStarts(request)
    IN IF /\ payload.offset = 0
          /\ payload.units = "asked for"
          /\ payload.complete
          /\ Undoubled(rows)
          /\ \A i \in 1..Len(starts) :
                 /\ Covered(rows, starts[i])
                 /\ RowAt(rows, starts[i]).temperature # None
       THEN Canonical([i \in 1..Len(starts) |-> TemperatureHour(rows, starts[i])], request)
       ELSE Refused

-----------------------------------------------------------------------------
(* _fetch_one and its siblings: providers whose events are not documented  *)
(* to be the question's are refused unless the service allows them, and    *)
(* only Open-Meteo has the series of hours.                                *)
Providers == {"open_meteo", "weatherapi", "openweather_onecall"}

DocumentedMatch(provider) == provider = "open_meteo"

Enabled(provider) ==
    AllowUnverified \/ (provider \in VerifiedProviders /\ DocumentedMatch(provider))

Parse(provider, payload, request) ==
    IF ~Enabled(provider) THEN Refused
    ELSE IF request.contract = "window"
         THEN IF provider = "open_meteo" THEN ParseWindow(payload, request) ELSE Refused
    ELSE IF request.contract = "temperature"
         THEN IF provider = "open_meteo" THEN ParseTemperature(payload, request) ELSE Refused
    ELSE IF provider = "open_meteo" THEN ParseOpenMeteo(payload, request)
    ELSE IF provider = "weatherapi" THEN ParseWeatherApi(payload, request)
    ELSE ParseOpenWeather(payload, request)

(* The figures an answer leads with.                                       *)
MinimumTemperature(hours) == Min({hours[i].temperature : i \in DOMAIN hours})
MaximumTemperature(hours) == Max({hours[i].temperature : i \in DOMAIN hours})

(* peak_precipitation_hour: the most probable hour, the earliest of them.  *)
PeakHour(hours) ==
    hours[CHOOSE i \in DOMAIN hours :
              \A j \in DOMAIN hours :
                  \/ hours[j].probability < hours[i].probability
                  \/ /\ hours[j].probability = hours[i].probability
                     /\ hours[i].start <= hours[j].start]
=============================================================================
