------------------------ MODULE MCForecastAlgorithms ------------------------
EXTENDS ForecastAlgorithms, TLC

(* Queries.                                                                *)
Time(t) == <<[kind |-> "time", at |-> t, zoned |-> TRUE]>>
NaiveTime(t) == <<[kind |-> "time", at |-> t, zoned |-> FALSE]>>
Number(n) == <<[kind |-> "number", is |-> n]>>
Text(s) == <<[kind |-> "text", is |-> s]>>
Blank == <<[kind |-> "blank"]>>

At(lat) == ("lat" :> Number(lat)) @@ ("longitude" :> Number(20))
Bounds(start, end) == ("start" :> Time(start)) @@ ("horizon_end" :> Time(end))
Between(start, end) == At(10) @@ Bounds(start, end)
CutoffAt(t) == "cutoff" :> Time(t)
Next2t(hours) == At(10) @@ ("hourly" :> Text("2t")) @@ ("forecast_hours" :> Number(hours))

(* Bounds on, before and after half past, at lengths that are an hour,     *)
(* several, too many and broken; cutoffs before, at and after the start.   *)
Plain == {Between(s, s + d) : s \in 8..12, d \in {3, 4, 6, 8, 12, 16}}
WithCutoff == {Between(s, s + d) @@ CutoffAt(c) :
                   s \in {8, 9, 10}, d \in {4, 8}, c \in {4, 7, 8, 12}}
Temperatures == {Next2t(n) : n \in {0, 1, 2, 3}}

Special == {
    Between(8, 12) @@ ("threshold_mm" :> Number(100)) @@ ("operator" :> Text(">")),
    Between(8, 12) @@ ("threshold_mm" :> Number(200)),
    Between(8, 16) @@ ("operator" :> Text(">=")),
    Between(8, 16) @@ ("event_id" :> Text("mine")),
    Between(8, 16) @@ ("location_name" :> Text("Oslo")),
    Between(8, 16) @@ ("horizon_start" :> Time(8)),
    Between(8, 16) @@ ("event_id" :> Blank),
    Between(8, 16) @@ ("colour" :> Text("red")),
    At(10) @@ ("start" :> NaiveTime(8)) @@ ("end" :> NaiveTime(12)),
    At(10) @@ ("start" :> NaiveTime(8)) @@ ("end" :> NaiveTime(16)),
    At(91) @@ Bounds(8, 12),
    Next2t(2) @@ Bounds(8, 12),
    At(10) @@ ("hourly" :> Text("tp")) @@ ("forecast_hours" :> Number(2)),
    At(10)}

MCQueries == Plain \cup WithCutoff \cup Temperatures \cup Special

(* A request is accepted during an hour or just as it begins.              *)
MCAcceptTimes == {5, 8}

(* Seven hours, some of them equally wet.                                  *)
Sky(probabilities, temperatures) ==
    [h \in {Hour * i : i \in 0..6} |->
        [probability |-> probabilities[h \div Hour + 1],
         temperature |-> temperatures[h \div Hour + 1]]]

MCSkies == {Sky(<<5, 20, 70, 40, 70, 0, 100>>, <<1, 0, 3, -2, 4, 2, 5>>)}

(* Around the threshold of 100 micrometres, in tenths.                     *)
MCAmounts == {0, 995, 1000, 1005, 1006, 1010}

(* Cases.                                                                  *)
Says(p) == [probability |-> p, status |-> "valid"]
Late(p) == [probability |-> p, status |-> "late"]

(* Two providers disagree, agree, one of them is late or missing.          *)
AllForecasts == {(1 :> Says(90)) @@ (2 :> Says(20)),
                 (1 :> Says(20)) @@ (2 :> Says(90)),
                 (1 :> Says(50)) @@ (2 :> Late(50)),
                 (2 :> Says(50))}

Case(id, issued, resolved, outcome, forecasts) ==
    [id |-> id, issued |-> issued, start |-> issued + 1, end |-> issued + 2,
     resolved |-> resolved, outcome |-> outcome, forecasts |-> forecasts]

(* Issued at 0, 2 or 3; resolved at the end of the hour or later, or not.     *)
MCCases ==
    {Case(id, t, t + 2 + d, o, f) :
        id \in {1, 2}, t \in {0, 2, 3}, d \in {0, 1}, o \in {0, 1}, f \in AllForecasts}
    \cup {Case(3, t, Unknown, Unknown, f) : t \in {0, 2, 3}, f \in AllForecasts}

(* Both providers answer, or one does not.                                 *)
MCPairForecasts == {(1 :> Says(90)) @@ (2 :> Says(20)),
                    (1 :> Says(90)) @@ (2 :> [probability |-> Unknown, status |-> "missing"])}

Symmetry == Permutations(Runs) \cup Permutations(Files)
=============================================================================
