---------------------- MODULE ForecastAlgorithmsProofs ----------------------
(***************************************************************************)
(* Theorems about one forecast (ForecastPipeline and what it stands on),   *)
(* about the comparison of providers (Backtest) and about the files it     *)
(* reads (PairCollection).                                                 *)
(***************************************************************************)
EXTENDS ForecastAlgorithms, SequenceTheorems, FiniteSetTheorems, WellFoundedInduction, TLAPS

-----------------------------------------------------------------------------
(* Hours of the clock.                                                     *)
LEMMA HourPositive == Hour \in Int /\ Hour > 0
  BY HourAssumption

(* The whole hour that a time lies in.                                     *)
LEMMA Division ==
    ASSUME NEW t \in Int
    PROVE  /\ t \div Hour \in Int
           /\ (t \div Hour) * Hour \in Int
           /\ (t \div Hour) * Hour <= t
           /\ t < (t \div Hour) * Hour + Hour
           /\ ((t \div Hour) * Hour) % Hour = 0
  BY HourPositive

(* A time at a whole hour is that hour.                                    *)
LEMMA Multiples ==
    ASSUME NEW t \in Int, t % Hour = 0
    PROVE  t = (t \div Hour) * Hour
  BY HourPositive

(* A multiple of an hour is a whole hour.                                  *)
LEMMA Times ==
    ASSUME NEW k \in Int
    PROVE  (k * Hour) % Hour = 0
  BY HourPositive

(* An hour after a whole hour is a whole hour.                             *)
LEMMA NextWholeHour ==
    ASSUME NEW t \in Int, t % Hour = 0
    PROVE  (t + Hour) % Hour = 0
<1>1. PICK k \in Int : k = t \div Hour
  BY Division
<1>2. t + Hour = (k + 1) * Hour
  BY <1>1, Multiples, HourPositive
<1>3. ((k + 1) * Hour) % Hour = 0
  BY Times
<1> QED
  BY <1>2, <1>3

(* Different whole hours are an hour apart.                                *)
LEMMA Apart ==
    ASSUME NEW a \in Int, NEW b \in Int, a * Hour < b * Hour
    PROVE a * Hour + Hour <= b * Hour
  BY HourPositive

-----------------------------------------------------------------------------
(* Every set of natural numbers that is not empty has a least member.      *)
LEMMA LeastNat ==
    ASSUME NEW T, T \subseteq Nat, T # {}
    PROVE  \E n \in T : \A m \in T : n <= m
<1> DEFINE Less == {ss \in Nat \X Nat : ss[1] < ss[2]}
<1>1. IsWellFoundedOn(Less, Nat)
  BY NatLessThanWellFounded, Zenon DEF OpToRel
<1>2. PICK n \in T : \A m \in T : <<m, n>> \notin Less
  <2> HIDE DEF Less
  <2> QED
    BY <1>1, WFMin, Zenon
<1>3. ASSUME NEW m \in T
      PROVE  n <= m
  <2>1. <<m, n>> \in Nat \X Nat /\ <<m, n>> \notin Less
    BY <1>2
  <2> QED
    BY <2>1
<1> QED
  BY <1>3

(* Induction on the members of a set.                                      *)
LEMMA SetInduction ==
    ASSUME NEW S, 0 \in S, \A n \in Nat : n \in S => n + 1 \in S
    PROVE  Nat \subseteq S
<1>1. SUFFICES ASSUME Nat \ S # {}
               PROVE  FALSE
  OBVIOUS
<1>2. PICK n \in Nat \ S : \A m \in Nat \ S : n <= m
  BY <1>1, LeastNat
<1>3. n - 1 \in Nat /\ n - 1 \notin Nat \ S
  BY <1>2
<1> QED
  BY <1>2, <1>3

(* The largest of finitely many numbers, and the smallest.                 *)
LEMMA LargestOfList ==
    ASSUME NEW n \in Nat \ {0}, NEW f \in [1..n -> Int]
    PROVE  \E i \in 1..n : \A j \in 1..n : f[j] <= f[i]
<1> DEFINE S == {k \in Nat : k + 1 <= n =>
                    \E i \in 1..k + 1 : \A j \in 1..k + 1 : f[j] <= f[i]}
<1>1. 0 \in S
  OBVIOUS
<1>2. ASSUME NEW k \in Nat, k \in S
      PROVE  k + 1 \in S
  <2>1. SUFFICES ASSUME k + 2 <= n
                 PROVE  \E i \in 1..k + 2 : \A j \in 1..k + 2 : f[j] <= f[i]
    OBVIOUS
  <2>2. PICK i \in 1..k + 1 : \A j \in 1..k + 1 : f[j] <= f[i]
    BY <1>2, <2>1
  <2>3. f[i] \in Int /\ f[k + 2] \in Int
    BY <2>1
  <2>4. CASE f[k + 2] <= f[i]
    <3>1. \A j \in 1..k + 2 : f[j] <= f[i]
      BY <2>2, <2>4
    <3> QED
      BY <3>1
  <2>5. CASE f[i] < f[k + 2]
    <3>1. \A j \in 1..k + 2 : f[j] <= f[k + 2]
      <4>1. TAKE j \in 1..k + 2
      <4>2. f[j] \in Int
        BY <2>1
      <4>3. j = k + 2 \/ f[j] <= f[i]
        BY <2>2
      <4> QED
        BY <2>3, <2>5, <4>2, <4>3
    <3> QED
      BY <3>1
  <2> QED
    BY <2>3, <2>4, <2>5
<1>3. Nat \subseteq S
  <2> HIDE DEF S
  <2> QED
    BY <1>1, <1>2, SetInduction
<1>4. n - 1 \in S
  <2> HIDE DEF S
  <2>1. n - 1 \in Nat
    OBVIOUS
  <2> QED
    BY <1>3, <2>1
<1> QED
  BY <1>4

(* A finite set of numbers has a largest one, and Max chooses it.          *)
LEMMA Largest ==
    ASSUME NEW T, IsFiniteSet(T), T # {}, T \subseteq Int
    PROVE  Max(T) \in T /\ \A t \in T : t <= Max(T)
<1>1. PICK n \in Nat : n = Cardinality(T)
  BY FS_CardinalityType
<1>2. PICK f : f \in Bijection(1..n, T)
  BY <1>1, FS_CardinalityType DEF ExistsBijection
<1>3. f \in [1..n -> T] /\ \A t \in T : \E i \in 1..n : f[i] = t
  BY <1>2 DEF Bijection, Surjection, Injection
<1>4. n # 0
  <2>1. PICK i : i \in 1..n
    BY <1>3
  <2> QED
    BY <2>1
<1>5. f \in [1..n -> Int]
  BY <1>3
<1>6. PICK i \in 1..n : \A j \in 1..n : f[j] <= f[i]
  BY <1>4, <1>5, LargestOfList
<1>7. f[i] \in T /\ \A t \in T : t <= f[i]
  BY <1>3, <1>6
<1>8. \E x \in T : \A y \in T : x >= y
  BY <1>5, <1>7
<1>9. Max(T) \in T /\ \A y \in T : Max(T) >= y
  BY <1>8, Zenon DEF Max
<1> QED
  BY <1>9

(* A finite set of numbers has a smallest one, and Min chooses it.         *)
LEMMA Smallest ==
    ASSUME NEW T, IsFiniteSet(T), T # {}, T \subseteq Int
    PROVE  Min(T) \in T /\ \A t \in T : Min(T) <= t
<1>1. PICK n \in Nat : n = Cardinality(T)
  BY FS_CardinalityType
<1>2. PICK f : f \in Bijection(1..n, T)
  BY <1>1, FS_CardinalityType DEF ExistsBijection
<1>3. f \in [1..n -> T] /\ \A t \in T : \E i \in 1..n : f[i] = t
  BY <1>2 DEF Bijection, Surjection, Injection
<1>4. n # 0
  <2>1. PICK i : i \in 1..n
    BY <1>3
  <2> QED
    BY <2>1
<1>5. PICK g : g = [i \in 1..n |-> 0 - f[i]]
  OBVIOUS
<1>6. g \in [1..n -> Int]
  <2>1. \A i \in 1..n : f[i] \in Int
    BY <1>3
  <2>2. \A i \in 1..n : 0 - f[i] \in Int
    BY <2>1
  <2> QED
    BY <1>5, <2>2
<1>7. PICK i \in 1..n : \A j \in 1..n : g[j] <= g[i]
  BY <1>4, <1>6, LargestOfList
<1>8. \A j \in 1..n : f[i] <= f[j]
  <2>1. TAKE j \in 1..n
  <2>2. f[i] \in Int /\ f[j] \in Int /\ 0 - f[j] <= 0 - f[i]
    BY <1>3, <1>5, <1>7
  <2> QED
    BY <2>2
<1>9. \E x \in T : \A y \in T : x =< y
  BY <1>3, <1>8
<1> QED
  BY <1>9, Zenon DEF Min

-----------------------------------------------------------------------------
(* Queries and requests.                                                   *)

(* What an accepted query gives is read as what it is.                     *)
LEMMA FirstReads ==
    ASSUME NEW params \in Queries, WellFormed(params), NEW names,
           Given(params, names)
    PROVE  Readings(First(params, names))
<1>1. PICK n : n = CHOOSE name \in names \cap DOMAIN params : TRUE
  OBVIOUS
<1>2. n \in names \cap DOMAIN params
  BY <1>1 DEF Given
<1>3. Len(params[n]) = 1
  BY <1>2 DEF WellFormed
<1>4. 1 \in DOMAIN params[n]
  BY <1>2, <1>3, PipelineAssumption
<1> QED
  BY <1>1, <1>2, <1>4, PipelineAssumption DEF First

(* The nearest whole hour is a whole hour, and none is nearer.             *)
LEMMA NearestIsNear ==
    ASSUME NEW t \in Int
    PROVE  /\ NearestHour(t) \in Int /\ NearestHour(t) % Hour = 0
           /\ NearestHour(t) <= t => 2 * (t - NearestHour(t)) < Hour
           /\ NearestHour(t) > t => 2 * (NearestHour(t) - t) <= Hour
<1>1. PICK h \in Int : h = (t \div Hour) * Hour
  BY Division
<1>2. h <= t /\ t < h + Hour /\ h % Hour = 0
  BY <1>1, Division
<1>3. (h + Hour) % Hour = 0
  BY <1>2, NextWholeHour
<1>4. NearestHour(t) = IF 2 * (t - h) >= Hour THEN h + Hour ELSE h
  BY <1>1 DEF NearestHour
<1> QED
  BY <1>2, <1>3, <1>4, HourPositive

(* Two whole hours are an hour apart.                                      *)
LEMMA WholeHoursApart ==
    ASSUME NEW g \in Int, NEW h \in Int, g % Hour = 0, h % Hour = 0, g < h
    PROVE  g + Hour <= h
<1>1. g = (g \div Hour) * Hour /\ h = (h \div Hour) * Hour
  BY Multiples
<1>2. g \div Hour \in Int /\ h \div Hour \in Int
  BY Division
<1> QED
  BY <1>1, <1>2, Apart

(* Rounding takes the nearest whole hour, the later one of two.            *)
LEMMA NearestIsNearest ==
    ASSUME NEW t \in Int, NEW h \in Int, h % Hour = 0, h # NearestHour(t)
    PROVE  \/ Distance(t, NearestHour(t)) < Distance(t, h)
           \/ /\ Distance(t, NearestHour(t)) = Distance(t, h)
              /\ h < NearestHour(t)
<1>1. PICK g \in Int : g = NearestHour(t)
  BY NearestIsNear
<1>2. /\ g % Hour = 0
      /\ g <= t => 2 * (t - g) < Hour
      /\ g > t => 2 * (g - t) <= Hour
  BY <1>1, NearestIsNear
<1>3. g + Hour <= h \/ h + Hour <= g
  BY <1>1, <1>2, WholeHoursApart
<1> QED
  BY <1>1, <1>2, <1>3, HourPositive DEF Distance

(* The contracts of the three kinds of queries.                            *)
LEMMA RequestKinds ==
    ASSUME NEW params, NEW t
    PROVE  RequestOf(params, t).contract =
               IF TemperatureQuery(params) THEN "temperature"
               ELSE IF SpansAnHour(params) THEN "point" ELSE "window"
  BY DEF RequestOf, TemperatureRequest, PointRequest, WindowRequest, Request

(* A point request is about the hour that begins at the time given.        *)
LEMMA PointIsFaithful ==
    ASSUME NEW params \in Queries, NEW t, Accepted(params),
           RequestOf(params, t).contract = "point"
    PROVE  LET q == RequestOf(params, t)
           IN /\ First(params, Start).at \in Int
              /\ q.start = First(params, Start).at
              /\ q.end = q.start + Hour
              /\ q.cutoff \in Int /\ q.cutoff < q.start /\ q.policy = "none"
<1>1. /\ WellFormed(params) /\ SpansAnHour(params) /\ AcceptedPoint(params)
      /\ RequestOf(params, t) = PointRequest(params)
  BY RequestKinds DEF Accepted, RequestOf
<1>2. /\ Given(params, Start) /\ IsTime(First(params, Start))
      /\ Given(params, End) /\ IsTime(First(params, End))
      /\ Given(params, Cutoff) => IsTime(First(params, Cutoff))
  BY <1>1 DEF SpansAnHour, Required, AcceptedPoint, Optional
<1>3. First(params, Start).at \in Int /\ First(params, End).at \in Int
  BY <1>1, <1>2, FirstReads DEF Readings, IsTime
<1>4. Given(params, Cutoff) => First(params, Cutoff).at \in Int
  BY <1>1, <1>2, FirstReads DEF Readings, IsTime
<1>5. First(params, End).at = First(params, Start).at + Hour
  BY <1>1, <1>3, HourPositive DEF SpansAnHour, Duration
<1>6. PointCutoff(params) \in Int /\ PointCutoff(params) < First(params, Start).at
  BY <1>1, <1>3, <1>4, HourPositive DEF PointCutoff, AcceptedPoint
<1> QED
  BY <1>1, <1>3, <1>5, <1>6 DEF PointRequest, Request

(* A window request begins at the nearest hour and lasts what was asked.   *)
LEMMA WindowsAreFaithful ==
    ASSUME NEW params \in Queries, NEW t, Accepted(params),
           RequestOf(params, t).contract = "window"
    PROVE  LET q == RequestOf(params, t)
           IN /\ First(params, Start).at \in Int
              /\ q.start = NearestHour(First(params, Start).at)
              /\ Duration(params) \in Int /\ Hour <= Duration(params)
              /\ Duration(params) % Hour = 0
              /\ q.end = q.start + Duration(params)
              /\ q.cutoff \in Int /\ q.cutoff <= q.start
              /\ q.policy = "implicit" => q.cutoff = q.start
              /\ q.policy # "none"
<1>1. /\ WellFormed(params) /\ AcceptedWindow(params)
      /\ RequestOf(params, t) = WindowRequest(params)
  BY RequestKinds DEF Accepted, RequestOf
<1>2. /\ Given(params, Start) /\ IsZonedTime(First(params, Start))
      /\ Given(params, End) /\ IsZonedTime(First(params, End))
      /\ Given(params, Cutoff) => IsZonedTime(First(params, Cutoff))
  BY <1>1 DEF AcceptedWindow, Required, Optional
<1>3. First(params, Start).at \in Int /\ First(params, End).at \in Int
  BY <1>1, <1>2, FirstReads DEF Readings, IsZonedTime
<1>4. Given(params, Cutoff) => First(params, Cutoff).at \in Int
  BY <1>1, <1>2, FirstReads DEF Readings, IsZonedTime
<1>5. /\ Duration(params) \in Int /\ Hour <= Duration(params)
      /\ Duration(params) % Hour = 0
      /\ Given(params, Cutoff) => First(params, Cutoff).at <= WindowStart(params)
  BY <1>1, <1>3 DEF AcceptedWindow, Duration
<1>6. WindowStart(params) = NearestHour(First(params, Start).at)
      /\ WindowStart(params) \in Int
  BY <1>3, NearestIsNear DEF WindowStart
<1> QED
  BY <1>1, <1>3, <1>4, <1>5, <1>6 DEF WindowRequest, Request

(* A temperature request is about the whole hours after its acceptance.    *)
LEMMA TemperaturesAreFaithful ==
    ASSUME NEW params \in Queries, NEW t \in Int, Accepted(params),
           RequestOf(params, t).contract = "temperature"
    PROVE  LET q == RequestOf(params, t)
           IN /\ q.start \in Int /\ q.start % Hour = 0
              /\ t < q.start /\ q.start <= t + Hour
              /\ q.asks.hours \in Nat \ {0}
              /\ q.end = q.start + q.asks.hours * Hour
              /\ q.policy = "none" /\ q.cutoff = NoCutoff
<1>1. /\ WellFormed(params) /\ AcceptedTemperature(params)
      /\ RequestOf(params, t) = TemperatureRequest(params, t)
  BY RequestKinds DEF Accepted, RequestOf
<1>2. PICK n : n = First(params, {"forecast_hours"}).is
  OBVIOUS
<1>3. Given(params, {"forecast_hours"}) /\ IsHourCount(First(params, {"forecast_hours"}))
  BY <1>1 DEF AcceptedTemperature, Required
<1>4. n \in Int /\ 1 <= n
  BY <1>1, <1>2, <1>3, FirstReads DEF Readings, IsHourCount
<1>5. PICK h \in Int : h = HourBegun(t)
  BY Division DEF HourBegun
<1>6. h <= t /\ t < h + Hour /\ h % Hour = 0
  BY <1>5, Division DEF HourBegun
<1>7. (h + Hour) % Hour = 0 /\ h + Hour \in Int
  BY <1>6, HourPositive, NextWholeHour
<1>8. /\ RequestOf(params, t).start = h + Hour
      /\ RequestOf(params, t).asks.hours = n
      /\ RequestOf(params, t).end = h + Hour + n * Hour
      /\ RequestOf(params, t).policy = "none"
      /\ RequestOf(params, t).cutoff = NoCutoff
  BY <1>1, <1>2, <1>5 DEF TemperatureRequest, Request
<1> QED
  BY <1>4, <1>6, <1>7, <1>8, HourPositive

(* The contracts of accepted requests.                                     *)
LEMMA ThreeContracts ==
    ASSUME NEW params, NEW t
    PROVE  RequestOf(params, t).contract \in Contracts
  BY RequestKinds DEF Contracts

(* The request is the one that follows from the query.                     *)
AskedAt(t) ==
    /\ query \in Queries /\ Accepted(query)
    /\ request = RequestOf(query, t)
    /\ TemperatureQuery(query) => acceptedAt = t

RequestInv == stage \notin {"new", "rejected"} => \E t \in AcceptTimes : AskedAt(t)

(* A step of a behaviour is one of the pipeline, or leaves it alone.       *)
LEMMA PipelineOrNot ==
    ASSUME [Next]_vars
    PROVE  \/ UNCHANGED pipelineVars
           \/ \E params \in Queries, t \in AcceptTimes : Ask(params, t)
           \/ \E p \in Providers, sky \in Skies, f \in Faults : Fetch(p, sky, f)
           \/ /\ stage = "answered" /\ request.contract = "point"
              /\ \E export \in Exports : Observe(export)
<1>1. CASE UNCHANGED vars
  BY <1>1 DEF vars
<1>2. CASE Next
  <2>1. UNCHANGED pipelineVars \/ PipelineStep
    BY <1>2 DEF Next
  <2> QED
    BY <2>1 DEF PipelineStep
<1> QED
  BY <1>1, <1>2

(* Nothing is asked at first.                                              *)
LEMMA PipelineInitially == Init => RequestInv
  BY DEF Init, PipelineInit, RequestInv

(* Every step keeps what is known of the request.                          *)
LEMMA RequestSteps ==
    ASSUME RequestInv, [Next]_vars
    PROVE  RequestInv'
<1>1. CASE UNCHANGED pipelineVars
  BY <1>1 DEF RequestInv, AskedAt, pipelineVars
<1>2. ASSUME NEW params \in Queries, NEW t \in AcceptTimes, Ask(params, t)
      PROVE  RequestInv'
  <2>1. CASE ~Accepted(params)
    BY <1>2, <2>1 DEF Ask, RequestInv
  <2>2. CASE Accepted(params)
    <3>1. AskedAt(t)'
      BY <1>2, <2>2 DEF Ask, AskedAt
    <3> QED
      BY <3>1 DEF RequestInv
  <2> QED
    BY <2>1, <2>2
<1>3. ASSUME NEW p \in Providers, NEW sky \in Skies, NEW f \in Faults, Fetch(p, sky, f)
      PROVE  RequestInv'
  <2>1. PICK t \in AcceptTimes : AskedAt(t)
    BY <1>3 DEF Fetch, RequestInv
  <2>2. AskedAt(t)'
    BY <1>3, <2>1 DEF Fetch, AskedAt
  <2> QED
    BY <2>2 DEF RequestInv
<1>4. ASSUME NEW export, Observe(export)
      PROVE  RequestInv'
  <2>1. PICK t \in AcceptTimes : AskedAt(t)
    BY <1>4 DEF Observe, RequestInv
  <2>2. AskedAt(t)'
    BY <1>4, <2>1 DEF Observe, AskedAt
  <2> QED
    BY <2>2 DEF RequestInv
<1> QED
  BY <1>1, <1>2, <1>3, <1>4, PipelineOrNot

(* The request is the one made of an accepted query, at all times.         *)
LEMMA RequestHolds == Spec => []RequestInv
<1>1. RequestInv /\ [Next]_vars => RequestInv'
  BY RequestSteps
<1> QED
  BY <1>1, PipelineInitially, PTL DEF Spec

(* RequestIsFaithful: a window keeps its length and moves to the nearest   *)
(* whole hour, a point is the hour asked for, and the hours of a           *)
(* temperature request begin within the hour after it was accepted; for    *)
(* every length of an hour and every accepted query.                       *)
THEOREM RequestsAreFaithful == Spec => []RequestIsFaithful
<1>1. ASSUME RequestInv, stage = "asked"
      PROVE  RequestIsFaithful
  <2>1. PICK t \in AcceptTimes : AskedAt(t)
    BY <1>1 DEF RequestInv
  <2>2. /\ query \in Queries /\ Accepted(query) /\ request = RequestOf(query, t)
        /\ t \in Int
        /\ TemperatureQuery(query) => acceptedAt = t
    BY <2>1, PipelineAssumption DEF AskedAt
  <2>3. CASE request.contract = "window"
    <3>1. PICK s \in Int : s = AskedStart
      BY <2>2, <2>3, WindowsAreFaithful DEF AskedStart
    <3>2. /\ request.start = NearestHour(s)
          /\ Duration(query) \in Int
          /\ request.end = request.start + Duration(query)
          /\ request.cutoff \in Int /\ request.cutoff <= request.start
          /\ request.policy = "implicit" => request.cutoff = request.start
      BY <2>2, <2>3, <3>1, WindowsAreFaithful DEF AskedStart
    <3>3. PICK g \in Int : g = NearestHour(s)
      BY NearestIsNear
    <3>4. g % Hour = 0 /\ s < g + Hour
      <4>1. g <= s => 2 * (s - g) < Hour
        BY <3>3, NearestIsNear
      <4>2. g % Hour = 0
        BY <3>3, NearestIsNear
      <4> QED
        BY <4>1, <4>2, HourPositive
    <3>5. request.end - request.start = Duration(query)
      BY <3>2, <3>3
    <3>6. ASSUME NEW h \in 0..(AskedStart + Hour), h % Hour = 0, h # request.start
          PROVE  \/ Distance(AskedStart, request.start) < Distance(AskedStart, h)
                 \/ /\ Distance(AskedStart, request.start) = Distance(AskedStart, h)
                    /\ h < request.start
      <4>1. h \in Int
        BY <3>1, HourPositive
      <4> QED
        BY <3>1, <3>2, <3>6, <4>1, NearestIsNearest
    <3>7. request.policy = "implicit" => AskedStart < EffectiveCutoff(request)
      BY <3>1, <3>2, <3>3, <3>4 DEF EffectiveCutoff
    <3>8. WindowIsFaithful
      BY <3>2, <3>3, <3>4, <3>5, <3>6, <3>7 DEF WindowIsFaithful
    <3> QED
      BY <2>3, <3>8 DEF RequestIsFaithful
  <2>4. CASE request.contract = "point"
    <3>1. /\ request.start = AskedStart
          /\ request.end = request.start + Hour
          /\ request.cutoff < request.start /\ request.policy = "none"
      BY <2>2, <2>4, PointIsFaithful DEF AskedStart
    <3> QED
      BY <2>4, <3>1 DEF RequestIsFaithful, EffectiveCutoff
  <2>5. CASE request.contract = "temperature"
    <3>1. /\ request.start % Hour = 0
          /\ t < request.start /\ request.start <= t + Hour
          /\ request.end = request.start + request.asks.hours * Hour
      BY <2>2, <2>5, TemperaturesAreFaithful
    <3>2. acceptedAt = t
      BY <2>2, <2>5, RequestKinds
    <3> QED
      BY <2>5, <3>1, <3>2 DEF RequestIsFaithful
  <2> QED
    BY <2>2, <2>3, <2>4, <2>5, ThreeContracts DEF Contracts
<1>2. RequestInv => RequestIsFaithful
  BY <1>1 DEF RequestIsFaithful
<1> QED
  BY <1>2, RequestHolds, PTL

(* What an id that the service gives is made of, and what a request asks.  *)
LEMMA IdOf ==
    ASSUME NEW params, NEW t, ~Given(params, {"event_id"})
    PROVE  LET q == RequestOf(params, t)
           IN q.event = DefaultId(q.contract, q.asks.place, q.start, q.end, q.cutoff)
  BY DEF RequestOf, TemperatureRequest, PointRequest, WindowRequest, Request, EventId

(* What a request asks is its place and its hours.                         *)
LEMMA AsksOf ==
    ASSUME NEW params, NEW t
    PROVE  LET q == RequestOf(params, t)
           IN q.asks = IF q.contract = "temperature"
                       THEN [place |-> q.asks.place, hours |-> q.asks.hours]
                       ELSE [place |-> q.asks.place, start |-> q.start, end |-> q.end]
  BY DEF RequestOf, TemperatureRequest, PointRequest, WindowRequest, Request

(* Equal bounds leave one number of hours.                                 *)
LEMMA SameHours ==
    ASSUME NEW s \in Int, NEW m \in Int, NEW n \in Int,
           s + m * Hour = s + n * Hour
    PROVE  m = n
<1>1. m * Hour = n * Hour
  <2>1. PICK a \in Int, b \in Int : a = m * Hour /\ b = n * Hour
    BY HourPositive
  <2>2. s + a = s + b
    BY <2>1
  <2> QED
    BY <2>1, <2>2
<1>2. CASE m < n
  BY <1>1, <1>2, HourPositive
<1>3. CASE n < m
  BY <1>1, <1>3, HourPositive
<1> QED
  BY <1>2, <1>3

(* The fields that a default id stands for settle what is asked.           *)
LEMMA SameQuestionAsks ==
    ASSUME NEW params \in Queries, NEW t \in Int, Accepted(params),
           NEW others \in Queries, NEW u \in Int, Accepted(others),
           SameQuestion(RequestOf(others, u), RequestOf(params, t))
    PROVE  RequestOf(others, u).asks = RequestOf(params, t).asks
<1>1. PICK q, r : q = RequestOf(others, u) /\ r = RequestOf(params, t)
  OBVIOUS
<1>2. /\ q.contract = r.contract /\ q.asks.place = r.asks.place
      /\ q.start = r.start /\ q.end = r.end
  BY <1>1 DEF SameQuestion
<1>3. CASE r.contract # "temperature"
  BY <1>1, <1>2, <1>3, AsksOf
<1>4. CASE r.contract = "temperature"
  <2>1. PICK m \in Int : m = q.asks.hours
    BY <1>1, <1>2, <1>4, TemperaturesAreFaithful
  <2>2. PICK n \in Int : n = r.asks.hours
    BY <1>1, <1>4, TemperaturesAreFaithful
  <2>3. PICK s \in Int : s = r.start
    BY <1>1, <1>4, TemperaturesAreFaithful
  <2>4. q.end = q.start + q.asks.hours * Hour
    BY <1>1, <1>2, <1>4, TemperaturesAreFaithful
  <2>5. r.end = r.start + r.asks.hours * Hour
    BY <1>1, <1>4, TemperaturesAreFaithful
  <2>6. s + m * Hour = s + n * Hour
    BY <1>2, <2>1, <2>2, <2>3, <2>4, <2>5
  <2>7. m = n
    BY <2>6, SameHours
  <2>8. q.asks = [place |-> q.asks.place, hours |-> q.asks.hours]
    BY <1>1, <1>2, <1>4, AsksOf
  <2>9. r.asks = [place |-> r.asks.place, hours |-> r.asks.hours]
    BY <1>1, <1>4, AsksOf
  <2>10. q.asks = r.asks
    BY <1>2, <2>1, <2>2, <2>7, <2>8, <2>9
  <2> QED
    BY <1>1, <2>10
<1> QED
  BY <1>3, <1>4

(* SameIdReplays: equal ids of the service mean one identity, so that a    *)
(* receipt of the one request answers the other unless exactly one of them *)
(* set its cutoff; and requests that differ in nothing else have one id.   *)
THEOREM SameIdsReplay == Spec => []SameIdReplays
<1>1. ASSUME RequestInv, stage = "asked", ~Given(query, {"event_id"}),
             NEW params \in Queries, NEW t \in AcceptTimes,
             Accepted(params), ~Given(params, {"event_id"})
      PROVE  LET other == RequestOf(params, t)
             IN /\ other.event = request.event =>
                       \/ Binds(other, request)
                       \/ {other.policy, request.policy} = {"implicit", "explicit"}
                /\ SameQuestion(other, request) => other.event = request.event
  <2>1. PICK u \in AcceptTimes : AskedAt(u)
    BY <1>1 DEF RequestInv
  <2>2. /\ query \in Queries /\ Accepted(query)
        /\ request = RequestOf(query, u)
    BY <2>1 DEF AskedAt
  <2>3. t \in Int /\ u \in Int
    BY PipelineAssumption
  <2>4. PICK q : q = RequestOf(params, t)
    OBVIOUS
  <2>5. q.event = DefaultId(q.contract, q.asks.place, q.start, q.end, q.cutoff)
    BY <1>1, <2>4, IdOf
  <2>6. request.event = DefaultId(request.contract, request.asks.place, request.start,
                                  request.end, request.cutoff)
    BY <1>1, <2>2, IdOf
  <2>7. SameQuestion(q, request) => q.event = request.event
    BY <2>5, <2>6 DEF SameQuestion
  <2>8. ASSUME q.event = request.event
        PROVE  Identity(q) = Identity(request)
    <3>1. SameQuestion(q, request)
      BY <2>5, <2>6, <2>8 DEF SameQuestion, DefaultId
    <3>2. q.asks = request.asks
      BY <1>1, <2>2, <2>3, <2>4, <3>1, SameQuestionAsks
    <3>3. q.contract = request.contract /\ q.cutoff = request.cutoff
      BY <3>1 DEF SameQuestion
    <3> QED
      BY <2>8, <3>2, <3>3 DEF Identity
  <2>9. q.event = request.event =>
            \/ Binds(q, request)
            \/ {q.policy, request.policy} = {"implicit", "explicit"}
    BY <2>8 DEF Binds
  <2> QED
    BY <2>4, <2>7, <2>9
<1>2. RequestInv => SameIdReplays
  BY <1>1 DEF SameIdReplays
<1> QED
  BY <1>2, RequestHolds, PTL

-----------------------------------------------------------------------------
(* What the providers' responses say.                                      *)
LEMMA WholeDivision ==
    ASSUME NEW k \in Int
    PROVE  (k * Hour) \div Hour = k
  BY HourPositive

(* Hours of a sky are as many as are counted.                              *)
LEMMA HoursOfASky ==
    ASSUME NEW a \in Int, NEW n \in Nat
    PROVE  Cardinality({a + i * Hour : i \in 0..n}) = n + 1
<1>1. PICK T : T = {a + i * Hour : i \in 0..n}
  OBVIOUS
<1>2. PICK f : f = [i \in 0..n |-> a + i * Hour]
  OBVIOUS
<1>3. ASSUME NEW i \in 0..n, NEW j \in 0..n, f[i] = f[j]
      PROVE  i = j
  <2>1. a + i * Hour = a + j * Hour
    BY <1>2, <1>3
  <2> QED
    BY <2>1, SameHours
<1>4. f \in Bijection(0..n, T)
  <2>1. f \in [0..n -> T]
    BY <1>1, <1>2
  <2>2. \A t \in T : \E i \in 0..n : f[i] = t
    BY <1>1, <1>2
  <2>3. f \in Injection(0..n, T)
    BY <1>3, <2>1 DEF Injection, IsInjective
  <2>4. f \in Surjection(0..n, T)
    BY <2>1, <2>2 DEF Surjection
  <2> QED
    BY <2>3, <2>4 DEF Bijection
<1>5. IsFiniteSet(0..n) /\ Cardinality(0..n) = n + 1
  BY FS_Interval
<1>6. Cardinality(T) = Cardinality(0..n)
  BY <1>4, <1>5, FS_Bijection DEF ExistsBijection
<1> QED
  BY <1>1, <1>5, <1>6

(* A sky of n hours after its first: its labels and its values.            *)
SkyFrom(sky, a, n) ==
    /\ a \in Int /\ n \in Nat /\ 2 <= n
    /\ Labels(sky) = [i \in 1..n |-> a + i * Hour]
    /\ \A i \in 0..n : /\ sky[a + i * Hour].probability \in 0..100
                       /\ sky[a + i * Hour].temperature \in Int

(* The hours of a sky are numbered from its first label.                   *)
LEMMA SkiesHaveLabels ==
    ASSUME NEW sky \in Skies
    PROVE  \E a, n : SkyFrom(sky, a, n)
<1>1. PICK a \in Hours(sky), n \in 2..Cardinality(Hours(sky)) :
          a \in Int /\ SkyOver(sky, a, n)
  BY PipelineAssumption
<1>2. n \in Nat /\ 2 <= n
  OBVIOUS
<1>3. Hours(sky) = {a + i * Hour : i \in 0..n}
  BY <1>1 DEF SkyOver
<1>4. Cardinality(Hours(sky)) = n + 1
  BY <1>1, <1>2, <1>3, HoursOfASky
<1>5. Min(Hours(sky)) = a
  <2>1. \A h \in Hours(sky) : h \in Int /\ a <= h
    <3>1. \A i \in 0..n : a + i * Hour \in Int /\ a <= a + i * Hour
      BY <1>1, HourPositive
    <3> QED
      BY <1>3, <3>1
  <2>2. \E x \in Hours(sky) : \A y \in Hours(sky) : x =< y
    BY <2>1
  <2>3. Min(Hours(sky)) \in Hours(sky) /\ \A y \in Hours(sky) : Min(Hours(sky)) =< y
    BY <2>2, Zenon DEF Min
  <2>4. PICK m \in Int : m = Min(Hours(sky))
    BY <2>1, <2>3
  <2>5. a <= m /\ m <= a
    BY <1>1, <2>1, <2>3, <2>4
  <2> QED
    BY <1>1, <2>4, <2>5
<1>6. Labels(sky) = [i \in 1..n |-> a + i * Hour]
  BY <1>2, <1>4, <1>5 DEF Labels
<1>7. \A i \in 0..n : /\ sky[a + i * Hour].probability \in 0..100
                      /\ sky[a + i * Hour].temperature \in Int
  BY <1>1, <1>3 DEF SkyOver
<1>8. SkyFrom(sky, a, n)
  BY <1>1, <1>2, <1>6, <1>7 DEF SkyFrom
<1> QED
  BY <1>8

(* A row that has a label says what the sky says about the hours it is     *)
(* about, with the values that can be read.                                *)
About(provider, at) == IF provider = "open_meteo" THEN at - Hour ELSE at

Faithful(provider, sky, row) ==
    row.at # None =>
        /\ row.at \in Int
        /\ provider # "open_meteo" => row.epoch = TRUE
        /\ sky[About(provider, row.at)].probability \in 0..100
        /\ sky[row.at].temperature \in Int
        /\ provider # "openweather_onecall" /\ IsPercent(row.probability) =>
               row.probability = 100 * sky[About(provider, row.at)].probability
        /\ provider = "openweather_onecall" /\ IsUnitInterval(row.probability) =>
               row.probability = sky[row.at].probability
        /\ row.temperature # None => row.temperature = sky[row.at].temperature

(* An undamaged row says what the sky says of the hour of its label.       *)
LEMMA NativeIsFaithful ==
    ASSUME NEW p \in Providers, NEW sky, NEW a, NEW n, SkyFrom(sky, a, n),
           NEW i \in 1..n
    PROVE  /\ NativeRows(p, sky)[i].at = a + i * Hour
           /\ a + i * Hour \in Int
           /\ Faithful(p, sky, NativeRows(p, sky)[i])
<1>1. n \in Nat /\ a \in Int
  BY DEF SkyFrom
<1>2. Len(Labels(sky)) = n /\ Labels(sky)[i] = a + i * Hour
  BY <1>1 DEF SkyFrom
<1>3. NativeRows(p, sky)[i] = NativeRow(p, sky, a + i * Hour)
  BY <1>1, <1>2 DEF NativeRows
<1>4. PICK t \in Int : t = a + i * Hour
  BY <1>1, HourPositive
<1>5. t - Hour = a + (i - 1) * Hour
  BY <1>1, <1>4, HourPositive
<1>6. /\ sky[t].probability \in 0..100 /\ sky[t].temperature \in Int
      /\ sky[t - Hour].probability \in 0..100
  <2>1. i \in 0..n /\ i - 1 \in 0..n
    BY <1>1
  <2> QED
    BY <1>4, <1>5, <2>1 DEF SkyFrom
<1>7. NativeRow(p, sky, t).at = t
  BY DEF NativeRow, Row, Providers
<1>8. Faithful(p, sky, NativeRow(p, sky, t))
  <2>1. CASE p = "open_meteo"
    BY <1>4, <1>6, <2>1 DEF NativeRow, Row, Faithful, About
  <2>2. CASE p = "weatherapi"
    BY <1>4, <1>6, <2>2 DEF NativeRow, Row, Faithful, About
  <2>3. CASE p = "openweather_onecall"
    BY <1>4, <1>6, <2>3 DEF NativeRow, Row, Faithful, About
  <2> QED
    BY <2>1, <2>2, <2>3 DEF Providers
<1> QED
  BY <1>3, <1>4, <1>7, <1>8

(* An undamaged response has a row for each hour of the sky.               *)
LEMMA NativeLength ==
    ASSUME NEW p, NEW sky, NEW a, NEW n, SkyFrom(sky, a, n)
    PROVE  /\ NativeRows(p, sky) = [i \in 1..n |-> NativeRows(p, sky)[i]]
           /\ Len(NativeRows(p, sky)) = n
<1>1. n \in Nat
  BY DEF SkyFrom
<1>2. Len(Labels(sky)) = n
  BY <1>1 DEF SkyFrom
<1> QED
  BY <1>1, <1>2 DEF NativeRows

(* The rows of a response whose labels are right: they are faithful, but   *)
(* for the one that a doubled label adds at the end.                       *)
LEMMA ReplacedRows ==
    ASSUME NEW p \in Providers, NEW sky, NEW a, NEW n, SkyFrom(sky, a, n),
           NEW row, Faithful(p, sky, row),
           NEW rs, rs = Replaced(NativeRows(p, sky), row)
    PROVE  /\ Len(rs) = n
           /\ \A i \in 1..n : Faithful(p, sky, rs[i])
<1>1. n \in Nat /\ 2 <= n
  BY DEF SkyFrom
<1>2. PICK native : native = NativeRows(p, sky)
  OBVIOUS
<1>3. native = [i \in 1..n |-> native[i]]
  BY <1>2, NativeLength
<1>4. rs = [i \in 1..n |-> IF i = 2 THEN row ELSE native[i]]
  BY <1>1, <1>2, <1>3 DEF Replaced
<1>5. \A i \in 1..n : Faithful(p, sky, native[i])
  BY <1>2, NativeIsFaithful
<1> QED
  BY <1>1, <1>4, <1>5

(* A response without its second row is faithful in what it has.           *)
LEMMA GapRows ==
    ASSUME NEW p \in Providers, NEW sky, NEW a, NEW n, SkyFrom(sky, a, n),
           NEW rs, rs = <<NativeRows(p, sky)[1]>>
                        \o SubSeq(NativeRows(p, sky), 3, Len(NativeRows(p, sky)))
    PROVE  /\ Len(rs) \in Nat
           /\ \A i \in 1..Len(rs) : Faithful(p, sky, rs[i])
<1>1. n \in Nat /\ 2 <= n
  BY DEF SkyFrom
<1>2. PICK native : native = NativeRows(p, sky)
  OBVIOUS
<1>3. native = [i \in 1..n |-> native[i]] /\ Len(native) = n
  BY <1>2, NativeLength
<1>4. PICK S : S = {native[i] : i \in 1..n}
  OBVIOUS
<1>5. native \in Seq(S)
  BY <1>1, <1>3, <1>4
<1>6. PICK t : t = SubSeq(native, 3, n)
  OBVIOUS
<1>7. t \in Seq(S)
  <2>1. \A i \in 3..n : native[i] \in S
    BY <1>1, <1>4
  <2> QED
    BY <1>1, <1>6, <2>1, SubSeqProperties
<1>8. <<native[1]>> \in Seq(S)
  BY <1>1, <1>4
<1>9. rs = <<native[1]>> \o t
  BY <1>2, <1>3, <1>6
<1>10. rs \in Seq(S)
  BY <1>7, <1>8, <1>9, ConcatProperties
<1>11. Len(rs) \in Nat /\ \A i \in 1..Len(rs) : rs[i] \in S
  BY <1>10
<1>12. \A r \in S : Faithful(p, sky, r)
  BY <1>2, <1>4, NativeIsFaithful
<1> QED
  BY <1>11, <1>12

OneMore(native, n, row, rs) ==
    /\ Len(rs) = n + 1
    /\ \A i \in 1..n : rs[i] = native[i]
    /\ rs[n + 1] = row

(* Appending a row changes none of the others.                             *)
LEMMA DoubledRows ==
    ASSUME NEW p \in Providers, NEW sky, NEW a, NEW n, SkyFrom(sky, a, n),
           NEW native, native = NativeRows(p, sky),
           NEW row, NEW rs, rs = native \o <<row>>
    PROVE  OneMore(native, n, row, rs)
<1>1. n \in Nat /\ 2 <= n
  BY DEF SkyFrom
<1>3. native = [i \in 1..n |-> native[i]] /\ Len(native) = n
  BY NativeLength
<1>4. PICK S : S = {native[i] : i \in 1..n} \cup {row}
  OBVIOUS
<1>5. native \in Seq(S) /\ <<row>> \in Seq(S)
  <2>1. \A i \in 1..n : native[i] \in S
    BY <1>4
  <2>2. native \in Seq(S)
    <3>1. DOMAIN native = 1..n
      BY <1>3
    <3>2. native \in [1..n -> S]
      BY <1>3, <2>1, <3>1
    <3> QED
      BY <1>1, <3>2
  <2>3. row \in S
    BY <1>4
  <2> QED
    BY <2>2, <2>3
<1>7. Len(rs) = n + 1
  BY <1>1, <1>3, <1>5, ConcatProperties
<1>8. \A i \in 1..n : rs[i] = native[i]
  BY <1>1, <1>3, <1>5, ConcatProperties
<1>9. rs[n + 1] = row
  BY <1>1, <1>3, <1>5, ConcatProperties
<1> QED
  BY <1>7, <1>8, <1>9 DEF OneMore

(* What the adapters have to tell apart.                                   *)
Lasting == {"none", "undeclared", "units", "gap", "undated", "null", "range"}

(* Damage that leaves labels and values alone leaves rows faithful.        *)
LEMMA LastingRows ==
    ASSUME NEW p \in Providers, NEW sky \in Skies, NEW f \in Lasting
    PROVE  LET rows == Response(p, sky, f).rows
           IN /\ Len(rows) \in Nat
              /\ \A i \in 1..Len(rows) : Faithful(p, sky, rows[i])
<1>1. PICK a, n : SkyFrom(sky, a, n)
  BY SkiesHaveLabels
<1>2. n \in Nat /\ 2 <= n
  BY <1>1 DEF SkyFrom
<1>3. PICK native : native = NativeRows(p, sky)
  OBVIOUS
<1>4. Len(native) = n /\ \A i \in 1..n : Faithful(p, sky, native[i])
  BY <1>1, <1>3, NativeLength, NativeIsFaithful
<1>5. PICK row : row = native[2]
  OBVIOUS
<1>6. Faithful(p, sky, row)
  BY <1>2, <1>4, <1>5
<1>7. CASE f \in {"none", "undeclared", "units"}
  <2>1. Response(p, sky, f).rows = native
    BY <1>3, <1>7 DEF Response, Payload
  <2> QED
    BY <1>2, <1>4, <2>1
<1>8. CASE f = "gap"
  <2>1. Response(p, sky, f).rows = <<native[1]>> \o SubSeq(native, 3, Len(native))
    BY <1>3, <1>8 DEF Response, Payload
  <2> QED
    BY <1>1, <1>3, <2>1, GapRows
<1>9. CASE f = "undated"
  <2>1. PICK r : r = Row(None, FALSE, row.probability, row.temperature)
    OBVIOUS
  <2>2. Faithful(p, sky, r)
    BY <2>1 DEF Row, Faithful
  <2>3. Response(p, sky, f).rows = Replaced(native, r)
    BY <1>3, <1>5, <1>9, <2>1 DEF Response, Payload
  <2> QED
    BY <1>1, <1>2, <1>3, <2>2, <2>3, ReplacedRows
<1>10. CASE f = "null"
  <2>1. PICK r : r = Row(row.at, row.epoch, None, None)
    OBVIOUS
  <2>2. Faithful(p, sky, r)
    BY <1>6, <2>1 DEF Row, Faithful, IsPercent, IsUnitInterval
  <2>3. Response(p, sky, f).rows = Replaced(native, r)
    BY <1>3, <1>5, <1>10, <2>1 DEF Response, Payload
  <2> QED
    BY <1>1, <1>2, <1>3, <2>2, <2>3, ReplacedRows
<1>11. CASE f = "range"
  <2>1. PICK r : r = Row(row.at, row.epoch, 100 * 100 + 100, row.temperature)
    OBVIOUS
  <2>2. Faithful(p, sky, r)
    BY <1>6, <2>1 DEF Row, Faithful, IsPercent, IsUnitInterval
  <2>3. Response(p, sky, f).rows = Replaced(native, r)
    BY <1>3, <1>5, <1>11, <2>1 DEF Response, Payload
  <2> QED
    BY <1>1, <1>2, <1>3, <2>2, <2>3, ReplacedRows
<1> QED
  BY <1>7, <1>8, <1>9, <1>10, <1>11 DEF Lasting

(* A point is the first row that has the label that is looked for.         *)
LabelOf(p, payload, row) ==
    IF p = "weatherapi" /\ ~row.epoch THEN row.at - payload.offset ELSE row.at

Wanted(p, q) == IF p = "open_meteo" THEN q.end ELSE q.start

Reading(p, row) ==
    IF p = "openweather_onecall" THEN row.probability ELSE FromPercent(row.probability)

Usable(p, row) ==
    IF p = "openweather_onecall" THEN IsUnitInterval(row.probability)
    ELSE IsPercent(row.probability)

PointParse(p, payload, q) ==
    IF p = "open_meteo" THEN ParseOpenMeteo(payload, q)
    ELSE IF p = "weatherapi" THEN ParseWeatherApi(payload, q)
    ELSE ParseOpenWeather(payload, q)

FirstRow(p, payload, q, m) ==
    /\ m \in 1..Len(payload.rows)
    /\ LabelOf(p, payload, payload.rows[m]) = Wanted(p, q)
    /\ \A j \in 1..Len(payload.rows) :
           LabelOf(p, payload, payload.rows[j]) = Wanted(p, q) => m <= j
    /\ payload.rows[m].at # None
    /\ Usable(p, payload.rows[m])

(* What is selected is the first point with the label looked for.          *)
LEMMA SelectedPoint ==
    ASSUME NEW points, Len(points) \in Nat, NEW label, NEW q,
           SelectExactPoint(points, label, q).answered
    PROVE  \E m \in 1..Len(points) :
               /\ points[m].at = label
               /\ \A j \in 1..Len(points) : points[j].at = label => m <= j
               /\ SelectExactPoint(points, label, q).hours
                      = <<ForecastHour(q.start, points[m].probability, None)>>
<1>1. PICK found : found = {i \in 1..Len(points) : points[i].at = label}
  OBVIOUS
<1>2. /\ found # {}
      /\ SelectExactPoint(points, label, q).hours
             = <<ForecastHour(q.start, points[Min(found)].probability, None)>>
  BY <1>1 DEF SelectExactPoint, Refused, Forecast
<1>3. IsFiniteSet(1..Len(points))
  BY FS_Interval
<1>4. IsFiniteSet(found) /\ found \subseteq Int
  BY <1>1, <1>3, FS_Subset
<1>5. Min(found) \in found /\ \A i \in found : Min(found) <= i
  BY <1>2, <1>4, Smallest
<1> QED
  BY <1>1, <1>2, <1>5

(* Open-Meteo's point is read from the first row with its label.           *)
LEMMA OpenMeteoPoint ==
    ASSUME NEW payload, Len(payload.rows) \in Nat, NEW q,
           ParseOpenMeteo(payload, q).answered
    PROVE  payload.complete /\ \E m \in 1..Len(payload.rows) :
               /\ FirstRow("open_meteo", payload, q, m)
               /\ ParseOpenMeteo(payload, q).hours
                      = <<ForecastHour(q.start, Reading("open_meteo", payload.rows[m]), None)>>
<1>1. PICK rows : rows = payload.rows
  OBVIOUS
<1>2. PICK points : points = [i \in 1..Len(rows) |->
                                 [at |-> rows[i].at,
                                  probability |-> FromPercent(rows[i].probability)]]
  OBVIOUS
<1>3. /\ payload.complete
      /\ \A i \in 1..Len(rows) : rows[i].at # None /\ IsPercent(rows[i].probability)
      /\ ParseOpenMeteo(payload, q) = SelectExactPoint(points, q.end, q)
  BY <1>1, <1>2 DEF ParseOpenMeteo, Refused, All, Points
<1>4. Len(points) = Len(rows)
  BY <1>1, <1>2
<1>5. PICK m \in 1..Len(points) :
          /\ points[m].at = q.end
          /\ \A j \in 1..Len(points) : points[j].at = q.end => m <= j
          /\ SelectExactPoint(points, q.end, q).hours
                 = <<ForecastHour(q.start, points[m].probability, None)>>
  BY <1>1, <1>3, <1>4, SelectedPoint
<1>6. FirstRow("open_meteo", payload, q, m)
  BY <1>1, <1>2, <1>3, <1>4, <1>5 DEF FirstRow, LabelOf, Wanted, Usable
<1> QED
  BY <1>1, <1>2, <1>3, <1>4, <1>5, <1>6 DEF Reading

(* WeatherAPI's point is read from the first row with its label.           *)
LEMMA WeatherApiPoint ==
    ASSUME NEW payload, Len(payload.rows) \in Nat, NEW q,
           ParseWeatherApi(payload, q).answered
    PROVE  payload.complete /\ \E m \in 1..Len(payload.rows) :
               /\ FirstRow("weatherapi", payload, q, m)
               /\ ParseWeatherApi(payload, q).hours
                      = <<ForecastHour(q.start, Reading("weatherapi", payload.rows[m]), None)>>
<1>1. PICK rows : rows = payload.rows
  OBVIOUS
<1>2. PICK points : points = [i \in 1..Len(rows) |->
                                 [at |-> LabelOf("weatherapi", payload, rows[i]),
                                  probability |-> FromPercent(rows[i].probability)]]
  OBVIOUS
<1>3. /\ payload.complete
      /\ \A i \in 1..Len(rows) : rows[i].at # None /\ IsPercent(rows[i].probability)
      /\ ParseWeatherApi(payload, q) = SelectExactPoint(points, q.start, q)
  <2>1. points = [i \in 1..Len(rows) |->
                     [at |-> IF rows[i].epoch THEN rows[i].at
                             ELSE rows[i].at - payload.offset,
                      probability |-> FromPercent(rows[i].probability)]]
    BY <1>2 DEF LabelOf
  <2> QED
    BY <1>1, <2>1 DEF ParseWeatherApi, Refused, All, Points
<1>4. Len(points) = Len(rows)
  BY <1>1, <1>2
<1>5. PICK m \in 1..Len(points) :
          /\ points[m].at = q.start
          /\ \A j \in 1..Len(points) : points[j].at = q.start => m <= j
          /\ SelectExactPoint(points, q.start, q).hours
                 = <<ForecastHour(q.start, points[m].probability, None)>>
  BY <1>1, <1>3, <1>4, SelectedPoint
<1>6. FirstRow("weatherapi", payload, q, m)
  BY <1>1, <1>2, <1>3, <1>4, <1>5 DEF FirstRow, Wanted, Usable
<1> QED
  BY <1>1, <1>2, <1>3, <1>4, <1>5, <1>6 DEF Reading

(* OpenWeather's point is read from the first row with its label.          *)
LEMMA OpenWeatherPoint ==
    ASSUME NEW payload, Len(payload.rows) \in Nat, NEW q, q.start # None,
           ParseOpenWeather(payload, q).answered
    PROVE  payload.complete /\ \E m \in 1..Len(payload.rows) :
               /\ FirstRow("openweather_onecall", payload, q, m)
               /\ ParseOpenWeather(payload, q).hours
                      = <<ForecastHour(q.start,
                                       Reading("openweather_onecall", payload.rows[m]),
                                       None)>>
<1>1. PICK rows : rows = payload.rows
  OBVIOUS
<1>2. PICK points : points = [i \in 1..Len(rows) |->
                                 [at |-> rows[i].at, probability |-> rows[i].probability]]
  OBVIOUS
<1>3. /\ payload.complete
      /\ \A i \in 1..Len(rows) : rows[i].at # None => IsUnitInterval(rows[i].probability)
      /\ ParseOpenWeather(payload, q) = SelectExactPoint(points, q.start, q)
  BY <1>1, <1>2 DEF ParseOpenWeather, Refused, All, Points
<1>4. Len(points) = Len(rows)
  BY <1>1, <1>2
<1>5. PICK m \in 1..Len(points) :
          /\ points[m].at = q.start
          /\ \A j \in 1..Len(points) : points[j].at = q.start => m <= j
          /\ SelectExactPoint(points, q.start, q).hours
                 = <<ForecastHour(q.start, points[m].probability, None)>>
  BY <1>1, <1>3, <1>4, SelectedPoint
<1>6. FirstRow("openweather_onecall", payload, q, m)
  BY <1>1, <1>2, <1>3, <1>4, <1>5 DEF FirstRow, LabelOf, Wanted, Usable
<1> QED
  BY <1>1, <1>2, <1>3, <1>4, <1>5, <1>6 DEF Reading

(* Every provider's point is read from the first row with its label.       *)
LEMMA PointAnswer ==
    ASSUME NEW p \in Providers, NEW payload, Len(payload.rows) \in Nat,
           NEW q, q.start # None, PointParse(p, payload, q).answered
    PROVE  /\ payload.complete
           /\ \E m \in 1..Len(payload.rows) :
                  /\ FirstRow(p, payload, q, m)
                  /\ PointParse(p, payload, q).hours
                         = <<ForecastHour(q.start, Reading(p, payload.rows[m]), None)>>
<1>1. CASE p = "open_meteo"
  BY <1>1, OpenMeteoPoint DEF PointParse
<1>2. CASE p = "weatherapi"
  BY <1>2, WeatherApiPoint DEF PointParse
<1>3. CASE p = "openweather_onecall"
  BY <1>3, OpenWeatherPoint DEF PointParse
<1> QED
  BY <1>1, <1>2, <1>3 DEF Providers

(* A faithful row with the label that is looked for is about the hour that *)
(* is asked for.                                                           *)
LEMMA ReadingSays ==
    ASSUME NEW p \in Providers, NEW sky, NEW q, q.start \in Int,
           q.end = q.start + Hour,
           NEW row, Faithful(p, sky, row), row.at = Wanted(p, q), Usable(p, row)
    PROVE  /\ sky[q.start].probability \in 0..100
           /\ Reading(p, row) = sky[q.start].probability
<1>1. row.at \in Int /\ row.at # None
  BY HourPositive, PipelineAssumption DEF Wanted
<1>2. About(p, row.at) = q.start
  BY HourPositive DEF About, Wanted
<1>3. PICK x : x = sky[q.start].probability
  OBVIOUS
<1>4. x \in 0..100
  BY <1>1, <1>2, <1>3 DEF Faithful
<1>5. CASE p = "openweather_onecall"
  <2>1. row.at = q.start
    BY <1>5 DEF Wanted
  <2>2. row.probability = x
    BY <1>1, <1>3, <1>5, <2>1 DEF Faithful, Usable
  <2> QED
    BY <1>3, <1>4, <1>5, <2>2 DEF Reading
<1>6. CASE p # "openweather_onecall"
  <2>1. row.probability = 100 * x
    BY <1>1, <1>2, <1>3, <1>6 DEF Faithful, Usable
  <2>2. (100 * x) \div 100 = x
    BY <1>4
  <2> QED
    BY <1>3, <1>4, <1>6, <2>1, <2>2 DEF Reading, FromPercent
<1> QED
  BY <1>5, <1>6

(* The label of a faithful row is its time: it is an epoch where labels    *)
(* could be local.                                                         *)
LEMMA LabelIsTime ==
    ASSUME NEW p \in Providers, NEW sky, NEW payload, NEW row,
           row.at # None, Faithful(p, sky, row)
    PROVE  LabelOf(p, payload, row) = row.at
  BY DEF LabelOf, Faithful, Providers

(* The first row with the label is faithful in the damaged responses, too. *)
LEMMA LastingPoint ==
    ASSUME NEW p \in Providers, NEW sky \in Skies, NEW f \in Lasting,
           NEW payload, payload = Response(p, sky, f),
           NEW q, q.start \in Int, q.end = q.start + Hour,
           NEW m, FirstRow(p, payload, q, m)
    PROVE  /\ sky[q.start].probability \in 0..100
           /\ Reading(p, payload.rows[m]) = sky[q.start].probability
<1>1. Faithful(p, sky, payload.rows[m])
  BY LastingRows DEF FirstRow
<1>2. payload.rows[m].at = Wanted(p, q) /\ Usable(p, payload.rows[m])
  BY <1>1, LabelIsTime DEF FirstRow
<1> QED
  BY <1>1, <1>2, ReadingSays

(* A doubled label does not change the point: the first row is read.       *)
LEMMA DoubledPoint ==
    ASSUME NEW p \in Providers, NEW sky \in Skies,
           NEW payload, payload = Response(p, sky, "doubled"),
           NEW q, q.start \in Int, q.end = q.start + Hour
    PROVE  /\ Len(payload.rows) \in Nat
           /\ \A m : FirstRow(p, payload, q, m) =>
                  /\ sky[q.start].probability \in 0..100
                  /\ Reading(p, payload.rows[m]) = sky[q.start].probability
<1>1. PICK a, n : SkyFrom(sky, a, n)
  BY SkiesHaveLabels
<1>2. n \in Nat /\ 2 <= n
  BY <1>1 DEF SkyFrom
<1>3. PICK native : native = NativeRows(p, sky)
  OBVIOUS
<1>4. PICK row : row = Row(native[2].at, native[2].epoch, 0, native[2].temperature)
  OBVIOUS
<1>5. payload.rows = native \o <<row>>
  BY <1>3, <1>4 DEF Response, Payload
<1>6. row.at = native[2].at /\ row.epoch = native[2].epoch
  BY <1>4 DEF Row
<1>7. /\ Len(payload.rows) = n + 1
      /\ \A i \in 1..n : payload.rows[i] = native[i]
      /\ payload.rows[n + 1] = row
  <2>1. PICK rs : rs = payload.rows
    OBVIOUS
  <2>2. rs = native \o <<row>>
    BY <1>5, <2>1
  <2>3. OneMore(native, n, row, rs)
    BY <1>1, <1>3, <2>2, DoubledRows
  <2> QED
    BY <2>1, <2>3 DEF OneMore
<1>8. ASSUME NEW m, FirstRow(p, payload, q, m)
      PROVE  /\ sky[q.start].probability \in 0..100
             /\ Reading(p, payload.rows[m]) = sky[q.start].probability
  <2>1. m \in 1..n + 1
    BY <1>2, <1>7, <1>8 DEF FirstRow
  <2>2. m # n + 1
    <3>1. SUFFICES ASSUME m = n + 1
                   PROVE  FALSE
      OBVIOUS
    <3>2. LabelOf(p, payload, row) = Wanted(p, q)
      BY <1>7, <1>8, <3>1 DEF FirstRow
    <3>3. LabelOf(p, payload, native[2]) = LabelOf(p, payload, row)
      BY <1>6 DEF LabelOf
    <3>4. 2 \in 1..Len(payload.rows) /\ payload.rows[2] = native[2]
      BY <1>2, <1>7
    <3>5. m <= 2
      BY <1>8, <3>2, <3>3, <3>4 DEF FirstRow
    <3> QED
      BY <1>2, <3>1, <3>5
  <2>3. m \in 1..n /\ payload.rows[m] = native[m]
    BY <1>2, <1>7, <2>1, <2>2
  <2>4. Faithful(p, sky, payload.rows[m])
    BY <1>1, <1>3, <2>3, NativeIsFaithful
  <2>5. payload.rows[m].at = Wanted(p, q) /\ Usable(p, payload.rows[m])
    BY <1>8, <2>4, LabelIsTime DEF FirstRow
  <2> QED
    BY <2>4, <2>5, ReadingSays
<1> QED
  BY <1>2, <1>7, <1>8

(* A local label does not change WeatherAPI's point: its zone is declared. *)
LEMMA LocalPoint ==
    ASSUME NEW p \in Providers, p = "weatherapi", NEW sky \in Skies,
           NEW payload, payload = Response(p, sky, "local"),
           NEW q, q.start \in Int, q.end = q.start + Hour
    PROVE  /\ Len(payload.rows) \in Nat
           /\ \A m : FirstRow(p, payload, q, m) =>
                  /\ sky[q.start].probability \in 0..100
                  /\ Reading(p, payload.rows[m]) = sky[q.start].probability
<1>1. PICK a, n : SkyFrom(sky, a, n)
  BY SkiesHaveLabels
<1>2. n \in Nat
  BY <1>1 DEF SkyFrom
<1>3. PICK native : native = NativeRows(p, sky)
  OBVIOUS
<1>4. DOMAIN native = 1..n
  BY <1>1, <1>3, NativeLength
<1>5. /\ payload.offset = Hour
      /\ payload.rows = [i \in 1..n |-> Row(native[i].at + Hour, FALSE,
                                            native[i].probability, native[i].temperature)]
  BY <1>3, <1>4 DEF Response, Payload
<1>6. Len(payload.rows) = n
  BY <1>2, <1>5
<1>7. ASSUME NEW m, FirstRow(p, payload, q, m)
      PROVE  /\ sky[q.start].probability \in 0..100
             /\ Reading(p, payload.rows[m]) = sky[q.start].probability
  <2>1. m \in 1..n
    BY <1>6, <1>7 DEF FirstRow
  <2>2. native[m].at \in Int /\ Faithful(p, sky, native[m])
    BY <1>1, <1>3, <2>1, NativeIsFaithful
  <2>3. /\ payload.rows[m].at = native[m].at + Hour
        /\ payload.rows[m].epoch = FALSE
        /\ payload.rows[m].probability = native[m].probability
    <3>1. payload.rows[m] = Row(native[m].at + Hour, FALSE,
                                native[m].probability, native[m].temperature)
      BY <1>5, <2>1
    <3> QED
      BY <3>1 DEF Row
  <2>4. LabelOf(p, payload, payload.rows[m]) = native[m].at
    BY <1>5, <2>2, <2>3, HourPositive DEF LabelOf
  <2>5. native[m].at = Wanted(p, q) /\ Usable(p, native[m])
    BY <1>7, <2>3, <2>4 DEF FirstRow, Usable
  <2>6. /\ sky[q.start].probability \in 0..100
        /\ Reading(p, native[m]) = sky[q.start].probability
    BY <2>2, <2>5, ReadingSays
  <2> QED
    BY <2>3, <2>6 DEF Reading
<1> QED
  BY <1>2, <1>6, <1>7

(* A point forecast reports the probability of the very hour, unless the   *)
(* adapter took local times for UTC.                                       *)
LEMMA PointsAreTheProviders ==
    ASSUME NEW p \in Providers, NEW sky \in Skies, NEW f \in Faults,
           f = "local" => p = "weatherapi",
           NEW q, q.start \in Int, q.end = q.start + Hour,
           PointParse(p, Response(p, sky, f), q).answered
    PROVE  /\ sky[q.start].probability \in 0..100
           /\ PointParse(p, Response(p, sky, f), q).hours
                  = <<ForecastHour(q.start, sky[q.start].probability, None)>>
<1>1. PICK payload : payload = Response(p, sky, f)
  OBVIOUS
<1>2. q.start # None
  BY PipelineAssumption
<1>3. ASSUME Len(payload.rows) \in Nat,
             \A m : FirstRow(p, payload, q, m) =>
                  /\ sky[q.start].probability \in 0..100
                  /\ Reading(p, payload.rows[m]) = sky[q.start].probability
      PROVE  /\ sky[q.start].probability \in 0..100
             /\ PointParse(p, payload, q).hours
                    = <<ForecastHour(q.start, sky[q.start].probability, None)>>
  <2>1. PICK m : /\ FirstRow(p, payload, q, m)
                 /\ PointParse(p, payload, q).hours
                        = <<ForecastHour(q.start, Reading(p, payload.rows[m]), None)>>
    BY <1>1, <1>2, <1>3, PointAnswer
  <2> QED
    BY <1>3, <2>1
<1>4. CASE f \in Lasting
  <2>1. Len(payload.rows) \in Nat
    BY <1>1, <1>4, LastingRows
  <2>2. \A m : FirstRow(p, payload, q, m) =>
                  /\ sky[q.start].probability \in 0..100
                  /\ Reading(p, payload.rows[m]) = sky[q.start].probability
    BY <1>1, <1>4, LastingPoint
  <2> QED
    BY <1>1, <1>3, <2>1, <2>2
<1>5. CASE f = "doubled"
  BY <1>1, <1>3, <1>5, DoubledPoint
<1>6. CASE f = "local"
  BY <1>1, <1>3, <1>6, LocalPoint
<1>7. CASE f = "arrays"
  <2>1. payload.complete = FALSE /\ Len(payload.rows) \in Nat
    BY <1>1, <1>7 DEF Response, Payload
  <2> QED
    BY <1>1, <1>2, <2>1, PointAnswer
<1> QED
  BY <1>4, <1>5, <1>6, <1>7 DEF Faults, Lasting

(* The adapters for series refuse responses whose labels are not theirs.   *)
LEMMA SeriesRefuseOthers ==
    ASSUME NEW sky \in Skies, NEW f \in Faults,
           NEW payload, payload = Response("open_meteo", sky, f),
           payload.complete, payload.offset \in {None, 0}, Undoubled(payload.rows)
    PROVE  f \in Lasting
<1>1. PICK p \in Providers : p = "open_meteo"
  BY DEF Providers
<1>2. CASE f = "arrays"
  BY <1>2 DEF Response, Payload
<1>3. CASE f = "local"
  <2>1. payload.offset = Hour
    BY <1>3 DEF Response, Payload
  <2> QED
    BY <2>1, HourPositive, PipelineAssumption
<1>4. CASE f = "doubled"
  <2>1. PICK a, n : SkyFrom(sky, a, n)
    BY SkiesHaveLabels
  <2>2. n \in Nat /\ 2 <= n
    BY <2>1 DEF SkyFrom
  <2>3. PICK native : native = NativeRows(p, sky)
    OBVIOUS
  <2>4. PICK row : row = Row(native[2].at, native[2].epoch, 0, native[2].temperature)
    OBVIOUS
  <2>5. payload.rows = native \o <<row>>
    BY <1>1, <1>4, <2>3, <2>4 DEF Response, Payload
  <2>6. OneMore(native, n, row, payload.rows)
    <3>1. PICK rs : rs = payload.rows
      OBVIOUS
    <3>2. OneMore(native, n, row, rs)
      BY <2>1, <2>3, <2>5, <3>1, DoubledRows
    <3> QED
      BY <3>1, <3>2
  <2>7. payload.rows[n + 1].at = payload.rows[2].at
    BY <2>2, <2>4, <2>6 DEF OneMore, Row
  <2>8. 2 \in 1..Len(payload.rows) /\ n + 1 \in 1..Len(payload.rows)
    BY <2>2, <2>6 DEF OneMore
  <2>9. 2 = n + 1
    BY <2>7, <2>8 DEF Undoubled
  <2> QED
    BY <2>2, <2>9
<1> QED
  BY <1>2, <1>3, <1>4 DEF Faults, Lasting

(* The row at an hour of a series says what the sky does.                  *)
LEMMA RowAtSays ==
    ASSUME NEW sky \in Skies, NEW f \in Lasting, NEW t \in Int,
           NEW rows, rows = Response("open_meteo", sky, f).rows, Covered(rows, t)
    PROVE  /\ RowAt(rows, t).temperature # None =>
                  /\ RowAt(rows, t).temperature = sky[t].temperature
                  /\ sky[t].temperature \in Int
           /\ IsPercent(RowAt(rows, t).probability) =>
                  /\ FromPercent(RowAt(rows, t).probability) = sky[t - Hour].probability
                  /\ sky[t - Hour].probability \in 0..100
<1>1. PICK p \in Providers : p = "open_meteo"
  BY DEF Providers
<1>2. \A i \in 1..Len(rows) : Faithful(p, sky, rows[i])
  BY <1>1, LastingRows
<1>3. PICK i : i = CHOOSE j \in 1..Len(rows) : rows[j].at = t
  OBVIOUS
<1>4. i \in 1..Len(rows) /\ rows[i].at = t
  BY <1>3 DEF Covered
<1>5. PICK row : row = rows[i]
  OBVIOUS
<1>6. RowAt(rows, t) = row
  BY <1>3, <1>5 DEF RowAt
<1>7. Faithful(p, sky, row) /\ row.at = t /\ row.at # None
  BY <1>2, <1>4, <1>5, PipelineAssumption
<1>8. About(p, t) = t - Hour
  BY <1>1 DEF About
<1>9. row.temperature # None =>
          row.temperature = sky[t].temperature /\ sky[t].temperature \in Int
  BY <1>7 DEF Faithful
<1>10. ASSUME IsPercent(row.probability)
       PROVE  /\ FromPercent(row.probability) = sky[t - Hour].probability
              /\ sky[t - Hour].probability \in 0..100
  <2>1. PICK x : x = sky[t - Hour].probability
    OBVIOUS
  <2>2. x \in 0..100 /\ row.probability = 100 * x
    BY <1>1, <1>7, <1>8, <1>10, <2>1 DEF Faithful
  <2>3. (100 * x) \div 100 = x
    BY <2>2
  <2> QED
    BY <2>1, <2>2, <2>3 DEF FromPercent
<1> QED
  BY <1>6, <1>9, <1>10

(* The hours of a request of k hours.                                      *)
LEMMA StartsOfHours ==
    ASSUME NEW q, NEW k \in Nat, q.start \in Int, q.end = q.start + k * Hour
    PROVE  /\ (q.end - q.start) \div Hour = k
           /\ q.end - q.start = k * Hour
           /\ HourStarts(q) = [i \in 1..k |-> q.start + (i - 1) * Hour]
           /\ Len(HourStarts(q)) = k
<1>1. PICK e \in Int : e = k * Hour
  BY HourPositive
<1>2. q.end - q.start = e
  BY <1>1
<1>3. e \div Hour = k
  BY <1>1, WholeDivision
<1>4. HourStarts(q) = [i \in 1..k |-> q.start + (i - 1) * Hour]
  BY <1>2, <1>3 DEF HourStarts
<1> QED
  BY <1>1, <1>2, <1>3, <1>4

(* What series of hours report about their i-th hour.                      *)
Covers(hours, q, k) ==
    /\ Len(hours) = k
    /\ DOMAIN hours = 1..k
    /\ \A i \in 1..k : hours[i].start = q.start + (i - 1) * Hour

(* The hours of a window are those of the sky, in their order.             *)
LEMMA WindowsAreTheProviders ==
    ASSUME NEW sky \in Skies, NEW f \in Faults,
           NEW q, NEW k \in Nat, q.start \in Int, q.end = q.start + k * Hour,
           NEW fc, fc = ParseWindow(Response("open_meteo", sky, f), q), fc.answered
    PROVE  /\ Covers(fc.hours, q, k)
           /\ \A i \in 1..k :
                  /\ fc.hours[i].probability = sky[fc.hours[i].start].probability
                  /\ fc.hours[i].probability \in Int
                  /\ fc.hours[i].temperature = sky[fc.hours[i].start].temperature
<1>1. PICK payload : payload = Response("open_meteo", sky, f)
  OBVIOUS
<1>2. PICK rows : rows = payload.rows
  OBVIOUS
<1>3. PICK starts : starts = HourStarts(q)
  OBVIOUS
<1>4. starts = [i \in 1..k |-> q.start + (i - 1) * Hour] /\ Len(starts) = k
  BY <1>3, StartsOfHours
<1>5. PICK hours : hours = [i \in 1..Len(starts) |-> WindowHour(rows, starts[i])]
  OBVIOUS
<1>6. /\ payload.offset \in {None, 0} /\ payload.complete /\ Undoubled(rows)
      /\ \A i \in 1..Len(starts) :
             /\ Covered(rows, starts[i]) /\ Covered(rows, starts[i] + Hour)
             /\ RowAt(rows, starts[i]).temperature # None
             /\ IsPercent(RowAt(rows, starts[i] + Hour).probability)
      /\ fc = Canonical(hours, q)
  BY <1>1, <1>2, <1>3, <1>5 DEF ParseWindow, Refused
<1>7. fc.hours = hours
  BY <1>6 DEF Canonical, Refused, Forecast
<1>8. f \in Lasting
  BY <1>1, <1>2, <1>6, SeriesRefuseOthers
<1>9. DOMAIN hours = 1..k /\ Len(hours) = k
  BY <1>4, <1>5
<1>10. ASSUME NEW i \in 1..k
       PROVE  /\ hours[i].start = q.start + (i - 1) * Hour
              /\ hours[i].probability = sky[hours[i].start].probability
              /\ hours[i].probability \in Int
              /\ hours[i].temperature = sky[hours[i].start].temperature
  <2>1. PICK t \in Int : t = q.start + (i - 1) * Hour
    BY HourPositive
  <2>2. starts[i] = t /\ i \in 1..Len(starts)
    BY <1>4, <2>1
  <2>3. hours[i] = WindowHour(rows, t)
    BY <1>5, <2>2
  <2>4. /\ Covered(rows, t) /\ Covered(rows, t + Hour)
        /\ RowAt(rows, t).temperature # None
        /\ IsPercent(RowAt(rows, t + Hour).probability)
    BY <1>6, <2>2
  <2>5. RowAt(rows, t).temperature = sky[t].temperature
    BY <1>1, <1>2, <1>8, <2>4, RowAtSays
  <2>6. PICK u \in Int : u = t + Hour
    BY HourPositive
  <2>7. /\ FromPercent(RowAt(rows, u).probability) = sky[u - Hour].probability
        /\ sky[u - Hour].probability \in 0..100
    BY <1>1, <1>2, <1>8, <2>4, <2>6, RowAtSays
  <2>8. u - Hour = t
    BY <2>6, HourPositive
  <2> QED
    BY <2>1, <2>3, <2>5, <2>6, <2>7, <2>8 DEF WindowHour, ForecastHour
<1> QED
  BY <1>7, <1>9, <1>10 DEF Covers

(* The first k hours have the temperatures of the sky.                     *)
AsWarm(hours, sky, k) ==
    \A i \in 1..k :
        /\ hours[i].temperature = sky[hours[i].start].temperature
        /\ hours[i].temperature \in Int

(* The hours of a series are those of the sky, in their order.             *)
LEMMA TemperaturesAreTheProviders ==
    ASSUME NEW sky \in Skies, NEW f \in Faults,
           NEW q, NEW k \in Nat, q.start \in Int, q.end = q.start + k * Hour,
           NEW fc, fc = ParseTemperature(Response("open_meteo", sky, f), q), fc.answered
    PROVE  Covers(fc.hours, q, k) /\ AsWarm(fc.hours, sky, k)
<1>1. PICK payload : payload = Response("open_meteo", sky, f)
  OBVIOUS
<1>2. PICK rows : rows = payload.rows
  OBVIOUS
<1>3. PICK starts : starts = HourStarts(q)
  OBVIOUS
<1>4. starts = [i \in 1..k |-> q.start + (i - 1) * Hour] /\ Len(starts) = k
  BY <1>3, StartsOfHours
<1>5. PICK hours : hours = [i \in 1..Len(starts) |-> TemperatureHour(rows, starts[i])]
  OBVIOUS
<1>6. /\ payload.offset = 0 /\ payload.complete /\ Undoubled(rows)
      /\ \A i \in 1..Len(starts) :
             /\ Covered(rows, starts[i])
             /\ RowAt(rows, starts[i]).temperature # None
      /\ fc = Canonical(hours, q)
  BY <1>1, <1>2, <1>3, <1>5 DEF ParseTemperature, Refused
<1>7. fc.hours = hours
  BY <1>6 DEF Canonical, Refused, Forecast
<1>8. f \in Lasting
  BY <1>1, <1>2, <1>6, SeriesRefuseOthers
<1>9. DOMAIN hours = 1..k /\ Len(hours) = k
  BY <1>4, <1>5
<1>10. ASSUME NEW i \in 1..k
       PROVE  /\ hours[i].start = q.start + (i - 1) * Hour
              /\ hours[i].temperature = sky[hours[i].start].temperature
              /\ hours[i].temperature \in Int
  <2>1. PICK t \in Int : t = q.start + (i - 1) * Hour
    BY HourPositive
  <2>2. starts[i] = t /\ i \in 1..Len(starts)
    BY <1>4, <2>1
  <2>3. hours[i] = TemperatureHour(rows, t)
    BY <1>5, <2>2
  <2>4. Covered(rows, t) /\ RowAt(rows, t).temperature # None
    BY <1>6, <2>2
  <2>5. RowAt(rows, t).temperature = sky[t].temperature /\ sky[t].temperature \in Int
    BY <1>1, <1>2, <1>8, <2>4, RowAtSays
  <2> QED
    BY <2>1, <2>3, <2>5 DEF TemperatureHour, ForecastHour
<1> QED
  BY <1>7, <1>9, <1>10 DEF Covers, AsWarm

(* The hours of k hours are the whole hours from the start to the end.     *)
LEMMA HoursCovered ==
    ASSUME NEW q, NEW k \in Nat, q.start \in Int, q.end = q.start + k * Hour,
           NEW hours, Covers(hours, q, k)
    PROVE  /\ {hours[i].start : i \in DOMAIN hours}
                  = {t \in q.start..(q.end - 1) : (t - q.start) % Hour = 0}
           /\ Len(hours) * Hour = q.end - q.start
<1>1. PICK s \in Int : s = q.start
  OBVIOUS
<1>2. PICK e \in Int : e = k * Hour
  BY HourPositive
<1>3. q.end = s + e
  BY <1>1, <1>2
<1>4. ASSUME NEW i \in 1..k
      PROVE  hours[i].start \in s..(s + e - 1) /\ (hours[i].start - s) % Hour = 0
  <2>1. PICK j \in Nat : j = i - 1
    OBVIOUS
  <2>2. PICK d \in Int : d = j * Hour
    BY HourPositive
  <2>3. 0 <= d
    BY <2>1, <2>2, HourPositive
  <2>4. d < e
    BY <1>2, <2>1, <2>2, HourPositive
  <2>5. d % Hour = 0
    BY <2>2, Times
  <2>6. hours[i].start = s + d
    BY <1>1, <2>1, <2>2 DEF Covers
  <2> QED
    BY <1>2, <2>2, <2>3, <2>4, <2>5, <2>6
<1>5. ASSUME NEW t \in s..(s + e - 1), (t - s) % Hour = 0
      PROVE  \E i \in 1..k : hours[i].start = t
  <2>1. PICK d \in Int : d = t - s
    OBVIOUS
  <2>2. 0 <= d /\ d < e /\ d % Hour = 0
    BY <1>2, <1>5, <2>1
  <2>3. PICK j \in Int : j = d \div Hour
    BY Division
  <2>4. d = j * Hour
    BY <2>2, <2>3, Multiples
  <2>5. 0 <= j
    BY <2>2, <2>4, HourPositive
  <2>6. j < k
    BY <1>2, <2>2, <2>4, HourPositive
  <2>7. j + 1 \in 1..k
    BY <2>5, <2>6
  <2>8. hours[j + 1].start = s + (j + 1 - 1) * Hour
    BY <1>1, <2>7 DEF Covers
  <2>9. s + (j + 1 - 1) * Hour = t
    BY <2>1, <2>4
  <2> QED
    BY <2>7, <2>8, <2>9
<1>6. DOMAIN hours = 1..k /\ Len(hours) = k
  BY DEF Covers
<1>7. {hours[i].start : i \in DOMAIN hours}
          = {t \in s..(s + e - 1) : (t - s) % Hour = 0}
  <2>1. PICK range : range = s..(s + e - 1)
    OBVIOUS
  <2>2. \A i \in DOMAIN hours :
            hours[i].start \in {t \in range : (t - s) % Hour = 0}
    BY <1>4, <1>6, <2>1
  <2>3. \A t \in {u \in range : (u - s) % Hour = 0} :
            \E i \in DOMAIN hours : hours[i].start = t
    BY <1>5, <1>6, <2>1
  <2>4. {hours[i].start : i \in DOMAIN hours} = {t \in range : (t - s) % Hour = 0}
    BY <2>2, <2>3, Zenon
  <2> QED
    BY <2>1, <2>4
<1>8. Len(hours) * Hour = q.end - q.start
  BY <1>1, <1>2, <1>3, <1>6
<1>9. s..(s + e - 1) = q.start..(q.end - 1)
  BY <1>1, <1>3
<1> QED
  BY <1>1, <1>7, <1>8, <1>9

(* What a list holds is a finite set.                                      *)
LEMMA ListIsFinite ==
    ASSUME NEW n \in Nat, NEW f, DOMAIN f = 1..n
    PROVE  IsFiniteSet({f[i] : i \in 1..n})
<1>1. PICK T : T = {f[i] : i \in 1..n}
  OBVIOUS
<1>2. PICK g : g = [i \in 1..n |-> f[i]]
  OBVIOUS
<1>3. g \in Surjection(1..n, T)
  BY <1>1, <1>2 DEF Surjection
<1>4. IsFiniteSet(1..n)
  BY FS_Interval
<1> QED
  BY <1>1, <1>3, <1>4, FS_Surjection

(* No hour exceeds the peak, and none before it reaches it.                *)
LEMMA PeakLeads ==
    ASSUME NEW n \in Nat \ {0}, NEW hours, DOMAIN hours = 1..n,
           \A i \in 1..n : hours[i].probability \in Int /\ hours[i].start \in Int
    PROVE  \A h \in DOMAIN hours :
               /\ hours[h].probability <= PeakHour(hours).probability
               /\ hours[h].start < PeakHour(hours).start =>
                      hours[h].probability < PeakHour(hours).probability
<1>1. PICK f : f = [i \in 1..n |-> hours[i].probability]
  OBVIOUS
<1>2. f \in [1..n -> Int]
  BY <1>1
<1>3. PICK m \in 1..n : \A j \in 1..n : f[j] <= f[m]
  BY <1>2, LargestOfList
<1>4. PICK x \in Int : x = hours[m].probability
  OBVIOUS
<1>5. \A j \in 1..n : hours[j].probability <= x
  BY <1>1, <1>3, <1>4
<1>6. PICK g : g = [i \in 1..n |-> hours[i].start]
  OBVIOUS
<1>7. PICK U : U = {g[i] : i \in {j \in 1..n : hours[j].probability = x}}
  OBVIOUS
<1>8. IsFiniteSet(U)
  <2>1. IsFiniteSet({g[i] : i \in 1..n})
    BY <1>6, ListIsFinite
  <2>2. U \subseteq {g[i] : i \in 1..n}
    BY <1>7
  <2> QED
    BY <2>1, <2>2, FS_Subset
<1>9. U # {} /\ U \subseteq Int
  BY <1>4, <1>6, <1>7
<1>10. Min(U) \in U /\ \A u \in U : Min(U) <= u
  BY <1>8, <1>9, Smallest
<1>11. PICK i \in 1..n : hours[i].probability = x /\ g[i] = Min(U)
  BY <1>7, <1>10
<1>12. \A j \in 1..n :
           \/ hours[j].probability < hours[i].probability
           \/ /\ hours[j].probability = hours[i].probability
              /\ hours[i].start <= hours[j].start
  <2>1. TAKE j \in 1..n
  <2>2. CASE hours[j].probability = x
    <3>1. g[j] \in U
      BY <1>7, <2>2
    <3> QED
      BY <1>6, <1>10, <1>11, <2>2, <3>1
  <2>3. CASE hours[j].probability # x
    BY <1>5, <1>11, <2>3
  <2> QED
    BY <2>2, <2>3
<1>13. PICK p : p = CHOOSE c \in DOMAIN hours :
                        \A j \in DOMAIN hours :
                            \/ hours[j].probability < hours[c].probability
                            \/ /\ hours[j].probability = hours[c].probability
                               /\ hours[c].start <= hours[j].start
  OBVIOUS
<1>14. /\ p \in 1..n
       /\ \A j \in 1..n :
              \/ hours[j].probability < hours[p].probability
              \/ /\ hours[j].probability = hours[p].probability
                 /\ hours[p].start <= hours[j].start
  BY <1>12, <1>13
<1>15. PeakHour(hours) = hours[p]
  BY <1>13 DEF PeakHour
<1>16. ASSUME NEW h \in 1..n
       PROVE  /\ hours[h].probability <= hours[p].probability
              /\ hours[h].start < hours[p].start =>
                     hours[h].probability < hours[p].probability
  BY <1>14
<1> QED
  BY <1>15, <1>16

(* No hour is outside the extremes.                                        *)
LEMMA ExtremesLead ==
    ASSUME NEW n \in Nat \ {0}, NEW hours, DOMAIN hours = 1..n,
           \A i \in 1..n : hours[i].temperature \in Int
    PROVE  \A h \in DOMAIN hours :
               /\ MinimumTemperature(hours) <= hours[h].temperature
               /\ hours[h].temperature <= MaximumTemperature(hours)
<1>1. PICK f : f = [i \in 1..n |-> hours[i].temperature]
  OBVIOUS
<1>2. PICK T : T = {f[i] : i \in 1..n}
  OBVIOUS
<1>3. IsFiniteSet(T)
  BY <1>1, <1>2, ListIsFinite
<1>4. T \subseteq Int /\ T # {}
  <2>1. f[1] \in T
    BY <1>2
  <2> QED
    BY <1>1, <1>2, <2>1
<1>5. T = {hours[i].temperature : i \in DOMAIN hours}
  BY <1>1, <1>2
<1>6. /\ \A t \in T : Min(T) <= t
      /\ \A t \in T : t <= Max(T)
  BY <1>3, <1>4, Smallest, Largest
<1> QED
  BY <1>5, <1>6 DEF MinimumTemperature, MaximumTemperature

(* Accepted requests are for one whole hour or more.                       *)
LEMMA RequestBounds ==
    ASSUME NEW params \in Queries, NEW t \in Int, Accepted(params),
           NEW q, q = RequestOf(params, t)
    PROVE  /\ q.start \in Int
           /\ q.contract = "point" => q.end = q.start + Hour
           /\ \E k \in Nat \ {0} : q.end = q.start + k * Hour
<1>1. CASE q.contract = "point"
  <2>1. q.start \in Int /\ q.end = q.start + Hour
    BY <1>1, PointIsFaithful
  <2>2. q.end = q.start + 1 * Hour
    BY <2>1, HourPositive
  <2> QED
    BY <2>1, <2>2
<1>2. CASE q.contract = "window"
  <2>1. PICK s \in Int : s = q.start
    BY <1>2, WindowsAreFaithful, NearestIsNear
  <2>2. PICK d \in Int : d = Duration(params)
    BY <1>2, WindowsAreFaithful
  <2>3. Hour <= d /\ d % Hour = 0 /\ q.end = q.start + d
    BY <1>2, <2>2, WindowsAreFaithful
  <2>4. PICK k \in Int : k = d \div Hour
    BY Division
  <2>5. d = k * Hour
    BY <2>3, <2>4, Multiples
  <2>6. 0 < k
    BY <2>3, <2>5, HourPositive
  <2> QED
    BY <1>2, <2>1, <2>3, <2>5, <2>6
<1>3. CASE q.contract = "temperature"
  BY <1>3, TemperaturesAreFaithful
<1> QED
  BY <1>1, <1>2, <1>3, ThreeContracts DEF Contracts

(* An answer is what the provider's response was read as.                  *)
ForecastInv ==
    stage \in {"answered", "resolved"} =>
        /\ source.provider \in Providers /\ source.sky \in Skies
        /\ source.fault \in Faults
        /\ source.fault = "local" => source.provider # "openweather_onecall"
        /\ forecast = Parse(source.provider,
                            Response(source.provider, source.sky, source.fault), request)
        /\ forecast.answered

(* Every step keeps what is known of the forecast.                         *)
LEMMA ForecastSteps ==
    ASSUME ForecastInv, [Next]_vars
    PROVE  ForecastInv'
<1>1. CASE UNCHANGED pipelineVars
  BY <1>1 DEF ForecastInv, pipelineVars
<1>2. ASSUME NEW params \in Queries, NEW t \in AcceptTimes, Ask(params, t)
      PROVE  ForecastInv'
  BY <1>2 DEF Ask, ForecastInv
<1>3. ASSUME NEW p \in Providers, NEW sky \in Skies, NEW f \in Faults, Fetch(p, sky, f)
      PROVE  ForecastInv'
  <2>1. /\ source'.provider = p /\ source'.sky = sky /\ source'.fault = f
        /\ f = "local" => p # "openweather_onecall"
        /\ forecast' = Parse(p, Response(p, sky, f), request')
        /\ stage' = IF forecast'.answered THEN "answered" ELSE "unavailable"
    BY <1>3 DEF Fetch
  <2> QED
    BY <2>1 DEF ForecastInv
<1>4. ASSUME NEW export, Observe(export)
      PROVE  ForecastInv'
  BY <1>4 DEF Observe, ForecastInv
<1> QED
  BY <1>1, <1>2, <1>3, <1>4, PipelineOrNot

(* A forecast reports hours of the sky it came from, at all times.         *)
LEMMA ForecastHolds == Spec => []ForecastInv
<1>1. Init => ForecastInv
  BY DEF Init, PipelineInit, ForecastInv
<1>2. ForecastInv /\ [Next]_vars => ForecastInv'
  BY ForecastSteps
<1> QED
  BY <1>1, <1>2, PTL DEF Spec

(* HoursAreTheProviders: whatever labels the provider uses and however its *)
(* response is damaged, an answer covers exactly the hours of the request, *)
(* each with what the provider said about that hour, and leads with its    *)
(* own figures; for every sky and every length of the window.  What an     *)
(* adapter takes on trust (TrustsTheZone) is excepted.                     *)
THEOREM AnswersAreTheProviders == Spec => []HoursAreTheProviders
<1>1. ASSUME RequestInv, ForecastInv, stage \in {"answered", "resolved"}, ~TrustsTheZone
      PROVE  /\ {forecast.hours[i].start : i \in DOMAIN forecast.hours}
                    = {t \in request.start..(request.end - 1) :
                           (t - request.start) % Hour = 0}
             /\ Len(forecast.hours) * Hour = request.end - request.start
             /\ \A i \in DOMAIN forecast.hours :
                    /\ request.contract # "temperature" =>
                           forecast.hours[i].probability
                               = source.sky[forecast.hours[i].start].probability
                    /\ request.contract # "point" =>
                           forecast.hours[i].temperature
                               = source.sky[forecast.hours[i].start].temperature
             /\ LeadsWithItsHours(forecast.hours)
  <2>1. PICK p \in Providers, sky \in Skies, f \in Faults :
            p = source.provider /\ sky = source.sky /\ f = source.fault
    BY <1>1 DEF ForecastInv
  <2>2. /\ f = "local" => p # "openweather_onecall"
        /\ forecast = Parse(p, Response(p, sky, f), request) /\ forecast.answered
    BY <1>1, <2>1 DEF ForecastInv
  <2>3. PICK t \in AcceptTimes : AskedAt(t)
    BY <1>1 DEF RequestInv
  <2>4. PICK params \in Queries : params = query
    BY <2>3 DEF AskedAt
  <2>5. t \in Int /\ Accepted(params) /\ request = RequestOf(params, t)
    BY <2>3, <2>4, PipelineAssumption DEF AskedAt
  <2>6. request.start \in Int /\ (request.contract = "point" => request.end = request.start + Hour)
    BY <2>5, RequestBounds
  <2>7. PICK k \in Nat \ {0} : request.end = request.start + k * Hour
    BY <2>5, RequestBounds
  <2>8. PICK hours : hours = forecast.hours
    OBVIOUS
  <2>9. SUFFICES
          /\ \E n \in Nat \ {0} : Covers(hours, request, n)
                                  /\ request.end = request.start + n * Hour
          /\ \A i \in DOMAIN hours :
                 /\ request.contract # "temperature" =>
                        hours[i].probability = sky[hours[i].start].probability
                 /\ request.contract # "point" =>
                        hours[i].temperature = sky[hours[i].start].temperature
          /\ LeadsWithItsHours(hours)
    <3>1. PICK n \in Nat \ {0} : Covers(hours, request, n)
                                 /\ request.end = request.start + n * Hour
      BY <2>9
    <3>2. /\ {hours[i].start : i \in DOMAIN hours}
                 = {u \in request.start..(request.end - 1) : (u - request.start) % Hour = 0}
          /\ Len(hours) * Hour = request.end - request.start
      BY <2>6, <3>1, HoursCovered
    <3> QED
      BY <2>1, <2>8, <2>9, <3>2
  <2>10. CASE request.contract = "point"
    <3>1. forecast = PointParse(p, Response(p, sky, f), request)
      BY <2>2, <2>10 DEF Parse, PointParse, Refused
    <3>2. f = "local" => p = "weatherapi"
      BY <1>1, <2>1, <2>2, <2>10 DEF TrustsTheZone, Providers
    <3>3. PICK x : x = sky[request.start].probability
      OBVIOUS
    <3>4. x \in 0..100 /\ hours = <<ForecastHour(request.start, x, None)>>
      BY <2>2, <2>6, <2>8, <2>10, <3>1, <3>2, <3>3, PointsAreTheProviders
    <3>5. /\ DOMAIN hours = 1..1 /\ Len(hours) = 1
          /\ hours[1].start = request.start /\ hours[1].probability = x
      BY <3>4 DEF ForecastHour
    <3>6. Covers(hours, request, 1)
      <4>1. request.start + (1 - 1) * Hour = request.start
        BY <2>6, HourPositive
      <4> QED
        BY <3>5, <4>1 DEF Covers
    <3>7. request.end = request.start + 1 * Hour
      BY <2>6, <2>10, HourPositive
    <3>8. LeadsWithItsHours(hours)
      <4>1. PICK n \in Nat \ {0} : n = 1
        OBVIOUS
      <4>2. /\ DOMAIN hours = 1..n
            /\ \A i \in 1..n : hours[i].probability \in Int /\ hours[i].start \in Int
        BY <2>6, <3>4, <3>5, <4>1
      <4>3. \A h \in DOMAIN hours :
                /\ hours[h].probability <= PeakHour(hours).probability
                /\ hours[h].start < PeakHour(hours).start =>
                       hours[h].probability < PeakHour(hours).probability
        BY <4>2, PeakLeads
      <4> QED
        BY <2>10, <4>3 DEF LeadsWithItsHours
    <3> QED
      BY <2>10, <3>3, <3>5, <3>6, <3>7, <3>8
  <2>11. CASE request.contract = "window"
    <3>1. p = "open_meteo" /\ forecast = ParseWindow(Response("open_meteo", sky, f), request)
      BY <2>2, <2>11 DEF Parse, Refused
    <3>2. /\ Covers(hours, request, k)
          /\ \A i \in 1..k :
                 /\ hours[i].probability = sky[hours[i].start].probability
                 /\ hours[i].probability \in Int
                 /\ hours[i].temperature = sky[hours[i].start].temperature
      BY <2>2, <2>6, <2>7, <2>8, <3>1, WindowsAreTheProviders
    <3>3. DOMAIN hours = 1..k
      BY <3>2 DEF Covers
    <3>4. LeadsWithItsHours(hours)
      <4>1. \A i \in 1..k : hours[i].start \in Int
        <5>1. \A i \in 1..k : request.start + (i - 1) * Hour \in Int
          BY <2>6, HourPositive
        <5> QED
          BY <3>2, <5>1 DEF Covers
      <4>2. \A h \in DOMAIN hours :
                /\ hours[h].probability <= PeakHour(hours).probability
                /\ hours[h].start < PeakHour(hours).start =>
                       hours[h].probability < PeakHour(hours).probability
        BY <3>2, <3>3, <4>1, PeakLeads
      <4> QED
        BY <2>11, <4>2 DEF LeadsWithItsHours
    <3> QED
      BY <2>7, <3>2, <3>3, <3>4
  <2>12. CASE request.contract = "temperature"
    <3>1. p = "open_meteo" /\ forecast = ParseTemperature(Response("open_meteo", sky, f), request)
      BY <2>2, <2>12 DEF Parse, Refused
    <3>2. /\ Covers(hours, request, k)
          /\ \A i \in 1..k :
                 /\ hours[i].temperature = sky[hours[i].start].temperature
                 /\ hours[i].temperature \in Int
      <4>1. PICK fc : fc = forecast
        OBVIOUS
      <4>2. fc = ParseTemperature(Response("open_meteo", sky, f), request) /\ fc.answered
        BY <2>2, <3>1, <4>1
      <4>3. k \in Nat /\ request.start \in Int /\ request.end = request.start + k * Hour
        BY <2>6, <2>7
      <4>4. Covers(fc.hours, request, k) /\ AsWarm(fc.hours, sky, k)
        BY <4>2, <4>3, TemperaturesAreTheProviders
      <4> QED
        BY <2>8, <4>1, <4>4 DEF AsWarm
    <3>3. DOMAIN hours = 1..k
      BY <3>2 DEF Covers
    <3>4. LeadsWithItsHours(hours)
      <4>1. \A h \in DOMAIN hours :
                /\ MinimumTemperature(hours) <= hours[h].temperature
                /\ hours[h].temperature <= MaximumTemperature(hours)
        BY <3>2, <3>3, ExtremesLead
      <4> QED
        BY <2>12, <4>1 DEF LeadsWithItsHours
    <3> QED
      BY <2>7, <2>12, <3>2, <3>3, <3>4
  <2> QED
    BY <2>5, <2>10, <2>11, <2>12, ThreeContracts DEF Contracts
<1>2. RequestInv /\ ForecastInv => HoursAreTheProviders
  <2>1. SUFFICES ASSUME RequestInv, ForecastInv
                 PROVE  HoursAreTheProviders
    OBVIOUS
  <2> QED
    BY <1>1, <2>1 DEF HoursAreTheProviders
<1> QED
  BY <1>2, RequestHolds, ForecastHolds, PTL

-----------------------------------------------------------------------------
(* Outcomes.                                                               *)

(* A response is a list of rows, however it is damaged.                    *)
LEMMA ResponseLength ==
    ASSUME NEW p \in Providers, NEW sky \in Skies, NEW f \in Faults
    PROVE  Len(Response(p, sky, f).rows) \in Nat
<1>1. PICK a, n : SkyFrom(sky, a, n)
  BY SkiesHaveLabels
<1>2. n \in Nat
  BY <1>1 DEF SkyFrom
<1>3. PICK native : native = NativeRows(p, sky)
  OBVIOUS
<1>4. DOMAIN native = 1..n
  BY <1>1, <1>3, NativeLength
<1>5. CASE f \in Lasting
  BY <1>5, LastingRows
<1>6. CASE f = "arrays"
  BY <1>6 DEF Response, Payload
<1>7. CASE f = "doubled"
  <2>1. PICK row : row = Row(native[2].at, native[2].epoch, 0, native[2].temperature)
    OBVIOUS
  <2>2. PICK rs : rs = Response(p, sky, f).rows
    OBVIOUS
  <2>3. rs = native \o <<row>>
    BY <1>3, <1>7, <2>1, <2>2 DEF Response, Payload
  <2>4. OneMore(native, n, row, rs)
    BY <1>1, <1>3, <2>3, DoubledRows
  <2> QED
    BY <1>2, <2>2, <2>4 DEF OneMore
<1>8. CASE f = "local"
  <2>1. Response(p, sky, f).rows
            = [i \in 1..n |-> Row(native[i].at + Hour, FALSE,
                                  native[i].probability, native[i].temperature)]
    BY <1>3, <1>4, <1>8 DEF Response, Payload
  <2> QED
    BY <1>2, <2>1
<1> QED
  BY <1>5, <1>6, <1>7, <1>8 DEF Faults, Lasting

(* An answered point forecast is about the hour it was asked for.          *)
LEMMA PointHour ==
    ASSUME NEW p \in Providers, NEW sky \in Skies, NEW f \in Faults,
           NEW q, q.start \in Int, q.contract = "point",
           NEW fc, fc = Parse(p, Response(p, sky, f), q), fc.answered
    PROVE  fc.hours[1].start = q.start /\ fc.hours[1].end = q.start + Hour
<1>1. PICK payload : payload = Response(p, sky, f)
  OBVIOUS
<1>2. fc = PointParse(p, payload, q)
  BY <1>1 DEF Parse, PointParse, Refused
<1>3. Len(payload.rows) \in Nat /\ q.start # None
  BY <1>1, ResponseLength, PipelineAssumption
<1>4. PICK m : fc.hours = <<ForecastHour(q.start, Reading(p, payload.rows[m]), None)>>
  BY <1>2, <1>3, PointAnswer
<1> QED
  BY <1>4 DEF ForecastHour

(* Rounding to micrometres moves an amount by half of one at most.         *)
LEMMA MicrometresRound ==
    ASSUME NEW a \in Nat
    PROVE  /\ Micrometres(a) > Threshold => a > 10 * Threshold
           /\ ~(Micrometres(a) > Threshold) => a <= 10 * Threshold + 5
<1>1. PICK w \in Int : w = a \div 10
  OBVIOUS
<1>2. PICK r \in Int : r = a % 10
  OBVIOUS
<1>3. a = 10 * w + r /\ 0 <= r /\ r < 10
  BY <1>1, <1>2
<1>4. \/ Micrometres(a) = w + 1 /\ r >= 5
      \/ Micrometres(a) = w /\ r <= 5
  BY <1>1, <1>2 DEF Micrometres
<1>5. Threshold \in Int
  BY PipelineAssumption
<1> QED
  BY <1>3, <1>4, <1>5

(* What resolves an event is an export that may be off.                    *)
ResolutionInv ==
    stage = "resolved" =>
        /\ request.contract = "point"
        /\ truth = ResolvePrecipitation(request, observation)
        /\ observation # None => observation.at \in Int /\ observation.amount \in Nat

(* The observation of a single export is timed and counted.                *)
LEMMA ExportsAreCounted ==
    ASSUME NEW export \in Exports, Len(export) <= 1, export # <<>>, request.end \in Int
    PROVE  export[1].at \in Int /\ export[1].amount \in Nat
<1>1. Max(Amounts) \in Amounts /\ Amounts \subseteq Nat
  <2>1. IsFiniteSet(Amounts) /\ Amounts # {} /\ Amounts \subseteq Nat
    BY PipelineAssumption
  <2>2. Amounts \subseteq Int
    BY <2>1
  <2> QED
    BY <2>1, <2>2, Largest
<1>2. PICK S : S = {NearbyObservation({}, request.end - 1, a) : a \in Amounts}
                   \cup {NearbyObservation({}, request.end, a) : a \in Amounts}
                   \cup {NearbyObservation(o, request.end, Max(Amounts)) : o \in SUBSET Off}
  OBVIOUS
<1>3. export \in {<<>>} \cup {<<o>> : o \in S} \cup {<<o, o>> : o \in S}
  BY <1>2, Zenon DEF Exports
<1>4. PICK o \in S : export = <<o>> \/ export = <<o, o>>
  BY <1>3
<1>5. \/ o.at = request.end - 1 /\ o.amount \in Amounts
      \/ o.at = request.end /\ o.amount \in Amounts
      \/ o.at = request.end /\ o.amount = Max(Amounts)
  <2>1. \/ \E c \in Amounts : o = NearbyObservation({}, request.end - 1, c)
        \/ \E c \in Amounts : o = NearbyObservation({}, request.end, c)
        \/ \E off \in SUBSET Off : o = NearbyObservation(off, request.end, Max(Amounts))
    BY <1>2, <1>4
  <2>2. ASSUME NEW off, NEW at, NEW c, o = NearbyObservation(off, at, c)
        PROVE  o.at = at /\ o.amount = c
    BY <2>2 DEF NearbyObservation, Observation
  <2> QED
    BY <2>1, <2>2, Zenon
<1>6. export[1] = o
  BY <1>4
<1>7. o.amount \in Nat
  BY <1>1, <1>5
<1>8. o.at \in Int
  <2>1. PICK e \in Int : e = request.end
    OBVIOUS
  <2> QED
    BY <1>5, <2>1
<1> QED
  BY <1>6, <1>7, <1>8

(* Every step keeps what is known of the outcome.                          *)
LEMMA ResolutionSteps ==
    ASSUME RequestInv, ResolutionInv, [Next]_vars
    PROVE  ResolutionInv'
<1>1. CASE UNCHANGED pipelineVars
  BY <1>1 DEF ResolutionInv, pipelineVars
<1>2. ASSUME NEW params \in Queries, NEW t \in AcceptTimes, Ask(params, t)
      PROVE  ResolutionInv'
  BY <1>2 DEF Ask, ResolutionInv
<1>3. ASSUME NEW p \in Providers, NEW sky \in Skies, NEW f \in Faults, Fetch(p, sky, f)
      PROVE  ResolutionInv'
  BY <1>3 DEF Fetch, ResolutionInv
<1>4. ASSUME stage = "answered", request.contract = "point",
             NEW export \in Exports, Observe(export)
      PROVE  ResolutionInv'
  <2>1. PICK t \in AcceptTimes : AskedAt(t)
    BY <1>4 DEF RequestInv
  <2>2. t \in Int
    BY PipelineAssumption
  <2>3. request.start \in Int /\ request.end = request.start + Hour
    BY <1>4, <2>1, <2>2, RequestBounds DEF AskedAt
  <2>4. request.end \in Int
    BY <2>3, HourPositive
  <2>5. export # <<>> => export[1].at \in Int /\ export[1].amount \in Nat
    BY <1>4, <2>4, ExportsAreCounted DEF Observe
  <2>6. /\ request' = request
        /\ observation' = IF export = <<>> THEN None ELSE export[1]
        /\ truth' = ResolvePrecipitation(request, observation')
    BY <1>4 DEF Observe
  <2>7. observation' # None => observation'.at \in Int /\ observation'.amount \in Nat
    BY <2>5, <2>6
  <2>8. truth' = ResolvePrecipitation(request', observation')
    BY <2>6
  <2> QED
    BY <1>4, <2>6, <2>7, <2>8 DEF ResolutionInv
<1> QED
  BY <1>1, <1>2, <1>3, <1>4, PipelineOrNot

(* An outcome is one that an observation resolves, at all times.           *)
LEMMA ResolutionHolds == Spec => []ResolutionInv
<1>1. Init => ResolutionInv
  BY DEF Init, PipelineInit, ResolutionInv
<1>2. RequestInv /\ ResolutionInv /\ [Next]_vars => ResolutionInv'
  BY ResolutionSteps
<1> QED
  BY <1>1, <1>2, RequestHolds, PTL DEF Spec

(* OutcomeIsObserved: an outcome comes from an observation of the hour     *)
(* that was forecast, made after it, and every such observation gives one; *)
(* it is on the right side of the threshold up to the rounding.            *)
THEOREM OutcomesAreObserved == Spec => []OutcomeIsObserved
<1>1. ASSUME RequestInv, ForecastInv, ResolutionInv, stage = "resolved"
      PROVE  /\ (truth.status = "resolved") = Conclusive(observation)
             /\ (truth.status = "resolved") = (truth.outcome # None)
             /\ truth.outcome = 1 => observation.amount > 10 * Threshold
             /\ truth.outcome = 0 => observation.amount <= 10 * Threshold + 5
  <2>1. PICK t \in AcceptTimes : AskedAt(t)
    BY <1>1 DEF RequestInv
  <2>2. t \in Int
    BY PipelineAssumption
  <2>3. request.contract = "point" /\ truth = ResolvePrecipitation(request, observation)
    BY <1>1 DEF ResolutionInv
  <2>4. request.start \in Int /\ request.end = request.start + Hour
    BY <2>1, <2>2, <2>3, RequestBounds DEF AskedAt
  <2>5. /\ forecast.hours[1].start = request.start
        /\ forecast.hours[1].end = request.start + Hour
    BY <1>1, <2>3, <2>4, PointHour DEF ForecastInv
  <2> DEFINE Resolved == truth.status = "resolved"
  <2>6. SUFFICES /\ Resolved <=> Conclusive(observation)
                 /\ Resolved <=> truth.outcome # None
                 /\ truth.outcome = 1 => observation.amount > 10 * Threshold
                 /\ truth.outcome = 0 => observation.amount <= 10 * Threshold + 5
    <3>1. Conclusive(observation) \in BOOLEAN
      BY DEF Conclusive
    <3> QED
      BY <2>6, <3>1
  <2>8. CASE observation = None
    <3>1. truth.status = "missing" /\ truth.outcome = None
      BY <2>3, <2>8 DEF ResolvePrecipitation, Truth
    <3> QED
      BY <2>8, <3>1, PipelineAssumption DEF Conclusive
  <2>7. CASE observation # None
    <3>1. observation.at \in Int /\ observation.amount \in Nat
      BY <1>1, <2>7 DEF ResolutionInv
    <3>2. PICK e \in Int : e = request.end
      BY <2>4, HourPositive
    <3>3. Conclusive(observation) <=> Issue(request, observation) = "none"
      <4>1. Conclusive(observation) <=>
                /\ observation.event = request.event
                /\ observation.lat = request.asks.place.lat
                /\ observation.lon = request.asks.place.lon
                /\ observation.start = request.start /\ observation.end = request.end
                /\ ~(observation.at < e)
        BY <2>4, <2>5, <2>7, <3>1, <3>2 DEF Conclusive
      <4> QED
        BY <3>2, <4>1 DEF Issue
    <3>4. CASE Issue(request, observation) # "none"
      <4>1. truth.status = "invalid" /\ truth.outcome = None
        BY <2>3, <2>7, <3>4 DEF ResolvePrecipitation, Truth
      <4> QED
        BY <3>3, <3>4, <4>1, PipelineAssumption
    <3>5. CASE Issue(request, observation) = "none"
      <4>1. /\ truth.status = "resolved"
            /\ truth.outcome
                   = IF Micrometres(observation.amount) > Threshold THEN 1 ELSE 0
        BY <2>3, <2>7, <3>5 DEF ResolvePrecipitation, Truth, Exceeds
      <4>2. truth.outcome # None
        BY <4>1, PipelineAssumption
      <4>3. truth.outcome = 1 => observation.amount > 10 * Threshold
        BY <3>1, <4>1, MicrometresRound
      <4>4. truth.outcome = 0 => observation.amount <= 10 * Threshold + 5
        BY <3>1, <4>1, MicrometresRound
      <4> QED
        BY <3>3, <3>5, <4>1, <4>2, <4>3, <4>4
    <3> QED
      BY <3>4, <3>5
  <2> QED
    BY <2>7, <2>8
<1>2. RequestInv /\ ForecastInv /\ ResolutionInv => OutcomeIsObserved
  BY <1>1 DEF OutcomeIsObserved
<1> QED
  BY <1>2, RequestHolds, ForecastHolds, ResolutionHolds, PTL

-----------------------------------------------------------------------------
(* The comparison of providers.                                            *)

(* Cases in order of issue, and places in their list where a batch ends.   *)
Sorted(list) ==
    /\ list \in Seq(Cases)
    /\ \A i, j \in 1..Len(list) : i <= j => list[i].issued <= list[j].issued

BatchEnds(list, d) ==
    /\ d \in 0..Len(list)
    /\ \A i \in 1..d, j \in (d + 1)..Len(list) : list[i].issued < list[j].issued

(* Cases are issued at times.                                              *)
LEMMA IssuedIsTime ==
    ASSUME NEW list, Sorted(list), NEW i \in 1..Len(list)
    PROVE  list[i].issued \in Int
  BY BacktestAssumption DEF Sorted

(* The cases issued before a batch are those before it in the list.        *)
LEMMA IssuedBefore ==
    ASSUME NEW list, Sorted(list), NEW d, BatchEnds(list, d),
           NEW i \in (d + 1)..Len(list), list[i].issued = list[d + 1].issued
    PROVE  Cardinality({j \in DOMAIN list : list[j].issued < list[i].issued}) = d
<1>1. d \in Nat /\ d + 1 \in 1..Len(list) /\ Len(list) \in Nat
  BY DEF Sorted, BatchEnds
<1>2. PICK t \in Int : t = list[i].issued
  BY <1>1, IssuedIsTime
<1>3. \A j \in 1..Len(list) : list[j].issued < t <=> j <= d
  <2>1. TAKE j \in 1..Len(list)
  <2>2. list[j].issued \in Int
    BY IssuedIsTime
  <2>3. CASE j <= d
    <3>1. j \in 1..d
      BY <1>1, <2>3
    <3> QED
      BY <1>2, <2>3, <3>1 DEF BatchEnds
  <2>4. CASE ~(j <= d)
    <3>1. d + 1 <= j
      BY <1>1, <2>4
    <3>2. list[d + 1].issued <= list[j].issued
      BY <1>1, <3>1 DEF Sorted
    <3> QED
      BY <1>2, <2>2, <2>4, <3>2
  <2> QED
    BY <2>3, <2>4
<1>4. {j \in DOMAIN list : list[j].issued < t} = 1..d
  <2>1. DOMAIN list = 1..Len(list) /\ d <= Len(list)
    BY <1>1 DEF Sorted
  <2> QED
    BY <1>1, <1>3, <2>1
<1>5. Cardinality(1..d) = d
  BY <1>1, FS_Interval
<1> QED
  BY <1>2, <1>4, <1>5

(* A batch is a stretch of the list.                                       *)
LEMMA BatchIsStretch ==
    ASSUME NEW list, Sorted(list), NEW d, BatchEnds(list, d), d < Len(list),
           NEW B, B = {i \in (d + 1)..Len(list) : list[i].issued = list[d + 1].issued}
    PROVE  \E e \in (d + 1)..Len(list) :
               /\ B = (d + 1)..e /\ Cardinality(B) = e - d
               /\ BatchEnds(list, e)
<1>1. d \in Nat /\ Len(list) \in Nat /\ d + 1 \in 1..Len(list)
  BY DEF Sorted, BatchEnds
<1>2. IsFiniteSet((d + 1)..Len(list))
  BY <1>1, FS_Interval
<1>3. IsFiniteSet(B) /\ B \subseteq Int /\ d + 1 \in B
  BY <1>1, <1>2, FS_Subset
<1>4. PICK e \in (d + 1)..Len(list) : e \in B /\ \A b \in B : b <= e
  BY <1>3, Largest
<1>5. PICK t \in Int : t = list[d + 1].issued
  BY <1>1, IssuedIsTime
<1>6. list[e].issued = t
  BY <1>4, <1>5
<1>7. ASSUME NEW j \in (d + 1)..e
      PROVE  j \in B
  <2>1. j \in 1..Len(list) /\ e \in 1..Len(list) /\ d + 1 <= j /\ j <= e
    BY <1>1, <1>4
  <2>2. list[d + 1].issued <= list[j].issued /\ list[j].issued <= list[e].issued
    BY <1>1, <2>1 DEF Sorted
  <2>3. list[j].issued \in Int
    BY <2>1, IssuedIsTime
  <2>4. list[j].issued = t
    BY <1>5, <1>6, <2>2, <2>3
  <2> QED
    BY <1>1, <1>4, <1>5, <2>4
<1>8. B = (d + 1)..e
  <2>1. \A b \in B : b \in (d + 1)..e
    BY <1>1, <1>4
  <2> QED
    BY <1>7, <2>1
<1>9. Cardinality(B) = e - d
  <2>1. e \in Int /\ d + 1 \in Int /\ d + 1 <= e
    BY <1>1, <1>4
  <2>2. Cardinality((d + 1)..e) = e - (d + 1) + 1
    BY <2>1, FS_Interval
  <2>3. Cardinality(B) = e - (d + 1) + 1
    BY <1>8, <2>2, Zenon
  <2>4. e - (d + 1) + 1 = e - d
    BY <1>1, <2>1
  <2> QED
    BY <2>3, <2>4
<1>10. ASSUME NEW i \in 1..e, NEW j \in (e + 1)..Len(list)
       PROVE  list[i].issued < list[j].issued
  <2>1. i \in 1..Len(list) /\ j \in 1..Len(list) /\ e \in 1..Len(list) /\ i <= e /\ e <= j
    BY <1>1, <1>4
  <2>2. list[i].issued \in Int /\ list[j].issued \in Int
    BY <2>1, IssuedIsTime
  <2>3. list[i].issued <= t /\ t <= list[j].issued
    BY <1>6, <2>1 DEF Sorted
  <2>4. list[j].issued # t
    <3>1. j \notin B
      BY <1>1, <1>4, <1>8
    <3>2. j \in (d + 1)..Len(list)
      BY <1>1, <1>4
    <3> QED
      BY <1>5, <3>1, <3>2
  <2> QED
    BY <1>5, <2>2, <2>3, <2>4
<1>11. e \in 0..Len(list)
  BY <1>1, <1>4
<1>12. BatchEnds(list, e)
  BY <1>10, <1>11 DEF BatchEnds
<1> QED
  BY <1>8, <1>9, <1>12

(* What is known of the earlier cases when a batch is issued is in AsOf.   *)
LEMMA AsOfShows ==
    ASSUME Sorted(cases), NEW i \in 1..Len(cases), NEW t, cases[i].issued <= t
    PROVE  /\ i \in DOMAIN AsOf(t)
           /\ AsOf(t)[i].issued = cases[i].issued
           /\ AsOf(t)[i].forecasts = cases[i].forecasts
           /\ (AsOf(t)[i].resolved # Unknown /\ AsOf(t)[i].resolved <= t)
                  <=> (cases[i].resolved # Unknown /\ cases[i].resolved <= t)
           /\ (cases[i].resolved # Unknown /\ cases[i].resolved <= t) =>
                  AsOf(t)[i] = cases[i]
<1>1. i \in {j \in DOMAIN cases : cases[j].issued <= t}
  BY DEF Sorted
<1>2. PICK c : c = cases[i]
  OBVIOUS
<1>3. /\ i \in DOMAIN AsOf(t)
      /\ AsOf(t)[i] = IF c.resolved # Unknown /\ c.resolved <= t THEN c ELSE Undecided(c)
  BY <1>1, <1>2 DEF AsOf
<1>4. {"issued", "forecasts", "outcome", "resolved"} \subseteq DOMAIN c
  BY <1>2, BacktestAssumption DEF Sorted
<1>5. /\ Undecided(c).resolved = Unknown
      /\ Undecided(c).issued = c.issued /\ Undecided(c).forecasts = c.forecasts
  BY <1>4 DEF Undecided
<1> QED
  BY <1>2, <1>3, <1>5

(* What was available to a batch is there in the data as of its issue.     *)
LEMMA SamePrior ==
    ASSUME Sorted(cases), NEW d, BatchEnds(cases, d), d < Len(cases),
           NEW t, t = cases[d + 1].issued
    PROVE  /\ AsOf(t)[d + 1].issued = t
           /\ AvailablePrior(AsOf(t), d, t) = AvailablePrior(cases, d, t)
           /\ DOMAIN AvailablePrior(cases, d, t) \subseteq 1..d
           /\ \A j \in 1..d : j \in DOMAIN AsOf(t)
           /\ \A j \in DOMAIN AvailablePrior(cases, d, t) :
                  AvailablePrior(cases, d, t)[j] = cases[j]
<1>1. d \in Nat /\ d + 1 \in 1..Len(cases) /\ Len(cases) \in Nat
  BY DEF Sorted, BatchEnds
<1>2. t \in Int
  BY <1>1, IssuedIsTime
<1>3. ASSUME NEW j \in 1..d
      PROVE  j \in 1..Len(cases) /\ cases[j].issued <= t
  <2>1. j \in 1..Len(cases) /\ d + 1 \in (d + 1)..Len(cases)
    BY <1>1
  <2>2. cases[j].issued \in Int
    BY <2>1, IssuedIsTime
  <2> QED
    BY <1>2, <2>1, <2>2 DEF BatchEnds
<1>4. AsOf(t)[d + 1].issued = t
  BY <1>1, <1>2, AsOfShows
<1> DEFINE Seen(c) == c.resolved # Unknown /\ c.resolved <= t
<1>5. \A j \in 1..d :
          /\ j \in DOMAIN AsOf(t)
          /\ Seen(AsOf(t)[j]) <=> Seen(cases[j])
          /\ Seen(cases[j]) => AsOf(t)[j] = cases[j]
  BY <1>3, AsOfShows
<1>6. PICK X : X = {j \in 1..d : Seen(cases[j])}
  OBVIOUS
<1>7. AvailablePrior(cases, d, t) = [j \in X |-> cases[j]]
  <2>1. PICK r : r = [j \in 1..d |-> cases[j]]
    OBVIOUS
  <2>2. {j \in DOMAIN r : Seen(r[j])} = X
    BY <1>6, <2>1
  <2>3. AvailablePrior(cases, d, t) = [j \in X |-> r[j]]
    BY <2>1, <2>2 DEF AvailablePrior, RestrictValues, Restrict
  <2> QED
    BY <1>6, <2>1, <2>3
<1>8. AvailablePrior(AsOf(t), d, t) = [j \in X |-> cases[j]]
  <2>1. PICK r : r = [j \in 1..d |-> AsOf(t)[j]]
    OBVIOUS
  <2>2. {j \in DOMAIN r : Seen(r[j])} = X
    BY <1>5, <1>6, <2>1
  <2>3. AvailablePrior(AsOf(t), d, t) = [j \in X |-> r[j]]
    BY <2>1, <2>2 DEF AvailablePrior, RestrictValues, Restrict
  <2>4. \A j \in X : r[j] = cases[j]
    BY <1>5, <1>6, <2>1
  <2> QED
    BY <2>3, <2>4
<1>9. X \subseteq 1..d
  BY <1>6
<1> QED
  BY <1>4, <1>5, <1>7, <1>8, <1>9

(* A provider that no earlier case lists has no valid history.             *)
LEMMA UnlistedHasNoHistory ==
    ASSUME NEW prior, NEW p, \A j \in DOMAIN prior : p \notin DOMAIN prior[j].forecasts
    PROVE  EvaluateBrier(AttemptsOf(prior, p)).valid = 0
<1>1. PICK a : a = AttemptsOf(prior, p)
  OBVIOUS
<1>2. \A j \in DOMAIN a : a[j].status = "missing"
  BY <1>1 DEF AttemptsOf, ToAttempt, Attempt
<1>3. {j \in DOMAIN a : IsValid(a[j])} = {}
  BY <1>2 DEF IsValid
<1>4. EvaluateBrier(a).valid = Cardinality({j \in DOMAIN a : IsValid(a[j])})
  BY DEF EvaluateBrier
<1> QED
  BY <1>1, <1>3, <1>4, FS_EmptySet

(* Naming providers of later cases does not change the choice.             *)
LEMMA LaterNamesDoNotMatter ==
    ASSUME NEW prior, NEW names, NEW more, names \subseteq more,
           \A j \in DOMAIN prior : DOMAIN prior[j].forecasts \subseteq names
    PROVE  ChooseProvider(prior, names) = ChooseProvider(prior, more)
<1> DEFINE Valid(p) == EvaluateBrier(AttemptsOf(prior, p)).valid >= MinHistory
<1>1. \A p \in more : Valid(p) => p \in names
  <2>1. TAKE p \in more
  <2>2. SUFFICES ASSUME p \notin names
                 PROVE  ~Valid(p)
    OBVIOUS
  <2>3. EvaluateBrier(AttemptsOf(prior, p)).valid = 0
    BY <2>2, UnlistedHasNoHistory
  <2> QED
    BY <2>3, BacktestAssumption
<1>2. PICK X : X = {p \in names : Valid(p)}
  OBVIOUS
<1>3. X = {p \in more : Valid(p)}
  <2> HIDE DEF Valid
  <2> QED
    BY <1>1, <1>2
<1>4. EligibleProfiles(prior, names) = [p \in X |-> EvaluateBrier(AttemptsOf(prior, p))]
  <2>1. PICK r : r = [p \in names |-> EvaluateBrier(AttemptsOf(prior, p))]
    OBVIOUS
  <2>2. {p \in DOMAIN r : r[p].valid >= MinHistory} = X
    BY <1>2, <2>1
  <2>3. EligibleProfiles(prior, names) = [p \in X |-> r[p]]
    BY <2>1, <2>2 DEF EligibleProfiles, RestrictValues, Restrict
  <2> QED
    BY <1>2, <2>1, <2>3
<1>5. EligibleProfiles(prior, more) = [p \in X |-> EvaluateBrier(AttemptsOf(prior, p))]
  <2>1. PICK r : r = [p \in more |-> EvaluateBrier(AttemptsOf(prior, p))]
    OBVIOUS
  <2>2. {p \in DOMAIN r : r[p].valid >= MinHistory} = X
    BY <1>3, <2>1
  <2>3. EligibleProfiles(prior, more) = [p \in X |-> r[p]]
    BY <2>1, <2>2 DEF EligibleProfiles, RestrictValues, Restrict
  <2> QED
    BY <1>3, <2>1, <2>3
<1> QED
  BY <1>4, <1>5 DEF ChooseProvider

(* The choice for a batch is the one that was possible when it was issued. *)
LEMMA SameSelection ==
    ASSUME Sorted(cases), NEW d, BatchEnds(cases, d), d < Len(cases),
           NEW t, t = cases[d + 1].issued
    PROVE  Selection(AsOf(t), d) = Selection(cases, d)
<1>1. PICK prior : prior = AvailablePrior(cases, d, t)
  OBVIOUS
<1>2. AvailablePrior(AsOf(t), d, AsOf(t)[d + 1].issued) = prior
  BY <1>1, SamePrior
<1>3. PICK names : names = ProviderNames(AsOf(t))
  OBVIOUS
<1>4. PICK more : more = ProviderNames(cases)
  OBVIOUS
<1>5. \A j \in DOMAIN AsOf(t) : /\ j \in DOMAIN cases
                               /\ AsOf(t)[j].forecasts = cases[j].forecasts
  <2>1. TAKE j \in DOMAIN AsOf(t)
  <2>2. j \in DOMAIN cases /\ cases[j].issued <= t
    BY DEF AsOf
  <2>3. j \in 1..Len(cases)
    BY <2>2 DEF Sorted
  <2> QED
    BY <2>2, <2>3, AsOfShows
<1>6. names \subseteq more
  BY <1>3, <1>4, <1>5 DEF ProviderNames
<1>7. ASSUME NEW j \in DOMAIN prior
      PROVE  DOMAIN prior[j].forecasts \subseteq names
  <2>1. j \in DOMAIN AsOf(t) /\ prior[j] = cases[j]
    BY <1>1, <1>7, SamePrior
  <2>2. AsOf(t)[j].forecasts = cases[j].forecasts
    BY <1>5, <2>1
  <2> QED
    BY <1>3, <2>1, <2>2 DEF ProviderNames
<1>8. ChooseProvider(prior, names) = ChooseProvider(prior, more)
  BY <1>6, <1>7, LaterNamesDoNotMatter
<1> QED
  BY <1>1, <1>2, <1>3, <1>4, <1>8 DEF Selection

(* A step of a behaviour is one of the comparison, or leaves it alone.     *)
LEMMA BacktestOrNot ==
    ASSUME [Next]_vars
    PROVE  \/ UNCHANGED backtestVars
           \/ \E c \in Cases : ReadCase(c)
           \/ BeginRun
           \/ DecideBatch
           \/ Report
<1>1. CASE UNCHANGED vars
  BY <1>1 DEF vars
<1>2. CASE Next
  <2>1. UNCHANGED backtestVars \/ BacktestStep
    BY <1>2 DEF Next
  <2> QED
    BY <2>1 DEF BacktestStep
<1> QED
  BY <1>1, <1>2

(* The decided cases are whole batches at the head of the list, and the    *)
(* trace says what was selected for them.                                  *)
Decided ==
    /\ BatchEnds(cases, index)
    /\ trace = [i \in 1..index |->
                   Selection(AsOf(cases[i].issued), DecidedBefore(cases[i].issued))]

BacktestInv ==
    /\ Sorted(cases)
    /\ Decided
    /\ phase = "reading" => index = 0

(* No batch is decided at first.                                           *)
LEMMA BacktestInitially == Init => BacktestInv
<1>1. SUFFICES ASSUME Init
               PROVE  BacktestInv
  OBVIOUS
<1>2. cases = <<>> /\ index = 0 /\ trace = <<>>
  BY <1>1 DEF Init, BacktestInit
<1>3. Sorted(cases)
  BY <1>2 DEF Sorted
<1>4. Decided
  BY <1>2 DEF Decided, BatchEnds
<1> QED
  BY <1>2, <1>3, <1>4 DEF BacktestInv

(* Reading a case keeps the list sorted and decides nothing.               *)
LEMMA CaseRead ==
    ASSUME BacktestInv, NEW c \in Cases, ReadCase(c)
    PROVE  BacktestInv'
<1>1. phase = "reading" /\ index = 0 /\ index' = 0 /\ trace' = trace
  BY DEF ReadCase, BacktestInv
<1>2. CASE cases' = cases
  BY <1>1, <1>2 DEF BacktestInv, Decided, Sorted, BatchEnds
<1>3. CASE cases' # cases
  <2>1. InOrder(cases, c) /\ cases' = Append(cases, c)
    BY <1>3 DEF ReadCase
  <2>2. PICK n \in Nat : n = Len(cases)
    BY DEF BacktestInv, Sorted
  <2>3. cases \in Seq(Cases)
    BY DEF BacktestInv, Sorted
  <2>4. \A i \in 1..n : cases[i] \in Cases
    BY <2>2, <2>3
  <2>5. /\ Len(cases') = n + 1 /\ DOMAIN cases' = 1..(n + 1)
        /\ \A i \in 1..n : cases'[i] = cases[i]
        /\ cases'[n + 1] = c
    BY <2>1, <2>2, <2>3
  <2>6. cases' \in Seq(Cases)
    BY <2>1, <2>3
  <2>7. c.issued \in Int /\ \A i \in 1..n : cases[i].issued \in Int
    BY <2>4, BacktestAssumption
  <2>8. \A i \in 1..n : cases[i].issued <= c.issued
    <3>1. TAKE i \in 1..n
    <3>2. cases # <<>> /\ n \in 1..n
      BY <2>2
    <3>3. cases[n].issued <= c.issued
      BY <2>1, <2>2, <2>7, <3>2 DEF InOrder
    <3>4. cases[i].issued <= cases[n].issued
      BY <2>2, <3>2 DEF BacktestInv, Sorted
    <3> QED
      BY <2>7, <3>2, <3>3, <3>4
  <2>9. ASSUME NEW i \in 1..n + 1, NEW j \in 1..n + 1, i <= j
        PROVE  cases'[i].issued <= cases'[j].issued
    <3>1. CASE j = n + 1 /\ i = n + 1
      BY <2>5, <2>7, <3>1
    <3>2. CASE j = n + 1 /\ i \in 1..n
      BY <2>5, <2>8, <3>2
    <3>3. CASE j \in 1..n
      <4>1. i \in 1..n
        BY <2>9, <3>3
      <4>2. cases[i].issued <= cases[j].issued
        BY <2>2, <2>9, <3>3, <4>1 DEF BacktestInv, Sorted
      <4> QED
        BY <2>5, <3>3, <4>1, <4>2
    <3> QED
      BY <2>2, <3>1, <3>2, <3>3
  <2>10. Sorted(cases)'
    BY <2>2, <2>5, <2>6, <2>9 DEF Sorted
  <2>11. Decided'
    BY <1>1, <2>2, <2>5 DEF Decided, BatchEnds, BacktestInv
  <2> QED
    BY <1>1, <2>10, <2>11 DEF BacktestInv
<1> QED
  BY <1>2, <1>3

(* The trace grows by the selections for a batch.                          *)
LEMMA SequenceGrows ==
    ASSUME NEW d \in Nat, NEW size \in Nat, NEW tr, tr = [i \in 1..d |-> tr[i]],
           NEW x, NEW new, new = tr \o [i \in 1..size |-> x]
    PROVE  new = [i \in 1..(d + size) |-> IF i <= d THEN tr[i] ELSE x]
<1>1. PICK S : S = {tr[i] : i \in 1..d} \cup {x}
  OBVIOUS
<1>2. tr \in Seq(S) /\ Len(tr) = d
  <2>1. \A i \in 1..d : tr[i] \in S
    BY <1>1
  <2>2. DOMAIN tr = 1..d /\ tr \in [1..d -> S]
    BY <2>1
  <2> QED
    BY <2>2
<1>3. PICK more : more = [i \in 1..size |-> x]
  OBVIOUS
<1>4. more \in Seq(S) /\ Len(more) = size /\ \A i \in 1..size : more[i] = x
  BY <1>1, <1>3
<1>5. /\ new \in Seq(S) /\ Len(new) = d + size
      /\ \A i \in 1..(d + size) : new[i] = IF i <= d THEN tr[i] ELSE more[i - d]
  BY <1>2, <1>3, <1>4, ConcatProperties
<1>6. \A i \in 1..(d + size) : new[i] = IF i <= d THEN tr[i] ELSE x
  <2>1. \A i \in 1..(d + size) : ~(i <= d) => i - d \in 1..size
    OBVIOUS
  <2> QED
    BY <1>4, <1>5, <2>1
<1>7. DOMAIN new = 1..(d + size) /\ new = [i \in DOMAIN new |-> new[i]]
  BY <1>5
<1> QED
  BY <1>6, <1>7

(* A decided batch selects what the data as of its issue selects.          *)
LEMMA BatchDecided ==
    ASSUME BacktestInv, DecideBatch
    PROVE  BacktestInv'
<1>1. PICK d : d = index
  OBVIOUS
<1>2. /\ Sorted(cases) /\ BatchEnds(cases, d) /\ d < Len(cases)
      /\ cases' = cases /\ phase' = phase /\ phase = "running"
  BY <1>1 DEF BacktestInv, Decided, DecideBatch
<1>3. d \in Nat /\ Len(cases) \in Nat
  BY <1>2 DEF Sorted, BatchEnds
<1>4. PICK B : B = Batch(d)
  OBVIOUS
<1>5. B = {i \in (d + 1)..Len(cases) : cases[i].issued = cases[d + 1].issued}
  BY <1>4 DEF Batch
<1>6. PICK e \in (d + 1)..Len(cases) :
          B = (d + 1)..e /\ Cardinality(B) = e - d /\ BatchEnds(cases, e)
  BY <1>2, <1>5, BatchIsStretch
<1>7. PICK selected : selected = Selection(cases, d)
  OBVIOUS
<1>8. PICK size \in Nat : size = e - d
  BY <1>3, <1>6
<1>9. index' = e /\ trace' = trace \o [i \in 1..size |-> selected]
  <2>1. Cardinality(Batch(index)) = size
    BY <1>1, <1>4, <1>6, <1>8
  <2>2. index' = index + size /\ trace' = trace \o [i \in 1..size |-> selected]
    BY <1>1, <1>7, <2>1 DEF DecideBatch
  <2> QED
    BY <1>1, <1>3, <1>6, <1>8, <2>2
<1>10. trace = [i \in 1..d |->
                   Selection(AsOf(cases[i].issued), DecidedBefore(cases[i].issued))]
  BY <1>1 DEF BacktestInv, Decided
<1>11. trace' = [i \in 1..e |-> IF i <= d THEN trace[i] ELSE selected]
  <2>1. trace = [i \in 1..d |-> trace[i]]
    BY <1>10
  <2>2. e = d + size
    BY <1>3, <1>6, <1>8
  <2> QED
    BY <1>3, <1>9, <2>1, <2>2, SequenceGrows
<1>12. ASSUME NEW i \in (d + 1)..e
       PROVE  selected = Selection(AsOf(cases[i].issued), DecidedBefore(cases[i].issued))
  <2>1. i \in (d + 1)..Len(cases) /\ cases[i].issued = cases[d + 1].issued
    BY <1>5, <1>6
  <2>2. Cardinality({j \in DOMAIN cases : cases[j].issued < cases[i].issued}) = d
    BY <1>2, <2>1, IssuedBefore
  <2>3. DecidedBefore(cases[i].issued) = d
    BY <2>2 DEF DecidedBefore
  <2>4. Selection(AsOf(cases[i].issued), d) = Selection(cases, d)
    BY <1>2, <2>1, SameSelection
  <2> QED
    BY <1>7, <2>3, <2>4
<1>13. \A i \in 1..e : (IF i <= d THEN trace[i] ELSE selected)
                          = Selection(AsOf(cases[i].issued), DecidedBefore(cases[i].issued))
  <2>1. TAKE i \in 1..e
  <2>2. CASE i <= d
    <3>1. i \in 1..d
      BY <1>3, <2>2
    <3> QED
      BY <1>10, <2>2, <3>1
  <2>3. CASE ~(i <= d)
    <3>1. i \in (d + 1)..e
      BY <1>3, <2>3
    <3> QED
      BY <1>12, <2>3, <3>1
  <2> QED
    BY <2>2, <2>3
<1>14. Decided'
  <2>1. trace' = [i \in 1..e |->
                     Selection(AsOf(cases[i].issued), DecidedBefore(cases[i].issued))]
    BY <1>11, <1>13
  <2>2. BatchEnds(cases, index)'
    BY <1>2, <1>6, <1>9 DEF BatchEnds
  <2> QED
    BY <1>2, <1>9, <2>1, <2>2 DEF Decided, AsOf, DecidedBefore
<1> QED
  BY <1>2, <1>14 DEF BacktestInv


(* Every step of the comparison keeps its invariant.                       *)
LEMMA BacktestSteps ==
    ASSUME BacktestInv, [Next]_vars
    PROVE  BacktestInv'
<1>1. CASE UNCHANGED backtestVars
  BY <1>1 DEF BacktestInv, Decided, Sorted, BatchEnds, AsOf, DecidedBefore, backtestVars
<1>2. CASE BeginRun \/ Report
  <2>1. /\ cases' = cases /\ index' = index /\ trace' = trace
        /\ phase' # "reading"
    BY <1>2 DEF BeginRun, Report
  <2> QED
    BY <2>1 DEF BacktestInv, Decided, Sorted, BatchEnds, AsOf, DecidedBefore
<1> QED
  BY <1>1, <1>2, CaseRead, BatchDecided, BacktestOrNot

(* NoLeakage: what is selected for a case is what would be selected if the *)
(* file ended with its batch and no outcome resolved later were in it; for *)
(* every fixture, although the code lists the providers of all its cases.  *)
THEOREM NothingLeaks == Spec => []NoLeakage
<1>1. BacktestInv /\ [Next]_vars => BacktestInv'
  BY BacktestSteps
<1>2. BacktestInv => NoLeakage
  <2>1. SUFFICES ASSUME BacktestInv, NEW i \in DOMAIN trace
                 PROVE  trace[i] = Selection(AsOf(cases[i].issued),
                                             DecidedBefore(cases[i].issued))
    BY DEF NoLeakage
  <2>2. trace = [j \in 1..index |->
                    Selection(AsOf(cases[j].issued), DecidedBefore(cases[j].issued))]
    BY <2>1 DEF BacktestInv, Decided
  <2>3. i \in 1..index
    BY <2>2
  <2> QED
    BY <2>2, <2>3
<1> QED
  BY <1>1, <1>2, BacktestInitially, PTL DEF Spec

-----------------------------------------------------------------------------
(* The collection.                                                         *)

(* What is written down of a location and an hour, resolved or not.        *)
IsPair(c) ==
    /\ c = [id |-> c.id, location |-> c.location, issued |-> c.issued,
            start |-> c.start, end |-> c.end, resolved |-> c.resolved,
            outcome |-> c.outcome, forecasts |-> c.forecasts]
    /\ c.id \in Int /\ c.issued \in Int /\ c.start \in Int
    /\ c.issued < c.start /\ c.end = c.start + Hour
    /\ c.outcome = Unknown <=> c.resolved = Unknown
    /\ c.resolved # Unknown => c.resolved \in Int /\ c.end <= c.resolved
    /\ DOMAIN c.forecasts # {}

(* A finite set of cases, each with an id of its own.                      *)
Distinct(S) ==
    /\ IsFiniteSet(S)
    /\ \A c \in S : IsPair(c)
    /\ \A c, d \in S : c.id = d.id => c = d

(* Such a set is ordered.                                                  *)
LEMMA Ordered ==
    ASSUME NEW S, Distinct(S), NEW c \in S, NEW d \in S
    PROVE  /\ c = d \/ Before(c, d) \/ Before(d, c)
           /\ ~(Before(c, d) /\ Before(d, c)) /\ ~Before(c, c)
           /\ \A e \in S : Before(c, d) /\ Before(d, e) => Before(c, e)
<1>1. \A e \in S : e.id \in Int /\ e.issued \in Int
  BY DEF Distinct, IsPair
<1>2. c.id = d.id => c = d
  BY DEF Distinct
<1>3. c = d \/ Before(c, d) \/ Before(d, c)
  BY <1>1, <1>2 DEF Before
<1>4. ~(Before(c, d) /\ Before(d, c)) /\ ~Before(c, c)
  BY <1>1 DEF Before
<1>5. ASSUME NEW e \in S, Before(c, d), Before(d, e)
      PROVE  Before(c, e)
  BY <1>1, <1>5 DEF Before
<1> QED
  BY <1>3, <1>4, <1>5

(* The number of cases before a case.                                      *)
Rank(S, c) == Cardinality(Earlier(S, c))

(* There are fewer cases before a case than there are.                     *)
LEMMA RankBounds ==
    ASSUME NEW S, Distinct(S), NEW c \in S
    PROVE  /\ IsFiniteSet(Earlier(S, c))
           /\ Rank(S, c) \in Nat /\ Rank(S, c) + 1 <= Cardinality(S)
           /\ Cardinality(S) \in Nat
<1>1. IsFiniteSet(S) /\ Cardinality(S) \in Nat
  BY FS_CardinalityType DEF Distinct
<1>2. Earlier(S, c) \in SUBSET (S \ {c})
  BY Ordered DEF Earlier
<1>3. IsFiniteSet(S \ {c}) /\ Cardinality(S \ {c}) = Cardinality(S) - 1
  BY <1>1, FS_RemoveElement
<1>4. IsFiniteSet(Earlier(S, c)) /\ Rank(S, c) <= Cardinality(S \ {c})
  BY <1>2, <1>3, FS_Subset DEF Rank
<1>5. Rank(S, c) \in Nat
  BY <1>4, FS_CardinalityType DEF Rank
<1> QED
  BY <1>1, <1>3, <1>4, <1>5

(* A later case has more cases before it.                                  *)
LEMMA RankGrows ==
    ASSUME NEW S, Distinct(S), NEW c \in S, NEW d \in S, Before(c, d)
    PROVE  Rank(S, c) < Rank(S, d)
<1>1. PICK E : E = Earlier(S, c) \cup {c}
  OBVIOUS
<1>2. c \notin Earlier(S, c)
  BY Ordered DEF Earlier
<1>3. IsFiniteSet(E) /\ Cardinality(E) = Rank(S, c) + 1
  BY <1>1, <1>2, RankBounds, FS_AddElement DEF Rank
<1>4. E \subseteq Earlier(S, d)
  <2>1. \A e \in Earlier(S, c) : e \in S /\ Before(e, c)
    BY DEF Earlier
  <2>2. \A e \in Earlier(S, c) : Before(e, d)
    BY <2>1, Ordered
  <2> QED
    BY <1>1, <2>1, <2>2 DEF Earlier
<1>5. Cardinality(E) <= Rank(S, d)
  BY <1>4, RankBounds, FS_Subset DEF Rank
<1> QED
  BY <1>3, <1>5, RankBounds

(* So no rank is left out.                                                 *)
LEMMA EveryRank ==
    ASSUME NEW S, Distinct(S), NEW k \in 1..Cardinality(S)
    PROVE  \E c \in S : Rank(S, c) = k - 1
<1>1. PICK n \in Nat : n = Cardinality(S)
  BY FS_CardinalityType DEF Distinct
<1>2. PICK f : f = [c \in S |-> Rank(S, c) + 1]
  OBVIOUS
<1>3. f \in [S -> 1..n]
  <2>1. \A c \in S : Rank(S, c) + 1 \in 1..n
    BY <1>1, RankBounds
  <2> QED
    BY <1>2, <2>1
<1>4. f \in Injection(S, 1..n)
  <2>1. ASSUME NEW c \in S, NEW d \in S, f[c] = f[d]
        PROVE  c = d
    <3>1. Rank(S, c) = Rank(S, d)
      BY <1>2, <2>1, RankBounds
    <3>2. ~(Rank(S, c) < Rank(S, d)) /\ ~(Rank(S, d) < Rank(S, c))
      BY <3>1, RankBounds
    <3> QED
      BY <3>2, RankGrows, Ordered
  <2> QED
    BY <1>3, <2>1 DEF Injection, IsInjective
<1>5. IsFiniteSet(1..n) /\ Cardinality(1..n) = n
  BY <1>1, FS_Interval
<1>6. f \in Surjection(S, 1..n)
  BY <1>1, <1>4, <1>5, FS_Injection
<1>7. PICK c \in S : f[c] = k
  BY <1>1, <1>6 DEF Surjection
<1> QED
  BY <1>2, <1>7, RankBounds

(* A list in the order of the loader.                                      *)
InSeries(list) ==
    /\ Len(list) \in Nat /\ DOMAIN list = 1..Len(list)
    /\ \A i \in 1..Len(list) : IsPair(list[i])
    /\ \A i, j \in 1..Len(list) :
           i < j => Before(list[i], list[j]) /\ list[i].id # list[j].id

(* The sorted list of a set is in order, has all of it and no more.        *)
LEMMA Sorting ==
    ASSUME NEW S, Distinct(S), NEW list, list = Chronological(S)
    PROVE  /\ InSeries(list) /\ Len(list) = Cardinality(S)
           /\ \A i \in 1..Len(list) : list[i] \in S
           /\ \A c \in S : \E i \in 1..Len(list) : list[i] = c
<1>1. PICK n \in Nat : n = Cardinality(S)
  BY FS_CardinalityType DEF Distinct
<1>2. DOMAIN list = 1..n /\ Len(list) = n
  BY <1>1 DEF Chronological
<1>3. ASSUME NEW k \in 1..n
      PROVE  list[k] \in S /\ Rank(S, list[k]) = k - 1
  <2>1. list[k] = CHOOSE c \in S : Rank(S, c) = k - 1
    BY <1>1, <1>3 DEF Chronological, Rank
  <2>2. \E c \in S : Rank(S, c) = k - 1
    BY <1>1, <1>3, EveryRank
  <2> QED
    BY <2>1, <2>2
<1>4. ASSUME NEW c \in S
      PROVE  \E i \in 1..n : list[i] = c
  <2>1. PICK k \in 1..n : k = Rank(S, c) + 1
    BY <1>1, RankBounds
  <2>2. list[k] \in S /\ Rank(S, list[k]) = Rank(S, c)
    BY <1>3, <2>1, RankBounds
  <2>3. ~(Rank(S, c) < Rank(S, list[k])) /\ ~(Rank(S, list[k]) < Rank(S, c))
    BY <2>2, RankBounds
  <2> QED
    BY <2>2, <2>3, RankGrows, Ordered
<1>5. ASSUME NEW i \in 1..n, NEW j \in 1..n, i < j
      PROVE  Before(list[i], list[j]) /\ list[i].id # list[j].id
  <2>1. /\ list[i] \in S /\ list[j] \in S
        /\ Rank(S, list[i]) = i - 1 /\ Rank(S, list[j]) = j - 1
    BY <1>3
  <2>2. list[i] # list[j] /\ ~(Rank(S, list[j]) < Rank(S, list[i]))
    BY <1>5, <2>1
  <2>3. Before(list[i], list[j])
    BY <2>1, <2>2, RankGrows, Ordered
  <2> QED
    BY <2>1, <2>2, <2>3 DEF Distinct
<1>6. \A i \in 1..n : IsPair(list[i])
  BY <1>3 DEF Distinct
<1>7. InSeries(list)
  BY <1>2, <1>5, <1>6 DEF InSeries
<1> QED
  BY <1>1, <1>2, <1>3, <1>4, <1>7

(* The elements of a list in order are a set with distinct ids.            *)
LEMMA SeriesIsDistinct ==
    ASSUME NEW list, InSeries(list)
    PROVE  /\ Distinct(Range(list))
           /\ \A c : c \in Range(list) <=> \E i \in 1..Len(list) : list[i] = c
<1>1. PICK n \in Nat : n = Len(list)
  BY DEF InSeries
<1>2. DOMAIN list = 1..n
  BY <1>1 DEF InSeries
<1>3. Range(list) = {list[i] : i \in 1..n}
  BY <1>2 DEF Range
<1>4. IsFiniteSet(Range(list))
  BY <1>2, <1>3, ListIsFinite
<1>5. \A c : c \in Range(list) <=> \E i \in 1..n : list[i] = c
  BY <1>3
<1>6. \A c \in Range(list) : IsPair(c)
  BY <1>1, <1>5 DEF InSeries
<1>7. ASSUME NEW c \in Range(list), NEW d \in Range(list), c.id = d.id
      PROVE  c = d
  <2>1. PICK i \in 1..n : list[i] = c
    BY <1>5
  <2>2. PICK j \in 1..n : list[j] = d
    BY <1>5
  <2>3. ~(i < j) /\ ~(j < i)
    BY <1>1, <1>7, <2>1, <2>2 DEF InSeries
  <2>4. i = j
    BY <2>3
  <2> QED
    BY <2>1, <2>2, <2>4
<1> QED
  BY <1>1, <1>4, <1>5, <1>6, <1>7 DEF Distinct

(* A merge is in order, keeps all there is and adds only what is new.      *)
LEMMA Merging ==
    ASSUME NEW existing, InSeries(existing), NEW new, InSeries(new),
           NEW list, list = MergeCases(existing, new)
    PROVE  /\ InSeries(list)
           /\ \A i \in 1..Len(existing) : \E j \in 1..Len(list) : list[j] = existing[i]
           /\ \A j \in 1..Len(list) : \/ \E i \in 1..Len(existing) : list[j] = existing[i]
                                      \/ \E i \in 1..Len(new) : list[j] = new[i]
           /\ Len(existing) > 0 \/ Len(new) > 0 => Len(list) > 0
<1>1. PICK U : U = Unseen(existing, new)
  OBVIOUS
<1>2. PICK S : S = Range(existing) \cup U
  OBVIOUS
<1>3. U \subseteq Range(new) /\ \A c \in U : \A i \in DOMAIN existing : existing[i].id # c.id
  BY <1>1 DEF Unseen
<1>4. DOMAIN existing = 1..Len(existing)
  BY DEF InSeries
<1>5. Distinct(Range(existing)) /\ Distinct(Range(new))
  BY SeriesIsDistinct
<1>6. Distinct(S)
  <2>1. IsFiniteSet(U)
    BY <1>3, <1>5, FS_Subset DEF Distinct
  <2>2. IsFiniteSet(S)
    BY <1>2, <1>5, <2>1, FS_Union DEF Distinct
  <2>3. \A c \in S : IsPair(c)
    BY <1>2, <1>3, <1>5 DEF Distinct
  <2>4. \A c \in Range(existing), d \in U : c.id # d.id
    BY <1>3, <1>4, SeriesIsDistinct
  <2>5. \A c, d \in S : c.id = d.id => c = d
    BY <1>2, <1>3, <1>5, <2>4 DEF Distinct
  <2> QED
    BY <2>2, <2>3, <2>5 DEF Distinct
<1>7. list = Chronological(S)
  BY <1>1, <1>2 DEF MergeCases
<1>8. /\ InSeries(list)
      /\ \A i \in 1..Len(list) : list[i] \in S
      /\ \A c \in S : \E i \in 1..Len(list) : list[i] = c
  BY <1>6, <1>7, Sorting
<1>9. \A i \in 1..Len(existing) : \E j \in 1..Len(list) : list[j] = existing[i]
  <2>1. \A i \in 1..Len(existing) : existing[i] \in S
    BY <1>2, SeriesIsDistinct
  <2> QED
    BY <1>8, <2>1
<1>10. ASSUME NEW j \in 1..Len(list)
       PROVE  \/ \E i \in 1..Len(existing) : list[j] = existing[i]
              \/ \E i \in 1..Len(new) : list[j] = new[i]
  <2>1. list[j] \in Range(existing) \/ list[j] \in Range(new)
    BY <1>2, <1>3, <1>8
  <2> QED
    BY <2>1, SeriesIsDistinct
<1>11. ASSUME Len(existing) > 0 \/ Len(new) > 0
       PROVE  Len(list) > 0
  <2>1. Len(existing) \in Nat /\ Len(new) \in Nat /\ Len(list) \in Nat
    BY <1>8 DEF InSeries
  <2>2. \E c : c \in S
    <3>1. CASE Len(existing) > 0
      <4>1. 1 \in 1..Len(existing)
        BY <2>1, <3>1
      <4>2. existing[1] \in Range(existing)
        BY <4>1, SeriesIsDistinct
      <4> QED
        BY <1>2, <4>2
    <3>2. CASE Len(new) > 0
      <4>1. 1 \in 1..Len(new)
        BY <2>1, <3>2
      <4>2. new[1] \in Range(new)
        BY <4>1, SeriesIsDistinct
      <4>3. CASE \A i \in DOMAIN existing : existing[i].id # new[1].id
        BY <1>1, <1>2, <4>2, <4>3 DEF Unseen
      <4>4. CASE \E i \in DOMAIN existing : existing[i].id = new[1].id
        BY <1>2, <1>4, <4>4, SeriesIsDistinct
      <4> QED
        BY <4>3, <4>4
    <3> QED
      BY <1>11, <3>1, <3>2
  <2>3. \E i \in 1..Len(list) : TRUE
    BY <1>8, <2>2
  <2> QED
    BY <2>1, <2>3
<1> QED
  BY <1>8, <1>9, <1>10, <1>11

(* Ids of one issue time tell locations apart.                             *)
LEMMA IdsDiffer ==
    ASSUME NEW t \in Int, NEW l \in Int, NEW m \in Int, l < m
    PROVE  CaseId(l, t) \in Int /\ CaseId(m, t) \in Int /\ CaseId(l, t) < CaseId(m, t)
<1>1. PICK w \in Int : w = (MaxHour + 1) * Hour /\ w > 0
  <2>1. MaxHour + 1 \in Int /\ MaxHour + 1 > 0
    BY CollectionAssumption
  <2>2. \A x, y \in Int : x > 0 /\ y > 0 => x * y \in Int /\ x * y > 0
    OBVIOUS
  <2> QED
    BY <2>1, <2>2, HourPositive
<1>2. CaseId(l, t) = w * l + t /\ CaseId(m, t) = w * m + t
  BY <1>1 DEF CaseId
<1>3. w * l < w * m /\ w * l \in Int /\ w * m \in Int
  <2>1. w * (m - l) > 0
    BY <1>1
  <2>2. w * (m - l) = w * m - w * l
    BY <1>1
  <2>3. w * l \in Int /\ w * m \in Int
    BY <1>1
  <2> QED
    BY <2>1, <2>2, <2>3
<1> QED
  BY <1>2, <1>3

(* All cases of a list have one lead time.                                 *)
Uniform(list) ==
    \A i, j \in 1..Len(list) : LeadTime(list[i]) = LeadTime(list[j])

(* What one run collects is in order and has one lead time.                *)
LEMMA Collecting ==
    ASSUME NEW t \in Int, NEW lead \in Leads,
           NEW answers \in [1..NLocations -> PairForecasts],
           NEW new, new = CollectOnce(t, lead, answers)
    PROVE  InSeries(new) /\ Uniform(new) /\ Len(new) > 0
<1>1. PICK n \in Nat \ {0} : n = NLocations
  BY CollectionAssumption
<1>2. PICK s \in Int : s = t + lead * Hour /\ t < s
  <2>1. lead \in Int /\ lead > 0
    BY CollectionAssumption
  <2>2. \A x, y \in Int : x > 0 /\ y > 0 => x * y \in Int /\ x * y > 0
    OBVIOUS
  <2>3. lead * Hour \in Int /\ lead * Hour > 0
    BY <2>1, <2>2, HourPositive
  <2> QED
    BY <2>3
<1>3. new = [l \in 1..n |-> PairCase(l, t, lead, answers[l])]
  BY <1>1 DEF CollectOnce
<1>4. DOMAIN new = 1..n /\ Len(new) = n
  BY <1>3
<1>5. ASSUME NEW l \in 1..n
      PROVE  /\ IsPair(new[l])
             /\ new[l].id = CaseId(l, t) /\ new[l].issued = t /\ new[l].start = s
  <2>1. new[l] = [id |-> CaseId(l, t), location |-> l, issued |-> t, start |-> s,
                  end |-> s + Hour, resolved |-> Unknown, outcome |-> Unknown,
                  forecasts |-> answers[l]]
    BY <1>2, <1>3, <1>5 DEF PairCase
  <2>2. CaseId(l, t) \in Int
    BY IdsDiffer
  <2>3. DOMAIN answers[l] # {}
    BY <1>1, CollectionAssumption
  <2> QED
    BY <1>2, <2>1, <2>2, <2>3 DEF IsPair
<1>6. ASSUME NEW i \in 1..n, NEW j \in 1..n, i < j
      PROVE  Before(new[i], new[j]) /\ new[i].id # new[j].id
  <2>1. CaseId(i, t) \in Int /\ CaseId(j, t) \in Int /\ CaseId(i, t) < CaseId(j, t)
    BY <1>6, IdsDiffer
  <2> QED
    BY <1>5, <2>1 DEF Before
<1>7. InSeries(new)
  BY <1>4, <1>5, <1>6 DEF InSeries
<1>8. Uniform(new)
  BY <1>4, <1>5 DEF Uniform, LeadTime
<1> QED
  BY <1>4, <1>7, <1>8

(* Resolving a case gives it an outcome if it has none.                    *)
LEMMA Resolving ==
    ASSUME NEW c, IsPair(c), NEW o, NEW t \in Int,
           NEW d, d = ResolveCase(c, o, t)
    PROVE  /\ IsPair(d)
           /\ d.id = c.id /\ d.issued = c.issued /\ d.start = c.start
           /\ d.forecasts = c.forecasts
           /\ c.outcome # Unknown => d.outcome = c.outcome /\ d.resolved = c.resolved
<1>1. PICK result : result = ResolvePrecipitation(Question(c), o)
  OBVIOUS
<1>2. result.status = "resolved" => result.outcome \in Int
  BY <1>1 DEF ResolvePrecipitation, Truth
<1>3. CASE c.outcome # Unknown \/ c.end > t \/ result.status # "resolved"
  BY <1>1, <1>3 DEF ResolveCase
<1>4. CASE ~(c.outcome # Unknown \/ c.end > t \/ result.status # "resolved")
  <2>1. d = [c EXCEPT !.outcome = result.outcome, !.resolved = t]
    BY <1>1, <1>4 DEF ResolveCase
  <2>2. c = [id |-> c.id, location |-> c.location, issued |-> c.issued,
             start |-> c.start, end |-> c.end, resolved |-> c.resolved,
             outcome |-> c.outcome, forecasts |-> c.forecasts]
    BY DEF IsPair
  <2>3. d = [id |-> c.id, location |-> c.location, issued |-> c.issued,
             start |-> c.start, end |-> c.end, resolved |-> t,
             outcome |-> result.outcome, forecasts |-> c.forecasts]
    BY <2>1, <2>2
  <2>4. c.end <= t /\ result.outcome \in Int /\ Unknown \notin Int
    <3>1. c.end \in Int
      BY HourPositive DEF IsPair
    <3> QED
      BY <1>2, <1>4, <3>1, BacktestAssumption
  <2> QED
    BY <1>4, <2>3, <2>4 DEF IsPair
<1> QED
  BY <1>3, <1>4

(* A list in order can be loaded.                                          *)
LEMMA SeriesLoads ==
    ASSUME NEW list, InSeries(list), Len(list) > 0
    PROVE  Loadable(list)
<1>1. PICK n \in Nat : n = Len(list) /\ n > 0
  BY DEF InSeries
<1>2. list # <<>>
  BY <1>1
<1>3. ASSUME NEW i \in DOMAIN list
      PROVE  WellFormedCase(list[i]) /\ InOrder(SubSeq(list, 1, i - 1), list[i])
  <2>1. i \in 1..n /\ IsPair(list[i])
    BY <1>1, <1>3 DEF InSeries
  <2>2. WellFormedCase(list[i])
    BY <2>1, HourPositive DEF WellFormedCase, IsPair
  <2>3. PICK before : before = SubSeq(list, 1, i - 1)
    OBVIOUS
  <2>4. CASE i = 1
    <3>1. PICK z \in Int : z = i - 1 /\ z < 1
      BY <2>4
    <3>2. before = <<>>
      BY <2>3, <3>1, SubSeqEmpty
    <3> QED
      BY <2>2, <2>3, <3>2 DEF InOrder
  <2>5. CASE i # 1
    <3>1. PICK m \in Nat : m = i - 1 /\ m > 0 /\ m <= n
      BY <2>1, <2>5
    <3>2. before \in Seq(Range(list)) /\ Len(before) = m /\ \A k \in 1..m : before[k] = list[k]
      <4>1. \A k \in 1..m : list[k] \in Range(list)
        BY <1>1, <3>1, SeriesIsDistinct
      <4> QED
        BY <2>3, <3>1, <4>1, SubSeqProperties
    <3>3. DOMAIN before = 1..m
      BY <3>2
    <3>4. \A k \in 1..m : Before(list[k], list[i]) /\ list[k].id # list[i].id
      BY <1>1, <2>1, <3>1 DEF InSeries
    <3>5. IsPair(list[m])
      BY <1>1, <3>1 DEF InSeries
    <3>6. list[i].end - list[i].start = list[m].end - list[m].start
      BY <2>1, <3>5, HourPositive DEF IsPair
    <3>7. before[Len(before)] = list[m]
      BY <3>1, <3>2
    <3>8. m \in 1..m
      BY <3>1
    <3>9. \A k \in DOMAIN before : before[k].id # list[i].id
      BY <3>2, <3>3, <3>4
    <3>10. \/ list[m].issued < list[i].issued
           \/ list[m].issued = list[i].issued /\ list[m].id < list[i].id
      BY <3>4, <3>8 DEF Before
    <3> QED
      BY <2>3, <3>6, <3>7, <3>9, <3>10, <2>2 DEF InOrder
  <2> QED
    BY <2>2, <2>3, <2>4, <2>5
<1> QED
  BY <1>2, <1>3 DEF Loadable

(* What a run has read and what it is about to write.                      *)
FetchOK(run) ==
    run.pc = "fetching" =>
        /\ run.file \in Files /\ run.lead \in Leads /\ run.issued \in Int
        /\ run.allowed \in BOOLEAN

WriteOK(run) ==
    run.pc = "writing" =>
        /\ run.file \in Files
        /\ InSeries(run.list) /\ Len(run.list) > 0
        /\ run.allowed \/ run.file \in leadChanged \/ Uniform(run.list)

(* Files are in order, and of one lead time unless it was to change.       *)
CollectionInv ==
    /\ hourNow \in Nat
    /\ DOMAIN datasets = Files /\ DOMAIN runs = Runs
    /\ \A f \in Files : InSeries(datasets[f])
    /\ \A f \in Files : f \in leadChanged \/ Uniform(datasets[f])
    /\ \A r \in Runs : FetchOK(runs[r]) /\ WriteOK(runs[r])
    /\ rejected = {}

(* A step of a behaviour is one of the collection, or leaves it alone.     *)
LEMMA CollectionOrNot ==
    ASSUME [Next]_vars
    PROVE  \/ UNCHANGED collectionVars
           \/ \E r \in Runs, f \in Files, lead \in Leads, allowed \in BOOLEAN :
                  BeginCollect(r, f, lead, allowed)
           \/ \E r \in Runs, f \in Files : \E covered, a : BeginResolve(r, f, covered, a)
           \/ \E r \in Runs, f \in Files, into \in Files : BeginImport(r, f, into)
           \/ \E r \in Runs, answers \in [1..NLocations -> PairForecasts] :
                  Collected(r, answers)
           \/ \E r \in Runs : WriteDataset(r)
           \/ \E r \in Runs : RunEnds(r)
           \/ HourPasses
<1>1. CASE UNCHANGED vars
  BY <1>1 DEF vars
<1>2. CASE Next
  <2>1. UNCHANGED collectionVars \/ CollectionStep
    BY <1>2 DEF Next
  <2> QED
    BY <2>1 DEF CollectionStep
<1> QED
  BY <1>1, <1>2

(* A run that is put in the place of another leaves the others alone.      *)
LEMMA OneRunMoves ==
    ASSUME CollectionInv, NEW r \in Runs, NEW run, runs' = [runs EXCEPT ![r] = run],
           hourNow' = hourNow, datasets' = datasets, rejected' = rejected,
           leadChanged' = leadChanged, FetchOK(run), WriteOK(run)
    PROVE  CollectionInv'
<1>1. DOMAIN runs' = Runs /\ \A s \in Runs : runs'[s] = IF s = r THEN run ELSE runs[s]
  BY DEF CollectionInv
<1>2. ASSUME NEW s \in Runs
      PROVE  (FetchOK(runs[s]) /\ WriteOK(runs[s]))'
  <2>1. FetchOK(runs'[s]) /\ WriteOK(runs'[s])
    BY <1>1 DEF CollectionInv
  <2> QED
    BY <2>1 DEF FetchOK, WriteOK
<1> QED
  BY <1>1, <1>2 DEF CollectionInv

(* The empty list is in order.                                             *)
LEMMA EmptySeries == InSeries(<<>>) /\ Uniform(<<>>)
  BY DEF InSeries, Uniform

(* Nothing is collected at first.                                          *)
LEMMA CollectionInitially == Init => CollectionInv
<1>1. SUFFICES ASSUME Init PROVE CollectionInv
  OBVIOUS
<1>2. CollectionInit
  BY <1>1 DEF Init
<1>3. \A r \in Runs : runs[r].pc = "idle"
  BY <1>2 DEF CollectionInit, IdleRun
<1>4. \A r \in Runs : FetchOK(runs[r]) /\ WriteOK(runs[r])
  BY <1>3 DEF FetchOK, WriteOK
<1>5. \A f \in Files : InSeries(datasets[f]) /\ Uniform(datasets[f])
  BY <1>2, EmptySeries DEF CollectionInit
<1> QED
  BY <1>2, <1>4, <1>5 DEF CollectionInit, CollectionInv

(* A merge of lists of one lead time has it, unless the lead changes.      *)
LEMMA MergingKeepsLead ==
    ASSUME NEW existing, InSeries(existing), Uniform(existing),
           NEW new, InSeries(new), Uniform(new), ~LeadChanges(existing, new),
           NEW list, list = MergeCases(existing, new)
    PROVE  Uniform(list)
<1>1. PICK m \in Nat : m = Len(existing) /\ DOMAIN existing = 1..m
  BY DEF InSeries
<1>2. PICK n \in Nat : n = Len(new) /\ DOMAIN new = 1..n
  BY DEF InSeries
<1>3. \A i \in 1..m, j \in 1..n : LeadTime(existing[i]) = LeadTime(new[j])
  <2>1. TAKE i \in 1..m, j \in 1..n
  <2>2. existing # <<>> /\ new # <<>> /\ m \in 1..m /\ 1 \in 1..n
    BY <1>1, <1>2
  <2>3. LeadTime(existing[m]) = LeadTime(new[1])
    BY <1>1, <2>2 DEF LeadChanges
  <2> QED
    BY <1>1, <1>2, <2>2, <2>3 DEF Uniform
<1>4. \A j \in 1..Len(list) : \/ \E i \in 1..m : list[j] = existing[i]
                              \/ \E i \in 1..n : list[j] = new[i]
  BY <1>1, <1>2, Merging
<1>5. ASSUME NEW i \in 1..Len(list), NEW j \in 1..Len(list)
      PROVE  LeadTime(list[i]) = LeadTime(list[j])
  BY <1>1, <1>2, <1>3, <1>4 DEF Uniform
<1> QED
  BY <1>5 DEF Uniform

(* A run that collects has read the file when it got its answers.          *)
LEMMA CollectedSteps ==
    ASSUME CollectionInv, NEW r \in Runs,
           NEW answers \in [1..NLocations -> PairForecasts], Collected(r, answers)
    PROVE  CollectionInv'
<1>1. PICK run : run = runs[r]
  OBVIOUS
<1>2. /\ run.pc = "fetching" /\ run.file \in Files /\ run.lead \in Leads
      /\ run.issued \in Int /\ run.allowed \in BOOLEAN
  BY <1>1 DEF Collected, CollectionInv, FetchOK
<1>3. PICK existing : existing = datasets[run.file]
  OBVIOUS
<1>4. PICK new : new = CollectOnce(run.issued, run.lead, answers)
  OBVIOUS
<1>5. /\ runs' = [runs EXCEPT ![r] =
             IF LeadChanges(existing, new) /\ ~run.allowed THEN IdleRun
             ELSE Writing(run.file, MergeCases(existing, new), run.allowed)]
      /\ UNCHANGED <<hourNow, datasets, leadChanged, rejected>>
  BY <1>1, <1>3, <1>4 DEF Collected
<1>6. CASE LeadChanges(existing, new) /\ ~run.allowed
  <2>1. FetchOK(IdleRun) /\ WriteOK(IdleRun)
    BY DEF FetchOK, WriteOK, IdleRun
  <2> QED
    BY <1>5, <1>6, <2>1, OneRunMoves
<1>7. CASE ~(LeadChanges(existing, new) /\ ~run.allowed)
  <2>1. PICK list : list = MergeCases(existing, new)
    OBVIOUS
  <2>2. PICK next : next = Writing(run.file, list, run.allowed)
    OBVIOUS
  <2>3. /\ next.pc = "writing" /\ next.file = run.file /\ next.list = list
        /\ next.allowed = run.allowed
    BY <2>2 DEF Writing
  <2>4. InSeries(new) /\ Uniform(new) /\ Len(new) > 0
    BY <1>2, <1>4, Collecting
  <2>5. InSeries(existing) /\ (run.file \in leadChanged \/ Uniform(existing))
    BY <1>2, <1>3 DEF CollectionInv
  <2>6. InSeries(list) /\ Len(list) > 0
    BY <2>1, <2>4, <2>5, Merging
  <2>7. run.allowed \/ run.file \in leadChanged \/ Uniform(list)
    BY <1>7, <2>1, <2>4, <2>5, MergingKeepsLead
  <2>8. FetchOK(next) /\ WriteOK(next)
    BY <1>2, <2>3, <2>6, <2>7 DEF FetchOK, WriteOK
  <2>9. runs' = [runs EXCEPT ![r] = next]
    BY <1>5, <1>7, <2>1, <2>2
  <2> QED
    BY <1>5, <2>8, <2>9, OneRunMoves
<1> QED
  BY <1>6, <1>7

(* What CollectedIsKept asks of a list that replaces another.              *)
Keeps(old, list) ==
    \A i \in DOMAIN old : \E j \in DOMAIN list :
        /\ list[j].id = old[i].id
        /\ list[j].start = old[i].start /\ list[j].forecasts = old[i].forecasts
        /\ old[i].outcome # Unknown =>
               list[j].outcome = old[i].outcome /\ list[j].resolved = old[i].resolved

(* A list resolved with one observation, or none, for each of its cases.   *)
ResolveCases(list, observed, t) ==
    [i \in DOMAIN list |-> ResolveCase(list[i], observed[i], t)]

(* A list whose cases are resolved stays in order and keeps them.          *)
LEMMA ResolvingAll ==
    ASSUME NEW existing, InSeries(existing), NEW t \in Int, NEW o,
           NEW list, list = ResolveCases(existing, o, t)
    PROVE  /\ InSeries(list) /\ Len(list) = Len(existing)
           /\ Uniform(existing) => Uniform(list)
           /\ Keeps(existing, list)
<1>1. PICK n \in Nat : n = Len(existing) /\ DOMAIN existing = 1..n
  BY DEF InSeries
<1>2. DOMAIN list = 1..n /\ Len(list) = n
  BY <1>1 DEF ResolveCases
<1>3. ASSUME NEW i \in 1..n
      PROVE  /\ IsPair(list[i])
             /\ list[i].id = existing[i].id /\ list[i].issued = existing[i].issued
             /\ list[i].start = existing[i].start
             /\ list[i].forecasts = existing[i].forecasts
             /\ existing[i].outcome # Unknown =>
                    /\ list[i].outcome = existing[i].outcome
                    /\ list[i].resolved = existing[i].resolved
  <2>1. IsPair(existing[i])
    BY <1>1 DEF InSeries
  <2>2. list[i] = ResolveCase(existing[i], o[i], t)
    BY <1>1 DEF ResolveCases
  <2> QED
    BY <2>1, <2>2, Resolving
<1>4. ASSUME NEW i \in 1..n, NEW j \in 1..n, i < j
      PROVE  Before(list[i], list[j]) /\ list[i].id # list[j].id
  <2>1. Before(existing[i], existing[j]) /\ existing[i].id # existing[j].id
    BY <1>1, <1>4 DEF InSeries
  <2> QED
    BY <1>3, <2>1 DEF Before
<1>5. InSeries(list)
  BY <1>2, <1>3, <1>4 DEF InSeries
<1>6. Uniform(existing) => Uniform(list)
  BY <1>1, <1>2, <1>3 DEF Uniform, LeadTime
<1>7. Keeps(existing, list)
  BY <1>1, <1>2, <1>3 DEF Keeps
<1> QED
  BY <1>1, <1>2, <1>5, <1>6, <1>7

(* What a run that resolves is about to write.                             *)
LEMMA BeginResolveWrites ==
    ASSUME CollectionInv, NEW r \in Runs, NEW f \in Files, NEW covered, NEW a,
           BeginResolve(r, f, covered, a)
    PROVE  \E list : /\ runs' = [runs EXCEPT ![r] = Writing(f, list, FALSE)]
                     /\ InSeries(list) /\ Len(list) > 0
                     /\ f \in leadChanged \/ Uniform(list)
                     /\ Keeps(datasets[f], list)
<1>1. PICK existing : existing = datasets[f]
  OBVIOUS
<1>2. InSeries(existing) /\ (f \in leadChanged \/ Uniform(existing))
  BY <1>1 DEF CollectionInv
<1>3. PICK t \in Int : t = hourNow * Hour
  BY HourPositive DEF CollectionInv
<1>4. PICK o : o = [i \in DOMAIN existing |->
                       LET q == Question(existing[i])
                       IN IF q.asks.place.lat \in covered
                          THEN Observation(q.event, q.asks.place.lat, 0, q.start, q.end, a)
                          ELSE None]
  OBVIOUS
<1>5. PICK list : list = ResolveCases(existing, o, t)
  OBVIOUS
<1>6. /\ existing # <<>>
      /\ runs' = [runs EXCEPT ![r] = Writing(f, list, FALSE)]
  BY <1>1, <1>3, <1>4, <1>5 DEF BeginResolve, ResolveCases
<1>7. Len(existing) > 0
  <2>1. PICK n \in Nat : n = Len(existing) /\ DOMAIN existing = 1..n
    BY <1>2 DEF InSeries
  <2>2. CASE n = 0
    <3>1. DOMAIN existing = {}
      BY <2>1, <2>2
    <3> QED
      BY <1>6, <3>1, <2>1, <2>2
  <2> QED
    BY <2>1, <2>2
<1>8. /\ InSeries(list) /\ Len(list) = Len(existing)
      /\ Uniform(existing) => Uniform(list)
      /\ Keeps(existing, list)
  BY <1>2, <1>5, ResolvingAll
<1> QED
  BY <1>1, <1>2, <1>6, <1>7, <1>8

(* What a run that imports is about to write.                              *)
LEMMA BeginImportWrites ==
    ASSUME CollectionInv, NEW r \in Runs, NEW from \in Files, NEW into \in Files,
           BeginImport(r, from, into)
    PROVE  \E list : /\ runs' = [runs EXCEPT ![r] = Writing(into, list, from \in leadChanged)]
                     /\ InSeries(list) /\ Len(list) > 0
                     /\ from \in leadChanged \/ into \in leadChanged \/ Uniform(list)
                     /\ Keeps(datasets[into], list)
<1>1. PICK existing : existing = datasets[into]
  OBVIOUS
<1>2. PICK new : new = datasets[from]
  OBVIOUS
<1>3. PICK list : list = MergeCases(existing, new)
  OBVIOUS
<1>4. /\ InSeries(existing) /\ (into \in leadChanged \/ Uniform(existing))
      /\ InSeries(new) /\ (from \in leadChanged \/ Uniform(new))
  BY <1>1, <1>2 DEF CollectionInv
<1>5. /\ runs' = [runs EXCEPT ![r] = Writing(into, list, from \in leadChanged)]
      /\ new # <<>> /\ ~LeadChanges(existing, new)
  BY <1>1, <1>2, <1>3 DEF BeginImport
<1>6. Len(new) > 0
  <2>1. PICK n \in Nat : n = Len(new) /\ DOMAIN new = 1..n
    BY <1>4 DEF InSeries
  <2>2. CASE n = 0
    <3>1. DOMAIN new = {}
      BY <2>1, <2>2
    <3> QED
      BY <1>5, <3>1, <2>1, <2>2
  <2> QED
    BY <2>1, <2>2
<1>7. /\ InSeries(list) /\ Len(list) > 0
      /\ \A i \in 1..Len(existing) : \E j \in 1..Len(list) : list[j] = existing[i]
  BY <1>3, <1>4, <1>6, Merging
<1>8. from \in leadChanged \/ into \in leadChanged \/ Uniform(list)
  BY <1>3, <1>4, <1>5, MergingKeepsLead
<1>9. Keeps(existing, list)
  BY <1>4, <1>7 DEF Keeps, InSeries
<1> QED
  BY <1>1, <1>5, <1>7, <1>8, <1>9

(* A run that is about to write such a list keeps the invariant.           *)
LEMMA WritingIsOK ==
    ASSUME CollectionInv, NEW r \in Runs, NEW f \in Files, NEW list, NEW allowed,
           allowed \in BOOLEAN, InSeries(list), Len(list) > 0,
           allowed \/ f \in leadChanged \/ Uniform(list),
           runs' = [runs EXCEPT ![r] = Writing(f, list, allowed)],
           UNCHANGED <<hourNow, datasets, leadChanged, rejected>>
    PROVE  CollectionInv'
<1>1. PICK next : next = Writing(f, list, allowed)
  OBVIOUS
<1>2. /\ next.pc = "writing" /\ next.file = f /\ next.list = list
      /\ next.allowed <=> allowed
  BY <1>1 DEF Writing
<1>3. FetchOK(next) /\ WriteOK(next)
  BY <1>2 DEF FetchOK, WriteOK
<1> QED
  BY <1>1, <1>3, OneRunMoves

(* A file that is replaced is replaced by a list in order.                 *)
LEMMA WriteSteps ==
    ASSUME CollectionInv, NEW r \in Runs, WriteDataset(r)
    PROVE  /\ CollectionInv'
           /\ runs[r].pc = "writing" /\ runs[r].file \in Files
           /\ datasets' = [datasets EXCEPT ![runs[r].file] = runs[r].list]
           /\ runs' = [runs EXCEPT ![r] = IdleRun]
<1>1. PICK run : run = runs[r]
  OBVIOUS
<1>2. PICK f : f = run.file
  OBVIOUS
<1>3. PICK list : list = run.list
  OBVIOUS
<1>4. /\ run.pc = "writing" /\ f \in Files /\ InSeries(list) /\ Len(list) > 0
      /\ run.allowed \/ f \in leadChanged \/ Uniform(list)
  BY <1>1, <1>2, <1>3 DEF WriteDataset, CollectionInv, WriteOK
<1>5. Loadable(list)
  BY <1>4, SeriesLoads
<1>6. /\ datasets' = [datasets EXCEPT ![f] = list]
      /\ leadChanged' = IF run.allowed THEN leadChanged \cup {f} ELSE leadChanged
      /\ rejected' = rejected /\ hourNow' = hourNow
      /\ runs' = [runs EXCEPT ![r] = IdleRun]
  BY <1>1, <1>2, <1>3, <1>5 DEF WriteDataset
<1>7. DOMAIN datasets = Files /\ DOMAIN runs = Runs
  BY DEF CollectionInv
<1>8. DOMAIN datasets' = Files /\ \A g \in Files : datasets'[g] = IF g = f THEN list ELSE datasets[g]
  BY <1>6, <1>7
<1>9. \A g \in Files : InSeries(datasets'[g])
  BY <1>4, <1>8 DEF CollectionInv
<1>10. \A g \in Files : g \in leadChanged' \/ Uniform(datasets'[g])
  BY <1>4, <1>6, <1>8 DEF CollectionInv
<1>11. ASSUME NEW s \in Runs
       PROVE  (FetchOK(runs[s]) /\ WriteOK(runs[s]))'
  <2>1. FetchOK(IdleRun) /\ WriteOK(IdleRun)
    BY DEF FetchOK, WriteOK, IdleRun
  <2>2. FetchOK(runs'[s]) /\ WriteOK(runs'[s])
    BY <1>6, <1>7, <2>1 DEF CollectionInv
  <2>3. leadChanged \subseteq leadChanged'
    BY <1>6
  <2> QED
    BY <2>2, <2>3 DEF FetchOK, WriteOK
<1>12. (\A g \in Files : InSeries(datasets[g]))' /\ (\A g \in Files : g \in leadChanged \/ Uniform(datasets[g]))'
  BY <1>9, <1>10
<1>13. CollectionInv'
  BY <1>6, <1>7, <1>8, <1>11, <1>12 DEF CollectionInv
<1> QED
  BY <1>1, <1>2, <1>3, <1>4, <1>6, <1>13

(* Every step of the collection keeps its invariant.                       *)
LEMMA CollectionSteps ==
    ASSUME CollectionInv, [Next]_vars
    PROVE  CollectionInv'
<1>1. CASE UNCHANGED collectionVars
  BY <1>1 DEF CollectionInv, FetchOK, WriteOK, collectionVars
<1>2. ASSUME NEW r \in Runs, NEW f \in Files, NEW lead \in Leads, NEW allowed \in BOOLEAN,
             BeginCollect(r, f, lead, allowed)
      PROVE  CollectionInv'
  <2>1. PICK run : run = [pc |-> "fetching", file |-> f, lead |-> lead,
                          allowed |-> allowed, issued |-> hourNow * Hour]
    OBVIOUS
  <2>2. hourNow * Hour \in Int
    BY HourPositive DEF CollectionInv
  <2>3. FetchOK(run) /\ WriteOK(run)
    BY <2>1, <2>2 DEF FetchOK, WriteOK
  <2>4. runs' = [runs EXCEPT ![r] = run] /\ UNCHANGED <<hourNow, datasets, leadChanged, rejected>>
    BY <1>2, <2>1 DEF BeginCollect
  <2> QED
    BY <2>3, <2>4, OneRunMoves
<1>3. ASSUME NEW r \in Runs, NEW f \in Files, NEW covered, NEW a,
             BeginResolve(r, f, covered, a)
      PROVE  CollectionInv'
  <2>1. PICK list : /\ runs' = [runs EXCEPT ![r] = Writing(f, list, FALSE)]
                    /\ InSeries(list) /\ Len(list) > 0
                    /\ f \in leadChanged \/ Uniform(list)
    BY <1>3, BeginResolveWrites
  <2>2. UNCHANGED <<hourNow, datasets, leadChanged, rejected>>
    BY <1>3 DEF BeginResolve
  <2> QED
    BY <2>1, <2>2, WritingIsOK
<1>4. ASSUME NEW r \in Runs, NEW from \in Files, NEW into \in Files, BeginImport(r, from, into)
      PROVE  CollectionInv'
  <2>1. PICK list : /\ runs' = [runs EXCEPT ![r] = Writing(into, list, from \in leadChanged)]
                    /\ InSeries(list) /\ Len(list) > 0
                    /\ from \in leadChanged \/ into \in leadChanged \/ Uniform(list)
    BY <1>4, BeginImportWrites
  <2>2. UNCHANGED <<hourNow, datasets, leadChanged, rejected>>
    BY <1>4 DEF BeginImport
  <2>3. CASE from \in leadChanged
    <3>1. (from \in leadChanged) = TRUE
      BY <2>3
    <3>2. runs' = [runs EXCEPT ![r] = Writing(into, list, TRUE)]
      BY <2>1, <3>1
    <3> QED
      BY <2>1, <2>2, <3>2, WritingIsOK
  <2>4. CASE from \notin leadChanged
    <3>1. (from \in leadChanged) = FALSE
      BY <2>4
    <3>2. runs' = [runs EXCEPT ![r] = Writing(into, list, FALSE)]
      BY <2>1, <3>1
    <3> QED
      BY <2>1, <2>2, <2>4, <3>2, WritingIsOK
  <2> QED
    BY <2>3, <2>4
<1>5. ASSUME NEW r \in Runs, RunEnds(r)
      PROVE  CollectionInv'
  <2>1. FetchOK(IdleRun) /\ WriteOK(IdleRun)
    BY DEF FetchOK, WriteOK, IdleRun
  <2> QED
    BY <1>5, <2>1, OneRunMoves DEF RunEnds
<1>6. CASE HourPasses
  BY <1>6 DEF HourPasses, CollectionInv, FetchOK, WriteOK
<1> QED
  BY <1>1, <1>2, <1>3, <1>4, <1>5, <1>6, CollectedSteps, WriteSteps, CollectionOrNot

(* The files are in order, at all times.                                   *)
LEMMA CollectionHolds == Spec => []CollectionInv
<1>1. CollectionInv /\ [Next]_vars => CollectionInv'
  BY CollectionSteps
<1> QED
  BY <1>1, CollectionInitially, PTL DEF Spec

(* SeriesGoesOn: whatever runs overlap, no run is refused by the loader    *)
(* for what earlier runs wrote, and a file whose lead nobody allowed to    *)
(* change has one; for every number of files, runs and locations.          *)
THEOREM SeriesNeverStops == Spec => []SeriesGoesOn
<1>1. CollectionInv => SeriesGoesOn
  BY DEF CollectionInv, SeriesGoesOn, InSeries, Uniform
<1> QED
  BY <1>1, CollectionHolds, PTL

(* Runs at work are on different files, and what one is about to write     *)
(* keeps what is in its file.                                              *)
AloneInv ==
    /\ \A r, s \in Runs : r # s /\ runs[r].pc # "idle" /\ runs[s].pc # "idle" =>
           runs[r].file # runs[s].file
    /\ \A r \in Runs : runs[r].pc = "writing" => Keeps(datasets[runs[r].file], runs[r].list)

(* A run that goes on with the file it has, or with one nobody has.        *)
LEMMA AloneMoves ==
    ASSUME CollectionInv, AloneInv, NEW r \in Runs, NEW run,
           runs' = [runs EXCEPT ![r] = run], datasets' = datasets,
           \/ run.pc = "idle"
           \/ runs[r].pc # "idle" /\ run.file = runs[r].file
           \/ \A s \in Runs : runs[s].file # run.file,
           run.pc = "writing" => Keeps(datasets[run.file], run.list)
    PROVE  AloneInv'
<1>1. \A s \in Runs : runs'[s] = IF s = r THEN run ELSE runs[s]
  BY DEF CollectionInv
<1>2. \A s, u \in Runs : s # u /\ runs'[s].pc # "idle" /\ runs'[u].pc # "idle" =>
          runs'[s].file # runs'[u].file
  BY <1>1 DEF AloneInv
<1>3. \A s \in Runs : runs'[s].pc = "writing" =>
          Keeps(datasets'[runs'[s].file], runs'[s].list)
  BY <1>1 DEF AloneInv
<1> QED
  BY <1>2, <1>3 DEF AloneInv, Keeps

(* Every step that is serialised keeps runs apart.                         *)
LEMMA AloneSteps ==
    ASSUME Serialised, CollectionInv, AloneInv, [Next]_vars
    PROVE  AloneInv'
<1>1. CASE UNCHANGED collectionVars
  BY <1>1 DEF AloneInv, Keeps, collectionVars
<1>2. ASSUME NEW r \in Runs, NEW f \in Files, Starts(r, f)
      PROVE  \A s \in Runs : runs[s].file # f
  BY <1>2 DEF Starts
<1>3. ASSUME NEW r \in Runs, NEW f \in Files, NEW list, NEW allowed, Starts(r, f),
             runs' = [runs EXCEPT ![r] = Writing(f, list, allowed)],
             datasets' = datasets, Keeps(datasets[f], list)
      PROVE  AloneInv'
  <2>1. PICK next : next = Writing(f, list, allowed)
    OBVIOUS
  <2>2. next.file = f /\ next.list = list
    BY <2>1 DEF Writing
  <2>3. \A s \in Runs : runs[s].file # next.file
    BY <1>2, <1>3, <2>2
  <2>4. Keeps(datasets[next.file], next.list) /\ runs' = [runs EXCEPT ![r] = next]
    BY <1>3, <2>1, <2>2
  <2> QED
    BY <1>3, <2>3, <2>4, AloneMoves
<1>4. ASSUME NEW r \in Runs, NEW f \in Files, NEW lead \in Leads, NEW allowed \in BOOLEAN,
             BeginCollect(r, f, lead, allowed)
      PROVE  AloneInv'
  <2>1. PICK run : run = [pc |-> "fetching", file |-> f, lead |-> lead,
                          allowed |-> allowed, issued |-> hourNow * Hour]
    OBVIOUS
  <2>2. run.pc = "fetching" /\ run.file = f
    BY <2>1
  <2>3. runs' = [runs EXCEPT ![r] = run] /\ datasets' = datasets /\ Starts(r, f)
    BY <1>4, <2>1 DEF BeginCollect
  <2>4. \A s \in Runs : runs[s].file # run.file
    BY <1>2, <2>2, <2>3
  <2> QED
    BY <2>2, <2>3, <2>4, AloneMoves
<1>5. ASSUME NEW r \in Runs, NEW f \in Files, NEW covered, NEW a,
             BeginResolve(r, f, covered, a)
      PROVE  AloneInv'
  <2>1. PICK list : /\ runs' = [runs EXCEPT ![r] = Writing(f, list, FALSE)]
                    /\ Keeps(datasets[f], list)
    BY <1>5, BeginResolveWrites
  <2>2. datasets' = datasets /\ Starts(r, f)
    BY <1>5 DEF BeginResolve
  <2> QED
    BY <1>3, <2>1, <2>2
<1>6. ASSUME NEW r \in Runs, NEW from \in Files, NEW into \in Files, BeginImport(r, from, into)
      PROVE  AloneInv'
  <2>1. PICK list : /\ runs' = [runs EXCEPT ![r] = Writing(into, list, from \in leadChanged)]
                    /\ Keeps(datasets[into], list)
    BY <1>6, BeginImportWrites
  <2>2. datasets' = datasets /\ Starts(r, into)
    BY <1>6 DEF BeginImport
  <2> QED
    BY <1>3, <2>1, <2>2
<1>7. ASSUME NEW r \in Runs, NEW answers \in [1..NLocations -> PairForecasts],
             Collected(r, answers)
      PROVE  AloneInv'
  <2>1. PICK run : run = runs[r]
    OBVIOUS
  <2>2. /\ run.pc = "fetching" /\ run.file \in Files /\ run.lead \in Leads
        /\ run.issued \in Int
    BY <1>7, <2>1 DEF Collected, CollectionInv, FetchOK
  <2>3. PICK existing : existing = datasets[run.file]
    OBVIOUS
  <2>4. PICK new : new = CollectOnce(run.issued, run.lead, answers)
    OBVIOUS
  <2>5. PICK list : list = MergeCases(existing, new)
    OBVIOUS
  <2>6. PICK next : next = Writing(run.file, list, run.allowed)
    OBVIOUS
  <2>7. /\ runs' = [runs EXCEPT ![r] =
               IF LeadChanges(existing, new) /\ ~run.allowed THEN IdleRun ELSE next]
        /\ datasets' = datasets
    BY <1>7, <2>1, <2>3, <2>4, <2>5, <2>6 DEF Collected
  <2>8. CASE LeadChanges(existing, new) /\ ~run.allowed
    <3>1. IdleRun.pc = "idle" /\ IdleRun.pc # "writing"
      BY DEF IdleRun
    <3>2. runs' = [runs EXCEPT ![r] = IdleRun]
      BY <2>7, <2>8
    <3> QED
      BY <2>7, <3>1, <3>2, AloneMoves
  <2>9. CASE ~(LeadChanges(existing, new) /\ ~run.allowed)
    <3>1. InSeries(existing) /\ InSeries(new)
      BY <2>2, <2>3, <2>4, Collecting DEF CollectionInv
    <3>2. /\ InSeries(list)
          /\ \A i \in 1..Len(existing) : \E j \in 1..Len(list) : list[j] = existing[i]
      BY <2>5, <3>1, Merging
    <3>3. Keeps(existing, list)
      BY <3>1, <3>2 DEF Keeps, InSeries
    <3>4. next.file = run.file /\ next.list = list
      BY <2>6 DEF Writing
    <3>5. runs' = [runs EXCEPT ![r] = next]
      BY <2>7, <2>9
    <3>6. Keeps(datasets[next.file], next.list)
      BY <2>3, <3>3, <3>4
    <3>7. runs[r].pc # "idle" /\ next.file = runs[r].file
      BY <2>1, <2>2, <3>4
    <3> QED
      BY <2>7, <3>5, <3>6, <3>7, AloneMoves
  <2> QED
    BY <2>8, <2>9
<1>8. ASSUME NEW r \in Runs, WriteDataset(r)
      PROVE  AloneInv'
  <2>1. /\ runs[r].pc = "writing" /\ runs[r].file \in Files
        /\ datasets' = [datasets EXCEPT ![runs[r].file] = runs[r].list]
        /\ runs' = [runs EXCEPT ![r] = IdleRun]
    BY <1>8, WriteSteps
  <2>2. \A s \in Runs : runs'[s] = IF s = r THEN IdleRun ELSE runs[s]
    BY <2>1 DEF CollectionInv
  <2>3. IdleRun.pc = "idle"
    BY DEF IdleRun
  <2>4. ASSUME NEW s \in Runs, runs'[s].pc = "writing"
        PROVE  Keeps(datasets'[runs'[s].file], runs'[s].list)
    <3>1. s # r /\ runs'[s] = runs[s]
      BY <2>2, <2>3, <2>4
    <3>2. runs[s].file # runs[r].file
      BY <2>1, <2>4, <3>1 DEF AloneInv
    <3>3. datasets'[runs[s].file] = datasets[runs[s].file]
      <4>1. runs[s].file \in Files
        BY <2>4, <3>1 DEF CollectionInv, WriteOK
      <4> QED
        BY <2>1, <3>2, <4>1 DEF CollectionInv
    <3> QED
      BY <2>4, <3>1, <3>3 DEF AloneInv
  <2>5. \A s, u \in Runs : s # u /\ runs'[s].pc # "idle" /\ runs'[u].pc # "idle" =>
            runs'[s].file # runs'[u].file
    BY <2>2, <2>3 DEF AloneInv
  <2> QED
    BY <2>4, <2>5 DEF AloneInv, Keeps
<1>9. ASSUME NEW r \in Runs, RunEnds(r)
      PROVE  AloneInv'
  <2>1. IdleRun.pc = "idle" /\ IdleRun.pc # "writing"
    BY DEF IdleRun
  <2>2. runs' = [runs EXCEPT ![r] = IdleRun] /\ datasets' = datasets
    BY <1>9 DEF RunEnds
  <2> QED
    BY <2>1, <2>2, AloneMoves
<1>10. CASE HourPasses
  BY <1>10 DEF HourPasses, AloneInv, Keeps
<1> QED
  BY <1>1, <1>4, <1>5, <1>6, <1>7, <1>8, <1>9, <1>10, CollectionOrNot

(* A step that changes a file replaces it by a list that keeps it.         *)
LEMMA FilesKept ==
    ASSUME CollectionInv, AloneInv, [Next]_vars, NEW f \in Files
    PROVE  Keeps(datasets[f], datasets'[f])
<1>1. Keeps(datasets[f], datasets[f])
  BY DEF Keeps
<1>2. CASE datasets' = datasets
  BY <1>1, <1>2
<1>3. ASSUME NEW r \in Runs, WriteDataset(r)
      PROVE  Keeps(datasets[f], datasets'[f])
  <2>1. /\ runs[r].pc = "writing" /\ runs[r].file \in Files
        /\ datasets' = [datasets EXCEPT ![runs[r].file] = runs[r].list]
    BY <1>3, WriteSteps
  <2>2. CASE f = runs[r].file
    BY <2>1, <2>2 DEF AloneInv, CollectionInv
  <2>3. CASE f # runs[r].file
    BY <1>1, <2>1, <2>3 DEF CollectionInv
  <2> QED
    BY <2>2, <2>3
<1>4. datasets' = datasets \/ \E r \in Runs : WriteDataset(r)
  BY CollectionOrNot
     DEF collectionVars, BeginCollect, BeginResolve, BeginImport, Collected, RunEnds, HourPasses
<1> QED
  BY <1>2, <1>3, <1>4

(* CollectedIsKept: a case that is in a file stays there with its first    *)
(* outcome, for any number of files and of runs that die anywhere, as long *)
(* as the runs on one file are kept apart.                                 *)
THEOREM SerialisedRunsKeep ==
    ASSUME Serialised
    PROVE  Spec => CollectedIsKept
<1>1. Init => AloneInv
  <2>1. SUFFICES ASSUME Init PROVE AloneInv
    OBVIOUS
  <2>2. \A r \in Runs : runs[r].pc = "idle"
    BY <2>1 DEF Init, CollectionInit, IdleRun
  <2> QED
    BY <2>2 DEF AloneInv
<1>2. CollectionInv /\ AloneInv /\ [Next]_vars => AloneInv'
  BY AloneSteps
<1>3. CollectionInv /\ AloneInv /\ [Next]_vars =>
          [\A f \in Files : \A i \in DOMAIN datasets[f] :
               \E j \in DOMAIN datasets'[f] :
                   LET old == datasets[f][i]
                       new == datasets'[f][j]
                   IN /\ new.id = old.id
                      /\ new.start = old.start /\ new.forecasts = old.forecasts
                      /\ old.outcome # Unknown =>
                             new.outcome = old.outcome /\ new.resolved = old.resolved]_vars
  BY FilesKept DEF Keeps
<1> QED
  BY <1>1, <1>2, <1>3, CollectionHolds, PTL DEF Spec, CollectedIsKept
=============================================================================
