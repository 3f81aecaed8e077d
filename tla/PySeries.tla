---------------------------- MODULE PySeries ----------------------------
(* The Python series classes (infrastore-py lib.rs) over the constructors  *)
(* of types/time_series.rs: each takes datetimes, periods and either an    *)
(* array or a list of values, and says what reference and element type it  *)
(* took them to have.  Values fill an array in row-major order.            *)
EXTENDS Spellings, Elements

\* Arguments of every constructor; each uses those its signature has.
Built(series, array, et, r) ==
  [ok |-> TRUE, series |-> series, array |-> array, element_type |-> et, reference |-> r]

\* DescriptorArgs::resolve, then apply_descriptors.
Described(a, series, array, et, inferred) ==
  LET r == resolve_reference(a.reference, inferred) IN
  IF r = BadReference THEN Refused
  ELSE Built(series, array, IF a.element_type = Undeclared THEN et ELSE a.element_type, r)

\* A forecast over the arguments' first datetime.
ForecastOf(type, a, shape) ==
  Forecast(type, extract(a.dts[1]).instant, a.resolution, a.horizon, a.interval, a.count,
           a.percentiles, a.scenarios, shape)

\* The leading axes of each type's array, NoCount among them when there are none.
Axes(type, a) ==
  LET h == compute_h(a.horizon, a.resolution) IN
  CASE type = "Deterministic" -> <<h, a.count>>
    [] type = "Probabilistic" -> <<Len(a.percentiles), h, a.count>>
    [] type = "Scenarios"     -> <<a.scenarios, h, a.count>>

\* `new` of the three forecast classes: an array of the caller's shape.
NewForecast(type, a) ==
  LET f == ForecastOf(type, a, a.shape) IN
  IF extract(a.dts[1]).reference = BadReference \/ ~validate_forecast(f) THEN Refused
  ELSE Described(a, f, StoredArray(f), Scalar, extract(a.dts[1]).reference)

PyDeterministic_new(a) == NewForecast("Deterministic", a)
PyProbabilistic_new(a) == NewForecast("Probabilistic", a)

\* The scenarios are counted off the array's first axis.
PyScenarios_new(a) ==
  IF a.shape = <<>> THEN Refused
  ELSE NewForecast("Scenarios", [a EXCEPT !.scenarios = a.shape[1]])

\* `from_values` of the three, through the core's encode_with_type: one packed row for
\* each cell of the leading axes.
ForecastOver(type, a, axes, v) ==
  LET f == ForecastOf(type, a, Append(axes, v.array.width)) IN
  IF ~v.ok THEN Refused
  ELSE IF ~validate_forecast(f) THEN Refused
  ELSE Described(a, f, v.array, v.element_type, extract(a.dts[1]).reference)

ForecastFromValues(type, a) ==
  LET axes == Axes(type, a) IN
  IF extract(a.dts[1]).reference = BadReference THEN Refused
  ELSE IF NoCount \in Range(axes) THEN Refused
  ELSE ForecastOver(type, a, axes, from_values(a.rows, a.element_type, Product(axes)))

PyDeterministic_from_values(a) == ForecastFromValues("Deterministic", a)
PyProbabilistic_from_values(a) == ForecastFromValues("Probabilistic", a)
PyScenarios_from_values(a)     == ForecastFromValues("Scenarios", a)

\* PySingleTimeSeries: `new` checks nothing of its grid.
PySingle_new(a) ==
  IF extract(a.dts[1]).reference = BadReference THEN Refused
  ELSE Described(a, Single(extract(a.dts[1]).instant, a.resolution, a.shape[1], FALSE),
                 StoredArray(a), Scalar, extract(a.dts[1]).reference)

PySingle_from_timestamps(a) ==
  LET inferred == vector_reference(a.dts)
      s        == from_timestamps([i \in DOMAIN a.dts |-> extract(a.dts[i]).instant], a.shape[1])
  IN IF inferred = BadReference THEN Refused
     ELSE IF ~s.ok THEN Refused
     ELSE Described(a, s.series, StoredArray(a), Scalar, inferred)

SingleOver(a, v) ==
  IF ~v.ok THEN Refused
  ELSE Described(a, Single(extract(a.dts[1]).instant, a.resolution, Len(a.rows), FALSE),
                 v.array, v.element_type, extract(a.dts[1]).reference)

PySingle_from_values(a) ==
  IF extract(a.dts[1]).reference = BadReference THEN Refused
  ELSE SingleOver(a, from_values(a.rows, a.element_type, Len(a.rows)))

\* The irregular classes' core constructor.
NewIrregular(type, a, n, array, et) ==
  LET ts == [i \in DOMAIN a.dts |-> extract(a.dts[i]).instant] IN
  IF vector_reference(a.dts) = BadReference THEN Refused
  ELSE IF Len(ts) # n \/ ~Increasing(ts) THEN Refused
  ELSE Described(a, Irregular(type, ts, FALSE), array, et, vector_reference(a.dts))

Irregular_new(type, a) == NewIrregular(type, a, a.shape[1], StoredArray(a), Scalar)

Irregular_from_values(type, a) ==
  LET v == from_values(a.rows, a.element_type, Len(a.rows)) IN
  IF ~v.ok THEN Refused ELSE NewIrregular(type, a, Len(a.rows), v.array, v.element_type)

\* What the getters spell back.
timestamps(built) ==
  [k \in DOMAIN Instants(built.series) |-> spell_instant(Instants(built.series)[k], built.reference)]

initial_timestamp(built) == spell_instant(built.series.initial, built.reference)

\* Deterministic.to_arrow_windows: a table for each window, its column the window's rows
\* of the array turned window first.
to_arrow_windows(built) ==
  LET f == built.series
      h == compute_h(f.horizon, f.resolution)
  IN [k \in 0..(f.count - 1) |->
        [stamps |-> [s \in 1..h |-> window_timestamp(f, f.initial, k, s - 1)],
         column |-> [s \in 1..h |-> built.array.rows[(s - 1) * f.count + k + 1]],
         zone   |-> arrow_timestamp_type(built.reference)]]

\* PyPersistentTimeSeries.value_at, index_at, breakpoint_at: the point is spelled the way
\* the series is, or refused.
PointAt(built, at) ==
  IF extract(at).reference = BadReference THEN Refused
  ELSE IF (extract(at).reference = Zoneless) # (built.reference = Zoneless) THEN Refused
  ELSE IF row_at(built.series.timestamps, extract(at).instant) < 0 THEN Refused
  ELSE LET k == row_at(built.series.timestamps, extract(at).instant) IN
       [ok |-> TRUE, index |-> k,
        breakpoint |-> spell_instant(built.series.timestamps[k + 1], built.reference)]
=============================================================================
