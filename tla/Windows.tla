----------------------------- MODULE Windows -----------------------------
(* Reads by time (store.rs): how a time range, or a window of so many      *)
(* steps, selects rows of each kind of series, and how a transform derives *)
(* a forecast view of a series.  A read returns the half-open run of rows  *)
(* (or forecast windows) lo..hi-1 and the instant the result starts at.    *)
EXTENDS Periods, SequencesExt

\* An InvalidParameter, and an IntegrityError.
Refused           == [ok |-> FALSE]
Corrupt           == [ok |-> FALSE, corrupt |-> TRUE]
Rows(lo, hi, at)  == [ok |-> TRUE, lo |-> lo, hi |-> hi, initial |-> at]
Holding(w, array) == [ok |-> TRUE, lo |-> w.lo, hi |-> w.hi, initial |-> w.initial, array |-> array]

\* TimeRange: half-open, and spelled with or without a zone.
TimeRange(s, e, zoneless) == [start |-> s, end |-> e, zoneless |-> zoneless]

\* TimeRange::check_against: bounds are spelled the way the series is.
check_against(range, series) == range.zoneless = series.zoneless

Single(initial, resolution, length, zoneless) ==
  [type |-> "SingleTimeSeries", initial |-> initial, resolution |-> resolution,
   length |-> length, zoneless |-> zoneless]

Irregular(type, timestamps, zoneless) ==
  [type |-> type, timestamps |-> timestamps, zoneless |-> zoneless]

\* Probabilistic forecasts have percentiles, Scenarios a scenario count, Deterministic
\* ones neither.  The shape is that of the flat row-major array.
Forecast(type, initial, resolution, horizon, interval, count, percentiles, scenarios, shape) ==
  [type |-> type, initial |-> initial, resolution |-> resolution, horizon |-> horizon,
   interval |-> interval, count |-> count, percentiles |-> percentiles,
   scenario_count |-> scenarios, shape |-> shape, zoneless |-> FALSE]

-----------------------------------------------------------------------------
(* validate_data: what a write accepts. *)

Increasing(ts) == \A i \in 1..(Len(ts) - 1) : ts[i] < ts[i + 1]

\* The calendar's years are all within 0-9999.
require_ms(t) == WholeMs(t)

validate_single(series) == require_ms(series.initial) /\ is_positive(series.resolution)

validate_non_sequential(series) ==
  /\ Increasing(series.timestamps)
  /\ \A i \in DOMAIN series.timestamps : WholeMs(series.timestamps[i])

validate_persistent(series) == validate_non_sequential(series)

compute_h(horizon, resolution) == divide_into(resolution, horizon)

validate_forecast_periods(f) ==
  /\ is_positive(f.resolution) /\ is_positive(f.horizon)
  /\ is_positive(f.interval) \/ (f.count <= 1 /\ is_zero(f.interval))

validate_forecast_shape(shape, prefix) ==
  Len(shape) >= Len(prefix) /\ \A i \in DOMAIN prefix : shape[i] = prefix[i]

\* leading_dims: the axes in front of an element's own.
leading_dims(type) == IF type \in {"Probabilistic", "Scenarios"} THEN 3
                      ELSE IF type = "Deterministic" THEN 2 ELSE 1

validate_array_geometry(f) ==
  \A i \in DOMAIN f.shape : i > leading_dims(f.type) => f.shape[i] # 0

ValidDeterministic(f) ==
  LET h == compute_h(f.horizon, f.resolution) IN
  /\ validate_forecast_periods(f)
  /\ h # NoCount /\ validate_forecast_shape(f.shape, <<h, f.count>>)

ValidProbabilistic(f) ==
  LET h == compute_h(f.horizon, f.resolution) IN
  /\ validate_forecast_periods(f)
  /\ f.percentiles # <<>> /\ Increasing(f.percentiles)
  /\ h # NoCount /\ validate_forecast_shape(f.shape, <<Len(f.percentiles), h, f.count>>)

ValidScenarios(f) ==
  LET h == compute_h(f.horizon, f.resolution) IN
  /\ validate_forecast_periods(f)
  /\ h # NoCount /\ validate_forecast_shape(f.shape, <<f.scenario_count, h, f.count>>)

validate_forecast(f) ==
  CASE f.type = "Deterministic" -> ValidDeterministic(f)
    [] f.type = "Probabilistic" -> ValidProbabilistic(f)
    [] f.type = "Scenarios"     -> ValidScenarios(f)

validate_data(series) ==
  CASE series.type = "SingleTimeSeries"        -> validate_single(series)
    [] series.type = "NonSequentialTimeSeries" -> validate_non_sequential(series)
    [] series.type = "PersistentTimeSeries"    -> validate_persistent(series)
    [] OTHER -> /\ validate_array_geometry(series)
                /\ require_ms(series.initial) /\ validate_forecast(series)

\* SingleTimeSeries::from_timestamps: the grid the instants are proved to lie on.
GridOver(ts, length, period) ==
  IF period = NoPeriod THEN Refused
  ELSE [ok |-> TRUE, series |-> Single(ts[1], period, length, FALSE)]

from_timestamps(ts, length) ==
  IF Len(ts) # length THEN Refused ELSE GridOver(ts, length, infer(ts))

\* timestamp_on_grid, timestamp_at.
timestamp_at(series, k) ==
  IF k < series.length THEN add_to(series.resolution, series.initial, k) ELSE NoInstant

-----------------------------------------------------------------------------
(* materialize_array *)

\* partition_point(|t| t < x) on an increasing vector.
Before(ts, x) == Cardinality({i \in DOMAIN ts : ts[i] < x})

\* timestamps::index_at, 0-based: the last breakpoint at or before x, or -1.
index_at(ts, x) == Cardinality({i \in DOMAIN ts : ts[i] <= x}) - 1

\* PersistentTimeSeries::index_at, value_at, row_at: the row in force.
row_at(ts, x) == index_at(ts, x)

\* The step that covers start, up to the first step at or past end.
FirstStep(series, range) ==
  Min({floor_steps(series.resolution, series.initial, range.start), series.length})

EndStep(series, range, lo) ==
  Max({Min({ceil_steps(series.resolution, series.initial, range.end), series.length}), lo})

\* The rows lo..hi-1, as a series that starts at the first of them.
SliceOf(series, lo, hi, at) ==
  IF at = NoInstant THEN Corrupt
  ELSE IF ~sub_grid_is_anchorable(series.resolution, series.initial, lo, hi - lo) THEN Refused
  ELSE Rows(lo, hi, at)

SliceFrom(series, range, lo) ==
  SliceOf(series, lo, EndStep(series, range, lo), add_to(series.resolution, series.initial, lo))

ReadSingle(series, range) ==
  IF range.end < range.start \/ ~is_positive(series.resolution) THEN Refused
  ELSE SliceFrom(series, range, FirstStep(series, range))

ReadNonSequential(series, range) ==
  IF range.end < range.start THEN Refused
  ELSE Rows(Before(series.timestamps, range.start), Before(series.timestamps, range.end),
            range.start)

\* A step function has a value at the range's start: the breakpoint in force.
ReadPersistent(series, range) ==
  LET ts == series.timestamps
      at == Before(ts, range.start)
  IN IF range.end < range.start THEN Refused
     ELSE IF range.end = range.start THEN Rows(at, at, range.start)
     ELSE IF index_at(ts, range.start) < 0 THEN Refused
     ELSE Rows(index_at(ts, range.start), Before(ts, range.end), range.start)

\* resolve_windows: which windows start in the range.  The binary search finds the
\* first window at or past end; a window start that cannot be represented is reported as
\* an integrity error, although it says nothing of what is stored.
Lost == [lo |-> -1, hi |-> -1]

\* One turn of its loop.
Halved(series, end, b) ==
  LET mid   == b.lo + ((b.hi - b.lo) \div 2)
      start == add_to(series.interval, series.initial, mid)
  IN IF b.lo >= b.hi THEN b
     ELSE IF start = NoInstant THEN Lost
     ELSE IF start < end THEN [lo |-> mid + 1, hi |-> b.hi] ELSE [lo |-> b.lo, hi |-> mid]

\* Each turn leaves fewer windows to search, so as many turns as windows are enough.
SearchEnd(series, from, end) ==
  LET turn[n \in 0..series.count] ==
        IF n = 0 THEN [lo |-> from, hi |-> series.count] ELSE Halved(series, end, turn[n - 1])
  IN turn[series.count].lo

\* The windows from..to-1, as a forecast that starts at the first of them.
WindowRun(series, from, to, at) ==
  IF to = -1 \/ at = NoInstant THEN Corrupt
  ELSE IF to <= from THEN Rows(0, 0, at)
  ELSE IF ~sub_grid_is_anchorable(series.interval, series.initial, from, to - from) THEN Refused
  ELSE Rows(from, to, at)

WindowsFrom(series, range, from) ==
  IF from = NoStep \/ from >= series.count THEN Refused
  ELSE WindowRun(series, from, SearchEnd(series, from, range.end),
                 add_to(series.interval, series.initial, from))

resolve_windows(series, range) ==
  IF range.end < range.start THEN Refused
  ELSE IF is_positive(series.interval)
  THEN WindowsFrom(series, range, IF range.start <= series.initial THEN 0
                                  ELSE steps_between(series.interval, series.initial, range.start))
  ELSE IF series.count = 1 /\ is_zero(series.interval) /\ range.start <= series.initial
  THEN Rows(0, IF series.initial < range.end THEN 1 ELSE 0, series.initial)
  ELSE Refused

-----------------------------------------------------------------------------
(* Arrays: a shape and the cells in row-major order. *)

Product(dims) ==
  LET upTo[i \in 0..Len(dims)] == IF i = 0 THEN 1 ELSE upTo[i - 1] * dims[i]
  IN upTo[Len(dims)]

\* write_window_block: `len` windows from `start` along an axis, one run per outer index.
write_window_block(array, axis, start, len) ==
  LET n     == array.shape[axis + 1]
      outer == Product(SubSeq(array.shape, 1, axis))
      inner == Product(SubSeq(array.shape, axis + 2, Len(array.shape)))
  IN FlattenSeq([o \in 1..outer |->
       SubSeq(array.cells, ((o - 1) * n + start) * inner + 1, ((o - 1) * n + start + len) * inner)])

\* Every window is the whole array; TypedArray::new checks the cells fill the shape.
read_forecast_windows(array, axis, lo, hi) ==
  IF lo = 0 /\ hi = array.shape[axis + 1] THEN array
  ELSE LET cells == write_window_block(array, axis, lo, hi - lo)
           shape == [array.shape EXCEPT ![axis + 1] = hi - lo]
       IN IF Len(cells) = Product(shape) THEN [shape |-> shape, cells |-> cells] ELSE Corrupt

\* The stored array of a forecast, each cell a value of its own.
StoredArray(f) == [shape |-> f.shape, cells |-> [i \in 1..Product(f.shape) |-> i]]

\* The forecast rebuilt around the windows read is validated again, and a failure there
\* reports the store as corrupt.
Rebuilt(f, w, array) ==
  IF array = Corrupt THEN Corrupt
  ELSE IF ~validate_forecast([f EXCEPT !.initial = w.initial, !.count = w.hi - w.lo,
                                       !.shape = array.shape]) THEN Corrupt
  ELSE Holding(w, array)

ReadResolved(f, w) ==
  IF ~w.ok THEN w
  ELSE Rebuilt(f, w, read_forecast_windows(StoredArray(f), leading_dims(f.type) - 1, w.lo, w.hi))

ReadForecast(f, range) ==
  IF compute_h(f.horizon, f.resolution) = NoCount THEN Corrupt
  ELSE ReadResolved(f, resolve_windows(f, range))

materialize_array(series, range) ==
  IF ~check_against(range, series) THEN Refused
  ELSE CASE series.type = "SingleTimeSeries"        -> ReadSingle(series, range)
         [] series.type = "NonSequentialTimeSeries" -> ReadNonSequential(series, range)
         [] series.type = "PersistentTimeSeries"    -> ReadPersistent(series, range)
         [] OTHER                                   -> ReadForecast(series, range)

-----------------------------------------------------------------------------
(* ReadWindow: a start on the grid and a number of steps or windows. *)

NoStart == -1
Unset   == -1

\* extent: the number of rows asked for, or the rest; -1 for an error.
extent(requested, from, total) ==
  LET n == IF requested = Unset THEN total - from ELSE requested
  IN IF n = 0 \/ n > total - from THEN -1 ELSE n

\* A window's range, unless its end cannot be represented.  The bound is spelled as the
\* caller spelled its start, and as the series is when there is none.
Spelled(window, series, s, e) ==
  IF e = NoInstant THEN Corrupt
  ELSE [ok |-> TRUE, range |-> TimeRange(s, e, IF window.start = NoStart THEN series.zoneless
                                               ELSE window.zoneless)]

StartOf(window, initial) == IF window.start = NoStart THEN initial ELSE window.start

\* n steps of p from the start, of `total` on the grid from its step `from`.
Stepped(window, series, p, start, from, n, total) ==
  IF from = NoStep THEN Refused
  ELSE IF from >= total \/ n = -1 THEN Refused
  ELSE Spelled(window, series, start,
               IF is_zero(p) THEN checked_add_signed(start, Sub) ELSE add_to(p, start, n))

SteppedFrom(window, series, p, start, from, requested, total) ==
  Stepped(window, series, p, start, from, extent(requested, from, total), total)

resolve_single(window, series) ==
  IF window.count # Unset THEN Refused
  ELSE SteppedFrom(window, series, series.resolution, StartOf(window, series.initial),
                   steps_between(series.resolution, series.initial, StartOf(window, series.initial)),
                   window.len, series.length)

\* Fault: the range ends at the last row instead of just past it.
EndAtLastRow(ts, k) == IF k < Len(ts) THEN ts[k + 1] ELSE ts[Len(ts)]

\* The exclusive end of the rows before row k.
end_after(ts, k) == IF k < Len(ts) THEN ts[k + 1] ELSE checked_add_signed(ts[Len(ts)], Sub)

resolve_non_sequential(window, series) ==
  LET ts    == series.timestamps
      total == Len(ts)
      start == IF window.start = NoStart THEN ts[1] ELSE window.start
      from  == Before(ts, start)
      n     == extent(window.len, from, total)
  IN IF window.count # Unset \/ total = 0 THEN Refused
     ELSE IF from >= total THEN Refused
     ELSE IF ts[from + 1] # start \/ n = -1 THEN Refused
     ELSE Spelled(window, series, start, end_after(ts, from + n))

WindowAtStart(series, start) ==
  IF ~is_zero(series.interval) THEN steps_between(series.interval, series.initial, start)
  ELSE IF start = series.initial THEN 0 ELSE NoStep

resolve_forecast(window, series) ==
  IF window.len # Unset THEN Refused
  ELSE SteppedFrom(window, series, series.interval, StartOf(window, series.initial),
                   WindowAtStart(series, StartOf(window, series.initial)),
                   window.count, series.count)

\* ReadWindow::resolve for a window that is not full.
resolve(window, series) ==
  CASE series.type = "SingleTimeSeries" -> resolve_single(window, series)
    [] series.type \in {"NonSequentialTimeSeries", "PersistentTimeSeries"} ->
         resolve_non_sequential(window, series)
    [] OTHER -> resolve_forecast(window, series)

-----------------------------------------------------------------------------
(* A forecast view of a SingleTimeSeries. *)

\* Fault: only the first window's dates are compared with the source's.
FirstWindowAnchored(series, count, steps, h) ==
  sub_grid_is_anchorable(series.resolution, series.initial, 0, h)

\* Every window's dates, stepped from its own start, are those of the source's rows.
WindowsAnchored(series, count, steps, h) ==
  \A k \in 0..(count - 1) : sub_grid_is_anchorable(series.resolution, series.initial, k * steps, h)

\* TransformPlan::derive at one resolution: the interval and the number of windows,
\* or Refused.
derive(series, horizon, requested, normalize) ==
  LET h      == compute_h(horizon, series.resolution)
      single == series.length = h /\ requested = horizon
      stored == IF single /\ normalize THEN zero ELSE requested
      steps  == IF is_zero(stored) THEN 1 ELSE divide_into(series.resolution, stored)
      count  == IF is_zero(stored) THEN 1 ELSE (series.length - h) \div steps + 1
  IN IF h = NoCount \/ h > series.length THEN Refused
     ELSE IF ~single /\ same_kind(requested, horizon)
             /\ Magnitude(requested) > Magnitude(horizon) THEN Refused
     ELSE IF is_zero(stored) /\ h # series.length THEN Refused
     ELSE IF steps = NoCount THEN Refused
     ELSE IF is_irregular(series.resolution) /\ ~WindowsAnchored(series, count, steps, h) THEN Refused
     ELSE [ok |-> TRUE, interval |-> stored, count |-> count]

\* The view: a forecast over the source's rows, with no array of its own.
ViewOf(series, horizon, plan) ==
  Forecast("Deterministic", series.initial, series.resolution, horizon, plan.interval,
           plan.count, <<>>, 0, <<>>)

interval_steps(view) ==
  IF view.count = 1 /\ is_zero(view.interval) THEN 0
  ELSE divide_into(view.resolution, view.interval)

\* materialize_array of a view over a source of `total` rows: the rows the windows span
\* are fetched, and row s of the j-th window lands at [s, j].
SourceRows(w, steps, h) ==
  LET lo == w.lo * steps
      hi == IF w.hi = w.lo THEN lo ELSE (w.hi - 1) * steps + h
  IN [i \in 1..(hi - lo) |-> lo + i]

Gathered(slice, w, steps, h, n) ==
  [c \in 1..(h * n) |-> slice[(w.lo + ((c - 1) % n)) * steps + ((c - 1) \div n) - w.lo * steps + 1]]

ReadViewWindows(view, w, steps, h) ==
  IF ~w.ok THEN w
  ELSE IF ~ValidDeterministic([view EXCEPT !.initial = w.initial, !.count = w.hi - w.lo,
                                           !.shape = <<h, w.hi - w.lo>>]) THEN Corrupt
  ELSE Holding(w, [shape |-> <<h, w.hi - w.lo>>,
                   cells |-> Gathered(SourceRows(w, steps, h), w, steps, h, w.hi - w.lo)])

ReadViewOver(view, total, range, steps, h) ==
  IF h = NoCount \/ steps = NoCount THEN Corrupt
  ELSE IF (Max({view.count - 1, 0})) * steps + h > total THEN Corrupt
  ELSE ReadViewWindows(view, resolve_windows(view, range), steps, h)

ReadView(view, total, range) ==
  ReadViewOver(view, total, range, interval_steps(view), compute_h(view.horizon, view.resolution))

\* Deterministic::window_start and window_timestamps of a forecast read back from
\* the instant `at`.
window_start(view, at, j)         == add_to(view.interval, at, j)
window_timestamp(view, at, j, s)  == add_to(view.resolution, window_start(view, at, j), s)
=============================================================================
