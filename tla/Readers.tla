----------------------------- MODULE Readers -----------------------------
(* Readers and bulk reads (reader.rs, store.rs).  A reader is built once   *)
(* over the catalog and stepped through time: each read fills one buffer   *)
(* per group of columns (static) or per distinct array (forecast), while   *)
(* the store goes on changing.  Arrays are found in the write buffer or in *)
(* the file.  A value is its array and its position there.                 *)
EXTENDS Windows

CONSTANTS Worlds,     \* sets of rows, one of which the callers of a behaviour store
          BlockCols,  \* windows a dense forecast is read by (window_block_cols)
          Moments,    \* instants a caller reads at
          Owners,     \* owners a filter may name
          MaxGone,    \* bound on the rows missing from the catalog
          MaxIds      \* bound on the ids of one bulk read

\* The catalog's primary key is the id, its unique index the identity a key ranks.
ASSUME WorldsAssumption ==
  \A W \in Worlds :
    /\ IsFiniteSet(W)
    /\ \A r, s \in W : r.id = s.id \/ r.key = s.key => r = s
    /\ \A r \in W : {r.id, r.key, r.element_type} \subseteq Int /\ r.series.zoneless \in BOOLEAN

VARIABLES world,     \* the rows the callers store and remove
          catalog,   \* rows of the catalog
          saved,     \* what an open transaction would go back to, or <<>>
          file,      \* arrays in the file
          buffer,    \* arrays in the write buffer
          reader,    \* the reader a caller holds
          last       \* the last read, until the store changes again

store == <<world, catalog, saved, file, buffer>>
vars  == <<world, catalog, saved, file, buffer, reader, last>>

NoReader == [kind |-> "none"]
Failed == [ok |-> FALSE]

IsView(row) == row.view
TypeOf(row) == IF IsView(row) THEN "DeterministicSingleTimeSeries" ELSE row.series.type

\* TimeSeriesType::accepts: Deterministic asks for both of its storage forms.
accepts(t, u) == t = u \/ (t = "Deterministic" /\ u = "DeterministicSingleTimeSeries")

\* list_with_timestamps, list_timeline_cohorts: the rows a filter selects.
AnyOwner == 0
Matching(filter) ==
  {r \in catalog : /\ accepts(filter.type, TypeOf(r)) /\ filter.owner \in {AnyOwner, r.owner}
                   /\ "resolution" \in DOMAIN filter =>
                        "resolution" \in DOMAIN r.series /\ r.series.resolution = filter.resolution}

\* The cells of a stored array.
RowCells(row) ==
  IF row.series.type = "SingleTimeSeries" THEN row.series.length
  ELSE IF "timestamps" \in DOMAIN row.series THEN Len(row.series.timestamps)
  ELSE Product(row.series.shape)

Value(hash, i) == <<hash, i>>

\* The array a row points at: a view points at its source's.
ArrayOf(row) ==
  IF IsView(row) THEN [shape |-> <<row.total>>, cells |-> [i \in 1..row.total |-> Value(row.hash, i)]]
  ELSE [shape |-> IF "shape" \in DOMAIN row.series THEN row.series.shape ELSE <<RowCells(row)>>,
        cells |-> [i \in 1..RowCells(row) |-> Value(row.hash, i)]]

holds_array(hash) == hash \in file \cup buffer

\* The numbers of a finite set from the least up, each at its place.
Place(S, x) == Cardinality({y \in S : y <= x})
InOrder(S)  == [j \in 1..Cardinality(S) |-> CHOOSE x \in S : Place(S, x) = j]

\* identity_sort_key: owner, category, name, features, as one rank.
InIdentityOrder(R) ==
  LET keys == InOrder({r.key : r \in R}) IN [i \in DOMAIN keys |-> CHOOSE r \in R : r.key = keys[i]]
InIdOrder(R) ==
  LET ids == InOrder({r.id : r \in R}) IN [i \in DOMAIN ids |-> CHOOSE r \in R : r.id = ids[i]]

\* The distinct values of a sequence, in the order they are met.
Distinct(s) ==
  LET first == InOrder({i \in DOMAIN s : \A j \in 1..(i - 1) : s[j] # s[i]})
  IN [k \in DOMAIN first |-> s[first[k]]]

-----------------------------------------------------------------------------
(* Reads of several columns, some buffered and some in the file. *)

\* The file's columns come in one call, in order, and are dealt out between the
\* buffered ones.  `column` is what each position asks for.
Interleaved(hashes, column) ==
  LET inFile   == {i \in DOMAIN hashes : hashes[i] \notin buffer}
      order    == InOrder(inFile)
      fromFile == [j \in DOMAIN order |-> column[order[j]]]
  IN [i \in DOMAIN hashes |-> IF hashes[i] \in buffer THEN column[i] ELSE fromFile[Place(inFile, i)]]

\* read_rows_into: one row of each column.
read_rows_into(hashes, rows, io) ==
  IF ~io \/ \E i \in DOMAIN hashes : ~holds_array(hashes[i]) THEN Failed
  ELSE [ok |-> TRUE, values |-> Interleaved(hashes, [i \in DOMAIN hashes |-> Value(hashes[i], rows[i] + 1)])]

\* read_ranges_into: a run of rows of each column.
read_ranges_into(hashes, starts, lens, io) ==
  IF ~io \/ \E i \in DOMAIN hashes : ~holds_array(hashes[i]) THEN Failed
  ELSE [ok |-> TRUE,
        values |-> Interleaved(hashes, [i \in DOMAIN hashes |->
                     [s \in 1..lens[i] |-> Value(hashes[i], starts[i] + s)]])]

\* read_arrays: whole columns.
read_arrays(rows, io) ==
  LET hashes == [i \in DOMAIN rows |-> rows[i].hash] IN
  IF ~io \/ \E i \in DOMAIN hashes : ~holds_array(hashes[i]) THEN Failed
  ELSE [ok |-> TRUE, arrays |-> Interleaved(hashes, [i \in DOMAIN hashes |-> ArrayOf(rows[i]).cells])]

-----------------------------------------------------------------------------
(* Building a static reader. *)

\* cohort_time_reference, reject_mixed_zoning: zoneless and zoned do not mix.
cohort_time_reference(R) == Cardinality({r.series.zoneless : r \in R}) <= 1
reject_mixed_zoning(R)   == Cardinality({r.series.zoneless : r \in R}) > 1

grid_of(row) == <<row.series.initial, row.series.resolution, row.series.length>>

Regular(initial, resolution, length) ==
  [kind |-> "regular", initial |-> initial, resolution |-> resolution, length |-> length]
OnVector(ts)        == [kind |-> "irregular", timestamps |-> ts, length |-> Len(ts)]
Persistent(vs, union) == [kind |-> "persistent", vectors |-> vs, union |-> union, length |-> Len(union)]

\* regular_timeline: one grid for all; every column reads the same row.
regular_timeline(R) ==
  IF R = {} \/ Cardinality({grid_of(r) : r \in R}) > 1 THEN Failed
  ELSE LET r == CHOOSE r \in R : TRUE IN
       [ok |-> TRUE, timeline |-> Regular(r.series.initial, r.series.resolution, r.series.length),
        companion |-> [x \in R |-> 0]]

\* Every series' dates through the window are those stepped from its anchor.
Anchored(R, offset, length) ==
  \A r \in R : sub_grid_is_anchorable(r.series.resolution, r.series.initial, offset[r], length)

\* window_timeline: each series is read from the row its grid has at the anchor.
window_timeline(R, resolution, anchor, zoneless, len) ==
  LET offset == [r \in R |-> steps_between(resolution, r.series.initial, anchor)]
      left   == {Max({r.series.length - offset[r], 0}) : r \in R}
      length == IF len = Unset THEN Min(left) ELSE len
  IN IF R = {} \/ \E r \in R : r.series.zoneless # zoneless THEN Failed
     ELSE IF \E r \in R : offset[r] = NoStep THEN Failed
     ELSE IF length = 0 THEN Failed
     ELSE IF ~Anchored(R, offset, length) THEN Failed
     ELSE [ok |-> TRUE, timeline |-> Regular(anchor, resolution, length), companion |-> offset]

\* list_timeline_rows: the distinct vectors in the order they are met.
Vectors(R) ==
  LET rows == InIdOrder(R) IN Distinct([i \in DOMAIN rows |-> rows[i].series.timestamps])

merge_breakpoints(vs) == InOrder(UNION {Range(vs[i]) : i \in DOMAIN vs})

vector_timeline(type, R) ==
  LET vs == Vectors(R) IN
  IF R = {} THEN Failed
  ELSE IF type = "NonSequentialTimeSeries"
  THEN IF Len(vs) > 1 THEN Failed
       ELSE [ok |-> TRUE, timeline |-> OnVector(vs[1]), companion |-> [r \in R |-> 0]]
  ELSE [ok |-> TRUE, timeline |-> Persistent(vs, merge_breakpoints(vs)),
        companion |-> [r \in R |-> CHOOSE i \in DOMAIN vs : vs[i] = r.series.timestamps]]

\* build_groups: a group for each element type, its columns in the identity's order.
StaticGroup(R, companion) ==
  LET cols == InIdentityOrder(R) IN
  [ids |-> [i \in DOMAIN cols |-> cols[i].id], hashes |-> [i \in DOMAIN cols |-> cols[i].hash],
   companions |-> [i \in DOMAIN cols |-> companion[cols[i]]], values |-> <<>>, filled |-> FALSE]

build_groups(R, plan) ==
  LET types == InOrder({r.element_type : r \in R})
  IN IF plan.timeline.length = 0 \/ ~cohort_time_reference(R) THEN NoReader
     ELSE IF \E r \in R : plan.timeline.kind = "regular"
                          /\ plan.companion[r] + plan.timeline.length > r.series.length THEN NoReader
     ELSE [kind |-> "static", timeline |-> plan.timeline,
           groups |-> [g \in DOMAIN types |->
                         StaticGroup({r \in R : r.element_type = types[g]}, plan.companion)]]

\* build_static_reader_over: a filter of one type and, for a grid, one resolution; only a
\* grid takes a window.
build_static_reader_over(filter, window) ==
  LET R        == Matching(filter)
      windowed == window.start # NoStart
      single   == filter.type = "SingleTimeSeries"
      plan     == IF ~single THEN vector_timeline(filter.type, R)
                  ELSE IF ~windowed THEN regular_timeline(R)
                  ELSE window_timeline(R, filter.resolution, window.start, window.zoneless, window.len)
  IN IF window.count # Unset \/ (~windowed /\ window.len # Unset) \/ (windowed /\ ~single) THEN NoReader
     ELSE IF single # ("resolution" \in DOMAIN filter) THEN NoReader
     ELSE IF ~plan.ok THEN NoReader ELSE build_groups(R, plan)

-----------------------------------------------------------------------------
(* Reading a static reader at an instant. *)

\* index_on_grid, index_on_timeline: the reader's own row, or NoStep.
index_on_grid(initial, step, length, at) ==
  IF is_zero(step) /\ length = 1 THEN IF at = initial THEN 0 ELSE NoStep
  ELSE LET k == steps_between(step, initial, at) IN
       IF k = NoStep THEN NoStep ELSE IF k >= length THEN NoStep ELSE k

index_on_timeline(timeline, at) ==
  IF timeline.kind = "regular"
  THEN index_on_grid(timeline.initial, timeline.resolution, timeline.length, at)
  ELSE IF at \in Range(timeline.timestamps)
       THEN (CHOOSE k \in DOMAIN timeline.timestamps : timeline.timestamps[k] = at) - 1
       ELSE NoStep

\* StaticReader::index_at, timestamp_at, timestamps: the public axis.
reader_index_at(timeline, at) ==
  IF timeline.kind = "persistent"
  THEN LET k == index_at(timeline.union, at) IN IF k < 0 THEN NoStep ELSE k
  ELSE index_on_timeline(timeline, at)

reader_timestamp_at(timeline, k) ==
  IF timeline.kind = "regular" THEN timestamp_at(timeline, k)
  ELSE IF k >= timeline.length THEN NoInstant
  ELSE IF timeline.kind = "persistent" THEN timeline.union[k + 1] ELSE timeline.timestamps[k + 1]

reader_timestamps(timeline) == [k \in 0..(timeline.length - 1) |-> reader_timestamp_at(timeline, k)]

\* The row each column of a group is read at, NoStep when one has no value.
ColumnRows(timeline, group, at) ==
  [i \in DOMAIN group.ids |->
     IF timeline.kind = "persistent"
     THEN LET k == index_at(timeline.vectors[group.companions[i]], at) IN IF k < 0 THEN NoStep ELSE k
     ELSE LET k == index_on_timeline(timeline, at) IN
          IF k = NoStep THEN NoStep ELSE k + group.companions[i]]

\* read_at: the groups are filled in order until one fails.  A group read at one row is
\* emptied first; one read at a row per column keeps what it had.  io is the set of
\* groups whose backend read succeeds.
read_at(rd, at, io) ==
  LET rows(g) == ColumnRows(rd.timeline, rd.groups[g], at)
      lost    == \E g \in DOMAIN rd.groups : NoStep \in Range(rows(g))
      read(g) == read_rows_into(rd.groups[g].hashes, rows(g), g \in io)
      bad     == {g \in DOMAIN rd.groups : ~read(g).ok}
      upto    == IF bad = {} THEN Len(rd.groups) + 1 ELSE Min(bad)
      shared(g) == rd.timeline.kind # "persistent" /\ \A i \in DOMAIN rd.groups[g].companions :
                                                       rd.groups[g].companions[i] = 0
  IN IF lost THEN [ok |-> FALSE, reader |-> rd]
     ELSE [ok |-> bad = {},
           reader |-> [rd EXCEPT !.groups = [g \in DOMAIN rd.groups |->
                         IF g < upto THEN [rd.groups[g] EXCEPT !.values = read(g).values, !.filled = TRUE]
                         ELSE IF g = upto /\ shared(g) THEN [rd.groups[g] EXCEPT !.filled = FALSE]
                         ELSE rd.groups[g]]]]

\* Fault: what a failed read filled is left to be seen.
KeepsPartialRead(rd) == rd

invalidate_static(rd) ==
  [rd EXCEPT !.groups = [g \in DOMAIN @ |-> [@[g] EXCEPT !.filled = FALSE]]]

OrInvalidatedStatic(r) ==
  IF r.ok THEN r ELSE [ok |-> FALSE, reader |-> invalidate_static(r.reader)]

static_read(rd, at, io) == OrInvalidatedStatic(read_at(rd, at, io))

-----------------------------------------------------------------------------
(* Forecast readers. *)

\* entry_layout: a dense array is read by blocks along its count axis, a view by a run of
\* its source.
entry_layout(row) ==
  IF IsView(row)
  THEN [kind |-> "derived", steps |-> interval_steps(row.series),
        horizon |-> compute_h(row.series.horizon, row.series.resolution)]
  ELSE [kind |-> "dense", axis |-> leading_dims(row.series.type) - 1]

\* The stored array has the windows the row counts; a view's lie inside its source.
LayoutFits(row) ==
  IF IsView(row)
  THEN LET l == entry_layout(row) IN
       /\ l.horizon # NoCount /\ l.steps # NoCount
       /\ Max({row.series.count - 1, 0}) * l.steps + l.horizon <= row.total
  ELSE row.series.shape[entry_layout(row).axis + 1] = row.series.count

forecast_timeline(row) ==
  <<row.series.initial, row.series.resolution, row.series.interval, row.series.count>>

SlotKey(row) == <<row.hash, entry_layout(row), row.element_type>>

\* One slot for rows that read the same array the same way.
WindowSlot(row) ==
  [hash |-> row.hash, array |-> ArrayOf(row), read |-> entry_layout(row),
   count |-> row.series.count, cached |-> <<>>, block |-> <<>>, buf |-> <<>>, filled |-> FALSE]

build_forecast_entries(R) ==
  LET items == InIdentityOrder(R)
      keys  == Distinct([i \in DOMAIN items |-> SlotKey(items[i])])
  IN IF R = {} \/ ~cohort_time_reference(R) THEN NoReader
     ELSE IF Cardinality({forecast_timeline(r) : r \in R}) > 1 THEN NoReader
     ELSE IF \E r \in R : ~LayoutFits(r) THEN NoReader
     ELSE [kind |-> "forecast", first |-> items[1].series,
           slots |-> [k \in DOMAIN keys |-> WindowSlot(CHOOSE r \in R : SlotKey(r) = keys[k])],
           entries |-> [i \in DOMAIN items |->
                          [id |-> items[i].id, slot |-> CHOOSE k \in DOMAIN keys : keys[k] = SlotKey(items[i])]]]

\* build_forecast_reader reads every array's shape on the way.
build_forecast_reader(filter) ==
  LET R == Matching(filter) IN
  IF \E r \in R : ~holds_array(r.hash) THEN NoReader ELSE build_forecast_entries(R)

BlockOf(slot, window) ==
  LET start == (window \div BlockCols) * BlockCols
  IN <<start, Min({start + BlockCols, slot.count})>>

serves_from_cache(slot, window) ==
  slot.read.kind = "dense" /\ slot.cached = BlockOf(slot, window)

\* gather_window: the run of one window from each outer index of the block.
gather_window(slot, block, blockLen, lw) ==
  LET outer == Product(SubSeq(slot.array.shape, 1, slot.read.axis))
      inner == Product(SubSeq(slot.array.shape, slot.read.axis + 2, Len(slot.array.shape)))
  IN FlattenSeq([o \in 1..outer |->
       SubSeq(block, ((o - 1) * blockLen + lw) * inner + 1, ((o - 1) * blockLen + lw + 1) * inner)])

\* read_window of a dense slot: the cache is dropped before the block is read.
read_window(slot, window, io) ==
  LET span  == BlockOf(slot, window)
      hit   == slot.cached = span
      block == IF hit THEN slot.block
               ELSE write_window_block(slot.array, slot.read.axis, span[1], span[2] - span[1])
  IN IF ~hit /\ ~(io /\ holds_array(slot.hash))
     THEN [ok |-> FALSE, slot |-> [slot EXCEPT !.filled = FALSE, !.cached = <<>>]]
     ELSE [ok |-> TRUE,
           slot |-> [slot EXCEPT !.cached = span, !.block = block, !.filled = TRUE,
                       !.buf = gather_window(slot, block, span[2] - span[1], window - span[1])]]

\* Fault: a cached block is served whether or not the array is still there.
ServesUnprobed(slot, window, io) == read_window(slot, window, io)

\* One dense slot of forecast_read_into: a cached block is served only while the array it
\* came from is held.
read_dense(slot, window, io) ==
  IF serves_from_cache(slot, window) /\ ~holds_array(slot.hash)
  THEN [ok |-> FALSE, slot |-> [slot EXCEPT !.cached = <<>>, !.filled = FALSE]]
  ELSE read_window(slot, window, io)

\* forecast_read_into: the dense slots in order, then every derived one in one batch,
\* which is cut into windows by their sizes.  io is the set of slots whose read succeeds.
forecast_read_into(rd, at, io) ==
  LET window  == index_on_grid(rd.first.initial, rd.first.interval, rd.first.count, at)
      dense   == {k \in DOMAIN rd.slots : rd.slots[k].read.kind = "dense"}
      derived == InOrder(DOMAIN rd.slots \ dense)
      one(k)  == read_dense(rd.slots[k], window, k \in io)
      bad     == {k \in dense : ~one(k).ok}
      upto    == IF bad = {} THEN Len(rd.slots) ELSE Min(bad)
      after   == [k \in DOMAIN rd.slots |->
                    IF k \in dense /\ k <= upto THEN one(k).slot ELSE rd.slots[k]]
      hashes  == [i \in DOMAIN derived |-> rd.slots[derived[i]].hash]
      starts  == [i \in DOMAIN derived |-> window * rd.slots[derived[i]].read.steps]
      lens    == [i \in DOMAIN derived |-> rd.slots[derived[i]].read.horizon]
      batch   == read_ranges_into(hashes, starts, lens, Range(derived) \subseteq io)
  IN IF window = NoStep THEN [ok |-> FALSE, reader |-> rd]
     ELSE IF bad # {} \/ (derived # <<>> /\ ~batch.ok)
     THEN [ok |-> FALSE, reader |-> [rd EXCEPT !.slots = after]]
     ELSE [ok |-> TRUE,
           reader |-> [rd EXCEPT !.slots = [k \in DOMAIN after |->
                         IF k \in dense THEN after[k]
                         ELSE [after[k] EXCEPT !.buf = batch.values[Place(DOMAIN rd.slots \ dense, k)], !.filled = TRUE]]]]

invalidate_forecast(rd) ==
  [rd EXCEPT !.slots = [k \in DOMAIN @ |-> [@[k] EXCEPT !.filled = FALSE]]]

OrInvalidatedForecast(r) ==
  IF r.ok THEN r ELSE [ok |-> FALSE, reader |-> invalidate_forecast(r.reader)]

forecast_read(rd, at, io) == OrInvalidatedForecast(forecast_read_into(rd, at, io))

-----------------------------------------------------------------------------
(* Bulk reads by id. *)

NoRange == [kind |-> "none"]

\* materialize_time_series of a row: the whole array, or the rows of a range.
ReadOf(row, read) == IF ~read.ok THEN Failed ELSE read @@ [series |-> row.series, hash |-> row.hash]

Materialized(row, range) ==
  IF ~holds_array(row.hash) THEN Failed
  ELSE IF range = NoRange THEN [ok |-> TRUE, series |-> row.series, cells |-> ArrayOf(row).cells]
  ELSE IF IsView(row) /\ ~check_against(range, row.series) THEN Failed
  ELSE ReadOf(row, IF IsView(row) THEN ReadView(row.series, row.total, range)
                   ELSE materialize_array(row.series, range))

IsFull(window) == <<window.start, window.len, window.count>> = <<NoStart, Unset, Unset>>

\* read_by_id, once its row is found.
ReadThrough(row, window) ==
  IF IsFull(window) THEN Materialized(row, NoRange)
  ELSE LET w == resolve(window, row.series) IN
       IF ~w.ok THEN Failed ELSE Materialized(row, w.range)

RowsWithId(id) == {r \in catalog : r.id = id}

\* Fault: the rows are left in the order the catalog lists them.
RowsAsListed(ids) ==
  IF \E i \in DOMAIN ids : RowsWithId(ids[i]) = {} THEN <<>>
  ELSE InIdOrder(UNION {RowsWithId(ids[i]) : i \in DOMAIN ids})

\* rows_for_ids: in the caller's order, repeats included; <<>> when one is missing.
rows_for_ids(ids) ==
  IF \E i \in DOMAIN ids : RowsWithId(ids[i]) = {} THEN <<>>
  ELSE [i \in DOMAIN ids |-> CHOOSE r \in RowsWithId(ids[i]) : TRUE]

All(reads) == IF \A i \in DOMAIN reads : reads[i].ok THEN [ok |-> TRUE, read |-> reads] ELSE Failed

\* bulk_read_metas: the arrays of the packed types come in one call and are handed out in
\* order; the others are read one by one.
bulk_read_metas(rows) ==
  LET packed == {i \in DOMAIN rows : "shape" \notin DOMAIN rows[i].series}
      order  == InOrder(packed)
      got    == read_arrays([j \in DOMAIN order |-> rows[order[j]]], TRUE)
  IN IF ~got.ok THEN Failed
     ELSE All([i \in DOMAIN rows |->
                 IF i \notin packed THEN Materialized(rows[i], NoRange)
                 ELSE [ok |-> TRUE, series |-> rows[i].series, cells |-> got.arrays[Place(packed, i)]]])

Mixed(rows) == reject_mixed_zoning({rows[i] : i \in DOMAIN rows})

read_by_ids(ids, window) ==
  LET rows == rows_for_ids(ids) IN
  IF rows = <<>> /\ ids # <<>> THEN Failed
  ELSE IF IsFull(window) THEN bulk_read_metas(rows)
  ELSE IF window.start # NoStart /\ Mixed(rows) THEN Failed
  ELSE All([i \in DOMAIN rows |-> ReadThrough(rows[i], window)])

read_by_ids_range(ids, range) ==
  LET rows == rows_for_ids(ids) IN
  IF (rows = <<>> /\ ids # <<>>) \/ Mixed(rows) THEN Failed
  ELSE All([i \in DOMAIN rows |-> Materialized(rows[i], range)])

-----------------------------------------------------------------------------
(* The store between reads, as the transaction module describes it. *)

Hashes(R) == {r.hash : r \in R}
NoRead    == [kind |-> "none"]

Init ==
  /\ world \in Worlds /\ catalog = world /\ saved = <<>>
  /\ file = Hashes(world) /\ buffer = {}
  /\ reader = NoReader /\ last = NoRead

\* In a transaction a new array goes to the buffer, or to the file when its pool is
\* flushed or it has none.
AddRow(row) ==
  /\ row \in world \ catalog
  /\ catalog' = catalog \cup {row}
  /\ \/ holds_array(row.hash) /\ UNCHANGED <<file, buffer>>
     \/ ~holds_array(row.hash) /\ file' = file \cup {row.hash} /\ UNCHANGED buffer
     \/ /\ ~holds_array(row.hash) /\ saved # <<>>
        /\ buffer' = buffer \cup {row.hash} /\ UNCHANGED file
  /\ last' = NoRead /\ UNCHANGED <<world, saved, reader>>

\* An array no row names is dropped at once, or at the commit.
RemoveRow(row) ==
  /\ row \in catalog /\ Cardinality(world \ catalog) < MaxGone
  /\ catalog' = catalog \ {row}
  /\ file' = IF saved = <<>> THEN file \cap Hashes(catalog') ELSE file
  /\ last' = NoRead /\ UNCHANGED <<world, saved, buffer, reader>>

Begin ==
  /\ saved = <<>> /\ saved' = <<catalog>>
  /\ last' = NoRead /\ UNCHANGED <<world, catalog, file, buffer, reader>>

Commit ==
  /\ saved # <<>> /\ saved' = <<>>
  /\ file' = (file \cup buffer) \cap Hashes(catalog) /\ buffer' = {}
  /\ last' = NoRead /\ UNCHANGED <<world, catalog, reader>>

Rollback ==
  /\ saved # <<>> /\ saved' = <<>> /\ catalog' = saved[1]
  /\ file' = file \cap Hashes(saved[1]) /\ buffer' = {}
  /\ last' = NoRead /\ UNCHANGED <<world, reader>>

-----------------------------------------------------------------------------
(* Callers. *)

StaticFilters ==
  [type : {"SingleTimeSeries"}, owner : Owners \cup {AnyOwner},
   resolution : {r.series.resolution : r \in {x \in world : "resolution" \in DOMAIN x.series}}]
  \cup [type : {"NonSequentialTimeSeries", "PersistentTimeSeries"}, owner : Owners \cup {AnyOwner}]

ForecastFilters ==
  [type : {"Deterministic", "DeterministicSingleTimeSeries", "Probabilistic", "Scenarios"},
   owner : Owners \cup {AnyOwner},
   resolution : {r.series.resolution : r \in {x \in world : "resolution" \in DOMAIN x.series}}]

ReadWindows ==
  [start : Moments \cup {NoStart}, zoneless : BOOLEAN, len : {Unset, 0, 2}, count : {Unset}]

Build(rd) == rd # NoReader /\ reader' = rd /\ last' = NoRead /\ UNCHANGED store

\* One reader is followed at a time; readers do not see one another.
BuildStatic   == reader = NoReader /\ last = NoRead /\ \E f \in StaticFilters, w \in ReadWindows : Build(build_static_reader_over(f, w))
BuildForecast == reader = NoReader /\ last = NoRead /\ \E f \in ForecastFilters : Build(build_forecast_reader(f))

\* The backend's reads may fail.
StaticRead ==
  /\ reader.kind = "static"
  /\ \E at \in Moments, io \in SUBSET DOMAIN reader.groups :
       \E r \in {static_read(reader, at, io)} :
       reader' = r.reader /\ last' = [kind |-> "static", at |-> at, ok |-> r.ok]
  /\ UNCHANGED store

ForecastRead ==
  /\ reader.kind = "forecast"
  /\ \E at \in Moments, io \in SUBSET DOMAIN reader.slots :
       \E r \in {forecast_read(reader, at, io)} :
       reader' = r.reader /\ last' = [kind |-> "forecast", at |-> at, ok |-> r.ok]
  /\ UNCHANGED store

Ids == UNION {[1..n -> {r.id : r \in world}] : n \in 0..MaxIds}

\* A bound is one of the first moments; one that is not named has no spelling.
BulkWindows ==
  {w \in [start : {Min(Moments), NoStart}, zoneless : BOOLEAN, len : {Unset, 1}, count : {Unset}] :
     w.start = NoStart => ~w.zoneless}
BulkRanges  == {TimeRange(s, Max(Moments), zoneless) : s \in {Min(Moments), Max(Moments)},
                                                      zoneless \in BOOLEAN}

BulkRead ==
  /\ reader = NoReader /\ last = NoRead
  /\ \E ids \in Ids :
       \/ \E w \in BulkWindows :
            last' = [kind |-> "ids", ids |-> ids, window |-> w, got |-> read_by_ids(ids, w)]
       \/ \E r \in BulkRanges :
            last' = [kind |-> "range", ids |-> ids, range |-> r, got |-> read_by_ids_range(ids, r)]
  /\ UNCHANGED <<world, catalog, saved, file, buffer, reader>>

Next ==
  \/ \E row \in world : AddRow(row) \/ RemoveRow(row)
  \/ Begin \/ Commit \/ Rollback
  \/ BuildStatic \/ BuildForecast \/ StaticRead \/ ForecastRead
  \/ BulkRead

Spec == Init /\ [][Next]_vars

-----------------------------------------------------------------------------
RowOf(id) == CHOOSE r \in world : r.id = id

\* What a row has at an instant, by the dates of its own rows.
DatedRows(s) == IF "timestamps" \in DOMAIN s THEN s.timestamps
                ELSE [k \in 1..s.length |-> add_to(s.resolution, s.initial, k - 1)]

ValueAt(row, at) ==
  LET dates == DatedRows(row.series)
      upTo  == {k \in DOMAIN dates : dates[k] <= at}
  IN IF row.series.type = "PersistentTimeSeries" THEN Value(row.hash, Max(upTo))
     ELSE Value(row.hash, CHOOSE k \in DOMAIN dates : dates[k] = at)

\* The window a forecast has at an instant: each lead, step and element in place, or the
\* rows of a view's source that carry the window's dates.
WindowAt(row, at) ==
  LET f     == row.series
      h     == compute_h(f.horizon, f.resolution)
      k     == CHOOSE k \in 0..(f.count - 1) :
                 (IF is_zero(f.interval) THEN f.initial ELSE add_to(f.interval, f.initial, k)) = at
      leads == Product(SubSeq(f.shape, 1, leading_dims(f.type) - 2))
      per   == Product(SubSeq(f.shape, leading_dims(f.type) + 1, Len(f.shape)))
      dated(s) == CHOOSE i \in 1..row.total :
                    add_to(f.resolution, f.initial, i - 1) = add_to(f.resolution, at, s - 1)
  IN IF IsView(row) THEN [s \in 1..h |-> Value(row.hash, dated(s))]
     ELSE [i \in 1..(leads * h * per) |->
             LET run == (i - 1) \div per IN
             Value(row.hash, (run * f.count + k) * per + ((i - 1) % per) + 1)]

\* After a read every column of the reader holds its own series' value at the instant
\* that was read, whatever was added, removed, committed or rolled back since it was
\* built and however its columns' grids, breakpoints and windows differ; after a read
\* that failed at any point none holds anything; and every instant a reader lists can be
\* read, by its own index, but for columns whose step function has not begun
\* (reader.rs:397-593, store.rs:3907-4080).
ReaderHoldsOneInstant ==
  /\ reader.kind = "static" =>
       \A k \in 0..(reader.timeline.length - 1), g \in DOMAIN reader.groups :
         LET at == reader_timestamps(reader.timeline)[k] IN
         /\ reader_index_at(reader.timeline, at) = k
         /\ \A i \in DOMAIN reader.groups[g].ids :
              LET dates == DatedRows(RowOf(reader.groups[g].ids[i]).series) IN
              (ColumnRows(reader.timeline, reader.groups[g], at)[i] = NoStep) = (at < dates[1])
  /\ last.kind = "static" =>
       \A g \in DOMAIN reader.groups :
         LET group == reader.groups[g] IN
         /\ group.filled = last.ok
         /\ last.ok => group.values = [i \in DOMAIN group.ids |-> ValueAt(RowOf(group.ids[i]), last.at)]
  /\ last.kind = "forecast" =>
       \A e \in DOMAIN reader.entries :
         LET slot == reader.slots[reader.entries[e].slot] IN
         /\ slot.filled = last.ok
         /\ last.ok => slot.buf = WindowAt(RowOf(reader.entries[e].id), last.at)

\* A read that answers found every array it answered from: one removed since the reader
\* was built, or since its block was cached, is an error (store.rs:4006-4080).
NothingServedAfterRemoval ==
  /\ last.kind = "static" /\ last.ok =>
       \A g \in DOMAIN reader.groups : Range(reader.groups[g].hashes) \subseteq file \cup buffer
  /\ last.kind = "forecast" /\ last.ok =>
       {reader.slots[k].hash : k \in DOMAIN reader.slots} \subseteq file \cup buffer

\* A bulk read is the single reads of its ids, in the caller's order and with repeats,
\* whether an array is in the file or in the buffer; it fails only if one of them does, or
\* if one bound is asked of zoned and zoneless series together (store.rs:4082-4329).
BulkReadsInOrder ==
  LET one(id) == IF RowsWithId(id) = {} THEN Failed
                 ELSE IF last.kind = "ids" THEN ReadThrough(CHOOSE r \in RowsWithId(id) : TRUE, last.window)
                 ELSE Materialized(CHOOSE r \in RowsWithId(id) : TRUE, last.range)
      bounded == IF last.kind = "ids" THEN last.window.start # NoStart ELSE TRUE
  IN last.kind \in {"ids", "range"} =>
       IF last.got.ok THEN last.got.read = [i \in DOMAIN last.ids |-> one(last.ids[i])]
       ELSE \/ \E i \in DOMAIN last.ids : ~one(last.ids[i]).ok
            \/ bounded /\ Cardinality({RowOf(last.ids[i]).series.zoneless : i \in DOMAIN last.ids}) = 2
=============================================================================
