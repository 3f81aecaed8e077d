------------------------------ MODULE Queries ------------------------------
(* What the catalog's queries return, as functions of the rows of          *)
(* time_series_associations.  A nullable column or an unset field of a     *)
(* filter is None, a set one Some(v): SQL's "column = ?" is never true of  *)
(* NULL, which is what equality of two options says of a set filter.  The  *)
(* queries have no ORDER BY a caller may rely on, so a listing is a set.   *)
(* A feature is <<key, kind, value>>; hashes of features are injective.    *)
EXTENDS Naturals, Sequences, FiniteSets, FiniteSetsExt, SequencesExt

CONSTANT IdsPerQuery     \* ids bound in one statement, 500 in the code

None    == <<>>
Some(v) == <<v>>

TypeNames ==
  <<"SingleTimeSeries", "NonSequentialTimeSeries", "Deterministic",
    "DeterministicSingleTimeSeries", "Probabilistic", "Scenarios", "PersistentTimeSeries">>

code(t) == (CHOOSE i \in DOMAIN TypeNames : TypeNames[i] = t) - 1

static_codes   == {0, 1, 6}
forecast_codes == {2, 3, 4, 5}
is_forecast(t) ==
  t \in {"Deterministic", "DeterministicSingleTimeSeries", "Probabilistic", "Scenarios"}

code_span(t) ==
  <<code(t), IF t = "Deterministic" THEN code("DeterministicSingleTimeSeries") ELSE code(t)>>

\* TypeMatch: a request widens, an exact match does not.
Requested(t) == Some(code_span(t))
Exact(t)     == Some(<<code(t), code(t)>>)

\* BETWEEN and IN select the same codes.
push_type_predicate(match, r) ==
  match # None => code(r.type) \in match[1][1]..match[1][2]

push_eq(value, column) == value # None => column = value

\* COALESCE(column, '') = ? when an identity is given: NULL is then a value of its own.
PeriodPredicate(identity, value, column) ==
  IF identity = None THEN push_eq(value, column) ELSE column = identity[1]

\* Fault: "<>" alone, which is never true of an unset reference.
UnsetIsNeither(zoneless, r) ==
  /\ zoneless = Some(TRUE)  => r.time_reference = Some("zoneless")
  /\ zoneless = Some(FALSE) => r.time_reference # None /\ r.time_reference # Some("zoneless")

ZonelessPredicate(zoneless, r) ==
  /\ zoneless = Some(TRUE)  => r.time_reference = Some("zoneless")
  /\ zoneless = Some(FALSE) => r.time_reference = None \/ r.time_reference # Some("zoneless")

MetadataFilter ==
  [ids |-> None, owner_id |-> None, owner_category |-> None, owner_type |-> None,
   time_series_type |-> None, name |-> None, name_glob |-> None, component_field |-> None,
   zoneless |-> None, resolution |-> None, resolution_identity |-> None,
   initial_timestamp |-> None, length |-> None, interval |-> None, interval_identity |-> None,
   features |-> None, features_hash |-> None]

\* A glob is the set of names it matches.
to_sql(f, r) ==
  /\ f.ids # None => r.id \in f.ids[1]
  /\ \A c \in {"owner_id", "owner_category", "owner_type", "name"} : push_eq(f[c], Some(r[c]))
  /\ \A c \in {"component_field", "initial_timestamp", "length"} : push_eq(f[c], r[c])
  /\ push_type_predicate(f.time_series_type, r)
  /\ f.name_glob # None => r.name \in f.name_glob[1]
  /\ ZonelessPredicate(f.zoneless, r)
  /\ PeriodPredicate(f.resolution_identity, f.resolution, r.resolution)
  /\ PeriodPredicate(f.interval_identity, f.interval, r.interval)
  /\ push_eq(f.features_hash, Some(r.features))

\* A ListFilter has the same fields but ids, the identities and the hash; its type is a request,
\* and exact_features turns its features, or none, into a hash.
ListFilter ==
  [features_exact |-> FALSE] @@
  [c \in DOMAIN MetadataFilter \ {"ids", "resolution_identity", "interval_identity", "features_hash"}
     |-> None]

into(l) ==
  [c \in DOMAIN MetadataFilter |->
     CASE c = "time_series_type" -> IF l[c] = None THEN None ELSE Requested(l[c][1])
       [] c = "features_hash"    -> IF ~l.features_exact THEN None
                                    ELSE IF l.features = None THEN Some({}) ELSE l.features
       [] c = "features"         -> IF l.features_exact THEN None ELSE l.features
       [] c \in DOMAIN l \ {"time_series_type", "features"} -> l[c]
       [] OTHER                  -> None]

KeyOf(r) == [c \in {"owner_id", "owner_category", "type", "name", "resolution", "interval", "features"}
               |-> r[c]]

identity_filter(key) ==
  [MetadataFilter EXCEPT
     !.owner_id = Some(key.owner_id), !.owner_category = Some(key.owner_category),
     !.time_series_type = Exact(key.type), !.name = Some(key.name),
     !.resolution_identity = Some(key.resolution), !.interval_identity = Some(key.interval),
     !.features_hash = Some(key.features)]

-----------------------------------------------------------------------------
\* Float equality of the catalog is by bits, every NaN being one; SQL's equates the zeros.
unstorable(x) == x[2] = "float" /\ x[3] \in {"NaN", "-0.0"}
RESERVED_FEATURE_NAMES == {"name", "resolution"}     \* two of the list
validate_features(features) ==
  \A x \in features : x[1] \notin RESERVED_FEATURE_NAMES /\ ~unstorable(x)
SqlEqual(v, w) == "NaN" \notin {v, w} /\ (v = w \/ {v, w} = {"0.0", "-0.0"})

is_subset(required, actual) == required \subseteq actual

\* The rows of a listing and the axes they name; with vectors, the listing hydrates them and
\* a row whose axis is not held fails it.
list_inner(rows, f, vectors) ==
  LET out     == {r \in rows : to_sql(f, r) /\ (f.features # None => is_subset(f.features[1], r.features))}
      cohorts == {r.timestamps_hash[1] : r \in {x \in out : x.timestamps_hash # None}}
  IN IF vectors # None /\ ~(cohorts \subseteq vectors[1])
     THEN [ok |-> FALSE, rows |-> {}, cohorts |-> {}]
     ELSE [ok |-> TRUE, rows |-> out, cohorts |-> cohorts]

list(rows, f) == list_inner(rows, f, None).rows

exists_feature_subset(rows, f, required) ==
  /\ \A x \in required : ~unstorable(x)
  /\ \E r \in rows :
       /\ to_sql(f, r)
       /\ \A x \in required : \E y \in r.features :
            x[1] = y[1] /\ x[2] = y[2] /\ SqlEqual(x[3], y[3])

\* First the exact set, which the unique index answers, then the subset.
exists(rows, f) ==
  IF f.features \in {None, Some({})} THEN \E r \in rows : to_sql(f, r)
  ELSE \/ /\ f.features_hash = None
          /\ \E r \in rows : to_sql([f EXCEPT !.features = None, !.features_hash = f.features], r)
       \/ exists_feature_subset(rows, f, f.features[1])

exists_by_id(rows, id) == \E r \in rows : r.id = id
get_by_id(rows, id)    == list(rows, [MetadataFilter EXCEPT !.ids = Some({id})])

\* The ids sorted, each once, in chunks of IdsPerQuery: one listing per chunk.
list_by_ids(rows, ids) ==
  LET sorted == SetToSortSeq(ToSet(ids), <)
      last   == Len(sorted)
      Chunk(k) == {sorted[i] : i \in (k * IdsPerQuery + 1)..Min({(k + 1) * IdsPerQuery, last})}
  IN [k \in 1..((last + IdsPerQuery - 1) \div IdsPerQuery) |->
        list(rows, [MetadataFilter EXCEPT !.ids = Some(Chunk(k - 1))])]

\* In the caller's order, an id as often as the caller names it; one unknown id fails the call.
list_metadata_by_ids(rows, ids) ==
  LET found == UNION ToSet(list_by_ids(rows, ids)) IN
  IF ToSet(ids) \subseteq {r.id : r \in found}
  THEN [ok |-> TRUE, rows |-> [i \in DOMAIN ids |-> CHOOSE r \in found : r.id = ids[i]]]
  ELSE [ok |-> FALSE, rows |-> <<>>]

list_identities(rows, t) ==
  {<<[c \in DOMAIN KeyOf(r) \ {"type"} |-> r[c]], r.horizon>> : r \in {x \in rows : code(x.type) = code(t)}}

-----------------------------------------------------------------------------
Values(rows, column) == {r[column] : r \in rows}
SetOf(options) == {o[1] : o \in options \ {None}}

RequestedType(t) == IF t = None THEN None ELSE Requested(t[1])

distinct_periods(rows, column, t) ==
  SetOf(Values({r \in rows : push_type_predicate(RequestedType(t), r)}, column))

distinct_time_references(rows) ==
  [references |-> SetOf(Values(rows, "time_reference")),
   unspecified |-> None \in Values(rows, "time_reference")]

list_names(rows, f)       == Values(list(rows, f), "name")
list_owner_types(rows, f) == Values(list(rows, f), "owner_type")

list_owner_ids(rows, category, t, resolution) ==
  {r.owner_id : r \in {x \in rows : /\ x.owner_category = category
                                    /\ push_type_predicate(RequestedType(t), x)
                                    /\ push_eq(resolution, x.resolution)}}

\* The rows one SELECT ... GROUP BY returns, each with its COUNT( * ).
GroupBy(rows, columns) ==
  LET Group(r) == [c \in columns |-> r[c]] IN
  {[group |-> g, count |-> Cardinality({r \in rows : Group(r) = g})] : g \in {Group(r) : r \in rows}}

OfCodes(rows, codes) == {r \in rows : code(r.type) \in codes}
SummaryColumns == {"owner_type", "owner_category", "type", "name", "initial_timestamp", "resolution"}

static_summary(rows)   == GroupBy(OfCodes(rows, static_codes), SummaryColumns \cup {"length"})
forecast_summary(rows) ==
  GroupBy(OfCodes(rows, forecast_codes), SummaryColumns \cup {"horizon", "interval", "count"})
time_series_count_summary(rows) ==
  GroupBy(rows, (SummaryColumns \ {"name"}) \cup
                {"time_reference", "length", "timestamps_hash", "horizon", "interval", "count"})
counts_by_type(rows) == GroupBy(rows, {"type"})

count_distinct_owners(rows) == Cardinality({<<r.owner_id, r.owner_category>> : r \in rows})
count_distinct_owners_in_category(rows, category) ==
  Cardinality({r.owner_id : r \in {x \in rows : x.owner_category = category}})
count_distinct_arrays(rows) == Cardinality(Values(rows, "data_hash"))
count_distinct_arrays_for_types(rows, codes) == count_distinct_arrays(OfCodes(rows, codes))

get_time_series_counts(rows) ==
  LET Total(groups) == MapThenSumSet(LAMBDA g : g.count, groups) IN
  [components_with_time_series |-> count_distinct_owners(rows),
   static_time_series |-> Total({g \in counts_by_type(rows) : ~is_forecast(g.group.type)}),
   forecasts          |-> Total({g \in counts_by_type(rows) : is_forecast(g.group.type)})]

time_series_counts_detailed(rows) ==
  [components_with_time_series |-> count_distinct_owners_in_category(rows, "Component"),
   supplemental_attributes_with_time_series |->
     count_distinct_owners_in_category(rows, "SupplementalAttribute"),
   static_time_series_count |-> count_distinct_arrays_for_types(rows, static_codes),
   forecast_count           |-> count_distinct_arrays_for_types(rows, forecast_codes)]

count_array_references(rows, hash) ==
  LET Naming(t) == Cardinality({r \in rows : r.data_hash = hash /\ r.type = t}) IN
  <<Naming("SingleTimeSeries"), Naming("DeterministicSingleTimeSeries")>>

\* LIMIT 1: any row of the array may answer.
element_type_for_hash(rows, hash) == {r.element_type : r \in {x \in rows : x.data_hash = hash}}
referenced_arrays(rows) == {<<r.data_hash, r.element_type>> : r \in rows}

-----------------------------------------------------------------------------
distinct_single_grids(rows, resolution, category) ==
  {[c \in {"resolution", "initial_timestamp", "length"} |-> r[c]] :
     r \in {x \in rows : /\ x.type = "SingleTimeSeries"
                         /\ push_eq(resolution, x.resolution)
                         /\ push_eq(category, Some(x.owner_category))}}

\* Ordered by resolution: a second grid of one resolution is next to the first.
static_grids(rows, resolution, category) ==
  LET grids == distinct_single_grids(rows, resolution, category) IN
  IF \E g, h \in grids : g # h /\ g.resolution = h.resolution
  THEN [ok |-> FALSE, grids |-> {}] ELSE [ok |-> TRUE, grids |-> grids]

\* The first row, in no order a caller may rely on, of the first type that has one.
get_forecast_parameters(rows, resolution, interval) ==
  LET priority == <<"Deterministic", "DeterministicSingleTimeSeries", "Probabilistic", "Scenarios">>
      Of(i)    == list(rows, [MetadataFilter EXCEPT !.time_series_type = Exact(priority[i]),
                                !.resolution = resolution, !.interval = interval])
      having   == {i \in DOMAIN priority : Of(i) # {}}
      Parameters(r) == [c \in {"horizon", "interval", "count", "resolution", "initial_timestamp"} |-> r[c]]
  IN IF having = {} THEN {} ELSE {Parameters(r) : r \in Of(Min(having))}
=============================================================================
