---------------------------- MODULE TimeReads ----------------------------
(* Questions put to the grid arithmetic, to the reads by time, to the      *)
(* conversions at the boundaries and to the catalog's queries, and what    *)
(* their answers must be.  The initial states enumerate the subjects, each *)
(* step asks one question or makes one call, and each invariant compares   *)
(* the code's answer with a definition that does no arithmetic of its own. *)
EXTENDS PySeries, Associations

CONSTANTS Starts,    \* instants a series may start at
          Bounds,    \* instants a caller may name, finer than a millisecond too
          Grids,     \* positive periods
          Offsets,   \* UTC offsets, in seconds
          Floats,    \* values of an element
          CatalogRows,  \* rows a catalog may hold, of distinct ids and identities
          Components,   \* ids at the ends of an association
          MaxLen     \* bound on the length of a series, and on a forecast's windows

ASSUME QuestionAssumption ==
  /\ Starts \subseteq {t \in Instant : WholeMs(t)} /\ Starts # {} /\ Bounds \subseteq Instant
  /\ \A p \in Grids : p \in [kind : {"fixed", "months"}, n : Int] /\ is_positive(p)
  /\ MaxLen \in Nat
  /\ \A r, s \in CatalogRows : r # s => r.id # s.id /\ KeyOf(r) # KeyOf(s)
  /\ \A r \in CatalogRows : validate_features(r.features)

VARIABLES subject,   \* what is asked about: a grid, a vector, a period or a stored series
          q          \* the question in progress

questionVars == <<subject, q>>

Singles == {Single(t, p, n, FALSE) : t \in Starts, p \in Grids, n \in 0..MaxLen}

InstantVectors(S, n) == {ts \in UNION {[1..i -> S] : i \in 0..n} : Increasing(ts)}

Irregulars == {Irregular(k, ts, FALSE) : ts \in InstantVectors(Starts, 3),
                 k \in {"NonSequentialTimeSeries", "PersistentTimeSeries"}}

\* Forecasts a caller may build, of which the accepted ones are stored.
Shapes == UNION {[1..2 -> 0..MaxLen], {2} \X {1, 2} \X (0..MaxLen), {2} \X {1} \X {3} \X {2}}

Deterministics ==
  {Forecast("Deterministic", t, Fixed(Sub), Fixed(h * Sub), i, n, <<>>, 0, shape) :
     t \in Starts, h \in {1, 2}, i \in Grids \cup {zero}, n \in 0..MaxLen, shape \in Shapes}

Ensembles ==
  {Forecast(type, Min(Starts), Fixed(Sub), Fixed(h * Sub), i, n, p, 2, shape) :
     type \in {"Probabilistic", "Scenarios"}, p \in {<<>>, <<1, 9>>, <<9, 1>>}, h \in {1, 2},
     i \in Grids \cup {zero}, n \in 0..MaxLen, shape \in Shapes}

BuiltForecasts == {f \in Deterministics \cup Ensembles : validate_data(f)}

Series == Singles \cup Irregulars \cup BuiltForecasts

\* Periods of any sign, and finer than a millisecond.
AnyPeriod == Grids \cup {Fixed(0), Fixed(1), Fixed(Sub + 1), Fixed(-Sub), Months(0), Months(-1)}
       \cup {Months(YearMonths * i) : i \in {-1, 1, 2}} \cup {Months(YearMonths + 1)}

References ==
  {NoReference, Utc, Zoneless} \cup {FixedOffset(s \div 60) : s \in Offsets}
  \cup {Zone(Word(w)) : w \in ZoneWords} \cup {Zone(Word("no zone"))}
  \cup {Zone(OffsetText(TRUE, 5, 30))}

Tzinfos == {Naive, UtcSingleton} \cup {timezone(s) : s \in Offsets}
           \cup {Keyed(Word(w)) : w \in ZoneWords} \cup {Keyed(Word("no zone"))}

\* Tables another program wrote: any unit, no metadata.
ForeignTables ==
  [type : {"Table"}, unit : {"s", "ms", "us"}, raw : InstantVectors(0..4, 3),
   zone : {NoText, Word("UTC"), Word("no zone"), OffsetText(FALSE, 1, 0)}
          \cup {Word(w) : w \in ZoneWords \ {"zoneless"}},
   reference : {NoText}, resolution : {NoText}]

UpTo(S, n) == UNION {[1..i -> S] : i \in 0..n}

\* Rows a caller may pass: well formed, ragged, and of no element type.
PyRows ==
  {Number, Mapping([x |-> <<1>>]), Mapping([proportional |-> 1])}
  \cup {ListOf(s) : s \in UpTo(Floats, 2)}
  \cup {Curve(s) : s \in UpTo([x : Floats, y : Floats], 2)}
  \cup {Mapping(f) : f \in [proportional : Floats, constant : Floats]
                          \cup [quadratic : Floats, proportional : Floats, constant : Floats]
                          \cup [x : UpTo(Floats, 2), y : UpTo(Floats, 1)]}

\* Arguments to the Python constructors: one or two datetimes, and rows that tell their
\* positions apart.
RowsInForm(form, n) ==
  [i \in 1..n |-> CASE form = "tuple"  -> ListOf(<<i, 9>>)
                    [] form = "points" -> Curve([p \in 1..(i % 3) |-> [x |-> i, y |-> p]])
                    [] form = "linear" -> Mapping([proportional |-> i, constant |-> 0])]

SomeTz == {Naive, UtcSingleton, Offset(3600), Offset(30), Keyed(Word("Here")), Keyed(Word("no zone"))}

Args ==
  [type : {"Args"}, dts : {d \in UpTo([instant : {0, 2}, tz : SomeTz], 2) : d # <<>>},
   element_type : {Undeclared, LinearFunction}, reference : {NoReference, Declared(UTC_LITERAL)}]

Construct(form, a) ==
  CASE form = "Deterministic"             -> PyDeterministic_new(a)
    [] form = "Probabilistic"             -> PyProbabilistic_new(a)
    [] form = "Scenarios"                 -> PyScenarios_new(a)
    [] form = "Deterministic.from_values" -> PyDeterministic_from_values(a)
    [] form = "Probabilistic.from_values" -> PyProbabilistic_from_values(a)
    [] form = "Scenarios.from_values"     -> PyScenarios_from_values(a)
    [] form = "Single"                    -> PySingle_new(a)
    [] form = "Single.from_timestamps"    -> PySingle_from_timestamps(a)
    [] form = "Single.from_values"        -> PySingle_from_values(a)
    [] form = "Irregular"                 -> Irregular_new("PersistentTimeSeries", a)
    [] form = "Irregular.from_values"     -> Irregular_from_values("NonSequentialTimeSeries", a)

-----------------------------------------------------------------------------
Catalogs == [type : {"Catalog"}, rows : {R \in SUBSET CatalogRows : Cardinality(R) <= 3}]

\* A listing may constrain any two fields, by values the rows have and by some they do not.
FilterValues ==
  UNION {{<<c, Some(v)>> : v \in Values(CatalogRows, c)} : c \in {"owner_id", "owner_category", "owner_type", "name"}}
  \cup UNION {{<<c, v>> : v \in Values(CatalogRows, c)}
              : c \in {"component_field", "resolution", "initial_timestamp", "length", "interval"}}
  \cup {<<"time_series_type", Some(t)>> : t \in ToSet(TypeNames)}
  \cup {<<"zoneless", Some(b)>> : b \in BOOLEAN}
  \cup {<<"name_glob", Some(S)>> : S \in SUBSET Values(CatalogRows, "name")}
  \cup {<<"features", Some(S)>> : S \in {{}} \cup {{x} : x \in UNION Values(CatalogRows, "features")}
                                       \cup {{<<"k", "float", v>>} : v \in {"-0.0", "NaN"}}
                                       \cup Values(CatalogRows, "features")}
  \cup {<<"features_exact", TRUE>>}

Filters == {[ListFilter EXCEPT ![a[1]] = a[2], ![b[1]] = b[2]] : a, b \in FilterValues}

\* Tables of up to three rows; the caller's labels may disagree.
Labels == {"A", "B"}
Tables ==
  {Table({Link(i, s[i].l, s[i].lt, s[i].r, s[i].rt) : i \in DOMAIN s}, Len(s) + gone)
     : s \in {e \in UpTo([l : Components, lt : Labels, r : Components, rt : {"B"}], 3) :
                 \A i, j \in DOMAIN e : i < j => e[i].l < e[j].l \/ (e[i].l = e[j].l /\ e[i].r < e[j].r)}
           \cup UpTo([l : {Min(Components)}, lt : Labels, r : {Max(Components)}, rt : Labels], 1),
       gone \in 0..1}

LinkFilters ==
  {[EndpointFilter EXCEPT ![a] = va, ![b] = vb] :
     a \in {"left_id"}, va \in {None} \cup {Some(c) : c \in Components},
     b \in {"left_types", "right_types"}, vb \in {None, Some({})} \cup {Some({t}) : t \in Labels}}

NewLinks ==
  UpTo([left_id : Components, left_type : {"A"}, right_id : {Min(Components), Max(Components)}, right_type : {"B"}], 2)

Nothing == [kind |-> "none"]

QuestionsInit ==
  /\ q = Nothing
  /\ subject \in Series
       \cup [type : {"Grid"}, p : Grids, start : Starts]
       \cup [type : {"Vector"}, ts : InstantVectors(Bounds, 3)]
       \cup [type : {"Period"}, p : AnyPeriod]
       \cup [type : {"Reference"}, r : References]
       \cup [type : {"Datetimes"}, dts : UpTo([instant : {0, 1}, tz : Tzinfos], 2)]
       \cup ForeignTables \cup Args
       \cup [type : {"Values"}, rows : UpTo(PyRows, 2)]
       \cup Catalogs
       \cup [type : {"Links"}, table : Tables \cup {[absent |-> TRUE]}]
       \cup [type : {"Attributes"}, attributes : UNION {[D -> {"v", "w"}] : D \in SUBSET {"j", "k"}}]

\* A question is a record of its kind and its arguments.
Tagged(kind, question) ==
  [x \in {"kind"} \cup DOMAIN question |-> IF x = "kind" THEN kind ELSE question[x]]

Ask(kind, types, question) ==
  /\ subject.type \in types
  /\ q' = Tagged(kind, question)
  /\ UNCHANGED subject

StaticTypes == {"SingleTimeSeries", "NonSequentialTimeSeries", "PersistentTimeSeries"}
SeriesTypes == StaticTypes \cup {"Deterministic", "Probabilistic", "Scenarios"}

AskSteps  == \E at \in Bounds : Ask("steps", {"Grid"}, [at |-> at])
AskInfer  == \E n \in 0..3 : Ask("infer", {"Vector"}, [length |-> n])
AskText   == Ask("text", {"Reference"}, <<>>)
AskSpell  == Ask("spell", {"Datetimes"}, <<>>)

\* An imported table is read as one of the three static types.
ExportArrow == \E r \in References : Ask("export", StaticTypes, [r |-> r])
ImportArrow ==
  \E t \in StaticTypes, declared \in {NoReference, Declared(UTC_LITERAL)} :
    Ask("import", {"Table"}, [as |-> t, declared |-> declared])

FromValues ==
  \E declared \in ElementTypes(2) \cup {Undeclared}, n \in {1, 2} :
    Ask("values", {"Values"}, [declared |-> declared, steps |-> n])

ConstructForecast ==
  \E form \in {"Deterministic", "Probabilistic", "Scenarios"}, h \in {1, 2},
     interval \in {Fixed(Sub), zero}, count \in 0..2 :
    /\ subject.type = "Args" /\ Len(subject.dts) = 1
    /\ \/ \E shape \in {<<1, 2>>, <<2, 1, 2>>, <<2, 2, 2, 1>>, <<0, 1, 0>>}, p \in {<<>>, <<1, 9>>} :
            Ask("construct", {"Args"},
                [form |-> form, resolution |-> Fixed(Sub), horizon |-> Fixed(h * Sub),
                 interval |-> interval, count |-> count, percentiles |-> p, scenarios |-> 2,
                 shape |-> shape])
       \/ \E rows \in {"tuple", "points", "linear"}, n \in 0..4 :
            Ask("construct", {"Args"},
                [form |-> form \o ".from_values", resolution |-> Fixed(Sub), horizon |-> Fixed(h * Sub),
                 interval |-> interval, count |-> count, percentiles |-> <<1, 9>>, scenarios |-> 2,
                 rows |-> RowsInForm(rows, n)])

ConstructStatic ==
  /\ subject.type = "Args"
  /\ \/ \E form \in {"Single", "Single.from_timestamps", "Irregular"}, n \in 0..2, p \in {Fixed(Sub), zero} :
          Ask("construct", {"Args"}, [form |-> form, resolution |-> p, shape |-> <<n>>])
     \/ \E form \in {"Single", "Irregular"}, rows \in {"tuple", "points", "linear"}, n \in 0..2 :
          Ask("construct", {"Args"}, [form |-> form \o ".from_values", resolution |-> Fixed(Sub),
                                      rows |-> RowsInForm(rows, n)])

AskPeriod == \E r \in AnyPeriod : Ask("period", {"Period"}, [r |-> r])

ReadRange ==
  \E s, e \in Bounds : Ask("range", SeriesTypes, [range |-> TimeRange(s, e, FALSE)])

ReadSteps ==
  \E start \in Bounds \cup {NoStart}, zoneless \in BOOLEAN, len \in {Unset} \cup 0..2,
     count \in {Unset, 1} :
    Ask("window", SeriesTypes,
        [start |-> start, zoneless |-> zoneless, len |-> len, count |-> count])

Transform ==
  \E horizon \in Grids, interval \in Grids \cup {zero}, normalize \in BOOLEAN, s, e \in Starts :
    Ask("view", {"SingleTimeSeries"},
        [horizon |-> horizon, interval |-> interval, normalize |-> normalize,
         range |-> TimeRange(s, e, FALSE)])

ListRows ==
  \E l \in Filters : Ask("list", {"Catalog"}, [l |-> l])

ListByIds ==
  \E ids \in UpTo(Values(CatalogRows, "id") \cup {0}, 3) : Ask("ids", {"Catalog"}, [ids |-> ids])

Count ==
  \E t \in {None} \cup {Some(x) : x \in ToSet(TypeNames)}, category \in Values(CatalogRows, "owner_category"),
     resolution \in {None} \cup Values(CatalogRows, "resolution"),
     interval \in {None} \cup Values(CatalogRows, "interval") :
    Ask("count", {"Catalog"}, [t |-> t, category |-> category, resolution |-> resolution, interval |-> interval])

ListLinks == \E f \in LinkFilters : Ask("links", {"Links"}, [f |-> f])

Writable == "table" \in DOMAIN subject /\ assoc_present(subject.table)
AddLinks    == Writable /\ \E links \in NewLinks : Ask("add", {"Links"}, [links |-> links])
RemoveLinks == Writable /\ \E f \in LinkFilters : Ask("remove", {"Links"}, [f |-> f])
MoveComponent ==
  /\ Writable
  /\ \E old, new \in Components, both \in BOOLEAN :
       Ask("move", {"Links"}, [old |-> old, new |-> new, both |-> both])

SetAttribute ==
  \E key \in {"empty", "reserved", "j", "k"}, value \in {None, Some("w")} :
    Ask("attribute", {"Attributes"}, [key |-> key, value |-> value])

Answer == q # Nothing /\ q' = Nothing /\ UNCHANGED subject

QuestionsNext ==
  \/ q = Nothing /\ (AskSteps \/ AskInfer \/ AskPeriod \/ ReadRange \/ ReadSteps \/ Transform
                     \/ AskText \/ AskSpell \/ ExportArrow \/ ImportArrow \/ FromValues
                     \/ ConstructForecast \/ ConstructStatic
                     \/ ListRows \/ ListByIds \/ Count
                     \/ ListLinks \/ AddLinks \/ RemoveLinks \/ MoveComponent \/ SetAttribute)
  \/ Answer

QuestionsSpec == QuestionsInit /\ [][QuestionsNext]_questionVars

-----------------------------------------------------------------------------
Steps(p, start) == {k \in 0..(Days * DayMs + 1) : add_to(p, start, k) # NoInstant}
InstantAt(p, start, k) == add_to(p, start, k)

\* The floor is the last grid point at or before the instant, the ceiling the first
\* at or after it (or the first that no longer exists), and steps_between answers
\* exactly on grid points: through clamped month ends, instants between two
\* milliseconds and the end of the calendar (period.rs:153-263).
StepsAreExact ==
  q.kind = "steps" =>
    LET on == Steps(subject.p, subject.start) IN
    /\ floor_steps(subject.p, subject.start, q.at)
         = Max({0} \cup {k \in on : InstantAt(subject.p, subject.start, k) <= q.at})
    /\ ceil_steps(subject.p, subject.start, q.at)
         = Min({k \in 0..(Days * DayMs + 2) : k \in on => InstantAt(subject.p, subject.start, k) >= q.at})
    /\ steps_between(subject.p, subject.start, q.at)
         = IF \E k \in on : InstantAt(subject.p, subject.start, k) = q.at
           THEN CHOOSE k \in on : InstantAt(subject.p, subject.start, k) = q.at ELSE NoStep

\* A period inferred from a vector reproduces it, and one is found whenever a fixed
\* or a calendar period does (period.rs:316-384).
InferenceReproduces ==
  q.kind = "infer" /\ Len(subject.ts) >= 2 =>
    LET series == from_timestamps(subject.ts, q.length)
        fits == {p \in {Fixed(n * Sub) : n \in 1..(Days * DayMs)} \cup {Months(n) : n \in DOMAIN MonthLen} :
                   \A k \in 2..Len(subject.ts) : add_to(p, subject.ts[1], k - 1) = subject.ts[k]}
    IN /\ IF infer(subject.ts) = NoPeriod THEN fits = {} ELSE infer(subject.ts) \in fits
       /\ series.ok =>
            subject.ts = [k \in 1..q.length |-> timestamp_at(series.series, k - 1)]

\* The grid arithmetic is exact both ways: from a period to its points and from
\* points to the period (the two statements above).
GridsAreExact == StepsAreExact /\ InferenceReproduces

-----------------------------------------------------------------------------
\* A wall clock, for comparing what a caller wrote with what it reads.
Wall(dt) == <<dt.instant, IF dt.tz = Naive THEN 0 ELSE Seconds(dt.tz), dt.tz = Naive>>

\* The constructors that take every instant, and what a getter must give back: the
\* instant, and the wall clock too unless the caller declared another reference.
PointWise == {"Single.from_timestamps", "Irregular", "Irregular.from_values"}
Written(read, given, built) ==
  /\ read.instant = given.instant
  /\ subject.reference = NoReference /\ (built.reference.kind = "zone" => zone_info(built.reference.name))
       => Wall(read) = Wall(given)

\* A series built in Python gives back the datetimes it was built from.
DatetimesReadBack(built) ==
  built.ok =>
    IF q.form \in PointWise
    THEN /\ \A i \in DOMAIN subject.dts : Written(timestamps(built)[i], subject.dts[i], built)
         /\ q.form = "Irregular" =>
              \A i \in DOMAIN subject.dts :
                LET at == PointAt(built, subject.dts[i]) IN
                at.ok => at.index = i - 1 /\ at.breakpoint = timestamps(built)[i]
    ELSE Written(initial_timestamp(built), subject.dts[1], built)

\* A spelling survives every boundary: the text of a storable period and that of a
\* reference read back as the same, and a period's division agrees with its multiples;
\* datetimes a series was built from come back with the same instant and wall clock
\* (in a zone this machine knows); a series written to Arrow reads back the same
\* series with the same reference, none included; and a foreign table's instants are
\* taken exactly or refused; a series built in Python gives back the datetimes it was
\* built from.  The zone name that is also the metadata's word for "none"
\* is excepted (period.rs:398-593, time_reference.rs:88-268,
\* infrastore-py lib.rs:144-401, 838-1412).
SpellingsReadBack ==
  /\ q.kind = "period" =>
       /\ is_irregular(subject.p) \/ WholeMs(subject.p.n) => from_iso8601(to_iso8601(subject.p)) = subject.p
       /\ is_positive(subject.p) /\ is_positive(q.r) /\ divide_into(subject.p, q.r) # NoCount =>
            [subject.p EXCEPT !.n = @ * divide_into(subject.p, q.r)] = q.r
  /\ q.kind = "text" /\ subject.r # NoReference /\ validate(subject.r) =>
       parse(as_storage_string(subject.r)) = subject.r
  /\ q.kind = "spell" =>
       LET r == vector_reference(subject.dts) IN
       r \notin {BadReference, NoReference} /\ (r.kind = "zone" => zone_info(r.name)) =>
         \A i \in DOMAIN subject.dts :
           Wall(spell_instant(extract(subject.dts[i]).instant, r)) = Wall(subject.dts[i])
  /\ q.kind = "export" /\ q.r # Zone(UNSPECIFIED_REFERENCE)
     /\ validate_data(subject) /\ validate_time_reference(subject, q.r) /\ NoInstant \notin Range(Instants(subject)) =>
       LET back == from_arrow(subject.type, to_arrow(subject, q.r), NoReference) IN
       \/ back = [ok |-> TRUE, series |-> subject, reference |-> q.r]
       \/ ~back.ok /\ subject.type = "SingleTimeSeries" /\ subject.length = 0
  /\ q.kind = "import" =>
       LET read  == from_arrow(q.as, subject, q.declared)
           ticks == CASE subject.unit = "s" -> DayTicks [] subject.unit = "ms" -> Sub [] OTHER -> 1
       IN read.ok =>
            /\ Instants(read.series) = [k \in DOMAIN subject.raw |-> subject.raw[k] * ticks]
            /\ q.declared = NoReference =>
                 (read.reference = Zoneless <=> subject.zone = NoText)
  /\ q.kind = "construct" => DatetimesReadBack(Construct(q.form, subject @@ q))

\* A series built from values decodes to the rows it was given, and the tables of its
\* windows carry their dates and rows.
RowsReadBack(built) ==
  built.ok =>
    \A rows \in {decode(built.element_type, built.array).values} :
      /\ \A i \in DOMAIN q.rows : decoded_to_py(built.element_type, rows[i]) = q.rows[i]
      /\ q.form = "Deterministic.from_values" =>
           LET tables == to_arrow_windows(built) IN
           \A k \in DOMAIN tables, s \in 1..compute_h(q.horizon, q.resolution) :
             /\ tables[k].stamps[s]
                  = subject.dts[1].instant + (k * q.interval.n) + (s - 1) * q.resolution.n
             /\ Unpacked(built.element_type, tables[k].column[s]) = rows[(s - 1) * q.count + k + 1]

\* Composite values packed for storage unpack to the rows they were given as (the
\* fields of the element type), under a type that agrees with any declaration, and
\* what is packed passes the check every write makes; what was decoded can be given
\* back (codec.rs:96-360, element_type.rs:122-249, infrastore-py lib.rs:5850-6237).
ValuesReadBack ==
  /\ q.kind = "construct" /\ "rows" \in DOMAIN q => RowsReadBack(Construct(q.form, subject @@ q))
  /\ q.kind = "values" =>
    \A s \in {from_values(subject.rows, q.declared, q.steps)} :
    s.ok =>
      LET et   == s.element_type
          back == decode(et, s.array)
          rows == [i \in DOMAIN back.values |-> decoded_to_py(et, back.values[i])]
      IN /\ q.declared \in {Undeclared, et}
         /\ back.ok /\ Len(back.values) = Len(subject.rows)
         /\ \A i \in DOMAIN rows :
              IF Fields(et) = {} THEN rows[i] = subject.rows[i]
              ELSE \A f \in Fields(et) : rows[i].fields[f] = subject.rows[i].fields[f]
         /\ from_values(rows, et, q.steps) = s

-----------------------------------------------------------------------------
TimeOf(series, k) ==
  IF series.type \in {"NonSequentialTimeSeries", "PersistentTimeSeries"}
  THEN series.timestamps[k + 1]
  ELSE add_to(IF series.type = "SingleTimeSeries" THEN series.resolution ELSE series.interval,
              series.initial, k)

Size(series) ==
  CASE series.type = "SingleTimeSeries" -> series.length
    [] series.type \in {"NonSequentialTimeSeries", "PersistentTimeSeries"} -> Len(series.timestamps)
    [] OTHER -> series.count

\* What a range of positive width asks for.  A single or persistent series covers the
\* time up to its next value; the other two have values at instants only.
RowsAsked(series, range) ==
  {k \in 0..(Size(series) - 1) :
     /\ TimeOf(series, k) # NoInstant /\ TimeOf(series, k) < range.end
     /\ IF series.type \in {"SingleTimeSeries", "PersistentTimeSeries"}
        THEN \/ series.type = "PersistentTimeSeries" /\ k = Size(series) - 1
             \/ TimeOf(series, k + 1) = NoInstant
             \/ TimeOf(series, k + 1) > range.start
        ELSE TimeOf(series, k) >= range.start}

Irregularly(series) == series.type \in {"NonSequentialTimeSeries", "PersistentTimeSeries"}

\* The grid of a series, the step after its last included, runs past the calendar's end.
LeavesCalendar(series) ==
  ~Irregularly(series) /\ \E k \in 0..Size(series) : TimeOf(series, k) = NoInstant

\* The millisecond after a series' last instant, or after the start of a forecast's only
\* window, does not exist.
EndsCalendar(series) ==
  IF Irregularly(series)
  THEN Size(series) > 0 /\ checked_add_signed(TimeOf(series, Size(series) - 1), Sub) = NoInstant
  ELSE checked_add_signed(series.initial, Sub) = NoInstant

\* The value at a lead, a step and a window of a forecast's array, by its coordinates.
Cell(f, array, lead, s, k, e) ==
  LET h   == compute_h(f.horizon, f.resolution)
      n   == array.shape[leading_dims(f.type)]
      per == Product(SubSeq(array.shape, leading_dims(f.type) + 1, Len(array.shape)))
  IN array.cells[(((lead * h + s) * n + k) * per) + e]

Leads(f) == CASE f.type = "Probabilistic" -> Len(f.percentiles)
              [] f.type = "Scenarios"     -> f.scenario_count
              [] OTHER                    -> 1

\* A read by range returns exactly the rows the range asks for, contiguous, and the
\* series it returns has the same dates as the rows it was cut from, although only
\* its first instant and its period are kept; a forecast's windows come back with every
\* lead, step and element in its place; a step function has the value it had; and an
\* accepted series is reported as corrupt only if its own grid runs past the calendar's
\* end (store.rs:3211-3518, 7195-7367, storage.rs:693-732).
RangeReadsAreExact ==
  q.kind = "range" =>
    \A r \in {materialize_array(subject, q.range)} :
    /\ r = Corrupt => LeavesCalendar(subject)
    /\ r.ok =>
      /\ q.range.start < q.range.end => r.lo..(r.hi - 1) = RowsAsked(subject, q.range)
      /\ subject.type \notin {"NonSequentialTimeSeries", "PersistentTimeSeries"} =>
           \A j \in 0..(r.hi - r.lo - 1) :
             TimeOf([subject EXCEPT !.initial = r.initial], j) = TimeOf(subject, r.lo + j)
      /\ subject.type \notin StaticTypes =>
           \A lead \in 0..(Leads(subject) - 1), j \in 0..(r.hi - r.lo - 1),
              s \in 0..(compute_h(subject.horizon, subject.resolution) - 1),
              e \in 1..Product(SubSeq(subject.shape, leading_dims(subject.type) + 1, Len(subject.shape))) :
             Cell(subject, r.array, lead, s, j, e)
               = Cell(subject, StoredArray(subject), lead, s, r.lo + j, e)
      /\ subject.type = "PersistentTimeSeries" =>
           \A t \in Bounds :
             q.range.start <= t /\ t < q.range.end =>
               row_at(SubSeq(subject.timestamps, r.lo + 1, r.hi), t) + r.lo
                 = row_at(subject.timestamps, t)

\* A window of n steps from a start on the grid, once turned into a range and read,
\* is those n rows; a bound spelled with a zone never reads a zoneless series; and only
\* a series that leaves the calendar, or ends it, is reported as corrupt
\* (store.rs:255-517).
WindowReadsAreExact ==
  q.kind = "window" /\ <<q.start, q.len, q.count>> # <<NoStart, Unset, Unset>> =>
    \A w \in {resolve(q, subject)} :
    /\ w = Corrupt => LeavesCalendar(subject) \/ EndsCalendar(subject)
    /\ w.ok =>
      \A r \in {materialize_array(subject, w.range)} :
      LET n    == IF subject.type \in StaticTypes THEN q.len ELSE q.count
          from == IF q.start = NoStart THEN TimeOf(subject, 0) ELSE q.start
      IN /\ r.ok => /\ TimeOf(subject, r.lo) = from
                    /\ r.hi - r.lo = IF n = Unset THEN Size(subject) - r.lo ELSE n
                    /\ q.start = NoStart \/ q.zoneless = subject.zoneless
         /\ r = Corrupt => LeavesCalendar(subject)
         /\ ~r.ok => \/ q.start # NoStart /\ q.zoneless # subject.zoneless
                     \/ subject.type \notin {"NonSequentialTimeSeries", "PersistentTimeSeries"}

\* A read by time, whether asked by range or by window, returns what was asked for
\* (the two statements above).
ReadsAreExact == RangeReadsAreExact /\ WindowReadsAreExact

\* A forecast view derived from a series, read over any range: every value it reports
\* lies inside the source and carries the date of the source row it was gathered
\* from, and such a read reports the store as corrupt only if the source's own grid runs
\* past the calendar's end (store.rs:700-860, 3519-3630).
ViewsTellTheTruth ==
  q.kind = "view" =>
    \A plan \in {derive(subject, q.horizon, q.interval, q.normalize)} :
    plan.ok =>
      \A view \in {ViewOf(subject, q.horizon, plan)} :
      \A r \in {ReadView(view, subject.length, q.range)} :
      LET h == compute_h(q.horizon, subject.resolution)
      IN /\ r = Corrupt => LeavesCalendar(subject)
         /\ r.ok => \A j \in 0..(r.hi - r.lo - 1), s \in 0..(h - 1) :
              LET row == Cell(view, r.array, 0, s, j, 1) IN
              /\ row \in 1..subject.length
              /\ window_timestamp(view, r.initial, j, s)
                   = add_to(subject.resolution, subject.initial, row - 1)

-----------------------------------------------------------------------------
\* A row answers a filter: a type request spans both forms of a deterministic forecast, an
\* unset reference is not zoneless, features are contained or, when exact, equal.
Means(l, r) ==
  /\ \A c \in {"owner_id", "owner_category", "owner_type", "name"} : l[c] \in {None, Some(r[c])}
  /\ \A c \in {"component_field", "resolution", "initial_timestamp", "length", "interval"} :
       l[c] \in {None, r[c]}
  /\ \/ l.time_series_type \in {None, Some(r.type)}
     \/ l.time_series_type = Some("Deterministic") /\ r.type = "DeterministicSingleTimeSeries"
  /\ l.name_glob # None => r.name \in l.name_glob[1]
  /\ l.zoneless # None => l.zoneless[1] = (r.time_reference = Some("zoneless"))
  /\ LET given == IF l.features = None THEN {} ELSE l.features[1] IN
     IF l.features_exact THEN given = r.features ELSE given \subseteq r.features

Sum(groups) == MapThenSumSet(LAMBDA g : g.count, groups)

\* However a question is put to the catalog the answers agree: a listing is the rows that
\* answer the filter, and only it finds something when the existence probe does, whose SQL
\* is another; a key finds its row and no other; ids come back in the caller's order; the
\* typed counts, the summaries and the totals count every row once; owners, periods and
\* forecast parameters are those of some row a listing returns; and the grid check passes
\* exactly when each resolution has one grid (metadata.rs:558-909, 1684-2550,
\* store.rs:3665-3715, 4649-4930).
QueriesAgree ==
  LET rows == subject.rows IN
  /\ q.kind = "list" =>
       LET f == into(q.l) meant == {r \in rows : Means(q.l, r)} IN
       /\ list(rows, f) = meant
       /\ exists(rows, f) = (meant # {})
       /\ list_names(rows, f) = {r.name : r \in meant}
       /\ list_owner_types(rows, f) = {r.owner_type : r \in meant}
       /\ \A axes \in SUBSET SetOf(Values(CatalogRows, "timestamps_hash")) :
            list_inner(rows, f, Some(axes)).ok
              = \A r \in meant : r.timestamps_hash # None => r.timestamps_hash[1] \in axes
  /\ q.kind = "ids" =>
       LET r == list_metadata_by_ids(rows, q.ids) chunks == list_by_ids(rows, q.ids) IN
       /\ r.ok = \A i \in DOMAIN q.ids : exists_by_id(rows, q.ids[i])
       /\ r.ok => [i \in DOMAIN r.rows |-> r.rows[i].id] = q.ids
       /\ \A i \in DOMAIN q.ids : get_by_id(rows, q.ids[i]) \subseteq UNION ToSet(chunks)
       /\ \A i, j \in DOMAIN chunks : i < j => \A a \in chunks[i], b \in chunks[j] : a.id < b.id
  /\ q.kind = "count" =>
       LET asked == list(rows, into([ListFilter EXCEPT !.time_series_type = q.t]))
           total == get_time_series_counts(rows)
           grids == static_grids(rows, q.resolution, Some(q.category))
           forecasts == {r \in rows : /\ is_forecast(r.type) /\ q.resolution \in {None, r.resolution}
                                      /\ q.interval \in {None, r.interval}}
           parameters == get_forecast_parameters(rows, q.resolution, q.interval)
       IN /\ \A r \in rows : list(rows, identity_filter(KeyOf(r))) = {r}
          /\ Sum(static_summary(rows)) = total.static_time_series
          /\ Sum(forecast_summary(rows)) = total.forecasts
          /\ Sum(time_series_count_summary(rows)) = total.static_time_series + total.forecasts
          /\ total.static_time_series + total.forecasts = Cardinality(rows)
          /\ distinct_periods(rows, "resolution", q.t) = SetOf(Values(asked, "resolution"))
          /\ distinct_periods(rows, "interval", q.t) = SetOf(Values(asked, "interval"))
          /\ list_owner_ids(rows, q.category, q.t, q.resolution)
               = {r.owner_id : r \in {x \in asked : /\ x.owner_category = q.category
                                                    /\ q.resolution \in {None, x.resolution}}}
          /\ (parameters = {}) = (forecasts = {})
          /\ \A p \in parameters : \E r \in forecasts : \A c \in DOMAIN p : p[c] = r[c]
          /\ grids.ok => \A r, s \in rows :
               /\ {r.type, s.type} = {"SingleTimeSeries"} /\ {r.owner_category, s.owner_category} = {q.category}
               /\ r.resolution = s.resolution /\ q.resolution \in {None, r.resolution}
               => r.initial_timestamp = s.initial_timestamp /\ r.length = s.length
          /\ LET d == time_series_counts_detailed(rows) IN
             /\ d.components_with_time_series + d.supplemental_attributes_with_time_series
                  = total.components_with_time_series
             /\ d.static_time_series_count + d.forecast_count >= count_distinct_arrays(rows)
          /\ LET d == distinct_time_references(rows)
                 Zoned(b) == exists(rows, into([ListFilter EXCEPT !.zoneless = Some(b)]))
             IN Zoned(TRUE) = ("zoneless" \in d.references)
                /\ Zoned(FALSE) = (d.unspecified \/ d.references \ {"zoneless"} # {})
          /\ \A x \in ToSet(TypeNames) :
               Cardinality(list_identities(rows, x))
                 = Cardinality(list(rows, [MetadataFilter EXCEPT !.time_series_type = Exact(x)]))
          /\ LET hashes == {a[1] : a \in referenced_arrays(rows)} IN
             /\ Cardinality(hashes) = count_distinct_arrays(rows)
             /\ MapThenSumSet(LAMBDA h : count_array_references(rows, h)[1] + count_array_references(rows, h)[2], hashes)
                  = Cardinality(OfCodes(rows, {code("SingleTimeSeries"), code("DeterministicSingleTimeSeries")}))
             /\ \A h \in hashes : element_type_for_hash(rows, h) = {a[2] : a \in {x \in referenced_arrays(rows) : x[1] = h}}

\* Every component goes by one label wherever it stands.
OneLabel(rows, ends) ==
  \A a, b \in rows, e, f \in ends :
    a[id_column(e)] = b[id_column(f)] => a[type_column(e)] = b[type_column(f)]

\* Associations stay what the caller made them: no pair twice and no id reused, a refused
\* call changes nothing, a bulk add is all or nothing and its rows list in the order they
\* were given, a component that moves keeps its edges under its new id, takes the label the
\* destination goes by and brings no second one, and counts, ids and probes agree with the
\* listing (metadata.rs:204-525, 2552-3010, store.rs:4940-5254).
AssociationsHold ==
  LET t == subject.table
      Kept(r) == Unique(r.table.rows) /\ (~r.ok => r.table = t)
                 /\ \A x \in r.table.rows : x.id <= r.table.seq
  IN
  /\ q.kind = "links" =>
       LET listed == assoc_list(t, q.f) IN
       /\ \A i, j \in DOMAIN listed : i < j => listed[i].id < listed[j].id
       /\ assoc_count(t, q.f) = Len(listed) /\ assoc_has(t, q.f) = (listed # <<>>)
       /\ \A e \in {"left", "right"} :
            /\ assoc_ids(t, q.f, e) = {listed[i][id_column(e)] : i \in DOMAIN listed}
            /\ count_distinct(t, q.f, e) <= assoc_count(t, q.f)
            /\ q.f = EndpointFilter => Sum(assoc_counts_by_type(t, e)) = Len(listed)
       /\ q.f = EndpointFilter => Sum(supplemental_attribute_summary(t)) = Len(listed)
       /\ Some({}) \in {q.f.left_types, q.f.right_types} => listed = <<>>
  /\ q.kind = "add" =>
       LET r == add_associations(t, q.links) IN
       /\ Kept(r)
       /\ r.ok => /\ \A i \in DOMAIN q.links : \A x \in t.rows : r.out[i] > x.id
                  /\ LET new == SubSeq(assoc_list(r.table, EndpointFilter), Cardinality(t.rows) + 1,
                                        Cardinality(r.table.rows))
                     IN [i \in DOMAIN new |-> <<new[i].left_id, new[i].right_id>>]
                          = [i \in DOMAIN q.links |-> <<q.links[i].left_id, q.links[i].right_id>>]
  /\ q.kind = "remove" =>
       LET r == assoc_delete(t, q.f) IN
       Kept(r) /\ ~assoc_has(r.table, q.f) /\ Cardinality(r.table.rows) = Cardinality(t.rows) - r.out
  /\ q.kind = "move" =>
       LET ends == IF q.both THEN {"left", "right"} ELSE {"left"}
           Moved(x) == [e \in ends |-> IF x[id_column(e)] = q.old THEN q.new ELSE x[id_column(e)]]
       IN \A r \in IF q.both THEN replace_parent_child_component_id(t, q.old, q.new)
                             ELSE replace_supplemental_attribute_component_id(t, q.old, q.new) :
            /\ Kept(r)
            /\ q.old = q.new => r.ok /\ r.table = t
            /\ r.ok => \A x \in t.rows : \E y \in r.table.rows :
                 y.id = x.id /\ \A e \in ends : y[id_column(e)] = Moved(x)[e]
            /\ OneLabel(t.rows, ends) => OneLabel(r.table.rows, ends)
  /\ q.kind = "attribute" =>
       LET a == subject.attributes
           r == IF q.value = None THEN remove_store_attribute(a, q.key)
                ELSE set_store_attribute(a, q.key, q.value[1])
       IN /\ r.ok => get_store_attribute(r.table, q.key) = q.value
          /\ \A k \in (DOMAIN a \cup DOMAIN r.table) \ {q.key} :
               get_store_attribute(r.table, k) = get_store_attribute(a, k)
          /\ is_empty({}, {}, r.table) => DOMAIN a \subseteq {q.key}

\* The rule as the reference documentation states it for every type
\* (docs/src/reference/rust-api.md:480): an empty range selects nothing.
EmptyRangeSelectsNothing ==
  q.kind = "range" /\ q.range.start = q.range.end =>
    LET r == materialize_array(subject, q.range) IN r.ok => r.lo = r.hi

\* What the integrity error is documented to mean, "on-disk inconsistency detected"
\* (docs/src/reference/python-api.md:1675), and no store here has one.
CorruptMeansDamage ==
  q.kind = "range" => materialize_array(subject, q.range) # Corrupt

\* The rule as the Arrow import states it (infrastore-py lib.rs:1056, 989-994):
\* from_arrow is the inverse of to_arrow, a recorded reference included.
ArrowKeepsEveryReference ==
  q.kind = "export" /\ validate(q.r) /\ subject.type = "NonSequentialTimeSeries" =>
    from_arrow(subject.type, to_arrow(subject, q.r), NoReference).reference = q.r
=============================================================================
