---------------------------- MODULE Spellings ----------------------------
(* How a series' instants are spelled (types/time_reference.rs) and the    *)
(* boundaries that must keep the spelling: the stored text, Python         *)
(* datetimes and Arrow tables (infrastore-py lib.rs).                      *)
EXTENDS Windows

CONSTANTS ZoneWords,    \* words shaped like an IANA zone name
          KnownZones    \* those this machine's tz database has

\* A text is a word, or an offset spelled +HH:MM, +HHMM or +HH.
Word(w)           == [form |-> "word", word |-> w]
OffsetText(n, h, m) == [form |-> "offset", neg |-> n, h |-> h, m |-> m]

NoReference    == [kind |-> "none"]
Utc            == [kind |-> "utc"]
Zoneless       == [kind |-> "zoneless"]
FixedOffset(m) == [kind |-> "offset", minutes |-> m]
Zone(text)     == [kind |-> "zone", name |-> text]
BadReference   == [kind |-> "error"]

\* The literals are shaped like zone names too.
UTC_LITERAL           == Word("utc")
ZONELESS_LITERAL      == Word("zoneless")
UNSPECIFIED_REFERENCE == Word("unspecified")

is_iana_shaped(text) == text.form = "word" /\ text.word \in ZoneWords

\* In minutes, or NoOffset when the text is not one.
NoOffset == -1440

parse_offset(text) ==
  IF text.form # "offset" THEN NoOffset
  ELSE IF text.h \notin 0..23 \/ text.m \notin 0..59 THEN NoOffset
  ELSE IF text.neg THEN -(text.h * 60 + text.m) ELSE text.h * 60 + text.m

\* Fault: hours are taken by a division that rounds towards minus infinity.
FlooredOffset(minutes) == OffsetText(minutes < 0, Abs(minutes \div 60), minutes % 60)

format_offset(minutes) == OffsetText(minutes < 0, Abs(minutes) \div 60, Abs(minutes) % 60)

as_storage_string(r) ==
  CASE r.kind = "utc"      -> UTC_LITERAL
    [] r.kind = "zoneless" -> ZONELESS_LITERAL
    [] r.kind = "offset"   -> format_offset(r.minutes)
    [] r.kind = "zone"     -> r.name

validate(r) ==
  CASE r.kind = "offset" -> Abs(r.minutes) < 24 * 60
    [] r.kind = "zone"   -> /\ r.name \notin {UTC_LITERAL, ZONELESS_LITERAL}
                            /\ parse_offset(r.name) = NoOffset
                            /\ is_iana_shaped(r.name)
    [] OTHER             -> TRUE

parse(text) ==
  IF text = UTC_LITERAL THEN Utc
  ELSE IF text = ZONELESS_LITERAL THEN Zoneless
  ELSE IF parse_offset(text) # NoOffset THEN FixedOffset(parse_offset(text))
  ELSE IF validate(Zone(text)) THEN Zone(text) ELSE BadReference

\* is_calendar_scale, validate_time_reference: a named zone is refused where a period of
\* a day or more would drift from the zone's own clock.
is_calendar_scale(p) == IF is_irregular(p) THEN p.n # 0 ELSE Abs(p.n) >= DayTicks

validate_time_reference(series, r) ==
  /\ validate(r)
  /\ r.kind = "zone" =>
       CASE series.type = "SingleTimeSeries" -> ~is_calendar_scale(series.resolution)
         [] series.type \in {"NonSequentialTimeSeries", "PersistentTimeSeries"} -> TRUE
         [] OTHER -> ~is_calendar_scale(series.resolution) /\ ~is_calendar_scale(series.interval)

-----------------------------------------------------------------------------
(* Python datetimes.  A tzinfo is absent, the utc singleton, an offset, or  *)
(* one with a `key`; its offset is in seconds.                              *)

Naive           == [tz |-> "naive"]
UtcSingleton    == [tz |-> "utc"]
Offset(seconds) == [tz |-> "offset", seconds |-> seconds]
Keyed(key)      == [tz |-> "keyed", key |-> key]

\* datetime.timezone(timedelta(0)) is the singleton.
timezone(seconds) == IF seconds = 0 THEN UtcSingleton ELSE Offset(seconds)

\* The tz database places every zone an hour east; which offset it is does not matter.
ZoneSeconds == 3600

Seconds(tz) == CASE tz.tz = "utc" -> 0 [] tz.tz = "offset" -> tz.seconds [] OTHER -> ZoneSeconds

infer_reference(tz) ==
  IF tz.tz = "keyed" /\ validate(Zone(tz.key)) THEN Zone(tz.key)
  ELSE IF tz = UtcSingleton THEN Utc
  ELSE IF Seconds(tz) % 60 # 0 THEN BadReference
  ELSE IF Abs(Seconds(tz) \div 60) >= 24 * 60 THEN BadReference
  ELSE FixedOffset(Seconds(tz) \div 60)

\* PyInstant::extract: a naive datetime is a wall clock taken as it stands.
extract(dt) == [instant |-> dt.instant,
                reference |-> IF dt.tz = Naive THEN Zoneless ELSE infer_reference(dt.tz)]

zone_info(name) == name.form = "word" /\ name.word \in KnownZones

spell_instant(instant, r) ==
  [instant |-> instant,
   tz |-> CASE r.kind = "zoneless" -> Naive
            [] r.kind = "offset"   -> timezone(r.minutes * 60)
            [] r.kind = "zone"     -> IF zone_info(r.name) THEN Keyed(r.name) ELSE UtcSingleton
            [] OTHER               -> UtcSingleton]

\* vector_reference: one spelling for the whole vector, none for an empty one.
vector_reference(dts) ==
  IF dts = <<>> THEN NoReference
  ELSE IF \E i \in DOMAIN dts : extract(dts[i]).reference # extract(dts[1]).reference
  THEN BadReference ELSE extract(dts[1]).reference

\* DescriptorArgs::resolve: what the caller declares wins over what was inferred.
resolve_reference(declared, inferred) ==
  IF declared = NoReference THEN inferred ELSE parse(declared.text)

Declared(text) == [kind |-> "declared", text |-> text]

-----------------------------------------------------------------------------
(* Arrow tables: a timestamp column in some unit with or without a zone, and *)
(* schema metadata.  A table's descriptors other than these are copied.      *)

NoText == [form |-> "none"]

\* arrow_timestamp_type
arrow_timestamp_type(r) ==
  CASE r.kind = "zoneless" -> NoText
    [] r.kind = "offset"   -> as_storage_string(r)
    [] r.kind = "zone"     -> IF zone_info(r.name) THEN r.name ELSE Word("UTC")
    [] OTHER               -> Word("UTC")

\* A series as the extension holds it, its dates spelled out.
Instants(s) ==
  IF s.type = "SingleTimeSeries"
  THEN [k \in 1..s.length |-> add_to(s.resolution, s.initial, k - 1)] ELSE s.timestamps

arrow_metadata(r) ==
  IF r = NoReference THEN UNSPECIFIED_REFERENCE ELSE as_storage_string(r)

to_arrow(s, r) ==
  [unit |-> "ms", raw |-> [k \in DOMAIN Instants(s) |-> Instants(s)[k] \div Sub],
   zone |-> arrow_timestamp_type(r), reference |-> arrow_metadata(r),
   resolution |-> IF s.type = "SingleTimeSeries" THEN to_iso8601(s.resolution) ELSE NoText]

\* arrow_instants: finer units must divide exactly, seconds are multiplied up.  The
\* model's second is a day of DayMs milliseconds.
Millis(unit, v) == CASE unit = "s" -> v * DayMs [] unit = "us" -> v \div Sub [] OTHER -> v
arrow_instants(table) ==
  IF table.unit = "us" /\ \E k \in DOMAIN table.raw : table.raw[k] % Sub # 0
  THEN Refused
  ELSE [ok |-> TRUE, instants |-> [k \in DOMAIN table.raw |-> Millis(table.unit, table.raw[k]) * Sub]]

\* arrow_descriptor_args: the keyword, then the metadata, then the column's zone.
arrow_descriptor_args(table, declared) ==
  IF declared # NoReference THEN declared
  ELSE IF table.reference = UNSPECIFIED_REFERENCE THEN NoReference
  ELSE IF table.reference # NoText THEN Declared(table.reference)
  ELSE IF table.zone = NoText THEN Declared(ZONELESS_LITERAL)
  ELSE IF table.zone = Word("UTC") THEN Declared(UTC_LITERAL) ELSE Declared(table.zone)

\* from_arrow of each type.  A resolution, given or recorded, must generate the table's
\* own instants; without one it is inferred.
from_arrow(type, table, declared) ==
  LET read     == arrow_instants(table)
      ts       == read.instants
      inferred == infer(ts)
      p        == IF table.resolution = NoText THEN inferred ELSE from_iso8601(table.resolution)
      r        == resolve_reference(arrow_descriptor_args(table, declared), NoReference)
      series   == IF type = "SingleTimeSeries"
                  THEN Single(ts[1], p, Len(ts), FALSE) ELSE Irregular(type, ts, FALSE)
  IN IF ~read.ok \/ r = BadReference THEN Refused
     ELSE IF type # "SingleTimeSeries" /\ ~Increasing(ts) THEN Refused
     ELSE IF type = "SingleTimeSeries" /\ (ts = <<>> \/ p = NoPeriod) THEN Refused
     ELSE IF type = "SingleTimeSeries" /\ ~OnGrid(p, ts) THEN Refused
     ELSE [ok |-> TRUE, series |-> series, reference |-> r]
=============================================================================
