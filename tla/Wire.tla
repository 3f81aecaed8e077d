-------------------------------- MODULE Wire --------------------------------
(* The protobuf forms of convert.rs: what a row and a read series become on *)
(* the wire and what the client makes of them.  An optional field keeps the *)
(* difference between absent and empty; a repeated field has none to keep.  *)
(* The text of an instant or a period reads back as what it spelled         *)
(* (Spellings and Periods are about that), so a text is a tagged value.     *)
EXTENDS Naturals, Sequences

CONSTANT Absent

Err(class) == [err |-> class]
Val(v)     == [val |-> v]
IsErr(r)   == "err" \in DOMAIN r
AnyErr(rs) == \E i \in DOMAIN rs : IsErr(rs[i])

\* The wire numbers of the series types, from 0.
Codes == <<"SingleTimeSeries", "NonSequentialTimeSeries", "Deterministic",
           "DeterministicSingleTimeSeries", "Probabilistic", "Scenarios",
           "PersistentTimeSeries">>

Types == {Codes[i] : i \in DOMAIN Codes}

ts_type_to_i32(t) == (CHOOSE i \in DOMAIN Codes : Codes[i] = t) - 1

\* Anything but a known number is refused.
ts_type_from_i32(n) ==
  IF n + 1 \in DOMAIN Codes THEN Val(Codes[n + 1]) ELSE Err("Convert")

\* Is `s` a text that spells a value of this kind?
IsText(s, kind) == DOMAIN s = {kind}

to_rfc3339(t) == [rfc3339 |-> t]
rfc3339(s)    == IF IsText(s, "rfc3339") THEN Val(s.rfc3339) ELSE Err("Convert")

iso8601_of(p)      == [iso |-> p]
period_from_iso(s) == IF IsText(s, "iso") THEN Val(s.iso) ELSE Err("Convert")

\* Option::map, and the transpose of a fallible one.
OptText(o, text(_)) == IF o = Absent THEN Absent ELSE text(o)
OptRead(o, read(_)) == IF o = Absent THEN Val(Absent) ELSE read(o)

opt_period(o)        == OptRead(o, period_from_iso)
parse_opt_rfc3339(o) == OptRead(o, rfc3339)

\* unwrap_or_default of an optional list, and the test that takes its place.
Listed(o)    == IF o = Absent THEN <<>> ELSE o
Unlisted(s)  == IF s = <<>> THEN Absent ELSE s

Texts(ts, text(_)) == [i \in DOMAIN ts |-> text(ts[i])]
Reads(ts, read(_)) == IF \E i \in DOMAIN ts : IsErr(read(ts[i])) THEN Err("Convert")
                      ELSE Val([i \in DOMAIN ts |-> read(ts[i]).val])

\* The tokens this build knows for a unit system, an element type, a reference.
CONSTANT Tokens
known(o) == IF o = Absent \/ o \in Tokens THEN Val(o) ELSE Err("Convert")

\* A feature value with no arm set is refused, the rest are taken as they are.
features_to_pb(f)   == [k \in DOMAIN f |-> [arm |-> f[k]]]
features_from_pb(f) ==
  IF \E k \in DOMAIN f : f[k].arm = Absent THEN Err("Convert")
  ELSE Val([k \in DOMAIN f |-> f[k].arm])

-----------------------------------------------------------------------------
(* A catalog row.                                                          *)

metadata_to_pb(m) ==
  [m EXCEPT !.type        = ts_type_to_i32(@),
            !.initial     = OptText(@, to_rfc3339),
            !.resolution  = OptText(@, iso8601_of),
            !.timestamps  = Texts(Listed(@), to_rfc3339),
            !.percentiles = Listed(@),
            !.features    = features_to_pb(@)]

metadata_from_pb(w) ==
  LET type  == ts_type_from_i32(w.type)
      init  == parse_opt_rfc3339(w.initial)
      res   == opt_period(w.resolution)
      stamps == Reads(w.timestamps, rfc3339)
      feats == features_from_pb(w.features)
      basis == known(w.basis)
      ref   == known(w.reference)
  IN  IF AnyErr(<<type, init, res, stamps, feats, basis, ref>>)
      THEN Err("Convert")
      ELSE Val([w EXCEPT !.type        = type.val,
                         !.initial     = init.val,
                         !.resolution  = res.val,
                         !.timestamps  = Unlisted(stamps.val),
                         !.percentiles = Unlisted(@),
                         !.features    = feats.val])

-----------------------------------------------------------------------------
(* A read series.  The fields a type does not use stay at their defaults,   *)
(* and the client fills its struct only from the ones its type does.        *)

IrregularTypes == {"NonSequentialTimeSeries", "PersistentTimeSeries"}
Forecasts == {"Deterministic", "DeterministicSingleTimeSeries", "Probabilistic", "Scenarios"}

\* application_data is left out of every response.
time_series_data_to_read_resp(d) ==
  [type        |-> ts_type_to_i32(d.type),
   initial     |-> IF d.type \in IrregularTypes THEN [text |-> ""] ELSE to_rfc3339(d.initial),
   resolution  |-> IF d.type \in IrregularTypes THEN [text |-> ""] ELSE iso8601_of(d.resolution),
   timestamps  |-> IF d.type \in IrregularTypes THEN Texts(d.timestamps, to_rfc3339) ELSE <<>>,
   count       |-> IF d.type \in Forecasts THEN d.count ELSE 0,
   percentiles |-> IF d.type = "Probabilistic" THEN d.percentiles ELSE <<>>,
   scenarios   |-> IF d.type = "Scenarios" THEN d.scenarios ELSE 0,
   shape       |-> d.shape,
   bytes       |-> d.bytes,
   basis       |-> d.basis,
   reference   |-> d.reference]

\* The constructors check the array against the fields: [n] for an irregular
\* series, [H, count] for a forecast, after the percentiles or the scenarios.
ConstructorAccepts(d) ==
  CASE d.type \in IrregularTypes ->
         /\ d.shape[1] = Len(d.timestamps)
         /\ \A i \in 1..(Len(d.timestamps) - 1) : d.timestamps[i] < d.timestamps[i + 1]
    [] d.type = "Probabilistic" ->
         /\ d.percentiles # <<>>
         /\ Len(d.shape) > 2 /\ d.shape[1] = Len(d.percentiles) /\ d.shape[3] = d.count
    [] d.type = "Scenarios" ->
         Len(d.shape) > 2 /\ d.shape[1] = d.scenarios /\ d.shape[3] = d.count
    [] d.type = "Deterministic" -> Len(d.shape) > 1 /\ d.shape[2] = d.count
    [] OTHER -> TRUE

read_resp_to_time_series_data(w) ==
  LET type   == ts_type_from_i32(w.type)
      regular == ~IsErr(type) /\ type.val \notin IrregularTypes
      init   == IF regular THEN rfc3339(w.initial) ELSE Val(Absent)
      res    == IF regular THEN period_from_iso(w.resolution) ELSE Val(Absent)
      stamps == Reads(w.timestamps, rfc3339)
      basis  == known(w.basis)
      ref    == known(w.reference)
      d      == [type        |-> IF type.val = "DeterministicSingleTimeSeries"
                                 THEN "Deterministic" ELSE type.val,
                 initial     |-> init.val,
                 resolution  |-> res.val,
                 timestamps  |-> IF regular THEN Absent ELSE stamps.val,
                 count       |-> IF type.val \in Forecasts THEN w.count ELSE Absent,
                 percentiles |-> IF type.val = "Probabilistic" THEN w.percentiles ELSE Absent,
                 scenarios   |-> IF type.val = "Scenarios" THEN w.scenarios ELSE Absent,
                 shape       |-> w.shape,
                 bytes       |-> w.bytes,
                 basis       |-> basis.val,
                 reference   |-> ref.val,
                 app         |-> Absent]
  IN  IF AnyErr(<<type, init, res, stamps, basis, ref>>) THEN Err("Convert")
      ELSE IF ConstructorAccepts(d) THEN Val(d) ELSE Err("Convert")

-----------------------------------------------------------------------------
(* A row of a summary: a type, an optional grid and a count.               *)

summary_row_to_pb(r) ==
  [r EXCEPT !.type = ts_type_to_i32(@), !.initial = OptText(@, to_rfc3339),
            !.resolution = OptText(@, iso8601_of)]

summary_row_from_pb(w) ==
  LET type == ts_type_from_i32(w.type)
      init == parse_opt_rfc3339(w.initial)
      res  == opt_period(w.resolution)
  IN  IF AnyErr(<<type, init, res>>) THEN Err("Convert")
      ELSE Val([w EXCEPT !.type = type.val, !.initial = init.val, !.resolution = res.val])
=============================================================================
