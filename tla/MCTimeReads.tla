--------------------------- MODULE MCTimeReads ---------------------------
(* A calendar of six short months; a day is two milliseconds of two ticks. *)
EXTENDS TimeReads

MCMonthLen == <<3, 2, 3, 1, 3, 2>>
MCStarts   == {0, 2, 4, 8, 12, 28}
MCBounds   == (0..14) \cup {16, 19, 20, 21, 24, 28, 29, 32, 55}
MCGrids    == {Fixed(2), Fixed(4), Fixed(6), Months(1), Months(2)}
MCOffsets  == {0, 3600, -3600, -19800, 30, -61, 86340, 86400}
MCZoneWords  == {"UTC", "Here", "Elsewhere", "utc", "zoneless", "unspecified"}
MCKnownZones == {"UTC", "Here"}

\* Seven rows: every type, both categories, all three kinds of reference, two grids of one
\* resolution, rows that differ in their features, interval or resolution only.
MCRow(id, type, over) ==
  over @@
  [id |-> id, type |-> type, owner_id |-> 1, owner_category |-> "Component", owner_type |-> "Gen",
   name |-> "load", component_field |-> None, time_reference |-> None, resolution |-> Some("PT1H"),
   initial_timestamp |-> Some(0), length |-> Some(2), interval |-> None, horizon |-> None,
   count |-> None, features |-> {}, data_hash |-> id, element_type |-> "float64",
   timestamps_hash |-> None]
MCCatalogRows ==
  {MCRow(1, "SingleTimeSeries", [data_hash |-> 1]),
   MCRow(2, "SingleTimeSeries", [features |-> {<<"k", "float", "0.0">>}, time_reference |-> Some("zoneless"),
                                 initial_timestamp |-> Some(4)]),
   MCRow(3, "DeterministicSingleTimeSeries",
         [data_hash |-> 1, length |-> None, interval |-> Some("PT1H"), horizon |-> Some("PT2H"), count |-> Some(1)]),
   MCRow(4, "Deterministic",
         [owner_id |-> 2, length |-> None, interval |-> Some("P1D"), horizon |-> Some("PT2H"), count |-> Some(2),
          time_reference |-> Some("utc"), features |-> {<<"k", "float", "0.0">>, <<"y", "int", "1">>}]),
   MCRow(5, "NonSequentialTimeSeries",
         [resolution |-> None, initial_timestamp |-> None, component_field |-> Some("rating"),
          timestamps_hash |-> Some("axis"), name |-> "gen"]),
   MCRow(6, "PersistentTimeSeries",
         [resolution |-> None, initial_timestamp |-> None, timestamps_hash |-> Some("other"),
          owner_category |-> "SupplementalAttribute", owner_type |-> "Outage"]),
   MCRow(7, "Probabilistic",
         [length |-> None, interval |-> Some("P1D"), horizon |-> Some("PT1H"), count |-> Some(1),
          owner_category |-> "SupplementalAttribute", resolution |-> Some("P1M")])}
=============================================================================
