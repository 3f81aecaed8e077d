---------------------------- MODULE MCReaders ----------------------------
(* The short calendar again: months of 3, 2, 3, 1, 3 and 2 days, a day of  *)
(* two milliseconds, a millisecond of two ticks.                           *)
EXTENDS Readers

Row(id, key, hash, et, owner, series) ==
  [id |-> id, key |-> key, hash |-> hash, element_type |-> et, owner |-> owner,
   view |-> FALSE, total |-> 0, series |-> series]
ViewRow(id, key, hash, et, owner, total, series) ==
  [id |-> id, key |-> key, hash |-> hash, element_type |-> et, owner |-> owner,
   view |-> TRUE, total |-> total, series |-> series]

\* Monthly series from a month's end, from a later one, and from a first of the month.
Monthly ==
  {Row(1, 2, 1, 1, 1, Single(8, Months(1), 4, FALSE)),
   Row(2, 1, 2, 2, 1, Single(8, Months(1), 4, FALSE)),
   Row(3, 3, 3, 1, 2, Single(16, Months(1), 3, FALSE))}

\* Two element types on grids that start apart.
Daily ==
  {Row(1, 3, 1, 1, 1, Single(0, Fixed(4), 4, FALSE)),
   Row(2, 2, 2, 1, 1, Single(4, Fixed(4), 3, FALSE)),
   Row(3, 1, 1, 2, 2, Single(0, Fixed(4), 4, FALSE)),
   Row(4, 4, 3, 2, 2, Single(4, Fixed(4), 3, TRUE))}

Curves ==
  {Row(1, 3, 1, 1, 1, Irregular("PersistentTimeSeries", <<0, 8>>, FALSE)),
   Row(2, 1, 2, 1, 1, Irregular("PersistentTimeSeries", <<4, 8, 12>>, FALSE)),
   Row(3, 2, 3, 2, 2, Irregular("PersistentTimeSeries", <<0, 8>>, FALSE)),
   Row(4, 4, 4, 1, 2, Irregular("NonSequentialTimeSeries", <<0, 8>>, FALSE)),
   Row(5, 5, 5, 1, 1, Irregular("NonSequentialTimeSeries", <<0, 8>>, FALSE))}

\* A dense forecast, a view with the same windows, and the view's source.
Windowed ==
  {Row(1, 3, 1, 1, 1, Forecast("Deterministic", 0, Fixed(4), Fixed(8), Fixed(4), 3, <<>>, 0, <<2, 3>>)),
   ViewRow(2, 2, 2, 1, 1, 4, Forecast("Deterministic", 0, Fixed(4), Fixed(8), Fixed(4), 3, <<>>, 0, <<>>)),
   ViewRow(3, 1, 3, 1, 2, 4, Forecast("Deterministic", 0, Fixed(4), Fixed(4), Fixed(4), 3, <<>>, 0, <<>>)),
   Row(4, 4, 2, 1, 1, Single(0, Fixed(4), 4, FALSE))}

Scenario ==
  {Row(1, 1, 1, 1, 1, Forecast("Scenarios", 0, Fixed(4), Fixed(8), Fixed(4), 3, <<>>, 2, <<2, 2, 3>>)),
   Row(2, 2, 2, 1, 2, Forecast("Scenarios", 0, Fixed(4), Fixed(4), Fixed(4), 3, <<>>, 2, <<2, 1, 3>>)),
   Row(3, 3, 3, 1, 2, Single(0, Fixed(4), 2, TRUE))}

MCMonthLen == <<3, 2, 3, 1, 3, 2>>
MCWorlds  == {Monthly, Daily, Curves, Windowed, Scenario}
MCMoments == {0, 4, 8, 16, 24}
=============================================================================
