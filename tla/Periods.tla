----------------------------- MODULE Periods -----------------------------
(* Periods and instants (types/period.rs, timestamps.rs): the grid         *)
(* arithmetic every read and every forecast rests on.                      *)
(*                                                                         *)
(* The calendar is small and has a last day, so that month ends clamp and  *)
(* additions run off the end within reach.  An instant is a number of      *)
(* ticks, Sub ticks to a millisecond: a query bound may be finer than the  *)
(* millisecond every stored instant is held to.                            *)
EXTENDS Integers, Sequences, FiniteSets, FiniteSetsExt

CONSTANTS MonthLen,   \* days in each month of the calendar
          DayMs,      \* milliseconds in a day
          Sub         \* ticks in a millisecond

ASSUME CalendarAssumption ==
  /\ MonthLen \in Seq(Nat \ {0}) /\ MonthLen # <<>>
  /\ {DayMs, Sub} \subseteq Nat \ {0}

-----------------------------------------------------------------------------
(* The calendar: chrono's DateTime<Utc>. *)

DayTicks == DayMs * Sub

MonthStart[m \in 1..(Len(MonthLen) + 1)] ==
  IF m = 1 THEN 0 ELSE MonthStart[m - 1] + MonthLen[m - 1]

Days    == MonthStart[Len(MonthLen) + 1]
Instant == 0..(Days * DayTicks - 1)

\* None: the result is outside what DateTime represents.
NoInstant == -1

MonthOf(t) == Max({m \in DOMAIN MonthLen : MonthStart[m] <= t \div DayTicks})
DayOf(t)   == t \div DayTicks - MonthStart[MonthOf(t)]

checked_add_signed(t, ticks) == IF t + ticks \in Instant THEN t + ticks ELSE NoInstant

\* The day of the month is clamped to the length of the month it lands in.
InMonth(t, m) ==
  IF m \notin DOMAIN MonthLen THEN NoInstant
  ELSE (MonthStart[m] + Min({DayOf(t), MonthLen[m] - 1})) * DayTicks + (t % DayTicks)

checked_add_months(t, n) == InMonth(t, MonthOf(t) + n)

\* Instants a write accepts (require_millisecond_precision).
WholeMs(t) == t % Sub = 0

-----------------------------------------------------------------------------
(* Periods. *)

Fixed(ticks) == [kind |-> "fixed", n |-> ticks]
Months(m)    == [kind |-> "months", n |-> m]
zero         == Fixed(0)

is_irregular(p) == p.kind = "months"
same_kind(p, q) == p.kind = q.kind

\* Duration::num_milliseconds truncates towards zero.
num_milliseconds(ticks) == IF ticks < 0 THEN -((-ticks) \div Sub) ELSE ticks \div Sub

\* The magnitude divide_into and period_ms compare.
Magnitude(p) == IF is_irregular(p) THEN p.n ELSE num_milliseconds(p.n)

is_positive(p) == Magnitude(p) > 0 /\ (is_irregular(p) \/ WholeMs(p.n))
is_zero(p)     == p.n = 0

add_to(p, t, k) ==
  IF is_irregular(p) THEN checked_add_months(t, p.n * k)
  ELSE checked_add_signed(t, num_milliseconds(p.n) * k * Sub)

months_between(a, b) == MonthOf(b) - MonthOf(a)

NoStep == -1

\* The exact step count from start to at, or NoStep for an error.
StepsIn(p, start, at, span, size) ==
  IF at < start \/ size <= 0 THEN NoStep
  ELSE IF span < 0 \/ span % size # 0 THEN NoStep
  ELSE IF add_to(p, start, span \div size) # at THEN NoStep ELSE span \div size

steps_between(p, start, at) ==
  StepsIn(p, start, at, IF is_irregular(p) THEN months_between(start, at)
                        ELSE num_milliseconds(at - start), Magnitude(p))

\* The loops that correct the calendar estimate: down while the landing is past
\* at (or nowhere), then up while the next landing is not.
Lands(p, start, k, at) == add_to(p, start, k) \in 0..at

UpFrom(p, start, at, down) ==
  Min({j \in down..(down + Len(MonthLen)) : ~Lands(p, start, j + 1, at)})

\* Fault: the calendar estimate is used as it stands.
Uncorrected(p, start, at, k) == k

Corrected(p, start, at, k) ==
  UpFrom(p, start, at, Max({j \in 0..k : j = 0 \/ Lands(p, start, j, at)}))

floor_steps(p, start, at) ==
  IF at <= start \/ Magnitude(p) <= 0 THEN 0
  ELSE IF is_irregular(p)
       THEN Corrected(p, start, at, Max({months_between(start, at) \div p.n, 0}))
       ELSE num_milliseconds(at - start) \div num_milliseconds(p.n)

\* One step further, unless the floor already lands at or past the instant.
CeilFrom(p, start, at, f) ==
  IF \E t \in {add_to(p, start, f)} : t # NoInstant /\ t >= at THEN f ELSE f + 1

ceil_steps(p, start, at) == CeilFrom(p, start, at, floor_steps(p, start, at))

\* Whether the steps offset..offset+len-1 of a grid are themselves the grid that
\* starts at their first instant.
AnchorsAt(p, initial, offset, len, anchor) ==
  \/ ~is_irregular(p)
  \/ offset = 0 \/ len < 2
  \/ anchor = NoInstant
  \/ DayOf(anchor) = DayOf(initial)
  \/ \A j \in 1..(len - 1) : add_to(p, anchor, j) = add_to(p, initial, offset + j)

sub_grid_is_anchorable(p, initial, offset, len) ==
  AnchorsAt(p, initial, offset, len, add_to(p, initial, offset))

NoCount == -1

\* How many of p make up q, or NoCount for an error.
ExactQuotient(a, b) == IF a <= 0 \/ b <= 0 \/ b % a # 0 THEN NoCount ELSE b \div a

divide_into(p, q) ==
  IF ~same_kind(p, q) THEN NoCount ELSE ExactQuotient(Magnitude(p), Magnitude(q))

-----------------------------------------------------------------------------
(* Reading a period off a vector of instants. *)

NoPeriod == [kind |-> "none", n |-> 0]

\* first_divergence finds nothing: every instant is stepped from the first.
OnGrid(p, ts) == \A k \in DOMAIN ts : k > 1 => add_to(p, ts[1], k - 1) = ts[k]

\* The month count between the first two instants that lands exactly.
confirmed_months_between(a, b) ==
  IF b <= a THEN 0
  ELSE Max({0} \cup {n \in {months_between(a, b) - d : d \in 0..1} :
                       n > 0 /\ add_to(Months(n), a, 1) = b})

\* The first of the candidates that every instant confirms.
FirstOnGrid(ts, fixed, calendar) ==
  IF OnGrid(fixed, ts) THEN fixed
  ELSE IF calendar.n > 0 /\ OnGrid(calendar, ts) THEN calendar ELSE NoPeriod

infer(ts) ==
  IF Len(ts) < 2 THEN NoPeriod
  ELSE IF ts[2] <= ts[1] THEN NoPeriod
  ELSE FirstOnGrid(ts, Fixed(ts[2] - ts[1]), Months(confirmed_months_between(ts[1], ts[2])))

-----------------------------------------------------------------------------
(* ISO-8601 text, as the components it is made of.  The units are those of *)
(* the model's calendar: YearMonths months to a year, DayMs to a day, and  *)
(* a millisecond as the smallest fraction of a second.                     *)

CONSTANT YearMonths

ASSUME YearAssumption == YearMonths \in Nat \ {0}

Part(n, unit) == IF n > 0 THEN <<[n |-> n, unit |-> unit]>> ELSE <<>>

Abs(i) == IF i < 0 THEN -i ELSE i

\* Months print as whole years where they can, a zero duration as T0S.
PartsOf(irregular, a) ==
  IF irregular /\ a # 0 /\ a % YearMonths = 0 THEN <<[n |-> a \div YearMonths, unit |-> "Y"]>>
  ELSE IF irregular THEN <<[n |-> a, unit |-> "M"]>>
  ELSE IF a = 0 THEN <<[n |-> 0, unit |-> "ms"]>>
  ELSE Part(a \div DayMs, "D") \o Part(a % DayMs, "ms")

to_iso8601(p) ==
  [negative |-> Magnitude(p) < 0, parts |-> PartsOf(is_irregular(p), Abs(Magnitude(p)))]

UnitSize == [Y |-> YearMonths, M |-> 1, D |-> DayMs, ms |-> 1]

from_iso8601(text) ==
  LET parts(units) == {i \in DOMAIN text.parts : text.parts[i].unit \in units}
      total(is)    == MapThenSumSet(LAMBDA i : text.parts[i].n * UnitSize[text.parts[i].unit], is)
      signed(n)    == IF text.negative THEN -n ELSE n
  IN IF parts({"Y", "M"}) # {} /\ parts({"D", "ms"}) # {} THEN NoPeriod
     ELSE IF parts({"Y", "M"}) # {} THEN Months(signed(total(parts({"Y", "M"}))))
     ELSE IF parts({"D", "ms"}) # {} THEN Fixed(signed(total(parts({"D", "ms"})) * Sub))
     ELSE NoPeriod
=============================================================================
