---------------------------- MODULE XNYSCalendar ----------------------------
(***************************************************************************)
(* The XNYS reference calendar (calendars/xnys.py).  Time is counted in    *)
(* slots of half an hour since 0001-01-01T00:00Z, where datetime begins:   *)
(* everything the calendar distinguishes happens at the edge of a slot.    *)
(* A date is its proleptic Gregorian ordinal, as in date.toordinal().      *)
(***************************************************************************)
EXTENDS Integers

CONSTANT None  \* no local time: the conversion raises OverflowError

SlotsPerDay == 48

\* A local date, the slot of the local day, and whether the offset from UTC is no
\* whole number of minutes.
LocalTimes == [date : Int, time : 0 .. SlotsPerDay - 1, odd : BOOLEAN]

ASSUME LocalAssumption == None \notin Int \cup LocalTimes

-----------------------------------------------------------------------------
(* Dates: datetime.date *)

\* Days in the years before year.
DaysBefore(year) ==
  LET y == year - 1 IN 365 * y + y \div 4 - y \div 100 + y \div 400

IsLeap(year) == DaysBefore(year + 1) - DaysBefore(year) = 366

CumulativeDays == <<0, 31, 59, 90, 120, 151, 181, 212, 243, 273, 304, 334>>

Date(year, month, day) ==
  DaysBefore(year) + CumulativeDays[month] + day
    + (IF month > 2 /\ IsLeap(year) THEN 1 ELSE 0)

InYear(date, year) == date > DaysBefore(year) /\ date <= DaysBefore(year + 1)

YearOf(date) ==
  LET guess == (400 * date) \div 146097
  IN  CHOOSE year \in guess .. guess + 2 : InYear(date, year)

\* Monday is 0, as in date.weekday().
Weekday(date) == (date + 6) % 7

\* The nth day of a month that falls on a weekday.
NthWeekday(year, month, weekday, nth) ==
  LET first == Date(year, month, 1)
  IN  first + ((weekday - Weekday(first)) % 7) + 7 * (nth - 1)

-----------------------------------------------------------------------------
(***************************************************************************)
(* The time zone database, for America/New_York.  Local mean time, 4:56:02 *)
(* behind UTC, ended on 18 November 1883 at 17:00 UTC; at the edge of a    *)
(* slot it is in the same slot of the local day as a time 5 h behind.      *)
(* Summer time begins and ends at 02:00 local time, by the rule in force   *)
(* since 2007, which the model takes for all years since: outside the      *)
(* supported ones the calendar asks for nothing but the date.              *)
(***************************************************************************)
InLocalMeanTime(now_utc) == now_utc < (Date(1883, 11, 18) - 1) * SlotsPerDay + 34

SummerBegins(year) == (NthWeekday(year, 3, 6, 2) - 1) * SlotsPerDay + 14
SummerEnds(year) == (NthWeekday(year, 11, 6, 1) - 1) * SlotsPerDay + 12

\* How far New York is behind UTC.
Behind(now_utc) ==
  LET year == YearOf(now_utc \div SlotsPerDay + 1)
  IN  IF /\ ~InLocalMeanTime(now_utc)
         /\ now_utc >= SummerBegins(year) /\ now_utc < SummerEnds(year)
        THEN 8 ELSE 10

\* Mutant: the offset of winter all year round.
ToLocalWinter(now_utc) ==
  IF now_utc < 10 THEN None
  ELSE [date |-> (now_utc - 10) \div SlotsPerDay + 1,
        time |-> (now_utc - 10) % SlotsPerDay,
        odd  |-> InLocalMeanTime(now_utc)]

\* datetime.astimezone
ToLocal(now_utc) ==
  LET local == now_utc - Behind(now_utc)
  IN  IF local < 0 THEN None
      ELSE [date |-> local \div SlotsPerDay + 1,
            time |-> local % SlotsPerDay,
            odd  |-> InLocalMeanTime(now_utc)]

-----------------------------------------------------------------------------
(* The calendar *)

OpenTime == 19   \* 09:30
CloseTime == 32  \* 16:00

SupportedYears == {2025, 2026}

\* Mutant: Independence Day on the Saturday.
HolidaysUnobserved ==
  {Date(2025, md[1], md[2]) : md \in
     {<<1, 1>>, <<1, 20>>, <<2, 17>>, <<4, 18>>, <<5, 26>>, <<6, 19>>, <<7, 4>>,
      <<9, 1>>, <<11, 27>>, <<12, 25>>}}
  \cup
  {Date(2026, md[1], md[2]) : md \in
     {<<1, 1>>, <<1, 19>>, <<2, 16>>, <<4, 3>>, <<5, 25>>, <<6, 19>>, <<7, 4>>,
      <<9, 7>>, <<11, 26>>, <<12, 25>>}}

Holidays ==
  {Date(2025, md[1], md[2]) : md \in
     {<<1, 1>>, <<1, 20>>, <<2, 17>>, <<4, 18>>, <<5, 26>>, <<6, 19>>, <<7, 4>>,
      <<9, 1>>, <<11, 27>>, <<12, 25>>}}
  \cup
  {Date(2026, md[1], md[2]) : md \in
     {<<1, 1>>, <<1, 19>>, <<2, 16>>, <<4, 3>>, <<5, 25>>, <<6, 19>>, <<7, 3>>,
      <<9, 7>>, <<11, 26>>, <<12, 25>>}}

UnsupportedEarlyCloses ==
  {Date(2025, 7, 3), Date(2025, 11, 28), Date(2025, 12, 24),
   Date(2026, 11, 27), Date(2026, 12, 24)}

\* Mutant: the date is taken from the UTC instant.
BusinessDateForUtc(now_utc) == now_utc \div SlotsPerDay + 1

BusinessDateFor(now_utc) ==
  LET local == ToLocal(now_utc)
  IN  IF local = None THEN None ELSE local.date

\* The phase at a local time.
LocalPhase(local) ==
  CASE Weekday(local.date) >= 5 -> "WEEKEND"
    [] OTHER ->
       IF YearOf(local.date) \notin SupportedYears THEN "CLOSED"
       ELSE IF local.date \in Holidays THEN "HOLIDAY"
       ELSE IF local.date \in UnsupportedEarlyCloses THEN "CLOSED"
       ELSE IF local.time < OpenTime THEN "PRE_OPEN"
       ELSE IF local.time < CloseTime THEN "MARKET_OPEN"
       ELSE "POST_CLOSE"

MarketPhaseFor(now_utc) ==
  LET local == ToLocal(now_utc)
  IN  IF local = None THEN None ELSE LocalPhase(local)
=============================================================================
