------------------------------ MODULE XNYSClock ------------------------------
(***************************************************************************)
(* Somebody asks the XNYS calendar for the date and the phase every half   *)
(* hour, from one date to another.                                         *)
(***************************************************************************)
EXTENDS XNYSCalendar

CONSTANTS FirstSlot, LastSlot

\* Every instant asked for has a local time.
ASSUME ClockAssumption ==
  /\ FirstSlot \in Nat
  /\ LastSlot \in Nat
  /\ FirstSlot <= LastSlot
  /\ ToLocal(FirstSlot) # None

VARIABLES
  now_utc,
  today,  \* what the calendar says of now_utc
  phase

vars == <<now_utc, today, phase>>

Init ==
  /\ now_utc = FirstSlot
  /\ today = BusinessDateFor(FirstSlot)
  /\ phase = MarketPhaseFor(FirstSlot)

\* At the same instant again, or half an hour later.
Ask ==
  /\ now_utc' \in {now_utc, now_utc + 1}
  /\ now_utc' <= LastSlot
  /\ today' = BusinessDateFor(now_utc')
  /\ phase' = MarketPhaseFor(now_utc')

Spec == Init /\ [][Ask]_vars

-----------------------------------------------------------------------------
(* Sessions *)

\* Days pass one by one and each has no session or a whole one, although local
\* time is set forward and back and dates change between two UTC dates: the
\* business date never goes back or changes within a session
\* (calendars/xnys.py 90-108).
Day == INSTANCE TradingDay WITH date <- today

DaysFollowEachOther == Day!Spec

\* The dates that lie wholly in summer time.
InSummer(date) ==
  LET year == YearOf(date)
  IN  /\ date > NthWeekday(year, 3, 6, 2)
      /\ date < NthWeekday(year, 11, 6, 1)

\* A session lasts from 13:30 to 20:00 UTC in summer and from 14:30 to 21:00 in
\* winter: the market keeps its hours in New York, and changes them in UTC from a
\* Friday to a Monday (calendars/xnys.py 27-28, 103-112).
SessionsKeepLocalHours ==
  [][LET opening == IF InSummer(today) THEN 27 ELSE 29
     IN  /\ phase # "MARKET_OPEN" /\ phase' = "MARKET_OPEN" =>
              now_utc' % SlotsPerDay = opening
         /\ phase = "MARKET_OPEN" /\ phase' # "MARKET_OPEN" =>
              now_utc' % SlotsPerDay = opening + 13]_vars

-----------------------------------------------------------------------------
(***************************************************************************)
(* The days without a regular session, derived from what they are, not     *)
(* from the tables.  A holiday on a Saturday is observed the day before,   *)
(* except New Year's Day, and one on a Sunday the day after.               *)
(***************************************************************************)
Observed(date) ==
  CASE Weekday(date) = 5 -> date - 1
    [] Weekday(date) = 6 -> date + 1
    [] OTHER -> date

NewYearsDay(year) ==
  IF Weekday(Date(year, 1, 1)) = 5 THEN {} ELSE {Observed(Date(year, 1, 1))}

\* The Gregorian computus.
Easter(year) ==
  LET golden  == year % 19
      century == year \div 100
      rest    == year % 100
      lunar   == (19 * golden + century - century \div 4
                    - (century - (century + 8) \div 25 + 1) \div 3 + 15) % 30
      solar   == (32 + 2 * (century % 4) + 2 * (rest \div 4) - lunar - (rest % 4)) % 7
      shift   == (golden + 11 * lunar + 22 * solar) \div 451
      sum     == lunar + solar - 7 * shift + 114
  IN  Date(year, sum \div 31, (sum % 31) + 1)

Thanksgiving(year) == NthWeekday(year, 11, 3, 4)

HolidaysOf ==
  [year \in SupportedYears |->
  NewYearsDay(year) \cup
  {NthWeekday(year, 1, 0, 3),           \* Martin Luther King Jr. Day
   NthWeekday(year, 2, 0, 3),           \* Presidents' Day
   Easter(year) - 2,                    \* Good Friday
   NthWeekday(year, 6, 0, 1) - 7,       \* Memorial Day
   Observed(Date(year, 6, 19)),         \* Juneteenth
   Observed(Date(year, 7, 4)),          \* Independence Day
   NthWeekday(year, 9, 0, 1),           \* Labor Day
   Thanksgiving(year),
   Observed(Date(year, 12, 25))}]       \* Christmas Day

\* The day before Independence Day, the day after Thanksgiving and Christmas Eve,
\* unless the market is closed on it anyway.
EarlyClosesOf ==
  [year \in SupportedYears |->
  {date \in {Date(year, 7, 3), Thanksgiving(year) + 1, Date(year, 12, 24)} :
     Weekday(date) < 5 /\ date \notin HolidaysOf[year]}]

\* In the supported years the market has a session on exactly the weekdays that
\* are no holiday and no early close, and tells one from the other: the tables
\* have neither gaps nor dates too many (calendars/xnys.py 33-71, 93-102).
TablesAgreeWithTheRules ==
  LET year == YearOf(today)
  IN  year \in SupportedYears =>
        /\ phase = "WEEKEND" <=> Weekday(today) \in {5, 6}
        /\ phase = "HOLIDAY" <=> today \in HolidaysOf[year]
        /\ phase = "CLOSED" <=> today \in EarlyClosesOf[year]
=============================================================================
