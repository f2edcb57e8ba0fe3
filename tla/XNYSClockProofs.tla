--------------------------- MODULE XNYSClockProofs ---------------------------
(***************************************************************************)
(* The XNYS calendar over all time, for every year and not only those its  *)
(* tables know: dates follow each other, sessions keep their hours in New  *)
(* York, and the tables are what the rules of the market give.             *)
(***************************************************************************)
EXTENDS XNYSClock, TLAPS

-----------------------------------------------------------------------------
(* Years *)

\* A year has 365 days or 366.
LEMMA YearLength ==
  ASSUME NEW year \in Int
  PROVE  /\ DaysBefore(year) \in Int
         /\ DaysBefore(year + 1) - DaysBefore(year) \in {365, 366}
  BY SMT DEF DaysBefore

\* A year ends before the next one begins.
LEMMA YearsFollowEachOther ==
  ASSUME NEW first \in Int, NEW second \in Int, first < second
  PROVE  DaysBefore(first + 1) <= DaysBefore(second)
  BY SMT DEF DaysBefore

\* YearOf looks for the year of a date where it is.
LEMMA YearIsGuessed ==
  ASSUME NEW date \in Nat, NEW guess, guess = (400 * date) \div 146097
  PROVE  /\ guess \in Int
         /\ DaysBefore(guess) < date
         /\ date <= DaysBefore(guess + 3)
  BY SMT DEF DaysBefore

\* A date lies in one year, and YearOf finds it.
LEMMA YearOfDate ==
  ASSUME NEW date \in Nat
  PROVE  /\ YearOf(date) \in Int
         /\ InYear(date, YearOf(date))
         /\ \A year \in Int : InYear(date, year) => year = YearOf(date)
  <1> DEFINE guess == (400 * date) \div 146097
  <1>1. guess \in Int /\ DaysBefore(guess) < date /\ date <= DaysBefore(guess + 3)
    BY YearIsGuessed
  <1> HIDE DEF guess
  <1>2. \E year \in guess .. guess + 2 : InYear(date, year)
    <2>1. CASE date <= DaysBefore(guess + 1)
      BY <1>1, <2>1 DEF InYear
    <2>2. CASE ~ date <= DaysBefore(guess + 1) /\ date <= DaysBefore(guess + 2)
      <3>1. InYear(date, guess + 1)
        BY <1>1, <2>2, YearLength, guess + 1 + 1 = guess + 2 DEF InYear
      <3> QED
        BY <1>1, <3>1
    <2>3. CASE ~ date <= DaysBefore(guess + 2)
      <3>1. InYear(date, guess + 2)
        BY <1>1, <2>3, YearLength, guess + 2 + 1 = guess + 3 DEF InYear
      <3> QED
        BY <1>1, <3>1
    <2> QED
      BY <2>1, <2>2, <2>3, <1>1, YearLength
  <1>3. YearOf(date) \in guess .. guess + 2 /\ InYear(date, YearOf(date))
    BY <1>2 DEF YearOf, guess
  <1>4. ASSUME NEW year \in Int, InYear(date, year)
        PROVE  year = YearOf(date)
    <2>1. YearOf(date) \in Int
      BY <1>1, <1>3
    <2>2. ~ year < YearOf(date)
      BY <1>3, <1>4, <2>1, YearLength, YearsFollowEachOther DEF InYear
    <2>3. ~ YearOf(date) < year
      BY <1>3, <1>4, <2>1, YearLength, YearsFollowEachOther DEF InYear
    <2> QED
      BY <2>1, <2>2, <2>3
  <1> QED
    BY <1>1, <1>3, <1>4

-----------------------------------------------------------------------------
(* Sundays *)

\* The nth Sunday of a month falls in the nth week of it.
LEMMA NthWeekdayType ==
  ASSUME NEW year \in Int, NEW month \in 1 .. 12, NEW nth \in Nat
  PROVE  /\ Date(year, month, 1) \in Int
         /\ NthWeekday(year, month, 6, nth) \in Int
         /\ NthWeekday(year, month, 6, nth) >= Date(year, month, 1) + 7 * (nth - 1)
         /\ NthWeekday(year, month, 6, nth) < Date(year, month, 1) + 7 * nth
         /\ Weekday(NthWeekday(year, month, 6, nth)) = 6
  <1>1. Date(year, month, 1) \in Int
    BY YearLength DEF Date, CumulativeDays
  <1>2. ASSUME NEW first \in Int
        PROVE  /\ (6 - ((first + 6) % 7)) % 7 \in 0 .. 6
               /\ (first + ((6 - ((first + 6) % 7)) % 7) + 7 * (nth - 1) + 6) % 7 = 6
    BY SMT
  <1> QED
    BY <1>1, <1>2 DEF NthWeekday, Weekday

\* Summer time begins and ends on a Sunday, well inside the year.
LEMMA ChangesOfOffset ==
  ASSUME NEW year \in Int
  PROVE  LET spring == NthWeekday(year, 3, 6, 2)
             autumn == NthWeekday(year, 11, 6, 1)
         IN  /\ spring \in Int /\ Weekday(spring) = 6
             /\ autumn \in Int /\ Weekday(autumn) = 6
             /\ spring > DaysBefore(year) + 60
             /\ spring < autumn
             /\ autumn < DaysBefore(year + 1) - 40
  <1>1. /\ Date(year, 3, 1) \in DaysBefore(year) + 60 .. DaysBefore(year) + 61
        /\ Date(year, 11, 1) \in DaysBefore(year) + 305 .. DaysBefore(year) + 306
    BY YearLength DEF Date, CumulativeDays
  <1>2. /\ NthWeekday(year, 3, 6, 2) \in Int
        /\ NthWeekday(year, 3, 6, 2) >= Date(year, 3, 1) + 7
        /\ NthWeekday(year, 3, 6, 2) < Date(year, 3, 1) + 14
        /\ Weekday(NthWeekday(year, 3, 6, 2)) = 6
    BY NthWeekdayType
  <1>3. /\ NthWeekday(year, 11, 6, 1) \in Int
        /\ NthWeekday(year, 11, 6, 1) >= Date(year, 11, 1)
        /\ NthWeekday(year, 11, 6, 1) < Date(year, 11, 1) + 7
        /\ Weekday(NthWeekday(year, 11, 6, 1)) = 6
    BY NthWeekdayType
  <1> QED
    BY <1>1, <1>2, <1>3, YearLength

-----------------------------------------------------------------------------
(***************************************************************************)
(* Local time.  From one slot to the next it moves on by one slot too; but *)
(* when the offset changes, it moves within the Sunday.                    *)
(***************************************************************************)

\* The date of a slot in UTC.
UTCDate(slot) == slot \div SlotsPerDay + 1

LEMMA UTCDateType ==
  ASSUME NEW slot \in Nat
  PROVE  UTCDate(slot) \in Nat /\ UTCDate(slot) >= 1
  BY DEF UTCDate, SlotsPerDay

\* Local mean time ended after the summer of 1883.
LEMMA LocalMeanTimeEnds ==
  /\ \A slot \in Nat : InLocalMeanTime(slot) <=> slot < 33009970
  /\ DaysBefore(1883) = 687386 /\ DaysBefore(1884) = 687751
  <1>1. /\ DaysBefore(1883) = 687386 /\ DaysBefore(1884) = 687751
        /\ ~IsLeap(1883)
    BY SMT DEF DaysBefore, IsLeap
  <1>2. Date(1883, 11, 18) = 687708
    BY SMT, <1>1 DEF Date, CumulativeDays
  <1> QED
    BY SMT, <1>1, <1>2 DEF InLocalMeanTime, SlotsPerDay

\* The offset since, by the year in which a slot lies.
LEMMA BehindInYear ==
  ASSUME NEW slot \in Nat, NEW year \in Int, InYear(UTCDate(slot), year),
         ~InLocalMeanTime(slot)
  PROVE  Behind(slot) = IF slot >= SummerBegins(year) /\ slot < SummerEnds(year)
                          THEN 8 ELSE 10
  <1>1. year = YearOf(UTCDate(slot))
    BY YearOfDate, UTCDateType
  <1> QED
    BY <1>1 DEF Behind, UTCDate

\* Around the New Year New York is ten slots behind, so that the change from one
\* slot to the next follows the rule of one year.
LEMMA BehindAfterLocalMeanTime ==
  ASSUME NEW slot \in Nat, ~InLocalMeanTime(slot)
  PROVE  \E year \in Int :
           \A later \in {slot, slot + 1} :
             Behind(later) = IF later >= SummerBegins(year) /\ later < SummerEnds(year)
                               THEN 8 ELSE 10
  <1> DEFINE year == YearOf(UTCDate(slot))
  <1>1. year \in Int /\ InYear(UTCDate(slot), year)
    BY UTCDateType, YearOfDate
  <1> HIDE DEF year
  <1>2. Behind(slot) = IF slot >= SummerBegins(year) /\ slot < SummerEnds(year)
                         THEN 8 ELSE 10
    BY <1>1, BehindInYear
  <1>3. UTCDate(slot + 1) \in {UTCDate(slot), UTCDate(slot) + 1}
    BY DEF UTCDate, SlotsPerDay
  <1>4. ~InLocalMeanTime(slot + 1)
    BY SMT, LocalMeanTimeEnds
  <1>5. CASE InYear(UTCDate(slot + 1), year)
    BY <1>1, <1>2, <1>4, <1>5, BehindInYear
  <1>6. CASE ~ InYear(UTCDate(slot + 1), year)
    <2>1. UTCDate(slot + 1) = DaysBefore(year + 1) + 1
      BY <1>1, <1>3, <1>6, YearLength, UTCDateType DEF InYear
    <2>2. InYear(UTCDate(slot + 1), year + 1)
      BY <1>1, <2>1, YearLength DEF InYear
    <2>3. Behind(slot + 1) = 10
      <3>1. Behind(slot + 1) =
              IF slot + 1 >= SummerBegins(year + 1) /\ slot + 1 < SummerEnds(year + 1)
                THEN 8 ELSE 10
        BY <1>1, <1>4, <2>2, BehindInYear
      <3>2. ~ slot + 1 >= SummerBegins(year + 1)
        BY <1>1, <2>1, ChangesOfOffset, YearLength DEF SummerBegins, UTCDate, SlotsPerDay
      <3> QED
        BY <3>1, <3>2
    <2>4. ~ slot + 1 < SummerEnds(year)
      BY <1>1, <2>1, ChangesOfOffset, YearLength DEF SummerEnds, UTCDate, SlotsPerDay
    <2> QED
      BY <1>1, <1>2, <2>3, <2>4
  <1> QED
    BY <1>5, <1>6

\* So does the change at the end of local mean time, which is after the summer.
LEMMA BehindInOneYear ==
  ASSUME NEW slot \in Nat
  PROVE  \E year \in Int :
           \A later \in {slot, slot + 1} :
             Behind(later) = IF later >= SummerBegins(year) /\ later < SummerEnds(year)
                               THEN 8 ELSE 10
  <1>1. CASE ~InLocalMeanTime(slot)
    BY <1>1, BehindAfterLocalMeanTime
  <1>2. CASE InLocalMeanTime(slot)
    <2>1. slot < 33009970
      BY <1>2, LocalMeanTimeEnds
    <2>2. ~ slot >= SummerBegins(1884) /\ ~ slot + 1 >= SummerBegins(1884)
      <3>1. /\ NthWeekday(1884, 3, 6, 2) \in Int
            /\ NthWeekday(1884, 3, 6, 2) > 687751 + 60
        BY LocalMeanTimeEnds, ChangesOfOffset
      <3> QED
        BY SMT, <2>1, <3>1 DEF SummerBegins, SlotsPerDay
    <2>3. Behind(slot) = 10
      BY <1>2 DEF Behind
    <2>4. Behind(slot + 1) = 10
      <3>1. CASE InLocalMeanTime(slot + 1)
        BY <3>1 DEF Behind
      <3>2. CASE ~InLocalMeanTime(slot + 1)
        <4>1. slot + 1 = 33009970
          BY SMT, <2>1, <3>2, LocalMeanTimeEnds
        <4>2. InYear(UTCDate(slot + 1), 1883)
          BY SMT, <4>1, LocalMeanTimeEnds DEF UTCDate, SlotsPerDay, InYear
        <4>3. Behind(slot + 1) =
                IF slot + 1 >= SummerBegins(1883) /\ slot + 1 < SummerEnds(1883)
                  THEN 8 ELSE 10
          BY <3>2, <4>2, BehindInYear
        <4>4. /\ NthWeekday(1883, 11, 6, 1) \in Int
              /\ NthWeekday(1883, 11, 6, 1) < 687691 + 7
          <5>1. Date(1883, 11, 1) = 687691
            BY SMT, LocalMeanTimeEnds DEF Date, CumulativeDays, IsLeap
          <5> QED
            BY <5>1, NthWeekdayType
        <4>5. ~ slot + 1 < SummerEnds(1883)
          BY SMT, <4>1, <4>4 DEF SummerEnds, SlotsPerDay
        <4> QED
          BY <4>3, <4>5
      <3> QED
        BY <3>1, <3>2
    <2> QED
      BY <2>2, <2>3, <2>4
  <1> QED
    BY <1>1, <1>2

\* The slot that the clocks of New York show.
Shown(slot) == slot - Behind(slot)

\* There are two offsets, so that every instant but the first few has a local time.
LEMMA BehindType ==
  ASSUME NEW slot \in Nat
  PROVE  Behind(slot) \in {8, 10}
  BY DEF Behind

\* Where the clocks show a slot, there is a local time.
LEMMA ShownIsLocal ==
  ASSUME NEW slot \in Nat, Shown(slot) \in Nat
  PROVE  ToLocal(slot) # None
  <1>1. /\ Shown(slot) \div SlotsPerDay + 1 \in Int
        /\ Shown(slot) % SlotsPerDay \in 0 .. SlotsPerDay - 1
    BY DEF SlotsPerDay
  <1>2. InLocalMeanTime(slot) \in BOOLEAN
    BY DEF InLocalMeanTime
  <1>3. [date |-> Shown(slot) \div SlotsPerDay + 1,
         time |-> Shown(slot) % SlotsPerDay,
         odd  |-> InLocalMeanTime(slot)] \in LocalTimes
    BY <1>1, <1>2 DEF LocalTimes
  <1> QED
    BY <1>3, LocalAssumption DEF ToLocal, Shown

\* What a local time is, where there is one.
LEMMA ToLocalShown ==
  ASSUME NEW slot \in Nat, ToLocal(slot) # None
  PROVE  /\ Shown(slot) \in Nat
         /\ ToLocal(slot) = [date |-> Shown(slot) \div SlotsPerDay + 1,
                             time |-> Shown(slot) % SlotsPerDay,
                             odd  |-> InLocalMeanTime(slot)]
         /\ ToLocal(slot) \in LocalTimes
         /\ ToLocal(slot).date >= 1
  BY BehindType DEF ToLocal, Shown, LocalTimes, SlotsPerDay, InLocalMeanTime

\* Local time moves on with UTC, or within a Sunday.
LEMMA LocalTimeMovesOn ==
  ASSUME NEW slot \in Nat
  PROVE  \/ Shown(slot + 1) = Shown(slot) + 1
         \/ /\ Shown(slot) \div SlotsPerDay = Shown(slot + 1) \div SlotsPerDay
            /\ Weekday(Shown(slot) \div SlotsPerDay + 1) = 6
  <1>1. PICK year \in Int :
          \A later \in {slot, slot + 1} :
            Behind(later) = IF later >= SummerBegins(year) /\ later < SummerEnds(year)
                              THEN 8 ELSE 10
    BY BehindInOneYear
  <1> DEFINE spring == NthWeekday(year, 3, 6, 2)
             autumn == NthWeekday(year, 11, 6, 1)
  <1>2. /\ spring \in Int /\ Weekday(spring) = 6
        /\ autumn \in Int /\ Weekday(autumn) = 6
        /\ spring < autumn
    BY ChangesOfOffset, YearLength
  <1>3. /\ SummerBegins(year) = (spring - 1) * 48 + 14
        /\ SummerEnds(year) = (autumn - 1) * 48 + 12
    BY DEF SummerBegins, SummerEnds, SlotsPerDay
  <1> HIDE DEF spring, autumn
  <1>4. CASE slot + 1 = SummerBegins(year)
    <2>1. Behind(slot) = 10 /\ Behind(slot + 1) = 8
      BY <1>1, <1>2, <1>3, <1>4
    <2>2. /\ Shown(slot) = (spring - 1) * 48 + 3
          /\ Shown(slot + 1) = (spring - 1) * 48 + 6
      BY <1>2, <1>3, <1>4, <2>1 DEF Shown
    <2>3. /\ Shown(slot) \div 48 = spring - 1
          /\ Shown(slot + 1) \div 48 = spring - 1
      BY <1>2, <2>2
    <2> QED
      BY <1>2, <2>3 DEF SlotsPerDay
  <1>5. CASE slot + 1 = SummerEnds(year)
    <2>1. Behind(slot) = 8 /\ Behind(slot + 1) = 10
      BY <1>1, <1>2, <1>3, <1>5
    <2>2. /\ Shown(slot) = (autumn - 1) * 48 + 3
          /\ Shown(slot + 1) = (autumn - 1) * 48 + 2
      BY <1>2, <1>3, <1>5, <2>1 DEF Shown
    <2>3. /\ Shown(slot) \div 48 = autumn - 1
          /\ Shown(slot + 1) \div 48 = autumn - 1
      BY <1>2, <2>2
    <2> QED
      BY <1>2, <2>3 DEF SlotsPerDay
  <1>6. CASE slot + 1 # SummerBegins(year) /\ slot + 1 # SummerEnds(year)
    <2>1. Behind(slot + 1) = Behind(slot)
      BY <1>1, <1>2, <1>3, <1>6
    <2> QED
      BY <2>1, BehindType DEF Shown
  <1> QED
    BY <1>4, <1>5, <1>6

\* Half an hour later the local time is the next slot of the day, the first one of
\* the next day, or another one of a Sunday.
LEMMA NextLocalTime ==
  ASSUME NEW slot \in Nat, ToLocal(slot) # None
  PROVE  LET here  == ToLocal(slot)
             there == ToLocal(slot + 1)
         IN  /\ there # None
             /\ \/ there.date = here.date /\ there.time = here.time + 1
                \/ /\ there.date = here.date + 1
                   /\ here.time = SlotsPerDay - 1 /\ there.time = 0
                \/ there.date = here.date /\ Weekday(here.date) = 6
  <1>1. /\ Shown(slot) \in Nat
        /\ ToLocal(slot).date = Shown(slot) \div SlotsPerDay + 1
        /\ ToLocal(slot).time = Shown(slot) % SlotsPerDay
    BY ToLocalShown
  <1>2. Shown(slot + 1) \in Int
    BY BehindType DEF Shown
  <1>3. CASE Shown(slot + 1) = Shown(slot) + 1
    <2>1. ToLocal(slot + 1) # None
      BY <1>1, <1>3, ShownIsLocal
    <2>2. /\ ToLocal(slot + 1).date = (Shown(slot) + 1) \div SlotsPerDay + 1
          /\ ToLocal(slot + 1).time = (Shown(slot) + 1) % SlotsPerDay
      BY <2>1, <1>3, ToLocalShown
    <2>3. ASSUME NEW shown \in Nat
          PROVE  \/ /\ (shown + 1) \div SlotsPerDay = shown \div SlotsPerDay
                    /\ (shown + 1) % SlotsPerDay = (shown % SlotsPerDay) + 1
                 \/ /\ (shown + 1) \div SlotsPerDay = shown \div SlotsPerDay + 1
                    /\ shown % SlotsPerDay = SlotsPerDay - 1
                    /\ (shown + 1) % SlotsPerDay = 0
      BY DEF SlotsPerDay
    <2> QED
      BY <1>1, <2>1, <2>2, <2>3 DEF SlotsPerDay
  <1>4. CASE /\ Shown(slot) \div SlotsPerDay = Shown(slot + 1) \div SlotsPerDay
             /\ Weekday(Shown(slot) \div SlotsPerDay + 1) = 6
    <2>1. Shown(slot + 1) \in Nat
      BY <1>1, <1>2, <1>4 DEF SlotsPerDay
    <2>2. ToLocal(slot + 1) # None
      BY <2>1, ShownIsLocal
    <2> QED
      BY <1>1, <1>4, <2>2, ToLocalShown
  <1> QED
    BY <1>3, <1>4, LocalTimeMovesOn

-----------------------------------------------------------------------------
(* The phases of a day *)

\* The days on which the calendar has a regular session.
HasSession(date) ==
  /\ Weekday(date) < 5
  /\ YearOf(date) \in SupportedYears
  /\ date \notin Holidays
  /\ date \notin UnsupportedEarlyCloses

\* A day with a session goes through three phases; any other has one.
LEMMA PhasesOfDay ==
  ASSUME NEW local \in LocalTimes
  PROVE  /\ HasSession(local.date) =>
              LocalPhase(local) = IF local.time < OpenTime THEN "PRE_OPEN"
                                  ELSE IF local.time < CloseTime THEN "MARKET_OPEN"
                                  ELSE "POST_CLOSE"
         /\ ~HasSession(local.date) =>
              /\ LocalPhase(local) \in Day!WithoutSession
              /\ \A other \in LocalTimes :
                   other.date = local.date => LocalPhase(other) = LocalPhase(local)
  <1>1. Weekday(local.date) \in Int
    BY DEF Weekday, LocalTimes
  <1>2. CASE HasSession(local.date)
    BY <1>1, <1>2 DEF HasSession, LocalPhase
  <1>3. CASE ~HasSession(local.date)
    BY <1>1, <1>3 DEF HasSession, LocalPhase, Day!WithoutSession
  <1> QED
    BY <1>2, <1>3

\* From one local time to the next, the phase takes a step of a trading day.
LEMMA DayMovesOn ==
  ASSUME NEW here \in LocalTimes, NEW there \in LocalTimes,
         \/ there.date = here.date /\ there.time = here.time + 1
         \/ /\ there.date = here.date + 1
            /\ here.time = SlotsPerDay - 1 /\ there.time = 0
         \/ there.date = here.date /\ Weekday(here.date) = 6
  PROVE  \/ there.date = here.date /\ LocalPhase(there) = LocalPhase(here)
         \/ /\ there.date = here.date
            /\ LocalPhase(here) = "PRE_OPEN" /\ LocalPhase(there) = "MARKET_OPEN"
            /\ there.time = OpenTime /\ HasSession(there.date)
         \/ /\ there.date = here.date
            /\ LocalPhase(here) = "MARKET_OPEN" /\ LocalPhase(there) = "POST_CLOSE"
            /\ there.time = CloseTime /\ HasSession(there.date)
         \/ /\ there.date = here.date + 1
            /\ LocalPhase(here) \in Day!WithoutSession \cup {"POST_CLOSE"}
            /\ LocalPhase(there) \in Day!WithoutSession \cup {"PRE_OPEN"}
  <1>1. here.time \in Int /\ there.time \in Int /\ here.date \in Int
    BY DEF LocalTimes
  <1>2. CASE there.date = here.date /\ ~HasSession(here.date)
    BY <1>2, PhasesOfDay
  <1>3. CASE /\ there.date = here.date /\ there.time = here.time + 1
             /\ HasSession(here.date)
    BY <1>1, <1>3, PhasesOfDay DEF OpenTime, CloseTime
  <1>4. CASE /\ there.date = here.date + 1
             /\ here.time = SlotsPerDay - 1 /\ there.time = 0
    BY <1>1, <1>4, PhasesOfDay DEF OpenTime, CloseTime, SlotsPerDay
  <1>5. Weekday(here.date) = 6 => ~HasSession(here.date)
    BY DEF HasSession
  <1> QED
    BY <1>2, <1>3, <1>4, <1>5

-----------------------------------------------------------------------------
(***************************************************************************)
(* The tables, by ordinals.                                                *)
(***************************************************************************)

HolidayOrdinals(year) ==
  IF year = 2025
    THEN {739252, 739271, 739299, 739359, 739397,
          739421, 739436, 739495, 739582, 739610}
    ELSE {739617, 739635, 739663, 739709, 739761,
          739786, 739800, 739866, 739946, 739975}

EarlyCloseOrdinals(year) ==
  IF year = 2025 THEN {739435, 739583, 739609}
                 ELSE {739947, 739974}

\* The supported years are no leap years; where they and their months begin.
LEMMA SupportedYearsByOrdinals ==
  /\ DaysBefore(2025) = 739251 /\ DaysBefore(2026) = 739616 /\ DaysBefore(2027) = 739981
  /\ ~IsLeap(2025) /\ ~IsLeap(2026)
  BY SMT DEF DaysBefore, IsLeap

LEMMA MonthsOf2025 ==
  ASSUME NEW day \in Int
  PROVE  /\ Date(2025, 1, day) = 739251 + day
         /\ Date(2025, 2, day) = 739282 + day
         /\ Date(2025, 4, day) = 739341 + day
         /\ Date(2025, 5, day) = 739371 + day
         /\ Date(2025, 6, day) = 739402 + day
         /\ Date(2025, 7, day) = 739432 + day
         /\ Date(2025, 9, day) = 739494 + day
         /\ Date(2025, 11, day) = 739555 + day
         /\ Date(2025, 12, day) = 739585 + day
  <1>1. Date(2025, 1, day) = 739251 + day
    BY SMT, SupportedYearsByOrdinals DEF Date, CumulativeDays
  <1>2. Date(2025, 2, day) = 739282 + day
    BY SMT, SupportedYearsByOrdinals DEF Date, CumulativeDays
  <1>3. Date(2025, 4, day) = 739341 + day
    BY SMT, SupportedYearsByOrdinals DEF Date, CumulativeDays
  <1>4. Date(2025, 5, day) = 739371 + day
    BY SMT, SupportedYearsByOrdinals DEF Date, CumulativeDays
  <1>5. Date(2025, 6, day) = 739402 + day
    BY SMT, SupportedYearsByOrdinals DEF Date, CumulativeDays
  <1>6. Date(2025, 7, day) = 739432 + day
    BY SMT, SupportedYearsByOrdinals DEF Date, CumulativeDays
  <1>7. Date(2025, 9, day) = 739494 + day
    BY SMT, SupportedYearsByOrdinals DEF Date, CumulativeDays
  <1>8. Date(2025, 11, day) = 739555 + day
    BY SMT, SupportedYearsByOrdinals DEF Date, CumulativeDays
  <1>9. Date(2025, 12, day) = 739585 + day
    BY SMT, SupportedYearsByOrdinals DEF Date, CumulativeDays
  <1> QED
    BY <1>1, <1>2, <1>3, <1>4, <1>5, <1>6, <1>7, <1>8, <1>9

LEMMA MonthsOf2026 ==
  ASSUME NEW day \in Int
  PROVE  /\ Date(2026, 1, day) = 739616 + day
         /\ Date(2026, 2, day) = 739647 + day
         /\ Date(2026, 4, day) = 739706 + day
         /\ Date(2026, 5, day) = 739736 + day
         /\ Date(2026, 6, day) = 739767 + day
         /\ Date(2026, 7, day) = 739797 + day
         /\ Date(2026, 9, day) = 739859 + day
         /\ Date(2026, 11, day) = 739920 + day
         /\ Date(2026, 12, day) = 739950 + day
  <1>1. Date(2026, 1, day) = 739616 + day
    BY SMT, SupportedYearsByOrdinals DEF Date, CumulativeDays
  <1>2. Date(2026, 2, day) = 739647 + day
    BY SMT, SupportedYearsByOrdinals DEF Date, CumulativeDays
  <1>3. Date(2026, 4, day) = 739706 + day
    BY SMT, SupportedYearsByOrdinals DEF Date, CumulativeDays
  <1>4. Date(2026, 5, day) = 739736 + day
    BY SMT, SupportedYearsByOrdinals DEF Date, CumulativeDays
  <1>5. Date(2026, 6, day) = 739767 + day
    BY SMT, SupportedYearsByOrdinals DEF Date, CumulativeDays
  <1>6. Date(2026, 7, day) = 739797 + day
    BY SMT, SupportedYearsByOrdinals DEF Date, CumulativeDays
  <1>7. Date(2026, 9, day) = 739859 + day
    BY SMT, SupportedYearsByOrdinals DEF Date, CumulativeDays
  <1>8. Date(2026, 11, day) = 739920 + day
    BY SMT, SupportedYearsByOrdinals DEF Date, CumulativeDays
  <1>9. Date(2026, 12, day) = 739950 + day
    BY SMT, SupportedYearsByOrdinals DEF Date, CumulativeDays
  <1> QED
    BY <1>1, <1>2, <1>3, <1>4, <1>5, <1>6, <1>7, <1>8, <1>9

\* The tables of the calendar.
LEMMA HolidaysByOrdinals ==
  /\ Holidays = HolidayOrdinals(2025) \cup HolidayOrdinals(2026)
  /\ UnsupportedEarlyCloses = EarlyCloseOrdinals(2025) \cup EarlyCloseOrdinals(2026)
  <1>1. {Date(2025, md[1], md[2]) : md \in
           {<<1, 1>>, <<1, 20>>, <<2, 17>>, <<4, 18>>, <<5, 26>>, <<6, 19>>, <<7, 4>>,
            <<9, 1>>, <<11, 27>>, <<12, 25>>}} = HolidayOrdinals(2025)
    <2>1. Date(2025, 1, 1) = 739252
      BY SMT, MonthsOf2025
    <2>2. Date(2025, 1, 20) = 739271
      BY SMT, MonthsOf2025
    <2>3. Date(2025, 2, 17) = 739299
      BY SMT, MonthsOf2025
    <2>4. Date(2025, 4, 18) = 739359
      BY SMT, MonthsOf2025
    <2>5. Date(2025, 5, 26) = 739397
      BY SMT, MonthsOf2025
    <2>6. Date(2025, 6, 19) = 739421
      BY SMT, MonthsOf2025
    <2>7. Date(2025, 7, 4) = 739436
      BY SMT, MonthsOf2025
    <2>8. Date(2025, 9, 1) = 739495
      BY SMT, MonthsOf2025
    <2>9. Date(2025, 11, 27) = 739582
      BY SMT, MonthsOf2025
    <2>10. Date(2025, 12, 25) = 739610
      BY SMT, MonthsOf2025
    <2> QED
      BY <2>1, <2>2, <2>3, <2>4, <2>5, <2>6, <2>7, <2>8, <2>9, <2>10 DEF HolidayOrdinals
  <1>2. {Date(2026, md[1], md[2]) : md \in
           {<<1, 1>>, <<1, 19>>, <<2, 16>>, <<4, 3>>, <<5, 25>>, <<6, 19>>, <<7, 3>>,
            <<9, 7>>, <<11, 26>>, <<12, 25>>}} = HolidayOrdinals(2026)
    <2>1. Date(2026, 1, 1) = 739617
      BY SMT, MonthsOf2026
    <2>2. Date(2026, 1, 19) = 739635
      BY SMT, MonthsOf2026
    <2>3. Date(2026, 2, 16) = 739663
      BY SMT, MonthsOf2026
    <2>4. Date(2026, 4, 3) = 739709
      BY SMT, MonthsOf2026
    <2>5. Date(2026, 5, 25) = 739761
      BY SMT, MonthsOf2026
    <2>6. Date(2026, 6, 19) = 739786
      BY SMT, MonthsOf2026
    <2>7. Date(2026, 7, 3) = 739800
      BY SMT, MonthsOf2026
    <2>8. Date(2026, 9, 7) = 739866
      BY SMT, MonthsOf2026
    <2>9. Date(2026, 11, 26) = 739946
      BY SMT, MonthsOf2026
    <2>10. Date(2026, 12, 25) = 739975
      BY SMT, MonthsOf2026
    <2> QED
      BY <2>1, <2>2, <2>3, <2>4, <2>5, <2>6, <2>7, <2>8, <2>9, <2>10 DEF HolidayOrdinals
  <1>3. UnsupportedEarlyCloses = EarlyCloseOrdinals(2025) \cup EarlyCloseOrdinals(2026)
    <2>1. Date(2025, 7, 3) = 739435
      BY SMT, MonthsOf2025
    <2>2. Date(2025, 11, 28) = 739583
      BY SMT, MonthsOf2025
    <2>3. Date(2025, 12, 24) = 739609
      BY SMT, MonthsOf2025
    <2>4. Date(2026, 11, 27) = 739947
      BY SMT, MonthsOf2026
    <2>5. Date(2026, 12, 24) = 739974
      BY SMT, MonthsOf2026
    <2> QED
      BY <2>1, <2>2, <2>3, <2>4, <2>5 DEF UnsupportedEarlyCloses, EarlyCloseOrdinals
  <1> QED
    BY <1>1, <1>2, <1>3 DEF Holidays

\* The rules of the market.
LEMMA RulesOf2025 ==
  /\ HolidaysOf[2025] = HolidayOrdinals(2025)
  /\ EarlyClosesOf[2025] = EarlyCloseOrdinals(2025)
  <1>1. HolidaysOf[2025] = HolidayOrdinals(2025)
    <2>1. NewYearsDay(2025) = {739252}
      BY SMT, MonthsOf2025 DEF NewYearsDay, Observed, Weekday
    <2>2. NthWeekday(2025, 1, 0, 3) = 739271
      BY SMT, MonthsOf2025 DEF NthWeekday, Weekday
    <2>3. NthWeekday(2025, 2, 0, 3) = 739299
      BY SMT, MonthsOf2025 DEF NthWeekday, Weekday
    <2>4. Easter(2025) - 2 = 739359
      BY SMT, MonthsOf2025 DEF Easter
    <2>5. NthWeekday(2025, 6, 0, 1) - 7 = 739397
      BY SMT, MonthsOf2025 DEF NthWeekday, Weekday
    <2>6. Observed(Date(2025, 6, 19)) = 739421
      BY SMT, MonthsOf2025 DEF Observed, Weekday
    <2>7. Observed(Date(2025, 7, 4)) = 739436
      BY SMT, MonthsOf2025 DEF Observed, Weekday
    <2>8. NthWeekday(2025, 9, 0, 1) = 739495
      BY SMT, MonthsOf2025 DEF NthWeekday, Weekday
    <2>9. Thanksgiving(2025) = 739582
      BY SMT, MonthsOf2025 DEF Thanksgiving, NthWeekday, Weekday
    <2>10. Observed(Date(2025, 12, 25)) = 739610
      BY SMT, MonthsOf2025 DEF Observed, Weekday
    <2> QED
      BY <2>1, <2>2, <2>3, <2>4, <2>5, <2>6, <2>7, <2>8, <2>9, <2>10
         DEF HolidaysOf, HolidayOrdinals, SupportedYears
  <1>2. EarlyClosesOf[2025] = EarlyCloseOrdinals(2025)
    <2>1. Date(2025, 7, 3) = 739435
      BY SMT, MonthsOf2025
    <2>2. Thanksgiving(2025) + 1 = 739583
      BY SMT, MonthsOf2025 DEF Thanksgiving, NthWeekday, Weekday
    <2>3. Date(2025, 12, 24) = 739609
      BY SMT, MonthsOf2025
    <2> QED
      BY SMT, <1>1, <2>1, <2>2, <2>3
         DEF EarlyClosesOf, EarlyCloseOrdinals, HolidayOrdinals, Weekday, SupportedYears
  <1> QED
    BY <1>1, <1>2

LEMMA RulesOf2026 ==
  /\ HolidaysOf[2026] = HolidayOrdinals(2026)
  /\ EarlyClosesOf[2026] = EarlyCloseOrdinals(2026)
  <1>1. HolidaysOf[2026] = HolidayOrdinals(2026)
    <2>1. NewYearsDay(2026) = {739617}
      BY SMT, MonthsOf2026 DEF NewYearsDay, Observed, Weekday
    <2>2. NthWeekday(2026, 1, 0, 3) = 739635
      BY SMT, MonthsOf2026 DEF NthWeekday, Weekday
    <2>3. NthWeekday(2026, 2, 0, 3) = 739663
      BY SMT, MonthsOf2026 DEF NthWeekday, Weekday
    <2>4. Easter(2026) - 2 = 739709
      BY SMT, MonthsOf2026 DEF Easter
    <2>5. NthWeekday(2026, 6, 0, 1) - 7 = 739761
      BY SMT, MonthsOf2026 DEF NthWeekday, Weekday
    <2>6. Observed(Date(2026, 6, 19)) = 739786
      BY SMT, MonthsOf2026 DEF Observed, Weekday
    <2>7. Observed(Date(2026, 7, 4)) = 739800
      BY SMT, MonthsOf2026 DEF Observed, Weekday
    <2>8. NthWeekday(2026, 9, 0, 1) = 739866
      BY SMT, MonthsOf2026 DEF NthWeekday, Weekday
    <2>9. Thanksgiving(2026) = 739946
      BY SMT, MonthsOf2026 DEF Thanksgiving, NthWeekday, Weekday
    <2>10. Observed(Date(2026, 12, 25)) = 739975
      BY SMT, MonthsOf2026 DEF Observed, Weekday
    <2> QED
      BY <2>1, <2>2, <2>3, <2>4, <2>5, <2>6, <2>7, <2>8, <2>9, <2>10
         DEF HolidaysOf, HolidayOrdinals, SupportedYears
  <1>2. EarlyClosesOf[2026] = EarlyCloseOrdinals(2026)
    <2>1. Date(2026, 7, 3) = 739800
      BY SMT, MonthsOf2026
    <2>2. Thanksgiving(2026) + 1 = 739947
      BY SMT, MonthsOf2026 DEF Thanksgiving, NthWeekday, Weekday
    <2>3. Date(2026, 12, 24) = 739974
      BY SMT, MonthsOf2026
    <2> QED
      BY SMT, <1>1, <2>1, <2>2, <2>3
         DEF EarlyClosesOf, EarlyCloseOrdinals, HolidayOrdinals, Weekday, SupportedYears
  <1> QED
    BY <1>1, <1>2

\* In a supported year the calendar's tables and the rules list the same dates, all
\* of them weekdays and none of them twice.
LEMMA TablesByTheRules ==
  ASSUME NEW year \in SupportedYears, NEW date \in Nat, InYear(date, year)
  PROVE  /\ date \in Holidays <=> date \in HolidaysOf[year]
         /\ date \in UnsupportedEarlyCloses <=> date \in EarlyClosesOf[year]
         /\ date \in HolidaysOf[year] => Weekday(date) < 5
         /\ date \in EarlyClosesOf[year] =>
              Weekday(date) < 5 /\ date \notin HolidaysOf[year]
  <1>1. CASE year = 2025
    <2>1. date > 739251 /\ date <= 739616
      <3>1. date > DaysBefore(2025) /\ date <= DaysBefore(2026)
        BY <1>1, 2025 + 1 = 2026 DEF InYear
      <3> QED
        BY SMT, <3>1, SupportedYearsByOrdinals
    <2>2. /\ HolidaysOf[year] = HolidayOrdinals(2025)
          /\ EarlyClosesOf[year] = EarlyCloseOrdinals(2025)
      BY <1>1, RulesOf2025
    <2> QED
      BY SMT, <2>1, <2>2, HolidaysByOrdinals DEF HolidayOrdinals, EarlyCloseOrdinals, Weekday
  <1>2. CASE year = 2026
    <2>1. date > 739616 /\ date <= 739981
      <3>1. date > DaysBefore(2026) /\ date <= DaysBefore(2027)
        BY <1>2, 2026 + 1 = 2027 DEF InYear
      <3> QED
        BY SMT, <3>1, SupportedYearsByOrdinals
    <2>2. /\ HolidaysOf[year] = HolidayOrdinals(2026)
          /\ EarlyClosesOf[year] = EarlyCloseOrdinals(2026)
      BY <1>2, RulesOf2026
    <2> QED
      BY SMT, <2>1, <2>2, HolidaysByOrdinals DEF HolidayOrdinals, EarlyCloseOrdinals, Weekday
  <1> QED
    BY <1>1, <1>2 DEF SupportedYears

-----------------------------------------------------------------------------
(* The hours of a session *)

\* The hours of a session fall on the UTC date of the same number, which is no
\* Sunday and not in local mean time, so that the season decides on the offset.
LEMMA OffsetOfSession ==
  ASSUME NEW slot \in Nat, ToLocal(slot) # None,
         ToLocal(slot).time \in {OpenTime, CloseTime},
         HasSession(ToLocal(slot).date)
  PROVE  slot % SlotsPerDay = ToLocal(slot).time
                                + (IF InSummer(ToLocal(slot).date) THEN 8 ELSE 10)
  <1> DEFINE date == ToLocal(slot).date
             time == ToLocal(slot).time
             year == YearOf(date)
             spring == NthWeekday(year, 3, 6, 2)
             autumn == NthWeekday(year, 11, 6, 1)
  <1>1. /\ date \in Nat /\ Weekday(date) # 6 /\ YearOf(date) \in {2025, 2026}
        /\ time \in {19, 32}
        /\ Shown(slot) = (date - 1) * 48 + time
    BY ToLocalShown DEF OpenTime, CloseTime, SlotsPerDay, HasSession, SupportedYears
  <1>2. year \in {2025, 2026} /\ InYear(date, year)
    BY <1>1, YearOfDate
  <1>3. /\ spring \in Int /\ Weekday(spring) = 6
        /\ autumn \in Int /\ Weekday(autumn) = 6
    BY <1>2, ChangesOfOffset
  <1>4. /\ SummerBegins(year) = (spring - 1) * 48 + 14
        /\ SummerEnds(year) = (autumn - 1) * 48 + 12
        /\ InSummer(date) <=> date > spring /\ date < autumn
    BY DEF SummerBegins, SummerEnds, SlotsPerDay, InSummer
  <1> HIDE DEF date, time, year, spring, autumn
  <1>5. slot = (date - 1) * 48 + time + Behind(slot) /\ Behind(slot) \in {8, 10}
    BY <1>1, BehindType DEF Shown
  <1>6. UTCDate(slot) = date /\ slot % 48 = time + Behind(slot)
    BY <1>1, <1>5 DEF UTCDate, SlotsPerDay
  <1>7. ~InLocalMeanTime(slot)
    <2>1. date > 739251
      <3>1. date > DaysBefore(2025) \/ date > DaysBefore(2026)
        BY <1>2 DEF InYear
      <3> QED
        BY SMT, <1>1, <3>1, SupportedYearsByOrdinals
    <2> QED
      BY SMT, <1>1, <1>5, <2>1, LocalMeanTimeEnds
  <1>8. Behind(slot) = IF slot >= SummerBegins(year) /\ slot < SummerEnds(year)
                         THEN 8 ELSE 10
    BY <1>2, <1>6, <1>7, BehindInYear
  <1>9. date # spring /\ date # autumn
    BY <1>1, <1>3
  <1>10. slot >= SummerBegins(year) /\ slot < SummerEnds(year) <=> InSummer(date)
    BY <1>1, <1>3, <1>4, <1>5, <1>9
  <1> QED
    BY <1>6, <1>8, <1>10 DEF SlotsPerDay, date, time

-----------------------------------------------------------------------------
(* The clock *)

\* Every instant asked for has a local time, and what is shown is the calendar's
\* answer for it.
Watching ==
  /\ now_utc \in Nat
  /\ ToLocal(now_utc) # None
  /\ today = BusinessDateFor(now_utc)
  /\ phase = MarketPhaseFor(now_utc)

\* What the calendar answers for an instant that has a local time.
LEMMA AnswerByLocalTime ==
  ASSUME NEW slot \in Nat, ToLocal(slot) # None
  PROVE  /\ ToLocal(slot) \in LocalTimes
         /\ ToLocal(slot).date \in Nat
         /\ BusinessDateFor(slot) = ToLocal(slot).date
         /\ MarketPhaseFor(slot) = LocalPhase(ToLocal(slot))
  <1>1. ToLocal(slot) \in LocalTimes /\ ToLocal(slot).date >= 1
    BY ToLocalShown
  <1> QED
    BY <1>1 DEF BusinessDateFor, MarketPhaseFor, LocalTimes

\* The watch never asks for an instant without a local time, and shows what the
\* calendar says of the instant: the invariant the other theorems rest on.
THEOREM ClockShowsTheCalendar == Spec => []Watching
  <1>1. Init => Watching
    BY ClockAssumption DEF Init, Watching
  <1>2. Watching /\ [Ask]_vars => Watching'
    <2> SUFFICES ASSUME Watching, [Ask]_vars
                 PROVE  Watching'
      OBVIOUS
    <2>1. CASE Ask
      <3>1. now_utc' = now_utc \/ now_utc' = now_utc + 1
        BY <2>1 DEF Ask
      <3>2. ToLocal(now_utc') # None
        BY <3>1, NextLocalTime DEF Watching
      <3> QED
        BY <2>1, <3>1, <3>2 DEF Ask, Watching
    <2>2. CASE UNCHANGED vars
      BY <2>2 DEF Watching, vars
    <2> QED
      BY <2>1, <2>2
  <1> QED
    BY <1>1, <1>2, PTL DEF Spec

\* One step of the watch is one of the day: what changes between two instants, and
\* at which local time it does.
LEMMA WatchStep ==
  ASSUME Watching, [Ask]_vars
  PROVE  \/ today' = today /\ phase' = phase
         \/ /\ today' = today
            /\ now_utc' \in Nat /\ ToLocal(now_utc') # None
            /\ ToLocal(now_utc').date = today /\ HasSession(today)
            /\ \/ /\ phase = "PRE_OPEN" /\ phase' = "MARKET_OPEN"
                  /\ ToLocal(now_utc').time = OpenTime
               \/ /\ phase = "MARKET_OPEN" /\ phase' = "POST_CLOSE"
                  /\ ToLocal(now_utc').time = CloseTime
         \/ /\ today' = today + 1
            /\ phase \in Day!WithoutSession \cup {"POST_CLOSE"}
            /\ phase' \in Day!WithoutSession \cup {"PRE_OPEN"}
  <1>1. CASE Ask
    <2>1. CASE now_utc' = now_utc
      BY <1>1, <2>1 DEF Ask, Watching
    <2>2. CASE now_utc' = now_utc + 1
      <3> DEFINE here  == ToLocal(now_utc)
                 there == ToLocal(now_utc + 1)
      <3>1. now_utc \in Nat /\ here # None
        BY DEF Watching
      <3>2. /\ there # None
            /\ \/ there.date = here.date /\ there.time = here.time + 1
               \/ /\ there.date = here.date + 1
                  /\ here.time = SlotsPerDay - 1 /\ there.time = 0
               \/ there.date = here.date /\ Weekday(here.date) = 6
        BY <3>1, NextLocalTime
      <3>3. /\ here \in LocalTimes
            /\ today = here.date /\ phase = LocalPhase(here)
        BY <3>1, AnswerByLocalTime DEF Watching
      <3>4. /\ there \in LocalTimes
            /\ today' = there.date /\ phase' = LocalPhase(there)
        BY <1>1, <2>2, <3>1, <3>2, AnswerByLocalTime DEF Ask
      <3>5. now_utc' \in Nat /\ ToLocal(now_utc') = there
        BY <2>2, <3>1
      <3> HIDE DEF here, there
      <3>6. \/ there.date = here.date /\ LocalPhase(there) = LocalPhase(here)
            \/ /\ there.date = here.date
               /\ LocalPhase(here) = "PRE_OPEN" /\ LocalPhase(there) = "MARKET_OPEN"
               /\ there.time = OpenTime /\ HasSession(there.date)
            \/ /\ there.date = here.date
               /\ LocalPhase(here) = "MARKET_OPEN" /\ LocalPhase(there) = "POST_CLOSE"
               /\ there.time = CloseTime /\ HasSession(there.date)
            \/ /\ there.date = here.date + 1
               /\ LocalPhase(here) \in Day!WithoutSession \cup {"POST_CLOSE"}
               /\ LocalPhase(there) \in Day!WithoutSession \cup {"PRE_OPEN"}
        BY <3>2, <3>3, <3>4, DayMovesOn
      <3> QED
        BY <3>2, <3>3, <3>4, <3>5, <3>6
    <2> QED
      BY <1>1, <2>1, <2>2 DEF Ask
  <1>2. CASE UNCHANGED vars
    BY <1>2 DEF vars
  <1> QED
    BY <1>1, <1>2

\* Days follow each other without a gap, and each has no session or a whole one, in
\* every year and over every change of the offset (calendars/xnys.py 90-108).
THEOREM CalendarFollowsTheDays == Spec => DaysFollowEachOther
  <1>1. Init => Day!Init
    <2> SUFFICES ASSUME Init
                 PROVE  Day!Init
      OBVIOUS
    <2>1. /\ ToLocal(FirstSlot) \in LocalTimes
          /\ today = ToLocal(FirstSlot).date
          /\ phase = LocalPhase(ToLocal(FirstSlot))
      BY ClockAssumption, AnswerByLocalTime DEF Init
    <2>2. phase \in Day!Phases
      BY <2>1, PhasesOfDay DEF Day!Phases
    <2> QED
      BY <2>1, <2>2 DEF Day!Init, LocalTimes
  <1>2. Watching /\ [Ask]_vars => [Day!Next]_<<today, phase>>
    BY WatchStep DEF Day!Next, Day!Open, Day!Close, Day!NextDay
  <1> QED
    BY <1>1, <1>2, ClockShowsTheCalendar, PTL DEF Spec, DaysFollowEachOther, Day!Spec

\* The session opens and closes at the same hour in New York all the year, and moves
\* in UTC only with the season (calendars/xnys.py 27-28, 103-112).
THEOREM SessionsKeepNewYorkHours == Spec => SessionsKeepLocalHours
  <1> DEFINE opening == IF InSummer(today) THEN 27 ELSE 29
             Hours == /\ phase # "MARKET_OPEN" /\ phase' = "MARKET_OPEN" =>
                           now_utc' % SlotsPerDay = opening
                      /\ phase = "MARKET_OPEN" /\ phase' # "MARKET_OPEN" =>
                           now_utc' % SlotsPerDay = opening + 13
  <1>1. Watching /\ [Ask]_vars => [Hours]_vars
    <2> SUFFICES ASSUME Watching, [Ask]_vars
                 PROVE  Hours
      OBVIOUS
    <2>1. CASE phase = "PRE_OPEN" /\ phase' = "MARKET_OPEN"
      <3>1. /\ now_utc' \in Nat /\ ToLocal(now_utc') # None
            /\ ToLocal(now_utc').date = today /\ HasSession(today)
            /\ ToLocal(now_utc').time = OpenTime
        BY <2>1, WatchStep DEF Day!WithoutSession
      <3>2. now_utc' % SlotsPerDay = 19 + (IF InSummer(today) THEN 8 ELSE 10)
        BY <3>1, OffsetOfSession DEF OpenTime
      <3> QED
        BY <2>1, <3>2
    <2>2. CASE phase = "MARKET_OPEN" /\ phase' = "POST_CLOSE"
      <3>1. /\ now_utc' \in Nat /\ ToLocal(now_utc') # None
            /\ ToLocal(now_utc').date = today /\ HasSession(today)
            /\ ToLocal(now_utc').time = CloseTime
        BY <2>2, WatchStep DEF Day!WithoutSession
      <3>2. now_utc' % SlotsPerDay = 32 + (IF InSummer(today) THEN 8 ELSE 10)
        BY <3>1, OffsetOfSession DEF CloseTime
      <3> QED
        BY <2>2, <3>2
    <2>3. CASE \/ phase' = phase
               \/ phase # "MARKET_OPEN" /\ phase' # "MARKET_OPEN"
      BY <2>3
    <2> QED
      BY <2>1, <2>2, <2>3, WatchStep DEF Day!WithoutSession
  <1> QED
    BY <1>1, ClockShowsTheCalendar, PTL DEF Spec, SessionsKeepLocalHours

\* In the supported years the calendar has a session on exactly the weekdays that
\* are no holiday and no early close by the rules of the market
\* (calendars/xnys.py 33-71, 93-102).
THEOREM TablesFollowTheRules == Spec => []TablesAgreeWithTheRules
  <1>1. Watching => TablesAgreeWithTheRules
    <2> DEFINE local == ToLocal(now_utc)
               year == YearOf(today)
    <2> SUFFICES ASSUME Watching, year \in SupportedYears
                 PROVE  /\ phase = "WEEKEND" <=> Weekday(today) \in {5, 6}
                        /\ phase = "HOLIDAY" <=> today \in HolidaysOf[year]
                        /\ phase = "CLOSED" <=> today \in EarlyClosesOf[year]
      BY DEF TablesAgreeWithTheRules
    <2>1. /\ local \in LocalTimes /\ local.date \in Nat
          /\ today = local.date /\ phase = LocalPhase(local)
      BY AnswerByLocalTime DEF Watching
    <2>2. InYear(today, year)
      BY <2>1, YearOfDate
    <2>3. Weekday(today) \in 0 .. 6
      BY <2>1 DEF Weekday
    <2>4. /\ today \in Holidays <=> today \in HolidaysOf[year]
          /\ today \in UnsupportedEarlyCloses <=> today \in EarlyClosesOf[year]
          /\ today \in HolidaysOf[year] => Weekday(today) < 5
          /\ today \in EarlyClosesOf[year] =>
               Weekday(today) < 5 /\ today \notin HolidaysOf[year]
      BY <2>1, <2>2, TablesByTheRules
    <2> HIDE DEF local, year
    <2>5. CASE Weekday(today) >= 5
      BY <2>1, <2>3, <2>4, <2>5 DEF LocalPhase
    <2>6. CASE ~ Weekday(today) >= 5
      BY <2>1, <2>3, <2>4, <2>6 DEF LocalPhase, year
    <2> QED
      BY <2>5, <2>6
  <1> QED
    BY <1>1, ClockShowsTheCalendar, PTL
=============================================================================
