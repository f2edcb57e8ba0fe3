------------------------------- MODULE MCApi -------------------------------
(***************************************************************************)
(* The HTTP surface in the worlds of MCWorld.                              *)
(***************************************************************************)
EXTENDS Api, MCWorld

\* A request that is answered, one without a calendar, and one that is refused for
\* the instant it lacks.
ApiRequests ==
  {Ask("LIVE", None, None), [Ask("LIVE", None, None) EXCEPT !.market = "XTKS"],
   Ask("REPLAY", None, None)}

\* A file with an array in its metadata, then with a lone surrogate, then in no
\* encoding, next to one that is blank.
ApiContents ==
  << {[Payload("FRESH", 0, None) EXCEPT !.has_array = TRUE], SurrogateContent,
      Unreadable(Undecodable)},
     {Unreadable("blank")} >>

\* Two instants far apart: ten in the morning, UTC, on the first day of datetime, when
\* New York keeps local mean time and Honolulu has no local time, and the session of
\* the Tuesday.
ApiTimezones == {"America/New_York", "Pacific/Honolulu"}

ApiCalendars ==
  [key \in {"XNYS", "XLON"} |->
     [MCCalendars[key] EXCEPT
        !.phase[0]         = "CLOSED",
        !.business_date[0] = 1]]

ApiLocalTime ==
  [zone \in ApiTimezones |->
     [t \in Instants |->
        CASE zone = "America/New_York" /\ t = 0 -> [date |-> 1, time |-> 10, odd |-> TRUE]
          [] zone # "America/New_York" /\ t = 0 -> None
          [] zone = "America/New_York" /\ t # 0 -> MCLocalTime[zone][t]
          [] OTHER -> [date |-> Tuesday, time |-> 8 + 10 * t, odd |-> FALSE]]]

ApiSlots == [t \in Instants |-> IF t = 0 THEN 20 ELSE TuesdaySlots[t]]

ASSUME ApiTablesAssumption ==
  /\ ApiCalendars = CalendarsAt(ApiSlots)
  /\ ApiLocalTime["America/New_York"] = LocalTimeAt(ApiSlots)["America/New_York"]
  /\ ApiLocalTime["Pacific/Honolulu"] = [t \in Instants |-> HonoluluTime(ApiSlots[t])]

\* Orders at work, without a local time; in local mean time; of the Tuesday; and with a
\* lone surrogate, the date being right or made up.
ApiForeign ==
  LET Working(perspective, t, sources) ==
        [ComposeAsOf(Ask(perspective, None, None), t, sources)
           EXCEPT !.execution_state = "WORKING"]
      past    == Working("HISTORICAL", 0, EmptyMap)
      strange == Working("LIVE", 1, [EmptyMap EXCEPT !["prices"] =
                                       ReportedStatus("prices", SurrogateContent)])
  IN  {[past EXCEPT !.market_timezone = "Pacific/Honolulu"], past,
       Working("LIVE", 1, EmptyMap), strange,
       [strange EXCEPT !.market_date = Tuesday + 1]}
=============================================================================
