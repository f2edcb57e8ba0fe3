------------------------------ MODULE MCWorld ------------------------------
(***************************************************************************)
(* Small worlds for the models: two sources that report, "prices" and      *)
(* "registry", and one that never does, "fills"; instants 0 .. MaxTime.    *)
(***************************************************************************)
EXTENDS Resolution, Providers

XNYS == INSTANCE XNYSCalendar

MCSourceNames == {"prices", "registry", "fills"}
MCReasonCodes == ErrorReasonCode \cup {"VENDOR_DOWN"}
MCMarketCodes == {"XNYS", "XLON", "XTKS"}
MCTimezones == {"America/New_York", "Europe/London"}

\* Three instants ten slots apart, from 14:00 UTC on a Tuesday in January: before,
\* during and after the session, the last when it is Wednesday in London.  XNYS is
\* also registered as XLON, by mistake; XTKS is not registered.
Tuesday == 739258

MCCalendars ==
  [key \in {"XNYS", "XLON"} |->
     [market          |-> "XNYS",
      market_timezone |-> "America/New_York",
      phase           |-> [t \in Instants |->
                             CASE t = 0 -> "PRE_OPEN"
                               [] t = 1 -> "MARKET_OPEN"
                               [] OTHER -> "POST_CLOSE"],
      business_date   |-> [t \in Instants |-> Tuesday]]]

MCLocalTime ==
  [zone \in MCTimezones |->
     [t \in Instants |->
        CASE zone = "America/New_York" ->
               [date |-> Tuesday, time |-> 18 + 10 * t, odd |-> FALSE]
          [] zone # "America/New_York" /\ t < 2 ->
               [date |-> Tuesday, time |-> 28 + 10 * t, odd |-> FALSE]
          [] OTHER -> [date |-> Tuesday + 1, time |-> 0, odd |-> FALSE]]]

\* London at a slot, in winter: 75 seconds behind UTC until December 1847, when local
\* mean time ended there.
LondonTime(slot) ==
  LET odd   == slot <= (XNYS!Date(1847, 12, 1) - 1) * 48
      local == IF odd THEN slot - 1 ELSE slot
  IN  IF local < 0 THEN None
      ELSE [date |-> local \div 48 + 1, time |-> local % 48, odd |-> odd]

\* Honolulu: 10:31:26 behind UTC until January 1896, and 10 h behind since 1947.
HonoluluTime(slot) ==
  LET odd   == slot <= (XNYS!Date(1896, 1, 13) - 1) * 48 + 45
      local == IF odd THEN slot - 22 ELSE slot - 20
  IN  IF local < 0 THEN None
      ELSE [date |-> local \div 48 + 1, time |-> local % 48, odd |-> odd]

\* The same at any slots, by the XNYS calendar.
CalendarsAt(slots) ==
  [key \in {"XNYS", "XLON"} |->
     [market          |-> "XNYS",
      market_timezone |-> "America/New_York",
      phase           |-> [t \in Instants |-> XNYS!MarketPhaseFor(slots[t])],
      business_date   |-> [t \in Instants |-> XNYS!BusinessDateFor(slots[t])]]]

LocalTimeAt(slots) ==
  [zone \in MCTimezones |->
     [t \in Instants |->
        IF zone = "America/New_York" THEN XNYS!ToLocal(slots[t])
                                     ELSE LondonTime(slots[t])]]

\* The tables above are the calendar's.
TuesdaySlots == [t \in Instants |-> (Tuesday - 1) * 48 + 28 + 10 * t]

ASSUME TablesAssumption ==
  /\ Tuesday = XNYS!Date(2025, 1, 7)
  /\ MCCalendars = CalendarsAt(TuesdaySlots)
  /\ MCLocalTime = LocalTimeAt(TuesdaySlots)

\* From where datetime begins: the first instant has no local time in New York, and
\* none of the others is in an offset of whole minutes.
FirstSlots == [t \in Instants |-> 10 * t]
FirstCalendars == CalendarsAt(FirstSlots)
FirstLocalTime == LocalTimeAt(FirstSlots)

\* Two instants far apart: at the first, which a request may ask about, New York keeps
\* local mean time; the second is during the session of the Tuesday.
PastSlots ==
  [t \in Instants |-> IF t = 0 THEN (XNYS!Date(1850, 1, 1) - 1) * 48 + 30
                      ELSE TuesdaySlots[t]]
NewYear1850 == 675334

PastCalendars ==
  [key \in DOMAIN MCCalendars |->
     [MCCalendars[key] EXCEPT
        !.phase[0]         = "CLOSED",
        !.business_date[0] = NewYear1850]]

PastLocalTime ==
  [MCLocalTime EXCEPT
     !["America/New_York"][0] = [date |-> NewYear1850, time |-> 20, odd |-> TRUE],
     !["Europe/London"][0]    = [date |-> NewYear1850, time |-> 30, odd |-> FALSE]]

ASSUME PastAssumption ==
  /\ NewYear1850 = XNYS!Date(1850, 1, 1)
  /\ PastCalendars = CalendarsAt(PastSlots)
  /\ PastLocalTime = LocalTimeAt(PastSlots)

-----------------------------------------------------------------------------
(* Contents *)

Unreadable(fault) ==
  [fault |-> fault, provider |-> None, freshness |-> None,
   timestamp_utc |-> None, last_update_utc |-> None, reason_code |-> None,
   publication |-> None, policy |-> None, has_array |-> FALSE,
   unencodable |-> FALSE, well_formed |-> TRUE]

Payload(freshness, timestamp_utc, publication) ==
  [Unreadable(None) EXCEPT !.freshness = freshness,
                           !.timestamp_utc = timestamp_utc,
                           !.publication = publication]

Assertion(publication_utc, asserted_at_utc) ==
  [lifecycle |-> FALSE, publication_state |-> "PUBLISHED",
   canonical_state |-> "CANONICAL", publication_utc |-> publication_utc,
   asserted_at_utc |-> asserted_at_utc]

PricesContents ==
  {Unreadable("not_found"),
   Payload("FRESH", 0, None),
   [Payload("FRESH", 0, None) EXCEPT !.has_array = TRUE],
   Payload("FRESH", 2, None),
   [Payload("PRIOR_CLOSE", None, None) EXCEPT !.last_update_utc = 1],
   [Payload("FAILED", 2, None) EXCEPT !.reason_code = "VENDOR_DOWN"]}

RegistryContents ==
  {Payload("PUBLISHED", 0, Assertion(0, 1)),
   Payload("FAILED", 1, Assertion(1, 1)),
   Payload("PUBLISHED", None, Assertion(2, 1)),
   Payload("PUBLISHED", None, [Assertion(0, 0) EXCEPT !.lifecycle = TRUE]),
   Payload("PUBLISHED", None, [Assertion(0, 0) EXCEPT !.asserted_at_utc = Malformed]),
   Payload("PUBLISHED", None, [Assertion(0, 0) EXCEPT !.canonical_state = "PROVISIONAL"]),
   Unreadable("invalid_json")}

\* Prices that assert a publication as well.
SecondAssertion == Payload("FRESH", 1, Assertion(0, 0))

MCNames == <<"prices", "registry">>
MCContents ==
  << PricesContents \cup {SecondAssertion},
     RegistryContents \cup {Unreadable(Undecodable)} >>

\* Metadata with a JSON array in it.
ArrayContents ==
  << {[Payload("FRESH", 0, None) EXCEPT !.has_array = TRUE]},
     {Payload("FRESH", 1, None)} >>

\* Metadata with a lone surrogate in it.
SurrogateContent == [Payload("FRESH", 0, None) EXCEPT !.unencodable = TRUE]

\* For runs that keep histories: a disagreement of the two timestamps, and bytes
\* that cannot be decoded.
WitnessContents ==
  << {Unreadable("blank"), Unreadable(Undecodable), Payload("FRESH", 2, None),
      [Payload("FRESH", 1, None) EXCEPT !.last_update_utc = 2]},
     {Payload("PUBLISHED", 0, Assertion(0, 1)), Unreadable("not_object"),
      [Payload("FRESH", 0, None) EXCEPT !.provider = "prices"]} >>

\* The third provider has the name of the first.
RepeatedNames == <<"prices", "registry", "prices">>
RepeatedContents ==
  << {Payload("FRESH", 0, None), Unreadable("blank")},
     {Payload("FRESH", 1, None), Unreadable(Undecodable)},
     {Payload("FRESH", 2, None)} >>

\* The registry says that the data must not be released yet.
EmbargoContents ==
  << {Payload("FRESH", 0, None)},
     {Payload("NOT_PUBLISHED", 0,
              [Assertion(1, 0) EXCEPT !.publication_state = "EMBARGOED"])} >>

-----------------------------------------------------------------------------
(* Requests and policies *)

Ask(perspective, as_of_utc, knowledge_cutoff_utc) ==
  [perspective |-> perspective, market |-> "XNYS",
   market_timezone |-> "America/New_York", as_of_utc |-> as_of_utc,
   knowledge_cutoff_utc |-> knowledge_cutoff_utc]

MCRequests ==
  {Ask("LIVE", None, None), Ask("LIVE", 1, None),
   Ask("PREVIEW", None, 0), Ask("EXECUTED", 2, None),
   Ask("CANONICAL", None, None), Ask("CANONICAL", None, 1),
   Ask("CANONICAL", 1, 1),
   Ask("REPLAY", 2, 1), Ask("REPLAY", None, 1), Ask("REPLAY", 1, 2),
   Ask("HISTORICAL", 1, 1), Ask("HISTORICAL", 1, None),
   Ask("HISTORICAL", 1, Malformed),
   [Ask("LIVE", None, None) EXCEPT !.market = "XTKS"],
   [Ask("LIVE", None, None) EXCEPT !.market = "XLON"],
   [Ask("LIVE", None, None) EXCEPT !.market_timezone = "Europe/London"]}

FewRequests ==
  {Ask("CANONICAL", None, None), Ask("REPLAY", 1, 0), Ask("LIVE", 1, None),
   [Ask("LIVE", None, None) EXCEPT !.market = "XTKS"]}

NoAges == [name \in MCSourceNames |-> None]
EmptyPolicy ==
  [required_sources |-> {}, max_age_seconds |-> None,
   max_age_seconds_by_source |-> NoAges]

\* Some overrides are looser than the default, others stricter.
MCPolicies ==
  {NoPolicy,
   EmptyPolicy,
   [required_sources |-> {"prices", "fills"}, max_age_seconds |-> 1,
    max_age_seconds_by_source |-> [NoAges EXCEPT !["registry"] = 2]],
   [required_sources |-> {}, max_age_seconds |-> 2,
    max_age_seconds_by_source |-> [NoAges EXCEPT !["prices"] = 1]]}

FewPolicies ==
  {NoPolicy,
   [required_sources |-> {"prices", "fills"}, max_age_seconds |-> 1,
    max_age_seconds_by_source |-> NoAges]}
=============================================================================
