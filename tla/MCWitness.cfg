SPECIFICATION WitnessSpec
CONSTANTS
  None = None
  Malformed = Malformed
  NoPolicy = NoPolicy
  MaxTime = 2
  Callers = {c1}
  StaticProviders = {}
  SourceNames <- MCSourceNames
  ReasonCodes <- MCReasonCodes
  MarketCodes <- MCMarketCodes
  Timezones <- MCTimezones
  Calendars <- FirstCalendars
  LocalTime <- FirstLocalTime
  Names <- MCNames
  Contents <- WitnessContents
  Requests <- MCRequests
  Policies <- FewPolicies
INVARIANTS
  ReadsAreOfTheCall
  OnlyTypedFailures
PROPERTIES
  AnswersAsIfAtOnce
