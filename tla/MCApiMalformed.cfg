SPECIFICATION ApiSpec
CONSTANTS
  None = None
  Malformed = Malformed
  NoPolicy = NoPolicy
  MaxTime = 1
  Callers = {c1}
  StaticProviders = {}
  SourceNames <- MCSourceNames
  ReasonCodes <- MCReasonCodes
  MarketCodes <- MCMarketCodes
  Timezones <- MCTimezones
  Calendars <- MCCalendars
  LocalTime <- MCLocalTime
  SnapshotIds = {"a"}
  EmptyId = ""
  Unencodable = {}
  Foreign = {}
  Names <- MCNames
  Contents <- ApiContents
  Requests <- ApiRequests
  Policies = {NoPolicy}
INVARIANTS
  MalformedIsAValidationError
