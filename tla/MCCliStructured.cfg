SPECIFICATION CliSpec
CONSTANTS
  None = None
  Malformed = Malformed
  NoPolicy = NoPolicy
  MaxTime = 2
  Callers = {c1}
  StaticProviders = {}
  SourceNames <- MCSourceNames
  ReasonCodes <- MCReasonCodes
  MarketCodes <- MCMarketCodes
  Timezones <- MCTimezones
  Calendars <- CliCalendars
  LocalTime <- PastLocalTime
  SnapshotIds = {"a"}
  EmptyId = ""
  Unencodable = {}
  Names <- MCNames
  Contents <- CliContents
  Requests <- CliRequests
  Policies <- CliPolicies
INVARIANTS
  FailuresAreStructured
