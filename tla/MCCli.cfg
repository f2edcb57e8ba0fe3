SPECIFICATION CliSpec
CONSTANTS
  None = None
  Malformed = Malformed
  NoPolicy = NoPolicy
  MaxTime = 1
  Callers = {c1, c2}
  StaticProviders = {2}
  SourceNames <- MCSourceNames
  ReasonCodes <- MCReasonCodes
  MarketCodes <- MCMarketCodes
  Timezones <- MCTimezones
  Calendars <- CliCalendars
  LocalTime <- PastLocalTime
  SnapshotIds = {"a"}
  EmptyId = ""
  Unencodable = {}
  Names <- MCNames
  Contents <- CliContents
  Requests <- CliRequests
  Policies <- CliPolicies
INVARIANTS
  FirstFailureIsNamed
  SnapshotsAreOfTheAnswer
  PinnedOutputIsReproducible
PROPERTIES
  ProcessesAreCalls
