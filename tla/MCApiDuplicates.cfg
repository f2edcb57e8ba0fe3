SPECIFICATION ApiSpec
CONSTANTS
  None = None
  Malformed = Malformed
  NoPolicy = NoPolicy
  MaxTime = 2
  Callers = {c1}
  StaticProviders = {}
  SourceNames <- MCSourceNames
  ReasonCodes <- MCReasonCodes
  MarketCodes <- MCMarketCodes
  Timezones <- MCTimezones
  Calendars <- MCCalendars
  LocalTime <- MCLocalTime
  SnapshotIds = {"a"}
  EmptyId = ""
  Unencodable = {}
  Foreign = {}
  Names <- RepeatedNames
  Contents <- RepeatedContents
  Requests <- FewRequests
  Policies <- FewPolicies
INVARIANTS
  ListsAreWhole
  OneStatusPerProvider
