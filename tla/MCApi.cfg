SPECIFICATION ApiFairSpec
CONSTANTS
  None = None
  Malformed = Malformed
  NoPolicy = NoPolicy
  MaxTime = 1
  Callers = {c1, c2}
  StaticProviders = {}
  SourceNames <- MCSourceNames
  ReasonCodes <- MCReasonCodes
  MarketCodes <- MCMarketCodes
  Timezones <- ApiTimezones
  Calendars <- ApiCalendars
  LocalTime <- ApiLocalTime
  SnapshotIds = {"a", "b"}
  EmptyId = ""
  Unencodable = {"b"}
  Foreign <- ApiForeign
  Names <- MCNames
  Contents <- ApiContents
  Requests <- ApiRequests
  Policies <- FewPolicies
INVARIANTS
  ApiTypeOK
  ServerErrorsAreExplained
  ServedCanBeSnapshotted
  ListsAreWhole
PROPERTIES
  HandlersAreCalls
  HandlersRunOut
  EveryRequestIsAnswered
