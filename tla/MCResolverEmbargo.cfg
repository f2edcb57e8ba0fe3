SPECIFICATION Spec
CONSTANTS
  None = None
  Malformed = Malformed
  NoPolicy = NoPolicy
  MaxTime = 2
  Callers = {c1}
  StaticProviders = {}
  SourceNames <- MCSourceNames
  ReasonCodes <- MCReasonCodes
  MarketCodes <- MCMarketCodes
  Timezones <- MCTimezones
  Calendars <- MCCalendars
  LocalTime <- MCLocalTime
  Names <- MCNames
  Contents <- EmbargoContents
  Requests <- MCRequests
  Policies <- MCPolicies
INVARIANTS
  EmbargoIsNotPublished
