SPECIFICATION Spec
CONSTANTS
  None = None
  Malformed = Malformed
  NoPolicy = NoPolicy
  MaxTime = 2
  SourceNames <- MCSourceNames
  ReasonCodes <- MCReasonCodes
  MarketCodes <- MCMarketCodes
  Timezones <- MCTimezones
  Calendars <- MCCalendars
  LocalTime <- MCLocalTime
  Reports <- MCReports
  ChainPolicies <- MCChainPolicies
  MaxApplications = 3
INVARIANTS
  LayersSurvive
  OrderDoesNotMatter
  AdmissionIsMonotone
PROPERTIES
  UsabilityOnlyShrinks
CHECK_DEADLOCK FALSE
