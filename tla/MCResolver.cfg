SPECIFICATION Spec
CONSTANTS
  None = None
  Malformed = Malformed
  NoPolicy = NoPolicy
  MaxTime = 2
  Callers = {c1}
  StaticProviders = {}
  SourceNames <- MCSourceNames
  ReasonCodes <- MCReasonCodes
  MarketCodes <- MCMarketCodes
  Timezones <- MCTimezones
  Calendars <- MCCalendars
  LocalTime <- MCLocalTime
  Names <- MCNames
  Contents <- MCContents
  Requests <- MCRequests
  Policies <- MCPolicies
INVARIANTS
  TypeOK
  CallsAreCoherent
  NoFutureKnowledge
  UsableIsYoungEnough
  RequiredSourcesShow
  DowngradesAreJustified
  ProviderLayerRecoverable
  CanonicalIsProven
  ProofIsAccepted
  OnlyTypedFailures
  OneMarketDay
PROPERTIES
  OneInstantPerCall
