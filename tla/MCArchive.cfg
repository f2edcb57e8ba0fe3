SPECIFICATION Spec
CONSTANTS
  None = None
  Malformed = Malformed
  NoPolicy = NoPolicy
  MaxTime = 1
  SourceNames <- MCSourceNames
  ReasonCodes <- MCReasonCodes
  MarketCodes <- MCMarketCodes
  Timezones <- MCTimezones
  Calendars <- PastCalendars
  LocalTime <- PastLocalTime
  SnapshotIds = {"a", "b"}
  EmptyId = ""
  Unencodable = {"b"}
  Answers <- MCAnswers
  Releases <- MCReleases
  MaxRecords = 2
INVARIANTS
  TypeOK
  ContentIdentity
  HashFitsContent
  AnswersCanBeCaptured
  NothingIsMadeUp
