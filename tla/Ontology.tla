------------------------------ MODULE Ontology ------------------------------
(***************************************************************************)
(* The pinned vocabulary of asof123: the enumerations of enums.py, the     *)
(* reason codes of errors.py, and the shape of the records that pass       *)
(* between the components (models.py).  Wording (explanations, messages)   *)
(* is left out.                                                            *)
(*                                                                         *)
(* Instants are integers 0 .. MaxTime on one UTC time line; the unit is    *)
(* the unit of SourcePolicy.max_age_seconds.                               *)
(***************************************************************************)
EXTENDS Integers

CONSTANTS
  None,         \* Python's None: an optional field that is absent
  Malformed,    \* a value that is present but has not the expected shape
  SourceNames,  \* the names under which sources appear in AsOf.sources
  ReasonCodes,  \* reason codes a source may carry: the pinned and providers' own
  MaxTime       \* bound on the time line

ASSUME MaxTimeAssumption == MaxTime \in Nat

Instants == 0 .. MaxTime

Optional(S) == S \cup {None}

\* Local dates, by their ordinals, and instants as a market's clock shows them: odd
\* says that the offset from UTC has seconds, as in local mean time.
Dates == Int
LocalTimes == [date : Dates, time : Int, odd : BOOLEAN]

-----------------------------------------------------------------------------
(* Enumerations *)

Perspective ==
  {"PREVIEW", "PRE_TRADE_INTENT", "LIVE", "EXECUTED", "CANONICAL", "REPLAY",
   "HISTORICAL"}

MarketPhase ==
  {"PRE_OPEN", "MARKET_OPEN", "POST_CLOSE", "WEEKEND", "HOLIDAY", "CLOSED"}

SourceFreshness ==
  {"FRESH", "STALE", "MISSING", "FAILED", "PRIOR_CLOSE", "PARTIAL",
   "PUBLISHED", "NOT_PUBLISHED"}

ExecutionState ==
  {"NOT_EXECUTED", "INTENDED", "WORKING", "PARTIALLY_FILLED", "FILLED",
   "CANCELED", "REJECTED", "UNKNOWN"}

PriceBasis ==
  {"PRIOR_CLOSE", "LAST_TRADE", "INDICATIVE", "OFFICIAL_CLOSE", "SETTLEMENT",
   "MODEL", "UNKNOWN"}

PublicationState ==
  {"NOT_PUBLISHED", "PRE_PUBLISHED", "PUBLISHED", "EMBARGOED", "WITHDRAWN",
   "FAILED", "UNKNOWN"}

CanonicalState ==
  {"PROVISIONAL", "CANONICAL", "SUPERSEDED", "NOT_CANONICAL",
   "NOT_AVAILABLE", "UNKNOWN"}

ErrorReasonCode ==
  {"CALENDAR_MARKET_MISMATCH", "CALENDAR_TIMEZONE_MISMATCH",
   "CANONICAL_NOT_CANONICAL", "CANONICAL_UNSUPPORTED", "CLI_ARGUMENT_ERROR",
   "DUPLICATE_PROVIDER_NAME", "EXECUTION_FACTS_UNAVAILABLE",
   "INVALID_PROVIDER", "INVALID_REQUEST", "INVALID_SNAPSHOT",
   "NOT_IMPLEMENTED", "PRICE_BASIS_UNRESOLVED", "PUBLICATION_AFTER_CUTOFF",
   "PUBLICATION_ASSERTION_AFTER_CUTOFF", "PUBLICATION_ASSERTION_AMBIGUOUS",
   "PUBLICATION_METADATA_INCOMPLETE", "PUBLICATION_METADATA_INVALID",
   "PUBLICATION_METADATA_MISSING", "PUBLICATION_METADATA_UNSUPPORTED",
   "PUBLICATION_NOT_PUBLISHED", "PROVIDER_REPORT_FAILED",
   "REQUIRED_SOURCE_MISSING", "SOURCE_NOT_ADMISSIBLE", "SOURCE_STALE",
   "UNKNOWN_MARKET", "VALIDATION_ERROR"}

\* The two sentinels are no instant, no name, no code and not each other.
ASSUME SentinelAssumption ==
  /\ Malformed # None
  /\ \A sentinel \in {None, Malformed} :
       /\ sentinel \notin Int
       /\ sentinel \notin SourceNames
       /\ sentinel \notin Perspective
       /\ sentinel \notin MarketPhase
       /\ sentinel \notin SourceFreshness
       /\ sentinel \notin PublicationState
       /\ sentinel \notin CanonicalState
       /\ sentinel \notin ReasonCodes

ASSUME ReasonAssumption == ErrorReasonCode \subseteq ReasonCodes

-----------------------------------------------------------------------------
(***************************************************************************)
(* metadata["publication"] when it is a mapping.  A field holds None when  *)
(* its key is absent or null, and Malformed when the value is no member of *)
(* the enumeration, or no ISO 8601 UTC instant.  lifecycle says that one   *)
(* of the withdrawal and supersession keys holds a non-null value.         *)
(***************************************************************************)
PublicationMetadata ==
  [lifecycle         : BOOLEAN,
   publication_state : PublicationState \cup {None, Malformed},
   canonical_state   : CanonicalState \cup {None, Malformed},
   publication_utc   : Instants \cup {None, Malformed},
   asserted_at_utc   : Instants \cup {None, Malformed}]

\* metadata["policy"]: the diagnostic fields that a policy decision replaced.
PolicyMetadata ==
  [previous_freshness   : SourceFreshness,
   previous_reason_code : Optional(ReasonCodes)]

(***************************************************************************)
(* A validated SourceStatus.  timestamp_utc stands for the pair            *)
(* timestamp_utc and last_update_utc, equal after validation.  Of the      *)
(* metadata three things matter: the entry under "publication" (Malformed: *)
(* present, but not a mapping), the entry under "policy", and whether any  *)
(* value in it is a JSON array.  unencodable says that some text of the    *)
(* status, its name and the entry under "policy" apart, has a lone         *)
(* surrogate in it: JSON can write it as an escape, UTF-8 cannot encode it.*)
(***************************************************************************)
SourceStatus ==
  [provider      : SourceNames,
   freshness     : SourceFreshness,
   timestamp_utc : Optional(Instants),
   reason_code   : Optional(ReasonCodes),
   publication   : PublicationMetadata \cup {None, Malformed},
   policy        : Optional(PolicyMetadata),
   has_array     : BOOLEAN,
   unencodable   : BOOLEAN]

\* The sentinels are no records either.
ASSUME RecordAssumption ==
  /\ None \notin SourceStatus
  /\ None \notin LocalTimes
  /\ None \notin PublicationMetadata
  /\ None \notin PolicyMetadata
  /\ Malformed \notin PublicationMetadata

\* A status with nothing but an identity, a freshness and a reason.
BareStatus(name, freshness, reason_code) ==
  [provider      |-> name,
   freshness     |-> freshness,
   timestamp_utc |-> None,
   reason_code   |-> reason_code,
   publication   |-> None,
   policy        |-> None,
   has_array     |-> FALSE,
   unencodable   |-> FALSE]

\* AsOf.sources: the statuses by name, None under a name that is no key of it.
SourceMap == [SourceNames -> Optional(SourceStatus)]

Keys(sources) == {name \in SourceNames : sources[name] # None}

EmptyMap == [name \in SourceNames |-> None]

\* The freshness values under which a consumer may use a source's data.
Usable == {"FRESH", "PRIOR_CLOSE", "PARTIAL", "PUBLISHED"}
=============================================================================
