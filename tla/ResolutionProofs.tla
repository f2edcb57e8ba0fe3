-------------------------- MODULE ResolutionProofs --------------------------
(***************************************************************************)
(* Lemmas about the operators the resolver is built from: a policy and its *)
(* decisions, the readiness gate, the conclusion of a call, and snapshots  *)
(* of an answer.  Pure: no state.                                          *)
(***************************************************************************)
EXTENDS Snapshot, TLAPS

-----------------------------------------------------------------------------
(* A policy and its decisions *)

\* A policy decision on a status is a status again.
LEMMA WithSourcePolicyStatusType ==
  ASSUME NEW status \in SourceStatus, NEW freshness \in SourceFreshness,
         NEW reason_code \in ReasonCodes
  PROVE  WithSourcePolicyStatus(status, freshness, reason_code) \in SourceStatus
  BY DEF WithSourcePolicyStatus, SourceStatus, PolicyMetadata, Optional

\* So is the outcome of judging one source.
LEMMA JudgeType ==
  ASSUME NEW perspective, NEW cutoff, NEW now, NEW policy, NEW name,
         NEW status \in SourceStatus
  PROVE  Judge(perspective, cutoff, now, policy, name, status) \in SourceStatus
  <1>1. /\ {"NOT_PUBLISHED", "STALE"} \subseteq SourceFreshness
        /\ {"SOURCE_NOT_ADMISSIBLE", "SOURCE_STALE"} \subseteq ReasonCodes
    BY ReasonAssumption DEF SourceFreshness, ErrorReasonCode
  <1>2. WithSourcePolicyStatus(status, "NOT_PUBLISHED", "SOURCE_NOT_ADMISSIBLE")
          \in SourceStatus
    BY <1>1, WithSourcePolicyStatusType
  <1>3. WithSourcePolicyStatus(status, "STALE", "SOURCE_STALE") \in SourceStatus
    BY <1>1, WithSourcePolicyStatusType
  <1> QED
    BY <1>2, <1>3 DEF Judge

\* The status that stands in for a required source that did not report.
LEMMA MissingStatusType ==
  ASSUME NEW name \in SourceNames
  PROVE  /\ BareStatus(name, "MISSING", "REQUIRED_SOURCE_MISSING") \in SourceStatus
         /\ BareStatus(name, "MISSING", "REQUIRED_SOURCE_MISSING") # None
  <1>1. BareStatus(name, "MISSING", "REQUIRED_SOURCE_MISSING") \in SourceStatus
    BY ReasonAssumption
    DEF BareStatus, SourceStatus, SourceFreshness, ErrorReasonCode, Optional
  <1> QED
    BY <1>1, RecordAssumption

\* Neither adding the required sources nor the policy as a whole leaves the type
\* of source maps.
LEMMA WithRequiredType ==
  ASSUME NEW policy, NEW sources \in SourceMap
  PROVE  WithRequired(policy, sources) \in SourceMap
  BY MissingStatusType DEF WithRequired, SourceMap, Optional

LEMMA ApplySourcePolicyType ==
  ASSUME NEW perspective, NEW cutoff, NEW now, NEW policy, NEW sources \in SourceMap
  PROVE  ApplySourcePolicy(perspective, cutoff, now, policy, sources) \in SourceMap
  <1> DEFINE resolved == WithRequired(policy, sources)
  <1>1. resolved \in SourceMap
    BY WithRequiredType
  <1>2. ASSUME NEW name \in SourceNames, resolved[name] # None
        PROVE  Judge(perspective, cutoff, now, policy, name, resolved[name])
                 \in SourceStatus
    BY <1>1, <1>2, JudgeType DEF SourceMap, Optional
  <1> QED
    BY <1>1, <1>2 DEF ApplySourcePolicy, SourceMap, Optional

\* A judgement leaves the reading and the assertion alone.
LEMMA JudgeKeeps ==
  ASSUME NEW perspective, NEW cutoff, NEW now, NEW policy, NEW name,
         NEW status \in SourceStatus
  PROVE  /\ Judge(perspective, cutoff, now, policy, name, status).timestamp_utc
              = status.timestamp_utc
         /\ Judge(perspective, cutoff, now, policy, name, status).publication
              = status.publication
  BY DEF Judge, WithSourcePolicyStatus, SourceStatus

\* The grounds for a judgement: on either of them the source is not usable, and
\* without one it stays as it is.
LEMMA JudgeGrounds ==
  ASSUME NEW perspective, NEW cutoff, NEW now, NEW policy, NEW name,
         NEW status \in SourceStatus,
         NEW judged, judged = Judge(perspective, cutoff, now, policy, name, status)
  PROVE  /\ AfterCutoff(perspective, cutoff, status) => judged.freshness \notin Usable
         /\ TooOld(policy, now, name, status) => judged.freshness \notin Usable
         /\ \/ judged = status
            \/ AfterCutoff(perspective, cutoff, status)
            \/ TooOld(policy, now, name, status)
  <1>1. CASE AfterCutoff(perspective, cutoff, status)
    BY <1>1 DEF Judge, WithSourcePolicyStatus, SourceStatus, PolicyMetadata, Usable
  <1>2. CASE /\ ~AfterCutoff(perspective, cutoff, status)
             /\ TooOld(policy, now, name, status)
    BY <1>2 DEF Judge, WithSourcePolicyStatus, SourceStatus, PolicyMetadata, Usable
  <1>3. CASE /\ ~AfterCutoff(perspective, cutoff, status)
             /\ ~TooOld(policy, now, name, status)
    BY <1>3 DEF Judge
  <1> QED
    BY <1>1, <1>2, <1>3

\* What the policy as a whole yields under one name.
LEMMA ApplySourcePolicyAt ==
  ASSUME NEW perspective, NEW cutoff, NEW now, NEW policy,
         NEW sources \in SourceMap, NEW name \in SourceNames,
         NEW applied, applied = ApplySourcePolicy(perspective, cutoff, now, policy, sources)
  PROVE  /\ sources[name] # None =>
              /\ sources[name] \in SourceStatus
              /\ applied[name]
                   = Judge(perspective, cutoff, now, policy, name, sources[name])
         /\ sources[name] = None /\ name \in policy.required_sources =>
              applied[name]
                = Judge(perspective, cutoff, now, policy, name,
                        BareStatus(name, "MISSING", "REQUIRED_SOURCE_MISSING"))
         /\ sources[name] = None /\ name \notin policy.required_sources =>
              applied[name] = None
  BY MissingStatusType DEF ApplySourcePolicy, WithRequired, SourceMap, Optional

\* What stands in for a required source has no reading, so no policy judges it.
LEMMA MissingIsKept ==
  ASSUME NEW perspective, NEW cutoff, NEW now, NEW policy, NEW name
  PROVE  Judge(perspective, cutoff, now, policy, name,
               BareStatus(name, "MISSING", "REQUIRED_SOURCE_MISSING"))
           = BareStatus(name, "MISSING", "REQUIRED_SOURCE_MISSING")
  BY DEF Judge, AfterCutoff, TooOld, BareStatus

\* Two judgements at one instant: the second finds nothing the first left to do,
\* or does what it did again.
LEMMA JudgeCommutes ==
  ASSUME NEW perspective, NEW cutoff, NEW now, NEW p, NEW q, NEW name,
         NEW status \in SourceStatus
  PROVE  Judge(perspective, cutoff, now, q, name,
               Judge(perspective, cutoff, now, p, name, status))
           = Judge(perspective, cutoff, now, p, name,
                   Judge(perspective, cutoff, now, q, name, status))
  <1> DEFINE late == WithSourcePolicyStatus(status, "NOT_PUBLISHED",
                                            "SOURCE_NOT_ADMISSIBLE")
             old  == WithSourcePolicyStatus(status, "STALE", "SOURCE_STALE")
  <1>1. /\ late.timestamp_utc = status.timestamp_utc
        /\ old.timestamp_utc = status.timestamp_utc
        /\ old.freshness = "STALE"
    BY DEF WithSourcePolicyStatus, SourceStatus
  <1>2. CASE AfterCutoff(perspective, cutoff, status)
    <2>1. AfterCutoff(perspective, cutoff, late)
      BY <1>1, <1>2 DEF AfterCutoff
    <2>2. ASSUME NEW policy
          PROVE  /\ Judge(perspective, cutoff, now, policy, name, status) = late
                 /\ Judge(perspective, cutoff, now, policy, name, late)
                      = WithSourcePolicyStatus(late, "NOT_PUBLISHED",
                                               "SOURCE_NOT_ADMISSIBLE")
      BY <1>2, <2>1 DEF Judge
    <2> QED
      BY <2>2
  <1>3. CASE ~AfterCutoff(perspective, cutoff, status)
    <2>1. ~AfterCutoff(perspective, cutoff, old)
      BY <1>1, <1>3 DEF AfterCutoff
    <2>2. ASSUME NEW policy
          PROVE  /\ Judge(perspective, cutoff, now, policy, name, status)
                      = IF TooOld(policy, now, name, status) THEN old ELSE status
                 /\ Judge(perspective, cutoff, now, policy, name, old) = old
      BY <1>1, <1>3, <2>1 DEF Judge, TooOld, FailClosedFreshness
    <2> QED
      BY <2>2
  <1> QED
    BY <1>2, <1>3

-----------------------------------------------------------------------------
(* The readiness gate *)

\* The first failed field exists when any field failed.
LEMMA SomeIsLeast ==
  ASSUME NEW S \in SUBSET (1 .. 4), S # {}
  PROVE  (CHOOSE i \in S : \A j \in S : i <= j) \in S
  <1>1. \E i \in S : \A j \in S : i <= j
    <2>1. CASE 1 \in S
      BY <2>1
    <2>2. CASE 1 \notin S /\ 2 \in S
      BY <2>2
    <2>3. CASE 1 \notin S /\ 2 \notin S /\ 3 \in S
      BY <2>3
    <2>4. CASE 1 \notin S /\ 2 \notin S /\ 3 \notin S
      <3>1. ASSUME NEW j \in S PROVE j = 4
        <4>1. j \in 1 .. 4 /\ j # 1 /\ j # 2 /\ j # 3
          BY <2>4
        <4> QED
          BY <4>1
      <3>2. PICK j \in S : TRUE
        OBVIOUS
      <3> QED
        BY <3>1, <3>2
    <2> QED
      BY <2>1, <2>2, <2>3, <2>4
  <1> QED
    BY <1>1

\* The reasons that the readiness gate gives, and those of the calendar checks.
GateReasons ==
  {"CANONICAL_NOT_CANONICAL", "PUBLICATION_AFTER_CUTOFF",
   "PUBLICATION_ASSERTION_AFTER_CUTOFF", "PUBLICATION_ASSERTION_AMBIGUOUS",
   "PUBLICATION_METADATA_INCOMPLETE", "PUBLICATION_METADATA_INVALID",
   "PUBLICATION_METADATA_MISSING", "PUBLICATION_METADATA_UNSUPPORTED",
   "PUBLICATION_NOT_PUBLISHED"}

CalendarReasons ==
  {"UNKNOWN_MARKET", "CALENDAR_MARKET_MISMATCH", "CALENDAR_TIMEZONE_MISMATCH"}

LEMMA ReadinessReasons ==
  ASSUME NEW perspective, NEW cutoff, NEW sources
  PROVE  EvaluatePublicationReadiness(perspective, cutoff, sources)
           \in Optional(GateReasons)
  <1>1. ASSUME NEW publication
        PROVE  ParseFailure(publication) \in Optional(GateReasons)
    <2> DEFINE failures == FieldFailures(publication)
               failed == {i \in 1 .. 4 : failures[i] # None}
    <2>1. ASSUME NEW value, NEW legal
          PROVE  FieldFailure(value, legal) \in Optional(GateReasons)
      BY DEF FieldFailure, Optional, GateReasons
    <2>2. \A i \in 1 .. 4 : failures[i] \in Optional(GateReasons)
      BY <2>1 DEF FieldFailures
    <2>3. ASSUME failed # {}
          PROVE  (CHOOSE i \in failed : \A j \in failed : i <= j) \in failed
      BY <2>3, SomeIsLeast
    <2> QED
      BY <2>2, <2>3 DEF ParseFailure, Optional, GateReasons
  <1>2. ASSUME NEW publication
        PROVE  AssertionFailure(perspective, cutoff, publication)
                 \in Optional(GateReasons)
    BY DEF AssertionFailure, Optional, GateReasons
  <1> QED
    BY <1>1, <1>2 DEF EvaluatePublicationReadiness, Optional, GateReasons

\* The gate gives a pinned reason, or none.
LEMMA ReadinessType ==
  ASSUME NEW perspective, NEW cutoff, NEW sources
  PROVE  EvaluatePublicationReadiness(perspective, cutoff, sources)
           \in Optional(ErrorReasonCode)
  <1>1. GateReasons \subseteq ErrorReasonCode
    BY DEF GateReasons, ErrorReasonCode
  <1> QED
    BY <1>1, ReadinessReasons DEF Optional

\* An assertion that parses is complete and legal, and asserts no withdrawal.
LEMMA ParsedIsLegal ==
  ASSUME NEW publication \in PublicationMetadata, ParseFailure(publication) = None
  PROVE  /\ ~publication.lifecycle
         /\ publication.publication_state \in PublicationState
         /\ publication.canonical_state \in CanonicalState
         /\ publication.publication_utc \in Instants
         /\ publication.asserted_at_utc \in Instants
  <1> DEFINE failures == FieldFailures(publication)
             failed == {i \in 1 .. 4 : failures[i] # None}
  <1>1. None \notin ErrorReasonCode
    BY SentinelAssumption, ReasonAssumption
  <1>2. ASSUME NEW value, NEW legal, FieldFailure(value, legal) = None
        PROVE  value \in legal
    BY <1>1, <1>2 DEF FieldFailure, ErrorReasonCode
  <1>3. publication.lifecycle \in BOOLEAN
    BY DEF PublicationMetadata
  <1>4. ~publication.lifecycle
    BY <1>1, <1>3 DEF ParseFailure, ErrorReasonCode
  <1>5. failed = {}
    BY <1>4, SomeIsLeast DEF ParseFailure
  <1>6. \A i \in 1 .. 4 : failures[i] = None
    BY <1>5
  <1> QED
    BY <1>2, <1>4, <1>6 DEF FieldFailures

\* The gate lets a CANONICAL request pass only on proof: one assertion, which
\* says PUBLISHED and CANONICAL and lies by the cutoff.
LEMMA ReadyIsProof ==
  ASSUME NEW cutoff \in Instants, NEW sources \in SourceMap,
         EvaluatePublicationReadiness("CANONICAL", cutoff, sources) = None
  PROVE  \E name \in Keys(sources) :
           /\ Assertions(sources) = {name}
           /\ ~sources[name].publication.lifecycle
           /\ sources[name].publication.publication_state = "PUBLISHED"
           /\ sources[name].publication.canonical_state = "CANONICAL"
           /\ sources[name].publication.publication_utc \in Instants
           /\ sources[name].publication.asserted_at_utc \in Instants
           /\ sources[name].publication.publication_utc <= cutoff
           /\ sources[name].publication.asserted_at_utc <= cutoff
  <1> DEFINE asserting == Assertions(sources)
  <1>1. None \notin ErrorReasonCode
    BY SentinelAssumption, ReasonAssumption
  <1>2. PICK name \in asserting : asserting = {name}
    BY <1>1 DEF EvaluatePublicationReadiness, ErrorReasonCode
  <1>3. name = (CHOOSE n \in asserting : TRUE)
    BY <1>2
  <1> DEFINE publication == sources[name].publication
  <1>4. /\ name \in Keys(sources)
        /\ publication \in PublicationMetadata
    BY <1>2 DEF Assertions, Keys, SourceMap, SourceStatus, Optional
  <1>5. /\ ParseFailure(publication) = None
        /\ AssertionFailure("CANONICAL", cutoff, publication) = None
    BY <1>1, <1>2, <1>3 DEF EvaluatePublicationReadiness, ErrorReasonCode
  <1>6. /\ ~publication.lifecycle
        /\ publication.publication_utc \in Instants
        /\ publication.asserted_at_utc \in Instants
    BY <1>4, <1>5, ParsedIsLegal
  <1>7. /\ publication.publication_state = "PUBLISHED"
        /\ publication.canonical_state = "CANONICAL"
        /\ ~(publication.publication_utc > cutoff)
        /\ ~(publication.asserted_at_utc > cutoff)
    BY <1>1, <1>5 DEF AssertionFailure, ErrorReasonCode
  <1>8. publication.publication_utc <= cutoff /\ publication.asserted_at_utc <= cutoff
    BY <1>6, <1>7, MaxTimeAssumption DEF Instants
  <1> QED
    BY <1>2, <1>4, <1>6, <1>7, <1>8

\* Conversely such a proof passes the gate, whatever else the sources say.
LEMMA ProofIsReady ==
  ASSUME NEW cutoff \in Instants, NEW sources, NEW name \in SourceNames,
         Assertions(sources) = {name},
         NEW publication, publication = sources[name].publication,
         ~publication.lifecycle,
         publication.publication_state = "PUBLISHED",
         publication.canonical_state = "CANONICAL",
         publication.publication_utc \in Instants,
         publication.asserted_at_utc \in Instants,
         publication.publication_utc <= cutoff,
         publication.asserted_at_utc <= cutoff
  PROVE  EvaluatePublicationReadiness("CANONICAL", cutoff, sources) = None
  <1> DEFINE failures == FieldFailures(publication)
  <1>1. (CHOOSE n \in Assertions(sources) : TRUE) = name
    OBVIOUS
  <1>2. ASSUME NEW value, NEW legal, value \in legal, None \notin legal
        PROVE  FieldFailure(value, legal) = None
    BY <1>2 DEF FieldFailure
  <1>3. /\ "PUBLISHED" \in PublicationState /\ None \notin PublicationState
        /\ "CANONICAL" \in CanonicalState /\ None \notin CanonicalState
        /\ None \notin Instants
    BY SentinelAssumption, MaxTimeAssumption
    DEF PublicationState, CanonicalState, Instants
  <1>4. failures = <<None, None, None, None>>
    BY <1>2, <1>3 DEF FieldFailures
  <1>5. ParseFailure(publication) = None
    BY <1>4 DEF ParseFailure
  <1>6. AssertionFailure("CANONICAL", cutoff, publication) = None
    BY MaxTimeAssumption DEF AssertionFailure, Instants
  <1> QED
    BY <1>1, <1>5, <1>6 DEF EvaluatePublicationReadiness

-----------------------------------------------------------------------------
(* The conclusion *)

\* The policy, if there is one, yields a source map.
LEMMA AdmittedSourcesType ==
  ASSUME NEW request, NEW policy, NEW at, NEW collected \in SourceMap
  PROVE  AdmittedSources(request, policy, at, collected) \in SourceMap
  BY ApplySourcePolicyType DEF AdmittedSources

LEMMA CutoffType ==
  ASSUME NEW request, AcceptsRequest(request), NEW at \in Instants
  PROVE  CutoffOf(request, at) \in Instants
  BY DEF CutoffOf, AcceptsRequest, FieldsAccepted, Optional

\* A call that passed the calendar checks has a calendar of its own market, in
\* the timezone that the request names.
LEMMA CalendarFits ==
  ASSUME NEW request, AcceptsRequest(request), CalendarFailure(request) = None,
         NEW at \in Instants
  PROVE  /\ request.market \in DOMAIN Calendars
         /\ Calendars[request.market].market_timezone = request.market_timezone
         /\ PhaseAt(request, at) \in Optional(MarketPhase)
         /\ BusinessDateAt(request, at) \in Optional(Dates)
         /\ LocalTime[request.market_timezone][at] \in Optional(LocalTimes)
  <1>1. None \notin ErrorReasonCode
    BY SentinelAssumption, ReasonAssumption
  <1>2. /\ request.market \in DOMAIN Calendars
        /\ Calendars[request.market].market_timezone = request.market_timezone
    BY <1>1 DEF CalendarFailure, ErrorReasonCode
  <1>3. /\ PhaseAt(request, at) \in Optional(MarketPhase)
        /\ BusinessDateAt(request, at) \in Optional(Dates)
    BY <1>2, CalendarAssumption DEF PhaseAt, BusinessDateAt
  <1>4. request.market_timezone \in Timezones
    BY DEF AcceptsRequest, FieldsAccepted
  <1> QED
    BY <1>2, <1>3, <1>4, ZoneAssumption

\* Such a call composes well-typed arguments for AsOf.
LEMMA ComposeAsOfType ==
  ASSUME NEW request, AcceptsRequest(request), CalendarFailure(request) = None,
         NEW at \in Instants, ~OutOfRange(request, at), NEW sources \in SourceMap
  PROVE  ComposeAsOf(request, at, sources) \in RawAsOf
  <1>1. /\ PhaseAt(request, at) \in MarketPhase
        /\ BusinessDateAt(request, at) \in Dates
    BY CalendarFits DEF OutOfRange, Optional
  <1>2. CutoffOf(request, at) \in Instants
    BY CutoffType
  <1>3. ResolvePriceBasis(request.perspective, PhaseAt(request, at)) \in PriceBasis
    BY DEF ResolvePriceBasis, PriceBasis
  <1>4. ResolveExecutionState(request.perspective) \in ExecutionState
    BY DEF ResolveExecutionState, ExecutionState
  <1>5. \A price, execution : Reasons(price, execution) \in SUBSET ErrorReasonCode
    BY DEF Reasons, ErrorReasonCode
  <1>6. /\ request.perspective \in Perspective
        /\ request.market \in MarketCodes
        /\ request.market_timezone \in Timezones
    BY DEF AcceptsRequest, FieldsAccepted
  <1>7. /\ "PUBLISHED" \in PublicationState
        /\ {"CANONICAL", "PROVISIONAL"} \subseteq CanonicalState
    BY DEF PublicationState, CanonicalState
  <1> QED
    BY <1>1, <1>2, <1>3, <1>4, <1>5, <1>6, <1>7 DEF ComposeAsOf, RawAsOf, Optional

\* What the validator accepts becomes an AsOf, the same but for the projections.
LEMMA ValidatedType ==
  ASSUME NEW asof \in RawAsOf, AcceptsAsOf(asof)
  PROVE  /\ Validated(asof) \in AsOf
         /\ Validated(asof).resolved_at_utc = asof.resolved_at_utc
         /\ Validated(asof).knowledge_cutoff_utc = asof.knowledge_cutoff_utc
         /\ Validated(asof).canonical_state = asof.canonical_state
         /\ Validated(asof).sources = asof.sources
         /\ Validated(asof).market = asof.market
         /\ Validated(asof).business_date = asof.business_date
         /\ Validated(asof).market_date = Projection(asof).date
  <1>1. /\ asof.market_timezone \in Timezones
        /\ asof.resolved_at_utc \in Instants
    BY DEF RawAsOf
  <1>2. Projection(asof) \in LocalTimes
    BY <1>1, ZoneAssumption DEF AcceptsAsOf, Projection, Optional
  <1>3. Projection(asof).date \in Dates
    BY <1>2 DEF LocalTimes
  <1> DEFINE datetime == IF asof.market_datetime = None THEN Projection(asof)
                                                        ELSE asof.market_datetime
             date == IF asof.market_date = None THEN Projection(asof).date
                                                ELSE asof.market_date
  <1>4. datetime = Projection(asof) /\ date = Projection(asof).date
    BY DEF AcceptsAsOf
  <1>5. Validated(asof)
          = [asof EXCEPT !.market_datetime = datetime, !.market_date = date]
    BY DEF Validated, RawAsOf
  <1> HIDE DEF datetime, date
  <1>6. Validated(asof) \in AsOf
    BY <1>2, <1>3, <1>4, <1>5 DEF RawAsOf, AsOf
  <1> QED
    BY <1>4, <1>5, <1>6 DEF RawAsOf

\* What is validated passes its own validator.
LEMMA ValidatedIsAccepted ==
  ASSUME NEW asof \in RawAsOf, AcceptsAsOf(asof)
  PROVE  AcceptsAsOf(Validated(asof))
  <1>1. /\ Validated(asof).market_datetime = Projection(asof)
        /\ Validated(asof).market_date = Projection(asof).date
    BY DEF Validated, RawAsOf, AcceptsAsOf
  <1>2. /\ Projection(Validated(asof)) = Projection(asof)
        /\ Validated(asof).perspective = asof.perspective
        /\ Validated(asof).canonical_state = asof.canonical_state
        /\ Validated(asof).execution_state = asof.execution_state
        /\ Validated(asof).price_basis = asof.price_basis
        /\ Validated(asof).publication_state = asof.publication_state
        /\ Validated(asof).reason_codes = asof.reason_codes
    BY DEF Validated, RawAsOf, Projection
  <1> QED
    BY <1>1, <1>2 DEF AcceptsAsOf

\* The validator of AsOf accepts whatever the resolver composes for an instant
\* that has a local time.
LEMMA ComposedIsAccepted ==
  ASSUME NEW request, NEW at, NEW sources,
         LocalTime[request.market_timezone][at] # None
  PROVE  AcceptsAsOf(ComposeAsOf(request, at, sources))
  <1>1. \A price, execution :
          price = "UNKNOWN" => "PRICE_BASIS_UNRESOLVED" \in Reasons(price, execution)
    BY DEF Reasons
  <1> QED
    BY <1>1 DEF AcceptsAsOf, ComposeAsOf, ResolveExecutionState, Projection

\* How a call concludes: with a reason and no answer, or with the composed AsOf,
\* which its own validator accepted and for which the gate found no reason.
LEMMA ConcludeCases ==
  ASSUME NEW request, AcceptsRequest(request), CalendarFailure(request) = None,
         NEW policy, NEW at \in Instants, ~OutOfRange(request, at),
         NEW collected \in SourceMap,
         NEW conclusion, conclusion = Conclude(request, policy, at, collected)
  PROVE  /\ conclusion.answer \in Optional(AsOf)
         /\ conclusion.raised \in Optional(ErrorReasonCode \cup {Escaped})
         /\ conclusion.answer # None =>
              LET sources == AdmittedSources(request, policy, at, collected)
                  asof    == ComposeAsOf(request, at, sources)
              IN  /\ asof \in RawAsOf
                  /\ AcceptsAsOf(asof)
                  /\ conclusion.answer = Validated(asof)
                  /\ Unready(request, at, sources) = None
  <1> DEFINE sources == AdmittedSources(request, policy, at, collected)
             asof == ComposeAsOf(request, at, sources)
  <1>1. sources \in SourceMap
    BY AdmittedSourcesType
  <1>2. /\ asof \in RawAsOf
        /\ AcceptsAsOf(asof) => Validated(asof) \in AsOf
    BY <1>1, ComposeAsOfType, ValidatedType
  <1>3. Unready(request, at, sources) \in Optional(ErrorReasonCode)
    BY ReadinessType DEF Unready, Optional
  <1>4. \/ conclusion = Raise(Escaped)
        \/ /\ conclusion = Raise(Unready(request, at, sources))
           /\ Unready(request, at, sources) # None
        \/ /\ conclusion = [answer |-> Validated(asof), raised |-> None]
           /\ AcceptsAsOf(asof)
           /\ Unready(request, at, sources) = None
    BY DEF Conclude
  <1> QED
    BY <1>2, <1>3, <1>4 DEF Raise, Optional

\* A status under one name asserts the same publication before and after the
\* policy: the gate sees what the providers reported.
LEMMA PolicyKeepsPublication ==
  ASSUME NEW request, NEW policy, NEW at, NEW collected \in SourceMap
  PROVE  LET sources == AdmittedSources(request, policy, at, collected)
         IN  /\ Assertions(sources) = Assertions(collected)
             /\ \A name \in Assertions(sources) :
                  sources[name].publication = collected[name].publication
  <1> DEFINE sources == AdmittedSources(request, policy, at, collected)
  <1>1. ASSUME NEW name \in SourceNames
        PROVE  /\ collected[name] # None =>
                    /\ sources[name] # None
                    /\ sources[name].publication = collected[name].publication
               /\ collected[name] = None =>
                    \/ sources[name] = None
                    \/ sources[name].publication = None
    <2>1. CASE policy = NoPolicy
      BY <2>1 DEF AdmittedSources
    <2>2. CASE policy # NoPolicy
      <3> DEFINE cutoff == CutoffOf(request, at)
                 bare == BareStatus(name, "MISSING", "REQUIRED_SOURCE_MISSING")
      <3>1. sources = ApplySourcePolicy(request.perspective, cutoff, at, policy, collected)
        BY <2>2 DEF AdmittedSources
      <3>2. sources \in SourceMap
        BY AdmittedSourcesType
      <3>3. bare \in SourceStatus /\ bare.publication = None
        BY MissingStatusType DEF BareStatus
      <3>4. CASE collected[name] # None
        <4>1. /\ collected[name] \in SourceStatus
              /\ sources[name]
                   = Judge(request.perspective, cutoff, at, policy, name, collected[name])
          BY <3>1, <3>4, ApplySourcePolicyAt
        <4>2. sources[name] \in SourceStatus
          BY <4>1, JudgeType
        <4>3. sources[name].publication = collected[name].publication
          BY <4>1, JudgeKeeps
        <4> QED
          BY <3>4, <4>2, <4>3, RecordAssumption
      <3>5. CASE collected[name] = None /\ name \in policy.required_sources
        <4>1. sources[name]
                = Judge(request.perspective, cutoff, at, policy, name, bare)
          BY <3>1, <3>5, ApplySourcePolicyAt
        <4> QED
          BY <3>3, <3>5, <4>1, JudgeKeeps
      <3>6. CASE collected[name] = None /\ name \notin policy.required_sources
        BY <3>1, <3>6, ApplySourcePolicyAt
      <3> QED
        BY <3>4, <3>5, <3>6
    <2> QED
      BY <2>1, <2>2
  <1> QED
    BY <1>1 DEF Assertions, Keys

\* An untyped exception comes only from a policy that met an array, or from an
\* instant without local time; without either, the gate alone decides whether
\* there is an answer.
LEMMA ConcludeEscapes ==
  ASSUME NEW request, AcceptsRequest(request), CalendarFailure(request) = None,
         NEW policy, NEW at \in Instants, ~OutOfRange(request, at),
         NEW collected \in SourceMap,
         NEW conclusion, conclusion = Conclude(request, policy, at, collected)
  PROVE  LET sources == AdmittedSources(request, policy, at, collected)
             array   == \E name \in Keys(collected) : collected[name].has_array
             local   == LocalTime[request.market_timezone][at]
         IN  /\ conclusion.raised = Escaped =>
                  local = None \/ (policy # NoPolicy /\ array)
             /\ ~array /\ local # None /\ Unready(request, at, sources) = None =>
                  conclusion.answer # None
  <1> DEFINE sources == AdmittedSources(request, policy, at, collected)
             asof == ComposeAsOf(request, at, sources)
             raises == /\ policy # NoPolicy
                       /\ ApplyRaises(request.perspective, CutoffOf(request, at), at,
                                      policy, collected)
  <1>1. raises => \E name \in Keys(collected) : collected[name].has_array
    BY DEF ApplyRaises
  <1>2. asof \in RawAsOf
    BY AdmittedSourcesType, ComposeAsOfType
  <1>3. AcceptsAsOf(asof) => Validated(asof) # None
    BY <1>2, ValidatedType, AnswerAssumption
  <1>4. Unready(request, at, sources) \in Optional(ErrorReasonCode)
    BY ReadinessType DEF Unready, Optional
  <1>5. None # Escaped /\ Escaped \notin ErrorReasonCode
    BY EscapedAssumption DEF Escaped, ErrorReasonCode
  <1>6. LocalTime[request.market_timezone][at] # None => AcceptsAsOf(asof)
    BY ComposedIsAccepted
  <1>7. CASE raises
    BY <1>1, <1>7, <1>5 DEF Conclude, Raise
  <1>8. CASE ~raises /\ Unready(request, at, sources) # None
    <2>1. conclusion = Raise(Unready(request, at, sources))
      BY <1>8 DEF Conclude
    <2> QED
      BY <1>4, <1>5, <1>8, <2>1 DEF Raise, Optional
  <1>9. CASE ~raises /\ Unready(request, at, sources) = None
    <2>1. IF AcceptsAsOf(asof)
            THEN conclusion = [answer |-> Validated(asof), raised |-> None]
            ELSE conclusion = Raise(Escaped)
      BY <1>9 DEF Conclude
    <2> QED
      BY <1>3, <1>5, <1>6, <1>9, <2>1
  <1> QED
    BY <1>7, <1>8, <1>9

\* A conclusion is an answer or a reason, never both and never neither; the reason
\* is the gate's, unless the exception escapes.
LEMMA ConcludeRaises ==
  ASSUME NEW request, AcceptsRequest(request), CalendarFailure(request) = None,
         NEW policy, NEW at \in Instants, ~OutOfRange(request, at),
         NEW collected \in SourceMap,
         NEW conclusion, conclusion = Conclude(request, policy, at, collected)
  PROVE  /\ conclusion.raised \in Optional(GateReasons \cup {Escaped})
         /\ (conclusion.answer = None) <=> (conclusion.raised # None)
  <1> DEFINE sources == AdmittedSources(request, policy, at, collected)
             asof == ComposeAsOf(request, at, sources)
  <1>1. Unready(request, at, sources) \in Optional(GateReasons)
    BY ReadinessReasons DEF Unready, Optional
  <1>2. AcceptsAsOf(asof) => Validated(asof) # None
    BY AdmittedSourcesType, ComposeAsOfType, ValidatedType, AnswerAssumption
  <1>3. \/ conclusion = Raise(Escaped)
        \/ /\ conclusion = Raise(Unready(request, at, sources))
           /\ Unready(request, at, sources) # None
        \/ /\ conclusion = [answer |-> Validated(asof), raised |-> None]
           /\ AcceptsAsOf(asof)
    BY DEF Conclude
  <1> QED
    BY <1>1, <1>2, <1>3, EscapedAssumption DEF Raise, Optional

-----------------------------------------------------------------------------
(***************************************************************************)
(* The round trip of an answer through JSON: what the validator of AsOf    *)
(* has accepted, it accepts again and leaves alone, with its projections   *)
(* or without them.                                                        *)
(***************************************************************************)

\* A validated answer is made of its projections.
LEMMA ProjectionsFit ==
  ASSUME NEW asof \in AsOf, AcceptsAsOf(asof)
  PROVE  /\ asof.market_datetime = Projection(asof)
         /\ asof.market_date = Projection(asof).date
         /\ asof.market_datetime # None
         /\ asof.market_date # None
  <1>1. asof.market_datetime # None /\ asof.market_date # None
    BY SentinelAssumption, RecordAssumption DEF AsOf, Dates
  <1> QED
    BY <1>1 DEF AcceptsAsOf

LEMMA AsOfIsRaw ==
  ASSUME NEW asof \in AsOf
  PROVE  asof \in RawAsOf
  BY DEF AsOf, RawAsOf, Optional

\* An answer whose projections a client has dropped, changed or left alone, and
\* that is accepted nevertheless, is the answer.
LEMMA EditedIsTheAnswer ==
  ASSUME NEW asof \in AsOf, AcceptsAsOf(asof), NEW datetime, NEW date,
         NEW edited, edited = [asof EXCEPT !.market_datetime = datetime,
                                           !.market_date     = date],
         AcceptsAsOf(edited)
  PROVE  Validated(edited) = asof
  <1>1. Projection(edited) = Projection(asof)
    BY DEF Projection, AsOf
  <1>2. /\ edited.market_datetime = datetime
        /\ edited.market_date = date
        /\ datetime \in {None, Projection(asof)}
        /\ date \in {None, Projection(asof).date}
    BY <1>1 DEF AcceptsAsOf, AsOf
  <1>3. Validated(edited)
          = [asof EXCEPT !.market_datetime = Projection(asof),
                         !.market_date     = Projection(asof).date]
    BY <1>1, <1>2 DEF Validated, AsOf
  <1> QED
    BY <1>3, ProjectionsFit DEF AsOf

\* The dump of an answer, and what it differs in.
LEMMA DumpIsAsOf ==
  ASSUME NEW asof \in AsOf
  PROVE  /\ JsonDump(asof).asof \in AsOf
         /\ JsonDump(asof).asof.market_datetime # None
         /\ ~JsonDump(asof).asof.market_datetime.odd
         /\ ~asof.market_datetime.odd => JsonDump(asof).asof = asof
  <1> DEFINE local == asof.market_datetime
             minutes == [local EXCEPT !.odd = FALSE]
  <1>1. local \in LocalTimes /\ local # None
    BY RecordAssumption DEF AsOf
  <1>2. /\ minutes \in LocalTimes
        /\ ~minutes.odd
        /\ ~local.odd => minutes = local
    BY <1>1 DEF LocalTimes
  <1>3. minutes # None
    BY <1>2, RecordAssumption
  <1>4. JsonDump(asof).asof = [asof EXCEPT !.market_datetime = minutes]
    BY <1>1 DEF JsonDump, InMinutes
  <1>5. JsonDump(asof).asof \in AsOf /\ JsonDump(asof).asof.market_datetime = minutes
    BY <1>2, <1>4 DEF AsOf
  <1>6. ~local.odd => JsonDump(asof).asof = asof
    BY <1>2, <1>4 DEF AsOf
  <1> QED
    BY <1>2, <1>3, <1>5, <1>6

\* With other projections the dump is the answer with these projections.
LEMMA EditedDump ==
  ASSUME NEW asof \in AsOf, NEW datetime, NEW date
  PROVE  [JsonDump(asof).asof EXCEPT !.market_datetime = datetime,
                                     !.market_date     = date]
           = [asof EXCEPT !.market_datetime = datetime, !.market_date = date]
  <1>1. ASSUME NEW dump, dump = [asof EXCEPT !.market_datetime = InMinutes(@)]
        PROVE  [dump EXCEPT !.market_datetime = datetime, !.market_date = date]
                 = [asof EXCEPT !.market_datetime = datetime, !.market_date = date]
    BY <1>1 DEF AsOf
  <1> QED
    BY <1>1 DEF JsonDump

\* An answer survives its way out as JSON and in again, unless it is of an instant in
\* local mean time: then it is refused.
LEMMA RoundTrip ==
  ASSUME NEW asof \in AsOf, AcceptsAsOf(asof)
  PROVE  /\ AcceptsPayload(JsonDump(asof)) <=> ~asof.market_datetime.odd
         /\ ~asof.market_datetime.odd => ModelValidate(JsonDump(asof)) = asof
  <1>1. asof = [asof EXCEPT !.market_datetime = asof.market_datetime,
                            !.market_date     = asof.market_date]
    BY DEF AsOf
  <1>2. Validated(asof) = asof
    <2>1. ASSUME NEW edited,
                 edited = [asof EXCEPT !.market_datetime = asof.market_datetime,
                                       !.market_date     = asof.market_date]
          PROVE  Validated(edited) = asof
      BY <1>1, <2>1, EditedIsTheAnswer
    <2> QED
      BY <1>1, <2>1
  <1>3. CASE ~asof.market_datetime.odd
    <2>1. JsonDump(asof).asof = asof /\ ~JsonDump(asof).tuples
      BY <1>3, DumpIsAsOf DEF JsonDump
    <2> QED
      BY <1>2, <1>3, <2>1, AsOfIsRaw DEF AcceptsPayload, ModelValidate
  <1>4. CASE asof.market_datetime.odd
    <2> DEFINE dump == JsonDump(asof).asof
    <2>1. Projection(dump) = Projection(asof)
      BY DEF Projection, JsonDump, AsOf
    <2>2. Projection(dump) = asof.market_datetime
      BY <2>1, ProjectionsFit
    <2>3. dump.market_datetime # Projection(dump) /\ dump.market_datetime # None
      <3>1. ~dump.market_datetime.odd /\ dump.market_datetime # None
        BY DumpIsAsOf, Zenon
      <3> QED
        BY <1>4, <2>2, <3>1, Zenon
    <2> QED
      BY <1>4, <2>3 DEF AcceptsPayload, AcceptsAsOf
  <1> QED
    BY <1>3, <1>4

\* Which step of make_snapshot fails over a validated answer.
LEMMA FailureIs ==
  ASSUME NEW asof \in AsOf, AcceptsAsOf(asof), NEW snapshot_id
  PROVE  SnapshotFailure(asof, snapshot_id)
           = IF ~Encodes(asof.sources) THEN "encoding"
             ELSE IF asof.market_datetime.odd THEN "round_trip"
             ELSE IF snapshot_id = EmptyId THEN "snapshot_id"
             ELSE None
  BY RoundTrip DEF SnapshotFailure

\* Whatever the resolver answers, arrays in its metadata included, can be snapshotted
\* under any identifier but the empty one, and the snapshot holds the answer, unless
\* UTF-8 cannot encode its sources, which no ResolverError or ValidationError reports,
\* or the zone of the market was not yet a whole number of minutes from UTC: exactly
\* these two kinds of answers no snapshot can be made of (snapshot.py 66-85,
\* models.py 281-285).
THEOREM AnswersCanBeSnapshotted ==
  ASSUME NEW request, AcceptsRequest(request), CalendarFailure(request) = None,
         NEW policy, NEW at \in Instants, ~OutOfRange(request, at),
         NEW collected \in SourceMap,
         NEW asof, asof = Conclude(request, policy, at, collected).answer,
         asof # None,
         NEW snapshot_id \in SnapshotIds, NEW version, NEW now_utc
  PROVE  LET odd     == LocalTime[request.market_timezone][at].odd
             failure == SnapshotFailure(asof, snapshot_id)
         IN  /\ AcceptsAsOf(asof)
             /\ failure = "encoding" <=> ~Encodes(asof.sources)
             /\ failure = "round_trip" <=> Encodes(asof.sources) /\ odd
             /\ failure = None <=> Encodes(asof.sources) /\ ~odd
             /\ failure = None =>
                  MakeSnapshot(version, asof, snapshot_id, now_utc).asof = asof
  <1>1. PICK raw \in RawAsOf :
          /\ AcceptsAsOf(raw)
          /\ asof = Validated(raw)
          /\ raw.market_timezone = request.market_timezone
          /\ raw.resolved_at_utc = at
    <2> DEFINE sources == AdmittedSources(request, policy, at, collected)
               raw == ComposeAsOf(request, at, sources)
    <2>1. raw \in RawAsOf
      BY AdmittedSourcesType, ComposeAsOfType
    <2>2. AcceptsAsOf(raw) /\ asof = Validated(raw)
      BY DEF Conclude, Raise
    <2>3. raw.market_timezone = request.market_timezone /\ raw.resolved_at_utc = at
      BY DEF ComposeAsOf
    <2> QED
      BY <2>1, <2>2, <2>3
  <1>2. asof \in AsOf /\ AcceptsAsOf(asof)
    BY <1>1, ValidatedType, ValidatedIsAccepted
  <1>3. asof.market_datetime = LocalTime[request.market_timezone][at]
    <2>1. Projection(asof) = Projection(raw)
      BY <1>1 DEF Validated, Projection, RawAsOf
    <2> QED
      BY <1>1, <1>2, <2>1, ProjectionsFit DEF Projection
  <1>4. snapshot_id # EmptyId /\ None \notin {"encoding", "round_trip"}
    BY SnapshotAssumption DEF CaptureFailures
  <1> QED
    BY <1>2, <1>3, <1>4, FailureIs, RoundTrip DEF MakeSnapshot
=============================================================================
