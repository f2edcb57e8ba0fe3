----------------------------- MODULE Resolution -----------------------------
(***************************************************************************)
(* The pure part of resolver.py: what resolve() concludes from a request,  *)
(* an instant, a market phase and the statuses it has collected, up to and *)
(* including the validator of AsOf (models.py), the final guardrail.       *)
(*                                                                         *)
(* A conclusion is a pair: answer, the AsOf or None, and raised, what was  *)
(* raised instead or None.  raised is a reason code when a ResolverError   *)
(* is raised and Escaped when any other exception leaves resolve().        *)
(***************************************************************************)
EXTENDS Requests, SourcePolicy, Publication

CONSTANTS
  NoPolicy,   \* the policy argument is None; not the same as an empty policy
  Calendars,  \* registered calendars: key -> market, timezone, phases and dates
  LocalTime   \* the time zone database: timezone -> instant -> local time

ASSUME PolicyAssumption == NoPolicy \notin Policy

ASSUME CalendarAssumption ==
  /\ DOMAIN Calendars \subseteq MarketCodes
  /\ \A key \in DOMAIN Calendars :
       Calendars[key] \in [market          : MarketCodes,
                           market_timezone : Timezones,
                           phase           : [Instants -> Optional(MarketPhase)],
                           business_date   : [Instants -> Optional(Dates)]]

\* None where the conversion to local time overflows: at the ends of datetime.
ASSUME ZoneAssumption ==
  LocalTime \in [Timezones -> [Instants -> Optional(LocalTimes)]]

Escaped == "ESCAPED"

ASSUME EscapedAssumption == None # Escaped

-----------------------------------------------------------------------------
(* Calendar, price basis, execution state *)

\* Mutant: the timezone of the request is not compared with the calendar's.
CalendarFailureAnyZone(request) ==
  CASE request.market \notin DOMAIN Calendars -> "UNKNOWN_MARKET"
    [] /\ request.market \in DOMAIN Calendars
       /\ Calendars[request.market].market # request.market ->
         "CALENDAR_MARKET_MISMATCH"
    [] OTHER -> None

\* The first of the three calendar checks that fails, or None.
CalendarFailure(request) ==
  CASE request.market \notin DOMAIN Calendars -> "UNKNOWN_MARKET"
    [] /\ request.market \in DOMAIN Calendars
       /\ Calendars[request.market].market # request.market ->
         "CALENDAR_MARKET_MISMATCH"
    [] /\ request.market \in DOMAIN Calendars
       /\ Calendars[request.market].market = request.market
       /\ Calendars[request.market].market_timezone # request.market_timezone ->
         "CALENDAR_TIMEZONE_MISMATCH"
    [] OTHER -> None

PhaseAt(request, at) == Calendars[request.market].phase[at]

BusinessDateAt(request, at) == Calendars[request.market].business_date[at]

\* The calendar has no answer: its own conversion to local time overflows.
OutOfRange(request, at) ==
  BusinessDateAt(request, at) = None \/ PhaseAt(request, at) = None

ResolvePriceBasis(perspective, market_phase) ==
  CASE perspective = "LIVE" /\ market_phase = "MARKET_OPEN" -> "LAST_TRADE"
    [] market_phase = "PRE_OPEN" -> "PRIOR_CLOSE"
    [] /\ perspective \in {"PRE_TRADE_INTENT", "PREVIEW"}
       /\ market_phase # "PRE_OPEN" -> "PRIOR_CLOSE"
    [] OTHER -> "UNKNOWN"

\* Mutant: only the execution perspectives get a state.
ResolveExecutionStateNoDefault(perspective) ==
  IF perspective = "EXECUTED" THEN "UNKNOWN" ELSE None

ResolveExecutionState(perspective) ==
  IF perspective = "EXECUTED" THEN "UNKNOWN" ELSE "NOT_EXECUTED"

\* Mutant: the reason of an unresolved price basis gets lost when there is none
\* for the execution state.
ReasonsLastOnly(price_basis, execution_state) ==
  IF execution_state = "UNKNOWN"
    THEN {"PRICE_BASIS_UNRESOLVED", "EXECUTION_FACTS_UNAVAILABLE"}
    ELSE {}

\* The reason codes that resolve() joins into AsOf.reason_code.
Reasons(price_basis, execution_state) ==
  {reason \in {"PRICE_BASIS_UNRESOLVED", "EXECUTION_FACTS_UNAVAILABLE"} :
     \/ reason = "PRICE_BASIS_UNRESOLVED" /\ price_basis = "UNKNOWN"
     \/ reason = "EXECUTION_FACTS_UNAVAILABLE" /\ execution_state = "UNKNOWN"}

-----------------------------------------------------------------------------
(* The answer *)

\* The arguments of the AsOf constructor, and the validated AsOf.  Explanations
\* are left out; reason_codes is the set of the codes joined in reason_code.
RawAsOf ==
  [resolved_at_utc      : Instants,
   perspective          : Perspective,
   market               : MarketCodes,
   market_timezone      : Timezones,
   market_datetime      : Optional(LocalTimes),
   market_date          : Optional(Dates),
   business_date        : Dates,
   market_phase         : MarketPhase,
   knowledge_cutoff_utc : Instants,
   price_basis          : PriceBasis,
   execution_state      : ExecutionState,
   publication_state    : PublicationState,
   canonical_state      : CanonicalState,
   sources              : SourceMap,
   reason_codes         : SUBSET ErrorReasonCode]

AsOf ==
  [resolved_at_utc      : Instants,
   perspective          : Perspective,
   market               : MarketCodes,
   market_timezone      : Timezones,
   market_datetime      : LocalTimes,
   market_date          : Dates,
   business_date        : Dates,
   market_phase         : MarketPhase,
   knowledge_cutoff_utc : Instants,
   price_basis          : PriceBasis,
   execution_state      : ExecutionState,
   publication_state    : PublicationState,
   canonical_state      : CanonicalState,
   sources              : SourceMap,
   reason_codes         : SUBSET ErrorReasonCode]

ASSUME AnswerAssumption == None \notin AsOf

\* The instant of an answer in the time of its market.
Projection(asof) == LocalTime[asof.market_timezone][asof.resolved_at_utc]

\* The validator of AsOf: the instant converts to market-local time, supplied
\* projections are the derived ones, and the fail-closed rules hold.
AcceptsAsOf(asof) ==
  /\ Projection(asof) # None
  /\ asof.market_datetime \in {None, Projection(asof)}
  /\ asof.market_date \in {None, Projection(asof).date}
  /\ asof.perspective = "CANONICAL" => asof.canonical_state = "CANONICAL"
  /\ asof.perspective = "EXECUTED" =>
       asof.execution_state \notin {"INTENDED", "WORKING"}
  /\ "UNKNOWN" \in {asof.price_basis, asof.publication_state, asof.canonical_state}
       => asof.reason_codes # {}

\* What it makes of the arguments it accepts: projections that were not supplied
\* are filled in.
Validated(asof) ==
  [asof EXCEPT
     !.market_datetime = IF @ = None THEN Projection(asof) ELSE @,
     !.market_date     = IF @ = None THEN Projection(asof).date ELSE @]

CutoffOf(request, at) ==
  IF request.knowledge_cutoff_utc # None THEN request.knowledge_cutoff_utc ELSE at

\* The sources after the policy, if there is one.
AdmittedSources(request, policy, at, collected) ==
  IF policy = NoPolicy THEN collected
  ELSE ApplySourcePolicy(request.perspective, CutoffOf(request, at), at, policy,
                         collected)

ComposeAsOf(request, at, sources) ==
  LET price     == ResolvePriceBasis(request.perspective, PhaseAt(request, at))
      execution == ResolveExecutionState(request.perspective)
  IN  [resolved_at_utc      |-> at,
       perspective          |-> request.perspective,
       market               |-> request.market,
       market_timezone      |-> request.market_timezone,
       market_datetime      |-> None,
       market_date          |-> None,
       business_date        |-> BusinessDateAt(request, at),
       market_phase         |-> PhaseAt(request, at),
       knowledge_cutoff_utc |-> CutoffOf(request, at),
       price_basis          |-> price,
       execution_state      |-> execution,
       publication_state    |-> "PUBLISHED",
       canonical_state      |-> IF request.perspective = "CANONICAL"
                                  THEN "CANONICAL" ELSE "PROVISIONAL",
       sources              |-> sources,
       reason_codes         |-> Reasons(price, execution)]

\* Only a CANONICAL request asks for proof of publication.
Unready(request, at, sources) ==
  IF request.perspective = "CANONICAL"
    THEN EvaluatePublicationReadiness("CANONICAL", CutoffOf(request, at), sources)
    ELSE None

Raise(reason) == [answer |-> None, raised |-> reason]

Conclude(request, policy, at, collected) ==
  LET sources == AdmittedSources(request, policy, at, collected)
      asof    == ComposeAsOf(request, at, sources)
  IN  IF /\ policy # NoPolicy
         /\ ApplyRaises(request.perspective, CutoffOf(request, at), at, policy,
                        collected)
        THEN Raise(Escaped)
      ELSE IF Unready(request, at, sources) # None
        THEN Raise(Unready(request, at, sources))
      ELSE IF ~AcceptsAsOf(asof)
        THEN Raise(Escaped)
      ELSE [answer |-> Validated(asof), raised |-> None]
=============================================================================
