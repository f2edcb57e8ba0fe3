------------------------- MODULE ResolverProperties -------------------------
(***************************************************************************)
(* What an answer of the resolver may be relied upon for, stated against   *)
(* the statuses the providers reported (collected) and the arguments of    *)
(* the call, not against the operators that computed it.                   *)
(***************************************************************************)
EXTENDS Resolver

\* Calls that returned an answer, and those of them that a policy governed.
Answered == {c \in Callers : answer[c] # None}
Governed == {c \in Answered : policy[c] # NoPolicy}

\* An instant has no local time in the zone of a request, or none that its
\* calendar can tell.
Inconvertible(r, at) ==
  \/ LocalTime[r.market_timezone][at] = None
  \/ r.market \in DOMAIN Calendars /\ OutOfRange(r, at)

Pinned(c) == request[c].perspective \in {"REPLAY", "HISTORICAL"}

\* The reading is of an instant after the answer's knowledge cutoff.
LaterThanCutoff(c, status) ==
  /\ status.timestamp_utc # None
  /\ status.timestamp_utc > answer[c].knowledge_cutoff_utc

\* The age limit for a source, and whether a reading exceeds it.
Limit(c, name) ==
  IF policy[c].max_age_seconds_by_source[name] # None
    THEN policy[c].max_age_seconds_by_source[name]
    ELSE policy[c].max_age_seconds

Expired(c, name, status) ==
  /\ Limit(c, name) # None
  /\ status.timestamp_utc # None
  /\ answer[c].resolved_at_utc - status.timestamp_utc > Limit(c, name)

-----------------------------------------------------------------------------
(* What makes the properties below inductive *)

\* A call that passed the checks: its request is valid, its calendar fits, and
\* it answers for the instant asked about, or else for one that has been.
Underway(c) ==
  /\ AcceptsRequest(request[c])
  /\ CalendarFailure(request[c]) = None
  /\ now_utc[c] \in Instants
  /\ ~OutOfRange(request[c], now_utc[c])
  /\ IF request[c].as_of_utc # None THEN now_utc[c] = request[c].as_of_utc
                                    ELSE now_utc[c] <= clock

\* The providers asked so far have different names, and the statuses collected
\* are theirs.
ReadsAreKept(c) ==
  /\ Keys(collected[c]) = {Names[i] : i \in 1 .. asked[c]}
  /\ \A i, j \in 1 .. asked[c] : Names[i] = Names[j] => i = j

\* The call came as far as a conclusion.  (Without providers it may have failed
\* before, and asked as many.)
Concluded(c) ==
  \/ answer[c] # None
  \/ pc[c] = "done" /\ asked[c] = Len(Names) /\ asked[c] # 0

CallIsCoherent(c) ==
  /\ pc[c] \in {"idle", "accepted"} => asked[c] = 0
  /\ pc[c] \in {"accepted", "reporting"} => AcceptsRequest(request[c])
  /\ pc[c] = "reporting" => Underway(c)
  /\ pc[c] # "done" => answer[c] = None /\ raised[c] = None
  /\ ReadsAreKept(c)
  /\ Concluded(c) =>
       LET conclusion == Conclude(request[c], policy[c], now_utc[c], collected[c])
       IN  /\ Underway(c)
           /\ asked[c] = Len(Names)
           /\ answer[c] = conclusion.answer
           /\ raised[c] = conclusion.raised

\* Wherever a call is, its local variables belong together, and an answer is the
\* conclusion from the arguments, the instant and all that was collected; so is
\* an exception that is raised after the last provider was asked
\* (resolver.py 98-219).
CallsAreCoherent == \A c \in Callers : CallIsCoherent(c)

-----------------------------------------------------------------------------
(* Admissibility of sources *)

\* A replayed or historical answer given under a policy is about the instant
\* that was asked for, whatever the wall clock says, its cutoff is not later,
\* and no source that reports something later than the cutoff is usable
\* (resolver.py 104-108, requests.py 109-118, policy.py 168-183).
NoFutureKnowledge ==
  \A c \in Governed :
    Pinned(c) =>
      /\ answer[c].resolved_at_utc = request[c].as_of_utc
      /\ answer[c].knowledge_cutoff_utc <= answer[c].resolved_at_utc
      /\ \A name \in Keys(answer[c].sources) :
           LaterThanCutoff(c, answer[c].sources[name]) =>
             answer[c].sources[name].freshness \notin Usable

\* Under a policy no usable source is older than its own limit allows, where
\* the limit of a source overrides the default (policy.py 101-103, 185-206).
UsableIsYoungEnough ==
  \A c \in Governed : \A name \in Keys(answer[c].sources) :
    answer[c].sources[name].freshness \in Usable =>
      ~Expired(c, name, answer[c].sources[name])

\* An answer under a policy shows every source that reported and every source
\* that is required, and a required source that did not report is not usable
\* (policy.py 158-165).
RequiredSourcesShow ==
  \A c \in Governed :
    /\ Keys(answer[c].sources) = Keys(collected[c]) \cup policy[c].required_sources
    /\ \A name \in Keys(answer[c].sources) \ Keys(collected[c]) :
         answer[c].sources[name].freshness = "MISSING"

\* A reported status is altered only for one of the two grounds of the policy:
\* the source is later than the cutoff of a pinned request, or it is too old and
\* its provider had not failed closed already.  At the cutoff, and at the limit,
\* a source is admissible (policy.py 168-172, 186-197).
DowngradesAreJustified ==
  \A c \in Governed : \A name \in Keys(collected[c]) :
    \/ answer[c].sources[name] = collected[c][name]
    \/ Pinned(c) /\ LaterThanCutoff(c, collected[c][name])
    \/ /\ Expired(c, name, collected[c][name])
       /\ collected[c][name].freshness \in Usable

\* A status with what a policy decision replaced in it put back, and under
\* metadata["policy"] what was there before.
BeforePolicy(status, previous) ==
  [status EXCEPT !.freshness   = status.policy.previous_freshness,
                 !.reason_code = status.policy.previous_reason_code,
                 !.policy      = previous]

\* Both layers can be reconstructed from an answer: what the policy replaced is
\* recorded under metadata["policy"], everything else is as reported, and no
\* source becomes usable that was not reported so (policy.py 106-133).
ProviderLayerRecoverable ==
  \A c \in Governed : \A name \in Keys(collected[c]) :
    LET was == collected[c][name]
        is  == answer[c].sources[name]
    IN  \/ is = was
        \/ is.freshness \notin Usable /\ was = BeforePolicy(is, was.policy)

-----------------------------------------------------------------------------
(* Canonicality *)

\* One mapping proves publication by a cutoff.
Proves(publication, cutoff) ==
  /\ ~publication.lifecycle
  /\ publication.publication_state = "PUBLISHED"
  /\ publication.canonical_state = "CANONICAL"
  /\ publication.publication_utc \in Instants
  /\ publication.asserted_at_utc \in Instants
  /\ publication.publication_utc <= cutoff
  /\ publication.asserted_at_utc <= cutoff

Asserts(status) == status.publication \notin {None, Malformed}

\* Exactly one of the reported sources asserts a publication, and proves it.
Proven(c) ==
  \E name \in Keys(collected[c]) :
    /\ Asserts(collected[c][name])
    /\ \A other \in Keys(collected[c]) \ {name} : ~Asserts(collected[c][other])
    /\ Proves(collected[c][name].publication,
              CutoffOf(request[c], now_utc[c]))

\* An answer says CANONICAL only to a CANONICAL request for which exactly one
\* assertion was reported that proves publication by the cutoff
\* (resolver.py 178-194, publication.py 55-149).
CanonicalIsProven ==
  \A c \in Answered :
    answer[c].canonical_state = "CANONICAL" =>
      request[c].perspective = "CANONICAL" /\ Proven(c)

\* A CANONICAL call that comes as far as the readiness gate with such a proof is
\* answered: freshness, policy and the other sources do not count against it.
\* (Arrays in metadata: see TooOldIsReportedStale.  Instants without local time:
\* see OnlyTypedFailures.)
ProofIsAccepted ==
  \A c \in Callers :
    /\ pc[c] = "done"
    /\ asked[c] = Len(Names)
    /\ request[c].perspective = "CANONICAL"
    /\ Proven(c)
    /\ ~Inconvertible(request[c], now_utc[c])
    /\ \A name \in Keys(collected[c]) : ~collected[c][name].has_array
    => answer[c] # None

-----------------------------------------------------------------------------
(* What the contract says and the code does not do *)

\* A source that the policy finds too old is reported STALE, in an answer
\* (PRODUCT_CONTRACT.md 367-370).
TooOldIsReportedStale ==
  \A c \in Callers : \A name \in Keys(collected[c]) :
    LET status == collected[c][name]
    IN  /\ pc[c] = "done"
        /\ asked[c] = Len(Names)
        /\ policy[c] # NoPolicy
        /\ request[c].perspective = "LIVE"
        /\ status.freshness \in Usable
        /\ status.timestamp_utc # None
        /\ Limit(c, name) # None
        /\ now_utc[c] - status.timestamp_utc > Limit(c, name)
        => /\ answer[c] # None
           /\ answer[c].sources[name].freshness = "STALE"

\* No answer says PUBLISHED while a source asserts that the data is embargoed
\* (PRODUCT_CONTRACT.md 246-247).
EmbargoIsNotPublished ==
  \A c \in Answered : \A name \in Keys(answer[c].sources) :
    LET publication == answer[c].sources[name].publication
    IN  /\ publication \notin {None, Malformed}
        /\ publication.publication_state = "EMBARGOED"
        => answer[c].publication_state # "PUBLISHED"

-----------------------------------------------------------------------------
(* The call as a whole *)

\* The three ways in which an exception that is no ResolverError leaves a call.
EscapeExplained(c) ==
  raised[c] = Escaped =>
    \/ Inconvertible(request[c], now_utc[c])
    \/ /\ asked[c] < Len(Names)
       /\ \E content \in Contents[asked[c] + 1] : ReportEscapes(content)
    \/ /\ policy[c] # NoPolicy
       /\ \E name \in Keys(collected[c]) : collected[c][name].has_array

\* No exception but a ResolverError leaves resolve(), unless the instant is beyond
\* the range of local time, a provider's report let one through, or a policy
\* governs a status with an array in its metadata: in particular the validator of
\* AsOf never refuses what the resolver composed (resolver.py 132-133, 145-155,
\* 172-219, models.py 271-333).
OnlyTypedFailures == \A c \in Callers : EscapeExplained(c)

\* A calendar whose business date is the local date in its own timezone, as for XNYS.
KeepsLocalDates(key) ==
  LET calendar == Calendars[key]
  IN  \A t \in Instants :
        LocalTime[calendar.market_timezone][t] # None =>
          calendar.business_date[t] = LocalTime[calendar.market_timezone][t].date

\* With such a calendar the business date of an answer, which the calendar gives,
\* is its market date, which AsOf derives from the timezone of the request: an
\* answer is never about two days (resolver.py 110-133, models.py 272-293).
OneMarketDay ==
  \A c \in Answered :
    KeepsLocalDates(answer[c].market) =>
      answer[c].business_date = answer[c].market_date

\* A call under two providers of one name is never answered: a status would
\* have been lost (resolver.py 138-144).
OneStatusPerProvider ==
  \A c \in Answered : \A i, j \in Positions : Names[i] = Names[j] => i = j

\* While a call collects statuses, the instant it answers for stays what it was
\* and no collected status is replaced (resolver.py 104-108, 135-155).
OneInstantPerCall ==
  [][\A c \in Callers :
       pc[c] = "reporting" =>
         /\ now_utc'[c] = now_utc[c]
         /\ \A name \in Keys(collected[c]) :
              collected'[c][name] = collected[c][name]]_vars
=============================================================================
