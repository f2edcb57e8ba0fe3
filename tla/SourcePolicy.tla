---------------------------- MODULE SourcePolicy ----------------------------
(***************************************************************************)
(* Source admissibility (policy.py).  apply_source_policy is pure: it maps *)
(* the statuses that the providers reported to the statuses that the AsOf  *)
(* will carry.  It adds the required sources that nobody reported, and     *)
(* downgrades sources that lie after the knowledge cutoff or are too old.  *)
(***************************************************************************)
EXTENDS Ontology

\* A validated SourcePolicy.  Ages are positive, in units of the time line; a
\* source without an override has None under max_age_seconds_by_source.
Policy ==
  [required_sources          : SUBSET SourceNames,
   max_age_seconds           : Optional(Nat \ {0}),
   max_age_seconds_by_source : [SourceNames -> Optional(Nat \ {0})]]

\* The override of a source wins over the default, which may be absent.
MaxAgeFor(policy, name) ==
  IF policy.max_age_seconds_by_source[name] # None
    THEN policy.max_age_seconds_by_source[name]
    ELSE policy.max_age_seconds

-----------------------------------------------------------------------------
(* The two grounds for a downgrade *)

\* Mutant: historical reads escape the cutoff.
AfterCutoffReplayOnly(perspective, cutoff, status) ==
  /\ perspective = "REPLAY"
  /\ status.timestamp_utc # None
  /\ status.timestamp_utc > cutoff

\* Mutant: the cutoff instant itself is refused.
AfterCutoffInclusive(perspective, cutoff, status) ==
  /\ perspective \in {"REPLAY", "HISTORICAL"}
  /\ status.timestamp_utc # None
  /\ status.timestamp_utc >= cutoff

\* Only replayed and historical reads are held to the knowledge cutoff, and
\* only sources that name an authority timestamp; at the cutoff is admissible.
AfterCutoff(perspective, cutoff, status) ==
  /\ perspective \in {"REPLAY", "HISTORICAL"}
  /\ status.timestamp_utc # None
  /\ status.timestamp_utc > cutoff

\* Mutant: what is too old already may be found too old once more.
FailClosedFreshnessButStale == {"FAILED", "MISSING", "NOT_PUBLISHED"}

\* States a provider reports that already fail closed; age never replaces them.
FailClosedFreshness == {"FAILED", "MISSING", "STALE", "NOT_PUBLISHED"}

\* Mutant: per-source overrides are forgotten.
TooOldDefaultOnly(policy, now_utc, name, status) ==
  /\ policy.max_age_seconds # None
  /\ status.timestamp_utc # None
  /\ status.freshness \notin FailClosedFreshness
  /\ now_utc - status.timestamp_utc > policy.max_age_seconds

TooOld(policy, now_utc, name, status) ==
  /\ MaxAgeFor(policy, name) # None
  /\ status.timestamp_utc # None
  /\ status.freshness \notin FailClosedFreshness
  /\ now_utc - status.timestamp_utc > MaxAgeFor(policy, name)

-----------------------------------------------------------------------------
(* The decision on one source, and on all of them *)

\* Mutant: the diagnostics are saved after they have been overwritten.
WithSourcePolicyStatusLate(status, freshness, reason_code) ==
  [status EXCEPT
     !.freshness   = freshness,
     !.reason_code = reason_code,
     !.policy      = [previous_freshness   |-> freshness,
                      previous_reason_code |-> reason_code]]

\* The decision becomes the active status; what it replaced goes to metadata.
WithSourcePolicyStatus(status, freshness, reason_code) ==
  [status EXCEPT
     !.freshness   = freshness,
     !.reason_code = reason_code,
     !.policy      = [previous_freshness   |-> status.freshness,
                      previous_reason_code |-> status.reason_code]]

\* Mutant: a source that is young enough becomes usable again.
JudgeRestores(perspective, cutoff, now_utc, policy, name, status) ==
  CASE AfterCutoff(perspective, cutoff, status) ->
         WithSourcePolicyStatus(status, "NOT_PUBLISHED", "SOURCE_NOT_ADMISSIBLE")
    [] /\ ~AfterCutoff(perspective, cutoff, status)
       /\ TooOld(policy, now_utc, name, status) ->
         WithSourcePolicyStatus(status, "STALE", "SOURCE_STALE")
    [] OTHER -> IF status.freshness = "STALE" /\ MaxAgeFor(policy, name) # None
                  THEN [status EXCEPT !.freshness = "FRESH"] ELSE status

\* The cutoff is looked at first, whatever the source's age.
Judge(perspective, cutoff, now_utc, policy, name, status) ==
  CASE AfterCutoff(perspective, cutoff, status) ->
         WithSourcePolicyStatus(status, "NOT_PUBLISHED", "SOURCE_NOT_ADMISSIBLE")
    [] /\ ~AfterCutoff(perspective, cutoff, status)
       /\ TooOld(policy, now_utc, name, status) ->
         WithSourcePolicyStatus(status, "STALE", "SOURCE_STALE")
    [] OTHER -> status

\* Mutant: only the sources that reported are looked at.
WithRequiredReportedOnly(policy, sources) == sources

\* What the policy looks at: every reported source, and a MISSING status for
\* every required one that did not report.
WithRequired(policy, sources) ==
  [name \in SourceNames |->
     IF sources[name] = None /\ name \in policy.required_sources
       THEN BareStatus(name, "MISSING", "REQUIRED_SOURCE_MISSING")
       ELSE sources[name]]

\* Mutant: sources that are not admissible are left out of the outcome.
ApplySourcePolicyDropping(perspective, cutoff, now_utc, policy, sources) ==
  LET resolved == WithRequired(policy, sources)
  IN  [name \in SourceNames |->
         IF resolved[name] = None THEN None
         ELSE IF AfterCutoff(perspective, cutoff, resolved[name]) THEN None
         ELSE Judge(perspective, cutoff, now_utc, policy, name, resolved[name])]

ApplySourcePolicy(perspective, cutoff, now_utc, policy, sources) ==
  LET resolved == WithRequired(policy, sources)
  IN  [name \in SourceNames |->
         IF resolved[name] = None THEN None
         ELSE Judge(perspective, cutoff, now_utc, policy, name, resolved[name])]

(***************************************************************************)
(* A downgrade rebuilds the status through the SourceStatus constructor.   *)
(* The first validation has turned the JSON arrays of the metadata into    *)
(* tuples, and the validator accepts no tuple: the rebuild raises          *)
(* pydantic.ValidationError and apply_source_policy does not return.       *)
(***************************************************************************)
ApplyRaises(perspective, cutoff, now_utc, policy, sources) ==
  \E name \in Keys(sources) :
    /\ sources[name].has_array
    /\ \/ AfterCutoff(perspective, cutoff, sources[name])
       \/ TooOld(policy, now_utc, name, sources[name])
=============================================================================
