---------------------------- MODULE PolicyChain ----------------------------
(***************************************************************************)
(* apply_source_policy (policy.py) is public: a program may apply one      *)
(* policy after another to the same statuses, each under a perspective, a  *)
(* cutoff and an instant of its own.  reported is what the chain started   *)
(* from, sources what it has come to.                                      *)
(***************************************************************************)
EXTENDS SourcePolicy

CONSTANTS
  Reports,         \* the status maps that chains start from
  ChainPolicies,   \* the policies that are applied
  MaxApplications  \* bound on the length of a chain

ASSUME ChainAssumption ==
  /\ Reports \subseteq SourceMap
  /\ ChainPolicies \subseteq Policy
  /\ MaxApplications \in Nat

VARIABLES
  reported,
  sources,
  applied,  \* how many policies have been applied
  late,     \* one of them applied a cutoff, and was not the first
  raised    \* the last application did not return

vars == <<reported, sources, applied, late, raised>>

TypeOK ==
  /\ reported \in SourceMap
  /\ sources \in SourceMap
  /\ applied \in 0 .. MaxApplications
  /\ late \in BOOLEAN
  /\ raised \in BOOLEAN

Init ==
  /\ reported \in Reports
  /\ sources = reported
  /\ applied = 0
  /\ late = FALSE
  /\ raised = FALSE

Apply(perspective, cutoff, now_utc, policy) ==
  /\ applied < MaxApplications
  /\ applied' = applied + 1
  /\ late' = (late \/ (applied > 0 /\ perspective \in {"REPLAY", "HISTORICAL"}))
  /\ \/ /\ ApplyRaises(perspective, cutoff, now_utc, policy, sources)
        /\ raised' = TRUE
        /\ UNCHANGED sources
     \/ /\ ~ApplyRaises(perspective, cutoff, now_utc, policy, sources)
        /\ raised' = FALSE
        /\ sources' = ApplySourcePolicy(perspective, cutoff, now_utc, policy, sources)
  /\ UNCHANGED reported

Next ==
  \E perspective \in Perspective, cutoff, now_utc \in Instants,
     policy \in ChainPolicies :
    Apply(perspective, cutoff, now_utc, policy)

Spec == Init /\ [][Next]_vars

-----------------------------------------------------------------------------
(* Properties *)

\* A status with what one policy decision replaced in it put back.
Restored(status, previous) ==
  [status EXCEPT !.freshness   = status.policy.previous_freshness,
                 !.reason_code = status.policy.previous_reason_code,
                 !.policy      = previous]

\* What was reported can be told from the outcome.
Recoverable ==
  \A name \in Keys(reported) :
    \/ sources[name] = reported[name]
    \/ /\ sources[name] # None
       /\ sources[name].policy # None
       /\ Restored(sources[name], reported[name].policy) = reported[name]

\* However many policies are applied, and when: as long as none but the first
\* applies a cutoff, what the providers reported can be restored from the outcome,
\* since a source that is already too old is not downgraded again
\* (policy.py 106-133, 186-206).
LayersSurvive == ~late => Recoverable

\* A policy makes no source usable that was not and hides none, whatever the
\* policies before it did, and a source it adds is MISSING (policy.py 156-206).
UsabilityOnlyShrinks ==
  [][\A name \in SourceNames :
       /\ name \in Keys(sources) =>
            /\ sources'[name] # None
            /\ sources'[name].freshness \in Usable =>
                 sources[name].freshness \in Usable
       /\ name \in Keys(sources') \ Keys(sources) =>
            sources'[name].freshness = "MISSING"]_vars

Twice(perspective, cutoff, now_utc, first, second) ==
  ApplySourcePolicy(perspective, cutoff, now_utc, second,
    ApplySourcePolicy(perspective, cutoff, now_utc, first, sources))

\* Two policies applied at one instant have one outcome, whichever comes first
\* (policy.py 156-206).
OrderDoesNotMatter ==
  \A perspective \in Perspective, cutoff, now_utc \in Instants,
     p, q \in ChainPolicies :
    Twice(perspective, cutoff, now_utc, p, q) =
      Twice(perspective, cutoff, now_utc, q, p)

\* The limit that a policy sets on the age of a source, and whether first asks for at
\* least what second asks for.
LimitOf(policy, name) ==
  LET own == policy.max_age_seconds_by_source[name]
  IN  IF own # None THEN own ELSE policy.max_age_seconds

Stricter(first, second) ==
  \A name \in SourceNames :
    LimitOf(second, name) # None =>
      /\ LimitOf(first, name) # None
      /\ LimitOf(first, name) <= LimitOf(second, name)

UsableAfter(perspective, cutoff, now_utc, policy) ==
  LET outcome == ApplySourcePolicy(perspective, cutoff, now_utc, policy, sources)
  IN  {name \in Keys(outcome) : outcome[name].freshness \in Usable}

\* What is usable under a policy stays so under one that asks for less, at a later
\* cutoff and at an earlier instant: knowing more and asking for less never costs a
\* source (policy.py 101-103, 167-206).
AdmissionIsMonotone ==
  \A perspective \in Perspective, cutoff, later, now_utc, earlier \in Instants,
     first, second \in ChainPolicies :
    cutoff <= later /\ earlier <= now_utc /\ Stricter(first, second) =>
      UsableAfter(perspective, cutoff, now_utc, first)
        \subseteq UsableAfter(perspective, later, earlier, second)
=============================================================================
