------------------------- MODULE PolicyChainProofs -------------------------
(***************************************************************************)
(* Chains of any length, under any policies: the provider's layer stays    *)
(* recoverable, sources only get less usable, and the order of policies at *)
(* one instant does not matter.                                            *)
(***************************************************************************)
EXTENDS PolicyChain, ResolutionProofs

\* One application, under one name.
LEMMA AppliedAt ==
  ASSUME TypeOK, NEW perspective, NEW cutoff, NEW now_utc, NEW policy,
         Apply(perspective, cutoff, now_utc, policy), NEW name \in SourceNames
  PROVE  \/ sources'[name] = sources[name]
         \/ /\ sources[name] # None
            /\ sources[name] \in SourceStatus
            /\ sources'[name]
                 = Judge(perspective, cutoff, now_utc, policy, name, sources[name])
         \/ /\ sources[name] = None
            /\ sources'[name] = BareStatus(name, "MISSING", "REQUIRED_SOURCE_MISSING")
  <1>1. CASE UNCHANGED sources
    BY <1>1
  <1>2. CASE sources'
               = ApplySourcePolicy(perspective, cutoff, now_utc, policy, sources)
    BY <1>2, ApplySourcePolicyAt, MissingIsKept DEF TypeOK
  <1> QED
    BY <1>1, <1>2 DEF Apply

\* Every application keeps the types.
LEMMA ApplyType ==
  ASSUME TypeOK, NEW perspective, NEW cutoff, NEW now_utc, NEW policy,
         Apply(perspective, cutoff, now_utc, policy)
  PROVE  TypeOK'
  <1>1. sources' \in SourceMap
    BY ApplySourcePolicyType DEF Apply, TypeOK
  <1>2. applied' \in 0 .. MaxApplications
    BY ChainAssumption DEF Apply, TypeOK
  <1> QED
    BY <1>1, <1>2 DEF Apply, TypeOK

\* Every variable keeps its type (policy.py 136-208).
THEOREM ChainTypeCorrect == Spec => []TypeOK
  <1>1. Init => TypeOK
    <2>1. 0 \in 0 .. MaxApplications
      BY ChainAssumption
    <2>2. Init => reported \in SourceMap /\ sources \in SourceMap
      BY ChainAssumption DEF Init
    <2> QED
      BY <2>1, <2>2 DEF Init, TypeOK
  <1>2. TypeOK /\ [Next]_vars => TypeOK'
    <2>1. TypeOK /\ Next => TypeOK'
      BY ApplyType DEF Next
    <2>2. TypeOK /\ UNCHANGED vars => TypeOK'
      BY DEF TypeOK, vars
    <2> QED
      BY <2>1, <2>2
  <1> QED
    BY <1>1, <1>2, PTL DEF Spec

-----------------------------------------------------------------------------
(* The provider's layer *)

\* A source as it was reported, or as one decision has left it: failing closed,
\* with the diagnostics of the report next to it.
OneDecision(name) ==
  \/ sources[name] = reported[name]
  \/ /\ sources[name] # None
     /\ sources[name].policy # None
     /\ sources[name].freshness \in {"STALE", "NOT_PUBLISHED"}
     /\ Restored(sources[name], reported[name].policy) = reported[name]

Layered ==
  /\ applied = 0 => sources = reported
  /\ ~late => \A name \in Keys(reported) : OneDecision(name)

\* A decision fails closed, and can be taken back.
LEMMA DecisionRestored ==
  ASSUME NEW status \in SourceStatus, NEW freshness, NEW reason_code,
         NEW decided, decided = WithSourcePolicyStatus(status, freshness, reason_code)
  PROVE  /\ decided.freshness = freshness
         /\ decided.policy # None
         /\ Restored(decided, status.policy) = status
  <1>1. decided.policy = [previous_freshness   |-> status.freshness,
                          previous_reason_code |-> status.reason_code]
    BY DEF WithSourcePolicyStatus, SourceStatus
  <1>2. decided.policy \in PolicyMetadata
    BY <1>1 DEF SourceStatus, PolicyMetadata
  <1>3. decided.policy # None
    BY <1>2, RecordAssumption
  <1>4. decided.freshness = freshness /\ Restored(decided, status.policy) = status
    BY <1>1 DEF Restored, WithSourcePolicyStatus, SourceStatus
  <1> QED
    BY <1>3, <1>4

\* One more application: the first decides on reports, a later one without a
\* cutoff leaves alone what fails closed already.
LEMMA ApplyLayered ==
  ASSUME TypeOK, Layered, NEW perspective, NEW cutoff, NEW now_utc, NEW policy,
         Apply(perspective, cutoff, now_utc, policy)
  PROVE  Layered'
  <1>1. applied' # 0 /\ reported' = reported
    BY DEF Apply, TypeOK
  <1>2. ASSUME ~late', NEW name \in Keys(reported)
        PROVE  OneDecision(name)'
    <2>1. /\ name \in SourceNames
          /\ reported[name] # None
          /\ reported[name] \in SourceStatus
      BY DEF Keys, TypeOK, SourceMap, Optional
    <2>2. OneDecision(name)
      BY <1>2 DEF Apply, Layered
    <2>3. sources[name] # None
      BY <2>1, <2>2 DEF OneDecision
    <2>4. CASE sources'[name] = sources[name]
      BY <1>1, <2>2, <2>4 DEF OneDecision
    <2>5. CASE sources'[name]
                 = Judge(perspective, cutoff, now_utc, policy, name, sources[name])
      <3>1. CASE sources[name] = reported[name]
        <4>1. \/ sources'[name] = reported[name]
              \/ sources'[name] = WithSourcePolicyStatus(reported[name],
                                    "NOT_PUBLISHED", "SOURCE_NOT_ADMISSIBLE")
              \/ sources'[name] = WithSourcePolicyStatus(reported[name],
                                    "STALE", "SOURCE_STALE")
          BY <2>5, <3>1 DEF Judge
        <4>2. sources'[name] \in SourceStatus
          BY <2>1, <2>5, <3>1, JudgeType
        <4>3. sources'[name] # None
          BY <4>2, RecordAssumption
        <4> QED
          BY <1>1, <2>1, <4>1, <4>3, DecisionRestored DEF OneDecision
      <3>2. CASE /\ sources[name] # reported[name]
                 /\ sources[name].freshness \in {"STALE", "NOT_PUBLISHED"}
        <4>1. applied > 0
          BY <3>2, ChainAssumption DEF Layered, TypeOK
        <4>2. perspective \notin {"REPLAY", "HISTORICAL"}
          <5>1. late' = (late \/ (applied > 0 /\ perspective \in {"REPLAY", "HISTORICAL"}))
            BY DEF Apply
          <5> QED
            BY <1>2, <4>1, <5>1, Zenon
        <4>3. /\ ~AfterCutoff(perspective, cutoff, sources[name])
              /\ ~TooOld(policy, now_utc, name, sources[name])
          BY <3>2, <4>2 DEF AfterCutoff, TooOld, FailClosedFreshness
        <4>4. sources'[name] = sources[name]
          BY <2>5, <4>3 DEF Judge
        <4> QED
          BY <1>1, <2>2, <4>4 DEF OneDecision
      <3> QED
        BY <2>2, <3>1, <3>2 DEF OneDecision
    <2> QED
      BY <2>1, <2>3, <2>4, <2>5, AppliedAt
  <1> QED
    BY <1>1, <1>2 DEF Layered

\* Through any chain that applies no cutoff but in its first policy, what the
\* providers reported can be restored (policy.py 106-133, 186-206).
THEOREM LayersStay == Spec => []LayersSurvive
  <1>1. Init => Layered
    BY DEF Init, Layered, OneDecision
  <1>2. TypeOK /\ Layered /\ [Next]_vars => Layered'
    <2>1. TypeOK /\ Layered /\ Next => Layered'
      BY ApplyLayered DEF Next
    <2>2. Layered /\ UNCHANGED vars => Layered'
      BY DEF Layered, OneDecision, vars, Keys
    <2> QED
      BY <2>1, <2>2
  <1>3. Layered => LayersSurvive
    BY DEF Layered, LayersSurvive, Recoverable, OneDecision
  <1> QED
    BY <1>1, <1>2, <1>3, ChainTypeCorrect, PTL DEF Spec

-----------------------------------------------------------------------------
(* Usability, and the order of policies *)

\* No policy of a chain makes a source usable or hides one (policy.py 156-206).
THEOREM OnlyShrinks == Spec => UsabilityOnlyShrinks
  <1> DEFINE Shrinks ==
        \A name \in SourceNames :
          /\ name \in Keys(sources) =>
               /\ sources'[name] # None
               /\ sources'[name].freshness \in Usable =>
                    sources[name].freshness \in Usable
          /\ name \in Keys(sources') \ Keys(sources) =>
               sources'[name].freshness = "MISSING"
  <1>1. ASSUME TypeOK, Next PROVE Shrinks
    <2>1. PICK perspective \in Perspective, cutoff \in Instants, now_utc \in Instants,
               policy \in ChainPolicies :
                 Apply(perspective, cutoff, now_utc, policy)
      BY <1>1 DEF Next
    <2>2. ASSUME NEW name \in SourceNames
          PROVE  /\ name \in Keys(sources) =>
                      /\ sources'[name] # None
                      /\ sources'[name].freshness \in Usable =>
                           sources[name].freshness \in Usable
                 /\ name \in Keys(sources') \ Keys(sources) =>
                      sources'[name].freshness = "MISSING"
      <3>1. CASE sources'[name] = sources[name]
        BY <3>1 DEF Keys
      <3>2. CASE /\ sources[name] # None
                 /\ sources[name] \in SourceStatus
                 /\ sources'[name] = Judge(perspective, cutoff, now_utc, policy, name,
                                           sources[name])
        <4>1. sources'[name] \in SourceStatus
          BY <3>2, JudgeType
        <4>2. sources'[name].freshness \in Usable => sources'[name] = sources[name]
          BY <3>2, JudgeGrounds
        <4> QED
          BY <3>2, <4>1, <4>2, RecordAssumption DEF Keys
      <3>3. CASE /\ sources[name] = None
                 /\ sources'[name]
                      = BareStatus(name, "MISSING", "REQUIRED_SOURCE_MISSING")
        BY <3>3 DEF Keys, BareStatus
      <3> QED
        BY <1>1, <2>1, <3>1, <3>2, <3>3, AppliedAt
    <2> QED
      BY <2>2
  <1>2. TypeOK /\ [Next]_vars => [Shrinks]_vars
    BY <1>1
  <1> QED
    BY <1>2, ChainTypeCorrect, PTL DEF Spec, UsabilityOnlyShrinks

\* Any two policies, at one instant and cutoff, have one outcome in either order
\* (policy.py 156-206).
THEOREM AnyOrder == Spec => []OrderDoesNotMatter
  <1>1. TypeOK => OrderDoesNotMatter
    <2> SUFFICES ASSUME TypeOK, NEW perspective, NEW cutoff, NEW now_utc, NEW p, NEW q
                 PROVE  Twice(perspective, cutoff, now_utc, p, q)
                          = Twice(perspective, cutoff, now_utc, q, p)
      BY DEF OrderDoesNotMatter
    <2> DEFINE After(policy) ==
          ApplySourcePolicy(perspective, cutoff, now_utc, policy, sources)
    <2>1. sources \in SourceMap /\ After(p) \in SourceMap /\ After(q) \in SourceMap
      BY ApplySourcePolicyType DEF TypeOK
    <2>2. ASSUME NEW name \in SourceNames
          PROVE  Twice(perspective, cutoff, now_utc, p, q)[name]
                   = Twice(perspective, cutoff, now_utc, q, p)[name]
      <3> DEFINE missing == BareStatus(name, "MISSING", "REQUIRED_SOURCE_MISSING")
                 J(policy, status) ==
                   Judge(perspective, cutoff, now_utc, policy, name, status)
      <3>1. ASSUME NEW first, NEW second, After(first) \in SourceMap
            PROVE  /\ sources[name] # None =>
                        Twice(perspective, cutoff, now_utc, first, second)[name]
                          = J(second, J(first, sources[name]))
                   /\ sources[name] = None =>
                        Twice(perspective, cutoff, now_utc, first, second)[name]
                          = IF name \in first.required_sources
                               \/ name \in second.required_sources
                              THEN missing ELSE None
        <4>1. CASE sources[name] # None
          <5>1. /\ sources[name] \in SourceStatus
                /\ After(first)[name] = J(first, sources[name])
            BY <2>1, <4>1, ApplySourcePolicyAt
          <5>2. After(first)[name] \in SourceStatus /\ After(first)[name] # None
            BY <5>1, JudgeType, RecordAssumption
          <5>3. Twice(perspective, cutoff, now_utc, first, second)[name]
                  = J(second, After(first)[name])
            BY <3>1, <5>2, ApplySourcePolicyAt DEF Twice
          <5> QED
            BY <4>1, <5>1, <5>3
        <4>2. CASE sources[name] = None /\ name \in first.required_sources
          <5>1. After(first)[name] = missing /\ missing # None
            BY <2>1, <4>2, ApplySourcePolicyAt, MissingIsKept, MissingStatusType
          <5>2. Twice(perspective, cutoff, now_utc, first, second)[name]
                  = J(second, missing)
            BY <3>1, <5>1, ApplySourcePolicyAt DEF Twice
          <5> QED
            BY <4>2, <5>2, MissingIsKept
        <4>3. CASE sources[name] = None /\ name \notin first.required_sources
          <5>1. After(first)[name] = None
            BY <2>1, <4>3, ApplySourcePolicyAt
          <5>2. Twice(perspective, cutoff, now_utc, first, second)[name]
                  = IF name \in second.required_sources THEN J(second, missing) ELSE None
            BY <3>1, <5>1, ApplySourcePolicyAt DEF Twice
          <5> QED
            BY <4>3, <5>2, MissingIsKept
        <4> QED
          BY <4>1, <4>2, <4>3
      <3>2. sources[name] # None =>
              J(q, J(p, sources[name])) = J(p, J(q, sources[name]))
        BY <2>1, JudgeCommutes DEF SourceMap, Optional
      <3> QED
        BY <2>1, <3>1, <3>2
    <2>3. ASSUME NEW first, NEW second
          PROVE  Twice(perspective, cutoff, now_utc, first, second)
                   = [name \in SourceNames |->
                        Twice(perspective, cutoff, now_utc, first, second)[name]]
      BY DEF Twice, ApplySourcePolicy
    <2> QED
      BY <2>2, <2>3
  <1> QED
    BY <1>1, ChainTypeCorrect, PTL

-----------------------------------------------------------------------------
(* Monotonicity *)

\* What stays usable at one cutoff and instant, under one policy, finds no ground
\* for a downgrade under less of each.
LEMMA GroundsAreMonotone ==
  ASSUME NEW perspective, NEW cutoff \in Instants, NEW later \in Instants,
         NEW now_utc \in Instants, NEW earlier \in Instants,
         cutoff <= later, earlier <= now_utc,
         NEW first \in Policy, NEW second \in Policy, Stricter(first, second),
         NEW name \in SourceNames, NEW status \in SourceStatus,
         Judge(perspective, cutoff, now_utc, first, name, status).freshness \in Usable
  PROVE  Judge(perspective, later, earlier, second, name, status) = status
  <1>1. /\ ~AfterCutoff(perspective, cutoff, status)
        /\ ~TooOld(first, now_utc, name, status)
    BY JudgeGrounds
  <1>2. /\ status.timestamp_utc \in Optional(Instants)
        /\ cutoff \in Int /\ later \in Int /\ now_utc \in Int /\ earlier \in Int
    BY MaxTimeAssumption DEF SourceStatus, Instants
  <1>3. ~AfterCutoff(perspective, later, status)
    BY <1>1, <1>2, MaxTimeAssumption DEF AfterCutoff, Instants, Optional
  <1>4. /\ MaxAgeFor(first, name) = LimitOf(first, name)
        /\ MaxAgeFor(second, name) = LimitOf(second, name)
        /\ MaxAgeFor(first, name) \in Optional(Nat \ {0})
        /\ MaxAgeFor(second, name) \in Optional(Nat \ {0})
    BY DEF MaxAgeFor, LimitOf, Policy
  <1>5. ~TooOld(second, earlier, name, status)
    <2> SUFFICES ASSUME TooOld(second, earlier, name, status)
                 PROVE  FALSE
      OBVIOUS
    <2>1. /\ MaxAgeFor(second, name) # None
          /\ status.timestamp_utc # None
          /\ status.freshness \notin FailClosedFreshness
          /\ earlier - status.timestamp_utc > MaxAgeFor(second, name)
      BY DEF TooOld
    <2>2. /\ MaxAgeFor(first, name) # None
          /\ MaxAgeFor(first, name) <= MaxAgeFor(second, name)
      BY <1>4, <2>1 DEF Stricter
    <2>3. ~ now_utc - status.timestamp_utc > MaxAgeFor(first, name)
      BY <1>1, <2>1, <2>2 DEF TooOld
    <2>4. /\ status.timestamp_utc \in Int
          /\ MaxAgeFor(first, name) \in Int
          /\ MaxAgeFor(second, name) \in Int
      BY <1>2, <1>4, <2>1, <2>2, MaxTimeAssumption DEF Optional, Instants
    <2> QED
      BY <1>2, <2>1, <2>2, <2>3, <2>4
  <1> QED
    BY <1>3, <1>5, JudgeGrounds

\* What is usable under one policy stays so under less of a policy, at a later cutoff
\* and at an earlier instant (policy.py 101-103, 167-206).
THEOREM MonotoneAdmission == Spec => []AdmissionIsMonotone
  <1>1. TypeOK => AdmissionIsMonotone
    <2> SUFFICES ASSUME TypeOK, NEW perspective \in Perspective,
                        NEW cutoff \in Instants, NEW later \in Instants,
                        NEW now_utc \in Instants, NEW earlier \in Instants,
                        NEW first \in ChainPolicies, NEW second \in ChainPolicies,
                        cutoff <= later, earlier <= now_utc, Stricter(first, second),
                        NEW name \in UsableAfter(perspective, cutoff, now_utc, first)
                 PROVE  name \in UsableAfter(perspective, later, earlier, second)
      BY DEF AdmissionIsMonotone
    <2> DEFINE before == ApplySourcePolicy(perspective, cutoff, now_utc, first, sources)
               after  == ApplySourcePolicy(perspective, later, earlier, second, sources)
    <2>1. sources \in SourceMap /\ first \in Policy /\ second \in Policy
      BY ChainAssumption DEF TypeOK
    <2>2. /\ name \in SourceNames
          /\ before[name] # None /\ before[name].freshness \in Usable
      BY <2>1, ApplySourcePolicyType DEF UsableAfter, Keys, SourceMap
    <2>3. sources[name] # None
      <3>1. SUFFICES ASSUME sources[name] = None PROVE FALSE
        OBVIOUS
      <3>2. before[name] = BareStatus(name, "MISSING", "REQUIRED_SOURCE_MISSING")
        BY <2>1, <2>2, <3>1, ApplySourcePolicyAt, MissingIsKept
      <3> QED
        BY <2>2, <3>2 DEF BareStatus, Usable
    <2>4. /\ sources[name] \in SourceStatus
          /\ before[name] = Judge(perspective, cutoff, now_utc, first, name, sources[name])
          /\ after[name] = Judge(perspective, later, earlier, second, name, sources[name])
      BY <2>1, <2>2, <2>3, ApplySourcePolicyAt
    <2>5. before[name] = sources[name]
      BY <2>2, <2>4, JudgeGrounds
    <2>6. after[name] = sources[name]
      BY <2>1, <2>2, <2>4, GroundsAreMonotone
    <2>7. after \in SourceMap
      BY <2>1, ApplySourcePolicyType
    <2> QED
      BY <2>2, <2>3, <2>5, <2>6, <2>7 DEF UsableAfter, Keys, SourceMap
  <1> QED
    BY <1>1, ChainTypeCorrect, PTL
=============================================================================
