----------------------- MODULE ResolverWitnessProofs -----------------------
(***************************************************************************)
(* resolve() implements the authority that answers in one step, for any    *)
(* callers, providers and contents: an invariant says what a running call  *)
(* has read and when, and every step of the resolver is then mapped to a   *)
(* step of the authority or to none.                                       *)
(***************************************************************************)
EXTENDS ResolverWitness, ResolverProofs

-----------------------------------------------------------------------------
(* What a running call has read *)

\* A status that was collected is the report of something that was seen.
IsReport(c, i, content) ==
  /\ content \in seen[c][i]
  /\ ~ReportEscapes(content)
  /\ collected[c][Names[i]] = ReportedStatus(Names[i], content)

\* A call that runs began at an instant that has been, answers for one that is
\* not earlier unless it was asked to, has seen what the providers hold now, and
\* collected reports of what it has seen.
IsWitnessed(c) ==
  /\ Running(c) =>
       /\ opened[c] \in Instants
       /\ opened[c] <= clock
       /\ pc[c] = "reporting" /\ request[c].as_of_utc = None =>
            opened[c] <= now_utc[c]
       /\ \A i \in Positions : store[i] \in seen[c][i]
       /\ \A i \in 1 .. asked[c] : \E content \in seen[c][i] : IsReport(c, i, content)
  /\ ~Running(c) => opened[c] = None /\ seen[c] = NotSeen

WitnessInv ==
  /\ opened \in [Callers -> Optional(Instants)]
  /\ seen \in [Callers -> [Positions -> SUBSET Content]]
  /\ \A c \in Callers : IsWitnessed(c)

LEMMA HeldType ==
  ASSUME NEW s \in Stores
  PROVE  s \in [Positions -> Content]
  BY StoresType DEF Stores

\* What the history variables record of one call.
LEMMA RecordAt ==
  ASSUME Record, NEW c \in Callers
  PROVE  /\ Running(c)' /\ Running(c) =>
              /\ opened'[c] = opened[c]
              /\ seen'[c] = [i \in Positions |-> seen[c][i] \cup {store'[i]}]
         /\ Running(c)' /\ ~Running(c) =>
              /\ opened'[c] = clock
              /\ seen'[c] = [i \in Positions |-> {store[i]}]
         /\ ~Running(c)' => opened'[c] = None /\ seen'[c] = NotSeen
  <1> DEFINE openedNow(d) == CASE ~Running(d)' -> None
                               [] Running(d)' /\ Running(d) -> opened[d]
                               [] Running(d)' /\ ~Running(d) -> clock
             seenNow(d, i) == CASE ~Running(d)' -> {}
                                [] Running(d)' /\ Running(d) -> seen[d][i] \cup {store'[i]}
                                [] Running(d)' /\ ~Running(d) -> {store[i]}
  <1>1. /\ opened'[c] = openedNow(c)
        /\ seen'[c] = [i \in Positions |-> seenNow(c, i)]
    BY DEF Record
  <1>2. CASE Running(c)' /\ Running(c)
    BY <1>1, <1>2
  <1>3. CASE Running(c)' /\ ~Running(c)
    BY <1>1, <1>3
  <1>4. CASE ~Running(c)'
    BY <1>1, <1>4 DEF NotSeen
  <1> QED
    BY <1>2, <1>3, <1>4

\* What a step does to one call: nothing, or a move of its own, during which the
\* world stands still.
Unmoved(c) ==
  /\ pc'[c] = pc[c]
  /\ request'[c] = request[c]
  /\ now_utc'[c] = now_utc[c]
  /\ asked'[c] = asked[c]
  /\ collected'[c] = collected[c]

LEMMA MoveOfOne ==
  ASSUME IInv, NEW d \in Callers, Submit(d) \/ Proceed(d)
  PROVE  /\ UNCHANGED world
         /\ \A c \in Callers \ {d} : Unmoved(c)
  <1>1. CASE Submit(d)
    BY <1>1 DEF Submit, Fail, Unmoved, IInv, TypeOK, world
  <1>2. CASE Begin(d)
    BY <1>2 DEF Begin, Fail, Unmoved, IInv, TypeOK, world, arguments
  <1>3. CASE Report(d)
    BY <1>3 DEF Report, Collect, Fail, Unmoved, IInv, TypeOK, world, arguments
  <1>4. CASE Finish(d)
    BY <1>4 DEF Finish, Unmoved, IInv, TypeOK, world, arguments
  <1>5. CASE Return(d)
    BY <1>5 DEF Return, Unmoved, IInv, TypeOK, world
  <1> QED
    BY <1>1, <1>2, <1>3, <1>4, <1>5 DEF Proceed

LEMMA UnmovedWitnessed ==
  ASSUME IInv', Record, NEW c \in Callers, IsWitnessed(c), Unmoved(c),
         clock \in Instants, clock <= clock'
  PROVE  IsWitnessed(c)'
  <1>1. clock' \in Instants /\ (Running(c)' <=> Running(c))
    BY DEF IInv, TypeOK, Unmoved, Running
  <1>2. CASE ~Running(c)
    BY <1>1, <1>2, RecordAt DEF IsWitnessed
  <1>3. CASE Running(c)
    <2>1. /\ opened'[c] = opened[c]
          /\ seen'[c] = [i \in Positions |-> seen[c][i] \cup {store'[i]}]
      BY <1>1, <1>3, RecordAt
    <2>2. opened[c] \in Instants /\ opened[c] <= clock'
      BY <1>1, <1>3, MaxTimeAssumption DEF IsWitnessed, Instants
    <2>3. ASSUME NEW i \in 1 .. asked'[c]
          PROVE  \E content \in seen'[c][i] : IsReport(c, i, content)'
      <3>1. PICK content \in seen[c][i] : IsReport(c, i, content)
        BY <1>3, <2>3 DEF IsWitnessed, Unmoved
      <3>2. i \in Positions
        BY <2>3, NamesType DEF IInv, TypeOK, Positions
      <3> QED
        BY <2>1, <3>1, <3>2 DEF IsReport, Unmoved
    <2> QED
      BY <1>1, <1>3, <2>1, <2>2, <2>3 DEF IsWitnessed, Unmoved
  <1> QED
    BY <1>2, <1>3

LEMMA MovedWitnessed ==
  ASSUME IInv, IInv', Record, NEW c \in Callers, IsWitnessed(c),
         Submit(c) \/ Proceed(c)
  PROVE  IsWitnessed(c)'
  <1>1. /\ UNCHANGED <<clock, store>>
        /\ clock \in Instants
        /\ Len(Names) \in Nat
    BY MoveOfOne, NamesType DEF IInv, TypeOK, world
  <1>2. CASE Submit(c)
    <2>1. ~Running(c) /\ pc'[c] # "reporting" /\ asked'[c] = 0
      BY <1>2 DEF Submit, Fail, Running, IInv, TypeOK, CallsAreCoherent, CallIsCoherent
    <2>2. CASE Running(c)'
      <3>1. opened'[c] = clock /\ seen'[c] = [i \in Positions |-> {store[i]}]
        BY <2>1, <2>2, RecordAt
      <3>2. clock <= clock
        BY <1>1, MaxTimeAssumption DEF Instants
      <3>3. \A i \in 1 .. asked'[c] : FALSE
        BY <2>1
      <3> QED
        BY <1>1, <2>1, <2>2, <3>1, <3>2, <3>3 DEF IsWitnessed
    <2> QED
      BY <2>2, RecordAt DEF IsWitnessed
  <1>3. CASE Begin(c)
    <2>1. /\ Running(c)
          /\ asked'[c] = 0
          /\ request'[c] = request[c]
          /\ request[c].as_of_utc = None => now_utc'[c] = clock
      BY <1>3 DEF Begin, Running, IInv, TypeOK, CallsAreCoherent, CallIsCoherent, arguments
    <2>2. CASE Running(c)'
      <3>1. /\ opened'[c] = opened[c]
            /\ seen'[c] = [i \in Positions |-> seen[c][i] \cup {store[i]}]
        BY <1>1, <2>1, <2>2, RecordAt
      <3>2. opened[c] \in Instants /\ opened[c] <= clock
        BY <2>1 DEF IsWitnessed
      <3>3. \A i \in 1 .. asked'[c] : FALSE
        BY <2>1
      <3> QED
        BY <1>1, <2>1, <2>2, <3>1, <3>2, <3>3 DEF IsWitnessed
    <2> QED
      BY <2>2, RecordAt DEF IsWitnessed
  <1>4. CASE Report(c)
    <2>1. pc[c] = "reporting" /\ Running(c)
      BY <1>4 DEF Report, Running
    <2>2. CASE ~Running(c)'
      BY <2>2, RecordAt DEF IsWitnessed
    <2>3. CASE Running(c)'
      <3> DEFINE i == asked[c] + 1
                 name == Names[i]
      <3>1. /\ collected[c][name] = None
            /\ ~ReportEscapes(store[i])
            /\ Collect(c, name, ReportedStatus(name, store[i]))
            /\ asked' = [asked EXCEPT ![c] = i]
            /\ pc'[c] = "reporting"
            /\ now_utc'[c] = now_utc[c] /\ request'[c] = request[c]
        BY <1>4, <2>1, <2>3 DEF Report, Fail, Running, IInv, TypeOK, arguments
      <3>2. /\ asked[c] \in Nat
            /\ i \in Positions
            /\ name \in SourceNames
            /\ asked'[c] = i
            /\ 1 .. asked'[c] = (1 .. asked[c]) \cup {i}
        BY <1>1, <1>4, <3>1, NamesType DEF Report, IInv, TypeOK, Positions
      <3>3. /\ opened'[c] = opened[c]
            /\ seen'[c] = [j \in Positions |-> seen[c][j] \cup {store[j]}]
        BY <1>1, <2>1, <2>3, RecordAt
      <3>4. collected'[c] = [collected[c] EXCEPT ![name] = ReportedStatus(name, store[i])]
        BY <3>1 DEF Collect, IInv, TypeOK
      <3>5. DOMAIN collected[c] = SourceNames
        BY DEF IInv, TypeOK, SourceMap
      <3>6. ASSUME NEW j \in 1 .. asked[c]
            PROVE  \E content \in seen'[c][j] : IsReport(c, j, content)'
        <4>1. PICK content \in seen[c][j] : IsReport(c, j, content)
          BY <2>1 DEF IsWitnessed
        <4>2. j \in Positions
          BY <3>2 DEF Positions
        <4>3. Names[j] # name
          BY <3>1, <3>6 DEF IInv, CallsAreCoherent, CallIsCoherent, ReadsAreKept, Keys
        <4> QED
          BY <3>3, <3>4, <4>1, <4>2, <4>3 DEF IsReport
      <3>7. ASSUME NEW j \in Positions, j = asked[c] + 1
            PROVE  \E content \in seen'[c][j] : IsReport(c, j, content)'
        <4>1. PICK content \in Content : content = store[j]
          BY HeldType DEF IInv, TypeOK
        <4>2. content \in seen'[c][j]
          BY <3>3, <4>1
        <4>3. ~ReportEscapes(content)
          BY <3>1, <3>7, <4>1
        <4>4. collected'[c][Names[j]] = ReportedStatus(Names[j], content)
          BY <3>2, <3>4, <3>5, <3>7, <4>1
        <4> QED
          BY <4>2, <4>3, <4>4 DEF IsReport
      <3> QED
        <4>1. ASSUME NEW j \in 1 .. asked'[c]
              PROVE  \E content \in seen'[c][j] : IsReport(c, j, content)'
          <5>1. j \in 1 .. asked[c] \/ (j \in Positions /\ j = asked[c] + 1)
            BY <3>2
          <5> QED
            BY <3>6, <3>7, <5>1
        <4>2. /\ opened[c] \in Instants
              /\ opened[c] <= clock
              /\ request[c].as_of_utc = None => opened[c] <= now_utc[c]
          BY <2>1 DEF IsWitnessed
        <4>3. \A j \in Positions : store'[j] \in seen'[c][j]
          BY <1>1, <3>3
        <4> QED
          BY <1>1, <2>3, <3>1, <3>3, <4>1, <4>2, <4>3 DEF IsWitnessed
    <2> QED
      BY <2>2, <2>3
  <1>5. CASE Finish(c) \/ Return(c)
    <2>1. ~Running(c)'
      BY <1>5 DEF Finish, Return, Running, IInv, TypeOK
    <2> QED
      BY <2>1, RecordAt DEF IsWitnessed
  <1> QED
    BY <1>2, <1>3, <1>4, <1>5 DEF Proceed

LEMMA InitWitnessInv == WitnessInit => WitnessInv
  BY DEF WitnessInit, Init, WitnessInv, IsWitnessed, Running, NotSeen, Optional

LEMMA NextWitnessInv ==
  IInv /\ IInv' /\ WitnessInv /\ [WitnessNext]_witnessVars => WitnessInv'
  <1> SUFFICES ASSUME IInv, IInv', WitnessInv, [WitnessNext]_witnessVars
               PROVE  WitnessInv'
    OBVIOUS
  <1>1. CASE UNCHANGED witnessVars
    BY <1>1 DEF witnessVars, vars, WitnessInv, IsWitnessed, IsReport, Running
  <1>2. CASE WitnessNext
    <2>1. clock \in Instants /\ clock' \in Instants /\ store \in [Positions -> Content]
      BY HeldType DEF IInv, TypeOK
    <2>2. \A c \in Callers : IsWitnessed(c)'
      <3>1. CASE Tick \/ \E i \in Positions : WriteFile(i)
        <4>1. /\ clock <= clock'
              /\ \A c \in Callers : Unmoved(c)
          BY <2>1, <3>1, MaxTimeAssumption DEF Tick, WriteFile, Unmoved, Instants
        <4> QED
          BY <1>2, <2>1, <4>1, UnmovedWitnessed DEF WitnessNext, WitnessInv
      <3>2. ASSUME NEW d \in Callers, Submit(d) \/ Proceed(d)
            PROVE  \A c \in Callers : IsWitnessed(c)'
        <4>1. /\ clock <= clock'
              /\ \A c \in Callers \ {d} : Unmoved(c)
          BY <2>1, <3>2, MoveOfOne, MaxTimeAssumption DEF world, Instants
        <4>2. \A c \in Callers \ {d} : IsWitnessed(c)'
          BY <1>2, <2>1, <4>1, UnmovedWitnessed DEF WitnessNext, WitnessInv
        <4>3. IsWitnessed(d)'
          BY <1>2, <3>2, MovedWitnessed DEF WitnessNext, WitnessInv
        <4> QED
          BY <4>2, <4>3
      <3> QED
        BY <1>2, <3>1, <3>2 DEF WitnessNext, Next
    <2>3. \A c \in Callers : opened'[c] \in Optional(Instants)
      BY <1>2, <2>1, RecordAt DEF WitnessNext, WitnessInv, Optional
    <2>4. ASSUME NEW c \in Callers
          PROVE  seen'[c] \in [Positions -> SUBSET Content]
      <3>1. store' \in [Positions -> Content] /\ seen[c] \in [Positions -> SUBSET Content]
        BY HeldType DEF IInv, TypeOK, WitnessInv
      <3>2. CASE Running(c)' /\ Running(c)
        <4>1. seen'[c] = [i \in Positions |-> seen[c][i] \cup {store'[i]}]
          BY <1>2, <3>2, RecordAt DEF WitnessNext
        <4> QED
          BY <3>1, <4>1
      <3>3. CASE Running(c)' /\ ~Running(c)
        <4>1. seen'[c] = [i \in Positions |-> {store[i]}]
          BY <1>2, <3>3, RecordAt DEF WitnessNext
        <4> QED
          BY <2>1, <4>1
      <3>4. CASE ~Running(c)'
        BY <1>2, <3>4, RecordAt DEF WitnessNext, NotSeen
      <3> QED
        BY <3>2, <3>3, <3>4
    <2>5. opened' = [c \in Callers |-> opened'[c]] /\ seen' = [c \in Callers |-> seen'[c]]
      BY <1>2 DEF WitnessNext, Record
    <2> QED
      BY <2>2, <2>3, <2>4, <2>5 DEF WitnessInv
  <1> QED
    BY <1>1, <1>2

LEMMA SpecWitnessInv == WitnessSpec => [](IInv /\ WitnessInv)
  <1>1. WitnessInit => Init
    BY DEF WitnessInit
  <1>2. [WitnessNext]_witnessVars => [Next]_vars
    BY DEF WitnessNext, witnessVars
  <1>3. IInv /\ [WitnessNext]_witnessVars => IInv'
    BY <1>2, NextIInv
  <1> QED
    BY <1>1, <1>3, InitIInv, InitWitnessInv, NextWitnessInv, PTL DEF WitnessSpec

\* ReadsAreOfTheCall holds of every execution: whatever the interleaving of calls,
\* clock and writers, no status comes from before the call, and none is made up.
THEOREM ReadsWitnessed == WitnessSpec => []ReadsAreOfTheCall
  <1>1. IInv /\ WitnessInv => ReadsAreOfTheCall
    <2> SUFFICES ASSUME IInv, WitnessInv, NEW c \in Callers, NEW i \in 1 .. asked[c],
                        Running(c)
                 PROVE  \E content \in seen[c][i] :
                          LET status == collected[c][Names[i]]
                          IN  \/ /\ ReportFails(Names[i], content)
                                 /\ status.freshness = "FAILED"
                                 /\ status.timestamp_utc = None
                              \/ /\ status.freshness = content.freshness
                                 /\ {content.timestamp_utc, content.last_update_utc} \ {None}
                                      = {status.timestamp_utc} \ {None}
                                 /\ status.publication = content.publication
      BY DEF ReadsAreOfTheCall
    <2>1. PICK content \in seen[c][i] : IsReport(c, i, content)
      BY DEF WitnessInv, IsWitnessed
    <2>2. i \in Positions
      BY NamesType DEF IInv, TypeOK, Positions
    <2>3. content \in Content
      BY <2>1, <2>2 DEF WitnessInv
    <2>4. CASE ReportFails(Names[i], content)
      BY <2>1, <2>4 DEF IsReport, ReportedStatus, BareStatus
    <2>5. CASE ~ReportFails(Names[i], content)
      <3>1. Validates(content)
        BY <2>1, <2>3, <2>5 DEF IsReport, ReportFails, ReportEscapes, Content, Optional
      <3>2. {content.timestamp_utc, content.last_update_utc} \ {None}
              = {AuthorityTimestamp(content)} \ {None}
        BY <3>1 DEF Validates, AuthorityTimestamp
      <3> QED
        BY <2>1, <2>5, <3>2 DEF IsReport, ReportedStatus
    <2> QED
      BY <2>1, <2>4, <2>5
  <1> QED
    BY <1>1, SpecWitnessInv, PTL

-----------------------------------------------------------------------------
(* The authority evaluates with the operators of the resolver *)

\* The rules of the constructor of a request.
LEMMA SameAcceptsRequest ==
  ASSUME NEW r
  PROVE  Authority!AcceptsRequest(r) <=> AcceptsRequest(r)
  BY DEF Authority!AcceptsRequest, AcceptsRequest, Authority!FieldsAccepted,
         FieldsAccepted, Authority!Instants, Instants, Authority!Optional,
         Optional, Authority!Perspective, Perspective, Authority!CrossFieldRules,
         CrossFieldRules

\* What is recorded of what a provider holds.
LEMMA SameReportedStatus ==
  ASSUME NEW n, NEW x
  PROVE  Authority!ReportedStatus(n, x) = ReportedStatus(n, x)
  BY DEF Authority!ReportedStatus, ReportedStatus, Authority!ReportFails,
         ReportFails, Authority!Validates, Validates, Authority!Instants,
         Instants, Authority!SourceFreshness, SourceFreshness,
         Authority!Optional, Optional, Authority!ReadFaults, ReadFaults,
         Authority!AuthorityTimestamp, AuthorityTimestamp, Authority!BareStatus,
         BareStatus

\* The checks of the calendar.
LEMMA SameCalendarFailure ==
  ASSUME NEW r
  PROVE  Authority!CalendarFailure(r) = CalendarFailure(r)
  BY DEF Authority!CalendarFailure, CalendarFailure

LEMMA SameOutOfRange ==
  ASSUME NEW r, NEW t
  PROVE  Authority!OutOfRange(r, t) <=> OutOfRange(r, t)
  BY DEF Authority!OutOfRange, OutOfRange, Authority!BusinessDateAt,
         BusinessDateAt, Authority!PhaseAt, PhaseAt

\* The judgement of the policy on one source.
LEMMA SameJudge ==
  ASSUME NEW e, NEW k, NEW t, NEW p, NEW n, NEW s
  PROVE  Authority!Judge(e, k, t, p, n, s) = Judge(e, k, t, p, n, s)
  BY DEF Authority!Judge, Judge, Authority!TooOld, TooOld, Authority!MaxAgeFor,
         MaxAgeFor, Authority!FailClosedFreshness, FailClosedFreshness,
         Authority!AfterCutoff, AfterCutoff, Authority!WithSourcePolicyStatus,
         WithSourcePolicyStatus

LEMMA SameWithRequired ==
  ASSUME NEW p, NEW m
  PROVE  Authority!WithRequired(p, m) = WithRequired(p, m)
  BY DEF Authority!WithRequired, WithRequired, Authority!BareStatus, BareStatus

LEMMA SameApplySourcePolicy ==
  ASSUME NEW e, NEW k, NEW t, NEW p, NEW m
  PROVE  Authority!ApplySourcePolicy(e, k, t, p, m) = ApplySourcePolicy(e, k, t, p, m)
  BY SameJudge, SameWithRequired
  DEF Authority!ApplySourcePolicy, ApplySourcePolicy

LEMMA SameApplyRaises ==
  ASSUME NEW e, NEW k, NEW t, NEW p, NEW m
  PROVE  Authority!ApplyRaises(e, k, t, p, m) <=> ApplyRaises(e, k, t, p, m)
  BY DEF Authority!ApplyRaises, ApplyRaises, Authority!TooOld, TooOld,
         Authority!MaxAgeFor, MaxAgeFor, Authority!FailClosedFreshness,
         FailClosedFreshness, Authority!AfterCutoff, AfterCutoff, Authority!Keys,
         Keys

\* The publication gate.
LEMMA SameParseFailure ==
  ASSUME NEW u
  PROVE  Authority!ParseFailure(u) = ParseFailure(u)
  BY DEF Authority!ParseFailure, ParseFailure, Authority!FieldFailures,
         FieldFailures, Authority!FieldFailure, FieldFailure, Authority!Instants,
         Instants, Authority!CanonicalState, CanonicalState,
         Authority!PublicationState, PublicationState

LEMMA SameAssertionFailure ==
  ASSUME NEW e, NEW k, NEW u
  PROVE  Authority!AssertionFailure(e, k, u) = AssertionFailure(e, k, u)
  BY SameParseFailure
  DEF Authority!AssertionFailure, AssertionFailure

LEMMA SameEvaluatePublicationReadiness ==
  ASSUME NEW e, NEW k, NEW m
  PROVE  Authority!EvaluatePublicationReadiness(e, k, m) = EvaluatePublicationReadiness(e, k, m)
  BY SameAssertionFailure, SameParseFailure
  DEF Authority!EvaluatePublicationReadiness, EvaluatePublicationReadiness,
      Authority!Assertions, Assertions, Authority!Keys, Keys

\* The composition of an answer, and its validation.
LEMMA SameAcceptsAsOf ==
  ASSUME NEW a
  PROVE  Authority!AcceptsAsOf(a) <=> AcceptsAsOf(a)
  BY DEF Authority!AcceptsAsOf, AcceptsAsOf, Authority!Projection, Projection

LEMMA SameValidated ==
  ASSUME NEW a
  PROVE  Authority!Validated(a) = Validated(a)
  BY DEF Authority!Validated, Validated, Authority!Projection, Projection

LEMMA SameComposeAsOf ==
  ASSUME NEW r, NEW t, NEW m
  PROVE  Authority!ComposeAsOf(r, t, m) = ComposeAsOf(r, t, m)
  BY DEF Authority!ComposeAsOf, ComposeAsOf, Authority!CutoffOf, CutoffOf,
         Authority!BusinessDateAt, BusinessDateAt, Authority!Reasons, Reasons,
         Authority!ResolveExecutionState, ResolveExecutionState,
         Authority!ResolvePriceBasis, ResolvePriceBasis, Authority!PhaseAt,
         PhaseAt

\* The conclusion as a whole.
LEMMA SameConclude ==
  ASSUME NEW r, NEW p, NEW t, NEW s
  PROVE  Authority!Conclude(r, p, t, s) = Conclude(r, p, t, s)
  BY SameApplySourcePolicy, SameApplyRaises, SameEvaluatePublicationReadiness,
     SameAcceptsAsOf, SameValidated, SameComposeAsOf
  DEF Authority!Conclude, Conclude, Authority!CutoffOf, CutoffOf,
      Authority!AdmittedSources, AdmittedSources, Authority!Unready, Unready,
      Authority!Escaped, Escaped, Authority!Raise, Raise

-----------------------------------------------------------------------------
(* What the authority may conclude *)

\* A calendar that does not fit, and an instant without a local time, decide alone.
LEMMA EvaluateChecks ==
  ASSUME NEW r, NEW p, NEW at, NEW held
  PROVE  /\ CalendarFailure(r) # None =>
              Authority!Evaluate(r, p, at, held) = Raise(CalendarFailure(r))
         /\ CalendarFailure(r) = None /\ OutOfRange(r, at) =>
              Authority!Evaluate(r, p, at, held) = Raise(Escaped)
  BY SameCalendarFailure, SameOutOfRange
  DEF Authority!Evaluate, Authority!Raise, Raise, Authority!Escaped, Escaped

LEMMA BreaksAt ==
  ASSUME NEW held, NEW i
  PROVE  Authority!Breaks(held, i) <=>
           \/ \E j \in 1 .. i - 1 : Names[j] = Names[i]
           \/ ReportEscapes(held[i])
  BY DEF Authority!Breaks, Authority!ReportEscapes, ReportEscapes,
         Authority!Undecodable, Undecodable

\* The first position where asking breaks off names the exception.
LEMMA EvaluateBreaks ==
  ASSUME NEW r, NEW p, NEW at, NEW held, NEW k \in Positions,
         CalendarFailure(r) = None, ~OutOfRange(r, at),
         Authority!Breaks(held, k),
         \A j \in 1 .. k - 1 : ~Authority!Breaks(held, j)
  PROVE  Authority!Evaluate(r, p, at, held) =
           Raise(IF \E j \in 1 .. k - 1 : Names[j] = Names[k]
                   THEN "DUPLICATE_PROVIDER_NAME" ELSE Escaped)
  <1> DEFINE breaks == {i \in Positions : Authority!Breaks(held, i)}
             first  == CHOOSE i \in breaks : \A j \in breaks : i <= j
  <1>1. k \in breaks /\ \A j \in breaks : k <= j
    BY NamesType DEF Positions
  <1>2. \A i \in breaks : (\A j \in breaks : i <= j) => i = k
    BY <1>1, NamesType DEF Positions
  <1>3. first = k
    BY <1>1, <1>2
  <1>4. breaks # {}
    BY <1>1
  <1> HIDE DEF breaks, first
  <1>5. Authority!Evaluate(r, p, at, held) =
          Raise(IF \E j \in 1 .. first - 1 : Names[j] = Names[first]
                  THEN "DUPLICATE_PROVIDER_NAME" ELSE Escaped)
    BY <1>4, SameCalendarFailure, SameOutOfRange
    DEF Authority!Evaluate, Authority!Raise, Raise, Authority!Escaped, Escaped,
        Authority!Positions, Positions, breaks, first
  <1> QED
    BY <1>3, <1>5

\* Without a break, the reports of what was held are what the gates see.
LEMMA EvaluateReports ==
  ASSUME NEW r, NEW p, NEW at, NEW held, NEW sources \in SourceMap,
         CalendarFailure(r) = None, ~OutOfRange(r, at),
         Keys(sources) = {Names[i] : i \in Positions},
         \A i, j \in Positions : Names[i] = Names[j] => i = j,
         \A i \in Positions : /\ ~ReportEscapes(held[i])
                              /\ sources[Names[i]] = ReportedStatus(Names[i], held[i])
  PROVE  Authority!Evaluate(r, p, at, held) = Conclude(r, p, at, sources)
  <1> DEFINE reported ==
        [name \in SourceNames |->
           IF \E i \in Positions : Names[i] = name
             THEN LET i == CHOOSE i \in Positions : Names[i] = name
                  IN  Authority!ReportedStatus(name, held[i])
             ELSE None]
  <1>1. \A i \in Positions : ~Authority!Breaks(held, i)
    BY BreaksAt, NamesType DEF Positions
  <1>2. reported = sources
    <2>1. ASSUME NEW name \in SourceNames
          PROVE  reported[name] = sources[name]
      <3>1. CASE \E i \in Positions : Names[i] = name
        <4>1. PICK i \in Positions : Names[i] = name
          BY <3>1
        <4>2. (CHOOSE j \in Positions : Names[j] = name) = i
          BY <4>1
        <4> QED
          BY <3>1, <4>1, <4>2, SameReportedStatus
      <3>2. CASE ~ \E i \in Positions : Names[i] = name
        BY <3>2 DEF Keys
      <3> QED
        BY <3>1, <3>2
    <2> QED
      BY <2>1 DEF SourceMap
  <1> HIDE DEF reported
  <1>3. Authority!Evaluate(r, p, at, held) = Authority!Conclude(r, p, at, reported)
    BY <1>1, SameCalendarFailure, SameOutOfRange
    DEF Authority!Evaluate, Authority!Positions, Positions, reported
  <1> QED
    BY <1>2, <1>3, SameConclude

\* Something that was seen of every provider explains what has been collected,
\* and of those still to be asked it is what they hold now.
LEMMA HeldByAll ==
  ASSUME IInv, WitnessInv, NEW c \in Callers, Running(c)
  PROVE  \E held \in Authority!Held(c) : \A i \in Positions :
           IF i <= asked[c] THEN IsReport(c, i, held[i]) ELSE held[i] = store[i]
  <1> DEFINE held == [i \in Positions |->
                        IF i <= asked[c]
                          THEN CHOOSE content \in seen[c][i] : IsReport(c, i, content)
                          ELSE store[i]]
  <1>1. ASSUME NEW i \in Positions
        PROVE  /\ held[i] \in seen[c][i]
               /\ IF i <= asked[c] THEN IsReport(c, i, held[i]) ELSE held[i] = store[i]
    <2>1. CASE i <= asked[c]
      <3>1. i \in 1 .. asked[c]
        BY <2>1, NamesType DEF IInv, TypeOK, Positions
      <3>2. \E content \in seen[c][i] : IsReport(c, i, content)
        BY <3>1 DEF WitnessInv, IsWitnessed
      <3> QED
        BY <2>1, <3>2
    <2>2. CASE ~(i <= asked[c])
      BY <2>2 DEF WitnessInv, IsWitnessed
    <2> QED
      BY <2>1, <2>2
  <1>2. held \in Authority!Held(c)
    <2>1. held \in [Positions -> UNION {seen[c][i] : i \in Positions}]
      BY <1>1
    <2> QED
      BY <1>1, <2>1 DEF Authority!Held, Authority!Positions, Positions
  <1> QED
    BY <1>1, <1>2

-----------------------------------------------------------------------------
(* Every step of the resolver is a step of the authority, or none *)

\* What a move of one call does to the history, and to the phases.
LEMMA RecordOfOne ==
  ASSUME IInv, WitnessInv, Record, NEW d \in Callers, Submit(d) \/ Proceed(d)
  PROVE  /\ opened' = [opened EXCEPT ![d] = opened'[d]]
         /\ seen' = [seen EXCEPT ![d] = seen'[d]]
         /\ [c \in Callers |-> Phase(c)'] =
              [[c \in Callers |-> Phase(c)] EXCEPT ![d] = Phase(d)']
  <1>1. ASSUME NEW c \in Callers \ {d}
        PROVE  opened'[c] = opened[c] /\ seen'[c] = seen[c] /\ Phase(c)' = Phase(c)
    <2>1. /\ pc'[c] = pc[c]
          /\ store' = store
      BY MoveOfOne DEF Unmoved, world
    <2>2. CASE Running(c)
      <3>1. /\ opened'[c] = opened[c]
            /\ seen'[c] = [i \in Positions |-> seen[c][i] \cup {store[i]}]
        BY <2>1, <2>2, RecordAt DEF Running
      <3>2. \A i \in Positions : store[i] \in seen[c][i]
        BY <2>2 DEF WitnessInv, IsWitnessed
      <3>3. seen[c] \in [Positions -> SUBSET Content]
        BY DEF WitnessInv
      <3>4. [i \in Positions |-> seen[c][i] \cup {store[i]}] = seen[c]
        BY <3>2, <3>3
      <3> QED
        BY <2>1, <3>1, <3>4 DEF Phase, Running
    <2>3. CASE ~Running(c)
      BY <2>1, <2>3, RecordAt DEF Running, Phase, WitnessInv, IsWitnessed
    <2> QED
      BY <2>2, <2>3
  <1>2. /\ opened' = [c \in Callers |-> opened'[c]]
        /\ seen' = [c \in Callers |-> seen'[c]]
    BY DEF Record
  <1>3. /\ opened = [c \in Callers |-> opened[c]]
        /\ seen = [c \in Callers |-> seen[c]]
    BY DEF WitnessInv
  <1> QED
    BY <1>1, <1>2, <1>3

LEMMA TickMaps ==
  ASSUME IInv, IInv', WitnessInv, Record, Tick
  PROVE  Authority!Tick
  <1>1. clock' \in Instants /\ clock' > clock
    BY MaxTimeAssumption DEF IInv, TypeOK, Tick, Instants
  <1>2. ASSUME NEW c \in Callers
        PROVE  opened'[c] = opened[c] /\ seen'[c] = seen[c]
    <2>1. pc' = pc /\ store' = store
      BY DEF Tick
    <2>2. CASE Running(c)
      <3>1. /\ opened'[c] = opened[c]
            /\ seen'[c] = [i \in Positions |-> seen[c][i] \cup {store[i]}]
        BY <2>1, <2>2, RecordAt DEF Running
      <3> QED
        BY <2>2, <3>1 DEF WitnessInv, IsWitnessed
    <2>3. CASE ~Running(c)
      BY <2>1, <2>3, RecordAt DEF Running, WitnessInv, IsWitnessed
    <2> QED
      BY <2>2, <2>3
  <1>3. opened' = opened /\ seen' = seen
    BY <1>2 DEF Record, WitnessInv
  <1>4. [c \in Callers |-> Phase(c)'] = [c \in Callers |-> Phase(c)]
    BY DEF Tick, Phase, Running
  <1> QED
    BY <1>1, <1>3, <1>4 DEF Tick, Authority!Tick, Authority!Instants, Instants

LEMMA WriteMaps ==
  ASSUME IInv, WitnessInv, Record, NEW k \in Positions, WriteFile(k)
  PROVE  Authority!Write(k)
  <1>1. PICK content \in Contents[k] : store' = [store EXCEPT ![k] = content]
    BY DEF WriteFile
  <1>2. store \in [Positions -> Content] /\ pc' = pc
    BY HeldType DEF IInv, TypeOK, WriteFile
  <1>3. ASSUME NEW c \in Callers
        PROVE  /\ opened'[c] = opened[c]
               /\ seen'[c] = IF Phase(c) = "open"
                               THEN [seen[c] EXCEPT ![k] = @ \cup {content}]
                               ELSE seen[c]
    <2>1. CASE Running(c)
      <3>1. /\ opened'[c] = opened[c]
            /\ seen'[c] = [i \in Positions |-> seen[c][i] \cup {store'[i]}]
        BY <1>2, <2>1, RecordAt DEF Running
      <3>2. /\ seen[c] \in [Positions -> SUBSET Content]
            /\ \A i \in Positions : store[i] \in seen[c][i]
        BY <2>1 DEF WitnessInv, IsWitnessed
      <3>3. ASSUME NEW i \in Positions
            PROVE  seen[c][i] \cup {store'[i]} =
                     [seen[c] EXCEPT ![k] = @ \cup {content}][i]
        <4>1. CASE i = k
          BY <1>1, <1>2, <3>2, <4>1
        <4>2. CASE i # k
          <5>1. store'[i] = store[i]
            BY <1>1, <1>2, <4>2
          <5> QED
            BY <3>2, <4>2, <5>1
        <4> QED
          BY <4>1, <4>2
      <3>4. seen'[c] = [seen[c] EXCEPT ![k] = @ \cup {content}]
        BY <3>1, <3>2, <3>3
      <3> QED
        BY <2>1, <3>1, <3>4 DEF Phase
    <2>2. CASE ~Running(c)
      <3>1. ~Running(c)' /\ Phase(c) # "open"
        BY <1>2, <2>2 DEF Running, Phase, IInv, TypeOK
      <3>2. opened'[c] = opened[c] /\ seen'[c] = seen[c]
        BY <2>2, <3>1, RecordAt DEF WitnessInv, IsWitnessed
      <3> QED
        BY <3>1, <3>2
    <2> QED
      BY <2>1, <2>2
  <1>4. /\ opened' = opened
        /\ seen' = [c \in Callers |-> seen'[c]]
    BY <1>3 DEF Record, WitnessInv
  <1>5. [c \in Callers |-> Phase(c)'] = [c \in Callers |-> Phase(c)]
    BY DEF WriteFile, Phase, Running
  <1>6. seen' = [c \in Callers |->
                   IF [d \in Callers |-> Phase(d)][c] = "open"
                     THEN [seen[c] EXCEPT ![k] = @ \cup {content}]
                     ELSE seen[c]]
    BY <1>3, <1>4
  <1> QED
    BY <1>1, <1>4, <1>5, <1>6 DEF WriteFile, Authority!Write

LEMMA OpenMaps ==
  ASSUME IInv, WitnessInv, Record, NEW c \in Callers, Submit(c)
  PROVE  Authority!Open(c)
  <1>1. PICK r \in Requests, p \in Policies :
          /\ request' = [request EXCEPT ![c] = r]
          /\ policy' = [policy EXCEPT ![c] = p]
          /\ \/ /\ AcceptsRequest(r)
                /\ pc' = [pc EXCEPT ![c] = "accepted"]
                /\ UNCHANGED raised
             \/ ~AcceptsRequest(r) /\ Fail(c, Refused)
    BY DEF Submit
  <1>2. /\ opened' = [opened EXCEPT ![c] = opened'[c]]
        /\ seen' = [seen EXCEPT ![c] = seen'[c]]
        /\ [d \in Callers |-> Phase(d)'] =
             [[d \in Callers |-> Phase(d)] EXCEPT ![c] = Phase(c)']
    BY RecordOfOne
  <1>3. /\ pc[c] = "idle" /\ ~Running(c)
        /\ [d \in Callers |-> Phase(d)][c] = "idle"
        /\ UNCHANGED <<clock, store, answer>>
    BY DEF Submit, Running, Phase, world
  <1>4. CASE AcceptsRequest(r)
    <2>1. pc'[c] = "accepted" /\ UNCHANGED raised
      BY <1>1, <1>4 DEF IInv, TypeOK
    <2>2. Running(c)' /\ Phase(c)' = "open"
      BY <2>1 DEF Running, Phase
    <2>3. opened'[c] = clock /\ seen'[c] = [i \in Positions |-> {store[i]}]
      BY <1>3, <2>2, RecordAt
    <2> QED
      BY <1>1, <1>2, <1>3, <1>4, <2>1, <2>2, <2>3, SameAcceptsRequest
      DEF Authority!Open, Authority!Positions, Positions
  <1>5. CASE ~AcceptsRequest(r)
    <2>1. pc'[c] = "done" /\ raised' = [raised EXCEPT ![c] = Refused]
      BY <1>1, <1>5 DEF IInv, TypeOK, Fail
    <2>2. ~Running(c)' /\ Phase(c)' = "done"
      BY <2>1 DEF Running, Phase
    <2>3. opened'[c] = opened[c] /\ seen'[c] = seen[c]
      BY <1>3, <2>2, RecordAt DEF WitnessInv, IsWitnessed
    <2>4. opened' = opened /\ seen' = seen
      BY <1>2, <2>3 DEF WitnessInv
    <2> QED
      BY <1>1, <1>2, <1>3, <1>5, <2>1, <2>2, <2>4, SameAcceptsRequest
      DEF Authority!Open, Authority!Refused, Refused
  <1> QED
    BY <1>4, <1>5

LEMMA CloseMaps ==
  ASSUME IInv, WitnessInv, Record, NEW c \in Callers, Return(c)
  PROVE  Authority!Close(c)
  <1>1. /\ opened' = [opened EXCEPT ![c] = opened'[c]]
        /\ seen' = [seen EXCEPT ![c] = seen'[c]]
        /\ [d \in Callers |-> Phase(d)'] =
             [[d \in Callers |-> Phase(d)] EXCEPT ![c] = Phase(c)']
    BY RecordOfOne DEF Proceed
  <1>2. /\ pc[c] = "done" /\ pc'[c] = "idle"
    BY DEF Return, IInv, TypeOK
  <1>3. /\ ~Running(c) /\ ~Running(c)'
        /\ [d \in Callers |-> Phase(d)][c] = "done"
        /\ Phase(c)' = "idle"
    BY <1>2 DEF Running, Phase
  <1>4. opened'[c] = opened[c] /\ seen'[c] = seen[c]
    BY <1>3, RecordAt DEF WitnessInv, IsWitnessed
  <1>5. opened' = opened /\ seen' = seen
    BY <1>1, <1>4 DEF WitnessInv
  <1> QED
    BY <1>1, <1>3, <1>5 DEF Return, Authority!Close, world

\* Steps of a call that only its local variables show.
LEMMA QuietMaps ==
  ASSUME IInv, WitnessInv, Record, NEW c \in Callers, Proceed(c),
         Running(c), Running(c)'
  PROVE  UNCHANGED Authority!vars
  <1>1. /\ opened' = [opened EXCEPT ![c] = opened'[c]]
        /\ seen' = [seen EXCEPT ![c] = seen'[c]]
        /\ [d \in Callers |-> Phase(d)'] =
             [[d \in Callers |-> Phase(d)] EXCEPT ![c] = Phase(c)']
    BY RecordOfOne
  <1>2. Phase(c)' = Phase(c)
    BY DEF Phase
  <1>3. /\ Begin(c) \/ Report(c)
        /\ UNCHANGED <<clock, store>>
    BY MoveOfOne DEF Proceed, Finish, Return, Running, IInv, TypeOK, world
  <1>4. UNCHANGED <<clock, store, request, policy, answer, raised>>
    BY <1>3 DEF Begin, Report, Fail, Running, IInv, TypeOK, arguments
  <1>5. /\ opened'[c] = opened[c]
        /\ seen'[c] = [i \in Positions |-> seen[c][i] \cup {store[i]}]
    BY <1>3, RecordAt
  <1>6. seen'[c] = seen[c]
    BY <1>5 DEF WitnessInv, IsWitnessed
  <1>7. opened' = opened /\ seen' = seen
    BY <1>1, <1>5, <1>6 DEF WitnessInv
  <1>8. [d \in Callers |-> Phase(d)'] = [d \in Callers |-> Phase(d)]
    BY <1>1, <1>2
  <1> QED
    BY <1>4, <1>7, <1>8 DEF Authority!vars

\* A step that ends a call maps to the answer of the authority, if that could have
\* been its conclusion.
LEMMA RespondMaps ==
  ASSUME IInv, WitnessInv, Record, NEW c \in Callers, Proceed(c),
         Running(c), pc'[c] = "done",
         NEW at \in Authority!Admissible(c), NEW held \in Authority!Held(c),
         NEW conclusion,
         Authority!Evaluate(request[c], policy[c], at, held) = conclusion,
         answer' = [answer EXCEPT ![c] = conclusion.answer],
         raised' = [raised EXCEPT ![c] = conclusion.raised]
  PROVE  Authority!Respond(c)
  <1>1. /\ opened' = [opened EXCEPT ![c] = opened'[c]]
        /\ seen' = [seen EXCEPT ![c] = seen'[c]]
        /\ [d \in Callers |-> Phase(d)'] =
             [[d \in Callers |-> Phase(d)] EXCEPT ![c] = Phase(c)']
    BY RecordOfOne
  <1>2. /\ [d \in Callers |-> Phase(d)][c] = "open"
        /\ ~Running(c)'
        /\ Phase(c)' = "done"
    BY DEF Phase, Running
  <1>3. opened'[c] = None /\ seen'[c] = NotSeen
    BY <1>2, RecordAt
  <1>4. UNCHANGED <<clock, store, request, policy>>
    <2>1. ~Return(c)
      BY DEF Return, Running
    <2> QED
      BY <2>1 DEF Proceed, Begin, Report, Finish, world, arguments
  <1> QED
    BY <1>1, <1>2, <1>3, <1>4
    DEF Authority!Respond, Authority!NotSeen, NotSeen, Authority!Positions, Positions

\* The instants at which the authority may answer a call.
LEMMA AdmissibleAt ==
  ASSUME IInv, WitnessInv, NEW c \in Callers, Running(c)
  PROVE  /\ request[c].as_of_utc # None => request[c].as_of_utc \in Authority!Admissible(c)
         /\ request[c].as_of_utc = None => clock \in Authority!Admissible(c)
         /\ pc[c] = "reporting" => now_utc[c] \in Authority!Admissible(c)
  <1>1. opened[c] \in Nat /\ clock \in Nat /\ opened[c] <= clock
    BY MaxTimeAssumption DEF WitnessInv, IsWitnessed, IInv, TypeOK, Instants
  <1>2. pc[c] = "reporting" =>
          /\ now_utc[c] \in Nat
          /\ IF request[c].as_of_utc # None
               THEN now_utc[c] = request[c].as_of_utc
               ELSE opened[c] <= now_utc[c] /\ now_utc[c] <= clock
    BY MaxTimeAssumption
    DEF WitnessInv, IsWitnessed, IInv, CallsAreCoherent, CallIsCoherent, Underway, Instants
  <1> QED
    BY <1>1, <1>2 DEF Authority!Admissible

\* The first steps of a call that failed there.
LEMMA BeginMaps ==
  ASSUME IInv, WitnessInv, Record, NEW c \in Callers, Begin(c), ~Running(c)'
  PROVE  Authority!Respond(c)
  <1>1. pc[c] = "accepted" /\ Running(c) /\ answer[c] = None /\ pc'[c] = "done"
    BY DEF Begin, Fail, Running, IInv, TypeOK, CallsAreCoherent, CallIsCoherent
  <1>2. PICK at \in Authority!Admissible(c) :
          at = IF request[c].as_of_utc # None THEN request[c].as_of_utc ELSE clock
    BY <1>1, AdmissibleAt
  <1>3. PICK held \in Authority!Held(c) : TRUE
    BY <1>1, HeldByAll
  <1>4. \/ /\ CalendarFailure(request[c]) # None
           /\ raised' = [raised EXCEPT ![c] = CalendarFailure(request[c])]
        \/ /\ CalendarFailure(request[c]) = None
           /\ OutOfRange(request[c], at)
           /\ raised' = [raised EXCEPT ![c] = Escaped]
    BY <1>1, <1>2 DEF Begin, Fail, IInv, TypeOK
  <1>5. PICK conclusion :
          conclusion = Authority!Evaluate(request[c], policy[c], at, held)
    OBVIOUS
  <1>6. /\ conclusion.answer = None
        /\ raised' = [raised EXCEPT ![c] = conclusion.raised]
    BY <1>4, <1>5, EvaluateChecks DEF Raise
  <1>7. answer' = [answer EXCEPT ![c] = conclusion.answer]
    BY <1>1, <1>6 DEF Begin, IInv, TypeOK
  <1> QED
    BY <1>1, <1>5, <1>6, <1>7, RespondMaps DEF Proceed

\* A provider that ends the call.
LEMMA ReportMaps ==
  ASSUME IInv, WitnessInv, Record, NEW c \in Callers, Report(c), ~Running(c)'
  PROVE  Authority!Respond(c)
  <1>1. /\ pc[c] = "reporting" /\ Running(c) /\ answer[c] = None
        /\ answer' = answer
        /\ Underway(c) /\ ReadsAreKept(c)
        /\ asked[c] \in Nat /\ asked[c] < Len(Names) /\ Len(Names) \in Nat
        /\ collected[c] \in SourceMap
    BY NamesType
    DEF Report, Running, IInv, TypeOK, CallsAreCoherent, CallIsCoherent
  <1>2. now_utc[c] \in Authority!Admissible(c)
    BY <1>1, AdmissibleAt
  <1>3. PICK held \in Authority!Held(c) : \A i \in Positions :
          IF i <= asked[c] THEN IsReport(c, i, held[i]) ELSE held[i] = store[i]
    BY <1>1, HeldByAll
  <1>4. PICK k \in Positions : k = asked[c] + 1
    BY <1>1 DEF Positions
  <1>5. /\ pc'[c] = "done"
        /\ \/ /\ collected[c][Names[k]] # None
              /\ raised' = [raised EXCEPT ![c] = "DUPLICATE_PROVIDER_NAME"]
           \/ /\ collected[c][Names[k]] = None
              /\ ReportEscapes(store[k])
              /\ raised' = [raised EXCEPT ![c] = Escaped]
    BY <1>1, <1>4 DEF Report, Fail, Running, IInv, TypeOK
  <1>6. (collected[c][Names[k]] # None) <=> \E j \in 1 .. k - 1 : Names[j] = Names[k]
    <2>1. Names[k] \in SourceNames /\ 1 .. k - 1 = 1 .. asked[c]
      BY <1>1, <1>4, NamesType DEF Positions
    <2>2. collected[c][Names[k]] # None <=> Names[k] \in Keys(collected[c])
      BY <2>1 DEF Keys
    <2>3. Keys(collected[c]) = {Names[j] : j \in 1 .. k - 1}
      BY <1>1, <2>1 DEF ReadsAreKept
    <2>4. Names[k] \in {Names[j] : j \in 1 .. k - 1}
            <=> \E j \in 1 .. k - 1 : Names[j] = Names[k]
      OBVIOUS
    <2> QED
      BY <2>2, <2>3, <2>4
  <1>7. ASSUME NEW j \in 1 .. k - 1
        PROVE  ~Authority!Breaks(held, j)
    <2>1. j \in 1 .. asked[c] /\ j \in Positions /\ j <= asked[c]
      BY <1>1, <1>4 DEF Positions
    <2>2. ~ReportEscapes(held[j])
      BY <1>3, <2>1 DEF IsReport
    <2>3. \A i \in 1 .. j - 1 : i \in 1 .. asked[c] /\ i # j
      BY <1>1, <2>1
    <2> QED
      BY <1>1, <2>1, <2>2, <2>3, BreaksAt DEF ReadsAreKept
  <1>8. held[k] = store[k]
    BY <1>1, <1>3, <1>4
  <1>9. Authority!Breaks(held, k)
    BY <1>5, <1>6, <1>8, BreaksAt
  <1>10. PICK conclusion :
           conclusion = Authority!Evaluate(request[c], policy[c], now_utc[c], held)
    OBVIOUS
  <1>11. conclusion = Raise(IF \E j \in 1 .. k - 1 : Names[j] = Names[k]
                              THEN "DUPLICATE_PROVIDER_NAME" ELSE Escaped)
    BY <1>1, <1>7, <1>9, <1>10, EvaluateBreaks DEF Underway
  <1>12. /\ conclusion.answer = None
         /\ raised' = [raised EXCEPT ![c] = conclusion.raised]
    BY <1>5, <1>6, <1>11 DEF Raise
  <1>13. answer' = [answer EXCEPT ![c] = conclusion.answer]
    BY <1>1, <1>12 DEF IInv, TypeOK
  <1> QED
    BY <1>1, <1>2, <1>5, <1>10, <1>12, <1>13, RespondMaps DEF Proceed

\* The end of a call that asked every provider.
LEMMA FinishMaps ==
  ASSUME IInv, WitnessInv, Record, NEW c \in Callers, Finish(c)
  PROVE  Authority!Respond(c)
  <1>1. /\ pc[c] = "reporting" /\ Running(c) /\ pc'[c] = "done"
        /\ Underway(c) /\ ReadsAreKept(c)
        /\ asked[c] = Len(Names) /\ Len(Names) \in Nat
        /\ collected[c] \in SourceMap
    BY NamesType
    DEF Finish, Running, IInv, TypeOK, CallsAreCoherent, CallIsCoherent
  <1>2. now_utc[c] \in Authority!Admissible(c)
    BY <1>1, AdmissibleAt
  <1>3. PICK held \in Authority!Held(c) : \A i \in Positions :
          IF i <= asked[c] THEN IsReport(c, i, held[i]) ELSE held[i] = store[i]
    BY <1>1, HeldByAll
  <1>4. /\ Keys(collected[c]) = {Names[i] : i \in Positions}
        /\ \A i, j \in Positions : Names[i] = Names[j] => i = j
    BY <1>1 DEF ReadsAreKept, Positions
  <1>5. \A i \in Positions : /\ ~ReportEscapes(held[i])
                             /\ collected[c][Names[i]] = ReportedStatus(Names[i], held[i])
    BY <1>1, <1>3 DEF Positions, IsReport
  <1>6. Authority!Evaluate(request[c], policy[c], now_utc[c], held)
          = Conclude(request[c], policy[c], now_utc[c], collected[c])
    BY <1>1, <1>4, <1>5, EvaluateReports DEF Underway
  <1>7. PICK conclusion :
          conclusion = Conclude(request[c], policy[c], now_utc[c], collected[c])
    OBVIOUS
  <1>8. /\ answer' = [answer EXCEPT ![c] = conclusion.answer]
        /\ raised' = [raised EXCEPT ![c] = conclusion.raised]
    BY <1>7 DEF Finish
  <1> QED
    BY <1>1, <1>2, <1>6, <1>7, <1>8, RespondMaps DEF Proceed

LEMMA StepMaps ==
  IInv /\ IInv' /\ WitnessInv /\ [WitnessNext]_witnessVars
    => [Authority!Next]_(Authority!vars)
  <1> SUFFICES ASSUME IInv, IInv', WitnessInv, [WitnessNext]_witnessVars
               PROVE  Authority!Next \/ UNCHANGED Authority!vars
    OBVIOUS
  <1>1. CASE UNCHANGED witnessVars
    BY <1>1 DEF witnessVars, vars, Authority!vars, Phase, Running
  <1>2. CASE WitnessNext
    <2>1. Record /\ Next
      BY <1>2 DEF WitnessNext
    <2>2. CASE Tick
      BY <2>1, <2>2, TickMaps DEF Authority!Next
    <2>3. ASSUME NEW i \in Positions, WriteFile(i)
          PROVE  Authority!Next
      BY <2>1, <2>3, WriteMaps DEF Authority!Next, Authority!Positions, Positions
    <2>4. ASSUME NEW c \in Callers, Submit(c)
          PROVE  Authority!Next
      BY <2>1, <2>4, OpenMaps DEF Authority!Next
    <2>5. ASSUME NEW c \in Callers, Proceed(c)
          PROVE  Authority!Next \/ UNCHANGED Authority!vars
      <3>1. CASE Return(c)
        BY <2>1, <3>1, CloseMaps DEF Authority!Next
      <3>2. CASE Running(c) /\ Running(c)'
        BY <2>1, <2>5, <3>2, QuietMaps
      <3>3. CASE ~Running(c)' /\ ~Return(c)
        BY <2>1, <2>5, <3>3, BeginMaps, ReportMaps, FinishMaps
        DEF Proceed, Authority!Next
      <3>4. Return(c) \/ Running(c)
        BY <2>5 DEF Proceed, Begin, Report, Finish, Running
      <3> QED
        BY <3>1, <3>2, <3>3, <3>4
    <2> QED
      BY <2>1, <2>2, <2>3, <2>4, <2>5 DEF Next
  <1> QED
    BY <1>1, <1>2

\* AnswersAsIfAtOnce holds of every execution: the resolver implements the
\* authority, so an answer or an exception is always explained by one instant and
\* by something that each provider held while the call ran.
THEOREM Refines == WitnessSpec => AnswersAsIfAtOnce
  <1>1. WitnessInit => Authority!Init
    <2> SUFFICES ASSUME WitnessInit PROVE Authority!Init
      OBVIOUS
    <2>1. /\ store \in [Positions -> UNION {Contents[i] : i \in Positions}]
          /\ \A i \in Positions : store[i] \in Contents[i]
      BY DEF WitnessInit, Init, Stores
    <2>2. [c \in Callers |-> Phase(c)] = [c \in Callers |-> "idle"]
      BY DEF WitnessInit, Init, Phase, Running
    <2> QED
      BY <2>1, <2>2
      DEF WitnessInit, Init, Authority!Init, Authority!Positions, Positions,
          Authority!NotSeen, NotSeen
  <1> QED
    BY <1>1, StepMaps, SpecWitnessInv, PTL DEF WitnessSpec, AnswersAsIfAtOnce, Authority!Spec

=============================================================================
