--------------------------- MODULE ResolverProofs ---------------------------
(***************************************************************************)
(* Proofs about the resolver, for any number of callers, any providers and *)
(* any contents, requests and policies.  TypeOK and CallsAreCoherent are   *)
(* inductive together; the properties of answers follow from them and from *)
(* the lemmas of ResolutionProofs.                                         *)
(***************************************************************************)
EXTENDS ResolverProperties, ResolutionProofs

-----------------------------------------------------------------------------
(* Types *)

\* Whatever a provider holds, its report is recorded as a status.
LEMMA ReportedStatusType ==
  ASSUME NEW name \in SourceNames, NEW content \in Content, ~ReportEscapes(content)
  PROVE  ReportedStatus(name, content) \in SourceStatus
  <1>1. CASE ReportFails(name, content)
    <2>1. BareStatus(name, "FAILED", "PROVIDER_REPORT_FAILED") \in SourceStatus
      BY ReasonAssumption
      DEF BareStatus, SourceStatus, SourceFreshness, ErrorReasonCode, Optional
    <2>2. content.unencodable \in BOOLEAN
      BY DEF Content
    <2>3. ASSUME NEW status \in SourceStatus
          PROVE  [status EXCEPT !.unencodable = content.unencodable] \in SourceStatus
      BY <2>2 DEF SourceStatus
    <2> QED
      BY <1>1, <2>1, <2>3 DEF ReportedStatus
  <1>2. CASE ~ReportFails(name, content)
    <2>1. Validates(content)
      BY <1>2 DEF ReportFails, ReportEscapes, Content, Optional
    <2>2. AuthorityTimestamp(content) \in Optional(Instants)
      BY <2>1 DEF AuthorityTimestamp, Validates, Optional
    <2>3. content.freshness \in SourceFreshness
      BY <2>1 DEF Validates
    <2> QED
      BY <1>2, <2>2, <2>3 DEF ReportedStatus, Content, SourceStatus
  <1> QED
    BY <1>1, <1>2

\* The statuses that are collected at the start of a call, and what the providers
\* can hold, have their types.
LEMMA EmptyMapType == EmptyMap \in SourceMap
  BY DEF EmptyMap, SourceMap, Optional

LEMMA StoresType ==
  ASSUME NEW s \in Stores, NEW i \in Positions
  PROVE  s[i] \in Contents[i] /\ s[i] \in Content
  BY ResolverAssumption DEF Stores, Positions

LEMMA EmptyMapIsKept == Keys(EmptyMap) = {Names[i] : i \in 1 .. 0}
  BY DEF EmptyMap, Keys

LEMMA NamesType ==
  /\ Len(Names) \in Nat
  /\ \A i \in 1 .. Len(Names) : Names[i] \in SourceNames
  BY ResolverAssumption

-----------------------------------------------------------------------------
(* The inductive invariant *)

IInv == TypeOK /\ CallsAreCoherent

LEMMA InitIInv == Init => IInv
  <1> SUFFICES ASSUME Init PROVE IInv
    OBVIOUS
  <1>1. TypeOK
    <2>1. clock \in Instants
      BY MaxTimeAssumption DEF Init, Instants
    <2> QED
      BY <2>1, EmptyMapType, NamesType DEF Init, TypeOK, Optional
  <1>2. CallsAreCoherent
    BY EmptyMapIsKept DEF Init, CallsAreCoherent, CallIsCoherent, ReadsAreKept, Concluded
  <1> QED
    BY <1>1, <1>2 DEF IInv

\* No local variable of a call changes, and time stands still.
Untouched(c) ==
  /\ clock' = clock
  /\ pc'[c] = pc[c]
  /\ request'[c] = request[c]
  /\ policy'[c] = policy[c]
  /\ now_utc'[c] = now_utc[c]
  /\ asked'[c] = asked[c]
  /\ collected'[c] = collected[c]
  /\ answer'[c] = answer[c]
  /\ raised'[c] = raised[c]

\* When one call moves and stays coherent, all calls do.
LEMMA OneCallMoves ==
  ASSUME NEW c \in Callers, CallsAreCoherent, CallIsCoherent(c)',
         \A d \in Callers \ {c} : Untouched(d)
  PROVE  CallsAreCoherent'
  <1>1. ASSUME NEW d \in Callers \ {c}
        PROVE  CallIsCoherent(d)'
    BY DEF CallsAreCoherent, CallIsCoherent, Concluded, ReadsAreKept, Underway, Untouched
  <1> QED
    BY <1>1 DEF CallsAreCoherent

\* The world moves: the calls stay as they are.
LEMMA TickIInv == IInv /\ Tick => IInv'
  <1> SUFFICES ASSUME IInv, Tick PROVE IInv'
    OBVIOUS
  <1>1. clock' \in Instants /\ clock \in Int /\ clock <= clock'
    BY MaxTimeAssumption DEF IInv, TypeOK, Tick, Instants
  <1>2. TypeOK'
    BY <1>1 DEF IInv, TypeOK, Tick
  <1>3. ASSUME NEW c \in Callers, Underway(c)
        PROVE  Underway(c)'
    <2>1. now_utc[c] \in Int
      BY <1>3, MaxTimeAssumption DEF Underway, Instants
    <2> QED
      BY <1>1, <1>3, <2>1 DEF Underway, Tick
  <1>4. CallsAreCoherent'
    BY <1>3 DEF IInv, CallsAreCoherent, CallIsCoherent, Concluded, ReadsAreKept, Tick
  <1> QED
    BY <1>2, <1>4 DEF IInv

LEMMA WriteFileIInv ==
  ASSUME NEW i \in Positions
  PROVE  IInv /\ WriteFile(i) => IInv'
  <1> SUFFICES ASSUME IInv, WriteFile(i) PROVE IInv'
    OBVIOUS
  <1>1. store' \in Stores
    <2>1. PICK content \in Contents[i] : store' = [store EXCEPT ![i] = content]
      BY DEF WriteFile
    <2>2. /\ store \in [Positions -> UNION {Contents[j] : j \in Positions}]
          /\ \A j \in Positions : store[j] \in Contents[j]
      BY DEF IInv, TypeOK, Stores
    <2>3. content \in UNION {Contents[j] : j \in Positions}
      BY <2>1
    <2> QED
      BY <2>1, <2>2, <2>3 DEF Stores
  <1>2. TypeOK'
    BY <1>1 DEF IInv, TypeOK, WriteFile
  <1>3. CallsAreCoherent'
    BY DEF IInv, CallsAreCoherent, CallIsCoherent, Concluded, ReadsAreKept, Underway,
           WriteFile
  <1> QED
    BY <1>2, <1>3 DEF IInv

\* A call is made: what it brings is a request and a policy of the callers.
LEMMA SubmitIInv ==
  ASSUME NEW c \in Callers
  PROVE  IInv /\ Submit(c) => IInv'
  <1> SUFFICES ASSUME IInv, Submit(c) PROVE IInv'
    OBVIOUS
  <1>1. PICK r \in Requests, p \in Policies :
          /\ request' = [request EXCEPT ![c] = r]
          /\ policy' = [policy EXCEPT ![c] = p]
          /\ \/ /\ AcceptsRequest(r)
                /\ pc' = [pc EXCEPT ![c] = "accepted"]
                /\ UNCHANGED raised
             \/ ~AcceptsRequest(r) /\ Fail(c, Refused)
    BY DEF Submit
  <1>2. r \in RawRequest /\ p \in Policy \cup {NoPolicy}
    BY ResolverAssumption
  <1>3. TypeOK'
    <2>1. request' \in [Callers -> Optional(RawRequest)]
      BY <1>1, <1>2 DEF IInv, TypeOK, Optional
    <2>2. policy' \in [Callers -> Policy \cup {NoPolicy}]
      BY <1>1, <1>2 DEF IInv, TypeOK
    <2>3. pc' \in [Callers -> {"idle", "accepted", "reporting", "done"}]
      BY <1>1 DEF IInv, TypeOK, Fail
    <2>4. raised' \in [Callers -> Optional(ErrorReasonCode \cup {Escaped, Refused})]
      BY <1>1 DEF IInv, TypeOK, Fail, Optional
    <2> QED
      BY <2>1, <2>2, <2>3, <2>4 DEF IInv, TypeOK, Submit, world
  <1>4. CallIsCoherent(c)'
    <2>1. /\ pc[c] = "idle" /\ asked[c] = 0 /\ raised[c] = None
          /\ answer'[c] = None /\ asked'[c] = 0
      BY DEF IInv, CallsAreCoherent, CallIsCoherent, Submit
    <2>2. \/ pc'[c] = "done"
          \/ /\ pc'[c] = "accepted" /\ AcceptsRequest(request'[c])
             /\ raised'[c] = None
      BY <1>1, <2>1 DEF IInv, TypeOK, Fail
    <2>3. ReadsAreKept(c)'
      BY DEF IInv, CallsAreCoherent, CallIsCoherent, ReadsAreKept, Submit
    <2> QED
      BY <2>1, <2>2, <2>3 DEF CallIsCoherent, Concluded
  <1>5. \A d \in Callers \ {c} : Untouched(d)
    BY <1>1 DEF Untouched, IInv, TypeOK, Fail, Submit, world
  <1> QED
    BY <1>3, <1>4, <1>5, OneCallMoves DEF IInv

\* The instant is sampled and the calendar is checked.
LEMMA BeginIInv ==
  ASSUME NEW c \in Callers
  PROVE  IInv /\ Begin(c) => IInv'
  <1> SUFFICES ASSUME IInv, Begin(c) PROVE IInv'
    OBVIOUS
  <1> DEFINE failure == CalendarFailure(request[c])
             at == IF request[c].as_of_utc # None THEN request[c].as_of_utc ELSE clock
  <1>1. /\ pc[c] = "accepted"
        /\ AcceptsRequest(request[c])
        /\ ReadsAreKept(c)
        /\ answer[c] = None /\ raised[c] = None /\ asked[c] = 0
    BY DEF IInv, CallsAreCoherent, CallIsCoherent, Begin
  <1>2. at \in Instants
    BY <1>1 DEF IInv, TypeOK, AcceptsRequest, FieldsAccepted, Optional
  <1>3. failure \in Optional(ErrorReasonCode)
    BY DEF CalendarFailure, Optional, ErrorReasonCode
  <1>4. /\ now_utc' = [now_utc EXCEPT ![c] = at]
        /\ \/ /\ failure = None
              /\ ~OutOfRange(request[c], at)
              /\ pc' = [pc EXCEPT ![c] = "reporting"]
              /\ UNCHANGED raised
           \/ failure # None /\ Fail(c, failure)
           \/ failure = None /\ OutOfRange(request[c], at) /\ Fail(c, Escaped)
        /\ UNCHANGED <<clock, store, request, policy, asked, collected, answer>>
    BY DEF Begin, world, arguments
  <1>5. TypeOK'
    <2>1. pc' \in [Callers -> {"idle", "accepted", "reporting", "done"}]
      BY <1>4 DEF IInv, TypeOK, Fail
    <2>2. now_utc' \in [Callers -> Optional(Instants)]
      BY <1>2, <1>4 DEF IInv, TypeOK, Optional
    <2>3. raised' \in [Callers -> Optional(ErrorReasonCode \cup {Escaped, Refused})]
      BY <1>3, <1>4 DEF IInv, TypeOK, Fail, Optional
    <2> QED
      BY <1>4, <2>1, <2>2, <2>3 DEF IInv, TypeOK
  <1>6. CallIsCoherent(c)'
    <2>1. now_utc'[c] = at /\ clock' = clock /\ clock <= clock
      <3>1. now_utc'[c] = at /\ clock' = clock
        BY <1>4 DEF IInv, TypeOK
      <3>2. clock \in Int
        BY MaxTimeAssumption DEF IInv, TypeOK, Instants
      <3> QED
        BY <3>1, <3>2
    <2>2. \/ pc'[c] = "done"
          \/ /\ pc'[c] = "reporting" /\ raised'[c] = None
             /\ failure = None /\ ~OutOfRange(request[c], at)
      BY <1>1, <1>4 DEF IInv, TypeOK, Fail
    <2>3. failure = None /\ ~OutOfRange(request[c], at) => Underway(c)'
      BY <1>1, <1>2, <1>4, <2>1 DEF Underway
    <2>4. ReadsAreKept(c)'
      BY <1>1, <1>4 DEF ReadsAreKept
    <2> QED
      BY <1>1, <1>4, <2>2, <2>3, <2>4 DEF CallIsCoherent, Concluded
  <1>7. \A d \in Callers \ {c} : Untouched(d)
    BY <1>4 DEF Untouched, IInv, TypeOK, Fail
  <1> QED
    BY <1>5, <1>6, <1>7, OneCallMoves DEF IInv

\* One provider is asked: its status is added under a new name, or the call ends.
LEMMA ReportIInv ==
  ASSUME NEW c \in Callers
  PROVE  IInv /\ Report(c) => IInv'
  <1> SUFFICES ASSUME IInv, Report(c) PROVE IInv'
    OBVIOUS
  <1> DEFINE i == asked[c] + 1
             name == Names[i]
             status == ReportedStatus(name, store[i])
  <1>1. /\ pc[c] = "reporting"
        /\ Underway(c)
        /\ AcceptsRequest(request[c])
        /\ ReadsAreKept(c)
        /\ answer[c] = None /\ raised[c] = None
    BY DEF IInv, CallsAreCoherent, CallIsCoherent, Report
  <1>2. /\ asked[c] \in Nat
        /\ i \in 1 .. Len(Names)
        /\ name \in SourceNames
        /\ store[i] \in Content
    <2>1. asked[c] \in Nat /\ i \in 1 .. Len(Names)
      BY NamesType DEF IInv, TypeOK, Report
    <2> QED
      BY <2>1, NamesType, StoresType DEF IInv, TypeOK, Positions
  <1>3. UNCHANGED <<clock, store, request, policy, now_utc, answer>>
    BY DEF Report, world, arguments
  <1>4. CASE /\ UNCHANGED <<asked, collected>>
             /\ \E reason \in {"DUPLICATE_PROVIDER_NAME", Escaped} : Fail(c, reason)
    <2>1. TypeOK'
      BY <1>3, <1>4 DEF IInv, TypeOK, Fail, Optional, ErrorReasonCode
    <2>2. CallIsCoherent(c)'
      <3>1. pc'[c] = "done" /\ asked'[c] = asked[c] /\ asked[c] # Len(Names)
        BY <1>2, <1>4 DEF IInv, TypeOK, Fail
      <3> QED
        BY <1>1, <1>3, <1>4, <3>1 DEF CallIsCoherent, Concluded, ReadsAreKept
    <2>3. \A d \in Callers \ {c} : Untouched(d)
      BY <1>3, <1>4 DEF Untouched, IInv, TypeOK, Fail
    <2> QED
      BY <2>1, <2>2, <2>3, OneCallMoves DEF IInv
  <1>5. CASE /\ collected[c][name] = None
             /\ ~ReportEscapes(store[i])
             /\ Collect(c, name, status)
             /\ asked' = [asked EXCEPT ![c] = i]
             /\ UNCHANGED <<pc, raised>>
    <2>1. status \in SourceStatus
      BY <1>2, <1>5, ReportedStatusType
    <2>2. collected' \in [Callers -> SourceMap]
      BY <1>2, <1>5, <2>1 DEF IInv, TypeOK, Collect, SourceMap, Optional
    <2>3. asked' \in [Callers -> 0 .. Len(Names)]
      BY <1>2, <1>5, NamesType DEF IInv, TypeOK
    <2>4. TypeOK'
      BY <1>3, <1>5, <2>2, <2>3 DEF IInv, TypeOK
    <2>5. /\ collected'[c] = [collected[c] EXCEPT ![name] = status]
          /\ asked'[c] = i
          /\ status # None
          /\ collected[c] \in SourceMap
      BY <1>5, <2>1, RecordAssumption DEF IInv, TypeOK, Collect
    <2>6. ReadsAreKept(c)'
      <3>1. 1 .. asked'[c] = (1 .. asked[c]) \cup {i}
        BY <1>2, <2>5
      <3>2. Keys(collected'[c]) = Keys(collected[c]) \cup {name}
        BY <1>2, <2>5 DEF Keys, SourceMap
      <3>3. name \notin Keys(collected[c])
        BY <1>5 DEF Keys
      <3>4. /\ Keys(collected[c]) = {Names[j] : j \in 1 .. asked[c]}
            /\ \A j, k \in 1 .. asked[c] : Names[j] = Names[k] => j = k
        BY <1>1 DEF ReadsAreKept
      <3>5. Keys(collected'[c]) = {Names[j] : j \in 1 .. asked'[c]}
        BY <3>1, <3>2, <3>4
      <3>6. ASSUME NEW j \in 1 .. asked'[c], NEW k \in 1 .. asked'[c],
                   Names[j] = Names[k]
            PROVE  j = k
        BY <3>1, <3>3, <3>4, <3>6
      <3> QED
        BY <3>5, <3>6 DEF ReadsAreKept
    <2>7. CallIsCoherent(c)'
      BY <1>1, <1>3, <1>5, <2>6 DEF CallIsCoherent, Concluded, Underway
    <2>8. \A d \in Callers \ {c} : Untouched(d)
      BY <1>3, <1>5 DEF Untouched, IInv, TypeOK, Collect
    <2> QED
      BY <2>4, <2>7, <2>8, OneCallMoves DEF IInv
  <1> QED
    BY <1>4, <1>5 DEF Report

\* The policy is applied and the answer composed.
LEMMA FinishIInv ==
  ASSUME NEW c \in Callers
  PROVE  IInv /\ Finish(c) => IInv'
  <1> SUFFICES ASSUME IInv, Finish(c) PROVE IInv'
    OBVIOUS
  <1> DEFINE conclusion == Conclude(request[c], policy[c], now_utc[c], collected[c])
  <1>1. /\ Underway(c)
        /\ ReadsAreKept(c)
        /\ asked[c] = Len(Names)
        /\ collected[c] \in SourceMap
    BY DEF IInv, TypeOK, CallsAreCoherent, CallIsCoherent, Finish
  <1>2. /\ conclusion.answer \in Optional(AsOf)
        /\ conclusion.raised \in Optional(ErrorReasonCode \cup {Escaped})
    BY <1>1, ConcludeCases DEF Underway
  <1>3. /\ pc' = [pc EXCEPT ![c] = "done"]
        /\ answer' = [answer EXCEPT ![c] = conclusion.answer]
        /\ raised' = [raised EXCEPT ![c] = conclusion.raised]
        /\ UNCHANGED <<clock, store, request, policy, now_utc, asked, collected>>
    BY DEF Finish, world, arguments
  <1>4. TypeOK'
    BY <1>2, <1>3 DEF IInv, TypeOK, Optional
  <1>5. CallIsCoherent(c)'
    <2>1. /\ pc'[c] = "done" /\ answer'[c] = conclusion.answer
          /\ raised'[c] = conclusion.raised
      BY <1>3 DEF IInv, TypeOK
    <2>2. Underway(c)' /\ ReadsAreKept(c)' /\ asked'[c] = Len(Names)
      BY <1>1, <1>3 DEF Underway, ReadsAreKept
    <2>3. conclusion
            = Conclude(request'[c], policy'[c], now_utc'[c], collected'[c])
      BY <1>3
    <2> QED
      BY <2>1, <2>2, <2>3 DEF CallIsCoherent
  <1>6. \A d \in Callers \ {c} : Untouched(d)
    BY <1>3 DEF Untouched, IInv, TypeOK
  <1> QED
    BY <1>4, <1>5, <1>6, OneCallMoves DEF IInv

\* The call leaves nothing behind.
LEMMA ReturnIInv ==
  ASSUME NEW c \in Callers
  PROVE  IInv /\ Return(c) => IInv'
  <1> SUFFICES ASSUME IInv, Return(c) PROVE IInv'
    OBVIOUS
  <1>1. TypeOK'
    BY EmptyMapType, NamesType DEF IInv, TypeOK, Return, Optional, world
  <1>2. CallIsCoherent(c)'
    <2>1. /\ pc'[c] = "idle" /\ asked'[c] = 0 /\ collected'[c] = EmptyMap
          /\ answer'[c] = None /\ raised'[c] = None
      BY DEF IInv, TypeOK, Return
    <2> QED
      BY <2>1, EmptyMapIsKept DEF CallIsCoherent, Concluded, ReadsAreKept
  <1>3. \A d \in Callers \ {c} : Untouched(d)
    BY DEF Untouched, IInv, TypeOK, Return, world
  <1> QED
    BY <1>1, <1>2, <1>3, OneCallMoves DEF IInv

\* Every step keeps the invariant, and so does a step in which nothing happens.
LEMMA NextIInv == IInv /\ [Next]_vars => IInv'
  <1>1. ASSUME IInv, UNCHANGED vars
        PROVE  IInv'
    BY <1>1 DEF IInv, TypeOK, CallsAreCoherent, CallIsCoherent, Concluded,
                ReadsAreKept, Underway, vars
  <1>2. ASSUME IInv, NEW c \in Callers, Proceed(c)
        PROVE  IInv'
    BY <1>2, BeginIInv, ReportIInv, FinishIInv, ReturnIInv DEF Proceed
  <1> QED
    BY <1>1, <1>2, TickIInv, WriteFileIInv, SubmitIInv DEF Next

LEMMA SpecIInv == Spec => []IInv
  BY InitIInv, NextIInv, PTL DEF Spec

-----------------------------------------------------------------------------
(* The theorems *)

\* Whatever the callers ask and the files hold, every variable keeps its type:
\* in particular an answer is a well-formed AsOf, and what is raised is a reason
\* code unless an exception escapes (resolver.py 98-219).
THEOREM TypeCorrect == Spec => []TypeOK
  BY SpecIInv, PTL DEF IInv

\* Whichever calls overlap, the local variables of each belong together, and an
\* answer is the conclusion from its own arguments, its one instant and the
\* status of every registered provider (resolver.py 98-219).
THEOREM Coherent == Spec => []CallsAreCoherent
  BY SpecIInv, PTL DEF IInv

-----------------------------------------------------------------------------
(* What the invariant says of an answer *)

LEMMA AnswerIs ==
  ASSUME IInv, NEW c \in Answered
  PROVE  LET sources == AdmittedSources(request[c], policy[c], now_utc[c], collected[c])
             asof    == ComposeAsOf(request[c], now_utc[c], sources)
         IN  /\ c \in Callers
             /\ AcceptsRequest(request[c])
             /\ CalendarFailure(request[c]) = None
             /\ now_utc[c] \in Instants
             /\ request[c].as_of_utc # None => now_utc[c] = request[c].as_of_utc
             /\ collected[c] \in SourceMap
             /\ AcceptsAsOf(asof)
             /\ answer[c] = Validated(asof)
             /\ answer[c].resolved_at_utc = asof.resolved_at_utc
             /\ answer[c].knowledge_cutoff_utc = asof.knowledge_cutoff_utc
             /\ answer[c].canonical_state = asof.canonical_state
             /\ answer[c].sources = asof.sources
             /\ answer[c].market = asof.market
             /\ answer[c].business_date = asof.business_date
             /\ answer[c].market_date = Projection(asof).date
             /\ Unready(request[c], now_utc[c], sources) = None
  <1> DEFINE conclusion == Conclude(request[c], policy[c], now_utc[c], collected[c])
  <1>1. /\ c \in Callers
        /\ answer[c] # None
        /\ collected[c] \in SourceMap
    BY DEF Answered, IInv, TypeOK
  <1>2. /\ AcceptsRequest(request[c])
        /\ CalendarFailure(request[c]) = None
        /\ now_utc[c] \in Instants
        /\ ~OutOfRange(request[c], now_utc[c])
        /\ request[c].as_of_utc # None => now_utc[c] = request[c].as_of_utc
        /\ answer[c] = conclusion.answer
    BY <1>1 DEF IInv, CallsAreCoherent, CallIsCoherent, Concluded, Underway
  <1> QED
    BY <1>1, <1>2, ConcludeCases, ValidatedType

\* An answer passes its own validator, and is not about a time to come unless it
\* was asked for.
LEMMA AnswerStands ==
  ASSUME IInv, NEW c \in Answered
  PROVE  /\ answer[c] \in AsOf
         /\ AcceptsAsOf(answer[c])
         /\ answer[c].resolved_at_utc = now_utc[c]
         /\ now_utc[c] \in Instants
         /\ request[c].as_of_utc = None => clock >= now_utc[c]
  <1>1. c \in Callers /\ answer[c] # None
    BY DEF Answered
  <1>2. /\ AcceptsRequest(request[c])
        /\ CalendarFailure(request[c]) = None
        /\ now_utc[c] \in Instants
        /\ ~OutOfRange(request[c], now_utc[c])
        /\ request[c].as_of_utc = None => now_utc[c] <= clock
        /\ answer[c] = Conclude(request[c], policy[c], now_utc[c], collected[c]).answer
        /\ collected[c] \in SourceMap
        /\ clock \in Int
    BY <1>1
       DEF IInv, TypeOK, CallsAreCoherent, CallIsCoherent, Concluded, Underway, Instants
  <1>3. answer[c].resolved_at_utc = now_utc[c]
    BY AnswerIs DEF ComposeAsOf
  <1>4. answer[c] \in AsOf
    BY <1>1 DEF IInv, TypeOK, Optional
  <1>5. PICK raw \in RawAsOf : AcceptsAsOf(raw) /\ answer[c] = Validated(raw)
    BY <1>1, <1>2, ConcludeCases
  <1>6. AcceptsAsOf(answer[c])
    BY <1>5, ValidatedIsAccepted
  <1> QED
    BY <1>2, <1>3, <1>4, <1>6 DEF Instants

\* The sources of an answer that a policy governed.
LEMMA GovernedIs ==
  ASSUME IInv, NEW c \in Governed
  PROVE  /\ c \in Answered
         /\ answer[c].resolved_at_utc = now_utc[c]
         /\ answer[c].knowledge_cutoff_utc = CutoffOf(request[c], now_utc[c])
         /\ answer[c].knowledge_cutoff_utc \in Instants
         /\ answer[c].sources \in SourceMap
         /\ answer[c].sources
              = ApplySourcePolicy(request[c].perspective,
                                  answer[c].knowledge_cutoff_utc,
                                  answer[c].resolved_at_utc, policy[c], collected[c])
  <1> DEFINE sources == AdmittedSources(request[c], policy[c], now_utc[c], collected[c])
  <1>1. c \in Answered /\ policy[c] # NoPolicy
    BY DEF Governed
  <1>2. /\ AcceptsRequest(request[c])
        /\ now_utc[c] \in Instants
        /\ collected[c] \in SourceMap
        /\ LET asof == ComposeAsOf(request[c], now_utc[c], sources)
           IN  /\ answer[c].resolved_at_utc = asof.resolved_at_utc
               /\ answer[c].knowledge_cutoff_utc = asof.knowledge_cutoff_utc
               /\ answer[c].sources = asof.sources
    BY <1>1, AnswerIs
  <1>3. /\ answer[c].resolved_at_utc = now_utc[c]
        /\ answer[c].knowledge_cutoff_utc = CutoffOf(request[c], now_utc[c])
        /\ answer[c].sources = sources
    BY <1>2 DEF ComposeAsOf
  <1>4. /\ CutoffOf(request[c], now_utc[c]) \in Instants
        /\ sources \in SourceMap
    BY <1>2, CutoffType, AdmittedSourcesType
  <1>5. sources = ApplySourcePolicy(request[c].perspective,
                                    CutoffOf(request[c], now_utc[c]), now_utc[c],
                                    policy[c], collected[c])
    BY <1>1 DEF AdmittedSources
  <1> QED
    BY <1>1, <1>3, <1>4, <1>5

\* A source of a governed answer that reported is a judgement on its report.
LEMMA ReportedSource ==
  ASSUME IInv, NEW c \in Governed, NEW name \in SourceNames,
         collected[c][name] # None
  PROVE  /\ collected[c][name] \in SourceStatus
         /\ answer[c].sources[name]
              = Judge(request[c].perspective, answer[c].knowledge_cutoff_utc,
                      answer[c].resolved_at_utc, policy[c], name, collected[c][name])
  <1>1. collected[c] \in SourceMap
    BY AnswerIs, GovernedIs
  <1> QED
    BY <1>1, GovernedIs, ApplySourcePolicyAt

\* A source that did not report is in a governed answer if it is required, with
\* the status that stands in for it, and otherwise not.
LEMMA AbsentSource ==
  ASSUME IInv, NEW c \in Governed, NEW name \in SourceNames,
         collected[c][name] = None
  PROVE  answer[c].sources[name] =
           IF name \in policy[c].required_sources
             THEN BareStatus(name, "MISSING", "REQUIRED_SOURCE_MISSING") ELSE None
  <1> DEFINE asof == answer[c]
             bare == BareStatus(name, "MISSING", "REQUIRED_SOURCE_MISSING")
  <1>1. collected[c] \in SourceMap
    BY AnswerIs, GovernedIs
  <1>2. Judge(request[c].perspective, asof.knowledge_cutoff_utc, asof.resolved_at_utc,
              policy[c], name, bare) = bare
    BY DEF Judge, AfterCutoff, TooOld, BareStatus
  <1> QED
    BY <1>1, <1>2, GovernedIs, ApplySourcePolicyAt

\* In particular it is not usable.
LEMMA AbsentIsNotUsable ==
  ASSUME IInv, NEW c \in Governed, NEW name \in SourceNames,
         collected[c][name] = None, answer[c].sources[name] # None
  PROVE  answer[c].sources[name].freshness \notin Usable
  <1>1. answer[c].sources[name]
          = BareStatus(name, "MISSING", "REQUIRED_SOURCE_MISSING")
    BY AbsentSource
  <1> QED
    BY <1>1 DEF BareStatus, Usable

-----------------------------------------------------------------------------
(* Canonicality and the collection of statuses *)

\* A call that was answered asked every provider, and no two have one name: no
\* status was lost (resolver.py 138-144).
THEOREM OneStatus == Spec => []OneStatusPerProvider
  <1>1. ASSUME IInv
        PROVE  OneStatusPerProvider
    BY <1>1 DEF IInv, CallsAreCoherent, CallIsCoherent, Concluded, ReadsAreKept,
                OneStatusPerProvider, Answered, Positions
  <1> QED
    BY <1>1, SpecIInv, PTL

\* An answer says CANONICAL only on the strength of the one assertion that was
\* reported, which proves publication by the cutoff; no policy can add or remove
\* it (resolver.py 178-194, publication.py 55-149).
THEOREM CanonicalProven == Spec => []CanonicalIsProven
  <1>1. ASSUME IInv, NEW c \in Answered, answer[c].canonical_state = "CANONICAL"
        PROVE  request[c].perspective = "CANONICAL" /\ Proven(c)
    <2> DEFINE cutoff == CutoffOf(request[c], now_utc[c])
               sources == AdmittedSources(request[c], policy[c], now_utc[c], collected[c])
    <2>1. /\ AcceptsRequest(request[c])
          /\ now_utc[c] \in Instants
          /\ collected[c] \in SourceMap
          /\ answer[c].canonical_state
               = ComposeAsOf(request[c], now_utc[c], sources).canonical_state
          /\ Unready(request[c], now_utc[c], sources) = None
      BY <1>1, AnswerIs
    <2>2. request[c].perspective = "CANONICAL"
      BY <1>1, <2>1 DEF ComposeAsOf
    <2>3. EvaluatePublicationReadiness("CANONICAL", cutoff, sources) = None
      BY <2>1, <2>2 DEF Unready
    <2>4. cutoff \in Instants /\ sources \in SourceMap
      BY <2>1, CutoffType, AdmittedSourcesType
    <2>5. PICK name \in Keys(sources) :
            /\ Assertions(sources) = {name}
            /\ Proves(sources[name].publication, cutoff)
      BY <2>3, <2>4, ReadyIsProof DEF Proves
    <2>6. /\ Assertions(collected[c]) = {name}
          /\ sources[name].publication = collected[c][name].publication
      BY <2>1, <2>5, PolicyKeepsPublication
    <2>7. Proven(c)
      BY <2>5, <2>6 DEF Proven, Asserts, Assertions
    <2> QED
      BY <2>2, <2>7
  <1>2. IInv => CanonicalIsProven
    BY <1>1 DEF CanonicalIsProven
  <1> QED
    BY <1>2, SpecIInv, PTL

\* An answer is about one day: the calendar that gave its business date is one for
\* the timezone of the request (resolver.py 110-133, models.py 272-293).
THEOREM OneDay == Spec => []OneMarketDay
  <1>1. ASSUME IInv, NEW c \in Answered, KeepsLocalDates(answer[c].market)
        PROVE  answer[c].business_date = answer[c].market_date
    <2> DEFINE sources == AdmittedSources(request[c], policy[c], now_utc[c], collected[c])
               asof == ComposeAsOf(request[c], now_utc[c], sources)
               local == LocalTime[request[c].market_timezone][now_utc[c]]
    <2>1. /\ AcceptsRequest(request[c])
          /\ CalendarFailure(request[c]) = None
          /\ now_utc[c] \in Instants
          /\ AcceptsAsOf(asof)
          /\ answer[c].market = asof.market
          /\ answer[c].business_date = asof.business_date
          /\ answer[c].market_date = Projection(asof).date
      BY <1>1, AnswerIs
    <2>2. /\ asof.market = request[c].market
          /\ asof.business_date = BusinessDateAt(request[c], now_utc[c])
          /\ Projection(asof) = local
      BY DEF ComposeAsOf, Projection
    <2>3. local # None
      BY <2>1, <2>2 DEF AcceptsAsOf
    <2>4. Calendars[request[c].market].market_timezone = request[c].market_timezone
      BY <2>1, CalendarFits
    <2>5. Calendars[request[c].market].business_date[now_utc[c]] = local.date
      BY <1>1, <2>1, <2>2, <2>3, <2>4 DEF KeepsLocalDates
    <2> QED
      BY <2>1, <2>2, <2>5 DEF BusinessDateAt
  <1>2. IInv => OneMarketDay
    BY <1>1 DEF OneMarketDay
  <1> QED
    BY <1>2, SpecIInv, PTL

-----------------------------------------------------------------------------
(* Admissibility *)

\* A pinned answer is about the instant asked for, and none of its usable sources
\* is of an instant after its cutoff (requests.py 109-118, policy.py 168-183).
THEOREM NoFuture == Spec => []NoFutureKnowledge
  <1>1. ASSUME IInv, NEW c \in Governed, Pinned(c)
        PROVE  /\ answer[c].resolved_at_utc = request[c].as_of_utc
               /\ answer[c].knowledge_cutoff_utc <= answer[c].resolved_at_utc
    <2>1. /\ AcceptsRequest(request[c])
          /\ request[c].as_of_utc # None => now_utc[c] = request[c].as_of_utc
      BY <1>1, GovernedIs, AnswerIs
    <2>2. /\ request[c].as_of_utc # None
          /\ request[c].knowledge_cutoff_utc # None
          /\ request[c].knowledge_cutoff_utc <= request[c].as_of_utc
      BY <1>1, <2>1 DEF Pinned, AcceptsRequest, CrossFieldRules
    <2>3. /\ answer[c].resolved_at_utc = now_utc[c]
          /\ answer[c].knowledge_cutoff_utc = CutoffOf(request[c], now_utc[c])
      BY <1>1, GovernedIs
    <2> QED
      BY <2>1, <2>2, <2>3 DEF CutoffOf
  <1>2. ASSUME IInv, NEW c \in Governed, Pinned(c),
               NEW name \in Keys(answer[c].sources),
               LaterThanCutoff(c, answer[c].sources[name])
        PROVE  answer[c].sources[name].freshness \notin Usable
    <2> DEFINE asof == answer[c]
    <2>1. name \in SourceNames /\ asof.sources[name] # None
      BY DEF Keys
    <2>2. CASE collected[c][name] # None
      <3>1. /\ collected[c][name] \in SourceStatus
            /\ asof.sources[name]
                 = Judge(request[c].perspective, asof.knowledge_cutoff_utc,
                         asof.resolved_at_utc, policy[c], name, collected[c][name])
        BY <1>2, <2>1, <2>2, ReportedSource
      <3>2. asof.sources[name].timestamp_utc = collected[c][name].timestamp_utc
        BY <3>1, JudgeKeeps
      <3>3. AfterCutoff(request[c].perspective, asof.knowledge_cutoff_utc,
                        collected[c][name])
        BY <1>2, <3>2 DEF LaterThanCutoff, AfterCutoff, Pinned
      <3> QED
        BY <3>1, <3>3, JudgeGrounds
    <2>3. CASE collected[c][name] = None
      BY <1>2, <2>1, <2>3, AbsentIsNotUsable
    <2> QED
      BY <2>2, <2>3
  <1>3. IInv => NoFutureKnowledge
    BY <1>1, <1>2 DEF NoFutureKnowledge
  <1> QED
    BY <1>3, SpecIInv, PTL

\* No usable source of a governed answer is older than its limit
\* (policy.py 101-103, 185-206).
THEOREM YoungEnough == Spec => []UsableIsYoungEnough
  <1>1. ASSUME IInv, NEW c \in Governed, NEW name \in Keys(answer[c].sources),
               answer[c].sources[name].freshness \in Usable
        PROVE  ~Expired(c, name, answer[c].sources[name])
    <2> DEFINE asof == answer[c]
    <2>1. name \in SourceNames /\ asof.sources[name] # None
      BY DEF Keys
    <2>2. CASE collected[c][name] # None
      <3>1. /\ collected[c][name] \in SourceStatus
            /\ asof.sources[name]
                 = Judge(request[c].perspective, asof.knowledge_cutoff_utc,
                         asof.resolved_at_utc, policy[c], name, collected[c][name])
        BY <1>1, <2>1, <2>2, ReportedSource
      <3>2. asof.sources[name] = collected[c][name]
        BY <1>1, <3>1, JudgeGrounds
      <3>3. ~TooOld(policy[c], asof.resolved_at_utc, name, collected[c][name])
        BY <1>1, <3>1, JudgeGrounds
      <3>4. collected[c][name].freshness \notin FailClosedFreshness
        BY <1>1, <3>2 DEF Usable, FailClosedFreshness
      <3> QED
        BY <3>2, <3>3, <3>4 DEF Expired, Limit, TooOld, MaxAgeFor
    <2>3. CASE collected[c][name] = None
      BY <1>1, <2>1, <2>3, AbsentIsNotUsable
    <2> QED
      BY <2>2, <2>3
  <1>2. IInv => UsableIsYoungEnough
    BY <1>1 DEF UsableIsYoungEnough
  <1> QED
    BY <1>2, SpecIInv, PTL

\* A governed answer shows what reported and what is required, and nothing that
\* is missing as usable (policy.py 158-165).
THEOREM RequiredShow == Spec => []RequiredSourcesShow
  <1>1. ASSUME IInv, NEW c \in Governed
        PROVE  /\ Keys(answer[c].sources)
                    = Keys(collected[c]) \cup policy[c].required_sources
               /\ \A name \in Keys(answer[c].sources) \ Keys(collected[c]) :
                    answer[c].sources[name].freshness = "MISSING"
    <2>1. policy[c].required_sources \subseteq SourceNames
      BY <1>1 DEF Governed, Answered, IInv, TypeOK, Policy
    <2>2. ASSUME NEW name \in SourceNames, collected[c][name] # None
          PROVE  answer[c].sources[name] # None
      <3>1. answer[c].sources[name] \in SourceStatus
        BY <1>1, <2>2, ReportedSource, JudgeType
      <3> QED
        BY <3>1, RecordAssumption
    <2>3. ASSUME NEW name \in SourceNames, collected[c][name] = None
          PROVE  /\ answer[c].sources[name] # None
                      <=> name \in policy[c].required_sources
                 /\ answer[c].sources[name] # None =>
                      answer[c].sources[name].freshness = "MISSING"
      <3>1. BareStatus(name, "MISSING", "REQUIRED_SOURCE_MISSING") # None
        BY MissingStatusType
      <3>2. answer[c].sources[name] =
              IF name \in policy[c].required_sources
                THEN BareStatus(name, "MISSING", "REQUIRED_SOURCE_MISSING") ELSE None
        BY <1>1, <2>3, AbsentSource
      <3> QED
        BY <3>1, <3>2 DEF BareStatus
    <2> QED
      BY <2>1, <2>2, <2>3 DEF Keys
  <1>2. IInv => RequiredSourcesShow
    BY <1>1 DEF RequiredSourcesShow
  <1> QED
    BY <1>2, SpecIInv, PTL

\* No reported status is altered but on one of the policy's two grounds
\* (policy.py 168-172, 186-197).
THEOREM Justified == Spec => []DowngradesAreJustified
  <1>1. ASSUME IInv, NEW c \in Governed, NEW name \in Keys(collected[c])
        PROVE  \/ answer[c].sources[name] = collected[c][name]
               \/ Pinned(c) /\ LaterThanCutoff(c, collected[c][name])
               \/ /\ Expired(c, name, collected[c][name])
                  /\ collected[c][name].freshness \in Usable
    <2> DEFINE asof == answer[c]
               status == collected[c][name]
    <2>1. name \in SourceNames /\ collected[c][name] # None
      BY DEF Keys
    <2>2. /\ status \in SourceStatus
          /\ asof.sources[name]
               = Judge(request[c].perspective, asof.knowledge_cutoff_utc,
                       asof.resolved_at_utc, policy[c], name, status)
      BY <1>1, <2>1, ReportedSource
    <2>3. \/ asof.sources[name] = status
          \/ AfterCutoff(request[c].perspective, asof.knowledge_cutoff_utc, status)
          \/ TooOld(policy[c], asof.resolved_at_utc, name, status)
      BY <2>2, JudgeGrounds
    <2>4. AfterCutoff(request[c].perspective, asof.knowledge_cutoff_utc, status)
            => Pinned(c) /\ LaterThanCutoff(c, status)
      BY DEF AfterCutoff, Pinned, LaterThanCutoff
    <2>5. TooOld(policy[c], asof.resolved_at_utc, name, status)
            => Expired(c, name, status) /\ status.freshness \in Usable
      BY <2>2 DEF TooOld, MaxAgeFor, Expired, Limit, SourceStatus, SourceFreshness,
                  FailClosedFreshness, Usable
    <2> QED
      BY <2>3, <2>4, <2>5
  <1>2. IInv => DowngradesAreJustified
    BY <1>1 DEF DowngradesAreJustified
  <1> QED
    BY <1>2, SpecIInv, PTL

\* What a judgement leaves alone: the status it was made on can be restored.
LEMMA JudgeRecovers ==
  ASSUME NEW perspective, NEW cutoff, NEW now, NEW p, NEW name,
         NEW status \in SourceStatus,
         NEW judged, judged = Judge(perspective, cutoff, now, p, name, status)
  PROVE  \/ judged = status
         \/ /\ judged.freshness \notin Usable
            /\ status = BeforePolicy(judged, status.policy)
  <1>1. CASE \/ AfterCutoff(perspective, cutoff, status)
             \/ TooOld(p, now, name, status)
    BY <1>1 DEF Judge, WithSourcePolicyStatus, BeforePolicy, SourceStatus,
                PolicyMetadata, Usable
  <1>2. CASE /\ ~AfterCutoff(perspective, cutoff, status)
             /\ ~TooOld(p, now, name, status)
    BY <1>2 DEF Judge
  <1> QED
    BY <1>1, <1>2

\* From a governed answer the reported statuses can be restored
\* (policy.py 106-133).
THEOREM Recoverable == Spec => []ProviderLayerRecoverable
  <1>1. ASSUME IInv, NEW c \in Governed, NEW name \in Keys(collected[c])
        PROVE  LET was == collected[c][name]
                   is  == answer[c].sources[name]
               IN  \/ is = was
                   \/ is.freshness \notin Usable /\ was = BeforePolicy(is, was.policy)
    <2>1. name \in SourceNames /\ collected[c][name] # None
      BY DEF Keys
    <2>2. /\ collected[c][name] \in SourceStatus
          /\ answer[c].sources[name]
               = Judge(request[c].perspective, answer[c].knowledge_cutoff_utc,
                       answer[c].resolved_at_utc, policy[c], name, collected[c][name])
      BY <1>1, <2>1, ReportedSource
    <2> QED
      BY <2>2, JudgeRecovers
  <1>2. IInv => ProviderLayerRecoverable
    BY <1>1 DEF ProviderLayerRecoverable
  <1> QED
    BY <1>2, SpecIInv, PTL

-----------------------------------------------------------------------------
(* Steps *)

\* While a call collects, its instant stays, and what it collected is not
\* replaced (resolver.py 104-108, 135-155).
THEOREM OneInstant == Spec => OneInstantPerCall
  <1> DEFINE Keeps(c) ==
        pc[c] = "reporting" =>
          /\ now_utc'[c] = now_utc[c]
          /\ \A name \in Keys(collected[c]) :
               collected'[c][name] = collected[c][name]
  <1>1. ASSUME TypeOK, NEW c \in Callers, NEW d \in Callers, Report(d)
        PROVE  Keeps(c)
    <2>1. CASE UNCHANGED collected
      BY <1>1, <2>1 DEF Report
    <2>2. CASE /\ collected[d][Names[asked[d] + 1]] = None
               /\ Collect(d, Names[asked[d] + 1],
                          ReportedStatus(Names[asked[d] + 1], store[asked[d] + 1]))
      BY <1>1, <2>2 DEF Report, Collect, TypeOK, SourceMap, Keys
    <2> QED
      BY <1>1, <2>1, <2>2 DEF Report
  <1>2. ASSUME TypeOK, NEW c \in Callers, NEW d \in Callers,
               Submit(d) \/ Begin(d) \/ Finish(d) \/ Return(d)
        PROVE  Keeps(c)
    BY <1>2 DEF Submit, Begin, Finish, Return, TypeOK, arguments
  <1>3. ASSUME NEW c \in Callers, Tick \/ \E i \in Positions : WriteFile(i)
        PROVE  Keeps(c)
    BY <1>3 DEF Tick, WriteFile
  <1>4. TypeOK /\ [Next]_vars => [\A c \in Callers : Keeps(c)]_vars
    BY <1>1, <1>2, <1>3 DEF Next, Proceed
  <1> QED
    BY <1>4, TypeCorrect, PTL DEF Spec, OneInstantPerCall

-----------------------------------------------------------------------------
(* Failures *)

\* A CANONICAL call that reported a proof of publication, and no array, has an
\* answer once its providers have been asked, if its instant has a local time
\* (resolver.py 178-219).
THEOREM ProofAccepted == Spec => []ProofIsAccepted
  <1>1. ASSUME IInv, NEW c \in Callers,
               pc[c] = "done", asked[c] = Len(Names),
               request[c].perspective = "CANONICAL", Proven(c),
               ~Inconvertible(request[c], now_utc[c]),
               \A name \in Keys(collected[c]) : ~collected[c][name].has_array
        PROVE  answer[c] # None
    <2> DEFINE cutoff == CutoffOf(request[c], now_utc[c])
               sources == AdmittedSources(request[c], policy[c], now_utc[c], collected[c])
               conclusion == Conclude(request[c], policy[c], now_utc[c], collected[c])
    <2>1. PICK name \in Keys(collected[c]) :
            /\ Asserts(collected[c][name])
            /\ \A other \in Keys(collected[c]) \ {name} : ~Asserts(collected[c][other])
            /\ Proves(collected[c][name].publication, cutoff)
      BY <1>1 DEF Proven
    <2>2. asked[c] # 0
      <3>1. PICK i \in 1 .. asked[c] : name = Names[i]
        BY <1>1, <2>1 DEF IInv, CallsAreCoherent, CallIsCoherent, ReadsAreKept
      <3> QED
        BY <3>1
    <2>3. /\ Underway(c)
          /\ answer[c] = conclusion.answer
      BY <1>1, <2>2 DEF IInv, CallsAreCoherent, CallIsCoherent, Concluded
    <2>4. /\ AcceptsRequest(request[c])
          /\ CalendarFailure(request[c]) = None
          /\ now_utc[c] \in Instants
          /\ ~OutOfRange(request[c], now_utc[c])
          /\ LocalTime[request[c].market_timezone][now_utc[c]] # None
          /\ collected[c] \in SourceMap
          /\ cutoff \in Instants
      BY <1>1, <2>3, CutoffType DEF Underway, Inconvertible, IInv, TypeOK
    <2>5. Assertions(collected[c]) = {name}
      BY <2>1 DEF Assertions, Asserts
    <2>6. /\ Assertions(sources) = {name}
          /\ sources[name].publication = collected[c][name].publication
      BY <2>4, <2>5, PolicyKeepsPublication
    <2>7. name \in SourceNames
      BY DEF Keys
    <2>8. EvaluatePublicationReadiness("CANONICAL", cutoff, sources) = None
      BY <2>1, <2>4, <2>6, <2>7, ProofIsReady DEF Proves
    <2>9. Unready(request[c], now_utc[c], sources) = None
      BY <1>1, <2>8 DEF Unready
    <2> QED
      BY <1>1, <2>3, <2>4, <2>9, ConcludeEscapes
  <1>2. IInv => ProofIsAccepted
    BY <1>1 DEF ProofIsAccepted
  <1> QED
    BY <1>2, SpecIInv, PTL

\* Whatever a call does, an exception that escapes it is explained.
LEMMA EndsExplained ==
  ASSUME IInv, NEW c \in Callers, Submit(c) \/ Proceed(c), EscapeExplained(c)
  PROVE  EscapeExplained(c)'
  <1>0. raised \in [Callers -> Optional(ErrorReasonCode \cup {Escaped, Refused})]
    BY DEF IInv, TypeOK
  <1>1. None # Escaped /\ Refused # Escaped /\ Escaped \notin ErrorReasonCode
    BY EscapedAssumption DEF Escaped, Refused, ErrorReasonCode
  <1>2. pc[c] # "done" => raised[c] = None
    BY DEF IInv, CallsAreCoherent, CallIsCoherent
  <1>3. CASE Submit(c)
    BY <1>0, <1>1, <1>2, <1>3 DEF Submit, Fail, EscapeExplained
  <1>4. CASE Begin(c)
    <2> DEFINE at == IF request[c].as_of_utc # None THEN request[c].as_of_utc ELSE clock
    <2>1. CalendarFailure(request[c]) \in Optional(ErrorReasonCode)
      BY DEF CalendarFailure, Optional, ErrorReasonCode
    <2>2. CASE OutOfRange(request[c], at) /\ CalendarFailure(request[c]) = None
      <3>1. /\ AcceptsRequest(request[c])
            /\ at \in Instants
        <4>1. AcceptsRequest(request[c])
          BY <1>4 DEF IInv, CallsAreCoherent, CallIsCoherent, Begin
        <4> QED
          BY <4>1 DEF AcceptsRequest, FieldsAccepted, Optional, IInv, TypeOK
      <3>2. request[c].market \in DOMAIN Calendars
        BY <2>2, <3>1, CalendarFits
      <3>3. now_utc'[c] = at /\ request' = request
        BY <1>4 DEF Begin, IInv, TypeOK, arguments
      <3>4. Inconvertible(request'[c], now_utc'[c])
        BY <2>2, <3>2, <3>3 DEF Inconvertible
      <3> QED
        BY <3>4 DEF EscapeExplained
    <2>3. CASE ~OutOfRange(request[c], at) \/ CalendarFailure(request[c]) # None
      <3>1. raised'[c] \in Optional(ErrorReasonCode)
        BY <1>0, <1>2, <1>4, <2>1, <2>3 DEF Begin, Fail, Optional
      <3> QED
        BY <1>1, <3>1 DEF EscapeExplained, Optional
    <2> QED
      BY <2>2, <2>3
  <1>5. CASE Report(c)
    <2> DEFINE i == asked[c] + 1
    <2>1. CASE raised'[c] # Escaped
      BY <2>1 DEF EscapeExplained
    <2>2. CASE raised'[c] = Escaped
      <3>1. ReportEscapes(store[i]) /\ asked' = asked /\ asked[c] < Len(Names)
        BY <1>0, <1>1, <1>2, <1>5, <2>2 DEF Report, Fail, Escaped
      <3>2. asked[c] \in Nat /\ Len(Names) \in Nat /\ i \in Positions
        BY <3>1, NamesType DEF IInv, TypeOK, Positions
      <3>3. store[i] \in Contents[i]
        BY <3>2, StoresType DEF IInv, TypeOK
      <3> QED
        BY <3>1, <3>3 DEF EscapeExplained
    <2> QED
      BY <2>1, <2>2
  <1>6. CASE Finish(c)
    <2>1. /\ AcceptsRequest(request[c])
          /\ CalendarFailure(request[c]) = None
          /\ now_utc[c] \in Instants
          /\ ~OutOfRange(request[c], now_utc[c])
          /\ collected[c] \in SourceMap
      BY <1>6 DEF Finish, IInv, TypeOK, CallsAreCoherent, CallIsCoherent, Underway
    <2>2. /\ raised'[c]
               = Conclude(request[c], policy[c], now_utc[c], collected[c]).raised
          /\ UNCHANGED <<request, policy, now_utc, collected>>
      BY <1>0, <1>6 DEF Finish, arguments
    <2>3. raised'[c] = Escaped =>
            \/ LocalTime[request[c].market_timezone][now_utc[c]] = None
            \/ /\ policy[c] # NoPolicy
               /\ \E name \in Keys(collected[c]) : collected[c][name].has_array
      <3>1. PICK conclusion :
              conclusion = Conclude(request[c], policy[c], now_utc[c], collected[c])
        OBVIOUS
      <3>2. conclusion.raised = Escaped =>
              \/ LocalTime[request[c].market_timezone][now_utc[c]] = None
              \/ /\ policy[c] # NoPolicy
                 /\ \E name \in Keys(collected[c]) : collected[c][name].has_array
        BY <2>1, <3>1, ConcludeEscapes
      <3> QED
        BY <2>2, <3>1, <3>2
    <2> QED
      BY <2>2, <2>3 DEF EscapeExplained, Inconvertible
  <1>7. CASE Return(c)
    BY <1>0, <1>1, <1>7 DEF Return, EscapeExplained
  <1> QED
    BY <1>3, <1>4, <1>5, <1>6, <1>7 DEF Proceed

\* Nothing but a ResolverError leaves a call, unless its instant has no local time,
\* a provider may hold what its report does not survive, or a policy governs a
\* status with an array (resolver.py 132-133, 145-155, 172-219, models.py 271-333).
THEOREM TypedFailures == Spec => []OnlyTypedFailures
  <1>1. Init => OnlyTypedFailures
    BY EscapedAssumption DEF Init, OnlyTypedFailures, EscapeExplained
  <1>2. ASSUME NEW c \in Callers, EscapeExplained(c),
               raised'[c] = raised[c], asked'[c] = asked[c],
               request'[c] = request[c], now_utc'[c] = now_utc[c],
               policy'[c] = policy[c], collected'[c] = collected[c]
        PROVE  EscapeExplained(c)'
    BY <1>2 DEF EscapeExplained
  <1>3. ASSUME IInv, OnlyTypedFailures, NEW d \in Callers, Submit(d) \/ Proceed(d)
        PROVE  OnlyTypedFailures'
    <2>1. ASSUME NEW c \in Callers \ {d}
          PROVE  /\ raised'[c] = raised[c] /\ asked'[c] = asked[c]
                 /\ request'[c] = request[c] /\ now_utc'[c] = now_utc[c]
                 /\ policy'[c] = policy[c] /\ collected'[c] = collected[c]
      BY <1>3 DEF Submit, Proceed, Begin, Report, Finish, Return, Fail, Collect,
                  IInv, TypeOK, arguments
    <2>2. EscapeExplained(d)'
      BY <1>3, EndsExplained DEF OnlyTypedFailures
    <2> QED
      BY <1>2, <1>3, <2>1, <2>2 DEF OnlyTypedFailures
  <1>4. ASSUME Tick \/ (\E i \in Positions : WriteFile(i)) \/ UNCHANGED vars
        PROVE  UNCHANGED <<raised, asked, request, now_utc, policy, collected>>
    BY <1>4 DEF Tick, WriteFile, vars
  <1>5. IInv /\ OnlyTypedFailures /\ [Next]_vars => OnlyTypedFailures'
    BY <1>2, <1>3, <1>4 DEF Next, OnlyTypedFailures
  <1> QED
    BY <1>1, <1>5, SpecIInv, PTL DEF Spec

-----------------------------------------------------------------------------
(* How a call ends *)

\* A call under way was not refused.  One that is over has an answer or a reason,
\* never both and never neither: its request was refused, or the reason is one of
\* those that resolve() gives, or an exception escaped.
EndIsKnown(c) ==
  /\ raised[c] \in Optional(CalendarReasons \cup GateReasons
                              \cup {Escaped, Refused, "DUPLICATE_PROVIDER_NAME"})
  /\ pc[c] = "done" => ((answer[c] = None) <=> (raised[c] # None))
  /\ pc[c] = "done" => ((raised[c] = Refused) <=> ~AcceptsRequest(request[c]))
  /\ raised[c] = "DUPLICATE_PROVIDER_NAME" =>
       \E i, j \in Positions : i # j /\ Names[i] = Names[j]

EndsAreKnown == \A c \in Callers : EndIsKnown(c)

LEMMA NoneIsNoReason ==
  /\ None \notin CalendarReasons \cup GateReasons
                   \cup {Escaped, Refused, "DUPLICATE_PROVIDER_NAME"}
  /\ Refused \notin CalendarReasons \cup GateReasons
                   \cup {Escaped, "DUPLICATE_PROVIDER_NAME"}
  /\ "DUPLICATE_PROVIDER_NAME" \notin CalendarReasons \cup GateReasons \cup {Escaped}
  <1>1. CalendarReasons \cup GateReasons \cup {"DUPLICATE_PROVIDER_NAME"}
          \subseteq ErrorReasonCode
    BY DEF CalendarReasons, GateReasons, ErrorReasonCode
  <1>2. None \notin ErrorReasonCode
    BY SentinelAssumption, ReasonAssumption
  <1> QED
    BY <1>1, <1>2, EscapedAssumption, RefusedAssumption
       DEF CalendarReasons, GateReasons, Refused, Escaped

LEMMA StepEnds ==
  ASSUME IInv, IInv', NEW c \in Callers, Submit(c) \/ Proceed(c), EndIsKnown(c)
  PROVE  EndIsKnown(c)'
  <1>1. /\ raised \in [Callers -> Optional(ErrorReasonCode \cup {Escaped, Refused})]
        /\ answer \in [Callers -> Optional(AsOf)]
        /\ pc \in [Callers -> {"idle", "accepted", "reporting", "done"}]
        /\ request \in [Callers -> Optional(RawRequest)]
    BY DEF IInv, TypeOK
  <1>2. pc[c] # "done" => answer[c] = None /\ raised[c] = None
    BY DEF IInv, CallsAreCoherent, CallIsCoherent
  <1>3. CASE Submit(c)
    <2>1. PICK r \in Requests :
            /\ request'[c] = r
            /\ \/ /\ AcceptsRequest(r)
                  /\ pc'[c] = "accepted"
                  /\ raised' = raised
               \/ /\ ~AcceptsRequest(r)
                  /\ pc'[c] = "done"
                  /\ raised'[c] = Refused
      BY <1>1, <1>3 DEF Submit, Fail
    <2>2. answer'[c] = None
      BY <1>2, <1>3 DEF Submit
    <2> QED
      BY <2>1, <2>2, <1>2, NoneIsNoReason DEF EndIsKnown, Optional
  <1>4. CASE Begin(c)
    <2>1. AcceptsRequest(request[c]) /\ request' = request
      BY <1>4 DEF Begin, IInv, CallsAreCoherent, CallIsCoherent, arguments
    <2>2. CalendarFailure(request[c]) \in Optional(CalendarReasons)
      BY DEF CalendarFailure, Optional, CalendarReasons
    <2>3. /\ answer'[c] = None
          /\ \/ pc'[c] = "reporting" /\ raised'[c] = None
             \/ /\ pc'[c] = "done"
                /\ raised'[c] \in CalendarReasons \cup {Escaped}
      BY <1>1, <1>2, <1>4, <2>2 DEF Begin, Fail, Optional
    <2> QED
      BY <2>1, <2>3, NoneIsNoReason DEF EndIsKnown, Optional
  <1>5. CASE Report(c)
    <2>1. AcceptsRequest(request[c]) /\ request' = request
      BY <1>5 DEF Report, IInv, CallsAreCoherent, CallIsCoherent, arguments
    <2>2. /\ answer'[c] = None
          /\ \/ pc'[c] = "reporting" /\ raised'[c] = None
             \/ pc'[c] = "done" /\ raised'[c] = Escaped
             \/ /\ pc'[c] = "done"
                /\ raised'[c] = "DUPLICATE_PROVIDER_NAME"
                /\ collected[c][Names[asked[c] + 1]] # None
      BY <1>1, <1>2, <1>5 DEF Report, Fail
    <2>3. asked[c] \in Nat /\ asked[c] < Len(Names) /\ Len(Names) \in Nat
      BY <1>5, NamesType DEF Report, IInv, TypeOK
    <2>4. ASSUME collected[c][Names[asked[c] + 1]] # None
          PROVE  \E i, j \in Positions : i # j /\ Names[i] = Names[j]
      <3>1. Names[asked[c] + 1] \in Keys(collected[c])
        BY <2>3, <2>4, NamesType DEF Keys
      <3>2. PICK i \in 1 .. asked[c] : Names[i] = Names[asked[c] + 1]
        BY <3>1 DEF IInv, CallsAreCoherent, CallIsCoherent, ReadsAreKept
      <3> QED
        BY <2>3, <3>2 DEF Positions
    <2> QED
      BY <2>1, <2>2, <2>4, NoneIsNoReason DEF EndIsKnown, Optional
  <1>6. CASE Finish(c)
    <2>1. /\ AcceptsRequest(request[c])
          /\ CalendarFailure(request[c]) = None
          /\ now_utc[c] \in Instants
          /\ ~OutOfRange(request[c], now_utc[c])
          /\ collected[c] \in SourceMap
      BY <1>6 DEF Finish, IInv, TypeOK, CallsAreCoherent, CallIsCoherent, Underway
    <2>2. PICK conclusion :
            conclusion = Conclude(request[c], policy[c], now_utc[c], collected[c])
      OBVIOUS
    <2>3. /\ answer'[c] = conclusion.answer
          /\ raised'[c] = conclusion.raised
          /\ pc'[c] = "done"
          /\ request' = request
      BY <1>1, <1>6, <2>2 DEF Finish, arguments
    <2>4. /\ conclusion.raised \in Optional(GateReasons \cup {Escaped})
          /\ (conclusion.answer = None) <=> (conclusion.raised # None)
      BY <2>1, <2>2, ConcludeRaises
    <2> QED
      BY <2>1, <2>3, <2>4, NoneIsNoReason DEF EndIsKnown, Optional
  <1>7. CASE Return(c)
    BY <1>1, <1>7, NoneIsNoReason DEF Return, EndIsKnown, Optional
  <1> QED
    BY <1>3, <1>4, <1>5, <1>6, <1>7 DEF Proceed

LEMMA SpecEnds == Spec => []EndsAreKnown
  <1>1. Init => EndsAreKnown
    BY NoneIsNoReason DEF Init, EndsAreKnown, EndIsKnown, Optional
  <1>2. ASSUME NEW c \in Callers, EndIsKnown(c),
               raised'[c] = raised[c], answer'[c] = answer[c],
               request'[c] = request[c], pc'[c] = pc[c]
        PROVE  EndIsKnown(c)'
    BY <1>2 DEF EndIsKnown
  <1>3. ASSUME IInv, IInv', EndsAreKnown, NEW d \in Callers, Submit(d) \/ Proceed(d)
        PROVE  EndsAreKnown'
    <2>1. ASSUME NEW c \in Callers \ {d}
          PROVE  /\ raised'[c] = raised[c] /\ answer'[c] = answer[c]
                 /\ request'[c] = request[c] /\ pc'[c] = pc[c]
      BY <1>3 DEF Submit, Proceed, Begin, Report, Finish, Return, Fail,
                  IInv, TypeOK, arguments
    <2>2. EndIsKnown(d)'
      BY <1>3, StepEnds DEF EndsAreKnown
    <2> QED
      BY <1>2, <1>3, <2>1, <2>2 DEF EndsAreKnown
  <1>4. ASSUME Tick \/ (\E i \in Positions : WriteFile(i)) \/ UNCHANGED vars
        PROVE  UNCHANGED <<raised, answer, request, pc>>
    BY <1>4 DEF Tick, WriteFile, vars
  <1>5. IInv /\ IInv' /\ EndsAreKnown /\ [Next]_vars => EndsAreKnown'
    BY <1>2, <1>3, <1>4 DEF Next, EndsAreKnown
  <1> QED
    BY <1>1, <1>5, SpecIInv, PTL DEF Spec

=============================================================================
