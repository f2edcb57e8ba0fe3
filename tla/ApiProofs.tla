------------------------------ MODULE ApiProofs ------------------------------
(***************************************************************************)
(* Proofs about the HTTP surface.  Its handlers are calls of the resolver, *)
(* so that all of ResolverProofs holds of them; what the responses say of  *)
(* these calls follows from one more inductive invariant.                  *)
(***************************************************************************)
EXTENDS Api, ResolverProofs

\* One step of one client or its handler.
Moves(c) ==
  \/ GetCurrent(c) \/ PostResolve(c) \/ PostMalformed(c) \/ PostReport(c)
  \/ GetSourcesStatus(c) \/ Serve(c) \/ PostSnapshot(c) \/ PostForeign(c)
  \/ Receive(c)

\* Whatever the clients do, the handlers of the HTTP surface take the steps of the
\* resolver and no others (api.py 133-157).
THEOREM CallsOfHandlers == ApiSpec => HandlersAreCalls
  <1>1. ApiInit => Init
    BY DEF ApiInit
  <1>2. ASSUME [ApiNext]_apiVars PROVE [Next]_vars
    <2>1. CASE (Tick \/ \E i \in Positions : WriteFile(i)) /\ UNCHANGED http
      BY <2>1 DEF Next
    <2>2. ASSUME NEW c \in Callers, GetCurrent(c) \/ PostResolve(c)
          PROVE  Next
      BY <2>2 DEF GetCurrent, PostResolve, Next
    <2>3. ASSUME NEW c \in Callers,
                 \/ PostMalformed(c) \/ PostReport(c) \/ GetSourcesStatus(c)
                 \/ PostSnapshot(c) \/ PostForeign(c) \/ List(c) \/ Complete(c)
          PROVE  UNCHANGED vars
      BY <2>3 DEF PostMalformed, PostReport, GetSourcesStatus, PostSnapshot, PostForeign,
                  Post, List, Complete
    <2>4. ASSUME NEW c \in Callers, Resolving(c)
          PROVE  Next
      BY <2>4 DEF Resolving, Proceed, Next
    <2>5. ASSUME NEW c \in Callers, Receive(c)
          PROVE  [Next]_vars
      BY <2>5 DEF Receive, Proceed, Next
    <2>6. CASE UNCHANGED apiVars
      BY <2>6 DEF apiVars
    <2> QED
      BY <1>2, <2>1, <2>2, <2>3, <2>4, <2>5, <2>6 DEF ApiNext, Serve
  <1> QED
    BY <1>1, <1>2, PTL DEF ApiSpec, HandlersAreCalls, Spec

\* What is known of the calls in every state of the HTTP surface.
CallsInv == IInv /\ EndsAreKnown /\ OnlyTypedFailures

LEMMA SpecCallsInv == ApiSpec => []CallsInv
  BY CallsOfHandlers, SpecIInv, SpecEnds, TypedFailures, PTL
     DEF HandlersAreCalls, CallsInv

-----------------------------------------------------------------------------
(* The inductive invariant *)

\* The reasons for a server error.
Explained(c) ==
  \/ /\ endpoint[c] = "/asof/current"
     /\ ~AcceptsRequest(request[c])
  \/ /\ endpoint[c] = "/sources/status"
     /\ turn[c] < Len(Names)
     /\ \E content \in Contents[turn[c] + 1] : ReportEscapes(content)
  \/ /\ endpoint[c] \in {"/asof/current", "/asof/resolve"}
     /\ raised[c] = Escaped
     /\ EscapeExplained(c)
  \/ /\ endpoint[c] = "/asof/snapshot"
     /\ posted[c].payload # None
     /\ \/ Projection(posted[c].payload.asof) = None
        \/ Projection(posted[c].payload.asof).odd
  \/ NotRenderable(c)

\* The response is what POST /asof/snapshot makes of the AsOf posted, at some instant;
\* behind a call that was answered it is this answer, at an instant after the call's.
IsPosted(c) ==
  /\ endpoint[c] = "/asof/snapshot"
  /\ posted[c] # None
  /\ posted[c].payload \in Payloads
  /\ posted[c].snapshot_id \in SnapshotIds
  /\ \E at \in Instants :
       /\ response[c] = SnapshotResponse(posted[c].payload, posted[c].snapshot_id, at)
       /\ answer[c] # None =>
            /\ posted[c].payload = JsonDump(answer[c])
            /\ Encodes(answer[c].sources)
            /\ request[c].as_of_utc = None => at >= now_utc[c]

\* The answer of a call, as it is served.
IsServed(c) ==
  /\ response[c] = Response(200, None, JsonDump(answer[c]))
  /\ endpoint[c] \in {"/asof/current", "/asof/resolve"}
  /\ answer[c] # None
  /\ Encodes(answer[c].sources)

\* A complete list.
IsListed(c) ==
  /\ response[c] = Response(200, None, listed[c])
  /\ endpoint[c] = "/sources/status"
  /\ turn[c] = Len(Names)

\* An error by which one may tell that providers have one name.
IsError(c) ==
  \/ response[c] = ValidationError
  \/ response[c] = ServerError /\ Explained(c)
  \/ response[c] = Response(501, "NOT_IMPLEMENTED", None)
  \/ /\ response[c] = Response(409, "DUPLICATE_PROVIDER_NAME", None)
     /\ DuplicateNamed
  \/ \E reason \in Optional(ErrorReasonCode) :
       /\ response[c] = Response(400, reason, None)
       /\ reason = "DUPLICATE_PROVIDER_NAME" => DuplicateNamed

\* A response fits its request and what became of it.
Fitting(c) == IsError(c) \/ IsServed(c) \/ IsListed(c) \/ IsPosted(c)

\* The statuses listed are those of the providers asked, all of different names.
ListIsKept(c) ==
  /\ listed[c] \in SourceMap
  /\ turn[c] \in Optional(0 .. Len(Names))
  /\ turn[c] # None =>
       /\ endpoint[c] = "/sources/status"
       /\ pc[c] = "idle"
       /\ ~DuplicateNamed
       /\ Keys(listed[c]) = {Names[i] : i \in 1 .. turn[c]}
  /\ turn[c] = None => listed[c] = EmptyMap

\* Client and handler agree on where they are.
HttpIsCoherent(c) ==
  /\ endpoint[c] \in Optional(Endpoints)
  /\ endpoint[c] = None => pc[c] = "idle" /\ response[c] = None
  /\ response[c] = None /\ pc[c] # "idle" =>
       endpoint[c] \in {"/asof/current", "/asof/resolve"}
  /\ response[c] # None => pc[c] \in {"idle", "done"} /\ Fitting(c)
  /\ endpoint[c] = "/asof/snapshot" /\ answer[c] # None => IsPosted(c)
  /\ posted[c] \in Optional(Bodies)
  /\ ListIsKept(c)

\* The variables of the HTTP surface are functions, and every client is coherent.
HttpInv ==
  /\ endpoint \in [Callers -> Optional(Endpoints)]
  /\ DOMAIN response = Callers /\ response = [c \in Callers |-> response[c]]
  /\ posted \in [Callers -> Optional(Bodies)]
  /\ turn \in [Callers -> Optional(0 .. Len(Names))]
  /\ listed \in [Callers -> SourceMap]
  /\ \A c \in Callers : HttpIsCoherent(c)

\* Nothing of a client or its handler changes.
Still(c) ==
  /\ endpoint'[c] = endpoint[c]
  /\ response'[c] = response[c]
  /\ posted'[c] = posted[c]
  /\ turn'[c] = turn[c]
  /\ listed'[c] = listed[c]
  /\ pc'[c] = pc[c]
  /\ request'[c] = request[c]
  /\ policy'[c] = policy[c]
  /\ now_utc'[c] = now_utc[c]
  /\ asked'[c] = asked[c]
  /\ collected'[c] = collected[c]
  /\ answer'[c] = answer[c]
  /\ raised'[c] = raised[c]

\* An error has no body, and tells of providers of one name only if there are such.
LEMMA ErrorIs ==
  ASSUME NEW c \in Callers, IsError(c)
  PROVE  /\ response[c].status_code \in {400, 409, 422, 500, 501}
         /\ response[c].reason_code \in Optional(ErrorReasonCode)
         /\ response[c].body = None
         /\ response[c].reason_code = "DUPLICATE_PROVIDER_NAME" => DuplicateNamed
  <1>1. CASE \/ response[c] = ValidationError
             \/ response[c] = ServerError
             \/ response[c] = Response(501, "NOT_IMPLEMENTED", None)
             \/ /\ response[c] = Response(409, "DUPLICATE_PROVIDER_NAME", None)
                /\ DuplicateNamed
    BY <1>1, NoneIsNoReason DEF ValidationError, ServerError, Response, ErrorReasonCode,
                                Optional
  <1>2. ASSUME NEW reason \in Optional(ErrorReasonCode),
               response[c] = Response(400, reason, None),
               reason = "DUPLICATE_PROVIDER_NAME" => DuplicateNamed
        PROVE  /\ response[c].status_code = 400
               /\ response[c].reason_code = reason
               /\ response[c].body = None
    BY <1>2 DEF Response
  <1> QED
    BY <1>1, <1>2 DEF IsError

LEMMA StillCoherent ==
  ASSUME NEW c \in Callers, HttpIsCoherent(c), Still(c)
  PROVE  HttpIsCoherent(c)'
  <1>1. EscapeExplained(c)' <=> EscapeExplained(c)
    BY DEF Still, EscapeExplained
  <1>2. Explained(c)' <=> Explained(c)
    BY <1>1 DEF Still, Explained, NotRenderable
  <1>3. IsPosted(c)' <=> IsPosted(c)
    BY DEF Still, IsPosted
  <1>4. Fitting(c)' <=> Fitting(c)
    BY <1>2, <1>3 DEF Still, Fitting, IsError, IsServed, IsListed
  <1>5. ListIsKept(c)' <=> ListIsKept(c)
    BY DEF Still, ListIsKept
  <1> QED
    BY <1>3, <1>4, <1>5 DEF Still, HttpIsCoherent

\* The steps of one client leave the others alone.
LEMMA OthersAreStill ==
  ASSUME IInv, HttpInv, NEW c \in Callers, NEW d \in Callers \ {c},
         Moves(c)
  PROVE  Still(d)
  <1>1. /\ response = [e \in Callers |-> response[e]]
        /\ endpoint \in [Callers -> Optional(Endpoints)]
        /\ posted \in [Callers -> Optional(Bodies)]
        /\ turn \in [Callers -> Optional(0 .. Len(Names))]
        /\ listed \in [Callers -> SourceMap]
    BY DEF HttpInv
  <1>2. Submit(c) \/ Proceed(c) \/ UNCHANGED vars =>
          /\ pc'[d] = pc[d]
          /\ request'[d] = request[d]
          /\ policy'[d] = policy[d]
          /\ now_utc'[d] = now_utc[d]
          /\ asked'[d] = asked[d]
          /\ collected'[d] = collected[d]
          /\ answer'[d] = answer[d]
          /\ raised'[d] = raised[d]
    BY DEF IInv, TypeOK, Submit, Proceed, Begin, Report, Finish, Return, Fail, Collect,
           vars, arguments
  <1>3. Submit(c) \/ Proceed(c) \/ UNCHANGED vars
    BY DEF Moves, GetCurrent, PostResolve, PostMalformed, PostReport, GetSourcesStatus,
           Serve, Resolving, List, Complete, PostSnapshot, PostForeign, Post, Receive,
           Proceed
  <1>4. /\ endpoint'[d] = endpoint[d]
        /\ response'[d] = response[d]
        /\ posted'[d] = posted[d]
        /\ turn'[d] = turn[d]
        /\ listed'[d] = listed[d]
    <2>1. CASE GetCurrent(c) \/ PostResolve(c)
      BY <1>1, <2>1 DEF GetCurrent, PostResolve, Send, loop
    <2>2. CASE PostMalformed(c)
      BY <1>1, <2>2 DEF PostMalformed, Send, Respond, loop
    <2>3. CASE PostReport(c) \/ GetSourcesStatus(c)
      BY <1>1, <2>3 DEF PostReport, GetSourcesStatus, Send, Respond, loop
    <2>4. CASE Resolving(c)
      BY <2>4 DEF Resolving, http, loop
    <2>5. CASE List(c) \/ Complete(c)
      BY <1>1, <2>5 DEF List, Enlist, Complete, Respond, loop
    <2>6. CASE PostSnapshot(c) \/ PostForeign(c)
      BY <1>1, <2>6 DEF PostSnapshot, PostForeign, Post, Send, Respond, loop
    <2>7. CASE Receive(c)
      BY <1>1, <2>7 DEF Receive
    <2> QED
      BY <2>1, <2>2, <2>3, <2>4, <2>5, <2>6, <2>7 DEF Moves, Serve
  <1> QED
    BY <1>2, <1>3, <1>4 DEF Still

-----------------------------------------------------------------------------
(* One step of one client *)

LEMMA CallsAre ==
  ASSUME CallsInv, NEW c \in Callers
  PROVE  /\ pc[c] \in {"idle", "accepted", "reporting", "done"}
         /\ pc[c] # "done" => answer[c] = None /\ raised[c] = None
         /\ EndIsKnown(c)
         /\ EscapeExplained(c)
  BY DEF CallsInv, IInv, TypeOK, CallsAreCoherent, CallIsCoherent, EndsAreKnown,
         OnlyTypedFailures

\* An endpoint that has just been sent a request is its client's.
LEMMA SendIs ==
  ASSUME HttpInv, NEW c \in Callers, NEW path \in Endpoints, Send(c, path)
  PROVE  /\ endpoint[c] = None
         /\ endpoint'[c] = path
         /\ path # None
         /\ response[c] = None
         /\ posted[c] \in Optional(Bodies)
         /\ pc[c] = "idle"
         /\ turn[c] = None
         /\ listed[c] = EmptyMap
  <1>1. endpoint[c] = None /\ endpoint'[c] = path /\ HttpIsCoherent(c)
    BY DEF HttpInv, Send
  <1> QED
    BY <1>1, PathAssumption DEF HttpIsCoherent, ListIsKept, Endpoints

\* A request that reaches resolve(): there is no response yet.
LEMMA CallKeeps ==
  ASSUME CallsInv, CallsInv', HttpInv, NEW c \in Callers,
         GetCurrent(c) \/ PostResolve(c)
  PROVE  HttpIsCoherent(c)'
  <1>1. PICK path \in {"/asof/current", "/asof/resolve"} : Send(c, path)
    BY DEF GetCurrent, PostResolve
  <1>2. path \in Endpoints /\ path # "/asof/snapshot" /\ path # "/sources/status"
    BY DEF Endpoints
  <1>3. UNCHANGED <<response, posted, turn, listed>>
    BY DEF GetCurrent, PostResolve, loop
  <1>4. /\ endpoint'[c] = path /\ path # None /\ posted'[c] \in Optional(Bodies)
        /\ response'[c] = None /\ turn'[c] = None /\ listed'[c] = EmptyMap
    BY <1>1, <1>2, <1>3, SendIs
  <1>5. ListIsKept(c)'
    BY <1>4, EmptyMapType DEF ListIsKept, Optional
  <1> QED
    BY <1>1, <1>2, <1>4, <1>5 DEF HttpIsCoherent, Optional

\* A request that is answered at once, and is no call.
LEMMA AnsweredAtOnce ==
  ASSUME CallsInv, HttpInv, NEW c \in Callers,
         PostMalformed(c) \/ PostReport(c) \/ GetSourcesStatus(c)
  PROVE  HttpIsCoherent(c)'
  <1>1. PICK path \in Endpoints : Send(c, path)
    BY DEF PostMalformed, PostReport, GetSourcesStatus, Endpoints
  <1>2. /\ path # None /\ endpoint'[c] = path
        /\ response[c] = None /\ pc[c] = "idle" /\ posted[c] \in Optional(Bodies)
        /\ turn[c] = None /\ listed[c] = EmptyMap
    BY <1>1, SendIs
  <1>3. answer'[c] = None /\ pc'[c] = "idle"
    BY <1>2, CallsAre DEF PostMalformed, PostReport, GetSourcesStatus, vars
  <1>4. /\ DOMAIN response = Callers
        /\ turn \in [Callers -> Optional(0 .. Len(Names))]
        /\ posted \in [Callers -> Optional(Bodies)]
    BY DEF HttpInv
  <1>5. CASE PostMalformed(c) \/ PostReport(c) \/ (GetSourcesStatus(c) /\ DuplicateNamed)
    <2>1. turn'[c] = None /\ listed'[c] = EmptyMap
      BY <1>2, <1>5 DEF PostMalformed, PostReport, GetSourcesStatus, loop
    <2>2. IsError(c)' /\ posted'[c] \in Optional(Bodies)
      <3>1. CASE PostMalformed(c)
        <4>1. PICK fault \in BodyFaults :
                /\ posted' = [posted EXCEPT ![c] =
                                [fault |-> fault, payload |-> None, snapshot_id |-> None]]
                /\ Respond(c, CASE fault = "unreadable" -> Response(400, None, None)
                                [] fault = "invalid" -> ValidationError
                                [] fault = "unrenderable" -> ServerError)
          BY <3>1, Zenon DEF PostMalformed
        <4>2. /\ posted'[c] = [fault |-> fault, payload |-> None, snapshot_id |-> None]
              /\ posted'[c] \in Bodies
              /\ posted'[c].fault = fault
          BY <1>4, <4>1 DEF Bodies, Optional
        <4>3. \/ response'[c] = ValidationError
              \/ response'[c] = ServerError /\ fault = "unrenderable"
              \/ response'[c] = Response(400, None, None)
          BY <1>4, <4>1 DEF Respond, BodyFaults
        <4>4. fault = "unrenderable" => NotRenderable(c)'
          BY <4>2, BodyAssumption DEF NotRenderable
        <4> QED
          BY <4>2, <4>3, <4>4, NoneIsNoReason DEF IsError, Explained, Optional
      <3>2. CASE PostReport(c)
        BY <1>2, <1>4, <3>2 DEF PostReport, Respond, IsError
      <3>3. CASE GetSourcesStatus(c) /\ DuplicateNamed
        BY <1>2, <1>4, <3>3 DEF GetSourcesStatus, Respond, IsError
      <3> QED
        BY <1>5, <3>1, <3>2, <3>3
    <2>3. Fitting(c)'
      BY <2>2 DEF Fitting
    <2>4. ListIsKept(c)'
      BY <2>1, EmptyMapType DEF ListIsKept, Optional
    <2> QED
      BY <1>1, <1>2, <1>3, <2>2, <2>3, <2>4 DEF HttpIsCoherent, Optional
  <1>6. CASE GetSourcesStatus(c) /\ ~DuplicateNamed
    <2>1. /\ turn'[c] = 0 /\ listed'[c] = EmptyMap /\ response'[c] = None
          /\ endpoint'[c] = "/sources/status" /\ posted'[c] \in Optional(Bodies)
      BY <1>2, <1>4, <1>6 DEF GetSourcesStatus, Send, HttpInv
    <2>2. ListIsKept(c)'
      BY <1>3, <1>6, <2>1, EmptyMapType, EmptyMapIsKept, NamesType
         DEF ListIsKept, Optional
    <2> QED
      BY <1>1, <1>2, <1>3, <2>1, <2>2 DEF HttpIsCoherent, Optional
  <1> QED
    BY <1>5, <1>6

\* The steps of resolve().
LEMMA ResolvingKeeps ==
  ASSUME CallsInv, CallsInv', HttpInv, NEW c \in Callers, Resolving(c)
  PROVE  HttpIsCoherent(c)'
  <1>1. HttpIsCoherent(c) /\ UNCHANGED <<endpoint, response, posted, turn, listed>>
    BY DEF HttpInv, Resolving, http, loop
  <1>2. pc[c] \in {"accepted", "reporting"}
    BY DEF Resolving, Begin, Report, Finish
  <1>3. response[c] = None /\ endpoint[c] \in {"/asof/current", "/asof/resolve"}
    BY <1>1, <1>2 DEF HttpIsCoherent
  <1>4. ListIsKept(c)'
    BY <1>1, <1>2, <1>3 DEF HttpIsCoherent, ListIsKept
  <1> QED
    BY <1>1, <1>3, <1>4, PathAssumption DEF HttpIsCoherent, Endpoints

\* A step of the loop of /sources/status.
LEMMA ListKeeps ==
  ASSUME CallsInv, HttpInv, NEW c \in Callers, List(c)
  PROVE  HttpIsCoherent(c)'
  <1>1. /\ HttpIsCoherent(c)
        /\ turn[c] # None /\ response[c] = None
        /\ DOMAIN response = Callers
        /\ turn \in [Callers -> Optional(0 .. Len(Names))]
        /\ listed \in [Callers -> SourceMap]
    BY DEF HttpInv, List, Listing
  <1>2. /\ endpoint[c] = "/sources/status" /\ pc[c] = "idle" /\ ~DuplicateNamed
        /\ turn[c] \in 0 .. Len(Names)
        /\ Keys(listed[c]) = {Names[i] : i \in 1 .. turn[c]}
        /\ listed[c] \in SourceMap
    BY <1>1 DEF HttpIsCoherent, ListIsKept, Optional
  <1>3. /\ UNCHANGED <<endpoint, posted, pc, answer, request, raised, asked, policy,
                       now_utc, collected>>
        /\ answer[c] = None
    BY <1>2, CallsAre DEF List, vars
  <1>4. Len(Names) \in Nat
    BY NamesType
  <1>5. CASE turn[c] = Len(Names)
    <2>1. response'[c] = Rendered(listed[c], listed[c]) /\ UNCHANGED <<turn, listed>>
      BY <1>1, <1>4, <1>5 DEF List, Respond, loop
    <2>2. Fitting(c)'
      <3>1. CASE Encodes(listed[c])
        <4>1. IsListed(c)'
          BY <1>2, <1>3, <1>5, <2>1, <3>1 DEF IsListed, Rendered
        <4> QED
          BY <4>1 DEF Fitting
      <3>2. CASE ~Encodes(listed[c])
        <4>1. NotRenderable(c)'
          BY <1>2, <1>3, <2>1, <3>2 DEF NotRenderable
        <4> QED
          BY <2>1, <3>2, <4>1 DEF Fitting, IsError, Explained, Rendered
      <3> QED
        BY <3>1, <3>2
    <2>3. ListIsKept(c)'
      BY <1>1, <1>3, <2>1 DEF HttpIsCoherent, ListIsKept
    <2> QED
      BY <1>1, <1>2, <1>3, <2>2, <2>3, PathAssumption DEF HttpIsCoherent, Endpoints
  <1>6. CASE turn[c] < Len(Names) /\ ReportEscapes(store[turn[c] + 1])
    <2>1. response'[c] = ServerError /\ UNCHANGED <<turn, listed>>
      BY <1>1, <1>2, <1>4, <1>6 DEF List, Respond, loop
    <2>2. turn[c] + 1 \in Positions
      BY <1>2, <1>4, <1>6 DEF Positions
    <2>3. store[turn[c] + 1] \in Contents[turn[c] + 1]
      BY <2>2, StoresType DEF CallsInv, IInv, TypeOK
    <2>4. Explained(c)'
      BY <1>2, <1>3, <1>6, <2>1, <2>3 DEF Explained
    <2>5. Fitting(c)'
      BY <2>1, <2>4 DEF Fitting, IsError
    <2>6. ListIsKept(c)'
      BY <1>1, <1>3, <2>1 DEF HttpIsCoherent, ListIsKept
    <2> QED
      BY <1>1, <1>2, <1>3, <2>5, <2>6, PathAssumption DEF HttpIsCoherent, Endpoints
  <1>7. CASE turn[c] < Len(Names) /\ ~ReportEscapes(store[turn[c] + 1])
    <2> DEFINE i == turn[c] + 1
               status == ReportedStatus(Names[i], store[i])
    <2>1. i \in Positions /\ Names[i] \in SourceNames
      BY <1>2, <1>4, <1>7, NamesType DEF Positions
    <2>2. status \in SourceStatus /\ status # None
      <3>1. store[i] \in Content
        BY <2>1, StoresType DEF CallsInv, IInv, TypeOK
      <3> QED
        BY <1>7, <2>1, <3>1, ReportedStatusType, RecordAssumption
    <2>3. /\ listed'[c] = [listed[c] EXCEPT ![Names[i]] = status]
          /\ turn'[c] = i
          /\ UNCHANGED response
      BY <1>1, <1>2, <1>4, <1>7 DEF List, Enlist
    <2>4. listed'[c] \in SourceMap
      BY <1>2, <2>1, <2>2, <2>3 DEF SourceMap, Optional
    <2>5. Keys(listed'[c]) = Keys(listed[c]) \cup {Names[i]}
      BY <1>2, <2>1, <2>2, <2>3 DEF Keys, SourceMap
    <2>6. 1 .. i = (1 .. turn[c]) \cup {i}
      BY <1>2, <1>4
    <2>7. Keys(listed'[c]) = {Names[j] : j \in 1 .. i}
      BY <1>2, <2>5, <2>6
    <2>8. i \in 0 .. Len(Names) /\ i # None
      BY <1>2, <1>4, <1>7, SentinelAssumption
    <2>9. ListIsKept(c)'
      BY <1>2, <1>3, <2>3, <2>4, <2>7, <2>8 DEF ListIsKept, Optional
    <2> QED
      BY <1>1, <1>2, <1>3, <2>3, <2>9 DEF HttpIsCoherent
  <1> QED
    BY <1>2, <1>4, <1>5, <1>6, <1>7

\* A handler whose call is over answers with what became of it.
LEMMA CompleteKeeps ==
  ASSUME CallsInv, HttpInv, NEW c \in Callers, Complete(c)
  PROVE  HttpIsCoherent(c)'
  <1>1. /\ HttpIsCoherent(c)
        /\ pc[c] = "done" /\ response[c] = None
        /\ response'[c] = Outcome(c)
        /\ UNCHANGED <<vars, endpoint, posted, turn, listed>>
    BY DEF HttpInv, Complete, Respond, loop
  <1>2. endpoint[c] \in {"/asof/current", "/asof/resolve"}
    BY <1>1 DEF HttpIsCoherent
  <1>3. EndIsKnown(c) /\ EscapeExplained(c)
    BY CallsAre
  <1>4. Fitting(c)'
    <2>0. Refused # Escaped /\ Refused \notin ErrorReasonCode /\ Escaped \notin ErrorReasonCode
      BY DEF Refused, Escaped, ErrorReasonCode
    <2>1. CASE raised[c] = Refused
      <3>1. ~AcceptsRequest(request[c])
        BY <1>1, <1>3, <2>1 DEF EndIsKnown
      <3>2. \/ response'[c] = ValidationError
            \/ response'[c] = ServerError /\ endpoint[c] = "/asof/current"
        BY <1>1, <2>0, <2>1 DEF Outcome, RefusalOf
      <3> QED
        BY <1>1, <3>1, <3>2 DEF Fitting, IsError, Explained, vars
    <2>2. CASE raised[c] = Escaped
      <3>1. response'[c] = ServerError
        BY <1>1, <2>0, <2>2 DEF Outcome
      <3>2. Explained(c)'
        BY <1>1, <1>2, <1>3, <2>2 DEF Explained, EscapeExplained, vars
      <3> QED
        BY <3>1, <3>2 DEF Fitting, IsError
    <2>3. CASE raised[c] \in ErrorReasonCode
      <3>1. raised[c] # Escaped /\ raised[c] # Refused
        BY <2>0, <2>3
      <3>2. response'[c] = Response(400, raised[c], None)
        BY <1>1, <2>3, <3>1 DEF Outcome
      <3>3. raised[c] = "DUPLICATE_PROVIDER_NAME" => DuplicateNamed
        BY <1>3 DEF EndIsKnown, DuplicateNamed
      <3> QED
        BY <2>3, <3>2, <3>3 DEF Fitting, IsError, Optional
    <2>4. CASE raised[c] = None
      <3>1. answer[c] # None
        BY <1>1, <1>3, <2>4 DEF EndIsKnown
      <3>2. None # Escaped /\ None # Refused /\ None \notin ErrorReasonCode
        BY EscapedAssumption, RefusedAssumption, SentinelAssumption, ReasonAssumption
      <3>3. response'[c] = Rendered(JsonDump(answer[c]), answer[c].sources)
        BY <1>1, <2>4, <3>2 DEF Outcome
      <3>4. CASE Encodes(answer[c].sources)
        <4>1. IsServed(c)'
          BY <1>1, <1>2, <3>1, <3>3, <3>4 DEF IsServed, Rendered, vars
        <4> QED
          BY <4>1 DEF Fitting
      <3>5. CASE ~Encodes(answer[c].sources)
        <4>1. NotRenderable(c)'
          BY <1>1, <3>1, <3>5 DEF NotRenderable, vars
        <4> QED
          BY <3>3, <3>5, <4>1 DEF Fitting, IsError, Explained, Rendered
      <3> QED
        BY <3>4, <3>5
    <2>5. raised[c] \in Optional(ErrorReasonCode \cup {Escaped, Refused})
      BY DEF CallsInv, IInv, TypeOK
    <2> QED
      BY <2>1, <2>2, <2>3, <2>4, <2>5 DEF Optional
  <1>5. ListIsKept(c)'
    BY <1>1 DEF HttpIsCoherent, ListIsKept, vars
  <1> QED
    BY <1>1, <1>2, <1>4, <1>5, PathAssumption DEF HttpIsCoherent, vars, Endpoints

\* What is served of an answer, and what of it comes back.
LEMMA AnswerSurvives ==
  ASSUME IInv, NEW c \in Callers, answer[c] # None
  PROVE  /\ answer[c] \in AsOf
         /\ AcceptsAsOf(answer[c])
         /\ JsonDump(answer[c]) \in AsOfDumps
         /\ JsonDump(answer[c]) \in Payloads
         /\ Projection(JsonDump(answer[c]).asof) = answer[c].market_datetime
         /\ JsonDump(answer[c]).asof.sources = answer[c].sources
         /\ answer[c].resolved_at_utc = now_utc[c]
         /\ now_utc[c] \in Instants
         /\ request[c].as_of_utc = None => clock >= now_utc[c]
  <1> DEFINE asof == answer[c]
             dump == JsonDump(asof)
  <1>1. /\ asof \in AsOf /\ AcceptsAsOf(asof)
        /\ asof.resolved_at_utc = now_utc[c]
        /\ now_utc[c] \in Instants
        /\ request[c].as_of_utc = None => clock >= now_utc[c]
    BY AnswerStands DEF Answered
  <1>2. dump \in AsOfDumps
    BY <1>1, DumpIsAsOf DEF AsOfDumps, JsonDump
  <1>3. dump \in Payloads
    BY <1>2, AsOfIsRaw DEF AsOfDumps, Payloads
  <1>4. Projection(dump.asof) = Projection(asof) /\ dump.asof.sources = asof.sources
    BY <1>1 DEF Projection, JsonDump, AsOf
  <1> QED
    BY <1>1, <1>2, <1>3, <1>4, ProjectionsFit

\* POST /asof/snapshot refuses an AsOf, fails over it, or answers with a snapshot.
LEMMA SnapshotResponseIs ==
  ASSUME NEW payload \in Payloads, NEW id \in SnapshotIds, NEW at \in Instants,
         NEW served, served = SnapshotResponse(payload, id, at)
  PROVE  \/ served = ValidationError
         \/ /\ served = ServerError
            /\ \/ Projection(payload.asof) = None
               \/ Projection(payload.asof).odd
               \/ ~Encodes(payload.asof.sources)
               \/ id \in Unencodable
         \/ \E snapshot \in Snapshots : served = Response(200, None, snapshot)
  <1> DEFINE asof == ModelValidate(payload)
             snapshot == MakeSnapshot(PinnedVersion, asof, id, at)
  <1>1. CASE Projection(payload.asof) = None
    BY <1>1 DEF SnapshotResponse
  <1>2. CASE Projection(payload.asof) # None /\ ~AcceptsPayload(payload)
    BY <1>2 DEF SnapshotResponse
  <1>3. CASE Projection(payload.asof) # None /\ AcceptsPayload(payload)
    <2>1. payload.asof \in RawAsOf /\ AcceptsAsOf(payload.asof)
      BY <1>3 DEF AcceptsPayload
    <2>2. /\ asof \in AsOf /\ AcceptsAsOf(asof)
          /\ asof.sources = payload.asof.sources
          /\ Projection(asof) = Projection(payload.asof)
      <3>1. Projection(asof) = Projection(payload.asof)
        BY <2>1 DEF ModelValidate, Validated, Projection, RawAsOf
      <3> QED
        BY <2>1, <3>1, ValidatedType, ValidatedIsAccepted DEF ModelValidate
    <2>3. asof.market_datetime = Projection(payload.asof)
      BY <2>2, ProjectionsFit
    <2>4. id # EmptyId
      BY SnapshotAssumption
    <2>5. SnapshotFailure(asof, id)
            = IF ~Encodes(asof.sources) THEN "encoding"
              ELSE IF asof.market_datetime.odd THEN "round_trip"
              ELSE None
      BY <2>2, <2>4, FailureIs
    <2>6. CASE SnapshotFailure(asof, id) # None \/ id \in Unencodable
      <3>1. served = ServerError
        BY <1>3, <2>6 DEF SnapshotResponse
      <3> QED
        BY <2>2, <2>3, <2>5, <2>6, <3>1
    <2>7. CASE SnapshotFailure(asof, id) = None /\ id \notin Unencodable
      <3>1. served = Response(200, None, DumpSnapshot(snapshot))
        BY <1>3, <2>7 DEF SnapshotResponse
      <3>2. ~asof.market_datetime.odd
        BY <2>5, <2>7, SnapshotAssumption DEF CaptureFailures
      <3>3. snapshot.asof = asof
        BY <2>2, <3>2, RoundTrip DEF MakeSnapshot
      <3>4. JsonDump(asof) \in AsOfDumps
        BY <2>2, DumpIsAsOf DEF AsOfDumps, JsonDump
      <3>5. ContentHash(PinnedVersion, asof)
              \in [snapshot_schema_version   : {PinnedVersion.snapshot_schema_version},
                  semantic_contract_version : {PinnedVersion.semantic_contract_version},
                  asof                      : AsOfDumps]
        BY <3>4 DEF ContentHash, PinnedVersion
      <3>6. DumpSnapshot(snapshot)
              = [snapshot_id     |-> id,
                 version         |-> PinnedVersion,
                 captured_at_utc |-> at,
                 asof            |-> JsonDump(asof),
                 content_hash    |-> ContentHash(PinnedVersion, asof)]
        BY <3>3 DEF DumpSnapshot, MakeSnapshot
      <3> HIDE DEF snapshot, asof
      <3>7. DumpSnapshot(snapshot) \in Snapshots
        BY <3>4, <3>5, <3>6 DEF Snapshots
      <3> QED
        BY <3>1, <3>7
    <2> QED
      BY <2>6, <2>7
  <1> QED
    BY <1>1, <1>2, <1>3

\* Whichever it is, it is a response.
LEMMA SnapshotResponseType ==
  ASSUME NEW payload \in Payloads, NEW id \in SnapshotIds, NEW at \in Instants
  PROVE  SnapshotResponse(payload, id, at) # None
  <1> DEFINE served == SnapshotResponse(payload, id, at)
  <1>1. \/ served = ValidationError
        \/ served = ServerError
        \/ \E snapshot \in Snapshots : served = Response(200, None, snapshot)
    BY SnapshotResponseIs
  <1>2. /\ ValidationError \in Responses
        /\ ServerError \in Responses
        /\ \A snapshot \in Snapshots : Response(200, None, snapshot) \in Responses
    BY DEF ValidationError, ServerError, Response, Responses, Optional, ErrorReasonCode
  <1> QED
    BY <1>1, <1>2, ResponseAssumption

\* An answer that was served can be written in UTF-8.
LEMMA ServedEncodes ==
  ASSUME CallsInv, HttpInv, NEW c \in Callers, PostSnapshot(c)
  PROVE  Encodes(answer[c].sources)
  <1>1. /\ answer[c] # None
        /\ response[c] = Response(200, None, JsonDump(answer[c]))
        /\ answer[c] \in AsOf
    BY AnswerSurvives DEF PostSnapshot, CallsInv
  <1>2. response[c] # None
    <2>1. JsonDump(answer[c]) \in AsOfDumps
      BY <1>1, AnswerSurvives DEF CallsInv
    <2> QED
      BY <1>1, <2>1, ResponseAssumption DEF Responses, Response, Optional
  <1>3. Fitting(c) /\ ListIsKept(c)
    BY <1>2 DEF HttpInv, HttpIsCoherent
  <1>4. ~IsError(c)
    BY <1>1, ErrorIs DEF Response
  <1>5. ~IsListed(c)
    <2>1. turn[c] = None
      BY <1>1, CallsAre, <1>3 DEF ListIsKept
    <2> QED
      BY <2>1, NamesType, SentinelAssumption DEF IsListed
  <1> QED
    BY <1>1, <1>3, <1>4, <1>5 DEF Fitting, IsServed, IsPosted

\* A client posts an AsOf: what it was answered, or one from somewhere else.
LEMMA PostKeeps ==
  ASSUME CallsInv, CallsInv', HttpInv, NEW c \in Callers,
         PostSnapshot(c) \/ PostForeign(c)
  PROVE  HttpIsCoherent(c)'
  <1>1. /\ HttpIsCoherent(c)
        /\ endpoint'[c] = "/asof/snapshot"
        /\ UNCHANGED <<vars, turn, listed>>
        /\ DOMAIN response = Callers
        /\ posted \in [Callers -> Optional(Bodies)]
        /\ clock \in Instants
    BY DEF HttpInv, PostSnapshot, PostForeign, Send, Post, loop, CallsInv, IInv, TypeOK
  <1>2. turn[c] = None
    <2>1. CASE PostSnapshot(c)
      BY <1>1, <2>1, CallsAre DEF PostSnapshot, HttpIsCoherent, ListIsKept
    <2>2. CASE PostForeign(c)
      BY <1>1, <2>2, PathAssumption DEF PostForeign, Send, HttpIsCoherent, ListIsKept,
                                        Endpoints
    <2> QED
      BY <2>1, <2>2
  <1>3. PICK payload \in Payloads :
          /\ Post(c, payload)
          /\ answer[c] # None =>
               /\ payload = JsonDump(answer[c])
               /\ Encodes(answer[c].sources)
               /\ request[c].as_of_utc = None => clock >= now_utc[c]
    <2>1. CASE PostSnapshot(c)
      <3>1. answer[c] # None /\ Post(c, JsonDump(answer[c]))
        BY <2>1 DEF PostSnapshot
      <3> QED
        BY <2>1, <3>1, AnswerSurvives, ServedEncodes DEF CallsInv
    <2>2. CASE PostForeign(c)
      <3>1. answer[c] = None
        BY <1>1, <2>2, CallsAre DEF PostForeign, Send, HttpIsCoherent
      <3>2. PICK asof \in Foreign : Post(c, [asof |-> asof, tuples |-> FALSE])
        BY <2>2 DEF PostForeign
      <3>3. [asof |-> asof, tuples |-> FALSE] \in Payloads
        BY ForeignAssumption DEF Payloads
      <3> QED
        BY <3>1, <3>2, <3>3
    <2> QED
      BY <2>1, <2>2
  <1>4. PICK id \in SnapshotIds :
          /\ posted' = [posted EXCEPT ![c] =
                          [fault |-> None, payload |-> payload, snapshot_id |-> id]]
          /\ Respond(c, SnapshotResponse(payload, id, clock))
    BY <1>3, Zenon DEF Post
  <1>5. response'[c] = SnapshotResponse(payload, id, clock)
    BY <1>1, <1>4 DEF Respond
  <1>6. /\ posted'[c] \in Bodies
        /\ posted'[c].payload = payload
        /\ posted'[c].snapshot_id = id
    BY <1>1, <1>4 DEF Bodies, Optional
  <1>7. IsPosted(c)'
    <2>1. posted'[c] # None
      BY <1>6, BodyAssumption
    <2> QED
      BY <1>1, <1>3, <1>5, <1>6, <2>1 DEF IsPosted, vars, arguments
  <1>8. response'[c] # None
    BY <1>1, <1>5, SnapshotResponseType
  <1>9. ListIsKept(c)'
    BY <1>1, <1>2 DEF HttpIsCoherent, ListIsKept
  <1>10. pc'[c] \in {"idle", "done"}
    <2>1. CASE PostSnapshot(c)
      BY <1>1, <2>1, CallsAre DEF PostSnapshot, vars
    <2>2. CASE PostForeign(c)
      BY <1>1, <2>2 DEF PostForeign, Send, HttpIsCoherent, vars
    <2> QED
      BY <2>1, <2>2
  <1> QED
    BY <1>1, <1>6, <1>7, <1>8, <1>9, <1>10, PathAssumption
       DEF HttpIsCoherent, Fitting, Endpoints, Optional

\* Nothing is left of a request.
LEMMA ReceiveKeeps ==
  ASSUME CallsInv, CallsInv', HttpInv, NEW c \in Callers, Receive(c)
  PROVE  HttpIsCoherent(c)'
  <1>1. /\ endpoint'[c] = None /\ response'[c] = None
        /\ posted'[c] = None /\ turn'[c] = None /\ listed'[c] = EmptyMap
    BY DEF HttpInv, Receive
  <1>2. pc'[c] = "idle"
    BY DEF Receive, Return, CallsInv, IInv, TypeOK, vars
  <1>3. ListIsKept(c)'
    BY <1>1, EmptyMapType DEF ListIsKept, Optional
  <1> QED
    BY <1>1, <1>2, <1>3, PathAssumption DEF HttpIsCoherent, Endpoints, Optional


-----------------------------------------------------------------------------
(* The invariant of the HTTP surface *)

\* One client's step keeps the invariant, once that client stays coherent.
LEMMA OneClientMoves ==
  ASSUME CallsInv, HttpInv, NEW c \in Callers, HttpIsCoherent(c)',
         Moves(c)
  PROVE  HttpInv'
  <1>1. /\ endpoint \in [Callers -> Optional(Endpoints)]
        /\ DOMAIN response = Callers /\ response = [d \in Callers |-> response[d]]
        /\ posted \in [Callers -> Optional(Bodies)]
        /\ turn \in [Callers -> Optional(0 .. Len(Names))]
        /\ listed \in [Callers -> SourceMap]
    BY DEF HttpInv
  <1>2. /\ endpoint'[c] \in Optional(Endpoints)
        /\ posted'[c] \in Optional(Bodies)
        /\ turn'[c] \in Optional(0 .. Len(Names))
        /\ listed'[c] \in SourceMap
    BY DEF HttpIsCoherent, ListIsKept
  <1>3. /\ endpoint' = endpoint \/ \E to : endpoint' = [endpoint EXCEPT ![c] = to]
        /\ response' = response \/ \E to : response' = [response EXCEPT ![c] = to]
        /\ posted' = posted \/ \E to : posted' = [posted EXCEPT ![c] = to]
        /\ turn' = turn \/ \E to : turn' = [turn EXCEPT ![c] = to]
        /\ listed' = listed \/ \E to : listed' = [listed EXCEPT ![c] = to]
    <2>1. CASE GetCurrent(c) \/ PostResolve(c) \/ PostReport(c) \/ GetSourcesStatus(c)
      BY <2>1 DEF GetCurrent, PostResolve, PostReport, GetSourcesStatus, Send, Respond,
                  loop
    <2>2. CASE Resolving(c)
      BY <2>2 DEF Resolving, http, loop
    <2>3. CASE List(c)
      BY <2>3 DEF List, Enlist, Respond, loop
    <2>4. CASE Complete(c) \/ Receive(c)
      BY <2>4 DEF Complete, Receive, Respond, loop
    <2>5. CASE PostMalformed(c) \/ PostSnapshot(c) \/ PostForeign(c)
      <3>1. \E to : endpoint' = [endpoint EXCEPT ![c] = to]
        BY <2>5, Zenon DEF PostMalformed, PostSnapshot, PostForeign, Send
      <3>2. \E to : response' = [response EXCEPT ![c] = to]
        BY <2>5, Zenon DEF PostMalformed, PostSnapshot, PostForeign, Post, Respond
      <3>3. \E to : posted' = [posted EXCEPT ![c] = to]
        BY <2>5, Zenon DEF PostMalformed, PostSnapshot, PostForeign, Post
      <3>4. UNCHANGED loop
        BY <2>5, Zenon DEF PostMalformed, PostSnapshot, PostForeign, Post
      <3> QED
        BY <3>1, <3>2, <3>3, <3>4 DEF loop
    <2> QED
      BY <2>1, <2>2, <2>3, <2>4, <2>5 DEF Moves, Serve
  <1>4. /\ endpoint' \in [Callers -> Optional(Endpoints)]
        /\ DOMAIN response' = Callers /\ response' = [d \in Callers |-> response'[d]]
        /\ posted' \in [Callers -> Optional(Bodies)]
        /\ turn' \in [Callers -> Optional(0 .. Len(Names))]
        /\ listed' \in [Callers -> SourceMap]
    BY <1>1, <1>2, <1>3
  <1>5. \A d \in Callers \ {c} : HttpIsCoherent(d)'
    BY OthersAreStill, StillCoherent DEF HttpInv, CallsInv
  <1> QED
    BY <1>4, <1>5 DEF HttpInv

LEMMA InitHttpInv == ApiInit => HttpInv
  <1> SUFFICES ASSUME ApiInit PROVE HttpInv
    OBVIOUS
  <1>1. ASSUME NEW c \in Callers
        PROVE  HttpIsCoherent(c)
    BY EmptyMapType, PathAssumption
       DEF ApiInit, Init, HttpIsCoherent, ListIsKept, Optional, Endpoints
  <1> QED
    BY <1>1, EmptyMapType DEF ApiInit, HttpInv, Optional

LEMMA NextHttpInv == CallsInv /\ CallsInv' /\ HttpInv /\ [ApiNext]_apiVars => HttpInv'
  <1> SUFFICES ASSUME CallsInv, CallsInv', HttpInv, [ApiNext]_apiVars
               PROVE  HttpInv'
    OBVIOUS
  <1>1. CASE (Tick \/ \E i \in Positions : WriteFile(i)) /\ UNCHANGED http
    <2>1. \A c \in Callers : Still(c)
      BY <1>1 DEF Tick, WriteFile, http, loop, Still
    <2>2. UNCHANGED <<endpoint, response, posted, turn, listed>>
      BY <1>1 DEF http, loop
    <2> QED
      BY <2>1, <2>2, StillCoherent DEF HttpInv
  <1>2. CASE UNCHANGED apiVars
    <2>1. \A c \in Callers : Still(c)
      BY <1>2 DEF apiVars, vars, http, loop, Still
    <2>2. UNCHANGED <<endpoint, response, posted, turn, listed>>
      BY <1>2 DEF apiVars, http, loop
    <2> QED
      BY <2>1, <2>2, StillCoherent DEF HttpInv
  <1>3. ASSUME NEW c \in Callers,
               Moves(c)
        PROVE  HttpInv'
    <2>1. HttpIsCoherent(c)'
      BY <1>3, CallKeeps, AnsweredAtOnce, ResolvingKeeps, ListKeeps, CompleteKeeps,
         PostKeeps, ReceiveKeeps DEF Moves, Serve
    <2> QED
      BY <1>3, <2>1, OneClientMoves
  <1> QED
    BY <1>1, <1>2, <1>3 DEF ApiNext, Moves

LEMMA SpecHttpInv == ApiSpec => [](CallsInv /\ HttpInv)
  BY SpecCallsInv, InitHttpInv, NextHttpInv, PTL DEF ApiSpec

-----------------------------------------------------------------------------
(* What the responses say *)

\* Every response is of its endpoint: a list of statuses, an AsOf, a snapshot, or
\* an error without a body (api.py 102-223).
THEOREM ApiTypeCorrect == ApiSpec => []ApiTypeOK
  <1>1. ASSUME CallsInv, HttpInv, NEW c \in Callers, response[c] # None
        PROVE  \/ /\ response[c].status_code = 200
                  /\ response[c].reason_code = None
                  /\ response[c].body \in ResponseBodies(endpoint[c])
               \/ /\ response[c].status_code \in {400, 409, 422, 500, 501}
                  /\ response[c].reason_code \in Optional(ErrorReasonCode)
                  /\ response[c].body = None
    <2>1. Fitting(c) /\ listed[c] \in SourceMap
      BY <1>1 DEF HttpInv, HttpIsCoherent, ListIsKept
    <2>2. CASE IsError(c)
      BY <2>2, ErrorIs
    <2>3. CASE IsServed(c)
      <3>1. JsonDump(answer[c]) \in AsOfDumps
        BY <1>1, <2>3, AnswerSurvives DEF IsServed, CallsInv
      <3> QED
        BY <2>3, <3>1 DEF IsServed, Response, ResponseBodies
    <2>4. CASE IsListed(c)
      BY <2>1, <2>4 DEF IsListed, Response, ResponseBodies
    <2>5. CASE IsPosted(c)
      <3>1. PICK at \in Instants :
              response[c] = SnapshotResponse(posted[c].payload, posted[c].snapshot_id, at)
        BY <2>5 DEF IsPosted
      <3>2. \/ response[c] = ValidationError
            \/ response[c] = ServerError
            \/ \E snapshot \in Snapshots : response[c] = Response(200, None, snapshot)
        BY <2>5, <3>1, SnapshotResponseIs DEF IsPosted
      <3>3. CASE response[c] = ValidationError \/ response[c] = ServerError
        BY <3>3 DEF ValidationError, ServerError, Response, ErrorReasonCode, Optional
      <3>4. ASSUME NEW snapshot \in Snapshots, response[c] = Response(200, None, snapshot)
            PROVE  /\ response[c].status_code = 200
                   /\ response[c].reason_code = None
                   /\ response[c].body \in ResponseBodies(endpoint[c])
        BY <2>5, <3>4 DEF IsPosted, Response, ResponseBodies
      <3> QED
        BY <3>2, <3>3, <3>4
    <2> QED
      BY <2>1, <2>2, <2>3, <2>4, <2>5 DEF Fitting
  <1>2. CallsInv /\ HttpInv => ApiTypeOK
    BY <1>1 DEF ApiTypeOK, CallsInv, IInv, HttpInv
  <1> QED
    BY <1>2, SpecHttpInv, PTL

\* A server error means that GET /asof/current was asked something invalid, that a
\* listed provider let an exception through, that one left resolve() for a known
\* reason, that an AsOf was posted whose instant has no local time or one in local
\* mean time, or that there was something that cannot be rendered
\* (api.py 102-144, 186-199, 221-223).
THEOREM ServerErrorsExplained == ApiSpec => []ServerErrorsAreExplained
  <1>1. ASSUME CallsInv, HttpInv, NEW c \in Callers, response[c] = ServerError
        PROVE  Explained(c)
    <2>1. response[c] # None
      BY <1>1, ResponseAssumption DEF Responses, ServerError, Response, Optional
    <2>2. Fitting(c)
      BY <1>1, <2>1 DEF HttpInv, HttpIsCoherent
    <2>3. ASSUME NEW body, NEW reason, NEW code \in {200, 400, 409, 422, 501},
                 response[c] = Response(code, reason, body)
          PROVE  FALSE
      BY <1>1, <2>3 DEF ServerError, Response
    <2>4. CASE IsError(c)
      BY <2>3, <2>4 DEF IsError, ValidationError
    <2>5. CASE IsServed(c) \/ IsListed(c)
      BY <2>3, <2>5 DEF IsServed, IsListed
    <2>6. CASE IsPosted(c)
      <3> DEFINE payload == posted[c].payload
                 id == posted[c].snapshot_id
      <3>1. PICK at \in Instants : response[c] = SnapshotResponse(payload, id, at)
        BY <2>6 DEF IsPosted
      <3>2. payload \in Payloads /\ payload # None /\ id \in SnapshotIds /\ posted[c] # None
        BY <2>6, BodyAssumption DEF IsPosted
      <3>3. response[c] # ValidationError
        BY <2>3 DEF ValidationError
      <3>4. \/ Projection(payload.asof) = None
            \/ Projection(payload.asof).odd
            \/ ~Encodes(payload.asof.sources)
            \/ id \in Unencodable
        BY <2>3, <3>1, <3>2, <3>3, SnapshotResponseIs
      <3> QED
        BY <2>6, <3>2, <3>4 DEF Explained, NotRenderable, IsPosted
    <2> QED
      BY <2>2, <2>4, <2>5, <2>6 DEF Fitting
  <1>2. CallsInv /\ HttpInv => ServerErrorsAreExplained
    BY <1>1 DEF ServerErrorsAreExplained, Explained
  <1> QED
    BY <1>2, SpecHttpInv, PTL

\* What was served can be posted back and snapshotted as it is, but an answer in local
\* mean time is refused, and an identifier may be impossible to render (api.py 221-223,
\* snapshot.py 66-85, models.py 281-285).
THEOREM ServedSnapshotted == ApiSpec => []ServedCanBeSnapshotted
  <1>1. ASSUME CallsInv, HttpInv, NEW c \in Callers,
               endpoint[c] = "/asof/snapshot", answer[c] # None
        PROVE  IF answer[c].market_datetime.odd THEN response[c] = ValidationError
               ELSE posted[c].snapshot_id \notin Unencodable =>
                      /\ response[c].status_code = 200
                      /\ response[c].body.asof = JsonDump(answer[c])
                      /\ response[c].body.content_hash
                           = ContentHash(PinnedVersion, answer[c])
                      /\ request[c].as_of_utc = None =>
                           response[c].body.captured_at_utc >= answer[c].resolved_at_utc
    <2> DEFINE asof == answer[c]
               payload == JsonDump(asof)
               id == posted[c].snapshot_id
    <2>1. IsPosted(c)
      BY <1>1 DEF HttpInv, HttpIsCoherent
    <2>2. PICK at \in Instants :
            /\ response[c] = SnapshotResponse(payload, id, at)
            /\ Encodes(asof.sources)
            /\ id \in SnapshotIds
            /\ request[c].as_of_utc = None => at >= now_utc[c]
      BY <1>1, <2>1 DEF IsPosted
    <2>3. /\ asof \in AsOf /\ AcceptsAsOf(asof)
          /\ Projection(payload.asof) = asof.market_datetime
          /\ payload.asof.sources = asof.sources
          /\ asof.resolved_at_utc = now_utc[c]
      BY <1>1, AnswerSurvives DEF CallsInv
    <2>4. asof.market_datetime # None
      BY <2>3, ProjectionsFit
    <2>5. CASE asof.market_datetime.odd
      <3>1. ~AcceptsPayload(payload)
        BY <2>3, <2>5, RoundTrip
      <3> QED
        BY <2>2, <2>3, <2>4, <2>5, <3>1 DEF SnapshotResponse
    <2>6. CASE ~asof.market_datetime.odd /\ id \notin Unencodable
      <3>1. AcceptsPayload(payload) /\ ModelValidate(payload) = asof
        BY <2>3, <2>6, RoundTrip
      <3>2. SnapshotFailure(asof, id) = None
        BY <2>2, <2>3, <2>6, FailureIs, SnapshotAssumption
      <3>3. response[c]
              = Response(200, None, DumpSnapshot(MakeSnapshot(PinnedVersion, asof, id, at)))
        BY <2>2, <2>3, <2>4, <2>6, <3>1, <3>2 DEF SnapshotResponse
      <3> QED
        BY <2>2, <2>3, <2>6, <3>1, <3>3 DEF Response, MakeSnapshot, DumpSnapshot
    <2> QED
      BY <2>5, <2>6
  <1>2. CallsInv /\ HttpInv => ServedCanBeSnapshotted
    BY <1>1 DEF ServedCanBeSnapshotted
  <1> QED
    BY <1>2, SpecHttpInv, PTL

\* The two loops over the providers agree on providers of one name, and what is
\* listed or answered is complete (api.py 159-199, resolver.py 135-155).
THEOREM ListsWhole == ApiSpec => []ListsAreWhole
  <1>1. ASSUME CallsInv, HttpInv, NEW c \in Callers, response[c] # None,
               endpoint[c] # "/asof/snapshot"
        PROVE  /\ response[c].reason_code = "DUPLICATE_PROVIDER_NAME" => DuplicateNamed
               /\ response[c].status_code = 200 =>
                    /\ ~DuplicateNamed
                    /\ Keys(IF endpoint[c] = "/sources/status" THEN response[c].body
                                                               ELSE collected[c])
                         = {Names[i] : i \in Positions}
    <2>1. Fitting(c) /\ ListIsKept(c)
      BY <1>1 DEF HttpInv, HttpIsCoherent
    <2>2. ASSUME answer[c] # None
          PROVE  ~DuplicateNamed /\ Keys(collected[c]) = {Names[i] : i \in Positions}
      <3>1. asked[c] = Len(Names) /\ ReadsAreKept(c)
        BY <1>1, <2>2 DEF CallsInv, IInv, CallsAreCoherent, CallIsCoherent, Concluded
      <3> QED
        BY <3>1 DEF ReadsAreKept, DuplicateNamed, Positions
    <2>3. None # "DUPLICATE_PROVIDER_NAME"
      BY NoneIsNoReason
    <2>4. CASE IsError(c)
      BY <2>4, ErrorIs
    <2>5. CASE IsServed(c)
      BY <2>2, <2>3, <2>5 DEF IsServed, Response
    <2>6. CASE IsListed(c)
      <3>1. turn[c] # None
        BY <2>6, NamesType, SentinelAssumption DEF IsListed
      <3> QED
        BY <2>1, <2>3, <2>6, <3>1 DEF IsListed, ListIsKept, Response, Positions
    <2> QED
      BY <1>1, <2>1, <2>4, <2>5, <2>6 DEF Fitting, IsPosted
  <1>2. CallsInv /\ HttpInv => ListsAreWhole
    BY <1>1 DEF ListsAreWhole
  <1> QED
    BY <1>2, SpecHttpInv, PTL

-----------------------------------------------------------------------------
(***************************************************************************)
(* Handlers run out of steps.  The invariant says that a request without a *)
(* response is in somebody's hands.                                        *)
(***************************************************************************)

AtWork(c) ==
  endpoint[c] # None /\ response[c] = None => pc[c] # "idle" \/ turn[c] # None

Attended == \A c \in Callers : AtWork(c)

\* What is answered is no longer without a response.
LEMMA ResponsesAreResponses ==
  ASSUME CallsInv, HttpInv, NEW c \in Callers
  PROVE  /\ PostMalformed(c) \/ PostReport(c) => response'[c] # None
         /\ GetSourcesStatus(c) => response'[c] # None \/ turn'[c] = 0
         /\ List(c) => \/ response'[c] # None
                       \/ turn'[c] = turn[c] + 1 /\ response'[c] = response[c]
         /\ Complete(c) => response'[c] # None
         /\ PostForeign(c) => response'[c] # None
  <1>1. DOMAIN response = Callers /\ turn \in [Callers -> Optional(0 .. Len(Names))]
    BY DEF HttpInv
  <1>2. ASSUME NEW code \in {400, 409, 422, 500, 501},
               NEW reason \in Optional(ErrorReasonCode)
        PROVE  Response(code, reason, None) # None
    BY ResponseAssumption DEF Responses, Response, Optional
  <1>3. /\ ValidationError # None /\ ServerError # None
        /\ Response(501, "NOT_IMPLEMENTED", None) # None
        /\ Response(409, "DUPLICATE_PROVIDER_NAME", None) # None
        /\ Response(400, None, None) # None
    BY <1>2 DEF ValidationError, ServerError, ErrorReasonCode, Optional
  <1>4. PostMalformed(c) \/ PostReport(c) => response'[c] # None
    <2>1. PostReport(c) => response'[c] # None
      BY <1>1, <1>3 DEF PostReport, Respond
    <2>2. ASSUME PostMalformed(c)
          PROVE  response'[c] # None
      <3>1. PICK fault \in BodyFaults :
              Respond(c, CASE fault = "unreadable" -> Response(400, None, None)
                           [] fault = "invalid" -> ValidationError
                           [] fault = "unrenderable" -> ServerError)
        BY <2>2, Zenon DEF PostMalformed
      <3> QED
        BY <1>1, <1>3, <3>1 DEF Respond, BodyFaults
    <2> QED
      BY <2>1, <2>2
  <1>5. GetSourcesStatus(c) => response'[c] # None \/ turn'[c] = 0
    BY <1>1, <1>3 DEF GetSourcesStatus, Respond
  <1>6. List(c) => \/ response'[c] # None
                   \/ turn'[c] = turn[c] + 1 /\ response'[c] = response[c]
    <2> SUFFICES ASSUME List(c)
                 PROVE  \/ response'[c] # None
                        \/ turn'[c] = turn[c] + 1 /\ response'[c] = response[c]
      OBVIOUS
    <2>1. listed[c] \in SourceMap
      BY DEF HttpInv, HttpIsCoherent, ListIsKept
    <2>2. Rendered(listed[c], listed[c]) # None
      BY <1>3, <2>1, ResponseAssumption DEF Rendered, Responses, Response, Optional
    <2> QED
      BY <1>1, <1>3, <2>2 DEF List, Respond, Enlist
  <1>7. Complete(c) => response'[c] # None
    <2> SUFFICES ASSUME Complete(c)
                 PROVE  response'[c] # None
      OBVIOUS
    <2>1. response'[c] = Outcome(c)
      BY <1>1 DEF Complete, Respond
    <2>2. raised[c] \in Optional(ErrorReasonCode \cup {Escaped, Refused})
      BY DEF CallsInv, IInv, TypeOK
    <2>3. raised[c] = None => Rendered(JsonDump(answer[c]), answer[c].sources) # None
      <3>1. raised[c] = None => JsonDump(answer[c]) \in AsOfDumps
        BY CallsAre, AnswerSurvives DEF EndIsKnown, CallsInv, Complete
      <3> QED
        BY <1>3, <3>1, ResponseAssumption DEF Rendered, Responses, Response, Optional
    <2>4. raised[c] \in ErrorReasonCode => Response(400, raised[c], None) # None
      BY <1>2 DEF Optional
    <2> QED
      BY <1>3, <2>1, <2>2, <2>3, <2>4 DEF Outcome, RefusalOf, Optional
  <1>8. PostForeign(c) => response'[c] # None
    <2> SUFFICES ASSUME PostForeign(c)
                 PROVE  response'[c] # None
      OBVIOUS
    <2>1. PICK asof \in Foreign : Post(c, [asof |-> asof, tuples |-> FALSE])
      BY DEF PostForeign
    <2>2. PICK id \in SnapshotIds :
            Respond(c, SnapshotResponse([asof |-> asof, tuples |-> FALSE], id, clock))
      BY <2>1, Zenon DEF Post
    <2>3. [asof |-> asof, tuples |-> FALSE] \in Payloads /\ clock \in Instants
      BY ForeignAssumption DEF Payloads, CallsInv, IInv, TypeOK
    <2> QED
      BY <1>1, <2>2, <2>3, SnapshotResponseType DEF Respond
  <1> QED
    BY <1>4, <1>5, <1>6, <1>7, <1>8

\* A client that awaits its response sends nothing.
LEMMA AwaitingIsWaiting ==
  ASSUME CallsInv, HttpInv, NEW c \in Callers, endpoint[c] # None, response[c] = None,
         Moves(c)
  PROVE  Serve(c)
  <1>1. ~(GetCurrent(c) \/ PostResolve(c) \/ PostMalformed(c) \/ PostReport(c)
            \/ GetSourcesStatus(c) \/ PostForeign(c) \/ Receive(c))
    BY DEF GetCurrent, PostResolve, PostMalformed, PostReport, GetSourcesStatus,
           PostForeign, Receive, Send
  <1>2. ~PostSnapshot(c)
    <2> SUFFICES ASSUME PostSnapshot(c)
                 PROVE  FALSE
      OBVIOUS
    <2>1. JsonDump(answer[c]) \in AsOfDumps
      BY AnswerSurvives DEF PostSnapshot, CallsInv
    <2>2. Response(200, None, JsonDump(answer[c])) # None
      BY <2>1, ResponseAssumption DEF Responses, Response, Optional
    <2> QED
      BY <2>2 DEF PostSnapshot
  <1> QED
    BY <1>1, <1>2 DEF Moves

\* A handler of the HTTP surface that is at work has a bounded number of steps left.
LEMMA StepsLeftBounds ==
  ASSUME CallsInv, HttpInv, NEW c \in Callers, AtWork(c),
         endpoint[c] # None, response[c] = None
  PROVE  StepsLeft(c) \in 1 .. Len(Names) + 3
  <1>1. /\ Len(Names) \in Nat
        /\ pc[c] \in {"idle", "accepted", "reporting", "done"}
        /\ asked[c] \in 0 .. Len(Names)
        /\ turn[c] \in Optional(0 .. Len(Names))
    BY NamesType, CallsAre DEF CallsInv, IInv, TypeOK, HttpInv
  <1>2. CASE turn[c] # None
    BY <1>1, <1>2 DEF StepsLeft, Optional
  <1>3. CASE turn[c] = None
    <2>1. pc[c] # "idle"
      BY <1>3 DEF AtWork
    <2> QED
      BY <1>1, <1>3, <2>1 DEF StepsLeft
  <1> QED
    BY <1>2, <1>3

\* Each step of its own brings a handler closer to its response.
LEMMA WorkBringsCloser ==
  ASSUME CallsInv, HttpInv, NEW c \in Callers, response[c] = None, Serve(c)
  PROVE  /\ response'[c] # None \/ StepsLeft(c)' < StepsLeft(c)
         /\ AtWork(c)'
  <1>1. /\ Len(Names) \in Nat
        /\ pc \in [Callers -> {"idle", "accepted", "reporting", "done"}]
        /\ asked \in [Callers -> 0 .. Len(Names)]
        /\ turn[c] \in Optional(0 .. Len(Names))
        /\ turn[c] # None => pc[c] = "idle"
    BY NamesType DEF CallsInv, IInv, TypeOK, HttpInv, HttpIsCoherent, ListIsKept
  <1>2. CASE Resolving(c)
    <2>1. pc[c] \in {"accepted", "reporting"}
      BY <1>2 DEF Resolving, Begin, Report, Finish
    <2>2. turn[c] = None /\ turn'[c] = None /\ response'[c] = None
      BY <1>1, <1>2, <2>1 DEF Resolving, http, loop
    <2>3. \/ pc[c] = "accepted" /\ pc'[c] = "reporting" /\ asked'[c] = asked[c]
          \/ pc'[c] = "done"
          \/ /\ pc[c] = "reporting" /\ pc'[c] = "reporting"
             /\ asked[c] < Len(Names) /\ asked'[c] = asked[c] + 1
      <3>1. CASE Begin(c)
        BY <1>1, <3>1 DEF Begin, Fail
      <3>2. CASE Report(c)
        BY <1>1, <3>2 DEF Report, Fail
      <3>3. CASE Finish(c)
        BY <1>1, <3>3 DEF Finish
      <3> QED
        BY <1>2, <3>1, <3>2, <3>3 DEF Resolving
    <2>4. asked[c] \in 0 .. Len(Names)
      BY <1>1
    <2> QED
      BY <1>1, <2>1, <2>2, <2>3, <2>4 DEF StepsLeft, AtWork
  <1>3. CASE List(c)
    <2>1. turn[c] # None /\ turn[c] \in 0 .. Len(Names)
      BY <1>1, <1>3 DEF List, Listing, Optional
    <2>2. CASE response'[c] # None
      BY <2>2 DEF AtWork
    <2>3. CASE turn'[c] = turn[c] + 1
      <3>1. turn'[c] # None
        BY <2>1, <2>3, SentinelAssumption
      <3>2. AtWork(c)'
        BY <3>1 DEF AtWork
      <3>3. /\ StepsLeft(c) = Len(Names) - turn[c] + 1
            /\ StepsLeft(c)' = Len(Names) - turn'[c] + 1
        BY <2>1, <3>1 DEF StepsLeft
      <3> QED
        BY <1>1, <2>1, <2>3, <3>2, <3>3
    <2> QED
      BY <1>3, <2>2, <2>3, ResponsesAreResponses
  <1>4. CASE Complete(c)
    BY <1>4, ResponsesAreResponses DEF AtWork
  <1> QED
    BY <1>2, <1>3, <1>4 DEF Serve

\* The client that moves has a handler at work, or its response.
LEMMA MovingIsAttended ==
  ASSUME CallsInv, HttpInv, NEW c \in Callers, AtWork(c),
         Moves(c)
  PROVE  AtWork(c)'
  <1>1. CASE GetCurrent(c) \/ PostResolve(c)
    <2>1. pc \in [Callers -> {"idle", "accepted", "reporting", "done"}]
      BY DEF CallsInv, IInv, TypeOK
    <2>2. pc'[c] # "idle"
      BY <1>1, <2>1 DEF GetCurrent, PostResolve, Submit, Fail
    <2> QED
      BY <2>2 DEF AtWork
  <1>2. CASE PostMalformed(c) \/ PostReport(c) \/ PostForeign(c)
    BY <1>2, ResponsesAreResponses DEF AtWork
  <1>3. CASE GetSourcesStatus(c)
    <2>1. response'[c] # None \/ turn'[c] = 0
      BY <1>3, ResponsesAreResponses
    <2> QED
      BY <2>1, SentinelAssumption DEF AtWork
  <1>4. CASE Serve(c)
    <2>1. CASE response[c] = None
      BY <1>4, <2>1, WorkBringsCloser
    <2>2. CASE response[c] # None
      <3>1. pc[c] \in {"idle", "done"}
        BY <2>2 DEF HttpInv, HttpIsCoherent
      <3> QED
        BY <1>4, <2>2, <3>1 DEF Serve, Resolving, Begin, Report, Finish, List, Listing,
                                Complete
    <2> QED
      BY <2>1, <2>2
  <1>5. CASE PostSnapshot(c)
    <2>1. pc[c] = "done" /\ pc' = pc
      BY <1>5, CallsAre DEF PostSnapshot, Post, vars
    <2> QED
      BY <2>1 DEF AtWork
  <1>6. CASE Receive(c)
    BY <1>6 DEF Receive, HttpInv, AtWork
  <1> QED
    BY <1>1, <1>2, <1>3, <1>4, <1>5, <1>6 DEF Moves

LEMMA NextAttended ==
  CallsInv /\ HttpInv /\ Attended /\ [ApiNext]_apiVars => Attended'
  <1> SUFFICES ASSUME CallsInv, HttpInv, Attended, [ApiNext]_apiVars, NEW d \in Callers
               PROVE  AtWork(d)'
    BY DEF Attended
  <1>1. AtWork(d) /\ Still(d) => AtWork(d)'
    BY DEF AtWork, Still
  <1>2. CASE \/ (Tick \/ \E i \in Positions : WriteFile(i)) /\ UNCHANGED http
             \/ UNCHANGED apiVars
    <2>1. Still(d)
      BY <1>2 DEF Tick, WriteFile, apiVars, vars, http, loop, Still
    <2> QED
      BY <1>1, <2>1 DEF Attended
  <1>3. ASSUME NEW c \in Callers,
               Moves(c)
        PROVE  AtWork(d)'
    <2>1. CASE d = c
      BY <1>3, <2>1, MovingIsAttended DEF Attended
    <2>2. CASE d # c
      BY <1>1, <1>3, <2>2, OthersAreStill DEF Attended, CallsInv
    <2> QED
      BY <2>1, <2>2
  <1> QED
    BY <1>2, <1>3 DEF ApiNext, Moves

\* A request that awaits its response is always being worked on, by a handler with a
\* bounded number of steps left; its own steps make them fewer and those of others
\* leave it as it is (api.py 133-199, resolver.py 110-155).
THEOREM HandlersFinish == ApiSpec => HandlersRunOut
  <1> DEFINE Step(c) ==
        endpoint[c] # None /\ response[c] = None =>
          /\ StepsLeft(c) \in 1 .. Len(Names) + 3
          /\ response'[c] # None \/ StepsLeft(c)' < StepsLeft(c) \/ Rests(c)
  <1>1. ApiInit => Attended
    BY DEF ApiInit, Attended, AtWork
  <1>2. ApiSpec => [](CallsInv /\ HttpInv /\ Attended)
    BY <1>1, SpecHttpInv, NextAttended, PTL DEF ApiSpec
  <1>3. CallsInv /\ HttpInv /\ Attended /\ [ApiNext]_apiVars
          => [\A c \in Callers : Step(c)]_apiVars
    <2> SUFFICES ASSUME CallsInv, HttpInv, Attended, ApiNext, NEW d \in Callers,
                        endpoint[d] # None, response[d] = None
                 PROVE  /\ StepsLeft(d) \in 1 .. Len(Names) + 3
                        /\ \/ response'[d] # None
                           \/ StepsLeft(d)' < StepsLeft(d)
                           \/ Rests(d)
      OBVIOUS
    <2>1. StepsLeft(d) \in 1 .. Len(Names) + 3
      BY StepsLeftBounds DEF Attended
    <2>2. CASE (Tick \/ \E i \in Positions : WriteFile(i)) /\ UNCHANGED http
      BY <2>1, <2>2 DEF Tick, WriteFile, http, loop, Rests
    <2>3. ASSUME NEW c \in Callers,
                 Moves(c)
          PROVE  response'[d] # None \/ StepsLeft(d)' < StepsLeft(d) \/ Rests(d)
      <3>1. CASE d = c
        BY <2>3, <3>1, AwaitingIsWaiting, WorkBringsCloser
      <3>2. CASE d # c
        <4>1. Still(d)
          BY <2>3, <3>2, OthersAreStill DEF CallsInv
        <4> QED
          BY <4>1 DEF Still, Rests
      <3> QED
        BY <3>1, <3>2
    <2> QED
      BY <2>1, <2>2, <2>3 DEF ApiNext, Moves
  <1> QED
    BY <1>2, <1>3, PTL DEF ApiSpec, HandlersRunOut

-----------------------------------------------------------------------------
(* What is served *)

\* An AsOf that is served is the answer of the call behind it as JSON, and has all that is
\* proved of such answers, whatever other endpoints are used meanwhile: nothing
\* between resolve() and the response adds to it or takes from it (api.py 133-157).
THEOREM ServedAnswersAreResolved ==
  ApiSpec =>
    [](/\ \A c \in Callers :
            /\ endpoint[c] \in {"/asof/current", "/asof/resolve"}
            /\ response[c] # None
            /\ response[c].status_code = 200
            => response[c].body = JsonDump(answer[c]) /\ c \in Answered
       /\ OneStatusPerProvider
       /\ CanonicalIsProven
       /\ NoFutureKnowledge
       /\ UsableIsYoungEnough
       /\ RequiredSourcesShow
       /\ DowngradesAreJustified
       /\ ProviderLayerRecoverable
       /\ ProofIsAccepted
       /\ OneMarketDay)
  <1> DEFINE Served ==
        \A c \in Callers :
          /\ endpoint[c] \in {"/asof/current", "/asof/resolve"}
          /\ response[c] # None
          /\ response[c].status_code = 200
          => response[c].body = JsonDump(answer[c]) /\ c \in Answered
  <1>1. CallsInv /\ HttpInv => Served
    <2> SUFFICES ASSUME CallsInv, HttpInv, NEW c \in Callers,
                        endpoint[c] \in {"/asof/current", "/asof/resolve"},
                        response[c] # None,
                        response[c].status_code = 200
                 PROVE  response[c].body = JsonDump(answer[c]) /\ answer[c] # None
      BY DEF Answered
    <2>1. Fitting(c)
      BY DEF HttpInv, HttpIsCoherent
    <2>2. ASSUME NEW code \in {400, 409, 422, 500, 501}, NEW reason,
                 response[c] = Response(code, reason, None)
          PROVE  FALSE
      BY <2>2 DEF Response
    <2>3. endpoint[c] # "/asof/snapshot" /\ endpoint[c] # "/sources/status"
      OBVIOUS
    <2>4. ~IsError(c)
      BY <2>2 DEF IsError, ValidationError, ServerError
    <2>5. IsServed(c)
      BY <2>1, <2>3, <2>4 DEF Fitting, IsListed, IsPosted
    <2> QED
      BY <2>5 DEF IsServed, Response
  <1>2. Spec => [](/\ OneStatusPerProvider
                   /\ CanonicalIsProven
                   /\ NoFutureKnowledge
                   /\ UsableIsYoungEnough
                   /\ RequiredSourcesShow
                   /\ DowngradesAreJustified
                   /\ ProviderLayerRecoverable
                   /\ ProofIsAccepted
                   /\ OneMarketDay)
    BY OneStatus, CanonicalProven, NoFuture, YoungEnough, RequiredShow, Justified,
       Recoverable, ProofAccepted, OneDay, PTL
  <1> QED
    BY <1>1, <1>2, SpecHttpInv, CallsOfHandlers, PTL DEF HandlersAreCalls
=============================================================================
