-------------------------------- MODULE Api --------------------------------
(***************************************************************************)
(* The HTTP surface (api.py): clients send requests to the endpoints of    *)
(* one application, whose handlers run in a pool of threads against one    *)
(* list of providers.  A handler that calls resolve() takes the steps of   *)
(* Resolver; the handler of /sources/status has a loop of its own over the *)
(* providers.                                                              *)
(*                                                                         *)
(* What FastAPI does around the handlers: bodies and query parameters are  *)
(* validated before them (422), what they return is rendered after them,   *)
(* and an exception that has no handler of its own, wherever it is raised, *)
(* becomes a server error (500).                                           *)
(***************************************************************************)
EXTENDS ResolverProperties, Snapshot

CONSTANT Foreign  \* AsOfs that clients may post, which this server did not answer

\* JSON has no offset with seconds.
ASSUME ForeignAssumption ==
  \A asof \in Foreign :
    /\ asof \in RawAsOf
    /\ asof.market_datetime # None => ~asof.market_datetime.odd

VARIABLES
  endpoint,  \* what each client has sent a request to, or None
  response,  \* what it was answered, or None
  posted,    \* the body of its request, where that is not one for resolve(), or None
  turn,      \* how many providers the loop of /sources/status has asked, or None
  listed     \* the statuses it has collected: the local variable result

loop == <<turn, listed>>
http == <<endpoint, response, posted, loop>>
apiVars == <<vars, http>>

Endpoints ==
  {"/asof/current", "/asof/resolve", "/sources/status", "/sources/report",
   "/asof/snapshot"}

\* A client that awaits nothing has no endpoint.
ASSUME PathAssumption == None \notin Endpoints

\* A response: the status code, the reason code of the error payload (None when
\* there is no such payload) and the body of an answer.
Response(status_code, reason_code, body) ==
  [status_code |-> status_code, reason_code |-> reason_code, body |-> body]

ValidationError == Response(422, "VALIDATION_ERROR", None)
ServerError == Response(500, None, None)

\* Answers and snapshots leave as JSON.
AsOfDumps == [asof : AsOf, tuples : {FALSE}]

Snapshots ==
  [snapshot_id     : SnapshotIds,
   version         : {PinnedVersion},
   captured_at_utc : Instants,
   asof            : AsOfDumps,
   content_hash    : [snapshot_schema_version   : {PinnedVersion.snapshot_schema_version},
                      semantic_contract_version : {PinnedVersion.semantic_contract_version},
                      asof                      : AsOfDumps]]

Responses ==
  [status_code : {200, 400, 409, 422, 500, 501},
   reason_code : Optional(ErrorReasonCode),
   body        : Optional(SourceMap \cup AsOfDumps \cup Snapshots)]

\* A client that awaits its response has none.
ASSUME ResponseAssumption == None \notin Responses

\* What can be wrong with a body: that its bytes are in no encoding, that it is none of
\* what its endpoint accepts, and that moreover the details which say so quote a NaN or
\* a lone surrogate of it, which no response can be rendered with.
BodyFaults == {"unreadable", "invalid", "unrenderable"}

\* The body of a request to /asof/snapshot, or one with a fault.
Payloads == [asof : RawAsOf, tuples : {FALSE}]

Bodies ==
  [fault       : Optional(BodyFaults),
   payload     : Optional(Payloads),
   snapshot_id : Optional(SnapshotIds)]

ASSUME BodyAssumption ==
  None \notin BodyFaults /\ None \notin Payloads /\ None \notin Bodies

ApiInit ==
  /\ Init
  /\ endpoint = [c \in Callers |-> None]
  /\ response = [c \in Callers |-> None]
  /\ posted = [c \in Callers |-> None]
  /\ turn = [c \in Callers |-> None]
  /\ listed = [c \in Callers |-> EmptyMap]

-----------------------------------------------------------------------------
(* Requests *)

Send(c, path) ==
  /\ endpoint[c] = None
  /\ endpoint' = [endpoint EXCEPT ![c] = path]

Respond(c, answered) == response' = [response EXCEPT ![c] = answered]

\* GET /asof/current has no parameters for instants, and no policy.
GetCurrent(c) ==
  /\ Send(c, "/asof/current")
  /\ Submit(c)
  /\ request'[c].as_of_utc = None
  /\ request'[c].knowledge_cutoff_utc = None
  /\ policy'[c] = NoPolicy
  /\ UNCHANGED <<response, posted, loop>>

\* POST /asof/resolve with a request, bare or wrapped with a policy or null.
PostResolve(c) ==
  /\ Send(c, "/asof/resolve")
  /\ Submit(c)
  /\ UNCHANGED <<response, posted, loop>>

\* A body with a fault: a policy, a wrapper, a status or an AsOf that does not
\* validate, an empty snapshot_id or name, or no JSON at all.
PostMalformed(c) ==
  /\ \E path \in {"/asof/resolve", "/sources/report", "/asof/snapshot"} : Send(c, path)
  /\ \E fault \in BodyFaults :
       /\ posted' = [posted EXCEPT ![c] =
                       [fault |-> fault, payload |-> None, snapshot_id |-> None]]
       /\ Respond(c, CASE fault = "unreadable" -> Response(400, None, None)
                       [] fault = "invalid" -> ValidationError
                       [] fault = "unrenderable" -> ServerError)
  /\ UNCHANGED <<vars, loop>>

\* POST /sources/report: a status that does validate is not taken either.
PostReport(c) ==
  /\ Send(c, "/sources/report")
  /\ Respond(c, Response(501, "NOT_IMPLEMENTED", None))
  /\ UNCHANGED <<vars, posted, loop>>

DuplicateNamed == \E i, j \in Positions : i # j /\ Names[i] = Names[j]

\* Mutant: providers of one name are left to the loop.
GetSourcesStatusAny(c) ==
  /\ Send(c, "/sources/status")
  /\ turn' = [turn EXCEPT ![c] = 0]
  /\ UNCHANGED <<vars, response, posted, listed>>

\* GET /sources/status looks at all the names before it asks any provider.
GetSourcesStatus(c) ==
  /\ Send(c, "/sources/status")
  /\ \/ /\ DuplicateNamed
        /\ Respond(c, Response(409, "DUPLICATE_PROVIDER_NAME", None))
        /\ UNCHANGED turn
     \/ /\ ~DuplicateNamed
        /\ turn' = [turn EXCEPT ![c] = 0]
        /\ UNCHANGED response
  /\ UNCHANGED <<vars, posted, listed>>

-----------------------------------------------------------------------------
(* Handlers *)

\* Mutant: a handler that an exception has left is run once more.
ResolvingAgain(c) ==
  /\ \/ Begin(c) \/ Report(c) \/ Finish(c)
     \/ /\ raised[c] = Escaped
        /\ pc' = [pc EXCEPT ![c] = "accepted"]
        /\ asked' = [asked EXCEPT ![c] = 0]
        /\ collected' = [collected EXCEPT ![c] = EmptyMap]
        /\ raised' = [raised EXCEPT ![c] = None]
        /\ UNCHANGED <<world, arguments, now_utc, answer>>
  /\ UNCHANGED http

\* The steps of resolve().
Resolving(c) == (Begin(c) \/ Report(c) \/ Finish(c)) /\ UNCHANGED http

\* What a handler returns is rendered in UTF-8, which may raise.
Rendered(body, sources) ==
  IF Encodes(sources) THEN Response(200, None, body) ELSE ServerError

\* A provider's status joins the list.
Enlist(c, i) ==
  /\ listed' = [listed EXCEPT ![c][Names[i]] = ReportedStatus(Names[i], store[i])]
  /\ turn' = [turn EXCEPT ![c] = i]

Listing(c) == turn[c] # None /\ response[c] = None

\* Mutant: a provider that fails is asked again until it succeeds.
ListRetry(c) ==
  /\ Listing(c)
  /\ \/ /\ turn[c] = Len(Names)
        /\ Respond(c, Rendered(listed[c], listed[c]))
        /\ UNCHANGED loop
     \/ /\ turn[c] < Len(Names)
        /\ ~ReportFails(Names[turn[c] + 1], store[turn[c] + 1])
        /\ Enlist(c, turn[c] + 1)
        /\ UNCHANGED response
  /\ UNCHANGED <<vars, endpoint, posted>>

\* Mutant: an exception ends the loop, and what has been listed is answered.
ListSome(c) ==
  /\ Listing(c)
  /\ \/ /\ turn[c] = Len(Names) \/ ReportEscapes(store[turn[c] + 1])
        /\ Respond(c, Rendered(listed[c], listed[c]))
        /\ UNCHANGED loop
     \/ /\ turn[c] < Len(Names)
        /\ ~ReportEscapes(store[turn[c] + 1])
        /\ Enlist(c, turn[c] + 1)
        /\ UNCHANGED response
  /\ UNCHANGED <<vars, endpoint, posted>>

\* Mutant: a list that the files have outrun is made again.
ListAnew(c) ==
  /\ Listing(c)
  /\ \/ /\ turn[c] = Len(Names)
        /\ \A i \in Positions : listed[c][Names[i]] = ReportedStatus(Names[i], store[i])
        /\ Respond(c, Rendered(listed[c], listed[c]))
        /\ UNCHANGED loop
     \/ /\ turn[c] = Len(Names)
        /\ \E i \in Positions : listed[c][Names[i]] # ReportedStatus(Names[i], store[i])
        /\ turn' = [turn EXCEPT ![c] = 0]
        /\ UNCHANGED <<response, listed>>
     \/ /\ turn[c] < Len(Names)
        /\ ReportEscapes(store[turn[c] + 1])
        /\ Respond(c, ServerError)
        /\ UNCHANGED loop
     \/ /\ turn[c] < Len(Names)
        /\ ~ReportEscapes(store[turn[c] + 1])
        /\ Enlist(c, turn[c] + 1)
        /\ UNCHANGED response
  /\ UNCHANGED <<vars, endpoint, posted>>

\* The loop of /sources/status: the next provider, or the end.
List(c) ==
  /\ Listing(c)
  /\ \/ /\ turn[c] = Len(Names)
        /\ Respond(c, Rendered(listed[c], listed[c]))
        /\ UNCHANGED loop
     \/ /\ turn[c] < Len(Names)
        /\ ReportEscapes(store[turn[c] + 1])
        /\ Respond(c, ServerError)
        /\ UNCHANGED loop
     \/ /\ turn[c] < Len(Names)
        /\ ~ReportEscapes(store[turn[c] + 1])
        /\ Enlist(c, turn[c] + 1)
        /\ UNCHANGED response
  /\ UNCHANGED <<vars, endpoint, posted>>

\* Mutant: POST /asof/resolve builds its request in the handler as well.
RefusalOfAnywhere(c) ==
  IF request[c].perspective \in Perspective THEN ServerError ELSE ValidationError

\* A word that names no perspective is a query parameter of the wrong type; every
\* other refusal of the request happens inside the handler of /asof/current.
RefusalOf(c) ==
  IF endpoint[c] = "/asof/current" /\ request[c].perspective \in Perspective
    THEN ServerError ELSE ValidationError

\* What becomes of a handler whose call is over.
Outcome(c) ==
  CASE raised[c] = Refused -> RefusalOf(c)
    [] raised[c] = Escaped -> ServerError
    [] raised[c] \in ErrorReasonCode -> Response(400, raised[c], None)
    [] OTHER -> Rendered(JsonDump(answer[c]), answer[c].sources)

Complete(c) ==
  /\ pc[c] = "done"
  /\ response[c] = None
  /\ Respond(c, Outcome(c))
  /\ UNCHANGED <<vars, endpoint, posted, loop>>

-----------------------------------------------------------------------------
(* Clients *)

\* What POST /asof/snapshot answers to a payload: the body is validated, which may
\* raise what is no validation error, then snapshotted, where any error is the
\* server's, and the snapshot is rendered.
SnapshotResponse(payload, snapshot_id, now) ==
  CASE Projection(payload.asof) = None -> ServerError
    [] Projection(payload.asof) # None /\ ~AcceptsPayload(payload) ->
         IF Encodes(payload.asof.sources) THEN ValidationError ELSE ServerError
    [] /\ AcceptsPayload(payload)
       /\ \/ SnapshotFailure(ModelValidate(payload), snapshot_id) # None
          \/ snapshot_id \in Unencodable -> ServerError
    [] OTHER ->
         Response(200, None, DumpSnapshot(MakeSnapshot(PinnedVersion,
                               ModelValidate(payload), snapshot_id, now)))

Post(c, payload) ==
  /\ \E id \in SnapshotIds :
       /\ posted' = [posted EXCEPT ![c] =
                       [fault |-> None, payload |-> payload, snapshot_id |-> id]]
       /\ Respond(c, SnapshotResponse(payload, id, clock))
  /\ UNCHANGED <<vars, loop>>

\* A client that was answered an AsOf posts it to /asof/snapshot as it is.
PostSnapshot(c) ==
  /\ answer[c] # None
  /\ response[c] = Response(200, None, JsonDump(answer[c]))
  /\ endpoint' = [endpoint EXCEPT ![c] = "/asof/snapshot"]
  /\ Post(c, JsonDump(answer[c]))

\* A client posts an AsOf that it has from somewhere else.
PostForeign(c) ==
  /\ Send(c, "/asof/snapshot")
  /\ \E asof \in Foreign : Post(c, [asof |-> asof, tuples |-> FALSE])

\* The client has its response, and nothing is left of the request.
Receive(c) ==
  /\ response[c] # None
  /\ endpoint' = [endpoint EXCEPT ![c] = None]
  /\ response' = [response EXCEPT ![c] = None]
  /\ posted' = [posted EXCEPT ![c] = None]
  /\ turn' = [turn EXCEPT ![c] = None]
  /\ listed' = [listed EXCEPT ![c] = EmptyMap]
  /\ Return(c) \/ (pc[c] = "idle" /\ UNCHANGED vars)

\* The steps of the server.
Serve(c) == Resolving(c) \/ List(c) \/ Complete(c)

ApiNext ==
  \/ (Tick \/ \E i \in Positions : WriteFile(i)) /\ UNCHANGED http
  \/ \E c \in Callers :
       \/ GetCurrent(c) \/ PostResolve(c) \/ PostMalformed(c) \/ PostReport(c)
       \/ GetSourcesStatus(c) \/ Serve(c) \/ PostSnapshot(c) \/ PostForeign(c)
       \/ Receive(c)

ApiSpec == ApiInit /\ [][ApiNext]_apiVars

\* A handler that runs is scheduled again; clients and files do as they like.
ApiFairSpec == ApiSpec /\ \A c \in Callers : WF_apiVars(Serve(c))

-----------------------------------------------------------------------------
(* Properties *)

\* The handlers of /asof/current and /asof/resolve are calls of the resolver, also
\* next to handlers of other endpoints: whatever is proved of the resolver holds of
\* the calls of the HTTP surface (api.py 133-157).
HandlersAreCalls == Spec

\* Every endpoint answers in its own form: a list of statuses, an AsOf or a snapshot.
ResponseBodies(path) ==
  CASE path = "/sources/status" -> SourceMap
    [] path = "/asof/snapshot" -> Snapshots
    [] OTHER -> AsOfDumps

ApiTypeOK ==
  /\ TypeOK
  /\ \A c \in Callers :
       /\ endpoint[c] \in Optional(Endpoints)
       /\ posted[c] \in Optional(Bodies)
       /\ turn[c] \in Optional(0 .. Len(Names))
       /\ listed[c] \in SourceMap
       /\ \/ response[c] = None
          \/ /\ response[c].status_code = 200
             /\ response[c].reason_code = None
             /\ response[c].body \in ResponseBodies(endpoint[c])
          \/ /\ response[c].status_code \in {400, 409, 422, 500, 501}
             /\ response[c].reason_code \in Optional(ErrorReasonCode)
             /\ response[c].body = None

\* What a response would have to be rendered with has a lone surrogate in it, or a NaN.
NotRenderable(c) ==
  \/ endpoint[c] = "/sources/status" /\ ~Encodes(listed[c])
  \/ answer[c] # None /\ ~Encodes(answer[c].sources)
  \/ posted[c] # None /\ posted[c].fault = "unrenderable"
  \/ /\ posted[c] # None
     /\ posted[c].payload # None
     /\ \/ ~Encodes(posted[c].payload.asof.sources)
        \/ posted[c].snapshot_id \in Unencodable

\* A server error has one of five reasons: GET /asof/current was asked something that
\* AsOfRequest refuses, a listed provider let an exception through, an exception that
\* is no ResolverError left resolve() for a reason known there, an AsOf was posted
\* whose instant has no local time or one in local mean time, or what there was to
\* be rendered cannot be (api.py 102-144, 186-199, 221-223).
ServerErrorsAreExplained ==
  \A c \in Callers :
    response[c] = ServerError =>
      \/ /\ endpoint[c] = "/asof/current"
         /\ ~AcceptsRequest(request[c])
      \/ /\ endpoint[c] = "/sources/status"
         /\ turn[c] < Len(Names)
         /\ \E content \in Contents[turn[c] + 1] : ReportEscapes(content)
      \/ /\ endpoint[c] \in {"/asof/current", "/asof/resolve"}
         /\ raised[c] = Escaped
         /\ EscapeExplained(c)
      \/ /\ endpoint[c] = "/asof/snapshot"
         /\ posted[c].payload # None
         /\ \/ Projection(posted[c].payload.asof) = None
            \/ Projection(posted[c].payload.asof).odd
      \/ NotRenderable(c)

\* A malformed request is answered as a validation error, whichever endpoint it
\* is sent to (PRODUCT_CONTRACT.md 712-715).
MalformedIsAValidationError ==
  \A c \in Callers :
    raised[c] = Refused /\ response[c] # None => response[c] = ValidationError

\* Both loops over the providers treat providers of one name alike, although one
\* looks at all the names first and the other comes upon the second: neither
\* answers, and without such providers a list is complete, one status for each
\* provider (api.py 159-199, resolver.py 135-155).
ListsAreWhole ==
  \A c \in Callers :
    response[c] # None /\ endpoint[c] # "/asof/snapshot" =>
      /\ response[c].reason_code = "DUPLICATE_PROVIDER_NAME" => DuplicateNamed
      /\ response[c].status_code = 200 =>
           /\ ~DuplicateNamed
           /\ Keys(IF endpoint[c] = "/sources/status" THEN response[c].body
                                                     ELSE collected[c])
                = {Names[i] : i \in Positions}

\* What was served can be posted back to be snapshotted, and the snapshot is of
\* what was served and later than it: the answer survives its way out as JSON and
\* in again.  Only an answer in local mean time is refused, as the client's mistake,
\* and only an identifier can still be impossible to render (api.py 133-157, 221-223,
\* snapshot.py 66-85, models.py 281-285).
ServedCanBeSnapshotted ==
  \A c \in Callers :
    /\ endpoint[c] = "/asof/snapshot"
    /\ answer[c] # None
    => IF answer[c].market_datetime.odd THEN response[c] = ValidationError
       ELSE posted[c].snapshot_id \notin Unencodable =>
              /\ response[c].status_code = 200
              /\ response[c].body.asof = JsonDump(answer[c])
              /\ response[c].body.content_hash = ContentHash(PinnedVersion, answer[c])
              /\ request[c].as_of_utc = None =>
                   response[c].body.captured_at_utc >= answer[c].resolved_at_utc

\* At most how many steps are left of a handler: of its loop, or of resolve() and the
\* response.  None is left where nobody is at work.
StepsLeft(c) ==
  IF turn[c] # None THEN Len(Names) - turn[c] + 1
  ELSE CASE pc[c] = "accepted" -> Len(Names) + 3
         [] pc[c] = "reporting" -> Len(Names) - asked[c] + 2
         [] pc[c] = "done" -> 1
         [] OTHER -> 0

\* Nothing of a handler changes.
Rests(c) ==
  UNCHANGED <<endpoint[c], posted[c], turn[c], listed[c], pc[c], request[c], policy[c],
              now_utc[c], asked[c], collected[c], answer[c], raised[c]>>

\* A request that awaits its response is always being worked on, and its handler runs
\* out of steps: each one brings it closer to the response, none is taken twice, and
\* neither the other handlers nor the files touch what it has come to
\* (api.py 133-199, resolver.py 110-155).
HandlersRunOut ==
  [][\A c \in Callers :
       endpoint[c] # None /\ response[c] = None =>
         /\ StepsLeft(c) \in 1 .. Len(Names) + 3
         /\ response'[c] # None \/ StepsLeft(c)' < StepsLeft(c) \/ Rests(c)]_apiVars

\* Every request is answered, however files change and whoever else asks
\* (api.py 133-223).
EveryRequestIsAnswered == \A c \in Callers : endpoint[c] # None ~> response[c] # None
=============================================================================
