------------------------------ MODULE Requests ------------------------------
(***************************************************************************)
(* AsOfRequest (requests.py): what a caller may ask.  A request is checked *)
(* when it is constructed; one that fails never reaches the resolver.      *)
(***************************************************************************)
EXTENDS Ontology

CONSTANTS
  MarketCodes,  \* uppercase market codes
  Timezones     \* "UTC" and known IANA Region/City identifiers

ASSUME MarketAssumption ==
  /\ None \notin MarketCodes /\ Malformed \notin MarketCodes
  /\ None \notin Timezones /\ Malformed \notin Timezones

\* A request as it arrives.  Malformed: a lowercase market, an abbreviated or
\* unknown timezone, an instant that is naive or not at offset zero, a word that
\* names no perspective.
RawRequest ==
  [perspective          : Perspective \cup {Malformed},
   market               : MarketCodes \cup {Malformed},
   market_timezone      : Timezones \cup {Malformed},
   as_of_utc            : Instants \cup {None, Malformed},
   knowledge_cutoff_utc : Instants \cup {None, Malformed}]

ASSUME RequestAssumption == None \notin RawRequest

\* Every field on its own has a legal value.
FieldsAccepted(request) ==
  /\ request.perspective \in Perspective
  /\ request.market \in MarketCodes
  /\ request.market_timezone \in Timezones
  /\ request.as_of_utc \in Optional(Instants)
  /\ request.knowledge_cutoff_utc \in Optional(Instants)

\* The fields fit together: a pinned perspective is pinned twice, LIVE and
\* CANONICAL take no instant, and no cutoff lies after the instant asked about.
CrossFieldRules(request) ==
  /\ request.perspective \in {"REPLAY", "HISTORICAL"} =>
       request.as_of_utc # None /\ request.knowledge_cutoff_utc # None
  /\ request.perspective = "LIVE" =>
       request.as_of_utc = None /\ request.knowledge_cutoff_utc = None
  /\ request.perspective = "CANONICAL" => request.as_of_utc = None
  /\ request.as_of_utc # None /\ request.knowledge_cutoff_utc # None =>
       request.knowledge_cutoff_utc <= request.as_of_utc

AcceptsRequest(request) ==
  /\ FieldsAccepted(request)
  /\ CrossFieldRules(request)

\* A validated AsOfRequest.
AsOfRequest == {request \in RawRequest : AcceptsRequest(request)}
=============================================================================
