------------------------------ MODULE Snapshot ------------------------------
(***************************************************************************)
(* Snapshots: make_snapshot (snapshot.py) and the validators of            *)
(* AsOfSnapshot (models.py).                                               *)
(*                                                                         *)
(* A payload is the dump of an AsOf: an AsOf whose projections may have    *)
(* been left out, and whether the arrays in its metadata are tuples, as    *)
(* they are in a validated AsOf in memory, or lists, as in JSON.  JSON     *)
(* keeps all that the model tells apart but the seconds of an offset.  The *)
(* digest SHA-256 is taken to tell any two canonical payloads apart, and   *)
(* stands for its preimage.                                                *)
(***************************************************************************)
EXTENDS Resolution

CONSTANTS
  SnapshotIds,  \* identifiers of snapshots
  EmptyId,      \* the empty string
  Unencodable   \* names and identifiers with a lone surrogate in them

\* The steps of make_snapshot that may raise.
CaptureFailures == {"encoding", "round_trip", "snapshot_id"}

ASSUME SnapshotAssumption ==
  /\ EmptyId \notin SnapshotIds
  /\ None \notin CaptureFailures

\* The three strings that a release of the package pins.
Version ==
  [snapshot_schema_version   : STRING,
   semantic_contract_version : STRING,
   hash_algorithm            : STRING]

PinnedVersion ==
  [snapshot_schema_version   |-> "asof123.snapshot.v2",
   semantic_contract_version |-> "asof123.contract.v1",
   hash_algorithm            |-> "sha256"]

HasArray(asof) == \E name \in Keys(asof.sources) : asof.sources[name].has_array

\* A local time as JSON writes it, with hours and minutes of the offset only.
InMinutes(local) == IF local = None THEN None ELSE [local EXCEPT !.odd = FALSE]

\* model_dump: JSON mode writes tuples as arrays and datetimes as text, Python mode
\* leaves them be.
JsonDump(asof) ==
  [asof   |-> [asof EXCEPT !.market_datetime = InMinutes(@)],
   tuples |-> FALSE]
PythonDump(asof) == [asof |-> asof, tuples |-> HasArray(asof)]

\* Mutant: a projection that was supplied is believed.
AcceptsPayloadAnyProjection(payload) ==
  /\ ~payload.tuples
  /\ payload.asof \in RawAsOf
  /\ AcceptsAsOf([payload.asof EXCEPT !.market_datetime = None,
                                      !.market_date     = None])

\* AsOf.model_validate.  The metadata validator knows lists and no tuples.
AcceptsPayload(payload) ==
  /\ ~payload.tuples
  /\ payload.asof \in RawAsOf
  /\ AcceptsAsOf(payload.asof)

ModelValidate(payload) == Validated(payload.asof)

\* The sources of an answer can be written in UTF-8.
Encodes(sources) ==
  \A name \in Keys(sources) : name \notin Unencodable /\ ~sources[name].unencodable

-----------------------------------------------------------------------------
(* The content hash *)

\* Mutant: the semantic contract is left out of the preimage.
ContentHashSchemaOnly(version, asof) ==
  [snapshot_schema_version   |-> version.snapshot_schema_version,
   semantic_contract_version |-> "",
   asof                      |-> JsonDump(asof)]

\* canonicalize_snapshot_payload, hashed: the versions and the JSON dump, but
\* neither the identifier nor the instant of the capture.
ContentHash(version, asof) ==
  [snapshot_schema_version   |-> version.snapshot_schema_version,
   semantic_contract_version |-> version.semantic_contract_version,
   asof                      |-> JsonDump(asof)]

-----------------------------------------------------------------------------
(* Records *)

\* Mutant: a record is read whatever contract it was written under.
AcceptsSnapshotAnyContract(version, record) ==
  /\ record.snapshot_id # EmptyId
  /\ record.version.snapshot_schema_version = version.snapshot_schema_version
  /\ record.version.hash_algorithm = version.hash_algorithm
  /\ AcceptsPayload(record.asof)

\* AsOfSnapshot.model_validate under a release that pins version.  The content
\* hash is not compared with the content.
AcceptsSnapshot(version, record) ==
  /\ record.snapshot_id # EmptyId
  /\ record.version = version
  /\ AcceptsPayload(record.asof)

\* A snapshot in memory, as JSON, and read again.
DumpSnapshot(snapshot) == [snapshot EXCEPT !.asof = JsonDump(snapshot.asof)]
ValidateSnapshot(record) == [record EXCEPT !.asof = ModelValidate(record.asof)]

\* Mutant: the answer is frozen from its dump in Python mode.
SnapshotFailurePython(asof, snapshot_id) ==
  IF ~Encodes(asof.sources) THEN "encoding"
  ELSE IF ~AcceptsPayload(PythonDump(asof)) THEN "round_trip"
  ELSE IF snapshot_id = EmptyId THEN "snapshot_id"
  ELSE None

\* Mutant: the empty identifier is let through.
SnapshotFailureAnyId(asof, snapshot_id) ==
  IF ~Encodes(asof.sources) THEN "encoding"
  ELSE IF ~AcceptsPayload(JsonDump(asof)) THEN "round_trip"
  ELSE None

\* Which step of make_snapshot raises: the bytes to hash are written in UTF-8
\* (UnicodeEncodeError), the answer makes its round trip through JSON and the record
\* is built around it (both ValidationError).
SnapshotFailure(asof, snapshot_id) ==
  IF ~Encodes(asof.sources) THEN "encoding"
  ELSE IF ~AcceptsPayload(JsonDump(asof)) THEN "round_trip"
  ELSE IF snapshot_id = EmptyId THEN "snapshot_id"
  ELSE None

\* Mutant: the instant of the capture is the knowledge cutoff.
MakeSnapshotAtCutoff(version, asof, snapshot_id, now_utc) ==
  [snapshot_id     |-> snapshot_id,
   version         |-> version,
   captured_at_utc |-> asof.knowledge_cutoff_utc,
   asof            |-> ModelValidate(JsonDump(asof)),
   content_hash    |-> ContentHash(version, asof)]

\* The hash is of the answer as given, the record holds its round trip.
MakeSnapshot(version, asof, snapshot_id, now_utc) ==
  [snapshot_id     |-> snapshot_id,
   version         |-> version,
   captured_at_utc |-> now_utc,
   asof            |-> ModelValidate(JsonDump(asof)),
   content_hash    |-> ContentHash(version, asof)]
=============================================================================
