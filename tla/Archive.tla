------------------------------ MODULE Archive ------------------------------
(***************************************************************************)
(* The life of snapshots.  A process of one release captures answers and   *)
(* snapshots of snapshots; its records are stored outside of the package,  *)
(* read again by later processes, and answers are posted to                *)
(* /asof/snapshot (api.py) by clients that may have dropped or changed     *)
(* their market-local projections.  The package keeps nothing itself: a    *)
(* restart, here always into the next release, forgets all but the store.  *)
(***************************************************************************)
EXTENDS Snapshot, Sequences, FiniteSets

CONSTANTS
  Answers,     \* what the resolver may answer
  Releases,    \* the versions that successive releases pin
  MaxRecords   \* bound on what is stored

ASSUME ArchiveAssumption ==
  /\ \A answer \in Answers : answer \in AsOf /\ AcceptsAsOf(answer)
  /\ Releases \in Seq(Version)
  /\ Len(Releases) > 0
  /\ MaxRecords \in Nat

\* Why an operation may be refused: a step of make_snapshot, a projection that a
\* client made up, a response that cannot be rendered, a record of another release.
Refusals == CaptureFailures \cup {"projection", "rendering", "version"}

ASSUME RefusalAssumption == None \notin Refusals

VARIABLES
  clock,
  release,   \* which release runs
  asof,      \* the AsOf at hand in the process, or None
  snapshot,  \* the AsOfSnapshot at hand, or None
  stored,    \* the records kept outside, in JSON
  refused    \* why the last operation was refused, or None

vars == <<clock, release, asof, snapshot, stored, refused>>

version == Releases[release]

Init ==
  /\ clock = 0
  /\ release = 1
  /\ asof = None
  /\ snapshot = None
  /\ stored = {}
  /\ refused = None

Tick ==
  /\ clock < MaxTime
  /\ clock' = clock + 1
  /\ UNCHANGED <<release, asof, snapshot, stored, refused>>

\* An answer of the resolver, or the answer in the snapshot at hand.
Take ==
  /\ \/ asof' \in Answers
     \/ snapshot # None /\ asof' = snapshot.asof
  /\ refused' = None
  /\ UNCHANGED <<clock, release, snapshot, stored>>

\* make_snapshot in the process.
Capture(snapshot_id) ==
  /\ asof # None
  /\ refused' = SnapshotFailure(asof, snapshot_id)
  /\ snapshot' = IF refused' = None
                   THEN MakeSnapshot(version, asof, snapshot_id, clock) ELSE snapshot
  /\ UNCHANGED <<clock, release, asof, stored>>

\* What clients do to the projections of a payload: drop them, or supply others.
Edit(payload, datetime, date) ==
  [payload EXCEPT !.asof = [@ EXCEPT !.market_datetime = datetime, !.market_date = date]]

Edits(payload) ==
  {Edit(payload, datetime, date) :
     datetime \in {None, payload.asof.market_datetime,
                   [payload.asof.market_datetime EXCEPT !.time = @ + 1]},
     date \in {None, payload.asof.market_date, payload.asof.market_date + 1}}

\* Why POST /asof/snapshot refuses a payload: the body is validated, and then
\* snapshotted, and the snapshot is written into the response.
PostFailure(payload, snapshot_id) ==
  IF snapshot_id = EmptyId THEN "snapshot_id"
  ELSE IF ~AcceptsPayload(payload)
    THEN IF payload = JsonDump(asof) THEN "round_trip" ELSE "projection"
  ELSE IF SnapshotFailure(ModelValidate(payload), snapshot_id) # None
    THEN SnapshotFailure(ModelValidate(payload), snapshot_id)
  ELSE IF snapshot_id \in Unencodable THEN "rendering"
  ELSE None

\* POST /asof/snapshot with the answer at hand, edited or as it was written.
Post(snapshot_id) ==
  /\ asof # None
  /\ \E payload \in Edits(JsonDump(asof)) :
       /\ refused' = PostFailure(payload, snapshot_id)
       /\ snapshot' = IF refused' = None
                        THEN MakeSnapshot(version, ModelValidate(payload), snapshot_id,
                                          clock)
                        ELSE snapshot
  /\ UNCHANGED <<clock, release, asof, stored>>

Store ==
  /\ snapshot # None
  /\ Cardinality(stored) < MaxRecords
  /\ stored' = stored \cup {DumpSnapshot(snapshot)}
  /\ UNCHANGED <<clock, release, asof, snapshot, refused>>

\* A record is read, if the release that runs can read it.
Load ==
  /\ \E record \in stored :
       \/ /\ AcceptsSnapshot(version, record)
          /\ snapshot' = ValidateSnapshot(record)
          /\ refused' = None
       \/ /\ ~AcceptsSnapshot(version, record)
          /\ refused' = "version"
          /\ UNCHANGED snapshot
  /\ UNCHANGED <<clock, release, asof, stored>>

Upgrade ==
  /\ release < Len(Releases)
  /\ release' = release + 1
  /\ asof' = None
  /\ snapshot' = None
  /\ refused' = None
  /\ UNCHANGED <<clock, stored>>

Next ==
  \/ Tick \/ Take \/ Store \/ Load \/ Upgrade
  \/ \E id \in SnapshotIds \cup {EmptyId} : Capture(id) \/ Post(id)

Spec == Init /\ [][Next]_vars

-----------------------------------------------------------------------------
(* Properties *)

Hash ==
  [snapshot_schema_version   : STRING,
   semantic_contract_version : STRING,
   asof                      : [asof : AsOf, tuples : {FALSE}]]

Snapshots(S) ==
  [snapshot_id     : SnapshotIds,
   version         : Version,
   captured_at_utc : Instants,
   asof            : S,
   content_hash    : Hash]

TypeOK ==
  /\ clock \in Instants
  /\ release \in 1 .. Len(Releases)
  /\ asof \in Optional(AsOf)
  /\ snapshot \in Optional(Snapshots(AsOf))
  /\ stored \subseteq Snapshots([asof : AsOf, tuples : {FALSE}])
  /\ refused \in Optional(Refusals)

\* Two stored records have the same content hash exactly when they say the same
\* under the same schema and contract, whoever captured them, when, under which
\* identifier and after how many round trips (snapshot.py 48-63, models.py 336-393).
ContentIdentity ==
  \A a, b \in stored :
    (a.content_hash = b.content_hash) <=>
      /\ a.asof = b.asof
      /\ a.version.snapshot_schema_version = b.version.snapshot_schema_version
      /\ a.version.semantic_contract_version = b.version.semantic_contract_version

\* The release that runs computes the content hash of the snapshot at hand from
\* the answer in it, although the hash is not checked when a record is read: a
\* record of another release does not become a snapshot (snapshot.py 66-85,
\* models.py 347-393).
HashFitsContent ==
  snapshot # None => snapshot.content_hash = ContentHash(version, snapshot.asof)

\* An answer can be captured under any identifier but the empty one, in the
\* process or over HTTP, and so can the answer in a snapshot of it, arrays in its
\* metadata included, with two exceptions, of which there is never a snapshot: text
\* that UTF-8 cannot encode, and an instant at which the market kept local mean time,
\* whose projection JSON does not bring back (snapshot.py 78-79, models.py 53-73 and
\* 281-285, api.py 221-223).
AnswersCanBeCaptured ==
  /\ refused = "encoding" => ~Encodes(asof.sources)
  /\ refused = "round_trip" => asof.market_datetime.odd
  /\ snapshot # None =>
       Encodes(snapshot.asof.sources) /\ ~snapshot.asof.market_datetime.odd

\* What is in a snapshot is what the resolver answered, with the projections that it
\* had, also after a client has dropped or changed these (models.py 271-294,
\* snapshot.py 79).
NothingIsMadeUp ==
  /\ snapshot # None => snapshot.asof \in Answers
  /\ \A record \in stored : record.asof.asof \in Answers
=============================================================================
