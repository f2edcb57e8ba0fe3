---------------------------- MODULE ArchiveProofs ----------------------------
(***************************************************************************)
(* The properties of Archive, for all answers that the validator of AsOf   *)
(* accepts, all releases and any number of records.                        *)
(***************************************************************************)
EXTENDS Archive, ResolutionProofs

\* An answer that survives its capture.
Capturable(answer) ==
  /\ answer \in Answers
  /\ Encodes(answer.sources)
  /\ ~answer.market_datetime.odd

\* A snapshot that a release makes of an answer.
IsCapture(record) ==
  /\ Capturable(record.asof)
  /\ record.version = version
  /\ record.content_hash = ContentHash(version, record.asof)

\* A record that some release has made of an answer.
IsRecord(record) ==
  /\ Capturable(record.asof.asof)
  /\ record.asof = JsonDump(record.asof.asof)
  /\ record.content_hash = ContentHash(record.version, record.asof.asof)

\* The answer at hand is of the kind that the last operation was refused for.
RefusedRightly ==
  /\ refused = "encoding" => ~Encodes(asof.sources)
  /\ refused = "round_trip" => asof.market_datetime.odd

\* What makes the properties inductive: whatever is at hand or stored comes from
\* an answer, whole, and a snapshot at hand is of the release that runs.
IInv ==
  /\ TypeOK
  /\ asof # None => asof \in Answers
  /\ snapshot # None => IsCapture(snapshot)
  /\ \A record \in stored : IsRecord(record)
  /\ RefusedRightly

LEMMA AnswersAre ==
  ASSUME NEW answer \in Answers
  PROVE  /\ answer \in AsOf
         /\ AcceptsAsOf(answer)
         /\ answer # None
  BY ArchiveAssumption, AnswerAssumption

LEMMA VersionsAre ==
  ASSUME TypeOK
  PROVE  version \in Version
  BY ArchiveAssumption DEF TypeOK, version

\* The dump of an answer is typed, and an answer that can be captured comes back.
LEMMA DumpsAre ==
  ASSUME NEW answer \in Answers
  PROVE  /\ JsonDump(answer) \in [asof : AsOf, tuples : {FALSE}]
         /\ Capturable(answer) =>
              /\ JsonDump(answer).asof = answer
              /\ ModelValidate(JsonDump(answer)) = answer
  <1>1. answer \in AsOf /\ AcceptsAsOf(answer)
    BY AnswersAre
  <1>2. JsonDump(answer).asof \in AsOf
    BY <1>1, DumpIsAsOf
  <1>3. JsonDump(answer) = [asof |-> JsonDump(answer).asof, tuples |-> FALSE]
    BY DEF JsonDump
  <1>4. JsonDump(answer) \in [asof : AsOf, tuples : {FALSE}]
    <2>1. ASSUME NEW dump \in AsOf PROVE [asof |-> dump, tuples |-> FALSE] \in
                                           [asof : AsOf, tuples : {FALSE}]
      OBVIOUS
    <2> QED
      BY <1>2, <1>3, <2>1
  <1> QED
    BY <1>1, <1>4, DumpIsAsOf, RoundTrip DEF Capturable

\* A snapshot of an answer.
LEMMA CaptureIs ==
  ASSUME TypeOK, NEW answer \in Answers, Capturable(answer), NEW id \in SnapshotIds
  PROVE  LET record == MakeSnapshot(version, answer, id, clock)
         IN  /\ record \in Snapshots(AsOf)
             /\ IsCapture(record)
  <1>1. ContentHash(version, answer) \in Hash
    BY DumpsAre, VersionsAre DEF ContentHash, Hash, Version
  <1> QED
    BY <1>1, AnswersAre, DumpsAre, VersionsAre
       DEF TypeOK, MakeSnapshot, Snapshots, IsCapture

\* An operation that captures the answer at hand, or is refused for a reason that
\* fits, preserves the invariant.
LEMMA CapturesKeep ==
  ASSUME NEW id \in SnapshotIds \cup {EmptyId},
         IInv, asof # None, UNCHANGED <<clock, release, asof, stored>>,
         refused' \in Optional(Refusals),
         RefusedRightly',
         refused' # None => UNCHANGED snapshot,
         refused' = None =>
           /\ Capturable(asof)
           /\ id # EmptyId
           /\ snapshot' = MakeSnapshot(version, asof, id, clock)
  PROVE  IInv'
  <1>1. asof \in Answers
    BY DEF IInv
  <1>2. CASE refused' # None
    BY <1>2 DEF IInv, TypeOK, IsCapture, IsRecord, version
  <1>3. CASE refused' = None
    <2>1. snapshot' \in Snapshots(AsOf) /\ IsCapture(snapshot')
      BY <1>1, <1>3, CaptureIs DEF IInv
    <2>2. TypeOK'
      BY <2>1 DEF IInv, TypeOK, Optional
    <2> QED
      BY <2>1, <2>2 DEF IInv, IsCapture, IsRecord, version
  <1> QED
    BY <1>2, <1>3

LEMMA InitIInv == Init => IInv
  <1> SUFFICES ASSUME Init PROVE IInv
    OBVIOUS
  <1>1. TypeOK
    BY ArchiveAssumption, MaxTimeAssumption
       DEF Init, TypeOK, Instants, Optional
  <1> QED
    BY <1>1, RefusalAssumption
       DEF Init, IInv, Refusals, CaptureFailures, RefusedRightly

LEMMA TakeIInv == IInv /\ Take => IInv'
  <1> SUFFICES ASSUME IInv, Take PROVE IInv'
    OBVIOUS
  <1>1. asof' \in Answers
    BY DEF Take, IInv, IsCapture, Capturable
  <1>2. TypeOK'
    BY <1>1, AnswersAre DEF IInv, TypeOK, Take, Optional
  <1> QED
    BY <1>1, <1>2, RefusalAssumption
       DEF IInv, Take, IsCapture, IsRecord, version, Refusals, CaptureFailures,
           RefusedRightly

LEMMA CaptureIInv ==
  ASSUME NEW id \in SnapshotIds \cup {EmptyId}
  PROVE  IInv /\ Capture(id) => IInv'
  <1> SUFFICES ASSUME IInv, Capture(id) PROVE IInv'
    OBVIOUS
  <1>1. asof \in Answers /\ asof \in AsOf /\ AcceptsAsOf(asof)
    BY AnswersAre DEF IInv, Capture
  <1>2. refused' = IF ~Encodes(asof.sources) THEN "encoding"
                   ELSE IF asof.market_datetime.odd THEN "round_trip"
                   ELSE IF id = EmptyId THEN "snapshot_id"
                   ELSE None
    BY <1>1, FailureIs DEF Capture
  <1>3. refused' = None => Capturable(asof) /\ id # EmptyId
    BY <1>1, <1>2, SnapshotAssumption DEF Capturable, CaptureFailures
  <1>4. refused' \in Optional(Refusals)
    BY <1>2 DEF Refusals, CaptureFailures, Optional
  <1>5. RefusedRightly'
    BY <1>2, SnapshotAssumption DEF RefusedRightly, Capture, CaptureFailures
  <1> QED
    BY <1>3, <1>4, <1>5, CapturesKeep DEF Capture

LEMMA PostIInv ==
  ASSUME NEW id \in SnapshotIds \cup {EmptyId}
  PROVE  IInv /\ Post(id) => IInv'
  <1> SUFFICES ASSUME IInv, Post(id) PROVE IInv'
    OBVIOUS
  <1>1. asof \in Answers /\ asof \in AsOf /\ AcceptsAsOf(asof)
    BY AnswersAre DEF IInv, Post
  <1>2. PICK payload \in Edits(JsonDump(asof)) :
          /\ refused' = PostFailure(payload, id)
          /\ snapshot' = IF refused' = None
                           THEN MakeSnapshot(version, ModelValidate(payload), id, clock)
                           ELSE snapshot
    BY DEF Post
  <1>3. AcceptsPayload(payload) => ModelValidate(payload) = asof
    <2>1. PICK datetime, date : payload = Edit(JsonDump(asof), datetime, date)
      BY <1>2 DEF Edits
    <2>2. payload.asof = [JsonDump(asof).asof EXCEPT !.market_datetime = datetime,
                                                     !.market_date     = date]
      <3>1. JsonDump(asof) = [asof |-> JsonDump(asof).asof, tuples |-> FALSE]
        BY DEF JsonDump
      <3>2. ASSUME NEW dump, NEW given,
                   given = Edit([asof |-> dump, tuples |-> FALSE], datetime, date)
            PROVE  given.asof = [dump EXCEPT !.market_datetime = datetime,
                                             !.market_date     = date]
        BY <3>2 DEF Edit
      <3> QED
        BY <2>1, <3>1, <3>2, Zenon
    <2>3. payload.asof = [asof EXCEPT !.market_datetime = datetime,
                                      !.market_date     = date]
      BY <1>1, <2>2, EditedDump
    <2>4. ASSUME AcceptsAsOf(payload.asof) PROVE Validated(payload.asof) = asof
      BY <1>1, <2>3, <2>4, EditedIsTheAnswer, Zenon
    <2> QED
      BY <2>4 DEF AcceptsPayload, ModelValidate
  <1>4. \/ refused' \in {"snapshot_id", "projection", "rendering"}
        \/ refused' = "round_trip" /\ asof.market_datetime.odd
        \/ refused' = "encoding" /\ ~Encodes(asof.sources)
        \/ /\ refused' = None
           /\ Capturable(asof)
           /\ id # EmptyId
           /\ snapshot' = MakeSnapshot(version, asof, id, clock)
    <2>1. CASE id = EmptyId
      BY <1>2, <2>1 DEF PostFailure
    <2>2. CASE id # EmptyId /\ ~AcceptsPayload(payload)
      BY <1>1, <1>2, <2>2, RoundTrip DEF PostFailure
    <2>3. CASE id # EmptyId /\ AcceptsPayload(payload)
      <3>1. refused' = IF SnapshotFailure(asof, id) # None THEN SnapshotFailure(asof, id)
                       ELSE IF id \in Unencodable THEN "rendering"
                       ELSE None
        BY <1>2, <1>3, <2>3 DEF PostFailure
      <3>2. refused' = IF ~Encodes(asof.sources) THEN "encoding"
                       ELSE IF asof.market_datetime.odd THEN "round_trip"
                       ELSE IF id \in Unencodable THEN "rendering"
                       ELSE None
        BY <1>1, <2>3, <3>1, FailureIs, SnapshotAssumption DEF CaptureFailures
      <3> QED
        BY <1>1, <1>2, <1>3, <2>3, <3>2 DEF Capturable
    <2> QED
      BY <2>1, <2>2, <2>3
  <1>5. /\ refused' \in Optional(Refusals)
        /\ RefusedRightly'
        /\ refused' # None => UNCHANGED snapshot
    BY <1>2, <1>4, RefusalAssumption, SnapshotAssumption
       DEF RefusedRightly, Post, Refusals, CaptureFailures, Optional
  <1>6. refused' = None =>
          /\ Capturable(asof)
          /\ id # EmptyId
          /\ snapshot' = MakeSnapshot(version, asof, id, clock)
    BY <1>4, RefusalAssumption DEF Refusals, CaptureFailures
  <1> QED
    BY <1>5, <1>6, CapturesKeep DEF Post

LEMMA StoreIInv == IInv /\ Store => IInv'
  <1> SUFFICES ASSUME IInv, Store PROVE IInv'
    OBVIOUS
  <1> DEFINE record == DumpSnapshot(snapshot)
  <1>1. snapshot \in Snapshots(AsOf) /\ IsCapture(snapshot)
    BY DEF Store, IInv, TypeOK, Optional
  <1>2. record \in Snapshots([asof : AsOf, tuples : {FALSE}]) /\ IsRecord(record)
    BY <1>1, DumpsAre DEF DumpSnapshot, Snapshots, IsCapture, IsRecord, Capturable
  <1>3. TypeOK'
    BY <1>2 DEF IInv, TypeOK, Store
  <1> QED
    BY <1>2, <1>3 DEF IInv, Store, IsCapture, IsRecord, version, RefusedRightly

LEMMA LoadIInv == IInv /\ Load => IInv'
  <1> SUFFICES ASSUME IInv, Load PROVE IInv'
    OBVIOUS
  <1>1. PICK record \in stored :
          \/ /\ AcceptsSnapshot(version, record)
             /\ snapshot' = ValidateSnapshot(record)
             /\ refused' = None
          \/ /\ ~AcceptsSnapshot(version, record)
             /\ refused' = "version"
             /\ UNCHANGED snapshot
    BY DEF Load
  <1>2. record \in Snapshots([asof : AsOf, tuples : {FALSE}]) /\ IsRecord(record)
    BY DEF IInv, TypeOK
  <1>3. CASE AcceptsSnapshot(version, record)
    <2>1. ModelValidate(record.asof) = record.asof.asof
      BY <1>2, DumpsAre DEF IsRecord, Capturable
    <2>2. /\ ValidateSnapshot(record) \in Snapshots(AsOf)
          /\ IsCapture(ValidateSnapshot(record))
      BY <1>2, <1>3, <2>1, AnswersAre
         DEF ValidateSnapshot, Snapshots, IsRecord, IsCapture, AcceptsSnapshot,
             Capturable
    <2>3. snapshot' = ValidateSnapshot(record) /\ refused' = None
      BY <1>1, <1>3
    <2>4. TypeOK'
      BY <2>2, <2>3 DEF IInv, TypeOK, Load, Optional
    <2> QED
      BY <2>2, <2>3, <2>4, RefusalAssumption
         DEF IInv, Load, IsCapture, IsRecord, version, Refusals, CaptureFailures,
             RefusedRightly
  <1>4. CASE ~AcceptsSnapshot(version, record)
    BY <1>1, <1>4
       DEF IInv, TypeOK, Load, IsCapture, IsRecord, version, Refusals, Optional,
           RefusedRightly
  <1> QED
    BY <1>3, <1>4

LEMMA UpgradeIInv == IInv /\ Upgrade => IInv'
  <1> SUFFICES ASSUME IInv, Upgrade PROVE IInv'
    OBVIOUS
  <1>1. TypeOK'
    <2>1. release' \in 1 .. Len(Releases)
      BY ArchiveAssumption DEF IInv, TypeOK, Upgrade
    <2> QED
      BY <2>1 DEF IInv, TypeOK, Upgrade, Optional
  <1> QED
    BY <1>1, RefusalAssumption
       DEF IInv, Upgrade, IsRecord, Refusals, CaptureFailures, RefusedRightly

LEMMA NextIInv == IInv /\ [Next]_vars => IInv'
  <1>1. ASSUME IInv, Tick PROVE IInv'
    <2>1. clock' \in Instants
      BY <1>1, MaxTimeAssumption DEF IInv, TypeOK, Tick, Instants
    <2> QED
      BY <1>1, <2>1
         DEF IInv, TypeOK, Tick, IsCapture, IsRecord, version, RefusedRightly
  <1>2. IInv /\ UNCHANGED vars => IInv'
    BY DEF IInv, TypeOK, vars, IsCapture, IsRecord, version, RefusedRightly
  <1> QED
    BY <1>1, <1>2, TakeIInv, CaptureIInv, PostIInv, StoreIInv, LoadIInv, UpgradeIInv
       DEF Next

LEMMA SpecIInv == Spec => []IInv
  BY InitIInv, NextIInv, PTL DEF Spec

-----------------------------------------------------------------------------

\* Every variable has its type: snapshots hold validated answers, records their
\* dumps (snapshot.py 66-85).
THEOREM ArchiveTypeCorrect == Spec => []TypeOK
  BY SpecIInv, PTL DEF IInv

\* The content hash identifies content, schema and contract and nothing else
\* (snapshot.py 48-63).
THEOREM HashIdentifies == Spec => []ContentIdentity
  <1>1. ASSUME IInv, NEW a \in stored, NEW b \in stored
        PROVE  (a.content_hash = b.content_hash) <=>
                 /\ a.asof = b.asof
                 /\ a.version.snapshot_schema_version = b.version.snapshot_schema_version
                 /\ a.version.semantic_contract_version
                      = b.version.semantic_contract_version
    <2>1. IsRecord(a) /\ IsRecord(b)
      BY <1>1 DEF IInv
    <2> QED
      BY <2>1 DEF IsRecord, ContentHash
  <1>2. IInv => ContentIdentity
    BY <1>1 DEF ContentIdentity
  <1> QED
    BY <1>2, SpecIInv, PTL

\* Although the hash of a record is never compared with its content, it fits
\* whatever snapshot a release has at hand (snapshot.py 66-85, models.py 347-393).
THEOREM HashFits == Spec => []HashFitsContent
  <1>1. IInv => HashFitsContent
    BY DEF IInv, IsCapture, HashFitsContent
  <1> QED
    BY <1>1, SpecIInv, PTL

\* A capture fails over an answer only because UTF-8 cannot encode it or the market
\* kept local mean time, in the process and over HTTP, and of such answers there is
\* never a snapshot (snapshot.py 78-79, models.py 281-285).
THEOREM CanBeCaptured == Spec => []AnswersCanBeCaptured
  <1>1. IInv => AnswersCanBeCaptured
    BY DEF IInv, IsCapture, Capturable, RefusedRightly, AnswersCanBeCaptured
  <1> QED
    BY <1>1, SpecIInv, PTL

\* What is in a snapshot is an answer of the resolver, whatever projections a client
\* has posted with it (models.py 271-294).
THEOREM NothingMadeUp == Spec => []NothingIsMadeUp
  <1>1. IInv => NothingIsMadeUp
    BY DEF IInv, IsCapture, IsRecord, Capturable, NothingIsMadeUp
  <1> QED
    BY <1>1, SpecIInv, PTL
=============================================================================
