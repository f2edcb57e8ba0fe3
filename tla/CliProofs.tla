------------------------------ MODULE CliProofs ------------------------------
(***************************************************************************)
(* Proofs about the command line.  Its processes are calls of the          *)
(* resolver; what they print follows from one more inductive invariant.    *)
(***************************************************************************)
EXTENDS Cli, ResolverProofs

\* Whatever processes are started, they take the steps of the resolver and no
\* others (cli.py 215-304).
THEOREM CallsOfProcesses == CliSpec => ProcessesAreCalls
  <1>1. CliInit => Init
    BY DEF CliInit
  <1>2. ASSUME [CliNext]_cliVars PROVE [Next]_vars
    <2>1. CASE /\ Tick \/ \E i \in Positions : WriteFile(i)
               /\ UNCHANGED <<invocation, exit>>
      BY <2>1 DEF Next
    <2>2. ASSUME NEW c \in Callers, Start(c)
          PROVE  [Next]_vars
      BY <2>2 DEF Start, Call, Refuse, Next
    <2>3. ASSUME NEW c \in Callers, Misuse(c) \/ Serve(c) \/ End(c) \/ Stop(c)
          PROVE  UNCHANGED vars
      BY <2>3 DEF Misuse, Serve, End, Stop
    <2>4. ASSUME NEW c \in Callers, Resolving(c)
          PROVE  Next
      BY <2>4 DEF Resolving, Proceed, Next
    <2>5. ASSUME NEW c \in Callers, Reap(c)
          PROVE  [Next]_vars
      BY <2>5 DEF Reap, Proceed, Next
    <2>6. CASE UNCHANGED cliVars
      BY <2>6 DEF cliVars
    <2> QED
      BY <1>2, <2>1, <2>2, <2>3, <2>4, <2>5, <2>6 DEF CliNext
  <1> QED
    BY <1>1, <1>2, PTL DEF CliSpec, ProcessesAreCalls, Spec

\* What is known of the calls in every state of the command line.
CallsInv == IInv /\ EndsAreKnown

LEMMA SpecCallsInv == CliSpec => []CallsInv
  BY CallsOfProcesses, SpecIInv, SpecEnds, PTL DEF ProcessesAreCalls, CallsInv

-----------------------------------------------------------------------------
(* The inductive invariant *)

\* The process has an answer that it cannot make a snapshot of.
NotCaptured(c) ==
  /\ answer[c] # None
  /\ invocation[c].command = "snapshot"
  /\ \/ /\ ~Encodes(answer[c].sources)
        /\ exit[c] = Crash
     \/ /\ Encodes(answer[c].sources)
        /\ answer[c].market_datetime.odd \/ invocation[c].snapshot_id = EmptyId
        /\ exit[c] = PrintError("INVALID_SNAPSHOT")

\* The process printed a snapshot of its answer.
Captured(c) ==
  /\ answer[c] # None
  /\ invocation[c].command = "snapshot"
  /\ invocation[c].snapshot_id \in SnapshotIds
  /\ Encodes(answer[c].sources)
  /\ ~answer[c].market_datetime.odd
  /\ \E at \in Instants :
       /\ exit[c] = Succeed(DumpSnapshot(MakeSnapshot(PinnedVersion, answer[c],
                                          invocation[c].snapshot_id, at)))
       /\ request[c].as_of_utc = None => at >= now_utc[c]

\* The process made its call, and printed what became of it.
Called(c) ==
  /\ pc[c] = "done"
  /\ \/ raised[c] = Refused /\ exit[c] = PrintError("INVALID_REQUEST")
     \/ raised[c] = Escaped /\ exit[c] = Crash
     \/ raised[c] \in ErrorReasonCode /\ exit[c] = PrintError(raised[c])
     \/ /\ answer[c] # None
        /\ invocation[c].command = "resolve"
        /\ exit[c] = Succeed(JsonDump(answer[c]))
     \/ NotCaptured(c)
     \/ Captured(c)

\* The process could not build what its call needs.
NotCalled(c) ==
  /\ pc[c] = "idle"
  /\ ~invocation[c].fits
  /\ exit[c] = PrintError(IF AcceptsRequest(invocation[c].request)
                            THEN "INVALID_PROVIDER" ELSE "INVALID_REQUEST")

\* A process and its call agree on where they are.
ProcessIsCoherent(c) ==
  /\ invocation[c] \in Optional(Invocations)
  /\ invocation[c] = None => pc[c] = "idle" /\ exit[c] = None
  /\ pc[c] # "idle" =>
       /\ invocation[c].command \in Resolves
       /\ invocation[c].fits
       /\ invocation[c].request = request[c]
  /\ exit[c] # None =>
       \/ /\ invocation[c].command \notin Resolves
          /\ exit[c] \in {PrintError(None), PrintError("NOT_IMPLEMENTED"), Crash,
                         Succeed(None)}
       \/ NotCalled(c)
       \/ Called(c)
  /\ invocation[c] # None /\ pc[c] = "idle" /\ invocation[c].command \in Resolves =>
       NotCalled(c)

CliInv ==
  /\ invocation \in [Callers -> Optional(Invocations)]
  /\ DOMAIN exit = Callers /\ exit = [c \in Callers |-> exit[c]]
  /\ \A c \in Callers : ProcessIsCoherent(c)

\* Nothing of a process or its call changes.
Still(c) ==
  /\ invocation'[c] = invocation[c]
  /\ exit'[c] = exit[c]
  /\ pc'[c] = pc[c]
  /\ request'[c] = request[c]
  /\ now_utc'[c] = now_utc[c]
  /\ answer'[c] = answer[c]
  /\ raised'[c] = raised[c]

LEMMA StillCoherent ==
  ASSUME NEW c \in Callers, ProcessIsCoherent(c), Still(c)
  PROVE  ProcessIsCoherent(c)'
  <1>1. Called(c)' <=> Called(c)
    BY DEF Still, Called, NotCaptured, Captured
  <1>2. NotCalled(c)' <=> NotCalled(c)
    BY DEF Still, NotCalled
  <1> QED
    BY <1>1, <1>2 DEF Still, ProcessIsCoherent

\* The steps of one process leave the others alone.
LEMMA OthersAreStill ==
  ASSUME IInv, CliInv, NEW c \in Callers, NEW d \in Callers \ {c},
         Misuse(c) \/ Start(c) \/ Serve(c) \/ Resolving(c) \/ End(c) \/ Stop(c) \/ Reap(c)
  PROVE  Still(d)
  <1>1. /\ invocation \in [Callers -> Optional(Invocations)]
        /\ exit = [e \in Callers |-> exit[e]]
    BY DEF CliInv
  <1>2. Submit(c) \/ Proceed(c) \/ UNCHANGED vars =>
          /\ pc'[d] = pc[d]
          /\ request'[d] = request[d]
          /\ now_utc'[d] = now_utc[d]
          /\ answer'[d] = answer[d]
          /\ raised'[d] = raised[d]
    BY DEF IInv, TypeOK, Submit, Proceed, Begin, Report, Finish, Return, Fail, vars,
           arguments
  <1>3. Submit(c) \/ Proceed(c) \/ UNCHANGED vars
    BY DEF Misuse, Start, Call, Refuse, Serve, Resolving, End, Stop, Reap, Proceed
  <1>4. invocation'[d] = invocation[d] /\ exit'[d] = exit[d]
    BY <1>1 DEF Misuse, Start, Call, Refuse, Serve, Resolving, End, Stop, Reap, Invoke,
       ExitWith
  <1> QED
    BY <1>2, <1>3, <1>4 DEF Still

-----------------------------------------------------------------------------
(* One step of one process *)

\* What an invocation leaves: the process, not yet or no longer in a call.
LEMMA InvokeIs ==
  ASSUME CliInv, NEW c \in Callers, NEW command \in Resolves \cup {"serve", "malformed"},
         NEW snapshot_id \in SnapshotIds \cup {EmptyId}, NEW r \in Optional(RawRequest),
         NEW fits \in BOOLEAN, Invoke(c, command, snapshot_id, r, fits)
  PROVE  /\ invocation[c] = None /\ pc[c] = "idle" /\ exit[c] = None
         /\ invocation'[c] \in Invocations
         /\ invocation'[c].command = command
         /\ invocation'[c].request = r
         /\ invocation'[c].fits = fits
         /\ invocation'[c] # None
  <1>1. invocation'[c] = [command |-> command, snapshot_id |-> snapshot_id,
                          request |-> r, fits |-> fits]
    BY DEF CliInv, Invoke
  <1>2. invocation'[c] \in Invocations
    BY <1>1 DEF Invocations
  <1> QED
    BY <1>1, <1>2, InvocationAssumption DEF CliInv, ProcessIsCoherent, Invoke

LEMMA StartKeeps ==
  ASSUME CallsInv, CallsInv', CliInv, NEW c \in Callers, Start(c)
  PROVE  ProcessIsCoherent(c)'
  <1>1. PICK command \in Resolves, snapshot_id \in SnapshotIds \cup {EmptyId},
             r \in Requests, fits \in BOOLEAN :
          /\ Invoke(c, command, snapshot_id, r, fits)
          /\ \/ fits /\ Call(c, r)
             \/ ~fits /\ Refuse(c, r)
    BY DEF Start
  <1>2. /\ r \in Optional(RawRequest)
        /\ command \in Resolves \cup {"serve", "malformed"}
    BY ResolverAssumption DEF Optional
  <1>3. /\ pc[c] = "idle" /\ exit[c] = None
        /\ invocation'[c] \in Invocations
        /\ invocation'[c].command = command
        /\ invocation'[c].request = r
        /\ invocation'[c].fits = fits
        /\ invocation'[c] # None
    BY <1>1, <1>2, InvokeIs
  <1>4. CASE fits /\ Call(c, r)
    <2>1. exit'[c] = None /\ request'[c] = r /\ pc'[c] # "idle"
      BY <1>3, <1>4 DEF Call, Submit, Fail, CallsInv, IInv, TypeOK
    <2> QED
      BY <1>3, <1>4, <2>1 DEF ProcessIsCoherent, Optional
  <1>5. CASE ~fits /\ Refuse(c, r)
    <2>1. /\ exit'[c] = PrintError(IF AcceptsRequest(r) THEN "INVALID_PROVIDER"
                                                       ELSE "INVALID_REQUEST")
          /\ pc'[c] = "idle"
      BY <1>3, <1>5 DEF Refuse, ExitWith, CliInv, vars
    <2>2. NotCalled(c)'
      BY <1>3, <1>5, <2>1 DEF NotCalled
    <2> QED
      BY <1>3, <2>1, <2>2 DEF ProcessIsCoherent, Optional
  <1> QED
    BY <1>1, <1>4, <1>5

\* Processes that make no call.
LEMMA OtherCommandsKeep ==
  ASSUME CallsInv, CliInv, NEW c \in Callers, Misuse(c) \/ Serve(c) \/ Stop(c)
  PROVE  ProcessIsCoherent(c)'
  <1>1. CASE Misuse(c) \/ Serve(c)
    <2>1. PICK command \in {"malformed", "serve"}, fits \in BOOLEAN :
            Invoke(c, command, EmptyId, None, fits)
      BY <1>1 DEF Misuse, Serve
    <2>2. /\ command \in Resolves \cup {"serve", "malformed"}
          /\ command \notin Resolves
          /\ EmptyId \in SnapshotIds \cup {EmptyId}
          /\ None \in Optional(RawRequest)
      BY DEF Resolves, Optional
    <2>3. /\ pc[c] = "idle" /\ exit[c] = None
          /\ invocation'[c] \in Invocations
          /\ invocation'[c].command = command
          /\ invocation'[c] # None
      BY <2>1, <2>2, InvokeIs
    <2>4. /\ exit'[c] \in {None, PrintError(None), PrintError("NOT_IMPLEMENTED"), Crash}
          /\ pc'[c] = "idle"
      BY <1>1, <2>3 DEF Misuse, Serve, ExitWith, CliInv, vars
    <2> QED
      BY <2>2, <2>3, <2>4 DEF ProcessIsCoherent, Optional
  <1>2. CASE Stop(c)
    <2>1. /\ ProcessIsCoherent(c)
          /\ invocation[c] # None /\ invocation[c].command = "serve"
          /\ exit'[c] = Succeed(None)
          /\ UNCHANGED <<vars, invocation>>
      BY <1>2 DEF Stop, ExitWith, CliInv
    <2>2. invocation[c].command \notin Resolves
      BY <2>1 DEF Resolves
    <2> QED
      BY <2>1, <2>2 DEF ProcessIsCoherent, vars
  <1> QED
    BY <1>1, <1>2

LEMMA ResolvingKeeps ==
  ASSUME CallsInv, CallsInv', CliInv, NEW c \in Callers, Resolving(c)
  PROVE  ProcessIsCoherent(c)'
  <1>1. /\ ProcessIsCoherent(c)
        /\ UNCHANGED <<invocation, exit, request>>
    BY DEF CliInv, Resolving, Begin, Report, Finish, arguments
  <1>2. pc[c] \in {"accepted", "reporting"}
    BY DEF Resolving, Begin, Report, Finish
  <1>3. pc'[c] # "idle"
    BY <1>2 DEF Resolving, Begin, Report, Finish, Fail, CallsInv, IInv, TypeOK
  <1>4. exit[c] = None
    <2>1. invocation[c].command \in Resolves
      BY <1>1, <1>2 DEF ProcessIsCoherent
    <2> QED
      BY <1>1, <1>2, <2>1 DEF ProcessIsCoherent, NotCalled, Called
  <1> QED
    BY <1>1, <1>2, <1>3, <1>4 DEF ProcessIsCoherent

\* What the resolver answered, and when.
LEMMA AnswerIsValid ==
  ASSUME IInv, NEW c \in Callers, answer[c] # None
  PROVE  /\ answer[c] \in AsOf
         /\ AcceptsAsOf(answer[c])
         /\ answer[c].resolved_at_utc = now_utc[c]
         /\ now_utc[c] \in Instants
         /\ request[c].as_of_utc = None => clock >= now_utc[c]
  BY AnswerStands DEF Answered

LEMMA EndKeeps ==
  ASSUME CallsInv, CliInv, NEW c \in Callers, End(c)
  PROVE  ProcessIsCoherent(c)'
  <1>1. /\ ProcessIsCoherent(c)
        /\ pc[c] = "done"
        /\ exit'[c] = Ending(c)
        /\ UNCHANGED <<vars, invocation>>
    BY DEF CliInv, End, ExitWith
  <1>2. /\ invocation[c].command \in Resolves
        /\ invocation[c] # None
        /\ invocation[c].fits
        /\ invocation[c].request = request[c]
        /\ invocation[c].snapshot_id \in SnapshotIds \cup {EmptyId}
    BY <1>1 DEF ProcessIsCoherent, Optional, Invocations
  <1>3. EndIsKnown(c) /\ raised[c] \in Optional(ErrorReasonCode \cup {Escaped, Refused})
    BY DEF CallsInv, EndsAreKnown, IInv, TypeOK
  <1>4. /\ None # Escaped /\ None # Refused /\ None \notin ErrorReasonCode
        /\ Refused # Escaped /\ Refused \notin ErrorReasonCode
        /\ Escaped \notin ErrorReasonCode
    <2>1. None # Escaped /\ None # Refused /\ None \notin ErrorReasonCode
      BY EscapedAssumption, RefusedAssumption, SentinelAssumption, ReasonAssumption
    <2> QED
      BY <2>1 DEF Refused, Escaped, ErrorReasonCode
  <1>5. Called(c)'
    <2>1. CASE raised[c] # None
      <3>1. \/ raised[c] = Refused /\ Ending(c) = PrintError("INVALID_REQUEST")
            \/ raised[c] = Escaped /\ Ending(c) = Crash
            \/ raised[c] \in ErrorReasonCode /\ Ending(c) = PrintError(raised[c])
        BY <1>3, <1>4, <2>1 DEF Ending, Optional
      <3> QED
        BY <1>1, <3>1 DEF Called, vars
    <2>2. CASE raised[c] = None /\ invocation[c].command = "resolve"
      <3>1. answer[c] # None
        BY <1>1, <1>3, <2>2 DEF EndIsKnown
      <3>2. Ending(c) = Succeed(JsonDump(answer[c]))
        BY <1>4, <2>2 DEF Ending
      <3> QED
        BY <1>1, <2>2, <3>1, <3>2 DEF Called, vars
    <2>3. CASE raised[c] = None /\ invocation[c].command = "snapshot"
      <3>1. answer[c] # None
        BY <1>1, <1>3, <2>3 DEF EndIsKnown
      <3> DEFINE asof == answer[c]
                 id == invocation[c].snapshot_id
      <3>2. /\ asof \in AsOf /\ AcceptsAsOf(asof)
            /\ clock \in Instants
            /\ request[c].as_of_utc = None => clock >= now_utc[c]
        BY <3>1, AnswerIsValid DEF CallsInv, IInv, TypeOK
      <3>3. SnapshotFailure(asof, id)
              = IF ~Encodes(asof.sources) THEN "encoding"
                ELSE IF asof.market_datetime.odd THEN "round_trip"
                ELSE IF id = EmptyId THEN "snapshot_id"
                ELSE None
        BY <3>2, FailureIs
      <3>4. Ending(c) = EndingWith(asof, id)
        BY <1>4, <2>3 DEF Ending
      <3>5. CASE ~Encodes(asof.sources)
        <4>1. exit'[c] = Crash
          BY <1>1, <3>3, <3>4, <3>5 DEF EndingWith
        <4>2. NotCaptured(c)'
          BY <1>1, <2>3, <3>1, <3>5, <4>1 DEF NotCaptured, vars
        <4> QED
          BY <1>1, <4>2 DEF Called, vars
      <3>6. CASE Encodes(asof.sources) /\ (asof.market_datetime.odd \/ id = EmptyId)
        <4>1. SnapshotFailure(asof, id) \in {"round_trip", "snapshot_id"}
          BY <3>3, <3>6
        <4>2. exit'[c] = PrintError("INVALID_SNAPSHOT")
          BY <1>1, <3>4, <4>1 DEF EndingWith
        <4>3. NotCaptured(c)'
          BY <1>1, <2>3, <3>1, <3>6, <4>2 DEF NotCaptured, vars
        <4> QED
          BY <1>1, <4>3 DEF Called, vars
      <3>7. CASE Encodes(asof.sources) /\ ~asof.market_datetime.odd /\ id # EmptyId
        <4>1. SnapshotFailure(asof, id) = None
          BY <3>3, <3>7
        <4>2. exit'[c] = Succeed(DumpSnapshot(MakeSnapshot(PinnedVersion, asof, id, clock)))
          BY <1>1, <3>4, <4>1, SnapshotAssumption DEF EndingWith, CaptureFailures
        <4>3. Captured(c)'
          BY <1>1, <1>2, <2>3, <3>1, <3>2, <3>7, <4>2 DEF Captured, vars, arguments
        <4> QED
          BY <1>1, <4>3 DEF Called, vars
      <3> QED
        BY <3>5, <3>6, <3>7
    <2> QED
      BY <1>2, <2>1, <2>2, <2>3 DEF Resolves
  <1> QED
    BY <1>1, <1>2, <1>5 DEF ProcessIsCoherent, vars

LEMMA ReapKeeps ==
  ASSUME CallsInv, CallsInv', CliInv, NEW c \in Callers, Reap(c)
  PROVE  ProcessIsCoherent(c)'
  <1>1. invocation'[c] = None /\ exit'[c] = None
    BY DEF CliInv, Reap
  <1>2. pc'[c] = "idle"
    BY DEF Reap, Return, CallsInv, IInv, TypeOK, vars
  <1> QED
    BY <1>1, <1>2 DEF ProcessIsCoherent, Optional

-----------------------------------------------------------------------------
(* The invariant of the command line *)

\* One process's step keeps the invariant, once that process stays coherent.
LEMMA OneProcessMoves ==
  ASSUME CallsInv, CliInv, NEW c \in Callers, ProcessIsCoherent(c)',
         Misuse(c) \/ Start(c) \/ Serve(c) \/ Resolving(c) \/ End(c) \/ Stop(c) \/ Reap(c)
  PROVE  CliInv'
  <1>1. /\ invocation \in [Callers -> Optional(Invocations)]
        /\ DOMAIN exit = Callers /\ exit = [d \in Callers |-> exit[d]]
    BY DEF CliInv
  <1>2. invocation'[c] \in Optional(Invocations)
    BY DEF ProcessIsCoherent
  <1>3. /\ \/ invocation' = invocation
           \/ \E to : invocation' = [invocation EXCEPT ![c] = to]
        /\ \/ exit' = exit
           \/ \E to : exit' = [exit EXCEPT ![c] = to]
    BY DEF Misuse, Start, Call, Refuse, Serve, Resolving, End, Stop, Reap, Invoke,
       ExitWith
  <1>4. /\ invocation' \in [Callers -> Optional(Invocations)]
        /\ DOMAIN exit' = Callers /\ exit' = [d \in Callers |-> exit'[d]]
    BY <1>1, <1>2, <1>3
  <1>5. \A d \in Callers \ {c} : ProcessIsCoherent(d)'
    BY OthersAreStill, StillCoherent DEF CliInv, CallsInv
  <1> QED
    BY <1>4, <1>5 DEF CliInv

LEMMA InitCliInv == CliInit => CliInv
  BY DEF CliInit, Init, CliInv, ProcessIsCoherent, Optional

LEMMA NextCliInv == CallsInv /\ CallsInv' /\ CliInv /\ [CliNext]_cliVars => CliInv'
  <1> SUFFICES ASSUME CallsInv, CallsInv', CliInv, [CliNext]_cliVars
               PROVE  CliInv'
    OBVIOUS
  <1>1. CASE \/ /\ Tick \/ \E i \in Positions : WriteFile(i)
                /\ UNCHANGED <<invocation, exit>>
             \/ UNCHANGED cliVars
    <2>1. \A c \in Callers : Still(c)
      BY <1>1 DEF Tick, WriteFile, cliVars, vars, Still
    <2>2. UNCHANGED <<invocation, exit>>
      BY <1>1 DEF cliVars
    <2> QED
      BY <2>1, <2>2, StillCoherent DEF CliInv
  <1>2. ASSUME NEW c \in Callers,
               \/ Misuse(c) \/ Start(c) \/ Serve(c) \/ Resolving(c) \/ End(c)
               \/ Stop(c) \/ Reap(c)
        PROVE  CliInv'
    <2>1. ProcessIsCoherent(c)'
      BY <1>2, StartKeeps, OtherCommandsKeep, ResolvingKeeps, EndKeeps, ReapKeeps
    <2> QED
      BY <1>2, <2>1, OneProcessMoves
  <1> QED
    BY <1>1, <1>2 DEF CliNext

LEMMA SpecCliInv == CliSpec => [](CallsInv /\ CliInv)
  BY SpecCallsInv, InitCliInv, NextCliInv, PTL DEF CliSpec

-----------------------------------------------------------------------------
(* What the processes print *)

LEMMA PrintedIsSome ==
  ASSUME NEW asof \in AsOf, AcceptsAsOf(asof),
         NEW id \in SnapshotIds, NEW at \in Instants
  PROVE  /\ JsonDump(asof) \in Printed
         /\ ~asof.market_datetime.odd =>
              LET dump == DumpSnapshot(MakeSnapshot(PinnedVersion, asof, id, at))
              IN  /\ dump \in Printed
                  /\ dump.asof = JsonDump(asof)
                  /\ dump.content_hash = ContentHash(PinnedVersion, asof)
                  /\ dump.captured_at_utc = at
  <1>1. JsonDump(asof) \in PrintedAnswers
    BY DumpIsAsOf DEF JsonDump, PrintedAnswers
  <1>2. ContentHash(PinnedVersion, asof) \in Hashes
    BY <1>1 DEF ContentHash, Hashes
  <1>3. ASSUME NEW dump, ~asof.market_datetime.odd,
               dump = DumpSnapshot(MakeSnapshot(PinnedVersion, asof, id, at))
        PROVE  /\ dump \in PrintedSnapshots
               /\ dump.asof = JsonDump(asof)
               /\ dump.content_hash = ContentHash(PinnedVersion, asof)
               /\ dump.captured_at_utc = at
    <2>1. ModelValidate(JsonDump(asof)) = asof
      BY <1>3, RoundTrip
    <2>2. dump = [snapshot_id     |-> id,
                  version         |-> PinnedVersion,
                  captured_at_utc |-> at,
                  asof            |-> JsonDump(asof),
                  content_hash    |-> ContentHash(PinnedVersion, asof)]
      BY <1>3, <2>1 DEF DumpSnapshot, MakeSnapshot
    <2>3. PinnedVersion \in {PinnedVersion}
      OBVIOUS
    <2> QED
      BY <1>1, <1>2, <2>2, <2>3 DEF PrintedSnapshots
  <1> QED
    BY <1>1, <1>3 DEF Printed

\* What a process that exited with code 0 has printed.
LEMMA PrintingIs ==
  ASSUME CallsInv, CliInv, NEW c \in Callers, Printing(c)
  PROVE  /\ answer[c] # None
         /\ invocation[c].request = request[c]
         /\ exit[c].stderr = None
         /\ exit[c].stdout \in Printed
         /\ \/ /\ invocation[c].command = "resolve"
               /\ exit[c].stdout = JsonDump(answer[c])
            \/ /\ invocation[c].command = "snapshot"
               /\ invocation[c].snapshot_id \in SnapshotIds
               /\ Encodes(answer[c].sources)
               /\ ~answer[c].market_datetime.odd
               /\ exit[c].stdout.asof = JsonDump(answer[c])
               /\ exit[c].stdout.content_hash = ContentHash(PinnedVersion, answer[c])
               /\ request[c].as_of_utc = None =>
                    exit[c].stdout.captured_at_utc >= answer[c].resolved_at_utc
  <1>1. /\ ProcessIsCoherent(c)
        /\ exit[c] # None /\ exit[c].code = 0
        /\ invocation[c].command \in Resolves
    BY DEF CliInv, Printing, Ended
  <1>2. Called(c)
    BY <1>1 DEF ProcessIsCoherent, NotCalled, PrintError, Exit
  <1>3. invocation[c].request = request[c]
    BY <1>1, <1>2 DEF ProcessIsCoherent, Called
  <1>4. /\ answer[c] # None
        /\ \/ /\ invocation[c].command = "resolve"
              /\ exit[c] = Succeed(JsonDump(answer[c]))
           \/ Captured(c)
    BY <1>1, <1>2 DEF Called, NotCaptured, Captured, PrintError, Crash, Exit
  <1>5. /\ answer[c] \in AsOf
        /\ AcceptsAsOf(answer[c])
        /\ answer[c].resolved_at_utc = now_utc[c]
    BY <1>4, AnswerIsValid DEF CallsInv
  <1>6. CASE /\ invocation[c].command = "resolve"
             /\ exit[c] = Succeed(JsonDump(answer[c]))
    <2>1. JsonDump(answer[c]) \in Printed
      BY <1>5, DumpIsAsOf DEF Printed, PrintedAnswers, JsonDump
    <2> QED
      BY <1>3, <1>4, <1>6, <2>1 DEF Succeed, Exit
  <1>7. CASE Captured(c)
    <2>1. PICK at \in Instants :
            /\ exit[c] = Succeed(DumpSnapshot(MakeSnapshot(PinnedVersion, answer[c],
                                               invocation[c].snapshot_id, at)))
            /\ request[c].as_of_utc = None => at >= now_utc[c]
      BY <1>7 DEF Captured
    <2> DEFINE dump == DumpSnapshot(MakeSnapshot(PinnedVersion, answer[c],
                                                 invocation[c].snapshot_id, at))
    <2>2. exit[c].stdout = dump /\ exit[c].stderr = None
      BY <2>1 DEF Succeed, Exit
    <2>3. /\ dump \in Printed
          /\ dump.asof = JsonDump(answer[c])
          /\ dump.content_hash = ContentHash(PinnedVersion, answer[c])
          /\ dump.captured_at_utc = at
      BY <1>5, <1>7, PrintedIsSome DEF Captured
    <2> HIDE DEF dump
    <2> QED
      BY <1>3, <1>4, <1>5, <1>7, <2>1, <2>2, <2>3 DEF Captured
  <1> QED
    BY <1>4, <1>6, <1>7

\* A process that made its call and ended prints an answer or an error.
LEMMA CalledPrints ==
  ASSUME NEW c \in Callers, Ended(c), Called(c)
  PROVE  \/ raised[c] = Refused /\ exit[c] = PrintError("INVALID_REQUEST")
         \/ raised[c] = Escaped /\ exit[c] = Crash
         \/ raised[c] \in ErrorReasonCode /\ exit[c] = PrintError(raised[c])
         \/ Printing(c)
         \/ NotCaptured(c)
  <1>1. ASSUME NEW payload, exit[c] = Succeed(payload)
        PROVE  Printing(c)
    BY <1>1 DEF Printing, Succeed, Exit
  <1> QED
    BY <1>1 DEF Called, Captured

\* Every exit has its code and its streams their payloads (cli.py 215-304).
THEOREM CliTypeCorrect == CliSpec => []CliTypeOK
  <1>1. ASSUME CallsInv, CliInv, NEW c \in Callers, exit[c] # None
        PROVE  /\ exit[c].code \in 0 .. 2
               /\ exit[c].stdout \in Optional(Printed)
               /\ exit[c].stderr \in Optional(ErrorReasonCode)
    <2>1. ProcessIsCoherent(c)
      BY <1>1 DEF CliInv
    <2>2. CASE Printing(c)
      BY <2>2, PrintingIs, <1>1 DEF Printing, Optional
    <2>3. ASSUME NEW reason \in Optional(ErrorReasonCode),
                 exit[c] \in {PrintError(reason), Succeed(None), Crash}
          PROVE  /\ exit[c].code \in 0 .. 2
                 /\ exit[c].stdout \in Optional(Printed)
                 /\ exit[c].stderr \in Optional(ErrorReasonCode)
      BY <2>3 DEF PrintError, Succeed, Crash, Exit, Optional
    <2>4. CASE exit[c] \in {PrintError(None), PrintError("NOT_IMPLEMENTED"), Crash,
                            Succeed(None)}
      BY <2>3, <2>4 DEF Optional, ErrorReasonCode
    <2>5. CASE NotCalled(c)
      BY <2>3, <2>5 DEF NotCalled, Optional, ErrorReasonCode
    <2>6. CASE Called(c) /\ ~Printing(c)
      <3>1. invocation[c].command \in Resolves
        BY <2>1, <2>6 DEF ProcessIsCoherent, Called
      <3>2. \/ exit[c] = PrintError("INVALID_REQUEST")
            \/ exit[c] = Crash
            \/ raised[c] \in ErrorReasonCode /\ exit[c] = PrintError(raised[c])
            \/ exit[c] = PrintError("INVALID_SNAPSHOT")
        BY <1>1, <2>6, <3>1, CalledPrints DEF Ended, NotCaptured
      <3> QED
        BY <2>3, <3>2 DEF Optional, ErrorReasonCode
    <2> QED
      BY <1>1, <2>1, <2>2, <2>4, <2>5, <2>6 DEF ProcessIsCoherent
  <1>2. CallsInv /\ CliInv => CliTypeOK
    BY <1>1 DEF CliTypeOK, CallsInv, IInv, CliInv
  <1> QED
    BY <1>2, SpecCliInv, PTL

\* A process that snapshots prints what one that resolves would have printed, with
\* its content hash (cli.py 255-304, snapshot.py 66-85).
THEOREM SnapshotsOfTheAnswer == CliSpec => []SnapshotsAreOfTheAnswer
  <1>1. CallsInv /\ CliInv => SnapshotsAreOfTheAnswer
    BY PrintingIs DEF SnapshotsAreOfTheAnswer, PrintedAnswer
  <1> QED
    BY <1>1, SpecCliInv, PTL

\* Pinned to one instant, with the same in the files, every process prints the same
\* answer and the same hash, whenever it runs (cli.py 17-19).
THEOREM PinnedReproducible == CliSpec => []PinnedOutputIsReproducible
  <1>1. ASSUME CallsInv, CliInv, NEW c \in Callers, NEW d \in Callers,
               Printing(c), Printing(d),
               request[c] = request[d], policy[c] = policy[d],
               request[c].as_of_utc # None, collected[c] = collected[d]
        PROVE  /\ PrintedAnswer(c) = PrintedAnswer(d)
               /\ {invocation[c].command, invocation[d].command} = {"snapshot"} =>
                    exit[c].stdout.content_hash = exit[d].stdout.content_hash
    <2>1. answer[c] # None /\ answer[d] # None
      BY <1>1, PrintingIs
    <2>2. answer[c] = answer[d]
      <3>1. /\ answer[c] = Conclude(request[c], policy[c], now_utc[c], collected[c]).answer
            /\ answer[d] = Conclude(request[d], policy[d], now_utc[d], collected[d]).answer
            /\ now_utc[c] = request[c].as_of_utc
            /\ now_utc[d] = request[d].as_of_utc
        BY <1>1, <2>1
           DEF CallsInv, IInv, CallsAreCoherent, CallIsCoherent, Concluded, Underway
      <3> QED
        BY <1>1, <3>1
    <2>3. /\ PrintedAnswer(c) = JsonDump(answer[c])
          /\ PrintedAnswer(d) = JsonDump(answer[d])
      BY <1>1, PrintingIs DEF PrintedAnswer
    <2>4. ASSUME invocation[c].command = "snapshot", invocation[d].command = "snapshot"
          PROVE  /\ exit[c].stdout.content_hash = ContentHash(PinnedVersion, answer[c])
                 /\ exit[d].stdout.content_hash = ContentHash(PinnedVersion, answer[d])
      BY <1>1, <2>4, PrintingIs
    <2> QED
      BY <2>2, <2>3, <2>4
  <1>2. CallsInv /\ CliInv => PinnedOutputIsReproducible
    BY <1>1 DEF PinnedOutputIsReproducible
  <1> QED
    BY <1>2, SpecCliInv, PTL

\* The reason code that a process prints is of the first stage that failed, and it
\* prints a payload exactly when none did; a snapshot fails under an empty identifier,
\* of an answer in local mean time, and of one that UTF-8 cannot encode, then without
\* a reason code (cli.py 215-304, snapshot.py 76-85).
THEOREM FirstFailure == CliSpec => []FirstFailureIsNamed
  <1>1. ASSUME CallsInv, CliInv, NEW c \in Callers, Ended(c)
        PROVE  LET reason    == exit[c].stderr
                   accepted  == AcceptsRequest(invocation[c].request)
                   snapshots == invocation[c].command = "snapshot"
                   encodable == Encodes(answer[c].sources)
                   refused   == \/ answer[c].market_datetime.odd
                                \/ invocation[c].snapshot_id = EmptyId
               IN  /\ (reason = "INVALID_REQUEST") <=> ~accepted
                   /\ (reason = "INVALID_PROVIDER") <=> (accepted /\ ~invocation[c].fits)
                   /\ (reason = "INVALID_SNAPSHOT")
                        <=> (answer[c] # None /\ snapshots /\ encodable /\ refused)
                   /\ (exit[c].code = 0)
                        <=> (answer[c] # None /\ (snapshots => encodable /\ ~refused))
                   /\ (exit[c].code = 0) <=> (exit[c].stdout # None)
    <2> DEFINE accepted  == AcceptsRequest(invocation[c].request)
               snapshots == invocation[c].command = "snapshot"
               encodable == Encodes(answer[c].sources)
               refused   == \/ answer[c].market_datetime.odd
                            \/ invocation[c].snapshot_id = EmptyId
               named     == {"INVALID_REQUEST", "INVALID_PROVIDER", "INVALID_SNAPSHOT"}
    <2>1. /\ ProcessIsCoherent(c)
          /\ exit[c] # None /\ invocation[c].command \in Resolves
      BY <1>1 DEF Ended, CliInv
    <2>2. None \notin named
      <3>1. named \subseteq ErrorReasonCode
        BY DEF ErrorReasonCode
      <3> QED
        BY <3>1, SentinelAssumption, ReasonAssumption
    <2>3. EndIsKnown(c)
      BY <1>1 DEF CallsInv, EndsAreKnown
    <2>4. CASE NotCalled(c)
      <3>1. answer[c] = None
        BY <1>1, <2>4 DEF NotCalled, CallsInv, IInv, CallsAreCoherent, CallIsCoherent
      <3>2. exit[c] = PrintError(IF accepted THEN "INVALID_PROVIDER"
                                             ELSE "INVALID_REQUEST")
        BY <2>4 DEF NotCalled
      <3>3. ~invocation[c].fits
        BY <2>4 DEF NotCalled
      <3>4. /\ exit[c].stderr = IF accepted THEN "INVALID_PROVIDER" ELSE "INVALID_REQUEST"
            /\ exit[c].code = 2
            /\ exit[c].stdout = None
        BY <3>2 DEF PrintError, Exit
      <3> QED
        BY <3>1, <3>3, <3>4
    <2>5. CASE Called(c)
      <3>1. /\ pc[c] = "done"
            /\ invocation[c].fits
            /\ accepted <=> AcceptsRequest(request[c])
        BY <2>1, <2>5 DEF ProcessIsCoherent, Called
      <3>2. /\ (answer[c] = None) <=> (raised[c] # None)
            /\ (raised[c] = Refused) <=> ~accepted
        BY <2>3, <3>1 DEF EndIsKnown
      <3>3. CASE raised[c] = Refused /\ exit[c] = PrintError("INVALID_REQUEST")
        BY <3>1, <3>2, <3>3, RefusedAssumption DEF PrintError, Exit
      <3>4. CASE raised[c] = Escaped /\ exit[c] = Crash
        BY <2>2, <3>1, <3>2, <3>4, EscapedAssumption DEF Crash, Exit, Escaped, Refused
      <3>5. CASE raised[c] \in ErrorReasonCode /\ exit[c] = PrintError(raised[c])
        <4>1. raised[c] # None /\ raised[c] # Refused
          BY <3>5, SentinelAssumption, ReasonAssumption DEF Refused, ErrorReasonCode
        <4>2. raised[c] \notin named
          BY <2>2, <2>3, <4>1
             DEF EndIsKnown, Optional, CalendarReasons, GateReasons, Escaped
        <4> QED
          BY <3>1, <3>2, <3>5, <4>1, <4>2 DEF PrintError, Exit
      <3>6. CASE Printing(c)
        <4>1. /\ answer[c] # None
              /\ exit[c].code = 0 /\ exit[c].stderr = None /\ exit[c].stdout # None
              /\ snapshots => encodable /\ ~refused
          BY <1>1, <3>6, PrintingIs, PrintedAssumption, SnapshotAssumption DEF Printing
        <4> QED
          BY <2>2, <3>1, <3>2, <4>1, RefusedAssumption
      <3>7. CASE NotCaptured(c)
        <4>1. /\ answer[c] # None /\ snapshots /\ accepted
              /\ \/ ~encodable /\ exit[c] = Crash
                 \/ encodable /\ refused /\ exit[c] = PrintError("INVALID_SNAPSHOT")
          BY <3>2, <3>7, RefusedAssumption DEF NotCaptured
        <4>2. /\ exit[c].code # 0
              /\ exit[c].stdout = None
              /\ exit[c].stderr = IF encodable THEN "INVALID_SNAPSHOT" ELSE None
          BY <4>1 DEF PrintError, Crash, Exit
        <4> QED
          BY <2>2, <3>1, <4>1, <4>2
      <3>8. \/ raised[c] = Refused /\ exit[c] = PrintError("INVALID_REQUEST")
            \/ raised[c] = Escaped /\ exit[c] = Crash
            \/ raised[c] \in ErrorReasonCode /\ exit[c] = PrintError(raised[c])
            \/ Printing(c)
            \/ NotCaptured(c)
        BY <1>1, <2>5, CalledPrints
      <3> QED
        BY <3>3, <3>4, <3>5, <3>6, <3>7, <3>8
    <2> QED
      BY <2>1, <2>4, <2>5 DEF ProcessIsCoherent
  <1>2. CallsInv /\ CliInv => FirstFailureIsNamed
    BY <1>1 DEF FirstFailureIsNamed
  <1> QED
    BY <1>2, SpecCliInv, PTL

-----------------------------------------------------------------------------
(* What is printed *)

\* A process that prints an answer, of itself or in a snapshot, prints that of its
\* call, which has all that is proved of such answers (cli.py 255-304).
THEOREM PrintedAnswersAreResolved ==
  CliSpec =>
    [](/\ \A c \in Callers :
            Printing(c) => PrintedAnswer(c) = JsonDump(answer[c]) /\ c \in Answered
       /\ OneStatusPerProvider
       /\ CanonicalIsProven
       /\ NoFutureKnowledge
       /\ UsableIsYoungEnough
       /\ RequiredSourcesShow
       /\ DowngradesAreJustified
       /\ ProviderLayerRecoverable
       /\ ProofIsAccepted
       /\ OneMarketDay)
  <1>1. /\ SnapshotsAreOfTheAnswer /\ FirstFailureIsNamed
        => \A c \in Callers :
             Printing(c) => PrintedAnswer(c) = JsonDump(answer[c]) /\ c \in Answered
    BY DEF SnapshotsAreOfTheAnswer, FirstFailureIsNamed, Printing, Answered
  <1>2. Spec => [](/\ OneStatusPerProvider
                   /\ CanonicalIsProven
                   /\ NoFutureKnowledge
                   /\ UsableIsYoungEnough
                   /\ RequiredSourcesShow
                   /\ DowngradesAreJustified
                   /\ ProviderLayerRecoverable
                   /\ ProofIsAccepted
                   /\ OneMarketDay)
    BY OneStatus, CanonicalProven, NoFuture, YoungEnough, RequiredShow, Justified,
       Recoverable, ProofAccepted, OneDay, PTL
  <1> QED
    BY <1>1, <1>2, FirstFailure, SnapshotsOfTheAnswer, CallsOfProcesses, PTL
       DEF ProcessesAreCalls
=============================================================================
