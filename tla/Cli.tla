-------------------------------- MODULE Cli --------------------------------
(***************************************************************************)
(* The command line (cli.py): processes, each of which makes at most one   *)
(* call of resolve() and then exits, with a payload on one of its streams  *)
(* and a code.  Processes share nothing but the files and the clock.       *)
(*                                                                         *)
(* Names stands for the --source-file options, the same in every process.  *)
(* What argparse does with an option is left out, except that it refuses   *)
(* words that are no perspective and instants that are malformed.          *)
(***************************************************************************)
EXTENDS ResolverProperties, Snapshot

VARIABLES
  invocation,  \* the command of each process, or None where none runs
  exit         \* its exit code and what is on its streams, or None

cliVars == <<vars, invocation, exit>>

Resolves == {"resolve", "snapshot"}

Invocations ==
  [command     : Resolves \cup {"serve", "malformed"},
   snapshot_id : SnapshotIds \cup {EmptyId},
   request     : Optional(RawRequest),
   fits        : BOOLEAN]

\* Where no process runs, none was invoked.
ASSUME InvocationAssumption == None \notin Invocations

\* What is printed: an answer, or a snapshot.
PrintedAnswers == [asof : AsOf, tuples : {FALSE}]

Hashes ==
  [snapshot_schema_version   : {PinnedVersion.snapshot_schema_version},
   semantic_contract_version : {PinnedVersion.semantic_contract_version},
   asof                      : PrintedAnswers]

PrintedSnapshots ==
  [snapshot_id     : SnapshotIds,
   version         : {PinnedVersion},
   captured_at_utc : Instants,
   asof            : PrintedAnswers,
   content_hash    : Hashes]

Printed == PrintedAnswers \cup PrintedSnapshots

\* A process that prints nothing prints None.
ASSUME PrintedAssumption == None \notin Printed

\* An exit: the code, the payload on stdout or None, and the reason code of the
\* error payload on stderr or None.
Exit(code, stdout, stderr) == [code |-> code, stdout |-> stdout, stderr |-> stderr]

Succeed(payload) == Exit(0, payload, None)
PrintError(reason_code) == Exit(2, None, reason_code)

\* The interpreter ends a process that an exception leaves: a traceback, no payload.
Crash == Exit(1, None, None)

CliInit ==
  /\ Init
  /\ invocation = [c \in Callers |-> None]
  /\ exit = [c \in Callers |-> None]

-----------------------------------------------------------------------------
(* Starting *)

Invoke(c, command, snapshot_id, r, fits) ==
  /\ invocation[c] = None
  /\ invocation' = [invocation EXCEPT
       ![c] = [command |-> command, snapshot_id |-> snapshot_id, request |-> r,
               fits |-> fits]]

ExitWith(c, outcome) == exit' = [exit EXCEPT ![c] = outcome]

\* argparse refuses the command line and says so in its own words.
Misuse(c) ==
  /\ Invoke(c, "malformed", EmptyId, None, FALSE)
  /\ ExitWith(c, PrintError(None))
  /\ UNCHANGED vars

\* What argparse lets through.
Parsed(r) ==
  /\ r.perspective # Malformed
  /\ r.as_of_utc # Malformed
  /\ r.knowledge_cutoff_utc # Malformed

\* No option of a policy given: no policy.
Given(p) ==
  p # NoPolicy =>
    \/ p.required_sources # {}
    \/ p.max_age_seconds # None
    \/ \E name \in SourceNames : p.max_age_seconds_by_source[name] # None

\* Mutant: the providers are built before the request.
RefuseProvidersFirst(c, r) ==
  /\ ExitWith(c, PrintError("INVALID_PROVIDER"))
  /\ UNCHANGED vars

\* Options that make no providers or no policy: a source has two age limits, a
\* required source no name.  The request has been built before.
Refuse(c, r) ==
  /\ ExitWith(c, PrintError(IF AcceptsRequest(r) THEN "INVALID_PROVIDER"
                                                 ELSE "INVALID_REQUEST"))
  /\ UNCHANGED vars

\* The request is built, and the call made if it is accepted.
Call(c, r) ==
  /\ Submit(c)
  /\ request'[c] = r
  /\ Given(policy'[c])
  /\ UNCHANGED exit

\* resolve and snapshot: request, providers and policy are built.
Start(c) ==
  \E command \in Resolves, snapshot_id \in SnapshotIds \cup {EmptyId},
     r \in Requests, fits \in BOOLEAN :
    /\ command = "resolve" => snapshot_id = EmptyId
    /\ Parsed(r)
    /\ Invoke(c, command, snapshot_id, r, fits)
    /\ \/ fits /\ Call(c, r)
       \/ ~fits /\ Refuse(c, r)

\* serve: uvicorn is not installed, or fastapi is not, which nobody expects, or the
\* server runs until it is stopped.
Serve(c) ==
  /\ Invoke(c, "serve", EmptyId, None, TRUE)
  /\ \/ ExitWith(c, PrintError("NOT_IMPLEMENTED"))
     \/ ExitWith(c, Crash)
     \/ UNCHANGED exit
  /\ UNCHANGED vars

-----------------------------------------------------------------------------
(* Running *)

\* Mutant: a process that an exception has left asks again.
ResolvingAgain(c) ==
  /\ \/ Begin(c) \/ Report(c) \/ Finish(c)
     \/ /\ raised[c] = Escaped
        /\ pc' = [pc EXCEPT ![c] = "reporting"]
        /\ raised' = [raised EXCEPT ![c] = None]
        /\ UNCHANGED <<world, arguments, now_utc, asked, collected, answer>>
  /\ UNCHANGED <<invocation, exit>>

\* The steps of resolve().
Resolving(c) == (Begin(c) \/ Report(c) \/ Finish(c)) /\ UNCHANGED <<invocation, exit>>

\* The snapshot of an answer, where only a ValidationError is expected.
EndingWith(asof, snapshot_id) ==
  CASE SnapshotFailure(asof, snapshot_id) = "encoding" -> Crash
    [] SnapshotFailure(asof, snapshot_id) \in {"round_trip", "snapshot_id"} ->
         PrintError("INVALID_SNAPSHOT")
    [] OTHER ->
         Succeed(DumpSnapshot(MakeSnapshot(PinnedVersion, asof, snapshot_id, clock)))

\* What becomes of a process whose call is over.  What is printed is ASCII.
Ending(c) ==
  CASE raised[c] = Refused -> PrintError("INVALID_REQUEST")
    [] raised[c] = Escaped -> Crash
    [] raised[c] \in ErrorReasonCode -> PrintError(raised[c])
    [] raised[c] = None /\ invocation[c].command = "resolve" ->
         Succeed(JsonDump(answer[c]))
    [] raised[c] = None /\ invocation[c].command = "snapshot" ->
         EndingWith(answer[c], invocation[c].snapshot_id)

\* The payload is written and the process ends.
End(c) ==
  /\ pc[c] = "done"
  /\ exit[c] = None
  /\ ExitWith(c, Ending(c))
  /\ UNCHANGED <<vars, invocation>>

Stop(c) ==
  /\ invocation[c] # None
  /\ invocation[c].command = "serve"
  /\ exit[c] = None
  /\ ExitWith(c, Succeed(None))
  /\ UNCHANGED <<vars, invocation>>

\* Another process takes the place of one that has exited, and knows nothing of it.
Reap(c) ==
  /\ exit[c] # None
  /\ invocation' = [invocation EXCEPT ![c] = None]
  /\ exit' = [exit EXCEPT ![c] = None]
  /\ Return(c) \/ (pc[c] = "idle" /\ UNCHANGED vars)

CliNext ==
  \/ (Tick \/ \E i \in Positions : WriteFile(i)) /\ UNCHANGED <<invocation, exit>>
  \/ \E c \in Callers :
       Misuse(c) \/ Start(c) \/ Serve(c) \/ Resolving(c) \/ End(c) \/ Stop(c) \/ Reap(c)

CliSpec == CliInit /\ [][CliNext]_cliVars

-----------------------------------------------------------------------------
(* Properties *)

\* Processes are callers of the resolver, but for those whose providers could not
\* be built, which never call (cli.py 215-304).
ProcessesAreCalls == Spec

CliTypeOK ==
  /\ TypeOK
  /\ \A c \in Callers :
       /\ invocation[c] \in Optional(Invocations)
       /\ \/ exit[c] = None
          \/ /\ exit[c].code \in 0 .. 2
             /\ exit[c].stdout \in Optional(Printed)
             /\ exit[c].stderr \in Optional(ErrorReasonCode)

Ended(c) == exit[c] # None /\ invocation[c].command \in Resolves

Printing(c) == Ended(c) /\ exit[c].code = 0

\* Of the stages of a process (request, providers and policy, call, snapshot) the
\* reason code names the first that failed, and there is a payload on stdout exactly
\* when none did.  A snapshot fails under an empty identifier and of an answer in
\* local mean time, and without a reason code when UTF-8 cannot encode the answer,
\* which resolve prints all the same (cli.py 215-304, snapshot.py 76-85).
FirstFailureIsNamed ==
  \A c \in Callers :
    Ended(c) =>
      LET reason    == exit[c].stderr
          accepted  == AcceptsRequest(invocation[c].request)
          snapshots == invocation[c].command = "snapshot"
          encodable == Encodes(answer[c].sources)
          refused   == answer[c].market_datetime.odd \/ invocation[c].snapshot_id = EmptyId
      IN  /\ (reason = "INVALID_REQUEST") <=> ~accepted
          /\ (reason = "INVALID_PROVIDER") <=> (accepted /\ ~invocation[c].fits)
          /\ (reason = "INVALID_SNAPSHOT")
               <=> (answer[c] # None /\ snapshots /\ encodable /\ refused)
          /\ (exit[c].code = 0)
               <=> (answer[c] # None /\ (snapshots => encodable /\ ~refused))
          /\ (exit[c].code = 0) <=> (exit[c].stdout # None)

\* The answer on stdout, of itself or in a snapshot.
PrintedAnswer(c) ==
  IF invocation[c].command = "resolve" THEN exit[c].stdout ELSE exit[c].stdout.asof

\* A process that snapshots prints what one that resolves would have printed, with
\* the content hash of just that, and a capture that, unless the instant was asked
\* for, is not before it (cli.py 255-304, snapshot.py 66-85).
SnapshotsAreOfTheAnswer ==
  \A c \in Callers :
    Printing(c) =>
      /\ PrintedAnswer(c) = JsonDump(answer[c])
      /\ invocation[c].command = "snapshot" =>
           /\ exit[c].stdout.content_hash = ContentHash(PinnedVersion, answer[c])
           /\ request[c].as_of_utc = None =>
                exit[c].stdout.captured_at_utc >= answer[c].resolved_at_utc

\* Processes that were asked the same about one instant, and found the same in the
\* files, print the same answer and the same content hash, whenever they ran
\* (cli.py 17-19).
PinnedOutputIsReproducible ==
  \A c, d \in Callers :
    /\ Printing(c) /\ Printing(d)
    /\ request[c] = request[d] /\ policy[c] = policy[d]
    /\ request[c].as_of_utc # None
    /\ collected[c] = collected[d]
    => /\ PrintedAnswer(c) = PrintedAnswer(d)
       /\ {invocation[c].command, invocation[d].command} = {"snapshot"} =>
            exit[c].stdout.content_hash = exit[d].stdout.content_hash

\* A process that fails after its command line was parsed exits with code 2 and
\* writes a structured payload (PRODUCT_CONTRACT.md 717-721).
FailuresAreStructured ==
  \A c \in Callers :
    Ended(c) /\ exit[c].code # 0 => exit[c].code = 2 /\ exit[c].stderr # None
=============================================================================
