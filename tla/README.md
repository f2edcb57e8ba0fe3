# asof123 in TLA+

asof123 answers one question: *for this market, from this perspective, what is
the state of the world as of now (or as of then), and which sources may be relied
upon for it?* An answer is an `AsOf`. This directory holds a TLA+ model of the
code that gives it, the TLC runs that check the model on small instances, and
TLAPS proofs of its main properties for all values of the constants. Paths such
as `resolver.py` are below `src/asof123/` of the repository.

## 1. The system

| component | code | state | operations | interaction |
|---|---|---|---|---|
| vocabulary, records | `enums.py`, `errors.py`, `models.py` | none; frozen records | construction with validation | used by all |
| request | `requests.py` | a record, checked once and not frozen | construction | argument of `resolve` |
| resolver | `resolver.py` | local variables of a call | `resolve` | calls calendar, providers, policy, readiness gate; ends in the `AsOf` constructor |
| providers | `providers/` | a path, or a fixed status | `report(now_utc)` | called in order by `resolve` and by `GET /sources/status` |
| source policy | `policy.py` | none | `apply_source_policy` | called by `resolve` between collecting and answering; public |
| publication readiness | `publication.py` | none | `evaluate_publication_readiness` | called by `resolve` for CANONICAL |
| calendars | `calendar.py`, `calendars/xnys.py` | constant tables | `business_date_for`, `market_phase_for` | called by `resolve` |
| snapshots | `snapshot.py`, `AsOfSnapshot` | none; records live outside | `make_snapshot`, canonical JSON, validation of records | HTTP, command line, whoever stores snapshots |
| HTTP surface | `api.py` | the calendars and providers of the app | five endpoints, two exception handlers | runs `resolve` in a thread pool |
| command line | `cli.py` | none | `resolve`, `snapshot`, `serve` | one `resolve` per process |

Nothing is cached, scheduled or retried inside the package, and the only thing
that outlives a process is a snapshot somebody else stores, so there is no crash
recovery and no message to lose. What is hard is elsewhere.

* **The world moves during a call.** `resolve` reads the wall clock once and then
  one file after the other. Clock and files go on changing, and calls overlap in
  the threads of the HTTP app and in processes.
* **Failing closed, but not failing more than that.** A provider may fail in a
  dozen ways. Each has to become a FAILED status in an answer, while some other
  failures (unknown market, duplicate name, no proof of publication) must end the
  call; and each surface has to turn what ends a call into the right code.
* **Two layers of judgement on one status**: the provider's and the policy's.
  Age limits, overrides, cutoffs and verdicts of the provider compete, both layers
  have to remain visible, and policies may be applied one after another.
* **Publication is not freshness.** The readiness gate looks at the assertions of
  all sources and wants exactly one that proves publication by the cutoff, whatever
  the sources' freshness and whatever the policy did to them.
* **Validation is not idempotent**, and statuses and answers are validated again
  when a policy rebuilds them, when a snapshot is made and when an answer comes
  back over HTTP. JSON does not bring back everything either: not the seconds of an
  offset, and of text only what UTF-8 can write.
* **Two clocks.** Phases and dates are local to the market, instants are UTC, and
  the distance between them changes twice a year.

What makes each component correct: a *request* that is accepted is consistent;
a *provider* report is of something the provider held; the *policy* downgrades on
its grounds only, always on them, and reversibly; the *gate* says ready only on
proof, and always on proof; the *resolver* answers for one instant, loses no
status, raises nothing but its typed error, and ends; a *calendar* gives days
without gaps and each a whole session or none; a *snapshot* hashes what it
carries, and equal hashes mean equal answers; the *surfaces* are calls of the
resolver and nothing else, answer everything, and name the failure that happened.

## 2. The modules

```
Ontology          enumerations, SourceStatus, source maps
 ├ Requests       AsOfRequest and its rules                       requests.py
 ├ SourcePolicy   apply_source_policy                             policy.py
 ├ Publication    evaluate_publication_readiness                  publication.py
 └ Providers      FileProvider, StaticProvider                    providers/
Resolution        what a call concludes; AsOf and its validator   resolver.py, models.py

Resolver          resolve() as a state machine                    resolver.py
 ├ ResolverProperties   what an answer may be relied upon for
 ├ AsOfAuthority        the abstract specification: a call in one step
 └ ResolverWitness      Resolver with history variables; the refinement

PolicyChain       one policy after another                        policy.py
XNYSCalendar      local time, tables, business date, phase        calendars/xnys.py
XNYSClock         somebody asks it every half hour
TradingDay        the abstract specification: days and sessions   calendar.py
Snapshot          make_snapshot, the hash, the validators         snapshot.py, models.py
Archive           the life of snapshots across releases
Api               endpoints and handlers, over Resolver           api.py
Cli               processes, over Resolver                        cli.py

ResolutionProofs                                                  lemmas
ResolverProofs, ResolverWitnessProofs, PolicyChainProofs,
XNYSClockProofs, ArchiveProofs, ApiProofs, CliProofs              theorems
MCWorld           contents, requests, policies, calendars for TLC
MCResolver, MCWitness, MCPolicyChain, MCXNYSClock, MCArchive,
MCApi, MCCli      instances
```

`Resolution` EXTENDS `Requests`, `SourcePolicy` and `Publication`, and `Resolver`
adds `Providers`; `Api` and `Cli` extend `ResolverProperties` and `Snapshot`. Where
a definition is preceded by one whose comment begins with "Mutant", that is a
plausible mistake in it; it is there to show that the properties would notice it,
and is part of no specification.

### State and actions

**`Resolver`** has the world (`clock`, and `store`: what each provider holds) and, per
caller, the arguments and local variables of `resolve`, under their names in the
code: `request`, `policy`, `now_utc`, `collected` (the dictionary `sources`), how
far the provider loop is (`asked`), and what comes out (`answer`, `raised`).

| action | code |
|---|---|
| `Tick`, `WriteFile(i)` | the clock, and whoever rewrites the file of provider `i` (external) |
| `Submit(c)` | `AsOfRequest(...)`, which may refuse; a refused request never reaches `resolve` |
| `Begin(c)` | `now_utc` is sampled, then the calendar checks, business date and phase (`resolver.py` 104-133) |
| `Report(c)` | one turn of the provider loop (135-155): duplicate name, escaping exception, or a status |
| `Finish(c)` | cutoff, policy, price basis, execution state, gate, `AsOf(...)` (157-219) |
| `Return(c)` | the caller has its answer; the local variables are gone |

Each is atomic for a reason in the code: between two of them the program reads
the clock or a file, within one it works on local variables. One `read_bytes`
is one read; a write that is seen half done is a file with content of its own,
which is why `Content` has blank, undecodable and malformed files.

**`Api`** gives each client an `endpoint`, a `response` and, where its body is not one
for `resolve`, what it `posted`, and each handler of `/sources/status` its own loop
(`turn`, `listed`). `GetCurrent`, `PostResolve`, `PostMalformed`, `PostReport`,
`GetSourcesStatus`, `PostSnapshot` and `PostForeign` are the requests;
handlers of the first two take the steps of `Resolver` (`Resolving`), then `Complete`
maps what came out to a response as the two exception handlers and the framework
do; `List` is one turn of the loop of `/sources/status`; `Receive` ends a request.
Handlers of all clients interleave.

What FastAPI does around a handler is in the model where it decides on the response. A
body may be in no encoding (a bare 400), be none of what its endpoint accepts (422), or
be so in a way that the 422 quotes a NaN or a lone surrogate, which cannot be
rendered (500): `BodyFaults`. What a handler returns is rendered in UTF-8, which
fails on a lone surrogate (`Rendered`). `SnapshotResponse` is the whole of
`POST /asof/snapshot`: the validator of the posted `AsOf` may raise `OverflowError`, which
is no validation error, or refuse it; `make_snapshot` may raise; and the snapshot is
rendered. The posted `AsOf` is one that the client was served (`PostSnapshot`) or one
from elsewhere (`PostForeign`, from the constant `Foreign`). The list handler's `now`, which it samples
before the loop, is left out: no provider of the package looks at it.

**`Cli`** has an `invocation` and an `exit` per process. `Start` builds request,
providers and policy in that order, each of which may be refused; then the process
takes the steps of `Resolver`, and `End` prints an answer, captures and prints a
snapshot at the present clock, or exits with a code. `Misuse` is argparse, `Serve`
and `Stop` the HTTP server in a process (without uvicorn `Serve` ends with a payload,
without fastapi with a traceback), `EndingWith` the end of a snapshot: a
`ValidationError` has its payload, a `UnicodeEncodeError` is a traceback, `Reap` the
end of a process. All processes have the same list of `--source-file` options, whose order is that of `Names`.

**`PolicyChain`** applies any policy of a set under any perspective, cutoff and
instant to `sources`, and keeps `reported`, from which the chain started.

**`XNYSClock`** moves an instant, from any that has a local time, and asks for its
date and phase. It implements `TradingDay`: days follow one another, and each has
either one phase or the four of a session, in order; the watch may begin in any of
them.

**`Archive`** has the answer and the snapshot in hand, the records `stored`
outside of the package, and the `release` that runs. `Capture` is `make_snapshot` in
a process, `Post` the same over HTTP after a client has dropped or changed the
market-local projections, and for either `refused` has the step that refused it;
`Store` and `Load` write and read records, and `Upgrade`
restarts into the next release, which pins other versions and forgets all but
the store.

### Data

* Instants of `Resolver` are integers `0 .. MaxTime`, and ages are in the same unit.
  Only order and differences matter to the code. Local time is a function from
  zone and instant to a date and a time of day, or `None` where the conversion
  overflows; business dates and phases are a calendar's functions of the instant.
  For the small instances both functions are computed by `XNYSCalendar`
  (`TablesAssumption` in `MCWorld`).
* `XNYSCalendar` counts half hours from year 1, where `datetime` begins: nothing it
  distinguishes happens within one. Dates are ordinals. The offset is that of the
  rules since 2007 in all years, although the supported years are 2025 and 2026: in
  the others the calendar is asked for dates alone. Before 18 November 1883 New York
  kept local mean time, whose offset of 4:56:02 is rounded to winter time.
* That it has odd seconds is kept all the same, as `odd` of a local time: pydantic writes
  `-04:56` into JSON, and a projection that is read from there is not the one derived
  anew (`models.py` 281). `InMinutes` is what JSON makes of a local time, and
  `InLocalMeanTime` when New York has such.
* Two sentinels: `None` as in Python, `Malformed` for a value of the wrong shape
  (an unknown enum member, a naive instant, a publication entry that is no
  mapping). Explanations, messages and other wording are left out.
* `timestamp_utc` of a status stands for `timestamp_utc` and `last_update_utc`, equal
  after validation. In file contents they are two, and may disagree.
* Of a status's metadata the model has the publication entry, the policy entry,
  whether a JSON array is in it (`has_array`), because arrays are what a second
  validation refuses, and whether a lone surrogate is in it (`unencodable`), which
  validation accepts and UTF-8 cannot write. Names and identifiers may hold one as
  well, being plain strings: the constant `Unencodable`.
* `reason_codes` of an answer is the set of the codes that the code joins with `;`.
* SHA-256 is taken to tell any two canonical payloads apart: a content hash *is* its
  preimage. The text of canonical JSON is left out, but what it loses or cannot be
  written with is not: of a dump the model has what is in it, whether arrays are lists
  or tuples, the offsets in minutes, and whether it can be encoded. `SnapshotFailure` is
  the first step of `make_snapshot` that raises, in the order of the code: the encoding
  of the bytes to hash, the round trip of the answer, the identifier. The command line
  prints JSON in ASCII, so that it prints what `snapshot` cannot hash.

## 3. What is checked

The properties are stated against what providers reported (`collected`), the
arguments of the call and what is on the wire or on the streams, and not through the
operators that compute them.

| property | says |
|---|---|
| **resolver** | |
| `CallsAreCoherent` | local variables of a call belong together; an answer is the conclusion from them |
| `NoFutureKnowledge` | a REPLAY or HISTORICAL answer under a policy is about the instant asked for and has no usable source later than the cutoff |
| `UsableIsYoungEnough` | no usable source is older than its own limit; overrides win |
| `RequiredSourcesShow` | exactly the reported and the required sources are shown |
| `DowngradesAreJustified` | a status changes only on one of the two grounds; at the cutoff and at the limit it stays |
| `ProviderLayerRecoverable` | what the policy replaced can be put back |
| `CanonicalIsProven` | CANONICAL only on exactly one assertion, which proves publication by the cutoff |
| `ProofIsAccepted` | with such a proof, and no array in the metadata, a CANONICAL call is answered, whatever the freshness |
| `OnlyTypedFailures` | nothing but a `ResolverError` leaves `resolve`, the three known ways out (section 5) apart |
| `OneMarketDay` | the date of the calendar and the date derived by `AsOf` are one day |
| `OneInstantPerCall` | while a call collects, its instant stays and no status is replaced |
| `OneStatusPerProvider` | no answer under two providers of one name |
| `ReadsAreOfTheCall` | what was collected is what a provider held while the call ran |
| `AnswersAsIfAtOnce` | refinement: a call looks to its caller like one step |
| **policies in a row** | |
| `LayersSurvive` | what providers reported can be restored, unless a later policy applies a cutoff |
| `OrderDoesNotMatter` | two policies at one instant have one outcome in either order |
| `AdmissionIsMonotone` | what is usable stays so under a policy that asks for less, at a later cutoff and an earlier instant |
| `UsabilityOnlyShrinks` | no policy makes a source usable, hides one, or adds one that is not MISSING |
| **XNYS calendar** | |
| `DaysFollowEachOther` | refinement of `TradingDay`: days without gaps, each a whole session or none |
| `SessionsKeepLocalHours` | the session opens at 09:30 in New York on both sides of a change of offset, and lasts to 16:00 |
| `TablesAgreeWithTheRules` | the tables of holidays and early closes are those the exchange's rules give for the supported years |
| **snapshots** | |
| `ContentIdentity` | equal hashes exactly for equal answers under the same schema and contract |
| `HashFitsContent` | the hash of the snapshot at hand is that of its answer under the running release |
| `AnswersCanBeCaptured` | an answer is refused only for text that UTF-8 cannot write or in local mean time, arrays included; of those there is never a snapshot |
| `NothingIsMadeUp` | what snapshots hold is what the resolver answered, whatever projections clients dropped or changed |
| **HTTP** | |
| `HandlersAreCalls` | refinement: handlers are callers of `Resolver` |
| `ServerErrorsAreExplained` | a 500 has one of five reasons: a request refused inside `GET /asof/current`, a listed provider that raises something else than its error, a known way out of `resolve`, a posted `AsOf` without a local time or in local mean time, something that cannot be rendered |
| `ServedCanBeSnapshotted` | what was served can be posted back and is snapshotted unchanged; in local mean time it is refused, as a validation error |
| `ListsAreWhole` | both loops over the providers refuse repeated names, and lose no status |
| `HandlersRunOut` | a request without its response is with a handler that has some steps left, and each of them makes them fewer |
| `EveryRequestIsAnswered` | every request gets its response |
| **command line** | |
| `ProcessesAreCalls` | refinement: processes are callers of `Resolver` |
| `FirstFailureIsNamed` | the reason code names the first stage that failed; a snapshot fails for the empty identifier, in local mean time or, without a payload, for text that UTF-8 cannot write, and for nothing else |
| `SnapshotsAreOfTheAnswer` | `snapshot` prints what `resolve` would have, under its hash |
| `PinnedOutputIsReproducible` | what is pinned and found alike is printed alike |

`AsOfAuthority` is the promise behind `AnswersAsIfAtOnce`: there, a call is opened
and then answered in *one* step, as a function of the arguments, of one instant
that the clock showed during the call (or the one asked about), and of something
each provider held during the call. It does *not* promise that the providers held
those things at the same time: statuses of an answer may never have existed side
by side, which a reader of answers should know. `ResolverWitness` adds two history
variables, `opened` and `seen`, that the refinement mapping needs; they record and
do not restrict. The mapping takes both running states of a call to `open`.

### Runs

| run | instance | distinct states |
|---|---|---|
| `resolver` | 1 caller, 2 files, 15 contents, 16 requests, 4 policies, times 0..2 | 850 248 |
| `witness` | the same world with one instant that has no local time, and contents that disagree or cannot be decoded | 222 012 |
| `policy_chain` | up to 3 policies, each under any perspective, cutoff and instant, over every pair of reports | 991 |
| `xnys_clock` | every half hour from 27 December 2024 to 6 January 2027 | 35 521 |
| `archive` | 4 answers (an array, a lone surrogate, New York in 1850, a proof of publication), identifiers good, unencodable and empty, 2 records, 2 releases | 20 024 |
| `api` | 2 clients, every endpoint and fault of a body, 5 AsOfs from elsewhere, a file that turns from an array to a lone surrogate to undecodable, an instant of the year 1 and one of 2025, fair | 70 320 |
| `duplicates` | 1 client, 3 providers, the third named as the first | 1 680 |
| `cli` | 2 processes, every command, the same file, an instant of 1850 and one of 2025 | 259 086 |
| `arrays`, `embargo`, `api_malformed`, `cli_structured` | one hazardous input each: a finding each (section 5) | |

**The bounds.** Three instants give before, at and after a cutoff, and an age of two
against a limit of one with one unit in reserve; the gate compares with the cutoff
only, so three instants realise every order of cutoff, publication and assertion
that it can tell apart. Of the two policies with a default limit, one has a looser override
and one a stricter, so a limit that is taken from the wrong place shows. Two reporting sources are the fewest with which one fails
while the other does not and with which assertions are ambiguous; a third name is
required but never reports. The contents hold each outcome of a read and each way in
which the gate refuses a publication; the requests hold each cross-field rule kept
and broken. Calls share no variable but the world, so one caller is enough for the
safety of answers; overlapping callers are in `api` and `cli`, where two instants and
fewer requests are left, since there the question is which outcome becomes which
response. A chain of three policies is the shortest in which a layer could be lost
that survived one overwriting. Two records are the fewest that can share a hash.
Between first and last slot, `xnys_clock` crosses the four changes of offset, all
holidays and early closes of the tables, and both edges of the supported years.

**Fairness.** Only `ApiFairSpec` asks for some: weak fairness of `Serve(c)`, the steps
of a handler whose request has arrived. The server goes on running the threads of
its pool, and no step of a handler waits for another thread. Nothing is asked of
clients, of the clock, or of the writers of files. Deadlock checking is on in all
runs but `policy_chain`, whose chains have a bounded length.

## 4. What is proved

`ResolutionProofs` has the lemmas on the pure operators: types, what a judgement of
the policy leaves alone and on which grounds it is made (`JudgeKeeps`,
`JudgeGrounds`), that readiness is proof and proof readiness (`ReadyIsProof`,
`ProofIsReady`), that the policy neither adds nor removes an assertion
(`PolicyKeepsPublication`), that the validator of `AsOf` accepts whatever `resolve`
composes (`ComposedIsAccepted`), how a call concludes (`ConcludeCases`,
`ConcludeEscapes`, `ConcludeRaises`), that an answer is read back unchanged from its
dump in JSON mode exactly if its local time has no odd seconds (`RoundTrip`), and which step
of `make_snapshot` raises (`FailureIs`). The other proof modules have the theorems.

**Resolver.** The inductive invariant is `IInv`, `TypeOK /\ CallsAreCoherent`. The
properties of answers are not inductive: an answer is composed in `Finish` from
variables set much earlier, and nothing in an answer itself says that it fits the
call it belongs to. `CallsAreCoherent` closes the gap: a running call has an
accepted request whose calendar fits, an instant that is the one asked about or one
the clock has shown, and a status for each provider asked, all under different
names; an answer is the conclusion from all of these. Every theorem then follows
from what `Conclude` does, by the lemmas. `TypedFailures` and `SpecEnds` are
inductions of their own over it, since an exception is only remembered as such.

**Refinement of the authority.** `WitnessInv` says of a running call that it was
opened at an instant that has been and is not later than the one it answers for,
unless that one was asked about; that what the providers hold now is among what was
seen; and that each status collected is the report of something seen. `StepMaps`
takes each step to a step of `AsOfAuthority` or to none. The steps that end a call
have to name one instant and one content for each provider: the instant is the
sampled one, and the contents are, for the providers asked, one that explains the
status (`HeldByAll`), for the others what they hold at that moment. That suffices
because a call breaks off at the first provider it cannot go beyond
(`EvaluateBreaks`), and because a call that finishes has no two providers of one
name (`EvaluateReports`). The lemmas `Same...` say that the authority's own instance
of `Resolution` and `Providers` computes the same.

**Policies.** `GroundsAreMonotone` compares two judgements of one status: where the
weaker policy, the later cutoff and the earlier instant have a ground to downgrade
it, the stronger, the earlier and the later have one too, so `MonotoneAdmission`
follows. It is about single judgements of the statuses of any chain; the other
theorems about chains are inductions.

**XNYS calendar.** The inductive invariant is `Watching`: the instant has a local
time, and date and phase are the calendar's for it. The work is in the lemma
`NextLocalTime`, that local time moves on by half an hour with each half hour,
except where the offset changes, and that it then stays within one Sunday. The
offset depends on the year of the instant, and years begin and end in winter, so
one year's rule governs both ends of a step (`BehindInOneYear`); that the changes fall
on a Sunday, some hours from midnight, is arithmetic of weekdays (`ChangesOfOffset`).
On Sundays there is no session, so a change of offset is none of phase; on other
days the four phases are intervals of local time (`PhasesOfDay`). For the tables,
`TablesByTheRules` evaluates the rules at the ordinals of the dates. Except for the
tables, the theorems are about all years, and not only those of the run.

**Surfaces.** `CallsOfHandlers` and `CallsOfProcesses` prove that `Api` and `Cli`
implement `Resolver` step by step, so that `IInv`, and with it every theorem of
`ResolverProofs`, holds of the calls made there. Over `IInv` there is one more
invariant each: `HttpInv` and `CliInv` tie the endpoint or command, the call and the
response or exit together: `HttpInv` says of each response that it is an error with its
reason, an answer, a list, or what `SnapshotResponse` makes of the body posted
(`Fitting`), and that after `PostSnapshot` this body is still the dump of the answer
(`IsPosted`), from which `ServedSnapshotted` follows by `AnswerSurvives`.
`ServedAnswersAreResolved` and `PrintedAnswersAreResolved` put the two together: what is served or printed is the answer of the call behind it, and
has all that is proved of answers.

That every request is answered is a liveness property and out of the prover's reach,
but all of it that is not about scheduling is proved, as `HandlersFinish`. Its
invariant `Attended` says that behind each request without a response there is a call
or a loop that has not ended (`AtWork`); `StepsLeft` counts what remains of it, never
more than the providers and three, and by `WorkBringsCloser` each step of the handler
lowers it, while no other step touches it. What TLC has to add is that such a step is
enabled, and the fairness that it is taken.

**Archive.** `IInv` of `ArchiveProofs` adds to the types that answers are the
resolver's, that what is in a snapshot or a record can be captured (`Capturable`), that a
refusal is for its reason (`RefusedRightly`), and that hashes are those of their answers, in
hand and in store.

| module | theorems (property of section 3) |
|---|---|
| `ResolverProofs` | `TypeCorrect` (`TypeOK`), `Coherent` (`CallsAreCoherent`), `OneStatus` (`OneStatusPerProvider`), `CanonicalProven` (`CanonicalIsProven`), `NoFuture` (`NoFutureKnowledge`), `YoungEnough` (`UsableIsYoungEnough`), `RequiredShow` (`RequiredSourcesShow`), `Justified` (`DowngradesAreJustified`), `Recoverable` (`ProviderLayerRecoverable`), `OneInstant` (`OneInstantPerCall`), `ProofAccepted` (`ProofIsAccepted`), `TypedFailures` (`OnlyTypedFailures`), `OneDay` (`OneMarketDay`) |
| `ResolverWitnessProofs` | `ReadsWitnessed` (`ReadsAreOfTheCall`), `Refines` (`AnswersAsIfAtOnce`) |
| `PolicyChainProofs` | `ChainTypeCorrect` (`TypeOK`), `LayersStay` (`LayersSurvive`), `OnlyShrinks` (`UsabilityOnlyShrinks`), `AnyOrder` (`OrderDoesNotMatter`), `MonotoneAdmission` (`AdmissionIsMonotone`) |
| `XNYSClockProofs` | `ClockShowsTheCalendar` (the invariant `Watching`), `CalendarFollowsTheDays` (`DaysFollowEachOther`), `SessionsKeepNewYorkHours` (`SessionsKeepLocalHours`), `TablesFollowTheRules` (`TablesAgreeWithTheRules`) |
| `ResolutionProofs` | `AnswersCanBeSnapshotted`: which of the resolver's answers can be snapshotted, and at which step the others fail |
| `ArchiveProofs` | `ArchiveTypeCorrect` (`TypeOK`), `HashIdentifies` (`ContentIdentity`), `HashFits` (`HashFitsContent`), `CanBeCaptured` (`AnswersCanBeCaptured`), `NothingMadeUp` (`NothingIsMadeUp`) |
| `ApiProofs` | `CallsOfHandlers` (`HandlersAreCalls`), `ApiTypeCorrect` (`ApiTypeOK`), `ServerErrorsExplained` (`ServerErrorsAreExplained`), `ServedSnapshotted` (`ServedCanBeSnapshotted`), `ListsWhole` (`ListsAreWhole`), `HandlersFinish` (`HandlersRunOut`), `ServedAnswersAreResolved` |
| `CliProofs` | `CallsOfProcesses` (`ProcessesAreCalls`), `CliTypeCorrect` (`CliTypeOK`), `FirstFailure` (`FirstFailureIsNamed`), `SnapshotsOfTheAnswer` (`SnapshotsAreOfTheAnswer`), `PinnedReproducible` (`PinnedOutputIsReproducible`), `PrintedAnswersAreResolved` |

They hold for any callers, any sequence of providers, any contents (arrays and
undecodable files included), requests, policies and calendars, and chains, stores
and releases of any size. They rest on the named assumptions of the modules:
`MaxTime` is a natural number, the pinned reason codes are reason codes, registered
calendars and the time zones have, for every instant, dates, phases and local times or
`None`, the other constants have their types, and the sentinels `None`, `Malformed` and `NoPolicy`
differ from what they stand in for (and so do the marks of refused requests and of
untyped exceptions). For `XNYSClock`, `None` is no date and no local time, and the watch
begins at an instant that has a local time. TLC evaluates these in the runs.

Only proved, and left to no run, are the type invariants of `PolicyChain` and `Cli`.
Only model-checked: `EveryRequestIsAnswered`, since liveness is beyond the prover.
That the tables MCWorld hands to the resolver are computed by `XNYSCalendar` is
a fact about the instances, and evaluated there.

## 5. What the model shows about the code

* `arrays` (bug): a policy rebuilds a status it downgrades from metadata in which
  JSON arrays have become tuples; the validator refuses tuples, and `resolve` ends
  with `pydantic.ValidationError` where the contract asks for a STALE status.
* `embargo` (contract and code differ): outside CANONICAL the publication state of
  an answer is the constant PUBLISHED, also when a source reports an embargo.
* `api_malformed` (bug): `GET /asof/current` constructs its request inside the
  handler, so what `AsOfRequest` refuses is a bare 500, where the contract asks for
  VALIDATION_ERROR.
* `cli_structured` (bug, with two causes): the command line has a handler for
  `ResolverError` only (`cli.py:241`), so any other exception of `resolve` ends it with
  a traceback and exit code 1; and such exceptions exist, since
  `FileProvider.report` catches `JSONDecodeError` only (`file.py:63`) and bytes that
  are in no Unicode encoding raise `UnicodeDecodeError`.

More observations shape properties without being findings. `make_snapshot` refuses two
kinds of answer that `resolve` gives. One with a lone surrogate in its metadata is
printed by `resolve`, but the bytes for its hash cannot be written (`snapshot.py:78`):
`snapshot` ends with a traceback and exit code 1, and over HTTP the answer itself is a
500. One before 1883 in New York is refused by its own round trip (`models.py:281`):
INVALID_SNAPSHOT under a good identifier, and a 422 when it is posted back as served. An `AsOf`
whose instant overflows (`models.py:273`) is a 500 at `POST /asof/snapshot`, where its
other faults are 422s, and a 422 that would have to quote a NaN or a lone surrogate is
a 500 as well. The traceback is one more instance of what `cli_structured` shows, and the
500s are beside the sentence that `api_malformed` quotes; the properties of passing
runs have all of them as exceptions by name.

 The glossary of the
contract (98-100) has the cutoff protect previews too; the code, and section 13 of
the contract (371-372), apply it to REPLAY and HISTORICAL. A policy that finds a
status after the cutoff downgrades it whatever was decided before, and replaces an
earlier entry under `metadata["policy"]` (`policy.py:114-117`); that is why
`LayersSurvive` excepts chains in which a policy other than the first applies a
cutoff. And an instant at the edge of the range of `datetime` has no local time, so a
call about it ends in `OverflowError`: the third of the ways out that
`OnlyTypedFailures` names.

## 6. Not modelled, and the plan

Not modelled:

* wording and formatting: explanations (that of a downgrade names the limit, and so
  depends on the order of policies), messages, the `details` of `ErrorResponse` but for
  whether they can be rendered, the text of canonical JSON, what argparse prints;
* parsing of single command line options, which is one refusal before the call;
* `expected_publication_utc` and `MarketIdentity`, which nothing in the package reads;
* package exports, `uvicorn` beyond running and stopping (how it ends when it cannot
  bind), memory, signals;
* a wall clock that is set back: `Tick` only moves it on, and that a capture is not before
  its answer rests on that;
* the rules of summer time before 2007, and the zone database itself, which is a
  table; calendars other than XNYS, of which the package has none.

What could be added: the diagnostic fields of
`PublicationReadinessResult`, and a provider that is slow rather than failing (there is
no timeout in the code, so it would only delay its call).
