------------------------------ MODULE Resolver ------------------------------
(***************************************************************************)
(* resolve() of resolver.py as a state machine.  Several callers (threads  *)
(* of the HTTP app, CLI processes) run it against the same providers,      *)
(* while the wall clock moves and the files behind the providers are       *)
(* rewritten.  A call                                                      *)
(*                                                                         *)
(*   Submit   constructs its request, which may be refused,                *)
(*   Begin    samples the instant it answers for and checks the calendar,  *)
(*   Report   asks the providers, one after the other,                     *)
(*   Finish   applies the policy and composes the answer,                  *)
(*   Return   hands the answer or the exception to its caller.             *)
(***************************************************************************)
EXTENDS Resolution, Providers, Sequences

CONSTANTS
  Callers,
  Names,           \* names of the registered providers, in order
  StaticProviders, \* positions in Names of the StaticProviders
  Contents,        \* what the provider at each position may hold
  Requests,        \* the requests that callers make
  Policies         \* the policies that they make them under

Positions == 1 .. Len(Names)

ASSUME ResolverAssumption ==
  /\ Names \in Seq(SourceNames)
  /\ StaticProviders \subseteq Positions
  /\ Contents \in [Positions -> SUBSET Content]
  /\ \A i \in StaticProviders : \A content \in Contents[i] :
       FitsStatic(Names[i], content)
  /\ Requests \subseteq RawRequest
  /\ Policies \subseteq Policy \cup {NoPolicy}

VARIABLES
  clock,      \* the wall clock
  store,      \* what each provider holds: file contents, fixed statuses
  pc,         \* where each caller is
  request,    \* the arguments of each call
  policy,
  now_utc,    \* the instant a call answers for
  asked,      \* how many providers a call has asked
  collected,  \* the statuses it has collected: the local variable sources
  answer,     \* the AsOf it returns, or None
  raised      \* what it raises instead, or None

arguments == <<request, policy>>
world == <<clock, store>>
vars == <<clock, store, pc, request, policy, now_utc, asked, collected, answer,
          raised>>

\* The exception of the AsOfRequest constructor.
Refused == "REQUEST_REFUSED"

ASSUME RefusedAssumption == None # Refused

\* What the providers may hold together.
Stores ==
  {s \in [Positions -> UNION {Contents[i] : i \in Positions}] :
     \A i \in Positions : s[i] \in Contents[i]}

TypeOK ==
  /\ clock \in Instants
  /\ store \in Stores
  /\ pc \in [Callers -> {"idle", "accepted", "reporting", "done"}]
  /\ request \in [Callers -> Optional(RawRequest)]
  /\ policy \in [Callers -> Policy \cup {NoPolicy}]
  /\ now_utc \in [Callers -> Optional(Instants)]
  /\ asked \in [Callers -> 0 .. Len(Names)]
  /\ collected \in [Callers -> SourceMap]
  /\ answer \in [Callers -> Optional(AsOf)]
  /\ raised \in [Callers -> Optional(ErrorReasonCode \cup {Escaped, Refused})]

Init ==
  /\ clock = 0
  /\ store \in Stores
  /\ pc = [c \in Callers |-> "idle"]
  /\ request = [c \in Callers |-> None]
  /\ policy = [c \in Callers |-> NoPolicy]
  /\ now_utc = [c \in Callers |-> None]
  /\ asked = [c \in Callers |-> 0]
  /\ collected = [c \in Callers |-> EmptyMap]
  /\ answer = [c \in Callers |-> None]
  /\ raised = [c \in Callers |-> None]

-----------------------------------------------------------------------------
(* The world: the clock, and whoever writes the files *)

Tick ==
  /\ clock < MaxTime
  /\ clock' = clock + 1
  /\ UNCHANGED <<store, pc, request, policy, now_utc, asked, collected, answer,
                 raised>>

WriteFile(i) ==
  /\ i \notin StaticProviders
  /\ \E content \in Contents[i] : store' = [store EXCEPT ![i] = content]
  /\ UNCHANGED <<clock, pc, request, policy, now_utc, asked, collected, answer,
                 raised>>

-----------------------------------------------------------------------------
(* A call *)

\* The call is over without an answer.
Fail(c, reason) ==
  /\ pc' = [pc EXCEPT ![c] = "done"]
  /\ raised' = [raised EXCEPT ![c] = reason]

Submit(c) ==
  /\ pc[c] = "idle"
  /\ \E r \in Requests, p \in Policies :
       /\ request' = [request EXCEPT ![c] = r]
       /\ policy' = [policy EXCEPT ![c] = p]
       /\ \/ /\ AcceptsRequest(r)
             /\ pc' = [pc EXCEPT ![c] = "accepted"]
             /\ UNCHANGED raised
          \/ ~AcceptsRequest(r) /\ Fail(c, Refused)
  /\ UNCHANGED <<world, now_utc, asked, collected, answer>>

\* Mutant: the wall clock is read whatever instant the request pins.
BeginNow(c) ==
  LET failure == CalendarFailure(request[c])
  IN  /\ pc[c] = "accepted"
      /\ now_utc' = [now_utc EXCEPT ![c] = clock]
      /\ \/ /\ failure = None
            /\ ~OutOfRange(request[c], clock)
            /\ pc' = [pc EXCEPT ![c] = "reporting"]
            /\ UNCHANGED raised
         \/ failure # None /\ Fail(c, failure)
      /\ UNCHANGED <<world, arguments, asked, collected, answer>>

\* The wall clock is read here, once, and only if the request pins no instant.
\* The calendar is checked, and then asked for the date and the phase.
Begin(c) ==
  LET failure == CalendarFailure(request[c])
      at      == IF request[c].as_of_utc # None THEN request[c].as_of_utc ELSE clock
  IN  /\ pc[c] = "accepted"
      /\ now_utc' = [now_utc EXCEPT ![c] = at]
      /\ \/ /\ failure = None
            /\ ~OutOfRange(request[c], at)
            /\ pc' = [pc EXCEPT ![c] = "reporting"]
            /\ UNCHANGED raised
         \/ failure # None /\ Fail(c, failure)
         \/ failure = None /\ OutOfRange(request[c], at) /\ Fail(c, Escaped)
      /\ UNCHANGED <<world, arguments, asked, collected, answer>>

\* Statuses are collected under the name of their provider.
Collect(c, name, status) == collected' = [collected EXCEPT ![c][name] = status]

\* Mutant: a provider with the name of an earlier one replaces its status.
ReportReplace(c) ==
  /\ pc[c] = "reporting"
  /\ asked[c] < Len(Names)
  /\ LET i == asked[c] + 1
     IN  /\ Collect(c, Names[i], ReportedStatus(Names[i], store[i]))
         /\ asked' = [asked EXCEPT ![c] = i]
  /\ UNCHANGED <<world, arguments, pc, now_utc, answer, raised>>

\* Mutant: the clock is read again for every provider.
ReportResample(c) ==
  /\ pc[c] = "reporting"
  /\ asked[c] < Len(Names)
  /\ LET i == asked[c] + 1
     IN  /\ Collect(c, Names[i], ReportedStatus(Names[i], store[i]))
         /\ asked' = [asked EXCEPT ![c] = i]
  /\ now_utc' = [now_utc EXCEPT ![c] = clock]
  /\ UNCHANGED <<world, arguments, pc, answer, raised>>

\* The next provider is asked.  A name that has been seen ends the call before
\* the provider is asked; so does an exception that is no ProviderReportError.
Report(c) ==
  /\ pc[c] = "reporting"
  /\ asked[c] < Len(Names)
  /\ LET i    == asked[c] + 1
         name == Names[i]
     IN  \/ /\ collected[c][name] # None
            /\ Fail(c, "DUPLICATE_PROVIDER_NAME")
            /\ UNCHANGED <<asked, collected>>
         \/ /\ collected[c][name] = None
            /\ ReportEscapes(store[i])
            /\ Fail(c, Escaped)
            /\ UNCHANGED <<asked, collected>>
         \/ /\ collected[c][name] = None
            /\ ~ReportEscapes(store[i])
            /\ Collect(c, name, ReportedStatus(name, store[i]))
            /\ asked' = [asked EXCEPT ![c] = i]
            /\ UNCHANGED <<pc, raised>>
  /\ UNCHANGED <<world, arguments, now_utc, answer>>

Finish(c) ==
  LET conclusion == Conclude(request[c], policy[c], now_utc[c], collected[c])
  IN  /\ pc[c] = "reporting"
      /\ asked[c] = Len(Names)
      /\ pc' = [pc EXCEPT ![c] = "done"]
      /\ answer' = [answer EXCEPT ![c] = conclusion.answer]
      /\ raised' = [raised EXCEPT ![c] = conclusion.raised]
      /\ UNCHANGED <<world, arguments, now_utc, asked, collected>>

\* Nothing of a call outlives it.
Return(c) ==
  /\ pc[c] = "done"
  /\ pc' = [pc EXCEPT ![c] = "idle"]
  /\ request' = [request EXCEPT ![c] = None]
  /\ policy' = [policy EXCEPT ![c] = NoPolicy]
  /\ now_utc' = [now_utc EXCEPT ![c] = None]
  /\ asked' = [asked EXCEPT ![c] = 0]
  /\ collected' = [collected EXCEPT ![c] = EmptyMap]
  /\ answer' = [answer EXCEPT ![c] = None]
  /\ raised' = [raised EXCEPT ![c] = None]
  /\ UNCHANGED world

\* The steps the code takes of itself once it has been called.
Proceed(c) == Begin(c) \/ Report(c) \/ Finish(c) \/ Return(c)

Next ==
  \/ Tick
  \/ \E i \in Positions : WriteFile(i)
  \/ \E c \in Callers : Submit(c) \/ Proceed(c)

Spec == Init /\ [][Next]_vars
=============================================================================
