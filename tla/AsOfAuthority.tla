--------------------------- MODULE AsOfAuthority ---------------------------
(***************************************************************************)
(* What resolve() promises to its caller: it behaves as if the answer were *)
(* given in one step, as a function of                                     *)
(*   - the request and the policy,                                         *)
(*   - one instant: the one that is asked about, or one that the wall      *)
(*     clock showed during the call,                                       *)
(*   - for each provider, something the provider held during the call.     *)
(* It is not promised that the providers held it all at the same time.     *)
(***************************************************************************)
EXTENDS Resolution, Providers, Sequences

CONSTANTS Callers, Names, StaticProviders, Contents, Requests, Policies

VARIABLES
  clock, store, request, policy, answer, raised,  \* as in Resolver
  phase,   \* "idle", "open" or "done"
  opened,  \* the wall clock when the call was made
  seen     \* what each provider has held since

vars == <<clock, store, request, policy, answer, raised, phase, opened, seen>>

Positions == 1 .. Len(Names)

NotSeen == [i \in Positions |-> {}]

Refused == "REQUEST_REFUSED"

Init ==
  /\ clock = 0
  /\ store \in [Positions -> UNION {Contents[i] : i \in Positions}]
  /\ \A i \in Positions : store[i] \in Contents[i]
  /\ phase = [c \in Callers |-> "idle"]
  /\ request = [c \in Callers |-> None]
  /\ policy = [c \in Callers |-> NoPolicy]
  /\ opened = [c \in Callers |-> None]
  /\ seen = [c \in Callers |-> NotSeen]
  /\ answer = [c \in Callers |-> None]
  /\ raised = [c \in Callers |-> None]

Tick ==
  /\ clock' \in Instants
  /\ clock' > clock
  /\ UNCHANGED <<store, request, policy, answer, raised, phase, opened, seen>>

\* A file is rewritten, and every open call may see either content.
Write(i) ==
  /\ i \notin StaticProviders
  /\ \E content \in Contents[i] :
       /\ store' = [store EXCEPT ![i] = content]
       /\ seen' = [c \in Callers |->
                     IF phase[c] = "open"
                       THEN [seen[c] EXCEPT ![i] = @ \cup {content}]
                       ELSE seen[c]]
  /\ UNCHANGED <<clock, request, policy, answer, raised, phase, opened>>

Open(c) ==
  /\ phase[c] = "idle"
  /\ \E r \in Requests, p \in Policies :
       /\ request' = [request EXCEPT ![c] = r]
       /\ policy' = [policy EXCEPT ![c] = p]
       /\ \/ /\ AcceptsRequest(r)
             /\ phase' = [phase EXCEPT ![c] = "open"]
             /\ opened' = [opened EXCEPT ![c] = clock]
             /\ seen' = [seen EXCEPT ![c] = [i \in Positions |-> {store[i]}]]
             /\ UNCHANGED raised
          \/ /\ ~AcceptsRequest(r)
             /\ phase' = [phase EXCEPT ![c] = "done"]
             /\ raised' = [raised EXCEPT ![c] = Refused]
             /\ UNCHANGED <<opened, seen>>
  /\ UNCHANGED <<clock, store, answer>>

\* Instants that a call may be about.
Admissible(c) ==
  IF request[c].as_of_utc # None THEN {request[c].as_of_utc} ELSE opened[c] .. clock

\* The position at which asking the providers breaks off, if there is one.
Breaks(held, i) ==
  \/ \E j \in 1 .. i - 1 : Names[j] = Names[i]
  \/ ReportEscapes(held[i])

\* The conclusion from one instant and from what each provider held.
Evaluate(r, p, at, held) ==
  LET breaks == {i \in Positions : Breaks(held, i)}
      first  == CHOOSE i \in breaks : \A j \in breaks : i <= j
  IN  IF CalendarFailure(r) # None THEN Raise(CalendarFailure(r))
      ELSE IF OutOfRange(r, at) THEN Raise(Escaped)
      ELSE IF breaks # {}
        THEN Raise(IF \E j \in 1 .. first - 1 : Names[j] = Names[first]
                     THEN "DUPLICATE_PROVIDER_NAME" ELSE Escaped)
      ELSE Conclude(r, p, at,
             [name \in SourceNames |->
                IF \E i \in Positions : Names[i] = name
                  THEN LET i == CHOOSE i \in Positions : Names[i] = name
                       IN  ReportedStatus(name, held[i])
                  ELSE None])

\* Combinations of what the providers held, each at some time of the call.
Held(c) ==
  {held \in [Positions -> UNION {seen[c][i] : i \in Positions}] :
     \A i \in Positions : held[i] \in seen[c][i]}

Respond(c) ==
  /\ phase[c] = "open"
  /\ phase' = [phase EXCEPT ![c] = "done"]
  /\ \E at \in Admissible(c), held \in Held(c) :
       LET conclusion == Evaluate(request[c], policy[c], at, held)
       IN  /\ answer' = [answer EXCEPT ![c] = conclusion.answer]
           /\ raised' = [raised EXCEPT ![c] = conclusion.raised]
  /\ opened' = [opened EXCEPT ![c] = None]
  /\ seen' = [seen EXCEPT ![c] = NotSeen]
  /\ UNCHANGED <<clock, store, request, policy>>

Close(c) ==
  /\ phase[c] = "done"
  /\ phase' = [phase EXCEPT ![c] = "idle"]
  /\ request' = [request EXCEPT ![c] = None]
  /\ policy' = [policy EXCEPT ![c] = NoPolicy]
  /\ answer' = [answer EXCEPT ![c] = None]
  /\ raised' = [raised EXCEPT ![c] = None]
  /\ UNCHANGED <<clock, store, opened, seen>>

Next ==
  \/ Tick
  \/ \E i \in Positions : Write(i)
  \/ \E c \in Callers : Open(c) \/ Respond(c) \/ Close(c)

Spec == Init /\ [][Next]_vars
=============================================================================
