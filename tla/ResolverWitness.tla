-------------------------- MODULE ResolverWitness --------------------------
(***************************************************************************)
(* The resolver with two history variables: the wall clock when a running  *)
(* call was made, and what each provider has held since.  They only record *)
(* what happens; Next of Resolver is the machine.                          *)
(***************************************************************************)
EXTENDS Resolver

VARIABLES opened, seen

witnessVars == <<vars, opened, seen>>

Running(c) == pc[c] \in {"accepted", "reporting"}

NotSeen == [i \in Positions |-> {}]

WitnessInit ==
  /\ Init
  /\ opened = [c \in Callers |-> None]
  /\ seen = [c \in Callers |-> NotSeen]

\* A call that begins records the present, one that runs what is written, and
\* one that is over nothing.
Record ==
  /\ opened' = [c \in Callers |->
                  CASE ~Running(c)' -> None
                    [] Running(c)' /\ Running(c) -> opened[c]
                    [] Running(c)' /\ ~Running(c) -> clock]
  /\ seen' = [c \in Callers |->
                [i \in Positions |->
                   CASE ~Running(c)' -> {}
                     [] Running(c)' /\ Running(c) -> seen[c][i] \cup {store'[i]}
                     [] Running(c)' /\ ~Running(c) -> {store[i]}]]

WitnessNext == Next /\ Record

WitnessSpec == WitnessInit /\ [][WitnessNext]_witnessVars

-----------------------------------------------------------------------------
(* Reads *)

\* Nothing a call has collected is older than the call or made up: it is the
\* report of something that its provider held while the call ran
\* (providers/file.py 45-89, resolver.py 135-155).
ReadsAreOfTheCall ==
  \A c \in Callers : \A i \in 1 .. asked[c] :
    Running(c) =>
      \E content \in seen[c][i] :
        LET status == collected[c][Names[i]]
        IN  \/ /\ ReportFails(Names[i], content)
               /\ status.freshness = "FAILED"
               /\ status.timestamp_utc = None
            \/ /\ status.freshness = content.freshness
               /\ {content.timestamp_utc, content.last_update_utc} \ {None}
                    = {status.timestamp_utc} \ {None}
               /\ status.publication = content.publication

-----------------------------------------------------------------------------
(* Refinement *)

\* The call, as its caller sees it.
Phase(c) == IF Running(c) THEN "open" ELSE pc[c]

Authority == INSTANCE AsOfAuthority WITH phase <- [c \in Callers |-> Phase(c)]

\* resolve(), step by step against a moving clock and files that are rewritten
\* meanwhile, answers as if it did so in one step from what was there during the
\* call (resolver.py 98-219).
AnswersAsIfAtOnce == Authority!Spec
=============================================================================
