----------------------------- MODULE Publication -----------------------------
(***************************************************************************)
(* Publication readiness (publication.py): do the supplied facts prove     *)
(* that the answer to a CANONICAL request has been published as canonical? *)
(* The evaluator is pure and fails closed: it returns the reason why not,  *)
(* or None when the facts prove it.                                        *)
(***************************************************************************)
EXTENDS Ontology

\* Mutant: a source whose own freshness is not usable cannot assert.
AssertionsOfUsable(sources) ==
  {name \in Keys(sources) :
     /\ sources[name].publication \notin {None, Malformed}
     /\ sources[name].freshness \in Usable}

\* The sources with an assertion: a mapping under metadata["publication"].
\* Any other value there counts as no assertion.
Assertions(sources) ==
  {name \in Keys(sources) : sources[name].publication \notin {None, Malformed}}

\* The reason why one field does not parse, or None.
FieldFailure(value, legal) ==
  CASE value = None -> "PUBLICATION_METADATA_INCOMPLETE"
    [] value # None /\ value \notin legal -> "PUBLICATION_METADATA_INVALID"
    [] OTHER -> None

\* The fields in the order in which they are parsed.
FieldFailures(publication) ==
  << FieldFailure(publication.publication_state, PublicationState),
     FieldFailure(publication.canonical_state, CanonicalState),
     FieldFailure(publication.publication_utc, Instants),
     FieldFailure(publication.asserted_at_utc, Instants) >>

\* Lifecycle keys are refused before anything is parsed; then the first field
\* that does not parse gives the reason.
ParseFailure(publication) ==
  LET failures == FieldFailures(publication)
      failed   == {i \in 1 .. 4 : failures[i] # None}
  IN  CASE publication.lifecycle -> "PUBLICATION_METADATA_UNSUPPORTED"
        [] ~publication.lifecycle /\ failed # {} ->
             failures[CHOOSE i \in failed : \A j \in failed : i <= j]
        [] OTHER -> None

\* The reason why one parsed assertion does not prove readiness, or None.
AssertionFailure(perspective, cutoff, publication) ==
  CASE publication.publication_state # "PUBLISHED" -> "PUBLICATION_NOT_PUBLISHED"
    [] /\ publication.publication_state = "PUBLISHED"
       /\ publication.canonical_state # "CANONICAL" -> "CANONICAL_NOT_CANONICAL"
    [] OTHER ->
         IF perspective \notin {"CANONICAL", "REPLAY", "HISTORICAL"} THEN None
         ELSE IF publication.asserted_at_utc > cutoff
           THEN "PUBLICATION_ASSERTION_AFTER_CUTOFF"
         ELSE IF publication.publication_utc > cutoff
           THEN "PUBLICATION_AFTER_CUTOFF"
         ELSE None

\* Mutant: among several assertions one is chosen.
EvaluatePublicationReadinessAny(perspective, cutoff, sources) ==
  LET asserting == Assertions(sources)
  IN  IF asserting = {} THEN "PUBLICATION_METADATA_MISSING"
      ELSE LET publication == sources[CHOOSE name \in asserting : TRUE].publication
           IN  IF ParseFailure(publication) # None
                 THEN ParseFailure(publication)
                 ELSE AssertionFailure(perspective, cutoff, publication)

EvaluatePublicationReadiness(perspective, cutoff, sources) ==
  LET asserting == Assertions(sources)
  IN  IF asserting = {} THEN "PUBLICATION_METADATA_MISSING"
      ELSE IF \A name \in asserting : asserting # {name}
        THEN "PUBLICATION_ASSERTION_AMBIGUOUS"
      ELSE LET publication == sources[CHOOSE name \in asserting : TRUE].publication
           IN  IF ParseFailure(publication) # None
                 THEN ParseFailure(publication)
                 ELSE AssertionFailure(perspective, cutoff, publication)
=============================================================================
