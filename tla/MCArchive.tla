----------------------------- MODULE MCArchive -----------------------------
EXTENDS Archive, MCWorld

Registry == ReportedStatus("registry", Payload("PUBLISHED", 0, Assertion(0, 1)))

\* Answers of the Tuesday with an array in the metadata and with a lone surrogate in
\* it, one of the past, and one with a proof of publication.
Plain == Payload("FRESH", 0, None)

Answer(r, p, at, prices, registry) ==
  Conclude(r, p, at, [EmptyMap EXCEPT !["prices"] = ReportedStatus("prices", prices),
                                      !["registry"] = registry]).answer

MCAnswers ==
  {Answer(Ask("LIVE", None, None), NoPolicy, 1, prices, None) :
     prices \in {[Plain EXCEPT !.has_array = TRUE], SurrogateContent}}
  \cup
  {Answer(Ask("HISTORICAL", 0, 0), NoPolicy, 0, Plain, None),
   Answer(Ask("CANONICAL", None, None), CHOOSE p \in FewPolicies : p # NoPolicy, 1, Plain,
          Registry)}

MCReleases ==
  <<PinnedVersion, [PinnedVersion EXCEPT !.semantic_contract_version = "asof123.contract.v2"]>>
=============================================================================
