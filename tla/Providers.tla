----------------------------- MODULE Providers -----------------------------
(***************************************************************************)
(* Source providers: FileProvider (providers/file.py) reads one file on    *)
(* every report, StaticProvider (providers/static.py) returns the status   *)
(* it was built with.  The resolver turns a ProviderReportError into a     *)
(* FAILED status (resolver.py).                                            *)
(***************************************************************************)
EXTENDS Ontology

(***************************************************************************)
(* What a file can hold.  fault names why there is no JSON object to be    *)
(* read from it; with fault = None the other fields are the payload.  In   *)
(* the payload None is an absent or null key and Malformed a value that    *)
(* the field's type or validator refuses.  well_formed stands for the rest *)
(* of the payload: no unknown key, metadata a JSON object of finite        *)
(* numbers, no empty timestamp_name.  unencodable: the text that a status  *)
(* takes from the payload has a lone surrogate, or, where there is none    *)
(* to be read, the path of the file, which the explanation names.          *)
(***************************************************************************)
ReadFaults == {"not_found", "unreadable", "blank", "invalid_json", "not_object"}

\* json.loads raises an error that is no JSONDecodeError: over bytes in no encoding,
\* a number of too many digits, or objects nested too deep.
Undecodable == "undecodable"

Content ==
  [fault           : Optional(ReadFaults \cup {Undecodable}),
   provider        : SourceNames \cup {None, Malformed},
   freshness       : SourceFreshness \cup {None, Malformed},
   timestamp_utc   : Instants \cup {None, Malformed},
   last_update_utc : Instants \cup {None, Malformed},
   reason_code     : Optional(ReasonCodes),
   publication     : PublicationMetadata \cup {None, Malformed},
   policy          : Optional(PolicyMetadata),
   has_array       : BOOLEAN,
   unencodable     : BOOLEAN,
   well_formed     : BOOLEAN]

\* The two names of the authority timestamp are filled from each other, and
\* must agree when both are given.
AuthorityTimestamp(content) ==
  IF content.timestamp_utc # None THEN content.timestamp_utc
                                  ELSE content.last_update_utc

\* The payload passes the validators of SourceStatus.
Validates(content) ==
  /\ content.well_formed
  /\ content.freshness \in SourceFreshness
  /\ content.timestamp_utc \in Optional(Instants)
  /\ content.last_update_utc \in Optional(Instants)
  /\ content.timestamp_utc # None /\ content.last_update_utc # None =>
       content.timestamp_utc = content.last_update_utc

\* report() raises ProviderReportError.
ReportFails(name, content) ==
  \/ content.fault \in ReadFaults
  \/ content.fault = None /\ content.provider \notin {None, name}
  \/ content.fault = None /\ ~Validates(content)

\* report() raises something else.
ReportEscapes(content) == content.fault = Undecodable

\* Mutant: a source that cannot be read is reported as empty but fresh.
ReportedStatusGuess(name, content) ==
  IF ReportFails(name, content)
    THEN [BareStatus(name, "FRESH", None) EXCEPT !.unencodable = content.unencodable]
    ELSE [provider      |-> name,
          freshness     |-> content.freshness,
          timestamp_utc |-> AuthorityTimestamp(content),
          reason_code   |-> content.reason_code,
          publication   |-> content.publication,
          policy        |-> content.policy,
          has_array     |-> content.has_array,
          unencodable   |-> content.unencodable]

\* The status under which a provider's report is recorded.
ReportedStatus(name, content) ==
  IF ReportFails(name, content)
    THEN [BareStatus(name, "FAILED", "PROVIDER_REPORT_FAILED")
            EXCEPT !.unencodable = content.unencodable]
    ELSE [provider      |-> name,
          freshness     |-> content.freshness,
          timestamp_utc |-> AuthorityTimestamp(content),
          reason_code   |-> content.reason_code,
          publication   |-> content.publication,
          policy        |-> content.policy,
          has_array     |-> content.has_array,
          unencodable   |-> content.unencodable]

\* A StaticProvider is constructed around a status that validated already and
\* names this provider or none.
FitsStatic(name, content) ==
  /\ content.fault = None
  /\ content.provider \in {None, name}
  /\ Validates(content)
=============================================================================
