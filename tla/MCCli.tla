------------------------------- MODULE MCCli -------------------------------
(***************************************************************************)
(* The command line in the worlds of MCWorld.                              *)
(***************************************************************************)
EXTENDS Cli, MCWorld

\* The command line registers the one calendar.  At the first of its two instants New
\* York keeps local mean time.
CliCalendars == [key \in {"XNYS"} |-> PastCalendars["XNYS"]]

\* A pinned instant and the current one, either with an earlier cutoff, and a
\* timezone that is none.
CliRequests ==
  {Ask("REPLAY", 1, 0), Ask("PREVIEW", None, 0),
   [Ask("LIVE", None, None) EXCEPT !.market_timezone = Malformed]}

\* An array in the metadata, a lone surrogate, and bytes that cannot be decoded, next
\* to a reading after the cutoff that never changes.
CliContents ==
  << {[Payload("FRESH", 0, None) EXCEPT !.has_array = TRUE], SurrogateContent,
      Unreadable(Undecodable)},
     {Payload("FRESH", 1, None)} >>

CliPolicies ==
  {NoPolicy,
   [required_sources |-> {"prices", "fills"}, max_age_seconds |-> None,
    max_age_seconds_by_source |-> NoAges]}
=============================================================================
