----------------------------- MODULE TradingDay -----------------------------
(***************************************************************************)
(* What a market calendar promises to whoever watches it as time passes:   *)
(* dates follow each other without a gap, and a date either has one phase  *)
(* from its beginning to its end or goes through a session, once and in    *)
(* order.                                                                  *)
(***************************************************************************)
EXTENDS Integers

VARIABLES date, phase

WithoutSession == {"WEEKEND", "HOLIDAY", "CLOSED"}

Phases == WithoutSession \cup {"PRE_OPEN", "MARKET_OPEN", "POST_CLOSE"}

\* The watch begins at any time of a day.
Init == date \in Int /\ phase \in Phases

Open == phase = "PRE_OPEN" /\ phase' = "MARKET_OPEN" /\ UNCHANGED date

Close == phase = "MARKET_OPEN" /\ phase' = "POST_CLOSE" /\ UNCHANGED date

NextDay ==
  /\ phase \in WithoutSession \cup {"POST_CLOSE"}
  /\ date' = date + 1
  /\ phase' \in WithoutSession \cup {"PRE_OPEN"}

Next == Open \/ Close \/ NextDay

Spec == Init /\ [][Next]_<<date, phase>>
=============================================================================
