-------------------------- MODULE MCLedgerRebuild ---------------------------
(* One key, as in MCPositionLedger: a BUY costs 1, a SELL fetches 2, the   *)
(* winner pays 3.                                                          *)
EXTENDS LedgerRebuild

OneKey   == {"yes"}
BuyPrice == [k \in Keys |-> 1]
RunJobs  == {"resolution"}
=============================================================================
