---------------------------- MODULE MCOutcomeStamp ----------------------------
(* Instances of OutcomeStamp for TLC.                                      *)
EXTENDS OutcomeStamp, TLC

CONSTANTS t1, t2, Yes, No

TwoTrades == {t1, t2}
TwoAssets == {"yes", "no"}
Sides     == [t \in Trades |-> IF t = t1 THEN "yes" ELSE "no"]
YesNo     == {Yes, No}
=============================================================================
