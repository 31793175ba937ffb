-------------------------- MODULE MCPositionLedger --------------------------
(***************************************************************************)
(* A small instance of the position ledger: one wallet's Yes and No tokens *)
(* or the Yes token alone.  A BUY costs 1, a SELL fetches 2 and the winner *)
(* pays 3, so that every kind of exit has a P&L of its own.  One unit is   *)
(* half a share: a position of one unit is dust, one of two is not.        *)
(***************************************************************************)
EXTENDS PositionLedger

OneKey   == {"yes"}
TwoKeys  == {"yes", "no"}
BuyPrice == [k \in Keys |-> 1]

AllJobs  == JobNames
BookJobs == {"resolution", "unknown"}
=============================================================================
