--------------------------- MODULE ShareAccounts ---------------------------
(***************************************************************************)
(* What the position ledger promises about shares, with the tables, the    *)
(* jobs and the market left out.  Of the shares bought of a (wallet,       *)
(* asset) key some are open (their cost is carried) and some are closed    *)
(* (a P&L row was booked).  A share enters by being bought, leaves by      *)
(* being closed or written off, and never comes back.                      *)
(***************************************************************************)
EXTENDS Naturals

CONSTANT Keys

VARIABLES bought,  \* bought[k] : shares ever bought
          open,    \* open[k]   : shares whose cost basis is carried
          closed   \* closed[k] : shares a P&L row has been booked for

accounts == <<bought, open, closed>>

Init ==
  /\ bought = [k \in Keys |-> 0]
  /\ open   = [k \in Keys |-> 0]
  /\ closed = [k \in Keys |-> 0]

(* In one commit shares are bought, shares that are open or just bought    *)
(* are closed, and others are written off: what is then open or newly      *)
(* closed was open or newly bought.                                        *)
Move(k) ==
  /\ bought'[k] >= bought[k]
  /\ closed'[k] >= closed[k]
  /\ open'[k] + (closed'[k] - closed[k]) <= open[k] + (bought'[k] - bought[k])

Next == \A k \in Keys : Move(k)

Spec == Init /\ [][Next]_accounts
=============================================================================
