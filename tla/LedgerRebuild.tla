--------------------------- MODULE LedgerRebuild ----------------------------
(***************************************************************************)
(* The tasks that rewrite the position ledger from the trades table, run   *)
(* by hand beside the live writers of PositionLedger: the positions        *)
(* backfill, the late-BUY recovery, the scoring backfill, the status fix   *)
(* and the cost-basis fix.  Each scans in one session and then visits the  *)
(* keys it found one transaction at a time, so trades, the resolution job, *)
(* retention and the operator's Ctrl-C come in between.  One task runs at  *)
(* a time.                                                                 *)
(***************************************************************************)
EXTENDS PositionLedger, SequencesExt

VARIABLES
  hist,      \* hist[k]: the rows of k in trades, ordered by ts
  exits,     \* exits[k]: the part of wcp[k] that is_resolved = False
  task,      \* the running task: name, keys to visit, outcomes it loaded
  former,    \* former[k]: history, the row the backfill deleted
  recovered  \* history: keys recovered and not bought since

books   == <<hist, exits>>
notes   == <<former, recovered>>
allvars == <<vars, hist, exits, task, former, recovered>>

NoLabels == [k \in Keys |-> None]
Idle     == [name |-> "none", todo |-> {}, label |-> NoLabels]
NoRows   == [k \in Keys |-> NoRow]

RebuildInit ==
  /\ Init
  /\ hist      = [k \in Keys |-> <<>>]
  /\ exits     = [k \in Keys |-> [sold |-> 0, pnl |-> 0]]
  /\ task      = Idle
  /\ former    = NoRows
  /\ recovered = {}

-----------------------------------------------------------------------------
(* The live writers, with the trade they leave behind.  Stream and poller  *)
(* deliver late: a trade may be older than trades already stored.          *)

Stored(k, t) ==
  \E i \in 1..(Len(hist[k]) + 1) :
    hist' = [hist EXCEPT ![k] = InsertAt(@, i, t)]

LiveBuy(k, n) ==
  /\ WsBuy(k, n) \/ PollBuy(k, n)
  /\ Stored(k, [side |-> "BUY", size |-> n, price |-> EntryPrice[k],
                closed |-> 0, gain |-> 0, stamped |-> FALSE])
  /\ recovered' = recovered \ {k}
  /\ UNCHANGED <<exits, task, former>>

(* closed and gain: the WCP row the SELL wrote, 0 shares for none.         *)
LiveSell(k, n, price) ==
  LET closed == wcp'[k].sold - wcp[k].sold
      gain   == wcp'[k].pnl - wcp[k].pnl
  IN /\ Sell(k, n, price)
     /\ Stored(k, [side |-> "SELL", size |-> n, price |-> price,
                   closed |-> closed, gain |-> gain, stamped |-> FALSE])
     /\ exits' = [exits EXCEPT ![k] = [sold |-> @.sold + closed,
                                       pnl |-> @.pnl + gain]]
     /\ UNCHANGED <<task, notes>>

LiveProcess(blank) ==
  /\ ProcessMarket(blank)
  /\ hist' = [k \in Keys |->
                IF k \in blank THEN hist[k]
                ELSE [i \in DOMAIN hist[k] |->
                        [hist[k][i] EXCEPT !.stamped = TRUE]]]
  /\ UNCHANGED <<exits, task, notes>>

(* Retention moves the oldest trade of a resolved market to the archive.   *)
Archive(k) ==
  /\ Resolved /\ hist[k] # <<>>
  /\ hist' = [hist EXCEPT ![k] = Tail(@)]
  /\ UNCHANGED <<vars, exits, task, notes>>

Live ==
  \/ \E k \in Keys, n \in Sizes :
       LiveBuy(k, n) \/ \E price \in SellPrices : LiveSell(k, n, price)
  \/ \E blank \in SUBSET {k \in Keys : token[k] = None} : LiveProcess(blank)
  \/ \E k \in Keys : Archive(k)
  \/ /\ \/ \E l \in Labels : Sync(l)
        \/ FindMarkets
        \/ \E k \in Keys, l \in Labels : UpsertToken(k, l)
     /\ UNCHANGED <<books, task, notes>>

-----------------------------------------------------------------------------
(* A task's course.                                                        *)

Total(column) == FoldLeft(LAMBDA sum, n : sum + n, 0, column)

BuySizes(h)  == [i \in DOMAIN h |-> IF h[i].side = "BUY" THEN h[i].size ELSE 0]
SellSizes(h) == [i \in DOMAIN h |-> IF h[i].side = "SELL" THEN h[i].size ELSE 0]
Closings(h)  == [i \in DOMAIN h |-> h[i].closed]

Of(k, side)  == {t \in ToSet(hist[k]) : t.side = side}
Purchased(k) == Total(BuySizes(hist[k]))
WithBuys     == {k \in Keys : Of(k, "BUY") # {}}

Starts(name, todo, label) ==
  /\ task.name = "none" /\ todo # {}
  /\ task' = [name |-> name, todo |-> todo, label |-> label]

Visits(name, k) ==
  /\ task.name = name /\ k \in task.todo
  /\ task' = IF task.todo = {k} THEN Idle ELSE [task EXCEPT !.todo = @ \ {k}]

OnlyPos(k, p) ==
  /\ pos' = [pos EXCEPT ![k] = p]
  /\ UNCHANGED <<world, cb, wcp, flow, jobs, books>>

(* The operator stops the task, or the process dies.                       *)
Killed ==
  /\ task.name # "none"
  /\ task' = Idle
  /\ former' = NoRows
  /\ UNCHANGED <<vars, books, recovered>>

-----------------------------------------------------------------------------
(* run_positions_backfill: find the pairs with a BUY, delete every row,    *)
(* replay the trades of each pair.                                         *)

BackfillScan ==
  /\ Starts("backfill", WithBuys, NoLabels)
  /\ UNCHANGED <<vars, books, notes>>

Truncate ==
  /\ task.name = "backfill"
  /\ task' = [task EXCEPT !.name = "replay"]
  /\ pos' = NoRows
  /\ former' = [k \in Keys |-> IF k \in task.todo THEN pos[k] ELSE NoRow]
  /\ UNCHANGED <<world, cb, wcp, flow, jobs, books, recovered>>

NothingReplayed ==
  [bought |-> 0, sold |-> 0, remaining |-> 0, pnl |-> 0, avg |-> 0]

(* Mutant of ReplayStep: the P&L of a SELL is computed from its price even *)
(* when it has a WCP row.                                                  *)
ReplayStepByPrice(k, r, t) ==
  IF t.side = "BUY"
  THEN [r EXCEPT !.bought = @ + t.size, !.remaining = @ + t.size,
                 !.avg = EntryPrice[k]]
  ELSE [r EXCEPT !.sold = @ + t.size, !.remaining = Greatest(0, @ - t.size),
                 !.pnl = @ + (t.price - r.avg) * t.size]

(* A SELL takes the P&L of its WCP row (closed_at is the trade's ts), or   *)
(* that of its price against the average entry so far.                     *)
ReplayStep(k, r, t) ==
  IF t.side = "BUY"
  THEN [r EXCEPT !.bought = @ + t.size, !.remaining = @ + t.size,
                 !.avg = EntryPrice[k]]
  ELSE [r EXCEPT !.sold = @ + t.size, !.remaining = Greatest(0, @ - t.size),
                 !.pnl = @ + IF t.closed > 0 THEN t.gain
                             ELSE (t.price - r.avg) * t.size]

Replayed(k) ==
  FoldLeft(LAMBDA r, t : ReplayStep(k, r, t), NothingReplayed, hist[k])

Unclosed(b, s) == Greatest(0, b - s)

(* The shares and the P&L of the resolved WCP rows.                        *)
Settled(k)   == wcp[k].sold - exits[k].sold
SettledPnl(k) == wcp[k].pnl - exits[k].pnl

(* Mutant of Rebuilt: the shares of resolved rows are not counted as sold. *)
RebuiltUnsettled(k) ==
  LET r == Replayed(k)
  IN [status |-> IF r.remaining = 0 THEN "Closed" ELSE "Open",
      bought |-> r.bought, sold |-> r.sold, remaining |-> r.remaining,
      pnl |-> r.pnl + SettledPnl(k)]

Rebuilt(k) ==
  LET r    == Replayed(k)
      sold == r.sold + Settled(k)
      left == IF wcp[k].resolved # {} THEN Unclosed(r.bought, sold)
              ELSE r.remaining
  IN [status |-> IF left = 0 THEN "Closed" ELSE "Open",
      bought |-> r.bought, sold |-> sold, remaining |-> left,
      pnl |-> r.pnl + SettledPnl(k)]

(* A row that a trade has created since the truncation makes the insert    *)
(* fail on the unique (wallet, asset): the error is logged, the row stays. *)
RebuildKey(k) ==
  /\ Visits("replay", k)
  /\ former' = [former EXCEPT ![k] = NoRow]
  /\ IF k \in WithBuys /\ pos[k].status = "none"
     THEN OnlyPos(k, Rebuilt(k))
     ELSE UNCHANGED <<vars, books>>
  /\ UNCHANGED recovered

-----------------------------------------------------------------------------
(* run_late_buy_recovery: groups, market and token outcomes are loaded     *)
(* first, then a group is booked for its BUYs less its SELL rows.          *)

RecoveryScan ==
  /\ Resolved
  /\ Starts("recovery", WithBuys, token)
  /\ UNCHANGED <<vars, books, notes>>

(* Mutant of AlreadyBooked: the check of the first version, any resolved   *)
(* row counts as a duplicate.                                              *)
AlreadyBookedBroad(k, n) == wcp[k].resolved # {}

AlreadyBooked(k, n) == n \in wcp[k].resolved

RecoverKey(k) ==
  LET net == Purchased(k) - exits[k].sold
  IN /\ Visits("recovery", k)
     /\ \/ /\ task.label[k] # None /\ net > 0 /\ ~AlreadyBooked(k, net)
           /\ wcp' = [wcp EXCEPT ![k] = WithResolution(@, net,
                        Gain(k, IF task.label[k] = market.resolution
                                THEN Payout ELSE 0, net))]
           /\ hist' = [hist EXCEPT ![k] =
                         [i \in DOMAIN @ |-> [@[i] EXCEPT !.stamped = TRUE]]]
           /\ trades' = [trades EXCEPT !.unstamped = @ \ {k}]
           /\ UNCHANGED <<pos, exits>>
        \/ /\ task.label[k] = None \/ net <= 0 \/ AlreadyBooked(k, net)
           /\ UNCHANGED <<wcp, pos, trades, books>>
     /\ recovered' = IF task.label[k] # None THEN recovered \cup {k}
                     ELSE recovered
     /\ UNCHANGED <<world, cb, bought, jobs, former>>

-----------------------------------------------------------------------------
(* run_scoring_backfill, one transaction: a key without a resolved row     *)
(* gets one of the size of one of its stamped BUYs; its autoflushed rows   *)
(* make the duplicate check skip the key's other BUYs.                     *)

StampedSizes(k) == {t.size : t \in {u \in Of(k, "BUY") : u.stamped}}

Scorable == {k \in Keys : StampedSizes(k) # {} /\ wcp[k].resolved = {}}

ScoringBackfill(size, won) ==
  /\ task.name = "none" /\ Scorable # {}
  /\ \A k \in Scorable : size[k] \in StampedSizes(k)
  /\ wcp' = [k \in Keys |-> IF k \in Scorable
               THEN WithResolution(wcp[k], size[k],
                      Gain(k, IF k \in won THEN Payout ELSE 0, size[k]))
               ELSE wcp[k]]
  /\ UNCHANGED <<world, cb, pos, flow, jobs, books, task, notes>>

-----------------------------------------------------------------------------
(* run_positions_status_fix (rows Open on a resolved market) and           *)
(* run_positions_cost_basis_fix.                                           *)

StatusScan ==
  /\ Starts("status", Orphans, NoLabels)
  /\ UNCHANGED <<vars, books, notes>>

StatusFix(k) ==
  /\ Visits("status", k)
  /\ IF pos[k].status = "Open"
     THEN OnlyPos(k, [status |-> "Closed", bought |-> pos[k].bought,
                      sold |-> wcp[k].sold,
                      remaining |-> Unclosed(pos[k].bought, wcp[k].sold),
                      pnl |-> wcp[k].pnl])
     ELSE UNCHANGED <<vars, books>>
  /\ UNCHANGED notes

BasisScan ==
  /\ Starts("basis", {k \in Keys : pos[k].sold > pos[k].bought}, NoLabels)
  /\ UNCHANGED <<vars, books, notes>>

(* The row is read again, the condition is not.                            *)
BasisFix(k) ==
  /\ Visits("basis", k)
  /\ IF pos[k].status # "none"
     THEN OnlyPos(k, [pos[k] EXCEPT !.bought = pos[k].sold])
     ELSE UNCHANGED <<vars, books>>
  /\ UNCHANGED notes

-----------------------------------------------------------------------------
Tasks ==
  \/ BackfillScan \/ Truncate \/ RecoveryScan \/ StatusScan \/ BasisScan
  \/ \E k \in Keys : \/ RebuildKey(k) \/ RecoverKey(k)
                     \/ StatusFix(k)  \/ BasisFix(k)
  \/ \E size \in [Scorable -> Sizes], won \in SUBSET Keys :
       ScoringBackfill(size, won)
  \/ Killed

RebuildNext == Live \/ Tasks

RebuildSpec == RebuildInit /\ [][RebuildNext]_allvars

-----------------------------------------------------------------------------
(* Properties.                                                             *)

(* Every SELL found its whole size in the cost basis; no trade of k has    *)
(* been archived; in ts order no SELL precedes the BUYs that cover it.     *)
AllBooked(k)  == \A t \in Of(k, "SELL") : t.closed = t.size
AllPresent(k) == /\ Purchased(k) = bought[k]
                 /\ Total(Closings(hist[k])) = exits[k].sold
InOrder(k) ==
  \A i \in DOMAIN hist[k] :
    LET past == SubSeq(hist[k], 1, i)
    IN Total(SellSizes(past)) <= Total(BuySizes(past))

(* The row the backfill deleted tells the truth about the trades and WCP   *)
(* rows there are; the status fix may have closed it with shares left.     *)
TrueRow(k) ==
  /\ former[k].bought = bought[k]
  /\ former[k].sold = wcp[k].sold
  /\ former[k].sold + former[k].remaining = former[k].bought
  /\ former[k].status = "Open" <=> former[k].remaining > 0

Rebuilds(k) ==
  /\ task.name = "replay" /\ k \in task.todo
  /\ pos[k].status = "none" /\ pos'[k].status # "none"
  /\ k \notin task'.todo

(* The replay of the trades and the handlers that book them one by one are *)
(* two programs for the same row.  Where the trades are all there, in      *)
(* order and fully booked, the backfill writes back the very shares and    *)
(* status it deleted, whatever settled, ran or was traded of other keys in *)
(* between.  A key that is itself traded between the deletion and its      *)
(* rebuilding (run_positions_backfill.py:57) is left out by TrueRow.       *)
RebuiltAsBooked ==
  [][\A k \in Keys :
       Rebuilds(k) /\ AllBooked(k) /\ AllPresent(k) /\ InOrder(k)
         /\ TrueRow(k)
       => [pos'[k] EXCEPT !.pnl = 0] = [former[k] EXCEPT !.pnl = 0]]_allvars

(* A rebuilt row has the P&L that scoring sees in the WCP rows, even when  *)
(* SELLs were only partly covered, rows were recovered or the key settled  *)
(* more than once; only SELLs that left no WCP row at all are estimated.   *)
RebuiltReconciles ==
  [][\A k \in Keys :
       /\ Rebuilds(k) /\ AllPresent(k)
       /\ \A t \in Of(k, "SELL") : t.closed > 0
       => pos'[k].pnl = wcp[k].pnl]_allvars

(* What the recovery is for: once it has visited a key with a known        *)
(* outcome, the WCP rows cover every BUY in trades until the next BUY.     *)
NothingUnbooked == \A k \in recovered : wcp[k].sold >= Purchased(k)
=============================================================================
