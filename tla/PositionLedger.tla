--------------------------- MODULE PositionLedger ---------------------------
(***************************************************************************)
(* The position ledger: what a BUY, a SELL and each settlement job do to   *)
(* the three tables that carry a wallet's stake in one market --           *)
(* wallet_cost_basis, wallet_positions and wallet_closed_positions (WCP).  *)
(*                                                                         *)
(* A key is a (wallet, asset) pair of the market.  Every action is one     *)
(* committed transaction; a job that scans in one session and acts in      *)
(* another (resolver, epsilon close, stranded check, resolution job) is    *)
(* a scan action and later act actions, with other writers in between.     *)
(* Shares and prices are small integers; every BUY of a key is at          *)
(* EntryPrice[key], so the two average entry prices are that price.        *)
(***************************************************************************)
EXTENDS Integers, FiniteSets

CONSTANTS
  Keys,        \* (wallet, asset_id) pairs that hold tokens of the market
  Labels,      \* outcome labels, after upper()
  None,        \* SQL NULL
  Sizes,       \* sizes of a trade
  EntryPrice,  \* EntryPrice[k]: the price of every BUY of k
  SellPrices,  \* prices a SELL may have
  Payout,      \* exit price of the winning token (1.0 in the code)
  Dust,        \* a position of fewer shares is dust (1.0 in the code)
  MaxTrades,   \* bound: trades ingested in a behaviour
  Jobs         \* which writers run beside the ingestor and the poller

JobNames == {"resolution", "resolver", "unknown", "epsilon", "stranded"}

ASSUME ConstantsAssumption ==
  /\ None \notin Labels
  /\ Sizes \subseteq Nat \ {0}
  /\ EntryPrice \in [Keys -> Nat \ {0}]
  /\ SellPrices \subseteq Nat
  /\ Payout \in Nat
  /\ Dust \in Nat
  /\ MaxTrades \in Nat
  /\ Jobs \subseteq JobNames

VARIABLES
  market,    \* the markets row: resolution, what trades were stamped with
  phase,     \* age of the market against its end_date
  token,     \* token[k]: tokens.outcome, None while unknown
  cb,        \* cb[k]: wallet_cost_basis.total_size, 0 for no or empty row
  pos,       \* pos[k]: the wallet_positions row
  wcp,       \* wcp[k]: what the WCP rows of k add up to
  trades,    \* BUYs not yet stamped, and how many trades were ingested
  bought,    \* bought[k]: shares of all BUYs of k in trades
  queued,    \* the resolution job has selected the market
  resolver,  \* the market resolver's fetched answer
  epsilon,   \* keys the epsilon-close job still has to visit
  stranded   \* the stranded-positions check: pass and keys to visit

tables == <<cb, pos, wcp>>
world  == <<market, phase, token>>
flow   == <<trades, bought>>
jobs   == <<queued, resolver, epsilon, stranded>>
vars   == <<market, phase, token, cb, pos, wcp, trades, bought,
            queued, resolver, epsilon, stranded>>

NoRow == [status |-> "none", bought |-> 0, sold |-> 0, remaining |-> 0,
          pnl |-> 0]
NoWcp == [sold |-> 0, pnl |-> 0, resolved |-> {}, residual |-> FALSE]

Init ==
  /\ market   = [resolution |-> None, stamped |-> None]
  /\ phase    = "trading"
  /\ token    \in [Keys -> Labels \cup {None}]
  /\ cb       = [k \in Keys |-> 0]
  /\ pos      = [k \in Keys |-> NoRow]
  /\ wcp      = [k \in Keys |-> NoWcp]
  /\ trades   = [unstamped |-> {}, count |-> 0]
  /\ bought   = [k \in Keys |-> 0]
  /\ queued   = FALSE
  /\ resolver = [busy |-> FALSE, answer |-> None, late |-> FALSE]
  /\ epsilon  = {}
  /\ stranded = [pass |-> "idle", todo |-> {}]

Resolved == market.resolution # None

-----------------------------------------------------------------------------
(* Row operations: what the helpers of services/wallets do to one row.     *)

Least(m, n)    == IF m < n THEN m ELSE n
Greatest(m, n) == IF m < n THEN n ELSE m

(* update_position_on_buy *)
AfterBuy(p, n) ==
  [status |-> "Open", bought |-> p.bought + n, sold |-> p.sold,
   remaining |-> p.remaining + n, pnl |-> p.pnl]

(* update_position_on_sell with realized P&L g; a SELL with no row leaves  *)
(* a Closed placeholder.                                                   *)
AfterSell(p, n, g) ==
  IF p.status = "none"
  THEN [status |-> "Closed", bought |-> n, sold |-> n, remaining |-> 0,
        pnl |-> 0]
  ELSE [status |-> IF p.remaining > n THEN p.status ELSE "Closed",
        bought |-> Greatest(p.bought, p.sold + n), sold |-> p.sold + n,
        remaining |-> Greatest(0, p.remaining - n), pnl |-> p.pnl + g]

(* Mutants of AfterSettlement: the "sells exceed buys" guard is missing;   *)
(* the P&L is not added.                                                   *)
AfterSettlementUnguarded(p, n, g) ==
  IF p.status = "none"
  THEN p
  ELSE [p EXCEPT !.status = "Closed", !.sold = @ + n, !.remaining = 0,
                 !.pnl = @ + g]
AfterSettlementNoPnl(p, n, g) ==
  IF p.status = "none"
  THEN p
  ELSE [p EXCEPT !.status = "Closed", !.sold = @ + n, !.remaining = 0,
                 !.bought = Greatest(@, p.sold + n)]

(* close_position_on_resolution: n shares settle with P&L g.               *)
AfterSettlement(p, n, g) ==
  IF p.status = "none"
  THEN p
  ELSE [status |-> "Closed", bought |-> Greatest(p.bought, p.sold + n),
        sold |-> p.sold + n, remaining |-> 0, pnl |-> p.pnl + g]

(* Mutant of AfterCloseOut: remaining_shares is not reset.                 *)
AfterCloseOutKeepsShares(p, g) ==
  [p EXCEPT !.status = "Closed", !.sold = @ + p.remaining, !.pnl = @ + g]

(* The same closing as three jobs inline it: all remaining shares leave.   *)
AfterCloseOut(p, g) ==
  [status |-> "Closed", bought |-> p.bought, sold |-> p.sold + p.remaining,
   remaining |-> 0, pnl |-> p.pnl + g]

(* Pass 2 of the stranded check: sold shares are not touched, the P&L      *)
(* becomes that of the WCP rows.                                           *)
AfterOrphan(p, g) ==
  [status |-> "Closed", bought |-> p.bought, sold |-> p.sold,
   remaining |-> 0, pnl |-> g]

(* The WCP rows after one more: of a SELL, of a resolution, of dust.       *)
WithExit(w, n, g) ==
  [sold |-> w.sold + n, pnl |-> w.pnl + g,
   resolved |-> w.resolved, residual |-> w.residual]
WithResolution(w, n, g) ==
  [sold |-> w.sold + n, pnl |-> w.pnl + g,
   resolved |-> w.resolved \cup {n}, residual |-> w.residual]
WithResidual(w, n, g) ==
  [sold |-> w.sold + n, pnl |-> w.pnl + g,
   resolved |-> w.resolved, residual |-> TRUE]

Gain(k, exit, n) == (exit - EntryPrice[k]) * n

(* P&L of n shares of k when the market settles as label l.                *)
Settlement(k, l, n) == Gain(k, IF token[k] = l THEN Payout ELSE 0, n)

-----------------------------------------------------------------------------
(* Trades: the ingestor's _persist_trade and the poller's _ingest_trade.   *)

Arrives == /\ trades.count < MaxTrades
           /\ UNCHANGED <<world, jobs>>

IngestBuy(k, n) ==
  /\ Arrives
  /\ trades' = [unstamped |-> trades.unstamped \cup {k},
                count |-> trades.count + 1]
  /\ bought' = [bought EXCEPT ![k] = @ + n]

(* close_cost_basis_if_resolved, run on the size and row the BUY left: it  *)
(* closes them, finds a resolved WCP of that very size and drops the cost  *)
(* basis, or leaves both.                                                  *)
CloseIfResolved(k, size, p) ==
  \/ /\ Resolved /\ size \notin wcp[k].resolved /\ token[k] # None
     /\ LET g == Settlement(k, market.resolution, size)
        IN /\ wcp' = [wcp EXCEPT ![k] = WithResolution(@, size, g)]
           /\ pos' = [pos EXCEPT ![k] = AfterSettlement(p, size, g)]
     /\ cb' = [cb EXCEPT ![k] = 0]
  \/ /\ Resolved /\ size \in wcp[k].resolved
     /\ cb'  = [cb EXCEPT ![k] = 0]
     /\ pos' = [pos EXCEPT ![k] = p]
     /\ UNCHANGED wcp
  \/ /\ ~Resolved \/ (token[k] = None /\ size \notin wcp[k].resolved)
     /\ cb'  = [cb EXCEPT ![k] = size]
     /\ pos' = [pos EXCEPT ![k] = p]
     /\ UNCHANGED wcp

WsBuy(k, n) ==
  /\ IngestBuy(k, n)
  /\ CloseIfResolved(k, cb[k] + n, AfterBuy(pos[k], n))

PollBuy(k, n) ==
  /\ IngestBuy(k, n)
  /\ cb'  = [cb EXCEPT ![k] = @ + n]
  /\ pos' = [pos EXCEPT ![k] = AfterBuy(@, n)]
  /\ UNCHANGED wcp

(* Mutant of Closable: the closed shares are not capped.                   *)
ClosableUncapped(k, n) == n

(* write_sell_closed_position closes at most the shares whose cost basis   *)
(* is known; _reduce_position.                                             *)
Closable(k, n)   == Least(n, cb[k])
Reduced(size, n) == Greatest(0, size - n)

(* Without a cost basis a SELL writes no WCP row; update_position_on_sell  *)
(* takes the full size in either case.                                     *)
Sell(k, n, price) ==
  LET size == IF cb[k] = 0 THEN 0 ELSE Closable(k, n)
      gain == Gain(k, price, size)
  IN /\ Arrives
     /\ trades' = [trades EXCEPT !.count = @ + 1]
     /\ wcp' = [wcp EXCEPT ![k] = WithExit(@, size, gain)]
     /\ cb'  = [cb EXCEPT ![k] = Reduced(@, n)]
     /\ pos' = [pos EXCEPT ![k] = AfterSell(@, n, gain)]
     /\ UNCHANGED bought

-----------------------------------------------------------------------------
(* The resolution job: sync from Gamma, select the market, process it.     *)

Sync(l) ==
  /\ ~Resolved /\ ~queued
  /\ market' = [market EXCEPT !.resolution = l]
  /\ UNCHANGED <<phase, token, tables, flow, jobs>>

NeedsRestamp ==
  /\ Resolved
  /\ \/ trades.unstamped # {}
     \/ market.stamped # market.resolution /\ \E k \in Keys : bought[k] > 0

FindMarkets ==
  /\ ~queued /\ NeedsRestamp
  /\ queued' = TRUE
  /\ UNCHANGED <<world, tables, flow, resolver, epsilon, stranded>>

(* A cost basis whose token has no outcome is deleted, nothing else.       *)
Settles(k) == cb[k] > 0 /\ token[k] # None

ProcessMarket(blank) ==
  LET l == market.resolution
  IN /\ queued
     /\ queued' = FALSE
     /\ wcp' = [k \in Keys |-> IF Settles(k)
                  THEN WithResolution(wcp[k], cb[k], Settlement(k, l, cb[k]))
                  ELSE wcp[k]]
     /\ pos' = [k \in Keys |-> IF Settles(k)
                  THEN AfterSettlement(pos[k], cb[k], Settlement(k, l, cb[k]))
                  ELSE pos[k]]
     /\ cb' = [k \in Keys |-> 0]
     /\ market' = [market EXCEPT !.stamped = l]
     /\ trades' = [trades EXCEPT !.unstamped = @ \cap blank]
     /\ UNCHANGED <<phase, token, bought, resolver, epsilon, stranded>>

-----------------------------------------------------------------------------
(* The market resolver: candidates and answers are fetched first, applied  *)
(* later in a session of their own that does not look at market.resolved.  *)

ResolverFetch(answer) ==
  /\ ~resolver.busy /\ ~Resolved /\ phase # "trading"
  /\ resolver' = [busy |-> TRUE, answer |-> answer, late |-> phase = "dead"]
  /\ UNCHANGED <<world, tables, flow, queued, epsilon, stranded>>

ResolverRests == resolver' = [busy |-> FALSE, answer |-> None, late |-> FALSE]

(* _close_positions_on_resolution writes a WCP row of the remaining shares *)
(* unless some resolved row exists; a token without outcome is a loser.    *)
ResolverRow(k, l) ==
  IF pos[k].remaining > 0 /\ wcp[k].resolved = {}
  THEN WithResolution(wcp[k], pos[k].remaining,
                      Settlement(k, l, pos[k].remaining))
  ELSE wcp[k]

(* Mutant of BasisAfterResolver: the cost basis is left behind.            *)
BasisAfterResolverKept(k) == cb[k]

BasisAfterResolver(k) == IF pos[k].remaining > 0 THEN 0 ELSE cb[k]

ResolverApply ==
  LET l == resolver.answer
  IN /\ resolver.busy /\ l # None
     /\ market' = [market EXCEPT !.resolution = l]
     /\ wcp' = [k \in Keys |-> ResolverRow(k, l)]
     /\ pos' = [k \in Keys |-> IF pos[k].remaining > 0
                  THEN AfterCloseOut(pos[k],
                                     Settlement(k, l, pos[k].remaining))
                  ELSE pos[k]]
     /\ cb' = [k \in Keys |-> BasisAfterResolver(k)]
     /\ ResolverRests
     /\ UNCHANGED <<phase, token, flow, queued, epsilon, stranded>>

(* _close_positions_unknown_outcome: no WCP row, the cost basis stays.     *)
ResolverGivesUp ==
  /\ resolver.busy /\ resolver.answer = None /\ resolver.late
  /\ pos' = [k \in Keys |-> IF pos[k].remaining > 0
               THEN AfterCloseOut(pos[k], 0) ELSE pos[k]]
  /\ ResolverRests
  /\ UNCHANGED <<world, cb, wcp, flow, queued, epsilon, stranded>>

(* No answer yet, or an exception: this run leaves the market as it is.    *)
ResolverLeaves ==
  /\ resolver.busy
  /\ ResolverRests
  /\ UNCHANGED <<world, tables, flow, queued, epsilon, stranded>>

-----------------------------------------------------------------------------
(* Epsilon close: scan for idle dust, then close it key by key, looking at *)
(* the positions row again but not at the market or the cost basis.        *)

IsDust(p) == p.status = "Open" /\ p.remaining > 0 /\ p.remaining < Dust

EpsilonScan(idle) ==
  /\ epsilon = {} /\ idle # {} /\ ~Resolved
  /\ \A k \in idle : IsDust(pos[k])
  /\ epsilon' = idle
  /\ UNCHANGED <<world, tables, flow, queued, resolver, stranded>>

EpsilonClose(k, price) ==
  LET g == Gain(k, price, pos[k].remaining)
  IN /\ k \in epsilon
     /\ ~wcp[k].residual /\ IsDust(pos[k])
     /\ wcp' = [wcp EXCEPT ![k] = WithResidual(@, pos[k].remaining, g)]
     /\ pos' = [pos EXCEPT ![k] = AfterCloseOut(@, g)]
     /\ epsilon' = epsilon \ {k}
     /\ UNCHANGED <<world, cb, flow, queued, resolver, stranded>>

EpsilonSkip(k) ==
  /\ k \in epsilon
  /\ wcp[k].residual \/ ~IsDust(pos[k])
  /\ epsilon' = epsilon \ {k}
  /\ UNCHANGED <<world, tables, flow, queued, resolver, stranded>>

-----------------------------------------------------------------------------
(* The stranded-positions check: pass 1 over cost bases of a resolved      *)
(* market, pass 2 over positions still Open on one.                        *)

StrandedScan ==
  /\ stranded.pass = "idle"
  /\ stranded' = [pass |-> "cost_basis",
                  todo |-> {k \in Keys : Resolved /\ cb[k] > 0}]
  /\ UNCHANGED <<world, tables, flow, queued, resolver, epsilon>>

Visited(k) == stranded' = [stranded EXCEPT !.todo = @ \ {k}]

StrandedClose(k) ==
  /\ stranded.pass = "cost_basis" /\ k \in stranded.todo
  /\ Visited(k)
  /\ \/ /\ cb[k] > 0 /\ token[k] # None /\ cb[k] \notin wcp[k].resolved
        /\ wcp' = [wcp EXCEPT ![k] = WithResolution(@, cb[k],
                     Settlement(k, market.resolution, cb[k]))]
        /\ cb'  = [cb EXCEPT ![k] = 0]
     \/ /\ cb[k] > 0 /\ token[k] # None /\ cb[k] \in wcp[k].resolved
        /\ cb' = [cb EXCEPT ![k] = 0]
        /\ UNCHANGED wcp
     \/ /\ cb[k] = 0 \/ token[k] = None
        /\ UNCHANGED <<cb, wcp>>
  /\ UNCHANGED <<world, pos, flow, queued, resolver, epsilon>>

(* Mutant of Orphans: joined with wallet_cost_basis.                       *)
OrphansWithBasis == {k \in Keys : Resolved /\ pos[k].status = "Open" /\ cb[k] > 0}

Orphans == {k \in Keys : Resolved /\ pos[k].status = "Open"}

OrphanScan ==
  /\ stranded.pass = "cost_basis" /\ stranded.todo = {}
  /\ stranded' = [pass |-> "orphans", todo |-> Orphans]
  /\ UNCHANGED <<world, tables, flow, queued, resolver, epsilon>>

(* The orphan's WCP rows once pass 2 has looked at it.                     *)
OrphanRows(k) ==
  LET n == pos[k].remaining
  IN IF wcp[k].resolved = {} /\ n > 0
     THEN WithResolution(wcp[k], n, Settlement(k, market.resolution, n))
     ELSE wcp[k]

IsOrphan(p) == p.remaining > 0 \/ p.status = "Open"

OrphanClose(k) ==
  /\ stranded.pass = "orphans" /\ k \in stranded.todo
  /\ Visited(k)
  /\ \/ /\ IsOrphan(pos[k]) /\ token[k] # None
        /\ wcp' = [wcp EXCEPT ![k] = OrphanRows(k)]
        /\ pos' = [pos EXCEPT ![k] = AfterOrphan(@, OrphanRows(k).pnl)]
     \/ /\ ~IsOrphan(pos[k]) \/ token[k] = None
        /\ UNCHANGED <<wcp, pos>>
  /\ UNCHANGED <<world, cb, flow, queued, resolver, epsilon>>

StrandedDone ==
  /\ stranded.pass = "orphans" /\ stranded.todo = {}
  /\ stranded' = [pass |-> "idle", todo |-> {}]
  /\ UNCHANGED <<world, tables, flow, queued, resolver, epsilon>>

-----------------------------------------------------------------------------
(* The market's surroundings: time passes, discovery learns or corrects    *)
(* a token's label.                                                        *)

Age ==
  /\ \/ phase = "trading" /\ phase' = "due"   \* 24h past end_date
     \/ phase = "due" /\ phase' = "dead"      \* 7 days past end_date
  /\ UNCHANGED <<market, token, tables, flow, jobs>>

UpsertToken(k, l) ==
  /\ token[k] # l
  /\ token' = [token EXCEPT ![k] = l]
  /\ UNCHANGED <<market, phase, tables, flow, jobs>>

Trading ==
  \E k \in Keys, n \in Sizes :
    WsBuy(k, n) \/ PollBuy(k, n) \/ \E price \in SellPrices : Sell(k, n, price)

ResolutionJob ==
  /\ "resolution" \in Jobs
  /\ \/ \E l \in Labels : Sync(l)
     \/ FindMarkets
     \/ \E blank \in SUBSET {k \in Keys : token[k] = None} :
          ProcessMarket(blank)

ResolverJob ==
  \/ /\ "resolver" \in Jobs
     /\ (\E l \in Labels : ResolverFetch(l)) \/ ResolverApply
  \/ /\ "unknown" \in Jobs
     /\ ResolverFetch(None) \/ ResolverGivesUp
  \/ ResolverLeaves

EpsilonJob ==
  /\ "epsilon" \in Jobs
  /\ \/ \E idle \in SUBSET Keys : EpsilonScan(idle)
     \/ \E k \in Keys : \/ EpsilonSkip(k)
                        \/ \E price \in SellPrices \cup {EntryPrice[k]} :
                             EpsilonClose(k, price)

StrandedJob ==
  /\ "stranded" \in Jobs
  /\ \/ StrandedScan \/ OrphanScan \/ StrandedDone
     \/ \E k \in Keys : StrandedClose(k) \/ OrphanClose(k)

Next ==
  \/ Trading
  \/ ResolutionJob
  \/ ResolverJob
  \/ EpsilonJob
  \/ StrandedJob
  \/ Age
  \/ \E k \in Keys, l \in Labels : UpsertToken(k, l)

Spec == Init /\ [][Next]_vars

(* The worker's scheduler keeps starting its jobs and a started job goes   *)
(* on to its end; nothing is assumed of traders, Gamma or time.  Resolved  *)
(* keeps Sync, which waits for Gamma's answer, out of the fair steps.      *)
Fairness ==
  /\ WF_vars(ResolutionJob /\ Resolved)
  /\ WF_vars(StrandedJob)

FairSpec == Spec /\ Fairness

-----------------------------------------------------------------------------
(* Properties.                                                             *)

Row == [status : {"none", "Open", "Closed"}, bought : Nat, sold : Nat,
        remaining : Nat, pnl : Int]
WcpRows == [sold : Nat, pnl : Int, resolved : SUBSET Nat, residual : BOOLEAN]
Outcome == Labels \cup {None}

(* The type invariant: sizes never go negative, and the jobs' state is one *)
(* of their control points.                                                *)
TypeOK ==
  /\ market \in [resolution : Outcome, stamped : Outcome]
  /\ phase \in {"trading", "due", "dead"}
  /\ token \in [Keys -> Outcome]
  /\ cb \in [Keys -> Nat]
  /\ pos \in [Keys -> Row]
  /\ wcp \in [Keys -> WcpRows]
  /\ trades \in [unstamped : SUBSET Keys, count : 0..MaxTrades]
  /\ bought \in [Keys -> Nat]
  /\ queued \in BOOLEAN
  /\ resolver \in [busy : BOOLEAN, answer : Outcome, late : BOOLEAN]
  /\ epsilon \in SUBSET Keys
  /\ stranded \in [pass : {"idle", "cost_basis", "orphans"},
                   todo : SUBSET Keys]

(* positions.py, epsilon_close.py, run_market_resolver.py and the stranded *)
(* check each set status and remaining_shares on their own: whatever order *)
(* they run in, a row is Open exactly when shares remain, so that neither  *)
(* an "Open" query nor a "remaining_shares > 0" query misses a position.   *)
StatusMatchesShares ==
  \A k \in Keys : pos[k].status = "Open" <=> pos[k].remaining > 0

(* total_shares_bought covers what was sold and what is left.  SELLs of    *)
(* unseen BUYs and settlements of an older cost basis both exceed it, and  *)
(* are what the "sells exceed buys" guards are for; the three jobs that    *)
(* inline the closing have no such guard.                                  *)
NeverOversold ==
  \A k \in Keys : pos[k].sold + pos[k].remaining <= pos[k].bought

(* No share is booked as closed twice: the WCP rows of a key and the cost  *)
(* basis still to be closed never exceed the shares that were bought, so   *)
(* scoring counts each purchase once.                                      *)
NoDoubleClose == \A k \in Keys : wcp[k].sold + cb[k] <= bought[k]

(* The P&L the UI shows for a position is the sum of the P&L rows scoring  *)
(* uses: each writer adds to both or to neither.                           *)
PnlReconciles == \A k \in Keys : pos[k].pnl = wcp[k].pnl

(* Once a market with known outcomes is resolved, every position on it is  *)
(* eventually closed, late purchases included.                             *)
EventuallySettled ==
  (Resolved /\ \A k \in Keys : token[k] # None)
    ~> (\A k \in Keys : pos[k].status # "Open")

(* The promise the ledger implements: see ShareAccounts.                   *)
Accounts == INSTANCE ShareAccounts
              WITH bought <- bought, open <- cb,
                   closed <- [k \in Keys |-> wcp[k].sold]
ImplementsAccounts == Accounts!Spec
=============================================================================
