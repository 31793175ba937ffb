------------------------------ MODULE WalletPoll ------------------------------
(***************************************************************************)
(* The poller of watched wallets (tasks/poll_watched_wallets.py): it pages *)
(* newest-first through a wallet's trades at the Data API, trims and sorts *)
(* what it got, and inserts what the trades table does not have yet, in    *)
(* batches.  Meanwhile the wallet goes on trading, which shifts the pages, *)
(* and the live WebSocket ingestor inserts trades of its own.              *)
(*                                                                         *)
(* A wallet's fills are numbered in the order they happened; fill i of     *)
(* wallet w is the row the API returns for it.  The API serves a wallet's  *)
(* fills in descending order of that number.                               *)
(***************************************************************************)
EXTENDS Integers, Sequences

CONSTANTS
  Wallets,    \* watched wallets
  MaxFills,   \* bound: fills of one wallet
  TxOf,       \* TxOf[w][i]: transactionHash of fill i
  AssetOf,    \* AssetOf[w][i]: its asset
  TimeOf,     \* TimeOf[w][i]: its timestamp, in whole seconds
  Cutoffs,    \* lookback cutoffs a run may use
  Limit,      \* rows of a page (500 in the code)
  MaxPages,   \* _MAX_PAGES
  BatchSize,  \* _BATCH_SIZE
  Live,       \* whether the WebSocket ingestor runs
  MaxFaults   \* bound: errors and crashes in a behaviour

Fills == 1..MaxFills

ASSUME PollAssumption ==
  /\ MaxFills \in Nat
  /\ TimeOf \in [Wallets -> [Fills -> Nat]]
  /\ \A w \in Wallets : \A i, j \in Fills : i < j => TimeOf[w][i] <= TimeOf[w][j]
  /\ Cutoffs \subseteq Nat
  /\ Limit \in Nat \ {0}
  /\ MaxPages \in Nat \ {0}
  /\ BatchSize \in Nat \ {0}
  /\ Live \in BOOLEAN
  /\ MaxFaults \in Nat

VARIABLES
  hist,       \* hist[w]: how many fills w has made
  rows,       \* rows[w]: fills of w in trades, in the order they were inserted
  polled,     \* fills whose row the poller inserted (external_trade_id)
  streamed,   \* fills the WebSocket ingestor has inserted
  at,         \* where the poller is: idle, fetch, load, ingest
  wallet,     \* the wallet it polls
  cutoff,     \* cutoff_ts
  offset,     \* pagination offset
  got,        \* fills among the raw trades fetched
  copies,     \* copies[i]: how often fill i is still in the list to work off
  truncated,  \* FetchResult.truncated
  start,      \* hist[wallet] when the first page was served (observer)
  captured,   \* fills that were in trades when the keys were loaded
  seen,       \* seen_this_run
  batch,      \* inserted, not committed
  faults      \* errors and crashes so far

table  == <<hist, rows, polled, streamed>>
fetch  == <<wallet, cutoff, offset, got, truncated, start>>
ingest == <<captured, seen, batch>>
vars   == <<hist, rows, polled, streamed, at, wallet, cutoff, offset, got,
            copies, truncated, start, captured, seen, batch, faults>>

NoCopies == [i \in Fills |-> 0]

Init ==
  /\ hist      = [w \in Wallets |-> 0]
  /\ rows      = [w \in Wallets |-> <<>>]
  /\ polled    = {}
  /\ streamed  = {}
  /\ at        = "idle"
  /\ wallet    \in Wallets
  /\ cutoff    \in Cutoffs
  /\ offset    = 0
  /\ got       = {}
  /\ copies    = NoCopies
  /\ truncated = FALSE
  /\ start     = 0
  /\ captured  = {}
  /\ seen      = {}
  /\ batch     = <<>>
  /\ faults    = 0

Time(i) == TimeOf[wallet][i]
Recent(i) == Time(i) >= cutoff

(* The dedup key (tx_hash, asset_id).                                      *)
SameKey(w, i, j) ==
  TxOf[w][i] = TxOf[w][j] /\ AssetOf[w][i] = AssetOf[w][j]

Elements(s) == {s[n] : n \in DOMAIN s}

Fault == faults < MaxFaults /\ faults' = faults + 1

-----------------------------------------------------------------------------
(* The outside: the wallet trades; the stream delivers a trade.            *)

Fill(w) ==
  /\ hist[w] < MaxFills
  /\ hist' = [hist EXCEPT ![w] = @ + 1]
  /\ UNCHANGED <<rows, polled, streamed, at, fetch, copies, ingest, faults>>

(* _persist_trade: no look at what trades has already.                     *)
WsCapture(w, i) ==
  /\ Live
  /\ i <= hist[w] /\ <<w, i>> \notin streamed
  /\ rows' = [rows EXCEPT ![w] = Append(@, i)]
  /\ streamed' = streamed \cup {<<w, i>>}
  /\ UNCHANGED <<hist, polled, at, fetch, copies, ingest, faults>>

-----------------------------------------------------------------------------
(* Fetching.                                                               *)

PollStart(w, c) ==
  /\ at = "idle"
  /\ at' = "fetch"
  /\ wallet' = w
  /\ cutoff' = c
  /\ offset' = 0
  /\ got' = {}
  /\ copies' = NoCopies
  /\ truncated' = FALSE
  /\ start' = hist[w]
  /\ UNCHANGED <<table, ingest, faults>>

(* What the API serves at this offset now.                                 *)
Page == {i \in Fills : /\ i <= hist[wallet] - offset
                       /\ i > hist[wallet] - offset - Limit}

(* Mutant of LastPage: a full page that ends exactly at the cutoff stops   *)
(* the fetch.                                                              *)
LastPageAtCutoff ==
  \/ hist[wallet] - offset < Limit
  \/ \E i \in Page : Time(i) <= cutoff

(* An empty or short page, or one that reaches past the cutoff.            *)
LastPage ==
  \/ hist[wallet] - offset < Limit
  \/ \E i \in Page : ~Recent(i)

(* Mutant of NextOffset: off by one.                                       *)
NextOffsetPlusOne == offset + Limit + 1

NextOffset == offset + Limit

FetchPage ==
  /\ at = "fetch"
  /\ got' = got \cup Page
  /\ copies' = [i \in Fills |-> IF i \in Page THEN copies[i] + 1 ELSE copies[i]]
  /\ start' = IF offset = 0 THEN hist[wallet] ELSE start
  /\ \/ /\ LastPage
        /\ at' = "load"
        /\ UNCHANGED <<offset, truncated>>
     \/ /\ ~LastPage
        /\ NextOffset < MaxPages * Limit
        /\ offset' = NextOffset
        /\ UNCHANGED <<at, truncated>>
     \/ /\ ~LastPage
        /\ NextOffset >= MaxPages * Limit
        /\ at' = "load"
        /\ truncated' = TRUE
        /\ UNCHANGED offset
  /\ UNCHANGED <<table, wallet, cutoff, ingest, faults>>

(* The 429 retries are exhausted or a request fails: the pages fetched so  *)
(* far are kept.                                                           *)
FetchFails ==
  /\ at = "fetch" /\ Fault
  /\ at' = "load"
  /\ truncated' = TRUE
  /\ UNCHANGED <<table, wallet, cutoff, offset, got, copies, start, ingest>>

-----------------------------------------------------------------------------
(* Ingesting.                                                              *)

(* _filter_and_sort_window and _load_captured_keys.                        *)
LoadKeys ==
  /\ at = "load"
  /\ at' = "ingest"
  /\ copies' = [i \in Fills |-> IF Recent(i) THEN copies[i] ELSE 0]
  /\ captured' = Elements(rows[wallet])
  /\ seen' = {}
  /\ batch' = <<>>
  /\ UNCHANGED <<table, fetch, faults>>

(* Mutant of IsNext: the list is left as the API sent it, newest first.    *)
IsNextUnsorted(i) ==
  /\ copies[i] > 0
  /\ \A j \in Fills : copies[j] > 0 => j <= i

(* The next row of the list: sorted() is stable and the API's order is     *)
(* newest first, so of two rows of one second the newer one comes first.   *)
IsNext(i) ==
  /\ copies[i] > 0
  /\ \A j \in Fills : copies[j] > 0 =>
       \/ Time(i) < Time(j)
       \/ Time(i) = Time(j) /\ j <= i

(* Mutant of Known: only what this run has seen.                           *)
KnownInRun(i) == \E j \in seen : SameKey(wallet, i, j)

Known(i) == \E j \in captured \cup seen : SameKey(wallet, i, j)

(* external_trade_id = "clob_poll-<tx_hash>" is unique in trades.          *)
Conflicts(i) ==
  \/ \E row \in polled : TxOf[row[1]][row[2]] = TxOf[wallet][i]
  \/ \E j \in Elements(batch) : TxOf[wallet][j] = TxOf[wallet][i]

Taken(i) == copies' = [copies EXCEPT ![i] = @ - 1]

Commit(b) ==
  /\ rows' = [rows EXCEPT ![wallet] = @ \o b]
  /\ polled' = polled \cup {<<wallet, i>> : i \in Elements(b)}
  /\ batch' = <<>>
  /\ UNCHANGED <<hist, streamed>>

SkipNext(i) ==
  /\ at = "ingest" /\ IsNext(i) /\ Known(i)
  /\ Taken(i)
  /\ UNCHANGED <<table, at, fetch, ingest, faults>>

(* The market cannot be resolved at present: the trade is left out.        *)
Unresolved(i) ==
  /\ at = "ingest" /\ IsNext(i) /\ ~Known(i) /\ Fault
  /\ Taken(i)
  /\ UNCHANGED <<table, at, fetch, ingest>>

IngestNext(i) ==
  /\ at = "ingest" /\ IsNext(i) /\ ~Known(i) /\ ~Conflicts(i)
  /\ Taken(i)
  /\ seen' = seen \cup {i}
  /\ \/ /\ Len(batch) + 1 >= BatchSize
        /\ Commit(Append(batch, i))
     \/ /\ Len(batch) + 1 < BatchSize
        /\ batch' = Append(batch, i)
        /\ UNCHANGED table
  /\ UNCHANGED <<at, fetch, captured, faults>>

(* The session rolls back and the rest of the wallet is left to the next   *)
(* run.                                                                    *)
Abort ==
  /\ at' = "idle"
  /\ batch' = <<>>
  /\ UNCHANGED <<table, fetch, copies, captured, seen>>

HitsConflict(i) ==
  /\ at = "ingest" /\ IsNext(i) /\ ~Known(i) /\ Conflicts(i)
  /\ Abort
  /\ UNCHANGED faults

(* An ingest or commit error, or the process dies.                         *)
Fails == at # "idle" /\ Fault /\ Abort

Finish ==
  /\ at = "ingest" /\ \A i \in Fills : copies[i] = 0
  /\ at' = "idle"
  /\ Commit(batch)
  /\ UNCHANGED <<fetch, copies, captured, seen, faults>>

-----------------------------------------------------------------------------
Next ==
  \/ \E w \in Wallets : \/ Fill(w)
                        \/ \E i \in Fills : WsCapture(w, i)
                        \/ \E c \in Cutoffs : PollStart(w, c)
  \/ FetchPage \/ FetchFails \/ LoadKeys
  \/ \E i \in Fills : \/ SkipNext(i) \/ Unresolved(i)
                      \/ IngestNext(i) \/ HitsConflict(i)
  \/ Fails
  \/ Finish

Spec == Init /\ [][Next]_vars

(* Every run works through all watched wallets one after the other, and    *)
(* the task is run again and again; only faults are bounded.               *)
Fairness ==
  /\ \A w \in Wallets : SF_vars(\E c \in Cutoffs : PollStart(w, c))
  /\ WF_vars(FetchPage)
  /\ WF_vars(LoadKeys)
  /\ \A i \in Fills : WF_vars(SkipNext(i) \/ IngestNext(i) \/ HitsConflict(i))
  /\ WF_vars(Finish)

FairSpec == Spec /\ Fairness

-----------------------------------------------------------------------------
(* Properties.                                                             *)

(* The type invariant.                                                     *)
TypeOK ==
  /\ hist \in [Wallets -> 0..MaxFills]
  /\ rows \in [Wallets -> Seq(Fills)]
  /\ polled \in SUBSET (Wallets \X Fills)
  /\ streamed \in SUBSET (Wallets \X Fills)
  /\ at \in {"idle", "fetch", "load", "ingest"}
  /\ wallet \in Wallets
  /\ cutoff \in Cutoffs
  /\ offset \in Nat
  /\ got \in SUBSET Fills
  /\ copies \in [Fills -> Nat]
  /\ truncated \in BOOLEAN
  /\ start \in 0..MaxFills
  /\ captured \in SUBSET Fills
  /\ seen \in SUBSET Fills
  /\ batch \in Seq(Fills)
  /\ faults \in 0..MaxFaults

(* "The drift direction only ever repeats rows, never skips one": however  *)
(* many trades land between the page requests, a fetch that is not marked  *)
(* truncated has every recent fill that existed when it began.             *)
NeverSkips ==
  at \in {"load", "ingest"} /\ ~truncated =>
    \A i \in 1..start : Recent(i) => i \in got

(* A complete poll works strictly oldest second first: when it inserts a   *)
(* fill, every recent fill of an earlier second was delivered and has been *)
(* dealt with.                                                             *)
OldestFirst ==
  at = "ingest" /\ ~truncated =>
    \A j \in seen, i \in Fills :
      Recent(i) /\ Time(i) < Time(j) => i \in got /\ copies[i] = 0

(* A poll adds a second row of a (tx_hash, asset_id) only to one that the  *)
(* stream inserted after the poll had loaded its keys: offset drift, an    *)
(* aborted batch, a crash and any number of repeated runs add none.        *)
RepeatsOnlyRaces ==
  [][\A i \in Fills :
       <<wallet, i>> \in polled' \ polled =>
         \A j \in Elements(rows[wallet]) :
           SameKey(wallet, i, j) =>
             j \notin captured /\ <<wallet, j>> \in streamed]_vars

(* "Whatever didn't commit is picked up on the next run": every fill has   *)
(* its row in the end.                                                     *)
EventuallyIngested ==
  \A w \in Wallets, i \in Fills :
    (i <= hist[w]) ~> (\E j \in Elements(rows[w]) : SameKey(w, i, j))
=============================================================================
