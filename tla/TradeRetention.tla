---------------------------- MODULE TradeRetention ----------------------------
(***************************************************************************)
(* The daily purge of old trades beside the poller.  The purge moves a     *)
(* trade from trades to trades_archive in steps of one transaction; the    *)
(* poller fetches recent trades from the API and stores those it does not  *)
(* find in trades -- it never looks into the archive.                      *)
(*                                                                         *)
(* Time is the age of each trade, counted up to one tick past Retention,   *)
(* the last age anything is compared with.  Every trade is in a market of  *)
(* its own; the attributed ones are of one watched wallet.  Races of the   *)
(* poller with the stream are the subject of WalletPoll: here trades is a  *)
(* set.                                                                    *)
(***************************************************************************)
EXTENDS Naturals, FiniteSets

CONSTANTS
  Trades,     \* what the wallet and others trade
  Anonymous,  \* the trades without a wallet, which no poll lists
  Seeded,     \* the trades the one-time seed copied to the archive
  Retention,  \* trade_retention_days
  Lookback,   \* lookback_days of a poll
  PollTime    \* bound: how long a poll takes

ASSUME ConstantsAssumption ==
  /\ Anonymous \subseteq Trades /\ Seeded \subseteq Trades
  /\ Retention \in Nat /\ Lookback \in Nat /\ PollTime \in Nat

(* The default lookback is 7 days, the retention 30.                       *)
ASSUME WindowAssumption == Lookback + PollTime <= Retention

VARIABLES
  happened,  \* the trades made so far
  age,       \* age[t] of a trade that happened
  live,      \* the rows of trades
  archive,   \* archive[t]: the rows of t in trades_archive
  settled,   \* the trades whose market is resolved
  scored,    \* wallets.score_computed_at of the wallet is set
  purge,     \* the purge: where it is and what it has read
  poll       \* the poll: where it is and what it has read

vars == <<happened, age, live, archive, settled, scored, purge, poll>>

Ages     == 0..Retention + 1
Older(a) == IF a > Retention THEN a ELSE a + 1

Passes == {"anonymous", "scored"}
Idle   == [at |-> "idle", pass |-> "anonymous", old |-> {}, ids |-> {}, fresh |-> {}]
NoPoll == [at |-> "idle", old |-> {}, list |-> {}, captured |-> {}, elapsed |-> 0]

(* The seed ran when the seeded trades were old.                           *)
Init ==
  /\ happened = Seeded
  /\ age     = [t \in Trades |-> IF t \in Seeded THEN Retention + 1 ELSE 0]
  /\ live    = Seeded
  /\ archive = [t \in Trades |-> IF t \in Seeded THEN 1 ELSE 0]
  /\ settled = {}
  /\ scored  = FALSE
  /\ purge   = Idle
  /\ poll    = NoPoll

-----------------------------------------------------------------------------
(* purge_old_trades: two passes with one cutoff, a transaction each.       *)

(* Mutant of Due: the age the poller looks back, not the retention.        *)
DueEarly(t) == t \in happened /\ age[t] > 0

Due(t) == t \in happened /\ age[t] > Retention

PurgeStart ==
  /\ purge.at = "idle"
  /\ purge' = [at |-> "select", pass |-> "anonymous",
                old |-> {t \in Trades : Due(t)}, ids |-> {}, fresh |-> {}]
  /\ UNCHANGED <<happened, age, live, archive, settled, scored, poll>>

(* Mutant of Eligible: the second pass repeats the first one's clause.     *)
EligibleNoWallet(pass) ==
  {t \in live \cap purge.old \cap settled : t \in Anonymous}

(* The where clause of a pass.                                             *)
Eligible(pass) ==
  {t \in live \cap purge.old \cap settled :
     IF pass = "anonymous" THEN t \in Anonymous
     ELSE t \notin Anonymous /\ scored}

AfterPass(pass) ==
  IF pass = "anonymous"
  THEN [at |-> "select", pass |-> "scored", old |-> purge.old,
        ids |-> {}, fresh |-> {}]
  ELSE Idle

(* The source rows; without any the pass is over.                          *)
PurgeSelect(pass) ==
  /\ purge.at = "select" /\ purge.pass = pass
  /\ purge' = IF Eligible(pass) = {} THEN AfterPass(pass)
              ELSE [at |-> "copy", pass |-> pass, old |-> purge.old,
                    ids |-> Eligible(pass), fresh |-> {}]
  /\ UNCHANGED <<happened, age, live, archive, settled, scored, poll>>

(* The ids the archive does not have yet.                                  *)
Fresh(ids) == {t \in ids : archive[t] = 0}

PurgeCopy(pass) ==
  /\ purge.at = "copy" /\ purge.pass = pass
  /\ purge' = [at |-> "delete", pass |-> pass, old |-> purge.old,
                ids |-> purge.ids, fresh |-> Fresh(purge.ids)]
  /\ UNCHANGED <<happened, age, live, archive, settled, scored, poll>>

Copied == [t \in Trades |-> IF t \in purge.fresh THEN archive[t] + 1
                           ELSE archive[t]]

(* Mutant of PurgeCommit: the delete evaluates the where clause again and  *)
(* its count is not compared.                                              *)
PurgeCommitByClause(pass) ==
  /\ purge.at = "delete" /\ purge.pass = pass
  /\ Cardinality(purge.fresh)
       + Cardinality({t \in purge.ids : archive[t] > 0}) = Cardinality(purge.ids)
  /\ live'    = live \ Eligible(pass)
  /\ archive' = Copied
  /\ purge'   = AfterPass(pass)
  /\ UNCHANGED <<happened, age, settled, scored, poll>>

(* Delete by id and commit, if the counts of source, archived and deleted  *)
(* rows agree; then both the copies and the delete become visible.         *)
PurgeCommit(pass) ==
  /\ purge.at = "delete" /\ purge.pass = pass
  /\ Cardinality(purge.fresh)
       + Cardinality({t \in purge.ids : archive[t] > 0}) = Cardinality(purge.ids)
  /\ Cardinality(purge.ids \cap live) = Cardinality(purge.ids)
  /\ live'    = live \ purge.ids
  /\ archive' = Copied
  /\ purge'   = AfterPass(pass)
  /\ UNCHANGED <<happened, age, settled, scored, poll>>

(* A mismatch or a database error ends the run; the pass rolls back.       *)
PurgeFails ==
  /\ purge.at # "idle"
  /\ purge' = Idle
  /\ UNCHANGED <<happened, age, live, archive, settled, scored, poll>>

-----------------------------------------------------------------------------
(* poll_watched_wallets: the cutoff, the fetch, the captured keys, and     *)
(* then one insert after the other.                                        *)

PollStart ==
  /\ poll.at = "idle"
  /\ poll' = [at |-> "fetch", old |-> {t \in happened : age[t] > Lookback},
               list |-> {}, captured |-> {}, elapsed |-> 0]
  /\ UNCHANGED <<happened, age, live, archive, settled, scored, purge>>

PollFetch ==
  /\ poll.at = "fetch"
  /\ poll' = [at |-> "load", old |-> poll.old,
               list |-> happened \ (poll.old \cup Anonymous),
               captured |-> {}, elapsed |-> poll.elapsed]
  /\ UNCHANGED <<happened, age, live, archive, settled, scored, purge>>

PollLoad ==
  /\ poll.at = "load"
  /\ poll' = [at |-> "insert", old |-> poll.old, list |-> poll.list,
               captured |-> live, elapsed |-> poll.elapsed]
  /\ UNCHANGED <<happened, age, live, archive, settled, scored, purge>>

PollInsert(t) ==
  /\ poll.at = "insert" /\ t \in poll.list
  /\ poll' = [poll EXCEPT !.list = @ \ {t}]
  /\ live' = IF t \in poll.captured THEN live ELSE live \cup {t}
  /\ UNCHANGED <<happened, age, archive, settled, scored, purge>>

(* The wallet is done, or the run aborts and leaves the rest to the next.  *)
PollEnds ==
  /\ poll.at # "idle"
  /\ poll' = NoPoll
  /\ UNCHANGED <<happened, age, live, archive, settled, scored, purge>>

-----------------------------------------------------------------------------
(* Surroundings.  A trade happens; the stream stores it at once or never.  *)

Happens(t, captured) ==
  /\ t \notin happened
  /\ happened' = happened \cup {t}
  /\ live' = IF captured THEN live \cup {t} ELSE live
  /\ UNCHANGED <<age, archive, settled, scored, purge, poll>>

Resolves(t) ==
  /\ t \notin settled
  /\ settled' = settled \cup {t}
  /\ UNCHANGED <<happened, age, live, archive, scored, purge, poll>>

Scores ==
  /\ ~scored
  /\ scored' = TRUE
  /\ UNCHANGED <<happened, age, live, archive, settled, purge, poll>>

Tick ==
  /\ poll.at # "idle" => poll.elapsed < PollTime
  /\ age'  = [t \in Trades |-> IF t \in happened THEN Older(age[t]) ELSE age[t]]
  /\ poll' = [poll EXCEPT !.elapsed = IF poll.at = "idle" THEN 0 ELSE @ + 1]
  /\ UNCHANGED <<happened, live, archive, settled, scored, purge>>

PurgeStep(pass) == PurgeSelect(pass) \/ PurgeCopy(pass) \/ PurgeCommit(pass)

Next ==
  \/ PurgeStart \/ PurgeFails
  \/ \E pass \in Passes : PurgeStep(pass)
  \/ PollStart \/ PollFetch \/ PollLoad \/ PollEnds
  \/ \E t \in Trades : PollInsert(t)
  \/ \E t \in Trades, captured \in BOOLEAN : Happens(t, captured)
  \/ \E t \in Trades : Resolves(t)
  \/ Scores
  \/ Tick

Spec == Init /\ [][Next]_vars

(* The scheduler starts the purge every day, and none of its statements    *)
(* fails for ever.  Nothing is assumed of time, traders or the poller.     *)
Fairness ==
  /\ WF_vars(PurgeStart)
  /\ \A pass \in Passes : /\ SF_vars(PurgeSelect(pass))
                          /\ SF_vars(PurgeCopy(pass))
                          /\ SF_vars(PurgeCommit(pass))

FairSpec == Spec /\ Fairness

-----------------------------------------------------------------------------
(* Properties.                                                             *)

(* The type invariant.  The rows to copy are among those to delete.        *)
TypeOK ==
  /\ happened \in SUBSET Trades
  /\ age \in [Trades -> Ages]
  /\ live \in SUBSET Trades
  /\ archive \in [Trades -> Nat]
  /\ settled \in SUBSET Trades
  /\ scored \in BOOLEAN
  /\ purge \in [at : {"idle", "select", "copy", "delete"}, pass : Passes,
                old : SUBSET Trades, ids : SUBSET Trades, fresh : SUBSET Trades]
  /\ purge.fresh \subseteq purge.ids
  /\ poll \in [at : {"idle", "fetch", "load", "insert"}, old : SUBSET Trades,
               list : SUBSET Trades, captured : SUBSET Trades,
               elapsed : 0..PollTime]

(* trades_full is trades and trades_archive together: whatever the poll    *)
(* fetched before and stores after a purge, no trade is in it twice, the   *)
(* seeded ones apart, which are until they are purged; and the archive,    *)
(* which has no unique key, never holds two rows of a trade.               *)
StoredOnce ==
  \A t \in Trades : /\ archive[t] <= 1
                    /\ (t \in live /\ archive[t] > 0) => t \in Seeded

(* No trade leaves the database: a purge deletes only what the archive     *)
(* holds when it commits, also the rows that became due meanwhile.         *)
NeverLost ==
  [][\A t \in Trades :
       t \in live \/ archive[t] > 0 => t \in live' \/ archive'[t] > 0]_vars

(* A trade that is due, of a resolved market, and either anonymous or of a *)
(* scored wallet leaves trades in the end, though runs may fail.           *)
EventuallyPurged ==
  \A t \in Trades :
    (t \in live /\ Due(t) /\ t \in settled /\ (t \in Anonymous \/ scored))
      ~> t \notin live
=============================================================================
