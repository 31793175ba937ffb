----------------------------- MODULE OutcomeStamp -----------------------------
(***************************************************************************)
(* Stamping: trades.outcome_result is derived from markets.resolution,     *)
(* which several jobs write and which may be corrected after trades were   *)
(* stamped.  One market and its BUY trades; the cost bases and positions   *)
(* that the same jobs settle are PositionLedger's subject.                 *)
(*                                                                         *)
(* The resolution job selects the market in one session and processes it   *)
(* in another, where it reads the resolution first and updates the trades  *)
(* last.  Nothing locks the market in between.                             *)
(***************************************************************************)
EXTENDS Integers, FiniteSets

CONSTANTS
  Trades,          \* BUY trades that may arrive
  Assets,          \* the market's tokens
  AssetOf,         \* AssetOf[t]: the token t bought
  Labels,          \* outcome labels, after upper()
  None,            \* SQL NULL
  MaxCorrections   \* bound: corrections of a published outcome

ASSUME StampAssumption ==
  /\ None \notin Labels
  /\ AssetOf \in [Trades -> Assets]
  /\ MaxCorrections \in Nat

VARIABLES
  gamma,     \* the outcome Gamma publishes, and corrections made so far
  market,    \* markets.resolution, .outcome_result_stamped_resolution
  token,     \* token[a]: tokens.outcome
  trade,     \* trade[t]: trade_type, outcome, outcome_result
  writer,    \* the two jobs that write a resolution they fetched earlier
  run        \* the resolution job's work on this market

vars == <<gamma, market, token, trade, writer, run>>

Outcome == Labels \cup {None}
Writers == {"resolver", "refresh"}
Idle    == "idle"

NoTrade == [type |-> "absent", outcome |-> None, result |-> "null"]
NoRun   == [at |-> Idle, resolution |-> None]

Init ==
  /\ gamma  = [outcome |-> None, corrections |-> 0]
  /\ market = [resolution |-> None, stamped |-> None]
  /\ token  \in [Assets -> Outcome]
  /\ trade  = [t \in Trades |-> NoTrade]
  /\ writer = [w \in Writers |-> [at |-> Idle, answer |-> None]]
  /\ run    = NoRun

Resolved   == market.resolution # None
Present(t) == trade[t].type # "absent"
Eligible(t) == trade[t].type = "plain"

(* What a purchase of outcome o is worth once l has won.                   *)
Result(o, l) == IF o = l THEN "win" ELSE "loss"

-----------------------------------------------------------------------------
(* The outside: Gamma publishes and may correct an outcome; the operator   *)
(* then corrects a resolution that was taken over too early.               *)

GammaResolves(l) ==
  /\ gamma.outcome = None
  /\ gamma' = [gamma EXCEPT !.outcome = l]
  /\ UNCHANGED <<market, token, trade, writer, run>>

GammaCorrects(l) ==
  /\ gamma.outcome \notin {None, l}
  /\ gamma.corrections < MaxCorrections
  /\ gamma' = [outcome |-> l, corrections |-> gamma.corrections + 1]
  /\ UNCHANGED <<market, token, trade, writer, run>>

OperatorCorrects ==
  /\ Resolved /\ market.resolution # gamma.outcome
  /\ market' = [market EXCEPT !.resolution = gamma.outcome]
  /\ UNCHANGED <<gamma, token, trade, writer, run>>

(* _upsert_token: discovery learns a label or corrects it.                 *)
UpsertToken(a, l) ==
  /\ token[a] # l
  /\ token' = [token EXCEPT ![a] = l]
  /\ UNCHANGED <<gamma, market, trade, writer, run>>

-----------------------------------------------------------------------------
(* Trades.                                                                 *)

(* The ingestor's and the poller's INSERT: the outcome is the token's at   *)
(* that moment, or missing.                                                *)
Ingest(t, o) ==
  /\ ~Present(t)
  /\ o \in {None, token[AssetOf[t]]}
  /\ trade' = [trade EXCEPT ![t] = [type |-> "plain", outcome |-> o,
                                    result |-> "null"]]
  /\ UNCHANGED <<gamma, market, token, writer, run>>

(* tag_farming_trades, from the daily score refresh.                       *)
TagFarming(t) ==
  /\ Eligible(t)
  /\ trade' = [trade EXCEPT ![t] = [type |-> "farming", outcome |-> @.outcome,
                                    result |-> @.result]]
  /\ UNCHANGED <<gamma, market, token, writer, run>>

-----------------------------------------------------------------------------
(* Writers of markets.resolution.                                          *)

(* _sync_resolved_markets reads market.resolved again before it writes.    *)
Sync ==
  /\ ~Resolved /\ gamma.outcome # None
  /\ market' = [market EXCEPT !.resolution = gamma.outcome]
  /\ UNCHANGED <<gamma, token, trade, writer, run>>

(* The market resolver and the status refresh select unresolved markets,   *)
(* ask Gamma, and write the answer without looking at the market again.    *)
Scan(w) ==
  /\ writer[w].at = Idle /\ ~Resolved
  /\ writer' = [writer EXCEPT ![w] = [at |-> "scanned", answer |-> None]]
  /\ UNCHANGED <<gamma, market, token, trade, run>>

Fetch(w) ==
  /\ writer[w].at = "scanned"
  /\ writer' = [writer EXCEPT ![w] =
                  [at |-> IF gamma.outcome = None THEN Idle ELSE "fetched",
                   answer |-> gamma.outcome]]
  /\ UNCHANGED <<gamma, market, token, trade, run>>

Apply(w) ==
  /\ writer[w].at = "fetched"
  /\ market' = [market EXCEPT !.resolution = writer[w].answer]
  /\ writer' = [writer EXCEPT ![w] = [at |-> Idle, answer |-> None]]
  /\ UNCHANGED <<gamma, token, trade, run>>

-----------------------------------------------------------------------------
(* The resolution job.                                                     *)

(* Mutants of NeedsRestamp: one of its two triggers is missing.            *)
UnstampedOnly ==
  Resolved /\ \E t \in Trades : Eligible(t) /\ trade[t].result = "null"
ChangedOnly ==
  /\ Resolved
  /\ \E t \in Trades : Eligible(t)
  /\ market.resolution # market.stamped

NeedsRestamp ==
  /\ Resolved
  /\ \E t \in Trades : /\ Eligible(t)
                       /\ \/ trade[t].result = "null"
                          \/ market.resolution # market.stamped

JobScan ==
  /\ run.at = Idle /\ NeedsRestamp
  /\ run' = [NoRun EXCEPT !.at = "queued"]
  /\ UNCHANGED <<gamma, market, token, trade, writer>>

(* The re-read of the market in a session of its own.                      *)
JobRead ==
  /\ run.at = "queued"
  /\ run' = [at |-> "read", resolution |-> market.resolution]
  /\ UNCHANGED <<gamma, market, token, trade, writer>>

Backfilled(t) ==
  IF trade[t].outcome = None THEN token[AssetOf[t]] ELSE trade[t].outcome

(* Mutant of Restamped: a missing outcome counts as a loss.                *)
RestampedCoalesce(t, l) ==
  [type |-> trade[t].type, outcome |-> Backfilled(t),
   result |-> IF Eligible(t) THEN Result(Backfilled(t), l)
              ELSE trade[t].result]

(* _restamp_trade_outcome_results on one row.                              *)
Restamped(t, l) ==
  [type |-> trade[t].type, outcome |-> Backfilled(t),
   result |-> IF ~Eligible(t) THEN trade[t].result
              ELSE IF Backfilled(t) = None THEN "null"
              ELSE Result(Backfilled(t), l)]

(* The two UPDATEs of trades, the one of markets, and the commit.  They    *)
(* are one step because whatever commits between the first UPDATE and the  *)
(* commit touches no row that was updated: a correction or a new trade may *)
(* as well come right after.                                               *)
JobCommit ==
  /\ run.at = "read"
  /\ trade' = [t \in Trades |-> IF Present(t)
                 THEN Restamped(t, run.resolution) ELSE trade[t]]
  /\ market' = [market EXCEPT !.stamped = run.resolution]
  /\ run' = NoRun
  /\ UNCHANGED <<gamma, token, writer>>

(* An exception, or the worker dies: the session is rolled back, the next  *)
(* run starts over.                                                        *)
JobFails ==
  /\ run.at # Idle
  /\ run' = NoRun
  /\ UNCHANGED <<gamma, market, token, trade, writer>>

-----------------------------------------------------------------------------
Outside ==
  \/ \E l \in Labels : GammaResolves(l) \/ GammaCorrects(l)
  \/ OperatorCorrects
  \/ \E a \in Assets, l \in Labels : UpsertToken(a, l)

Arrival ==
  \E t \in Trades : \/ \E o \in Outcome : Ingest(t, o)
                    \/ TagFarming(t)

OtherWriters ==
  \/ Sync
  \/ \E w \in Writers : Scan(w) \/ Fetch(w) \/ Apply(w)

Next ==
  \/ Outside
  \/ Arrival
  \/ OtherWriters
  \/ JobScan \/ JobRead \/ JobCommit \/ JobFails

Spec == Init /\ [][Next]_vars

(* The scheduler runs the job every 30 minutes; a run may fail, but not    *)
(* always, and an exception leaves nothing behind.                         *)
Fairness ==
  /\ WF_vars(JobScan)
  /\ SF_vars(JobRead)
  /\ SF_vars(JobCommit)

FairSpec == Spec /\ Fairness

-----------------------------------------------------------------------------
(* Properties.                                                             *)

Stamps == {"null", "win", "loss"}

(* The type invariant.                                                     *)
TypeOK ==
  /\ gamma \in [outcome : Outcome, corrections : 0..MaxCorrections]
  /\ market \in [resolution : Outcome, stamped : Outcome]
  /\ token \in [Assets -> Outcome]
  /\ trade \in [Trades -> [type : {"absent", "plain", "farming"},
                           outcome : Outcome, result : Stamps]]
  /\ writer \in [Writers -> [at : {Idle, "scanned", "fetched"},
                             answer : Outcome]]
  /\ run \in [at : {Idle, "queued", "read"}, resolution : Outcome]

Disagrees(t) ==
  /\ trade[t].result # "null"
  /\ trade[t].result # Result(trade[t].outcome, market.resolution)

(* No stamped trade is "frozen inverted forever": as long as the result of *)
(* an eligible trade disagrees with markets.resolution, whichever job or   *)
(* operator wrote it and whatever the resolution job had read before, the  *)
(* market is a candidate of the job's next run.                            *)
NoFrozenInversion ==
  \A t \in Trades : Eligible(t) /\ Disagrees(t) => NeedsRestamp

(* The restamp does not "fabricate a result off a blank outcome".          *)
NeverFabricated ==
  \A t \in Trades : trade[t].result # "null" => trade[t].outcome # None

Agrees(t) ==
  trade[t].result = Result(trade[t].outcome, market.resolution)

(* Corrections and late trades reach every eligible trade: from some time  *)
(* on each one with a known outcome carries the result that the market's   *)
(* resolution gives it.                                                    *)
EventuallyStamped ==
  \A t \in Trades :
    <>[](Resolved /\ Eligible(t) /\ Backfilled(t) # None => Agrees(t))
=============================================================================
