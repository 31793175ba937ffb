-------------------------- MODULE PointInTimeScores -------------------------
(***************************************************************************)
(* The point-in-time score of one wallet: a verdict on the positions that  *)
(* were closed before as_of, stored per as_of and overwritten when the     *)
(* universe is scored again.  Positions are booked at any time with a      *)
(* closing date that may lie behind stored scores, and a later check may   *)
(* tag their source as not to be trusted.                                  *)
(*                                                                         *)
(* Every position costs 1 and was entered at the price Entry; gains,       *)
(* prices and caps are in percent.                                         *)
(***************************************************************************)
EXTENDS Integers, Sequences, FiniteSets

LOCAL Sets == INSTANCE FiniteSetsExt

CONSTANTS
  Gains,         \* realized_pnl of a position
  Entry,         \* entry_price
  Span,          \* formation_window_days
  MinClosed,     \* min_closed_positions
  MinRoi,        \* min_mean_roi
  Cap,           \* concentration_cap
  NoScore,       \* no row in wallet_scores_pit
  Today,         \* bound of the clock
  MaxPositions   \* bound of the positions

ASSUME ScoreAssumption ==
  /\ Gains \subseteq Int /\ {Entry, Span, MinClosed, Cap, Today, MaxPositions} \subseteq Nat
  /\ MinRoi \in Int /\ NoScore \notin Nat

Dates == 0 .. Today

VARIABLES
  date,       \* the clock
  closed,     \* wallet_closed_positions, in the order they were booked
  sybil,      \* wallets.suspected_sybil
  score,      \* score[d]: the stored row of as_of d
  rewritten   \* history: dates whose past changed after they were scored

scoreVars == <<date, closed, sybil, score, rewritten>>

ScoresInit ==
  /\ date = 0 /\ closed = <<>> /\ sybil = FALSE
  /\ score = [d \in Dates |-> NoScore]
  /\ rewritten = {}

(* Mutant of InWindow: a position closed at as_of itself is counted.       *)
InWindowInclusive(p, asOf) == p.at <= asOf /\ p.at >= asOf - Span

InWindow(p, asOf) == p.at < asOf /\ p.at >= asOf - Span

Trusted(p) == p.source # "end_date_proxy"

Counted(asOf) == {i \in DOMAIN closed : InWindow(closed[i], asOf) /\ Trusted(closed[i])}

Abs(n) == IF n < 0 THEN -n ELSE n

(* What the query of one wallet returns: the gains of the counted rows.    *)
Closings(asOf) == [i \in Counted(asOf) |-> closed[i].gain]

(* _qualify: the reasons against the wallet, none when it qualifies; mean  *)
(* ROI, win rate and concentration are compared without their divisions.   *)
Reasons(gain, flagged) ==
  LET rows  == DOMAIN gain
      n     == Cardinality(rows)
      total == Sets!MapThenSumSet(LAMBDA i : gain[i], rows)
      wins  == Cardinality({i \in rows : gain[i] > 0})
      moved == Sets!MapThenSumSet(LAMBDA i : Abs(gain[i]), rows)
      most  == IF rows = {} THEN 0 ELSE Sets!Max({Abs(gain[i]) : i \in rows})
  IN  (IF flagged THEN {"sybil_flagged"} ELSE {})
      \cup (IF n < MinClosed THEN {"min_closed_positions"} ELSE {})
      \cup (IF total < MinRoi * n THEN {"min_mean_roi"} ELSE {})
      \cup (IF rows # {} /\ wins * 100 <= Entry * n THEN {"skill_vs_implied"} ELSE {})
      \cup (IF moved > 0 /\ most * 100 > Cap * moved THEN {"concentration_cap"} ELSE {})

Verdict(asOf) == [n |-> Cardinality(Counted(asOf)),
                  reasons |-> Reasons(Closings(asOf), sybil)]

(* The universe is every wallet with a position in the window: without one *)
(* the row of as_of is neither written nor removed.                        *)
Score(asOf) ==
  /\ Counted(asOf) # {}
  /\ score' = [score EXCEPT ![asOf] = Verdict(asOf)]
  /\ rewritten' = rewritten \ {asOf}
  /\ UNCHANGED <<date, closed, sybil>>

(* Stored dates that a change to what happened at a date is before.        *)
Behind(at) == {d \in Dates : score[d] # NoScore /\ at < d /\ d <= at + Span}

Book(at, gain, source) ==
  /\ Len(closed) < MaxPositions
  /\ closed' = Append(closed, [at |-> at, gain |-> gain, source |-> source])
  /\ rewritten' = rewritten \cup Behind(at)
  /\ UNCHANGED <<date, sybil, score>>

Distrust(i) ==
  /\ Trusted(closed[i])
  /\ closed' = [closed EXCEPT ![i].source = "end_date_proxy"]
  /\ rewritten' = rewritten \cup Behind(closed[i].at)
  /\ UNCHANGED <<date, sybil, score>>

(* The flag has no history: it tells of every date at once.                *)
FlagSybil ==
  /\ sybil' = ~sybil
  /\ rewritten' = {d \in Dates : score[d] # NoScore}
  /\ UNCHANGED <<date, closed, score>>

NextDate ==
  /\ date < Today /\ date' = date + 1
  /\ UNCHANGED <<closed, sybil, score, rewritten>>

ScoresNext ==
  \/ \E asOf \in 0 .. date : Score(asOf)
  \/ \E at \in 0 .. date, gain \in Gains, source \in {"resolution", "end_date_proxy"} :
       Book(at, gain, source)
  \/ \E i \in DOMAIN closed : Distrust(i)
  \/ FlagSybil \/ NextDate

ScoresSpec == ScoresInit /\ [][ScoresNext]_scoreVars

-----------------------------------------------------------------------------
(* No look-ahead: a stored score is what scoring its date again would say, *)
(* whatever was closed at that date or after, until a position before it   *)
(* is booked late or distrusted, or the flag moves (engine.py:39-42,       *)
(* tests/scoring/test_no_lookahead.py).                                    *)
Reproducible ==
  \A d \in Dates : score[d] # NoScore /\ d \notin rewritten => score[d] = Verdict(d)
=============================================================================
