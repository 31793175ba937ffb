-------------------------- MODULE OutcomeStampProofs --------------------------
(***************************************************************************)
(* Proofs about OutcomeStamp.  The inductive invariant says what a result  *)
(* in the trades table means: it is the result against the resolution      *)
(* recorded in outcome_result_stamped_resolution, not against the one the  *)
(* market has now.  Trigger (B) compares those two, which is why a stale   *)
(* result can never hide from the job.                                     *)
(***************************************************************************)
EXTENDS OutcomeStamp, TLAPS

(* Every result of an eligible trade was computed from the recorded        *)
(* resolution and a known outcome.                                         *)
ResultsAreRecorded ==
  \A t \in Trades :
    Eligible(t) /\ trade[t].result # "null" =>
      trade[t].result = Result(trade[t].outcome, market.stamped)

(* Results, a job under way and a fetched answer all presuppose a          *)
(* published outcome.                                                      *)
Published ==
  /\ Resolved => gamma.outcome # None
  /\ \A t \in Trades : trade[t].result # "null" => Resolved
  /\ run.at # Idle => Resolved
  /\ run.at = "read" => run.resolution # None
  /\ \A w \in Writers : writer[w].at = "fetched" =>
                          writer[w].answer # None /\ gamma.outcome # None

StampInv == TypeOK /\ NeverFabricated /\ ResultsAreRecorded /\ Published

USE DEF Idle

LEMMA InitTypes == Init => TypeOK
<1> SUFFICES ASSUME Init PROVE TypeOK
  OBVIOUS
<1> USE StampAssumption DEF Init, NoRun, NoTrade, Outcome, Stamps, Writers
<1>1. gamma \in [outcome : Outcome, corrections : 0..MaxCorrections]
  OBVIOUS
<1>2. market \in [resolution : Outcome, stamped : Outcome]
  OBVIOUS
<1>3. trade \in [Trades -> [type : {"absent", "plain", "farming"},
                            outcome : Outcome, result : Stamps]]
  OBVIOUS
<1>4. writer \in [Writers -> [at : {Idle, "scanned", "fetched"},
                              answer : Outcome]]
  OBVIOUS
<1>5. run \in [at : {Idle, "queued", "read"}, resolution : Outcome]
  OBVIOUS
<1> QED
  BY <1>1, <1>2, <1>3, <1>4, <1>5 DEF TypeOK

LEMMA InitStamp == Init => StampInv
<1> SUFFICES ASSUME Init PROVE StampInv
  OBVIOUS
<1>1. TypeOK
  BY InitTypes
<1>2. \A t \in Trades : trade[t].result = "null"
  BY DEF Init, NoTrade
<1>3. NeverFabricated /\ ResultsAreRecorded
  BY <1>2 DEF NeverFabricated, ResultsAreRecorded
<1>4. Published
  BY <1>2 DEF Init, NoRun, Published, Resolved
<1> QED
  BY <1>1, <1>3, <1>4 DEF StampInv

(* Steps that leave the trades and the recorded resolution alone keep what *)
(* results mean.                                                           *)
LEMMA ResultsKept ==
  ASSUME NeverFabricated, ResultsAreRecorded,
         trade' = trade, market'.stamped = market.stamped
  PROVE  NeverFabricated' /\ ResultsAreRecorded'
BY DEF NeverFabricated, ResultsAreRecorded, Eligible, Result

-----------------------------------------------------------------------------
(* The outside and the arrival of trades.                                  *)

LEMMA OutsideStep == ASSUME StampInv, Outside PROVE StampInv'
<1> USE StampAssumption DEF StampInv
<1>1. CASE \E l \in Labels : GammaResolves(l) \/ GammaCorrects(l)
  <2> PICK l \in Labels : GammaResolves(l) \/ GammaCorrects(l)
    BY <1>1
  <2>1. /\ gamma' \in [outcome : Outcome, corrections : 0..MaxCorrections]
        /\ gamma'.outcome = l
    <3>1. CASE GammaResolves(l)
      BY <3>1 DEF GammaResolves, TypeOK, Outcome
    <3>2. CASE GammaCorrects(l)
      BY <3>2 DEF GammaCorrects, TypeOK, Outcome
    <3> QED
      BY <3>1, <3>2
  <2>2. UNCHANGED <<market, token, trade, writer, run>>
    BY DEF GammaResolves, GammaCorrects
  <2>3. TypeOK'
    BY <2>1, <2>2 DEF TypeOK
  <2>4. NeverFabricated' /\ ResultsAreRecorded'
    BY <2>2, ResultsKept
  <2>5. Published'
    BY <2>1, <2>2 DEF Published, Resolved
  <2> QED
    BY <2>3, <2>4, <2>5
<1>2. CASE OperatorCorrects
  <2>1. /\ market' \in [resolution : Outcome, stamped : Outcome]
        /\ market'.stamped = market.stamped
        /\ market'.resolution = gamma.outcome
    BY <1>2 DEF OperatorCorrects, TypeOK
  <2>2. UNCHANGED <<gamma, token, trade, writer, run>>
    BY <1>2 DEF OperatorCorrects
  <2>3. TypeOK'
    BY <2>1, <2>2 DEF TypeOK
  <2>4. NeverFabricated' /\ ResultsAreRecorded'
    BY <2>1, <2>2, ResultsKept
  <2>5. Published'
    BY <1>2, <2>1, <2>2 DEF Published, Resolved, OperatorCorrects
  <2> QED
    BY <2>3, <2>4, <2>5
<1>3. CASE \E a \in Assets, l \in Labels : UpsertToken(a, l)
  <2> PICK a \in Assets, l \in Labels : UpsertToken(a, l)
    BY <1>3
  <2>1. /\ token' \in [Assets -> Outcome]
        /\ UNCHANGED <<gamma, market, trade, writer, run>>
    BY DEF UpsertToken, TypeOK, Outcome
  <2>2. TypeOK'
    BY <2>1 DEF TypeOK
  <2>3. NeverFabricated' /\ ResultsAreRecorded'
    BY <2>1, ResultsKept
  <2>4. Published'
    BY <2>1 DEF Published, Resolved
  <2> QED
    BY <2>2, <2>3, <2>4
<1> QED
  BY <1>1, <1>2, <1>3 DEF Outside

(* A step that gives the trades t one row with the same or no result.      *)
LEMMA OneRow ==
  ASSUME StampInv, NEW t \in Trades, NEW row, trade' = [trade EXCEPT ![t] = row],
         row \in [type : {"absent", "plain", "farming"},
                  outcome : Outcome, result : Stamps],
         \/ row.result = "null"
         \/ /\ row.type = "farming" /\ row.result = trade[t].result
            /\ row.outcome = trade[t].outcome,
         UNCHANGED <<gamma, market, writer, run>>
  PROVE  /\ trade' \in [Trades -> [type : {"absent", "plain", "farming"},
                                   outcome : Outcome, result : Stamps]]
         /\ NeverFabricated' /\ ResultsAreRecorded' /\ Published'
<1>1. /\ trade' \in [Trades -> [type : {"absent", "plain", "farming"},
                                outcome : Outcome, result : Stamps]]
      /\ trade'[t] = row
      /\ \A u \in Trades \ {t} : trade'[u] = trade[u]
  BY DEF StampInv, TypeOK
<1>2. NeverFabricated'
  BY <1>1 DEF StampInv, NeverFabricated
<1>3. ResultsAreRecorded'
  BY <1>1 DEF StampInv, ResultsAreRecorded, Eligible, Result
<1>4. Published'
  BY <1>1 DEF StampInv, Published, Resolved
<1> QED
  BY <1>1, <1>2, <1>3, <1>4

LEMMA ArrivalStep == ASSUME StampInv, Arrival PROVE StampInv'
<1> USE StampAssumption
<1> PICK t \in Trades : \/ \E o \in Outcome : Ingest(t, o)
                        \/ TagFarming(t)
  BY DEF Arrival
<1>1. CASE \E o \in Outcome : Ingest(t, o)
  <2> PICK o \in Outcome : Ingest(t, o)
    BY <1>1
  <2> DEFINE row == [type |-> "plain", outcome |-> o, result |-> "null"]
  <2>2. /\ trade' = [trade EXCEPT ![t] = row]
        /\ UNCHANGED <<gamma, market, token, writer, run>>
    BY DEF Ingest
  <2>3. /\ row \in [type : {"absent", "plain", "farming"},
                     outcome : Outcome, result : Stamps]
        /\ row.result = "null"
    BY DEF Stamps
  <2> HIDE DEF row
  <2>4. /\ trade' \in [Trades -> [type : {"absent", "plain", "farming"},
                                  outcome : Outcome, result : Stamps]]
        /\ NeverFabricated' /\ ResultsAreRecorded' /\ Published'
    BY <2>2, <2>3, OneRow
  <2> QED
    BY <2>2, <2>4 DEF StampInv, TypeOK
<1>2. CASE TagFarming(t)
  <2> DEFINE row == [type |-> "farming", outcome |-> trade[t].outcome,
                     result |-> trade[t].result]
  <2>1. /\ trade' = [trade EXCEPT ![t] = row]
        /\ UNCHANGED <<gamma, market, token, writer, run>>
    BY <1>2 DEF TagFarming
  <2>2. /\ row \in [type : {"absent", "plain", "farming"},
                     outcome : Outcome, result : Stamps]
        /\ row.type = "farming" /\ row.result = trade[t].result
        /\ row.outcome = trade[t].outcome
    BY DEF StampInv, TypeOK
  <2> HIDE DEF row
  <2>3. /\ trade' \in [Trades -> [type : {"absent", "plain", "farming"},
                                  outcome : Outcome, result : Stamps]]
        /\ NeverFabricated' /\ ResultsAreRecorded' /\ Published'
    BY <2>1, <2>2, OneRow
  <2> QED
    BY <2>1, <2>3 DEF StampInv, TypeOK
<1> QED
  BY <1>1, <1>2

-----------------------------------------------------------------------------
(* The writers of markets.resolution.                                      *)

LEMMA AnswerTypes ==
  ASSUME TypeOK, NEW w \in Writers, NEW a \in {Idle, "scanned", "fetched"},
         NEW o \in Outcome,
         writer' = [writer EXCEPT ![w] = [at |-> a, answer |-> o]]
  PROVE  /\ writer' \in [Writers -> [at : {Idle, "scanned", "fetched"},
                                     answer : Outcome]]
         /\ writer'[w].at = a /\ writer'[w].answer = o
         /\ \A v \in Writers \ {w} : writer'[v] = writer[v]
BY DEF TypeOK

LEMMA ApplyStep ==
  ASSUME StampInv, NEW w \in Writers, Apply(w)
  PROVE  /\ market' \in [resolution : Outcome, stamped : Outcome]
         /\ writer' \in [Writers -> [at : {Idle, "scanned", "fetched"},
                                     answer : Outcome]]
         /\ NeverFabricated' /\ ResultsAreRecorded' /\ Published'
<1> USE StampAssumption
<1>1. /\ writer[w].answer \in Outcome
      /\ writer[w].answer # None /\ gamma.outcome # None
  BY DEF StampInv, TypeOK, Apply, Published
<1>2. /\ market' \in [resolution : Outcome, stamped : Outcome]
      /\ market'.stamped = market.stamped
      /\ market'.resolution = writer[w].answer
  BY <1>1 DEF StampInv, TypeOK, Apply
<1>3. UNCHANGED <<gamma, token, trade, run>>
  BY DEF Apply
<1>4. /\ writer' \in [Writers -> [at : {Idle, "scanned", "fetched"},
                                  answer : Outcome]]
      /\ writer'[w].at = Idle
      /\ \A v \in Writers \ {w} : writer'[v] = writer[v]
  BY AnswerTypes DEF StampInv, Apply, Outcome
<1>5. NeverFabricated' /\ ResultsAreRecorded'
  BY <1>2, <1>3, ResultsKept DEF StampInv
<1>6. Published'
  BY <1>1, <1>2, <1>3, <1>4 DEF StampInv, Published, Resolved
<1> QED
  BY <1>2, <1>4, <1>5, <1>6

LEMMA OtherWritersStep == ASSUME StampInv, OtherWriters PROVE StampInv'
<1> USE StampAssumption
<1>1. CASE Sync
  <2>1. /\ market' \in [resolution : Outcome, stamped : Outcome]
        /\ market'.stamped = market.stamped
        /\ market'.resolution = gamma.outcome /\ gamma.outcome # None
        /\ UNCHANGED <<gamma, token, trade, writer, run>>
    BY <1>1 DEF Sync, StampInv, TypeOK
  <2>2. TypeOK'
    BY <2>1 DEF StampInv, TypeOK
  <2>3. NeverFabricated' /\ ResultsAreRecorded'
    BY <2>1, ResultsKept DEF StampInv
  <2>4. Published'
    BY <2>1 DEF StampInv, Published, Resolved
  <2> QED
    BY <2>2, <2>3, <2>4 DEF StampInv
<1>2. CASE \E w \in Writers : Scan(w) \/ Fetch(w)
  <2> PICK w \in Writers : Scan(w) \/ Fetch(w)
    BY <1>2
  <2>1. UNCHANGED <<gamma, market, token, trade, run>>
    BY DEF Scan, Fetch
  <2>2. /\ writer' \in [Writers -> [at : {Idle, "scanned", "fetched"},
                                    answer : Outcome]]
        /\ writer'[w].at = "fetched" =>
             writer'[w].answer = gamma.outcome /\ gamma.outcome # None
        /\ \A v \in Writers \ {w} : writer'[v] = writer[v]
    <3>1. CASE Scan(w)
      BY <3>1, AnswerTypes DEF Scan, StampInv, Outcome
    <3>2. CASE Fetch(w)
      <4> DEFINE a == IF gamma.outcome = None THEN Idle ELSE "fetched"
      <4>1. a \in {Idle, "scanned", "fetched"} /\ gamma.outcome \in Outcome
        BY DEF StampInv, TypeOK
      <4>2. writer' = [writer EXCEPT ![w] = [at |-> a, answer |-> gamma.outcome]]
        BY <3>2 DEF Fetch
      <4>3. a = "fetched" => gamma.outcome # None
        OBVIOUS
      <4> HIDE DEF a
      <4> QED
        BY <4>1, <4>2, <4>3, AnswerTypes DEF StampInv
    <3> QED
      BY <3>1, <3>2
  <2>3. TypeOK'
    BY <2>1, <2>2 DEF StampInv, TypeOK
  <2>4. NeverFabricated' /\ ResultsAreRecorded'
    BY <2>1, ResultsKept DEF StampInv
  <2>5. Published'
    BY <2>1, <2>2 DEF StampInv, Published, Resolved
  <2> QED
    BY <2>3, <2>4, <2>5 DEF StampInv
<1>3. CASE \E w \in Writers : Apply(w)
  <2> PICK w \in Writers : Apply(w)
    BY <1>3
  <2>1. /\ market' \in [resolution : Outcome, stamped : Outcome]
        /\ writer' \in [Writers -> [at : {Idle, "scanned", "fetched"},
                                    answer : Outcome]]
        /\ NeverFabricated' /\ ResultsAreRecorded' /\ Published'
    BY ApplyStep
  <2>2. UNCHANGED <<gamma, token, trade, run>>
    BY DEF Apply
  <2> QED
    BY <2>1, <2>2 DEF StampInv, TypeOK
<1> QED
  BY <1>1, <1>2, <1>3 DEF OtherWriters

-----------------------------------------------------------------------------
(* The resolution job.                                                     *)

(* What the restamp makes of one row.                                      *)
LEMMA RestampedRow ==
  ASSUME StampInv, NEW t \in Trades, NEW l \in Labels
  PROVE  LET row == Restamped(t, l)
         IN /\ row \in [type : {"absent", "plain", "farming"},
                        outcome : Outcome, result : Stamps]
            /\ row.type = trade[t].type
            /\ row.result # "null" => row.outcome # None
            /\ Eligible(t) /\ row.result # "null" =>
                 row.result = Result(row.outcome, l)
<1>1. /\ trade[t] \in [type : {"absent", "plain", "farming"},
                       outcome : Outcome, result : Stamps]
      /\ token[AssetOf[t]] \in Outcome
  BY StampAssumption DEF StampInv, TypeOK
<1>2. Backfilled(t) \in Outcome
  BY <1>1 DEF Backfilled
<1>3. trade[t].result # "null" => Backfilled(t) # None
  BY DEF StampInv, NeverFabricated, Backfilled
<1>4. Result(Backfilled(t), l) \in Stamps
  BY DEF Result, Stamps
<1> QED
  BY <1>1, <1>2, <1>3, <1>4 DEF Restamped, Stamps

LEMMA JobStep ==
  ASSUME StampInv, JobScan \/ JobRead \/ JobCommit \/ JobFails
  PROVE  StampInv'
<1> USE StampAssumption
<1>1. CASE JobScan \/ JobRead \/ JobFails
  <2>1. UNCHANGED <<gamma, market, token, trade, writer>>
    BY <1>1 DEF JobScan, JobRead, JobFails
  <2>2. /\ run' \in [at : {Idle, "queued", "read"}, resolution : Outcome]
        /\ run'.at # Idle => Resolved
        /\ run'.at = "read" => run'.resolution # None
    <3>1. CASE JobScan
      BY <3>1 DEF JobScan, NoRun, NeedsRestamp, Outcome
    <3>2. CASE JobRead
      <4>1. Resolved
        BY <3>2 DEF JobRead, StampInv, Published
      <4> QED
        BY <3>2, <4>1 DEF JobRead, StampInv, TypeOK, Resolved
    <3>3. CASE JobFails
      BY <3>3 DEF JobFails, NoRun, Outcome
    <3> QED
      BY <1>1, <3>1, <3>2, <3>3
  <2>3. TypeOK'
    BY <2>1, <2>2 DEF StampInv, TypeOK
  <2>4. NeverFabricated' /\ ResultsAreRecorded'
    BY <2>1, ResultsKept DEF StampInv
  <2>5. Published'
    BY <2>1, <2>2 DEF StampInv, Published, Resolved
  <2> QED
    BY <2>3, <2>4, <2>5 DEF StampInv
<1>2. CASE JobCommit
  <2> DEFINE l == run.resolution
  <2>1. l \in Labels /\ Resolved
    BY <1>2 DEF JobCommit, StampInv, TypeOK, Published, Outcome
  <2>2. \A t \in Trades :
          /\ trade'[t] = IF Present(t) THEN Restamped(t, l) ELSE trade[t]
          /\ trade'[t] \in [type : {"absent", "plain", "farming"},
                            outcome : Outcome, result : Stamps]
          /\ trade'[t].type = trade[t].type
          /\ trade'[t].result # "null" => trade'[t].outcome # None
          /\ Eligible(t) /\ trade'[t].result # "null" =>
               trade'[t].result = Result(trade'[t].outcome, l)
    <3> TAKE t \in Trades
    <3>1. trade'[t] = IF Present(t) THEN Restamped(t, l) ELSE trade[t]
      BY <1>2 DEF JobCommit
    <3>2. CASE Present(t)
      BY <2>1, <3>1, <3>2, RestampedRow
    <3>3. CASE ~Present(t)
      BY <3>1, <3>3 DEF Present, Eligible, StampInv, TypeOK, NeverFabricated
    <3> QED
      BY <3>1, <3>2, <3>3
  <2>3. trade' \in [Trades -> [type : {"absent", "plain", "farming"},
                              outcome : Outcome, result : Stamps]]
    <3>1. trade' = [t \in Trades |-> trade'[t]]
      BY <1>2 DEF JobCommit
    <3> QED
      BY <2>2, <3>1
  <2>4. /\ market' \in [resolution : Outcome, stamped : Outcome]
        /\ market'.stamped = l /\ market'.resolution = market.resolution
    BY <1>2, <2>1 DEF JobCommit, StampInv, TypeOK, Outcome
  <2>5. /\ run' \in [at : {Idle, "queued", "read"}, resolution : Outcome]
        /\ run'.at = Idle
        /\ UNCHANGED <<gamma, token, writer>>
    BY <1>2 DEF JobCommit, NoRun, Outcome
  <2>6. TypeOK'
    BY <2>3, <2>4, <2>5 DEF StampInv, TypeOK
  <2>7. NeverFabricated'
    BY <2>2 DEF NeverFabricated
  <2>8. ResultsAreRecorded'
    BY <2>2, <2>4 DEF ResultsAreRecorded, Eligible, Result
  <2>9. Published'
    BY <2>1, <2>4, <2>5 DEF StampInv, Published, Resolved
  <2> QED
    BY <2>6, <2>7, <2>8, <2>9 DEF StampInv
<1> QED
  BY <1>1, <1>2

-----------------------------------------------------------------------------
LEMMA StampStep == StampInv /\ [Next]_vars => StampInv'
<1> SUFFICES ASSUME StampInv, [Next]_vars PROVE StampInv'
  OBVIOUS
<1>1. CASE Next
  BY <1>1, OutsideStep, ArrivalStep, OtherWritersStep, JobStep DEF Next
<1>2. CASE UNCHANGED vars
  <2>1. TypeOK'
    BY <1>2 DEF vars, StampInv, TypeOK
  <2>2. NeverFabricated' /\ ResultsAreRecorded'
    BY <1>2, ResultsKept DEF vars, StampInv
  <2>3. Published'
    BY <1>2 DEF vars, StampInv, Published, Resolved
  <2> QED
    BY <2>1, <2>2, <2>3 DEF StampInv
<1> QED
  BY <1>1, <1>2

LEMMA StampInvariant == Spec => []StampInv
BY InitStamp, StampStep, PTL DEF Spec

(* Trades, the market, its writers and the run keep their types for any    *)
(* number of trades, tokens, labels and corrections.                       *)
THEOREM StampTypes == Spec => []TypeOK
<1>1. StampInv => TypeOK
  BY DEF StampInv
<1> QED
  BY <1>1, StampInvariant, PTL

(* No result is ever stamped off a blank outcome, for any number of        *)
(* trades, tokens, labels and corrections (_restamp_trade_outcome_results).*)
THEOREM NothingFabricated == Spec => []NeverFabricated
<1>1. StampInv => NeverFabricated
  BY DEF StampInv
<1> QED
  BY <1>1, StampInvariant, PTL

(* A stamped result that disagrees with markets.resolution always keeps    *)
(* the market a candidate (_find_markets_needing_restamp), whatever the    *)
(* two other writers, the operator and a run under way do.                 *)
THEOREM NeverFrozen == Spec => []NoFrozenInversion
<1>1. StampInv => NoFrozenInversion
  <2> SUFFICES ASSUME StampInv, NEW t \in Trades, Eligible(t), Disagrees(t)
               PROVE  NeedsRestamp
    BY DEF NoFrozenInversion
  <2>1. trade[t].result = Result(trade[t].outcome, market.stamped)
    BY DEF StampInv, ResultsAreRecorded, Disagrees
  <2>2. market.stamped # market.resolution
    BY <2>1 DEF Disagrees
  <2>3. Resolved
    BY DEF StampInv, Published, Disagrees
  <2> QED
    BY <2>2, <2>3 DEF NeedsRestamp
<1> QED
  BY <1>1, StampInvariant, PTL
=============================================================================
