------------------------- MODULE TradeRetentionProofs -------------------------
(***************************************************************************)
(* What TLAPS proves of TradeRetention: its types, that no trade is in     *)
(* both tables or twice in the archive, and that none is lost.             *)
(***************************************************************************)
EXTENDS TradeRetention, TLAPS

(* Only old trades are archived, and only trades that happened are stored. *)
ArchivedOld == /\ \A t \in Trades : archive[t] > 0 =>
                    t \in happened /\ age[t] > Retention
               /\ live \subseteq happened
               /\ \A t \in Trades : t \notin happened => age[t] = 0

(* What the purge has read stays true while it works on it.                *)
PurgeInv == /\ \A t \in purge.old : t \in happened /\ age[t] > Retention
            /\ purge.at \in {"copy", "delete"} =>
                 purge.ids \subseteq live \cap purge.old
            /\ purge.at = "delete" =>
                 purge.fresh = {t \in purge.ids : archive[t] = 0}

(* What the poll works on is no older than its lookback and its own time.  *)
PollInv == /\ poll.at = "fetch" => \A t \in happened \ poll.old :
                                     age[t] <= Lookback + poll.elapsed
           /\ \A t \in poll.list : /\ t \in happened
                                   /\ age[t] <= Lookback + poll.elapsed
           /\ poll.at = "idle" => poll.list = {}

RetentionInv == TypeOK /\ StoredOnce /\ ArchivedOld /\ PurgeInv /\ PollInv

(* The rows of the archive after a pass.                                   *)
LEMMA CopiedType ==
  ASSUME TypeOK
  PROVE  /\ Copied \in [Trades -> Nat]
         /\ \A t \in Trades : Copied[t] = IF t \in purge.fresh
                                          THEN archive[t] + 1 ELSE archive[t]
BY DEF TypeOK, Copied

(* A tick makes a trade one older at most.                                 *)
LEMMA OlderType ==
  ASSUME NEW a \in Ages
  PROVE  Older(a) \in Ages /\ Older(a) >= a /\ Older(a) <= a + 1
BY ConstantsAssumption DEF Older, Ages

LEMMA AfterPassType ==
  ASSUME TypeOK, NEW pass \in Passes
  PROVE  /\ AfterPass(pass) \in [at : {"idle", "select", "copy", "delete"},
              pass : Passes, old : SUBSET Trades, ids : SUBSET Trades,
              fresh : SUBSET Trades]
         /\ AfterPass(pass).fresh \subseteq AfterPass(pass).ids
         /\ AfterPass(pass).at \in {"idle", "select"}
         /\ AfterPass(pass).old \subseteq purge.old
BY DEF TypeOK, AfterPass, Idle, Passes

-----------------------------------------------------------------------------
LEMMA InitRetention == Init => RetentionInv
<1> SUFFICES ASSUME Init PROVE RetentionInv
  OBVIOUS
<1> USE ConstantsAssumption
<1>1. TypeOK
  <2>1. purge \in [at : {"idle", "select", "copy", "delete"}, pass : Passes,
                   old : SUBSET Trades, ids : SUBSET Trades,
                   fresh : SUBSET Trades]
    BY DEF Init, Idle, Passes
  <2>2. poll \in [at : {"idle", "fetch", "load", "insert"},
                  old : SUBSET Trades, list : SUBSET Trades,
                  captured : SUBSET Trades, elapsed : 0..PollTime]
    BY DEF Init, NoPoll
  <2>3. age \in [Trades -> Ages] /\ archive \in [Trades -> Nat]
    BY DEF Init, Ages
  <2> QED
    BY <2>1, <2>2, <2>3 DEF Init, TypeOK, Idle
<1>2. StoredOnce /\ ArchivedOld
  BY DEF Init, StoredOnce, ArchivedOld
<1>3. PurgeInv /\ PollInv
  BY DEF Init, PurgeInv, PollInv, Idle, NoPoll
<1> QED
  BY <1>1, <1>2, <1>3 DEF RetentionInv

-----------------------------------------------------------------------------
(* The purge.                                                              *)

LEMMA PurgeStartKeeps ==
  ASSUME RetentionInv, PurgeStart
  PROVE  RetentionInv'
<1>1. \A t \in {u \in Trades : Due(u)} : t \in happened /\ age[t] > Retention
  BY DEF Due
<1>2. purge' = [at |-> "select", pass |-> "anonymous",
                old |-> {t \in Trades : Due(t)}, ids |-> {}, fresh |-> {}]
  BY DEF PurgeStart
<1>3. TypeOK'
  BY <1>2 DEF RetentionInv, TypeOK, PurgeStart, Passes
<1>4. PurgeInv'
  BY <1>1, <1>2 DEF PurgeInv, PurgeStart
<1> QED
  BY <1>3, <1>4 DEF RetentionInv, StoredOnce, ArchivedOld, PollInv, PurgeStart

LEMMA PurgeFailsKeeps ==
  ASSUME RetentionInv, PurgeFails
  PROVE  RetentionInv'
<1>1. TypeOK'
  BY DEF RetentionInv, TypeOK, PurgeFails, Idle, Passes
<1>2. PurgeInv'
  BY DEF PurgeInv, PurgeFails, Idle
<1> QED
  BY <1>1, <1>2 DEF RetentionInv, StoredOnce, ArchivedOld, PollInv, PurgeFails

LEMMA PurgeSelectKeeps ==
  ASSUME RetentionInv, NEW pass \in Passes, PurgeSelect(pass)
  PROVE  RetentionInv'
<1>1. Eligible(pass) \subseteq live \cap purge.old
  BY DEF Eligible
<1>2. CASE Eligible(pass) = {}
  <2>1. purge' = AfterPass(pass)
    BY <1>2 DEF PurgeSelect
  <2>2. TypeOK' /\ PurgeInv'
    BY <2>1, AfterPassType DEF RetentionInv, TypeOK, PurgeInv, PurgeSelect
  <2> QED
    BY <2>2 DEF RetentionInv, StoredOnce, ArchivedOld, PollInv, PurgeSelect
<1>3. CASE Eligible(pass) # {}
  <2>1. purge' = [at |-> "copy", pass |-> pass, old |-> purge.old,
                  ids |-> Eligible(pass), fresh |-> {}]
    BY <1>3 DEF PurgeSelect
  <2>2. TypeOK'
    BY <1>1, <2>1 DEF RetentionInv, TypeOK, PurgeSelect
  <2>3. PurgeInv'
    BY <1>1, <2>1 DEF RetentionInv, PurgeInv, PurgeSelect
  <2> QED
    BY <2>2, <2>3 DEF RetentionInv, StoredOnce, ArchivedOld, PollInv, PurgeSelect
<1> QED
  BY <1>2, <1>3

LEMMA PurgeCopyKeeps ==
  ASSUME RetentionInv, NEW pass \in Passes, PurgeCopy(pass)
  PROVE  RetentionInv'
<1>1. purge' = [at |-> "delete", pass |-> pass, old |-> purge.old,
                ids |-> purge.ids, fresh |-> Fresh(purge.ids)]
  BY DEF PurgeCopy
<1>2. TypeOK'
  BY <1>1 DEF RetentionInv, TypeOK, PurgeCopy, Fresh
<1>3. PurgeInv'
  BY <1>1 DEF RetentionInv, PurgeInv, PurgeCopy, Fresh
<1> QED
  BY <1>2, <1>3 DEF RetentionInv, StoredOnce, ArchivedOld, PollInv, PurgeCopy

LEMMA PurgeCommitKeeps ==
  ASSUME RetentionInv, NEW pass \in Passes, PurgeCommit(pass)
  PROVE  RetentionInv'
<1>1. /\ live' = live \ purge.ids /\ archive' = Copied
      /\ purge' = AfterPass(pass)
      /\ UNCHANGED <<happened, age, settled, scored, poll>>
  BY DEF PurgeCommit
<1>2. /\ purge.ids \subseteq live \cap purge.old
      /\ purge.fresh = {t \in purge.ids : archive[t] = 0}
  BY DEF RetentionInv, PurgeInv, PurgeCommit
<1>3. TypeOK
  BY DEF RetentionInv
<1>4. TypeOK'
  BY <1>1, <1>3, CopiedType, AfterPassType DEF TypeOK
<1>5. StoredOnce'
  <2> SUFFICES ASSUME NEW t \in Trades
               PROVE  /\ archive'[t] <= 1
                      /\ (t \in live' /\ archive'[t] > 0) => t \in Seeded
    BY DEF StoredOnce
  <2>1. archive[t] \in Nat /\ archive[t] <= 1
    BY <1>3 DEF RetentionInv, StoredOnce, TypeOK
  <2>2. CASE t \in purge.fresh
    BY <1>1, <1>2, <1>3, <2>1, <2>2, CopiedType
  <2>3. CASE t \notin purge.fresh
    <3>1. archive'[t] = archive[t]
      BY <1>1, <1>3, <2>3, CopiedType
    <3> QED
      BY <1>1, <2>1, <3>1 DEF RetentionInv, StoredOnce
  <2> QED
    BY <2>2, <2>3
<1>6. ArchivedOld'
  <2>1. ASSUME NEW t \in Trades, archive'[t] > 0
        PROVE  t \in happened /\ age[t] > Retention
    <3>1. CASE t \in purge.fresh
      BY <1>2, <3>1 DEF RetentionInv, PurgeInv
    <3>2. CASE t \notin purge.fresh
      <4>1. archive'[t] = archive[t]
        BY <1>1, <1>3, <3>2, CopiedType
      <4> QED
        BY <2>1, <4>1 DEF RetentionInv, ArchivedOld
    <3> QED
      BY <3>1, <3>2
  <2> QED
    BY <1>1, <2>1 DEF RetentionInv, ArchivedOld
<1>7. PurgeInv'
  BY <1>1, <1>3, AfterPassType DEF RetentionInv, PurgeInv
<1>8. PollInv'
  BY <1>1 DEF RetentionInv, PollInv
<1> QED
  BY <1>4, <1>5, <1>6, <1>7, <1>8 DEF RetentionInv

-----------------------------------------------------------------------------
(* The poll.                                                               *)

LEMMA PollStartKeeps ==
  ASSUME RetentionInv, PollStart
  PROVE  RetentionInv'
<1> USE ConstantsAssumption
<1>1. poll' = [at |-> "fetch", old |-> {t \in happened : age[t] > Lookback},
               list |-> {}, captured |-> {}, elapsed |-> 0]
  BY DEF PollStart
<1>2. TypeOK'
  BY <1>1 DEF RetentionInv, TypeOK, PollStart
<1>3. PollInv'
  <2>1. ASSUME NEW t \in happened, ~(age[t] > Lookback)
        PROVE  age[t] <= Lookback + 0
    BY <2>1 DEF RetentionInv, TypeOK, Ages
  <2> QED
    BY <1>1, <2>1 DEF PollInv, PollStart
<1> QED
  BY <1>2, <1>3 DEF RetentionInv, StoredOnce, ArchivedOld, PurgeInv, PollStart

LEMMA PollFetchKeeps ==
  ASSUME RetentionInv, PollFetch
  PROVE  RetentionInv'
<1>1. poll' = [at |-> "load", old |-> poll.old,
               list |-> happened \ (poll.old \cup Anonymous),
               captured |-> {}, elapsed |-> poll.elapsed]
  BY DEF PollFetch
<1>2. TypeOK'
  BY <1>1 DEF RetentionInv, TypeOK, PollFetch
<1>3. PollInv'
  BY <1>1 DEF RetentionInv, PollInv, PollFetch
<1> QED
  BY <1>2, <1>3 DEF RetentionInv, StoredOnce, ArchivedOld, PurgeInv, PollFetch

LEMMA PollLoadKeeps ==
  ASSUME RetentionInv, PollLoad
  PROVE  RetentionInv'
<1>1. poll' = [at |-> "insert", old |-> poll.old, list |-> poll.list,
               captured |-> live, elapsed |-> poll.elapsed]
  BY DEF PollLoad
<1>2. TypeOK'
  BY <1>1 DEF RetentionInv, TypeOK, PollLoad
<1>3. PollInv'
  BY <1>1 DEF RetentionInv, PollInv, PollLoad
<1> QED
  BY <1>2, <1>3 DEF RetentionInv, StoredOnce, ArchivedOld, PurgeInv, PollLoad

(* A trade the poll stores is too young to be in the archive.              *)
LEMMA PollInsertKeeps ==
  ASSUME RetentionInv, NEW t \in Trades, PollInsert(t)
  PROVE  RetentionInv'
<1> USE ConstantsAssumption, WindowAssumption
<1>1. archive[t] = 0 /\ t \in happened
  <2>1. t \in happened /\ age[t] <= Lookback + poll.elapsed
    BY DEF RetentionInv, PollInv, PollInsert
  <2>2. poll.elapsed \in Nat /\ poll.elapsed <= PollTime
    BY DEF RetentionInv, TypeOK
  <2>3. age[t] \in Nat /\ archive[t] \in Nat
    BY DEF RetentionInv, TypeOK, Ages
  <2>4. ~(age[t] > Retention)
    BY <2>1, <2>2, <2>3
  <2> QED
    BY <2>1, <2>3, <2>4 DEF RetentionInv, ArchivedOld
<1>2. /\ poll' = [poll EXCEPT !.list = poll.list \ {t}]
      /\ live' \subseteq live \cup {t} /\ live \subseteq live'
      /\ UNCHANGED <<happened, age, archive, settled, scored, purge>>
  BY DEF PollInsert
<1>3. TypeOK'
  BY <1>2 DEF RetentionInv, TypeOK
<1>4. StoredOnce'
  BY <1>1, <1>2 DEF RetentionInv, StoredOnce
<1>5. ArchivedOld'
  BY <1>1, <1>2 DEF RetentionInv, ArchivedOld
<1>6. PurgeInv'
  BY <1>2 DEF RetentionInv, PurgeInv
<1>7. PollInv'
  BY <1>2 DEF RetentionInv, TypeOK, PollInv
<1> QED
  BY <1>3, <1>4, <1>5, <1>6, <1>7 DEF RetentionInv

LEMMA PollEndsKeeps ==
  ASSUME RetentionInv, PollEnds
  PROVE  RetentionInv'
<1>1. TypeOK'
  BY ConstantsAssumption DEF RetentionInv, TypeOK, PollEnds, NoPoll
<1>2. PollInv'
  BY DEF PollInv, PollEnds, NoPoll
<1> QED
  BY <1>1, <1>2 DEF RetentionInv, StoredOnce, ArchivedOld, PurgeInv, PollEnds

-----------------------------------------------------------------------------
(* The surroundings.                                                       *)

LEMMA HappensKeeps ==
  ASSUME RetentionInv, NEW t \in Trades, NEW captured \in BOOLEAN,
         Happens(t, captured)
  PROVE  RetentionInv'
<1> USE ConstantsAssumption
<1>1. /\ t \notin happened /\ happened' = happened \cup {t}
      /\ live' \subseteq live \cup {t} /\ live \subseteq live'
      /\ UNCHANGED <<age, archive, settled, scored, purge, poll>>
  BY DEF Happens
<1>2. archive[t] = 0 /\ age[t] = 0
  BY <1>1 DEF RetentionInv, ArchivedOld, TypeOK
<1>3. TypeOK'
  BY <1>1 DEF RetentionInv, TypeOK
<1>4. StoredOnce' /\ ArchivedOld'
  BY <1>1, <1>2 DEF RetentionInv, StoredOnce, ArchivedOld
<1>5. PurgeInv'
  BY <1>1 DEF RetentionInv, PurgeInv
<1>6. PollInv'
  <2>1. poll.elapsed \in Nat
    BY DEF RetentionInv, TypeOK
  <2>2. age[t] <= Lookback + poll.elapsed
    BY <1>2, <2>1
  <2> QED
    BY <1>1, <2>2 DEF RetentionInv, PollInv
<1> QED
  BY <1>3, <1>4, <1>5, <1>6 DEF RetentionInv

LEMMA ResolvesKeeps ==
  ASSUME RetentionInv, NEW t \in Trades, Resolves(t)
  PROVE  RetentionInv'
BY DEF RetentionInv, TypeOK, StoredOnce, ArchivedOld, PurgeInv, PollInv, Resolves

LEMMA ScoresKeeps ==
  ASSUME RetentionInv, Scores
  PROVE  RetentionInv'
BY DEF RetentionInv, TypeOK, StoredOnce, ArchivedOld, PurgeInv, PollInv, Scores

LEMMA TickKeeps ==
  ASSUME RetentionInv, Tick
  PROVE  RetentionInv'
<1> USE ConstantsAssumption
<1>1. UNCHANGED <<happened, live, archive, settled, scored, purge>>
  BY DEF Tick
<1>2. /\ age' \in [Trades -> Ages]
      /\ \A t \in Trades : age'[t] >= age[t] /\ age'[t] <= age[t] + 1
      /\ \A t \in Trades \ happened : age'[t] = age[t]
  <2>1. \A t \in Trades : age[t] \in Ages /\ age[t] >= age[t] /\ age[t] <= age[t] + 1
    BY DEF RetentionInv, TypeOK, Ages
  <2>2. age' = [t \in Trades |-> IF t \in happened THEN Older(age[t]) ELSE age[t]]
    BY DEF Tick
  <2> QED
    BY <2>1, <2>2, OlderType
<1>3. \A t \in Trades : age[t] \in Nat /\ age'[t] \in Nat
  BY <1>2 DEF RetentionInv, TypeOK, Ages
<1>4. poll' = [poll EXCEPT !.elapsed = IF poll.at = "idle" THEN 0
                                       ELSE poll.elapsed + 1]
  BY DEF Tick
<1>5. poll.at # "idle" => poll.elapsed < PollTime
  BY DEF Tick
<1>6. TypeOK'
  BY <1>1, <1>2, <1>4, <1>5 DEF RetentionInv, TypeOK
<1>7. StoredOnce'
  BY <1>1 DEF RetentionInv, StoredOnce
<1>8. ArchivedOld'
  BY <1>1, <1>2, <1>3 DEF RetentionInv, ArchivedOld
<1>9. PurgeInv'
  <2>1. purge.old \subseteq Trades
    BY DEF RetentionInv, TypeOK
  <2> QED
    BY <1>1, <1>2, <1>3, <2>1 DEF RetentionInv, PurgeInv
<1>10. PollInv'
  <2>1. /\ poll'.at = poll.at /\ poll'.list = poll.list /\ poll'.old = poll.old
        /\ poll.at # "idle" => poll'.elapsed = poll.elapsed + 1
        /\ poll.elapsed \in Nat
        /\ poll.list \subseteq Trades /\ happened \subseteq Trades
    BY <1>4 DEF RetentionInv, TypeOK
  <2>2. CASE poll.at = "idle"
    BY <2>1, <2>2 DEF RetentionInv, PollInv
  <2>3. CASE poll.at # "idle"
    <3>1. ASSUME NEW t \in Trades, age[t] <= Lookback + poll.elapsed
          PROVE  age'[t] <= Lookback + poll'.elapsed
      BY <1>2, <1>3, <2>1, <2>3, <3>1
    <3> QED
      BY <1>1, <2>1, <2>3, <3>1 DEF RetentionInv, PollInv
  <2> QED
    BY <2>2, <2>3
<1> QED
  BY <1>6, <1>7, <1>8, <1>9, <1>10 DEF RetentionInv

-----------------------------------------------------------------------------
LEMMA NextRetention == RetentionInv /\ [Next]_vars => RetentionInv'
<1> SUFFICES ASSUME RetentionInv, [Next]_vars PROVE RetentionInv'
  OBVIOUS
<1>1. CASE UNCHANGED vars
  BY <1>1 DEF vars, RetentionInv, TypeOK, StoredOnce, ArchivedOld, PurgeInv, PollInv
<1>2. ASSUME NEW pass \in Passes, PurgeStep(pass) PROVE RetentionInv'
  BY <1>2, PurgeSelectKeeps, PurgeCopyKeeps, PurgeCommitKeeps DEF PurgeStep
<1>3. CASE Next
  BY <1>2, <1>3, PurgeStartKeeps, PurgeFailsKeeps, PollStartKeeps,
     PollFetchKeeps, PollLoadKeeps, PollInsertKeeps, PollEndsKeeps,
     HappensKeeps, ResolvesKeeps, ScoresKeeps, TickKeeps DEF Next
<1> QED
  BY <1>1, <1>3

LEMMA AlwaysRetention == Spec => []RetentionInv
BY InitRetention, NextRetention, PTL DEF Spec

(* Every variable keeps its type; what is to be copied is to be deleted.   *)
THEOREM RetentionTypes == Spec => []TypeOK
<1>1. RetentionInv => TypeOK
  BY DEF RetentionInv
<1> QED
  BY <1>1, AlwaysRetention, PTL

(* As long as no poll looks back further than the retention allows, no     *)
(* trade is ever in trades and in the archive, nor twice in the archive,   *)
(* however polls and purges overlap.                                       *)
THEOREM NothingDoubled == Spec => []StoredOnce
<1>1. RetentionInv => StoredOnce
  BY DEF RetentionInv
<1> QED
  BY <1>1, AlwaysRetention, PTL

(* No step removes a trade from the database.                              *)
THEOREM NothingLost == Spec => NeverLost
<1> DEFINE Kept == \A t \in Trades : t \in live \/ archive[t] > 0
                                       => t \in live' \/ archive'[t] > 0
<1>1. RetentionInv /\ [Next]_vars => [Kept]_vars
  <2> SUFFICES ASSUME RetentionInv, Next, NEW t \in Trades,
                      t \in live \/ archive[t] > 0
               PROVE  t \in live' \/ archive'[t] > 0
    OBVIOUS
  <2>1. ASSUME NEW pass \in Passes, PurgeCommit(pass)
        PROVE  t \in live' \/ archive'[t] > 0
    <3>1. live' = live \ purge.ids /\ archive' = Copied
      BY <2>1 DEF PurgeCommit
    <3>2. /\ purge.ids \subseteq live \cap purge.old
          /\ purge.fresh = {u \in purge.ids : archive[u] = 0}
      BY <2>1 DEF RetentionInv, PurgeInv, PurgeCommit
    <3>3. /\ archive[t] \in Nat
          /\ archive'[t] = IF t \in purge.fresh THEN archive[t] + 1 ELSE archive[t]
      BY <3>1, CopiedType DEF RetentionInv, TypeOK
    <3> QED
      BY <3>1, <3>2, <3>3
  <2>2. CASE \E pass \in Passes : PurgeStep(pass)
    BY <2>1, <2>2 DEF PurgeStep, PurgeSelect, PurgeCopy
  <2>3. CASE ~\E pass \in Passes : PurgeStep(pass)
    <3>1. live \subseteq live' /\ archive' = archive
      BY <2>3 DEF Next, PurgeStart, PurgeFails, PollStart, PollFetch, PollLoad,
         PollEnds, PollInsert, Happens, Resolves, Scores, Tick
    <3> QED
      BY <3>1
  <2> QED
    BY <2>2, <2>3
<1> QED
  BY <1>1, AlwaysRetention, PTL DEF Spec, NeverLost
=============================================================================
