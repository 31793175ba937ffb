------------------------- MODULE MarketCatalogProofs -------------------------
(***************************************************************************)
(* Proofs about MarketCatalog, for every set of markets and jobs.  The     *)
(* invariant Locked says what the row locks are worth: one transaction at  *)
(* a time has written a market, and what it will commit never reopens one  *)
(* that is resolved.                                                       *)
(***************************************************************************)
EXTENDS MarketCatalog, TLAPS

JobType == [at : {"idle", "upsert", "flush"}, answer : [Markets -> Status],
            cur : Markets \cup {0}, seen : Status,
            writes : [Markets -> Status], tokens : SUBSET Markets]

(* A market about to be flushed has an answer, and rows never disappear.   *)
Flushing(j) ==
  job[j].at = "flush" =>
    /\ job[j].cur \in Markets
    /\ job[j].answer[job[j].cur] # "none"
    /\ job[j].seen # "none" => row[job[j].cur] # "none"

Typed ==
  /\ gamma \in [Markets -> Status]
  /\ row \in [Markets -> Status]
  /\ token \in SUBSET {m \in Markets : row[m] # "none"}
  /\ job \in [Jobs -> JobType]
  /\ \A j \in Jobs :
       /\ Flushing(j)
       /\ \A m \in job[j].tokens : job[j].writes[m] # "none"

OneWriter ==
  \A i, j \in Jobs, m \in Markets :
    job[i].writes[m] # "none" /\ job[j].writes[m] # "none" => i = j

KeepsResolved ==
  \A i \in Jobs, m \in Markets :
    row[m] = "resolved" => job[i].writes[m] \in {"none", "resolved"}

Locked == OneWriter /\ KeepsResolved

IInv == Typed /\ Locked

-----------------------------------------------------------------------------
(* Replacing the record of one job.                                        *)

LEMMA OneJob ==
  ASSUME NEW j \in Jobs, job \in [Jobs -> JobType], NEW r \in JobType,
         job' = [job EXCEPT ![j] = r]
  PROVE  /\ job' \in [Jobs -> JobType]
         /\ job'[j] = r
         /\ \A i \in Jobs \ {j} : job'[i] = job[i]
  OBVIOUS

(* A job whose transaction becomes empty disturbs nothing.                 *)
LEMMA Emptied ==
  ASSUME IInv, NEW j \in Jobs, NEW r \in JobType,
         r.at # "flush", r.writes = Nothing, r.tokens = {},
         job' = [job EXCEPT ![j] = r],
         gamma' \in [Markets -> Status], row' = row, token' = token
  PROVE  IInv'
  <1>1. /\ job' \in [Jobs -> JobType] /\ job'[j] = r
        /\ \A i \in Jobs \ {j} : job'[i] = job[i]
    BY OneJob DEF IInv, Typed
  <1>2. \A m \in Markets : job'[j].writes[m] = "none"
    BY <1>1 DEF Nothing
  <1>3. Typed'
    <2>1. \A i \in Jobs : /\ Flushing(i)'
                          /\ \A m \in job'[i].tokens : job'[i].writes[m] # "none"
      BY <1>1 DEF IInv, Typed, Flushing
    <2>2. QED
      BY <1>1, <2>1 DEF IInv, Typed
  <1>4. OneWriter'
    BY <1>1, <1>2 DEF IInv, Locked, OneWriter
  <1>5. KeepsResolved'
    BY <1>1, <1>2 DEF IInv, Locked, KeepsResolved
  <1>6. QED
    BY <1>3, <1>4, <1>5 DEF IInv, Locked

LEMMA NothingTyped == Nothing \in [Markets -> Status]
  BY DEF Nothing, Status

LEMMA IdleTyped == Idle \in JobType
  BY NothingTyped DEF Idle, JobType, Status

LEMMA BeginKeeps ==
  ASSUME IInv, NEW j \in Jobs, NEW S, Begin(j, S),
         gamma' = gamma, row' = row, token' = token
  PROVE  IInv'
  <1> DEFINE answer == [m \in Markets |-> IF m \in S THEN gamma[m] ELSE "none"]
             r == [at |-> "upsert", answer |-> answer, cur |-> 0, seen |-> "none",
                   writes |-> Nothing, tokens |-> {}]
  <1>1. answer \in [Markets -> Status]
    BY DEF IInv, Typed, Status
  <1>2. r \in JobType
    <2> HIDE DEF answer
    <2>1. QED
      BY <1>1, NothingTyped DEF JobType, Status
  <1>3. job' = [job EXCEPT ![j] = r]
    BY DEF Begin
  <1>4. r.at # "flush" /\ r.writes = Nothing /\ r.tokens = {}
    OBVIOUS
  <1>5. gamma' \in [Markets -> Status]
    BY DEF IInv, Typed
  <1> HIDE DEF r
  <1>6. QED
    BY <1>2, <1>3, <1>4, <1>5, Emptied

LEMMA RollBackKeeps ==
  ASSUME IInv, NEW j \in Jobs, RollBack(j),
         gamma' = gamma, row' = row, token' = token
  PROVE  IInv'
  <1> DEFINE answer == [m \in Markets |-> IF m \in GivenUp(j) THEN "none"
                                         ELSE job[j].answer[m]]
             r == [at |-> "upsert", answer |-> answer, cur |-> 0, seen |-> "none",
                   writes |-> Nothing, tokens |-> {}]
  <1>1. answer \in [Markets -> Status]
    <2>1. job[j].answer \in [Markets -> Status]
      BY DEF IInv, Typed, JobType
    <2>2. QED
      BY <2>1 DEF Status
  <1>2. r \in JobType
    <2> HIDE DEF answer
    <2>1. QED
      BY <1>1, NothingTyped DEF JobType, Status
  <1>3. job' = [job EXCEPT ![j] = r]
    BY DEF RollBack
  <1>4. r.at # "flush" /\ r.writes = Nothing /\ r.tokens = {}
    OBVIOUS
  <1>5. gamma' \in [Markets -> Status]
    BY DEF IInv, Typed
  <1> HIDE DEF r
  <1>6. QED
    BY <1>2, <1>3, <1>4, <1>5, Emptied

-----------------------------------------------------------------------------
LEMMA SelectKeeps ==
  ASSUME IInv, NEW j \in Jobs, Select(j)
  PROVE  IInv'
  <1>1. PICK m \in NextUp(j) :
          job' = [job EXCEPT ![j] =
            [at |-> "flush", answer |-> job[j].answer, cur |-> m, seen |-> row[m],
             writes |-> job[j].writes, tokens |-> job[j].tokens]]
    BY DEF Select
  <1> DEFINE r == [at |-> "flush", answer |-> job[j].answer, cur |-> m,
                   seen |-> row[m], writes |-> job[j].writes,
                   tokens |-> job[j].tokens]
  <1>2. m \in Markets
    BY DEF NextUp, Todo
  <1>3. r \in JobType
    BY <1>2 DEF IInv, Typed, JobType
  <1>4. /\ job' \in [Jobs -> JobType] /\ job'[j] = r
        /\ \A i \in Jobs \ {j} : job'[i] = job[i]
    <2>1. job' = [job EXCEPT ![j] = r]
      BY <1>1
    <2> HIDE DEF r
    <2>2. QED
      BY <1>3, <2>1, OneJob DEF IInv, Typed
  <1>5. /\ \A i \in Jobs : job'[i].writes = job[i].writes /\ job'[i].tokens = job[i].tokens
    BY <1>4
  <1>6. UNCHANGED <<gamma, row, token>>
    BY DEF Select
  <1>8. \A i \in Jobs : Flushing(i)'
    <2>1. job[j].answer[m] # "none"
      BY DEF NextUp, Todo
    <2>2. Flushing(j)'
      BY <1>2, <1>4, <1>6, <2>1 DEF Flushing
    <2>3. QED
      BY <1>4, <1>6, <2>2 DEF IInv, Typed, Flushing
  <1>7. QED
    BY <1>4, <1>5, <1>6, <1>8 DEF IInv, Typed, Locked, OneWriter, KeepsResolved

(* What a flush leaves in the row when it violates no constraint.          *)
LEMMA FlushedKeeps ==
  ASSUME NEW s \in Status, NEW a \in Status, NEW n \in Status, a # "none",
         s # "none" => n # "none", ~Violates(s, a, n)
  PROVE  /\ Flushed(s, a, n) \in Status \ {"none"}
         /\ n = "resolved" => Flushed(s, a, n) = "resolved"
  BY DEF Status, Violates, Flushed, Upserted

LEMMA FlushKeeps ==
  ASSUME IInv, NEW j \in Jobs, Flush(j)
  PROVE  IInv'
  <1> DEFINE m == job[j].cur
             a == job[j].answer[m]
             f == Flushed(job[j].seen, a, row[m])
             w == [job[j].writes EXCEPT ![m] = f]
             t == IF WritesToken(j, m) THEN job[j].tokens \cup {m} ELSE job[j].tokens
             n == [job[j].answer EXCEPT ![m] = "none"]
             r == [at |-> "upsert", answer |-> n, cur |-> 0, seen |-> "none",
                   writes |-> w, tokens |-> t]
  <1>1. /\ m \in Markets /\ job[j] \in JobType /\ row[m] \in Status
        /\ m \notin HeldFrom(j) /\ ~Violates(job[j].seen, a, row[m])
        /\ a # "none" /\ (job[j].seen # "none" => row[m] # "none")
    BY DEF IInv, Typed, Flush, Flushing
  <1>2. a \in Status /\ job[j].seen \in Status /\ job[j].writes \in [Markets -> Status]
        /\ job[j].tokens \in SUBSET Markets /\ job[j].answer \in [Markets -> Status]
    BY <1>1 DEF JobType
  <1>3. f \in Status \ {"none"} /\ (row[m] = "resolved" => f = "resolved")
    BY <1>1, <1>2, FlushedKeeps
  <1> HIDE DEF f
  <1>4. /\ w \in [Markets -> Status] /\ w[m] = f
        /\ \A k \in Markets \ {m} : w[k] = job[j].writes[k]
    BY <1>1, <1>2, <1>3
  <1>5. n \in [Markets -> Status]
    BY <1>2 DEF Status
  <1>6. t \in SUBSET Markets /\ t \subseteq job[j].tokens \cup {m}
    BY <1>1, <1>2
  <1>7. r \in JobType
    <2> HIDE DEF w, t, n
    <2>1. QED
      BY <1>4, <1>5, <1>6 DEF JobType, Status
  <1>8. job' = [job EXCEPT ![j] = r]
    BY DEF Flush, f
  <1>9. r.at = "upsert" /\ r.writes = w /\ r.tokens = t
    OBVIOUS
  <1> HIDE DEF r
  <1>10. /\ job' \in [Jobs -> JobType] /\ job'[j] = r
         /\ \A i \in Jobs \ {j} : job'[i] = job[i]
    BY <1>7, <1>8, OneJob DEF IInv, Typed
  <1>11. UNCHANGED <<gamma, row, token>>
    BY DEF Flush
  <1> HIDE DEF w, t, n, m
  <1>12. \A k \in job'[j].tokens : job'[j].writes[k] # "none"
    <2>1. SUFFICES ASSUME NEW k \in t PROVE w[k] # "none"
      BY <1>9, <1>10
    <2>2. CASE k = m
      BY <2>2, <1>3, <1>4
    <2>3. CASE k # m
      <3>1. k \in job[j].tokens /\ k \in Markets
        BY <2>3, <1>6
      <3>2. QED
        BY <3>1, <2>3, <1>4 DEF IInv, Typed
    <2>4. QED
      BY <2>2, <2>3
  <1>13. Typed'
    <2>1. \A i \in Jobs : /\ Flushing(i)'
                          /\ \A k \in job'[i].tokens : job'[i].writes[k] # "none"
      BY <1>9, <1>10, <1>11, <1>12 DEF IInv, Typed, Flushing
    <2>2. QED
      BY <1>10, <1>11, <2>1 DEF IInv, Typed
  <1>14. \A i \in Jobs \ {j} : job[i].writes[m] = "none"
    BY <1>1 DEF HeldFrom
  <1>15. \A k \in Markets \ {m} : job'[j].writes[k] = job[j].writes[k]
    BY <1>4, <1>9, <1>10
  <1>16. OneWriter'
    <2>1. SUFFICES ASSUME NEW i \in Jobs, NEW l \in Jobs, NEW k \in Markets,
                          job'[i].writes[k] # "none", job'[l].writes[k] # "none"
                   PROVE  i = l
      BY DEF OneWriter
    <2>2. CASE k = m
      BY <2>1, <2>2, <1>10, <1>14
    <2>3. CASE k # m
      <3>1. job[i].writes[k] # "none" /\ job[l].writes[k] # "none"
        BY <2>1, <2>3, <1>10, <1>15
      <3>2. QED
        BY <3>1 DEF IInv, Locked, OneWriter
    <2>4. QED
      BY <2>2, <2>3
  <1>17. KeepsResolved'
    <2>1. SUFFICES ASSUME NEW i \in Jobs, NEW k \in Markets, row[k] = "resolved"
                   PROVE  job'[i].writes[k] \in {"none", "resolved"}
      BY <1>11 DEF KeepsResolved
    <2>2. CASE i = j /\ k = m
      BY <2>1, <2>2, <1>3, <1>4, <1>9, <1>10
    <2>3. CASE ~(i = j /\ k = m)
      <3>1. job'[i].writes[k] = job[i].writes[k]
        BY <2>3, <1>10, <1>15
      <3>2. QED
        BY <2>1, <3>1 DEF IInv, Locked, KeepsResolved
    <2>4. QED
      BY <2>2, <2>3
  <1>18. QED
    BY <1>13, <1>16, <1>17 DEF IInv, Locked

-----------------------------------------------------------------------------
(* Committing.                                                             *)

LEMMA CommittedRows ==
  ASSUME IInv, NEW j \in Jobs, Commit(j)
  PROVE  /\ row' \in [Markets -> Status]
         /\ \A m \in Markets : row[m] = "resolved" => row'[m] = "resolved"
         /\ \A m \in Markets : row[m] # "none" => row'[m] # "none"
         /\ \A m \in Markets : job[j].writes[m] # "none" => row'[m] # "none"
         /\ \A m \in Markets : row'[m] = job[j].writes[m] \/ row'[m] = row[m]
  <1>1. job[j].writes \in [Markets -> Status] /\ row \in [Markets -> Status]
    BY DEF IInv, Typed, JobType
  <1>2. row' = [m \in Markets |-> IF job[j].writes[m] = "none" THEN row[m]
                                 ELSE job[j].writes[m]]
    BY DEF Commit
  <1>3. \A m \in Markets : row[m] = "resolved" => job[j].writes[m] \in {"none", "resolved"}
    BY DEF IInv, Locked, KeepsResolved
  <1>4. QED
    BY <1>1, <1>2, <1>3

LEMMA CommitKeeps ==
  ASSUME IInv, NEW j \in Jobs, Commit(j)
  PROVE  IInv'
  <1>1. job' = [job EXCEPT ![j] = Idle]
    BY DEF Commit
  <1>2. /\ job' \in [Jobs -> JobType] /\ job'[j] = Idle
        /\ \A i \in Jobs \ {j} : job'[i] = job[i]
    BY <1>1, IdleTyped, OneJob DEF IInv, Typed
  <1>3. /\ job'[j].at # "flush" /\ job'[j].tokens = {}
        /\ \A m \in Markets : job'[j].writes[m] = "none"
    BY <1>2 DEF Idle, Nothing
  <1>4. token' \in SUBSET {m \in Markets : row'[m] # "none"}
    <2>1. token' = token \cup job[j].tokens
      BY DEF Commit
    <2>2. /\ token \in SUBSET {m \in Markets : row[m] # "none"}
          /\ job[j].tokens \in SUBSET {m \in Markets : job[j].writes[m] # "none"}
      BY DEF IInv, Typed, JobType
    <2>3. QED
      BY <2>1, <2>2, CommittedRows
  <1>5. \A i \in Jobs : /\ Flushing(i)'
                        /\ \A m \in job'[i].tokens : job'[i].writes[m] # "none"
    BY <1>2, <1>3, CommittedRows DEF IInv, Typed, Flushing
  <1>6. Typed'
    BY <1>2, <1>4, <1>5, CommittedRows DEF Commit, IInv, Typed
  <1>7. OneWriter'
    BY <1>2, <1>3 DEF IInv, Locked, OneWriter
  <1>8. KeepsResolved'
    <2>1. SUFFICES ASSUME NEW i \in Jobs \ {j}, NEW m \in Markets, row'[m] = "resolved"
                   PROVE  job[i].writes[m] \in {"none", "resolved"}
      BY <1>2, <1>3 DEF KeepsResolved
    <2>2. CASE row'[m] = row[m]
      BY <2>1, <2>2 DEF IInv, Locked, KeepsResolved
    <2>3. CASE row'[m] = job[j].writes[m]
      BY <2>1, <2>3 DEF IInv, Locked, OneWriter
    <2>4. QED
      BY <2>2, <2>3, CommittedRows
  <1>9. QED
    BY <1>6, <1>7, <1>8 DEF IInv, Locked

LEMMA RefreshKeeps ==
  ASSUME IInv, NEW m \in Markets, Refresh(m)
  PROVE  IInv'
  <1>1. /\ row' = [row EXCEPT ![m] = gamma[m]] /\ gamma[m] \in {"closed", "resolved"}
        /\ UNCHANGED <<gamma, token, job>>
    BY DEF Refresh
  <1>2. row' \in [Markets -> Status] /\ \A k \in Markets : row[k] # "none" => row'[k] # "none"
    BY <1>1 DEF IInv, Typed, Status
  <1>3. Typed'
    <2>1. \A i \in Jobs : Flushing(i)'
      BY <1>1, <1>2 DEF IInv, Typed, Flushing
    <2>2. QED
      BY <1>1, <1>2, <2>1 DEF IInv, Typed
  <1>4. KeepsResolved'
    <2>1. SUFFICES ASSUME NEW i \in Jobs, NEW k \in Markets, row'[k] = "resolved"
                   PROVE  job[i].writes[k] \in {"none", "resolved"}
      BY <1>1 DEF KeepsResolved
    <2>2. CASE k = m
      BY <2>2 DEF Refresh, Held
    <2>3. CASE k # m
      BY <1>1, <2>1, <2>3 DEF IInv, Typed, Locked, KeepsResolved
    <2>4. QED
      BY <2>2, <2>3
  <1>5. QED
    BY <1>1, <1>3, <1>4 DEF IInv, Locked, OneWriter

-----------------------------------------------------------------------------
(* The invariant.                                                          *)

LEMMA InitInv == Init => IInv
  <1> SUFFICES ASSUME Init PROVE IInv
    OBVIOUS
  <1>1. Nothing \in [Markets -> Status]
    BY NothingTyped
  <1>2. job \in [Jobs -> JobType]
    BY IdleTyped DEF Init
  <1>3. \A i \in Jobs : /\ job[i].at # "flush" /\ job[i].tokens = {}
                        /\ \A m \in Markets : job[i].writes[m] = "none"
    BY DEF Init, Idle, Nothing
  <1>4. Typed
    BY <1>1, <1>2, <1>3 DEF Init, Typed, Flushing
  <1>5. QED
    BY <1>3, <1>4 DEF IInv, Locked, OneWriter, KeepsResolved

LEMMA StepKeeps ==
  ASSUME IInv, NEW j \in Jobs, Step(j)
  PROVE  IInv'
  <1>1. CASE FetchList(j)
    BY <1>1, BeginKeeps DEF FetchList
  <1>2. CASE \E m \in Markets : FetchPart(j, m)
    BY <1>2, BeginKeeps DEF FetchPart
  <1>3. CASE \E m \in Markets : FetchSingle(j, m)
    BY <1>3, BeginKeeps DEF FetchSingle
  <1>4. CASE Select(j)
    BY <1>4, SelectKeeps
  <1>5. CASE Flush(j)
    BY <1>5, FlushKeeps
  <1>6. CASE FlushViolates(j)
    BY <1>6, RollBackKeeps DEF FlushViolates
  <1>7. CASE FlushFails(j)
    BY <1>7, RollBackKeeps DEF FlushFails
  <1>8. CASE Commit(j)
    BY <1>8, CommitKeeps
  <1>9. CASE Dies(j)
    <2>1. /\ job' = [job EXCEPT ![j] = Idle] /\ UNCHANGED <<gamma, row, token>>
      BY <1>9 DEF Dies
    <2>2. Idle.at # "flush" /\ Idle.writes = Nothing /\ Idle.tokens = {}
      BY DEF Idle
    <2>3. gamma' \in [Markets -> Status]
      BY <2>1 DEF IInv, Typed
    <2>4. QED
      BY <2>1, <2>2, <2>3, IdleTyped, Emptied
  <1>10. QED
    BY <1>1, <1>2, <1>3, <1>4, <1>5, <1>6, <1>7, <1>8, <1>9 DEF Step

LEMMA NextInv == IInv /\ [Next]_vars => IInv'
  <1> SUFFICES ASSUME IInv, [Next]_vars PROVE IInv'
    OBVIOUS
  <1>1. CASE \E j \in Jobs : Step(j)
    BY <1>1, StepKeeps
  <1>2. CASE \E m \in Markets : GammaMoves(m)
    <2>1. PICK m \in Markets : GammaMoves(m)
      BY <1>2
    <2>2. UNCHANGED <<row, token, job>>
      BY <2>1 DEF GammaMoves
    <2>3. gamma' \in [Markets -> Status]
      BY <2>1 DEF GammaMoves, IInv, Typed, Status
    <2>4. QED
      BY <2>2, <2>3 DEF IInv, Typed, Flushing, Locked, OneWriter, KeepsResolved
  <1>3. CASE \E m \in Markets : Refresh(m)
    BY <1>3, RefreshKeeps
  <1>4. CASE UNCHANGED vars
    BY <1>4 DEF vars, IInv, Typed, Flushing, Locked, OneWriter, KeepsResolved
  <1>5. QED
    BY <1>1, <1>2, <1>3, <1>4 DEF Next

(* The row locks do their work in every reachable state.                   *)
THEOREM RowsLocked == Spec => []IInv
  BY InitInv, NextInv, PTL DEF Spec

(* The counter of faults stays within its bound.                           *)
LEMMA FaultsTyped == Spec => [](faults \in 0..MaxFaults)
  <1>1. Init => faults \in 0..MaxFaults
    BY ConstantsAssumption DEF Init
  <1>2. faults \in 0..MaxFaults /\ [Next]_vars => (faults \in 0..MaxFaults)'
    <2> SUFFICES ASSUME faults \in 0..MaxFaults, [Next]_vars
                 PROVE  UNCHANGED faults \/ (faults < MaxFaults /\ faults' = faults + 1)
      BY ConstantsAssumption
    <2>1. CASE \E j \in Jobs : Step(j)
      <3>1. PICK j \in Jobs : Step(j)
        BY <2>1
      <3>2. CASE \E m \in Markets : FetchPart(j, m) \/ FetchSingle(j, m)
        BY <3>2 DEF FetchPart, FetchSingle
      <3>3. CASE FetchList(j) \/ Select(j) \/ Flush(j) \/ FlushViolates(j)
        BY <3>3 DEF FetchList, Select, Flush, FlushViolates
      <3>4. CASE FlushFails(j) \/ Commit(j) \/ Dies(j)
        BY <3>4 DEF FlushFails, Commit, Dies
      <3>5. QED
        BY <3>1, <3>2, <3>3, <3>4 DEF Step
    <2>2. CASE \E m \in Markets : GammaMoves(m) \/ Refresh(m)
      BY <2>2 DEF GammaMoves, Refresh
    <2>3. CASE UNCHANGED vars
      BY <2>3 DEF vars
    <2>4. QED
      BY <2>1, <2>2, <2>3 DEF Next
  <1>3. QED
    BY <1>1, <1>2, PTL DEF Spec

(* TypeOK: among others, whatever is rolled back a token is stored with    *)
(* its market (_upsert_token after _upsert_market).                        *)
THEOREM CatalogTypes == Spec => []TypeOK
  <1>1. IInv /\ faults \in 0..MaxFaults => TypeOK
    BY DEF IInv, Typed, Flushing, JobType, TypeOK
  <1>2. QED
    BY <1>1, RowsLocked, FaultsTyped, PTL

(* No job takes the resolution of a market back, whatever it read and      *)
(* whenever: the locks hold back what _upsert_market alone would not.      *)
THEOREM ResolvedForGood == Spec => ResolvedStays
  <1>1. IInv /\ [Next]_vars =>
          [\A m \in Markets : row[m] = "resolved" => row'[m] = "resolved"]_vars
    <2> SUFFICES ASSUME IInv, Next
                 PROVE  \A m \in Markets : row[m] = "resolved" => row'[m] = "resolved"
      OBVIOUS
    <2>1. CASE \E j \in Jobs : Commit(j)
      BY <2>1, CommittedRows
    <2>2. CASE \E m \in Markets : Refresh(m)
      BY <2>2 DEF Refresh, IInv, Typed
    <2>3. CASE UNCHANGED row
      BY <2>3
    <2>4. CASE \E j \in Jobs : Step(j) /\ ~Commit(j)
      <3>1. UNCHANGED row
        BY <2>4 DEF Step, FetchList, FetchPart, FetchSingle, Select, Flush,
                    FlushViolates, FlushFails, Dies
      <3>2. QED
        BY <3>1, <2>3
    <2>5. CASE \E m \in Markets : GammaMoves(m)
      BY <2>3, <2>5 DEF GammaMoves
    <2>6. QED
      BY <2>1, <2>2, <2>4, <2>5 DEF Next
  <1>2. QED
    BY <1>1, RowsLocked, PTL DEF Spec, ResolvedStays
=============================================================================
