------------------------ MODULE SchedulerLivenessProofs ------------------------
(***************************************************************************)
(* What holds of the liveness check for every interval, threshold and      *)
(* limit that LivenessAssumption admits.  Each property has an inductive   *)
(* invariant of its own that ties its observer to the timers of the code;  *)
(* all of them rest on TypeOK.                                             *)
(***************************************************************************)
EXTENDS SchedulerLiveness, TLAPS

(* The longest gap between two heartbeats: a product, out of SMT's reach   *)
(* where it meets the case split on the step.                              *)
LEMMA Longest ==
  ASSUME NEW d \in 0..Beat, NEW m \in 0..MaxMisses
  PROVE  d + Beat * m \in 0..HealthyBound
<1>1. Beat \in Nat /\ MaxMisses \in Nat
  BY LivenessAssumption
<1>2. Beat * m \in Nat /\ Beat * (MaxMisses - m) \in Nat
  BY <1>1, SMT
<1>3. Beat * (MaxMisses + 1) = Beat + Beat * m + Beat * (MaxMisses - m)
  BY <1>1, SMT
<1>4. QED
  BY <1>1, <1>2, <1>3 DEF HealthyBound

(* The constants as the proofs use them.                                   *)
LEMMA Constants ==
  /\ Beat \in Nat \ {0} /\ Check \in Nat \ {0}
  /\ MaxMisses \in Nat /\ Slack \in Nat /\ DownLimit \in Nat
  /\ Stale \in Nat \ {0} /\ Ttl \in Nat
  /\ HealthyBound \in Nat /\ HealthyBound < Stale /\ Stale < Ttl
  /\ DeadBound \in Nat /\ BlindBound \in Nat /\ BlindBound > Check + Slack
<1>1. HealthyBound \in Nat
  <2>1. 0 \in 0..Beat /\ 0 \in 0..MaxMisses
    BY LivenessAssumption
  <2>2. 0 + Beat * 0 \in 0..HealthyBound
    BY <2>1, Longest
  <2>3. Beat * (MaxMisses + 1) \in Int
    BY LivenessAssumption
  <2>4. QED
    BY <2>2, <2>3 DEF HealthyBound
<1>2. QED
  BY <1>1, LivenessAssumption DEF HealthyBound, DeadBound, BlindBound

-----------------------------------------------------------------------------
(* Type correctness of the worker, Redis, the refresh loop and the         *)
(* observers: TypeOK for every choice of the times.                        *)
THEOREM LivenessTypes == Spec => []TypeOK
<1>1. Init => TypeOK
  BY Constants DEF Init, TypeOK, NotDown
<1>2. TypeOK /\ [Next]_vars => TypeOK'
  <2> SUFFICES ASSUME TypeOK, [Next]_vars PROVE TypeOK'
    OBVIOUS
  <2> USE Constants DEF NotDown
  <2>1. CASE Tick
    BY <2>1 DEF Tick, KeyAges, DownAges, Older, beats, store, checker,
       outcome, observers, TypeOK
  <2>2. CASE RecordHeartbeat
    BY <2>2 DEF RecordHeartbeat, beats, store, checker, outcome, observers,
       TypeOK
  <2>3. CASE HeartbeatMisfires
    BY <2>3 DEF HeartbeatMisfires, beats, store, checker, outcome, observers,
       TypeOK
  <2>4. CASE WorkerDies
    BY <2>4 DEF WorkerDies, beats, store, checker, outcome, observers, TypeOK
  <2>5. CASE WorkerRestarts
    BY <2>5 DEF WorkerRestarts, beats, store, checker, outcome, observers,
       TypeOK
  <2>6. CASE RedisFails
    BY <2>6 DEF RedisFails, beats, store, checker, outcome, observers, TypeOK
  <2>7. CASE RedisReturns
    BY <2>7 DEF RedisReturns, beats, store, checker, outcome, observers,
       TypeOK
  <2>8. CASE TelegramFails
    BY <2>8 DEF TelegramFails, beats, store, checker, outcome, observers,
       TypeOK
  <2>9. CASE TelegramReturns
    BY <2>9 DEF TelegramReturns, beats, store, checker, outcome, observers,
       TypeOK
  <2>10. CASE RefreshFails
    BY <2>10 DEF RefreshFails, Awake, beats, store, checker, outcome,
       observers, TypeOK
  <2>11. CASE IngestorRestarts
    BY <2>11 DEF IngestorRestarts, NewLoop, beats, store, checker, outcome,
       observers, TypeOK
  <2>12. CASE ProcessRestarts
    BY <2>12 DEF ProcessRestarts, NewLoop, beats, store, checker, outcome,
       observers, TypeOK
  <2>13. CASE CheckBlind
    BY <2>13 DEF CheckBlind, Awake, DownFor, Latch, Older, beats, store,
       checker, outcome, observers, TypeOK
  <2>14. CASE CheckReads
    BY <2>14 DEF CheckReads, Awake, LooksDead, beats, store, checker, outcome,
       observers, TypeOK
  <2>15. CASE UNCHANGED vars
    BY <2>15 DEF vars, TypeOK
  <2>16. QED
    BY <2>1, <2>2, <2>3, <2>4, <2>5, <2>6, <2>7, <2>8, <2>9, <2>10, <2>11,
       <2>12, <2>13, <2>14, <2>15 DEF Next
<1>3. QED
  BY <1>1, <1>2, PTL DEF Spec

-----------------------------------------------------------------------------
(* The observer of the death is no older than the heartbeat, restarts with *)
(* Redis and Telegram, and is less than Stale ahead of the loop's sleep.   *)
DeadInv ==
  /\ redis = "down" \/ telegram = "down" => deadFor = 0
  /\ key = Ttl \/ key >= deadFor \/ worker = "up"
  /\ loop = "running" /\ worker = "down" /\ delivered = "no" =>
       deadFor < Stale + sinceCheck

(* DeathPagedInTime for every choice of the times.                         *)
THEOREM DeathIsPaged == Spec => []DeathPagedInTime
<1>1. Init => DeadInv
  BY Constants DEF Init, DeadInv
<1>2. TypeOK /\ DeadInv /\ [Next]_vars => DeadInv'
  <2> SUFFICES ASSUME TypeOK, DeadInv, [Next]_vars PROVE DeadInv'
    OBVIOUS
  <2> USE Constants DEF NotDown
  <2>1. CASE Tick
    BY <2>1 DEF Tick, KeyAges, DownAges, Older, beats, store, checker,
       outcome, observers, TypeOK, DeadInv
  <2>2. CASE RecordHeartbeat
    BY <2>2 DEF RecordHeartbeat, beats, store, checker, outcome, observers,
       TypeOK, DeadInv
  <2>3. CASE HeartbeatMisfires
    BY <2>3 DEF HeartbeatMisfires, beats, store, checker, outcome, observers,
       TypeOK, DeadInv
  <2>4. CASE WorkerDies
    BY <2>4 DEF WorkerDies, beats, store, checker, outcome, observers, TypeOK,
       DeadInv
  <2>5. CASE WorkerRestarts
    BY <2>5 DEF WorkerRestarts, beats, store, checker, outcome, observers,
       TypeOK, DeadInv
  <2>6. CASE RedisFails
    BY <2>6 DEF RedisFails, beats, store, checker, outcome, observers, TypeOK,
       DeadInv
  <2>7. CASE RedisReturns
    BY <2>7 DEF RedisReturns, beats, store, checker, outcome, observers,
       TypeOK, DeadInv
  <2>8. CASE TelegramFails
    BY <2>8 DEF TelegramFails, beats, store, checker, outcome, observers,
       TypeOK, DeadInv
  <2>9. CASE TelegramReturns
    BY <2>9 DEF TelegramReturns, beats, store, checker, outcome, observers,
       TypeOK, DeadInv
  <2>10. CASE RefreshFails
    BY <2>10 DEF RefreshFails, Awake, beats, store, checker, outcome,
       observers, TypeOK, DeadInv
  <2>11. CASE IngestorRestarts
    BY <2>11 DEF IngestorRestarts, NewLoop, beats, store, checker, outcome,
       observers, TypeOK, DeadInv
  <2>12. CASE ProcessRestarts
    BY <2>12 DEF ProcessRestarts, NewLoop, beats, store, checker, outcome,
       observers, TypeOK, DeadInv
  <2>13. CASE CheckBlind
    BY <2>13 DEF CheckBlind, Awake, DownFor, Latch, Older, beats, store,
       checker, outcome, observers, TypeOK, DeadInv
  <2>14. CASE CheckReads
    BY <2>14 DEF CheckReads, Awake, LooksDead, beats, store, checker, outcome,
       observers, TypeOK, DeadInv
  <2>15. CASE UNCHANGED vars
    BY <2>15 DEF vars, TypeOK, DeadInv
  <2>16. QED
    BY <2>1, <2>2, <2>3, <2>4, <2>5, <2>6, <2>7, <2>8, <2>9, <2>10, <2>11,
       <2>12, <2>13, <2>14, <2>15 DEF Next
<1>3. TypeOK /\ DeadInv => DeathPagedInTime
  BY Constants DEF TypeOK, DeadInv, DeathPagedInTime, DeadBound
<1>4. QED
  BY <1>1, <1>2, <1>3, LivenessTypes, PTL DEF Spec

-----------------------------------------------------------------------------
(* Until the escalation the observer of the outage is at most one check    *)
(* ahead of the clock the checks keep, and past the limit the next check   *)
(* is due.                                                                 *)
BlindInv ==
  loop = "running" /\ redis = "down" /\ critSent = "no" =>
    \/ downSince = NotDown /\ blindFor <= sinceCheck
    \/ downSince \in 0..(DownLimit - 1) /\ blindFor <= downSince + Check + Slack
    \/ downSince = DownLimit
         /\ blindFor < DownLimit + Check + Slack + sinceCheck

(* BlindnessEscalates for every choice of the times.                       *)
THEOREM BlindnessIsPaged == Spec => []BlindnessEscalates
<1>1. Init => BlindInv
  BY Constants DEF Init, BlindInv, NotDown
<1>2. TypeOK /\ BlindInv /\ [Next]_vars => BlindInv'
  <2> SUFFICES ASSUME TypeOK, BlindInv, [Next]_vars PROVE BlindInv'
    OBVIOUS
  <2> USE Constants DEF NotDown
  <2>1. CASE Tick
    BY <2>1 DEF Tick, KeyAges, DownAges, Older, beats, store, checker,
       outcome, observers, TypeOK, BlindInv
  <2>2. CASE RecordHeartbeat
    BY <2>2 DEF RecordHeartbeat, beats, store, checker, outcome, observers,
       TypeOK, BlindInv
  <2>3. CASE HeartbeatMisfires
    BY <2>3 DEF HeartbeatMisfires, beats, store, checker, outcome, observers,
       TypeOK, BlindInv
  <2>4. CASE WorkerDies
    BY <2>4 DEF WorkerDies, beats, store, checker, outcome, observers, TypeOK,
       BlindInv
  <2>5. CASE WorkerRestarts
    BY <2>5 DEF WorkerRestarts, beats, store, checker, outcome, observers,
       TypeOK, BlindInv
  <2>6. CASE RedisFails
    BY <2>6 DEF RedisFails, beats, store, checker, outcome, observers, TypeOK,
       BlindInv
  <2>7. CASE RedisReturns
    BY <2>7 DEF RedisReturns, beats, store, checker, outcome, observers,
       TypeOK, BlindInv
  <2>8. CASE TelegramFails
    BY <2>8 DEF TelegramFails, beats, store, checker, outcome, observers,
       TypeOK, BlindInv
  <2>9. CASE TelegramReturns
    BY <2>9 DEF TelegramReturns, beats, store, checker, outcome, observers,
       TypeOK, BlindInv
  <2>10. CASE RefreshFails
    BY <2>10 DEF RefreshFails, Awake, beats, store, checker, outcome,
       observers, TypeOK, BlindInv
  <2>11. CASE IngestorRestarts
    BY <2>11 DEF IngestorRestarts, NewLoop, beats, store, checker, outcome,
       observers, TypeOK, BlindInv
  <2>12. CASE ProcessRestarts
    BY <2>12 DEF ProcessRestarts, NewLoop, beats, store, checker, outcome,
       observers, TypeOK, BlindInv
  <2>13. CASE CheckBlind
    BY <2>13 DEF CheckBlind, Awake, DownFor, Latch, Older, beats, store,
       checker, outcome, observers, TypeOK, BlindInv
  <2>14. CASE CheckReads
    BY <2>14 DEF CheckReads, Awake, LooksDead, beats, store, checker, outcome,
       observers, TypeOK, BlindInv
  <2>15. CASE UNCHANGED vars
    BY <2>15 DEF vars, TypeOK, BlindInv
  <2>16. QED
    BY <2>1, <2>2, <2>3, <2>4, <2>5, <2>6, <2>7, <2>8, <2>9, <2>10, <2>11,
       <2>12, <2>13, <2>14, <2>15 DEF Next
<1>3. TypeOK /\ BlindInv => BlindnessEscalates
  BY Constants DEF TypeOK, BlindInv, BlindnessEscalates, BlindBound, NotDown
<1>4. QED
  BY <1>1, <1>2, <1>3, LivenessTypes, PTL DEF Spec

-----------------------------------------------------------------------------
(* The latch is set whenever the present outage has been paged.            *)
OnceInv ==
  /\ blindPages <= 1
  /\ redis = "up" \/ critSent = "no" => blindPages = 0

(* OneBlindPage for every choice of the times.                             *)
THEOREM BlindPageOnce == Spec => []OneBlindPage
<1>1. Init => OnceInv
  BY Constants DEF Init, OnceInv
<1>2. TypeOK /\ OnceInv /\ [Next]_vars => OnceInv'
  <2> SUFFICES ASSUME TypeOK, OnceInv, [Next]_vars PROVE OnceInv'
    OBVIOUS
  <2> USE Constants DEF NotDown
  <2>1. CASE Tick
    BY <2>1 DEF Tick, KeyAges, DownAges, Older, beats, store, checker,
       outcome, observers, TypeOK, OnceInv
  <2>2. CASE RecordHeartbeat
    BY <2>2 DEF RecordHeartbeat, beats, store, checker, outcome, observers,
       TypeOK, OnceInv
  <2>3. CASE HeartbeatMisfires
    BY <2>3 DEF HeartbeatMisfires, beats, store, checker, outcome, observers,
       TypeOK, OnceInv
  <2>4. CASE WorkerDies
    BY <2>4 DEF WorkerDies, beats, store, checker, outcome, observers, TypeOK,
       OnceInv
  <2>5. CASE WorkerRestarts
    BY <2>5 DEF WorkerRestarts, beats, store, checker, outcome, observers,
       TypeOK, OnceInv
  <2>6. CASE RedisFails
    BY <2>6 DEF RedisFails, beats, store, checker, outcome, observers, TypeOK,
       OnceInv
  <2>7. CASE RedisReturns
    BY <2>7 DEF RedisReturns, beats, store, checker, outcome, observers,
       TypeOK, OnceInv
  <2>8. CASE TelegramFails
    BY <2>8 DEF TelegramFails, beats, store, checker, outcome, observers,
       TypeOK, OnceInv
  <2>9. CASE TelegramReturns
    BY <2>9 DEF TelegramReturns, beats, store, checker, outcome, observers,
       TypeOK, OnceInv
  <2>10. CASE RefreshFails
    BY <2>10 DEF RefreshFails, Awake, beats, store, checker, outcome,
       observers, TypeOK, OnceInv
  <2>11. CASE IngestorRestarts
    BY <2>11 DEF IngestorRestarts, NewLoop, beats, store, checker, outcome,
       observers, TypeOK, OnceInv
  <2>12. CASE ProcessRestarts
    BY <2>12 DEF ProcessRestarts, NewLoop, beats, store, checker, outcome,
       observers, TypeOK, OnceInv
  <2>13. CASE CheckBlind
    BY <2>13 DEF CheckBlind, Awake, DownFor, Latch, Older, beats, store,
       checker, outcome, observers, TypeOK, OnceInv
  <2>14. CASE CheckReads
    BY <2>14 DEF CheckReads, Awake, LooksDead, beats, store, checker, outcome,
       observers, TypeOK, OnceInv
  <2>15. CASE UNCHANGED vars
    BY <2>15 DEF vars, TypeOK, OnceInv
  <2>16. QED
    BY <2>1, <2>2, <2>3, <2>4, <2>5, <2>6, <2>7, <2>8, <2>9, <2>10, <2>11,
       <2>12, <2>13, <2>14, <2>15 DEF Next
<1>3. TypeOK /\ OnceInv => OneBlindPage
  BY DEF OnceInv, OneBlindPage
<1>4. QED
  BY <1>1, <1>2, <1>3, LivenessTypes, PTL DEF Spec

-----------------------------------------------------------------------------
(* While worker and Redis are up, the key or their health is no older than *)
(* the last heartbeat that ran.                                            *)
HealthInv ==
  /\ worker = "down" \/ redis = "down" => healthyFor = 0
  /\ \/ key <= due + Beat * missed
     \/ healthyFor <= due + Beat * missed
  /\ page = "dead" => healthyFor <= HealthyBound

(* NoFalseAlarm for every choice of the times: the assumption that Stale   *)
(* exceeds the longest gap between two heartbeats is what it takes.        *)
THEOREM AlarmIsTrue == Spec => []NoFalseAlarm
<1>1. Init => HealthInv
  BY Constants DEF Init, HealthInv
<1>2. TypeOK /\ HealthInv /\ [Next]_vars => HealthInv'
  <2> SUFFICES ASSUME TypeOK, HealthInv, [Next]_vars PROVE HealthInv'
    OBVIOUS
  <2> USE Constants DEF NotDown
  <2>1. CASE Tick
    BY <2>1 DEF Tick, KeyAges, DownAges, Older, beats, store, checker,
       outcome, observers, TypeOK, HealthInv
  <2>2. CASE RecordHeartbeat
    BY <2>2 DEF RecordHeartbeat, beats, store, checker, outcome, observers,
       TypeOK, HealthInv
  <2>3. CASE HeartbeatMisfires
    BY <2>3 DEF HeartbeatMisfires, beats, store, checker, outcome, observers,
       TypeOK, HealthInv
  <2>4. CASE WorkerDies
    BY <2>4 DEF WorkerDies, beats, store, checker, outcome, observers, TypeOK,
       HealthInv
  <2>5. CASE WorkerRestarts
    BY <2>5 DEF WorkerRestarts, beats, store, checker, outcome, observers,
       TypeOK, HealthInv
  <2>6. CASE RedisFails
    BY <2>6 DEF RedisFails, beats, store, checker, outcome, observers, TypeOK,
       HealthInv
  <2>7. CASE RedisReturns
    BY <2>7 DEF RedisReturns, beats, store, checker, outcome, observers,
       TypeOK, HealthInv
  <2>8. CASE TelegramFails
    BY <2>8 DEF TelegramFails, beats, store, checker, outcome, observers,
       TypeOK, HealthInv
  <2>9. CASE TelegramReturns
    BY <2>9 DEF TelegramReturns, beats, store, checker, outcome, observers,
       TypeOK, HealthInv
  <2>10. CASE RefreshFails
    BY <2>10 DEF RefreshFails, Awake, beats, store, checker, outcome,
       observers, TypeOK, HealthInv
  <2>11. CASE IngestorRestarts
    BY <2>11 DEF IngestorRestarts, NewLoop, beats, store, checker, outcome,
       observers, TypeOK, HealthInv
  <2>12. CASE ProcessRestarts
    BY <2>12 DEF ProcessRestarts, NewLoop, beats, store, checker, outcome,
       observers, TypeOK, HealthInv
  <2>13. CASE CheckBlind
    BY <2>13 DEF CheckBlind, Awake, DownFor, Latch, Older, beats, store,
       checker, outcome, observers, TypeOK, HealthInv
  <2>14. CASE CheckReads
    <3>1. due + Beat * missed \in 0..HealthyBound
      BY Longest DEF TypeOK
    <3>2. LooksDead => key > HealthyBound
      BY DEF LooksDead, TypeOK
    <3>3. LooksDead => healthyFor <= HealthyBound
      BY <3>1, <3>2 DEF TypeOK, HealthInv
    <3>4. page' = "dead" => LooksDead
      BY <2>14 DEF CheckReads
    <3>5. UNCHANGED <<worker, redis, due, missed, key, healthyFor>>
      BY <2>14 DEF CheckReads, beats, store, observers
    <3>6. QED
      BY <3>3, <3>4, <3>5 DEF HealthInv
  <2>15. CASE UNCHANGED vars
    BY <2>15 DEF vars, TypeOK, HealthInv
  <2>16. QED
    BY <2>1, <2>2, <2>3, <2>4, <2>5, <2>6, <2>7, <2>8, <2>9, <2>10, <2>11,
       <2>12, <2>13, <2>14, <2>15 DEF Next
<1>3. TypeOK /\ HealthInv => NoFalseAlarm
  BY DEF HealthInv, NoFalseAlarm
<1>4. QED
  BY <1>1, <1>2, <1>3, LivenessTypes, PTL DEF Spec

=============================================================================
