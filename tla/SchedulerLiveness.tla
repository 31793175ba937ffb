--------------------------- MODULE SchedulerLiveness ---------------------------
(***************************************************************************)
(* Who notices that the worker is dead: the worker's scheduler writes a    *)
(* heartbeat to Redis, the ingestor's subscription-refresh loop reads it,  *)
(* and either process, Redis and Telegram may fail.                        *)
(*                                                                         *)
(* Time is counted in ticks.  An interval timer fires before the tick that *)
(* would take it past its period; everything else happens between any two  *)
(* ticks.  Ages stop growing at the bound past which nothing looks at them.*)
(***************************************************************************)
EXTENDS Integers

CONSTANTS
  Beat,       \* interval of the heartbeat job (5 minutes)
  MaxMisses,  \* heartbeats in a row that APScheduler may drop as misfired
  Check,      \* _SUBSCRIPTION_REFRESH_INTERVAL, the loop's sleep (5 minutes)
  Slack,      \* how long a refresh may take
  Stale,      \* _STALE_THRESHOLD_SECONDS (15 minutes)
  Ttl,        \* _HEARTBEAT_TTL_SECONDS (30 minutes)
  DownLimit   \* _REDIS_DOWN_CRIT_THRESHOLD_SECONDS (15 minutes)

ASSUME LivenessAssumption ==
  /\ Beat \in Nat \ {0} /\ Check \in Nat \ {0}
  /\ MaxMisses \in Nat /\ Slack \in Nat /\ DownLimit \in Nat
  /\ Stale \in Nat /\ Ttl \in Nat
  /\ Beat * (MaxMisses + 1) < Stale
  /\ Stale < Ttl

VARIABLES
  worker,      \* the worker's scheduler: up or down
  due,         \* ticks since the heartbeat job last fired
  missed,      \* misfired heartbeats since the last one that ran
  redis,       \* up or down
  key,         \* age of scheduler:heartbeat, Ttl when there is no such key
  loop,        \* the refresh loop: running, or ended by an exception
  sinceCheck,  \* ticks since the loop last went to sleep
  downSince,   \* age of _redis_down_since, NotDown when it is None
  critSent,    \* _redis_down_crit_sent: yes or no
  telegram,    \* up or down
  page,        \* what the check of this tick paged: none, dead, blind
  delivered,   \* whether the worker's present death was paged (observer)
  deadFor,     \* ticks the worker has been down while the ingestor, Redis
               \* and Telegram were all up (observer)
  blindFor,    \* ticks Redis has been down under the same loop (observer)
  healthyFor,  \* ticks worker and Redis have both been up (observer)
  blindPages   \* blind pages since Redis was last up, of one ingestor
               \* process (observer)

beats     == <<worker, due, missed>>
store     == <<redis, key>>
checker   == <<loop, sinceCheck, downSince, critSent>>
outcome   == <<page, delivered>>
observers == <<deadFor, blindFor, healthyFor, blindPages>>
vars      == <<worker, due, missed, redis, key, loop, sinceCheck, downSince,
               critSent, telegram, page, delivered, deadFor, blindFor,
               healthyFor, blindPages>>

NotDown == -1

DeadBound    == Stale + Check + Slack
BlindBound   == DownLimit + 2 * (Check + Slack)
HealthyBound == Beat * (MaxMisses + 1)

Init ==
  /\ worker = "up" /\ due = 0 /\ missed = 0
  /\ redis = "up" /\ key = Ttl
  /\ loop = "running" /\ sinceCheck = 0
  /\ downSince = NotDown /\ critSent = "no"
  /\ telegram = "up"
  /\ page = "none" /\ delivered = "no"
  /\ deadFor = 0 /\ blindFor = 0 /\ healthyFor = 0 /\ blindPages = 0

-----------------------------------------------------------------------------
(* Time.                                                                   *)

Older(age, bound) == IF age < bound THEN age + 1 ELSE bound

KeyAges == Older(key, Ttl)

DownAges == IF downSince = NotDown THEN NotDown ELSE Older(downSince, DownLimit)

Tick ==
  /\ worker = "up" => due < Beat
  /\ loop = "running" => sinceCheck < Check + Slack
  /\ due' = IF worker = "up" THEN due + 1 ELSE due
  /\ key' = KeyAges
  /\ sinceCheck' = IF loop = "running" THEN sinceCheck + 1 ELSE sinceCheck
  /\ downSince' = DownAges
  /\ page' = "none"
  /\ deadFor' = IF worker = "down" /\ redis = "up" /\ telegram = "up"
                  THEN Older(deadFor, DeadBound) ELSE deadFor
  /\ blindFor' = IF redis = "down" THEN Older(blindFor, BlindBound) ELSE blindFor
  /\ healthyFor' = IF worker = "up" /\ redis = "up"
                     THEN Older(healthyFor, HealthyBound + 1) ELSE healthyFor
  /\ UNCHANGED <<worker, missed, redis, loop, critSent, telegram, delivered,
                 blindPages>>

-----------------------------------------------------------------------------
(* The worker.                                                             *)

(* record_heartbeat: a write error is logged and forgotten.                *)
RecordHeartbeat ==
  /\ worker = "up" /\ due = Beat
  /\ due' = 0 /\ missed' = 0
  /\ key' = IF redis = "up" THEN 0 ELSE key
  /\ UNCHANGED <<worker, redis, checker, telegram, outcome, observers>>

(* A heartbeat that cannot start within the grace time is dropped.         *)
HeartbeatMisfires ==
  /\ worker = "up" /\ due = Beat /\ missed < MaxMisses
  /\ due' = 0 /\ missed' = missed + 1
  /\ UNCHANGED <<worker, store, checker, telegram, outcome, observers>>

WorkerDies ==
  /\ worker = "up"
  /\ worker' = "down"
  /\ healthyFor' = 0 /\ deadFor' = 0 /\ delivered' = "no"
  /\ UNCHANGED <<due, missed, store, checker, telegram, page, blindFor,
                 blindPages>>

(* The interval trigger fires first one interval after the start.          *)
WorkerRestarts ==
  /\ worker = "down"
  /\ worker' = "up" /\ due' = 0 /\ missed' = 0
  /\ healthyFor' = 0 /\ deadFor' = 0 /\ delivered' = "no"
  /\ UNCHANGED <<store, checker, telegram, page, blindFor, blindPages>>

-----------------------------------------------------------------------------
(* Redis and Telegram.                                                     *)

RedisFails ==
  /\ redis = "up"
  /\ redis' = "down"
  /\ healthyFor' = 0 /\ deadFor' = 0 /\ blindFor' = 0
  /\ UNCHANGED <<beats, key, checker, telegram, outcome, blindPages>>

(* Redis comes back with the key it had, or without it.                    *)
RedisReturns ==
  /\ redis = "down"
  /\ redis' = "up"
  /\ key' \in {key, Ttl}
  /\ healthyFor' = 0 /\ deadFor' = 0 /\ blindFor' = 0 /\ blindPages' = 0
  /\ UNCHANGED <<beats, checker, telegram, outcome>>

TelegramFails ==
  /\ telegram = "up"
  /\ telegram' = "down"
  /\ deadFor' = 0
  /\ UNCHANGED <<beats, store, checker, outcome, blindFor, healthyFor,
                 blindPages>>

TelegramReturns ==
  /\ telegram = "down"
  /\ telegram' = "up"
  /\ UNCHANGED <<beats, store, checker, outcome, observers>>

-----------------------------------------------------------------------------
(* The ingestor.                                                           *)

Awake == loop = "running" /\ sinceCheck >= Check

(* A database error in _refresh_subscriptions, which the loop calls outside*)
(* its try, ends the loop; the stream goes on without it.                  *)
RefreshFails ==
  /\ Awake
  /\ loop' = "ended"
  /\ UNCHANGED <<beats, store, sinceCheck, downSince, critSent, telegram,
                 outcome, observers>>

NewLoop ==
  /\ loop' = "running" /\ sinceCheck' = 0
  /\ deadFor' = 0 /\ blindFor' = 0

(* run() raises and main() starts a new Ingestor in the same process.      *)
IngestorRestarts ==
  /\ NewLoop
  /\ UNCHANGED <<beats, store, downSince, critSent, telegram, outcome,
                 healthyFor, blindPages>>

(* The container is restarted: the module's globals are initialised again. *)
ProcessRestarts ==
  /\ NewLoop
  /\ downSince' = NotDown /\ critSent' = "no" /\ blindPages' = 0
  /\ UNCHANGED <<beats, store, telegram, outcome, healthyFor>>

-----------------------------------------------------------------------------
(* check_scheduler_liveness.                                               *)

(* Mutant of DownFor: every failed read starts the clock again.            *)
DownForThisRead == 0

DownFor == IF downSince = NotDown THEN 0 ELSE downSince

(* Mutant of Latch: the page is not remembered.                            *)
LatchNothing == "no"

Latch == "yes"

CheckBlind ==
  /\ Awake /\ redis = "down"
  /\ sinceCheck' = 0
  /\ downSince' = DownFor
  /\ \/ /\ DownFor >= DownLimit /\ critSent = "no"
        /\ page' = "blind" /\ critSent' = Latch
        /\ blindPages' = Older(blindPages, 2)
     \/ /\ DownFor < DownLimit \/ critSent = "yes"
        /\ page' = "none"
        /\ UNCHANGED <<critSent, blindPages>>
  /\ UNCHANGED <<beats, store, loop, telegram, delivered, deadFor, blindFor,
                 healthyFor>>

(* Mutants of LooksDead: a missing key is taken for a fresh start; the     *)
(* threshold is one heartbeat.                                             *)
LooksDeadIfPresent == key # Ttl /\ key >= Stale
LooksDeadEarly     == key >= Beat

(* No heartbeat, or a stale one.                                           *)
LooksDead == key = Ttl \/ key >= Stale

CheckReads ==
  /\ Awake /\ redis = "up"
  /\ sinceCheck' = 0
  /\ downSince' = NotDown /\ critSent' = "no"
  /\ \/ /\ LooksDead
        /\ page' = "dead"
        /\ delivered' = IF worker = "down" /\ telegram = "up"
                          THEN "yes" ELSE delivered
     \/ /\ ~LooksDead
        /\ page' = "none"
        /\ UNCHANGED delivered
  /\ UNCHANGED <<beats, store, loop, telegram, observers>>

-----------------------------------------------------------------------------
Next ==
  \/ Tick
  \/ RecordHeartbeat \/ HeartbeatMisfires \/ WorkerDies \/ WorkerRestarts
  \/ RedisFails \/ RedisReturns \/ TelegramFails \/ TelegramReturns
  \/ RefreshFails \/ IngestorRestarts \/ ProcessRestarts
  \/ CheckBlind \/ CheckReads

Spec == Init /\ [][Next]_vars

-----------------------------------------------------------------------------
(* Properties.                                                             *)

(* The type invariant: no timer runs past its period, no age past its use. *)
TypeOK ==
  /\ worker \in {"up", "down"} /\ due \in 0..Beat /\ missed \in 0..MaxMisses
  /\ redis \in {"up", "down"} /\ key \in 0..Ttl
  /\ loop \in {"running", "ended"} /\ sinceCheck \in 0..(Check + Slack)
  /\ downSince \in NotDown..DownLimit /\ critSent \in {"yes", "no"}
  /\ telegram \in {"up", "down"}
  /\ page \in {"none", "dead", "blind"} /\ delivered \in {"yes", "no"}
  /\ deadFor \in 0..DeadBound /\ blindFor \in 0..BlindBound
  /\ healthyFor \in 0..(HealthyBound + 1)
  /\ blindPages \in 0..2

(* While its loop runs the ingestor is the one thing left to say that the  *)
(* scheduler is dead: whatever the heartbeat's age, the misfires and the   *)
(* outages before, it has said so one check after the stale threshold.     *)
DeathPagedInTime ==
  loop = "running" /\ worker = "down" /\ deadFor >= DeadBound =>
    delivered = "yes"

(* A Redis outage that lasts has been escalated two checks after its limit,*)
(* although the clock of the outage starts and ends with the checks.       *)
BlindnessEscalates ==
  loop = "running" /\ redis = "down" /\ blindFor >= BlindBound =>
    critSent = "yes"

(* "CRIT once (de-duped until Redis recovers)": one process pages an       *)
(* outage once, also across restarts of the ingestor within it.            *)
OneBlindPage == blindPages <= 1

(* The threshold tolerates misfired heartbeats: a page says the scheduler  *)
(* is dead only if the worker is down, or it or Redis has been up for less *)
(* than the longest gap between two heartbeats.                            *)
NoFalseAlarm == page = "dead" => healthyFor <= HealthyBound
=============================================================================
