---------------------------- MODULE WorkerChecks ----------------------------
(***************************************************************************)
(* The worker's data-quality checks and the clock that runs them: the      *)
(* freshness watchdog, the outcome_result consistency check and the Gamma  *)
(* canary are interval jobs of an in-memory scheduler, so a restart starts *)
(* every interval anew, and a check is only worth its page.                *)
(*                                                                         *)
(* One step of time is an hour.                                            *)
(***************************************************************************)
EXTENDS Integers

CONSTANTS
  Sources,    \* what the watchdog watches: trades, markets, resolver
  Limit,      \* Limit[s]: hours of silence before it pages
  Every,      \* Every[c]: interval of check c in hours
  MaxMisses   \* bound: runs in a row that APScheduler drops as misfired

Checks == {"freshness", "consistency", "canary"}
Troubles == {"db", "telegram", "mismatch", "drift", "shape"}

ASSUME ChecksAssumption ==
  /\ Sources \subseteq {"trades", "markets", "resolver"}
  /\ Limit \in [Sources -> Nat \ {0}]
  /\ Every \in [Checks -> Nat \ {0}]
  /\ MaxMisses \in Nat

VARIABLES
  worker,   \* the worker process: "up" or "down"
  due,      \* due[c]: hours to the next run of c
  misses,   \* misses[c]: runs of c dropped in a row
  silence,  \* silence[s]: hours since s last moved, up to Limit[s]
  backlog,  \* unresolved markets past their end_date are waiting
  broken,   \* what is wrong in the surroundings
  unheard   \* history, unheard[c]: hours that c could have been heard and
            \*   had something to say

checkVars == <<worker, due, misses, silence, backlog, broken, unheard>>

Fresh == [c \in Checks |-> 0]

ChecksInit ==
  /\ worker = "down"
  /\ due = Every
  /\ misses = Fresh
  /\ silence \in [Sources -> {0}]
  /\ backlog = FALSE
  /\ broken = {}
  /\ unheard = Fresh

(* _compute_freshness: a source is silent from its limit on; the resolver  *)
(* only counts while work is waiting.                                      *)
SilentSource(s) == silence[s] >= Limit[s] /\ (s = "resolver" => backlog)

(* Mutant of FreshnessSeverity: a watchdog that cannot reach the database  *)
(* queues a warning, as it did before 2026-07-23.                          *)
FreshnessWarnsOnCrash ==
  IF "db" \in broken THEN "WARN"
  ELSE IF \E s \in Sources : SilentSource(s) THEN "CRIT" ELSE "INFO"

(* What a run reports; a crash on the database pages like a finding.       *)
FreshnessSeverity ==
  IF "db" \in broken \/ \E s \in Sources : SilentSource(s)
  THEN "CRIT" ELSE "INFO"

ConsistencySeverity ==
  IF {"db", "mismatch"} \cap broken # {} THEN "CRIT" ELSE "INFO"

(* A failed request, a deprecation header, an unexpected envelope, field   *)
(* or price, and a settled market that does not resolve are drift.  On an  *)
(* item of another shape (items[0] no dict, a field no list) the canary    *)
(* raises before it reports anything: the job logs that and nobody is      *)
(* paged, whatever else has drifted.                                       *)
CanarySeverity ==
  IF "shape" \in broken THEN "ERROR"
  ELSE IF "drift" \in broken THEN "CRIT" ELSE "INFO"

Severity(c) ==
  CASE c = "freshness"   -> FreshnessSeverity
    [] c = "consistency" -> ConsistencySeverity
    [] c = "canary"      -> CanarySeverity

-----------------------------------------------------------------------------
(* The observer: something is wrong that the check lives to report, and a  *)
(* page would arrive.                                                      *)

Wrong(c) ==
  CASE c = "freshness"   -> "db" \in broken \/ \E s \in Sources :
                              silence[s] = Limit[s] /\ (s = "resolver" => backlog)
    [] c = "consistency" -> {"db", "mismatch"} \cap broken # {}
    [] c = "canary"      -> "drift" \in broken /\ "shape" \notin broken

Hearable(c) == Wrong(c) /\ worker = "up" /\ "telegram" \notin broken

Observe(hours) ==
  unheard' = [c \in Checks |-> IF Hearable(c)' THEN hours[c] ELSE 0]

-----------------------------------------------------------------------------
(* IntervalTrigger: the first run, and each next one, is an interval away. *)
NextRun(c) == Every[c]

(* run_worker: main registers the jobs and runs discovery and the canary   *)
(* at once.                                                                *)
StartWorker ==
  /\ worker = "down"
  /\ worker' = "up"
  /\ due' = [c \in Checks |-> IF c = "canary" THEN 0 ELSE NextRun(c)]
  /\ misses' = Fresh
  /\ silence' = [s \in Sources |-> IF s = "markets" /\ "db" \notin broken THEN 0
                                   ELSE silence[s]]
  /\ UNCHANGED <<backlog, broken>>
  /\ Observe(Fresh)

StopWorker ==
  /\ worker = "up"
  /\ worker' = "down"
  /\ UNCHANGED <<due, misses, silence, backlog, broken>>
  /\ Observe(Fresh)

(* A page is sent on every run that finds something, not on the first only.*)
RunCheck(c) ==
  /\ worker = "up" /\ due[c] = 0
  /\ due' = [due EXCEPT ![c] = NextRun(c)]
  /\ misses' = [misses EXCEPT ![c] = 0]
  /\ UNCHANGED <<worker, silence, backlog, broken>>
  /\ Observe(IF Severity(c) = "CRIT" THEN [unheard EXCEPT ![c] = 0] ELSE unheard)

(* The event loop was busy for longer than the misfire grace time.         *)
Misfire(c) ==
  /\ worker = "up" /\ due[c] = 0 /\ misses[c] < MaxMisses
  /\ due' = [due EXCEPT ![c] = NextRun(c)]
  /\ misses' = [misses EXCEPT ![c] = @ + 1]
  /\ UNCHANGED <<worker, silence, backlog, broken>>
  /\ Observe(unheard)

(* A trade, a discovery pass or a resolver check reaches the database; the *)
(* last two run in the worker.                                             *)
Moves(s) ==
  /\ "db" \notin broken /\ silence[s] > 0
  /\ s # "trades" => worker = "up"
  /\ silence' = [silence EXCEPT ![s] = 0]
  /\ UNCHANGED <<worker, due, misses, backlog, broken>>
  /\ Observe(unheard)

BacklogChanges ==
  /\ backlog' = ~backlog
  /\ UNCHANGED <<worker, due, misses, silence, broken>>
  /\ Observe(unheard)

TroubleChanges(t) ==
  /\ broken' = IF t \in broken THEN broken \ {t} ELSE broken \cup {t}
  /\ UNCHANGED <<worker, due, misses, silence, backlog>>
  /\ Observe(unheard)

Hour ==
  /\ worker = "up" => \A c \in Checks : due[c] > 0
  /\ due' = IF worker = "up" THEN [c \in Checks |-> due[c] - 1] ELSE due
  /\ silence' = [s \in Sources |->
                   IF silence[s] < Limit[s] THEN silence[s] + 1 ELSE silence[s]]
  /\ UNCHANGED <<worker, misses, backlog, broken>>
  /\ Observe([c \in Checks |-> IF Hearable(c) THEN unheard[c] + 1 ELSE 0])

ChecksNext ==
  \/ StartWorker \/ StopWorker \/ Hour \/ BacklogChanges
  \/ \E c \in Checks : RunCheck(c) \/ Misfire(c)
  \/ \E s \in Sources : Moves(s)
  \/ \E t \in Troubles : TroubleChanges(t)

ChecksSpec == ChecksInit /\ [][ChecksNext]_checkVars

(* The type invariant: no timer runs below zero or beyond its interval.    *)
ChecksTypeOK ==
  /\ worker \in {"up", "down"}
  /\ \A c \in Checks : /\ due[c] \in 0..Every[c]
                       /\ misses[c] \in 0..MaxMisses
                       /\ unheard[c] \in Nat
  /\ \A s \in Sources : silence[s] \in 0..Limit[s]
  /\ backlog \in BOOLEAN
  /\ broken \subseteq Troubles

(* Something a check watches for and can report that lasts while one       *)
(* worker process is up and Telegram answers is paged within one interval, *)
(* or one more for each run that was dropped: a dead database, a trouble   *)
(* older than the process and one whose first page was lost included.  Not *)
(* included: answers that make the canary raise, which are never paged     *)
(* (against "never raises", run_gamma_canary.py:102), and a trouble that   *)
(* restarts outrun, as each process counts its intervals anew.             *)
PagedInTime ==
  \A c \in Checks : unheard[c] <= Every[c] * (MaxMisses + 1)
=============================================================================
