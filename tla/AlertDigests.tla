---------------------------- MODULE AlertDigests ----------------------------
(***************************************************************************)
(* The two daily digests of the worker.  Warnings of failed jobs wait in a *)
(* Redis list until the warn digest reads, deletes and sends them, three   *)
(* steps between which a job may push and the process may die.  The wallet *)
(* digest takes its cutoff, 24 hours back, when it starts and reads the    *)
(* WATCH_WALLET alerts from there on when it gets to the wallet, having    *)
(* awaited Telegram for the wallets before; it marks nothing as sent, and  *)
(* the ingestor stores alerts all the while.                               *)
(*                                                                         *)
(* A day has Day ticks.  Both digests are due at tick 0 (in the code ten   *)
(* minutes apart; they have nothing in common).                            *)
(***************************************************************************)
EXTENDS Integers

CONSTANTS
  Warnings,   \* warnings the jobs may raise
  Alerts,     \* WATCH_WALLET alerts of one digest wallet
  Day,        \* ticks from one digest to the next (24 hours)
  Grace,      \* misfire_grace_time: a job later than this is dropped
  Longest,    \* bound: ticks from the digest's start to the wallet's SELECT
  AlertLag,   \* bound: ticks from an alert's created_at to its commit
  NotYet      \* no time: an alert not created, no digest running

ASSUME DigestAssumption ==
  /\ Day \in Nat /\ Grace \in Nat /\ Longest \in Nat /\ AlertLag \in Nat
  /\ Grace + Longest < Day /\ AlertLag < Day
  /\ NotYet \notin Nat

VARIABLES
  up,        \* the worker runs
  hour,      \* time of day, in ticks since the digests were due
  cron,      \* the daily jobs still to run today
  redis,     \* Redis answers
  queue,     \* system_alerts:warn_queue
  flush,     \* the warn digest: its next step and the entries it read
  window,    \* ticks since the running wallet digest took its cutoff
  age,       \* age[a]: ticks since created_at, counted beyond every window
  raised,    \* warnings raised so far; each is raised once at most
  digests,   \* history, digests[w]: warn digests sent with w in it
  counted,   \* history, counted[a]: wallet digests made with a in it
  born,      \* history, born[a]: time of day of created_at
  skipped    \* history: alerts uncounted when their digest was not made

warnVars   == <<queue, flush, raised, digests>>
walletVars == <<window, age, counted, born, skipped>>
digestVars == <<up, hour, cron, redis, warnVars, walletVars>>

Daily     == {"warn", "wallet"}
NoFlush   == [next |-> "none", batch |-> {}]

DigestInit ==
  /\ up = TRUE /\ redis = TRUE
  /\ hour = 0 /\ cron = {}
  /\ queue = {} /\ flush = NoFlush
  /\ raised = {} /\ digests = [w \in Warnings |-> 0]
  /\ window = NotYet
  /\ age = [a \in Alerts |-> NotYet] /\ born = age
  /\ counted = [a \in Alerts |-> 0] /\ skipped = {}

-----------------------------------------------------------------------------
(* The warn digest.                                                        *)

(* A job fails and its wrapper calls send_system_alert("WARN", ...); a     *)
(* push that Redis does not take is logged and lost.                       *)
Warn(w) ==
  /\ up /\ w \notin raised
  /\ raised' = raised \cup {w}
  /\ queue' = IF redis THEN queue \cup {w} ELSE queue
  /\ UNCHANGED <<up, hour, cron, redis, flush, digests, walletVars>>

(* Mutant of After: the digest is sent before the list is deleted.         *)
AfterSends(step) ==
  CASE step = "read"   -> "send"
    [] step = "send"   -> "delete"
    [] step = "delete" -> "none"

(* flush_warn_digest: the step that follows.                               *)
After(step) ==
  CASE step = "read"   -> "delete"
    [] step = "delete" -> "send"
    [] step = "send"   -> "none"

Then(step, batch) ==
  IF After(step) = "none" THEN NoFlush
  ELSE [next |-> After(step), batch |-> batch]

(* LRANGE; without an answer or entries the digest is over.                *)
FlushRead ==
  /\ up /\ "warn" \in cron /\ flush = NoFlush
  /\ cron' = cron \ {"warn"}
  /\ flush' = IF redis /\ queue # {} THEN Then("read", queue) ELSE NoFlush
  /\ UNCHANGED <<up, hour, redis, queue, raised, digests, walletVars>>

(* DEL takes what was pushed since the LRANGE with it.  On an error the    *)
(* digest is over; the list may be gone all the same.                      *)
FlushDelete ==
  /\ up /\ flush.next = "delete"
  /\ \/ redis /\ queue' = {} /\ flush' = Then("delete", flush.batch)
     \/ queue' \in {queue, {}} /\ flush' = NoFlush
  /\ UNCHANGED <<up, hour, cron, redis, raised, digests, walletVars>>

(* send_message never raises: refused entries are not queued again.        *)
FlushSend ==
  /\ up /\ flush.next = "send"
  /\ digests' \in {digests,
                   [w \in Warnings |-> IF w \in flush.batch
                                       THEN digests[w] + 1 ELSE digests[w]]}
  /\ flush' = Then("send", flush.batch)
  /\ UNCHANGED <<up, hour, cron, redis, queue, raised, walletVars>>

-----------------------------------------------------------------------------
(* The wallet digest.                                                      *)

Created(a) == age[a] # NotYet

(* Mutant of Recent: created_at > cutoff.                                  *)
RecentAfter(a) == Created(a) /\ age[a] < Day + window

(* created_at >= cutoff, and no upper bound.                               *)
Recent(a) == Created(a) /\ age[a] <= Day + window

(* The ingestor stores an alert, at any time and whether or not the worker *)
(* runs.  created_at is the start of the transaction, n ticks before its   *)
(* commit makes the row visible.                                           *)
NewAlert(a, n) ==
  /\ ~Created(a)
  /\ age' = [age EXCEPT ![a] = n]
  /\ born' = [born EXCEPT ![a] = IF n <= hour THEN hour - n ELSE Day + hour - n]
  /\ UNCHANGED <<up, hour, cron, redis, warnVars, window, counted, skipped>>

WalletStart ==
  /\ up /\ "wallet" \in cron
  /\ cron' = cron \ {"wallet"} /\ window' = 0
  /\ UNCHANGED <<up, hour, redis, warnVars, age, counted, born, skipped>>

(* The wallet's SELECT; the message made of it is sent or lost.            *)
WalletSelect ==
  /\ up /\ window # NotYet
  /\ window' = NotYet
  /\ counted' = [a \in Alerts |-> IF Recent(a) THEN counted[a] + 1
                                  ELSE counted[a]]
  /\ UNCHANGED <<up, hour, cron, redis, warnVars, age, born, skipped>>

(* Alerts of the past days that no digest has counted.                     *)
Waiting == {a \in Alerts : Created(a) /\ age[a] > hour /\ counted[a] = 0}

(* A statement fails before the wallet's turn: the exception ends the run  *)
(* and the job logs it.                                                    *)
WalletFails ==
  /\ up /\ window # NotYet
  /\ window' = NotYet /\ skipped' = skipped \cup Waiting
  /\ UNCHANGED <<up, hour, cron, redis, warnVars, age, counted, born>>

-----------------------------------------------------------------------------
(* The worker and its clock.  A daily job that cannot start on time is     *)
(* dropped: no job store remembers it.                                     *)

Misfired(job) ==
  /\ up /\ job \in cron
  /\ cron' = cron \ {job}
  /\ skipped' = IF job = "wallet" THEN skipped \cup Waiting ELSE skipped
  /\ UNCHANGED <<up, hour, redis, warnVars, window, age, counted, born>>

Dies ==
  /\ up
  /\ up' = FALSE
  /\ cron' = {} /\ flush' = NoFlush /\ window' = NotYet
  /\ skipped' = IF "wallet" \in cron \/ window # NotYet
                THEN skipped \cup Waiting ELSE skipped
  /\ UNCHANGED <<hour, redis, queue, raised, digests, age, counted, born>>

Restarts ==
  /\ ~up /\ up' = TRUE
  /\ UNCHANGED <<hour, cron, redis, warnVars, walletVars>>

RedisChanges ==
  /\ redis' = ~redis
  /\ UNCHANGED <<up, hour, cron, warnVars, walletVars>>

Older(n) == IF n = NotYet \/ n > Day + Longest THEN n ELSE n + 1

(* Time passes while a job is late or a digest runs, within their bounds.  *)
NextHour ==
  /\ cron # {} => hour < Grace
  /\ window # NotYet => window < Longest
  /\ hour' = IF hour + 1 = Day THEN 0 ELSE hour + 1
  /\ age' = [a \in Alerts |-> Older(age[a])]
  /\ window' = IF window = NotYet THEN NotYet ELSE window + 1
  /\ cron' = IF up /\ hour' = 0 THEN Daily ELSE cron
  /\ skipped' = IF ~up /\ hour' = 0
                THEN skipped \cup {a \in Alerts : Created(a) /\ counted[a] = 0}
                ELSE skipped
  /\ UNCHANGED <<up, redis, warnVars, counted, born>>

DigestNext ==
  \/ \E w \in Warnings : Warn(w)
  \/ FlushRead \/ FlushDelete \/ FlushSend
  \/ \E a \in Alerts, n \in 0..AlertLag : NewAlert(a, n)
  \/ WalletStart \/ WalletSelect \/ WalletFails
  \/ \E job \in Daily : Misfired(job)
  \/ Dies \/ Restarts \/ RedisChanges \/ NextHour

DigestSpec == DigestInit /\ [][DigestNext]_digestVars

-----------------------------------------------------------------------------
(* The type invariant; only raised warnings are queued or sent.            *)
DigestTypeOK ==
  /\ up \in BOOLEAN /\ redis \in BOOLEAN
  /\ hour \in 0..(Day - 1) /\ cron \subseteq Daily
  /\ queue \subseteq raised /\ raised \subseteq Warnings
  /\ flush.next \in {"none", "delete", "send"}
  /\ flush.batch \subseteq raised
  /\ window \in 0..Longest \cup {NotYet}
  /\ age \in [Alerts -> 0..(Day + Longest + 1) \cup {NotYet}]
  /\ born \in [Alerts -> 0..(Day - 1) \cup {NotYet}]
  /\ digests \in [Warnings -> Nat] /\ counted \in [Alerts -> Nat]
  /\ skipped \subseteq Alerts

(* A warning is in one digest at most, wherever the process dies between   *)
(* reading the list and sending it and whatever Redis answers.             *)
InOneDigest == \A w \in Warnings : digests[w] <= 1

(* The windows of consecutive wallet digests overlap, and leave a gap, no  *)
(* further than the digests are late and long.  An alert stored in the     *)
(* minutes in which a digest may start and read may be in two digests; one *)
(* that came after a digest and before the time of day at which the next   *)
(* one starts late, or that was created before a start and committed after *)
(* the SELECT, in none.  Any other is in exactly one, unless the run that  *)
(* should have had it was dropped, failed or died (the digest wants every  *)
(* qualifying trade counted, engine.py:154).                               *)
CountedOnce ==
  \A a \in Alerts :
    Created(a) =>
      /\ counted[a] <= 2
      /\ born[a] > Grace + Longest => counted[a] <= 1
      /\ born[a] >= Grace /\ born[a] + AlertLag < Day /\ age[a] > Day + Longest
           => counted[a] >= 1 \/ a \in skipped
=============================================================================
