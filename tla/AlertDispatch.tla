---------------------------- MODULE AlertDispatch ----------------------------
(***************************************************************************)
(* What one captured trade sets off: the alert engine, the sybil-cluster   *)
(* detector and the unwind detector, one after the other in the ingestor's *)
(* only task.  Each asks Redis whether its dedupe key is marked, sends a   *)
(* Telegram message, writes an alerts row and marks the key -- the engine  *)
(* sends before it writes, the detectors write before they send.           *)
(*                                                                         *)
(* One wallet and market; time is counted in ticks.  A key is an alert     *)
(* kind and the time bucket of the trade's timestamp; buckets are as long  *)
(* as Window[kind] says, marks live for Cooldown.                          *)
(***************************************************************************)
EXTENDS Integers, Sequences, FiniteSets

CONSTANTS
  Window,     \* Window[k]: length of kind k's time bucket
  Cooldown,   \* default_alert_cooldown_seconds, the life of a mark
  MaxLag,     \* how long after its timestamp a trade may be handled
  MaxTime,    \* bound: the clock's last value
  MaxAlerts,  \* bound: alerts rows written
  MaxFaults   \* bound: Redis, database and process failures

(* A wallet flagged alert_digest has its trades recorded, not sent.        *)
Kinds     == {"digest", "engine", "cluster", "unwind"}
Detectors == {"cluster", "unwind"}

ASSUME AlertAssumption ==
  /\ Window \in [Kinds -> Nat \ {0}]
  /\ Cooldown \in Nat \ {0}
  /\ MaxLag \in Nat
  /\ MaxTime \in Nat
  /\ MaxAlerts \in Nat
  /\ MaxFaults \in Nat

VARIABLES
  now,        \* the clock
  at,         \* what the ingestor does next for the trade in hand
  ts,         \* the trade's timestamp
  todo,       \* kinds of alert it still calls for, the current one included
  told,       \* whether Telegram took the current alert's message
  expiry,     \* expiry[k]: when key k's mark ends in Redis, 0 without one
  alerts,     \* the alerts table: dedupe_key and sent of every row
  delivered,  \* rows whose own message Telegram took (observer)
  pings,      \* pings[k]: messages of k taken, when the last one, and the
              \* faults there had been by then (observer)
  faults      \* failures so far

vars == <<now, at, ts, todo, told, expiry, alerts, delivered, pings, faults>>

Keys == Kinds \X (0..MaxTime)

Init ==
  /\ now = 0
  /\ at = "idle"
  /\ ts = 0
  /\ todo = {}
  /\ told = FALSE
  /\ expiry = [k \in Keys |-> 0]
  /\ alerts = <<>>
  /\ delivered = {}
  /\ pings = [k \in Keys |-> [count |-> 0, at |-> 0, faults |-> 0]]
  /\ faults = 0

Fault == faults < MaxFaults /\ faults' = faults + 1

(* The engine, which serves digest wallets too, comes before the cluster   *)
(* detector and that before the unwind detector.                           *)
Kind ==
  IF "digest" \in todo THEN "digest"
  ELSE IF "engine" \in todo THEN "engine"
  ELSE IF "cluster" \in todo THEN "cluster" ELSE "unwind"

(* make_dedupe_key, _cluster_dedupe_key and the unwind detector's key.     *)
DedupeKey == <<Kind, ts \div Window[Kind]>>

(* Done with this kind: go on to the next one, or to the next trade.       *)
Proceed ==
  /\ todo' = todo \ {Kind}
  /\ at' = IF todo \subseteq {Kind} THEN "idle" ELSE "check"

-----------------------------------------------------------------------------
(* A trade was stored.  SELLs never reach the engine's rules and only they *)
(* are unwinds; the rest of the rules is left open.                        *)
Receive(t, kinds) ==
  /\ at = "idle" /\ kinds # {}
  /\ t <= now /\ now <= t + MaxLag
  /\ "unwind" \in kinds => kinds \cap {"engine", "digest"} = {}
  /\ ~({"engine", "digest"} \subseteq kinds)
  /\ Len(alerts) + Cardinality(kinds) <= MaxAlerts
  /\ at' = "check"
  /\ ts' = t
  /\ todo' = kinds
  /\ UNCHANGED <<now, told, expiry, alerts, delivered, pings, faults>>

(* _is_deduped: a mark ends when its time to live is over.                 *)
Marked(k) == now < expiry[k]

(* Without a mark, or when Redis cannot be asked, the alert goes on.       *)
Check ==
  /\ at = "check" /\ Kind # "digest"
  /\ \/ /\ Marked(DedupeKey)
        /\ Proceed
        /\ UNCHANGED faults
     \/ /\ (~Marked(DedupeKey) /\ UNCHANGED faults) \/ Fault
        /\ at' = IF Kind \in Detectors THEN "record" ELSE "send"
        /\ UNCHANGED todo
  /\ told' = FALSE
  /\ UNCHANGED <<now, ts, expiry, alerts, delivered, pings>>

(* telegram.send_message never raises, it says whether it got through.     *)
Send(ok) ==
  /\ at = "send"
  /\ told' = ok
  /\ pings' = IF ok
       THEN [pings EXCEPT ![DedupeKey] =
               [count |-> @.count + 1, at |-> now, faults |-> faults]]
       ELSE pings
  /\ delivered' = IF ok /\ Kind \in Detectors
                  THEN delivered \cup {Len(alerts)} ELSE delivered
  /\ at' = IF Kind = "engine" THEN "record" ELSE IF ok THEN "flag" ELSE "mark"
  /\ UNCHANGED <<now, ts, todo, expiry, alerts, faults>>

(* A detector's row is committed before the message is sent; an error of   *)
(* the database ends the detector.                                         *)
RecordFinding ==
  /\ at = "record" /\ Kind \in Detectors
  /\ \/ /\ alerts' = Append(alerts, [key |-> DedupeKey, sent |-> FALSE])
        /\ at' = "send"
        /\ UNCHANGED <<todo, faults>>
     \/ /\ Fault
        /\ Proceed
        /\ UNCHANGED alerts
  /\ UNCHANGED <<now, ts, told, expiry, delivered, pings>>

(* _persist_alert logs an error of the database and goes on.               *)
RecordAlert ==
  /\ at = "record" /\ Kind = "engine"
  /\ at' = "mark"
  /\ \/ /\ alerts' = Append(alerts, [key |-> DedupeKey, sent |-> told])
        /\ delivered' = IF told THEN delivered \cup {Len(alerts) + 1}
                        ELSE delivered
        /\ UNCHANGED faults
     \/ /\ Fault
        /\ UNCHANGED <<alerts, delivered>>
  /\ UNCHANGED <<now, ts, todo, told, expiry, pings>>

(* A digest wallet's trade is stored for the daily digest.                 *)
RecordDigest ==
  /\ at = "check" /\ Kind = "digest"
  /\ Proceed
  /\ \/ /\ alerts' = Append(alerts, [key |-> DedupeKey, sent |-> FALSE])
        /\ UNCHANGED faults
     \/ /\ Fault
        /\ UNCHANGED alerts
  /\ UNCHANGED <<now, ts, told, expiry, delivered, pings>>

RowsOf(k) == {n \in DOMAIN alerts : alerts[n].key = k}

(* Mutant of Flagged: the oldest row of the key is taken (LIMIT 1).        *)
FlaggedFirst(k) ==
  {n \in RowsOf(k) : \A m \in RowsOf(k) : n <= m}

(* scalar_one_or_none raises when there are several rows.                  *)
Flagged(k) == IF Cardinality(RowsOf(k)) = 1 THEN RowsOf(k) ELSE {}

(* Several rows of the key, or an error of the database, end the detector  *)
(* before it marks the key.                                                *)
Flag ==
  /\ at = "flag"
  /\ \/ /\ Flagged(DedupeKey) # {}
        /\ alerts' = [n \in DOMAIN alerts |->
                        [key |-> alerts[n].key,
                         sent |-> alerts[n].sent \/ n \in Flagged(DedupeKey)]]
        /\ at' = "mark"
        /\ UNCHANGED <<todo, faults>>
     \/ /\ (Flagged(DedupeKey) = {} /\ UNCHANGED faults) \/ Fault
        /\ Proceed
        /\ UNCHANGED alerts
  /\ UNCHANGED <<now, ts, told, expiry, delivered, pings>>

(* Mutant of MarkEnds: the time to live is counted from the timestamp.      *)
MarkEndsByTrade == ts + Cooldown

MarkEnds == now + Cooldown

(* _mark_deduped, whether or not the message got through; an error of      *)
(* Redis is logged.                                                        *)
Mark ==
  /\ at = "mark"
  /\ Proceed
  /\ \/ /\ expiry' = [expiry EXCEPT ![DedupeKey] = MarkEnds]
        /\ UNCHANGED faults
     \/ /\ Fault
        /\ UNCHANGED expiry
  /\ UNCHANGED <<now, ts, told, alerts, delivered, pings>>

-----------------------------------------------------------------------------
(* The surroundings.                                                       *)

Tick ==
  /\ now < MaxTime
  /\ now' = now + 1
  /\ UNCHANGED <<at, ts, todo, told, expiry, alerts, delivered, pings, faults>>

(* Redis restarts empty.                                                   *)
RedisRestart ==
  /\ Fault
  /\ expiry' = [k \in Keys |-> 0]
  /\ UNCHANGED <<now, at, ts, todo, told, alerts, delivered, pings>>

(* The ingestor dies; the stream does not send the trade again.            *)
Crash ==
  /\ at # "idle" /\ Fault
  /\ at' = "idle"
  /\ todo' = {}
  /\ UNCHANGED <<now, ts, told, expiry, alerts, delivered, pings>>

Next ==
  \/ \E t \in 0..MaxTime, kinds \in SUBSET Kinds : Receive(t, kinds)
  \/ Check
  \/ \E ok \in BOOLEAN : Send(ok)
  \/ RecordFinding \/ RecordAlert \/ RecordDigest
  \/ Flag
  \/ Mark
  \/ Tick
  \/ RedisRestart
  \/ Crash

Spec == Init /\ [][Next]_vars

-----------------------------------------------------------------------------
(* Properties.                                                             *)

(* The type invariant.                                                     *)
TypeOK ==
  /\ now \in 0..MaxTime
  /\ at \in {"idle", "check", "send", "record", "flag", "mark"}
  /\ ts \in 0..MaxTime
  /\ todo \in SUBSET Kinds
  /\ told \in BOOLEAN
  /\ expiry \in [Keys -> Nat]
  /\ alerts \in Seq([key : Keys, sent : BOOLEAN])
  /\ delivered \in SUBSET Nat
  /\ pings \in [Keys -> [count : Nat, at : Nat, faults : Nat]]
  /\ faults \in 0..MaxFaults

(* Two messages of one key of these kinds are a cooldown apart, unless     *)
(* something failed between them.                                          *)
Spaced(kinds) ==
  \A k \in Keys :
    /\ k[1] \in kinds
    /\ pings[k].count > 0
    /\ pings'[k].count > pings[k].count
    => \/ now >= pings[k].at + Cooldown
       \/ faults > pings[k].faults

(* The real-time engine never repeats a (type, wallet, market, bucket)     *)
(* within the cooldown, although it marks the key only after the message   *)
(* and the row: late trades, failed sends and time passing between its     *)
(* steps do not matter.                                                    *)
EngineCooldown == [][Spaced({"engine"})]_vars

(* alerts.sent is never claimed for a row whose own message did not go     *)
(* out: a detector looks its row up again by a key that earlier, undelive- *)
(* red rows may share.                                                     *)
SentMeansDelivered ==
  \A n \in DOMAIN alerts : alerts[n].sent => n \in delivered
=============================================================================
