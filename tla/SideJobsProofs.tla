--------------------------- MODULE SideJobsProofs ---------------------------
(***************************************************************************)
(* Proofs about the components beside the books: trade alerts, price       *)
(* levels, the worker's checks, the digests, the price snapshots, the      *)
(* event clusters and the point-in-time scores.  They share no state; each *)
(* has its own specification, inductive invariant and theorems.  The last  *)
(* section types all of them, one by one and as the side jobs.             *)
(***************************************************************************)
EXTENDS MCSideJobs, FiniteSetTheorems, TLAPS

-----------------------------------------------------------------------------
(* Trade alerts.  Why the engine never repeats a key within the cooldown:  *)
(* unless something failed since, the key's mark outlives the cooldown of  *)
(* the last message, or the engine is still on its way from that message   *)
(* to the mark.  Why a sent row was delivered: a detector that is about to *)
(* flag a row has just delivered the last row of the table, so a row that  *)
(* is the only one of its key is that one.                                 *)

(* The control points each kind of alert has.                              *)
Stages ==
  /\ at \in {"send", "record", "flag", "mark"} => Kind # "digest"
  /\ at = "flag" => Kind \in Detectors

(* Something failed since the last message of k.                           *)
Failed(k) == faults > pings[k].faults

(* The engine has sent k's last message and not marked k yet.              *)
Pending(k) == at \in {"record", "mark"} /\ Kind = "engine" /\ DedupeKey = k

Guarded(k) == Failed(k) \/ pings[k].at + Cooldown <= expiry[k] \/ Pending(k)

MaySend(k) ==
  pings[k].count > 0 => now >= pings[k].at + Cooldown \/ Failed(k)

CoolInv ==
  /\ \A k \in Keys : pings[k].at <= now /\ pings[k].faults <= faults
  /\ \A k \in Keys : k[1] = "engine" /\ pings[k].count > 0 => Guarded(k)
  /\ \A k \in Keys : at = "send" /\ Kind = "engine" /\ DedupeKey = k => MaySend(k)

(* The row a detector works on is the last one.                            *)
SentInv ==
  /\ SentMeansDelivered
  /\ at \in {"send", "flag"} /\ Kind \in Detectors =>
       Len(alerts) > 0 /\ alerts[Len(alerts)].key = DedupeKey
  /\ at = "flag" => Len(alerts) \in delivered

AlertInv == TypeOK /\ Stages /\ CoolInv /\ SentInv

-----------------------------------------------------------------------------
(* Keys and kinds.                                                         *)

LEMMA BucketRange ==
  ASSUME NEW n \in Nat, NEW w \in Nat \ {0}
  PROVE  n \div w \in 0..n
OBVIOUS

LEMMA KindType == Kind \in Kinds
BY DEF Kind, Kinds

LEMMA KeyType ==
  ASSUME TypeOK
  PROVE  DedupeKey \in Keys /\ DedupeKey[1] = Kind
<1>1. ts \in Nat /\ ts <= MaxTime /\ Window[Kind] \in Nat \ {0}
  BY AlertAssumption, KindType DEF TypeOK
<1>2. ts \div Window[Kind] \in 0..ts
  BY <1>1, BucketRange
<1>3. ts \div Window[Kind] \in 0..MaxTime
  BY <1>1, <1>2, AlertAssumption
<1> QED
  BY <1>3, KindType DEF DedupeKey, Keys

LEMMA SameKey ==
  ASSUME UNCHANGED <<ts, todo>>
  PROVE  Kind' = Kind /\ DedupeKey' = DedupeKey
BY DEF Kind, DedupeKey

LEMMA ProceedTypes ==
  ASSUME TypeOK, Proceed
  PROVE  todo' \in SUBSET Kinds /\ at' \in {"idle", "check"}
BY DEF TypeOK, Proceed

LEMMA FaultTypes ==
  ASSUME TypeOK, UNCHANGED faults \/ Fault
  PROVE  faults' \in 0..MaxFaults
BY AlertAssumption DEF TypeOK, Fault

LEMMA PingTypes ==
  ASSUME TypeOK, NEW k \in Keys,
         pings' = [pings EXCEPT ![k] =
                     [count |-> @.count + 1, at |-> now, faults |-> faults]]
  PROVE  /\ pings' \in [Keys -> [count : Nat, at : Nat, faults : Nat]]
         /\ pings'[k].at = now /\ pings'[k].faults = faults
         /\ \A j \in Keys \ {k} : pings'[j] = pings[j]
<1>1. /\ pings \in [Keys -> [count : Nat, at : Nat, faults : Nat]]
      /\ now \in Nat /\ faults \in Nat
  BY AlertAssumption DEF TypeOK
<1>2. pings[k].count + 1 \in Nat
  BY <1>1
<1> QED
  BY <1>1, <1>2

LEMMA TableIsFunction ==
  ASSUME TypeOK
  PROVE  /\ DOMAIN alerts = 1..Len(alerts) /\ Len(alerts) \in Nat
         /\ \A n \in 1..Len(alerts) :
              alerts[n].key \in Keys /\ alerts[n].sent \in BOOLEAN
<1> DEFINE R == [key : Keys, sent : BOOLEAN]
<1>1. alerts \in Seq(R)
  BY DEF TypeOK
<1>2. \A r \in R : r.key \in Keys /\ r.sent \in BOOLEAN
  OBVIOUS
<1> HIDE DEF R
<1>3. /\ DOMAIN alerts = 1..Len(alerts) /\ Len(alerts) \in Nat
      /\ \A n \in 1..Len(alerts) : alerts[n] \in R
  BY <1>1
<1> QED
  BY <1>2, <1>3

LEMMA FunctionIsTable ==
  ASSUME NEW S, NEW n \in Nat, NEW f \in [1..n -> S]
  PROVE  f \in Seq(S)
OBVIOUS

LEMMA RowTypes ==
  ASSUME TypeOK, NEW b \in BOOLEAN,
         alerts' = Append(alerts, [key |-> DedupeKey, sent |-> b])
  PROVE  /\ alerts' \in Seq([key : Keys, sent : BOOLEAN])
         /\ Len(alerts') = Len(alerts) + 1 /\ Len(alerts) \in Nat
         /\ alerts'[Len(alerts) + 1] = [key |-> DedupeKey, sent |-> b]
         /\ \A n \in 1..Len(alerts) : alerts'[n] = alerts[n]
<1>1. /\ alerts \in Seq([key : Keys, sent : BOOLEAN])
      /\ [key |-> DedupeKey, sent |-> b] \in [key : Keys, sent : BOOLEAN]
  BY KeyType DEF TypeOK
<1> QED
  BY <1>1

-----------------------------------------------------------------------------
(* Steps of the surroundings and of the engine.                            *)

(* Whenever something fails every key counts as failed.                    *)
LEMMA FaultCools ==
  ASSUME TypeOK, CoolInv, Fault, UNCHANGED <<now, pings>>
  PROVE  CoolInv'
<1>1. /\ faults \in Nat /\ faults' = faults + 1
      /\ \A k \in Keys : pings[k].faults \in Nat
  BY AlertAssumption DEF TypeOK, Fault
<1>2. \A k \in Keys : Failed(k)' /\ pings'[k].faults <= faults'
  BY <1>1 DEF CoolInv, Failed
<1> QED
  BY <1>2 DEF CoolInv, Guarded, MaySend, Failed

(* Nothing a key's guard depends on changes but the control point, and no  *)
(* engine is left without its mark.                                        *)
LEMMA QuietCools ==
  ASSUME CoolInv, UNCHANGED <<now, pings, expiry, faults>>,
         ~(at \in {"record", "mark"} /\ Kind = "engine"),
         ~(at' = "send" /\ Kind' = "engine")
  PROVE  CoolInv'
<1>1. \A k \in Keys : Guarded(k) => Failed(k) \/ pings[k].at + Cooldown <= expiry[k]
  BY DEF Guarded, Pending
<1>2. \A k \in Keys : Guarded(k) => Guarded(k)'
  BY <1>1 DEF Guarded, Failed
<1> QED
  BY <1>2 DEF CoolInv

LEMMA ReceiveStep ==
  ASSUME AlertInv, NEW t \in 0..MaxTime, NEW kinds \in SUBSET Kinds,
         Receive(t, kinds)
  PROVE  AlertInv'
<1>1. /\ at = "idle" /\ at' = "check" /\ ts' = t /\ todo' = kinds
      /\ UNCHANGED <<now, told, expiry, alerts, delivered, pings, faults>>
  BY DEF Receive
<1>2. TypeOK'
  BY <1>1 DEF AlertInv, TypeOK
<1>3. CoolInv'
  BY <1>1, QuietCools DEF AlertInv
<1>4. Stages' /\ SentInv'
  BY <1>1 DEF AlertInv, Stages, SentInv, SentMeansDelivered
<1> QED
  BY <1>2, <1>3, <1>4 DEF AlertInv

LEMMA SurroundingsStep ==
  ASSUME AlertInv, Tick \/ RedisRestart \/ Crash
  PROVE  AlertInv'
<1>1. CASE Tick
  <2>1. /\ now < MaxTime /\ now' = now + 1
        /\ UNCHANGED <<at, ts, todo, told, expiry, alerts, delivered, pings,
                       faults>>
    BY <1>1 DEF Tick
  <2>2. TypeOK'
    BY <2>1, AlertAssumption DEF AlertInv, TypeOK
  <2>3. Kind' = Kind /\ DedupeKey' = DedupeKey
    BY <2>1, SameKey
  <2>4. \A k \in Keys : /\ pings[k].at \in Nat /\ now \in Nat
                         /\ pings'[k] = pings[k] /\ Cooldown \in Nat
    BY <2>1, AlertAssumption DEF AlertInv, TypeOK
  <2>5. CoolInv'
    <3> SUFFICES ASSUME NEW k \in Keys
                 PROVE  /\ pings'[k].at <= now' /\ pings'[k].faults <= faults'
                        /\ k[1] = "engine" /\ pings'[k].count > 0 => Guarded(k)'
                        /\ at' = "send" /\ Kind' = "engine" /\ DedupeKey' = k
                             => MaySend(k)'
      BY DEF CoolInv
    <3>1. (Failed(k) <=> Failed(k)') /\ (Pending(k) <=> Pending(k)')
      BY <2>1, <2>3 DEF Failed, Pending
    <3>2. Guarded(k) => Guarded(k)'
      BY <2>1, <3>1 DEF Guarded
    <3>3. MaySend(k) => MaySend(k)'
      BY <2>1, <2>4, <3>1 DEF MaySend
    <3>4. /\ pings[k].at <= now /\ pings[k].faults <= faults
          /\ k[1] = "engine" /\ pings[k].count > 0 => Guarded(k)
          /\ at = "send" /\ Kind = "engine" /\ DedupeKey = k => MaySend(k)
      BY DEF AlertInv, CoolInv
    <3>5. pings'[k].at <= now' /\ pings'[k].faults <= faults'
      BY <2>1, <2>4, <3>4
    <3> QED
      BY <2>1, <2>3, <3>2, <3>3, <3>4, <3>5
  <2>7. Stages' /\ SentInv'
    BY <2>1, <2>3 DEF AlertInv, Stages, SentInv, SentMeansDelivered
  <2> QED
    BY <2>2, <2>5, <2>7 DEF AlertInv
<1>2. CASE RedisRestart
  <2>1. /\ Fault /\ expiry' = [k \in Keys |-> 0]
        /\ UNCHANGED <<now, at, ts, todo, told, alerts, delivered, pings>>
    BY <1>2 DEF RedisRestart
  <2>2. TypeOK'
    BY <2>1, AlertAssumption DEF AlertInv, TypeOK, Fault
  <2>3. CoolInv'
    BY <2>1, FaultCools DEF AlertInv
  <2>4. Kind' = Kind /\ DedupeKey' = DedupeKey
    BY <2>1, SameKey
  <2>5. Stages' /\ SentInv'
    BY <2>1, <2>4 DEF AlertInv, Stages, SentInv, SentMeansDelivered
  <2> QED
    BY <2>2, <2>3, <2>5 DEF AlertInv
<1>3. CASE Crash
  <2>1. /\ Fault /\ at' = "idle" /\ todo' = {}
        /\ UNCHANGED <<now, ts, told, expiry, alerts, delivered, pings>>
    BY <1>3 DEF Crash
  <2>2. TypeOK'
    BY <2>1, AlertAssumption DEF AlertInv, TypeOK, Fault
  <2>3. CoolInv'
    BY <2>1, FaultCools DEF AlertInv
  <2>4. Stages' /\ SentInv'
    BY <2>1 DEF AlertInv, Stages, SentInv, SentMeansDelivered
  <2> QED
    BY <2>2, <2>3, <2>4 DEF AlertInv
<1> QED
  BY <1>1, <1>2, <1>3

-----------------------------------------------------------------------------
(* The steps of an alert.                                                  *)

LEMMA CheckStep == ASSUME AlertInv, Check PROVE AlertInv'
<1>1. /\ at = "check" /\ Kind # "digest" /\ told' = FALSE
      /\ UNCHANGED <<now, ts, expiry, alerts, delivered, pings>>
  BY DEF Check
<1>2. CASE Marked(DedupeKey) /\ Proceed /\ UNCHANGED faults
  <2>1. todo' \in SUBSET Kinds /\ at' \in {"idle", "check"}
    BY <1>2, ProceedTypes DEF AlertInv
  <2>2. TypeOK'
    BY <1>1, <1>2, <2>1 DEF AlertInv, TypeOK
  <2>3. CoolInv'
    BY <1>1, <1>2, <2>1, QuietCools DEF AlertInv
  <2>4. Stages' /\ SentInv'
    BY <1>1, <2>1 DEF AlertInv, Stages, SentInv, SentMeansDelivered
  <2> QED
    BY <2>2, <2>3, <2>4 DEF AlertInv
<1>3. CASE /\ (~Marked(DedupeKey) /\ UNCHANGED faults) \/ Fault
           /\ at' = IF Kind \in Detectors THEN "record" ELSE "send"
           /\ UNCHANGED todo
  <2>1. Kind' = Kind /\ DedupeKey' = DedupeKey /\ at' \in {"record", "send"}
    BY <1>1, <1>3, SameKey
  <2>2. Kind \notin Detectors => Kind = "engine"
    BY <1>1, KindType DEF Kinds, Detectors
  <2>3. TypeOK'
    <3>1. faults' \in 0..MaxFaults
      BY <1>3, FaultTypes DEF AlertInv
    <3> QED
      BY <1>1, <1>3, <2>1, <3>1 DEF AlertInv, TypeOK
  <2>4. CoolInv'
    <3>1. CASE Fault
      BY <1>1, <3>1, FaultCools DEF AlertInv
    <3>2. CASE ~Marked(DedupeKey) /\ UNCHANGED faults
      <4> SUFFICES ASSUME NEW k \in Keys
                   PROVE  /\ pings'[k].at <= now' /\ pings'[k].faults <= faults'
                          /\ k[1] = "engine" /\ pings'[k].count > 0 => Guarded(k)'
                          /\ at' = "send" /\ Kind' = "engine" /\ DedupeKey' = k
                               => MaySend(k)'
        BY DEF CoolInv
      <4>1. /\ pings[k].at <= now /\ pings[k].faults <= faults
            /\ k[1] = "engine" /\ pings[k].count > 0 =>
                 Failed(k) \/ pings[k].at + Cooldown <= expiry[k]
        BY <1>1 DEF AlertInv, CoolInv, Guarded, Pending
      <4>2. Failed(k) <=> Failed(k)'
        BY <1>1, <3>2 DEF Failed
      <4>3. k[1] = "engine" /\ pings'[k].count > 0 => Guarded(k)'
        BY <1>1, <4>1, <4>2 DEF Guarded
      <4>4. ASSUME at' = "send", Kind' = "engine", DedupeKey' = k
            PROVE  MaySend(k)'
        <5>1. k[1] = "engine" /\ ~(now < expiry[k])
          BY <2>1, <3>2, <4>4, KeyType DEF Marked, AlertInv
        <5>2. /\ now \in Nat /\ expiry[k] \in Nat /\ pings[k].at \in Nat
              /\ Cooldown \in Nat
          BY AlertAssumption DEF AlertInv, TypeOK
        <5>3. pings[k].count > 0 => now >= pings[k].at + Cooldown \/ Failed(k)
          BY <4>1, <5>1, <5>2
        <5> QED
          BY <1>1, <4>2, <5>3 DEF MaySend
      <4> QED
        BY <1>1, <3>2, <4>1, <4>3, <4>4
    <3> QED
      BY <1>3, <3>1, <3>2
  <2>5. Stages'
    BY <1>1, <2>1 DEF Stages
  <2>6. SentInv'
    <3>1. ~(at' \in {"send", "flag"} /\ Kind' \in Detectors) /\ at' # "flag"
      BY <1>3, <2>1
    <3> QED
      BY <1>1, <3>1 DEF AlertInv, SentInv, SentMeansDelivered
  <2> QED
    BY <2>3, <2>4, <2>5, <2>6 DEF AlertInv
<1> QED
  BY <1>2, <1>3 DEF Check

LEMMA SendStep == ASSUME AlertInv, NEW ok \in BOOLEAN, Send(ok) PROVE AlertInv'
<1>1. /\ at = "send" /\ told' = ok
      /\ at' = IF Kind = "engine" THEN "record" ELSE IF ok THEN "flag" ELSE "mark"
      /\ UNCHANGED <<now, ts, todo, expiry, alerts, faults>>
  BY DEF Send
<1>2. /\ pings' \in [Keys -> [count : Nat, at : Nat, faults : Nat]]
      /\ \/ UNCHANGED pings
         \/ /\ pings'[DedupeKey].at = now /\ pings'[DedupeKey].faults = faults
            /\ \A j \in Keys \ {DedupeKey} : pings'[j] = pings[j]
  BY PingTypes, KeyType DEF Send, AlertInv, TypeOK
<1>3. /\ delivered' = IF ok /\ Kind \in Detectors
                      THEN delivered \cup {Len(alerts)} ELSE delivered
      /\ Len(alerts) \in Nat
  BY DEF Send, AlertInv, TypeOK
<1>4. TypeOK'
  BY <1>1, <1>2, <1>3 DEF AlertInv, TypeOK
<1>5. Kind' = Kind /\ DedupeKey' = DedupeKey
  BY <1>1, SameKey
<1>6. Kind # "digest" /\ (Kind # "engine" => Kind \in Detectors)
  BY <1>1, KindType DEF AlertInv, Stages, Kinds, Detectors
<1>7. CoolInv'
  <2> SUFFICES ASSUME NEW k \in Keys
               PROVE  /\ pings'[k].at <= now' /\ pings'[k].faults <= faults'
                      /\ k[1] = "engine" /\ pings'[k].count > 0 => Guarded(k)'
    BY <1>1 DEF CoolInv
  <2>1. /\ pings[k].at <= now /\ pings[k].faults <= faults
        /\ k[1] = "engine" /\ pings[k].count > 0 =>
             Failed(k) \/ pings[k].at + Cooldown <= expiry[k]
    BY <1>1 DEF AlertInv, CoolInv, Guarded, Pending
  <2>2. CASE pings'[k] = pings[k]
    <3>1. Failed(k) => Failed(k)'
      BY <1>1, <2>2 DEF Failed
    <3> QED
      BY <1>1, <2>1, <2>2, <3>1 DEF Guarded
  <2>3. CASE pings'[k] # pings[k]
    <3>1. k = DedupeKey /\ pings'[k].at = now /\ pings'[k].faults = faults
      BY <1>2, <2>3
    <3>2. now <= now /\ faults <= faults
      BY AlertAssumption DEF AlertInv, TypeOK
    <3>3. k[1] = "engine" => Pending(k)'
      BY <1>1, <1>5, <3>1, KeyType DEF Pending, AlertInv
    <3> QED
      BY <1>1, <3>1, <3>2, <3>3 DEF Guarded
  <2> QED
    BY <2>2, <2>3
<1>8. Stages'
  BY <1>1, <1>5, <1>6 DEF Stages
<1>9. SentInv'
  <2>1. SentMeansDelivered'
    BY <1>1, <1>3 DEF AlertInv, SentInv, SentMeansDelivered
  <2>2. at' = "flag" => Kind \in Detectors /\ Len(alerts) \in delivered'
    BY <1>1, <1>3, <1>6
  <2>3. Kind \in Detectors =>
          Len(alerts) > 0 /\ alerts[Len(alerts)].key = DedupeKey
    BY <1>1 DEF AlertInv, SentInv
  <2> QED
    BY <1>1, <1>5, <2>1, <2>2, <2>3 DEF SentInv
<1> QED
  BY <1>4, <1>7, <1>8, <1>9 DEF AlertInv

LEMMA RecordFindingStep == ASSUME AlertInv, RecordFinding PROVE AlertInv'
<1>1. /\ at = "record" /\ Kind \in Detectors /\ Kind # "engine"
      /\ UNCHANGED <<now, ts, told, expiry, delivered, pings>>
  BY DEF RecordFinding, Detectors
<1>2. CASE /\ alerts' = Append(alerts, [key |-> DedupeKey, sent |-> FALSE])
           /\ at' = "send"
           /\ UNCHANGED <<todo, faults>>
  <2>1. Kind' = Kind /\ DedupeKey' = DedupeKey
    BY <1>1, <1>2, SameKey
  <2>2. /\ alerts' \in Seq([key : Keys, sent : BOOLEAN])
        /\ Len(alerts') = Len(alerts) + 1 /\ Len(alerts) \in Nat
        /\ alerts'[Len(alerts) + 1] = [key |-> DedupeKey, sent |-> FALSE]
        /\ \A n \in 1..Len(alerts) : alerts'[n] = alerts[n]
    BY <1>2, RowTypes DEF AlertInv
  <2>3. TypeOK'
    BY <1>1, <1>2, <2>2 DEF AlertInv, TypeOK
  <2>4. CoolInv'
    BY <1>1, <1>2, <2>1, QuietCools DEF AlertInv
  <2>5. Stages'
    BY <1>1, <1>2, <2>1 DEF AlertInv, Stages
  <2>6. SentMeansDelivered'
    <3>1. DOMAIN alerts = 1..Len(alerts) /\ DOMAIN alerts' = 1..(Len(alerts) + 1)
      BY <2>2 DEF AlertInv, TypeOK
    <3> QED
      BY <1>1, <2>2, <3>1 DEF AlertInv, SentInv, SentMeansDelivered
  <2>7. SentInv'
    <3>1. Len(alerts') > 0 /\ alerts'[Len(alerts')].key = DedupeKey'
      BY <2>1, <2>2
    <3> QED
      BY <1>2, <2>6, <3>1 DEF SentInv
  <2> QED
    BY <2>3, <2>4, <2>5, <2>7 DEF AlertInv
<1>3. CASE Fault /\ Proceed /\ UNCHANGED alerts
  <2>1. todo' \in SUBSET Kinds /\ at' \in {"idle", "check"}
    BY <1>3, ProceedTypes DEF AlertInv
  <2>2. faults' \in 0..MaxFaults
    BY <1>3, FaultTypes DEF AlertInv
  <2>3. TypeOK'
    BY <1>1, <1>3, <2>1, <2>2 DEF AlertInv, TypeOK
  <2>4. CoolInv'
    BY <1>1, <1>3, FaultCools DEF AlertInv
  <2>5. Stages' /\ SentInv'
    BY <1>1, <1>3, <2>1 DEF AlertInv, Stages, SentInv, SentMeansDelivered
  <2> QED
    BY <2>3, <2>4, <2>5 DEF AlertInv
<1> QED
  BY <1>2, <1>3 DEF RecordFinding

LEMMA RecordAlertStep == ASSUME AlertInv, RecordAlert PROVE AlertInv'
<1>1. /\ at = "record" /\ Kind = "engine" /\ at' = "mark"
      /\ UNCHANGED <<now, ts, todo, told, expiry, pings>>
  BY DEF RecordAlert
<1>2. Kind' = Kind /\ DedupeKey' = DedupeKey
  BY <1>1, SameKey
<1>3. Stages'
  BY <1>1, <1>2 DEF Stages
<1>4. CASE /\ alerts' = Append(alerts, [key |-> DedupeKey, sent |-> told])
           /\ delivered' = IF told THEN delivered \cup {Len(alerts) + 1}
                           ELSE delivered
           /\ UNCHANGED faults
  <2>1. /\ alerts' \in Seq([key : Keys, sent : BOOLEAN])
        /\ Len(alerts') = Len(alerts) + 1 /\ Len(alerts) \in Nat
        /\ alerts'[Len(alerts) + 1] = [key |-> DedupeKey, sent |-> told]
        /\ \A n \in 1..Len(alerts) : alerts'[n] = alerts[n]
    BY <1>4, RowTypes DEF AlertInv, TypeOK
  <2>2. TypeOK'
    <3>1. delivered \in SUBSET Nat /\ Len(alerts) + 1 \in Nat
      BY <2>1 DEF AlertInv, TypeOK
    <3>2. delivered' \in SUBSET Nat
      <4>1. CASE told
        BY <1>4, <3>1, <4>1
      <4>2. CASE ~told
        BY <1>4, <3>1, <4>2
      <4> QED
        BY <4>1, <4>2
    <3>3. /\ now' \in 0..MaxTime /\ ts' \in 0..MaxTime /\ todo' \in SUBSET Kinds
          /\ told' \in BOOLEAN /\ expiry' \in [Keys -> Nat]
          /\ pings' \in [Keys -> [count : Nat, at : Nat, faults : Nat]]
          /\ faults' \in 0..MaxFaults
      BY <1>1, <1>4 DEF AlertInv, TypeOK
    <3> QED
      BY <1>1, <2>1, <3>2, <3>3 DEF TypeOK
  <2>3. CoolInv'
    <3> SUFFICES ASSUME NEW k \in Keys
                 PROVE  /\ pings'[k].at <= now' /\ pings'[k].faults <= faults'
                        /\ k[1] = "engine" /\ pings'[k].count > 0 => Guarded(k)'
      BY <1>1 DEF CoolInv
    <3>1. /\ pings[k].at <= now /\ pings[k].faults <= faults
          /\ k[1] = "engine" /\ pings[k].count > 0 => Guarded(k)
      BY DEF AlertInv, CoolInv
    <3>2. Failed(k) => Failed(k)'
      BY <1>1, <1>4 DEF Failed
    <3>3. Pending(k) => Pending(k)'
      BY <1>1, <1>2 DEF Pending
    <3> QED
      BY <1>1, <1>4, <3>1, <3>2, <3>3 DEF Guarded
  <2>4. SentInv'
    <3>1. DOMAIN alerts = 1..Len(alerts) /\ DOMAIN alerts' = 1..(Len(alerts) + 1)
      BY <2>1 DEF AlertInv, TypeOK
    <3>2. SentMeansDelivered'
      BY <1>4, <2>1, <3>1 DEF AlertInv, SentInv, SentMeansDelivered
    <3> QED
      BY <1>1, <3>2 DEF SentInv
  <2> QED
    BY <1>3, <2>2, <2>3, <2>4 DEF AlertInv
<1>5. CASE Fault /\ UNCHANGED <<alerts, delivered>>
  <2>1. faults' \in 0..MaxFaults
    BY <1>5, FaultTypes DEF AlertInv
  <2>2. TypeOK'
    BY <1>1, <1>5, <2>1 DEF AlertInv, TypeOK
  <2>3. CoolInv'
    BY <1>1, <1>5, FaultCools DEF AlertInv
  <2>4. SentInv'
    BY <1>1, <1>5 DEF AlertInv, SentInv, SentMeansDelivered
  <2> QED
    BY <1>3, <2>2, <2>3, <2>4 DEF AlertInv
<1> QED
  BY <1>4, <1>5 DEF RecordAlert

LEMMA RecordDigestStep == ASSUME AlertInv, RecordDigest PROVE AlertInv'
<1>1. /\ at = "check" /\ Kind = "digest" /\ Proceed
      /\ UNCHANGED <<now, ts, told, expiry, delivered, pings>>
  BY DEF RecordDigest
<1>2. todo' \in SUBSET Kinds /\ at' \in {"idle", "check"}
  BY <1>1, ProceedTypes DEF AlertInv
<1>3. CASE /\ alerts' = Append(alerts, [key |-> DedupeKey, sent |-> FALSE])
           /\ UNCHANGED faults
  <2>1. /\ alerts' \in Seq([key : Keys, sent : BOOLEAN])
        /\ Len(alerts') = Len(alerts) + 1 /\ Len(alerts) \in Nat
        /\ alerts'[Len(alerts) + 1] = [key |-> DedupeKey, sent |-> FALSE]
        /\ \A n \in 1..Len(alerts) : alerts'[n] = alerts[n]
    BY <1>3, RowTypes DEF AlertInv
  <2>2. TypeOK'
    BY <1>1, <1>2, <1>3, <2>1 DEF AlertInv, TypeOK
  <2>3. CoolInv'
    BY <1>1, <1>2, <1>3, QuietCools DEF AlertInv
  <2>4. Stages' /\ SentInv'
    <3>1. DOMAIN alerts = 1..Len(alerts) /\ DOMAIN alerts' = 1..(Len(alerts) + 1)
      BY <2>1 DEF AlertInv, TypeOK
    <3>2. SentMeansDelivered'
      BY <1>1, <2>1, <3>1 DEF AlertInv, SentInv, SentMeansDelivered
    <3> QED
      BY <1>2, <3>2 DEF SentInv, Stages
  <2> QED
    BY <2>2, <2>3, <2>4 DEF AlertInv
<1>4. CASE Fault /\ UNCHANGED alerts
  <2>1. faults' \in 0..MaxFaults
    BY <1>4, FaultTypes DEF AlertInv
  <2>2. TypeOK'
    BY <1>1, <1>2, <1>4, <2>1 DEF AlertInv, TypeOK
  <2>3. CoolInv'
    BY <1>1, <1>4, FaultCools DEF AlertInv
  <2>4. Stages' /\ SentInv'
    BY <1>1, <1>2, <1>4 DEF AlertInv, Stages, SentInv, SentMeansDelivered
  <2> QED
    BY <2>2, <2>3, <2>4 DEF AlertInv
<1> QED
  BY <1>3, <1>4 DEF RecordDigest

(* A row that is the only one of its key is the one just delivered.        *)
LEMMA OnlyRow ==
  ASSUME AlertInv, at = "flag", NEW n \in Flagged(DedupeKey)
  PROVE  n \in delivered
<1>1. /\ Len(alerts) \in delivered /\ Len(alerts) \in Nat
      /\ Len(alerts) > 0 /\ alerts[Len(alerts)].key = DedupeKey
      /\ DOMAIN alerts = 1..Len(alerts)
  BY DEF AlertInv, TypeOK, SentInv, Stages
<1>2. Len(alerts) \in RowsOf(DedupeKey) /\ RowsOf(DedupeKey) \subseteq 1..Len(alerts)
  BY <1>1 DEF RowsOf
<1>3. IsFiniteSet(RowsOf(DedupeKey))
  <2>1. 1 \in Int /\ Len(alerts) \in Int
    BY <1>1
  <2>2. IsFiniteSet(1..Len(alerts))
    BY <2>1, FS_Interval
  <2> QED
    BY <1>2, <2>2, FS_Subset
<1>4. Cardinality(RowsOf(DedupeKey)) = 1 /\ n \in RowsOf(DedupeKey)
  BY DEF Flagged
<1>5. n = Len(alerts)
  <2>1. PICK x : RowsOf(DedupeKey) = {x}
    BY <1>3, <1>4, FS_Singleton
  <2> QED
    BY <1>2, <1>4, <2>1
<1> QED
  BY <1>1, <1>5

LEMMA FlagStep == ASSUME AlertInv, Flag PROVE AlertInv'
<1>1. /\ at = "flag" /\ Kind \in Detectors /\ Kind # "engine"
      /\ UNCHANGED <<now, ts, told, expiry, delivered, pings>>
  BY DEF Flag, AlertInv, Stages, Detectors
<1>2. CASE /\ alerts' = [n \in DOMAIN alerts |->
                           [key |-> alerts[n].key,
                            sent |-> alerts[n].sent \/ n \in Flagged(DedupeKey)]]
           /\ at' = "mark"
           /\ UNCHANGED <<todo, faults>>
  <2>1. Kind' = Kind /\ DedupeKey' = DedupeKey
    BY <1>1, <1>2, SameKey
  <2>2. /\ DOMAIN alerts = 1..Len(alerts) /\ Len(alerts) \in Nat
        /\ \A n \in 1..Len(alerts) :
             alerts[n].key \in Keys /\ alerts[n].sent \in BOOLEAN
    BY TableIsFunction DEF AlertInv
  <2>3. alerts' \in Seq([key : Keys, sent : BOOLEAN])
    <3>1. \A n \in 1..Len(alerts) :
            (alerts[n].sent \/ n \in Flagged(DedupeKey)) \in BOOLEAN
      BY Zenon
    <3>2. \A n \in 1..Len(alerts) :
            [key |-> alerts[n].key,
             sent |-> alerts[n].sent \/ n \in Flagged(DedupeKey)]
              \in [key : Keys, sent : BOOLEAN]
      BY <2>2, <3>1, Zenon
    <3>3. alerts' \in [1..Len(alerts) -> [key : Keys, sent : BOOLEAN]]
      BY <1>2, <2>2, <3>2, Zenon
    <3> QED
      BY <2>2, <3>3, FunctionIsTable
  <2>4. TypeOK'
    BY <1>1, <1>2, <2>3 DEF AlertInv, TypeOK
  <2>5. CoolInv'
    BY <1>1, <1>2, <2>1, QuietCools DEF AlertInv
  <2>6. Stages'
    BY <1>1, <1>2, <2>1 DEF Stages, Detectors
  <2>7. SentMeansDelivered'
    <3> SUFFICES ASSUME NEW n \in DOMAIN alerts', alerts'[n].sent
                 PROVE  n \in delivered'
      BY DEF SentMeansDelivered
    <3>1. n \in DOMAIN alerts /\ (alerts[n].sent \/ n \in Flagged(DedupeKey))
      BY <1>2
    <3>2. alerts[n].sent => n \in delivered
      BY <3>1 DEF AlertInv, SentInv, SentMeansDelivered
    <3>3. n \in Flagged(DedupeKey) => n \in delivered
      BY <1>1, OnlyRow
    <3> QED
      BY <1>1, <3>1, <3>2, <3>3
  <2>8. SentInv'
    BY <1>2, <2>7 DEF SentInv
  <2> QED
    BY <2>4, <2>5, <2>6, <2>8 DEF AlertInv
<1>3. CASE (UNCHANGED faults \/ Fault) /\ Proceed /\ UNCHANGED alerts
  <2>1. todo' \in SUBSET Kinds /\ at' \in {"idle", "check"}
    BY <1>3, ProceedTypes DEF AlertInv
  <2>2. faults' \in 0..MaxFaults
    BY <1>3, FaultTypes DEF AlertInv
  <2>3. TypeOK'
    BY <1>1, <1>3, <2>1, <2>2 DEF AlertInv, TypeOK
  <2>4. CoolInv'
    <3>1. CASE Fault
      BY <1>1, <3>1, FaultCools DEF AlertInv
    <3>2. CASE UNCHANGED faults
      BY <1>1, <2>1, <3>2, QuietCools DEF AlertInv
    <3> QED
      BY <1>3, <3>1, <3>2
  <2>5. Stages' /\ SentInv'
    BY <1>1, <1>3, <2>1 DEF AlertInv, Stages, SentInv, SentMeansDelivered
  <2> QED
    BY <2>3, <2>4, <2>5 DEF AlertInv
<1> QED
  BY <1>2, <1>3 DEF Flag

LEMMA MarkStep == ASSUME AlertInv, Mark PROVE AlertInv'
<1>1. /\ at = "mark" /\ Proceed
      /\ UNCHANGED <<now, ts, told, alerts, delivered, pings>>
  BY DEF Mark
<1>2. todo' \in SUBSET Kinds /\ at' \in {"idle", "check"}
  BY <1>1, ProceedTypes DEF AlertInv
<1>3. Stages' /\ SentInv'
  BY <1>1, <1>2 DEF AlertInv, Stages, SentInv, SentMeansDelivered
<1>4. CASE /\ expiry' = [expiry EXCEPT ![DedupeKey] = MarkEnds]
           /\ UNCHANGED faults
  <2>1. /\ now \in Nat /\ Cooldown \in Nat /\ expiry \in [Keys -> Nat]
        /\ \A k \in Keys : pings[k].at \in Nat
    BY AlertAssumption DEF AlertInv, TypeOK
  <2>2. /\ expiry' \in [Keys -> Nat]
        /\ expiry'[DedupeKey] = now + Cooldown
        /\ \A k \in Keys \ {DedupeKey} : expiry'[k] = expiry[k]
    BY <1>4, <2>1, KeyType DEF MarkEnds, AlertInv
  <2>3. TypeOK'
    BY <1>1, <1>2, <1>4, <2>2 DEF AlertInv, TypeOK
  <2>4. CoolInv'
    <3> SUFFICES ASSUME NEW k \in Keys
                 PROVE  /\ pings'[k].at <= now' /\ pings'[k].faults <= faults'
                        /\ k[1] = "engine" /\ pings'[k].count > 0 => Guarded(k)'
      BY <1>2 DEF CoolInv
    <3>1. /\ pings[k].at <= now /\ pings[k].faults <= faults
          /\ k[1] = "engine" /\ pings[k].count > 0 => Guarded(k)
      BY DEF AlertInv, CoolInv
    <3>2. CASE k = DedupeKey
      <4>1. pings'[k].at + Cooldown <= expiry'[k]
        BY <1>1, <2>1, <2>2, <3>1, <3>2
      <4> QED
        BY <1>1, <1>4, <3>1, <4>1 DEF Guarded
    <3>3. CASE k # DedupeKey
      <4>1. ~Pending(k) /\ expiry'[k] = expiry[k]
        BY <2>2, <3>3 DEF Pending
      <4>2. Failed(k) => Failed(k)'
        BY <1>1, <1>4 DEF Failed
      <4> QED
        BY <1>1, <1>4, <3>1, <4>1, <4>2 DEF Guarded
    <3> QED
      BY <3>2, <3>3
  <2> QED
    BY <1>3, <2>3, <2>4 DEF AlertInv
<1>5. CASE Fault /\ UNCHANGED expiry
  <2>1. faults' \in 0..MaxFaults
    BY <1>5, FaultTypes DEF AlertInv
  <2>2. TypeOK'
    BY <1>1, <1>2, <1>5, <2>1 DEF AlertInv, TypeOK
  <2>3. CoolInv'
    BY <1>1, <1>5, FaultCools DEF AlertInv
  <2> QED
    BY <1>3, <2>2, <2>3 DEF AlertInv
<1> QED
  BY <1>4, <1>5 DEF Mark

-----------------------------------------------------------------------------
LEMMA InitAlert == Init => AlertInv
<1> SUFFICES ASSUME Init PROVE AlertInv
  OBVIOUS
<1>1. expiry \in [Keys -> Nat]
  BY DEF Init
<1>2. /\ pings \in [Keys -> [count : Nat, at : Nat, faults : Nat]]
      /\ \A k \in Keys : pings[k] = [count |-> 0, at |-> 0, faults |-> 0]
  BY DEF Init
<1>3. alerts \in Seq([key : Keys, sent : BOOLEAN]) /\ DOMAIN alerts = {}
  BY DEF Init
<1>4. TypeOK
  <2>1. now \in 0..MaxTime /\ ts \in 0..MaxTime /\ faults \in 0..MaxFaults
    BY AlertAssumption DEF Init
  <2>2. /\ at \in {"idle", "check", "send", "record", "flag", "mark"}
        /\ todo \in SUBSET Kinds /\ told \in BOOLEAN /\ delivered \in SUBSET Nat
    BY DEF Init
  <2> QED
    BY <1>1, <1>2, <1>3, <2>1, <2>2 DEF TypeOK
<1>5. CoolInv
  BY <1>2 DEF Init, CoolInv
<1>6. Stages /\ SentInv
  BY <1>3 DEF Init, Stages, SentInv, SentMeansDelivered
<1> QED
  BY <1>4, <1>5, <1>6 DEF AlertInv

LEMMA AlertStep == AlertInv /\ [Next]_vars => AlertInv'
<1> SUFFICES ASSUME AlertInv, [Next]_vars PROVE AlertInv'
  OBVIOUS
<1>1. CASE Next
  BY <1>1, ReceiveStep, CheckStep, SendStep, RecordFindingStep,
     RecordAlertStep, RecordDigestStep, FlagStep, MarkStep, SurroundingsStep
     DEF Next
<1>2. CASE UNCHANGED vars
  <2>1. /\ Kind' = Kind /\ DedupeKey' = DedupeKey
        /\ UNCHANGED <<now, at, ts, todo, told, expiry, alerts, delivered,
                       pings, faults>>
    BY <1>2, SameKey DEF vars
  <2>2. TypeOK'
    BY <2>1 DEF AlertInv, TypeOK
  <2>3. Stages' /\ SentInv'
    BY <2>1 DEF AlertInv, Stages, SentInv, SentMeansDelivered
  <2>4. CoolInv'
    BY <2>1 DEF AlertInv, CoolInv, Guarded, Failed, Pending, MaySend
  <2> QED
    BY <2>2, <2>3, <2>4 DEF AlertInv
<1> QED
  BY <1>1, <1>2

LEMMA AlertInvariant == Spec => []AlertInv
BY InitAlert, AlertStep, PTL DEF Spec

(* Type correctness for every choice of windows, cooldown and bounds.      *)
THEOREM AlertTypes == Spec => []TypeOK
<1>1. AlertInv => TypeOK
  BY DEF AlertInv
<1> QED
  BY <1>1, AlertInvariant, PTL

(* A row is flagged as sent only if its own message went out, although the *)
(* detectors find it by a key that is not unique (clustering.py, unwind.py *)
(* and _persist_alert).                                                    *)
THEOREM SentIsDelivered == Spec => []SentMeansDelivered
<1>1. AlertInv => SentMeansDelivered
  BY DEF AlertInv, SentInv
<1> QED
  BY <1>1, AlertInvariant, PTL

(* Without a failure in between, two messages of one engine key are a      *)
(* cooldown apart (AlertEngine._process_inner).                            *)
THEOREM EngineKeepsCooldown == Spec => EngineCooldown
<1>1. AlertInv /\ [Next]_vars => [Spaced({"engine"})]_vars
  <2> SUFFICES ASSUME AlertInv, Next, NEW k \in Keys, k[1] = "engine",
                      pings[k].count > 0, pings'[k].count > pings[k].count
               PROVE  now >= pings[k].at + Cooldown \/ faults > pings[k].faults
    BY DEF Spaced
  <2>1. pings'[k] # pings[k]
    BY DEF AlertInv, TypeOK
  <2>2. PICK ok \in BOOLEAN : Send(ok)
    BY <2>1 DEF Next, Receive, Check, RecordFinding, RecordAlert, RecordDigest,
                Flag, Mark, Tick, RedisRestart, Crash
  <2>3. k = DedupeKey /\ at = "send"
    BY <2>1, <2>2, PingTypes, KeyType DEF Send, AlertInv
  <2>4. Kind = "engine"
    BY <2>3, KeyType DEF AlertInv
  <2> QED
    BY <2>3, <2>4 DEF AlertInv, CoolInv, MaySend, Failed
<1> QED
  BY <1>1, AlertInvariant, PTL DEF Spec, EngineCooldown

-----------------------------------------------------------------------------
(* Price levels: a row remembers its last message, unless a commit failed. *)

LevelTypes ==
  /\ row \in [Rows -> [set : BOOLEAN, last : Prices \cup {NoPrice}, fired : 0..Old]]
  /\ said \in [Rows -> [age : 0..Old, kept : BOOLEAN, back : BOOLEAN]]
  /\ \A r \in Rows : ~row[r].set => row[r] = NoLevel
  /\ spoken \subseteq Rows

(* A row remembers its last message: it fired no earlier than that, and    *)
(* while its last price is on the near side such a price came since.       *)
Remembered ==
  \A r \in Rows : row[r].set /\ said[r].kept =>
    /\ row[r].fired <= said[r].age
    /\ (row[r].last # NoPrice /\ ~Satisfied(r, row[r].last)) => said[r].back

LevelInv == LevelTypes /\ Remembered

LEMMA OldNat == Old \in Nat /\ LevelCooldown \in Nat /\ LevelLag \in Nat /\ LevelLag <= Old
BY LevelsAssumption DEF Old

LEMMA LevelsStart == LevelsInit => LevelInv
BY OldNat DEF LevelsInit, LevelInv, LevelTypes, Remembered, NoLevel, Silent

(* What a print leaves of the messages, whether its commit succeeds.       *)
LEMMA SaidAfter ==
  ASSUME LevelInv, NEW price \in Prices, NEW lag \in 0..LevelLag, NEW kept \in BOOLEAN,
         Remembers(price, lag, kept)
  PROVE  /\ said' \in [Rows -> [age : 0..Old, kept : BOOLEAN, back : BOOLEAN]]
         /\ spoken' \subseteq Rows
<1>1. lag \in 0..Old
  BY OldNat
<1>2. \A r \in Rows : (said[r].back \/ ~Satisfied(r, price)) \in BOOLEAN
  OBVIOUS
<1>3. \A r \in Rows : [said[r] EXCEPT !.back = @ \/ ~Satisfied(r, price)]
                        \in [age : 0..Old, kept : BOOLEAN, back : BOOLEAN]
  BY <1>2 DEF LevelInv, LevelTypes
<1> QED
  BY <1>1, <1>3 DEF Remembers

LEMMA PrintsStep ==
  ASSUME LevelInv, NEW price \in Prices, NEW lag \in 0..LevelLag, Prints(price, lag)
  PROVE  LevelInv'
<1>1. /\ said' \in [Rows -> [age : 0..Old, kept : BOOLEAN, back : BOOLEAN]]
      /\ spoken' \subseteq Rows
  BY SaidAfter DEF Prints
<1>2. lag \in 0..Old
  BY OldNat
<1>3. row' \in [Rows -> [set : BOOLEAN, last : Prices \cup {NoPrice}, fired : 0..Old]]
  BY <1>2 DEF Prints, Observed, LevelInv, LevelTypes
<1>4. ASSUME NEW r \in Rows, ~row'[r].set PROVE row'[r] = NoLevel
  <2>1. row'[r] = Observed(r, price, lag)
    BY DEF Prints
  <2>2. row[r].set = FALSE
    BY <1>4, <2>1 DEF Observed, LevelInv, LevelTypes
  <2>3. row[r] = NoLevel
    BY <2>2 DEF LevelInv, LevelTypes
  <2> QED
    BY <2>1, <2>2, <2>3 DEF Observed, Crosses, NoLevel
<1>5. ASSUME NEW r \in Rows, row'[r].set, said'[r].kept
      PROVE  /\ row'[r].fired <= said'[r].age
             /\ (row'[r].last # NoPrice /\ ~Satisfied(r, row'[r].last)) => said'[r].back
  <2>1. /\ row'[r] = Observed(r, price, lag)
        /\ said'[r] = IF Crosses(r, price, lag)
                      THEN [age |-> lag, kept |-> TRUE, back |-> FALSE]
                      ELSE [said[r] EXCEPT !.back = @ \/ ~Satisfied(r, price)]
        /\ row[r] \in [set : BOOLEAN, last : Prices \cup {NoPrice}, fired : 0..Old]
        /\ said[r] \in [age : 0..Old, kept : BOOLEAN, back : BOOLEAN]
    BY DEF Prints, Remembers, LevelInv, LevelTypes
  <2>2. row[r].set /\ row'[r].last = price
    BY <1>5, <2>1 DEF Observed
  <2>3. CASE Crosses(r, price, lag)
    BY <2>1, <2>2, <2>3, <1>2 DEF Observed, Crosses
  <2>4. CASE ~Crosses(r, price, lag)
    <3>1. said[r].kept /\ said'[r].age = said[r].age /\ row'[r].fired = row[r].fired
      BY <1>5, <2>1, <2>4 DEF Observed
    <3>2. said'[r].back = (said[r].back \/ ~Satisfied(r, price))
      BY <2>1, <2>4
    <3> QED
      BY <2>2, <3>1, <3>2 DEF LevelInv, Remembered
  <2> QED
    BY <2>3, <2>4
<1> QED
  BY <1>1, <1>3, <1>4, <1>5 DEF LevelInv, LevelTypes, Remembered

LEMMA PrintFailsStep ==
  ASSUME LevelInv, NEW price \in Prices, NEW lag \in 0..LevelLag, NEW gone \in SUBSET Rows,
         PrintFails(price, lag, gone)
  PROVE  LevelInv'
<1>1. /\ said' \in [Rows -> [age : 0..Old, kept : BOOLEAN, back : BOOLEAN]]
      /\ spoken' \subseteq Rows
  BY SaidAfter DEF PrintFails
<1>2. NoLevel \in [set : BOOLEAN, last : Prices \cup {NoPrice}, fired : 0..Old]
  BY OldNat DEF NoLevel
<1>3. /\ row' \in [Rows -> [set : BOOLEAN, last : Prices \cup {NoPrice}, fired : 0..Old]]
      /\ \A r \in Rows : row'[r] \in {NoLevel, row[r]}
  BY <1>2 DEF PrintFails, LevelInv, LevelTypes
<1>4. \A r \in Rows : ~row'[r].set => row'[r] = NoLevel
  BY <1>3 DEF LevelInv, LevelTypes
<1>5. ASSUME NEW r \in Rows, row'[r].set, said'[r].kept
      PROVE  /\ row'[r].fired <= said'[r].age
             /\ (row'[r].last # NoPrice /\ ~Satisfied(r, row'[r].last)) => said'[r].back
  <2>1. /\ said'[r] = IF Crosses(r, price, lag)
                      THEN [age |-> lag, kept |-> FALSE, back |-> FALSE]
                      ELSE [said[r] EXCEPT !.back = @ \/ ~Satisfied(r, price)]
        /\ said[r] \in [age : 0..Old, kept : BOOLEAN, back : BOOLEAN]
    BY DEF PrintFails, Remembers, LevelInv, LevelTypes
  <2>2. row'[r] = row[r]
    BY <1>3, <1>5 DEF NoLevel
  <2>3. /\ ~Crosses(r, price, lag) /\ said[r].kept /\ said'[r].age = said[r].age
        /\ said[r].back => said'[r].back
    BY <1>5, <2>1
  <2> QED
    BY <1>5, <2>2, <2>3 DEF LevelInv, Remembered
<1> QED
  BY <1>1, <1>3, <1>4, <1>5 DEF LevelInv, LevelTypes, Remembered

LEMMA TickStep == ASSUME LevelInv, LevelsTick PROVE LevelInv'
<1>1. \A n \in 0..Old : Aged(n) \in 0..Old
  BY OldNat DEF Aged
<1>2. \A m, n \in 0..Old : m <= n => Aged(m) <= Aged(n)
  BY OldNat DEF Aged
<1>3. \A r \in Rows :
        /\ row[r] \in [set : BOOLEAN, last : Prices \cup {NoPrice}, fired : 0..Old]
        /\ said[r] \in [age : 0..Old, kept : BOOLEAN, back : BOOLEAN]
        /\ row'[r] = [row[r] EXCEPT !.fired = Aged(row[r].fired)]
        /\ said'[r] = [said[r] EXCEPT !.age = Aged(said[r].age)]
  BY DEF LevelsTick, LevelInv, LevelTypes
<1>4. /\ row' \in [Rows -> [set : BOOLEAN, last : Prices \cup {NoPrice}, fired : 0..Old]]
      /\ said' \in [Rows -> [age : 0..Old, kept : BOOLEAN, back : BOOLEAN]]
      /\ spoken' = {}
  BY <1>1, <1>3 DEF LevelsTick
<1>5. ASSUME NEW r \in Rows, ~row'[r].set PROVE row'[r] = NoLevel
  <2>1. row[r] = NoLevel
    BY <1>3, <1>5 DEF LevelInv, LevelTypes
  <2>2. Aged(Old) = Old
    BY OldNat DEF Aged
  <2>3. row[r].fired = Old
    BY <2>1 DEF NoLevel
  <2>4. row'[r] = [set |-> row[r].set, last |-> row[r].last, fired |-> Old]
    BY <1>3, <2>2, <2>3
  <2> QED
    BY <2>1, <2>4 DEF NoLevel
<1>6. ASSUME NEW r \in Rows, row'[r].set, said'[r].kept
      PROVE  /\ row'[r].fired <= said'[r].age
             /\ (row'[r].last # NoPrice /\ ~Satisfied(r, row'[r].last)) => said'[r].back
  <2>1. /\ row'[r].set = row[r].set /\ row'[r].last = row[r].last
        /\ row'[r].fired = Aged(row[r].fired)
    BY <1>3
  <2>2. /\ said'[r].kept = said[r].kept /\ said'[r].back = said[r].back
        /\ said'[r].age = Aged(said[r].age)
    BY <1>3
  <2>3. row[r].fired \in 0..Old /\ said[r].age \in 0..Old
    BY <1>3
  <2>4. row[r].set /\ said[r].kept
    BY <1>6, <2>1, <2>2
  <2>5. /\ row[r].fired <= said[r].age
        /\ (row[r].last # NoPrice /\ ~Satisfied(r, row[r].last)) => said[r].back
    BY <2>4 DEF LevelInv, Remembered
  <2>6. Aged(row[r].fired) <= Aged(said[r].age)
    BY <1>2, <2>3, <2>5
  <2> QED
    BY <2>1, <2>2, <2>5, <2>6
<1>7. Remembered'
  BY <1>6 DEF Remembered, Satisfied
<1> QED
  BY <1>4, <1>5, <1>7 DEF LevelInv, LevelTypes

LEMMA LevelStep == LevelInv /\ [LevelsNext]_levelVars => LevelInv'
<1> SUFFICES ASSUME LevelInv, [LevelsNext]_levelVars PROVE LevelInv'
  OBVIOUS
<1>1. CASE \E price \in Prices, lag \in 0..LevelLag : Prints(price, lag)
  BY <1>1, PrintsStep
<1>2. CASE \E price \in Prices, lag \in 0..LevelLag :
             \E gone \in SUBSET {r \in Rows : row[r].set} : PrintFails(price, lag, gone)
  BY <1>2, PrintFailsStep
<1>3. CASE \E r \in Rows : CreateLevel(r)
  <2> PICK r \in Rows : CreateLevel(r)
    BY <1>3
  <2>1. row[r] = NoLevel /\ Silent \in [age : 0..Old, kept : BOOLEAN, back : BOOLEAN]
    BY OldNat DEF CreateLevel, LevelInv, LevelTypes, Silent
  <2>2. LevelTypes'
    BY <2>1 DEF CreateLevel, LevelInv, LevelTypes
  <2>3. Remembered'
    BY <2>1, OldNat DEF CreateLevel, LevelInv, LevelTypes, Remembered, Silent, NoLevel, Satisfied
  <2> QED
    BY <2>2, <2>3 DEF LevelInv
<1>4. CASE \E r \in Rows : DeleteLevel(r)
  <2> PICK r \in Rows : DeleteLevel(r)
    BY <1>4
  <2>1. NoLevel \in [set : BOOLEAN, last : Prices \cup {NoPrice}, fired : 0..Old]
    BY OldNat DEF NoLevel
  <2>2. LevelTypes'
    BY <2>1 DEF DeleteLevel, LevelInv, LevelTypes
  <2>3. \A q \in Rows : row'[q] \in {NoLevel, row[q]} /\ said'[q] = said[q]
    BY DEF DeleteLevel, LevelInv, LevelTypes
  <2>4. ~NoLevel.set
    BY DEF NoLevel
  <2>5. Remembered'
    BY <2>3, <2>4 DEF LevelInv, Remembered, Satisfied
  <2> QED
    BY <2>2, <2>5 DEF LevelInv
<1>5. CASE LevelsTick
  BY <1>5, TickStep
<1>6. CASE UNCHANGED levelVars
  BY <1>6 DEF levelVars, LevelInv, LevelTypes, Remembered, Satisfied
<1> QED
  BY <1>1, <1>2, <1>3, <1>4, <1>5, <1>6 DEF LevelsNext

LEMMA MessageApart ==
  ASSUME LevelInv, LevelsNext, NEW r \in spoken', said[r].kept
  PROVE  said[r].age - said'[r].age >= LevelCooldown /\ said[r].back
<1>1. PICK price \in Prices, lag \in 0..LevelLag, kept \in BOOLEAN : Remembers(price, lag, kept)
  BY DEF LevelsNext, Prints, PrintFails, CreateLevel, DeleteLevel, LevelsTick
<1>2. r \in Rows /\ Crosses(r, price, lag) /\ said'[r].age = lag
  BY <1>1 DEF Remembers
<1>3. /\ row[r] \in [set : BOOLEAN, last : Prices \cup {NoPrice}, fired : 0..Old]
      /\ said[r] \in [age : 0..Old, kept : BOOLEAN, back : BOOLEAN]
  BY <1>2 DEF LevelInv, LevelTypes
<1> QED
  BY <1>2, <1>3, OldNat DEF LevelInv, Remembered, Crosses

(* For any levels, prices, lag and cooldown: one message per crossing.     *)
THEOREM CrossingsToldOnce == LevelsSpec => OneMessagePerCrossing
<1>1. LevelInv /\ [LevelsNext]_levelVars
      => [\A r \in spoken' :
            said[r].kept => /\ said[r].age - said'[r].age >= LevelCooldown
                            /\ said[r].back]_levelVars
  BY MessageApart
<1> QED
  BY <1>1, LevelsStart, LevelStep, PTL DEF LevelsSpec, OneMessagePerCrossing

-----------------------------------------------------------------------------
(* Checks: the silence and the time to the next run fit into the intervals *)
(* of the runs dropped.                                                    *)

CheckTypes ==
  /\ due \in [Checks -> Nat] /\ misses \in [Checks -> 0..MaxMisses]
  /\ unheard \in [Checks -> Nat]
  /\ \A s \in Sources : silence[s] \in 0..Limit[s]

(* The silence so far and the time to the next run fit into the intervals  *)
(* of the runs dropped since the last one.                                 *)
Patience ==
  \A c \in Checks : /\ due[c] <= Every[c]
                    /\ unheard[c] + due[c] <= Every[c] * (misses[c] + 1)

ChecksInv == CheckTypes /\ Patience

LEMMA EveryTimes ==
  ASSUME NEW e \in Nat, NEW n \in Nat
  PROVE  /\ e * (n + 1) \in Nat /\ e <= e * (n + 1)
         /\ e * ((n + 1) + 1) = e * (n + 1) + e
         /\ e * (0 + 1) = e
OBVIOUS

LEMMA TimesGrows ==
  ASSUME NEW e \in Nat, NEW n \in Nat, NEW m \in Nat, n <= m
  PROVE  e * (n + 1) <= e * (m + 1)
<1>1. PICK k \in Nat : m = n + k
  BY m - n \in Nat
<1>2. e * (m + 1) = e * (n + 1) + e * k /\ e * k \in Nat /\ e * (n + 1) \in Nat
  BY <1>1
<1> QED
  BY <1>2

LEMMA ChecksStart == ChecksInit => ChecksInv
BY ChecksAssumption, EveryTimes DEF ChecksInit, ChecksInv, CheckTypes, Patience, Fresh, Checks

(* What Observe leaves of the clock it is given.                           *)
LEMMA HeardAfter ==
  ASSUME NEW hours \in [Checks -> Nat], Observe(hours)
  PROVE  /\ unheard' \in [Checks -> Nat]
         /\ \A c \in Checks : unheard'[c] \in {0, hours[c]}
         /\ \A c \in Checks : Hearable(c)' \/ unheard'[c] = 0
<1>1. \A c \in Checks : unheard'[c] = IF Hearable(c)' THEN hours[c] ELSE 0
  BY DEF Observe
<1>2. unheard' = [c \in Checks |-> unheard'[c]]
  BY DEF Observe
<1> QED
  BY <1>1, <1>2

LEMMA ChecksStep == ASSUME ChecksInv, [ChecksNext]_checkVars PROVE ChecksInv'
<1>1. /\ MaxMisses \in Nat
      /\ \A c \in Checks : Every[c] \in Nat /\ Every[c] > 0
      /\ \A s \in Sources : Limit[s] \in Nat /\ Limit[s] > 0
      /\ Fresh \in [Checks -> Nat] /\ \A c \in Checks : Fresh[c] = 0
  BY ChecksAssumption DEF Fresh
<1>2. CASE StartWorker
  <2>1. unheard' \in [Checks -> Nat] /\ \A c \in Checks : unheard'[c] = 0
    BY <1>1, <1>2, HeardAfter DEF StartWorker
  <2>2. \A c \in Checks : due'[c] \in Nat /\ due'[c] <= Every[c] /\ misses'[c] = 0
    BY <1>1, <1>2 DEF StartWorker, NextRun
  <2>3. CheckTypes'
    BY <1>1, <1>2, <2>1, <2>2 DEF StartWorker, ChecksInv, CheckTypes, NextRun, Fresh
  <2> QED
    BY <1>1, <2>1, <2>2, <2>3, EveryTimes DEF ChecksInv, Patience
<1>3. CASE StopWorker
  <2>1. unheard' \in [Checks -> Nat] /\ \A c \in Checks : unheard'[c] = 0
    BY <1>1, <1>3, HeardAfter DEF StopWorker
  <2> QED
    BY <1>1, <1>3, <2>1 DEF StopWorker, ChecksInv, CheckTypes, Patience
<1>4. CASE BacklogChanges \/ (\E s \in Sources : Moves(s)) \/ \E t \in Troubles : TroubleChanges(t)
  <2>1. /\ Observe(unheard) /\ UNCHANGED <<due, misses>>
        /\ \A s \in Sources : silence'[s] \in {silence[s], 0}
    <3>1. CASE BacklogChanges
      BY <3>1 DEF BacklogChanges
    <3>2. CASE \E s \in Sources : Moves(s)
      BY <3>2 DEF Moves
    <3>3. CASE \E t \in Troubles : TroubleChanges(t)
      BY <3>3 DEF TroubleChanges
    <3> QED
      BY <1>4, <3>1, <3>2, <3>3
  <2>2. /\ unheard' \in [Checks -> Nat]
        /\ \A c \in Checks : unheard'[c] \in {0, unheard[c]}
    BY <2>1, HeardAfter DEF ChecksInv, CheckTypes
  <2> QED
    BY <1>1, <2>1, <2>2 DEF ChecksInv, CheckTypes, Patience
<1>5. CASE \E c \in Checks : RunCheck(c)
  <2> PICK c \in Checks : RunCheck(c)
    BY <1>5
  <2>1. /\ due' = [due EXCEPT ![c] = Every[c]] /\ misses' = [misses EXCEPT ![c] = 0]
        /\ UNCHANGED <<worker, silence, backlog, broken>>
    BY DEF RunCheck, NextRun
  <2>2. CheckTypes'
    <3>1. Observe([unheard EXCEPT ![c] = 0]) \/ Observe(unheard)
      BY DEF RunCheck
    <3>2. unheard \in [Checks -> Nat] /\ [unheard EXCEPT ![c] = 0] \in [Checks -> Nat]
      BY DEF ChecksInv, CheckTypes
    <3>3. unheard' \in [Checks -> Nat]
      BY <3>1, <3>2, HeardAfter
    <3>4. due' \in [Checks -> Nat] /\ misses' \in [Checks -> 0..MaxMisses]
      BY <1>1, <2>1 DEF ChecksInv, CheckTypes
    <3> QED
      BY <2>1, <3>3, <3>4 DEF ChecksInv, CheckTypes
  <2>3. unheard'[c] = 0
    <3>1. CASE Severity(c) = "CRIT"
      <4>1. Observe([unheard EXCEPT ![c] = 0])
        BY <3>1 DEF RunCheck
      <4>2. /\ [unheard EXCEPT ![c] = 0] \in [Checks -> Nat]
            /\ [unheard EXCEPT ![c] = 0][c] = 0
        BY DEF ChecksInv, CheckTypes
      <4>3. unheard'[c] \in {0, [unheard EXCEPT ![c] = 0][c]}
        BY <4>1, <4>2, HeardAfter
      <4> QED
        BY <4>2, <4>3
    <3>2. CASE Severity(c) # "CRIT"
      <4>1. ~Wrong(c)
        <5>1. CASE c = "freshness"
          BY <1>1, <3>2, <5>1 DEF Severity, Wrong, FreshnessSeverity, SilentSource
        <5>2. CASE c = "consistency"
          BY <3>2, <5>2 DEF Severity, Wrong, ConsistencySeverity
        <5>3. CASE c = "canary"
          BY <3>2, <5>3 DEF Severity, Wrong, CanarySeverity
        <5> QED
          BY <5>1, <5>2, <5>3 DEF Checks
      <4>2. ~Hearable(c)'
        BY <2>1, <4>1 DEF Hearable, Wrong
      <4>3. Observe(unheard)
        BY <3>2 DEF RunCheck
      <4> QED
        BY <4>2, <4>3, HeardAfter DEF ChecksInv, CheckTypes
    <3> QED
      BY <3>1, <3>2
  <2>4. \A d \in Checks \ {c} : unheard'[d] \in {0, unheard[d]}
    <3>1. Observe([unheard EXCEPT ![c] = 0]) \/ Observe(unheard)
      BY DEF RunCheck
    <3>2. /\ unheard \in [Checks -> Nat] /\ [unheard EXCEPT ![c] = 0] \in [Checks -> Nat]
          /\ \A d \in Checks \ {c} : [unheard EXCEPT ![c] = 0][d] = unheard[d]
      BY DEF ChecksInv, CheckTypes
    <3>3. CASE Observe(unheard)
      BY <3>2, <3>3, HeardAfter
    <3>4. CASE Observe([unheard EXCEPT ![c] = 0])
      <4>1. \A d \in Checks : unheard'[d] \in {0, [unheard EXCEPT ![c] = 0][d]}
        BY <3>2, <3>4, HeardAfter
      <4> QED
        BY <3>2, <4>1
    <3> QED
      BY <3>1, <3>3, <3>4
  <2> QED
    BY <1>1, <2>1, <2>2, <2>3, <2>4, EveryTimes DEF ChecksInv, CheckTypes, Patience
<1>6. CASE \E c \in Checks : Misfire(c)
  <2> PICK c \in Checks : Misfire(c)
    BY <1>6
  <2>1. /\ due[c] = 0 /\ misses[c] < MaxMisses
        /\ due' = [due EXCEPT ![c] = Every[c]] /\ misses' = [misses EXCEPT ![c] = @ + 1]
        /\ UNCHANGED silence /\ Observe(unheard)
    BY DEF Misfire, NextRun
  <2>2. /\ unheard' \in [Checks -> Nat]
        /\ \A d \in Checks : unheard'[d] \in {0, unheard[d]}
    BY <2>1, HeardAfter DEF ChecksInv, CheckTypes
  <2>3. CheckTypes'
    <3>1. misses[c] + 1 \in 0..MaxMisses
      BY <1>1, <2>1 DEF ChecksInv, CheckTypes
    <3>2. due' \in [Checks -> Nat] /\ misses' \in [Checks -> 0..MaxMisses]
      BY <1>1, <2>1, <3>1 DEF ChecksInv, CheckTypes
    <3> QED
      BY <2>1, <2>2, <3>2 DEF ChecksInv, CheckTypes
  <2>4. ASSUME NEW d \in Checks
        PROVE  due'[d] <= Every[d] /\ unheard'[d] + due'[d] <= Every[d] * (misses'[d] + 1)
    <3>1. CASE d = c
      <4>1. due'[c] = Every[c] /\ misses'[c] = misses[c] + 1 /\ misses[c] \in Nat /\ Every[c] \in Nat
        BY <1>1, <2>1 DEF ChecksInv, CheckTypes
      <4>2. Every[c] * (misses'[c] + 1) = Every[c] * (misses[c] + 1) + Every[c]
        BY <4>1, EveryTimes
      <4>3. unheard[c] \in Nat /\ unheard[c] <= Every[c] * (misses[c] + 1)
        BY <2>1 DEF ChecksInv, CheckTypes, Patience
      <4>4. unheard'[c] \in Nat /\ unheard'[c] <= unheard[c]
        BY <2>2, <4>3
      <4>5. Every[c] * (misses[c] + 1) \in Nat
        BY <4>1, EveryTimes
      <4> QED
        BY <3>1, <4>1, <4>2, <4>3, <4>4, <4>5
    <3>2. CASE d # c
      BY <1>1, <2>1, <2>2, <3>2 DEF ChecksInv, CheckTypes, Patience
    <3> QED
      BY <3>1, <3>2
  <2> QED
    BY <2>1, <2>3, <2>4 DEF ChecksInv, Patience
<1>7. CASE Hour
  <2>1. [c \in Checks |-> IF Hearable(c) THEN unheard[c] + 1 ELSE 0] \in [Checks -> Nat]
    BY DEF ChecksInv, CheckTypes
  <2>2. /\ unheard' \in [Checks -> Nat]
        /\ \A c \in Checks : unheard'[c] \in {0, IF Hearable(c) THEN unheard[c] + 1 ELSE 0}
    BY <1>7, <2>1, HeardAfter DEF Hour
  <2>3. CASE worker = "up"
    <3>1. \A c \in Checks : due[c] > 0 /\ due'[c] = due[c] - 1 /\ due'[c] \in Nat
      BY <1>7, <2>3 DEF Hour, ChecksInv, CheckTypes
    <3>2. CheckTypes'
      BY <1>1, <1>7, <2>2, <2>3, <3>1 DEF Hour, ChecksInv, CheckTypes
    <3> QED
      BY <1>1, <1>7, <2>2, <3>1, <3>2 DEF Hour, ChecksInv, CheckTypes, Patience
  <2>4. CASE worker # "up"
    <3>1. \A c \in Checks : unheard'[c] = 0
      BY <2>2, <2>4 DEF Hearable
    <3>2. CheckTypes'
      BY <1>1, <1>7, <2>2, <2>4 DEF Hour, ChecksInv, CheckTypes
    <3> QED
      BY <1>1, <1>7, <2>4, <3>1, <3>2 DEF Hour, ChecksInv, CheckTypes, Patience
  <2> QED
    BY <2>3, <2>4
<1>8. CASE UNCHANGED checkVars
  BY <1>8 DEF checkVars, ChecksInv, CheckTypes, Patience
<1> QED
  BY <1>2, <1>3, <1>4, <1>5, <1>6, <1>7, <1>8 DEF ChecksNext

(* What lasts is paged within one interval and one for each dropped run,   *)
(* for any intervals, limits and number of dropped runs.                   *)
THEOREM TroubleIsPaged == ChecksSpec => []PagedInTime
<1>1. ChecksInv => PagedInTime
  <2> SUFFICES ASSUME ChecksInv, NEW c \in Checks
               PROVE  unheard[c] <= Every[c] * (MaxMisses + 1)
    BY DEF PagedInTime
  <2>1. /\ MaxMisses \in Nat /\ Every[c] \in Nat /\ misses[c] \in Nat /\ misses[c] <= MaxMisses
        /\ unheard[c] \in Nat /\ due[c] \in Nat
    BY ChecksAssumption DEF ChecksInv, CheckTypes
  <2>2. unheard[c] <= Every[c] * (misses[c] + 1) /\ Every[c] * (misses[c] + 1) \in Nat
    BY <2>1, EveryTimes DEF ChecksInv, Patience
  <2>3. Every[c] * (misses[c] + 1) <= Every[c] * (MaxMisses + 1)
    BY <2>1, TimesGrows
  <2>4. Every[c] * (MaxMisses + 1) \in Nat
    BY <2>1, EveryTimes
  <2> QED
    BY <2>1, <2>2, <2>3, <2>4
<1> QED
  BY <1>1, ChecksStart, ChecksStep, PTL DEF ChecksSpec

-----------------------------------------------------------------------------
(* Digests: what waits has not been sent; the time of day tells which      *)
(* digests have counted an alert.                                          *)

(* What waits in the list or in the batch has been in no digest; what is   *)
(* about to be sent has left the list.                                     *)
Unsent ==
  \A w \in Warnings :
    /\ digests[w] <= 1
    /\ w \notin raised \/ w \in queue => digests[w] = 0
    /\ flush.next # "none" /\ w \in flush.batch => digests[w] = 0
    /\ flush.next = "send" /\ w \in flush.batch => w \notin queue

(* Today's wallet digest is yet to start or to read.                       *)
Ahead == "wallet" \in cron \/ window # NotYet

(* An alert is of today, of yesterday or older, and of each kind it is     *)
(* known which digests have read it: none before today's SELECT ...        *)
OfToday(a) ==
  /\ born[a] <= hour /\ age[a] = hour - born[a]
  /\ counted[a] <= 1
  /\ Ahead \/ born[a] > Grace + Longest => counted[a] = 0

(* ... yesterday's perhaps and today's for certain, if neither was late ...*)
OfYesterday(a) ==
  /\ \/ age[a] = Day + hour - born[a]
     \/ age[a] > Day + Longest /\ Day + hour - born[a] > Day + Longest
  /\ counted[a] <= 2
  /\ Ahead => counted[a] <= 1
  /\ born[a] > Grace + Longest => counted[a] <= 1
  /\ born[a] > Grace + Longest /\ Ahead => counted[a] = 0
  /\ born[a] >= Grace /\ born[a] + AlertLag < Day /\ ~Ahead
       => counted[a] >= 1 \/ a \in skipped

(* ... and no further one.                                                 *)
OfBefore(a) ==
  /\ age[a] > Day + hour \/ age[a] > Day + Longest
  /\ counted[a] <= 2
  /\ born[a] > Grace + Longest => counted[a] <= 1
  /\ born[a] >= Grace /\ born[a] + AlertLag < Day => counted[a] >= 1 \/ a \in skipped

Tiled(a) ==
  IF Created(a)
  THEN /\ age[a] \in Nat /\ born[a] \in 0..(Day - 1)
       /\ OfToday(a) \/ OfYesterday(a) \/ OfBefore(a)
  ELSE counted[a] = 0

(* A digest that runs has started within the grace time.                   *)
Timely ==
  /\ "wallet" \in cron => hour <= Grace /\ window = NotYet
  /\ window # NotYet => /\ window \in 0..Longest
                        /\ window <= hour /\ hour <= Grace + window

WarnPart ==
  /\ queue \subseteq raised /\ raised \subseteq Warnings
  /\ flush \in [next : {"none", "delete", "send"}, batch : SUBSET raised]
  /\ digests \in [Warnings -> Nat]
  /\ Unsent

WalletPart ==
  /\ hour \in 0..(Day - 1) /\ cron \subseteq Daily
  /\ age \in [Alerts -> Nat \cup {NotYet}]
  /\ born \in [Alerts -> 0..(Day - 1) \cup {NotYet}]
  /\ counted \in [Alerts -> Nat]
  /\ Timely
  /\ \A a \in Alerts : Tiled(a)

DigestInv == WarnPart /\ WalletPart

LEMMA Times ==
  /\ Day \in Nat /\ Grace \in Nat /\ Longest \in Nat /\ AlertLag \in Nat
  /\ Grace + Longest < Day /\ AlertLag < Day
  /\ \A n \in Nat : n # NotYet
BY DigestAssumption

LEMMA DigestStart == DigestInit => DigestInv
BY Times
DEF DigestInit, DigestInv, WarnPart, WalletPart, Unsent, Timely, Tiled, NoFlush, Created, Daily

(* What leaves the warnings alone keeps their part of the invariant.       *)
LEMMA WarnRests == WarnPart /\ UNCHANGED warnVars => WarnPart'
BY DEF WarnPart, Unsent, warnVars

LEMMA WalletRests ==
  WalletPart /\ UNCHANGED <<hour, walletVars>> /\ cron' \subseteq cron
  /\ ("wallet" \in cron => "wallet" \in cron') => WalletPart'
BY DEF WalletPart, Timely, Tiled, Created, OfToday, OfYesterday, OfBefore, Ahead, walletVars

LEMMA FlushOver == WarnPart /\ flush' = NoFlush /\ queue' \subseteq queue
                   /\ UNCHANGED <<raised, digests>> => WarnPart'
BY DEF WarnPart, Unsent, NoFlush

LEMMA WarningsStep ==
  ASSUME WarnPart, [DigestNext]_digestVars PROVE WarnPart'
<1>1. CASE \E w \in Warnings : Warn(w)
  BY <1>1 DEF Warn, WarnPart, Unsent
<1>2. CASE FlushRead
  <2>1. CASE flush' = NoFlush
    BY <1>2, <2>1, FlushOver DEF FlushRead
  <2>2. CASE flush' = Then("read", queue)
    <3>1. flush' = [next |-> "delete", batch |-> queue]
      BY <2>2 DEF Then, After
    <3> QED
      BY <1>2, <3>1 DEF FlushRead, WarnPart, Unsent
  <2> QED
    BY <1>2, <2>1, <2>2 DEF FlushRead
<1>3. CASE FlushDelete
  <2>1. CASE flush' = NoFlush
    BY <1>3, <2>1, FlushOver DEF FlushDelete
  <2>2. CASE queue' = {} /\ flush' = Then("delete", flush.batch)
    <3>1. flush' = [next |-> "send", batch |-> flush.batch]
      BY <2>2 DEF Then, After
    <3> QED
      BY <1>3, <2>2, <3>1 DEF FlushDelete, WarnPart, Unsent
  <2> QED
    BY <1>3, <2>1, <2>2 DEF FlushDelete
<1>4. CASE FlushSend
  <2>1. flush' = NoFlush
    BY <1>4 DEF FlushSend, Then, After
  <2>2. CASE digests' = digests
    BY <1>4, <2>1, <2>2, FlushOver DEF FlushSend
  <2>3. CASE digests' = [w \in Warnings |-> IF w \in flush.batch
                                            THEN digests[w] + 1 ELSE digests[w]]
    <3>1. \A w \in Warnings : w \in flush.batch => digests[w] = 0 /\ w \notin queue /\ w \in raised
      BY <1>4 DEF FlushSend, WarnPart, Unsent
    <3>2. digests' \in [Warnings -> Nat]
      BY <2>3 DEF WarnPart
    <3> QED
      BY <1>4, <2>1, <2>3, <3>1, <3>2 DEF FlushSend, WarnPart, Unsent, NoFlush
  <2> QED
    BY <1>4, <2>2, <2>3 DEF FlushSend
<1>5. CASE Dies
  BY <1>5, FlushOver DEF Dies
<1>6. CASE \/ \E a \in Alerts, n \in 0..AlertLag : NewAlert(a, n)
           \/ \E job_1 \in Daily : Misfired(job_1)
           \/ WalletStart \/ WalletSelect \/ WalletFails
           \/ Restarts \/ RedisChanges \/ NextHour \/ UNCHANGED digestVars
  <2>1. UNCHANGED warnVars
    BY <1>6
    DEF NewAlert, Misfired, WalletStart, WalletSelect, WalletFails, Restarts, RedisChanges,
        NextHour, digestVars
  <2> QED
    BY <2>1, WarnRests
<1> QED
  BY <1>1, <1>2, <1>3, <1>4, <1>5, <1>6 DEF DigestNext

(* An alert is placed today or, if its transaction began before the last   *)
(* hour 0, yesterday, where no digest was sure to see it.                  *)
LEMMA NewAlertStep ==
  ASSUME WalletPart, NEW a \in Alerts, NEW n \in 0..AlertLag, NewAlert(a, n)
  PROVE  WalletPart'
<1>1. /\ age' = [age EXCEPT ![a] = n]
      /\ born' = [born EXCEPT ![a] = IF n <= hour THEN hour - n ELSE Day + hour - n]
      /\ UNCHANGED <<hour, cron, window, counted, skipped>> /\ ~Created(a)
  BY DEF NewAlert
<1>2. n \in Nat /\ n <= AlertLag /\ n < Day /\ hour \in Nat /\ hour < Day
  BY Times DEF WalletPart
<1>3. age'[a] = n /\ born'[a] = IF n <= hour THEN hour - n ELSE Day + hour - n
  BY <1>1 DEF WalletPart
<1>4. born'[a] \in 0..(Day - 1)
  BY <1>2, <1>3, Times
<1>5. /\ age' \in [Alerts -> Nat \cup {NotYet}]
      /\ born' \in [Alerts -> 0..(Day - 1) \cup {NotYet}]
  BY <1>1, <1>2, <1>3, <1>4 DEF WalletPart
<1>6. Timely' /\ (Ahead' <=> Ahead)
  BY <1>1 DEF WalletPart, Timely, Ahead
<1>7. Tiled(a)'
  <2>1. counted'[a] = 0
    BY <1>1 DEF WalletPart, Tiled
  <2>2. Created(a)'
    BY <1>2, <1>3, Times DEF Created
  <2>3. CASE n <= hour
    BY <1>1, <1>2, <1>3, <1>4, <2>1, <2>2, <2>3, Times DEF Tiled, OfToday
  <2>4. CASE n > hour
    <3>1. born'[a] = Day + hour - n /\ age'[a] = Day + hour' - born'[a]
      BY <1>1, <1>2, <1>3, <2>4, Times
    <3>2. ~(born'[a] + AlertLag < Day)
      BY <1>2, <3>1, Times
    <3>3. OfYesterday(a)'
      BY <2>1, <3>1, <3>2 DEF OfYesterday
    <3> QED
      BY <1>2, <1>3, <1>4, <2>2, <3>3 DEF Tiled
  <2> QED
    BY <1>2, <2>3, <2>4
<1>8. ASSUME NEW b \in Alerts \ {a} PROVE Tiled(b)'
  <2>1. age'[b] = age[b] /\ born'[b] = born[b]
    BY <1>1 DEF WalletPart
  <2> QED
    BY <1>1, <1>6, <2>1 DEF WalletPart, Tiled, Created, OfToday, OfYesterday, OfBefore
<1> QED
  BY <1>1, <1>5, <1>6, <1>7, <1>8 DEF WalletPart

LEMMA StartStep == ASSUME WalletPart, WalletStart PROVE WalletPart'
<1>1. /\ "wallet" \in cron /\ cron' \subseteq cron /\ window' = 0
      /\ UNCHANGED <<hour, age, born, counted, skipped>>
      /\ "wallet" \notin cron'
  BY DEF WalletStart
<1>2. Ahead /\ Ahead' /\ 0 # NotYet
  BY <1>1, Times DEF Ahead
<1>3. Timely'
  BY <1>1, <1>2, Times DEF Timely, WalletPart
<1>4. ASSUME NEW a \in Alerts PROVE Tiled(a)'
  BY <1>1, <1>2 DEF WalletPart, Tiled, Created, OfToday, OfYesterday, OfBefore
<1> QED
  BY <1>1, <1>3, <1>4 DEF WalletPart

(* The SELECT reaches everything of yesterday but the first Grace ticks,   *)
(* and nothing older.                                                      *)
LEMMA SelectStep == ASSUME WalletPart, WalletSelect PROVE WalletPart'
<1>1. /\ window # NotYet /\ window' = NotYet
      /\ UNCHANGED <<hour, cron, age, born, skipped>>
      /\ counted' = [a \in Alerts |-> IF Recent(a) THEN counted[a] + 1 ELSE counted[a]]
  BY DEF WalletSelect
<1>2. /\ window \in Nat /\ window <= Longest /\ window <= hour /\ hour <= Grace + window
      /\ "wallet" \notin cron /\ hour \in Nat
  BY <1>1 DEF Timely, WalletPart
<1>3. Ahead /\ ~Ahead'
  BY <1>1, <1>2 DEF Ahead
<1>4. counted' \in [Alerts -> Nat]
  BY <1>1 DEF WalletPart
<1>5. ASSUME NEW a \in Alerts PROVE Tiled(a)'
  <2>1. /\ age'[a] = age[a] /\ born'[a] = born[a] /\ (Created(a)' <=> Created(a))
        /\ counted'[a] = IF Recent(a) THEN counted[a] + 1 ELSE counted[a]
        /\ counted[a] \in Nat
    BY <1>1 DEF Created, WalletPart
  <2>2. CASE ~Created(a)
    BY <2>1, <2>2 DEF Recent, Tiled, WalletPart
  <2>3. CASE Created(a)
    <3>1. age[a] \in Nat /\ born[a] \in Nat /\ born[a] < Day
      BY <2>3, Times DEF Tiled, WalletPart
    <3>2. Recent(a) <=> age[a] <= Day + window
      BY <2>3 DEF Recent
    <3>3. CASE OfToday(a)
      <4>1. counted[a] = 0 /\ counted'[a] <= 1
        BY <1>3, <2>1, <3>3 DEF OfToday
      <4>2. ~(born[a] > Grace + Longest)
        BY <1>2, <3>1, <3>3, Times DEF OfToday
      <4>3. OfToday(a)'
        BY <1>1, <1>3, <2>1, <3>3, <4>1, <4>2 DEF OfToday
      <4> QED
        BY <2>1, <2>3, <4>3, <1>1 DEF Tiled, WalletPart
    <3>4. CASE OfYesterday(a)
      <4>1. counted[a] <= 1 /\ counted'[a] <= 2
        BY <1>3, <2>1, <3>4 DEF OfYesterday
      <4>2. born[a] > Grace + Longest => counted'[a] <= 1
        BY <1>3, <2>1, <3>4 DEF OfYesterday
      <4>3. born[a] >= Grace => counted'[a] >= 1
        <5> SUFFICES ASSUME born[a] >= Grace PROVE Recent(a)
          BY <2>1
        <5>1. Day + hour - born[a] <= Day + window
          BY <1>2, <3>1, Times
        <5>2. age[a] = Day + hour - born[a]
          BY <1>2, <3>1, <3>4, <5>1, Times DEF OfYesterday
        <5> QED
          BY <3>2, <5>1, <5>2
      <4>4. OfYesterday(a)'
        BY <1>1, <1>3, <2>1, <3>4, <4>1, <4>2, <4>3 DEF OfYesterday
      <4> QED
        BY <2>1, <2>3, <4>4, <1>1 DEF Tiled, WalletPart
    <3>5. CASE OfBefore(a)
      <4>1. ~Recent(a)
        BY <1>2, <3>1, <3>2, <3>5, Times DEF OfBefore
      <4>2. OfBefore(a)'
        BY <1>1, <2>1, <3>5, <4>1 DEF OfBefore
      <4> QED
        BY <2>1, <2>3, <4>2, <1>1 DEF Tiled, WalletPart
    <3> QED
      BY <2>3, <3>3, <3>4, <3>5 DEF Tiled, WalletPart
  <2> QED
    BY <2>2, <2>3
<1>6. Timely'
  BY <1>1, <1>2 DEF Timely
<1> QED
  BY <1>1, <1>4, <1>5, <1>6 DEF WalletPart

(* Without today's digest the alerts that were waiting for it are skipped. *)
LEMMA NoDigest ==
  ASSUME WalletPart, UNCHANGED <<hour, age, born, counted>>,
         cron' \subseteq cron, window' = NotYet, "wallet" \notin cron',
         skipped' = IF Ahead THEN skipped \cup Waiting ELSE skipped
  PROVE  WalletPart'
<1>1. ~Ahead' /\ Timely'
  BY DEF Ahead, Timely
<1>2. ASSUME NEW a \in Alerts PROVE Tiled(a)'
  <2>1. /\ age'[a] = age[a] /\ born'[a] = born[a] /\ counted'[a] = counted[a]
        /\ (Created(a)' <=> Created(a)) /\ skipped \subseteq skipped'
    BY DEF Created
  <2>2. CASE ~Created(a)
    BY <2>1, <2>2 DEF Tiled, WalletPart
  <2>3. CASE Created(a)
    <3>1. /\ age[a] \in Nat /\ born[a] \in Nat /\ born[a] < Day /\ counted[a] \in Nat
          /\ hour \in Nat /\ hour < Day
      BY <2>3, Times DEF Tiled, WalletPart
    <3>2. CASE OfToday(a)
      <4>1. OfToday(a)'
        BY <1>1, <2>1, <3>2 DEF OfToday
      <4> QED
        BY <2>1, <2>3, <4>1 DEF Tiled, WalletPart
    <3>3. CASE OfYesterday(a)
      <4>1. age[a] > hour
        BY <3>1, <3>3, Times DEF OfYesterday
      <4>2. counted[a] >= 1 \/ (Ahead => a \in skipped')
        BY <2>3, <3>1, <4>1 DEF Waiting
      <4>3. OfYesterday(a)'
        BY <1>1, <2>1, <3>1, <3>3, <4>2 DEF OfYesterday
      <4> QED
        BY <2>1, <2>3, <4>3 DEF Tiled, WalletPart
    <3>4. CASE OfBefore(a)
      <4>1. OfBefore(a)'
        BY <2>1, <3>4 DEF OfBefore
      <4> QED
        BY <2>1, <2>3, <4>1 DEF Tiled, WalletPart
    <3> QED
      BY <2>3, <3>2, <3>3, <3>4 DEF Tiled, WalletPart
  <2> QED
    BY <2>2, <2>3
<1> QED
  BY <1>1, <1>2 DEF WalletPart

LEMMA HourStep == ASSUME WalletPart, NextHour PROVE WalletPart'
<1>1. /\ hour \in Nat /\ hour < Day /\ counted' = counted /\ born' = born
      /\ skipped \subseteq skipped'
      /\ hour' = IF hour + 1 = Day THEN 0 ELSE hour + 1
      /\ "wallet" \in cron => hour < Grace /\ window = NotYet
      /\ window # NotYet => window \in Nat /\ window < Longest /\ window <= hour
                            /\ hour <= Grace + window
      /\ window' = IF window = NotYet THEN NotYet ELSE window + 1
  BY Times DEF NextHour, WalletPart, Timely
<1>2. hour' \in 0..(Day - 1) /\ cron' \subseteq Daily
  BY <1>1, Times DEF WalletPart, NextHour
<1>3. age' \in [Alerts -> Nat \cup {NotYet}]
  BY DEF NextHour, WalletPart, Older
<1>4. hour + 1 = Day => ~Ahead
  BY <1>1, Times DEF Ahead
<1>5. hour + 1 # Day => cron' = cron
  BY <1>1, Times DEF NextHour
<1>6. hour + 1 # Day => (Ahead' <=> Ahead)
  BY <1>1, <1>5, Times DEF Ahead
<1>7. Timely'
  <2>1. CASE hour + 1 = Day
    BY <1>1, <1>4, <2>1, Times DEF Timely, Ahead
  <2>2. CASE hour + 1 # Day
    BY <1>1, <1>5, <2>2, Times DEF Timely
  <2> QED
    BY <2>1, <2>2
<1>8. ASSUME NEW a \in Alerts PROVE Tiled(a)'
  <2>1. age'[a] = Older(age[a]) /\ born'[a] = born[a] /\ counted'[a] = counted[a]
    BY <1>1 DEF NextHour
  <2>2. CASE ~Created(a)
    <3>1. ~Created(a)' /\ counted[a] = 0
      BY <2>1, <2>2 DEF Created, Older, WalletPart, Tiled
    <3> QED
      BY <2>1, <3>1 DEF Tiled
  <2>3. CASE Created(a)
    <3>1. /\ age[a] \in Nat /\ born[a] \in 0..(Day - 1) /\ counted[a] \in Nat
          /\ OfToday(a) \/ OfYesterday(a) \/ OfBefore(a)
      BY <2>3 DEF Tiled, WalletPart
    <3>2. age'[a] = IF age[a] > Day + Longest THEN age[a] ELSE age[a] + 1
      BY <2>1, <3>1, Times DEF Older
    <3>3. age'[a] \in Nat /\ Created(a)' /\ born'[a] \in 0..(Day - 1)
      BY <2>1, <3>1, <3>2, Times DEF Created
    <3>4. CASE hour + 1 # Day
      <4>1. hour' = hour + 1
        BY <1>1, <3>4
      <4>2. OfToday(a) => OfToday(a)'
        BY <1>1, <1>6, <2>1, <3>1, <3>2, <3>4, <4>1, Times DEF OfToday
      <4>3. OfYesterday(a) => OfYesterday(a)'
        BY <1>1, <1>6, <2>1, <3>1, <3>2, <3>4, <4>1, Times DEF OfYesterday
      <4>4. OfBefore(a) => OfBefore(a)'
        BY <1>1, <2>1, <3>1, <3>2, <4>1, Times DEF OfBefore
      <4> QED
        BY <3>1, <3>3, <4>2, <4>3, <4>4 DEF Tiled
    <3>5. CASE hour + 1 = Day
      <4>1. hour' = 0 /\ ~Ahead /\ hour = Day - 1
        BY <1>1, <1>4, <3>5
      <4>2. OfToday(a) => OfYesterday(a)'
        <5> SUFFICES ASSUME OfToday(a) PROVE OfYesterday(a)'
          OBVIOUS
        <5>1. age'[a] = Day + hour' - born'[a]
          BY <2>1, <3>1, <3>2, <4>1, Times DEF OfToday
        <5>2. /\ counted'[a] <= 1
              /\ born'[a] > Grace + Longest => counted'[a] = 0
          BY <2>1, <3>1 DEF OfToday
        <5>3. ~Ahead' => counted'[a] >= 1 \/ a \in skipped'
          <6>1. CASE up
            BY <4>1, <6>1 DEF NextHour, Ahead, Daily
          <6>2. CASE ~up
            BY <2>1, <2>3, <3>1, <4>1, <6>2 DEF NextHour
          <6> QED
            BY <6>1, <6>2
        <5> QED
          BY <2>1, <3>1, <5>1, <5>2, <5>3 DEF OfYesterday
      <4>3. OfYesterday(a) => OfBefore(a)'
        BY <1>1, <2>1, <3>1, <3>2, <4>1, Times DEF OfYesterday, OfBefore
      <4>4. OfBefore(a) => OfBefore(a)'
        BY <1>1, <2>1, <3>1, <3>2, <4>1, Times DEF OfBefore
      <4> QED
        BY <3>1, <3>3, <4>2, <4>3, <4>4 DEF Tiled
    <3> QED
      BY <3>4, <3>5
  <2> QED
    BY <2>2, <2>3
<1> QED
  BY <1>1, <1>2, <1>3, <1>7, <1>8 DEF WalletPart

LEMMA WalletStep ==
  ASSUME WalletPart, [DigestNext]_digestVars PROVE WalletPart'
<1>1. CASE \E a \in Alerts, n \in 0..AlertLag : NewAlert(a, n)
  BY <1>1, NewAlertStep
<1>2. CASE WalletStart
  BY <1>2, StartStep
<1>3. CASE WalletSelect
  BY <1>3, SelectStep
<1>4. CASE WalletFails
  <2>1. "wallet" \notin cron /\ Ahead
    BY <1>4 DEF WalletFails, WalletPart, Timely, Ahead
  <2> QED
    BY <1>4, <2>1, NoDigest DEF WalletFails
<1>5. CASE Misfired("wallet")
  <2>1. window = NotYet /\ Ahead
    BY <1>5 DEF Misfired, WalletPart, Timely, Ahead
  <2> QED
    BY <1>5, <2>1, NoDigest DEF Misfired
<1>6. CASE Dies
  BY <1>6, NoDigest DEF Dies, Ahead
<1>7. CASE NextHour
  BY <1>7, HourStep
<1>8. CASE \/ \E w \in Warnings : Warn(w)
           \/ FlushRead \/ FlushDelete \/ FlushSend \/ Misfired("warn")
           \/ Restarts \/ RedisChanges \/ UNCHANGED digestVars
  <2>1. /\ UNCHANGED <<hour, walletVars>> /\ cron' \subseteq cron
        /\ "wallet" \in cron => "wallet" \in cron'
    BY <1>8
    DEF Warn, FlushRead, FlushDelete, FlushSend, Misfired, Restarts, RedisChanges, digestVars,
        walletVars
  <2> QED
    BY <2>1, WalletRests
<1> QED
  BY <1>1, <1>2, <1>3, <1>4, <1>5, <1>6, <1>7, <1>8 DEF DigestNext, Daily

LEMMA DigestStays == DigestSpec => []DigestInv
<1>1. DigestInv /\ [DigestNext]_digestVars => DigestInv'
  BY WarningsStep, WalletStep DEF DigestInv
<1> QED
  BY DigestStart, <1>1, PTL DEF DigestSpec

(* A warning is in one digest at most, wherever the worker dies between    *)
(* the read of the list and the message (flush_warn_digest).               *)
THEOREM OneDigest == DigestSpec => []InOneDigest
<1>1. DigestInv => InOneDigest
  BY DEF DigestInv, WarnPart, Unsent, InOneDigest
<1> QED
  BY DigestStays, <1>1, PTL

(* An alert is in exactly one wallet digest unless it was stored in the    *)
(* minutes of a digest or that run was not made, whatever the length of    *)
(* the day, the grace time and the digests (flush_wallet_alert_digests).   *)
THEOREM WindowsTile == DigestSpec => []CountedOnce
<1>1. DigestInv => CountedOnce
  <2> SUFFICES ASSUME DigestInv, NEW a \in Alerts, Created(a)
               PROVE  /\ counted[a] <= 2
                      /\ born[a] > Grace + Longest => counted[a] <= 1
                      /\ born[a] >= Grace /\ born[a] + AlertLag < Day /\ age[a] > Day + Longest
                           => counted[a] >= 1 \/ a \in skipped
    BY DEF CountedOnce
  <2>1. /\ age[a] \in Nat /\ born[a] \in Nat /\ born[a] < Day /\ counted[a] \in Nat
        /\ hour \in Nat /\ hour < Day /\ Timely
        /\ OfToday(a) \/ OfYesterday(a) \/ OfBefore(a)
    BY Times DEF DigestInv, WalletPart, Tiled
  <2>2. CASE OfToday(a)
    BY <2>1, <2>2, Times DEF OfToday
  <2>3. CASE OfYesterday(a)
    <3>1. Ahead => hour <= Grace + Longest
      BY <2>1, Times DEF Ahead, Timely
    <3>2. born[a] >= Grace /\ age[a] > Day + Longest => hour > Grace + Longest
      BY <2>1, <2>3, Times DEF OfYesterday
    <3> QED
      BY <2>1, <2>3, <3>1, <3>2, Times DEF OfYesterday
  <2>4. CASE OfBefore(a)
    BY <2>1, <2>4 DEF OfBefore
  <2> QED
    BY <2>1, <2>2, <2>3, <2>4
<1> QED
  BY DigestStays, <1>1, PTL

-----------------------------------------------------------------------------
(* Price snapshots: what a resolving job has read is true until it commits.*)

Sides == Labels \cup {NoLabel}

JobStates == [next : {"scan", "ask", "apply", "commit", "doomed"},
              answer : Sides, loaded : SUBSET Buckets, made : BOOLEAN]

SnapTypes ==
  /\ market \in [resolution : Sides, active : BOOLEAN, volume : Volumes]
  /\ DOMAIN snapshot = Buckets /\ snapshot = [b \in Buckets |-> snapshot[b]]
  /\ job \in [Resolvers -> JobStates]

(* What a job has read is true until it commits: the lock keeps the other  *)
(* one out, the unique key and the flush the captures, the doom a cleaned  *)
(* row.  Open rows it has not read came after it.                          *)
Holding(j) ==
  /\ \A b \in job[j].loaded : Open(b)
  /\ job[j].made => ~Taken("T24")
  /\ \A b \in Buckets : Open(b) /\ b \notin job[j].loaded => b \in late

JobsSound ==
  \A j \in Resolvers :
    /\ job[j].next \in {"apply", "commit"} => job[j].answer # NoLabel
    /\ job[j].next # "commit" => job[j].loaded = {} /\ ~job[j].made
    /\ job[j].next = "commit" => Holding(j)
    /\ \A k \in Resolvers : job[j].next = "commit" /\ job[k].next = "commit" => j = k

SettledBy == settler \in Resolvers => Resolved /\ \A b \in Buckets : Open(b) => b \in late

SnapInv == SnapTypes /\ JobsSound /\ SettledBy

LEMMA IdleTyped ==
  /\ IdleJob \in JobStates
  /\ IdleJob.next = "scan" /\ IdleJob.loaded = {} /\ IdleJob.made = FALSE
BY DEF IdleJob, JobStates, Sides

LEMMA FlushTyped ==
  ASSUME NEW state \in JobStates, NEW read \in SUBSET Buckets, NEW made \in BOOLEAN
  PROVE  [state EXCEPT !.next = "commit", !.loaded = read, !.made = made] \in JobStates
BY DEF JobStates

LEMMA SnapStart == SnapshotInit => SnapInv
<1> SUFFICES ASSUME SnapshotInit PROVE SnapInv
  OBVIOUS
<1>1. SnapTypes
  BY IdleTyped DEF SnapshotInit, SnapTypes, Sides
<1>2. JobsSound
  BY IdleTyped DEF SnapshotInit, JobsSound
<1>3. SettledBy
  BY DEF SnapshotInit, SettledBy, Resolvers
<1> QED
  BY <1>1, <1>2, <1>3 DEF SnapInv

(* A step that moves one job, not to its commit, and no row.               *)
LEMMA JobMoves ==
  ASSUME SnapInv, NEW j \in Resolvers,
         NEW new \in [next : {"scan", "ask", "apply", "doomed"}, answer : Sides,
                      loaded : {{}}, made : {FALSE}],
         new.next = "apply" => new.answer # NoLabel,
         job' = [job EXCEPT ![j] = new],
         UNCHANGED <<snapshot, settler, late>>,
         market' \in [resolution : {market.resolution}, active : BOOLEAN, volume : Volumes]
  PROVE  SnapInv'
<1>1. \A k \in Resolvers : job'[k] = IF k = j THEN new ELSE job[k]
  BY DEF SnapInv, SnapTypes
<1>2. SnapTypes'
  <2>1. new \in JobStates
    BY DEF JobStates
  <2>2. job' \in [Resolvers -> JobStates]
    BY <2>1 DEF SnapInv, SnapTypes
  <2>3. market' \in [resolution : Sides, active : BOOLEAN, volume : Volumes]
    BY DEF SnapInv, SnapTypes
  <2> QED
    BY <2>2, <2>3 DEF SnapInv, SnapTypes
<1>3. JobsSound'
  <2>1. new.loaded = {} /\ new.made = FALSE /\ new.next # "commit"
    OBVIOUS
  <2>2. ASSUME NEW k \in Resolvers, job'[k] = job[k], Holding(k) PROVE Holding(k)'
    BY <2>2 DEF Holding, Open, Taken
  <2> QED
    BY <1>1, <2>1, <2>2 DEF SnapInv, JobsSound
<1>4. SettledBy'
  BY DEF SnapInv, SnapTypes, SettledBy, Resolved, Open, Taken
<1> QED
  BY <1>2, <1>3, <1>4 DEF SnapInv

(* A step that moves no job and no row.                                    *)
LEMMA MarketMoves ==
  ASSUME SnapInv, UNCHANGED <<job, snapshot, late>>,
         market' \in [resolution : Sides, active : BOOLEAN, volume : Volumes],
         UNCHANGED settler \/ settler' = "catalog",
         Resolved => Resolved'
  PROVE  SnapInv'
<1>1. SnapTypes'
  BY DEF SnapInv, SnapTypes
<1>2. JobsSound'
  BY DEF SnapInv, JobsSound, Holding, Open, Taken
<1>3. SettledBy'
  BY DEF SnapInv, SettledBy, Open, Taken, Resolvers
<1> QED
  BY <1>1, <1>2, <1>3 DEF SnapInv

LEMMA WriteStep == ASSUME SnapInv, NEW w \in Passes, PassWrite(w) PROVE SnapInv'
<1> DEFINE b == Bucket(pass[w].asked)
<1>1. b \in Buckets /\ UNCHANGED <<market, job, settler>>
  BY DEF PassWrite, Bucket, Buckets
<1>2. CASE Taken(b)
  BY <1>1, <1>2, MarketMoves DEF PassWrite, SnapInv, SnapTypes, Resolved
<1>3. CASE ~Taken(b)
  <2>1. /\ ~ (b = "T24" /\ \E j \in Resolvers : job[j].made)
        /\ snapshot' = [snapshot EXCEPT ![b] = Row(pass[w].side, NoLabel)]
        /\ late' = IF Resolved \/ Locked THEN late \cup {b} ELSE late \ {b}
    BY <1>3 DEF PassWrite
  <2>2. \A c \in Buckets : /\ Open(c)' => c = b \/ Open(c)
                           /\ c # b => (Taken(c)' <=> Taken(c)) /\ (Open(c)' <=> Open(c))
    BY <2>1 DEF Open, Taken, SnapInv, SnapTypes
  <2>3. \A j \in Resolvers : job[j].next = "commit" => b \in late' /\ late \subseteq late'
    BY <2>1 DEF Locked
  <2>4. JobsSound'
    <3>1. ASSUME NEW j \in Resolvers, job[j].next = "commit" PROVE Holding(j)'
      <4>1. Holding(j)
        BY <3>1 DEF SnapInv, JobsSound
      <4>2. b \notin job[j].loaded
        BY <1>3, <4>1 DEF Holding, Open
      <4>3. "T24" \in Buckets
        BY DEF Buckets
      <4>4. job[j].made => ~Taken("T24")'
        BY <2>1, <2>2, <4>1, <4>3 DEF Holding
      <4>5. \A c \in job[j].loaded : Open(c)'
        BY <2>2, <3>1, <4>1, <4>2 DEF Holding, SnapInv, SnapTypes, JobStates
      <4> QED
        BY <1>1, <2>2, <2>3, <3>1, <4>1, <4>4, <4>5 DEF Holding
    <3> QED
      BY <1>1, <3>1 DEF SnapInv, JobsSound
  <2>5. SettledBy'
    BY <1>1, <2>1, <2>2 DEF SnapInv, SettledBy, Resolved
  <2>6. SnapTypes'
    BY <1>1, <2>1 DEF SnapInv, SnapTypes
  <2> QED
    BY <2>4, <2>5, <2>6 DEF SnapInv
<1> QED
  BY <1>2, <1>3

LEMMA FlushStep ==
  ASSUME SnapInv, NEW j \in Resolvers, NEW favours \in EntryFavours, JobFlush(j, favours)
  PROVE  SnapInv'
<1> DEFINE makes == j = "resolver" /\ Unsettled = {} /\ favours
<1>1. job[j].next = "apply" /\ ~Locked /\ UNCHANGED <<market, snapshot, settler, late>>
  BY DEF JobFlush, CanFlush
<1>2. CASE makes /\ Taken("T24")
  <2>1. job' = [job EXCEPT ![j] = IdleJob]
    BY <1>2 DEF JobFlush
  <2>2. IdleJob \in [next : {"scan", "ask", "apply", "doomed"}, answer : Sides,
                     loaded : {{}}, made : {FALSE}] /\ IdleJob.next # "apply"
    BY DEF IdleJob, Sides
  <2> QED
    BY <1>1, <2>1, <2>2, JobMoves DEF SnapInv, SnapTypes
<1>3. CASE ~(makes /\ Taken("T24"))
  <2>1. job' = [job EXCEPT ![j] = [job[j] EXCEPT !.next = "commit", !.loaded = Unsettled,
                                                 !.made = makes]]
    BY <1>3 DEF JobFlush
  <2>2. Unsettled \in SUBSET Buckets /\ makes \in BOOLEAN
    BY DEF Unsettled
  <2>3. /\ job'[j].next = "commit" /\ job'[j].loaded = Unsettled
        /\ job'[j].made = makes /\ job'[j].answer = job[j].answer
        /\ \A k \in Resolvers \ {j} : job'[k] = job[k]
    BY <2>1 DEF SnapInv, SnapTypes
  <2>4. SnapTypes'
    <3> HIDE DEF makes
    <3>1. job[j] \in JobStates
      BY DEF SnapInv, SnapTypes
    <3>2. [job[j] EXCEPT !.next = "commit", !.loaded = Unsettled, !.made = makes] \in JobStates
      BY <2>2, <3>1, FlushTyped
    <3> QED
      BY <1>1, <2>1, <3>2 DEF SnapInv, SnapTypes
  <2>5. Holding(j)'
    BY <1>1, <1>3, <2>3 DEF Holding, Unsettled, Open, Taken
  <2>6. JobsSound'
    BY <1>1, <2>3, <2>5 DEF SnapInv, JobsSound, Locked
  <2>7. SettledBy'
    BY <1>1 DEF SnapInv, SettledBy, Resolved, Open, Taken
  <2> QED
    BY <2>4, <2>6, <2>7 DEF SnapInv
<1> QED
  BY <1>2, <1>3

(* What a commit leaves of the rows.                                       *)
LEMMA AfterCommit ==
  ASSUME SnapInv, NEW j \in Resolvers, JobCommit(j), NEW b \in Buckets
  PROVE  /\ Open(b)' => b \in late
         /\ Settled(b) => snapshot'[b] = snapshot[b]
<1>1. Holding(j) /\ job[j].answer # NoLabel
  BY DEF JobCommit, SnapInv, JobsSound
<1>2. snapshot'[b] = IF b \in job[j].loaded THEN Row(snapshot[b].side, job[j].answer)
                     ELSE IF b = "T24" /\ job[j].made THEN Row(job[j].answer, job[j].answer)
                     ELSE snapshot[b]
  BY DEF JobCommit, Settle, SettleLoaded
<1>3. CASE b \in job[j].loaded
  BY <1>1, <1>2, <1>3 DEF Holding, Open, Settled, Taken, Row
<1>4. CASE b \notin job[j].loaded /\ b = "T24" /\ job[j].made
  BY <1>1, <1>2, <1>4 DEF Holding, Open, Settled, Taken, Row
<1>5. CASE b \notin job[j].loaded /\ ~(b = "T24" /\ job[j].made)
  BY <1>1, <1>2, <1>5 DEF Holding, Open, Taken
<1> QED
  BY <1>3, <1>4, <1>5

LEMMA CommitStep == ASSUME SnapInv, NEW j \in Resolvers, JobCommit(j) PROVE SnapInv'
<1>1. /\ job[j].next = "commit" /\ job' = [job EXCEPT ![j] = IdleJob]
      /\ settler' = j /\ late' = late
      /\ market' = [market EXCEPT !.resolution = job[j].answer, !.active = FALSE]
  BY DEF JobCommit
<1>2. job[j].answer \in Labels
  BY <1>1 DEF SnapInv, SnapTypes, JobStates, JobsSound, Sides
<1>3. SnapTypes'
  <2>1. market' \in [resolution : Sides, active : BOOLEAN, volume : Volumes]
    BY <1>1, <1>2 DEF SnapInv, SnapTypes, Sides
  <2>2. snapshot' = [b \in Buckets |-> snapshot'[b]] /\ DOMAIN snapshot' = Buckets
    BY DEF JobCommit, Settle, SettleLoaded
  <2> QED
    BY <1>1, <2>1, <2>2, IdleTyped DEF SnapInv, SnapTypes
<1>4. \A k \in Resolvers : job'[k].next # "commit"
                           /\ (job'[k] = IdleJob \/ job'[k] = job[k])
  BY <1>1, IdleTyped DEF SnapInv, SnapTypes, JobsSound
<1>5. JobsSound'
  BY <1>4, IdleTyped DEF SnapInv, JobsSound
<1>6. Resolved'
  BY <1>1, <1>2, SnapshotAssumption DEF Resolved, SnapInv, SnapTypes
<1>7. SettledBy'
  BY <1>1, <1>6, AfterCommit DEF SettledBy
<1> QED
  BY <1>3, <1>5, <1>7 DEF SnapInv

LEMMA FillStep == ASSUME SnapInv, NEW favours \in EntryFavours, FillWrite(favours) PROVE SnapInv'
<1>1. /\ fill # NoLabel /\ \A j \in Resolvers : ~job[j].made
      /\ UNCHANGED <<market, job, settler, late>>
  BY DEF FillWrite
<1>2. CASE snapshot' = snapshot
  BY <1>1, <1>2, MarketMoves DEF SnapInv, SnapTypes, Resolved
<1>3. CASE ~Taken("T24") /\ snapshot' = [snapshot EXCEPT !["T24"] = Row(fill, fill)]
  <2>1. \A b \in Buckets : Open(b)' <=> Open(b)
    BY <1>1, <1>3 DEF Open, Taken, Row, SnapInv, SnapTypes
  <2>2. SnapTypes'
    BY <1>1, <1>3 DEF SnapInv, SnapTypes
  <2>3. \A j \in Resolvers : Holding(j) => Holding(j)'
    <3>1. \A j \in Resolvers : job[j].loaded \subseteq Buckets
      BY DEF SnapInv, SnapTypes, JobStates
    <3> QED
      BY <1>1, <2>1, <3>1 DEF Holding
  <2>4. JobsSound' /\ SettledBy'
    BY <1>1, <2>1, <2>3 DEF SnapInv, JobsSound, SettledBy, Resolved
  <2> QED
    BY <2>2, <2>4 DEF SnapInv
<1> QED
  BY <1>2, <1>3 DEF FillWrite

LEMMA CleanupStep == ASSUME SnapInv, Cleanup PROVE SnapInv'
<1>1. /\ snapshot' = [b \in Buckets |-> IF Open(b) THEN NoSnapshot ELSE snapshot[b]]
      /\ job' = [j \in Resolvers |-> IF \E b \in job[j].loaded : Open(b)
                                     THEN [IdleJob EXCEPT !.next = "doomed"] ELSE job[j]]
      /\ UNCHANGED <<market, settler, late>>
  BY DEF Cleanup, Disposable
<1> DEFINE doomed == [IdleJob EXCEPT !.next = "doomed"]
<1>2. /\ doomed \in [next : {"doomed"}, answer : Sides, loaded : {{}}, made : {FALSE}]
      /\ doomed.next = "doomed" /\ doomed.loaded = {} /\ doomed.made = FALSE
  BY DEF IdleJob, Sides
<1>3. SnapTypes'
  <2>1. doomed \in JobStates
    BY <1>2 DEF JobStates
  <2>2. job' = [j \in Resolvers |-> IF \E b \in job[j].loaded : Open(b)
                                    THEN doomed ELSE job[j]]
    BY <1>1
  <2> HIDE DEF doomed
  <2> QED
    BY <1>1, <2>1, <2>2 DEF SnapInv, SnapTypes
<1> HIDE DEF doomed
<1>4. \A b \in Buckets : ~Open(b)' /\ (Taken(b)' => Taken(b))
  BY <1>1 DEF Open, Taken
<1>5. ASSUME NEW j \in Resolvers
      PROVE  \/ job'[j] = doomed
             \/ job'[j] = job[j] /\ (job[j].next = "commit" => Holding(j)')
  <2>1. CASE \E b \in job[j].loaded : Open(b)
    BY <1>1, <2>1 DEF doomed
  <2>2. CASE ~ \E b \in job[j].loaded : Open(b)
    <3>1. job'[j] = job[j]
      BY <1>1, <2>2
    <3>2. ASSUME job[j].next = "commit" PROVE Holding(j)'
      <4>1. job[j].loaded = {} /\ (job[j].made => ~Taken("T24"))
        BY <2>2, <3>2 DEF SnapInv, JobsSound, Holding
      <4>2. "T24" \in Buckets
        BY DEF Buckets
      <4> QED
        BY <1>4, <3>1, <4>1, <4>2 DEF Holding
    <3> QED
      BY <3>1, <3>2
  <2> QED
    BY <2>1, <2>2
<1>6. JobsSound'
  BY <1>2, <1>5 DEF SnapInv, JobsSound
<1>7. SettledBy'
  BY <1>1, <1>4 DEF SnapInv, SettledBy, Resolved
<1> QED
  BY <1>3, <1>6, <1>7 DEF SnapInv

LEMMA JobsDieStep == ASSUME SnapInv, JobsDie PROVE SnapInv'
<1>1. job' = [j \in Resolvers |-> IdleJob] /\ UNCHANGED <<market, snapshot, settler, late>>
  BY DEF JobsDie
<1>2. SnapTypes'
  BY <1>1, IdleTyped DEF SnapInv, SnapTypes
<1>3. JobsSound'
  BY <1>1, IdleTyped DEF JobsSound
<1>4. SettledBy'
  BY <1>1 DEF SnapInv, SettledBy, Resolved, Open, Taken
<1> QED
  BY <1>2, <1>3, <1>4 DEF SnapInv

LEMMA UpsertStep ==
  ASSUME SnapInv, NEW volume \in Volumes, NEW active \in BOOLEAN, NEW label \in GammaSays,
         Upsert(volume, active, label)
  PROVE  SnapInv'
<1> DEFINE resolution == IF Resolved THEN market.resolution ELSE label
<1>1. /\ market' = [resolution |-> resolution, active |-> active /\ resolution = NoLabel,
                    volume |-> IF volume = "unknown" THEN market.volume ELSE volume]
      /\ settler' = IF resolution = market.resolution THEN settler ELSE "catalog"
      /\ UNCHANGED <<snapshot, job, late>>
  BY DEF Upsert
<1>2. /\ resolution \in Sides /\ (active /\ resolution = NoLabel) \in BOOLEAN
      /\ (IF volume = "unknown" THEN market.volume ELSE volume) \in Volumes
  BY SnapshotAssumption DEF GammaSays, Sides, SnapInv, SnapTypes
<1>3. market' \in [resolution : Sides, active : BOOLEAN, volume : Volumes]
  <2> HIDE DEF resolution
  <2> QED
    BY <1>1, <1>2
<1>4. Resolved => Resolved'
  BY <1>1 DEF Resolved
<1>5. settler' = settler \/ settler' = "catalog"
  BY <1>1
<1> QED
  BY <1>1, <1>3, <1>4, <1>5, MarketMoves

LEMMA JobStep ==
  ASSUME SnapInv, NEW j \in Resolvers,
         \/ JobScan(j) \/ JobRests(j) \/ JobFails(j)
         \/ \E answer \in Answers(j) : JobAsk(j, answer)
  PROVE  SnapInv'
<1> DEFINE Plain == [next : {"scan", "ask", "apply", "doomed"}, answer : Sides,
                     loaded : {{}}, made : {FALSE}]
<1>1. IdleJob \in Plain /\ IdleJob.next = "scan"
  BY DEF IdleJob, Sides
<1>2. market \in [resolution : {market.resolution}, active : BOOLEAN, volume : Volumes]
  BY DEF SnapInv, SnapTypes
<1>3. CASE JobScan(j)
  <2>1. job[j].loaded = {} /\ job[j].made = FALSE
    <3>1. job[j].next = "scan" /\ job[j].made \in BOOLEAN
      BY <1>3 DEF JobScan, SnapInv, SnapTypes, JobStates
    <3>2. job[j].next # "commit" => job[j].loaded = {} /\ ~job[j].made
      BY DEF SnapInv, JobsSound
    <3> QED
      BY <3>1, <3>2
  <2>2. [job[j] EXCEPT !.next = "ask"] \in Plain /\ [job[j] EXCEPT !.next = "ask"].next = "ask"
    <3>1. job[j] \in JobStates
      BY DEF SnapInv, SnapTypes
    <3> QED
      BY ONLY <2>1, <3>1 DEF JobStates
  <2>3. job' = [job EXCEPT ![j] = [job[j] EXCEPT !.next = "ask"]]
        /\ UNCHANGED <<market, snapshot, settler, late>>
    BY <1>3 DEF JobScan
  <2> QED
    BY <1>2, <2>2, <2>3, JobMoves
<1>4. CASE JobRests(j)
  <2>1. market' \in [resolution : {market.resolution}, active : BOOLEAN, volume : Volumes]
    BY <1>4 DEF JobRests, SnapInv, SnapTypes
  <2> QED
    BY <1>1, <1>4, <2>1, JobMoves DEF JobRests
<1>5. CASE JobFails(j)
  BY <1>1, <1>2, <1>5, JobMoves DEF JobFails
<1>6. CASE \E answer \in Answers(j) : JobAsk(j, answer)
  <2> PICK answer \in Answers(j) : JobAsk(j, answer)
    BY <1>6
  <2>1. answer \in Labels
    BY SnapshotAssumption DEF JobAsk, Answers, GammaSays, ClobSays, BooksShow
  <2>2. UNCHANGED <<market, snapshot, settler, late>>
    BY DEF JobAsk
  <2>3. CASE job' = [job EXCEPT ![j] = IdleJob]
    BY <1>1, <1>2, <2>2, <2>3, JobMoves
  <2>4. CASE job' = [job EXCEPT ![j] = [IdleJob EXCEPT !.next = "apply", !.answer = answer]]
    <3> DEFINE new == [IdleJob EXCEPT !.next = "apply", !.answer = answer]
    <3>1. new \in Plain /\ new.answer # NoLabel
      BY <2>1, SnapshotAssumption DEF IdleJob, Sides
    <3> QED
      BY <1>2, <2>2, <2>4, <3>1, JobMoves
  <2> QED
    BY <2>3, <2>4 DEF JobAsk
<1> QED
  BY <1>3, <1>4, <1>5, <1>6

LEMMA SnapStep == SnapInv /\ [SnapshotNext]_snapVars => SnapInv'
<1> SUFFICES ASSUME SnapInv, [SnapshotNext]_snapVars PROVE SnapInv'
  OBVIOUS
<1>1. CASE \E w \in Passes : PassWrite(w)
  BY <1>1, WriteStep
<1>2. CASE \E w \in Passes, volume \in Volumes, side \in Labels \cup {NoLabel} :
             PassPrice(w, volume, side)
  <2> PICK w \in Passes, volume \in Volumes, side \in Labels \cup {NoLabel} :
             PassPrice(w, volume, side)
    BY <1>2
  <2>1. /\ market' \in [resolution : Sides, active : BOOLEAN, volume : Volumes]
        /\ market'.resolution = market.resolution
    BY DEF PassPrice, SnapInv, SnapTypes
  <2> QED
    BY <2>1, MarketMoves DEF PassPrice, Resolved
<1>3. CASE \E j \in Resolvers :
             \/ JobScan(j) \/ JobRests(j) \/ JobFails(j)
             \/ \E answer \in Answers(j) : JobAsk(j, answer)
  BY <1>3, JobStep
<1>4. CASE \E j \in Resolvers : JobCommit(j)
  BY <1>4, CommitStep
<1>5. CASE \E j \in Resolvers, favours \in EntryFavours : JobFlush(j, favours)
  BY <1>5, FlushStep
<1>6. CASE \E favours \in EntryFavours : FillWrite(favours)
  BY <1>6, FillStep
<1>7. CASE Cleanup
  BY <1>7, CleanupStep
<1>8. CASE \E volume \in Volumes, active \in BOOLEAN, label \in GammaSays :
             Upsert(volume, active, label)
  BY <1>8, UpsertStep
<1>9. CASE JobsDie
  BY <1>9, JobsDieStep
<1>10. CASE \/ \E w \in Passes : PassScan(w)
            \/ FillScan \/ NextDay \/ UNCHANGED snapVars
  <2>1. UNCHANGED <<market, snapshot, job, settler, late>>
    BY <1>10 DEF PassScan, FillScan, NextDay, snapVars
  <2> QED
    BY <2>1, MarketMoves DEF SnapInv, SnapTypes, Resolved
<1> QED
  BY <1>1, <1>2, <1>3, <1>4, <1>5, <1>6, <1>7, <1>8, <1>9, <1>10 DEF SnapshotNext

LEMMA SnapStays == SnapshotSpec => []SnapInv
BY SnapStart, SnapStep, PTL DEF SnapshotSpec

(* When a job has resolved the market, only rows captured from an older    *)
(* list are open (_update_snapshots, _update_snapshots_on_resolution).     *)
THEOREM OpenRowsAreLate == SnapshotSpec => []OnlyLateRowsOpen
<1>1. SnapInv => OnlyLateRowsOpen
  BY DEF SnapInv, SettledBy, OnlyLateRowsOpen
<1> QED
  BY SnapStays, <1>1, PTL

(* A settled row stays as it is, for any labels and calendar               *)
(* (run_price_snapshot.py:224-228).                                        *)
THEOREM SettledStays == SnapshotSpec => SettledRowsKept
<1>1. SnapInv /\ [SnapshotNext]_snapVars
      => [\A b \in Buckets : Settled(b) => snapshot'[b] = snapshot[b]]_snapVars
  <2> SUFFICES ASSUME SnapInv, SnapshotNext, NEW b \in Buckets, Settled(b)
               PROVE  snapshot'[b] = snapshot[b]
    OBVIOUS
  <2>1. Taken(b) /\ ~Open(b)
    BY DEF Settled, Open
  <2>2. CASE \E w \in Passes : PassWrite(w)
    BY <2>1, <2>2 DEF PassWrite, SnapInv, SnapTypes
  <2>3. CASE \E j \in Resolvers : JobCommit(j)
    BY <2>3, AfterCommit
  <2>4. CASE \E favours \in EntryFavours : FillWrite(favours)
    BY <2>1, <2>4 DEF FillWrite, SnapInv, SnapTypes
  <2>5. CASE Cleanup
    BY <2>1, <2>5 DEF Cleanup, Disposable
  <2>6. CASE UNCHANGED snapshot
    BY <2>6
  <2> QED
    BY <2>2, <2>3, <2>4, <2>5, <2>6
    DEF SnapshotNext, PassScan, PassPrice, JobScan, JobRests, JobFails, JobAsk, JobFlush,
        FillScan, Upsert, JobsDie, NextDay
<1> QED
  BY SnapStays, <1>1, PTL DEF SnapshotSpec, SettledRowsKept

-----------------------------------------------------------------------------
(* Event clusters: a heuristic row has the id of what it was last written  *)
(* from; the groups that a seeding has written were written as they are.   *)

SeedStates == [next : {"none", "plan", "write"}, left : SUBSET Markets,
               read : {<<>>} \cup [Markets -> Fields]]

Labelled(m) == cluster[m] = [id |-> Key(placed[m]), source |-> "heuristic"]

(* Every heuristic row has the id of what it was written from.             *)
RowsLabelled ==
  \A m \in Markets :
    Heuristic(m) => placed[m] \in Fields /\ Key(placed[m]) # Absent /\ Labelled(m)

(* A group's market has been written as it is.                             *)
Current(m) == Heuristic(m) /\ placed[m] = fields[m]

(* A seeding has read the markets as they are but for those altered since. *)
ReadSoFar ==
  seeding.next # "none" =>
    /\ ~seeded
    /\ seeding.read \in [Markets -> Fields]
    /\ \A m \in Markets \ altered : seeding.read[m] = fields[m]

(* What it has planned and not written is left, with a key each.           *)
Planned ==
  seeding.next = "write" =>
    /\ \A m \in Grouped : m \in seeding.left \/ Current(m)
    /\ \A m \in seeding.left : Key(seeding.read[m]) # Absent

ClusterInv ==
  /\ fields \in [Markets -> Fields]
  /\ seeding \in SeedStates
  /\ cluster = [m \in Markets |-> cluster[m]]
  /\ RowsLabelled /\ ReadSoFar /\ Planned
  /\ seeded => \A m \in Grouped : Current(m)

(* Rows that have a key have the same one exactly if they say one event.   *)
LEMMA KeyIsEvent ==
  ASSUME NEW f \in Fields, NEW g \in Fields, Key(f) # Absent \/ Key(g) # Absent
  PROVE  Key(f) = Key(g) <=> OneEvent(f, g)
<1>1. \A h \in Fields :
        /\ h.neg # Absent => Key(h) = <<"negrisk", h.neg>>
        /\ h.neg = Absent /\ h.title # Absent => Key(h) = <<"title", h.title, h.end>>
        /\ h.neg = Absent /\ h.title = Absent => Key(h) = Absent
  <2> SUFFICES ASSUME NEW h \in Fields
               PROVE  /\ h.neg # Absent => Key(h) = <<"negrisk", h.neg>>
                      /\ h.neg = Absent /\ h.title # Absent => Key(h) = <<"title", h.title, h.end>>
                      /\ h.neg = Absent /\ h.title = Absent => Key(h) = Absent
    OBVIOUS
  <2>1. CASE h.neg # Absent
    BY <2>1 DEF Key
  <2>2. CASE h.neg = Absent /\ h.title # Absent
    BY <2>2 DEF Key
  <2>3. CASE h.neg = Absent /\ h.title = Absent
    BY <2>3 DEF Key
  <2> QED
    BY <2>1, <2>2, <2>3
<1>2. \A h \in Fields : <<"negrisk", h.neg>> # Absent /\ <<"title", h.title, h.end>> # Absent
  BY ClusterAssumption
<1>3. \A x, y, t, e : <<"negrisk", x>> # <<"title", t, e>>
                      /\ (<<"negrisk", x>> = <<"negrisk", y>> => x = y)
  OBVIOUS
<1>4. \A t, e, u, d : <<"title", t, e>> = <<"title", u, d>> => t = u /\ e = d
  OBVIOUS
<1>5. Key(f) = Key(g) => OneEvent(f, g)
  <2> SUFFICES ASSUME Key(f) = Key(g) PROVE OneEvent(f, g)
    OBVIOUS
  <2>1. CASE f.neg # Absent
    BY <1>1, <1>2, <1>3, <2>1 DEF OneEvent
  <2>2. CASE f.neg = Absent
    BY <1>1, <1>2, <1>3, <1>4, <2>2 DEF OneEvent
  <2> QED
    BY <2>1, <2>2
<1>6. OneEvent(f, g) => Key(f) = Key(g)
  BY <1>1 DEF OneEvent
<1> QED
  BY <1>5, <1>6

(* What says one event with another row has a key.                         *)
LEMMA EventHasKey ==
  ASSUME NEW f \in Fields, NEW g \in Fields, OneEvent(f, g)
  PROVE  Key(f) # Absent /\ Key(g) = Key(f)
<1>1. CASE f.neg # Absent
  <2>1. Key(f) = <<"negrisk", f.neg>>
    BY <1>1 DEF Key
  <2>2. <<"negrisk", f.neg>> # Absent
    BY ClusterAssumption
  <2> QED
    BY <2>1, <2>2, KeyIsEvent
<1>2. CASE f.neg = Absent
  <2>1. f.title # Absent
    BY <1>2 DEF OneEvent
  <2>2. Key(f) = <<"title", f.title, f.end>>
    BY <1>2, <2>1 DEF Key
  <2>3. <<"title", f.title, f.end>> # Absent
    BY ClusterAssumption
  <2> QED
    BY <2>2, <2>3, KeyIsEvent
<1> QED
  BY <1>1, <1>2

LEMMA GroupedIs ==
  ASSUME NEW m
  PROVE  m \in Grouped <=>
           /\ m \in Markets /\ m \notin altered /\ ~Manual(m)
           /\ \E n \in Markets \ {m} : /\ n \notin altered /\ ~Manual(n)
                                       /\ OneEvent(fields[m], fields[n])
BY DEF Grouped

LEMMA GroupedWas ==
  ASSUME NEW m
  PROVE  m \in Grouped' <=>
           /\ m \in Markets /\ m \notin altered' /\ ~Manual(m)'
           /\ \E n \in Markets \ {m} : /\ n \notin altered' /\ ~Manual(n)'
                                       /\ OneEvent(fields'[m], fields'[n])
BY DEF Grouped, OneEvent

(* Nothing but a new reading adds to the groups.                           *)
LEMMA GroupsShrink ==
  ASSUME altered \subseteq altered', \A m \in Markets : Manual(m) => Manual(m)',
         \A m \in Markets \ altered' : fields'[m] = fields[m]
  PROVE  Grouped' \subseteq Grouped
<1> SUFFICES ASSUME NEW m \in Grouped' PROVE m \in Grouped
  OBVIOUS
<1>1. PICK n \in Markets \ {m} : /\ n \notin altered' /\ ~Manual(n)'
                                 /\ OneEvent(fields'[m], fields'[n])
  BY GroupedWas
<1>2. m \in Markets /\ m \notin altered' /\ ~Manual(m)'
  BY GroupedWas
<1>3. fields'[m] = fields[m] /\ fields'[n] = fields[n] /\ ~Manual(m) /\ ~Manual(n)
  BY <1>1, <1>2
<1>4. OneEvent(fields[m], fields[n]) /\ m \notin altered /\ n \notin altered
  BY <1>1, <1>2, <1>3
<1> QED
  BY <1>1, <1>2, <1>3, <1>4, GroupedIs

(* A seeding plans every market of a group.                                *)
LEMMA GroupsPlanned ==
  ASSUME ClusterInv, seeding.next = "plan" PROVE Grouped \subseteq Assignments(seeding.read)
<1> SUFFICES ASSUME NEW m \in Grouped PROVE m \in Assignments(seeding.read)
  OBVIOUS
<1>1. m \in Markets /\ m \notin altered /\ ~Manual(m)
  BY GroupedIs
<1>2. PICK n \in Markets \ {m} : n \notin altered /\ ~Manual(n) /\ OneEvent(fields[m], fields[n])
  BY GroupedIs
<1>3. seeding.read[m] = fields[m] /\ seeding.read[n] = fields[n]
  BY <1>1, <1>2 DEF ClusterInv, ReadSoFar
<1>4. fields[m] \in Fields /\ fields[n] \in Fields
  BY <1>1, <1>2 DEF ClusterInv
<1>5. Key(fields[m]) # Absent /\ Key(fields[n]) = Key(fields[m])
  BY <1>2, <1>4, EventHasKey
<1>6. Key(seeding.read[m]) # Absent /\ Key(seeding.read[n]) = Key(seeding.read[m])
  BY <1>3, <1>5
<1> HIDE DEF Key
<1> QED
  BY <1>1, <1>2, <1>6 DEF Assignments

LEMMA ClusterStart == ClusterInit => ClusterInv
BY DEF ClusterInit, ClusterInv, SeedStates, RowsLabelled, Heuristic, ReadSoFar, Planned, NoSeeding

LEMMA ChunkStep ==
  ASSUME ClusterInv, NEW chunk \in SUBSET Markets, SeedChunk(chunk) PROVE ClusterInv'
<1> DEFINE W == {m \in chunk : ~Manual(m)}
<1>1. /\ seeding.next = "write" /\ chunk \subseteq seeding.left
      /\ seeding' = [seeding EXCEPT !.left = @ \ chunk]
      /\ UNCHANGED <<fields, seeded, altered>>
  BY DEF SeedChunk
<1>2. /\ cluster' = [m \in Markets |-> IF m \in W
             THEN [id |-> Key(seeding.read[m]), source |-> "heuristic"] ELSE cluster[m]]
      /\ placed' = [m \in Markets |-> IF m \in W THEN seeding.read[m] ELSE placed[m]]
  BY DEF SeedChunk, Overwritable
<1>3. /\ ~seeded /\ seeding.read \in [Markets -> Fields]
      /\ \A m \in Markets \ altered : seeding.read[m] = fields[m]
  BY <1>1 DEF ClusterInv, ReadSoFar
<1>4. /\ seeding'.next = "write" /\ seeding'.read = seeding.read
      /\ seeding'.left = seeding.left \ chunk /\ seeding' \in SeedStates
  BY <1>1 DEF ClusterInv, SeedStates
<1>5. \A m \in W : /\ m \in Markets /\ placed'[m] = seeding.read[m]
                   /\ cluster'[m] = [id |-> Key(placed'[m]), source |-> "heuristic"]
                   /\ Heuristic(m)' /\ ~Manual(m)'
  <2> SUFFICES ASSUME NEW m \in W
               PROVE  /\ m \in Markets /\ placed'[m] = seeding.read[m]
                      /\ cluster'[m] = [id |-> Key(placed'[m]), source |-> "heuristic"]
                      /\ Heuristic(m)' /\ ~Manual(m)'
    OBVIOUS
  <2>1. m \in Markets /\ placed'[m] = seeding.read[m]
    BY <1>2
  <2>2. cluster'[m] = [id |-> Key(placed'[m]), source |-> "heuristic"]
    BY <1>2, <2>1
  <2>3. cluster'[m] # Absent /\ cluster'[m].source = "heuristic"
    <3>1. seeding.read[m] \in Fields
      BY <1>3, <2>1
    <3> QED
      BY <2>1, <2>2, <3>1, ClusterAssumption
  <2> QED
    BY <2>1, <2>2, <2>3 DEF Heuristic, Manual
<1>6. \A m \in Markets \ W : placed'[m] = placed[m] /\ cluster'[m] = cluster[m]
                             /\ (Heuristic(m)' <=> Heuristic(m)) /\ (Manual(m)' <=> Manual(m))
  BY <1>2 DEF Heuristic, Manual
<1>7. RowsLabelled'
  <2> SUFFICES ASSUME NEW m \in Markets, Heuristic(m)'
               PROVE  /\ placed'[m] \in Fields /\ Key(placed'[m]) # Absent
                      /\ cluster'[m] = [id |-> Key(placed'[m]), source |-> "heuristic"]
    BY DEF RowsLabelled, Labelled, Key
  <2>1. CASE m \in W
    <3>1. m \in seeding.left /\ Key(seeding.read[m]) # Absent
      BY <1>1, <2>1 DEF ClusterInv, Planned
    <3> HIDE DEF W
    <3> QED
      BY <1>3, <1>5, <2>1, <3>1
  <2>2. CASE m \notin W
    <3> HIDE DEF W
    <3>1. Heuristic(m) /\ placed'[m] = placed[m] /\ cluster'[m] = cluster[m]
      BY <1>6, <2>2
    <3> QED
      BY <3>1 DEF ClusterInv, RowsLabelled, Labelled
  <2> QED
    BY <2>1, <2>2
<1>8. Grouped' \subseteq Grouped
  <2>1. \A m \in Markets : Manual(m) => Manual(m)'
    BY <1>6
  <2> HIDE DEF W
  <2> QED
    BY <1>1, <2>1, GroupsShrink
<1>9. \A m \in Grouped' : m \in seeding'.left \/ Current(m)'
  <2> SUFFICES ASSUME NEW m \in Grouped', m \notin seeding'.left PROVE Current(m)'
    OBVIOUS
  <2>1. m \in Markets /\ m \notin altered /\ ~Manual(m) /\ m \in Grouped
    BY <1>8, GroupedIs
  <2>2. CASE m \in chunk
    <3>1. m \in W
      BY <2>1, <2>2
    <3> HIDE DEF W
    <3>2. placed'[m] = fields'[m] /\ Heuristic(m)'
      BY <1>1, <1>3, <1>5, <2>1, <3>1
    <3> QED
      BY <3>2 DEF Current
  <2>3. CASE m \notin chunk
    <3>1. Current(m)
      BY <1>1, <1>4, <2>1, <2>3 DEF ClusterInv, Planned
    <3>2. m \in Markets \ W
      BY <2>1, <2>3
    <3> HIDE DEF W
    <3>3. placed'[m] = fields'[m] /\ Heuristic(m)'
      BY <1>1, <1>6, <3>1, <3>2 DEF Current
    <3> QED
      BY <3>3 DEF Current
  <2> QED
    BY <2>2, <2>3
<1>10. Planned' /\ ReadSoFar'
  <2>1. \A m \in seeding'.left : Key(seeding'.read[m]) # Absent
    BY <1>1, <1>4 DEF ClusterInv, Planned
  <2>2. Planned'
    BY <1>9, <2>1 DEF Planned, Key
  <2>3. ReadSoFar'
    BY <1>1, <1>3, <1>4 DEF ReadSoFar
  <2> QED
    BY <2>2, <2>3
<1>11. cluster' = [m \in Markets |-> cluster'[m]] /\ fields' \in [Markets -> Fields] /\ ~seeded'
  BY <1>1, <1>2, <1>3 DEF ClusterInv
<1> QED
  BY <1>4, <1>7, <1>10, <1>11 DEF ClusterInv

(* The rows and the plan are as good when markets are altered or assigned. *)
LEMMA DisturbanceStep ==
  ASSUME ClusterInv, UNCHANGED <<seeding, seeded, placed>>,
         altered \subseteq altered', fields' \in [Markets -> Fields],
         cluster' = [m \in Markets |-> cluster'[m]],
         \A m \in Markets : cluster'[m] = cluster[m] \/ Manual(m)',
         \A m \in Markets \ altered' : fields'[m] = fields[m]
  PROVE  ClusterInv'
<1>1. \A m \in Markets : Manual(m) => Manual(m)'
  BY DEF Manual
<1>2. \A m \in Markets : ~Manual(m)' => cluster'[m] = cluster[m]
                                        /\ (Heuristic(m) => Heuristic(m)')
  BY DEF Heuristic
<1>3. Grouped' \subseteq Grouped
  BY <1>1, GroupsShrink
<1>4. \A m \in Markets : Heuristic(m)' => Heuristic(m) /\ cluster'[m] = cluster[m]
  BY DEF Heuristic, Manual
<1>5. RowsLabelled'
  <2> SUFFICES ASSUME NEW m \in Markets, Heuristic(m)'
               PROVE  /\ placed'[m] \in Fields /\ Key(placed'[m]) # Absent
                      /\ cluster'[m] = [id |-> Key(placed'[m]), source |-> "heuristic"]
    BY DEF RowsLabelled, Labelled, Key
  <2> QED
    BY <1>4 DEF ClusterInv, RowsLabelled, Labelled
<1>6. ASSUME NEW m \in Grouped', Current(m) PROVE Current(m)'
  <2>1. m \in Markets /\ m \notin altered' /\ ~Manual(m)'
    BY GroupedWas
  <2>2. fields'[m] = fields[m] /\ Heuristic(m)' /\ placed'[m] = fields[m]
    BY <1>2, <1>6, <2>1 DEF Current
  <2> QED
    BY <2>2 DEF Current
<1>7. ReadSoFar'
  BY DEF ClusterInv, ReadSoFar
<1>8. Planned'
  <2> SUFFICES ASSUME seeding'.next = "write"
               PROVE  /\ \A m \in Grouped' : m \in seeding'.left \/ Current(m)'
                      /\ \A m \in seeding'.left : Key(seeding'.read[m]) # Absent
    BY DEF Planned, Key
  <2>1. /\ \A m \in Grouped : m \in seeding.left \/ Current(m)
        /\ \A m \in seeding.left : Key(seeding.read[m]) # Absent
    BY DEF ClusterInv, Planned
  <2> QED
    BY <1>3, <1>6, <2>1
<1>9. seeded' => \A m \in Grouped' : Current(m)'
  BY <1>3, <1>6 DEF ClusterInv
<1> QED
  BY <1>5, <1>7, <1>8, <1>9 DEF ClusterInv

(* Steps of the seeding that leave the markets and the rows alone.         *)
LEMMA SameGroups ==
  ASSUME UNCHANGED <<fields, cluster, altered, placed>>
  PROVE  /\ Grouped' = Grouped /\ \A m : Current(m)' <=> Current(m)
         /\ RowsLabelled => RowsLabelled'
<1>1. Grouped' = Grouped
  BY DEF Grouped, Manual, OneEvent
<1>2. \A m : Current(m)' <=> Current(m)
  BY DEF Current, Heuristic
<1>3. RowsLabelled => RowsLabelled'
  BY DEF RowsLabelled, Labelled, Heuristic, Key
<1> QED
  BY <1>1, <1>2, <1>3

LEMMA ClusterStep == ClusterInv /\ [ClusterNext]_clusterVars => ClusterInv'
<1> SUFFICES ASSUME ClusterInv, [ClusterNext]_clusterVars PROVE ClusterInv'
  OBVIOUS
<1>1. CASE \E chunk \in SUBSET Markets : SeedChunk(chunk)
  BY <1>1, ChunkStep
<1>2. CASE SeedRead
  <2>1. /\ seeding' = [next |-> "plan", read |-> fields, left |-> {}] /\ ~seeded'
        /\ UNCHANGED <<fields, cluster, placed>>
    BY <1>2 DEF SeedRead
  <2>2. RowsLabelled'
    BY <2>1 DEF ClusterInv, RowsLabelled, Labelled, Heuristic, Key
  <2>3. seeding' \in SeedStates /\ ReadSoFar' /\ Planned'
    BY <2>1 DEF ClusterInv, SeedStates, ReadSoFar, Planned
  <2> QED
    BY <2>1, <2>2, <2>3 DEF ClusterInv
<1>3. CASE SeedPlan
  <2>1. /\ seeding' = [seeding EXCEPT !.next = "write", !.left = Assignments(seeding.read)]
        /\ seeding.next = "plan" /\ UNCHANGED <<fields, cluster, seeded, altered, placed>>
    BY <1>3 DEF SeedPlan
  <2>2. /\ Assignments(seeding.read) \in SUBSET Markets
        /\ \A m \in Assignments(seeding.read) : Key(seeding.read[m]) # Absent
    BY DEF Assignments
  <2>3. /\ seeding'.next = "write" /\ seeding'.read = seeding.read
        /\ seeding'.left = Assignments(seeding.read) /\ seeding' \in SeedStates
    BY <2>1, <2>2 DEF ClusterInv, SeedStates
  <2>4. Grouped' \subseteq seeding'.left
    BY <2>1, <2>3, GroupsPlanned, SameGroups
  <2>5. \A m \in seeding'.left : Key(seeding'.read[m]) # Absent
    BY <2>2, <2>3
  <2>6. Planned'
    BY <2>4, <2>5 DEF Planned, Key
  <2>7. ReadSoFar' /\ ~seeded'
    BY <2>1, <2>3 DEF ClusterInv, ReadSoFar
  <2>8. RowsLabelled'
    BY <2>1, SameGroups DEF ClusterInv
  <2> QED
    BY <2>1, <2>3, <2>6, <2>7, <2>8 DEF ClusterInv
<1>4. CASE SeedEnds
  <2>1. /\ seeding.next = "write" /\ seeding.left = {} /\ seeding' = NoSeeding
        /\ UNCHANGED <<fields, cluster, altered, placed>>
    BY <1>4 DEF SeedEnds
  <2>2. NoSeeding \in SeedStates /\ seeding'.next = "none"
    BY <2>1 DEF NoSeeding, SeedStates
  <2>3. \A m \in Grouped' : Current(m)'
    BY <2>1, SameGroups DEF ClusterInv, Planned
  <2>4. RowsLabelled' /\ Planned' /\ ReadSoFar'
    BY <2>1, <2>2, SameGroups DEF ClusterInv, Planned, ReadSoFar
  <2> QED
    BY <2>1, <2>2, <2>3, <2>4 DEF ClusterInv
<1>5. CASE SeedDies
  <2>1. /\ seeding.next # "none" /\ seeding' = NoSeeding
        /\ UNCHANGED <<fields, cluster, seeded, altered, placed>>
    BY <1>5 DEF SeedDies
  <2>2. NoSeeding \in SeedStates /\ seeding'.next = "none" /\ ~seeded'
    BY <2>1 DEF NoSeeding, SeedStates, ClusterInv, ReadSoFar
  <2>3. RowsLabelled' /\ Planned' /\ ReadSoFar'
    BY <2>1, <2>2, SameGroups DEF ClusterInv, Planned, ReadSoFar
  <2> QED
    BY <2>1, <2>2, <2>3 DEF ClusterInv
<1>6. CASE \E m \in Markets, id \in ByHand : Assign(m, id)
  <2> PICK m \in Markets, id \in ByHand : Assign(m, id)
    BY <1>6
  <2>1. /\ cluster' = [cluster EXCEPT ![m] = [id |-> id, source |-> "manual"]]
        /\ UNCHANGED <<fields, seeding, seeded, altered, placed>>
    BY DEF Assign
  <2>2. cluster'[m] = [id |-> id, source |-> "manual"] /\ cluster'[m] # Absent
    BY <2>1, ClusterAssumption DEF ClusterInv
  <2>3. \A n \in Markets : cluster'[n] = cluster[n] \/ Manual(n)'
    BY <2>1, <2>2 DEF Manual, ClusterInv
  <2>4. cluster' = [n \in Markets |-> cluster'[n]] /\ fields' \in [Markets -> Fields]
    BY <2>1 DEF ClusterInv
  <2> QED
    BY <2>1, <2>3, <2>4, DisturbanceStep
<1>7. CASE \E m \in Markets, f \in Fields : MarketChanges(m, f)
  <2> PICK m \in Markets, f \in Fields : MarketChanges(m, f)
    BY <1>7
  <2>1. /\ fields' = [fields EXCEPT ![m] = f] /\ altered' = altered \cup {m}
        /\ UNCHANGED <<cluster, seeding, seeded, placed>>
    BY DEF MarketChanges
  <2>2. /\ fields' \in [Markets -> Fields] /\ altered \subseteq altered'
        /\ \A n \in Markets \ altered' : fields'[n] = fields[n]
    BY <2>1 DEF ClusterInv
  <2>3. cluster' = [n \in Markets |-> cluster'[n]]
    BY <2>1 DEF ClusterInv
  <2> QED
    BY <2>1, <2>2, <2>3, DisturbanceStep
<1>8. CASE UNCHANGED clusterVars
  <2>1. UNCHANGED <<fields, cluster, altered, placed, seeding, seeded>>
    BY <1>8 DEF clusterVars
  <2>2. RowsLabelled' /\ Planned' /\ ReadSoFar'
    BY <2>1, SameGroups DEF ClusterInv, Planned, ReadSoFar
  <2>3. seeded' => \A m \in Grouped' : Current(m)'
    BY <2>1, SameGroups DEF ClusterInv
  <2> QED
    BY <2>1, <2>2, <2>3 DEF ClusterInv
<1> QED
  BY <1>1, <1>2, <1>3, <1>4, <1>5, <1>6, <1>7, <1>8 DEF ClusterNext

(* After a seeding two heuristic rows share a cluster exactly if they      *)
(* stand for one event, and every market of a group has one, for any       *)
(* markets, fields and chunk size (seed_heuristic_clusters).               *)
THEOREM EventsKeptApart == ClusterSpec => []EventsApart
<1>1. ClusterInv => EventsApart
  <2> SUFFICES ASSUME ClusterInv, seeded
               PROVE  /\ \A m \in Grouped : Heuristic(m)
                      /\ \A m, n \in {k \in Markets : Heuristic(k)} :
                           cluster[m].id = cluster[n].id <=> OneEvent(Standing(m), Standing(n))
    BY DEF EventsApart
  <2>1. \A m \in Grouped : Heuristic(m) /\ placed[m] = fields[m]
    BY DEF ClusterInv, Current
  <2>2. ASSUME NEW m \in {k \in Markets : Heuristic(k)}, NEW n \in {k \in Markets : Heuristic(k)}
        PROVE  cluster[m].id = cluster[n].id <=> OneEvent(Standing(m), Standing(n))
    <3>1. Standing(m) = placed[m] /\ Standing(n) = placed[n]
      BY <2>1 DEF Standing
    <3>2. /\ placed[m] \in Fields /\ Key(placed[m]) # Absent /\ cluster[m].id = Key(placed[m])
          /\ placed[n] \in Fields /\ Key(placed[n]) # Absent /\ cluster[n].id = Key(placed[n])
      BY DEF ClusterInv, RowsLabelled, Labelled
    <3> QED
      BY <3>1, <3>2, KeyIsEvent
  <2> QED
    BY <2>1, <2>2
<1> QED
  BY <1>1, ClusterStart, ClusterStep, PTL DEF ClusterSpec

(* An assignment by hand outlives every seeding (heuristics.py:22-25).     *)
THEOREM HandsWin == ClusterSpec => ManualWins
<1>1. ClusterInv /\ [ClusterNext]_clusterVars
      => [\A m \in Markets : Manual(m) => Manual(m)']_clusterVars
  <2> SUFFICES ASSUME ClusterInv, ClusterNext, NEW m \in Markets, Manual(m)
               PROVE  Manual(m)'
    OBVIOUS
  <2>1. CASE \E chunk \in SUBSET Markets : SeedChunk(chunk)
    BY <2>1 DEF SeedChunk, Overwritable, Manual
  <2>2. CASE \E n \in Markets, id \in ByHand : Assign(n, id)
    BY <2>2, ClusterAssumption DEF Assign, Manual, ClusterInv
  <2>3. CASE UNCHANGED cluster
    BY <2>3 DEF Manual
  <2> QED
    BY <2>1, <2>2, <2>3
    DEF ClusterNext, SeedRead, SeedPlan, SeedEnds, SeedDies, MarketChanges
<1> QED
  BY <1>1, ClusterStart, ClusterStep, PTL DEF ClusterSpec, ManualWins

-----------------------------------------------------------------------------
(* Scores: what happens to a position outside a date's window leaves the   *)
(* rows that the date's query returns as they were.                        *)

Positions == [at : Dates, gain : Gains, source : {"resolution", "end_date_proxy"}]

ScoresInv ==
  /\ date \in Dates /\ closed \in Seq(Positions)
  /\ score = [d \in Dates |-> score[d]]
  /\ Reproducible

LEMMA ScoresStart == ScoresInit => ScoresInv
BY ScoreAssumption DEF ScoresInit, ScoresInv, Reproducible, Dates

(* A verdict is a function of the flag and the gains in the window.        *)
LEMMA SameVerdict ==
  ASSUME NEW d \in Dates, UNCHANGED sybil,
         Counted(d)' = Counted(d),
         \A i \in Counted(d) : closed'[i].gain = closed[i].gain
  PROVE  Verdict(d)' = Verdict(d)
<1>1. Closings(d)' = Closings(d)
  BY DEF Closings
<1> QED
  BY <1>1 DEF Verdict

LEMMA BookStep ==
  ASSUME ScoresInv, NEW at_1 \in 0 .. date, NEW gain \in Gains,
         NEW source \in {"resolution", "end_date_proxy"}, Book(at_1, gain, source)
  PROVE  ScoresInv'
<1> DEFINE p == [at |-> at_1, gain |-> gain, source |-> source]
<1>1. /\ Today \in Nat /\ Span \in Nat /\ at_1 \in Dates /\ Dates \subseteq Int
  BY ScoreAssumption DEF ScoresInv, Dates
<1>2. p \in Positions /\ p.at = at_1
  BY <1>1 DEF Positions
<1> HIDE DEF p
<1>3. closed' = Append(closed, p) /\ UNCHANGED <<date, sybil, score>>
      /\ rewritten' = rewritten \cup Behind(at_1)
  BY DEF Book, p
<1>4. /\ closed' \in Seq(Positions) /\ DOMAIN closed' = DOMAIN closed \cup {Len(closed) + 1}
      /\ Len(closed) + 1 \notin DOMAIN closed
      /\ closed'[Len(closed) + 1] = p
      /\ \A i \in DOMAIN closed : closed'[i] = closed[i]
  BY <1>2, <1>3 DEF ScoresInv
<1>5. ASSUME NEW d \in Dates, score'[d] # NoScore, d \notin rewritten'
      PROVE  score'[d] = Verdict(d)'
  <2>1. ~InWindow(p, d)
    BY <1>1, <1>2, <1>3, <1>5 DEF Behind, InWindow
  <2>2. Counted(d)' = Counted(d)
    BY <1>4, <2>1 DEF Counted, InWindow, Trusted
  <2>3. \A i \in Counted(d) : closed'[i].gain = closed[i].gain
    BY <1>4 DEF Counted
  <2>4. score[d] = Verdict(d)
    BY <1>3, <1>5 DEF ScoresInv, Reproducible
  <2> QED
    BY <1>3, <2>2, <2>3, <2>4, SameVerdict
<1> QED
  BY <1>3, <1>4, <1>5 DEF ScoresInv, Reproducible

LEMMA DistrustStep ==
  ASSUME ScoresInv, NEW i \in DOMAIN closed, Distrust(i) PROVE ScoresInv'
<1>1. /\ closed' = [closed EXCEPT ![i].source = "end_date_proxy"]
      /\ UNCHANGED <<date, sybil, score>> /\ rewritten' = rewritten \cup Behind(closed[i].at)
  BY DEF Distrust
<1>2. \A k \in DOMAIN closed : closed[k] \in Positions
  BY DEF ScoresInv
<1>3. /\ DOMAIN closed' = DOMAIN closed
      /\ \A k \in DOMAIN closed : /\ closed'[k].at = closed[k].at
                                  /\ closed'[k].gain = closed[k].gain
                                  /\ k # i => closed'[k] = closed[k]
  BY <1>1, <1>2 DEF Positions, ScoresInv
<1>4. closed' \in Seq(Positions)
  <2>1. [closed[i] EXCEPT !.source = "end_date_proxy"] \in Positions
    BY <1>2 DEF Positions
  <2> QED
    BY <1>1, <2>1 DEF ScoresInv
<1>5. Span \in Nat /\ Dates \subseteq Int /\ closed[i].at \in Dates
  BY <1>2, ScoreAssumption DEF Positions, Dates
<1>6. ASSUME NEW d \in Dates, score'[d] # NoScore, d \notin rewritten'
      PROVE  score'[d] = Verdict(d)'
  <2>1. ~InWindow(closed[i], d)
    BY <1>1, <1>5, <1>6 DEF Behind, InWindow
  <2>2. Counted(d)' = Counted(d)
    BY <1>3, <2>1 DEF Counted, InWindow, Trusted
  <2>3. \A k \in Counted(d) : closed'[k].gain = closed[k].gain
    BY <1>3 DEF Counted
  <2>4. score[d] = Verdict(d)
    BY <1>1, <1>6 DEF ScoresInv, Reproducible
  <2> QED
    BY <1>1, <2>2, <2>3, <2>4, SameVerdict
<1> QED
  BY <1>1, <1>4, <1>6 DEF ScoresInv, Reproducible

LEMMA ScoresStep ==
  ASSUME ScoresInv, [ScoresNext]_scoreVars PROVE ScoresInv'
<1>1. CASE \E asOf \in 0 .. date : Score(asOf)
  <2> PICK asOf \in 0 .. date : Score(asOf)
    BY <1>1
  <2>1. UNCHANGED <<date, closed, sybil>> /\ \A d \in Dates : Verdict(d)' = Verdict(d)
    BY DEF Score, Verdict, Closings, Counted, InWindow, Trusted
  <2>2. score' = [score EXCEPT ![asOf] = Verdict(asOf)] /\ rewritten' = rewritten \ {asOf}
    BY DEF Score
  <2> QED
    BY <2>1, <2>2 DEF ScoresInv, Reproducible
<1>2. CASE \E at_1 \in 0 .. date, gain \in Gains, source \in {"resolution", "end_date_proxy"} :
             Book(at_1, gain, source)
  BY <1>2, BookStep
<1>3. CASE \E i \in DOMAIN closed : Distrust(i)
  BY <1>3, DistrustStep
<1>4. CASE FlagSybil
  BY <1>4 DEF FlagSybil, ScoresInv, Reproducible
<1>5. CASE NextDate \/ UNCHANGED scoreVars
  <2>1. UNCHANGED <<closed, sybil, score, rewritten>>
        /\ \A d \in Dates : Verdict(d)' = Verdict(d)
    BY <1>5 DEF NextDate, scoreVars, Verdict, Closings, Counted, InWindow, Trusted
  <2>2. date' \in Dates
    BY <1>5, ScoreAssumption DEF NextDate, scoreVars, ScoresInv, Dates
  <2> QED
    BY <2>1, <2>2 DEF ScoresInv, Reproducible
<1> QED
  BY <1>1, <1>2, <1>3, <1>4, <1>5 DEF ScoresNext

(* No look-ahead, for any window, thresholds and positions: a stored score *)
(* is what scoring its date again would say until its past is rewritten    *)
(* (engine.py:39-42).                                                      *)
THEOREM NoLookAhead == ScoresSpec => []Reproducible
<1>1. ScoresInv => Reproducible
  BY DEF ScoresInv
<1> QED
  BY <1>1, ScoresStart, ScoresStep, PTL DEF ScoresSpec

-----------------------------------------------------------------------------
-----------------------------------------------------------------------------
(* The types of the parts, and of the side jobs together.                  *)

(* Price levels keep their types: a row that is not set has no state, and  *)
(* no age exceeds the cooldown and the longest lag (price_levels.py).      *)
THEOREM LevelsTyped == LevelsSpec => []LevelsTypeOK
<1>1. LevelInv => LevelsTypeOK
  BY DEF LevelInv, LevelTypes, LevelsTypeOK
<1> QED
  BY <1>1, LevelsStart, LevelStep, PTL DEF LevelsSpec

(* What the checks watch.                                                  *)
Watched == worker \in {"up", "down"} /\ backlog \in BOOLEAN /\ broken \subseteq Troubles

LEMMA WatchedStep == Watched /\ [ChecksNext]_checkVars => Watched'
BY DEF Watched, ChecksNext, checkVars, StartWorker, StopWorker, RunCheck, Misfire,
       Moves, BacklogChanges, TroubleChanges, Hour

(* No timer of the worker's checks runs below zero or beyond its interval, *)
(* for any intervals, limits and number of dropped runs.                   *)
THEOREM ChecksTyped == ChecksSpec => []ChecksTypeOK
<1>1. ChecksInit => Watched
  BY DEF ChecksInit, Watched
<1>2. ChecksInv /\ Watched => ChecksTypeOK
  <2> SUFFICES ASSUME ChecksInv, Watched PROVE ChecksTypeOK
    OBVIOUS
  <2>1. ASSUME NEW c \in Checks
        PROVE  due[c] \in 0..Every[c] /\ misses[c] \in 0..MaxMisses /\ unheard[c] \in Nat
    <3>1. due[c] \in Nat /\ due[c] <= Every[c] /\ Every[c] \in Nat
      BY ChecksAssumption DEF ChecksInv, CheckTypes, Patience
    <3> QED
      BY <3>1 DEF ChecksInv, CheckTypes
  <2>2. \A s \in Sources : silence[s] \in 0..Limit[s]
    BY DEF ChecksInv, CheckTypes
  <2> QED
    BY <2>1, <2>2 DEF ChecksTypeOK, Watched
<1> QED
  BY <1>1, <1>2, ChecksStart, ChecksStep, WatchedStep, PTL DEF ChecksSpec

(* The rest of the digests' state.                                         *)
AgesTyped ==
  /\ up \in BOOLEAN /\ redis \in BOOLEAN
  /\ age \in [Alerts -> 0..(Day + Longest + 1) \cup {NotYet}]
  /\ skipped \subseteq Alerts

LEMMA AgesStep == AgesTyped /\ [DigestNext]_digestVars => AgesTyped'
<1> SUFFICES ASSUME AgesTyped, [DigestNext]_digestVars PROVE AgesTyped'
  OBVIOUS
<1>1. CASE \E a \in Alerts, n \in 0..AlertLag : NewAlert(a, n)
  <2> PICK a \in Alerts, n \in 0..AlertLag : NewAlert(a, n)
    BY <1>1
  <2>1. n \in 0..(Day + Longest + 1)
    BY Times
  <2> QED
    BY <2>1 DEF NewAlert, AgesTyped
<1>2. CASE NextHour
  <2>1. ASSUME NEW n \in 0..(Day + Longest + 1) \cup {NotYet}
        PROVE  Older(n) \in 0..(Day + Longest + 1) \cup {NotYet}
    BY Times DEF Older
  <2>2. age' \in [Alerts -> 0..(Day + Longest + 1) \cup {NotYet}]
    BY <1>2, <2>1 DEF NextHour, AgesTyped
  <2>3. skipped' \subseteq Alerts /\ up' = up /\ redis' = redis
    BY <1>2 DEF NextHour, AgesTyped
  <2> QED
    BY <2>2, <2>3 DEF AgesTyped
<1>3. CASE Dies \/ WalletFails \/ \E job_1 \in Daily : Misfired(job_1)
  BY <1>3 DEF Dies, WalletFails, Misfired, Waiting, AgesTyped
<1>4. CASE \/ \E w \in Warnings : Warn(w)
           \/ FlushRead \/ FlushDelete \/ FlushSend \/ WalletStart \/ WalletSelect
           \/ Restarts \/ RedisChanges \/ UNCHANGED digestVars
  BY <1>4
  DEF Warn, FlushRead, FlushDelete, FlushSend, WalletStart, WalletSelect, Restarts,
      RedisChanges, AgesTyped, walletVars, digestVars
<1> QED
  BY <1>1, <1>2, <1>3, <1>4 DEF DigestNext

(* The digests keep their types, and only raised warnings are queued or in *)
(* a batch (system_alerts.py, run_wallet_alert_digest.py).                       *)
THEOREM DigestsTyped == DigestSpec => []DigestTypeOK
<1>1. DigestInit => AgesTyped
  BY Times DEF DigestInit, AgesTyped
<1>2. DigestInv /\ AgesTyped => DigestTypeOK
  BY DEF DigestInv, WarnPart, WalletPart, Timely, AgesTyped, DigestTypeOK
<1> QED
  BY <1>1, <1>2, DigestStays, AgesStep, PTL DEF DigestSpec

(* The captures, the rows and the rest of the snapshots' state.            *)
PassStates == [next : {"scan", "price", "write"}, asked : Nat, side : Sides]

CapturesTyped ==
  /\ day \in 0 .. LastDay /\ late \subseteq Buckets /\ fill \in Sides
  /\ pass \in [Passes -> PassStates]
  /\ \A w \in Passes : pass[w].next = "write" => pass[w].side # NoLabel

RowsTyped ==
  \A b \in Buckets : Taken(b) => snapshot[b] \in [side : Labels, resolution : Sides]

Quiet == Resolved => ~market.active

LEMMA CapturesStep ==
  ASSUME SnapInv, CapturesTyped, [SnapshotNext]_snapVars PROVE CapturesTyped'
<1>1. CASE \E w \in Passes : PassScan(w)
  BY <1>1, SnapshotAssumption DEF PassScan, CapturesTyped, PassStates, Sides
<1>2. IdlePass \in PassStates /\ IdlePass.next = "scan"
  BY DEF IdlePass, PassStates, Sides
<1>3. CASE \E w \in Passes, volume \in Volumes, side \in Labels \cup {NoLabel} :
             PassPrice(w, volume, side)
  <2> PICK w \in Passes, volume \in Volumes, side \in Labels \cup {NoLabel} :
             PassPrice(w, volume, side)
    BY <1>3
  <2>1. UNCHANGED <<day, fill, late>>
    BY DEF PassPrice
  <2>2. CASE pass' = [pass EXCEPT ![w] = IdlePass]
    BY <1>2, <2>1, <2>2 DEF CapturesTyped
  <2>3. CASE side # NoLabel
             /\ pass' = [pass EXCEPT ![w] = [pass[w] EXCEPT !.next = "write", !.side = side]]
    <3> DEFINE new == [pass[w] EXCEPT !.next = "write", !.side = side]
    <3>1. new \in PassStates /\ new.side = side
      BY DEF CapturesTyped, PassStates, Sides
    <3> HIDE DEF new
    <3>2. pass' = [pass EXCEPT ![w] = new]
      BY <2>3 DEF new
    <3> QED
      BY <2>1, <2>3, <3>1, <3>2 DEF CapturesTyped
  <2> QED
    BY <2>2, <2>3 DEF PassPrice
<1>4. CASE \E w \in Passes : PassWrite(w)
  <2> PICK w \in Passes : PassWrite(w)
    BY <1>4
  <2>1. Bucket(pass[w].asked) \in Buckets
    BY DEF Bucket, Buckets
  <2>2. late' \subseteq Buckets
    BY <2>1 DEF PassWrite, CapturesTyped
  <2>3. pass' = [pass EXCEPT ![w] = IdlePass] /\ UNCHANGED <<day, fill>>
    BY DEF PassWrite
  <2> QED
    BY <1>2, <2>2, <2>3 DEF CapturesTyped
<1>5. CASE JobsDie
  BY <1>2, <1>5 DEF JobsDie, CapturesTyped, Sides
<1>6. CASE NextDay
  <2>1. day' \in 0 .. LastDay
    BY <1>6, SnapshotAssumption DEF NextDay, CapturesTyped
  <2> QED
    BY <1>6, <2>1 DEF NextDay, CapturesTyped
<1>7. CASE FillScan
  <2>1. fill' \in Sides
    BY <1>7 DEF FillScan, SnapInv, SnapTypes
  <2> QED
    BY <1>7, <2>1 DEF FillScan, CapturesTyped
<1>8. CASE \E favours \in EntryFavours : FillWrite(favours)
  BY <1>8 DEF FillWrite, CapturesTyped, Sides
<1>9. CASE \/ \E j \in Resolvers :
                \/ JobScan(j) \/ JobRests(j) \/ JobCommit(j) \/ JobFails(j)
                \/ \E answer \in Answers(j) : JobAsk(j, answer)
                \/ \E favours \in EntryFavours : JobFlush(j, favours)
           \/ \E volume \in Volumes, active \in BOOLEAN, label \in GammaSays :
                Upsert(volume, active, label)
           \/ Cleanup \/ UNCHANGED snapVars
  <2>1. UNCHANGED <<day, late, fill, pass>>
    BY <1>9
    DEF JobScan, JobRests, JobCommit, JobFails, JobAsk, JobFlush, Upsert, Cleanup, snapVars
  <2> QED
    BY <2>1 DEF CapturesTyped
<1> QED
  BY <1>1, <1>3, <1>4, <1>5, <1>6, <1>7, <1>8, <1>9 DEF SnapshotNext

LEMMA RowsStep ==
  ASSUME SnapInv, CapturesTyped, RowsTyped, [SnapshotNext]_snapVars PROVE RowsTyped'
<1> DEFINE Rows_ == [side : Labels, resolution : Sides]
<1>1. CASE \E w \in Passes : PassWrite(w)
  <2> PICK w \in Passes : PassWrite(w)
    BY <1>1
  <2>1. Row(pass[w].side, NoLabel) \in Rows_
    BY DEF PassWrite, CapturesTyped, PassStates, Sides, Row
  <2>2. \A b \in Buckets : snapshot'[b] \in {snapshot[b], Row(pass[w].side, NoLabel)}
    BY DEF PassWrite, SnapInv, SnapTypes
  <2> QED
    BY <2>1, <2>2 DEF RowsTyped, Taken
<1>2. CASE \E j \in Resolvers : JobCommit(j)
  <2> PICK j \in Resolvers : JobCommit(j)
    BY <1>2
  <2>1. Holding(j) /\ job[j].answer \in Labels
    BY DEF JobCommit, SnapInv, JobsSound, SnapTypes, JobStates, Sides
  <2>2. ASSUME NEW b \in Buckets, Taken(b)' PROVE snapshot'[b] \in Rows_
    <3>1. snapshot'[b] = IF b \in job[j].loaded THEN Row(snapshot[b].side, job[j].answer)
                         ELSE IF b = "T24" /\ job[j].made THEN Row(job[j].answer, job[j].answer)
                         ELSE snapshot[b]
      BY DEF JobCommit, Settle, SettleLoaded
    <3>2. CASE b \in job[j].loaded
      <4>1. snapshot[b] \in Rows_
        BY <2>1, <3>2 DEF Holding, Open, RowsTyped
      <4> QED
        BY <2>1, <3>1, <3>2, <4>1 DEF Row, Sides
    <3>3. CASE b \notin job[j].loaded /\ b = "T24" /\ job[j].made
      BY <2>1, <3>1, <3>3 DEF Row, Sides
    <3>4. CASE b \notin job[j].loaded /\ ~(b = "T24" /\ job[j].made)
      BY <2>2, <3>1, <3>4 DEF RowsTyped, Taken
    <3> QED
      BY <3>2, <3>3, <3>4
  <2> QED
    BY <2>2 DEF RowsTyped
<1>3. CASE \E favours \in EntryFavours : FillWrite(favours)
  <2>1. fill # NoLabel /\ Row(fill, fill) \in Rows_
    BY <1>3 DEF FillWrite, CapturesTyped, Sides, Row
  <2>2. \A b \in Buckets : snapshot'[b] \in {snapshot[b], Row(fill, fill)}
    BY <1>3 DEF FillWrite, SnapInv, SnapTypes
  <2> QED
    BY <2>1, <2>2 DEF RowsTyped, Taken
<1>4. CASE Cleanup
  BY <1>4 DEF Cleanup, RowsTyped, Taken
<1>5. CASE UNCHANGED snapshot
  BY <1>5 DEF RowsTyped, Taken
<1> QED
  BY <1>1, <1>2, <1>3, <1>4, <1>5
  DEF SnapshotNext, PassScan, PassPrice, JobScan, JobRests, JobFails, JobAsk, JobFlush,
      FillScan, Upsert, JobsDie, NextDay, snapVars

LEMMA QuietStep == ASSUME SnapInv, Quiet, [SnapshotNext]_snapVars PROVE Quiet'
<1>1. market \in [resolution : Sides, active : BOOLEAN, volume : Volumes]
  BY DEF SnapInv, SnapTypes
<1>2. CASE \E w \in Passes, volume \in Volumes, side \in Labels \cup {NoLabel} :
             PassPrice(w, volume, side)
  BY <1>1, <1>2 DEF PassPrice, Quiet, Resolved
<1>3. CASE \E j \in Resolvers : JobRests(j) \/ JobCommit(j)
  BY <1>1, <1>3 DEF JobRests, JobCommit, Quiet, Resolved
<1>4. CASE \E volume \in Volumes, active \in BOOLEAN, label \in GammaSays :
             Upsert(volume, active, label)
  <2> PICK volume \in Volumes, active \in BOOLEAN, label \in GammaSays :
         Upsert(volume, active, label)
    BY <1>4
  <2> DEFINE settlement == IF Resolved THEN market.resolution ELSE label
  <2>1. market'.resolution = settlement /\ market'.active = (active /\ settlement = NoLabel)
    BY DEF Upsert
  <2> QED
    BY <2>1 DEF Quiet, Resolved
<1>5. CASE \/ \E w \in Passes : PassScan(w) \/ PassWrite(w)
           \/ \E j \in Resolvers :
                \/ JobScan(j) \/ JobFails(j)
                \/ \E answer \in Answers(j) : JobAsk(j, answer)
                \/ \E favours \in EntryFavours : JobFlush(j, favours)
           \/ FillScan \/ (\E favours \in EntryFavours : FillWrite(favours))
           \/ Cleanup \/ JobsDie \/ NextDay \/ UNCHANGED snapVars
  <2>1. UNCHANGED market
    BY <1>5
    DEF PassScan, PassWrite, JobScan, JobFails, JobAsk, JobFlush, FillScan, FillWrite,
        Cleanup, JobsDie, NextDay, snapVars
  <2> QED
    BY <2>1 DEF Quiet, Resolved
<1> QED
  BY <1>2, <1>3, <1>4, <1>5 DEF SnapshotNext

(* A set without two different elements has one at most.                   *)
LEMMA AtMostOne == ASSUME NEW C, \A j, k \in C : j = k PROVE Cardinality(C) <= 1
<1>1. CASE C = {}
  BY <1>1, FS_EmptySet
<1>2. CASE C # {}
  <2>1. PICK one \in C : C = {one}
    BY <1>2
  <2>2. Cardinality({one}) = 1
    BY FS_Singleton
  <2> QED
    BY <2>1, <2>2
<1> QED
  BY <1>1, <1>2

(* The row lock leaves one resolving job between flush and commit.         *)
LEMMA OneCommits ==
  ASSUME SnapInv PROVE Cardinality({j \in Resolvers : job[j].next = "commit"}) <= 1
<1>1. \A j, k \in {i \in Resolvers : job[i].next = "commit"} : j = k
  BY DEF SnapInv, JobsSound
<1> QED
  BY <1>1, AtMostOne

(* A captured row has a side and at most one settlement, a resolved market *)
(* is not active, and the row lock of run_market_resolver.py lets one job  *)
(* at most be between its flush and its commit, for any labels, opening    *)
(* times and calendar.                                                     *)
THEOREM SnapshotsTyped == SnapshotSpec => []SnapshotTypeOK
<1> DEFINE Inv == SnapInv /\ CapturesTyped /\ RowsTyped /\ Quiet
<1>1. SnapshotInit => Inv
  <2> SUFFICES ASSUME SnapshotInit PROVE Inv
    OBVIOUS
  <2>1. CapturesTyped
    BY SnapshotAssumption DEF SnapshotInit, CapturesTyped, PassStates, IdlePass, Sides
  <2>2. RowsTyped /\ Quiet
    BY DEF SnapshotInit, RowsTyped, Quiet, Taken, Resolved
  <2> QED
    BY <2>1, <2>2, SnapStart
<1>2. Inv /\ [SnapshotNext]_snapVars => Inv'
  BY SnapStep, CapturesStep, RowsStep, QuietStep
<1>3. Inv => SnapshotTypeOK
  <2> SUFFICES ASSUME SnapInv, CapturesTyped, RowsTyped, Quiet PROVE SnapshotTypeOK
    OBVIOUS
  <2>1. market \in [resolution : Labels \cup {NoLabel}, active : BOOLEAN, volume : Volumes]
        /\ \A j \in Resolvers : job[j].next \in {"scan", "ask", "apply", "commit", "doomed"}
    BY DEF SnapInv, SnapTypes, Sides, JobStates
  <2>2. \A w \in Passes : pass[w].next \in {"scan", "price", "write"}
    BY DEF CapturesTyped, PassStates
  <2>3. \A b \in Buckets : Taken(b) =>
          snapshot[b] \in [side : Labels, resolution : Labels \cup {NoLabel}]
    BY DEF RowsTyped, Sides
  <2>4. day \in 0 .. LastDay /\ late \subseteq Buckets /\ (Resolved => ~market.active)
    BY DEF CapturesTyped, Quiet
  <2> QED
    BY <2>1, <2>2, <2>3, <2>4, OneCommits DEF SnapshotTypeOK
<1> QED
  BY <1>1, <1>2, <1>3, PTL DEF SnapshotSpec

(* A behaviour of the side jobs is one of each part.                       *)
LEMMA EveryPart ==
  MCSpec => Spec /\ LevelsSpec /\ ChecksSpec /\ DigestSpec /\ SnapshotSpec
<1> DEFINE moved == <<part, vars, levelVars, checkVars, digestVars, snapVars,
                      clusterVars, scoreVars>>
<1>1. MCInit => Init /\ LevelsInit /\ ChecksInit /\ DigestInit /\ SnapshotInit
  BY DEF MCInit
<1>2. [MCNext]_moved => [Next]_vars
  BY DEF MCNext, Rest
<1>3. [MCNext]_moved => [LevelsNext]_levelVars
  BY DEF MCNext, Rest
<1>4. [MCNext]_moved => [ChecksNext]_checkVars
  BY DEF MCNext, Rest
<1>5. [MCNext]_moved => [DigestNext]_digestVars
  BY DEF MCNext, Rest
<1>6. [MCNext]_moved => [SnapshotNext]_snapVars
  BY DEF MCNext, Rest
<1> QED
  BY <1>1, <1>2, <1>3, <1>4, <1>5, <1>6, PTL
  DEF MCSpec, Spec, LevelsSpec, ChecksSpec, DigestSpec, SnapshotSpec

(* The type invariants of the five parts hold of the side jobs, however    *)
(* large the instance.                                                     *)
THEOREM SideTypesHold == MCSpec => []SideTypes
<1>1. TypeOK /\ LevelsTypeOK /\ ChecksTypeOK /\ DigestTypeOK /\ SnapshotTypeOK
      => SideTypes
  BY DEF SideTypes
<1> QED
  BY <1>1, EveryPart, AlertTypes, LevelsTyped, ChecksTyped, DigestsTyped,
     SnapshotsTyped, PTL
=============================================================================
