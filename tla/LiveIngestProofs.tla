-------------------------- MODULE LiveIngestProofs --------------------------
(***************************************************************************)
(* Proofs about LiveIngest, for all assets, wallets and settings.  Maps    *)
(* holds since a refresh extends the map of assets before it replaces the  *)
(* ids, and since a new ingestor also has no ids and no connection;        *)
(* Trusted follows an event through its steps.                             *)
(***************************************************************************)
EXTENDS LiveIngest, TLAPS

EventType ==
  [at : {"none", "attribute", "verify", "store", "stored"},
   asset : Assets \cup {0}, size : {"small", "large"},
   market : {"known", "unknown"}, seen : SUBSET Wallets,
   wallet : Wallets \cup {"none"},
   check : {"none", "confirmed", "rejected", "failed"}]

Typed ==
  /\ open \subseteq Assets /\ watching \subseteq Wallets
  /\ mode \in {"starting", "down", "up", "dead"}
  /\ looping \in {"on", "off"}
  /\ mode \in {"starting", "dead"} => looping = "off"
  /\ mode = "dead" => step["main"] = "idle"
  /\ step \in [Tasks -> {"idle", "rows", "watched"}]
  /\ rows \in [Tasks -> SUBSET Assets]
  /\ known \subseteq Assets /\ watched \subseteq Wallets
  /\ ids \subseteq Assets /\ sub \subseteq Assets
  /\ ev \in EventType
  /\ faults \in 0..MaxFaults

Maps ==
  /\ \A t \in Tasks : rows[t] \subseteq known
  /\ ids \subseteq known
  /\ sub \subseteq known
  /\ ev.market = "known"

Trusted ==
  /\ ev.at = "attribute" => ev.check = "none"
  /\ ev.at = "verify" => ev.wallet \in ev.seen
  /\ ev.at = "store" /\ ev.check # "none" => ev.wallet \in ev.seen
  /\ TrustedOnly

(* Only the loop refreshes while it runs beside a starting main task.      *)
Quiet == mode \in {"starting", "dead"} => step["loop"] = "idle"

IInv == Typed /\ Quiet /\ Maps /\ Trusted

-----------------------------------------------------------------------------
LEMMA WantedTyped ==
  ASSUME Typed
  PROVE  Wanted \subseteq Assets
  BY ConstantsAssumption DEF Typed, Wanted

LEMMA NoEventTyped == NoEvent \in EventType /\ NoEvent.at = "none" /\ NoEvent.market = "known"
  BY DEF NoEvent, EventType

(* A fault stays within the bound.                                         *)
LEMMA FaultTyped ==
  ASSUME faults \in 0..MaxFaults, Fault
  PROVE  faults' \in 0..MaxFaults
  BY ConstantsAssumption DEF Fault

LEMMA InitInv == Init => IInv
  <1> SUFFICES ASSUME Init PROVE IInv
    OBVIOUS
  <1>1. Typed
    BY NoEventTyped, ConstantsAssumption DEF Init, Typed, Tasks
  <1>2. Quiet
    BY DEF Init, Quiet, Tasks
  <1>3. Maps
    BY NoEventTyped DEF Init, Maps
  <1>4. Trusted
    BY NoEventTyped DEF Init, Trusted, TrustedOnly
  <1>5. QED
    BY <1>1, <1>2, <1>3, <1>4 DEF IInv

-----------------------------------------------------------------------------
(* Refreshing and connecting leave the event alone.                        *)

LEMMA EventKept ==
  ASSUME Trusted, ev' = ev
  PROVE  Trusted'
  BY DEF Trusted, TrustedOnly

LEMMA EventDropped ==
  ASSUME ev' = NoEvent
  PROVE  Trusted'
  BY NoEventTyped DEF Trusted, TrustedOnly

LEMMA LoopWakesKeeps == ASSUME IInv, LoopWakes PROVE IInv'
  <1>1. Typed' /\ Quiet'
    BY DEF IInv, Typed, Quiet, LoopWakes, database, memory, Tasks
  <1>2. Maps'
    BY DEF IInv, Maps, LoopWakes, memory
  <1>3. Trusted'
    BY EventKept DEF IInv, LoopWakes
  <1>4. QED
    BY <1>1, <1>2, <1>3 DEF IInv

LEMMA ReadRowsKeeps == ASSUME IInv, NEW t \in Tasks, ReadRows(t) PROVE IInv'
  <1>1. Wanted \subseteq Assets
    BY WantedTyped DEF IInv
  <1>2. Typed' /\ Quiet'
    BY <1>1 DEF IInv, Typed, Quiet, ReadRows, database, Tasks
  <1>3. Maps'
    BY DEF IInv, Typed, Maps, ReadRows
  <1>4. Trusted'
    BY EventKept DEF IInv, ReadRows
  <1>5. QED
    BY <1>2, <1>3, <1>4 DEF IInv

LEMMA ReadWatchedKeeps == ASSUME IInv, NEW t \in Tasks, ReadWatched(t) PROVE IInv'
  <1>1. /\ step' = [step EXCEPT ![t] = "idle"] /\ rows' = [rows EXCEPT ![t] = {}]
        /\ watched' = watching /\ ids' = rows[t]
        /\ UNCHANGED <<open, watching, known, sub, ev, faults>>
    BY DEF ReadWatched, NewIds, database
  <1>2. \/ mode = "starting" /\ mode' = "down" /\ looping' = "on"
        \/ mode # "starting" /\ mode' = mode /\ looping' = looping
    BY DEF ReadWatched
  <1>3. rows[t] \subseteq Assets /\ rows[t] \subseteq known
    BY DEF IInv, Typed, Maps
  <1>4. Typed'
    BY <1>1, <1>2, <1>3 DEF IInv, Typed, Tasks
  <1>5. Quiet'
    BY <1>1, <1>2 DEF IInv, Typed, Quiet, Tasks
  <1>6. Maps'
    BY <1>1, <1>3 DEF IInv, Typed, Maps
  <1>7. Trusted'
    BY <1>1, EventKept DEF IInv
  <1>8. QED
    BY <1>4, <1>5, <1>6, <1>7 DEF IInv

LEMMA LoopFailsKeeps == ASSUME IInv, LoopFails PROVE IInv'
  <1>1. faults' \in 0..MaxFaults
    BY FaultTyped DEF IInv, Typed, LoopFails
  <1>2. Typed' /\ Quiet'
    BY <1>1 DEF IInv, Typed, Quiet, LoopFails, database, memory, Tasks
  <1>3. Maps'
    BY DEF IInv, Typed, Maps, LoopFails, memory
  <1>4. Trusted'
    BY EventKept DEF IInv, LoopFails
  <1>5. QED
    BY <1>2, <1>3, <1>4 DEF IInv

LEMMA CrashKeeps == ASSUME IInv, Crash PROVE IInv'
  <1>1. faults' \in 0..MaxFaults
    BY FaultTyped DEF IInv, Typed, Crash
  <1>2. Typed' /\ Quiet'
    BY <1>1, NoEventTyped DEF IInv, Typed, Quiet, Crash, LoopStops, database, Tasks
  <1>3. Maps'
    BY NoEventTyped DEF Maps, Crash
  <1>4. Trusted'
    BY EventDropped DEF Crash
  <1>5. QED
    BY <1>2, <1>3, <1>4 DEF IInv

LEMMA RestartKeeps == ASSUME IInv, Restart PROVE IInv'
  <1>1. Typed' /\ Quiet'
    BY DEF IInv, Typed, Quiet, Restart, database, memory, Tasks
  <1>2. Maps'
    BY DEF IInv, Maps, Restart, memory
  <1>3. Trusted'
    BY EventKept DEF IInv, Restart
  <1>4. QED
    BY <1>1, <1>2, <1>3 DEF IInv

LEMMA ConnectionKeeps ==
  ASSUME IInv, FillIds \/ Connect \/ Disconnect
  PROVE  IInv'
  <1>1. Typed' /\ Quiet'
    BY DEF IInv, Typed, Quiet, FillIds, Connect, Disconnect, Subscription,
           database, memory, Tasks
  <1>2. Maps'
    BY DEF IInv, Maps, FillIds, Connect, Disconnect, Subscription, memory
  <1>3. Trusted'
    BY EventKept DEF IInv, FillIds, Connect, Disconnect
  <1>4. QED
    BY <1>1, <1>2, <1>3 DEF IInv

-----------------------------------------------------------------------------
(* Handling an event changes nothing but the event.                        *)

LEMMA ProceedKeeps ==
  ASSUME IInv, NEW e \in EventType, Proceed(e), faults' \in 0..MaxFaults,
         e.market = "known", Trusted'
  PROVE  IInv'
  <1>1. Typed' /\ Quiet'
    BY DEF IInv, Typed, Quiet, Proceed, database, memory
  <1>2. Maps'
    BY DEF IInv, Maps, Proceed, memory
  <1>3. QED
    BY <1>1, <1>2 DEF IInv

LEMMA DropKeeps ==
  ASSUME IInv, Proceed(NoEvent), faults' \in 0..MaxFaults
  PROVE  IInv'
  BY NoEventTyped, EventDropped, ProceedKeeps DEF Proceed

LEMMA ReceiveKeeps ==
  ASSUME IInv, NEW a \in Assets, NEW size \in {"small", "large"}, Receive(a, size)
  PROVE  IInv'
  <1> DEFINE e == [NoEvent EXCEPT !.at = "attribute", !.asset = a, !.size = size,
                     !.seen = watched,
                     !.market = IF a \in known THEN "known" ELSE "unknown"]
  <1>1. a \in known /\ watched \in SUBSET Wallets
    BY DEF IInv, Typed, Maps, Receive
  <1>2. e \in EventType /\ e.market = "known" /\ e.at = "attribute" /\ e.check = "none"
    BY <1>1 DEF NoEvent, EventType
  <1>3. Proceed(e) /\ faults' = faults
    BY DEF Receive
  <1> HIDE DEF e
  <1>4. Trusted'
    BY <1>2, <1>3 DEF Proceed, Trusted, TrustedOnly
  <1>5. QED
    BY <1>2, <1>3, <1>4, ProceedKeeps DEF IInv, Typed

LEMMA AttributeKeeps ==
  ASSUME IInv, NEW w \in Wallets \cup {"none"}, Attribute(w)
  PROVE  IInv'
  <1> DEFINE e == [ev EXCEPT !.at = IF w \in ev.seen THEN "verify" ELSE "store",
                             !.wallet = w]
  <1>1. ev \in EventType /\ ev.market = "known" /\ ev.at = "attribute" /\ ev.check = "none"
    BY DEF IInv, Typed, Maps, Trusted, Attribute
  <1>2. /\ e \in EventType /\ e.market = "known" /\ e.check = "none"
        /\ e.at = IF w \in e.seen THEN "verify" ELSE "store"
        /\ e.wallet = w
    BY <1>1 DEF EventType
  <1>3. Proceed(e) /\ faults' = faults
    BY DEF Attribute
  <1> HIDE DEF e
  <1>4. Trusted'
    BY <1>2, <1>3 DEF Proceed, Trusted, TrustedOnly
  <1>5. QED
    BY <1>2, <1>3, <1>4, ProceedKeeps DEF IInv, Typed

LEMMA VerifyKeeps ==
  ASSUME IInv, NEW answer \in {"confirmed", "rejected", "failed"}, Verify(answer)
  PROVE  IInv'
  <1> DEFINE e == [ev EXCEPT !.at = "store", !.check = answer]
  <1>1. ev \in EventType /\ ev.market = "known" /\ ev.wallet \in ev.seen
    BY DEF IInv, Typed, Maps, Trusted, Verify
  <1>2. e \in EventType /\ e.market = "known" /\ e.at = "store" /\ e.wallet \in e.seen
    BY <1>1 DEF EventType
  <1>3. Proceed(e) /\ faults' = faults
    BY DEF Verify
  <1> HIDE DEF e
  <1>4. Trusted'
    BY <1>2, <1>3 DEF Proceed, Trusted, TrustedOnly
  <1>5. QED
    BY <1>2, <1>3, <1>4, ProceedKeeps DEF IInv, Typed

LEMMA StoreKeeps ==
  ASSUME IInv, Store
  PROVE  IInv'
  <1> DEFINE w == Finalized(ev)
             e == [ev EXCEPT !.at = "stored", !.wallet = w]
  <1>1. /\ ev \in EventType /\ ev.market = "known"
        /\ ev.at = "store" /\ ev.check # "none" => ev.wallet \in ev.seen
        /\ ev.at = "store" /\ ~Filtered(ev)
    BY DEF IInv, Typed, Maps, Trusted, Store
  <1>2. ev.seen \subseteq Wallets /\ w \in Wallets \cup {"none"}
    BY <1>1 DEF EventType, Finalized
  <1>3. w # "none" => w \in ev.seen /\ ev.check # "rejected"
    BY <1>1 DEF Finalized
  <1>4. ev.size = "small" => w # "none"
    BY <1>1, <1>2, ConstantsAssumption DEF Filtered
  <1> HIDE DEF w
  <1>5. /\ e \in EventType /\ e.market = "known" /\ e.at = "stored" /\ e.wallet = w
        /\ e.seen = ev.seen /\ e.check = ev.check /\ e.size = ev.size
    BY <1>1, <1>2 DEF EventType
  <1>6. Proceed(e) /\ faults' = faults
    BY DEF Store, w
  <1> HIDE DEF e
  <1>7. Trusted'
    BY <1>3, <1>4, <1>5, <1>6 DEF Proceed, Trusted, TrustedOnly
  <1>8. QED
    BY <1>5, <1>6, <1>7, ProceedKeeps DEF IInv, Typed

LEMMA HandleKeeps == ASSUME IInv, Handle PROVE IInv'
  <1>1. CASE \E w \in Wallets \cup {"none"} : Attribute(w)
    BY <1>1, AttributeKeeps
  <1>2. CASE \E answer \in {"confirmed", "rejected", "failed"} : Verify(answer)
    BY <1>2, VerifyKeeps
  <1>3. CASE Filter
    BY <1>3, DropKeeps DEF Filter, IInv, Typed
  <1>4. CASE Store
    BY <1>4, StoreKeeps
  <1>5. CASE StoreFails
    BY <1>5, DropKeeps, FaultTyped DEF StoreFails, IInv, Typed
  <1>6. CASE PostProcess
    BY <1>6, DropKeeps DEF PostProcess, IInv, Typed
  <1>7. QED
    BY <1>1, <1>2, <1>3, <1>4, <1>5, <1>6 DEF Handle

-----------------------------------------------------------------------------
LEMMA DatabaseKeeps ==
  ASSUME IInv, (\E a \in Assets : MarketMoves(a)) \/ (\E w \in Wallets : WatchMoves(w))
  PROVE  IInv'
  <1>1. Typed' /\ Quiet'
    BY DEF IInv, Typed, Quiet, MarketMoves, WatchMoves, Toggled, memory
  <1>2. Maps'
    BY DEF IInv, Maps, MarketMoves, WatchMoves, memory
  <1>3. Trusted'
    BY EventKept DEF IInv, MarketMoves, WatchMoves
  <1>4. QED
    BY <1>1, <1>2, <1>3 DEF IInv

LEMMA NextInv == IInv /\ [Next]_vars => IInv'
  <1> SUFFICES ASSUME IInv, [Next]_vars PROVE IInv'
    OBVIOUS
  <1>1. CASE LoopWakes
    BY <1>1, LoopWakesKeeps
  <1>2. CASE LoopFails
    BY <1>2, LoopFailsKeeps
  <1>3. CASE Crash
    BY <1>3, CrashKeeps
  <1>4. CASE Restart
    BY <1>4, RestartKeeps
  <1>5. CASE \E t \in Tasks : ReadRows(t)
    BY <1>5, ReadRowsKeeps
  <1>6. CASE \E t \in Tasks : ReadWatched(t)
    BY <1>6, ReadWatchedKeeps
  <1>7. CASE FillIds \/ Connect \/ Disconnect
    BY <1>7, ConnectionKeeps
  <1>8. CASE \E a \in Assets, size \in {"small", "large"} : Receive(a, size)
    BY <1>8, ReceiveKeeps
  <1>9. CASE Handle
    BY <1>9, HandleKeeps
  <1>10. CASE (\E a \in Assets : MarketMoves(a)) \/ (\E w \in Wallets : WatchMoves(w))
    BY <1>10, DatabaseKeeps
  <1>11. CASE UNCHANGED vars
    <2>1. Typed' /\ Quiet' /\ Maps'
      BY <1>11 DEF vars, database, memory, IInv, Typed, Quiet, Maps
    <2>2. Trusted'
      BY <1>11, EventKept DEF vars, IInv
    <2>3. QED
      BY <2>1, <2>2 DEF IInv
  <1>12. QED
    BY <1>1, <1>2, <1>3, <1>4, <1>5, <1>6, <1>7, <1>8, <1>9, <1>10, <1>11 DEF Next

(* The invariant of the ingestor.                                          *)
THEOREM IngestInv == Spec => []IInv
  BY InitInv, NextInv, PTL DEF Spec

(* Type correctness; no refresh loop outlives its ingestor.                *)
THEOREM IngestTypes == Spec => []TypeOK
  <1>1. IInv => TypeOK
    BY DEF IInv, Typed, EventType, TypeOK
  <1>2. QED
    BY <1>1, IngestInv, PTL

(* Every trade that arrives has a known market: ids never run ahead of     *)
(* the normalizer's maps (_refresh_subscriptions).                         *)
THEOREM MarketsKnown == Spec => []KnownMarket
  <1>1. IInv => KnownMarket
    BY DEF IInv, Maps, KnownMarket
  <1>2. QED
    BY <1>1, IngestInv, PTL

(* Stored wallets are watched ones that were not denied                    *)
(* (_finalize_attribution), however the watch list changes meanwhile.      *)
THEOREM WalletsTrusted == Spec => []TrustedOnly
  <1>1. IInv => TrustedOnly
    BY DEF IInv, Trusted
  <1>2. QED
    BY <1>1, IngestInv, PTL
=============================================================================
