----------------------------- MODULE LiveIngest -----------------------------
(***************************************************************************)
(* The ingestor process: which markets it subscribes to, and what it does  *)
(* with a trade of the stream until the trade is stored.                   *)
(*                                                                         *)
(* Two tasks refresh the subscriptions: the main task when it starts or    *)
(* finds no ids, and the refresh loop.  A refresh reads the open markets,  *)
(* extends the maps of the normalizer, reads the watched wallets and only  *)
(* then replaces the list of ids, which the stream uses when it connects   *)
(* the next time.  The main task handles one event after the other, with   *)
(* waits in between during which the loop and other processes go on.       *)
(***************************************************************************)
EXTENDS Integers, FiniteSets

CONSTANTS
  Assets,     \* tokens, one per market; the smaller the higher its volume
  Wallets,
  Ranked,     \* enable_volume_ranked_subscription
  TopN,       \* subscription_top_n
  Held,       \* markets in which watched wallets hold open positions
  MaxFaults   \* bound: failing queries, commits and crashes

ASSUME ConstantsAssumption ==
  /\ Assets \subseteq Nat /\ IsFiniteSet(Assets)
  /\ "none" \notin Wallets
  /\ Ranked \in BOOLEAN /\ TopN \in Nat
  /\ Held \subseteq Assets
  /\ MaxFaults \in Nat

VARIABLES
  open,      \* database: assets whose market is active and open
  watching,  \* database: wallets with watch_status "watch"
  mode,      \* main task
  looping,   \* "on" while the refresh loop runs
  step,      \* step[t]: what task t reads next in its refresh
  rows,      \* rows[t]: the ids a refresh of task t has read
  known,     \* _asset_to_market: assets whose market the normalizer knows
  watched,   \* _watched_wallets
  ids,       \* _asset_ids
  sub,       \* what the present connection is subscribed to
  ev,        \* the event in hand
  faults     \* faults so far

database == <<open, watching>>
memory   == <<known, watched, ids>>
vars == <<database, mode, looping, step, rows, memory, sub, ev, faults>>

Tasks == {"main", "loop"}

NoEvent == [at |-> "none", asset |-> 0, size |-> "small",
            market |-> "known", seen |-> {}, wallet |-> "none", check |-> "none"]

Init ==
  /\ open     \in SUBSET Assets
  /\ watching \in SUBSET Wallets
  /\ mode     = "starting"
  /\ looping  = "off"
  /\ step     = [t \in Tasks |-> IF t = "main" THEN "rows" ELSE "idle"]
  /\ rows     = [t \in Tasks |-> {}]
  /\ known    = {}
  /\ watched  = {}
  /\ ids      = {}
  /\ sub      = {}
  /\ ev       = NoEvent
  /\ faults   = 0

Fault == faults < MaxFaults /\ faults' = faults + 1

-----------------------------------------------------------------------------
(* Refreshing the subscriptions.                                           *)

(* Mutant of NewIds: only the first list is taken.                         *)
NewIdsOnce(t) == IF ids = {} THEN rows[t] ELSE ids

(* Mutant of Subscription: the ids come straight from the database.        *)
SubscriptionFromDatabase == open

(* get_subscription_asset_ids: the open markets with the highest volume    *)
(* and all that watched wallets hold; by default all open markets.         *)
Wanted ==
  IF Ranked
  THEN {a \in open : Cardinality({b \in open : b < a}) < TopN} \cup Held
  ELSE open

NewIds(t) == rows[t]

LoopWakes ==
  /\ looping = "on" /\ step["loop"] = "idle"
  /\ step' = [step EXCEPT !["loop"] = "rows"]
  /\ UNCHANGED <<database, mode, looping, rows, memory, sub, ev, faults>>

ReadRows(t) ==
  /\ step[t] = "rows"
  /\ step'  = [step EXCEPT ![t] = "watched"]
  /\ rows'  = [rows EXCEPT ![t] = Wanted]
  /\ known' = known \cup Wanted
  /\ UNCHANGED <<database, mode, looping, watched, ids, sub, ev, faults>>

ReadWatched(t) ==
  /\ step[t] = "watched"
  /\ step'    = [step EXCEPT ![t] = "idle"]
  /\ rows'    = [rows EXCEPT ![t] = {}]
  /\ watched' = watching
  /\ ids'     = NewIds(t)
  /\ IF mode = "starting" THEN mode' = "down" /\ looping' = "on"
     ELSE UNCHANGED <<mode, looping>>
  /\ UNCHANGED <<database, known, sub, ev, faults>>

(* A database error ends the loop for good.                                *)
LoopFails ==
  /\ step["loop"] # "idle"
  /\ Fault
  /\ looping' = "off"
  /\ step'    = [step EXCEPT !["loop"] = "idle"]
  /\ rows'    = [rows EXCEPT !["loop"] = {}]
  /\ UNCHANGED <<database, mode, memory, sub, ev>>

LoopStops == looping' = "off"

(* In the main task, during a refresh or by any other error, it ends the   *)
(* ingestor; main() starts a new one, which knows nothing.                 *)
Crash ==
  /\ mode # "dead"
  /\ Fault
  /\ mode' = "dead"
  /\ LoopStops
  /\ step' = [t \in Tasks |-> "idle"]
  /\ rows' = [t \in Tasks |-> {}]
  /\ known' = {} /\ watched' = {} /\ ids' = {} /\ sub' = {} /\ ev' = NoEvent
  /\ UNCHANGED <<database>>

Restart ==
  /\ mode = "dead"
  /\ mode' = "starting"
  /\ step' = [step EXCEPT !["main"] = "rows"]
  /\ UNCHANGED <<database, looping, rows, memory, sub, ev, faults>>

-----------------------------------------------------------------------------
(* Connecting.                                                             *)

Subscription == ids

(* _get_asset_ids refreshes when it has no ids; the client sleeps and asks *)
(* again when there are still none.                                        *)
FillIds ==
  /\ mode = "down" /\ step["main"] = "idle" /\ ids = {}
  /\ step' = [step EXCEPT !["main"] = "rows"]
  /\ UNCHANGED <<database, mode, looping, rows, memory, sub, ev, faults>>

Connect ==
  /\ mode = "down" /\ step["main"] = "idle" /\ ids # {}
  /\ mode' = "up"
  /\ sub'  = Subscription
  /\ UNCHANGED <<database, looping, step, rows, memory, ev, faults>>

(* A connection that ended is noticed between two events.                  *)
Disconnect ==
  /\ mode = "up" /\ ev = NoEvent
  /\ mode' = "down"
  /\ sub'  = {}
  /\ UNCHANGED <<database, looping, step, rows, memory, ev, faults>>

-----------------------------------------------------------------------------
(* Handling an event.                                                      *)

Proceed(e) ==
  /\ ev' = e
  /\ UNCHANGED <<database, mode, looping, step, rows, memory, sub>>

(* The maps are read once, before any wait.  The price levels of the asset *)
(* come first (see PriceLevels); whatever happens there is only logged.    *)
Receive(a, size) ==
  /\ mode = "up" /\ ev = NoEvent /\ a \in sub
  /\ Proceed([NoEvent EXCEPT !.at = "attribute", !.asset = a,
                !.size = size, !.seen = watched,
                !.market = IF a \in known THEN "known" ELSE "unknown"])
  /\ UNCHANGED faults

(* find_matching_trade: whichever wallet has the closest price, or none.   *)
Attribute(w) ==
  /\ ev.at = "attribute"
  /\ Proceed([ev EXCEPT !.at = IF w \in ev.seen THEN "verify" ELSE "store",
                        !.wallet = w])
  /\ UNCHANGED faults

(* verify_wallet_attribution; a timeout, an error and a rate limit count   *)
(* as a confirmation.                                                      *)
Verify(answer) ==
  /\ ev.at = "verify"
  /\ Proceed([ev EXCEPT !.at = "store", !.check = answer])
  /\ UNCHANGED faults

(* Mutant of Finalized: any watched candidate is trusted.                  *)
FinalizedUnverified(e) == IF e.wallet \in e.seen THEN e.wallet ELSE "none"

(* _finalize_attribution.                                                  *)
Finalized(e) == IF e.check \in {"confirmed", "failed"} THEN e.wallet ELSE "none"

(* Only trades of watched wallets may be small.                            *)
Filtered(e) == e.size = "small" /\ Finalized(e) \notin e.seen

Filter ==
  /\ ev.at = "store" /\ Filtered(ev)
  /\ Proceed(NoEvent)
  /\ UNCHANGED faults

Store ==
  /\ ev.at = "store" /\ ~Filtered(ev)
  /\ Proceed([ev EXCEPT !.at = "stored", !.wallet = Finalized(ev)])
  /\ UNCHANGED faults

StoreFails ==
  /\ ev.at = "store" /\ ~Filtered(ev)
  /\ Fault
  /\ Proceed(NoEvent)

(* The market is made sure of and the detectors run; their failures are    *)
(* logged and change nothing here.                                         *)
PostProcess ==
  /\ ev.at = "stored"
  /\ Proceed(NoEvent)
  /\ UNCHANGED faults

-----------------------------------------------------------------------------
(* Discovery and resolution move the markets, the API the watch list.      *)

Toggled(S, x) == IF x \in S THEN S \ {x} ELSE S \cup {x}

MarketMoves(a) ==
  /\ open' = Toggled(open, a)
  /\ UNCHANGED <<watching, mode, looping, step, rows, memory, sub, ev, faults>>

WatchMoves(w) ==
  /\ watching' = Toggled(watching, w)
  /\ UNCHANGED <<open, mode, looping, step, rows, memory, sub, ev, faults>>

Handle ==
  \/ \E w \in Wallets \cup {"none"} : Attribute(w)
  \/ \E answer \in {"confirmed", "rejected", "failed"} : Verify(answer)
  \/ Filter \/ Store \/ StoreFails \/ PostProcess

Next ==
  \/ LoopWakes \/ LoopFails \/ Crash \/ Restart
  \/ \E t \in Tasks : ReadRows(t) \/ ReadWatched(t)
  \/ FillIds \/ Connect \/ Disconnect
  \/ \E a \in Assets, size \in {"small", "large"} : Receive(a, size)
  \/ Handle
  \/ \E a \in Assets : MarketMoves(a)
  \/ \E w \in Wallets : WatchMoves(w)

Spec == Init /\ [][Next]_vars

(* Every await of the two tasks returns: requests and statements have      *)
(* timeouts, sleeps end.                                                   *)
Fairness ==
  /\ WF_vars(LoopWakes) /\ WF_vars(Restart) /\ WF_vars(FillIds)
  /\ \A t \in Tasks : WF_vars(ReadRows(t)) /\ WF_vars(ReadWatched(t))
  /\ WF_vars(Connect) /\ WF_vars(Handle)

FairSpec == Spec /\ Fairness

-----------------------------------------------------------------------------
(* Properties.                                                             *)

(* The type invariant; no refresh loop outlives its ingestor.              *)
TypeOK ==
  /\ open \subseteq Assets /\ watching \subseteq Wallets
  /\ mode \in {"starting", "down", "up", "dead"}
  /\ looping \in IF mode \in {"starting", "dead"} THEN {"off"} ELSE {"on", "off"}
  /\ step \in [Tasks -> {"idle", "rows", "watched"}]
  /\ rows \in [Tasks -> SUBSET Assets]
  /\ known \subseteq Assets /\ watched \subseteq Wallets
  /\ ids \subseteq Assets /\ sub \subseteq Assets
  /\ ev.at \in {"none", "attribute", "verify", "store", "stored"}
  /\ ev.asset \in Assets \cup {0} /\ ev.seen \subseteq Wallets
  /\ ev.wallet \in Wallets \cup {"none"}
  /\ faults \in 0..MaxFaults

(* A trade that arrives belongs to a market the normalizer knows, whatever *)
(* refreshes, reconnects and restarts came before.                         *)
KnownMarket == ev.market = "known"

(* A stored trade carries a wallet only if that was watched when the trade *)
(* came in and the wallet's own history did not deny it; without a wallet  *)
(* no small trade is stored.                                               *)
TrustedOnly ==
  ev.at = "stored" =>
    /\ ev.wallet # "none" => ev.wallet \in ev.seen /\ ev.check # "rejected"
    /\ ev.size = "small" => ev.wallet # "none"

(* A market that stays open is subscribed to in the end, provided the      *)
(* connection breaks now and then and the refresh loop has not died.       *)
Resubscribed ==
  ([]<>(mode = "down")) =>
     \A a \in Assets :
       (a \in Wanted) ~> (a \in sub \/ a \notin Wanted \/ (mode # "starting" /\ looping = "off"))
=============================================================================
