--------------------------- MODULE MCTradeRetention ---------------------------
(* An instance of TradeRetention for TLC: two trades of the wallet, one of *)
(* them seeded, and an anonymous one.  A tick is some ten days.            *)
EXTENDS TradeRetention

MCTrades    == {"old", "new", "other"}
MCAnonymous == {"other"}
MCSeeded    == {"old"}
=============================================================================
