--------------------------- MODULE MCMarketCatalog ---------------------------
(* Instances of MarketCatalog for TLC: of two markets the second has no    *)
(* category.                                                               *)
EXTENDS MarketCatalog

TwoMarkets == {1, 2}
First      == {1}
ListJobs   == {"general", "single"}
=============================================================================
