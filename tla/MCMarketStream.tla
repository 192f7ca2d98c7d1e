--------------------------- MODULE MCMarketStream ---------------------------
(* Constants for the model checking of MarketStream. *)
EXTENDS MarketStream

CONSTANTS us, hk, saved

AmericanStocks == {us}
ForeignStocks == {hk}
SomeLists == {<< >>, <<us, hk>>}
SomeKeys == {saved}

=============================================================================
