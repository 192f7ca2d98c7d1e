--------------------------- MODULE MCTradeSession ---------------------------
(* Constants for the model checking of TradeSession. *)
EXTENDS TradeSession, TLC

CONSTANTS k1, k2, w1

TwoKeys == {k1, k2}
OneWorker == {w1}
NoEnvironment == {}

KeySymmetry == Permutations(TwoKeys)

=============================================================================
