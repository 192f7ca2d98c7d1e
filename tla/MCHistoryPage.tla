--------------------------- MODULE MCHistoryPage ---------------------------
(* Constants for the model checking of HistoryPage. *)
EXTENDS HistoryPage

CONSTANTS s1, s2, hours, week

TwoStocks == {s1, s2}
TwoRanges == {hours, week}

=============================================================================
