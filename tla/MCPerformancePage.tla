------------------------- MODULE MCPerformancePage -------------------------
(* Constants for the model checking of PerformancePage. *)
EXTENDS PerformancePage

CONSTANTS month, year, less, more

OnePeriod == {month}
TwoPeriods == {month, year}
TwoPortfolios == {less, more}

=============================================================================
