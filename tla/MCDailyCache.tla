---------------------------- MODULE MCDailyCache ----------------------------
(* Constants for the model checking of DailyCache. *)
EXTENDS DailyCache

CONSTANTS history, performance

TwoWorkers == {history, performance}
Symmetry == Permutations(TwoWorkers)

\* Four days, of which the first is a holiday.
Week == {2, 3, 4}
FewOrMany == {1, 9}

=============================================================================
