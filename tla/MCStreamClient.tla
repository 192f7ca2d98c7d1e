--------------------------- MODULE MCStreamClient ---------------------------
(* Constants for the model checking of StreamClient. *)
EXTENDS StreamClient, TLC

CONSTANTS c1, c2, id1, id2

OneCaller == {c1}
TwoCallers == {c1, c2}
OneIdentity == {id1}
TwoIdentities == {id1, id2}

Symmetry == Permutations(TwoCallers) \cup Permutations(TwoIdentities)

=============================================================================
