---------------------------- MODULE MCOrderFlow ----------------------------
(* Constants for the model checking of OrderFlow. *)
EXTENDS OrderFlow

CONSTANTS j1, j2, j3

ThreeJobs == {j1, j2, j3}

=============================================================================
