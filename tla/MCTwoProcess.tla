---------------------------- MODULE MCTwoProcess ----------------------------
(* Values of the constants for TLC: see the .cfg file.                     *)
EXTENDS TwoProcess
=============================================================================
