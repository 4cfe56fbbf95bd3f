----------------------------- MODULE MCListener -----------------------------
(* Values of the constants for TLC: see the .cfg files.                    *)
EXTENDS Listener, TLC
CONSTANTS p1, p2, p3, a1, a2
ThreePids == Permutations({p1, p2, p3})
=============================================================================
