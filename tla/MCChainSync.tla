----------------------------- MODULE MCChainSync -----------------------------
(* Instances of ChainSync for TLC.  The constants are given in the .cfg    *)
(* files; the roots are model values.                                      *)
EXTENDS ChainSync, TLC

ASSUME Table!EpochTableAssumption

\* Savers are interchangeable, and so are full-check goroutines.
Symmetry == Permutations(Savers) \cup Permutations(Checkers)
==============================================================================
