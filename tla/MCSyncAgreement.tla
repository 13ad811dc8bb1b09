----------------------------- MODULE MCSyncAgreement -----------------------------
(* Instances of SyncAgreement for TLC.  The constants are given in the .cfg    *)
(* files; the roots are model values.                                      *)
EXTENDS SyncAgreement, TLC

\* Savers are interchangeable, and so are full-check goroutines.
Symmetry == Permutations(Savers) \cup Permutations(Checkers)
==============================================================================
