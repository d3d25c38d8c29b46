----------------------------- MODULE MCStaMlme -----------------------------
(***************************************************************************)
(* Station mode for TLC: two networks that are interchangeable.            *)
(***************************************************************************)
EXTENDS StaMlme, TLC

CONSTANTS b1, b2
MCBss == {b1, b2}
MCOneBss == {b1}
Symmetry == Permutations(MCBss)
=============================================================================
