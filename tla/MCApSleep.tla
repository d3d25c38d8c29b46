----------------------------- MODULE MCApSleep -----------------------------
(***************************************************************************)
(* Access point power saving for TLC: two interchangeable stations.        *)
(***************************************************************************)
EXTENDS ApSleep, TLC

CONSTANTS s1, s2
MCStas == {s1, s2}
MCOneSta == {s1}
OneAc == {"be"}
OneWay == {"legacy", "uapsd"}
Symmetry == Permutations(MCStas)
=============================================================================
