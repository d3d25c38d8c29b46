---------------------------- MODULE MCCmdThread ----------------------------
(***************************************************************************)
(* Model-checking instance of CmdThread.                                   *)
(***************************************************************************)
EXTENDS CmdThread, TLC

CONSTANTS c1, c2, p1, p2

MCCmds == {c1, c2}
MCOneCmd == {c1}
MCCallers == {p1, p2}
MCOneCaller == {p1}
NoPowerSaving == {"Plain", "DisConnect"}
Symmetry == Permutations(MCCmds) \cup Permutations(MCCallers)
=============================================================================
