----------------------------- MODULE MCStation -----------------------------
(***************************************************************************)
(* Station mode for TLC in two settings, of which a behaviour has one: one *)
(* processor, timeouts that outlast the work they guard and two networks   *)
(* that never drop the station ("prompt"), or contexts that run in         *)
(* parallel, timeouts that may come early and a network that drops the     *)
(* station ("smp").  The second has one network, so that the symmetry of   *)
(* the first merges none of its states.                                    *)
(***************************************************************************)
EXTENDS MCStaMlme

VARIABLE who

Par == INSTANCE StaMlme WITH
         Bss <- MCOneBss, REASSOC_LIMIT <- 0, Smp <- TRUE, Prompt <- FALSE,
         MaxOps <- 2, MaxDrops <- 1

StationInit == who \in {"smp", "prompt"} /\ Init

StationNext ==
    \/ who = "smp" /\ Par!Next /\ UNCHANGED who
    \/ who = "prompt" /\ Next /\ UNCHANGED who

StationSpec == StationInit /\ [][StationNext]_<<who, vars>>
-----------------------------------------------------------------------------
\* On one processor, with timeouts that outlast the work they guard and
\* networks that do not drop the station: when all is quiet mlme_priv,
\* mlme_ext and the BSSID register agree on the link, and no survey is
\* started under linking (rtw_joinbss_event_prehandle, start_clnt_join).
LinkAgrees == who = "prompt" => LinkedHolds /\ AssociatedHolds /\ NoScanWhileLinking
=============================================================================
