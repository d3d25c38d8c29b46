----------------------------- MODULE MCMlmeLive -----------------------------
(***************************************************************************)
(* Progress of the station MLME and of the reordering of one TID for TLC.  *)
(* In a behaviour only the component `who` takes steps, so that one state  *)
(* graph holds the graphs of both.                                         *)
(***************************************************************************)
EXTENDS RecvReorder

CONSTANTS b1, NoBss
MCAmsdu == {2}
MCBypass == {3}

VARIABLES
    who,
    fw_state, to_join, target, cur_network, scanned, lock, upc, ops,
    cmd_queue, pc, report, state, network, reauth_count, reassoc_count,
    scan, channel_idx, hw_bssid, mtimer, air, drops

staVars == <<fw_state, to_join, target, cur_network, scanned, lock, upc, ops,
             cmd_queue, pc, report, state, network, reauth_count, reassoc_count,
             scan, channel_idx, hw_bssid, mtimer, air, drops>>

\* One network, contexts that interleave and timeouts that may come early.
Sta == INSTANCE StaMlme WITH
         Bss <- {b1}, REAUTH_LIMIT <- 1, REASSOC_LIMIT <- 1, ch_num <- 2,
         Smp <- FALSE, Prompt <- FALSE, MaxOps <- 2, MaxDrops <- 1,
         timer <- mtimer

LiveInit == who \in {"sta", "reorder"} /\ Init /\ Sta!Init

LiveNext ==
    \/ who = "sta" /\ Sta!Next /\ UNCHANGED <<who, vars>>
    \/ who = "reorder" /\ Next /\ UNCHANGED <<who, staVars>>

\* FairSpec of both modules, for the component that takes the steps.
Fairness ==
    /\ WF_staVars(who = "sta" /\ Sta!ScanStart)
    /\ WF_staVars(who = "sta" /\ Sta!Thread)
    /\ WF_staVars(who = "sta" /\ Sta!RxEnds)
    /\ WF_staVars(who = "sta" /\ Sta!LinkTimer)
    /\ WF_staVars(who = "sta" /\ Sta!survey_timer_hdl)
    /\ WF_staVars(who = "sta" /\ Sta!AssocTimer)
    /\ WF_staVars(who = "sta" /\ Sta!ScanTimer)
    /\ WF_vars(who = "reorder" /\ Tasklet)
    /\ WF_vars(who = "reorder" /\ TimerFire)
    /\ WF_vars(who = "reorder" /\ (TimerLock \/ TimerLoop))
    /\ WF_vars(who = "reorder" /\ (FreeDelTimer \/ FreePending))

LiveSpec == LiveInit /\ [][LiveNext]_<<who, vars, staVars>> /\ Fairness
-----------------------------------------------------------------------------
\* _FW_UNDER_LINKING and _FW_UNDER_SURVEY end, with success or without,
\* although every frame may be lost; either one blocks the user's calls.
MlmeSettles == Sta!LinkingEnds /\ Sta!SurveyEnds

\* A join that waits for a survey (to_join) is taken up or refused in the end,
\* even when the survey timed out before its last channel
\* (rtw_surveydone_event_callback, rtw_scan_timeout_handler).
JoinServed == Sta!JoinServed
=============================================================================
