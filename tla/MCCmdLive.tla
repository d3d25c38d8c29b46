----------------------------- MODULE MCCmdLive -----------------------------
(***************************************************************************)
(* Progress of the command thread and of power saving for TLC.  In a       *)
(* behaviour only the component `who` takes steps, so that one state graph *)
(* holds the graphs of both.                                               *)
(***************************************************************************)
EXTENDS PwrCtrl, Integers, Sequences

CONSTANTS c1, c2, p1, NoCmd

VARIABLES
    who,
    initialized, bDriverStopped, bSurpriseRemoved, hw_init_completed, cmdthd_running,
    rf_pwrstate, cmd_queue, cmd_queue_sema, terminate_cmdthread_sema, live, cmdcode,
    res, tpc, pcmd, cpc, ccmd, mpc, why, sessions, wpc, pwr_lock

cmdVars == <<initialized, bDriverStopped, bSurpriseRemoved, hw_init_completed,
             cmdthd_running, rf_pwrstate, cmd_queue, cmd_queue_sema,
             terminate_cmdthread_sema, live, cmdcode, res, tpc, pcmd, cpc, ccmd, mpc,
             why, sessions, wpc, pwr_lock>>

\* Signals and an unplugged device, but no power-saving command: with it the
\* thread and a suspend can wait for each other (run cmd_suspend_deadlock).
Cmd == INSTANCE CmdThread WITH
         Cmds <- {c1, c2}, Callers <- {p1}, CmdCodes <- {"Plain", "DisConnect"},
         MaxSessions <- 1, MaxSema <- 3, Signals <- TRUE, Unplug <- TRUE

LiveInit == who \in {"cmd", "pwr"} /\ Cmd!Init /\ PwInit

LiveNext ==
    \/ who = "cmd" /\ Cmd!Next /\ UNCHANGED <<who, pwVars>>
    \/ who = "pwr" /\ PwNext /\ UNCHANGED <<who, cmdVars>>

\* FairSpec of CmdThread and PwFairness of PwrCtrl, for the component that
\* takes the steps.
Fairness ==
    /\ \A t \in Cmd!Threads : WF_cmdVars(who = "cmd" /\ Cmd!ThreadStep(t))
    /\ WF_cmdVars(/\ who = "cmd"
                  /\ Cmd!EnqueueFilter(p1) \/ Cmd!EnqueueAppend(p1) \/ Cmd!EnqueueUp(p1))
    /\ WF_cmdVars(who = "cmd" /\ Cmd!MainStep)
    /\ WF_cmdVars(who = "cmd" /\ (Cmd!IpsLeaveBegin \/ Cmd!IpsLeaveHal))
    /\ WF_pwVars(who = "pwr" /\ CmdSteps)
    /\ \A c \in PwCallers : WF_pwVars(who = "pwr" /\ CallerSteps(c))

LiveSpec == LiveInit /\ [][LiveNext]_<<who, cmdVars, pwVars>> /\ Fairness
-----------------------------------------------------------------------------
\* "Below is to termindate rtw_cmd_thread" (os_dep/os_intfs.c): an unload
\* that has asked the thread to stop gets past it and completes.
StopCompletes == Cmd!StopCompletes

\* A queued command does not stay queued while there is a thread: it is
\* taken, or the thread ends and frees it (rtw_cmd_thread, rtw_enqueue_cmd).
QueueServed == Cmd!QueueServed
=============================================================================
