------------------------------- MODULE PwrCtrl -------------------------------
(***************************************************************************)
(* Power saving, core/rtw_pwrctrl.c.  Without a link the command thread    *)
(* switches the chip off (IPS: rtw_ps_processor, rtw_ips_enter) and a      *)
(* thread that needs the chip wakes it first (_rtw_pwr_wakeup,             *)
(* rtw_ips_leave).  The two meet through two variables nobody locks: the   *)
(* waker writes ips_deny_time and then reads ps_processing, the command    *)
(* thread writes ps_processing and then reads ips_deny_time.  With a link  *)
(* the command thread puts the firmware into leisure power save (LPS) when *)
(* there is little traffic and takes it out again, and ioctls do so on     *)
(* threads of their own.                                                   *)
(*                                                                         *)
(* Time: ips_deny_time is the set of callers whose window is open; a       *)
(* window closes at any moment after its wake-up has returned (it is 2 s   *)
(* long and is opened again on return).  A wait of 3 s may end by its      *)
(* time-out at any moment.                                                 *)
(***************************************************************************)
EXTENDS Naturals, FiniteSets

CONSTANTS PwCallers,    \* threads that call rtw_pwr_wakeup
          MaxPwOps      \* bound: wake-ups, ioctls, link changes and suspends

VARIABLES
    pw,         \* struct pwrctrl_priv: see Pwrctrl
    pwChip,     \* hw_init_completed: the chip is powered and set up
    pwLink,     \* _FW_LINKED
    pwDeny,     \* ips_deny_time: the callers whose window is open
    pwLock,     \* pwrctrl_priv.lock: its owner
    pwCmd,      \* the command thread: job and place in it
    pwPc,       \* caller -> place in its call
    pwRet,      \* caller -> the wake-up waited in vain for ps_processing
    pwLease,    \* callers told _SUCCESS whose window is open
    pwFw,       \* the power mode the firmware was last told (H2C SETPWRMODE)
    pwOps

pwVars == <<pw, pwChip, pwLink, pwDeny, pwLock, pwCmd, pwPc, pwRet, pwLease, pwFw, pwOps>>

Thread == "cmd"     \* the command thread as an owner of pwrctrl_priv.lock

\* rtw_init_pwrctrl_priv, after the interface was brought up.  rf: rf_pwrstate;
\* req: ips_mode_req; ps: ps_processing; bips: bips_processing; suspend:
\* bInSuspend; mode: pwr_mode; mgnt: power_mgnt; leisure: bLeisurePs; idle:
\* LpsIdleCount; inps: fw_current_inpsmode.  rtw_set_rpwm only writes rpwm, tog
\* and cpwm, which nothing else reads and no register gets: it is left out.
rtw_init_pwrctrl_priv ==
    [rf |-> "on", req |-> TRUE, ps |-> FALSE, bips |-> FALSE, suspend |-> FALSE,
     mode |-> "active", mgnt |-> "min", leisure |-> TRUE, idle |-> 0,
     inps |-> FALSE]

Pwrctrl == [rf : {"on", "off"}, req : BOOLEAN, ps : BOOLEAN, bips : BOOLEAN,
            suspend : BOOLEAN, mode : {"active", "min"}, mgnt : {"active", "min"},
            leisure : BOOLEAN, idle : 0..2, inps : BOOLEAN]

PwInit ==
    /\ pw = rtw_init_pwrctrl_priv
    /\ pwChip = TRUE /\ pwLink = FALSE
    /\ pwDeny = {} /\ pwLock = "free"
    /\ pwCmd = "idle"
    /\ pwPc = [c \in PwCallers |-> "out"]
    /\ pwRet = [c \in PwCallers |-> FALSE]
    /\ pwLease = {} /\ pwFw = "active" /\ pwOps = 0

Op == pwOps < MaxPwOps /\ pwOps' = pwOps + 1

To(c, p) == pwPc' = [pwPc EXCEPT ![c] = p]

-----------------------------------------------------------------------------
(* Inactive power save, on the command thread.                             *)

\* The window is not looked at.
rtw_pwr_unassociated_idle_Hasty == ~pwLink

\* rtw_pwr_unassociated_idle.  WIFI_AP_STATE and the ad-hoc states are out of
\* this model; frames in the transmit buffers make it answer no as well.
rtw_pwr_unassociated_idle == pwDeny = {} /\ ~pwLink

\* pwr_state_check_handler queues the command, the thread begins with it.
PsBegin ==
    /\ pwCmd = "idle" /\ ~pw.suspend /\ pwChip /\ Op
    /\ pwCmd' = "ps1"
    /\ pw' = [pw EXCEPT !.ps = TRUE]
    /\ UNCHANGED <<pwChip, pwLink, pwDeny, pwLock, pwPc, pwRet, pwLease, pwFw>>

\* The conditions of rtw_ps_processor; change_rfpwrstate := ERFOFF.
PsDecide ==
    /\ pwCmd = "ps1"
    /\ \/ /\ pw.req /\ rtw_pwr_unassociated_idle /\ pw.rf = "on"
          /\ pwCmd' = "ps2"
       \/ pwCmd' = "ps4"
    /\ UNCHANGED <<pw, pwChip, pwLink, pwDeny, pwLock, pwPc, pwRet, pwLease, pwFw, pwOps>>

\* rtw_ips_enter: down(&pwrpriv->lock).
PsLock ==
    /\ pwCmd = "ps2" /\ pwLock = "free"
    /\ pwLock' = Thread /\ pwCmd' = "ps3"
    /\ pw' = [pw EXCEPT !.bips = TRUE]
    /\ UNCHANGED <<pwChip, pwLink, pwDeny, pwPc, pwRet, pwLease, pwFw, pwOps>>

\* The lock is not given back.
rtw_ips_enter_Locked ==
    /\ pwCmd = "ps3"
    /\ pwChip' = FALSE
    /\ pw' = [pw EXCEPT !.rf = "off", !.bips = FALSE]
    /\ pwCmd' = "ps4"
    /\ UNCHANGED <<pwLink, pwDeny, pwLock, pwPc, pwRet, pwLease, pwFw, pwOps>>

\* rtw_ips_pwr_down, rf_pwrstate := ERFOFF, up(&pwrpriv->lock).
rtw_ips_enter ==
    /\ pwCmd = "ps3"
    /\ pwChip' = FALSE
    /\ pw' = [pw EXCEPT !.rf = "off", !.bips = FALSE]
    /\ pwLock' = "free" /\ pwCmd' = "ps4"
    /\ UNCHANGED <<pwLink, pwDeny, pwPc, pwRet, pwLease, pwFw, pwOps>>

PsEnd ==
    /\ pwCmd = "ps4"
    /\ pwCmd' = "idle"
    /\ pw' = [pw EXCEPT !.ps = FALSE]
    /\ UNCHANGED <<pwChip, pwLink, pwDeny, pwLock, pwPc, pwRet, pwLease, pwFw, pwOps>>

-----------------------------------------------------------------------------
(* _rtw_pwr_wakeup, on any thread.                                         *)

\* The window is opened first, ps_processing is read after it.
WakeupBegin(c) ==
    /\ pwPc[c] = "out" /\ Op
    /\ pwDeny' = pwDeny \cup {c}
    /\ pwRet' = [pwRet EXCEPT ![c] = FALSE]
    /\ To(c, "wait")
    /\ UNCHANGED <<pw, pwChip, pwLink, pwLock, pwCmd, pwLease, pwFw>>

\* ps_processing is found false, at once or while polling it, or 3 s are over.
WakeupWaited(c) ==
    /\ pwPc[c] = "wait"
    /\ \/ ~pw.ps /\ UNCHANGED pwRet
       \/ pw.ps /\ pwRet' = [pwRet EXCEPT ![c] = TRUE]
    /\ To(c, "look")
    /\ UNCHANGED <<pw, pwChip, pwLink, pwDeny, pwLock, pwCmd, pwLease, pwFw, pwOps>>

\* Told _SUCCESS (ok) or _FAIL; the window is opened again.
Return(c, ok) ==
    /\ To(c, "out")
    /\ pwDeny' = pwDeny \cup {c}
    /\ pwLease' = IF ok /\ ~pwRet[c] THEN pwLease \cup {c} ELSE pwLease

\* "System suspend is not allowed to wakeup" (after waiting for its end or for
\* 3 s); with a link nothing is done; rf_pwrstate tells whether IPS is left.
WakeupLook(c) ==
    /\ pwPc[c] = "look"
    /\ \/ pw.suspend /\ Return(c, FALSE)
       \/ ~pw.suspend /\ pwLink /\ Return(c, TRUE)
       \/ ~pw.suspend /\ ~pwLink /\ pw.rf = "off" /\ To(c, "leave") /\ UNCHANGED <<pwDeny, pwLease>>
       \/ ~pw.suspend /\ ~pwLink /\ pw.rf = "on" /\ To(c, "check") /\ UNCHANGED <<pwDeny, pwLease>>
    /\ UNCHANGED <<pw, pwChip, pwLink, pwLock, pwCmd, pwRet, pwFw, pwOps>>

\* rtw_ips_leave: down(&pwrpriv->lock); nothing is left to do when another
\* thread woke the chip meanwhile.
IpsLeaveLock(c) ==
    /\ pwPc[c] = "leave" /\ pwLock = "free"
    /\ IF pw.rf = "off" /\ ~pw.bips
       THEN pwLock' = c /\ pw' = [pw EXCEPT !.bips = TRUE] /\ To(c, "up")
       ELSE UNCHANGED <<pwLock, pw>> /\ To(c, "check")
    /\ UNCHANGED <<pwChip, pwLink, pwDeny, pwCmd, pwRet, pwLease, pwFw, pwOps>>

\* rtw_ips_pwr_up succeeds or fails (then _rtw_pwr_wakeup returns _FAIL), the
\* WEP keys are written again (module Keys), up(&pwrpriv->lock).
rtw_ips_leave(c) ==
    /\ pwPc[c] = "up"
    /\ pwLock' = "free"
    /\ \/ /\ pwChip' = TRUE /\ pwFw' = "active"
          /\ pw' = [pw EXCEPT !.rf = "on", !.bips = FALSE, !.inps = FALSE]
          /\ To(c, "check") /\ UNCHANGED <<pwDeny, pwLease>>
       \/ /\ pw' = [pw EXCEPT !.bips = FALSE]
          /\ Return(c, FALSE) /\ UNCHANGED <<pwChip, pwFw>>
    /\ UNCHANGED <<pwLink, pwCmd, pwRet, pwOps>>

\* The last test of _rtw_pwr_wakeup: hw_init_completed.
WakeupCheck(c) ==
    /\ pwPc[c] = "check"
    /\ Return(c, pwChip)
    /\ UNCHANGED <<pw, pwChip, pwLink, pwLock, pwCmd, pwRet, pwFw, pwOps>>

\* ips_deffer_ms after the call.
WindowEnds(c) ==
    /\ c \in pwDeny /\ pwPc[c] \in {"out", "lps1"}
    /\ pwDeny' = pwDeny \ {c} /\ pwLease' = pwLease \ {c}
    /\ UNCHANGED <<pw, pwChip, pwLink, pwLock, pwCmd, pwPc, pwRet, pwFw, pwOps>>

\* rtw_pm_set_ips: IPS_NORMAL only notes the request; IPS_NONE wakes the chip.
rtw_pm_set_ips(c) ==
    /\ pwPc[c] = "out" /\ Op
    /\ \/ pw' = [pw EXCEPT !.req = TRUE] /\ UNCHANGED <<pwPc, pwDeny, pwRet>>
       \/ /\ pw' = [pw EXCEPT !.req = FALSE]
          /\ pwDeny' = pwDeny \cup {c}
          /\ pwRet' = [pwRet EXCEPT ![c] = FALSE]
          /\ To(c, "wait")
    /\ UNCHANGED <<pwChip, pwLink, pwLock, pwCmd, pwLease, pwFw>>

-----------------------------------------------------------------------------
(* Leisure power save.                                                     *)

\* PS_RDY_CHECK; the second after a special packet, a running survey or an
\* unfinished group handshake make it answer no as well.
PS_RDY_CHECK == pwLink /\ ~pw.suspend

\* rtl8812au_set_fw_pwrmode_cmd: the mode it is given is overwritten with
\* PS_MODE_MIN before it is looked at.
rtl8812au_set_fw_pwrmode_cmd(mode) == pwFw' = "min"

\* LPS_Enter on the command thread: the idle count first (4 s after the link
\* came up), then rtw_set_ps_mode(power_mgnt).
LPS_Enter ==
    IF pw.idle < 2 /\ PS_RDY_CHECK /\ pw.leisure
    THEN pw' = [pw EXCEPT !.idle = @ + 1] /\ UNCHANGED pwCmd
    ELSE /\ pwCmd' = IF PS_RDY_CHECK /\ pw.leisure /\ pw.mode = "active" THEN "lps" ELSE pwCmd
         /\ UNCHANGED pw

\* rtw_set_ps_mode for a mode other than PS_MODE_ACTIVE; power_mgnt is read
\* again and may have been changed to PS_MODE_ACTIVE by rtw_pm_set_lps.
SetPsMode ==
    /\ pwCmd = "lps"
    /\ pwCmd' = "idle"
    /\ IF pw.mgnt # "active" /\ PS_RDY_CHECK
       THEN /\ pw' = [pw EXCEPT !.inps = TRUE, !.mode = "min"]
            /\ rtl8812au_set_fw_pwrmode_cmd("min")
       ELSE UNCHANGED <<pw, pwFw>>
    /\ UNCHANGED <<pwChip, pwLink, pwDeny, pwLock, pwPc, pwRet, pwLease, pwOps>>

\* LPS_Leave with rtw_set_ps_mode(PS_MODE_ACTIVE); LPS_RF_ON_check only waits.
Left == [pw EXCEPT !.mode = "active", !.inps = FALSE]

LPS_Leave ==
    IF pw.leisure /\ pw.mode # "active"
    THEN pw' = Left /\ rtl8812au_set_fw_pwrmode_cmd("active")
    ELSE UNCHANGED <<pw, pwFw>>

\* The watchdog on the command thread, every 2 s: with a link and little
\* traffic in the last period it enters, else it leaves.
traffic_status_watchdog ==
    /\ pwCmd = "idle" /\ Op
    /\ \/ pwLink /\ LPS_Enter /\ UNCHANGED pwFw
       \/ LPS_Leave /\ UNCHANGED pwCmd
    /\ UNCHANGED <<pwChip, pwLink, pwDeny, pwLock, pwPc, pwRet, pwLease>>

\* A scan (with a link), a join, a disconnection or a special packet queued
\* LPS_CTRL_SCAN, _JOINBSS, _DISCONNECT or _SPECIAL_PACKET.
lps_ctrl_wk_hdl ==
    /\ pwCmd = "idle" /\ Op
    /\ LPS_Leave
    /\ UNCHANGED <<pwChip, pwLink, pwDeny, pwLock, pwCmd, pwPc, pwRet, pwLease>>

\* The join succeeds, on the command thread: LPS_CTRL_CONNECT.
Connect ==
    /\ pwCmd = "idle" /\ pwChip /\ ~pwLink /\ pwLease # {} /\ Op
    /\ pwLink' = TRUE
    /\ pw' = [pw EXCEPT !.idle = 0]
    /\ UNCHANGED <<pwChip, pwDeny, pwLock, pwCmd, pwPc, pwRet, pwLease, pwFw>>

\* rtw_indicate_disconnect, on any thread, clears _FW_LINKED; LPS_CTRL_DISCONNECT,
\* which it queues, is an lps_ctrl_wk_hdl of the command thread.
Disconnect ==
    /\ pwLink /\ Op
    /\ pwLink' = FALSE
    /\ UNCHANGED <<pw, pwChip, pwDeny, pwLock, pwCmd, pwPc, pwRet, pwLease, pwFw>>

\* rtw_pm_set_lps(PS_MODE_ACTIVE): LeaveAllPowerSaveMode on the ioctl's thread
\* (rtw_lps_ctrl_wk_cmd without a queue), and power_mgnt and bLeisurePs after it.
PmLpsOff(c) ==
    /\ pwPc[c] = "out" /\ pw.mgnt # "active" /\ Op
    /\ IF pwLink THEN LPS_Leave ELSE UNCHANGED <<pw, pwFw>>
    /\ To(c, "lps1")
    /\ UNCHANGED <<pwChip, pwLink, pwDeny, pwLock, pwCmd, pwRet, pwLease>>

PmLpsOffEnd(c) ==
    /\ pwPc[c] = "lps1"
    /\ pw' = [pw EXCEPT !.mgnt = "active", !.leisure = FALSE]
    /\ To(c, "out")
    /\ UNCHANGED <<pwChip, pwLink, pwDeny, pwLock, pwCmd, pwRet, pwLease, pwFw, pwOps>>

\* rtw_pm_set_lps for a saving mode.
PmLpsOn(c) ==
    /\ pwPc[c] = "out" /\ pw.mgnt = "active" /\ Op
    /\ pw' = [pw EXCEPT !.idle = 2, !.mgnt = "min", !.leisure = TRUE]
    /\ UNCHANGED <<pwChip, pwLink, pwDeny, pwLock, pwCmd, pwPc, pwRet, pwLease, pwFw>>

-----------------------------------------------------------------------------
(* System suspend and resume (their steps are in module CmdThread): the    *)
(* link is given up, the chip unloaded under pwrctrl_priv.lock, and set up *)
(* again; rf_pwrstate keeps its value.                                     *)
Suspend ==
    /\ ~pw.suspend /\ pwLock = "free" /\ pwCmd = "idle" /\ Op
    /\ pw' = [IF pw.leisure /\ pw.mode # "active" THEN Left ELSE pw EXCEPT !.suspend = TRUE]
    /\ IF pw.leisure /\ pw.mode # "active" THEN rtl8812au_set_fw_pwrmode_cmd("active") ELSE UNCHANGED pwFw
    /\ pwChip' = FALSE /\ pwLink' = FALSE /\ pwLease' = {}
    /\ UNCHANGED <<pwDeny, pwLock, pwCmd, pwPc, pwRet>>

rtw_resume_process ==
    /\ pw.suspend /\ pwLock = "free" /\ Op
    /\ pwChip' = TRUE /\ pwFw' = "active"
    /\ pw' = [pw EXCEPT !.suspend = FALSE, !.inps = FALSE]
    /\ UNCHANGED <<pwLink, pwDeny, pwLock, pwCmd, pwPc, pwRet, pwLease>>

-----------------------------------------------------------------------------
CmdSteps == PsDecide \/ PsLock \/ rtw_ips_enter \/ PsEnd \/ SetPsMode

CallerSteps(c) ==
    WakeupWaited(c) \/ WakeupLook(c) \/ IpsLeaveLock(c) \/ rtw_ips_leave(c) \/ WakeupCheck(c) \/ PmLpsOffEnd(c)

PwNext ==
    \/ PsBegin \/ CmdSteps
    \/ traffic_status_watchdog \/ lps_ctrl_wk_hdl \/ Connect \/ Disconnect
    \/ Suspend \/ rtw_resume_process
    \/ \E c \in PwCallers :
          \/ WakeupBegin(c) \/ CallerSteps(c) \/ WindowEnds(c)
          \/ rtw_pm_set_ips(c) \/ PmLpsOff(c) \/ PmLpsOn(c)

PwSpec == PwInit /\ [][PwNext]_pwVars

\* The command thread and the threads inside a call keep running.
PwFairness == WF_pwVars(CmdSteps) /\ \A c \in PwCallers : WF_pwVars(CallerSteps(c))

-----------------------------------------------------------------------------
(* The detailed protocol implements the lease: nobody told _SUCCESS by     *)
(* _rtw_pwr_wakeup loses the chip to IPS inside its window, although       *)
(* ips_deny_time and ps_processing are read and written without a lock.    *)
(* A wake-up that gave up waiting for ps_processing holds no lease.        *)
Lease == INSTANCE PowerLease WITH
    LeaseCallers <- PwCallers,
    nic <- IF pwChip THEN "on" ELSE "off",
    lease <- pwLease

LeaseKept == Lease!LeaseSpec

\* Every call of _rtw_pwr_wakeup and rtw_pm_set_lps returns: the waits for
\* ps_processing and for pwrctrl_priv.lock end.
WakeupReturns == \A c \in PwCallers : (pwPc[c] # "out") ~> (pwPc[c] = "out")
==============================================================================
