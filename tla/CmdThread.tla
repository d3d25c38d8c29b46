----------------------------- MODULE CmdThread -----------------------------
(***************************************************************************)
(* The command thread of the driver (core/rtw_cmd.c, os_dep/os_intfs.c)    *)
(* and the code that starts and stops it (usb.c).                          *)
(*                                                                         *)
(* Every context of the driver (ioctls, timers, the receive tasklet) hands *)
(* work that may sleep to one kernel thread, RTW_CMD_THREAD, through       *)
(* rtw_enqueue_cmd: a list under a spinlock and a counting semaphore.      *)
(* netdev_open / resume start the thread, suspend / disconnect stop it.    *)
(* A second semaphore, terminate_cmdthread_sema, is raised by the thread   *)
(* once when it begins and once when it ends; the starter and the stopper  *)
(* each take it once.                                                      *)
(*                                                                         *)
(* Two steps of one context are separate actions wherever the code reads   *)
(* something before a lock, a semaphore or a flag and uses it after.       *)
(***************************************************************************)
EXTENDS Naturals, Sequences, FiniteSets

CONSTANTS
    Cmds,         \* the cmd_obj allocations that may be live at one time
    Callers,      \* contexts that call rtw_enqueue_cmd
    CmdCodes,     \* the classes of command the callers issue
    MaxSessions,  \* bound: how often the thread is started
    MaxSema,      \* bound: callers stop issuing when cmd_queue_sema is here
    Signals,      \* may a down_interruptible be interrupted by a signal?
    Unplug,       \* may the device vanish (bSurpriseRemoved)?
    NoCmd         \* a NULL cmd_obj

(***************************************************************************)
(* The classes of command the thread tells apart: _DisConnect_CMD_ has a   *)
(* callback that frees the object only on success, POWER_SAVING_CTRL_WK_CID*)
(* runs rtw_ps_processor, and for the others the callback or the thread    *)
(* frees the object.                                                       *)
(***************************************************************************)
AllCmdCodes == {"Plain", "DisConnect", "PowerSaving"}

ASSUME ConstantsAssumption ==
    /\ CmdCodes \subseteq AllCmdCodes
    /\ MaxSessions \in Nat
    /\ MaxSema \in Nat
    /\ Signals \in BOOLEAN
    /\ Unplug \in BOOLEAN
    /\ NoCmd \notin Cmds

Threads == 1 .. MaxSessions     \* the thread of each start, in order

VARIABLES
    initialized, bDriverStopped, bSurpriseRemoved,   \* struct rtl_priv
    hw_init_completed, cmdthd_running,
    rf_pwrstate,          \* "ERFON" or "ERFOFF" (IPS)
    cmd_queue,            \* struct cmd_priv: the list of commands
    cmd_queue_sema,
    terminate_cmdthread_sema,
    live,                 \* the cmd_objs that are allocated
    cmdcode, res,         \* fields of the cmd_objs
    tpc, pcmd,            \* each command thread: where it is, its command
    cpc, ccmd,            \* each caller of rtw_enqueue_cmd
    mpc, why, sessions,   \* the context that opens, suspends, removes
    wpc,                  \* an ioctl in rtw_ips_leave
    pwr_lock              \* pwrpriv->lock, and who holds it

flags == <<initialized, bDriverStopped, bSurpriseRemoved,
           hw_init_completed, cmdthd_running, rf_pwrstate>>
queue == <<cmd_queue, cmd_queue_sema>>
objs  == <<live, cmdcode, res>>
thread == <<tpc, pcmd>>
caller == <<cpc, ccmd>>
control == <<mpc, why, sessions, wpc, pwr_lock>>
vars == <<flags, queue, terminate_cmdthread_sema, objs, thread, caller, control>>

ThreadPc == {"none", "start", "wait", "next", "dequeue", "filter", "run",
             "ips_lock", "ips_down", "post", "exit", "drain", "done", "gone"}
MainPc == {"closed", "suspended", "open_hal", "open_start", "open_wait", "up",
           "unload_intf", "unload_wait", "unload_deinit", "removed"}

\* A thread exists from kthread_run to complete_and_exit.
Alive(t) == tpc[t] \notin {"none", "gone"}
Stopped == bDriverStopped \/ bSurpriseRemoved

FlagsOK ==
    /\ initialized \in BOOLEAN /\ bDriverStopped \in BOOLEAN
    /\ bSurpriseRemoved \in BOOLEAN /\ hw_init_completed \in BOOLEAN
    /\ cmdthd_running \in BOOLEAN
QueueOK ==
    /\ cmd_queue \in Seq(Cmds)
    /\ cmd_queue_sema \in Nat
    /\ terminate_cmdthread_sema \in Nat
    /\ live \subseteq Cmds
    /\ cmdcode \in [Cmds -> AllCmdCodes]
    /\ res \in [Cmds -> {"H2C_SUCCESS", "H2C_DROPPED"}]
ContextsOK ==
    /\ tpc \in [Threads -> ThreadPc]
    /\ pcmd \in [Threads -> Cmds \cup {NoCmd}]
    /\ cpc \in [Callers -> {"idle", "filter", "append", "up"}]
    /\ ccmd \in [Callers -> Cmds \cup {NoCmd}]
ControlOK ==
    /\ mpc \in MainPc /\ why \in {"open", "resume", "suspend", "remove"}
    /\ sessions \in 0 .. MaxSessions
    /\ wpc \in {"idle", "leave", "hal"}
    /\ pwr_lock \in {"free", "main", "waker", "thread"}
    /\ rf_pwrstate \in {"ERFON", "ERFOFF"}

TypeOK == FlagsOK /\ QueueOK /\ ContextsOK /\ ControlOK
-----------------------------------------------------------------------------
(***************************************************************************)
(* After probe: rtw_usb_probe sets bDriverStopped and _rtw_init_cmd_priv   *)
(* makes both semaphores 0 and the list empty.                             *)
(***************************************************************************)
Init ==
    /\ initialized = FALSE /\ bDriverStopped = TRUE /\ bSurpriseRemoved = FALSE
    /\ hw_init_completed = FALSE /\ cmdthd_running = FALSE
    /\ rf_pwrstate = "ERFON"
    /\ cmd_queue = << >> /\ cmd_queue_sema = 0
    /\ terminate_cmdthread_sema = 0
    /\ live = {}
    /\ cmdcode = [c \in Cmds |-> "Plain"]
    /\ res = [c \in Cmds |-> "H2C_SUCCESS"]
    /\ tpc = [t \in Threads |-> "none"]
    /\ pcmd = [t \in Threads |-> NoCmd]
    /\ cpc = [p \in Callers |-> "idle"]
    /\ ccmd = [p \in Callers |-> NoCmd]
    /\ mpc = "closed" /\ why = "open"
    /\ sessions = 0
    /\ wpc = "idle"
    /\ pwr_lock = "free"
-----------------------------------------------------------------------------
(***************************************************************************)
(* rtw_enqueue_cmd, by one of the callers.                                 *)
(***************************************************************************)

\* rtw_cmd_filter: are commands accepted at all?
rtw_cmd_filter == hw_init_completed /\ cmdthd_running

\* The caller allocates and fills a cmd_obj (init_h2fwcmd_w_parm_no_rsp).
AllocCmd(p, c, k) ==
    /\ mpc # "removed"
    /\ cpc[p] = "idle" /\ c \notin live /\ cmd_queue_sema < MaxSema
    /\ live' = live \cup {c}
    /\ cmdcode' = [cmdcode EXCEPT ![c] = k]
    /\ res' = [res EXCEPT ![c] = "H2C_SUCCESS"]
    /\ cpc' = [cpc EXCEPT ![p] = "filter"]
    /\ ccmd' = [ccmd EXCEPT ![p] = c]
    /\ UNCHANGED <<flags, queue, terminate_cmdthread_sema, thread, control>>

\* Mutant: rtw_enqueue_cmd goes on with a refused command it has freed.
EnqueueFilterNoGoto(p) ==
    /\ cpc[p] = "filter"
    /\ cpc' = [cpc EXCEPT ![p] = "append"]
    /\ live' = IF rtw_cmd_filter THEN live ELSE live \ {ccmd[p]}
    /\ UNCHANGED <<flags, queue, terminate_cmdthread_sema, cmdcode, res,
                   thread, ccmd, control>>

\* The filter; a refused command is freed at once.
EnqueueFilter(p) ==
    /\ cpc[p] = "filter"
    /\ IF rtw_cmd_filter
         THEN /\ cpc' = [cpc EXCEPT ![p] = "append"]
              /\ UNCHANGED <<ccmd, live>>
         ELSE /\ cpc' = [cpc EXCEPT ![p] = "idle"]
              /\ ccmd' = [ccmd EXCEPT ![p] = NoCmd]
              /\ live' = live \ {ccmd[p]}
    /\ UNCHANGED <<flags, queue, terminate_cmdthread_sema, cmdcode, res,
                   thread, control>>

\* _rtw_enqueue_cmd: list_add_tail under the queue lock.
EnqueueAppend(p) ==
    /\ cpc[p] = "append"
    /\ cmd_queue' = Append(cmd_queue, ccmd[p])
    /\ cpc' = [cpc EXCEPT ![p] = "up"]
    /\ ccmd' = [ccmd EXCEPT ![p] = NoCmd]
    /\ UNCHANGED <<flags, cmd_queue_sema, terminate_cmdthread_sema, objs,
                   thread, control>>

\* Mutant: the wakeup is forgotten.
EnqueueNoUp(p) ==
    /\ cpc[p] = "up"
    /\ cpc' = [cpc EXCEPT ![p] = "idle"]
    /\ UNCHANGED <<flags, queue, terminate_cmdthread_sema, objs, thread, ccmd,
                   control>>

\* up(&pcmdpriv->cmd_queue_sema).
EnqueueUp(p) ==
    /\ cpc[p] = "up"
    /\ cmd_queue_sema' = cmd_queue_sema + 1
    /\ cpc' = [cpc EXCEPT ![p] = "idle"]
    /\ UNCHANGED <<flags, cmd_queue, terminate_cmdthread_sema, objs, thread,
                   ccmd, control>>

Caller(p) ==
    \/ \E c \in Cmds, k \in CmdCodes : AllocCmd(p, c, k)
    \/ EnqueueFilter(p)
    \/ EnqueueAppend(p)
    \/ EnqueueUp(p)
-----------------------------------------------------------------------------
(***************************************************************************)
(* rtw_cmd_thread.                                                         *)
(***************************************************************************)

\* Thread t goes from one place of its loop to another.
Goto(t, from, to) ==
    /\ tpc[t] = from
    /\ tpc' = [tpc EXCEPT ![t] = to]

ThreadStart(t) ==
    /\ Goto(t, "start", "wait")
    /\ cmdthd_running' = TRUE
    /\ terminate_cmdthread_sema' = terminate_cmdthread_sema + 1
    /\ UNCHANGED <<initialized, bDriverStopped, bSurpriseRemoved,
                   hw_init_completed, rf_pwrstate, queue, objs, pcmd, caller,
                   control>>

\* Mutant: the thread does not wait for the semaphore.
ThreadDownNoWait(t) ==
    /\ Goto(t, "wait", "next")
    /\ cmd_queue_sema' = cmd_queue_sema - 1
    /\ UNCHANGED <<flags, cmd_queue, terminate_cmdthread_sema, objs, pcmd,
                   caller, control>>

\* down_interruptible(cmd_queue_sema) succeeds ...
ThreadDown(t) ==
    /\ cmd_queue_sema > 0
    /\ Goto(t, "wait", "next")
    /\ cmd_queue_sema' = cmd_queue_sema - 1
    /\ UNCHANGED <<flags, cmd_queue, terminate_cmdthread_sema, objs, pcmd,
                   caller, control>>

\* ... or SIGTERM, which thread_enter allows, breaks the loop.
ThreadSignalled(t) ==
    /\ Signals
    /\ Goto(t, "wait", "exit")
    /\ UNCHANGED <<flags, queue, terminate_cmdthread_sema, objs, pcmd, caller,
                   control>>

\* _next: the two consecutive tests of the stop flags.
ThreadNext(t) ==
    /\ Goto(t, "next", IF Stopped THEN "exit" ELSE "dequeue")
    /\ UNCHANGED <<flags, queue, terminate_cmdthread_sema, objs, pcmd, caller,
                   control>>

\* rtw_dequeue_cmd; on an empty list the thread goes back to the semaphore.
ThreadDequeue(t) ==
    /\ Goto(t, "dequeue", IF cmd_queue = << >> THEN "wait" ELSE "filter")
    /\ IF cmd_queue = << >>
         THEN UNCHANGED <<cmd_queue, pcmd>>
         ELSE /\ cmd_queue' = Tail(cmd_queue)
              /\ pcmd' = [pcmd EXCEPT ![t] = Head(cmd_queue)]
    /\ UNCHANGED <<flags, cmd_queue_sema, terminate_cmdthread_sema, objs,
                   caller, control>>

\* Mutant: the thread trusts the filter of rtw_enqueue_cmd.
ThreadNoFilter(t) ==
    /\ Goto(t, "filter", "run")
    /\ UNCHANGED <<flags, queue, terminate_cmdthread_sema, objs, pcmd, caller,
                   control>>

\* The thread's own rtw_cmd_filter: a command may have become unwanted.
ThreadFilter(t) ==
    /\ Goto(t, "filter", IF rtw_cmd_filter THEN "run" ELSE "post")
    /\ res' = [res EXCEPT ![pcmd[t]] =
                 IF rtw_cmd_filter THEN "H2C_SUCCESS" ELSE "H2C_DROPPED"]
    /\ UNCHANGED <<flags, queue, terminate_cmdthread_sema, live, cmdcode, pcmd,
                   caller, control>>

\* The handler of wlancmds returns. rtw_ps_processor returns at once unless
\* the radio is on (and the station is idle).
ThreadRun(t) ==
    /\ Goto(t, "run", "post")
    /\ UNCHANGED <<flags, queue, terminate_cmdthread_sema, objs, pcmd, caller,
                   control>>

\* A handler issues a command itself (site_survey reports an event, ...).
ThreadRunEnqueue(t, c) ==
    /\ tpc[t] = "run" /\ rtw_cmd_filter
    /\ c \notin live /\ cmd_queue_sema < MaxSema
    /\ live' = live \cup {c}
    /\ cmdcode' = [cmdcode EXCEPT ![c] = "Plain"]
    /\ res' = [res EXCEPT ![c] = "H2C_SUCCESS"]
    /\ cmd_queue' = Append(cmd_queue, c)
    /\ cmd_queue_sema' = cmd_queue_sema + 1
    /\ UNCHANGED <<flags, terminate_cmdthread_sema, thread, caller, control>>

\* rtw_pwr_unassociated_idle. A _DisConnect_CMD_ is issued by a linked
\* station, which is not idle, and rtw_indicate_disconnect sets ips_deny_time
\* before it clears _FW_LINKED.
rtw_pwr_unassociated_idle == \A c \in live : cmdcode[c] # "DisConnect"

\* rtw_ps_processor decides to enter IPS: rtw_ips_enter waits for the lock.
ThreadIpsBegin(t) ==
    /\ Goto(t, "run", "ips_lock")
    /\ cmdcode[pcmd[t]] = "PowerSaving" /\ rf_pwrstate = "ERFON"
    /\ rtw_pwr_unassociated_idle
    /\ UNCHANGED <<flags, queue, terminate_cmdthread_sema, objs, pcmd, caller,
                   control>>

ThreadIpsLock(t) ==
    /\ pwr_lock = "free"
    /\ Goto(t, "ips_lock", "ips_down")
    /\ pwr_lock' = "thread"
    /\ UNCHANGED <<flags, queue, terminate_cmdthread_sema, objs, pcmd, caller,
                   mpc, why, sessions, wpc>>

\* rtw_ips_pwr_down: the hardware goes off unless the device is gone.
ThreadIpsDown(t) ==
    /\ Goto(t, "ips_down", "post")
    /\ hw_init_completed' = (hw_init_completed /\ bSurpriseRemoved)
    /\ rf_pwrstate' = "ERFOFF"
    /\ pwr_lock' = "free"
    /\ UNCHANGED <<initialized, bDriverStopped, bSurpriseRemoved,
                   cmdthd_running, queue, terminate_cmdthread_sema, objs, pcmd,
                   caller, mpc, why, sessions, wpc>>

\* post_process: the callback, or the thread itself, frees the command;
\* rtw_disassoc_cmd_callback returns without freeing one that was dropped.
Frees(c) == ~ (cmdcode[c] = "DisConnect" /\ res[c] # "H2C_SUCCESS")

ThreadPost(t) ==
    /\ Goto(t, "post", "next")
    /\ live' = IF Frees(pcmd[t]) THEN live \ {pcmd[t]} ELSE live
    /\ pcmd' = [pcmd EXCEPT ![t] = NoCmd]
    /\ UNCHANGED <<flags, queue, terminate_cmdthread_sema, cmdcode, res, caller,
                   control>>

\* The loop is left.
ThreadExit(t) ==
    /\ Goto(t, "exit", "drain")
    /\ cmdthd_running' = FALSE
    /\ UNCHANGED <<initialized, bDriverStopped, bSurpriseRemoved,
                   hw_init_completed, rf_pwrstate, queue,
                   terminate_cmdthread_sema, objs, pcmd, caller, control>>

\* "free all cmd_obj resources", one command at a time.
ThreadDrain(t) ==
    /\ Goto(t, "drain", IF cmd_queue = << >> THEN "done" ELSE "drain")
    /\ IF cmd_queue = << >>
         THEN UNCHANGED <<cmd_queue, live>>
         ELSE /\ cmd_queue' = Tail(cmd_queue)
              /\ live' = live \ {Head(cmd_queue)}
    /\ UNCHANGED <<flags, cmd_queue_sema, terminate_cmdthread_sema, cmdcode,
                   res, pcmd, caller, control>>

\* up(terminate_cmdthread_sema); complete_and_exit.
ThreadDone(t) ==
    /\ Goto(t, "done", "gone")
    /\ terminate_cmdthread_sema' = terminate_cmdthread_sema + 1
    /\ UNCHANGED <<flags, queue, objs, pcmd, caller, control>>

ThreadStep(t) ==
    \/ ThreadStart(t)
    \/ ThreadDown(t)
    \/ ThreadNext(t)
    \/ ThreadDequeue(t)
    \/ ThreadFilter(t)
    \/ ThreadRun(t)
    \/ \E c \in Cmds : ThreadRunEnqueue(t, c)
    \/ ThreadIpsBegin(t)
    \/ ThreadIpsLock(t)
    \/ ThreadIpsDown(t)
    \/ ThreadPost(t)
    \/ ThreadExit(t)
    \/ ThreadDrain(t)
    \/ ThreadDone(t)
-----------------------------------------------------------------------------
(***************************************************************************)
(* Opening: netdev_open by the user, or rtw_resume_process, which holds    *)
(* pwrpriv->lock all the way.                                              *)
(***************************************************************************)
MainAt(pc) == mpc = pc
MainGoto(pc) == mpc' = pc /\ UNCHANGED why

OpenBegin ==
    /\ sessions < MaxSessions
    /\ \/ /\ MainAt("closed")
          /\ mpc' = "open_hal" /\ why' = "open"
          /\ UNCHANGED pwr_lock
       \/ /\ MainAt("suspended") /\ pwr_lock = "free"
          /\ mpc' = "open_hal" /\ why' = "resume"
          /\ pwr_lock' = "main"
    /\ bDriverStopped' = FALSE /\ bSurpriseRemoved' = FALSE
    /\ hw_init_completed' = FALSE
    /\ UNCHANGED <<initialized, cmdthd_running, rf_pwrstate, queue,
                   terminate_cmdthread_sema, objs, thread, caller, sessions,
                   wpc>>

\* A failed open leaves the interface closed; resume drops the lock.
MainReleases == pwr_lock' = IF why = "open" THEN pwr_lock ELSE "free"

\* rtw_hal_init returns; hw_init turns the radio on when it succeeds.
OpenHal ==
    /\ MainAt("open_hal")
    /\ \/ /\ hw_init_completed' = TRUE /\ rf_pwrstate' = "ERFON"
          /\ MainGoto("open_start")
          /\ UNCHANGED pwr_lock
       \/ /\ hw_init_completed' = FALSE /\ UNCHANGED rf_pwrstate
          /\ MainGoto("closed")
          /\ MainReleases
    /\ UNCHANGED <<initialized, bDriverStopped, bSurpriseRemoved,
                   cmdthd_running, queue, terminate_cmdthread_sema, objs,
                   thread, caller, sessions, wpc>>

\* rtw_start_drv_threads: kthread_run, which may fail.
StartThread ==
    /\ MainAt("open_start")
    /\ \/ /\ sessions' = sessions + 1
          /\ tpc' = [tpc EXCEPT ![sessions + 1] = "start"]
          /\ MainGoto("open_wait")
          /\ UNCHANGED pwr_lock
       \/ /\ MainGoto("closed")
          /\ MainReleases
          /\ UNCHANGED <<sessions, tpc>>
    /\ UNCHANGED <<flags, queue, terminate_cmdthread_sema, objs, pcmd, caller,
                   wpc>>

\* "wait for cmd_thread to run", then usb_intf_start and initialized = true;
\* the result of the down is not looked at.
OpenDone ==
    /\ MainAt("open_wait")
    /\ initialized' = TRUE
    /\ MainGoto("up")
    /\ MainReleases
    /\ UNCHANGED <<bDriverStopped, bSurpriseRemoved, hw_init_completed,
                   cmdthd_running, rf_pwrstate, queue, objs, thread, caller,
                   sessions, wpc>>

OpenWait ==
    /\ terminate_cmdthread_sema > 0
    /\ terminate_cmdthread_sema' = terminate_cmdthread_sema - 1
    /\ OpenDone

OpenInterrupted ==
    Signals /\ OpenDone /\ UNCHANGED terminate_cmdthread_sema
-----------------------------------------------------------------------------
(***************************************************************************)
(* rtw_dev_unload, from suspend (which takes pwrpriv->lock first and holds *)
(* it until the thread is gone) or from disconnect. Ioctls are over by     *)
(* then: user tasks are frozen, or the netdev is unregistered.             *)
(***************************************************************************)
UnloadBegin ==
    /\ MainAt("up") /\ wpc = "idle"
    /\ \/ /\ ~ Stopped              \* suspend returns early otherwise
          /\ pwr_lock = "free" /\ pwr_lock' = "main"
          /\ mpc' = "unload_intf" /\ why' = "suspend"
       \/ /\ mpc' = "unload_intf" /\ why' = "remove"
          /\ UNCHANGED pwr_lock
    /\ bDriverStopped' = TRUE
    /\ UNCHANGED <<initialized, bSurpriseRemoved, hw_init_completed,
                   cmdthd_running, rf_pwrstate, queue,
                   terminate_cmdthread_sema, objs, thread, caller, sessions,
                   wpc>>

\* Mutant: rtw_stop_drv_threads does not wake the thread.
StopThreadNoUp ==
    /\ MainAt("unload_intf")
    /\ MainGoto("unload_wait")
    /\ UNCHANGED <<flags, queue, terminate_cmdthread_sema, objs, thread,
                   caller, sessions, wpc, pwr_lock>>

\* usb_intf_stop, then rtw_stop_drv_threads: up(cmd_queue_sema) ...
StopThread ==
    /\ MainAt("unload_intf")
    /\ cmd_queue_sema' = cmd_queue_sema + 1
    /\ MainGoto("unload_wait")
    /\ UNCHANGED <<flags, cmd_queue, terminate_cmdthread_sema, objs, thread,
                   caller, sessions, wpc, pwr_lock>>

\* Mutant: rtw_stop_drv_threads does not wait for the thread to end.
StopNoWait ==
    /\ MainAt("unload_wait")
    /\ MainGoto("unload_deinit")
    /\ UNCHANGED <<flags, queue, terminate_cmdthread_sema, objs, thread, caller,
                   sessions, wpc, pwr_lock>>

\* ... and down_interruptible(terminate_cmdthread_sema), result unused.
StopDone ==
    /\ MainAt("unload_wait")
    /\ MainGoto("unload_deinit")
    /\ UNCHANGED <<flags, queue, objs, thread, caller, sessions, wpc, pwr_lock>>

StopWait ==
    /\ terminate_cmdthread_sema > 0
    /\ terminate_cmdthread_sema' = terminate_cmdthread_sema - 1
    /\ StopDone

StopInterrupted ==
    Signals /\ StopDone /\ UNCHANGED terminate_cmdthread_sema

\* rtw_hal_deinit unless the device is gone; initialized = false. Suspend
\* releases the lock, disconnect goes on to rtw_free_drv_sw.
UnloadDeinit ==
    /\ MainAt("unload_deinit")
    /\ hw_init_completed' = (hw_init_completed /\ bSurpriseRemoved)
    /\ bSurpriseRemoved' = TRUE
    /\ initialized' = FALSE
    /\ IF why = "suspend"
         THEN MainGoto("suspended") /\ pwr_lock' = "free"
         ELSE MainGoto("removed") /\ UNCHANGED pwr_lock
    /\ UNCHANGED <<bDriverStopped, cmdthd_running, rf_pwrstate, queue,
                   terminate_cmdthread_sema, objs, thread, caller, sessions,
                   wpc>>

\* rtw_usb_disconnect of an interface that is not open: rtw_dev_unload does
\* nothing.
RemoveClosed ==
    /\ mpc \in {"closed", "suspended"}
    /\ mpc' = "removed" /\ why' = "remove"
    /\ UNCHANGED <<flags, queue, terminate_cmdthread_sema, objs, thread, caller,
                   sessions, wpc, pwr_lock>>

\* What an open or an unload in progress does next.
MainStep ==
    \/ OpenHal
    \/ StartThread
    \/ OpenWait
    \/ StopThread
    \/ StopWait
    \/ UnloadDeinit
-----------------------------------------------------------------------------
(***************************************************************************)
(* rtw_ips_leave, from rtw_pwr_wakeup in an ioctl while the interface is   *)
(* up: the lock, then ips_netdrv_open, which clears the stop flags and     *)
(* brings the hardware up again.                                           *)
(***************************************************************************)
IpsLeaveLock ==
    /\ wpc = "idle" /\ MainAt("up") /\ rf_pwrstate = "ERFOFF"
    /\ pwr_lock = "free"
    /\ pwr_lock' = "waker" /\ wpc' = "leave"
    /\ UNCHANGED <<flags, queue, terminate_cmdthread_sema, objs, thread, caller,
                   mpc, why, sessions>>

IpsLeaveBegin ==
    /\ wpc = "leave" /\ wpc' = "hal"
    /\ bDriverStopped' = FALSE /\ bSurpriseRemoved' = FALSE
    /\ hw_init_completed' = FALSE
    /\ UNCHANGED <<initialized, cmdthd_running, rf_pwrstate, queue,
                   terminate_cmdthread_sema, objs, thread, caller, mpc,
                   why, sessions, pwr_lock>>

IpsLeaveHal ==
    /\ wpc = "hal" /\ wpc' = "idle" /\ pwr_lock' = "free"
    /\ \/ hw_init_completed' = TRUE /\ rf_pwrstate' = "ERFON"
       \/ hw_init_completed' = FALSE /\ UNCHANGED rf_pwrstate
    /\ UNCHANGED <<initialized, bDriverStopped, bSurpriseRemoved,
                   cmdthd_running, queue, terminate_cmdthread_sema, objs,
                   thread, caller, mpc, why, sessions>>

Waker == IpsLeaveLock \/ IpsLeaveBegin \/ IpsLeaveHal

\* A control transfer or a bulk URB fails: the device is gone.
DeviceLost ==
    /\ Unplug /\ ~ bSurpriseRemoved
    /\ mpc \notin {"closed", "suspended", "removed"}
    /\ bSurpriseRemoved' = TRUE
    /\ UNCHANGED <<initialized, bDriverStopped, hw_init_completed,
                   cmdthd_running, rf_pwrstate, queue,
                   terminate_cmdthread_sema, objs, thread, caller, control>>

\* The module is unloaded and everybody is done.
Finished ==
    /\ MainAt("removed") /\ UNCHANGED vars

Next ==
    \/ \E p \in Callers : Caller(p)
    \/ \E t \in Threads : ThreadStep(t) \/ ThreadSignalled(t)
    \/ MainStep
    \/ OpenBegin
    \/ UnloadBegin
    \/ RemoveClosed
    \/ Waker
    \/ OpenInterrupted
    \/ StopInterrupted
    \/ DeviceLost
    \/ Finished

Spec == Init /\ [][Next]_vars

(***************************************************************************)
(* Fairness: the scheduler runs a thread that can run, a context inside    *)
(* rtw_enqueue_cmd, rtw_ips_leave, an open or an unload goes on, and a     *)
(* handler returns. Nothing makes a caller issue a command, a user open    *)
(* the interface or the system suspend.                                    *)
(***************************************************************************)
FairSpec ==
    /\ Spec
    /\ \A t \in Threads : WF_vars(ThreadStep(t))
    /\ \A p \in Callers :
          WF_vars(EnqueueFilter(p) \/ EnqueueAppend(p) \/ EnqueueUp(p))
    /\ WF_vars(MainStep)
    /\ WF_vars(IpsLeaveBegin \/ IpsLeaveHal)
-----------------------------------------------------------------------------
(***************************************************************************)
(* Safety.                                                                 *)
(***************************************************************************)

\* rtw_stop_drv_threads joins the thread: from the moment it returns until
\* the next kthread_run no command thread exists, so nothing runs a handler
\* while the hardware is deinitialised or after rtw_free_cmd_priv; and when
\* one exists it is the one of the last start.
StopJoins ==
    /\ mpc \in {"closed", "suspended", "open_hal", "open_start",
                     "unload_deinit", "removed"} => \A t \in Threads : ~ Alive(t)
    /\ \A t \in Threads : Alive(t) => t = sessions

\* No lost wakeup: a thread asleep on cmd_queue_sema with a command in the
\* list has been woken, or the caller that put it there is about to.
NoLostWakeup ==
    \A t \in Threads :
        tpc[t] = "wait" /\ cmd_queue # << >> =>
            cmd_queue_sema > 0 \/ \E p \in Callers : cpc[p] = "up"

\* Ownership: a command in the list, in the thread's hands or in a caller's
\* is allocated, and only one of them has it (no use after free, no double
\* free), whatever path rtw_enqueue_cmd, the callbacks and the drain take.
OneOwner ==
    /\ \A i \in DOMAIN cmd_queue :
          /\ cmd_queue[i] \in live
          /\ \A j \in DOMAIN cmd_queue : cmd_queue[i] = cmd_queue[j] => i = j
          /\ \A t \in Threads : pcmd[t] # cmd_queue[i]
          /\ \A p \in Callers : ccmd[p] # cmd_queue[i]
    /\ \A t \in Threads : pcmd[t] # NoCmd =>
          /\ pcmd[t] \in live
          /\ \A u \in Threads : pcmd[t] = pcmd[u] => t = u
          /\ \A p \in Callers : ccmd[p] # pcmd[t]
    /\ \A p \in Callers : ccmd[p] # NoCmd =>
          /\ ccmd[p] \in live
          /\ \A q \in Callers : ccmd[p] = ccmd[q] => p = q

\* A handler runs on initialised hardware only, although the filter was
\* evaluated earlier and IPS switches the hardware off and on meanwhile.
HandlerHasHw ==
    \A t \in Threads : tpc[t] \in {"run", "ips_lock", "ips_down"} => hw_init_completed
-----------------------------------------------------------------------------
(***************************************************************************)
(* Liveness.                                                               *)
(***************************************************************************)

\* "Below is to termindate rtw_cmd_thread" (os_dep/os_intfs.c): an unload
\* that has asked the thread to stop gets past it and completes.
StopCompletes ==
    MainAt("unload_intf") ~> mpc \in {"suspended", "removed"}

Queued(c) == \E i \in DOMAIN cmd_queue : cmd_queue[i] = c

\* A queued command does not stay queued while there is a thread: it is
\* taken, or the thread ends and frees it.
QueueServed ==
    \A c \in Cmds :
        Queued(c) /\ (\E t \in Threads : Alive(t))
            ~> ~ Queued(c) \/ (\A t \in Threads : ~ Alive(t))
=============================================================================
