-------------------------- MODULE CmdThreadProofs --------------------------
(***************************************************************************)
(* Proofs about CmdThread for every number of callers, commands and        *)
(* sessions. The join theorem assumes ~Signals: with signals it is false.  *)
(***************************************************************************)
EXTENDS CmdThread, Integers, TLAPS

\* A thread is only created below the bound on sessions: OpenBegin checks it
\* two steps before kthread_run.
SessionBound == mpc \in {"open_hal", "open_start"} => sessions < MaxSessions

\* Where a context has a command in its hands it is not NULL.
HoldsCmd ==
    /\ \A p \in Callers : cpc[p] \in {"filter", "append"} => ccmd[p] \in Cmds
    /\ \A t \in Threads :
          tpc[t] \in {"filter", "run", "ips_lock", "ips_down", "post"} => pcmd[t] \in Cmds

TypeInv == TypeOK /\ SessionBound /\ HoldsCmd

LEMMA InitTypeInv == Init => TypeInv
  <1> SUFFICES ASSUME Init PROVE TypeInv
    OBVIOUS
  <1> USE ConstantsAssumption DEF Init
  <1>1. FlagsOK
    BY DEF FlagsOK
  <1>2. QueueOK
    BY DEF QueueOK, AllCmdCodes
  <1>3. ContextsOK
    BY DEF ContextsOK, Threads, ThreadPc
  <1>4. ControlOK /\ SessionBound
    BY DEF ControlOK, MainPc, SessionBound
  <1>5. HoldsCmd
    BY DEF HoldsCmd
  <1> QED
    BY <1>1, <1>2, <1>3, <1>4, <1>5 DEF TypeInv, TypeOK

\* Every step preserves the types of the variables.
LEMMA StepTypeInv == TypeInv /\ [Next]_vars => TypeInv'
  <1> SUFFICES ASSUME TypeInv, [Next]_vars PROVE TypeInv'
    OBVIOUS
  <1> USE ConstantsAssumption
      DEF TypeInv, TypeOK, FlagsOK, QueueOK, ContextsOK, ControlOK, SessionBound,
          HoldsCmd, Threads, MainPc, ThreadPc, AllCmdCodes,
          flags, queue, objs, thread, caller, control, MainAt, MainGoto,
          MainReleases, Goto
  <1>1. ASSUME NEW p \in Callers, NEW c \in Cmds, NEW k \in CmdCodes, AllocCmd(p, c, k)
        PROVE  TypeInv'
    BY <1>1 DEF AllocCmd
  <1>2. ASSUME NEW p \in Callers, EnqueueFilter(p) PROVE TypeInv'
    BY <1>2 DEF EnqueueFilter
  <1>3. ASSUME NEW p \in Callers, EnqueueAppend(p) PROVE TypeInv'
    BY <1>3 DEF EnqueueAppend
  <1>4. ASSUME NEW p \in Callers, EnqueueUp(p) PROVE TypeInv'
    BY <1>4 DEF EnqueueUp
  <1>5. ASSUME NEW t \in Threads, ThreadStart(t) PROVE TypeInv'
    BY <1>5 DEF ThreadStart
  <1>6. ASSUME NEW t \in Threads, ThreadDown(t) PROVE TypeInv'
    BY <1>6 DEF ThreadDown
  <1>7. ASSUME NEW t \in Threads, ThreadSignalled(t) PROVE TypeInv'
    BY <1>7 DEF ThreadSignalled
  <1>8. ASSUME NEW t \in Threads, ThreadNext(t) PROVE TypeInv'
    BY <1>8 DEF ThreadNext
  <1>9. ASSUME NEW t \in Threads, ThreadDequeue(t) PROVE TypeInv'
    <2> USE <1>9 DEF ThreadDequeue
    <2>0. cmd_queue # << >> => Head(cmd_queue) \in Cmds /\ Tail(cmd_queue) \in Seq(Cmds)
      OBVIOUS
    <2>1. FlagsOK'
      OBVIOUS
    <2>2. QueueOK'
      <3>1. cmd_queue' \in Seq(Cmds)
        BY <2>0
      <3> QED
        BY <3>1
    <2>3. ContextsOK' /\ HoldsCmd'
      OBVIOUS
    <2>4. ControlOK' /\ SessionBound'
      OBVIOUS
    <2> QED
      BY <2>1, <2>2, <2>3, <2>4
  <1>10. ASSUME NEW t \in Threads, ThreadFilter(t) PROVE TypeInv'
    BY <1>10 DEF ThreadFilter
  <1>11. ASSUME NEW t \in Threads, ThreadRun(t) PROVE TypeInv'
    BY <1>11 DEF ThreadRun
  <1>12. ASSUME NEW t \in Threads, NEW c \in Cmds, ThreadRunEnqueue(t, c) PROVE TypeInv'
    BY <1>12 DEF ThreadRunEnqueue
  <1>13. ASSUME NEW t \in Threads, ThreadIpsBegin(t) PROVE TypeInv'
    BY <1>13 DEF ThreadIpsBegin
  <1>14. ASSUME NEW t \in Threads, ThreadIpsLock(t) PROVE TypeInv'
    BY <1>14 DEF ThreadIpsLock
  <1>15. ASSUME NEW t \in Threads, ThreadIpsDown(t) PROVE TypeInv'
    BY <1>15 DEF ThreadIpsDown
  <1>16. ASSUME NEW t \in Threads, ThreadPost(t) PROVE TypeInv'
    BY <1>16 DEF ThreadPost
  <1>17. ASSUME NEW t \in Threads, ThreadExit(t) PROVE TypeInv'
    <2> USE <1>17 DEF ThreadExit
    <2>1. FlagsOK'
      OBVIOUS
    <2>2. QueueOK'
      OBVIOUS
    <2>3. ContextsOK' /\ HoldsCmd'
      OBVIOUS
    <2>4. ControlOK' /\ SessionBound'
      OBVIOUS
    <2> QED
      BY <2>1, <2>2, <2>3, <2>4
  <1>18. ASSUME NEW t \in Threads, ThreadDrain(t) PROVE TypeInv'
    <2> USE <1>18 DEF ThreadDrain
    <2>0. cmd_queue # << >> => Head(cmd_queue) \in Cmds /\ Tail(cmd_queue) \in Seq(Cmds)
      OBVIOUS
    <2>1. FlagsOK'
      OBVIOUS
    <2>2. QueueOK'
      <3>1. cmd_queue' \in Seq(Cmds)
        BY <2>0
      <3>2. live' \subseteq Cmds
        OBVIOUS
      <3> QED
        BY <3>1, <3>2
    <2>3. ContextsOK' /\ HoldsCmd'
      OBVIOUS
    <2>4. ControlOK' /\ SessionBound'
      OBVIOUS
    <2> QED
      BY <2>1, <2>2, <2>3, <2>4
  <1>19. ASSUME NEW t \in Threads, ThreadDone(t) PROVE TypeInv'
    BY <1>19 DEF ThreadDone
  <1>20. CASE OpenBegin
    BY <1>20 DEF OpenBegin
  <1>21. CASE OpenHal
    <2> USE <1>21 DEF OpenHal
    <2>1. FlagsOK'
      OBVIOUS
    <2>2. QueueOK'
      OBVIOUS
    <2>3. ContextsOK' /\ HoldsCmd'
      OBVIOUS
    <2>4. ControlOK' /\ SessionBound'
      OBVIOUS
    <2> QED
      BY <2>1, <2>2, <2>3, <2>4
  <1>22. CASE StartThread
    <2> USE <1>22 DEF StartThread
    <2>1. FlagsOK'
      OBVIOUS
    <2>2. QueueOK'
      OBVIOUS
    <2>3. ContextsOK' /\ HoldsCmd'
      OBVIOUS
    <2>4. ControlOK' /\ SessionBound'
      OBVIOUS
    <2> QED
      BY <2>1, <2>2, <2>3, <2>4
  <1>23. CASE OpenWait \/ OpenInterrupted
    <2> USE DEF OpenDone
    <2>1. CASE OpenWait
      BY <2>1 DEF OpenWait
    <2>2. CASE OpenInterrupted
      BY <2>2 DEF OpenInterrupted
    <2> QED
      BY <1>23, <2>1, <2>2
  <1>24. CASE UnloadBegin
    BY <1>24 DEF UnloadBegin
  <1>25. CASE StopThread
    BY <1>25 DEF StopThread
  <1>26. CASE StopWait \/ StopInterrupted
    BY <1>26 DEF StopWait, StopInterrupted, StopDone
  <1>27. CASE UnloadDeinit
    BY <1>27 DEF UnloadDeinit
  <1>28. CASE RemoveClosed
    BY <1>28 DEF RemoveClosed
  <1>29. CASE IpsLeaveLock
    BY <1>29 DEF IpsLeaveLock
  <1>30. CASE IpsLeaveBegin
    <2> USE <1>30 DEF IpsLeaveBegin
    <2>1. FlagsOK'
      OBVIOUS
    <2>2. QueueOK'
      OBVIOUS
    <2>3. ContextsOK' /\ HoldsCmd'
      OBVIOUS
    <2>4. ControlOK' /\ SessionBound'
      OBVIOUS
    <2> QED
      BY <2>1, <2>2, <2>3, <2>4
  <1>31. CASE IpsLeaveHal
    <2> USE <1>31 DEF IpsLeaveHal
    <2>1. FlagsOK'
      OBVIOUS
    <2>2. QueueOK'
      OBVIOUS
    <2>3. ContextsOK' /\ HoldsCmd'
      OBVIOUS
    <2>4. ControlOK' /\ SessionBound'
      OBVIOUS
    <2> QED
      BY <2>1, <2>2, <2>3, <2>4
  <1>32. CASE DeviceLost
    BY <1>32 DEF DeviceLost
  <1>33. CASE UNCHANGED vars
    BY <1>33 DEF vars
  <1> QED
    BY <1>1, <1>2, <1>3, <1>4, <1>5, <1>6, <1>7, <1>8, <1>9, <1>10, <1>11,
       <1>12, <1>13, <1>14, <1>15, <1>16, <1>17, <1>18, <1>19, <1>20, <1>21,
       <1>22, <1>23, <1>24, <1>25, <1>26, <1>27, <1>28, <1>29, <1>30, <1>31,
       <1>32, <1>33
    DEF Next, Caller, ThreadStep, MainStep, Waker, Finished

\* Type correctness of the command thread model.
THEOREM Typing == Spec => []TypeOK
  <1>1. TypeInv => TypeOK
    BY DEF TypeInv
  <1> QED
    BY InitTypeInv, StepTypeInv, <1>1, PTL DEF Spec
-----------------------------------------------------------------------------
(***************************************************************************)
(* The join. terminate_cmdthread_sema is raised at the thread's beginning  *)
(* and at its end and taken once by the starter and once by the stopper,   *)
(* so its value is determined by where the two are.                        *)
(***************************************************************************)
Quiet == {"closed", "suspended", "open_hal", "open_start", "unload_deinit", "removed"}

OnlyLastAlive == \A t \in Threads : Alive(t) => t = sessions

QuietJoined ==
    mpc \in Quiet => terminate_cmdthread_sema = 0 /\ \A t \in Threads : ~ Alive(t)

StarterCount ==
    mpc = "open_wait" =>
        /\ sessions \in Threads /\ tpc[sessions] # "none"
        /\ terminate_cmdthread_sema =
              IF tpc[sessions] = "start" THEN 0
              ELSE IF tpc[sessions] = "gone" THEN 2 ELSE 1

StopperCount ==
    mpc \in {"up", "unload_intf", "unload_wait"} =>
        /\ sessions \in Threads /\ tpc[sessions] \notin {"none", "start"}
        /\ terminate_cmdthread_sema = IF tpc[sessions] = "gone" THEN 1 ELSE 0

JoinInv == OnlyLastAlive /\ QuietJoined /\ StarterCount /\ StopperCount

\* Where a thread that is awake will look at the list again before it sleeps
\* or ends.
Awake == {"next", "dequeue", "filter", "run", "ips_lock", "ips_down", "post", "exit", "drain"}

\* A command in the list has an awake thread, a pending wakeup, or a caller
\* about to give one.
WakeupInv ==
    \/ cmd_queue = << >>
    \/ cmd_queue_sema > 0
    \/ \E p \in Callers : cpc[p] = "up"
    \/ \E t \in Threads : tpc[t] \in Awake
\* Nothing the join depends on changes.
JoinFrame == UNCHANGED <<tpc, terminate_cmdthread_sema, mpc, sessions>>

Inner == ThreadPc \ {"none", "start", "gone"}

\* The thread moves inside its body.
InnerMove(t) ==
    /\ \E from, to \in Inner : Goto(t, from, to)
    /\ UNCHANGED <<terminate_cmdthread_sema, mpc, sessions>>

LEMMA FrameKeepsJoin == JoinInv /\ JoinFrame => JoinInv'
  BY DEF JoinInv, JoinFrame, OnlyLastAlive, QuietJoined, StarterCount, StopperCount, Alive

LEMMA MoveKeepsJoin ==
  ASSUME TypeOK, JoinInv, NEW t \in Threads, InnerMove(t)
  PROVE  JoinInv'
  <1> USE DEF InnerMove, Inner, Goto, TypeOK, ContextsOK, ThreadPc, JoinInv,
              OnlyLastAlive, QuietJoined, StarterCount, StopperCount, Alive
  <1>1. OnlyLastAlive' /\ t = sessions
    OBVIOUS
  <1>2. QuietJoined'
    OBVIOUS
  <1>3. StarterCount'
    BY <1>1
  <1>4. StopperCount'
    BY <1>1
  <1> QED
    BY <1>1, <1>2, <1>3, <1>4

\* Most thread steps are inner moves.
LEMMA InnerMoves ==
  ASSUME TypeOK, NEW t \in Threads,
         \/ ThreadDown(t) \/ ThreadSignalled(t) \/ ThreadNext(t) \/ ThreadDequeue(t)
         \/ ThreadFilter(t) \/ ThreadRun(t) \/ ThreadIpsBegin(t) \/ ThreadIpsLock(t)
         \/ ThreadIpsDown(t) \/ ThreadPost(t) \/ ThreadExit(t) \/ ThreadDrain(t)
  PROVE  InnerMove(t)
  BY DEF ThreadDown, ThreadSignalled, ThreadNext, ThreadDequeue, ThreadFilter,
         ThreadRun, ThreadIpsBegin, ThreadIpsLock, ThreadIpsDown, ThreadPost,
         ThreadExit, ThreadDrain, InnerMove, Inner, ThreadPc, Goto, control

\* Without signals every step preserves the count of the join semaphore.
LEMMA StepJoin ==
  ASSUME ~ Signals, TypeInv, JoinInv, [Next]_vars
  PROVE  JoinInv'
  <1> USE DEF TypeInv, TypeOK, ContextsOK, ControlOK, QueueOK, MainAt, MainGoto, control, thread
  <1>1. ASSUME NEW p \in Callers, Caller(p) PROVE JoinFrame
    BY <1>1 DEF Caller, AllocCmd, EnqueueFilter, EnqueueAppend, EnqueueUp, JoinFrame
  <1>2. ASSUME NEW t \in Threads, NEW c \in Cmds, ThreadRunEnqueue(t, c) PROVE JoinFrame
    BY <1>2 DEF ThreadRunEnqueue, JoinFrame
  <1>3. CASE Waker \/ DeviceLost \/ UNCHANGED vars
    <2>1. JoinFrame
      BY <1>3 DEF Waker, IpsLeaveLock, IpsLeaveBegin, IpsLeaveHal, DeviceLost, vars, JoinFrame
    <2> QED
      BY <2>1, FrameKeepsJoin
  <1>4. ASSUME NEW t \in Threads, ThreadStart(t) PROVE JoinInv'
    <2> USE <1>4 DEF ThreadStart, Goto, JoinInv, OnlyLastAlive, QuietJoined,
                     StarterCount, StopperCount, Alive
    <2>1. OnlyLastAlive' /\ QuietJoined' /\ t = sessions
      OBVIOUS
    <2>2. StarterCount'
      BY <2>1
    <2>3. StopperCount'
      BY <2>1
    <2> QED
      BY <2>1, <2>2, <2>3
  <1>5. ASSUME NEW t \in Threads, ThreadDone(t) PROVE JoinInv'
    <2> USE <1>5 DEF ThreadDone, Goto, JoinInv, OnlyLastAlive, QuietJoined,
                     StarterCount, StopperCount, Alive
    <2>1. OnlyLastAlive' /\ QuietJoined' /\ t = sessions
      OBVIOUS
    <2>2. StarterCount'
      BY <2>1
    <2>3. StopperCount'
      BY <2>1
    <2> QED
      BY <2>1, <2>2, <2>3
  <1>6. CASE OpenBegin \/ OpenHal \/ UnloadDeinit \/ RemoveClosed
    BY <1>6 DEF OpenBegin, OpenHal, UnloadDeinit, RemoveClosed, JoinInv, OnlyLastAlive,
                QuietJoined, StarterCount, StopperCount, Alive, Quiet
  <1>7. CASE StartThread
    <2> USE <1>7 DEF StartThread, JoinInv, OnlyLastAlive, QuietJoined,
                     StarterCount, StopperCount, Alive, Quiet
    <2>1. CASE mpc' = "closed"
      BY <2>1
    <2>2. CASE mpc' = "open_wait"
      <3>1. sessions + 1 \in Threads /\ sessions' = sessions + 1
        BY <2>2, ConstantsAssumption DEF SessionBound, Threads
      <3>2. /\ tpc' = [tpc EXCEPT ![sessions + 1] = "start"]
            /\ terminate_cmdthread_sema = 0 /\ \A t \in Threads : ~ Alive(t)
        BY <2>2
      <3>3. tpc'[sessions'] = "start"
        BY <3>1, <3>2
      <3>4. OnlyLastAlive'
        BY <3>1, <3>2
      <3> QED
        BY <2>2, <3>1, <3>2, <3>3, <3>4
    <2> QED
      BY <2>1, <2>2
  <1>8. CASE OpenWait
    BY <1>8 DEF OpenWait, OpenDone, JoinInv, OnlyLastAlive, QuietJoined, StarterCount, StopperCount,
                Alive, Quiet
  <1>9. CASE UnloadBegin \/ StopThread
    BY <1>9 DEF UnloadBegin, StopThread, JoinInv, OnlyLastAlive, QuietJoined, StarterCount,
                StopperCount, Alive, Quiet
  <1>10. CASE StopWait
    BY <1>10 DEF StopWait, StopDone, JoinInv, OnlyLastAlive, QuietJoined, StarterCount,
                StopperCount, Alive, Quiet
  <1> QED
    BY <1>1, <1>2, <1>3, <1>4, <1>5, <1>6, <1>7, <1>8, <1>9, <1>10,
       FrameKeepsJoin, MoveKeepsJoin, InnerMoves
    DEF Next, ThreadStep, MainStep, OpenInterrupted, StopInterrupted, Finished

\* rtw_stop_drv_threads joins the command thread, when no signal interrupts
\* the wait: no thread exists from its return to the next start.
THEOREM Join == ASSUME ~ Signals PROVE Spec => []StopJoins
  <1>1. Init => TypeInv /\ JoinInv
    BY InitTypeInv DEF Init, JoinInv, OnlyLastAlive, QuietJoined, StarterCount,
       StopperCount, Alive
  <1>2. TypeInv /\ JoinInv /\ [Next]_vars => TypeInv' /\ JoinInv'
    BY StepTypeInv, StepJoin
  <1>3. JoinInv => StopJoins
    BY DEF JoinInv, OnlyLastAlive, QuietJoined, Quiet, StopJoins
  <1> QED
    BY <1>1, <1>2, <1>3, PTL DEF Spec
-----------------------------------------------------------------------------
(***************************************************************************)
(* Wakeups.                                                                *)
(***************************************************************************)

\* A step that leaves the list and the wakeups alone and in which no thread
\* stops being awake.
WakeupFrame ==
    /\ UNCHANGED <<cmd_queue, cmd_queue_sema>>
    /\ \A p \in Callers : cpc[p] = "up" => cpc'[p] = "up"
    /\ \A t \in Threads : tpc[t] \in Awake => tpc'[t] \in Awake

LEMMA FrameKeepsWakeup == WakeupInv /\ WakeupFrame => WakeupInv'
  BY DEF WakeupInv, WakeupFrame

\* Every step preserves it: the list only grows together with a wakeup, a
\* wakeup is only consumed by a thread that becomes awake, and a thread only
\* sleeps or ends when it has seen the list empty.
LEMMA StepWakeup ==
  ASSUME TypeInv, JoinInv, WakeupInv, [Next]_vars
  PROVE  WakeupInv'
  <1> USE DEF TypeInv, TypeOK, ContextsOK, QueueOK, queue, caller, thread
  <1>1. ASSUME NEW p \in Callers, NEW c \in Cmds, NEW k \in CmdCodes, AllocCmd(p, c, k)
        PROVE  WakeupFrame
    BY <1>1 DEF AllocCmd, WakeupFrame
  <1>2. ASSUME NEW p \in Callers, EnqueueFilter(p) PROVE WakeupFrame
    BY <1>2 DEF EnqueueFilter, WakeupFrame
  <1>3. ASSUME NEW p \in Callers, EnqueueAppend(p) PROVE WakeupInv'
    BY <1>3 DEF EnqueueAppend, WakeupInv
  <1>4. ASSUME NEW p \in Callers, EnqueueUp(p) PROVE WakeupInv'
    BY <1>4 DEF EnqueueUp, WakeupInv
  <1>5. ASSUME NEW t \in Threads, ThreadStart(t) \/ ThreadDone(t) PROVE WakeupFrame
    BY <1>5 DEF ThreadStart, ThreadDone, Goto, WakeupFrame, Awake
  <1>6. ASSUME NEW t \in Threads, ThreadDown(t) PROVE WakeupInv'
    <2>1. tpc'[t] \in Awake
      BY <1>6 DEF ThreadDown, Goto, Awake
    <2> QED
      BY <2>1 DEF WakeupInv
  <1>7. ASSUME NEW t \in Threads,
               \/ ThreadSignalled(t) \/ ThreadNext(t) \/ ThreadFilter(t) \/ ThreadRun(t)
               \/ ThreadIpsBegin(t) \/ ThreadIpsLock(t) \/ ThreadIpsDown(t)
               \/ ThreadPost(t) \/ ThreadExit(t)
        PROVE  WakeupFrame
    BY <1>7 DEF ThreadSignalled, ThreadNext, ThreadFilter, ThreadRun, ThreadIpsBegin,
                ThreadIpsLock, ThreadIpsDown, ThreadPost, ThreadExit, Goto,
                WakeupFrame, Awake
  <1>8. ASSUME NEW t \in Threads, ThreadDequeue(t) PROVE WakeupInv'
    <2>1. CASE cmd_queue = << >>
      BY <1>8, <2>1 DEF ThreadDequeue, WakeupInv
    <2>2. CASE cmd_queue # << >>
      <3>1. tpc'[t] \in Awake
        BY <1>8, <2>2 DEF ThreadDequeue, Goto, Awake
      <3> QED
        BY <3>1 DEF WakeupInv
    <2> QED
      BY <2>1, <2>2
  <1>9. ASSUME NEW t \in Threads, NEW c \in Cmds, ThreadRunEnqueue(t, c) PROVE WakeupInv'
    BY <1>9 DEF ThreadRunEnqueue, WakeupInv
  <1>10. ASSUME NEW t \in Threads, ThreadDrain(t) PROVE WakeupInv'
    <2>1. CASE cmd_queue = << >>
      BY <1>10, <2>1 DEF ThreadDrain, WakeupInv
    <2>2. CASE cmd_queue # << >>
      <3>1. tpc'[t] \in Awake
        BY <1>10, <2>2 DEF ThreadDrain, Goto, Awake
      <3> QED
        BY <3>1 DEF WakeupInv
    <2> QED
      BY <2>1, <2>2
  <1>11. CASE StartThread
    <2>1. UNCHANGED <<cmd_queue, cmd_queue_sema, cpc>>
      BY <1>11 DEF StartThread
    <2>2. \A t \in Threads : tpc[t] \notin Awake
      BY <1>11 DEF StartThread, MainAt, JoinInv, QuietJoined, Quiet, Alive, Awake
    <2> QED
      BY <2>1, <2>2 DEF WakeupInv
  <1>12. CASE StopThread
    BY <1>12 DEF StopThread, WakeupInv
  <1>13. CASE \/ OpenHal \/ OpenWait \/ StopWait \/ UnloadDeinit \/ OpenBegin
              \/ OpenInterrupted \/ StopInterrupted
              \/ UnloadBegin \/ RemoveClosed \/ Waker \/ DeviceLost \/ UNCHANGED vars
    <2>1. WakeupFrame
      BY <1>13 DEF OpenHal, OpenWait, OpenDone, StopWait, StopDone,
                   OpenInterrupted, StopInterrupted, UnloadDeinit, OpenBegin, UnloadBegin,
                   RemoveClosed, Waker, IpsLeaveLock, IpsLeaveBegin, IpsLeaveHal,
                   DeviceLost, vars, WakeupFrame
    <2> QED
      BY <2>1, FrameKeepsWakeup
  <1> QED
    BY <1>1, <1>2, <1>3, <1>4, <1>5, <1>6, <1>7, <1>8, <1>9, <1>10, <1>11, <1>12,
       <1>13, FrameKeepsWakeup
    DEF Next, Caller, ThreadStep, MainStep, Finished

\* No wakeup of the command thread is lost, for any number of callers.
THEOREM Wakeups == ASSUME ~ Signals PROVE Spec => []NoLostWakeup
  <1> DEFINE I == TypeInv /\ JoinInv /\ WakeupInv
  <1>1. Init => I
    BY InitTypeInv DEF Init, JoinInv, OnlyLastAlive, QuietJoined, StarterCount,
       StopperCount, Alive, WakeupInv
  <1>2. I /\ [Next]_vars => I'
    BY StepTypeInv, StepJoin, StepWakeup
  <1>3. I => NoLostWakeup
    <2> SUFFICES ASSUME I, NEW t \in Threads, tpc[t] = "wait", cmd_queue # << >>
                 PROVE  cmd_queue_sema > 0 \/ \E p \in Callers : cpc[p] = "up"
      BY DEF NoLostWakeup
    <2>1. \A u \in Threads : tpc[u] \notin Awake
      BY DEF JoinInv, OnlyLastAlive, Alive, Awake
    <2> QED
      BY <2>1 DEF WakeupInv
  <1> QED
    BY <1>1, <1>2, <1>3, PTL DEF Spec
-----------------------------------------------------------------------------
(***************************************************************************)
(* Ownership, with or without signals and unplugging.                      *)
(***************************************************************************)

\* OneOwner, part by part.
QueueOwns ==
    \A i \in DOMAIN cmd_queue :
        /\ cmd_queue[i] \in live
        /\ \A j \in DOMAIN cmd_queue : cmd_queue[i] = cmd_queue[j] => i = j
        /\ \A t \in Threads : pcmd[t] # cmd_queue[i]
        /\ \A p \in Callers : ccmd[p] # cmd_queue[i]
ThreadOwns ==
    \A t \in Threads : pcmd[t] # NoCmd =>
        /\ pcmd[t] \in live
        /\ \A u \in Threads : pcmd[t] = pcmd[u] => t = u
        /\ \A p \in Callers : ccmd[p] # pcmd[t]
CallerOwns ==
    \A p \in Callers : ccmd[p] # NoCmd =>
        /\ ccmd[p] \in live
        /\ \A q \in Callers : ccmd[p] = ccmd[q] => p = q

LEMMA OneOwnerParts == OneOwner <=> QueueOwns /\ ThreadOwns /\ CallerOwns
  BY DEF OneOwner, QueueOwns, ThreadOwns, CallerOwns

\* Where the elements of a list without its head were.
LEMMA TailIndex ==
  ASSUME NEW S, NEW s \in Seq(S), s # << >>, NEW i \in DOMAIN Tail(s)
  PROVE  i + 1 \in DOMAIN s /\ Tail(s)[i] = s[i + 1]
  OBVIOUS

LEMMA AppendIndex ==
  ASSUME NEW S, NEW s \in Seq(S), NEW e \in S, NEW i \in DOMAIN Append(s, e)
  PROVE  \/ i \in DOMAIN s /\ Append(s, e)[i] = s[i]
         \/ i = Len(s) + 1 /\ i \notin DOMAIN s /\ Append(s, e)[i] = e
  OBVIOUS
LEMMA StepOneOwner ==
  ASSUME TypeInv, OneOwner, [Next]_vars
  PROVE  OneOwner'
  <1> USE ConstantsAssumption
      DEF TypeInv, TypeOK, ContextsOK, QueueOK, HoldsCmd, queue, objs, caller, thread
  <1>0. QueueOwns /\ ThreadOwns /\ CallerOwns
    BY OneOwnerParts
  <1>1. ASSUME NEW p \in Callers, NEW c \in Cmds, NEW k \in CmdCodes, AllocCmd(p, c, k)
        PROVE  OneOwner'
    <2> USE <1>0, <1>1 DEF AllocCmd
    <2>1. QueueOwns'
      BY DEF QueueOwns
    <2>2. ThreadOwns'
      BY DEF ThreadOwns
    <2>3. CallerOwns'
      BY DEF CallerOwns
    <2> QED
      BY <2>1, <2>2, <2>3, OneOwnerParts DEF OneOwner, QueueOwns, ThreadOwns, CallerOwns
  <1>2. ASSUME NEW p \in Callers, EnqueueFilter(p) PROVE OneOwner'
    <2> USE <1>0, <1>2 DEF EnqueueFilter
    <2>1. QueueOwns'
      BY DEF QueueOwns
    <2>2. ThreadOwns'
      BY DEF ThreadOwns
    <2>3. CallerOwns'
      BY DEF CallerOwns
    <2> QED
      BY <2>1, <2>2, <2>3 DEF OneOwner, QueueOwns, ThreadOwns, CallerOwns
  <1>3. ASSUME NEW p \in Callers, EnqueueAppend(p) PROVE OneOwner'
    <2> USE <1>0, <1>3 DEF EnqueueAppend
    <2>0. ccmd[p] \in Cmds /\ ccmd[p] # NoCmd
      OBVIOUS
    <2>1. QueueOwns'
      <3>1. \A i \in DOMAIN cmd_queue' :
               \/ i \in DOMAIN cmd_queue /\ cmd_queue'[i] = cmd_queue[i]
               \/ i = Len(cmd_queue) + 1 /\ cmd_queue'[i] = ccmd[p]
        BY <2>0, AppendIndex
      <3> QED
        BY <2>0, <3>1 DEF QueueOwns, ThreadOwns, CallerOwns
    <2>2. ThreadOwns'
      BY DEF ThreadOwns
    <2>3. CallerOwns'
      BY DEF CallerOwns
    <2> QED
      BY <2>1, <2>2, <2>3 DEF OneOwner, QueueOwns, ThreadOwns, CallerOwns
  <1>4. ASSUME NEW t \in Threads, ThreadDequeue(t) PROVE OneOwner'
    <2> USE <1>0, <1>4 DEF ThreadDequeue
    <2>1. CASE cmd_queue = << >>
      BY <2>1 DEF OneOwner
    <2>2. CASE cmd_queue # << >>
      <3>1. 1 \in DOMAIN cmd_queue /\ Head(cmd_queue) = cmd_queue[1] /\ Head(cmd_queue) \in Cmds
        BY <2>2
      <3>2. \A i \in DOMAIN cmd_queue' :
               i + 1 \in DOMAIN cmd_queue /\ cmd_queue'[i] = cmd_queue[i + 1] /\ i + 1 # 1
        BY <2>2, TailIndex
      <3>3. pcmd' = [pcmd EXCEPT ![t] = cmd_queue[1]] /\ UNCHANGED <<live, ccmd>>
        BY <2>2, <3>1
      <3>4. QueueOwns'
        <4> SUFFICES ASSUME NEW i \in DOMAIN cmd_queue'
                     PROVE /\ cmd_queue'[i] \in live'
                           /\ \A j \in DOMAIN cmd_queue' : cmd_queue'[i] = cmd_queue'[j] => i = j
                           /\ \A u \in Threads : pcmd'[u] # cmd_queue'[i]
                           /\ \A p \in Callers : ccmd'[p] # cmd_queue'[i]
          BY DEF QueueOwns
        <4>1. i \in Int /\ \A j \in DOMAIN cmd_queue' : j \in Int
          BY <2>2
        <4> QED
          BY <3>1, <3>2, <3>3, <4>1 DEF QueueOwns
      <3>5. ThreadOwns'
        BY <3>1, <3>3 DEF QueueOwns, ThreadOwns
      <3>6. CallerOwns'
        BY <3>3 DEF CallerOwns
      <3> QED
        BY <3>4, <3>5, <3>6 DEF OneOwner, QueueOwns, ThreadOwns, CallerOwns
    <2> QED
      BY <2>1, <2>2
  <1>5. ASSUME NEW t \in Threads, NEW c \in Cmds, ThreadRunEnqueue(t, c) PROVE OneOwner'
    <2> USE <1>0, <1>5 DEF ThreadRunEnqueue
    <2>1. QueueOwns'
      <3>1. \A i \in DOMAIN cmd_queue' :
               \/ i \in DOMAIN cmd_queue /\ cmd_queue'[i] = cmd_queue[i]
               \/ i = Len(cmd_queue) + 1 /\ cmd_queue'[i] = c
        BY AppendIndex
      <3> QED
        BY <3>1 DEF QueueOwns, ThreadOwns, CallerOwns
    <2>2. ThreadOwns'
      BY DEF ThreadOwns
    <2>3. CallerOwns'
      BY DEF CallerOwns
    <2> QED
      BY <2>1, <2>2, <2>3 DEF OneOwner, QueueOwns, ThreadOwns, CallerOwns
  <1>6. ASSUME NEW t \in Threads, ThreadPost(t) PROVE OneOwner'
    <2> USE <1>0, <1>6 DEF ThreadPost, Goto
    <2>0. pcmd[t] \in Cmds /\ pcmd[t] # NoCmd
      OBVIOUS
    <2>1. QueueOwns'
      BY <2>0 DEF QueueOwns
    <2>2. ThreadOwns'
      BY <2>0 DEF ThreadOwns
    <2>3. CallerOwns'
      BY <2>0 DEF CallerOwns, ThreadOwns
    <2> QED
      BY <2>1, <2>2, <2>3 DEF OneOwner, QueueOwns, ThreadOwns, CallerOwns
  <1>7. ASSUME NEW t \in Threads, ThreadDrain(t) PROVE OneOwner'
    <2> USE <1>0, <1>7 DEF ThreadDrain
    <2>1. CASE cmd_queue = << >>
      BY <2>1 DEF OneOwner
    <2>2. CASE cmd_queue # << >>
      <3>1. 1 \in DOMAIN cmd_queue /\ Head(cmd_queue) = cmd_queue[1] /\ Head(cmd_queue) \in Cmds
        BY <2>2
      <3>2. \A i \in DOMAIN cmd_queue' :
               i + 1 \in DOMAIN cmd_queue /\ cmd_queue'[i] = cmd_queue[i + 1] /\ i + 1 # 1
        BY <2>2, TailIndex
      <3>3. live' = live \ {cmd_queue[1]} /\ UNCHANGED <<pcmd, ccmd>>
        BY <2>2, <3>1
      <3>4. QueueOwns'
        <4> SUFFICES ASSUME NEW i \in DOMAIN cmd_queue'
                     PROVE /\ cmd_queue'[i] \in live'
                           /\ \A j \in DOMAIN cmd_queue' : cmd_queue'[i] = cmd_queue'[j] => i = j
                           /\ \A u \in Threads : pcmd'[u] # cmd_queue'[i]
                           /\ \A p \in Callers : ccmd'[p] # cmd_queue'[i]
          BY DEF QueueOwns
        <4>1. i \in Int /\ \A j \in DOMAIN cmd_queue' : j \in Int
          BY <2>2
        <4> QED
          BY <3>1, <3>2, <3>3, <4>1 DEF QueueOwns
      <3>5. ThreadOwns' /\ CallerOwns'
        BY <3>1, <3>3 DEF QueueOwns, ThreadOwns, CallerOwns
      <3> QED
        BY <3>4, <3>5 DEF OneOwner, QueueOwns, ThreadOwns, CallerOwns
    <2> QED
      BY <2>1, <2>2
  <1>8. UNCHANGED <<cmd_queue, live, pcmd, ccmd>> => OneOwner'
    BY DEF OneOwner
  <1>9. ASSUME NEW t \in Threads,
               \/ ThreadStart(t) \/ ThreadDown(t) \/ ThreadSignalled(t) \/ ThreadNext(t)
               \/ ThreadFilter(t) \/ ThreadRun(t) \/ ThreadIpsBegin(t) \/ ThreadIpsLock(t)
               \/ ThreadIpsDown(t) \/ ThreadExit(t) \/ ThreadDone(t)
        PROVE  OneOwner'
    BY <1>8, <1>9 DEF ThreadStart, ThreadDown, ThreadSignalled, ThreadNext, ThreadFilter,
       ThreadRun, ThreadIpsBegin, ThreadIpsLock, ThreadIpsDown, ThreadExit, ThreadDone
  <1>10. ASSUME NEW p \in Callers, EnqueueUp(p) PROVE OneOwner'
    BY <1>8, <1>10 DEF EnqueueUp
  <1>11. CASE \/ OpenHal \/ OpenWait \/ StopWait \/ StopThread \/ StartThread
              \/ OpenInterrupted \/ StopInterrupted
              \/ UnloadDeinit \/ OpenBegin \/ UnloadBegin \/ RemoveClosed \/ Waker
              \/ DeviceLost \/ UNCHANGED vars
    BY <1>8, <1>11 DEF OpenHal, OpenWait, OpenDone, StopWait, StopDone,
       OpenInterrupted, StopInterrupted, StopThread, StartThread, UnloadDeinit,
       OpenBegin, UnloadBegin, RemoveClosed, Waker, IpsLeaveLock, IpsLeaveBegin,
       IpsLeaveHal, DeviceLost, vars
  <1> QED
    BY <1>1, <1>2, <1>3, <1>4, <1>5, <1>6, <1>7, <1>9, <1>10, <1>11
    DEF Next, Caller, ThreadStep, MainStep, Finished

\* Every cmd_obj that is queued or in somebody's hands is allocated and has
\* one owner: rtw_enqueue_cmd, the callbacks and the drain free none twice.
THEOREM Ownership == Spec => []OneOwner
  <1>1. Init => TypeInv /\ OneOwner
    BY InitTypeInv DEF Init, OneOwner
  <1>2. TypeInv /\ OneOwner /\ [Next]_vars => TypeInv' /\ OneOwner'
    BY StepTypeInv, StepOneOwner
  <1> QED
    BY <1>1, <1>2, PTL DEF Spec
-----------------------------------------------------------------------------
(***************************************************************************)
(* The hardware under a handler.                                           *)
(***************************************************************************)

\* The radio is off only while the hardware is not initialised, rtw_ips_leave
\* is at work only while it is off, and only a removal that is over, or a
\* suspend, has set bSurpriseRemoved.
HwInv ==
    /\ HandlerHasHw
    /\ rf_pwrstate = "ERFOFF" => ~ hw_init_completed
    /\ wpc # "idle" => mpc = "up" /\ rf_pwrstate = "ERFOFF"
    /\ bSurpriseRemoved => mpc \in {"suspended", "removed"}

\* Nothing it depends on changes, and no thread begins a handler.
HwFrame ==
    /\ UNCHANGED <<hw_init_completed, rf_pwrstate, wpc, bSurpriseRemoved>>
    /\ mpc \in {"up", "suspended", "removed"} => mpc' = mpc
    /\ \A t \in Threads : tpc'[t] \in {"run", "ips_lock", "ips_down"}
                         => tpc[t] \in {"run", "ips_lock", "ips_down"}

\* Such a step keeps it.
LEMMA FrameKeepsHw == HwInv /\ HwFrame => HwInv'
  BY DEF HwInv, HwFrame, HandlerHasHw

\* Without signals and unplugging every step preserves it: the hardware only
\* goes down in the thread itself, when no thread exists, or while the radio
\* was off and so no handler ran.
LEMMA StepHw ==
  ASSUME ~ Signals, ~ Unplug, TypeInv, JoinInv, HwInv, [Next]_vars
  PROVE  HwInv'
  <1> USE DEF TypeInv, TypeOK, ContextsOK, ControlOK, FlagsOK, MainAt, MainGoto, control,
              thread, flags
  <1>1. ASSUME NEW p \in Callers, Caller(p) PROVE HwFrame
    BY <1>1 DEF Caller, AllocCmd, EnqueueFilter, EnqueueAppend, EnqueueUp, HwFrame
  <1>2. ASSUME NEW t \in Threads, NEW c \in Cmds, ThreadRunEnqueue(t, c) PROVE HwFrame
    BY <1>2 DEF ThreadRunEnqueue, HwFrame
  <1>3. ASSUME NEW t \in Threads,
               \/ ThreadStart(t) \/ ThreadDown(t) \/ ThreadNext(t) \/ ThreadDequeue(t)
               \/ ThreadRun(t) \/ ThreadIpsBegin(t) \/ ThreadIpsLock(t)
               \/ ThreadPost(t) \/ ThreadExit(t) \/ ThreadDrain(t) \/ ThreadDone(t)
        PROVE  HwFrame
    BY <1>3 DEF ThreadStart, ThreadDown, ThreadNext, ThreadDequeue, ThreadRun, ThreadIpsBegin,
                ThreadIpsLock, ThreadPost, ThreadExit, ThreadDrain, ThreadDone, Goto, HwFrame
  <1>4. ASSUME NEW t \in Threads, ThreadFilter(t) PROVE HwInv'
    BY <1>4 DEF ThreadFilter, Goto, rtw_cmd_filter, HwInv, HandlerHasHw
  <1>5. ASSUME NEW t \in Threads, ThreadIpsDown(t) PROVE HwInv'
    <2>1. t = sessions /\ mpc \notin Quiet /\ \A u \in Threads \ {t} : ~ Alive(u)
      BY <1>5 DEF ThreadIpsDown, Goto, JoinInv, OnlyLastAlive, QuietJoined, Alive
    <2>2. ~ bSurpriseRemoved
      BY <2>1 DEF HwInv, Quiet
    <2>3. tpc'[t] = "post" /\ \A u \in Threads \ {t} : tpc'[u] \in {"none", "gone"}
      BY <1>5, <2>1 DEF ThreadIpsDown, Goto, Alive
    <2> QED
      BY <1>5, <2>2, <2>3 DEF ThreadIpsDown, HwInv, HandlerHasHw
  <1>6. CASE OpenBegin \/ OpenHal \/ UnloadDeinit
    <2>1. \A t \in Threads : tpc'[t] \in {"none", "gone"}
      BY <1>6 DEF OpenBegin, OpenHal, UnloadDeinit, JoinInv, QuietJoined, Quiet, Alive
    <2>2. HandlerHasHw'
      BY <2>1 DEF HandlerHasHw
    <2>3. wpc = "idle"
      BY <1>6 DEF OpenBegin, OpenHal, UnloadDeinit, HwInv
    <2> QED
      BY <1>6, <2>2, <2>3 DEF OpenBegin, OpenHal, UnloadDeinit, HwInv
  <1>7. CASE \/ OpenWait \/ StopThread \/ StopWait \/ RemoveClosed \/ UnloadBegin
    BY <1>7 DEF OpenWait, OpenDone, StopThread, StopWait, StopDone, RemoveClosed,
                UnloadBegin, HwInv, HandlerHasHw
  <1>8. CASE StartThread
    BY <1>8 DEF StartThread, HwInv, HandlerHasHw
  <1>9. CASE IpsLeaveLock \/ IpsLeaveBegin \/ IpsLeaveHal
    BY <1>9 DEF IpsLeaveLock, IpsLeaveBegin, IpsLeaveHal, HwInv, HandlerHasHw
  <1>10. CASE UNCHANGED vars
    BY <1>10, FrameKeepsHw DEF vars, HwFrame
  <1> QED
    BY <1>1, <1>2, <1>3, <1>4, <1>5, <1>6, <1>7, <1>8, <1>9, <1>10, FrameKeepsHw
    DEF Next, ThreadStep, ThreadSignalled, MainStep, OpenInterrupted, StopInterrupted, Waker,
        DeviceLost, Finished

\* A handler runs on initialised hardware only, although the filter of the
\* thread was evaluated earlier and IPS switches the hardware off and on, when
\* no signal interrupts a wait and the device stays.
THEOREM HandlersHaveHw == ASSUME ~ Signals, ~ Unplug PROVE Spec => []HandlerHasHw
  <1> DEFINE I == TypeInv /\ JoinInv /\ HwInv
  <1>1. Init => I
    BY InitTypeInv DEF Init, JoinInv, OnlyLastAlive, QuietJoined, StarterCount,
       StopperCount, Alive, HwInv, HandlerHasHw
  <1>2. I /\ [Next]_vars => I'
    BY StepTypeInv, StepJoin, StepHw
  <1>3. I => HandlerHasHw
    BY DEF HwInv
  <1> QED
    BY <1>1, <1>2, <1>3, PTL DEF Spec
=============================================================================
